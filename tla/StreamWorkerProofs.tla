-------------------------- MODULE StreamWorkerProofs -------------------------
(* Theorems about the batch loop, for any workers, bounds and batch size. *)
EXTENDS StreamWorker, FiniteSetTheorems, TLAPS

(***************************************************************************)
(* What the operations of the consumer group preserve.                     *)
(***************************************************************************)
\* The initial stream and group are well typed.
LEMMA GroupInitType == GroupInit => GroupTypeOK
  BY GroupAssumption DEF GroupInit, GroupTypeOK

\* Appending an entry keeps every id the group knows valid.
LEMMA XAddType ==
  ASSUME GroupTypeOK, NEW p \in Payloads, XAdd(p)
  PROVE  GroupTypeOK' /\ Len(stream') = Len(stream) + 1
<1>1. stream' \in Seq(Payloads) /\ Len(stream') = Len(stream) + 1
  BY DEF XAdd, GroupTypeOK
<1>2. trimmed' \in 0..Len(stream')
  BY <1>1 DEF XAdd, GroupTypeOK
<1>3. QED
  BY <1>1, <1>2 DEF XAdd, GroupTypeOK

\* A drain moves the cursor forward, never past the end, and hands out only
\* entries the group has delivered.
LEMMA ReadType ==
  ASSUME GroupTypeOK, NEW w \in Workers, Read(w)
  PROVE  /\ GroupTypeOK'
         /\ cursor <= cursor'
         /\ fresh'[w] \cup claimed'[w] \subseteq 1..cursor'
<1>1. /\ Seen \in Nat /\ cursor <= Seen /\ Seen <= Len(stream)
      /\ LastRead \in Nat /\ Seen <= LastRead /\ LastRead <= Len(stream)
  BY GroupAssumption DEF GroupTypeOK, Seen, LastRead
<1>2. PICK stale \in SUBSET Claimable :
         /\ cursor' = LastRead
         /\ fresh' = [fresh EXCEPT ![w] = (Seen + 1)..LastRead]
         /\ claimed' = [claimed EXCEPT ![w] = stale]
         /\ UNCHANGED <<stream, trimmed, acked, ackIds, faults, crashes>>
  BY DEF Read
<1>3. stale \subseteq 1..cursor /\ (Seen + 1)..LastRead \subseteq 1..LastRead
  BY <1>1 DEF Claimable, Pending
<1>4. cursor \in Nat /\ 1..cursor \subseteq 1..cursor' /\ cursor <= cursor'
  BY <1>1, <1>2 DEF GroupTypeOK
<1>5. /\ fresh' \in [Workers -> SUBSET (1..cursor')]
      /\ claimed' \in [Workers -> SUBSET (1..cursor')]
      /\ ackIds' \in [Workers -> SUBSET (1..cursor')]
      /\ acked' \in SUBSET (1..cursor')
  BY <1>2, <1>3, <1>4 DEF GroupTypeOK
<1>6. cursor' \in 0..Len(stream')
  BY <1>1, <1>2
<1>7. QED
  BY <1>2, <1>4, <1>5, <1>6 DEF GroupTypeOK

\* The four ways a batch goes on keep the group well typed.
LEMMA FinishType ==
  ASSUME GroupTypeOK, NEW w \in Workers, NEW e \in 1..cursor, Finish(w, e)
  PROVE  GroupTypeOK'
  BY DEF GroupTypeOK, Finish

LEMMA FailEntryType ==
  ASSUME GroupTypeOK, NEW w \in Workers, NEW e \in 1..cursor, FailEntry(w, e)
  PROVE  GroupTypeOK'
  BY GroupAssumption DEF GroupTypeOK, FailEntry

LEMMA AckType ==
  ASSUME GroupTypeOK, NEW w \in Workers, Ack(w) \/ AckLost(w)
  PROVE  GroupTypeOK'
<1>1. CASE Ack(w)
  BY <1>1 DEF GroupTypeOK, Ack
<1>2. CASE AckLost(w)
  BY <1>2, GroupAssumption DEF GroupTypeOK, AckLost
<1>3. QED
  BY <1>1, <1>2

LEMMA CrashType ==
  ASSUME GroupTypeOK, NEW w \in Workers, Crash(w)
  PROVE  GroupTypeOK'
  BY GroupAssumption DEF GroupTypeOK, Crash

(***************************************************************************)
(* Type correctness.                                                       *)
(***************************************************************************)
\* Every reachable state of the batch loop is well typed: a cursor, batch or
\* acknowledgement never names an entry the stream did not have.
THEOREM TypeCorrect == Spec => []TypeOK
<1>1. Init => TypeOK
  BY GroupInitType, GroupAssumption DEF Init, TypeOK, GroupInit
<1>2. TypeOK /\ [Next]_vars => TypeOK'
  <2> SUFFICES ASSUME TypeOK, [Next]_vars PROVE TypeOK'
    OBVIOUS
  <2> USE DEF TypeOK
  <2>0. cursor \in Nat
    BY DEF GroupTypeOK
  <2>1. ASSUME NEW p \in Payloads, Produce(p) PROVE TypeOK'
    BY <2>1, XAddType DEF Produce, XAdd
  <2>2. ASSUME NEW w \in Workers, Deliver(w) PROVE TypeOK'
    <3>1. GroupTypeOK' /\ cursor <= cursor' /\ cursor' \in Nat
      BY <2>2, ReadType, SMTT(30) DEF Deliver, GroupTypeOK
    <3>2. effects' \in SUBSET (1..cursor')
      BY <2>0, <2>2, <3>1 DEF Deliver
    <3>3. deliveries' \in [1..MaxEntries -> Nat]
      BY <2>2 DEF Deliver
    <3>4. QED
      BY <3>1, <3>2, <3>3
  <2>3. ASSUME NEW w \in Workers, NEW e \in 1..cursor, ProcessEntry(w, e) PROVE TypeOK'
    BY <2>3, FinishType DEF ProcessEntry, Finish
  <2>4. ASSUME NEW w \in Workers, NEW e \in 1..cursor, EntryRaises(w, e) PROVE TypeOK'
    BY <2>4, FailEntryType DEF EntryRaises, FailEntry
  <2>5. ASSUME NEW w \in Workers, Acknowledge(w) \/ AcknowledgeFails(w) PROVE TypeOK'
    BY <2>5, AckType DEF Acknowledge, AcknowledgeFails, Ack, AckLost
  <2>6. ASSUME NEW w \in Workers, Die(w) PROVE TypeOK'
    BY <2>6, CrashType DEF Die, Crash
  <2>7. CASE UNCHANGED vars
    BY <2>7 DEF vars, groupVars, GroupTypeOK
  <2>8. QED
    BY <2>1, <2>2, <2>3, <2>4, <2>5, <2>6, <2>7 DEF Next
<1>3. QED
  BY <1>1, <1>2, PTL DEF Spec

(***************************************************************************)
(* An acknowledged entry had its effect.                                   *)
(***************************************************************************)
\* The strengthening: so did every entry waiting for the batch's XACK.
EffectInv ==
    /\ AckedHadEffect
    /\ \A w \in Workers : ackIds[w] \subseteq effects

\* Every step of the loop keeps EffectInv.
LEMMA EffectInvStep == TypeOK /\ EffectInv /\ [Next]_vars => EffectInv'
<1> SUFFICES ASSUME TypeOK, EffectInv, [Next]_vars PROVE EffectInv'
  OBVIOUS
<1> USE DEF EffectInv, AckedHadEffect
<1>1. ASSUME NEW p \in Payloads, Produce(p) PROVE EffectInv'
  BY <1>1 DEF Produce, XAdd
<1>2. ASSUME NEW w \in Workers, Deliver(w) PROVE EffectInv'
  BY <1>2 DEF Deliver, Read
<1>3. ASSUME NEW w \in Workers, NEW e \in 1..cursor, ProcessEntry(w, e) PROVE EffectInv'
  BY <1>3 DEF ProcessEntry, Finish, TypeOK, GroupTypeOK
<1>4. ASSUME NEW w \in Workers, NEW e \in 1..cursor, EntryRaises(w, e) PROVE EffectInv'
  BY <1>4 DEF EntryRaises, FailEntry
<1>5. ASSUME NEW w \in Workers, Acknowledge(w) \/ AcknowledgeFails(w) PROVE EffectInv'
  BY <1>5 DEF Acknowledge, AcknowledgeFails, Ack, AckLost, TypeOK, GroupTypeOK
<1>6. ASSUME NEW w \in Workers, Die(w) PROVE EffectInv'
  BY <1>6 DEF Die, Crash, TypeOK, GroupTypeOK
<1>7. CASE UNCHANGED vars
  BY <1>7 DEF vars, groupVars
<1>8. QED
  BY <1>1, <1>2, <1>3, <1>4, <1>5, <1>6, <1>7 DEF Next

\* No entry is acknowledged whose side effect has not happened: a failed,
\* cancelled or crashed entry is always left for reclaim.
THEOREM AckedHadEffectHolds == Spec => []AckedHadEffect
<1>1. Init => EffectInv
  BY DEF Init, GroupInit, EffectInv, AckedHadEffect
<1>2. QED
  BY <1>1, EffectInvStep, TypeCorrect, PTL DEF Spec, EffectInv

(***************************************************************************)
(* The loop implements at-least-once consumption.                          *)
(***************************************************************************)
\* Each step of the loop is an Add, a Handle, a Retire or a stutter of
\* AtLeastOnce under the mapping of StreamWorker.
LEMMA StepImplements ==
  TypeOK /\ TypeOK' /\ EffectInv /\ [Next]_vars => [Promise!Next]_(Promise!vars)
<1> SUFFICES ASSUME TypeOK, TypeOK', EffectInv, [Next]_vars
             PROVE  [Promise!Next]_(Promise!vars)
  OBVIOUS
<1> USE DEF Promise!Next, Promise!vars
<1>1. ASSUME NEW p \in Payloads, Produce(p) PROVE Promise!Add
  BY <1>1, XAddType DEF Produce, XAdd, Promise!Add, TypeOK
<1>2. ASSUME NEW w \in Workers, Deliver(w) PROVE UNCHANGED Promise!vars
  BY <1>2 DEF Deliver, Read
<1>3. ASSUME NEW w \in Workers, NEW e \in 1..cursor, ProcessEntry(w, e) PROVE Promise!Handle
  BY <1>3 DEF ProcessEntry, Finish, Promise!Handle, TypeOK, GroupTypeOK
<1>4. ASSUME NEW w \in Workers, NEW e \in 1..cursor, EntryRaises(w, e) PROVE Promise!Handle
  BY <1>4 DEF EntryRaises, FailEntry, Promise!Handle, TypeOK, GroupTypeOK
<1>5. ASSUME NEW w \in Workers, Acknowledge(w) PROVE Promise!Retire
  BY <1>5 DEF Acknowledge, Ack, Promise!Retire, EffectInv, AckedHadEffect
<1>6. ASSUME NEW w \in Workers, AcknowledgeFails(w) \/ Die(w) PROVE UNCHANGED Promise!vars
  BY <1>6 DEF AcknowledgeFails, AckLost, Die, Crash
<1>7. CASE UNCHANGED vars
  BY <1>7 DEF vars, groupVars
<1>8. QED
  BY <1>1, <1>2, <1>3, <1>4, <1>5, <1>6, <1>7 DEF Next

\* The batch loop, crashes and failures included, refines AtLeastOnce.
THEOREM LoopImplementsAtLeastOnce == Spec => ImplementsAtLeastOnce
<1>1. Init => Promise!Init /\ EffectInv
  BY DEF Init, GroupInit, Promise!Init, EffectInv, AckedHadEffect
<1>2. QED
  BY <1>1, EffectInvStep, StepImplements, TypeCorrect, PTL
     DEF Spec, ImplementsAtLeastOnce, Promise!Spec

(***************************************************************************)
(* Redelivery needs a reason, however slow the handlers are.               *)
(***************************************************************************)
Holders(e) == {w \in Workers : e \in HeldBy(w)}

\* What a drain hands to w is not acknowledged and not in w's hands, and it is
\* in nobody's if handlers finish within the idle time.
LEMMA ReadIsFresh ==
  ASSUME GroupTypeOK, NEW w \in Workers, Read(w),
         NEW e \in fresh'[w] \cup claimed'[w]
  PROVE  e \notin acked /\ w \notin Holders(e) /\ (~SlowHandlers => Holders(e) = {})
<1>1. Seen \in Nat /\ cursor \in Nat /\ cursor <= Seen /\ LastRead \in Nat
  BY GroupAssumption DEF GroupTypeOK, Seen, LastRead
<1>2. PICK stale \in SUBSET Claimable :
         /\ fresh' = [fresh EXCEPT ![w] = (Seen + 1)..LastRead]
         /\ claimed' = [claimed EXCEPT ![w] = stale]
  BY DEF Read
<1>3. e \in (Seen + 1)..LastRead \/ e \in Claimable
  BY <1>2 DEF GroupTypeOK
<1>4. w \notin Holders(e)
  BY DEF Read, Idle, BatchDone, Holders, HeldBy
<1>5. CASE e \in Claimable
  BY <1>4, <1>5 DEF Claimable, Pending, Held, Holders
<1>6. CASE e \in (Seen + 1)..LastRead
  <2>1. e \notin 1..cursor
    BY <1>1, <1>6
  <2>2. QED
    BY <1>4, <2>1 DEF Holders, HeldBy, GroupTypeOK
<1>7. QED
  BY <1>3, <1>5, <1>6

\* How many hold an entry, when a worker joins them and when one may leave.
LEMMA HoldersCount ==
  ASSUME NEW S, IsFiniteSet(S), NEW w
  PROVE  /\ Cardinality(S) \in Nat
         /\ w \notin S => Cardinality(S \cup {w}) = Cardinality(S) + 1
         /\ \A T \in SUBSET S : /\ Cardinality(T) \in Nat
                                /\ Cardinality(T) <= Cardinality(S)
                                /\ S \ {w} \subseteq T => Cardinality(S) <= Cardinality(T) + 1
<1>1. Cardinality(S) \in Nat /\ (w \notin S => Cardinality(S \cup {w}) = Cardinality(S) + 1)
  BY FS_CardinalityType, FS_AddElement
<1>2. ASSUME NEW T \in SUBSET S
      PROVE  Cardinality(T) \in Nat /\ Cardinality(T) <= Cardinality(S) /\ IsFiniteSet(T)
  BY FS_Subset, FS_CardinalityType
<1>3. ASSUME NEW T \in SUBSET S, S \ {w} \subseteq T
      PROVE  Cardinality(S) <= Cardinality(T) + 1
  <2>1. CASE w \in T \/ w \notin S
    <3>1. T = S
      BY <1>3, <2>1
    <3>2. QED
      BY <1>1, <3>1
  <2>2. CASE w \in S /\ w \notin T
    <3>1. S = T \cup {w}
      BY <1>3, <2>2
    <3>2. Cardinality(T \cup {w}) = Cardinality(T) + 1
      BY <1>2, <1>3, <2>2, FS_AddElement
    <3>3. QED
      BY <1>2, <1>3, <3>1, <3>2
  <2>3. QED
    BY <2>1, <2>2
<1>4. QED
  BY <1>1, <1>2, <1>3

\* The strengthening: while an entry is not acknowledged, its deliveries that
\* no fault paid for are the ones to the workers that hold it now.
Charge(e) == IF e \in acked THEN MayShare ELSE Cardinality(Holders(e))

RedeliveryInv ==
    \A e \in 1..MaxEntries :
        /\ Cardinality(Holders(e)) <= MayShare
        /\ deliveries[e] <= Charge(e) + faults + crashes

\* Whoever holds an entry is a worker, and the counts are numbers.
LEMMA CountsAreNumbers ==
  ASSUME TypeOK, NEW e \in 1..MaxEntries
  PROVE  /\ IsFiniteSet(Holders(e)) /\ Cardinality(Holders(e)) \in Nat
         /\ Cardinality(Holders(e)) <= Cardinality(Workers)
         /\ MayShare \in Nat /\ Charge(e) \in Nat
         /\ deliveries[e] \in Nat /\ faults \in Nat /\ crashes \in Nat
<1>1. IsFiniteSet(Workers) /\ Holders(e) \subseteq Workers
  BY GroupAssumption DEF Holders
<1>2. /\ IsFiniteSet(Holders(e)) /\ Cardinality(Holders(e)) \in Nat
      /\ Cardinality(Holders(e)) <= Cardinality(Workers) /\ Cardinality(Workers) \in Nat
  BY <1>1, FS_Subset, FS_CardinalityType
<1>3. MayShare \in Nat /\ Charge(e) \in Nat
  BY <1>2 DEF MayShare, Charge
<1>4. QED
  BY <1>2, <1>3 DEF TypeOK, GroupTypeOK

\* Every step of the loop keeps RedeliveryInv.
LEMMA RedeliveryStep == TypeOK /\ TypeOK' /\ RedeliveryInv /\ [Next]_vars => RedeliveryInv'
<1> SUFFICES ASSUME TypeOK, TypeOK', RedeliveryInv, [Next]_vars, NEW e \in 1..MaxEntries
             PROVE  /\ Cardinality(Holders(e)') <= MayShare
                    /\ deliveries'[e] <= Charge(e)' + faults' + crashes'
  BY DEF RedeliveryInv, MayShare, Holders
<1> DEFINE Kept == /\ Cardinality(Holders(e)') <= MayShare
                   /\ deliveries'[e] <= Charge(e)' + faults' + crashes'
           C == Cardinality(Holders(e))
           D == Cardinality(Holders(e)')
<1>0. /\ IsFiniteSet(Holders(e)) /\ C \in Nat /\ MayShare \in Nat /\ Charge(e) \in Nat
      /\ deliveries[e] \in Nat /\ faults \in Nat /\ crashes \in Nat
      /\ C <= MayShare /\ deliveries[e] <= Charge(e) + faults + crashes
  BY CountsAreNumbers DEF RedeliveryInv
<1>1. /\ Charge(e) = IF e \in acked THEN MayShare ELSE C
      /\ Charge(e)' = IF e \in acked' THEN MayShare ELSE D
  BY DEF Charge, MayShare
<1>2. ASSUME NEW w \in Workers, Holders(e)' \subseteq Holders(e), Holders(e) \ {w} \subseteq Holders(e)',
             deliveries' = deliveries, acked' = acked,
             \/ faults' = faults + 1 /\ crashes' = crashes
             \/ faults' = faults /\ crashes' = crashes + 1
      PROVE  Kept
  <2>1. D \in Nat /\ D <= C /\ C <= D + 1
    BY <1>0, <1>2, HoldersCount
  <2>2. QED
    BY <1>0, <1>1, <1>2, <2>1
<1>3. ASSUME deliveries'[e] = deliveries[e], faults' = faults, crashes' = crashes,
             Holders(e)' \subseteq Holders(e),
             e \in acked => e \in acked', e \in acked' \/ Holders(e)' = Holders(e)
      PROVE  Kept
  <2>1. D \in Nat /\ D <= C
    BY <1>0, <1>3, HoldersCount
  <2>2. CASE e \in acked'
    BY <1>0, <1>1, <1>3, <2>1, <2>2
  <2>3. CASE e \notin acked'
    BY <1>0, <1>1, <1>3, <2>1, <2>3
  <2>4. QED
    BY <2>2, <2>3
<1>4. ASSUME NEW w \in Workers, Deliver(w) PROVE Kept
  <2>1. Read(w) /\ UNCHANGED <<acked, ackIds, faults, crashes>>
    BY <1>4 DEF Deliver, Read
  <2>2. \A x \in Workers \ {w} : HeldBy(x)' = HeldBy(x)
    BY <2>1 DEF Read, HeldBy, TypeOK, GroupTypeOK
  <2>3. HeldBy(w) = {} /\ HeldBy(w)' = fresh'[w] \cup claimed'[w]
    BY <2>1 DEF Read, Idle, BatchDone, HeldBy
  <2>4. CASE e \in fresh'[w] \cup claimed'[w]
    <3>1. e \notin acked /\ w \notin Holders(e) /\ (~SlowHandlers => Holders(e) = {})
      BY <2>1, <2>4, ReadIsFresh DEF TypeOK
    <3>2. Holders(e)' = Holders(e) \cup {w}
      BY <2>2, <2>3, <2>4 DEF Holders
    <3>3. D = C + 1
      BY <1>0, <3>1, <3>2, HoldersCount
    <3>4. deliveries'[e] = deliveries[e] + 1
      BY <1>4, <2>4 DEF Deliver
    <3>5. D <= MayShare
      <4>1. CASE SlowHandlers
        BY <4>1, CountsAreNumbers, FS_Subset, GroupAssumption DEF MayShare, Holders
      <4>2. CASE ~SlowHandlers
        <5>1. C = 0
          BY <3>1, <4>2, FS_EmptySet
        <5>2. QED
          BY <3>3, <4>2, <5>1 DEF MayShare
      <4>3. QED
        BY <4>1, <4>2
    <3>6. QED
      BY <1>0, <1>1, <2>1, <3>1, <3>3, <3>4, <3>5
  <2>5. CASE e \notin fresh'[w] \cup claimed'[w]
    <3>1. deliveries'[e] = deliveries[e]
      BY <1>4, <2>5 DEF Deliver
    <3>2. Holders(e)' = Holders(e)
      BY <2>2, <2>3, <2>5 DEF Holders
    <3>3. QED
      BY <1>3, <2>1, <3>1, <3>2
  <2>6. QED
    BY <2>4, <2>5
<1>5. ASSUME NEW w \in Workers, NEW f \in 1..cursor, ProcessEntry(w, f) PROVE Kept
  <2>1. Holders(e)' = Holders(e)
    BY <1>5 DEF ProcessEntry, Finish, IsNext, Holders, HeldBy, TypeOK, GroupTypeOK
  <2>2. QED
    BY <1>3, <1>5, <2>1 DEF ProcessEntry, Finish
<1>6. ASSUME NEW w \in Workers, NEW f \in 1..cursor, EntryRaises(w, f) PROVE Kept
  <2>1. Holders(e)' \subseteq Holders(e) /\ Holders(e) \ {w} \subseteq Holders(e)'
    BY <1>6 DEF EntryRaises, FailEntry, Holders, HeldBy, TypeOK, GroupTypeOK
  <2>2. QED
    BY <1>2, <1>6, <2>1 DEF EntryRaises, FailEntry
<1>7. ASSUME NEW w \in Workers, Acknowledge(w) PROVE Kept
  <2>1. Holders(e)' \subseteq Holders(e) /\ (e \in acked' \/ Holders(e)' = Holders(e))
    BY <1>7 DEF Acknowledge, Ack, BatchDone, Holders, HeldBy, TypeOK, GroupTypeOK
  <2>2. QED
    BY <1>3, <1>7, <2>1 DEF Acknowledge, Ack
<1>8. ASSUME NEW w \in Workers, AcknowledgeFails(w) \/ Die(w) PROVE Kept
  <2>1. Holders(e)' \subseteq Holders(e) /\ Holders(e) \ {w} \subseteq Holders(e)'
    BY <1>8 DEF AcknowledgeFails, AckLost, Die, Crash, Holders, HeldBy, TypeOK, GroupTypeOK
  <2>2. QED
    BY <1>2, <1>8, <2>1 DEF AcknowledgeFails, AckLost, Die, Crash
<1>9. ASSUME UNCHANGED <<fresh, claimed, ackIds, acked, deliveries, faults, crashes>> PROVE Kept
  <2>1. Holders(e)' = Holders(e)
    BY <1>9 DEF Holders, HeldBy
  <2>2. QED
    BY <1>3, <1>9, <2>1
<1>10. QED
  BY <1>4, <1>5, <1>6, <1>7, <1>8, <1>9 DEF Next, Produce, XAdd, vars, groupVars

\* An entry is handed out again only to a worker that does not have it, while
\* another is slow with it, or after a failure, a lost XACK or a crash.
THEOREM RedeliveryIsPaidForHolds == Spec => []RedeliveryIsPaidFor
<1>1. Init => RedeliveryInv
  <2> SUFFICES ASSUME Init, NEW e \in 1..MaxEntries
               PROVE  /\ Cardinality(Holders(e)) <= MayShare
                      /\ deliveries[e] <= Charge(e) + faults + crashes
    BY DEF RedeliveryInv
  <2>1. Holders(e) = {} /\ acked = {} /\ deliveries[e] = 0 /\ faults = 0 /\ crashes = 0
    BY DEF Init, GroupInit, Holders, HeldBy
  <2>2. Cardinality(Holders(e)) = 0 /\ MayShare \in Nat
    BY <2>1, FS_EmptySet, FS_CardinalityType, GroupAssumption DEF MayShare
  <2>3. QED
    BY <2>1, <2>2 DEF Charge
<1>2. TypeOK /\ RedeliveryInv => RedeliveryIsPaidFor
  <2> SUFFICES ASSUME TypeOK, RedeliveryInv, NEW e \in 1..MaxEntries
               PROVE  deliveries[e] <= MayShare + faults + crashes
    BY DEF RedeliveryIsPaidFor
  <2>1. Charge(e) <= MayShare /\ deliveries[e] <= Charge(e) + faults + crashes
    BY CountsAreNumbers DEF RedeliveryInv, Charge
  <2>2. QED
    BY <2>1, CountsAreNumbers
<1>3. QED
  BY <1>1, <1>2, RedeliveryStep, TypeCorrect, PTL DEF Spec

=============================================================================
