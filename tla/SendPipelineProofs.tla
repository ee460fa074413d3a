-------------------------- MODULE SendPipelineProofs -------------------------
(***************************************************************************)
(* Theorems about the send pipeline, for any number of workers, messages,  *)
(* duplicates, failures and crashes.                                       *)
(***************************************************************************)
EXTENDS SendPipeline, FiniteSetTheorems, TLAPS

(***************************************************************************)
(* What the operations of the consumer group preserve.                     *)
(***************************************************************************)
\* The initial stream and group are well typed.
LEMMA GroupInitType == GroupInit => GroupTypeOK
  BY GroupAssumption DEF GroupInit, GroupTypeOK

\* Appending an entry keeps every id the group knows valid.
LEMMA XAddType ==
  ASSUME GroupTypeOK, NEW p \in Payloads, XAdd(p)
  PROVE  GroupTypeOK' /\ Len(stream') = Len(stream) + 1
<1>1. stream' \in Seq(Payloads) /\ Len(stream') = Len(stream) + 1
  BY DEF XAdd, GroupTypeOK
<1>2. trimmed' \in 0..Len(stream')
  BY <1>1 DEF XAdd, GroupTypeOK
<1>3. QED
  BY <1>1, <1>2 DEF XAdd, GroupTypeOK

\* A drain moves the cursor forward, never past the end, and hands out only
\* entries the group has delivered.
LEMMA ReadType ==
  ASSUME GroupTypeOK, NEW w \in Workers, Read(w)
  PROVE  /\ GroupTypeOK'
         /\ cursor <= cursor'
         /\ fresh'[w] \cup claimed'[w] \subseteq 1..cursor'
<1>1. /\ Seen \in Nat /\ cursor <= Seen /\ Seen <= Len(stream)
      /\ LastRead \in Nat /\ Seen <= LastRead /\ LastRead <= Len(stream)
  BY GroupAssumption DEF GroupTypeOK, Seen, LastRead
<1>2. PICK stale \in SUBSET Claimable :
         /\ cursor' = LastRead
         /\ fresh' = [fresh EXCEPT ![w] = (Seen + 1)..LastRead]
         /\ claimed' = [claimed EXCEPT ![w] = stale]
         /\ UNCHANGED <<stream, trimmed, acked, ackIds, faults, crashes>>
  BY DEF Read
<1>3. stale \subseteq 1..cursor /\ (Seen + 1)..LastRead \subseteq 1..LastRead
  BY <1>1 DEF Claimable, Pending
<1>4. cursor \in Nat /\ 1..cursor \subseteq 1..cursor' /\ cursor <= cursor'
  BY <1>1, <1>2 DEF GroupTypeOK
<1>5. /\ fresh' \in [Workers -> SUBSET (1..cursor')]
      /\ claimed' \in [Workers -> SUBSET (1..cursor')]
      /\ ackIds' \in [Workers -> SUBSET (1..cursor')]
      /\ acked' \in SUBSET (1..cursor')
  BY <1>2, <1>3, <1>4 DEF GroupTypeOK
<1>6. cursor' \in 0..Len(stream')
  BY <1>1, <1>2
<1>7. QED
  BY <1>2, <1>4, <1>5, <1>6 DEF GroupTypeOK

\* The four ways a batch goes on keep the group well typed.
LEMMA FinishType ==
  ASSUME GroupTypeOK, NEW w \in Workers, NEW e \in 1..cursor, Finish(w, e)
  PROVE  GroupTypeOK'
  BY DEF GroupTypeOK, Finish

LEMMA FailEntryType ==
  ASSUME GroupTypeOK, NEW w \in Workers, NEW e \in 1..cursor, FailEntry(w, e)
  PROVE  GroupTypeOK'
  BY GroupAssumption DEF GroupTypeOK, FailEntry

LEMMA AckType ==
  ASSUME GroupTypeOK, NEW w \in Workers, Ack(w) \/ AckLost(w)
  PROVE  GroupTypeOK'
<1>1. CASE Ack(w)
  BY <1>1 DEF GroupTypeOK, Ack
<1>2. CASE AckLost(w)
  BY <1>2, GroupAssumption DEF GroupTypeOK, AckLost
<1>3. QED
  BY <1>1, <1>2

LEMMA CrashType ==
  ASSUME GroupTypeOK, NEW w \in Workers, Crash(w)
  PROVE  GroupTypeOK'
  BY GroupAssumption DEF GroupTypeOK, Crash

(***************************************************************************)
(* Facts about the batch loop that every step of process_outgoing uses.    *)
(***************************************************************************)
\* A worker is at one entry at a time.
LEMMA NextUnique ==
  ASSUME GroupTypeOK, NEW w \in Workers, NEW e, NEW f, IsNext(w, e), IsNext(w, f)
  PROVE  e = f /\ e \in Entries /\ e \in 1..cursor
<1>1. /\ cursor \in Nat /\ Len(stream) \in Nat /\ cursor <= Len(stream)
      /\ fresh[w] \subseteq 1..cursor /\ claimed[w] \subseteq 1..cursor
  BY DEF GroupTypeOK
<1>2. e \in 1..cursor /\ f \in 1..cursor
  BY <1>1 DEF IsNext
<1>3. e <= f /\ f <= e
  BY <1>1, <1>2 DEF IsNext
<1>4. QED
  BY <1>1, <1>2, <1>3 DEF Entries

\* A worker that is at an entry has not finished its batch.
LEMMA NextNotDone == \A w, e : IsNext(w, e) => ~BatchDone(w)
  BY DEF IsNext, BatchDone

(***************************************************************************)
(* Type correctness.                                                       *)
(***************************************************************************)
\* Dropping the locals of process_outgoing keeps the state well typed.
LEMMA ForgetType ==
  ASSUME TypeOK, NEW w \in Workers, Forget(w), UNCHANGED <<dbVars, outVars>>, GroupTypeOK'
  PROVE  TypeOK'
<1>1. /\ step' \in [Workers -> Steps]
      /\ got' \in [Workers -> 0..MaxIds]
      /\ byKey' \in [Workers -> BOOLEAN]
  BY SendAssumption DEF TypeOK, Forget, Goto, Steps
<1>2. \A v \in Workers : step'[v] \in NeedsId => got'[v] \in Ids
  BY DEF TypeOK, Forget, Goto, NeedsId
<1>3. /\ (member \in [Payloads -> BOOLEAN])' /\ (moves \in 0..MaxMoves)'
      /\ (nextId \in 1..MaxIds + 1)' /\ (rows \in SUBSET Row)'
      /\ (blobRefs \in [Payloads -> Nat])'
  BY DEF TypeOK, dbVars
<1>4. /\ (idem \in [Payloads -> Ids \cup {Absent, InFlight}])'
      /\ (lapsed \in SUBSET Payloads)'
      /\ (embedQ \in SUBSET Ids)' /\ (fanned \in SUBSET Ids)'
      /\ notices' \in SUBSET ({"message_failed", "message_already_sent"} \X Payloads)
  BY DEF TypeOK, outVars
<1>5. QED
  BY <1>1, <1>2, <1>3, <1>4 DEF TypeOK

\* Each step of process_outgoing keeps the state well typed.
LEMMA ProcessType ==
  ASSUME TypeOK, NEW w \in Workers, NEW e \in Entries, ProcessEntry(w, e)
  PROVE  TypeOK'
<1> USE DEF TypeOK, Goto, Steps, NeedsId, At
<1>0. stream[e] \in Payloads /\ MaxIds \in Nat
  BY SendAssumption DEF GroupTypeOK, Entries
<1>u. UNCHANGED groupVars => GroupTypeOK'
  BY DEF GroupTypeOK, groupVars
<1>1. CASE Check(w, e)
  BY <1>0, <1>u, <1>1 DEF Check, dbVars, outVars
<1>2. CASE Reject(w, e)
  BY <1>0, <1>u, <1>2 DEF Reject, dbVars
<1>3. CASE Reserve(w, e)
  BY <1>0, <1>u, <1>3 DEF Reserve, dbVars
<1>4. CASE FoundSent(w, e)
  BY <1>0, <1>u, <1>4 DEF FoundSent, dbVars, outVars, Ids
<1>5. CASE TakeOver(w, e)
  BY <1>0, <1>u, <1>5 DEF TakeOver, dbVars, outVars
<1>6. CASE MintId(w, e)
  BY <1>0, <1>u, <1>6 DEF MintId, outVars, Ids
<1>7. CASE CommitRow(w, e)
  BY <1>0, <1>u, <1>7 DEF CommitRow, outVars, Row
<1>8. CASE RecordId(w, e)
  BY <1>0, <1>u, <1>8 DEF RecordId, dbVars
<1>9. CASE EnqueueEmbedding(w, e)
  BY <1>0, <1>u, <1>9 DEF EnqueueEmbedding, dbVars
<1>10. CASE EnqueueFanout(w, e)
  BY <1>0, <1>u, <1>10 DEF EnqueueFanout, dbVars
<1>11. CASE EnqueueFanoutAgain(w, e)
  BY <1>0, <1>u, <1>11 DEF EnqueueFanoutAgain, dbVars
<1>12. CASE TellAlreadySent(w, e)
  BY <1>0, <1>u, <1>12 DEF TellAlreadySent, dbVars
<1>13. CASE EntryDone(w, e)
  <2>0. GroupTypeOK /\ IsNext(w, e)
    BY <1>13 DEF EntryDone
  <2>1. e \in 1..cursor
    BY <2>0, NextUnique
  <2>2. GroupTypeOK'
    BY <1>13, <2>1, FinishType DEF EntryDone
  <2>3. QED
    BY <1>13, <2>2, ForgetType DEF EntryDone
<1>14. QED
  BY <1>1, <1>2, <1>3, <1>4, <1>5, <1>6, <1>7, <1>8, <1>9, <1>10, <1>11, <1>12, <1>13
     DEF ProcessEntry

\* Every reachable state of the pipeline is well typed; in particular the
\* steps that record and publish a message id always have one in hand.
THEOREM TypeCorrect == Spec => []TypeOK
<1>1. Init => TypeOK
  BY GroupInitType, SendAssumption
     DEF Init, TypeOK, Steps, NeedsId, Absent, Ids
<1>2. TypeOK /\ [Next]_vars => TypeOK'
  <2> SUFFICES ASSUME TypeOK, [Next]_vars PROVE TypeOK'
    OBVIOUS
  <2> USE DEF TypeOK
  <2>1. ASSUME NEW c \in Payloads, Enqueue(c) PROVE TypeOK'
    BY <2>1, XAddType DEF Enqueue, procVars, dbVars, outVars
  <2>2. ASSUME NEW c \in Payloads, ChangeMembership(c) PROVE TypeOK'
    <3>1. moves' \in 0..MaxMoves /\ member' \in [Payloads -> BOOLEAN]
      BY <2>2, SendAssumption DEF ChangeMembership
    <3>2. GroupTypeOK'
      BY <2>2 DEF ChangeMembership, GroupTypeOK, groupVars
    <3>3. QED
      BY <2>2, <3>1, <3>2 DEF ChangeMembership, procVars, outVars
  <2>3. ASSUME NEW w \in Workers, Drain(w) PROVE TypeOK'
    BY <2>3, ReadType DEF Drain, procVars, dbVars, outVars
  <2>4. ASSUME NEW w \in Workers, Acknowledge(w) \/ AcknowledgeFails(w) PROVE TypeOK'
    BY <2>4, AckType DEF Acknowledge, AcknowledgeFails, procVars, dbVars, outVars
  <2>5. ASSUME NEW w \in Workers, Die(w) PROVE TypeOK'
    BY <2>5, CrashType, ForgetType DEF Die
  <2>6. ASSUME NEW w \in Workers, NEW e \in Entries, ProcessEntry(w, e) PROVE TypeOK'
    BY <2>6, ProcessType
  <2>7. ASSUME NEW w \in Workers, NEW e \in Entries, EntryRaises(w, e) PROVE TypeOK'
    <3>0. GroupTypeOK /\ IsNext(w, e)
      BY <2>7 DEF EntryRaises
    <3>1. e \in 1..cursor
      BY <3>0, NextUnique
    <3>2. GroupTypeOK'
      BY <2>7, <3>1, FailEntryType DEF EntryRaises
    <3>3. QED
      BY <2>7, <3>2, ForgetType DEF EntryRaises
  <2>8. ASSUME NEW c \in Payloads, KeyLapses(c) PROVE TypeOK'
    <3>1. /\ idem' \in [Payloads -> Ids \cup {Absent, InFlight}]
          /\ lapsed' \in SUBSET Payloads
      BY <2>8 DEF KeyLapses
    <3>2. GroupTypeOK'
      BY <2>8 DEF KeyLapses, GroupTypeOK, groupVars
    <3>3. QED
      BY <2>8, <3>1, <3>2 DEF KeyLapses, procVars, dbVars
  <2>9. CASE UNCHANGED vars
    BY <2>9 DEF vars, groupVars, procVars, dbVars, outVars, GroupTypeOK
  <2>10. QED
    BY <2>1, <2>2, <2>3, <2>4, <2>5, <2>6, <2>7, <2>8, <2>9 DEF Next
<1>3. QED
  BY <1>1, <1>2, PTL DEF Spec

(***************************************************************************)
(* Nothing acknowledged is unsettled, and published ids name rows.         *)
(***************************************************************************)
HasRow(i, c) == \E r \in rows : r.id = i /\ r.cmid = c

\* What worker w has established about entry e by the step it is at.
Progress(w, e) ==
    /\ step[w] \in {"record", "embed", "enqueue", "refan"} => HasRow(got[w], stream[e])
    /\ step[w] \in {"tell", "after"} => Settled(stream[e])

\* The inductive invariant.
SettleInv ==
    /\ \A w \in Workers : BatchDone(w) => step[w] = "check"
    /\ \A w \in Workers : \A e \in Entries : IsNext(w, e) => Progress(w, e)
    /\ \A w \in Workers : \A e \in ackIds[w] : Settled(stream[e])
    /\ AckedIsSettled
    /\ IdsNameCommittedRows

\* The tables and streams the pipeline writes only grow.
Grows ==
    /\ rows \subseteq rows'
    /\ fanned \subseteq fanned'
    /\ notices \subseteq notices'

\* What is settled stays settled, and a row stays in the table.
LEMMA GrowsKeeps ==
  ASSUME Grows
  PROVE  /\ \A c : Settled(c) => Settled(c)'
         /\ \A i, c : HasRow(i, c) => HasRow(i, c)'
  BY DEF Grows, Settled, RowsOf, HasRow

\* Published ids and recorded keys still name rows when only rows is extended.
LEMMA NamesKept ==
  ASSUME IdsNameCommittedRows, Grows, UNCHANGED <<fanned, embedQ, idem>>
  PROVE  IdsNameCommittedRows'
  BY DEF Grows, IdsNameCommittedRows, RowsOf

\* A step of worker w at entry e keeps SettleInv if it establishes what the
\* step it moves to promises and publishes only ids of rows.
LEMMA ProcessKeeps ==
  ASSUME TypeOK, SettleInv, NEW w \in Workers, NEW e \in Entries, IsNext(w, e),
         UNCHANGED groupVars, Grows,
         \A v \in Workers \ {w} : step'[v] = step[v] /\ got'[v] = got[v],
         Progress(w, e)', IdsNameCommittedRows'
  PROVE  SettleInv'
<1>0. Entries' = Entries /\ \A f : stream'[f] = stream[f]
  BY DEF groupVars, Entries
<1>1. \A v \in Workers : /\ BatchDone(v)' <=> BatchDone(v)
                         /\ \A f : IsNext(v, f)' <=> IsNext(v, f)
  BY DEF groupVars, BatchDone, IsNext
<1>2. \A v \in Workers : BatchDone(v)' => step'[v] = "check"
  BY <1>1, NextNotDone DEF SettleInv
<1>3. ASSUME NEW v \in Workers, NEW f \in Entries, IsNext(v, f)
      PROVE  Progress(v, f)'
  <2>1. CASE v = w
    BY <1>3, <2>1, NextUnique DEF TypeOK
  <2>2. CASE v # w
    BY <1>0, <1>3, <2>2, GrowsKeeps DEF SettleInv, Progress
  <2>3. QED
    BY <2>1, <2>2
<1>4. (\A v \in Workers : \A f \in ackIds[v] : Settled(stream[f]))'
  BY <1>0, GrowsKeeps DEF SettleInv, groupVars
<1>5. AckedIsSettled'
  BY <1>0, GrowsKeeps DEF SettleInv, AckedIsSettled, groupVars
<1>6. QED
  BY <1>0, <1>1, <1>2, <1>3, <1>4, <1>5 DEF SettleInv

\* A worker that drops its locals and lets go of some entries keeps SettleInv:
\* what it adds to its ack list and to the acknowledged set is settled.
LEMMA LeaveKeeps ==
  ASSUME TypeOK, SettleInv, NEW w \in Workers,
         Forget(w), UNCHANGED <<stream, dbVars, outVars>>,
         \A v \in Workers \ {w} :
            fresh'[v] = fresh[v] /\ claimed'[v] = claimed[v] /\ ackIds'[v] = ackIds[v],
         \A f \in ackIds'[w] : Settled(stream[f]),
         UNCHANGED acked
  PROVE  SettleInv'
<1>0. /\ Entries' = Entries /\ stream' = stream
      /\ step'[w] = "check"
      /\ \A v \in Workers \ {w} : step'[v] = step[v] /\ got'[v] = got[v]
  BY DEF Entries, Forget, Goto, TypeOK
<1>1. /\ \A c : Settled(c)' <=> Settled(c)
      /\ \A i, c : HasRow(i, c)' <=> HasRow(i, c)
  BY DEF Settled, RowsOf, HasRow, dbVars, outVars
<1>2. \A v \in Workers \ {w} : /\ BatchDone(v)' <=> BatchDone(v)
                               /\ \A f : IsNext(v, f)' <=> IsNext(v, f)
  BY DEF BatchDone, IsNext
<1>3. (\A v \in Workers : BatchDone(v) => step[v] = "check")'
  BY <1>0, <1>2 DEF SettleInv
<1>4. ASSUME NEW v \in Workers, NEW f \in Entries, IsNext(v, f)'
      PROVE  Progress(v, f)'
  BY <1>0, <1>1, <1>2, <1>4 DEF SettleInv, Progress
<1>5. (\A v \in Workers : \A f \in ackIds[v] : Settled(stream[f]))'
  BY <1>0, <1>1 DEF SettleInv
<1>6. AckedIsSettled' /\ IdsNameCommittedRows'
  BY <1>0, <1>1 DEF SettleInv, AckedIsSettled, IdsNameCommittedRows, RowsOf, dbVars, outVars
<1>7. QED
  BY <1>0, <1>3, <1>4, <1>5, <1>6 DEF SettleInv

\* Every step of process_outgoing keeps SettleInv.
LEMMA ProcessSettles ==
  ASSUME TypeOK, SettleInv, NEW w \in Workers, NEW e \in Entries, ProcessEntry(w, e)
  PROVE  SettleInv'
<1> DEFINE c == stream[e]
<1>0. c \in Payloads /\ step \in [Workers -> Steps] /\ got \in [Workers -> 0..MaxIds]
  BY DEF TypeOK, GroupTypeOK, Entries
<1>1. IsNext(w, e) /\ Progress(w, e) /\ IdsNameCommittedRows
  BY DEF ProcessEntry, Check, Reject, Reserve, FoundSent, TakeOver, MintId, CommitRow,
         RecordId, EnqueueEmbedding, EnqueueFanout, EnqueueFanoutAgain,
         TellAlreadySent, EntryDone, At, SettleInv
<1> HIDE DEF c
<1> USE <1>0, <1>1 DEF At, Goto, Progress, Grows, dbVars, outVars
<1>2. CASE Check(w, e)
  <2>1. Grows /\ Progress(w, e)'
    BY <1>2 DEF Check
  <2>2. QED
    BY <1>2, <2>1, NamesKept, ProcessKeeps DEF Check
<1>3. CASE Reject(w, e)
  <2>1. Grows /\ c' = c
    BY <1>3 DEF Reject, c, groupVars
  <2>2. Progress(w, e)'
    BY <1>3, <2>1 DEF Reject, Settled, c
  <2>3. QED
    BY <1>3, <2>1, <2>2, NamesKept, ProcessKeeps DEF Reject
<1>4. CASE Reserve(w, e)
  <2>1. Grows /\ Progress(w, e)'
    BY <1>4 DEF Reserve
  <2>2. \A d \in Payloads : idem'[d] \in Ids => idem'[d] = idem[d]
    BY <1>4, SendAssumption DEF Reserve, TypeOK, Ids, InFlight
  <2>3. IdsNameCommittedRows'
    BY <1>4, <2>2 DEF Reserve, IdsNameCommittedRows, RowsOf
  <2>4. QED
    BY <1>4, <2>1, <2>3, ProcessKeeps DEF Reserve
<1>5. CASE FoundSent(w, e)
  <2>1. Grows /\ c' = c
    BY <1>5 DEF FoundSent, c, groupVars
  <2>2. HasRow(idem[c], c)
    BY <1>5 DEF FoundSent, IdsNameCommittedRows, RowsOf, HasRow, c
  <2>3. Progress(w, e)'
    BY <1>5, <2>1, <2>2 DEF FoundSent, HasRow, c
  <2>4. QED
    BY <1>5, <2>1, <2>3, NamesKept, ProcessKeeps DEF FoundSent
<1>6. CASE TakeOver(w, e)
  <2>1. Grows /\ Progress(w, e)'
    BY <1>6 DEF TakeOver
  <2>2. QED
    BY <1>6, <2>1, NamesKept, ProcessKeeps DEF TakeOver
<1>7. CASE MintId(w, e)
  <2>1. Grows /\ Progress(w, e)'
    BY <1>7 DEF MintId
  <2>2. QED
    BY <1>7, <2>1, NamesKept, ProcessKeeps DEF MintId
<1>8. CASE CommitRow(w, e)
  <2>1. Grows /\ c' = c
    BY <1>8 DEF CommitRow, c, groupVars
  <2>2. got' = got /\ stream' = stream /\ step'[w] = "record"
    BY <1>8 DEF CommitRow, groupVars
  <2>r. [id |-> got[w], cmid |-> stream[e], byKey |-> byKey[w]] \in rows'
    BY <1>8 DEF CommitRow
  <2>s. \E r \in rows' : r.id = got[w] /\ r.cmid = stream[e]
    BY <2>r
  <2>3. Progress(w, e)'
    BY <2>2, <2>s DEF HasRow
  <2>4. QED
    BY <1>8, <2>1, <2>3, NamesKept, ProcessKeeps DEF CommitRow
<1>9. CASE RecordId(w, e)
  <2>1. Grows /\ c' = c
    BY <1>9 DEF RecordId, c, groupVars
  <2>2. HasRow(got[w], c)
    BY <1>9 DEF RecordId, c
  <2>3. Progress(w, e)'
    BY <1>9, <2>1, <2>2 DEF RecordId, HasRow, c
  <2>4. \A d \in Payloads : idem'[d] = idem[d] \/ (d = c /\ idem'[d] = got[w])
    BY <1>9 DEF RecordId, TypeOK, c
  <2>5. IdsNameCommittedRows'
    BY <1>9, <2>2, <2>4 DEF RecordId, IdsNameCommittedRows, HasRow, RowsOf
  <2>6. QED
    BY <1>9, <2>1, <2>3, <2>5, ProcessKeeps DEF RecordId
<1>10. CASE EnqueueEmbedding(w, e)
  <2>1. Grows /\ c' = c /\ HasRow(got[w], c)
    BY <1>10 DEF EnqueueEmbedding, c, groupVars
  <2>2. Progress(w, e)'
    BY <1>10, <2>1 DEF EnqueueEmbedding, HasRow, c
  <2>3. IdsNameCommittedRows'
    BY <1>10, <2>1 DEF EnqueueEmbedding, IdsNameCommittedRows, HasRow, RowsOf
  <2>4. QED
    BY <1>10, <2>1, <2>2, <2>3, ProcessKeeps DEF EnqueueEmbedding
<1>11. CASE EnqueueFanout(w, e)
  <2>1. Grows /\ c' = c /\ HasRow(got[w], c)
    BY <1>11 DEF EnqueueFanout, c, groupVars
  <2>2. Progress(w, e)'
    BY <1>11, <2>1 DEF EnqueueFanout, HasRow, Settled, RowsOf, c
  <2>3. IdsNameCommittedRows'
    BY <1>11, <2>1 DEF EnqueueFanout, IdsNameCommittedRows, HasRow, RowsOf
  <2>4. QED
    BY <1>11, <2>1, <2>2, <2>3, ProcessKeeps DEF EnqueueFanout
<1>12. CASE EnqueueFanoutAgain(w, e)
  <2>1. Grows /\ c' = c /\ HasRow(got[w], c)
    BY <1>12 DEF EnqueueFanoutAgain, c, groupVars
  <2>2. Progress(w, e)'
    BY <1>12, <2>1 DEF EnqueueFanoutAgain, HasRow, Settled, RowsOf, c
  <2>3. IdsNameCommittedRows'
    BY <1>12, <2>1 DEF EnqueueFanoutAgain, IdsNameCommittedRows, HasRow, RowsOf
  <2>4. QED
    BY <1>12, <2>1, <2>2, <2>3, ProcessKeeps DEF EnqueueFanoutAgain
<1>13. CASE TellAlreadySent(w, e)
  <2>1. Grows /\ c' = c /\ Settled(c)
    BY <1>13 DEF TellAlreadySent, c, groupVars
  <2>2. Progress(w, e)'
    BY <1>13, <2>1, GrowsKeeps DEF TellAlreadySent, c
  <2>3. QED
    BY <1>13, <2>1, <2>2, NamesKept, ProcessKeeps DEF TellAlreadySent
<1>14. CASE EntryDone(w, e)
  <2>1. fresh \in [Workers -> SUBSET (1..cursor)] /\ claimed \in [Workers -> SUBSET (1..cursor)]
        /\ ackIds \in [Workers -> SUBSET (1..cursor)]
    BY DEF TypeOK, GroupTypeOK
  <2>2. UNCHANGED <<stream, acked>> /\ Forget(w) /\ UNCHANGED <<dbVars, outVars>> /\ Settled(c)
    BY <1>14 DEF EntryDone, Finish, c
  <2>3. /\ ackIds'[w] = ackIds[w] \cup {e}
        /\ \A v \in Workers \ {w} :
              fresh'[v] = fresh[v] /\ claimed'[v] = claimed[v] /\ ackIds'[v] = ackIds[v]
    BY <1>14, <2>1 DEF EntryDone, Finish
  <2>4. \A f \in ackIds'[w] : Settled(stream[f])
    BY <2>2, <2>3 DEF SettleInv, c
  <2>5. QED
    BY <2>2, <2>3, <2>4, LeaveKeeps
<1>15. QED
  BY <1>2, <1>3, <1>4, <1>5, <1>6, <1>7, <1>8, <1>9, <1>10, <1>11, <1>12, <1>13, <1>14
     DEF ProcessEntry

\* Every step of the pipeline keeps SettleInv.
LEMMA NextSettles ==
  ASSUME TypeOK, SettleInv, [Next]_vars
  PROVE  SettleInv'
<1>0. /\ fresh \in [Workers -> SUBSET (1..cursor)]
      /\ claimed \in [Workers -> SUBSET (1..cursor)]
      /\ ackIds \in [Workers -> SUBSET (1..cursor)]
      /\ acked \subseteq 1..cursor
      /\ step \in [Workers -> Steps]
      /\ stream \in Seq(Payloads) /\ cursor \in Nat /\ cursor <= Len(stream)
  BY DEF TypeOK, GroupTypeOK
<1>1. ASSUME NEW d \in Payloads, Enqueue(d) PROVE SettleInv'
  <2>1. /\ UNCHANGED <<cursor, acked, fresh, claimed, ackIds>>
        /\ UNCHANGED <<procVars, dbVars, outVars>>
        /\ stream' = Append(stream, d)
    BY <1>1 DEF Enqueue, XAdd
  <2>2. \A f \in 1..cursor : f \in Entries /\ stream'[f] = stream[f]
    BY <1>0, <2>1 DEF Entries
  <2>3. /\ \A c : Settled(c)' <=> Settled(c)
        /\ \A i, c : HasRow(i, c)' <=> HasRow(i, c)
    BY <2>1 DEF Settled, RowsOf, HasRow, dbVars, outVars
  <2>4. \A v \in Workers : /\ BatchDone(v)' <=> BatchDone(v)
                           /\ \A f : IsNext(v, f)' => IsNext(v, f) /\ f \in 1..cursor
    BY <1>0, <2>1 DEF BatchDone, IsNext
  <2>5. (\A v \in Workers : BatchDone(v) => step[v] = "check")'
    BY <2>1, <2>4 DEF SettleInv, procVars
  <2>6. ASSUME NEW v \in Workers, NEW f \in Entries', IsNext(v, f)'
        PROVE  Progress(v, f)'
    BY <2>1, <2>2, <2>3, <2>4, <2>6 DEF SettleInv, Progress, procVars
  <2>7. (\A v \in Workers : \A f \in ackIds[v] : Settled(stream[f]))'
    BY <1>0, <2>1, <2>2, <2>3 DEF SettleInv
  <2>8. AckedIsSettled' /\ IdsNameCommittedRows'
    BY <1>0, <2>1, <2>2, <2>3
       DEF SettleInv, AckedIsSettled, IdsNameCommittedRows, RowsOf, dbVars, outVars
  <2>9. QED
    BY <2>5, <2>6, <2>7, <2>8 DEF SettleInv
<1>2. ASSUME NEW d \in Payloads, ChangeMembership(d) PROVE SettleInv'
  BY <1>2 DEF ChangeMembership, SettleInv, groupVars, procVars, outVars, Entries,
              BatchDone, IsNext, Progress, HasRow, Settled, RowsOf, AckedIsSettled,
              IdsNameCommittedRows
<1>3. ASSUME NEW w \in Workers, Drain(w) PROVE SettleInv'
  <2>1. /\ UNCHANGED <<stream, acked, ackIds>>
        /\ UNCHANGED <<procVars, dbVars, outVars>>
        /\ step[w] = "check"
        /\ \A v \in Workers \ {w} : fresh'[v] = fresh[v] /\ claimed'[v] = claimed[v]
    BY <1>0, <1>3 DEF Drain, Read, Idle, SettleInv
  <2>2. Entries' = Entries
    BY <2>1 DEF Entries
  <2>3. /\ \A c : Settled(c)' <=> Settled(c)
        /\ \A i, c : HasRow(i, c)' <=> HasRow(i, c)
    BY <2>1 DEF Settled, RowsOf, HasRow, dbVars, outVars
  <2>4. \A v \in Workers \ {w} : /\ BatchDone(v)' <=> BatchDone(v)
                                 /\ \A f : IsNext(v, f)' <=> IsNext(v, f)
    BY <2>1 DEF BatchDone, IsNext
  <2>5. (\A v \in Workers : BatchDone(v) => step[v] = "check")'
    BY <2>1, <2>4 DEF SettleInv, procVars
  <2>6. ASSUME NEW v \in Workers, NEW f \in Entries, IsNext(v, f)'
        PROVE  Progress(v, f)'
    BY <2>1, <2>3, <2>4, <2>6 DEF SettleInv, Progress, procVars
  <2>7. (\A v \in Workers : \A f \in ackIds[v] : Settled(stream[f]))'
    BY <2>1, <2>3 DEF SettleInv
  <2>8. AckedIsSettled' /\ IdsNameCommittedRows'
    BY <2>1, <2>3
       DEF SettleInv, AckedIsSettled, IdsNameCommittedRows, RowsOf, dbVars, outVars
  <2>9. QED
    BY <2>2, <2>5, <2>6, <2>7, <2>8 DEF SettleInv
<1>4. ASSUME NEW w \in Workers, Acknowledge(w) \/ AcknowledgeFails(w) PROVE SettleInv'
  <2>1. /\ UNCHANGED <<stream, fresh, claimed>>
        /\ UNCHANGED <<procVars, dbVars, outVars>>
        /\ acked' = acked \cup ackIds[w] \/ acked' = acked
        /\ \A v \in Workers : ackIds'[v] \subseteq ackIds[v]
    BY <1>0, <1>4 DEF Acknowledge, AcknowledgeFails, Ack, AckLost
  <2>2. Entries' = Entries
    BY <2>1 DEF Entries
  <2>3. /\ \A c : Settled(c)' <=> Settled(c)
        /\ \A i, c : HasRow(i, c)' <=> HasRow(i, c)
    BY <2>1 DEF Settled, RowsOf, HasRow, dbVars, outVars
  <2>4. \A v \in Workers : /\ BatchDone(v)' <=> BatchDone(v)
                           /\ \A f : IsNext(v, f)' <=> IsNext(v, f)
    BY <2>1 DEF BatchDone, IsNext
  <2>5. (\A v \in Workers : BatchDone(v) => step[v] = "check")'
    BY <2>1, <2>4 DEF SettleInv, procVars
  <2>6. ASSUME NEW v \in Workers, NEW f \in Entries, IsNext(v, f)'
        PROVE  Progress(v, f)'
    BY <2>1, <2>3, <2>4, <2>6 DEF SettleInv, Progress, procVars
  <2>7. (\A v \in Workers : \A f \in ackIds[v] : Settled(stream[f]))'
    BY <2>1, <2>3 DEF SettleInv
  <2>8. AckedIsSettled' /\ IdsNameCommittedRows'
    BY <2>1, <2>3
       DEF SettleInv, AckedIsSettled, IdsNameCommittedRows, RowsOf, dbVars, outVars
  <2>9. QED
    BY <2>2, <2>5, <2>6, <2>7, <2>8 DEF SettleInv
<1>5. ASSUME NEW w \in Workers, Die(w) PROVE SettleInv'
  <2>1. /\ UNCHANGED <<stream, acked>> /\ Forget(w) /\ UNCHANGED <<dbVars, outVars>>
        /\ ackIds'[w] = {}
        /\ \A v \in Workers \ {w} :
              fresh'[v] = fresh[v] /\ claimed'[v] = claimed[v] /\ ackIds'[v] = ackIds[v]
    BY <1>0, <1>5 DEF Die, Crash
  <2>2. QED
    BY <2>1, LeaveKeeps
<1>6. ASSUME NEW w \in Workers, NEW e \in Entries, EntryRaises(w, e) PROVE SettleInv'
  <2>1. /\ UNCHANGED <<stream, acked, ackIds>> /\ Forget(w) /\ UNCHANGED <<dbVars, outVars>>
        /\ \A v \in Workers \ {w} : fresh'[v] = fresh[v] /\ claimed'[v] = claimed[v]
    BY <1>0, <1>6 DEF EntryRaises, FailEntry
  <2>2. \A f \in ackIds'[w] : Settled(stream[f])
    BY <2>1 DEF SettleInv
  <2>3. QED
    BY <2>1, <2>2, LeaveKeeps
<1>7. ASSUME NEW w \in Workers, NEW e \in Entries, ProcessEntry(w, e) PROVE SettleInv'
  BY <1>7, ProcessSettles
<1>8. CASE UNCHANGED vars
  BY <1>8 DEF vars, SettleInv, groupVars, procVars, dbVars, outVars, Entries,
              BatchDone, IsNext, Progress, HasRow, Settled, RowsOf, AckedIsSettled,
              IdsNameCommittedRows
<1>9. ASSUME NEW d \in Payloads, KeyLapses(d) PROVE SettleInv'
  <2>1. /\ UNCHANGED <<groupVars, procVars, rows, fanned, embedQ, notices>>
        /\ \A c \in Payloads : idem'[c] \in Ids => idem'[c] = idem[c]
    BY <1>0, <1>9 DEF KeyLapses, dbVars, TypeOK, Ids, Absent
  <2>2. QED
    BY <2>1 DEF SettleInv, groupVars, procVars, Entries, BatchDone, IsNext, Progress, HasRow,
              Settled, RowsOf, AckedIsSettled, IdsNameCommittedRows
<1>10. QED
  BY <1>1, <1>2, <1>3, <1>4, <1>5, <1>6, <1>7, <1>8, <1>9 DEF Next

\* SettleInv holds in every reachable state.
LEMMA SettleCorrect == Spec => []SettleInv
<1>1. Init => SettleInv
  BY DEF Init, GroupInit, SettleInv, Entries, BatchDone, IsNext, Progress, AckedIsSettled,
         IdsNameCommittedRows, Absent, Ids
<1>2. TypeOK /\ SettleInv /\ [Next]_vars => SettleInv'
  BY NextSettles
<1>3. QED
  BY <1>1, <1>2, TypeCorrect, PTL DEF Spec

\* No message is lost once its entry is acknowledged, for any interleaving of
\* workers, redeliveries, failures and crashes.
THEOREM AckedIsSettledHolds == Spec => []AckedIsSettled
<1>1. SettleInv => AckedIsSettled
  BY DEF SettleInv
<1>2. QED
  BY <1>1, SettleCorrect, PTL

\* A message id never leaves process_outgoing before its row is committed.
THEOREM IdsNameCommittedRowsHolds == Spec => []IdsNameCommittedRows
<1>1. SettleInv => IdsNameCommittedRows
  BY DEF SettleInv
<1>2. QED
  BY <1>1, SettleCorrect, PTL

(***************************************************************************)
(* The send pipeline implements at-least-once consumption.                 *)
(***************************************************************************)
\* A step that adds and acknowledges no entry is one of the promise's, or none.
LEMMA OtherStep ==
  ASSUME UNCHANGED <<stream, acked>>,
         \A e \in Entries : Settled(stream[e]) => Settled(stream[e])'
  PROVE  Promise!Handle
<1>1. Entries' = Entries
  BY DEF Entries
<1>2. QED
  BY <1>1 DEF Promise!Handle, Entries

\* Each step of the pipeline is an Add, a Handle or a Retire of AtLeastOnce
\* under the mapping of SendPipeline.
LEMMA StepImplements ==
  TypeOK /\ SettleInv /\ [Next]_vars => [Promise!Next]_(Promise!vars)
<1> SUFFICES ASSUME TypeOK, SettleInv, [Next]_vars PROVE Promise!Next
  OBVIOUS
<1> USE DEF Promise!Next
<1>0. GroupTypeOK
  BY DEF TypeOK
<1>1. ASSUME Grows, UNCHANGED <<stream, acked>> PROVE Promise!Next
  <2>1. \A e \in Entries : Settled(stream[e]) => Settled(stream[e])'
    BY <1>1, GrowsKeeps DEF Settled, RowsOf
  <2>2. QED
    BY <1>1, <2>1, OtherStep
<1>2. ASSUME NEW c \in Payloads, Enqueue(c) PROVE Promise!Next
  <2>1. /\ stream' = Append(stream, c) /\ acked' = acked /\ UNCHANGED <<dbVars, outVars>>
    BY <1>2 DEF Enqueue, XAdd
  <2>2. /\ Len(stream') = Len(stream) + 1 /\ Len(stream) \in Nat
        /\ \A e \in Entries : stream'[e] = stream[e]
    BY <1>0, <2>1 DEF GroupTypeOK, Entries
  <2>3. \A x : Settled(x)' <=> Settled(x)
    BY <2>1 DEF Settled, RowsOf, dbVars, outVars
  <2>4. /\ Entries' = Entries \cup {Len(stream) + 1}
        /\ \A e \in Entries : Settled(stream[e])' <=> Settled(stream[e])
    BY <2>2, <2>3 DEF Entries
  <2>5. {e \in Entries : Settled(stream[e])}' \in
           {{e \in Entries : Settled(stream[e])},
            {e \in Entries : Settled(stream[e])} \cup {Len(stream) + 1}}
    BY <2>4
  <2>6. QED
    BY <2>1, <2>2, <2>5 DEF Promise!Add
<1>3. ASSUME NEW w \in Workers, Acknowledge(w) PROVE Promise!Next
  <2>1. /\ acked' = acked \cup ackIds[w] /\ UNCHANGED <<stream, dbVars, outVars>>
    BY <1>3 DEF Acknowledge, Ack
  <2>2. /\ Entries' = Entries /\ \A e : Settled(stream[e])' <=> Settled(stream[e])
    BY <2>1 DEF Entries, Settled, RowsOf, dbVars, outVars
  <2>3. acked' \subseteq {e \in Entries : Settled(stream[e])}
    <3>1. 1..cursor \subseteq Entries
      BY <1>0 DEF GroupTypeOK, Entries
    <3>2. acked \subseteq Entries /\ ackIds[w] \subseteq Entries
      BY <1>0, <3>1 DEF GroupTypeOK
    <3>3. QED
      BY <2>1, <3>2 DEF SettleInv, AckedIsSettled
  <2>4. {e \in Entries : Settled(stream[e])}' = {e \in Entries : Settled(stream[e])}
    BY <2>2
  <2>5. QED
    BY <2>1, <2>3, <2>4 DEF Promise!Retire
<1>4. ASSUME NEW w \in Workers, NEW e \in Entries, ProcessEntry(w, e) PROVE Promise!Next
  <2>1. Grows /\ UNCHANGED <<stream, acked>>
    BY <1>4 DEF Grows, ProcessEntry, Check, Reject, Reserve, FoundSent, TakeOver, MintId, CommitRow,
           RecordId, EnqueueEmbedding, EnqueueFanout, EnqueueFanoutAgain, TellAlreadySent,
           EntryDone, Finish, groupVars, dbVars, outVars
  <2>2. QED
    BY <1>1, <2>1
<1>5. CASE (\E c \in Payloads : ChangeMembership(c) \/ KeyLapses(c)) \/ UNCHANGED vars
  BY <1>1, <1>5 DEF Grows, ChangeMembership, KeyLapses, vars, groupVars, dbVars, outVars
<1>6. ASSUME NEW w \in Workers, Drain(w) \/ AcknowledgeFails(w) \/ Die(w) PROVE Promise!Next
  BY <1>1, <1>6 DEF Grows, Drain, Read, AcknowledgeFails, AckLost, Die, Crash, dbVars, outVars
<1>7. ASSUME NEW w \in Workers, NEW e \in Entries, EntryRaises(w, e) PROVE Promise!Next
  BY <1>1, <1>7 DEF Grows, EntryRaises, FailEntry, dbVars, outVars
<1>8. QED
  BY <1>2, <1>3, <1>4, <1>5, <1>6, <1>7 DEF Next

\* The pipeline, take-overs, redeliveries, failures and crashes included, refines
\* AtLeastOnce with "fanned out or reported failed" as the effect of an entry.
THEOREM PipelineImplementsAtLeastOnce == Spec => ImplementsAtLeastOnce
<1>1. Init => Promise!Init
  BY DEF Init, GroupInit, Promise!Init, Entries
<1>2. QED
  BY <1>1, StepImplements, TypeCorrect, SettleCorrect, PTL
     DEF Spec, ImplementsAtLeastOnce, Promise!Spec

(***************************************************************************)
(* The rows: of one client_message_id at most one was written by a holder  *)
(* of the key, and a blob's reference count never falls short of the rows  *)
(* that use it.                                                            *)
(***************************************************************************)
\* The steps a worker that took the key can be at, and those before its row.
Owning == {"mint", "commit", "record", "embed", "enqueue", "after"}
Unwritten == {"mint", "commit"}

\* Worker w works on entry e as the holder of the key, whose day has not run out.
Owns(w, e) == IsNext(w, e) /\ byKey[w] /\ stream[e] \notin lapsed

\* The inductive invariant: a key that was taken stays taken; a
\* client_message_id has one holder, and if a holder has written its row, no
\* other is about to write one.
KeyInv ==
    /\ \A w \in Workers : BatchDone(w) => ~byKey[w]
    /\ \A w \in Workers : byKey[w] => step[w] \in Owning
    /\ \A w \in Workers : \A e \in Entries : Owns(w, e) => idem[stream[e]] # Absent
    /\ \A w, v \in Workers : \A e, f \in Entries :
          Owns(w, e) /\ Owns(v, f) /\ stream[e] = stream[f] => w = v
    /\ \A r \in rows : r.byKey /\ r.cmid \notin lapsed => idem[r.cmid] # Absent
    /\ \A r \in rows : \A w \in Workers : \A e \in Entries :
          r.byKey /\ Owns(w, e) /\ stream[e] = r.cmid => step[w] \notin Unwritten
    /\ DuplicateNeedsTakeOver

\* What the other workers and the stream look like after a step of one worker
\* at one entry.
LEMMA StepFrame ==
  ASSUME UNCHANGED groupVars
  PROVE  /\ Entries' = Entries /\ stream' = stream
         /\ \A v, f : IsNext(v, f)' <=> IsNext(v, f)
         /\ \A v : BatchDone(v)' <=> BatchDone(v)
  BY DEF groupVars, Entries, IsNext, BatchDone

\* A step that takes no key and writes no row keeps KeyInv, if no key is
\* dropped and a holder goes on through the steps of holders.
LEMMA KeyKept ==
  ASSUME TypeOK, KeyInv, NEW w \in Workers, UNCHANGED <<groupVars, byKey, rows, lapsed>>,
         \A v \in Workers \ {w} : step'[v] = step[v],
         \A c \in Payloads : idem[c] # Absent => idem'[c] # Absent,
         byKey[w] => step'[w] \in Owning,
         byKey[w] /\ step'[w] \in Unwritten => step[w] \in Unwritten
  PROVE  KeyInv'
<1>0. /\ Entries' = Entries /\ stream' = stream /\ byKey' = byKey /\ rows' = rows /\ lapsed' = lapsed
      /\ \A v, f : IsNext(v, f)' <=> IsNext(v, f)
      /\ \A v : BatchDone(v)' <=> BatchDone(v)
      /\ \A v, f : Owns(v, f)' <=> Owns(v, f)
  BY StepFrame DEF Owns
<1>1. \A f \in Entries : stream[f] \in Payloads
  BY DEF TypeOK, GroupTypeOK, Entries
<1>2. \A r \in rows : r.cmid \in Payloads
  BY DEF TypeOK, Row
<1>3. (\A v \in Workers : BatchDone(v) => ~byKey[v])'
  BY <1>0 DEF KeyInv
<1>4. (\A v \in Workers : byKey[v] => step[v] \in Owning)'
  BY <1>0 DEF KeyInv, Owning
<1>5. (\A v \in Workers : \A f \in Entries : Owns(v, f) => idem[stream[f]] # Absent)'
  BY <1>0, <1>1 DEF KeyInv, Absent
<1>6. (\A r \in rows : r.byKey /\ r.cmid \notin lapsed => idem[r.cmid] # Absent)'
  BY <1>0, <1>2 DEF KeyInv, Absent
<1>7. (\A r \in rows : \A v \in Workers : \A f \in Entries :
          r.byKey /\ Owns(v, f) /\ stream[f] = r.cmid => step[v] \notin Unwritten)'
  <2> SUFFICES ASSUME NEW r \in rows, NEW v \in Workers, NEW f \in Entries,
                      r.byKey, Owns(v, f), stream[f] = r.cmid
               PROVE  step'[v] \notin Unwritten
    BY <1>0
  <2>1. step[v] \notin Unwritten /\ byKey[v]
    BY DEF KeyInv, Owns
  <2>2. QED
    BY <2>1
<1>8. QED
  BY <1>0, <1>3, <1>4, <1>5, <1>6, <1>7 DEF KeyInv, DuplicateNeedsTakeOver

\* SET NX succeeds: nobody held the key, and no holder has written a row.
LEMMA ReserveKeeps ==
  ASSUME TypeOK, KeyInv, NEW w \in Workers, NEW e \in Entries, Reserve(w, e)
  PROVE  KeyInv'
<1>0. /\ IsNext(w, e) /\ step[w] = "reserve" /\ ~byKey[w]
      /\ Entries' = Entries /\ stream' = stream /\ rows' = rows /\ lapsed' = lapsed
      /\ \A v, f : IsNext(v, f)' <=> IsNext(v, f)
      /\ \A v : BatchDone(v)' <=> BatchDone(v)
      /\ stream[e] \in Payloads
  <2>1. UNCHANGED <<groupVars, lapsed>> /\ IsNext(w, e) /\ step[w] = "reserve" /\ rows' = rows
    BY DEF Reserve, At, dbVars
  <2>2. ~byKey[w]
    BY <2>1 DEF KeyInv, Owning
  <2>3. stream[e] \in Payloads
    BY DEF TypeOK, GroupTypeOK, Entries
  <2>4. QED
    BY <2>1, <2>2, <2>3, StepFrame
<1>1. CASE idem[stream[e]] = Absent
  <2>1. /\ step' = [step EXCEPT ![w] = "mint"] /\ byKey' = [byKey EXCEPT ![w] = TRUE]
        /\ idem' = [idem EXCEPT ![stream[e]] = InFlight]
    BY <1>1 DEF Reserve, Goto
  <2>2. /\ \A c \in Payloads : idem[c] # Absent => idem'[c] # Absent
        /\ idem'[stream[e]] # Absent
    BY <1>0, <2>1, SendAssumption DEF TypeOK, InFlight, Absent
  <2>3. \A v, f : Owns(v, f)' => Owns(v, f) \/ (v = w /\ IsNext(v, f) /\ stream[f] \notin lapsed)
    BY <1>0, <2>1 DEF Owns, TypeOK
  <2>4. \A f : IsNext(w, f) => f = e
    BY <1>0, NextUnique DEF TypeOK
  <2>5. \A v \in Workers : \A f \in Entries : ~(Owns(v, f) /\ stream[f] = stream[e])
    BY <1>1 DEF KeyInv
  <2>6. \A r \in rows : r.byKey => r.cmid # stream[e] \/ r.cmid \in lapsed
    BY <1>1 DEF KeyInv
  <2>7. \A f \in Entries : stream[f] \in Payloads
    BY DEF TypeOK, GroupTypeOK, Entries
  <2>8. \A r \in rows : r.cmid \in Payloads
    BY DEF TypeOK, Row
  <2>9. (\A v \in Workers : BatchDone(v) => ~byKey[v])'
    BY <1>0, <2>1, NextNotDone DEF KeyInv, TypeOK
  <2>10. (\A v \in Workers : byKey[v] => step[v] \in Owning)'
    BY <2>1 DEF KeyInv, Owning, TypeOK
  <2>11. (\A v \in Workers : \A f \in Entries : Owns(v, f) => idem[stream[f]] # Absent)'
    BY <1>0, <2>2, <2>3, <2>4, <2>7 DEF KeyInv, Absent
  <2>12. (\A v, u \in Workers : \A f, g \in Entries :
            Owns(v, f) /\ Owns(u, g) /\ stream[f] = stream[g] => v = u)'
    BY <1>0, <2>3, <2>4, <2>5 DEF KeyInv
  <2>13. (\A r \in rows : r.byKey /\ r.cmid \notin lapsed => idem[r.cmid] # Absent)'
    BY <1>0, <2>2, <2>8 DEF KeyInv, Absent
  <2>14. (\A r \in rows : \A v \in Workers : \A f \in Entries :
            r.byKey /\ Owns(v, f) /\ stream[f] = r.cmid => step[v] \notin Unwritten)'
    <3> SUFFICES ASSUME NEW r \in rows, NEW v \in Workers, NEW f \in Entries,
                        r.byKey, Owns(v, f)', stream[f] = r.cmid
                 PROVE  step'[v] \notin Unwritten
      BY <1>0
    <3>1. v # w
      BY <1>0, <2>3, <2>4, <2>6 DEF Owns
    <3>2. step'[v] = step[v] /\ Owns(v, f)
      BY <2>1, <2>3, <3>1
    <3>3. QED
      BY <3>2 DEF KeyInv
  <2>15. QED
    BY <1>0, <2>9, <2>10, <2>11, <2>12, <2>13, <2>14 DEF KeyInv, DuplicateNeedsTakeOver
<1>2. CASE idem[stream[e]] # Absent
  <2>1. /\ step' = [step EXCEPT ![w] = "wait"] /\ UNCHANGED <<idem, byKey>>
    BY <1>2 DEF Reserve, Goto
  <2>2. QED
    BY <1>0, <2>1, KeyKept DEF Reserve, TypeOK, dbVars
<1>3. QED
  BY <1>1, <1>2

\* A holder commits its row: it is the only holder, and no holder before it
\* has written one.
LEMMA CommitKeeps ==
  ASSUME TypeOK, KeyInv, NEW w \in Workers, NEW e \in Entries, CommitRow(w, e)
  PROVE  KeyInv'
<1> DEFINE new == [id |-> got[w], cmid |-> stream[e], byKey |-> byKey[w]]
<1>0. /\ IsNext(w, e) /\ step[w] = "commit" /\ step' = [step EXCEPT ![w] = "record"]
      /\ Entries' = Entries /\ stream' = stream /\ rows' = rows \cup {new}
      /\ byKey' = byKey /\ idem' = idem /\ lapsed' = lapsed
      /\ \A v, f : Owns(v, f)' <=> Owns(v, f)
      /\ \A v : BatchDone(v)' <=> BatchDone(v)
  BY StepFrame DEF CommitRow, At, Goto, outVars, Owns
<1>1. new.cmid = stream[e] /\ new.byKey = byKey[w]
  OBVIOUS
<1> HIDE DEF new
<1>2. byKey[w] /\ stream[e] \notin lapsed => Owns(w, e)
  BY <1>0 DEF Owns
<1>3. \A r \in rows : ~(r.byKey /\ byKey[w] /\ r.cmid = stream[e]) \/ r.cmid \in lapsed
  BY <1>0, <1>2 DEF KeyInv, Unwritten
<1>4. (\A v \in Workers : byKey[v] => step[v] \in Owning)'
  BY <1>0 DEF KeyInv, Owning, TypeOK
<1>5. (\A r \in rows : r.byKey /\ r.cmid \notin lapsed => idem[r.cmid] # Absent)'
  BY <1>0, <1>1, <1>2 DEF KeyInv
<1>6. (\A r \in rows : \A v \in Workers : \A f \in Entries :
          r.byKey /\ Owns(v, f) /\ stream[f] = r.cmid => step[v] \notin Unwritten)'
  <2> SUFFICES ASSUME NEW r \in rows', NEW v \in Workers, NEW f \in Entries,
                      r.byKey, Owns(v, f), stream[f] = r.cmid
               PROVE  step'[v] \notin Unwritten
    BY <1>0
  <2>1. CASE v = w
    BY <1>0, <2>1 DEF TypeOK, Unwritten
  <2>2. CASE v # w
    <3>0. stream[f] \notin lapsed
      BY DEF Owns
    <3>1. r \in rows
      BY <1>0, <1>1, <1>2, <2>2, <3>0 DEF KeyInv
    <3>2. QED
      BY <1>0, <2>2, <3>1 DEF KeyInv, TypeOK
  <2>3. QED
    BY <2>1, <2>2
<1>7. DuplicateNeedsTakeOver'
  BY <1>0, <1>1, <1>3 DEF KeyInv, DuplicateNeedsTakeOver
<1>8. QED
  BY <1>0, <1>4, <1>5, <1>6, <1>7 DEF KeyInv

\* Each other step of process_outgoing leaves keys and rows alone, or records
\* the id of a row in the key.
LEMMA ProcessKeepsKey ==
  ASSUME TypeOK, KeyInv, NEW w \in Workers, NEW e \in Entries,
         ProcessEntry(w, e), ~EntryDone(w, e)
  PROVE  KeyInv'
<1>0. stream[e] \in Payloads /\ IsNext(w, e)
  BY DEF TypeOK, GroupTypeOK, Entries, ProcessEntry, Check, Reject, Reserve, FoundSent, TakeOver,
         MintId, CommitRow, RecordId, EnqueueEmbedding, EnqueueFanout, EnqueueFanoutAgain,
         TellAlreadySent, At
<1>1. byKey[w] => step[w] \in Owning
  BY DEF KeyInv
<1> USE DEF At, Goto, Owning, Unwritten
<1>2. CASE Check(w, e)
  BY <1>1, <1>2, KeyKept DEF Check, outVars, TypeOK
<1>3. CASE Reject(w, e)
  BY <1>1, <1>3, KeyKept DEF Reject, dbVars, TypeOK
<1>4. CASE Reserve(w, e)
  BY <1>4, ReserveKeeps
<1>5. CASE FoundSent(w, e)
  BY <1>1, <1>5, KeyKept DEF FoundSent, dbVars, outVars, TypeOK
<1>6. CASE TakeOver(w, e)
  BY <1>1, <1>6, KeyKept DEF TakeOver, dbVars, outVars, TypeOK
<1>7. CASE MintId(w, e)
  BY <1>1, <1>7, KeyKept DEF MintId, outVars, TypeOK
<1>8. CASE CommitRow(w, e)
  BY <1>8, CommitKeeps
<1>9. CASE RecordId(w, e)
  <2>1. got[w] # Absent
    BY <1>9, SendAssumption DEF RecordId, TypeOK, NeedsId, Ids, Absent
  <2>2. \A c \in Payloads : idem[c] # Absent => idem'[c] # Absent
    BY <1>0, <1>9, <2>1 DEF RecordId, TypeOK
  <2>3. QED
    BY <1>1, <1>9, <2>2, KeyKept DEF RecordId, dbVars, TypeOK
<1>10. CASE EnqueueEmbedding(w, e)
  BY <1>1, <1>10, KeyKept DEF EnqueueEmbedding, dbVars, TypeOK
<1>11. CASE EnqueueFanout(w, e)
  BY <1>1, <1>11, KeyKept DEF EnqueueFanout, dbVars, TypeOK
<1>12. CASE EnqueueFanoutAgain(w, e)
  BY <1>1, <1>12, KeyKept DEF EnqueueFanoutAgain, dbVars, TypeOK
<1>13. CASE TellAlreadySent(w, e)
  BY <1>1, <1>13, KeyKept DEF TellAlreadySent, dbVars, TypeOK
<1>14. QED
  BY <1>2, <1>3, <1>4, <1>5, <1>6, <1>7, <1>8, <1>9, <1>10, <1>11, <1>12, <1>13
     DEF ProcessEntry

\* Whoever is at an entry after other workers' batches stayed as they were and
\* the stream only grew was at it before, or is a worker without a key.
LEMMA BatchesKeepKey ==
  ASSUME TypeOK, KeyInv, UNCHANGED <<idem, rows, lapsed>>,
         \A v \in Workers : \A f \in Entries' : Owns(v, f)' => f \in Entries /\ Owns(v, f),
         \A f \in Entries : stream'[f] = stream[f],
         \A v \in Workers : byKey'[v] => byKey[v] /\ step'[v] = step[v],
         \A v \in Workers : BatchDone(v)' => ~byKey'[v]
  PROVE  KeyInv'
<1>1. \A v \in Workers : \A f \in Entries' :
        Owns(v, f)' => f \in Entries /\ Owns(v, f) /\ stream'[f] = stream[f] /\ step'[v] = step[v]
  BY DEF Owns
<1>2. \A v \in Workers : byKey'[v] => step'[v] \in Owning
  BY DEF KeyInv
<1>3. DuplicateNeedsTakeOver'
  BY DEF KeyInv, DuplicateNeedsTakeOver
<1>4. /\ \A r \in rows' : r.byKey /\ r.cmid \notin lapsed => idem'[r.cmid] # Absent
      /\ \A v \in Workers : \A f \in Entries' : Owns(v, f)' => idem'[stream'[f]] # Absent
  BY <1>1 DEF KeyInv
<1>5. \A r \in rows' : \A v \in Workers : \A f \in Entries' :
        r.byKey /\ Owns(v, f)' /\ stream'[f] = r.cmid => step'[v] \notin Unwritten
  BY <1>1 DEF KeyInv
<1>6. \A v, u \in Workers : \A f, g \in Entries' :
        Owns(v, f)' /\ Owns(u, g)' /\ stream'[f] = stream'[g] => v = u
  BY <1>1 DEF KeyInv
<1>7. QED
  BY <1>2, <1>3, <1>4, <1>5, <1>6 DEF KeyInv

\* A worker that ends an entry, or dies, has dropped its key.
LEMMA LeaveKeepsKey ==
  ASSUME TypeOK, KeyInv, NEW w \in Workers, Forget(w), UNCHANGED <<stream, dbVars, outVars>>,
         \A v \in Workers \ {w} : fresh'[v] = fresh[v] /\ claimed'[v] = claimed[v]
  PROVE  KeyInv'
<1>1. /\ Entries' = Entries /\ stream' = stream /\ rows' = rows /\ idem' = idem /\ lapsed' = lapsed
      /\ ~byKey'[w]
      /\ \A v \in Workers \ {w} : /\ step'[v] = step[v] /\ byKey'[v] = byKey[v]
                                  /\ BatchDone(v)' <=> BatchDone(v)
                                  /\ \A f : Owns(v, f)' <=> Owns(v, f)
  BY DEF Entries, Forget, Goto, TypeOK, BatchDone, IsNext, Owns, dbVars, outVars
<1>2. QED
  BY <1>1, BatchesKeepKey DEF KeyInv, Owns

LEMMA NextKeepsKey == TypeOK /\ KeyInv /\ [Next]_vars => KeyInv'
<1> SUFFICES ASSUME TypeOK, KeyInv, [Next]_vars PROVE KeyInv'
  OBVIOUS
<1>1. ASSUME NEW c \in Payloads, Enqueue(c) PROVE KeyInv'
  <2>1. /\ \A f \in Entries : stream'[f] = stream[f]
        /\ UNCHANGED <<idem, lapsed, rows, step, byKey, fresh, claimed>>
    BY <1>1 DEF Enqueue, XAdd, procVars, dbVars, outVars, TypeOK, GroupTypeOK, Entries
  <2>2. \A v \in Workers : (BatchDone(v)' <=> BatchDone(v)) /\ \A f : IsNext(v, f)' <=> IsNext(v, f)
    BY <2>1 DEF BatchDone, IsNext
  <2>3. \A v \in Workers : \A f : IsNext(v, f) => f \in Entries
    BY NextUnique DEF TypeOK
  <2>4. QED
    BY <2>1, <2>2, <2>3, BatchesKeepKey DEF KeyInv, Owns
<1>2. ASSUME NEW c \in Payloads, ChangeMembership(c) PROVE KeyInv'
  <2>1. UNCHANGED <<groupVars, idem, lapsed, rows, step, byKey>>
    BY <1>2 DEF ChangeMembership, procVars, outVars
  <2>2. QED
    BY <2>1, StepFrame DEF KeyInv, Owns, DuplicateNeedsTakeOver
<1>3. ASSUME NEW w \in Workers, Drain(w) PROVE KeyInv'
  <2>1. /\ UNCHANGED <<stream, idem, lapsed, rows, step, byKey>> /\ ~byKey[w]
        /\ \A v \in Workers \ {w} : fresh'[v] = fresh[v] /\ claimed'[v] = claimed[v]
    BY <1>3 DEF Drain, Read, Idle, KeyInv, procVars, dbVars, outVars, TypeOK, GroupTypeOK
  <2>2. \A v \in Workers \ {w} : /\ BatchDone(v)' <=> BatchDone(v)
                                 /\ \A f : Owns(v, f)' <=> Owns(v, f)
    BY <2>1 DEF BatchDone, IsNext, Owns
  <2>3. Entries' = Entries
    BY <2>1 DEF Entries
  <2>4. QED
    BY <2>1, <2>2, <2>3, BatchesKeepKey DEF KeyInv, Owns
<1>4. ASSUME NEW w \in Workers, Acknowledge(w) \/ AcknowledgeFails(w) PROVE KeyInv'
  <2>1. UNCHANGED <<stream, fresh, claimed, idem, lapsed, rows, step, byKey>>
    BY <1>4 DEF Acknowledge, AcknowledgeFails, Ack, AckLost, procVars, dbVars, outVars
  <2>2. /\ Entries' = Entries /\ \A v : BatchDone(v)' <=> BatchDone(v)
        /\ \A v, f : Owns(v, f)' <=> Owns(v, f)
    BY <2>1 DEF Entries, BatchDone, IsNext, Owns
  <2>3. QED
    BY <2>1, <2>2 DEF KeyInv, DuplicateNeedsTakeOver
<1>5. ASSUME NEW w \in Workers, Die(w) PROVE KeyInv'
  BY <1>5, LeaveKeepsKey DEF Die, Crash, TypeOK, GroupTypeOK
<1>6. ASSUME NEW w \in Workers, NEW e \in Entries, ProcessEntry(w, e) PROVE KeyInv'
  <2>1. CASE EntryDone(w, e)
    BY <2>1, LeaveKeepsKey DEF EntryDone, Finish, TypeOK, GroupTypeOK
  <2>2. CASE ~EntryDone(w, e)
    BY <1>6, <2>2, ProcessKeepsKey
  <2>3. QED
    BY <2>1, <2>2
<1>7. ASSUME NEW w \in Workers, NEW e \in Entries, EntryRaises(w, e) PROVE KeyInv'
  BY <1>7, LeaveKeepsKey DEF EntryRaises, FailEntry, TypeOK, GroupTypeOK
<1>8. CASE UNCHANGED vars
  <2>1. UNCHANGED <<groupVars, idem, lapsed, rows, step, byKey>>
    BY <1>8 DEF vars, procVars, dbVars, outVars
  <2>2. QED
    BY <2>1, StepFrame DEF KeyInv, Owns, DuplicateNeedsTakeOver
<1>9. ASSUME NEW c \in Payloads, KeyLapses(c) PROVE KeyInv'
  <2>1. /\ UNCHANGED <<groupVars, rows, step, byKey>>
        /\ lapsed' = lapsed \cup {c} /\ \A d \in Payloads : d # c => idem'[d] = idem[d]
    BY <1>9 DEF KeyLapses, procVars, dbVars, TypeOK
  <2>2. /\ Entries' = Entries /\ stream' = stream /\ rows' = rows
        /\ \A v : BatchDone(v)' <=> BatchDone(v)
        /\ \A v, f : Owns(v, f)' => Owns(v, f) /\ stream[f] # c
    BY <2>1, StepFrame DEF Owns
  <2>3. (\A v \in Workers : \A f \in Entries : stream[f] \in Payloads) /\ \A r \in rows : r.cmid \in Payloads
    BY DEF TypeOK, GroupTypeOK, Entries, Row
  <2>4. /\ (\A v \in Workers : \A f \in Entries : Owns(v, f) => idem[stream[f]] # Absent)'
        /\ (\A r \in rows : r.byKey /\ r.cmid \notin lapsed => idem[r.cmid] # Absent)'
    BY <2>1, <2>2, <2>3 DEF KeyInv
  <2>5. DuplicateNeedsTakeOver'
    BY <2>1 DEF KeyInv, DuplicateNeedsTakeOver
  <2>6. /\ (\A v \in Workers : BatchDone(v) => ~byKey[v])'
        /\ (\A v \in Workers : byKey[v] => step[v] \in Owning)'
    BY <2>1, <2>2 DEF KeyInv
  <2>7. QED
    BY <2>1, <2>2, <2>4, <2>5, <2>6 DEF KeyInv
<1>10. QED
  BY <1>1, <1>2, <1>3, <1>4, <1>5, <1>6, <1>7, <1>8, <1>9 DEF Next

\* Of the rows of one client_message_id at most one was written by a holder of
\* the reservation, for any number of workers: only a take-over duplicates.
THEOREM DuplicateNeedsTakeOverHolds == Spec => []DuplicateNeedsTakeOver
<1>1. Init => KeyInv
  BY DEF Init, GroupInit, KeyInv, Entries, BatchDone, Owns, DuplicateNeedsTakeOver
<1>2. TypeOK /\ KeyInv /\ [Next]_vars => KeyInv'
  BY NextKeepsKey
<1>3. KeyInv => DuplicateNeedsTakeOver
  BY DEF KeyInv
<1>4. QED
  BY <1>1, <1>2, <1>3, TypeCorrect, PTL DEF Spec

(***************************************************************************)
(* Blob references.                                                        *)
(***************************************************************************)
\* The workers that have counted the blob of c and not written its row.
Counting == {"reserve", "wait", "mint", "commit"}
Counted(c) == {w \in Workers :
                 step[w] \in Counting /\ \E e \in Entries : IsNext(w, e) /\ stream[e] = c}

\* The inductive invariant: the count covers the rows and the workers that
\* may yet write one.
BlobInv ==
    /\ IsFiniteSet(rows)
    /\ \A c \in Media : Cardinality(RowsOf(c)) + Cardinality(Counted(c)) <= blobRefs[c]

\* One more element is at most one more.
LEMMA OneMore ==
  ASSUME NEW S, IsFiniteSet(S), NEW x
  PROVE  /\ IsFiniteSet(S \cup {x}) /\ Cardinality(S \cup {x}) \in Nat
         /\ Cardinality(S \cup {x}) <= Cardinality(S) + 1
<1>1. IsFiniteSet(S \cup {x}) /\ (x \in S \/ Cardinality(S \cup {x}) = Cardinality(S) + 1)
  <2>1. /\ IsFiniteSet(S \cup {x})
        /\ Cardinality(S \cup {x}) = IF x \in S THEN Cardinality(S) ELSE Cardinality(S) + 1
    BY FS_AddElement, Zenon
  <2>2. QED
    BY <2>1
<1>2. x \in S => S \cup {x} = S
  OBVIOUS
<1>3. Cardinality(S) \in Nat /\ Cardinality(S \cup {x}) \in Nat
  BY <1>1, FS_CardinalityType
<1>4. CASE x \in S
  <2>1. Cardinality(S \cup {x}) = Cardinality(S)
    BY <1>2, <1>4, Zenon
  <2>2. QED
    BY <1>1, <1>3, <2>1
<1>5. CASE x \notin S
  BY <1>1, <1>3, <1>5
<1>6. QED
  BY <1>4, <1>5

\* The sets that are counted are finite.
LEMMA CountsAreFinite ==
  ASSUME IsFiniteSet(rows), NEW c
  PROVE  /\ IsFiniteSet(RowsOf(c)) /\ IsFiniteSet(Counted(c))
         /\ Cardinality(RowsOf(c)) \in Nat /\ Cardinality(Counted(c)) \in Nat
<1>1. IsFiniteSet(RowsOf(c))
  BY FS_Subset DEF RowsOf
<1>2. IsFiniteSet(Counted(c))
  BY FS_Subset, SendAssumption DEF Counted
<1>3. QED
  BY <1>1, <1>2, FS_CardinalityType

\* A step that writes no row and no count keeps BlobInv if it brings no worker
\* to the steps between the two.
LEMMA BlobKept ==
  ASSUME TypeOK, BlobInv, UNCHANGED <<rows, blobRefs>>,
         \A c \in Media : Counted(c)' \subseteq Counted(c)
  PROVE  BlobInv'
<1>1. ASSUME NEW c \in Media
      PROVE  Cardinality(RowsOf(c)') + Cardinality(Counted(c)') <= blobRefs'[c]
  <2>1. RowsOf(c)' = RowsOf(c) /\ blobRefs'[c] = blobRefs[c]
    BY DEF RowsOf
  <2>2. IsFiniteSet(Counted(c)) /\ Cardinality(Counted(c)) \in Nat /\ Cardinality(RowsOf(c)) \in Nat
    BY CountsAreFinite DEF BlobInv
  <2>3. Counted(c)' \subseteq Counted(c)
    OBVIOUS
  <2>4. /\ Cardinality(Counted(c)') \in Nat
        /\ Cardinality(Counted(c)') <= Cardinality(Counted(c))
    BY <2>2, <2>3, FS_Subset, FS_CardinalityType
  <2>5. blobRefs[c] \in Nat
    BY SendAssumption DEF TypeOK
  <2>6. Cardinality(RowsOf(c)) + Cardinality(Counted(c)) <= blobRefs[c]
    BY DEF BlobInv
  <2>7. QED
    BY <2>1, <2>2, <2>4, <2>5, <2>6
<1>2. QED
  BY <1>1 DEF BlobInv

\* A step of process_outgoing that does not start counting.
LEMMA StepsCountNothing ==
  ASSUME TypeOK, NEW w \in Workers, UNCHANGED groupVars,
         \A v \in Workers \ {w} : step'[v] = step[v],
         step'[w] \in Counting => step[w] \in Counting
  PROVE  \A c : Counted(c)' \subseteq Counted(c)
<1>1. /\ Entries' = Entries /\ stream' = stream
      /\ \A v, f : IsNext(v, f)' <=> IsNext(v, f)
  BY StepFrame
<1>2. QED
  BY <1>1 DEF Counted

\* The checks count the blob of a message that may be written.
LEMMA CheckKeepsBlobs ==
  ASSUME TypeOK, BlobInv, NEW w \in Workers, NEW e \in Entries, Check(w, e)
  PROVE  BlobInv'
<1>0. /\ IsNext(w, e) /\ step[w] = "check" /\ rows' = rows /\ UNCHANGED groupVars
      /\ \A v \in Workers \ {w} : step'[v] = step[v]
  BY DEF Check, At, Goto, TypeOK
<1>1. /\ Entries' = Entries /\ stream' = stream
      /\ \A v, f : IsNext(v, f)' <=> IsNext(v, f)
  BY <1>0, StepFrame
<1>2. \A f : IsNext(w, f) => f = e
  BY <1>0, NextUnique DEF TypeOK
<1>3. ASSUME NEW c \in Media
      PROVE  Cardinality(RowsOf(c)') + Cardinality(Counted(c)') <= blobRefs'[c]
  <2>1. RowsOf(c)' = RowsOf(c)
    BY <1>0 DEF RowsOf
  <2>2. IsFiniteSet(Counted(c)) /\ Cardinality(Counted(c)) \in Nat /\ Cardinality(RowsOf(c)) \in Nat
    BY CountsAreFinite DEF BlobInv
  <2>3. c \in Payloads /\ blobRefs[c] \in Nat
    BY SendAssumption DEF TypeOK
  <2>4. Cardinality(RowsOf(c)) + Cardinality(Counted(c)) <= blobRefs[c]
    BY DEF BlobInv
  <2>5. CASE c = stream[e] /\ member[c] /\ c \notin Oversized
    <3>1. blobRefs'[c] = blobRefs[c] + 1
      BY <2>3, <2>5 DEF Check, TypeOK
    <3>2. Counted(c)' \subseteq Counted(c) \cup {w}
      BY <1>0, <1>1 DEF Counted
    <3>3. /\ IsFiniteSet(Counted(c) \cup {w})
          /\ Cardinality(Counted(c) \cup {w}) <= Cardinality(Counted(c)) + 1
          /\ Cardinality(Counted(c) \cup {w}) \in Nat
      BY <2>2, OneMore
    <3>4. /\ Cardinality(Counted(c)') \in Nat
          /\ Cardinality(Counted(c)') <= Cardinality(Counted(c) \cup {w})
      BY <3>2, <3>3, FS_Subset, FS_CardinalityType
    <3>5. QED
      BY <2>1, <2>2, <2>3, <2>4, <3>1, <3>3, <3>4
  <2>6. CASE ~(c = stream[e] /\ member[c] /\ c \notin Oversized)
    <3>1. blobRefs'[c] = blobRefs[c]
      BY <2>3, <2>6 DEF Check, TypeOK
    <3>2. c = stream[e] => step'[w] = "reject"
      BY <2>6 DEF Check, Goto, TypeOK
    <3>3. w \notin Counted(c)'
      BY <1>1, <1>2, <3>2 DEF Counted, Counting
    <3>4. Counted(c)' \subseteq Counted(c)
      BY <1>0, <1>1, <3>3 DEF Counted
    <3>5. /\ Cardinality(Counted(c)') \in Nat
          /\ Cardinality(Counted(c)') <= Cardinality(Counted(c))
      BY <2>2, <3>4, FS_Subset, FS_CardinalityType
    <3>6. QED
      BY <2>1, <2>2, <2>3, <2>4, <3>1, <3>5
  <2>7. QED
    BY <2>5, <2>6
<1>4. QED
  BY <1>0, <1>3 DEF BlobInv

\* The commit writes a row for a worker that had counted its blob.
LEMMA CommitKeepsBlobs ==
  ASSUME TypeOK, BlobInv, NEW w \in Workers, NEW e \in Entries, CommitRow(w, e)
  PROVE  BlobInv'
<1> DEFINE new == [id |-> got[w], cmid |-> stream[e], byKey |-> byKey[w]]
<1>0. /\ IsNext(w, e) /\ step[w] = "commit" /\ step'[w] = "record"
      /\ rows' = rows \cup {new} /\ blobRefs' = blobRefs /\ UNCHANGED groupVars
      /\ \A v \in Workers \ {w} : step'[v] = step[v]
  BY DEF CommitRow, At, Goto, TypeOK
<1>1. new.cmid = stream[e]
  OBVIOUS
<1> HIDE DEF new
<1>2. \A c : Counted(c)' \subseteq Counted(c) /\ w \notin Counted(c)'
  BY <1>0, StepsCountNothing DEF Counted, Counting
<1>3. IsFiniteSet(rows')
  BY <1>0, FS_AddElement DEF BlobInv
<1>4. ASSUME NEW c \in Media
      PROVE  Cardinality(RowsOf(c)') + Cardinality(Counted(c)') <= blobRefs'[c]
  <2>2. /\ IsFiniteSet(Counted(c)) /\ Cardinality(Counted(c)) \in Nat
        /\ IsFiniteSet(RowsOf(c)) /\ Cardinality(RowsOf(c)) \in Nat
    BY CountsAreFinite DEF BlobInv
  <2>3. c \in Payloads /\ blobRefs[c] \in Nat
    BY SendAssumption DEF TypeOK
  <2>4. Cardinality(RowsOf(c)) + Cardinality(Counted(c)) <= blobRefs[c]
    BY DEF BlobInv
  <2>5. CASE c = stream[e]
    <3>1. w \in Counted(c)
      BY <1>0, <2>5 DEF Counted, Counting
    <3>2. Counted(c)' \subseteq Counted(c) \ {w}
      BY <1>2
    <3>3. /\ IsFiniteSet(Counted(c) \ {w})
          /\ Cardinality(Counted(c) \ {w}) = Cardinality(Counted(c)) - 1
      BY <2>2, <3>1, FS_RemoveElement
    <3>4. /\ Cardinality(Counted(c)') \in Nat
          /\ Cardinality(Counted(c)') <= Cardinality(Counted(c)) - 1
      BY <3>2, <3>3, FS_Subset, FS_CardinalityType
    <3>5. RowsOf(c)' = RowsOf(c) \cup {new}
      BY <1>0, <1>1, <2>5 DEF RowsOf
    <3>6. /\ Cardinality(RowsOf(c) \cup {new}) \in Nat
          /\ Cardinality(RowsOf(c) \cup {new}) <= Cardinality(RowsOf(c)) + 1
      BY <2>2, OneMore
    <3>7. Cardinality(RowsOf(c)') \in Nat /\ Cardinality(RowsOf(c)') <= Cardinality(RowsOf(c)) + 1
      BY <3>5, <3>6
    <3>8. blobRefs'[c] = blobRefs[c]
      BY <1>0
    <3>9. QED
      BY <2>2, <2>3, <2>4, <3>4, <3>7, <3>8
  <2>6. CASE c # stream[e]
    <3>1. RowsOf(c)' = RowsOf(c)
      BY <1>0, <1>1, <2>6 DEF RowsOf
    <3>2. /\ Cardinality(Counted(c)') \in Nat
          /\ Cardinality(Counted(c)') <= Cardinality(Counted(c))
      BY <1>2, <2>2, FS_Subset, FS_CardinalityType
    <3>3. QED
      BY <1>0, <2>2, <2>3, <2>4, <3>1, <3>2
  <2>7. QED
    BY <2>5, <2>6
<1>5. QED
  BY <1>3, <1>4 DEF BlobInv

\* A worker that is at the check step counts for nothing, whatever its batch.
LEMMA LeaveCountsNothing ==
  ASSUME TypeOK, NEW w \in Workers, step'[w] = "check", UNCHANGED stream,
         \A v \in Workers \ {w} :
            step'[v] = step[v] /\ fresh'[v] = fresh[v] /\ claimed'[v] = claimed[v]
  PROVE  \A c : Counted(c)' \subseteq Counted(c)
<1>1. /\ Entries' = Entries
      /\ \A v \in Workers \ {w} : \A f : IsNext(v, f)' <=> IsNext(v, f)
  BY DEF Entries, IsNext
<1>2. QED
  BY <1>1 DEF Counted, Counting

LEMMA NextKeepsBlobs == TypeOK /\ SettleInv /\ BlobInv /\ [Next]_vars => BlobInv'
<1> SUFFICES ASSUME TypeOK, SettleInv, BlobInv, [Next]_vars PROVE BlobInv'
  OBVIOUS
<1>1. ASSUME NEW c \in Payloads, Enqueue(c) PROVE BlobInv'
  <2>1. /\ \A f \in Entries : stream'[f] = stream[f]
        /\ UNCHANGED <<rows, blobRefs, step, fresh, claimed>>
    BY <1>1 DEF Enqueue, XAdd, procVars, dbVars, TypeOK, GroupTypeOK, Entries
  <2>2. \A v \in Workers : \A f : (IsNext(v, f)' <=> IsNext(v, f)) /\ (IsNext(v, f) => f \in Entries)
    BY <2>1, NextUnique DEF IsNext, TypeOK
  <2>3. \A d : Counted(d)' \subseteq Counted(d)
    BY <2>1, <2>2 DEF Counted
  <2>4. QED
    BY <2>1, <2>3, BlobKept
<1>2. ASSUME NEW c \in Payloads, ChangeMembership(c) \/ KeyLapses(c) PROVE BlobInv'
  <2>1. UNCHANGED <<groupVars, rows, blobRefs, step>>
    BY <1>2 DEF ChangeMembership, KeyLapses, procVars, dbVars
  <2>2. \A d : Counted(d)' \subseteq Counted(d)
    BY <2>1, StepFrame DEF Counted
  <2>3. QED
    BY <2>1, <2>2, BlobKept
<1>3. ASSUME NEW w \in Workers, Drain(w) PROVE BlobInv'
  <2>1. step[w] = "check"
    BY <1>3 DEF Drain, Read, Idle, SettleInv
  <2>2. UNCHANGED <<stream, rows, blobRefs, step>>
    BY <1>3 DEF Drain, Read, procVars, dbVars
  <2>3. \A v \in Workers \ {w} : fresh'[v] = fresh[v] /\ claimed'[v] = claimed[v]
    BY <1>3 DEF Drain, Read, TypeOK, GroupTypeOK
  <2>4. QED
    BY <2>1, <2>2, <2>3, LeaveCountsNothing, BlobKept
<1>4. ASSUME NEW w \in Workers, Acknowledge(w) \/ AcknowledgeFails(w) PROVE BlobInv'
  <2>1. UNCHANGED <<stream, fresh, claimed, rows, blobRefs, step>>
    BY <1>4 DEF Acknowledge, AcknowledgeFails, Ack, AckLost, procVars, dbVars
  <2>2. \A d : Counted(d)' \subseteq Counted(d)
    BY <2>1 DEF Counted, Entries, IsNext
  <2>3. QED
    BY <2>1, <2>2, BlobKept
<1>5. ASSUME NEW w \in Workers, Forget(w), UNCHANGED <<stream, dbVars>>,
             \A v \in Workers \ {w} : fresh'[v] = fresh[v] /\ claimed'[v] = claimed[v]
      PROVE  BlobInv'
  <2>1. /\ step'[w] = "check" /\ UNCHANGED <<rows, blobRefs>>
        /\ \A v \in Workers \ {w} : step'[v] = step[v]
    BY <1>5 DEF Forget, Goto, TypeOK, dbVars
  <2>2. QED
    BY <1>5, <2>1, LeaveCountsNothing, BlobKept
<1>6. ASSUME NEW w \in Workers, Die(w) PROVE BlobInv'
  BY <1>5, <1>6 DEF Die, Crash, TypeOK, GroupTypeOK
<1>7. ASSUME NEW w \in Workers, NEW e \in Entries, EntryRaises(w, e) PROVE BlobInv'
  BY <1>5, <1>7 DEF EntryRaises, FailEntry, TypeOK, GroupTypeOK
<1>8. ASSUME NEW w \in Workers, NEW e \in Entries, EntryDone(w, e) PROVE BlobInv'
  BY <1>5, <1>8 DEF EntryDone, Finish, TypeOK, GroupTypeOK
<1>9. ASSUME NEW w \in Workers, NEW e \in Entries, ProcessEntry(w, e) PROVE BlobInv'
  <2>1. CASE Check(w, e)
    BY <2>1, CheckKeepsBlobs
  <2>2. CASE CommitRow(w, e)
    BY <2>2, CommitKeepsBlobs
  <2>3. CASE EntryDone(w, e)
    BY <1>8, <2>3
  <2>4. CASE ~(Check(w, e) \/ CommitRow(w, e) \/ EntryDone(w, e))
    <3>1. /\ UNCHANGED <<groupVars, rows, blobRefs>>
          /\ \A v \in Workers \ {w} : step'[v] = step[v]
          /\ step'[w] \in Counting => step[w] \in Counting
      BY <1>9, <2>4 DEF ProcessEntry, Reject, Reserve, FoundSent, TakeOver, MintId, RecordId,
            EnqueueEmbedding, EnqueueFanout, EnqueueFanoutAgain, TellAlreadySent, At, Goto,
            TypeOK, dbVars, outVars, Counting
    <3>2. QED
      BY <3>1, StepsCountNothing, BlobKept
  <2>5. QED
    BY <2>1, <2>2, <2>3, <2>4
<1>10. CASE UNCHANGED vars
  <2>1. UNCHANGED <<groupVars, rows, blobRefs, step>>
    BY <1>10 DEF vars, procVars, dbVars
  <2>2. \A d : Counted(d)' \subseteq Counted(d)
    BY <2>1, StepFrame DEF Counted
  <2>3. QED
    BY <2>1, <2>2, BlobKept
<1>11. QED
  BY <1>1, <1>2, <1>3, <1>4, <1>6, <1>7, <1>9, <1>10 DEF Next

\* A blob's reference count covers the rows that use it, whatever fails or is
\* delivered again.
THEOREM BlobRefsCoverRowsHolds == Spec => []BlobRefsCoverRows
<1>1. Init => BlobInv
  <2> SUFFICES ASSUME Init PROVE BlobInv
    OBVIOUS
  <2>1. IsFiniteSet(rows) /\ Cardinality({}) = 0
    BY FS_EmptySet DEF Init
  <2>2. \A c \in Media : RowsOf(c) = {} /\ Counted(c) = {} /\ blobRefs[c] = 0
    BY SendAssumption DEF Init, RowsOf, Counted, Counting
  <2>3. QED
    BY <2>1, <2>2 DEF BlobInv
<1>2. TypeOK /\ SettleInv /\ BlobInv /\ [Next]_vars => BlobInv'
  BY NextKeepsBlobs
<1>3. TypeOK /\ BlobInv => BlobRefsCoverRows
  <2> SUFFICES ASSUME TypeOK, BlobInv, NEW c \in Media PROVE Cardinality(RowsOf(c)) <= blobRefs[c]
    BY DEF BlobRefsCoverRows
  <2>1. Cardinality(RowsOf(c)) \in Nat /\ Cardinality(Counted(c)) \in Nat
    BY CountsAreFinite DEF BlobInv
  <2>2. Cardinality(RowsOf(c)) + Cardinality(Counted(c)) <= blobRefs[c] /\ blobRefs[c] \in Nat
    BY SendAssumption DEF BlobInv, TypeOK
  <2>3. QED
    BY <2>1, <2>2
<1>4. QED
  BY <1>1, <1>2, <1>3, TypeCorrect, SettleCorrect, PTL DEF Spec

=============================================================================
