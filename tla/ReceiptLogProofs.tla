-------------------------- MODULE ReceiptLogProofs ---------------------------
(***************************************************************************)
(* What the receipt worker's log and acknowledgements say is true of the   *)
(* watermarks, for any number of workers, receipts, redeliveries and       *)
(* failures, slow batches and trimming included.                           *)
(***************************************************************************)
EXTENDS ReceiptLog, WellFoundedInduction, TLAPS

(***************************************************************************)
(* What the operations of the consumer group preserve.                     *)
(***************************************************************************)
\* The initial stream and group are well typed.
LEMMA GroupInitType == GroupInit => GroupTypeOK
  BY GroupAssumption DEF GroupInit, GroupTypeOK

\* Appending an entry keeps every id the group knows valid.
LEMMA XAddType ==
  ASSUME GroupTypeOK, NEW p \in Payloads, XAdd(p)
  PROVE  GroupTypeOK' /\ Len(stream') = Len(stream) + 1
<1>1. stream' \in Seq(Payloads) /\ Len(stream') = Len(stream) + 1
  BY DEF XAdd, GroupTypeOK
<1>2. trimmed' \in 0..Len(stream')
  BY <1>1 DEF XAdd, GroupTypeOK
<1>3. QED
  BY <1>1, <1>2 DEF XAdd, GroupTypeOK

\* A drain moves the cursor forward, never past the end, and hands out only
\* entries the group has delivered.
LEMMA ReadType ==
  ASSUME GroupTypeOK, NEW w \in Workers, Read(w)
  PROVE  /\ GroupTypeOK'
         /\ cursor <= cursor'
         /\ fresh'[w] \cup claimed'[w] \subseteq 1..cursor'
<1>1. /\ Seen \in Nat /\ cursor <= Seen /\ Seen <= Len(stream)
      /\ LastRead \in Nat /\ Seen <= LastRead /\ LastRead <= Len(stream)
  BY GroupAssumption DEF GroupTypeOK, Seen, LastRead
<1>2. PICK stale \in SUBSET Claimable :
         /\ cursor' = LastRead
         /\ fresh' = [fresh EXCEPT ![w] = (Seen + 1)..LastRead]
         /\ claimed' = [claimed EXCEPT ![w] = stale]
         /\ UNCHANGED <<stream, trimmed, acked, ackIds, faults, crashes>>
  BY DEF Read
<1>3. stale \subseteq 1..cursor /\ (Seen + 1)..LastRead \subseteq 1..LastRead
  BY <1>1 DEF Claimable, Pending
<1>4. cursor \in Nat /\ 1..cursor \subseteq 1..cursor' /\ cursor <= cursor'
  BY <1>1, <1>2 DEF GroupTypeOK
<1>5. /\ fresh' \in [Workers -> SUBSET (1..cursor')]
      /\ claimed' \in [Workers -> SUBSET (1..cursor')]
      /\ ackIds' \in [Workers -> SUBSET (1..cursor')]
      /\ acked' \in SUBSET (1..cursor')
  BY <1>2, <1>3, <1>4 DEF GroupTypeOK
<1>6. cursor' \in 0..Len(stream')
  BY <1>1, <1>2
<1>7. QED
  BY <1>2, <1>4, <1>5, <1>6 DEF GroupTypeOK

LEMMA CrashType ==
  ASSUME GroupTypeOK, NEW w \in Workers, Crash(w)
  PROVE  GroupTypeOK'
  BY GroupAssumption DEF GroupTypeOK, Crash

(***************************************************************************)
(* Folding a batch.                                                        *)
(***************************************************************************)
\* A set of natural numbers has a least member.
LEMMA LeastMember ==
    ASSUME NEW S \in SUBSET Nat, S # {}
    PROVE  \E m \in S : \A n \in S : m <= n
<1> DEFINE R == {ss \in Nat \X Nat : ss[1] < ss[2]}
<1>1. IsWellFoundedOn(R, Nat)
  BY NatLessThanWellFounded DEF OpToRel
<1>2. \A x, y \in Nat : y < x => <<y, x>> \in R
  OBVIOUS
<1> HIDE DEF R
<1>3. PICK x \in S : \A y \in S : ~ (<<y, x>> \in R)
  BY <1>1, WFMin
<1>4. ASSUME NEW n \in S PROVE x <= n
  <2>1. ~ (<<n, x>> \in R)
    BY <1>3
  <2>2. ~ (n < x)
    BY <1>2, <2>1
  <2>3. QED
    BY <2>2
<1>5. QED
  BY <1>4

\* Each receipt of a batch is folded into one of its key that reaches as far.
LEMMA CollapseCovers ==
    ASSUME NEW batch \in SUBSET Entries, stream \in Seq(Payloads), NEW e \in batch
    PROVE  \E r \in Collapse(batch) : r.key = stream[e].key /\ stream[e].upTo <= r.upTo
<1> DEFINE same == {f \in batch : stream[f].key = stream[e].key}
           short == {MaxUpTo - stream[f].upTo : f \in same}
<1>1. \A f \in batch : stream[f] \in [key : Keys, upTo : 1..MaxUpTo]
  BY ReceiptLogAssumption DEF Entries
<1>2. short \in SUBSET Nat /\ short # {}
  BY <1>1, ReceiptLogAssumption
<1>3. PICK m \in short : \A n \in short : m <= n
  BY <1>2, LeastMember
<1>4. PICK f \in same : m = MaxUpTo - stream[f].upTo
  BY <1>3
<1>5. ASSUME NEW g \in same PROVE stream[g].upTo <= stream[f].upTo
  <2>1. stream[g].upTo \in 1..MaxUpTo /\ stream[f].upTo \in 1..MaxUpTo
    BY <1>1
  <2>2. MaxUpTo - stream[f].upTo <= MaxUpTo - stream[g].upTo
    BY <1>3, <1>4
  <2>3. QED
    BY <2>1, <2>2, ReceiptLogAssumption
<1>6. QED
  BY <1>4, <1>5 DEF Collapse

\* What is folded are receipts of the batch.
LEMMA CollapseType ==
    ASSUME NEW batch \in SUBSET Entries, stream \in Seq(Payloads)
    PROVE  Collapse(batch) \in SUBSET Receipts
BY ReceiptLogAssumption DEF Collapse, Entries, Receipts

(***************************************************************************)
(* Types, and what the stage of a worker says of its batch.                *)
(***************************************************************************)
\* A worker without a batch is idle; what it folded is applied before the log
\* rows are written, and what moved is forgotten before the XACK.
StageInv ==
    /\ \A w \in Workers : ackIds[w] = {}
    /\ \A w \in Workers : BatchDone(w) => stage[w] = "idle"
    /\ \A w \in Workers : stage[w] # "apply" => todo[w] = {}
    /\ \A w \in Workers : stage[w] \in {"idle", "ack"} => outcomes[w] = {}

TypeInv == TypeOK /\ StageInv

\* A step that leaves the group alone keeps its part of TypeInv.
LEMMA GroupFrame ==
    ASSUME UNCHANGED groupVars
    PROVE  /\ GroupTypeOK => GroupTypeOK'
           /\ ackIds' = ackIds /\ \A w : BatchDone(w)' <=> BatchDone(w)
BY DEF groupVars, GroupTypeOK, BatchDone

\* A drain reads entries of the stream.
LEMMA DrainType ==
    ASSUME GroupTypeOK, NEW w \in Workers, Drain(w)
    PROVE  /\ GroupTypeOK' /\ UNCHANGED <<stream, acked, ackIds, crashes>>
           /\ fresh'[w] \cup claimed'[w] \in SUBSET Entries
<1>1. Read(w)
  BY DEF Drain
<1>2. GroupTypeOK' /\ fresh'[w] \cup claimed'[w] \subseteq 1..cursor'
  BY <1>1, ReadType
<1>3. UNCHANGED <<stream, acked, ackIds, crashes>>
  BY <1>1 DEF Read
<1>4. 1..cursor' \subseteq Entries
  BY <1>2, <1>3 DEF GroupTypeOK, Entries
<1>5. QED
  BY <1>2, <1>3, <1>4

\* Every step keeps types and stages.
LEMMA TypeStep == TypeInv /\ [Next]_vars => TypeInv'
<1> SUFFICES ASSUME TypeInv, [Next]_vars PROVE TypeInv'
  OBVIOUS
<1> USE DEF TypeInv, TypeOK, StageInv
<1>1. ASSUME NEW p \in Payloads, EnqueueReceipt(p) PROVE TypeInv'
  <2>1. GroupTypeOK' /\ UNCHANGED receiptVars
    BY <1>1, XAddType DEF EnqueueReceipt
  <2>2. UNCHANGED <<fresh, claimed, ackIds>>
    BY <1>1 DEF EnqueueReceipt, XAdd
  <2>3. QED
    BY <2>1, <2>2 DEF receiptVars, BatchDone
<1>2. ASSUME NEW w \in Workers, Drain(w) PROVE TypeInv'
  <2>1. /\ GroupTypeOK' /\ ackIds' = ackIds
        /\ fresh'[w] \cup claimed'[w] \in SUBSET Entries
    BY <1>2, DrainType
  <2>2. Collapse(fresh'[w] \cup claimed'[w]) \in SUBSET Receipts
    BY <2>1, CollapseType DEF GroupTypeOK
  <2>3. TypeOK'
    BY <1>2, <2>1, <2>2 DEF Drain
  <2>4. stage[w] = "idle" /\ outcomes[w] = {}
    BY <1>2 DEF Drain, Read, Idle
  <2>5. \A v \in Workers : BatchDone(v)' => v # w /\ BatchDone(v)
    BY <1>2 DEF Drain, Read, BatchDone, GroupTypeOK
  <2>6. StageInv'
    BY <1>2, <2>1, <2>4, <2>5 DEF Drain
  <2>7. QED
    BY <2>3, <2>6
<1>3. ASSUME NEW w \in Workers, NEW r \in Receipts, ApplyReceipt(w, r) PROVE TypeInv'
  <2>1. TypeOK'
    BY <1>3, GroupFrame DEF ApplyReceipt, Receipts
  <2>2. StageInv'
    BY <1>3, GroupFrame DEF ApplyReceipt
  <2>3. QED
    BY <2>1, <2>2
<1>4. ASSUME NEW w \in Workers, WriteRows(w) PROVE TypeInv'
  BY <1>4, GroupFrame DEF WriteRows
<1>5. ASSUME NEW w \in Workers, PublishEvents(w) PROVE TypeInv'
  BY <1>5, GroupFrame DEF PublishEvents
<1>6. ASSUME NEW w \in Workers, AckBatch(w) PROVE TypeInv'
  <2>1. GroupTypeOK'
    BY <1>6 DEF AckBatch, GroupTypeOK, HeldBy
  <2>2. QED
    BY <1>6, <2>1 DEF AckBatch, BatchDone
<1>7. ASSUME NEW w \in Workers, Fail(w) PROVE TypeInv'
  <2>1. GroupTypeOK'
    BY <1>7, CrashType DEF Fail
  <2>2. QED
    BY <1>7, <2>1 DEF Fail, Crash, BatchDone
<1>8. CASE UNCHANGED vars
  BY <1>8, GroupFrame DEF vars, receiptVars
<1>9. QED
  BY <1>1, <1>2, <1>3, <1>4, <1>5, <1>6, <1>7, <1>8 DEF Next

(***************************************************************************)
(* No acknowledged receipt is lost for the watermarks.                     *)
(***************************************************************************)
\* The receipt of an entry did its work, or w is about to do it.
InHand(w, r) == \E q \in todo[w] : q.key = r.key /\ r.upTo <= q.upTo

\* The inductive invariant: so it is for the whole batch of a worker, and once
\* that is applied the batch can be acknowledged.
CoverInv ==
    /\ AckedIsCovered
    /\ \A w \in Workers : \A e \in fresh[w] \cup claimed[w] :
          Covered(stream[e]) \/ InHand(w, stream[e])

\* Watermarks only grow, so what was covered stays covered.
LEMMA CoveredStays ==
    ASSUME TypeOK, TypeOK', \A k \in Keys : watermark[k] <= watermark'[k],
           NEW r \in Receipts, Covered(r)
    PROVE  Covered(r)'
<1>1. /\ r.key \in Keys /\ r.upTo \in Nat
      /\ watermark[r.key] \in Nat /\ watermark'[r.key] \in Nat
      /\ watermark[r.key] <= watermark'[r.key]
  BY ReceiptLogAssumption DEF TypeOK, Receipts
<1>2. QED
  BY <1>1 DEF Covered

\* The entries of the stream are receipts.
LEMMA EntryType ==
    ASSUME TypeOK
    PROVE  /\ \A e \in Entries : stream[e] \in Receipts
           /\ acked \subseteq Entries
           /\ \A w \in Workers : fresh[w] \cup claimed[w] \subseteq Entries
<1>1. 1..cursor \subseteq Entries
  BY DEF TypeOK, GroupTypeOK, Entries
<1>2. \A e \in Entries : stream[e] \in Receipts
  BY ReceiptLogAssumption DEF TypeOK, GroupTypeOK, Entries, Receipts
<1>3. QED
  BY <1>1, <1>2 DEF TypeOK, GroupTypeOK

\* A step that moves no watermark back, acknowledges nothing and leaves the
\* batches and what is folded of them alone, but for forgetting a batch.
LEMMA CoverFrame ==
    ASSUME TypeOK, TypeOK', CoverInv, UNCHANGED <<stream, acked>>,
           \A k \in Keys : watermark[k] <= watermark'[k],
           \A v \in Workers :
              \/ fresh'[v] \cup claimed'[v] = {}
              \/ fresh'[v] = fresh[v] /\ claimed'[v] = claimed[v] /\ todo'[v] = todo[v]
    PROVE  CoverInv'
<1>1. AckedIsCovered'
  BY CoveredStays, EntryType DEF CoverInv, AckedIsCovered
<1>2. ASSUME NEW v \in Workers, NEW e \in fresh'[v] \cup claimed'[v]
      PROVE  (Covered(stream[e]) \/ InHand(v, stream[e]))'
  <2>1. /\ fresh'[v] = fresh[v] /\ claimed'[v] = claimed[v] /\ todo'[v] = todo[v]
        /\ stream'[e] = stream[e] /\ stream[e] \in Receipts
    BY <1>2, EntryType
  <2>2. CASE Covered(stream[e])
    BY <2>1, <2>2, CoveredStays
  <2>3. CASE InHand(v, stream[e])
    BY <2>1, <2>3 DEF InHand
  <2>4. QED
    BY <2>1, <2>2, <2>3 DEF CoverInv
<1>3. QED
  BY <1>1, <1>2 DEF CoverInv

\* Applying a receipt covers what was folded into it.
LEMMA ApplyCovers ==
    ASSUME TypeOK, TypeOK', CoverInv, NEW w \in Workers, NEW r \in Receipts, ApplyReceipt(w, r)
    PROVE  CoverInv'
<1>1. /\ r.key \in Keys /\ r.upTo \in Nat
      /\ watermark \in [Keys -> Nat] /\ UNCHANGED <<stream, acked, fresh, claimed>>
  BY ReceiptLogAssumption DEF TypeOK, Receipts, ApplyReceipt, groupVars
<1>2. \A k \in Keys : watermark[k] <= watermark'[k]
  BY <1>1 DEF ApplyReceipt, Advances
<1>3. r \notin Refused => r.upTo <= watermark'[r.key]
  BY <1>1 DEF ApplyReceipt, Advances
<1>4. AckedIsCovered'
  BY <1>1, <1>2, CoveredStays, EntryType DEF CoverInv, AckedIsCovered
<1>5. ASSUME NEW v \in Workers, NEW e \in fresh[v] \cup claimed[v]
      PROVE  (Covered(stream[e]) \/ InHand(v, stream[e]))'
  <2> DEFINE s == stream[e]
  <2>1. s \in Receipts /\ s.key \in Keys /\ s.upTo \in Nat
    BY EntryType, ReceiptLogAssumption DEF Receipts
  <2>2. CASE Covered(s)
    BY <1>1, <1>2, <2>1, <2>2, CoveredStays
  <2>3. ASSUME NEW q \in todo[v], q.key = s.key, s.upTo <= q.upTo, v # w \/ q # r
        PROVE  InHand(v, s)'
    <3>1. q \in todo'[v]
      BY <2>3 DEF ApplyReceipt, TypeOK
    <3>2. QED
      BY <1>1, <2>3, <3>1 DEF InHand
  <2>4. CASE r.key = s.key /\ s.upTo <= r.upTo
    <3>1. CASE r \in Refused
      BY <1>1, <2>4, <3>1 DEF Covered
    <3>2. CASE r \notin Refused
      <4>1. watermark'[s.key] \in Nat /\ r.upTo <= watermark'[s.key]
        BY <1>3, <2>1, <2>4, <3>2 DEF TypeOK
      <4>2. s.upTo <= watermark'[s.key]
        BY <1>1, <2>1, <2>4, <4>1
      <4>3. QED
        BY <1>1, <4>2 DEF Covered
    <3>3. QED
      BY <3>1, <3>2
  <2>5. QED
    BY <1>1, <2>2, <2>3, <2>4 DEF CoverInv, InHand
<1>6. QED
  BY <1>1, <1>4, <1>5 DEF CoverInv

\* Every step keeps what is acknowledged covered.
LEMMA CoverStep == TypeInv /\ TypeInv' /\ CoverInv /\ [Next]_vars => CoverInv'
<1> SUFFICES ASSUME TypeInv, TypeInv', CoverInv, [Next]_vars PROVE CoverInv'
  OBVIOUS
<1>0. TypeOK /\ TypeOK' /\ \A k \in Keys : watermark[k] <= watermark[k]
  BY DEF TypeInv, TypeOK
<1>1. ASSUME NEW p \in Payloads, EnqueueReceipt(p) PROVE CoverInv'
  <2>1. /\ stream' = Append(stream, p) /\ UNCHANGED <<acked, fresh, claimed, todo, watermark>>
    BY <1>1 DEF EnqueueReceipt, XAdd, receiptVars
  <2>2. \A e \in Entries : stream'[e] = stream[e]
    BY <1>0, <2>1 DEF TypeOK, GroupTypeOK, Entries
  <2>3. \A e \in Entries : /\ Covered(stream[e])' <=> Covered(stream[e])
                           /\ \A v : InHand(v, stream[e])' <=> InHand(v, stream[e])
    BY <2>1, <2>2 DEF Covered, InHand
  <2>4. QED
    BY <1>0, <2>1, <2>3, EntryType DEF CoverInv, AckedIsCovered
<1>2. ASSUME NEW w \in Workers, Drain(w) PROVE CoverInv'
  <2>1. /\ UNCHANGED <<stream, acked, watermark>>
        /\ fresh'[w] \cup claimed'[w] \in SUBSET Entries
        /\ todo'[w] = Collapse(fresh'[w] \cup claimed'[w])
    BY <1>0, <1>2, DrainType DEF Drain, TypeOK
  <2>2. \A v \in Workers \ {w} : UNCHANGED <<fresh[v], claimed[v], todo[v]>>
    BY <1>0, <1>2 DEF Drain, Read, TypeOK, GroupTypeOK
  <2>3. \A e \in fresh'[w] \cup claimed'[w] : InHand(w, stream[e])'
    BY <1>0, <2>1, CollapseCovers DEF TypeOK, GroupTypeOK, InHand
  <2>4. AckedIsCovered'
    BY <2>1 DEF CoverInv, AckedIsCovered, Covered
  <2>5. QED
    BY <2>1, <2>2, <2>3, <2>4 DEF CoverInv, InHand, Covered
<1>3. ASSUME NEW w \in Workers, NEW r \in Receipts, ApplyReceipt(w, r) PROVE CoverInv'
  BY <1>0, <1>3, ApplyCovers
<1>4. ASSUME NEW w \in Workers, WriteRows(w) \/ PublishEvents(w) PROVE CoverInv'
  BY <1>0, <1>4, CoverFrame DEF WriteRows, PublishEvents, groupVars
<1>5. ASSUME NEW w \in Workers, AckBatch(w) PROVE CoverInv'
  <2>1. /\ acked' = acked \cup fresh[w] \cup claimed[w] /\ todo[w] = {}
        /\ UNCHANGED <<stream, todo, watermark>>
    BY <1>5 DEF AckBatch, HeldBy, TypeInv, StageInv
  <2>2. AckedIsCovered'
    BY <2>1 DEF CoverInv, AckedIsCovered, Covered, InHand
  <2>3. \A v \in Workers : \A e \in fresh'[v] \cup claimed'[v] : e \in fresh[v] \cup claimed[v]
    BY <1>0, <1>5 DEF AckBatch, TypeOK, GroupTypeOK
  <2>4. QED
    BY <2>1, <2>2, <2>3 DEF CoverInv, Covered, InHand
<1>6. ASSUME NEW w \in Workers, Fail(w) PROVE CoverInv'
  <2>1. UNCHANGED <<stream, acked, watermark>>
    BY <1>6 DEF Fail, Crash
  <2>2. \A v \in Workers :
           \/ fresh'[v] \cup claimed'[v] = {}
           \/ fresh'[v] = fresh[v] /\ claimed'[v] = claimed[v] /\ todo'[v] = todo[v]
    BY <1>0, <1>6 DEF Fail, Crash, TypeOK, GroupTypeOK
  <2>3. QED
    BY <1>0, <2>1, <2>2, CoverFrame
<1>7. CASE UNCHANGED vars
  BY <1>0, <1>7, CoverFrame DEF vars, groupVars, receiptVars
<1>8. QED
  BY <1>1, <1>2, <1>3, <1>4, <1>5, <1>6, <1>7 DEF Next

(***************************************************************************)
(* The rows of the log.                                                    *)
(***************************************************************************)
\* The inductive invariant: a receipt that moved a watermark is below it, so no
\* delivery moves it again; until its row is written one batch has it, and that
\* batch publishes it only then.
RowInv ==
    /\ \A r \in moved : r.upTo <= watermark[r.key]
    /\ \A r \in Receipts : logged[r] <= (IF r \in moved THEN 1 ELSE 0)
    /\ \A r \in published : logged[r] = 1
    /\ \A w \in Workers : \A r \in outcomes[w] :
          /\ stage[w] = "apply" => logged[r] = 0
          /\ stage[w] = "publish" => logged[r] = 1
    /\ \A w, v \in Workers : \A r \in outcomes[w] \cap outcomes[v] :
          stage[w] = "apply" /\ stage[v] = "apply" => w = v
    /\ MovedIsLoggedWithoutFault

\* A step that moves nothing and writes nothing, and forgets at most the
\* outcomes of a worker that wrote its rows or failed.
LEMMA RowFrame ==
    ASSUME TypeOK, RowInv, UNCHANGED <<watermark, logged, moved>>, published' = published,
           \A v \in Workers :
              \/ outcomes'[v] = outcomes[v] /\ stage'[v] = stage[v]
              \/ outcomes'[v] = {} /\ (stage[v] = "apply" => outcomes[v] = {} \/ crashes' # 0),
           crashes' = 0 => crashes = 0
    PROVE  RowInv'
<1>1. \A r : crashes' = 0 /\ InProgress(r) => InProgress(r)'
  BY DEF InProgress
<1>2. MovedIsLoggedWithoutFault'
  BY <1>1 DEF RowInv, MovedIsLoggedWithoutFault
<1>3. \A v \in Workers : outcomes'[v] \subseteq outcomes[v]
                        /\ (outcomes'[v] # {} => stage'[v] = stage[v])
  OBVIOUS
<1>4. QED
  BY <1>2, <1>3 DEF RowInv

\* Only a receipt that never moved a watermark can move one.
LEMMA ApplyRows ==
    ASSUME TypeOK, RowInv, NEW w \in Workers, NEW r \in Receipts, ApplyReceipt(w, r)
    PROVE  RowInv'
<1>1. /\ stage[w] = "apply" /\ UNCHANGED <<stage, logged, published, crashes>>
      /\ r.key \in Keys /\ r.upTo \in Nat /\ watermark \in [Keys -> Nat]
  BY ReceiptLogAssumption DEF ApplyReceipt, groupVars, TypeOK, Receipts
<1>2. CASE ~Advances(r)
  <2>1. UNCHANGED <<watermark, outcomes, moved>>
    BY <1>2 DEF ApplyReceipt
  <2>2. QED
    BY <1>1, <2>1, RowFrame
<1>3. CASE Advances(r)
  <2>1. /\ watermark' = [watermark EXCEPT ![r.key] = r.upTo] /\ moved' = moved \cup {r}
        /\ outcomes' = [outcomes EXCEPT ![w] = @ \cup {r}]
        /\ watermark[r.key] < r.upTo
    BY <1>3 DEF ApplyReceipt, Advances
  <2>2. r \notin moved
    BY <1>1, <2>1 DEF RowInv
  <2>3. logged[r] = 0 /\ \A v \in Workers : r \notin outcomes[v]
    BY <2>2 DEF RowInv, TypeOK
  <2>4. \A q \in moved' : q.upTo <= watermark'[q.key]
    <3> SUFFICES ASSUME NEW q \in moved' PROVE q.upTo <= watermark'[q.key]
      OBVIOUS
    <3>1. q.key \in Keys /\ q.upTo \in Nat
      BY <2>1, ReceiptLogAssumption DEF TypeOK, Receipts
    <3>2. QED
      BY <1>1, <2>1, <3>1 DEF RowInv
  <2>5. \A q \in Receipts : logged'[q] <= (IF q \in moved' THEN 1 ELSE 0)
    BY <1>1, <2>1, <2>3 DEF RowInv
  <2>6. \A v \in Workers : outcomes'[v] = IF v = w THEN outcomes[v] \cup {r} ELSE outcomes[v]
    BY <2>1 DEF TypeOK
  <2>7. \A v \in Workers : \A q \in outcomes'[v] :
          /\ stage'[v] = "apply" => logged'[q] = 0
          /\ stage'[v] = "publish" => logged'[q] = 1
    BY <1>1, <2>3, <2>6, ZenonT(60) DEF RowInv
  <2>8. \A u, v \in Workers : \A q \in outcomes'[u] \cap outcomes'[v] :
          stage'[u] = "apply" /\ stage'[v] = "apply" => u = v
    <3> SUFFICES ASSUME NEW u \in Workers, NEW v \in Workers,
                        NEW q \in outcomes'[u] \cap outcomes'[v],
                        stage[u] = "apply", stage[v] = "apply"
                 PROVE  u = v
      BY <1>1
    <3>1. CASE q = r
      BY <2>3, <2>6, <3>1
    <3>2. CASE q # r
      <4>1. \A x \in Workers : q \in outcomes'[x] => q \in outcomes[x]
        BY <2>6, <3>2
      <4>2. QED
        BY <4>1 DEF RowInv
    <3>3. QED
      BY <3>1, <3>2
  <2>9. MovedIsLoggedWithoutFault'
    <3>1. \A q : InProgress(q) \/ q = r => InProgress(q)'
      BY <1>1, <2>6 DEF InProgress
    <3>2. QED
      BY <1>1, <2>1, <3>1 DEF RowInv, MovedIsLoggedWithoutFault
  <2>10. QED
    BY <1>1, <2>4, <2>5, <2>7, <2>8, <2>9 DEF RowInv
<1>4. QED
  BY <1>2, <1>3

\* The commit of a batch's rows writes one for each receipt it moved.
LEMMA WriteRowsKeeps ==
    ASSUME TypeOK, RowInv, NEW w \in Workers, WriteRows(w)
    PROVE  RowInv'
<1>1. /\ stage[w] = "apply" /\ stage' = [stage EXCEPT ![w] = "publish"]
      /\ UNCHANGED <<outcomes, watermark, moved, published, crashes>>
      /\ \A r \in outcomes[w] : r \in moved /\ r \in Receipts /\ logged[r] = 0
  BY DEF WriteRows, groupVars, RowInv, TypeOK
<1>2. \A r \in Receipts : logged'[r] = logged[r] + IF r \in outcomes[w] THEN 1 ELSE 0
  BY DEF WriteRows
<1>3. \A r \in Receipts : /\ r \in outcomes[w] => logged'[r] = 1
                          /\ r \notin outcomes[w] => logged'[r] = logged[r]
  BY <1>1, <1>2 DEF TypeOK
<1>4. \A r \in Receipts : logged'[r] <= (IF r \in moved THEN 1 ELSE 0)
  BY <1>1, <1>3 DEF RowInv
<1>5. \A r \in published : logged'[r] = 1
  BY <1>1, <1>3 DEF RowInv, TypeOK
<1>6. ASSUME NEW v \in Workers, NEW r \in outcomes[v]
      PROVE  /\ stage'[v] = "apply" => logged'[r] = 0
             /\ stage'[v] = "publish" => logged'[r] = 1
  <2>1. r \in Receipts
    BY DEF TypeOK
  <2>2. CASE v = w
    BY <1>1, <1>3, <2>1, <2>2 DEF TypeOK
  <2>3. CASE v # w
    <3>1. stage'[v] = stage[v]
      BY <1>1, <2>3 DEF TypeOK
    <3>2. stage[v] = "apply" => r \notin outcomes[w]
      BY <1>1, <2>3 DEF RowInv
    <3>3. stage[v] = "publish" => r \notin outcomes[w]
      BY <1>1 DEF RowInv
    <3>4. QED
      BY <1>3, <2>1, <3>1, <3>2, <3>3 DEF RowInv
  <2>4. QED
    BY <2>2, <2>3
<1>7. \A v \in Workers : stage'[v] = "apply" => v # w /\ stage[v] = "apply"
  BY <1>1 DEF TypeOK
<1>8. MovedIsLoggedWithoutFault'
  <2> SUFFICES ASSUME crashes = 0, NEW r \in moved PROVE logged'[r] = 1 \/ InProgress(r)'
    BY <1>1 DEF MovedIsLoggedWithoutFault
  <2>1. r \in Receipts /\ (logged[r] = 1 \/ InProgress(r))
    BY DEF RowInv, MovedIsLoggedWithoutFault, TypeOK
  <2>2. CASE r \in outcomes[w]
    BY <1>3, <2>1, <2>2
  <2>3. CASE r \notin outcomes[w]
    BY <1>1, <1>3, <2>1, <2>3 DEF InProgress, TypeOK
  <2>4. QED
    BY <2>2, <2>3
<1>9. QED
  BY <1>1, <1>4, <1>5, <1>6, <1>7, <1>8 DEF RowInv

\* Every step keeps log rows and moves in step.
LEMMA RowStep == TypeInv /\ RowInv /\ [Next]_vars => RowInv'
<1> SUFFICES ASSUME TypeInv, RowInv, [Next]_vars PROVE RowInv'
  OBVIOUS
<1>0. TypeOK /\ StageInv
  BY DEF TypeInv
<1>1. ASSUME NEW p \in Payloads, EnqueueReceipt(p) PROVE RowInv'
  BY <1>0, <1>1, RowFrame DEF EnqueueReceipt, XAdd, receiptVars
<1>2. ASSUME NEW w \in Workers, Drain(w) PROVE RowInv'
  <2>1. outcomes[w] = {} /\ UNCHANGED <<outcomes, watermark, logged, published, moved, crashes>>
    BY <1>0, <1>2 DEF Drain, Read, Idle, StageInv
  <2>2. \A v \in Workers \ {w} : stage'[v] = stage[v]
    BY <1>0, <1>2 DEF Drain, TypeOK
  <2>3. QED
    BY <1>0, <2>1, <2>2, RowFrame
<1>3. ASSUME NEW w \in Workers, NEW r \in Receipts, ApplyReceipt(w, r) PROVE RowInv'
  BY <1>0, <1>3, ApplyRows
<1>4. ASSUME NEW w \in Workers, WriteRows(w) PROVE RowInv'
  BY <1>0, <1>4, WriteRowsKeeps
<1>5. ASSUME NEW w \in Workers, PublishEvents(w) PROVE RowInv'
  <2>1. PICK sent \in SUBSET outcomes[w] : published' = published \cup sent
    BY <1>5 DEF PublishEvents
  <2>2. /\ stage[w] = "publish" /\ stage' = [stage EXCEPT ![w] = "ack"]
        /\ outcomes' = [outcomes EXCEPT ![w] = {}]
        /\ UNCHANGED <<watermark, logged, moved, crashes>>
    BY <1>5 DEF PublishEvents, groupVars
  <2>3. \A r \in published' : logged'[r] = 1
    BY <2>1, <2>2 DEF RowInv
  <2>4. \A v \in Workers : /\ outcomes'[v] = IF v = w THEN {} ELSE outcomes[v]
                           /\ stage'[v] = IF v = w THEN "ack" ELSE stage[v]
    BY <1>0, <2>2 DEF TypeOK
  <2>5. MovedIsLoggedWithoutFault'
    BY <2>2, <2>4 DEF RowInv, MovedIsLoggedWithoutFault, InProgress
  <2>6. QED
    BY <2>2, <2>3, <2>4, <2>5 DEF RowInv
<1>6. ASSUME NEW w \in Workers, AckBatch(w) PROVE RowInv'
  <2>1. outcomes[w] = {} /\ UNCHANGED <<outcomes, watermark, logged, published, moved, crashes>>
    BY <1>0, <1>6 DEF AckBatch, StageInv
  <2>2. \A v \in Workers \ {w} : stage'[v] = stage[v]
    BY <1>0, <1>6 DEF AckBatch, TypeOK
  <2>3. QED
    BY <1>0, <2>1, <2>2, RowFrame
<1>7. ASSUME NEW w \in Workers, Fail(w) PROVE RowInv'
  <2>1. /\ crashes' # 0 /\ outcomes'[w] = {}
        /\ UNCHANGED <<watermark, logged, published, moved>>
    BY <1>0, <1>7 DEF Fail, Crash, TypeOK, GroupTypeOK
  <2>2. \A v \in Workers \ {w} : outcomes'[v] = outcomes[v] /\ stage'[v] = stage[v]
    BY <1>0, <1>7 DEF Fail, TypeOK
  <2>3. QED
    BY <1>0, <2>1, <2>2, RowFrame
<1>8. CASE UNCHANGED vars
  BY <1>0, <1>8, RowFrame DEF vars, groupVars, receiptVars
<1>9. QED
  BY <1>1, <1>2, <1>3, <1>4, <1>5, <1>6, <1>7, <1>8 DEF Next

\* However batches overlap, fail and are redelivered: an acknowledged receipt is
\* at or below its watermark, a move has at most one log row, what was published
\* has one, and without a failure every move is logged.
THEOREM LogHoldsAlways == Spec => []LogHolds
<1>1. Init => TypeInv /\ CoverInv /\ RowInv
  <2>1. Init => TypeOK
    BY GroupInitType, ReceiptLogAssumption DEF Init, TypeOK, Receipts
  <2>2. Init => StageInv /\ CoverInv /\ RowInv
    BY DEF Init, GroupInit, StageInv, CoverInv, AckedIsCovered, RowInv,
           MovedIsLoggedWithoutFault
  <2>3. QED
    BY <2>1, <2>2 DEF TypeInv
<1>2. TypeInv /\ CoverInv /\ RowInv => LogHolds
  BY DEF TypeInv, CoverInv, RowInv, LogHolds, RowsMatchMoves
<1>3. QED
  BY <1>1, <1>2, TypeStep, CoverStep, RowStep, PTL DEF Spec

(***************************************************************************)
(* The receipt worker implements AtLeastOnce.                              *)
(***************************************************************************)
\* A step that moves no watermark back, and neither adds nor acknowledges.
LEMMA CoveringStep ==
    ASSUME TypeOK, TypeOK', UNCHANGED <<stream, acked>>, \A k \in Keys : watermark[k] <= watermark'[k]
    PROVE  Promise!Handle
<1>1. Entries' = Entries /\ \A e \in Entries : stream[e] \in Receipts
  BY EntryType DEF Entries
<1>2. \A e \in Entries : Covered(stream[e]) => Covered(stream[e])'
  <2>1. ASSUME NEW e \in Entries, Covered(stream[e]) PROVE Covered(stream[e])'
    <3> DEFINE r == stream[e]
    <3>1. Covered(r)'
      BY <1>1, <2>1, CoveredStays
    <3>2. QED
      BY <3>1 DEF Covered
  <2>2. QED
    BY <2>1
<1>3. QED
  BY <1>1, <1>2 DEF Promise!Handle, Entries

\* Each step of the worker is an Add, a Handle or a Retire of AtLeastOnce under
\* the mapping of ReceiptLog.
LEMMA LogStepImplements ==
  TypeInv /\ TypeInv' /\ CoverInv /\ CoverInv' /\ [Next]_vars => [Promise!Next]_(Promise!vars)
<1> SUFFICES ASSUME TypeInv, TypeInv', CoverInv, CoverInv', [Next]_vars PROVE Promise!Next
  OBVIOUS
<1> USE DEF Promise!Next
<1>0. TypeOK /\ TypeOK' /\ GroupTypeOK /\ \A k \in Keys : watermark[k] <= watermark[k]
  BY DEF TypeInv, TypeOK
<1>1. ASSUME UNCHANGED <<stream, acked, watermark>> PROVE Promise!Next
  BY <1>0, <1>1, CoveringStep
<1>2. ASSUME NEW r \in Payloads, EnqueueReceipt(r) PROVE Promise!Next
  <2>1. /\ stream' = Append(stream, r) /\ acked' = acked /\ watermark' = watermark
    BY <1>2 DEF EnqueueReceipt, XAdd, receiptVars
  <2>2. /\ Len(stream') = Len(stream) + 1 /\ Len(stream) \in Nat
        /\ \A e \in Entries : stream'[e] = stream[e]
    BY <1>0, <2>1 DEF GroupTypeOK, Entries
  <2>3. /\ Entries' = Entries \cup {Len(stream) + 1}
        /\ \A e \in Entries : Covered(stream[e])' <=> Covered(stream[e])
    BY <2>1, <2>2 DEF Entries, Covered
  <2>4. {e \in Entries : Covered(stream[e])}' \in
           {{e \in Entries : Covered(stream[e])},
            {e \in Entries : Covered(stream[e])} \cup {Len(stream) + 1}}
    BY <2>3
  <2>5. QED
    BY <2>1, <2>2, <2>4 DEF Promise!Add
<1>3. ASSUME NEW w \in Workers, AckBatch(w) PROVE Promise!Next
  <2>1. /\ UNCHANGED <<stream, watermark>> /\ acked \subseteq acked'
    BY <1>3 DEF AckBatch
  <2>2. Entries' = Entries /\ \A e : Covered(stream[e])' <=> Covered(stream[e])
    BY <2>1 DEF Entries, Covered
  <2>3. acked' \subseteq {e \in Entries : Covered(stream[e])}
    <3>1. acked' \subseteq Entries'
      <4>1. 1..cursor' \subseteq Entries'
        BY <1>0 DEF TypeOK, GroupTypeOK, Entries
      <4>2. QED
        BY <1>0, <4>1 DEF TypeOK, GroupTypeOK
    <3>2. \A e \in acked' : Covered(stream[e])'
      BY DEF CoverInv, AckedIsCovered
    <3>3. QED
      BY <2>2, <3>1, <3>2
  <2>4. {e \in Entries : Covered(stream[e])}' = {e \in Entries : Covered(stream[e])}
    BY <2>2
  <2>5. QED
    BY <2>1, <2>3, <2>4 DEF Promise!Retire
<1>4. ASSUME NEW w \in Workers, NEW r \in Receipts, ApplyReceipt(w, r) PROVE Promise!Next
  <2>1. /\ r.key \in Keys /\ r.upTo \in Nat /\ watermark \in [Keys -> Nat] /\ UNCHANGED <<stream, acked>>
    BY <1>0, <1>4, ReceiptLogAssumption DEF TypeOK, Receipts, ApplyReceipt, groupVars
  <2>2. \A k \in Keys : watermark[k] <= watermark'[k]
    BY <1>4, <2>1 DEF ApplyReceipt, Advances
  <2>3. QED
    BY <1>0, <2>1, <2>2, CoveringStep
<1>5. ASSUME NEW w \in Workers, Drain(w) \/ WriteRows(w) \/ PublishEvents(w) \/ Fail(w) PROVE Promise!Next
  BY <1>1, <1>5 DEF Drain, Read, WriteRows, PublishEvents, Fail, Crash, groupVars
<1>6. CASE UNCHANGED vars
  BY <1>1, <1>6 DEF vars, groupVars, receiptVars
<1>7. QED
  BY <1>2, <1>3, <1>4, <1>5, <1>6 DEF Next

\* The receipt worker, however its batches fold, overlap, fail and come again,
\* refines AtLeastOnce with "covered" as the effect of a receipt: it is
\* acknowledged after that, and no step undoes it.
THEOREM LogImplementsAtLeastOnce == Spec => ImplementsAtLeastOnce
<1>1. Init => Promise!Init
  BY DEF Init, GroupInit, Promise!Init, Entries
<1>2. Init => TypeInv /\ CoverInv
  <2>1. Init => TypeOK
    BY GroupInitType, ReceiptLogAssumption DEF Init, TypeOK, Receipts
  <2>2. Init => StageInv /\ CoverInv
    BY DEF Init, GroupInit, StageInv, CoverInv, AckedIsCovered
  <2>3. QED
    BY <2>1, <2>2 DEF TypeInv
<1>3. QED
  BY <1>1, <1>2, TypeStep, CoverStep, LogStepImplements, PTL
     DEF Spec, ImplementsAtLeastOnce, Promise!Spec

=============================================================================
