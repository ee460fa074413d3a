-------------------------- MODULE ChatServicesProofs --------------------------
(***************************************************************************)
(* What the services of the chat application promise for any number of     *)
(* users, requests, messages and rows, and any bounds: the ticks and the   *)
(* watermarks of ReceiptCursors, the blobs of MediaBlobs, the groups of    *)
(* GroupMembership, the pairs of PrivateChats, the history of              *)
(* MessageHistory, the lists of ChatLists, the profiles of ProfileUpdates, *)
(* the tables of TimePartitions, the streams of SearchStreams and the      *)
(* texts of EmbeddingQueue.  Each has a section: its invariant, one lemma  *)
(* per action, and its theorems.                                           *)
(***************************************************************************)
EXTENDS MCChatServices, FiniteSetTheorems, SequenceTheorems, WellFoundedInduction, TLAPS

-----------------------------------------------------------------------------
(***************************************************************************)
(* Receipt cursors.  The invariant has a part per reason: types; what a    *)
(* transaction's id may be; who holds a participant row; and what the      *)
(* minimum a transaction has read is worth when it commits.                *)
(***************************************************************************)

(***************************************************************************)
(* A non-empty set of naturals has a least element, and Min is it.         *)
(***************************************************************************)
LEMMA MinIsLeast ==
    ASSUME NEW S, S \subseteq Nat, S # {}
    PROVE  Min(S) \in S /\ \A x \in S : Min(S) <= x
<1>1. PICK m \in S : \A y \in S : <<y, m>> \notin OpToRel(<, Nat)
  BY WFMin, NatLessThanWellFounded
<1>2. \A y \in S : m \in Nat /\ y \in Nat /\ ~(y < m)
  BY <1>1, Zenon DEF OpToRel
<1>3. \A y \in S : m <= y
  BY <1>2
<1>4. QED
  BY <1>3 DEF Min

-----------------------------------------------------------------------------
\* At most one transaction holds a participant's row.
LocksHold ==
    \A s, t \in Sessions, u \in Users : HoldsRow(s, u) /\ HoldsRow(t, u) => s = t

\* What a transaction is about: a send brings an id no row has and no other
\* send brings, a join names a committed row and so does an acknowledgement
\* unless ids were acknowledged that no row had, and an acknowledgement past
\* its UPDATE still moves a member's watermark.
Sound(s) ==
    /\ txn[s].op \in {"advance", "leave", "join"} => txn[s].user \in Users
    /\ txn[s].op = "send" => txn[s].id \in 1..minted /\ txn[s].id \notin committed
    /\ txn[s].op = "advance" => foretold \/ txn[s].id \in committed
    /\ txn[s].op = "join" => txn[s].id \in committed \cup {0}
    /\ (txn[s].op = "advance" /\ txn[s].at \in {"mins", "write"}) =>
           /\ txn[s].user \in members
           /\ watermark[txn[s].user][txn[s].kind] < txn[s].id

TxnsSound == \A s \in Sessions : Sound(s)

SendsDiffer ==
    \A s, t \in Sessions :
        txn[s].op = "send" /\ txn[t].op = "send" /\ txn[s].id = txn[t].id => s = t

\* Every watermark is NULL or names a committed row ...
MarksNamed == ~foretold => \A u \in Users, k \in Kinds : watermark[u][k] \in committed \cup {0}

\* ... and a minimum that was read is that too, or the sender's own.
MinsNamed ==
    ~foretold => \A s \in Sessions, k \in Kinds :
        \/ txn[s].mins[k] \in committed \cup {0}
        \/ txn[s].op = "send" /\ txn[s].mins[k] = txn[s].id

Txns == [op : {"none", "send", "advance", "leave", "join"},
         at : {"idle", "chat", "row", "mins", "write"},
         user : Users \cup {NoUser}, kind : Kinds,
         id : 0..MaxMessages, mins : [Kinds -> 0..MaxMessages]]

\* CursorTypeOK in two parts: what only needs the ranges of the variables ...
Ranges ==
    /\ members \in SUBSET Users
    /\ watermark \in [Users -> [Kinds -> 0..MaxMessages]]
    /\ minted \in 0..MaxMessages
    /\ committed \in SUBSET (1..minted)
    /\ txn \in [Sessions -> Txns]
    /\ acksOverlapped \in BOOLEAN
    /\ disordered \in BOOLEAN
    /\ foretold \in BOOLEAN

\* ... and what relates them.
Related ==
    /\ lastId \in committed \cup {0}
    /\ cursor \in [Kinds -> 0..MaxMessages]
    /\ ~foretold => \A k \in Kinds : cursor[k] \in committed \cup {0}
    /\ audience \in [Ids -> SUBSET members]

CursorInv == Ranges /\ Related /\ LocksHold /\ TxnsSound /\ SendsDiffer /\ MarksNamed /\ MinsNamed

-----------------------------------------------------------------------------
LEMMA IdleTyped == Idle \in Txns /\ Idle.at = "idle" /\ Idle.op = "none" /\ Idle.mins = NoMins
BY ReceiptAssumption DEF Idle, Txns, NoMins

\* What the aggregate returns: NULL or one of the values it sees.
LEMMA LeastSeenIsSeen ==
    ASSUME Ranges, NEW s \in Sessions, NEW k \in Kinds
    PROVE  /\ \A u \in Users : Own(s, u, k) \in 0..MaxMessages
           /\ RowsSeen(s) \subseteq Users
           /\ LeastSeen(s, k) = 0 \/ \E u \in RowsSeen(s) : LeastSeen(s, k) = Own(s, u, k)
           /\ \A u \in RowsSeen(s) : LeastSeen(s, k) <= Own(s, u, k)
           /\ LeastSeen(s, k) \in 0..MaxMessages
<1> DEFINE seen == {Own(s, u, k) : u \in RowsSeen(s)}
<1>1. \A u \in Users : Own(s, u, k) \in 0..MaxMessages
  BY DEF Ranges, Txns, Own
<1>2. RowsSeen(s) \subseteq Users
  BY DEF Ranges, RowsSeen
<1>3. seen \subseteq Nat
  BY <1>1, <1>2, ReceiptAssumption
<1>4. CASE seen = {}
  BY <1>1, <1>2, <1>4, ReceiptAssumption DEF LeastSeen
<1>5. CASE seen # {}
  <2>1. LeastSeen(s, k) = Min(seen)
    BY <1>5 DEF LeastSeen
  <2>2. Min(seen) \in seen /\ \A x \in seen : Min(seen) <= x
    BY <1>3, <1>5, MinIsLeast
  <2>3. QED
    BY <1>1, <1>2, <2>1, <2>2
<1>6. QED
  BY <1>4, <1>5
-----------------------------------------------------------------------------
\* The steps of a session, by what they change.
Local(s) ==   \* no row is changed and no id minted
    \/ WriteChat(s) \/ WriteSender(s) \/ ReadMins(s) \/ WriteWatermark(s) \/ DeleteRow(s) \/ Rollback(s)
    \/ \E u \in Users, k \in Kinds, m \in Ids : StartAdvance(s, u, k, m)
    \/ \E u \in Users : StartLeave(s, u) \/ StartJoin(s, u)

Starts(s) == \E u \in Users \cup {NoUser} : StartSend(s, u)

LEMMA StepCases ==
    ASSUME CursorNext
    PROVE  \E s \in Sessions : \/ Local(s) \/ Starts(s) \/ CommitSend(s) \/ CommitSystemMessage(s)
                               \/ CommitAdvance(s) \/ CommitLeave(s) \/ CommitJoin(s)
BY DEF CursorNext, Local, Starts

LEMMA LocalFrame ==
    ASSUME NEW s \in Sessions, Local(s)
    PROVE  /\ UNCHANGED <<members, watermark, lastId, cursor, minted, committed, audience, disordered>>
           /\ acksOverlapped' \in {acksOverlapped, acksOverlapped \/ \E r \in Sessions \ {s} : txn[r] # Idle}
BY DEF Local, WriteChat, WriteSender, ReadMins, WriteWatermark, DeleteRow, Rollback, StartAdvance,
   StartLeave, StartJoin, rows, counts, Begin, Goto, End

\* What was acknowledged without a row stays so, and only an acknowledgement
\* changes that.
LEMMA ForetoldStep ==
    ASSUME NEW s \in Sessions,
           Local(s) \/ Starts(s) \/ CommitSend(s) \/ CommitSystemMessage(s)
           \/ CommitAdvance(s) \/ CommitLeave(s) \/ CommitJoin(s)
    PROVE  foretold => foretold'
<1>1. CASE Local(s)
  BY <1>1 DEF Local, WriteChat, WriteSender, ReadMins, WriteWatermark, DeleteRow, Rollback, StartAdvance,
     StartLeave, StartJoin, Begin
<1>2. CASE Starts(s)
  BY <1>2 DEF Starts, StartSend, Begin
<1>3. CASE CommitSend(s) \/ CommitSystemMessage(s) \/ CommitAdvance(s) \/ CommitLeave(s) \/ CommitJoin(s)
  BY <1>3 DEF CommitSend, CommitSystemMessage, CommitAdvance, CommitLeave, CommitJoin
<1> QED
  BY <1>1, <1>2, <1>3

\* A step of s leaves the other transactions alone, and its own is a record.
LEMMA TxnStep ==
    ASSUME Ranges, Related, NEW s \in Sessions,
           Local(s) \/ Starts(s) \/ CommitSend(s) \/ CommitSystemMessage(s)
           \/ CommitAdvance(s) \/ CommitLeave(s) \/ CommitJoin(s)
    PROVE  /\ txn' \in [Sessions -> Txns]
           /\ \A t \in Sessions \ {s} : txn'[t] = txn[t]
<1> SUFFICES \E t \in Txns : txn' = [txn EXCEPT ![s] = t]
  BY DEF Ranges
<1> USE IdleTyped
<1>1. CASE Local(s)
  <2>1. ASSUME NEW u \in Users, NEW k \in Kinds, NEW m \in Ids, StartAdvance(s, u, k, m)
        PROVE  \E t \in Txns : txn' = [txn EXCEPT ![s] = t]
    <3>1. m \in 0..MaxMessages
      BY ReceiptAssumption DEF Ids
    <3>2. [Idle EXCEPT !.op = "advance", !.at = "row", !.user = u, !.kind = k, !.id = m] \in Txns
      BY <3>1 DEF Txns
    <3> QED
      BY <2>1, <3>2 DEF StartAdvance, Begin
  <2>2. ASSUME NEW u \in Users, StartLeave(s, u)
        PROVE  \E t \in Txns : txn' = [txn EXCEPT ![s] = t]
    <3>1. [Idle EXCEPT !.op = "leave", !.at = "row", !.user = u] \in Txns
      BY DEF Txns
    <3> QED
      BY <2>2, <3>1 DEF StartLeave, Begin
  <2>3. ASSUME NEW u \in Users, StartJoin(s, u)
        PROVE  \E t \in Txns : txn' = [txn EXCEPT ![s] = t]
    <3>1. lastId \in 0..MaxMessages
      BY ReceiptAssumption DEF Ranges, Related
    <3>2. [Idle EXCEPT !.op = "join", !.at = "write", !.user = u, !.id = lastId] \in Txns
      BY <3>1 DEF Txns
    <3> QED
      BY <2>3, <3>2 DEF StartJoin, Begin
  <2>4. CASE ReadMins(s)
    <3>1. [k \in Kinds |-> LeastSeen(s, k)] \in [Kinds -> 0..MaxMessages]
      BY LeastSeenIsSeen
    <3>2. [txn[s] EXCEPT !.at = "write", !.mins = [k \in Kinds |-> LeastSeen(s, k)]] \in Txns
      BY <3>1 DEF Ranges, Txns
    <3> QED
      BY <2>4, <3>2 DEF ReadMins
  <2>5. CASE WriteSender(s)
    <3>1. \A u \in Users \cup {NoUser} : [txn[s] EXCEPT !.at = "mins", !.user = u] \in Txns
      BY DEF Ranges, Txns
    <3>2. (IF txn[s].user \in members THEN txn[s].user ELSE NoUser) \in Users \cup {NoUser}
      BY DEF Ranges
    <3> QED
      BY <2>5, <3>1, <3>2 DEF WriteSender
  <2>6. CASE WriteChat(s) \/ WriteWatermark(s) \/ DeleteRow(s) \/ Rollback(s)
    <3>1. [txn[s] EXCEPT !.at = "row"] \in Txns /\ [txn[s] EXCEPT !.at = "mins"] \in Txns
      BY DEF Ranges, Txns
    <3> QED
      BY <2>6, <3>1 DEF WriteChat, WriteWatermark, DeleteRow, Rollback, Goto, End
  <2> QED
    BY <1>1, <2>1, <2>2, <2>3, <2>4, <2>5, <2>6 DEF Local
<1>2. ASSUME NEW u \in Users \cup {NoUser}, StartSend(s, u)
      PROVE  \E t \in Txns : txn' = [txn EXCEPT ![s] = t]
  <2>1. minted + 1 \in 0..MaxMessages
    BY <1>2, ReceiptAssumption DEF StartSend, Ranges
  <2>2. [Idle EXCEPT !.op = "send", !.at = "chat", !.user = u, !.id = minted + 1] \in Txns
    BY <2>1 DEF Txns
  <2> QED
    BY <1>2, <2>2 DEF StartSend, Begin
<1>3. CASE CommitSend(s) \/ CommitSystemMessage(s) \/ CommitAdvance(s) \/ CommitLeave(s) \/ CommitJoin(s)
  BY <1>3 DEF CommitSend, CommitSystemMessage, CommitAdvance, CommitLeave, CommitJoin, End
<1> QED
  BY <1>1, <1>2, <1>3 DEF Starts

\* The transaction of s after a commit.
LEMMA CommitEnds ==
    ASSUME Ranges, NEW s \in Sessions,
           CommitSend(s) \/ CommitSystemMessage(s) \/ CommitAdvance(s) \/ CommitLeave(s) \/ CommitJoin(s)
    PROVE  txn'[s] = Idle
BY DEF CommitSend, CommitSystemMessage, CommitAdvance, CommitLeave, CommitJoin, End, Ranges

\* A row that a step adds is that of a send, and the watermarks that a step
\* changes are the committing transaction's.
LEMMA RangesStep ==
    ASSUME CursorInv, [CursorNext]_cursorVars
    PROVE  Ranges'
<1>1. CASE UNCHANGED cursorVars
  BY <1>1 DEF CursorInv, Ranges, cursorVars
<1>2. CASE CursorNext
  <2>1. PICK s \in Sessions : \/ Local(s) \/ Starts(s) \/ CommitSend(s) \/ CommitSystemMessage(s)
                              \/ CommitAdvance(s) \/ CommitLeave(s) \/ CommitJoin(s)
    BY <1>2, StepCases
  <2>2. txn' \in [Sessions -> Txns]
    BY <2>1, TxnStep DEF CursorInv
  <2>3. CASE Local(s)
    <3>1. foretold' \in BOOLEAN
      BY <2>3 DEF CursorInv, Ranges, Local, WriteChat, WriteSender, ReadMins, WriteWatermark,
         DeleteRow, Rollback, StartAdvance, StartLeave, StartJoin, Begin
    <3>2. acksOverlapped' \in BOOLEAN
      BY <2>3, LocalFrame DEF CursorInv, Ranges
    <3>3. QED
      BY <2>2, <2>3, <3>1, <3>2, LocalFrame DEF CursorInv, Ranges
  <2>4. CASE Starts(s)
    BY <2>2, <2>4, ReceiptAssumption DEF Starts, StartSend, Begin, CursorInv, Ranges, rows
  <2>5. \A u \in Users, k \in Kinds : Own(s, u, k) \in 0..MaxMessages
    BY DEF CursorInv, Ranges, Txns, Own
  <2>6. CASE CommitSend(s)
    BY <2>2, <2>5, <2>6 DEF CommitSend, CommitMessage, At, CursorInv, Ranges, TxnsSound, Sound, counts
  <2>7. CASE CommitSystemMessage(s)
    BY <2>2, <2>7 DEF CommitSystemMessage, CommitMessage, At, CursorInv, Ranges, TxnsSound, Sound, counts
  <2>8. CASE CommitAdvance(s)
    BY <2>2, <2>5, <2>8 DEF CommitAdvance, CursorInv, Ranges, counts
  <2>9. CASE CommitLeave(s)
    <3>1. NoMins \in [Kinds -> 0..MaxMessages]
      BY ReceiptAssumption DEF NoMins
    <3> QED
      BY <2>2, <2>9, <3>1 DEF CommitLeave, RemoveMember, CursorInv, Ranges
  <2>10. CASE CommitJoin(s)
    <3>1. txn[s].user \in Users /\ txn[s].id \in 0..MaxMessages
      BY <2>10 DEF CommitJoin, At, CursorInv, Ranges, Txns, TxnsSound, Sound
    <3> QED
      BY <2>2, <2>10, <3>1 DEF CommitJoin, CursorInv, Ranges, counts
  <2> QED
    BY <2>1, <2>3, <2>4, <2>6, <2>7, <2>8, <2>9, <2>10
<1> QED
  BY <1>1, <1>2
-----------------------------------------------------------------------------
\* A row lock is taken only when it is free, and only its holder gives it back.
LEMMA LocksStep ==
    ASSUME CursorInv, [CursorNext]_cursorVars
    PROVE  LocksHold'
<1>1. CASE UNCHANGED cursorVars
  BY <1>1 DEF CursorInv, LocksHold, HoldsRow, cursorVars
<1>2. CASE CursorNext
  <2>1. PICK s \in Sessions : \/ Local(s) \/ Starts(s) \/ CommitSend(s) \/ CommitSystemMessage(s)
                              \/ CommitAdvance(s) \/ CommitLeave(s) \/ CommitJoin(s)
    BY <1>2, StepCases
  <2>2. txn' \in [Sessions -> Txns] /\ \A t \in Sessions \ {s} : txn'[t] = txn[t]
    BY <2>1, TxnStep DEF CursorInv
  <2>3. \A t \in Sessions \ {s}, u \in Users : HoldsRow(t, u)' <=> HoldsRow(t, u)
    BY <2>2 DEF HoldsRow
  <2> SUFFICES ASSUME NEW u \in Users, HoldsRow(s, u)', ~HoldsRow(s, u)
               PROVE  RowFree(s, u)
    BY <2>3 DEF LocksHold, CursorInv, RowFree
  <2>4. CASE CommitSend(s) \/ CommitSystemMessage(s) \/ CommitAdvance(s) \/ CommitLeave(s) \/ CommitJoin(s)
    BY <2>4, CommitEnds, IdleTyped DEF HoldsRow, CursorInv
  <2>5. CASE Starts(s)
    BY <2>5, IdleTyped DEF Starts, StartSend, Begin, HoldsRow, CursorInv, Ranges, Txns
  <2>6. CASE Local(s)
    <3>1. txn \in [Sessions -> Txns] /\ NoUser \notin Users
      BY ReceiptAssumption DEF CursorInv, Ranges
    <3>2. CASE WriteChat(s)
      BY <3>1, <3>2 DEF WriteChat, At, Goto, HoldsRow, Txns
    <3>3. CASE WriteSender(s)
      BY <3>1, <3>3 DEF WriteSender, At, HoldsRow, Txns
    <3>4. CASE ReadMins(s)
      BY <3>1, <3>4 DEF ReadMins, HoldsRow, Txns
    <3>5. CASE WriteWatermark(s)
      <4>1. RowFree(s, txn[s].user) /\ (Goto(s, "mins") \/ End(s))
        BY <3>5 DEF WriteWatermark
      <4>2. CASE Goto(s, "mins")
        BY <3>1, <4>1, <4>2 DEF Goto, HoldsRow, Txns
      <4>3. CASE End(s)
        BY <3>1, <4>3, IdleTyped DEF End, HoldsRow
      <4> QED
        BY <4>1, <4>2, <4>3
    <3>6. CASE DeleteRow(s)
      <4>1. RowFree(s, txn[s].user) /\ (Goto(s, "mins") \/ End(s))
        BY <3>6 DEF DeleteRow
      <4>2. CASE Goto(s, "mins")
        BY <3>1, <4>1, <4>2 DEF Goto, HoldsRow, Txns
      <4>3. CASE End(s)
        BY <3>1, <4>3, IdleTyped DEF End, HoldsRow
      <4> QED
        BY <4>1, <4>2, <4>3
    <3>7. CASE Rollback(s)
      BY <3>1, <3>7, IdleTyped DEF Rollback, End, HoldsRow, Txns
    <3>8. ASSUME NEW v \in Users, NEW k \in Kinds, NEW m \in Ids, StartAdvance(s, v, k, m)
          PROVE  FALSE
      <4>1. txn'[s] = [Idle EXCEPT !.op = "advance", !.at = "row", !.user = v, !.kind = k, !.id = m]
        BY <3>1, <3>8 DEF StartAdvance, Begin
      <4>2. txn'[s].at = "row"
        BY <4>1, IdleTyped DEF Txns
      <4> QED
        BY <4>2 DEF HoldsRow
    <3>9. ASSUME NEW v \in Users, StartLeave(s, v) \/ StartJoin(s, v)
          PROVE  FALSE
      <4>1. \/ txn'[s] = [Idle EXCEPT !.op = "leave", !.at = "row", !.user = v]
            \/ txn'[s] = [Idle EXCEPT !.op = "join", !.at = "write", !.user = v, !.id = lastId]
        BY <3>1, <3>9 DEF StartLeave, StartJoin, Begin
      <4>2. txn'[s].at = "row" \/ txn'[s].op = "join"
        BY <4>1, IdleTyped DEF Txns
      <4> QED
        BY <4>2 DEF HoldsRow
    <3> QED
      BY <2>6, <3>2, <3>3, <3>4, <3>5, <3>6, <3>7, <3>8, <3>9 DEF Local
  <2> QED
    BY <2>1, <2>4, <2>5, <2>6
<1> QED
  BY <1>1, <1>2

\* Rows are only added, and the row added is a send's.
LEMMA RowsAdded ==
    ASSUME CursorInv, NEW s \in Sessions,
           Local(s) \/ Starts(s) \/ CommitSend(s) \/ CommitSystemMessage(s)
           \/ CommitAdvance(s) \/ CommitLeave(s) \/ CommitJoin(s)
    PROVE  /\ committed \subseteq committed'
           /\ committed' # committed => txn[s].op = "send" /\ committed' = committed \cup {txn[s].id}
           /\ minted <= minted'
<1>1. minted \in Nat
  BY DEF CursorInv, Ranges
<1>2. CASE Local(s)
  BY <1>1, <1>2, LocalFrame
<1>3. ASSUME NEW u \in Users \cup {NoUser}, StartSend(s, u)
      PROVE  committed' = committed /\ minted <= minted'
  BY <1>1, <1>3 DEF StartSend, rows
<1>4. CASE CommitSend(s) \/ CommitSystemMessage(s)
  BY <1>1, <1>4 DEF CommitSend, CommitSystemMessage, CommitMessage, At, counts
<1>5. CASE CommitAdvance(s)
  BY <1>1, <1>5 DEF CommitAdvance, counts
<1>6. CASE CommitLeave(s)
  BY <1>1, <1>6 DEF CommitLeave
<1>7. CASE CommitJoin(s)
  BY <1>1, <1>7 DEF CommitJoin, counts
<1> QED
  BY <1>2, <1>3, <1>4, <1>5, <1>6, <1>7 DEF Starts
\* While t holds a member's row, no other session changes it.
LEMMA RowKept ==
    ASSUME CursorInv, NEW s \in Sessions, NEW t \in Sessions, s # t,
           NEW u \in Users, HoldsRow(t, u), u \in members,
           Local(s) \/ Starts(s) \/ CommitSend(s) \/ CommitSystemMessage(s)
           \/ CommitAdvance(s) \/ CommitLeave(s) \/ CommitJoin(s)
    PROVE  u \in members' /\ \A k \in Kinds : watermark'[u][k] = watermark[u][k]
<1>1. ~HoldsRow(s, u)
  BY DEF CursorInv, LocksHold
<1>2. CASE Local(s)
  BY <1>2, LocalFrame
<1>3. CASE Starts(s)
  BY <1>3 DEF Starts, StartSend, rows
<1>4. CASE CommitSend(s) \/ CommitAdvance(s)
  <2>1. txn[s].user # u /\ members' = members
    BY <1>1, <1>4 DEF CommitSend, CommitMessage, CommitAdvance, At, HoldsRow
  <2>2. \A k \in Kinds : Own(s, u, k) = watermark[u][k]
    BY <2>1 DEF Own
  <2> QED
    BY <1>4, <2>1, <2>2 DEF CommitSend, CommitAdvance
<1>5. CASE CommitSystemMessage(s)
  BY <1>5 DEF CommitSystemMessage, CommitMessage
<1>6. CASE CommitLeave(s)
  <2>1. txn[s].user # u
    BY <1>1, <1>6 DEF CommitLeave, At, HoldsRow
  <2> QED
    BY <1>6, <2>1 DEF CommitLeave, RemoveMember, CursorInv, Ranges
<1>7. CASE CommitJoin(s)
  BY <1>7 DEF CommitJoin, CursorInv, Ranges
<1> QED
  BY <1>2, <1>3, <1>4, <1>5, <1>6, <1>7

\* What a session's own step makes of its transaction.
LEMMA OwnStep ==
    ASSUME CursorInv, NEW s \in Sessions,
           Local(s) \/ Starts(s) \/ CommitSend(s) \/ CommitSystemMessage(s)
           \/ CommitAdvance(s) \/ CommitLeave(s) \/ CommitJoin(s)
    PROVE  \/ txn'[s] = Idle
           \/ /\ txn'[s].op = "send" /\ txn'[s].id = minted' /\ minted' = minted + 1
              /\ txn'[s].mins = NoMins /\ Starts(s)
           \/ /\ txn'[s].op \in {"advance", "leave", "join"} /\ txn'[s].user \in Users
              /\ txn'[s].op # "advance" => txn'[s].id \in committed \cup {0}
              /\ txn'[s].mins = NoMins
              /\ txn'[s].op = "advance" => txn'[s].at = "row" /\ (foretold' \/ txn'[s].id \in committed)
              /\ Local(s)
           \/ /\ txn'[s].op = txn[s].op /\ txn'[s].id = txn[s].id /\ txn'[s].kind = txn[s].kind
              /\ txn'[s].user = txn[s].user \/ txn[s].op = "send"
              /\ txn'[s].mins = txn[s].mins \/ ReadMins(s)
              /\ txn'[s].at \in {"mins", "write"} =>
                     txn[s].at \in {"mins", "write"} \/ WriteWatermark(s) \/ txn[s].op # "advance"
              /\ Local(s)
<1> USE IdleTyped
<1>1. txn \in [Sessions -> Txns] /\ lastId \in committed \cup {0} /\ minted \in Nat
  BY DEF CursorInv, Ranges, Related
<1>2. ASSUME NEW u \in Users, NEW k \in Kinds, NEW m \in Ids, StartAdvance(s, u, k, m)
      PROVE  /\ txn'[s].op = "advance" /\ txn'[s].user \in Users /\ txn'[s].at = "row"
             /\ foretold' \/ txn'[s].id \in committed
             /\ txn'[s].mins = NoMins
  <2>1. txn'[s] = [Idle EXCEPT !.op = "advance", !.at = "row", !.user = u, !.kind = k, !.id = m]
    BY <1>1, <1>2 DEF StartAdvance, Begin
  <2>2. txn'[s].op = "advance" /\ txn'[s].id = m
    BY <2>1 DEF Txns
  <2>3. foretold' \/ m \in committed
    <3>1. [Idle EXCEPT !.op = "advance", !.at = "row", !.user = u, !.kind = k, !.id = m].op = "advance"
          /\ [Idle EXCEPT !.op = "advance", !.at = "row", !.user = u, !.kind = k, !.id = m].id = m
      BY DEF Txns
    <3> QED
      BY <1>2, <3>1 DEF StartAdvance, Begin
  <2> QED
    BY <1>2, <2>1, <2>2, <2>3 DEF StartAdvance, Txns
<1>3. ASSUME NEW u \in Users, StartLeave(s, u)
      PROVE  txn'[s].op = "leave" /\ txn'[s].user \in Users /\ txn'[s].id = 0 /\ txn'[s].mins = NoMins
  <2>1. txn'[s] = [Idle EXCEPT !.op = "leave", !.at = "row", !.user = u]
    BY <1>1, <1>3 DEF StartLeave, Begin
  <2>2. Idle.id = 0
    BY DEF Idle
  <2> QED
    BY <2>1, <2>2 DEF Txns
<1>4. ASSUME NEW u \in Users, StartJoin(s, u)
      PROVE  /\ txn'[s].op = "join" /\ txn'[s].user \in Users
             /\ txn'[s].id \in committed \cup {0} /\ txn'[s].mins = NoMins
  <2>1. txn'[s] = [Idle EXCEPT !.op = "join", !.at = "write", !.user = u, !.id = lastId]
    BY <1>1, <1>4 DEF StartJoin, Begin
  <2> QED
    BY <1>1, <2>1 DEF Txns
<1>5. ASSUME NEW u \in Users \cup {NoUser}, StartSend(s, u)
      PROVE  /\ txn'[s].op = "send" /\ txn'[s].id = minted' /\ minted' = minted + 1
             /\ txn'[s].mins = NoMins
  <2>1. txn'[s] = [Idle EXCEPT !.op = "send", !.at = "chat", !.user = u, !.id = minted + 1] /\ minted' = minted + 1
    BY <1>1, <1>5 DEF StartSend, Begin
  <2> QED
    BY <2>1 DEF Txns
<1>6. CASE ReadMins(s)
  <2>1. txn'[s] = [txn[s] EXCEPT !.at = "write", !.mins = [k \in Kinds |-> LeastSeen(s, k)]] /\ txn[s].at = "mins"
    BY <1>1, <1>6 DEF ReadMins
  <2> QED
    BY <1>1, <1>6, <2>1 DEF Txns, Local
<1>7. CASE WriteSender(s)
  <2>1. txn'[s] = [txn[s] EXCEPT !.at = "mins", !.user = IF @ \in members THEN @ ELSE NoUser] /\ txn[s].op = "send"
    BY <1>1, <1>7 DEF WriteSender, At
  <2> QED
    BY <1>1, <1>7, <2>1 DEF Txns, Local
<1>8. CASE WriteChat(s)
  <2>1. txn'[s] = [txn[s] EXCEPT !.at = "row"]
    BY <1>1, <1>8 DEF WriteChat, Goto
  <2> QED
    BY <1>1, <1>8, <2>1 DEF Txns, Local
<1>9. CASE WriteWatermark(s) \/ DeleteRow(s)
  <2>1. \/ txn'[s] = Idle
        \/ /\ txn'[s] = [txn[s] EXCEPT !.at = "mins"]
           /\ WriteWatermark(s) \/ txn[s].op # "advance"
    BY <1>1, <1>9 DEF WriteWatermark, DeleteRow, At, Goto, End
  <2> QED
    BY <1>1, <1>9, <2>1 DEF Txns, Local
<1>10. CASE Rollback(s)
  BY <1>1, <1>10 DEF Rollback, End
<1>11. CASE CommitSend(s) \/ CommitSystemMessage(s) \/ CommitAdvance(s) \/ CommitLeave(s) \/ CommitJoin(s)
  BY <1>11, CommitEnds DEF CursorInv
<1>12. CASE Local(s)
  BY <1>2, <1>3, <1>4, <1>6, <1>7, <1>8, <1>9, <1>10, <1>12 DEF Local
<1>13. CASE Starts(s)
  BY <1>5, <1>13 DEF Starts
<1> QED
  BY <1>11, <1>12, <1>13
\* Transactions stay sound, and sends keep ids of their own.
LEMMA TxnsStep ==
    ASSUME CursorInv, [CursorNext]_cursorVars
    PROVE  TxnsSound' /\ SendsDiffer'
<1>1. CASE UNCHANGED cursorVars
  BY <1>1 DEF CursorInv, TxnsSound, Sound, SendsDiffer, cursorVars
<1>2. CASE CursorNext
  <2>1. PICK s \in Sessions : \/ Local(s) \/ Starts(s) \/ CommitSend(s) \/ CommitSystemMessage(s)
                              \/ CommitAdvance(s) \/ CommitLeave(s) \/ CommitJoin(s)
    BY <1>2, StepCases
  <2>2. txn' \in [Sessions -> Txns] /\ \A t \in Sessions \ {s} : txn'[t] = txn[t]
    BY <2>1, TxnStep DEF CursorInv
  <2>3. /\ committed \subseteq committed'
        /\ committed' # committed => txn[s].op = "send" /\ committed' = committed \cup {txn[s].id}
        /\ minted <= minted' /\ minted \in Nat /\ minted' \in Nat /\ committed \subseteq 1..minted
        /\ foretold => foretold'
    BY <2>1, RowsAdded, RangesStep, ForetoldStep DEF CursorInv, Ranges
  <2>4. ASSUME NEW t \in Sessions, t # s
        PROVE  Sound(t)'
    <3>1. Sound(t) /\ txn'[t] = txn[t]
      BY <2>2, <2>4 DEF CursorInv, TxnsSound
    <3>2. txn[t].op = "send" => txn[t].id \in 1..minted' /\ txn[t].id \notin committed'
      BY <2>3, <2>4, <3>1 DEF Sound, CursorInv, SendsDiffer
    <3>3. CASE txn[t].op = "advance" /\ txn[t].at \in {"mins", "write"}
      <4>1. txn[t].user \in Users /\ txn[t].kind \in Kinds
        BY <3>1, <3>3 DEF Sound, CursorInv, Ranges, Txns
      <4>2. HoldsRow(t, txn[t].user) /\ txn[t].user \in members
        BY <3>1, <3>3 DEF HoldsRow, Sound
      <4>3. txn[t].user \in members' /\ watermark'[txn[t].user][txn[t].kind] = watermark[txn[t].user][txn[t].kind]
        BY <2>1, <2>4, <4>1, <4>2, RowKept
      <4> QED
        BY <2>3, <3>1, <3>2, <3>3, <4>3 DEF Sound
    <3> QED
      BY <2>3, <3>1, <3>2, <3>3 DEF Sound
  <2>5. Sound(s)'
    <3>1. CASE txn'[s] = Idle
      BY <3>1, IdleTyped DEF Sound
    <3>2. CASE txn'[s].op = "send" /\ txn'[s].id = minted' /\ minted' = minted + 1 /\ Starts(s)
      <4>1. committed' = committed
        BY <3>2 DEF Starts, StartSend, rows
      <4> QED
        BY <2>3, <3>2, <4>1 DEF Sound
    <3>3. CASE /\ txn'[s].op \in {"advance", "leave", "join"} /\ txn'[s].user \in Users
               /\ txn'[s].op # "advance" => txn'[s].id \in committed \cup {0}
               /\ txn'[s].op = "advance" => txn'[s].at = "row" /\ (foretold' \/ txn'[s].id \in committed)
      BY <2>3, <3>3 DEF Sound
    <3>4. CASE /\ txn'[s].op = txn[s].op /\ txn'[s].id = txn[s].id /\ txn'[s].kind = txn[s].kind
               /\ txn'[s].user = txn[s].user \/ txn[s].op = "send"
               /\ txn'[s].at \in {"mins", "write"} =>
                      txn[s].at \in {"mins", "write"} \/ WriteWatermark(s) \/ txn[s].op # "advance"
               /\ Local(s)
      <4>1. UNCHANGED <<members, watermark, minted, committed>> /\ Sound(s) /\ (foretold => foretold')
        BY <3>4, LocalFrame, ForetoldStep DEF CursorInv, TxnsSound
      <4>2. CASE txn[s].op = "advance" /\ WriteWatermark(s) /\ txn'[s].at \in {"mins", "write"}
        <5>1. Moves(s)
          <6>1. CASE ~Moves(s)
            <7>1. txn'[s] = Idle
              BY <4>2, <6>1 DEF WriteWatermark, End, CursorInv, Ranges
            <7> QED
              BY <4>2, <7>1, IdleTyped
          <6> QED
            BY <6>1
        <5> QED
          BY <3>4, <4>1, <4>2, <5>1 DEF Moves, Sound
      <4> QED
        BY <3>4, <4>1, <4>2 DEF Sound
    <3> QED
      BY <2>1, <3>1, <3>2, <3>3, <3>4, OwnStep
  <2>6. TxnsSound'
    BY <2>4, <2>5 DEF TxnsSound
  <2>7. ASSUME NEW t \in Sessions, t # s, txn'[t].op = "send", txn'[s].op = "send"
        PROVE  txn'[t].id # txn'[s].id
    <3>1. txn[t].op = "send" /\ txn'[t].id = txn[t].id /\ txn[t].id \in 1..minted
      BY <2>2, <2>7 DEF CursorInv, TxnsSound, Sound
    <3>2. CASE txn'[s].id = minted' /\ minted' = minted + 1
      BY <2>3, <3>1, <3>2
    <3>3. CASE txn'[s].op = txn[s].op /\ txn'[s].id = txn[s].id
      BY <2>7, <3>1, <3>3 DEF CursorInv, SendsDiffer
    <3> QED
      BY <2>1, <2>7, <3>2, <3>3, OwnStep, IdleTyped
  <2>8. SendsDiffer'
    BY <2>2, <2>7 DEF SendsDiffer, CursorInv
  <2> QED
    BY <2>6, <2>8
<1> QED
  BY <1>1, <1>2

\* Watermarks and minima name committed rows.
LEMMA NamesStep ==
    ASSUME CursorInv, [CursorNext]_cursorVars
    PROVE  MarksNamed' /\ MinsNamed'
<1>1. CASE UNCHANGED cursorVars
  BY <1>1 DEF CursorInv, MarksNamed, MinsNamed, cursorVars
<1>2. CASE CursorNext /\ ~foretold'
  <2>1. PICK s \in Sessions : \/ Local(s) \/ Starts(s) \/ CommitSend(s) \/ CommitSystemMessage(s)
                              \/ CommitAdvance(s) \/ CommitLeave(s) \/ CommitJoin(s)
    BY <1>2, StepCases
  <2>0. ~foretold
    BY <1>2, <2>1, ForetoldStep
  <2>2. txn' \in [Sessions -> Txns] /\ \A t \in Sessions \ {s} : txn'[t] = txn[t]
    BY <2>1, TxnStep DEF CursorInv
  <2>3. /\ committed \subseteq committed'
        /\ committed' # committed => txn[s].op = "send" /\ committed' = committed \cup {txn[s].id}
    BY <2>1, RowsAdded
  <2>4. Sound(s) /\ \A u \in Users, k \in Kinds : watermark[u][k] \in committed \cup {0}
    BY <2>0 DEF CursorInv, TxnsSound, MarksNamed
  <2>5. \A u \in Users, k \in Kinds :
           Own(s, u, k) \in committed \cup {0} \/ (txn[s].op = "send" /\ Own(s, u, k) = txn[s].id)
    BY <2>0, <2>4 DEF Own, Sound
  <2>6. MarksNamed'
    <3>1. CASE Local(s)
      BY <2>3, <2>4, <3>1, LocalFrame DEF MarksNamed
    <3>2. CASE Starts(s) \/ CommitSystemMessage(s)
      BY <2>3, <2>4, <3>2 DEF MarksNamed, Starts, StartSend, CommitSystemMessage, rows
    <3>3. CASE CommitSend(s)
      BY <2>5, <3>3 DEF MarksNamed, CommitSend, CommitMessage, At
    <3>4. CASE CommitAdvance(s)
      BY <2>3, <2>5, <3>4 DEF MarksNamed, CommitAdvance, At
    <3>5. CASE CommitLeave(s)
      BY <2>3, <2>4, <3>5 DEF MarksNamed, CommitLeave, RemoveMember, NoMins, CursorInv, Ranges
    <3>6. CASE CommitJoin(s)
      BY <2>3, <2>4, <3>6 DEF MarksNamed, CommitJoin, At, Sound, CursorInv, Ranges
    <3> QED
      BY <2>1, <3>1, <3>2, <3>3, <3>4, <3>5, <3>6
  <2>7. ASSUME NEW t \in Sessions \ {s}, NEW k \in Kinds
        PROVE  txn'[t].mins[k] \in committed' \cup {0} \/ (txn'[t].op = "send" /\ txn'[t].mins[k] = txn'[t].id)
    BY <2>0, <2>2, <2>3 DEF CursorInv, MinsNamed
  <2>8. ASSUME NEW k \in Kinds
        PROVE  txn'[s].mins[k] \in committed' \cup {0} \/ (txn'[s].op = "send" /\ txn'[s].mins[k] = txn'[s].id)
    <3>1. CASE txn'[s].mins = NoMins
      BY <3>1 DEF NoMins
    <3>2. CASE txn'[s].op = txn[s].op /\ txn'[s].id = txn[s].id /\ txn'[s].mins = txn[s].mins
      BY <2>0, <2>3, <3>2 DEF CursorInv, MinsNamed
    <3>3. CASE txn'[s].op = txn[s].op /\ txn'[s].id = txn[s].id /\ ReadMins(s)
      <4>1. txn'[s].mins = [j \in Kinds |-> LeastSeen(s, j)]
        BY <3>3 DEF ReadMins, CursorInv, Ranges, Txns
      <4>2. LeastSeen(s, k) = 0 \/ \E u \in Users : LeastSeen(s, k) = Own(s, u, k)
        BY LeastSeenIsSeen DEF CursorInv
      <4> QED
        BY <2>3, <2>5, <3>3, <4>1, <4>2
    <3> QED
      BY <2>1, <3>1, <3>2, <3>3, OwnStep, IdleTyped
  <2> QED
    BY <2>6, <2>7, <2>8 DEF MinsNamed
<1>3. CASE foretold'
  BY <1>3 DEF MarksNamed, MinsNamed
<1> QED
  BY <1>1, <1>2, <1>3

LEMMA RelatedStep ==
    ASSUME CursorInv, [CursorNext]_cursorVars
    PROVE  Related'
<1>1. CASE UNCHANGED cursorVars
  BY <1>1 DEF CursorInv, Related, cursorVars
<1>2. CASE CursorNext
  <2>1. PICK s \in Sessions : \/ Local(s) \/ Starts(s) \/ CommitSend(s) \/ CommitSystemMessage(s)
                              \/ CommitAdvance(s) \/ CommitLeave(s) \/ CommitJoin(s)
    BY <1>2, StepCases
  <2>2. txn[s].mins \in [Kinds -> 0..MaxMessages]
    BY DEF CursorInv, Ranges, Txns
  <2>3. /\ foretold => foretold'
        /\ ~foretold' => \A k \in Kinds : \/ txn[s].mins[k] \in committed \cup {0}
                                          \/ txn[s].op = "send" /\ txn[s].mins[k] = txn[s].id
    BY <2>1, ForetoldStep DEF CursorInv, MinsNamed
  <2>4. CASE Local(s)
    BY <2>3, <2>4, LocalFrame DEF CursorInv, Related
  <2>5. CASE Starts(s)
    BY <2>3, <2>5 DEF Starts, StartSend, rows, CursorInv, Related
  <2>6. CASE CommitSend(s)
    BY <2>2, <2>3, <2>6 DEF CommitSend, CommitMessage, At, counts, CursorInv, Related
  <2>7. CASE CommitSystemMessage(s)
    BY <2>3, <2>7 DEF CommitSystemMessage, CommitMessage, counts, CursorInv, Related
  <2>8. CASE CommitAdvance(s)
    BY <2>2, <2>3, <2>8 DEF CommitAdvance, At, counts, CursorInv, Related
  <2>9. CASE CommitLeave(s)
    BY <2>2, <2>3, <2>9 DEF CommitLeave, RemoveMember, At, CursorInv, Related
  <2>10. CASE CommitJoin(s)
    BY <2>3, <2>10 DEF CommitJoin, counts, CursorInv, Related
  <2> QED
    BY <2>1, <2>4, <2>5, <2>6, <2>7, <2>8, <2>9, <2>10
<1> QED
  BY <1>1, <1>2

LEMMA CursorInvInit == CursorInit => CursorInv
<1> SUFFICES ASSUME CursorInit PROVE CursorInv
  OBVIOUS
<1>1. \A s \in Sessions : txn[s] = Idle
  BY DEF CursorInit
<1>2. Ranges
  <2>1. NoMins \in [Kinds -> 0..MaxMessages]
    BY ReceiptAssumption DEF NoMins
  <2>2. txn \in [Sessions -> Txns]
    BY IdleTyped DEF CursorInit
  <2>3. watermark \in [Users -> [Kinds -> 0..MaxMessages]]
    BY <2>1 DEF CursorInit
  <2>4. minted \in 0..MaxMessages /\ committed \in SUBSET (1..minted)
    BY ReceiptAssumption DEF CursorInit
  <2> QED
    BY <2>2, <2>3, <2>4, ReceiptAssumption DEF CursorInit, Ranges
<1>3. Related
  BY ReceiptAssumption DEF CursorInit, Related, NoMins
<1>4. LocksHold /\ TxnsSound /\ SendsDiffer
  BY <1>1, IdleTyped DEF LocksHold, HoldsRow, TxnsSound, Sound, SendsDiffer
<1>5. MarksNamed /\ MinsNamed
  BY <1>1, IdleTyped DEF CursorInit, MarksNamed, MinsNamed, NoMins
<1> QED
  BY <1>2, <1>3, <1>4, <1>5 DEF CursorInv

LEMMA CursorInvStep == CursorInv /\ [CursorNext]_cursorVars => CursorInv'
BY RangesStep, RelatedStep, LocksStep, TxnsStep, NamesStep DEF CursorInv

\* The model of the receipt state is well typed: cursors and the chat's last
\* message name committed rows, and nobody is in an audience who has left.
THEOREM CursorTypeCorrect == CursorSpec => []CursorTypeOK
<1>1. CursorInv => CursorTypeOK
  BY DEF CursorInv, Ranges, Related, Txns, CursorTypeOK
<1> QED
  BY <1>1, CursorInvInit, CursorInvStep, PTL DEF CursorSpec
-----------------------------------------------------------------------------
(***************************************************************************)
(* Watermarks go forward.  Only two commits change a member's watermark: a *)
(* send sets its sender's, whatever it was, and an acknowledgement that    *)
(* found a smaller one keeps the row until it commits.                     *)
(***************************************************************************)
Forward ==
    \A u \in members \cap members', k \in Kinds :
        \/ watermark'[u][k] >= watermark[u][k]
        \/ watermark[u][k] \notin committed
        \/ \E m \in committed' \ committed, n \in committed : m < n

LEMMA ForwardStep ==
    ASSUME CursorInv, [CursorNext]_cursorVars
    PROVE  Forward
<1>1. \A u \in Users, k \in Kinds : watermark[u][k] \in Nat
  BY ReceiptAssumption DEF CursorInv, Ranges
<1>2. members \subseteq Users
  BY DEF CursorInv, Ranges
<1>3. CASE UNCHANGED cursorVars
  BY <1>1, <1>2, <1>3 DEF Forward, cursorVars
<1>4. CASE CursorNext
  <2>1. PICK s \in Sessions : \/ Local(s) \/ Starts(s) \/ CommitSend(s) \/ CommitSystemMessage(s)
                              \/ CommitAdvance(s) \/ CommitLeave(s) \/ CommitJoin(s)
    BY <1>4, StepCases
  <2>2. CASE Local(s) \/ Starts(s) \/ CommitSystemMessage(s)
    <3>1. watermark' = watermark
      BY <2>2, LocalFrame DEF Starts, StartSend, CommitSystemMessage, rows
    <3> QED
      BY <1>1, <1>2, <3>1 DEF Forward
  <2>3. CASE CommitSend(s)
    <3>1. /\ txn[s].op = "send" /\ txn[s].id \in Nat /\ txn[s].id \notin committed
          /\ committed' = committed \cup {txn[s].id}
          /\ \A u \in Users, k \in Kinds : watermark'[u][k] = Own(s, u, k)
      BY <2>3 DEF CommitSend, CommitMessage, At, CursorInv, TxnsSound, Sound
    <3>2. SUFFICES ASSUME NEW u \in Users, NEW k \in Kinds, ~(watermark'[u][k] >= watermark[u][k]),
                          watermark[u][k] \in committed
                   PROVE  \E m \in committed' \ committed, n \in committed : m < n
      BY <1>2 DEF Forward
    <3>3. Own(s, u, k) = txn[s].id
      BY <1>1, <3>1, <3>2 DEF Own
    <3>4. txn[s].id < watermark[u][k]
      BY <1>1, <3>1, <3>2, <3>3
    <3> QED
      BY <3>1, <3>2, <3>4
  <2>4. CASE CommitAdvance(s)
    <3>1. \A u \in Users, k \in Kinds : watermark'[u][k] = Own(s, u, k)
      BY <2>4 DEF CommitAdvance
    <3>2. /\ txn[s].op = "advance" /\ txn[s].id \in Nat
          /\ watermark[txn[s].user][txn[s].kind] < txn[s].id
      BY <2>4 DEF CommitAdvance, At, CursorInv, TxnsSound, Sound, Ranges, Txns
    <3>3. \A u \in Users, k \in Kinds : Own(s, u, k) >= watermark[u][k]
      BY <1>1, <3>2 DEF Own
    <3> QED
      BY <1>2, <3>1, <3>3 DEF Forward
  <2>5. CASE CommitLeave(s)
    BY <1>1, <1>2, <2>5 DEF CommitLeave, RemoveMember, Forward, CursorInv, Ranges
  <2>6. CASE CommitJoin(s)
    BY <1>1, <1>2, <2>6 DEF CommitJoin, Forward, CursorInv, Ranges
  <2> QED
    BY <2>1, <2>2, <2>3, <2>4, <2>5, <2>6
<1> QED
  BY <1>3, <1>4

\* No interleaving of receipts, sends, joins and departures takes a watermark
\* back, but a message that commits after one with a larger id, and one whose
\* sender had acknowledged an id that has no row.
THEOREM WatermarkForwardHolds == CursorSpec => WatermarkForward
<1>1. CursorInv /\ [CursorNext]_cursorVars => [Forward]_cursorVars
  BY ForwardStep
<1> QED
  BY <1>1, CursorInvInit, CursorInvStep, PTL DEF CursorSpec, WatermarkForward, Forward

-----------------------------------------------------------------------------
(***************************************************************************)
(* No premature tick.  A minimum is worth what it was when it was read: at *)
(* least everybody who is still in the audience had the message then, and  *)
(* watermarks go forward while rows commit in the order of their ids.      *)
(***************************************************************************)
Ticked ==
    \A k \in Kinds, m \in 1..minted :
        m <= cursor[k] => \A u \in audience[m] : watermark[u][k] >= m

Reached(s) ==
    txn[s].at = "write" /\ txn[s].op # "join" =>
        \A k \in Kinds, m \in 1..minted :
            m <= txn[s].mins[k] =>
                \A u \in audience[m] : (txn[s].op = "leave" /\ u = txn[s].user) \/ Own(s, u, k) >= m

TickInv == ~disordered /\ ~foretold => Ticked /\ \A s \in Sessions : Reached(s)

LEMMA WriteFollowsRead ==
    ASSUME CursorInv, NEW s \in Sessions, Local(s) \/ Starts(s), txn'[s].at = "write", txn'[s].op # "join"
    PROVE  ReadMins(s)
<1> USE IdleTyped
<1>1. txn \in [Sessions -> Txns]
  BY DEF CursorInv, Ranges
<1>2. ASSUME NEW u \in Users, NEW k \in Kinds, NEW m \in Ids, StartAdvance(s, u, k, m)
      PROVE  FALSE
  <2>1. txn'[s] = [Idle EXCEPT !.op = "advance", !.at = "row", !.user = u, !.kind = k, !.id = m]
    BY <1>1, <1>2 DEF StartAdvance, Begin
  <2> QED
    BY <2>1 DEF Txns
<1>3. ASSUME NEW u \in Users, StartLeave(s, u)
      PROVE  FALSE
  <2>1. txn'[s] = [Idle EXCEPT !.op = "leave", !.at = "row", !.user = u]
    BY <1>1, <1>3 DEF StartLeave, Begin
  <2> QED
    BY <2>1 DEF Txns
<1>4. ASSUME NEW u \in Users, StartJoin(s, u)
      PROVE  FALSE
  <2>1. txn'[s] = [Idle EXCEPT !.op = "join", !.at = "write", !.user = u, !.id = lastId]
    BY <1>1, <1>4 DEF StartJoin, Begin
  <2> QED
    BY <2>1 DEF Txns
<1>5. ASSUME NEW u \in Users \cup {NoUser}, StartSend(s, u)
      PROVE  FALSE
  <2>1. txn'[s] = [Idle EXCEPT !.op = "send", !.at = "chat", !.user = u, !.id = minted + 1]
    BY <1>1, <1>5 DEF StartSend, Begin
  <2> QED
    BY <2>1 DEF Txns
<1>6. ~WriteChat(s)
  BY <1>1 DEF WriteChat, Goto, Txns
<1>7. ~WriteSender(s)
  <2>1. SUFFICES ASSUME WriteSender(s) PROVE FALSE
    OBVIOUS
  <2>2. txn'[s] = [txn[s] EXCEPT !.at = "mins", !.user = IF @ \in members THEN @ ELSE NoUser]
    BY <1>1, <2>1 DEF WriteSender
  <2> QED
    BY <1>1, <2>2 DEF Txns
<1>8. ~WriteWatermark(s) /\ ~DeleteRow(s)
  <2>1. SUFFICES ASSUME WriteWatermark(s) \/ DeleteRow(s) PROVE FALSE
    OBVIOUS
  <2>2. txn'[s] = Idle \/ txn'[s] = [txn[s] EXCEPT !.at = "mins"]
    BY <1>1, <2>1 DEF WriteWatermark, DeleteRow, Goto, End
  <2> QED
    BY <1>1, <2>2 DEF Txns
<1>9. ~Rollback(s)
  BY <1>1 DEF Rollback, End
<1> QED
  BY <1>2, <1>3, <1>4, <1>5, <1>6, <1>7, <1>8, <1>9 DEF Local, Starts
LEMMA Ordered ==
    ASSUME CursorInv, [CursorNext]_cursorVars, ~disordered'
    PROVE  /\ ~disordered
           /\ ~\E m \in committed' \ committed, n \in committed : m < n
<1>1. CASE UNCHANGED cursorVars
  BY <1>1 DEF cursorVars
<1>2. CASE CursorNext
  <2>1. PICK s \in Sessions : \/ Local(s) \/ Starts(s) \/ CommitSend(s) \/ CommitSystemMessage(s)
                              \/ CommitAdvance(s) \/ CommitLeave(s) \/ CommitJoin(s)
    BY <1>2, StepCases
  <2>2. CASE Local(s)
    BY <2>2, LocalFrame
  <2>3. CASE CommitSend(s) \/ CommitSystemMessage(s)
    <3>1. /\ committed' = committed \cup {txn[s].id}
          /\ disordered' = (disordered \/ \E m \in committed : m > txn[s].id)
      BY <2>3 DEF CommitSend, CommitSystemMessage, CommitMessage
    <3>2. ~disordered /\ ~\E m \in committed : m > txn[s].id
      BY <3>1
    <3> QED
      BY <3>1, <3>2
  <2>4. CASE Starts(s) \/ CommitAdvance(s) \/ CommitLeave(s) \/ CommitJoin(s)
    <3>1. committed' = committed /\ disordered' = disordered
      BY <2>4 DEF Starts, StartSend, CommitAdvance, CommitLeave, CommitJoin, rows
    <3> QED
      BY <3>1
  <2> QED
    BY <2>1, <2>2, <2>3, <2>4
<1> QED
  BY <1>1, <1>2

\* Messages that were minted lose audience only.
LEMMA AudienceShrinks ==
    ASSUME CursorInv, [CursorNext]_cursorVars, NEW m \in 1..minted
    PROVE  m \in Ids /\ m \in 1..minted' /\ audience'[m] \subseteq audience[m] /\ audience[m] \subseteq members
<1>1. m \in Ids /\ minted \in Nat /\ audience \in [Ids -> SUBSET members]
  BY ReceiptAssumption DEF CursorInv, Ranges, Related, Ids
<1>2. CASE UNCHANGED cursorVars
  BY <1>1, <1>2 DEF cursorVars
<1>3. CASE CursorNext
  <2>1. PICK s \in Sessions : \/ Local(s) \/ Starts(s) \/ CommitSend(s) \/ CommitSystemMessage(s)
                              \/ CommitAdvance(s) \/ CommitLeave(s) \/ CommitJoin(s)
    BY <1>3, StepCases
  <2>2. CASE Local(s)
    BY <1>1, <2>2, LocalFrame
  <2>3. CASE Starts(s)
    BY <1>1, <2>3 DEF Starts, StartSend
  <2>4. CASE CommitSend(s) \/ CommitSystemMessage(s) \/ CommitAdvance(s) \/ CommitJoin(s)
    <3>1. audience' = audience /\ minted' = minted
      BY <2>4 DEF CommitSend, CommitSystemMessage, CommitAdvance, CommitJoin, counts
    <3> QED
      BY <1>1, <3>1
  <2>5. CASE CommitLeave(s)
    BY <1>1, <2>5 DEF CommitLeave, RemoveMember
  <2> QED
    BY <2>1, <2>2, <2>3, <2>4, <2>5
<1> QED
  BY <1>2, <1>3

LEMMA NamedRange ==
    ASSUME NEW n \in Nat, NEW S, S \subseteq 1..n
    PROVE  \A x \in (S \cup {0}) \cup (1..n) : x \in 0..n
OBVIOUS

LEMMA ReachedStep ==
    ASSUME CursorInv, CursorInv', TickInv, ~disordered', ~foretold', NEW t \in Sessions, NEW s \in Sessions,
           CursorNext,
           Local(s) \/ Starts(s) \/ CommitSend(s) \/ CommitSystemMessage(s)
           \/ CommitAdvance(s) \/ CommitLeave(s) \/ CommitJoin(s)
    PROVE  Reached(t)'
<1> SUFFICES ASSUME txn'[t].at = "write", txn'[t].op # "join",
                    NEW k \in Kinds, NEW m \in 1..minted', m <= txn'[t].mins[k],
                    NEW u \in audience'[m], ~(txn'[t].op = "leave" /\ u = txn'[t].user)
             PROVE  Own(t, u, k)' >= m
  BY DEF Reached
<1>1. ~disordered /\ ~foretold /\ Reached(t)
  BY Ordered, ForetoldStep DEF TickInv
<1>2. txn' \in [Sessions -> Txns] /\ txn \in [Sessions -> Txns] /\ \A r \in Sessions \ {s} : txn'[r] = txn[r]
  BY TxnStep DEF CursorInv, Ranges
<1>3. \A v \in Users, j \in Kinds : watermark[v][j] \in Nat /\ watermark'[v][j] \in Nat
  BY ReceiptAssumption DEF CursorInv, Ranges
<1>4. CASE t # s
  <2>1. txn'[t] = txn[t]
    BY <1>2, <1>4
  <2>2. m \in 1..minted
    <3>1. minted \in Nat /\ minted' \in Nat /\ committed \subseteq 1..minted
      BY DEF CursorInv, Ranges
    <3>2. txn[t].mins[k] \in committed \cup {0} \/ txn[t].mins[k] \in 1..minted
      BY <1>1 DEF CursorInv, MinsNamed, TxnsSound, Sound
    <3>3. txn[t].mins[k] \in 0..minted
      <4>1. \A x \in (committed \cup {0}) \cup (1..minted) : x \in 0..minted
        BY <3>1, NamedRange
      <4> QED
        BY <3>2, <4>1
    <3>4. m \in Nat /\ 1 <= m /\ m <= txn[t].mins[k]
      BY <2>1, <3>1
    <3> QED
      BY <3>1, <3>3, <3>4
  <2>3. u \in audience[m] /\ u \in members /\ u \in Users
    BY <2>2, AudienceShrinks DEF CursorInv, Ranges
  <2>4. u \in members'
    BY <2>2, AudienceShrinks DEF CursorInv, Related, Ranges
  <2>5. Own(t, u, k) >= m
    BY <1>1, <2>1, <2>2, <2>3 DEF Reached
  <2>6. watermark'[u][k] >= watermark[u][k]
    <3>1. watermark[u][k] \in committed \cup {0}
      BY <1>1, <2>3 DEF CursorInv, MarksNamed
    <3>2. CASE watermark[u][k] = 0
      BY <1>3, <2>3, <3>2
    <3>3. CASE watermark[u][k] \in committed
      BY <2>3, <2>4, <3>3, ForwardStep, Ordered DEF Forward
    <3> QED
      BY <3>1, <3>2, <3>3
  <2> QED
    BY <1>3, <2>1, <2>2, <2>3, <2>5, <2>6 DEF Own
<1>5. CASE t = s
  <2>1. ReadMins(s)
    BY <1>5, WriteFollowsRead, CommitEnds, IdleTyped DEF CursorInv
  <2>2. /\ txn'[s] = [txn[s] EXCEPT !.at = "write", !.mins = [j \in Kinds |-> LeastSeen(s, j)]]
        /\ UNCHANGED <<members, watermark, minted, audience>>
    BY <1>2, <2>1 DEF ReadMins, rows, counts
  <2>3. /\ txn'[s].op = txn[s].op /\ txn'[s].user = txn[s].user /\ txn'[s].id = txn[s].id
        /\ txn'[s].kind = txn[s].kind /\ txn'[s].mins[k] = LeastSeen(s, k)
    BY <1>2, <2>2 DEF Txns
  <2>4. u \in members /\ u \in Users
    BY <2>2, AudienceShrinks DEF CursorInv, Ranges
  <2>5. u \in RowsSeen(s)
    BY <1>5, <2>3, <2>4 DEF RowsSeen
  <2>6. LeastSeen(s, k) <= Own(s, u, k) /\ Own(s, u, k) \in Nat /\ LeastSeen(s, k) \in Nat
    BY <2>4, <2>5, LeastSeenIsSeen, ReceiptAssumption DEF CursorInv
  <2>7. Own(s, u, k)' = Own(s, u, k)
    BY <2>2, <2>3 DEF Own
  <2>8. m \in Nat
    OBVIOUS
  <2> QED
    BY <1>5, <2>3, <2>6, <2>7, <2>8
<1> QED
  BY <1>4, <1>5
LEMMA TickedStep ==
    ASSUME CursorInv, CursorInv', TickInv, ~disordered', ~foretold', NEW s \in Sessions,
           CursorNext,
           Local(s) \/ Starts(s) \/ CommitSend(s) \/ CommitSystemMessage(s)
           \/ CommitAdvance(s) \/ CommitLeave(s) \/ CommitJoin(s)
    PROVE  Ticked'
<1> SUFFICES ASSUME NEW k \in Kinds, NEW m \in 1..minted', m <= cursor'[k], NEW u \in audience'[m]
             PROVE  watermark'[u][k] >= m
  BY DEF Ticked
<1>1. ~disordered /\ ~foretold /\ Reached(s) /\ Ticked
  BY Ordered, ForetoldStep DEF TickInv
<1>2. /\ minted \in Nat /\ minted' \in Nat /\ committed \subseteq 1..minted
      /\ \A v \in Users, j \in Kinds : watermark[v][j] \in Nat
      /\ cursor[k] \in committed \cup {0}
  BY <1>1, ReceiptAssumption DEF CursorInv, Ranges, Related
<1>3. m \in 1..minted => u \in audience[m] /\ u \in members /\ u \in members' /\ u \in Users
  BY AudienceShrinks DEF CursorInv, Ranges, Related
<1>4. cursor[k] \in 0..minted /\ txn[s].mins[k] \in 0..minted /\ m \in Nat /\ 1 <= m
  <2>1. txn[s].mins[k] \in committed \cup {0} \/ txn[s].mins[k] \in 1..minted
    BY <1>1 DEF CursorInv, MinsNamed, TxnsSound, Sound
  <2>2. \A x \in (committed \cup {0}) \cup (1..minted) : x \in 0..minted
    BY <1>2, NamedRange
  <2>3. cursor[k] \in 0..minted
    BY <1>2, <2>2
  <2>4. txn[s].mins[k] \in 0..minted
    BY <2>1, <2>2
  <2>5. m \in Nat /\ 1 <= m
    BY <1>2
  <2> QED
    BY <2>3, <2>4, <2>5
<1>5. ASSUME cursor' = cursor, \A v \in members : watermark'[v][k] = watermark[v][k]
      PROVE  watermark'[u][k] >= m
  <2>1. m \in 1..minted
    BY <1>2, <1>4, <1>5
  <2> QED
    BY <1>1, <1>3, <1>5, <2>1 DEF Ticked
<1>6. ASSUME cursor' = txn[s].mins, txn[s].at = "write", txn[s].op # "join",
             ~(txn[s].op = "leave" /\ u = txn[s].user), watermark'[u][k] = Own(s, u, k)
      PROVE  watermark'[u][k] >= m
  <2>1. m \in 1..minted
    BY <1>2, <1>4, <1>6
  <2> QED
    BY <1>1, <1>3, <1>6, <2>1 DEF Reached
<1>7. u \in Users
  <2>1. m \in Ids
    BY ReceiptAssumption DEF CursorInv, Ranges, Ids
  <2> QED
    BY <2>1 DEF CursorInv, Ranges, Related
<1>8. CASE Local(s)
  BY <1>5, <1>8, LocalFrame
<1>9. CASE Starts(s) \/ CommitSystemMessage(s)
  <2>1. cursor' = cursor /\ watermark' = watermark
    BY <1>9 DEF Starts, StartSend, CommitSystemMessage, rows
  <2> QED
    BY <1>5, <2>1
<1>10. CASE CommitSend(s)
  BY <1>6, <1>7, <1>10 DEF CommitSend, At
<1>11. CASE CommitAdvance(s)
  BY <1>6, <1>7, <1>11 DEF CommitAdvance, At
<1>12. CASE CommitLeave(s)
  <2>1. txn[s].op = "leave" /\ txn[s].at = "write" /\ cursor' = txn[s].mins /\ u # txn[s].user
    <3>1. m \in Ids
      BY ReceiptAssumption DEF CursorInv, Ranges, Ids
    <3> QED
      BY <1>12, <3>1 DEF CommitLeave, RemoveMember, At
  <2>2. watermark'[u][k] = Own(s, u, k)
    BY <1>7, <1>12, <2>1 DEF CommitLeave, RemoveMember, Own, CursorInv, Ranges
  <2> QED
    BY <1>6, <2>1, <2>2
<1>13. CASE CommitJoin(s)
  <2>1. cursor' = cursor /\ \A v \in members : watermark'[v][k] = watermark[v][k]
    BY <1>13 DEF CommitJoin, CursorInv, Ranges
  <2> QED
    BY <1>5, <2>1
<1> QED
  BY <1>8, <1>9, <1>10, <1>11, <1>12, <1>13

LEMMA TickInvStep == CursorInv /\ CursorInv' /\ TickInv /\ [CursorNext]_cursorVars => TickInv'
<1> SUFFICES ASSUME CursorInv, CursorInv', TickInv, [CursorNext]_cursorVars, ~disordered', ~foretold'
             PROVE  Ticked' /\ \A t \in Sessions : Reached(t)'
  BY DEF TickInv
<1>1. CASE UNCHANGED cursorVars
  BY <1>1 DEF TickInv, Ticked, Reached, Own, cursorVars
<1>2. CASE CursorNext
  BY <1>2, StepCases, TickedStep, ReachedStep
<1> QED
  BY <1>1, <1>2

\* While rows commit in the order of their ids and only written messages are
\* acknowledged, no tick is shown before everybody in the message's audience has got (read) it.
THEOREM NoPrematureTickHolds == CursorSpec => []NoPrematureTick
<1>1. CursorInit => TickInv
  <2> SUFFICES ASSUME CursorInit PROVE TickInv
    OBVIOUS
  <2>1. \A s \in Sessions : Reached(s)
    BY IdleTyped DEF CursorInit, Reached
  <2>2. Ticked
    BY DEF CursorInit, Ticked
  <2> QED
    BY <2>1, <2>2 DEF TickInv
<1>2. CursorInv /\ TickInv => NoPrematureTick
  BY DEF CursorInv, Ranges, TickInv, Ticked, NoPrematureTick
<1> QED
  BY <1>1, <1>2, CursorInvInit, CursorInvStep, TickInvStep, PTL DEF CursorSpec
-----------------------------------------------------------------------------
(***************************************************************************)
(* The cursors are exact while the transactions of the chat run one at a   *)
(* time: nothing moves between reading the minima and writing them, and a  *)
(* joiner starts at the chat's newest message.                             *)
(***************************************************************************)
\* The minimum that s read is still the one it would read.
Current(s) ==
    txn[s].at = "write" /\ txn[s].op # "join" => \A k \in Kinds : txn[s].mins[k] = LeastSeen(s, k)

NewestSeen(s) ==
    /\ \A m \in committed : m <= lastId
    /\ txn[s].op = "send" => \A m \in committed : m < txn[s].id
    /\ txn[s].op = "join" => txn[s].id = lastId
    /\ txn[s].op = "leave" => members \ {txn[s].user} # {}

Alone == \A s, t \in Sessions : txn[s] # Idle /\ txn[t] # Idle => s = t

ExactInv ==
    ~acksOverlapped /\ ~foretold =>
        /\ Alone
        /\ members # {}
        /\ \A m \in committed : m <= lastId
        /\ \A s \in Sessions : NewestSeen(s) /\ Current(s)
        /\ CursorsAreLeast

LEMMA MinKeepsUnderLarger ==
    ASSUME NEW S, S \subseteq Nat, S # {}, NEW x \in Nat, \A y \in S : y <= x
    PROVE  Min(S \cup {x}) = Min(S)
<1>1. Min(S) \in S /\ \A y \in S : Min(S) <= y
  BY MinIsLeast
<1>2. Min(S \cup {x}) \in S \cup {x} /\ \A y \in S \cup {x} : Min(S \cup {x}) <= y
  BY MinIsLeast
<1>3. Min(S \cup {x}) <= Min(S) /\ Min(S) <= Min(S \cup {x})
  BY <1>1, <1>2
<1>4. Min(S) \in Nat /\ Min(S \cup {x}) \in Nat
  BY <1>1, <1>2
<1> QED
  BY <1>3, <1>4

\* A commit that writes what it read leaves the cursors at the least watermarks.
LEMMA WritesLeast ==
    ASSUME CursorInv, NEW s \in Sessions, Current(s), RowsSeen(s) = members', members' # {},
           txn[s].at = "write", txn[s].op # "join", cursor' = txn[s].mins,
           \A u \in members', k \in Kinds : watermark'[u][k] = Own(s, u, k)
    PROVE  CursorsAreLeast'
<1> SUFFICES ASSUME NEW k \in Kinds PROVE cursor'[k] = Min({watermark'[u][k] : u \in members'})
  BY DEF CursorsAreLeast, Least
<1>1. {watermark'[u][k] : u \in members'} = {Own(s, u, k) : u \in RowsSeen(s)}
  <2>1. \A u \in members' : watermark'[u][k] = Own(s, u, k)
    OBVIOUS
  <2> QED
    BY <2>1
<1>2. {Own(s, u, k) : u \in RowsSeen(s)} # {}
  OBVIOUS
<1>3. LeastSeen(s, k) = Min({Own(s, u, k) : u \in RowsSeen(s)})
  BY <1>2 DEF LeastSeen
<1>4. cursor'[k] = LeastSeen(s, k)
  BY DEF Current
<1> QED
  BY <1>1, <1>3, <1>4

LEMMA LeastStep ==
    ASSUME CursorInv, ExactInv, ~acksOverlapped, ~foretold, NEW s \in Sessions,
           Local(s) \/ Starts(s) \/ CommitSend(s) \/ CommitSystemMessage(s)
           \/ CommitAdvance(s) \/ CommitLeave(s) \/ CommitJoin(s)
    PROVE  CursorsAreLeast' /\ members' # {}
<1>1. CursorsAreLeast /\ members # {} /\ NewestSeen(s) /\ Current(s) /\ members \subseteq Users
  BY DEF ExactInv, CursorInv, Ranges
<1>2. CASE Local(s) \/ Starts(s) \/ CommitSystemMessage(s)
  <2>1. UNCHANGED <<cursor, watermark, members>>
    BY <1>2, LocalFrame DEF Starts, StartSend, CommitSystemMessage, CommitMessage, rows
  <2> QED
    BY <1>1, <2>1 DEF CursorsAreLeast, Least
<1>3. CASE CommitSend(s)
  <2>1. members' = members /\ txn[s].op = "send" /\ txn[s].at = "write" /\ cursor' = txn[s].mins
    BY <1>3 DEF CommitSend, CommitMessage, At
  <2>2. RowsSeen(s) = members'
    BY <2>1 DEF RowsSeen
  <2>3. \A u \in members', k \in Kinds : watermark'[u][k] = Own(s, u, k)
    BY <1>1, <1>3, <2>1 DEF CommitSend
  <2> QED
    BY <1>1, <2>1, <2>2, <2>3, WritesLeast
<1>4. CASE CommitAdvance(s)
  <2>1. members' = members /\ txn[s].op = "advance" /\ txn[s].at = "write" /\ cursor' = txn[s].mins
    BY <1>4 DEF CommitAdvance, At
  <2>2. RowsSeen(s) = members'
    BY <2>1 DEF RowsSeen
  <2>3. \A u \in members', k \in Kinds : watermark'[u][k] = Own(s, u, k)
    BY <1>1, <1>4, <2>1 DEF CommitAdvance
  <2> QED
    BY <1>1, <2>1, <2>2, <2>3, WritesLeast
<1>5. CASE CommitLeave(s)
  <2>1. /\ txn[s].op = "leave" /\ txn[s].at = "write" /\ cursor' = txn[s].mins
        /\ members' = members \ {txn[s].user} /\ watermark' = [watermark EXCEPT ![txn[s].user] = NoMins]
    BY <1>5 DEF CommitLeave, RemoveMember, At
  <2>2. RowsSeen(s) = members' /\ members' # {}
    BY <1>1, <2>1 DEF RowsSeen, NewestSeen
  <2>3. \A u \in members', k \in Kinds : watermark'[u][k] = Own(s, u, k)
    BY <1>1, <2>1 DEF Own, CursorInv, Ranges
  <2> QED
    BY <1>1, <2>1, <2>2, <2>3, WritesLeast
<1>6. CASE CommitJoin(s)
  <2>1. CASE txn[s].user \in members
    <3>1. UNCHANGED <<cursor, watermark, members>>
      BY <1>6, <2>1 DEF CommitJoin
    <3> QED
      BY <1>1, <3>1 DEF CursorsAreLeast, Least
  <2>2. CASE txn[s].user \notin members
    <3> DEFINE u == txn[s].user
    <3>1. /\ members' = members \cup {u} /\ cursor' = cursor /\ txn[s].op = "join"
          /\ watermark' = [watermark EXCEPT ![u] = [k \in Kinds |-> txn[s].id]]
      BY <1>6, <2>2 DEF CommitJoin, At
    <3>2. u \in Users /\ txn[s].id = lastId /\ lastId \in Nat
      BY <1>1, <3>1 DEF NewestSeen, CursorInv, TxnsSound, Sound, Related, Ranges
    <3> HIDE DEF u
    <3>3. watermark'[u] = [k \in Kinds |-> lastId] /\ \A v \in members : watermark'[v] = watermark[v]
      BY <1>1, <2>2, <3>1, <3>2 DEF CursorInv, Ranges, u
    <3>4. ASSUME NEW k \in Kinds
          PROVE  cursor'[k] = Min({watermark'[v][k] : v \in members'})
      <4> DEFINE old == {watermark[v][k] : v \in members}
      <4>1. {watermark'[v][k] : v \in members'} = old \cup {lastId}
        BY <3>1, <3>3
      <4>2. \A v \in members : watermark[v][k] \in committed \cup {0}
        BY <1>1 DEF CursorInv, MarksNamed
      <4>3. \A m \in committed \cup {0} : m \in Nat /\ m <= lastId
        BY <1>1, <3>2 DEF NewestSeen, CursorInv, Ranges
      <4>4. old \subseteq Nat /\ old # {} /\ \A y \in old : y <= lastId
        BY <1>1, <4>2, <4>3
      <4>5. cursor[k] = Min(old)
        BY <1>1 DEF CursorsAreLeast, Least
      <4> HIDE DEF old
      <4>6. Min(old \cup {lastId}) = Min(old)
        BY <3>2, <4>4, MinKeepsUnderLarger
      <4> QED
        BY <3>1, <4>1, <4>5, <4>6
    <3> QED
      BY <3>1, <3>4 DEF CursorsAreLeast, Least
  <2> QED
    BY <2>1, <2>2
<1> QED
  BY <1>2, <1>3, <1>4, <1>5, <1>6
LEMMA OthersIdle ==
    ASSUME CursorInv, ExactInv, ~acksOverlapped', ~foretold, NEW s \in Sessions,
           Local(s) \/ Starts(s) \/ CommitSend(s) \/ CommitSystemMessage(s)
           \/ CommitAdvance(s) \/ CommitLeave(s) \/ CommitJoin(s)
    PROVE  ~acksOverlapped /\ \A r \in Sessions \ {s} : txn[r] = Idle
<1> USE IdleTyped
<1>1. ASSUME UNCHANGED acksOverlapped, txn[s] # Idle
      PROVE  ~acksOverlapped /\ \A r \in Sessions \ {s} : txn[r] = Idle
  BY <1>1 DEF ExactInv, Alone
<1>2. ASSUME acksOverlapped' = (acksOverlapped \/ \E r \in Sessions \ {s} : txn[r] # Idle)
      PROVE  ~acksOverlapped /\ \A r \in Sessions \ {s} : txn[r] = Idle
  BY <1>2
<1>3. CASE WriteChat(s) \/ WriteSender(s) \/ ReadMins(s) \/ WriteWatermark(s) \/ DeleteRow(s) \/ Rollback(s)
  BY <1>1, <1>3 DEF WriteChat, WriteSender, ReadMins, WriteWatermark, DeleteRow, Rollback, At
<1>4. CASE CommitSend(s) \/ CommitSystemMessage(s) \/ CommitAdvance(s) \/ CommitLeave(s) \/ CommitJoin(s)
  BY <1>1, <1>4 DEF CommitSend, CommitSystemMessage, CommitAdvance, CommitLeave, CommitJoin, At
<1>5. CASE \/ Starts(s)
           \/ \E u \in Users, k \in Kinds, m \in Ids : StartAdvance(s, u, k, m)
           \/ \E u \in Users : StartLeave(s, u) \/ StartJoin(s, u)
  BY <1>2, <1>5 DEF Starts, StartSend, StartAdvance, StartLeave, StartJoin, Begin
<1> QED
  BY <1>3, <1>4, <1>5 DEF Local

LEMMA NewestStep ==
    ASSUME CursorInv, ExactInv, ~acksOverlapped, ~foretold, NEW s \in Sessions,
           Local(s) \/ Starts(s) \/ CommitSend(s) \/ CommitSystemMessage(s)
           \/ CommitAdvance(s) \/ CommitLeave(s) \/ CommitJoin(s)
    PROVE  (\A m \in committed' : m <= lastId') /\ NewestSeen(s)'
<1> USE IdleTyped
<1>1. /\ NewestSeen(s) /\ txn \in [Sessions -> Txns] /\ minted \in Nat
      /\ \A m \in committed : m \in Nat /\ m <= minted
      /\ txn[s].id \in Nat /\ members # {}
      /\ \A m \in committed : m <= lastId
  BY DEF ExactInv, CursorInv, Ranges, Txns
<1>2. \A m \in committed' : m <= lastId'
  <2>1. CASE CommitSend(s) \/ CommitSystemMessage(s)
    <3>1. txn[s].op = "send" /\ committed' = committed \cup {txn[s].id} /\ lastId' = txn[s].id
      BY <2>1 DEF CommitSend, CommitSystemMessage, CommitMessage, At
    <3> QED
      BY <1>1, <3>1 DEF NewestSeen
  <2>2. CASE Local(s)
    BY <1>1, <2>2, LocalFrame
  <2>3. CASE Starts(s) \/ CommitAdvance(s) \/ CommitLeave(s) \/ CommitJoin(s)
    <3>1. committed' = committed /\ lastId' = lastId
      BY <2>3 DEF Starts, StartSend, CommitAdvance, CommitLeave, CommitJoin, rows
    <3> QED
      BY <1>1, <3>1
  <2> QED
    BY <2>1, <2>2, <2>3
<1>3. CASE CommitSend(s) \/ CommitSystemMessage(s) \/ CommitAdvance(s) \/ CommitLeave(s) \/ CommitJoin(s)
  <2>1. txn'[s] = Idle
    BY <1>3, CommitEnds DEF CursorInv
  <2> QED
    BY <1>2, <2>1 DEF NewestSeen
<1>4. ASSUME NEW u \in Users \cup {NoUser}, StartSend(s, u)
      PROVE  NewestSeen(s)'
  <2>1. txn'[s] = [Idle EXCEPT !.op = "send", !.at = "chat", !.user = u, !.id = minted + 1] /\ committed' = committed
    BY <1>1, <1>4 DEF StartSend, Begin, rows
  <2>2. txn'[s].op = "send" /\ txn'[s].id = minted + 1
    BY <2>1 DEF Txns
  <2> QED
    BY <1>1, <1>2, <2>1, <2>2 DEF NewestSeen
<1>5. ASSUME NEW u \in Users, NEW k \in Kinds, NEW m \in Ids, StartAdvance(s, u, k, m)
      PROVE  NewestSeen(s)'
  <2>1. txn'[s] = [Idle EXCEPT !.op = "advance", !.at = "row", !.user = u, !.kind = k, !.id = m]
    BY <1>1, <1>5 DEF StartAdvance, Begin
  <2>2. txn'[s].op = "advance"
    BY <2>1 DEF Txns
  <2> QED
    BY <1>2, <2>2 DEF NewestSeen
<1>6. ASSUME NEW u \in Users, StartLeave(s, u)
      PROVE  NewestSeen(s)'
  <2>1. txn'[s] = [Idle EXCEPT !.op = "leave", !.at = "row", !.user = u] /\ members' = members /\ members \ {u} # {}
    BY <1>1, <1>6 DEF StartLeave, Begin, rows
  <2>2. txn'[s].op = "leave" /\ txn'[s].user = u
    BY <2>1 DEF Txns
  <2> QED
    BY <1>2, <2>1, <2>2 DEF NewestSeen
<1>7. ASSUME NEW u \in Users, StartJoin(s, u)
      PROVE  NewestSeen(s)'
  <2>1. txn'[s] = [Idle EXCEPT !.op = "join", !.at = "write", !.user = u, !.id = lastId] /\ lastId' = lastId
    BY <1>1, <1>7 DEF StartJoin, Begin, rows
  <2>2. txn'[s].op = "join" /\ txn'[s].id = lastId
    BY <2>1 DEF Txns
  <2> QED
    BY <1>2, <2>1, <2>2 DEF NewestSeen
<1>8. ASSUME Local(s), txn'[s].op = txn[s].op, txn'[s].id = txn[s].id, txn'[s].user = txn[s].user \/ txn[s].op = "send"
      PROVE  NewestSeen(s)'
  BY <1>1, <1>2, <1>8, LocalFrame DEF NewestSeen
<1>9. CASE WriteChat(s) \/ WriteSender(s) \/ ReadMins(s) \/ WriteWatermark(s) \/ DeleteRow(s) \/ Rollback(s)
  <2>1. Local(s) /\ ~Starts(s)
    <3>1. txn[s] # Idle
      BY <1>9 DEF WriteChat, WriteSender, ReadMins, WriteWatermark, DeleteRow, Rollback, At
    <3> QED
      BY <1>9, <3>1 DEF Local, Starts, StartSend, Begin
  <2>2. CASE txn'[s] = Idle
    BY <1>2, <2>2 DEF NewestSeen
  <2>3. txn'[s] = Idle \/ (txn'[s].op = txn[s].op /\ txn'[s].id = txn[s].id /\ (txn'[s].user = txn[s].user \/ txn[s].op = "send"))
    <3>1. CASE WriteChat(s) \/ WriteWatermark(s) \/ DeleteRow(s) \/ Rollback(s)
      <4>1. txn'[s] = Idle \/ txn'[s] = [txn[s] EXCEPT !.at = "row"] \/ txn'[s] = [txn[s] EXCEPT !.at = "mins"]
        BY <1>1, <3>1 DEF WriteChat, WriteWatermark, DeleteRow, Rollback, Goto, End
      <4> QED
        BY <1>1, <4>1 DEF Txns
    <3>2. CASE ReadMins(s)
      <4>1. txn'[s] = [txn[s] EXCEPT !.at = "write", !.mins = [j \in Kinds |-> LeastSeen(s, j)]]
        BY <1>1, <3>2 DEF ReadMins
      <4> QED
        BY <1>1, <4>1 DEF Txns
    <3>3. CASE WriteSender(s)
      <4>1. txn'[s] = [txn[s] EXCEPT !.at = "mins", !.user = IF @ \in members THEN @ ELSE NoUser] /\ txn[s].op = "send"
        BY <1>1, <3>3 DEF WriteSender, At
      <4> QED
        BY <1>1, <4>1 DEF Txns
    <3> QED
      BY <1>9, <3>1, <3>2, <3>3
  <2>4. ASSUME txn'[s].op = txn[s].op, txn'[s].id = txn[s].id, txn'[s].user = txn[s].user \/ txn[s].op = "send"
        PROVE  NewestSeen(s)'
    BY <1>8, <2>1, <2>4
  <2> QED
    BY <1>2, <2>2, <2>3, <2>4
<1> QED
  BY <1>2, <1>3, <1>4, <1>5, <1>6, <1>7, <1>9 DEF Local, Starts

LEMMA CurrentStep ==
    ASSUME CursorInv, NEW s \in Sessions,
           Local(s) \/ Starts(s) \/ CommitSend(s) \/ CommitSystemMessage(s)
           \/ CommitAdvance(s) \/ CommitLeave(s) \/ CommitJoin(s)
    PROVE  Current(s)'
<1> SUFFICES ASSUME txn'[s].at = "write", txn'[s].op # "join", NEW k \in Kinds
             PROVE  txn'[s].mins[k] = LeastSeen(s, k)'
  BY DEF Current
<1>1. ReadMins(s)
  BY WriteFollowsRead, CommitEnds, IdleTyped DEF CursorInv
<1>2. txn \in [Sessions -> Txns]
  BY DEF CursorInv, Ranges
<1>3. /\ txn'[s] = [txn[s] EXCEPT !.at = "write", !.mins = [j \in Kinds |-> LeastSeen(s, j)]]
      /\ UNCHANGED <<members, watermark>>
  BY <1>1, <1>2 DEF ReadMins, rows
<1>4. /\ txn'[s].op = txn[s].op /\ txn'[s].user = txn[s].user /\ txn'[s].id = txn[s].id
      /\ txn'[s].kind = txn[s].kind /\ txn'[s].mins[k] = LeastSeen(s, k)
  BY <1>2, <1>3 DEF Txns
<1>5. RowsSeen(s)' = RowsSeen(s)
  BY <1>3, <1>4 DEF RowsSeen
<1>6. \A u \in RowsSeen(s) : Own(s, u, k)' = Own(s, u, k)
  BY <1>3, <1>4 DEF Own
<1>7. {Own(s, u, k) : u \in RowsSeen(s)}' = {Own(s, u, k) : u \in RowsSeen(s)}
  BY <1>5, <1>6
<1>8. LeastSeen(s, k)' = LeastSeen(s, k)
  BY <1>7 DEF LeastSeen
<1> QED
  BY <1>4, <1>8

LEMMA ExactInvStep == CursorInv /\ ExactInv /\ [CursorNext]_cursorVars => ExactInv'
<1> SUFFICES ASSUME CursorInv, ExactInv, [CursorNext]_cursorVars, ~acksOverlapped', ~foretold'
             PROVE  ExactInv'
  BY DEF ExactInv
<1>1. CASE UNCHANGED cursorVars
  <2>1. /\ Alone' <=> Alone
        /\ \A s \in Sessions : (NewestSeen(s)' <=> NewestSeen(s)) /\ (Current(s)' <=> Current(s))
        /\ CursorsAreLeast' <=> CursorsAreLeast
    BY <1>1 DEF cursorVars, Alone, NewestSeen, Current, CursorsAreLeast, Least, LeastSeen, Own, RowsSeen
  <2>2. UNCHANGED <<members, committed, lastId, acksOverlapped, foretold>>
    BY <1>1 DEF cursorVars
  <2> QED
    BY <2>1, <2>2 DEF ExactInv
<1>2. CASE CursorNext
  <2>1. PICK s \in Sessions : \/ Local(s) \/ Starts(s) \/ CommitSend(s) \/ CommitSystemMessage(s)
                              \/ CommitAdvance(s) \/ CommitLeave(s) \/ CommitJoin(s)
    BY <1>2, StepCases
  <2>2. ~acksOverlapped /\ ~foretold /\ \A r \in Sessions \ {s} : txn[r] = Idle
    BY <2>1, OthersIdle, ForetoldStep
  <2>3. \A r \in Sessions \ {s} : txn'[r] = Idle
    BY <2>1, <2>2, TxnStep DEF CursorInv
  <2>4. Alone'
    BY <2>3 DEF Alone, Idle, NoMins
  <2>5. (\A m \in committed' : m <= lastId') /\ NewestSeen(s)' /\ Current(s)' /\ CursorsAreLeast' /\ members' # {}
    BY <2>1, <2>2, NewestStep, CurrentStep, LeastStep
  <2>6. \A r \in Sessions \ {s} : NewestSeen(r)' /\ Current(r)'
    BY <2>3, <2>5, IdleTyped DEF NewestSeen, Current
  <2> QED
    BY <2>4, <2>5, <2>6 DEF ExactInv
<1> QED
  BY <1>1, <1>2

\* No acknowledgement, send, join or departure leaves the cursors behind the
\* least watermarks while the transactions of the chat do not overlap and only
\* written messages are acknowledged.
THEOREM ExactWithoutOverlapHolds == CursorSpec => []ExactWithoutOverlap
<1>1. CursorInit => ExactInv
  <2> SUFFICES ASSUME CursorInit PROVE ExactInv
    OBVIOUS
  <2>1. Alone /\ members # {} /\ members \subseteq Users /\ committed = {}
    BY ReceiptAssumption DEF CursorInit, Alone
  <2>2. \A s \in Sessions : NewestSeen(s) /\ Current(s)
    BY <2>1, IdleTyped DEF CursorInit, NewestSeen, Current
  <2>3. ASSUME NEW k \in Kinds
        PROVE  cursor[k] = Min({watermark[u][k] : u \in members})
    <3>1. {watermark[u][k] : u \in members} = {0} /\ cursor[k] = 0
      BY <2>1 DEF CursorInit, NoMins
    <3>2. Min({0}) \in {0}
      BY MinIsLeast
    <3> QED
      BY <3>1, <3>2
  <2> QED
    BY <2>1, <2>2, <2>3 DEF ExactInv, CursorsAreLeast, Least
<1>2. ExactInv => ExactWithoutOverlap
  BY DEF ExactInv, ExactWithoutOverlap
<1> QED
  BY <1>1, <1>2, CursorInvInit, CursorInvStep, ExactInvStep, PTL DEF CursorSpec

\* What the chat services' run checks of the ticks, for every chat.
THEOREM TicksHoldAlways == CursorSpec => []TicksHold
<1>1. CursorTypeOK /\ NoPrematureTick /\ ExactWithoutOverlap <=> TicksHold
  BY DEF TicksHold
<1> QED
  BY <1>1, CursorTypeCorrect, NoPrematureTickHolds, ExactWithoutOverlapHolds, PTL

-----------------------------------------------------------------------------
(***************************************************************************)
(* Media blobs: messages that carry one file, and concurrent "delete       *)
(* forever" requests.  While purges do not overlap, the file, its          *)
(* reference and the quota of a message that is shown are kept.            *)
(***************************************************************************)

(***************************************************************************)
(* Types.  The bounds on the counts come from the messages that ever       *)
(* passed Confirm, races or not.                                           *)
(***************************************************************************)
\* Messages that were counted, and perhaps others: none ever leaves the set.
Spent == {m \in BlobMessages : state[m] \in {"counted", "refused", "live", "deleted", "purged"}}

ShapeInv ==
    /\ blob \in [key : UploadKinds \cup {NoKind}, refs : Nat, uploaded : BOOLEAN]
    /\ blob.key = NoKind => blob = NoBlob
    /\ objects \in SUBSET UploadKinds
    /\ state \in [BlobMessages -> States]
    /\ key \in [BlobMessages -> UploadKinds \cup {NoKind}]
    /\ \A m \in BlobMessages : key[m] = NoKind <=> state[m] \in {"new", "purged"}
    /\ skip \in [BlobMessages -> BOOLEAN]
    /\ purge \in [Purgers -> [at : {"idle", "wipe", "refund", "deref", "object", "row"},
                              msg : BlobMessages, key : UploadKinds \cup {NoKind}]]
    /\ \A p \in Purgers : purge[p].at # "idle" => purge[p].key # NoKind
    /\ used \in Nat
    /\ raced \in BOOLEAN

\* No step leaves the types.
LEMMA ShapeStep == ShapeInv /\ [BlobNext]_blobVars => ShapeInv'
<1> SUFFICES ASSUME ShapeInv, [BlobNext]_blobVars PROVE ShapeInv'
  OBVIOUS
<1>0. Done \in [at : {"idle"}, msg : BlobMessages, key : {NoKind}]
  BY MediaAssumption DEF Done
<1> USE MediaAssumption DEF ShapeInv
<1>1. ASSUME NEW m \in BlobMessages, NEW k \in UploadKinds, Ticket(m, k) PROVE ShapeInv'
  BY <1>1 DEF Ticket, NoBlob, States
<1>2. ASSUME NEW m \in BlobMessages, Upload(m) PROVE ShapeInv'
  BY <1>2 DEF Upload, States
<1>3. ASSUME NEW m \in BlobMessages, FindRow(m) PROVE ShapeInv'
  BY <1>3 DEF FindRow, States
<1>4. ASSUME NEW m \in BlobMessages, RowMissing(m) PROVE ShapeInv'
  BY <1>4 DEF RowMissing, Refuse, States
<1>5. ASSUME NEW m \in BlobMessages, FindObject(m) PROVE ShapeInv'
  BY <1>5 DEF FindObject, States
<1>6. ASSUME NEW m \in BlobMessages, ObjectMissing(m) PROVE ShapeInv'
  BY <1>6 DEF ObjectMissing, Refuse, States
<1>7. ASSUME NEW m \in BlobMessages, Confirm(m) PROVE ShapeInv'
  <2>1. key[m] # NoKind
    BY <1>7 DEF Confirm
  <2>2. /\ blob' \in [key : UploadKinds \cup {NoKind}, refs : Nat, uploaded : BOOLEAN]
        /\ blob'.key = NoKind => blob' = NoBlob
    <3>1. CASE blob.key = key[m]
      <4>1. blob' = [blob EXCEPT !.refs = @ + 1, !.uploaded = TRUE]
        BY <1>7, <3>1 DEF Confirm
      <4>2. blob' = [key |-> blob.key, refs |-> blob.refs + 1, uploaded |-> TRUE]
        BY <4>1
      <4>3. QED
        BY <2>1, <3>1, <4>2
    <3>2. CASE blob.key # key[m]
      BY <1>7, <3>2 DEF Confirm
    <3>3. QED
      BY <3>1, <3>2
  <2>3. QED
    BY <1>7, <2>2 DEF Confirm, States
<1>8. ASSUME NEW m \in BlobMessages, WriteMessage(m) PROVE ShapeInv'
  BY <1>8 DEF WriteMessage, States
<1>9. ASSUME NEW m \in BlobMessages, RefuseLate(m) PROVE ShapeInv'
  BY <1>9 DEF RefuseLate, Refuse, States
<1>10. ASSUME NEW m \in BlobMessages, SoftDelete(m) PROVE ShapeInv'
  BY <1>10 DEF SoftDelete, States
<1>11. ASSUME NEW m \in BlobMessages, Restore(m) PROVE ShapeInv'
  BY <1>11 DEF Restore, States
<1>12. ASSUME NEW p \in Purgers, NEW m \in BlobMessages, StartPurge(p, m) PROVE ShapeInv'
  BY <1>12 DEF StartPurge, States
<1>13. ASSUME NEW p \in Purgers, Wipe(p) PROVE ShapeInv'
  <2>1. /\ state' \in [BlobMessages -> States]
        /\ key' \in [BlobMessages -> UploadKinds \cup {NoKind}]
        /\ \A m \in BlobMessages : key'[m] = NoKind <=> state'[m] \in {"new", "purged"}
    BY <1>13 DEF Wipe, States
  <2>2. purge[p].at = "wipe" /\ purge' = [purge EXCEPT ![p] = [@ EXCEPT !.at = "refund"]]
    BY <1>13 DEF Wipe, GoOn
  <2>3. /\ purge' \in [Purgers -> [at : {"idle", "wipe", "refund", "deref", "object", "row"},
                                   msg : BlobMessages, key : UploadKinds \cup {NoKind}]]
        /\ \A q \in Purgers : purge'[q].at # "idle" => purge'[q].key # NoKind
    BY <2>2
  <2>4. QED
    BY <1>13, <2>1, <2>3 DEF Wipe
<1>14. ASSUME NEW p \in Purgers, Refund(p) PROVE ShapeInv'
  <2>1. purge[p].at = "refund" /\ purge' = [purge EXCEPT ![p] = [@ EXCEPT !.at = "deref"]]
    BY <1>14 DEF Refund, GoOn
  <2>2. /\ purge' \in [Purgers -> [at : {"idle", "wipe", "refund", "deref", "object", "row"},
                                   msg : BlobMessages, key : UploadKinds \cup {NoKind}]]
        /\ \A q \in Purgers : purge'[q].at # "idle" => purge'[q].key # NoKind
    BY <2>1
  <2>3. QED
    BY <1>14, <2>2 DEF Refund, States
<1>15. ASSUME NEW p \in Purgers, Deref(p) PROVE ShapeInv'
  <2>1. purge[p].key # NoKind
    BY <1>15 DEF Deref
  <2>2. /\ blob' \in [key : UploadKinds \cup {NoKind}, refs : Nat, uploaded : BOOLEAN]
        /\ blob'.key = NoKind => blob' = NoBlob
    <3>1. CASE blob.key = purge[p].key
      <4>1. PICK n \in Nat : blob' = [blob EXCEPT !.refs = n]
        <5>1. (IF blob.refs = 0 THEN 0 ELSE blob.refs - 1) \in Nat
          OBVIOUS
        <5>2. QED
          BY <1>15, <3>1, <5>1 DEF Deref
      <4>2. blob' = [key |-> blob.key, refs |-> n, uploaded |-> blob.uploaded]
        BY <4>1
      <4>3. QED
        BY <2>1, <3>1, <4>2
    <3>2. CASE blob.key # purge[p].key
      BY <1>15, <3>2 DEF Deref
    <3>3. QED
      BY <3>1, <3>2
  <2>3. purge' = [purge EXCEPT ![p] = [@ EXCEPT !.at = "object"]] \/ purge' = [purge EXCEPT ![p] = Done]
    BY <1>15 DEF Deref
  <2>4. /\ purge' \in [Purgers -> [at : {"idle", "wipe", "refund", "deref", "object", "row"},
                                   msg : BlobMessages, key : UploadKinds \cup {NoKind}]]
        /\ \A q \in Purgers : purge'[q].at # "idle" => purge'[q].key # NoKind
    BY <1>0, <2>1, <2>3
  <2>5. QED
    BY <1>15, <2>2, <2>4 DEF Deref
<1>16. ASSUME NEW p \in Purgers, DeleteObject(p) PROVE ShapeInv'
  BY <1>16 DEF DeleteObject, GoOn, States
<1>17. ASSUME NEW p \in Purgers, DeleteBlobRow(p) PROVE ShapeInv'
  BY <1>17, <1>0 DEF DeleteBlobRow, NoBlob, States
<1>18. ASSUME NEW p \in Purgers, Abandon(p) PROVE ShapeInv'
  BY <1>18, <1>0 DEF Abandon, States
<1>19. CASE UNCHANGED blobVars
  BY <1>19 DEF blobVars, States
<1>20. QED
  BY <1>1, <1>2, <1>3, <1>4, <1>5, <1>6, <1>7, <1>8, <1>9, <1>10, <1>11, <1>12,
     <1>13, <1>14, <1>15, <1>16, <1>17, <1>18, <1>19 DEF BlobNext

(***************************************************************************)
(* Keys and objects: while no purge overlaps another request, who passed a *)
(* check still has what it was shown.                                      *)
(***************************************************************************)
\* Messages whose reference was counted and not given back.
Referring == {m \in BlobMessages : state[m] \in {"counted", "live", "deleted"}}

KeepInv ==
    ~raced =>
        /\ \A m \in BlobMessages :
              state[m] \in {"known", "found", "counted", "live", "deleted"} => key[m] = blob.key
        /\ \A m \in BlobMessages :
              state[m] \in {"found", "counted", "live", "deleted"} => key[m] \in objects
        /\ \A p \in Purgers : purge[p] # Done => ~Validating
        /\ \A p, q \in Purgers : purge[p] # Done /\ purge[q] # Done => p = q
        /\ \A p \in Purgers : purge[p].at = "wipe" =>
              state[purge[p].msg] = "deleted" /\ purge[p].key = key[purge[p].msg]
        /\ \A p \in Purgers : purge[p].at \in {"refund", "deref", "object", "row"} =>
              purge[p].key = blob.key
        /\ \A p \in Purgers : purge[p].at \in {"object", "row"} => Referring = {}

\* References and quota cover the messages that refer, and the one a purge has
\* wiped but not yet settled.
CountInv ==
    ~raced =>
        /\ Cardinality(Referring) <= blob.refs
        /\ Cardinality(Referring) <= used
        /\ \A p \in Purgers : purge[p].at \in {"refund", "deref"} => Cardinality(Referring) < blob.refs
        /\ \A p \in Purgers : purge[p].at = "refund" => Cardinality(Referring) < used

\* A purge under way is not done.
LEMMA PurgeUnderWay ==
    ASSUME NEW p, purge[p].at # "idle"
    PROVE  purge[p] # Done
BY DEF Done

\* One that is done is at no step.
LEMMA Ended == Done.at = "idle"
BY DEF Done

\* Only the messages of the model refer to the file.
LEMMA ReferringIsFinite == IsFiniteSet(Referring) /\ Cardinality(Referring) \in Nat
<1>1. IsFiniteSet(Referring)
  BY MediaAssumption, FS_Subset DEF Referring
<1>2. QED
  BY <1>1, FS_CardinalityType

\* The last reference is given back when nobody refers any more.
LEMMA LastReference ==
    ASSUME ShapeInv, CountInv, ~raced, NEW p \in Purgers, purge[p].at = "deref", blob.refs \in 0..1
    PROVE  Referring = {}
<1>1. Cardinality(Referring) = 0
  BY ReferringIsFinite DEF CountInv, ShapeInv
<1>2. QED
  BY <1>1, ReferringIsFinite, FS_EmptySet

\* No step takes the file or its row from a message that is counted.
LEMMA KeepStep == ShapeInv /\ KeepInv /\ CountInv /\ [BlobNext]_blobVars => KeepInv'
<1> SUFFICES ASSUME ShapeInv, KeepInv, CountInv, [BlobNext]_blobVars, ~raced' PROVE KeepInv'
  BY DEF KeepInv
<1>0. ~raced
  BY DEF BlobNext, blobVars, Ticket, Upload, FindRow, RowMissing, FindObject, ObjectMissing,
         Refuse, Confirm, WriteMessage, RefuseLate, SoftDelete, Restore, StartPurge, Wipe, Refund,
         Deref, DeleteObject, DeleteBlobRow, Abandon
<1>1. ASSUME NEW m \in BlobMessages, NEW k \in UploadKinds, Ticket(m, k) PROVE KeepInv'
  <2>1. blob.key # NoKind => blob' = blob
    BY <1>1 DEF Ticket, NoBlob
  <2>2. /\ \A n \in BlobMessages : state'[n] # "ticket" => state'[n] = state[n] /\ key'[n] = key[n]
        /\ \A n \in BlobMessages : state[n] # "new" => state'[n] = state[n]
        /\ UNCHANGED <<objects, purge>>
    BY <1>1 DEF Ticket, ShapeInv
  <2>3. Referring' = Referring /\ (Validating' => Validating)
    BY <2>2 DEF Referring, Validating
  <2>4. ASSUME NEW n \in BlobMessages,
               state'[n] \in {"known", "found", "counted", "live", "deleted"}
        PROVE  key'[n] = blob'.key /\ (state'[n] # "known" => key'[n] \in objects')
    BY <1>0, <2>1, <2>2, <2>4 DEF KeepInv, ShapeInv
  <2>5. ASSUME NEW p \in Purgers, purge[p].at # "idle"
        PROVE  /\ purge[p].at \in {"refund", "deref", "object", "row"} => purge[p].key = blob'.key
               /\ purge[p].at = "wipe" =>
                     state'[purge[p].msg] = "deleted" /\ purge[p].key = key'[purge[p].msg]
    BY <1>0, <2>1, <2>2, <2>5 DEF KeepInv, ShapeInv
  <2>6. QED
    BY <1>0, <2>2, <2>3, <2>4, <2>5 DEF KeepInv
<1>2. ASSUME NEW m \in BlobMessages, Upload(m) PROVE KeepInv'
  BY <1>2, <1>0, PurgeUnderWay, SMTT(30) DEF Upload, ShapeInv, KeepInv, Validating, Purging, Referring
<1>3. ASSUME NEW m \in BlobMessages, FindRow(m) PROVE KeepInv'
  BY <1>3, <1>0, PurgeUnderWay, ZenonT(60) DEF FindRow, ShapeInv, KeepInv, Validating, Purging, Referring
<1>4. ASSUME NEW m \in BlobMessages, RowMissing(m) PROVE KeepInv'
  BY <1>4, <1>0, PurgeUnderWay, SMTT(30) DEF RowMissing, Refuse, ShapeInv, KeepInv, Validating, Purging, Referring
<1>5. ASSUME NEW m \in BlobMessages, FindObject(m) PROVE KeepInv'
  BY <1>5, <1>0, PurgeUnderWay, SMTT(30) DEF FindObject, ShapeInv, KeepInv, Validating, Purging, Referring
<1>6. ASSUME NEW m \in BlobMessages, ObjectMissing(m) PROVE KeepInv'
  BY <1>6, <1>0, PurgeUnderWay, SMTT(30) DEF ObjectMissing, Refuse, ShapeInv, KeepInv, Validating, Purging, Referring
<1>7. ASSUME NEW m \in BlobMessages, Confirm(m) PROVE KeepInv'
  BY <1>7, <1>0, PurgeUnderWay, SMTT(30) DEF Confirm, ShapeInv, KeepInv, Validating, Purging, Referring
<1>8. ASSUME NEW m \in BlobMessages, WriteMessage(m) PROVE KeepInv'
  BY <1>8, <1>0, PurgeUnderWay, SMTT(30) DEF WriteMessage, ShapeInv, KeepInv, Validating, Purging, Referring
<1>9. ASSUME NEW m \in BlobMessages, RefuseLate(m) PROVE KeepInv'
  BY <1>9, <1>0, PurgeUnderWay, SMTT(30) DEF RefuseLate, Refuse, ShapeInv, KeepInv, Validating, Purging, Referring
<1>10. ASSUME NEW m \in BlobMessages, SoftDelete(m) PROVE KeepInv'
  BY <1>10, <1>0, PurgeUnderWay, SMTT(30) DEF SoftDelete, ShapeInv, KeepInv, Validating, Purging, Referring
<1>11. ASSUME NEW m \in BlobMessages, Restore(m) PROVE KeepInv'
  BY <1>11, <1>0, PurgeUnderWay, ZenonT(60) DEF Restore, ShapeInv, KeepInv, Validating, Purging, Referring
<1>12. ASSUME NEW p \in Purgers, NEW m \in BlobMessages, StartPurge(p, m) PROVE KeepInv'
  BY <1>12, <1>0, PurgeUnderWay, ZenonT(60) DEF StartPurge, ShapeInv, KeepInv, Validating, Purging, Referring
<1>13. ASSUME NEW p \in Purgers, Wipe(p) PROVE KeepInv'
  BY <1>13, <1>0, PurgeUnderWay, SMTT(30) DEF Wipe, GoOn, ShapeInv, KeepInv, Validating, Purging, Referring
<1>14. ASSUME NEW p \in Purgers, Refund(p) PROVE KeepInv'
  BY <1>14, <1>0, PurgeUnderWay, SMTT(30) DEF Refund, GoOn, ShapeInv, KeepInv, Validating, Purging, Referring
<1>15. ASSUME NEW p \in Purgers, Deref(p) PROVE KeepInv'
  <2>1. UNCHANGED <<state, key, objects>> /\ purge[p].at = "deref" /\ blob'.key = blob.key
    <3>1. blob' = blob \/ \E n : blob' = [blob EXCEPT !.refs = n]
      BY <1>15 DEF Deref
    <3>2. QED
      BY <1>15, <3>1 DEF Deref, ShapeInv
  <2>2. \A q \in Purgers \ {p} : purge'[q] = purge[q]
    BY <1>15 DEF Deref, ShapeInv
  <2>3. \/ purge'[p] = Done
        \/ /\ blob.refs \in 0..1
           /\ purge'[p] = [purge[p] EXCEPT !.at = "object"]
    BY <1>15 DEF Deref, ShapeInv
  <2>4. CASE purge'[p] = Done
    BY <1>0, <2>1, <2>2, <2>4, Ended DEF KeepInv, Validating, Referring
  <2>5. CASE blob.refs \in 0..1 /\ purge'[p] = [purge[p] EXCEPT !.at = "object"]
    <3>1. Referring = {} /\ purge[p] # Done
      BY <1>0, <2>1, <2>5, LastReference, PurgeUnderWay
    <3>2. purge'[p].at = "object" /\ purge'[p].key = purge[p].key
      BY <2>5 DEF ShapeInv
    <3>3. QED
      BY <1>0, <2>1, <2>2, <3>1, <3>2 DEF KeepInv, Validating, Referring
  <2>6. QED
    BY <2>3, <2>4, <2>5
<1>16. ASSUME NEW p \in Purgers, DeleteObject(p) PROVE KeepInv'
  BY <1>16, <1>0, PurgeUnderWay, SMTT(30) DEF DeleteObject, GoOn, ShapeInv, KeepInv, Validating, Purging, Referring
<1>17. ASSUME NEW p \in Purgers, DeleteBlobRow(p) PROVE KeepInv'
  <2>1. UNCHANGED <<state, key, objects>> /\ purge[p].at = "row" /\ purge[p] # Done
    BY <1>17, PurgeUnderWay DEF DeleteBlobRow
  <2>2. purge' = [purge EXCEPT ![p] = Done]
    BY <1>17 DEF DeleteBlobRow
  <2>3. Referring = {} /\ ~Validating /\ \A q \in Purgers : purge'[q] = Done
    BY <1>0, <2>1, <2>2 DEF KeepInv, ShapeInv
  <2>4. \A m \in BlobMessages : state[m] \notin {"known", "found", "counted", "live", "deleted"}
    BY <2>3 DEF Referring, Validating
  <2>5. Referring' = {} /\ \A q \in Purgers : purge'[q].at = "idle"
    BY <2>1, <2>3 DEF Referring, Done
  <2>6. QED
    BY <2>1, <2>3, <2>4, <2>5 DEF KeepInv
<1>18. ASSUME NEW p \in Purgers, Abandon(p) PROVE KeepInv'
  <2>1. UNCHANGED <<state, key, objects, blob>>
    BY <1>18 DEF Abandon
  <2>2. purge'[p] = Done /\ \A q \in Purgers \ {p} : purge'[q] = purge[q]
    BY <1>18 DEF Abandon, ShapeInv
  <2>3. QED
    BY <1>0, <2>1, <2>2, Ended DEF KeepInv, Validating, Referring
<1>19. CASE UNCHANGED blobVars
  BY <1>19 DEF blobVars, ShapeInv, KeepInv, Validating, Purging, Referring
<1>20. QED
  BY <1>1, <1>2, <1>3, <1>4, <1>5, <1>6, <1>7, <1>8, <1>9, <1>10, <1>11, <1>12,
     <1>13, <1>14, <1>15, <1>16, <1>17, <1>18, <1>19 DEF BlobNext

\* A step that counts nothing, gives nothing back and starts no purge's account.
LEMMA CountFrame ==
    ASSUME ShapeInv, CountInv, ~raced, Referring' \subseteq Referring,
           blob.refs <= blob'.refs, blob'.refs \in Nat, used <= used', used' \in Nat,
           \A p \in Purgers :
              purge'[p].at \in {"refund", "deref"} => purge'[p].at = purge[p].at
    PROVE  CountInv'
<1>1. /\ Cardinality(Referring)' <= Cardinality(Referring)
      /\ Cardinality(Referring)' \in Nat /\ Cardinality(Referring) \in Nat
  <2>1. IsFiniteSet(Referring') /\ Cardinality(Referring') <= Cardinality(Referring)
    BY ReferringIsFinite, FS_Subset
  <2>2. QED
    BY <2>1, ReferringIsFinite, FS_CardinalityType
<1>2. blob.refs \in Nat /\ used \in Nat
  BY DEF ShapeInv
<1>3. QED
  BY <1>1, <1>2 DEF CountInv

\* No step makes a count smaller than the messages that rely on it.
LEMMA CountStep == ShapeInv /\ ShapeInv' /\ KeepInv /\ CountInv /\ [BlobNext]_blobVars => CountInv'
<1> SUFFICES ASSUME ShapeInv, ShapeInv', KeepInv, CountInv, [BlobNext]_blobVars, ~raced'
             PROVE  CountInv'
  BY DEF CountInv
<1>0. /\ ~raced
      /\ blob.refs \in Nat /\ blob'.refs \in Nat /\ used \in Nat /\ used' \in Nat
      /\ blob.refs <= blob.refs /\ used <= used
  BY DEF BlobNext, blobVars, Ticket, Upload, FindRow, RowMissing, FindObject, ObjectMissing,
         Refuse, Confirm, WriteMessage, RefuseLate, SoftDelete, Restore, StartPurge, Wipe, Refund,
         Deref, DeleteObject, DeleteBlobRow, Abandon, ShapeInv
<1>1. ASSUME NEW m \in BlobMessages, NEW k \in UploadKinds, Ticket(m, k) PROVE CountInv'
  <2>1. Referring' = Referring
    BY <1>1 DEF Ticket, Referring, ShapeInv
  <2>2. blob'.refs = blob.refs /\ UNCHANGED <<used, purge>>
    BY <1>1 DEF Ticket, NoBlob
  <2>3. QED
    BY <1>0, <2>1, <2>2, CountFrame
<1>2. ASSUME NEW m \in BlobMessages, Upload(m) PROVE CountInv'
  BY <1>2, <1>0, CountFrame DEF Upload, Referring, ShapeInv
<1>3. ASSUME NEW m \in BlobMessages, FindRow(m) PROVE CountInv'
  BY <1>3, <1>0, CountFrame DEF FindRow, Referring, ShapeInv
<1>4. ASSUME NEW m \in BlobMessages, RowMissing(m) PROVE CountInv'
  BY <1>4, <1>0, CountFrame DEF RowMissing, Refuse, Referring, ShapeInv
<1>5. ASSUME NEW m \in BlobMessages, FindObject(m) PROVE CountInv'
  BY <1>5, <1>0, CountFrame DEF FindObject, Referring, ShapeInv
<1>6. ASSUME NEW m \in BlobMessages, ObjectMissing(m) PROVE CountInv'
  BY <1>6, <1>0, CountFrame DEF ObjectMissing, Refuse, Referring, ShapeInv
<1>7. ASSUME NEW m \in BlobMessages, Confirm(m) PROVE CountInv'
  <2>1. state[m] = "found" /\ state' = [state EXCEPT ![m] = "counted"] /\ UNCHANGED purge
    BY <1>7 DEF Confirm
  <2>2. m \notin Referring /\ Referring' = Referring \cup {m}
    BY <2>1 DEF Referring, ShapeInv
  <2>3. Cardinality(Referring') = Cardinality(Referring) + 1
    BY <2>2, ReferringIsFinite, FS_AddElement
  <2>4. blob'.refs = blob.refs + 1 /\ used' = used + 1
    BY <1>0, <1>7 DEF Confirm, ShapeInv, KeepInv
  <2>5. QED
    BY <1>0, <2>1, <2>3, <2>4, ReferringIsFinite DEF CountInv
<1>8. ASSUME NEW m \in BlobMessages, WriteMessage(m) PROVE CountInv'
  BY <1>8, <1>0, CountFrame DEF WriteMessage, Referring, ShapeInv
<1>9. ASSUME NEW m \in BlobMessages, RefuseLate(m) PROVE CountInv'
  BY <1>9, <1>0, CountFrame DEF RefuseLate, Refuse, Referring, ShapeInv
<1>10. ASSUME NEW m \in BlobMessages, SoftDelete(m) PROVE CountInv'
  BY <1>10, <1>0, CountFrame DEF SoftDelete, Referring, ShapeInv
<1>11. ASSUME NEW m \in BlobMessages, Restore(m) PROVE CountInv'
  BY <1>11, <1>0, CountFrame DEF Restore, Referring, ShapeInv
<1>12. ASSUME NEW p \in Purgers, NEW m \in BlobMessages, StartPurge(p, m) PROVE CountInv'
  BY <1>12, <1>0, CountFrame DEF StartPurge, Referring, ShapeInv
<1>13. ASSUME NEW p \in Purgers, Wipe(p) PROVE CountInv'
  <2> DEFINE m == purge[p].msg
  <2>1. state[m] = "deleted" /\ m \in BlobMessages
    BY <1>0, <1>13 DEF Wipe, KeepInv, ShapeInv
  <2>2. /\ state' = [state EXCEPT ![m] = "purged"] /\ UNCHANGED <<blob, used>>
        /\ purge' = [purge EXCEPT ![p].at = "refund"]
    BY <1>13, <2>1 DEF Wipe, GoOn
  <2>3. m \in Referring /\ Referring' = Referring \ {m}
    BY <2>1, <2>2 DEF Referring, ShapeInv
  <2>4. Cardinality(Referring') = Cardinality(Referring) - 1
    BY <2>3, ReferringIsFinite, FS_RemoveElement
  <2>5. QED
    BY <1>0, <2>2, <2>4, ReferringIsFinite DEF CountInv
<1>14. ASSUME NEW p \in Purgers, Refund(p) PROVE CountInv'
  <2>1. /\ Referring' = Referring /\ purge[p].at = "refund" /\ blob' = blob
        /\ used' \in {used, IF used = 0 THEN 0 ELSE used - 1}
    BY <1>14 DEF Refund, Referring
  <2>2. \A q \in Purgers : /\ purge'[q].at # "refund"
                           /\ purge'[q].at \in {"refund", "deref"} => purge[q].at \in {"refund", "deref"}
    BY <1>0, <1>14, PurgeUnderWay DEF Refund, GoOn, ShapeInv, KeepInv
  <2>3. Cardinality(Referring) < used /\ Cardinality(Referring) < blob.refs
    BY <1>0, <2>1 DEF CountInv
  <2>4. QED
    BY <1>0, <2>1, <2>2, <2>3, ReferringIsFinite DEF CountInv
<1>15. ASSUME NEW p \in Purgers, Deref(p) PROVE CountInv'
  <2>1. /\ Referring' = Referring /\ purge[p].at = "deref" /\ used' = used
        /\ purge[p].key = blob.key
    BY <1>0, <1>15 DEF Deref, Referring, KeepInv
  <2>2. blob'.refs = IF blob.refs = 0 THEN 0 ELSE blob.refs - 1
    BY <1>15, <2>1 DEF Deref, ShapeInv
  <2>3. \A q \in Purgers : purge'[q].at \notin {"refund", "deref"}
    <3>1. \A q \in Purgers \ {p} : purge[q].at \notin {"refund", "deref"} /\ purge'[q] = purge[q]
      BY <1>0, <1>15, <2>1, PurgeUnderWay DEF Deref, ShapeInv, KeepInv
    <3>2. purge'[p].at \in {"object", "idle"}
      BY <1>15, Ended DEF Deref, ShapeInv
    <3>3. QED
      BY <3>1, <3>2
  <2>4. Cardinality(Referring) < blob.refs
    BY <1>0, <2>1 DEF CountInv
  <2>5. QED
    BY <1>0, <2>1, <2>2, <2>3, <2>4, ReferringIsFinite DEF CountInv
<1>16. ASSUME NEW p \in Purgers, DeleteObject(p) PROVE CountInv'
  BY <1>16, <1>0, CountFrame DEF DeleteObject, GoOn, Referring, ShapeInv
<1>17. ASSUME NEW p \in Purgers, DeleteBlobRow(p) PROVE CountInv'
  <2>1. /\ purge[p].at = "row" /\ purge' = [purge EXCEPT ![p] = Done] /\ UNCHANGED <<state, used>>
    BY <1>17 DEF DeleteBlobRow
  <2>2. Referring' = {} /\ \A q \in Purgers : purge'[q].at = "idle"
    BY <1>0, <2>1, PurgeUnderWay, Ended DEF KeepInv, ShapeInv, Referring
  <2>3. Cardinality(Referring') = 0
    BY <2>2, FS_EmptySet
  <2>4. QED
    BY <1>0, <2>2, <2>3 DEF CountInv
<1>18. ASSUME NEW p \in Purgers, Abandon(p) PROVE CountInv'
  <2>1. UNCHANGED <<state, blob, used>> /\ Referring' = Referring
    BY <1>18 DEF Abandon, Referring
  <2>2. \A q \in Purgers : purge'[q].at = "idle" \/ purge'[q] = purge[q]
    BY <1>18, Ended DEF Abandon, ShapeInv
  <2>3. QED
    BY <1>0, <2>1, <2>2, CountFrame
<1>19. CASE UNCHANGED blobVars
  <2>1. Referring' = Referring /\ UNCHANGED <<blob, used, purge>>
    BY <1>19 DEF blobVars, Referring
  <2>2. QED
    BY <1>0, <2>1, CountFrame
<1>20. QED
  BY <1>1, <1>2, <1>3, <1>4, <1>5, <1>6, <1>7, <1>8, <1>9, <1>10, <1>11, <1>12,
     <1>13, <1>14, <1>15, <1>16, <1>17, <1>18, <1>19 DEF BlobNext

(***************************************************************************)
(* The bounds of the counters.                                             *)
(***************************************************************************)
BoundInv == blob.refs <= Cardinality(Spent) /\ used <= Cardinality(Spent)

\* Only the messages of the model were ever counted.
LEMMA SpentIsFinite ==
    /\ IsFiniteSet(Spent) /\ Cardinality(Spent) \in Nat
    /\ Cardinality(BlobMessages) \in Nat /\ Cardinality(Spent) <= Cardinality(BlobMessages)
<1>1. IsFiniteSet(Spent) /\ Cardinality(Spent) <= Cardinality(BlobMessages)
  BY MediaAssumption, FS_Subset DEF Spent
<1>2. QED
  BY <1>1, FS_CardinalityType, MediaAssumption

\* Whoever is counted is spent, and stays it.
LEMMA BoundStep == ShapeInv /\ ShapeInv' /\ BoundInv /\ [BlobNext]_blobVars => BoundInv'
<1> SUFFICES ASSUME ShapeInv, ShapeInv', BoundInv, [BlobNext]_blobVars PROVE BoundInv'
  OBVIOUS
<1>0. /\ blob.refs \in Nat /\ blob'.refs \in Nat /\ used \in Nat /\ used' \in Nat
      /\ Cardinality(Spent) \in Nat
  BY SpentIsFinite DEF ShapeInv
<1>1. CASE \E m \in BlobMessages : Confirm(m)
  <2> PICK m \in BlobMessages : Confirm(m)
    BY <1>1
  <2>1. state[m] = "found" /\ state' = [state EXCEPT ![m] = "counted"]
    BY DEF Confirm
  <2>2. m \notin Spent /\ Spent' = Spent \cup {m}
    BY <2>1 DEF Spent, ShapeInv
  <2>3. Cardinality(Spent') = Cardinality(Spent) + 1
    BY <2>2, SpentIsFinite, FS_AddElement
  <2>4. blob'.refs <= blob.refs + 1 /\ used' = used + 1
    BY <1>0 DEF Confirm, ShapeInv
  <2>5. QED
    BY <1>0, <2>3, <2>4 DEF BoundInv
<1>2. CASE ~ \E m \in BlobMessages : Confirm(m)
  <2>1. Spent \subseteq Spent'
    BY <1>2 DEF Spent, ShapeInv, BlobNext, blobVars, Ticket, Upload, FindRow, RowMissing,
       FindObject, ObjectMissing, Refuse, WriteMessage, RefuseLate, SoftDelete, Restore,
       StartPurge, Wipe, Refund, Deref, DeleteObject, DeleteBlobRow, Abandon
  <2>2. blob'.refs <= blob.refs /\ used' <= used
    BY <1>0, <1>2 DEF ShapeInv, NoBlob, BlobNext, blobVars, Ticket, Upload, FindRow, RowMissing,
       FindObject, ObjectMissing, Refuse, WriteMessage, RefuseLate, SoftDelete, Restore,
       StartPurge, Wipe, Refund, Deref, DeleteObject, DeleteBlobRow, Abandon
  <2>3. Cardinality(Spent) <= Cardinality(Spent') /\ Cardinality(Spent') \in Nat
    <3>1. IsFiniteSet(Spent')
      BY MediaAssumption, FS_Subset DEF Spent
    <3>2. QED
      BY <2>1, <3>1, FS_Subset, FS_CardinalityType
  <2>4. QED
    BY <1>0, <2>2, <2>3 DEF BoundInv
<1>3. QED
  BY <1>1, <1>2

\* While a purge overlaps no send, restore or purge, no message that is shown
\* loses its file, its reference or its share of the quota, however purges fail.
THEOREM MediaHoldsAlways == BlobSpec => []MediaHolds
<1>1. BlobInit => ShapeInv /\ KeepInv /\ CountInv /\ BoundInv
  <2> SUFFICES ASSUME BlobInit PROVE ShapeInv /\ KeepInv /\ CountInv /\ BoundInv
    OBVIOUS
  <2>1. ShapeInv
    BY MediaAssumption DEF BlobInit, ShapeInv, NoBlob, States, Done
  <2>2. Referring = {} /\ Cardinality(Referring) = 0
    BY FS_EmptySet DEF Referring, BlobInit
  <2>3. KeepInv /\ CountInv
    BY <2>2, Ended DEF BlobInit, KeepInv, CountInv, NoBlob
  <2>4. BoundInv
    BY SpentIsFinite DEF BlobInit, NoBlob, BoundInv
  <2>5. QED
    BY <2>1, <2>3, <2>4
<1>2. ShapeInv /\ KeepInv /\ CountInv /\ BoundInv => MediaHolds
  <2> SUFFICES ASSUME ShapeInv, KeepInv, CountInv, BoundInv PROVE MediaHolds
    OBVIOUS
  <2>1. blob.refs \in 0..Cardinality(BlobMessages) /\ used \in 0..Cardinality(BlobMessages)
    BY SpentIsFinite DEF ShapeInv, BoundInv
  <2>2. BlobTypeOK
    BY <2>1 DEF ShapeInv, BlobTypeOK
  <2>3. IsFiniteSet(BlobShown) /\ Cardinality(BlobShown) <= Cardinality(Referring)
    BY ReferringIsFinite, FS_Subset DEF BlobShown, Referring
  <2>4. Cardinality(BlobShown) \in Nat
    BY <2>3, FS_CardinalityType
  <2>5. RefsCoverMessages /\ UsageCoversMessages
    BY <2>3, <2>4, ReferringIsFinite DEF CountInv, ShapeInv, RefsCoverMessages, UsageCoversMessages
  <2>6. MediaKept
    BY DEF KeepInv, MediaKept, BlobShown
  <2>7. QED
    BY <2>2, <2>5, <2>6 DEF MediaHolds
<1>3. QED
  BY <1>1, <1>2, ShapeStep, KeepStep, CountStep, BoundStep, PTL DEF BlobSpec

-----------------------------------------------------------------------------
(***************************************************************************)
(* Groups.  While requests that take owners out do not overlap, somebody   *)
(* owns the group whom no request under way is about to take out, or the   *)
(* one request that takes the owner out names an heir first.               *)
(***************************************************************************)

\* The steps a request of each kind goes through.
StepsOf == [none   |-> {"unsent"},
            create |-> {"row", "bare", "members", "undo", "done"},
            add    |-> {"insert", "done"},
            remove |-> {"remove", "look", "delete", "done"},
            leave  |-> {"transfer", "remove", "look", "delete", "done"},
            rerole |-> {"update", "done"}]

RequestType ==
    [op : {"none", "create", "add", "remove", "leave", "rerole"}, actor : People, target : People,
     heir : People, rank : 0..Owner,
     step : {"unsent", "row", "bare", "members", "undo", "insert", "transfer", "remove", "look",
             "delete", "update", "done"}]

RequestsHold ==
    /\ request \in [Requests -> RequestType]
    /\ \A r \in Requests :
          /\ request[r].step \in StepsOf[request[r].op]
          /\ request[r].step = "transfer" => request[r].rank = Owner
          /\ request[r].op = "rerole" => request[r].rank \in Member..Owner

\* Before the group is there nothing is, and once it is deleted nobody is in
\* it.  Until its creator is in it no other request is under way.
LifeHolds ==
    /\ group # "there" => In = {}
    /\ group = "none" => UnderWay = {}
    /\ \A r \in Requests :
          request[r].step \in {"row", "bare"} => group = "there" /\ In = {} /\ UnderWay = {r}

\* Of a group nobody is in, a request under way will know.
EmptyIsSeen ==
    group = "there" /\ In = {} /\ crashes = 0 =>
        \E r \in Requests : request[r].step \in {"row", "bare", "undo", "look", "delete"}

\* An owner whom no request under way is about to take out.
Secure(p) ==
    /\ role[p] = Owner
    /\ \A r \in UnderWay : /\ ~OwnerLeaves(request[r])
                           /\ request[r].step = "remove" => request[r].target # p

\* An owner's leave that is the only request names an owner before it takes one.
HandsOver(q) ==
    /\ OwnerLeaves(q)
    /\ q.step \in {"transfer", "remove"} => q.target \in In
    /\ q.step = "transfer" => q.heir \in In \ {q.target}
    /\ q.step = "remove" =>
          In \subseteq {q.target} \/ (q.heir # q.target /\ role[q.heir] = Owner)
    /\ q.step = "look" => (In = {} \/ \E p \in People : role[p] = Owner)

OwnerStays ==
    group = "there" /\ ~overlapped /\ ~demoted /\ crashes = 0 =>
        \/ \E r \in Requests : request[r].step \in {"row", "bare"}
        \/ \E p \in People : Secure(p)
        \/ \E r \in Requests : UnderWay = {r} /\ HandsOver(request[r])

GroupInv == GroupTypeOK /\ RequestsHold /\ LifeHolds /\ EmptyIsSeen /\ OwnerStays

\* A request that arrives takes no owner out alone, or hands over.
LEMMA ArrivalKeepsOwner ==
  ASSUME RequestsHold, LifeHolds, OwnerStays, NEW r \in Requests, NEW q, request[r].step = "unsent",
         request' = [request EXCEPT ![r] = q], q.step \notin {"unsent", "done"},
         overlapped' = (overlapped \/ \E o \in UnderWay : OwnerLeaves(q) \/ OwnerLeaves(request[o])),
         UNCHANGED <<group, role, crashes, demoted>>, In # {},
         OwnerLeaves(q) => HandsOver(q),
         ~OwnerLeaves(q) /\ q.step = "remove" => role[q.target] # Owner
  PROVE  OwnerStays'
<1> SUFFICES ASSUME group = "there", ~overlapped', ~demoted, crashes = 0
             PROVE  \/ \E p \in People : Secure(p)'
                    \/ UnderWay' = {r} /\ HandsOver(request[r])'
  BY DEF OwnerStays
<1>1. /\ request'[r] = q /\ \A o \in Requests \ {r} : request'[o] = request[o]
      /\ r \notin UnderWay /\ UnderWay' = UnderWay \cup {r}
  BY DEF RequestsHold, UnderWay
<1>2. \A o \in UnderWay : ~OwnerLeaves(q) /\ ~OwnerLeaves(request[o])
  OBVIOUS
<1>3. \A o \in Requests : request[o].step \notin {"row", "bare"}
  BY DEF LifeHolds
<1>4. PICK p \in People : Secure(p)
  BY <1>2, <1>3 DEF OwnerStays, HandsOver
<1>5. CASE OwnerLeaves(q)
  <2>1. UnderWay' = {r}
    BY <1>1, <1>2, <1>5
  <2>2. HandsOver(request[r])'
    BY <1>1, <1>5 DEF HandsOver, In
  <2>3. QED
    BY <2>1, <2>2
<1>6. CASE ~OwnerLeaves(q)
  <2>1. Secure(p)'
    BY <1>1, <1>4, <1>6 DEF Secure
  <2>2. QED
    BY <2>1
<1>7. QED
  BY <1>5, <1>6

LEMMA CreateGroupKeeps ==
  ASSUME GroupInv, NEW r \in Requests, CreateGroup(r)
  PROVE  GroupInv'
<1> USE GroupAssumption DEF GroupInv, CreateGroup, Arrives
<1>1. RequestsHold'
  BY DEF RequestsHold, RequestType, StepsOf, People, Owner
<1>2. GroupTypeOK'
  BY <1>1 DEF GroupTypeOK
<1>3. LifeHolds'
  BY DEF LifeHolds, In, UnderWay
<1>4. EmptyIsSeen'
  BY DEF EmptyIsSeen, RequestsHold
<1>5. OwnerStays'
  BY DEF OwnerStays, RequestsHold
<1>6. QED
  BY <1>1, <1>2, <1>3, <1>4, <1>5

LEMMA AddOwnerKeeps ==
  ASSUME GroupInv, NEW r \in Requests, AddOwner(r)
  PROVE  GroupInv'
<1> USE GroupAssumption DEF GroupInv, AddOwner, Goes, Joins
<1>1. RequestsHold'
  BY DEF RequestsHold, RequestType, StepsOf, GroupTypeOK, People
<1>2. GroupTypeOK'
  BY <1>1 DEF GroupTypeOK, People, Owner
<1>3. LifeHolds'
  <2>1. group = "there" /\ In = {} /\ UnderWay = {r}
    BY DEF LifeHolds
  <2>2. /\ \A q \in Requests \ {r} : request'[q] = request[q] /\ request[q].step \in {"unsent", "done"}
        /\ request'[r].step \in {"bare", "members", "done"} /\ group' = "there"
    BY <2>1 DEF RequestsHold, UnderWay
  <2>3. request'[r].step = "bare" => role' = role
    BY DEF RequestsHold
  <2>4. request'[r].step = "bare" => In' = {} /\ UnderWay' = {r}
    BY <2>1, <2>2, <2>3 DEF In, UnderWay
  <2>5. QED
    BY <2>2, <2>4 DEF LifeHolds
<1>4. EmptyIsSeen'
  BY DEF EmptyIsSeen, GroupTypeOK, In, Owner, People
<1>5. OwnerStays'
  BY DEF OwnerStays, Secure, HandsOver, OwnerLeaves, LifeHolds, GroupTypeOK, Member, Admin, Owner,
     People, UnderWay
<1>6. QED
  BY <1>1, <1>2, <1>3, <1>4, <1>5

LEMMA AddInitialKeeps ==
  ASSUME GroupInv, NEW r \in Requests, NEW p \in Initial, AddInitial(r, p)
  PROVE  GroupInv'
<1> USE GroupAssumption DEF GroupInv, AddInitial, Goes, Joins
<1>1. RequestsHold'
  BY DEF RequestsHold, RequestType, StepsOf, In, UnderWay
<1>2. GroupTypeOK'
  BY <1>1 DEF GroupTypeOK, People, Member, Owner
<1>3. LifeHolds'
  BY DEF LifeHolds, In, UnderWay
<1>4. EmptyIsSeen'
  BY DEF EmptyIsSeen, In
<1>5. OwnerStays'
  BY DEF OwnerStays, Secure, HandsOver, OwnerLeaves, LifeHolds, RequestsHold, RequestType,
     StepsOf, Member, Admin, Owner, People, UnderWay
<1>6. QED
  BY <1>1, <1>2, <1>3, <1>4, <1>5

LEMMA UndoGroupKeeps ==
  ASSUME GroupInv, NEW r \in Requests, UndoGroup(r)
  PROVE  GroupInv'
<1> USE GroupAssumption DEF GroupInv, UndoGroup, Deletes, Goes
<1>1. RequestsHold'
  BY DEF RequestsHold, RequestType, StepsOf
<1>2. GroupTypeOK'
  BY <1>1 DEF GroupTypeOK, Owner
<1>3. LifeHolds'
  <2>1. r \in UnderWay /\ \A q \in Requests \ {r} : request'[q] = request[q] /\ request[q].step \notin {"row", "bare"}
    BY DEF LifeHolds, UnderWay
  <2>2. In' = {} /\ group' # "none" /\ request'[r].step = "done"
    BY <2>1 DEF In, LifeHolds, RequestsHold
  <2>3. QED
    BY <2>1, <2>2 DEF LifeHolds
<1>4. EmptyIsSeen'
  BY DEF EmptyIsSeen
<1>5. OwnerStays'
  BY DEF OwnerStays
<1>6. QED
  BY <1>1, <1>2, <1>3, <1>4, <1>5

LEMMA AskAddKeeps ==
  ASSUME GroupInv, NEW r \in Requests, NEW actor \in In, NEW p \in People, AskAdd(r, actor, p)
  PROVE  GroupInv'
<1> USE GroupAssumption DEF GroupInv, AskAdd, Arrives
<1>1. RequestsHold'
  BY DEF RequestsHold, RequestType, StepsOf, Owner, In
<1>2. GroupTypeOK'
  BY <1>1 DEF GroupTypeOK
<1>3. LifeHolds'
  BY DEF LifeHolds
<1>4. EmptyIsSeen'
  BY DEF EmptyIsSeen, In
<1>5. OwnerStays'
  <2> DEFINE q == [op |-> "add", actor |-> actor, target |-> p, heir |-> actor,
                   rank |-> 0, step |-> "insert"]
  <2>1. /\ request[r].step = "unsent" /\ request' = [request EXCEPT ![r] = q]
        /\ overlapped' = (overlapped \/ \E o \in UnderWay : OwnerLeaves(q) \/ OwnerLeaves(request[o]))
    BY DEF RequestsHold
  <2>2. In # {} /\ q.step \notin {"unsent", "done"}
    OBVIOUS
  <2>3. ~OwnerLeaves(q)
    BY DEF OwnerLeaves
  <2>4. q.step # "remove"
    OBVIOUS
  <2>5. QED
    BY <2>1, <2>2, <2>3, <2>4, ArrivalKeepsOwner
<1>6. QED
  BY <1>1, <1>2, <1>3, <1>4, <1>5

LEMMA AskRemoveKeeps ==
  ASSUME GroupInv, NEW r \in Requests, NEW actor \in In, NEW p \in People, AskRemove(r, actor, p)
  PROVE  GroupInv'
<1> USE GroupAssumption DEF GroupInv, AskRemove, Arrives, Outranks
<1>1. RequestsHold'
  BY DEF RequestsHold, RequestType, StepsOf, Owner, In
<1>2. GroupTypeOK'
  BY <1>1 DEF GroupTypeOK
<1>3. LifeHolds'
  BY DEF LifeHolds
<1>4. EmptyIsSeen'
  BY DEF EmptyIsSeen, In
<1>5. OwnerStays'
  <2> DEFINE q == [op |-> "remove", actor |-> actor, target |-> p, heir |-> actor,
                   rank |-> 0, step |-> "remove"]
  <2>1. /\ request[r].step = "unsent" /\ request' = [request EXCEPT ![r] = q]
        /\ overlapped' = (overlapped \/ \E o \in UnderWay : OwnerLeaves(q) \/ OwnerLeaves(request[o]))
    BY DEF RequestsHold
  <2>2. In # {} /\ q.step \notin {"unsent", "done"}
    OBVIOUS
  <2>3. ~OwnerLeaves(q)
    BY DEF OwnerLeaves
  <2>4. role[q.target] # Owner
    BY DEF GroupTypeOK, In
  <2>5. QED
    BY <2>1, <2>2, <2>3, <2>4, ArrivalKeepsOwner
<1>6. QED
  BY <1>1, <1>2, <1>3, <1>4, <1>5

LEMMA AskLeaveKeeps ==
  ASSUME GroupInv, NEW r \in Requests, NEW actor \in In, NEW p \in People, AskLeave(r, actor, p)
  PROVE  GroupInv'
<1> USE GroupAssumption DEF GroupInv, AskLeave, Arrives, MustNameHeir
<1>1. RequestsHold'
  BY DEF RequestsHold, RequestType, StepsOf, GroupTypeOK, In
<1>2. GroupTypeOK'
  BY <1>1 DEF GroupTypeOK
<1>3. LifeHolds'
  BY DEF LifeHolds
<1>4. EmptyIsSeen'
  BY DEF EmptyIsSeen, In
<1>5. OwnerStays'
  <2> DEFINE q == [op |-> "leave", actor |-> actor, target |-> actor, heir |-> p,
                   rank |-> role[actor], step |-> IF MustNameHeir(actor) THEN "transfer" ELSE "remove"]
  <2>1. /\ request[r].step = "unsent" /\ request' = [request EXCEPT ![r] = q]
        /\ overlapped' = (overlapped \/ \E o \in UnderWay : OwnerLeaves(q) \/ OwnerLeaves(request[o]))
    BY DEF RequestsHold
  <2>2. In # {} /\ q.step \notin {"unsent", "done"}
    OBVIOUS
  <2>3. OwnerLeaves(q) => HandsOver(q)
    BY DEF OwnerLeaves, HandsOver
  <2>4. ~OwnerLeaves(q) => role[q.target] # Owner
    BY DEF OwnerLeaves
  <2>5. QED
    BY <2>1, <2>2, <2>3, <2>4, ArrivalKeepsOwner
<1>6. QED
  BY <1>1, <1>2, <1>3, <1>4, <1>5

LEMMA AskReroleKeeps ==
  ASSUME GroupInv, NEW r \in Requests, NEW actor \in In, NEW p \in People, NEW rank \in Member..Owner, AskRerole(r, actor, p, rank)
  PROVE  GroupInv'
<1> USE GroupAssumption DEF GroupInv, AskRerole, Arrives
<1>1. RequestsHold'
  BY DEF RequestsHold, RequestType, StepsOf, Member, In
<1>2. GroupTypeOK'
  BY <1>1 DEF GroupTypeOK
<1>3. LifeHolds'
  BY DEF LifeHolds
<1>4. EmptyIsSeen'
  BY DEF EmptyIsSeen, In
<1>5. OwnerStays'
  <2> DEFINE q == [op |-> "rerole", actor |-> actor, target |-> p, heir |-> actor,
                   rank |-> rank, step |-> "update"]
  <2>1. /\ request[r].step = "unsent" /\ request' = [request EXCEPT ![r] = q]
        /\ overlapped' = (overlapped \/ \E o \in UnderWay : OwnerLeaves(q) \/ OwnerLeaves(request[o]))
    BY DEF RequestsHold
  <2>2. In # {} /\ q.step \notin {"unsent", "done"}
    OBVIOUS
  <2>3. ~OwnerLeaves(q)
    BY DEF OwnerLeaves
  <2>4. q.step # "remove"
    OBVIOUS
  <2>5. QED
    BY <2>1, <2>2, <2>3, <2>4, ArrivalKeepsOwner
<1>6. QED
  BY <1>1, <1>2, <1>3, <1>4, <1>5

LEMMA InsertKeeps ==
  ASSUME GroupInv, NEW r \in Requests, Insert(r)
  PROVE  GroupInv'
<1> USE GroupAssumption DEF GroupInv, Insert, Goes, Joins
<1>1. RequestsHold'
  BY DEF RequestsHold, RequestType, StepsOf, People
<1>2. GroupTypeOK'
  BY <1>1 DEF GroupTypeOK, RequestsHold, RequestType, Member, Owner
<1>3. LifeHolds'
  BY DEF LifeHolds, In, People, UnderWay
<1>4. EmptyIsSeen'
  BY DEF EmptyIsSeen, In
<1>5. OwnerStays'
  BY DEF OwnerStays, Secure, HandsOver, OwnerLeaves, LifeHolds, RequestsHold, StepsOf, Member,
     Admin, Owner, People, UnderWay
<1>6. QED
  BY <1>1, <1>2, <1>3, <1>4, <1>5

LEMMA TransferKeeps ==
  ASSUME GroupInv, NEW r \in Requests, Transfer(r)
  PROVE  GroupInv'
<1> USE GroupAssumption DEF GroupInv, Transfer, Goes, Reranks
<1>1. RequestsHold'
  BY DEF RequestsHold, RequestType, StepsOf, People, Member, In, UnderWay
<1>2. GroupTypeOK'
  BY <1>1 DEF GroupTypeOK, RequestsHold, RequestType
<1>3. LifeHolds'
  BY DEF LifeHolds, In, UnderWay
<1>4. EmptyIsSeen'
  BY DEF EmptyIsSeen, RequestsHold, RequestType, GroupTypeOK, In
<1>5. OwnerStays'
  BY DEF OwnerStays, Secure, HandsOver, OwnerLeaves, LifeHolds, RequestsHold, StepsOf,
     GroupTypeOK, In, Owner, People, UnderWay
<1>6. QED
  BY <1>1, <1>2, <1>3, <1>4, <1>5

LEMMA RemoveRowKeeps ==
  ASSUME GroupInv, NEW r \in Requests, RemoveRow(r)
  PROVE  GroupInv'
<1> USE GroupAssumption DEF GroupInv, RemoveRow, Goes
<1>1. RequestsHold'
  BY DEF RequestsHold, RequestType, StepsOf
<1>2. GroupTypeOK'
  BY <1>1 DEF GroupTypeOK, RequestsHold, RequestType, Owner, UnderWay
<1>3. LifeHolds'
  BY DEF LifeHolds, In, UnderWay
<1>4. EmptyIsSeen'
  BY DEF EmptyIsSeen, RequestsHold, In
<1>5. OwnerStays'
  BY DEF OwnerStays, Secure, HandsOver, OwnerLeaves, LifeHolds, RequestsHold, RequestType,
     StepsOf, GroupTypeOK, In, Member, Admin, Owner, People, UnderWay
<1>6. QED
  BY <1>1, <1>2, <1>3, <1>4, <1>5

LEMMA LookKeeps ==
  ASSUME GroupInv, NEW r \in Requests, Look(r)
  PROVE  GroupInv'
<1> USE GroupAssumption DEF GroupInv, Look, Goes, Abandoned
<1>1. RequestsHold'
  BY DEF RequestsHold, RequestType, StepsOf
<1>2. GroupTypeOK'
  BY <1>1 DEF GroupTypeOK
<1>3. LifeHolds'
  BY DEF LifeHolds, In, UnderWay
<1>4. EmptyIsSeen'
  BY DEF EmptyIsSeen, In
<1>5. OwnerStays'
  BY DEF OwnerStays, Secure, HandsOver, OwnerLeaves, RequestsHold, Member, Owner, People, UnderWay
<1>6. QED
  BY <1>1, <1>2, <1>3, <1>4, <1>5

LEMMA DeleteGroupKeeps ==
  ASSUME GroupInv, NEW r \in Requests, DeleteGroup(r)
  PROVE  GroupInv'
<1> USE GroupAssumption DEF GroupInv, DeleteGroup, Deletes, Goes
<1>1. RequestsHold'
  BY DEF RequestsHold, RequestType, StepsOf
<1>2. GroupTypeOK'
  BY <1>1 DEF GroupTypeOK, Owner
<1>3. LifeHolds'
  BY DEF LifeHolds, In, UnderWay
<1>4. EmptyIsSeen'
  BY DEF EmptyIsSeen
<1>5. OwnerStays'
  BY DEF OwnerStays
<1>6. QED
  BY <1>1, <1>2, <1>3, <1>4, <1>5

LEMMA ReroleKeeps ==
  ASSUME GroupInv, NEW r \in Requests, Rerole(r)
  PROVE  GroupInv'
<1> USE GroupAssumption DEF GroupInv, Rerole, Goes, Reranks
<1>1. RequestsHold'
  BY DEF RequestsHold, RequestType, StepsOf, People, In
<1>2. GroupTypeOK'
  BY <1>1 DEF GroupTypeOK, RequestsHold, RequestType
<1>3. LifeHolds'
  BY DEF LifeHolds, In, UnderWay
<1>4. EmptyIsSeen'
  BY DEF EmptyIsSeen, RequestsHold, RequestType, StepsOf, In, Member, People
<1>5. OwnerStays'
  <2> SUFFICES ASSUME group = "there", ~overlapped, ~demoted', crashes = 0
               PROVE  \E p \in People : Secure(p)'
    BY DEF OwnerStays
  <2>1. /\ request[r].op = "rerole" /\ request[r].rank \in Member..Owner
        /\ r \in UnderWay /\ request[r].target \in People
    BY DEF RequestsHold, RequestType, StepsOf, UnderWay
  <2>2. PICK p \in People : Secure(p)
    <3>1. ~\E o \in Requests : request[o].step \in {"row", "bare"}
      BY <2>1 DEF LifeHolds
    <3>2. ~\E o \in Requests : UnderWay = {o} /\ HandsOver(request[o])
      BY <2>1 DEF HandsOver, OwnerLeaves
    <3>3. QED
      BY <3>1, <3>2 DEF OwnerStays
  <2>3. role'[p] = Owner
    <3>1. ~(role[request[r].target] = Owner /\ request[r].rank < Owner)
      BY Zenon
    <3>2. role[p] = Owner /\ (request[r].target = p => request[r].rank = Owner)
      BY <2>1, <2>2, <3>1 DEF Secure, Owner
    <3>3. QED
      BY <2>1, <3>2
  <2>4. \A o \in UnderWay' : o \in UnderWay /\ request'[o] = request[o]
    BY <2>1 DEF UnderWay
  <2>5. QED
    BY <2>2, <2>3, <2>4 DEF Secure
<1>6. QED
  BY <1>1, <1>2, <1>3, <1>4, <1>5

LEMMA EndsKeeps ==
  ASSUME GroupInv, NEW r \in Requests, Ends(r)
  PROVE  GroupInv'
<1> USE GroupAssumption DEF GroupInv, Ends, Goes
<1>1. RequestsHold'
  BY DEF RequestsHold, RequestType, StepsOf, In, UnderWay
<1>2. GroupTypeOK'
  BY <1>1 DEF GroupTypeOK
<1>3. LifeHolds'
  BY DEF LifeHolds, RequestsHold, In
<1>4. EmptyIsSeen'
  BY DEF EmptyIsSeen, GroupTypeOK
<1>5. OwnerStays'
  BY DEF OwnerStays, GroupTypeOK
<1>6. QED
  BY <1>1, <1>2, <1>3, <1>4, <1>5

LEMMA GroupKept == ASSUME GroupInv, [GroupNext]_groupVars PROVE GroupInv'
<1>1. CASE UNCHANGED groupVars
  BY <1>1 DEF groupVars, GroupInv, GroupTypeOK, RequestsHold, LifeHolds, EmptyIsSeen, OwnerStays,
     Secure, HandsOver, In, UnderWay
<1>2. CASE GroupNext
  BY <1>2, CreateGroupKeeps, AddOwnerKeeps, AddInitialKeeps, UndoGroupKeeps, AskAddKeeps,
     AskRemoveKeeps, AskLeaveKeeps, AskReroleKeeps, InsertKeeps, TransferKeeps, RemoveRowKeeps,
     LookKeeps, DeleteGroupKeeps, ReroleKeeps, EndsKeeps DEF GroupNext
<1>3. QED
  BY <1>1, <1>2

LEMMA GroupStarts == GroupInit => GroupInv
<1> SUFFICES ASSUME GroupInit PROVE GroupInv
  OBVIOUS
<1> USE GroupAssumption DEF GroupInit, NoRequest
<1>1. RequestsHold
  BY DEF RequestsHold, RequestType, StepsOf, People, Owner
<1>2. GroupTypeOK
  <2>1. \A r \in Requests : request[r].op = "none" /\ request[r].step = "unsent"
    OBVIOUS
  <2>2. role \in [People -> 0..Owner] /\ crashes \in 0..MaxCrashes
    BY DEF Owner
  <2>3. QED
    BY <2>1, <2>2 DEF GroupTypeOK
<1>3. LifeHolds /\ EmptyIsSeen /\ OwnerStays
  BY DEF LifeHolds, EmptyIsSeen, OwnerStays, In, UnderWay
<1>4. QED
  BY <1>1, <1>2, <1>3 DEF GroupInv

LEMMA GroupEnds == GroupInv => GroupIsHeld
  BY GroupAssumption DEF GroupInv, GroupTypeOK, EmptyIsSeen, OwnerStays, Secure, GroupIsHeld,
     AtRest, UnderWay

LEMMA GroupAlways == GroupSpec => [](GroupTypeOK /\ GroupIsHeld)
<1>1. GroupInv => GroupTypeOK /\ GroupIsHeld
  BY GroupEnds DEF GroupInv
<1>2. QED
  BY <1>1, GroupStarts, GroupKept, PTL DEF GroupSpec

-----------------------------------------------------------------------------
(***************************************************************************)
(* Private chats.  Each call makes a candidate chat and tries to reserve   *)
(* the pair with it; the invariant says what became of the candidate at    *)
(* each step, and that everyone who is in a chat is in the pair's.         *)
(***************************************************************************)

Winning == {"first", "second", "failing", "undo"}

\* Where a call is tells what became of its candidate.
CandidateHolds ==
    \A c \in Callers :
        /\ call[c] \in {"unsent", "candidate", "adopt"} => c \notin chats
        /\ call[c] \in {"unsent", "candidate", "adopt", "reserve", "discard"} =>
              pair # c /\ inside[c] = {} /\ c \notin leaving
        /\ call[c] \in {"reserve", "first"} => c \in chats
        /\ call[c] = "first" => inside[c] = {} /\ c \notin leaving
        /\ call[c] \in Winning /\ c \in chats => pair = c
        /\ call[c] = "done" /\ breaks = 0 /\ c \in chats => pair = c

\* Who is in a chat is in the pair's.
PairHolds ==
    /\ pair # None => pair \in chats
    /\ \A c \in Callers : inside[c] # {} => c \in chats /\ pair = c

\* While nobody leaves.
StayHolds ==
    leaves = 0 =>
        /\ leaving = {}
        /\ \A c \in Callers :
              /\ call[c] = "second" => c \in chats /\ inside[c] = {First}
              /\ call[c] = "failing" => c \in chats
              /\ call[c] = "done" /\ breaks = 0 /\ pair = c => inside[c] = Two
        /\ strangers = {} =>
              \A c \in Callers : /\ call[c] \notin {"failing", "undo"}
                                 /\ got[c] # None => got[c] = pair

PairInv == PairTypeOK /\ CandidateHolds /\ PairHolds /\ StayHolds

LEMMA LookupKeeps ==
  ASSUME PairInv, NEW c \in Callers, Lookup(c), UNCHANGED strangers
  PROVE  PairInv'
<1> USE PairAssumption DEF PairInv, Lookup, Returns, PairMoves
<1>1. PairTypeOK'
  BY DEF PairTypeOK
<1>2. CandidateHolds'
  BY DEF PairTypeOK, CandidateHolds
<1>3. PairHolds'
  BY DEF PairHolds
<1>4. StayHolds'
  BY DEF PairTypeOK, CandidateHolds, StayHolds
<1>5. QED
  BY <1>1, <1>2, <1>3, <1>4

LEMMA CreateCandidateKeeps ==
  ASSUME PairInv, NEW c \in Callers, CreateCandidate(c), UNCHANGED strangers
  PROVE  PairInv'
<1> USE PairAssumption DEF PairInv, CreateCandidate, PairMoves
<1>1. PairTypeOK'
  BY DEF PairTypeOK
<1>2. CandidateHolds'
  BY DEF PairTypeOK, CandidateHolds, Winning
<1>3. PairHolds'
  BY DEF PairHolds
<1>4. StayHolds'
  BY DEF StayHolds
<1>5. QED
  BY <1>1, <1>2, <1>3, <1>4

LEMMA ReserveKeeps ==
  ASSUME PairInv, NEW c \in Callers, Reserve(c), UNCHANGED strangers
  PROVE  PairInv'
<1> USE PairAssumption DEF PairInv, Reserve, PairMoves, Wins
<1>1. PairTypeOK'
  BY DEF PairTypeOK
<1>2. CandidateHolds'
  BY DEF PairTypeOK, CandidateHolds, Winning
<1>3. PairHolds'
  BY DEF CandidateHolds, PairHolds
<1>4. StayHolds'
  BY DEF StayHolds
<1>5. QED
  BY <1>1, <1>2, <1>3, <1>4

LEMMA DiscardKeeps ==
  ASSUME PairInv, NEW c \in Callers, Discard(c), UNCHANGED strangers
  PROVE  PairInv'
<1> USE PairAssumption DEF PairInv, Discard, Drops, PairMoves
<1>1. PairTypeOK'
  BY DEF PairTypeOK
<1>2. CandidateHolds'
  BY DEF CandidateHolds
<1>3. PairHolds'
  BY DEF PairTypeOK, PairHolds
<1>4. StayHolds'
  BY DEF CandidateHolds, StayHolds
<1>5. QED
  BY <1>1, <1>2, <1>3, <1>4

LEMMA AdoptKeeps ==
  ASSUME PairInv, NEW c \in Callers, Adopt(c), UNCHANGED strangers
  PROVE  PairInv'
<1> USE PairAssumption DEF PairInv, Adopt, Returns, PairMoves
<1>1. PairTypeOK'
  BY DEF PairTypeOK
<1>2. CandidateHolds'
  BY DEF CandidateHolds
<1>3. PairHolds'
  BY DEF PairHolds
<1>4. StayHolds'
  BY DEF CandidateHolds, StayHolds
<1>5. QED
  BY <1>1, <1>2, <1>3, <1>4

LEMMA AddFirstKeeps ==
  ASSUME PairInv, NEW c \in Callers, AddFirst(c), UNCHANGED strangers
  PROVE  PairInv'
<1> USE PairAssumption DEF PairInv, AddFirst, Adds, Fits, PairMoves
<1>1. PairTypeOK'
  BY DEF PairTypeOK, Two
<1>2. CandidateHolds'
  BY DEF PairTypeOK, CandidateHolds, Winning
<1>3. PairHolds'
  BY DEF CandidateHolds, PairHolds, Winning
<1>4. StayHolds'
  BY DEF PairTypeOK, CandidateHolds, StayHolds
<1>5. QED
  BY <1>1, <1>2, <1>3, <1>4

LEMMA AddSecondKeeps ==
  ASSUME PairInv, NEW c \in Callers, AddSecond(c), UNCHANGED strangers
  PROVE  PairInv'
<1> USE PairAssumption DEF PairInv, AddSecond, Adds, Fits, PairMoves, Returns
<1>1. PairTypeOK'
  BY DEF PairTypeOK, Two
<1>2. CandidateHolds'
  BY DEF PairTypeOK, CandidateHolds, Winning
<1>3. PairHolds'
  BY DEF CandidateHolds, PairHolds, Winning
<1>4. StayHolds'
  BY DEF PairTypeOK, PairHolds, StayHolds, Two
<1>5. QED
  BY <1>1, <1>2, <1>3, <1>4

LEMMA UndoKeeps ==
  ASSUME PairInv, NEW c \in Callers, Undo(c), UNCHANGED strangers
  PROVE  PairInv'
<1> USE PairAssumption DEF PairInv, Undo, Drops, PairMoves
<1>1. PairTypeOK'
  BY DEF PairTypeOK
<1>2. CandidateHolds'
  BY DEF CandidateHolds
<1>3. PairHolds'
  BY DEF PairTypeOK, PairHolds
<1>4. StayHolds'
  BY DEF StayHolds
<1>5. QED
  BY <1>1, <1>2, <1>3, <1>4

LEMMA LookPrivateKeeps ==
  ASSUME PairInv, NEW c \in Callers, LookPrivate(c), UNCHANGED strangers
  PROVE  PairInv'
<1> USE PairAssumption DEF PairInv, LookPrivate, Drops
<1>1. PairTypeOK'
  BY DEF PairTypeOK
<1>2. CandidateHolds'
  BY DEF PairTypeOK, CandidateHolds
<1>3. PairHolds'
  BY DEF PairTypeOK, PairHolds
<1>4. StayHolds'
  BY DEF StayHolds
<1>5. QED
  BY <1>1, <1>2, <1>3, <1>4

LEMMA BreaksKeeps ==
  ASSUME PairInv, NEW c \in Callers, Breaks(c), UNCHANGED strangers
  PROVE  PairInv'
<1> USE PairAssumption DEF PairInv, Breaks, PairMoves
<1>1. PairTypeOK'
  BY DEF PairTypeOK
<1>2. CandidateHolds'
  BY DEF PairTypeOK, CandidateHolds, Winning
<1>3. PairHolds'
  BY DEF PairHolds
<1>4. StayHolds'
  BY DEF PairTypeOK, StayHolds
<1>5. QED
  BY <1>1, <1>2, <1>3, <1>4

LEMMA LeavePrivateKeeps ==
  ASSUME PairInv, NEW c \in Callers, NEW p \in Two, LeavePrivate(c, p), UNCHANGED strangers
  PROVE  PairInv'
<1> USE PairAssumption DEF PairInv, LeavePrivate
<1>1. PairTypeOK'
  BY DEF PairTypeOK
<1>2. CandidateHolds'
  BY DEF CandidateHolds
<1>3. PairHolds'
  BY DEF PairHolds
<1>4. StayHolds'
  BY DEF PairTypeOK, StayHolds
<1>5. QED
  BY <1>1, <1>2, <1>3, <1>4

LEMMA PairKept == ASSUME PairInv, [PairNext]_pairVars PROVE PairInv'
<1>1. CASE UNCHANGED pairVars
  BY <1>1 DEF pairVars, PairInv, PairTypeOK, CandidateHolds, PairHolds, StayHolds
<1>2. CASE PairNext
  BY <1>2, LookupKeeps, CreateCandidateKeeps, ReserveKeeps, DiscardKeeps, AdoptKeeps,
     AddFirstKeeps, AddSecondKeeps, UndoKeeps, LookPrivateKeeps, BreaksKeeps, LeavePrivateKeeps
     DEF PairNext
<1>3. QED
  BY <1>1, <1>2

LEMMA PairStarts == PairInit => PairInv
  BY PairAssumption DEF PairInit, PairInv, PairTypeOK, CandidateHolds, PairHolds, StayHolds

LEMMA PairEnds == PairInv => PairIsOne
  BY PairAssumption DEF PairInv, PairTypeOK, CandidateHolds, PairHolds, StayHolds, PairIsOne

LEMMA PairAlways == PairSpec => [](PairTypeOK /\ PairIsOne)
<1>1. PairInv => PairTypeOK /\ PairIsOne
  BY PairEnds DEF PairInv
<1>2. QED
  BY <1>1, PairStarts, PairKept, PTL DEF PairSpec

\* A group is there with its owner or gone with its last member, and a pair of
\* users has one chat, in whatever order requests are interleaved.
THEOREM ChatsHoldAlways == GroupSpec /\ PairSpec => []ChatsHold
<1>1. (GroupTypeOK /\ GroupIsHeld) /\ (PairTypeOK /\ PairIsOne) => ChatsHold
  BY DEF ChatsHold
<1>2. QED
  BY <1>1, GroupAlways, PairAlways, PTL

-----------------------------------------------------------------------------
(***************************************************************************)
(* Partitions.  A migration detaches DEFAULT only between two steps, and   *)
(* creates the partitions of every row in it, because rows are dated in    *)
(* the order they arrive.                                                  *)
(***************************************************************************)

\* Where rows are, and what the migration counted.
RowsHold ==
    /\ default \cap (placed \cup gone) = {}
    /\ \A r \in placed : period[r] \in dated
    /\ \A r \in default : period[r] <= today
    /\ moved <= Cardinality(placed \cup gone)

\* No migration was interrupted or refused, and no partition dropped under one.
Undisturbed == stops = 0 /\ ~pruned /\ ~stranded

\* DEFAULT is detached between these two steps of a migration only, and the
\* partitions it creates are those of all rows in DEFAULT.
SpanHolds ==
    /\ migrating \in {"detached", "created"} => ~attached
    /\ span.hi <= today
    /\ Undisturbed =>
        /\ ~attached => migrating \in {"detached", "created"}
        /\ migrating \in {"spanned", "counted", "detached"} =>
              /\ span.lo <= span.hi /\ today <= span.hi + 1
              /\ \A r \in default : span.lo <= period[r]
        /\ migrating = "created" => \A r \in default : period[r] \in dated
        /\ \A x \in refused : x[2]

\* Partitions ahead are created together with today's; while none was late,
\* DEFAULT has rows in the first period only, before any partition.
AheadHolds ==
    /\ \A p \in dated, q \in Periods : today <= q /\ q <= p => q \in dated
    /\ ~late => today = 0 \/ today \in dated
    /\ Undisturbed /\ ~late /\ migrating \notin {"detached", "created"} /\ default # {} =>
          today = 0 /\ 0 \notin dated

PartInv == PartTypeOK /\ RowsHold /\ SpanHolds /\ AheadHolds

LEMMA LeastPeriod ==
  ASSUME NEW S, S \subseteq Nat, S # {}
  PROVE  /\ (CHOOSE p \in S : \A q \in S : p <= q) \in S
         /\ \A q \in S : (CHOOSE p \in S : \A x \in S : p <= x) <= q
<1>1. PICK m \in S : \A y \in S : <<y, m>> \notin OpToRel(<, Nat)
  BY WFMin, NatLessThanWellFounded
<1>2. \A y \in S : m \in Nat /\ y \in Nat /\ ~(y < m)
  BY <1>1, Zenon DEF OpToRel
<1>3. \E p \in S : \A y \in S : p <= y
  BY <1>2
<1>4. QED
  BY <1>3

LEMMA RowCounts ==
  ASSUME NEW T, T \subseteq PartRows, NEW S, S \subseteq T
  PROVE  /\ IsFiniteSet(S) /\ Cardinality(S) \in Nat /\ Cardinality(T) \in Nat
         /\ Cardinality(S) <= Cardinality(T) /\ Cardinality(T) <= Cardinality(PartRows)
         /\ Cardinality(PartRows) \in Nat
<1>1. IsFiniteSet(PartRows)
  BY PartitionAssumption
<1>2. IsFiniteSet(T) /\ Cardinality(T) <= Cardinality(PartRows)
  BY <1>1, FS_Subset
<1>3. IsFiniteSet(S) /\ Cardinality(S) <= Cardinality(T)
  BY <1>2, FS_Subset
<1>4. QED
  BY <1>1, <1>2, <1>3, FS_CardinalityType

LEMMA InsertRowKeeps ==
  ASSUME PartInv, NEW r \in PartRows, InsertRow(r)
  PROVE  PartInv'
<1> USE PartitionAssumption DEF PartInv, InsertRow, WrittenRows
<1>0. r \notin default /\ r \notin placed /\ r \notin gone
  OBVIOUS
<1>a. /\ today \in Nat /\ period' = [period EXCEPT ![r] = today]
      /\ period' \in [PartRows -> 0..LastPeriod] /\ period'[r] = today
      /\ \A x \in PartRows : x # r => period'[x] = period[x]
  BY DEF PartTypeOK
<1>b. /\ UNCHANGED <<today, dated, attached, migrating, span, before, moved, stops, late, gone, pruned, stranded>>
      /\ \/ today \in dated /\ placed' = placed \cup {r} /\ UNCHANGED <<default, refused>>
         \/ /\ today \notin dated /\ attached
            /\ default' = default \cup {r} /\ UNCHANGED <<placed, refused>>
         \/ /\ today \notin dated /\ ~attached
            /\ refused' = refused \cup {<<r, migrating # "no">>}
            /\ UNCHANGED <<default, placed>>
  OBVIOUS
<1>c. /\ default' \subseteq default \cup {r} /\ placed' \subseteq placed \cup {r} /\ gone' = gone
      /\ placed \subseteq placed' /\ default' \cap placed' = default \cap placed
      /\ default \subseteq PartRows /\ placed \subseteq PartRows /\ gone \subseteq PartRows
      /\ r \in placed' => today \in dated
      /\ r \in default' => attached /\ today \notin dated
  BY <1>0, <1>b DEF PartTypeOK
<1>1. PartTypeOK'
  <2>1. refused' \subseteq PartRows \X BOOLEAN
    <3>1. <<r, migrating # "no">> \in PartRows \X BOOLEAN
      OBVIOUS
    <3>2. refused' = refused \/ refused' = refused \cup {<<r, migrating # "no">>}
      BY <1>b
    <3>3. refused \subseteq PartRows \X BOOLEAN
      BY DEF PartTypeOK
    <3>4. QED
      BY <3>1, <3>2, <3>3, Zenon
  <2>2. QED
    BY <2>1, <1>a, <1>b, <1>c DEF PartTypeOK
<1>2. RowsHold'
  <2>1. default' \cap (placed' \cup gone') = {}
    BY <1>0, <1>b, <1>c DEF RowsHold
  <2>2. \A x \in placed' : period'[x] \in dated'
    BY <1>a, <1>b, <1>c DEF RowsHold
  <2>3. \A x \in default' : period'[x] <= today'
    BY <1>a, <1>b, <1>c DEF RowsHold
  <2>4. moved' <= Cardinality(placed' \cup gone')
    <3>1. placed \cup gone \subseteq placed' \cup gone' /\ placed' \cup gone' \subseteq PartRows
      BY <1>b, <1>c
    <3>2. Cardinality(placed \cup gone) <= Cardinality(placed' \cup gone')
          /\ Cardinality(placed \cup gone) \in Nat /\ Cardinality(placed' \cup gone') \in Nat
      BY <3>1, RowCounts
    <3>3. moved <= Cardinality(placed \cup gone) /\ moved' = moved /\ moved \in Nat
      <4>1. moved \in 0..Cardinality(PartRows) /\ moved' = moved
        BY <1>b DEF PartTypeOK
      <4>2. QED
        BY <4>1 DEF RowsHold
    <3>4. QED
      BY <3>2, <3>3
  <2>5. QED
    BY <2>1, <2>2, <2>3, <2>4 DEF RowsHold
<1>3. SpanHolds'
  <2>1. \A x \in default : period'[x] = period[x] /\ period[x] \in Nat
    BY <1>0, <1>a, <1>c
  <2>2. ASSUME Undisturbed, migrating \in {"spanned", "counted", "detached"}
        PROVE  \A x \in default' : span.lo <= period'[x]
    <3>1. span.lo <= span.hi /\ span.hi <= today /\ \A x \in default : span.lo <= period[x]
      BY <2>2 DEF SpanHolds
    <3>2. span.lo \in Nat /\ span.hi \in Nat
      BY DEF PartTypeOK, Periods
    <3>3. span.lo <= today
      BY <3>1, <3>2, <1>a
    <3>4. QED
      BY <3>1, <3>3, <2>1, <1>a, <1>c
  <2>3. ASSUME Undisturbed, migrating = "created"
        PROVE  \A x \in default' : period'[x] \in dated
    BY <2>3, <2>1, <1>a, <1>b, <1>c DEF SpanHolds
  <2>4. Undisturbed => \A x \in refused' : x[2]
    <3>1. SUFFICES ASSUME Undisturbed, NEW x \in refused' PROVE x[2]
      OBVIOUS
    <3>2. CASE x \in refused
      BY <3>1, <3>2 DEF SpanHolds
    <3>3. CASE x \notin refused
      <4>1. x = <<r, migrating # "no">> /\ ~attached
        BY <3>1, <3>3, <1>b
      <4>2. migrating # "no"
        BY <3>1, <4>1 DEF SpanHolds
      <4>3. QED
        BY <4>1, <4>2
    <3>4. QED
      BY <3>2, <3>3
  <2>5. QED
    BY <2>2, <2>3, <2>4, <1>b DEF SpanHolds, Undisturbed
<1>4. AheadHolds'
  BY DEF AheadHolds, Undisturbed
<1>5. QED
  BY <1>1, <1>2, <1>3, <1>4

LEMMA NextPeriodKeeps ==
  ASSUME PartInv, NextPeriod
  PROVE  PartInv'
<1> USE PartitionAssumption DEF PartInv, NextPeriod
<1>1. PartTypeOK'
  BY DEF PartTypeOK
<1>2. RowsHold'
  BY DEF RowsHold, PartTypeOK
<1>3. SpanHolds'
  BY DEF SpanHolds, Undisturbed, PartTypeOK, Periods
<1>4. AheadHolds'
  <2>1. today \in Nat /\ dated \subseteq Nat /\ late \in BOOLEAN
    BY DEF PartTypeOK, Periods
  <2>2. late' <=> late \/ today + 1 \notin dated
    OBVIOUS
  <2>3. \A p \in dated', q \in Periods' : today' <= q /\ q <= p => q \in dated'
    BY <2>1 DEF AheadHolds, Periods
  <2>4. today + 1 \in dated /\ 0 \notin dated => today # 0
    BY <2>1 DEF AheadHolds, Periods
  <2>5. QED
    BY <2>1, <2>2, <2>3, <2>4 DEF AheadHolds, Undisturbed
<1>5. QED
  BY <1>1, <1>2, <1>3, <1>4

LEMMA EnsureKeeps ==
  ASSUME PartInv, Ensure
  PROVE  PartInv'
<1> USE PartitionAssumption DEF PartInv, Ensure, WantedPartitions, CanCreate, InDefaultAt
<1>1. PartTypeOK'
  BY DEF PartTypeOK, Periods
<1>2. RowsHold'
  BY DEF RowsHold
<1>3. SpanHolds'
  BY DEF SpanHolds, Undisturbed
<1>4. AheadHolds'
  BY DEF AheadHolds, Undisturbed, SpanHolds, RowsHold, PartTypeOK, Periods
<1>5. QED
  BY <1>1, <1>2, <1>3, <1>4

LEMMA PruneKeeps ==
  ASSUME PartInv, Prune
  PROVE  PartInv'
<1> USE PartitionAssumption DEF PartInv, Prune
<1>1. PartTypeOK'
  BY DEF PartTypeOK
<1>2. RowsHold'
  BY DEF RowsHold
<1>3. SpanHolds'
  BY DEF SpanHolds, Undisturbed
<1>4. AheadHolds'
  BY DEF AheadHolds, Undisturbed, PartTypeOK, Periods
<1>5. QED
  BY <1>1, <1>2, <1>3, <1>4

LEMMA ReattachKeeps ==
  ASSUME PartInv, Reattach
  PROVE  PartInv'
<1> USE PartitionAssumption DEF PartInv, Reattach, CanAttach, StepTo
<1>1. PartTypeOK'
  BY DEF PartTypeOK
<1>2. RowsHold'
  BY DEF RowsHold
<1>3. SpanHolds'
  BY DEF SpanHolds, Undisturbed
<1>4. AheadHolds'
  BY DEF AheadHolds, Undisturbed
<1>5. QED
  BY <1>1, <1>2, <1>3, <1>4

LEMMA ReadSpanKeeps ==
  ASSUME PartInv, ReadSpan
  PROVE  PartInv'
<1> USE PartitionAssumption DEF PartInv, ReadSpan, Fails, StepTo
<1>a. /\ InDefaultAt \subseteq 0..LastPeriod /\ InDefaultAt \subseteq Nat
      /\ default # {} => InDefaultAt # {}
      /\ \A r \in default : period[r] \in InDefaultAt
  BY DEF InDefaultAt, PartTypeOK
<1>b. default # {} =>
        /\ span' = [lo |-> CHOOSE p \in InDefaultAt : \A q \in InDefaultAt : p <= q, hi |-> today]
        /\ (CHOOSE p \in InDefaultAt : \A q \in InDefaultAt : p <= q) \in InDefaultAt
        /\ \A q \in InDefaultAt : (CHOOSE p \in InDefaultAt : \A x \in InDefaultAt : p <= x) <= q
  BY <1>a, LeastPeriod
<1>c. default # {} => /\ span' \in [lo : Periods, hi : Periods] /\ span'.hi = today
                      /\ span'.lo <= span'.hi /\ \A r \in default : span'.lo <= period[r]
  <2> SUFFICES ASSUME default # {}
               PROVE  /\ span' \in [lo : Periods, hi : Periods] /\ span'.hi = today
                      /\ span'.lo <= span'.hi /\ \A r \in default : span'.lo <= period[r]
    OBVIOUS
  <2> DEFINE low == CHOOSE p \in InDefaultAt : \A q \in InDefaultAt : p <= q
  <2>1. span' = [lo |-> low, hi |-> today] /\ low \in InDefaultAt /\ \A q \in InDefaultAt : low <= q
    BY <1>b
  <2>2. low <= today
    BY <2>1 DEF InDefaultAt, RowsHold
  <2> HIDE DEF low
  <2>3. low \in Periods /\ today \in Periods
    BY <1>a, <2>1 DEF PartTypeOK, Periods
  <2>4. QED
    BY <1>a, <2>1, <2>2, <2>3
<1>1. PartTypeOK'
  BY <1>c DEF PartTypeOK
<1>2. RowsHold'
  BY DEF RowsHold
<1>3. SpanHolds'
  <2>1. today \in Nat /\ today <= today /\ today <= today + 1
    BY DEF PartTypeOK
  <2>2. QED
    BY <1>c, <2>1 DEF SpanHolds, Undisturbed
<1>4. AheadHolds'
  BY DEF AheadHolds, Undisturbed
<1>5. QED
  BY <1>1, <1>2, <1>3, <1>4

LEMMA CountKeeps ==
  ASSUME PartInv, Count
  PROVE  PartInv'
<1> USE PartitionAssumption DEF PartInv, Count, StepTo
<1>0. /\ Cardinality(default) \in 0..Cardinality(PartRows)
      /\ 0 \in 0..Cardinality(PartRows) /\ 0 <= Cardinality(placed \cup gone)
  <2>1. default \subseteq PartRows /\ placed \cup gone \subseteq PartRows
    BY DEF PartTypeOK
  <2>2. QED
    BY <2>1, RowCounts
<1>1. PartTypeOK'
  BY <1>0 DEF PartTypeOK
<1>2. RowsHold'
  BY <1>0 DEF RowsHold
<1>3. SpanHolds'
  BY DEF SpanHolds, Undisturbed
<1>4. AheadHolds'
  BY DEF AheadHolds, Undisturbed
<1>5. QED
  BY <1>1, <1>2, <1>3, <1>4

LEMMA DetachKeeps ==
  ASSUME PartInv, Detach
  PROVE  PartInv'
<1> USE PartitionAssumption DEF PartInv, Detach, StepTo
<1>1. PartTypeOK'
  BY DEF PartTypeOK
<1>2. RowsHold'
  BY DEF RowsHold
<1>3. SpanHolds'
  BY DEF SpanHolds, Undisturbed
<1>4. AheadHolds'
  BY DEF AheadHolds
<1>5. QED
  BY <1>1, <1>2, <1>3, <1>4

LEMMA CreateHistoryKeeps ==
  ASSUME PartInv, CreateHistory
  PROVE  PartInv'
<1> USE PartitionAssumption DEF PartInv, CreateHistory, PartitionsBetween, WantedPartitions, StepTo
<1>1. PartTypeOK'
  <2>1. span.lo \in 0..LastPeriod + Precreate /\ span.hi \in 0..LastPeriod + Precreate /\ today \in 0..LastPeriod
    BY DEF PartTypeOK, Periods
  <2>2. span.lo..span.hi \subseteq 0..LastPeriod + Precreate /\ today..today + Precreate \subseteq 0..LastPeriod + Precreate
    BY <2>1
  <2>3. dated' \subseteq Periods
    BY <2>2 DEF PartTypeOK, Periods
  <2>4. QED
    BY <2>3 DEF PartTypeOK
<1>2. RowsHold'
  BY DEF RowsHold
<1>3. SpanHolds'
  BY DEF SpanHolds, Undisturbed, RowsHold, PartTypeOK, Periods
<1>4. AheadHolds'
  <2>1. span.lo \in Nat /\ span.hi \in Nat /\ today \in Nat /\ span.hi <= today
    BY DEF PartTypeOK, Periods, SpanHolds
  <2>2. ASSUME NEW p \in dated', NEW q \in Periods, today <= q, q <= p PROVE q \in dated'
    <3>1. CASE p \in dated
      BY <2>2, <3>1 DEF AheadHolds
    <3>2. CASE p \in span.lo..span.hi \/ p \in today..today + Precreate
      BY <2>1, <2>2, <3>2 DEF Periods
    <3>3. QED
      BY <2>2, <3>1, <3>2
  <2>3. today \in dated' /\ migrating' = "created"
    BY <2>1
  <2>4. QED
    BY <2>2, <2>3 DEF AheadHolds
<1>5. QED
  BY <1>1, <1>2, <1>3, <1>4

LEMMA DrainKeeps ==
  ASSUME PartInv, Drain
  PROVE  PartInv'
<1> USE PartitionAssumption DEF PartInv
<1> SUFFICES PartInv'
  OBVIOUS
<1>u. UNCHANGED <<today, dated, attached, period, span, before, stops, refused, late, gone, pruned, stranded>> /\ migrating = "created"
  BY DEF Drain
<1>0. CASE /\ UNCHANGED <<default, placed, moved>> /\ migrating' = "no"
           /\ \E r \in default : period[r] \notin dated
  BY <1>0, <1>u DEF PartTypeOK, RowsHold, SpanHolds, AheadHolds, Undisturbed
<1>a. CASE \E b \in SUBSET default :
             /\ b # {} /\ \A r \in b : period[r] \in dated
             /\ default' = default \ b /\ placed' = placed \cup b
             /\ moved' = moved + Cardinality(b) /\ UNCHANGED migrating
  <2> PICK b \in SUBSET default :
             /\ b # {} /\ \A r \in b : period[r] \in dated
             /\ default' = default \ b /\ placed' = placed \cup b
             /\ moved' = moved + Cardinality(b) /\ UNCHANGED migrating
    BY <1>a
  <2>1. /\ default \subseteq PartRows /\ placed \cup gone \subseteq PartRows
        /\ placed' \cup gone' = (placed \cup gone) \cup b
        /\ (placed \cup gone) \cup b \subseteq PartRows /\ b \subseteq PartRows
        /\ (placed \cup gone) \cap b = {}
    BY <1>u DEF PartTypeOK, RowsHold
  <2>2. /\ IsFiniteSet(b) /\ IsFiniteSet(placed \cup gone) /\ Cardinality(b) \in Nat
        /\ Cardinality(placed \cup gone) \in Nat /\ Cardinality(PartRows) \in Nat
        /\ Cardinality((placed \cup gone) \cup b) <= Cardinality(PartRows)
    BY <2>1, RowCounts
  <2>3. Cardinality((placed \cup gone) \cup b) = Cardinality(placed \cup gone) + Cardinality(b)
    <3>1. /\ Cardinality((placed \cup gone) \cup b)
             = Cardinality(placed \cup gone) + Cardinality(b) - Cardinality((placed \cup gone) \cap b)
      BY <2>2, FS_Union
    <3>2. Cardinality((placed \cup gone) \cap b) = 0
      BY <2>1, FS_EmptySet
    <3>3. QED
      BY <3>1, <3>2, <2>2
  <2>4. moved \in Nat /\ moved <= Cardinality(placed \cup gone)
    <3>1. moved \in 0..Cardinality(PartRows)
      BY DEF PartTypeOK
    <3>2. QED
      BY <3>1 DEF RowsHold
  <2>5. moved' \in 0..Cardinality(PartRows) /\ moved' <= Cardinality(placed' \cup gone')
    BY <2>1, <2>2, <2>3, <2>4
  <2>6. PartTypeOK'
    BY <2>1, <2>5, <1>u DEF PartTypeOK
  <2>7. RowsHold'
    BY <2>1, <2>5, <1>u DEF RowsHold
  <2>8. SpanHolds' /\ AheadHolds'
    BY <1>u DEF SpanHolds, AheadHolds, Undisturbed
  <2>9. QED
    BY <2>6, <2>7, <2>8
<1>1. PICK b \in SUBSET default :
         /\ b # {}
         /\ IF Routed(b) # {}
            THEN /\ default' = default \ b /\ placed' = placed \cup Routed(b)
                 /\ moved' = moved + Cardinality(b)
                 /\ UNCHANGED migrating
            ELSE migrating' = "no" /\ UNCHANGED <<default, placed, moved>>
  BY DEF Drain, Batch, Fails
<1>2. CASE Routed(b) # {}
  <2>1. \A r \in b : period[r] \in dated
    BY <1>2 DEF Routed
  <2>2. Routed(b) = b
    BY <2>1 DEF Routed
  <2>3. QED
    BY <1>1, <1>2, <1>a, <2>1, <2>2
<1>3. CASE Routed(b) = {}
  <2>1. \E r \in b : period[r] \notin dated
    BY <1>1, <1>3 DEF Routed
  <2>2. QED
    BY <1>1, <1>3, <1>0, <2>1
<1>4. QED
  BY <1>2, <1>3

LEMMA AttachKeeps ==
  ASSUME PartInv, Attach
  PROVE  PartInv'
<1> USE PartitionAssumption DEF PartInv, Attach, StepTo
<1>1. PartTypeOK'
  BY DEF PartTypeOK
<1>2. RowsHold'
  BY DEF RowsHold
<1>3. SpanHolds'
  BY DEF SpanHolds, Undisturbed
<1>4. AheadHolds'
  BY DEF AheadHolds
<1>5. QED
  BY <1>1, <1>2, <1>3, <1>4

LEMMA ReportKeeps ==
  ASSUME PartInv, Report
  PROVE  PartInv'
<1> USE PartitionAssumption DEF PartInv, Report, Fails
<1>1. PartTypeOK'
  BY DEF PartTypeOK
<1>2. RowsHold'
  BY DEF RowsHold
<1>3. SpanHolds'
  BY DEF SpanHolds, Undisturbed
<1>4. AheadHolds'
  BY DEF AheadHolds, Undisturbed
<1>5. QED
  BY <1>1, <1>2, <1>3, <1>4

LEMMA InterruptKeeps ==
  ASSUME PartInv, Interrupt
  PROVE  PartInv'
<1> USE PartitionAssumption DEF PartInv, Interrupt, Fails
<1>1. PartTypeOK'
  BY DEF PartTypeOK
<1>2. RowsHold'
  BY DEF RowsHold
<1>3. SpanHolds'
  BY DEF SpanHolds, Undisturbed, PartTypeOK
<1>4. AheadHolds'
  BY DEF AheadHolds, Undisturbed, PartTypeOK
<1>5. QED
  BY <1>1, <1>2, <1>3, <1>4

LEMMA CreateRefusedKeeps ==
  ASSUME PartInv, CreateRefused
  PROVE  PartInv'
<1> USE PartitionAssumption DEF PartInv, CreateRefused, Fails
<1>1. PartTypeOK'
  BY DEF PartTypeOK
<1>2. RowsHold'
  BY DEF RowsHold
<1>3. SpanHolds'
  BY DEF SpanHolds, Undisturbed, PartTypeOK
<1>4. AheadHolds'
  BY DEF AheadHolds, Undisturbed, PartTypeOK
<1>5. QED
  BY <1>1, <1>2, <1>3, <1>4

LEMMA PartKept == ASSUME PartInv, [PartNext]_partVars PROVE PartInv'
<1>1. CASE UNCHANGED partVars
  BY <1>1 DEF partVars, PartInv, PartTypeOK, RowsHold, SpanHolds, AheadHolds, Undisturbed
<1>2. CASE PartNext
  BY <1>2, InsertRowKeeps, NextPeriodKeeps, EnsureKeeps, PruneKeeps, ReattachKeeps, ReadSpanKeeps,
     CountKeeps, DetachKeeps, CreateHistoryKeeps, DrainKeeps, AttachKeeps, ReportKeeps,
     InterruptKeeps, CreateRefusedKeeps DEF PartNext
<1>3. QED
  BY <1>1, <1>2

LEMMA PartStarts == PartInit => PartInv
<1> SUFFICES ASSUME PartInit PROVE PartInv
  OBVIOUS
<1>1. Cardinality({}) = 0 /\ Cardinality(PartRows) \in Nat
  BY PartitionAssumption, FS_EmptySet, FS_CardinalityType
<1>2. PartTypeOK
  <2>1. /\ 0 \in 0..LastPeriod /\ 0 \in Periods /\ 0 \in 0..Cardinality(PartRows) /\ 0 \in 0..MaxStops
    BY <1>1, PartitionAssumption DEF Periods
  <2>2. period \in [PartRows -> 0..LastPeriod] /\ span \in [lo : Periods, hi : Periods]
    BY <2>1 DEF PartInit
  <2>3. QED
    BY <2>1, <2>2 DEF PartInit, PartTypeOK
<1>3. RowsHold /\ SpanHolds /\ AheadHolds
  BY <1>1, PartitionAssumption DEF PartInit, RowsHold, SpanHolds, AheadHolds
<1>4. QED
  BY <1>2, <1>3 DEF PartInv

\* No row that was written is lost, and every row can be read but for a
\* migration that was interrupted or refused its partitions, whatever the
\* maintenance of the tables does beside the application.
THEOREM TablesHoldAlways == PartSpec => []TablesHold
<1>1. PartInv => TablesHold
  BY DEF PartInv, TablesHold, RowsHaveAHome, RowsHold, SpanHolds, AheadHolds, Undisturbed
<1>2. QED
  BY <1>1, PartStarts, PartKept, PTL DEF PartSpec

-----------------------------------------------------------------------------
(***************************************************************************)
(* Orders of a finite set, for lists that are read a page at a time: the   *)
(* first n members of a set are closed upwards, at most n, and all of it   *)
(* when they are fewer.                                                    *)
(***************************************************************************)

\* The members of S before c in the order R, and the first n of S.
Before(R, S, c) == {d \in S : <<d, c>> \in R}
Firsts(R, S, n) == {c \in S : Cardinality(Before(R, S, c)) < n}

\* R is a strict and total order of S.
Orders(R, S) ==
    /\ \A c \in S : <<c, c>> \notin R
    /\ \A c, d \in S : c = d \/ <<c, d>> \in R \/ <<d, c>> \in R
    /\ \A c, d, e \in S : <<c, d>> \in R /\ <<d, e>> \in R => <<c, e>> \in R

LEMMA LeastOfNat ==
  ASSUME NEW N, N \subseteq Nat, N # {}
  PROVE  \E n \in N : \A m \in N : n <= m
<1>1. PICK n \in N : \A y \in N : <<y, n>> \notin OpToRel(<, Nat)
  BY WFMin, NatLessThanWellFounded
<1>2. \A y \in N : n \in Nat /\ y \in Nat /\ ~(y < n)
  BY <1>1, Zenon DEF OpToRel
<1>3. QED
  BY <1>2

LEMMA BeforeCounts ==
  ASSUME NEW S, IsFiniteSet(S), NEW R, NEW c \in S
  PROVE  /\ IsFiniteSet(Before(R, S, c)) /\ Cardinality(Before(R, S, c)) \in Nat
         /\ Cardinality(S) \in Nat /\ Cardinality(Before(R, S, c)) <= Cardinality(S)
<1>1. Before(R, S, c) \subseteq S
  BY DEF Before
<1>2. QED
  BY <1>1, FS_Subset, FS_CardinalityType

\* What comes earlier has fewer before it.
LEMMA BeforeGrows ==
  ASSUME NEW S, IsFiniteSet(S), NEW R, Orders(R, S), NEW c \in S, NEW d \in S, <<d, c>> \in R
  PROVE  Cardinality(Before(R, S, d)) < Cardinality(Before(R, S, c))
<1>1. Before(R, S, d) \subseteq Before(R, S, c) /\ d \in Before(R, S, c) /\ d \notin Before(R, S, d)
  BY DEF Before, Orders
<1>2. Cardinality(Before(R, S, d)) <= Cardinality(Before(R, S, c))
      /\ Cardinality(Before(R, S, d)) # Cardinality(Before(R, S, c))
  BY <1>1, BeforeCounts, FS_Subset
<1>3. QED
  BY <1>2, BeforeCounts

\* A part of the set has a first member, and a last one.
LEMMA FirstExists ==
  ASSUME NEW S, IsFiniteSet(S), NEW R, Orders(R, S), NEW T, T \subseteq S, T # {}
  PROVE  \E c \in T : \A d \in T : <<d, c>> \notin R
<1> DEFINE N == {Cardinality(Before(R, S, c)) : c \in T}
<1>1. N \subseteq Nat /\ N # {}
  BY BeforeCounts
<1>2. PICK n \in N : \A m \in N : n <= m
  BY <1>1, LeastOfNat
<1>3. PICK c \in T : n = Cardinality(Before(R, S, c))
  BY <1>2
<1>4. \A d \in T : Cardinality(Before(R, S, c)) <= Cardinality(Before(R, S, d))
  BY <1>2, <1>3
<1>5. ASSUME NEW d \in T, <<d, c>> \in R PROVE FALSE
  <2>1. Cardinality(Before(R, S, d)) < Cardinality(Before(R, S, c))
    BY <1>5, BeforeGrows
  <2>2. QED
    BY <2>1, <1>4, BeforeCounts
<1>6. QED
  BY <1>5

LEMMA LastExists ==
  ASSUME NEW S, IsFiniteSet(S), NEW R, Orders(R, S), NEW T, T \subseteq S, T # {}
  PROVE  \E b \in T : \A d \in T : d = b \/ <<d, b>> \in R
<1> DEFINE Size == Cardinality(S)
           N == {Size - Cardinality(Before(R, S, c)) : c \in T}
<1>1. \A c \in T : /\ Size \in Nat /\ Cardinality(Before(R, S, c)) \in Nat
                   /\ Size - Cardinality(Before(R, S, c)) \in Nat
  BY BeforeCounts
<1>2. N \subseteq Nat /\ N # {}
  BY <1>1
<1>3. PICK n \in N : \A m \in N : n <= m
  BY <1>2, LeastOfNat
<1>4. PICK b \in T : n = Size - Cardinality(Before(R, S, b))
  BY <1>3
<1>5. \A d \in T : Size - Cardinality(Before(R, S, b)) <= Size - Cardinality(Before(R, S, d))
  BY <1>3, <1>4
<1> HIDE DEF Size
<1>6. \A d \in T : Cardinality(Before(R, S, d)) <= Cardinality(Before(R, S, b))
  BY <1>1, <1>5
<1>7. ASSUME NEW d \in T, <<b, d>> \in R PROVE FALSE
  <2>1. Cardinality(Before(R, S, b)) < Cardinality(Before(R, S, d))
    BY <1>7, BeforeGrows
  <2>2. QED
    BY <2>1, <1>1, <1>6
<1>8. QED
  BY <1>7 DEF Orders

\* The first n are closed upwards; they are at most n, and all when fewer.
LEMMA FirstsAreFirst ==
  ASSUME NEW S, IsFiniteSet(S), NEW R, Orders(R, S), NEW n \in Nat \ {0}
  PROVE  /\ \A c \in Firsts(R, S, n), d \in S : <<d, c>> \in R => d \in Firsts(R, S, n)
         /\ Cardinality(Firsts(R, S, n)) # n => Firsts(R, S, n) = S
<1> DEFINE P == Firsts(R, S, n)
<1>1. ASSUME NEW c \in P, NEW d \in S, <<d, c>> \in R PROVE d \in P
  <2>1. c \in S /\ Cardinality(Before(R, S, c)) < n
    BY DEF Firsts
  <2>2. Cardinality(Before(R, S, d)) < Cardinality(Before(R, S, c))
    BY <1>1, <2>1, BeforeGrows
  <2>3. Cardinality(Before(R, S, d)) < n
    BY <2>1, <2>2, BeforeCounts
  <2>4. QED
    BY <2>3 DEF Firsts
<1>2. P \subseteq S /\ IsFiniteSet(P) /\ Cardinality(P) \in Nat
  <2>1. P \subseteq S
    BY DEF Firsts
  <2>2. QED
    BY <2>1, FS_Subset, FS_CardinalityType
<1>3. Cardinality(P) <= n
  <2>1. CASE P = {}
    <3>1. Cardinality(P) = 0
      BY <2>1, FS_EmptySet
    <3>2. QED
      BY <3>1
  <2>2. CASE P # {}
    <3>1. PICK b \in P : \A d \in P : d = b \/ <<d, b>> \in R
      BY <1>2, <2>2, LastExists
    <3>2. P \ {b} \subseteq Before(R, S, b) /\ b \in S /\ Cardinality(Before(R, S, b)) < n
      BY <3>1, <1>2 DEF Before, Firsts
    <3>3. Cardinality(P \ {b}) = Cardinality(P) - 1
      BY <3>1, <1>2, FS_RemoveElement
    <3>4. Cardinality(P \ {b}) <= Cardinality(Before(R, S, b)) /\ Cardinality(Before(R, S, b)) \in Nat
      BY <3>2, BeforeCounts, FS_Subset
    <3>5. QED
      BY <3>2, <3>3, <3>4, <1>2
  <2>3. QED
    BY <2>1, <2>2
<1>4. ASSUME P # S PROVE Cardinality(P) >= n
  <2>1. PICK c \in S \ P : \A d \in S \ P : <<d, c>> \notin R
    <3>1. S \ P \subseteq S /\ S \ P # {}
      BY <1>2, <1>4
    <3>2. QED
      BY <3>1, FirstExists
  <2>2. Before(R, S, c) \subseteq P
    BY <2>1 DEF Before
  <2>3. Cardinality(Before(R, S, c)) <= Cardinality(P)
    BY <2>2, <1>2, FS_Subset
  <2>4. ~(Cardinality(Before(R, S, c)) < n) /\ Cardinality(Before(R, S, c)) \in Nat
    BY <2>1, BeforeCounts DEF Firsts
  <2>5. QED
    BY <2>3, <2>4, <1>2
<1>5. QED
  BY <1>1, <1>2, <1>3, <1>4

-----------------------------------------------------------------------------
(***************************************************************************)
(* Message history.  Rows come in the order of their ids, dated no earlier, *)
(* so what a reader wants and was not shown lies below its cursor, and the *)
(* preview is that of the last row.                                        *)
(***************************************************************************)

\* The types HistoryTypeOK has no room for.
HistoryShapes ==
    /\ ids \in Seq(All)
    /\ page \in [of : {"history", "search"}, before : Nat, seen : SUBSET All,
                 want : SUBSET All, open : BOOLEAN]

\* Ids are minted in the order of time; a row is dated no earlier than its id,
\* and only what has a row is edited, deleted or purged.
OrderHolds ==
    /\ \A i, j \in 1..Len(ids) : ids[i] = ids[j] => i = j
    /\ \A i, j \in 1..Len(ids) : i <= j => mintedAt[ids[i]] <= mintedAt[ids[j]]
    /\ \A m \in Minted : mintedAt[m] <= hour
    /\ Rows \subseteq Minted /\ \A m \in Rows : mintedAt[m] <= createdAt[m]
    /\ deleted \subseteq Rows /\ purged \subseteq deleted
    /\ \A m \in All : text[m] = 0 \/ m \in Rows

PreviewHolds == last \in Rows \cup {"none"} /\ PreviewFollows

\* What a reader wants and has not been shown is still below its cursor.
PageHolds ==
    /\ page.want \subseteq Rows
    /\ page.of = "search" => page.want \subseteq Messages \ deleted
    /\ page.open => \A m \in page.want : m \in page.seen \cup Late \/ Place(m) < page.before
    /\ ~page.open /\ page.seen # {} => page.want \subseteq page.seen \cup Late

HistoryInv == HistoryTypeOK /\ HistoryShapes /\ OrderHolds /\ PreviewHolds /\ PageHolds

LEMMA Places ==
  ASSUME HistoryInv
  PROVE  /\ Len(ids) \in Nat
         /\ \A i \in 1..Len(ids) : ids[i] \in All /\ ids[i] \in Minted
         /\ \A m \in Minted : /\ m \in All /\ Place(m) \in 1..Len(ids) /\ ids[Place(m)] = m
                              /\ \A i \in 1..Len(ids) : ids[i] = m => i = Place(m)
<1>1. Len(ids) \in Nat /\ \A i \in 1..Len(ids) : ids[i] \in All /\ ids[i] \in Minted
  BY DEF HistoryInv, HistoryShapes, Minted
<1>2. \A m \in Minted : \E i \in 1..Len(ids) : ids[i] = m
  BY DEF Minted
<1>3. \A m \in Minted : Place(m) \in 1..Len(ids) /\ ids[Place(m)] = m
  BY <1>2 DEF Place
<1>4. QED
  BY <1>1, <1>3 DEF HistoryInv, OrderHolds

\* What the orders of ids and dates come to for two rows.
LEMMA RowsOrdered ==
  ASSUME HistoryInv
  PROVE  /\ Rows \subseteq Minted /\ Rows \subseteq All /\ IsFiniteSet(Rows)
         /\ \A m \in Rows : /\ mintedAt[m] \in Nat /\ createdAt[m] \in Nat
                            /\ mintedAt[m] <= createdAt[m]
         /\ \A m \in Minted : mintedAt[m] \in Nat
         /\ \A m, n \in Rows : /\ Place(m) \in Nat \ {0} /\ (Place(m) = Place(n) => m = n)
                               /\ Place(m) <= Place(n) => mintedAt[m] <= mintedAt[n]
<1>1. Rows \subseteq Minted /\ Rows \subseteq All
  BY DEF HistoryInv, OrderHolds, Rows
<1>2. IsFiniteSet(Minted)
  <2>1. IsFiniteSet(1..Len(ids))
    BY Places, FS_Interval
  <2>2. [i \in 1..Len(ids) |-> ids[i]] \in Surjection(1..Len(ids), Minted)
    BY DEF Surjection, Minted
  <2>3. QED
    BY <2>1, <2>2, FS_Surjection
<1>3. \A m \in Minted : m \in All /\ mintedAt[m] \in Nat
  BY Places, HistoryAssumption DEF HistoryInv, HistoryTypeOK, Hours
<1>4. \A m \in Rows : createdAt[m] \in Nat /\ mintedAt[m] <= createdAt[m]
  BY HistoryAssumption DEF HistoryInv, HistoryTypeOK, OrderHolds, Rows, Hours
<1>5. \A m, n \in Rows : /\ Place(m) \in Nat \ {0} /\ (Place(m) = Place(n) => m = n)
                         /\ Place(m) <= Place(n) => mintedAt[m] <= mintedAt[n]
  <2> TAKE m, n \in Rows
  <2>1. /\ Place(m) \in 1..Len(ids) /\ Place(n) \in 1..Len(ids) /\ Len(ids) \in Nat
        /\ ids[Place(m)] = m /\ ids[Place(n)] = n
    BY <1>1, Places
  <2>2. Place(m) <= Place(n) => mintedAt[ids[Place(m)]] <= mintedAt[ids[Place(n)]]
    BY <2>1 DEF HistoryInv, OrderHolds
  <2>3. QED
    BY <2>1, <2>2
<1>6. QED
  BY <1>1, <1>2, <1>3, <1>4, <1>5, FS_Subset

\* Newest first.
Downward(S) == {p \in S \X S : Place(p[1]) > Place(p[2])}

LEMMA NewestIsFirst ==
  ASSUME HistoryInv, NEW S, S \subseteq Rows, NEW n \in Nat \ {0}
  PROVE  /\ Newest(S, n) \subseteq S
         /\ \A c \in Newest(S, n), d \in S : Place(d) > Place(c) => d \in Newest(S, n)
         /\ Cardinality(Newest(S, n)) # n => Newest(S, n) = S
<1>1. IsFiniteSet(S) /\ \A c \in S : Place(c) \in Nat
  BY RowsOrdered, FS_Subset
<1>2. \A c, d \in S : <<c, d>> \in Downward(S) <=> Place(c) > Place(d)
  BY DEF Downward
<1>3. Orders(Downward(S), S)
  <2>1. \A c, d \in S : Place(c) = Place(d) => c = d
    BY RowsOrdered
  <2>2. QED
    BY <1>1, <1>2, <2>1 DEF Orders
<1>4. Newest(S, n) = Firsts(Downward(S), S, n)
  <2>1. \A c \in S : {k \in S : Place(k) > Place(c)} = Before(Downward(S), S, c)
    BY <1>2 DEF Before
  <2>2. QED
    BY <2>1 DEF Newest, Firsts
<1>5. Newest(S, n) \subseteq S
  BY DEF Newest
<1>6. /\ \A c \in Firsts(Downward(S), S, n), d \in S :
           <<d, c>> \in Downward(S) => d \in Firsts(Downward(S), S, n)
      /\ Cardinality(Firsts(Downward(S), S, n)) # n => Firsts(Downward(S), S, n) = S
  BY <1>1, <1>3, FirstsAreFirst
<1>7. QED
  BY <1>2, <1>4, <1>5, <1>6

\* The badge: the date leaves out none that the id lets in.
LEMMA BadgeHolds ==
  ASSUME HistoryInv, NEW i \in {0} \cup {Place(m) : m \in Rows}
  PROVE  Unread(i) = {m \in (Messages \cap Rows) \ deleted : Place(m) > i}
<1>1. ASSUME NEW m \in Rows, i > 0, Place(m) > i PROVE createdAt[m] >= mintedAt[ids[i]] - Skew
  <2>1. PICK n \in Rows : i = Place(n)
    BY <1>1
  <2>2. ids[i] = n
    BY <2>1, Places, RowsOrdered
  <2>3. /\ mintedAt[n] \in Nat /\ mintedAt[m] \in Nat /\ createdAt[m] \in Nat
        /\ mintedAt[n] <= mintedAt[m] /\ mintedAt[m] <= createdAt[m]
    BY <2>1, <1>1, RowsOrdered
  <2>4. QED
    BY <2>2, <2>3, HistoryAssumption
<1>2. i \in Nat /\ \A m \in Rows : Place(m) \in Nat \ {0}
  BY RowsOrdered
<1>3. QED
  BY <1>1, <1>2 DEF Unread

\* A jump shows the neighbours: a row that so few lie between has fewer still
\* before it on its own side.
LEMMA NeighboursShow ==
  ASSUME HistoryInv, Late = {}, NEW m \in Rows, NEW n \in Rows,
         Cardinality({k \in Rows : Place(k) \in Place(m)..Place(n) \/ Place(k) \in Place(n)..Place(m)})
           <= PageSize + 1
  PROVE  n \in Around(m)
<1> DEFINE older == {k \in Rows : Place(k) <= Place(m) /\ createdAt[k] <= mintedAt[m] + Skew}
           newer == {k \in Rows : Place(k) > Place(m) /\ createdAt[k] >= mintedAt[m] - Skew}
           B == {k \in Rows : Place(k) \in Place(m)..Place(n) \/ Place(k) \in Place(n)..Place(m)}
           above == {k \in older : Place(k) > Place(n)}
           under == {k \in newer : Place(k) < Place(n)}
<1>1. /\ mintedAt[m] \in Nat /\ mintedAt[n] \in Nat /\ createdAt[n] \in Nat
      /\ mintedAt[n] <= createdAt[n] /\ createdAt[n] <= mintedAt[n] + Skew
      /\ Place(m) <= Place(n) => mintedAt[m] <= mintedAt[n]
      /\ Place(n) <= Place(m) => mintedAt[n] <= mintedAt[m]
      /\ \A k \in Rows : Place(k) \in Nat
  <2>1. ~(createdAt[n] > mintedAt[n] + Skew)
    BY DEF Late
  <2>2. QED
    BY <2>1, RowsOrdered, HistoryAssumption
<1>2. B \subseteq Rows /\ IsFiniteSet(B) /\ Cardinality(B) \in Nat /\ Cardinality(B) <= PageSize + 1
  BY RowsOrdered, FS_Subset, FS_CardinalityType
<1>3. m \in B /\ n \in B /\ PageSize \in Nat \ {0}
  BY <1>1, HistoryAssumption
<1>4. CASE Place(n) <= Place(m)
  <2>1. n \in older
    BY <1>1, <1>4, HistoryAssumption
  <2>2. above \subseteq B \ {n}
    BY <1>1
  <2>3. IsFiniteSet(B \ {n}) /\ Cardinality(B \ {n}) = Cardinality(B) - 1
    BY <1>2, <1>3, FS_RemoveElement
  <2>4. IsFiniteSet(above) /\ Cardinality(above) \in Nat /\ Cardinality(above) <= Cardinality(B \ {n})
    BY <2>2, <2>3, FS_Subset, FS_CardinalityType
  <2>5. Cardinality(above) < PageSize + 1
    BY <2>3, <2>4, <1>2, <1>3
  <2>6. n \in Newest(older, PageSize + 1)
    BY <2>1, <2>5 DEF Newest
  <2>7. QED
    BY <2>6 DEF Around
<1>5. CASE Place(n) > Place(m)
  <2>1. n \in newer
    BY <1>1, <1>5, HistoryAssumption
  <2>2. under \subseteq (B \ {n}) \ {m} /\ m \in B \ {n}
    BY <1>1, <1>3, <1>5
  <2>3. IsFiniteSet(B \ {n}) /\ Cardinality(B \ {n}) = Cardinality(B) - 1
    BY <1>2, <1>3, FS_RemoveElement
  <2>4. IsFiniteSet((B \ {n}) \ {m}) /\ Cardinality((B \ {n}) \ {m}) = Cardinality(B \ {n}) - 1
    <3> DEFINE C == B \ {n}
    <3>1. IsFiniteSet(C) /\ m \in C
      BY <2>2, <2>3
    <3> HIDE DEF C
    <3>2. IsFiniteSet(C \ {m}) /\ Cardinality(C \ {m}) = Cardinality(C) - 1
      BY <3>1, FS_RemoveElement
    <3>3. QED
      BY <3>2 DEF C
  <2>5. IsFiniteSet(under) /\ Cardinality(under) \in Nat
        /\ Cardinality(under) <= Cardinality((B \ {n}) \ {m})
    BY <2>2, <2>4, FS_Subset, FS_CardinalityType
  <2>6. Cardinality(under) < PageSize
    BY <2>3, <2>4, <2>5, <1>2, <1>3
  <2>7. QED
    BY <2>1, <2>6 DEF Around
<1>6. QED
  BY <1>1, <1>4, <1>5

LEMMA PagesComplete ==
  ASSUME HistoryInv
  PROVE  PagesAreComplete
BY BadgeHolds, NeighboursShow DEF PagesAreComplete, HistoryInv, PageHolds

LEMMA ReadPageKeeps ==
  ASSUME HistoryInv, ReadPage
  PROVE  HistoryInv'
<1> DEFINE rest == Below(page.of, page.before)
           batch == Newest(rest, PageSize)
           floor == CHOOSE i \in 1..Len(ids) : ids[i] \in batch /\ \A m \in batch : i <= Place(m)
<1>1. /\ page.open
      /\ page' = [page EXCEPT !.seen = @ \cup batch, !.open = More(page.of, page.before, batch),
                              !.before = IF batch = {} THEN @ ELSE floor]
      /\ UNCHANGED <<ids, mintedAt, createdAt, text, deleted, purged, last, preview, edits, revived, hour>>
  BY DEF ReadPage
<1>2. /\ rest \subseteq Rows /\ batch \subseteq rest /\ PageSize \in Nat \ {0}
      /\ \A c \in batch, d \in rest : Place(d) > Place(c) => d \in batch
      /\ Cardinality(batch) # PageSize => batch = rest
  <2>1. rest \subseteq Rows
    BY DEF Below, NotAfter
  <2> HIDE DEF rest
  <2>2. QED
    BY <2>1, NewestIsFirst, HistoryAssumption
<1>3. \A m \in page.want : m \notin page.seen \cup Late => m \in rest
  <2>1. ASSUME NEW m \in page.want, m \notin page.seen \cup Late PROVE m \in rest
    <3>1. m \in Rows /\ Place(m) < page.before /\ page.before \in Nat
      BY <1>1, <2>1 DEF HistoryInv, PageHolds, HistoryShapes
    <3>2. m \in Shown(page.of)
      BY <2>1, <3>1 DEF HistoryInv, PageHolds, HistoryShapes, OrderHolds, Shown
    <3>3. createdAt[m] <= mintedAt[m] + Skew /\ mintedAt[m] \in Nat /\ createdAt[m] \in Nat
      BY <2>1, <3>1, RowsOrdered, HistoryAssumption DEF Late
    <3>4. page.before > Len(ids) \/ createdAt[m] <= mintedAt[ids[page.before]] + Skew
      <4>1. CASE page.before <= Len(ids)
        <5>1. /\ Place(m) \in 1..Len(ids) /\ ids[Place(m)] = m /\ page.before \in 1..Len(ids)
              /\ ids[page.before] \in Minted
          BY <3>1, <4>1, Places, RowsOrdered
        <5>2. mintedAt[m] <= mintedAt[ids[page.before]] /\ mintedAt[ids[page.before]] \in Nat
          BY <5>1, <3>1, RowsOrdered DEF HistoryInv, OrderHolds
        <5>3. QED
          BY <5>2, <3>3, HistoryAssumption
      <4>2. QED
        BY <4>1, <3>1, Places
    <3>5. QED
      BY <3>1, <3>2, <3>4 DEF Below, NotAfter
  <2>2. QED
    BY <2>1
<1>4. batch # {} => floor \in 1..Len(ids) /\ \A m \in rest \ batch : Place(m) < floor
  <2> SUFFICES ASSUME batch # {} PROVE floor \in 1..Len(ids) /\ \A m \in rest \ batch : Place(m) < floor
    OBVIOUS
  <2>1. \A c \in rest : Place(c) \in 1..Len(ids) /\ ids[Place(c)] = c
    BY <1>2, Places, RowsOrdered
  <2>2. \E n \in {Place(c) : c \in batch} : \A k \in {Place(c) : c \in batch} : n <= k
    <3>1. {Place(c) : c \in batch} \subseteq Nat /\ {Place(c) : c \in batch} # {}
      BY <1>2, <2>1, Places
    <3>2. QED
      BY <3>1, LeastOfNat
  <2>3. \E i \in 1..Len(ids) : ids[i] \in batch /\ \A m \in batch : i <= Place(m)
    BY <1>2, <2>1, <2>2
  <2>4. floor \in 1..Len(ids) /\ ids[floor] \in batch /\ \A m \in batch : floor <= Place(m)
    BY <2>3
  <2>5. PICK c \in batch : floor = Place(c)
    BY <2>4, <1>2, Places, RowsOrdered
  <2>6. \A m \in rest \ batch : Place(m) # Place(c) /\ ~(Place(m) > Place(c)) /\ Place(m) \in Nat /\ Place(c) \in Nat
    BY <2>5, <1>2, RowsOrdered
  <2> HIDE DEF floor
  <2>7. \A m \in rest \ batch : Place(m) < floor
    BY <2>5, <2>6
  <2>8. QED
    BY <2>4, <2>7
<1>5. batch = {} => rest = {}
  BY <1>2, FS_EmptySet
<1> HIDE DEF floor
<1>6. ~More(page.of, page.before, batch) => batch = rest
  BY <1>2 DEF More
<1>7. More(page.of, page.before, batch) \in BOOLEAN
  BY DEF More
<1> HIDE DEF rest, batch
<1>8. /\ page'.of = page.of /\ page'.want = page.want /\ page'.seen = page.seen \cup batch
      /\ page'.open = More(page.of, page.before, batch)
      /\ batch # {} => page'.before = floor
      /\ batch = {} => page'.before = page.before
  BY <1>1
<1>9. HistoryShapes' /\ HistoryTypeOK'
  <2>1. floor \in Nat \/ batch = {}
    BY <1>4, Places
  <2>2. Rows \subseteq All
    BY RowsOrdered
  <2>3. page' \in [of : {"history", "search"}, before : Nat, seen : SUBSET All,
                   want : SUBSET All, open : BOOLEAN]
    BY <1>1, <1>2, <1>7, <2>1, <2>2 DEF HistoryInv, HistoryShapes
  <2>4. page'.before \in 0..Len(ids) + 1
    BY <1>4, <1>8, Places DEF HistoryInv, HistoryTypeOK
  <2>5. HistoryShapes'
    BY <1>1, <2>3 DEF HistoryInv, HistoryShapes
  <2>6. QED
    BY <1>1, <2>3, <2>4, <2>5 DEF HistoryInv, HistoryTypeOK
<1>10. OrderHolds' /\ PreviewHolds'
  BY <1>1 DEF HistoryInv, OrderHolds, PreviewHolds, PreviewFollows, View, Rows, Minted
<1>11. Late' = Late /\ Rows' = Rows /\ \A m : Place(m)' = Place(m)
  BY <1>1 DEF Late, Rows, Place
<1>12. PageHolds'
  <2>1. \A m \in page.want : m \in page'.seen \cup Late \/ (m \in rest \ batch /\ batch # {})
    BY <1>3, <1>5, <1>8
  <2>2. \A m \in page.want : m \in page'.seen \cup Late \/ Place(m) < page'.before
    BY <2>1, <1>4, <1>8
  <2>3. ~page'.open => page.want \subseteq page'.seen \cup Late
    BY <2>1, <1>6, <1>8
  <2>4. /\ page'.want \subseteq Rows'
        /\ page'.of = "search" => page'.want \subseteq Messages \ deleted'
    BY <1>1, <1>8, <1>11 DEF HistoryInv, PageHolds
  <2>5. /\ page'.open => \A m \in page'.want : m \in page'.seen \cup Late' \/ Place(m)' < page'.before
        /\ ~page'.open /\ page'.seen # {} => page'.want \subseteq page'.seen \cup Late'
    BY <2>2, <2>3, <1>8, <1>11
  <2>6. QED
    BY <2>4, <2>5 DEF PageHolds
<1>13. QED
  BY <1>9, <1>10, <1>12 DEF HistoryInv

LEMMA EditKeeps ==
  ASSUME HistoryInv, NEW m \in All, Edit(m)
  PROVE  HistoryInv'
<1> USE HistoryAssumption DEF HistoryInv, Edit, SenderFinds, Found, RowsStay, IsLast
<1>1. UNCHANGED <<ids, mintedAt, createdAt>> /\ m \in Rows
  OBVIOUS
<1>2. Rows' = Rows /\ Minted' = Minted /\ Late' = Late /\ \A k : Place(k)' = Place(k)
  BY <1>1 DEF Rows, Minted, Late, Place
<1>e. edits' \in 0..MaxEdits
  BY DEF HistoryTypeOK
<1>3. HistoryTypeOK'
  BY <1>1, <1>2, <1>e, RowsOrdered DEF HistoryTypeOK
<1>4. HistoryShapes'
  BY <1>1, RowsOrdered DEF HistoryShapes
<1>5. OrderHolds'
  <2>1. deleted' \subseteq Rows /\ purged' \subseteq deleted'
    BY <1>1 DEF OrderHolds
  <2>2. \A k \in All : text'[k] = 0 \/ k \in Rows
    BY <1>1 DEF OrderHolds
  <2>3. hour <= hour' /\ hour \in Nat /\ hour' \in Nat
    BY DEF HistoryTypeOK, Hours
  <2>4. \A k \in Minted : mintedAt[k] <= hour'
    BY <2>3, RowsOrdered DEF OrderHolds
  <2>5. QED
    BY <1>1, <1>2, <2>1, <2>2, <2>4 DEF OrderHolds
<1>6. PreviewHolds'
  BY <1>1, <1>2 DEF PreviewHolds, PreviewFollows, View, HistoryTypeOK
<1>7. PageHolds'
  BY <1>1, <1>2 DEF PageHolds
<1>8. QED
  BY <1>3, <1>4, <1>5, <1>6, <1>7

LEMMA DeleteKeeps ==
  ASSUME HistoryInv, NEW m \in All, Delete(m)
  PROVE  HistoryInv'
<1> USE HistoryAssumption DEF HistoryInv, Delete, SenderFinds, Found, IsLast
<1>1. UNCHANGED <<ids, mintedAt, createdAt>> /\ m \in Rows
  BY DEF Rows
<1>2. Rows' = Rows /\ Minted' = Minted /\ Late' = Late /\ \A k : Place(k)' = Place(k)
  BY <1>1 DEF Rows, Minted, Late, Place
<1>e. edits' \in 0..MaxEdits
  BY DEF HistoryTypeOK
<1>3. HistoryTypeOK'
  BY <1>1, <1>2, <1>e, RowsOrdered DEF HistoryTypeOK, HistoryShapes
<1>4. HistoryShapes'
  BY <1>1, RowsOrdered DEF HistoryShapes
<1>5. OrderHolds'
  <2>1. deleted' \subseteq Rows /\ purged' \subseteq deleted'
    BY <1>1 DEF OrderHolds
  <2>2. \A k \in All : text'[k] = 0 \/ k \in Rows
    BY <1>1 DEF OrderHolds
  <2>3. hour <= hour' /\ hour \in Nat /\ hour' \in Nat
    BY DEF HistoryTypeOK, Hours
  <2>4. \A k \in Minted : mintedAt[k] <= hour'
    BY <2>3, RowsOrdered DEF OrderHolds
  <2>5. QED
    BY <1>1, <1>2, <2>1, <2>2, <2>4 DEF OrderHolds
<1>6. PreviewHolds'
  BY <1>1, <1>2 DEF PreviewHolds, PreviewFollows, View
<1>7. PageHolds'
  BY <1>1, <1>2 DEF PageHolds
<1>8. QED
  BY <1>3, <1>4, <1>5, <1>6, <1>7

LEMMA UndeleteKeeps ==
  ASSUME HistoryInv, NEW m \in All, Undelete(m)
  PROVE  HistoryInv'
<1> USE HistoryAssumption DEF HistoryInv, Undelete, SenderFinds, Found, RowsStay, IsLast
<1>1. UNCHANGED <<ids, mintedAt, createdAt>> /\ m \notin purged
  BY DEF Rows
<1>2. Rows' = Rows /\ Minted' = Minted /\ Late' = Late /\ \A k : Place(k)' = Place(k)
  BY <1>1 DEF Rows, Minted, Late, Place
<1>e. edits' \in 0..MaxEdits
  BY DEF HistoryTypeOK
<1>3. HistoryTypeOK'
  BY <1>1, <1>2, <1>e, RowsOrdered DEF HistoryTypeOK
<1>4. HistoryShapes'
  BY <1>1, RowsOrdered DEF HistoryShapes
<1>5. OrderHolds'
  <2>1. deleted' \subseteq Rows /\ purged' \subseteq deleted'
    BY <1>1 DEF OrderHolds
  <2>2. \A k \in All : text'[k] = 0 \/ k \in Rows
    BY <1>1 DEF OrderHolds
  <2>3. hour <= hour' /\ hour \in Nat /\ hour' \in Nat
    BY DEF HistoryTypeOK, Hours
  <2>4. \A k \in Minted : mintedAt[k] <= hour'
    BY <2>3, RowsOrdered DEF OrderHolds
  <2>5. QED
    BY <1>1, <1>2, <2>1, <2>2, <2>4 DEF OrderHolds
<1>6. PreviewHolds'
  BY <1>1, <1>2 DEF PreviewHolds, PreviewFollows, View
<1>7. PageHolds'
  BY <1>1, <1>2 DEF PageHolds
<1>8. QED
  BY <1>3, <1>4, <1>5, <1>6, <1>7

LEMMA PurgeMessageKeeps ==
  ASSUME HistoryInv, NEW m \in All, PurgeMessage(m)
  PROVE  HistoryInv'
<1> USE HistoryAssumption DEF HistoryInv, PurgeMessage, SenderFinds, Found, RowsStay
<1>1. UNCHANGED <<ids, mintedAt, createdAt>> /\ m \in deleted
  BY DEF Rows
<1>2. Rows' = Rows /\ Minted' = Minted /\ Late' = Late /\ \A k : Place(k)' = Place(k)
  BY <1>1 DEF Rows, Minted, Late, Place
<1>e. edits' \in 0..MaxEdits
  BY DEF HistoryTypeOK
<1>3. HistoryTypeOK'
  BY <1>1, <1>2, <1>e, RowsOrdered DEF HistoryTypeOK
<1>4. HistoryShapes'
  BY <1>1, RowsOrdered DEF HistoryShapes
<1>5. OrderHolds'
  <2>1. deleted' \subseteq Rows /\ purged' \subseteq deleted'
    BY <1>1 DEF OrderHolds
  <2>2. \A k \in All : text'[k] = 0 \/ k \in Rows
    BY <1>1 DEF OrderHolds
  <2>3. hour <= hour' /\ hour \in Nat /\ hour' \in Nat
    BY DEF HistoryTypeOK, Hours
  <2>4. \A k \in Minted : mintedAt[k] <= hour'
    BY <2>3, RowsOrdered DEF OrderHolds
  <2>5. QED
    BY <1>1, <1>2, <2>1, <2>2, <2>4 DEF OrderHolds
<1>6. PreviewHolds'
  BY <1>1, <1>2 DEF PreviewHolds, PreviewFollows, View
<1>7. PageHolds'
  BY <1>1, <1>2 DEF PageHolds
<1>8. QED
  BY <1>3, <1>4, <1>5, <1>6, <1>7

LEMMA HourPassesKeeps ==
  ASSUME HistoryInv, HourPasses
  PROVE  HistoryInv'
<1> USE HistoryAssumption DEF HistoryInv, HourPasses
<1>1. UNCHANGED <<ids, mintedAt, createdAt>>
  BY DEF Rows
<1>2. Rows' = Rows /\ Minted' = Minted /\ Late' = Late /\ \A k : Place(k)' = Place(k)
  BY <1>1 DEF Rows, Minted, Late, Place
<1>e. edits' \in 0..MaxEdits
  BY DEF HistoryTypeOK
<1>3. HistoryTypeOK'
  BY <1>1, <1>2, <1>e, RowsOrdered DEF HistoryTypeOK, Hours
<1>4. HistoryShapes'
  BY <1>1, RowsOrdered DEF HistoryShapes
<1>5. OrderHolds'
  <2>1. deleted' \subseteq Rows /\ purged' \subseteq deleted'
    BY <1>1 DEF OrderHolds
  <2>2. \A k \in All : text'[k] = 0 \/ k \in Rows
    BY <1>1 DEF OrderHolds
  <2>3. hour <= hour' /\ hour \in Nat /\ hour' \in Nat
    BY DEF HistoryTypeOK, Hours
  <2>4. \A k \in Minted : mintedAt[k] <= hour'
    BY <2>3, RowsOrdered DEF OrderHolds
  <2>5. QED
    BY <1>1, <1>2, <2>1, <2>2, <2>4 DEF OrderHolds
<1>6. PreviewHolds'
  BY <1>1, <1>2 DEF PreviewHolds, PreviewFollows, View
<1>7. PageHolds'
  BY <1>1, <1>2 DEF PageHolds
<1>8. QED
  BY <1>3, <1>4, <1>5, <1>6, <1>7

LEMMA MintMessageKeeps ==
  ASSUME HistoryInv, NEW m \in All, MintMessage(m)
  PROVE  HistoryInv'
<1> USE HistoryAssumption DEF HistoryInv
<1>1. /\ m \notin Minted /\ ids' = Append(ids, m) /\ mintedAt' = [mintedAt EXCEPT ![m] = hour]
      /\ UNCHANGED <<createdAt, text, deleted, purged, last, preview, page, edits, revived, hour>>
  BY DEF MintMessage
<1>2. /\ ids' \in Seq(All) /\ Len(ids') = Len(ids) + 1 /\ ids'[Len(ids) + 1] = m
      /\ \A i \in 1..Len(ids) : ids'[i] = ids[i] /\ ids[i] # m
      /\ Len(ids) \in Nat
  BY <1>1, Places DEF HistoryShapes
<1>3. /\ \A i \in 1..Len(ids') : i \in 1..Len(ids) \/ i = Len(ids) + 1
      /\ Minted' = Minted \cup {m} /\ Rows' = Rows /\ m \notin Rows
  BY <1>1, <1>2, Places DEF Minted, Rows, OrderHolds
<1>4. \A n \in Minted : mintedAt'[n] = mintedAt[n] /\ mintedAt[n] \in Hours /\ n # m
  BY <1>1, Places DEF HistoryTypeOK
<1>5. mintedAt'[m] = hour /\ mintedAt' \in [All -> Hours]
  BY <1>1 DEF HistoryTypeOK
<1>6. HistoryTypeOK' /\ HistoryShapes'
  <2>1. page.before \in 0..Len(ids') + 1
    BY <1>2 DEF HistoryTypeOK
  <2>2. \A i \in 1..Len(ids') : ids'[i] \in All
    BY <1>2
  <2>3. QED
    BY <1>1, <1>2, <1>5, <2>1, <2>2 DEF HistoryTypeOK, HistoryShapes
<1>7. OrderHolds'
  <2>1. \A i, j \in 1..Len(ids') : ids'[i] = ids'[j] => i = j
    BY <1>2, <1>3 DEF OrderHolds
  <2>2. \A n \in Minted' : mintedAt'[n] <= hour
    BY <1>3, <1>4, <1>5 DEF OrderHolds, Hours
  <2>3. \A i, j \in 1..Len(ids') : i <= j => mintedAt'[ids'[i]] <= mintedAt'[ids'[j]]
    <3> TAKE i, j \in 1..Len(ids')
    <3>1. CASE i \in 1..Len(ids) /\ j \in 1..Len(ids)
      BY <3>1, <1>2, <1>4, Places DEF OrderHolds
    <3>2. CASE j = Len(ids) + 1
      <4>1. ids'[j] = m /\ ids'[i] \in Minted'
        BY <3>2, <1>2, <1>3, Places
      <4>2. QED
        BY <4>1, <2>2, <1>5
    <3>3. QED
      BY <3>1, <3>2, <1>2, <1>3
  <2>4. Rows' \subseteq Minted' /\ \A n \in Rows' : mintedAt'[n] <= createdAt'[n]
    BY <1>1, <1>3, <1>4 DEF OrderHolds
  <2>5. QED
    BY <1>1, <1>3, <2>1, <2>2, <2>3, <2>4 DEF OrderHolds
<1>8. PreviewHolds'
  BY <1>1, <1>3 DEF PreviewHolds, PreviewFollows, View
<1>9. Late' = Late /\ \A n \in Rows : Place(n)' = Place(n)
  <2>1. Late' = Late
    BY <1>1, <1>3, <1>4 DEF Late
  <2>2. ASSUME NEW n \in Rows PROVE Place(n)' = Place(n)
    <3>1. n \in Minted /\ Place(n) \in 1..Len(ids) /\ ids[Place(n)] = n
      BY <2>2, Places, RowsOrdered
    <3>2. Place(n) \in 1..Len(ids') /\ ids'[Place(n)] = n
      BY <3>1, <1>2
    <3>3. \A i \in 1..Len(ids') : ids'[i] = n => i = Place(n)
      BY <3>1, <1>2, <1>3, <1>4, Places
    <3>4. Place(n)' = CHOOSE i \in 1..Len(ids') : ids'[i] = n
      BY DEF Place
    <3>5. QED
      BY <3>2, <3>3, <3>4
  <2>3. QED
    BY <2>1, <2>2
<1>10. PageHolds'
  BY <1>1, <1>3, <1>9 DEF PageHolds
<1>11. QED
  BY <1>6, <1>7, <1>8, <1>10

LEMMA CommitMessageRowKeeps ==
  ASSUME HistoryInv, NEW m \in All, CommitMessageRow(m)
  PROVE  HistoryInv'
<1> USE HistoryAssumption DEF HistoryInv
<1>1. /\ m \in Minted \ Rows /\ createdAt' = [createdAt EXCEPT ![m] = hour] /\ last' = m
      /\ preview' = IF m \in Messages THEN [of |-> m, text |-> 0] ELSE preview
      /\ UNCHANGED <<ids, mintedAt, text, deleted, purged, page, edits, revived, hour>>
  BY DEF CommitMessageRow
<1>2. hour \in Hours /\ hour \in Nat /\ createdAt' \in [All -> Hours \cup {Absent}]
  BY <1>1 DEF HistoryTypeOK, Hours
<1>3. /\ createdAt'[m] = hour /\ \A n \in All \ {m} : createdAt'[n] = createdAt[n]
      /\ Rows' = Rows \cup {m} /\ Minted' = Minted /\ \A n : Place(n)' = Place(n)
  BY <1>1, <1>2 DEF Rows, Minted, Place, Absent
<1>4. Late \subseteq Late'
  BY <1>1, <1>3 DEF Late
<1>5. HistoryTypeOK' /\ HistoryShapes'
  BY <1>1, <1>2 DEF HistoryTypeOK, HistoryShapes
<1>6. OrderHolds'
  <2>1. Rows' \subseteq Minted' /\ \A n \in Rows' : mintedAt'[n] <= createdAt'[n]
    BY <1>1, <1>3 DEF OrderHolds
  <2>2. QED
    BY <1>1, <1>3, <2>1 DEF OrderHolds
<1>7. PreviewHolds'
  <2>1. text[m] = 0 /\ m \notin deleted
    BY <1>1 DEF OrderHolds
  <2>2. QED
    BY <1>1, <1>3, <2>1 DEF PreviewHolds, PreviewFollows, View
<1>8. PageHolds'
  BY <1>1, <1>3, <1>4 DEF PageHolds
<1>9. QED
  BY <1>5, <1>6, <1>7, <1>8

LEMMA OpenReaderKeeps ==
  ASSUME HistoryInv, NEW of \in {"history", "search"}, OpenReader(of)
  PROVE  HistoryInv'
<1> USE HistoryAssumption DEF HistoryInv
<1>1. /\ page' = [of |-> of, before |-> Len(ids) + 1, seen |-> {}, want |-> Shown(of), open |-> TRUE]
      /\ UNCHANGED <<ids, mintedAt, createdAt, text, deleted, purged, last, preview, edits, revived, hour>>
  BY DEF OpenReader
<1>2. Rows' = Rows /\ Minted' = Minted /\ Late' = Late /\ \A k : Place(k)' = Place(k)
  BY <1>1 DEF Rows, Minted, Late, Place
<1>3. Shown(of) \subseteq Rows /\ Rows \subseteq All /\ (of = "search" => Shown(of) \subseteq Messages \ deleted)
  BY RowsOrdered DEF Shown
<1>4. Len(ids) + 1 \in 0..Len(ids) + 1 /\ Len(ids) + 1 \in Nat
  BY Places
<1>5. HistoryTypeOK' /\ HistoryShapes'
  BY <1>1, <1>3, <1>4 DEF HistoryTypeOK, HistoryShapes
<1>6. OrderHolds' /\ PreviewHolds'
  BY <1>1, <1>2 DEF OrderHolds, PreviewHolds, PreviewFollows, View
<1>7. \A k \in Rows : Place(k) < Len(ids) + 1
  BY Places, RowsOrdered
<1>8. PageHolds'
  BY <1>1, <1>2, <1>3, <1>7 DEF PageHolds
<1>9. QED
  BY <1>5, <1>6, <1>8

LEMMA HistoryAlways == HistorySpec => [](HistoryTypeOK /\ PagesAreComplete /\ PreviewFollows)
<1>1. HistoryInit => HistoryInv
  <2> SUFFICES ASSUME HistoryInit PROVE HistoryInv
    OBVIOUS
  <2> USE HistoryAssumption DEF HistoryInit
  <2>1. Rows = {} /\ Minted = {} /\ 0 \in Hours
    BY DEF Rows, Minted, Hours
  <2>2. HistoryTypeOK /\ HistoryShapes
    BY <2>1 DEF HistoryTypeOK, HistoryShapes, NoPage
  <2>3. OrderHolds
    BY <2>1 DEF OrderHolds
  <2>4. PreviewHolds /\ PageHolds
    BY <2>1 DEF PreviewHolds, PreviewFollows, PageHolds, NoPage
  <2>5. QED
    BY <2>2, <2>3, <2>4 DEF HistoryInv
<1>2. HistoryInv /\ [HistoryNext]_historyVars => HistoryInv'
  <2> SUFFICES ASSUME HistoryInv, [HistoryNext]_historyVars PROVE HistoryInv'
    OBVIOUS
  <2>1. CASE HistoryNext
    BY <2>1, MintMessageKeeps, CommitMessageRowKeeps, EditKeeps, DeleteKeeps, UndeleteKeeps,
       PurgeMessageKeeps, OpenReaderKeeps, ReadPageKeeps, HourPassesKeeps DEF HistoryNext
  <2>2. CASE UNCHANGED historyVars
    BY <2>2 DEF historyVars, HistoryInv, HistoryTypeOK, HistoryShapes, OrderHolds, PreviewHolds,
       PreviewFollows, View, PageHolds, Rows, Minted, Late, Place
  <2>3. QED
    BY <2>1, <2>2
<1>3. HistoryInv => HistoryTypeOK /\ PagesAreComplete /\ PreviewFollows
  BY PagesComplete DEF HistoryInv, PreviewHolds
<1>4. QED
  BY <1>1, <1>2, <1>3, PTL DEF HistorySpec

\* A reader misses no row but the late ones, the badge counts every unread
\* message, a jump shows the neighbours, and the preview is the last message's,
\* in whatever order rows are committed, edited, deleted and restored.
THEOREM HistoryHoldsAlways == HistorySpec => []HistoryHolds
BY HistoryAlways, PTL DEF HistoryHolds

-----------------------------------------------------------------------------
(***************************************************************************)
(* The chat list.  The cursor separates what the reader was shown from     *)
(* what it was not, but for pinned chats and for chats that moved.         *)
(***************************************************************************)

\* The types ListTypeOK has no room for, and what a request is about.
ListShapes ==
    /\ toggle \in [Toggles -> [step : {"unsent", "sent", "saved", "done"}, what : Switches,
                               chat : Listed \cup {0}, on : BOOLEAN]]
    /\ \A q \in Toggles : toggle[q].step # "unsent" => toggle[q].chat \in Listed
    /\ browse \in [open : BOOLEAN, seen : SUBSET Listed,
                   cursor : [at : 0..MaxStamp + 1, id : Listed \cup {0}]]

\* Below the cursor are the chats that were not shown, and those only: but for
\* the pinned ones, and for what moved since the reader began.
ReaderHolds ==
    /\ browse.open /\ ~cutInPins =>
          \A c \in Listed : c \notin stirred /\ c \notin browse.seen => Earlier(c, browse.cursor)
    /\ browse.open =>
          \A c \in browse.seen : c \in stirred \/ Pinned(c) \/ ~Earlier(c, browse.cursor)
    /\ ListIsComplete

UnderWayTogether(p, q) ==
    /\ toggle[p].step \in {"sent", "saved"} /\ toggle[q].step \in {"sent", "saved"}
    /\ toggle[p].what = toggle[q].what /\ toggle[p].chat = toggle[q].chat

\* A request whose change is stored is the one whose event is still to come.
SwitchHolds ==
    /\ \A p, q \in Toggles :
          p # q /\ UnderWayTogether(p, q) => <<toggle[p].what, toggle[p].chat>> \in crossedOver
    /\ \A q \in Toggles :
          toggle[q].step = "saved" =>
              \/ <<toggle[q].what, toggle[q].chat>> \in crossedOver
              \/ toggle[q].on <=> switch[toggle[q].what][toggle[q].chat] > 0
    /\ died = 0 =>
          \A w \in Switches, c \in Listed :
              \/ <<w, c>> \in crossedOver
              \/ \E q \in Toggles : toggle[q].step = "saved" /\ toggle[q].what = w /\ toggle[q].chat = c
              \/ told[w][c] <=> switch[w][c] > 0

ListInv == ListTypeOK /\ ListShapes /\ ReaderHolds /\ SwitchHolds

LEMMA ListTyped ==
  ASSUME ListTypeOK
  PROVE  /\ lastAt \in [Listed -> Nat] /\ switch["pin"] \in [Listed -> Nat]
         /\ \A c \in Listed : c \in Nat /\ lastAt[c] \in Nat /\ switch["pin"][c] \in Nat
<1>1. Stamps \subseteq Nat /\ Listed \subseteq Nat
  BY ListAssumption DEF Stamps
<1>2. lastAt \in [Listed -> Stamps] /\ switch["pin"] \in [Listed -> Stamps]
  BY DEF ListTypeOK, Switches
<1>3. QED
  BY <1>1, <1>2

\* The order of the list is a strict and total one.
LEMMA AboveOrders ==
  ASSUME ListTypeOK
  PROVE  /\ \A c \in Listed : ~Above(c, c)
         /\ \A c, d \in Listed : c = d \/ Above(c, d) \/ Above(d, c)
         /\ \A c, d, e \in Listed : Above(c, d) /\ Above(d, e) => Above(c, e)
BY ListTyped DEF Above

\* The list's order of some chats.
ListOrder(S) == {p \in S \X S : Above(p[1], p[2])}

LEMMA ListIsOrdered ==
  ASSUME ListTypeOK, NEW S, S \subseteq Listed
  PROVE  /\ IsFiniteSet(S) /\ Orders(ListOrder(S), S)
         /\ \A c, d \in S : <<c, d>> \in ListOrder(S) <=> Above(c, d)
<1>1. \A c, d \in S : <<c, d>> \in ListOrder(S) <=> Above(c, d)
  BY DEF ListOrder
<1>2. IsFiniteSet(S)
  BY ListAssumption, FS_Subset
<1>3. QED
  BY <1>1, <1>2, AboveOrders DEF Orders

LEMMA BottomExists ==
  ASSUME ListTypeOK, NEW S, S \subseteq Listed, S # {}
  PROVE  /\ Bottom(S) \in S
         /\ \A d \in S : d = Bottom(S) \/ Above(d, Bottom(S))
<1>1. \E b \in S : \A d \in S : d = b \/ <<d, b>> \in ListOrder(S)
  BY ListIsOrdered, LastExists
<1>2. \E b \in S : \A d \in S : d = b \/ Above(d, b)
  BY <1>1, ListIsOrdered
<1>3. QED
  BY <1>2 DEF Bottom

LEMMA EarlierDescends ==
  ASSUME ListTypeOK, NEW c \in Listed, NEW lowest \in Listed, NEW cur \in [at : Nat, id : Nat],
         Earlier(lowest, cur), Earlier(c, [at |-> lastAt[lowest], id |-> lowest])
  PROVE  Earlier(c, cur)
BY ListTyped DEF Earlier

LEMMA NextPageKeeps ==
  ASSUME ListInv, NextPage
  PROVE  ListInv'
<1> DEFINE below == {c \in Listed : Earlier(c, browse.cursor)}
           sheet == PageOf(browse.cursor)
           lowest == Bottom(sheet)
           full == Cardinality(sheet) = ListLimit
<1> USE DEF ListInv
<1>1. /\ browse.open /\ cutInPins' = (cutInPins \/ (full /\ Pinned(lowest)))
      /\ browse' = [open |-> full, seen |-> browse.seen \cup sheet,
                    cursor |-> IF full THEN [at |-> lastAt[lowest], id |-> lowest] ELSE browse.cursor]
      /\ again' = again \cup (browse.seen \cap sheet)
      /\ UNCHANGED <<lastAt, switch, stamp, toggle, told, stirred, crossedOver, died>>
  BY DEF NextPage
<1>2. /\ below \subseteq Listed /\ sheet \subseteq below
      /\ sheet = Firsts(ListOrder(below), below, ListLimit)
  <2>1. \A c \in below : {d \in below : Above(d, c)} = Before(ListOrder(below), below, c)
    BY ListIsOrdered DEF Before
  <2>2. QED
    BY <2>1 DEF PageOf, Firsts
<1>3. /\ \A c \in sheet, d \in below : Above(d, c) => d \in sheet
      /\ ~full => sheet = below
  <2>1. /\ \A c \in sheet, d \in below : <<d, c>> \in ListOrder(below) => d \in sheet
        /\ ~full => sheet = below
    <3> HIDE DEF below, sheet
    <3>1. IsFiniteSet(below) /\ Orders(ListOrder(below), below) /\ ListLimit \in Nat \ {0}
      BY <1>2, ListIsOrdered, ListAssumption
    <3>2. QED
      BY <1>2, <3>1, FirstsAreFirst
  <2>2. QED
    BY <1>2, <2>1, ListIsOrdered
<1>4. full => /\ lowest \in sheet /\ lowest \in Listed
              /\ \A d \in sheet : d = lowest \/ Above(d, lowest)
              /\ \A d \in below \ sheet : Above(lowest, d)
  <2>1. ASSUME full PROVE sheet # {}
    BY <2>1, FS_EmptySet, ListAssumption
  <2>2. ASSUME full PROVE lowest \in sheet /\ \A d \in sheet : d = lowest \/ Above(d, lowest)
    BY <2>1, <2>2, <1>2, BottomExists
  <2>3. QED
    BY <2>2, <1>2, <1>3, AboveOrders
<1> HIDE DEF below, sheet, lowest, full
<1>5. /\ \A c \in below : c \in Listed /\ Earlier(c, browse.cursor)
      /\ \A c \in Listed \ below : ~Earlier(c, browse.cursor)
  BY DEF below
<1>6. browse.cursor \in [at : Nat, id : Nat] /\ browse.seen \subseteq Listed
  <2>1. browse \in [open : BOOLEAN, seen : SUBSET Listed, cursor : [at : 0..MaxStamp + 1, id : Listed \cup {0}]]
    BY DEF ListShapes
  <2>2. 0..MaxStamp + 1 \subseteq Nat /\ Listed \cup {0} \subseteq Nat
    BY ListAssumption
  <2>3. QED
    BY <2>1, <2>2
<1>t. sheet \subseteq Listed /\ full \in BOOLEAN
  BY <1>2 DEF below, full
<1>7. ListShapes' /\ ListTypeOK'
  <2>1. full => [at |-> lastAt[lowest], id |-> lowest] \in [at : 0..MaxStamp + 1, id : Listed \cup {0}]
    <3>1. full => lowest \in Listed /\ lastAt[lowest] \in 0..MaxStamp
      BY <1>4 DEF ListTypeOK, Stamps
    <3>2. 0..MaxStamp \subseteq 0..MaxStamp + 1
      BY ListAssumption
    <3>3. QED
      BY <3>1, <3>2
  <2>2. browse' \in [open : BOOLEAN, seen : SUBSET Listed, cursor : [at : 0..MaxStamp + 1, id : Listed \cup {0}]]
    BY <1>1, <1>t, <2>1 DEF ListShapes
  <2>3. ListShapes'
    BY <1>1, <2>2 DEF ListShapes
  <2>4. cutInPins' \in BOOLEAN /\ again' \subseteq Listed
    BY <1>1, <1>t DEF ListTypeOK
  <2>5. QED
    BY <1>1, <2>2, <2>3, <2>4 DEF ListTypeOK
<1>8. ASSUME browse'.open, ~cutInPins', NEW c \in Listed, c \notin stirred, c \notin browse'.seen
      PROVE  Earlier(c, browse'.cursor)
  <2>1. c \in below /\ c \notin sheet /\ full
    BY <1>1, <1>5, <1>8 DEF ReaderHolds
  <2>2. Above(lowest, c) /\ ~Pinned(lowest) /\ lowest \in Listed
    BY <2>1, <1>1, <1>4, <1>8
  <2>3. QED
    BY <2>1, <2>2, <1>1, ListTyped DEF Above, Pinned, Earlier
<1>9. ASSUME browse'.open, NEW c \in browse'.seen
      PROVE  c \in stirred \/ Pinned(c) \/ ~Earlier(c, browse'.cursor)
  <2>1. full /\ browse'.cursor = [at |-> lastAt[lowest], id |-> lowest] /\ lowest \in Listed /\ Earlier(lowest, browse.cursor)
    BY <1>1, <1>2, <1>4, <1>5, <1>9
  <2>2. CASE c \in sheet
    <3>1. c = lowest \/ Above(c, lowest)
      BY <2>1, <2>2, <1>4
    <3>2. QED
      BY <3>1, <2>1, <2>2, <1>t, ListTyped DEF Above, Pinned, Earlier
  <2>3. CASE c \in browse.seen
    <3>1. c \in stirred \/ Pinned(c) \/ ~Earlier(c, browse.cursor)
      BY <2>3, <1>1 DEF ReaderHolds
    <3>2. QED
      BY <3>1, <2>1, <2>3, <1>6, EarlierDescends
  <2>4. QED
    BY <1>1, <1>9, <2>2, <2>3
<1>10. ListIsComplete'
  <2>1. ASSUME ~browse'.open, ~cutInPins' PROVE Listed \ stirred \subseteq browse'.seen
    <3>1. sheet = below /\ browse.open /\ ~cutInPins
      BY <1>1, <1>3, <2>1
    <3>2. QED
      BY <1>1, <1>5, <3>1 DEF ReaderHolds
  <2>2. ASSUME NEW c \in again' PROVE Pinned(c) \/ c \in stirred
    BY <1>1, <1>2, <1>5, <2>2 DEF ReaderHolds, ListIsComplete
  <2>3. stirred' = stirred /\ switch' = switch
    BY <1>1
  <2>4. QED
    BY <2>1, <2>2, <2>3 DEF ListIsComplete, Pinned
<1>11. ReaderHolds'
  <2>1. stirred' = stirred /\ switch' = switch /\ lastAt' = lastAt
    BY <1>1
  <2>2. QED
    BY <1>8, <1>9, <1>10, <2>1 DEF ReaderHolds, Pinned, Earlier
<1>12. SwitchHolds'
  BY <1>1 DEF SwitchHolds, UnderWayTogether
<1>13. QED
  BY <1>7, <1>11, <1>12

LEMMA OpenListKeeps ==
  ASSUME ListInv, OpenList
  PROVE  ListInv'
<1> USE ListAssumption DEF ListInv, OpenList
<1>1. ListTypeOK'
  BY DEF ListTypeOK, ListShapes, Stamps, Switches
<1>2. ListShapes'
  BY DEF ListShapes, NoCursor
<1>3. ReaderHolds'
  BY DEF ReaderHolds, ListIsComplete, ListTypeOK, Stamps, Earlier, NoCursor
<1>4. SwitchHolds'
  BY DEF SwitchHolds, UnderWayTogether
<1>5. QED
  BY <1>1, <1>2, <1>3, <1>4

LEMMA BumpKeeps ==
  ASSUME ListInv, NEW c \in Listed, Bump(c)
  PROVE  ListInv'
<1> USE ListAssumption DEF ListInv, Bump
<1>1. ListTypeOK'
  BY DEF ListTypeOK, ListShapes, Stamps, Switches
<1>2. ListShapes'
  BY DEF ListShapes, NoCursor
<1>3. ReaderHolds'
  BY DEF ReaderHolds, ListIsComplete, Earlier, Pinned, NoCursor
<1>4. SwitchHolds'
  BY DEF SwitchHolds, UnderWayTogether
<1>5. QED
  BY <1>1, <1>2, <1>3, <1>4

LEMMA AskKeeps ==
  ASSUME ListInv, NEW q \in Toggles, Ask(q)
  PROVE  ListInv'
<1> USE ListAssumption DEF ListInv, Ask
<1>1. ListTypeOK'
  BY DEF ListTypeOK, ListShapes, Stamps, Switches
<1>2. ListShapes'
  BY DEF ListShapes, NoCursor
<1>3. ReaderHolds'
  BY DEF ReaderHolds, ListIsComplete, Earlier, Pinned, NoCursor
<1>4. SwitchHolds'
  BY DEF SwitchHolds, UnderWayTogether, ListShapes
<1>5. QED
  BY <1>1, <1>2, <1>3, <1>4

LEMMA SaveKeeps ==
  ASSUME ListInv, NEW q \in Toggles, Save(q)
  PROVE  ListInv'
<1> USE ListAssumption DEF ListInv, Save
<1>1. ListTypeOK'
  BY DEF ListTypeOK, ListShapes, Stamps, Switches
<1>2. ListShapes'
  BY DEF ListShapes, Switches, NoCursor
<1>3. ReaderHolds'
  BY DEF ReaderHolds, ListIsComplete, Earlier, Pinned, NoCursor
<1>4. SwitchHolds'
  BY DEF SwitchHolds, UnderWayTogether, ListTypeOK, ListShapes, Stamps
<1>5. QED
  BY <1>1, <1>2, <1>3, <1>4

LEMMA TellKeeps ==
  ASSUME ListInv, NEW q \in Toggles, Tell(q)
  PROVE  ListInv'
<1> USE ListAssumption DEF ListInv, Tell, Tells
<1>1. ListTypeOK'
  BY DEF ListTypeOK, ListShapes, Stamps, Switches
<1>2. ListShapes'
  BY DEF ListShapes, Switches, NoCursor
<1>3. ReaderHolds'
  BY DEF ReaderHolds, ListIsComplete, Earlier, Pinned, NoCursor
<1>4. SwitchHolds'
  BY DEF SwitchHolds, UnderWayTogether, ListTypeOK
<1>5. QED
  BY <1>1, <1>2, <1>3, <1>4

LEMMA TellLostKeeps ==
  ASSUME ListInv, NEW q \in Toggles, TellLost(q)
  PROVE  ListInv'
<1> USE ListAssumption DEF ListInv, TellLost
<1>1. ListTypeOK'
  BY DEF ListTypeOK, ListShapes, Stamps, Switches
<1>2. ListShapes'
  BY DEF ListShapes, Switches, NoCursor
<1>3. ReaderHolds'
  BY DEF ReaderHolds, ListIsComplete, Earlier, Pinned, NoCursor
<1>4. SwitchHolds'
  BY DEF SwitchHolds, UnderWayTogether, ListTypeOK
<1>5. QED
  BY <1>1, <1>2, <1>3, <1>4

LEMMA ListKept == ASSUME ListInv, [ListNext]_listVars PROVE ListInv'
<1>1. CASE UNCHANGED listVars
  BY <1>1 DEF listVars, ListInv, ListTypeOK, ListShapes, ReaderHolds, SwitchHolds,
     UnderWayTogether, ListIsComplete, Pinned, Earlier
<1>2. CASE ListNext
  BY <1>2, NextPageKeeps, OpenListKeeps, BumpKeeps, AskKeeps, SaveKeeps, TellKeeps, TellLostKeeps
     DEF ListNext
<1>3. QED
  BY <1>1, <1>2

LEMMA ListStarts == ListInit => ListInv
<1> SUFFICES ASSUME ListInit PROVE ListInv
  OBVIOUS
<1> USE ListAssumption DEF ListInit, NoToggle, NoCursor
<1>1. ListTypeOK
  <2>1. 0 \in Stamps /\ 1 \in Stamps /\ 0 \in 0..ListFaults
    BY DEF Stamps
  <2>2. lastAt \in [Listed -> Stamps] /\ switch \in [Switches -> [Listed -> Stamps]]
    BY <2>1
  <2>3. told \in [Switches -> [Listed -> BOOLEAN]]
    OBVIOUS
  <2>4. QED
    BY <2>1, <2>2, <2>3 DEF ListTypeOK
<1>2. ListShapes
  BY DEF ListShapes, Switches
<1>3. ReaderHolds /\ SwitchHolds
  BY DEF ReaderHolds, ListIsComplete, SwitchHolds, UnderWayTogether
<1>4. QED
  BY <1>1, <1>2, <1>3 DEF ListInv

LEMMA ListAlways == ListSpec => [](ListTypeOK /\ ListIsComplete /\ DevicesShowSwitches)
<1>1. ListInv => ListTypeOK /\ ListIsComplete /\ DevicesShowSwitches
  BY DEF ListInv, ReaderHolds, SwitchHolds, DevicesShowSwitches
<1>2. QED
  BY <1>1, ListStarts, ListKept, PTL DEF ListSpec

-----------------------------------------------------------------------------
(***************************************************************************)
(* Profiles.  One request at a time changes the photo, or writes before    *)
(* another has broadcast; the parts of the invariant hold until two did.   *)
(***************************************************************************)

ChangeType ==
    [step : {"unsent", "sent", "checked", "read", "written", "dropped", "announced", "done"},
     kind : {"set", "clear", "rename"}, key : Photos \cup {NoPhoto},
     title : Titles \cup {FirstTitle}, before : Profiles, known : Profiles]

\* A request's types; a photo that was checked was uploaded.
ChangesHold ==
    /\ change \in [Changes -> ChangeType]
    /\ \A q \in Changes :
          change[q].kind = "set" /\ change[q].step \in {"checked", "read", "written"} => change[q].key \in uploaded
    /\ \A q \in Changes : change[q].step = "written" => change[q].kind # "rename"
    /\ \A q \in announced : change[q].step \in {"announced", "done"}
    /\ profile.photo \in uploaded \cup {NoPhoto} /\ worn \subseteq uploaded

\* Requests between being sent and deleting the photo they replaced.
ChangesPhoto(q) == change[q].kind # "rename" /\ change[q].step \in {"sent", "checked", "read", "written"}

\* While one request at a time changes the photo.
PhotoHolds ==
    ~photoRaced =>
        /\ \A p, q \in Changes : ChangesPhoto(p) /\ ChangesPhoto(q) => p = q
        /\ profile.photo \in avatarObjects \cup {NoPhoto}
        /\ \A q \in Changes :
              ChangesPhoto(q) =>
                 /\ change[q].kind = "set" /\ change[q].step \in {"checked", "read"} => change[q].key \in avatarObjects
                 /\ change[q].step = "read" => change[q].before.photo = profile.photo
                 /\ change[q].step = "written" =>
                       profile.photo = IF change[q].kind = "set" THEN change[q].key ELSE NoPhoto
        /\ profileFaults = 0 =>
              \A k \in worn \cap avatarObjects :
                 \/ k = profile.photo
                 \/ \E q \in Changes : ChangesPhoto(q) /\ change[q].step = "written" /\ change[q].before.photo = k

\* Requests between their write and their broadcast.
Owes(q) == change[q].step \in {"written", "dropped", "announced"}

\* While no request writes between another's write and broadcast.
ShownHolds ==
    ~tellRaced =>
        /\ \A p, q \in Changes : Owes(p) /\ Owes(q) => p = q
        /\ \A q \in Changes : Owes(q) => change[q].known = profile
        /\ profileFaults = 0 /\ (\A q \in Changes : ~Owes(q)) => shown = profile

\* A title that has its system message, or a request that will send it.
Announced(n) ==
    \/ n = FirstTitle
    \/ \E q \in announced : change[q].title = n /\ change[q].kind = "rename"
    \/ \E q \in Changes : /\ change[q].kind = "rename" /\ change[q].step = "dropped"
                          /\ change[q].title = n /\ Announces(q)

TitlesHold ==
    ofGroup /\ profileFaults = 0 =>
        Announced(profile.title) /\ \A q \in Changes : Announced(change[q].before.title)

ProfileInv == ProfileTypeOK /\ ChangesHold /\ PhotoHolds /\ ShownHolds /\ TitlesHold

LEMMA ChangeFields ==
  ASSUME ChangesHold, NEW x \in Changes
  PROVE  /\ change[x].step \in {"unsent", "sent", "checked", "read", "written", "dropped", "announced", "done"}
         /\ change[x].kind \in {"set", "clear", "rename"} /\ change[x].key \in Photos \cup {NoPhoto}
         /\ change[x].title \in Titles \cup {FirstTitle}
         /\ change[x].before.title \in Titles \cup {FirstTitle}
         /\ change[x].before \in Profiles /\ change[x].known \in Profiles
BY DEF ChangesHold, ChangeType, Profiles

\* A request that only takes a step.
LEMMA MovesFrame ==
  ASSUME ChangesHold, NEW q \in Changes, NEW s, MovesTo(q, s),
         s \in {"sent", "checked", "read", "written", "dropped", "announced", "done"}
  PROVE  /\ change' \in [Changes -> ChangeType]
         /\ change'[q].step = s /\ \A x \in Changes : x # q => change'[x].step = change[x].step
         /\ \A x \in Changes : /\ change'[x].kind = change[x].kind /\ change'[x].key = change[x].key
                                /\ change'[x].title = change[x].title /\ change'[x].before = change[x].before
                                /\ change'[x].known = change[x].known
BY DEF ChangesHold, ChangeType, MovesTo

\* What has its system message, or will, keeps it or gets it.
LEMMA AnnouncedStays ==
  ASSUME ChangesHold, announced \subseteq announced', announced \subseteq Changes,
         \A x \in Changes : change[x].kind = "rename" /\ (x \in announced \/ change[x].step = "dropped") =>
             change'[x].kind = change[x].kind /\ change'[x].title = change[x].title /\ change'[x].before = change[x].before,
         \A x \in Changes : change[x].kind = "rename" /\ change[x].step = "dropped" /\ Announces(x) =>
             change'[x].step = "dropped" \/ x \in announced',
         NEW n, Announced(n)
  PROVE  Announced(n)'
<1>1. CASE \E q \in announced : change[q].title = n /\ change[q].kind = "rename"
  BY <1>1 DEF Announced
<1>2. CASE \E q \in Changes : /\ change[q].kind = "rename" /\ change[q].step = "dropped"
                             /\ change[q].title = n /\ Announces(q)
  BY <1>2 DEF Announced, Announces
<1>3. QED
  BY <1>1, <1>2 DEF Announced

LEMMA UploadPhotoKeeps ==
  ASSUME ProfileInv, NEW k \in Photos, UploadPhoto(k)
  PROVE  ProfileInv'
<1> USE ProfileAssumption DEF ProfileInv, UploadPhoto
<1>1. ChangesHold'
  BY DEF ChangesHold
<1>2. ProfileTypeOK'
  BY DEF ProfileTypeOK
<1>3. PhotoHolds'
  BY DEF PhotoHolds, ChangesPhoto, ChangesHold
<1>4. ShownHolds'
  BY DEF ShownHolds, Owes
<1>5. TitlesHold'
  BY DEF TitlesHold, Announced, Announces
<1>6. QED
  BY <1>1, <1>2, <1>3, <1>4, <1>5

LEMMA SendChangeKeeps ==
  ASSUME ProfileInv, NEW q \in Changes, SendChange(q)
  PROVE  ProfileInv'
<1> USE DEF ProfileInv
<1>1. PICK kind \in {"set", "clear", "rename"}, k \in Photos, n \in Titles :
         /\ change' = [change EXCEPT ![q] = [Unsent EXCEPT
                !.step = IF kind = "set" THEN "sent" ELSE "checked", !.kind = kind, !.key = k, !.title = n]]
         /\ photoRaced' = (photoRaced \/ (kind # "rename" /\ \E p \in Changes :
                /\ change[p].kind # "rename"
                /\ change[p].step \in {"sent", "checked", "read", "written"}))
  BY DEF SendChange
<1>2. /\ change[q].step = "unsent" /\ q \notin announced
      /\ UNCHANGED <<ofGroup, profile, avatarObjects, uploaded, shown, announced, worn, tellRaced, profileFaults>>
  BY DEF SendChange, StepIs, ChangesHold
<1>3. /\ change' \in [Changes -> ChangeType]
      /\ change'[q].step = IF kind = "set" THEN "sent" ELSE "checked"
      /\ change'[q].kind = kind /\ change'[q].before = Rows0
      /\ \A x \in Changes : x # q => change'[x] = change[x]
  <2> DEFINE step == IF kind = "set" THEN "sent" ELSE "checked"
             new == [Unsent EXCEPT !.step = step, !.kind = kind, !.key = k, !.title = n]
  <2>1. Rows0 \in Profiles
    BY DEF Rows0, Profiles
  <2>2. step \in {"sent", "checked"}
    OBVIOUS
  <2> HIDE DEF step
  <2>3. new \in ChangeType /\ new.step = step /\ new.kind = kind /\ new.before = Rows0
    BY <2>1, <2>2 DEF Unsent, ChangeType
  <2>4. change' = [change EXCEPT ![q] = new] /\ change \in [Changes -> ChangeType]
    BY <1>1 DEF ChangesHold, step
  <2> HIDE DEF new
  <2>5. QED
    BY <2>3, <2>4 DEF step
<1>4. ChangesHold'
  BY <1>2, <1>3 DEF ChangesHold, ProfileTypeOK
<1>5. ProfileTypeOK'
  <2>1. photoRaced' \in BOOLEAN
    BY <1>1
  <2>2. \A x \in Changes : /\ (change[x].step \in {"unsent", "sent", "checked", "read", "written", "dropped", "announced", "done"})'
                           /\ (change[x].kind \in {"set", "clear", "rename"})'
                           /\ (change[x].before \in Profiles)' /\ (change[x].known \in Profiles)'
    BY <1>3 DEF ChangeType
  <2>3. QED
    BY <1>2, <2>1, <2>2 DEF ProfileTypeOK
<1>6. PhotoHolds'
  <2>1. ~photoRaced' => /\ ~photoRaced
                        /\ kind = "rename" \/ \A p \in Changes : ~ChangesPhoto(p)
    BY <1>1 DEF ChangesPhoto
  <2>2. (ChangesPhoto(q)' => kind # "rename") /\ change[q].step # "written"
    BY <1>2, <1>3 DEF ChangesPhoto
  <2>3. change'[q].step # "written" /\ change'[q].step # "read" /\ (change'[q].kind = "set" => change'[q].step = "sent")
    BY <1>3
  <2>4. \A x \in Changes : x # q => (ChangesPhoto(x)' <=> ChangesPhoto(x)) /\ change'[x] = change[x]
    BY <1>3 DEF ChangesPhoto
  <2>5. QED
    BY <1>2, <2>1, <2>2, <2>3, <2>4 DEF PhotoHolds
<1>7. ShownHolds'
  BY <1>2, <1>3 DEF ShownHolds, Owes
<1>8. TitlesHold'
  <2>1. Announced(FirstTitle)' /\ change'[q].before.title = FirstTitle
    BY <1>3 DEF Announced, Rows0
  <2>2. \A m : Announced(m) => Announced(m)'
    BY <1>2, <1>3, AnnouncedStays DEF ProfileTypeOK
  <2>3. QED
    BY <1>2, <1>3, <2>1, <2>2 DEF TitlesHold
<1>9. QED
  BY <1>4, <1>5, <1>6, <1>7, <1>8

LEMMA CheckObjectKeeps ==
  ASSUME ProfileInv, NEW q \in Changes, CheckObject(q)
  PROVE  ProfileInv'
<1> USE DEF ProfileInv
<1>1. PICK s \in {"checked", "done"} :
         /\ MovesTo(q, s) /\ change[q].step = "sent"
         /\ s = "checked" => change[q].key \in avatarObjects
         /\ UNCHANGED <<ofGroup, profile, avatarObjects, uploaded, shown, announced, worn, photoRaced, tellRaced, profileFaults>>
  BY DEF CheckObject, StepIs
<1>2. /\ change' \in [Changes -> ChangeType] /\ change[q].step = "sent"
      /\ change'[q].step = s /\ \A x \in Changes : x # q => change'[x].step = change[x].step
      /\ \A x \in Changes : /\ change'[x].kind = change[x].kind /\ change'[x].key = change[x].key
                             /\ change'[x].title = change[x].title /\ change'[x].before = change[x].before
                             /\ change'[x].known = change[x].known
  BY <1>1, MovesFrame
<1>3. ChangesHold'
  BY <1>1, <1>2, ChangeFields DEF ChangesHold, ProfileTypeOK
<1>4. ProfileTypeOK'
  <2>1. \A x \in Changes : /\ (change[x].step \in {"unsent", "sent", "checked", "read", "written", "dropped", "announced", "done"})'
                           /\ (change[x].kind \in {"set", "clear", "rename"})'
                           /\ (change[x].before \in Profiles)' /\ (change[x].known \in Profiles)'
    BY <1>2 DEF ChangeType
  <2>2. profileFaults' \in 0..ProfileFaults /\ shown' \in Profiles /\ announced' \subseteq Changes
    BY <1>1, ChangeFields, ProfileAssumption DEF ProfileTypeOK
  <2>3. QED
    BY <1>1, <2>1, <2>2 DEF ProfileTypeOK
<1>5. PhotoHolds'
  BY <1>1, <1>2 DEF PhotoHolds, ChangesPhoto
<1>6. ShownHolds'
  BY <1>1, <1>2 DEF ShownHolds, Owes
<1>7. TitlesHold'
  <2>1. SUFFICES ASSUME ofGroup, profileFaults = 0, NEW n, Announced(n) PROVE Announced(n)'
    BY <1>1, <1>2 DEF TitlesHold
  <2>2. QED
    BY <1>1, <1>2, <2>1, AnnouncedStays DEF ProfileTypeOK
<1>8. QED
  BY <1>3, <1>4, <1>5, <1>6, <1>7

LEMMA ReadBeforeKeeps ==
  ASSUME ProfileInv, NEW q \in Changes, ReadBefore(q)
  PROVE  ProfileInv'
<1> USE DEF ProfileInv
<1>1. /\ change[q].step = "checked" /\ change' = [change EXCEPT ![q].step = "read", ![q].before = profile]
      /\ UNCHANGED <<ofGroup, profile, avatarObjects, uploaded, shown, announced, worn, photoRaced, tellRaced, profileFaults>>
  BY DEF ReadBefore, StepIs
<1>2. /\ change' \in [Changes -> ChangeType]
      /\ change'[q].step = "read" /\ change'[q].before = profile
      /\ change'[q].kind = change[q].kind /\ change'[q].key = change[q].key
      /\ change'[q].title = change[q].title /\ change'[q].known = change[q].known
      /\ \A x \in Changes : x # q => change'[x] = change[x]
  BY <1>1 DEF ChangesHold, ChangeType, ProfileTypeOK
<1>3. ChangesHold'
  BY <1>1, <1>2 DEF ChangesHold, ProfileTypeOK
<1>4. ProfileTypeOK'
  <2>1. \A x \in Changes : /\ (change[x].step \in {"unsent", "sent", "checked", "read", "written", "dropped", "announced", "done"})'
                           /\ (change[x].kind \in {"set", "clear", "rename"})'
                           /\ (change[x].before \in Profiles)' /\ (change[x].known \in Profiles)'
    BY <1>2 DEF ChangeType
  <2>2. QED
    BY <1>1, <2>1 DEF ProfileTypeOK
<1>5. PhotoHolds'
  BY <1>1, <1>2 DEF PhotoHolds, ChangesPhoto
<1>6. ShownHolds'
  BY <1>1, <1>2 DEF ShownHolds, Owes
<1>7. TitlesHold'
  <2>1. \A m : Announced(m) => Announced(m)'
    BY <1>1, <1>2, AnnouncedStays DEF ProfileTypeOK, ChangesHold
  <2>2. \A x \in Changes : change'[x].before = IF x = q THEN profile ELSE change[x].before
    BY <1>2
  <2>3. QED
    BY <1>1, <2>1, <2>2 DEF TitlesHold
<1>8. QED
  BY <1>3, <1>4, <1>5, <1>6, <1>7

LEMMA WriteProfileKeeps ==
  ASSUME ProfileInv, NEW q \in Changes, WriteProfile(q)
  PROVE  ProfileInv'
<1> USE DEF ProfileInv
<1>1. /\ change[q].step = "read" /\ profile' = NewRow(q)
      /\ change' = [change EXCEPT ![q].step = IF change[q].kind = "rename" THEN "dropped" ELSE "written",
                                  ![q].known = profile']
      /\ worn' = worn \cup ({profile'.photo} \ {NoPhoto})
      /\ tellRaced' = (tellRaced \/ \E p \in Changes : change[p].step \in {"written", "dropped", "announced"})
      /\ UNCHANGED <<ofGroup, avatarObjects, uploaded, shown, announced, photoRaced, profileFaults>>
  BY DEF WriteProfile, StepIs
<1>2. /\ profile \in Profiles /\ profile' \in Profiles
      /\ change[q].kind = "rename" => profile'.photo = profile.photo /\ profile'.title = change[q].title
      /\ change[q].kind = "set" => profile'.photo = change[q].key
      /\ change[q].kind = "clear" => profile'.photo = NoPhoto
      /\ change[q].kind # "rename" => profile'.title = profile.title
  <2>1. profile \in Profiles
    BY DEF ProfileTypeOK
  <2>2. CASE change[q].kind = "set"
    <3>1. profile' = [profile EXCEPT !.photo = change[q].key]
      BY <1>1, <2>2 DEF NewRow
    <3>2. QED
      BY <2>1, <2>2, <3>1, ChangeFields DEF Profiles
  <2>3. CASE change[q].kind = "clear"
    <3>1. profile' = [profile EXCEPT !.photo = NoPhoto]
      BY <1>1, <2>3 DEF NewRow
    <3>2. QED
      BY <2>1, <2>3, <3>1 DEF Profiles
  <2>4. CASE change[q].kind = "rename"
    <3>1. profile' = [profile EXCEPT !.title = change[q].title]
      BY <1>1, <2>4 DEF NewRow
    <3>2. QED
      BY <2>1, <2>4, <3>1, ChangeFields DEF Profiles
  <2>5. QED
    BY <2>1, <2>2, <2>3, <2>4, ChangeFields
<1>3. /\ change' \in [Changes -> ChangeType]
      /\ change'[q].step = IF change[q].kind = "rename" THEN "dropped" ELSE "written"
      /\ change'[q].known = profile' /\ change'[q].kind = change[q].kind /\ change'[q].key = change[q].key
      /\ change'[q].title = change[q].title /\ change'[q].before = change[q].before
      /\ \A x \in Changes : x # q => change'[x] = change[x]
  BY <1>1, <1>2 DEF ChangesHold, ChangeType
<1>4. profile'.photo \in uploaded \cup {NoPhoto}
  BY <1>1, <1>2, ChangeFields DEF ChangesHold
<1>5. ChangesHold'
  BY <1>1, <1>3, <1>4 DEF ChangesHold, ProfileTypeOK
<1>6. ProfileTypeOK'
  <2>1. \A x \in Changes : /\ (change[x].step \in {"unsent", "sent", "checked", "read", "written", "dropped", "announced", "done"})'
                           /\ (change[x].kind \in {"set", "clear", "rename"})'
                           /\ (change[x].before \in Profiles)' /\ (change[x].known \in Profiles)'
    BY <1>3 DEF ChangeType
  <2>2. tellRaced' \in BOOLEAN /\ worn' \subseteq Photos
    BY <1>1, <1>4 DEF ProfileTypeOK
  <2>3. QED
    BY <1>1, <1>2, <2>1, <2>2 DEF ProfileTypeOK
<1>7. PhotoHolds'
  <2> SUFFICES ASSUME ~photoRaced PROVE PhotoHolds'
    BY <1>1 DEF PhotoHolds
  <2>1. \A x \in Changes : ChangesPhoto(x)' <=> ChangesPhoto(x)
    BY <1>1, <1>3, ChangeFields DEF ChangesPhoto
  <2>2. CASE change[q].kind = "rename"
    <3>1. worn' \cap avatarObjects \subseteq (worn \cap avatarObjects) \cup {profile.photo} /\ profile'.photo = profile.photo
      BY <1>1, <1>2, <2>2
    <3>2. \A x \in Changes : ChangesPhoto(x) => x # q /\ change'[x] = change[x]
      BY <1>3, <2>2 DEF ChangesPhoto
    <3>3. /\ \A p, x \in Changes : ChangesPhoto(p) /\ ChangesPhoto(x) => p = x
          /\ profile.photo \in avatarObjects \cup {NoPhoto}
          /\ \A x \in Changes :
                ChangesPhoto(x) =>
                   /\ change[x].kind = "set" /\ change[x].step \in {"checked", "read"} => change[x].key \in avatarObjects
                   /\ change[x].step = "read" => change[x].before.photo = profile.photo
                   /\ change[x].step = "written" =>
                         profile.photo = IF change[x].kind = "set" THEN change[x].key ELSE NoPhoto
      BY DEF PhotoHolds
    <3>4. ASSUME profileFaults = 0, NEW k \in worn' \cap avatarObjects
          PROVE  \/ k = profile.photo
                 \/ \E x \in Changes : ChangesPhoto(x) /\ change[x].step = "written" /\ change[x].before.photo = k
      BY <3>1, <3>4 DEF PhotoHolds
    <3>5. \A p, x \in Changes : ChangesPhoto(p)' /\ ChangesPhoto(x)' => p = x
      BY <2>1, <3>3
    <3>6. \A x \in Changes :
             ChangesPhoto(x)' =>
                   /\ change'[x].kind = "set" /\ change'[x].step \in {"checked", "read"} => change'[x].key \in avatarObjects
                   /\ change'[x].step = "read" => change'[x].before.photo = profile'.photo
                   /\ change'[x].step = "written" =>
                         profile'.photo = IF change'[x].kind = "set" THEN change'[x].key ELSE NoPhoto
      BY <2>1, <3>1, <3>2, <3>3
    <3>7. ASSUME profileFaults = 0, NEW k \in worn' \cap avatarObjects
          PROVE  \/ k = profile'.photo
                 \/ \E x \in Changes : ChangesPhoto(x)' /\ change'[x].step = "written" /\ change'[x].before.photo = k
      BY <2>1, <3>1, <3>2, <3>4, <3>7
    <3>8. profile'.photo \in avatarObjects \cup {NoPhoto}
      BY <3>1, <3>3
    <3>9. UNCHANGED <<avatarObjects, photoRaced, profileFaults>>
      BY <1>1
    <3>10. QED
      BY <3>5, <3>6, <3>7, <3>8, <3>9 DEF PhotoHolds
  <2>3. CASE change[q].kind # "rename"
    <3>1. ChangesPhoto(q) /\ \A x \in Changes : ChangesPhoto(x) => x = q
      BY <1>1, <2>3 DEF ChangesPhoto, PhotoHolds
    <3>2. profile'.photo \in avatarObjects \cup {NoPhoto}
      BY <1>1, <1>2, <2>3, <3>1, ChangeFields DEF PhotoHolds
    <3>3. change[q].before.photo = profile.photo /\ profile'.photo = IF change[q].kind = "set" THEN change[q].key ELSE NoPhoto
      BY <1>1, <1>2, <2>3, <3>1, ChangeFields DEF PhotoHolds
    <3>4. profileFaults = 0 => \A k \in worn' \cap avatarObjects : k = profile'.photo \/ k = change[q].before.photo
      BY <1>1, <3>1, <3>3 DEF PhotoHolds
    <3>5. QED
      BY <1>1, <1>3, <2>1, <2>3, <3>1, <3>2, <3>3, <3>4 DEF PhotoHolds
  <2>4. QED
    BY <2>2, <2>3
<1>8. ShownHolds'
  <2>1. ~tellRaced' => ~tellRaced /\ \A p \in Changes : ~Owes(p)
    BY <1>1 DEF Owes
  <2>2. Owes(q)' /\ \A x \in Changes : x # q => (Owes(x)' <=> Owes(x))
    BY <1>3 DEF Owes
  <2>3. QED
    BY <1>3, <2>1, <2>2 DEF ShownHolds
<1>9. TitlesHold'
  <2> SUFFICES ASSUME ofGroup, profileFaults = 0 PROVE TitlesHold'
    BY <1>1 DEF TitlesHold
  <2>1. \A m : Announced(m) => Announced(m)'
    BY <1>1, <1>3, AnnouncedStays DEF ProfileTypeOK
  <2>2. \A x \in Changes : change'[x].before = change[x].before
    BY <1>3
  <2>3. Announced(profile.title)'
    <3>1. CASE change[q].kind # "rename"
      BY <1>2, <2>1, <3>1 DEF TitlesHold
    <3>2. CASE change[q].kind = "rename" /\ change[q].title = change[q].before.title
      BY <1>2, <2>1, <3>2 DEF TitlesHold
    <3>3. CASE change[q].kind = "rename" /\ change[q].title # change[q].before.title
      BY <1>2, <1>3, <3>3 DEF Announced, Announces
    <3>4. QED
      BY <3>1, <3>2, <3>3
  <2>4. QED
    BY <2>1, <2>2, <2>3 DEF TitlesHold
<1>10. QED
  BY <1>5, <1>6, <1>7, <1>8, <1>9

LEMMA DropReplacedKeeps ==
  ASSUME ProfileInv, NEW q \in Changes, DropReplaced(q)
  PROVE  ProfileInv'
<1> USE DEF ProfileInv
<1>1. PICK s \in {"dropped"} :
         /\ MovesTo(q, s) /\ change[q].step = "written"
         /\ \/ avatarObjects' = avatarObjects \ Replaced(q) /\ UNCHANGED profileFaults
            \/ profileFaults < ProfileFaults /\ profileFaults' = profileFaults + 1 /\ UNCHANGED avatarObjects
         /\ UNCHANGED <<ofGroup, profile, uploaded, shown, announced, worn, photoRaced, tellRaced>>
  BY DEF DropReplaced, StepIs, ProfileFault
<1>2. /\ change' \in [Changes -> ChangeType] /\ change[q].step = "written"
      /\ change'[q].step = s /\ \A x \in Changes : x # q => change'[x].step = change[x].step
      /\ \A x \in Changes : /\ change'[x].kind = change[x].kind /\ change'[x].key = change[x].key
                             /\ change'[x].title = change[x].title /\ change'[x].before = change[x].before
                             /\ change'[x].known = change[x].known
  BY <1>1, MovesFrame
<1>3. ChangesHold'
  BY <1>1, <1>2, ChangeFields DEF ChangesHold, ProfileTypeOK
<1>4. ProfileTypeOK'
  <2>1. \A x \in Changes : /\ (change[x].step \in {"unsent", "sent", "checked", "read", "written", "dropped", "announced", "done"})'
                           /\ (change[x].kind \in {"set", "clear", "rename"})'
                           /\ (change[x].before \in Profiles)' /\ (change[x].known \in Profiles)'
    BY <1>2 DEF ChangeType
  <2>2. profileFaults' \in 0..ProfileFaults /\ shown' \in Profiles /\ announced' \subseteq Changes
    BY <1>1, ChangeFields, ProfileAssumption DEF ProfileTypeOK
  <2>3. QED
    BY <1>1, <2>1, <2>2 DEF ProfileTypeOK
<1>5. PhotoHolds'
  <2> SUFFICES ASSUME ~photoRaced PROVE PhotoHolds'
    BY <1>1 DEF PhotoHolds
  <2>1. ~ChangesPhoto(q)' /\ \A x \in Changes : ChangesPhoto(x)' => ChangesPhoto(x) /\ x # q
    BY <1>1, <1>2 DEF ChangesPhoto
  <2>2. CASE change[q].kind = "rename"
    BY <1>1, <2>2 DEF ChangesHold
  <2>3. CASE change[q].kind # "rename"
    <3>1. ChangesPhoto(q) /\ \A x \in Changes : ~ChangesPhoto(x)'
      BY <1>1, <2>1, <2>3 DEF ChangesPhoto, PhotoHolds
    <3>2. profile.photo = IF change[q].kind = "set" THEN change[q].key ELSE NoPhoto
      BY <1>1, <3>1 DEF PhotoHolds
    <3>3. profile.photo \notin Replaced(q)
      BY <3>2 DEF Replaced
    <3>4. profile.photo \in avatarObjects' \cup {NoPhoto}
      BY <1>1, <3>3 DEF PhotoHolds
    <3>5. profileFaults' = 0 => avatarObjects' = avatarObjects \ Replaced(q) /\ profileFaults = 0
      BY <1>1 DEF ProfileTypeOK
    <3>6. ASSUME profileFaults' = 0, NEW k \in worn \cap avatarObjects' PROVE k = profile.photo
      <4>1. k = profile.photo \/ k = change[q].before.photo
        BY <3>1, <3>5, <3>6, <2>1 DEF PhotoHolds
      <4>2. k # NoPhoto
        BY <3>6, ProfileAssumption DEF ProfileTypeOK
      <4>3. QED
        BY <3>2, <3>5, <3>6, <4>1, <4>2 DEF Replaced
    <3>7. QED
      BY <1>1, <3>1, <3>4, <3>6 DEF PhotoHolds
  <2>4. QED
    BY <2>2, <2>3
<1>6. ShownHolds'
  BY <1>1, <1>2 DEF ShownHolds, Owes
<1>7. TitlesHold'
  <2>1. SUFFICES ASSUME ofGroup, profileFaults = 0, NEW n, Announced(n) PROVE Announced(n)'
    BY <1>1, <1>2 DEF TitlesHold, ProfileTypeOK
  <2>2. QED
    BY <1>1, <1>2, <2>1, AnnouncedStays DEF ProfileTypeOK
<1>8. QED
  BY <1>3, <1>4, <1>5, <1>6, <1>7

LEMMA AnnounceKeeps ==
  ASSUME ProfileInv, NEW q \in Changes, Announce(q)
  PROVE  ProfileInv'
<1> USE DEF ProfileInv
<1>1. PICK s \in {"announced"} :
         /\ MovesTo(q, s) /\ change[q].step = "dropped"
         /\ announced' = IF ofGroup /\ Announces(q) THEN announced \cup {q} ELSE announced
         /\ UNCHANGED <<ofGroup, profile, avatarObjects, uploaded, shown, worn, photoRaced, tellRaced, profileFaults>>
  BY DEF Announce, StepIs
<1>2. /\ change' \in [Changes -> ChangeType] /\ change[q].step = "dropped"
      /\ change'[q].step = s /\ \A x \in Changes : x # q => change'[x].step = change[x].step
      /\ \A x \in Changes : /\ change'[x].kind = change[x].kind /\ change'[x].key = change[x].key
                             /\ change'[x].title = change[x].title /\ change'[x].before = change[x].before
                             /\ change'[x].known = change[x].known
  BY <1>1, MovesFrame
<1>3. ChangesHold'
  BY <1>1, <1>2, ChangeFields DEF ChangesHold, ProfileTypeOK
<1>4. ProfileTypeOK'
  <2>1. \A x \in Changes : /\ (change[x].step \in {"unsent", "sent", "checked", "read", "written", "dropped", "announced", "done"})'
                           /\ (change[x].kind \in {"set", "clear", "rename"})'
                           /\ (change[x].before \in Profiles)' /\ (change[x].known \in Profiles)'
    BY <1>2 DEF ChangeType
  <2>2. profileFaults' \in 0..ProfileFaults /\ shown' \in Profiles /\ announced' \subseteq Changes
    BY <1>1, ChangeFields, ProfileAssumption DEF ProfileTypeOK
  <2>3. QED
    BY <1>1, <2>1, <2>2 DEF ProfileTypeOK
<1>5. PhotoHolds'
  BY <1>1, <1>2 DEF PhotoHolds, ChangesPhoto
<1>6. ShownHolds'
  BY <1>1, <1>2 DEF ShownHolds, Owes
<1>7. TitlesHold'
  <2>1. SUFFICES ASSUME ofGroup, profileFaults = 0, NEW n, Announced(n) PROVE Announced(n)'
    BY <1>1, <1>2 DEF TitlesHold
  <2>2. QED
    BY <1>1, <1>2, <2>1, AnnouncedStays DEF ProfileTypeOK
<1>8. QED
  BY <1>3, <1>4, <1>5, <1>6, <1>7

LEMMA BroadcastKeeps ==
  ASSUME ProfileInv, NEW q \in Changes, Broadcast(q)
  PROVE  ProfileInv'
<1> USE DEF ProfileInv
<1>1. PICK s \in {"done"} :
         /\ MovesTo(q, s) /\ change[q].step = "announced" /\ shown' = change[q].known
         /\ UNCHANGED <<ofGroup, profile, avatarObjects, uploaded, announced, worn, photoRaced, tellRaced, profileFaults>>
  BY DEF Broadcast, StepIs, Knows
<1>2. /\ change' \in [Changes -> ChangeType] /\ change[q].step = "announced"
      /\ change'[q].step = s /\ \A x \in Changes : x # q => change'[x].step = change[x].step
      /\ \A x \in Changes : /\ change'[x].kind = change[x].kind /\ change'[x].key = change[x].key
                             /\ change'[x].title = change[x].title /\ change'[x].before = change[x].before
                             /\ change'[x].known = change[x].known
  BY <1>1, MovesFrame
<1>3. ChangesHold'
  BY <1>1, <1>2, ChangeFields DEF ChangesHold, ProfileTypeOK
<1>4. ProfileTypeOK'
  <2>1. \A x \in Changes : /\ (change[x].step \in {"unsent", "sent", "checked", "read", "written", "dropped", "announced", "done"})'
                           /\ (change[x].kind \in {"set", "clear", "rename"})'
                           /\ (change[x].before \in Profiles)' /\ (change[x].known \in Profiles)'
    BY <1>2 DEF ChangeType
  <2>2. profileFaults' \in 0..ProfileFaults /\ shown' \in Profiles /\ announced' \subseteq Changes
    BY <1>1, ChangeFields, ProfileAssumption DEF ProfileTypeOK
  <2>3. QED
    BY <1>1, <2>1, <2>2 DEF ProfileTypeOK
<1>5. PhotoHolds'
  BY <1>1, <1>2 DEF PhotoHolds, ChangesPhoto
<1>6. ShownHolds'
  BY <1>1, <1>2 DEF ShownHolds, Owes
<1>7. TitlesHold'
  <2>1. SUFFICES ASSUME ofGroup, profileFaults = 0, NEW n, Announced(n) PROVE Announced(n)'
    BY <1>1, <1>2 DEF TitlesHold
  <2>2. QED
    BY <1>1, <1>2, <2>1, AnnouncedStays DEF ProfileTypeOK
<1>8. QED
  BY <1>3, <1>4, <1>5, <1>6, <1>7

LEMMA ChangeDiesKeeps ==
  ASSUME ProfileInv, NEW q \in Changes, ChangeDies(q)
  PROVE  ProfileInv'
<1> USE DEF ProfileInv
<1>1. PICK s \in {"done"} :
         /\ MovesTo(q, s) /\ change[q].step \in {"written", "dropped", "announced"}
         /\ profileFaults < ProfileFaults /\ profileFaults' = profileFaults + 1
         /\ UNCHANGED <<ofGroup, profile, avatarObjects, uploaded, shown, announced, worn, photoRaced, tellRaced>>
  BY DEF ChangeDies, ProfileFault
<1>2. /\ change' \in [Changes -> ChangeType] /\ change[q].step \in {"written", "dropped", "announced"}
      /\ change'[q].step = s /\ \A x \in Changes : x # q => change'[x].step = change[x].step
      /\ \A x \in Changes : /\ change'[x].kind = change[x].kind /\ change'[x].key = change[x].key
                             /\ change'[x].title = change[x].title /\ change'[x].before = change[x].before
                             /\ change'[x].known = change[x].known
  BY <1>1, MovesFrame
<1>0. profileFaults \in Nat /\ profileFaults' # 0
  BY <1>1 DEF ProfileTypeOK
<1>3. ChangesHold'
  BY <1>1, <1>2, ChangeFields DEF ChangesHold, ProfileTypeOK
<1>4. ProfileTypeOK'
  <2>1. \A x \in Changes : /\ (change[x].step \in {"unsent", "sent", "checked", "read", "written", "dropped", "announced", "done"})'
                           /\ (change[x].kind \in {"set", "clear", "rename"})'
                           /\ (change[x].before \in Profiles)' /\ (change[x].known \in Profiles)'
    BY <1>2 DEF ChangeType
  <2>2. profileFaults' \in 0..ProfileFaults /\ shown' \in Profiles /\ announced' \subseteq Changes
    BY <1>1, ChangeFields, ProfileAssumption DEF ProfileTypeOK
  <2>3. QED
    BY <1>1, <2>1, <2>2 DEF ProfileTypeOK
<1>5. PhotoHolds'
  BY <1>0, <1>1, <1>2 DEF PhotoHolds, ChangesPhoto
<1>6. ShownHolds'
  BY <1>0, <1>1, <1>2 DEF ShownHolds, Owes
<1>7. TitlesHold'
  BY <1>0 DEF TitlesHold
<1>8. QED
  BY <1>3, <1>4, <1>5, <1>6, <1>7

LEMMA ProfileKept == ASSUME ProfileInv, [ProfileNext]_profileVars PROVE ProfileInv'
<1>1. CASE UNCHANGED profileVars
  BY <1>1 DEF profileVars, ProfileInv, ProfileTypeOK, ChangesHold, PhotoHolds, ChangesPhoto,
     ShownHolds, Owes, TitlesHold, Announced, Announces
<1>2. CASE ProfileNext
  BY <1>2, UploadPhotoKeeps, SendChangeKeeps, CheckObjectKeeps, ReadBeforeKeeps,
     WriteProfileKeeps, DropReplacedKeeps, AnnounceKeeps, BroadcastKeeps, ChangeDiesKeeps DEF
     ProfileNext
<1>3. QED
  BY <1>1, <1>2

LEMMA ProfileStarts == ProfileInit => ProfileInv
<1> SUFFICES ASSUME ProfileInit PROVE ProfileInv
  OBVIOUS
<1> USE ProfileAssumption DEF ProfileInit, Unsent, Rows0
<1>1. ChangesHold
  BY DEF ChangesHold, ChangeType, Profiles
<1>2. ProfileTypeOK
  <2>1. profile \in Profiles /\ 0 \in 0..ProfileFaults
    BY DEF Profiles
  <2>2. \A q \in Changes : change[q] = Unsent /\ Unsent.step = "unsent" /\ Unsent.kind = "set" /\ Unsent.before \in Profiles /\ Unsent.known \in Profiles
    BY DEF Profiles
  <2>3. QED
    BY <2>1, <2>2 DEF ProfileTypeOK
<1>3. PhotoHolds /\ ShownHolds /\ TitlesHold
  BY DEF PhotoHolds, ChangesPhoto, ShownHolds, Owes, TitlesHold, Announced
<1>4. QED
  BY <1>1, <1>2, <1>3 DEF ProfileInv

LEMMA ProfileAlways == ProfileSpec => [](ProfileTypeOK /\ PhotoIsStored /\ ViewersShowTheRow)
<1>1. ASSUME ProfileInv PROVE PhotoIsStored
  BY <1>1 DEF ProfileInv, PhotoHolds, PhotoIsStored, StepIs
<1>2. ASSUME ProfileInv PROVE ViewersShowTheRow
  BY <1>2 DEF ProfileInv, ShownHolds, Owes, TitlesHold, Announced, ViewersShowTheRow, Settled
<1>3. ProfileInv => ProfileTypeOK /\ PhotoIsStored /\ ViewersShowTheRow
  BY <1>1, <1>2 DEF ProfileInv
<1>4. QED
  BY <1>3, ProfileStarts, ProfileKept, PTL DEF ProfileSpec

\* A reader of the list is shown every chat, and devices and viewers are told
\* what is stored, but for overlapping requests and requests that died.
THEOREM ViewsHoldAlways == ListSpec /\ ProfileSpec => []ViewsHold
<1>1. (ListTypeOK /\ ListIsComplete /\ DevicesShowSwitches)
        /\ (ProfileTypeOK /\ PhotoIsStored /\ ViewersShowTheRow) => ViewsHold
  BY DEF ViewsHold
<1>2. QED
  BY <1>1, ListAlways, ProfileAlways, PTL

-----------------------------------------------------------------------------
(***************************************************************************)
(* Search.  Of the streams: while none ran on past its key, the one that   *)
(* runs has its key.  Of the texts to embed: each is in one place, the     *)
(* list or the hands of one task, with the number of its failed tries; a   *)
(* failure moves it, and only an outcome takes it away.                    *)
(***************************************************************************)

\* While no stream ran on past its key: one stream at most, and with its key.
\* A key that is there belongs to a stream that runs, unless one was left.
StreamInv ==
    /\ StreamTypeOK
    /\ ~outlived => /\ \A a, b \in Streams : Runs(a) /\ Runs(b) => a = b
                    /\ \A a \in Streams : Runs(a) => lockEnd > streamClock
    /\ lockEnd > streamClock /\ ~leftLocked => \E a \in Streams : Runs(a)
    /\ refusedIdle => leftLocked

LEMMA StreamInitInv == StreamInit => StreamInv
<1> SUFFICES ASSUME StreamInit PROVE StreamInv
  OBVIOUS
<1>1. StreamTypeOK
  <2>1. 0 \in 0..StreamTicks /\ 0 \in 0..MaxRows /\ 0 \in 0..StreamFaults /\ 0 \in 0..StreamTicks + LockTtl
    BY StreamAssumption
  <2>2. NoStream \in [step : {"unsent", "admitted", "opened", "rows", "leaving", "over", "refused"},
                     since : 0..StreamTicks, rows : 0..MaxRows, cut : BOOLEAN]
    BY <2>1 DEF NoStream
  <2>3. QED
    BY <2>1, <2>2 DEF StreamInit, StreamTypeOK
<1>2. \A a \in Streams : ~Runs(a)
  BY DEF StreamInit, NoStream, Runs
<1>3. QED
  BY <1>1, <1>2 DEF StreamInit, StreamInv

\* A step of a stream that neither begins nor ends it, nor touches the key.
LEMMA StreamGoesOn ==
    ASSUME StreamInv, StreamTypeOK', \A o \in Streams : Runs(o)' = Runs(o),
           UNCHANGED <<lockEnd, outlived, leftLocked, refusedIdle, streamClock>>
    PROVE  StreamInv'
BY DEF StreamInv

LEMMA StreamStepInv == StreamInv /\ [StreamNext]_streamVars => StreamInv'
<1> SUFFICES ASSUME StreamInv, [StreamNext]_streamVars PROVE StreamInv'
  OBVIOUS
<1> DEFINE Steps == {"unsent", "admitted", "opened", "rows", "leaving", "over", "refused"}
           StreamState == [step : Steps, since : 0..StreamTicks, rows : 0..MaxRows, cut : BOOLEAN]
<1>0. /\ StreamTypeOK /\ stream \in [Streams -> StreamState]
      /\ lockEnd \in Nat /\ streamClock \in Nat /\ streamClock <= StreamTicks
      /\ streamFaults \in 0..StreamFaults /\ LockTtl \in Nat \ {0}
  BY StreamAssumption DEF StreamInv, StreamTypeOK
<1>1. ASSUME NEW r \in Streams PROVE stream[r] \in StreamState
  BY <1>0
<1>2. ASSUME NEW r \in Streams, NEW e \in Steps
      PROVE  [stream EXCEPT ![r].step = e] \in [Streams -> StreamState]
  BY <1>0, <1>1
<1>3. ASSUME NEW r \in Streams, NEW e \in Steps, Enters(r, e)
      PROVE  /\ stream' \in [Streams -> StreamState]
             /\ stream'[r].step = e
             /\ \A o \in Streams : o # r => Runs(o)' = Runs(o)
  <2>1. stream'[r].step = e
    BY <1>0, <1>1, <1>3 DEF Enters
  <2>2. \A o \in Streams : o # r => stream'[o] = stream[o]
    BY <1>0, <1>3 DEF Enters
  <2>3. stream' \in [Streams -> StreamState]
    BY <1>2, <1>3 DEF Enters
  <2>4. QED
    BY <2>1, <2>2, <2>3 DEF Runs
<1>4. CASE StreamTick
  <2>1. StreamTypeOK'
    BY <1>0, <1>4, StreamAssumption DEF StreamTypeOK, StreamTick
  <2>2. \A o \in Streams : Runs(o)' = Runs(o)
    BY <1>4 DEF StreamTick, Runs
  <2>3. /\ streamClock' = streamClock + 1 /\ UNCHANGED <<lockEnd, leftLocked, refusedIdle>>
        /\ ~outlived' => ~outlived /\ ~(lockEnd = streamClock + 1 /\ \E a \in Streams : Runs(a))
    BY <1>4 DEF StreamTick
  <2>4. ~outlived' => /\ \A a, b \in Streams : Runs(a)' /\ Runs(b)' => a = b
                      /\ \A a \in Streams : Runs(a)' => lockEnd' > streamClock'
    BY <1>0, <2>2, <2>3 DEF StreamInv
  <2>5. lockEnd' > streamClock' /\ ~leftLocked' => \E a \in Streams : Runs(a)'
    BY <1>0, <2>2, <2>3 DEF StreamInv
  <2>6. QED
    BY <2>1, <2>3, <2>4, <2>5 DEF StreamInv
<1>5. ASSUME NEW r \in Streams, Open(r) PROVE StreamInv'
  <2>1. CASE Admits(r)
    <3>1. /\ lockEnd' = streamClock + LockTtl /\ Enters(r, "admitted")
          /\ UNCHANGED <<outlived, leftLocked, refusedIdle, streamFaults, streamClock>>
      BY <1>5, <2>1 DEF Open
    <3>2. StreamTypeOK'
      BY <1>0, <1>3, <3>1, StreamAssumption DEF StreamTypeOK
    <3>3. Runs(r)' /\ \A o \in Streams : o # r => Runs(o)' = Runs(o)
      BY <1>3, <3>1 DEF Runs
    <3>4. ~outlived => \A o \in Streams : ~Runs(o)
      BY <1>0, <2>1 DEF StreamInv, Admits
    <3>5. QED
      BY <1>0, <3>1, <3>2, <3>3, <3>4 DEF StreamInv
  <2>2. CASE ~Admits(r)
    <3>1. /\ Enters(r, "refused") /\ stream[r].step = "unsent"
          /\ refusedIdle' = (refusedIdle \/ ~\E o \in Streams : Runs(o))
          /\ UNCHANGED <<lockEnd, outlived, leftLocked, streamFaults, streamClock>>
      BY <1>5, <2>2 DEF Open
    <3>2. StreamTypeOK'
      BY <1>0, <1>3, <3>1 DEF StreamTypeOK
    <3>3. \A o \in Streams : Runs(o)' = Runs(o)
      BY <1>3, <3>1 DEF Runs
    <3>4. lockEnd > streamClock
      BY <1>0, <2>2 DEF Admits
    <3>5. QED
      BY <1>0, <3>1, <3>2, <3>3, <3>4 DEF StreamInv
  <2>3. QED
    BY <2>1, <2>2
<1>6. ASSUME NEW r \in Streams, Start(r) \/ Query(r) \/ Row(r) \/ Broken(r) PROVE StreamInv'
  <2>1. /\ stream[r] \in StreamState /\ Runs(r)
        /\ UNCHANGED <<lockEnd, outlived, leftLocked, refusedIdle, streamClock>>
        /\ streamFaults' \in 0..StreamFaults
    BY <1>0, <1>1, <1>6, StreamAssumption DEF Start, Query, Row, Broken, Runs, StreamFault
  <2>2. PICK st \in StreamState : /\ st.step \in {"opened", "rows", "leaving"}
                                  /\ stream' = [stream EXCEPT ![r] = st]
    <3>1. CASE Start(r)
      <4>1. [stream[r] EXCEPT !.step = "opened", !.since = streamClock] \in StreamState
        <5>1. streamClock \in 0..StreamTicks
          BY <1>0, StreamAssumption
        <5>2. QED
          BY <2>1, <5>1
      <4>2. QED
        BY <3>1, <4>1 DEF Start
    <3>2. CASE Enters(r, "rows") \/ Enters(r, "leaving")
      <4>1. /\ [stream[r] EXCEPT !.step = "rows"] \in StreamState
            /\ [stream[r] EXCEPT !.step = "leaving"] \in StreamState
        BY <2>1
      <4>2. QED
        BY <3>2, <4>1 DEF Enters
    <3>3. CASE Row(r) /\ ~Enters(r, "leaving")
      <4>1. stream[r].step = "rows" /\ stream[r].rows \in 0..MaxRows
        BY <2>1, <3>3 DEF Row
      <4>2. CASE stream' = [stream EXCEPT ![r] = [@ EXCEPT !.step = "leaving", !.cut = TRUE]]
        <5>1. [stream[r] EXCEPT !.step = "leaving", !.cut = TRUE] \in StreamState
          BY <2>1
        <5>2. QED
          BY <4>2, <5>1
      <4>3. CASE ~Cut(r) /\ stream' = [stream EXCEPT ![r].rows = @ + 1]
        <5>1. stream[r].rows < MaxRows
          BY <4>1, <4>3, StreamAssumption DEF Cut
        <5>2. [stream[r] EXCEPT !.rows = @ + 1] \in StreamState
          BY <2>1, <4>1, <5>1, StreamAssumption
        <5>3. [stream[r] EXCEPT !.rows = @ + 1].step = "rows"
          BY <2>1, <4>1
        <5>4. QED
          BY <4>3, <5>2, <5>3
      <4>4. QED
        BY <3>3, <4>2, <4>3 DEF Row
    <3>4. QED
      BY <1>6, <3>1, <3>2, <3>3 DEF Query, Broken
  <2>3. \A o \in Streams : Runs(o)' = Runs(o)
    BY <1>0, <2>1, <2>2 DEF Runs
  <2>4. stream' \in [Streams -> StreamState]
    BY <1>0, <2>2
  <2>5. StreamTypeOK'
    BY <1>0, <2>1, <2>4 DEF StreamTypeOK
  <2>6. QED
    BY <2>1, <2>3, <2>5, StreamGoesOn
<1>7. ASSUME NEW r \in Streams, LeftEarly(r) \/ Leave(r) PROVE StreamInv'
  <2>1. /\ Runs(r) /\ Enters(r, "over") /\ streamFaults' \in 0..StreamFaults
        /\ UNCHANGED <<outlived, refusedIdle, streamClock>>
        /\ \/ lockEnd' = 0 /\ UNCHANGED leftLocked
           \/ leftLocked' = TRUE /\ UNCHANGED lockEnd
    BY <1>0, <1>7, StreamAssumption DEF LeftEarly, Leave, Runs, StreamFault
  <2>2. StreamTypeOK'
    <3>0. 0 \in 0..StreamTicks + LockTtl /\ TRUE \in BOOLEAN
      BY StreamAssumption
    <3>1. lockEnd' \in 0..StreamTicks + LockTtl /\ leftLocked' \in BOOLEAN
      BY <1>0, <2>1, <3>0, Zenon DEF StreamTypeOK
    <3>2. stream' \in [Streams -> StreamState]
      BY <1>3, <2>1
    <3>3. QED
      BY <1>0, <2>1, <3>1, <3>2 DEF StreamTypeOK
  <2>3. ~Runs(r)' /\ \A o \in Streams : o # r => Runs(o)' = Runs(o)
    BY <1>3, <2>1 DEF Runs
  <2>4. QED
    BY <1>0, <2>1, <2>2, <2>3 DEF StreamInv
<1>8. CASE UNCHANGED streamVars
  BY <1>8 DEF StreamInv, StreamTypeOK, Runs, streamVars
<1>9. QED
  BY <1>4, <1>5, <1>6, <1>7, <1>8 DEF StreamNext

LEMMA StreamInvHolds == StreamInv => StreamTypeOK /\ StreamsTakeTurns
<1> SUFFICES ASSUME StreamInv, ~outlived PROVE Cardinality({r \in Streams : Runs(r)}) <= 1
  BY DEF StreamInv, StreamsTakeTurns
<1>1. CASE {r \in Streams : Runs(r)} = {}
  BY <1>1, FS_EmptySet
<1>2. CASE {r \in Streams : Runs(r)} # {}
  <2>1. PICK r \in Streams : Runs(r)
    BY <1>2
  <2>2. {o \in Streams : Runs(o)} = {r}
    BY <2>1 DEF StreamInv
  <2>3. Cardinality({r}) = 1
    BY FS_Singleton
  <2>4. QED
    BY <2>2, <2>3
<1>3. QED
  BY <1>1, <1>2

LEMMA StreamsAlways == StreamSpec => [](StreamTypeOK /\ StreamsTakeTurns)
<1>1. QED
  BY StreamInitInv, StreamStepInv, StreamInvHolds, PTL DEF StreamSpec

-----------------------------------------------------------------------------
\* No text is twice in s.
Distinct(s) == \A i, j \in DOMAIN s : s[i].id = s[j].id => i = j

\* The attempts an item of s carries are the failed tries of its text.
Tried(F, s) == \A i \in DOMAIN s : F[s[i].id] = s[i].attempts

LEMMA ItemFields ==
    ASSUME NEW s \in Seq(Items), NEW i \in DOMAIN s
    PROVE  s[i] \in Items /\ s[i].id \in Texts /\ s[i].attempts \in 0..MaxTries - 1
<1>1. s[i] \in Items
  OBVIOUS
<1>2. QED
  BY <1>1 DEF Items

LEMMA EmptyItems ==
    /\ <<>> \in Seq(Items) /\ IdsOf(<<>>) = {} /\ Distinct(<<>>)
    /\ \A F : Tried(F, <<>>)
BY DEF IdsOf, Distinct, Tried

LEMMA ConcatAt ==
    ASSUME NEW s \in Seq(Items), NEW u \in Seq(Items)
    PROVE  /\ s \o u \in Seq(Items) /\ Len(s \o u) = Len(s) + Len(u)
           /\ \A i \in DOMAIN s : i \in DOMAIN (s \o u) /\ (s \o u)[i] = s[i]
           /\ \A i \in DOMAIN u : Len(s) + i \in DOMAIN (s \o u) /\ (s \o u)[Len(s) + i] = u[i]
           /\ \A i \in DOMAIN (s \o u) : \/ i \in DOMAIN s
                                         \/ i - Len(s) \in DOMAIN u /\ (s \o u)[i] = u[i - Len(s)] /\ i \notin DOMAIN s
<1>1. s \o u \in Seq(Items) /\ Len(s \o u) = Len(s) + Len(u)
  OBVIOUS
<1>2. \A i \in DOMAIN s : i \in DOMAIN (s \o u) /\ (s \o u)[i] = s[i]
  OBVIOUS
<1>3. \A i \in DOMAIN u : Len(s) + i \in DOMAIN (s \o u) /\ (s \o u)[Len(s) + i] = u[i]
  OBVIOUS
<1>4. \A i \in DOMAIN (s \o u) : \/ i \in DOMAIN s
                                 \/ i - Len(s) \in DOMAIN u /\ (s \o u)[i] = u[i - Len(s)] /\ i \notin DOMAIN s
  OBVIOUS
<1>5. QED
  BY <1>1, <1>2, <1>3, <1>4

\* Items pushed at the end of others.
LEMMA ConcatItems ==
    ASSUME NEW s \in Seq(Items), NEW u \in Seq(Items)
    PROVE  /\ s \o u \in Seq(Items)
           /\ IdsOf(s \o u) = IdsOf(s) \cup IdsOf(u)
           /\ Distinct(s) /\ Distinct(u) /\ IdsOf(s) \cap IdsOf(u) = {} => Distinct(s \o u)
           /\ \A F : Tried(F, s) /\ Tried(F, u) => Tried(F, s \o u)
<1>1. IdsOf(s \o u) = IdsOf(s) \cup IdsOf(u)
  <2>1. ASSUME NEW x \in IdsOf(s \o u) PROVE x \in IdsOf(s) \cup IdsOf(u)
    <3>1. PICK i \in DOMAIN (s \o u) : (s \o u)[i].id = x
      BY DEF IdsOf
    <3>2. \/ i \in DOMAIN s /\ (s \o u)[i] = s[i]
          \/ i - Len(s) \in DOMAIN u /\ (s \o u)[i] = u[i - Len(s)]
      BY ConcatAt
    <3>3. QED
      BY <3>1, <3>2 DEF IdsOf
  <2>2. ASSUME NEW x \in IdsOf(s) PROVE x \in IdsOf(s \o u)
    BY ConcatAt DEF IdsOf
  <2>3. ASSUME NEW x \in IdsOf(u) PROVE x \in IdsOf(s \o u)
    <3>1. PICK i \in DOMAIN u : u[i].id = x
      BY DEF IdsOf
    <3>2. Len(s) + i \in DOMAIN (s \o u) /\ (s \o u)[Len(s) + i].id = x
      BY <3>1, ConcatAt
    <3>3. QED
      BY <3>2 DEF IdsOf
  <2>4. QED
    BY <2>1, <2>2, <2>3
<1>2. ASSUME Distinct(s), Distinct(u), IdsOf(s) \cap IdsOf(u) = {}
      PROVE  Distinct(s \o u)
  <2>1. SUFFICES ASSUME NEW i \in DOMAIN (s \o u), NEW j \in DOMAIN (s \o u), (s \o u)[i].id = (s \o u)[j].id
                 PROVE  i = j
    BY DEF Distinct
  <2>2. \/ i \in DOMAIN s /\ (s \o u)[i] = s[i]
        \/ i - Len(s) \in DOMAIN u /\ (s \o u)[i] = u[i - Len(s)]
    BY ConcatAt
  <2>3. \/ j \in DOMAIN s /\ (s \o u)[j] = s[j]
        \/ j - Len(s) \in DOMAIN u /\ (s \o u)[j] = u[j - Len(s)]
    BY ConcatAt
  <2>4. \A k \in DOMAIN s, l \in DOMAIN u : s[k].id # u[l].id
    BY <1>2 DEF IdsOf
  <2>5. CASE i \in DOMAIN s /\ j \in DOMAIN s /\ (s \o u)[i] = s[i] /\ (s \o u)[j] = s[j]
    BY <1>2, <2>1, <2>5 DEF Distinct
  <2>6. CASE /\ i - Len(s) \in DOMAIN u /\ (s \o u)[i] = u[i - Len(s)]
             /\ j - Len(s) \in DOMAIN u /\ (s \o u)[j] = u[j - Len(s)]
    <3>1. i - Len(s) = j - Len(s)
      BY <1>2, <2>1, <2>6 DEF Distinct
    <3>2. i \in Nat /\ j \in Nat /\ Len(s) \in Nat
      BY ConcatAt
    <3>3. QED
      BY <3>1, <3>2
  <2>7. QED
    BY <2>1, <2>2, <2>3, <2>4, <2>5, <2>6
<1>3. ASSUME NEW F, Tried(F, s), Tried(F, u) PROVE Tried(F, s \o u)
  BY <1>3, ConcatAt DEF Tried
<1>4. QED
  BY <1>1, <1>2, <1>3, ConcatAt

\* Items cut in two.
LEMMA SplitItems ==
    ASSUME NEW s \in Seq(Items), NEW k \in 0..Len(s)
    PROVE  LET a == SubSeq(s, 1, k)
               b == SubSeq(s, k + 1, Len(s))
           IN  /\ a \in Seq(Items) /\ Len(a) = k /\ b \in Seq(Items) /\ Len(b) = Len(s) - k
               /\ IdsOf(a) \cup IdsOf(b) = IdsOf(s)
               /\ Distinct(s) => Distinct(a) /\ Distinct(b) /\ IdsOf(a) \cap IdsOf(b) = {}
               /\ \A F : Tried(F, s) => Tried(F, a) /\ Tried(F, b)
<1> DEFINE a == SubSeq(s, 1, k)
           b == SubSeq(s, k + 1, Len(s))
<1>0. Len(s) \in Nat /\ k \in Nat /\ k <= Len(s) /\ DOMAIN s = 1..Len(s)
  OBVIOUS
<1>1. a \in Seq(Items) /\ Len(a) = k /\ DOMAIN a = 1..k /\ \A i \in 1..k : a[i] = s[i]
  BY <1>0
<1>2. /\ b \in Seq(Items) /\ Len(b) = Len(s) - k /\ DOMAIN b = 1..Len(s) - k
      /\ \A i \in 1..Len(s) - k : b[i] = s[k + i]
  <2>1. b \in Seq(Items) /\ Len(b) = Len(s) - k
    <3>1. k + 1 \in 1..Len(s) + 1 /\ Len(s) \in k..Len(s) /\ Len(s) - (k + 1) + 1 = Len(s) - k /\ Len(s) - k \in Nat
      BY <1>0
    <3>2. \A i \in k + 1..Len(s) : s[i] \in Items
      BY <1>0
    <3>3. /\ b \in Seq(Items)
          /\ Len(b) = IF k + 1 <= Len(s) THEN Len(s) - (k + 1) + 1 ELSE 0
      BY <1>0, <3>1, <3>2, SubSeqProperties
    <3>4. Len(b) = Len(s) - k
      <4>1. \A l, j \in Nat : j <= l => (j + 1 <= l /\ l - (j + 1) + 1 = l - j) \/ (~(j + 1 <= l) /\ 0 = l - j)
        OBVIOUS
      <4>2. \/ k + 1 <= Len(s) /\ Len(s) - (k + 1) + 1 = Len(s) - k
            \/ ~(k + 1 <= Len(s)) /\ 0 = Len(s) - k
        BY <1>0, <4>1, Zenon
      <4>3. CASE k + 1 <= Len(s) /\ Len(s) - (k + 1) + 1 = Len(s) - k
        <5>1. Len(b) = Len(s) - (k + 1) + 1
          BY <3>3, <4>3
        <5>2. QED
          BY <4>3, <5>1, Zenon
      <4>4. CASE ~(k + 1 <= Len(s)) /\ 0 = Len(s) - k
        <5>1. Len(b) = 0
          BY <3>3, <4>4
        <5>2. QED
          BY <4>4, <5>1, Zenon
      <4>5. QED
        BY <4>2, <4>3, <4>4
    <3>5. QED
      BY <3>3, <3>4
  <2>2. \A i \in 1..Len(s) - k : b[i] = s[k + i]
    <3>1. ASSUME NEW i \in 1..Len(s) - k PROVE b[i] = s[k + 1 + i - 1] /\ k + 1 + i - 1 = k + i
      BY <1>0
    <3>2. QED
      BY <3>1
  <2>3. QED
    BY <2>1, <2>2
<1>3. \A i \in DOMAIN a : i \in DOMAIN s /\ a[i] = s[i]
  BY <1>0, <1>1
<1>4. \A i \in DOMAIN b : k + i \in DOMAIN s /\ b[i] = s[k + i]
  BY <1>0, <1>2
<1>5. \A i \in DOMAIN s : i \in DOMAIN a \/ (i - k \in DOMAIN b /\ b[i - k] = s[i])
  <2>1. ASSUME NEW i \in DOMAIN s, i \notin DOMAIN a PROVE i - k \in 1..Len(s) - k /\ k + (i - k) = i
    BY <1>0, <1>1, <2>1
  <2>2. QED
    BY <1>2, <2>1
<1> HIDE DEF a, b
<1>6. IdsOf(a) \cup IdsOf(b) = IdsOf(s)
  BY <1>3, <1>4, <1>5 DEF IdsOf
<1>7. ASSUME Distinct(s) PROVE Distinct(a) /\ Distinct(b) /\ IdsOf(a) \cap IdsOf(b) = {}
  <2>1. Distinct(a)
    BY <1>3, <1>7 DEF Distinct
  <2>2. Distinct(b)
    <3>1. SUFFICES ASSUME NEW i \in DOMAIN b, NEW j \in DOMAIN b, b[i].id = b[j].id PROVE i = j
      BY DEF Distinct
    <3>2. k + i = k + j
      BY <1>4, <1>7, <3>1 DEF Distinct
    <3>3. QED
      BY <1>0, <1>2, <3>2
  <2>3. ASSUME NEW i \in DOMAIN a, NEW j \in DOMAIN b, a[i].id = b[j].id PROVE FALSE
    <3>1. i = k + j
      BY <1>3, <1>4, <1>7, <2>3 DEF Distinct
    <3>2. QED
      BY <1>0, <1>1, <1>2, <3>1
  <2>4. QED
    BY <2>1, <2>2, <2>3 DEF IdsOf
<1>8. ASSUME NEW F, Tried(F, s) PROVE Tried(F, a) /\ Tried(F, b)
  BY <1>3, <1>4, <1>8 DEF Tried
<1>9. QED
  BY <1>1, <1>2, <1>6, <1>7, <1>8 DEF a, b

\* The positions of K in their order.
LEMMA NthRanks ==
    ASSUME NEW n \in Nat, NEW K \in SUBSET (1..n)
    PROVE  /\ Cardinality(K) \in Nat
           /\ \A j \in 1..Cardinality(K) : Nth(K, j) \in K
           /\ \A j, m \in 1..Cardinality(K) : Nth(K, j) = Nth(K, m) => j = m
           /\ \A i \in K : \E j \in 1..Cardinality(K) : Nth(K, j) = i
<1> DEFINE Upto(i) == {k \in K : k <= i}
           rank == [i \in K |-> Cardinality(Upto(i))]
<1>1. IsFiniteSet(K) /\ Cardinality(K) \in Nat
  <2>1. IsFiniteSet(1..n)
    BY FS_Interval
  <2>2. QED
    BY <2>1, FS_Subset, FS_CardinalityType
<1>2. ASSUME NEW i \in K PROVE IsFiniteSet(Upto(i)) /\ Cardinality(Upto(i)) \in 1..Cardinality(K)
  <2>1. IsFiniteSet(Upto(i)) /\ Cardinality(Upto(i)) <= Cardinality(K) /\ Cardinality(Upto(i)) \in Nat
    BY <1>1, FS_Subset, FS_CardinalityType
  <2>2. i \in Upto(i)
    OBVIOUS
  <2>3. Cardinality(Upto(i)) # 0
    BY <2>1, <2>2, FS_EmptySet
  <2>4. QED
    BY <1>1, <2>1, <2>3
<1>3. ASSUME NEW i \in K, NEW m \in K, i < m PROVE Cardinality(Upto(i)) # Cardinality(Upto(m))
  <2>1. Upto(i) \in SUBSET Upto(m)
    <3>1. i \in Int /\ m \in Int /\ \A k \in K : k \in Int
      OBVIOUS
    <3>2. \A k \in K : k <= i => k <= m
      BY <1>3, <3>1
    <3>3. QED
      BY <3>2, Zenon
  <2>2. m \in Upto(m) /\ m \notin Upto(i)
    BY <1>3
  <2>3. QED
    BY <1>2, <2>1, <2>2, FS_Subset
<1>4. \A i, m \in K : Cardinality(Upto(i)) = Cardinality(Upto(m)) => i = m
  <2>1. SUFFICES ASSUME NEW i \in K, NEW m \in K, i # m PROVE Cardinality(Upto(i)) # Cardinality(Upto(m))
    OBVIOUS
  <2>2. i < m \/ m < i
    BY <2>1
  <2>3. QED
    BY <1>3, <2>2
<1>5. rank \in Injection(K, 1..Cardinality(K))
  <2>1. rank \in [K -> 1..Cardinality(K)]
    BY <1>2
  <2>2. \A i, m \in K : rank[i] = rank[m] => i = m
    BY <1>4
  <2>3. QED
    <3> HIDE DEF rank
    <3>1. QED
      BY <2>1, <2>2 DEF Injection, IsInjective
<1>6. IsFiniteSet(1..Cardinality(K)) /\ Cardinality(1..Cardinality(K)) = Cardinality(K)
  <2>1. \A c \in Nat : IsFiniteSet(1..c) /\ Cardinality(1..c) = c
    BY FS_Interval
  <2>2. QED
    BY <1>1, <2>1
<1>7. rank \in Surjection(K, 1..Cardinality(K))
  <2> HIDE DEF rank
  <2>1. QED
    BY <1>5, <1>6, FS_Injection
<1>8. ASSUME NEW j \in 1..Cardinality(K)
      PROVE  Nth(K, j) \in K /\ Cardinality(Upto(Nth(K, j))) = j
  <2>1. \E i \in K : Cardinality(Upto(i)) = j
    BY <1>7 DEF Surjection
  <2>2. QED
    BY <2>1, Zenon DEF Nth
<1>9. ASSUME NEW i \in K PROVE \E j \in 1..Cardinality(K) : Nth(K, j) = i
  <2>1. Cardinality(Upto(i)) \in 1..Cardinality(K)
    BY <1>2
  <2>2. Nth(K, Cardinality(Upto(i))) = i
    BY <1>4, <1>8, <2>1
  <2>3. QED
    BY <2>1, <2>2
<1>10. \A j, m \in 1..Cardinality(K) : Nth(K, j) = Nth(K, m) => j = m
  BY <1>8
<1>11. QED
  BY <1>1, <1>8, <1>9, <1>10

\* What _bump_or_drop keeps of items that are in no text twice.
LEMMA AgainItems ==
    ASSUME NEW s \in Seq(Items), Distinct(s)
    PROVE  /\ Again(s) \in Seq(Items) /\ Distinct(Again(s))
           /\ IdsOf(Again(s)) = {s[i].id : i \in {j \in DOMAIN s : ~LastTry(s[j])}}
           /\ \A i \in DOMAIN Again(s) : \E j \in DOMAIN s : /\ Again(s)[i].id = s[j].id
                                                            /\ Again(s)[i].attempts = s[j].attempts + 1
<1> DEFINE K == {i \in DOMAIN s : ~LastTry(s[i])}
           A == [j \in 1..Cardinality(K) |-> [s[Nth(K, j)] EXCEPT !.attempts = @ + 1]]
<1>0. Again(s) = A
  BY DEF Again
<1>1. Len(s) \in Nat /\ K \in SUBSET (1..Len(s))
  OBVIOUS
<1>2. /\ Cardinality(K) \in Nat
      /\ \A j \in 1..Cardinality(K) : Nth(K, j) \in K
      /\ \A j, m \in 1..Cardinality(K) : Nth(K, j) = Nth(K, m) => j = m
      /\ \A i \in K : \E j \in 1..Cardinality(K) : Nth(K, j) = i
  <2> HIDE DEF K
  <2>1. QED
    BY <1>1, NthRanks
<1>3. ASSUME NEW i \in K
      PROVE  LET it == [s[i] EXCEPT !.attempts = @ + 1]
             IN  it \in Items /\ it.id = s[i].id /\ it.attempts = s[i].attempts + 1
  <2>1. s[i] \in Items /\ s[i].attempts \in 0..MaxTries - 1
    BY ItemFields
  <2>2. s[i].attempts + 1 < MaxTries
    BY <2>1, EmbedAssumption DEF LastTry
  <2>3. s[i].attempts + 1 \in 0..MaxTries - 1
    BY <2>1, <2>2, EmbedAssumption
  <2>4. QED
    BY <2>1, <2>3 DEF Items
<1>4. ASSUME NEW j \in 1..Cardinality(K)
      PROVE  /\ A[j] \in Items /\ Nth(K, j) \in K /\ Nth(K, j) \in DOMAIN s
             /\ A[j].id = s[Nth(K, j)].id /\ A[j].attempts = s[Nth(K, j)].attempts + 1
  <2>1. Nth(K, j) \in K
    BY <1>2
  <2>2. QED
    BY <1>3, <2>1
<1>5. A \in Seq(Items) /\ DOMAIN A = 1..Cardinality(K)
  <2>1. A = [j \in 1..Cardinality(K) |-> A[j]]
    OBVIOUS
  <2>2. A \in [1..Cardinality(K) -> Items]
    <3> HIDE DEF A
    <3>1. QED
      BY <1>4, <2>1, Zenon
  <2>3. QED
    <3> HIDE DEF A, K
    <3>1. QED
      BY <1>2, <2>2
<1> HIDE DEF A
<1>6. Distinct(A)
  BY <1>2, <1>4, <1>5 DEF Distinct
<1>7. IdsOf(A) = {s[i].id : i \in K}
  <2>1. ASSUME NEW x \in IdsOf(A) PROVE x \in {s[i].id : i \in K}
    BY <1>4, <1>5 DEF IdsOf
  <2>2. ASSUME NEW i \in K PROVE s[i].id \in IdsOf(A)
    <3>1. PICK j \in 1..Cardinality(K) : Nth(K, j) = i
      BY <1>2
    <3>2. QED
      BY <1>4, <1>5, <3>1 DEF IdsOf
  <2>3. QED
    BY <2>1, <2>2
<1>8. QED
  BY <1>0, <1>4, <1>5, <1>6, <1>7

-----------------------------------------------------------------------------
\* What is in the hands of a task in state me, and that it is so only once.
HandIds(me) == IdsOf(me.items) \cup IdsOf(me.rows) \cup IdsOf(me.back)
HandOK(me) ==
    /\ me.at # "embed" => me.items = <<>> /\ me.rows = <<>> /\ me.back = <<>>
    /\ Distinct(me.items) /\ Distinct(me.rows) /\ Distinct(me.back)
    /\ IdsOf(me.items) \cap IdsOf(me.rows) = {}
    /\ IdsOf(me.items) \cap IdsOf(me.back) = {}
    /\ IdsOf(me.rows) \cap IdsOf(me.back) = {}
    /\ \A i \in DOMAIN me.pieces : me.pieces[i].behind <= Len(me.items)
    /\ \A i, j \in DOMAIN me.pieces : i < j => me.pieces[i].behind >= me.pieces[j].behind
HandTried(F, me) == Tried(F, me.items) /\ Tried(F, me.rows) /\ Tried(F, me.back)

\* Every text in the system is in one place, with its failed tries.
EmbedInv ==
    /\ EmbedTypeOK
    /\ \A t \in Tasks : HandOK(task[t]) /\ HandTried(failures, task[t])
    /\ Distinct(waiting) /\ Tried(failures, waiting)
    /\ \A t \in Tasks : HandIds(task[t]) \cap IdsOf(waiting) = {} /\ HandIds(task[t]) \subseteq sent
    /\ \A t, u \in Tasks : t # u => HandIds(task[t]) \cap HandIds(task[u]) = {}
    /\ IdsOf(waiting) \subseteq sent
    /\ \A x \in sent \ (embedded \cup dropped \cup textsLost) :
           x \in IdsOf(waiting) \/ \E t \in Tasks : x \in HandIds(task[t])
    /\ \A x \in Texts \ sent : failures[x] = 0
    /\ DroppedForCause

LEMMA IdsAreTexts == ASSUME NEW s \in Seq(Items) PROVE IdsOf(s) \subseteq Texts
BY ItemFields DEF IdsOf

LEMMA StateFields ==
    ASSUME NEW me \in TaskState
    PROVE  /\ me.items \in Seq(Items) /\ me.rows \in Seq(Items) /\ me.back \in Seq(Items)
           /\ me.pieces \in Seq([behind : Nat, second : BOOLEAN])
           /\ me.at \in {"idle", "check", "pop", "embed"} /\ me.rounds \in 0..DrainRounds
           /\ me.budget \in Nat /\ me.broken \in BOOLEAN
BY DEF TaskState

\* An item that was tried is not affected by the failures of others.
LEMMA TriedKept ==
    ASSUME NEW s \in Seq(Items), NEW F, NEW G, Tried(F, s), \A x \in IdsOf(s) : G[x] = F[x]
    PROVE  Tried(G, s)
BY DEF Tried, IdsOf

LEMMA EmptyHand ==
    ASSUME NEW me, me.items = <<>>, me.rows = <<>>, me.back = <<>>, me.pieces = <<>>
    PROVE  HandOK(me) /\ HandIds(me) = {} /\ \A F : HandTried(F, me)
<1>1. IdsOf(<<>>) = {} /\ Distinct(<<>>) /\ \A F : Tried(F, <<>>)
  BY EmptyItems
<1>2. HandIds(me) = {} /\ \A F : HandTried(F, me)
  BY <1>1 DEF HandIds, HandTried
<1>3. HandOK(me)
  BY <1>1 DEF HandOK
<1>4. QED
  BY <1>2, <1>3

LEMMA IdleState ==
    /\ IdleTask \in TaskState
    /\ IdleTask.items = <<>> /\ IdleTask.rows = <<>> /\ IdleTask.back = <<>> /\ IdleTask.pieces = <<>>
<1>1. <<>> \in Seq(Items) /\ <<>> \in Seq([behind : Nat, second : BOOLEAN]) /\ 0 \in 0..DrainRounds /\ 0 \in Nat
  BY EmbedAssumption
<1>2. QED
  BY <1>1 DEF IdleTask, TaskState

LEMMA EmbedInitInv == EmbedInit => EmbedInv
<1> SUFFICES ASSUME EmbedInit PROVE EmbedInv
  OBVIOUS
<1>1. EmbedTypeOK
  <2>1. <<>> \in Seq(Items) /\ 0 \in 0..MaxTries /\ 0 \in 0..QueueFaults
    BY EmbedAssumption
  <2>2. QED
    BY <2>1, IdleState DEF EmbedInit, EmbedTypeOK
<1>2. \A t \in Tasks : task[t] = IdleTask
  BY DEF EmbedInit
<1>3. HandOK(IdleTask) /\ HandIds(IdleTask) = {} /\ \A F : HandTried(F, IdleTask)
  BY IdleState, EmptyHand
<1>4. IdsOf(waiting) = {} /\ Distinct(waiting) /\ \A F : Tried(F, waiting)
  BY EmptyItems DEF EmbedInit
<1>5. QED
  BY <1>1, <1>2, <1>3, <1>4 DEF EmbedInit, EmbedInv, DroppedForCause

-----------------------------------------------------------------------------
\* A step of one task, which moves texts between its hands and the list.
LEMMA TaskStep ==
    ASSUME EmbedInv, EmbedTypeOK', NEW t \in Tasks, NEW me \in TaskState, Becomes(t, me),
           HandOK(me), HandTried(failures', me), Distinct(waiting'), Tried(failures', waiting'),
           IdsOf(waiting') \cup HandIds(me) \subseteq IdsOf(waiting) \cup HandIds(task[t]),
           IdsOf(waiting') \cap HandIds(me) = {},
           \A x \in IdsOf(waiting) \cup HandIds(task[t]) :
               x \in IdsOf(waiting') \cup HandIds(me) \cup embedded' \cup dropped' \cup textsLost',
           \A x \in Texts \ HandIds(task[t]) : failures'[x] = failures[x],
           UNCHANGED sent, embedded \subseteq embedded', dropped \subseteq dropped', textsLost \subseteq textsLost',
           DroppedForCause'
    PROVE  EmbedInv'
<1>0. /\ task \in [Tasks -> TaskState] /\ \A u \in Tasks : task[u] \in TaskState
      /\ \A u \in Tasks : HandOK(task[u]) /\ HandTried(failures, task[u])
      /\ \A u \in Tasks : HandIds(task[u]) \cap IdsOf(waiting) = {} /\ HandIds(task[u]) \subseteq sent
      /\ \A u, w \in Tasks : u # w => HandIds(task[u]) \cap HandIds(task[w]) = {}
      /\ IdsOf(waiting) \subseteq sent /\ sent \subseteq Texts
  BY DEF EmbedInv, EmbedTypeOK
<1>1. task'[t] = me /\ \A u \in Tasks : u # t => task'[u] = task[u]
  BY <1>0 DEF Becomes
<1>2. ASSUME NEW u \in Tasks, u # t PROVE HandTried(failures', task[u])
  <2>1. /\ task[u].items \in Seq(Items) /\ task[u].rows \in Seq(Items) /\ task[u].back \in Seq(Items)
    BY <1>0, StateFields
  <2>2. \A x \in HandIds(task[u]) : failures'[x] = failures[x]
    BY <1>0, <1>2
  <2>3. HandTried(failures, task[u])
    BY <1>0
  <2>4. QED
    BY <2>1, <2>2, <2>3, TriedKept DEF HandTried, HandIds
<1>3. \A u \in Tasks : HandOK(task'[u]) /\ HandTried(failures', task'[u])
  BY <1>0, <1>1, <1>2
<1>4. \A u \in Tasks : HandIds(task'[u]) \cap IdsOf(waiting') = {} /\ HandIds(task'[u]) \subseteq sent'
  <2>1. ASSUME NEW u \in Tasks, u # t PROVE HandIds(task'[u]) \cap IdsOf(waiting') = {} /\ HandIds(task'[u]) \subseteq sent'
    BY <1>0, <1>1, <2>1
  <2>2. HandIds(task'[t]) \cap IdsOf(waiting') = {} /\ HandIds(task'[t]) \subseteq sent'
    BY <1>0, <1>1
  <2>3. QED
    BY <2>1, <2>2
<1>5. \A u \in Tasks : u # t => HandIds(me) \cap HandIds(task[u]) = {}
  BY <1>0
<1>6. \A u, w \in Tasks : u # w => HandIds(task'[u]) \cap HandIds(task'[w]) = {}
  BY <1>0, <1>1, <1>5
<1>7. IdsOf(waiting') \subseteq sent'
  BY <1>0
<1>8. ASSUME NEW x \in sent' \ (embedded' \cup dropped' \cup textsLost')
      PROVE  x \in IdsOf(waiting') \/ \E u \in Tasks : x \in HandIds(task'[u])
  <2>1. x \in sent \ (embedded \cup dropped \cup textsLost)
    OBVIOUS
  <2>2. x \in IdsOf(waiting) \/ \E u \in Tasks : x \in HandIds(task[u])
    BY <2>1 DEF EmbedInv
  <2>3. CASE x \in IdsOf(waiting) \cup HandIds(task[t])
    <3>1. x \in IdsOf(waiting') \/ x \in HandIds(me)
      BY <1>8, <2>3
    <3>2. QED
      BY <1>1, <3>1
  <2>4. CASE \E u \in Tasks : u # t /\ x \in HandIds(task[u])
    BY <1>1, <2>4
  <2>5. QED
    BY <2>2, <2>3, <2>4
<1>9. \A x \in Texts \ sent' : failures'[x] = 0
  BY <1>0 DEF EmbedInv
<1>10. QED
  BY <1>3, <1>4, <1>6, <1>7, <1>8, <1>9, Zenon DEF EmbedInv

\* A step in which the failures, the outcomes and the list do not change, and
\* every task keeps what it holds.
LEMMA HandsKept ==
    ASSUME EmbedInv, EmbedTypeOK', NEW t \in Tasks, NEW me \in TaskState, Becomes(t, me),
           me.items = task[t].items, me.rows = task[t].rows, me.back = task[t].back,
           HandOK(me), UNCHANGED <<waiting, sent, embedded, dropped, failures, textsRefused, textsLost>>
    PROVE  EmbedInv'
<1>1. HandIds(me) = HandIds(task[t]) /\ HandTried(failures, me)
  BY DEF HandIds, HandTried, EmbedInv
<1>2. DroppedForCause'
  BY DEF DroppedForCause, EmbedInv
<1>3. HandIds(me) \cap IdsOf(waiting') = {} /\ Distinct(waiting') /\ Tried(failures', waiting')
  BY <1>1 DEF EmbedInv
<1>4. QED
  BY <1>1, <1>2, <1>3, TaskStep

-----------------------------------------------------------------------------
LEMMA TasksTyped ==
    ASSUME EmbedInv
    PROVE  /\ EmbedTypeOK /\ task \in [Tasks -> TaskState] /\ waiting \in Seq(Items)
           /\ \A t \in Tasks : task[t] \in TaskState /\ HandOK(task[t]) /\ HandTried(failures, task[t])
BY DEF EmbedInv, EmbedTypeOK

\* A task whose hands are empty goes to another place with empty hands.
LEMMA EmptyMove ==
    ASSUME EmbedInv, NEW t \in Tasks, NEW me \in TaskState, Becomes(t, me), HandOK(me),
           task[t].at # "embed", me.items = <<>>, me.rows = <<>>, me.back = <<>>,
           UNCHANGED <<waiting, sent, embedded, dropped, failures, textsRefused, textsLost>>,
           paused' \in BOOLEAN, queueFaults' \in 0..QueueFaults
    PROVE  EmbedInv'
<1>1. task[t].items = <<>> /\ task[t].rows = <<>> /\ task[t].back = <<>>
  BY TasksTyped DEF HandOK
<1>2. EmbedTypeOK'
  BY TasksTyped DEF EmbedTypeOK, Becomes
<1>3. QED
  BY <1>1, <1>2, HandsKept

LEMMA SearchKeeps == ASSUME EmbedInv, NEW d \in Drains, Search(d) PROVE EmbedInv'
<1> DEFINE me == [IdleTask EXCEPT !.at = "check", !.rounds = DrainRounds]
<1>0. DrainRounds \in 0..DrainRounds
  BY EmbedAssumption
<1>1. me \in TaskState /\ me.items = <<>> /\ me.rows = <<>> /\ me.back = <<>> /\ me.pieces = <<>>
  BY <1>0, IdleState DEF TaskState, IdleTask
<1>2. HandOK(me)
  BY <1>1, EmptyHand
<1>3. d \in Tasks /\ Becomes(d, me) /\ task[d].at # "embed"
  BY DEF Search, Tasks
<1>4. paused' \in BOOLEAN /\ queueFaults' \in 0..QueueFaults
  BY TasksTyped DEF EmbedTypeOK, Search
<1> HIDE DEF me
<1>5. UNCHANGED <<waiting, sent, embedded, dropped, failures, textsRefused, textsLost>>
  BY DEF Search
<1>6. QED
  BY <1>1, <1>2, <1>3, <1>4, <1>5, EmptyMove

LEMMA CheckKeeps == ASSUME EmbedInv, NEW t \in Tasks, Check(t) PROVE EmbedInv'
<1> DEFINE left == task[t].rounds
           a == [IdleTask EXCEPT !.at = "pop", !.budget = FlushSize]
           b == [IdleTask EXCEPT !.at = "pop", !.budget = Len(waiting), !.rounds = left - 1]
           done == paused \/ (t \in Drains /\ (left = 0 \/ waiting = <<>>))
           me == IF done THEN IdleTask ELSE IF t \in Flushes THEN a ELSE b
<1>1. Becomes(t, me) /\ task[t].at # "embed" /\ paused' \in BOOLEAN /\ queueFaults' \in 0..QueueFaults
      /\ UNCHANGED <<waiting, sent, embedded, dropped, failures, textsRefused, textsLost>>
  BY TasksTyped DEF Check, EmbedTypeOK
<1>2. left \in 0..DrainRounds /\ Len(waiting) \in Nat
  BY TasksTyped, StateFields
<1>3. IdleTask.items = <<>> /\ IdleTask.rows = <<>> /\ IdleTask.back = <<>> /\ IdleTask.pieces = <<>> /\ IdleTask \in TaskState
  BY IdleState
<1>4. a \in TaskState /\ a.items = <<>> /\ a.rows = <<>> /\ a.back = <<>> /\ a.pieces = <<>>
  BY <1>3, EmbedAssumption DEF TaskState, IdleTask
<1>5. ~done /\ t \notin Flushes => left - 1 \in 0..DrainRounds
  BY <1>2, EmbedAssumption DEF Tasks
<1>6. ~done /\ t \notin Flushes => b \in TaskState /\ b.items = <<>> /\ b.rows = <<>> /\ b.back = <<>> /\ b.pieces = <<>>
  BY <1>2, <1>3, <1>5 DEF TaskState, IdleTask
<1> HIDE DEF a, b, done
<1>7. me \in TaskState /\ me.items = <<>> /\ me.rows = <<>> /\ me.back = <<>> /\ me.pieces = <<>>
  BY <1>3, <1>4, <1>6, Zenon
<1> HIDE DEF me
<1>8. HandOK(me)
  BY <1>7, EmptyHand
<1>9. QED
  BY <1>1, <1>7, <1>8, EmptyMove

\* The next chunk is the head of the items.
LEMMA ChunkOK ==
    ASSUME NEW s \in Seq(Items)
    PROVE  /\ Chunk(s) \in Seq([behind : Nat, second : BOOLEAN])
           /\ \A i \in DOMAIN Chunk(s) : Chunk(s)[i].behind <= Len(s)
           /\ \A i, j \in DOMAIN Chunk(s) : i < j => Chunk(s)[i].behind >= Chunk(s)[j].behind
<1> DEFINE p == Piece(IF Len(s) > ChunkSize THEN Len(s) - ChunkSize ELSE 0, FALSE)
<1>0. Len(s) \in Nat /\ \A l \in Nat : (IF l > ChunkSize THEN l - ChunkSize ELSE 0) \in 0..l
  BY EmbedAssumption
<1>1. p \in [behind : Nat, second : BOOLEAN] /\ p.behind <= Len(s)
  <2>1. (IF Len(s) > ChunkSize THEN Len(s) - ChunkSize ELSE 0) \in 0..Len(s)
    BY <1>0, Zenon
  <2>2. \A v \in 0..Len(s) : v \in Nat /\ v <= Len(s)
    BY <1>0
  <2>3. QED
    BY <2>1, <2>2 DEF Piece
<1>2. Chunk(s) = <<p>>
  BY DEF Chunk
<1> HIDE DEF p
<1>3. QED
  BY <1>1, <1>2

LEMMA AdvanceKeeps == ASSUME EmbedInv, NEW t \in Tasks, Advance(t) PROVE EmbedInv'
<1> DEFINE my == task[t]
           me == [my EXCEPT !.pieces = Chunk(my.items)]
<1>1. my \in TaskState /\ HandOK(my)
  BY TasksTyped
<1>2. my.items \in Seq(Items)
  BY <1>1, StateFields
<1>3. me \in TaskState /\ me.items = my.items /\ me.rows = my.rows /\ me.back = my.back /\ me.pieces = Chunk(my.items)
      /\ me.at = my.at
  BY <1>1, <1>2, ChunkOK DEF TaskState
<1>4. Becomes(t, me) /\ UNCHANGED <<waiting, paused, sent, embedded, dropped, failures, textsRefused, textsLost, queueFaults>>
  BY DEF Advance
<1> HIDE DEF me
<1>5. HandOK(me)
  BY <1>1, <1>2, <1>3, ChunkOK DEF HandOK
<1>6. EmbedTypeOK'
  BY <1>3, <1>4, TasksTyped DEF EmbedTypeOK, Becomes
<1>7. QED
  BY <1>3, <1>4, <1>5, <1>6, HandsKept

\* A step that changes only the pause, the faults or the texts lost.
LEMMA PlacesKept ==
    ASSUME EmbedInv, EmbedTypeOK', UNCHANGED <<waiting, task, sent, embedded, dropped, failures, textsRefused, textsLost>>
    PROVE  EmbedInv'
BY DEF EmbedInv, DroppedForCause

LEMMA BackoffEndsKeeps == ASSUME EmbedInv, BackoffEnds PROVE EmbedInv'
<1>1. EmbedTypeOK'
  BY TasksTyped DEF BackoffEnds, EmbedTypeOK
<1>2. QED
  BY <1>1, PlacesKept DEF BackoffEnds

LEMMA StutterKeeps == ASSUME EmbedInv, UNCHANGED embedVars PROVE EmbedInv'
<1>1. EmbedTypeOK'
  BY TasksTyped DEF embedVars, EmbedTypeOK
<1>2. QED
  BY <1>1, PlacesKept DEF embedVars

LEMMA NeverQueuedKeeps == ASSUME EmbedInv, NEW x \in Texts, NeverQueued(x) PROVE EmbedInv'
<1>1. EmbedTypeOK'
  <2>1. queueFaults' \in 0..QueueFaults
    BY EmbedAssumption, TasksTyped DEF NeverQueued, QueueFault, EmbedTypeOK
  <2>2. QED
    BY <2>1, TasksTyped DEF NeverQueued, EmbedTypeOK
<1>2. UNCHANGED <<waiting, task, embedded, dropped, failures, textsRefused>>
      /\ sent' = sent \cup {x} /\ textsLost' = textsLost \cup {x}
  BY DEF NeverQueued
<1>3. QED
  BY <1>1, <1>2 DEF EmbedInv, DroppedForCause

LEMMA AppendItem ==
    ASSUME NEW s \in Seq(Items), NEW it \in Items
    PROVE  /\ Append(s, it) \in Seq(Items)
           /\ IdsOf(Append(s, it)) = IdsOf(s) \cup {it.id}
           /\ Distinct(s) /\ it.id \notin IdsOf(s) => Distinct(Append(s, it))
           /\ \A F : Tried(F, s) /\ F[it.id] = it.attempts => Tried(F, Append(s, it))
<1> DEFINE u == <<it>>
<1>1. Append(s, it) = s \o u /\ u \in Seq(Items)
  OBVIOUS
<1>2. DOMAIN u = {1} /\ u[1] = it
  OBVIOUS
<1> HIDE DEF u
<1>3. IdsOf(u) = {it.id} /\ Distinct(u) /\ \A F : F[it.id] = it.attempts => Tried(F, u)
  BY <1>2, Zenon DEF IdsOf, Distinct, Tried
<1>4. /\ s \o u \in Seq(Items) /\ IdsOf(s \o u) = IdsOf(s) \cup IdsOf(u)
      /\ Distinct(s) /\ Distinct(u) /\ IdsOf(s) \cap IdsOf(u) = {} => Distinct(s \o u)
      /\ \A F : Tried(F, s) /\ Tried(F, u) => Tried(F, s \o u)
  BY <1>1, ConcatItems
<1>5. IdsOf(Append(s, it)) = IdsOf(s) \cup {it.id} /\ (it.id \notin IdsOf(s) => IdsOf(s) \cap IdsOf(u) = {})
  BY <1>1, <1>3, <1>4
<1>6. QED
  BY <1>1, <1>3, <1>4, <1>5, Zenon

LEMMA EnqueueKeeps == ASSUME EmbedInv, NEW x \in Texts, Enqueue(x) PROVE EmbedInv'
<1> DEFINE it == [id |-> x, attempts |-> 0]
           me == [IdleTask EXCEPT !.at = "check"]
<1>0. it \in Items /\ it.id = x /\ it.attempts = 0
  BY EmbedAssumption DEF Items
<1>1. waiting' = Append(waiting, it) /\ x \notin sent /\ sent' = sent \cup {x}
      /\ UNCHANGED <<paused, embedded, dropped, failures, textsRefused, textsLost, queueFaults>>
  BY DEF Enqueue
<1>2. me \in TaskState /\ HandOK(me) /\ HandIds(me) = {} /\ \A F : HandTried(F, me)
  <2>1. me \in TaskState /\ me.items = <<>> /\ me.rows = <<>> /\ me.back = <<>> /\ me.pieces = <<>>
    BY IdleState DEF TaskState, IdleTask
  <2>2. QED
    BY <2>1, EmptyHand
<1> HIDE DEF me, it
<1>3. UNCHANGED task \/ \E f \in Flushes : task[f].at = "idle" /\ Becomes(f, me)
  BY DEF Enqueue, me
<1>4. /\ waiting' \in Seq(Items) /\ IdsOf(waiting') = IdsOf(waiting) \cup {x}
      /\ Distinct(waiting') /\ Tried(failures', waiting')
  <2>1. x \notin IdsOf(waiting) /\ failures[x] = 0 /\ Distinct(waiting) /\ Tried(failures, waiting)
    BY <1>1 DEF EmbedInv
  <2>2. QED
    BY <1>0, <1>1, <2>1, AppendItem, TasksTyped
<1>5. /\ task' \in [Tasks -> TaskState]
      /\ \A u \in Tasks : \/ task'[u] = task[u]
                          \/ task'[u] = me /\ HandIds(task[u]) = {}
  <2>1. CASE UNCHANGED task
    BY <2>1, TasksTyped
  <2>2. CASE \E f \in Flushes : task[f].at = "idle" /\ Becomes(f, me)
    <3>1. PICK f \in Flushes : task[f].at = "idle" /\ Becomes(f, me)
      BY <2>2
    <3>2. f \in Tasks
      BY DEF Tasks
    <3>3. HandIds(task[f]) = {}
      BY <3>1, <3>2, TasksTyped, EmptyItems DEF HandIds, HandOK
    <3>4. QED
      BY <1>2, <3>1, <3>2, <3>3, TasksTyped DEF Becomes
  <2>3. QED
    BY <1>3, <2>1, <2>2
<1>6. \A u \in Tasks : /\ HandOK(task'[u]) /\ HandTried(failures', task'[u]) /\ HandIds(task'[u]) = HandIds(task[u])
  BY <1>1, <1>2, <1>5, TasksTyped
<1>7. EmbedTypeOK'
  BY <1>1, <1>4, <1>5, TasksTyped DEF EmbedTypeOK
<1>8. \A t \in Tasks : HandIds(task'[t]) \cap IdsOf(waiting') = {} /\ HandIds(task'[t]) \subseteq sent'
  BY <1>1, <1>4, <1>6 DEF EmbedInv
<1>9. \A t, u \in Tasks : t # u => HandIds(task'[t]) \cap HandIds(task'[u]) = {}
  BY <1>6 DEF EmbedInv
<1>10. IdsOf(waiting') \subseteq sent'
  BY <1>1, <1>4 DEF EmbedInv
<1>11. ASSUME NEW y \in sent' \ (embedded' \cup dropped' \cup textsLost')
       PROVE  y \in IdsOf(waiting') \/ \E t \in Tasks : y \in HandIds(task'[t])
  <2>1. CASE y = x
    BY <1>4, <2>1
  <2>2. CASE y # x
    <3>1. y \in sent \ (embedded \cup dropped \cup textsLost)
      BY <1>1, <2>2
    <3>2. y \in IdsOf(waiting) \/ \E t \in Tasks : y \in HandIds(task[t])
      BY <3>1 DEF EmbedInv
    <3>3. QED
      BY <1>4, <1>6, <3>2
  <2>3. QED
    BY <2>1, <2>2
<1>12. \A y \in Texts \ sent' : failures'[y] = 0
  BY <1>1 DEF EmbedInv
<1>13. DroppedForCause'
  BY <1>1 DEF EmbedInv, DroppedForCause
<1>14. QED
  BY <1>4, <1>6, <1>7, <1>8, <1>9, <1>10, <1>11, <1>12, <1>13, Zenon DEF EmbedInv

LEMMA DieKeeps == ASSUME EmbedInv, Die PROVE EmbedInv'
<1>1. /\ textsLost' = textsLost \cup UNION {Held(t) : t \in Tasks} /\ task' = [t \in Tasks |-> IdleTask]
      /\ UNCHANGED <<waiting, paused, sent, embedded, dropped, failures, textsRefused>>
  BY DEF Die
<1>2. \A t \in Tasks : Held(t) = HandIds(task[t])
  BY DEF Held, HandIds
<1>3. EmbedTypeOK'
  <2>1. queueFaults' \in 0..QueueFaults
    BY EmbedAssumption, TasksTyped DEF Die, QueueFault, EmbedTypeOK
  <2>2. textsLost' \subseteq sent'
    BY <1>1, <1>2, TasksTyped DEF EmbedInv, EmbedTypeOK
  <2>3. QED
    BY <1>1, <2>1, <2>2, IdleState, TasksTyped DEF EmbedTypeOK
<1>4. \A t \in Tasks : HandOK(task'[t]) /\ HandTried(failures', task'[t]) /\ HandIds(task'[t]) = {}
  BY <1>1, IdleState, EmptyHand
<1>5. ASSUME NEW y \in sent' \ (embedded' \cup dropped' \cup textsLost')
      PROVE  y \in IdsOf(waiting')
  <2>1. y \in sent \ (embedded \cup dropped \cup textsLost)
    BY <1>1
  <2>2. y \in IdsOf(waiting) \/ \E t \in Tasks : y \in HandIds(task[t])
    BY <2>1 DEF EmbedInv
  <2>3. \A t \in Tasks : y \notin HandIds(task[t])
    BY <1>1, <1>2
  <2>4. QED
    BY <1>1, <2>2, <2>3
<1>6. DroppedForCause'
  BY <1>1 DEF EmbedInv, DroppedForCause
<1>7. QED
  BY <1>1, <1>3, <1>4, <1>5, <1>6 DEF EmbedInv

LEMMA RequeueKeeps == ASSUME EmbedInv, NEW t \in Tasks, Requeue(t) PROVE EmbedInv'
<1> DEFINE my == task[t]
           place == IF my.budget > 0 THEN "pop" ELSE "check"
           next == [IdleTask EXCEPT !.at = place, !.rounds = my.rounds, !.budget = my.budget]
           me == IF t \in Flushes THEN IdleTask ELSE next
<1>1. /\ my \in TaskState /\ HandOK(my) /\ HandTried(failures, my) /\ my.items = <<>> /\ my.rows = <<>>
      /\ my.back \in Seq(Items) /\ HandIds(my) = IdsOf(my.back) /\ waiting \in Seq(Items)
  <2>1. my \in TaskState /\ HandOK(my) /\ HandTried(failures, my) /\ waiting \in Seq(Items)
    BY TasksTyped
  <2>2. my.items = <<>> /\ my.rows = <<>>
    BY DEF Requeue
  <2>3. QED
    BY <2>1, <2>2, StateFields, EmptyItems DEF HandIds
<1>2. UNCHANGED <<paused, sent, embedded, dropped, failures, textsRefused>>
  BY DEF Requeue
<1>3. DroppedForCause'
  BY <1>2 DEF EmbedInv, DroppedForCause
<1>4. IdsOf(my.back) \cap IdsOf(waiting) = {} /\ Distinct(waiting) /\ Tried(failures, waiting)
      /\ Distinct(my.back) /\ Tried(failures, my.back) /\ IdsOf(my.back) \subseteq sent
  BY <1>1 DEF EmbedInv, HandOK, HandTried
<1>5. CASE waiting' = waiting \o my.back /\ Becomes(t, me) /\ UNCHANGED <<textsLost, queueFaults>>
  <2>1. next \in TaskState /\ next.items = <<>> /\ next.rows = <<>> /\ next.back = <<>> /\ next.pieces = <<>>
    <3>1. my.rounds \in 0..DrainRounds /\ my.budget \in Nat /\ place \in {"idle", "check", "pop", "embed"}
      BY <1>1, StateFields
    <3> HIDE DEF place, my
    <3>2. QED
      BY <3>1, IdleState DEF TaskState, IdleTask
  <2> HIDE DEF next
  <2>2. me \in TaskState /\ me.items = <<>> /\ me.rows = <<>> /\ me.back = <<>> /\ me.pieces = <<>>
    BY <2>1, IdleState
  <2> HIDE DEF me
  <2>3. HandOK(me) /\ HandIds(me) = {} /\ HandTried(failures', me)
    BY <2>2, EmptyHand
  <2>4. /\ waiting' \in Seq(Items) /\ IdsOf(waiting') = IdsOf(waiting) \cup IdsOf(my.back)
        /\ Distinct(waiting') /\ Tried(failures', waiting')
    BY <1>1, <1>2, <1>4, <1>5, ConcatItems
  <2>5. EmbedTypeOK'
    BY <1>2, <1>5, <2>2, <2>4, TasksTyped DEF EmbedTypeOK, Becomes
  <2>6. QED
    BY <1>1, <1>2, <1>3, <1>5, <2>2, <2>3, <2>4, <2>5, TaskStep
<1>6. CASE /\ QueueFault /\ textsLost' = textsLost \cup IdsOf(my.back)
           /\ Becomes(t, IdleTask) /\ UNCHANGED waiting
  <2>1. IdleTask \in TaskState /\ HandOK(IdleTask) /\ HandIds(IdleTask) = {} /\ HandTried(failures', IdleTask)
    BY IdleState, EmptyHand
  <2>2. queueFaults' \in 0..QueueFaults
    BY <1>6, EmbedAssumption, TasksTyped DEF QueueFault, EmbedTypeOK
  <2>3. EmbedTypeOK'
    BY <1>2, <1>4, <1>6, <2>1, <2>2, TasksTyped DEF EmbedTypeOK, Becomes
  <2>4. QED
    BY <1>1, <1>2, <1>3, <1>4, <1>6, <2>1, <2>3, TaskStep
<1>7. QED
  BY <1>5, <1>6 DEF Requeue

-----------------------------------------------------------------------------
\* The fewest of three.
LEMMA MinOfThree ==
    ASSUME NEW a \in Nat, NEW b \in Nat, NEW c \in Nat
    PROVE  LET m == Min({a, b, c}) IN m \in Nat /\ m <= a /\ m <= b /\ m <= c
<1> DEFINE S == {a, b, c}
<1>1. \E m \in S : \A y \in S : m <= y
  OBVIOUS
<1>2. Min(S) \in S /\ \A y \in S : Min(S) <= y
  BY <1>1 DEF Min
<1>3. QED
  BY <1>2

LEMMA PopKeeps == ASSUME EmbedInv, NEW t \in Tasks, Pop(t) PROVE EmbedInv'
<1> DEFINE my == task[t]
           n == Min({FlushSize, my.budget, Len(waiting)})
           batch == SubSeq(waiting, 1, n)
           others == SubSeq(waiting, n + 1, Len(waiting))
           full == [my EXCEPT !.at = "embed", !.budget = @ - n, !.items = batch, !.pieces = Chunk(batch)]
           round == [my EXCEPT !.at = "check"]
           me == IF n > 0 THEN full ELSE IF t \in Drains THEN round ELSE IdleTask
<1>1. /\ waiting' = others /\ Becomes(t, me) /\ my.at = "pop"
      /\ UNCHANGED <<paused, sent, embedded, dropped, failures, textsRefused, textsLost, queueFaults>>
  BY DEF Pop
<1>2. /\ my \in TaskState /\ HandOK(my) /\ HandTried(failures, my) /\ waiting \in Seq(Items)
      /\ my.budget \in Nat /\ my.rounds \in 0..DrainRounds
  BY TasksTyped, StateFields
<1>3. my.items = <<>> /\ my.rows = <<>> /\ my.back = <<>>
  BY <1>1, <1>2 DEF HandOK
<1>4. HandIds(my) = {}
  BY <1>3, EmptyItems DEF HandIds
<1>5. n \in Nat /\ n <= my.budget /\ n <= Len(waiting)
  <2>1. FlushSize \in Nat /\ Len(waiting) \in Nat
    BY <1>2, EmbedAssumption
  <2>2. QED
    BY <1>2, <2>1, MinOfThree
<1>6. my.budget - n \in Nat /\ n \in 0..Len(waiting)
  <2>1. Len(waiting) \in Nat
    BY <1>2
  <2>2. QED
    BY <1>2, <1>5, <2>1
<1>7. Distinct(waiting) /\ Tried(failures, waiting)
  BY DEF EmbedInv
<1> HIDE DEF n
<1>8. /\ batch \in Seq(Items) /\ Len(batch) = n /\ others \in Seq(Items)
      /\ IdsOf(batch) \cup IdsOf(others) = IdsOf(waiting) /\ IdsOf(batch) \cap IdsOf(others) = {}
      /\ Distinct(batch) /\ Distinct(others) /\ Tried(failures, batch) /\ Tried(failures, others)
  BY <1>2, <1>6, <1>7, SplitItems
<1>9. DroppedForCause'
  BY <1>1 DEF EmbedInv, DroppedForCause
<1>10. ASSUME me \in TaskState, HandOK(me), HandIds(me) \cup IdsOf(others) = IdsOf(waiting),
              HandIds(me) \cap IdsOf(others) = {}, HandTried(failures, me)
       PROVE  EmbedInv'
  <2> HIDE DEF me, others
  <2>1. EmbedTypeOK'
    BY <1>1, <1>8, <1>10, TasksTyped DEF EmbedTypeOK, Becomes
  <2>2. QED
    BY <1>1, <1>4, <1>8, <1>9, <1>10, <2>1, TaskStep
<1>11. CASE n > 0
  <2>1. /\ full.at = "embed" /\ full.items = batch /\ full.rows = <<>> /\ full.back = <<>>
        /\ full.pieces = Chunk(batch) /\ full \in TaskState
    <3> HIDE DEF batch, n, my
    <3>1. Chunk(batch) \in Seq([behind : Nat, second : BOOLEAN])
      BY <1>8, ChunkOK
    <3>2. QED
      BY <1>2, <1>3, <1>6, <1>8, <3>1 DEF TaskState
  <2>2. me = full
    BY <1>11
  <2> HIDE DEF me, full, batch, others
  <2>3. IdsOf(<<>>) = {} /\ Distinct(<<>>) /\ \A F : Tried(F, <<>>)
    BY EmptyItems
  <2>4. HandOK(full)
    <3>1. /\ \A i \in DOMAIN full.pieces : full.pieces[i].behind <= Len(full.items)
          /\ \A i, j \in DOMAIN full.pieces : i < j => full.pieces[i].behind >= full.pieces[j].behind
      BY <1>8, <2>1, ChunkOK
    <3>2. QED
      BY <1>8, <2>1, <2>3, <3>1 DEF HandOK
  <2>5. HandIds(full) = IdsOf(batch) /\ HandTried(failures, full)
    BY <1>8, <2>1, <2>3 DEF HandIds, HandTried
  <2>6. QED
    BY <1>8, <1>10, <2>1, <2>2, <2>4, <2>5
<1>12. CASE ~(n > 0)
  <2>1. IdsOf(batch) = {}
    <3>1. Len(batch) = 0
      BY <1>5, <1>8, <1>12
    <3>2. batch = <<>>
      BY <1>8, <3>1
    <3>3. QED
      BY <3>2, EmptyItems
  <2>2. /\ round \in TaskState /\ round.at = "check" /\ round.items = <<>> /\ round.rows = <<>> /\ round.back = <<>>
        /\ round.pieces = my.pieces
    BY <1>2, <1>3 DEF TaskState
  <2>3. HandOK(round) /\ HandIds(round) = {} /\ HandTried(failures, round)
    <3> HIDE DEF round
    <3>1. HandIds(round) = HandIds(my) /\ HandTried(failures, round)
      BY <1>2, <1>3, <2>2 DEF HandIds, HandTried
    <3>2. HandOK(round)
      BY <1>2, <1>3, <2>2 DEF HandOK
    <3>3. QED
      BY <1>4, <3>1, <3>2
  <2>4. IdleTask \in TaskState /\ HandOK(IdleTask) /\ HandIds(IdleTask) = {} /\ HandTried(failures, IdleTask)
    BY IdleState, EmptyHand
  <2>5. me = round \/ me = IdleTask
    BY <1>12
  <2> HIDE DEF me, round, batch, others
  <2>6. me \in TaskState /\ HandOK(me) /\ HandIds(me) = {} /\ HandTried(failures, me)
    BY <2>2, <2>3, <2>4, <2>5
  <2>7. QED
    BY <1>8, <1>10, <2>1, <2>6
<1>13. QED
  BY <1>11, <1>12

-----------------------------------------------------------------------------
\* Items that nobody else holds are added to the ones that go back.
LEMMA AddBack ==
    ASSUME NEW old \in TaskState, NEW me \in TaskState, NEW u \in Seq(Items),
           HandOK(old), old.at = "embed", Distinct(u), IdsOf(u) \cap HandIds(old) = {},
           me.at = old.at, me.items = old.items, me.pieces = old.pieces, me.rows = old.rows,
           me.back = old.back \o u
    PROVE  /\ HandOK(me) /\ HandIds(me) = HandIds(old) \cup IdsOf(u)
           /\ \A F : HandTried(F, old) /\ Tried(F, u) => HandTried(F, me)
<1>1. old.back \in Seq(Items)
  BY StateFields
<1>2. Distinct(old.back) /\ IdsOf(old.back) \cap IdsOf(u) = {}
  BY DEF HandOK, HandIds
<1>3. IdsOf(me.back) = IdsOf(old.back) \cup IdsOf(u) /\ Distinct(me.back)
      /\ \A F : Tried(F, old.back) /\ Tried(F, u) => Tried(F, me.back)
  BY <1>1, <1>2, ConcatItems
<1>4. HandIds(me) = HandIds(old) \cup IdsOf(u) /\ \A F : HandTried(F, old) /\ Tried(F, u) => HandTried(F, me)
  BY <1>3 DEF HandIds, HandTried
<1>5. HandOK(me)
  BY <1>3 DEF HandOK, HandIds
<1>6. QED
  BY <1>4, <1>5

\* Items that nobody else holds are added to the ones with a vector.
LEMMA AddRows ==
    ASSUME NEW old \in TaskState, NEW me \in TaskState, NEW u \in Seq(Items),
           HandOK(old), old.at = "embed", Distinct(u), IdsOf(u) \cap HandIds(old) = {},
           me.at = old.at, me.items = old.items, me.pieces = old.pieces, me.back = old.back,
           me.rows = old.rows \o u
    PROVE  /\ HandOK(me) /\ HandIds(me) = HandIds(old) \cup IdsOf(u)
           /\ \A F : HandTried(F, old) /\ Tried(F, u) => HandTried(F, me)
<1>1. old.rows \in Seq(Items)
  BY StateFields
<1>2. Distinct(old.rows) /\ IdsOf(old.rows) \cap IdsOf(u) = {}
  BY DEF HandOK, HandIds
<1>3. IdsOf(me.rows) = IdsOf(old.rows) \cup IdsOf(u) /\ Distinct(me.rows)
      /\ \A F : Tried(F, old.rows) /\ Tried(F, u) => Tried(F, me.rows)
  BY <1>1, <1>2, ConcatItems
<1>4. HandIds(me) = HandIds(old) \cup IdsOf(u) /\ \A F : HandTried(F, old) /\ Tried(F, u) => HandTried(F, me)
  BY <1>3 DEF HandIds, HandTried
<1>5. HandOK(me)
  BY <1>3 DEF HandOK, HandIds
<1>6. QED
  BY <1>4, <1>5

\* One failed try more for each item of s, which is the only copy of its text.
LEMMA ChargeItems ==
    ASSUME EmbedInv, NEW s \in Seq(Items), Distinct(s), Tried(failures, s), IdsOf(s) \subseteq sent, Charge(s)
    PROVE  /\ dropped' \subseteq sent /\ dropped \subseteq dropped' /\ failures' \in [Texts -> 0..MaxTries]
           /\ \A x \in Texts \ IdsOf(s) : failures'[x] = failures[x]
           /\ \A x \in Texts : failures'[x] >= failures[x]
           /\ Tried(failures', Again(s)) /\ Again(s) \in Seq(Items) /\ Distinct(Again(s))
           /\ IdsOf(Again(s)) \subseteq IdsOf(s) /\ IdsOf(s) \subseteq IdsOf(Again(s)) \cup dropped'
           /\ \A x \in dropped' : x \in dropped \/ failures'[x] >= MaxTries
<1>1. /\ dropped' = dropped \cup {s[i].id : i \in {j \in DOMAIN s : LastTry(s[j])}}
      /\ failures' = [x \in Texts |-> failures[x] + (IF x \in IdsOf(s) THEN 1 ELSE 0)]
  BY DEF Charge
<1>2. failures \in [Texts -> 0..MaxTries] /\ dropped \subseteq sent /\ sent \subseteq Texts
  BY TasksTyped DEF EmbedTypeOK
<1>3. \A i \in DOMAIN s : /\ s[i].id \in Texts /\ s[i].id \in IdsOf(s) /\ s[i].attempts \in 0..MaxTries - 1
                          /\ failures[s[i].id] = s[i].attempts
  BY ItemFields DEF Tried, IdsOf
<1>4. \A i \in DOMAIN s : failures'[s[i].id] = s[i].attempts + 1
  BY <1>1, <1>3
<1>5. \A x \in Texts \ IdsOf(s) : failures'[x] = failures[x]
  BY <1>1, <1>2
<1>6. \A x \in IdsOf(s) : \E i \in DOMAIN s : s[i].id = x
  BY DEF IdsOf
<1>7. \A x \in Texts : failures'[x] \in 0..MaxTries /\ failures'[x] >= failures[x]
  <2>1. ASSUME NEW x \in IdsOf(s) PROVE failures'[x] \in 0..MaxTries /\ failures'[x] >= failures[x]
    <3>1. PICK i \in DOMAIN s : s[i].id = x
      BY <1>6, <2>1
    <3>2. failures'[x] = s[i].attempts + 1 /\ failures[x] = s[i].attempts /\ s[i].attempts \in 0..MaxTries - 1
      BY <1>3, <1>4, <3>1
    <3>3. \A a \in 0..MaxTries - 1 : a + 1 \in 0..MaxTries /\ a + 1 >= a
      BY EmbedAssumption
    <3>4. QED
      BY <3>2, <3>3
  <2>2. ASSUME NEW x \in Texts \ IdsOf(s) PROVE failures'[x] \in 0..MaxTries /\ failures'[x] >= failures[x]
    <3>1. failures'[x] = failures[x] /\ failures[x] \in 0..MaxTries
      BY <1>2, <1>5, <2>2
    <3>2. QED
      BY <3>1, EmbedAssumption
  <2>3. QED
    BY <2>1, <2>2
<1>8. failures' \in [Texts -> 0..MaxTries]
  BY <1>1, <1>7
<1>9. Again(s) \in Seq(Items) /\ Distinct(Again(s))
      /\ IdsOf(Again(s)) = {s[i].id : i \in {j \in DOMAIN s : ~LastTry(s[j])}}
  BY AgainItems
<1>10. Tried(failures', Again(s))
  <2>1. ASSUME NEW i \in DOMAIN Again(s) PROVE failures'[Again(s)[i].id] = Again(s)[i].attempts
    <3>1. PICK j \in DOMAIN s : Again(s)[i].id = s[j].id /\ Again(s)[i].attempts = s[j].attempts + 1
      BY <2>1, AgainItems
    <3>2. QED
      BY <1>4, <3>1
  <2>2. QED
    BY <2>1 DEF Tried
<1>11. dropped' \subseteq sent /\ dropped \subseteq dropped'
  BY <1>1, <1>2, <1>3
<1>12. IdsOf(Again(s)) \subseteq IdsOf(s) /\ IdsOf(s) \subseteq IdsOf(Again(s)) \cup dropped'
  BY <1>1, <1>3, <1>6, <1>9
<1>13. ASSUME NEW x \in dropped', x \notin dropped PROVE failures'[x] >= MaxTries
  <2>1. PICK i \in DOMAIN s : LastTry(s[i]) /\ s[i].id = x
    BY <1>1, <1>13
  <2>2. QED
    BY <1>4, <2>1 DEF LastTry
<1>14. QED
  BY <1>5, <1>7, <1>8, <1>9, <1>10, <1>11, <1>12, <1>13

-----------------------------------------------------------------------------
\* A step that charges the items of s, which the task held, and keeps the rest.
LEMMA ChargeStep ==
    ASSUME EmbedInv, NEW t \in Tasks, NEW s \in Seq(Items), Distinct(s), Tried(failures, s),
           NEW rest \in TaskState, rest.at = "embed", HandOK(rest), HandTried(failures, rest),
           HandIds(rest) \cup IdsOf(s) = HandIds(task[t]), IdsOf(s) \cap HandIds(rest) = {},
           NEW me \in TaskState, me.at = rest.at, me.items = rest.items, me.pieces = rest.pieces,
           me.rows = rest.rows, me.back = rest.back \o Again(s),
           Becomes(t, me), Charge(s), queueFaults' \in 0..QueueFaults,
           UNCHANGED <<waiting, paused, sent, embedded, textsRefused, textsLost>>
    PROVE  EmbedInv'
<1>1. /\ HandIds(task[t]) \subseteq sent /\ HandIds(task[t]) \cap IdsOf(waiting) = {}
      /\ Distinct(waiting) /\ Tried(failures, waiting) /\ waiting \in Seq(Items) /\ sent \subseteq Texts
  BY DEF EmbedInv, EmbedTypeOK
<1>2. /\ dropped' \subseteq sent /\ dropped \subseteq dropped' /\ failures' \in [Texts -> 0..MaxTries]
      /\ \A x \in Texts \ IdsOf(s) : failures'[x] = failures[x]
      /\ \A x \in Texts : failures'[x] >= failures[x]
      /\ Tried(failures', Again(s)) /\ Again(s) \in Seq(Items) /\ Distinct(Again(s))
      /\ IdsOf(Again(s)) \subseteq IdsOf(s) /\ IdsOf(s) \subseteq IdsOf(Again(s)) \cup dropped'
      /\ \A x \in dropped' : x \in dropped \/ failures'[x] >= MaxTries
  <2>1. IdsOf(s) \subseteq sent
    BY <1>1
  <2>2. QED
    BY <2>1, ChargeItems
<1>3. IdsOf(Again(s)) \cap HandIds(rest) = {}
  BY <1>2
<1>4. /\ HandOK(me) /\ HandIds(me) = HandIds(rest) \cup IdsOf(Again(s))
      /\ \A F : HandTried(F, rest) /\ Tried(F, Again(s)) => HandTried(F, me)
  BY <1>2, <1>3, AddBack
<1>5. HandTried(failures', me)
  <2>1. /\ rest.items \in Seq(Items) /\ rest.rows \in Seq(Items) /\ rest.back \in Seq(Items)
    BY StateFields
  <2>2. \A x \in HandIds(rest) : failures'[x] = failures[x]
    BY <1>1, <1>2
  <2>3. HandTried(failures', rest)
    BY <2>1, <2>2, TriedKept DEF HandTried, HandIds
  <2>4. QED
    BY <1>2, <1>4, <2>3
<1>6. Tried(failures', waiting')
  <2>1. \A x \in IdsOf(waiting) : failures'[x] = failures[x]
    BY <1>1, <1>2, IdsAreTexts
  <2>2. QED
    BY <1>1, <2>1, TriedKept
<1>7. EmbedTypeOK'
  BY <1>2, TasksTyped DEF EmbedTypeOK, Becomes
<1>8. DroppedForCause'
  <2>1. ASSUME NEW x \in dropped PROVE x \in textsRefused \/ failures'[x] >= MaxTries
    <3>1. x \in textsRefused \/ failures[x] >= MaxTries
      BY DEF EmbedInv, DroppedForCause
    <3>2. failures[x] \in 0..MaxTries /\ failures'[x] \in 0..MaxTries /\ failures'[x] >= failures[x]
      BY <1>2, TasksTyped DEF EmbedTypeOK
    <3>3. QED
      BY <3>1, <3>2, EmbedAssumption
  <2>2. QED
    BY <1>2, <2>1 DEF DroppedForCause
<1>9. IdsOf(waiting') \cup HandIds(me) \subseteq IdsOf(waiting) \cup HandIds(task[t])
  BY <1>2, <1>4
<1>10. IdsOf(waiting') \cap HandIds(me) = {}
  BY <1>1, <1>2, <1>4
<1>11. \A x \in IdsOf(waiting) \cup HandIds(task[t]) : x \in IdsOf(waiting') \cup HandIds(me) \cup dropped'
  BY <1>2, <1>4
<1>12. \A x \in Texts \ HandIds(task[t]) : failures'[x] = failures[x]
  BY <1>2
<1>13. QED
  BY <1>1, <1>2, <1>4, <1>5, <1>6, <1>7, <1>8, <1>9, <1>10, <1>11, <1>12, TaskStep

LEMMA StoreKeeps == ASSUME EmbedInv, NEW t \in Tasks, Store(t) PROVE EmbedInv'
<1> DEFINE my == task[t]
           next == [my EXCEPT !.rows = <<>>]
           retried == [next EXCEPT !.back = @ \o Again(my.rows), !.broken = TRUE]
<1>1. /\ my \in TaskState /\ HandOK(my) /\ HandTried(failures, my) /\ my.rows \in Seq(Items) /\ my.back \in Seq(Items)
      /\ my.items \in Seq(Items) /\ waiting \in Seq(Items)
  BY TasksTyped, StateFields
<1>2. my.at = "embed" /\ UNCHANGED <<waiting, paused, sent, textsRefused, textsLost>>
  BY DEF Store
<1>3. /\ Distinct(my.rows) /\ Tried(failures, my.rows) /\ IdsOf(my.rows) \subseteq HandIds(my)
      /\ HandIds(my) \subseteq sent /\ HandIds(my) \cap IdsOf(waiting) = {}
      /\ Distinct(waiting) /\ Tried(failures, waiting)
  BY <1>1 DEF HandOK, HandTried, HandIds, EmbedInv
<1>4. /\ next \in TaskState /\ next.at = "embed" /\ next.items = my.items /\ next.rows = <<>> /\ next.back = my.back
      /\ next.pieces = my.pieces
  <2>1. <<>> \in Seq(Items)
    OBVIOUS
  <2>2. QED
    BY <1>1, <1>2, <2>1 DEF TaskState
<1>5. /\ HandOK(next) /\ HandTried(failures, next) /\ HandIds(next) \cup IdsOf(my.rows) = HandIds(my)
      /\ IdsOf(my.rows) \cap HandIds(next) = {}
  <2> HIDE DEF next
  <2>1. IdsOf(<<>>) = {} /\ Distinct(<<>>) /\ \A F : Tried(F, <<>>)
    BY EmptyItems
  <2>2. HandOK(next)
    BY <1>1, <1>2, <1>4, <2>1 DEF HandOK
  <2>3. HandTried(failures, next) /\ HandIds(next) \cup IdsOf(my.rows) = HandIds(my)
    BY <1>1, <1>4, <2>1 DEF HandTried, HandIds
  <2>4. IdsOf(my.rows) \cap HandIds(next) = {}
    BY <1>1, <1>4, <2>1 DEF HandOK, HandIds
  <2>5. QED
    BY <2>2, <2>3, <2>4
<1>6. CASE embedded' = embedded \cup IdsOf(my.rows) /\ Becomes(t, next) /\ UNCHANGED <<dropped, failures, queueFaults>>
  <2> HIDE DEF next
  <2>1. EmbedTypeOK'
    BY <1>2, <1>3, <1>4, <1>6, TasksTyped DEF EmbedTypeOK, Becomes
  <2>2. DroppedForCause'
    BY <1>2, <1>6 DEF EmbedInv, DroppedForCause
  <2>3. IdsOf(waiting') \cap HandIds(next) = {}
    BY <1>2, <1>3, <1>5
  <2>4. \A x \in IdsOf(waiting) \cup HandIds(my) : x \in IdsOf(waiting') \cup HandIds(next) \cup embedded'
    BY <1>2, <1>5, <1>6
  <2>5. IdsOf(waiting') \cup HandIds(next) \subseteq IdsOf(waiting) \cup HandIds(my)
    BY <1>2, <1>5
  <2>6. QED
    BY <1>2, <1>3, <1>4, <1>5, <1>6, <2>1, <2>2, <2>3, <2>4, <2>5, TaskStep
<1>7. CASE /\ (IF my.broken THEN UNCHANGED queueFaults ELSE QueueFault)
           /\ Becomes(t, retried) /\ Charge(my.rows) /\ UNCHANGED embedded
  <2>1. my.back \o Again(my.rows) \in Seq(Items)
    BY <1>1, <1>3, AgainItems, ConcatItems
  <2>2. /\ retried \in TaskState /\ retried.at = next.at /\ retried.items = next.items /\ retried.rows = next.rows
        /\ retried.pieces = next.pieces /\ retried.back = next.back \o Again(my.rows)
    <3> DEFINE back == my.back \o Again(my.rows)
    <3>1. next.back \o Again(my.rows) = back /\ back \in Seq(Items)
      BY <1>4, <2>1
    <3> HIDE DEF back, next
    <3>2. retried = [next EXCEPT !.back = back, !.broken = TRUE]
      BY <3>1
    <3>3. QED
      BY <1>4, <3>1, <3>2 DEF TaskState
  <2>3. queueFaults' \in 0..QueueFaults
    BY <1>7, EmbedAssumption, TasksTyped DEF QueueFault, EmbedTypeOK
  <2> HIDE DEF retried, next
  <2>4. QED
    BY <1>1, <1>2, <1>3, <1>4, <1>5, <1>7, <2>2, <2>3, ChargeStep
<1>8. QED
  BY <1>6, <1>7 DEF Store

-----------------------------------------------------------------------------
LEMMA HeadTail ==
    ASSUME NEW S, NEW q \in Seq(S), q # <<>>
    PROVE  /\ 1 \in DOMAIN q /\ Head(q) = q[1] /\ Tail(q) \in Seq(S) /\ \A i \in DOMAIN q : q[i] \in S /\ i \in Nat
           /\ \A i \in DOMAIN Tail(q) : i + 1 \in DOMAIN q /\ Tail(q)[i] = q[i + 1] /\ i \in Nat /\ 1 < i + 1
<1>1. Len(q) \in Nat /\ DOMAIN q = 1..Len(q) /\ Len(q) # 0
  OBVIOUS
<1>2. Head(q) = q[1] /\ Tail(q) \in Seq(S) /\ Len(Tail(q)) = Len(q) - 1 /\ DOMAIN Tail(q) = 1..Len(Tail(q))
  BY <1>1
<1>3. \A i \in 1..Len(q) - 1 : Tail(q)[i] = q[i + 1]
  BY <1>1
<1>4. QED
  BY <1>1, <1>2, <1>3

\* The piece at hand and what is left of the task without it.
LEMMA PieceTaken ==
    ASSUME NEW my \in TaskState, HandOK(my), my.at = "embed", my.pieces # <<>>,
           NEW F, HandTried(F, my)
    PROVE  LET behind == Head(my.pieces).behind
               n == Len(my.items) - behind
               s == SubSeq(my.items, 1, n)
               rest == [my EXCEPT !.items = SubSeq(@, n + 1, Len(@)), !.pieces = Tail(@)]
           IN  /\ behind \in Nat /\ n \in Nat /\ Len(my.items) \in Nat /\ behind <= Len(my.items) /\ Len(my.items) = n + behind
               /\ s \in Seq(Items) /\ Len(s) = n /\ Distinct(s) /\ Tried(F, s)
               /\ rest \in TaskState /\ rest.at = "embed" /\ HandOK(rest) /\ HandTried(F, rest)
               /\ HandIds(rest) \cup IdsOf(s) = HandIds(my) /\ IdsOf(s) \cap HandIds(rest) = {}
               /\ rest.rows = my.rows /\ rest.back = my.back
<1> DEFINE behind == Head(my.pieces).behind
           l == Len(my.items)
           n == l - behind
           s == SubSeq(my.items, 1, n)
           left == SubSeq(my.items, n + 1, l)
           rest == [my EXCEPT !.items = left, !.pieces = Tail(@)]
<1>1. /\ my.items \in Seq(Items) /\ my.rows \in Seq(Items) /\ my.back \in Seq(Items)
      /\ my.pieces \in Seq([behind : Nat, second : BOOLEAN])
  BY StateFields
<1>2. /\ 1 \in DOMAIN my.pieces /\ Head(my.pieces) = my.pieces[1] /\ my.pieces[1] \in [behind : Nat, second : BOOLEAN]
      /\ \A i \in DOMAIN my.pieces : my.pieces[i].behind \in Nat
      /\ Tail(my.pieces) \in Seq([behind : Nat, second : BOOLEAN])
      /\ \A i \in DOMAIN Tail(my.pieces) : i + 1 \in DOMAIN my.pieces /\ Tail(my.pieces)[i] = my.pieces[i + 1]
                                           /\ i \in Nat /\ 1 < i + 1
  <2> DEFINE S == [behind : Nat, second : BOOLEAN]
             q == my.pieces
  <2>1. q \in Seq(S) /\ q # <<>>
    BY <1>1
  <2>2. \A p \in S : p.behind \in Nat
    OBVIOUS
  <2> HIDE DEF S, q
  <2>3. /\ 1 \in DOMAIN q /\ Head(q) = q[1] /\ Tail(q) \in Seq(S) /\ \A i \in DOMAIN q : q[i] \in S /\ i \in Nat
        /\ \A i \in DOMAIN Tail(q) : i + 1 \in DOMAIN q /\ Tail(q)[i] = q[i + 1] /\ i \in Nat /\ 1 < i + 1
    BY <2>1, HeadTail
  <2>4. /\ 1 \in DOMAIN q /\ Head(q) = q[1] /\ q[1] \in S /\ \A i \in DOMAIN q : q[i].behind \in Nat
        /\ Tail(q) \in Seq(S)
        /\ \A i \in DOMAIN Tail(q) : i + 1 \in DOMAIN q /\ Tail(q)[i] = q[i + 1] /\ i \in Nat /\ 1 < i + 1
    BY <2>2, <2>3, Zenon
  <2>5. QED
    BY <2>4, Zenon DEF S, q
<1>3. l \in Nat /\ behind \in Nat /\ behind <= l
  <2>1. l \in Nat
    BY <1>1
  <2>2. behind \in Nat
    BY <1>2
  <2>3. QED
    BY <1>2, <2>1, <2>2 DEF HandOK
<1>4. n \in Nat /\ n \in 0..l /\ l = n + behind /\ l - n = behind
  <2>1. \A a, b \in Nat : b <= a => a - b \in Nat /\ a - b \in 0..a /\ a = (a - b) + b /\ a - (a - b) = b
    OBVIOUS
  <2>2. QED
    BY <1>3, <2>1, Zenon
<1>5. Distinct(my.items) /\ Tried(F, my.items)
  BY DEF HandOK, HandTried
<1>6. /\ s \in Seq(Items) /\ Len(s) = n /\ left \in Seq(Items) /\ Len(left) = l - n
      /\ IdsOf(s) \cup IdsOf(left) = IdsOf(my.items)
      /\ Distinct(s) /\ Distinct(left) /\ IdsOf(s) \cap IdsOf(left) = {} /\ Tried(F, s) /\ Tried(F, left)
  <2> HIDE DEF n
  <2>1. QED
    BY <1>1, <1>4, <1>5, SplitItems
<1>7. Len(left) = behind
  BY <1>4, <1>6
<1> HIDE DEF left, s
<1>8. /\ rest \in TaskState /\ rest.at = "embed" /\ rest.items = left /\ rest.rows = my.rows /\ rest.back = my.back
      /\ rest.pieces = Tail(my.pieces)
  BY <1>2, <1>6 DEF TaskState
<1>9. HandIds(rest) \cup IdsOf(s) = HandIds(my) /\ HandTried(F, rest)
  BY <1>6, <1>8 DEF HandIds, HandTried
<1>10. IdsOf(s) \cap HandIds(rest) = {}
  BY <1>6, <1>8 DEF HandIds, HandOK
<1> HIDE DEF rest
<1>11. /\ \A i \in DOMAIN rest.pieces : rest.pieces[i].behind <= Len(rest.items)
       /\ \A i, j \in DOMAIN rest.pieces : i < j => rest.pieces[i].behind >= rest.pieces[j].behind
  <2>1. ASSUME NEW i \in DOMAIN rest.pieces PROVE rest.pieces[i].behind <= behind
    <3>1. i \in DOMAIN Tail(my.pieces)
      BY <1>8, <2>1
    <3>2. i + 1 \in DOMAIN my.pieces /\ 1 < i + 1 /\ rest.pieces[i] = my.pieces[i + 1]
      BY <1>2, <1>8, <3>1
    <3>3. my.pieces[1].behind >= my.pieces[i + 1].behind
      BY <1>2, <3>2 DEF HandOK
    <3>4. my.pieces[1].behind \in Nat /\ my.pieces[i + 1].behind \in Nat
      BY <1>2, <3>2
    <3>5. QED
      BY <1>2, <3>2, <3>3, <3>4
  <2>2. ASSUME NEW i \in DOMAIN rest.pieces, NEW j \in DOMAIN rest.pieces, i < j
        PROVE  rest.pieces[i].behind >= rest.pieces[j].behind
    <3>1. i \in DOMAIN Tail(my.pieces) /\ j \in DOMAIN Tail(my.pieces)
      BY <1>8
    <3>2. /\ i + 1 \in DOMAIN my.pieces /\ rest.pieces[i] = my.pieces[i + 1] /\ i \in Nat
          /\ j + 1 \in DOMAIN my.pieces /\ rest.pieces[j] = my.pieces[j + 1] /\ j \in Nat
      BY <1>2, <1>8, <3>1
    <3>3. i + 1 < j + 1
      BY <2>2, <3>2
    <3>4. QED
      BY <3>2, <3>3 DEF HandOK
  <2>3. QED
    BY <1>7, <1>8, <2>1, <2>2
<1>12. HandOK(rest)
  BY <1>6, <1>8, <1>10, <1>11 DEF HandOK, HandIds
<1>13. QED
  BY <1>3, <1>4, <1>6, <1>8, <1>9, <1>10, <1>12 DEF rest, left, s

-----------------------------------------------------------------------------
\* A step in which a task keeps the texts it holds.
LEMMA MoveStep ==
    ASSUME EmbedInv, NEW t \in Tasks, NEW me \in TaskState, Becomes(t, me), HandOK(me), HandTried(failures, me),
           HandIds(me) = HandIds(task[t]), paused' \in BOOLEAN, queueFaults' \in 0..QueueFaults,
           UNCHANGED <<waiting, sent, embedded, dropped, failures, textsRefused, textsLost>>
    PROVE  EmbedInv'
<1>1. EmbedTypeOK'
  BY TasksTyped DEF EmbedTypeOK, Becomes
<1>2. DroppedForCause'
  BY DEF EmbedInv, DroppedForCause
<1>3. /\ HandIds(me) \cap IdsOf(waiting') = {} /\ Distinct(waiting') /\ Tried(failures', waiting')
  BY DEF EmbedInv
<1>4. QED
  BY <1>1, <1>2, <1>3, TaskStep

\* The texts of a refused piece of one are given up.
LEMMA RefusedStep ==
    ASSUME EmbedInv, NEW t \in Tasks, NEW s \in Seq(Items), NEW me \in TaskState, Becomes(t, me),
           HandOK(me), HandTried(failures, me), HandIds(me) \cup IdsOf(s) = HandIds(task[t]),
           IdsOf(s) \cap HandIds(me) = {}, UNCHANGED <<paused, queueFaults, waiting, sent, embedded, failures, textsLost>>,
           dropped' = dropped \cup IdsOf(s), textsRefused' = textsRefused \cup IdsOf(s)
    PROVE  EmbedInv'
<1>1. HandIds(task[t]) \subseteq sent
  BY DEF EmbedInv
<1>2. EmbedTypeOK'
  BY <1>1, TasksTyped DEF EmbedTypeOK, Becomes
<1>3. DroppedForCause'
  BY DEF EmbedInv, DroppedForCause
<1>4. /\ HandIds(me) \cap IdsOf(waiting') = {} /\ Distinct(waiting') /\ Tried(failures', waiting')
  BY DEF EmbedInv
<1>5. QED
  BY <1>2, <1>3, <1>4, TaskStep

\* A refused piece is asked again in two halves.
LEMMA HalvesOK ==
    ASSUME NEW my \in TaskState, HandOK(my), my.at = "embed", my.pieces # <<>>
    PROVE  LET behind == Head(my.pieces).behind
               n == Len(my.items) - behind
               half == n \div 2
               me == [my EXCEPT !.pieces = <<Piece(behind + n - half, FALSE), Piece(behind, TRUE)>> \o Tail(@)]
           IN  me \in TaskState /\ HandOK(me) /\ me.items = my.items /\ me.rows = my.rows /\ me.back = my.back
<1> DEFINE behind == Head(my.pieces).behind
           n == Len(my.items) - behind
           half == n \div 2
           S == [behind : Nat, second : BOOLEAN]
           p == Piece(behind + n - half, FALSE)
           q == Piece(behind, TRUE)
           two == <<p, q>>
           tail == Tail(my.pieces)
           all == two \o tail
           me == [my EXCEPT !.pieces = all]
<1>1. my.pieces \in Seq(S) /\ my.items \in Seq(Items)
  BY StateFields
<1>2. \A r \in S : r.behind \in Nat
  OBVIOUS
<1>3. /\ my.pieces[1] \in S /\ Head(my.pieces) = my.pieces[1] /\ tail \in Seq(S) /\ 1 \in DOMAIN my.pieces
      /\ \A i \in DOMAIN tail : i + 1 \in DOMAIN my.pieces /\ tail[i] = my.pieces[i + 1] /\ i \in Nat /\ 1 < i + 1
      /\ \A i \in DOMAIN my.pieces : my.pieces[i] \in S
  <2> HIDE DEF S
  <2>1. QED
    BY <1>1, HeadTail
<1>4. behind \in Nat /\ behind <= Len(my.items) /\ Len(my.items) \in Nat
  <2>1. behind \in Nat /\ Len(my.items) \in Nat
    BY <1>1, <1>2, <1>3
  <2>2. QED
    BY <1>3, <2>1 DEF HandOK
<1>5. behind + n - half \in Nat /\ behind <= behind + n - half /\ behind + n - half <= Len(my.items)
  <2>1. \A b, l \in Nat : b <= l => /\ b + (l - b) - ((l - b) \div 2) \in Nat
                                    /\ b <= b + (l - b) - ((l - b) \div 2)
                                    /\ b + (l - b) - ((l - b) \div 2) <= l
    OBVIOUS
  <2>2. QED
    BY <1>4, <2>1, Zenon
<1>6. p \in S /\ q \in S /\ p.behind = behind + n - half /\ q.behind = behind
  BY <1>4, <1>5 DEF Piece
<1> HIDE DEF p, q, half, n
<1>7. \A i \in DOMAIN tail : tail[i] \in S /\ tail[i].behind <= behind
  <2>1. ASSUME NEW i \in DOMAIN tail PROVE tail[i] \in S /\ tail[i].behind <= behind
    <3>1. i + 1 \in DOMAIN my.pieces /\ tail[i] = my.pieces[i + 1] /\ 1 < i + 1
      BY <1>3
    <3>2. my.pieces[1].behind >= my.pieces[i + 1].behind
      BY <1>3, <3>1 DEF HandOK
    <3>3. tail[i] \in S /\ tail[i].behind \in Nat
      BY <1>2, <1>3, <3>1
    <3>4. QED
      BY <1>3, <1>4, <3>1, <3>2, <3>3
  <2>2. QED
    BY <2>1
<1>8. \A i, j \in DOMAIN tail : i < j => tail[i].behind >= tail[j].behind
  <2>1. ASSUME NEW i \in DOMAIN tail, NEW j \in DOMAIN tail, i < j PROVE tail[i].behind >= tail[j].behind
    <3>1. /\ i + 1 \in DOMAIN my.pieces /\ tail[i] = my.pieces[i + 1] /\ i \in Nat
          /\ j + 1 \in DOMAIN my.pieces /\ tail[j] = my.pieces[j + 1] /\ j \in Nat
      BY <1>3
    <3>2. i + 1 < j + 1
      BY <2>1, <3>1
    <3>3. QED
      BY <3>1, <3>2 DEF HandOK
  <2>2. QED
    BY <2>1
<1> HIDE DEF S, tail, behind
<1>9. /\ all \in Seq(S)
      /\ \A i \in DOMAIN all : \/ i = 1 /\ all[i] = p
                               \/ i = 2 /\ all[i] = q
                               \/ i - 2 \in DOMAIN tail /\ i > 2 /\ all[i] = tail[i - 2]
      /\ \A i \in DOMAIN all : i \in Nat
  BY <1>3, <1>6
<1> HIDE DEF all
<1>10. /\ \A i \in DOMAIN all : all[i].behind <= Len(my.items)
       /\ \A i, j \in DOMAIN all : i < j => all[i].behind >= all[j].behind
  <2>1. \A i \in DOMAIN tail : tail[i].behind \in Nat
    BY <1>2, <1>7
  <2>2. ASSUME NEW i \in DOMAIN all PROVE all[i].behind <= Len(my.items)
    BY <1>4, <1>5, <1>6, <1>7, <1>9, <2>1
  <2>3. ASSUME NEW i \in DOMAIN all, NEW j \in DOMAIN all, i < j PROVE all[i].behind >= all[j].behind
    <3>1. CASE i = 1 /\ all[i] = p
      BY <1>4, <1>5, <1>6, <1>7, <1>9, <2>1, <2>3, <3>1
    <3>2. CASE i = 2 /\ all[i] = q
      BY <1>4, <1>5, <1>6, <1>7, <1>9, <2>1, <2>3, <3>2
    <3>3. CASE i - 2 \in DOMAIN tail /\ i > 2 /\ all[i] = tail[i - 2]
      <4>1. i \in Nat /\ j \in Nat /\ j > 2
        BY <1>9, <2>3, <3>3
      <4>2. j - 2 \in DOMAIN tail /\ all[j] = tail[j - 2]
        BY <1>9, <4>1
      <4>3. i - 2 < j - 2
        BY <2>3, <4>1
      <4>4. QED
        BY <1>8, <3>3, <4>2, <4>3
    <3>4. QED
      BY <1>9, <3>1, <3>2, <3>3
  <2>4. QED
    BY <2>2, <2>3
<1>11. /\ me \in TaskState /\ me.items = my.items /\ me.rows = my.rows /\ me.back = my.back /\ me.pieces = all
       /\ me.at = my.at
  BY <1>9 DEF TaskState, S
<1>12. HandOK(me)
  <2> HIDE DEF me
  <2>1. QED
    BY <1>10, <1>11 DEF HandOK
<1>13. QED
  BY <1>11, <1>12 DEF all, behind, n, half, p, q, tail

LEMMA EmbedPieceKeeps == ASSUME EmbedInv, NEW t \in Tasks, EmbedPiece(t) PROVE EmbedInv'
<1> DEFINE my == task[t]
           behind == Head(my.pieces).behind
           n == Len(my.items) - behind
           half == n \div 2
           s == SubSeq(my.items, 1, n)
           rest == [my EXCEPT !.items = SubSeq(@, n + 1, Len(@)), !.pieces = Tail(@)]
           halves == [my EXCEPT !.pieces = <<Piece(behind + n - half, FALSE), Piece(behind, TRUE)>> \o Tail(@)]
           asBack(u) == [rest EXCEPT !.back = @ \o u]
           asRows == [rest EXCEPT !.rows = @ \o s]
           Kept == UNCHANGED <<waiting, sent, embedded, dropped, failures, textsRefused, textsLost>>
<1>1. /\ my.at = "embed" /\ my.pieces # <<>> /\ UNCHANGED <<waiting, sent, embedded, textsLost>>
      /\ \/ /\ Becomes(t, asBack(s)) /\ Kept /\ UNCHANGED <<paused, queueFaults>>
         \/ /\ Becomes(t, asRows) /\ Kept /\ UNCHANGED <<paused, queueFaults>>
         \/ /\ Becomes(t, rest) /\ UNCHANGED <<paused, failures, queueFaults>>
            /\ dropped' = dropped \cup IdsOf(s) /\ textsRefused' = textsRefused \cup IdsOf(s)
         \/ /\ Becomes(t, halves) /\ Kept /\ UNCHANGED <<paused, queueFaults>>
         \/ /\ Becomes(t, asBack(s)) /\ Kept /\ paused' = TRUE /\ QueueFault
         \/ /\ Becomes(t, asBack(Again(s))) /\ Charge(s) /\ UNCHANGED <<paused, textsRefused>> /\ QueueFault
  BY DEF EmbedPiece, Unasked, AfterQuota
<1>2. my \in TaskState /\ HandOK(my) /\ HandTried(failures, my)
  BY TasksTyped
<1>3. /\ s \in Seq(Items) /\ Distinct(s) /\ Tried(failures, s)
      /\ rest \in TaskState /\ rest.at = "embed" /\ HandOK(rest) /\ HandTried(failures, rest)
      /\ HandIds(rest) \cup IdsOf(s) = HandIds(my) /\ IdsOf(s) \cap HandIds(rest) = {}
  BY <1>1, <1>2, PieceTaken
<1>4. /\ halves \in TaskState /\ HandOK(halves) /\ halves.items = my.items /\ halves.rows = my.rows
      /\ halves.back = my.back
  BY <1>1, <1>2, HalvesOK
<1>5. paused \in BOOLEAN /\ queueFaults \in 0..QueueFaults /\ (QueueFault => queueFaults' \in 0..QueueFaults)
  BY EmbedAssumption, TasksTyped DEF QueueFault, EmbedTypeOK
<1> HIDE DEF s, rest, halves
<1>6. ASSUME NEW u \in Seq(Items)
      PROVE  /\ asBack(u) \in TaskState /\ asBack(u).at = rest.at /\ asBack(u).items = rest.items
             /\ asBack(u).pieces = rest.pieces /\ asBack(u).rows = rest.rows /\ asBack(u).back = rest.back \o u
  <2>1. rest.back \o u \in Seq(Items)
    BY <1>3, StateFields, ConcatItems
  <2>2. QED
    BY <1>3, <2>1 DEF TaskState
<1>7. /\ asRows \in TaskState /\ asRows.at = rest.at /\ asRows.items = rest.items
      /\ asRows.pieces = rest.pieces /\ asRows.back = rest.back /\ asRows.rows = rest.rows \o s
  <2>1. rest.rows \o s \in Seq(Items)
    BY <1>3, StateFields, ConcatItems
  <2>2. QED
    BY <1>3, <2>1 DEF TaskState
<1>8. HandOK(asBack(s)) /\ HandIds(asBack(s)) = HandIds(my) /\ HandTried(failures, asBack(s))
  <2> DEFINE me == asBack(s)
  <2>1. /\ me \in TaskState /\ me.at = rest.at /\ me.items = rest.items
        /\ me.pieces = rest.pieces /\ me.rows = rest.rows /\ me.back = rest.back \o s
    BY <1>3, <1>6
  <2> HIDE DEF me
  <2>2. HandOK(me) /\ HandIds(me) = HandIds(my) /\ HandTried(failures, me)
    BY <1>3, <2>1, AddBack
  <2>3. QED
    BY <2>2 DEF me
<1>9. HandOK(asRows) /\ HandIds(asRows) = HandIds(my) /\ HandTried(failures, asRows)
  BY <1>3, <1>7, AddRows
<1>10. HandIds(halves) = HandIds(my) /\ HandTried(failures, halves)
  BY <1>2, <1>4 DEF HandIds, HandTried
<1> HIDE DEF asRows
<1>11. CASE Becomes(t, asBack(s)) /\ Kept /\ UNCHANGED <<paused, queueFaults>>
  BY <1>3, <1>5, <1>6, <1>8, <1>11, MoveStep
<1>12. CASE Becomes(t, asRows) /\ Kept /\ UNCHANGED <<paused, queueFaults>>
  BY <1>5, <1>7, <1>9, <1>12, MoveStep
<1>13. CASE /\ Becomes(t, rest) /\ UNCHANGED <<paused, failures, queueFaults>>
            /\ dropped' = dropped \cup IdsOf(s) /\ textsRefused' = textsRefused \cup IdsOf(s)
  BY <1>1, <1>3, <1>13, RefusedStep
<1>14. CASE Becomes(t, halves) /\ Kept /\ UNCHANGED <<paused, queueFaults>>
  BY <1>4, <1>5, <1>10, <1>14, MoveStep
<1>15. CASE Becomes(t, asBack(s)) /\ Kept /\ paused' = TRUE /\ QueueFault
  BY <1>3, <1>5, <1>6, <1>8, <1>15, MoveStep
<1>16. CASE Becomes(t, asBack(Again(s))) /\ Charge(s) /\ UNCHANGED <<paused, textsRefused>> /\ QueueFault
  <2>1. Again(s) \in Seq(Items)
    BY <1>3, AgainItems
  <2>2. QED
    BY <1>1, <1>3, <1>5, <1>6, <1>16, <2>1, ChargeStep
<1>17. QED
  BY <1>1, <1>11, <1>12, <1>13, <1>14, <1>15, <1>16

-----------------------------------------------------------------------------
\* A task that Redis fails goes idle with empty hands.
LEMMA RedisFailsKeeps == ASSUME EmbedInv, NEW t \in Tasks, RedisFails(t) PROVE EmbedInv'
<1> DEFINE my == task[t]
<1>1. /\ my \in TaskState /\ HandOK(my) /\ waiting \in Seq(Items) /\ Held(t) = HandIds(my)
  BY TasksTyped DEF Held, HandIds
<1>2. /\ textsLost' = textsLost \cup HandIds(my) /\ Becomes(t, IdleTask) /\ QueueFault
      /\ UNCHANGED <<waiting, sent, embedded, dropped, failures, textsRefused>>
  BY <1>1 DEF RedisFails
<1>3. paused' \in BOOLEAN
  BY TasksTyped DEF RedisFails, EmbedTypeOK
<1>4. DroppedForCause'
  BY <1>2 DEF EmbedInv, DroppedForCause
<1>5. /\ Distinct(waiting) /\ Tried(failures, waiting) /\ HandIds(my) \subseteq sent
      /\ HandIds(my) \cap IdsOf(waiting) = {}
  BY DEF EmbedInv
<1>6. IdleTask \in TaskState /\ HandOK(IdleTask) /\ HandIds(IdleTask) = {} /\ HandTried(failures', IdleTask)
  BY IdleState, EmptyHand
<1>7. queueFaults' \in 0..QueueFaults
  BY <1>2, EmbedAssumption, TasksTyped DEF QueueFault, EmbedTypeOK
<1>8. EmbedTypeOK'
  BY <1>2, <1>3, <1>5, <1>6, <1>7, TasksTyped DEF EmbedTypeOK, Becomes
<1>9. QED
  <2> HIDE DEF my
  <2>1. HandIds(task[t]) = HandIds(my)
    BY DEF my
  <2>2. QED
    BY <1>2, <1>4, <1>5, <1>6, <1>8, <2>1, TaskStep

\* The batch of an LPOP whose answer is lost is nobody's.
LEMMA BatchIsLostKeeps == ASSUME EmbedInv, NEW t \in Tasks, BatchIsLost(t) PROVE EmbedInv'
<1> DEFINE my == task[t]
           n == Min({FlushSize, my.budget, Len(waiting)})
           batch == SubSeq(waiting, 1, n)
           others == SubSeq(waiting, n + 1, Len(waiting))
<1>1. /\ waiting' = others /\ Becomes(t, IdleTask) /\ my.at = "pop" /\ QueueFault
      /\ textsLost' = textsLost \cup IdsOf(batch)
      /\ UNCHANGED <<paused, sent, embedded, dropped, failures, textsRefused>>
  BY DEF BatchIsLost
<1>2. my \in TaskState /\ HandOK(my) /\ waiting \in Seq(Items) /\ my.budget \in Nat
  BY TasksTyped, StateFields
<1>3. my.items = <<>> /\ my.rows = <<>> /\ my.back = <<>>
  BY <1>1, <1>2 DEF HandOK
<1>4. HandIds(my) = {}
  BY <1>3, EmptyItems DEF HandIds
<1>5. n \in Nat /\ n <= Len(waiting)
  <2>1. FlushSize \in Nat /\ Len(waiting) \in Nat
    BY <1>2, EmbedAssumption
  <2>2. QED
    BY <1>2, <2>1, MinOfThree
<1>6. n \in 0..Len(waiting)
  <2>1. Len(waiting) \in Nat
    BY <1>2
  <2>2. QED
    BY <1>5, <2>1
<1>7. Distinct(waiting) /\ Tried(failures, waiting) /\ IdsOf(waiting) \subseteq sent
  BY DEF EmbedInv
<1> HIDE DEF n
<1>8. /\ others \in Seq(Items) /\ IdsOf(batch) \cup IdsOf(others) = IdsOf(waiting)
      /\ Distinct(others) /\ Tried(failures, others)
  BY <1>2, <1>6, <1>7, SplitItems
<1>9. DroppedForCause'
  BY <1>1 DEF EmbedInv, DroppedForCause
<1>10. IdleTask \in TaskState /\ HandOK(IdleTask) /\ HandIds(IdleTask) = {} /\ HandTried(failures', IdleTask)
  BY IdleState, EmptyHand
<1>11. queueFaults' \in 0..QueueFaults
  BY <1>1, EmbedAssumption, TasksTyped DEF QueueFault, EmbedTypeOK
<1> HIDE DEF batch, others
<1>12. EmbedTypeOK'
  BY <1>1, <1>7, <1>8, <1>10, <1>11, TasksTyped DEF EmbedTypeOK, Becomes
<1>13. QED
  BY <1>1, <1>4, <1>7, <1>8, <1>9, <1>10, <1>12, TaskStep

LEMMA EmbedStep == EmbedInv /\ [EmbedNext]_embedVars => EmbedInv'
<1> SUFFICES ASSUME EmbedInv, [EmbedNext]_embedVars PROVE EmbedInv'
  OBVIOUS
<1>1. ASSUME NEW x \in Texts, Enqueue(x) PROVE EmbedInv'
  BY <1>1, EnqueueKeeps
<1>2. ASSUME NEW x \in Texts, NeverQueued(x) PROVE EmbedInv'
  BY <1>2, NeverQueuedKeeps
<1>3. ASSUME NEW d \in Drains, Search(d) PROVE EmbedInv'
  BY <1>3, SearchKeeps
<1>4. ASSUME NEW t \in Tasks, Check(t) PROVE EmbedInv'
  BY <1>4, CheckKeeps
<1>5. ASSUME NEW t \in Tasks, Pop(t) PROVE EmbedInv'
  BY <1>5, PopKeeps
<1>6. ASSUME NEW t \in Tasks, EmbedPiece(t) PROVE EmbedInv'
  BY <1>6, EmbedPieceKeeps
<1>7. ASSUME NEW t \in Tasks, Store(t) PROVE EmbedInv'
  BY <1>7, StoreKeeps
<1>8. ASSUME NEW t \in Tasks, Advance(t) PROVE EmbedInv'
  BY <1>8, AdvanceKeeps
<1>9. ASSUME NEW t \in Tasks, Requeue(t) PROVE EmbedInv'
  BY <1>9, RequeueKeeps
<1>10. ASSUME NEW t \in Tasks, RedisFails(t) PROVE EmbedInv'
  BY <1>10, RedisFailsKeeps
<1>11. ASSUME NEW t \in Tasks, BatchIsLost(t) PROVE EmbedInv'
  BY <1>11, BatchIsLostKeeps
<1>12. CASE Die
  BY <1>12, DieKeeps
<1>13. CASE BackoffEnds
  BY <1>13, BackoffEndsKeeps
<1>14. CASE UNCHANGED embedVars
  BY <1>14, StutterKeeps
<1>15. QED
  BY <1>1, <1>2, <1>3, <1>4, <1>5, <1>6, <1>7, <1>8, <1>9, <1>10, <1>11, <1>12, <1>13, <1>14, Zenon DEF EmbedNext

\* A text is in one place when the places hold distinct texts and none in common.
LEMMA PlacesCounted ==
    ASSUME EmbedInv, NEW x \in Texts
    PROVE  /\ Copies(x) <= 1
           /\ x \in IdsOf(waiting) \/ (\E t \in Tasks : x \in HandIds(task[t])) => Copies(x) = 1
<1> DEFINE P == {i \in DOMAIN waiting : waiting[i].id = x}
           Q == {t \in Tasks : x \in Held(t)}
<1>1. \A t \in Tasks : Held(t) = HandIds(task[t])
  BY DEF Held, HandIds
<1>2. Copies(x) = Cardinality(P) + Cardinality(Q)
  BY DEF Copies
<1>3. x \in IdsOf(waiting) <=> P # {}
  BY DEF IdsOf
<1>4. (\E t \in Tasks : x \in HandIds(task[t])) <=> Q # {}
  BY <1>1
<1>5. P = {} \/ \E i : P = {i}
  <2>1. \A i, j \in P : i = j
    BY DEF EmbedInv, Distinct
  <2> HIDE DEF P
  <2>2. ASSUME NEW i \in P PROVE P = {i}
    BY <2>1, <2>2
  <2>3. QED
    BY <2>2
<1>6. Q = {} \/ \E t : Q = {t}
  <2>1. ASSUME NEW t \in Tasks, NEW u \in Tasks, x \in HandIds(task[t]), x \in HandIds(task[u]) PROVE t = u
    BY <2>1 DEF EmbedInv
  <2>2. \A t, u \in Q : t = u
    BY <1>1, <2>1
  <2> HIDE DEF Q
  <2>3. ASSUME NEW t \in Q PROVE Q = {t}
    BY <2>2, <2>3
  <2>4. QED
    BY <2>3
<1>7. P = {} \/ Q = {}
  BY <1>1, <1>3 DEF EmbedInv
<1> HIDE DEF P, Q
<1>8. Cardinality({}) = 0 /\ \A i : Cardinality({i}) = 1
  BY FS_EmptySet, FS_Singleton
<1>9. Cardinality(P) = (IF P = {} THEN 0 ELSE 1) /\ Cardinality(Q) = (IF Q = {} THEN 0 ELSE 1)
  BY <1>5, <1>6, <1>8
<1>10. QED
  BY <1>2, <1>3, <1>4, <1>7, <1>9

LEMMA EmbedInvTells == EmbedInv => EmbedTypeOK /\ TextIsKept /\ DroppedForCause
<1> SUFFICES ASSUME EmbedInv PROVE EmbedTypeOK /\ TextIsKept /\ DroppedForCause
  OBVIOUS
<1>1. ASSUME NEW x \in Texts, x \in sent \ (embedded \cup dropped \cup textsLost) PROVE Copies(x) = 1
  <2>1. x \in IdsOf(waiting) \/ \E t \in Tasks : x \in HandIds(task[t])
    BY <1>1 DEF EmbedInv
  <2>2. QED
    BY <2>1, PlacesCounted
<1>2. TextIsKept
  BY <1>1, PlacesCounted DEF TextIsKept
<1>3. QED
  BY <1>2 DEF EmbedInv

LEMMA EmbedAlways == EmbedSpec => [](EmbedTypeOK /\ TextIsKept /\ DroppedForCause)
<1>1. EmbedInit => EmbedInv
  BY EmbedInitInv
<1>2. EmbedInv /\ [EmbedNext]_embedVars => EmbedInv'
  BY EmbedStep
<1>3. EmbedInv => EmbedTypeOK /\ TextIsKept /\ DroppedForCause
  BY EmbedInvTells
<1>4. QED
  BY <1>1, <1>2, <1>3, PTL DEF EmbedSpec

\* A user has one stream of answers at a time, and a text of a message that was
\* sent is embedded, given up for its own failures, or in exactly one place from
\* where it is tried again, however flushes and searches share the queue, but
\* for a failure of Redis or a death of the process that has popped it.
THEOREM SearchHoldsAlways == StreamSpec /\ EmbedSpec => []SearchHolds
<1>1. (StreamTypeOK /\ StreamsTakeTurns) /\ (EmbedTypeOK /\ TextIsKept /\ DroppedForCause) => SearchHolds
  BY DEF SearchHolds
<1>2. QED
  BY <1>1, StreamsAlways, EmbedAlways, PTL

=============================================================================
