----------------------------- MODULE ReceiptLog ------------------------------
(***************************************************************************)
(* The receipt worker (modules/receipts/receipt_log.py): it drains the     *)
(* receipt stream in batches, folds a batch to the furthest receipt per    *)
(* key, moves the watermarks one commit at a time, writes the log rows of  *)
(* the ones that moved in one more commit, publishes their live events and *)
(* acknowledges the whole batch.  A key is a (chat, user, kind); a payload *)
(* is a receipt [key, upTo].                                               *)
(***************************************************************************)
EXTENDS ConsumerGroup

CONSTANTS
    Keys,      \* (chat, user, kind) triples
    MaxUpTo,   \* bound: message ids receipts name
    Refused,   \* receipts that move nothing: "played" of a text message
    Hiding     \* keys of readers who hide their receipts

ASSUME ReceiptLogAssumption ==
    /\ MaxUpTo \in Nat
    /\ Payloads \subseteq [key : Keys, upTo : 1..MaxUpTo]
    /\ Refused \subseteq Payloads
    /\ Hiding \subseteq Keys

VARIABLES
    todo,        \* worker -> folded receipts it has yet to apply
    outcomes,    \* worker -> receipts of its batch that moved a watermark
    stage,       \* worker -> where its drain is
    watermark,   \* key -> participants.last_*_message_id
    logged,      \* receipt -> rows of message_receipt_log
    published,   \* receipts whose live event went out
    moved        \* history: receipts that ever moved a watermark

receiptVars == <<todo, outcomes, stage, watermark, logged, published, moved>>
vars == <<groupVars, receiptVars>>

Receipts == [key : Keys, upTo : 1..MaxUpTo]

TypeOK ==
    /\ GroupTypeOK
    /\ todo \in [Workers -> SUBSET Receipts]
    /\ outcomes \in [Workers -> SUBSET moved]
    /\ stage \in [Workers -> {"idle", "apply", "publish", "ack"}]
    /\ watermark \in [Keys -> 0..MaxUpTo]
    /\ logged \in [Receipts -> Nat]
    /\ published \in SUBSET Receipts
    /\ moved \in SUBSET Receipts
    /\ \A w \in Workers : stage[w] = "idle" => todo[w] = {} /\ outcomes[w] = {}

Init ==
    /\ GroupInit
    /\ todo = [w \in Workers |-> {}]
    /\ outcomes = [w \in Workers |-> {}]
    /\ stage = [w \in Workers |-> "idle"]
    /\ watermark = [k \in Keys |-> 0]
    /\ logged = [r \in Receipts |-> 0]
    /\ published = {}
    /\ moved = {}

-----------------------------------------------------------------------------
\* Mutant of Collapse: the oldest receipt of a key wins.
CollapseFirst(batch) ==
    {stream[e] : e \in {f \in batch : \A g \in batch : stream[g].key = stream[f].key => g >= f}}

\* _collapse: the furthest receipt of each key in the batch.
Collapse(batch) ==
    {r \in {stream[e] : e \in batch} :
        \A e \in batch : stream[e].key = r.key => stream[e].upTo <= r.upTo}

EnqueueReceipt(r) == XAdd(r) /\ UNCHANGED receiptVars

Drain(w) ==
    /\ Read(w)
    /\ todo' = [todo EXCEPT ![w] = Collapse(fresh'[w] \cup claimed'[w])]
    /\ stage' = [stage EXCEPT ![w] = "apply"]
    /\ UNCHANGED <<outcomes, watermark, logged, published, moved>>

\* The UPDATE's WHERE: only forward.
Advances(r) == r \notin Refused /\ watermark[r.key] < r.upTo

\* Mutant of ApplyReceipt: the watermark is read and written in two steps, so
\* the same receipt can move it twice.
ApplyReceiptTwice(w, r) ==
    /\ stage[w] = "apply"
    /\ r \in todo[w]
    /\ todo' = [todo EXCEPT ![w] = @ \ {r}]
    /\ IF r \notin Refused /\ watermark[r.key] <= r.upTo
       THEN /\ watermark' = [watermark EXCEPT ![r.key] = r.upTo]
            /\ outcomes' = [outcomes EXCEPT ![w] = @ \cup {r}]
            /\ moved' = moved \cup {r}
       ELSE UNCHANGED <<watermark, outcomes, moved>>
    /\ UNCHANGED <<groupVars, stage, logged, published>>

\* apply_receipt: one conditional UPDATE, committed on its own.
ApplyReceipt(w, r) ==
    /\ stage[w] = "apply"
    /\ r \in todo[w]
    /\ todo' = [todo EXCEPT ![w] = @ \ {r}]
    /\ IF Advances(r)
       THEN /\ watermark' = [watermark EXCEPT ![r.key] = r.upTo]
            /\ outcomes' = [outcomes EXCEPT ![w] = @ \cup {r}]
            /\ moved' = moved \cup {r}
       ELSE UNCHANGED <<watermark, outcomes, moved>>
    /\ UNCHANGED <<groupVars, stage, logged, published>>

\* The second commit of the batch: its log rows.
WriteRows(w) ==
    /\ stage[w] = "apply"
    /\ todo[w] = {}
    /\ logged' = [r \in Receipts |-> logged[r] + IF r \in outcomes[w] THEN 1 ELSE 0]
    /\ stage' = [stage EXCEPT ![w] = "publish"]
    /\ UNCHANGED <<groupVars, todo, outcomes, watermark, published, moved>>

\* Best effort, one event each; a reader who hides receipts has none.
PublishEvents(w) ==
    /\ stage[w] = "publish"
    /\ \E sent \in SUBSET {r \in outcomes[w] : r.key \notin Hiding} :
          published' = published \cup sent
    /\ outcomes' = [outcomes EXCEPT ![w] = {}]
    /\ stage' = [stage EXCEPT ![w] = "ack"]
    /\ UNCHANGED <<groupVars, todo, watermark, logged, moved>>

\* XACK of everything the batch held, without a retry.
AckBatch(w) ==
    /\ stage[w] = "ack"
    /\ acked' = acked \cup HeldBy(w)
    /\ fresh' = [fresh EXCEPT ![w] = {}]
    /\ claimed' = [claimed EXCEPT ![w] = {}]
    /\ stage' = [stage EXCEPT ![w] = "idle"]
    /\ UNCHANGED <<stream, trimmed, cursor, ackIds, faults, crashes>>
    /\ UNCHANGED <<todo, outcomes, watermark, logged, published, moved>>

\* A statement or call raises, or the process dies: the iteration is over, the
\* batch stays pending and what it remembered is gone.
Fail(w) ==
    /\ Crash(w)
    /\ todo' = [todo EXCEPT ![w] = {}]
    /\ outcomes' = [outcomes EXCEPT ![w] = {}]
    /\ stage' = [stage EXCEPT ![w] = "idle"]
    /\ UNCHANGED <<watermark, logged, published, moved>>

Next ==
    \/ \E r \in Payloads : EnqueueReceipt(r)
    \/ \E w \in Workers :
          \/ Drain(w)
          \/ \E r \in Receipts : ApplyReceipt(w, r)
          \/ WriteRows(w)
          \/ PublishEvents(w)
          \/ AckBatch(w)
          \/ Fail(w)

\* run_forever loops and catches whatever a drain raises.
Fairness ==
    \A w \in Workers :
        WF_vars(Drain(w) \/ WriteRows(w) \/ PublishEvents(w) \/ AckBatch(w)
                \/ \E r \in Receipts : ApplyReceipt(w, r))

Spec == Init /\ [][Next]_vars

FairSpec == Spec /\ Fairness

-----------------------------------------------------------------------------
\* A receipt has done its work once the watermark has reached it.  A refused
\* one does nothing, and takes with it what it was folded over: a listen to a
\* voice message is lost if the batch also has a "played" of a later text
\* message, which the apps never send.
Covered(r) ==
    \/ watermark[r.key] >= r.upTo
    \/ \E q \in Refused : q.key = r.key /\ q.upTo >= r.upTo

\* Folding a batch, two workers on one key and redelivery lose no progress: an
\* acknowledged receipt is at or below its watermark.
AckedIsCovered == \A e \in acked : Covered(stream[e])

\* The detailed view is built on rows: however often a receipt is delivered,
\* one move of a watermark has at most one row, and what was published to the
\* chat has one.
RowsMatchMoves ==
    /\ \A r \in Receipts : logged[r] <= (IF r \in moved THEN 1 ELSE 0)
    /\ \A r \in published : logged[r] = 1

InProgress(r) == \E w \in Workers : stage[w] = "apply" /\ r \in outcomes[w]

\* Without a failure every move is logged, or is about to be.
MovedIsLoggedWithoutFault ==
    crashes = 0 => \A r \in moved : logged[r] = 1 \/ InProgress(r)

\* What the log and the acknowledgements say is true of the watermarks.
LogHolds == TypeOK /\ AckedIsCovered /\ RowsMatchMoves /\ MovedIsLoggedWithoutFault

\* Every receipt that MAXLEN does not cut off moves its watermark in the end.
EveryReceiptCounts ==
    \A e \in 1..MaxEntries :
        (e \in Entries) ~> (e <= trimmed \/ (e \in Entries /\ Covered(stream[e])))

\* The receipt worker is an at-least-once consumer whose effect is that the
\* receipt is covered: no entry is acknowledged before, and no later batch
\* takes the watermark back below one that was.
Promise == INSTANCE AtLeastOnce WITH
    added <- Len(stream),
    handled <- {e \in Entries : Covered(stream[e])},
    retired <- acked

ImplementsAtLeastOnce == Promise!Spec

\* Refuted: "re-running the keys that already succeeded is harmless".  If the
\* batch fails after a key's own commit, the redelivered receipt finds the
\* watermark already there, and its log row and event are never written.
MovedIsLogged ==
    (\A e \in Entries : e \in acked) => \A r \in moved : logged[r] = 1 \/ InProgress(r)

=============================================================================
