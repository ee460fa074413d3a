---------------------------- MODULE SendPipeline -----------------------------
(***************************************************************************)
(* One chat's outgoing messages: producers XADD them onto the send stream, *)
(* the SendWorker of every process runs process_outgoing on each entry     *)
(* (realtime/fanout/worker.py, modules/messaging/send.py), which reserves  *)
(* the client_message_id in Redis, commits the row in Postgres, and hands  *)
(* the message to the embedding queue and the fan-out stream.  Every call  *)
(* to Redis or Postgres is a step of its own, so a failure or a crash can  *)
(* fall between any two of them.                                           *)
(*                                                                         *)
(* An entry's payload is its client_message_id (Payloads); a client that   *)
(* got no answer enqueues the same id again.                               *)
(***************************************************************************)
EXTENDS ConsumerGroup

CONSTANTS
    Oversized,    \* ids whose content or media can never be accepted
    Media,        \* ids that carry a media attachment
    Uncaptioned,  \* media ids the owner-agent chat refuses for want of a caption
    MaxIds,       \* bound: message ids minted
    MaxMoves      \* bound: membership changes of senders

ASSUME SendAssumption ==
    /\ IsFiniteSet(Workers)
    /\ Oversized \subseteq Payloads
    /\ Media \subseteq Payloads
    /\ Uncaptioned \subseteq Media
    /\ MaxIds \in Nat
    /\ MaxMoves \in Nat

VARIABLES
    step,     \* worker -> where process_outgoing is on its current entry
    got,      \* worker -> the message id it minted, or found in the key
    byKey,    \* worker -> TRUE if it holds the reservation of the key
    member,   \* client_message_id -> is its sender still a participant
    moves,    \* membership changes so far
    idem,     \* msg_idem:{chat}:{cmid}: Absent, InFlight, or a message id
    lapsed,   \* history: keys whose day ran out
    nextId,   \* next Snowflake id
    rows,     \* the messages table
    blobRefs, \* media_blob.ref_count bumps made for a client_message_id
    embedQ,   \* message ids handed to the embedding queue
    fanned,   \* message ids handed to the fan-out stream
    notices   \* events sent to the sender: <<kind, client_message_id>>

procVars == <<step, got, byKey>>
dbVars == <<member, moves, nextId, rows, blobRefs>>
outVars == <<idem, lapsed, embedQ, fanned, notices>>
vars == <<groupVars, procVars, dbVars, outVars>>

Absent == 0        \* no key in Redis (message ids start at 1)
InFlight == MaxIds + 1   \* the string "pending"

Ids == 1..MaxIds

Steps == {"check", "reject", "reserve", "wait", "mint", "commit", "record",
          "embed", "enqueue", "refan", "tell", "after"}

Row == [id : Ids, cmid : Payloads, byKey : BOOLEAN]

\* The steps that use the message id a worker has in hand.
NeedsId == {"commit", "record", "embed", "enqueue", "refan"}

TypeOK ==
    /\ GroupTypeOK
    /\ step \in [Workers -> Steps]
    /\ got \in [Workers -> 0..MaxIds]
    /\ \A w \in Workers : step[w] \in NeedsId => got[w] \in Ids
    /\ byKey \in [Workers -> BOOLEAN]
    /\ member \in [Payloads -> BOOLEAN]
    /\ moves \in 0..MaxMoves
    /\ idem \in [Payloads -> Ids \cup {Absent, InFlight}]
    /\ lapsed \in SUBSET Payloads
    /\ nextId \in 1..MaxIds + 1
    /\ rows \in SUBSET Row
    /\ blobRefs \in [Payloads -> Nat]
    /\ embedQ \in SUBSET Ids
    /\ fanned \in SUBSET Ids
    /\ notices \in SUBSET ({"message_failed", "message_already_sent"} \X Payloads)

Init ==
    /\ GroupInit
    /\ step = [w \in Workers |-> "check"]
    /\ got = [w \in Workers |-> 0]
    /\ byKey = [w \in Workers |-> FALSE]
    /\ member = [c \in Payloads |-> TRUE]
    /\ moves = 0
    /\ idem = [c \in Payloads |-> Absent]
    /\ lapsed = {}
    /\ nextId = 1
    /\ rows = {}
    /\ blobRefs = [c \in Payloads |-> 0]
    /\ embedQ = {}
    /\ fanned = {}
    /\ notices = {}

RowsOf(c) == {r \in rows : r.cmid = c}

-----------------------------------------------------------------------------
\* The gateway or the scheduled-message worker queues a message; a client
\* that hears nothing queues it again under the same client_message_id.
Enqueue(c) ==
    /\ XAdd(c)
    /\ UNCHANGED <<procVars, dbVars, outVars>>

\* The sender is removed from the chat, or added back.
ChangeMembership(c) ==
    /\ moves < MaxMoves
    /\ moves' = moves + 1
    /\ member' = [member EXCEPT ![c] = ~@]
    /\ UNCHANGED <<groupVars, procVars, nextId, rows, blobRefs, outVars>>

\* The key is kept for a day (_IDEMPOTENCY_TTL_SECONDS); here a key runs out
\* at any time, once.
KeyLapses(c) ==
    /\ c \notin lapsed /\ idem[c] # Absent
    /\ lapsed' = lapsed \cup {c}
    /\ idem' = [idem EXCEPT ![c] = Absent]
    /\ UNCHANGED <<groupVars, procVars, dbVars, embedQ, fanned, notices>>

Drain(w) == Read(w) /\ UNCHANGED <<procVars, dbVars, outVars>>

\* Worker w is at step s with entry e.
At(w, e, s) == IsNext(w, e) /\ step[w] = s

Goto(w, s) == step' = [step EXCEPT ![w] = s]

\* Mutant of Check: only the first attempt takes a blob reference.
CheckCountsOnce(w, e) ==
    LET c == stream[e]
        counted == member[c] /\ c \in Media \ Oversized /\ idem[c] = Absent
    IN /\ At(w, e, "check")
       /\ Goto(w, IF member[c] /\ c \notin Oversized \cup Uncaptioned THEN "reserve"
                                                                      ELSE "reject")
       /\ blobRefs' = IF counted THEN [blobRefs EXCEPT ![c] = @ + 1] ELSE blobRefs
       /\ UNCHANGED <<groupVars, got, byKey, member, moves, nextId, rows, outVars>>

\* Content length, membership and media checks; confirm_and_ref commits the
\* reference-count bump before the caption check and the idempotency check.
Check(w, e) ==
    LET c == stream[e]
        counted == member[c] /\ c \in Media \ Oversized
    IN /\ At(w, e, "check")
       /\ Goto(w, IF member[c] /\ c \notin Oversized \cup Uncaptioned THEN "reserve"
                                                                      ELSE "reject")
       /\ blobRefs' = IF counted THEN [blobRefs EXCEPT ![c] = @ + 1] ELSE blobRefs
       /\ UNCHANGED <<groupVars, got, byKey, member, moves, nextId, rows, outVars>>

\* A permanent error: the sender is told and the entry will be acknowledged.
Reject(w, e) ==
    /\ At(w, e, "reject")
    /\ notices' = notices \cup {<<"message_failed", stream[e]>>}
    /\ Goto(w, "after")
    /\ UNCHANGED <<groupVars, got, byKey, dbVars, idem, lapsed, embedQ, fanned>>

\* Mutant of Reserve: SET without NX.
ReserveAlways(w, e) ==
    /\ At(w, e, "reserve")
    /\ idem' = [idem EXCEPT ![stream[e]] = InFlight]
    /\ byKey' = [byKey EXCEPT ![w] = TRUE]
    /\ Goto(w, "mint")
    /\ UNCHANGED <<groupVars, got, dbVars, lapsed, embedQ, fanned, notices>>

\* SET NX "pending".
Reserve(w, e) ==
    LET c == stream[e] IN
    /\ At(w, e, "reserve")
    /\ IF idem[c] = Absent
       THEN /\ idem' = [idem EXCEPT ![c] = InFlight]
            /\ byKey' = [byKey EXCEPT ![w] = TRUE]
            /\ Goto(w, "mint")
       ELSE Goto(w, "wait") /\ UNCHANGED <<idem, byKey>>
    /\ UNCHANGED <<groupVars, got, dbVars, lapsed, embedQ, fanned, notices>>

\* Mutant of FoundSent: the sender is told, the message is not fanned out.
FoundSentOnlyTells(w, e) ==
    /\ At(w, e, "wait")
    /\ idem[stream[e]] \in Ids
    /\ Goto(w, "tell")
    /\ UNCHANGED <<groupVars, got, byKey, dbVars, outVars>>

\* A poll of the key finds the id of a message that was already written.
FoundSent(w, e) ==
    /\ At(w, e, "wait")
    /\ idem[stream[e]] \in Ids
    /\ got' = [got EXCEPT ![w] = idem[stream[e]]]
    /\ Goto(w, "refan")
    /\ UNCHANGED <<groupVars, byKey, dbVars, outVars>>

\* Mutant of TakeOver: an unanswered reservation counts as sent.
WaitGivesUp(w, e) ==
    /\ At(w, e, "wait")
    /\ idem[stream[e]] \notin Ids
    /\ Goto(w, "after")
    /\ UNCHANGED <<groupVars, got, byKey, dbVars, outVars>>

\* Mutant of TakeOver: a retry polls until the first attempt answers.
KeepsWaiting(w, e) ==
    /\ At(w, e, "wait")
    /\ idem[stream[e]] \notin Ids
    /\ Goto(w, "reserve")
    /\ UNCHANGED <<groupVars, got, byKey, dbVars, outVars>>

\* The key still says "pending" after two seconds, or it is gone: take the
\* send over.
TakeOver(w, e) ==
    /\ At(w, e, "wait")
    /\ idem[stream[e]] \notin Ids
    /\ Goto(w, "mint")
    /\ UNCHANGED <<groupVars, got, byKey, dbVars, outVars>>

\* Mutant of MintId: the key is set to the id before the row is written.
MintAndRecord(w, e) ==
    /\ At(w, e, "mint")
    /\ nextId \in Ids
    /\ got' = [got EXCEPT ![w] = nextId]
    /\ nextId' = nextId + 1
    /\ idem' = [idem EXCEPT ![stream[e]] = nextId]
    /\ Goto(w, "commit")
    /\ UNCHANGED <<groupVars, byKey, member, moves, rows, blobRefs, lapsed, embedQ, fanned, notices>>

MintId(w, e) ==
    /\ At(w, e, "mint")
    /\ nextId \in Ids
    /\ got' = [got EXCEPT ![w] = nextId]
    /\ nextId' = nextId + 1
    /\ Goto(w, "commit")
    /\ UNCHANGED <<groupVars, byKey, member, moves, rows, blobRefs, outVars>>

\* create_message commits the row (the chat's recency and the receipt cursors
\* it updates in the same transaction are modelled in ReceiptCursors).
CommitRow(w, e) ==
    /\ At(w, e, "commit")
    /\ rows' = rows \cup {[id |-> got[w], cmid |-> stream[e], byKey |-> byKey[w]]}
    /\ Goto(w, "record")
    /\ UNCHANGED <<groupVars, got, byKey, member, moves, nextId, blobRefs, outVars>>

\* SET msg_idem = message id.
RecordId(w, e) ==
    /\ At(w, e, "record")
    /\ idem' = [idem EXCEPT ![stream[e]] = got[w]]
    /\ Goto(w, "embed")
    /\ UNCHANGED <<groupVars, got, byKey, dbVars, lapsed, embedQ, fanned, notices>>

\* Only text is embedded.
EnqueueEmbedding(w, e) ==
    /\ At(w, e, "embed")
    /\ embedQ' = IF stream[e] \in Media THEN embedQ ELSE embedQ \cup {got[w]}
    /\ Goto(w, "enqueue")
    /\ UNCHANGED <<groupVars, got, byKey, dbVars, idem, lapsed, fanned, notices>>

EnqueueFanout(w, e) ==
    /\ At(w, e, "enqueue")
    /\ fanned' = fanned \cup {got[w]}
    /\ Goto(w, "after")
    /\ UNCHANGED <<groupVars, got, byKey, dbVars, idem, lapsed, embedQ, notices>>

\* MessageAlreadySentError: fan the found message out again, then tell the
\* sender to reconcile.
EnqueueFanoutAgain(w, e) ==
    /\ At(w, e, "refan")
    /\ fanned' = fanned \cup {got[w]}
    /\ Goto(w, "tell")
    /\ UNCHANGED <<groupVars, got, byKey, dbVars, idem, lapsed, embedQ, notices>>

TellAlreadySent(w, e) ==
    /\ At(w, e, "tell")
    /\ notices' = notices \cup {<<"message_already_sent", stream[e]>>}
    /\ Goto(w, "after")
    /\ UNCHANGED <<groupVars, got, byKey, dbVars, idem, lapsed, embedQ, fanned>>

\* The locals of process_outgoing are gone.
Forget(w) ==
    /\ Goto(w, "check")
    /\ got' = [got EXCEPT ![w] = 0]
    /\ byKey' = [byKey EXCEPT ![w] = FALSE]

\* after_entry committed the session.
EntryDone(w, e) ==
    /\ At(w, e, "after")
    /\ Finish(w, e)
    /\ Forget(w)
    /\ UNCHANGED <<dbVars, outVars>>

\* Any call may raise, after it took effect or before.
EntryRaises(w, e) ==
    /\ IsNext(w, e)
    /\ FailEntry(w, e)
    /\ Forget(w)
    /\ UNCHANGED <<dbVars, outVars>>

Acknowledge(w) == Ack(w) /\ UNCHANGED <<procVars, dbVars, outVars>>

AcknowledgeFails(w) == AckLost(w) /\ UNCHANGED <<procVars, dbVars, outVars>>

Die(w) == Crash(w) /\ Forget(w) /\ UNCHANGED <<dbVars, outVars>>

ProcessEntry(w, e) ==
    \/ Check(w, e) \/ Reject(w, e)
    \/ Reserve(w, e) \/ FoundSent(w, e) \/ TakeOver(w, e)
    \/ MintId(w, e) \/ CommitRow(w, e) \/ RecordId(w, e)
    \/ EnqueueEmbedding(w, e) \/ EnqueueFanout(w, e)
    \/ EnqueueFanoutAgain(w, e) \/ TellAlreadySent(w, e)
    \/ EntryDone(w, e)

Next ==
    \/ \E c \in Payloads : Enqueue(c) \/ ChangeMembership(c) \/ KeyLapses(c)
    \/ \E w \in Workers :
          \/ Drain(w) \/ Acknowledge(w) \/ AcknowledgeFails(w) \/ Die(w)
          \/ \E e \in Entries : ProcessEntry(w, e) \/ EntryRaises(w, e)

Fairness ==
    \A w \in Workers :
        WF_vars(Drain(w) \/ Acknowledge(w) \/ \E e \in Entries : ProcessEntry(w, e))

Spec == Init /\ [][Next]_vars

FairSpec == Spec /\ Fairness

-----------------------------------------------------------------------------
\* What became of a client_message_id: a row of it reached the fan-out stream,
\* or its sender was told that it failed.
Settled(c) ==
    \/ \E r \in RowsOf(c) : r.id \in fanned
    \/ <<"message_failed", c>> \in notices

\* No message is lost once the stream forgets it: an acknowledged entry's
\* message is settled, whichever of the attempts, duplicates, failures and
\* crashes before the XACK got it there.
AckedIsSettled == \A e \in acked : Settled(stream[e])

\* The fan-out worker drops a reference to a row it cannot load, and the
\* already-sent path trusts the key; so a message id leaves process_outgoing
\* only when its row, of that same client_message_id, is committed.
IdsNameCommittedRows ==
    /\ \A i \in fanned \cup embedQ : \E r \in rows : r.id = i
    /\ \A c \in Payloads : idem[c] \in Ids => \E r \in RowsOf(c) : r.id = idem[c]

\* The reservation works: of two rows with one client_message_id, at most one
\* was written by a holder of the key; the others come from a take-over, when
\* a retry waited two seconds for an attempt that was slow or dead, or from a
\* retry after the day of the key.
DuplicateNeedsTakeOver ==
    \A r, s \in rows :
        r.cmid = s.cmid /\ r.byKey /\ s.byKey => r = s \/ r.cmid \in lapsed

\* A blob's reference count never falls short of the messages that use it,
\* although every redelivery of the entry bumps it again.
BlobRefsCoverRows == \A c \in Media : Cardinality(RowsOf(c)) <= blobRefs[c]

\* Every queued message that MAXLEN does not cut off is fanned out or reported
\* failed in the end, although the attempt that holds its key may be dead.
EveryEntrySettles ==
    \A e \in 1..MaxEntries :
        (e \in Entries) ~> (e <= trimmed \/ (e \in Entries /\ Settled(stream[e])))

\* The send worker is an at-least-once consumer whose effect is to settle: no
\* entry is retired before, and a settled one stays settled.
Promise == INSTANCE AtLeastOnce WITH
    added <- Len(stream),
    handled <- {e \in Entries : Settled(stream[e])},
    retired <- acked

ImplementsAtLeastOnce == Promise!Spec

=============================================================================
