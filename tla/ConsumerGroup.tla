---------------------------- MODULE ConsumerGroup ----------------------------
(***************************************************************************)
(* One shard of a Redis stream read through a consumer group, and the      *)
(* batch loop every worker process runs over it                            *)
(* (realtime/fanout/base_worker.py, BaseStreamConsumer).  An entry is      *)
(* named by its position in the stream.  The module has no Next: the       *)
(* workers that extend it (StreamWorker, SendPipeline) put their own       *)
(* process_entry between Read and Ack.                                     *)
(***************************************************************************)
EXTENDS Naturals, FiniteSets, Sequences

CONSTANTS
    Workers,      \* consumer tasks, one per process for this shard
    Payloads,     \* what an entry carries
    Batch,        \* COUNT of XREADGROUP and XAUTOCLAIM
    MaxLen,       \* MAXLEN of the producers' XADD
    MaxEntries,   \* bound: entries ever added
    MaxFaults,    \* bound: transient failures
    MaxCrashes,   \* bound: crashes and cancellations
    SlowHandlers  \* TRUE: a batch may outlive the claim idle time

ASSUME GroupAssumption ==
    /\ IsFiniteSet(Workers)
    /\ Batch \in Nat \ {0}
    /\ MaxLen \in Nat \ {0}
    /\ MaxEntries \in Nat
    /\ MaxFaults \in Nat
    /\ MaxCrashes \in Nat
    /\ SlowHandlers \in BOOLEAN

VARIABLES
    stream,    \* every entry ever XADDed, oldest first
    trimmed,   \* entries 1..trimmed were cut off by MAXLEN
    cursor,    \* the group's last-delivered id
    acked,     \* entries removed from the pending list by XACK
    fresh,     \* worker -> entries of its batch that came from ">"
    claimed,   \* worker -> entries of its batch that came from XAUTOCLAIM
    ackIds,    \* worker -> processed entries it has yet to acknowledge
    faults,    \* transient failures so far
    crashes    \* crashes so far

groupVars == <<stream, trimmed, cursor, acked, fresh, claimed, ackIds, faults, crashes>>

Entries == 1..Len(stream)

\* The entries a worker's current batch still holds.
HeldBy(w) == fresh[w] \cup claimed[w] \cup ackIds[w]

Held(e) == \E w \in Workers : e \in HeldBy(w)

\* The group's pending entries list: delivered and not acknowledged (together
\* with entries that were cut before anyone read them, which nobody sees).
Pending == (1..cursor) \ acked

\* Mutant of Claimable: no reclaim at all.
NeverClaimable == {}

\* What XAUTOCLAIM may hand out.  A pending entry nobody is working on will
\* pass the idle time.  One in a live batch passes it too if handlers are slow:
\* the code does not look at who holds it, so that a batch ends in time is an
\* assumption of the instances with SlowHandlers = FALSE.
\* An entry MAXLEN has cut comes back without fields and is skipped.
Claimable == {e \in Pending : e > trimmed /\ (SlowHandlers \/ ~Held(e))}

\* Mutant of Seen: the group is read from the beginning every time.
SeenFromStart == trimmed

\* Where ">" starts: after the last delivered entry and what has been trimmed.
Seen == IF cursor < trimmed THEN trimmed ELSE cursor

\* The last entry one XREADGROUP returns.
LastRead == IF Seen + Batch < Len(stream) THEN Seen + Batch ELSE Len(stream)

BatchDone(w) == fresh[w] = {} /\ claimed[w] = {}

Idle(w) == BatchDone(w) /\ ackIds[w] = {}

\* e is the entry the loop of w is at: fresh entries first, each part by id.
IsNext(w, e) ==
    \/ e \in fresh[w] /\ \A f \in fresh[w] : e <= f
    \/ fresh[w] = {} /\ e \in claimed[w] /\ \A f \in claimed[w] : e <= f

GroupTypeOK ==
    /\ stream \in Seq(Payloads)
    /\ trimmed \in 0..Len(stream)
    /\ cursor \in 0..Len(stream)
    /\ acked \in SUBSET (1..cursor)
    /\ fresh \in [Workers -> SUBSET (1..cursor)]
    /\ claimed \in [Workers -> SUBSET (1..cursor)]
    /\ ackIds \in [Workers -> SUBSET (1..cursor)]
    /\ faults \in 0..MaxFaults
    /\ crashes \in 0..MaxCrashes

GroupInit ==
    /\ stream = <<>>
    /\ trimmed = 0
    /\ cursor = 0
    /\ acked = {}
    /\ fresh = [w \in Workers |-> {}]
    /\ claimed = [w \in Workers |-> {}]
    /\ ackIds = [w \in Workers |-> {}]
    /\ faults = 0
    /\ crashes = 0

\* XADD ... MAXLEN ~ n: approximate trimming may keep more than n entries.
XAdd(entry) ==
    /\ Len(stream) < MaxEntries
    /\ stream' = Append(stream, entry)
    /\ trimmed' \in {t \in trimmed..Len(stream) : t = trimmed \/ t + MaxLen <= Len(stream) + 1}
    /\ UNCHANGED <<cursor, acked, fresh, claimed, ackIds, faults, crashes>>

\* One drain: XREADGROUP ">" takes the next entries still in the stream, and
\* a short read is topped up with stale entries by XAUTOCLAIM.  (Two calls; a
\* crash between them is a Crash that follows a Read which claimed nothing.)
Read(w) ==
    /\ Idle(w)
    /\ LET new == (Seen + 1)..LastRead
       IN \E stale \in SUBSET Claimable :
             /\ new \cup stale # {}
             /\ Cardinality(new) + Cardinality(stale) <= Batch
             /\ cursor' = LastRead
             /\ fresh' = [fresh EXCEPT ![w] = new]
             /\ claimed' = [claimed EXCEPT ![w] = stale]
    /\ UNCHANGED <<stream, trimmed, acked, ackIds, faults, crashes>>

\* process_entry and after_entry returned: the entry joins ack_ids.
Finish(w, e) ==
    /\ fresh' = [fresh EXCEPT ![w] = @ \ {e}]
    /\ claimed' = [claimed EXCEPT ![w] = @ \ {e}]
    /\ ackIds' = [ackIds EXCEPT ![w] = @ \cup {e}]
    /\ UNCHANGED <<stream, trimmed, cursor, acked, faults, crashes>>

\* Mutant of FailEntry: the entry joins ack_ids although it failed.
FailEntryAcked(w, e) ==
    /\ faults < MaxFaults
    /\ faults' = faults + 1
    /\ UNCHANGED crashes
    /\ fresh' = [fresh EXCEPT ![w] = @ \ {e}]
    /\ claimed' = [claimed EXCEPT ![w] = @ \ {e}]
    /\ ackIds' = [ackIds EXCEPT ![w] = @ \cup {e}]
    /\ UNCHANGED <<stream, trimmed, cursor, acked>>

\* process_entry raised: the entry stays pending and the loop moves on.
FailEntry(w, e) ==
    /\ faults < MaxFaults
    /\ faults' = faults + 1
    /\ fresh' = [fresh EXCEPT ![w] = @ \ {e}]
    /\ claimed' = [claimed EXCEPT ![w] = @ \ {e}]
    /\ UNCHANGED <<stream, trimmed, cursor, acked, ackIds, crashes>>

\* One XACK for the whole batch.  It names ids, not owners: an entry another
\* worker has claimed meanwhile is acknowledged too.
Ack(w) ==
    /\ BatchDone(w)
    /\ ackIds[w] # {}
    /\ acked' = acked \cup ackIds[w]
    /\ ackIds' = [ackIds EXCEPT ![w] = {}]
    /\ UNCHANGED <<stream, trimmed, cursor, fresh, claimed, faults, crashes>>

\* XACK failed three times: the processed entries stay pending.
AckLost(w) ==
    /\ BatchDone(w)
    /\ ackIds[w] # {}
    /\ faults < MaxFaults
    /\ faults' = faults + 1
    /\ ackIds' = [ackIds EXCEPT ![w] = {}]
    /\ UNCHANGED <<stream, trimmed, cursor, acked, fresh, claimed, crashes>>

\* The process dies, its task is cancelled mid-batch, or the rollback after a
\* failed entry raises: the iteration ends before the XACK, so even the
\* processed entries stay pending.
Crash(w) ==
    /\ ~Idle(w)
    /\ crashes < MaxCrashes
    /\ crashes' = crashes + 1
    /\ fresh' = [fresh EXCEPT ![w] = {}]
    /\ claimed' = [claimed EXCEPT ![w] = {}]
    /\ ackIds' = [ackIds EXCEPT ![w] = {}]
    /\ UNCHANGED <<stream, trimmed, cursor, acked, faults>>

=============================================================================
