---------------------------- MODULE StreamWorker -----------------------------
(***************************************************************************)
(* The batch loop of BaseStreamConsumer with an opaque process_entry: it   *)
(* either takes effect and returns, or raises before or after its effect.  *)
(* Both real workers that inherit the loop (SendWorker, FanoutWorker) are  *)
(* an instance of it.                                                      *)
(***************************************************************************)
EXTENDS ConsumerGroup

VARIABLES
    effects,     \* entries whose side effect happened at least once
    deliveries   \* history: times an entry was handed to a worker

vars == <<groupVars, effects, deliveries>>

TypeOK ==
    /\ GroupTypeOK
    /\ effects \in SUBSET (1..cursor)
    /\ deliveries \in [1..MaxEntries -> Nat]

Init ==
    /\ GroupInit
    /\ effects = {}
    /\ deliveries = [e \in 1..MaxEntries |-> 0]

Produce(p) == XAdd(p) /\ UNCHANGED <<effects, deliveries>>

Deliver(w) ==
    /\ Read(w)
    /\ deliveries' = [e \in 1..MaxEntries |->
                        IF e \in fresh'[w] \cup claimed'[w] THEN deliveries[e] + 1
                                                             ELSE deliveries[e]]
    /\ UNCHANGED effects

ProcessEntry(w, e) ==
    /\ IsNext(w, e)
    /\ Finish(w, e)
    /\ effects' = effects \cup {e}
    /\ UNCHANGED deliveries

\* A transient failure, before or after the side effect.
EntryRaises(w, e) ==
    /\ IsNext(w, e)
    /\ FailEntry(w, e)
    /\ effects' \in {effects, effects \cup {e}}
    /\ UNCHANGED deliveries

Acknowledge(w) == Ack(w) /\ UNCHANGED <<effects, deliveries>>

AcknowledgeFails(w) == AckLost(w) /\ UNCHANGED <<effects, deliveries>>

Die(w) == Crash(w) /\ UNCHANGED <<effects, deliveries>>

Next ==
    \/ \E p \in Payloads : Produce(p)
    \/ \E w \in Workers :
          \/ Deliver(w)
          \/ \E e \in 1..cursor : ProcessEntry(w, e) \/ EntryRaises(w, e)
          \/ Acknowledge(w)
          \/ AcknowledgeFails(w)
          \/ Die(w)

\* run_forever loops until it is cancelled and catches every exception, so a
\* task that has something to do does it.
Fairness ==
    \A w \in Workers :
        WF_vars(Deliver(w) \/ Acknowledge(w) \/ \E e \in 1..cursor : ProcessEntry(w, e))

Spec == Init /\ [][Next]_vars

FairSpec == Spec /\ Fairness

-----------------------------------------------------------------------------
\* An acknowledged entry is never delivered again, so its effect must have
\* happened: base_worker collects an id for the XACK only after process_entry
\* and after_entry returned.
AckedHadEffect == acked \subseteq effects

\* How many workers may be working through one entry: XAUTOCLAIM looks only at
\* the idle time, so a live batch is claimed once it is older than that.
MayShare == IF SlowHandlers THEN Cardinality(Workers) ELSE 1

\* An entry is handed out again only for a reason: to a worker that does not
\* have it yet while another one is slow with it, or after a failure, a lost
\* XACK or a crash.  Slow batches alone never pass an entry back and forth: the
\* first of them to end acknowledges it for all.
RedeliveryIsPaidFor ==
    \A e \in 1..MaxEntries : deliveries[e] <= MayShare + faults + crashes

\* Every entry that MAXLEN does not cut off is acknowledged in the end, with
\* its effect, through any bounded number of failures and crashes.
EveryEntryServed ==
    \A e \in 1..MaxEntries : (e <= Len(stream)) ~> (e \in acked \/ e <= trimmed)

\* The loop implements at-least-once consumption.
Promise == INSTANCE AtLeastOnce WITH
    added <- Len(stream), handled <- effects, retired <- acked

ImplementsAtLeastOnce == Promise!Spec

=============================================================================
