-------------------------- MODULE ScheduledMessages --------------------------
(***************************************************************************)
(* Scheduled messages of one user in one chat: the REST calls that create, *)
(* move and cancel them (modules/messaging/scheduled_service.py over       *)
(* crud_scheduled.py) and the poll worker every app process runs           *)
(* (realtime/fanout/scheduled_worker.py).  Postgres holds the rows; the    *)
(* Redis sorted set scheduled_messages:due only says which rows to look    *)
(* at, and is rebuilt from the rows.  Every await is a step of its own.    *)
(***************************************************************************)
EXTENDS Naturals, FiniteSets

CONSTANTS
    Workers,      \* app processes
    Clients,      \* REST calls in flight at a time
    Msgs,         \* scheduled_messages ids
    Media,        \* those that carry a media attachment
    MaxPending,   \* SCHEDULED_MAX_PENDING_PER_USER
    MaxAttempts,  \* SCHEDULED_MAX_FIRE_ATTEMPTS
    MinLead,      \* SCHEDULED_MIN_LEAD_SECONDS, in ticks
    Backoff,      \* SCHEDULED_FIRE_BACKOFF_SECONDS, in ticks
    MaxTime,      \* bound: the clock stops here
    MaxFaults,    \* bound: failed calls and Redis flushes
    MaxCrashes    \* bound: processes and calls that die

Nobody == "nobody"       \* the row lock is free

ASSUME ScheduledAssumption ==
    /\ Media \subseteq Msgs /\ Nobody \notin Workers
    /\ MaxPending \in Nat \ {0} /\ MaxAttempts \in Nat \ {0}
    /\ MinLead \in Nat \ {0} /\ Backoff \in Nat
    /\ MaxTime \in Nat /\ MaxFaults \in Nat /\ MaxCrashes \in Nat

VARIABLES
    \* the world
    now, member, faults, crashes,
    \* Postgres: row status, fire time, fire_attempts, row lock; blob references
    status, at, attempts, lock, pins,
    \* Redis: due-set scores; entries put on the send stream; events published
    due, queued, told,
    \* a REST call: its next step, its row and its fire time
    call, row, when,
    \* a worker: its next step, the rest of its batch, the id it fires, the
    \* status it will commit, the rows its reconcile scan read
    phase, batch, cur, outcome, scan

world == <<now, member, faults, crashes>>
rowVars == <<status, at, attempts, lock, pins>>
redis == <<due, queued, told>>
callVars == <<call, row, when>>
workVars == <<phase, batch, cur, outcome, scan>>
vars == <<world, rowVars, redis, callVars, workVars>>

Times == 0..MaxTime
Never == MaxTime + 1     \* not in the due set
NoRow == "no row"

Terminal == {"sent", "cancelled", "failed"}
CallSteps == {"idle", "pin", "insert", "add", "remove", "unpin"}
Phases == {"boot", "idle", "readd", "claim", "lock", "sender", "xadd", "mark",
           "commit", "bump", "requeue", "giveup", "fail"}

TypeOK ==
    /\ now \in Times /\ member \in BOOLEAN
    /\ faults \in 0..MaxFaults /\ crashes \in 0..MaxCrashes
    /\ status \in [Msgs -> {"none", "pending"} \cup Terminal]
    /\ at \in [Msgs -> Times]
    /\ attempts \in [Msgs -> Nat]
    /\ lock \in [Msgs -> Workers \cup {Nobody}]
    /\ pins \in [Msgs -> Nat]
    /\ due \in [Msgs -> Times \cup {Never}]
    /\ queued \in [Msgs -> Nat]
    /\ told \in SUBSET ({"sent", "failed"} \X Msgs)
    /\ call \in [Clients -> CallSteps]
    /\ row \in [Clients -> Msgs \cup {NoRow}]
    /\ when \in [Clients -> Times]
    /\ phase \in [Workers -> Phases]
    /\ batch \in [Workers -> SUBSET Msgs]
    /\ cur \in [Workers -> Msgs \cup {NoRow}]
    /\ outcome \in [Workers -> {"none", "sent", "failed"}]
    /\ scan \in [Workers -> SUBSET (Msgs \X Times)]

Init ==
    /\ now = 0 /\ member = TRUE /\ faults = 0 /\ crashes = 0
    /\ status = [m \in Msgs |-> "none"]
    /\ at = [m \in Msgs |-> 0]
    /\ attempts = [m \in Msgs |-> 0]
    /\ lock = [m \in Msgs |-> Nobody]
    /\ pins = [m \in Msgs |-> 0]
    /\ due = [m \in Msgs |-> Never]
    /\ queued = [m \in Msgs |-> 0]
    /\ told = {}
    /\ call = [c \in Clients |-> "idle"]
    /\ row = [c \in Clients |-> NoRow]
    /\ when = [c \in Clients |-> 0]
    /\ phase = [w \in Workers |-> "boot"]
    /\ batch = [w \in Workers |-> {}]
    /\ cur = [w \in Workers |-> NoRow]
    /\ outcome = [w \in Workers |-> "none"]
    /\ scan = [w \in Workers |-> {}]

PendingRows == {m \in Msgs : status[m] = "pending"}

\* An UPDATE of m waits while a worker's transaction holds the row.
Free(m) == lock[m] = Nobody

-----------------------------------------------------------------------------
(* The world. *)

Tick == now < MaxTime /\ now' = now + 1
        /\ UNCHANGED <<member, faults, crashes, rowVars, redis, callVars, workVars>>

\* The sender leaves the chat, or is removed from it.
LeaveChat ==
    /\ member
    /\ member' = FALSE
    /\ UNCHANGED <<now, faults, crashes, rowVars, redis, callVars, workVars>>

Fault == faults < MaxFaults /\ faults' = faults + 1 /\ UNCHANGED <<now, member, crashes>>

FlushRedis ==
    /\ Fault
    /\ due' = [m \in Msgs |-> Never]
    /\ UNCHANGED <<rowVars, queued, told, callVars, workVars>>

-----------------------------------------------------------------------------
(* The REST calls. *)

Become(c, s) == call' = [call EXCEPT ![c] = s]

Return(c) ==
    /\ Become(c, "idle")
    /\ row' = [row EXCEPT ![c] = NoRow]
    /\ when' = [when EXCEPT ![c] = 0]

Acceptable(t) == now + MinLead <= t

\* schedule_message, up to the count of pending rows.
StartSchedule(c, m, t) ==
    /\ call[c] = "idle"
    /\ Acceptable(t) /\ member
    /\ Cardinality(PendingRows) < MaxPending
    /\ status[m] = "none" /\ \A d \in Clients : call[d] # "idle" => row[d] # m
    /\ Become(c, IF m \in Media THEN "pin" ELSE "insert")
    /\ row' = [row EXCEPT ![c] = m]
    /\ when' = [when EXCEPT ![c] = t]
    /\ UNCHANGED <<world, rowVars, redis, workVars>>

\* _ref_media_for_schedule: one reference on the blob, committed.
Pin(c) ==
    /\ call[c] = "pin"
    /\ pins' = [pins EXCEPT ![row[c]] = @ + 1]
    /\ Become(c, "insert")
    /\ UNCHANGED <<world, status, at, attempts, lock, redis, row, when, workVars>>

Insert(c) ==
    /\ call[c] = "insert"
    /\ status' = [status EXCEPT ![row[c]] = "pending"]
    /\ at' = [at EXCEPT ![row[c]] = when[c]]
    /\ Become(c, "add")
    /\ UNCHANGED <<world, attempts, lock, pins, redis, row, when, workVars>>

\* reschedule: UPDATE ... WHERE status = PENDING, committed.
Reschedule(c, m, t) ==
    /\ call[c] = "idle"
    /\ Acceptable(t)
    /\ Free(m) /\ status[m] = "pending"
    /\ at' = [at EXCEPT ![m] = t]
    /\ Become(c, "add")
    /\ row' = [row EXCEPT ![c] = m]
    /\ when' = [when EXCEPT ![c] = t]
    /\ UNCHANGED <<world, status, attempts, lock, pins, redis, workVars>>

\* _due_set_add; a failure is swallowed.
AddDue(c) ==
    /\ call[c] = "add"
    /\ \/ due' = [due EXCEPT ![row[c]] = when[c]] /\ UNCHANGED world
       \/ Fault /\ UNCHANGED due
    /\ Return(c)
    /\ UNCHANGED <<rowVars, queued, told, workVars>>

\* cancel_scheduled: UPDATE ... WHERE status = PENDING, committed.
Cancel(c, m) ==
    /\ call[c] = "idle"
    /\ Free(m) /\ status[m] = "pending"
    /\ status' = [status EXCEPT ![m] = "cancelled"]
    /\ Become(c, "remove")
    /\ row' = [row EXCEPT ![c] = m]
    /\ UNCHANGED <<world, at, attempts, lock, pins, redis, when, workVars>>

\* _due_set_remove; a failure is swallowed.
RemoveDue(c) ==
    /\ call[c] = "remove"
    /\ \/ due' = [due EXCEPT ![row[c]] = Never] /\ UNCHANGED world
       \/ Fault /\ UNCHANGED due
    /\ IF row[c] \in Media THEN Become(c, "unpin") /\ UNCHANGED <<row, when>> ELSE Return(c)
    /\ UNCHANGED <<rowVars, queued, told, workVars>>

\* _deref_media; a failure is swallowed.
Unpin(c) ==
    /\ call[c] = "unpin"
    /\ \/ pins' = [pins EXCEPT ![row[c]] = @ - 1] /\ UNCHANGED world
       \/ Fault /\ UNCHANGED pins
    /\ Return(c)
    /\ UNCHANGED <<status, at, attempts, lock, redis, workVars>>

\* The call's process dies, or a call that is not guarded raises.
CallDies(c) ==
    /\ call[c] # "idle"
    /\ crashes < MaxCrashes
    /\ crashes' = crashes + 1
    /\ Return(c)
    /\ UNCHANGED <<now, member, faults, rowVars, redis, workVars>>

-----------------------------------------------------------------------------
(* The poll worker. *)

\* drain_once goes on with the next id of its batch.
Go(w, p) == phase' = [phase EXCEPT ![w] = p]
GoOn(w) ==
    /\ Go(w, IF batch[w] = {} THEN "idle" ELSE "claim")
    /\ cur' = [cur EXCEPT ![w] = NoRow]

\* Mutant of ReadPending: the scan runs at startup only.
ReadPendingOnBoot(w) ==
    /\ phase[w] = "boot"
    /\ scan' = [scan EXCEPT ![w] = {<<m, at[m]>> : m \in PendingRows}]
    /\ Go(w, "readd")
    /\ UNCHANGED <<world, rowVars, redis, callVars, batch, cur, outcome>>

\* reconcile_once reads every pending row ...
ReadPending(w) ==
    /\ phase[w] \in {"boot", "idle"}
    /\ scan' = [scan EXCEPT ![w] = {<<m, at[m]>> : m \in PendingRows}]
    /\ Go(w, "readd")
    /\ UNCHANGED <<world, rowVars, redis, callVars, batch, cur, outcome>>

\* ... and adds them all to the due set; a failure is swallowed.
ReAdd(w) ==
    /\ phase[w] = "readd"
    /\ \/ /\ due' = [m \in Msgs |->
                        IF \E t \in Times : <<m, t>> \in scan[w]
                        THEN CHOOSE t \in Times : <<m, t>> \in scan[w] ELSE due[m]]
          /\ UNCHANGED world
       \/ Fault /\ UNCHANGED due
    /\ scan' = [scan EXCEPT ![w] = {}]
    /\ Go(w, "idle")
    /\ UNCHANGED <<rowVars, queued, told, callVars, batch, cur, outcome>>

\* ZRANGEBYSCORE due -inf now.
Poll(w) ==
    /\ phase[w] = "idle"
    /\ LET ready == {m \in Msgs : due[m] <= now}
       IN ready # {} /\ batch' = [batch EXCEPT ![w] = ready]
    /\ Go(w, "claim")
    /\ UNCHANGED <<world, rowVars, redis, callVars, cur, outcome, scan>>

\* ZREM.  Its result is not looked at: the id is fired even when another
\* worker took it first.
Claim(w, m) ==
    /\ phase[w] = "claim"
    /\ m \in batch[w]
    /\ due' = [due EXCEPT ![m] = Never]
    /\ batch' = [batch EXCEPT ![w] = @ \ {m}]
    /\ cur' = [cur EXCEPT ![w] = m]
    /\ Go(w, "lock")
    /\ UNCHANGED <<world, rowVars, queued, told, callVars, outcome, scan>>

\* Mutants of LockRow: no FOR UPDATE; a row is fired whatever its status.
ReadRow(w) ==
    /\ phase[w] = "lock"
    /\ IF status[cur[w]] = "pending" THEN Go(w, "sender") /\ UNCHANGED cur ELSE GoOn(w)
    /\ UNCHANGED <<world, rowVars, redis, callVars, batch, outcome, scan>>

LockAnyRow(w) ==
    /\ phase[w] = "lock"
    /\ IF Free(cur[w])
       THEN lock' = [lock EXCEPT ![cur[w]] = w] /\ Go(w, "sender") /\ UNCHANGED cur
       ELSE UNCHANGED lock /\ GoOn(w)
    /\ UNCHANGED <<world, status, at, attempts, pins, redis, callVars, batch, outcome, scan>>

\* SELECT ... FOR UPDATE SKIP LOCKED; only a pending row is fired.
LockRow(w) ==
    /\ phase[w] = "lock"
    /\ IF Free(cur[w]) /\ status[cur[w]] = "pending"
       THEN lock' = [lock EXCEPT ![cur[w]] = w] /\ Go(w, "sender") /\ UNCHANGED cur
       ELSE UNCHANGED lock /\ GoOn(w)
    /\ UNCHANGED <<world, status, at, attempts, pins, redis, callVars, batch, outcome, scan>>

\* Mutant of CheckSender: the event goes out before the XADD.
CheckAndMark(w) ==
    /\ phase[w] = "sender"
    /\ told' = told \cup {<<IF member THEN "sent" ELSE "failed", cur[w]>>}
    /\ IF member
       THEN Go(w, "xadd") /\ UNCHANGED outcome
       ELSE outcome' = [outcome EXCEPT ![w] = "failed"] /\ Go(w, "commit")
    /\ UNCHANGED <<world, rowVars, due, queued, callVars, batch, cur, scan>>

\* A sender who left makes the row failed; the event goes out before the commit.
CheckSender(w) ==
    /\ phase[w] = "sender"
    /\ IF member
       THEN Go(w, "xadd") /\ UNCHANGED <<outcome, told>>
       ELSE /\ outcome' = [outcome EXCEPT ![w] = "failed"]
            /\ told' = told \cup {<<"failed", cur[w]>>}
            /\ Go(w, "commit")
    /\ UNCHANGED <<world, rowVars, due, queued, callVars, batch, cur, scan>>

\* XADD onto the send stream.
XAddSend(w) ==
    /\ phase[w] = "xadd"
    /\ queued' = [queued EXCEPT ![cur[w]] = @ + 1]
    /\ Go(w, "mark")
    /\ UNCHANGED <<world, rowVars, due, told, callVars, batch, cur, outcome, scan>>

\* set_status SENT, not yet committed, and the event.
MarkSent(w) ==
    /\ phase[w] = "mark"
    /\ outcome' = [outcome EXCEPT ![w] = "sent"]
    /\ told' = told \cup {<<"sent", cur[w]>>}
    /\ Go(w, "commit")
    /\ UNCHANGED <<world, rowVars, due, queued, callVars, batch, cur, scan>>

\* Rows worker w holds are released.
Unlock(w) == lock' = [m \in Msgs |-> IF lock[m] = w THEN Nobody ELSE lock[m]]

Commit(w) ==
    /\ phase[w] = "commit"
    /\ status' = [status EXCEPT ![cur[w]] = outcome[w]]
    /\ Unlock(w)
    /\ outcome' = [outcome EXCEPT ![w] = "none"]
    /\ GoOn(w)
    /\ UNCHANGED <<world, at, attempts, pins, redis, callVars, batch, scan>>

\* Any call between the SELECT and the commit raises: the transaction is
\* rolled back (or, if only the answer of the COMMIT was lost, it was not).
FireRaises(w) ==
    /\ phase[w] \in {"lock", "sender", "xadd", "mark", "commit"}
    /\ Fault
    /\ \/ UNCHANGED status
       \/ phase[w] = "commit" /\ status' = [status EXCEPT ![cur[w]] = outcome[w]]
    /\ Unlock(w)
    /\ outcome' = [outcome EXCEPT ![w] = "none"]
    /\ Go(w, "bump")
    /\ UNCHANGED <<at, attempts, pins, redis, callVars, batch, cur, scan>>

\* _handle_transient_failure: count the attempt, then retry later or give up.
BumpAttempts(w) ==
    /\ phase[w] = "bump"
    /\ Free(cur[w])
    /\ attempts' = [attempts EXCEPT ![cur[w]] = @ + 1]
    /\ Go(w, IF attempts[cur[w]] + 1 >= MaxAttempts THEN "giveup" ELSE "requeue")
    /\ UNCHANGED <<world, status, at, lock, pins, redis, callVars, batch, cur, outcome, scan>>

\* Re-ZADD with a backoff (no later than the last tick of the bounded clock);
\* a failure is swallowed.
Requeue(w) ==
    /\ phase[w] = "requeue"
    /\ \/ /\ due' = [due EXCEPT ![cur[w]] =
                        IF now + Backoff < MaxTime THEN now + Backoff ELSE MaxTime]
          /\ UNCHANGED world
       \/ Fault /\ UNCHANGED due
    /\ GoOn(w)
    /\ UNCHANGED <<rowVars, queued, told, callVars, batch, outcome, scan>>

\* The row is read, without a lock, ...
GiveUpRead(w) ==
    /\ phase[w] = "giveup"
    /\ IF status[cur[w]] = "pending" THEN Go(w, "fail") /\ UNCHANGED cur ELSE GoOn(w)
    /\ UNCHANGED <<world, rowVars, redis, callVars, batch, outcome, scan>>

\* ... and set to FAILED by id alone.
GiveUpWrite(w) ==
    /\ phase[w] = "fail"
    /\ Free(cur[w])
    /\ status' = [status EXCEPT ![cur[w]] = "failed"]
    /\ told' = told \cup {<<"failed", cur[w]>>}
    /\ GoOn(w)
    /\ UNCHANGED <<world, at, attempts, lock, pins, due, queued, callVars, batch, outcome, scan>>

\* The ZREM or the failure handling raises: drain_once ends, the rest of the
\* batch stays in the due set and the claimed id waits for reconcile.
DrainAborts(w) ==
    /\ phase[w] \in {"claim", "bump", "giveup", "fail"}
    /\ Fault
    /\ batch' = [batch EXCEPT ![w] = {}]
    /\ cur' = [cur EXCEPT ![w] = NoRow]
    /\ Go(w, "idle")
    /\ UNCHANGED <<rowVars, redis, callVars, outcome, scan>>

Dies(w) ==
    /\ phase[w] # "boot"
    /\ crashes < MaxCrashes
    /\ crashes' = crashes + 1
    /\ Unlock(w)
    /\ Go(w, "boot")
    /\ batch' = [batch EXCEPT ![w] = {}]
    /\ cur' = [cur EXCEPT ![w] = NoRow]
    /\ outcome' = [outcome EXCEPT ![w] = "none"]
    /\ scan' = [scan EXCEPT ![w] = {}]
    /\ UNCHANGED <<now, member, faults, status, at, attempts, pins, redis, callVars>>

-----------------------------------------------------------------------------
CallStep(c) == Pin(c) \/ Insert(c) \/ AddDue(c) \/ RemoveDue(c) \/ Unpin(c)

WorkerStep(w) ==
    \/ ReAdd(w) \/ (\E m \in Msgs : Claim(w, m)) \/ LockRow(w) \/ CheckSender(w)
    \/ XAddSend(w) \/ MarkSent(w) \/ Commit(w)
    \/ BumpAttempts(w) \/ Requeue(w) \/ GiveUpRead(w) \/ GiveUpWrite(w)

Next ==
    \/ Tick \/ LeaveChat \/ FlushRedis
    \/ \E c \in Clients :
          \/ \E m \in Msgs, t \in Times : StartSchedule(c, m, t) \/ Reschedule(c, m, t)
          \/ \E m \in Msgs : Cancel(c, m)
          \/ CallStep(c) \/ CallDies(c)
    \/ \E w \in Workers :
          \/ ReadPending(w) \/ Poll(w) \/ WorkerStep(w)
          \/ FireRaises(w) \/ DrainAborts(w) \/ Dies(w)

Spec == Init /\ [][Next]_vars

\* Time passes, a call or worker that can move does, and run_forever comes
\* back to the poll and to the reconcile scan again and again, whatever it
\* does in between (hence strong fairness for those two).
Fairness ==
    /\ WF_vars(Tick)
    /\ \A c \in Clients : WF_vars(CallStep(c))
    /\ \A w \in Workers : WF_vars(WorkerStep(w)) /\ SF_vars(Poll(w)) /\ SF_vars(ReadPending(w))

FairSpec == Spec /\ Fairness

-----------------------------------------------------------------------------
\* A message is never put on the send stream after its row was committed as
\* sent, cancelled or failed, although workers act on stale due-set entries:
\* the row lock makes the status check and the XADD one step for everybody else.
TerminalStopsFiring ==
    [][\A m \in Msgs : status[m] \in Terminal => queued'[m] = queued[m]]_vars

\* Two workers that race for an id fire it once; each further XADD takes a
\* failed call or a crash after the first one.
RefireNeedsFault == \A m \in Msgs : queued[m] <= 1 + faults + crashes

\* A cancelled message was not sent, unless a fire attempt failed after its XADD.
CancelledWasNotQueued ==
    \A m \in Msgs : status[m] = "cancelled" /\ queued[m] > 0 => faults + crashes > 0

\* What the row and the events call sent is on the send stream.
SentIsQueued ==
    \A m \in Msgs : status[m] = "sent" \/ <<"sent", m>> \in told => queued[m] > 0

\* The status of a row is true of the send stream.
StatusHolds == TypeOK /\ CancelledWasNotQueued /\ SentIsQueued

\* No pending row is forgotten: not by a lost ZADD, a flushed Redis, a claimed
\* id whose worker died, or a batch that was cut short.
PendingIsSettled == \A m \in Msgs : status[m] = "pending" ~> status[m] \in Terminal

=============================================================================
