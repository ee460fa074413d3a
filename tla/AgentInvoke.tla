----------------------------- MODULE AgentInvoke ------------------------------
(***************************************************************************)
(* How one agent comes to answer one chat: the trigger engine arms a       *)
(* debounce entry per message, a poll loop turns it into a stream entry,   *)
(* a worker task runs one turn under a per-chat lock, and a flag lets a    *)
(* newer message supersede the turn under way (modules/agents/             *)
(* trigger_engine, invoke_debounce, invoke_poll_loops, invoke_worker,      *)
(* invoke_turn_...).  Each Redis call is a step.  Time is left out: what is *)
(* due may be polled, what is idle may be claimed.                         *)
(***************************************************************************)
EXTENDS Naturals, FiniteSets

CONSTANTS
    Workers,          \* turn slots, over all agent_worker processes
    Pollers,          \* debounce poll loops, one per process
    MaxMessages,      \* bound: messages that match a trigger
    MaxInstructions,  \* bound: schedule and knowledge entries
    MaxEntries,       \* bound: stream entries that exist at once
    MaxTrips,         \* AGENT_TURN_MAX_TOOL_ROUNDTRIPS
    MaxFaults         \* bound: failed calls, crashes, entries found with the agent off,
                      \* turns that outlast the claim idle time

Nobody == "nobody"
Orphan == "orphan"   \* the lock of a task that died

ASSUME AgentAssumption ==
    /\ Nobody \notin Workers /\ Orphan \notin Workers
    /\ MaxMessages \in Nat /\ MaxInstructions \in Nat
    /\ MaxEntries \in Nat /\ MaxTrips \in Nat /\ MaxFaults \in Nat

VARIABLES
    arrived,    \* messages persisted so far, numbered in order
    fired,      \* instructions enqueued so far
    engine,     \* trigger evaluation of each message: its next step
    stash,      \* agent_invoke_debounce_msg: a message or None
    due,        \* the pair is in agent_invoke_debounce_due
    lock,       \* agent_turn_lock: the task that holds it
    flag,       \* agent_turn_superseded
    polling,    \* a poll loop: its next step ...
    popped,     \* ... and the message it took
    entry,      \* a stream entry: free, queued or pending (delivered, unacked)
    about,      \* its message; None for an instruction
    step,       \* a task: its next step, ...
    on,         \* ... its entry, ...
    seen,       \* ... the newest message in the history it last read, ...
    called,     \* ... whether it has called the model, ...
    trips,      \* ... its round trips, ...
    ended,      \* ... and how its turn ended
    settled,    \* messages answered, or whose failure the owner was told
    displaced,  \* messages left to a turn that another message will start
    lost,       \* messages dropped by a gap the code accepts, or left to one that was
    marked,     \* newest message that set the flag under the current lock
    faults

outside == <<arrived, fired>>
debounce == <<stash, due>>
mutex == <<lock, flag, marked>>
pollVars == <<polling, popped>>
stream == <<entry, about>>
taskVars == <<step, on, seen, called, trips, ended>>
fate == <<settled, displaced, lost>>
vars == <<outside, engine, debounce, mutex, pollVars, stream, taskVars, fate, faults>>

Messages == 1..MaxMessages
None == 0
Slots == 1..MaxEntries

TurnSteps == {"gate", "top", "budget", "call", "check", "send", "rearm"}
TaskSteps == TurnSteps \cup
    {"idle", "load", "busyMark", "busyStash", "busyArm", "release", "ack"}

\* The type invariant, in the groups of variables above.
OutsideType ==
    /\ arrived \in 0..MaxMessages /\ fired \in 0..MaxInstructions
    /\ faults \in 0..MaxFaults
    /\ engine \in [Messages -> {"none", "check", "mark", "stashNow", "armNow", "again",
                                "stash", "arm", "done"}]
DebounceType == stash \in 0..MaxMessages /\ due \in BOOLEAN
MutexType ==
    lock \in Workers \cup {Nobody, Orphan} /\ flag \in BOOLEAN /\ marked \in 0..MaxMessages
PollType ==
    /\ polling \in [Pollers -> {"idle", "remove", "get", "delete", "add"}]
    /\ popped \in [Pollers -> 0..MaxMessages]
StreamType ==
    /\ entry \in [Slots -> {"free", "queued", "pending"}]
    /\ about \in [Slots -> 0..MaxMessages]
TaskType ==
    /\ step \in [Workers -> TaskSteps] /\ on \in [Workers -> 0..MaxEntries]
    /\ \A w \in Workers : step[w] = "idle" <=> on[w] = 0
    /\ seen \in [Workers -> 0..MaxMessages] /\ called \in [Workers -> BOOLEAN]
    /\ trips \in [Workers -> 0..MaxTrips]
    /\ ended \in [Workers -> {"no", "done", "superseded", "failed"}]
FateType == settled \subseteq Messages /\ displaced \subseteq Messages /\ lost \subseteq Messages

TypeOK ==
    /\ OutsideType /\ DebounceType /\ MutexType /\ PollType
    /\ StreamType /\ TaskType /\ FateType

Init ==
    /\ arrived = 0 /\ fired = 0
    /\ engine = [m \in Messages |-> "none"]
    /\ stash = None /\ due = FALSE
    /\ lock = Nobody /\ flag = FALSE /\ marked = None
    /\ polling = [p \in Pollers |-> "idle"]
    /\ popped = [p \in Pollers |-> None]
    /\ entry = [s \in Slots |-> "free"]
    /\ about = [s \in Slots |-> None]
    /\ step = [w \in Workers |-> "idle"]
    /\ on = [w \in Workers |-> 0]
    /\ seen = [w \in Workers |-> 0]
    /\ called = [w \in Workers |-> FALSE]
    /\ trips = [w \in Workers |-> 0]
    /\ ended = [w \in Workers |-> "no"]
    /\ settled = {} /\ displaced = {} /\ lost = {}
    /\ faults = 0

Fault == faults < MaxFaults /\ faults' = faults + 1

\* SET of the stash: the message it held is left to another message's turn.
Stash(m) ==
    /\ stash' = m
    /\ displaced' = displaced \cup ({stash} \ {None, m})

\* mark_superseded for message m.
Mark(m) ==
    /\ flag' = TRUE
    /\ marked' = IF m > marked THEN m ELSE marked
    /\ UNCHANGED lock

\* is_superseded: the flag is taken by whoever sees it.
TakeFlag == flag /\ flag' = FALSE /\ UNCHANGED <<lock, marked>>
NoFlag == ~flag /\ UNCHANGED mutex

\* XADD to agent_invoke_stream.
InUse(s) == entry[s] # "free" \/ \E w \in Workers : on[w] = s
FreeSlots == {s \in Slots : ~InUse(s)}
AddEntry(m) ==
    LET s == CHOOSE t \in FreeSlots : TRUE IN
    /\ FreeSlots # {}
    /\ entry' = [entry EXCEPT ![s] = "queued"]
    /\ about' = [about EXCEPT ![s] = m]

-----------------------------------------------------------------------------
(* The outside world. *)

\* A message is committed and its trigger evaluation queued.
Arrive ==
    /\ arrived < MaxMessages
    /\ arrived' = arrived + 1
    /\ engine' = [engine EXCEPT ![arrived + 1] = "check"]
    /\ UNCHANGED <<fired, debounce, mutex, pollVars, stream, taskVars, fate, faults>>

\* A schedule entry is due, or a knowledge upload finished, for this chat.
InstructionFires ==
    /\ fired < MaxInstructions
    /\ fired' = fired + 1
    /\ AddEntry(None)
    /\ UNCHANGED <<arrived, engine, debounce, mutex, pollVars, taskVars, fate, faults>>

-----------------------------------------------------------------------------
(* _arm_debounce_eager, for message m. *)

EngineAt(m, from, to) ==
    /\ engine[m] = from
    /\ engine' = [engine EXCEPT ![m] = to]
    /\ UNCHANGED <<outside, pollVars, stream, taskVars, settled, lost, faults>>

EngineCheck(m) ==
    /\ EngineAt(m, "check", IF lock = Nobody THEN "stash" ELSE "mark")
    /\ UNCHANGED <<debounce, mutex, displaced>>

EngineMark(m) ==
    /\ EngineAt(m, "mark", "stashNow")
    /\ Mark(m)
    /\ UNCHANGED <<debounce, displaced>>

EngineStash(m) ==
    /\ EngineAt(m, "stash", "arm") \/ EngineAt(m, "stashNow", "armNow")
    /\ Stash(m)
    /\ UNCHANGED <<due, mutex>>

EngineArm(m) ==
    /\ \/ EngineAt(m, "arm", "done")
       \/ EngineAt(m, "armNow", "again")
       \/ EngineAt(m, "again", "done")
    /\ due' = TRUE
    /\ UNCHANGED <<stash, mutex, displaced>>

\* A Redis call of arm_debounce raises; it is logged and passed over.  A turn
\* that m has superseded is then without a successor, whichever it was about.
ArmFails(m) ==
    /\ engine[m] \in {"stash", "arm", "stashNow", "armNow"}
    /\ engine' = [engine EXCEPT ![m] = IF @ \in {"stash", "arm"} THEN "done" ELSE "again"]
    /\ lost' = 1..arrived
    /\ Fault
    /\ UNCHANGED <<outside, debounce, mutex, pollVars, stream, taskVars, settled, displaced>>

\* The process that evaluates m dies; its stream entry is delivered again.
EngineDies(m) ==
    /\ engine[m] \notin {"none", "check", "done"}
    /\ engine' = [engine EXCEPT ![m] = "check"]
    /\ Fault
    /\ UNCHANGED <<outside, debounce, mutex, pollVars, stream, taskVars, fate>>

-----------------------------------------------------------------------------
(* One pass of _invoke_debounce_poll_loop. *)

PollAt(p, from, to) ==
    /\ polling[p] = from
    /\ polling' = [polling EXCEPT ![p] = to]
    /\ UNCHANGED <<outside, engine, mutex, taskVars, settled, lost, faults>>

\* due_pairs: ZRANGEBYSCORE, then ZREM.
PollSee(p) ==
    /\ due
    /\ PollAt(p, "idle", "remove")
    /\ UNCHANGED <<debounce, popped, stream, displaced>>

PollRemove(p) ==
    /\ PollAt(p, "remove", "get")
    /\ due' = FALSE
    /\ UNCHANGED <<stash, popped, stream, displaced>>

\* pop_latest_message_id: GET, then DEL.  Without a message the pair is skipped.
PollGet(p) ==
    /\ PollAt(p, "get", IF stash = None THEN "idle" ELSE "delete")
    /\ popped' = [popped EXCEPT ![p] = stash]
    /\ UNCHANGED <<debounce, stream, displaced>>

\* The stash's TTL runs out before the pair is polled: a poll loop is late, or
\* the pair was armed again, which does not renew a key that is there.
StashExpires ==
    /\ stash # None
    /\ stash' = None
    /\ lost' = lost \cup {stash} \cup displaced
    /\ Fault
    /\ UNCHANGED <<outside, engine, due, mutex, pollVars, stream, taskVars, settled, displaced>>

PollDelete(p) ==
    /\ PollAt(p, "delete", "add")
    /\ stash' = None
    /\ displaced' = displaced \cup ({stash} \ {None, popped[p]})
    /\ UNCHANGED <<due, popped, stream>>

PollAdd(p) ==
    /\ PollAt(p, "add", "idle")
    /\ AddEntry(popped[p])
    /\ popped' = [popped EXCEPT ![p] = None]
    /\ UNCHANGED <<debounce, displaced>>

-----------------------------------------------------------------------------
(* One task of AgentInvokeConsumer: an entry, a lock, a turn. *)

Goto(w, s) == step' = [step EXCEPT ![w] = s]
Message(w) == about[on[w]]
IsMessage(w) == on[w] # 0 /\ Message(w) # None

\* What no step of a turn changes.
turnFrame == <<outside, engine, pollVars, stream, faults, on>>

Forget(w) ==
    /\ seen' = [seen EXCEPT ![w] = 0]
    /\ called' = [called EXCEPT ![w] = FALSE]
    /\ trips' = [trips EXCEPT ![w] = 0]

Leave(w) ==
    /\ Goto(w, "idle")
    /\ on' = [on EXCEPT ![w] = 0]
    /\ ended' = [ended EXCEPT ![w] = "no"]
    /\ Forget(w)

\* XREADGROUP delivers a new entry; XAUTOCLAIM one that nobody works on any
\* more or, after AGENT_INVOKE_STREAM_CLAIM_IDLE_MS, one still worked on.
WorkedOn(s) == \E w \in Workers : on[w] = s
Take(w, s) ==
    /\ step[w] = "idle"
    /\ entry[s] # "free"
    /\ IF entry[s] = "pending" /\ WorkedOn(s) THEN Fault ELSE UNCHANGED faults
    /\ entry' = [entry EXCEPT ![s] = "pending"]
    /\ Goto(w, "load")
    /\ on' = [on EXCEPT ![w] = s]
    /\ UNCHANGED <<outside, engine, debounce, mutex, pollVars, about, seen, called, trips, ended, fate>>

\* process_entry up to the lock: the agent is disabled or out of time budget
\* (what was left to the message goes with it, and what may still be left to
\* that), the lock is taken, or the turn is busy (a message goes to the debounce
\* again, an instruction waits).
SkipEntry(w) ==
    /\ step[w] = "load"
    /\ Fault
    /\ lost' = lost \cup ({Message(w)} \ {None}) \cup displaced
    /\ Goto(w, "ack")
    /\ UNCHANGED <<outside, engine, debounce, mutex, pollVars, stream, on, seen, called, trips, ended,
                   settled, displaced>>

StartTurn(w) ==
    /\ step[w] = "load" /\ lock = Nobody
    /\ lock' = w /\ marked' = None
    /\ Goto(w, IF IsMessage(w) THEN "gate" ELSE "top")
    /\ seen' = [seen EXCEPT ![w] = IF IsMessage(w) THEN 0 ELSE arrived]
    /\ UNCHANGED <<turnFrame, debounce, flag, called, trips, ended, fate>>

MessageIsBusy(w) ==
    /\ step[w] = "load" /\ lock # Nobody /\ IsMessage(w)
    /\ Goto(w, "busyMark")
    /\ UNCHANGED <<turnFrame, debounce, mutex, seen, called, trips, ended, fate>>

InstructionIsBusy(w) ==
    /\ step[w] = "load" /\ lock # Nobody /\ ~IsMessage(w)
    /\ Leave(w)
    /\ UNCHANGED <<outside, engine, debounce, mutex, pollVars, stream, fate, faults>>

BusyMark(w) ==
    /\ step[w] = "busyMark"
    /\ Mark(Message(w))
    /\ Goto(w, "busyStash")
    /\ UNCHANGED <<turnFrame, debounce, seen, called, trips, ended, fate>>

\* arm_debounce with keep_newer: SET NX, then ZADD.
BusyStash(w) ==
    /\ step[w] = "busyStash"
    /\ IF stash = None
         THEN stash' = Message(w) /\ UNCHANGED displaced
         ELSE displaced' = displaced \cup ({Message(w)} \ {None, stash}) /\ UNCHANGED stash
    /\ Goto(w, "busyArm")
    /\ UNCHANGED <<turnFrame, due, mutex, seen, called, trips, ended, settled, lost>>

\* Mutant: the message is put back, but not into the sorted set.
BusyArmNothing(w) ==
    /\ step[w] = "busyArm"
    /\ Goto(w, "ack")
    /\ UNCHANGED <<turnFrame, debounce, mutex, seen, called, trips, ended, fate>>

BusyArm(w) ==
    /\ step[w] = "busyArm"
    /\ due' = TRUE
    /\ Goto(w, "ack")
    /\ UNCHANGED <<turnFrame, stash, mutex, seen, called, trips, ended, fate>>

\* A Redis call of arm_debounce raises; it is logged, and the entry is then
\* acknowledged.  As with ArmFails, a superseded turn is without a successor.
BusyArmFails(w) ==
    /\ step[w] \in {"busyStash", "busyArm"}
    /\ lost' = 1..arrived
    /\ Fault
    /\ Goto(w, "ack")
    /\ UNCHANGED <<outside, engine, debounce, mutex, pollVars, stream, on, seen, called, trips, ended,
                   settled, displaced>>

-----------------------------------------------------------------------------
(* _run_turn. *)

Settle(w, n) == settled' = IF IsMessage(w) THEN settled \cup 1..n ELSE settled

\* The turn is over and what it read is dealt with.
Conclude(w) ==
    /\ Settle(w, seen[w])
    /\ ended' = [ended EXCEPT ![w] = "done"]
    /\ Goto(w, "release")
    /\ UNCHANGED <<displaced, lost, trips>>

\* What a turn read is left to the message that set the flag; nobody has it if
\* that one was skipped, its agent being off.
LeaveTo(m, w) == lost' = IF m \in lost THEN lost \cup (1..seen[w] \ settled) ELSE lost

\* The turn gives way to the message that set the flag.
GiveWay(w) ==
    /\ TakeFlag
    /\ LeaveTo(marked, w)
    /\ displaced' = displaced \cup ({Message(w)} \ {None})
    /\ ended' = [ended EXCEPT ![w] = "superseded"]
    /\ Goto(w, "rearm")
    /\ UNCHANGED <<settled, trips>>

\* run_round_trip returns False.
NextTrip(w) ==
    /\ trips[w] < MaxTrips
    /\ trips' = [trips EXCEPT ![w] = @ + 1]
    /\ Goto(w, "top")
    /\ UNCHANGED ended

\* ... in the last round trip: the loop runs out and nobody is told.
LoopRunsOut(w) ==
    /\ trips[w] = MaxTrips
    /\ ended' = [ended EXCEPT ![w] = "done"]
    /\ Goto(w, "release")
    /\ UNCHANGED trips

\* A flag costs a round trip.  Its setter has armed a turn of its own, or will;
\* but a flag left from before the turn may be this turn's own message's.
FlagTrip(w) ==
    \/ NextTrip(w) /\ UNCHANGED <<displaced, lost>>
    \/ /\ LoopRunsOut(w)
       /\ displaced' = displaced \cup ({Message(w)} \ {None})
       /\ IF marked = None THEN lost' = lost \cup (1..seen[w] \ settled) ELSE LeaveTo(marked, w)

\* The judge turns the message away with a redirect, or the clarify gate
\* answers it; the verdict is on the entry's message alone.
GateAnswers(w) ==
    /\ step[w] = "gate"
    /\ Settle(w, Message(w))
    /\ lost' = lost \cup (displaced \ settled')
    /\ ended' = [ended EXCEPT ![w] = "done"]
    /\ Goto(w, "release")
    /\ UNCHANGED <<turnFrame, debounce, mutex, seen, called, trips, displaced>>

GateApproves(w) ==
    /\ step[w] = "gate"
    /\ seen' = [seen EXCEPT ![w] = arrived]
    /\ Goto(w, "top")
    /\ UNCHANGED <<turnFrame, debounce, mutex, called, trips, ended, fate>>

\* handle_pre_call_supersede: merge the newer message while that is free.
Merge(w) ==
    /\ step[w] = "top" /\ IsMessage(w) /\ ~called[w]
    /\ TakeFlag
    /\ seen' = [seen EXCEPT ![w] = arrived]
    /\ FlagTrip(w)
    /\ UNCHANGED <<turnFrame, debounce, called, settled>>

GiveWayBeforeCall(w) ==
    /\ step[w] = "top" /\ (called[w] \/ ~IsMessage(w))
    /\ GiveWay(w)
    /\ UNCHANGED <<turnFrame, debounce, seen, called>>

StartTrip(w) ==
    /\ step[w] = "top"
    /\ NoFlag
    /\ Goto(w, "budget")
    /\ UNCHANGED <<turnFrame, debounce, seen, called, trips, ended, fate>>

\* wait_for_gemini_budget: there is budget, a newer message came while the
\* turn slept (the flag is put back for the top of the loop), or it gave up.
BudgetThere(w) ==
    /\ step[w] = "budget"
    /\ called' = [called EXCEPT ![w] = TRUE]
    /\ Goto(w, "call")
    /\ UNCHANGED <<turnFrame, debounce, mutex, seen, trips, ended, fate>>

\* Mutant: the flag is not put back.
BudgetKeepsFlag(w) ==
    /\ step[w] = "budget"
    /\ TakeFlag
    /\ FlagTrip(w)
    /\ UNCHANGED <<turnFrame, debounce, seen, called, settled>>

BudgetSuperseded(w) ==
    /\ step[w] = "budget" /\ flag
    /\ FlagTrip(w)
    /\ UNCHANGED <<turnFrame, debounce, mutex, seen, called, settled>>

BudgetExhausted(w) ==
    /\ step[w] = "budget"
    /\ Conclude(w)
    /\ UNCHANGED <<turnFrame, debounce, mutex, seen, called>>

\* The model's answer: none in time, one that ends the turn, a tool, a tool that
\* sends, or nothing at all, which is asked for again if a round trip is left.
SupersededInCall(w) ==
    /\ step[w] = "call"
    /\ GiveWay(w)
    /\ UNCHANGED <<turnFrame, debounce, seen, called>>

AnswerEndsTurn(w) ==
    /\ step[w] = "call"
    /\ Conclude(w)
    /\ UNCHANGED <<turnFrame, debounce, mutex, seen, called>>

AnswerRunsTool(w) ==
    /\ step[w] = "call"
    /\ NextTrip(w)
    /\ UNCHANGED <<turnFrame, debounce, mutex, seen, called, fate>>

\* An answer that is dropped, in a chat with somebody else: cut off at MAX_TOKENS,
\* text that no tool sends, or nothing in the last round trip.  Nobody is told.
AnswerIsDropped(w) ==
    /\ step[w] = "call"
    /\ lost' = IF IsMessage(w) THEN lost \cup (1..seen[w] \ settled) ELSE lost
    /\ ended' = [ended EXCEPT ![w] = "done"]
    /\ Goto(w, "release")
    /\ UNCHANGED <<turnFrame, debounce, mutex, seen, called, trips, settled, displaced>>

AnswerSends(w) ==
    /\ step[w] = "call" /\ trips[w] < MaxTrips
    /\ Goto(w, "check")
    /\ UNCHANGED <<turnFrame, debounce, mutex, seen, called, trips, ended, fate>>

\* The last checkpoint before anything leaves the process.
GiveWayBeforeSend(w) ==
    /\ step[w] = "check"
    /\ GiveWay(w)
    /\ UNCHANGED <<turnFrame, debounce, seen, called>>

PassCheck(w) ==
    /\ step[w] = "check"
    /\ NoFlag
    /\ Goto(w, "send")
    /\ UNCHANGED <<turnFrame, debounce, seen, called, trips, ended, fate>>

Send(w) ==
    /\ step[w] = "send"
    /\ Settle(w, seen[w])
    /\ NextTrip(w)
    /\ UNCHANGED <<turnFrame, debounce, mutex, seen, called, displaced, lost>>

\* arm_debounce_now for the message that superseded this turn.
Rearm(w) ==
    /\ step[w] = "rearm"
    /\ due' = TRUE
    /\ Goto(w, "release")
    /\ UNCHANGED <<turnFrame, stash, mutex, seen, called, trips, ended, fate>>

\* AGENT_TURN_TIMEOUT_SECONDS: the turn is cancelled and the owner told.
TimeOut(w) ==
    /\ step[w] \in TurnSteps
    /\ Settle(w, IF seen[w] > Message(w) THEN seen[w] ELSE Message(w))
    /\ lost' = lost \cup (displaced \ settled')
    /\ ended' = [ended EXCEPT ![w] = "done"]
    /\ Goto(w, "release")
    /\ UNCHANGED <<turnFrame, debounce, mutex, seen, called, trips, displaced>>

\* Any other exception: the owner is told and the entry stays unacknowledged.
TurnFails(w) ==
    /\ step[w] \in TurnSteps
    /\ Fault
    /\ ended' = [ended EXCEPT ![w] = "failed"]
    /\ Goto(w, "release")
    /\ UNCHANGED <<outside, engine, debounce, mutex, pollVars, stream, on, seen, called, trips, fate>>

\* Mutant: the lock is deleted without a look at its holder.
ReleaseAnyLock(w) ==
    /\ step[w] = "release"
    /\ lock' = Nobody
    /\ IF ended[w] = "failed"
         THEN Leave(w)
         ELSE Goto(w, "ack") /\ Forget(w) /\ UNCHANGED <<on, ended>>
    /\ UNCHANGED <<outside, engine, debounce, flag, marked, pollVars, stream, fate, faults>>

\* Mutant: the entry of a failed turn is acknowledged.
ReleaseAndAck(w) ==
    /\ step[w] = "release"
    /\ lock' = IF lock = w THEN Nobody ELSE lock
    /\ Goto(w, "ack") /\ Forget(w)
    /\ UNCHANGED <<outside, engine, debounce, flag, marked, pollVars, stream, fate, faults, on, ended>>

\* release_turn_lock: compare and delete.
Release(w) ==
    /\ step[w] = "release"
    /\ lock' = IF lock = w THEN Nobody ELSE lock
    /\ IF ended[w] = "failed"
         THEN Leave(w)
         ELSE Goto(w, "ack") /\ Forget(w) /\ UNCHANGED <<on, ended>>
    /\ UNCHANGED <<outside, engine, debounce, flag, marked, pollVars, stream, fate, faults>>

Ack(w) ==
    /\ step[w] = "ack"
    /\ entry' = [entry EXCEPT ![on[w]] = "free"]
    /\ about' = IF \E v \in Workers \ {w} : on[v] = on[w]
                  THEN about ELSE [about EXCEPT ![on[w]] = None]
    /\ Leave(w)
    /\ UNCHANGED <<outside, engine, debounce, mutex, pollVars, fate, faults>>

-----------------------------------------------------------------------------
(* Time and failure. *)

\* The lock's TTL runs out: its task died, or hangs after its turn.
LockExpires ==
    /\ lock = Orphan \/ \E w \in Workers : lock = w /\ step[w] = "release"
    /\ lock' = Nobody
    /\ UNCHANGED <<outside, engine, debounce, flag, marked, pollVars, stream, taskVars, fate, faults>>

\* The flag's TTL outlives the turn it was meant for.
FlagExpires ==
    /\ flag /\ \A w \in Workers : step[w] \notin TurnSteps
    /\ flag' = FALSE
    /\ UNCHANGED <<outside, engine, debounce, lock, marked, pollVars, stream, taskVars, fate, faults>>

\* A poll loop that has taken the pair out of the sorted set, or a task that is
\* putting it back for an entry another task has acknowledged, or will, holds
\* all there is of it.
HoldsPair(W, P) ==
    \/ \E p \in P : polling[p] \in {"get", "delete", "add"}
    \/ \E w \in W :
         /\ step[w] \in {"busyMark", "busyStash", "busyArm"}
         /\ entry[on[w]] = "free" \/ \E v \in Workers \ W : on[v] = on[w]

\* An agent_worker process dies, with tasks W and poll loops P; or a Redis call
\* of a poll loop raises, and the loop is through with what it took.
Crash(W, P) ==
    /\ W # {} \/ P # {}
    /\ \A w \in W : step[w] # "idle"
    /\ \A p \in P : polling[p] # "idle"
    /\ Fault
    /\ step' = [w \in Workers |-> IF w \in W THEN "idle" ELSE step[w]]
    /\ on' = [w \in Workers |-> IF w \in W THEN 0 ELSE on[w]]
    /\ seen' = [w \in Workers |-> IF w \in W THEN 0 ELSE seen[w]]
    /\ called' = [w \in Workers |-> IF w \in W THEN FALSE ELSE called[w]]
    /\ trips' = [w \in Workers |-> IF w \in W THEN 0 ELSE trips[w]]
    /\ ended' = [w \in Workers |-> IF w \in W THEN "no" ELSE ended[w]]
    /\ lock' = IF lock \in W THEN Orphan ELSE lock
    /\ polling' = [p \in Pollers |-> IF p \in P THEN "idle" ELSE polling[p]]
    /\ popped' = [p \in Pollers |-> IF p \in P THEN None ELSE popped[p]]
    /\ lost' = IF HoldsPair(W, P) THEN 1..arrived ELSE lost
    /\ UNCHANGED <<outside, engine, debounce, flag, marked, stream, settled, displaced>>

EngineStep(m) == EngineCheck(m) \/ EngineMark(m) \/ EngineStash(m) \/ EngineArm(m)

PollStep(p) == PollSee(p) \/ PollRemove(p) \/ PollGet(p) \/ PollDelete(p) \/ PollAdd(p)

TaskStep(w) ==
    \/ \E s \in Slots : Take(w, s)
    \/ SkipEntry(w) \/ StartTurn(w) \/ MessageIsBusy(w) \/ InstructionIsBusy(w)
    \/ BusyMark(w) \/ BusyStash(w) \/ BusyArm(w) \/ BusyArmFails(w)
    \/ GateAnswers(w) \/ GateApproves(w)
    \/ Merge(w) \/ GiveWayBeforeCall(w) \/ StartTrip(w)
    \/ BudgetThere(w) \/ BudgetSuperseded(w) \/ BudgetExhausted(w)
    \/ SupersededInCall(w) \/ AnswerEndsTurn(w) \/ AnswerRunsTool(w) \/ AnswerIsDropped(w)
    \/ AnswerSends(w)
    \/ GiveWayBeforeSend(w) \/ PassCheck(w) \/ Send(w) \/ Rearm(w)
    \/ TimeOut(w) \/ TurnFails(w) \/ Release(w) \/ Ack(w)

Next ==
    \/ Arrive \/ InstructionFires
    \/ \E m \in Messages : EngineStep(m) \/ ArmFails(m) \/ EngineDies(m)
    \/ \E p \in Pollers : PollStep(p)
    \/ \E w \in Workers : TaskStep(w)
    \/ LockExpires \/ FlagExpires \/ StashExpires
    \/ \E W \in SUBSET Workers, P \in SUBSET Pollers : Crash(W, P)

Spec == Init /\ [][Next]_vars

\* The loops of the processes run, stale entries are claimed, locks expire.
Fairness ==
    /\ \A m \in Messages : WF_vars(EngineStep(m))
    /\ \A p \in Pollers : WF_vars(PollStep(p))
    /\ \A w \in Workers : WF_vars(TaskStep(w))
    /\ WF_vars(LockExpires)

FairSpec == Spec /\ Fairness

-----------------------------------------------------------------------------
(* Properties. *)

InTurn(w) == step[w] \in TurnSteps

\* At most one turn runs for the pair at a time, although locks expire under
\* tasks that hang after their turn and every task releases in the end.
OneTurn == \A v, w \in Workers : InTurn(v) /\ InTurn(w) => v = w

\* Something will still start a turn for the pair.
ToBeEvaluated ==
    \E m \in Messages : engine[m] \in {"check", "mark", "stash", "stashNow", "arm", "armNow"}
ToBePolled ==
    stash # None /\ (due \/ \E p \in Pollers : polling[p] \in {"remove", "get"})
ToBeEnqueued == \E p \in Pollers : popped[p] # None
ToBeProcessed == \E s \in Slots : entry[s] # "free" /\ about[s] # None
ToBeRetried == \E w \in Workers : step[w] \in {"load", "busyMark", "busyStash", "busyArm"} /\ IsMessage(w)
Awaited == ToBeEvaluated \/ ToBePolled \/ ToBeEnqueued \/ ToBeProcessed \/ ToBeRetried

\* A message that was neither answered nor reported still has a turn to come:
\* debounce, supersession, merging and busy retries never drop the last token
\* for the pair.  Excused by name: the agent is off, arm_debounce swallowed an
\* error, the stash expired, a process died or a poll loop failed with the pair
\* in hand, the judge or the timeout disposed of another message this one was
\* left to, or the model's answer was dropped.
NothingForgotten ==
    \A m \in Messages : m <= arrived => m \in settled \cup lost \/ Awaited

\* A turn that passes the last checkpoint has read every message that superseded
\* it: a flag taken while waiting for budget, or merged, is not forgotten.
NoStaleReply ==
    [][\A w \in Workers : step[w] = "check" /\ step'[w] = "send" => marked <= seen[w]]_vars

\* A schedule or knowledge instruction that is acknowledged had its turn: it is
\* left unacknowledged while the pair is busy so that it is not lost.
InstructionsAreCarriedOut ==
    [][\A w \in Workers : step[w] = "ack" /\ step'[w] = "idle" /\ ~IsMessage(w)
                             => ended[w] # "superseded"]_vars

\* Every message is answered or its failure reported in the end, unless one
\* of the named gaps took it.
EveryMessageSettled ==
    \A m \in Messages : arrived >= m ~> m \in settled \cup lost

=============================================================================
