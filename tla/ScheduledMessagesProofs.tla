----------------------- MODULE ScheduledMessagesProofs -----------------------
(***************************************************************************)
(* What ScheduledMessages promises for any number of messages, clients and *)
(* workers, and any number of crashes, faults and flushes of Redis.  The   *)
(* statuses and the pins need more than themselves: who may be firing a    *)
(* row, what a request in flight knows of the row it works on, and how     *)
(* often a row can have been fired before its status says so.              *)
(***************************************************************************)
EXTENDS ScheduledMessages, TLAPS

\* A worker holds the row it fires in these steps; it has an id in all of those.
Holding == {"sender", "xadd", "mark", "commit"}
Named == Holding \cup {"lock", "bump", "requeue", "giveup", "fail"}

\* A row is locked by the worker that fires it, which is between its lock and
\* its commit, and the row is pending until then.
LocksHold ==
    /\ \A w \in Workers :
          /\ phase[w] \in Named => cur[w] \in Msgs
          /\ phase[w] \in Holding => lock[cur[w]] = w /\ status[cur[w]] = "pending"
          /\ phase[w] = "fail" => status[cur[w]] # "none"
          /\ outcome[w] # "none" <=> phase[w] = "commit"
    /\ \A m \in Msgs : lock[m] # Nobody => phase[lock[m]] \in Holding /\ cur[lock[m]] = m

\* A row is marked sent only after it was handed to the stream.
OutcomesHold ==
    /\ \A w \in Workers :
          phase[w] = "mark" \/ outcome[w] = "sent" => queued[cur[w]] > 0
    /\ SentIsQueued

\* Two requests never work on one row that is not there yet, nor do two that
\* give back the pin of one that is settled.
CallsHold ==
    \A c \in Clients :
        /\ call[c] # "idle" => row[c] \in Msgs
        /\ call[c] = "unpin" => row[c] \in Media
        /\ call[c] \in {"pin", "insert"} =>
              /\ status[row[c]] = "none"
              /\ \A d \in Clients : d # c /\ call[d] # "idle" => row[d] # row[c]
        /\ call[c] \in {"remove", "unpin"} =>
              /\ status[row[c]] \in Terminal
              /\ \A d \in Clients :
                    d # c /\ call[d] \in {"remove", "unpin"} => row[d] # row[c]

\* The blob of a pending row, and that of a request about to insert or to give
\* one back, is referenced.
PinsHold ==
    /\ \A m \in Media : status[m] = "pending" => pins[m] > 0
    /\ \A c \in Clients :
          call[c] \in {"insert", "remove", "unpin"} /\ row[c] \in Media => pins[row[c]] > 0

\* Beyond its first time a row is handed to the stream once per fault: while it
\* is pending and nobody is past the hand-over, each time so far was one.
FiresHold ==
    /\ RefireNeedsFault
    /\ \A m \in Msgs :
          /\ status[m] \in {"none", "pending"}
          /\ lock[m] = Nobody \/ phase[lock[m]] \in {"sender", "xadd"}
          => queued[m] <= faults + crashes
    /\ CancelledWasNotQueued

Inv == TypeOK /\ LocksHold /\ OutcomesHold /\ CallsHold /\ PinsHold /\ FiresHold

-----------------------------------------------------------------------------
(***************************************************************************)
(* Each step keeps each part of the invariant.                             *)
(***************************************************************************)
LEMMA FlushRedisKeeps ==
  ASSUME Inv, FlushRedis
  PROVE  Inv'
<1> USE ScheduledAssumption DEF Inv, FlushRedis, Fault, world, rowVars, redis, callVars, workVars
<1>1. TypeOK'
  BY DEF TypeOK
<1>2. LocksHold'
  BY DEF LocksHold
<1>3. OutcomesHold'
  BY DEF OutcomesHold, SentIsQueued
<1>4. CallsHold'
  BY DEF CallsHold
<1>5. PinsHold'
  BY DEF PinsHold
<1>6. FiresHold'
  BY DEF TypeOK, FiresHold, RefireNeedsFault, CancelledWasNotQueued
<1>7. QED
  BY <1>1, <1>2, <1>3, <1>4, <1>5, <1>6

LEMMA LeaveChatKeeps ==
  ASSUME Inv, LeaveChat
  PROVE  Inv'
<1> USE ScheduledAssumption DEF Inv, LeaveChat, world, rowVars, redis, callVars, workVars
<1>1. TypeOK'
  BY DEF TypeOK, Times, Never, CallSteps, Phases, Terminal, CallsHold, LocksHold, Holding, Named,
     PinsHold
<1>2. LocksHold'
  BY DEF LocksHold
<1>3. OutcomesHold'
  BY DEF OutcomesHold, SentIsQueued
<1>4. CallsHold'
  BY DEF CallsHold
<1>5. PinsHold'
  BY DEF PinsHold
<1>6. FiresHold'
  BY DEF FiresHold, RefireNeedsFault, CancelledWasNotQueued
<1>7. QED
  BY <1>1, <1>2, <1>3, <1>4, <1>5, <1>6

LEMMA TickKeeps ==
  ASSUME Inv, Tick
  PROVE  Inv'
<1> USE ScheduledAssumption DEF Inv, Tick, world, rowVars, redis, callVars, workVars
<1>1. TypeOK'
  BY DEF TypeOK, Times, Never, CallSteps, Phases, Terminal, CallsHold, LocksHold, Holding, Named,
     PinsHold
<1>2. LocksHold'
  BY DEF LocksHold
<1>3. OutcomesHold'
  BY DEF OutcomesHold, SentIsQueued
<1>4. CallsHold'
  BY DEF CallsHold
<1>5. PinsHold'
  BY DEF PinsHold
<1>6. FiresHold'
  BY DEF FiresHold, RefireNeedsFault, CancelledWasNotQueued
<1>7. QED
  BY <1>1, <1>2, <1>3, <1>4, <1>5, <1>6

LEMMA StartScheduleKeeps ==
  ASSUME Inv, NEW c \in Clients, NEW m \in Msgs, NEW t \in Times, StartSchedule(c, m, t)
  PROVE  Inv'
<1> USE ScheduledAssumption DEF Inv, StartSchedule, Become, Acceptable, PendingRows, world, rowVars, redis, callVars, workVars
<1>1. TypeOK'
  BY DEF TypeOK, Times, Never, CallSteps, Phases, Terminal, CallsHold, LocksHold, Holding, Named,
     PinsHold
<1>2. LocksHold'
  BY DEF LocksHold
<1>3. OutcomesHold'
  BY DEF OutcomesHold, SentIsQueued
<1>4. CallsHold'
  BY DEF TypeOK, CallsHold
<1>5. PinsHold'
  BY DEF TypeOK, PinsHold
<1>6. FiresHold'
  BY DEF FiresHold, RefireNeedsFault, CancelledWasNotQueued
<1>7. QED
  BY <1>1, <1>2, <1>3, <1>4, <1>5, <1>6

LEMMA RescheduleKeeps ==
  ASSUME Inv, NEW c \in Clients, NEW m \in Msgs, NEW t \in Times, Reschedule(c, m, t)
  PROVE  Inv'
<1> USE ScheduledAssumption DEF Inv, Reschedule, Become, Acceptable, Free, world, rowVars, redis, callVars, workVars
<1>1. TypeOK'
  BY DEF TypeOK, Times, Never, CallSteps, Phases, Terminal, CallsHold, LocksHold, Holding, Named,
     PinsHold
<1>2. LocksHold'
  BY DEF LocksHold
<1>3. OutcomesHold'
  BY DEF OutcomesHold, SentIsQueued
<1>4. CallsHold'
  BY DEF TypeOK, CallsHold
<1>5. PinsHold'
  BY DEF PinsHold
<1>6. FiresHold'
  BY DEF FiresHold, RefireNeedsFault, CancelledWasNotQueued
<1>7. QED
  BY <1>1, <1>2, <1>3, <1>4, <1>5, <1>6

LEMMA CancelKeeps ==
  ASSUME Inv, NEW c \in Clients, NEW m \in Msgs, Cancel(c, m)
  PROVE  Inv'
<1> USE ScheduledAssumption DEF Inv, Cancel, Become, Free, world, rowVars, redis, callVars, workVars
<1>1. TypeOK'
  BY DEF TypeOK, Times, Never, CallSteps, Phases, Terminal, CallsHold, LocksHold, Holding, Named,
     PinsHold
<1>2. LocksHold'
  BY DEF LocksHold
<1>3. OutcomesHold'
  BY DEF OutcomesHold, SentIsQueued
<1>4. CallsHold'
  BY DEF TypeOK, CallsHold, Terminal
<1>5. PinsHold'
  BY DEF TypeOK, PinsHold
<1>6. FiresHold'
  BY DEF TypeOK, FiresHold, RefireNeedsFault, CancelledWasNotQueued
<1>7. QED
  BY <1>1, <1>2, <1>3, <1>4, <1>5, <1>6

LEMMA PinKeeps ==
  ASSUME Inv, NEW c \in Clients, Pin(c)
  PROVE  Inv'
<1> USE ScheduledAssumption DEF Inv, Pin, Become, world, rowVars, redis, callVars, workVars
<1>1. TypeOK'
  BY DEF TypeOK, Times, Never, CallSteps, Phases, Terminal, CallsHold, LocksHold, Holding, Named,
     PinsHold
<1>2. LocksHold'
  BY DEF LocksHold
<1>3. OutcomesHold'
  BY DEF OutcomesHold, SentIsQueued
<1>4. CallsHold'
  BY DEF CallsHold
<1>5. PinsHold'
  BY DEF TypeOK, PinsHold
<1>6. FiresHold'
  BY DEF FiresHold, RefireNeedsFault, CancelledWasNotQueued
<1>7. QED
  BY <1>1, <1>2, <1>3, <1>4, <1>5, <1>6

LEMMA InsertKeeps ==
  ASSUME Inv, NEW c \in Clients, Insert(c)
  PROVE  Inv'
<1> USE ScheduledAssumption DEF Inv, Insert, Become, world, rowVars, redis, callVars, workVars
<1>1. TypeOK'
  BY DEF TypeOK, Times, Never, CallSteps, Phases, Terminal, CallsHold, LocksHold, Holding, Named,
     PinsHold
<1>2. LocksHold'
  BY DEF LocksHold
<1>3. OutcomesHold'
  BY DEF OutcomesHold, SentIsQueued
<1>4. CallsHold'
  BY DEF TypeOK, CallsHold
<1>5. PinsHold'
  BY DEF PinsHold
<1>6. FiresHold'
  BY DEF CallsHold, FiresHold, RefireNeedsFault, CancelledWasNotQueued
<1>7. QED
  BY <1>1, <1>2, <1>3, <1>4, <1>5, <1>6

LEMMA AddDueKeeps ==
  ASSUME Inv, NEW c \in Clients, AddDue(c)
  PROVE  Inv'
<1> USE ScheduledAssumption DEF Inv, AddDue, Fault, Return, Become, world, rowVars, redis, callVars, workVars
<1>1. TypeOK'
  BY DEF TypeOK, Times, Never, CallSteps, Phases, Terminal, CallsHold, LocksHold, Holding, Named,
     PinsHold
<1>2. LocksHold'
  BY DEF LocksHold
<1>3. OutcomesHold'
  BY DEF OutcomesHold, SentIsQueued
<1>4. CallsHold'
  BY DEF TypeOK, CallsHold
<1>5. PinsHold'
  BY DEF PinsHold
<1>6. FiresHold'
  BY DEF TypeOK, FiresHold, RefireNeedsFault, CancelledWasNotQueued
<1>7. QED
  BY <1>1, <1>2, <1>3, <1>4, <1>5, <1>6

LEMMA RemoveDueKeeps ==
  ASSUME Inv, NEW c \in Clients, RemoveDue(c)
  PROVE  Inv'
<1> USE ScheduledAssumption DEF Inv, RemoveDue, Fault, Become, Return, world, rowVars, redis, callVars, workVars
<1>1. TypeOK'
  <2>1. row[c] \in Msgs
    BY DEF CallsHold
  <2>2. due' \in [Msgs -> Times \cup {Never}] /\ faults' \in 0..MaxFaults
    BY <2>1 DEF TypeOK
  <2>3. call' \in [Clients -> CallSteps]
    BY DEF TypeOK, CallSteps
  <2>4. row' \in [Clients -> Msgs \cup {NoRow}] /\ when' \in [Clients -> Times]
    BY DEF TypeOK, Times
  <2>5. QED
    BY <2>2, <2>3, <2>4 DEF TypeOK
<1>2. LocksHold'
  BY DEF LocksHold
<1>3. OutcomesHold'
  BY DEF OutcomesHold, SentIsQueued
<1>4. CallsHold'
  BY DEF TypeOK, CallsHold
<1>5. PinsHold'
  BY DEF TypeOK, PinsHold
<1>6. FiresHold'
  BY DEF TypeOK, FiresHold, RefireNeedsFault, CancelledWasNotQueued
<1>7. QED
  BY <1>1, <1>2, <1>3, <1>4, <1>5, <1>6

LEMMA UnpinKeeps ==
  ASSUME Inv, NEW c \in Clients, Unpin(c)
  PROVE  Inv'
<1> USE ScheduledAssumption DEF Inv, Unpin, Fault, Return, Become, world, rowVars, redis, callVars, workVars
<1>1. TypeOK'
  <2>1. row[c] \in Msgs
    BY DEF CallsHold
  <2>2. row[c] \in Media => pins' \in [Msgs -> Nat]
    BY <2>1 DEF TypeOK, PinsHold
  <2>3. faults' \in 0..MaxFaults
    BY DEF TypeOK
  <2>4. call' \in [Clients -> CallSteps]
    BY DEF TypeOK, CallSteps
  <2>5. row' \in [Clients -> Msgs \cup {NoRow}] /\ when' \in [Clients -> Times]
    BY DEF TypeOK, Times
  <2>6. row[c] \in Media
    BY DEF CallsHold
  <2>7. QED
    BY <2>2, <2>3, <2>4, <2>5, <2>6 DEF TypeOK
<1>2. LocksHold'
  BY DEF LocksHold
<1>3. OutcomesHold'
  BY DEF OutcomesHold, SentIsQueued
<1>4. CallsHold'
  BY DEF TypeOK, CallsHold
<1>5. PinsHold'
  BY DEF TypeOK, CallsHold, PinsHold, Named, Terminal
<1>6. FiresHold'
  BY DEF TypeOK, FiresHold, RefireNeedsFault, CancelledWasNotQueued
<1>7. QED
  BY <1>1, <1>2, <1>3, <1>4, <1>5, <1>6

LEMMA CallDiesKeeps ==
  ASSUME Inv, NEW c \in Clients, CallDies(c)
  PROVE  Inv'
<1> USE ScheduledAssumption DEF Inv, CallDies, Return, Become, world, rowVars, redis, callVars, workVars
<1>1. TypeOK'
  BY DEF TypeOK, Times, Never, CallSteps, Phases, Terminal, CallsHold, LocksHold, Holding, Named,
     PinsHold
<1>2. LocksHold'
  BY DEF LocksHold
<1>3. OutcomesHold'
  BY DEF OutcomesHold, SentIsQueued
<1>4. CallsHold'
  BY DEF TypeOK, CallsHold
<1>5. PinsHold'
  BY DEF TypeOK, PinsHold
<1>6. FiresHold'
  BY DEF TypeOK, FiresHold, RefireNeedsFault, CancelledWasNotQueued
<1>7. QED
  BY <1>1, <1>2, <1>3, <1>4, <1>5, <1>6

LEMMA ReadPendingKeeps ==
  ASSUME Inv, NEW w \in Workers, ReadPending(w)
  PROVE  Inv'
<1> USE ScheduledAssumption DEF Inv, ReadPending, Go, PendingRows, world, rowVars, redis, callVars, workVars
<1>1. TypeOK'
  BY DEF TypeOK, Times, Never, CallSteps, Phases, Terminal, CallsHold, LocksHold, Holding, Named,
     PinsHold
<1>2. LocksHold'
  BY DEF LocksHold, Holding, Named
<1>3. OutcomesHold'
  BY DEF OutcomesHold, SentIsQueued
<1>4. CallsHold'
  BY DEF CallsHold
<1>5. PinsHold'
  BY DEF PinsHold
<1>6. FiresHold'
  BY DEF FiresHold, RefireNeedsFault, CancelledWasNotQueued
<1>7. QED
  BY <1>1, <1>2, <1>3, <1>4, <1>5, <1>6

LEMMA PollKeeps ==
  ASSUME Inv, NEW w \in Workers, Poll(w)
  PROVE  Inv'
<1> USE ScheduledAssumption DEF Inv, Poll, Go, world, rowVars, redis, callVars, workVars
<1>1. TypeOK'
  BY DEF TypeOK, Times, Never, CallSteps, Phases, Terminal, CallsHold, LocksHold, Holding, Named,
     PinsHold
<1>2. LocksHold'
  BY DEF LocksHold, Holding, Named
<1>3. OutcomesHold'
  BY DEF OutcomesHold, SentIsQueued
<1>4. CallsHold'
  BY DEF CallsHold
<1>5. PinsHold'
  BY DEF PinsHold
<1>6. FiresHold'
  BY DEF FiresHold, RefireNeedsFault, CancelledWasNotQueued
<1>7. QED
  BY <1>1, <1>2, <1>3, <1>4, <1>5, <1>6

LEMMA ReAddKeeps ==
  ASSUME Inv, NEW w \in Workers, ReAdd(w)
  PROVE  Inv'
<1> USE ScheduledAssumption DEF Inv, ReAdd, Fault, Go, world, rowVars, redis, callVars, workVars
<1>1. TypeOK'
  <2>1. due' \in [Msgs -> Times \cup {Never}]
    <3> DEFINE Scanned(m) == CHOOSE t \in Times : <<m, t>> \in scan[w]
    <3>1. ASSUME NEW m \in Msgs, \E t \in Times : <<m, t>> \in scan[w]
          PROVE  Scanned(m) \in Times
      BY <3>1
    <3>2. CASE UNCHANGED due
      BY <3>2 DEF TypeOK
    <3> HIDE DEF Scanned
    <3>3. CASE due' = [m \in Msgs |-> IF \E t \in Times : <<m, t>> \in scan[w]
                                      THEN Scanned(m) ELSE due[m]]
      BY <3>1, <3>3 DEF TypeOK
    <3>4. QED
      BY <3>2, <3>3 DEF Scanned
  <2>2. phase' \in [Workers -> Phases] /\ scan' \in [Workers -> SUBSET (Msgs \X Times)]
    BY DEF TypeOK, Phases
  <2>3. faults' \in 0..MaxFaults
    BY DEF TypeOK
  <2>4. QED
    BY <2>1, <2>2, <2>3 DEF TypeOK
<1>2. LocksHold'
  BY DEF LocksHold, Holding, Named
<1>3. OutcomesHold'
  BY DEF OutcomesHold, SentIsQueued
<1>4. CallsHold'
  BY DEF CallsHold
<1>5. PinsHold'
  BY DEF PinsHold
<1>6. FiresHold'
  BY DEF TypeOK, FiresHold, RefireNeedsFault, CancelledWasNotQueued
<1>7. QED
  BY <1>1, <1>2, <1>3, <1>4, <1>5, <1>6

LEMMA ClaimKeeps ==
  ASSUME Inv, NEW w \in Workers, NEW m \in Msgs, Claim(w, m)
  PROVE  Inv'
<1> USE ScheduledAssumption DEF Inv, Claim, Go, world, rowVars, redis, callVars, workVars
<1>1. TypeOK'
  BY DEF TypeOK, Times, Never, CallSteps, Phases, Terminal, CallsHold, LocksHold, Holding, Named,
     PinsHold
<1>2. LocksHold'
  BY DEF TypeOK, LocksHold, Holding
<1>3. OutcomesHold'
  BY DEF LocksHold, OutcomesHold, SentIsQueued
<1>4. CallsHold'
  BY DEF CallsHold
<1>5. PinsHold'
  BY DEF PinsHold
<1>6. FiresHold'
  BY DEF FiresHold, RefireNeedsFault, CancelledWasNotQueued
<1>7. QED
  BY <1>1, <1>2, <1>3, <1>4, <1>5, <1>6

LEMMA LockRowKeeps ==
  ASSUME Inv, NEW w \in Workers, LockRow(w)
  PROVE  Inv'
<1> USE ScheduledAssumption DEF Inv, LockRow, Go, GoOn, Free, world, rowVars, redis, callVars, workVars
<1>1. TypeOK'
  <2>1. cur[w] \in Msgs
    BY DEF LocksHold, Holding, Named
  <2>2. lock' \in [Msgs -> Workers \cup {Nobody}]
    BY <2>1 DEF TypeOK
  <2>3. phase' \in [Workers -> Phases] /\ cur' \in [Workers -> Msgs \cup {NoRow}]
    BY <2>1 DEF TypeOK, Phases
  <2>4. QED
    BY <2>2, <2>3 DEF TypeOK
<1>2. LocksHold'
  <2>1. cur[w] \in Msgs /\ w # Nobody
    BY DEF LocksHold, Named
  <2>2. CASE Free(cur[w]) /\ status[cur[w]] = "pending"
    <3>1. /\ lock' = [lock EXCEPT ![cur[w]] = w]
          /\ phase' = [phase EXCEPT ![w] = "sender"]
          /\ UNCHANGED <<cur, outcome, status>>
      BY <2>2
    <3>2. QED
      BY <2>1, <2>2, <3>1 DEF TypeOK, LocksHold, Holding, Named
  <2>3. CASE ~(Free(cur[w]) /\ status[cur[w]] = "pending")
    <3>1. /\ phase' = [phase EXCEPT ![w] = IF batch[w] = {} THEN "idle" ELSE "claim"]
          /\ cur' = [cur EXCEPT ![w] = NoRow]
          /\ UNCHANGED <<lock, outcome, status>>
      BY <2>3
    <3>2. QED
      BY <2>1, <3>1 DEF TypeOK, LocksHold, Holding, Named
  <2>4. QED
    BY <2>2, <2>3
<1>3. OutcomesHold'
  BY DEF TypeOK, LocksHold, OutcomesHold, SentIsQueued, Holding, Named, Phases
<1>4. CallsHold'
  BY DEF CallsHold
<1>5. PinsHold'
  BY DEF PinsHold
<1>6. FiresHold'
  BY DEF TypeOK, LocksHold, FiresHold, RefireNeedsFault, CancelledWasNotQueued
<1>7. QED
  BY <1>1, <1>2, <1>3, <1>4, <1>5, <1>6

LEMMA CheckSenderKeeps ==
  ASSUME Inv, NEW w \in Workers, CheckSender(w)
  PROVE  Inv'
<1> USE ScheduledAssumption DEF Inv, CheckSender, Go, world, rowVars, redis, callVars, workVars
<1>1. TypeOK'
  <2>1. cur[w] \in Msgs
    BY DEF LocksHold, Holding, Named
  <2>2. told' \in SUBSET ({"sent", "failed"} \X Msgs)
    BY <2>1 DEF TypeOK
  <2>3. phase' \in [Workers -> Phases] /\ outcome' \in [Workers -> {"none", "sent", "failed"}]
    BY DEF TypeOK, Phases
  <2>4. QED
    BY <2>2, <2>3 DEF TypeOK
<1>2. LocksHold'
  BY DEF TypeOK, LocksHold, Holding, Named
<1>3. OutcomesHold'
  BY DEF TypeOK, OutcomesHold, SentIsQueued
<1>4. CallsHold'
  BY DEF CallsHold
<1>5. PinsHold'
  BY DEF PinsHold
<1>6. FiresHold'
  BY DEF TypeOK, FiresHold, RefireNeedsFault, CancelledWasNotQueued
<1>7. QED
  BY <1>1, <1>2, <1>3, <1>4, <1>5, <1>6

LEMMA XAddSendKeeps ==
  ASSUME Inv, NEW w \in Workers, XAddSend(w)
  PROVE  Inv'
<1> USE ScheduledAssumption DEF Inv, XAddSend, Go, world, rowVars, redis, callVars, workVars
<1>1. TypeOK'
  BY DEF TypeOK, Times, Never, CallSteps, Phases, Terminal, CallsHold, LocksHold, Holding, Named,
     PinsHold
<1>2. LocksHold'
  BY DEF LocksHold, Holding, Named
<1>3. OutcomesHold'
  BY DEF TypeOK, LocksHold, OutcomesHold, SentIsQueued, Holding, Named
<1>4. CallsHold'
  BY DEF CallsHold
<1>5. PinsHold'
  BY DEF PinsHold
<1>6. FiresHold'
  BY DEF TypeOK, LocksHold, FiresHold, RefireNeedsFault, CancelledWasNotQueued, Holding
<1>7. QED
  BY <1>1, <1>2, <1>3, <1>4, <1>5, <1>6

LEMMA MarkSentKeeps ==
  ASSUME Inv, NEW w \in Workers, MarkSent(w)
  PROVE  Inv'
<1> USE ScheduledAssumption DEF Inv, MarkSent, Go, world, rowVars, redis, callVars, workVars
<1>1. TypeOK'
  BY DEF TypeOK, Times, Never, CallSteps, Phases, Terminal, CallsHold, LocksHold, Holding, Named,
     PinsHold
<1>2. LocksHold'
  BY DEF TypeOK, LocksHold, Holding, Named
<1>3. OutcomesHold'
  BY DEF OutcomesHold, SentIsQueued
<1>4. CallsHold'
  BY DEF CallsHold
<1>5. PinsHold'
  BY DEF PinsHold
<1>6. FiresHold'
  BY DEF FiresHold, RefireNeedsFault, CancelledWasNotQueued
<1>7. QED
  BY <1>1, <1>2, <1>3, <1>4, <1>5, <1>6

LEMMA CommitKeeps ==
  ASSUME Inv, NEW w \in Workers, Commit(w)
  PROVE  Inv'
<1> USE ScheduledAssumption DEF Inv, Commit, GoOn, Unlock, Go, world, rowVars, redis, callVars, workVars
<1>1. TypeOK'
  BY DEF TypeOK, Times, Never, CallSteps, Phases, Terminal, CallsHold, LocksHold, Holding, Named,
     PinsHold
<1>2. LocksHold'
  BY DEF TypeOK, LocksHold, Holding, Named
<1>3. OutcomesHold'
  BY DEF TypeOK, OutcomesHold, SentIsQueued
<1>4. CallsHold'
  BY DEF LocksHold, CallsHold, Holding, Terminal
<1>5. PinsHold'
  BY DEF TypeOK, PinsHold
<1>6. FiresHold'
  BY DEF TypeOK, LocksHold, FiresHold, RefireNeedsFault, CancelledWasNotQueued
<1>7. QED
  BY <1>1, <1>2, <1>3, <1>4, <1>5, <1>6

LEMMA FireRaisesKeeps ==
  ASSUME Inv, NEW w \in Workers, FireRaises(w)
  PROVE  Inv'
<1> USE ScheduledAssumption DEF Inv, FireRaises, Fault, Go, Unlock, world, rowVars, redis, callVars, workVars
<1>1. TypeOK'
  <2>1. cur[w] \in Msgs /\ (phase[w] = "commit" => outcome[w] \in {"sent", "failed"})
    BY DEF TypeOK, LocksHold, Holding, Named
  <2>2. status' \in [Msgs -> {"none", "pending"} \cup Terminal]
    BY <2>1 DEF TypeOK, Terminal
  <2>3. lock' \in [Msgs -> Workers \cup {Nobody}] /\ faults' \in 0..MaxFaults
    BY DEF TypeOK
  <2>4. phase' \in [Workers -> Phases] /\ outcome' \in [Workers -> {"none", "sent", "failed"}]
    BY DEF TypeOK, Phases
  <2>5. QED
    BY <2>2, <2>3, <2>4 DEF TypeOK
<1>2. LocksHold'
  BY DEF TypeOK, LocksHold, Holding, Named
<1>3. OutcomesHold'
  BY DEF TypeOK, OutcomesHold, SentIsQueued
<1>4. CallsHold'
  BY DEF TypeOK, LocksHold, CallsHold, Holding, Terminal
<1>5. PinsHold'
  BY DEF TypeOK, PinsHold
<1>6. FiresHold'
  BY DEF TypeOK, FiresHold, RefireNeedsFault, CancelledWasNotQueued
<1>7. QED
  BY <1>1, <1>2, <1>3, <1>4, <1>5, <1>6

LEMMA BumpAttemptsKeeps ==
  ASSUME Inv, NEW w \in Workers, BumpAttempts(w)
  PROVE  Inv'
<1> USE ScheduledAssumption DEF Inv, BumpAttempts, Go, Free, world, rowVars, redis, callVars, workVars
<1>1. TypeOK'
  BY DEF TypeOK, Times, Never, CallSteps, Phases, Terminal, CallsHold, LocksHold, Holding, Named,
     PinsHold
<1>2. LocksHold'
  BY DEF LocksHold, Holding, Named
<1>3. OutcomesHold'
  BY DEF OutcomesHold, SentIsQueued
<1>4. CallsHold'
  BY DEF CallsHold
<1>5. PinsHold'
  BY DEF PinsHold
<1>6. FiresHold'
  BY DEF FiresHold, RefireNeedsFault, CancelledWasNotQueued
<1>7. QED
  BY <1>1, <1>2, <1>3, <1>4, <1>5, <1>6

LEMMA RequeueKeeps ==
  ASSUME Inv, NEW w \in Workers, Requeue(w)
  PROVE  Inv'
<1> USE ScheduledAssumption DEF Inv, Requeue, Fault, GoOn, Go, world, rowVars, redis, callVars, workVars
<1>1. TypeOK'
  BY DEF TypeOK, Times, Never, CallSteps, Phases, Terminal, CallsHold, LocksHold, Holding, Named,
     PinsHold
<1>2. LocksHold'
  BY DEF TypeOK, LocksHold, Holding, Named
<1>3. OutcomesHold'
  BY DEF LocksHold, OutcomesHold, SentIsQueued
<1>4. CallsHold'
  BY DEF CallsHold
<1>5. PinsHold'
  BY DEF PinsHold
<1>6. FiresHold'
  BY DEF TypeOK, FiresHold, RefireNeedsFault, CancelledWasNotQueued
<1>7. QED
  BY <1>1, <1>2, <1>3, <1>4, <1>5, <1>6

LEMMA GiveUpReadKeeps ==
  ASSUME Inv, NEW w \in Workers, GiveUpRead(w)
  PROVE  Inv'
<1> USE ScheduledAssumption DEF Inv, GiveUpRead, Go, GoOn, world, rowVars, redis, callVars, workVars
<1>1. TypeOK'
  BY DEF TypeOK, Times, Never, CallSteps, Phases, Terminal, CallsHold, LocksHold, Holding, Named,
     PinsHold
<1>2. LocksHold'
  BY DEF TypeOK, LocksHold, Holding, Named, Terminal
<1>3. OutcomesHold'
  BY DEF TypeOK, LocksHold, OutcomesHold, SentIsQueued
<1>4. CallsHold'
  BY DEF CallsHold
<1>5. PinsHold'
  BY DEF PinsHold
<1>6. FiresHold'
  BY DEF TypeOK, FiresHold, RefireNeedsFault, CancelledWasNotQueued
<1>7. QED
  BY <1>1, <1>2, <1>3, <1>4, <1>5, <1>6

LEMMA GiveUpWriteKeeps ==
  ASSUME Inv, NEW w \in Workers, GiveUpWrite(w)
  PROVE  Inv'
<1> USE ScheduledAssumption DEF Inv, GiveUpWrite, GoOn, Free, Go, world, rowVars, redis, callVars, workVars
<1>1. TypeOK'
  BY DEF TypeOK, Times, Never, CallSteps, Phases, Terminal, CallsHold, LocksHold, Holding, Named,
     PinsHold
<1>2. LocksHold'
  BY DEF TypeOK, LocksHold, Holding, Named
<1>3. OutcomesHold'
  BY DEF LocksHold, OutcomesHold, SentIsQueued
<1>4. CallsHold'
  BY DEF LocksHold, CallsHold, Terminal
<1>5. PinsHold'
  BY DEF PinsHold
<1>6. FiresHold'
  BY DEF FiresHold, RefireNeedsFault, CancelledWasNotQueued
<1>7. QED
  BY <1>1, <1>2, <1>3, <1>4, <1>5, <1>6

LEMMA DrainAbortsKeeps ==
  ASSUME Inv, NEW w \in Workers, DrainAborts(w)
  PROVE  Inv'
<1> USE ScheduledAssumption DEF Inv, DrainAborts, Fault, Go, world, rowVars, redis, callVars, workVars
<1>1. TypeOK'
  BY DEF TypeOK, Times, Never, CallSteps, Phases, Terminal, CallsHold, LocksHold, Holding, Named,
     PinsHold
<1>2. LocksHold'
  BY DEF TypeOK, LocksHold, Holding, Named
<1>3. OutcomesHold'
  BY DEF LocksHold, OutcomesHold, SentIsQueued
<1>4. CallsHold'
  BY DEF CallsHold
<1>5. PinsHold'
  BY DEF PinsHold
<1>6. FiresHold'
  BY DEF TypeOK, FiresHold, RefireNeedsFault, CancelledWasNotQueued
<1>7. QED
  BY <1>1, <1>2, <1>3, <1>4, <1>5, <1>6

LEMMA DiesKeeps ==
  ASSUME Inv, NEW w \in Workers, Dies(w)
  PROVE  Inv'
<1> USE ScheduledAssumption DEF Inv, Dies, Go, Unlock, world, rowVars, redis, callVars, workVars
<1>1. TypeOK'
  BY DEF TypeOK, Times, Never, CallSteps, Phases, Terminal, CallsHold, LocksHold, Holding, Named,
     PinsHold
<1>2. LocksHold'
  BY DEF TypeOK, LocksHold, Holding, Named
<1>3. OutcomesHold'
  BY DEF TypeOK, OutcomesHold, SentIsQueued
<1>4. CallsHold'
  BY DEF CallsHold
<1>5. PinsHold'
  BY DEF PinsHold
<1>6. FiresHold'
  BY DEF TypeOK, FiresHold, RefireNeedsFault, CancelledWasNotQueued
<1>7. QED
  BY <1>1, <1>2, <1>3, <1>4, <1>5, <1>6

-----------------------------------------------------------------------------
LEMMA InitHolds == Init => Inv
<1> SUFFICES ASSUME Init PROVE Inv
  OBVIOUS
<1> USE ScheduledAssumption DEF Init
<1>1. TypeOK
  BY DEF TypeOK, Times, Never, CallSteps, Phases
<1>2. LocksHold /\ OutcomesHold /\ CallsHold /\ PinsHold /\ FiresHold
  BY DEF LocksHold, OutcomesHold, CallsHold, PinsHold, FiresHold, Holding, Named, SentIsQueued,
     RefireNeedsFault, CancelledWasNotQueued
<1>3. QED
  BY <1>1, <1>2 DEF Inv

LEMMA StutterKeeps == ASSUME Inv, UNCHANGED vars PROVE Inv'
<1> USE DEF vars, world, rowVars, redis, callVars, workVars
<1>1. TypeOK'
  BY DEF Inv, TypeOK
<1>2. LocksHold' /\ OutcomesHold' /\ CallsHold' /\ PinsHold' /\ FiresHold'
  BY DEF Inv, LocksHold, OutcomesHold, CallsHold, PinsHold, FiresHold, SentIsQueued,
     RefireNeedsFault, CancelledWasNotQueued
<1>3. QED
  BY <1>1, <1>2 DEF Inv

LEMMA NextKeeps == ASSUME Inv, [Next]_vars PROVE Inv'
<1>1. ASSUME NEW c \in Clients, NEW m \in Msgs, NEW t \in Times,
             StartSchedule(c, m, t) \/ Reschedule(c, m, t)
      PROVE  Inv'
  BY <1>1, StartScheduleKeeps, RescheduleKeeps
<1>2. ASSUME NEW c \in Clients, CallStep(c) \/ CallDies(c)
      PROVE  Inv'
  BY <1>2, PinKeeps, InsertKeeps, AddDueKeeps, RemoveDueKeeps, UnpinKeeps, CallDiesKeeps DEF
     CallStep
<1>3. ASSUME NEW w \in Workers, ReadPending(w) \/ Poll(w) \/ WorkerStep(w)
      PROVE  Inv'
  BY <1>3, ReadPendingKeeps, PollKeeps, ReAddKeeps, ClaimKeeps, LockRowKeeps, CheckSenderKeeps,
     XAddSendKeeps, MarkSentKeeps, CommitKeeps, BumpAttemptsKeeps, RequeueKeeps, GiveUpReadKeeps,
     GiveUpWriteKeeps DEF WorkerStep
<1>4. ASSUME NEW w \in Workers, FireRaises(w) \/ DrainAborts(w) \/ Dies(w)
      PROVE  Inv'
  BY <1>4, FireRaisesKeeps, DrainAbortsKeeps, DiesKeeps
<1>5. QED
  BY <1>1, <1>2, <1>3, <1>4, TickKeeps, LeaveChatKeeps, FlushRedisKeeps, CancelKeeps, StutterKeeps
     DEF Next

-----------------------------------------------------------------------------
\* The statuses, locks, steps and counts keep their types; in particular no
\* reference on a blob is given back that was not taken.
THEOREM TypeCorrect == Spec => []TypeOK
<1>1. Inv => TypeOK
  BY DEF Inv
<1>2. QED
  BY <1>1, InitHolds, NextKeeps, PTL DEF Spec

\* What a row and its events call sent is on the send stream; a cancelled
\* message is there only after an attempt that failed past its XADD.
THEOREM StatusHoldsAlways == Spec => []StatusHolds
<1>1. Inv => StatusHolds
  BY DEF Inv, StatusHolds, FiresHold, OutcomesHold
<1>2. QED
  BY <1>1, InitHolds, NextKeeps, PTL DEF Spec

\* A message enters the stream a second time only after a crash or a failed
\* commit, once for each.
THEOREM RefireNeedsFaultHolds == Spec => []RefireNeedsFault
<1>1. Inv => RefireNeedsFault
  BY DEF Inv, FiresHold
<1>2. QED
  BY <1>1, InitHolds, NextKeeps, PTL DEF Spec

\* Only a pending row, whose lock the worker holds, is handed to the stream.
LEMMA StepFiresPending ==
  ASSUME Inv, [Next]_vars, NEW m \in Msgs, status[m] \in Terminal
  PROVE  queued'[m] = queued[m]
<1>1. ASSUME NEW w \in Workers, XAddSend(w)
      PROVE  queued'[m] = queued[m]
  <2>1. cur[w] \in Msgs /\ status[cur[w]] = "pending"
    BY <1>1 DEF Inv, LocksHold, Holding, Named, XAddSend
  <2>2. cur[w] # m
    BY <2>1 DEF Terminal
  <2>3. QED
    BY <1>1, <2>2 DEF XAddSend
<1>2. ASSUME Next, ~\E w \in Workers : XAddSend(w)
      PROVE  UNCHANGED queued
  BY <1>2 DEF Next, redis, Tick, LeaveChat, FlushRedis, StartSchedule, Reschedule, Cancel,
     CallStep, Pin, Insert, AddDue, RemoveDue, Unpin, CallDies, ReadPending, Poll, WorkerStep,
     ReAdd, Claim, LockRow, CheckSender, MarkSent, Commit, BumpAttempts, Requeue, GiveUpRead,
     GiveUpWrite, FireRaises, DrainAborts, Dies
<1>3. QED
  BY <1>1, <1>2 DEF vars, redis

\* A row that was sent, cancelled or given up is never handed to the stream
\* again, whatever workers still hold its id.
THEOREM TerminalStopsFiringHolds == Spec => TerminalStopsFiring
<1>1. Inv /\ [Next]_vars => [\A m \in Msgs : status[m] \in Terminal => queued'[m] = queued[m]]_vars
  BY StepFiresPending
<1>2. QED
  BY <1>1, InitHolds, NextKeeps, PTL DEF Spec, TerminalStopsFiring

=============================================================================
