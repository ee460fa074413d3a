-------------------------- MODULE AgentInvokeProofs --------------------------
(***************************************************************************)
(* Proofs about AgentInvoke for any number of tasks, poll loops, messages, *)
(* instructions, round trips and faults.                                   *)
(***************************************************************************)
EXTENDS AgentInvoke, TLAPS

USE AgentAssumption
USE DEF outside, debounce, mutex, pollVars, stream, taskVars, fate, turnFrame,
        Messages, Slots, None

\* A group of variables that a step leaves alone stays well typed.
LEMMA FrameType ==
    ASSUME TypeOK
    PROVE /\ UNCHANGED <<outside, faults, engine>> => OutsideType'
          /\ UNCHANGED debounce => DebounceType'
          /\ UNCHANGED mutex => MutexType'
          /\ UNCHANGED pollVars => PollType'
          /\ UNCHANGED stream => StreamType'
          /\ UNCHANGED taskVars => TaskType'
          /\ UNCHANGED fate => FateType'
<1>1. UNCHANGED <<outside, faults, engine>> => OutsideType' BY DEF TypeOK, OutsideType
<1>2. UNCHANGED debounce => DebounceType' BY DEF TypeOK, DebounceType
<1>3. UNCHANGED mutex => MutexType' BY DEF TypeOK, MutexType
<1>4. UNCHANGED pollVars => PollType' BY DEF TypeOK, PollType
<1>5. UNCHANGED stream => StreamType' BY DEF TypeOK, StreamType
<1>6. UNCHANGED taskVars => TaskType' BY DEF TypeOK, TaskType
<1>7. UNCHANGED fate => FateType' BY DEF TypeOK, FateType
<1> QED BY <1>1, <1>2, <1>3, <1>4, <1>5, <1>6, <1>7

\* An XADD keeps the entries well typed.
LEMMA AddEntryType ==
    ASSUME StreamType, NEW m \in 0..MaxMessages, AddEntry(m)
    PROVE StreamType'
<1> DEFINE s == CHOOSE t \in FreeSlots : TRUE
<1>1. entry' = [entry EXCEPT ![s] = "queued"] /\ about' = [about EXCEPT ![s] = m]
  BY DEF AddEntry
<1> HIDE DEF s
<1> QED BY <1>1 DEF StreamType

\* The sets of messages that steps add to settled, displaced and lost.
LEMMA MessageSets ==
    ASSUME NEW n \in 0..MaxMessages
    PROVE 1..n \subseteq Messages /\ \A S : {n} \ ({None} \cup S) \subseteq Messages
OBVIOUS

\* SET of the stash keeps the debounce and the displaced messages well typed.
LEMMA StashType ==
    ASSUME DebounceType, FateType, NEW m \in Messages, Stash(m), UNCHANGED <<due, settled, lost>>
    PROVE DebounceType' /\ FateType'
BY DEF DebounceType, FateType, Stash

\* A step of a trigger evaluation is well typed.
LEMMA EngineType ==
    ASSUME TypeOK, NEW m \in Messages, EngineStep(m) \/ ArmFails(m) \/ EngineDies(m)
    PROVE TypeOK'
<1>1. CASE EngineCheck(m)
  <2>1. OutsideType' BY <1>1 DEF TypeOK, OutsideType, EngineCheck, EngineAt
  <2> QED BY <1>1, <2>1, FrameType DEF TypeOK, EngineCheck, EngineAt
<1>2. CASE EngineMark(m)
  <2>1. OutsideType' BY <1>2 DEF TypeOK, OutsideType, EngineMark, EngineAt
  <2>2. MutexType' BY <1>2 DEF TypeOK, MutexType, EngineMark, Mark
  <2> QED BY <1>2, <2>1, <2>2, FrameType DEF TypeOK, EngineMark, EngineAt
<1>3. CASE EngineStash(m)
  <2>1. OutsideType' BY <1>3 DEF TypeOK, OutsideType, EngineStash, EngineAt
  <2>2. DebounceType' /\ FateType'
    BY <1>3, StashType DEF TypeOK, EngineStash, EngineAt
  <2> QED BY <1>3, <2>1, <2>2, FrameType DEF TypeOK, EngineStash, EngineAt
<1>4. CASE EngineArm(m)
  <2>1. OutsideType' BY <1>4 DEF TypeOK, OutsideType, EngineArm, EngineAt
  <2>2. DebounceType' BY <1>4 DEF TypeOK, DebounceType, EngineArm
  <2> QED BY <1>4, <2>1, <2>2, FrameType DEF TypeOK, EngineArm, EngineAt
<1>5. CASE ArmFails(m)
  <2>1. OutsideType' BY <1>5 DEF TypeOK, OutsideType, ArmFails, Fault
  <2>2. FateType' BY <1>5 DEF TypeOK, OutsideType, FateType, ArmFails
  <2> QED BY <1>5, <2>1, <2>2, FrameType DEF TypeOK, ArmFails
<1>6. CASE EngineDies(m)
  <2>1. OutsideType' BY <1>6 DEF TypeOK, OutsideType, EngineDies, Fault
  <2> QED BY <1>6, <2>1, FrameType DEF TypeOK, EngineDies
<1> QED BY <1>1, <1>2, <1>3, <1>4, <1>5, <1>6 DEF EngineStep

\* A step of a poll loop is well typed.
LEMMA PollStepType ==
    ASSUME TypeOK, NEW p \in Pollers, PollStep(p)
    PROVE TypeOK'
<1>1. CASE PollSee(p)
  <2>1. PollType' BY <1>1 DEF TypeOK, PollType, PollSee, PollAt
  <2> QED BY <1>1, <2>1, FrameType DEF TypeOK, PollSee, PollAt
<1>2. CASE PollRemove(p)
  <2>1. PollType' BY <1>2 DEF TypeOK, PollType, PollRemove, PollAt
  <2>2. DebounceType' BY <1>2 DEF TypeOK, DebounceType, PollRemove
  <2> QED BY <1>2, <2>1, <2>2, FrameType DEF TypeOK, PollRemove, PollAt
<1>3. CASE PollGet(p)
  <2>1. PollType' BY <1>3 DEF TypeOK, PollType, DebounceType, PollGet, PollAt
  <2> QED BY <1>3, <2>1, FrameType DEF TypeOK, PollGet, PollAt
<1>4. CASE PollDelete(p)
  <2>1. PollType' BY <1>4 DEF TypeOK, PollType, PollDelete, PollAt
  <2>2. DebounceType' BY <1>4 DEF TypeOK, DebounceType, PollDelete
  <2>3. displaced' \subseteq Messages
    BY <1>4, MessageSets DEF TypeOK, FateType, DebounceType, PollDelete
  <2>4. UNCHANGED <<settled, lost>> BY <1>4 DEF PollDelete, PollAt
  <2>5. FateType' BY <2>3, <2>4 DEF TypeOK, FateType
  <2> QED BY <1>4, <2>1, <2>2, <2>5, FrameType DEF TypeOK, PollDelete, PollAt
<1>5. CASE PollAdd(p)
  <2>1. PollType' BY <1>5 DEF TypeOK, PollType, PollAdd, PollAt
  <2>2. StreamType' BY <1>5, AddEntryType DEF TypeOK, PollType, PollAdd
  <2> QED BY <1>5, <2>1, <2>2, FrameType DEF TypeOK, PollAdd, PollAt
<1> QED BY <1>1, <1>2, <1>3, <1>4, <1>5 DEF PollStep

\* A task that is on an entry is on one that exists, and its message is one.
LEMMA MessageType ==
    ASSUME TypeOK, NEW w \in Workers, step[w] # "idle"
    PROVE on[w] \in Slots /\ Message(w) \in 0..MaxMessages
BY DEF TypeOK, TaskType, StreamType, Message

\* What a turn settles are messages.
LEMMA SettleType ==
    ASSUME TypeOK, NEW w \in Workers, NEW n \in 0..MaxMessages, Settle(w, n)
    PROVE settled' \subseteq Messages
BY MessageSets DEF TypeOK, FateType, Settle

\* A message left to another one's turn is a message.
LEMMA DisplacedType ==
    ASSUME TypeOK, NEW n \in 0..MaxMessages, displaced' = displaced \cup ({n} \ {None})
    PROVE displaced' \subseteq Messages
BY MessageSets DEF TypeOK, FateType

\* What a turn read are messages, and so is what it leaves to nobody.
LEMMA LeftType ==
    ASSUME TypeOK, NEW w \in Workers
    PROVE /\ lost \cup (1..seen[w] \ settled) \subseteq Messages
          /\ \A m : LeaveTo(m, w) => lost' \subseteq Messages
<1>1. 1..seen[w] \subseteq Messages BY MessageSets DEF TypeOK, TaskType
<1> QED BY <1>1 DEF TypeOK, FateType, LeaveTo

\* A round trip spent on a flag is counted and may be the last.
LEMMA FlagTripType ==
    ASSUME TypeOK, NEW w \in Workers, step[w] # "idle", FlagTrip(w)
    PROVE /\ trips' \in [Workers -> 0..MaxTrips]
          /\ step' \in {[step EXCEPT ![w] = "top"], [step EXCEPT ![w] = "release"]}
          /\ ended' \in [Workers -> {"no", "done", "superseded", "failed"}]
          /\ displaced' \subseteq Messages
          /\ lost' \subseteq Messages
<1>1. CASE NextTrip(w) /\ UNCHANGED <<displaced, lost>>
  BY <1>1 DEF TypeOK, TaskType, FateType, NextTrip, Goto
<1>2. CASE ~(NextTrip(w) /\ UNCHANGED <<displaced, lost>>)
  <2>1. LoopRunsOut(w) BY <1>2 DEF FlagTrip
  <2>2. displaced' \subseteq Messages BY <1>2, MessageType, DisplacedType DEF FlagTrip
  <2>3. lost' \subseteq Messages BY <1>2, LeftType DEF FlagTrip
  <2> QED BY <2>1, <2>2, <2>3 DEF TypeOK, TaskType, LoopRunsOut, Goto
<1> QED BY <1>1, <1>2

\* Each step of a task is well typed.
LEMMA MessageIsBusyType == ASSUME TypeOK, NEW w \in Workers, MessageIsBusy(w) PROVE TypeOK'
<1>1. step[w] # "idle" BY DEF MessageIsBusy, Goto, TurnSteps
<1>2. TaskType'
  BY <1>1 DEF TypeOK, TaskType, TaskSteps, TurnSteps, OutsideType, MessageIsBusy, Goto
<1> QED BY <1>2, FrameType DEF TypeOK, MessageIsBusy, Goto

LEMMA BusyMarkType == ASSUME TypeOK, NEW w \in Workers, BusyMark(w) PROVE TypeOK'
<1>1. step[w] # "idle" BY DEF BusyMark, Mark, Goto, TurnSteps
<1>2. TaskType'
  BY <1>1 DEF TypeOK, TaskType, TaskSteps, TurnSteps, OutsideType, BusyMark, Mark, Goto
<1>3. MutexType' BY <1>1, MessageType DEF TypeOK, MutexType, BusyMark, Mark, Goto
<1> QED BY <1>2, <1>3, FrameType DEF TypeOK, BusyMark, Mark, Goto

LEMMA BusyStashType == ASSUME TypeOK, NEW w \in Workers, BusyStash(w) PROVE TypeOK'
<1>1. step[w] # "idle" BY DEF BusyStash, Goto, TurnSteps
<1>2. TaskType'
  BY <1>1 DEF TypeOK, TaskType, TaskSteps, TurnSteps, OutsideType, BusyStash, Goto
<1>3. DebounceType' BY <1>1, MessageType DEF TypeOK, DebounceType, BusyStash, Goto
<1>4. displaced' \subseteq Messages
  BY <1>1, MessageType, MessageSets DEF TypeOK, FateType, BusyStash
<1>5. FateType' BY <1>4 DEF TypeOK, FateType, BusyStash, Goto
<1> QED BY <1>2, <1>3, <1>5, FrameType DEF TypeOK, BusyStash, Goto

LEMMA BusyArmType == ASSUME TypeOK, NEW w \in Workers, BusyArm(w) PROVE TypeOK'
<1>1. step[w] # "idle" BY DEF BusyArm, Goto, TurnSteps
<1>2. TaskType'
  BY <1>1 DEF TypeOK, TaskType, TaskSteps, TurnSteps, OutsideType, BusyArm, Goto
<1>3. DebounceType' BY <1>1 DEF TypeOK, DebounceType, BusyArm, Goto
<1> QED BY <1>2, <1>3, FrameType DEF TypeOK, BusyArm, Goto

LEMMA GateAnswersType == ASSUME TypeOK, NEW w \in Workers, GateAnswers(w) PROVE TypeOK'
<1>1. step[w] # "idle" BY DEF GateAnswers, Settle, Goto, TurnSteps
<1>2. TaskType'
  BY <1>1 DEF TypeOK, TaskType, TaskSteps, TurnSteps, OutsideType, GateAnswers, Settle, Goto
<1>3. settled' \subseteq Messages BY <1>1, MessageType, SettleType DEF GateAnswers
<1>4. FateType' BY <1>3 DEF TypeOK, FateType, GateAnswers, Settle, Goto
<1> QED BY <1>2, <1>4, FrameType DEF TypeOK, GateAnswers, Settle, Goto

LEMMA GateApprovesType == ASSUME TypeOK, NEW w \in Workers, GateApproves(w) PROVE TypeOK'
<1>1. step[w] # "idle" BY DEF GateApproves, Goto, TurnSteps
<1>2. TaskType'
  BY <1>1 DEF TypeOK, TaskType, TaskSteps, TurnSteps, OutsideType, GateApproves, Goto
<1> QED BY <1>2, FrameType DEF TypeOK, GateApproves, Goto

LEMMA MergeType == ASSUME TypeOK, NEW w \in Workers, Merge(w) PROVE TypeOK'
<1>1. step[w] # "idle" BY DEF Merge, TakeFlag, FlagTrip, Goto, TurnSteps
<1>2. TaskType'
  BY <1>1, FlagTripType, SMTT(30) DEF TypeOK, TaskType, TaskSteps, TurnSteps, OutsideType, Merge
<1>3. MutexType' BY <1>1 DEF TypeOK, MutexType, Merge, TakeFlag, FlagTrip, Goto
<1>4. FateType' BY <1>1, FlagTripType DEF TypeOK, FateType, Merge
<1> QED BY <1>2, <1>3, <1>4, FrameType DEF TypeOK, Merge, TakeFlag, FlagTrip, Goto

LEMMA GiveWayBeforeCallType == ASSUME TypeOK, NEW w \in Workers, GiveWayBeforeCall(w) PROVE TypeOK'
<1>1. step[w] # "idle" BY DEF GiveWayBeforeCall, GiveWay, TakeFlag, Goto, TurnSteps
<1>2. TaskType'
  BY <1>1
  DEF TypeOK, TaskType, TaskSteps, TurnSteps, OutsideType, GiveWayBeforeCall, GiveWay, TakeFlag,
     Goto
<1>3. MutexType' BY <1>1 DEF TypeOK, MutexType, GiveWayBeforeCall, GiveWay, TakeFlag, Goto
<1>4. displaced' \subseteq Messages
  BY <1>1, MessageType, DisplacedType DEF GiveWayBeforeCall, GiveWay
<1>5. lost' \subseteq Messages BY LeftType DEF GiveWayBeforeCall, GiveWay
<1>6. FateType' BY <1>4, <1>5 DEF TypeOK, FateType, GiveWayBeforeCall, GiveWay, TakeFlag, Goto
<1> QED
  BY <1>2, <1>3, <1>6, FrameType DEF TypeOK, GiveWayBeforeCall, GiveWay, TakeFlag, Goto

LEMMA StartTripType == ASSUME TypeOK, NEW w \in Workers, StartTrip(w) PROVE TypeOK'
<1>1. step[w] # "idle" BY DEF StartTrip, NoFlag, Goto, TurnSteps
<1>2. TaskType'
  BY <1>1 DEF TypeOK, TaskType, TaskSteps, TurnSteps, OutsideType, StartTrip, NoFlag, Goto
<1> QED BY <1>2, FrameType DEF TypeOK, StartTrip, NoFlag, Goto

LEMMA BudgetThereType == ASSUME TypeOK, NEW w \in Workers, BudgetThere(w) PROVE TypeOK'
<1>1. step[w] # "idle" BY DEF BudgetThere, Goto, TurnSteps
<1>2. TaskType'
  BY <1>1 DEF TypeOK, TaskType, TaskSteps, TurnSteps, OutsideType, BudgetThere, Goto
<1> QED BY <1>2, FrameType DEF TypeOK, BudgetThere, Goto

LEMMA BudgetSupersededType == ASSUME TypeOK, NEW w \in Workers, BudgetSuperseded(w) PROVE TypeOK'
<1>1. step[w] # "idle" BY DEF BudgetSuperseded, FlagTrip, Goto, TurnSteps
<1>2. /\ trips' \in [Workers -> 0..MaxTrips]
      /\ step' \in {[step EXCEPT ![w] = "top"], [step EXCEPT ![w] = "release"]}
      /\ ended' \in [Workers -> {"no", "done", "superseded", "failed"}]
      /\ UNCHANGED <<on, seen, called>>
  BY <1>1, FlagTripType DEF BudgetSuperseded
<1>3. TaskType' BY <1>1, <1>2 DEF TypeOK, TaskType, TaskSteps, TurnSteps
<1>4. FateType' BY <1>1, FlagTripType DEF TypeOK, FateType, BudgetSuperseded
<1> QED BY <1>3, <1>4, FrameType DEF TypeOK, BudgetSuperseded, FlagTrip, Goto

LEMMA BudgetExhaustedType == ASSUME TypeOK, NEW w \in Workers, BudgetExhausted(w) PROVE TypeOK'
<1>1. step[w] # "idle" BY DEF BudgetExhausted, Conclude, Settle, Goto, TurnSteps
<1>2. TaskType'
  BY <1>1
  DEF TypeOK, TaskType, TaskSteps, TurnSteps, OutsideType, BudgetExhausted, Conclude, Settle, Goto
<1>3. settled' \subseteq Messages
  BY <1>1, SettleType DEF TypeOK, TaskType, BudgetExhausted, Conclude
<1>4. FateType' BY <1>3 DEF TypeOK, FateType, BudgetExhausted, Conclude, Settle, Goto
<1> QED BY <1>2, <1>4, FrameType DEF TypeOK, BudgetExhausted, Conclude, Settle, Goto

LEMMA SupersededInCallType == ASSUME TypeOK, NEW w \in Workers, SupersededInCall(w) PROVE TypeOK'
<1>1. step[w] # "idle" BY DEF SupersededInCall, GiveWay, TakeFlag, Goto, TurnSteps
<1>2. TaskType'
  BY <1>1
  DEF TypeOK, TaskType, TaskSteps, TurnSteps, OutsideType, SupersededInCall, GiveWay, TakeFlag,
     Goto
<1>3. MutexType' BY <1>1 DEF TypeOK, MutexType, SupersededInCall, GiveWay, TakeFlag, Goto
<1>4. displaced' \subseteq Messages
  BY <1>1, MessageType, DisplacedType DEF SupersededInCall, GiveWay
<1>5. lost' \subseteq Messages BY LeftType DEF SupersededInCall, GiveWay
<1>6. FateType' BY <1>4, <1>5 DEF TypeOK, FateType, SupersededInCall, GiveWay, TakeFlag, Goto
<1> QED BY <1>2, <1>3, <1>6, FrameType DEF TypeOK, SupersededInCall, GiveWay, TakeFlag, Goto

LEMMA AnswerEndsTurnType == ASSUME TypeOK, NEW w \in Workers, AnswerEndsTurn(w) PROVE TypeOK'
<1>1. step[w] # "idle" BY DEF AnswerEndsTurn, Conclude, Settle, Goto, TurnSteps
<1>2. TaskType'
  BY <1>1
  DEF TypeOK, TaskType, TaskSteps, TurnSteps, OutsideType, AnswerEndsTurn, Conclude, Settle, Goto
<1>3. settled' \subseteq Messages
  BY <1>1, SettleType DEF TypeOK, TaskType, AnswerEndsTurn, Conclude
<1>4. FateType' BY <1>3 DEF TypeOK, FateType, AnswerEndsTurn, Conclude, Settle, Goto
<1> QED BY <1>2, <1>4, FrameType DEF TypeOK, AnswerEndsTurn, Conclude, Settle, Goto

LEMMA AnswerRunsToolType == ASSUME TypeOK, NEW w \in Workers, AnswerRunsTool(w) PROVE TypeOK'
<1>1. step[w] # "idle" BY DEF AnswerRunsTool, NextTrip, Goto, TurnSteps
<1>2. TaskType'
  BY <1>1
  DEF TypeOK, TaskType, TaskSteps, TurnSteps, OutsideType, AnswerRunsTool, NextTrip, Goto
<1> QED BY <1>2, FrameType DEF TypeOK, AnswerRunsTool, NextTrip, Goto

LEMMA AnswerIsDroppedType == ASSUME TypeOK, NEW w \in Workers, AnswerIsDropped(w) PROVE TypeOK'
<1>1. step[w] # "idle" BY DEF AnswerIsDropped, Goto, TurnSteps
<1>2. TaskType'
  BY <1>1
  DEF TypeOK, TaskType, TaskSteps, TurnSteps, OutsideType, AnswerIsDropped, Goto
<1>3. 1..seen[w] \subseteq Messages BY MessageSets DEF TypeOK, TaskType
<1>4. FateType' BY <1>3 DEF TypeOK, FateType, AnswerIsDropped
<1> QED BY <1>2, <1>4, FrameType DEF TypeOK, AnswerIsDropped, Goto

LEMMA AnswerSendsType == ASSUME TypeOK, NEW w \in Workers, AnswerSends(w) PROVE TypeOK'
<1>1. step[w] # "idle" BY DEF AnswerSends, Goto, TurnSteps
<1>2. TaskType'
  BY <1>1 DEF TypeOK, TaskType, TaskSteps, TurnSteps, OutsideType, AnswerSends, Goto
<1> QED BY <1>2, FrameType DEF TypeOK, AnswerSends, Goto

LEMMA GiveWayBeforeSendType == ASSUME TypeOK, NEW w \in Workers, GiveWayBeforeSend(w) PROVE TypeOK'
<1>1. step[w] # "idle" BY DEF GiveWayBeforeSend, GiveWay, TakeFlag, Goto, TurnSteps
<1>2. TaskType'
  BY <1>1
  DEF TypeOK, TaskType, TaskSteps, TurnSteps, OutsideType, GiveWayBeforeSend, GiveWay, TakeFlag,
     Goto
<1>3. MutexType' BY <1>1 DEF TypeOK, MutexType, GiveWayBeforeSend, GiveWay, TakeFlag, Goto
<1>4. displaced' \subseteq Messages
  BY <1>1, MessageType, DisplacedType DEF GiveWayBeforeSend, GiveWay
<1>5. lost' \subseteq Messages BY LeftType DEF GiveWayBeforeSend, GiveWay
<1>6. FateType' BY <1>4, <1>5 DEF TypeOK, FateType, GiveWayBeforeSend, GiveWay, TakeFlag, Goto
<1> QED
  BY <1>2, <1>3, <1>6, FrameType DEF TypeOK, GiveWayBeforeSend, GiveWay, TakeFlag, Goto

LEMMA PassCheckType == ASSUME TypeOK, NEW w \in Workers, PassCheck(w) PROVE TypeOK'
<1>1. step[w] # "idle" BY DEF PassCheck, NoFlag, Goto, TurnSteps
<1>2. TaskType'
  BY <1>1 DEF TypeOK, TaskType, TaskSteps, TurnSteps, OutsideType, PassCheck, NoFlag, Goto
<1> QED BY <1>2, FrameType DEF TypeOK, PassCheck, NoFlag, Goto

LEMMA SendType == ASSUME TypeOK, NEW w \in Workers, Send(w) PROVE TypeOK'
<1>1. step[w] # "idle" BY DEF Send, Settle, NextTrip, Goto, TurnSteps
<1>2. TaskType'
  BY <1>1
  DEF TypeOK, TaskType, TaskSteps, TurnSteps, OutsideType, Send, Settle, NextTrip, Goto
<1>3. settled' \subseteq Messages BY <1>1, SettleType DEF TypeOK, TaskType, Send
<1>4. FateType' BY <1>3 DEF TypeOK, FateType, Send, Settle, NextTrip, Goto
<1> QED BY <1>2, <1>4, FrameType DEF TypeOK, Send, Settle, NextTrip, Goto

LEMMA RearmType == ASSUME TypeOK, NEW w \in Workers, Rearm(w) PROVE TypeOK'
<1>1. step[w] # "idle" BY DEF Rearm, Goto, TurnSteps
<1>2. TaskType' BY <1>1 DEF TypeOK, TaskType, TaskSteps, TurnSteps, OutsideType, Rearm, Goto
<1>3. DebounceType' BY <1>1 DEF TypeOK, DebounceType, Rearm, Goto
<1> QED BY <1>2, <1>3, FrameType DEF TypeOK, Rearm, Goto

LEMMA TimeOutType == ASSUME TypeOK, NEW w \in Workers, TimeOut(w) PROVE TypeOK'
<1>1. step[w] # "idle" BY DEF TimeOut, Settle, Goto, TurnSteps
<1>2. TaskType'
  BY <1>1 DEF TypeOK, TaskType, TaskSteps, TurnSteps, OutsideType, TimeOut, Settle, Goto
<1>3. settled' \subseteq Messages
  <2>1. seen[w] \in 0..MaxMessages BY DEF TypeOK, TaskType
  <2>2. (IF seen[w] > Message(w) THEN seen[w] ELSE Message(w)) \in 0..MaxMessages
      BY <2>1, <1>1, MessageType
  <2> QED BY <1>1, <2>2, SettleType DEF TimeOut
<1>4. FateType' BY <1>3 DEF TypeOK, FateType, TimeOut, Settle, Goto
<1> QED BY <1>2, <1>4, FrameType DEF TypeOK, TimeOut, Settle, Goto

LEMMA StartTurnType == ASSUME TypeOK, NEW w \in Workers, StartTurn(w) PROVE TypeOK'
<1>1. step[w] # "idle" BY DEF StartTurn, Goto, TurnSteps
<1>2. TaskType'
  BY <1>1 DEF TypeOK, TaskType, TaskSteps, TurnSteps, OutsideType, StartTurn, Goto
<1>3. MutexType' BY <1>1 DEF TypeOK, MutexType, StartTurn, Goto
<1> QED BY <1>2, <1>3, FrameType DEF TypeOK, StartTurn, Goto

LEMMA TakeType == ASSUME TypeOK, NEW w \in Workers, NEW s \in Slots, Take(w, s) PROVE TypeOK'
<1>1. OutsideType' BY DEF TypeOK, OutsideType, Take, Fault
<1>2. StreamType' BY DEF TypeOK, StreamType, Take
<1>3. TaskType' BY DEF TypeOK, TaskType, TaskSteps, TurnSteps, Take, Goto
<1> QED BY <1>1, <1>2, <1>3, FrameType DEF TypeOK, Take

LEMMA SkipEntryType == ASSUME TypeOK, NEW w \in Workers, SkipEntry(w) PROVE TypeOK'
<1>1. OutsideType' BY DEF TypeOK, OutsideType, SkipEntry, Fault
<1>2. TaskType' BY DEF TypeOK, TaskType, TaskSteps, TurnSteps, SkipEntry, Goto
<1>3. {Message(w)} \ {None} \subseteq Messages BY MessageType, MessageSets DEF SkipEntry
<1>4. FateType' BY <1>3 DEF TypeOK, FateType, SkipEntry
<1> QED BY <1>1, <1>2, <1>4, FrameType DEF TypeOK, SkipEntry

LEMMA BusyArmFailsType == ASSUME TypeOK, NEW w \in Workers, BusyArmFails(w) PROVE TypeOK'
<1>1. OutsideType' BY DEF TypeOK, OutsideType, BusyArmFails, Fault
<1>2. TaskType' BY DEF TypeOK, TaskType, TaskSteps, TurnSteps, BusyArmFails, Goto
<1>3. 1..arrived \subseteq Messages BY DEF TypeOK, OutsideType
<1>4. FateType' BY <1>3 DEF TypeOK, FateType, BusyArmFails
<1> QED BY <1>1, <1>2, <1>4, FrameType DEF TypeOK, BusyArmFails

\* A task that leaves its entry is idle.
LEMMA LeaveType == ASSUME TypeOK, NEW w \in Workers, Leave(w) PROVE TaskType'
BY DEF TypeOK, TaskType, TaskSteps, TurnSteps, Leave, Forget, Goto

LEMMA InstructionIsBusyType ==
    ASSUME TypeOK, NEW w \in Workers, InstructionIsBusy(w) PROVE TypeOK'
BY LeaveType, FrameType DEF TypeOK, InstructionIsBusy

LEMMA TurnFailsType == ASSUME TypeOK, NEW w \in Workers, TurnFails(w) PROVE TypeOK'
<1>1. OutsideType' BY DEF TypeOK, OutsideType, TurnFails, Fault
<1>2. TaskType' BY DEF TypeOK, TaskType, TaskSteps, TurnSteps, TurnFails, Goto
<1> QED BY <1>1, <1>2, FrameType DEF TypeOK, TurnFails

LEMMA ReleaseType == ASSUME TypeOK, NEW w \in Workers, Release(w) PROVE TypeOK'
<1>1. TaskType'
  <2>1. CASE ended[w] = "failed" BY <2>1, LeaveType DEF Release
  <2>2. CASE ended[w] # "failed"
    <3>1. step[w] = "release" /\ step' = [step EXCEPT ![w] = "ack"] /\ UNCHANGED <<on, ended>>
      BY <2>2 DEF Release, Goto
    <3>2. /\ seen' = [seen EXCEPT ![w] = 0]
          /\ called' = [called EXCEPT ![w] = FALSE]
          /\ trips' = [trips EXCEPT ![w] = 0]
      BY <2>2 DEF Release, Forget
    <3> QED BY <3>1, <3>2 DEF TypeOK, TaskType, TaskSteps
  <2> QED BY <2>1, <2>2
<1>2. MutexType' BY DEF TypeOK, MutexType, Release
<1> QED BY <1>1, <1>2, FrameType DEF TypeOK, Release

LEMMA AckType == ASSUME TypeOK, NEW w \in Workers, Ack(w) PROVE TypeOK'
<1>1. entry' \in [Slots -> {"free", "queued", "pending"}]
  BY DEF TypeOK, StreamType, Ack
<1>2. about' \in {about, [about EXCEPT ![on[w]] = None]}
  BY DEF Ack
<1>3. StreamType' BY <1>1, <1>2, SMTT(30) DEF TypeOK, StreamType
<1>4. TaskType' /\ faults' = faults BY LeaveType DEF TypeOK, Ack
<1> QED BY <1>3, <1>4, FrameType DEF TypeOK, Ack

LEMMA CrashType ==
    ASSUME TypeOK, NEW W \in SUBSET Workers, NEW P \in SUBSET Pollers, Crash(W, P)
    PROVE TypeOK'
<1>1. OutsideType' BY DEF TypeOK, OutsideType, Crash, Fault
<1>2. MutexType' BY DEF TypeOK, MutexType, Crash
<1>3. PollType' BY DEF TypeOK, PollType, Crash
<1>4. TaskType'
  <2>1. /\ step' \in [Workers -> TaskSteps] /\ on' \in [Workers -> 0..MaxEntries]
        /\ \A w \in Workers : step'[w] = "idle" <=> on'[w] = 0
    <3>1. /\ step' = [w \in Workers |-> IF w \in W THEN "idle" ELSE step[w]]
          /\ on' = [w \in Workers |-> IF w \in W THEN 0 ELSE on[w]]
      BY DEF Crash
    <3>2. step' \in [Workers -> TaskSteps] BY <3>1 DEF TypeOK, TaskType, TaskSteps
    <3>3. on' \in [Workers -> 0..MaxEntries] BY <3>1 DEF TypeOK, TaskType
    <3>4. \A w \in Workers : step'[w] = "idle" <=> on'[w] = 0
      <4> TAKE w \in Workers
      <4>1. CASE w \in W BY <3>1, <4>1
      <4>2. CASE w \notin W BY <3>1, <4>2 DEF TypeOK, TaskType
      <4> QED BY <4>1, <4>2
    <3> QED BY <3>2, <3>3, <3>4
  <2>2. seen' \in [Workers -> 0..MaxMessages]
    BY DEF TypeOK, TaskType, Crash
  <2>5. called' \in [Workers -> BOOLEAN]
    <3>1. called \in [Workers -> BOOLEAN] BY DEF TypeOK, TaskType
    <3>2. called' = [w \in Workers |-> IF w \in W THEN FALSE ELSE called[w]] BY DEF Crash
    <3> QED BY <3>1, <3>2
  <2>3. trips' \in [Workers -> 0..MaxTrips] BY DEF TypeOK, TaskType, Crash
  <2>4. ended' \in [Workers -> {"no", "done", "superseded", "failed"}]
    BY DEF TypeOK, TaskType, Crash
  <2> QED BY <2>1, <2>2, <2>3, <2>4, <2>5 DEF TaskType
<1>5. 1..arrived \subseteq Messages BY DEF TypeOK, OutsideType
<1>6. FateType' BY <1>5 DEF TypeOK, FateType, Crash
<1> QED BY <1>1, <1>2, <1>3, <1>4, <1>6, FrameType DEF TypeOK, Crash

LEMMA TaskStepType == ASSUME TypeOK, NEW w \in Workers, TaskStep(w) PROVE TypeOK'
BY TakeType, SkipEntryType, StartTurnType, MessageIsBusyType, InstructionIsBusyType,
   BusyMarkType, BusyStashType, BusyArmType, BusyArmFailsType, GateAnswersType, GateApprovesType,
   MergeType, GiveWayBeforeCallType, StartTripType, BudgetThereType, BudgetSupersededType,
   BudgetExhaustedType, SupersededInCallType, AnswerEndsTurnType, AnswerRunsToolType,
   AnswerIsDroppedType, AnswerSendsType, GiveWayBeforeSendType, PassCheckType, SendType,
   RearmType, TimeOutType, TurnFailsType, ReleaseType, AckType
   DEF TaskStep

\* The messages, the stream and what has expired.
LEMMA ArriveType == ASSUME TypeOK, Arrive PROVE TypeOK'
<1>1. OutsideType' BY DEF TypeOK, OutsideType, Arrive
<1> QED BY <1>1, FrameType DEF TypeOK, Arrive

LEMMA InstructionFiresType == ASSUME TypeOK, InstructionFires PROVE TypeOK'
<1>1. OutsideType' BY DEF TypeOK, OutsideType, InstructionFires
<1>2. StreamType' BY AddEntryType DEF TypeOK, InstructionFires
<1> QED BY <1>1, <1>2, FrameType DEF TypeOK, InstructionFires

LEMMA ExpiryType == ASSUME TypeOK, LockExpires \/ FlagExpires PROVE TypeOK'
<1>1. MutexType' BY DEF TypeOK, MutexType, LockExpires, FlagExpires
<1> QED BY <1>1, FrameType DEF TypeOK, LockExpires, FlagExpires

LEMMA StashExpiresType == ASSUME TypeOK, StashExpires PROVE TypeOK'
<1>1. OutsideType' BY DEF TypeOK, OutsideType, StashExpires, Fault
<1>2. DebounceType' BY DEF TypeOK, DebounceType, StashExpires
<1>3. stash \in Messages BY MessageSets DEF TypeOK, DebounceType, StashExpires
<1>4. FateType' BY <1>3 DEF TypeOK, FateType, StashExpires
<1> QED BY <1>1, <1>2, <1>4, FrameType DEF TypeOK, StashExpires

\* The initial states are well typed, and every step of the system is.
LEMMA TypeInit == ASSUME Init PROVE TypeOK
<1>1. OutsideType BY DEF Init, OutsideType
<1>2. DebounceType /\ FateType
  <2>1. stash \in 0..MaxMessages BY DEF Init
  <2>2. due \in BOOLEAN BY Zenon DEF Init
  <2>3. FateType BY DEF Init, FateType
  <2> QED BY <2>1, <2>2, <2>3 DEF DebounceType
<1>3. MutexType
  <2>1. lock \in Workers \cup {Nobody, Orphan} /\ marked \in 0..MaxMessages BY DEF Init
  <2>2. flag \in BOOLEAN BY Zenon DEF Init
  <2> QED BY <2>1, <2>2 DEF MutexType
<1>4. PollType /\ StreamType BY DEF Init, PollType, StreamType
<1>5. TaskType BY DEF Init, TaskType, TaskSteps
<1> QED BY <1>1, <1>2, <1>3, <1>4, <1>5 DEF TypeOK

LEMMA TypeKept == ASSUME TypeOK, [Next]_vars PROVE TypeOK'
<1>1. CASE Next
  BY <1>1, ArriveType, InstructionFiresType, EngineType, PollStepType, TaskStepType,
     ExpiryType, StashExpiresType, CrashType DEF Next
<1>2. CASE UNCHANGED vars BY <1>2, FrameType DEF TypeOK, vars
<1> QED BY <1>1, <1>2

\* Every state of every instance is well typed: a task off its entry holds
\* none, round trips stay within their number, and what is settled, displaced or lost
\* are messages.
THEOREM TypeCorrect == Spec => []TypeOK
BY TypeInit, TypeKept, PTL DEF Spec

-----------------------------------------------------------------------------
\* Whoever is in a turn holds the lock: the inductive form of OneTurn.
TurnHoldsLock == \A w \in Workers : InTurn(w) => lock = w

LEMMA TaskStepKeepsLock ==
    ASSUME TypeOK, TurnHoldsLock, NEW w \in Workers, TaskStep(w)
    PROVE TurnHoldsLock'
<1> USE DEF TurnHoldsLock, InTurn, TurnSteps, TaskSteps
<1>0. lock \in Workers \cup {Nobody, Orphan} /\ step \in [Workers -> TaskSteps]
  BY DEF TypeOK, MutexType, TaskType
<1>1. CASE StartTurn(w)
  \* The lock was free, so nobody was in a turn.
  <2>1. \A v \in Workers : ~InTurn(v) BY <1>1 DEF StartTurn
  <2>2. lock' = w /\ \A v \in Workers \ {w} : step'[v] = step[v]
    BY <1>0, <1>1 DEF StartTurn, Goto
  <2> QED BY <2>1, <2>2
<1>2. CASE Release(w)
  \* Only the holder's release frees the lock, and the holder leaves its turn.
  <2>1. step'[w] \in {"idle", "ack"} /\ \A v \in Workers \ {w} : step'[v] = step[v]
    BY <1>0, <1>2 DEF Release, Leave, Goto
  <2>2. lock # w => lock' = lock BY <1>2 DEF Release
  <2> QED BY <2>1, <2>2
<1>3. CASE ~StartTurn(w) /\ ~Release(w)
  \* All others leave the lock alone and start no turn.
  <2>1. lock' = lock /\ (\A v \in Workers \ {w} : step'[v] = step[v])
    BY <1>0, <1>3 DEF TaskStep, Take, SkipEntry, MessageIsBusy, InstructionIsBusy, BusyMark,
       BusyStash,
       BusyArm, BusyArmFails, GateAnswers, GateApproves, Merge, GiveWayBeforeCall, StartTrip,
       BudgetThere,
       BudgetSuperseded, BudgetExhausted, SupersededInCall, AnswerEndsTurn, AnswerRunsTool,
       AnswerIsDropped, AnswerSends, GiveWayBeforeSend, PassCheck, Send, Rearm, TimeOut,
       TurnFails, Ack, Leave, Goto, Mark, TakeFlag, NoFlag, Conclude, GiveWay, FlagTrip, NextTrip,
       LoopRunsOut
  <2>2. InTurn(w)' => InTurn(w)
    BY <1>0, <1>3 DEF TaskStep, Take, SkipEntry, MessageIsBusy, InstructionIsBusy, BusyMark,
       BusyStash,
       BusyArm, BusyArmFails, GateAnswers, GateApproves, Merge, GiveWayBeforeCall, StartTrip,
       BudgetThere,
       BudgetSuperseded, BudgetExhausted, SupersededInCall, AnswerEndsTurn, AnswerRunsTool,
       AnswerIsDropped, AnswerSends, GiveWayBeforeSend, PassCheck, Send, Rearm, TimeOut,
       TurnFails, Ack, Leave, Goto
  <2> QED BY <2>1, <2>2
<1> QED BY <1>1, <1>2, <1>3

LEMMA TurnHoldsLockKept ==
    ASSUME TypeOK, TurnHoldsLock, [Next]_vars
    PROVE TurnHoldsLock'
<1> USE DEF TurnHoldsLock, InTurn, TurnSteps
<1>1. ASSUME NEW w \in Workers, TaskStep(w) PROVE TurnHoldsLock'
  BY <1>1, TaskStepKeepsLock
<1>2. CASE Arrive \/ InstructionFires \/ FlagExpires \/ StashExpires
  BY <1>2 DEF Arrive, InstructionFires, FlagExpires, StashExpires
<1>3. ASSUME NEW m \in Messages, EngineStep(m) \/ ArmFails(m) \/ EngineDies(m)
      PROVE TurnHoldsLock'
  BY <1>3 DEF EngineStep, EngineCheck, EngineMark, EngineStash, EngineArm, EngineAt, Mark,
     ArmFails, EngineDies
<1>4. ASSUME NEW p \in Pollers, PollStep(p) PROVE TurnHoldsLock'
  BY <1>4 DEF PollStep, PollSee, PollRemove, PollGet, PollDelete, PollAdd, PollAt
<1>5. CASE LockExpires
  \* The lock of a dead task, or of one that hangs after its turn.
  <2>1. \A w \in Workers : ~InTurn(w) BY <1>5 DEF LockExpires
  <2> QED BY <1>5, <2>1 DEF LockExpires
<1>6. ASSUME NEW W \in SUBSET Workers, NEW P \in SUBSET Pollers, Crash(W, P)
      PROVE TurnHoldsLock'
  BY <1>6 DEF Crash, TypeOK, TaskType
<1>7. CASE UNCHANGED vars BY <1>7 DEF vars
<1> QED BY <1>1, <1>2, <1>3, <1>4, <1>5, <1>6, <1>7 DEF Next

\* At most one turn runs for an agent and a chat, for any number of tasks and
\* faults.
THEOREM OneTurnHolds == Spec => []OneTurn
<1>1. Init => TurnHoldsLock
  BY DEF Init, TurnHoldsLock, InTurn, TurnSteps
<1>2. TypeOK /\ TurnHoldsLock /\ [Next]_vars => TurnHoldsLock'
  BY TurnHoldsLockKept
<1>3. TurnHoldsLock => OneTurn BY DEF TurnHoldsLock, OneTurn
<1> QED BY <1>1, <1>2, <1>3, TypeCorrect, PTL DEF Spec

-----------------------------------------------------------------------------
\* The steps of a task within a turn, and its steps before and after.
TurnStep(w) ==
    \/ GateAnswers(w) \/ GateApproves(w)
    \/ Merge(w) \/ GiveWayBeforeCall(w) \/ StartTrip(w)
    \/ BudgetThere(w) \/ BudgetSuperseded(w) \/ BudgetExhausted(w)
    \/ SupersededInCall(w) \/ AnswerEndsTurn(w) \/ AnswerRunsTool(w) \/ AnswerIsDropped(w)
    \/ AnswerSends(w)
    \/ GiveWayBeforeSend(w) \/ PassCheck(w) \/ Send(w) \/ Rearm(w)
    \/ TimeOut(w) \/ TurnFails(w)

EntryStep(w) ==
    \/ \E s \in Slots : Take(w, s)
    \/ SkipEntry(w) \/ StartTurn(w) \/ MessageIsBusy(w) \/ InstructionIsBusy(w)
    \/ BusyMark(w) \/ BusyStash(w) \/ BusyArm(w) \/ BusyArmFails(w) \/ Release(w) \/ Ack(w)

LEMMA TaskStepSplit == ASSUME NEW w \in Workers PROVE TaskStep(w) <=> TurnStep(w) \/ EntryStep(w)
BY DEF TaskStep, TurnStep, EntryStep

\* What a turn leaves alone, and where it may go.
LEMMA TurnFrameHolds ==
    ASSUME TypeOK, NEW w \in Workers, TurnStep(w)
    PROVE /\ InTurn(w)
          /\ UNCHANGED <<arrived, engine, stash, pollVars, stream, on, lock, marked>>
          /\ due => due'
          /\ \A v \in Workers \ {w} : /\ step'[v] = step[v] /\ ended'[v] = ended[v]
                                      /\ seen'[v] = seen[v] /\ called'[v] = called[v]
          /\ step'[w] \in (TurnSteps \ {"gate"}) \cup {"release"}
          /\ seen'[w] \in {seen[w], arrived}
          /\ settled \subseteq settled' /\ displaced \subseteq displaced' /\ lost \subseteq lost'
<1> USE DEF TurnStep, GateAnswers, GateApproves, Merge, GiveWayBeforeCall, StartTrip, BudgetThere,
       BudgetSuperseded, BudgetExhausted, SupersededInCall, AnswerEndsTurn, AnswerRunsTool,
       AnswerIsDropped, AnswerSends, GiveWayBeforeSend, PassCheck, Send, Rearm, TimeOut,
       TurnFails, Goto, TakeFlag, NoFlag, Conclude, GiveWay, FlagTrip, NextTrip, LoopRunsOut
<1>0. /\ step \in [Workers -> TaskSteps]
      /\ ended \in [Workers -> {"no", "done", "superseded", "failed"}]
      /\ seen \in [Workers -> 0..MaxMessages] /\ called \in [Workers -> BOOLEAN]
  BY DEF TypeOK, TaskType
<1>1. InTurn(w) BY DEF InTurn, TurnSteps
<1>2. UNCHANGED <<arrived, engine, stash, pollVars, stream, on, lock, marked>>
  OBVIOUS
<1>3. due => due'
  OBVIOUS
<1>4. \A v \in Workers \ {w} : step'[v] = step[v] /\ ended'[v] = ended[v]
  BY <1>0
<1>5. \A v \in Workers \ {w} : seen'[v] = seen[v] /\ called'[v] = called[v]
  BY <1>0
<1>6. step'[w] \in (TurnSteps \ {"gate"}) \cup {"release"}
  BY <1>0 DEF TurnSteps
<1>7. seen'[w] \in {seen[w], arrived}
  BY <1>0
<1>8. settled \subseteq settled' /\ displaced \subseteq displaced' /\ lost \subseteq lost'
  BY DEF Settle, LeaveTo
<1> QED BY <1>1, <1>2, <1>3, <1>4, <1>5, <1>6, <1>7, <1>8
-----------------------------------------------------------------------------
\* Nothing is about a message that has not arrived; a poll loop has a message
\* exactly between its GET and its XADD, and a busy task always has one.
Bounded ==
    /\ \A m \in Messages : engine[m] # "none" => m <= arrived
    /\ stash <= arrived /\ marked <= arrived
    /\ \A p \in Pollers : popped[p] <= arrived
    /\ \A s \in Slots : about[s] <= arrived
    /\ \A w \in Workers : seen[w] <= arrived

BusySteps == {"busyMark", "busyStash", "busyArm"}

InHand ==
    /\ \A p \in Pollers : polling[p] \in {"delete", "add"} <=> popped[p] # None
    /\ \A w \in Workers : step[w] \in BusySteps => Message(w) # None

\* A slot that XADD takes is free, and no task is on it.
LEMMA AddedSlot ==
    ASSUME NEW m, AddEntry(m)
    PROVE \E s \in Slots : /\ entry[s] = "free" /\ \A w \in Workers : on[w] # s
                           /\ entry' = [entry EXCEPT ![s] = "queued"]
                           /\ about' = [about EXCEPT ![s] = m]
<1> DEFINE s == CHOOSE t \in FreeSlots : TRUE
<1>1. FreeSlots # {} /\ entry' = [entry EXCEPT ![s] = "queued"] /\ about' = [about EXCEPT ![s] = m]
  BY DEF AddEntry
<1>2. s \in FreeSlots BY <1>1
<1> HIDE DEF s
<1> QED BY <1>1, <1>2 DEF FreeSlots, InUse

\* An XADD leaves the entries that tasks are on alone.
LEMMA AddedApart ==
    ASSUME TypeOK, NEW m, AddEntry(m), NEW w \in Workers
    PROVE about'[on[w]] = about[on[w]] /\ entry'[on[w]] = entry[on[w]]
<1>1. PICK s \in Slots : /\ \A v \in Workers : on[v] # s
                         /\ entry' = [entry EXCEPT ![s] = "queued"]
                         /\ about' = [about EXCEPT ![s] = m]
  BY AddedSlot
<1>2. on[w] # s BY <1>1
<1> QED BY <1>1, <1>2 DEF TypeOK, StreamType

\* What the steps of a task outside its turn leave alone.
LEMMA EntryFrameHolds ==
    ASSUME TypeOK, NEW w \in Workers, EntryStep(w)
    PROVE /\ ~InTurn(w)
          /\ UNCHANGED <<outside, engine, pollVars>>
          /\ due => due'
          /\ \A v \in Workers \ {w} : /\ step'[v] = step[v] /\ ended'[v] = ended[v]
                                      /\ seen'[v] = seen[v] /\ called'[v] = called[v]
                                      /\ on'[v] = on[v]
          /\ seen'[w] \in {seen[w], 0, arrived}
          /\ settled \subseteq settled' /\ displaced \subseteq displaced'
          /\ BusyArmFails(w) \/ lost \subseteq lost'
<1> USE DEF EntryStep, Take, SkipEntry, StartTurn, MessageIsBusy, InstructionIsBusy, BusyMark,
   BusyStash,
       BusyArm, BusyArmFails, Release, Ack, Leave, Forget, Goto
<1>0. /\ step \in [Workers -> TaskSteps]
      /\ ended \in [Workers -> {"no", "done", "superseded", "failed"}]
      /\ seen \in [Workers -> 0..MaxMessages] /\ called \in [Workers -> BOOLEAN]
      /\ on \in [Workers -> 0..MaxEntries]
  BY DEF TypeOK, TaskType
<1>1. ~InTurn(w) BY DEF InTurn, TurnSteps
<1>2. UNCHANGED <<outside, engine, pollVars>>
  OBVIOUS
<1>3. due => due'
  OBVIOUS
<1>4. \A v \in Workers \ {w} : step'[v] = step[v] /\ ended'[v] = ended[v]
  BY <1>0
<1>5. \A v \in Workers \ {w} : seen'[v] = seen[v] /\ called'[v] = called[v]
  BY <1>0
<1>6. \A v \in Workers \ {w} : on'[v] = on[v]
  BY <1>0
<1>7. seen'[w] \in {seen[w], 0, arrived}
  BY <1>0
<1>8. /\ settled \subseteq settled' /\ displaced \subseteq displaced'
      /\ BusyArmFails(w) \/ lost \subseteq lost'
  OBVIOUS
<1> QED BY <1>1, <1>2, <1>3, <1>4, <1>5, <1>6, <1>7, <1>8

\* No step forgets a message that has arrived.
LEMMA ArrivedGrows ==
    ASSUME TypeOK, [Next]_vars
    PROVE arrived \in Nat /\ arrived' \in Nat /\ arrived <= arrived'
<1>0. arrived \in Nat BY DEF TypeOK, OutsideType
<1>1. CASE arrived' = arrived BY <1>0, <1>1
<1>2. CASE Arrive BY <1>0, <1>2 DEF Arrive
<1>3. ASSUME NEW w \in Workers, TaskStep(w) PROVE arrived' = arrived
  BY <1>3, TaskStepSplit, TurnFrameHolds, EntryFrameHolds
<1>4. ASSUME [Next]_vars, ~Arrive, ~\E w \in Workers : TaskStep(w) PROVE arrived' = arrived
  BY <1>4 DEF Next, InstructionFires, EngineStep, EngineCheck, EngineMark,
     EngineStash, EngineArm, EngineAt, ArmFails, EngineDies, PollStep, PollSee, PollRemove, PollGet,
     PollDelete, PollAdd, PollAt, LockExpires, FlagExpires, StashExpires, Crash, vars
<1> QED BY <1>1, <1>2, <1>3, <1>4

\* An evaluation, a poll loop and a task stay within what has arrived.
LEMMA EngineBounded ==
    ASSUME TypeOK, Bounded, NEW m \in Messages, EngineStep(m) \/ ArmFails(m) \/ EngineDies(m)
    PROVE Bounded'
<1>0. m <= arrived
  BY DEF Bounded, EngineStep, EngineCheck, EngineMark, EngineStash, EngineArm, EngineAt, ArmFails,
     EngineDies
<1>1. /\ \A n \in Messages : n # m => engine'[n] = engine[n]
      /\ stash' \in {stash, m} /\ marked' \in {marked, m}
      /\ UNCHANGED <<arrived, popped, about, seen>>
  BY DEF TypeOK, OutsideType, EngineStep, EngineCheck, EngineMark, EngineStash, EngineArm,
     EngineAt,
     ArmFails, EngineDies, Mark, Stash
<1> QED BY <1>0, <1>1 DEF Bounded

LEMMA PollBounded ==
    ASSUME TypeOK, Bounded, NEW p \in Pollers, PollStep(p)
    PROVE Bounded'
<1>0. 0 <= arrived BY DEF TypeOK, OutsideType
<1>1. CASE PollAdd(p)
  <2>1. PICK s \in Slots : about' = [about EXCEPT ![s] = popped[p]]
    BY <1>1, AddedSlot DEF PollAdd
  <2>2. /\ UNCHANGED <<arrived, engine, stash, marked, seen>>
        /\ popped' = [popped EXCEPT ![p] = None]
    BY <1>1 DEF PollAdd, PollAt
  <2>3. \A t \in Slots : about'[t] <= arrived BY <2>1 DEF Bounded, TypeOK, StreamType
  <2>4. \A q \in Pollers : popped'[q] <= arrived
    BY <1>0, <2>2 DEF Bounded, TypeOK, PollType
  <2> QED BY <2>2, <2>3, <2>4 DEF Bounded
<1>2. CASE ~PollAdd(p)
  <2>1. /\ UNCHANGED <<arrived, engine, marked, about, seen>>
        /\ stash' \in {stash, None} /\ popped' \in {popped, [popped EXCEPT ![p] = stash]}
    BY <1>2 DEF PollStep, PollSee, PollRemove, PollGet, PollDelete, PollAt
  <2>2. \A q \in Pollers : popped'[q] <= arrived
    BY <2>1 DEF Bounded, TypeOK, PollType
  <2> QED BY <1>0, <2>1, <2>2 DEF Bounded
<1> QED BY <1>1, <1>2

LEMMA TaskBounded ==
    ASSUME TypeOK, Bounded, NEW w \in Workers, TaskStep(w)
    PROVE Bounded'
<1>0. arrived \in Nat /\ seen \in [Workers -> 0..MaxMessages] BY DEF TypeOK, OutsideType, TaskType
<1>1. CASE TurnStep(w)
  BY <1>0, <1>1, TurnFrameHolds DEF Bounded
<1>2. CASE EntryStep(w)
  <2>1. /\ UNCHANGED <<arrived, engine, popped>>
        /\ \A v \in Workers : seen'[v] \in {seen[v], 0, arrived}
    BY <1>2, EntryFrameHolds
  <2>2. /\ stash' \in {stash, Message(w)} /\ marked' \in {marked, Message(w), None}
        /\ about' \in {about, [about EXCEPT ![on[w]] = None]}
    BY <1>2 DEF EntryStep, Take, SkipEntry, StartTurn, MessageIsBusy, InstructionIsBusy, BusyMark,
       BusyStash, BusyArm, BusyArmFails, Release, Ack, Mark
  <2>3. CASE step[w] = "idle"
    <3>1. UNCHANGED <<stash, marked, about>>
      BY <1>2, <2>3 DEF EntryStep, Take, SkipEntry, StartTurn, MessageIsBusy, InstructionIsBusy,
         BusyMark, BusyStash, BusyArm, BusyArmFails, Release, Ack
    <3> QED BY <1>0, <2>1, <3>1 DEF Bounded
  <2>4. CASE step[w] # "idle"
    <3>1. Message(w) <= arrived BY <2>4, MessageType DEF Bounded, Message
    <3>2. \A s \in Slots : about'[s] <= arrived
      <4>1. \A s \in Slots : about'[s] \in {about[s], None}
        BY <2>2 DEF TypeOK, StreamType
      <4> QED BY <1>0, <4>1 DEF Bounded
    <3>3. stash' <= arrived /\ marked' <= arrived BY <1>0, <2>2, <3>1 DEF Bounded
    <3>4. \A v \in Workers : seen'[v] <= arrived BY <1>0, <2>1 DEF Bounded
    <3> QED BY <2>1, <3>2, <3>3, <3>4 DEF Bounded
  <2> QED BY <2>3, <2>4
<1> QED BY <1>1, <1>2, TaskStepSplit

LEMMA BoundedKept ==
    ASSUME TypeOK, Bounded, [Next]_vars
    PROVE Bounded'
<1>1. ASSUME NEW m \in Messages, EngineStep(m) \/ ArmFails(m) \/ EngineDies(m) PROVE Bounded'
  BY <1>1, EngineBounded
<1>2. ASSUME NEW p \in Pollers, PollStep(p) PROVE Bounded'
  BY <1>2, PollBounded
<1>3. ASSUME NEW w \in Workers, TaskStep(w) PROVE Bounded'
  BY <1>3, TaskBounded
<1>4. CASE Arrive
  BY <1>4 DEF Bounded, Arrive, TypeOK, OutsideType, DebounceType, MutexType, PollType, StreamType,
     TaskType
<1>5. CASE InstructionFires
  <2>1. PICK s \in Slots : about' = [about EXCEPT ![s] = None]
    BY <1>5, AddedSlot DEF InstructionFires
  <2>2. 0 <= arrived BY DEF TypeOK, OutsideType
  <2>3. UNCHANGED <<arrived, engine, stash, marked, popped, seen>> BY <1>5 DEF InstructionFires
  <2>4. \A t \in Slots : about'[t] <= arrived BY <2>1, <2>2 DEF Bounded, TypeOK, StreamType
  <2> QED BY <2>3, <2>4 DEF Bounded
<1>6. CASE LockExpires \/ FlagExpires \/ StashExpires \/ UNCHANGED vars
  <2>1. 0 <= arrived BY DEF TypeOK, OutsideType
  <2> QED BY <1>6, <2>1 DEF Bounded, LockExpires, FlagExpires, StashExpires, vars
<1>7. ASSUME NEW W \in SUBSET Workers, NEW P \in SUBSET Pollers, Crash(W, P) PROVE Bounded'
  <2>1. 0 <= arrived BY DEF TypeOK, OutsideType
  <2> QED BY <1>7, <2>1 DEF Bounded, Crash, TypeOK, PollType, TaskType
<1> QED BY <1>1, <1>2, <1>3, <1>4, <1>5, <1>6, <1>7 DEF Next

\* An entry stays about its message as long as a task is on it.
LEMMA AboutKept ==
    ASSUME TypeOK, NEW w \in Workers, EntryStep(w), NEW v \in Workers \ {w}, on[v] # 0
    PROVE about'[on[v]] = about[on[v]]
<1>1. CASE Ack(w)
  <2>1. about' = about \/ (about' = [about EXCEPT ![on[w]] = None] /\ on[v] # on[w])
    BY <1>1 DEF Ack
  <2> QED BY <2>1 DEF TypeOK, StreamType, TaskType
<1>2. CASE ~Ack(w)
  BY <1>2 DEF EntryStep, Take, SkipEntry, StartTurn, MessageIsBusy, InstructionIsBusy, BusyMark,
     BusyStash, BusyArm, BusyArmFails, Release
<1> QED BY <1>1, <1>2

\* A popped message is in hand, and a busy task's entry stays about its message.
LEMMA InHandKept ==
    ASSUME TypeOK, InHand, [Next]_vars
    PROVE InHand'
<1> USE DEF BusySteps
<1>1. ASSUME NEW m \in Messages, EngineStep(m) \/ ArmFails(m) \/ EngineDies(m) PROVE InHand'
  BY <1>1 DEF InHand, Message, EngineStep, EngineCheck, EngineMark, EngineStash, EngineArm,
     EngineAt,
     ArmFails, EngineDies
<1>2. ASSUME NEW p \in Pollers, PollStep(p) PROVE InHand'
  <2>1. \A q \in Pollers : polling'[q] \in {"delete", "add"} <=> popped'[q] # None
    BY <1>2 DEF InHand, TypeOK, PollType, PollStep, PollSee, PollRemove, PollGet, PollDelete,
       PollAdd,
       PollAt
  <2>2. UNCHANGED <<step, on>>
    BY <1>2 DEF PollStep, PollSee, PollRemove, PollGet, PollDelete, PollAdd, PollAt
  <2>3. \A v \in Workers : step[v] \in BusySteps => about'[on[v]] = about[on[v]]
    <3>1. CASE PollAdd(p)
      BY <3>1, AddedApart DEF PollAdd
    <3>2. CASE ~PollAdd(p)
      BY <1>2, <3>2 DEF PollStep, PollSee, PollRemove, PollGet, PollDelete
    <3> QED BY <3>1, <3>2
  <2> QED BY <2>1, <2>2, <2>3 DEF InHand, Message
<1>3. ASSUME NEW w \in Workers, TaskStep(w) PROVE InHand'
  <2>1. CASE TurnStep(w)
    BY <2>1, TurnFrameHolds DEF InHand, Message, TurnSteps
  <2>2. CASE EntryStep(w)
    <3>1. UNCHANGED <<polling, popped>> BY <2>2, EntryFrameHolds
    <3>2. \A v \in Workers \ {w} : step'[v] = step[v] /\ on'[v] = on[v] BY <2>2, EntryFrameHolds
    <3>3. \A v \in Workers \ {w} : step[v] \in BusySteps => about'[on[v]] = about[on[v]]
      BY <2>2, AboutKept DEF TypeOK, TaskType
    <3>4. step'[w] \in BusySteps => Message(w)' # None
      <4>1. step \in [Workers -> TaskSteps] BY DEF TypeOK, TaskType
      <4>2. CASE MessageIsBusy(w)
        BY <4>2 DEF MessageIsBusy, IsMessage, Message
      <4>3. CASE BusyMark(w) \/ BusyStash(w)
        BY <4>3 DEF InHand, BusyMark, BusyStash, Message
      <4>4. CASE ~(MessageIsBusy(w) \/ BusyMark(w) \/ BusyStash(w))
        <5>1. step'[w] \in {"load", "ack", "gate", "top", "idle"}
          BY <2>2, <4>1, <4>4 DEF EntryStep, Take, SkipEntry, StartTurn, InstructionIsBusy,
             BusyArm, BusyArmFails,
             Release, Ack, Goto, Leave
        <5> QED BY <5>1
      <4> QED BY <4>2, <4>3, <4>4
    <3> QED BY <3>1, <3>2, <3>3, <3>4 DEF InHand, Message
  <2> QED BY <1>3, <2>1, <2>2, TaskStepSplit
<1>4. CASE Arrive \/ LockExpires \/ FlagExpires \/ StashExpires \/ UNCHANGED vars
  BY <1>4 DEF InHand, Message, Arrive, LockExpires, FlagExpires, StashExpires, vars
<1>5. CASE InstructionFires
  BY <1>5, AddedApart DEF InstructionFires, InHand, Message
<1>6. ASSUME NEW W \in SUBSET Workers, NEW P \in SUBSET Pollers, Crash(W, P) PROVE InHand'
  BY <1>6 DEF InHand, Message, Crash, TypeOK, PollType, TaskType
<1> QED BY <1>1, <1>2, <1>3, <1>4, <1>5, <1>6 DEF Next

-----------------------------------------------------------------------------
\* Between its steps a turn has read every message that set the flag, unless
\* the flag is still there; and from its first call to the model on, a flag was
\* set by a message that came under its lock.
FlagSeen == \A w \in Workers :
    InTurn(w) /\ step[w] \notin {"gate", "rearm"} /\ ~flag => marked <= seen[w]

FlagKnown == \A w \in Workers :
    /\ step[w] \in {"call", "check", "send"} => called[w]
    /\ called[w] => InTurn(w) \/ step[w] = "release"
    /\ InTurn(w) /\ (called[w] \/ step[w] = "budget") /\ flag => marked # None

\* Only the turn itself takes the flag, and each time it does it reads on or leaves.
LEMMA FlagKept ==
    ASSUME TypeOK, TurnHoldsLock, Bounded, InHand, FlagSeen, FlagKnown, [Next]_vars
    PROVE FlagSeen' /\ FlagKnown'
<1> USE DEF FlagSeen, FlagKnown, InTurn
<1>0. /\ step \in [Workers -> TaskSteps] /\ called \in [Workers -> BOOLEAN]
      /\ seen \in [Workers -> 0..MaxMessages] /\ arrived \in 0..MaxMessages
      /\ marked \in 0..MaxMessages
  BY DEF TypeOK, TaskType, OutsideType, MutexType
<1>1. ASSUME NEW m \in Messages, EngineStep(m) \/ ArmFails(m) \/ EngineDies(m)
      PROVE FlagSeen' /\ FlagKnown'
  <2>1. /\ UNCHANGED <<step, called, seen>>
        /\ UNCHANGED <<flag, marked>> \/ (flag' = TRUE /\ marked' # 0)
    BY <1>0, <1>1 DEF EngineStep, EngineCheck, EngineMark, EngineStash, EngineArm, EngineAt,
       ArmFails,
       EngineDies, Mark
  <2> QED BY <2>1
<1>2. ASSUME NEW p \in Pollers, PollStep(p) PROVE FlagSeen' /\ FlagKnown'
  BY <1>2 DEF PollStep, PollSee, PollRemove, PollGet, PollDelete, PollAdd, PollAt
<1>3. ASSUME NEW w \in Workers, TaskStep(w) PROVE FlagSeen' /\ FlagKnown'
  <2>1. CASE TurnStep(w)
    \* Nobody else is in a turn.
    <3>1. \A v \in Workers \ {w} : ~InTurn(v) /\ step'[v] = step[v] /\ called'[v] = called[v]
      BY <2>1, TurnFrameHolds DEF TurnHoldsLock
    <3>2. marked' = marked /\ marked <= arrived BY <2>1, TurnFrameHolds DEF Bounded
    <3>3. \/ step'[w] \in {"release", "rearm"}
          \/ seen'[w] = arrived
          \/ step[w] \notin {"gate", "rearm"} /\ seen'[w] = seen[w] /\ flag' = flag
      BY <1>0, <2>1 DEF TurnStep, GateAnswers, GateApproves, Merge, GiveWayBeforeCall, StartTrip,
         BudgetThere, BudgetSuperseded, BudgetExhausted, SupersededInCall, AnswerEndsTurn,
         AnswerRunsTool, AnswerIsDropped, AnswerSends, GiveWayBeforeSend, PassCheck, Send, Rearm,
         TimeOut, TurnFails, Goto, TakeFlag, NoFlag, Conclude, GiveWay, FlagTrip, NextTrip,
         LoopRunsOut
    <3>4. FlagSeen'
      BY <1>0, <2>1, <3>1, <3>2, <3>3, TurnFrameHolds DEF TurnSteps
    <3>5. /\ step'[w] \in {"call", "check", "send"} => called'[w]
          /\ (called'[w] \/ step'[w] = "budget") /\ flag' =>
               step'[w] = "release" \/ (flag /\ (called[w] \/ step[w] = "budget"))
      BY <1>0, <2>1 DEF TurnStep, GateAnswers, GateApproves, Merge, GiveWayBeforeCall, StartTrip,
         BudgetThere, BudgetSuperseded, BudgetExhausted, SupersededInCall, AnswerEndsTurn,
         AnswerRunsTool, AnswerIsDropped, AnswerSends, GiveWayBeforeSend, PassCheck, Send, Rearm,
         TimeOut, TurnFails, Goto, TakeFlag, NoFlag, Conclude, GiveWay, FlagTrip, NextTrip,
         LoopRunsOut
    <3>6. FlagKnown'
      BY <2>1, <3>1, <3>2, <3>5, TurnFrameHolds, SMTT(30) DEF TurnSteps
    <3> QED BY <3>4, <3>6
  <2>2. CASE EntryStep(w)
    <3>1. \A v \in Workers \ {w} :
            step'[v] = step[v] /\ called'[v] = called[v] /\ seen'[v] = seen[v]
      BY <2>2, EntryFrameHolds
    <3>2. CASE StartTurn(w)
      <4>1. \A v \in Workers : ~InTurn(v) BY <3>2 DEF StartTurn, TurnHoldsLock, TurnSteps
      <4>2. marked' = None /\ seen'[w] \in {0, arrived} /\ step'[w] \in {"gate", "top"}
            /\ UNCHANGED called
        BY <1>0, <3>2 DEF StartTurn, Goto
      <4>3. ~called[w] BY <3>2 DEF StartTurn, TurnSteps
      <4>4. FlagSeen' BY <1>0, <3>1, <4>1, <4>2 DEF TurnSteps
      <4>5. FlagKnown'
        <5>1. called' = called /\ step'[w] \notin {"call", "check", "send", "budget"}
          BY <4>2
        <5>2. InTurn(w)' BY <4>2 DEF TurnSteps
        <5>3. \A v \in Workers \ {w} : ~InTurn(v)' BY <3>1, <4>1
        <5> QED BY <3>1, <4>3, <5>1, <5>2, <5>3
      <4> QED BY <4>4, <4>5
    <3>3. CASE ~StartTurn(w)
      <4>1. UNCHANGED <<flag, marked>> \/ (flag' = TRUE /\ marked' # 0)
        BY <1>0, <2>2, <3>3, MessageType DEF InHand, BusySteps, EntryStep, Take, SkipEntry,
           MessageIsBusy, InstructionIsBusy,
           BusyMark, BusyStash, BusyArm, BusyArmFails, Release, Ack, Mark
      <4>2. step'[w] \in TaskSteps \ TurnSteps /\ step'[w] \notin TurnSteps
        BY <1>0, <2>2, <3>3 DEF TaskSteps, TurnSteps, EntryStep, Take, SkipEntry, MessageIsBusy,
           InstructionIsBusy, BusyMark, BusyStash, BusyArm, BusyArmFails, Release, Ack, Goto, Leave
      <4>3. called'[w] => called[w] /\ step[w] # "release"
        BY <1>0, <2>2, <3>3 DEF EntryStep, Take, SkipEntry, MessageIsBusy,
           InstructionIsBusy, BusyMark, BusyStash, BusyArm, BusyArmFails, Release, Ack, Goto,
           Leave, Forget
      <4>4. ~called'[w]
        <5>1. ~InTurn(w) BY <2>2, EntryFrameHolds
        <5>2. called[w] => step[w] = "release" BY <5>1
        <5> QED BY <4>3, <5>2
      <4>5. step'[w] \notin {"call", "check", "send"} /\ ~InTurn(w)' BY <4>2 DEF TurnSteps
      <4>6. FlagSeen' BY <3>1, <4>1, <4>5
      <4>7. FlagKnown' BY <3>1, <4>1, <4>4, <4>5
      <4> QED BY <4>6, <4>7
    <3> QED BY <3>2, <3>3
  <2> QED BY <1>3, <2>1, <2>2, TaskStepSplit
<1>4. CASE Arrive \/ InstructionFires \/ LockExpires \/ StashExpires \/ UNCHANGED vars
  BY <1>4 DEF Arrive, InstructionFires, LockExpires, StashExpires, vars
<1>5. CASE FlagExpires
  BY <1>5 DEF FlagExpires
<1>6. ASSUME NEW W \in SUBSET Workers, NEW P \in SUBSET Pollers, Crash(W, P)
      PROVE FlagSeen' /\ FlagKnown'
  BY <1>0, <1>6 DEF Crash, TurnSteps
<1> QED BY <1>1, <1>2, <1>3, <1>4, <1>5, <1>6 DEF Next

\* What the safety of a reply and of a message's fate rests on.
Base == TypeOK /\ TurnHoldsLock /\ Bounded /\ InHand /\ FlagSeen /\ FlagKnown

LEMMA BaseInit == ASSUME Init PROVE Base
<1>1. TypeOK BY TypeInit
<1>2. TurnHoldsLock /\ FlagSeen /\ FlagKnown
  BY DEF Init, TurnHoldsLock, FlagSeen, FlagKnown, InTurn, TurnSteps
<1>3. Bounded /\ InHand BY DEF Init, Bounded, InHand, BusySteps
<1> QED BY <1>1, <1>2, <1>3 DEF Base

LEMMA BaseKept == ASSUME Base, [Next]_vars PROVE Base'
BY TypeKept, TurnHoldsLockKept, BoundedKept, InHandKept, FlagKept DEF Base

\* A task gets from the last checkpoint to its reply in one way.
LEMMA OnlyPassCheckSends ==
    ASSUME TypeOK, [Next]_vars, NEW w \in Workers, step[w] = "check", step'[w] = "send"
    PROVE PassCheck(w)
<1>0. step \in [Workers -> TaskSteps] BY DEF TypeOK, TaskType
<1>1. ASSUME NEW v \in Workers, TaskStep(v) PROVE PassCheck(w)
  <2>1. CASE EntryStep(v)
    <3>1. ~InTurn(v) BY <2>1, EntryFrameHolds
    <3>2. v # w BY <3>1 DEF InTurn, TurnSteps
    <3> QED BY <2>1, <3>2, EntryFrameHolds
  <2>2. CASE TurnStep(v)
    <3>1. v = w BY <2>2, TurnFrameHolds
    <3> QED
      BY <1>0, <2>2, <3>1 DEF TurnStep, GateAnswers, GateApproves, Merge, GiveWayBeforeCall,
         StartTrip,
         BudgetThere, BudgetSuperseded, BudgetExhausted, SupersededInCall, AnswerEndsTurn,
         AnswerRunsTool, AnswerIsDropped, AnswerSends, GiveWayBeforeSend, Send, Rearm,
         TimeOut, TurnFails, Goto, Conclude, GiveWay, FlagTrip, NextTrip, LoopRunsOut, TurnSteps
  <2> QED BY <1>1, <2>1, <2>2, TaskStepSplit
<1>2. ASSUME NEW W \in SUBSET Workers, NEW P \in SUBSET Pollers, Crash(W, P) PROVE FALSE
  BY <1>0, <1>2 DEF Crash
<1>3. ASSUME UNCHANGED step PROVE FALSE BY <1>3
<1>4. CASE /\ ~\E v \in Workers : TaskStep(v)
           /\ ~\E W \in SUBSET Workers, P \in SUBSET Pollers : Crash(W, P)
  <2>1. UNCHANGED step
    BY <1>4 DEF Next, Arrive, InstructionFires, EngineStep, EngineCheck, EngineMark,
     EngineStash, EngineArm, EngineAt, ArmFails, EngineDies, PollStep, PollSee, PollRemove, PollGet,
     PollDelete, PollAdd, PollAt, LockExpires, FlagExpires, StashExpires, vars
  <2> QED BY <1>3, <2>1
<1> QED BY <1>1, <1>2, <1>4

\* A turn that passes the last checkpoint has read every message that
\* superseded it (handle_pre_call_supersede, wait_for_gemini_budget and the
\* checkpoint before a send), for any number of messages, tasks and faults.
THEOREM NoStaleReplyHolds == Spec => NoStaleReply
<1>1. Init => Base BY BaseInit
<1>2. Base /\ [Next]_vars => Base' BY BaseKept
<1>3. Base /\ [Next]_vars =>
        [\A w \in Workers : step[w] = "check" /\ step'[w] = "send" => marked <= seen[w]]_vars
  <2> SUFFICES ASSUME Base, [Next]_vars, NEW w \in Workers, step[w] = "check", step'[w] = "send"
               PROVE marked <= seen[w]
    OBVIOUS
  <2>1. ~flag BY OnlyPassCheckSends DEF Base, PassCheck, NoFlag
  <2> QED BY <2>1 DEF Base, FlagSeen, InTurn, TurnSteps
<1> QED BY <1>1, <1>2, <1>3, PTL DEF Spec, NoStaleReply

\* A turn for one of the messages M is still to come, outside the stream: an
\* evaluation is about to stash it, the stash holds it and will be polled, a poll
\* loop has popped it, or a busy task is putting it back.
Stashing == {"check", "mark", "stash", "stashNow"}

Coming(M) ==
    \/ \E m \in M : engine[m] \in Stashing
    \/ /\ stash \in M
       /\ \/ due
          \/ \E p \in Pollers : polling[p] = "get"
          \/ \E m \in M : engine[m] \in {"arm", "armNow"}
          \/ \E x \in Workers : step[x] = "busyArm" /\ Message(x) \in M
    \/ \E p \in Pollers : popped[p] \in M
    \/ \E x \in Workers : step[x] \in {"busyMark", "busyStash"} /\ Message(x) \in M

\* An entry that will be dealt with, and message m with it: every task on it
\* still has to decide, is done with it and leaves it, or has a turn that read
\* or will read m.
Keeps(x) == step[x] = "load" \/ (step[x] = "release" /\ ended[x] = "failed")
Reads(x, m) == InTurn(x) /\ step[x] # "rearm" /\ (step[x] = "gate" \/ m <= seen[x])
Carries(s, m) == entry[s] # "free" /\ \A x \in Workers : on[x] = s => Keeps(x) \/ Reads(x, m)

\* ... or in the stream, in another entry than s0.
Ahead(M, s0, m) == Coming(M) \/ \E s \in Slots \ {s0} : about[s] \in M /\ Carries(s, m)

\* A step keeps what is ahead for M, or M is left to another message's turn.
StepKeeps ==
    \A M \in SUBSET Messages, m \in Messages, s0 \in 0..MaxEntries :
        Ahead(M, s0, m) /\ (s0 = 0 \/ \E x \in Workers : on'[x] = s0)
          => Ahead(M, s0, m)' \/ (M \cap displaced' # {} /\ Ahead(Messages, s0, m)')

\* What is coming needs no more than these to stay as it is.
LEMMA ComingFrame ==
    ASSUME NEW M \in SUBSET Messages, Coming(M),
           UNCHANGED <<engine, stash, pollVars>>, due => due',
           \A x \in Workers : step[x] \in BusySteps =>
               step'[x] = step[x] /\ on'[x] = on[x] /\ about'[on[x]] = about[on[x]]
    PROVE Coming(M)'
BY DEF Coming, Message, BusySteps

LEMMA CarriesFrame ==
    ASSUME NEW s \in Slots, NEW m \in Messages, Carries(s, m), entry'[s] # "free",
           \A x \in Workers : on'[x] = s =>
              on[x] = s /\ (Keeps(x) \/ Reads(x, m) => Keeps(x)' \/ Reads(x, m)')
    PROVE Carries(s, m)'
BY DEF Carries

\* What is ahead stays so where its parts do.
LEMMA AheadFrame ==
    ASSUME NEW M \in SUBSET Messages, NEW m \in Messages, NEW s0, Ahead(M, s0, m),
           Coming(M) => Coming(M)',
           \A s \in Slots : Carries(s, m) => (Carries(s, m)' /\ about'[s] = about[s])
    PROVE Ahead(M, s0, m)'
BY DEF Ahead

\* Evaluations.
LEMMA EngineKeeps ==
    ASSUME TypeOK, NEW n \in Messages, EngineStep(n) \/ EngineDies(n)
    PROVE StepKeeps
<1> SUFFICES ASSUME NEW M \in SUBSET Messages, NEW m \in Messages, NEW s0 \in 0..MaxEntries,
                    Ahead(M, s0, m)
             PROVE Ahead(M, s0, m)' \/ (M \cap displaced' # {} /\ Ahead(Messages, s0, m)')
  BY DEF StepKeeps
<1>1. UNCHANGED <<stream, taskVars, pollVars>> /\ (due => due')
  BY DEF EngineStep, EngineCheck, EngineMark, EngineStash, EngineArm, EngineAt, EngineDies
<1>2. \A s \in Slots : Carries(s, m) => (Carries(s, m)' /\ about'[s] = about[s])
  BY <1>1 DEF Carries, Keeps, Reads, InTurn
<1>3. Coming(M) => Coming(M)' \/ (M \cap displaced' # {} /\ Coming(Messages)')
  <2>0. engine \in [Messages -> {"none", "check", "mark", "stashNow", "armNow", "again",
                                "stash", "arm", "done"}]
    BY DEF TypeOK, OutsideType
  <2>1. CASE EngineStash(n)
    <3>1. stash' = n /\ engine'[n] \in {"arm", "armNow"}
          /\ \A k \in Messages \ {n} : engine'[k] = engine[k]
      BY <2>0, <2>1 DEF EngineStash, EngineAt, Stash
    <3>2. Coming(Messages)' BY <3>1 DEF Coming
    <3>3. CASE n \in M BY <3>1, <3>3 DEF Coming
    <3>4. CASE n \notin M /\ stash \in M
      <4>1. stash \in displaced' BY <2>1, <3>4 DEF EngineStash, Stash
      <4> QED BY <3>2, <3>4, <4>1
    <3>5. CASE n \notin M /\ stash \notin M
      BY <1>1, <3>1, <3>5 DEF Coming, Message
    <3> QED BY <3>3, <3>4, <3>5
  <2>2. CASE ~EngineStash(n)
    <3>1. stash' = stash /\ \A k \in Messages \ {n} : engine'[k] = engine[k]
      BY <2>0, <2>2 DEF EngineStep, EngineCheck, EngineMark, EngineArm, EngineAt, EngineDies
    <3>2. engine[n] \in Stashing => engine'[n] \in Stashing
      BY <2>0, <2>2 DEF EngineStep, EngineCheck, EngineMark, EngineArm, EngineAt, EngineDies,
         Stashing
    <3>3. engine[n] \in {"arm", "armNow"} => due' \/ engine'[n] \in Stashing
      BY <2>0, <2>2 DEF EngineStep, EngineCheck, EngineMark, EngineArm, EngineAt, EngineDies,
         Stashing
    <3> QED BY <1>1, <3>1, <3>2, <3>3 DEF Coming, Message
  <2> QED BY <2>1, <2>2
<1> QED BY <1>2, <1>3 DEF Ahead

\* Poll loops: what GET finds is popped, what DEL finds besides is displaced,
\* and XADD makes an entry that no task is on.
LEMMA PollKeeps ==
    ASSUME TypeOK, InHand, NEW p \in Pollers, PollStep(p)
    PROVE StepKeeps
<1> SUFFICES ASSUME NEW M \in SUBSET Messages, NEW m \in Messages, NEW s0 \in 0..MaxEntries,
                    Ahead(M, s0, m), s0 = 0 \/ \E x \in Workers : on'[x] = s0
             PROVE Ahead(M, s0, m)' \/ (M \cap displaced' # {} /\ Ahead(Messages, s0, m)')
  BY DEF StepKeeps
<1>0. /\ popped \in [Pollers -> 0..MaxMessages]
      /\ polling \in [Pollers -> {"idle", "remove", "get", "delete", "add"}]
      /\ stash \in 0..MaxMessages
  BY DEF TypeOK, PollType, DebounceType
<1>1. CASE PollAdd(p)
  <2>1. PICK s \in Slots : /\ entry[s] = "free" /\ \A x \in Workers : on[x] # s
                           /\ entry' = [entry EXCEPT ![s] = "queued"]
                           /\ about' = [about EXCEPT ![s] = popped[p]]
    BY <1>1, AddedSlot DEF PollAdd
  <2>2. /\ popped' = [popped EXCEPT ![p] = None] /\ polling' = [polling EXCEPT ![p] = "idle"]
        /\ polling[p] = "add"
        /\ UNCHANGED <<engine, debounce, taskVars>>
    BY <1>1 DEF PollAdd, PollAt
  <2>3. \A x \in Workers : about'[on[x]] = about[on[x]] BY <1>1, AddedApart DEF PollAdd
  <2>4. \A t \in Slots : Carries(t, m) => t # s /\ Carries(t, m)' /\ about'[t] = about[t]
    BY <2>1, <2>2 DEF Carries, Keeps, Reads, InTurn, TypeOK, StreamType
  <2>5. Coming(M) => Coming(M)' \/ popped[p] \in M
    BY <1>0, <2>2, <2>3 DEF Coming, Message
  <2>6. popped[p] \in M => Carries(s, m)' /\ about'[s] \in M /\ s # s0
    <3>1. entry'[s] = "queued" /\ about'[s] = popped[p] BY <2>1 DEF TypeOK, StreamType
    <3>2. Carries(s, m)' BY <2>1, <2>2, <3>1 DEF Carries
    <3>3. s # s0 BY <2>1, <2>2
    <3> QED BY <3>1, <3>2, <3>3
  <2> QED BY <2>4, <2>5, <2>6 DEF Ahead
<1>2. CASE ~PollAdd(p)
  <2>1. UNCHANGED <<engine, stream, taskVars>>
    BY <1>2 DEF PollStep, PollSee, PollRemove, PollGet, PollDelete, PollAt
  <2>2. \A s \in Slots : Carries(s, m) => (Carries(s, m)' /\ about'[s] = about[s])
    BY <2>1 DEF Carries, Keeps, Reads, InTurn
  <2>3. Coming(M) => Coming(M)' \/ (M \cap displaced' # {} /\ Coming(Messages)')
    <3>1. CASE PollSee(p)
      <4>1. polling' = [polling EXCEPT ![p] = "remove"] /\ polling[p] = "idle"
            /\ UNCHANGED <<stash, due, popped>>
        BY <3>1 DEF PollSee, PollAt
      <4> QED BY <1>0, <2>1, <4>1 DEF Coming, Message
    <3>2. CASE PollRemove(p)
      <4>1. polling' = [polling EXCEPT ![p] = "get"] /\ UNCHANGED <<stash, popped>>
        BY <3>2 DEF PollRemove, PollAt
      <4>2. polling'[p] = "get" BY <1>0, <4>1
      <4> QED BY <1>0, <2>1, <4>1, <4>2 DEF Coming, Message
    <3>3. CASE PollGet(p)
      <4>1. /\ popped' = [popped EXCEPT ![p] = stash] /\ polling[p] = "get"
            /\ UNCHANGED <<stash, due>> /\ \A q \in Pollers \ {p} : polling'[q] = polling[q]
        BY <1>0, <3>3 DEF PollGet, PollAt
      <4>2. popped[p] = None BY <4>1 DEF InHand
      <4>3. popped'[p] = stash /\ \A q \in Pollers \ {p} : popped'[q] = popped[q]
        BY <1>0, <4>1
      <4> QED BY <2>1, <4>1, <4>2, <4>3 DEF Coming, Message
    <3>4. CASE PollDelete(p)
      <4>1. popped' = popped /\ popped[p] \in Messages
            /\ displaced' = displaced \cup ({stash} \ {None, popped[p]})
        BY <1>0, <3>4 DEF PollDelete, PollAt, InHand
      <4>2. Coming(Messages)' BY <4>1 DEF Coming
      <4>3. CASE stash \in M /\ popped[p] # stash BY <4>1, <4>2, <4>3
      <4>4. CASE popped[p] \in M BY <4>1, <4>4 DEF Coming
      <4>5. CASE stash \notin M BY <2>1, <4>1, <4>5 DEF Coming, Message
      <4> QED BY <4>3, <4>4, <4>5
    <3> QED BY <1>2, <3>1, <3>2, <3>3, <3>4 DEF PollStep
  <2> QED BY <2>2, <2>3 DEF Ahead
<1> QED BY <1>1, <1>2

\* The outside world and time.
LEMMA OutsideKeeps ==
    ASSUME TypeOK, Arrive \/ InstructionFires \/ LockExpires \/ FlagExpires \/ UNCHANGED vars
    PROVE StepKeeps
<1> SUFFICES ASSUME NEW M \in SUBSET Messages, NEW m \in Messages, NEW s0 \in 0..MaxEntries,
                    Ahead(M, s0, m)
             PROVE Ahead(M, s0, m)'
  BY DEF StepKeeps
<1>1. UNCHANGED <<debounce, pollVars, taskVars>>
  BY DEF Arrive, InstructionFires, LockExpires, FlagExpires, vars
<1>2. CASE InstructionFires
  <2>1. PICK s \in Slots : /\ entry[s] = "free" /\ \A x \in Workers : on[x] # s
                           /\ entry' = [entry EXCEPT ![s] = "queued"]
                           /\ about' = [about EXCEPT ![s] = None]
    BY <1>2, AddedSlot DEF InstructionFires
  <2>2. \A x \in Workers : about'[on[x]] = about[on[x]] BY <1>2, AddedApart DEF InstructionFires
  <2>3. engine' = engine BY <1>2 DEF InstructionFires
  <2>4. \A t \in Slots : Carries(t, m) => Carries(t, m)' /\ about'[t] = about[t]
    BY <1>1, <2>1 DEF Carries, Keeps, Reads, InTurn, TypeOK, StreamType
  <2> QED BY <1>1, <2>2, <2>3, <2>4, ComingFrame, AheadFrame
<1>3. CASE ~InstructionFires
  <2>1. stream' = stream BY <1>3 DEF Arrive, LockExpires, FlagExpires, vars
  <2>2. \A n \in Messages : engine'[n] = engine[n] \/ engine'[n] = "check"
    BY <1>3 DEF Arrive, LockExpires, FlagExpires, vars, TypeOK, OutsideType
  <2>3. Coming(M) => Coming(M)' BY <1>1, <2>1, <2>2 DEF Coming, Message, Stashing
  <2>4. \A s \in Slots : Carries(s, m) => (Carries(s, m)' /\ about'[s] = about[s])
    BY <1>1, <2>1 DEF Carries, Keeps, Reads, InTurn
  <2> QED BY <2>3, <2>4, AheadFrame
<1> QED BY <1>2, <1>3

\* A task that moves from a step at which its entry is not carried, or to one at
\* which it still is, leaves what its entries carry as it is.
LEMMA TaskCarries ==
    ASSUME TypeOK, NEW w \in Workers, EntryStep(w), NEW m \in Messages, NEW s \in Slots,
           Carries(s, m), entry'[s] # "free",
           on'[w] = s => Keeps(w)' \/ Reads(w, m)'
    PROVE Carries(s, m)'
<1>1. \A x \in Workers \ {w} : /\ step'[x] = step[x] /\ ended'[x] = ended[x]
                               /\ seen'[x] = seen[x] /\ on'[x] = on[x]
  BY EntryFrameHolds
<1> QED BY <1>1 DEF Carries, Keeps, Reads, InTurn

\* A task that is not putting a message back leaves what is coming as it is.
LEMMA TaskComing ==
    ASSUME TypeOK, NEW w \in Workers, EntryStep(w), step[w] \notin BusySteps, UNCHANGED stash,
           NEW M \in SUBSET Messages, Coming(M)
    PROVE Coming(M)'
<1>1. \A x \in Workers \ {w} : step'[x] = step[x] /\ on'[x] = on[x]
  BY EntryFrameHolds
<1>2. \A x \in Workers \ {w} : step[x] \in BusySteps => about'[on[x]] = about[on[x]]
  BY AboutKept DEF BusySteps, TypeOK, TaskType
<1> QED BY <1>1, <1>2, ComingFrame, EntryFrameHolds

\* Deliveries, the lock, the busy path, the release and the acknowledgement.
LEMMA EntryKeeps ==
    ASSUME TypeOK, InHand, NEW w \in Workers, EntryStep(w), ~SkipEntry(w), ~BusyArmFails(w)
    PROVE StepKeeps
<1> SUFFICES ASSUME NEW M \in SUBSET Messages, NEW m \in Messages, NEW s0 \in 0..MaxEntries,
                    Ahead(M, s0, m)
             PROVE Ahead(M, s0, m)' \/ (M \cap displaced' # {} /\ Ahead(Messages, s0, m)')
  BY DEF StepKeeps
<1>0. /\ step \in [Workers -> TaskSteps] /\ on \in [Workers -> 0..MaxEntries]
      /\ seen \in [Workers -> 0..MaxMessages]
      /\ ended \in [Workers -> {"no", "done", "superseded", "failed"}]
      /\ entry \in [Slots -> {"free", "queued", "pending"}]
      /\ about \in [Slots -> 0..MaxMessages]
      /\ stash \in 0..MaxMessages
      /\ (step[w] = "idle" <=> on[w] = 0)
  BY DEF TypeOK, TaskType, StreamType, DebounceType
<1>f. \A x \in Workers \ {w} : step'[x] = step[x] /\ on'[x] = on[x]
  BY EntryFrameHolds
<1>1. ASSUME NEW s \in Slots, Take(w, s) PROVE Ahead(M, s0, m)'
  <2>1. Coming(M) => Coming(M)' BY <1>1, TaskComing DEF Take, BusySteps
  <2>2. Keeps(w)' BY <1>0, <1>1 DEF Take, Keeps, Goto
  <2>3. \A t \in Slots : Carries(t, m) => entry'[t] # "free" BY <1>0, <1>1 DEF Take, Carries
  <2>4. UNCHANGED about BY <1>1 DEF Take
  <2> QED BY <2>1, <2>2, <2>3, <2>4, TaskCarries, AheadFrame
<1>2. CASE StartTurn(w)
  <2>1. Coming(M) => Coming(M)' BY <1>2, TaskComing DEF StartTurn, BusySteps
  <2>2. UNCHANGED <<stream, on>> BY <1>2 DEF StartTurn
  <2>3. IsMessage(w) => Reads(w, m)' BY <1>0, <1>2 DEF StartTurn, Reads, Goto, InTurn, TurnSteps
  <2>4. \A s \in Slots : about[s] \in M /\ Carries(s, m) => Carries(s, m)'
    <3> SUFFICES ASSUME NEW s \in Slots, about[s] \in M, Carries(s, m) PROVE Carries(s, m)'
      OBVIOUS
    <3>1. on[w] = s => IsMessage(w) BY DEF IsMessage, Message
    <3> QED BY <2>2, <2>3, <3>1, TaskCarries DEF Carries
  <2> QED BY <2>1, <2>2, <2>4 DEF Ahead
<1>3. CASE MessageIsBusy(w)
  <2>1. Coming(M) => Coming(M)' BY <1>3, TaskComing DEF MessageIsBusy, BusySteps
  <2>2. UNCHANGED <<stream, on>> BY <1>3 DEF MessageIsBusy
  <2>3. step'[w] = "busyMark" BY <1>0, <1>3 DEF MessageIsBusy, Goto
  <2>4. \A s \in Slots : about[s] \in M /\ Carries(s, m) => Carries(s, m)' \/ Coming(M)'
    <3> SUFFICES ASSUME NEW s \in Slots, about[s] \in M, Carries(s, m), on[w] # s
                 PROVE Carries(s, m)'
      BY <2>2, <2>3 DEF Coming, Message
    <3> QED BY <2>2, TaskCarries DEF Carries
  <2> QED BY <2>1, <2>2, <2>4 DEF Ahead
<1>4. CASE InstructionIsBusy(w)
  <2>1. Coming(M) => Coming(M)' BY <1>4, TaskComing DEF InstructionIsBusy, BusySteps
  <2>2. UNCHANGED stream /\ on'[w] = 0 BY <1>0, <1>4 DEF InstructionIsBusy, Leave
  <2> QED BY <2>1, <2>2, TaskCarries, AheadFrame DEF Carries
<1>5. CASE BusyMark(w) \/ BusyStash(w) \/ BusyArm(w)
  <2>1. UNCHANGED <<engine, pollVars, stream, on>>
    BY <1>5 DEF BusyMark, BusyStash, BusyArm
  <2>2. \A s \in Slots : Carries(s, m) => Carries(s, m)'
    <3> SUFFICES ASSUME NEW s \in Slots, Carries(s, m) PROVE Carries(s, m)'
      OBVIOUS
    <3>1. on[w] # s
      BY <1>5 DEF Carries, Keeps, Reads, InTurn, TurnSteps, BusyMark, BusyStash, BusyArm
    <3> QED BY <2>1, <3>1, TaskCarries DEF Carries
  <2>3. Coming(M) => Coming(M)' \/ (M \cap displaced' # {} /\ Coming(Messages)')
    <3>1. CASE BusyMark(w)
      <4>1. step[w] = "busyMark" /\ step'[w] = "busyStash" /\ UNCHANGED debounce
        BY <1>0, <3>1 DEF BusyMark, Goto
      <4> QED BY <1>f, <2>1, <4>1 DEF Coming, Message
    <3>2. CASE BusyStash(w)
      <4>1. /\ step[w] = "busyStash" /\ step'[w] = "busyArm" /\ due' = due
            /\ stash' = (IF stash = None THEN Message(w) ELSE stash)
            /\ stash # None /\ Message(w) # stash => Message(w) \in displaced'
            /\ Message(w) \in Messages
        BY <1>0, <3>2, MessageType DEF BusyStash, Goto, InHand, BusySteps
      <4>2. Coming(Messages)' BY <1>0, <2>1, <4>1 DEF Coming, Message
      <4>3. CASE Message(w) \in M
        <5>1. CASE stash # None /\ Message(w) # stash BY <4>1, <4>2, <4>3, <5>1
        <5>2. CASE ~(stash # None /\ Message(w) # stash)
          BY <2>1, <4>1, <4>3, <5>2 DEF Coming, Message
        <5> QED BY <5>1, <5>2
      <4>4. CASE Message(w) \notin M
        BY <1>f, <2>1, <4>1, <4>4 DEF Coming, Message
      <4> QED BY <4>3, <4>4
    <3>3. CASE BusyArm(w)
      <4>1. step[w] = "busyArm" /\ due' = TRUE /\ UNCHANGED stash
        BY <3>3 DEF BusyArm
      <4> QED BY <1>f, <2>1, <4>1 DEF Coming, Message
    <3> QED BY <1>5, <3>1, <3>2, <3>3
  <2> QED BY <2>1, <2>2, <2>3 DEF Ahead
<1>6. CASE Release(w)
  <2>1. Coming(M) => Coming(M)' BY <1>6, TaskComing DEF Release, BusySteps
  <2>2. UNCHANGED stream BY <1>6 DEF Release
  <2>3. \A s \in Slots : Carries(s, m) => Carries(s, m)'
    <3> SUFFICES ASSUME NEW s \in Slots, Carries(s, m) PROVE Carries(s, m)'
      OBVIOUS
    <3>1. CASE ended[w] = "failed"
      <4>1. on'[w] = 0 BY <1>0, <1>6, <3>1 DEF Release, Leave
      <4> QED BY <2>2, <4>1, TaskCarries DEF Carries
    <3>2. CASE ended[w] # "failed"
      <4>1. on'[w] = on[w] BY <1>6, <3>2 DEF Release
      <4>2. on[w] # s BY <1>6, <3>2 DEF Release, Carries, Keeps, Reads, InTurn, TurnSteps
      <4> QED BY <2>2, <4>1, <4>2, TaskCarries DEF Carries
    <3> QED BY <3>1, <3>2
  <2> QED BY <2>1, <2>2, <2>3, AheadFrame
<1>7. CASE Ack(w)
  <2>1. Coming(M) => Coming(M)' BY <1>7, TaskComing DEF Ack, BusySteps
  <2>2. \A s \in Slots : Carries(s, m) => Carries(s, m)' /\ about'[s] = about[s]
    <3> SUFFICES ASSUME NEW s \in Slots, Carries(s, m)
                 PROVE Carries(s, m)' /\ about'[s] = about[s]
      OBVIOUS
    <3>1. on[w] # s BY <1>7 DEF Ack, Carries, Keeps, Reads, InTurn, TurnSteps
    <3>2. on'[w] = 0 BY <1>0, <1>7 DEF Ack, Leave
    <3>3. entry'[s] = entry[s] /\ about'[s] = about[s] BY <1>0, <1>7, <3>1 DEF Ack
    <3> QED BY <3>2, <3>3, TaskCarries DEF Carries
  <2> QED BY <2>1, <2>2, AheadFrame
<1> QED BY <1>1, <1>2, <1>3, <1>4, <1>5, <1>6, <1>7 DEF EntryStep

\* A crash that leaves nothing without a copy: the entries of the dead tasks stay.
LEMMA CrashKeeps ==
    ASSUME TypeOK, InHand, NEW W \in SUBSET Workers, NEW P \in SUBSET Pollers, Crash(W, P),
           ~HoldsPair(W, P)
    PROVE StepKeeps
<1> SUFFICES ASSUME NEW M \in SUBSET Messages, NEW m \in Messages, NEW s0 \in 0..MaxEntries,
                    Ahead(M, s0, m), s0 = 0 \/ \E x \in Workers : on'[x] = s0
             PROVE Ahead(M, s0, m)'
  BY DEF StepKeeps
<1>1. /\ step' = [w \in Workers |-> IF w \in W THEN "idle" ELSE step[w]]
      /\ on' = [w \in Workers |-> IF w \in W THEN 0 ELSE on[w]]
      /\ ended' = [w \in Workers |-> IF w \in W THEN "no" ELSE ended[w]]
      /\ seen' = [w \in Workers |-> IF w \in W THEN 0 ELSE seen[w]]
      /\ polling' = [p \in Pollers |-> IF p \in P THEN "idle" ELSE polling[p]]
      /\ popped' = [p \in Pollers |-> IF p \in P THEN None ELSE popped[p]]
      /\ UNCHANGED <<engine, debounce, stream>>
  BY DEF Crash
<1>2. \A p \in P : polling[p] # "get" /\ popped[p] = None
  BY DEF HoldsPair, InHand
<1>3. \A s \in Slots : Carries(s, m) => Carries(s, m)'
  BY <1>1 DEF Carries, Keeps, Reads, InTurn
<1>4. CASE \E x \in W : step[x] \in BusySteps /\ Message(x) \in M
  \* Its entry is pending and nobody else is on it.
  <2>1. PICK x \in W : step[x] \in BusySteps /\ Message(x) \in M BY <1>4
  <2>2. PICK t \in Slots : t = on[x] BY <2>1, MessageType DEF BusySteps
  <2>3. entry[t] # "free" /\ \A v \in Workers \ W : on[v] # t
    BY <2>1, <2>2 DEF HoldsPair, BusySteps
  <2>4. \A v \in Workers : on'[v] # t BY <1>1, <2>2, <2>3
  <2>5. Carries(t, m)' BY <1>1, <2>3, <2>4 DEF Carries
  <2>6. about'[t] \in M /\ t # s0 BY <1>1, <2>1, <2>2, <2>4 DEF Message
  <2> QED BY <2>5, <2>6 DEF Ahead
<1>5. CASE ~\E x \in W : step[x] \in BusySteps /\ Message(x) \in M
  <2>1. \A p \in Pollers : /\ popped[p] \in M => popped'[p] = popped[p]
                           /\ polling[p] = "get" => polling'[p] = "get"
    BY <1>1, <1>2
  <2>2. \A x \in Workers : step[x] \in BusySteps /\ Message(x) \in M
                             => step'[x] = step[x] /\ Message(x)' = Message(x)
    BY <1>1, <1>5 DEF Message
  <2>3. UNCHANGED <<engine, debounce, about>> BY <1>1
  <2>4. Coming(M) => Coming(M)' BY <2>1, <2>2, <2>3 DEF Coming, BusySteps
  <2> QED BY <1>3, <2>3, <2>4 DEF Ahead
<1> QED BY <1>4, <1>5

-----------------------------------------------------------------------------
\* A message that was not left to another has a turn of its own ahead; one that
\* was has somebody's; and while a turn runs, the message that would supersede it
\* has a turn ahead besides it, or was left to one.
OwnAhead == \A m \in Messages :
    m <= arrived => m \in settled \cup lost \cup displaced \/ Ahead({m}, 0, m)

SomeAhead == \A m \in Messages :
    m <= arrived => m \in settled \cup lost \/ Ahead(Messages, 0, m)

SuccessorAhead == \A w \in Workers : InTurn(w) /\ marked # None =>
    \/ marked \in lost
    \/ marked \in displaced /\ Ahead(Messages, on[w], marked)
    \/ Ahead({marked}, on[w], marked)

Fate == OwnAhead /\ SomeAhead /\ SuccessorAhead

\* A wider set of messages, and a slot that is not left out.
LEMMA AheadWider ==
    ASSUME NEW M \in SUBSET Messages, NEW m, NEW s0, Ahead(M, s0, m)
    PROVE Ahead(Messages, s0, m) /\ Ahead(M, 0, m)
<1>1. Coming(M) => Coming(Messages) BY DEF Coming
<1>2. 0 \notin Slots OBVIOUS
<1> QED BY <1>1, <1>2 DEF Ahead

\* Beside the turn under way no entry is in a turn: it carries every message.
LEMMA AheadOfAll ==
    ASSUME TurnHoldsLock, NEW w \in Workers, InTurn(w), NEW M, NEW n, Ahead(M, on[w], n), NEW m
    PROVE Ahead(M, on[w], m)
<1>1. \A x \in Workers : on[x] # on[w] => ~InTurn(x) BY DEF TurnHoldsLock
<1>2. \A s \in Slots \ {on[w]} : Carries(s, n) => Carries(s, m) BY <1>1 DEF Carries, Reads
<1> QED BY <1>2 DEF Ahead

\* A step that keeps what is ahead keeps the fate of the messages.
LEMMA FateOfKeeping ==
    ASSUME TypeOK, TypeOK', Fate, StepKeeps, UNCHANGED arrived,
           settled \subseteq settled', displaced \subseteq displaced', lost \subseteq lost',
           \A w \in Workers : InTurn(w)' /\ marked' # None => InTurn(w) /\ on'[w] = on[w],
           marked' \in {marked, None} \/ \E k \in Messages : k = marked' /\ Coming({k})'
    PROVE Fate'
<1>0. /\ arrived \in 0..MaxMessages /\ marked' \in 0..MaxMessages /\ marked \in 0..MaxMessages
      /\ on' \in [Workers -> 0..MaxEntries]
  BY DEF TypeOK, OutsideType, MutexType, TaskType
<1>k. ASSUME NEW M \in SUBSET Messages, NEW m \in Messages, NEW s0 \in 0..MaxEntries,
             Ahead(M, s0, m), s0 = 0 \/ \E x \in Workers : on'[x] = s0
      PROVE Ahead(M, s0, m)' \/ (M \cap displaced' # {} /\ Ahead(Messages, s0, m)')
  BY <1>k DEF StepKeeps
<1>1. OwnAhead'
  <2> SUFFICES ASSUME NEW m \in Messages, m <= arrived,
                      m \notin settled' \cup lost' \cup displaced'
               PROVE Ahead({m}, 0, m)'
    BY DEF OwnAhead
  <2>1. Ahead({m}, 0, m) BY DEF Fate, OwnAhead
  <2>2. {m} \in SUBSET Messages /\ {m} \cap displaced' = {} OBVIOUS
  <2> QED BY <1>k, <2>1, <2>2
<1>2. SomeAhead'
  <2> SUFFICES ASSUME NEW m \in Messages, m <= arrived, m \notin settled' \cup lost'
               PROVE Ahead(Messages, 0, m)'
    BY DEF SomeAhead
  <2>1. Ahead(Messages, 0, m) BY DEF Fate, SomeAhead
  <2> QED BY <1>k, <2>1
<1>3. SuccessorAhead'
  <2> SUFFICES ASSUME NEW w \in Workers, InTurn(w)', marked' # None
               PROVE \/ marked' \in lost'
                     \/ marked' \in displaced' /\ Ahead(Messages, on[w], marked)'
                     \/ Ahead({marked}, on[w], marked)'
    BY DEF SuccessorAhead
  <2>1. CASE marked' # marked
    <3>1. PICK k \in Messages : k = marked' /\ Coming({k})' BY <2>1
    <3> QED BY <3>1 DEF Ahead
  <2>2. CASE marked' = marked
    <3>1. PICK k \in Messages : k = marked BY <1>0, <2>2
    <3>2. PICK s \in 0..MaxEntries : s = on'[w] BY <1>0
    <3>3. InTurn(w) /\ on[w] = s BY <3>2
    <3>4. CASE k \in lost BY <2>2, <3>1, <3>4
    <3>5. CASE k \in displaced /\ Ahead(Messages, s, k)
      <4>1. Ahead(Messages, s, k)' BY <1>k, <3>2, <3>5
      <4> QED BY <2>2, <3>1, <3>2, <3>5, <4>1
    <3>6. CASE Ahead({k}, s, k)
      <4>1. {k} \in SUBSET Messages OBVIOUS
      <4>2. Ahead({k}, s, k)' \/ ({k} \cap displaced' # {} /\ Ahead(Messages, s, k)')
        BY <1>k, <3>2, <3>6, <4>1
      <4> QED BY <2>2, <3>1, <3>2, <4>2
    <3> QED BY <2>2, <3>1, <3>3, <3>4, <3>5, <3>6 DEF Fate, SuccessorAhead
  <2> QED BY <2>1, <2>2
<1> QED BY <1>1, <1>2, <1>3 DEF Fate

\* A step after which every message that has arrived is given up.
LEMMA FateOfLosing ==
    ASSUME TypeOK, TypeOK', Bounded, UNCHANGED <<arrived, marked>>, lost' = 1..arrived
    PROVE Fate'
<1>1. \A m \in Messages : m <= arrived => m \in lost' OBVIOUS
<1>2. marked' # None => marked' \in lost'
  BY DEF TypeOK, OutsideType, MutexType, Bounded
<1> QED BY <1>1, <1>2 DEF Fate, OwnAhead, SomeAhead, SuccessorAhead

LEMMA EngineFate ==
    ASSUME Base, TypeOK', Fate, NEW m \in Messages, EngineStep(m) \/ ArmFails(m) \/ EngineDies(m)
    PROVE Fate'
<1>1. CASE ArmFails(m) BY <1>1, FateOfLosing DEF Base, ArmFails
<1>2. CASE EngineStep(m) \/ EngineDies(m)
  <2>1. UNCHANGED <<arrived, settled, lost, step, on>> /\ displaced \subseteq displaced'
    BY <1>2 DEF EngineStep, EngineCheck, EngineMark, EngineStash, EngineArm, EngineAt,
       EngineDies, Stash
  <2>2. marked' \in {marked, None} \/ \E k \in Messages : k = marked' /\ Coming({k})'
    <3>1. CASE EngineMark(m)
      <4>1. engine'[m] \in Stashing /\ marked' \in {marked, m}
        BY <3>1 DEF EngineMark, EngineAt, Mark, Stashing, Base, TypeOK, OutsideType
      <4> QED BY <4>1 DEF Coming
    <3>2. CASE ~EngineMark(m)
      <4>1. marked' = marked
        BY <1>2, <3>2 DEF EngineStep, EngineCheck, EngineStash, EngineArm, EngineAt, EngineDies
      <4> QED BY <4>1
    <3> QED BY <3>1, <3>2
  <2> QED BY <1>2, <2>1, <2>2, EngineKeeps, FateOfKeeping DEF Base, InTurn
<1> QED BY <1>1, <1>2

LEMMA PollFate ==
    ASSUME Base, TypeOK', Fate, NEW p \in Pollers, PollStep(p)
    PROVE Fate'
<1>1. UNCHANGED <<arrived, settled, lost, step, on, marked>> /\ displaced \subseteq displaced'
  BY DEF PollStep, PollSee, PollRemove, PollGet, PollDelete, PollAdd, PollAt
<1> QED BY <1>1, PollKeeps, FateOfKeeping DEF Base, InTurn

LEMMA OutsideFate ==
    ASSUME Base, TypeOK', Fate,
           Arrive \/ InstructionFires \/ LockExpires \/ FlagExpires \/ UNCHANGED vars
    PROVE Fate'
<1>1. StepKeeps BY OutsideKeeps DEF Base
<1>2. CASE Arrive
  <2>1. UNCHANGED <<marked, settled, displaced, lost, on, step>> /\ arrived' = arrived + 1
        /\ engine'[arrived + 1] = "check" /\ arrived + 1 \in Messages
    BY <1>2 DEF Arrive, Base, TypeOK, OutsideType
  <2>2. \A m \in Messages, M \in SUBSET Messages : Ahead(M, 0, m) =>
          Ahead(M, 0, m)' \/ (M \cap displaced' # {} /\ Ahead(Messages, 0, m)')
    BY <1>1 DEF StepKeeps
  <2>3. OwnAhead'
    <3> SUFFICES ASSUME NEW m \in Messages, m <= arrived',
                        m \notin settled' \cup lost' \cup displaced'
                 PROVE Ahead({m}, 0, m)'
      BY DEF OwnAhead
    <3>1. CASE m = arrived + 1
      <4>1. Coming({m})' BY <2>1, <3>1 DEF Coming, Stashing
      <4> QED BY <4>1 DEF Ahead
    <3>2. CASE m <= arrived
      <4>1. Ahead({m}, 0, m) BY <2>1, <3>2 DEF Fate, OwnAhead
      <4>2. {m} \in SUBSET Messages /\ {m} \cap displaced' = {} OBVIOUS
      <4> QED BY <2>2, <4>1, <4>2
    <3> QED BY <2>1, <3>1, <3>2 DEF Base, TypeOK, OutsideType
  <2>4. SomeAhead'
    <3>1. Coming(Messages)' BY <2>1 DEF Coming, Stashing
    <3> QED BY <3>1 DEF SomeAhead, Ahead
  <2>5. SuccessorAhead'
    <3> SUFFICES ASSUME NEW w \in Workers, InTurn(w)', marked' # None
                 PROVE \/ marked' \in lost'
                       \/ marked' \in displaced' /\ Ahead(Messages, on[w], marked)'
                       \/ Ahead({marked}, on[w], marked)'
      BY DEF SuccessorAhead
    <3>1. PICK k \in Messages, s \in 0..MaxEntries : k = marked /\ s = on[w]
      BY <2>1 DEF Base, TypeOK, MutexType, TaskType
    <3>2. InTurn(w) BY <2>1 DEF InTurn
    <3>3. Coming(Messages)' BY <2>1 DEF Coming, Stashing
    <3>4. Ahead({k}, s, k) =>
            Ahead({k}, s, k)' \/ ({k} \cap displaced' # {} /\ Ahead(Messages, s, k)')
      <4>1. {k} \in SUBSET Messages /\ \E x \in Workers : on'[x] = s BY <2>1, <3>1
      <4> QED BY <1>1, <4>1 DEF StepKeeps
    <3> QED BY <2>1, <3>1, <3>2, <3>3, <3>4 DEF Fate, SuccessorAhead, Ahead
  <2> QED BY <2>3, <2>4, <2>5 DEF Fate
<1>3. CASE ~Arrive
  <2>1. UNCHANGED <<arrived, settled, displaced, lost, step, on, marked>>
    BY <1>3 DEF InstructionFires, LockExpires, FlagExpires, vars
  <2> QED BY <1>1, <2>1, FateOfKeeping DEF Base, InTurn
<1> QED BY <1>2, <1>3

LEMMA CrashFate ==
    ASSUME Base, TypeOK', Fate, NEW W \in SUBSET Workers, NEW P \in SUBSET Pollers, Crash(W, P)
    PROVE Fate'
<1>1. CASE HoldsPair(W, P) BY <1>1, FateOfLosing DEF Base, Crash
<1>2. CASE ~HoldsPair(W, P)
  <2>1. UNCHANGED <<arrived, settled, displaced, lost, marked>> BY <1>2 DEF Crash
  <2>2. \A w \in Workers : InTurn(w)' => InTurn(w) /\ on'[w] = on[w]
    BY DEF Crash, InTurn, TurnSteps
  <2> QED BY <1>2, <2>1, <2>2, CrashKeeps, FateOfKeeping DEF Base
<1> QED BY <1>1, <1>2

\* The agent is off: its message and all that were left to it are given up; any
\* other has its own turn ahead, elsewhere.
LEMMA SkipFate ==
    ASSUME Base, TypeOK', Fate, NEW w \in Workers, SkipEntry(w)
    PROVE Fate'
<1>1. /\ step[w] = "load" /\ step' = [step EXCEPT ![w] = "ack"]
      /\ lost' = lost \cup ({Message(w)} \ {None}) \cup displaced
      /\ UNCHANGED <<arrived, engine, debounce, mutex, pollVars, stream, on, seen, ended, settled,
                     displaced>>
  BY DEF SkipEntry, Goto
<1>2. PICK t \in Slots : t = on[w] BY <1>1, MessageType DEF Base
<1>3. EntryStep(w) /\ TypeOK BY DEF EntryStep, Base
\* What is ahead for a message but the one skipped.
<1>4. ASSUME NEW m \in Messages, NEW n \in Messages, NEW s0, Ahead({m}, s0, n), m # about[t]
      PROVE Ahead({m}, s0, n)'
  <2>1. Coming({m}) => Coming({m})' BY <1>1, <1>3, TaskComing DEF BusySteps
  <2>2. \A s \in Slots \ {t} : Carries(s, n) => Carries(s, n)'
    BY <1>1, <1>2, <1>3, TaskCarries DEF Carries
  <2> QED BY <1>1, <1>4, <2>1, <2>2 DEF Ahead
<1>5. about[t] # None => about[t] \in lost' BY <1>1, <1>2 DEF Message
<1>6. OwnAhead' /\ SomeAhead'
  <2>1. ASSUME NEW m \in Messages, m <= arrived, m \notin settled' \cup lost'
        PROVE Ahead({m}, 0, m)'
    <3>1. m # about[t] /\ m \notin settled \cup lost \cup displaced BY <1>1, <1>5, <2>1
    <3> QED BY <1>4, <2>1, <3>1 DEF Fate, OwnAhead
  <2>2. ASSUME NEW m \in Messages, m <= arrived, m \notin settled' \cup lost'
        PROVE Ahead(Messages, 0, m)'
    <3>1. Ahead({m}, 0, m)' BY <2>1, <2>2
    <3> QED BY <3>1 DEF Ahead, Coming
  <2> QED BY <1>1, <2>1, <2>2 DEF OwnAhead, SomeAhead
<1>7. SuccessorAhead'
  <2> SUFFICES ASSUME NEW v \in Workers, InTurn(v)', marked' # None
               PROVE \/ marked' \in lost'
                     \/ Ahead({marked}, on[v], marked)'
    BY DEF SuccessorAhead
  <2>1. PICK k \in Messages, s \in 0..MaxEntries : k = marked /\ s = on[v]
    BY <1>1 DEF Base, TypeOK, MutexType, TaskType
  <2>2. InTurn(v)
    BY <1>1 DEF InTurn, TurnSteps, Base, TypeOK, TaskType
  <2>3. CASE k \in lost \cup displaced \/ k = about[t] BY <1>1, <1>5, <2>1, <2>3
  <2>4. CASE ~(k \in lost \cup displaced \/ k = about[t])
    <3>1. Ahead({k}, s, k) BY <1>1, <2>1, <2>2, <2>4 DEF Fate, SuccessorAhead
    <3>2. Ahead({k}, s, k)' BY <1>4, <2>4, <3>1
    <3> QED BY <1>1, <2>1, <3>2
  <2> QED BY <2>3, <2>4
<1> QED BY <1>6, <1>7 DEF Fate

\* The stash runs out: its message and all that were left to another are given
\* up; any other has its own turn ahead, elsewhere.
LEMMA StashFate ==
    ASSUME Base, TypeOK', Fate, StashExpires
    PROVE Fate'
<1>1. /\ stash' = None /\ lost' = lost \cup {stash} \cup displaced
      /\ UNCHANGED <<arrived, engine, due, mutex, pollVars, stream, taskVars, settled, displaced>>
  BY DEF StashExpires
\* What is ahead for a message but the one stashed.
<1>4. ASSUME NEW m \in Messages, NEW n \in Messages, NEW s0, Ahead({m}, s0, n), m # stash
      PROVE Ahead({m}, s0, n)'
  <2>1. Coming({m}) => Coming({m})' BY <1>1, <1>4 DEF Coming, Message
  <2>2. \A s \in Slots : Carries(s, n) => (Carries(s, n)' /\ about'[s] = about[s])
    BY <1>1 DEF Carries, Keeps, Reads, InTurn
  <2> QED BY <1>4, <2>1, <2>2, AheadFrame
<1>5. stash \in lost' BY <1>1
<1>6. OwnAhead' /\ SomeAhead'
  <2>1. ASSUME NEW m \in Messages, m <= arrived, m \notin settled' \cup lost'
        PROVE Ahead({m}, 0, m)'
    <3>1. m # stash /\ m \notin settled \cup lost \cup displaced BY <1>1, <1>5, <2>1
    <3> QED BY <1>4, <2>1, <3>1 DEF Fate, OwnAhead
  <2>2. ASSUME NEW m \in Messages, m <= arrived, m \notin settled' \cup lost'
        PROVE Ahead(Messages, 0, m)'
    <3>1. Ahead({m}, 0, m)' BY <2>1, <2>2
    <3> QED BY <3>1 DEF Ahead, Coming
  <2> QED BY <1>1, <2>1, <2>2 DEF OwnAhead, SomeAhead
<1>7. SuccessorAhead'
  <2> SUFFICES ASSUME NEW v \in Workers, InTurn(v)', marked' # None
               PROVE \/ marked' \in lost'
                     \/ Ahead({marked}, on[v], marked)'
    BY DEF SuccessorAhead
  <2>1. PICK k \in Messages, s \in 0..MaxEntries : k = marked /\ s = on[v]
    BY <1>1 DEF Base, TypeOK, MutexType, TaskType
  <2>2. InTurn(v) BY <1>1 DEF InTurn
  <2>3. CASE k \in lost \cup displaced \/ k = stash BY <1>1, <1>5, <2>1, <2>3
  <2>4. CASE ~(k \in lost \cup displaced \/ k = stash)
    <3>1. Ahead({k}, s, k) BY <1>1, <2>1, <2>2, <2>4 DEF Fate, SuccessorAhead
    <3>2. Ahead({k}, s, k)' BY <1>4, <2>4, <3>1
    <3> QED BY <1>1, <2>1, <3>2
  <2> QED BY <2>3, <2>4
<1> QED BY <1>6, <1>7 DEF Fate

LEMMA EntryFate ==
    ASSUME Base, TypeOK', Fate, NEW w \in Workers, EntryStep(w)
    PROVE Fate'
<1>1. CASE SkipEntry(w) BY <1>1, SkipFate
<1>3. CASE BusyArmFails(w) BY <1>3, FateOfLosing DEF Base, BusyArmFails
<1>2. CASE ~SkipEntry(w) /\ ~BusyArmFails(w)
  <2>0. step \in [Workers -> TaskSteps] BY DEF Base, TypeOK, TaskType
  <2>1. /\ UNCHANGED arrived
        /\ settled \subseteq settled' /\ displaced \subseteq displaced' /\ lost \subseteq lost'
        /\ \A v \in Workers \ {w} : step'[v] = step[v] /\ on'[v] = on[v]
    BY <1>2, EntryFrameHolds DEF Base
  <2>2. \A v \in Workers : InTurn(v)' /\ marked' # None => InTurn(v) /\ on'[v] = on[v]
    <3>1. InTurn(w)' => marked' = None
      BY <2>0, <1>2 DEF InTurn, TurnSteps, EntryStep, Take, StartTurn, MessageIsBusy,
         InstructionIsBusy, BusyMark, BusyStash, BusyArm, Release, Ack, Leave, Goto
    <3> QED BY <2>1, <3>1 DEF InTurn
  <2>3. marked' \in {marked, None} \/ \E k \in Messages : k = marked' /\ Coming({k})'
    <3>1. CASE BusyMark(w)
      <4>1. PICK k \in Messages : k = Message(w)
        BY <3>1, MessageType DEF Base, InHand, BusySteps, BusyMark
      <4>2. step'[w] = "busyStash" /\ UNCHANGED <<on, about>> BY <2>0, <3>1 DEF BusyMark, Goto
      <4>3. marked' \in {marked, k} BY <3>1, <4>1 DEF BusyMark, Mark
      <4>4. Coming({k})' BY <4>1, <4>2 DEF Coming, Message
      <4> QED BY <4>3, <4>4
    <3>2. CASE ~BusyMark(w)
      BY <1>2, <3>2 DEF EntryStep, Take, StartTurn, MessageIsBusy,
         InstructionIsBusy, BusyStash, BusyArm, Release, Ack
    <3> QED BY <3>1, <3>2
  <2> QED BY <1>2, <2>1, <2>2, <2>3, EntryKeeps, FateOfKeeping DEF Base
<1> QED BY <1>1, <1>2, <1>3

\* A message that is left to the one that set the flag is given up with it, or
\* has that one's turn ahead, or the turn of the message it was left to itself.
LEMMA LeftToSuccessor ==
    ASSUME Base, Fate, NEW w \in Workers, InTurn(w), NEW m \in Messages, m <= seen[w],
           marked # None, LeaveTo(marked, w)
    PROVE m \in settled \cup lost' \/ Ahead(Messages, on[w], m)
<1>1. CASE marked \in lost BY <1>1 DEF LeaveTo, Base, TypeOK, TaskType
<1>2. CASE marked \notin lost
  <2>1. PICK k \in Messages : k = marked BY DEF Base, TypeOK, MutexType
  <2>2. Ahead(Messages, on[w], k) \/ Ahead({k}, on[w], k)
    BY <1>2, <2>1 DEF Fate, SuccessorAhead
  <2>3. Ahead(Messages, on[w], k) BY <2>2 DEF Ahead, Coming
  <2> QED BY <2>3, AheadOfAll DEF Base
<1> QED BY <1>1, <1>2

\* The last round trip is spent on a flag.
LEMMA FlagTripFate ==
    ASSUME Base, Fate, NEW w \in Workers, InTurn(w), FlagTrip(w), LoopRunsOut(w),
           ~(NextTrip(w) /\ UNCHANGED <<displaced, lost>>),
           NEW m \in Messages, m <= seen[w]
    PROVE /\ m \in settled \cup lost' \/ Ahead(Messages, on[w], m)
          /\ Message(w) # None => Message(w) \in displaced'
<1>1. /\ displaced' = displaced \cup ({Message(w)} \ {None})
      /\ IF marked = None THEN lost' = lost \cup (1..seen[w] \ settled) ELSE LeaveTo(marked, w)
  BY DEF FlagTrip
<1>2. seen[w] \in Nat BY DEF Base, TypeOK, TaskType
<1>3. m \in settled \cup lost' \/ Ahead(Messages, on[w], m)
  BY <1>1, <1>2, LeftToSuccessor
<1> QED BY <1>1, <1>3

\* What a turn that read m becomes, if it does not deal with m.
Passes(w, m) ==
    \/ step'[w] \in TurnSteps \ {"gate", "rearm"} /\ m <= seen'[w]
    \/ step'[w] = "release" /\ ended'[w] = "failed"

\* A message that the entry of a turn carries is answered, reported or given up,
\* the turn goes on with it, or a turn besides is ahead; the entry's own message
\* is not counted as having one besides.
LEMMA TurnOutcome ==
    ASSUME Base, Fate, NEW w \in Workers, TurnStep(w), Message(w) # None,
           NEW m \in Messages, m <= arrived, Reads(w, m)
    PROVE /\ m \in settled' \cup lost' \/ Passes(w, m) \/ Ahead(Messages, on[w], m)
          /\ m = Message(w) => m \in settled' \cup lost' \cup displaced' \/ Passes(w, m)
<1>0. /\ step \in [Workers -> TaskSteps] /\ seen \in [Workers -> 0..MaxMessages]
      /\ ended \in [Workers -> {"no", "done", "superseded", "failed"}]
      /\ arrived \in 0..MaxMessages
  BY DEF Base, TypeOK, TaskType, OutsideType
<1>1. InTurn(w) /\ step[w] # "idle" BY TurnFrameHolds DEF Base, InTurn, TurnSteps
<1>2. IsMessage(w) /\ on[w] \in Slots /\ Message(w) \in Messages
  BY <1>1, MessageType DEF Base, IsMessage
<1>3. settled \subseteq settled' /\ lost \subseteq lost' /\ displaced \subseteq displaced'
  BY TurnFrameHolds DEF Base
<1>4. step[w] # "rearm" /\ (step[w] # "gate" => m <= seen[w]) BY DEF Reads
<1> USE DEF Passes, Goto, TurnSteps
<1>5. CASE GateApproves(w) BY <1>0, <1>5 DEF GateApproves
<1>6. CASE Merge(w)
  <2>1. CASE NextTrip(w) BY <1>0, <1>6, <2>1 DEF Merge, NextTrip
  <2>2. CASE ~NextTrip(w)
    <3>1. FlagTrip(w) /\ LoopRunsOut(w) /\ step[w] # "gate"
      BY <1>6, <2>2 DEF Merge, FlagTrip
    <3> QED BY <1>1, <1>2, <1>3, <1>4, <2>2, <3>1, FlagTripFate
  <2> QED BY <2>1, <2>2
<1>7. CASE BudgetSuperseded(w)
  <2>1. CASE NextTrip(w) BY <1>0, <1>4, <1>7, <2>1 DEF BudgetSuperseded, NextTrip
  <2>2. CASE ~NextTrip(w)
    <3>1. FlagTrip(w) /\ LoopRunsOut(w) /\ step[w] # "gate"
      BY <1>7, <2>2 DEF BudgetSuperseded, FlagTrip
    <3> QED BY <1>1, <1>2, <1>3, <1>4, <2>2, <3>1, FlagTripFate
  <2> QED BY <2>1, <2>2
<1>8. CASE GiveWayBeforeCall(w) \/ SupersededInCall(w) \/ GiveWayBeforeSend(w)
  <2>1. GiveWay(w) /\ step[w] \in {"top", "call", "check"} /\ (step[w] = "top" => called[w])
    BY <1>2, <1>8 DEF GiveWayBeforeCall, SupersededInCall, GiveWayBeforeSend
  <2>2. marked # None
    BY <1>1, <2>1 DEF GiveWay, TakeFlag, Base, FlagKnown
  <2>3. LeaveTo(marked, w) /\ Message(w) \in displaced'
    BY <1>2, <2>1 DEF GiveWay
  <2> QED BY <1>1, <1>3, <1>4, <2>1, <2>2, <2>3, LeftToSuccessor
<1>9. CASE \/ StartTrip(w) \/ BudgetThere(w) \/ AnswerRunsTool(w)
           \/ AnswerSends(w) \/ PassCheck(w) \/ Send(w)
  <2>1. seen' = seen /\ m <= seen[w]
    BY <1>4, <1>9 DEF StartTrip, BudgetThere, AnswerRunsTool, AnswerSends, PassCheck, Send
  <2>2. step'[w] \in {"top", "budget", "call", "check", "send"}
    BY <1>0, <1>9 DEF StartTrip, BudgetThere, AnswerRunsTool, AnswerSends, PassCheck, Send,
       NextTrip
  <2> QED BY <2>1, <2>2
<1>10. CASE BudgetExhausted(w) \/ AnswerEndsTurn(w)
  <2>1. step[w] # "gate" /\ settled' = settled \cup 1..seen[w]
    BY <1>2, <1>10 DEF BudgetExhausted, AnswerEndsTurn, Conclude, Settle
  <2> QED BY <1>0, <1>4, <2>1
<1>11. CASE AnswerIsDropped(w)
  <2>1. lost' = lost \cup (1..seen[w] \ settled) /\ m <= seen[w]
    BY <1>2, <1>4, <1>11 DEF AnswerIsDropped
  <2>2. m \in settled \cup lost' BY <1>0, <2>1
  <2> QED BY <1>3, <2>2
<1>12. CASE GateAnswers(w) \/ TimeOut(w)
  <2>1. lost' = lost \cup (displaced \ settled')
    BY <1>12 DEF GateAnswers, TimeOut
  <2>2. Message(w) \in settled'
    BY <1>0, <1>2, <1>12 DEF GateAnswers, TimeOut, Settle
  <2>3. step[w] # "gate" => m \in settled'
    BY <1>0, <1>2, <1>4, <1>12 DEF GateAnswers, TimeOut, Settle
  <2>4. CASE m \in settled \cup lost \cup displaced \/ m = Message(w)
    BY <1>3, <2>1, <2>2, <2>4
  <2>5. CASE ~(m \in settled \cup lost \cup displaced \/ m = Message(w))
    <3>1. Ahead({m}, 0, m) BY <2>5 DEF Fate, OwnAhead
    <3>2. Ahead(Messages, on[w], m) BY <2>5, <3>1 DEF Ahead, Coming, Message
    <3> QED BY <2>5, <3>2
  <2> QED BY <2>4, <2>5
<1>13. CASE Rearm(w) BY <1>4, <1>13 DEF Rearm
<1>14. CASE TurnFails(w) BY <1>0, <1>14 DEF TurnFails
<1> QED BY <1>5, <1>6, <1>7, <1>8, <1>9, <1>10, <1>11, <1>12, <1>13, <1>14 DEF TurnStep

LEMMA TurnFate ==
    ASSUME Base, TypeOK', Fate, NEW w \in Workers, TurnStep(w)
    PROVE Fate'
<1>1. /\ InTurn(w)
      /\ UNCHANGED <<arrived, engine, stash, pollVars, stream, on, lock, marked>>
      /\ due => due'
      /\ \A v \in Workers \ {w} : step'[v] = step[v] /\ ended'[v] = ended[v] /\ seen'[v] = seen[v]
      /\ settled \subseteq settled' /\ displaced \subseteq displaced' /\ lost \subseteq lost'
  BY TurnFrameHolds DEF Base
<1>2. PICK t \in Slots : t = on[w]
  <2>1. TypeOK /\ step[w] # "idle" BY <1>1 DEF Base, InTurn, TurnSteps
  <2>2. on[w] \in Slots BY <2>1, MessageType
  <2> QED BY <2>2
\* Everything but the turn's own entry stays as it is.
<1>3. ASSUME NEW M \in SUBSET Messages, NEW m \in Messages, Ahead(M, t, m)
      PROVE Ahead(M, t, m)'
  <2>1. Coming(M) => Coming(M)'
    BY <1>1, ComingFrame DEF InTurn, TurnSteps, BusySteps
  <2>2. \A s \in Slots \ {t} : Carries(s, m) => Carries(s, m)'
    BY <1>1, <1>2 DEF Carries, Keeps, Reads, InTurn
  <2> QED BY <1>1, <1>3, <2>1, <2>2 DEF Ahead
\* The turn's own entry.
<1>4. ASSUME NEW m \in Messages, Carries(t, m), Passes(w, m) PROVE Carries(t, m)'
  <2>1. Keeps(w)' \/ Reads(w, m)' BY <1>4 DEF Passes, Keeps, Reads, InTurn
  <2> QED BY <1>1, <1>4, <2>1 DEF Carries, Keeps, Reads, InTurn
<1>5. ASSUME NEW m \in Messages, m <= arrived, about[t] # None, Carries(t, m)
      PROVE /\ m \in settled' \cup lost' \/ Carries(t, m)' \/ Ahead(Messages, t, m)
            /\ m = about[t] => m \in settled' \cup lost' \cup displaced' \/ Carries(t, m)'
  <2>1. Reads(w, m) BY <1>1, <1>2, <1>5 DEF Carries, Keeps, InTurn, TurnSteps
  <2>2. Message(w) = about[t] BY <1>2 DEF Message
  <2> QED BY <1>2, <1>4, <1>5, <2>1, <2>2, TurnOutcome
<1>6. OwnAhead'
  <2> SUFFICES ASSUME NEW m \in Messages, m <= arrived,
                      m \notin settled' \cup lost' \cup displaced'
               PROVE Ahead({m}, 0, m)'
    BY <1>1 DEF OwnAhead
  <2>1. Ahead({m}, 0, m) BY <1>1 DEF Fate, OwnAhead
  <2>2. CASE Ahead({m}, t, m)
    <3>1. Ahead({m}, t, m)' BY <1>3, <2>2
    <3> QED BY <3>1 DEF Ahead
  <2>3. CASE about[t] = m /\ Carries(t, m)
    <3>1. Carries(t, m)' BY <1>5, <2>3
    <3> QED BY <1>1, <2>3, <3>1 DEF Ahead
  <2> QED BY <2>1, <2>2, <2>3 DEF Ahead
<1>7. SomeAhead'
  <2> SUFFICES ASSUME NEW m \in Messages, m <= arrived, m \notin settled' \cup lost'
               PROVE Ahead(Messages, 0, m)'
    BY <1>1 DEF SomeAhead
  <2>1. Ahead(Messages, 0, m) BY <1>1 DEF Fate, SomeAhead
  <2>2. CASE Ahead(Messages, t, m)
    <3>1. Ahead(Messages, t, m)' BY <1>3, <2>2
    <3> QED BY <3>1 DEF Ahead
  <2>3. CASE ~Ahead(Messages, t, m)
    <3>1. about[t] \in Messages /\ Carries(t, m) BY <2>1, <2>3 DEF Ahead
    <3>2. Carries(t, m)' BY <1>5, <2>3, <3>1
    <3> QED BY <1>1, <3>1, <3>2 DEF Ahead
  <2> QED BY <2>2, <2>3
<1>8. SuccessorAhead'
  <2> SUFFICES ASSUME NEW v \in Workers, InTurn(v)', marked' # None
               PROVE \/ marked' \in lost'
                     \/ marked' \in displaced' /\ Ahead(Messages, on[v], marked)'
                     \/ Ahead({marked}, on[v], marked)'
    BY DEF SuccessorAhead
  <2>1. v = w BY <1>1 DEF Base, TurnHoldsLock, InTurn
  <2>2. PICK k \in Messages : k = marked BY <1>1 DEF Base, TypeOK, MutexType
  <2>3. k \in lost \/ (k \in displaced /\ Ahead(Messages, t, k)) \/ Ahead({k}, t, k)
    BY <1>1, <1>2, <2>2 DEF Fate, SuccessorAhead
  <2>4. k \in lost' \/ (k \in displaced' /\ Ahead(Messages, t, k)') \/ Ahead({k}, t, k)'
    <3>1. {k} \in SUBSET Messages OBVIOUS
    <3> QED BY <1>1, <1>3, <2>3, <3>1
  <2> QED BY <1>1, <1>2, <2>1, <2>2, <2>4
<1> QED BY <1>6, <1>7, <1>8 DEF Fate

LEMMA FateKept == ASSUME Base, Fate, [Next]_vars PROVE Fate'
<1>0. TypeOK' BY TypeKept DEF Base
<1>1. ASSUME NEW w \in Workers, TaskStep(w) PROVE Fate'
  BY <1>0, <1>1, TaskStepSplit, TurnFate, EntryFate
<1> QED BY <1>0, <1>1, EngineFate, PollFate, OutsideFate, StashFate,
   CrashFate DEF Next

\* A message that was neither answered nor reported still has a turn to come,
\* whatever the engine, the poll loops and the tasks do, die and repeat.
THEOREM NothingForgottenHolds == Spec => []NothingForgotten
<1>1. Init => Base /\ Fate
  <2>1. Init => Fate
    BY DEF Init, Fate, OwnAhead, SomeAhead, SuccessorAhead
  <2> QED BY <2>1, BaseInit
<1>2. Base /\ Fate /\ [Next]_vars => Base' /\ Fate' BY BaseKept, FateKept
<1>3. Base /\ Fate => NothingForgotten
  <2> SUFFICES ASSUME Base, Fate, NEW m \in Messages, m <= arrived, m \notin settled \cup lost
               PROVE Awaited
    BY DEF NothingForgotten
  <2>1. Ahead(Messages, 0, m) BY DEF Fate, SomeAhead
  <2>2. CASE Coming(Messages)
    <3>1. \A w \in Workers : step[w] \in BusySteps => IsMessage(w)
      BY DEF Base, InHand, BusySteps, IsMessage, TypeOK, TaskType
    <3> QED
      BY <2>2, <3>1 DEF Coming, Stashing, BusySteps, Awaited, ToBeEvaluated, ToBePolled,
         ToBeEnqueued,
         ToBeRetried
  <2>3. CASE \E s \in Slots : about[s] \in Messages /\ Carries(s, m)
    BY <2>3 DEF Carries, Awaited, ToBeProcessed
  <2> QED BY <2>1, <2>2, <2>3 DEF Ahead
<1> QED BY <1>1, <1>2, <1>3, PTL DEF Spec

=============================================================================
