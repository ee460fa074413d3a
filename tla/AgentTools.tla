----------------------------- MODULE AgentTools ------------------------------
(***************************************************************************)
(* What an agent's turn may do (agents/tools, restriction_ddl.py,          *)
(* invoke_turn_pre.py, owner_chat_router.py).  A turn loads the agent's    *)
(* row once and checks every tool call against that copy, while the owner  *)
(* changes the row; triggers in the database check some of the writes      *)
(* against the row as it is.  In the owner's own chat a router picks the   *)
(* set of tools, and asks when it cannot.  A turn per chat at a time.      *)
(***************************************************************************)
EXTENDS Naturals, FiniteSets

CONSTANTS
    OwnChat,      \* owner_agent_chat_id: turns there are in config mode
    ToolRuns,     \* OwnChat, and what else turns run in: chats, or no chat
    ToolChats,    \* the owner's other chats, there already or to be opened
    ToolGroups,   \* those that are groups; the others are private
    WakeKeys,     \* entries of the triggers, of a chat or a flag
    WakeFlags,    \* on_unknown_sender and on_any_message
    OwnerLimits,  \* the restrictions the owner's changes leave
    ToolChanges   \* bound: changes of the restrictions

Permissions == {"send", "private", "groups", "fresh", "leave"}
Limits == [may : SUBSET Permissions, blocked : SUBSET ToolChats]
\* DEFAULT_AGENT_RESTRICTIONS.
DefaultLimits == [may |-> Permissions \ {"groups"}, blocked |-> {}]

ASSUME ToolsAssumption ==
    /\ OwnChat \in ToolRuns /\ OwnChat \notin ToolChats
    /\ ToolGroups \subseteq ToolChats /\ WakeFlags \subseteq WakeKeys
    /\ OwnerLimits \subseteq Limits /\ ToolChanges \in Nat

VARIABLES
    limits,    \* the row's restrictions, as committed
    builder,   \* its builder_state
    wakes,     \* its triggers: off, brief (with expires_at or max_fires), standing
    pairs,     \* private_chat_pairs: private chats that were opened
    seats,     \* chats the owner is a participant of
    runs,      \* the turn under way in each place: its step and its copy
    copy,      \* what else the turn in OwnChat has a copy of
    changes,   \* history: changes of the restrictions
    refusals,  \* history: writes the database refused to turns of a place
    overstep,   \* history: acts the row did not permit that were done
    vetted,    \* history: entries made standing, but by a one-off turn
    asked,     \* history: was the last owner message answered by a question?
    twice      \* history: two messages in a row were, and none by mishap

toolVars == <<limits, builder, wakes, pairs, seats, runs, copy, changes,
              refusals, overstep, vetted, asked, twice>>

Destinations == {"one_off_action", "builder_agent", "help_agent_building", "help_general"}
BuilderStates == Destinations \cup {"clarify"}
WakeKinds == {"off", "brief", "standing"}
NoWakes == [k \in WakeKeys |-> "off"]

NoTurn == [pc |-> "idle", limits |-> DefaultLimits, at |-> 0, target |-> OwnChat]
NoCopy == [builder |-> "one_off_action", wakes |-> NoWakes, odd |-> FALSE]

ToolTypeOK ==
    /\ limits \in Limits /\ builder \in BuilderStates /\ wakes \in [WakeKeys -> WakeKinds]
    /\ pairs \subseteq ToolChats \ ToolGroups /\ seats \subseteq ToolChats
    /\ runs \in [ToolRuns -> [pc : {"idle", "judge", "route", "ask", "loop", "sending"},
                              limits : Limits, at : Nat, target : ToolChats \cup {OwnChat}]]
    /\ copy \in [builder : BuilderStates, wakes : [WakeKeys -> WakeKinds], odd : BOOLEAN]
    /\ changes \in Nat /\ refusals \in [ToolRuns -> Nat]
    /\ overstep \subseteq [act : {"open", "read"}, aged : BOOLEAN]
    /\ vetted \subseteq WakeKeys /\ asked \in {"no", "routed", "odd"} /\ twice \in BOOLEAN

GatesInit ==
    /\ limits = DefaultLimits /\ builder = "one_off_action" /\ wakes = NoWakes
    /\ pairs = {} /\ seats = ToolGroups
    /\ runs = [r \in ToolRuns |-> NoTurn] /\ copy = NoCopy
    /\ changes = 0 /\ refusals = [r \in ToolRuns |-> 0]
    /\ overstep = {} /\ vetted = {} /\ asked = "no" /\ twice = FALSE

-----------------------------------------------------------------------------
(* What is permitted, and what there is to call. *)

\* The checks of _tool_send_message, _tool_reply_message and
\* _tool_send_attached_file, on the copy of the turn.
MayMessage(l, c) ==
    /\ "send" \in l.may /\ c \notin l.blocked
    /\ (IF c \in ToolGroups THEN "groups" ELSE "private") \in l.may

\* A 1:1 chat that is not there yet needs both flags; can_send_messages is
\* looked at only once the chat was opened.
MayOpen(l) == {"fresh", "private"} \subseteq l.may

\* agents_enforce_message_restrictions and agents_enforce_leave_group, on the
\* committed row.  The third trigger, on the participants of a new private
\* chat, finds no app.current_agent_id: what sets it is committed before.
InsertIsRefused(c) == ~MayMessage(limits, c)
LeaveIsRefused(c) == c \in seats /\ "leave" \notin limits.may

\* Tools whose calls differ here: later stands for schedule_one_off_task and
\* the tasks, which write the whole triggers column too.
ExecutionTools == {"send", "read", "leave"}
BuilderTools ==
    [s \in BuilderStates |->
        CASE s = "one_off_action" -> ExecutionTools \cup {"look up", "disposable", "drop", "later"}
          [] s = "builder_agent"  -> {"look up", "trigger", "drop"}
          [] OTHER -> {}]

\* execute_tool_call: the chat decides, then the state the router left.
Calls(r, tool) ==
    /\ runs[r].pc = "loop"
    /\ tool \in IF r = OwnChat THEN BuilderTools[copy.builder] ELSE ExecutionTools

Turn(r, pc) == runs' = [runs EXCEPT ![r].pc = pc]
Over(r) == /\ runs' = [runs EXCEPT ![r] = NoTurn]
           /\ copy' = IF r = OwnChat THEN NoCopy ELSE copy
\* The exception is no IntegrityError: the session is not rolled back, the
\* commit after the tool call raises, and the turn fails with its entry unacked.
Refused(r) == Over(r) /\ refusals' = [refusals EXCEPT ![r] = @ + 1]
Crosses(r, act, permitted) ==
    overstep' = IF permitted THEN overstep
               ELSE overstep \cup {[act |-> act, aged |-> runs[r].at # changes]}

-----------------------------------------------------------------------------
(* A turn, up to its tool calls. *)

\* _run_turn: the row is loaded once, for a message or for an instruction.
StartRun(r) ==
    /\ runs[r].pc = "idle"
    /\ \E pc \in {IF r = OwnChat THEN "route" ELSE "judge", "loop"} :
          runs' = [runs EXCEPT ![r] = [pc |-> pc, limits |-> limits, at |-> changes,
                                       target |-> OwnChat]]
    /\ copy' = IF r = OwnChat THEN [builder |-> builder, wakes |-> wakes, odd |-> FALSE] ELSE copy
    /\ UNCHANGED <<limits, builder, wakes, pairs, seats, changes, refusals, overstep,
                   vetted, asked, twice>>

\* run_judge_gate: approved, or answered with a redirect, which no tool gates
\* and the database may refuse; the turn is over either way.
JudgeGate(r) ==
    /\ runs[r].pc = "judge"
    /\ (Turn(r, "loop") /\ copy' = copy) \/ Over(r)
    /\ UNCHANGED <<limits, builder, wakes, pairs, seats, changes, refusals, overstep,
                   vetted, asked, twice>>

\* The turn goes on in state s; only a state that differs from the copy's is
\* written.
GoesOnIn(s, odd) ==
    /\ runs[OwnChat].pc = "route"
    /\ Turn(OwnChat, IF s = "clarify" THEN "ask" ELSE "loop")
    /\ builder' = IF s = copy.builder THEN builder ELSE s
    /\ copy' = [copy EXCEPT !.builder = s, !.odd = odd]
    /\ asked' = IF s = "clarify" THEN asked ELSE "no"
    /\ UNCHANGED <<limits, wakes, pairs, seats, changes, refusals, overstep, vetted, twice>>

\* route_owner_turn: top and second are the likeliest destinations, sticks says
\* that the present one is nearly as likely, close that those two are.
Resolved(previous, top, second, sticks, close) ==
    IF previous # "clarify" /\ top # previous /\ sticks THEN previous
    ELSE IF previous # "clarify" /\ close /\ {top, second} = {"one_off_action", "builder_agent"}
         THEN "clarify" ELSE top

Outcomes(previous) ==
    {Resolved(previous, top, second, sticks, close) :
        top, second \in Destinations, sticks, close \in BOOLEAN}

RouteOwnerTurn == \E s \in Outcomes(copy.builder) : GoesOnIn(s, copy.odd)

\* Over its budget, or its classification failed: the state stays as it was.
RouteFrozen == GoesOnIn(copy.builder, TRUE)

\* run_clarify_gate: the question ends the turn.
AskClarify ==
    /\ runs[OwnChat].pc = "ask" /\ Over(OwnChat)
    /\ asked' = IF copy.odd THEN "odd" ELSE "routed"
    /\ twice' = (twice \/ (asked = "routed" /\ ~copy.odd))
    /\ UNCHANGED <<limits, builder, wakes, pairs, seats, changes, refusals, overstep, vetted>>

\* The turn is over: done, superseded, failed, or its worker died.
EndRun(r) ==
    /\ runs[r].pc # "idle" /\ Over(r)
    /\ UNCHANGED <<limits, builder, wakes, pairs, seats, changes, refusals, overstep,
                   vetted, asked, twice>>

-----------------------------------------------------------------------------
(* Its tool calls; a denied one changes nothing. *)

\* _tool_send_message to a chat there is, _tool_reply_message, and
\* _tool_send_attached_file, whose own judge only denies: now the owner's send
\* budget is waited for.
SendGate(r, c) ==
    /\ Calls(r, "send") /\ MayMessage(runs[r].limits, c) /\ c \in seats
    /\ runs' = [runs EXCEPT ![r].pc = "sending", ![r].target = c]
    /\ UNCHANGED <<limits, builder, wakes, pairs, seats, copy, changes, refusals,
                   overstep, vetted, asked, twice>>

\* _tool_send_message to a user: the chat is opened, sent or not.
SendToNew(r, c) ==
    /\ Calls(r, "send") /\ c \notin pairs /\ MayOpen(runs[r].limits)
    /\ pairs' = pairs \cup {c} /\ seats' = seats \cup {c}
    /\ Crosses(r, "open", MayOpen(limits))
    /\ runs' = IF MayMessage(runs[r].limits, c)
               THEN [runs EXCEPT ![r].pc = "sending", ![r].target = c] ELSE runs
    /\ UNCHANGED <<limits, builder, wakes, copy, changes, refusals, vetted, asked, twice>>

\* process_outgoing: not a participant any more is a denial, what the insert
\* trigger raises is not.
Deliver(r) ==
    /\ runs[r].pc = "sending"
    /\ IF runs[r].target \in seats /\ InsertIsRefused(runs[r].target)
       THEN Refused(r) ELSE Turn(r, "loop") /\ UNCHANGED <<copy, refusals>>
    /\ UNCHANGED <<limits, builder, wakes, pairs, seats, changes, overstep, vetted, asked, twice>>

\* _tool_leave_group, of any chat; the pair of a private one stays.
LeaveChat(r, c) ==
    /\ Calls(r, "leave") /\ "leave" \in runs[r].limits.may
    /\ IF LeaveIsRefused(c) THEN Refused(r) /\ seats' = seats
       ELSE seats' = seats \ {c} /\ UNCHANGED <<runs, copy, refusals>>
    /\ UNCHANGED <<limits, builder, wakes, pairs, changes, overstep, vetted, asked, twice>>

\* _tool_read_history.
ReadChat(r, c) ==
    /\ Calls(r, "read") /\ c \in seats \ runs[r].limits.blocked
    /\ Crosses(r, "read", c \notin limits.blocked)
    /\ UNCHANGED <<limits, builder, wakes, pairs, seats, runs, copy, changes, refusals,
                   vetted, asked, twice>>

\* _tool_search_messages and _tool_search_semantic with no chat_id: all of the
\* owner's chats but the blocked ones.
SearchChats(r) ==
    /\ Calls(r, "read")
    /\ Crosses(r, "read", seats \ runs[r].limits.blocked \subseteq seats \ limits.blocked)
    /\ UNCHANGED <<limits, builder, wakes, pairs, seats, runs, copy, changes, refusals,
                   vetted, asked, twice>>

\* _tool_resolve_user and _tool_resume_paused_chat open the chat they look up,
\* with no check.
LookUpUser(c) ==
    /\ Calls(OwnChat, "look up") /\ c \notin pairs
    /\ pairs' = pairs \cup {c} /\ seats' = seats \cup {c}
    /\ UNCHANGED <<limits, builder, wakes, runs, copy, changes, refusals, overstep,
                   vetted, asked, twice>>

\* The whole column is written, from the turn's copy.
WritesTriggers(w) ==
    /\ wakes' = w /\ copy' = [copy EXCEPT !.wakes = w]
    /\ UNCHANGED <<limits, builder, pairs, seats, runs, changes, refusals, overstep,
                   asked, twice>>

\* _tool_set_trigger and _tool_update_own_triggers of a builder turn.
SetTrigger(k, kind) ==
    /\ Calls(OwnChat, "trigger") /\ WritesTriggers([copy.wakes EXCEPT ![k] = kind])
    /\ vetted' = IF kind = "standing" /\ copy.builder = "builder_agent"
                 THEN vetted \cup {k} ELSE vetted

\* _check_require_expiry: an entry needs expires_at or max_fires, but a patch
\* of a flag that leaves enabled out is not looked at, and may take them away.
SetDisposable(k, kind) ==
    /\ Calls(OwnChat, "disposable")
    /\ kind = "standing" => k \in WakeFlags /\ copy.wakes[k] # "off"
    /\ WritesTriggers([copy.wakes EXCEPT ![k] = kind]) /\ vetted' = vetted

\* _tool_delete_own_trigger.
DropTrigger(k) ==
    /\ Calls(OwnChat, "drop") /\ copy.wakes[k] # "off"
    /\ WritesTriggers([copy.wakes EXCEPT ![k] = "off"]) /\ vetted' = vetted

\* _tool_schedule_one_off_task: the entries here go back as they were loaded.
ScheduleLater == Calls(OwnChat, "later") /\ WritesTriggers(copy.wakes) /\ vetted' = vetted

-----------------------------------------------------------------------------
(* The owner, and others. *)

\* patch_my_agent: the restrictions.
ChangeLimits(l) ==
    /\ changes < ToolChanges /\ l # limits
    /\ limits' = l /\ changes' = changes + 1
    /\ UNCHANGED <<builder, wakes, pairs, seats, runs, copy, refusals, overstep, vetted,
                   asked, twice>>

\* patch_my_agent: the triggers; or the trigger engine registers the chat of an
\* unknown sender, or lets a brief entry lapse.
ChangeTriggers(k, kind) ==
    /\ wakes' = [wakes EXCEPT ![k] = kind]
    /\ vetted' = IF kind = "standing" THEN vetted \cup {k} ELSE vetted
    /\ UNCHANGED <<limits, builder, pairs, seats, runs, copy, changes, refusals,
                   overstep, asked, twice>>

\* reset_my_agent: the row is as new and the history of the chat is gone.
ResetAgent ==
    /\ limits = DefaultLimits \/ changes < ToolChanges
    /\ limits' = DefaultLimits
    /\ changes' = IF limits = DefaultLimits THEN changes ELSE changes + 1
    /\ builder' = "one_off_action" /\ wakes' = NoWakes /\ asked' = "no"
    /\ copy' = [copy EXCEPT !.odd = runs[OwnChat].pc # "idle"]
    /\ UNCHANGED <<pairs, seats, runs, refusals, overstep, vetted, twice>>

\* Someone adds the owner to a group, or opens a private chat with them.
JoinChat(c) ==
    /\ c \notin seats \cup pairs
    /\ seats' = seats \cup {c} /\ pairs' = pairs \cup ({c} \ ToolGroups)
    /\ UNCHANGED <<limits, builder, wakes, runs, copy, changes, refusals, overstep,
                   vetted, asked, twice>>

GatesNext ==
    \/ \E r \in ToolRuns :
          \/ StartRun(r) \/ JudgeGate(r) \/ EndRun(r) \/ Deliver(r) \/ SearchChats(r)
          \/ \E c \in ToolChats : SendGate(r, c) \/ LeaveChat(r, c) \/ ReadChat(r, c)
          \/ \E c \in ToolChats \ ToolGroups : SendToNew(r, c)
    \/ RouteOwnerTurn \/ RouteFrozen \/ AskClarify \/ ScheduleLater \/ ResetAgent
    \/ \E c \in ToolChats \ ToolGroups : LookUpUser(c)
    \/ \E k \in WakeKeys :
          \/ DropTrigger(k)
          \/ \E kind \in {"brief", "standing"} :
                SetTrigger(k, kind) \/ SetDisposable(k, kind)
          \/ \E kind \in WakeKinds : ChangeTriggers(k, kind)
    \/ \E l \in OwnerLimits : ChangeLimits(l)
    \/ \E c \in ToolChats : JoinChat(c)

GatesSpec == GatesInit /\ [][GatesNext]_toolVars

-----------------------------------------------------------------------------
(* Properties. *)

\* The database refuses a turn only what the owner took away while it ran:
\* as the tools check first, there is at most one refusal per place and change
\* of the restrictions (the triggers of restriction_ddl.py behind execution.py).
RefusalsAreFew == \A r \in ToolRuns : refusals[r] <= changes

\* A chat is opened, or a blocked one read, against the restrictions only by a
\* turn that had loaded its copy before they changed (execution.py).
OnlyAgedTurnsCross == \A x \in overstep : x.aged

\* The owner is never asked twice in a row which of the two they mean: unless
\* a classification failed or the agent was reset under way, a question is
\* followed by a turn that acts (owner_chat_router.py, the clarify cap).
OneClarify == ~twice

\* A one-off turn never makes the wake-up entry of a chat permanent: one that is
\* was made so by the owner, the trigger engine or a builder turn, whatever
\* copies were written back (_check_require_expiry).
StandingIsBuilt ==
    \A k \in WakeKeys \ WakeFlags : wakes[k] = "standing" => k \in vetted

=============================================================================
