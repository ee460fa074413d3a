----------------------------- MODULE AgentBoard ------------------------------
(***************************************************************************)
(* The triggers of one agent (agents/goal_tasks.py, ephemeral_tasks.py,    *)
(* crud.py, schedule.py, invoke_poll_loops.py): one JSONB value holding    *)
(* the tasks and the schedule, read into a session, changed there and      *)
(* written back whole.  A session keeps what it read until it closes,      *)
(* whatever others commit; its first write takes the row lock, and the due *)
(* members in Redis are renewed before its commit (after it, in the REST   *)
(* API).  The cache of trigger_engine.py is AgentTriggers' subject.        *)
(***************************************************************************)
EXTENDS Naturals, FiniteSets

CONSTANTS
    Tasks,       \* task ids, each spawned once
    Relay,       \* the tasks that collect one reply of each chat
    TaskChats,   \* task -> chats it targets; a goal task has one
    Sessions,    \* database sessions: turns, requests, consumers
    Sweeper,     \* the session of the schedule loop's sweep
    MaxTasks,    \* AGENT_MAX_EPHEMERAL_TASKS
    MaxEntries,  \* AGENT_MAX_SCHEDULE_ENTRIES
    MaxTurns,    \* AGENT_GOAL_TASK_MAX_TURNS
    MaxIdle,     \* AGENT_GOAL_TASK_MAX_IDLE_TURNS
    MaxFires,    \* bound: fires of one entry that are told apart
    MaxLoads,    \* bound: sessions opened
    BoardFaults  \* bound: rollbacks, failed renewals of the members, resets,
                 \* toggles and replacements of the schedule

ASSUME BoardAssumption ==
    /\ Relay \subseteq Tasks
    /\ \A t \in Tasks \ Relay : Cardinality(TaskChats[t]) = 1
    /\ Sweeper \in Sessions
    /\ {MaxTurns, MaxIdle, MaxLoads, BoardFaults} \subseteq Nat /\ MaxFires \in Nat \ {0}

VARIABLES
    row,       \* Agent.triggers as committed
    enabled,   \* Agent.is_enabled
    holder,    \* {} or the session whose UPDATE is not committed
    mind,      \* session -> triggers it works on
    job,       \* session -> what it is doing
    due,       \* members of agent_schedule_due
    firing,    \* {} or the entry the schedule loop has enqueued
    fires,     \* entry -> turns enqueued for it, up to MaxFires
    expired,   \* tasks past their expires_at
    used,      \* [loads, faults]
    heard,     \* history: task -> chats whose reply was committed
    spawned,   \* history: tasks whose spawn was committed
    lapse      \* history: what can excuse a lost notice

boardVars == <<row, enabled, holder, mind, job, due, firing, fires,
               expired, used, heard, spawned, lapse>>

Peers == UNION {TaskChats[t] : t \in Tasks}
Openers(t) == {<<t, c>> : c \in TaskChats[t]}
Summary(t) == <<t, "owner">>
Entries == UNION {Openers(t) \cup {Summary(t)} : t \in Tasks}

Triggers == [open : SUBSET Tasks, got : [Tasks -> SUBSET Peers],
             turns : [Tasks -> 0..MaxTurns], idle : [Tasks -> 0..MaxIdle],
             sched : SUBSET Entries]
NoTriggers == [open |-> {}, got |-> [t \in Tasks |-> {}],
               turns |-> [t \in Tasks |-> 0], idle |-> [t \in Tasks |-> 0],
               sched |-> {}]
Jobs == {<<"none">>, <<"fresh">>, <<"sweep">>, <<"request">>, <<"resync">>, <<"last">>}
            \cup ({"turn", "reply"} \X Tasks)
Excuses == {"overlap", "early", "cap", "disabled", "fault", "reset", "replaced",
            "dropped"}

BoardTypeOK ==
    /\ row \in Triggers
    /\ mind \in [Sessions -> Triggers] /\ job \in [Sessions -> Jobs]
    /\ enabled \in BOOLEAN
    /\ holder \subseteq Sessions /\ Cardinality(holder) <= 1
    /\ due \subseteq Entries /\ firing \subseteq Entries
    /\ fires \in [Entries -> 0..MaxFires]
    /\ expired \subseteq Tasks /\ spawned \subseteq Tasks
    /\ used \in [loads : 0..MaxLoads, faults : 0..BoardFaults]
    /\ heard \in [Tasks -> SUBSET Peers]
    /\ lapse \subseteq Excuses

BoardInit ==
    /\ row = NoTriggers
    /\ mind = [s \in Sessions |-> NoTriggers]
    /\ job = [s \in Sessions |-> <<"none">>]
    /\ enabled = TRUE /\ holder = {} /\ due = {} /\ firing = {}
    /\ fires = [e \in Entries |-> 0]
    /\ expired = {} /\ spawned = {} /\ lapse = {}
    /\ used = [loads |-> 0, faults |-> 0]
    /\ heard = [t \in Tasks |-> {}]

-----------------------------------------------------------------------------
(* The triggers a write produces. *)

Active(b) == b.open \ expired

\* Mutant of GoalFor: a chat's task is looked up among the relays.
GoalForRelay(b, c) == {t \in Active(b) \cap Relay : c \in TaskChats[t]}

\* find_goal_task_for_chat.
GoalFor(b, c) == {t \in Active(b) \ Relay : c \in TaskChats[t]}

\* find_task_for_chat.
RelayFor(b, c) == {t \in Active(b) \cap Relay : c \in TaskChats[t]}

\* spawn_goal_task and spawn_ephemeral_task refuse past a cap, and a goal task
\* where its chat has an active one.
MaySpawn(b, t, openers) ==
    /\ Cardinality(b.open) < MaxTasks
    /\ openers = {} \/ Cardinality(b.sched \cup openers) <= MaxEntries
    /\ t \notin Relay => \A c \in TaskChats[t] : GoalFor(b, c) = {}

Spawned(b, t, openers) == [b EXCEPT !.open = @ \cup {t}, !.sched = @ \cup openers]

NoticeFits(b, t) == Cardinality(b.sched \cup {Summary(t)}) <= MaxEntries

\* Mutant of Closed: a relay task no one answered ends without a summary.
ClosedSilent(b, t) ==
    [b EXCEPT !.open = @ \ {t},
              !.sched = IF NoticeFits(b, t) /\ (t \in Relay => b.got[t] # {})
                        THEN @ \cup {Summary(t)} ELSE @]

\* close_goal_task and fire_summary_and_complete: the entry goes, a notice to
\* the owner is scheduled unless the schedule is full.
Closed(b, t) ==
    [b EXCEPT !.open = @ \ {t},
              !.sched = IF NoticeFits(b, t) THEN @ \cup {Summary(t)} ELSE @]

\* record_reply.
Answered(b, t, c) == [b EXCEPT !.got[t] = @ \cup {c}]

Complete(b, t) == TaskChats[t] \subseteq b.got[t]

\* _merge_triggers takes the on_schedule it is given, of which the entries that
\* are not of tasks are left out here.
Replaced(b, kept) == [b EXCEPT !.sched = kept]

\* sync_schedule_zset; a one-off entry is due at once.
DueAfter(b) == b.sched

-----------------------------------------------------------------------------
(* Sessions. *)

\* A session reads the row; every later read is answered from it.
Load(s) ==
    /\ job[s] = <<"none">> /\ s # Sweeper
    /\ used.loads < MaxLoads
    /\ used' = [used EXCEPT !.loads = @ + 1]
    /\ mind' = [mind EXCEPT ![s] = row]
    /\ job' = [job EXCEPT ![s] = <<"fresh">>]
    /\ UNCHANGED <<row, enabled, holder, due, firing, fires, expired,
                   heard, spawned, lapse>>

\* The flush: the row lock is taken, and what others committed since is lost.
Flush(s, b, why) ==
    /\ holder \subseteq {s}
    /\ holder' = {s}
    /\ mind' = [mind EXCEPT ![s] = b]
    /\ lapse' = lapse \cup why
                  \cup (IF holder = {} /\ mind[s] # row THEN {"overlap"} ELSE {})
    /\ UNCHANGED <<row, enabled, firing, fires, expired, heard, spawned>>

Disturbs == used.faults < BoardFaults /\ used' = [used EXCEPT !.faults = @ + 1]

\* What sync_schedule_zset leaves behind when an error of Redis, which it
\* swallows, meets it before the members are added or before stale ones go.
HalfDue(b) == {due, due \cup DueAfter(b), DueAfter(b)}

\* update_agent_triggers, and sync_schedule_zset where the schedule changed: the
\* write stands whether or not the members are renewed.
Persist(s, b, why) ==
    \/ /\ Flush(s, b, why)
       /\ UNCHANGED used
       /\ due' = IF b.sched = mind[s].sched THEN due ELSE DueAfter(b)
    \/ /\ Flush(s, b, why \cup {"fault"})
       /\ Disturbs
       /\ due' \in IF b.sched = mind[s].sched THEN {due} ELSE HalfDue(b)

Then(s, j) == job' = [job EXCEPT ![s] = j]
Leaves(s) == Then(s, <<"none">>) /\ mind' = [mind EXCEPT ![s] = NoTriggers]
Free(s) == holder # {s}
CloseTask(s, t) ==
    Persist(s, Closed(mind[s], t), IF NoticeFits(mind[s], t) THEN {} ELSE {"cap"})

\* A task's id is a new one.
Unknown(t) ==
    /\ t \notin spawned /\ Summary(t) \notin row.sched
    /\ \A r \in Sessions : t \notin mind[r].open /\ Summary(t) \notin mind[r].sched

\* start_goal_task and spawn_ephemeral_task, in a turn of the owner's chat.  A
\* goal task that comes with its opening message schedules no opener; where
\* the message is refused the task is closed again in the same turn.
SpawnTask(s, t) ==
    /\ job[s] = <<"fresh">> /\ enabled /\ Unknown(t)
    /\ \/ /\ MaySpawn(mind[s], t, Openers(t))
          /\ Persist(s, Spawned(mind[s], t, Openers(t)), {})
       \/ /\ t \notin Relay /\ MaySpawn(mind[s], t, {})
          /\ \/ Persist(s, Spawned(mind[s], t, {}), {})
             \/ Persist(s, Closed(Spawned(mind[s], t, {}), t), {})
    /\ Then(s, <<"last">>)

\* cancel_goal_task.
CancelTask(s, t) ==
    /\ job[s] = <<"fresh">> /\ enabled
    /\ \E c \in Peers : t \in GoalFor(mind[s], c)
    /\ CloseTask(s, t)
    /\ Then(s, <<"last">>)

\* begin_goal_turn: the turn is counted, or finds its budget spent.
BeginTurn(s, t) ==
    /\ job[s] = <<"fresh">> /\ enabled
    /\ \E c \in Peers : t \in GoalFor(mind[s], c)
    /\ IF mind[s].turns[t] >= MaxTurns
       THEN CloseTask(s, t) /\ Then(s, <<"last">>)
       ELSE /\ Persist(s, [mind[s] EXCEPT !.turns[t] = @ + 1], {})
            /\ Then(s, <<"turn", t>>)

\* complete_task and fail_task.
TurnCloses(s, t) ==
    /\ job[s] = <<"turn", t>> /\ Free(s)
    /\ CloseTask(s, t)
    /\ Then(s, <<"last">>)

\* record_turn_outcome: too many idle turns, or the last turn, close the task.
TurnEnds(s, t, acted) ==
    LET idle == IF acted THEN 0 ELSE mind[s].idle[t] + 1 IN
    /\ job[s] = <<"turn", t>> /\ Free(s)
    /\ IF idle >= MaxIdle \/ mind[s].turns[t] >= MaxTurns
       THEN CloseTask(s, t)
       ELSE Persist(s, [mind[s] EXCEPT !.idle[t] = idle], {})
    /\ Then(s, <<"last">>)

\* _evaluate_owner: a reply in a chat a relay task waits on; what matched was
\* the cache, and a goal task of the chat comes first only for the matching.
RecordReply(s, c) ==
    /\ job[s] = <<"fresh">> /\ enabled
    /\ \E t \in RelayFor(mind[s], c) :
         /\ Persist(s, Answered(mind[s], t, c), {})
         /\ Then(s, <<"reply", t>>)

\* The last reply: fire_summary_and_complete after record_reply's commit.
ReplyCompletes(s, t) ==
    /\ job[s] = <<"reply", t>> /\ Free(s)
    /\ Complete(mind[s], t)
    /\ CloseTask(s, t)
    /\ Then(s, <<"last">>)

\* Mutant of Overdue: goal tasks are left to their turns.
OverdueRelays(b) == b.open \cap expired \cap Relay

\* sweep_expired_task_ids.
Overdue(b) == b.open \cap expired

\* _sweep_expired_ephemeral_tasks reads the agents that are enabled ...
SweepLoad ==
    /\ job[Sweeper] = <<"none">> /\ enabled
    /\ Overdue(row) # {}
    /\ mind' = [mind EXCEPT ![Sweeper] = row]
    /\ Then(Sweeper, <<"sweep">>)
    /\ UNCHANGED <<row, enabled, holder, due, firing, fires, expired,
                   used, heard, spawned, lapse>>

\* ... and closes their tasks one by one, before one commit.
Sweep(t) ==
    /\ job[Sweeper] = <<"sweep">>
    /\ t \in Overdue(mind[Sweeper])
    /\ CloseTask(Sweeper, t)
    /\ UNCHANGED job

\* POST /agents/me/reset: the defaults; the members follow the commit.
Reset(s) ==
    /\ job[s] = <<"fresh">>
    /\ mind[s] # NoTriggers
    /\ Disturbs
    /\ Flush(s, NoTriggers, {"reset"})
    /\ UNCHANGED due
    /\ Then(s, <<"request">>)

\* A patch with an on_schedule replaces the list, which keeps some of the
\* entries it was made from; a notice among the others goes unsaid.
Replaces(s, kept) ==
    /\ job[s] = <<"fresh">>
    /\ kept # mind[s].sched
    /\ Disturbs
    /\ Flush(s, Replaced(mind[s], kept),
             {"replaced"} \cup (IF \E t \in Tasks : Summary(t) \in mind[s].sched \ kept
                               THEN {"dropped"} ELSE {}))

\* set_trigger and update_own_triggers, in a turn of the agent's.
ToolReplaces(s, kept) ==
    /\ enabled
    /\ Replaces(s, kept)
    /\ due' \in HalfDue(Replaced(mind[s], kept))
    /\ Then(s, <<"last">>)

\* PATCH /agents/me with an on_schedule, of the owner's.
PatchReplaces(s, kept) ==
    /\ Replaces(s, kept)
    /\ UNCHANGED due
    /\ Then(s, <<"request">>)

\* PATCH /agents/me with is_enabled, a column of its own.
Toggle(s) ==
    /\ job[s] = <<"fresh">> /\ holder = {}
    /\ Disturbs
    /\ enabled' = ~enabled
    /\ lapse' = lapse \cup {"disabled"}
    /\ Leaves(s)
    /\ UNCHANGED <<row, holder, due, firing, fires, expired,
                   heard, spawned>>

\* session.commit: the whole triggers value replaces the row's.  A session that
\* only had this write to do is closed.
Commit(s) ==
    /\ holder = {s}
    /\ job[s] = <<"sweep">> => Overdue(mind[s]) = {}
    /\ row' = mind[s]
    /\ holder' = {}
    /\ spawned' = spawned \cup mind[s].open
    /\ heard' = [t \in Tasks |-> heard[t] \cup mind[s].got[t]]
    /\ \/ job[s] \in {<<"last">>, <<"sweep">>} /\ Leaves(s)
       \/ job[s] = <<"request">> /\ Then(s, <<"resync">>) /\ UNCHANGED mind
       \/ job[s][1] \in {"turn", "reply"} /\ UNCHANGED <<job, mind>>
    /\ UNCHANGED <<enabled, due, firing, fires, expired, used, lapse>>

\* sync_schedule_zset after the commit, with what the session has in mind, if
\* Redis lets it.
Resync(s) ==
    /\ job[s] = <<"resync">>
    /\ due' \in HalfDue(mind[s])
    /\ Leaves(s)
    /\ UNCHANGED <<row, enabled, holder, firing, fires, expired, used,
                   heard, spawned, lapse>>

\* The session closes with nothing left to do.
EndSession(s) ==
    /\ Free(s) /\ job[s][1] \in {"fresh", "reply"}
    /\ job[s][1] = "reply" => ~Complete(mind[s], job[s][2])
    /\ Leaves(s)
    /\ UNCHANGED <<row, enabled, holder, due, firing, fires, expired,
                   used, heard, spawned, lapse>>

\* A failure: what was flushed is rolled back, and Redis keeps what it was told.
Rollback(s) ==
    /\ job[s] # <<"none">>
    /\ Disturbs
    /\ lapse' = lapse \cup {"fault"}
    /\ holder' = holder \ {s}
    /\ Leaves(s)
    /\ UNCHANGED <<row, enabled, due, firing, fires, expired, heard, spawned>>

-----------------------------------------------------------------------------
(* The schedule loop. *)

\* _fire_schedule_entry of a due member: a turn is enqueued for an entry the
\* committed row has, and a member it does not have (yet) is dropped.
FireEntry(e) ==
    /\ firing = {} /\ e \in due
    /\ IF enabled /\ e \in row.sched
       THEN /\ firing' = {e}
            /\ fires' = [fires EXCEPT ![e] = IF @ = MaxFires THEN @ ELSE @ + 1]
            /\ UNCHANGED <<due, lapse>>
       ELSE /\ due' = due \ {e}
            /\ lapse' = IF enabled THEN lapse \cup {"early"} ELSE lapse
            /\ UNCHANGED <<firing, fires>>
    /\ UNCHANGED <<row, enabled, holder, mind, job, expired, used, heard, spawned>>

\* enabled=False is flushed, waiting for the row, and never committed; then
\* the member goes.
FireEnds(e) ==
    /\ e \in firing /\ holder = {}
    /\ firing' = {}
    /\ due' = due \ {e}
    /\ UNCHANGED <<row, enabled, holder, mind, job, fires, expired, used,
                   heard, spawned, lapse>>

\* A deadline passes.
Deadline(t) ==
    /\ t \in spawned \ expired
    /\ expired' = expired \cup {t}
    /\ UNCHANGED <<row, enabled, holder, mind, job, due, firing, fires,
                   used, heard, spawned, lapse>>

BoardNext ==
    \/ \E s \in Sessions :
         \/ Load(s) \/ Commit(s) \/ EndSession(s) \/ Rollback(s)
         \/ Reset(s) \/ Toggle(s) \/ Resync(s)
         \/ \E t \in Tasks :
              \/ SpawnTask(s, t) \/ CancelTask(s, t) \/ BeginTurn(s, t)
              \/ TurnCloses(s, t) \/ ReplyCompletes(s, t)
              \/ \E acted \in BOOLEAN : TurnEnds(s, t, acted)
         \/ \E c \in Peers : RecordReply(s, c)
         \/ \E kept \in SUBSET mind[s].sched : ToolReplaces(s, kept) \/ PatchReplaces(s, kept)
    \/ \E e \in Entries : FireEntry(e) \/ FireEnds(e)
    \/ SweepLoad
    \/ \E t \in Tasks : Sweep(t) \/ Deadline(t)

\* The poll loop keeps ticking, and what took the row lock gives it back; a
\* turn or a request need not go on.
BoardFairness ==
    /\ \A s \in Sessions : WF_boardVars(Commit(s) \/ Resync(s))
    /\ WF_boardVars(SweepLoad \/ \E t \in Tasks : Sweep(t))
    /\ WF_boardVars(\E t \in Tasks : Deadline(t))
    /\ WF_boardVars(\E e \in Entries : FireEntry(e) \/ FireEnds(e))

BoardSpec == BoardInit /\ [][BoardNext]_boardVars /\ BoardFairness

-----------------------------------------------------------------------------
\* Every task that was begun and is gone has its notice to the owner in the
\* schedule: a task leaves the row in the write that schedules the notice.
\* What excuses a missing one is a write over a row that had changed, a
\* schedule at its cap, the owner's reset, and a patch whose new schedule, of
\* the owner's or of the agent's, leaves a notice out.
ClosedIsNoticed ==
    lapse \cap {"overlap", "cap", "reset", "dropped"} = {} =>
        \A t \in spawned \ row.open : Summary(t) \in row.sched

\* A notice in the schedule was fired or is due, except when the schedule loop
\* met the member before the commit, or the agent was disabled, or a write was
\* rolled back or its due members were not renewed, or the schedule was
\* replaced, or sessions overlapped.
NoticeIsDue ==
    lapse = {} => \A t \in Tasks :
        Summary(t) \in row.sched => fires[Summary(t)] > 0 \/ Summary(t) \in due

\* A reply that was committed is not forgotten while its task is open, unless
\* a session wrote over a row it had not read.
RepliesSurvive ==
    "overlap" \notin lapse => \A t \in row.open : heard[t] \subseteq row.got[t]

\* A chat has at most one active goal task, unless sessions overlapped.
OneGoalPerChat ==
    "overlap" \notin lapse => \A c \in Peers :
        Cardinality({t \in row.open \ (expired \cup Relay) : c \in TaskChats[t]}) <= 1

\* A task "must never linger" (goal_tasks.py): with its deadline past, the
\* sweep ends it whatever its turns and replies do, unless the agent is
\* disabled; a session that writes an old row back only delays it.
TaskCloses == \A t \in Tasks : t \in row.open ~> t \notin row.open \/ ~enabled

=============================================================================
