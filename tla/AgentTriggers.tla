---------------------------- MODULE AgentTriggers ----------------------------
(***************************************************************************)
(* Does a message wake the agent of another participant?  The trigger      *)
(* engine (agents/trigger_engine.py, trigger_queue.py, trigger_worker.py)  *)
(* matches a cached copy of the triggers, looks at the row again, charges  *)
(* the quotas, spends a fire of a disposable trigger and arms the          *)
(* debounce, each in an await of its own.  The owner's requests and the    *)
(* tools of the agent's turns rewrite the row and the copy meanwhile: a    *)
(* request commits and then renews the copy, a tool renews it before the   *)
(* commit, and a renewal that fails is only logged.  One agent; a chat is  *)
(* a private one, so a chat stands for its sender.                         *)
(***************************************************************************)
EXTENDS Naturals, Sequences, FiniteSets, SequencesExt

CONSTANTS
    TrigMessages, \* messages, each of one chat
    TrigChats,
    TrigChatOf,   \* message -> its chat
    Firsts,       \* messages that are the first of their chat
    MaxLeft,      \* max_fires of a disposable on_specific_chats entry
    MaxAuto,      \* AGENT_MAX_AUTO_CHATS
    TrigQuota,    \* AGENT_ACTIVATION_QUOTA_PER_HOUR
    MaxAttempts,  \* AGENT_TRIGGER_MAX_ATTEMPTS
    TrigChanges,  \* bound: times the owner or a turn of the agent reads the row
    TrigFaults    \* bound: infrastructure failures and crashes

ASSUME TriggersAssumption ==
    /\ IsFiniteSet(TrigMessages) /\ TrigChatOf \in [TrigMessages -> TrigChats]
    /\ {MaxLeft, TrigQuota, TrigChanges, TrigFaults} \subseteq Nat
    /\ {MaxAuto, MaxAttempts} \subseteq Nat \ {0}

VARIABLES
    rules,     \* the agent's row: triggers and pauses, as committed
    on,        \* is_enabled
    gate,      \* the owner is in agent:enabled_owners
    cached,    \* {} or the set of the one cached copy
    at,        \* message -> step of its evaluation
    mine,      \* message -> the rules its evaluation has in memory
    writer,    \* {} or the message whose evaluation holds the row
    tries,     \* message -> attempts so far
    edit,      \* the owner's request or the agent's turn at work on the row
    late,      \* copies of committed rows that are still to be cached
    charges,   \* the activation counter
    armed,     \* chat -> fires spent on a turn that was armed
    wasted,    \* chat -> fires spent on none
    hushed,    \* history: messages no row had anything for since they were queued
    deleted,   \* history: chats whose entry was deleted
    raced,     \* history: rules were written from an aged copy
    misled,    \* history: a message went on that the row had nothing for
    strayed,     \* history: a renewal of the cached copy failed, or was of no use
    trigUsed   \* [changes, faults]

trigVars == <<rules, on, gate, cached, at, mine, writer, edit, late, tries, charges,
              armed, wasted, hushed, deleted, raced, misled, strayed, trigUsed>>

Rules == [left : [TrigChats -> 0..MaxLeft], auto : Seq(TrigChats),
          first : BOOLEAN, paused : SUBSET TrigChats]
FirstRules == [left |-> [c \in TrigChats |-> MaxLeft], auto |-> <<>>,
               first |-> TRUE, paused |-> {}]
NoEdit == [at |-> "none", copy |-> FirstRules, gone |-> {}]
Steps == {"new", "queued", "missed", "matched", "checked", "charged",
          "registering", "registered", "spending", "spent", "armed", "dropped"}

TrigTypeOK ==
    /\ rules \in Rules /\ cached \subseteq Rules /\ Cardinality(cached) <= 1
    /\ at \in [TrigMessages -> Steps] /\ mine \in [TrigMessages -> Rules]
    /\ on \in BOOLEAN /\ gate \in BOOLEAN
    /\ raced \in BOOLEAN /\ misled \in BOOLEAN /\ strayed \in BOOLEAN
    /\ writer \subseteq TrigMessages /\ Cardinality(writer) <= 1
    /\ edit \in [at : {"none", "read", "wrote"}, copy : Rules, gone : SUBSET TrigChats]
    /\ late \subseteq [n : 0..TrigChanges, row : Rules, on : BOOLEAN]
    /\ tries \in [TrigMessages -> 0..MaxAttempts]
    /\ charges \in Nat /\ deleted \subseteq TrigChats
    /\ armed \in [TrigChats -> Nat] /\ wasted \in [TrigChats -> Nat]
    /\ hushed \subseteq TrigMessages
    /\ trigUsed \in [changes : 0..TrigChanges, faults : 0..TrigFaults]

TrigFresh ==
    /\ rules = FirstRules /\ cached = {} /\ on = TRUE /\ gate = TRUE
    /\ at = [m \in TrigMessages |-> "new"]
    /\ mine = [m \in TrigMessages |-> FirstRules]
    /\ writer = {} /\ deleted = {} /\ hushed = {} /\ edit = NoEdit /\ late = {}
    /\ raced = FALSE /\ misled = FALSE /\ strayed = FALSE
    /\ tries = [m \in TrigMessages |-> 0]
    /\ charges = 0
    /\ armed = [c \in TrigChats |-> 0] /\ wasted = [c \in TrigChats |-> 0]

TrigInit == TrigFresh /\ trigUsed = [changes |-> 0, faults |-> 0]

-----------------------------------------------------------------------------
(* What matches, and what a fire leaves. *)

\* _matches_trigger_config: an exhausted entry is as good as none.
MatchesChat(r, c) == r.left[c] > 0 \/ c \in ToSet(r.auto)

\* _matches_unknown_sender.
MatchesUnknown(r, m) == r.first /\ m \in Firsts

\* The paused chats are skipped before anything is matched.
Matches(r, m) ==
    LET c == TrigChatOf[m] IN
    c \notin r.paused /\ (MatchesChat(r, c) \/ MatchesUnknown(r, m))

\* auto_register_unknown_sender_chat: the oldest auto-added chat makes room.
Registered(r, c) ==
    IF MatchesChat(r, c) THEN r
    ELSE [r EXCEPT !.auto = IF Len(@) < MaxAuto THEN Append(@, c) ELSE Append(Tail(@), c)]

\* consume_matched_trigger_fire: a disposable entry has one fire less.
Spent(r, c) == [r EXCEPT !.left[c] = IF @ = 0 THEN 0 ELSE @ - 1]

\* delete_agent_trigger, of the chat's entry and of on_unknown_sender.
Without(r, c) == [r EXCEPT !.left[c] = 0, !.auto = RemoveFirst(@, c), !.first = FALSE]

-----------------------------------------------------------------------------
(* The cached copy. *)

\* Whoever has flushed the row holds it until the commit.
RowHeld == writer # {} \/ edit.at = "wrote"

\* The row, or what it is when what was flushed is committed.
Coming ==
    IF edit.at = "wrote" THEN {edit.copy}
    ELSE IF writer = {} THEN {rules}
    ELSE {[mine[w] EXCEPT !.paused = rules.paused] : w \in writer}

\* A failure of Redis.
Hiccup ==
    /\ trigUsed.faults < TrigFaults
    /\ trigUsed' = [trigUsed EXCEPT !.faults = @ + 1]

\* sync_agent_cache writes the copy in memory; an error is only logged.
Syncs(r) ==
    \/ /\ cached' = {r} /\ gate' = TRUE
       /\ strayed' = (strayed \/ r \notin Coming')
       /\ UNCHANGED trigUsed
    \/ /\ Hiccup
       /\ strayed' = TRUE
       /\ UNCHANGED <<cached, gate>>

\* Messages that a new row, or row to be, has something for.
Hears == hushed' = {m \in hushed : \A r \in {rules'} \cup Coming' : ~Matches(r, m)}

-----------------------------------------------------------------------------
(* The evaluation of one message. *)

Goes(m, step) == at' = [at EXCEPT ![m] = step]
Thinks(m, r) == mine' = [mine EXCEPT ![m] = r]

\* maybe_enqueue_trigger_eval: the fan-out worker asks the gate.
Queue(m) ==
    /\ at[m] = "new"
    /\ Goes(m, IF gate THEN "queued" ELSE "dropped")
    /\ hushed' = IF late = {} /\ \A r \in {rules} \cup Coming : ~Matches(r, m)
                 THEN hushed \cup {m} ELSE hushed
    /\ UNCHANGED <<rules, on, gate, cached, mine, writer, edit, late, tries, charges,
                   armed, wasted, deleted, raced, misled, strayed, trigUsed>>

\* _load_trigger_cfg: the cached copy, or on a miss the row.
LoadCfg(m) ==
    /\ at[m] = "queued"
    /\ IF gate /\ cached # {}
       THEN /\ Goes(m, IF \E r \in cached : Matches(r, m) THEN "matched" ELSE "dropped")
            /\ UNCHANGED mine
       ELSE /\ Goes(m, IF on THEN "missed" ELSE "dropped")
            /\ Thinks(m, rules)
    /\ UNCHANGED <<rules, on, gate, cached, writer, edit, late, tries, charges, armed,
                   wasted, hushed, deleted, raced, misled, strayed, trigUsed>>

\* ... which sync_agent_cache then caches.
FillCache(m) ==
    /\ at[m] = "missed"
    /\ UNCHANGED <<rules, on, mine, writer, edit, late, tries, charges, armed, wasted,
                   hushed, deleted, raced, misled>>
    /\ Syncs(mine[m])
    /\ Goes(m, IF Matches(mine[m], m) THEN "matched" ELSE "dropped")

\* get_agent_by_id, then is_enabled and the pauses again; what matched is not
\* asked again, and may have been spent since.
Allowed(m) == on /\ TrigChatOf[m] \notin rules.paused

Recheck(m) ==
    /\ at[m] = "matched"
    /\ Thinks(m, rules)
    /\ Goes(m, IF Allowed(m) THEN "checked" ELSE "dropped")
    /\ misled' = (misled \/ (Allowed(m) /\ ~Matches(rules, m)))
    /\ UNCHANGED <<rules, on, gate, cached, writer, edit, late, tries, charges, armed,
                   wasted, hushed, deleted, raced, strayed, trigUsed>>

\* _consume: over the quota the message only tells the owner, once a window.
Charge(m) ==
    /\ at[m] = "checked"
    /\ charges' = charges + 1
    /\ Goes(m, IF charges < TrigQuota THEN "charged" ELSE "dropped")
    /\ UNCHANGED <<rules, on, gate, cached, mine, writer, edit, late, tries, armed,
                   wasted, hushed, deleted, raced, misled, strayed, trigUsed>>

\* The flush of a row that changed waits for the row; the copy is cached
\* before the commit.
Writes(m, r) ==
    /\ r # mine[m] => writer \subseteq {m} /\ edit.at # "wrote"
    /\ Thinks(m, r)
    /\ writer' = IF r = mine[m] THEN writer ELSE {m}
    /\ raced' = (raced \/ [mine[m] EXCEPT !.paused = rules.paused] # rules)
    /\ UNCHANGED <<rules, on, edit, late, tries, charges, armed, wasted, deleted, misled>>
    /\ Syncs(r) /\ Hears

\* auto_register_unknown_sender_chat.
Register(m) ==
    /\ at[m] = "charged"
    /\ IF MatchesUnknown(mine[m], m)
       THEN Writes(m, Registered(mine[m], TrigChatOf[m])) /\ Goes(m, "registering")
       ELSE Goes(m, "registered") /\ UNCHANGED <<rules, on, gate, cached, mine,
               writer, edit, late, tries, charges, armed, wasted, hushed, deleted,
               raced, misled, strayed, trigUsed>>

\* consume_matched_trigger_fire and sync_agent_cache, before the commit.
Spend(m) ==
    /\ at[m] = "registered"
    /\ Writes(m, Spent(mine[m], TrigChatOf[m]))
    /\ Goes(m, "spending")

\* session.commit: the triggers column is replaced, the pauses are not.
CommitRules(m) ==
    /\ at[m] \in {"registering", "spending"}
    /\ rules' = IF writer = {m} THEN [mine[m] EXCEPT !.paused = rules.paused] ELSE rules
    /\ writer' = writer \ {m}
    /\ Goes(m, IF at[m] = "registering" THEN "registered" ELSE "spent")
    /\ UNCHANGED <<on, gate, cached, mine, edit, late, tries, charges, armed, wasted,
                   hushed, deleted, raced, misled, strayed, trigUsed>>

ByEntry(m) == TrigChatOf[m] \notin ToSet(mine[m].auto)

\* _arm_debounce_eager.
Arm(m) ==
    /\ at[m] = "spent"
    /\ Goes(m, "armed")
    /\ armed' = IF ByEntry(m) THEN [armed EXCEPT ![TrigChatOf[m]] = @ + 1] ELSE armed
    /\ UNCHANGED <<rules, on, gate, cached, mine, writer, edit, late, tries, charges,
                   wasted, hushed, deleted, raced, misled, strayed, trigUsed>>

Breaks(m) ==
    /\ at[m] \notin {"new", "queued", "armed", "dropped"}
    /\ Hiccup
    /\ writer' = writer \ {m}
    /\ wasted' = IF at[m] = "spent" /\ ByEntry(m) THEN [wasted EXCEPT ![TrigChatOf[m]] = @ + 1] ELSE wasted
    /\ strayed' = (strayed \/ m \in writer)
    /\ UNCHANGED <<rules, on, gate, cached, mine, edit, late, armed, hushed, deleted, raced, misled>>

Charged == {"charged", "registering", "registered", "spending", "spent"}

\* An infrastructure error: rollback, refund, and a new entry while the
\* attempts last; what was committed before the error stays.
Fail(m) ==
    /\ Breaks(m)
    /\ charges' = IF at[m] \in Charged /\ charges > 0 THEN charges - 1 ELSE charges
    /\ tries' = [tries EXCEPT ![m] = @ + 1]
    /\ Goes(m, IF tries[m] + 1 < MaxAttempts THEN "queued" ELSE "dropped")

\* The worker dies: nothing is refunded and the entry is claimed by another.
WorkerDies(m) == Breaks(m) /\ Goes(m, "queued") /\ UNCHANGED <<tries, charges>>

-----------------------------------------------------------------------------
(* The owner's requests and the agent's turns, one at a time. *)

Apart == UNCHANGED <<at, mine, writer, tries, charges, armed, wasted, misled>>

\* The session of a request or a turn loads the row, and does not again.
ReadRow ==
    /\ edit.at # "wrote"
    /\ trigUsed.changes < TrigChanges
    /\ trigUsed' = [trigUsed EXCEPT !.changes = @ + 1]
    /\ edit' = [at |-> "read", copy |-> rules, gone |-> {}]
    /\ Apart /\ UNCHANGED <<rules, on, gate, cached, late, hushed, deleted, raced, strayed>>

Aged == [edit.copy EXCEPT !.paused = rules.paused] # rules

\* A request commits; its copy of the row is cached by Renew.
Saves(row, copy) ==
    /\ edit.at = "read" /\ ~RowHeld
    /\ rules' = row
    /\ late' = late \cup {[n |-> trigUsed.changes, row |-> copy, on |-> on']}
    /\ edit' = NoEdit
    /\ strayed' = (strayed \/ copy # row)
    /\ Apart /\ UNCHANGED <<gate, cached, trigUsed>>
    /\ Hears

\* Mutant of OwnerDeletes: the request ends without sync_agent_cache.
OwnerDeletesOnly(c) ==
    /\ edit.at = "read" /\ ~RowHeld
    /\ rules' = [Without(edit.copy, c) EXCEPT !.paused = rules.paused]
    /\ edit' = NoEdit
    /\ deleted' = deleted \cup {c}
    /\ raced' = (raced \/ Aged)
    /\ Apart /\ UNCHANGED <<on, gate, cached, late, strayed, trigUsed>>
    /\ Hears

\* PATCH /agents/me without the chat's entry replaces the triggers column.
OwnerDeletes(c) ==
    /\ UNCHANGED on
    /\ Saves([Without(edit.copy, c) EXCEPT !.paused = rules.paused], Without(edit.copy, c))
    /\ deleted' = deleted \cup {c}
    /\ raced' = (raced \/ Aged)

\* resume_chat: the pauses are a column of their own.
Resume(c) ==
    /\ UNCHANGED <<on, deleted, raced>>
    /\ LET open == edit.copy.paused \ {c} IN
       Saves([rules EXCEPT !.paused = open], [edit.copy EXCEPT !.paused = open])

\* PATCH /agents/me with is_enabled.
Switch ==
    /\ on' = ~on
    /\ Saves(rules, edit.copy)
    /\ UNCHANGED <<deleted, raced>>

\* ... then sync_agent_cache, which may fail; requests may overtake each other.
Renew(p) ==
    /\ p \in late /\ late' = late \ {p}
    /\ \/ /\ cached' = IF p.on THEN {p.row} ELSE {}
          /\ gate' = p.on
          /\ strayed' = (strayed \/ (late' = {} /\ ~(cached' \subseteq Coming)))
          /\ UNCHANGED trigUsed
       \/ /\ Hiccup
          /\ strayed' = TRUE
          /\ UNCHANGED <<cached, gate>>
    /\ Apart /\ UNCHANGED <<rules, on, edit, hushed, deleted, raced>>

\* A tool of a turn flushes a column and caches its copy of the row.
Flushes(row, copy, gone) ==
    /\ edit.at = "read" /\ ~RowHeld /\ on
    /\ edit' = [at |-> "wrote", copy |-> row, gone |-> gone]
    /\ Apart /\ UNCHANGED <<rules, on, late, deleted>>
    /\ Syncs(copy) /\ Hears

\* delete_own_trigger.
TurnDeletes(c) ==
    /\ Flushes([Without(edit.copy, c) EXCEPT !.paused = rules.paused], Without(edit.copy, c), {c})
    /\ raced' = (raced \/ Aged)

\* pause_and_escalate, and the config tool that resumes a chat.
TurnPauses(c) ==
    /\ LET shut == IF c \in edit.copy.paused THEN edit.copy.paused \ {c}
                   ELSE edit.copy.paused \cup {c}
       IN  Flushes([rules EXCEPT !.paused = shut], [edit.copy EXCEPT !.paused = shut], {})
    /\ UNCHANGED raced

\* The turn commits at its end.
TurnCommits ==
    /\ edit.at = "wrote"
    /\ rules' = edit.copy
    /\ deleted' = deleted \cup edit.gone
    /\ edit' = NoEdit
    /\ Apart /\ UNCHANGED <<on, gate, cached, late, hushed, raced, strayed, trigUsed>>

\* The turn fails after the tool: a rollback, and nobody renews the copy.
TurnFails ==
    /\ edit.at = "wrote"
    /\ Hiccup
    /\ edit' = NoEdit
    /\ strayed' = TRUE
    /\ Apart /\ UNCHANGED <<rules, on, gate, cached, late, hushed, deleted, raced>>

\* reconcile_enabled_owners.
Reconcile ==
    /\ gate # on
    /\ gate' = on
    /\ UNCHANGED <<rules, on, cached, at, mine, writer, edit, late, tries, charges,
                   armed, wasted, hushed, deleted, raced, misled, strayed, trigUsed>>

TrigNext ==
    \/ \E m \in TrigMessages :
         \/ Queue(m) \/ LoadCfg(m) \/ FillCache(m) \/ Recheck(m) \/ Charge(m)
         \/ Register(m) \/ Spend(m) \/ CommitRules(m) \/ Arm(m)
         \/ Fail(m) \/ WorkerDies(m)
    \/ \E c \in TrigChats : OwnerDeletes(c) \/ Resume(c) \/ TurnDeletes(c) \/ TurnPauses(c)
    \/ \E p \in late : Renew(p)
    \/ ReadRow \/ Switch \/ TurnCommits \/ TurnFails \/ Reconcile

TrigSpec == TrigInit /\ [][TrigNext]_trigVars

-----------------------------------------------------------------------------
\* Every fire an entry lost was spent on a turn that was armed, or is about to
\* be, or was lost with a failure between the commit and the arming; so an
\* entry wakes the agent at most max_fires times.  Only a write from a copy of
\* the rules that had aged, or a message that matched when the row had nothing
\* for it, breaks the account.
FiresAreAccounted ==
    ~raced /\ ~misled => \A c \in TrigChats \ deleted :
        MaxLeft - rules.left[c] = armed[c] + wasted[c] + Cardinality(
            {m \in TrigMessages : TrigChatOf[m] = c /\ at[m] = "spent" /\ ByEntry(m)})

\* A message that was queued when no copy was on its way to the cache, and for
\* which neither the row nor a row about to be committed had anything since,
\* as its chat's entry was deleted or spent or the chat paused, does not wake
\* the agent: the copy that is matched first is that row.  This needs every
\* renewal of the copy to succeed, from a row that has not aged, in the order
\* of the commits, and the commit it ran ahead of to follow: the row is not
\* asked again, so a lost renewal keeps waking the agent.
QuietIsKept == ~strayed => \A m \in hushed : at[m] # "armed"

=============================================================================
