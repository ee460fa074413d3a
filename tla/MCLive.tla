------------------------------- MODULE MCLive --------------------------------
(***************************************************************************)
(* Small instances of what must happen in the end, for TLC: GatewayRouting *)
(* and GatewayPresence of the gateway, AgentBoard of the agent worker.     *)
(* They share no state here: a behaviour is one of a single module.  The   *)
(* others stay in an initial state with no obligation of fairness.         *)
(***************************************************************************)
EXTENDS GatewayRouting, GatewayPresence, AgentBoard, TLC

CONSTANTS s1, c1, c2, u1, h1, t1, t2

VARIABLE part   \* the module this behaviour is of

MCServers == {s1}
MCConns == {c1, c2}
MCUserOf == [c \in MCConns |-> u1]
Budgeted(e, c, f) == [events |-> e, changes |-> c, faults |-> f]
MCBudgets == {Budgeted(2, 0, 0), Budgeted(0, 1, 0), Budgeted(0, 1, 1)}

\* Two goal tasks in one chat.
MCTaskChats == (t1 :> {h1}) @@ (t2 :> {h1})

\* t1 was spawned, its entry fired, before the behaviour begins.
Began == [NoTriggers EXCEPT !.open = {t1}, !.sched = Openers(t1)]
BoardStart ==
    /\ row \in {NoTriggers, Began}
    /\ mind = [s \in Sessions |-> NoTriggers]
    /\ job = [s \in Sessions |-> <<"none">>]
    /\ enabled = TRUE /\ holder = {} /\ due = {} /\ firing = {}
    /\ fires = [e \in Entries |-> IF e \in row.sched THEN 1 ELSE 0]
    /\ expired = {} /\ spawned = row.open /\ lapse = {}
    /\ used = [loads |-> 0, faults |-> 0]
    /\ heard = [t \in Tasks |-> {}]

MCInit ==
    /\ Init /\ PresenceInit /\ BoardStart
    /\ part \in {"routing", "presence", "board"}
    /\ part # "routing" => member = {} /\ events = 2
    /\ part = "board" <=> row = Began
    /\ faults > 0 => member = {}
    /\ events = 0 /\ faults = 0 => member # {}

MCNext ==
    /\ UNCHANGED part
    /\ \/ part = "routing" /\ Next /\ UNCHANGED <<presVars, boardVars>>
       \/ part = "presence" /\ PresenceNext /\ UNCHANGED <<vars, boardVars>>
       \/ part = "board" /\ BoardNext /\ UNCHANGED <<vars, presVars>>

MCSpec ==
    /\ MCInit /\ [][MCNext]_<<part, vars, presVars, boardVars>>
    /\ Fairness /\ PresenceFairness /\ BoardFairness

-----------------------------------------------------------------------------
\* The gateway's variables keep their types, a served chat is registered, and
\* a connection's gap in a chat is remembered until it is reported.
RoutesHold == TypeOK /\ PresenceTypeOK /\ ServedIsRegistered /\ GapIsKnown

=============================================================================
