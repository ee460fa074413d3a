------------------------- MODULE MCPlatformServices --------------------------
(***************************************************************************)
(* Small instances of the platform and of the agent's own services for     *)
(* TLC: ConnectionCap, RateWindows, SlidingWindow, SnowflakeIds, Handles   *)
(* and Sessions; AgentBoard, AgentTriggers, AgentTools, BulkFetch and      *)
(* Knowledge.  They share no state here: a behaviour is one of a single    *)
(* component, while the others stay in one initial state.  Of AgentTools   *)
(* there are two kinds: in one the restrictions and the owner's chats      *)
(* change (gates), in the other the router's state and the triggers        *)
(* (wakes).                                                                *)
(***************************************************************************)
EXTENDS ConnectionCap, AgentBoard, AgentTriggers, AgentTools, RateWindows,
        SlidingWindow, SnowflakeIds, Handles, Sessions, BulkFetch, Knowledge, TLC

VARIABLE part   \* the component this behaviour is of

CONSTANTS t1, t2, c1, c2, m1, m2, a1, a2, a3, a4, b1, b2, s1, s2, p1, p2, l1, l2

\* t1 waits on two chats, t2 is a goal task in the first.
MCTaskChats == (t1 :> {c1, c2}) @@ (t2 :> {c1})
MCTrigChatOf == (m1 :> c1) @@ (m2 :> c1)
\* Work of one unit and of two.
MCWeight == (b1 :> 1) @@ (b2 :> 2)
\* Three callers in one process and one in another, which has a fast clock.
MCServerOf == (a1 :> p1) @@ (a2 :> p1) @@ (a3 :> p1) @@ (a4 :> p2)
MCAhead == (p1 :> 0) @@ (p2 :> 1)
\* A process's thread, of which one at a time mints, and two of the Rust service.
MCProcOf == (a1 :> p1) @@ (s1 :> p2) @@ (s2 :> p2)
MCMachineOf == (p1 :> 1) @@ (p2 :> 2)
\* One account is there already; the logins are of the other number.
MCStart == (p1 :> "no name") @@ (p2 :> m1)
MCPhoneOf == (l1 :> p1) @@ (l2 :> p1)
\* The owner lets the agent into groups but bars it from new contacts, or takes
\* away the group's messages and its sending.
MCOwnerLimits == {[may |-> Permissions \ {"fresh"}, blocked |-> {}],
                  [may |-> {"private", "fresh"}, blocked |-> {c1}]}

\* Tasks that were spawned, their entries fired, before the behaviour begins.
Began(ts) == [NoTriggers EXCEPT !.open = ts, !.sched = UNION {Openers(t) : t \in ts}]

\* The last turn of the goal task began, and was lost.
LastTurn == [Began({t2}) EXCEPT !.turns[t2] = MaxTurns]

\* The row, and the sessions opened and faults met when it begins: two sessions
\* and no fault, or one of each.
BoardStarts ==
    LET After(l, f) == [loads |-> l, faults |-> f] IN
    {<<NoTriggers, After(0, BoardFaults)>>, <<NoTriggers, After(1, 0)>>,
     <<Began(Tasks), After(0, BoardFaults)>>, <<Began({t1}), After(1, 0)>>,
     <<LastTurn, After(1, BoardFaults)>>}

BoardStart ==
    /\ \E b \in BoardStarts : row = b[1] /\ used = b[2]
    /\ mind = [s \in Sessions |-> NoTriggers]
    /\ job = [s \in Sessions |-> <<"none">>]
    /\ enabled = TRUE /\ holder = {} /\ due = {} /\ firing = {}
    /\ fires = [e \in Entries |-> IF e \in row.sched THEN 1 ELSE 0]
    /\ expired = {} /\ spawned = row.open /\ lapse = {}
    /\ heard = [t \in Tasks |-> {}]

\* Two readings of the agent's row and no failure, or one of each.
TrigStarts == {[changes |-> 0, faults |-> TrigFaults], [changes |-> 1, faults |-> 0]}

MCInit ==
    /\ part \in {"caps", "board", "triggers", "rates", "slides", "ids", "handles", "sessions", "fetches",
                "knowledge", "gates", "wakes"}
    /\ CapInit /\ BoardStart /\ TrigFresh /\ trigUsed \in TrigStarts /\ RateInit /\ SlideInit
    /\ IdsInit /\ HandlesInit /\ SessionsInit /\ BulkInit /\ KnowInit /\ GatesInit
    /\ part # "board" => row = NoTriggers /\ used.loads = 0
    /\ part # "triggers" => trigUsed.changes = 0
    /\ part # "fetches" => inChat = Ids
    /\ part # "knowledge" => bucket = Files

MCNext ==
    /\ UNCHANGED part
    /\ \/ /\ part = "caps" /\ CapNext
          /\ UNCHANGED <<boardVars, trigVars, rateVars, slideVars, idVars, handleVars,
                         sessionVars, bulkVars, knowVars, toolVars>>
       \/ /\ part = "board" /\ BoardNext
          /\ UNCHANGED <<capVars, trigVars, rateVars, slideVars, idVars, handleVars,
                         sessionVars, bulkVars, knowVars, toolVars>>
       \/ /\ part = "triggers" /\ TrigNext
          /\ UNCHANGED <<capVars, boardVars, rateVars, slideVars, idVars, handleVars,
                         sessionVars, bulkVars, knowVars, toolVars>>
       \/ /\ part = "rates" /\ RateNext
          /\ UNCHANGED <<capVars, boardVars, trigVars, slideVars, idVars, handleVars,
                         sessionVars, bulkVars, knowVars, toolVars>>
       \/ /\ part = "slides" /\ SlideNext
          /\ UNCHANGED <<capVars, boardVars, trigVars, rateVars, idVars, handleVars,
                         sessionVars, bulkVars, knowVars, toolVars>>
       \/ /\ part = "ids" /\ IdsNext
          /\ UNCHANGED <<capVars, boardVars, trigVars, rateVars, slideVars,
                         handleVars, sessionVars, bulkVars, knowVars, toolVars>>
       \/ /\ part = "handles" /\ HandlesNext
          /\ UNCHANGED <<capVars, boardVars, trigVars, rateVars, slideVars, idVars,
                         sessionVars, bulkVars, knowVars, toolVars>>
       \/ /\ part = "sessions" /\ SessionsNext
          /\ UNCHANGED <<capVars, boardVars, trigVars, rateVars, slideVars, idVars,
                         handleVars, bulkVars, knowVars, toolVars>>
       \/ /\ part = "fetches" /\ BulkNext
          /\ UNCHANGED <<capVars, boardVars, trigVars, rateVars, slideVars, idVars,
                         handleVars, sessionVars, knowVars, toolVars>>
       \/ /\ part = "knowledge" /\ KnowNext
          /\ UNCHANGED <<capVars, boardVars, trigVars, rateVars, slideVars, idVars,
                         handleVars, sessionVars, bulkVars, toolVars>>
       \/ /\ part = "gates" /\ GatesNext /\ UNCHANGED <<wakes, builder, asked>>
          /\ UNCHANGED <<capVars, boardVars, trigVars, rateVars, slideVars, idVars,
                         handleVars, sessionVars, bulkVars, knowVars>>
       \/ /\ part = "wakes" /\ GatesNext /\ UNCHANGED <<limits, seats, overstep>>
          /\ UNCHANGED <<capVars, boardVars, trigVars, rateVars, slideVars, idVars,
                         handleVars, sessionVars, bulkVars, knowVars>>

AllVars == <<part, capVars, boardVars, trigVars, rateVars, slideVars, idVars,
             handleVars, sessionVars, bulkVars, knowVars, toolVars>>
MCSpec == MCInit /\ [][MCNext]_AllVars

-----------------------------------------------------------------------------
(* Each component's invariants, with the types of its variables. *)

\* Limits: of connections, of calls in a fixed and in a sliding window.
LimitsHold ==
    /\ CapTypeOK /\ CapHolds
    /\ RateTypeOK /\ WindowHolds
    /\ SlideTypeOK /\ SlidingHolds

\* Tasks: the owner hears of each that ended, and replies are kept.
TasksHold == BoardTypeOK /\ ClosedIsNoticed /\ NoticeIsDue /\ RepliesSurvive

\* Triggers: fires are counted, and what was silenced stays silent.
TriggersHold == TrigTypeOK /\ FiresAreAccounted /\ QuietIsKept

\* Accounts: handles, their quota and the tokens of a login.
AccountsHold ==
    /\ HandlesTypeOK /\ HandleHeld /\ QuotaHolds
    /\ SessionsTypeOK /\ SessionIsOne

\* Tools: a fetch is whole and confirmed, documents have files and a quota, and
\* a turn keeps to what the owner lets it do.
ToolsHold ==
    /\ BulkTypeOK /\ LastPageIsLast /\ OneFetchPerCount
    /\ KnowTypeOK /\ QuotaIsKept /\ DocHasItsFile
    /\ ToolTypeOK /\ RefusalsAreFew /\ OnlyAgedTurnsCross /\ OneClarify /\ StandingIsBuilt

=============================================================================
