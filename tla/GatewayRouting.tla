--------------------------- MODULE GatewayRouting ----------------------------
(***************************************************************************)
(* Routing of live events by the Rust gateway (crates/ws_gateway: ws.rs,   *)
(* fanin.rs, routing.rs, state.rs) and the publishing side in Python       *)
(* (realtime_service.py, fanout/routing.py, chats/notifications.py).  A    *)
(* process registers in Redis the chats it serves on the edges of its      *)
(* local table, learns of membership changes over a channel per user, and  *)
(* pushes chat events into a bounded queue per connection, remembering the *)
(* chats whose frames it dropped until the client's next heartbeat.        *)
(* A step ends where the code awaits Redis; a connection id is used once.  *)
(***************************************************************************)
EXTENDS Naturals, Sequences, FiniteSets

CONSTANTS
    Servers,     \* gateway processes; a restarted one has a new id
    Conns,       \* connection ids
    Users,
    Chats,
    UserOf,      \* connection -> its user
    QueueCap,    \* capacity of a connection's outbound queue
    Budgets      \* bounds of a behaviour: chat events, membership changes, and
                 \* faults (failed calls, dropped pub/sub, dead processes)

ASSUME RoutingAssumption ==
    /\ UserOf \in [Conns -> Users] /\ Conns \cap Servers = {} /\ QueueCap \in Nat

None == [do |-> "none"]

VARIABLES
    pc,         \* connection -> where its task is
    at,         \* connection -> the process it is on
    todo,       \* connection -> chats it has yet to join or deregister
    edge,       \* connection -> user_first, then user_gone
    subs,       \* AppState.chat_subs: process -> chat -> connections
    op,         \* a task's Redis call in flight: of a connection or a fan-in
    commands,   \* process -> SubCmds for its fan-in task
    channels,   \* process -> users whose channel it is subscribed to
    inbox,      \* process -> pub/sub messages on their way to its fan-in
    fanin,      \* process -> membership notice its fan-in is applying
    queue,      \* connection -> frames for its writer
    dropped,    \* AppState.dropped_chats
    instances,  \* chat_instances in Redis: chat -> processes
    served,     \* instance_chats in Redis: process -> chats
    beat,       \* process -> chats its heartbeat read and has yet to write
    up,         \* processes that run
    member,     \* rows <<user, chat>> of the participants table
    notices,    \* membership notices not published yet
    pub,        \* chat event being published: chat and processes left
    events, changes, faults   \* what is left of the budget

(* History variables: they are written and never read by the actions. *)
VARIABLES
    disturbed,  \* <<process, chat>> whose registration met a race or a fault
    unheard,    \* <<process, user, chat>>: an addition the channel lost
    gap,        \* connection -> chats of dropped frames not reported to it
    ackLost     \* connection -> chats whose report was dropped

redisVars == <<instances, served>>
localVars == <<pc, at, todo, edge, subs, dropped>>
pubsubVars == <<commands, channels, inbox, fanin>>
outsideVars == <<member, notices, pub, events, changes>>
historyVars == <<disturbed, unheard, gap, ackLost>>
vars == <<localVars, op, pubsubVars, queue, redisVars, beat, up, outsideVars, faults, historyVars>>

Notice == [do : {"added", "removed"}, user : Users, chat : Chats]
Call == [do : {"SADD", "SREM"}, chat : Chats]
Frame == [do : {"event"}, chat : Chats] \cup [do : {"ack"}, chats : SUBSET Chats]

TypeOK ==
    /\ pc \in [Conns -> {"new", "fetch", "join", "open", "leave", "gone"}]
    /\ at \in [Conns -> Servers]
    /\ todo \in [Conns -> SUBSET Chats]
    /\ edge \in [Conns -> BOOLEAN]
    /\ subs \in [Servers -> [Chats -> SUBSET Conns]]
    /\ op \in [Conns \cup Servers -> Call \cup {None}]
    /\ commands \in [Servers -> Seq([do : {"subscribe", "unsubscribe"}, user : Users])]
    /\ channels \in [Servers -> SUBSET Users]
    /\ inbox \in [Servers -> Seq(Notice \cup [do : {"event"}, chat : Chats])]
    /\ fanin \in [Servers -> [do : {"added", "removed"}, chat : Chats, left : SUBSET Conns] \cup {None}]
    /\ queue \in [Conns -> Seq(Frame)]
    /\ dropped \in [Conns -> SUBSET Chats]
    /\ instances \in [Chats -> SUBSET Servers]
    /\ served \in [Servers -> SUBSET Chats]
    /\ beat \in [Servers -> SUBSET Chats]
    /\ up \in SUBSET Servers
    /\ member \in SUBSET (Users \X Chats)
    /\ notices \in SUBSET Notice
    /\ pub \in [do : {"event"}, chat : Chats, left : SUBSET Servers] \cup {None}
    /\ disturbed \in SUBSET (Servers \X Chats)
    /\ unheard \in SUBSET (Servers \X Users \X Chats)
    /\ gap \in [Conns -> SUBSET Chats]
    /\ ackLost \in [Conns -> SUBSET Chats]
    /\ \A c \in Conns : Len(queue[c]) <= QueueCap

Init ==
    /\ pc = [c \in Conns |-> "new"]
    /\ at \in [Conns -> Servers]
    /\ todo = [c \in Conns |-> {}]
    /\ edge = [c \in Conns |-> FALSE]
    /\ subs = [s \in Servers |-> [h \in Chats |-> {}]]
    /\ op = [t \in Conns \cup Servers |-> None]
    /\ commands = [s \in Servers |-> <<>>]
    /\ channels = [s \in Servers |-> {}]
    /\ inbox = [s \in Servers |-> <<>>]
    /\ fanin = [s \in Servers |-> None]
    /\ queue = [c \in Conns |-> <<>>]
    /\ dropped = [c \in Conns |-> {}]
    /\ instances = [h \in Chats |-> {}]
    /\ served = [s \in Servers |-> {}]
    /\ beat = [s \in Servers |-> {}]
    /\ up = Servers
    /\ member \in SUBSET (Users \X Chats)
    /\ notices = {}
    /\ pub = None
    /\ \E b \in Budgets : events = b.events /\ changes = b.changes /\ faults = b.faults
    /\ disturbed = {} /\ unheard = {}
    /\ gap = [c \in Conns |-> {}]
    /\ ackLost = [c \in Conns |-> {}]

-----------------------------------------------------------------------------
Registered == {"fetch", "join", "open"}

\* AppState.conns and user_conns: the live connections of u on s.
LiveOf(s, u) == {c \in Conns : at[c] = s /\ UserOf[c] = u /\ pc[c] \in Registered}

\* A deregistration of h by s is under way.
Removing(s, h) ==
    \/ op[s] = [do |-> "SREM", chat |-> h]
    \/ \E c \in Conns : at[c] = s /\ pc[c] = "leave" /\ (h \in todo[c] \/ op[c] = [do |-> "SREM", chat |-> h])

\* add_chat_sub and, on the 0 -> 1 edge, routing::add_chat by task t.
AddChatSub(t, s, h, c) ==
    /\ subs' = [subs EXCEPT ![s][h] = @ \cup {c}]
    /\ op' = [op EXCEPT ![t] = IF subs[s][h] = {} THEN [do |-> "SADD", chat |-> h] ELSE None]
    /\ disturbed' = IF subs[s][h] = {} /\ Removing(s, h) THEN disturbed \cup {<<s, h>>} ELSE disturbed

\* The handshake is over and add_conn has run.
Accept(c) ==
    /\ pc[c] = "new" /\ at[c] \in up
    /\ pc' = [pc EXCEPT ![c] = "fetch"]
    /\ edge' = [edge EXCEPT ![c] = LiveOf(at[c], UserOf[c]) = {}]
    /\ UNCHANGED <<at, todo, subs, dropped, op, pubsubVars, queue, redisVars, beat, up, outsideVars, faults, historyVars>>

\* fetch_chat_ids: the user's chats, or none when the call fails.
FetchChats(c) ==
    /\ pc[c] = "fetch"
    /\ pc' = [pc EXCEPT ![c] = "join"]
    /\ \/ /\ todo' = [todo EXCEPT ![c] = {h \in Chats : <<UserOf[c], h>> \in member}]
          /\ UNCHANGED faults
       \/ /\ faults > 0 /\ faults' = faults - 1
          /\ UNCHANGED todo
    /\ UNCHANGED <<at, edge, subs, dropped, op, pubsubVars, queue, redisVars, beat, up, outsideVars, historyVars>>

JoinChat(c) ==
    /\ pc[c] = "join" /\ op[c] = None
    /\ \E h \in todo[c] :
        /\ AddChatSub(c, at[c], h, c)
        /\ todo' = [todo EXCEPT ![c] = @ \ {h}]
    /\ UNCHANGED <<pc, at, edge, dropped, pubsubVars, queue, redisVars, beat, up, outsideVars, faults, unheard, gap, ackLost>>

\* The chats are joined: the user's channel is asked for, the read loop runs.
Open(c) ==
    /\ pc[c] = "join" /\ op[c] = None /\ todo[c] = {}
    /\ pc' = [pc EXCEPT ![c] = "open"]
    /\ commands' = IF edge[c] THEN [commands EXCEPT ![at[c]] = Append(@, [do |-> "subscribe", user |-> UserOf[c]])]
                              ELSE commands
    /\ UNCHANGED <<at, todo, edge, subs, dropped, op, channels, inbox, fanin, queue, redisVars, beat, up, outsideVars, faults, historyVars>>

\* Mutant of Close: the connection's chats are deregistered whoever else is
\* in them.
CloseAll(c) ==
    /\ pc[c] = "open"
    /\ LET s == at[c] IN
        /\ pc' = [pc EXCEPT ![c] = "leave"]
        /\ todo' = [todo EXCEPT ![c] = {h \in Chats : c \in subs[s][h]}]
        /\ subs' = [subs EXCEPT ![s] = [h \in Chats |-> @[h] \ {c}]]
        /\ edge' = [edge EXCEPT ![c] = LiveOf(s, UserOf[c]) = {c}]
    /\ queue' = [queue EXCEPT ![c] = <<>>]
    /\ dropped' = [dropped EXCEPT ![c] = {}]
    /\ gap' = [gap EXCEPT ![c] = {}]
    /\ ackLost' = [ackLost EXCEPT ![c] = {}]
    /\ UNCHANGED <<at, op, pubsubVars, redisVars, beat, up, outsideVars, faults, disturbed, unheard>>

\* The read loop ended, by the client or an eviction: remove_conn.
Close(c) ==
    /\ pc[c] = "open"
    /\ LET s == at[c] IN
        /\ pc' = [pc EXCEPT ![c] = "leave"]
        /\ todo' = [todo EXCEPT ![c] = {h \in Chats : subs[s][h] = {c}}]
        /\ subs' = [subs EXCEPT ![s] = [h \in Chats |-> @[h] \ {c}]]
        /\ edge' = [edge EXCEPT ![c] = LiveOf(s, UserOf[c]) = {c}]
    /\ queue' = [queue EXCEPT ![c] = <<>>]
    /\ dropped' = [dropped EXCEPT ![c] = {}]
    /\ gap' = [gap EXCEPT ![c] = {}]
    /\ ackLost' = [ackLost EXCEPT ![c] = {}]
    /\ UNCHANGED <<at, op, pubsubVars, redisVars, beat, up, outsideVars, faults, disturbed, unheard>>

LeaveChat(c) ==
    /\ pc[c] = "leave" /\ op[c] = None
    /\ \E h \in todo[c] :
        /\ op' = [op EXCEPT ![c] = [do |-> "SREM", chat |-> h]]
        /\ todo' = [todo EXCEPT ![c] = @ \ {h}]
    /\ UNCHANGED <<pc, at, edge, subs, dropped, pubsubVars, queue, redisVars, beat, up, outsideVars, faults, historyVars>>

Gone(c) ==
    /\ pc[c] = "leave" /\ op[c] = None /\ todo[c] = {}
    /\ pc' = [pc EXCEPT ![c] = "gone"]
    /\ commands' = IF edge[c] THEN [commands EXCEPT ![at[c]] = Append(@, [do |-> "unsubscribe", user |-> UserOf[c]])]
                              ELSE commands
    /\ UNCHANGED <<at, todo, edge, subs, dropped, op, channels, inbox, fanin, queue, redisVars, beat, up, outsideVars, faults, historyVars>>

-----------------------------------------------------------------------------
ServerOf(t) == IF t \in Conns THEN at[t] ELSE t

\* routing::add_chat and remove_chat: one pipeline on both keys, and a failure
\* is logged and forgotten.
RedisAnswers(t) ==
    /\ op[t] # None
    /\ op' = [op EXCEPT ![t] = None]
    /\ LET s == ServerOf(t)
           h == op[t].chat
       IN \/ /\ op[t].do = "SADD"
             /\ instances' = [instances EXCEPT ![h] = @ \cup {s}]
             /\ served' = [served EXCEPT ![s] = @ \cup {h}]
             /\ disturbed' = IF Removing(s, h) THEN disturbed ELSE disturbed \ {<<s, h>>}
             /\ UNCHANGED faults
          \/ /\ op[t].do = "SREM"
             /\ instances' = [instances EXCEPT ![h] = @ \ {s}]
             /\ served' = [served EXCEPT ![s] = @ \ {h}]
             /\ UNCHANGED <<disturbed, faults>>
          \/ /\ faults > 0 /\ faults' = faults - 1
             /\ disturbed' = disturbed \cup {<<s, h>>}
             /\ UNCHANGED redisVars
    /\ UNCHANGED <<localVars, pubsubVars, queue, beat, up, outsideVars, unheard, gap, ackLost>>

\* routing::heartbeat: SMEMBERS of what Redis lists, then one pipeline.
HeartbeatReads(s) ==
    /\ s \in up /\ beat[s] = {} /\ served[s] # {}
    /\ beat' = [beat EXCEPT ![s] = served[s]]
    /\ UNCHANGED <<localVars, op, pubsubVars, queue, redisVars, up, outsideVars, faults, historyVars>>

HeartbeatWrites(s) ==
    /\ beat[s] # {}
    /\ instances' = [h \in Chats |-> instances[h] \cup {r \in {s} : h \in beat[s]}]
    /\ beat' = [beat EXCEPT ![s] = {}]
    /\ UNCHANGED <<localVars, op, pubsubVars, queue, served, up, outsideVars, faults, historyVars>>

\* The TTL of a chat's set passes: no process that runs refreshes it any more.
Expire(h) ==
    /\ instances[h] # {}
    /\ \A s \in up : h \notin served[s] /\ h \notin beat[s]
    /\ instances' = [instances EXCEPT ![h] = {}]
    /\ UNCHANGED <<localVars, op, pubsubVars, queue, served, beat, up, outsideVars, faults, historyVars>>

\* What a process that ends takes with it.
LocalStateLost(s) ==
    LET mine == {c \in Conns : at[c] = s} IN
    /\ up' = up \ {s}
    /\ pc' = [c \in Conns |-> IF c \in mine THEN "gone" ELSE pc[c]]
    /\ todo' = [c \in Conns |-> IF c \in mine THEN {} ELSE todo[c]]
    /\ subs' = [subs EXCEPT ![s] = [h \in Chats |-> {}]]
    /\ op' = [t \in Conns \cup Servers |-> IF ServerOf(t) = s THEN None ELSE op[t]]
    /\ commands' = [commands EXCEPT ![s] = <<>>]
    /\ channels' = [channels EXCEPT ![s] = {}]
    /\ inbox' = [inbox EXCEPT ![s] = <<>>]
    /\ fanin' = [fanin EXCEPT ![s] = None]
    /\ beat' = [beat EXCEPT ![s] = {}]
    /\ queue' = [c \in Conns |-> IF c \in mine THEN <<>> ELSE queue[c]]
    /\ dropped' = [c \in Conns |-> IF c \in mine THEN {} ELSE dropped[c]]
    /\ gap' = [c \in Conns |-> IF c \in mine THEN {} ELSE gap[c]]
    /\ ackLost' = [c \in Conns |-> IF c \in mine THEN {} ELSE ackLost[c]]
    /\ UNCHANGED <<at, edge, outsideVars, disturbed, unheard>>

\* SIGTERM: routing::unregister, then the process ends.
Shutdown(s) ==
    /\ s \in up /\ faults > 0
    /\ faults' = faults - 1
    /\ LocalStateLost(s)
    /\ instances' = [h \in Chats |-> instances[h] \ {r \in {s} : h \in served[s]}]
    /\ served' = [served EXCEPT ![s] = {}]

Crash(s) ==
    /\ s \in up /\ faults > 0
    /\ faults' = faults - 1
    /\ LocalStateLost(s)
    /\ UNCHANGED redisVars

-----------------------------------------------------------------------------
\* A commit that changes the participants, which owes the user a notice.
ChangeMembership(u, h) ==
    /\ changes > 0
    /\ changes' = changes - 1
    /\ \/ /\ <<u, h>> \notin member
          /\ member' = member \cup {<<u, h>>}
          /\ notices' = notices \cup {[do |-> "added", user |-> u, chat |-> h]}
       \/ /\ <<u, h>> \in member
          /\ member' = member \ {<<u, h>>}
          /\ notices' = notices \cup {[do |-> "removed", user |-> u, chat |-> h]}
    /\ UNCHANGED <<localVars, op, pubsubVars, queue, redisVars, beat, up, pub, events, faults, historyVars>>

\* publish_user_event: whoever is subscribed now gets it, once.
PublishNotice(n) ==
    /\ n \in notices
    /\ notices' = notices \ {n}
    /\ inbox' = [s \in Servers |-> IF n.user \in channels[s] THEN Append(inbox[s], n) ELSE inbox[s]]
    /\ UNCHANGED <<localVars, op, commands, channels, fanin, queue, redisVars, beat, up, member, pub, events, changes, faults, historyVars>>

\* publish_event: SMEMBERS of the chat's set, then a PUBLISH per process.
StartPublish(h) ==
    /\ pub = None /\ events > 0
    /\ events' = events - 1
    /\ instances[h] # {}
    /\ pub' = [do |-> "event", chat |-> h, left |-> instances[h]]
    /\ UNCHANGED <<localVars, op, pubsubVars, queue, redisVars, beat, up, member, notices, changes, faults, historyVars>>

PublishTo(s) ==
    /\ pub # None /\ s \in pub.left
    /\ pub' = IF pub.left = {s} THEN None ELSE [pub EXCEPT !.left = @ \ {s}]
    /\ inbox' = IF s \in up THEN [inbox EXCEPT ![s] = Append(@, [do |-> "event", chat |-> pub.chat])] ELSE inbox
    /\ UNCHANGED <<localVars, op, commands, channels, fanin, queue, redisVars, beat, up, member, notices, events, changes, faults, historyVars>>

-----------------------------------------------------------------------------
Idle(s) == s \in up /\ fanin[s] = None /\ op[s] = None

\* listen(): a command for the one pub/sub connection.
Command(s) ==
    /\ Idle(s) /\ commands[s] # <<>>
    /\ commands' = [commands EXCEPT ![s] = Tail(@)]
    /\ LET cmd == Head(commands[s]) IN
        channels' = [channels EXCEPT ![s] = IF cmd.do = "subscribe" THEN @ \cup {cmd.user} ELSE @ \ {cmd.user}]
    /\ UNCHANGED <<localVars, op, inbox, fanin, queue, redisVars, beat, up, outsideVars, faults, historyVars>>

\* listen() fails and starts again: what was under way to it is lost, the
\* channels of the users connected now are asked for again.
PubSubDrops(s) ==
    /\ Idle(s) /\ faults > 0
    /\ faults' = faults - 1
    /\ channels' = [channels EXCEPT ![s] = {u \in Users : LiveOf(s, u) # {}}]
    /\ inbox' = [inbox EXCEPT ![s] = <<>>]
    /\ unheard' = unheard \cup
        {<<s, n.user, n.chat>> : n \in {inbox[s][i] : i \in {j \in DOMAIN inbox[s] : inbox[s][j].do = "added"}}}
    /\ UNCHANGED <<localVars, op, commands, fanin, queue, redisVars, beat, up, outsideVars, disturbed, gap, ackLost>>

Applying(kind, h, conns) == IF conns = {} THEN None ELSE [do |-> kind, chat |-> h, left |-> conns]

\* handle_user_event: one local connection of the user after the other.
TakeNotice(s) ==
    /\ Idle(s) /\ inbox[s] # <<>>
    /\ LET n == Head(inbox[s]) IN
        /\ n.do # "event"
        /\ fanin' = [fanin EXCEPT ![s] = Applying(n.do, n.chat, LiveOf(s, n.user))]
    /\ inbox' = [inbox EXCEPT ![s] = Tail(@)]
    /\ UNCHANGED <<localVars, op, commands, channels, queue, redisVars, beat, up, outsideVars, faults, historyVars>>

\* Mutant of NoticeAdds: the notice serves one of the user's connections.
NoticeAddsOne(s) ==
    /\ fanin[s] # None /\ op[s] = None /\ fanin[s].do = "added"
    /\ \E c \in fanin[s].left : AddChatSub(s, s, fanin[s].chat, c)
    /\ fanin' = [fanin EXCEPT ![s] = None]
    /\ UNCHANGED <<pc, at, todo, edge, dropped, commands, channels, inbox, queue, redisVars, beat, up, outsideVars, faults, unheard, gap, ackLost>>

NoticeAdds(s) ==
    /\ fanin[s] # None /\ op[s] = None /\ fanin[s].do = "added"
    /\ \E c \in fanin[s].left :
        /\ AddChatSub(s, s, fanin[s].chat, c)
        /\ fanin' = [fanin EXCEPT ![s] = Applying(@.do, @.chat, @.left \ {c})]
    /\ UNCHANGED <<pc, at, todo, edge, dropped, commands, channels, inbox, queue, redisVars, beat, up, outsideVars, faults, unheard, gap, ackLost>>

NoticeRemoves(s) ==
    /\ fanin[s] # None /\ op[s] = None /\ fanin[s].do = "removed"
    /\ LET h == fanin[s].chat IN
        \E c \in fanin[s].left :
            /\ subs' = [subs EXCEPT ![s][h] = @ \ {c}]
            /\ op' = [op EXCEPT ![s] = IF subs[s][h] = {c} THEN [do |-> "SREM", chat |-> h] ELSE None]
            /\ fanin' = [fanin EXCEPT ![s] = Applying(@.do, @.chat, @.left \ {c})]
    /\ UNCHANGED <<pc, at, todo, edge, dropped, commands, channels, inbox, queue, redisVars, beat, up, outsideVars, faults, historyVars>>

\* The live connections an event of h is pushed to.
Receivers(s, h) == {c \in subs[s][h] : pc[c] \in Registered}
HasRoom(c) == Len(queue[c]) < QueueCap

\* fan_out_chat: try_send to each, and the chat is remembered for a full one.
FanOutChat(s) ==
    /\ Idle(s) /\ inbox[s] # <<>> /\ Head(inbox[s]).do = "event"
    /\ LET h == Head(inbox[s]).chat
           full == {c \in Receivers(s, h) : ~HasRoom(c)}
       IN /\ queue' = [c \in Conns |-> IF c \in Receivers(s, h) \ full
                                       THEN Append(queue[c], [do |-> "event", chat |-> h]) ELSE queue[c]]
          /\ dropped' = [c \in Conns |-> IF c \in full THEN dropped[c] \cup {h} ELSE dropped[c]]
          /\ gap' = [c \in Conns |-> IF c \in full THEN gap[c] \cup {h} ELSE gap[c]]
          /\ ackLost' = [c \in Conns |-> IF c \in full THEN ackLost[c] \ {h} ELSE ackLost[c]]
    /\ inbox' = [inbox EXCEPT ![s] = Tail(@)]
    /\ UNCHANGED <<pc, at, todo, edge, subs, op, commands, channels, fanin, redisVars, beat, up, outsideVars, faults, disturbed, unheard>>

\* The client's heartbeat: take_dropped, then the ack if the queue has room.
ClientHeartbeat(c) ==
    /\ pc[c] = "open" /\ dropped[c] # {}
    /\ dropped' = [dropped EXCEPT ![c] = {}]
    /\ \/ /\ HasRoom(c)
          /\ queue' = [queue EXCEPT ![c] = Append(@, [do |-> "ack", chats |-> dropped[c]])]
          /\ UNCHANGED ackLost
       \/ /\ ~HasRoom(c)
          /\ ackLost' = [ackLost EXCEPT ![c] = @ \cup dropped[c]]
          /\ UNCHANGED queue
    /\ UNCHANGED <<pc, at, todo, edge, subs, op, pubsubVars, redisVars, beat, up, outsideVars, faults, disturbed, unheard, gap>>

\* The writer sends a frame; a client refetches the chats an ack names.
ClientReceives(c) ==
    /\ queue[c] # <<>>
    /\ queue' = [queue EXCEPT ![c] = Tail(@)]
    /\ LET told == IF Head(queue[c]).do = "ack" THEN Head(queue[c]).chats ELSE {} IN
        /\ gap' = [gap EXCEPT ![c] = @ \ told]
        /\ ackLost' = [ackLost EXCEPT ![c] = @ \ told]
    /\ UNCHANGED <<localVars, op, pubsubVars, redisVars, beat, up, outsideVars, faults, disturbed, unheard>>

ConnStep(c) ==
    \/ Accept(c) \/ FetchChats(c) \/ JoinChat(c) \/ Open(c)
    \/ Close(c) \/ LeaveChat(c) \/ Gone(c)
    \/ ClientHeartbeat(c) \/ ClientReceives(c)

ServerStep(s) ==
    \/ HeartbeatReads(s) \/ HeartbeatWrites(s) \/ Shutdown(s) \/ Crash(s)
    \/ Command(s) \/ PubSubDrops(s) \/ TakeNotice(s)
    \/ NoticeAdds(s) \/ NoticeRemoves(s)
    \/ FanOutChat(s) \/ PublishTo(s)

Next ==
    \/ \E c \in Conns : ConnStep(c)
    \/ \E s \in Servers : ServerStep(s)
    \/ \E t \in Conns \cup Servers : RedisAnswers(t)
    \/ \E h \in Chats : Expire(h) \/ StartPublish(h)
    \/ \E u \in Users, h \in Chats : ChangeMembership(u, h)
    \/ \E n \in Notice : PublishNotice(n)

Spec == Init /\ [][Next]_vars

\* The task of a connection goes on until it reads from the client, and again
\* once the client is gone.
TaskStep(c) == FetchChats(c) \/ JoinChat(c) \/ Open(c) \/ LeaveChat(c) \/ Gone(c)

\* The tasks of a process that runs are scheduled and Redis answers.
Fairness ==
    /\ \A c \in Conns : WF_vars(TaskStep(c))
    /\ \A t \in Conns \cup Servers : WF_vars(RedisAnswers(t))
    /\ \A s \in Servers : SF_vars(Command(s)) /\ SF_vars(TakeNotice(s) \/ FanOutChat(s))
                          /\ WF_vars(NoticeAdds(s) \/ NoticeRemoves(s))
    /\ WF_vars(\E n \in Notice : PublishNotice(n))

FairSpec == Spec /\ Fairness

-----------------------------------------------------------------------------
\* A chat with local subscribers is registered in Redis, so that its events
\* reach the process, whatever the interleaving of connects, disconnects,
\* membership notices and heartbeats on it; it may be missing only while its
\* SADD is in flight, or after a Redis call failed or a late SREM of the last
\* subscriber overtook the SADD of a new one.
ServedIsRegistered ==
    \A s \in up, h \in Chats :
        subs[s][h] # {} /\ <<s, h>> \notin disturbed =>
            \/ s \in instances[h] /\ h \in served[s]
            \/ \E t \in Conns \cup {s} : ServerOf(t) = s /\ op[t] = [do |-> "SADD", chat |-> h]

Reported(c) == UNION {queue[c][i].chats : i \in {j \in DOMAIN queue[c] : queue[c][j].do = "ack"}}

\* A chat whose frame was dropped is remembered, or its report is on its way
\* to the client, or that report was itself dropped on the full queue.
GapIsKnown == \A c \in Conns : gap[c] \subseteq dropped[c] \cup Reported(c) \cup ackLost[c]

\* Every open connection of a user who was added to a chat, on every device,
\* joins its local routing, unless the user left it again or the connection
\* closed, or pub/sub dropped the notice or the user's channel.
AddedIsServed ==
    \A c \in Conns, h \in Chats :
        LET u == UserOf[c] IN
            /\ pc[c] = "open" /\ u \in channels[at[c]]
            /\ [do |-> "added", user |-> u, chat |-> h] \in notices
            ~> \/ c \in subs[at[c]][h] \/ pc[c] # "open"
               \/ <<u, h>> \notin member \/ u \notin channels[at[c]]
               \/ <<at[c], u, h>> \in unheard

=============================================================================
