----------------------------- MODULE LiveProofs ------------------------------
(***************************************************************************)
(* Theorems about the gateway's live path: its routing table, what it      *)
(* knows of the frames it dropped, and presence; for any processes,        *)
(* connections, users and chats, queue capacity and number of faults.      *)
(***************************************************************************)
EXTENDS MCLive, TLAPS

(***************************************************************************)
(* Type correctness of the routing.                                        *)
(***************************************************************************)
SubCmd == [do : {"subscribe", "unsubscribe"}, user : Users]
Message == Notice \cup [do : {"event"}, chat : Chats]

LEMMA AppendAt ==
    ASSUME NEW S, NEW T, NEW f \in [S -> Seq(T)], NEW s \in S, NEW e \in T
    PROVE  [f EXCEPT ![s] = Append(@, e)] \in [S -> Seq(T)]
<1>1. f[s] \in Seq(T)
  OBVIOUS
<1>2. Append(f[s], e) \in Seq(T)
  BY <1>1
<1>3. QED
  BY <1>2, Zenon

LEMMA TailAt ==
    ASSUME NEW S, NEW T, NEW f \in [S -> Seq(T)], NEW s \in S, f[s] # <<>>
    PROVE  [f EXCEPT ![s] = Tail(@)] \in [S -> Seq(T)]
<1>1. f[s] \in Seq(T)
  OBVIOUS
<1>2. Tail(f[s]) \in Seq(T)
  BY <1>1
<1>3. QED
  BY <1>2, Zenon

LEMMA RoutingInitType == Init => TypeOK
<1> SUFFICES ASSUME Init PROVE TypeOK
  OBVIOUS
<1>1. <<>> \in Seq(Frame) /\ Len(<<>>) <= QueueCap
  BY RoutingAssumption
<1>2. queue \in [Conns -> Seq(Frame)] /\ \A c \in Conns : Len(queue[c]) <= QueueCap
  BY <1>1 DEF Init
<1>3. QED
  BY <1>2 DEF Init, TypeOK

\* What a connection's step reads.
LEMMA ConnTypes ==
    ASSUME TypeOK, NEW c \in Conns
    PROVE  /\ at[c] \in Servers /\ UserOf[c] \in Users
           /\ pc[c] \in {"new", "fetch", "join", "open", "leave", "gone"}
           /\ todo[c] \in SUBSET Chats /\ dropped[c] \in SUBSET Chats
           /\ gap[c] \in SUBSET Chats /\ ackLost[c] \in SUBSET Chats
           /\ op[c] \in Call \cup {None}
           /\ queue[c] \in Seq(Frame) /\ Len(queue[c]) \in Nat /\ Len(queue[c]) <= QueueCap
           /\ commands[at[c]] \in Seq(SubCmd)
<1>1. UserOf[c] \in Users
  BY RoutingAssumption
<1>2. queue[c] \in Seq(Frame) /\ Len(queue[c]) <= QueueCap
  BY DEF TypeOK
<1>3. Len(queue[c]) \in Nat
  BY <1>2
<1>4. at[c] \in Servers /\ commands \in [Servers -> Seq(SubCmd)]
  BY DEF TypeOK, SubCmd
<1>5. commands[at[c]] \in Seq(SubCmd)
  BY <1>4
<1>6. QED
  BY <1>1, <1>2, <1>3, <1>4, <1>5 DEF TypeOK

\* A queue to which a frame was added for want of room, or not.
LEMMA QueueAppend ==
    ASSUME TypeOK, NEW c \in Conns, HasRoom(c), NEW e \in Frame,
           queue' = [queue EXCEPT ![c] = Append(@, e)]
    PROVE  queue' \in [Conns -> Seq(Frame)] /\ \A d \in Conns : Len(queue'[d]) <= QueueCap
<1>1. queue \in [Conns -> Seq(Frame)] /\ \A d \in Conns : Len(queue[d]) <= QueueCap
  BY DEF TypeOK
<1>2. queue[c] \in Seq(Frame) /\ Len(queue[c]) \in Nat /\ Len(queue[c]) < QueueCap
  BY <1>1 DEF HasRoom
<1>3. Append(queue[c], e) \in Seq(Frame) /\ Len(Append(queue[c], e)) <= QueueCap
  BY <1>2, RoutingAssumption
<1>4. queue' \in [Conns -> Seq(Frame)]
  BY <1>1, AppendAt, Zenon
<1>5. \A d \in Conns : queue'[d] = IF d = c THEN Append(queue[c], e) ELSE queue[d]
  BY <1>1
<1>6. QED
  BY <1>1, <1>3, <1>4, <1>5, Zenon

LEMMA QueueShorter ==
    ASSUME TypeOK, NEW c \in Conns, NEW q \in Seq(Frame), Len(q) <= QueueCap,
           queue' = [queue EXCEPT ![c] = q]
    PROVE  queue' \in [Conns -> Seq(Frame)] /\ \A d \in Conns : Len(queue'[d]) <= QueueCap
BY DEF TypeOK

LEMMA AddChatSubType ==
    ASSUME TypeOK, NEW t \in Conns \cup Servers, NEW s \in Servers, NEW h \in Chats, NEW c \in Conns,
           AddChatSub(t, s, h, c)
    PROVE  /\ subs' \in [Servers -> [Chats -> SUBSET Conns]]
           /\ op' \in [Conns \cup Servers -> Call \cup {None}]
           /\ disturbed' \in SUBSET (Servers \X Chats)
<1>1. /\ subs \in [Servers -> [Chats -> SUBSET Conns]] /\ op \in [Conns \cup Servers -> Call \cup {None}]
      /\ disturbed \in SUBSET (Servers \X Chats)
  BY DEF TypeOK
<1>2. [do |-> "SADD", chat |-> h] \in Call
  BY DEF Call
<1>3. disturbed' \in SUBSET (Servers \X Chats)
  BY <1>1 DEF AddChatSub
<1>4. op' \in [Conns \cup Servers -> Call \cup {None}]
  BY <1>1, <1>2, Zenon DEF AddChatSub
<1>5. subs' \in [Servers -> [Chats -> SUBSET Conns]]
  BY <1>1 DEF AddChatSub
<1>6. QED
  BY <1>3, <1>4, <1>5

LEMMA ConnStepType == ASSUME TypeOK, NEW c \in Conns, ConnStep(c) PROVE TypeOK'
<1>0. /\ at[c] \in Servers /\ UserOf[c] \in Users
      /\ todo[c] \in SUBSET Chats /\ dropped[c] \in SUBSET Chats
      /\ gap[c] \in SUBSET Chats /\ ackLost[c] \in SUBSET Chats
      /\ queue[c] \in Seq(Frame) /\ Len(queue[c]) \in Nat /\ Len(queue[c]) <= QueueCap
  BY ConnTypes
<1>a. \A cmd \in SubCmd : [commands EXCEPT ![at[c]] = Append(@, cmd)] \in [Servers -> Seq(SubCmd)]
  <2>1. commands \in [Servers -> Seq(SubCmd)]
    BY DEF TypeOK, SubCmd
  <2>2. QED
    BY <1>0, <2>1, AppendAt, Zenon
<1>1. CASE Accept(c)
  <2>1. pc' \in [Conns -> {"new", "fetch", "join", "open", "leave", "gone"}] /\ edge' \in [Conns -> BOOLEAN]
    BY <1>1 DEF TypeOK, Accept
  <2>2. QED
    BY <1>1, <2>1 DEF TypeOK, Accept, outsideVars, pubsubVars, redisVars, historyVars
<1>2. CASE FetchChats(c)
  <2>1. pc' \in [Conns -> {"new", "fetch", "join", "open", "leave", "gone"}] /\ todo' \in [Conns -> SUBSET Chats]
    <3>1. {h \in Chats : <<UserOf[c], h>> \in member} \in SUBSET Chats
      OBVIOUS
    <3>2. pc' \in [Conns -> {"new", "fetch", "join", "open", "leave", "gone"}]
      BY <1>2 DEF TypeOK, FetchChats
    <3>3. todo' = todo \/ todo' = [todo EXCEPT ![c] = {h \in Chats : <<UserOf[c], h>> \in member}]
      BY <1>2, Zenon DEF FetchChats
    <3>4. todo' \in [Conns -> SUBSET Chats]
      BY <3>1, <3>3, Zenon DEF TypeOK
    <3>5. QED
      BY <3>2, <3>4
  <2>2. QED
    BY <1>2, <2>1 DEF TypeOK, FetchChats, outsideVars, pubsubVars, redisVars, historyVars
<1>3. CASE JoinChat(c)
  <2>1. PICK h \in todo[c] :
          /\ AddChatSub(c, at[c], h, c)
          /\ todo' = [todo EXCEPT ![c] = @ \ {h}]
    BY <1>3 DEF JoinChat
  <2>2. h \in Chats
    BY <1>0, <2>1
  <2>3. todo' \in [Conns -> SUBSET Chats]
    BY <1>0, <2>1 DEF TypeOK
  <2>4. /\ subs' \in [Servers -> [Chats -> SUBSET Conns]]
        /\ op' \in [Conns \cup Servers -> Call \cup {None}]
        /\ disturbed' \in SUBSET (Servers \X Chats)
    BY <1>0, <2>1, <2>2, AddChatSubType
  <2>5. QED
    BY <1>3, <2>3, <2>4 DEF TypeOK, JoinChat, outsideVars, pubsubVars, redisVars
<1>4. CASE Open(c)
  <2>1. commands' \in [Servers -> Seq(SubCmd)]
    <3>1. [do |-> "subscribe", user |-> UserOf[c]] \in SubCmd
      BY <1>0 DEF SubCmd
    <3>2. commands \in [Servers -> Seq(SubCmd)]
      BY DEF TypeOK, SubCmd
    <3>3. QED
      BY <1>4, <1>a, <3>1, <3>2, Zenon DEF Open
  <2>2. pc' \in [Conns -> {"new", "fetch", "join", "open", "leave", "gone"}]
    BY <1>4 DEF TypeOK, Open
  <2>3. QED
    BY <1>4, <2>1, <2>2 DEF TypeOK, SubCmd, Open, outsideVars, redisVars, historyVars
<1>5. CASE Close(c)
  <2>1. subs' \in [Servers -> [Chats -> SUBSET Conns]]
    BY <1>0, <1>5 DEF TypeOK, Close
  <2>2. queue' \in [Conns -> Seq(Frame)] /\ \A d \in Conns : Len(queue'[d]) <= QueueCap
    <3>1. <<>> \in Seq(Frame) /\ Len(<<>>) <= QueueCap
      BY RoutingAssumption
    <3>2. QED
      BY <1>5, <3>1, QueueShorter DEF Close
  <2>3. /\ pc' \in [Conns -> {"new", "fetch", "join", "open", "leave", "gone"}] /\ edge' \in [Conns -> BOOLEAN]
        /\ todo' \in [Conns -> SUBSET Chats] /\ dropped' \in [Conns -> SUBSET Chats]
        /\ gap' \in [Conns -> SUBSET Chats] /\ ackLost' \in [Conns -> SUBSET Chats]
    BY <1>5 DEF TypeOK, Close
  <2>4. QED
    BY <1>5, <2>1, <2>2, <2>3 DEF TypeOK, Close, outsideVars, pubsubVars, redisVars
<1>6. CASE LeaveChat(c)
  <2>1. PICK h \in todo[c] :
          /\ op' = [op EXCEPT ![c] = [do |-> "SREM", chat |-> h]]
          /\ todo' = [todo EXCEPT ![c] = @ \ {h}]
    BY <1>6 DEF LeaveChat
  <2>2. todo' \in [Conns -> SUBSET Chats]
    BY <1>0, <2>1 DEF TypeOK
  <2>3. [do |-> "SREM", chat |-> h] \in Call
    BY <1>0, <2>1 DEF Call
  <2>4. op' \in [Conns \cup Servers -> Call \cup {None}]
    BY <2>1, <2>3, Zenon DEF TypeOK
  <2>5. QED
    BY <1>6, <2>2, <2>4 DEF TypeOK, LeaveChat, outsideVars, pubsubVars, redisVars, historyVars
<1>7. CASE Gone(c)
  <2>1. commands' \in [Servers -> Seq(SubCmd)]
    <3>1. [do |-> "unsubscribe", user |-> UserOf[c]] \in SubCmd
      BY <1>0 DEF SubCmd
    <3>2. commands \in [Servers -> Seq(SubCmd)]
      BY DEF TypeOK, SubCmd
    <3>3. QED
      BY <1>7, <1>a, <3>1, <3>2, Zenon DEF Gone
  <2>2. pc' \in [Conns -> {"new", "fetch", "join", "open", "leave", "gone"}]
    BY <1>7 DEF TypeOK, Gone
  <2>3. QED
    BY <1>7, <2>1, <2>2 DEF TypeOK, SubCmd, Gone, outsideVars, redisVars, historyVars
<1>8. CASE ClientHeartbeat(c)
  <2>1. [do |-> "ack", chats |-> dropped[c]] \in Frame
    BY <1>0 DEF Frame
  <2>2. queue' \in [Conns -> Seq(Frame)] /\ \A d \in Conns : Len(queue'[d]) <= QueueCap
    <3>1. CASE HasRoom(c)
      BY <1>8, <2>1, <3>1, QueueAppend DEF ClientHeartbeat
    <3>2. CASE ~HasRoom(c)
      BY <1>8, <3>2 DEF TypeOK, ClientHeartbeat
    <3>3. QED
      BY <3>1, <3>2
  <2>3. ackLost' \in [Conns -> SUBSET Chats] /\ dropped' \in [Conns -> SUBSET Chats]
    BY <1>0, <1>8 DEF TypeOK, ClientHeartbeat
  <2>4. QED
    BY <1>8, <2>2, <2>3 DEF TypeOK, ClientHeartbeat, outsideVars, pubsubVars, redisVars
<1>9. CASE ClientReceives(c)
  <2>1. queue' \in [Conns -> Seq(Frame)] /\ \A d \in Conns : Len(queue'[d]) <= QueueCap
    <3>1. Tail(queue[c]) \in Seq(Frame) /\ Len(Tail(queue[c])) <= QueueCap
      BY <1>0, <1>9, RoutingAssumption DEF ClientReceives
    <3>2. QED
      BY <1>9, <3>1, QueueShorter DEF ClientReceives
  <2>2. gap' \in [Conns -> SUBSET Chats] /\ ackLost' \in [Conns -> SUBSET Chats]
    BY <1>0, <1>9 DEF TypeOK, ClientReceives
  <2>3. QED
    BY <1>9, <2>1, <2>2 DEF TypeOK, ClientReceives, localVars, outsideVars, pubsubVars, redisVars
<1>10. QED
  BY <1>1, <1>2, <1>3, <1>4, <1>5, <1>6, <1>7, <1>8, <1>9 DEF ConnStep

\* What a process's step reads.
LEMMA ServerTypes ==
    ASSUME TypeOK, NEW s \in Servers
    PROVE  /\ commands \in [Servers -> Seq(SubCmd)] /\ inbox \in [Servers -> Seq(Message)]
           /\ commands[s] # <<>> => /\ Head(commands[s]) \in SubCmd
                                   /\ [commands EXCEPT ![s] = Tail(@)] \in [Servers -> Seq(SubCmd)]
           /\ inbox[s] # <<>> => /\ Head(inbox[s]) \in Message
                                /\ [inbox EXCEPT ![s] = Tail(@)] \in [Servers -> Seq(Message)]
<1>1. commands \in [Servers -> Seq(SubCmd)] /\ inbox \in [Servers -> Seq(Message)]
  BY DEF TypeOK, SubCmd, Message
<1>2. commands[s] \in Seq(SubCmd) /\ inbox[s] \in Seq(Message)
  BY <1>1
<1>3. commands[s] # <<>> => Head(commands[s]) \in SubCmd
  BY <1>2
<1>4. inbox[s] # <<>> => Head(inbox[s]) \in Message
  BY <1>2
<1>5. commands[s] # <<>> => [commands EXCEPT ![s] = Tail(@)] \in [Servers -> Seq(SubCmd)]
  BY <1>1, TailAt
<1>6. inbox[s] # <<>> => [inbox EXCEPT ![s] = Tail(@)] \in [Servers -> Seq(Message)]
  BY <1>1, TailAt
<1>7. QED
  BY <1>1, <1>3, <1>4, <1>5, <1>6

Fanin == [do : {"added", "removed"}, chat : Chats, left : SUBSET Conns]

LEMMA FaninTypes ==
    ASSUME TypeOK, NEW s \in Servers, fanin[s] # None
    PROVE  /\ fanin[s] \in Fanin /\ fanin[s].chat \in Chats /\ fanin[s].left \in SUBSET Conns
           /\ fanin[s].do \in {"added", "removed"}
           /\ \A c \in Conns : [fanin EXCEPT ![s] = Applying(@.do, @.chat, @.left \ {c})] \in [Servers -> Fanin \cup {None}]
<1>1. fanin \in [Servers -> Fanin \cup {None}]
  BY DEF TypeOK, Fanin
<1>2. fanin[s] \in Fanin
  BY <1>1
<1>3. fanin[s].chat \in Chats /\ fanin[s].left \in SUBSET Conns /\ fanin[s].do \in {"added", "removed"}
  BY <1>2 DEF Fanin
<1>4. ASSUME NEW c \in Conns PROVE Applying(fanin[s].do, fanin[s].chat, fanin[s].left \ {c}) \in Fanin \cup {None}
  BY <1>3 DEF Applying, Fanin
<1>5. QED
  BY <1>1, <1>2, <1>3, <1>4

LEMMA LocalStateLostType ==
    ASSUME TypeOK, NEW s \in Servers, LocalStateLost(s), UNCHANGED member, UNCHANGED notices,
           instances' \in [Chats -> SUBSET Servers], served' \in [Servers -> SUBSET Chats]
    PROVE  TypeOK'
<1>1. /\ commands' \in [Servers -> Seq(SubCmd)] /\ inbox' \in [Servers -> Seq(Message)]
  <2>1. <<>> \in Seq(SubCmd) /\ <<>> \in Seq(Message)
    OBVIOUS
  <2>2. QED
    BY <2>1, ServerTypes, Zenon DEF LocalStateLost
<1>2. queue' \in [Conns -> Seq(Frame)] /\ \A d \in Conns : Len(queue'[d]) <= QueueCap
  <2>1. <<>> \in Seq(Frame) /\ Len(<<>>) <= QueueCap
    BY RoutingAssumption
  <2>2. queue' = [c \in Conns |-> IF at[c] = s THEN <<>> ELSE queue[c]]
    BY DEF LocalStateLost
  <2>3. QED
    BY <2>1, <2>2, Zenon DEF TypeOK
<1>3. /\ pc' \in [Conns -> {"new", "fetch", "join", "open", "leave", "gone"}]
      /\ todo' \in [Conns -> SUBSET Chats] /\ dropped' \in [Conns -> SUBSET Chats]
      /\ gap' \in [Conns -> SUBSET Chats] /\ ackLost' \in [Conns -> SUBSET Chats]
  BY DEF TypeOK, LocalStateLost
<1>4. op' \in [Conns \cup Servers -> Call \cup {None}]
  BY DEF TypeOK, LocalStateLost
<1>5. /\ subs' \in [Servers -> [Chats -> SUBSET Conns]] /\ channels' \in [Servers -> SUBSET Users]
      /\ fanin' \in [Servers -> Fanin \cup {None}] /\ beat' \in [Servers -> SUBSET Chats]
      /\ up' \in SUBSET Servers
  BY DEF TypeOK, LocalStateLost, Fanin
<1>6. QED
  BY <1>1, <1>2, <1>3, <1>4, <1>5 DEF TypeOK, LocalStateLost, SubCmd, Message, Fanin, outsideVars

LEMMA ServerStepType == ASSUME TypeOK, NEW s \in Servers, ServerStep(s) PROVE TypeOK'
<1>1. CASE HeartbeatReads(s)
  <2>1. beat' \in [Servers -> SUBSET Chats]
    BY <1>1 DEF TypeOK, HeartbeatReads
  <2>2. QED
    BY <1>1, <2>1 DEF TypeOK, HeartbeatReads, localVars, outsideVars, pubsubVars, redisVars, historyVars
<1>2. CASE HeartbeatWrites(s)
  <2>1. beat' \in [Servers -> SUBSET Chats] /\ instances' \in [Chats -> SUBSET Servers]
    BY <1>2 DEF TypeOK, HeartbeatWrites
  <2>2. QED
    BY <1>2, <2>1 DEF TypeOK, HeartbeatWrites, localVars, outsideVars, pubsubVars, historyVars
<1>3. CASE Shutdown(s)
  <2>1. instances' \in [Chats -> SUBSET Servers] /\ served' \in [Servers -> SUBSET Chats]
    BY <1>3 DEF TypeOK, Shutdown
  <2>2. LocalStateLost(s) /\ UNCHANGED member /\ UNCHANGED notices
    BY <1>3 DEF Shutdown, LocalStateLost, outsideVars
  <2>3. QED
    BY <2>1, <2>2, LocalStateLostType
<1>4. CASE Crash(s)
  <2>1. instances' \in [Chats -> SUBSET Servers] /\ served' \in [Servers -> SUBSET Chats]
    BY <1>4 DEF TypeOK, Crash, redisVars
  <2>2. LocalStateLost(s) /\ UNCHANGED member /\ UNCHANGED notices
    BY <1>4 DEF Crash, LocalStateLost, outsideVars
  <2>3. QED
    BY <2>1, <2>2, LocalStateLostType
<1>5. CASE Command(s)
  <2>1. commands' \in [Servers -> Seq(SubCmd)] /\ Head(commands[s]) \in SubCmd
    BY <1>5, ServerTypes DEF Command
  <2>2. Head(commands[s]).user \in Users
    BY <2>1 DEF SubCmd
  <2>3. channels' \in [Servers -> SUBSET Users]
    BY <1>5, <2>2 DEF TypeOK, Command
  <2>4. QED
    BY <1>5, <2>1, <2>3 DEF TypeOK, SubCmd, Command, localVars, outsideVars, redisVars, historyVars
<1>6. CASE PubSubDrops(s)
  <2>1. channels' \in [Servers -> SUBSET Users]
    <3>1. {u \in Users : LiveOf(s, u) # {}} \in SUBSET Users
      OBVIOUS
    <3>2. QED
      BY <1>6, <3>1 DEF TypeOK, PubSubDrops
  <2>2. inbox' \in [Servers -> Seq(Message)]
    <3>1. <<>> \in Seq(Message)
      OBVIOUS
    <3>2. QED
      BY <1>6, <3>1, ServerTypes, Zenon DEF PubSubDrops
  <2>3. unheard' \in SUBSET (Servers \X Users \X Chats)
    <3>1. ASSUME NEW i \in DOMAIN inbox[s], inbox[s][i].do = "added"
          PROVE  inbox[s][i].user \in Users /\ inbox[s][i].chat \in Chats
      <4>1. inbox[s] \in Seq(Message)
        BY ServerTypes
      <4>2. inbox[s][i] \in Message
        BY <4>1
      <4>3. QED
        BY <3>1, <4>2 DEF Message, Notice
    <3>2. QED
      BY <1>6, <3>1 DEF TypeOK, PubSubDrops
  <2>4. QED
    BY <1>6, <2>1, <2>2, <2>3 DEF TypeOK, Message, PubSubDrops, localVars, outsideVars, redisVars
<1>7. CASE TakeNotice(s)
  <2>1. inbox' \in [Servers -> Seq(Message)] /\ Head(inbox[s]) \in Message
    BY <1>7, ServerTypes DEF TakeNotice
  <2>2. Head(inbox[s]) \in Notice
    BY <1>7, <2>1 DEF Message, TakeNotice
  <2>3. Applying(Head(inbox[s]).do, Head(inbox[s]).chat, LiveOf(s, Head(inbox[s]).user)) \in Fanin \cup {None}
    BY <2>2 DEF Notice, Applying, Fanin, LiveOf
  <2>4. fanin' \in [Servers -> Fanin \cup {None}]
    BY <1>7, <2>3, Zenon DEF TypeOK, TakeNotice, Fanin
  <2>5. QED
    BY <1>7, <2>1, <2>4 DEF TypeOK, Message, Fanin, TakeNotice, localVars, outsideVars, redisVars, historyVars
<1>8. CASE NoticeAdds(s)
  <2>1. PICK c \in fanin[s].left :
          /\ AddChatSub(s, s, fanin[s].chat, c)
          /\ fanin' = [fanin EXCEPT ![s] = Applying(@.do, @.chat, @.left \ {c})]
    BY <1>8 DEF NoticeAdds
  <2>2. fanin[s].chat \in Chats /\ c \in Conns /\ fanin' \in [Servers -> Fanin \cup {None}]
    BY <1>8, <2>1, FaninTypes DEF NoticeAdds
  <2>3. /\ subs' \in [Servers -> [Chats -> SUBSET Conns]]
        /\ op' \in [Conns \cup Servers -> Call \cup {None}]
        /\ disturbed' \in SUBSET (Servers \X Chats)
    BY <2>1, <2>2, AddChatSubType
  <2>4. QED
    BY <1>8, <2>2, <2>3 DEF TypeOK, Fanin, NoticeAdds, outsideVars, redisVars
<1>9. CASE NoticeRemoves(s)
  <2>1. PICK c \in fanin[s].left :
          /\ subs' = [subs EXCEPT ![s][fanin[s].chat] = @ \ {c}]
          /\ op' = [op EXCEPT ![s] = IF subs[s][fanin[s].chat] = {c} THEN [do |-> "SREM", chat |-> fanin[s].chat] ELSE None]
          /\ fanin' = [fanin EXCEPT ![s] = Applying(@.do, @.chat, @.left \ {c})]
    BY <1>9 DEF NoticeRemoves
  <2>2. fanin[s].chat \in Chats /\ c \in Conns /\ fanin' \in [Servers -> Fanin \cup {None}]
    BY <1>9, <2>1, FaninTypes DEF NoticeRemoves
  <2>3. [do |-> "SREM", chat |-> fanin[s].chat] \in Call
    BY <2>2 DEF Call
  <2>4. op' \in [Conns \cup Servers -> Call \cup {None}]
    BY <2>1, <2>3, Zenon DEF TypeOK
  <2>5. subs' \in [Servers -> [Chats -> SUBSET Conns]]
    BY <2>1, <2>2 DEF TypeOK
  <2>6. QED
    BY <1>9, <2>2, <2>4, <2>5 DEF TypeOK, Fanin, NoticeRemoves, outsideVars, redisVars, historyVars
<1>10. CASE FanOutChat(s)
  <2>1. inbox' \in [Servers -> Seq(Message)] /\ Head(inbox[s]) \in Message
    BY <1>10, ServerTypes DEF FanOutChat
  <2>2. Head(inbox[s]).chat \in Chats
    BY <2>1 DEF Message, Notice
  <2>3. queue' \in [Conns -> Seq(Frame)] /\ \A d \in Conns : Len(queue'[d]) <= QueueCap
    <3>1. [do |-> "event", chat |-> Head(inbox[s]).chat] \in Frame
      BY <2>2 DEF Frame
    <3>2. ASSUME NEW c \in Conns
          PROVE  queue'[c] \in Seq(Frame) /\ Len(queue'[c]) <= QueueCap
      <4>1. queue[c] \in Seq(Frame) /\ Len(queue[c]) \in Nat /\ Len(queue[c]) <= QueueCap
        BY ConnTypes
      <4>2. \/ queue'[c] = queue[c]
            \/ HasRoom(c) /\ queue'[c] = Append(queue[c], [do |-> "event", chat |-> Head(inbox[s]).chat])
        BY <1>10 DEF FanOutChat, Receivers
      <4>3. CASE HasRoom(c) /\ queue'[c] = Append(queue[c], [do |-> "event", chat |-> Head(inbox[s]).chat])
        <5>1. Len(queue[c]) < QueueCap
          BY <4>3 DEF HasRoom
        <5>2. QED
          BY <3>1, <4>1, <4>3, <5>1, RoutingAssumption
      <4>4. QED
        BY <4>1, <4>2, <4>3
    <3>3. queue' = [c \in Conns |-> queue'[c]]
      BY <1>10 DEF FanOutChat
    <3>4. QED
      BY <3>2, <3>3, Zenon
  <2>4. /\ dropped' \in [Conns -> SUBSET Chats]
        /\ gap' \in [Conns -> SUBSET Chats] /\ ackLost' \in [Conns -> SUBSET Chats]
    BY <1>10, <2>2 DEF TypeOK, FanOutChat
  <2>5. QED
    BY <1>10, <2>1, <2>3, <2>4 DEF TypeOK, Message, FanOutChat, outsideVars, redisVars
<1>11. CASE PublishTo(s)
  <2>1. pub # None /\ pub \in [do : {"event"}, chat : Chats, left : SUBSET Servers]
    BY <1>11 DEF TypeOK, PublishTo
  <2>2. pub' \in [do : {"event"}, chat : Chats, left : SUBSET Servers] \cup {None}
    BY <1>11, <2>1 DEF PublishTo
  <2>3. [do |-> "event", chat |-> pub.chat] \in Message
    BY <2>1 DEF Message
  <2>4. inbox' \in [Servers -> Seq(Message)]
    <3>1. inbox \in [Servers -> Seq(Message)]
      BY ServerTypes
    <3>2. [inbox EXCEPT ![s] = Append(@, [do |-> "event", chat |-> pub.chat])] \in [Servers -> Seq(Message)]
      BY <2>3, <3>1, AppendAt
    <3>3. QED
      BY <1>11, <3>1, <3>2, Zenon DEF PublishTo
  <2>5. QED
    BY <1>11, <2>2, <2>4 DEF TypeOK, Message, PublishTo, localVars, redisVars, historyVars
<1>12. QED
  BY <1>1, <1>2, <1>3, <1>4, <1>5, <1>6, <1>7, <1>8, <1>9, <1>10, <1>11 DEF ServerStep

LEMMA OutsideStepType ==
    ASSUME TypeOK,
           \/ \E t \in Conns \cup Servers : RedisAnswers(t)
           \/ \E h \in Chats : Expire(h) \/ StartPublish(h)
           \/ \E u \in Users, h \in Chats : ChangeMembership(u, h)
           \/ \E n \in Notice : PublishNotice(n)
    PROVE  TypeOK'
<1>1. ASSUME NEW t \in Conns \cup Servers, RedisAnswers(t) PROVE TypeOK'
  <2>1. ServerOf(t) \in Servers /\ op[t] \in Call
    BY <1>1 DEF TypeOK, ServerOf, RedisAnswers
  <2>2. op[t].chat \in Chats
    BY <2>1 DEF Call
  <2>3. op' \in [Conns \cup Servers -> Call \cup {None}]
    BY <1>1 DEF TypeOK, RedisAnswers
  <2>4. /\ instances' \in [Chats -> SUBSET Servers] /\ served' \in [Servers -> SUBSET Chats]
        /\ disturbed' \in SUBSET (Servers \X Chats)
    <3>1. CASE op[t].do = "SADD" /\ instances' = [instances EXCEPT ![op[t].chat] = @ \cup {ServerOf(t)}]
               /\ served' = [served EXCEPT ![ServerOf(t)] = @ \cup {op[t].chat}]
               /\ disturbed' = IF Removing(ServerOf(t), op[t].chat) THEN disturbed ELSE disturbed \ {<<ServerOf(t), op[t].chat>>}
      BY <2>1, <2>2, <3>1 DEF TypeOK
    <3>2. CASE op[t].do = "SREM" /\ instances' = [instances EXCEPT ![op[t].chat] = @ \ {ServerOf(t)}]
               /\ served' = [served EXCEPT ![ServerOf(t)] = @ \ {op[t].chat}] /\ UNCHANGED <<disturbed, faults>>
      BY <2>1, <2>2, <3>2 DEF TypeOK
    <3>3. CASE disturbed' = disturbed \cup {<<ServerOf(t), op[t].chat>>} /\ UNCHANGED redisVars
      BY <2>1, <2>2, <3>3 DEF TypeOK, redisVars
    <3>4. QED
      BY <1>1, <3>1, <3>2, <3>3, Zenon DEF RedisAnswers
  <2>5. QED
    BY <1>1, <2>3, <2>4 DEF TypeOK, RedisAnswers, localVars, pubsubVars, outsideVars
<1>2. ASSUME NEW h \in Chats, Expire(h) PROVE TypeOK'
  <2>1. instances' \in [Chats -> SUBSET Servers]
    BY <1>2 DEF TypeOK, Expire
  <2>2. QED
    BY <1>2, <2>1 DEF TypeOK, Expire, localVars, pubsubVars, outsideVars, historyVars
<1>3. ASSUME NEW h \in Chats, StartPublish(h) PROVE TypeOK'
  <2>1. pub' \in [do : {"event"}, chat : Chats, left : SUBSET Servers]
    BY <1>3 DEF TypeOK, StartPublish
  <2>2. QED
    BY <1>3, <2>1 DEF TypeOK, StartPublish, localVars, pubsubVars, redisVars, historyVars
<1>4. ASSUME NEW u \in Users, NEW h \in Chats, ChangeMembership(u, h) PROVE TypeOK'
  <2>1. member' \in SUBSET (Users \X Chats) /\ notices' \in SUBSET Notice
    BY <1>4 DEF TypeOK, ChangeMembership, Notice
  <2>2. QED
    BY <1>4, <2>1 DEF TypeOK, ChangeMembership, localVars, pubsubVars, redisVars, historyVars
<1>5. ASSUME NEW n \in Notice, PublishNotice(n) PROVE TypeOK'
  <2>1. notices' \in SUBSET Notice
    BY <1>5 DEF TypeOK, PublishNotice
  <2>2. inbox' \in [Servers -> Seq(Message)]
    <3>1. inbox \in [Servers -> Seq(Message)]
      BY DEF TypeOK, Message
    <3>2. ASSUME NEW s \in Servers PROVE Append(inbox[s], n) \in Seq(Message)
      BY <3>1 DEF Message
    <3>3. QED
      BY <1>5, <3>1, <3>2, Zenon DEF PublishNotice
  <2>3. QED
    BY <1>5, <2>1, <2>2 DEF TypeOK, Message, PublishNotice, localVars, redisVars, historyVars
<1>6. QED
  BY <1>1, <1>2, <1>3, <1>4, <1>5

LEMMA RoutingStepType == TypeOK /\ [Next]_vars => TypeOK'
<1> SUFFICES ASSUME TypeOK, [Next]_vars PROVE TypeOK'
  OBVIOUS
<1>1. CASE UNCHANGED vars
  BY <1>1 DEF TypeOK, vars, localVars, pubsubVars, redisVars, outsideVars, historyVars
<1>2. CASE Next
  BY <1>2, ConnStepType, ServerStepType, OutsideStepType DEF Next
<1>3. QED
  BY <1>1, <1>2

(***************************************************************************)
(* A chat that is served locally is registered in Redis.                   *)
(***************************************************************************)
\* A connection's task waits for an SADD while it joins and for an SREM while
\* it leaves.
TasksWait ==
    \A c \in Conns : op[c] # None =>
        (pc[c] = "join" /\ op[c].do = "SADD") \/ (pc[c] = "leave" /\ op[c].do = "SREM")

\* A deregistration under way is of a chat without subscribers, or the race
\* with a new one was noted.
RemovalIsSeen ==
    \A s \in Servers, h \in Chats : Removing(s, h) => subs[s][h] = {} \/ <<s, h>> \in disturbed

RegistryInv == TypeOK /\ TasksWait /\ RemovalIsSeen /\ ServedIsRegistered

registryVars == <<at, pc, todo, subs, op, instances, served, up, disturbed>>

LEMMA RegistryInit == Init => RegistryInv
<1> SUFFICES ASSUME Init PROVE RegistryInv
  OBVIOUS
<1>1. TypeOK
  BY RoutingInitType
<1>2. TasksWait
  BY DEF Init, TasksWait
<1>3. RemovalIsSeen
  BY DEF Init, RemovalIsSeen
<1>4. ServedIsRegistered
  BY DEF Init, ServedIsRegistered
<1>5. QED
  BY <1>1, <1>2, <1>3, <1>4 DEF RegistryInv

\* A step that leaves the registry and its local table alone.
LEMMA RegistryFrame ==
    ASSUME RegistryInv, UNCHANGED registryVars
    PROVE  TasksWait' /\ RemovalIsSeen' /\ ServedIsRegistered'
<1>1. TasksWait'
  BY DEF RegistryInv, registryVars, TasksWait
<1>2. RemovalIsSeen'
  BY DEF RegistryInv, registryVars, RemovalIsSeen, Removing
<1>3. ServedIsRegistered'
  BY DEF RegistryInv, registryVars, ServedIsRegistered, ServerOf
<1>4. QED
  BY <1>1, <1>2, <1>3

LEMMA ServerOfServer == \A s \in Servers : ServerOf(s) = s
BY RoutingAssumption DEF ServerOf

\* A step that takes away neither a registration nor an SADD in flight, and
\* gives no chat its first subscriber.
LEMMA ServedKeeps ==
    ASSUME RegistryInv, UNCHANGED at, up' \subseteq up, disturbed \subseteq disturbed',
           \A s \in up' : \A w \in Conns \cup {s} :
               ServerOf(w) = s /\ op[w] # None /\ op[w].do = "SADD" => op'[w] = op[w],
           \A s \in up', h \in Chats : subs'[s][h] # {} /\ <<s, h>> \notin disturbed' =>
               /\ subs[s][h] # {}
               /\ s \in instances[h] /\ h \in served[s] => s \in instances'[h] /\ h \in served'[s]
    PROVE  ServedIsRegistered'
<1>1. ASSUME NEW s \in up', NEW h \in Chats, subs'[s][h] # {}, <<s, h>> \notin disturbed'
      PROVE  \/ s \in instances'[h] /\ h \in served'[s]
             \/ \E w \in Conns \cup {s} : ServerOf(w)' = s /\ op'[w] = [do |-> "SADD", chat |-> h]
  <2>1. \/ s \in instances[h] /\ h \in served[s]
        \/ \E w \in Conns \cup {s} : ServerOf(w) = s /\ op[w] = [do |-> "SADD", chat |-> h]
    BY <1>1 DEF RegistryInv, ServedIsRegistered
  <2>2. ASSUME NEW w \in Conns \cup {s}, ServerOf(w) = s, op[w] = [do |-> "SADD", chat |-> h]
        PROVE  ServerOf(w)' = s /\ op'[w] = [do |-> "SADD", chat |-> h]
    <3>1. op[w] # None /\ op[w].do = "SADD"
      BY <2>2 DEF None
    <3>2. op'[w] = op[w]
      BY <2>2, <3>1
    <3>3. QED
      BY <2>2, <3>2 DEF ServerOf
  <2>3. QED
    BY <1>1, <2>1, <2>2
<1>2. QED
  BY <1>1 DEF ServedIsRegistered

LEMMA AddChatSubKeeps ==
    ASSUME RegistryInv, NEW t \in Conns \cup Servers, NEW s \in Servers, NEW h \in Chats, NEW c \in Conns,
           AddChatSub(t, s, h, c), ServerOf(t) = s, op[t] = None, t \in Conns => pc[t] = "join",
           UNCHANGED <<at, pc, instances, served, up>>,
           \A d \in Conns : pc[d] = "leave" => todo'[d] = todo[d]
    PROVE  TasksWait' /\ RemovalIsSeen' /\ ServedIsRegistered'
<1>0. /\ subs \in [Servers -> [Chats -> SUBSET Conns]] /\ op \in [Conns \cup Servers -> Call \cup {None}]
      /\ TasksWait /\ RemovalIsSeen /\ ServedIsRegistered
  BY DEF RegistryInv, TypeOK
<1>1. \A r \in Conns \cup Servers : r # t => op'[r] = op[r]
  BY <1>0 DEF AddChatSub
<1>2. op'[t] = IF subs[s][h] = {} THEN [do |-> "SADD", chat |-> h] ELSE None
  BY <1>0 DEF AddChatSub
<1>3. /\ subs'[s][h] = subs[s][h] \cup {c}
      /\ \A r \in Servers, g \in Chats : <<r, g>> # <<s, h>> => subs'[r][g] = subs[r][g]
  BY <1>0 DEF AddChatSub
<1>4. disturbed \subseteq disturbed' /\ (subs[s][h] = {} /\ Removing(s, h) => <<s, h>> \in disturbed')
  BY DEF AddChatSub
<1>5. TasksWait'
  BY <1>0, <1>1, <1>2, RoutingAssumption DEF TasksWait, None
<1>6. ASSUME NEW r \in Servers, NEW g \in Chats, Removing(r, g)'
      PROVE  Removing(r, g)
  <2>1. op'[t] # [do |-> "SREM", chat |-> g]
    BY <1>2 DEF None
  <2>2. QED
    BY <1>1, <1>6, <2>1 DEF Removing
<1>7. RemovalIsSeen'
  BY <1>0, <1>3, <1>4, <1>6, Zenon DEF RemovalIsSeen
<1>8. ASSUME NEW r \in up, NEW g \in Chats, subs'[r][g] # {}, <<r, g>> \notin disturbed'
      PROVE  \/ r \in instances[g] /\ g \in served[r]
             \/ \E w \in Conns \cup {r} : ServerOf(w)' = r /\ op'[w] = [do |-> "SADD", chat |-> g]
  <2>0. r \in Servers
    BY DEF RegistryInv, TypeOK
  <2>1. CASE subs[r][g] = {}
    <3>1. r = s /\ g = h
      BY <1>3, <1>8, <2>0, <2>1
    <3>2. op'[t] = [do |-> "SADD", chat |-> g] /\ ServerOf(t)' = r /\ t \in Conns \cup {r}
      BY <1>2, <2>1, <3>1 DEF ServerOf
    <3>3. QED
      BY <3>2
  <2>2. CASE subs[r][g] # {}
    <3>1. \/ r \in instances[g] /\ g \in served[r]
          \/ \E w \in Conns \cup {r} : ServerOf(w) = r /\ op[w] = [do |-> "SADD", chat |-> g]
      BY <1>0, <1>4, <1>8, <2>2 DEF ServedIsRegistered
    <3>2. ASSUME NEW w \in Conns \cup {r}, ServerOf(w) = r, op[w] = [do |-> "SADD", chat |-> g]
          PROVE  ServerOf(w)' = r /\ op'[w] = [do |-> "SADD", chat |-> g]
      <4>1. w # t
        BY <3>2 DEF None
      <4>2. QED
        BY <1>1, <2>0, <3>2, <4>1 DEF ServerOf
    <3>3. QED
      BY <3>1, <3>2
  <2>3. QED
    BY <2>1, <2>2
<1>9. ServedIsRegistered'
  BY <1>8 DEF ServedIsRegistered
<1>10. QED
  BY <1>5, <1>7, <1>9

LEMMA ConnStepRegistry ==
    ASSUME RegistryInv, NEW c \in Conns, ConnStep(c)
    PROVE  TasksWait' /\ RemovalIsSeen' /\ ServedIsRegistered'
<1>0. /\ TypeOK /\ TasksWait /\ RemovalIsSeen /\ ServedIsRegistered
      /\ subs \in [Servers -> [Chats -> SUBSET Conns]] /\ op \in [Conns \cup Servers -> Call \cup {None}]
      /\ pc \in [Conns -> {"new", "fetch", "join", "open", "leave", "gone"}]
      /\ todo \in [Conns -> SUBSET Chats] /\ at \in [Conns -> Servers] /\ up \subseteq Servers
  BY DEF RegistryInv, TypeOK
<1>1. ASSUME op[c] = None, pc[c] # "leave", UNCHANGED <<at, subs, op, instances, served, up, disturbed>>,
             NEW p \in {"fetch", "join", "open"}, pc' = [pc EXCEPT ![c] = p],
             \A d \in Conns : d # c => todo'[d] = todo[d]
      PROVE  TasksWait' /\ RemovalIsSeen' /\ ServedIsRegistered'
  <2>1. TasksWait'
    BY <1>0, <1>1 DEF TasksWait
  <2>2. RemovalIsSeen'
    <3>1. ASSUME NEW s \in Servers, NEW h \in Chats, Removing(s, h)' PROVE Removing(s, h)
      BY <1>0, <1>1, <3>1 DEF Removing
    <3>2. QED
      BY <1>0, <1>1, <3>1 DEF RemovalIsSeen
  <2>3. ServedIsRegistered'
    BY <1>1, ServedKeeps
  <2>4. QED
    BY <2>1, <2>2, <2>3
<1>2. CASE Accept(c)
  <2>1. op[c] = None
    BY <1>0, <1>2 DEF TasksWait, Accept
  <2>2. QED
    BY <1>1, <1>2, <2>1 DEF Accept, redisVars, historyVars
<1>3. CASE FetchChats(c)
  <2>1. op[c] = None
    BY <1>0, <1>3 DEF TasksWait, FetchChats
  <2>2. \A d \in Conns : d # c => todo'[d] = todo[d]
    BY <1>0, <1>3 DEF FetchChats
  <2>3. QED
    BY <1>1, <1>3, <2>1, <2>2 DEF FetchChats, redisVars, historyVars
<1>4. CASE JoinChat(c)
  <2>1. PICK h \in todo[c] : AddChatSub(c, at[c], h, c) /\ todo' = [todo EXCEPT ![c] = @ \ {h}]
    BY <1>4 DEF JoinChat
  <2>2. h \in Chats /\ at[c] \in Servers /\ ServerOf(c) = at[c]
    BY <1>0, <2>1 DEF ServerOf
  <2>3. \A d \in Conns : pc[d] = "leave" => todo'[d] = todo[d]
    BY <1>0, <1>4, <2>1 DEF JoinChat
  <2>4. QED
    BY <1>4, <2>1, <2>2, <2>3, AddChatSubKeeps DEF JoinChat, redisVars
<1>5. CASE Open(c)
  BY <1>1, <1>5 DEF Open, redisVars, historyVars
<1>6. CASE Close(c)
  <2>1. op[c] = None
    BY <1>0, <1>6 DEF TasksWait, Close
  <2>2. TasksWait'
    BY <1>0, <1>6, <2>1 DEF TasksWait, Close
  <2>3. \A s \in Servers, h \in Chats : subs'[s][h] \subseteq subs[s][h]
    BY <1>0, <1>6 DEF Close
  <2>4. ASSUME NEW s \in Servers, NEW h \in Chats, Removing(s, h)', subs'[s][h] # {}
        PROVE  Removing(s, h)
    <3>1. ~(s = at[c] /\ h \in todo'[c])
      BY <1>0, <1>6, <2>4 DEF Close
    <3>2. QED
      BY <1>0, <1>6, <2>1, <2>4, <3>1 DEF Close, Removing, None
  <2>5. RemovalIsSeen'
    BY <1>0, <1>6, <2>3, <2>4 DEF RemovalIsSeen, Close
  <2>6. ServedIsRegistered'
    <3>1. \A s \in Servers, h \in Chats : subs'[s][h] # {} => subs[s][h] # {}
      BY <2>3
    <3>2. UNCHANGED <<at, up, disturbed, op, instances, served>>
      BY <1>6 DEF Close, redisVars
    <3>3. QED
      BY <1>0, <3>1, <3>2, ServedKeeps
  <2>7. QED
    BY <2>2, <2>5, <2>6
<1>7. CASE LeaveChat(c)
  <2>1. PICK h \in todo[c] :
          /\ op' = [op EXCEPT ![c] = [do |-> "SREM", chat |-> h]]
          /\ todo' = [todo EXCEPT ![c] = @ \ {h}]
    BY <1>7 DEF LeaveChat
  <2>2. TasksWait'
    BY <1>0, <1>7, <2>1 DEF TasksWait, LeaveChat
  <2>3. ASSUME NEW s \in Servers, NEW g \in Chats, Removing(s, g)' PROVE Removing(s, g)
    BY <1>0, <1>7, <2>1, <2>3, RoutingAssumption DEF Removing, LeaveChat
  <2>4. RemovalIsSeen'
    BY <1>0, <1>7, <2>3 DEF RemovalIsSeen, LeaveChat, historyVars
  <2>5. \A w \in Conns \cup Servers : op[w] # None => op'[w] = op[w]
    BY <1>0, <1>7, <2>1 DEF LeaveChat
  <2>6. ServedIsRegistered'
    <3>1. UNCHANGED <<at, up, disturbed, subs, instances, served>>
      BY <1>7 DEF LeaveChat, redisVars, historyVars
    <3>2. QED
      BY <1>0, <2>5, <3>1, ServedKeeps
  <2>7. QED
    BY <2>2, <2>4, <2>6
<1>8. CASE Gone(c)
  <2>1. TasksWait'
    BY <1>0, <1>8 DEF TasksWait, Gone
  <2>2. ASSUME NEW s \in Servers, NEW g \in Chats, Removing(s, g)' PROVE Removing(s, g)
    BY <1>0, <1>8, <2>2 DEF Removing, Gone
  <2>3. RemovalIsSeen'
    BY <1>0, <1>8, <2>2 DEF RemovalIsSeen, Gone, historyVars
  <2>4. ServedIsRegistered'
    <3>1. UNCHANGED <<at, up, disturbed, subs, op, instances, served>>
      BY <1>8 DEF Gone, redisVars, historyVars
    <3>2. QED
      BY <3>1, ServedKeeps
  <2>5. QED
    BY <2>1, <2>3, <2>4
<1>9. CASE ClientHeartbeat(c)
  BY <1>9, RegistryFrame DEF ClientHeartbeat, registryVars, redisVars
<1>10. CASE ClientReceives(c)
  BY <1>10, RegistryFrame DEF ClientReceives, registryVars, localVars, redisVars
<1>11. QED
  BY <1>2, <1>3, <1>4, <1>5, <1>6, <1>7, <1>8, <1>9, <1>10 DEF ConnStep

LEMMA LocalStateLostRegistry ==
    ASSUME RegistryInv, NEW s \in Servers, LocalStateLost(s),
           \A r \in Servers, h \in Chats : r # s =>
               /\ r \in instances[h] => r \in instances'[h]
               /\ h \in served[r] => h \in served'[r]
    PROVE  TasksWait' /\ RemovalIsSeen' /\ ServedIsRegistered'
<1>0. /\ TypeOK /\ TasksWait /\ RemovalIsSeen /\ ServedIsRegistered
      /\ subs \in [Servers -> [Chats -> SUBSET Conns]] /\ op \in [Conns \cup Servers -> Call \cup {None}]
      /\ pc \in [Conns -> {"new", "fetch", "join", "open", "leave", "gone"}]
      /\ todo \in [Conns -> SUBSET Chats] /\ at \in [Conns -> Servers] /\ up \subseteq Servers
  BY DEF RegistryInv, TypeOK
<1>1. \A t \in Conns \cup Servers : op'[t] = IF ServerOf(t) = s THEN None ELSE op[t]
  BY DEF LocalStateLost
<1>2. \A c \in Conns : /\ at[c] = s => pc'[c] = "gone"
                       /\ at[c] # s => pc'[c] = pc[c] /\ todo'[c] = todo[c]
  BY DEF LocalStateLost
<1>3. /\ \A h \in Chats : subs'[s][h] = {}
      /\ \A r \in Servers : r # s => subs'[r] = subs[r]
  BY <1>0 DEF LocalStateLost
<1>4. UNCHANGED <<at, disturbed>> /\ up' = up \ {s}
  BY DEF LocalStateLost
<1>5. TasksWait'
  BY <1>0, <1>1, <1>2 DEF TasksWait, ServerOf
<1>6. ASSUME NEW r \in Servers, r # s, NEW h \in Chats, Removing(r, h)' PROVE Removing(r, h)
  <2>1. op'[r] = op[r]
    BY <1>1, <1>6, ServerOfServer
  <2>2. \A c \in Conns : at'[c] = r => pc'[c] = pc[c] /\ todo'[c] = todo[c] /\ op'[c] = op[c]
    BY <1>1, <1>2, <1>4, <1>6 DEF ServerOf
  <2>3. QED
    BY <1>4, <1>6, <2>1, <2>2 DEF Removing
<1>7. RemovalIsSeen'
  BY <1>0, <1>3, <1>4, <1>6 DEF RemovalIsSeen
<1>8. ServedIsRegistered'
  <2>1. ASSUME NEW r \in up', NEW w \in Conns \cup {r}, ServerOf(w) = r PROVE op'[w] = op[w]
    BY <1>0, <1>1, <1>4, <2>1
  <2>2. \A r \in up' : r \in Servers /\ r # s
    BY <1>0, <1>4
  <2>3. \A r \in up', h \in Chats : subs'[r][h] # {} /\ <<r, h>> \notin disturbed' =>
            /\ subs[r][h] # {}
            /\ r \in instances[h] /\ h \in served[r] => r \in instances'[h] /\ h \in served'[r]
    BY <1>3, <2>2
  <2>4. QED
    BY <1>4, <2>1, <2>3, ServedKeeps
<1>9. QED
  BY <1>5, <1>7, <1>8

LEMMA ServerStepRegistry ==
    ASSUME RegistryInv, NEW s \in Servers, ServerStep(s)
    PROVE  TasksWait' /\ RemovalIsSeen' /\ ServedIsRegistered'
<1>0. /\ TypeOK /\ TasksWait /\ RemovalIsSeen /\ ServedIsRegistered
      /\ subs \in [Servers -> [Chats -> SUBSET Conns]] /\ op \in [Conns \cup Servers -> Call \cup {None}]
      /\ instances \in [Chats -> SUBSET Servers] /\ served \in [Servers -> SUBSET Chats]
      /\ at \in [Conns -> Servers] /\ up \subseteq Servers
  BY DEF RegistryInv, TypeOK
<1>1. CASE HeartbeatReads(s)
  BY <1>1, RegistryFrame DEF HeartbeatReads, registryVars, localVars, redisVars, historyVars
<1>2. CASE HeartbeatWrites(s)
  <2>1. UNCHANGED <<at, pc, todo, subs, op, served, up, disturbed>>
    BY <1>2 DEF HeartbeatWrites, localVars, historyVars
  <2>2. \A h \in Chats : instances[h] \subseteq instances'[h]
    BY <1>2 DEF HeartbeatWrites
  <2>3. TasksWait'
    BY <1>0, <2>1 DEF TasksWait
  <2>4. RemovalIsSeen'
    BY <1>0, <2>1 DEF RemovalIsSeen, Removing
  <2>5. ServedIsRegistered'
    BY <2>1, <2>2, ServedKeeps
  <2>6. QED
    BY <2>3, <2>4, <2>5
<1>3. CASE Shutdown(s)
  <2>1. \A r \in Servers, h \in Chats : r # s =>
            /\ r \in instances[h] => r \in instances'[h]
            /\ h \in served[r] => h \in served'[r]
    BY <1>0, <1>3 DEF Shutdown
  <2>2. QED
    BY <1>3, <2>1, LocalStateLostRegistry DEF Shutdown
<1>4. CASE Crash(s)
  BY <1>4, LocalStateLostRegistry DEF Crash, redisVars
<1>5. CASE Command(s)
  BY <1>5, RegistryFrame DEF Command, registryVars, localVars, redisVars, historyVars
<1>6. CASE PubSubDrops(s)
  BY <1>6, RegistryFrame DEF PubSubDrops, registryVars, localVars, redisVars
<1>7. CASE TakeNotice(s)
  BY <1>7, RegistryFrame DEF TakeNotice, registryVars, localVars, redisVars, historyVars
<1>8. CASE NoticeAdds(s)
  <2>1. PICK c \in fanin[s].left : AddChatSub(s, s, fanin[s].chat, c)
    BY <1>8 DEF NoticeAdds
  <2>2. fanin[s].chat \in Chats /\ c \in Conns
    BY <1>0, <1>8, <2>1, FaninTypes DEF NoticeAdds
  <2>3. s \notin Conns /\ ServerOf(s) = s
    BY RoutingAssumption, ServerOfServer
  <2>4. QED
    BY <1>8, <2>1, <2>2, <2>3, AddChatSubKeeps DEF NoticeAdds, redisVars
<1>9. CASE NoticeRemoves(s)
  <2>1. PICK c \in fanin[s].left :
          /\ subs' = [subs EXCEPT ![s][fanin[s].chat] = @ \ {c}]
          /\ op' = [op EXCEPT ![s] = IF subs[s][fanin[s].chat] = {c} THEN [do |-> "SREM", chat |-> fanin[s].chat] ELSE None]
    BY <1>9 DEF NoticeRemoves
  <2>2. fanin[s].chat \in Chats /\ s \notin Conns /\ op[s] = None
    BY <1>0, <1>9, FaninTypes, RoutingAssumption DEF NoticeRemoves
  <2>3. UNCHANGED <<at, pc, todo, instances, served, up, disturbed>>
    BY <1>9 DEF NoticeRemoves, redisVars, historyVars
  <2>4. \A w \in Conns \cup Servers : w # s => op'[w] = op[w]
    BY <1>0, <2>1
  <2>5. TasksWait'
    BY <1>0, <2>2, <2>3, <2>4 DEF TasksWait
  <2>6. \A r \in Servers, h \in Chats : subs'[r][h] \subseteq subs[r][h]
    BY <1>0, <2>1, <2>2
  <2>7. ASSUME NEW r \in Servers, NEW h \in Chats, Removing(r, h)', subs'[r][h] # {}
        PROVE  Removing(r, h)
    <3>1. ~(r = s /\ op'[s] = [do |-> "SREM", chat |-> h])
      <4>1. SUFFICES ASSUME r = s, op'[s] = [do |-> "SREM", chat |-> h] PROVE FALSE
        OBVIOUS
      <4>2. subs[s][fanin[s].chat] = {c} /\ op'[s] = [do |-> "SREM", chat |-> fanin[s].chat]
        BY <1>0, <2>1, <4>1 DEF None
      <4>3. h = fanin[s].chat
        BY <4>1, <4>2
      <4>4. subs'[s][h] = {}
        BY <1>0, <2>1, <2>2, <4>2, <4>3
      <4>5. QED
        BY <2>7, <4>1, <4>4
    <3>2. QED
      BY <2>2, <2>3, <2>4, <2>7, <3>1 DEF Removing
  <2>8. RemovalIsSeen'
    BY <1>0, <2>3, <2>6, <2>7 DEF RemovalIsSeen
  <2>9. ServedIsRegistered'
    BY <1>0, <2>2, <2>3, <2>4, <2>6, ServedKeeps
  <2>10. QED
    BY <2>5, <2>8, <2>9
<1>10. CASE FanOutChat(s)
  BY <1>10, RegistryFrame DEF FanOutChat, registryVars, redisVars
<1>11. CASE PublishTo(s)
  BY <1>11, RegistryFrame DEF PublishTo, registryVars, localVars, redisVars, historyVars
<1>12. QED
  BY <1>1, <1>2, <1>3, <1>4, <1>5, <1>6, <1>7, <1>8, <1>9, <1>10, <1>11 DEF ServerStep

LEMMA RedisAnswersRegistry ==
    ASSUME RegistryInv, NEW t \in Conns \cup Servers, RedisAnswers(t)
    PROVE  TasksWait' /\ RemovalIsSeen' /\ ServedIsRegistered'
<1> DEFINE s == ServerOf(t)
           h == op[t].chat
<1>0. /\ TypeOK /\ TasksWait /\ RemovalIsSeen /\ ServedIsRegistered
      /\ subs \in [Servers -> [Chats -> SUBSET Conns]] /\ op \in [Conns \cup Servers -> Call \cup {None}]
      /\ instances \in [Chats -> SUBSET Servers] /\ served \in [Servers -> SUBSET Chats]
      /\ at \in [Conns -> Servers] /\ up \subseteq Servers
  BY DEF RegistryInv, TypeOK
<1>1. op[t] # None /\ op[t] \in Call /\ s \in Servers /\ h \in Chats /\ op[t] = [do |-> op[t].do, chat |-> h]
  BY <1>0 DEF RedisAnswers, ServerOf, Call
<1>2. UNCHANGED <<at, pc, todo, subs, up>>
  BY DEF RedisAnswers, localVars
<1>3. op'[t] = None /\ \A w \in Conns \cup Servers : w # t => op'[w] = op[w]
  BY <1>0 DEF RedisAnswers
<1>4. TasksWait'
  BY <1>0, <1>2, <1>3 DEF TasksWait
<1>5. ASSUME NEW r \in Servers, NEW g \in Chats, Removing(r, g)' PROVE Removing(r, g)
  <2>1. op'[t] # [do |-> "SREM", chat |-> g]
    BY <1>3 DEF None
  <2>2. QED
    BY <1>2, <1>3, <1>5, <2>1 DEF Removing
<1>6. CASE /\ op[t].do = "SADD"
           /\ instances' = [instances EXCEPT ![h] = @ \cup {s}]
           /\ served' = [served EXCEPT ![s] = @ \cup {h}]
           /\ disturbed' = IF Removing(s, h) THEN disturbed ELSE disturbed \ {<<s, h>>}
  <2>1. RemovalIsSeen'
    <3>1. ASSUME NEW r \in Servers, NEW g \in Chats, Removing(r, g)'
          PROVE  subs'[r][g] = {} \/ <<r, g>> \in disturbed'
      <4>1. Removing(r, g)
        BY <1>5, <3>1
      <4>2. <<r, g>> \in disturbed => <<r, g>> \in disturbed'
        BY <1>6, <4>1
      <4>3. QED
        BY <1>0, <1>2, <4>1, <4>2 DEF RemovalIsSeen
    <3>2. QED
      BY <3>1 DEF RemovalIsSeen
  <2>2. s \in instances'[h] /\ h \in served'[s]
    BY <1>0, <1>1, <1>6
  <2>3. \A r \in Servers, g \in Chats : /\ instances[g] \subseteq instances'[g]
                                        /\ served[r] \subseteq served'[r]
    BY <1>0, <1>1, <1>6
  <2>4. ASSUME NEW r \in up', NEW g \in Chats, subs'[r][g] # {}, <<r, g>> \notin disturbed'
        PROVE  \/ r \in instances'[g] /\ g \in served'[r]
               \/ \E w \in Conns \cup {r} : ServerOf(w)' = r /\ op'[w] = [do |-> "SADD", chat |-> g]
    <3>1. CASE r = s /\ g = h
      BY <2>2, <3>1
    <3>2. CASE ~(r = s /\ g = h)
      <4>1. r \in Servers /\ <<r, g>> \notin disturbed /\ r \in up
        BY <1>0, <1>2, <1>6, <2>4, <3>2
      <4>2. \/ r \in instances[g] /\ g \in served[r]
            \/ \E w \in Conns \cup {r} : ServerOf(w) = r /\ op[w] = [do |-> "SADD", chat |-> g]
        BY <1>0, <1>2, <2>4, <4>1 DEF ServedIsRegistered
      <4>3. ASSUME NEW w \in Conns \cup {r}, ServerOf(w) = r, op[w] = [do |-> "SADD", chat |-> g]
            PROVE  ServerOf(w)' = r /\ op'[w] = [do |-> "SADD", chat |-> g]
        <5>1. w # t
          BY <1>1, <3>2, <4>3
        <5>2. QED
          BY <1>2, <1>3, <4>1, <4>3, <5>1 DEF ServerOf
      <4>4. QED
        BY <2>3, <4>1, <4>2, <4>3
    <3>3. QED
      BY <3>1, <3>2
  <2>5. QED
    BY <1>4, <2>1, <2>4 DEF ServedIsRegistered
<1>7. CASE /\ op[t].do = "SREM"
           /\ instances' = [instances EXCEPT ![h] = @ \ {s}]
           /\ served' = [served EXCEPT ![s] = @ \ {h}]
           /\ UNCHANGED <<disturbed, faults>>
  <2>1. Removing(s, h)
    <3>1. op[t] = [do |-> "SREM", chat |-> h]
      BY <1>1, <1>7
    <3>2. CASE t \in Conns
      BY <1>0, <1>1, <1>7, <3>1, <3>2 DEF Removing, ServerOf, TasksWait
    <3>3. CASE t \notin Conns
      BY <3>1, <3>3 DEF Removing, ServerOf
    <3>4. QED
      BY <3>2, <3>3
  <2>2. subs[s][h] = {} \/ <<s, h>> \in disturbed
    BY <1>0, <1>1, <2>1 DEF RemovalIsSeen
  <2>3. RemovalIsSeen'
    BY <1>0, <1>2, <1>5, <1>7 DEF RemovalIsSeen
  <2>4. \A r \in Servers, g \in Chats :
            ~(r = s /\ g = h) /\ r \in instances[g] /\ g \in served[r] => r \in instances'[g] /\ g \in served'[r]
    BY <1>0, <1>1, <1>7
  <2>5. \A w \in Conns \cup Servers : op[w].do = "SADD" => op'[w] = op[w]
    BY <1>3, <1>7
  <2>6. ServedIsRegistered'
    <3>1. \A r \in up' : \A w \in Conns \cup {r} :
              ServerOf(w) = r /\ op[w] # None /\ op[w].do = "SADD" => op'[w] = op[w]
      BY <1>0, <1>2, <2>5
    <3>2. \A r \in up', g \in Chats : subs'[r][g] # {} /\ <<r, g>> \notin disturbed' =>
              /\ subs[r][g] # {}
              /\ r \in instances[g] /\ g \in served[r] => r \in instances'[g] /\ g \in served'[r]
      BY <1>0, <1>2, <1>7, <2>2, <2>4
    <3>3. QED
      BY <1>2, <1>7, <3>1, <3>2, ServedKeeps
  <2>7. QED
    BY <1>4, <2>3, <2>6
<1>8. CASE /\ faults > 0 /\ faults' = faults - 1
           /\ disturbed' = disturbed \cup {<<s, h>>}
           /\ UNCHANGED redisVars
  <2>1. RemovalIsSeen'
    BY <1>0, <1>2, <1>5, <1>8 DEF RemovalIsSeen
  <2>2. ASSUME NEW r \in up', NEW g \in Chats, subs'[r][g] # {}, <<r, g>> \notin disturbed'
        PROVE  \/ r \in instances'[g] /\ g \in served'[r]
               \/ \E w \in Conns \cup {r} : ServerOf(w)' = r /\ op'[w] = [do |-> "SADD", chat |-> g]
    <3>1. r \in Servers /\ <<r, g>> \notin disturbed /\ r \in up /\ ~(r = s /\ g = h)
      BY <1>0, <1>2, <1>8, <2>2
    <3>2. \/ r \in instances[g] /\ g \in served[r]
          \/ \E w \in Conns \cup {r} : ServerOf(w) = r /\ op[w] = [do |-> "SADD", chat |-> g]
      BY <1>0, <1>2, <2>2, <3>1 DEF ServedIsRegistered
    <3>3. ASSUME NEW w \in Conns \cup {r}, ServerOf(w) = r, op[w] = [do |-> "SADD", chat |-> g]
          PROVE  ServerOf(w)' = r /\ op'[w] = [do |-> "SADD", chat |-> g]
      <4>1. w # t
        BY <1>1, <3>1, <3>3
      <4>2. QED
        BY <1>2, <1>3, <3>1, <3>3, <4>1 DEF ServerOf
    <3>4. QED
      BY <1>8, <3>2, <3>3 DEF redisVars
  <2>3. QED
    BY <1>4, <2>1, <2>2 DEF ServedIsRegistered
<1>9. QED
  BY <1>6, <1>7, <1>8, Zenon DEF RedisAnswers

LEMMA ExpireRegistry ==
    ASSUME RegistryInv, NEW h \in Chats, Expire(h)
    PROVE  TasksWait' /\ RemovalIsSeen' /\ ServedIsRegistered'
<1>0. /\ TypeOK /\ TasksWait /\ RemovalIsSeen /\ ServedIsRegistered
      /\ instances \in [Chats -> SUBSET Servers] /\ up \subseteq Servers
  BY DEF RegistryInv, TypeOK
<1>1. UNCHANGED <<at, pc, todo, subs, op, served, up, disturbed>>
  BY DEF Expire, localVars, historyVars
<1>2. TasksWait' /\ RemovalIsSeen'
  BY <1>0, <1>1 DEF TasksWait, RemovalIsSeen, Removing
<1>3. \A s \in up, g \in Chats : g \in served[s] /\ s \in instances[g] => s \in instances'[g]
  BY <1>0 DEF Expire
<1>4. ServedIsRegistered'
  BY <1>1, <1>3, ServedKeeps
<1>5. QED
  BY <1>2, <1>4

\* No step takes a served chat out of the registry unseen.
LEMMA RegistryStep == RegistryInv /\ [Next]_vars => RegistryInv'
<1> SUFFICES ASSUME RegistryInv, [Next]_vars PROVE RegistryInv'
  OBVIOUS
<1>0. TypeOK'
  BY RoutingStepType DEF RegistryInv
<1>1. CASE UNCHANGED vars
  BY <1>0, <1>1, RegistryFrame DEF RegistryInv, registryVars, vars, localVars, redisVars, historyVars
<1>2. CASE \E c \in Conns : ConnStep(c)
  BY <1>0, <1>2, ConnStepRegistry DEF RegistryInv
<1>3. CASE \E s \in Servers : ServerStep(s)
  BY <1>0, <1>3, ServerStepRegistry DEF RegistryInv
<1>4. CASE \E t \in Conns \cup Servers : RedisAnswers(t)
  BY <1>0, <1>4, RedisAnswersRegistry DEF RegistryInv
<1>5. CASE \E h \in Chats : Expire(h) \/ StartPublish(h)
  <2>1. CASE \E h \in Chats : Expire(h)
    BY <1>0, <2>1, ExpireRegistry DEF RegistryInv
  <2>2. CASE \E h \in Chats : StartPublish(h)
    BY <1>0, <2>2, RegistryFrame DEF RegistryInv, StartPublish, registryVars, localVars, redisVars, historyVars
  <2>3. QED
    BY <1>5, <2>1, <2>2
<1>6. CASE \E u \in Users, h \in Chats : ChangeMembership(u, h)
  BY <1>0, <1>6, RegistryFrame DEF RegistryInv, ChangeMembership, registryVars, localVars, redisVars, historyVars
<1>7. CASE \E n \in Notice : PublishNotice(n)
  BY <1>0, <1>7, RegistryFrame DEF RegistryInv, PublishNotice, registryVars, localVars, redisVars, historyVars
<1>8. QED
  BY <1>1, <1>2, <1>3, <1>4, <1>5, <1>6, <1>7 DEF Next

(***************************************************************************)
(* A gap is remembered until it is reported.                               *)
(***************************************************************************)
\* h is among the chats an ack in the frames q names.
Names(q, h) == \E i \in DOMAIN q : q[i].do = "ack" /\ h \in q[i].chats

LEMMA ReportedNames ==
    /\ \A c, h : h \in Reported(c) <=> Names(queue[c], h)
    /\ \A c, h : h \in Reported(c)' <=> Names(queue'[c], h)
BY DEF Reported, Names

LEMMA NamesAppend ==
    ASSUME NEW q \in Seq(Frame), NEW e \in Frame, NEW h
    PROVE  Names(Append(q, e), h) <=> Names(q, h) \/ (e.do = "ack" /\ h \in e.chats)
<1>1. /\ DOMAIN Append(q, e) = 1..(Len(q) + 1) /\ DOMAIN q = 1..Len(q) /\ Len(q) \in Nat
      /\ \A i \in 1..Len(q) : Append(q, e)[i] = q[i]
      /\ Append(q, e)[Len(q) + 1] = e
  OBVIOUS
<1>2. \A i \in 1..(Len(q) + 1) : i \in 1..Len(q) \/ i = Len(q) + 1
  BY <1>1
<1>3. 1..Len(q) \subseteq 1..(Len(q) + 1) /\ Len(q) + 1 \in 1..(Len(q) + 1)
  BY <1>1
<1>4. QED
  BY <1>1, <1>2, <1>3, Zenon DEF Names

LEMMA NamesTail ==
    ASSUME NEW q \in Seq(Frame), q # <<>>, NEW h, Names(q, h)
    PROVE  Names(Tail(q), h) \/ (Head(q).do = "ack" /\ h \in Head(q).chats)
<1>1. PICK i \in DOMAIN q : q[i].do = "ack" /\ h \in q[i].chats
  BY DEF Names
<1>2. CASE i = 1
  BY <1>1, <1>2
<1>3. CASE i # 1
  <2>1. i - 1 \in DOMAIN Tail(q) /\ Tail(q)[i - 1] = q[i]
    BY <1>3
  <2>2. QED
    BY <1>1, <2>1 DEF Names
<1>4. QED
  BY <1>2, <1>3

gapVars == <<queue, dropped, gap, ackLost>>

\* A chat that is owed to a connection stays so but for what it was told.
LEMMA GapKeeps ==
    ASSUME GapIsKnown,
           \A c \in Conns, h \in Chats : h \in gap'[c] =>
               \/ h \in gap[c] /\ (h \in dropped[c] \/ Names(queue[c], h) \/ h \in ackLost[c]
                                     => h \in dropped'[c] \/ Names(queue'[c], h) \/ h \in ackLost'[c])
               \/ h \in dropped'[c],
           gap' \in [Conns -> SUBSET Chats]
    PROVE  GapIsKnown'
<1>1. ASSUME NEW c \in Conns, NEW h \in gap'[c]
      PROVE  h \in dropped'[c] \/ h \in Reported(c)' \/ h \in ackLost'[c]
  <2>1. h \in Chats
    OBVIOUS
  <2>2. CASE h \in dropped'[c]
    BY <2>2
  <2>3. CASE h \in gap[c] /\ (h \in dropped[c] \/ Names(queue[c], h) \/ h \in ackLost[c]
                                => h \in dropped'[c] \/ Names(queue'[c], h) \/ h \in ackLost'[c])
    BY <2>3, ReportedNames DEF GapIsKnown
  <2>4. QED
    BY <2>1, <2>2, <2>3
<1>2. QED
  BY <1>1 DEF GapIsKnown

LEMMA GapFrame == ASSUME GapIsKnown, UNCHANGED gapVars PROVE GapIsKnown'
BY DEF GapIsKnown, gapVars, Reported

\* A connection that ends takes its gap with it.
LEMMA GapForgets ==
    ASSUME TypeOK, GapIsKnown, NEW D \in SUBSET Conns,
           \A c \in D : gap'[c] = {},
           \A c \in Conns \ D : /\ gap'[c] = gap[c] /\ dropped'[c] = dropped[c]
                                /\ queue'[c] = queue[c] /\ ackLost'[c] = ackLost[c]
    PROVE  GapIsKnown'
<1>1. ASSUME NEW c \in Conns \ D PROVE Reported(c)' = Reported(c)
  BY DEF Reported
<1>2. QED
  BY <1>1 DEF GapIsKnown

LEMMA GapStep == TypeOK /\ TypeOK' /\ GapIsKnown /\ [Next]_vars => GapIsKnown'
<1> SUFFICES ASSUME TypeOK, TypeOK', GapIsKnown, [Next]_vars PROVE GapIsKnown'
  OBVIOUS
<1>0. /\ queue \in [Conns -> Seq(Frame)] /\ dropped \in [Conns -> SUBSET Chats]
      /\ gap \in [Conns -> SUBSET Chats] /\ ackLost \in [Conns -> SUBSET Chats]
      /\ gap' \in [Conns -> SUBSET Chats] /\ inbox \in [Servers -> Seq(Message)]
  BY DEF TypeOK, Message
<1>1. ASSUME NEW c \in Conns, ConnStep(c) PROVE GapIsKnown'
  <2>1. CASE Close(c)
    <3>1. /\ gap'[c] = {}
          /\ \A d \in Conns \ {c} : /\ gap'[d] = gap[d] /\ dropped'[d] = dropped[d]
                                    /\ queue'[d] = queue[d] /\ ackLost'[d] = ackLost[d]
      BY <1>0, <2>1 DEF Close
    <3>2. \A d \in {c} : gap'[d] = {}
      BY <3>1
    <3>3. {c} \in SUBSET Conns
      OBVIOUS
    <3>4. QED
      BY <3>1, <3>2, <3>3, GapForgets
  <2>2. CASE ClientHeartbeat(c)
    <3>1. [do |-> "ack", chats |-> dropped[c]] \in Frame
      BY <1>0 DEF Frame
    <3>2. ASSUME NEW d \in Conns, NEW h \in Chats, h \in gap'[d]
          PROVE  h \in gap[d] /\ (h \in dropped[d] \/ Names(queue[d], h) \/ h \in ackLost[d]
                                    => h \in dropped'[d] \/ Names(queue'[d], h) \/ h \in ackLost'[d])
      <4>1. h \in gap[d]
        BY <2>2, <3>2 DEF ClientHeartbeat
      <4>2. CASE d # c
        <5>1. dropped'[d] = dropped[d] /\ queue'[d] = queue[d] /\ ackLost'[d] = ackLost[d]
          BY <1>0, <2>2, <4>2 DEF ClientHeartbeat
        <5>2. QED
          BY <4>1, <5>1
      <4>3. CASE d = c /\ queue' = [queue EXCEPT ![c] = Append(@, [do |-> "ack", chats |-> dropped[c]])] /\ UNCHANGED ackLost
        <5>1. queue'[c] = Append(queue[c], [do |-> "ack", chats |-> dropped[c]]) /\ queue[c] \in Seq(Frame)
          BY <1>0, <4>3
        <5>2. Names(queue'[c], h) <=> Names(queue[c], h) \/ h \in dropped[c]
          BY <3>1, <5>1, NamesAppend
        <5>3. QED
          BY <4>1, <4>3, <5>2
      <4>4. CASE d = c /\ ackLost' = [ackLost EXCEPT ![c] = @ \cup dropped[c]] /\ UNCHANGED queue
        BY <1>0, <4>1, <4>4
      <4>5. QED
        BY <2>2, <4>2, <4>3, <4>4 DEF ClientHeartbeat
    <3>3. QED
      BY <1>0, <3>2, GapKeeps
  <2>3. CASE ClientReceives(c)
    <3>1. ASSUME NEW d \in Conns, NEW h \in Chats, h \in gap'[d]
          PROVE  h \in gap[d] /\ (h \in dropped[d] \/ Names(queue[d], h) \/ h \in ackLost[d]
                                    => h \in dropped'[d] \/ Names(queue'[d], h) \/ h \in ackLost'[d])
      <4>1. CASE d # c
        <5>1. gap'[d] = gap[d] /\ dropped'[d] = dropped[d] /\ queue'[d] = queue[d] /\ ackLost'[d] = ackLost[d]
          BY <1>0, <2>3, <4>1 DEF ClientReceives, localVars
        <5>2. QED
          BY <3>1, <5>1
      <4>2. CASE d = c
        <5>1. /\ queue[c] # <<>> /\ queue[c] \in Seq(Frame) /\ queue'[c] = Tail(queue[c])
              /\ dropped'[c] = dropped[c]
              /\ gap'[c] = gap[c] \ (IF Head(queue[c]).do = "ack" THEN Head(queue[c]).chats ELSE {})
              /\ ackLost'[c] = ackLost[c] \ (IF Head(queue[c]).do = "ack" THEN Head(queue[c]).chats ELSE {})
          BY <1>0, <2>3 DEF ClientReceives, localVars
        <5>2. h \in gap[c] /\ ~(Head(queue[c]).do = "ack" /\ h \in Head(queue[c]).chats)
          BY <3>1, <4>2, <5>1
        <5>3. Names(queue[c], h) => Names(queue'[c], h)
          BY <5>1, <5>2, NamesTail
        <5>4. QED
          BY <4>2, <5>1, <5>2, <5>3
      <4>3. QED
        BY <4>1, <4>2
    <3>2. QED
      BY <1>0, <3>1, GapKeeps
  <2>4. CASE Accept(c) \/ FetchChats(c) \/ JoinChat(c) \/ Open(c) \/ LeaveChat(c) \/ Gone(c)
    BY <2>4, GapFrame DEF Accept, FetchChats, JoinChat, Open, LeaveChat, Gone, gapVars, historyVars
  <2>5. QED
    BY <1>1, <2>1, <2>2, <2>3, <2>4 DEF ConnStep
<1>2. ASSUME NEW s \in Servers, ServerStep(s) PROVE GapIsKnown'
  <2>1. CASE LocalStateLost(s)
    <3>1. \A d \in {c \in Conns : at[c] = s} : gap'[d] = {}
      BY <2>1 DEF LocalStateLost
    <3>2. \A d \in Conns \ {c \in Conns : at[c] = s} :
              /\ gap'[d] = gap[d] /\ dropped'[d] = dropped[d]
              /\ queue'[d] = queue[d] /\ ackLost'[d] = ackLost[d]
      BY <2>1 DEF LocalStateLost
    <3>3. {c \in Conns : at[c] = s} \in SUBSET Conns
      OBVIOUS
    <3>4. QED
      BY <3>1, <3>2, <3>3, GapForgets
  <2>2. CASE FanOutChat(s)
    <3> DEFINE e == Head(inbox[s])
               full == {c \in Receivers(s, e.chat) : ~HasRoom(c)}
    <3>1. e \in Message /\ e.do = "event" /\ e.chat \in Chats
      BY <2>2, ServerTypes DEF FanOutChat, Message, Notice
    <3>2. [do |-> "event", chat |-> e.chat] \in Frame /\ [do |-> "event", chat |-> e.chat].do # "ack"
      BY <3>1 DEF Frame
    <3>3. ASSUME NEW d \in Conns, NEW h \in Chats, h \in gap'[d]
          PROVE  \/ h \in gap[d] /\ (h \in dropped[d] \/ Names(queue[d], h) \/ h \in ackLost[d]
                                      => h \in dropped'[d] \/ Names(queue'[d], h) \/ h \in ackLost'[d])
                 \/ h \in dropped'[d]
      <4>1. CASE d \in full
        <5>1. /\ queue'[d] = queue[d] /\ dropped'[d] = dropped[d] \cup {e.chat} /\ gap'[d] = gap[d] \cup {e.chat}
              /\ ackLost'[d] = ackLost[d] \ {e.chat}
          BY <2>2, <4>1 DEF FanOutChat
        <5>2. QED
          BY <3>3, <5>1
      <4>2. CASE d \notin full
        <5>1. /\ dropped'[d] = dropped[d] /\ gap'[d] = gap[d] /\ ackLost'[d] = ackLost[d]
              /\ queue'[d] = queue[d] \/ queue'[d] = Append(queue[d], [do |-> "event", chat |-> e.chat])
          BY <2>2, <4>2 DEF FanOutChat
        <5>2. queue[d] \in Seq(Frame)
          BY <1>0
        <5>3. Names(queue[d], h) => Names(queue'[d], h)
          <6>1. Names(Append(queue[d], [do |-> "event", chat |-> e.chat]), h) <=> Names(queue[d], h)
            <7> HIDE DEF e
            <7>1. QED
              BY <3>2, <5>2, NamesAppend
          <6>2. QED
            BY <5>1, <6>1, Zenon
        <5>4. QED
          BY <3>3, <5>1, <5>3
      <4>3. QED
        BY <4>1, <4>2
    <3>4. QED
      BY <1>0, <3>3, GapKeeps
  <2>3. CASE HeartbeatReads(s) \/ HeartbeatWrites(s) \/ Command(s) \/ PubSubDrops(s) \/ TakeNotice(s)
    BY <2>3, GapFrame DEF HeartbeatReads, HeartbeatWrites, Command, PubSubDrops, TakeNotice,
                          gapVars, localVars, historyVars
  <2>4. CASE NoticeAdds(s) \/ NoticeRemoves(s) \/ PublishTo(s)
    BY <2>4, GapFrame DEF NoticeAdds, NoticeRemoves, PublishTo, gapVars, localVars, historyVars
  <2>5. QED
    BY <1>2, <2>1, <2>2, <2>3, <2>4 DEF ServerStep, Shutdown, Crash
<1>3. CASE UNCHANGED vars
  BY <1>3, GapFrame DEF gapVars, vars, localVars, historyVars
<1>4. CASE \E t \in Conns \cup Servers : RedisAnswers(t)
  BY <1>4, GapFrame DEF RedisAnswers, gapVars, localVars
<1>5. CASE \E h \in Chats : Expire(h) \/ StartPublish(h)
  BY <1>5, GapFrame DEF Expire, StartPublish, gapVars, localVars, historyVars
<1>6. CASE \/ \E u \in Users, h \in Chats : ChangeMembership(u, h)
           \/ \E n \in Notice : PublishNotice(n)
  BY <1>6, GapFrame DEF ChangeMembership, PublishNotice, gapVars, localVars, historyVars
<1>7. QED
  BY <1>1, <1>2, <1>3, <1>4, <1>5, <1>6 DEF Next

(***************************************************************************)
(* Type correctness of presence.                                           *)
(***************************************************************************)
LEMMA SpendType == ASSUME PresenceTypeOK, Spend PROVE left' \in Nat
BY DEF PresenceTypeOK, Spend

LEMMA PublishingTypes ==
    ASSUME PresenceTypeOK, NEW d \in Devices, Adds(d) \/ Removes(d) \/ MisreadsZero(d) \/ UNCHANGED presenceVars
    PROVE  present' \subseteq Devices /\ publishing' \in [Devices -> Status \cup {"nothing"}]
BY DEF PresenceTypeOK, Adds, Removes, MisreadsZero, presenceVars, Status

LEMMA DeviceStepType == ASSUME PresenceTypeOK, NEW d \in Devices, DeviceStep(d) PROVE PresenceTypeOK'
<1>1. CASE MarkOnline(d)
  <2>1. present' \subseteq Devices /\ publishing' \in [Devices -> Status \cup {"nothing"}]
    BY <1>1, PublishingTypes DEF MarkOnline
  <2>2. left' \in Nat /\ stage' \in [Devices -> {"new", "open", "closing", "gone"}]
    BY <1>1, SpendType DEF MarkOnline, PresenceTypeOK
  <2>3. QED
    BY <1>1, <2>1, <2>2 DEF MarkOnline, PresenceTypeOK, watchVars
<1>2. CASE SetActive(d)
  <2>1. present' \subseteq Devices /\ publishing' \in [Devices -> Status \cup {"nothing"}]
    BY <1>2, PublishingTypes DEF SetActive
  <2>2. left' \in Nat
    BY <1>2, SpendType DEF SetActive
  <2>3. QED
    BY <1>2, <2>1, <2>2 DEF SetActive, PresenceTypeOK, watchVars
<1>3. CASE PublishUpdate(d)
  <2>1. publishing[d] \in Status
    BY <1>3 DEF PublishUpdate, PresenceTypeOK
  <2>2. updates' \in [Watchers -> Seq(Status)]
    <3>1. ASSUME NEW w \in Watchers PROVE updates[w] \in Seq(Status) /\ Append(updates[w], publishing[d]) \in Seq(Status)
      BY <2>1 DEF PresenceTypeOK
    <3>2. QED
      BY <1>3, <3>1, Zenon DEF PublishUpdate
  <2>3. publishing' \in [Devices -> Status \cup {"nothing"}]
    BY <1>3 DEF PublishUpdate, PresenceTypeOK
  <2>4. QED
    BY <1>3, <2>2, <2>3 DEF PublishUpdate, PresenceTypeOK
<1>4. CASE Disconnect(d)
  BY <1>4 DEF Disconnect, PresenceTypeOK, presenceVars, watchVars
<1>5. CASE MarkOffline(d)
  <2>1. present' \subseteq Devices /\ publishing' \in [Devices -> Status \cup {"nothing"}]
    BY <1>5, PublishingTypes DEF MarkOffline
  <2>2. left' \in Nat /\ stage' \in [Devices -> {"new", "open", "closing", "gone"}]
    BY <1>5, SpendType DEF MarkOffline, PresenceTypeOK
  <2>3. QED
    BY <1>5, <2>1, <2>2 DEF MarkOffline, PresenceTypeOK, watchVars
<1>6. QED
  BY <1>1, <1>2, <1>3, <1>4, <1>5 DEF DeviceStep

LEMMA WatcherStepType == ASSUME PresenceTypeOK, NEW w \in Watchers, WatcherStep(w) PROVE PresenceTypeOK'
<1>0. wanted \in [Watchers -> Seq({"subscribe", "unsubscribe"})] /\ updates \in [Watchers -> Seq(Status)]
  BY DEF PresenceTypeOK
<1>1. CASE Subscribe(w)
  BY <1>1 DEF Subscribe, PresenceTypeOK, presenceVars
<1>2. CASE Allowed(w)
  <2>1. wanted' \in [Watchers -> Seq({"subscribe", "unsubscribe"})]
    <3>1. [wanted EXCEPT ![w] = Append(@, "subscribe")] \in [Watchers -> Seq({"subscribe", "unsubscribe"})]
      BY <1>0, AppendAt
    <3>2. QED
      BY <1>0, <1>2, <3>1, Zenon DEF Allowed
  <2>2. QED
    BY <1>2, <2>1 DEF Allowed, PresenceTypeOK, presenceVars
<1>3. CASE Denied(w)
  <2>1. wanted' \in [Watchers -> Seq({"subscribe", "unsubscribe"})]
    <3>1. [wanted EXCEPT ![w] = Append(@, "unsubscribe")] \in [Watchers -> Seq({"subscribe", "unsubscribe"})]
      BY <1>0, AppendAt
    <3>2. QED
      BY <1>0, <1>3, <3>1, Zenon DEF Denied
  <2>2. left' \in Nat
    BY <1>3, SpendType DEF Denied, PresenceTypeOK
  <2>3. QED
    BY <1>3, <2>1, <2>2 DEF Denied, PresenceTypeOK, presenceVars
<1>4. CASE TakeCommand(w)
  <2>1. wanted' \in [Watchers -> Seq({"subscribe", "unsubscribe"})]
    BY <1>0, <1>4, TailAt DEF TakeCommand
  <2>2. QED
    BY <1>4, <2>1 DEF TakeCommand, PresenceTypeOK, presenceVars
<1>5. CASE ReadStatus(w)
  BY <1>5 DEF ReadStatus, PresenceTypeOK, presenceVars, Online, Status
<1>6. CASE Reply(w)
  BY <1>6 DEF Reply, PresenceTypeOK, presenceVars, Status
<1>7. CASE HearUpdate(w)
  <2>1. updates' \in [Watchers -> Seq(Status)]
    BY <1>0, <1>7, TailAt DEF HearUpdate
  <2>2. Head(updates[w]) \in Status
    <3>1. updates[w] \in Seq(Status) /\ updates[w] # <<>>
      BY <1>0, <1>7 DEF HearUpdate
    <3>2. QED
      BY <3>1
  <2>3. view' \in [Watchers -> Status \cup {"hidden"}]
    BY <1>7, <2>2 DEF HearUpdate, PresenceTypeOK
  <2>4. QED
    BY <1>7, <2>1, <2>3 DEF HearUpdate, PresenceTypeOK, presenceVars
<1>8. QED
  BY <1>1, <1>2, <1>3, <1>4, <1>5, <1>6, <1>7 DEF WatcherStep

LEMMA PresenceInitType == PresenceInit => PresenceTypeOK
<1>1. <<>> \in Seq({"subscribe", "unsubscribe"}) /\ <<>> \in Seq(Status)
  OBVIOUS
<1>2. QED
  BY <1>1, PresenceAssumption DEF PresenceInit, PresenceTypeOK, Status

LEMMA PresenceStepType == PresenceTypeOK /\ [PresenceNext]_presVars => PresenceTypeOK'
<1> SUFFICES ASSUME PresenceTypeOK, [PresenceNext]_presVars PROVE PresenceTypeOK'
  OBVIOUS
<1>1. CASE Lapse
  BY <1>1, SpendType DEF Lapse, PresenceTypeOK, watchVars
<1>2. CASE ChangePrivacy
  BY <1>2, SpendType DEF ChangePrivacy, PresenceTypeOK, presenceVars, watchVars
<1>3. CASE UNCHANGED presVars
  BY <1>3 DEF PresenceTypeOK, presVars, presenceVars, watchVars
<1>4. QED
  BY <1>1, <1>2, <1>3, DeviceStepType, WatcherStepType DEF PresenceNext

RoutesInv == RegistryInv /\ GapIsKnown /\ PresenceTypeOK

\* A chat that a gateway process serves is registered in Redis, or is about to
\* be, whatever the order of connects, disconnects, notices, heartbeats and
\* answers of Redis, unless a Redis call failed or a late SREM of the last
\* subscriber overtook the SADD of a new one; and a chat whose frames were
\* dropped is remembered until its client was told, or the frame that tells it
\* was dropped as well.
THEOREM RoutesHoldAlways == Spec /\ PresenceSpec => []RoutesHold
<1>1. Init /\ PresenceInit => RoutesInv
  <2>1. Init => GapIsKnown
    BY DEF Init, GapIsKnown
  <2>2. QED
    BY <2>1, RegistryInit, PresenceInitType DEF RoutesInv
<1>2. RoutesInv /\ [Next]_vars /\ [PresenceNext]_presVars => RoutesInv'
  <2>1. RegistryInv => TypeOK
    BY DEF RegistryInv
  <2>2. RegistryInv' => TypeOK'
    BY DEF RegistryInv
  <2>3. QED
    BY <2>1, <2>2, RegistryStep, GapStep, PresenceStepType DEF RoutesInv
<1>3. RoutesInv => RoutesHold
  BY DEF RoutesInv, RegistryInv, RoutesHold
<1>4. QED
  BY <1>1, <1>2, <1>3, PTL DEF Spec, PresenceSpec

=============================================================================
