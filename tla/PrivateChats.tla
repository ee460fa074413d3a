----------------------------- MODULE PrivateChats -----------------------------
(***************************************************************************)
(* The private chat of two people: get_or_create_private_chat              *)
(* (chats/creation.py) looks the pair up, makes a candidate chat, reserves *)
(* the pair by its primary key and adds the two, each in a transaction of  *)
(* its own; the loser of a race discards its candidate.                    *)
(***************************************************************************)
EXTENDS Integers, FiniteSets

CONSTANTS
    Callers,    \* calls for the pair; a call's candidate chat bears its name
    First,      \* user_a_id
    Second,     \* user_b_id
    Strangers,  \* those of them who may be no user
    MaxLeaves,  \* bound: a person leaves a private chat
    MaxBreaks   \* bound: calls that end between two commits

Two == {First, Second}
None == "none"

ASSUME PairAssumption == None \notin Callers /\ MaxLeaves \in Nat /\ MaxBreaks \in Nat

VARIABLES
    strangers,  \* those of them who are no user
    chats,      \* the chats rows: the calls whose candidate is there
    pair,       \* the private_chat_pairs row: a chat or None
    inside,     \* the participants rows: chat -> people
    call,       \* call -> step
    got,        \* call -> the chat it returned or None
    leaving,    \* chats somebody left, to be looked at
    leaves, breaks

pairVars == <<strangers, chats, pair, inside, call, got, leaving, leaves, breaks>>

PairTypeOK ==
    /\ strangers \subseteq Strangers
    /\ chats \subseteq Callers /\ pair \in Callers \cup {None}
    /\ inside \in [Callers -> SUBSET Two]
    /\ call \in [Callers -> {"unsent", "candidate", "reserve", "discard", "adopt",
                             "first", "second", "failing", "undo", "done"}]
    /\ got \in [Callers -> Callers \cup {None}]
    /\ leaving \subseteq Callers /\ leaves \in 0..MaxLeaves /\ breaks \in 0..MaxBreaks

PairInit ==
    /\ strangers \in SUBSET Strangers
    /\ chats = {} /\ pair = None /\ inside = [c \in Callers |-> {}]
    /\ call = [c \in Callers |-> "unsent"] /\ got = [c \in Callers |-> None]
    /\ leaving = {} /\ leaves = 0 /\ breaks = 0

-----------------------------------------------------------------------------

PairMoves(c, step) == call' = [call EXCEPT ![c] = step]
Returns(c, chat) == PairMoves(c, "done") /\ got' = [got EXCEPT ![c] = chat]

\* delete_chat: the pair and the participants go with it.
Drops(c) ==
    /\ chats' = chats \ {c}
    /\ pair' = IF pair = c THEN None ELSE pair
    /\ inside' = [inside EXCEPT ![c] = {}]

\* get_pair_chat_id: the pair has its chat.
Lookup(c) ==
    /\ call[c] = "unsent"
    /\ IF pair # None THEN Returns(c, pair) ELSE PairMoves(c, "candidate") /\ UNCHANGED got
    /\ UNCHANGED <<chats, pair, inside, leaving, leaves, breaks>>

CreateCandidate(c) ==
    /\ call[c] = "candidate"
    /\ chats' = chats \cup {c}
    /\ PairMoves(c, "reserve")
    /\ UNCHANGED <<pair, inside, got, leaving, leaves, breaks>>

\* create_pair: the primary key lets one in.
Wins == pair = None

Reserve(c) ==
    /\ call[c] = "reserve"
    /\ pair' = IF Wins THEN c ELSE pair
    /\ PairMoves(c, IF Wins THEN "first" ELSE "discard")
    /\ UNCHANGED <<chats, inside, got, leaving, leaves, breaks>>

Discard(c) ==
    /\ call[c] = "discard"
    /\ Drops(c) /\ PairMoves(c, "adopt")
    /\ UNCHANGED <<got, leaving, leaves, breaks>>

\* The winner's chat; nothing, where it was undone meanwhile.
Adopt(c) ==
    /\ call[c] = "adopt"
    /\ Returns(c, pair)
    /\ UNCHANGED <<chats, pair, inside, leaving, leaves, breaks>>

\* add_participant_to_chat: the keys let the row in.
Fits(c, p) == c \in chats /\ p \notin strangers
Adds(c, p) == inside' = IF Fits(c, p) THEN [inside EXCEPT ![c] = @ \cup {p}] ELSE inside

AddFirst(c) ==
    /\ call[c] = "first"
    /\ Adds(c, First)
    /\ PairMoves(c, IF Fits(c, First) THEN "second" ELSE "failing")
    /\ UNCHANGED <<chats, pair, got, leaving, leaves, breaks>>

\* The second is added even so; a failure of either undoes the chat.
AddSecond(c) ==
    /\ call[c] \in {"second", "failing"}
    /\ Adds(c, Second)
    /\ IF call[c] = "second" /\ Fits(c, Second) THEN Returns(c, c)
       ELSE PairMoves(c, "undo") /\ UNCHANGED got
    /\ UNCHANGED <<chats, pair, leaving, leaves, breaks>>

Undo(c) ==
    /\ call[c] = "undo"
    /\ Drops(c) /\ PairMoves(c, "done")
    /\ UNCHANGED <<got, leaving, leaves, breaks>>

\* remove_member of oneself, which asks nothing of a private chat; the last
\* one out deletes it.
LeavePrivate(c, p) ==
    /\ p \in inside[c] /\ leaves < MaxLeaves
    /\ leaves' = leaves + 1
    /\ inside' = [inside EXCEPT ![c] = @ \ {p}]
    /\ leaving' = leaving \cup {c}
    /\ UNCHANGED <<chats, pair, call, got, breaks>>

LookPrivate(c) ==
    /\ c \in leaving
    /\ leaving' = leaving \ {c}
    /\ IF inside[c] = {} THEN Drops(c) ELSE UNCHANGED <<chats, pair, inside>>
    /\ UNCHANGED <<call, got, leaves, breaks>>

\* The process of a call ends between two commits.
Breaks(c) ==
    /\ call[c] \notin {"unsent", "done"} /\ breaks < MaxBreaks
    /\ breaks' = breaks + 1
    /\ PairMoves(c, "done")
    /\ UNCHANGED <<chats, pair, inside, got, leaving, leaves>>

PairNext ==
    /\ UNCHANGED strangers
    /\ \E c \in Callers :
          \/ Lookup(c) \/ CreateCandidate(c) \/ Reserve(c) \/ Discard(c) \/ Adopt(c)
          \/ AddFirst(c) \/ AddSecond(c) \/ (\E p \in Two : LeavePrivate(c, p))
          \/ Undo(c) \/ LookPrivate(c) \/ Breaks(c)

PairSpec == PairInit /\ [][PairNext]_pairVars

-----------------------------------------------------------------------------
\* "two users should never end up with two separate 1-on-1 chats": whatever
\* calls race, the two are together in one chat at most, which is the pair's;
\* and once all calls are through, no other chat is left and the two are in
\* theirs, unless a call ended half-way or one of them left.  The chat a call
\* returned is there then, unless one left or one of the two is no user: a
\* call can find the pair of a chat that is undone for it.
PairIsOne ==
    /\ \A c \in chats : inside[c] # {} => pair = c
    /\ (breaks = 0 /\ \A c \in Callers : call[c] \in {"unsent", "done"}) =>
          /\ chats \subseteq {pair}
          /\ pair # None /\ leaves = 0 => inside[pair] = Two
          /\ leaves = 0 /\ strangers = {} =>
                \A c \in Callers : got[c] \in chats \cup {None}

=============================================================================
