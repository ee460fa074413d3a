------------------------------- MODULE Sessions -------------------------------
(***************************************************************************)
(* Sessions of one user (auth/service.py): the set of the refresh tokens   *)
(* that are valid, in Redis.  A refresh takes its token out of the set and *)
(* puts the next one in; the client learns of the next one by the answer.  *)
(***************************************************************************)
EXTENDS Integers, FiniteSets

CONSTANTS
    Clients,    \* devices; each logs in once
    Asks,       \* refresh requests
    MaxTokens,  \* bound: tokens issued
    SessionFaults \* bound: requests that die or whose answer is lost

Tokens == 1..MaxTokens
NoToken == 0

ASSUME SessionsAssumption == MaxTokens \in Nat

VARIABLES
    valid,      \* the set auth:refresh:{user}
    lineOf,     \* history: token -> the client that logged in for its line
    issued,     \* tokens issued
    kept,       \* client -> the token it holds, NoToken before login
    ask,        \* refresh -> [client, token, step, next]
    children,   \* history: token -> tokens it was exchanged for
    out,        \* clients that logged out
    hurt,       \* history: clients of whose requests one died or lost its answer
    sessionRaced       \* history: clients that logged out, or asked twice, while a refresh ran

sessionVars == <<valid, lineOf, issued, kept, ask, children, out, hurt, sessionRaced>>

NoAsk == [client |-> "nobody", token |-> NoToken, step |-> "unsent", next |-> NoToken]
SessionsTypeOK ==
    /\ valid \subseteq Tokens /\ issued \in 0..MaxTokens
    /\ lineOf \in [Tokens -> Clients \cup {"nobody"}]
    /\ kept \in [Clients -> Tokens \cup {NoToken}]
    /\ \A a \in Asks : ask[a].step \in {"unsent", "sent", "taken", "issued", "done"}
    /\ children \in [Tokens -> 0..MaxTokens]
    /\ out \subseteq Clients /\ hurt \subseteq Clients /\ sessionRaced \subseteq Clients

SessionsInit ==
    /\ valid = {} /\ issued = 0 /\ lineOf = [t \in Tokens |-> "nobody"]
    /\ kept = [c \in Clients |-> NoToken] /\ ask = [a \in Asks |-> NoAsk]
    /\ children = [t \in Tokens |-> 0]
    /\ out = {} /\ hurt = {} /\ sessionRaced = {}

-----------------------------------------------------------------------------

RefreshRuns(c) == \E a \in Asks : ask[a].client = c /\ ask[a].step \in {"sent", "taken", "issued"}

\* _issue_refresh_token: SADD of a fresh jti.
Issue(c) ==
    /\ issued < MaxTokens /\ issued' = issued + 1
    /\ valid' = valid \cup {issued'}
    /\ lineOf' = [lineOf EXCEPT ![issued'] = c]

Login(c) ==
    /\ kept[c] = NoToken
    /\ Issue(c)
    /\ kept' = [kept EXCEPT ![c] = issued']
    /\ UNCHANGED <<ask, children, out, hurt, sessionRaced>>

\* A client sends a refresh, perhaps while its last one is on its way.
SendRefresh(a, c) ==
    /\ ask[a].step = "unsent" /\ kept[c] # NoToken
    /\ ask' = [ask EXCEPT ![a] = [client |-> c, token |-> kept[c], step |-> "sent", next |-> NoToken]]
    /\ sessionRaced' = IF RefreshRuns(c) THEN sessionRaced \cup {c} ELSE sessionRaced
    /\ UNCHANGED <<valid, lineOf, issued, kept, children, out, hurt>>

\* Mutant of Removed: that the token was there is not asked.
RemovedAnyway(t) == TRUE

\* SREM took the token out: it is one's own to exchange.
Removed(t) == t \in valid

\* refresh_access_token: SREM ...
TakeOut(a) ==
    LET t == ask[a].token IN
    /\ ask[a].step = "sent"
    /\ valid' = valid \ {t}
    /\ ask' = [ask EXCEPT ![a].step = IF Removed(t) THEN "taken" ELSE "done"]
    /\ UNCHANGED <<lineOf, issued, kept, children, out, hurt, sessionRaced>>

\* ... then _issue_refresh_token.
PutNext(a) ==
    /\ ask[a].step = "taken"
    /\ Issue(ask[a].client)
    /\ children' = [children EXCEPT ![ask[a].token] = @ + 1]
    /\ ask' = [ask EXCEPT ![a].step = "issued", ![a].next = issued']
    /\ UNCHANGED <<kept, out, hurt, sessionRaced>>

\* The client keeps the token of the answer.
AnswerAsk(a) ==
    /\ ask[a].step = "issued"
    /\ kept' = [kept EXCEPT ![ask[a].client] = ask[a].next]
    /\ ask' = [ask EXCEPT ![a].step = "done"]
    /\ UNCHANGED <<valid, lineOf, issued, children, out, hurt, sessionRaced>>

\* The process dies between the two, or the answer is lost.
AskLost(a) ==
    /\ ask[a].step \in {"taken", "issued"} /\ Cardinality(hurt) < SessionFaults
    /\ hurt' = hurt \cup {ask[a].client}
    /\ ask' = [ask EXCEPT ![a].step = "done"]
    /\ UNCHANGED <<valid, lineOf, issued, kept, children, out, sessionRaced>>

\* logout: SREM of the token the client holds.
Logout(c) ==
    /\ kept[c] # NoToken /\ c \notin out
    /\ valid' = valid \ {kept[c]}
    /\ out' = out \cup {c}
    /\ sessionRaced' = IF RefreshRuns(c) THEN sessionRaced \cup {c} ELSE sessionRaced
    /\ UNCHANGED <<lineOf, issued, kept, ask, children, hurt>>

SessionsNext ==
    \/ \E c \in Clients : Login(c) \/ Logout(c) \/ (\E a \in Asks : SendRefresh(a, c))
    \/ \E a \in Asks : TakeOut(a) \/ PutNext(a) \/ AnswerAsk(a) \/ AskLost(a)

SessionsSpec == SessionsInit /\ [][SessionsNext]_sessionVars

-----------------------------------------------------------------------------
\* A login is one line of tokens, however refreshes race: a token is exchanged
\* once and at most one of a line is valid; a client whose requests neither
\* died nor raced holds it, until it logs out, and then none is valid.
SessionIsOne ==
    /\ \A t \in Tokens : children[t] <= 1
    /\ \A c \in Clients :
          /\ Cardinality({t \in valid : lineOf[t] = c}) <= 1
          /\ ~RefreshRuns(c) /\ kept[c] # NoToken /\ c \notin hurt \cup sessionRaced =>
                {t \in valid : lineOf[t] = c} = IF c \in out THEN {} ELSE {kept[c]}

=============================================================================
