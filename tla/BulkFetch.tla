------------------------------ MODULE BulkFetch ------------------------------
(***************************************************************************)
(* The agent's whole-chat fetch (agents/tools/execution.py): counting the  *)
(* messages of a range leaves a confirmation in the agent's row, and only  *)
(* an exactly matching one that is young lets a fetch through, page by     *)
(* page.  Two turns of the agent hold rows of their own.                   *)
(***************************************************************************)
EXTENDS Integers, FiniteSets

CONSTANTS
    Turns,      \* turns of the agent, each with a session
    Ids,        \* message ids of the chat, in the order they were minted
    Spans,      \* ranges of the chat: sets of ids
    MaxFetch,   \* AGENT_BULK_FETCH_MAX_MESSAGES
    PageRows,   \* messages that fit AGENT_BULK_FETCH_MAX_CHARS
    ConfirmTtl, \* AGENT_PENDING_CONFIRMATION_TTL_MINUTES
    Minutes,    \* bound: the clock
    MaxCounts,  \* bound: counts
    MaxMoves    \* bound: messages that arrive or are deleted

ASSUME BulkAssumption ==
    /\ Ids \subseteq Nat \ {0} /\ IsFiniteSet(Ids) /\ Ids # {}
    /\ Spans \subseteq (SUBSET Ids) \ {{}}
    /\ {MaxFetch, PageRows, ConfirmTtl, Minutes, MaxCounts, MaxMoves} \subseteq Nat

NoConfirm == [span |-> {}, at |-> 0]
FromStart == 0

VARIABLES
    inChat,     \* committed messages that are not deleted
    agentRow,        \* the committed pending_confirmation
    turn,       \* turn -> [open, pending, dirty]
    chain,      \* turn -> its fetch: [span, after, owed, seen, ended]
    counts,     \* history: counts that left a confirmation
    fetches,    \* history: fetches that came to an end
    capped,     \* history: the model asked for less than a page holds
    shared,     \* history: two turns were open at a time
    undone,     \* history: a turn's row was rolled back
    moves,      \* messages that arrived or were deleted
    minute

bulkVars == <<inChat, agentRow, turn, chain, counts, fetches, capped, shared, undone, moves, minute>>

Confirms == [span : Spans \cup {{}}, at : 0..Minutes]
NoChain == [span |-> {}, after |-> FromStart, owed |-> {}, seen |-> {}, ended |-> FALSE]
BulkTypeOK ==
    /\ inChat \subseteq Ids /\ agentRow \in Confirms
    /\ \A t \in Turns :
         /\ turn[t].open \in BOOLEAN /\ turn[t].pending \in Confirms /\ turn[t].dirty \in BOOLEAN
         /\ chain[t].span \in Spans \cup {{}} /\ chain[t].after \in Ids \cup {FromStart}
         /\ chain[t].seen \subseteq Ids /\ chain[t].owed \subseteq Ids
    /\ counts \in 0..MaxCounts /\ fetches \in 0..2 * MaxCounts
    /\ capped \in BOOLEAN /\ shared \in BOOLEAN /\ undone \in BOOLEAN /\ minute \in 0..Minutes
    /\ moves \in 0..MaxMoves

BulkInit ==
    /\ inChat \in {Ids, Ids \ {CHOOSE i \in Ids : \A j \in Ids : j <= i}} /\ agentRow = NoConfirm
    /\ turn = [t \in Turns |-> [open |-> FALSE, pending |-> NoConfirm, dirty |-> FALSE]]
    /\ chain = [t \in Turns |-> NoChain] /\ counts = 0 /\ fetches = 0
    /\ capped = FALSE /\ shared = FALSE /\ undone = FALSE /\ moves = 0 /\ minute = 0

-----------------------------------------------------------------------------

CountOf(s) == Cardinality(s \cap inChat)
\* A value equal to the loaded one is not written.
Sets(t, c) == turn' = [turn EXCEPT ![t].pending = c, ![t].dirty = @ \/ c # turn[t].pending]

\* The session loads the agent's row.
OpenTurn(t) ==
    /\ ~turn[t].open
    /\ turn' = [turn EXCEPT ![t] = [open |-> TRUE, pending |-> agentRow, dirty |-> FALSE]]
    /\ shared' = (shared \/ \E u \in Turns : turn[u].open)
    /\ UNCHANGED <<inChat, agentRow, chain, counts, fetches, capped, undone, moves, minute>>

\* count_messages_in_range: too many messages withdraw the confirmation.
CountRange(t, s) ==
    /\ turn[t].open /\ counts < MaxCounts
    /\ IF CountOf(s) > MaxFetch
       THEN Sets(t, NoConfirm) /\ UNCHANGED counts
       ELSE Sets(t, [span |-> s, at |-> minute]) /\ counts' = counts + 1
    /\ UNCHANGED <<inChat, agentRow, chain, fetches, capped, shared, undone, moves, minute>>

\* _pending_confirmation_matches
Confirmed(t, s) == turn[t].pending.span = s /\ minute - turn[t].pending.at <= ConfirmTtl

\* The last page takes the confirmation away.
Spends(t, more) == IF more THEN UNCHANGED turn ELSE Sets(t, NoConfirm)

\* There is more when the budget cut the page, not when the limit did.
HasMore(page, found) == Cardinality(page) < Cardinality(found)

Lowest(s, n) == {i \in s : Cardinality({j \in s : j < i}) < n}
Highest(s) == CHOOSE i \in s : \A j \in s : j <= i

\* bulk_fetch_messages: the count is taken again, then the messages after the
\* cursor are read up to the limit, and a page of them is returned.
Fetch(t, s, limit, first) ==
    LET me == IF first THEN [NoChain EXCEPT !.span = s, !.owed = s \cap inChat] ELSE chain[t]
        found == Lowest({i \in s \cap inChat : i > me.after}, limit)
        page == Lowest(found, PageRows)
        more == HasMore(page, found)
    IN  /\ turn[t].open /\ Confirmed(t, s)
        /\ ~first => chain[t].span = s /\ ~chain[t].ended /\ chain[t].seen # {}
        /\ IF CountOf(s) > MaxFetch
           THEN Sets(t, NoConfirm) /\ UNCHANGED <<chain, fetches, capped>>
           ELSE /\ Spends(t, more)
                /\ chain' = [chain EXCEPT ![t] = [me EXCEPT
                     !.seen = @ \cup page, !.ended = ~more,
                     !.after = IF page = {} THEN @ ELSE Highest(page)]]
                /\ fetches' = fetches + (IF more THEN 0 ELSE 1)
                /\ capped' = (capped \/ limit < MaxFetch)
        /\ fetches < 2 * MaxCounts
        /\ UNCHANGED <<inChat, agentRow, counts, shared, undone, moves, minute>>

\* The turn's session commits what it changed, or is rolled back.
EndTurn(t) ==
    /\ turn[t].open
    /\ \/ agentRow' = (IF turn[t].dirty THEN turn[t].pending ELSE agentRow) /\ UNCHANGED undone
       \/ turn[t].dirty /\ undone' = TRUE /\ UNCHANGED agentRow
    /\ turn' = [turn EXCEPT ![t].open = FALSE]
    /\ UNCHANGED <<inChat, chain, counts, fetches, capped, shared, moves, minute>>

\* A message commits, maybe after one with a higher id, or is deleted.
Arrives(i) ==
    /\ i \notin inChat /\ moves < MaxMoves /\ moves' = moves + 1
    /\ inChat' = inChat \cup {i}
    /\ UNCHANGED <<agentRow, turn, chain, counts, fetches, capped, shared, undone, minute>>
Deleted(i) ==
    /\ i \in inChat /\ moves < MaxMoves /\ moves' = moves + 1
    /\ inChat' = inChat \ {i}
    /\ chain' = [t \in Turns |-> [chain[t] EXCEPT !.owed = @ \ {i}]]
    /\ UNCHANGED <<agentRow, turn, counts, fetches, capped, shared, undone, minute>>

MinutePasses ==
    /\ minute < Minutes /\ minute' = minute + 1
    /\ UNCHANGED <<inChat, agentRow, turn, chain, counts, fetches, capped, shared, undone, moves>>

BulkNext ==
    \/ \E t \in Turns : \/ OpenTurn(t) \/ EndTurn(t)
                        \/ \E s \in Spans : \/ CountRange(t, s)
                                            \/ \E limit \in {1, MaxFetch}, first \in BOOLEAN : Fetch(t, s, limit, first)
    \/ \E i \in Ids : Arrives(i) \/ Deleted(i)
    \/ MinutePasses

BulkSpec == BulkInit /\ [][BulkNext]_bulkVars

-----------------------------------------------------------------------------

\* A fetch that reports no more messages has returned every one the range held
\* when it began and still holds, unless the model set a limit of its own.
LastPageIsLast ==
    ~capped => \A t \in Turns : chain[t].ended => chain[t].owed \subseteq chain[t].seen

\* A confirmation lets one whole fetch through, unless two turns were open at a
\* time or the row of one was rolled back.
OneFetchPerCount == ~shared /\ ~undone => fetches <= counts
=============================================================================
