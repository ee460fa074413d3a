--------------------------- MODULE ReceiptCursors ----------------------------
(***************************************************************************)
(* The receipt state of one chat in Postgres: every participant has a      *)
(* watermark per kind (delivered, read) and the chat row has a cursor per  *)
(* kind, recomputed as the least watermark by whoever writes one.  Sending, *)
(* acknowledging, joining and leaving are transactions of several          *)
(* statements at READ COMMITTED: a statement sees what is committed when   *)
(* it runs plus its own transaction's writes, and an UPDATE or DELETE      *)
(* waits for a row another transaction has written and then looks at that  *)
(* row again.  A transaction's writes appear when it commits.              *)
(***************************************************************************)
EXTENDS Integers, FiniteSets, FiniteSetsExt

CONSTANTS
    Users,        \* users who may be in the chat
    Founders,     \* its participants when it was created
    Kinds,        \* receipt kinds
    Sessions,     \* database sessions of all processes
    NoUser,       \* no sender: a system message
    MaxMessages,  \* bound: message ids ever minted
    Guesses       \* ids a client may acknowledge that no row has yet

ASSUME ReceiptAssumption ==
    /\ Founders \subseteq Users
    /\ Founders # {}   \* a chat is created with its participants
    /\ Kinds # {}
    /\ NoUser \notin Users
    /\ MaxMessages \in Nat /\ Guesses \subseteq 1..MaxMessages

VARIABLES
    members,     \* rows of participants
    watermark,   \* user -> kind -> last_delivered/read_message_id, 0 for NULL
    lastId,      \* chats.last_message_id, 0 for NULL
    cursor,      \* kind -> chats.all_delivered/read_up_to_message_id
    minted,      \* ids handed out by the id service
    committed,   \* ids of the message rows
    txn,         \* session -> the transaction it runs
    audience,    \* history: id -> members when it was minted, less who left since
    acksOverlapped,  \* history: two transactions were in flight at once
    disordered,  \* history: a row committed after one with a larger id
    foretold     \* history: an id was acknowledged that no row had

cursorVars == <<members, watermark, lastId, cursor, minted, committed, txn,
          audience, acksOverlapped, disordered, foretold>>

rows == <<members, watermark, lastId, cursor, committed, disordered>>

counts == <<minted, audience>>

Ids == 1..MaxMessages
NoMins == [k \in Kinds |-> 0]
Idle == [op |-> "none", at |-> "idle", user |-> NoUser, kind |-> CHOOSE k \in Kinds : TRUE,
         id |-> 0, mins |-> NoMins]

CursorTypeOK ==
    /\ members \in SUBSET Users
    /\ watermark \in [Users -> [Kinds -> 0..MaxMessages]]
    /\ minted \in 0..MaxMessages
    /\ committed \in SUBSET (1..minted)
    /\ lastId \in committed \cup {0}
    /\ cursor \in [Kinds -> 0..MaxMessages]
    /\ txn \in [Sessions -> [op : {"none", "send", "advance", "leave", "join"},
                             at : {"idle", "chat", "row", "mins", "write"},
                             user : Users \cup {NoUser}, kind : Kinds,
                             id : 0..MaxMessages, mins : [Kinds -> 0..MaxMessages]]]
    /\ audience \in [Ids -> SUBSET members]
    /\ acksOverlapped \in BOOLEAN
    /\ disordered \in BOOLEAN
    /\ foretold \in BOOLEAN

CursorInit ==
    /\ members = Founders
    /\ watermark = [u \in Users |-> NoMins]
    /\ lastId = 0
    /\ cursor = NoMins
    /\ minted = 0
    /\ committed = {}
    /\ txn = [s \in Sessions |-> Idle]
    /\ audience = [m \in Ids |-> {}]
    /\ acksOverlapped = FALSE
    /\ disordered = FALSE
    /\ foretold = FALSE

-----------------------------------------------------------------------------
\* Row locks.  A sender writes the chat row before its participant row; the
\* others write the participant row before the chat row.
HoldsChat(s) == txn[s].op = "send" /\ txn[s].at \in {"row", "mins", "write"}

HoldsRow(s, u) ==
    /\ txn[s].user = u
    /\ txn[s].op \in {"send", "advance", "leave"}
    /\ txn[s].at \in {"mins", "write"}

ChatFree(s) == \A t \in Sessions \ {s} : ~HoldsChat(t)
RowFree(s, u) == \A t \in Sessions \ {s} : ~HoldsRow(t, u)

Begin(s, t) ==
    /\ txn[s] = Idle
    /\ txn' = [txn EXCEPT ![s] = t]
    /\ acksOverlapped' = (acksOverlapped \/ \E r \in Sessions \ {s} : txn[r] # Idle)
    /\ foretold' = (foretold \/ (t.op = "advance" /\ t.id \notin committed))

At(s, op, place) == txn[s].op = op /\ txn[s].at = place

Goto(s, place) == txn' = [txn EXCEPT ![s].at = place]

End(s) == txn' = [txn EXCEPT ![s] = Idle]

\* What the session's own uncommitted write makes of a watermark.
Own(s, u, k) ==
    IF txn[s].user = u /\ (txn[s].op = "send" \/ (txn[s].op = "advance" /\ txn[s].kind = k))
    THEN txn[s].id ELSE watermark[u][k]

RowsSeen(s) == IF txn[s].op = "leave" THEN members \ {txn[s].user} ELSE members

\* Mutant of LeastSeen: NULLs are ignored, as plain MIN() does.
LeastSeenSkipsNulls(s, k) ==
    LET seen == {Own(s, u, k) : u \in RowsSeen(s)} \ {0}
    IN IF seen = {} THEN 0 ELSE Min(seen)

\* SELECT MIN(COALESCE(watermark, 0)); no rows give NULL.
LeastSeen(s, k) ==
    LET seen == {Own(s, u, k) : u \in RowsSeen(s)}
    IN IF seen = {} THEN 0 ELSE Min(seen)

-----------------------------------------------------------------------------
\* A sender (or the system) mints an id; the transaction starts with it.
StartSend(s, u) ==
    /\ u \in members \cup {NoUser}
    /\ minted < MaxMessages
    /\ minted' = minted + 1
    /\ audience' = [audience EXCEPT ![minted + 1] = members]
    /\ Begin(s, [Idle EXCEPT !.op = "send", !.at = "chat", !.user = u, !.id = minted + 1])
    /\ UNCHANGED rows

\* INSERT of the message and UPDATE of the chat row.  A system message bumps
\* no watermark and recomputes nothing, so it commits here.
WriteChat(s) ==
    /\ At(s, "send", "chat")
    /\ ChatFree(s)
    /\ txn[s].user # NoUser
    /\ Goto(s, "row")
    /\ UNCHANGED <<rows, counts, acksOverlapped, foretold>>

\* UPDATE of the sender's participant row, which may have gone.
WriteSender(s) ==
    /\ At(s, "send", "row")
    /\ RowFree(s, txn[s].user)
    /\ txn' = [txn EXCEPT ![s].at = "mins", ![s].user = IF @ \in members THEN @ ELSE NoUser]
    /\ UNCHANGED <<rows, counts, acksOverlapped, foretold>>

\* The aggregate of recompute_chat_receipt_cursors.
ReadMins(s) ==
    /\ txn[s].at = "mins"
    /\ txn' = [txn EXCEPT ![s].at = "write", ![s].mins = [k \in Kinds |-> LeastSeen(s, k)]]
    /\ UNCHANGED <<rows, counts, acksOverlapped, foretold>>

CommitMessage(id) ==
    /\ committed' = committed \cup {id}
    /\ lastId' = id
    /\ disordered' = (disordered \/ \E m \in committed : m > id)
    /\ UNCHANGED members

CommitSend(s) ==
    /\ At(s, "send", "write")
    /\ CommitMessage(txn[s].id)
    /\ watermark' = [u \in Users |-> [k \in Kinds |-> Own(s, u, k)]]
    /\ cursor' = txn[s].mins
    /\ End(s)
    /\ UNCHANGED <<counts, acksOverlapped, foretold>>

CommitSystemMessage(s) ==
    /\ At(s, "send", "chat")
    /\ txn[s].user = NoUser
    /\ ChatFree(s)
    /\ CommitMessage(txn[s].id)
    /\ End(s)
    /\ UNCHANGED <<watermark, cursor, counts, acksOverlapped, foretold>>

-----------------------------------------------------------------------------
\* The receipt worker applies "u has got / read everything up to m".  The id is
\* the client's, a message's or a guess: nobody looks whether a row has it.
StartAdvance(s, u, k, m) ==
    /\ u \in members /\ m \in committed \cup Guesses
    /\ Begin(s, [Idle EXCEPT !.op = "advance", !.at = "row", !.user = u, !.kind = k, !.id = m])
    /\ UNCHANGED <<rows, counts>>

Moves(s) == txn[s].user \in members /\ watermark[txn[s].user][txn[s].kind] < txn[s].id

\* Mutant of WriteWatermark: the comparison with the old watermark is missing.
WriteWatermarkAlways(s) ==
    /\ At(s, "advance", "row")
    /\ RowFree(s, txn[s].user)
    /\ IF txn[s].user \in members THEN Goto(s, "mins") ELSE End(s)
    /\ UNCHANGED <<rows, counts, acksOverlapped, foretold>>

\* UPDATE ... WHERE watermark < m: no row, no transaction to speak of.
WriteWatermark(s) ==
    /\ At(s, "advance", "row")
    /\ RowFree(s, txn[s].user)
    /\ IF Moves(s) THEN Goto(s, "mins") ELSE End(s)
    /\ UNCHANGED <<rows, counts, acksOverlapped, foretold>>

CommitAdvance(s) ==
    /\ At(s, "advance", "write")
    /\ ChatFree(s)
    /\ watermark' = [u \in Users |-> [k \in Kinds |-> Own(s, u, k)]]
    /\ cursor' = txn[s].mins
    /\ End(s)
    /\ UNCHANGED <<members, lastId, committed, disordered, counts, acksOverlapped, foretold>>

-----------------------------------------------------------------------------
StartLeave(s, u) ==
    /\ u \in members
    /\ members # {u}   \* the last participant's chat is deleted instead
    /\ Begin(s, [Idle EXCEPT !.op = "leave", !.at = "row", !.user = u])
    /\ UNCHANGED <<rows, counts>>

DeleteRow(s) ==
    /\ At(s, "leave", "row")
    /\ RowFree(s, txn[s].user)
    /\ IF txn[s].user \in members THEN Goto(s, "mins") ELSE End(s)
    /\ UNCHANGED <<rows, counts, acksOverlapped, foretold>>

RemoveMember(u) ==
    /\ members' = members \ {u}
    /\ watermark' = [watermark EXCEPT ![u] = NoMins]
    /\ audience' = [m \in Ids |-> audience[m] \ {u}]

CommitLeave(s) ==
    /\ At(s, "leave", "write")
    /\ ChatFree(s)
    /\ RemoveMember(txn[s].user)
    /\ cursor' = txn[s].mins
    /\ End(s)
    /\ UNCHANGED <<lastId, committed, disordered, minted, acksOverlapped, foretold>>

\* A joiner's watermarks start at the last message id it read from the chat.
StartJoin(s, u) ==
    /\ u \notin members
    /\ Begin(s, [Idle EXCEPT !.op = "join", !.at = "write", !.user = u, !.id = lastId])
    /\ UNCHANGED <<rows, counts>>

CommitJoin(s) ==
    /\ At(s, "join", "write")
    /\ End(s)
    /\ IF txn[s].user \in members
       THEN UNCHANGED <<members, watermark>>   \* duplicate key: rolled back
       ELSE /\ members' = members \cup {txn[s].user}
            /\ watermark' = [watermark EXCEPT ![txn[s].user] = [k \in Kinds |-> txn[s].id]]
    /\ UNCHANGED <<lastId, cursor, committed, disordered, counts, acksOverlapped, foretold>>

\* A deadlock victim (a sender waits for the participant row of someone who
\* waits for the chat row), a lost connection, a crash.  The stream entry
\* behind it is delivered again and starts over.
Rollback(s) ==
    /\ txn[s] # Idle
    /\ End(s)
    /\ UNCHANGED <<rows, counts, acksOverlapped, foretold>>

CursorNext ==
    \E s \in Sessions :
        \/ \E u \in Users \cup {NoUser} : StartSend(s, u)
        \/ WriteChat(s) \/ WriteSender(s) \/ CommitSend(s) \/ CommitSystemMessage(s)
        \/ \E u \in Users, k \in Kinds, m \in Ids : StartAdvance(s, u, k, m)
        \/ WriteWatermark(s) \/ CommitAdvance(s)
        \/ \E u \in Users : StartLeave(s, u) \/ StartJoin(s, u)
        \/ DeleteRow(s) \/ CommitLeave(s) \/ CommitJoin(s)
        \/ ReadMins(s)
        \/ Rollback(s)

CursorSpec == CursorInit /\ [][CursorNext]_cursorVars

-----------------------------------------------------------------------------
Quiet == \A s \in Sessions : txn[s] = Idle

Least(k) == Min({watermark[u][k] : u \in members})

CursorsAreLeast == members # {} => \A k \in Kinds : cursor[k] = Least(k)

\* No tick is shown too early: as long as rows commit in the order of their
\* ids and only written messages are acknowledged, a message at or below a
\* chat cursor has reached (been read by) everybody who was in the chat when its
\* id was minted and still is, although recompute_chat_receipt_cursors may write
\* a minimum it read before others committed.
NoPrematureTick ==
    ~disordered /\ ~foretold =>
        \A k \in Kinds, m \in committed :
            m <= cursor[k] => \A u \in audience[m] : watermark[u][k] >= m

\* While transactions of the chat do not overlap and only written messages are
\* acknowledged, the cursors are exactly the least watermarks: no
\* acknowledgement, send, join or departure leaves them behind.  (Joining
\* recomputes nothing: a joiner starts at the last message, which a cursor is
\* past only if everybody else acknowledged an id that has no row.)
ExactWithoutOverlap == (~acksOverlapped /\ ~foretold /\ Quiet) => CursorsAreLeast

\* Ticks are well typed, never too early, and exact as long as transactions do
\* not overlap.
TicksHold == CursorTypeOK /\ NoPrematureTick /\ ExactWithoutOverlap

\* A participant's watermark never goes back, however receipts and the
\* sender's own bump are interleaved, but in two cases, since create_message
\* sets the sender's without comparing: the message commits after one with a
\* larger id, or the client had acknowledged an id that has no row.
WatermarkForward ==
    [][\A u \in members \cap members', k \in Kinds :
          \/ watermark'[u][k] >= watermark[u][k]
          \/ watermark[u][k] \notin committed
          \/ \E m \in committed' \ committed, n \in committed : m < n]_cursorVars

=============================================================================
