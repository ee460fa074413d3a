---------------------------- MODULE MessageHistory ----------------------------
(***************************************************************************)
(* The messages of one chat as they are read back (messaging/crud.py,      *)
(* read_api.py, edit_delete.py, search/crud.py).  An id is minted when a   *)
(* message is accepted, the row is dated when it is committed, and readers *)
(* use the first to bound the second.  The chats row carries a preview of  *)
(* its last message, which edits and deletions keep in step.               *)
(***************************************************************************)
EXTENDS Integers, Sequences, FiniteSets

CONSTANTS
    Messages,   \* messages of people
    Notices,    \* system messages
    Skew,       \* MESSAGE_PARTITION_QUERY_SKEW_HOURS
    PageSize,   \* messages of a page
    MaxHour,    \* bound: the clock
    MaxEdits    \* bound: edits

ASSUME HistoryAssumption ==
    /\ "none" \notin Messages \cup Notices
    /\ Skew \in Nat /\ PageSize \in Nat \ {0} /\ MaxHour \in Nat /\ MaxEdits \in Nat

All == Messages \cup Notices
Hours == 0..MaxHour
Absent == -1
NoText == [of |-> "nobody", text |-> 0]
Tombstone == [of |-> "deleted", text |-> 0]

VARIABLES
    ids,        \* the messages in the order their ids were minted
    mintedAt,   \* message -> hour of its id
    createdAt,  \* message -> created_at, Absent before the row is committed
    text,       \* message -> 0, or the number of its last edit
    deleted, purged,
    last,       \* chats.last_message_id: a message or "none"
    preview,    \* chats.last_message_preview
    page,       \* a reader: [of, before, seen, want, open]
    edits,
    revived,    \* history: messages edited while deleted
    hour

historyVars == <<ids, mintedAt, createdAt, text, deleted, purged, last, preview,
                 page, edits, revived, hour>>

HistoryTypeOK ==
    /\ \A i \in 1..Len(ids) : ids[i] \in All
    /\ mintedAt \in [All -> Hours] /\ createdAt \in [All -> Hours \cup {Absent}]
    /\ text \in [All -> 0..MaxEdits] /\ purged \subseteq deleted \cup revived
    /\ last \in All \cup {"none"}
    /\ page.of \in {"history", "search"} /\ page.before \in 0..Len(ids) + 1 /\ page.seen \subseteq All /\ page.open \in BOOLEAN
    /\ edits \in 0..MaxEdits /\ hour \in Hours

NoPage == [of |-> "history", before |-> 0, seen |-> {}, want |-> {}, open |-> FALSE]

HistoryInit ==
    /\ ids = <<>> /\ mintedAt = [m \in All |-> 0] /\ createdAt = [m \in All |-> Absent]
    /\ text = [m \in All |-> 0] /\ deleted = {} /\ purged = {}
    /\ last = "none" /\ preview = NoText /\ page = NoPage
    /\ edits = 0 /\ revived = {} /\ hour = 0

-----------------------------------------------------------------------------

Place(m) == CHOOSE i \in 1..Len(ids) : ids[i] = m
Minted == {ids[i] : i \in 1..Len(ids)}
Rows == {m \in All : createdAt[m] # Absent}
RowsStay == UNCHANGED <<ids, mintedAt, createdAt, page, hour>>

\* The message is accepted and has its id.
MintMessage(m) ==
    /\ m \notin Minted
    /\ ids' = Append(ids, m)
    /\ mintedAt' = [mintedAt EXCEPT ![m] = hour]
    /\ UNCHANGED <<createdAt, text, deleted, purged, last, preview, page,
                   edits, revived, hour>>

\* create_message: the row, and the chat's last message; the text of a system
\* message is nobody's preview.
CommitMessageRow(m) ==
    /\ m \in Minted \ Rows
    /\ createdAt' = [createdAt EXCEPT ![m] = hour]
    /\ last' = m
    /\ preview' = IF m \in Messages THEN [of |-> m, text |-> 0] ELSE preview
    /\ UNCHANGED <<ids, mintedAt, text, deleted, purged, page, edits, revived, hour>>

\* get_message_by_id looks where the id says the row must be.
Found(m) == m \in Rows /\ createdAt[m] <= mintedAt[m] + Skew

\* The sender's request to change a message finds it.
SenderFinds(m) == m \in Messages /\ Found(m)

\* The preview is that of this message.
IsLast(m) == last = m

\* edit_message, of a deleted message too.
Edit(m) ==
    /\ SenderFinds(m) /\ edits < MaxEdits
    /\ edits' = edits + 1
    /\ text' = [text EXCEPT ![m] = edits']
    /\ preview' = IF IsLast(m) THEN [of |-> m, text |-> edits'] ELSE preview
    /\ revived' = IF m \in deleted THEN revived \cup {m} ELSE revived
    /\ UNCHANGED <<deleted, purged, last>> /\ RowsStay

\* delete_message; a search need not find it any more.
Delete(m) ==
    /\ SenderFinds(m) /\ m \notin deleted
    /\ deleted' = deleted \cup {m}
    /\ preview' = IF IsLast(m) THEN Tombstone ELSE preview
    /\ page' = IF page.of = "search" THEN [page EXCEPT !.want = @ \ {m}] ELSE page
    /\ UNCHANGED <<ids, mintedAt, createdAt, text, purged, last, edits, revived, hour>>

\* restore_message.
Undelete(m) ==
    /\ SenderFinds(m) /\ m \in deleted \ purged
    /\ deleted' = deleted \ {m}
    /\ preview' = IF IsLast(m) THEN [of |-> m, text |-> text[m]] ELSE preview
    /\ UNCHANGED <<text, purged, last, edits, revived>> /\ RowsStay

\* purge_message.
PurgeMessage(m) ==
    /\ SenderFinds(m) /\ m \in deleted \ purged
    /\ purged' = purged \cup {m} /\ text' = [text EXCEPT ![m] = 0]
    /\ UNCHANGED <<deleted, last, preview, edits, revived>> /\ RowsStay

-----------------------------------------------------------------------------
(* Readers. *)

\* Mutant of NotAfter: the id alone bounds the date.
NotAfterExactly(i) == {m \in Rows : i > Len(ids) \/ createdAt[m] <= mintedAt[ids[i]]}

\* Nothing older than the cursor was created after it, give or take the skew.
NotAfter(i) == {m \in Rows : i > Len(ids) \/ createdAt[m] <= mintedAt[ids[i]] + Skew}

\* The history shows deleted rows as tombstones; a search, which every text
\* matches here, finds what people wrote and did not delete.
Shown(of) == IF of = "history" THEN Rows ELSE (Messages \cap Rows) \ (deleted \cup purged)

\* get_chat_messages, search_chat_messages: newest first below a cursor.
Below(of, i) == {m \in NotAfter(i) \cap Shown(of) : Place(m) < i}
Newest(s, n) == {m \in s : Cardinality({k \in s : Place(k) > Place(m)}) < n}

\* Whether more follows: a history page that is full may be the last, a search
\* asked for one row more than the page.
More(of, i, got) ==
    IF of = "history" THEN Cardinality(got) = PageSize ELSE Below(of, i) # got

OpenReader(of) ==
    /\ ~page.open /\ page.seen = {} /\ Shown(of) # {}
    /\ page' = [of |-> of, before |-> Len(ids) + 1, seen |-> {}, want |-> Shown(of), open |-> TRUE]
    /\ UNCHANGED <<ids, mintedAt, createdAt, text, deleted, purged, last, preview,
                   edits, revived, hour>>

\* The next page, before the last id of the one before.
ReadPage ==
    LET got == Newest(Below(page.of, page.before), PageSize) IN
    /\ page.open
    /\ page' = [page EXCEPT !.seen = @ \cup got,
                            !.open = More(page.of, page.before, got),
                            !.before = IF got = {} THEN @
                                       ELSE CHOOSE i \in 1..Len(ids) :
                                              ids[i] \in got /\ \A m \in got : i <= Place(m)]
    /\ UNCHANGED <<ids, mintedAt, createdAt, text, deleted, purged, last, preview,
                   edits, revived, hour>>

\* messages_around: the page before a message, itself, and the page after.
Around(m) ==
    LET older == {n \in Rows : Place(n) <= Place(m) /\ createdAt[n] <= mintedAt[m] + Skew}
        newer == {n \in Rows : Place(n) > Place(m) /\ createdAt[n] >= mintedAt[m] - Skew}
    IN  Newest(older, PageSize + 1)
        \cup {n \in newer : Cardinality({k \in newer : Place(k) < Place(n)}) < PageSize}

\* count_unread_messages: after the watermark's id, and not long before its date.
Unread(upTo) ==
    {m \in (Messages \cap Rows) \ deleted :
        upTo > 0 => /\ Place(m) > upTo
                    /\ createdAt[m] >= mintedAt[ids[upTo]] - Skew}

HourPasses ==
    /\ hour < MaxHour /\ hour' = hour + 1
    /\ UNCHANGED <<ids, mintedAt, createdAt, text, deleted, purged, last, preview,
                   page, edits, revived>>

HistoryNext ==
    \/ \E m \in All :
         \/ MintMessage(m) \/ CommitMessageRow(m) \/ Edit(m) \/ Delete(m) \/ Undelete(m)
         \/ PurgeMessage(m)
    \/ \E of \in {"history", "search"} : OpenReader(of)
    \/ ReadPage \/ HourPasses

HistorySpec == HistoryInit /\ [][HistoryNext]_historyVars

-----------------------------------------------------------------------------
Late == {m \in Rows : createdAt[m] > mintedAt[m] + Skew}

\* A reader that pages back to the end, or through the results of a search, has
\* seen every row there was when it began and was not deleted, whatever is
\* accepted, committed, edited or deleted meanwhile and in whatever order rows
\* are committed; wherever the viewer has read up to, the badge counts every
\* unread message; and a jump to a message shows its neighbours.  All that but
\* for a row committed longer after its id than the skew: no page after the
\* first shows it, and it can no longer be edited or deleted.
PagesAreComplete ==
    /\ page.seen # {} /\ ~page.open => page.want \subseteq page.seen \cup Late
    /\ \A i \in {0} \cup {Place(m) : m \in Rows} :
           Unread(i) = {m \in (Messages \cap Rows) \ deleted : Place(m) > i}
    /\ Late = {} => \A m, n \in Rows :
           Cardinality({k \in Rows : Place(k) \in Place(m)..Place(n) \/ Place(k) \in Place(n)..Place(m)})
             <= PageSize + 1 => n \in Around(m)

View(m) == IF m \in deleted THEN Tombstone ELSE [of |-> m, text |-> text[m]]

\* "Leaving the snippet behind would keep deleted text visible in every
\* participant's chat list" (soft_delete_message), which it does when a system
\* message came after it, and when a deleted message is edited.
\* What holds: the preview of a last message that a person wrote is its text
\* or, once it is deleted, the tombstone, in whatever order messages are
\* committed, edited, deleted and restored, but for edits of deleted messages.
PreviewFollows == last \in Messages \ revived => preview = View(last)

=============================================================================
