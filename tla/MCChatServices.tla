--------------------------- MODULE MCChatServices ----------------------------
(***************************************************************************)
(* Small instances of the services of the chat application for TLC:        *)
(* MediaBlobs, ReceiptCursors, MessageHistory, GroupMembership,            *)
(* PrivateChats, ChatLists, ProfileUpdates, SearchStreams, EmbeddingQueue  *)
(* and TimePartitions.  They share no state here: a behaviour is one of a  *)
(* single component, while the others stay in one initial state.           *)
(***************************************************************************)
EXTENDS MediaBlobs, ReceiptCursors, MessageHistory, GroupMembership, PrivateChats,
        ChatLists, ProfileUpdates, SearchStreams, EmbeddingQueue, TimePartitions, TLC

VARIABLE part   \* the component this behaviour is of

MCInit ==
    /\ part \in {"media", "cursors", "history", "group", "pair", "lists", "profile", "search", "vectors", "tables"}
    /\ BlobInit /\ CursorInit /\ HistoryInit /\ GroupInit /\ PairInit
    /\ ListInit /\ ProfileInit /\ StreamInit /\ EmbedInit /\ PartInit
    /\ (part # "profile" => ~ofGroup) /\ (part # "pair" => strangers = {})

MCNext ==
    /\ UNCHANGED part
    /\ \/ /\ part = "media" /\ BlobNext
          /\ UNCHANGED <<cursorVars, historyVars, groupVars, pairVars, listVars,
                         profileVars, streamVars, embedVars, partVars>>
       \/ /\ part = "cursors" /\ CursorNext
          /\ UNCHANGED <<blobVars, historyVars, groupVars, pairVars, listVars,
                         profileVars, streamVars, embedVars, partVars>>
       \/ /\ part = "history" /\ HistoryNext
          /\ UNCHANGED <<blobVars, cursorVars, groupVars, pairVars, listVars,
                         profileVars, streamVars, embedVars, partVars>>
       \/ /\ part = "group" /\ GroupNext
          /\ UNCHANGED <<blobVars, cursorVars, historyVars, pairVars, listVars,
                         profileVars, streamVars, embedVars, partVars>>
       \/ /\ part = "pair" /\ PairNext
          /\ UNCHANGED <<blobVars, cursorVars, historyVars, groupVars, listVars,
                         profileVars, streamVars, embedVars, partVars>>
       \/ /\ part = "lists" /\ ListNext
          /\ UNCHANGED <<blobVars, cursorVars, historyVars, groupVars, pairVars,
                         profileVars, streamVars, embedVars, partVars>>
       \/ /\ part = "profile" /\ ProfileNext
          /\ UNCHANGED <<blobVars, cursorVars, historyVars, groupVars, pairVars,
                         listVars, streamVars, embedVars, partVars>>
       \/ /\ part = "search" /\ StreamNext
          /\ UNCHANGED <<blobVars, cursorVars, historyVars, groupVars, pairVars,
                         listVars, profileVars, embedVars, partVars>>
       \/ /\ part = "vectors" /\ EmbedNext
          /\ UNCHANGED <<blobVars, cursorVars, historyVars, groupVars, pairVars,
                         listVars, profileVars, streamVars, partVars>>
       \/ /\ part = "tables" /\ PartNext
          /\ UNCHANGED <<blobVars, cursorVars, historyVars, groupVars, pairVars,
                         listVars, profileVars, streamVars, embedVars>>

AllVars == <<part, blobVars, cursorVars, historyVars, groupVars, pairVars, listVars,
             profileVars, streamVars, embedVars, partVars>>
MCSpec == MCInit /\ [][MCNext]_AllVars

-----------------------------------------------------------------------------
(* Each component's invariants, with the types of its variables. *)

\* History: a reader misses no message, and the chat list's preview follows
\* the last one.
HistoryHolds == HistoryTypeOK /\ PagesAreComplete /\ PreviewFollows

\* Chats: a group is not left without an owner, a pair never has two chats.
ChatsHold == GroupTypeOK /\ PairTypeOK /\ GroupIsHeld /\ PairIsOne

\* Lists and profiles: the list is shown whole, and what devices and viewers
\* show is what is stored.
ViewsHold ==
    /\ ListTypeOK /\ ListIsComplete /\ DevicesShowSwitches
    /\ ProfileTypeOK /\ PhotoIsStored /\ ViewersShowTheRow

\* Search: one stream of a user at a time, and no text is lost on its way to
\* its vector but by a failure of Redis or a death of the process holding it.
SearchHolds ==
    /\ StreamTypeOK /\ StreamsTakeTurns
    /\ EmbedTypeOK /\ TextIsKept /\ DroppedForCause

=============================================================================
