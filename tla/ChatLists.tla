------------------------------ MODULE ChatLists ------------------------------
(***************************************************************************)
(* One user's chat list (chats/listing.py, chats/preferences.py,           *)
(* chats/crud/crud_participant.py): pages by activity with pinned chats    *)
(* on top, and the pin and mute switches echoed to the user's devices.     *)
(***************************************************************************)
EXTENDS Integers, FiniteSets, Sequences

CONSTANTS
    Listed,     \* the user's chats, by id
    ListLimit,  \* rows of a page
    Toggles,    \* requests to pin, unpin, mute or unmute
    MaxStamp,   \* bound: messages and pins, in time order
    ListFaults  \* bound: requests that die between commit and publish

ASSUME ListAssumption ==
    /\ Listed \subseteq Nat /\ IsFiniteSet(Listed) /\ ListLimit \in Nat \ {0}
    /\ MaxStamp \in Nat \ {0} /\ ListFaults \in Nat

Switches == {"pin", "mute"}
NoCursor == [at |-> MaxStamp + 1, id |-> 0]

VARIABLES
    lastAt,     \* chat -> last_message_at
    switch,     \* switch -> chat -> 0 when off, else when it was set
    stamp,      \* time of the last change
    toggle,     \* request -> [step, what, chat, on]
    told,       \* switch -> chat -> what the devices were told last
    browse,     \* the reader of the list: [open, cursor, seen]
    stirred,    \* history: chats that got a message or a pin since the reader began
    cutInPins,  \* history: a full page of the reader ended on a pinned chat
    again,      \* history: chats the reader was shown twice
    crossedOver,\* history: switches of a chat two requests set at the same time
    died        \* requests that died

listVars == <<lastAt, switch, stamp, toggle, told, browse, stirred, cutInPins, again, crossedOver, died>>

Stamps == 0..MaxStamp
NoToggle == [step |-> "unsent", what |-> "pin", chat |-> 0, on |-> FALSE]
ListTypeOK ==
    /\ lastAt \in [Listed -> Stamps] /\ switch \in [Switches -> [Listed -> Stamps]]
    /\ stamp \in Stamps
    /\ \A q \in Toggles : toggle[q].step \in {"unsent", "sent", "saved", "done"}
    /\ told \in [Switches -> [Listed -> BOOLEAN]]
    /\ browse.seen \subseteq Listed /\ browse.open \in BOOLEAN
    /\ stirred \subseteq Listed /\ cutInPins \in BOOLEAN /\ again \subseteq Listed
    /\ crossedOver \subseteq Switches \X Listed /\ died \in 0..ListFaults

ListInit ==
    /\ lastAt \in [Listed -> {1}]
    /\ switch = [w \in Switches |-> [c \in Listed |-> 0]] /\ stamp = 1
    /\ toggle = [q \in Toggles |-> NoToggle]
    /\ told = [w \in Switches |-> [c \in Listed |-> FALSE]]
    /\ browse = [open |-> FALSE, cursor |-> NoCursor, seen |-> {}]
    /\ stirred = {} /\ cutInPins = FALSE /\ again = {} /\ crossedOver = {} /\ died = 0

-----------------------------------------------------------------------------

Pinned(c) == switch["pin"][c] > 0

\* Mutant of Earlier: the cursor compares the time alone.
EarlierByTime(c, cur) == lastAt[c] < cur.at

\* The cursor compares time and id, not the pin.
Earlier(c, cur) == lastAt[c] < cur.at \/ (lastAt[c] = cur.at /\ c < cur.id)

\* ORDER BY pinned first, latest pin, latest message, id.
Above(c, d) ==
    \/ switch["pin"][c] > switch["pin"][d]
    \/ /\ switch["pin"][c] = switch["pin"][d]
       /\ lastAt[c] > lastAt[d] \/ (lastAt[c] = lastAt[d] /\ c > d)

\* get_user_chats: the page is the first rows below the cursor.
PageOf(cur) ==
    LET rows == {c \in Listed : Earlier(c, cur)}
    IN  {c \in rows : Cardinality({d \in rows : Above(d, c)}) < ListLimit}
Bottom(page) == CHOOSE c \in page : \A d \in page : d = c \/ Above(d, c)

OpenList ==
    /\ ~browse.open
    /\ browse' = [open |-> TRUE, cursor |-> NoCursor, seen |-> {}]
    /\ stirred' = {} /\ cutInPins' = FALSE /\ again' = {}
    /\ UNCHANGED <<lastAt, switch, stamp, toggle, told, crossedOver, died>>

\* list_my_chats: the client asks below the last chat it was shown, until a
\* page is not full.
NextPage ==
    LET page == PageOf(browse.cursor)
        full == Cardinality(page) = ListLimit
        last == Bottom(page)
    IN  /\ browse.open
        /\ browse' = [open |-> full, seen |-> browse.seen \cup page,
                      cursor |-> IF full THEN [at |-> lastAt[last], id |-> last] ELSE browse.cursor]
        /\ again' = again \cup (browse.seen \cap page)
        /\ cutInPins' = (cutInPins \/ (full /\ Pinned(last)))
        /\ UNCHANGED <<lastAt, switch, stamp, toggle, told, stirred, crossedOver, died>>

\* A message of the chat.
Bump(c) ==
    /\ stamp < MaxStamp /\ stamp' = stamp + 1
    /\ lastAt' = [lastAt EXCEPT ![c] = stamp']
    /\ stirred' = stirred \cup {c}
    /\ UNCHANGED <<switch, toggle, told, browse, cutInPins, again, crossedOver, died>>

Ask(q) ==
    /\ toggle[q].step = "unsent"
    /\ \E w \in Switches, c \in Listed, on \in BOOLEAN :
         /\ toggle' = [toggle EXCEPT ![q] = [step |-> "sent", what |-> w, chat |-> c, on |-> on]]
         /\ crossedOver' = crossedOver \cup
              {<<w, c>> : p \in {p \in Toggles : /\ toggle[p].step \in {"sent", "saved"}
                                                 /\ toggle[p].what = w /\ toggle[p].chat = c}}
    /\ UNCHANGED <<lastAt, switch, stamp, told, browse, stirred, cutInPins, again, died>>

\* The update and its commit; a pin is stamped with now().
Save(q) ==
    LET g == toggle[q]
    IN  /\ g.step = "sent" /\ stamp < MaxStamp /\ stamp' = stamp + 1
        /\ switch' = [switch EXCEPT ![g.what][g.chat] = IF g.on THEN stamp' ELSE 0]
        /\ stirred' = IF g.what = "pin" THEN stirred \cup {g.chat} ELSE stirred
        /\ toggle' = [toggle EXCEPT ![q].step = "saved"]
        /\ UNCHANGED <<lastAt, told, browse, cutInPins, again, crossedOver, died>>

\* The event carries what the request asked for.
Tells(q) == toggle[q].on

\* chat_pin_changed or chat_mute_changed to every connection of the user.
Tell(q) ==
    LET g == toggle[q]
    IN  /\ g.step = "saved"
        /\ told' = [told EXCEPT ![g.what][g.chat] = Tells(q)]
        /\ toggle' = [toggle EXCEPT ![q].step = "done"]
        /\ UNCHANGED <<lastAt, switch, stamp, browse, stirred, cutInPins, again, crossedOver, died>>

TellLost(q) ==
    /\ toggle[q].step = "saved" /\ died < ListFaults /\ died' = died + 1
    /\ toggle' = [toggle EXCEPT ![q].step = "done"]
    /\ UNCHANGED <<lastAt, switch, stamp, told, browse, stirred, cutInPins, again, crossedOver>>

ListNext ==
    \/ OpenList \/ NextPage
    \/ \E c \in Listed : Bump(c)
    \/ \E q \in Toggles : Ask(q) \/ Save(q) \/ Tell(q) \/ TellLost(q)

ListSpec == ListInit /\ [][ListNext]_listVars

-----------------------------------------------------------------------------

\* A reader that came to the end of the list was shown, exactly once, every
\* chat it did not see move, unless a full page ended on a pinned chat: the
\* cursor knows nothing of pins, so the chats between that one's time and the
\* newest are then skipped, and a pinned chat comes again on every later page.
ListIsComplete ==
    /\ ~browse.open /\ browse.seen # {} /\ ~cutInPins => Listed \ stirred \subseteq browse.seen
    /\ \A c \in again : Pinned(c) \/ c \in stirred

\* When no request is under way the devices show the switches that are stored,
\* unless two requests for one switch overlapped or one died before its event.
DevicesShowSwitches ==
    died = 0 /\ (\A q \in Toggles : toggle[q].step # "saved") =>
        \A w \in Switches, c \in Listed : <<w, c>> \in crossedOver \/ (told[w][c] <=> switch[w][c] > 0)
=============================================================================
