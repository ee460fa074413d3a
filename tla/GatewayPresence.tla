--------------------------- MODULE GatewayPresence ---------------------------
(***************************************************************************)
(* A user's presence: the set of foreground connections in Redis with its  *)
(* TTL (presence.rs, the twin of presence_service.py), the updates         *)
(* published on its edges, and the watchers who subscribe to them on       *)
(* demand (handlers.rs, fanin.rs, presence_authz.py).  All devices are of  *)
(* one user; a step ends where the code awaits Redis or the app.           *)
(***************************************************************************)
EXTENDS Naturals, Sequences

CONSTANTS
    Devices,     \* connection ids of the watched user, each used once
    Watchers,    \* connections that watch the user
    Budget       \* bound: toggles, faults and privacy changes

ASSUME PresenceAssumption == Budget \in Nat

VARIABLES
    stage,       \* device -> where its connection task is
    present,     \* presence:{uid}, a set of devices
    publishing,  \* device -> the presence_update it is about to publish
    shared,      \* privacy.online lets the watchers see the user
    asking,      \* watcher -> where its subscribe_presence is
    snapshot,    \* watcher -> status get_status read
    watching,    \* watchers in presence_watches
    wanted,      \* watcher -> SubCmds for the fan-in
    heardBy,     \* watchers whose process is subscribed to the channel
    updates,     \* watcher -> presence_updates on their way
    view,        \* watcher -> status its client shows
    left         \* what is left of the budget

presenceVars == <<present, publishing>>
watchVars == <<asking, snapshot, watching, wanted, heardBy, updates, view>>
presVars == <<stage, presenceVars, shared, watchVars, left>>

Status == {"online", "offline"}

PresenceTypeOK ==
    /\ stage \in [Devices -> {"new", "open", "closing", "gone"}]
    /\ present \subseteq Devices
    /\ publishing \in [Devices -> Status \cup {"nothing"}]
    /\ shared \in BOOLEAN
    /\ asking \in [Watchers -> {"never", "idle", "asked", "read", "reply"}]
    /\ snapshot \in [Watchers -> Status]
    /\ watching \subseteq Watchers /\ heardBy \subseteq Watchers
    /\ wanted \in [Watchers -> Seq({"subscribe", "unsubscribe"})]
    /\ updates \in [Watchers -> Seq(Status)]
    /\ view \in [Watchers -> Status \cup {"hidden"}]
    /\ left \in Nat

PresenceInit ==
    /\ stage = [d \in Devices |-> "new"]
    /\ present = {}
    /\ publishing = [d \in Devices |-> "nothing"]
    /\ shared = TRUE
    /\ asking = [w \in Watchers |-> "never"]
    /\ snapshot = [w \in Watchers |-> "offline"]
    /\ watching = {} /\ heardBy = {}
    /\ wanted = [w \in Watchers |-> <<>>]
    /\ updates = [w \in Watchers |-> <<>>]
    /\ view = [w \in Watchers |-> "hidden"]
    /\ left = Budget

Spend == left > 0 /\ left' = left - 1
Online == IF present # {} THEN "online" ELSE "offline"

-----------------------------------------------------------------------------
\* mark_online up to SCARD.
Adds(d) ==
    /\ present' = present \cup {d}
    /\ publishing' = [publishing EXCEPT ![d] = IF present' = {d} THEN "online" ELSE "nothing"]

\* mark_offline up to SCARD.
Removes(d) ==
    /\ present' = present \ {d}
    /\ publishing' = [publishing EXCEPT ![d] = IF present' = {} THEN "offline" ELSE "nothing"]

\* mark_offline whose pipeline fails: the count reads as 0.
MisreadsZero(d) ==
    /\ publishing' = [publishing EXCEPT ![d] = "offline"]
    /\ UNCHANGED present

MarkOnline(d) ==
    /\ stage[d] = "new"
    /\ \/ Adds(d) /\ UNCHANGED left
       \/ Spend /\ UNCHANGED presenceVars
    /\ stage' = [stage EXCEPT ![d] = "open"]
    /\ UNCHANGED <<shared, watchVars>>

\* presence_active: set_active of the client's foreground toggle.
SetActive(d) ==
    /\ stage[d] = "open" /\ publishing[d] = "nothing"
    /\ Spend
    /\ Adds(d) \/ Removes(d) \/ MisreadsZero(d)
    /\ UNCHANGED <<stage, shared, watchVars>>

\* publish_update, after last_seen was stamped.
PublishUpdate(d) ==
    /\ publishing[d] # "nothing"
    /\ updates' = [w \in Watchers |-> IF w \in heardBy THEN Append(updates[w], publishing[d]) ELSE updates[w]]
    /\ publishing' = [publishing EXCEPT ![d] = "nothing"]
    /\ UNCHANGED <<stage, present, shared, asking, snapshot, watching, wanted, heardBy, view, left>>

\* The read loop ends, by the client or by the notification, and remove_conn.
Disconnect(d) ==
    /\ stage[d] = "open" /\ publishing[d] = "nothing"
    /\ stage' = [stage EXCEPT ![d] = "closing"]
    /\ UNCHANGED <<presenceVars, shared, watchVars, left>>

MarkOffline(d) ==
    /\ stage[d] = "closing"
    /\ \/ Removes(d) /\ UNCHANGED left
       \/ Spend /\ MisreadsZero(d)
    /\ stage' = [stage EXCEPT ![d] = "gone"]
    /\ UNCHANGED <<shared, watchVars>>

\* No client of the user sent a heartbeat for the TTL of the set.
Lapse ==
    /\ present # {}
    /\ Spend
    /\ present' = {}
    /\ UNCHANGED <<stage, publishing, shared, watchVars>>

\* The user changes privacy.online, or a contact becomes one.
ChangePrivacy ==
    /\ Spend
    /\ shared' = ~shared
    /\ UNCHANGED <<stage, presenceVars, watchVars>>

-----------------------------------------------------------------------------
\* subscribe_presence, which the client sends again with every heartbeat.
Subscribe(w) ==
    /\ asking[w] \in {"never", "idle"}
    /\ asking' = [asking EXCEPT ![w] = "asked"]
    /\ UNCHANGED <<stage, presenceVars, shared, snapshot, watching, wanted, heardBy, updates, view, left>>

\* Mutant of Allowed: only the first subscription reads the status.
AllowedReadsOnce(w) ==
    /\ asking[w] = "asked" /\ shared
    /\ asking' = [asking EXCEPT ![w] = IF w \in watching THEN "idle" ELSE "read"]
    /\ watching' = watching \cup {w}
    /\ wanted' = IF w \in watching THEN wanted ELSE [wanted EXCEPT ![w] = Append(@, "subscribe")]
    /\ UNCHANGED <<stage, presenceVars, shared, snapshot, heardBy, updates, view, left>>

\* The app allows it: the watch is added and, on its edge, the channel asked for.
Allowed(w) ==
    /\ asking[w] = "asked" /\ shared
    /\ asking' = [asking EXCEPT ![w] = "read"]
    /\ watching' = watching \cup {w}
    /\ wanted' = IF w \in watching THEN wanted ELSE [wanted EXCEPT ![w] = Append(@, "subscribe")]
    /\ UNCHANGED <<stage, presenceVars, shared, snapshot, heardBy, updates, view, left>>

\* Denied, or the check failed: the watch goes, the client clears its status.
Denied(w) ==
    /\ asking[w] = "asked"
    /\ IF shared THEN Spend ELSE UNCHANGED left
    /\ asking' = [asking EXCEPT ![w] = "idle"]
    /\ watching' = watching \ {w}
    /\ wanted' = IF w \in watching THEN [wanted EXCEPT ![w] = Append(@, "unsubscribe")] ELSE wanted
    /\ view' = [view EXCEPT ![w] = "hidden"]
    /\ UNCHANGED <<stage, presenceVars, shared, snapshot, heardBy, updates>>

\* The fan-in of the watcher's process takes a command.
TakeCommand(w) ==
    /\ wanted[w] # <<>>
    /\ heardBy' = IF Head(wanted[w]) = "subscribe" THEN heardBy \cup {w} ELSE heardBy \ {w}
    /\ wanted' = [wanted EXCEPT ![w] = Tail(@)]
    /\ UNCHANGED <<stage, presenceVars, shared, asking, snapshot, watching, updates, view, left>>

\* get_status.
ReadStatus(w) ==
    /\ asking[w] = "read"
    /\ asking' = [asking EXCEPT ![w] = "reply"]
    /\ snapshot' = [snapshot EXCEPT ![w] = Online]
    /\ UNCHANGED <<stage, presenceVars, shared, watching, wanted, heardBy, updates, view, left>>

Reply(w) ==
    /\ asking[w] = "reply"
    /\ asking' = [asking EXCEPT ![w] = "idle"]
    /\ view' = [view EXCEPT ![w] = snapshot[w]]
    /\ snapshot' = [snapshot EXCEPT ![w] = "offline"]
    /\ UNCHANGED <<stage, presenceVars, shared, watching, wanted, heardBy, updates, left>>

\* handle_message of a presence_update: to the connections that watch.
HearUpdate(w) ==
    /\ updates[w] # <<>>
    /\ updates' = [updates EXCEPT ![w] = Tail(@)]
    /\ view' = IF w \in watching THEN [view EXCEPT ![w] = Head(updates[w])] ELSE view
    /\ UNCHANGED <<stage, presenceVars, shared, asking, snapshot, watching, wanted, heardBy, left>>

DeviceStep(d) ==
    \/ MarkOnline(d) \/ SetActive(d) \/ PublishUpdate(d)
    \/ Disconnect(d) \/ MarkOffline(d)

WatcherStep(w) ==
    \/ Subscribe(w) \/ Allowed(w) \/ Denied(w) \/ TakeCommand(w)
    \/ ReadStatus(w) \/ Reply(w) \/ HearUpdate(w)

PresenceNext ==
    \/ \E d \in Devices : DeviceStep(d)
    \/ \E w \in Watchers : WatcherStep(w)
    \/ Lapse \/ ChangePrivacy

\* A client that watched once sends its heartbeats; the gateway's tasks run.
PresenceFairness ==
    \A w \in Watchers :
        /\ WF_presVars(asking[w] # "never" /\ Subscribe(w))
        /\ WF_presVars(Allowed(w) \/ (~shared /\ Denied(w)) \/ ReadStatus(w) \/ Reply(w))
        /\ WF_presVars(TakeCommand(w)) /\ WF_presVars(HearUpdate(w))

PresenceSpec == PresenceInit /\ [][PresenceNext]_presVars /\ PresenceFairness

-----------------------------------------------------------------------------
\* Whatever the order of the updates, a lapse of the TTL or an error: once
\* the user's presence and privacy settle, every client that watches shows
\* them, because each of its heartbeats reads the status again.
WatcherConverges ==
    \A w \in Watchers :
        /\ <>[](asking[w] # "never" /\ shared /\ present # {}) => <>[](view[w] = "online")
        /\ <>[](asking[w] # "never" /\ shared /\ present = {}) => <>[](view[w] = "offline")
        /\ <>[](asking[w] # "never" /\ ~shared) => <>[](view[w] = "hidden")

=============================================================================
