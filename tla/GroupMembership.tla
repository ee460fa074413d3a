--------------------------- MODULE GroupMembership ---------------------------
(***************************************************************************)
(* One group chat (chats/creation.py, membership.py): requests of several  *)
(* people that check a role in one transaction and change a row in the     *)
(* next, each row change committed by itself.                              *)
(***************************************************************************)
EXTENDS Integers, FiniteSets

CONSTANTS
    Requests,   \* requests; each is made once
    Creator,    \* who creates the group
    Initial,    \* people who may be among initial_member_ids
    Others,     \* people who may be added later
    Ghosts,     \* ids among them that are no user's
    MaxCrashes  \* bound: requests that end between two commits

ASSUME GroupAssumption == MaxCrashes \in Nat

People == {Creator} \cup Initial \cup Others
Member == 1
Admin == 2
Owner == 3

VARIABLES
    group,      \* the chats row: "none", "there" or "deleted"
    role,       \* the participants rows: person -> role, 0 without a row
    request,    \* request -> [op, actor, target, heir, rank, step]
    adding,     \* the initial members still to add
    crashes,    \* requests that ended between two commits
    overlapped, \* history: a request overlapped an owner's leave
    demoted     \* history: an owner's role was lowered

groupVars == <<group, role, request, adding, crashes, overlapped, demoted>>

NoRequest == [op |-> "none", actor |-> Creator, target |-> Creator, heir |-> Creator,
              rank |-> 0, step |-> "unsent"]

GroupTypeOK ==
    /\ group \in {"none", "there", "deleted"} /\ role \in [People -> 0..Owner]
    /\ \A r \in Requests :
          /\ request[r].op \in {"none", "create", "add", "remove", "leave", "rerole"}
          /\ request[r].step \in {"unsent", "row", "bare", "members", "undo", "insert", "transfer",
                                  "remove", "look", "delete", "update", "done"}
    /\ adding \subseteq Initial /\ crashes \in 0..MaxCrashes
    /\ overlapped \in BOOLEAN /\ demoted \in BOOLEAN

GroupInit ==
    /\ group = "none" /\ role = [p \in People |-> 0]
    /\ request = [r \in Requests |-> NoRequest]
    /\ adding = {} /\ crashes = 0 /\ overlapped = FALSE /\ demoted = FALSE

-----------------------------------------------------------------------------

In == {p \in People : role[p] > 0}
UnderWay == {r \in Requests : request[r].step \notin {"unsent", "done"}}

\* An owner is leaving.
OwnerLeaves(q) == q.op = "leave" /\ q.rank = Owner

\* The request goes on with this step.
Goes(r, step) == request' = [request EXCEPT ![r].step = step]

\* A request arrives, passes its check and goes on with this step.
Arrives(r, op, actor, target, heir, rank, step) ==
    /\ request[r].step = "unsent" /\ step # "done"
    /\ request' = [request EXCEPT ![r] = [op |-> op, actor |-> actor, target |-> target,
                                          heir |-> heir, rank |-> rank, step |-> step]]
    /\ overlapped' = (overlapped \/ (\E q \in UnderWay : OwnerLeaves(request'[r])
                                                         \/ OwnerLeaves(request[q])))

\* add_participant_to_chat: the row goes in unless a key refuses it.
Joins(p) == group = "there" /\ p \notin Ghosts /\ role[p] = 0

\* delete_chat, with its participants by cascade.
Deletes ==
    /\ group' = IF group = "there" THEN "deleted" ELSE group
    /\ role' = [p \in People |-> 0]

-----------------------------------------------------------------------------
(* create_group_chat *)

CreateGroup(r) ==
    /\ group = "none"
    /\ Arrives(r, "create", Creator, Creator, Creator, 0, "row")
    /\ group' = "there" /\ adding' \in SUBSET Initial
    /\ UNCHANGED <<role, crashes, demoted>>

\* The creator comes first; a group whose creator is no user is undone.
AddOwner(r) ==
    /\ request[r].step = "row"
    /\ role' = IF Joins(Creator) THEN [role EXCEPT ![Creator] = Owner] ELSE role
    /\ Goes(r, IF ~Joins(Creator) THEN "bare" ELSE IF adding = {} THEN "done" ELSE "members")
    /\ UNCHANGED <<group, adding, crashes, overlapped, demoted>>

\* One initial member; a failure undoes the whole group.
AddInitial(r, p) ==
    /\ request[r].step = "members" /\ p \in adding
    /\ adding' = adding \ {p}
    /\ role' = IF Joins(p) THEN [role EXCEPT ![p] = Member] ELSE role
    /\ Goes(r, IF ~Joins(p) THEN "undo" ELSE IF adding' = {} THEN "done" ELSE "members")
    /\ UNCHANGED <<group, crashes, overlapped, demoted>>

UndoGroup(r) ==
    /\ request[r].step \in {"undo", "bare"}
    /\ Deletes /\ Goes(r, "done")
    /\ UNCHANGED <<adding, crashes, overlapped, demoted>>

-----------------------------------------------------------------------------
(* add_member, remove_member, change_member_role *)

\* An admin may remove a plain member only.
Outranks(actor, target) == role[actor] > role[target]

AskAdd(r, actor, p) ==
    /\ role[actor] >= Admin
    /\ Arrives(r, "add", actor, p, actor, 0, "insert")
    /\ UNCHANGED <<group, role, adding, crashes, demoted>>

Insert(r) ==
    LET p == request[r].target IN
    /\ request[r].step = "insert"
    /\ role' = IF Joins(p) THEN [role EXCEPT ![p] = Member] ELSE role
    /\ Goes(r, "done")
    /\ UNCHANGED <<group, adding, crashes, overlapped, demoted>>

\* Removing someone else.
AskRemove(r, actor, p) ==
    /\ actor # p /\ role[actor] >= Admin /\ Outranks(actor, p)
    /\ Arrives(r, "remove", actor, p, actor, 0, "remove")
    /\ UNCHANGED <<group, role, adding, crashes, demoted>>

\* The owner of a group with others in it names a successor.
MustNameHeir(p) == role[p] = Owner /\ In \ {p} # {}

\* Leaving oneself.
AskLeave(r, p, heir) ==
    /\ IF MustNameHeir(p) THEN heir \in In \ {p} ELSE heir = p
    /\ Arrives(r, "leave", p, p, heir, role[p], IF MustNameHeir(p) THEN "transfer" ELSE "remove")
    /\ UNCHANGED <<group, role, adding, crashes, demoted>>

\* update_participant_role changes a row that is there.
Reranks(p, rank) ==
    /\ role' = IF p \in In THEN [role EXCEPT ![p] = rank] ELSE role
    /\ demoted' = (demoted \/ (role[p] = Owner /\ rank < Owner))

\* The heir's new role is committed first ...
Transfer(r) ==
    /\ request[r].step = "transfer"
    /\ Reranks(request[r].heir, Owner)
    /\ Goes(r, "remove")
    /\ UNCHANGED <<group, adding, crashes, overlapped>>

\* ... then the row goes.
RemoveRow(r) ==
    LET p == request[r].target IN
    /\ request[r].step = "remove"
    /\ role' = [role EXCEPT ![p] = 0]
    /\ Goes(r, IF p \in In THEN "look" ELSE "done")
    /\ UNCHANGED <<group, adding, crashes, overlapped, demoted>>

\* Mutant of Abandoned: a group of one is not empty, nor one of none.
AbandonedNever == In = People

\* get_chat_participants finds nobody.
Abandoned == In = {}

Look(r) ==
    /\ request[r].step = "look"
    /\ Goes(r, IF Abandoned THEN "delete" ELSE "done")
    /\ UNCHANGED <<group, role, adding, crashes, overlapped, demoted>>

DeleteGroup(r) ==
    /\ request[r].step = "delete"
    /\ Deletes /\ Goes(r, "done")
    /\ UNCHANGED <<adding, crashes, overlapped, demoted>>

AskRerole(r, actor, p, rank) ==
    /\ role[actor] >= Owner
    /\ Arrives(r, "rerole", actor, p, actor, rank, "update")
    /\ UNCHANGED <<group, role, adding, crashes, demoted>>

Rerole(r) ==
    /\ request[r].step = "update"
    /\ Reranks(request[r].target, request[r].rank)
    /\ Goes(r, "done")
    /\ UNCHANGED <<group, adding, crashes, overlapped>>

\* The process of a request ends between two commits.
Ends(r) ==
    /\ r \in UnderWay /\ crashes < MaxCrashes
    /\ crashes' = crashes + 1
    /\ Goes(r, "done")
    /\ UNCHANGED <<group, role, adding, overlapped, demoted>>

GroupNext == \E r \in Requests :
    \/ CreateGroup(r) \/ AddOwner(r) \/ (\E p \in Initial : AddInitial(r, p)) \/ UndoGroup(r)
    \/ \E actor \in In, p \in People :
         \/ AskAdd(r, actor, p) \/ AskRemove(r, actor, p)
         \/ AskLeave(r, actor, p)
         \/ \E rank \in Member..Owner : AskRerole(r, actor, p, rank)
    \/ Insert(r) \/ Transfer(r) \/ RemoveRow(r) \/ Look(r) \/ DeleteGroup(r) \/ Rerole(r)
    \/ Ends(r)

GroupSpec == GroupInit /\ [][GroupNext]_groupVars

-----------------------------------------------------------------------------
AtRest == group = "there" /\ UnderWay = {}

\* "A group can never be left ownerless while other people remain in it"
\* (membership.py, self-leave).  It can: an heir who leaves in time, a person
\* added while the last one leaves, a role lowered by the last owner.
\* What holds: as long as no other request overlaps an owner's leave, no
\* request ends half-way and none lowers an owner's role, a group has an owner
\* after any requests, overlapping ones too; and a group nobody is left in is
\* deleted, by whichever of the last to leave sees it, unless one ended before
\* it could.
GroupIsHeld ==
    AtRest =>
        /\ ~overlapped /\ ~demoted /\ crashes = 0 => \E p \in People : role[p] = Owner
        /\ In = {} => crashes > 0

=============================================================================
