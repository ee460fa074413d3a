---------------------------- MODULE ProfileUpdates ----------------------------
(***************************************************************************)
(* Photo and title of a group, or photo and name of a user                 *)
(* (chats/group_details.py, users/avatar_service.py, users/service.py):    *)
(* each request checks, writes the row, deletes the photo it replaced and  *)
(* broadcasts the row as it knows it.                                      *)
(***************************************************************************)
EXTENDS FiniteSets, Integers

CONSTANTS
    Changes,    \* requests that change the profile
    Photos,     \* keys of avatar objects
    Titles,     \* titles, without the first one
    ProfileFaults \* bound: deletes that fail, requests that die

NoPhoto == "no photo"
FirstTitle == "first title"

ASSUME ProfileAssumption == NoPhoto \notin Photos /\ ProfileFaults \in Nat

VARIABLES
    ofGroup,    \* a group's profile: its changes are announced in the chat
    profile,    \* the row: [photo, title]
    avatarObjects,    \* objects in the avatars bucket
    uploaded,   \* keys that were uploaded
    change,     \* request -> [step, kind, key, title, before, known]
    shown,      \* what the viewers were told last: [photo, title]
    announced,  \* history: changes with a system message
    worn,       \* history: keys that were the photo
    photoRaced, \* history: two requests changed the photo at the same time
    tellRaced,  \* history: a request wrote between another's write and broadcast
    profileFaults

profileVars == <<ofGroup, profile, avatarObjects, uploaded, change, shown, announced, worn,
                 photoRaced, tellRaced, profileFaults>>

Rows0 == [photo |-> NoPhoto, title |-> FirstTitle]
Profiles == [photo : Photos \cup {NoPhoto}, title : Titles \cup {FirstTitle}]
Unsent == [step |-> "unsent", kind |-> "set", key |-> NoPhoto, title |-> FirstTitle,
           before |-> Rows0, known |-> Rows0]
ProfileTypeOK ==
    /\ ofGroup \in BOOLEAN /\ profile \in Profiles /\ shown \in Profiles
    /\ avatarObjects \subseteq uploaded /\ uploaded \subseteq Photos
    /\ \A q \in Changes :
         /\ change[q].step \in {"unsent", "sent", "checked", "read", "written", "dropped", "announced", "done"}
         /\ change[q].kind \in {"set", "clear", "rename"}
         /\ change[q].before \in Profiles /\ change[q].known \in Profiles
    /\ announced \subseteq Changes /\ worn \subseteq Photos
    /\ photoRaced \in BOOLEAN /\ tellRaced \in BOOLEAN /\ profileFaults \in 0..ProfileFaults

ProfileInit ==
    /\ ofGroup \in BOOLEAN /\ profile = Rows0 /\ shown = Rows0
    /\ avatarObjects = {} /\ uploaded = {} /\ change = [q \in Changes |-> Unsent]
    /\ announced = {} /\ worn = {} /\ photoRaced = FALSE /\ tellRaced = FALSE /\ profileFaults = 0

-----------------------------------------------------------------------------

StepIs(q, s) == change[q].step = s
MovesTo(q, s) == change' = [change EXCEPT ![q].step = s]
ProfileFault == profileFaults < ProfileFaults /\ profileFaults' = profileFaults + 1

\* The client's PUT on its ticket; every ticket has a key of its own.
UploadPhoto(k) ==
    /\ k \notin uploaded
    /\ uploaded' = uploaded \cup {k} /\ avatarObjects' = avatarObjects \cup {k}
    /\ UNCHANGED <<ofGroup, profile, change, shown, announced, worn, photoRaced, tellRaced, profileFaults>>

\* A photo is committed by its key, also one that was the photo before.
SendChange(q) ==
    /\ StepIs(q, "unsent")
    /\ \E kind \in {"set", "clear", "rename"}, k \in Photos, n \in Titles :
         /\ kind # "set" => k = CHOOSE p \in Photos : TRUE
         /\ kind # "rename" => n = CHOOSE m \in Titles : TRUE
         /\ change' = [change EXCEPT ![q] = [Unsent EXCEPT
                !.step = IF kind = "set" THEN "sent" ELSE "checked",
                !.kind = kind, !.key = k, !.title = n]]
         /\ photoRaced' = (photoRaced \/ (kind # "rename" /\ \E p \in Changes :
                /\ change[p].kind # "rename"
                /\ change[p].step \in {"sent", "checked", "read", "written"}))
    /\ UNCHANGED <<ofGroup, profile, avatarObjects, uploaded, shown, announced, worn, tellRaced, profileFaults>>

\* HEAD of the object: one that is not there ends the request.
CheckObject(q) ==
    /\ StepIs(q, "sent")
    /\ MovesTo(q, IF change[q].key \in avatarObjects THEN "checked" ELSE "done")
    /\ UNCHANGED <<ofGroup, profile, avatarObjects, uploaded, shown, announced, worn, photoRaced, tellRaced, profileFaults>>

\* The previous key and title are noted before the write refreshes the instance.
ReadBefore(q) ==
    /\ StepIs(q, "checked")
    /\ change' = [change EXCEPT ![q].step = "read", ![q].before = profile]
    /\ UNCHANGED <<ofGroup, profile, avatarObjects, uploaded, shown, announced, worn, photoRaced, tellRaced, profileFaults>>

NewRow(q) ==
    CASE change[q].kind = "set" -> [profile EXCEPT !.photo = change[q].key]
      [] change[q].kind = "clear" -> [profile EXCEPT !.photo = NoPhoto]
      [] change[q].kind = "rename" -> [profile EXCEPT !.title = change[q].title]

\* UPDATE .. RETURNING and commit: the session knows the row as it was then.
WriteProfile(q) ==
    /\ StepIs(q, "read")
    /\ profile' = NewRow(q)
    /\ change' = [change EXCEPT ![q].step = IF change[q].kind = "rename" THEN "dropped" ELSE "written",
                                ![q].known = profile']
    /\ worn' = worn \cup ({profile'.photo} \ {NoPhoto})
    /\ tellRaced' = (tellRaced \/ \E p \in Changes : change[p].step \in {"written", "dropped", "announced"})
    /\ UNCHANGED <<ofGroup, avatarObjects, uploaded, shown, announced, photoRaced, profileFaults>>

\* The object the request is to delete: the previous one, not the one it set.
Replaced(q) == {change[q].before.photo} \ {NoPhoto, IF change[q].kind = "set" THEN change[q].key ELSE NoPhoto}

\* _delete_object_quietly: a failure leaves the object behind.
DropReplaced(q) ==
    /\ StepIs(q, "written")
    /\ MovesTo(q, "dropped")
    /\ \/ avatarObjects' = avatarObjects \ Replaced(q) /\ UNCHANGED profileFaults
       \/ Replaced(q) # {} /\ ProfileFault /\ UNCHANGED avatarObjects
    /\ UNCHANGED <<ofGroup, profile, uploaded, shown, announced, worn, photoRaced, tellRaced>>

\* A photo is announced always, a title when it differs from the one read.
Announces(q) == change[q].kind # "rename" \/ change[q].title # change[q].before.title

\* The system message of a group's change.
Announce(q) ==
    /\ StepIs(q, "dropped")
    /\ announced' = IF ofGroup /\ Announces(q) THEN announced \cup {q} ELSE announced
    /\ MovesTo(q, "announced")
    /\ UNCHANGED <<ofGroup, profile, avatarObjects, uploaded, shown, worn, photoRaced, tellRaced, profileFaults>>

\* The broadcast selects the row again and gets the instance of its session.
Knows(q) == change[q].known

\* _broadcast_chat_update and broadcast_profile_update.
Broadcast(q) ==
    /\ StepIs(q, "announced")
    /\ shown' = Knows(q) /\ MovesTo(q, "done")
    /\ UNCHANGED <<ofGroup, profile, avatarObjects, uploaded, announced, worn, photoRaced, tellRaced, profileFaults>>

ChangeDies(q) ==
    /\ change[q].step \in {"written", "dropped", "announced"} /\ ProfileFault
    /\ MovesTo(q, "done")
    /\ UNCHANGED <<ofGroup, profile, avatarObjects, uploaded, shown, announced, worn, photoRaced, tellRaced>>

ProfileNext ==
    \/ \E k \in Photos : UploadPhoto(k)
    \/ \E q \in Changes : \/ SendChange(q) \/ CheckObject(q) \/ ReadBefore(q) \/ WriteProfile(q)
                          \/ DropReplaced(q) \/ Announce(q) \/ Broadcast(q) \/ ChangeDies(q)

ProfileSpec == ProfileInit /\ [][ProfileNext]_profileVars

-----------------------------------------------------------------------------

Settled == \A q \in Changes : change[q].step \in {"unsent", "sent", "checked", "read", "done"}

\* The photo's object exists, and no photo worn earlier keeps its object,
\* unless two requests changed the photo at once or a delete failed.
PhotoIsStored ==
    ~photoRaced =>
        /\ profile.photo \in avatarObjects \cup {NoPhoto}
        /\ profileFaults = 0 /\ (\A q \in Changes : ~StepIs(q, "written"))
               => worn \cap avatarObjects \subseteq {profile.photo}

\* When no write waits for its broadcast, the viewers show the row, unless a
\* request wrote between another's write and broadcast: the later broadcast
\* then carries the older row.  A group's new title has its system message.
ViewersShowTheRow ==
    profileFaults = 0 /\ Settled =>
        /\ ~tellRaced => shown = profile
        /\ ofGroup /\ profile.title # FirstTitle
               => \E q \in announced : change[q].title = profile.title /\ change[q].kind = "rename"
=============================================================================
