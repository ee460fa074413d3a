----------------------------- MODULE MediaBlobs ------------------------------
(***************************************************************************)
(* The life of one uploaded file (ADR 0010, 0021, 0028): upload tickets    *)
(* deduplicated by content hash, the check and count of the send path, and *)
(* "delete forever", which gives a reference back and removes the object   *)
(* with the last one.  The blob row, the message rows and the object store *)
(* change in commits and calls of their own.  All messages carry the same  *)
(* bytes and have the same sender; sizes are counted in files.             *)
(***************************************************************************)
EXTENDS Naturals, FiniteSets

CONSTANTS
    BlobMessages,   \* messages that will carry the file
    UploadKinds,      \* upload kinds; the storage key is made of hash and kind
    Purgers,    \* concurrent "delete forever" requests
    NoKind      \* no key

ASSUME MediaAssumption ==
    NoKind \notin UploadKinds /\ BlobMessages # {} /\ IsFiniteSet(BlobMessages)

VARIABLES
    blob,     \* the media_blob row of the hash: key, references, uploaded_at set
    objects,  \* keys present in the object store
    state,    \* message -> how far sending or deleting it has come
    key,      \* message -> the key on its ticket, then its media_key
    skip,     \* message -> its ticket said already_uploaded
    purge,    \* purger -> the message and key it works on, and where it is
    used,     \* the sender's storage_bytes_used
    raced     \* history: a purge overlapped a send, a restore or a purge

blobVars == <<blob, objects, state, key, skip, purge, used, raced>>

NoBlob == [key |-> NoKind, refs |-> 0, uploaded |-> FALSE]
Done == [at |-> "idle", msg |-> CHOOSE m \in BlobMessages : TRUE, key |-> NoKind]

\* Sending: new, ticket (may PUT), ready, known (row found), found (HEAD ok),
\* counted.  Sent rows: live, deleted, purged.
States == {"new", "ticket", "ready", "known", "found", "counted", "refused",
           "live", "deleted", "purged"}

BlobTypeOK ==
    /\ blob \in [key : UploadKinds \cup {NoKind}, refs : 0..Cardinality(BlobMessages), uploaded : BOOLEAN]
    /\ blob.key = NoKind => blob = NoBlob
    /\ objects \in SUBSET UploadKinds
    /\ state \in [BlobMessages -> States]
    /\ key \in [BlobMessages -> UploadKinds \cup {NoKind}]
    /\ \A m \in BlobMessages : key[m] = NoKind <=> state[m] \in {"new", "purged"}
    /\ skip \in [BlobMessages -> BOOLEAN]
    /\ purge \in [Purgers -> [at : {"idle", "wipe", "refund", "deref", "object", "row"},
                              msg : BlobMessages, key : UploadKinds \cup {NoKind}]]
    /\ used \in 0..Cardinality(BlobMessages)
    /\ raced \in BOOLEAN

BlobInit ==
    /\ blob = NoBlob
    /\ objects = {}
    /\ state = [m \in BlobMessages |-> "new"]
    /\ key = [m \in BlobMessages |-> NoKind]
    /\ skip = [m \in BlobMessages |-> FALSE]
    /\ purge = [p \in Purgers |-> Done]
    /\ used = 0
    /\ raced = FALSE

Purging == \E p \in Purgers : purge[p] # Done
Validating == \E m \in BlobMessages : state[m] \in {"known", "found", "counted"}

-----------------------------------------------------------------------------
\* POST .../upload-ticket.  Only a confirmed blob lets the client skip the
\* upload; otherwise reserve_blob inserts the row unless the hash has one.
Ticket(m, k) ==
    /\ state[m] = "new"
    /\ state' = [state EXCEPT ![m] = "ticket"]
    /\ key' = [key EXCEPT ![m] = k]
    /\ skip' = [skip EXCEPT ![m] = blob.uploaded]
    /\ blob' = IF blob = NoBlob THEN [NoBlob EXCEPT !.key = k] ELSE blob
    /\ UNCHANGED <<objects, purge, used, raced>>

\* The client uploads to the presigned URL, unless it may skip that.
Upload(m) ==
    /\ state[m] = "ticket"
    /\ state' = [state EXCEPT ![m] = "ready"]
    /\ objects' = IF skip[m] THEN objects ELSE objects \cup {key[m]}
    /\ UNCHANGED <<blob, key, skip, purge, used, raced>>

Refuse(m) ==
    /\ state' = [state EXCEPT ![m] = "refused"]
    /\ UNCHANGED <<blob, objects, key, skip, purge, used, raced>>

\* _validate_media: the key must have a blob row ...
FindRow(m) ==
    /\ state[m] = "ready"
    /\ blob.key = key[m]
    /\ state' = [state EXCEPT ![m] = "known"]
    /\ raced' = (raced \/ Purging)
    /\ UNCHANGED <<blob, objects, key, skip, purge, used>>

RowMissing(m) == state[m] = "ready" /\ blob.key # key[m] /\ Refuse(m)

\* ... and an object, by HEAD.
FindObject(m) ==
    /\ state[m] = "known"
    /\ key[m] \in objects
    /\ state' = [state EXCEPT ![m] = "found"]
    /\ UNCHANGED <<blob, objects, key, skip, purge, used, raced>>

ObjectMissing(m) == state[m] = "known" /\ key[m] \notin objects /\ Refuse(m)

\* Mutant of Confirm: the first use only stamps uploaded_at.
ConfirmFirstUse(m) ==
    /\ state[m] = "found"
    /\ state' = [state EXCEPT ![m] = "counted"]
    /\ blob' = IF blob.key = key[m]
               THEN [blob EXCEPT !.refs = IF blob.uploaded THEN @ + 1 ELSE @, !.uploaded = TRUE]
               ELSE blob
    /\ used' = used + 1
    /\ UNCHANGED <<objects, key, skip, purge, raced>>

\* confirm_and_ref and the quota charge; an UPDATE of a row that has gone
\* meanwhile changes nothing and raises nothing.
Confirm(m) ==
    /\ state[m] = "found"
    /\ state' = [state EXCEPT ![m] = "counted"]
    /\ blob' = IF blob.key = key[m] THEN [blob EXCEPT !.refs = @ + 1, !.uploaded = TRUE] ELSE blob
    /\ used' = used + 1
    /\ UNCHANGED <<objects, key, skip, purge, raced>>

\* The message row is committed ...
WriteMessage(m) ==
    /\ state[m] = "counted"
    /\ state' = [state EXCEPT ![m] = "live"]
    /\ UNCHANGED <<blob, objects, key, skip, purge, used, raced>>

\* ... or a later check of the send path refuses it, and the count stays.
RefuseLate(m) == state[m] = "counted" /\ Refuse(m)

-----------------------------------------------------------------------------
SoftDelete(m) ==
    /\ state[m] = "live"
    /\ state' = [state EXCEPT ![m] = "deleted"]
    /\ UNCHANGED <<blob, objects, key, skip, purge, used, raced>>

Restore(m) ==
    /\ state[m] = "deleted"
    /\ state' = [state EXCEPT ![m] = "live"]
    /\ raced' = (raced \/ Purging)
    /\ UNCHANGED <<blob, objects, key, skip, purge, used>>

\* "Delete forever" reads the row and checks it ...
StartPurge(p, m) ==
    /\ purge[p] = Done
    /\ state[m] = "deleted"
    /\ purge' = [purge EXCEPT ![p] = [at |-> "wipe", msg |-> m, key |-> key[m]]]
    /\ raced' = (raced \/ Purging \/ Validating)
    /\ UNCHANGED <<blob, objects, state, key, skip, used>>

GoOn(p, next) == purge' = [purge EXCEPT ![p].at = next]

\* ... wipes it under the same condition, but whether the UPDATE found the row
\* is not looked at ...
Wipe(p) ==
    /\ purge[p].at = "wipe"
    /\ LET m == purge[p].msg
       IN IF state[m] = "deleted"
          THEN /\ state' = [state EXCEPT ![m] = "purged"]
               /\ key' = [key EXCEPT ![m] = NoKind]
          ELSE UNCHANGED <<state, key>>
    /\ GoOn(p, "refund")
    /\ UNCHANGED <<blob, objects, skip, used, raced>>

\* ... gives the quota back (a failure is logged and passed over) ...
Refund(p) ==
    /\ purge[p].at = "refund"
    /\ used' \in {used, IF used = 0 THEN 0 ELSE used - 1}
    /\ GoOn(p, "deref")
    /\ UNCHANGED <<blob, objects, state, key, skip, raced>>

\* ... and the reference, which is never below zero ...
Deref(p) ==
    /\ purge[p].at = "deref"
    /\ LET here == blob.key = purge[p].key
           left == IF blob.refs = 0 THEN 0 ELSE blob.refs - 1
       IN /\ blob' = IF here THEN [blob EXCEPT !.refs = left] ELSE blob
          /\ purge' = [purge EXCEPT ![p] = IF here /\ left = 0 THEN [@ EXCEPT !.at = "object"] ELSE Done]
    /\ UNCHANGED <<objects, state, key, skip, used, raced>>

\* ... and with the last one the object (a failure is logged) ...
DeleteObject(p) ==
    /\ purge[p].at = "object"
    /\ objects' \in {objects, objects \ {purge[p].key}}
    /\ GoOn(p, "row")
    /\ UNCHANGED <<blob, state, key, skip, used, raced>>

\* ... and the blob row, whatever its count is by now.
DeleteBlobRow(p) ==
    /\ purge[p].at = "row"
    /\ blob' = IF blob.key = purge[p].key THEN NoBlob ELSE blob
    /\ purge' = [purge EXCEPT ![p] = Done]
    /\ UNCHANGED <<objects, state, key, skip, used, raced>>

\* The request dies between two of its steps.
Abandon(p) ==
    /\ purge[p] # Done
    /\ purge' = [purge EXCEPT ![p] = Done]
    /\ UNCHANGED <<blob, objects, state, key, skip, used, raced>>

BlobNext ==
    \/ \E m \in BlobMessages :
          \/ \E k \in UploadKinds : Ticket(m, k)
          \/ Upload(m)
          \/ FindRow(m) \/ RowMissing(m) \/ FindObject(m) \/ ObjectMissing(m)
          \/ Confirm(m) \/ WriteMessage(m) \/ RefuseLate(m)
          \/ SoftDelete(m) \/ Restore(m)
    \/ \E p \in Purgers :
          \/ \E m \in BlobMessages : StartPurge(p, m)
          \/ Wipe(p) \/ Refund(p) \/ Deref(p) \/ DeleteObject(p) \/ DeleteBlobRow(p)
          \/ Abandon(p)

BlobSpec == BlobInit /\ [][BlobNext]_blobVars

-----------------------------------------------------------------------------
BlobShown == {m \in BlobMessages : state[m] \in {"live", "deleted"}}

\* While a purge overlaps nothing else, every message that is not purged, a
\* deleted one that may be restored too, keeps its object, however its sends,
\* restores, failed and abandoned purges are ordered.
MediaKept == ~raced => \A m \in BlobShown : key[m] \in objects

\* ... because its references are all counted.
RefsCoverMessages == ~raced => Cardinality(BlobShown) <= blob.refs

\* The quota a user is charged covers what the user has stored.
UsageCoversMessages == ~raced => Cardinality(BlobShown) <= used

\* No message in the chat or the trash is without its file, its reference or
\* its share of the quota.
MediaHolds == BlobTypeOK /\ MediaKept /\ RefsCoverMessages /\ UsageCoversMessages

=============================================================================
