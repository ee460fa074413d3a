------------------------------- MODULE Handles -------------------------------
(***************************************************************************)
(* Accounts and their handles (auth/service.py, users/service.py, crud.py).*)
(* A first login makes the account of a phone number with a handle that    *)
(* looked free; a rename reads the user, asks whether the handle is free   *)
(* and writes it with a grace hold on the old one.  The unique indexes on  *)
(* phone number and username decide what races.                            *)
(***************************************************************************)
EXTENDS Integers, FiniteSets, Sequences

CONSTANTS
    Phones,     \* phone numbers; the account of a number bears its name
    Names,      \* handles
    Tails,      \* those of the form user_<random tail>
    Start,      \* phone -> the handle of an account there is already, or "no name"
    Logins,     \* login requests
    PhoneOf,    \* login -> the phone number
    Renames,    \* rename requests
    MaxChanges, \* USERNAME_CHANGE_MAX_PER_WINDOW
    ChangeDays, \* USERNAME_CHANGE_WINDOW_DAYS
    GraceDays,  \* USERNAME_RESERVED_GRACE_DAYS
    Tries,      \* attempts of a first login to find a handle
    LastDay     \* bound: the clock

NoOne == "no one"
NoName == "no name"
Days == 0..LastDay

\* A quota of none is not one: an empty log is never asked.
ASSUME HandlesAssumption ==
    /\ {ChangeDays, GraceDays, Tries, LastDay} \subseteq Nat /\ MaxChanges \in Nat \ {0}
    /\ Tails \subseteq Names /\ NoName \notin Names /\ NoOne \notin Phones /\ PhoneOf \in [Logins -> Phones]
    /\ Start \in [Phones -> Names \cup {NoName}]
    /\ \A p, q \in Phones : Start[p] = Start[q] => p = q \/ Start[p] = NoName

VARIABLES
    name,       \* the users rows: phone -> handle, NoName without an account
    changeLog,  \* username_change_log: days, newest last
    hold,       \* reserved_usernames: handle -> [for, until]
    login,      \* login -> [step, name, tries]
    rename,     \* rename -> [step, user, to, old, log, since]
    triesMade,       \* history: logins that created an account
    changed,    \* history: phone -> days of its renames
    released,   \* history: [user, name, day, since]
    doubled,    \* history: users with two renames at once
    stale,      \* history: users that took a handle they would now be refused, or one whose
                \* hold may have been written over
    day

handleVars == <<name, changeLog, hold, login, rename, triesMade, changed, released,
                doubled, stale, day>>

NoHold == [for |-> NoOne, until |-> 0]
HandlesTypeOK ==
    /\ name \in [Phones -> Names \cup {NoName}]
    /\ \A p \in Phones : Len(changeLog[p]) <= MaxChanges
    /\ hold \in [Names -> [for : Phones \cup {NoOne}, until : 0..LastDay + GraceDays]]
    /\ \A l \in Logins : login[l].step \in {"unsent", "pick", "create", "refetch", "in", "failed"}
    /\ \A r \in Renames : rename[r].step \in {"unsent", "check", "write", "done", "refused"}
    /\ doubled \subseteq Phones /\ stale \subseteq Phones /\ day \in Days

HandlesInit ==
    /\ name = Start /\ changeLog = [p \in Phones |-> <<>>]
    /\ hold = [n \in Names |-> NoHold]
    /\ login = [l \in Logins |-> [step |-> "unsent", name |-> NoName, tries |-> 0]]
    /\ rename = [r \in Renames |-> [step |-> "unsent", user |-> NoOne, to |-> NoName,
                                    old |-> NoName, log |-> <<>>, since |-> 0]]
    /\ triesMade = {} /\ changed = [p \in Phones |-> <<>>] /\ released = {}
    /\ doubled = {} /\ stale = {} /\ day = 0

-----------------------------------------------------------------------------

Accounts == {p \in Phones : name[p] # NoName}
HeldBy(n) == {p \in Phones : name[p] = n}
HoldLives(n) == hold[n].for # NoOne /\ hold[n].until > day

\* username_is_free for a user, or for NoOne.
FreeHandle(n, who) ==
    /\ HeldBy(n) \subseteq {who}
    /\ HoldLives(n) => hold[n].for = who

\* Nor is its hold that of a rename that ran beside another of its user.
FairlyFree(n, who) == FreeHandle(n, who) /\ hold[n].for \notin doubled

-----------------------------------------------------------------------------
(* _find_or_create_and_issue *)

LoginAt(l, step) == login' = [login EXCEPT ![l].step = step]
HandlesStay == UNCHANGED <<changeLog, hold, rename, changed, released, doubled, stale, day>>

\* get_user_by_phone.
LookUp(l) ==
    /\ login[l].step = "unsent"
    /\ LoginAt(l, IF PhoneOf[l] \in Accounts THEN "in" ELSE "pick")
    /\ UNCHANGED <<name, triesMade>> /\ HandlesStay

\* generate_free_username: an adjective, a noun and a number that are free.
Pick(l, n) ==
    /\ login[l].step = "pick" /\ n \notin Tails /\ FreeHandle(n, NoOne)
    /\ login' = [login EXCEPT ![l].step = "create", ![l].name = n]
    /\ UNCHANGED <<name, triesMade>> /\ HandlesStay

\* All that it drew were taken: a random tail, which it does not ask about.
PickUnasked(l, n) ==
    /\ login[l].step = "pick" /\ n \in Tails /\ \E m \in Names \ Tails : ~FreeHandle(m, NoOne)
    /\ login' = [login EXCEPT ![l].step = "create", ![l].name = n]
    /\ UNCHANGED <<name, triesMade>> /\ HandlesStay

\* create_user: either unique index refuses; a fresh handle is tried.
CreateUser(l) ==
    LET fits == PhoneOf[l] \notin Accounts /\ HeldBy(login[l].name) = {} IN
    /\ login[l].step = "create"
    /\ name' = IF fits THEN [name EXCEPT ![PhoneOf[l]] = login[l].name] ELSE name
    /\ login' = [login EXCEPT ![l].tries = @ + 1, ![l].step =
                    IF fits THEN "in" ELSE IF login[l].tries + 1 < Tries THEN "pick" ELSE "refetch"]
    /\ triesMade' = IF fits THEN triesMade \cup {l} ELSE triesMade
    /\ stale' = IF fits /\ ~FairlyFree(login[l].name, NoOne) THEN stale \cup {PhoneOf[l]} ELSE stale
    /\ UNCHANGED <<changeLog, hold, rename, changed, released, doubled, day>>

\* Another request made the account; if none did, three handles were lost.
Refetch(l) ==
    /\ login[l].step = "refetch"
    /\ LoginAt(l, IF PhoneOf[l] \in Accounts THEN "in" ELSE "failed")
    /\ UNCHANGED <<name, triesMade>> /\ HandlesStay

-----------------------------------------------------------------------------
(* set_username *)

\* The entries of the log inside the rolling window: its last ones, as a log is
\* in the order of its days.
InWindow(log) == {i \in DOMAIN log : day - log[i] < ChangeDays}
Recent(log) == SubSeq(log, Len(log) - Cardinality(InWindow(log)) + 1, Len(log))

QuotaLeft(log) == Cardinality(InWindow(log)) < MaxChanges

\* The user is read; the quota is that of the row read.
AskRename(r, u, n) ==
    /\ rename[r].step = "unsent" /\ u \in Accounts /\ name[u] # n
    /\ rename' = [rename EXCEPT ![r] =
                    [step |-> IF QuotaLeft(changeLog[u]) THEN "check" ELSE "refused",
                     user |-> u, to |-> n, old |-> name[u], log |-> changeLog[u], since |-> day]]
    /\ doubled' = IF \E q \in Renames \ {r} :
                        rename[q].user = u /\ rename[q].step \in {"check", "write"}
                  THEN doubled \cup {u} ELSE doubled
    /\ UNCHANGED <<name, changeLog, hold, login, triesMade, changed, released, stale, day>>

CheckFree(r) ==
    /\ rename[r].step = "check"
    /\ rename' = [rename EXCEPT ![r].step =
                    IF FreeHandle(rename[r].to, rename[r].user) THEN "write" ELSE "refused"]
    /\ UNCHANGED <<name, changeLog, hold, login, triesMade, changed, released, doubled, stale, day>>

\* The grace hold on a released handle: func.now() is when the transaction of
\* the request began.
HoldFor(u, since) == [for |-> u, until |-> since + GraceDays]

\* The old handle of the row read goes into a hold, the user's own hold on the
\* new one is cleared, the handle and the log are written; the unique index
\* may refuse all of it.
WriteName(r) ==
    LET u == rename[r].user
        n == rename[r].to
        log == Append(Recent(rename[r].log), day)
    IN  /\ rename[r].step = "write"
        /\ IF HeldBy(n) \subseteq {u}
           THEN /\ name' = [name EXCEPT ![u] = n]
                /\ hold' = [h \in Names |->
                              IF h = rename[r].old THEN HoldFor(u, rename[r].since)
                              ELSE IF h = n /\ hold[h].for = u THEN NoHold ELSE hold[h]]
                /\ changeLog' = [changeLog EXCEPT ![u] = SubSeq(log, 1 + Len(log) -
                                    (IF Len(log) < MaxChanges THEN Len(log) ELSE MaxChanges), Len(log))]
                /\ changed' = [changed EXCEPT ![u] = Append(@, day)]
                /\ released' = released \cup {[user |-> u, name |-> m, day |-> day,
                                                 since |-> rename[r].since] : m \in {name[u]} \ {n}}
                /\ stale' = IF FairlyFree(n, u) THEN stale ELSE stale \cup {u}
                /\ rename' = [rename EXCEPT ![r].step = "done"]
           ELSE /\ rename' = [rename EXCEPT ![r].step = "refused"]
                /\ UNCHANGED <<name, hold, changeLog, changed, released, stale>>
        /\ UNCHANGED <<login, triesMade, doubled, day>>

DayPasses ==
    /\ day < LastDay /\ day' = day + 1
    /\ UNCHANGED <<name, changeLog, hold, login, rename, triesMade, changed, released,
                   doubled, stale>>

HandlesNext ==
    \/ \E l \in Logins :
         LookUp(l) \/ (\E n \in Names : Pick(l, n) \/ PickUnasked(l, n)) \/ CreateUser(l) \/ Refetch(l)
    \/ \E r \in Renames :
         (\E u \in Phones, n \in Names : AskRename(r, u, n)) \/ CheckFree(r) \/ WriteName(r)
    \/ DayPasses

HandlesSpec == HandlesInit /\ [][HandlesNext]_handleVars

-----------------------------------------------------------------------------
\* "While it is live nobody else may take that handle" (auth/models.py): a
\* handle a user let go within the grace period, which counts from the request,
\* is held for them, or theirs again, and nobody else has it or its hold - but
\* who took it on an answer out of date or on none, or renamed twice at once,
\* as a second rename releases a handle the user no longer has and may write
\* over the hold of another, which then ends too early; who renamed twice and
\* had the handle since may have lost its hold.
HandleHeld ==
    \A e \in released :
        /\ day < e.since + GraceDays
        /\ \A f \in released : f.name = e.name /\ f.day >= e.day => f.user \notin doubled
        => /\ HeldBy(e.name) \subseteq {e.user} \cup stale \cup doubled
           /\ HeldBy(e.name) = {} => \/ hold[e.name].for \in doubled
                                     \/ HoldLives(e.name) /\ hold[e.name].for \in {e.user} \cup stale

\* In any rolling window a user renames as often as allowed, unless two of
\* their renames ran at once; and two logins of one number make one account.
QuotaHolds ==
    /\ \A p \in Phones \ doubled : Cardinality(InWindow(changed[p])) <= MaxChanges
    /\ \A l, k \in triesMade : PhoneOf[l] = PhoneOf[k] => l = k

=============================================================================
