----------------------------- MODULE AtLeastOnce -----------------------------
(***************************************************************************)
(* What a stream consumer promises its producers: an entry may be handled  *)
(* any number of times and in any order, but it is taken off the stream    *)
(* only after it has been handled, and it stays handled.                   *)
(***************************************************************************)
EXTENDS Naturals

VARIABLES
    added,    \* number of entries accepted
    handled,  \* entries whose effect has happened at least once
    retired   \* entries that will never be delivered again

vars == <<added, handled, retired>>

Init == added = 0 /\ handled = {} /\ retired = {}

\* A new entry; a duplicate of a handled one counts as handled from the start.
Add ==
    /\ added' = added + 1
    /\ handled' \in {handled, handled \cup {added + 1}}
    /\ UNCHANGED retired

Handle ==
    /\ handled \subseteq handled'
    /\ handled' \subseteq 1..added
    /\ UNCHANGED <<added, retired>>

Retire ==
    /\ retired \subseteq retired'
    /\ retired' \subseteq handled
    /\ UNCHANGED <<added, handled>>

Next == Add \/ Handle \/ Retire

Spec == Init /\ [][Next]_vars

=============================================================================
