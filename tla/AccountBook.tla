---------------------------- MODULE AccountBook ----------------------------
(***************************************************************************)
(* What the accounts of a device promise: a durable table of passwords.    *)
(* A change is either acknowledged, and then survives power losses, or cut *)
(* short, and then made entirely or not at all.                            *)
(***************************************************************************)
CONSTANTS Users, Passwords, Admin, NULL

VARIABLES
    book,   \* the password of each user, NULL for no account
    undo    \* what book goes back to if power is lost now

Settled == undo = book

Init ==
    /\ book = [u \in Users |-> NULL]
    /\ Settled

\* An account is created or gets a password: not acknowledged yet.
Begin(u, password) ==
    /\ Settled
    /\ book' = [book EXCEPT ![u] = password]
    /\ UNCHANGED undo

Acknowledge ==
    /\ ~Settled
    /\ undo' = book
    /\ UNCHANGED book

\* An account is removed, at once and for good; never the administrator's.
Remove(u) ==
    /\ Settled
    /\ u # Admin
    /\ book[u] # NULL
    /\ book' = [book EXCEPT ![u] = NULL]
    /\ undo' = book'

\* Power is lost before a change was acknowledged.
Revert ==
    /\ ~Settled
    /\ book' = undo
    /\ UNCHANGED undo

Next ==
    \/ \E u \in Users, password \in Passwords : Begin(u, password)
    \/ \E u \in Users : Remove(u)
    \/ Acknowledge
    \/ Revert

vars == <<book, undo>>

Spec == Init /\ [][Next]_vars
=============================================================================
