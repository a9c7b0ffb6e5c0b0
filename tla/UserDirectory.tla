--------------------------- MODULE UserDirectory ---------------------------
(***************************************************************************)
(* What the user table promises to its readers, with no requests, locks,   *)
(* caches or faults: a user is registered once, under an email no active   *)
(* user has; it keeps that email; it changes by whole versions, one at a   *)
(* time; it is removed once, and an active email is never shared.  The     *)
(* version a change starts from is the current one when Exact, and some    *)
(* version that was committed earlier otherwise.                           *)
(***************************************************************************)
CONSTANTS Ids, Emails, Names, Roles, NoRow, InitialRows, Exact

VARIABLES users, history

User == [email : Emails, name : Names, role : Roles, deleted : BOOLEAN]

IsActive(x) == x # NoRow /\ x.deleted = FALSE

EmailFree(i, e) == \A j \in Ids \ {i} : IsActive(users[j]) => users[j].email # e

Put(i, x) ==
    /\ users' = [users EXCEPT ![i] = x]
    /\ history' = [history EXCEPT ![i] = @ \cup {x}]

Init ==
    /\ users \in [Ids -> InitialRows \cup {NoRow}]
    /\ \A i \in Ids : IsActive(users[i]) => EmailFree(i, users[i].email)
    /\ history = [i \in Ids |-> {users[i]} \ {NoRow}]

Register(i) ==
    /\ users[i] = NoRow
    /\ \E x \in User :
          /\ x.deleted = FALSE
          /\ EmailFree(i, x.email)
          /\ Put(i, x)

\* The versions a change may start from: never a deleted one, so only a
\* change that starts from an old version can bring a deleted user back.
Basis(i) == {x \in IF Exact THEN {users[i]} ELSE history[i] : IsActive(x)}

Change(i) ==
    \E x \in Basis(i), n \in Names, o \in Roles :
        /\ EmailFree(i, x.email)
        /\ Put(i, [x EXCEPT !.name = n, !.role = o])

Remove(i) ==
    /\ IsActive(users[i])
    /\ Put(i, [users[i] EXCEPT !.deleted = TRUE])

Next == \E i \in Ids : Register(i) \/ Change(i) \/ Remove(i)

Spec == Init /\ [][Next]_<<users, history>>
=============================================================================
