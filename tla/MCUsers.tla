------------------------------- MODULE MCUsers -------------------------------
(***************************************************************************)
(* Small instances of Users for TLC.                                       *)
(***************************************************************************)
EXTENDS Users, TLC

CONSTANTS u1, u2, u3, e1, e2, n1, n2, admin, user

Registration(i, e) == [op |-> "register", id |-> i, email |-> e, name |-> n1, role |-> user]

Update(i, n, o) == [op |-> "update", id |-> i, email |-> Nil, name |-> n, role |-> o]

On(o, i) == [op |-> o, id |-> i, email |-> Nil, name |-> Nil, role |-> Nil]

MCInitialRows == {[email |-> e1, name |-> n1, role |-> user, deleted |-> FALSE]}

\* Writers and readers of one user.
MCOneUser == {Update(u1, n2, Nil), Update(u1, Nil, admin), On("delete", u1), On("get", u1)}

\* With registrations that compete for that user's email and for another.
MCWorkload == MCOneUser \cup {Registration(u2, e1), Registration(u3, e1), Registration(u3, e2)}

\* For liveness: one of each, all in conflict.
MCContenders == (MCOneUser \ {Update(u1, Nil, admin)}) \cup {Registration(u2, e1)}

Symmetric == Permutations(Requests)
=============================================================================
