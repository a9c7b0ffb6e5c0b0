---------------------------- MODULE MCUserListing ----------------------------
(***************************************************************************)
(* A small instance of UserListing for TLC, over the workload of MCUsers.  *)
(***************************************************************************)
EXTENDS UserListing, MCUsers

Filter(k, o, d, p, s) == [keyword |-> k, role |-> o, deleted |-> d, page |-> p, size |-> s]

\* The defaults, deleted rows too, the pages of a two-row table one by one and
\* beyond, an offset that wraps to a negative one, and searches.
MCQueries == {Filter(Nil, Nil, FALSE, 0, 0), Filter(Nil, user, TRUE, 2, 1),
              Filter(Nil, Nil, TRUE, 4, 3), Filter(n1, Nil, FALSE, 1, 1), Filter(n2, admin, FALSE, 4, 3)}
=============================================================================
