--------------------------- MODULE MCAuthSessions ---------------------------
(***************************************************************************)
(* Small instances of AuthSessions for TLC.                                *)
(***************************************************************************)
EXTENDS AuthSessions, TLC

Symmetric == Permutations(Requests)
=============================================================================
