----------------------------- MODULE MCPayments -----------------------------
(***************************************************************************)
(* A small instance of Payments for TLC: the margin is two ticks of half a *)
(* minute, the timeout one of them.                                        *)
(***************************************************************************)
EXTENDS Payments, TLC

MCTTLs == {2, 3}

MCSymmetry == Permutations(Calls)
=============================================================================
