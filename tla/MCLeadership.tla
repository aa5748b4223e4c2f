---------------------------- MODULE MCLeadership ----------------------------
(***************************************************************************)
(* Model-checking instance of Leadership, whose processes are               *)
(* interchangeable.                                                         *)
(***************************************************************************)
EXTENDS Leadership, TLC

HolderSymmetry == Permutations(Holder)
=============================================================================
