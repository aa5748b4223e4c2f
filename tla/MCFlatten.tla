------------------------------ MODULE MCFlatten ------------------------------
(* Flatten on one or two symbols.                                           *)
EXTENDS Flatten, TLC

CONSTANTS a, b

SymbolSymmetry == Permutations(Symbol)

=============================================================================
