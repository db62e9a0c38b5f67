------------------------------- MODULE Valores ------------------------------
(***************************************************************************)
(* What every module shares: Java's null and values that may be null.      *)
(***************************************************************************)
EXTENDS Integers, Sequences

CONSTANT Nulo

Opcional(S) == S \cup {Nulo}
=============================================================================
