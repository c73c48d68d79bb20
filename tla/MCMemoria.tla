----------------------------- MODULE MCMemoria -----------------------------
(* Instances of Memoria for TLC.  Ids are interchangeable: no definition   *)
(* compares two of them but for equality.                                  *)
EXTENDS Memoria, TLC

SimetriaPid == Permutations(Pid)
=============================================================================
