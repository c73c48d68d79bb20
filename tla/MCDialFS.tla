------------------------------ MODULE MCDialFS ------------------------------
(* Instances of DialFS for TLC.  Names of files are interchangeable.       *)
EXTENDS DialFS, TLC

SimetriaArchivo == Permutations(Archivo)
=============================================================================
