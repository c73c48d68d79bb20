-------------------------- MODULE TablasDePaginas --------------------------
(***************************************************************************)
(* What the memory module promises the CPU and the kernel: page tables     *)
(* that grow and shrink one page at a time, in which every frame is in at  *)
(* most one place, and a RESIZE that is denied only when there is no frame *)
(* left.  There is no bitmap here: a frame is free when no table has it.   *)
(***************************************************************************)
EXTENDS Integers, SequencesExt

CONSTANTS Pid, Marco

VARIABLES tablas,    \* of each process, the frames of its pages 0, 1, ...
          resultado  \* answer to the last RESIZE

vars == <<tablas, resultado>>

Asignados == UNION {ToSet(tablas[p]) : p \in Pid}

Init == tablas = [p \in Pid |-> <<>>] /\ resultado = 0

Ampliar(p) ==
  /\ \E m \in Marco \ Asignados : tablas' = [tablas EXCEPT ![p] = Append(@, m)]
  /\ UNCHANGED resultado

Reducir(p) ==
  /\ tablas[p] # <<>>
  /\ tablas' = [tablas EXCEPT ![p] = Front(@)]
  /\ UNCHANGED resultado

Contestar(r) ==
  /\ r = 1 => Asignados = Marco
  /\ resultado' = r
  /\ UNCHANGED tablas

Next == \/ \E p \in Pid : Ampliar(p) \/ Reducir(p)
        \/ \E r \in {0, 1} : Contestar(r)

Spec == Init /\ [][Next]_vars
=============================================================================
