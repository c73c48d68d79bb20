--------------------------- MODULE CacheDeMarcos ---------------------------
(***************************************************************************)
(* What the replacement algorithms of the TLB promise: a queue of at most  *)
(* Entradas translations, the next one to be replaced at its head.  FIFO   *)
(* orders them by arrival, LRU by last use.                                *)
(***************************************************************************)
EXTENDS Integers, SequencesExt

CONSTANTS Clave,      \* what is looked up: a page of a process
          Marco,      \* what is found
          Entradas, Algoritmos

VARIABLES algoritmo,  \* which of them, chosen for good
          cola,       \* translations [clave, marco], the oldest first
          traducido   \* result of the last lookup

vars == <<algoritmo, cola, traducido>>

Init == algoritmo \in Algoritmos /\ cola = <<>> /\ traducido = -1

Acierto(c) ==
  \E i \in DOMAIN cola :
    /\ cola[i].clave = c
    /\ traducido' = cola[i].marco
    /\ cola' = IF algoritmo = "FIFO" THEN cola ELSE Append(RemoveAt(cola, i), cola[i])

Fallo(c, m) ==
  /\ \A i \in DOMAIN cola : cola[i].clave # c
  /\ traducido' = m
  /\ LET quedan == IF Len(cola) < Entradas THEN cola ELSE Tail(cola)
     IN cola' = IF Entradas = 0 THEN <<>> ELSE Append(quedan, [clave |-> c, marco |-> m])

Next ==
  /\ UNCHANGED algoritmo
  /\ \E c \in Clave : Acierto(c) \/ \E m \in Marco : Fallo(c, m)

Spec == Init /\ [][Next]_vars
=============================================================================
