-------------------------------- MODULE Tlb --------------------------------
(***************************************************************************)
(* The CPU's translation lookaside buffer (cpu/src/main.c): an array of    *)
(* rows, searched from the first, with a circular index for FIFO and a     *)
(* clock of references for LRU.  One thread uses it, and it waits for the  *)
(* memory's answer to a miss, so that a lookup is one step.                *)
(***************************************************************************)
EXTENDS Integers, SequencesExt

CONSTANTS
  Pid, Pagina, Marco,
  tlb_size,             \* CANTIDAD_ENTRADAS_TLB
  Algoritmos,           \* what the configuration may name as ALGORITMO_TLB
  MaxInstante           \* bound on the clock

ASSUME ConstantesOK ==
  /\ -1 \notin Pid
  /\ Pagina \subseteq Nat
  /\ tlb_size \in Nat
  /\ Algoritmos \subseteq {"FIFO", "LRU"}
  /\ MaxInstante \in Nat

VARIABLES
  ALGORITMO_TLB,            \* read once, when the CPU starts
  TLB,                      \* rows 0 .. tlb_size - 1; PID = -1 marks a free one
  ultima_fila_modificada,   \* FIFO: row to replace next
  instante_referencia,      \* LRU: clock
  marco                     \* result of the last conseguir_marco

vars == <<ALGORITMO_TLB, TLB, ultima_fila_modificada, instante_referencia, marco>>

Fila == 0 .. tlb_size - 1
Nadie == -1

TypeOK ==
  /\ ALGORITMO_TLB \in Algoritmos
  /\ TLB \in [Fila -> [PID: Pid \cup {Nadie}, nro_pag: Pagina, nro_marco: Marco,
                       instante_referencia: 0 .. MaxInstante]]
  /\ ultima_fila_modificada \in 0 .. tlb_size
  /\ instante_referencia \in 0 .. MaxInstante
  /\ marco \in Marco \cup {-1}

Tiene(i, p, g) == TLB[i].PID = p /\ TLB[i].nro_pag = g
Primera(S) == CHOOSE i \in S : \A j \in S : i <= j

\* Mutants: a hit does not refresh the row's clock; the row is found by page only.
AciertoSinReferencia(p, g) ==
  LET filas == {i \in Fila : Tiene(i, p, g)}
  IN /\ filas # {}
     /\ marco' = TLB[Primera(filas)].nro_marco
     /\ instante_referencia' = instante_referencia + 1
     /\ UNCHANGED <<TLB, ultima_fila_modificada>>
AciertoSinPid(p, g) ==
  LET filas == {i \in Fila : TLB[i].PID # Nadie /\ TLB[i].nro_pag = g}
  IN /\ filas # {}
     /\ marco' = TLB[Primera(filas)].nro_marco
     /\ TLB' = [TLB EXCEPT ![Primera(filas)].instante_referencia = instante_referencia]
     /\ instante_referencia' = instante_referencia + 1
     /\ UNCHANGED ultima_fila_modificada

(* conseguir_marco_en_la_tlb finds a row.                                  *)
conseguir_marco_en_la_tlb(p, g) ==
  LET filas == {i \in Fila : Tiene(i, p, g)}
  IN /\ filas # {}
     /\ marco' = TLB[Primera(filas)].nro_marco
     /\ TLB' = [TLB EXCEPT ![Primera(filas)].instante_referencia = instante_referencia]
     /\ instante_referencia' = instante_referencia + 1
     /\ UNCHANGED ultima_fila_modificada

buscar_tlb_con_menor_referencia ==
  Primera({i \in Fila : \A j \in Fila : TLB[i].instante_referencia <= TLB[j].instante_referencia})

\* Mutants: the circular index does not wrap around; a replaced row keeps its
\* pid.
AgregarSinVolver(p, g, m) ==
  LET nueva == [PID |-> p, nro_pag |-> g, nro_marco |-> m,
                instante_referencia |-> instante_referencia]
      huecos == {i \in Fila : TLB[i].PID = Nadie}
      turno == ultima_fila_modificada
  IN IF huecos # {}
     THEN TLB' = [TLB EXCEPT ![Primera(huecos)] = nueva] /\ UNCHANGED ultima_fila_modificada
     ELSE TLB' = [TLB EXCEPT ![turno] = nueva] /\ ultima_fila_modificada' = turno + 1
AgregarConPidViejo(p, g, m) ==
  LET huecos == {i \in Fila : TLB[i].PID = Nadie}
      fila == IF huecos # {} THEN Primera(huecos) ELSE 0
  IN /\ TLB' = [TLB EXCEPT ![fila] = [PID |-> IF huecos # {} THEN p ELSE @.PID,
                                      nro_pag |-> g, nro_marco |-> m,
                                      instante_referencia |-> instante_referencia]]
     /\ UNCHANGED ultima_fila_modificada

agregar_a_tlb(p, g, m) ==
  LET nueva == [PID |-> p, nro_pag |-> g, nro_marco |-> m,
                instante_referencia |-> instante_referencia]
      huecos == {i \in Fila : TLB[i].PID = Nadie}
      turno == IF ultima_fila_modificada = tlb_size THEN 0 ELSE ultima_fila_modificada
  IN IF tlb_size = 0 THEN UNCHANGED <<TLB, ultima_fila_modificada>>
     ELSE IF huecos # {}
     THEN TLB' = [TLB EXCEPT ![Primera(huecos)] = nueva] /\ UNCHANGED ultima_fila_modificada
     ELSE IF ALGORITMO_TLB = "FIFO"
     THEN TLB' = [TLB EXCEPT ![turno] = nueva] /\ ultima_fila_modificada' = turno + 1
     ELSE /\ TLB' = [TLB EXCEPT ![buscar_tlb_con_menor_referencia] = nueva]
          /\ UNCHANGED ultima_fila_modificada

(* No row has it: the memory answers m.                                    *)
PedirMarco(p, g, m) ==
  /\ \A i \in Fila : ~Tiene(i, p, g)
  /\ marco' = m
  /\ agregar_a_tlb(p, g, m)
  /\ instante_referencia' = instante_referencia + 1

conseguir_marco(p, g) ==
  /\ instante_referencia < MaxInstante /\ UNCHANGED ALGORITMO_TLB
  /\ conseguir_marco_en_la_tlb(p, g) \/ \E m \in Marco : PedirMarco(p, g, m)

\* malloc leaves everything but the PID undefined.
Init ==
  /\ ALGORITMO_TLB \in Algoritmos
  /\ \E g \in Pagina, m \in Marco :
       TLB = [i \in Fila |-> [PID |-> Nadie, nro_pag |-> g, nro_marco |-> m,
                              instante_referencia |-> 0]]
  /\ ultima_fila_modificada = 0 /\ instante_referencia = 0 /\ marco = -1

Next == \E p \in Pid, g \in Pagina : conseguir_marco(p, g)

Spec == Init /\ [][Next]_vars

-----------------------------------------------------------------------------
(* The rows in the order in which they will be replaced: of a full table,  *)
(* from the circular index on for FIFO, by their clock for LRU.            *)
Ocupadas == {i \in Fila : TLB[i].PID # Nadie}
Antes(i, j) ==
  IF ALGORITMO_TLB = "LRU" THEN TLB[i].instante_referencia < TLB[j].instante_referencia
  ELSE LET turno == IF ultima_fila_modificada = tlb_size THEN 0 ELSE ultima_fila_modificada
       IN (i - turno) % tlb_size < (j - turno) % tlb_size
Traduccion(i) == [clave |-> <<TLB[i].PID, TLB[i].nro_pag>>, marco |-> TLB[i].nro_marco]
EnOrden(filas) == \A k, l \in DOMAIN filas : k < l => ~Antes(filas[l], filas[k])
Cola ==
  LET filas == CHOOSE f \in SetToSeqs(Ocupadas) : EnOrden(f)
  IN [k \in DOMAIN filas |-> Traduccion(filas[k])]

(* The table is the queue that its replacement algorithm promises: a hit   *)
(* gives what was cached, a miss evicts the right row, one row per page.   *)
Cache == INSTANCE CacheDeMarcos
  WITH Clave <- Pid \X Pagina, Entradas <- tlb_size,
       algoritmo <- ALGORITMO_TLB, cola <- Cola, traducido <- marco
Implementa == Cache!Spec
=============================================================================
