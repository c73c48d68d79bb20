------------------------------ MODULE Memoria ------------------------------
(***************************************************************************)
(* The memory module (memoria/src/main.c): the table of pages of every     *)
(* process and the bitmap of frames, changed by two threads, the one that  *)
(* serves the kernel (it creates and destroys processes) and the one that  *)
(* serves the CPU (it resizes them).                                       *)
(*                                                                         *)
(* No lock protects the bitmap.  Clearing or setting a bit reads a byte    *)
(* and writes it back, so each is two steps here; the search for a free    *)
(* frame looks at one bit per step.                                        *)
(***************************************************************************)
EXTENDS Integers, FiniteSets

CONSTANTS
  Pid,                 \* ids of processes
  CantMarcos,          \* TAM_MEMORIA / TAM_PAGINA
  MarcosPorByte,       \* frames whose bits share a byte (8 in the code)
  Tamanios,            \* sizes, in pages, that the programs give to RESIZE
  BorradoConcurrente   \* TRUE: a process may be destroyed while the CPU works

ASSUME ConstantesOK ==
  /\ CantMarcos \in Nat \ {0} /\ MarcosPorByte \in Nat \ {0}
  /\ Tamanios \subseteq Nat
  /\ BorradoConcurrente \in BOOLEAN

Marco == 0 .. CantMarcos - 1
Hilo == {"kernel", "cpu"}
Byte(m) == {n \in Marco : n \div MarcosPorByte = m \div MarcosPorByte}

(***************************************************************************)
(* creados           ids for which the kernel asked for a process          *)
(* procesos          keys of the dictionary                                *)
(* paginas_actuales, tabla_paginas   fields of each t_memoria_proceso      *)
(* marcos            frames whose bit is 1                                 *)
(* pisados           a history: frames of which a byte written back undid  *)
(*                   the bit that the other thread had changed meanwhile   *)
(* hilo              locals of borrar_paginas and agregar_paginas in each  *)
(*                   thread: fase says which loop it is in and whether it  *)
(*                   holds, in copia, a byte it is about to write back;    *)
(*                   "caido" when it has written beyond the table          *)
(* resultado         answer to the last RESIZE (1: out of memory)          *)
(***************************************************************************)
VARIABLES creados, procesos, paginas_actuales, tabla_paginas, marcos, pisados, hilo, resultado

vars == <<creados, procesos, paginas_actuales, tabla_paginas, marcos, pisados, hilo, resultado>>

Fase == {"libre", "limpiar", "limpiando", "buscar", "marcar", "marcando", "caido"}

TypeOK ==
  /\ creados \in SUBSET Pid
  /\ procesos \in SUBSET creados
  /\ paginas_actuales \in [Pid -> 0 .. CantMarcos]
  /\ tabla_paginas \in [Pid -> [Marco -> Marco]]
  /\ marcos \in SUBSET Marco /\ pisados \in SUBSET Marco
  /\ hilo \in [Hilo -> [fase: Fase, pid: Pid, i: Int, hasta: Nat,
                        marco_libre: 0 .. CantMarcos, copia: SUBSET Marco]]
  /\ resultado \in {0, 1}

Libre(h) == hilo[h].fase = "libre"

\* Thread h writes the byte of f back: the other bits go back to what they
\* were when it was read.
Escribir(h, f, byte) ==
  /\ marcos' = (marcos \ Byte(f)) \cup byte
  /\ pisados' = pisados \cup {m \in Byte(f) \ {f} : ~(m \in marcos <=> m \in hilo[h].copia)}

-----------------------------------------------------------------------------
(***************************************************************************)
(* Requests of the kernel                                                  *)
(***************************************************************************)
\* crear_proceso fails when the program's file cannot be opened.
crear_proceso(p, abre) ==
  /\ Libre("kernel") /\ p \notin creados
  /\ creados' = creados \cup {p}
  /\ IF abre
     THEN /\ procesos' = procesos \cup {p}
          /\ paginas_actuales' = [paginas_actuales EXCEPT ![p] = 0]
     ELSE UNCHANGED <<procesos, paginas_actuales>>
  /\ UNCHANGED <<tabla_paginas, marcos, pisados, hilo, resultado>>

\* Mutant: the loop starts one page beyond the last.
destruir_proceso_de_mas(p) ==
  /\ Libre("kernel") /\ p \in procesos
  /\ Libre("cpu") \/ (BorradoConcurrente /\ hilo["cpu"].pid # p)
  /\ procesos' = procesos \ {p}
  /\ hilo' = [hilo EXCEPT !["kernel"] = [@ EXCEPT !.fase = "limpiar", !.pid = p,
                                                 !.i = paginas_actuales[p], !.hasta = 0]]
  /\ UNCHANGED <<creados, paginas_actuales, tabla_paginas, marcos, pisados, resultado>>

\* The kernel finishes each process once, and here never the one that the
\* CPU is resizing.
destruir_proceso(p) ==
  /\ Libre("kernel") /\ p \in procesos
  /\ Libre("cpu") \/ (BorradoConcurrente /\ hilo["cpu"].pid # p)
  /\ procesos' = procesos \ {p}
  /\ hilo' = [hilo EXCEPT !["kernel"] = [@ EXCEPT !.fase = "limpiar", !.pid = p,
                                                 !.i = paginas_actuales[p] - 1, !.hasta = 0]]
  /\ UNCHANGED <<creados, paginas_actuales, tabla_paginas, marcos, pisados, resultado>>

(***************************************************************************)
(* RESIZE_PROCESO of the CPU                                               *)
(***************************************************************************)
modificar_tamanio_proceso(p, n) ==
  /\ Libre("cpu") /\ p \in procesos
  /\ Libre("kernel") \/ BorradoConcurrente
  /\ hilo' = [hilo EXCEPT !["cpu"] =
                IF paginas_actuales[p] > n
                THEN [@ EXCEPT !.fase = "limpiar", !.pid = p,
                               !.i = paginas_actuales[p] - 1, !.hasta = n]
                ELSE [@ EXCEPT !.fase = "buscar", !.pid = p,
                               !.i = paginas_actuales[p], !.hasta = n, !.marco_libre = 0]]
  /\ UNCHANGED <<creados, procesos, paginas_actuales, tabla_paginas, marcos, pisados, resultado>>

Responder(h, r) == resultado' = IF h = "cpu" THEN r ELSE resultado

(***************************************************************************)
(* borrar_paginas, from the last page down to hasta, in either thread      *)
(***************************************************************************)
LeerParaLimpiar(h) ==
  /\ hilo[h].fase = "limpiar" /\ hilo[h].i >= hilo[h].hasta
  /\ LET f == tabla_paginas[hilo[h].pid][hilo[h].i]
     IN hilo' = [hilo EXCEPT ![h] = [@ EXCEPT !.fase = "limpiando", !.copia = marcos \cap Byte(f)]]
  /\ UNCHANGED <<creados, procesos, paginas_actuales, tabla_paginas, marcos, pisados, resultado>>

\* Mutants: the page is zeroed before its frame is freed; paginas_actuales
\* is not decremented.
EscribirLimpioTarde(h) ==
  LET p == hilo[h].pid
  IN /\ hilo[h].fase = "limpiando"
     /\ marcos' = marcos \ {0} /\ UNCHANGED pisados
     /\ tabla_paginas' = [tabla_paginas EXCEPT ![p] = [@ EXCEPT ![hilo[h].i] = 0]]
     /\ paginas_actuales' = [paginas_actuales EXCEPT ![p] = @ - 1]
     /\ hilo' = [hilo EXCEPT ![h] = [@ EXCEPT !.fase = "limpiar", !.i = hilo[h].i - 1, !.copia = {}]]
     /\ UNCHANGED <<creados, procesos, resultado>>
EscribirLimpioSinContar(h) ==
  LET p == hilo[h].pid
      f == tabla_paginas[p][hilo[h].i]
  IN /\ hilo[h].fase = "limpiando"
     /\ Escribir(h, f, hilo[h].copia \ {f})
     /\ tabla_paginas' = [tabla_paginas EXCEPT ![p] = [@ EXCEPT ![hilo[h].i] = 0]]
     /\ hilo' = [hilo EXCEPT ![h] = [@ EXCEPT !.fase = "limpiar", !.i = hilo[h].i - 1, !.copia = {}]]
     /\ UNCHANGED <<creados, procesos, paginas_actuales, resultado>>

EscribirLimpio(h) ==
  LET p == hilo[h].pid
      f == tabla_paginas[p][hilo[h].i]
  IN /\ hilo[h].fase = "limpiando"
     /\ Escribir(h, f, hilo[h].copia \ {f})
     /\ tabla_paginas' = [tabla_paginas EXCEPT ![p] = [@ EXCEPT ![hilo[h].i] = 0]]
     /\ paginas_actuales' = [paginas_actuales EXCEPT ![p] = @ - 1]
     /\ hilo' = [hilo EXCEPT ![h] = [@ EXCEPT !.fase = "limpiar", !.i = hilo[h].i - 1, !.copia = {}]]
     /\ UNCHANGED <<creados, procesos, resultado>>

FinBorrado(h) ==
  /\ hilo[h].fase = "limpiar" /\ hilo[h].i < hilo[h].hasta
  /\ hilo' = [hilo EXCEPT ![h] = [@ EXCEPT !.fase = "libre"]]
  /\ Responder(h, 0)
  /\ UNCHANGED <<creados, procesos, paginas_actuales, tabla_paginas, marcos, pisados>>

(***************************************************************************)
(* agregar_paginas with bitarray_buscar_libre                              *)
(***************************************************************************)
Falta == hilo["cpu"].fase = "buscar" /\ hilo["cpu"].i < hilo["cpu"].hasta

\* Mutant: the search goes one bit beyond the last frame.
MirarMarcoDeMas ==
  /\ Falta /\ hilo["cpu"].marco_libre <= CantMarcos
  /\ hilo' = [hilo EXCEPT !["cpu"] = IF hilo["cpu"].marco_libre \in marcos
                                     THEN [@ EXCEPT !.marco_libre = hilo["cpu"].marco_libre + 1]
                                     ELSE [@ EXCEPT !.fase = "marcar"]]
  /\ UNCHANGED <<creados, procesos, paginas_actuales, tabla_paginas, marcos, pisados, resultado>>

MirarMarco ==
  /\ Falta /\ hilo["cpu"].marco_libre < CantMarcos
  /\ hilo' = [hilo EXCEPT !["cpu"] = IF hilo["cpu"].marco_libre \in marcos
                                     THEN [@ EXCEPT !.marco_libre = hilo["cpu"].marco_libre + 1]
                                     ELSE [@ EXCEPT !.fase = "marcar"]]
  /\ UNCHANGED <<creados, procesos, paginas_actuales, tabla_paginas, marcos, pisados, resultado>>

\* Mutant: the search ends one bit before the last frame.
SinMarcosAntes ==
  /\ Falta /\ hilo["cpu"].marco_libre = CantMarcos - 1
  /\ hilo' = [hilo EXCEPT !["cpu"] = [@ EXCEPT !.fase = "libre"]]
  /\ Responder("cpu", 1)
  /\ UNCHANGED <<creados, procesos, paginas_actuales, tabla_paginas, marcos, pisados>>

\* Out of memory: the pages added so far stay with the process.
SinMarcos ==
  /\ Falta /\ hilo["cpu"].marco_libre = CantMarcos
  /\ hilo' = [hilo EXCEPT !["cpu"] = [@ EXCEPT !.fase = "libre"]]
  /\ Responder("cpu", 1)
  /\ UNCHANGED <<creados, procesos, paginas_actuales, tabla_paginas, marcos, pisados>>

LeerParaMarcar ==
  /\ hilo["cpu"].fase = "marcar"
  /\ hilo' = [hilo EXCEPT !["cpu"] =
                [@ EXCEPT !.fase = "marcando",
                          !.copia = marcos \cap Byte(hilo["cpu"].marco_libre)]]
  /\ UNCHANGED <<creados, procesos, paginas_actuales, tabla_paginas, marcos, pisados, resultado>>

\* Mutant: the frame found is not marked.
EscribirSinMarcar ==
  LET p == hilo["cpu"].pid
  IN /\ hilo["cpu"].fase = "marcando"
     /\ tabla_paginas' = [tabla_paginas EXCEPT ![p] = [@ EXCEPT ![hilo["cpu"].i] = hilo["cpu"].marco_libre]]
     /\ paginas_actuales' = [paginas_actuales EXCEPT ![p] = @ + 1]
     /\ hilo' = [hilo EXCEPT !["cpu"] = [@ EXCEPT !.fase = "buscar", !.i = hilo["cpu"].i + 1,
                                                  !.marco_libre = 0, !.copia = {}]]
     /\ UNCHANGED <<creados, procesos, marcos, pisados, resultado>>

EscribirMarcado ==
  LET p == hilo["cpu"].pid
      f == hilo["cpu"].marco_libre
  IN /\ hilo["cpu"].fase = "marcando" /\ hilo["cpu"].i \in Marco
     /\ Escribir("cpu", f, hilo["cpu"].copia \cup {f})
     /\ tabla_paginas' = [tabla_paginas EXCEPT ![p] = [@ EXCEPT ![hilo["cpu"].i] = f]]
     /\ paginas_actuales' = [paginas_actuales EXCEPT ![p] = @ + 1]
     /\ hilo' = [hilo EXCEPT !["cpu"] = [@ EXCEPT !.fase = "buscar", !.i = hilo["cpu"].i + 1,
                                                  !.marco_libre = 0, !.copia = {}]]
     /\ UNCHANGED <<creados, procesos, resultado>>

\* The table has room for CantMarcos pages, and nothing checks it.  What
\* comes after a write beyond it is not modelled.
EscribirFuera ==
  /\ hilo["cpu"].fase = "marcando" /\ hilo["cpu"].i \notin Marco
  /\ hilo' = [hilo EXCEPT !["cpu"] = [@ EXCEPT !.fase = "caido"]]
  /\ UNCHANGED <<creados, procesos, paginas_actuales, tabla_paginas, marcos, pisados, resultado>>

FinAgregado ==
  /\ hilo["cpu"].fase = "buscar" /\ hilo["cpu"].i >= hilo["cpu"].hasta
  /\ hilo' = [hilo EXCEPT !["cpu"] = [@ EXCEPT !.fase = "libre"]]
  /\ Responder("cpu", 0)
  /\ UNCHANGED <<creados, procesos, paginas_actuales, tabla_paginas, marcos, pisados>>

-----------------------------------------------------------------------------
Init ==
  /\ creados = {} /\ procesos = {} /\ marcos = {} /\ pisados = {} /\ resultado = 0
  /\ paginas_actuales = [p \in Pid |-> 0]
  /\ tabla_paginas \in [Pid -> [Marco -> {0}]]
  /\ \E p \in Pid : hilo = [h \in Hilo |-> [fase |-> "libre", pid |-> p, i |-> 0, hasta |-> 0,
                                            marco_libre |-> 0, copia |-> {}]]

Next ==
  \/ \E p \in Pid : \/ \E abre \in BOOLEAN : crear_proceso(p, abre)
                    \/ destruir_proceso(p)
                    \/ \E n \in Tamanios : modificar_tamanio_proceso(p, n)
  \/ \E h \in Hilo : LeerParaLimpiar(h) \/ EscribirLimpio(h) \/ FinBorrado(h)
  \/ MirarMarco \/ SinMarcos \/ LeerParaMarcar \/ EscribirMarcado \/ EscribirFuera \/ FinAgregado

Spec == Init /\ [][Next]_vars

-----------------------------------------------------------------------------
(***************************************************************************)
(* Properties                                                              *)
(***************************************************************************)
Paginas(p) == 0 .. paginas_actuales[p] - 1

(* No frame backs two pages, of one process or of two: what one process    *)
(* stores another cannot read or overwrite.  Only a frame whose bit was    *)
(* undone by a byte written back late may be shared.                       *)
MarcosDisjuntos ==
  \A p, q \in Pid : \A i \in Paginas(p), j \in Paginas(q) :
    tabla_paginas[p][i] = tabla_paginas[q][j] /\ tabla_paginas[p][i] \notin pisados => p = q /\ i = j

(* The bitmap and the tables, which only agree through paginas_actuales,   *)
(* say the same of every frame whose bit was not undone: no page has it    *)
(* free, and it is not lost.  While the threads take turns none is undone. *)
Respaldan == {m \in Marco : \E p \in Pid : \E i \in Paginas(p) : tabla_paginas[p][i] = m}
BitmapCoherente ==
  /\ \A m \in Marco \ pisados : m \in marcos <=> m \in Respaldan
  /\ ~BorradoConcurrente => pisados = {}

(* Where each thread is, against the tables: the locals i of the two loops *)
(* follow paginas_actuales, the two threads work on different processes,   *)
(* the byte held is of the frame that is freed or taken, a frame found is  *)
(* still free unless its bit was undone, and so is agregar_paginas within  *)
(* the table.                                                              *)
HilosCoherentes ==
  /\ \A p \in Pid \ creados : paginas_actuales[p] = 0
  /\ hilo["kernel"].fase \in {"libre", "limpiar", "limpiando"}
  /\ ~Libre("kernel") => hilo["kernel"].pid \in creados \ procesos /\ hilo["kernel"].hasta = 0
  /\ ~Libre("cpu") => /\ hilo["cpu"].pid \in procesos
                      /\ Libre("kernel") \/ BorradoConcurrente
  /\ hilo["cpu"].fase = "caido" => pisados # {}
  /\ \A h \in Hilo :
       LET p == hilo[h].pid
           f == tabla_paginas[p][hilo[h].i]
       IN /\ hilo[h].fase \in {"limpiar", "limpiando"} => hilo[h].i = paginas_actuales[p] - 1
          /\ hilo[h].fase = "limpiando" => hilo[h].i >= hilo[h].hasta /\ hilo[h].copia \subseteq Byte(f)
          /\ hilo[h].fase \in {"buscar", "marcar", "marcando"} => hilo[h].i = paginas_actuales[p]
          /\ hilo[h].fase \in {"marcar", "marcando"}
               => hilo[h].marco_libre \in Marco \ (marcos \ pisados)
          /\ hilo[h].fase = "marcando" => hilo[h].copia \subseteq Byte(hilo[h].marco_libre)

Tabla(p) == [i \in 1 .. paginas_actuales[p] |-> tabla_paginas[p][i - 1]]
Tablas == INSTANCE TablasDePaginas WITH tablas <- [p \in Pid |-> Tabla(p)]

(* Whatever grew, shrank and was destroyed before, the tables implement    *)
(* TablasDePaginas; in particular RESIZE fails only with all frames taken. *)
Implementa == Tablas!Spec

(* Once every process is destroyed the bitmap is empty.                    *)
BitmapVacio == procesos = {} /\ Libre("kernel") /\ Libre("cpu") => marcos = {}
=============================================================================
