----------------------------- MODULE Traduccion -----------------------------
(***************************************************************************)
(* The MMU (componente_mmu, instruccion_resize of cpu/src/main.c) over the *)
(* page tables of the memory module, as TablasDePaginas promises them: the *)
(* CPU caches translations of tables that RESIZE and the kernel change.    *)
(* Nothing ever removes a row from the TLB.                                *)
(***************************************************************************)
EXTENDS Tlb

CONSTANT
  Disciplina      \* TRUE: programs only use pages they have, and never give them back

ASSUME DisciplinaOK == Disciplina \in BOOLEAN

VARIABLES tablas, resultado,
          terminados   \* processes the kernel has finished

Memoria == INSTANCE TablasDePaginas

todo == <<vars, tablas, resultado, terminados>>

\* obtener_marco of memoria/src/main.c indexes the table unchecked: out of
\* the process's pages it gives what borrar_paginas or malloc left there.
obtener_marco(p, g, m) == g < Len(tablas[p]) => m = tablas[p][g + 1]

Traducir(p, g) ==
  /\ p \notin terminados
  /\ Disciplina => g < Len(tablas[p])
  /\ instante_referencia < MaxInstante
  /\ conseguir_marco_en_la_tlb(p, g) \/ \E m \in Marco : obtener_marco(p, g, m) /\ PedirMarco(p, g, m)
  /\ UNCHANGED <<ALGORITMO_TLB, tablas, resultado, terminados>>

\* One page of instruccion_resize: no lookup happens before it ends.
Redimensionar(p) ==
  /\ p \notin terminados
  /\ Memoria!Ampliar(p) \/ (~Disciplina /\ Memoria!Reducir(p))
  /\ UNCHANGED <<vars, terminados>>

\* The kernel finishes p; borrar_paginas returns its frames one by one.
Terminar(p) ==
  /\ p \notin terminados
  /\ terminados' = terminados \cup {p}
  /\ UNCHANGED <<vars, tablas, resultado>>

Devolver(p) ==
  /\ p \in terminados
  /\ Memoria!Reducir(p)
  /\ UNCHANGED <<vars, terminados>>

InitT == Init /\ Memoria!Init /\ terminados = {}

NextT == \E p \in Pid : \/ \E g \in Pagina : Traducir(p, g)
                        \/ Redimensionar(p)
                        \/ Terminar(p)
                        \/ Devolver(p)

SpecT == InitT /\ [][NextT]_todo

-----------------------------------------------------------------------------
(* A row of a page that a live process has names the frame that the memory *)
(* assigned to it, however its table and those of others changed since.    *)
Vigente(i) ==
  TLB[i].PID \in Pid \ terminados /\ TLB[i].nro_pag < Len(tablas[TLB[i].PID])
    => TLB[i].nro_marco = tablas[TLB[i].PID][TLB[i].nro_pag + 1]
FilasVigentes == \A i \in Fila : Vigente(i)

(* A lookup of a page the process has gives the frame of that page.        *)
TraduccionCorrecta ==
  [][\A p \in Pid, g \in Pagina :
       Traducir(p, g) /\ g < Len(tablas[p]) => marco' = tablas[p][g + 1]]_todo
=============================================================================
