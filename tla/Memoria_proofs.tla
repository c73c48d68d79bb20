--------------------------- MODULE Memoria_proofs ---------------------------
(***************************************************************************)
(* Proofs about Memoria: for any number of processes, of frames and of     *)
(* frames per byte, a frame that no late write of a byte undid is in the   *)
(* bitmap when a page has it, and one page has it.                         *)
(***************************************************************************)
EXTENDS Memoria, FiniteSetTheorems, SequenceTheorems, TLAPS

TipoHilo == [fase: Fase, pid: Pid, i: Int, hasta: Nat,
             marco_libre: 0 .. CantMarcos, copia: SUBSET Marco]

(* When the threads take turns, the byte read is still the bitmap's.       *)
EnSerie ==
  ~BorradoConcurrente =>
    \A h \in Hilo :
      /\ hilo[h].fase = "limpiando"
           => hilo[h].copia = marcos \cap Byte(tabla_paginas[hilo[h].pid][hilo[h].i])
      /\ hilo[h].fase = "marcando" => hilo[h].copia = marcos \cap Byte(hilo[h].marco_libre)

IInv == TypeOK /\ MarcosDisjuntos /\ BitmapCoherente /\ HilosCoherentes /\ EnSerie

(* The bit of a frame is in the byte that is read to change it.            *)
LEMMA ByteDelMarco == \A m \in Marco : m \in Byte(m) /\ Byte(m) \subseteq Marco
  BY DEF Byte

(* bitarray_clean_bit and bitarray_set_bit change the bit of f; of the     *)
(* other bits they only change, and mark as undone, those that were not as *)
(* they had been read.                                                     *)
LEMMA Escrito ==
  ASSUME TypeOK, NEW h \in Hilo, NEW f \in Marco, NEW byte \in SUBSET Byte(f),
         hilo[h].copia \subseteq Byte(f),
         \A m \in Byte(f) \ {f} : m \in byte <=> m \in hilo[h].copia,
         Escribir(h, f, byte)
  PROVE  /\ marcos' \in SUBSET Marco /\ pisados' \in SUBSET Marco /\ pisados \subseteq pisados'
         /\ f \in marcos' <=> f \in byte
         /\ \A m \in Marco : m # f /\ m \notin pisados' => (m \in marcos' <=> m \in marcos)
         /\ hilo[h].copia = marcos \cap Byte(f) => pisados' = pisados
  BY ByteDelMarco DEF Escribir, TypeOK

(* The frames of a process and one that backs no page are at most all the  *)
(* frames: agregar_paginas never writes beyond the table.                  *)
LEMMA HayLugar ==
  ASSUME TypeOK, MarcosDisjuntos, BitmapCoherente, pisados = {},
         NEW p \in Pid, NEW f \in Marco, f \notin marcos
  PROVE  paginas_actuales[p] < CantMarcos
  <1> DEFINE n == paginas_actuales[p]
             g == [i \in 0 .. n - 1 |-> tabla_paginas[p][i]]
  <1>1. n \in 0 .. CantMarcos /\ CantMarcos \in Nat \ {0}
      BY ConstantesOK DEF TypeOK
  <1>2. \A i \in 0 .. n - 1 : i \in Marco
      BY <1>1 DEF Marco
  <1>3. \A i \in 0 .. n - 1 : tabla_paginas[p][i] \in Marco \ {f}
      BY <1>2 DEF TypeOK, BitmapCoherente, Respaldan, Paginas
  <1>4. \A i, j \in 0 .. n - 1 : tabla_paginas[p][i] = tabla_paginas[p][j] => i = j
      BY DEF MarcosDisjuntos, Paginas
  <1>5. g \in Injection(0 .. n - 1, Marco \ {f})
      BY <1>3, <1>4 DEF Injection, IsInjective
  <1>6. IsFiniteSet(Marco) /\ Cardinality(Marco) = CantMarcos
    <2>1. 0 \in Int /\ CantMarcos - 1 \in Int /\ ~(0 > CantMarcos - 1)
        BY <1>1
    <2>2. IsFiniteSet(0 .. CantMarcos - 1)
        BY <2>1, FS_Interval
    <2>3. Cardinality(0 .. CantMarcos - 1) = (CantMarcos - 1) - 0 + 1
        BY <2>1, FS_Interval
    <2>4. (CantMarcos - 1) - 0 + 1 = CantMarcos
        BY <1>1
    <2> QED BY <2>2, <2>3, <2>4 DEF Marco
  <1>7. IsFiniteSet(Marco \ {f}) /\ Cardinality(Marco \ {f}) = CantMarcos - 1
      BY <1>6, FS_RemoveElement
  <1>8. Cardinality(0 .. n - 1) = n
    <2>1. 0 \in Int /\ n - 1 \in Int /\ (0 > n - 1 => n = 0) /\ (n - 1) - 0 + 1 = n
        BY <1>1
    <2>2. Cardinality(0 .. n - 1) = IF 0 > n - 1 THEN 0 ELSE (n - 1) - 0 + 1
        BY <2>1, FS_Interval
    <2> QED BY <2>1, <2>2
  <1>9. Cardinality(0 .. n - 1) <= Cardinality(Marco \ {f})
      BY <1>5, <1>7, FS_Injection
  <1> QED BY <1>1, <1>7, <1>8, <1>9

LEMMA InicioIInv == Init => IInv
  <1> SUFFICES ASSUME Init PROVE IInv
      OBVIOUS
  <1>1. TypeOK
      BY ConstantesOK DEF Init, TypeOK, Hilo, Fase, Marco
  <1>2. \A p \in Pid : Paginas(p) = {}
      BY DEF Init, Paginas
  <1>3. MarcosDisjuntos
      BY <1>2 DEF MarcosDisjuntos
  <1>4. BitmapCoherente
      BY <1>2 DEF BitmapCoherente, Respaldan, Init
  <1>5. HilosCoherentes
      BY DEF Init, HilosCoherentes, Libre, Hilo
  <1>6. EnSerie
      BY DEF Init, EnSerie
  <1> QED BY <1>1, <1>3, <1>4, <1>5, <1>6 DEF IInv

(* Steps that leave the tables and the bitmap alone.                       *)
LEMMA MismasTablas ==
  ASSUME IInv, UNCHANGED <<paginas_actuales, tabla_paginas, marcos, pisados>>
  PROVE  MarcosDisjuntos' /\ BitmapCoherente'
  BY DEF IInv, MarcosDisjuntos, BitmapCoherente, Respaldan, Paginas

LEMMA CrearIInv ==
  ASSUME IInv, NEW p \in Pid, NEW abre \in BOOLEAN, crear_proceso(p, abre)
  PROVE  IInv'
  <1> USE DEF IInv
  <1>1. TypeOK'
      BY ConstantesOK DEF crear_proceso, TypeOK
  <1>2. HilosCoherentes'
      BY DEF crear_proceso, HilosCoherentes, Hilo, Libre, TypeOK, Byte
  <1>3. UNCHANGED <<paginas_actuales, tabla_paginas, marcos, pisados>>
      BY DEF crear_proceso, HilosCoherentes, TypeOK
  <1>4. EnSerie'
      BY DEF EnSerie, crear_proceso, TypeOK, Hilo, Libre, HilosCoherentes
  <1> QED BY <1>1, <1>2, <1>3, <1>4, MismasTablas

LEMMA DestruirIInv ==
  ASSUME IInv, NEW p \in Pid, destruir_proceso(p)
  PROVE  IInv'
  <1> USE DEF IInv
  <1>1. TypeOK'
    <2>1. paginas_actuales[p] - 1 \in Int
        BY ConstantesOK DEF TypeOK
    <2>2. procesos' \in SUBSET creados'
        BY DEF destruir_proceso, TypeOK
    <2>3. [hilo["kernel"] EXCEPT !.fase = "limpiar", !.pid = p,
                                 !.i = paginas_actuales[p] - 1, !.hasta = 0] \in TipoHilo
        BY <2>1 DEF TypeOK, Hilo, Fase, TipoHilo
    <2> QED BY <2>2, <2>3 DEF destruir_proceso, TypeOK, TipoHilo, Hilo
  <1>2. HilosCoherentes'
      BY DEF destruir_proceso, HilosCoherentes, Hilo, Libre, TypeOK, Byte, Fase
  <1>3. UNCHANGED <<paginas_actuales, tabla_paginas, marcos, pisados>>
      BY DEF destruir_proceso
  <1>4. EnSerie'
      BY DEF EnSerie, destruir_proceso, TypeOK, Hilo, Libre, HilosCoherentes
  <1> QED BY <1>1, <1>2, <1>3, <1>4, MismasTablas

LEMMA ModificarIInv ==
  ASSUME IInv, NEW p \in Pid, NEW n \in Tamanios, modificar_tamanio_proceso(p, n)
  PROVE  IInv'
  <1> USE DEF IInv
  <1>0. n \in Nat
      BY ConstantesOK
  <1>1. TypeOK'
    <2>1. paginas_actuales[p] \in Int /\ paginas_actuales[p] - 1 \in Int
        BY ConstantesOK DEF TypeOK
    <2>2. 0 \in 0 .. CantMarcos
        BY ConstantesOK
    <2>3. [hilo["cpu"] EXCEPT !.fase = "limpiar", !.pid = p,
                              !.i = paginas_actuales[p] - 1, !.hasta = n] \in TipoHilo
        BY <1>0, <2>1 DEF TypeOK, Hilo, Fase, TipoHilo
    <2>4. [hilo["cpu"] EXCEPT !.fase = "buscar", !.pid = p, !.i = paginas_actuales[p],
                              !.hasta = n, !.marco_libre = 0] \in TipoHilo
        BY <1>0, <2>1, <2>2 DEF TypeOK, Hilo, Fase, TipoHilo
    <2> QED BY <2>3, <2>4 DEF modificar_tamanio_proceso, TypeOK, TipoHilo, Hilo
  <1>2. HilosCoherentes'
      BY <1>0 DEF modificar_tamanio_proceso, HilosCoherentes, Hilo, Libre, TypeOK, Byte, Fase
  <1>3. UNCHANGED <<paginas_actuales, tabla_paginas, marcos, pisados>>
      BY DEF modificar_tamanio_proceso
  <1>4. EnSerie'
      BY DEF EnSerie, modificar_tamanio_proceso, TypeOK, Hilo, Libre, HilosCoherentes
  <1> QED BY <1>1, <1>2, <1>3, <1>4, MismasTablas

(* What HilosCoherentes says of the locals of one thread.                  *)
Locales(x) ==
  LET p == hilo[x].pid
      f == tabla_paginas[p][hilo[x].i]
  IN /\ hilo[x].fase \in {"limpiar", "limpiando"} => hilo[x].i = paginas_actuales[p] - 1
     /\ hilo[x].fase = "limpiando" => hilo[x].i >= hilo[x].hasta /\ hilo[x].copia \subseteq Byte(f)
     /\ hilo[x].fase \in {"buscar", "marcar", "marcando"} => hilo[x].i = paginas_actuales[p]
     /\ hilo[x].fase \in {"marcar", "marcando"} => hilo[x].marco_libre \in Marco \ (marcos \ pisados)
     /\ hilo[x].fase = "marcando" => hilo[x].copia \subseteq Byte(hilo[x].marco_libre)

LEMMA LeerParaLimpiarIInv ==
  ASSUME IInv, NEW h \in Hilo, LeerParaLimpiar(h)
  PROVE  IInv'
  <1> USE DEF IInv
  <1>1. TypeOK'
      BY ConstantesOK DEF LeerParaLimpiar, TypeOK, Hilo, Fase, Byte
  <1>2. HilosCoherentes'
    <2> DEFINE f == tabla_paginas[hilo[h].pid][hilo[h].i]
    <2>1. /\ hilo[h].fase = "limpiar" /\ hilo[h].i >= hilo[h].hasta
          /\ hilo' = [hilo EXCEPT ![h] = [@ EXCEPT !.fase = "limpiando", !.copia = marcos \cap Byte(f)]]
          /\ UNCHANGED <<creados, procesos, paginas_actuales, tabla_paginas, marcos, pisados>>
        BY DEF LeerParaLimpiar
    <2>2. /\ hilo'[h].fase = "limpiando" /\ hilo'[h].copia = marcos \cap Byte(f)
          /\ hilo'[h].pid = hilo[h].pid /\ hilo'[h].i = hilo[h].i
          /\ hilo'[h].hasta = hilo[h].hasta
          /\ \A x \in Hilo \ {h} : hilo'[x] = hilo[x]
        BY <2>1 DEF TypeOK
    <2>3. \A x \in Hilo : Locales(x)
        BY DEF HilosCoherentes, Locales
    <2>4. Locales(h)'
        BY <2>1, <2>2, <2>3 DEF Locales, Byte
    <2>5. \A x \in Hilo \ {h} : Locales(x)'
        BY <2>1, <2>2, <2>3 DEF Locales, Byte
    <2>6. \A x \in Hilo : hilo'[x].pid = hilo[x].pid /\ hilo'[x].hasta = hilo[x].hasta
                         /\ (Libre(x)' <=> Libre(x))
        BY <2>1, <2>2 DEF Libre
    <2>7. hilo'["kernel"].fase \in {"libre", "limpiar", "limpiando"}
        BY <2>2 DEF HilosCoherentes, Hilo
    <2> QED BY <2>1, <2>4, <2>5, <2>6, <2>7 DEF HilosCoherentes, Locales, Libre, Hilo
  <1>3. UNCHANGED <<paginas_actuales, tabla_paginas, marcos, pisados>>
      BY DEF LeerParaLimpiar
  <1>4. EnSerie'
      BY DEF EnSerie, LeerParaLimpiar, TypeOK, Hilo, Libre, HilosCoherentes
  <1> QED BY <1>1, <1>2, <1>3, <1>4, MismasTablas

LEMMA FinBorradoIInv ==
  ASSUME IInv, NEW h \in Hilo, FinBorrado(h)
  PROVE  IInv'
  <1> USE DEF IInv
  <1>1. TypeOK'
      BY DEF FinBorrado, Responder, TypeOK, Hilo, Fase
  <1>2. HilosCoherentes'
      BY DEF FinBorrado, HilosCoherentes, Hilo, Libre, TypeOK, Byte, Fase
  <1>3. UNCHANGED <<paginas_actuales, tabla_paginas, marcos, pisados>>
      BY DEF FinBorrado
  <1>4. EnSerie'
      BY DEF EnSerie, FinBorrado, TypeOK, Hilo, Libre, HilosCoherentes
  <1> QED BY <1>1, <1>2, <1>3, <1>4, MismasTablas

LEMMA BuscarIInv ==
  ASSUME IInv, MirarMarco \/ SinMarcos \/ LeerParaMarcar \/ FinAgregado \/ EscribirFuera
  PROVE  IInv'
  <1> USE DEF IInv
  <1>1. TypeOK'
    <2>1. CASE MirarMarco
      <3>1. hilo["cpu"] \in TipoHilo
          BY DEF TypeOK, Hilo, TipoHilo
      <3>2. hilo["cpu"].marco_libre + 1 \in 0 .. CantMarcos
          BY <2>1, <3>1, ConstantesOK DEF MirarMarco, TipoHilo
      <3>3. hilo'["cpu"] \in TipoHilo
        <4>1. [hilo["cpu"] EXCEPT !.marco_libre = hilo["cpu"].marco_libre + 1] \in TipoHilo
            BY <3>1, <3>2 DEF TipoHilo
        <4>2. [hilo["cpu"] EXCEPT !.fase = "marcar"] \in TipoHilo
            BY <3>1 DEF TipoHilo, Fase
        <4>3. hilo'["cpu"] = IF hilo["cpu"].marco_libre \in marcos
                             THEN [hilo["cpu"] EXCEPT !.marco_libre = hilo["cpu"].marco_libre + 1]
                             ELSE [hilo["cpu"] EXCEPT !.fase = "marcar"]
            BY <2>1 DEF MirarMarco, TypeOK, Hilo
        <4> QED BY <4>1, <4>2, <4>3
      <3>4. hilo' = [hilo EXCEPT !["cpu"] = hilo'["cpu"]]
          BY <2>1 DEF MirarMarco, TypeOK, Hilo
      <3> QED BY <2>1, <3>3, <3>4 DEF MirarMarco, TypeOK, Hilo, TipoHilo
    <2>2. CASE SinMarcos
        BY <2>2 DEF SinMarcos, Falta, Responder, TypeOK, Hilo, Fase
    <2>3. CASE LeerParaMarcar
        BY <2>3 DEF LeerParaMarcar, TypeOK, Hilo, Fase, Byte
    <2>4. CASE FinAgregado
        BY <2>4 DEF FinAgregado, Responder, TypeOK, Hilo, Fase
    <2>5. CASE EscribirFuera
        BY <2>5 DEF EscribirFuera, TypeOK, Hilo, Fase
    <2> QED BY <2>1, <2>2, <2>3, <2>4, <2>5
  <1>2. HilosCoherentes'
    <2> USE DEF HilosCoherentes, Hilo, Libre, TypeOK, Byte, Fase
    <2>1. CASE MirarMarco
        BY <2>1, ConstantesOK DEF MirarMarco, Falta, Marco
    <2>2. CASE SinMarcos
        BY <2>2 DEF SinMarcos, Falta
    <2>3. CASE LeerParaMarcar
        BY <2>3 DEF LeerParaMarcar
    <2>4. CASE FinAgregado
        BY <2>4 DEF FinAgregado
    <2>5. CASE EscribirFuera
      <3> DEFINE p == hilo["cpu"].pid
                 v == hilo["cpu"].marco_libre
      <3>1. /\ hilo["cpu"].fase = "marcando" /\ hilo["cpu"].i = paginas_actuales[p] /\ p \in Pid
            /\ v \in Marco \ (marcos \ pisados) /\ paginas_actuales[p] \in 0 .. CantMarcos
          BY <2>5 DEF EscribirFuera
      <3>2. pisados = {} => paginas_actuales[p] < CantMarcos
          BY <3>1, HayLugar
      <3>3. pisados # {}
          BY <2>5, <3>1, <3>2, ConstantesOK DEF EscribirFuera, Marco
      <3> QED BY <2>5, <3>3 DEF EscribirFuera
    <2> QED BY <2>1, <2>2, <2>3, <2>4, <2>5
  <1>3. UNCHANGED <<paginas_actuales, tabla_paginas, marcos, pisados>>
      BY DEF MirarMarco, SinMarcos, LeerParaMarcar, FinAgregado, EscribirFuera
  <1>4. EnSerie'
    <2> USE DEF EnSerie, TypeOK, Hilo
    <2>1. CASE MirarMarco
        BY <2>1 DEF MirarMarco, Falta
    <2>2. CASE SinMarcos \/ FinAgregado
        BY <2>2 DEF SinMarcos, FinAgregado, Falta
    <2>3. CASE LeerParaMarcar
        BY <2>3 DEF LeerParaMarcar
    <2>4. CASE EscribirFuera
        BY <2>4 DEF EscribirFuera
    <2> QED BY <2>1, <2>2, <2>3, <2>4
  <1> QED BY <1>1, <1>2, <1>3, <1>4, MismasTablas

(* The step of borrar_paginas that frees the frame of the last page.       *)
LEMMA EscribirLimpioIInv ==
  ASSUME IInv, NEW h \in Hilo, EscribirLimpio(h)
  PROVE  IInv'
  <1> USE DEF IInv
  <1> SUFFICES ASSUME NEW p, p = hilo[h].pid, NEW k, k = hilo[h].i,
                      NEW f, f = tabla_paginas[p][k]
               PROVE  IInv'
      OBVIOUS
  <1>1. /\ hilo[h] \in TipoHilo /\ p \in Pid /\ k \in Int
        /\ paginas_actuales[p] \in 0 .. CantMarcos /\ CantMarcos \in Nat
      BY ConstantesOK DEF TypeOK, TipoHilo
  <1>2. k = paginas_actuales[p] - 1 /\ k \in Marco /\ k \in Paginas(p) /\ p \in creados
    <2>1. k = paginas_actuales[p] - 1 /\ k >= hilo[h].hasta /\ hilo[h].hasta \in Nat
        BY <1>1 DEF HilosCoherentes, EscribirLimpio, TipoHilo
    <2>2. p \in creados
        BY DEF HilosCoherentes, EscribirLimpio, TypeOK, Libre, Hilo
    <2> QED BY <1>1, <2>1, <2>2 DEF Marco, Paginas
  <1>3. f \in Marco
      BY <1>1, <1>2 DEF TypeOK
  <1>4. /\ marcos' \in SUBSET Marco /\ pisados' \in SUBSET Marco /\ pisados \subseteq pisados'
        /\ f \notin marcos'
        /\ \A m \in Marco : m # f /\ m \notin pisados' => (m \in marcos' <=> m \in marcos)
        /\ hilo[h].copia = marcos \cap Byte(f) => pisados' = pisados
    <2>1. hilo[h].copia \subseteq Byte(f) /\ hilo[h].copia \ {f} \in SUBSET Byte(f)
        BY DEF HilosCoherentes, EscribirLimpio
    <2>2. Escribir(h, f, hilo[h].copia \ {f})
        BY DEF EscribirLimpio
    <2> QED BY <1>3, <2>1, <2>2, Escrito
  <1>5. /\ paginas_actuales' = [paginas_actuales EXCEPT ![p] = k]
        /\ tabla_paginas' = [tabla_paginas EXCEPT ![p] = [@ EXCEPT ![k] = 0]]
        /\ hilo' = [hilo EXCEPT ![h] = [@ EXCEPT !.fase = "limpiar", !.i = k - 1, !.copia = {}]]
        /\ UNCHANGED <<creados, procesos, resultado>>
    <2>1. paginas_actuales' = [paginas_actuales EXCEPT ![p] = paginas_actuales[p] - 1]
        BY DEF EscribirLimpio
    <2>2. /\ tabla_paginas' = [tabla_paginas EXCEPT ![p] = [@ EXCEPT ![k] = 0]]
          /\ hilo' = [hilo EXCEPT ![h] = [@ EXCEPT !.fase = "limpiar", !.i = k - 1, !.copia = {}]]
          /\ UNCHANGED <<creados, procesos, resultado>>
        BY <1>1 DEF EscribirLimpio, TipoHilo, TypeOK
    <2> QED BY <1>2, <2>1, <2>2
  <1>6. TypeOK'
    <2>1. 0 \in Marco /\ k \in 0 .. CantMarcos /\ k - 1 \in Int
        BY <1>1, <1>2, ConstantesOK DEF Marco
    <2>2. paginas_actuales' \in [Pid -> 0 .. CantMarcos]
        BY <1>5, <2>1 DEF TypeOK
    <2>3. tabla_paginas' \in [Pid -> [Marco -> Marco]]
        BY <1>1, <1>5, <2>1 DEF TypeOK
    <2>4. [hilo[h] EXCEPT !.fase = "limpiar", !.i = k - 1, !.copia = {}] \in TipoHilo
        BY <1>1, <2>1 DEF TipoHilo, Fase
    <2>5. hilo' \in [Hilo -> TipoHilo]
        BY <1>5, <2>4 DEF TypeOK, TipoHilo
    <2> QED BY <1>4, <1>5, <2>2, <2>3, <2>5 DEF TypeOK, TipoHilo
  \* The pages that stay are those before the last, as they were.
  <1>7. \A q \in Pid : /\ Paginas(q)' = Paginas(q) \ (IF q = p THEN {k} ELSE {})
                       /\ \A i \in Paginas(q)' : tabla_paginas'[q][i] = tabla_paginas[q][i]
    <2>1. Paginas(p)' = 0 .. k - 1
        BY <1>1, <1>5 DEF Paginas, TypeOK
    <2>2. Paginas(p) = 0 .. k
        BY <1>1, <1>2 DEF Paginas
    <2>3. Paginas(p)' = Paginas(p) \ {k}
      <3>1. k \in Nat
          BY <1>2 DEF Marco
      <3>2. 0 .. k - 1 = (0 .. k) \ {k}
          BY <3>1
      <3> QED BY <2>1, <2>2, <3>2
    <2>4. \A i \in Paginas(p)' : tabla_paginas'[p][i] = tabla_paginas[p][i]
        BY <1>1, <1>5, <2>3 DEF TypeOK
    <2>5. \A q \in Pid \ {p} : /\ Paginas(q)' = Paginas(q)
                               /\ tabla_paginas'[q] = tabla_paginas[q]
        BY <1>1, <1>5 DEF TypeOK, Paginas
    <2> TAKE q \in Pid
    <2>6. CASE q = p
        BY <2>3, <2>4, <2>6
    <2>7. CASE q # p
        BY <2>5, <2>7
    <2> QED BY <2>6, <2>7
  <1>8. MarcosDisjuntos'
    <2> SUFFICES ASSUME NEW q \in Pid, NEW r \in Pid,
                        NEW i \in Paginas(q)', NEW j \in Paginas(r)',
                        tabla_paginas'[q][i] = tabla_paginas'[r][j],
                        tabla_paginas'[q][i] \notin pisados'
                 PROVE  q = r /\ i = j
        BY DEF MarcosDisjuntos
    <2>1. /\ i \in Paginas(q) /\ j \in Paginas(r)
          /\ tabla_paginas[q][i] = tabla_paginas[r][j] /\ tabla_paginas[q][i] \notin pisados
        BY <1>4, <1>7
    <2>2. \A u, v \in Pid : \A x \in Paginas(u), y \in Paginas(v) :
            tabla_paginas[u][x] = tabla_paginas[v][y] /\ tabla_paginas[u][x] \notin pisados
              => u = v /\ x = y
        BY DEF MarcosDisjuntos
    <2> QED BY <2>1, <2>2
  <1>9. BitmapCoherente'
    <2>1. f \notin pisados => f \notin Respaldan'
        BY <1>1, <1>2, <1>7 DEF Respaldan, MarcosDisjuntos
    <2>2. \A m \in Marco \ {f} : m \in Respaldan' <=> m \in Respaldan
        BY <1>1, <1>7 DEF Respaldan
    <2>3. ~BorradoConcurrente => pisados' = {}
        BY <1>4 DEF BitmapCoherente, EnSerie, EscribirLimpio
    <2> QED BY <1>4, <2>1, <2>2, <2>3 DEF BitmapCoherente
  <1>10. HilosCoherentes'
    <2> DEFINE o == IF h = "cpu" THEN "kernel" ELSE "cpu"
    <2>1. o \in Hilo /\ o # h /\ Hilo = {h, o} /\ hilo'[o] = hilo[o]
        BY <1>5 DEF Hilo, TypeOK
    <2>2. /\ hilo'[h].fase = "limpiar" /\ hilo'[h].pid = p
          /\ hilo'[h].i = k - 1 /\ hilo'[h].hasta = hilo[h].hasta
        BY <1>1, <1>5 DEF TypeOK, TipoHilo
    <2>3. \A q \in Pid \ creados' : paginas_actuales'[q] = 0
        BY <1>2, <1>5 DEF HilosCoherentes, TypeOK
    <2>4. /\ hilo["kernel"].fase \in {"libre", "limpiar", "limpiando"}
          /\ ~Libre("kernel") => hilo["kernel"].pid \in creados \ procesos /\ hilo["kernel"].hasta = 0
          /\ ~Libre("cpu") => hilo["cpu"].pid \in procesos /\ (Libre("kernel") \/ BorradoConcurrente)
          /\ hilo["cpu"].fase = "caido" => pisados # {}
        BY DEF HilosCoherentes
    <2>5. hilo[h].fase = "limpiando"
        BY DEF EscribirLimpio
    <2>6. /\ hilo'["kernel"].fase \in {"libre", "limpiar", "limpiando"}
          /\ ~Libre("kernel")' => hilo'["kernel"].pid \in creados' \ procesos' /\ hilo'["kernel"].hasta = 0
          /\ ~Libre("cpu")' => hilo'["cpu"].pid \in procesos' /\ (Libre("kernel")' \/ BorradoConcurrente)
          /\ hilo'["cpu"].fase = "caido" => pisados' # {}
        BY <1>4, <1>5, <2>1, <2>2, <2>4, <2>5 DEF Libre, Hilo
    <2>7. CASE hilo[o].fase = "libre"
        BY <1>1, <1>5, <2>1, <2>2, <2>3, <2>6, <2>7 DEF HilosCoherentes, TypeOK
    <2>8. CASE hilo[o].fase # "libre"
      <3> DEFINE q == hilo[o].pid
                 g == tabla_paginas[q][hilo[o].i]
                 v == hilo[o].marco_libre
      <3>1. q \in Pid /\ q # p
          BY <2>1, <2>4, <2>5, <2>8 DEF Libre, Hilo, TypeOK
      <3>2. paginas_actuales'[q] = paginas_actuales[q] /\ tabla_paginas'[q] = tabla_paginas[q]
          BY <1>1, <1>5, <3>1 DEF TypeOK
      <3>3. hilo[o].fase \in {"marcar", "marcando"} => v \in Marco \ (marcos' \ pisados')
        <4>1. hilo[o].fase \in {"marcar", "marcando"} => v \in Marco \ (marcos \ pisados)
            BY <2>1 DEF HilosCoherentes
        <4> QED BY <1>4, <4>1
      <3>8. /\ hilo'[o].fase \in {"limpiar", "limpiando"} => hilo'[o].i = paginas_actuales'[q] - 1
            /\ hilo'[o].fase = "limpiando" => hilo'[o].i >= hilo'[o].hasta /\ hilo'[o].copia \subseteq Byte(g)
            /\ hilo'[o].fase \in {"buscar", "marcar", "marcando"} => hilo'[o].i = paginas_actuales'[q]
            /\ hilo'[o].fase \in {"marcar", "marcando"} => hilo'[o].marco_libre \in Marco \ (marcos' \ pisados')
            /\ hilo'[o].fase = "marcando" => hilo'[o].copia \subseteq Byte(v)
          BY <2>1, <3>2, <3>3 DEF HilosCoherentes
      <3>9. paginas_actuales'[p] = k
          BY <1>1, <1>5 DEF TypeOK
      <3>10. Locales(h)'
          BY <2>2, <3>9 DEF Locales
      <3>11. hilo'[o].pid = q /\ tabla_paginas'[q][hilo'[o].i] = g /\ hilo'[o].marco_libre = v
          BY <2>1, <3>2
      <3>12. Locales(o)'
          BY <3>8, <3>11 DEF Locales, Byte
      <3>13. \A x \in Hilo : Locales(x)'
          BY <2>1, <3>10, <3>12
      <3> QED BY <2>3, <2>6, <3>13 DEF HilosCoherentes, Locales
    <2> QED BY <2>7, <2>8
  <1>11. EnSerie'
    <2> SUFFICES ASSUME ~BorradoConcurrente PROVE EnSerie'
        BY DEF EnSerie
    <2>1. \A x \in Hilo : hilo'[x].fase \notin {"limpiando", "marcando"}
      <3>1. \A x \in Hilo \ {h} : hilo[x].fase = "libre" /\ hilo'[x] = hilo[x]
          BY <1>5 DEF HilosCoherentes, EscribirLimpio, Libre, Hilo, TypeOK
      <3>2. hilo'[h].fase = "limpiar"
          BY <1>1, <1>5 DEF TypeOK, TipoHilo
      <3> QED BY <3>1, <3>2
    <2> QED BY <2>1 DEF EnSerie
  <1> QED BY <1>6, <1>8, <1>9, <1>10, <1>11

(* The step of agregar_paginas that gives the frame found to a new page.   *)
LEMMA EscribirMarcadoIInv ==
  ASSUME IInv, EscribirMarcado
  PROVE  IInv'
  <1> USE DEF IInv
  <1> SUFFICES ASSUME NEW p, p = hilo["cpu"].pid, NEW k, k = hilo["cpu"].i,
                      NEW f, f = hilo["cpu"].marco_libre
               PROVE  IInv'
      OBVIOUS
  <1>1. /\ hilo["cpu"] \in TipoHilo /\ p \in Pid /\ k \in Int
        /\ paginas_actuales[p] \in 0 .. CantMarcos /\ CantMarcos \in Nat
      BY ConstantesOK DEF TypeOK, TipoHilo, Hilo
  <1>2. /\ k = paginas_actuales[p] /\ p \in procesos /\ p \in creados
        /\ f \in Marco \ (marcos \ pisados) /\ hilo["cpu"].fase = "marcando"
        /\ hilo["cpu"].copia \subseteq Byte(f) /\ k \in Marco
      BY DEF HilosCoherentes, EscribirMarcado, Libre, Hilo, TypeOK
  <1>3. k \in Marco /\ k + 1 \in 0 .. CantMarcos
      BY <1>1, <1>2 DEF Marco
  <1>4. /\ marcos' \in SUBSET Marco /\ pisados' \in SUBSET Marco /\ pisados \subseteq pisados'
        /\ f \in marcos'
        /\ \A m \in Marco : m # f /\ m \notin pisados' => (m \in marcos' <=> m \in marcos)
        /\ hilo["cpu"].copia = marcos \cap Byte(f) => pisados' = pisados
    <2>1. hilo["cpu"].copia \cup {f} \in SUBSET Byte(f) /\ "cpu" \in Hilo
        BY <1>2, ByteDelMarco DEF Hilo
    <2>2. Escribir("cpu", f, hilo["cpu"].copia \cup {f})
        BY DEF EscribirMarcado
    <2> QED BY <1>2, <2>1, <2>2, Escrito
  <1>5. /\ paginas_actuales' = [paginas_actuales EXCEPT ![p] = k + 1]
        /\ tabla_paginas' = [tabla_paginas EXCEPT ![p] = [@ EXCEPT ![k] = f]]
        /\ hilo' = [hilo EXCEPT !["cpu"] = [@ EXCEPT !.fase = "buscar", !.i = k + 1,
                                                     !.marco_libre = 0, !.copia = {}]]
        /\ UNCHANGED <<creados, procesos, resultado>>
    <2>1. paginas_actuales' = [paginas_actuales EXCEPT ![p] = paginas_actuales[p] + 1]
        BY DEF EscribirMarcado
    <2>2. /\ tabla_paginas' = [tabla_paginas EXCEPT ![p] = [@ EXCEPT ![k] = f]]
          /\ hilo' = [hilo EXCEPT !["cpu"] = [@ EXCEPT !.fase = "buscar", !.i = k + 1,
                                                       !.marco_libre = 0, !.copia = {}]]
          /\ UNCHANGED <<creados, procesos, resultado>>
        BY DEF EscribirMarcado
    <2> QED BY <1>2, <2>1, <2>2
  <1>6. TypeOK'
    <2>1. 0 \in 0 .. CantMarcos /\ k + 1 \in Int
        BY <1>1
    <2>2. paginas_actuales' \in [Pid -> 0 .. CantMarcos]
        BY <1>3, <1>5 DEF TypeOK
    <2>3. tabla_paginas' \in [Pid -> [Marco -> Marco]]
        BY <1>1, <1>2, <1>3, <1>5 DEF TypeOK
    <2>4. [hilo["cpu"] EXCEPT !.fase = "buscar", !.i = k + 1, !.marco_libre = 0, !.copia = {}]
             \in TipoHilo
        BY <1>1, <2>1 DEF TipoHilo, Fase
    <2>5. hilo' \in [Hilo -> TipoHilo]
        BY <1>5, <2>4 DEF TypeOK, TipoHilo
    <2> QED BY <1>2, <1>4, <1>5, <2>2, <2>3, <2>5 DEF TypeOK, TipoHilo
  \* The pages of before, as they were, and one more.
  <1>7. /\ Paginas(p)' = Paginas(p) \cup {k} /\ k \notin Paginas(p)
        /\ tabla_paginas'[p][k] = f
        /\ \A i \in Paginas(p) : tabla_paginas'[p][i] = tabla_paginas[p][i]
        /\ \A q \in Pid \ {p} : Paginas(q)' = Paginas(q) /\ tabla_paginas'[q] = tabla_paginas[q]
    <2>1. Paginas(p)' = 0 .. (k + 1) - 1
        BY <1>1, <1>5 DEF Paginas, TypeOK
    <2>2. Paginas(p) = 0 .. k - 1
        BY <1>2 DEF Paginas
    <2>3. k \in Nat
        BY <1>3 DEF Marco
    <2>4. 0 .. (k + 1) - 1 = (0 .. k - 1) \cup {k} /\ k \notin 0 .. k - 1
        BY <2>3
    <2>5. tabla_paginas'[p][k] = f
        BY <1>1, <1>3, <1>5 DEF TypeOK
    <2>6. \A i \in Paginas(p) : tabla_paginas'[p][i] = tabla_paginas[p][i]
        BY <1>1, <1>5, <2>2, <2>4 DEF TypeOK
    <2>7. \A q \in Pid \ {p} : Paginas(q)' = Paginas(q) /\ tabla_paginas'[q] = tabla_paginas[q]
        BY <1>1, <1>5 DEF TypeOK, Paginas
    <2> QED BY <2>1, <2>2, <2>4, <2>5, <2>6, <2>7
  <1>8. f \notin pisados => \A q \in Pid : \A i \in Paginas(q) : tabla_paginas[q][i] # f
      BY <1>2 DEF BitmapCoherente, Respaldan
  <1>9. MarcosDisjuntos'
    <2> SUFFICES ASSUME NEW q \in Pid, NEW r \in Pid,
                        NEW i \in Paginas(q)', NEW j \in Paginas(r)',
                        tabla_paginas'[q][i] = tabla_paginas'[r][j],
                        tabla_paginas'[q][i] \notin pisados'
                 PROVE  q = r /\ i = j
        BY DEF MarcosDisjuntos
    <2>1. \/ q = p /\ i = k
          \/ i \in Paginas(q) /\ tabla_paginas'[q][i] = tabla_paginas[q][i]
      <3>1. CASE q = p
          BY <1>7, <3>1 DEF Paginas
      <3>2. CASE q # p
          BY <1>7, <3>2 DEF Paginas
      <3> QED BY <3>1, <3>2
    <2>2. \/ r = p /\ j = k
          \/ j \in Paginas(r) /\ tabla_paginas'[r][j] = tabla_paginas[r][j]
      <3>1. CASE r = p
          BY <1>7, <3>1 DEF Paginas
      <3>2. CASE r # p
          BY <1>7, <3>2 DEF Paginas
      <3> QED BY <3>1, <3>2
    <2>3. CASE q = p /\ i = k
      <3>1. tabla_paginas'[r][j] = f /\ f \notin pisados
          BY <1>4, <1>7, <2>3
      <3> QED BY <1>8, <2>2, <2>3, <3>1
    <2>4. CASE r = p /\ j = k
      <3>1. tabla_paginas'[q][i] = f /\ f \notin pisados
          BY <1>4, <1>7, <2>4
      <3> QED BY <1>8, <2>1, <2>4, <3>1
    <2>5. CASE /\ i \in Paginas(q) /\ tabla_paginas'[q][i] = tabla_paginas[q][i]
               /\ j \in Paginas(r) /\ tabla_paginas'[r][j] = tabla_paginas[r][j]
      <3>1. tabla_paginas[q][i] = tabla_paginas[r][j] /\ tabla_paginas[q][i] \notin pisados
          BY <1>4, <2>5
      <3>2. i \in Paginas(q) /\ j \in Paginas(r)
          BY <2>5
      <3>3. \A u, v \in Pid : \A x \in Paginas(u), y \in Paginas(v) :
              tabla_paginas[u][x] = tabla_paginas[v][y] /\ tabla_paginas[u][x] \notin pisados
                => u = v /\ x = y
          BY DEF MarcosDisjuntos
      <3> QED BY <3>1, <3>2, <3>3
    <2> QED BY <2>1, <2>2, <2>3, <2>4, <2>5
  <1>10. BitmapCoherente'
    <2>1. f \in Respaldan'
        BY <1>1, <1>2, <1>7 DEF Respaldan
    <2>2. \A m \in Marco \ {f} : m \in Respaldan' <=> m \in Respaldan
        BY <1>1, <1>7 DEF Respaldan
    <2>3. ~BorradoConcurrente => pisados' = {}
        BY <1>2, <1>4 DEF BitmapCoherente, EnSerie, Hilo
    <2> QED BY <1>4, <2>1, <2>2, <2>3 DEF BitmapCoherente
  <1>11. HilosCoherentes'
    <2>1. /\ hilo'["cpu"].fase = "buscar" /\ hilo'["cpu"].pid = p
          /\ hilo'["cpu"].i = paginas_actuales'[p] /\ hilo'["kernel"] = hilo["kernel"]
        BY <1>1, <1>5 DEF TypeOK, TipoHilo, Hilo
    <2>2. \A q \in Pid \ creados' : paginas_actuales'[q] = 0
        BY <1>2, <1>5 DEF HilosCoherentes, TypeOK
    <2>3. /\ hilo["kernel"].fase \in {"libre", "limpiar", "limpiando"}
          /\ ~Libre("kernel") => hilo["kernel"].pid \in creados \ procesos /\ hilo["kernel"].hasta = 0
          /\ Libre("kernel") \/ BorradoConcurrente
        BY <1>2 DEF HilosCoherentes, Libre
    <2>4. CASE hilo["kernel"].fase = "libre"
        BY <1>2, <1>5, <2>1, <2>2, <2>3, <2>4 DEF HilosCoherentes, Libre, Hilo
    <2>5. CASE hilo["kernel"].fase # "libre"
      <3> DEFINE kn == hilo["kernel"]
                 q == kn.pid
                 g == tabla_paginas[q][kn.i]
      <3>1. q \in Pid /\ q # p
          BY <1>2, <2>3, <2>5 DEF Libre, TypeOK
      <3>2. paginas_actuales'[q] = paginas_actuales[q] /\ tabla_paginas'[q] = tabla_paginas[q]
          BY <1>5, <3>1 DEF TypeOK
      <3>10. /\ kn.fase \in {"limpiar", "limpiando"} => kn.i = paginas_actuales'[q] - 1
             /\ kn.fase = "limpiando" => kn.i >= kn.hasta /\ kn.copia \subseteq Byte(g)
          BY <3>2 DEF HilosCoherentes, Hilo
      <3>11. Locales("kernel")'
          BY <2>1, <2>3, <2>5, <3>2, <3>10 DEF Locales, Libre, Byte
      <3>12. Locales("cpu")'
          BY <2>1 DEF Locales
      <3>13. \A x \in Hilo : Locales(x)'
          BY <3>11, <3>12 DEF Hilo
      <3>14. p \in procesos' /\ UNCHANGED <<creados, procesos>>
          BY <1>2, <1>5
      <3> QED BY <2>1, <2>2, <2>3, <3>13, <3>14 DEF HilosCoherentes, Locales, Libre
    <2> QED BY <2>4, <2>5
  <1>12. EnSerie'
    <2> SUFFICES ASSUME ~BorradoConcurrente PROVE EnSerie'
        BY DEF EnSerie
    <2>1. hilo["kernel"].fase = "libre" /\ hilo'["kernel"] = hilo["kernel"]
        BY <1>2, <1>5 DEF HilosCoherentes, Libre, Hilo, TypeOK
    <2>2. hilo'["cpu"].fase = "buscar"
        BY <1>1, <1>5 DEF TypeOK, TipoHilo, Hilo
    <2> QED BY <2>1, <2>2 DEF EnSerie, Hilo
  <1> QED BY <1>6, <1>9, <1>10, <1>11, <1>12

LEMMA PasoIInv == IInv /\ [Next]_vars => IInv'
  <1> SUFFICES ASSUME IInv, [Next]_vars PROVE IInv'
      OBVIOUS
  <1>1. CASE UNCHANGED vars
      BY <1>1 DEF vars, IInv, TypeOK, MarcosDisjuntos, BitmapCoherente, Respaldan, Paginas,
                  HilosCoherentes, Libre, Byte, EnSerie
  <1>2. ASSUME NEW p \in Pid, NEW abre \in BOOLEAN, crear_proceso(p, abre) PROVE IInv'
      BY <1>2, CrearIInv
  <1>3. ASSUME NEW p \in Pid, destruir_proceso(p) PROVE IInv'
      BY <1>3, DestruirIInv
  <1>4. ASSUME NEW p \in Pid, NEW n \in Tamanios, modificar_tamanio_proceso(p, n) PROVE IInv'
      BY <1>4, ModificarIInv
  <1>5. ASSUME NEW h \in Hilo, LeerParaLimpiar(h) PROVE IInv'
      BY <1>5, LeerParaLimpiarIInv
  <1>6. ASSUME NEW h \in Hilo, EscribirLimpio(h) PROVE IInv'
      BY <1>6, EscribirLimpioIInv
  <1>7. ASSUME NEW h \in Hilo, FinBorrado(h) PROVE IInv'
      BY <1>7, FinBorradoIInv
  <1>8. CASE MirarMarco \/ SinMarcos \/ LeerParaMarcar \/ FinAgregado \/ EscribirFuera
      BY <1>8, BuscarIInv
  <1>9. CASE EscribirMarcado
      BY <1>9, EscribirMarcadoIInv
  <1> QED BY <1>1, <1>2, <1>3, <1>4, <1>5, <1>6, <1>7, <1>8, <1>9 DEF Next

-----------------------------------------------------------------------------
(* The tables, the bitmap and the locals of the two threads agree in every *)
(* reachable state but on the frames whose bit a late write undid.         *)
THEOREM Invariante == Spec => []IInv
  <1>1. Init => IInv
      BY InicioIInv
  <1>2. IInv /\ [Next]_vars => IInv'
      BY PasoIInv
  <1> QED BY <1>1, <1>2, PTL DEF Spec

(* Of a frame whose bit no late write undid, the bitmap and the tables say *)
(* the same, even after out of memory and while a process is destroyed;    *)
(* and no bit is undone while the threads take turns.                      *)
THEOREM BitmapSiempreCoherente == Spec => []BitmapCoherente
  <1>1. IInv => BitmapCoherente
      BY DEF IInv
  <1> QED BY <1>1, Invariante, PTL

(* No frame is given to two pages, unless a late write undid its bit.      *)
THEOREM MarcosSiempreDisjuntos == Spec => []MarcosDisjuntos
  <1>1. IInv => MarcosDisjuntos
      BY DEF IInv
  <1> QED BY <1>1, Invariante, PTL

(* The locals of both threads follow the tables, and agregar_paginas only  *)
(* goes beyond a table after a late write has undone the bit of a frame.   *)
THEOREM HilosSiempreCoherentes == Spec => []HilosCoherentes
  <1>1. IInv => HilosCoherentes
      BY DEF IInv
  <1> QED BY <1>1, Invariante, PTL

(* Every variable keeps its type.                                          *)
THEOREM SiempreTipos == Spec => []TypeOK
  <1>1. IInv => TypeOK
      BY DEF IInv
  <1> QED BY <1>1, Invariante, PTL

-----------------------------------------------------------------------------
(***************************************************************************)
(* Memoria implements TablasDePaginas when no process is destroyed while   *)
(* the CPU resizes another.                                                *)
(***************************************************************************)
(* The pages of a table, as a sequence.                                    *)
LEMMA TipoSecuencia ==
  ASSUME NEW n \in 0 .. CantMarcos, NEW t \in [Marco -> Marco],
         NEW s, s = [i \in 1 .. n |-> t[i - 1]]
  PROVE  /\ s \in Seq(Marco) /\ Len(s) = n
         /\ \A i \in 1 .. n : s[i] = t[i - 1]
  <1>1. n \in Nat /\ n <= CantMarcos /\ CantMarcos \in Nat
      BY ConstantesOK
  <1>2. \A i \in 1 .. n : i - 1 \in Marco
      BY <1>1 DEF Marco
  <1>3. s \in [1 .. n -> Marco]
      BY <1>2
  <1>4. s \in Seq(Marco)
      BY <1>1, <1>3
  <1> QED BY <1>1, <1>3, <1>4, LenProperties

LEMMA Prefijo ==
  ASSUME NEW S, NEW s \in Seq(S), NEW m \in 0 .. Len(s)
  PROVE  /\ SubSeq(s, 1, m) \in Seq(S) /\ Len(SubSeq(s, 1, m)) = m
         /\ \A i \in 1 .. m : SubSeq(s, 1, m)[i] = s[i]
  <1> DEFINE v == [i \in 1 .. m |-> s[i]]
  <1>1. SubSeq(s, 1, m) = v
      BY SubSeqRestrict DEF Restrict
  <1>2. Len(s) \in Nat /\ m \in Nat /\ \A i \in 1 .. m : i \in 1 .. Len(s)
      BY LenProperties
  <1>3. \A i \in 1 .. m : s[i] \in S
      BY <1>2, ElementOfSeq
  <1>4. v \in [1 .. m -> S]
      BY <1>3
  <1>5. v \in Seq(S) /\ Len(v) = m
      BY <1>2, <1>4
  <1> HIDE DEF v
  <1>6. \A i \in 1 .. m : v[i] = s[i]
      BY DEF v
  <1> QED BY <1>1, <1>5, <1>6

LEMMA SinLaUltima ==
  ASSUME NEW n \in 1 .. CantMarcos, NEW t \in [Marco -> Marco], NEW u \in [Marco -> Marco],
         \A i \in 0 .. n - 2 : u[i] = t[i],
         NEW s, s = [i \in 1 .. n |-> t[i - 1]], NEW r, r = [i \in 1 .. n - 1 |-> u[i - 1]]
  PROVE  s # <<>> /\ r = SubSeq(s, 1, Len(s) - 1)
  <1>1. n \in Nat \ {0} /\ n \in 0 .. CantMarcos /\ n - 1 \in 0 .. CantMarcos /\ CantMarcos \in Nat
      BY ConstantesOK
  <1>2. s \in Seq(Marco) /\ Len(s) = n /\ \A i \in 1 .. n : s[i] = t[i - 1]
      BY <1>1, TipoSecuencia
  <1>3. r \in Seq(Marco) /\ Len(r) = n - 1 /\ \A i \in 1 .. n - 1 : r[i] = u[i - 1]
      BY <1>1, TipoSecuencia
  <1> DEFINE v == SubSeq(s, 1, n - 1)
  <1>4. v \in Seq(Marco) /\ Len(v) = n - 1 /\ \A i \in 1 .. n - 1 : v[i] = s[i]
      BY <1>1, <1>2, Prefijo
  <1>5. \A i \in 1 .. n - 1 : r[i] = v[i]
      BY <1>1, <1>2, <1>3, <1>4
  <1> HIDE DEF v
  <1>6. r = v
      BY <1>3, <1>4, <1>5, SeqEqual
  <1>7. s # <<>>
      BY <1>1, <1>2, EmptySeq
  <1> QED BY <1>2, <1>6, <1>7 DEF v

LEMMA ConUnaMas ==
  ASSUME NEW n \in 0 .. CantMarcos - 1, NEW t \in [Marco -> Marco], NEW u \in [Marco -> Marco],
         \A i \in 0 .. n - 1 : u[i] = t[i],
         NEW s, s = [i \in 1 .. n |-> t[i - 1]], NEW r, r = [i \in 1 .. n + 1 |-> u[i - 1]]
  PROVE  r = Append(s, u[n])
  <1>1. n \in Nat /\ n \in 0 .. CantMarcos /\ n + 1 \in 0 .. CantMarcos /\ n \in Marco
      BY ConstantesOK DEF Marco
  <1>2. s \in Seq(Marco) /\ Len(s) = n /\ \A i \in 1 .. n : s[i] = t[i - 1]
      BY <1>1, TipoSecuencia
  <1>3. r \in Seq(Marco) /\ Len(r) = n + 1 /\ \A i \in 1 .. n + 1 : r[i] = u[i - 1]
      BY <1>1, TipoSecuencia
  <1> DEFINE v == Append(s, u[n])
  <1>4. /\ v \in Seq(Marco) /\ Len(v) = n + 1
        /\ (\A i \in 1 .. n : v[i] = s[i]) /\ v[n + 1] = u[n]
      BY <1>1, <1>2, AppendProperties
  <1>5. \A i \in 1 .. n + 1 : r[i] = v[i]
      BY <1>1, <1>2, <1>3, <1>4
  <1> HIDE DEF v
  <1>6. r = v
      BY <1>3, <1>4, <1>5, SeqEqual
  <1> QED BY <1>6 DEF v

(* The frames that the tables hold, seen from either side.                 *)
LEMMA LosAsignados ==
  ASSUME TypeOK
  PROVE  Tablas!Asignados = Respaldan
  <1>1. \A m : m \in Tablas!Asignados <=> \E p \in Pid : \E i \in DOMAIN Tabla(p) : Tabla(p)[i] = m
      BY DEF Tablas!Asignados, Tablas!ToSet
  <1>2. \A p \in Pid : /\ DOMAIN Tabla(p) = 1 .. paginas_actuales[p]
                       /\ \A i \in 1 .. paginas_actuales[p] : Tabla(p)[i] = tabla_paginas[p][i - 1]
      BY DEF Tabla
  <1>3. \A p \in Pid : \A i \in 1 .. paginas_actuales[p] :
          /\ i - 1 \in Paginas(p) /\ tabla_paginas[p][i - 1] \in Marco
      BY ConstantesOK DEF TypeOK, Paginas, Marco
  <1>4. \A p \in Pid : \A i \in Paginas(p) : i + 1 \in 1 .. paginas_actuales[p] /\ (i + 1) - 1 = i
      BY DEF TypeOK, Paginas
  <1>5. ASSUME NEW m, m \in Tablas!Asignados PROVE m \in Respaldan
    <2>1. PICK p \in Pid : \E i \in DOMAIN Tabla(p) : Tabla(p)[i] = m
        BY <1>1, <1>5
    <2>2. PICK i \in 1 .. paginas_actuales[p] : tabla_paginas[p][i - 1] = m
        BY <1>2, <2>1
    <2> QED BY <1>3, <2>2 DEF Respaldan
  <1>6. ASSUME NEW m \in Respaldan PROVE m \in Tablas!Asignados
    <2>1. PICK p \in Pid : \E i \in Paginas(p) : tabla_paginas[p][i] = m
        BY DEF Respaldan
    <2>2. PICK i \in Paginas(p) : tabla_paginas[p][i] = m
        BY <2>1
    <2>3. i + 1 \in DOMAIN Tabla(p) /\ Tabla(p)[i + 1] = m
        BY <1>2, <1>4, <2>2
    <2> QED BY <1>1, <2>3
  <1> QED BY <1>5, <1>6

-----------------------------------------------------------------------------
(* The frames that the search has passed by are taken: when it ends, all   *)
(* of them are.                                                            *)
Vistos == hilo["cpu"].fase = "buscar" => 0 .. hilo["cpu"].marco_libre - 1 \subseteq marcos

LEMMA PasoVistos ==
  ASSUME IInv, Vistos, ~BorradoConcurrente, [Next]_vars
  PROVE  Vistos'
  <1> USE DEF IInv
  <1>1. CASE UNCHANGED vars
      BY <1>1 DEF vars, Vistos
  <1>2. ASSUME NEW p \in Pid, NEW abre \in BOOLEAN, crear_proceso(p, abre) PROVE Vistos'
      BY <1>2 DEF crear_proceso, Vistos
  <1>3. ASSUME NEW p \in Pid, destruir_proceso(p) PROVE Vistos'
      BY <1>3 DEF destruir_proceso, Vistos, Libre, Hilo, TypeOK
  <1>4. ASSUME NEW p \in Pid, NEW n \in Tamanios, modificar_tamanio_proceso(p, n) PROVE Vistos'
    <2>1. hilo'["cpu"].fase = "buscar" => hilo'["cpu"].marco_libre = 0
        BY <1>4 DEF modificar_tamanio_proceso, TypeOK, Hilo
    <2> QED BY <2>1 DEF Vistos
  <1>5. ASSUME NEW h \in Hilo, LeerParaLimpiar(h) PROVE Vistos'
      BY <1>5 DEF LeerParaLimpiar, Vistos, TypeOK, Hilo
  <1>6. ASSUME NEW h \in Hilo, EscribirLimpio(h) PROVE Vistos'
    <2>1. h = "kernel" => Libre("cpu")
        BY <1>6 DEF EscribirLimpio, HilosCoherentes, Libre
    <2>2. hilo'["cpu"].fase # "buscar"
        BY <1>6, <2>1 DEF EscribirLimpio, TypeOK, Hilo, Libre
    <2> QED BY <2>2 DEF Vistos
  <1>7. ASSUME NEW h \in Hilo, FinBorrado(h) PROVE Vistos'
      BY <1>7 DEF FinBorrado, Vistos, TypeOK, Hilo
  <1>8. CASE MirarMarco
    <2> DEFINE m == hilo["cpu"].marco_libre
    <2>1. m \in Nat
        BY DEF TypeOK, Hilo
    <2>2. m \in marcos => 0 .. m \subseteq marcos
        BY <1>8, <2>1 DEF Vistos, MirarMarco, Falta
    <2>3. /\ marcos' = marcos
          /\ hilo'["cpu"].fase = "buscar" => m \in marcos /\ hilo'["cpu"].marco_libre = m + 1
        BY <1>8 DEF MirarMarco, TypeOK, Hilo
    <2> QED BY <2>1, <2>2, <2>3 DEF Vistos
  <1>9. CASE SinMarcos \/ LeerParaMarcar \/ FinAgregado \/ EscribirFuera
    <2>1. hilo'["cpu"].fase # "buscar"
        BY <1>9 DEF SinMarcos, LeerParaMarcar, FinAgregado, EscribirFuera, TypeOK, Hilo
    <2> QED BY <2>1 DEF Vistos
  <1>10. CASE EscribirMarcado
    <2>1. hilo'["cpu"].marco_libre = 0
        BY <1>10 DEF EscribirMarcado, TypeOK, Hilo
    <2> QED BY <2>1 DEF Vistos
  <1> QED BY <1>1, <1>2, <1>3, <1>4, <1>5, <1>6, <1>7, <1>8, <1>9, <1>10 DEF Next

-----------------------------------------------------------------------------
TablasDe == [p \in Pid |-> Tabla(p)]

(* Freeing the last page of a process is a step of Reducir.                *)
LEMMA LimpiarReduce ==
  ASSUME IInv, IInv', NEW h \in Hilo, EscribirLimpio(h)
  PROVE  \E p \in Pid : Tablas!Reducir(p)
  <1>0. PICK p \in Pid, n \in Nat : p = hilo[h].pid /\ n = paginas_actuales[p]
      BY DEF IInv, TypeOK, EscribirLimpio
  <1>1. /\ p \in Pid /\ n \in 1 .. CantMarcos /\ hilo[h].i = n - 1
        /\ paginas_actuales' = [paginas_actuales EXCEPT ![p] = n - 1]
        /\ tabla_paginas' = [tabla_paginas EXCEPT ![p] = [@ EXCEPT ![n - 1] = 0]]
        /\ resultado' = resultado
    <2>1. hilo[h].i \in Int /\ hilo[h].hasta \in Nat /\ n \in 0 .. CantMarcos /\ CantMarcos \in Nat
        BY <1>0, ConstantesOK DEF IInv, TypeOK
    <2>2. hilo[h].i = n - 1 /\ hilo[h].i >= hilo[h].hasta
        BY <1>0 DEF IInv, HilosCoherentes, EscribirLimpio
    <2>3. n \in 1 .. CantMarcos
        BY <2>1, <2>2
    <2>4. /\ paginas_actuales' = [paginas_actuales EXCEPT ![p] = paginas_actuales[p] - 1]
          /\ tabla_paginas' = [tabla_paginas EXCEPT ![p] = [@ EXCEPT ![hilo[h].i] = 0]]
          /\ resultado' = resultado
        BY <1>0 DEF EscribirLimpio
    <2> QED BY <1>0, <2>2, <2>3, <2>4
  <1>2. \A q \in Pid \ {p} : Tabla(q)' = Tabla(q)
      BY <1>1 DEF Tabla, IInv, TypeOK
  <1>3. Tabla(p) # <<>> /\ Tabla(p)' = SubSeq(Tabla(p), 1, Len(Tabla(p)) - 1)
    <2>1. tabla_paginas[p] \in [Marco -> Marco] /\ tabla_paginas'[p] \in [Marco -> Marco]
        BY <1>1 DEF IInv, TypeOK
    <2>2. \A i \in 0 .. n - 2 : tabla_paginas'[p][i] = tabla_paginas[p][i]
        BY <1>1, <2>1 DEF IInv, TypeOK
    <2>3. Tabla(p) = [i \in 1 .. n |-> tabla_paginas[p][i - 1]]
        BY <1>0 DEF Tabla
    <2>4. Tabla(p)' = [i \in 1 .. n - 1 |-> tabla_paginas'[p][i - 1]]
        BY <1>1 DEF Tabla, IInv, TypeOK
    <2> QED BY <1>1, <2>1, <2>2, <2>3, <2>4, SinLaUltima
  <1>4. TablasDe' = [TablasDe EXCEPT ![p] = SubSeq(TablasDe[p], 1, Len(TablasDe[p]) - 1)]
      BY <1>1, <1>2, <1>3 DEF TablasDe
  <1>5. TablasDe[p] # <<>>
      BY <1>1, <1>3 DEF TablasDe
  <1> QED BY <1>1, <1>4, <1>5 DEF Tablas!Reducir, Tablas!Front, TablasDe

(* Marking a frame and writing it in the table is a step of Ampliar.       *)
LEMMA MarcarAmplia ==
  ASSUME IInv, IInv', pisados = {}, EscribirMarcado
  PROVE  \E p \in Pid : Tablas!Ampliar(p)
  <1>0. PICK p \in Pid, n \in Nat, f \in Nat :
             p = hilo["cpu"].pid /\ n = paginas_actuales[p] /\ f = hilo["cpu"].marco_libre
      BY DEF IInv, TypeOK, EscribirMarcado, Hilo
  <1>1. /\ p \in Pid /\ hilo["cpu"].i = n /\ n \in 0 .. CantMarcos /\ f \in Marco \ marcos
        /\ paginas_actuales' = [paginas_actuales EXCEPT ![p] = n + 1]
        /\ tabla_paginas' = [tabla_paginas EXCEPT ![p] = [@ EXCEPT ![n] = f]]
        /\ resultado' = resultado
      BY <1>0 DEF IInv, TypeOK, HilosCoherentes, EscribirMarcado, Hilo
  <1>2. n \in 0 .. CantMarcos - 1 /\ n \in Marco
    <2>1. n < CantMarcos
        BY <1>0, <1>1, HayLugar DEF IInv
    <2> QED BY <1>1, <2>1, ConstantesOK DEF Marco
  <1>3. \A q \in Pid \ {p} : Tabla(q)' = Tabla(q)
      BY <1>1 DEF Tabla, IInv, TypeOK
  <1>4. Tabla(p)' = Append(Tabla(p), f)
    <2>1. tabla_paginas[p] \in [Marco -> Marco] /\ tabla_paginas'[p] \in [Marco -> Marco]
        BY <1>1 DEF IInv, TypeOK
    <2>2. (\A i \in 0 .. n - 1 : tabla_paginas'[p][i] = tabla_paginas[p][i]) /\ tabla_paginas'[p][n] = f
        BY <1>1, <1>2, <2>1 DEF IInv, TypeOK
    <2>3. Tabla(p) = [i \in 1 .. n |-> tabla_paginas[p][i - 1]]
        BY <1>0 DEF Tabla
    <2>4. Tabla(p)' = [i \in 1 .. n + 1 |-> tabla_paginas'[p][i - 1]]
        BY <1>1 DEF Tabla, IInv, TypeOK
    <2> QED BY <1>2, <2>1, <2>2, <2>3, <2>4, ConUnaMas
  <1>5. TablasDe' = [TablasDe EXCEPT ![p] = Append(TablasDe[p], f)]
      BY <1>1, <1>3, <1>4 DEF TablasDe
  <1>6. f \in Marco \ Tablas!Asignados
      BY <1>1, LosAsignados DEF IInv, BitmapCoherente
  <1> QED BY <1>1, <1>5, <1>6 DEF Tablas!Ampliar, TablasDe

LEMMA MismasTablasDe ==
  ASSUME UNCHANGED <<paginas_actuales, tabla_paginas>>
  PROVE  UNCHANGED TablasDe
  BY DEF TablasDe, Tabla

(* Every other step answers the CPU or leaves the tables alone.            *)
LEMMA PasoTablas ==
  ASSUME IInv, IInv', Vistos, pisados = {}, [Next]_vars
  PROVE  [Tablas!Next]_(Tablas!vars)
  <1> DEFINE Igual == UNCHANGED <<TablasDe, resultado>>
  <1>a. Igual => UNCHANGED Tablas!vars
      BY DEF Tablas!vars, TablasDe
  <1>b. ASSUME NEW r \in {0, 1}, UNCHANGED TablasDe, resultado' = r,
               r = 1 => Tablas!Asignados = Marco
        PROVE  Tablas!Next
      BY <1>b DEF Tablas!Next, Tablas!Contestar, TablasDe
  <1>1. CASE UNCHANGED vars
      BY <1>1, <1>a, MismasTablasDe DEF vars
  <1>2. ASSUME NEW p \in Pid, NEW abre \in BOOLEAN, crear_proceso(p, abre) PROVE Igual
    <2>1. paginas_actuales' = paginas_actuales /\ tabla_paginas' = tabla_paginas
        BY <1>2 DEF crear_proceso, IInv, TypeOK, HilosCoherentes
    <2> QED BY <1>2, <2>1, MismasTablasDe DEF crear_proceso
  <1>3. ASSUME NEW p \in Pid, destruir_proceso(p) PROVE Igual
      BY <1>3, MismasTablasDe DEF destruir_proceso
  <1>4. ASSUME NEW p \in Pid, NEW n \in Tamanios, modificar_tamanio_proceso(p, n) PROVE Igual
      BY <1>4, MismasTablasDe DEF modificar_tamanio_proceso
  <1>5. ASSUME NEW h \in Hilo, LeerParaLimpiar(h) PROVE Igual
      BY <1>5, MismasTablasDe DEF LeerParaLimpiar
  <1>6. ASSUME NEW h \in Hilo, EscribirLimpio(h) PROVE Tablas!Next
      BY <1>6, LimpiarReduce DEF Tablas!Next
  <1>7. ASSUME NEW h \in Hilo, FinBorrado(h) PROVE Igual \/ Tablas!Next
    <2>1. UNCHANGED TablasDe
        BY <1>7, MismasTablasDe DEF FinBorrado
    <2>2. resultado' = IF h = "cpu" THEN 0 ELSE resultado
        BY <1>7 DEF FinBorrado, Responder
    <2> QED BY <1>b, <2>1, <2>2
  <1>8. CASE MirarMarco \/ LeerParaMarcar \/ EscribirFuera
      BY <1>8, <1>a, MismasTablasDe DEF MirarMarco, LeerParaMarcar, EscribirFuera
  <1>9. CASE SinMarcos
    <2>1. UNCHANGED TablasDe /\ resultado' = 1
        BY <1>9, MismasTablasDe DEF SinMarcos, Responder
    <2>2. marcos = Marco
        BY <1>9 DEF SinMarcos, Falta, Vistos, Marco, IInv, TypeOK
    <2>3. Tablas!Asignados = Marco
      <3>1. Respaldan \subseteq Marco /\ Tablas!Asignados = Respaldan
          BY LosAsignados DEF IInv, Respaldan
      <3> QED BY <2>2, <3>1 DEF IInv, BitmapCoherente
    <2> QED BY <1>b, <2>1, <2>3
  <1>10. CASE EscribirMarcado
      BY <1>10, MarcarAmplia DEF Tablas!Next
  <1>11. CASE FinAgregado
    <2>1. UNCHANGED TablasDe /\ resultado' = 0
        BY <1>11, MismasTablasDe DEF FinAgregado, Responder
    <2> QED BY <1>b, <2>1
  <1> QED BY <1>a, <1>1, <1>2, <1>3, <1>4, <1>5, <1>6, <1>7, <1>8, <1>9, <1>10, <1>11 DEF Next

LEMMA InicioTablas == Init => Tablas!Init
  <1> SUFFICES ASSUME Init PROVE Tablas!Init
      OBVIOUS
  <1>1. \A p \in Pid : paginas_actuales[p] = 0
      BY DEF Init
  <1>2. \A p \in Pid : Tabla(p) = <<>>
      BY <1>1 DEF Tabla
  <1> QED BY <1>2 DEF Init, Tablas!Init

-----------------------------------------------------------------------------
(* With the CPU idle while the kernel destroys a process, every behaviour  *)
(* of the two threads, their reads and their writes is one of page tables  *)
(* that grow and shrink in one step per page, in which RESIZE fails only   *)
(* when there is no frame left.                                            *)
THEOREM MemoriaImplementa == ~BorradoConcurrente => (Spec => Implementa)
  <1> SUFFICES ASSUME ~BorradoConcurrente PROVE Spec => Implementa
      OBVIOUS
  <1>1. IInv => pisados = {}
      BY DEF IInv, BitmapCoherente
  <1>2. Init => Vistos
      BY DEF Init, Vistos, Hilo
  <1>3. IInv /\ Vistos /\ [Next]_vars => Vistos'
      BY PasoVistos
  <1>4. IInv /\ IInv' /\ Vistos /\ pisados = {} /\ [Next]_vars => [Tablas!Next]_(Tablas!vars)
      BY PasoTablas
  <1>5. Spec => []IInv
      BY Invariante
  <1> QED BY <1>1, <1>2, <1>3, <1>4, <1>5, InicioTablas, PTL DEF Spec, Implementa, Tablas!Spec
=============================================================================
