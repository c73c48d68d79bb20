------------------------- MODULE Planificador_tipos -------------------------
(***************************************************************************)
(* Planificador keeps the types of its variables, whatever the programs    *)
(* ask and whatever the console kills.                                     *)
(***************************************************************************)
EXTENDS Planificador, SequenceTheorems, FiniteSetTheorems, TLAPS

(***************************************************************************)
(* Sequences                                                               *)
(***************************************************************************)
(* Min of a set of positions is one of them.                               *)
LEMMA MinimoDePosiciones ==
  ASSUME NEW I \in SUBSET Nat, I # {}
  PROVE  Min(I) \in I
  <1>1. \E x \in I : \A y \in I : ~(<<y, x>> \in OpToRel(<, Nat))
      BY NatLessThanWellFounded, WFMin
  <1>2. PICK x \in I : \A y \in I : ~(<<y, x>> \in OpToRel(<, Nat))
      BY <1>1
  <1>3. ASSUME NEW y \in I PROVE x <= y
    <2>1. <<y, x>> \notin OpToRel(<, Nat)
        BY <1>2
    <2>2. x \in Nat /\ y \in Nat
        OBVIOUS
    <2>3. ~(y < x)
        BY <2>1, <2>2 DEF OpToRel
    <2> QED BY <2>2, <2>3
  <1>4. \E z \in I : \A y \in I : z <= y
      BY <1>3
  <1> QED BY <1>4 DEF Min

(* A sequence without one of its elements is a sequence.                   *)
LEMMA SinUno ==
  ASSUME NEW S, NEW s \in Seq(S), NEW i \in 1 .. Len(s)
  PROVE  /\ RemoveAt(s, i) \in Seq(S)
         /\ Len(RemoveAt(s, i)) = Len(s) - 1
         /\ \A j \in 1 .. Len(s) - 1 : RemoveAt(s, i)[j] = IF j < i THEN s[j] ELSE s[j + 1]
  <1> DEFINE a == SubSeq(s, 1, i - 1)
             b == SubSeq(s, i + 1, Len(s))
  <1>0. Len(s) \in Nat /\ i \in Nat /\ 1 <= i /\ i <= Len(s)
      BY LenProperties
  <1>a. \A j \in 1 .. Len(s) : s[j] \in S
      BY ElementOfSeq
  <1>1. /\ a \in Seq(S) /\ Len(a) = i - 1 /\ \A j \in 1 .. i - 1 : a[j] = s[j]
    <2>1. /\ a \in Seq(S)
          /\ Len(a) = IF 1 <= i - 1 THEN (i - 1) - 1 + 1 ELSE 0
          /\ \A j \in 1 .. (i - 1) - 1 + 1 : a[j] = s[1 + j - 1]
      <3>1. \A j \in 1 .. i - 1 : s[j] \in S
          BY <1>0, <1>a
      <3> QED BY <3>1, <1>0, SubSeqProperties
    <2> QED BY <2>1, <1>0
  <1>2. /\ b \in Seq(S) /\ Len(b) = Len(s) - i /\ \A j \in 1 .. Len(s) - i : b[j] = s[i + j]
    <2>1. /\ b \in Seq(S)
          /\ Len(b) = IF i + 1 <= Len(s) THEN Len(s) - (i + 1) + 1 ELSE 0
          /\ \A j \in 1 .. Len(s) - (i + 1) + 1 : b[j] = s[(i + 1) + j - 1]
      <3>1. \A j \in i + 1 .. Len(s) : s[j] \in S
          BY <1>0, <1>a
      <3> QED BY <3>1, <1>0, SubSeqProperties
    <2> QED BY <2>1, <1>0
  <1>3. RemoveAt(s, i) = a \o b
      BY DEF RemoveAt
  <1> HIDE DEF a, b
  <1>4. /\ a \o b \in Seq(S)
        /\ Len(a \o b) = Len(a) + Len(b)
        /\ \A j \in 1 .. Len(a) + Len(b) : (a \o b)[j] = IF j <= Len(a) THEN a[j] ELSE b[j - Len(a)]
      BY <1>1, <1>2, ConcatProperties
  <1>5. Len(a \o b) = Len(s) - 1
      BY <1>0, <1>1, <1>2, <1>4
  <1>6. ASSUME NEW j \in 1 .. Len(s) - 1
        PROVE  (a \o b)[j] = IF j < i THEN s[j] ELSE s[j + 1]
    <2>1. (a \o b)[j] = IF j <= i - 1 THEN a[j] ELSE b[j - (i - 1)]
        BY <1>0, <1>1, <1>2, <1>4
    <2>2. CASE j < i
      <3>1. j \in 1 .. i - 1
          BY <2>2, <1>0
      <3> QED BY <2>1, <2>2, <3>1, <1>0, <1>1
    <2>3. CASE ~(j < i)
      <3>1. j - (i - 1) \in 1 .. Len(s) - i /\ ~(j <= i - 1)
          BY <2>3, <1>0
      <3>2. b[j - (i - 1)] = s[i + (j - (i - 1))]
          BY <3>1, <1>2
      <3>3. i + (j - (i - 1)) = j + 1
          BY <1>0
      <3> QED BY <2>1, <2>3, <3>1, <3>2, <3>3
    <2> QED BY <2>2, <2>3
  <1> QED BY <1>3, <1>4, <1>5, <1>6

(* RemoveFirst takes one position out of a sequence that has the element.  *)
LEMMA QuitaPrimero ==
  ASSUME NEW S, NEW s \in Seq(S), NEW e
  PROVE  \/ /\ \A i \in 1 .. Len(s) : s[i] # e
            /\ RemoveFirst(s, e) = s
         \/ \E i \in 1 .. Len(s) : s[i] = e /\ RemoveFirst(s, e) = RemoveAt(s, i)
  <1> DEFINE I == {i \in 1 .. Len(s) : s[i] = e}
             k == SelectInSeq(s, LAMBDA v : v = e)
  <1>1. CASE \A i \in 1 .. Len(s) : s[i] # e
      BY <1>1 DEF RemoveFirst
  <1>2. CASE \E i \in 1 .. Len(s) : s[i] = e
    <2>1. I # {} /\ I \in SUBSET Nat
        BY <1>2, LenProperties
    <2>2. Min(I) \in I
      <3> HIDE DEF I
      <3> QED BY <2>1, MinimoDePosiciones
    <2>3. k = Min(I)
        BY <2>1 DEF SelectInSeq
    <2>4. RemoveFirst(s, e) = RemoveAt(s, k)
        BY <1>2 DEF RemoveFirst
    <2> QED BY <2>2, <2>3, <2>4
  <1> QED BY <1>1, <1>2

(* ... and keeps the elements in their set.                                *)
LEMMA QuitaPrimeroTipo ==
  ASSUME NEW S, NEW s \in Seq(S), NEW e
  PROVE  RemoveFirst(s, e) \in Seq(S)
  <1>1. CASE RemoveFirst(s, e) = s
      BY <1>1
  <1>2. ASSUME NEW i \in 1 .. Len(s), RemoveFirst(s, e) = RemoveAt(s, i)
        PROVE  RemoveFirst(s, e) \in Seq(S)
      BY <1>2, SinUno
  <1> QED BY <1>1, <1>2, QuitaPrimero

(* Both ends of a cut are sequences.                                       *)
LEMMA CorteTipo ==
  ASSUME NEW S, NEW s \in Seq(S), NEW n \in 0 .. Len(s)
  PROVE  /\ SubSeq(s, 1, n) \in Seq(S)
         /\ SubSeq(s, n + 1, Len(s)) \in Seq(S)
  <1>0. Len(s) \in Nat /\ n \in Nat
      BY LenProperties
  <1>1. \A j \in 1 .. Len(s) : s[j] \in S
      BY ElementOfSeq
  <1>2. \A j \in 1 .. n : s[j] \in S
      BY <1>0, <1>1
  <1>3. \A j \in n + 1 .. Len(s) : s[j] \in S
      BY <1>0, <1>1
  <1>4. SubSeq(s, 1, n) \in Seq(S)
      BY <1>0, <1>2, SubSeqProperties
  <1>5. SubSeq(s, n + 1, Len(s)) \in Seq(S)
      BY <1>0, <1>3, SubSeqProperties
  <1> QED BY <1>4, <1>5

(* An ordering of a set of processes is a sequence of processes.           *)
LEMMA OrdenTipo ==
  ASSUME NEW D \in SUBSET Pid, NEW s \in SetToSeqs(D)
  PROVE  s \in Seq(Pid)
  <1>0. CantPids \in Nat
      BY ConstantesOK
  <1>1. IsFiniteSet(Pid)
      BY <1>0, FS_Interval DEF Pid
  <1>2. Cardinality(D) \in Nat
      BY <1>1, FS_Subset, FS_CardinalityType
  <1>3. s \in [1 .. Cardinality(D) -> D]
      BY DEF SetToSeqs
  <1>4. s \in Seq(D)
      BY <1>2, <1>3
  <1> QED BY <1>4, SeqMonotonic

(***************************************************************************)
(* The operators on the kernel record give a kernel record                 *)
(***************************************************************************)
(* ... whose priority queue is only used by VRR: with the other algorithms *)
(* evaluar_READY_a_EXEC would take the head of an empty queue.             *)
KernelOK(k) ==
  /\ k \in KernelType
  /\ Algoritmo # "VRR" => k.cola_READY_PRIORITARIA = <<>>


LEMMA AReadyTipo ==
  ASSUME NEW k, KernelOK(k), NEW p \in Pid
  PROVE  KernelOK(A_READY(k, p))
  <1>0. k \in KernelType
      BY DEF KernelOK
  <1>1. /\ Append(k.cola_READY, p) \in Seq(Pid)
        /\ Append(k.cola_READY_PRIORITARIA, p) \in Seq(Pid)
      BY <1>0, AppendProperties DEF KernelType
  <1>2. /\ [k.estado EXCEPT ![p] = "READY"] \in [Pid -> Estado]
        /\ [k.estado EXCEPT ![p] = "READY_PRIORITARIO"] \in [Pid -> Estado]
      BY <1>0 DEF KernelType, Estado
  <1>3. A_READY(k, p) \in KernelType
      BY <1>0, <1>1, <1>2 DEF A_READY, KernelType
  <1>4. Algoritmo # "VRR" => A_READY(k, p).cola_READY_PRIORITARIA = k.cola_READY_PRIORITARIA
      BY <1>0 DEF A_READY, debe_ir_a_cola_prioritaria, KernelType
  <1> QED BY <1>3, <1>4 DEF KernelOK

LEMMA AdmisionTipo ==
  ASSUME NEW k, KernelOK(k)
  PROVE  /\ Admisibles(k) \in 0 .. Len(k.cola_NEW)
         /\ KernelOK(evaluar_NEW_a_READY(k))
  <1> DEFINE n == Admisibles(k)
             adm == SubSeq(k.cola_NEW, 1, n)
  <1>a. k \in KernelType
      BY DEF KernelOK
  <1>0. k.cola_NEW \in Seq(Pid) /\ k.cola_READY \in Seq(Pid) /\ k.cant \in Int /\ k.grado \in Int
      BY <1>a DEF KernelType
  <1>1. n \in 0 .. Len(k.cola_NEW)
    <2>1. Len(k.cola_NEW) \in Nat
        BY <1>0, LenProperties
    <2> QED BY <1>0, <2>1 DEF Admisibles
  <1> HIDE DEF n
  <1>2. adm \in Seq(Pid) /\ SubSeq(k.cola_NEW, n + 1, Len(k.cola_NEW)) \in Seq(Pid)
      BY <1>0, <1>1, CorteTipo
  <1>3. k.cola_READY \o adm \in Seq(Pid)
      BY <1>0, <1>2, ConcatProperties
  <1>4. k.cant + n \in Int
      BY <1>0, <1>1
  <1>5. [p \in Pid |-> IF p \in ToSet(adm) THEN "READY" ELSE k.estado[p]] \in [Pid -> Estado]
      BY <1>a DEF KernelType, Estado
  <1>6. evaluar_NEW_a_READY(k)
        = [k EXCEPT !.cola_NEW = SubSeq(@, n + 1, Len(@)),
                    !.cola_READY = @ \o adm,
                    !.estado = [p \in Pid |-> IF p \in ToSet(adm) THEN "READY" ELSE @[p]],
                    !.cant = @ + n]
      BY DEF evaluar_NEW_a_READY, n
  <1> HIDE DEF adm
  <1>7. evaluar_NEW_a_READY(k) \in KernelType
      BY <1>a, <1>2, <1>3, <1>4, <1>5, <1>6 DEF KernelType
  <1>8. evaluar_NEW_a_READY(k).cola_READY_PRIORITARIA = k.cola_READY_PRIORITARIA
      BY <1>a, <1>6 DEF KernelType
  <1> QED BY <1>1, <1>7, <1>8 DEF n, KernelOK

LEMMA DespachoTipo ==
  ASSUME NEW k, KernelOK(k), NEW p \in Pid
  PROVE  KernelOK(Despacho(k, p))
  <1>a. k \in KernelType
      BY DEF KernelOK
  <1> DEFINE m == [tipo |-> "PCB", dato |-> p]
  <1>0. p \in Nat
      BY ConstantesOK DEF Pid
  <1>1. m \in [tipo: {"PCB", "RESPUESTA"}, dato: Nat]
      BY <1>0
  <1> HIDE DEF m
  <1>2. Append(k.cola_RUNNING, p) \in Seq(Pid)
      BY <1>a, AppendProperties DEF KernelType
  <1>3. Append(k.dispatch, m) \in Seq([tipo: {"PCB", "RESPUESTA"}, dato: Nat])
      BY <1>1, <1>a, AppendProperties DEF KernelType
  <1>4. [k.estado EXCEPT ![p] = "RUNNING"] \in [Pid -> Estado]
      BY <1>a DEF KernelType, Estado
  <1>5. [k.hilos_respuesta EXCEPT ![p] = @ + 1] \in [Pid -> Nat]
      BY <1>a DEF KernelType
  <1>6. [k.hilos_quantum EXCEPT ![p] = IF Algoritmo = "FIFO" THEN @ ELSE @ \cup {"vigente"}]
          \in [Pid -> SUBSET Edad]
      BY <1>a DEF KernelType, Edad
  <1>7. Despacho(k, p)
        = [k EXCEPT !.cola_RUNNING = Append(@, p),
                    !.estado[p] = "RUNNING",
                    !.dispatch = Append(@, m),
                    !.hilos_respuesta[p] = @ + 1,
                    !.hilos_quantum[p] = IF Algoritmo = "FIFO" THEN @ ELSE @ \cup {"vigente"}]
      BY DEF Despacho, m
  <1>8. Despacho(k, p) \in KernelType
      BY <1>a, <1>2, <1>3, <1>4, <1>5, <1>6, <1>7, ZenonT(60) DEF KernelType
  <1>9. Despacho(k, p).cola_READY_PRIORITARIA = k.cola_READY_PRIORITARIA
      BY <1>a, <1>7 DEF KernelType
  <1> QED BY <1>8, <1>9 DEF KernelOK

(* The heads of the queues are processes; a queue without its head is one. *)
LEMMA ColasTipo ==
  ASSUME NEW k, KernelOK(k)
  PROVE  /\ k.cola_READY # <<>> => /\ Head(k.cola_READY) \in Pid
                                   /\ KernelOK([k EXCEPT !.cola_READY = Tail(@)])
         /\ k.cola_READY_PRIORITARIA # <<>> =>
              /\ Head(k.cola_READY_PRIORITARIA) \in Pid
              /\ KernelOK([k EXCEPT !.cola_READY_PRIORITARIA = Tail(@)])
         /\ k.cola_RUNNING # <<>> => /\ Head(k.cola_RUNNING) \in Pid
                                     /\ KernelOK([k EXCEPT !.cola_RUNNING = Tail(@)])
  <1>1. ASSUME NEW s \in Seq(Pid), s # <<>> PROVE Head(s) \in Pid /\ Tail(s) \in Seq(Pid)
      BY <1>1, HeadTailProperties
  <1> QED BY <1>1 DEF KernelType, KernelOK

LEMMA ConcatVacia ==
  ASSUME NEW s \in Seq(Pid), NEW t \in Seq(Pid)
  PROVE  s \o t = <<>> <=> s = <<>> /\ t = <<>>
  BY ConcatEqualIffEmpty

LEMMA ReadyExecTipo ==
  ASSUME NEW k, KernelOK(k)
  PROVE  KernelOK(evaluar_READY_a_EXEC(k))
  <1>1. CASE k.pausada \/ k.cola_RUNNING # <<>> \/ k.cola_READY \o k.cola_READY_PRIORITARIA = <<>>
      BY <1>1 DEF evaluar_READY_a_EXEC
  <1>2. CASE ~(k.pausada \/ k.cola_RUNNING # <<>> \/ k.cola_READY \o k.cola_READY_PRIORITARIA = <<>>)
    <2>1. k.cola_READY \in Seq(Pid) /\ k.cola_READY_PRIORITARIA \in Seq(Pid)
        BY DEF KernelType, KernelOK
    <2>2. k.cola_READY # <<>> \/ k.cola_READY_PRIORITARIA # <<>>
        BY <1>2, <2>1, ConcatVacia
    <2>3. CASE Algoritmo = "VRR" /\ k.cola_READY_PRIORITARIA # <<>>
        BY <1>2, <2>3, ColasTipo, DespachoTipo DEF evaluar_READY_a_EXEC
    <2>4. CASE ~(Algoritmo = "VRR" /\ k.cola_READY_PRIORITARIA # <<>>)
      <3>1. k.cola_READY # <<>>
          BY <2>2, <2>4 DEF KernelOK
      <3> QED BY <1>2, <2>4, <3>1, ColasTipo, DespachoTipo DEF evaluar_READY_a_EXEC
    <2> QED BY <2>3, <2>4
  <1> QED BY <1>1, <1>2

LEMMA DesalojoTipo ==
  ASSUME NEW k, KernelOK(k), NEW p \in Pid, NEW v \in BOOLEAN
  PROVE  /\ KernelOK(cosas_vrr_cuando_se_desaloja_un_proceso(k, p, v))
         /\ cosas_vrr_cuando_se_desaloja_un_proceso(k, p, v).cola_RUNNING = k.cola_RUNNING
  <1>a. k \in KernelType
      BY DEF KernelOK
  <1>1. [k.parcial EXCEPT ![p] = IF Algoritmo = "VRR" THEN v ELSE @] \in [Pid -> BOOLEAN]
      BY <1>a DEF KernelType
  <1>2. [k.hilos_quantum EXCEPT ![p] = IF @ = {} THEN {} ELSE {"viejo"}] \in [Pid -> SUBSET Edad]
      BY <1>a DEF KernelType, Edad
  <1> QED BY <1>a, <1>1, <1>2 DEF KernelType, KernelOK, cosas_vrr_cuando_se_desaloja_un_proceso

LEMMA RestosTipo == Restos \subseteq BOOLEAN
  BY DEF Restos

LEMMA ExecReadyTipo ==
  ASSUME NEW k, KernelOK(k), NEW v \in BOOLEAN
  PROVE  KernelOK(evaluar_EXEC_a_READY(k, v))
  <1>1. CASE k.cola_RUNNING = <<>>
      BY <1>1, ReadyExecTipo DEF evaluar_EXEC_a_READY
  <1>2. CASE k.cola_RUNNING # <<>>
    <2> DEFINE p == Head(k.cola_RUNNING)
               k1 == cosas_vrr_cuando_se_desaloja_un_proceso(k, p, v)
               k2 == [k1 EXCEPT !.cola_RUNNING = Tail(@)]
    <2>1. p \in Pid
        BY <1>2, ColasTipo
    <2>2. KernelOK(k1) /\ k1.cola_RUNNING = k.cola_RUNNING
        BY <2>1, DesalojoTipo
    <2>3. KernelOK(k2)
        BY <1>2, <2>2, ColasTipo
    <2>4. evaluar_EXEC_a_READY(k, v) = evaluar_READY_a_EXEC(A_READY(k2, p))
        BY <1>2 DEF evaluar_EXEC_a_READY
    <2> HIDE DEF k2, p
    <2> QED BY <2>1, <2>3, <2>4, AReadyTipo, ReadyExecTipo
  <1> QED BY <1>1, <1>2

LEMMA ExecBlockedTipo ==
  ASSUME NEW k, KernelOK(k), NEW clave \in Clave, NEW v \in BOOLEAN
  PROVE  KernelOK(evaluar_EXEC_a_BLOCKED(k, clave, v))
  <1>1. CASE k.cola_RUNNING = <<>>
      BY <1>1, ReadyExecTipo DEF evaluar_EXEC_a_BLOCKED
  <1>2. CASE k.cola_RUNNING # <<>>
    <2> DEFINE p == Head(k.cola_RUNNING)
               k1 == cosas_vrr_cuando_se_desaloja_un_proceso(k, p, v)
               k2 == [k1 EXCEPT !.cola_RUNNING = Tail(@)]
               k3 == [k1 EXCEPT !.cola_RUNNING = Tail(@),
                        !.estado[p] = "BLOCKED",
                        !.bloqueados[clave] = Append(@, p),
                        !.binario = IF clave \in Interfaz THEN [@ EXCEPT ![clave] = TRUE] ELSE @]
               k4 == [k2 EXCEPT
                        !.estado[p] = "BLOCKED",
                        !.bloqueados[clave] = Append(@, p),
                        !.binario = IF clave \in Interfaz THEN [@ EXCEPT ![clave] = TRUE] ELSE @]
    <2>1. p \in Pid
        BY <1>2, ColasTipo
    <2>2. KernelOK(k1) /\ k1.cola_RUNNING = k.cola_RUNNING
        BY <2>1, DesalojoTipo
    <2>3. KernelOK(k2)
        BY <1>2, <2>2, ColasTipo
    <2>4. evaluar_EXEC_a_BLOCKED(k, clave, v) = evaluar_READY_a_EXEC(k3)
        BY <1>2 DEF evaluar_EXEC_a_BLOCKED
    <2>5. k3 = k4
      <3> HIDE DEF k1, p
      <3> QED BY <2>2 DEF KernelOK, KernelType
    <2> HIDE DEF k1, k2, k3, p
    <2>6. Append(k2.bloqueados[clave], p) \in Seq(Pid)
        BY <2>1, <2>3, AppendProperties DEF KernelOK, KernelType
    <2>7. [k2.bloqueados EXCEPT ![clave] = Append(@, p)] \in [Clave -> Seq(Pid)]
        BY <2>3, <2>6 DEF KernelOK, KernelType
    <2>8. [k2.estado EXCEPT ![p] = "BLOCKED"] \in [Pid -> Estado]
        BY <2>3 DEF KernelOK, KernelType, Estado
    <2>9. IF clave \in Interfaz THEN [k2.binario EXCEPT ![clave] = TRUE] \in [Interfaz -> BOOLEAN]
          ELSE k2.binario \in [Interfaz -> BOOLEAN]
        BY <2>3 DEF KernelOK, KernelType
    <2>10. KernelOK(k4)
        BY <2>3, <2>7, <2>8, <2>9 DEF KernelOK, KernelType
    <2> QED BY <2>4, <2>5, <2>10, ReadyExecTipo
  <1> QED BY <1>1, <1>2

(* Finishing a process: out of its queue, marked, discounted.              *)
LEMMA TerminaTipo ==
  ASSUME NEW k, KernelOK(k), NEW p \in Pid
  PROVE  /\ KernelOK([k EXCEPT !.estado[p] = "EXIT", !.cant = @ - 1])
         /\ KernelOK(evaluar_NEW_a_EXIT(k, p))
         /\ KernelOK(evaluar_READY_a_EXIT(k, p))
  <1>a. k \in KernelType
      BY DEF KernelOK
  <1>1. [k.estado EXCEPT ![p] = "EXIT"] \in [Pid -> Estado]
      BY <1>a DEF KernelType, Estado
  <1>2. k.cant - 1 \in Int
      BY <1>a DEF KernelType
  <1>3. /\ RemoveFirst(k.cola_NEW, p) \in Seq(Pid)
        /\ RemoveFirst(k.cola_READY, p) \in Seq(Pid)
      BY <1>a, QuitaPrimeroTipo DEF KernelType
  <1>4. KernelOK([k EXCEPT !.estado[p] = "EXIT", !.cant = @ - 1])
      BY <1>a, <1>1, <1>2 DEF KernelType, KernelOK
  <1>5. KernelOK(evaluar_NEW_a_EXIT(k, p))
      BY <1>a, <1>1, <1>2, <1>3 DEF KernelType, KernelOK, evaluar_NEW_a_EXIT
  <1>6. KernelOK(evaluar_READY_a_EXIT(k, p))
      BY <1>a, <1>1, <1>2, <1>3 DEF KernelType, KernelOK, evaluar_READY_a_EXIT
  <1> QED BY <1>4, <1>5, <1>6

LEMMA BlockedExitTipo ==
  ASSUME NEW k, KernelOK(k), NEW p \in Pid, NEW clave \in Clave
  PROVE  KernelOK(evaluar_BLOCKED_a_EXIT(k, p, clave))
  <1>a. k \in KernelType
      BY DEF KernelOK
  <1>1. [k.estado EXCEPT ![p] = "EXIT"] \in [Pid -> Estado]
      BY <1>a DEF KernelType, Estado
  <1>2. k.cant - 1 \in Int
      BY <1>a DEF KernelType
  <1>3. RemoveFirst(k.bloqueados[clave], p) \in Seq(Pid)
      BY <1>a, QuitaPrimeroTipo DEF KernelType
  <1>4. [k.bloqueados EXCEPT ![clave] = RemoveFirst(@, p)] \in [Clave -> Seq(Pid)]
      BY <1>a, <1>3 DEF KernelType
  <1>5. Devolver(k, clave) \in [Recurso -> Int]
      BY <1>a DEF Devolver, KernelType
  <1> QED BY <1>a, <1>1, <1>2, <1>4, <1>5 DEF KernelType, KernelOK, evaluar_BLOCKED_a_EXIT

LEMMA ExecExitTipo ==
  ASSUME NEW k, KernelOK(k), NEW v \in BOOLEAN
  PROVE  KernelOK(evaluar_EXEC_a_EXIT(k, v))
  <1> DEFINE vacia == k.cola_RUNNING = <<>>
             p == IF vacia THEN 0 ELSE Head(k.cola_RUNNING)
             k1 == cosas_vrr_cuando_se_desaloja_un_proceso(k, p, v)
             k2 == [k1 EXCEPT !.cola_RUNNING = Tail(@)]
             k3 == [k1 EXCEPT !.cola_RUNNING = IF vacia THEN @ ELSE Tail(@),
                              !.estado[p] = "EXIT",
                              !.cant = @ - 1]
  <1>1. p \in Pid
    <2>1. 0 \in Pid
        BY ConstantesOK DEF Pid
    <2> QED BY <2>1, ColasTipo
  <1>2. CASE k.estado[p] = "NO_CREADO"
    <2>1. evaluar_EXEC_a_EXIT(k, v) = [k EXCEPT !.vivo = FALSE]
        BY <1>2 DEF evaluar_EXEC_a_EXIT
    <2> QED BY <2>1 DEF KernelOK, KernelType
  <1>3. CASE k.estado[p] # "NO_CREADO"
    <2>1. evaluar_EXEC_a_EXIT(k, v) = evaluar_NEW_a_READY(evaluar_READY_a_EXEC(k3))
        BY <1>3 DEF evaluar_EXEC_a_EXIT
    <2>2. KernelOK(k1) /\ k1.cola_RUNNING = k.cola_RUNNING
        BY <1>1, DesalojoTipo
    <2> HIDE DEF k1, p
    <2>3. CASE vacia
      <3>1. k3 = [k1 EXCEPT !.estado[p] = "EXIT", !.cant = @ - 1]
          BY <2>2, <2>3 DEF KernelOK, KernelType
      <3> HIDE DEF k3
      <3>2. KernelOK(k3)
          BY <1>1, <2>2, <3>1, TerminaTipo
      <3> QED BY <2>1, <3>2, ReadyExecTipo, AdmisionTipo
    <2>4. CASE ~vacia
      <3>1. KernelOK(k2)
          BY <2>2, <2>4, ColasTipo
      <3>2. k3 = [k2 EXCEPT !.estado[p] = "EXIT", !.cant = @ - 1]
          BY <2>2, <2>4 DEF KernelOK, KernelType
      <3> HIDE DEF k2, k3
      <3>3. KernelOK(k3)
          BY <1>1, <3>1, <3>2, TerminaTipo
      <3> QED BY <2>1, <3>3, ReadyExecTipo, AdmisionTipo
    <2> QED BY <2>3, <2>4
  <1> QED BY <1>2, <1>3

LEMMA DarUnaTipo ==
  ASSUME NEW k, KernelOK(k), NEW r \in Recurso, NEW q \in Pid
  PROVE  DarUna(k, r, q) \in [Pid -> Nat]
  <1>1. k.tiene[r] \in [Pid -> Nat]
      BY DEF KernelOK, KernelType
  <1>2. k.tiene[r][q] + 1 \in Nat
      BY <1>1
  <1> QED BY <1>1, <1>2 DEF DarUna

LEMMA BlockedReadyTipo ==
  ASSUME NEW k, KernelOK(k), NEW clave \in Clave
  PROVE  KernelOK(evaluar_BLOCKED_a_READY(k, clave))
  <1>a. k \in KernelType
      BY DEF KernelOK
  <1> DEFINE sigue == k.bloqueados[clave] = <<>> \/ (clave \in Recurso /\ k.instancias[clave] < 0)
             p == Head(k.bloqueados[clave])
             ti == IF clave \in Recurso THEN [k.tiene EXCEPT ![clave] = DarUna(k, clave, p)] ELSE k.tiene
             k1 == [k EXCEPT !.bloqueados[clave] = Tail(@), !.tiene = ti]
  <1>1. CASE sigue
      BY <1>1 DEF evaluar_BLOCKED_a_READY
  <1>2. CASE ~sigue
    <2>1. evaluar_BLOCKED_a_READY(k, clave) = A_READY(k1, p)
        BY <1>2 DEF evaluar_BLOCKED_a_READY
    <2>2. k.bloqueados[clave] \in Seq(Pid) /\ k.bloqueados[clave] # <<>>
        BY <1>a, <1>2 DEF KernelType
    <2>3. p \in Pid /\ Tail(k.bloqueados[clave]) \in Seq(Pid)
        BY <2>2, HeadTailProperties
    <2>4. [k.bloqueados EXCEPT ![clave] = Tail(@)] \in [Clave -> Seq(Pid)]
        BY <1>a, <2>3 DEF KernelType
    <2> HIDE DEF p
    <2>5. ti \in [Recurso -> [Pid -> Nat]]
      <3>1. k.tiene \in [Recurso -> [Pid -> Nat]]
          BY <1>a DEF KernelType
      <3> QED BY <2>3, <3>1, DarUnaTipo
    <2> HIDE DEF ti
    <2>6. KernelOK(k1)
        BY <1>a, <2>4, <2>5 DEF KernelOK, KernelType
    <2> HIDE DEF k1
    <2> QED BY <2>1, <2>3, <2>6, AReadyTipo
  <1> QED BY <1>1, <1>2

LEMMA MenosTipo ==
  ASSUME NEW n \in Nat
  PROVE  Menos(n) \in Nat
  BY DEF Menos

LEMMA RecursosTipo ==
  ASSUME NEW k, KernelOK(k), NEW r \in Recurso, NEW p \in Pid
  PROVE  /\ KernelOK(asignar_recurso(k, r, p))
         /\ KernelOK(desasignar_recurso(k, r, p))
  <1>a. k \in KernelType
      BY DEF KernelOK
  <1>1. /\ [k.instancias EXCEPT ![r] = @ - 1] \in [Recurso -> Int]
        /\ [k.instancias EXCEPT ![r] = @ + 1] \in [Recurso -> Int]
      BY <1>a DEF KernelType
  <1>2. ASSUME NEW f \in [Recurso -> [Pid -> Nat]], NEW c \in BOOLEAN
        PROVE  /\ [f EXCEPT ![r][p] = IF c THEN @ + 1 ELSE @] \in [Recurso -> [Pid -> Nat]]
               /\ [f EXCEPT ![r][p] = Menos(@)] \in [Recurso -> [Pid -> Nat]]
    <2>1. [f[r] EXCEPT ![p] = IF c THEN @ + 1 ELSE @] \in [Pid -> Nat]
        OBVIOUS
    <2>2. [f[r] EXCEPT ![p] = Menos(@)] \in [Pid -> Nat]
        BY MenosTipo
    <2> QED BY <2>1, <2>2
  <1>3. k.usando \in [Recurso -> [Pid -> Nat]] /\ k.tiene \in [Recurso -> [Pid -> Nat]]
      BY <1>a DEF KernelType
  <1>4. KernelOK(asignar_recurso(k, r, p))
    <2> DEFINE res == k.instancias[r] - 1 >= 0
    <2>1. res \in BOOLEAN
        OBVIOUS
    <2>2. asignar_recurso(k, r, p)
          = [k EXCEPT !.instancias[r] = @ - 1,
                      !.usando[r][p] = IF res THEN @ + 1 ELSE @,
                      !.tiene[r][p] = IF res THEN @ + 1 ELSE @]
        BY DEF asignar_recurso
    <2> HIDE DEF res
    <2>3. /\ [k.usando EXCEPT ![r][p] = IF res THEN @ + 1 ELSE @] \in [Recurso -> [Pid -> Nat]]
          /\ [k.tiene EXCEPT ![r][p] = IF res THEN @ + 1 ELSE @] \in [Recurso -> [Pid -> Nat]]
        BY <1>2, <1>3, <2>1
    <2> QED BY <1>a, <1>1, <2>2, <2>3 DEF KernelOK, KernelType
  <1>5. KernelOK(desasignar_recurso(k, r, p))
    <2>1. /\ [k.usando EXCEPT ![r][p] = Menos(@)] \in [Recurso -> [Pid -> Nat]]
          /\ [k.tiene EXCEPT ![r][p] = Menos(@)] \in [Recurso -> [Pid -> Nat]]
        BY <1>2, <1>3
    <2> QED BY <1>a, <1>1, <2>1 DEF KernelOK, KernelType, desasignar_recurso
  <1> QED BY <1>4, <1>5

(* What sacarle_sus_recursos wakes are processes, and only VRR has some    *)
(* for the priority queue.                                                 *)
LEMMA OrdenesTipo ==
  ASSUME NEW k, KernelOK(k), NEW p \in Pid, NEW o \in Ordenes(k, p)
  PROVE  /\ Despertados(k, p) \in SUBSET Pid
         /\ \A r \in QueDespiertan(k, p) :
              /\ r \in Recurso /\ k.bloqueados[r] \in Seq(Pid) /\ k.bloqueados[r] # <<>>
              /\ Head(k.bloqueados[r]) \in Pid /\ Tail(k.bloqueados[r]) \in Seq(Pid)
         /\ o.ready \in SetToSeqs(Despertados(k, p) \ Prioritarios(k, Despertados(k, p)))
         /\ o.prio \in SetToSeqs(Prioritarios(k, Despertados(k, p)))
         /\ o.ready \in Seq(Pid) /\ o.prio \in Seq(Pid)
         /\ Algoritmo # "VRR" => o.prio = <<>>
  <1>a. k \in KernelType
      BY DEF KernelOK
  <1>1. ASSUME NEW r \in QueDespiertan(k, p)
        PROVE  /\ r \in Recurso /\ k.bloqueados[r] \in Seq(Pid) /\ k.bloqueados[r] # <<>>
               /\ Head(k.bloqueados[r]) \in Pid /\ Tail(k.bloqueados[r]) \in Seq(Pid)
    <2>1. r \in Recurso /\ k.bloqueados[r] # <<>>
        BY DEF QueDespiertan, Devueltos
    <2>2. k.bloqueados[r] \in Seq(Pid)
        BY <1>a, <2>1 DEF KernelType, Clave
    <2> QED BY <2>1, <2>2, HeadTailProperties
  <1> DEFINE D == Despertados(k, p)
             P == Prioritarios(k, D)
  <1>2. D \in SUBSET Pid
      BY <1>1 DEF Despertados
  <1>3. o.ready \in SetToSeqs(D \ P) /\ o.prio \in SetToSeqs(P)
      BY DEF Ordenes
  <1> HIDE DEF D
  <1>4. P \in SUBSET Pid
      BY <1>2 DEF Prioritarios
  <1>5. Algoritmo # "VRR" => P = {}
      BY DEF Prioritarios, debe_ir_a_cola_prioritaria
  <1> HIDE DEF P
  <1>6. o.ready \in Seq(Pid) /\ o.prio \in Seq(Pid)
      BY <1>2, <1>3, <1>4, OrdenTipo
  <1>7. ASSUME Algoritmo # "VRR" PROVE o.prio = <<>>
    <2>1. o.prio \in [1 .. Cardinality({}) -> {}]
        BY <1>3, <1>5, <1>7 DEF SetToSeqs
    <2>2. 1 .. Cardinality({}) = {}
        BY FS_EmptySet
    <2>3. DOMAIN o.prio = {}
        BY <2>1, <2>2
    <2>4. Len(o.prio) \in Nat /\ DOMAIN o.prio = 1 .. Len(o.prio)
        BY <1>6, LenProperties
    <2>5. \A n \in Nat : 1 .. n = {} => n = 0
        OBVIOUS
    <2>6. Len(o.prio) = 0
        BY <2>3, <2>4, <2>5
    <2> QED BY <1>6, <2>6, EmptySeq
  <1> QED BY <1>1, <1>2, <1>3, <1>6, <1>7 DEF D, P

ConSiete(k, ins, usa, ti, blo, lis, pri, est) ==
  [k EXCEPT !.instancias = ins, !.usando = usa, !.tiene = ti, !.bloqueados = blo,
            !.cola_READY = lis, !.cola_READY_PRIORITARIA = pri, !.estado = est]

LEMMA SieteCampos ==
  ASSUME NEW k \in KernelType,
         NEW ins \in [Recurso -> Int], NEW usa \in [Recurso -> [Pid -> Nat]],
         NEW ti \in [Recurso -> [Pid -> Nat]], NEW blo \in [Clave -> Seq(Pid)],
         NEW lis \in Seq(Pid), NEW pri \in Seq(Pid), NEW est \in [Pid -> Estado]
  PROVE  ConSiete(k, ins, usa, ti, blo, lis, pri, est) \in KernelType
  <1> DEFINE k2 == ConSiete(k, ins, usa, ti, blo, lis, pri, est)
             k1 == [k EXCEPT !.instancias = ins, !.usando = usa, !.tiene = ti]
             k3 == [k1 EXCEPT !.bloqueados = blo, !.cola_READY = lis, !.cola_READY_PRIORITARIA = pri,
                              !.estado = est]
  <1>1. k1 \in KernelType
      BY DEF KernelType
  <1>2. k2 = k3
      BY DEF KernelType, ConSiete
  <1> HIDE DEF k1, k2
  <1>3. k3 \in KernelType
      BY <1>1 DEF KernelType
  <1> QED BY <1>2, <1>3 DEF k2

LEMMA SacarTipo ==
  ASSUME NEW k, KernelOK(k), NEW p \in Pid, NEW o \in Ordenes(k, p)
  PROVE  /\ KernelOK(sacarle_sus_recursos(k, p, o))
         /\ sacarle_sus_recursos(k, p, o).hilos_respuesta = k.hilos_respuesta
  <1>a. k \in KernelType
      BY DEF KernelOK
  <1> DEFINE despierta == QueDespiertan(k, p)
             ins == [r \in Recurso |-> IF r \in Devueltos(k, p) THEN k.instancias[r] + 1
                                       ELSE k.instancias[r]]
             usa == [r \in Recurso |-> [k.usando[r] EXCEPT ![p] = Menos(k.usando[r][p])]]
             ti  == [r \in Recurso |-> IF r \in despierta
                                       THEN DarUna(k, r, Head(k.bloqueados[r])) ELSE k.tiene[r]]
             blo == [c \in Clave |-> IF c \in despierta THEN Tail(k.bloqueados[c]) ELSE k.bloqueados[c]]
             est == [q \in Pid |-> IF q \in ToSet(o.ready) THEN "READY"
                                   ELSE IF q \in ToSet(o.prio) THEN "READY_PRIORITARIO"
                                   ELSE k.estado[q]]
  <1>1. ins \in [Recurso -> Int]
      BY <1>a DEF KernelType
  <1>2. usa \in [Recurso -> [Pid -> Nat]]
      BY <1>a, MenosTipo DEF KernelType
  <1>3. ti \in [Recurso -> [Pid -> Nat]]
    <2>1. k.tiene \in [Recurso -> [Pid -> Nat]]
        BY <1>a DEF KernelType
    <2>2. ASSUME NEW r \in despierta PROVE DarUna(k, r, Head(k.bloqueados[r])) \in [Pid -> Nat]
        BY OrdenesTipo, DarUnaTipo
    <2> QED BY <2>1, <2>2
  <1>4. blo \in [Clave -> Seq(Pid)]
      BY <1>a, OrdenesTipo DEF KernelType
  <1>5. est \in [Pid -> Estado]
      BY <1>a DEF KernelType, Estado
  <1> DEFINE lis == k.cola_READY \o o.ready
             pri == k.cola_READY_PRIORITARIA \o o.prio
  <1>6. lis \in Seq(Pid) /\ pri \in Seq(Pid)
      BY <1>a, OrdenesTipo, ConcatProperties DEF KernelType
  <1>7. Algoritmo # "VRR" => pri = <<>>
      BY <1>a, OrdenesTipo, ConcatVacia DEF KernelType, KernelOK
  <1>8. sacarle_sus_recursos(k, p, o)
        = [k EXCEPT !.instancias = ins, !.usando = usa, !.tiene = ti, !.bloqueados = blo,
                    !.cola_READY = lis, !.cola_READY_PRIORITARIA = pri, !.estado = est]
      BY DEF sacarle_sus_recursos
  <1> HIDE DEF ins, usa, ti, blo, est, lis, pri
  <1>9. ConSiete(k, ins, usa, ti, blo, lis, pri, est) \in KernelType
    <2>1. k \in KernelType /\ lis \in Seq(Pid) /\ pri \in Seq(Pid)
        BY <1>a, <1>6
    <2> QED BY <2>1, <1>1, <1>2, <1>3, <1>4, <1>5, SieteCampos
  <1>10. sacarle_sus_recursos(k, p, o) = ConSiete(k, ins, usa, ti, blo, lis, pri, est)
      BY <1>8 DEF ConSiete
  <1>11. /\ sacarle_sus_recursos(k, p, o).cola_READY_PRIORITARIA = pri
         /\ sacarle_sus_recursos(k, p, o).hilos_respuesta = k.hilos_respuesta
      BY <1>a, <1>8 DEF KernelType
  <1>12. sacarle_sus_recursos(k, p, o) \in KernelType
      BY <1>9, <1>10
  <1> QED BY <1>7, <1>11, <1>12 DEF KernelOK

LEMMA MensajesTipo ==
  ASSUME NEW k, KernelOK(k), NEW n \in {0, 1}
  PROVE  /\ KernelOK(Responder(k, n))
         /\ \A q \in Pid : k.hilos_respuesta[q] > 0 => KernelOK(TerminaHilo(k, q))
  <1>a. k \in KernelType
      BY DEF KernelOK
  <1> DEFINE m == [tipo |-> "RESPUESTA", dato |-> n]
  <1>1. m \in [tipo: {"PCB", "RESPUESTA"}, dato: Nat]
      OBVIOUS
  <1> HIDE DEF m
  <1>2. Append(k.dispatch, m) \in Seq([tipo: {"PCB", "RESPUESTA"}, dato: Nat])
      BY <1>1, <1>a, AppendProperties DEF KernelType
  <1>3. Responder(k, n) = [k EXCEPT !.dispatch = Append(@, m)]
      BY DEF Responder, m
  <1>4. KernelOK(Responder(k, n))
      BY <1>a, <1>2, <1>3 DEF KernelType, KernelOK
  <1>5. ASSUME NEW q \in Pid, k.hilos_respuesta[q] > 0 PROVE KernelOK(TerminaHilo(k, q))
    <2>1. [k.hilos_respuesta EXCEPT ![q] = @ - 1] \in [Pid -> Nat]
        BY <1>a, <1>5 DEF KernelType
    <2> QED BY <1>a, <2>1 DEF KernelType, KernelOK, TerminaHilo
  <1> QED BY <1>4, <1>5

(***************************************************************************)
(* Type correctness                                                        *)
(***************************************************************************)
(* TypeOK is inductive with two facts more: the kernel's priority queue is *)
(* VRR's, and a CPU that runs or waits has a process in its registers.     *)
Tipos ==
  /\ TypeOK
  /\ KernelOK(kernel)
  /\ cpu.fase # "libre" => cpu.pid \in Nat

LEMMA InicioTipos ==
  ASSUME Init
  PROVE  Tipos
  <1> USE ConstantesOK
  <1>0. Nadie \in Pid \cup {Nadie} /\ GradoInicial \in Int /\ 0 \in Nat /\ 0 \in Int
      OBVIOUS
  <1>1. InstanciasIniciales \in [Recurso -> Int]
      OBVIOUS
  <1>2. /\ [p \in Pid |-> "NO_CREADO"] \in [Pid -> Estado]
        /\ [p \in Pid |-> FALSE] \in [Pid -> BOOLEAN]
        /\ [c \in Clave |-> <<>>] \in [Clave -> Seq(Pid)]
        /\ <<>> \in Seq(Pid)
        /\ [r \in Recurso |-> [p \in Pid |-> 0]] \in [Recurso -> [Pid -> Nat]]
        /\ [i \in Interfaz |-> FALSE] \in [Interfaz -> BOOLEAN]
        /\ [i \in Interfaz |-> Nadie] \in [Interfaz -> Pid \cup {Nadie}]
        /\ [p \in Pid |-> 0] \in [Pid -> Nat]
        /\ [p \in Pid |-> {}] \in [Pid -> SUBSET Edad]
      BY DEF Estado
  <1>3. <<>> \in Seq([tipo: {"PCB", "RESPUESTA"}, dato: Nat])
      BY EmptySeq
  <1>4. kernel \in KernelType
      BY <1>0, <1>1, <1>2, <1>3 DEF Init, KernelType
  <1>5. KernelOK(kernel)
      BY <1>4 DEF KernelOK, Init
  <1>6. /\ cpu \in [pid: Nat \cup {Nadie},
                    fase: {"libre", "ejecutando", "espera_wait", "espera_signal"},
                    interrupcion: BOOLEAN]
        /\ cpu.fase = "libre"
      BY DEF Init, CPULibre
  <1>7. /\ a_kernel \in Seq([motivo: {"EXIT", "OUT_OF_MEMORY", "WAIT", "SIGNAL", "INTERRUPCION", "IO"},
                             arg: Nombre \cup {""}, pid: Nat])
        /\ avisos \in Seq(Edad \cup {"kill"})
      BY EmptySeq DEF Init
  <1> QED BY <1>4, <1>5, <1>6, <1>7 DEF Tipos, TypeOK

(* The console's commands, and the kernel's threads that only change it.   *)
LEMMA PlanificarTipo ==
  ASSUME NEW k, KernelOK(k)
  PROVE  KernelOK(Planificar(k))
  BY ReadyExecTipo, AdmisionTipo DEF Planificar

LEMMA MatadoTipo ==
  ASSUME KernelOK(kernel), NEW e \in Estado
  PROVE  /\ KernelOK(Matado(e))
         /\ \A p \in Pid : Ordenes(Matado(e), p) = Ordenes(kernel, p)
  <1>a. kernel \in KernelType
      BY DEF KernelOK
  <1>1. kernel.matados \cup {e} \in SUBSET Estado
      BY <1>a DEF KernelType
  <1>2. KernelOK(Matado(e))
      BY <1>a, <1>1 DEF Matado, KernelOK, KernelType
  <1>3. /\ Matado(e).usando = kernel.usando
        /\ Matado(e).bloqueados = kernel.bloqueados
        /\ Matado(e).instancias = kernel.instancias
        /\ Matado(e).parcial = kernel.parcial
      BY <1>a DEF Matado, KernelType
  <1>4. ASSUME NEW p \in Pid PROVE Ordenes(Matado(e), p) = Ordenes(kernel, p)
    <2>1. Despertados(Matado(e), p) = Despertados(kernel, p)
        BY <1>3 DEF Despertados, QueDespiertan, Devueltos
    <2>2. \A S : Prioritarios(Matado(e), S) = Prioritarios(kernel, S)
        BY <1>3 DEF Prioritarios, debe_ir_a_cola_prioritaria
    <2> QED BY <2>1, <2>2 DEF Ordenes
  <1> QED BY <1>2, <1>4

LEMMA ConsolaTipos ==
  ASSUME Tipos, Consola
  PROVE  KernelOK(kernel')
  <1>0. KernelOK(kernel) /\ kernel \in KernelType
      BY DEF Tipos, KernelOK
  <1>1. ASSUME NEW b \in BOOLEAN, IniciarProceso(b) PROVE KernelOK(kernel')
    <2>1. kernel.contador \in Pid /\ kernel.contador + 1 \in Nat
        BY <1>0, <1>1, ConstantesOK DEF IniciarProceso, KernelType, Pid
    <2>2. Append(kernel.cola_NEW, kernel.contador) \in Seq(Pid)
        BY <1>0, <2>1, AppendProperties DEF KernelType
    <2>3. [kernel.estado EXCEPT ![kernel.contador] = "NEW"] \in [Pid -> Estado]
        BY <1>0 DEF KernelType, Estado
    <2>4. CASE b
        BY <1>0, <1>1, <2>1, <2>2, <2>3, <2>4 DEF IniciarProceso, KernelOK, KernelType
    <2>5. CASE ~b
        BY <1>0, <1>1, <2>1, <2>5 DEF IniciarProceso, KernelOK, KernelType
    <2> QED BY <2>4, <2>5
  <1>2. CASE IniciarPlanificacion
    <2>1. KernelOK([kernel EXCEPT !.pausada = FALSE])
        BY <1>0 DEF KernelOK, KernelType
    <2> QED BY <1>2, <2>1, AdmisionTipo, ReadyExecTipo DEF IniciarPlanificacion
  <1>3. CASE DetenerPlanificacion
      BY <1>0, <1>3 DEF DetenerPlanificacion, KernelOK, KernelType
  <1>4. ASSUME NEW g \in Grados, Multiprogramacion(g) PROVE KernelOK(kernel')
    <2>1. KernelOK([kernel EXCEPT !.grado = g])
        BY <1>0, ConstantesOK DEF KernelOK, KernelType
    <2> QED BY <1>4, <2>1, AdmisionTipo DEF Multiprogramacion
  <1>5. ASSUME NEW p \in Pid, FinalizarInexistente(p) PROVE KernelOK(kernel')
      BY <1>0, <1>5, PlanificarTipo DEF FinalizarInexistente
  <1>6. ASSUME NEW p \in Pid, FinalizarNew(p) PROVE KernelOK(kernel')
    <2>1. PICK o \in Ordenes(kernel, p) :
            kernel' = Planificar(evaluar_NEW_a_EXIT(sacarle_sus_recursos(Matado("NEW"), p, o), p))
        BY <1>6 DEF FinalizarNew
    <2>2. KernelOK(Matado("NEW")) /\ o \in Ordenes(Matado("NEW"), p)
        BY <1>0, MatadoTipo DEF Estado
    <2>3. KernelOK(sacarle_sus_recursos(Matado("NEW"), p, o))
        BY <2>2, SacarTipo
    <2> QED BY <2>1, <2>3, TerminaTipo, PlanificarTipo
  <1>7. ASSUME NEW p \in Pid, FinalizarReady(p) PROVE KernelOK(kernel')
    <2>1. PICK o \in Ordenes(kernel, p) :
            kernel' = Planificar(evaluar_READY_a_EXIT(sacarle_sus_recursos(kernel, p, o), p))
        BY <1>7 DEF FinalizarReady
    <2>2. KernelOK(sacarle_sus_recursos(kernel, p, o))
        BY <1>0, SacarTipo
    <2> QED BY <2>1, <2>2, TerminaTipo, PlanificarTipo
  <1>8. ASSUME NEW p \in Pid, FinalizarRunning(p) PROVE KernelOK(kernel')
    <2>1. PICK o \in Ordenes(kernel, p), v \in Restos :
            kernel' = Planificar(evaluar_EXEC_a_EXIT(sacarle_sus_recursos(Matado("RUNNING"), p, o), v))
        BY <1>8 DEF FinalizarRunning
    <2>2. KernelOK(Matado("RUNNING")) /\ o \in Ordenes(Matado("RUNNING"), p)
        BY <1>0, MatadoTipo DEF Estado
    <2>3. KernelOK(sacarle_sus_recursos(Matado("RUNNING"), p, o)) /\ v \in BOOLEAN
        BY <2>2, SacarTipo, RestosTipo
    <2> QED BY <2>1, <2>3, ExecExitTipo, PlanificarTipo
  <1>9. ASSUME NEW p \in Pid, FinalizarBlocked(p) PROVE KernelOK(kernel')
    <2>1. PICK o \in Ordenes(kernel, p) :
            LET k == sacarle_sus_recursos(Matado("BLOCKED"), p, o)
            IN \/ \E c \in conseguir_tmb(k, p) : kernel' = Planificar(evaluar_BLOCKED_a_EXIT(k, p, c))
               \/ KernelSeCae
        BY <1>9 DEF FinalizarBlocked
    <2> DEFINE k == sacarle_sus_recursos(Matado("BLOCKED"), p, o)
    <2>2. KernelOK(Matado("BLOCKED")) /\ o \in Ordenes(Matado("BLOCKED"), p)
        BY <1>0, MatadoTipo DEF Estado
    <2>3. KernelOK(k)
        BY <2>2, SacarTipo
    <2>4. CASE KernelSeCae
        BY <1>0, <2>4 DEF KernelSeCae, KernelOK, KernelType
    <2>5. ASSUME NEW c \in conseguir_tmb(k, p), kernel' = Planificar(evaluar_BLOCKED_a_EXIT(k, p, c))
          PROVE  KernelOK(kernel')
      <3>1. c \in Clave
          BY DEF conseguir_tmb
      <3> HIDE DEF k
      <3> QED BY <2>3, <2>5, <3>1, BlockedExitTipo, PlanificarTipo
    <2> QED BY <2>1, <2>4, <2>5
  <1>10. ASSUME NEW p \in Pid, FinalizarOtro(p) PROVE KernelOK(kernel')
    <2>1. PICK o \in Ordenes(kernel, p) : kernel' = Planificar(sacarle_sus_recursos(kernel, p, o))
        BY <1>10 DEF FinalizarOtro
    <2>2. KernelOK(sacarle_sus_recursos(kernel, p, o))
        BY <1>0, SacarTipo
    <2> QED BY <2>1, <2>2, PlanificarTipo
  <1> QED BY <1>1, <1>2, <1>3, <1>4, <1>5, <1>6, <1>7, <1>8, <1>9, <1>10 DEF Consola

(* The messages from the CPU to the kernel.                                *)
Mensaje == [motivo: {"EXIT", "OUT_OF_MEMORY", "WAIT", "SIGNAL", "INTERRUPCION", "IO"},
            arg: Nombre \cup {""}, pid: Nat]
RegistroCPU == [pid: Nat \cup {Nadie}, fase: {"libre", "ejecutando", "espera_wait", "espera_signal"},
                interrupcion: BOOLEAN]

LEMMA TiposPorPartes ==
  Tipos <=> /\ KernelOK(kernel)
            /\ cpu \in RegistroCPU /\ (cpu.fase # "libre" => cpu.pid \in Nat)
            /\ a_kernel \in Seq(Mensaje)
            /\ avisos \in Seq(Edad \cup {"kill"})
  BY DEF Tipos, TypeOK, KernelOK, Mensaje, RegistroCPU

LEMMA TiposDespues ==
  ASSUME KernelOK(kernel'),
         cpu' \in RegistroCPU, cpu'.fase # "libre" => cpu'.pid \in Nat,
         a_kernel' \in Seq(Mensaje), avisos' \in Seq(Edad \cup {"kill"})
  PROVE  Tipos'
  BY DEF Tipos, TypeOK, KernelOK, Mensaje, RegistroCPU

LEMMA RespuestasTipos ==
  ASSUME Tipos, Respuestas
  PROVE  KernelOK(kernel') /\ a_kernel' \in Seq(Mensaje)
  <1>0. KernelOK(kernel) /\ a_kernel \in Seq(Mensaje)
      BY TiposPorPartes
  <1>a. kernel \in KernelType
      BY <1>0 DEF KernelOK
  <1>b. ASSUME NEW q \in Pid, NEW mo, Atiende(q, mo)
        PROVE  /\ a_kernel' \in Seq(Mensaje) /\ Head(a_kernel) \in Mensaje
               /\ kernel.hilos_respuesta[q] > 0 /\ KernelOK(TerminaHilo(kernel, q))
    <2>1. a_kernel # <<>> /\ a_kernel' = Tail(a_kernel) /\ kernel.hilos_respuesta[q] > 0
        BY <1>b DEF Atiende
    <2> QED BY <1>0, <2>1, HeadTailProperties, MensajesTipo
  <1>1. ASSUME NEW q \in Pid, AtenderExit(q) PROVE KernelOK(kernel') /\ a_kernel' \in Seq(Mensaje)
    <2>1. Atiende(q, "EXIT") /\ \E v \in Restos : kernel' = evaluar_EXEC_a_EXIT(TerminaHilo(kernel, q), v)
        BY <1>1 DEF AtenderExit
    <2> QED BY <1>b, <2>1, ExecExitTipo, RestosTipo
  <1>2. ASSUME NEW q \in Pid, AtenderOutOfMemory(q)
        PROVE  KernelOK(kernel') /\ a_kernel' \in Seq(Mensaje)
    <2>1. Atiende(q, "OUT_OF_MEMORY")
        BY <1>2 DEF AtenderOutOfMemory
    <2>2. PICK o \in Ordenes(kernel, q), v \in Restos :
            kernel' = evaluar_EXEC_a_EXIT(TerminaHilo(sacarle_sus_recursos(kernel, q, o), q), v)
        BY <1>2 DEF AtenderOutOfMemory
    <2>3. /\ KernelOK(sacarle_sus_recursos(kernel, q, o))
          /\ sacarle_sus_recursos(kernel, q, o).hilos_respuesta[q] > 0
        BY <1>0, <1>b, <2>1, SacarTipo
    <2>4. KernelOK(TerminaHilo(sacarle_sus_recursos(kernel, q, o), q)) /\ v \in BOOLEAN
        BY <2>3, MensajesTipo, RestosTipo
    <2>5. KernelOK(kernel')
        BY <2>2, <2>4, ExecExitTipo
    <2> QED BY <1>b, <2>1, <2>5
  <1>3. ASSUME NEW q \in Pid, AtenderWait(q) PROVE KernelOK(kernel') /\ a_kernel' \in Seq(Mensaje)
    <2> DEFINE r == Head(a_kernel).arg
               k == asignar_recurso(kernel, r, q)
    <2>1. Atiende(q, "WAIT")
        BY <1>3 DEF AtenderWait
    <2>2. \/ /\ r \notin Recurso
             /\ \E v \in Restos :
                  kernel' = evaluar_EXEC_a_EXIT(Responder(TerminaHilo(kernel, q), 1), v)
          \/ r \in Recurso /\ kernel' = Responder(k, 0)
          \/ /\ r \in Recurso
             /\ \E v \in Restos :
                  kernel' = evaluar_EXEC_a_BLOCKED(Responder(TerminaHilo(k, q), 1), r, v)
        BY <1>3 DEF AtenderWait
    <2>3. ASSUME NEW v \in Restos, kernel' = evaluar_EXEC_a_EXIT(Responder(TerminaHilo(kernel, q), 1), v)
          PROVE  KernelOK(kernel')
      <3>1. KernelOK(Responder(TerminaHilo(kernel, q), 1))
          BY <1>b, <2>1, MensajesTipo
      <3> QED BY <2>3, <3>1, ExecExitTipo, RestosTipo
    <2>4. ASSUME r \in Recurso
          PROVE  KernelOK(k) /\ k.hilos_respuesta[q] > 0
      <3>1. KernelOK(k)
          BY <1>0, <2>4, RecursosTipo
      <3>2. k.hilos_respuesta = kernel.hilos_respuesta
          BY <1>a DEF asignar_recurso, KernelType
      <3> QED BY <1>b, <2>1, <3>1, <3>2
    <2>5. ASSUME r \in Recurso, kernel' = Responder(k, 0) PROVE KernelOK(kernel')
        BY <2>4, <2>5, MensajesTipo
    <2>6. ASSUME r \in Recurso, NEW v \in Restos,
                 kernel' = evaluar_EXEC_a_BLOCKED(Responder(TerminaHilo(k, q), 1), r, v)
          PROVE  KernelOK(kernel')
      <3>1. KernelOK(TerminaHilo(k, q)) /\ r \in Clave /\ v \in BOOLEAN
          BY <2>4, <2>6, MensajesTipo, RestosTipo DEF Clave
      <3> HIDE DEF k, r
      <3>2. KernelOK(Responder(TerminaHilo(k, q), 1))
          BY <3>1, MensajesTipo
      <3> QED BY <2>6, <3>1, <3>2, ExecBlockedTipo
    <2>7. KernelOK(kernel')
        BY <2>2, <2>3, <2>5, <2>6
    <2> QED BY <1>b, <2>1, <2>7
  <1>4. ASSUME NEW q \in Pid, AtenderSignal(q) PROVE KernelOK(kernel') /\ a_kernel' \in Seq(Mensaje)
    <2> DEFINE r == Head(a_kernel).arg
    <2>1. Atiende(q, "SIGNAL")
        BY <1>4 DEF AtenderSignal
    <2>2. \/ kernel' = kernel
          \/ /\ r \in Recurso
             /\ kernel' = evaluar_BLOCKED_a_READY(Responder(desasignar_recurso(kernel, r, q), 0), r)
        BY <1>4 DEF AtenderSignal
    <2> HIDE DEF r
    <2>3. ASSUME r \in Recurso,
                 kernel' = evaluar_BLOCKED_a_READY(Responder(desasignar_recurso(kernel, r, q), 0), r)
          PROVE  KernelOK(kernel')
      <3>1. KernelOK(desasignar_recurso(kernel, r, q)) /\ r \in Clave
          BY <1>0, <2>3, RecursosTipo DEF Clave
      <3>2. KernelOK(Responder(desasignar_recurso(kernel, r, q), 0))
          BY <3>1, MensajesTipo
      <3> QED BY <2>3, <3>1, <3>2, BlockedReadyTipo
    <2>4. KernelOK(kernel')
        BY <1>0, <2>2, <2>3
    <2> QED BY <1>b, <2>1, <2>4
  <1>5. ASSUME NEW q \in Pid, AtenderInterrupcion(q)
        PROVE  KernelOK(kernel') /\ a_kernel' \in Seq(Mensaje)
    <2>1. /\ Atiende(q, "INTERRUPCION")
          /\ \E v \in Restos : kernel' = evaluar_EXEC_a_READY(TerminaHilo(kernel, q), v)
        BY <1>5 DEF AtenderInterrupcion
    <2> QED BY <1>b, <2>1, ExecReadyTipo, RestosTipo
  <1>6. ASSUME NEW q \in Pid, AtenderIO(q) PROVE KernelOK(kernel') /\ a_kernel' \in Seq(Mensaje)
    <2> DEFINE i == Head(a_kernel).arg
    <2>1. Atiende(q, "IO")
        BY <1>6 DEF AtenderIO
    <2>2. \E v \in Restos :
            \/ i \in kernel.conectadas /\ kernel' = evaluar_EXEC_a_BLOCKED(TerminaHilo(kernel, q), i, v)
            \/ kernel' = evaluar_EXEC_a_EXIT(TerminaHilo(kernel, q), v)
        BY <1>6 DEF AtenderIO
    <2>3. i \in kernel.conectadas => i \in Clave
        BY <1>a DEF KernelType, Clave
    <2> HIDE DEF i
    <2>4. KernelOK(kernel')
        BY <1>b, <2>1, <2>2, <2>3, ExecBlockedTipo, ExecExitTipo, RestosTipo
    <2> QED BY <1>b, <2>1, <2>4
  <1> QED BY <1>1, <1>2, <1>3, <1>4, <1>5, <1>6 DEF Respuestas

LEMMA HilosTipos ==
  ASSUME Tipos, Hilos
  PROVE  KernelOK(kernel')
  <1>0. KernelOK(kernel) /\ kernel \in KernelType
      BY TiposPorPartes DEF KernelOK
  <1>1. ASSUME NEW p \in Pid, NEW edad \in Edad, FinQuantum(p, edad) PROVE KernelOK(kernel')
    <2>1. kernel' = kernel \/ kernel' = [kernel EXCEPT !.hilos_quantum[p] = @ \ {edad}]
        BY <1>1 DEF FinQuantum
    <2>2. [kernel.hilos_quantum EXCEPT ![p] = @ \ {edad}] \in [Pid -> SUBSET Edad]
        BY <1>0 DEF KernelType
    <2> QED BY <1>0, <2>1, <2>2 DEF KernelOK, KernelType
  <1>2. ASSUME NEW i \in Interfaz, ConectarInterfaz(i) PROVE KernelOK(kernel')
      BY <1>0, <1>2 DEF ConectarInterfaz, KernelOK, KernelType
  <1>3. ASSUME NEW i \in Interfaz, TomarPedido(i) PROVE KernelOK(kernel')
    <2> DEFINE n == IF kernel.bloqueados[i] = <<>> THEN Nadie ELSE Head(kernel.bloqueados[i])
    <2>1. kernel.bloqueados[i] \in Seq(Pid)
        BY <1>0 DEF KernelType, Clave
    <2>2. n \in Pid \cup {Nadie}
        BY <2>1, HeadTailProperties
    <2>3. kernel' = [kernel EXCEPT !.binario[i] = FALSE, !.sirviendo[i] = n]
        BY <1>3 DEF TomarPedido
    <2> HIDE DEF n
    <2>4. /\ [kernel.binario EXCEPT ![i] = FALSE] \in [Interfaz -> BOOLEAN]
          /\ [kernel.sirviendo EXCEPT ![i] = n] \in [Interfaz -> Pid \cup {Nadie}]
        BY <1>0, <2>2 DEF KernelType
    <2> QED BY <1>0, <2>3, <2>4 DEF KernelOK, KernelType
  <1>4. ASSUME NEW i \in Interfaz PROVE KernelOK([kernel EXCEPT !.sirviendo[i] = Nadie]) /\ i \in Clave
    <2>1. [kernel.sirviendo EXCEPT ![i] = Nadie] \in [Interfaz -> Pid \cup {Nadie}]
        BY <1>0 DEF KernelType
    <2> QED BY <1>0, <2>1 DEF KernelOK, KernelType, Clave
  <1>5. ASSUME NEW i \in Interfaz, RespuestaIO(i) PROVE KernelOK(kernel')
    <2>1. kernel' = evaluar_READY_a_EXEC(
                      evaluar_BLOCKED_a_READY([kernel EXCEPT !.sirviendo[i] = Nadie], i))
        BY <1>5 DEF RespuestaIO
    <2> QED BY <1>4, <2>1, BlockedReadyTipo, ReadyExecTipo
  <1>6. ASSUME NEW i \in Interfaz, FallaIO(i) PROVE KernelOK(kernel')
    <2> DEFINE p == kernel.sirviendo[i]
    <2>1. /\ p # Nadie
          /\ \/ \E c \in conseguir_tmb(kernel, p) :
                  kernel' = evaluar_BLOCKED_a_EXIT([kernel EXCEPT !.sirviendo[i] = Nadie], p, c)
             \/ KernelSeCae
        BY <1>6 DEF FallaIO
    <2>2. p \in Pid
        BY <1>0, <2>1 DEF KernelType
    <2>3. CASE KernelSeCae
        BY <1>0, <2>3 DEF KernelSeCae, KernelOK, KernelType
    <2>4. ASSUME NEW c \in conseguir_tmb(kernel, p),
                 kernel' = evaluar_BLOCKED_a_EXIT([kernel EXCEPT !.sirviendo[i] = Nadie], p, c)
          PROVE  KernelOK(kernel')
      <3>1. c \in Clave
          BY DEF conseguir_tmb
      <3> HIDE DEF p
      <3> QED BY <1>4, <2>2, <2>4, <3>1, BlockedExitTipo
    <2> QED BY <2>1, <2>3, <2>4
  <1> QED BY <1>1, <1>2, <1>3, <1>5, <1>6 DEF Hilos

LEMMA EnviarTipo ==
  ASSUME Tipos, cpu.fase # "libre", NEW mo \in {"EXIT", "OUT_OF_MEMORY", "WAIT", "SIGNAL",
                                                "INTERRUPCION", "IO"},
         NEW arg \in Nombre \cup {""}, Enviar(mo, arg)
  PROVE  a_kernel' \in Seq(Mensaje)
  <1> DEFINE m == [motivo |-> mo, arg |-> arg, pid |-> cpu.pid]
  <1>1. cpu.pid \in Nat /\ a_kernel \in Seq(Mensaje)
      BY TiposPorPartes
  <1>2. m \in Mensaje
      BY <1>1 DEF Mensaje
  <1>3. a_kernel' = Append(a_kernel, m)
      BY DEF Enviar
  <1> HIDE DEF m
  <1> QED BY <1>1, <1>2, <1>3, AppendProperties

LEMMA CPUTipos ==
  ASSUME Tipos, CPU
  PROVE  Tipos'
  <1>0. /\ KernelOK(kernel) /\ kernel \in KernelType
        /\ cpu \in RegistroCPU /\ (cpu.fase # "libre" => cpu.pid \in Nat)
        /\ a_kernel \in Seq(Mensaje)
        /\ avisos \in Seq(Edad \cup {"kill"})
      BY TiposPorPartes DEF KernelOK
  <1>a. CPULibre \in RegistroCPU /\ CPULibre.fase = "libre"
      BY DEF CPULibre, RegistroCPU
  <1>b. ASSUME KernelOK(kernel'), a_kernel' \in Seq(Mensaje), avisos' = avisos, cpu' = CPULibre
        PROVE  Tipos'
      BY <1>0, <1>a, <1>b, TiposDespues
  <1>c. ASSUME kernel.dispatch # <<>>
        PROVE  Head(kernel.dispatch).dato \in Nat /\ KernelOK([kernel EXCEPT !.dispatch = Tail(@)])
    <2> DEFINE M == [tipo: {"PCB", "RESPUESTA"}, dato: Nat]
    <2>1. kernel.dispatch \in Seq(M)
        BY <1>0 DEF KernelType
    <2>2. Head(kernel.dispatch) \in M /\ Tail(kernel.dispatch) \in Seq(M)
        BY <1>c, <2>1, HeadTailProperties
    <2>3. Head(kernel.dispatch).dato \in Nat
        BY <2>2
    <2>4. KernelOK([kernel EXCEPT !.dispatch = Tail(@)])
        BY <1>0, <2>2 DEF KernelOK, KernelType
    <2> QED BY <2>3, <2>4
  <1>1. CASE RecibirPCB
    <2>1. /\ cpu' = [cpu EXCEPT !.pid = Head(kernel.dispatch).dato, !.fase = "ejecutando"]
          /\ kernel' = [kernel EXCEPT !.dispatch = Tail(@)] /\ kernel.dispatch # <<>>
          /\ a_kernel' = a_kernel /\ avisos' = avisos
        BY <1>1 DEF RecibirPCB
    <2>2. KernelOK(kernel')
        BY <1>c, <2>1
    <2>3. cpu' \in RegistroCPU /\ cpu'.pid \in Nat
        BY <1>0, <1>c, <2>1 DEF RegistroCPU
    <2> QED BY <1>0, <2>1, <2>2, <2>3, TiposDespues
  <1>2. CASE RecibirInterrupcion
    <2>1. /\ cpu' = [cpu EXCEPT !.interrupcion = TRUE] /\ avisos # <<>> /\ avisos' = Tail(avisos)
          /\ kernel' = kernel /\ a_kernel' = a_kernel
        BY <1>2 DEF RecibirInterrupcion
    <2>2. avisos' \in Seq(Edad \cup {"kill"})
        BY <1>0, <2>1, HeadTailProperties
    <2>3. cpu' \in RegistroCPU /\ cpu'.fase = cpu.fase /\ cpu'.pid = cpu.pid
        BY <1>0, <2>1 DEF RegistroCPU
    <2> QED BY <1>0, <2>1, <2>2, <2>3, TiposDespues
  <1>3. CASE EjecutarInterrumpida
    <2>1. /\ Enviar("INTERRUPCION", "") /\ cpu' = CPULibre /\ kernel' = kernel /\ avisos' = avisos
          /\ cpu.fase # "libre"
        BY <1>3 DEF EjecutarInterrumpida
    <2>2. a_kernel' \in Seq(Mensaje)
        BY <2>1, EnviarTipo
    <2> QED BY <1>0, <1>b, <2>1, <2>2
  <1>4. ASSUME NEW mo \in {"EXIT", "OUT_OF_MEMORY", "IO"}, NEW arg \in Nombre \cup {""},
               EjecutarFinal(mo, arg)
        PROVE  Tipos'
    <2>1. /\ Enviar(mo, arg) /\ cpu' = CPULibre /\ kernel' = kernel /\ avisos' = avisos
          /\ cpu.fase # "libre"
        BY <1>4 DEF EjecutarFinal
    <2>2. a_kernel' \in Seq(Mensaje)
        BY <2>1, EnviarTipo
    <2> QED BY <1>0, <1>b, <2>1, <2>2
  <1>5. ASSUME NEW mo \in {"WAIT", "SIGNAL"}, NEW r \in Nombre, NEW f \in {"espera_wait", "espera_signal"},
               cpu.fase = "ejecutando", Enviar(mo, r), cpu' = [cpu EXCEPT !.fase = f],
               kernel' = kernel, avisos' = avisos
        PROVE  Tipos'
    <2>1. a_kernel' \in Seq(Mensaje)
        BY <1>5, EnviarTipo
    <2>2. cpu' \in RegistroCPU /\ cpu'.pid = cpu.pid /\ cpu.fase # "libre"
        BY <1>0, <1>5 DEF RegistroCPU
    <2> QED BY <1>0, <1>5, <2>1, <2>2, TiposDespues
  <1>6. ASSUME NEW r \in NombresWait, EjecutarWait(r) PROVE Tipos'
      BY <1>5, <1>6 DEF EjecutarWait, Nombre
  <1>7. ASSUME NEW r \in NombresSignal, EjecutarSignal(r) PROVE Tipos'
      BY <1>5, <1>7 DEF EjecutarSignal, Nombre
  <1>8. CASE RecibirRespuesta
    <2>1. /\ cpu.fase # "libre" /\ kernel.dispatch # <<>>
          /\ kernel' = [kernel EXCEPT !.dispatch = Tail(@)] /\ avisos' = avisos
          /\ \/ cpu' = CPULibre /\ a_kernel' = a_kernel
             \/ cpu' = CPULibre /\ Enviar("INTERRUPCION", "")
             \/ cpu' = [cpu EXCEPT !.fase = "ejecutando"] /\ a_kernel' = a_kernel
        BY <1>8 DEF RecibirRespuesta
    <2>2. KernelOK(kernel')
        BY <1>c, <2>1
    <2>3. CASE cpu' = CPULibre /\ a_kernel' = a_kernel
        BY <1>0, <1>b, <2>1, <2>2, <2>3
    <2>4. CASE cpu' = CPULibre /\ Enviar("INTERRUPCION", "")
      <3>1. a_kernel' \in Seq(Mensaje)
          BY <2>1, <2>4, EnviarTipo
      <3> QED BY <1>b, <2>1, <2>2, <2>4, <3>1
    <2>5. CASE cpu' = [cpu EXCEPT !.fase = "ejecutando"] /\ a_kernel' = a_kernel
      <3>1. cpu' \in RegistroCPU /\ cpu'.pid \in Nat
          BY <1>0, <2>1, <2>5 DEF RegistroCPU
      <3> QED BY <1>0, <2>1, <2>2, <2>5, <3>1, TiposDespues
    <2> QED BY <2>1, <2>3, <2>4, <2>5
  <1>9. \A i \in NombresIO : i \in Nombre
      BY DEF Nombre
  <1> QED BY <1>1, <1>2, <1>3, <1>4, <1>6, <1>7, <1>8, <1>9 DEF CPU

LEMMA PasoTipos ==
  ASSUME Tipos, [Next]_vars
  PROVE  Tipos'
  <1>0. /\ KernelOK(kernel) /\ kernel \in KernelType
        /\ cpu \in RegistroCPU /\ (cpu.fase # "libre" => cpu.pid \in Nat)
        /\ a_kernel \in Seq(Mensaje)
        /\ avisos \in Seq(Edad \cup {"kill"})
      BY TiposPorPartes DEF KernelOK
  <1>a. ASSUME NEW e \in Edad \cup {"kill"}
        PROVE  Append(avisos, e) \in Seq(Edad \cup {"kill"})
      BY <1>0, AppendProperties
  <1>1. CASE Consola
    <2>1. cpu' = cpu /\ a_kernel' = a_kernel /\ (avisos' = avisos \/ avisos' = Append(avisos, "kill"))
        BY <1>1 DEF Consola, SinPeriferia, IniciarProceso, IniciarPlanificacion, DetenerPlanificacion,
                    Multiprogramacion, FinalizarInexistente, FinalizarNew, FinalizarReady,
                    FinalizarRunning, FinalizarBlocked, FinalizarOtro
    <2> QED BY <1>0, <1>1, <1>a, <2>1, ConsolaTipos, TiposDespues
  <1>2. CASE CPU
      BY <1>2, CPUTipos
  <1>3. CASE Respuestas
    <2>1. cpu' = cpu /\ avisos' = avisos
        BY <1>3 DEF Respuestas, AtenderExit, AtenderOutOfMemory, AtenderWait, AtenderSignal,
                    AtenderInterrupcion, AtenderIO, Atiende
    <2> QED BY <1>0, <1>3, <2>1, RespuestasTipos, TiposDespues
  <1>4. CASE Hilos
    <2>1. /\ cpu' = cpu /\ a_kernel' = a_kernel
          /\ avisos' = avisos \/ \E e \in Edad : avisos' = Append(avisos, e)
        BY <1>4 DEF Hilos, SinPeriferia, FinQuantum, ConectarInterfaz, TomarPedido, RespuestaIO, FallaIO
    <2> QED BY <1>0, <1>4, <1>a, <2>1, HilosTipos, TiposDespues
  <1>5. CASE UNCHANGED vars
      BY <1>5 DEF vars, Tipos, TypeOK, KernelOK
  <1> QED BY <1>1, <1>2, <1>3, <1>4, <1>5 DEF Next

(* Every variable keeps its type, and a CPU that runs or waits for the     *)
(* kernel has a process in its registers.                                  *)
THEOREM InvarianteTipos == Spec => []Tipos
  <1>1. Init => Tipos
      BY InicioTipos
  <1>2. Tipos /\ [Next]_vars => Tipos'
      BY PasoTipos
  <1> QED BY <1>1, <1>2, PTL DEF Spec

(* In particular no thread counter goes below zero and no queue ever gets  *)
(* anything but a process, whatever processes the console kills and in     *)
(* whatever order the threads run.                                         *)
THEOREM SiempreTipos == Spec => []TypeOK
  <1>1. Tipos => TypeOK
      BY DEF Tipos
  <1> QED BY <1>1, InvarianteTipos, PTL
=============================================================================
