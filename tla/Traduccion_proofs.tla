------------------------- MODULE Traduccion_proofs -------------------------
(***************************************************************************)
(* Proofs about the MMU (Traduccion over Tlb): for any TLB, algorithm and  *)
(* memory, every variable keeps its type, and while programs keep to their *)
(* pages no row of a live process is stale, although rows outlive the      *)
(* processes they were made for and no RESIZE touches them.  Whatever the  *)
(* programs do, the table of rows is the queue of CacheDeMarcos.           *)
(***************************************************************************)
EXTENDS Traduccion, SequenceTheorems, FunctionTheorems, FiniteSetTheorems, WellFoundedInduction, TLAPS

TablasOK == tablas \in [Pid -> Seq(Marco)] /\ terminados \subseteq Pid

(* What FilasVigentes needs to be inductive: the page of a row of a live   *)
(* process is one that the process still has.                              *)
FilasDePaginas ==
  \A i \in Fila : TLB[i].PID \in Pid \ terminados => TLB[i].nro_pag < Len(tablas[TLB[i].PID])

IInv == TypeOK /\ TablasOK /\ FilasDePaginas /\ FilasVigentes

(* Every nonempty set of natural numbers has a first one.                  *)
LEMMA HayPrimera ==
  ASSUME NEW S \in SUBSET Nat, S # {}
  PROVE  Primera(S) \in S /\ \A j \in S : Primera(S) <= j
  <1>1. PICK x \in S : \A y \in S : <<y, x>> \notin OpToRel(<, Nat)
      BY NatLessThanWellFounded, WFMin
  <1>2. \A y \in S : x <= y
    <2> SUFFICES ASSUME NEW y \in S PROVE x <= y
        OBVIOUS
    <2>1. ~(y < x)
        BY <1>1 DEF OpToRel
    <2> QED BY <2>1
  <1> QED BY <1>1, <1>2 DEF Primera

LEMMA PrimeraFila ==
  ASSUME NEW S \in SUBSET Fila, S # {}
  PROVE  Primera(S) \in S
  <1>1. S \in SUBSET Nat
      BY ConstantesOK DEF Fila
  <1> QED BY <1>1, HayPrimera

(* A table with rows has one that was not used after any other.            *)
LEMMA FilaMasVieja ==
  ASSUME TypeOK, tlb_size # 0
  PROVE  {i \in Fila : \A j \in Fila :
            TLB[i].instante_referencia <= TLB[j].instante_referencia} # {}
  <1> DEFINE relojes == {TLB[i].instante_referencia : i \in Fila}
             filas == {i \in Fila : \A j \in Fila :
                         TLB[i].instante_referencia <= TLB[j].instante_referencia}
  <1>1. 0 \in Fila
      BY ConstantesOK DEF Fila
  <1>2. relojes \in SUBSET Nat /\ relojes # {}
      BY <1>1, ConstantesOK DEF TypeOK
  <1>3. Primera(relojes) \in relojes /\ \A r \in relojes : Primera(relojes) <= r
      BY <1>2, HayPrimera
  <1>4. PICK i \in Fila : TLB[i].instante_referencia = Primera(relojes)
      BY <1>3
  <1>5. i \in filas
      BY <1>3, <1>4
  <1> QED BY <1>5

LEMMA FilaMenosUsada ==
  ASSUME TypeOK, tlb_size # 0
  PROVE  buscar_tlb_con_menor_referencia \in Fila
  BY FilaMasVieja, PrimeraFila DEF buscar_tlb_con_menor_referencia

(* What a hit does to the rows, and what it gives.                         *)
LEMMA Acierto ==
  ASSUME TypeOK, NEW p \in Pid, NEW g \in Pagina, instante_referencia < MaxInstante,
         UNCHANGED ALGORITMO_TLB, conseguir_marco_en_la_tlb(p, g)
  PROVE  /\ TypeOK'
         /\ \A i \in Fila : /\ TLB'[i].PID = TLB[i].PID
                            /\ TLB'[i].nro_pag = TLB[i].nro_pag
                            /\ TLB'[i].nro_marco = TLB[i].nro_marco
         /\ \E i \in Fila : Tiene(i, p, g) /\ marco' = TLB[i].nro_marco
  <1> DEFINE filas == {i \in Fila : Tiene(i, p, g)}
             f == Primera(filas)
  <1>1. f \in filas
      BY PrimeraFila DEF conseguir_marco_en_la_tlb
  <1>2. /\ marco' = TLB[f].nro_marco
        /\ TLB' = [TLB EXCEPT ![f].instante_referencia = instante_referencia]
        /\ instante_referencia' = instante_referencia + 1
        /\ UNCHANGED ultima_fila_modificada
      BY DEF conseguir_marco_en_la_tlb
  <1> HIDE DEF filas, f
  <1>3. f \in Fila /\ Tiene(f, p, g)
      BY <1>1 DEF filas
  <1>4. TypeOK'
      BY <1>2, <1>3, ConstantesOK DEF TypeOK
  <1>5. \A i \in Fila : /\ TLB'[i].PID = TLB[i].PID
                        /\ TLB'[i].nro_pag = TLB[i].nro_pag
                        /\ TLB'[i].nro_marco = TLB[i].nro_marco
      BY <1>2 DEF TypeOK
  <1> QED BY <1>2, <1>3, <1>4, <1>5

(* A miss changes at most one row, to the page and frame asked for.        *)
LEMMA Fallo ==
  ASSUME TypeOK, NEW p \in Pid, NEW g \in Pagina, NEW m \in Marco,
         instante_referencia < MaxInstante, UNCHANGED ALGORITMO_TLB, PedirMarco(p, g, m)
  PROVE  /\ TypeOK' /\ marco' = m
         /\ \A i \in Fila : \/ TLB'[i] = TLB[i]
                            \/ TLB'[i].PID = p /\ TLB'[i].nro_pag = g /\ TLB'[i].nro_marco = m
  <1> DEFINE nueva == [PID |-> p, nro_pag |-> g, nro_marco |-> m,
                       instante_referencia |-> instante_referencia]
             huecos == {i \in Fila : TLB[i].PID = Nadie}
             turno == IF ultima_fila_modificada = tlb_size THEN 0 ELSE ultima_fila_modificada
  <1>1. nueva \in [PID: Pid \cup {Nadie}, nro_pag: Pagina, nro_marco: Marco,
                   instante_referencia: 0 .. MaxInstante]
      BY ConstantesOK DEF TypeOK
  <1>2. turno \in 0 .. tlb_size /\ (tlb_size # 0 => turno \in Fila)
      BY ConstantesOK DEF TypeOK, Fila
  <1>3. \/ UNCHANGED <<TLB, ultima_fila_modificada>>
        \/ \E i \in Fila : TLB' = [TLB EXCEPT ![i] = nueva]
                           /\ ultima_fila_modificada' \in {ultima_fila_modificada, turno + 1}
                           /\ (ultima_fila_modificada' = turno + 1
                                => turno \in Fila \/ UNCHANGED ultima_fila_modificada)
    <2>1. CASE tlb_size = 0
        BY <2>1 DEF PedirMarco, agregar_a_tlb
    <2>2. CASE tlb_size # 0 /\ huecos # {}
      <3>1. Primera(huecos) \in Fila
          BY <2>2, PrimeraFila
      <3> QED BY <2>2, <3>1 DEF PedirMarco, agregar_a_tlb
    <2>3. CASE tlb_size # 0 /\ huecos = {} /\ ALGORITMO_TLB = "FIFO"
        BY <2>3, <1>2 DEF PedirMarco, agregar_a_tlb
    <2>4. CASE tlb_size # 0 /\ huecos = {} /\ ALGORITMO_TLB # "FIFO"
        BY <2>4, FilaMenosUsada DEF PedirMarco, agregar_a_tlb
    <2> QED BY <2>1, <2>2, <2>3, <2>4
  <1>4. marco' = m /\ instante_referencia' = instante_referencia + 1
      BY DEF PedirMarco
  <1>5. ultima_fila_modificada' \in 0 .. tlb_size
      BY <1>2, <1>3, ConstantesOK DEF TypeOK, Fila
  <1>6. instante_referencia' \in 0 .. MaxInstante
      BY <1>4, ConstantesOK DEF TypeOK
  <1> HIDE DEF nueva, turno
  <1>7. TLB' \in [Fila -> [PID: Pid \cup {Nadie}, nro_pag: Pagina, nro_marco: Marco,
                          instante_referencia: 0 .. MaxInstante]]
      BY <1>1, <1>3 DEF TypeOK
  <1>8. \A i \in Fila : TLB'[i] = TLB[i] \/ TLB'[i] = nueva
      BY <1>3 DEF TypeOK
  <1>9. TypeOK'
      BY <1>4, <1>5, <1>6, <1>7 DEF TypeOK
  <1> QED BY <1>4, <1>8, <1>9 DEF nueva

-----------------------------------------------------------------------------
LEMMA InicioIInv == InitT => IInv
  <1> SUFFICES ASSUME InitT PROVE IInv
      OBVIOUS
  <1>1. TypeOK
      BY ConstantesOK DEF InitT, Init, TypeOK
  <1>2. TablasOK
      BY DEF InitT, Memoria!Init, TablasOK
  <1>3. \A i \in Fila : TLB[i].PID = Nadie
      BY DEF InitT, Init
  <1>4. FilasDePaginas /\ FilasVigentes
      BY <1>3, ConstantesOK DEF FilasDePaginas, FilasVigentes, Vigente, Nadie
  <1> QED BY <1>1, <1>2, <1>4 DEF IInv

(* A lookup of a page that the process has gives its frame.                *)
LEMMA TraducirCorrecto ==
  ASSUME IInv, NEW p \in Pid, NEW g \in Pagina, Traducir(p, g), g < Len(tablas[p])
  PROVE  marco' = tablas[p][g + 1]
  <1>1. p \in Pid \ terminados
      BY DEF Traducir
  <1>2. CASE conseguir_marco_en_la_tlb(p, g)
    <2>1. PICK i \in Fila : Tiene(i, p, g) /\ marco' = TLB[i].nro_marco
        BY <1>2, Acierto DEF IInv, Traducir
    <2> QED BY <1>1, <2>1 DEF IInv, FilasVigentes, Vigente, Tiene
  <1>3. ASSUME NEW m \in Marco, obtener_marco(p, g, m), PedirMarco(p, g, m)
        PROVE  marco' = tablas[p][g + 1]
      BY <1>3 DEF obtener_marco, PedirMarco
  <1> QED BY <1>2, <1>3 DEF Traducir

LEMMA TraducirIInv ==
  ASSUME IInv, Disciplina, NEW p \in Pid, NEW g \in Pagina, Traducir(p, g)
  PROVE  IInv'
  <1>1. p \in Pid \ terminados /\ g < Len(tablas[p])
      BY DEF Traducir
  <1>2. TablasOK'
      BY DEF IInv, TablasOK, Traducir
  <1>3. CASE conseguir_marco_en_la_tlb(p, g)
    <2>1. /\ TypeOK'
          /\ \A i \in Fila : /\ TLB'[i].PID = TLB[i].PID
                             /\ TLB'[i].nro_pag = TLB[i].nro_pag
                             /\ TLB'[i].nro_marco = TLB[i].nro_marco
        BY <1>3, Acierto DEF IInv, Traducir
    <2>2. FilasDePaginas' /\ FilasVigentes'
        BY <2>1 DEF IInv, Traducir, FilasDePaginas, FilasVigentes, Vigente
    <2> QED BY <1>2, <2>1, <2>2 DEF IInv
  <1>4. ASSUME NEW m \in Marco, obtener_marco(p, g, m), PedirMarco(p, g, m)
        PROVE  IInv'
    <2>1. /\ TypeOK'
          /\ \A i \in Fila : \/ TLB'[i] = TLB[i]
                             \/ TLB'[i].PID = p /\ TLB'[i].nro_pag = g /\ TLB'[i].nro_marco = m
        BY <1>4, Fallo DEF IInv, Traducir
    <2>2. m = tablas[p][g + 1]
        BY <1>1, <1>4 DEF obtener_marco
    <2>3. FilasDePaginas' /\ FilasVigentes'
        BY <1>1, <2>1, <2>2 DEF IInv, Traducir, FilasDePaginas, FilasVigentes, Vigente
    <2> QED BY <1>2, <2>1, <2>3 DEF IInv
  <1> QED BY <1>3, <1>4 DEF Traducir

(* Tables of live processes only grow, and at the end.                     *)
LEMMA AmpliarIInv ==
  ASSUME IInv, NEW p \in Pid, p \notin terminados, Memoria!Ampliar(p), UNCHANGED <<vars, terminados>>
  PROVE  IInv'
  <1>1. TypeOK'
      BY DEF IInv, TypeOK, vars
  <1>2. PICK m \in Marco : tablas' = [tablas EXCEPT ![p] = Append(@, m)]
      BY DEF Memoria!Ampliar
  <1>3. TablasOK'
      BY <1>2, AppendProperties DEF IInv, TablasOK
  <1>4. \A q \in Pid : /\ Len(tablas[q]) \in Nat /\ Len(tablas'[q]) \in Nat
                       /\ Len(tablas[q]) <= Len(tablas'[q])
                       /\ \A k \in 1 .. Len(tablas[q]) : tablas'[q][k] = tablas[q][k]
      BY <1>2, AppendProperties, LenProperties DEF IInv, TablasOK
  <1>5. \A i \in Fila : TLB[i].nro_pag \in Nat
      BY ConstantesOK DEF IInv, TypeOK
  <1>6. FilasDePaginas' /\ FilasVigentes'
    <2> SUFFICES ASSUME NEW i \in Fila, TLB[i].PID \in Pid \ terminados
                 PROVE  /\ TLB[i].nro_pag < Len(tablas'[TLB[i].PID])
                        /\ TLB[i].nro_marco = tablas'[TLB[i].PID][TLB[i].nro_pag + 1]
        BY DEF FilasDePaginas, FilasVigentes, Vigente, vars
    <2>1. /\ TLB[i].nro_pag < Len(tablas[TLB[i].PID])
          /\ TLB[i].nro_marco = tablas[TLB[i].PID][TLB[i].nro_pag + 1]
        BY DEF IInv, FilasDePaginas, FilasVigentes, Vigente
    <2>2. TLB[i].nro_pag + 1 \in 1 .. Len(tablas[TLB[i].PID])
        BY <1>4, <1>5, <2>1
    <2> QED BY <1>4, <1>5, <2>1, <2>2
  <1> QED BY <1>1, <1>3, <1>6 DEF IInv

LEMMA PasoIInv == IInv /\ Disciplina /\ [NextT]_todo => IInv'
  <1> SUFFICES ASSUME IInv, Disciplina, [NextT]_todo PROVE IInv'
      OBVIOUS
  <1>1. CASE UNCHANGED todo
      BY <1>1 DEF todo, vars, IInv, TypeOK, TablasOK, FilasDePaginas, FilasVigentes, Vigente
  <1>2. ASSUME NEW p \in Pid, NEW g \in Pagina, Traducir(p, g) PROVE IInv'
      BY <1>2, TraducirIInv
  <1>3. ASSUME NEW p \in Pid, Redimensionar(p) PROVE IInv'
      BY <1>3, AmpliarIInv DEF Redimensionar
  <1>4. ASSUME NEW p \in Pid, Terminar(p) PROVE IInv'
      BY <1>4 DEF Terminar, vars, IInv, TypeOK, TablasOK, FilasDePaginas, FilasVigentes, Vigente
  <1>5. ASSUME NEW p \in Pid, Devolver(p) PROVE IInv'
    <2>1. p \in terminados /\ tablas[p] # <<>> /\ tablas' = [tablas EXCEPT ![p] = Memoria!Front(@)]
        BY <1>5 DEF Devolver, Memoria!Reducir
    <2>2. TypeOK'
        BY <1>5 DEF Devolver, IInv, TypeOK, vars
    <2>3. Memoria!Front(tablas[p]) \in Seq(Marco)
        BY <2>1, SubSeqProperties DEF Memoria!Front, IInv, TablasOK
    <2>4. TablasOK'
        BY <1>5, <2>1, <2>3 DEF Devolver, IInv, TablasOK
    <2>5. FilasDePaginas' /\ FilasVigentes'
        BY <1>5, <2>1 DEF Devolver, vars, IInv, TablasOK, FilasDePaginas, FilasVigentes, Vigente
    <2> QED BY <2>2, <2>4, <2>5 DEF IInv
  <1> QED BY <1>1, <1>2, <1>3, <1>4, <1>5 DEF NextT

-----------------------------------------------------------------------------
(* Every variable keeps its type, disciplined programs or not: the index   *)
(* of FIFO and the row chosen by LRU are rows of the table.                *)
THEOREM SiempreTipos == SpecT => []TypeOK
  <1>1. InitT => TypeOK
      BY InicioIInv DEF IInv
  <1>2. TypeOK /\ [NextT]_todo => TypeOK'
    <2> SUFFICES ASSUME TypeOK, [NextT]_todo PROVE TypeOK'
        OBVIOUS
    <2>1. ASSUME NEW p \in Pid, NEW g \in Pagina, Traducir(p, g) PROVE TypeOK'
        BY <2>1, Acierto, Fallo DEF Traducir
    <2>2. CASE UNCHANGED vars
        BY <2>2 DEF TypeOK, vars
    <2> QED BY <2>1, <2>2 DEF NextT, Redimensionar, Terminar, Devolver, todo
  <1> QED BY <1>1, <1>2, PTL DEF SpecT

THEOREM Invariante == Disciplina => (SpecT => []IInv)
  <1> SUFFICES ASSUME Disciplina PROVE SpecT => []IInv
      OBVIOUS
  <1>1. InitT => IInv
      BY InicioIInv
  <1>2. IInv /\ [NextT]_todo => IInv'
      BY PasoIInv
  <1> QED BY <1>1, <1>2, PTL DEF SpecT

(* Nothing ever removes a row from the TLB, and yet none of a live process *)
(* that keeps to its pages names a frame that is not the page's.           *)
THEOREM FilasSiempreVigentes == Disciplina => (SpecT => []FilasVigentes)
  <1>1. IInv => FilasVigentes
      BY DEF IInv
  <1> QED BY <1>1, Invariante, PTL

(* Hit or miss, a lookup gives the frame that the memory assigned.         *)
THEOREM TraduccionSiempreCorrecta == Disciplina => (SpecT => TraduccionCorrecta)
  <1> SUFFICES ASSUME Disciplina PROVE SpecT => TraduccionCorrecta
      OBVIOUS
  <1>1. IInv /\ [NextT]_todo
          => [\A p \in Pid, g \in Pagina :
                Traducir(p, g) /\ g < Len(tablas[p]) => marco' = tablas[p][g + 1]]_todo
      BY TraducirCorrecto
  <1> QED BY <1>1, Invariante, PTL DEF SpecT, TraduccionCorrecta

-----------------------------------------------------------------------------
(***************************************************************************)
(* The table as the queue of CacheDeMarcos                                 *)
(***************************************************************************)
(* Who comes before whom is an order of numbers: the clock of the row, or  *)
(* its distance from the circular index.                                   *)
Turno == IF ultima_fila_modificada = tlb_size THEN 0 ELSE ultima_fila_modificada
Distancia(i) == IF i >= Turno THEN i - Turno ELSE i - Turno + tlb_size
Rango(i) == IF ALGORITMO_TLB = "LRU" THEN TLB[i].instante_referencia ELSE Distancia(i)

(* F lists the rows in use, n of them, in that order.                      *)
Lista(F, n) ==
  /\ n \in Nat /\ F \in [1 .. n -> Ocupadas]
  /\ \A i \in Ocupadas : \E k \in 1 .. n : F[k] = i
  /\ \A k, l \in 1 .. n : k < l => Rango(F[k]) < Rango(F[l])

(* Rows are taken from the first on, and the circular index waits until    *)
(* all are; a page of a process has one row; every reference to a row was  *)
(* at an instant of its own.                                               *)
SinSaltos == \A i \in Ocupadas, j \in Fila : j <= i => j \in Ocupadas
EsperaTurno == Ocupadas # Fila => ultima_fila_modificada = 0
UnaFila == \A i, j \in Ocupadas : TLB[i].PID = TLB[j].PID /\ TLB[i].nro_pag = TLB[j].nro_pag => i = j
Relojes == \A i \in Ocupadas : TLB[i].instante_referencia < instante_referencia

EnFila == \E n \in Nat : \E F \in [1 .. n -> Ocupadas] : Lista(F, n)

QInv == TypeOK /\ SinSaltos /\ EsperaTurno /\ UnaFila /\ Relojes /\ EnFila

LEMMA TurnoEsFila ==
  ASSUME TypeOK, tlb_size # 0
  PROVE  Turno \in Fila
  BY ConstantesOK DEF TypeOK, Turno, Fila

(* A row is found from another one around a table of s rows.               *)
LEMMA Vuelta ==
  ASSUME NEW s \in Nat, NEW i \in 0 .. s - 1, NEW t \in 0 .. s - 1
  PROVE  (i - t) % s = IF i >= t THEN i - t ELSE i - t + s
  <1>1. s \in Nat \ {0}
      OBVIOUS
  <1> DEFINE r == (i - t) % s
             q == (i - t) \div s
  <1>2. r \in 0 .. s - 1 /\ q \in Int /\ i - t = q * s + r
      BY <1>1, SMTT(30)
  <1> HIDE DEF r, q
  <1>3. q <= 0
    <2>1. SUFFICES ASSUME q >= 1 PROVE FALSE
        BY <1>2
    <2>2. q * s >= s
        BY <1>1, <1>2, <2>1, SMTT(30)
    <2> QED BY <1>2, <2>2
  <1>4. q >= -1
    <2>1. SUFFICES ASSUME q <= -2 PROVE FALSE
        BY <1>2
    <2>2. q * s <= (-2) * s
        BY <1>1, <1>2, <2>1, SMTT(30)
    <2> QED BY <1>2, <2>2
  <1>5. CASE q = 0
      BY <1>2, <1>5 DEF r
  <1>6. CASE q = -1
    <2>1. i - t = r - s
        BY <1>1, <1>2, <1>6
    <2> QED BY <1>2, <2>1 DEF r
  <1> QED BY <1>2, <1>3, <1>4, <1>5, <1>6

LEMMA AntesEsRango ==
  ASSUME TypeOK, NEW i \in Fila, NEW j \in Fila
  PROVE  /\ Rango(i) \in Int /\ Rango(j) \in Int
         /\ Antes(i, j) <=> Rango(i) < Rango(j)
  <1>1. tlb_size \in Nat /\ i \in 0 .. tlb_size - 1 /\ j \in 0 .. tlb_size - 1
        /\ Turno \in 0 .. tlb_size - 1
      BY TurnoEsFila, ConstantesOK DEF Fila
  <1>2. (i - Turno) % tlb_size = Distancia(i) /\ (j - Turno) % tlb_size = Distancia(j)
      BY <1>1, Vuelta DEF Distancia
  <1>3. CASE ALGORITMO_TLB = "LRU"
    <2>1. TLB[i].instante_referencia \in Int /\ TLB[j].instante_referencia \in Int
        BY ConstantesOK DEF TypeOK
    <2> QED BY <1>3, <2>1 DEF Rango, Antes
  <1>4. CASE ALGORITMO_TLB # "LRU"
    <2>1. Distancia(i) \in Int /\ Distancia(j) \in Int
        BY <1>1 DEF Distancia
    <2> QED BY <1>2, <1>4, <2>1 DEF Rango, Antes, Turno
  <1> QED BY <1>3, <1>4

(* There is one way to list a set in a strict order.                       *)
Ordena(f, n, S, r) ==
  /\ f \in [1 .. n -> S] /\ \A x \in S : \E k \in 1 .. n : f[k] = x
  /\ \A k, l \in 1 .. n : k < l => r[f[k]] < r[f[l]]

LEMMA OrdenaUnaVez ==
  ASSUME NEW n \in Nat, NEW S, NEW r \in [S -> Int], NEW f, Ordena(f, n, S, r)
  PROVE  \A a, b \in 1 .. n : f[a] = f[b] => a = b
  <1> SUFFICES ASSUME NEW a \in 1 .. n, NEW b \in 1 .. n, f[a] = f[b], a < b
               PROVE  FALSE
      OBVIOUS
  <1>1. r[f[a]] < r[f[b]]
      BY DEF Ordena
  <1>2. r[f[a]] \in Int
      BY DEF Ordena
  <1> QED BY <1>1, <1>2

LEMMA UnaLista ==
  ASSUME NEW n \in Nat, NEW S, NEW r \in [S -> Int],
         NEW f, NEW g, Ordena(f, n, S, r), Ordena(g, n, S, r)
  PROVE  f = g
  <1>6. \A a, b \in 1 .. n : (f[a] = f[b] \/ g[a] = g[b]) => a = b
      BY OrdenaUnaVez
  <1> USE DEF Ordena
  <1> DEFINE D == {k \in 1 .. n : f[k] # g[k]}
  <1> SUFFICES \A k \in 1 .. n : f[k] = g[k]
      OBVIOUS
  <1>1. SUFFICES ASSUME D # {} PROVE FALSE
      OBVIOUS
  <1>2. PICK k \in D : \A l \in D : k <= l
    <2>1. D \in SUBSET Nat
        OBVIOUS
    <2> QED BY <1>1, <2>1, HayPrimera
  <1>3. PICK j \in 1 .. n : g[j] = f[k]
      BY <1>2
  <1>4. PICK m \in 1 .. n : f[m] = g[k]
      BY <1>2
  <1>5. k \in 1 .. n /\ f[k] # g[k] /\ \A l \in 1 .. n : l < k => f[l] = g[l]
      BY <1>2
  <1>7. j > k
    <2>1. SUFFICES ASSUME j < k PROVE FALSE
        BY <1>3, <1>5
    <2> QED BY <1>3, <1>5, <1>6, <2>1
  <1>8. m > k
    <2>1. SUFFICES ASSUME m < k PROVE FALSE
        BY <1>4, <1>5
    <2> QED BY <1>4, <1>5, <1>6, <2>1
  <1>9. r[g[k]] < r[f[k]] /\ r[f[k]] < r[g[k]]
      BY <1>3, <1>4, <1>5, <1>7, <1>8
  <1>10. r[g[k]] \in Int /\ r[f[k]] \in Int
      BY <1>5
  <1> QED BY <1>9, <1>10

LEMMA ColaEs ==
  ASSUME TypeOK, NEW n, NEW F, Lista(F, n)
  PROVE  /\ Cola = [k \in 1 .. n |-> Traduccion(F[k])]
         /\ n = Cardinality(Ocupadas)
  <1>1. \A i \in Ocupadas : i \in Fila /\ Rango(i) \in Int
      BY AntesEsRango DEF Ocupadas
  <1>2. n \in Nat /\ F \in [1 .. n -> Ocupadas] /\ \A i \in Ocupadas : \E k \in 1 .. n : F[k] = i
      BY DEF Lista
  <1>3. \A k, l \in 1 .. n : k < l => Rango(F[k]) < Rango(F[l])
      BY DEF Lista
  <1>4. \A k, l \in 1 .. n : F[k] = F[l] => k = l
    <2>1. \A k \in 1 .. n : Rango(F[k]) \in Int
        BY <1>1, <1>2
    <2> QED BY <1>2, <1>3, <2>1
  <1>5. F \in Bijection(1 .. n, Ocupadas)
      BY <1>2, <1>4, Fun_IsBij
  <1>6. IsFiniteSet(1 .. n) /\ Cardinality(1 .. n) = n
      BY <1>2, FS_Interval
  <1>7. ExistsBijection(1 .. n, Ocupadas)
      BY <1>5, Fun_ExistsBij
  <1>8. IsFiniteSet(Ocupadas) /\ Cardinality(Ocupadas) = n
      BY <1>6, <1>7, FS_Bijection
  <1> DEFINE f == CHOOSE f \in SetToSeqs(Ocupadas) : EnOrden(f)
  <1>9. F \in SetToSeqs(Ocupadas)
      BY <1>2, <1>4, <1>8 DEF SetToSeqs
  <1>10. EnOrden(F)
    <2> SUFFICES ASSUME NEW k \in 1 .. n, NEW l \in 1 .. n, k < l PROVE ~Antes(F[l], F[k])
        BY <1>2 DEF EnOrden
    <2>1. F[k] \in Fila /\ F[l] \in Fila /\ Rango(F[k]) < Rango(F[l])
        BY <1>1, <1>2, <1>3
    <2> QED BY <2>1, AntesEsRango
  <1>11. f \in SetToSeqs(Ocupadas) /\ EnOrden(f)
      BY <1>9, <1>10
  <1> HIDE DEF f
  <1>12. f \in [1 .. n -> Ocupadas] /\ \A k, l \in 1 .. n : f[k] = f[l] => k = l
      BY <1>8, <1>11 DEF SetToSeqs
  <1>13. f \in Injection(1 .. n, Ocupadas)
      BY <1>12, Fun_IsInj
  <1>14. f \in Surjection(1 .. n, Ocupadas)
      BY <1>6, <1>8, <1>13, FS_Injection
  <1>15. \A i \in Ocupadas : \E k \in 1 .. n : f[k] = i
      BY <1>14 DEF Surjection
  <1>16. \A i, j \in Ocupadas : i # j => Rango(i) # Rango(j)
    <2> SUFFICES ASSUME NEW i \in Ocupadas, NEW j \in Ocupadas, i # j PROVE Rango(i) # Rango(j)
        OBVIOUS
    <2>1. PICK k \in 1 .. n, l \in 1 .. n : F[k] = i /\ F[l] = j
        BY <1>2
    <2>2. k < l \/ l < k
        BY <2>1
    <2>3. Rango(i) < Rango(j) \/ Rango(j) < Rango(i)
        BY <1>3, <2>1, <2>2
    <2> QED BY <1>1, <2>3
  <1>17. \A k, l \in 1 .. n : k < l => Rango(f[k]) < Rango(f[l])
    <2> SUFFICES ASSUME NEW k \in 1 .. n, NEW l \in 1 .. n, k < l PROVE Rango(f[k]) < Rango(f[l])
        OBVIOUS
    <2>1. ~Antes(f[l], f[k])
        BY <1>11, <1>12 DEF EnOrden
    <2>2. f[k] \in Ocupadas /\ f[l] \in Ocupadas /\ f[k] # f[l]
        BY <1>12
    <2>3. ~(Rango(f[l]) < Rango(f[k]))
        BY <1>1, <2>1, <2>2, AntesEsRango
    <2> QED BY <1>1, <1>16, <2>2, <2>3
  <1> DEFINE r == [i \in Ocupadas |-> Rango(i)]
  <1>18. r \in [Ocupadas -> Int]
      BY <1>1
  <1>19. Ordena(F, n, Ocupadas, r) /\ Ordena(f, n, Ocupadas, r)
      BY <1>2, <1>3, <1>12, <1>15, <1>17 DEF Ordena
  <1> HIDE DEF r
  <1>20. F = f
      BY <1>2, <1>18, <1>19, UnaLista
  <1>21. Cola = [k \in DOMAIN f |-> Traduccion(f[k])]
      BY DEF Cola, f
  <1> QED BY <1>2, <1>8, <1>20, <1>21

LEMMA ColaEsSiempre ==
  \A n, F : TypeOK /\ Lista(F, n) => Cola = [k \in 1 .. n |-> Traduccion(F[k])]
  BY ColaEs

LEMMA ColaEsLuego ==
  \A n, F : TypeOK' /\ Lista(F, n)' => Cola' = [k \in 1 .. n |-> Traduccion(F[k])']
  <1>1. (\A n, F : TypeOK /\ Lista(F, n) => Cola = [k \in 1 .. n |-> Traduccion(F[k])])'
      BY ColaEsSiempre, PTL
  <1> QED BY <1>1

LEMMA RangoEntero ==
  ASSUME TypeOK
  PROVE  \A i \in Ocupadas : i \in Fila /\ Rango(i) \in Int
  BY AntesEsRango DEF Ocupadas

(* The row at the k-th place goes to the last one, or a new one comes last. *)
Mover(F, n, k) == [l \in 1 .. n |-> IF l < k THEN F[l] ELSE IF l < n THEN F[l + 1] ELSE F[k]]
Agregar(F, n, i) == [l \in 1 .. n + 1 |-> IF l <= n THEN F[l] ELSE i]

LEMMA ListaMovida ==
  ASSUME TypeOK, TypeOK', NEW n, NEW F, Lista(F, n), NEW k \in 1 .. n, UNCHANGED Ocupadas,
         \A i, j \in Ocupadas \ {F[k]} : Rango(i) < Rango(j) => Rango(i)' < Rango(j)',
         \A i \in Ocupadas \ {F[k]} : Rango(i)' < Rango(F[k])'
  PROVE  Lista(Mover(F, n, k), n)'
  <1> DEFINE G == Mover(F, n, k)
  <1>1. n \in Nat /\ F \in [1 .. n -> Ocupadas] /\ \A i \in Ocupadas : \E l \in 1 .. n : F[l] = i
      BY DEF Lista
  <1>2. \A l, m \in 1 .. n : l < m => Rango(F[l]) < Rango(F[m])
      BY DEF Lista
  <1>3. \A l, m \in 1 .. n : F[l] = F[m] => l = m
    <2>1. \A l \in 1 .. n : Rango(F[l]) \in Int
        BY <1>1, RangoEntero
    <2> QED BY <1>1, <1>2, <2>1
  <1>4. /\ \A l \in 1 .. n : l < k => G[l] = F[l]
        /\ \A l \in 1 .. n : k <= l /\ l < n => l + 1 \in 1 .. n /\ G[l] = F[l + 1]
        /\ n \in 1 .. n /\ G[n] = F[k]
      BY <1>1 DEF Mover
  <1>5. G \in [1 .. n -> Ocupadas]
      BY <1>1 DEF Mover
  <1>6. \A i \in Ocupadas : \E l \in 1 .. n : G[l] = i
    <2> SUFFICES ASSUME NEW i \in Ocupadas PROVE \E l \in 1 .. n : G[l] = i
        OBVIOUS
    <2>1. PICK l \in 1 .. n : F[l] = i
        BY <1>1
    <2>2. CASE l < k
        BY <1>4, <2>1, <2>2
    <2>3. CASE l = k
        BY <1>4, <2>1, <2>3
    <2>4. CASE l > k
      <3>1. l - 1 \in 1 .. n /\ k <= l - 1 /\ l - 1 < n
          BY <1>1, <2>4
      <3> QED BY <1>4, <2>1, <3>1
    <2> QED BY <1>1, <2>2, <2>3, <2>4
  <1>7. \A l \in 1 .. n : l < n => \E m \in 1 .. n \ {k} :
          G[l] = F[m] /\ (l < k => m = l) /\ (l >= k => m = l + 1)
    <2> SUFFICES ASSUME NEW l \in 1 .. n, l < n
                 PROVE  \E m \in 1 .. n \ {k} : G[l] = F[m] /\ (l < k => m = l) /\ (l >= k => m = l + 1)
        OBVIOUS
    <2>1. CASE l < k
        BY <1>1, <1>4, <2>1
    <2>2. CASE l >= k
        BY <1>1, <1>4, <2>2
    <2> QED BY <1>1, <2>1, <2>2
  <1> HIDE DEF G
  <1>8. \A l, m \in 1 .. n : l < m => Rango(G[l])' < Rango(G[m])'
    <2> SUFFICES ASSUME NEW l \in 1 .. n, NEW m \in 1 .. n, l < m PROVE Rango(G[l])' < Rango(G[m])'
        OBVIOUS
    <2>1. PICK a \in 1 .. n \ {k} : G[l] = F[a] /\ (l < k => a = l) /\ (l >= k => a = l + 1)
      <3>1. l < n
          BY <1>1
      <3> QED BY <1>7, <3>1
    <2>2. F[a] \in Ocupadas \ {F[k]}
        BY <1>1, <1>3
    <2>3. CASE m = n
        BY <1>4, <2>1, <2>2, <2>3
    <2>4. CASE m < n
      <3>1. PICK b \in 1 .. n \ {k} : G[m] = F[b] /\ (m < k => b = m) /\ (m >= k => b = m + 1)
          BY <1>7, <2>4
      <3>2. a < b
          BY <1>1, <2>1, <3>1
      <3>3. F[b] \in Ocupadas \ {F[k]}
          BY <1>1, <1>3
      <3> QED BY <1>2, <2>1, <2>2, <3>1, <3>2, <3>3
    <2> QED BY <1>1, <2>3, <2>4
  <1>9. Lista(G, n)'
      BY <1>1, <1>5, <1>6, <1>8 DEF Lista
  <1> QED BY <1>9 DEF G

LEMMA ListaAgregada ==
  ASSUME TypeOK, NEW n, NEW F, Lista(F, n), NEW i, i \notin Ocupadas,
         Ocupadas' = Ocupadas \cup {i},
         \A j, l \in Ocupadas : Rango(j) < Rango(l) => Rango(j)' < Rango(l)',
         \A j \in Ocupadas : Rango(j)' < Rango(i)'
  PROVE  Lista(Agregar(F, n, i), n + 1)'
  <1> DEFINE G == Agregar(F, n, i)
  <1>1. n \in Nat /\ F \in [1 .. n -> Ocupadas] /\ \A j \in Ocupadas : \E l \in 1 .. n : F[l] = j
      BY DEF Lista
  <1>2. \A l, m \in 1 .. n : l < m => Rango(F[l]) < Rango(F[m])
      BY DEF Lista
  <1>3. (\A l \in 1 .. n : l \in 1 .. n + 1 /\ G[l] = F[l]) /\ n + 1 \in 1 .. n + 1 /\ G[n + 1] = i
      BY <1>1 DEF Agregar
  <1>4. G \in [1 .. n + 1 -> Ocupadas']
      BY <1>1 DEF Agregar
  <1>5. \A j \in Ocupadas' : \E l \in 1 .. n + 1 : G[l] = j
      BY <1>1, <1>3
  <1> HIDE DEF G
  <1>6. \A l, m \in 1 .. n + 1 : l < m => Rango(G[l])' < Rango(G[m])'
    <2> SUFFICES ASSUME NEW l \in 1 .. n + 1, NEW m \in 1 .. n + 1, l < m PROVE Rango(G[l])' < Rango(G[m])'
        OBVIOUS
    <2>1. l \in 1 .. n /\ (m \in 1 .. n \/ m = n + 1)
        BY <1>1
    <2>2. F[l] \in Ocupadas /\ (m \in 1 .. n => F[m] \in Ocupadas)
        BY <1>1, <2>1
    <2> QED BY <1>2, <1>3, <2>1, <2>2
  <1>7. Lista(G, n + 1)'
      BY <1>1, <1>4, <1>5, <1>6 DEF Lista
  <1> QED BY <1>7 DEF G

(* What the operators of sequences of CacheDeMarcos give, place by place.  *)
LEMMA MoverAlFinal ==
  ASSUME NEW S, NEW s \in Seq(S), NEW k \in 1 .. Len(s)
  PROVE  Append(RemoveAt(s, k), s[k]) = Mover(s, Len(s), k)
  <1> DEFINE a == SubSeq(s, 1, k - 1)
             b == SubSeq(s, k + 1, Len(s))
             m == Mover(s, Len(s), k)
  <1>1. Len(s) \in Nat /\ \A l \in 1 .. Len(s) : s[l] \in S
      BY LenProperties, ElementOfSeq
  <1>2. a \in Seq(S) /\ Len(a) = k - 1 /\ \A l \in 1 .. k - 1 : a[l] = s[l]
      BY <1>1, SubSeqProperties
  <1>3. b \in Seq(S) /\ Len(b) = Len(s) - k /\ \A l \in 1 .. Len(s) - k : b[l] = s[l + k]
    <2>1. \A l \in k + 1 .. Len(s) : s[l] \in S
        BY <1>1
    <2>2. /\ b \in Seq(S) /\ Len(b) = IF k + 1 <= Len(s) THEN Len(s) - (k + 1) + 1 ELSE 0
          /\ \A l \in 1 .. Len(s) - (k + 1) + 1 : b[l] = s[k + 1 + l - 1]
        BY <1>1, <2>1, SubSeqProperties
    <2> QED BY <1>1, <2>2
  <1> HIDE DEF a, b
  <1> DEFINE c == a \o b
  <1>4. /\ c \in Seq(S) /\ Len(c) = Len(s) - 1
        /\ \A l \in 1 .. Len(s) - 1 : c[l] = IF l <= k - 1 THEN a[l] ELSE b[l - (k - 1)]
    <2>1. /\ c \in Seq(S) /\ Len(c) = Len(a) + Len(b)
          /\ \A l \in 1 .. Len(a) + Len(b) : c[l] = IF l <= Len(a) THEN a[l] ELSE b[l - Len(a)]
        BY <1>2, <1>3, ConcatProperties
    <2> HIDE DEF c
    <2>2. Len(a) + Len(b) = Len(s) - 1
        BY <1>1, <1>2, <1>3
    <2> QED BY <1>2, <2>1, <2>2
  <1>5. \A l \in 1 .. Len(s) - 1 : c[l] = IF l < k THEN s[l] ELSE s[l + 1]
    <2> SUFFICES ASSUME NEW l \in 1 .. Len(s) - 1 PROVE c[l] = IF l < k THEN s[l] ELSE s[l + 1]
        OBVIOUS
    <2>1. CASE l < k
        BY <1>1, <1>2, <1>4, <2>1
    <2>2. CASE ~(l < k)
      <3>1. l - (k - 1) \in 1 .. Len(s) - k /\ l - (k - 1) + k = l + 1
          BY <1>1, <2>2
      <3> QED BY <1>1, <1>3, <1>4, <2>2, <3>1
    <2> QED BY <1>1, <2>1, <2>2
  <1> HIDE DEF c
  <1>6. /\ Append(c, s[k]) \in Seq(S) /\ Len(Append(c, s[k])) = Len(s)
        /\ \A l \in 1 .. Len(s) - 1 : Append(c, s[k])[l] = c[l]
        /\ Append(c, s[k])[Len(s)] = s[k]
      BY <1>1, <1>4, AppendProperties
  <1>7. DOMAIN Append(c, s[k]) = 1 .. Len(s)
      BY <1>6, LenProperties
  <1>8. \A l \in 1 .. Len(s) : Append(c, s[k])[l] = m[l]
      BY <1>1, <1>5, <1>6 DEF Mover
  <1>9. Append(c, s[k]) \in [1 .. Len(s) -> S] /\ m \in [1 .. Len(s) -> S]
    <2>1. Append(c, s[k]) \in [1 .. Len(s) -> S]
        BY <1>6, LenProperties
    <2>2. \A l \in 1 .. Len(s) : l < Len(s) => l + 1 \in 1 .. Len(s)
        BY <1>1
    <2>3. m \in [1 .. Len(s) -> S]
        BY <1>1, <2>2 DEF Mover
    <2> QED BY <2>1, <2>3
  <1>10. Append(c, s[k]) = m
      BY <1>8, <1>9
  <1> QED BY <1>10 DEF RemoveAt, a, b, c

LEMMA ColaSeq ==
  ASSUME TypeOK, NEW n, NEW F, Lista(F, n)
  PROVE  /\ Cola \in Seq([clave: Pid \X Pagina, marco: Marco]) /\ Len(Cola) = n
         /\ DOMAIN Cola = 1 .. n
         /\ \A k \in 1 .. n : F[k] \in Ocupadas /\ Cola[k] = Traduccion(F[k])
  <1> DEFINE S == [clave: Pid \X Pagina, marco: Marco]
  <1>1. Cola = [k \in 1 .. n |-> Traduccion(F[k])]
      BY ColaEs
  <1>2. n \in Nat /\ \A k \in 1 .. n : F[k] \in Ocupadas
      BY DEF Lista
  <1>3. \A i \in Ocupadas : Traduccion(i) \in S
      BY DEF TypeOK, Ocupadas, Traduccion
  <1> HIDE DEF S
  <1>4. Cola \in [1 .. n -> S]
      BY <1>1, <1>2, <1>3
  <1>5. Cola \in Seq(S) /\ Len(Cola) = n
      BY <1>2, <1>4
  <1> QED BY <1>1, <1>2, <1>5 DEF S

(* The queue after a row goes to the end of the order, itself or replaced. *)
LEMMA ColaMovida ==
  ASSUME TypeOK, TypeOK', NEW n, NEW F, Lista(F, n), NEW k \in 1 .. n, UNCHANGED Ocupadas,
         \A i, j \in Ocupadas \ {F[k]} : Rango(i) < Rango(j) => Rango(i)' < Rango(j)',
         \A i \in Ocupadas \ {F[k]} : Rango(i)' < Rango(F[k])',
         \A i \in Ocupadas \ {F[k]} : Traduccion(i)' = Traduccion(i)
  PROVE  /\ EnFila'
         /\ Cola' = [l \in 1 .. n |-> IF l < k THEN Cola[l] ELSE IF l < n THEN Cola[l + 1]
                                      ELSE Traduccion(F[k])']
  <1> DEFINE G == Mover(F, n, k)
  <1>1. n \in Nat /\ F \in [1 .. n -> Ocupadas] /\ \A l, m \in 1 .. n : F[l] = F[m] => l = m
    <2>1. n \in Nat /\ F \in [1 .. n -> Ocupadas] /\ \A l, m \in 1 .. n : l < m => Rango(F[l]) < Rango(F[m])
        BY DEF Lista
    <2>2. \A l \in 1 .. n : Rango(F[l]) \in Int
        BY <2>1, RangoEntero
    <2> QED BY <2>1, <2>2
  <1>2. Lista(G, n)'
      BY ListaMovida
  <1>3. EnFila'
      BY <1>1, <1>2 DEF EnFila, Lista
  <1>4. Cola' = [l \in 1 .. n |-> Traduccion(G[l])']
      BY <1>2, ColaEsLuego DEF Mover
  <1>5. \A l \in 1 .. n : F[l] \in Ocupadas /\ Cola[l] = Traduccion(F[l])
      BY ColaSeq
  <1>6. \A l \in 1 .. n : Traduccion(G[l])' = IF l < k THEN Cola[l] ELSE IF l < n THEN Cola[l + 1]
                                              ELSE Traduccion(F[k])'
    <2> SUFFICES ASSUME NEW l \in 1 .. n
                 PROVE  Traduccion(G[l])' = IF l < k THEN Cola[l] ELSE IF l < n THEN Cola[l + 1]
                                            ELSE Traduccion(F[k])'
        OBVIOUS
    <2>1. CASE l < k
      <3>1. G[l] = F[l] /\ F[l] \in Ocupadas \ {F[k]}
          BY <1>1, <2>1 DEF Mover
      <3> HIDE DEF G
      <3> QED BY <1>5, <2>1, <3>1
    <2>2. CASE ~(l < k) /\ l < n
      <3>1. l + 1 \in 1 .. n /\ G[l] = F[l + 1] /\ F[l + 1] \in Ocupadas \ {F[k]}
          BY <1>1, <2>2 DEF Mover
      <3> HIDE DEF G
      <3> QED BY <1>5, <2>2, <3>1
    <2>3. CASE ~(l < k) /\ ~(l < n)
      <3>1. G[l] = F[k]
          BY <1>1, <2>3 DEF Mover
      <3> HIDE DEF G
      <3> QED BY <2>3, <3>1
    <2> QED BY <2>1, <2>2, <2>3
  <1> QED BY <1>3, <1>4, <1>6

-----------------------------------------------------------------------------
(* A hit gives what the queue has; LRU sends it to the end, FIFO does not  *)
(* touch the queue.                                                        *)
LEMMA AciertoEnCola ==
  ASSUME QInv, NEW p \in Pid, NEW g \in Pagina, instante_referencia < MaxInstante,
         UNCHANGED ALGORITMO_TLB, conseguir_marco_en_la_tlb(p, g)
  PROVE  QInv' /\ Cache!Next
  <1> DEFINE filas == {i \in Fila : Tiene(i, p, g)}
             f == Primera(filas)
             c == <<p, g>>
  <1>1. f \in filas
      BY PrimeraFila DEF conseguir_marco_en_la_tlb
  <1>2. /\ marco' = TLB[f].nro_marco
        /\ TLB' = [TLB EXCEPT ![f].instante_referencia = instante_referencia]
        /\ instante_referencia' = instante_referencia + 1
        /\ UNCHANGED ultima_fila_modificada
      BY DEF conseguir_marco_en_la_tlb
  <1> HIDE DEF filas, f
  <1>3. f \in Fila /\ TLB[f].PID = p /\ TLB[f].nro_pag = g
      BY <1>1 DEF filas, Tiene
  <1>4. f \in Ocupadas
      BY <1>3, ConstantesOK DEF Ocupadas, Nadie
  <1>5. TypeOK /\ TypeOK'
      BY Acierto DEF QInv
  <1>6. /\ \A i \in Fila : i # f => TLB'[i] = TLB[i]
        /\ \A i \in Fila : TLB'[i].PID = TLB[i].PID /\ TLB'[i].nro_pag = TLB[i].nro_pag
                           /\ TLB'[i].nro_marco = TLB[i].nro_marco
        /\ TLB'[f].instante_referencia = instante_referencia
      BY <1>2, <1>3, <1>5 DEF TypeOK
  <1>7. Ocupadas' = Ocupadas
      BY <1>6 DEF Ocupadas
  <1>8. \A i \in Ocupadas : Traduccion(i)' = Traduccion(i)
      BY <1>6 DEF Traduccion, Ocupadas
  <1>9. SinSaltos' /\ EsperaTurno' /\ UnaFila'
      BY <1>2, <1>6, <1>7 DEF QInv, SinSaltos, EsperaTurno, UnaFila, Ocupadas
  <1>10. Relojes'
    <2> SUFFICES ASSUME NEW i \in Ocupadas PROVE TLB'[i].instante_referencia < instante_referencia'
        BY <1>7 DEF Relojes
    <2>1. i \in Fila /\ TLB[i].instante_referencia \in Nat /\ instante_referencia \in Nat
          /\ TLB[i].instante_referencia < instante_referencia
        BY <1>5, ConstantesOK DEF Ocupadas, TypeOK, QInv, Relojes
    <2> QED BY <1>2, <1>6, <2>1
  <1>11. PICK n, F : Lista(F, n)
      BY DEF QInv, EnFila
  <1>12. PICK k \in 1 .. n : F[k] = f
      BY <1>4, <1>11 DEF Lista
  <1>13. /\ Cola \in Seq([clave: Pid \X Pagina, marco: Marco]) /\ Len(Cola) = n
         /\ DOMAIN Cola = 1 .. n /\ Cola[k] = Traduccion(f)
      BY <1>5, <1>11, <1>12, ColaSeq
  <1>14. Cola[k].clave = c /\ marco' = Cola[k].marco
      BY <1>2, <1>3, <1>13 DEF Traduccion
  <1>15. CASE ALGORITMO_TLB = "LRU"
    <2>1. \A i \in Ocupadas : Rango(i) = TLB[i].instante_referencia /\ Rango(i)' = TLB'[i].instante_referencia
        BY <1>15 DEF Rango
    <2>2. \A i, j \in Ocupadas \ {F[k]} : Rango(i) < Rango(j) => Rango(i)' < Rango(j)'
        BY <1>6, <1>12, <2>1 DEF Ocupadas
    <2>3. \A i \in Ocupadas \ {F[k]} : Rango(i)' < Rango(F[k])'
        BY <1>4, <1>6, <1>12, <2>1 DEF Ocupadas, QInv, Relojes
    <2>4. /\ EnFila'
          /\ Cola' = [l \in 1 .. n |-> IF l < k THEN Cola[l] ELSE IF l < n THEN Cola[l + 1]
                                       ELSE Traduccion(F[k])']
        BY <1>5, <1>7, <1>8, <1>11, <2>2, <2>3, ColaMovida
    <2>5. Cola' = Mover(Cola, n, k)
        BY <1>4, <1>8, <1>12, <1>13, <2>4 DEF Mover
    <2>6. Cola' = Append(RemoveAt(Cola, k), Cola[k])
        BY <1>13, <2>5, MoverAlFinal
    <2>7. Cache!Acierto(c)
        BY <1>13, <1>14, <1>15, <2>6 DEF Cache!Acierto, RemoveAt, Cache!RemoveAt
    <2> QED BY <1>5, <1>9, <1>10, <2>4, <2>7 DEF QInv, Cache!Next
  <1>16. CASE ALGORITMO_TLB # "LRU"
    <2>1. \A i \in Ocupadas : Rango(i)' = Rango(i)
        BY <1>2, <1>16 DEF Rango, Distancia, Turno
    <2>2. Lista(F, n)'
        BY <1>7, <1>11, <2>1 DEF Lista
    <2>3. EnFila'
        BY <1>7, <2>2 DEF EnFila, Lista
    <2>4. Cola' = [l \in 1 .. n |-> Traduccion(F[l])'] /\ Cola = [l \in 1 .. n |-> Traduccion(F[l])]
        BY <1>5, <1>11, <2>2, ColaEs, ColaEsLuego
    <2>5. Cola' = Cola
      <3>1. \A l \in 1 .. n : Traduccion(F[l])' = Traduccion(F[l])
          BY <1>8, <1>11 DEF Lista
      <3> QED BY <2>4, <3>1
    <2>6. ALGORITMO_TLB = "FIFO"
        BY <1>5, <1>16, ConstantesOK DEF TypeOK
    <2>7. Cache!Acierto(c)
        BY <1>13, <1>14, <2>5, <2>6 DEF Cache!Acierto
    <2> QED BY <1>5, <1>9, <1>10, <2>3, <2>7 DEF QInv, Cache!Next
  <1> QED BY <1>15, <1>16

LEMMA TablaLlena ==
  ASSUME SinSaltos, NEW h \in Fila, h \notin Ocupadas, \A j \in Fila : j < h => j \in Ocupadas
  PROVE  Ocupadas = 0 .. h - 1
  <1>1. tlb_size \in Nat /\ Fila = 0 .. tlb_size - 1 /\ Ocupadas \subseteq Fila
      BY ConstantesOK DEF Fila, Ocupadas
  <1>2. \A i \in Ocupadas : ~(h <= i)
      BY DEF SinSaltos
  <1>3. \A i \in Ocupadas : i \in 0 .. h - 1
      BY <1>1, <1>2
  <1>4. \A j \in 0 .. h - 1 : j \in Ocupadas
      BY <1>1
  <1> QED BY <1>3, <1>4

(* A miss that finds a free row puts the translation at the end.           *)
LEMMA FalloConHueco ==
  ASSUME QInv, NEW p \in Pid, NEW g \in Pagina, NEW m \in Marco, UNCHANGED ALGORITMO_TLB, TypeOK',
         PedirMarco(p, g, m), tlb_size # 0, Ocupadas # Fila
  PROVE  QInv' /\ Cache!Next
  <1> DEFINE nueva == [PID |-> p, nro_pag |-> g, nro_marco |-> m,
                       instante_referencia |-> instante_referencia]
             huecos == {i \in Fila : TLB[i].PID = Nadie}
             c == <<p, g>>
  <1>0. PICK h : h = Primera(huecos)
      OBVIOUS
  <1>1. TypeOK
      BY DEF QInv
  <1>2. huecos # {} /\ huecos \in SUBSET Nat
      BY ConstantesOK DEF Ocupadas, Fila
  <1>3. h \in huecos /\ \A j \in huecos : h <= j
      BY <1>0, <1>2, HayPrimera
  <1>4. TLB' = [TLB EXCEPT ![h] = nueva] /\ UNCHANGED ultima_fila_modificada
      BY <1>0, <1>2 DEF PedirMarco, agregar_a_tlb
  <1>5. marco' = m /\ instante_referencia' = instante_referencia + 1
      BY DEF PedirMarco
  <1>6. h \in Fila /\ h \notin Ocupadas
      BY <1>3 DEF Ocupadas
  <1>7. \A j \in Fila : j < h => j \in Ocupadas
    <2> SUFFICES ASSUME NEW j \in Fila, j < h, j \notin Ocupadas PROVE FALSE
        OBVIOUS
    <2>1. h <= j
        BY <1>3 DEF Ocupadas
    <2> QED BY <1>6, <2>1, ConstantesOK DEF Fila
  <1>8. Ocupadas = 0 .. h - 1
      BY <1>6, <1>7, TablaLlena DEF QInv
  <1>9. h \in 0 .. tlb_size - 1 /\ tlb_size \in Nat
      BY <1>6, ConstantesOK DEF Fila
  <1> HIDE DEF huecos
  <1>10. TLB'[h] = nueva /\ \A i \in Fila : i # h => TLB'[i] = TLB[i]
      BY <1>1, <1>4, <1>6 DEF TypeOK
  <1>11. p # Nadie
      BY ConstantesOK DEF Nadie
  <1>12. Ocupadas' = Ocupadas \cup {h}
      BY <1>6, <1>10, <1>11 DEF Ocupadas
  <1>13. \A i \in Ocupadas : i \in Fila /\ TLB'[i] = TLB[i] /\ i < h
      BY <1>6, <1>8, <1>9, <1>10 DEF Ocupadas
  <1>14. SinSaltos'
    <2> SUFFICES ASSUME NEW i \in Ocupadas \cup {h}, NEW j \in Fila, j <= i PROVE j \in Ocupadas \cup {h}
        BY <1>12 DEF SinSaltos
    <2>1. i \in 0 .. h /\ j \in 0 .. tlb_size - 1
        BY <1>8, <1>9 DEF Fila
    <2> QED BY <1>8, <1>9, <2>1
  <1>15. EsperaTurno' /\ ultima_fila_modificada = 0 /\ ultima_fila_modificada' = 0
      BY <1>4 DEF QInv, EsperaTurno
  <1>16. \A i \in Ocupadas : ~(TLB[i].PID = p /\ TLB[i].nro_pag = g)
      BY DEF PedirMarco, Tiene, Ocupadas
  <1>17. UnaFila'
    <2> SUFFICES ASSUME NEW i \in Ocupadas \cup {h}, NEW j \in Ocupadas \cup {h},
                        TLB'[i].PID = TLB'[j].PID, TLB'[i].nro_pag = TLB'[j].nro_pag
                 PROVE  i = j
        BY <1>12 DEF UnaFila
    <2> QED BY <1>10, <1>13, <1>16 DEF QInv, UnaFila
  <1>18. \A i \in Ocupadas : TLB[i].instante_referencia \in Nat
                             /\ TLB[i].instante_referencia < instante_referencia
      BY <1>1, ConstantesOK DEF Ocupadas, TypeOK, QInv, Relojes
  <1>19. instante_referencia \in Nat
      BY <1>1, ConstantesOK DEF TypeOK
  <1>20. Relojes'
      BY <1>5, <1>10, <1>12, <1>13, <1>18, <1>19 DEF Relojes
  <1>21. \A i \in Ocupadas : Rango(i)' = Rango(i) /\ Rango(i)' < Rango(h)'
    <2>1. CASE ALGORITMO_TLB = "LRU"
        BY <1>10, <1>13, <1>18, <2>1 DEF Rango
    <2>2. CASE ALGORITMO_TLB # "LRU"
      <3>1. Turno = 0 /\ Turno' = 0
          BY <1>15 DEF Turno
      <3>2. \A i \in 0 .. h : Rango(i) = i /\ Rango(i)' = i
          BY <1>9, <2>2, <3>1 DEF Rango, Distancia
      <3> QED BY <1>8, <1>9, <3>2
    <2> QED BY <2>1, <2>2
  <1>22. PICK n, F : Lista(F, n)
      BY DEF QInv, EnFila
  <1>23. Lista(Agregar(F, n, h), n + 1)'
      BY <1>1, <1>6, <1>12, <1>21, <1>22, ListaAgregada
  <1>24. n \in Nat /\ EnFila'
      BY <1>22, <1>23 DEF EnFila, Lista
  <1>25. n < tlb_size
    <2>1. n = Cardinality(0 .. h - 1)
        BY <1>1, <1>8, <1>22, ColaEs
    <2>2. Cardinality(0 .. h - 1) = h
        BY <1>9, FS_Interval
    <2> QED BY <1>9, <2>1, <2>2
  <1>26. /\ Cola \in Seq([clave: Pid \X Pagina, marco: Marco]) /\ Len(Cola) = n /\ DOMAIN Cola = 1 .. n
         /\ \A k \in 1 .. n : F[k] \in Ocupadas /\ Cola[k] = Traduccion(F[k])
      BY <1>1, <1>22, ColaSeq
  <1>27. \A k \in 1 .. n : Cola[k].clave # c
      BY <1>16, <1>26 DEF Traduccion
  <1>28. Cola' = Append(Cola, [clave |-> c, marco |-> m])
    <2>1. Cola' = [k \in 1 .. n + 1 |-> Traduccion(Agregar(F, n, h)[k])']
        BY <1>23, ColaEsLuego
    <2>2. Traduccion(h)' = [clave |-> c, marco |-> m]
        BY <1>10 DEF Traduccion
    <2>3. \A k \in 1 .. n : Traduccion(F[k])' = Cola[k]
        BY <1>13, <1>26 DEF Traduccion
    <2>4. \A k \in 1 .. n + 1 :
            Traduccion(Agregar(F, n, h)[k])' = IF k <= n THEN Cola[k] ELSE [clave |-> c, marco |-> m]
        BY <1>24, <2>2, <2>3 DEF Agregar
    <2>5. Cola' = [k \in 1 .. n + 1 |-> IF k <= n THEN Cola[k] ELSE [clave |-> c, marco |-> m]]
        BY <2>1, <2>4
    <2> HIDE DEF c
    <2> QED BY <1>24, <1>26, <2>5
  <1>29. Cache!Fallo(c, m)
      BY <1>5, <1>9, <1>25, <1>26, <1>27, <1>28 DEF Cache!Fallo
  <1> QED BY <1>14, <1>15, <1>17, <1>20, <1>24, <1>29 DEF QInv, Cache!Next

(* A miss with every row in use replaces the first of the order: FIFO's    *)
(* circular index is at it, LRU looks for it.                              *)
LEMMA FalloSinHueco ==
  ASSUME QInv, NEW p \in Pid, NEW g \in Pagina, NEW m \in Marco, UNCHANGED ALGORITMO_TLB, TypeOK',
         PedirMarco(p, g, m), tlb_size # 0, Ocupadas = Fila
  PROVE  QInv' /\ Cache!Next
  <1> DEFINE nueva == [PID |-> p, nro_pag |-> g, nro_marco |-> m,
                       instante_referencia |-> instante_referencia]
             huecos == {i \in Fila : TLB[i].PID = Nadie}
             menores == {i \in Fila : \A j \in Fila :
                           TLB[i].instante_referencia <= TLB[j].instante_referencia}
             c == <<p, g>>
  <1>1. TypeOK
      BY DEF QInv
  <1>2. huecos = {}
      BY DEF Ocupadas
  <1>3. tlb_size \in Nat \ {0} /\ Fila = 0 .. tlb_size - 1 /\ Turno \in Fila
      BY <1>1, TurnoEsFila, ConstantesOK DEF Fila
  <1>4. ALGORITMO_TLB \in {"FIFO", "LRU"}
      BY <1>1, ConstantesOK DEF TypeOK
  <1>5. PICK r : r = IF ALGORITMO_TLB = "FIFO" THEN Turno ELSE buscar_tlb_con_menor_referencia
      OBVIOUS
  <1>6. r \in Fila /\ (ALGORITMO_TLB = "LRU" => r \in menores)
    <2>1. CASE ALGORITMO_TLB = "FIFO"
        BY <1>3, <1>5, <2>1
    <2>2. CASE ALGORITMO_TLB = "LRU"
      <3>1. menores # {}
          BY <1>1, FilaMasVieja
      <3>2. r \in menores
          BY <1>5, <2>2, <3>1, PrimeraFila DEF buscar_tlb_con_menor_referencia
      <3> QED BY <3>2
    <2> QED BY <1>4, <2>1, <2>2
  <1>7. /\ TLB' = [TLB EXCEPT ![r] = nueva]
        /\ ultima_fila_modificada' = IF ALGORITMO_TLB = "FIFO" THEN Turno + 1 ELSE ultima_fila_modificada
      BY <1>2, <1>5 DEF PedirMarco, agregar_a_tlb, Turno
  <1>8. marco' = m /\ instante_referencia' = instante_referencia + 1
      BY DEF PedirMarco
  <1>9. TLB'[r] = nueva /\ \A i \in Fila : i # r => TLB'[i] = TLB[i]
      BY <1>1, <1>6, <1>7 DEF TypeOK
  <1>10. Ocupadas' = Fila
    <2>1. p # Nadie
        BY ConstantesOK DEF Nadie
    <2> QED BY <1>2, <1>9, <2>1 DEF Ocupadas
  <1>11. SinSaltos' /\ EsperaTurno'
      BY <1>10 DEF SinSaltos, EsperaTurno
  <1>12. \A i \in Fila : ~(TLB[i].PID = p /\ TLB[i].nro_pag = g)
      BY DEF PedirMarco, Tiene
  <1>13. UnaFila'
    <2> SUFFICES ASSUME NEW i \in Fila, NEW j \in Fila,
                        TLB'[i].PID = TLB'[j].PID, TLB'[i].nro_pag = TLB'[j].nro_pag
                 PROVE  i = j
        BY <1>10 DEF UnaFila
    <2> QED BY <1>9, <1>12 DEF QInv, UnaFila
  <1>14. \A i \in Fila : TLB[i].instante_referencia \in Nat
                         /\ TLB[i].instante_referencia < instante_referencia
      BY <1>1, ConstantesOK DEF TypeOK, QInv, Relojes
  <1>15. instante_referencia \in Nat
      BY <1>1, ConstantesOK DEF TypeOK
  <1>16. Relojes'
      BY <1>8, <1>9, <1>10, <1>14, <1>15 DEF Relojes
  <1>17. \A i \in Fila \ {r} : Rango(i)' < Rango(r)'
                               /\ \A j \in Fila \ {r} : Rango(i) < Rango(j) => Rango(i)' < Rango(j)'
    <2>1. CASE ALGORITMO_TLB = "LRU"
        BY <1>9, <1>14, <2>1 DEF Rango
    <2>2. CASE ALGORITMO_TLB = "FIFO"
      <3>1. r = Turno /\ Turno' = IF r + 1 = tlb_size THEN 0 ELSE r + 1
          BY <1>5, <1>7, <2>2 DEF Turno
      <3>2. Distancia(r)' = tlb_size - 1
          BY <1>3, <1>6, <3>1 DEF Distancia
      <3>3. \A i \in Fila \ {r} : Distancia(i)' = Distancia(i) - 1 /\ Distancia(i) \in 1 .. tlb_size - 1
          BY <1>3, <1>6, <3>1 DEF Distancia
      <3>4. \A i \in Fila : Rango(i) = Distancia(i) /\ Rango(i)' = Distancia(i)'
          BY <2>2 DEF Rango
      <3> QED BY <1>3, <1>6, <3>2, <3>3, <3>4
    <2> QED BY <1>4, <2>1, <2>2
  <1>18. \A i \in Fila : ~(Rango(i) < Rango(r))
    <2>1. CASE ALGORITMO_TLB = "LRU"
        BY <1>6, <1>14, <2>1 DEF Rango
    <2>2. CASE ALGORITMO_TLB = "FIFO"
      <3>1. Rango(r) = 0
          BY <1>3, <1>5, <2>2 DEF Rango, Distancia
      <3>2. \A i \in Fila : Rango(i) \in Nat
          BY <1>3, <2>2 DEF Rango, Distancia
      <3> QED BY <3>1, <3>2
    <2> QED BY <1>4, <2>1, <2>2
  <1>19. PICK n, F : Lista(F, n)
      BY DEF QInv, EnFila
  <1>20. n \in Nat /\ 1 \in 1 .. n /\ F[1] = r
    <2>1. PICK k \in 1 .. n : F[k] = r
        BY <1>6, <1>19 DEF Lista
    <2>2. n \in Nat /\ 1 \in 1 .. n
        BY <1>19, <2>1 DEF Lista
    <2>3. F[1] \in Fila /\ (1 < k => Rango(F[1]) < Rango(r))
        BY <1>19, <2>1, <2>2 DEF Lista
    <2>4. ~(1 < k)
        BY <1>18, <2>3
    <2> QED BY <2>1, <2>2, <2>4
  <1>21. n = tlb_size
    <2>1. n = Cardinality(0 .. tlb_size - 1)
        BY <1>1, <1>3, <1>19, ColaEs
    <2> QED BY <1>3, <2>1, FS_Interval
  <1>22. /\ Cola \in Seq([clave: Pid \X Pagina, marco: Marco]) /\ Len(Cola) = n /\ DOMAIN Cola = 1 .. n
         /\ \A k \in 1 .. n : F[k] \in Ocupadas /\ Cola[k] = Traduccion(F[k])
      BY <1>1, <1>19, ColaSeq
  <1>23. \A k \in 1 .. n : Cola[k].clave # c
      BY <1>12, <1>22 DEF Traduccion
  <1>24. Traduccion(r)' = [clave |-> c, marco |-> m]
      BY <1>9 DEF Traduccion
  <1>25. \A i \in Ocupadas \ {F[1]} : Traduccion(i)' = Traduccion(i)
      BY <1>9, <1>20 DEF Traduccion
  <1>26. /\ EnFila'
         /\ Cola' = [l \in 1 .. n |-> IF l < 1 THEN Cola[l] ELSE IF l < n THEN Cola[l + 1]
                                      ELSE Traduccion(F[1])']
      BY <1>1, <1>10, <1>17, <1>19, <1>20, <1>25, ColaMovida
  <1>27. Cola' = Append(Tail(Cola), [clave |-> c, marco |-> m])
    <2>1. Cola' = [l \in 1 .. n |-> IF l < n THEN Cola[l + 1] ELSE [clave |-> c, marco |-> m]]
      <3>1. \A l \in 1 .. n : ~(l < 1)
          BY <1>20
      <3>2. Traduccion(F[1])' = [clave |-> c, marco |-> m]
          BY <1>20, <1>24
      <3> QED BY <1>26, <3>1, <3>2
    <2> HIDE DEF c
    <2> QED BY <1>20, <1>22, <2>1
  <1>28. Cache!Fallo(c, m)
      BY <1>3, <1>8, <1>21, <1>22, <1>23, <1>27 DEF Cache!Fallo
  <1> QED BY <1>11, <1>13, <1>16, <1>26, <1>28 DEF QInv, Cache!Next

(* A TLB of no rows keeps nothing.                                         *)
LEMMA FalloSinFilas ==
  ASSUME QInv, NEW p \in Pid, NEW g \in Pagina, NEW m \in Marco, UNCHANGED ALGORITMO_TLB, TypeOK',
         PedirMarco(p, g, m), tlb_size = 0
  PROVE  QInv' /\ Cache!Next
  <1>1. UNCHANGED <<TLB, ultima_fila_modificada>> /\ marco' = m
      BY DEF PedirMarco, agregar_a_tlb
  <1>2. Ocupadas = {} /\ Ocupadas' = {}
      BY <1>1 DEF Ocupadas, Fila
  <1>3. PICK n, F : Lista(F, n)
      BY DEF QInv, EnFila
  <1>4. n = 0 /\ F \in [1 .. 0 -> Ocupadas']
      BY <1>2, <1>3 DEF Lista
  <1>5. Lista(F, 0)'
      BY <1>2, <1>4 DEF Lista
  <1>6. EnFila'
      BY <1>4, <1>5 DEF EnFila
  <1>7. Cola = <<>> /\ Cola' = <<>>
      BY <1>3, <1>4, <1>5, ColaEs, ColaEsLuego DEF QInv
  <1>8. Cache!Fallo(<<p, g>>, m)
      BY <1>1, <1>7 DEF Cache!Fallo
  <1>9. SinSaltos' /\ EsperaTurno' /\ UnaFila' /\ Relojes'
      BY <1>1, <1>2 DEF QInv, SinSaltos, EsperaTurno, UnaFila, Relojes, Fila
  <1> QED BY <1>6, <1>8, <1>9 DEF QInv, Cache!Next

LEMMA InicioCola == InitT => QInv /\ Cache!Init
  <1> SUFFICES ASSUME InitT PROVE QInv /\ Cache!Init
      OBVIOUS
  <1>1. TypeOK
      BY InicioIInv DEF IInv
  <1>2. Ocupadas = {}
      BY DEF InitT, Init, Ocupadas
  <1>3. SinSaltos /\ EsperaTurno /\ UnaFila /\ Relojes
      BY <1>2 DEF InitT, Init, SinSaltos, EsperaTurno, UnaFila, Relojes
  <1> DEFINE F == [k \in 1 .. 0 |-> 0]
  <1>4. F \in [1 .. 0 -> Ocupadas] /\ Lista(F, 0)
      BY <1>2 DEF Lista
  <1>5. EnFila
      BY <1>4 DEF EnFila
  <1>6. Cola = <<>>
      BY <1>1, <1>4, ColaEs
  <1> QED BY <1>1, <1>3, <1>5, <1>6 DEF QInv, InitT, Init, Cache!Init

LEMMA PasoCola == QInv /\ [NextT]_todo => QInv' /\ [Cache!Next]_(Cache!vars)
  <1> SUFFICES ASSUME QInv, [NextT]_todo PROVE QInv' /\ [Cache!Next]_(Cache!vars)
      OBVIOUS
  <1>1. ASSUME UNCHANGED vars PROVE QInv' /\ UNCHANGED Cache!vars
    <2>1. UNCHANGED <<Ocupadas, Turno, ALGORITMO_TLB, marco>>
        BY <1>1 DEF vars, Ocupadas, Turno
    <2>2. UNCHANGED Cola
        BY <1>1 DEF vars, Cola, Ocupadas, Antes, EnOrden, Traduccion
    <2>3. QInv'
      <3>1. TypeOK'
          BY <1>1 DEF vars, QInv, TypeOK
      <3>2. SinSaltos' /\ EsperaTurno' /\ UnaFila' /\ Relojes'
          BY <1>1, <2>1 DEF vars, QInv, SinSaltos, EsperaTurno, UnaFila, Relojes
      <3>3. \A i : Rango(i)' = Rango(i)
          BY <1>1 DEF vars, Rango, Distancia, Turno
      <3>4. PICK n, F : Lista(F, n)
          BY DEF QInv, EnFila
      <3>5. Lista(F, n)'
          BY <2>1, <3>3, <3>4 DEF Lista
      <3> QED BY <3>1, <3>2, <3>5 DEF QInv, EnFila, Lista
    <2> QED BY <2>1, <2>2, <2>3 DEF Cache!vars
  <1>2. ASSUME NEW p \in Pid, NEW g \in Pagina, Traducir(p, g) PROVE QInv' /\ Cache!Next
    <2>1. instante_referencia < MaxInstante /\ UNCHANGED ALGORITMO_TLB
        BY <1>2 DEF Traducir
    <2>2. CASE conseguir_marco_en_la_tlb(p, g)
        BY <2>1, <2>2, AciertoEnCola
    <2>3. ASSUME NEW m \in Marco, PedirMarco(p, g, m) PROVE QInv' /\ Cache!Next
      <3>1. TypeOK'
          BY <2>1, <2>3, Fallo DEF QInv
      <3> QED BY <2>1, <2>3, <3>1, FalloConHueco, FalloSinHueco, FalloSinFilas
    <2> QED BY <1>2, <2>2, <2>3 DEF Traducir
  <1> QED BY <1>1, <1>2 DEF NextT, Redimensionar, Terminar, Devolver, todo

(* The table is the queue that its algorithm promises, whatever programs,  *)
(* page tables and ends of processes there are: a hit gives what was       *)
(* cached for that page of that process, each page has one row, and a miss *)
(* replaces the row that came first, or was used before all others.        *)
THEOREM TlbImplementa == SpecT => Implementa
  <1>1. InitT => QInv /\ Cache!Init
      BY InicioCola
  <1>2. QInv /\ [NextT]_todo => QInv' /\ [Cache!Next]_(Cache!vars)
      BY PasoCola
  <1> QED BY <1>1, <1>2, PTL DEF SpecT, Implementa, Cache!Spec
=============================================================================
