------------------------ MODULE Planificador_recursos ------------------------
(***************************************************************************)
(* Mutual exclusion: programs that signal only what they hold are never    *)
(* granted more instances of a resource than there are, for any number of  *)
(* processes, resources and instances.                                     *)
(***************************************************************************)
EXTENDS Planificador_proofs

(***************************************************************************)
(* Counting instances                                                      *)
(***************************************************************************)
LEMMA EnOtorgadas ==
  ASSUME NEW t
  PROVE  \A x : x \in Otorgadas(t, Pid) <=> \E p \in Pid : \E n \in 1 .. t[p] : x = <<p, n>>
  BY DEF Otorgadas

(* Who got fewer has fewer, ...                                            *)
LEMMA OtorgadasMenos ==
  ASSUME NEW c \in [Pid -> Nat], NEW d \in [Pid -> Nat], IsFiniteSet(Otorgadas(c, Pid)),
         \A q \in Pid : d[q] <= c[q]
  PROVE  /\ IsFiniteSet(Otorgadas(d, Pid))
         /\ Cardinality(Otorgadas(c, Pid)) \in Nat /\ Cardinality(Otorgadas(d, Pid)) \in Nat
         /\ Cardinality(Otorgadas(d, Pid)) <= Cardinality(Otorgadas(c, Pid))
         /\ Otorgadas(d, Pid) \subseteq Otorgadas(c, Pid)
  <1> DEFINE C == Otorgadas(c, Pid)
             D == Otorgadas(d, Pid)
  <1>1. \A q \in Pid : \A n \in 1 .. d[q] : n \in 1 .. c[q]
      OBVIOUS
  <1>2. D \in SUBSET C
      BY <1>1, EnOtorgadas
  <1> HIDE DEF C, D
  <1>3. IsFiniteSet(C)
      BY DEF C
  <1>4. IsFiniteSet(D) /\ Cardinality(D) <= Cardinality(C) /\ Cardinality(C) \in Nat
      BY <1>2, <1>3, FS_Subset, FS_CardinalityType
  <1>5. Cardinality(D) \in Nat
      BY <1>4, FS_CardinalityType
  <1> QED BY <1>2, <1>4, <1>5 DEF C, D

(* ... one at least if p got one less, ...                                 *)
LEMMA OtorgadasUnaMenos ==
  ASSUME NEW c \in [Pid -> Nat], NEW d \in [Pid -> Nat], IsFiniteSet(Otorgadas(c, Pid)),
         \A q \in Pid : d[q] <= c[q], NEW p \in Pid, d[p] < c[p]
  PROVE  /\ IsFiniteSet(Otorgadas(d, Pid))
         /\ Cardinality(Otorgadas(c, Pid)) \in Nat /\ Cardinality(Otorgadas(d, Pid)) \in Nat
         /\ Cardinality(Otorgadas(d, Pid)) <= Cardinality(Otorgadas(c, Pid)) - 1
  <1> DEFINE C == Otorgadas(c, Pid)
             D == Otorgadas(d, Pid)
             x == <<p, c[p]>>
  <1>1. \A q \in Pid : \A n \in 1 .. d[q] : n \in 1 .. c[q] /\ (q = p => n # c[p])
      OBVIOUS
  <1>2. c[p] \in 1 .. c[p]
      OBVIOUS
  <1>3. D \subseteq C \ {x} /\ x \in C
      BY <1>1, <1>2, EnOtorgadas
  <1> HIDE DEF C, D, x
  <1>4. IsFiniteSet(C) /\ Cardinality(C) \in Nat
      BY FS_CardinalityType DEF C
  <1>5. IsFiniteSet(C \ {x}) /\ Cardinality(C \ {x}) = Cardinality(C) - 1
      BY <1>3, <1>4, FS_RemoveElement
  <1>6. IsFiniteSet(D) /\ Cardinality(D) <= Cardinality(C \ {x})
      BY <1>3, <1>5, FS_Subset
  <1>7. Cardinality(D) \in Nat
      BY <1>6, FS_CardinalityType
  <1> QED BY <1>4, <1>5, <1>6, <1>7 DEF C, D

(* ... and one more at most if q got one more.                             *)
LEMMA OtorgadasUnaMas ==
  ASSUME NEW c \in [Pid -> Nat], NEW d \in [Pid -> Nat], IsFiniteSet(Otorgadas(c, Pid)),
         NEW q \in Pid, d[q] <= c[q] + 1, \A p \in Pid : p # q => d[p] <= c[p]
  PROVE  /\ IsFiniteSet(Otorgadas(d, Pid))
         /\ Cardinality(Otorgadas(c, Pid)) \in Nat /\ Cardinality(Otorgadas(d, Pid)) \in Nat
         /\ Cardinality(Otorgadas(d, Pid)) <= Cardinality(Otorgadas(c, Pid)) + 1
  <1> DEFINE C == Otorgadas(c, Pid)
             D == Otorgadas(d, Pid)
             x == <<q, c[q] + 1>>
  <1>1. \A p \in Pid : \A n \in 1 .. d[p] : n \in 1 .. c[p] \/ (p = q /\ n = c[q] + 1)
      OBVIOUS
  <1>3. D \subseteq C \cup {x}
      BY <1>1, EnOtorgadas
  <1> HIDE DEF C, D, x
  <1>4. IsFiniteSet(C) /\ Cardinality(C) \in Nat
      BY FS_CardinalityType DEF C
  <1>5. IsFiniteSet(C \cup {x}) /\ Cardinality(C \cup {x}) <= Cardinality(C) + 1
    <2>1. /\ IsFiniteSet(C \cup {x})
          /\ \/ Cardinality(C \cup {x}) = Cardinality(C)
             \/ Cardinality(C \cup {x}) = Cardinality(C) + 1
        BY <1>4, FS_AddElement
    <2> QED BY <1>4, <2>1
  <1>6. IsFiniteSet(D) /\ Cardinality(D) <= Cardinality(C \cup {x})
      BY <1>3, <1>5, FS_Subset
  <1>7. Cardinality(D) \in Nat /\ Cardinality(C \cup {x}) \in Nat
      BY <1>5, <1>6, FS_CardinalityType
  <1> QED BY <1>4, <1>5, <1>6, <1>7 DEF C, D

LEMMA OtorgadasPasan ==
  ASSUME NEW c \in [Pid -> Nat], NEW d \in [Pid -> Nat], IsFiniteSet(Otorgadas(c, Pid)),
         NEW p \in Pid, NEW q \in Pid, p # q, d[p] < c[p], d[q] <= c[q] + 1,
         \A s \in Pid : s # q => d[s] <= c[s]
  PROVE  /\ IsFiniteSet(Otorgadas(d, Pid))
         /\ Cardinality(Otorgadas(c, Pid)) \in Nat /\ Cardinality(Otorgadas(d, Pid)) \in Nat
         /\ Cardinality(Otorgadas(d, Pid)) <= Cardinality(Otorgadas(c, Pid))
  <1> DEFINE e == [c EXCEPT ![p] = @ - 1]
  <1>1. c[p] - 1 \in Nat
      OBVIOUS
  <1>2. /\ e \in [Pid -> Nat] /\ e[p] = c[p] - 1
        /\ \A s \in Pid : s # p => e[s] = c[s]
      BY <1>1
  <1> HIDE DEF e
  <1>3. (\A s \in Pid : e[s] <= c[s]) /\ e[p] < c[p]
      BY <1>2
  <1>4. /\ IsFiniteSet(Otorgadas(e, Pid))
        /\ Cardinality(Otorgadas(c, Pid)) \in Nat /\ Cardinality(Otorgadas(e, Pid)) \in Nat
        /\ Cardinality(Otorgadas(e, Pid)) <= Cardinality(Otorgadas(c, Pid)) - 1
      BY <1>2, <1>3, OtorgadasUnaMenos
  <1>5. d[q] <= e[q] + 1 /\ \A s \in Pid : s # q => d[s] <= e[s]
      BY <1>2
  <1>6. /\ IsFiniteSet(Otorgadas(d, Pid)) /\ Cardinality(Otorgadas(d, Pid)) \in Nat
        /\ Cardinality(Otorgadas(d, Pid)) <= Cardinality(Otorgadas(e, Pid)) + 1
      BY <1>2, <1>4, <1>5, OtorgadasUnaMas
  <1> QED BY <1>4, <1>6

(***************************************************************************)
(* The invariant                                                           *)
(***************************************************************************)
CamposDeRecursos == {"usando", "tiene", "instancias", "bloqueados"}

CamposOK(k) ==
  /\ CamposDeRecursos \subseteq DOMAIN k
  /\ k.usando \in [Recurso -> [Pid -> Nat]] /\ k.tiene \in [Recurso -> [Pid -> Nat]]
  /\ k.instancias \in [Recurso -> Int] /\ k.bloqueados \in [Clave -> Seq(Pid)]

(* What counts of r for p: what it was granted, and what is still listed   *)
(* as its own when it is one of those of X, who finished.                  *)
Cuenta(k, X, r) == [p \in Pid |-> IF p \in X THEN k.usando[r][p] ELSE k.tiene[r][p]]

(* What is granted, those who wait and what is free are no more than there *)
(* are: an instance owed is of somebody who waits.                         *)
Cubierto(k, X, r) ==
  /\ IsFiniteSet(Otorgadas(Cuenta(k, X, r), Pid))
  /\ Cardinality(Otorgadas(Cuenta(k, X, r), Pid)) + Len(k.bloqueados[r]) + k.instancias[r]
       <= InstanciasIniciales[r]

Repartido(k, X) ==
  /\ CamposOK(k)
  /\ \A r \in Recurso : /\ \A p \in Pid : k.usando[r][p] <= k.tiene[r][p]
                        /\ Cubierto(k, X, r)

Muertos(k) == {p \in Pid : k.estado[p] = "EXIT"}

(* Only a SIGNAL takes an instance from a process that was granted it.     *)
Crece(k, k2) == \A r \in Recurso : \A p \in Pid : k.tiene[r][p] <= k2.tiene[r][p]

(* Steps that touch no instance.                                           *)
Cuentas(k, j) ==
  /\ CamposDeRecursos \subseteq DOMAIN k
  /\ k.usando = j.usando /\ k.tiene = j.tiene /\ k.instancias = j.instancias
  /\ k.bloqueados = j.bloqueados

LEMMA CuentaTipo ==
  ASSUME NEW k, CamposOK(k), NEW X, NEW r \in Recurso
  PROVE  /\ Cuenta(k, X, r) \in [Pid -> Nat]
         /\ \A p \in Pid : Cuenta(k, X, r)[p] = IF p \in X THEN k.usando[r][p] ELSE k.tiene[r][p]
         /\ k.usando[r] \in [Pid -> Nat] /\ k.tiene[r] \in [Pid -> Nat]
         /\ k.instancias[r] \in Int /\ InstanciasIniciales[r] \in Int
         /\ r \in Clave /\ k.bloqueados[r] \in Seq(Pid) /\ Len(k.bloqueados[r]) \in Nat
  <1>1. k.usando[r] \in [Pid -> Nat] /\ k.tiene[r] \in [Pid -> Nat] /\ k.instancias[r] \in Int
      BY DEF CamposOK
  <1>2. r \in Clave /\ k.bloqueados[r] \in Seq(Pid)
      BY DEF CamposOK, Clave
  <1>3. Len(k.bloqueados[r]) \in Nat
      BY <1>2, LenProperties
  <1>4. InstanciasIniciales[r] \in Int
      BY ConstantesOK
  <1> QED BY <1>1, <1>2, <1>3, <1>4 DEF Cuenta

(* The bound is kept if what is granted grows no more than what waits and  *)
(* what is free shrink.                                                    *)
LEMMA CubiertoSigue ==
  ASSUME NEW k, CamposOK(k), NEW k2, CamposOK(k2), NEW X, NEW Y, NEW r \in Recurso,
         Cubierto(k, X, r), NEW n \in Int,
         IsFiniteSet(Otorgadas(Cuenta(k2, Y, r), Pid)),
         Cardinality(Otorgadas(Cuenta(k, X, r), Pid)) \in Nat,
         Cardinality(Otorgadas(Cuenta(k2, Y, r), Pid)) \in Nat,
         Cardinality(Otorgadas(Cuenta(k2, Y, r), Pid)) <= Cardinality(Otorgadas(Cuenta(k, X, r), Pid)) + n,
         Len(k2.bloqueados[r]) + k2.instancias[r] + n <= Len(k.bloqueados[r]) + k.instancias[r]
  PROVE  Cubierto(k2, Y, r)
  <1> DEFINE a == Cardinality(Otorgadas(Cuenta(k, X, r), Pid))
             b == Cardinality(Otorgadas(Cuenta(k2, Y, r), Pid))
             x == Len(k.bloqueados[r])
             y == Len(k2.bloqueados[r])
             u == k.instancias[r]
             v == k2.instancias[r]
             m == InstanciasIniciales[r]
  <1>1. /\ a \in Nat /\ b \in Nat /\ x \in Nat /\ y \in Nat /\ u \in Int /\ v \in Int /\ m \in Int
        /\ b <= a + n /\ y + v + n <= x + u /\ a + x + u <= m
      BY CuentaTipo DEF Cubierto
  <1>2. b + y + v <= m
    <2> HIDE DEF a, b, x, y, u, v, m
    <2> QED BY <1>1
  <1> QED BY <1>2 DEF Cubierto

(* Who finishes counts with what is listed as its own, which is no more.   *)
LEMMA RepartidoMas ==
  ASSUME NEW k, NEW X, Repartido(k, X), NEW Y, X \subseteq Y
  PROVE  Repartido(k, Y)
  <1>0. CamposOK(k)
      BY DEF Repartido
  <1> SUFFICES ASSUME NEW r \in Recurso PROVE Cubierto(k, Y, r)
      BY DEF Repartido
  <1>1. Cubierto(k, X, r) /\ \A p \in Pid : k.usando[r][p] <= k.tiene[r][p]
      BY DEF Repartido
  <1> DEFINE c == Cuenta(k, X, r)
             d == Cuenta(k, Y, r)
  <1>2. /\ c \in [Pid -> Nat] /\ d \in [Pid -> Nat]
        /\ \A p \in Pid : c[p] = IF p \in X THEN k.usando[r][p] ELSE k.tiene[r][p]
        /\ \A p \in Pid : d[p] = IF p \in Y THEN k.usando[r][p] ELSE k.tiene[r][p]
        /\ k.usando[r] \in [Pid -> Nat] /\ k.tiene[r] \in [Pid -> Nat]
    <2>1. /\ Cuenta(k, X, r) \in [Pid -> Nat]
          /\ \A p \in Pid : Cuenta(k, X, r)[p] = IF p \in X THEN k.usando[r][p] ELSE k.tiene[r][p]
          /\ k.usando[r] \in [Pid -> Nat] /\ k.tiene[r] \in [Pid -> Nat]
        BY <1>0, CuentaTipo
    <2>2. /\ Cuenta(k, Y, r) \in [Pid -> Nat]
          /\ \A p \in Pid : Cuenta(k, Y, r)[p] = IF p \in Y THEN k.usando[r][p] ELSE k.tiene[r][p]
        BY <1>0, CuentaTipo
    <2> QED BY <2>1, <2>2
  <1> HIDE DEF c, d
  <1>3. \A p \in Pid : d[p] <= c[p]
      BY <1>1, <1>2
  <1>4. /\ IsFiniteSet(Otorgadas(d, Pid))
        /\ Cardinality(Otorgadas(c, Pid)) \in Nat /\ Cardinality(Otorgadas(d, Pid)) \in Nat
        /\ Cardinality(Otorgadas(d, Pid)) <= Cardinality(Otorgadas(c, Pid))
    <2>1. IsFiniteSet(Otorgadas(c, Pid))
        BY <1>1 DEF Cubierto, c
    <2> QED BY <1>2, <1>3, <2>1, OtorgadasMenos
  <1>5. /\ Cardinality(Otorgadas(d, Pid)) <= Cardinality(Otorgadas(c, Pid)) + 0
        /\ Len(k.bloqueados[r]) + k.instancias[r] + 0 <= Len(k.bloqueados[r]) + k.instancias[r]
    <2>1. k.instancias[r] \in Int /\ Len(k.bloqueados[r]) \in Nat
        BY <1>0, CuentaTipo
    <2> QED BY <1>4, <2>1
  <1> QED BY <1>0, <1>1, <1>4, <1>5, CubiertoSigue DEF c, d

LEMMA RepartidoIgual ==
  ASSUME NEW k, NEW X, Repartido(k, X), NEW k2, Cuentas(k2, k)
  PROVE  Repartido(k2, X) /\ Crece(k, k2)
  <1>1. CamposOK(k2)
      BY DEF Repartido, CamposOK, Cuentas
  <1>2. \A r \in Recurso : Cuenta(k2, X, r) = Cuenta(k, X, r)
      BY DEF Cuentas, Cuenta
  <1>3. Repartido(k2, X)
      BY <1>1, <1>2 DEF Repartido, Cubierto, Cuentas
  <1>4. \A r \in Recurso : \A p \in Pid : k.tiene[r][p] \in Nat /\ k2.tiene[r][p] = k.tiene[r][p]
      BY DEF Repartido, CamposOK, Cuentas
  <1> QED BY <1>3, <1>4 DEF Crece

(* The ways in which a step moves instances, with X fixed: nobody gets one,*)
LEMMA CubiertoMenos ==
  ASSUME NEW k, CamposOK(k), NEW k2, CamposOK(k2), NEW X, NEW r \in Recurso, Cubierto(k, X, r),
         \A q \in Pid : Cuenta(k2, X, r)[q] <= Cuenta(k, X, r)[q],
         Len(k2.bloqueados[r]) + k2.instancias[r] <= Len(k.bloqueados[r]) + k.instancias[r]
  PROVE  Cubierto(k2, X, r)
  <1> DEFINE c == Cuenta(k, X, r)
             d == Cuenta(k2, X, r)
  <1>1. c \in [Pid -> Nat] /\ d \in [Pid -> Nat] /\ IsFiniteSet(Otorgadas(c, Pid))
    <2>1. Cuenta(k, X, r) \in [Pid -> Nat] /\ IsFiniteSet(Otorgadas(Cuenta(k, X, r), Pid))
        BY CuentaTipo DEF Cubierto
    <2>2. Cuenta(k2, X, r) \in [Pid -> Nat]
        BY CuentaTipo
    <2> QED BY <2>1, <2>2
  <1>2. /\ k.instancias[r] \in Int /\ Len(k.bloqueados[r]) \in Nat
        /\ k2.instancias[r] \in Int /\ Len(k2.bloqueados[r]) \in Nat
    <2>1. k.instancias[r] \in Int /\ Len(k.bloqueados[r]) \in Nat
        BY CuentaTipo
    <2>2. k2.instancias[r] \in Int /\ Len(k2.bloqueados[r]) \in Nat
        BY CuentaTipo
    <2> QED BY <2>1, <2>2
  <1>3. /\ IsFiniteSet(Otorgadas(d, Pid))
        /\ Cardinality(Otorgadas(c, Pid)) \in Nat /\ Cardinality(Otorgadas(d, Pid)) \in Nat
        /\ Cardinality(Otorgadas(d, Pid)) <= Cardinality(Otorgadas(c, Pid)) + (0)
    <2>1. /\ IsFiniteSet(Otorgadas(d, Pid))
          /\ Cardinality(Otorgadas(c, Pid)) \in Nat /\ Cardinality(Otorgadas(d, Pid)) \in Nat
          /\ Cardinality(Otorgadas(d, Pid)) <= Cardinality(Otorgadas(c, Pid))
        BY <1>1, OtorgadasMenos
    <2> HIDE DEF c, d
    <2> QED BY <2>1
  <1>4. Len(k2.bloqueados[r]) + k2.instancias[r] + (0) <= Len(k.bloqueados[r]) + k.instancias[r]
      BY <1>2
  <1> QED BY <1>3, <1>4, CubiertoSigue

(* p gives one back,                                                       *)
LEMMA CubiertoUnaMenos ==
  ASSUME NEW k, CamposOK(k), NEW k2, CamposOK(k2), NEW X, NEW r \in Recurso, Cubierto(k, X, r),
         \A q \in Pid : Cuenta(k2, X, r)[q] <= Cuenta(k, X, r)[q],
         NEW p \in Pid, Cuenta(k2, X, r)[p] < Cuenta(k, X, r)[p],
         Len(k2.bloqueados[r]) + k2.instancias[r] - 1 <= Len(k.bloqueados[r]) + k.instancias[r]
  PROVE  Cubierto(k2, X, r)
  <1> DEFINE c == Cuenta(k, X, r)
             d == Cuenta(k2, X, r)
  <1>1. c \in [Pid -> Nat] /\ d \in [Pid -> Nat] /\ IsFiniteSet(Otorgadas(c, Pid))
    <2>1. Cuenta(k, X, r) \in [Pid -> Nat] /\ IsFiniteSet(Otorgadas(Cuenta(k, X, r), Pid))
        BY CuentaTipo DEF Cubierto
    <2>2. Cuenta(k2, X, r) \in [Pid -> Nat]
        BY CuentaTipo
    <2> QED BY <2>1, <2>2
  <1>2. /\ k.instancias[r] \in Int /\ Len(k.bloqueados[r]) \in Nat
        /\ k2.instancias[r] \in Int /\ Len(k2.bloqueados[r]) \in Nat
    <2>1. k.instancias[r] \in Int /\ Len(k.bloqueados[r]) \in Nat
        BY CuentaTipo
    <2>2. k2.instancias[r] \in Int /\ Len(k2.bloqueados[r]) \in Nat
        BY CuentaTipo
    <2> QED BY <2>1, <2>2
  <1>3. /\ IsFiniteSet(Otorgadas(d, Pid))
        /\ Cardinality(Otorgadas(c, Pid)) \in Nat /\ Cardinality(Otorgadas(d, Pid)) \in Nat
        /\ Cardinality(Otorgadas(d, Pid)) <= Cardinality(Otorgadas(c, Pid)) + (-1)
    <2>1. /\ IsFiniteSet(Otorgadas(d, Pid))
          /\ Cardinality(Otorgadas(c, Pid)) \in Nat /\ Cardinality(Otorgadas(d, Pid)) \in Nat
          /\ Cardinality(Otorgadas(d, Pid)) <= Cardinality(Otorgadas(c, Pid)) - 1
        BY <1>1, OtorgadasUnaMenos
    <2> HIDE DEF c, d
    <2> QED BY <2>1
  <1>4. Len(k2.bloqueados[r]) + k2.instancias[r] + (-1) <= Len(k.bloqueados[r]) + k.instancias[r]
      BY <1>2
  <1> QED BY <1>3, <1>4, CubiertoSigue

(* q is granted one,                                                       *)
LEMMA CubiertoUnaMas ==
  ASSUME NEW k, CamposOK(k), NEW k2, CamposOK(k2), NEW X, NEW r \in Recurso, Cubierto(k, X, r),
         NEW q \in Pid, Cuenta(k2, X, r)[q] <= Cuenta(k, X, r)[q] + 1,
         \A p \in Pid : p # q => Cuenta(k2, X, r)[p] <= Cuenta(k, X, r)[p],
         Len(k2.bloqueados[r]) + k2.instancias[r] + 1 <= Len(k.bloqueados[r]) + k.instancias[r]
  PROVE  Cubierto(k2, X, r)
  <1> DEFINE c == Cuenta(k, X, r)
             d == Cuenta(k2, X, r)
  <1>1. c \in [Pid -> Nat] /\ d \in [Pid -> Nat] /\ IsFiniteSet(Otorgadas(c, Pid))
    <2>1. Cuenta(k, X, r) \in [Pid -> Nat] /\ IsFiniteSet(Otorgadas(Cuenta(k, X, r), Pid))
        BY CuentaTipo DEF Cubierto
    <2>2. Cuenta(k2, X, r) \in [Pid -> Nat]
        BY CuentaTipo
    <2> QED BY <2>1, <2>2
  <1>2. /\ k.instancias[r] \in Int /\ Len(k.bloqueados[r]) \in Nat
        /\ k2.instancias[r] \in Int /\ Len(k2.bloqueados[r]) \in Nat
    <2>1. k.instancias[r] \in Int /\ Len(k.bloqueados[r]) \in Nat
        BY CuentaTipo
    <2>2. k2.instancias[r] \in Int /\ Len(k2.bloqueados[r]) \in Nat
        BY CuentaTipo
    <2> QED BY <2>1, <2>2
  <1>3. /\ IsFiniteSet(Otorgadas(d, Pid))
        /\ Cardinality(Otorgadas(c, Pid)) \in Nat /\ Cardinality(Otorgadas(d, Pid)) \in Nat
        /\ Cardinality(Otorgadas(d, Pid)) <= Cardinality(Otorgadas(c, Pid)) + (1)
    <2>1. /\ IsFiniteSet(Otorgadas(d, Pid))
          /\ Cardinality(Otorgadas(c, Pid)) \in Nat /\ Cardinality(Otorgadas(d, Pid)) \in Nat
          /\ Cardinality(Otorgadas(d, Pid)) <= Cardinality(Otorgadas(c, Pid)) + 1
        BY <1>1, OtorgadasUnaMas
    <2> HIDE DEF c, d
    <2> QED BY <2>1
  <1>4. Len(k2.bloqueados[r]) + k2.instancias[r] + (1) <= Len(k.bloqueados[r]) + k.instancias[r]
      BY <1>2
  <1> QED BY <1>3, <1>4, CubiertoSigue

(* and p gives one back that q is granted.                                 *)
LEMMA CubiertoPasan ==
  ASSUME NEW k, CamposOK(k), NEW k2, CamposOK(k2), NEW X, NEW r \in Recurso, Cubierto(k, X, r),
         NEW p \in Pid, NEW q \in Pid, p # q, Cuenta(k2, X, r)[p] < Cuenta(k, X, r)[p],
         Cuenta(k2, X, r)[q] <= Cuenta(k, X, r)[q] + 1,
         \A s \in Pid : s # q => Cuenta(k2, X, r)[s] <= Cuenta(k, X, r)[s],
         Len(k2.bloqueados[r]) + k2.instancias[r] <= Len(k.bloqueados[r]) + k.instancias[r]
  PROVE  Cubierto(k2, X, r)
  <1> DEFINE c == Cuenta(k, X, r)
             d == Cuenta(k2, X, r)
  <1>1. c \in [Pid -> Nat] /\ d \in [Pid -> Nat] /\ IsFiniteSet(Otorgadas(c, Pid))
    <2>1. Cuenta(k, X, r) \in [Pid -> Nat] /\ IsFiniteSet(Otorgadas(Cuenta(k, X, r), Pid))
        BY CuentaTipo DEF Cubierto
    <2>2. Cuenta(k2, X, r) \in [Pid -> Nat]
        BY CuentaTipo
    <2> QED BY <2>1, <2>2
  <1>2. /\ k.instancias[r] \in Int /\ Len(k.bloqueados[r]) \in Nat
        /\ k2.instancias[r] \in Int /\ Len(k2.bloqueados[r]) \in Nat
    <2>1. k.instancias[r] \in Int /\ Len(k.bloqueados[r]) \in Nat
        BY CuentaTipo
    <2>2. k2.instancias[r] \in Int /\ Len(k2.bloqueados[r]) \in Nat
        BY CuentaTipo
    <2> QED BY <2>1, <2>2
  <1>3. /\ IsFiniteSet(Otorgadas(d, Pid))
        /\ Cardinality(Otorgadas(c, Pid)) \in Nat /\ Cardinality(Otorgadas(d, Pid)) \in Nat
        /\ Cardinality(Otorgadas(d, Pid)) <= Cardinality(Otorgadas(c, Pid)) + (0)
    <2>1. /\ IsFiniteSet(Otorgadas(d, Pid))
          /\ Cardinality(Otorgadas(c, Pid)) \in Nat /\ Cardinality(Otorgadas(d, Pid)) \in Nat
          /\ Cardinality(Otorgadas(d, Pid)) <= Cardinality(Otorgadas(c, Pid))
        BY <1>1, OtorgadasPasan
    <2> HIDE DEF c, d
    <2> QED BY <2>1
  <1>4. Len(k2.bloqueados[r]) + k2.instancias[r] + (0) <= Len(k.bloqueados[r]) + k.instancias[r]
      BY <1>2
  <1> QED BY <1>3, <1>4, CubiertoSigue

(***************************************************************************)
(* The moves between states touch no instance                              *)
(***************************************************************************)
LEMMA CuentasMueve ==
  ASSUME NEW k, NEW j, Cuentas(k, j), NEW p, NEW v
  PROVE  /\ Cuentas(A_READY(k, p), j)
         /\ Cuentas(Despacho(k, p), j)
         /\ Cuentas(cosas_vrr_cuando_se_desaloja_un_proceso(k, p, v), j)
         /\ Cuentas(evaluar_NEW_a_EXIT(k, p), j)
         /\ Cuentas(evaluar_READY_a_EXIT(k, p), j)
         /\ Cuentas(TerminaHilo(k, p), j)
         /\ Cuentas(Responder(k, v), j)
  <1>1. Cuentas(A_READY(k, p), j)
      BY DEF Cuentas, CamposDeRecursos, A_READY
  <1>2. Cuentas(Despacho(k, p), j)
      BY DEF Cuentas, CamposDeRecursos, Despacho
  <1>3. Cuentas(cosas_vrr_cuando_se_desaloja_un_proceso(k, p, v), j)
      BY DEF Cuentas, CamposDeRecursos, cosas_vrr_cuando_se_desaloja_un_proceso
  <1>4. Cuentas(evaluar_NEW_a_EXIT(k, p), j)
      BY DEF Cuentas, CamposDeRecursos, evaluar_NEW_a_EXIT
  <1>5. Cuentas(evaluar_READY_a_EXIT(k, p), j)
      BY DEF Cuentas, CamposDeRecursos, evaluar_READY_a_EXIT
  <1>6. Cuentas(TerminaHilo(k, p), j)
      BY DEF Cuentas, CamposDeRecursos, TerminaHilo
  <1>7. Cuentas(Responder(k, v), j)
      BY DEF Cuentas, CamposDeRecursos, Responder
  <1> QED BY <1>1, <1>2, <1>3, <1>4, <1>5, <1>6, <1>7

LEMMA CuentasPlanifica ==
  ASSUME NEW k, NEW j, Cuentas(k, j)
  PROVE  /\ Cuentas(evaluar_NEW_a_READY(k), j)
         /\ Cuentas(evaluar_READY_a_EXEC(k), j)
         /\ Cuentas(Planificar(k), j)
  <1>1. ASSUME NEW m, Cuentas(m, j) PROVE Cuentas(evaluar_NEW_a_READY(m), j)
      BY <1>1 DEF Cuentas, CamposDeRecursos, evaluar_NEW_a_READY
  <1>2. Cuentas(evaluar_READY_a_EXEC(k), j)
    <2>1. /\ Cuentas([k EXCEPT !.cola_READY = Tail(@)], j)
          /\ Cuentas([k EXCEPT !.cola_READY_PRIORITARIA = Tail(@)], j)
        BY DEF Cuentas, CamposDeRecursos
    <2> QED BY <2>1, CuentasMueve DEF evaluar_READY_a_EXEC
  <1>3. Cuentas(Planificar(k), j)
      BY <1>1, <1>2 DEF Planificar
  <1> QED BY <1>1, <1>2, <1>3

Encolada(k2, j, c, p) ==
  /\ CamposDeRecursos \subseteq DOMAIN k2
  /\ k2.usando = j.usando /\ k2.tiene = j.tiene /\ k2.instancias = j.instancias
  /\ k2.bloqueados = [j.bloqueados EXCEPT ![c] = Append(j.bloqueados[c], p)]

(* Leaving the CPU: only a process that blocks changes a queue of waiters. *)
LEMMA CuentasDesaloja ==
  ASSUME NEW k, NEW j, Cuentas(k, j), NEW v, NEW c
  PROVE  /\ Cuentas(evaluar_EXEC_a_READY(k, v), j)
         /\ Cuentas(evaluar_EXEC_a_EXIT(k, v), j)
         /\ \/ Cuentas(evaluar_EXEC_a_BLOCKED(k, c, v), j)
            \/ Encolada(evaluar_EXEC_a_BLOCKED(k, c, v), j, c, Head(k.cola_RUNNING))
  <1>1. ASSUME NEW p PROVE Cuentas(cosas_vrr_cuando_se_desaloja_un_proceso(k, p, v), j)
      BY CuentasMueve
  <1>2. Cuentas(evaluar_EXEC_a_READY(k, v), j)
    <2> DEFINE p  == Head(k.cola_RUNNING)
               k1 == [cosas_vrr_cuando_se_desaloja_un_proceso(k, p, v) EXCEPT !.cola_RUNNING = Tail(@)]
    <2>1. Cuentas(k1, j)
        BY <1>1 DEF Cuentas, CamposDeRecursos
    <2>2. Cuentas(A_READY(k1, p), j)
        BY <2>1, CuentasMueve
    <2>3. evaluar_EXEC_a_READY(k, v) = evaluar_READY_a_EXEC(k)
          \/ evaluar_EXEC_a_READY(k, v) = evaluar_READY_a_EXEC(A_READY(k1, p))
        BY DEF evaluar_EXEC_a_READY
    <2> QED BY <2>2, <2>3, CuentasPlanifica
  <1>3. Cuentas(evaluar_EXEC_a_EXIT(k, v), j)
    <2> DEFINE vacia == k.cola_RUNNING = <<>>
               p  == IF vacia THEN 0 ELSE Head(k.cola_RUNNING)
               k0 == cosas_vrr_cuando_se_desaloja_un_proceso(k, p, v)
               k1 == [k0 EXCEPT !.cola_RUNNING = IF vacia THEN @ ELSE Tail(@),
                        !.estado[p] = "EXIT",
                        !.cant = @ - 1]
    <2>1. Cuentas(k0, j)
        BY <1>1
    <2>2. \/ evaluar_EXEC_a_EXIT(k, v) = [k EXCEPT !.vivo = FALSE]
          \/ evaluar_EXEC_a_EXIT(k, v) = evaluar_NEW_a_READY(evaluar_READY_a_EXEC(k1))
        BY DEF evaluar_EXEC_a_EXIT
    <2> HIDE DEF k0, vacia
    <2>3. Cuentas(k1, j) /\ Cuentas([k EXCEPT !.vivo = FALSE], j)
        BY <2>1 DEF Cuentas, CamposDeRecursos
    <2> HIDE DEF k1
    <2>4. Cuentas(evaluar_NEW_a_READY(evaluar_READY_a_EXEC(k1)), j)
        BY <2>3, CuentasPlanifica
    <2> QED BY <2>2, <2>3, <2>4
  <1>4. \/ Cuentas(evaluar_EXEC_a_BLOCKED(k, c, v), j)
        \/ Encolada(evaluar_EXEC_a_BLOCKED(k, c, v), j, c, Head(k.cola_RUNNING))
    <2> DEFINE p  == Head(k.cola_RUNNING)
               k0 == cosas_vrr_cuando_se_desaloja_un_proceso(k, p, v)
               k1 == [k0 EXCEPT !.cola_RUNNING = Tail(@),
                        !.estado[p] = "BLOCKED",
                        !.bloqueados[c] = Append(@, p),
                        !.binario = IF c \in Interfaz THEN [@ EXCEPT ![c] = TRUE] ELSE @]
    <2>1. Cuentas(k0, j)
        BY <1>1
    <2>2. evaluar_EXEC_a_BLOCKED(k, c, v) = evaluar_READY_a_EXEC(k)
          \/ evaluar_EXEC_a_BLOCKED(k, c, v) = evaluar_READY_a_EXEC(k1)
        BY DEF evaluar_EXEC_a_BLOCKED
    <2> HIDE DEF k0, p
    <2>3. CamposDeRecursos \subseteq DOMAIN k1 /\ Cuentas(k1, k1) /\ Encolada(k1, j, c, p)
        BY <2>1 DEF Cuentas, CamposDeRecursos, Encolada
    <2> HIDE DEF k1
    <2>4. Cuentas(evaluar_READY_a_EXEC(k1), k1) /\ Cuentas(evaluar_READY_a_EXEC(k), j)
        BY <2>3, CuentasPlanifica
    <2>5. Encolada(evaluar_READY_a_EXEC(k1), j, c, p)
        BY <2>3, <2>4 DEF Encolada, Cuentas
    <2> QED BY <2>2, <2>4, <2>5 DEF p
  <1> QED BY <1>2, <1>3, <1>4

(***************************************************************************)
(* The operations on instances                                             *)
(***************************************************************************)
LEMMA CabezaQueEspera ==
  ASSUME NEW k, CamposOK(k), NEW c \in Clave, k.bloqueados[c] # <<>>
  PROVE  /\ Head(k.bloqueados[c]) \in Pid /\ Tail(k.bloqueados[c]) \in Seq(Pid)
         /\ Len(Tail(k.bloqueados[c])) = Len(k.bloqueados[c]) - 1
  <1>1. k.bloqueados[c] \in Seq(Pid)
      BY DEF CamposOK
  <1> QED BY <1>1, HeadTailProperties

LEMMA MenosUno ==
  ASSUME NEW n \in Nat
  PROVE  /\ Menos(n) \in Nat /\ Menos(n) <= n /\ (n > 0 => Menos(n) < n)
  BY DEF Menos

(* What sacarle_sus_recursos does to the instances of r.                   *)
Sacado(k, k2, p, r) ==
  /\ k2.usando[r] = [k.usando[r] EXCEPT ![p] = Menos(k.usando[r][p])]
  /\ k2.tiene[r] = IF r \in QueDespiertan(k, p) THEN DarUna(k, r, Head(k.bloqueados[r])) ELSE k.tiene[r]
  /\ k2.instancias[r] = IF r \in Devueltos(k, p) THEN k.instancias[r] + 1 ELSE k.instancias[r]
  /\ k2.bloqueados[r] = IF r \in QueDespiertan(k, p) THEN Tail(k.bloqueados[r]) ELSE k.bloqueados[r]

LEMMA SacadoTipo ==
  ASSUME NEW k, CamposOK(k), NEW p \in Pid, NEW o
  PROVE  /\ CamposOK(sacarle_sus_recursos(k, p, o))
         /\ \A r \in Recurso : Sacado(k, sacarle_sus_recursos(k, p, o), p, r)
  <1> DEFINE k2 == sacarle_sus_recursos(k, p, o)
             W == QueDespiertan(k, p)
             D == Devueltos(k, p)
             ins == [r \in Recurso |-> IF r \in D THEN k.instancias[r] + 1 ELSE k.instancias[r]]
             usa == [r \in Recurso |-> [k.usando[r] EXCEPT ![p] = Menos(k.usando[r][p])]]
             ti  == [r \in Recurso |-> IF r \in W THEN DarUna(k, r, Head(k.bloqueados[r])) ELSE k.tiene[r]]
             blo == [c \in Clave |-> IF c \in W THEN Tail(k.bloqueados[c]) ELSE k.bloqueados[c]]
             est == [q \in Pid |-> IF q \in ToSet(o.ready) THEN "READY"
                                   ELSE IF q \in ToSet(o.prio) THEN "READY_PRIORITARIO"
                                   ELSE k.estado[q]]
             lis == k.cola_READY \o o.ready
             pri == k.cola_READY_PRIORITARIA \o o.prio
  <1>0. W \subseteq Recurso /\ \A r \in W : r \in Clave /\ k.bloqueados[r] # <<>>
      BY DEF QueDespiertan, Devueltos, Clave
  <1>1. k2 = [k EXCEPT !.instancias = ins, !.usando = usa, !.tiene = ti, !.bloqueados = blo,
                       !.cola_READY = lis, !.cola_READY_PRIORITARIA = pri, !.estado = est]
      BY DEF sacarle_sus_recursos
  <1> HIDE DEF k2, ins, usa, ti, blo, est, lis, pri
  <1>2. /\ CamposDeRecursos \subseteq DOMAIN k2
        /\ k2.instancias = ins /\ k2.usando = usa /\ k2.tiene = ti /\ k2.bloqueados = blo
      BY <1>1 DEF CamposOK, CamposDeRecursos
  <1> HIDE DEF W, D
  <1>3. ins \in [Recurso -> Int]
    <2>1. \A r \in Recurso : k.instancias[r] \in Int
        BY DEF CamposOK
    <2> QED BY <2>1 DEF ins
  <1>4. usa \in [Recurso -> [Pid -> Nat]]
    <2>1. ASSUME NEW r \in Recurso PROVE [k.usando[r] EXCEPT ![p] = Menos(k.usando[r][p])] \in [Pid -> Nat]
      <3>1. k.usando[r] \in [Pid -> Nat] /\ k.usando[r][p] \in Nat
          BY DEF CamposOK
      <3>2. Menos(k.usando[r][p]) \in Nat
          BY <3>1, MenosUno
      <3> QED BY <3>1, <3>2
    <2> QED BY <2>1 DEF usa
  <1>5. ti \in [Recurso -> [Pid -> Nat]]
    <2>1. ASSUME NEW r \in Recurso PROVE k.tiene[r] \in [Pid -> Nat]
        BY DEF CamposOK
    <2>2. ASSUME NEW r \in Recurso, NEW q PROVE DarUna(k, r, q) \in [Pid -> Nat]
      <3>1. k.tiene[r] \in [Pid -> Nat]
          BY <2>1
      <3>2. CASE q \in Pid
          BY <3>1, <3>2 DEF DarUna
      <3>3. CASE q \notin Pid
          BY <3>1, <3>3 DEF DarUna
      <3> QED BY <3>2, <3>3
    <2> QED BY <2>1, <2>2 DEF ti
  <1>6. blo \in [Clave -> Seq(Pid)]
    <2>1. \A c \in Clave : k.bloqueados[c] \in Seq(Pid)
        BY DEF CamposOK
    <2>2. \A c \in W : Tail(k.bloqueados[c]) \in Seq(Pid)
        BY <1>0, CabezaQueEspera
    <2> QED BY <2>1, <2>2 DEF blo
  <1>7. CamposOK(k2)
      BY <1>2, <1>3, <1>4, <1>5, <1>6 DEF CamposOK
  <1>8. ASSUME NEW r \in Recurso PROVE Sacado(k, k2, p, r)
    <2>1. r \in Clave
        BY DEF Clave
    <2> QED BY <1>2, <2>1 DEF Sacado, W, D, ins, usa, ti, blo
  <1> QED BY <1>7, <1>8 DEF k2

(* p, who counts with what is listed as its own, gives back one instance   *)
(* of each resource, at most to the first who waits for it.                *)
LEMMA SacarReparte ==
  ASSUME NEW k, NEW X, Repartido(k, X), NEW p \in Pid, p \in X, NEW o,
         NEW k2, k2 = sacarle_sus_recursos(k, p, o)
  PROVE  Repartido(k2, X) /\ Crece(k, k2)
  <1>0. CamposOK(k) /\ CamposOK(k2) /\ \A r \in Recurso : Sacado(k, k2, p, r)
      BY SacadoTipo DEF Repartido
  <1>1. ASSUME NEW r \in Recurso
        PROVE  /\ \A q \in Pid : k2.usando[r][q] <= k2.tiene[r][q] /\ k.tiene[r][q] <= k2.tiene[r][q]
               /\ Cubierto(k2, X, r)
    <2> DEFINE W == QueDespiertan(k, p)
               D == Devueltos(k, p)
               h == Head(k.bloqueados[r])
               c == Cuenta(k, X, r)
               d == Cuenta(k2, X, r)
               u == k.usando[r]
               u2 == k2.usando[r]
               t == k.tiene[r]
               t2 == k2.tiene[r]
    <2>1. /\ r \in Clave /\ Cubierto(k, X, r)
          /\ \A q \in Pid : u[q] <= t[q]
        BY DEF Repartido, Clave
    <2>2. /\ c \in [Pid -> Nat] /\ u \in [Pid -> Nat] /\ t \in [Pid -> Nat]
          /\ \A q \in Pid : c[q] = IF q \in X THEN u[q] ELSE t[q]
          /\ k.instancias[r] \in Int /\ Len(k.bloqueados[r]) \in Nat
        BY <1>0, CuentaTipo
    <2>3. /\ d \in [Pid -> Nat] /\ u2 \in [Pid -> Nat] /\ t2 \in [Pid -> Nat]
          /\ \A q \in Pid : d[q] = IF q \in X THEN u2[q] ELSE t2[q]
          /\ k2.instancias[r] \in Int /\ Len(k2.bloqueados[r]) \in Nat
      <3>1. CamposOK(k2)
          BY <1>0
      <3> HIDE <1>0
      <3>2. d \in [Pid -> Nat] /\ u2 \in [Pid -> Nat] /\ t2 \in [Pid -> Nat]
          BY <3>1, CuentaTipo
      <3>3. \A q \in Pid : d[q] = IF q \in X THEN u2[q] ELSE t2[q]
          BY <3>1, CuentaTipo
      <3>4. k2.instancias[r] \in Int /\ Len(k2.bloqueados[r]) \in Nat
          BY <3>1, CuentaTipo
      <3> QED BY <3>2, <3>3, <3>4
    <2>4. Sacado(k, k2, p, r)
        BY <1>0
    <2>5. /\ u2 = [u EXCEPT ![p] = Menos(u[p])]
          /\ t2 = IF r \in W THEN [t EXCEPT ![h] = t[h] + 1] ELSE t
          /\ k2.instancias[r] = IF r \in D THEN k.instancias[r] + 1 ELSE k.instancias[r]
          /\ k2.bloqueados[r] = IF r \in W THEN Tail(k.bloqueados[r]) ELSE k.bloqueados[r]
        BY <2>4 DEF Sacado, DarUna
    <2>6. /\ r \in D <=> u[p] > 0
          /\ r \in W => r \in D /\ k.bloqueados[r] # <<>>
        BY DEF QueDespiertan, Devueltos
    <2>7. r \in W => /\ h \in Pid
                     /\ Len(Tail(k.bloqueados[r])) = Len(k.bloqueados[r]) - 1
        BY <1>0, <2>1, <2>6, CabezaQueEspera
    <2>8. Menos(u[p]) \in Nat /\ Menos(u[p]) <= u[p] /\ (u[p] > 0 => Menos(u[p]) < u[p])
        BY <2>2, MenosUno
    <2> HIDE DEF W, D, h, c, d, u, u2, t, t2
    <2>9. /\ \A q \in Pid : u2[q] <= u[q] /\ (q # p => u2[q] = u[q])
          /\ u[p] > 0 => u2[p] < u[p]
        BY <2>2, <2>5, <2>8
    <2>10. /\ \A q \in Pid : t[q] <= t2[q] /\ (r \notin W \/ q # h => t2[q] = t[q])
           /\ r \in W => t2[h] = t[h] + 1
      <3>1. CASE r \in W
          BY <2>2, <2>5, <2>7, <3>1
      <3>2. CASE r \notin W
          BY <2>2, <2>5, <3>2
      <3> QED BY <3>1, <3>2
    <2>11. \A q \in Pid : u2[q] <= t2[q] /\ t[q] <= t2[q]
        BY <2>1, <2>2, <2>3, <2>9, <2>10 DEF u, t
    <2>12. Cubierto(k2, X, r)
      <3>1. CASE r \notin D
        <4>1. r \notin W
            BY <2>6, <3>1
        <4>2. \A q \in Pid : d[q] <= c[q]
            BY <2>2, <2>3, <2>9, <2>10, <4>1
        <4>3. Len(k2.bloqueados[r]) + k2.instancias[r] <= Len(k.bloqueados[r]) + k.instancias[r]
            BY <2>2, <2>5, <3>1, <4>1
        <4> QED BY <1>0, <2>1, <4>2, <4>3, CubiertoMenos DEF c, d
      <3>2. CASE r \in D /\ (r \notin W \/ h \in X)
        <4>1. \A q \in Pid : d[q] <= c[q]
            BY <2>2, <2>3, <2>9, <2>10, <3>2
        <4>2. d[p] < c[p]
            BY <2>2, <2>3, <2>6, <2>9, <3>2
        <4>3. k2.instancias[r] = k.instancias[r] + 1 /\ Len(k2.bloqueados[r]) <= Len(k.bloqueados[r])
          <5>1. CASE r \in W
              BY <2>2, <2>5, <2>7, <3>2, <5>1
          <5>2. CASE r \notin W
              BY <2>2, <2>5, <3>2, <5>2
          <5> QED BY <5>1, <5>2
        <4>4. Len(k2.bloqueados[r]) + k2.instancias[r] - 1 <= Len(k.bloqueados[r]) + k.instancias[r]
          <5> DEFINE x == Len(k.bloqueados[r])
                     y == Len(k2.bloqueados[r])
                     i == k.instancias[r]
                     j == k2.instancias[r]
          <5>1. i \in Int /\ x \in Nat /\ j \in Int /\ y \in Nat
              BY <2>2, <2>3
          <5>2. j = i + 1 /\ y <= x
              BY <4>3
          <5> HIDE DEF x, y, i, j
          <5>3. y + j - 1 <= x + i
              BY <5>1, <5>2
          <5> QED BY <5>3 DEF x, y, i, j
        <4> QED BY <1>0, <2>1, <4>1, <4>2, <4>4, CubiertoUnaMenos DEF c, d
      <3>3. CASE r \in D /\ r \in W /\ h \notin X
        <4>1. h \in Pid /\ p # h
            BY <2>7, <3>3
        <4>2. d[p] < c[p]
            BY <2>2, <2>3, <2>6, <2>9, <3>3
        <4>3. d[h] <= c[h] + 1
            BY <2>2, <2>3, <2>10, <3>3, <4>1
        <4>4. \A q \in Pid : q # h => d[q] <= c[q]
            BY <2>2, <2>3, <2>9, <2>10
        <4>5. Len(k2.bloqueados[r]) + k2.instancias[r] <= Len(k.bloqueados[r]) + k.instancias[r]
            BY <2>2, <2>5, <2>7, <3>3
        <4> QED BY <1>0, <2>1, <4>1, <4>2, <4>3, <4>4, <4>5, CubiertoPasan DEF c, d
      <3> QED BY <3>1, <3>2, <3>3
    <2> QED BY <2>11, <2>12 DEF u2, t2, t
  <1>2. Repartido(k2, X)
      BY <1>0, <1>1 DEF Repartido
  <1>3. Crece(k, k2)
      BY <1>1 DEF Crece
  <1> QED BY <1>2, <1>3

(* Whoever a queue's head is, being woken gives it one instance.           *)
Despertado(k, k2, c) ==
  /\ CamposDeRecursos \subseteq DOMAIN k2
  /\ k2.usando = k.usando /\ k2.instancias = k.instancias
  /\ k2.tiene = IF c \in Recurso THEN [k.tiene EXCEPT ![c] = DarUna(k, c, Head(k.bloqueados[c]))]
                ELSE k.tiene
  /\ k2.bloqueados = [k.bloqueados EXCEPT ![c] = Tail(k.bloqueados[c])]

LEMMA DespertadoCampos ==
  ASSUME NEW k, CamposOK(k), NEW c \in Clave
  PROVE  \/ evaluar_BLOCKED_a_READY(k, c) = k
         \/ /\ k.bloqueados[c] # <<>>
            /\ Despertado(k, evaluar_BLOCKED_a_READY(k, c), c)
  <1> DEFINE p  == Head(k.bloqueados[c])
             ti == IF c \in Recurso THEN [k.tiene EXCEPT ![c] = DarUna(k, c, p)] ELSE k.tiene
             bl == [k.bloqueados EXCEPT ![c] = Tail(k.bloqueados[c])]
             k1 == [k EXCEPT !.bloqueados = bl, !.tiene = ti]
             k0 == [k EXCEPT !.bloqueados[c] = Tail(@),
                             !.tiene = IF c \in Recurso THEN [@ EXCEPT ![c] = DarUna(k, c, p)] ELSE @]
  <1>1. \/ evaluar_BLOCKED_a_READY(k, c) = k
        \/ /\ k.bloqueados[c] # <<>>
           /\ evaluar_BLOCKED_a_READY(k, c) = A_READY(k0, p)
      BY DEF evaluar_BLOCKED_a_READY
  <1>2. k0 = k1
      BY DEF CamposOK, CamposDeRecursos
  <1> HIDE DEF bl, ti, p
  <1>3. /\ CamposDeRecursos \subseteq DOMAIN k1
        /\ k1.usando = k.usando /\ k1.instancias = k.instancias
        /\ k1.tiene = ti /\ k1.bloqueados = bl
      BY DEF CamposOK, CamposDeRecursos
  <1> HIDE DEF k1, k0
  <1>4. Cuentas(A_READY(k1, p), k1)
    <2>1. Cuentas(k1, k1)
        BY <1>3 DEF Cuentas
    <2> QED BY <2>1, CuentasMueve
  <1>5. Despertado(k, A_READY(k1, p), c)
      BY <1>3, <1>4 DEF Despertado, Cuentas, ti, bl, p
  <1> QED BY <1>1, <1>2, <1>5

LEMMA DespertarReparte ==
  ASSUME NEW k, NEW X, Repartido(k, X), NEW c \in Clave, NEW k2, k2 = evaluar_BLOCKED_a_READY(k, c)
  PROVE  Repartido(k2, X) /\ Crece(k, k2)
  <1>0. CamposOK(k)
      BY DEF Repartido
  <1>1. CASE k2 = k
    <2>1. Cuentas(k2, k)
        BY <1>0, <1>1 DEF Cuentas, CamposOK
    <2> QED BY <2>1, RepartidoIgual
  <1>2. CASE k.bloqueados[c] # <<>> /\ Despertado(k, k2, c)
    <2> DEFINE h == Head(k.bloqueados[c])
    <2>1. h \in Pid /\ Tail(k.bloqueados[c]) \in Seq(Pid) /\ Len(Tail(k.bloqueados[c])) = Len(k.bloqueados[c]) - 1
        BY <1>0, <1>2, CabezaQueEspera
    <2>2. k2.usando = k.usando /\ k2.instancias = k.instancias
        BY <1>2 DEF Despertado
    <2>3. \A d \in Clave : k2.bloqueados[d] = IF d = c THEN Tail(k.bloqueados[c]) ELSE k.bloqueados[d]
        BY <1>0, <1>2 DEF Despertado, CamposOK
    <2>4. \A r \in Recurso : k2.tiene[r] = IF r = c THEN [k.tiene[r] EXCEPT ![h] = k.tiene[r][h] + 1]
                                           ELSE k.tiene[r]
        BY <1>0, <1>2 DEF Despertado, CamposOK, DarUna
    <2>5. \A r \in Recurso : k.tiene[r] \in [Pid -> Nat]
        BY <1>0 DEF CamposOK
    <2> HIDE DEF h
    <2>6. \A r \in Recurso : k2.tiene[r] \in [Pid -> Nat]
      <3> SUFFICES ASSUME NEW r \in Recurso PROVE k2.tiene[r] \in [Pid -> Nat]
          OBVIOUS
      <3>1. k.tiene[r] \in [Pid -> Nat] /\ k.tiene[r][h] + 1 \in Nat
          BY <2>1, <2>5
      <3> QED BY <2>4, <3>1
    <2>7. CamposOK(k2)
      <3>1. CamposDeRecursos \subseteq DOMAIN k2
          BY <1>2 DEF Despertado
      <3>2. k2.tiene \in [Recurso -> [Pid -> Nat]]
        <4>1. k.tiene \in [Recurso -> [Pid -> Nat]]
            BY <1>0 DEF CamposOK
        <4>2. DOMAIN k2.tiene = Recurso /\ k2.tiene = [r \in Recurso |-> k2.tiene[r]]
            BY <1>2, <4>1 DEF Despertado
        <4> QED BY <2>6, <4>2
      <3>3. k2.bloqueados \in [Clave -> Seq(Pid)]
          BY <1>0, <1>2, <2>1 DEF Despertado, CamposOK
      <3> QED BY <1>0, <2>2, <3>1, <3>2, <3>3 DEF CamposOK
    <2>8. ASSUME NEW r \in Recurso
          PROVE  /\ \A q \in Pid : k2.usando[r][q] <= k2.tiene[r][q] /\ k.tiene[r][q] <= k2.tiene[r][q]
                 /\ Cubierto(k2, X, r)
      <3> DEFINE e == Cuenta(k, X, r)
                 d == Cuenta(k2, X, r)
                 u == k.usando[r]
                 t == k.tiene[r]
                 t2 == k2.tiene[r]
      <3>1. /\ r \in Clave /\ Cubierto(k, X, r)
            /\ \A q \in Pid : u[q] <= t[q]
          BY DEF Repartido, Clave
      <3>2. /\ e \in [Pid -> Nat] /\ u \in [Pid -> Nat] /\ t \in [Pid -> Nat]
            /\ \A q \in Pid : e[q] = IF q \in X THEN u[q] ELSE t[q]
            /\ k.instancias[r] \in Int /\ Len(k.bloqueados[r]) \in Nat
          BY <1>0, CuentaTipo
      <3>3. /\ d \in [Pid -> Nat] /\ t2 \in [Pid -> Nat]
            /\ \A q \in Pid : d[q] = IF q \in X THEN u[q] ELSE t2[q]
        <4>1. /\ d \in [Pid -> Nat] /\ t2 \in [Pid -> Nat]
              /\ \A q \in Pid : d[q] = IF q \in X THEN k2.usando[r][q] ELSE t2[q]
            BY <2>7, CuentaTipo
        <4> QED BY <2>2, <4>1
      <3>4. t2 = IF r = c THEN [t EXCEPT ![h] = t[h] + 1] ELSE t
          BY <2>4
      <3>5. k2.instancias[r] = k.instancias[r]
          BY <2>2
      <3> HIDE DEF e, d, u, t, t2
      <3>6. /\ \A q \in Pid : t[q] <= t2[q] /\ (r # c \/ q # h => t2[q] = t[q])
            /\ r = c => t2[h] = t[h] + 1
        <4>1. CASE r = c
            BY <2>1, <3>2, <3>4, <4>1
        <4>2. CASE r # c
            BY <3>2, <3>4, <4>2
        <4> QED BY <4>1, <4>2
      <3>7. \A q \in Pid : u[q] <= t2[q] /\ t[q] <= t2[q]
          BY <3>1, <3>2, <3>3, <3>6 DEF u, t
      <3>a. \A q \in Pid : /\ e[q] \in Nat /\ u[q] \in Nat /\ t[q] \in Nat /\ t2[q] \in Nat
                           /\ q \in X => e[q] = u[q] /\ d[q] = u[q]
                           /\ q \notin X => e[q] = t[q] /\ d[q] = t2[q]
          BY <3>2, <3>3
      <3>8. Cubierto(k2, X, r)
        <4>1. CASE r # c
          <5>1. \A q \in Pid : d[q] <= e[q]
              BY <3>a, <3>6, <4>1
          <5>2. k2.bloqueados[r] = k.bloqueados[r]
              BY <2>3, <3>1, <4>1
          <5>3. Len(k2.bloqueados[r]) + k2.instancias[r] <= Len(k.bloqueados[r]) + k.instancias[r]
              BY <3>2, <3>5, <5>2
          <5> QED BY <1>0, <2>7, <3>1, <5>1, <5>3, CubiertoMenos DEF e, d
        <4>2. CASE r = c
          <5>1. d[h] <= e[h] + 1
              BY <2>1, <3>a, <3>6, <4>2
          <5>2. \A q \in Pid : q # h => d[q] <= e[q]
              BY <3>a, <3>6
          <5>3. Len(k2.bloqueados[r]) = Len(k.bloqueados[r]) - 1
              BY <2>1, <2>3, <3>1, <4>2
          <5>4. Len(k2.bloqueados[r]) + k2.instancias[r] + 1 <= Len(k.bloqueados[r]) + k.instancias[r]
              BY <3>2, <3>5, <5>3
          <5> QED BY <1>0, <2>1, <2>7, <3>1, <5>1, <5>2, <5>4, CubiertoUnaMas DEF e, d
        <4> QED BY <4>1, <4>2
      <3> QED BY <2>2, <3>7, <3>8 DEF u, t, t2
    <2>9. Repartido(k2, X)
        BY <2>7, <2>8 DEF Repartido
    <2>10. Crece(k, k2)
        BY <2>8 DEF Crece
    <2> QED BY <2>9, <2>10
  <1> QED BY <1>0, <1>1, <1>2, DespertadoCampos

(* Nobody gets or gives an instance; those who wait and what is free may   *)
(* be exchanged.                                                           *)
LEMMA MismosReparte ==
  ASSUME NEW k, NEW X, Repartido(k, X), NEW k2, CamposOK(k2),
         k2.usando = k.usando, k2.tiene = k.tiene,
         \A r \in Recurso : Len(k2.bloqueados[r]) + k2.instancias[r] <= Len(k.bloqueados[r]) + k.instancias[r]
  PROVE  Repartido(k2, X) /\ Crece(k, k2)
  <1>0. CamposOK(k)
      BY DEF Repartido
  <1>1. ASSUME NEW r \in Recurso PROVE Cubierto(k2, X, r)
    <2>1. Cubierto(k, X, r)
        BY DEF Repartido
    <2>2. Cuenta(k2, X, r) = Cuenta(k, X, r)
        BY DEF Cuenta
    <2>3. \A q \in Pid : Cuenta(k, X, r)[q] \in Nat
        BY <1>0, CuentaTipo
    <2>4. \A q \in Pid : Cuenta(k2, X, r)[q] <= Cuenta(k, X, r)[q]
        BY <2>2, <2>3
    <2> QED BY <1>0, <2>1, <2>4, CubiertoMenos
  <1>2. \A r \in Recurso : \A q \in Pid : k.tiene[r][q] \in Nat
      BY <1>0 DEF CamposOK
  <1>3. Repartido(k2, X)
      BY <1>1 DEF Repartido
  <1> QED BY <1>2, <1>3 DEF Crece

(* What was free and is not, or is owed to one who does not wait yet.      *)
Negado(k, k2, r) ==
  /\ CamposOK(k2)
  /\ k2.usando = k.usando /\ k2.tiene = k.tiene /\ k2.bloqueados = k.bloqueados
  /\ k2.instancias = [k.instancias EXCEPT ![r] = k.instancias[r] - 1]

LEMMA AsignarNiega ==
  ASSUME NEW k, CamposOK(k), NEW r \in Recurso, NEW p \in Pid, NEW k2, k2 = asignar_recurso(k, r, p),
         ~(k.instancias[r] - 1 >= 0)
  PROVE  Negado(k, k2, r)
  <1> DEFINE us == [k.usando EXCEPT ![r] = [k.usando[r] EXCEPT ![p] = k.usando[r][p]]]
             ti == [k.tiene EXCEPT ![r] = [k.tiene[r] EXCEPT ![p] = k.tiene[r][p]]]
             ins == [k.instancias EXCEPT ![r] = k.instancias[r] - 1]
  <1>1. k2 = [k EXCEPT !.instancias[r] = @ - 1, !.usando[r][p] = @, !.tiene[r][p] = @]
      BY DEF asignar_recurso
  <1>2. k2 = [k EXCEPT !.instancias = ins, !.usando = us, !.tiene = ti]
      BY <1>1 DEF CamposOK, CamposDeRecursos
  <1>3. us = k.usando /\ ti = k.tiene
    <2>1. /\ k.usando \in [Recurso -> [Pid -> Nat]] /\ k.tiene \in [Recurso -> [Pid -> Nat]]
        BY DEF CamposOK
    <2>2. /\ [k.usando[r] EXCEPT ![p] = k.usando[r][p]] = k.usando[r]
          /\ [k.tiene[r] EXCEPT ![p] = k.tiene[r][p]] = k.tiene[r]
        BY <2>1
    <2>3. /\ [k.usando EXCEPT ![r] = k.usando[r]] = k.usando
          /\ [k.tiene EXCEPT ![r] = k.tiene[r]] = k.tiene
        BY <2>1
    <2> QED BY <2>2, <2>3
  <1>4. ins \in [Recurso -> Int]
      BY DEF CamposOK
  <1> HIDE DEF us, ti, ins
  <1>5. /\ CamposDeRecursos \subseteq DOMAIN k2 /\ k2.usando = us /\ k2.tiene = ti
        /\ k2.bloqueados = k.bloqueados /\ k2.instancias = ins
      BY <1>2 DEF CamposOK, CamposDeRecursos
  <1>6. CamposOK(k2)
      BY <1>3, <1>4, <1>5 DEF CamposOK
  <1> QED BY <1>3, <1>5, <1>6 DEF Negado, ins

(* One who blocks: on the resource it was denied, or on an interface.      *)
LEMMA NegadoReparte ==
  ASSUME NEW k, NEW X, Repartido(k, X), NEW r \in Recurso, NEW j, Negado(k, j, r), NEW k2,
         Cuentas(k2, j) \/ \E p \in Pid : Encolada(k2, j, r, p)
  PROVE  Repartido(k2, X) /\ Crece(k, k2)
  <1>0. CamposOK(k) /\ CamposOK(j) /\ r \in Clave
      BY DEF Repartido, Negado, Clave
  <1>1. k2.usando = k.usando /\ k2.tiene = k.tiene /\ k2.instancias = j.instancias
        /\ CamposDeRecursos \subseteq DOMAIN k2 /\ j.bloqueados = k.bloqueados
      BY DEF Negado, Cuentas, Encolada
  <1>2. \A s \in Recurso : /\ s \in Clave /\ k.bloqueados[s] \in Seq(Pid) /\ Len(k.bloqueados[s]) \in Nat
                           /\ k.instancias[s] \in Int
      BY <1>0, CuentaTipo
  <1>3. \A s \in Recurso : k2.instancias[s] = IF s = r THEN k.instancias[s] - 1 ELSE k.instancias[s]
    <2>1. k.instancias \in [Recurso -> Int]
        BY <1>0 DEF CamposOK
    <2> QED BY <1>1, <2>1 DEF Negado
  <1>4. \/ k2.bloqueados = k.bloqueados
        \/ \E p \in Pid : k2.bloqueados = [k.bloqueados EXCEPT ![r] = Append(k.bloqueados[r], p)]
      BY <1>1 DEF Cuentas, Encolada
  <1>5. ASSUME NEW s \in Recurso
        PROVE  Len(k2.bloqueados[s]) + k2.instancias[s] <= Len(k.bloqueados[s]) + k.instancias[s]
    <2> DEFINE x == Len(k.bloqueados[s])
               y == Len(k2.bloqueados[s])
               i == k.instancias[s]
               j2 == k2.instancias[s]
    <2>1. x \in Nat /\ i \in Int /\ k.bloqueados[s] \in Seq(Pid) /\ k.bloqueados \in [Clave -> Seq(Pid)]
        BY <1>0, <1>2 DEF CamposOK
    <2>2. j2 = IF s = r THEN i - 1 ELSE i
        BY <1>3
    <2>3. y = x \/ (s = r /\ y = x + 1)
      <3>1. ASSUME NEW p \in Pid, k2.bloqueados = [k.bloqueados EXCEPT ![r] = Append(k.bloqueados[r], p)]
            PROVE  y = x \/ (s = r /\ y = x + 1)
        <4>1. k2.bloqueados[s] = IF s = r THEN Append(k.bloqueados[s], p) ELSE k.bloqueados[s]
            BY <1>2, <2>1, <3>1
        <4>2. Len(Append(k.bloqueados[s], p)) = Len(k.bloqueados[s]) + 1
            BY <2>1, AppendProperties
        <4> QED BY <4>1, <4>2
      <3> QED BY <1>4, <3>1
    <2> HIDE DEF x, y, i, j2
    <2>4. y + j2 <= x + i
        BY <2>1, <2>2, <2>3
    <2> QED BY <2>4 DEF x, y, i, j2
  <1>6. CamposOK(k2)
    <2>1. k2.instancias \in [Recurso -> Int]
        BY <1>0, <1>1 DEF CamposOK
    <2>2. k.bloqueados \in [Clave -> Seq(Pid)]
        BY <1>0 DEF CamposOK
    <2>3. k2.bloqueados \in [Clave -> Seq(Pid)]
      <3>1. ASSUME NEW p \in Pid, k2.bloqueados = [k.bloqueados EXCEPT ![r] = Append(k.bloqueados[r], p)]
            PROVE  k2.bloqueados \in [Clave -> Seq(Pid)]
        <4>1. Append(k.bloqueados[r], p) \in Seq(Pid)
            BY <1>2, AppendProperties
        <4> QED BY <1>0, <2>2, <3>1, <4>1
      <3> QED BY <1>4, <2>2, <3>1
    <2> QED BY <1>0, <1>1, <2>1, <2>3 DEF CamposOK
  <1> QED BY <1>1, <1>5, <1>6, MismosReparte

LEMMA EsperaReparte ==
  ASSUME NEW k, NEW X, Repartido(k, X), NEW i \in Interfaz, NEW k2,
         Cuentas(k2, k) \/ \E p \in Pid : Encolada(k2, k, i, p)
  PROVE  Repartido(k2, X) /\ Crece(k, k2)
  <1>0. CamposOK(k) /\ i \in Clave /\ i \notin Recurso
      BY ConstantesOK DEF Repartido, Clave
  <1>1. ASSUME NEW p \in Pid, Encolada(k2, k, i, p) PROVE Repartido(k2, X) /\ Crece(k, k2)
    <2>1. k2.usando = k.usando /\ k2.tiene = k.tiene /\ k2.instancias = k.instancias
          /\ CamposDeRecursos \subseteq DOMAIN k2
          /\ k2.bloqueados = [k.bloqueados EXCEPT ![i] = Append(k.bloqueados[i], p)]
        BY <1>1 DEF Encolada
    <2>2. k.bloqueados \in [Clave -> Seq(Pid)]
        BY <1>0 DEF CamposOK
    <2>3. Append(k.bloqueados[i], p) \in Seq(Pid)
        BY <1>0, <2>2, AppendProperties
    <2>4. CamposOK(k2)
        BY <1>0, <2>1, <2>2, <2>3 DEF CamposOK
    <2>5. \A r \in Recurso : k2.bloqueados[r] = k.bloqueados[r]
        BY <1>0, <2>1, <2>2 DEF Clave
    <2>6. \A r \in Recurso : Len(k.bloqueados[r]) \in Nat /\ k.instancias[r] \in Int
        BY <1>0, CuentaTipo
    <2>7. ASSUME NEW r \in Recurso
          PROVE  Len(k2.bloqueados[r]) + k2.instancias[r] <= Len(k.bloqueados[r]) + k.instancias[r]
      <3> DEFINE n == Len(k.bloqueados[r]) + k.instancias[r]
      <3>1. n \in Int /\ n <= n
          BY <2>6
      <3>2. Len(k2.bloqueados[r]) + k2.instancias[r] = n
          BY <2>1, <2>5
      <3> QED BY <3>1, <3>2
    <2> QED BY <2>1, <2>4, <2>7, MismosReparte
  <1> QED BY <1>1, RepartidoIgual

(* p is left with u instances of r listed and t granted, and i are free.   *)
Queda(k, k2, r, p, u, t, i) ==
  /\ CamposDeRecursos \subseteq DOMAIN k2
  /\ k2.usando = [k.usando EXCEPT ![r] = [k.usando[r] EXCEPT ![p] = u]]
  /\ k2.tiene = [k.tiene EXCEPT ![r] = [k.tiene[r] EXCEPT ![p] = t]]
  /\ k2.instancias = [k.instancias EXCEPT ![r] = i]
  /\ k2.bloqueados = k.bloqueados

LEMMA QuedaCampos ==
  ASSUME NEW k, CamposOK(k), NEW r \in Recurso, NEW p \in Pid, NEW u \in Nat, NEW t \in Nat, NEW i \in Int,
         NEW k2, Queda(k, k2, r, p, u, t, i)
  PROVE  /\ CamposOK(k2)
         /\ \A s \in Recurso : k2.instancias[s] = IF s = r THEN i ELSE k.instancias[s]
         /\ \A s \in Recurso : \A q \in Pid :
              /\ k2.usando[s][q] = IF s = r /\ q = p THEN u ELSE k.usando[s][q]
              /\ k2.tiene[s][q] = IF s = r /\ q = p THEN t ELSE k.tiene[s][q]
  <1>1. /\ k.usando \in [Recurso -> [Pid -> Nat]] /\ k.tiene \in [Recurso -> [Pid -> Nat]]
        /\ k.instancias \in [Recurso -> Int] /\ k.bloqueados \in [Clave -> Seq(Pid)]
      BY DEF CamposOK
  <1>2. /\ [k.usando[r] EXCEPT ![p] = u] \in [Pid -> Nat]
        /\ [k.tiene[r] EXCEPT ![p] = t] \in [Pid -> Nat]
      BY <1>1
  <1>3. /\ CamposDeRecursos \subseteq DOMAIN k2
        /\ k2.usando = [k.usando EXCEPT ![r] = [k.usando[r] EXCEPT ![p] = u]]
        /\ k2.tiene = [k.tiene EXCEPT ![r] = [k.tiene[r] EXCEPT ![p] = t]]
        /\ k2.instancias = [k.instancias EXCEPT ![r] = i] /\ k2.bloqueados = k.bloqueados
      BY DEF Queda
  <1>4. k2.usando \in [Recurso -> [Pid -> Nat]] /\ k2.tiene \in [Recurso -> [Pid -> Nat]]
      BY <1>1, <1>2, <1>3
  <1>5. k2.instancias \in [Recurso -> Int]
      BY <1>1, <1>3
  <1>6. CamposOK(k2)
      BY <1>1, <1>3, <1>4, <1>5 DEF CamposOK
  <1>7. \A s \in Recurso : k2.instancias[s] = IF s = r THEN i ELSE k.instancias[s]
      BY <1>1, <1>3
  <1>8. ASSUME NEW s \in Recurso, NEW q \in Pid
        PROVE  k2.usando[s][q] = IF s = r /\ q = p THEN u ELSE k.usando[s][q]
    <2>1. k2.usando[s] = IF s = r THEN [k.usando[r] EXCEPT ![p] = u] ELSE k.usando[s]
        BY <1>1, <1>3
    <2> QED BY <1>1, <2>1
  <1>9. ASSUME NEW s \in Recurso, NEW q \in Pid
        PROVE  k2.tiene[s][q] = IF s = r /\ q = p THEN t ELSE k.tiene[s][q]
    <2>1. k2.tiene[s] = IF s = r THEN [k.tiene[r] EXCEPT ![p] = t] ELSE k.tiene[s]
        BY <1>1, <1>3
    <2> QED BY <1>1, <2>1
  <1> QED BY <1>6, <1>7, <1>8, <1>9

(* Of the other resources nothing changes.                                 *)
LEMMA QuedaReparte ==
  ASSUME NEW k, NEW X, Repartido(k, X), NEW r \in Recurso, NEW p \in Pid,
         NEW u \in Nat, NEW t \in Nat, NEW i \in Int, u <= t,
         NEW k2, Queda(k, k2, r, p, u, t, i), Cubierto(k2, X, r)
  PROVE  Repartido(k2, X)
  <1>0. /\ CamposOK(k) /\ CamposOK(k2)
        /\ \A s \in Recurso : k2.instancias[s] = IF s = r THEN i ELSE k.instancias[s]
        /\ \A s \in Recurso : \A q \in Pid :
             /\ k2.usando[s][q] = IF s = r /\ q = p THEN u ELSE k.usando[s][q]
             /\ k2.tiene[s][q] = IF s = r /\ q = p THEN t ELSE k.tiene[s][q]
    <2>1. CamposOK(k)
        BY DEF Repartido
    <2> QED BY <2>1, QuedaCampos
  <1>1. ASSUME NEW s \in Recurso, s # r PROVE Cubierto(k2, X, s)
    <2>1. Cubierto(k, X, s)
        BY DEF Repartido
    <2>2. \A q \in Pid : Cuenta(k, X, s)[q] \in Nat
        BY <1>0, CuentaTipo
    <2>3. \A q \in Pid : Cuenta(k2, X, s)[q] = Cuenta(k, X, s)[q]
        BY <1>0, <1>1 DEF Cuenta
    <2>4. \A q \in Pid : Cuenta(k2, X, s)[q] <= Cuenta(k, X, s)[q]
        BY <2>2, <2>3
    <2>5. k2.instancias[s] = k.instancias[s] /\ k2.bloqueados[s] = k.bloqueados[s]
        BY <1>0, <1>1 DEF Queda
    <2>6. k.instancias[s] \in Int /\ Len(k.bloqueados[s]) \in Nat
        BY <1>0, CuentaTipo
    <2>7. Len(k2.bloqueados[s]) + k2.instancias[s] <= Len(k.bloqueados[s]) + k.instancias[s]
      <3> DEFINE n == Len(k.bloqueados[s]) + k.instancias[s]
      <3>1. n \in Int /\ n <= n
          BY <2>6
      <3> QED BY <2>5, <3>1
    <2> QED BY <1>0, <2>1, <2>4, <2>7, CubiertoMenos
  <1>2. ASSUME NEW s \in Recurso, NEW q \in Pid PROVE k2.usando[s][q] <= k2.tiene[s][q]
    <2>1. k.usando[s][q] <= k.tiene[s][q]
        BY DEF Repartido
    <2> QED BY <1>0, <2>1
  <1> QED BY <1>0, <1>1, <1>2 DEF Repartido

LEMMA AsignarReparte ==
  ASSUME NEW k, NEW X, Repartido(k, X), NEW r \in Recurso, NEW p \in Pid,
         NEW k2, k2 = asignar_recurso(k, r, p), k.instancias[r] - 1 >= 0
  PROVE  Repartido(k2, X) /\ Crece(k, k2)
  <1> DEFINE u == k.usando[r][p] + 1
             t == k.tiene[r][p] + 1
             i == k.instancias[r] - 1
             us == [k.usando EXCEPT ![r] = [k.usando[r] EXCEPT ![p] = u]]
             ti == [k.tiene EXCEPT ![r] = [k.tiene[r] EXCEPT ![p] = t]]
             ins == [k.instancias EXCEPT ![r] = i]
  <1>b. CamposOK(k)
      BY DEF Repartido
  <1>0. CamposOK(k) /\ r \in Clave /\ Cubierto(k, X, r) /\ k.usando[r][p] <= k.tiene[r][p]
      BY DEF Repartido, Clave
  <1>1. k2 = [k EXCEPT !.instancias[r] = @ - 1, !.usando[r][p] = @ + 1, !.tiene[r][p] = @ + 1]
      BY DEF asignar_recurso
  <1>2. k2 = [k EXCEPT !.instancias = ins, !.usando = us, !.tiene = ti]
      BY <1>0, <1>1 DEF CamposOK, CamposDeRecursos
  <1> HIDE DEF us, ti, ins
  <1>3. /\ CamposDeRecursos \subseteq DOMAIN k2 /\ k2.usando = us /\ k2.tiene = ti
        /\ k2.bloqueados = k.bloqueados /\ k2.instancias = ins
      BY <1>0, <1>2 DEF CamposOK, CamposDeRecursos
  <1>4. Queda(k, k2, r, p, u, t, i)
      BY <1>3 DEF Queda, us, ti, ins
  <1>5. /\ \A q \in Pid : k.usando[r][q] \in Nat /\ k.tiene[r][q] \in Nat
        /\ k.instancias[r] \in Int /\ Len(k.bloqueados[r]) \in Nat
        /\ \A q \in Pid : Cuenta(k, X, r)[q] = IF q \in X THEN k.usando[r][q] ELSE k.tiene[r][q]
    <2>1. k.instancias[r] \in Int /\ Len(k.bloqueados[r]) \in Nat
        BY <1>b, CuentaTipo
    <2>2. \A q \in Pid : k.usando[r][q] \in Nat /\ k.tiene[r][q] \in Nat
        BY <1>b DEF CamposOK
    <2>3. \A q \in Pid : Cuenta(k, X, r)[q] = IF q \in X THEN k.usando[r][q] ELSE k.tiene[r][q]
        BY DEF Cuenta
    <2> QED BY <2>1, <2>2, <2>3
  <1>6. u \in Nat /\ t \in Nat /\ i \in Int /\ u <= t
      BY <1>0, <1>5
  <1>a. u = k.usando[r][p] + 1 /\ t = k.tiene[r][p] + 1 /\ i = k.instancias[r] - 1
      OBVIOUS
  <1> HIDE DEF u, t, i
  <1>7. /\ CamposOK(k2) /\ k2.instancias[r] = i
        /\ \A s \in Recurso : \A q \in Pid :
              /\ k2.usando[s][q] = IF s = r /\ q = p THEN u ELSE k.usando[s][q]
              /\ k2.tiene[s][q] = IF s = r /\ q = p THEN t ELSE k.tiene[s][q]
      BY <1>0, <1>4, <1>6, QuedaCampos
  <1>8. Cubierto(k2, X, r)
    <2>1. \A q \in Pid : Cuenta(k2, X, r)[q] = IF q \in X THEN k2.usando[r][q] ELSE k2.tiene[r][q]
        BY <1>7, CuentaTipo
    <2>2. Cuenta(k2, X, r)[p] = Cuenta(k, X, r)[p] + 1 /\ Cuenta(k2, X, r)[p] \in Nat
        BY <1>5, <1>6, <1>7, <1>a, <2>1
    <2>3. \A q \in Pid : q # p => Cuenta(k2, X, r)[q] = Cuenta(k, X, r)[q] /\ Cuenta(k, X, r)[q] \in Nat
        BY <1>5, <1>7, <2>1
    <2>4. \A q \in Pid : q # p => Cuenta(k2, X, r)[q] <= Cuenta(k, X, r)[q]
        BY <2>3
    <2>5. Cuenta(k2, X, r)[p] <= Cuenta(k, X, r)[p] + 1
        BY <2>2
    <2>6. k2.bloqueados[r] = k.bloqueados[r]
        BY <1>3
    <2>7. Len(k2.bloqueados[r]) + k2.instancias[r] + 1 <= Len(k.bloqueados[r]) + k.instancias[r]
        BY <1>5, <1>7, <1>a, <2>6
    <2> QED BY <1>0, <1>7, <2>4, <2>5, <2>7, CubiertoUnaMas
  <1>9. Repartido(k2, X)
      BY <1>4, <1>6, <1>8, QuedaReparte
  <1>10. Crece(k, k2)
    <2>1. ASSUME NEW s \in Recurso, NEW q \in Pid PROVE k.tiene[s][q] <= k2.tiene[s][q]
      <3>1. k.tiene[s][q] \in Nat
          BY <1>0 DEF CamposOK
      <3> QED BY <1>7, <1>a, <3>1
    <2> QED BY <2>1 DEF Crece
  <1> QED BY <1>9, <1>10

(* Who signals what it was granted is alive, so that the instance it gives *)
(* back is one of those that count.                                        *)
LEMMA DesasignarReparte ==
  ASSUME NEW k, NEW X, Repartido(k, X), NEW r \in Recurso, NEW p \in Pid, p \notin X, k.tiene[r][p] > 0,
         NEW k2, k2 = desasignar_recurso(k, r, p)
  PROVE  Repartido(k2, X)
  <1> DEFINE u == Menos(k.usando[r][p])
             t == Menos(k.tiene[r][p])
             i == k.instancias[r] + 1
             us == [k.usando EXCEPT ![r] = [k.usando[r] EXCEPT ![p] = u]]
             ti == [k.tiene EXCEPT ![r] = [k.tiene[r] EXCEPT ![p] = t]]
             ins == [k.instancias EXCEPT ![r] = i]
  <1>b. CamposOK(k)
      BY DEF Repartido
  <1>0. CamposOK(k) /\ r \in Clave /\ Cubierto(k, X, r) /\ k.usando[r][p] <= k.tiene[r][p]
      BY DEF Repartido, Clave
  <1>1. k2 = [k EXCEPT !.instancias[r] = @ + 1, !.usando[r][p] = Menos(@), !.tiene[r][p] = Menos(@)]
      BY DEF desasignar_recurso
  <1>2. k2 = [k EXCEPT !.instancias = ins, !.usando = us, !.tiene = ti]
      BY <1>0, <1>1 DEF CamposOK, CamposDeRecursos
  <1> HIDE DEF us, ti, ins
  <1>3. /\ CamposDeRecursos \subseteq DOMAIN k2 /\ k2.usando = us /\ k2.tiene = ti
        /\ k2.bloqueados = k.bloqueados /\ k2.instancias = ins
      BY <1>0, <1>2 DEF CamposOK, CamposDeRecursos
  <1>4. Queda(k, k2, r, p, u, t, i)
      BY <1>3 DEF Queda, us, ti, ins
  <1>5. /\ \A q \in Pid : k.usando[r][q] \in Nat /\ k.tiene[r][q] \in Nat
        /\ k.instancias[r] \in Int /\ Len(k.bloqueados[r]) \in Nat
        /\ \A q \in Pid : Cuenta(k, X, r)[q] = IF q \in X THEN k.usando[r][q] ELSE k.tiene[r][q]
    <2>1. k.instancias[r] \in Int /\ Len(k.bloqueados[r]) \in Nat
        BY <1>b, CuentaTipo
    <2>2. \A q \in Pid : k.usando[r][q] \in Nat /\ k.tiene[r][q] \in Nat
        BY <1>b DEF CamposOK
    <2>3. \A q \in Pid : Cuenta(k, X, r)[q] = IF q \in X THEN k.usando[r][q] ELSE k.tiene[r][q]
        BY DEF Cuenta
    <2> QED BY <2>1, <2>2, <2>3
  <1>6. u \in Nat /\ t \in Nat /\ i \in Int /\ u <= t /\ t = k.tiene[r][p] - 1
    <2>1. k.usando[r][p] \in Nat /\ k.tiene[r][p] \in Nat
        BY <1>5
    <2> QED BY <1>0, <1>5, <2>1 DEF Menos
  <1>a. i = k.instancias[r] + 1
      OBVIOUS
  <1> HIDE DEF u, t, i
  <1>7. /\ CamposOK(k2) /\ k2.instancias[r] = i
        /\ \A s \in Recurso : \A q \in Pid :
              /\ k2.usando[s][q] = IF s = r /\ q = p THEN u ELSE k.usando[s][q]
              /\ k2.tiene[s][q] = IF s = r /\ q = p THEN t ELSE k.tiene[s][q]
      BY <1>0, <1>4, <1>6, QuedaCampos
  <1>8. Cubierto(k2, X, r)
    <2>1. \A q \in Pid : Cuenta(k2, X, r)[q] = IF q \in X THEN k2.usando[r][q] ELSE k2.tiene[r][q]
        BY <1>7, CuentaTipo
    <2>2. Cuenta(k2, X, r)[p] = t /\ Cuenta(k, X, r)[p] = k.tiene[r][p]
        BY <1>5, <1>7, <2>1
    <2>3. Cuenta(k2, X, r)[p] < Cuenta(k, X, r)[p]
        BY <1>5, <1>6, <2>2
    <2>4. \A q \in Pid : q # p => Cuenta(k2, X, r)[q] = Cuenta(k, X, r)[q] /\ Cuenta(k, X, r)[q] \in Nat
        BY <1>5, <1>7, <2>1
    <2>5. \A q \in Pid : Cuenta(k2, X, r)[q] <= Cuenta(k, X, r)[q]
        BY <1>5, <1>6, <2>2, <2>4
    <2>6. k2.bloqueados[r] = k.bloqueados[r]
        BY <1>3
    <2>7. Len(k2.bloqueados[r]) + k2.instancias[r] - 1 <= Len(k.bloqueados[r]) + k.instancias[r]
        BY <1>5, <1>7, <1>a, <2>6
    <2> QED BY <1>0, <1>7, <2>3, <2>5, <2>7, CubiertoUnaMenos
  <1> QED BY <1>4, <1>6, <1>8, QuedaReparte

(* Who finishes while it waits leaves the queue, and what it had asked for *)
(* is free again.                                                          *)
LEMMA BlockedExitReparte ==
  ASSUME NEW k, NEW X, Repartido(k, X), NEW p, NEW c \in conseguir_tmb(k, p),
         NEW k2, k2 = evaluar_BLOCKED_a_EXIT(k, p, c)
  PROVE  Repartido(k2, X) /\ Crece(k, k2)
  <1> DEFINE s == RemoveFirst(k.bloqueados[c], p)
             blo == [k.bloqueados EXCEPT ![c] = s]
             dev == Devolver(k, c)
  <1>0. /\ CamposOK(k) /\ c \in Clave /\ p \in ToSet(k.bloqueados[c])
        /\ k.bloqueados \in [Clave -> Seq(Pid)] /\ k.bloqueados[c] \in Seq(Pid)
      BY DEF Repartido, CamposOK, conseguir_tmb
  <1>1. k2 = [k EXCEPT !.bloqueados = blo, !.instancias = dev, !.estado[p] = "EXIT", !.cant = @ - 1]
    <2>1. k2 = [k EXCEPT !.bloqueados[c] = RemoveFirst(@, p), !.instancias = dev,
                         !.estado[p] = "EXIT", !.cant = @ - 1]
        BY DEF evaluar_BLOCKED_a_EXIT
    <2> HIDE DEF dev
    <2> QED BY <1>0, <2>1 DEF CamposOK, CamposDeRecursos
  <1>2. s \in Seq(Pid) /\ Len(s) = Len(k.bloqueados[c]) - 1
    <2>1. \E i \in 1 .. Len(k.bloqueados[c]) : k.bloqueados[c][i] = p
        BY <1>0, EnLugar
    <2>2. PICK i \in 1 .. Len(k.bloqueados[c]) : s = RemoveAt(k.bloqueados[c], i)
        BY <1>0, <2>1, QuitaPrimero
    <2> QED BY <1>0, <2>2, SinUno
  <1>3. /\ dev \in [Recurso -> Int]
        /\ \A r \in Recurso : dev[r] = IF r = c THEN k.instancias[r] + 1 ELSE k.instancias[r]
      BY <1>0 DEF Devolver, CamposOK
  <1> HIDE DEF s, dev
  <1>4. blo \in [Clave -> Seq(Pid)] /\ \A r \in Clave : blo[r] = IF r = c THEN s ELSE k.bloqueados[r]
      BY <1>0, <1>2
  <1> HIDE DEF blo
  <1>5. /\ CamposDeRecursos \subseteq DOMAIN k2 /\ k2.usando = k.usando /\ k2.tiene = k.tiene
        /\ k2.bloqueados = blo /\ k2.instancias = dev
      BY <1>0, <1>1 DEF CamposOK, CamposDeRecursos
  <1>6. CamposOK(k2)
      BY <1>0, <1>3, <1>4, <1>5 DEF CamposOK
  <1>7. ASSUME NEW r \in Recurso
        PROVE  Len(k2.bloqueados[r]) + k2.instancias[r] <= Len(k.bloqueados[r]) + k.instancias[r]
    <2> DEFINE x == Len(k.bloqueados[r])
               y == Len(k2.bloqueados[r])
               i == k.instancias[r]
               j == k2.instancias[r]
    <2>1. x \in Nat /\ i \in Int /\ r \in Clave
        BY <1>0, CuentaTipo
    <2>2. j = IF r = c THEN i + 1 ELSE i
        BY <1>3, <1>5
    <2>3. y = IF r = c THEN x - 1 ELSE x
        BY <1>2, <1>4, <1>5, <2>1
    <2> HIDE DEF x, y, i, j
    <2>4. y + j <= x + i
        BY <2>1, <2>2, <2>3
    <2> QED BY <2>4 DEF x, y, i, j
  <1> QED BY <1>5, <1>6, <1>7, MismosReparte

(***************************************************************************)
(* The steps                                                               *)
(***************************************************************************)
(* A SIGNAL on its way is for an instance that its process was granted.    *)
Debe(k, a) ==
  a # <<>> /\ Head(a).motivo = "SIGNAL" /\ Head(a).arg \in Recurso
    => k.tiene[Head(a).arg][Head(a).pid] > 0

LEMMA DebeCrece ==
  ASSUME NEW k, CamposOK(k), NEW k2, CamposOK(k2), Crece(k, k2), NEW a, Debe(k, a),
         a # <<>> => Head(a).pid \in Pid
  PROVE  Debe(k2, a)
  <1> DEFINE r == Head(a).arg
             q == Head(a).pid
  <1> SUFFICES ASSUME a # <<>>, Head(a).motivo = "SIGNAL", r \in Recurso PROVE k2.tiene[r][q] > 0
      BY DEF Debe
  <1>1. k.tiene[r][q] > 0 /\ q \in Pid
      BY DEF Debe
  <1> HIDE DEF r, q
  <1>2. k.tiene[r][q] \in Nat /\ k2.tiene[r][q] \in Nat /\ k.tiene[r][q] <= k2.tiene[r][q]
      BY <1>1 DEF CamposOK, Crece
  <1> QED BY <1>1, <1>2

LEMMA CamposDeKernel ==
  ASSUME NEW k \in KernelType
  PROVE  CamposOK(k) /\ Cuentas(k, k)
  BY DEF KernelType, CamposOK, CamposDeRecursos, Cuentas

LEMMA CrecePasa ==
  ASSUME NEW k1, CamposOK(k1), NEW k2, CamposOK(k2), NEW k3, CamposOK(k3), Crece(k1, k2), Crece(k2, k3)
  PROVE  Crece(k1, k3)
  <1> SUFFICES ASSUME NEW r \in Recurso, NEW p \in Pid PROVE k1.tiene[r][p] <= k3.tiene[r][p]
      BY DEF Crece
  <1>1. k1.tiene[r][p] \in Nat /\ k2.tiene[r][p] \in Nat /\ k3.tiene[r][p] \in Nat
      BY DEF CamposOK
  <1>2. k1.tiene[r][p] <= k2.tiene[r][p] /\ k2.tiene[r][p] <= k3.tiene[r][p]
      BY DEF Crece
  <1> QED BY <1>1, <1>2

(* From k through one operation on instances to k1 and, by moves that touch*)
(* none, to k2.                                                            *)
Conserva(k, k2, X) == Repartido(k2, X) /\ Crece(k, k2)
LEMMA ConservaPasa ==
  ASSUME NEW k, CamposOK(k), NEW X, NEW k1, Repartido(k1, X), Crece(k, k1), NEW k2, Conserva(k1, k2, X)
  PROVE  Conserva(k, k2, X)
  <1>1. Repartido(k2, X) /\ Crece(k1, k2) /\ CamposOK(k1) /\ CamposOK(k2)
      BY DEF Conserva, Repartido
  <1> QED BY <1>1, CrecePasa DEF Conserva

(* The killing of p: its resources, its state, the planners.               *)
LEMMA ConfiscaReparte ==
  ASSUME NEW k, NEW X, Repartido(k, X), NEW p \in Pid, p \in X, NEW o,
         NEW k2, k2 = sacarle_sus_recursos(k, p, o), NEW k3, Conserva(k2, k3, X),
         NEW k4, k4 = Planificar(k3)
  PROVE  Conserva(k, k4, X)
  <1>1. CamposOK(k) /\ Repartido(k2, X) /\ Crece(k, k2)
      BY SacarReparte DEF Repartido
  <1>2. Conserva(k, k3, X)
      BY <1>1, ConservaPasa
  <1>3. Repartido(k3, X) /\ Crece(k, k3)
      BY <1>2 DEF Conserva
  <1>4. Cuentas(k3, k3)
      BY <1>3 DEF Repartido, CamposOK, Cuentas
  <1>5. Conserva(k3, k4, X)
    <2>1. Cuentas(k4, k3)
        BY <1>4, CuentasPlanifica
    <2> QED BY <1>3, <2>1, RepartidoIgual DEF Conserva
  <1> QED BY <1>1, <1>3, <1>5, ConservaPasa

LEMMA MatadoReparte ==
  ASSUME kernel \in KernelType, NEW X, Repartido(kernel, X), NEW e
  PROVE  Repartido(Matado(e), X) /\ Crece(kernel, Matado(e))
  <1>1. Cuentas(Matado(e), kernel)
      BY DEF KernelType, Cuentas, CamposDeRecursos, Matado
  <1> QED BY <1>1, RepartidoIgual

LEMMA ConsolaReparte ==
  ASSUME Tipos, Ordenado(kernel), Consola,
         "RUNNING" \notin EstadosMatables, "READY_PRIORITARIO" \notin EstadosMatables,
         NEW X, Repartido(kernel, X), \A p \in Pid : kernel.estado[p] = "EXIT" => p \in X,
         \A p \in Pid : kernel'.estado[p] = "EXIT" => p \in X
  PROVE  Conserva(kernel, kernel', X)
  <1>0. KernelOK(kernel) /\ kernel \in KernelType /\ CamposOK(kernel) /\ Cuentas(kernel, kernel)
      BY TiposPorPartes, CamposDeKernel DEF KernelOK
  <1>a. ASSUME Cuentas(kernel', kernel) PROVE Conserva(kernel, kernel', X)
      BY <1>a, RepartidoIgual DEF Conserva
  <1>b. "NEW" \in Estado /\ "BLOCKED" \in Estado
      BY DEF Estado
  <1>c. ASSUME NEW k, Ordenado(k), NEW p \in Pid, k.estado[p] = "EXIT", kernel' = Planificar(k)
        PROVE  p \in X
      BY <1>c, SigueMuerto
  <1>1. ASSUME NEW b \in BOOLEAN, IniciarProceso(b) PROVE Conserva(kernel, kernel', X)
    <2> DEFINE p == kernel.contador
    <2>1. \/ kernel' = [kernel EXCEPT !.contador = p + 1, !.estado[p] = "NEW",
                                      !.cola_NEW = Append(@, p)]
          \/ kernel' = [kernel EXCEPT !.contador = p + 1]
        BY <1>1 DEF IniciarProceso
    <2> HIDE DEF p
    <2>2. Cuentas(kernel', kernel)
        BY <1>0, <2>1 DEF Cuentas, CamposDeRecursos
    <2> QED BY <1>a, <2>2
  <1>2. CASE IniciarPlanificacion
    <2> DEFINE k1 == [kernel EXCEPT !.pausada = FALSE]
    <2>1. kernel' = evaluar_READY_a_EXEC(evaluar_NEW_a_READY(k1))
        BY <1>2 DEF IniciarPlanificacion
    <2>2. Cuentas(k1, kernel)
        BY <1>0 DEF Cuentas, CamposDeRecursos
    <2> HIDE DEF k1
    <2>3. Cuentas(kernel', kernel)
        BY <2>1, <2>2, CuentasPlanifica
    <2> QED BY <1>a, <2>3
  <1>3. CASE DetenerPlanificacion
    <2>1. Cuentas(kernel', kernel)
        BY <1>0, <1>3 DEF DetenerPlanificacion, Cuentas, CamposDeRecursos
    <2> QED BY <1>a, <2>1
  <1>4. ASSUME NEW g \in Grados, Multiprogramacion(g) PROVE Conserva(kernel, kernel', X)
    <2> DEFINE k1 == [kernel EXCEPT !.grado = g]
    <2>1. kernel' = evaluar_NEW_a_READY(k1)
        BY <1>4 DEF Multiprogramacion
    <2>2. Cuentas(k1, kernel)
        BY <1>0 DEF Cuentas, CamposDeRecursos
    <2> HIDE DEF k1
    <2>3. Cuentas(kernel', kernel)
        BY <2>1, <2>2, CuentasPlanifica
    <2> QED BY <1>a, <2>3
  <1>5. ASSUME NEW p \in Pid, FinalizarInexistente(p) PROVE Conserva(kernel, kernel', X)
    <2>1. kernel' = Planificar(kernel)
        BY <1>5 DEF FinalizarInexistente
    <2>2. Cuentas(kernel', kernel)
        BY <1>0, <2>1, CuentasPlanifica
    <2> QED BY <1>a, <2>2
  <1>6. ASSUME NEW p \in Pid, FinalizarNew(p) PROVE Conserva(kernel, kernel', X)
    <2> DEFINE k1 == Matado("NEW")
    <2>1. PICK o \in Ordenes(kernel, p) :
            kernel' = Planificar(evaluar_NEW_a_EXIT(sacarle_sus_recursos(k1, p, o), p))
        BY <1>6 DEF FinalizarNew
    <2>2. Ordenado(k1) /\ k1.estado = kernel.estado /\ k1.matados = kernel.matados \cup {"NEW"}
        BY <1>b, MatadoOrden DEF Matado
    <2>3. o \in Ordenes(k1, p) /\ k1.estado[p] = "NEW"
        BY <1>0, <1>6, <1>b, <2>2, MatadoTipo DEF FinalizarNew, Matable
    <2>r. Repartido(k1, X) /\ Crece(kernel, k1)
        BY <1>0, MatadoReparte
    <2> HIDE DEF k1
    <2> DEFINE k2 == sacarle_sus_recursos(k1, p, o)
               k3 == evaluar_NEW_a_EXIT(k2, p)
    <2>4. Ordenado(k2) /\ FueraDeCPU(k1, k2) /\ k2.estado[p] = "NEW"
      <3>1. Ordenado(k2) /\ FueraDeCPU(k1, k2)
          BY <2>2, <2>3, Sacar
      <3>2. \A q \in Pid : \/ k2.estado[q] = k1.estado[q]
                           \/ k1.estado[q] = "BLOCKED"
          BY <2>2, <2>3, Sacar
      <3> QED BY <2>3, <3>1, <3>2
    <2>5. ~SinMatar(k2, {"NEW"})
        BY <2>2, <2>4 DEF FueraDeCPU, Fijo, SinMatar
    <2>6. Ordenado(k3) /\ k3.estado[p] = "EXIT"
      <3> HIDE DEF k2
      <3>1. Ordenado(k3)
          BY <2>4, <2>5, NewExit
      <3>2. k2 \in KernelType
          BY <2>4, OrdenadoTipo
      <3> QED BY <3>1, <3>2 DEF evaluar_NEW_a_EXIT, KernelType
    <2>7. kernel' = Planificar(k3)
        BY <2>1
    <2>8. Repartido(k2, X)
        BY <2>r, <2>6, <2>7, <1>c, SacarReparte
    <2>9. Conserva(k2, k3, X)
      <3> HIDE DEF k2
      <3>1. Cuentas(k2, k2)
          BY <2>4, OrdenadoTipo, CamposDeKernel
      <3>2. Cuentas(k3, k2)
          BY <3>1, CuentasMueve
      <3> QED BY <2>8, <3>2, RepartidoIgual DEF Conserva
    <2> HIDE DEF k3
    <2>10. Conserva(k1, kernel', X)
        BY <2>r, <2>6, <2>7, <2>9, <1>c, ConfiscaReparte
    <2> QED BY <1>0, <2>r, <2>10, ConservaPasa
  <1>7. ASSUME NEW p \in Pid, FinalizarReady(p) PROVE Conserva(kernel, kernel', X)
    <2>1. PICK o \in Ordenes(kernel, p) :
            kernel' = Planificar(evaluar_READY_a_EXIT(sacarle_sus_recursos(kernel, p, o), p))
        BY <1>7 DEF FinalizarReady
    <2>3. kernel.estado[p] = "READY"
        BY <1>7 DEF FinalizarReady, Matable
    <2> DEFINE k2 == sacarle_sus_recursos(kernel, p, o)
               k3 == evaluar_READY_a_EXIT(k2, p)
    <2>4. Ordenado(k2) /\ k2.estado[p] = "READY"
      <3>1. Ordenado(k2)
          BY Sacar
      <3>2. \A q \in Pid : \/ k2.estado[q] = kernel.estado[q]
                           \/ kernel.estado[q] = "BLOCKED"
          BY Sacar
      <3> QED BY <2>3, <3>1, <3>2
    <2>6. Ordenado(k3) /\ k3.estado[p] = "EXIT"
      <3> HIDE DEF k2
      <3>1. Ordenado(k3)
          BY <2>4, ReadyExit
      <3>2. k2 \in KernelType
          BY <2>4, OrdenadoTipo
      <3> QED BY <3>1, <3>2 DEF evaluar_READY_a_EXIT, KernelType
    <2>7. kernel' = Planificar(k3)
        BY <2>1
    <2>8. Repartido(k2, X)
        BY <2>6, <2>7, <1>c, SacarReparte
    <2>9. Conserva(k2, k3, X)
      <3> HIDE DEF k2
      <3>1. Cuentas(k2, k2)
          BY <2>4, OrdenadoTipo, CamposDeKernel
      <3>2. Cuentas(k3, k2)
          BY <3>1, CuentasMueve
      <3> QED BY <2>8, <3>2, RepartidoIgual DEF Conserva
    <2> HIDE DEF k3
    <2> QED BY <2>6, <2>7, <2>9, <1>c, ConfiscaReparte
  <1>8. ASSUME NEW p \in Pid, FinalizarBlocked(p) PROVE Conserva(kernel, kernel', X)
    <2> DEFINE k1 == Matado("BLOCKED")
    <2>1. PICK o \in Ordenes(kernel, p) :
            LET k == sacarle_sus_recursos(k1, p, o)
            IN  \/ \E c \in conseguir_tmb(k, p) : kernel' = Planificar(evaluar_BLOCKED_a_EXIT(k, p, c))
                \/ KernelSeCae
        BY <1>8 DEF FinalizarBlocked
    <2>2. Ordenado(k1)
        BY <1>b, MatadoOrden DEF Matado
    <2>3. o \in Ordenes(k1, p)
        BY <1>0, <1>b, MatadoTipo
    <2>r. Repartido(k1, X) /\ Crece(kernel, k1)
        BY <1>0, MatadoReparte
    <2> HIDE DEF k1
    <2> DEFINE k2 == sacarle_sus_recursos(k1, p, o)
    <2>4. Ordenado(k2)
        BY <2>2, <2>3, Sacar
    <2>5. \/ \E c \in conseguir_tmb(k2, p) : kernel' = Planificar(evaluar_BLOCKED_a_EXIT(k2, p, c))
          \/ KernelSeCae
        BY <2>1
    <2>6. ASSUME NEW c \in conseguir_tmb(k2, p), kernel' = Planificar(evaluar_BLOCKED_a_EXIT(k2, p, c))
          PROVE  Conserva(kernel, kernel', X)
      <3> DEFINE k3 == evaluar_BLOCKED_a_EXIT(k2, p, c)
      <3>1. Ordenado(k3) /\ k3.estado[p] = "EXIT"
        <4>0. c \in conseguir_tmb(k2, p)
            BY <2>6
        <4> HIDE DEF k2
        <4>1. Ordenado(k3)
            BY <2>4, <4>0, BlockedExit
        <4>2. k2 \in KernelType
            BY <2>4, OrdenadoTipo
        <4> QED BY <4>1, <4>2 DEF evaluar_BLOCKED_a_EXIT, KernelType
      <3>2. kernel' = Planificar(k3)
          BY <2>6
      <3>3. Repartido(k2, X)
          BY <2>r, <3>1, <3>2, <1>c, SacarReparte
      <3>4. Conserva(k2, k3, X)
        <4>0. c \in conseguir_tmb(k2, p)
            BY <2>6
        <4> HIDE DEF k2
        <4> QED BY <3>3, <4>0, BlockedExitReparte DEF Conserva
      <3> HIDE DEF k3
      <3>5. Conserva(k1, kernel', X)
          BY <2>r, <3>1, <3>2, <3>4, <1>c, ConfiscaReparte
      <3> QED BY <1>0, <2>r, <3>5, ConservaPasa
    <2>7. CASE KernelSeCae
      <3>1. Cuentas(kernel', kernel)
          BY <1>0, <2>7 DEF KernelSeCae, Cuentas, CamposDeRecursos
      <3> QED BY <1>a, <3>1
    <2> HIDE DEF k2
    <2> QED BY <2>5, <2>6, <2>7
  <1>9. ASSUME NEW p \in Pid, FinalizarOtro(p) PROVE Conserva(kernel, kernel', X)
    <2>1. PICK o \in Ordenes(kernel, p) : kernel' = Planificar(sacarle_sus_recursos(kernel, p, o))
        BY <1>9 DEF FinalizarOtro
    <2>2. p \in X
        BY <1>9 DEF FinalizarOtro, Matable
    <2> DEFINE k2 == sacarle_sus_recursos(kernel, p, o)
    <2>3. Repartido(k2, X)
        BY <2>2, SacarReparte
    <2>4. Conserva(k2, k2, X)
      <3> HIDE DEF k2
      <3>1. Cuentas(k2, k2)
          BY <2>3 DEF Repartido, CamposOK, Cuentas
      <3> QED BY <2>3, <3>1, RepartidoIgual DEF Conserva
    <2> QED BY <2>1, <2>2, <2>4, ConfiscaReparte
  <1>10. ASSUME NEW p \in Pid, FinalizarRunning(p) PROVE FALSE
      BY <1>10 DEF FinalizarRunning, Matable
  <1> QED BY <1>1, <1>2, <1>3, <1>4, <1>5, <1>6, <1>7, <1>8, <1>9, <1>10 DEF Consola

(* The threads that answer the CPU, but for SIGNAL: who finishes for want  *)
(* of memory loses what is listed as its own, who asks for an instance     *)
(* gets it or waits.                                                       *)
LEMMA RespuestasReparte ==
  ASSUME Tipos, Ordenado(kernel), Ficha(kernel, cpu, a_kernel), NEW X, Repartido(kernel, X), NEW q \in Pid,
         \/ AtenderExit(q)
         \/ AtenderOutOfMemory(q)
         \/ AtenderWait(q)
         \/ AtenderInterrupcion(q)
         \/ AtenderIO(q),
         \A p \in Pid : kernel'.estado[p] = "EXIT" => p \in X
  PROVE  Repartido(kernel', X)
  <1>0. kernel \in KernelType /\ CamposOK(kernel) /\ Cuentas(kernel, kernel)
      BY OrdenadoTipo, CamposDeKernel
  <1>a. ASSUME Cuentas(kernel', kernel) PROVE Repartido(kernel', X)
      BY <1>a, RepartidoIgual
  <1>b. ASSUME NEW mo, Atiende(q, mo)
        PROVE  Corre(kernel, q) /\ kernel.cola_RUNNING = <<q>> /\ kernel.dispatch = <<>>
      BY <1>b, Atendida DEF Corre
  <1>c. Cuentas(TerminaHilo(kernel, q), kernel)
      BY <1>0, CuentasMueve
  <1>1. CASE AtenderExit(q)
    <2>1. PICK v \in Restos : kernel' = evaluar_EXEC_a_EXIT(TerminaHilo(kernel, q), v)
        BY <1>1 DEF AtenderExit
    <2>2. Cuentas(kernel', kernel)
        BY <1>c, <2>1, CuentasDesaloja
    <2> QED BY <1>a, <2>2
  <1>2. CASE AtenderOutOfMemory(q)
    <2>1. PICK o \in Ordenes(kernel, q), v \in Restos :
            kernel' = evaluar_EXEC_a_EXIT(TerminaHilo(sacarle_sus_recursos(kernel, q, o), q), v)
        BY <1>2 DEF AtenderOutOfMemory
    <2> DEFINE k0 == sacarle_sus_recursos(kernel, q, o)
               k1 == TerminaHilo(k0, q)
    <2>2. Corre(kernel, q)
        BY <1>2, <1>b DEF AtenderOutOfMemory
    <2>3. Ordenado(k0) /\ FueraDeCPU(kernel, k0)
        BY Sacar
    <2>4. kernel' = evaluar_EXEC_a_EXIT(k1, v)
        BY <2>1
    <2>k. k0 = sacarle_sus_recursos(kernel, q, o)
        OBVIOUS
    <2> HIDE DEF k0
    <2>5. Corre(k0, q)
        BY <2>2, <2>3 DEF FueraDeCPU, Quieto, Corre
    <2>6. Anota(k0, k1) /\ SinHilos(k1)
        BY <2>3, <2>5, Termina
    <2>c. Cuentas(k0, k0)
        BY <2>3, OrdenadoTipo, CamposDeKernel
    <2>d. Cuentas(k1, k0)
        BY <2>c, CuentasMueve
    <2> HIDE DEF k1
    <2>7. kernel'.estado[q] = "EXIT"
      <3>1. Ordenado(k1) /\ k1.cola_RUNNING = <<q>>
          BY <2>5, <2>6 DEF Anota, Corre
      <3> QED BY <2>4, <2>6, <3>1, RestosTipo, ExecExit
    <2>8. Repartido(k0, X)
        BY <2>7, <2>k, SacarReparte
    <2>9. Cuentas(kernel', k0)
        BY <2>4, <2>d, CuentasDesaloja
    <2> QED BY <2>8, <2>9, RepartidoIgual
  <1>3. CASE AtenderWait(q)
    <2> DEFINE r == Head(a_kernel).arg
    <2>1. kernel.cola_RUNNING = <<q>>
        BY <1>3, <1>b DEF AtenderWait
    <2>2. CASE r \notin Recurso
      <3>1. PICK v \in Restos : kernel' = evaluar_EXEC_a_EXIT(Responder(TerminaHilo(kernel, q), 1), v)
          BY <1>3, <2>2 DEF AtenderWait
      <3>2. Cuentas(Responder(TerminaHilo(kernel, q), 1), kernel)
          BY <1>c, CuentasMueve
      <3>3. Cuentas(kernel', kernel)
          BY <3>1, <3>2, CuentasDesaloja
      <3> QED BY <1>a, <3>3
    <2>3. CASE r \in Recurso
      <3> DEFINE k1 == asignar_recurso(kernel, r, q)
      <3>1. IF k1.instancias[r] >= 0
            THEN kernel' = Responder(k1, 0)
            ELSE \E v \in Restos :
                   kernel' = evaluar_EXEC_a_BLOCKED(Responder(TerminaHilo(k1, q), 1), r, v)
          BY <1>3, <2>3 DEF AtenderWait
      <3>2. k1.instancias[r] = kernel.instancias[r] - 1
          BY <1>0, <2>3 DEF asignar_recurso, KernelType
      <3>a. Ordenado(k1) /\ Anota(kernel, k1)
          BY <2>3, Asigna DEF Anota
      <3>b. Cuentas(k1, k1)
          BY <3>a, OrdenadoTipo, CamposDeKernel
      <3>k. k1 = asignar_recurso(kernel, r, q)
          OBVIOUS
      <3> HIDE DEF k1, r
      <3>4. CASE k1.instancias[r] >= 0
        <4>1. kernel' = Responder(k1, 0)
            BY <3>1, <3>4
        <4>2. kernel.instancias[r] - 1 >= 0
            BY <3>2, <3>4
        <4>3. Repartido(k1, X)
            BY <2>3, <3>k, <4>2, AsignarReparte
        <4>4. Cuentas(kernel', k1)
            BY <3>b, <4>1, CuentasMueve
        <4> QED BY <4>3, <4>4, RepartidoIgual
      <3>5. CASE ~(k1.instancias[r] >= 0)
        <4>1. PICK v \in Restos :
                kernel' = evaluar_EXEC_a_BLOCKED(Responder(TerminaHilo(k1, q), 1), r, v)
            BY <3>1, <3>5
        <4> DEFINE k3 == Responder(TerminaHilo(k1, q), 1)
        <4>2. kernel' = evaluar_EXEC_a_BLOCKED(k3, r, v)
            BY <4>1
        <4>3. ~(kernel.instancias[r] - 1 >= 0)
            BY <3>2, <3>5
        <4>4. Negado(kernel, k1, r)
            BY <1>0, <2>3, <3>k, <4>3, AsignarNiega
        <4>5. Cuentas(k3, k1)
          <5>1. Cuentas(TerminaHilo(k1, q), k1)
              BY <3>b, CuentasMueve
          <5> QED BY <5>1, CuentasMueve
        <4>6. k3.cola_RUNNING = <<q>>
          <5>1. k1.cola_RUNNING = <<q>> /\ k1 \in KernelType
              BY <2>1, <3>a, OrdenadoTipo DEF Anota
          <5> QED BY <5>1 DEF Responder, TerminaHilo, KernelType
        <4> HIDE DEF k3
        <4>7. Head(k3.cola_RUNNING) \in Pid
          <5>1. Head(<<q>>) = q
              OBVIOUS
          <5> QED BY <4>6, <5>1
        <4>8. \/ Cuentas(evaluar_EXEC_a_BLOCKED(k3, r, v), k1)
              \/ Encolada(evaluar_EXEC_a_BLOCKED(k3, r, v), k1, r, Head(k3.cola_RUNNING))
            BY <4>5, CuentasDesaloja
        <4>9. Cuentas(kernel', k1) \/ \E p \in Pid : Encolada(kernel', k1, r, p)
            BY <4>2, <4>7, <4>8
        <4> QED BY <2>3, <4>4, <4>9, NegadoReparte
      <3> QED BY <3>4, <3>5
    <2> QED BY <2>2, <2>3
  <1>4. CASE AtenderInterrupcion(q)
    <2>1. PICK v \in Restos : kernel' = evaluar_EXEC_a_READY(TerminaHilo(kernel, q), v)
        BY <1>4 DEF AtenderInterrupcion
    <2>2. Cuentas(kernel', kernel)
        BY <1>c, <2>1, CuentasDesaloja
    <2> QED BY <1>a, <2>2
  <1>5. CASE AtenderIO(q)
    <2> DEFINE i == Head(a_kernel).arg
               k1 == TerminaHilo(kernel, q)
    <2>1. PICK v \in Restos :
            kernel' = IF i \in kernel.conectadas THEN evaluar_EXEC_a_BLOCKED(k1, i, v)
                      ELSE evaluar_EXEC_a_EXIT(k1, v)
        BY <1>5 DEF AtenderIO
    <2>2. kernel.cola_RUNNING = <<q>>
        BY <1>5, <1>b DEF AtenderIO
    <2>3. k1.cola_RUNNING = <<q>>
        BY <1>0, <2>2 DEF TerminaHilo, KernelType
    <2>4. Cuentas(k1, kernel)
        BY <1>c
    <2> HIDE DEF k1, i
    <2>5. CASE i \notin kernel.conectadas
      <3>1. Cuentas(kernel', kernel)
          BY <2>1, <2>4, <2>5, CuentasDesaloja
      <3> QED BY <1>a, <3>1
    <2>6. CASE i \in kernel.conectadas
      <3>1. i \in Interfaz
          BY <1>0, <2>6 DEF KernelType
      <3>2. Head(k1.cola_RUNNING) \in Pid
        <4>1. Head(<<q>>) = q
            OBVIOUS
        <4> QED BY <2>3, <4>1
      <3>3. \/ Cuentas(evaluar_EXEC_a_BLOCKED(k1, i, v), kernel)
            \/ Encolada(evaluar_EXEC_a_BLOCKED(k1, i, v), kernel, i, Head(k1.cola_RUNNING))
          BY <2>4, CuentasDesaloja
      <3>4. Cuentas(kernel', kernel) \/ \E p \in Pid : Encolada(kernel', kernel, i, p)
          BY <2>1, <2>6, <3>2, <3>3
      <3> QED BY <3>1, <3>4, EsperaReparte
    <2> QED BY <2>5, <2>6
  <1> QED BY <1>1, <1>2, <1>3, <1>4, <1>5

(* SIGNAL, from who was granted the instance it gives back.                *)
LEMMA SignalReparte ==
  ASSUME Tipos, Ordenado(kernel), Ficha(kernel, cpu, a_kernel), Debe(kernel, a_kernel),
         NEW X, Repartido(kernel, X), NEW q \in Pid, q \notin X, AtenderSignal(q)
  PROVE  Repartido(kernel', X)
  <1> DEFINE r == Head(a_kernel).arg
  <1>0. kernel \in KernelType /\ CamposOK(kernel) /\ Cuentas(kernel, kernel)
      BY OrdenadoTipo, CamposDeKernel
  <1>1. Head(a_kernel).motivo = "SIGNAL" /\ Head(a_kernel).pid = q /\ a_kernel # <<>>
    <2>1. Atiende(q, "SIGNAL")
        BY DEF AtenderSignal
    <2> QED BY <2>1, Atendida DEF Atiende
  <1>2. CASE r \notin Recurso
    <2>1. kernel' = kernel
        BY <1>2 DEF AtenderSignal
    <2> QED BY <2>1
  <1>3. CASE r \in Recurso
    <2> DEFINE k1 == desasignar_recurso(kernel, r, q)
               k2 == Responder(k1, 0)
    <2>1. kernel' = evaluar_BLOCKED_a_READY(k2, r)
        BY <1>3 DEF AtenderSignal
    <2>2. kernel.tiene[r][q] > 0
        BY <1>1, <1>3 DEF Debe
    <2>3. r \in Clave
        BY <1>3 DEF Clave
    <2>k. k1 = desasignar_recurso(kernel, r, q)
        OBVIOUS
    <2> HIDE DEF k1, r
    <2>4. Repartido(k1, X)
        BY <1>3, <2>2, <2>k, DesasignarReparte
    <2>5. Cuentas(k1, k1)
        BY <2>4 DEF Repartido, CamposOK, Cuentas
    <2>6. Cuentas(k2, k1)
        BY <2>5, CuentasMueve
    <2>7. Repartido(k2, X)
        BY <2>4, <2>6, RepartidoIgual
    <2> HIDE DEF k2
    <2> QED BY <2>1, <2>3, <2>7, DespertarReparte
  <1> QED BY <1>2, <1>3

(* The threads of the quanta and of the interfaces.                        *)
LEMMA HilosReparte ==
  ASSUME Tipos, Ordenado(kernel), Hilos, NEW X, Repartido(kernel, X)
  PROVE  Conserva(kernel, kernel', X)
  <1>0. kernel \in KernelType /\ CamposOK(kernel) /\ Cuentas(kernel, kernel)
      BY OrdenadoTipo, CamposDeKernel
  <1>a. ASSUME Cuentas(kernel', kernel) PROVE Conserva(kernel, kernel', X)
      BY <1>a, RepartidoIgual DEF Conserva
  <1>b. ASSUME NEW k1, Cuentas(k1, kernel), Conserva(k1, kernel', X) PROVE Conserva(kernel, kernel', X)
    <2>1. Repartido(k1, X) /\ Crece(kernel, k1)
        BY <1>b, RepartidoIgual
    <2> QED BY <1>0, <1>b, <2>1, ConservaPasa
  <1>1. ASSUME NEW p \in Pid, NEW edad \in Edad, FinQuantum(p, edad) PROVE Conserva(kernel, kernel', X)
    <2>1. kernel' = kernel \/ kernel' = [kernel EXCEPT !.hilos_quantum[p] = @ \ {edad}]
        BY <1>1 DEF FinQuantum
    <2>2. Cuentas(kernel', kernel)
        BY <1>0, <2>1 DEF Cuentas, CamposDeRecursos
    <2> QED BY <1>a, <2>2
  <1>2. ASSUME NEW i \in Interfaz, ConectarInterfaz(i) PROVE Conserva(kernel, kernel', X)
    <2>1. Cuentas(kernel', kernel)
        BY <1>0, <1>2 DEF ConectarInterfaz, Cuentas, CamposDeRecursos
    <2> QED BY <1>a, <2>1
  <1>3. ASSUME NEW i \in Interfaz, TomarPedido(i) PROVE Conserva(kernel, kernel', X)
    <2>1. \E n : kernel' = [kernel EXCEPT !.binario[i] = FALSE, !.sirviendo[i] = n]
        BY <1>3 DEF TomarPedido
    <2>2. Cuentas(kernel', kernel)
        BY <1>0, <2>1 DEF Cuentas, CamposDeRecursos
    <2> QED BY <1>a, <2>2
  <1>4. ASSUME NEW i \in Interfaz, RespuestaIO(i) PROVE Conserva(kernel, kernel', X)
    <2> DEFINE k1 == [kernel EXCEPT !.sirviendo[i] = Nadie]
               k2 == evaluar_BLOCKED_a_READY(k1, i)
    <2>1. kernel' = evaluar_READY_a_EXEC(k2) /\ i \in Clave
        BY <1>4 DEF RespuestaIO, Clave
    <2>2. Cuentas(k1, kernel)
        BY <1>0 DEF Cuentas, CamposDeRecursos
    <2> HIDE DEF k1
    <2>3. Repartido(k1, X)
        BY <2>2, RepartidoIgual
    <2>4. Repartido(k2, X) /\ Crece(k1, k2) /\ CamposOK(k1)
        BY <2>1, <2>3, DespertarReparte DEF Repartido
    <2> HIDE DEF k2
    <2>5. Cuentas(k2, k2)
        BY <2>4 DEF Repartido, CamposOK, Cuentas
    <2>6. Cuentas(kernel', k2)
        BY <2>1, <2>5, CuentasPlanifica
    <2>7. Conserva(k2, kernel', X)
        BY <2>4, <2>6, RepartidoIgual DEF Conserva
    <2>8. Conserva(k1, kernel', X)
        BY <2>4, <2>7, ConservaPasa
    <2> QED BY <1>b, <2>2, <2>8
  <1>5. ASSUME NEW i \in Interfaz, FallaIO(i) PROVE Conserva(kernel, kernel', X)
    <2> DEFINE p == kernel.sirviendo[i]
               k1 == [kernel EXCEPT !.sirviendo[i] = Nadie]
    <2>1. \/ \E c \in conseguir_tmb(kernel, p) : kernel' = evaluar_BLOCKED_a_EXIT(k1, p, c)
          \/ KernelSeCae
        BY <1>5 DEF FallaIO
    <2>2. Cuentas(k1, kernel)
        BY <1>0 DEF Cuentas, CamposDeRecursos
    <2> HIDE DEF k1, p
    <2>3. Repartido(k1, X)
        BY <2>2, RepartidoIgual
    <2>4. ASSUME NEW c \in conseguir_tmb(kernel, p), kernel' = evaluar_BLOCKED_a_EXIT(k1, p, c)
          PROVE  Conserva(kernel, kernel', X)
      <3>1. c \in conseguir_tmb(k1, p)
          BY <2>2 DEF conseguir_tmb, Cuentas
      <3>2. Conserva(k1, kernel', X)
          BY <2>3, <2>4, <3>1, BlockedExitReparte DEF Conserva
      <3> QED BY <1>b, <2>2, <3>2
    <2>5. CASE KernelSeCae
      <3>1. Cuentas(kernel', kernel)
          BY <1>0, <2>5 DEF KernelSeCae, Cuentas, CamposDeRecursos
      <3> QED BY <1>a, <3>1
    <2> QED BY <2>1, <2>4, <2>5
  <1> QED BY <1>1, <1>2, <1>3, <1>4, <1>5 DEF Hilos

(* The CPU: a disciplined program signals what it was granted.             *)
LEMMA CPUReparte ==
  ASSUME Tipos, Ordenado(kernel), Ficha(kernel, cpu, a_kernel), Disciplina, Debe(kernel, a_kernel), CPU
  PROVE  Cuentas(kernel', kernel) /\ Debe(kernel', a_kernel')
  <1>0. kernel \in KernelType /\ Cuentas(kernel, kernel)
      BY OrdenadoTipo, CamposDeKernel
  <1>1. Cuentas(kernel', kernel)
    <2>1. kernel' = kernel \/ kernel' = [kernel EXCEPT !.dispatch = Tail(@)]
        BY DEF CPU, RecibirPCB, RecibirInterrupcion, EjecutarInterrumpida, EjecutarFinal,
               EjecutarWait, EjecutarSignal, RecibirRespuesta
    <2> QED BY <1>0, <2>1 DEF Cuentas, CamposDeRecursos
  <1>2. kernel'.tiene = kernel.tiene
      BY <1>1 DEF Cuentas
  <1>a. ASSUME a_kernel' = a_kernel PROVE Debe(kernel', a_kernel')
      BY <1>2, <1>a DEF Debe
  <1>b. ASSUME a_kernel = <<>>, NEW mo, NEW arg, Enviar(mo, arg),
               mo = "SIGNAL" /\ arg \in Recurso => kernel.tiene[arg][cpu.pid] > 0
        PROVE  Debe(kernel', a_kernel')
    <2> DEFINE m == [motivo |-> mo, arg |-> arg, pid |-> cpu.pid]
    <2>1. m.motivo = mo /\ m.arg = arg /\ m.pid = cpu.pid
        OBVIOUS
    <2>2. a_kernel' = Append(a_kernel, m)
        BY <1>b DEF Enviar
    <2> HIDE DEF m
    <2>3. Head(a_kernel') = m
        BY <1>b, <2>2, UnMensaje
    <2> QED BY <1>b, <1>2, <2>1, <2>3 DEF Debe
  <1>c. cpu.fase = "ejecutando" => a_kernel = <<>>
      BY Ejecutando
  <1>3. CASE RecibirPCB \/ RecibirInterrupcion
    <2>1. a_kernel' = a_kernel
        BY <1>3 DEF RecibirPCB, RecibirInterrupcion
    <2> QED BY <1>1, <1>a, <2>1
  <1>4. CASE EjecutarInterrumpida
    <2>1. cpu.fase = "ejecutando" /\ Enviar("INTERRUPCION", "")
        BY <1>4 DEF EjecutarInterrumpida
    <2>2. ~("INTERRUPCION" = "SIGNAL")
        OBVIOUS
    <2> QED BY <1>1, <1>b, <1>c, <2>1, <2>2
  <1>5. ASSUME NEW mo \in {"EXIT", "OUT_OF_MEMORY", "IO"}, NEW arg, EjecutarFinal(mo, arg)
        PROVE  Debe(kernel', a_kernel')
    <2>1. cpu.fase = "ejecutando" /\ Enviar(mo, arg)
        BY <1>5 DEF EjecutarFinal
    <2>2. ~(mo = "SIGNAL")
        OBVIOUS
    <2> QED BY <1>b, <1>c, <2>1, <2>2
  <1>6. ASSUME NEW r, EjecutarWait(r) PROVE Debe(kernel', a_kernel')
    <2>1. cpu.fase = "ejecutando" /\ Enviar("WAIT", r)
        BY <1>6 DEF EjecutarWait
    <2>2. ~("WAIT" = "SIGNAL")
        OBVIOUS
    <2> QED BY <1>b, <1>c, <2>1, <2>2
  <1>7. ASSUME NEW r, EjecutarSignal(r) PROVE Debe(kernel', a_kernel')
    <2>1. /\ cpu.fase = "ejecutando" /\ Enviar("SIGNAL", r)
          /\ r \in Recurso => kernel.tiene[r][cpu.pid] > 0
        BY <1>7 DEF EjecutarSignal
    <2> QED BY <1>b, <1>c, <2>1
  <1>8. CASE RecibirRespuesta
    <2>1. kernel.dispatch # <<>> /\ cpu.fase # "ejecutando"
        BY <1>8 DEF RecibirRespuesta
    <2>2. a_kernel = <<>>
        BY <2>1 DEF Ficha, Libre, Rechazada, EnCPU, Ejecuta, Aceptada, Perdida, EnMensaje
    <2>3. a_kernel' = a_kernel \/ Enviar("INTERRUPCION", "")
        BY <1>8 DEF RecibirRespuesta
    <2>4. ~("INTERRUPCION" = "SIGNAL")
        OBVIOUS
    <2> QED BY <1>1, <1>a, <1>b, <2>2, <2>3, <2>4
  <1>9. Debe(kernel', a_kernel')
      BY <1>3, <1>4, <1>5, <1>6, <1>7, <1>8 DEF CPU
  <1> QED BY <1>1, <1>9

(***************************************************************************)
(* Every step                                                              *)
(***************************************************************************)
LEMMA PasoReparte ==
  ASSUME Disciplina, "RUNNING" \notin EstadosMatables, "READY_PRIORITARIO" \notin EstadosMatables,
         IInv, SinMatar(kernel, {"RUNNING"}), [Next]_vars,
         Repartido(kernel, Muertos(kernel)), Debe(kernel, a_kernel)
  PROVE  Repartido(kernel', Muertos(kernel')) /\ Debe(kernel', a_kernel')
  <1> DEFINE X == Muertos(kernel')
  <1>0. Tipos /\ Ordenado(kernel) /\ Ficha(kernel, cpu, a_kernel)
      BY DEF IInv, Orden
  <1>1. \A p \in Pid : kernel.estado[p] = "EXIT" => kernel'.estado[p] = "EXIT"
      BY PasoSinMatar DEF Bien
  <1>2. /\ \A p \in Pid : kernel.estado[p] = "EXIT" => p \in X
        /\ \A p \in Pid : kernel'.estado[p] = "EXIT" => p \in X
        /\ Muertos(kernel) \subseteq X
      BY <1>1 DEF Muertos
  <1> HIDE DEF X
  <1>3. Repartido(kernel, X)
      BY <1>2, RepartidoMas
  <1>4. a_kernel # <<>> => Head(a_kernel).pid \in Pid
    <2> SUFFICES ASSUME a_kernel # <<>> PROVE Head(a_kernel).pid \in Pid
        OBVIOUS
    <2>1. PICK p \in Pid : EnMensaje(kernel, cpu, a_kernel, p)
        BY <1>0 DEF Ficha, Libre, Rechazada, EnCPU, Ejecuta, Aceptada, Perdida
    <2>2. PICK m \in Mensaje : a_kernel = <<m>> /\ m.pid = p
        BY <2>1 DEF EnMensaje
    <2>3. Head(<<m>>) = m
        OBVIOUS
    <2> QED BY <2>2, <2>3
  <1>a. ASSUME Conserva(kernel, kernel', X), a_kernel' = a_kernel
        PROVE  Repartido(kernel', X) /\ Debe(kernel', a_kernel')
    <2>1. /\ Repartido(kernel', X) /\ Crece(kernel, kernel')
          /\ CamposOK(kernel) /\ CamposOK(kernel')
        BY <1>3, <1>a DEF Conserva, Repartido
    <2>2. Debe(kernel', a_kernel)
        BY <1>4, <2>1, DebeCrece
    <2> QED BY <1>a, <2>1, <2>2
  <1>5. CASE Consola
    <2>1. a_kernel' = a_kernel
        BY <1>5 DEF Consola, IniciarProceso, IniciarPlanificacion, DetenerPlanificacion,
                    Multiprogramacion, FinalizarInexistente, FinalizarNew, FinalizarReady,
                    FinalizarRunning, FinalizarBlocked, FinalizarOtro, SinPeriferia
    <2>2. Conserva(kernel, kernel', X)
        BY <1>0, <1>2, <1>3, <1>5, ConsolaReparte
    <2> QED BY <1>a, <2>1, <2>2 DEF X
  <1>6. CASE CPU
    <2>1. Cuentas(kernel', kernel) /\ Debe(kernel', a_kernel')
        BY <1>0, <1>6, CPUReparte
    <2>2. Repartido(kernel', X)
        BY <1>3, <2>1, RepartidoIgual
    <2> QED BY <2>1, <2>2 DEF X
  <1>7. CASE Respuestas
    <2>1. PICK q \in Pid : \/ AtenderExit(q)
                          \/ AtenderOutOfMemory(q)
                          \/ AtenderWait(q)
                          \/ AtenderSignal(q)
                          \/ AtenderInterrupcion(q)
                          \/ AtenderIO(q)
        BY <1>7 DEF Respuestas
    <2>2. PICK mo \in {"EXIT", "OUT_OF_MEMORY", "WAIT", "SIGNAL", "INTERRUPCION", "IO"} : Atiende(q, mo)
        BY <2>1 DEF AtenderExit, AtenderOutOfMemory, AtenderWait, AtenderSignal, AtenderInterrupcion,
                    AtenderIO
    <2>3. Corre(kernel, q) /\ a_kernel' = <<>>
        BY <1>0, <2>2, Atendida
    <2>4. Debe(kernel', a_kernel')
        BY <2>3 DEF Debe
    <2>5. CASE AtenderSignal(q)
      <3>1. kernel.estado[q] = "RUNNING"
        <4>1. kernel.cola_RUNNING = <<q>>
            BY <2>3 DEF Corre
        <4>2. Lugar(kernel.cola_RUNNING, En(kernel.estado, "RUNNING", {}))
            BY <1>0, OrdenadoTipo DEF ColasDe
        <4>3. Head(<<q>>) = q /\ <<q>> # <<>>
            OBVIOUS
        <4>4. Head(kernel.cola_RUNNING) = q /\ kernel.cola_RUNNING # <<>>
            BY <4>1, <4>3
        <4>5. kernel.estado[Head(kernel.cola_RUNNING)] = "RUNNING"
            BY <1>0, <4>2, <4>4, Cabeza
        <4> QED BY <4>4, <4>5
      <3>2. q \notin Muertos(kernel)
          BY <3>1 DEF Muertos
      <3>3. Repartido(kernel', Muertos(kernel))
          BY <1>0, <2>5, <3>2, SignalReparte
      <3>4. Repartido(kernel', X)
          BY <1>2, <3>3, RepartidoMas
      <3> QED BY <2>4, <3>4 DEF X
    <2>6. CASE ~AtenderSignal(q)
      <3>1. Repartido(kernel', X)
          BY <1>0, <1>2, <1>3, <2>1, <2>6, RespuestasReparte
      <3> QED BY <2>4, <3>1 DEF X
    <2> QED BY <2>5, <2>6
  <1>8. CASE Hilos
    <2>1. a_kernel' = a_kernel
        BY <1>8 DEF Hilos, FinQuantum, ConectarInterfaz, TomarPedido, RespuestaIO, FallaIO,
                    SinPeriferia
    <2>2. Conserva(kernel, kernel', X)
        BY <1>0, <1>3, <1>8, HilosReparte
    <2> QED BY <1>a, <2>1, <2>2 DEF X
  <1>9. CASE UNCHANGED vars
      BY <1>9 DEF vars
  <1> QED BY <1>5, <1>6, <1>7, <1>8, <1>9 DEF Next

LEMMA InicioReparte ==
  ASSUME Init
  PROVE  Repartido(kernel, Muertos(kernel)) /\ Debe(kernel, a_kernel)
  <1>0. Tipos /\ CamposOK(kernel)
      BY Inicio, OrdenadoTipo, CamposDeKernel DEF Orden
  <1>1. /\ kernel.usando = [r \in Recurso |-> [p \in Pid |-> 0]]
        /\ kernel.tiene = [r \in Recurso |-> [p \in Pid |-> 0]]
        /\ kernel.instancias = InstanciasIniciales
        /\ kernel.bloqueados = [c \in Clave |-> <<>>] /\ a_kernel = <<>>
      BY DEF Init
  <1>2. ASSUME NEW r \in Recurso
        PROVE  (\A p \in Pid : kernel.usando[r][p] <= kernel.tiene[r][p]) /\ Cubierto(kernel, Muertos(kernel), r)
    <2> DEFINE c == Cuenta(kernel, Muertos(kernel), r)
    <2>1. \A p \in Pid : kernel.usando[r][p] = 0 /\ kernel.tiene[r][p] = 0
        BY <1>1
    <2>2. \A p \in Pid : c[p] = 0
        BY <2>1 DEF Cuenta
    <2> HIDE DEF c
    <2>3. \A p \in Pid : \A n \in 1 .. c[p] : FALSE
        BY <2>2
    <2>4. Otorgadas(c, Pid) = {}
        BY <2>3, EnOtorgadas
    <2>5. IsFiniteSet(Otorgadas(c, Pid)) /\ Cardinality(Otorgadas(c, Pid)) = 0
        BY <2>4, FS_EmptySet
    <2>6. Len(kernel.bloqueados[r]) = 0
      <3>1. r \in Clave
          BY DEF Clave
      <3>2. kernel.bloqueados[r] = <<>>
          BY <1>1, <3>1
      <3>3. Len(<<>>) = 0
          OBVIOUS
      <3> QED BY <3>2, <3>3
    <2>7. kernel.instancias[r] = InstanciasIniciales[r] /\ InstanciasIniciales[r] \in Nat
        BY <1>1, ConstantesOK
    <2>8. Cardinality(Otorgadas(c, Pid)) + Len(kernel.bloqueados[r]) + kernel.instancias[r]
            <= InstanciasIniciales[r]
        BY <2>5, <2>6, <2>7
    <2>9. \A p \in Pid : kernel.usando[r][p] <= kernel.tiene[r][p]
        BY <2>1
    <2> QED BY <2>5, <2>8, <2>9 DEF Cubierto, c
  <1>3. Debe(kernel, a_kernel)
      BY <1>1 DEF Debe
  <1> QED BY <1>0, <1>2, <1>3 DEF Repartido

(* What the living were granted is part of what counts, and an instance    *)
(* owed is of somebody who waits.                                          *)
LEMMA RepartidoExcluye ==
  ASSUME Repartido(kernel, Muertos(kernel)), Sem(kernel)
  PROVE  ExclusionMutua
  <1> SUFFICES ASSUME NEW r \in Recurso
               PROVE  Cardinality(Otorgadas(kernel.tiene[r], {p \in Pid : kernel.estado[p] # "EXIT"}))
                        <= InstanciasIniciales[r]
      BY DEF ExclusionMutua
  <1> DEFINE c == Cuenta(kernel, Muertos(kernel), r)
             L == {p \in Pid : kernel.estado[p] # "EXIT"}
             A == Otorgadas(kernel.tiene[r], L)
             B == Otorgadas(c, Pid)
             a == Cardinality(A)
             b == Cardinality(B)
             n == Len(kernel.bloqueados[r])
             i == kernel.instancias[r]
             m == InstanciasIniciales[r]
  <1>0. CamposOK(kernel) /\ Cubierto(kernel, Muertos(kernel), r)
      BY DEF Repartido
  <1>1. IsFiniteSet(B) /\ b + n + i <= m /\ -i <= n
      BY <1>0 DEF Cubierto, Sem
  <1>2. A \subseteq B
    <2>1. \A p \in L : p \in Pid /\ c[p] = kernel.tiene[r][p]
        BY DEF Cuenta, Muertos
    <2> HIDE DEF c, L
    <2>2. \A x : x \in A => \E p \in L : \E k \in 1 .. kernel.tiene[r][p] : x = <<p, k>>
        BY DEF Otorgadas
    <2>3. \A x : x \in A => \E p \in Pid : \E k \in 1 .. c[p] : x = <<p, k>>
        BY <2>1, <2>2
    <2> QED BY <2>3, EnOtorgadas
  <1>3. n \in Nat /\ i \in Int /\ m \in Int
      BY <1>0, CuentaTipo
  <1> HIDE DEF A, B, n, i, m
  <1>4. a <= b /\ a \in Nat /\ b \in Nat
    <2>1. IsFiniteSet(A) /\ a <= b
        BY <1>1, <1>2, FS_Subset
    <2> QED BY <1>1, <2>1, FS_CardinalityType
  <1> HIDE DEF a, b
  <1>5. a <= m
      BY <1>1, <1>3, <1>4
  <1> QED BY <1>5 DEF a, A, m

(* ExclusionMutua: the living hold no more instances of a resource than    *)
(* there are, if programs only signal what they hold and the console kills *)
(* neither the running process, for which the CPU goes on sending, nor one *)
(* with priority, which eliminar_proceso strips of its instances and leaves*)
(* in its queue.                                                           *)
THEOREM SiempreExclusionMutua ==
  /\ Disciplina
  /\ "RUNNING" \notin EstadosMatables
  /\ "READY_PRIORITARIO" \notin EstadosMatables
  => (Spec => []ExclusionMutua)
  <1> SUFFICES ASSUME Disciplina, "RUNNING" \notin EstadosMatables, "READY_PRIORITARIO" \notin EstadosMatables
               PROVE  Spec => []ExclusionMutua
      OBVIOUS
  <1> DEFINE R == Repartido(kernel, Muertos(kernel)) /\ Debe(kernel, a_kernel)
  <1>1. Init => R
      BY InicioReparte
  <1>2. (IInv /\ SinMatar(kernel, {"RUNNING"})) /\ R /\ [Next]_vars => R'
      BY PasoReparte
  <1>3. (IInv /\ SinMatar(kernel, {"RUNNING"})) /\ R => ExclusionMutua
      BY RepartidoExcluye DEF IInv, Orden
  <1>4. Spec => [](IInv /\ SinMatar(kernel, {"RUNNING"}))
      BY NuncaSeMata
  <1> QED BY <1>1, <1>2, <1>3, <1>4, PTL DEF Spec
=============================================================================
