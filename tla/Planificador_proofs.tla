------------------------- MODULE Planificador_proofs -------------------------
(***************************************************************************)
(* The safety of Planificador for any number of processes, resources and   *)
(* interfaces: the queues agree with the states, there is one token for    *)
(* the CPU, the counters count what they should.                           *)
(***************************************************************************)
EXTENDS Planificador_tipos

(***************************************************************************)
(* Queues                                                                  *)
(***************************************************************************)
(* The queue s holds each process of S once and nothing else.              *)
Lugar(s, S) ==
  /\ s \in Seq(Pid)
  /\ \A i, j \in 1 .. Len(s) : s[i] = s[j] => i = j
  /\ ToSet(s) = S

LEMMA EnLugar ==
  ASSUME NEW s \in Seq(Pid)
  PROVE  /\ Len(s) \in Nat /\ DOMAIN s = 1 .. Len(s)
         /\ ToSet(s) = {s[i] : i \in 1 .. Len(s)}
         /\ \A i \in 1 .. Len(s) : s[i] \in Pid /\ s[i] \in ToSet(s)
         /\ ToSet(s) \in SUBSET Pid
         /\ \A x : x \in ToSet(s) <=> \E i \in 1 .. Len(s) : s[i] = x
  <1>1. Len(s) \in Nat /\ DOMAIN s = 1 .. Len(s)
      BY LenProperties
  <1>2. \A i \in 1 .. Len(s) : s[i] \in Pid
      BY ElementOfSeq
  <1> QED BY <1>1, <1>2 DEF ToSet

LEMMA LugarInyectivo ==
  ASSUME NEW s, NEW S, Lugar(s, S)
  PROVE  IsInjective(s) /\ ToSet(s) = S /\ S \in SUBSET Pid
  <1>1. s \in Seq(Pid)
      BY DEF Lugar
  <1> QED BY <1>1, EnLugar DEF Lugar, IsInjective

LEMMA LugarVacio ==
  /\ Lugar(<<>>, {})
  /\ \A s : Lugar(s, {}) => s = <<>>
  <1>1. <<>> \in Seq(Pid) /\ Len(<<>>) = 0
      BY EmptySeq
  <1>2. ToSet(<<>>) = {}
    <2>1. PICK e : e = <<>>
        OBVIOUS
    <2>2. e \in Seq(Pid) /\ Len(e) = 0
        BY <1>1, <2>1
    <2>3. \A i \in 1 .. Len(e) : FALSE
        BY <2>2
    <2>4. \A x : x \notin ToSet(e)
        BY <2>2, <2>3, EnLugar
    <2> QED BY <2>1, <2>4
  <1>3. ASSUME NEW s, Lugar(s, {}) PROVE s = <<>>
    <2>1. s \in Seq(Pid) /\ ToSet(s) = {}
        BY <1>3 DEF Lugar
    <2>2. ~(1 \in 1 .. Len(s))
        BY <2>1, EnLugar
    <2>3. Len(s) \in Nat
        BY <2>1, LenProperties
    <2>4. Len(s) = 0
        BY <2>2, <2>3
    <2> QED BY <2>1, <2>4, EmptySeq
  <1>4. \A i, j \in 1 .. Len(<<>>) : FALSE
      BY <1>1
  <1> QED BY <1>1, <1>2, <1>3, <1>4 DEF Lugar

LEMMA LugarAppend ==
  ASSUME NEW s, NEW S, Lugar(s, S), NEW p \in Pid, p \notin S
  PROVE  Lugar(Append(s, p), S \cup {p})
  <1> DEFINE t == Append(s, p)
  <1>1. s \in Seq(Pid) /\ ToSet(s) = S /\ \A i, j \in 1 .. Len(s) : s[i] = s[j] => i = j
      BY DEF Lugar
  <1>2. /\ t \in Seq(Pid) /\ Len(t) = Len(s) + 1 /\ Len(s) \in Nat
        /\ \A i \in 1 .. Len(s) : t[i] = s[i]
        /\ t[Len(s) + 1] = p
      BY <1>1, AppendProperties, LenProperties
  <1> HIDE DEF t
  <1>3. ASSUME NEW i \in 1 .. Len(t) PROVE i \in 1 .. Len(s) \/ i = Len(s) + 1
      BY <1>2
  <1>4. \A i \in 1 .. Len(s) : s[i] \in S
      BY <1>1, EnLugar
  <1>5. ASSUME NEW i \in 1 .. Len(t), NEW j \in 1 .. Len(t), t[i] = t[j] PROVE i = j
      BY <1>1, <1>2, <1>3, <1>4, <1>5
  <1>6. ToSet(t) = S \cup {p}
    <2>1. ASSUME NEW x \in ToSet(t) PROVE x \in S \cup {p}
      <3>1. PICK i \in 1 .. Len(t) : t[i] = x
          BY <1>2, EnLugar
      <3> QED BY <1>2, <1>3, <1>4, <3>1
    <2>2. ASSUME NEW x \in S PROVE x \in ToSet(t)
      <3>1. PICK i \in 1 .. Len(s) : s[i] = x
          BY <1>1, EnLugar
      <3>2. i \in 1 .. Len(t) /\ t[i] = x
          BY <1>2, <3>1
      <3> QED BY <1>2, <3>2, EnLugar
    <2>3. p \in ToSet(t)
      <3>1. Len(s) + 1 \in 1 .. Len(t)
          BY <1>2
      <3> QED BY <1>2, <3>1, EnLugar
    <2> QED BY <2>1, <2>2, <2>3
  <1> QED BY <1>2, <1>5, <1>6 DEF Lugar, t

(* Out of any position: RemoveFirst and Tail.                              *)
LEMMA LugarSinUno ==
  ASSUME NEW s, NEW S, Lugar(s, S), NEW i \in 1 .. Len(s)
  PROVE  Lugar(RemoveAt(s, i), S \ {s[i]})
  <1> DEFINE t == RemoveAt(s, i)
  <1>1. s \in Seq(Pid) /\ ToSet(s) = S /\ \A a, b \in 1 .. Len(s) : s[a] = s[b] => a = b
      BY DEF Lugar
  <1>2. /\ t \in Seq(Pid) /\ Len(t) = Len(s) - 1 /\ Len(s) \in Nat
        /\ \A j \in 1 .. Len(s) - 1 : t[j] = IF j < i THEN s[j] ELSE s[j + 1]
      BY <1>1, SinUno, LenProperties
  <1> HIDE DEF t
  <1> DEFINE pos(j) == IF j < i THEN j ELSE j + 1
  <1>3. \A j \in 1 .. Len(t) : pos(j) \in 1 .. Len(s) /\ t[j] = s[pos(j)] /\ pos(j) # i
      BY <1>2
  <1>4. \A a, b \in 1 .. Len(t) : pos(a) = pos(b) => a = b
      BY <1>2
  <1>5. \A a \in 1 .. Len(s) : a # i => \E b \in 1 .. Len(t) : pos(b) = a
    <2> SUFFICES ASSUME NEW a \in 1 .. Len(s), a # i PROVE \E b \in 1 .. Len(t) : pos(b) = a
        OBVIOUS
    <2>1. CASE a < i
      <3>1. a \in 1 .. Len(t) /\ pos(a) = a
          BY <1>2, <2>1
      <3> QED BY <3>1
    <2>2. CASE ~(a < i)
      <3>1. a - 1 \in 1 .. Len(t) /\ pos(a - 1) = a
          BY <1>2, <2>2
      <3> QED BY <3>1
    <2> QED BY <2>1, <2>2
  <1> HIDE DEF pos
  <1>6. ASSUME NEW a \in 1 .. Len(t), NEW b \in 1 .. Len(t), t[a] = t[b] PROVE a = b
      BY <1>1, <1>3, <1>4, <1>6
  <1>7. ToSet(t) = S \ {s[i]}
    <2>1. ASSUME NEW x \in ToSet(t) PROVE x \in S \ {s[i]}
      <3>1. PICK j \in 1 .. Len(t) : t[j] = x
          BY <1>2, EnLugar
      <3> QED BY <1>1, <1>3, <3>1, EnLugar
    <2>2. ASSUME NEW x \in S \ {s[i]} PROVE x \in ToSet(t)
      <3>1. PICK a \in 1 .. Len(s) : s[a] = x
          BY <1>1, EnLugar
      <3>2. PICK b \in 1 .. Len(t) : pos(b) = a
          BY <1>5, <3>1
      <3>3. t[b] = x
          BY <1>3, <3>1, <3>2
      <3> QED BY <1>2, <3>3, EnLugar
    <2> QED BY <2>1, <2>2
  <1> QED BY <1>2, <1>6, <1>7 DEF Lugar, t

LEMMA LugarQuita ==
  ASSUME NEW s, NEW S, Lugar(s, S), NEW p \in S
  PROVE  Lugar(RemoveFirst(s, p), S \ {p})
  <1>1. s \in Seq(Pid) /\ ToSet(s) = S
      BY DEF Lugar
  <1>2. \E i \in 1 .. Len(s) : s[i] = p
      BY <1>1, EnLugar
  <1>3. PICK i \in 1 .. Len(s) : s[i] = p /\ RemoveFirst(s, p) = RemoveAt(s, i)
      BY <1>1, <1>2, QuitaPrimero
  <1> QED BY <1>3, LugarSinUno

LEMMA LugarTail ==
  ASSUME NEW s, NEW S, Lugar(s, S), s # <<>>
  PROVE  Head(s) \in S /\ Lugar(Tail(s), S \ {Head(s)})
  <1>1. s \in Seq(Pid) /\ ToSet(s) = S
      BY DEF Lugar
  <1>2. 1 \in 1 .. Len(s) /\ Head(s) = s[1] /\ Len(s) \in Nat
      BY <1>1, EmptySeq
  <1>3. RemoveAt(s, 1) = Tail(s)
    <2>1. Tail(s) \in Seq(Pid) /\ Len(Tail(s)) = Len(s) - 1
          /\ \A j \in 1 .. Len(Tail(s)) : Tail(s)[j] = s[j + 1]
        BY <1>1, HeadTailProperties
    <2>2. RemoveAt(s, 1) \in Seq(Pid) /\ Len(RemoveAt(s, 1)) = Len(s) - 1
          /\ \A j \in 1 .. Len(s) - 1 : RemoveAt(s, 1)[j] = IF j < 1 THEN s[j] ELSE s[j + 1]
        BY <1>1, <1>2, SinUno
    <2>3. \A j \in 1 .. Len(s) - 1 : ~(j < 1)
        OBVIOUS
    <2>4. \A j \in 1 .. Len(Tail(s)) : Tail(s)[j] = RemoveAt(s, 1)[j]
        BY <2>1, <2>2, <2>3
    <2> QED BY <2>1, <2>2, <2>4, SeqEqual
  <1>4. Head(s) \in S
      BY <1>1, <1>2, EnLugar
  <1>5. Lugar(RemoveAt(s, 1), S \ {s[1]})
      BY <1>2, LugarSinUno
  <1> QED BY <1>2, <1>3, <1>4, <1>5

LEMMA LugarConcat ==
  ASSUME NEW s, NEW S, Lugar(s, S), NEW t, NEW T, Lugar(t, T), S \cap T = {}
  PROVE  Lugar(s \o t, S \cup T)
  <1> DEFINE u == s \o t
  <1>1. s \in Seq(Pid) /\ ToSet(s) = S /\ \A a, b \in 1 .. Len(s) : s[a] = s[b] => a = b
      BY DEF Lugar
  <1>2. t \in Seq(Pid) /\ ToSet(t) = T /\ \A a, b \in 1 .. Len(t) : t[a] = t[b] => a = b
      BY DEF Lugar
  <1>3. /\ u \in Seq(Pid) /\ Len(u) = Len(s) + Len(t) /\ Len(s) \in Nat /\ Len(t) \in Nat
        /\ \A i \in 1 .. Len(s) + Len(t) : u[i] = IF i <= Len(s) THEN s[i] ELSE t[i - Len(s)]
      BY <1>1, <1>2, ConcatProperties, LenProperties
  <1> HIDE DEF u
  <1>4. ASSUME NEW i \in 1 .. Len(u)
        PROVE  \/ i \in 1 .. Len(s) /\ u[i] = s[i]
               \/ i - Len(s) \in 1 .. Len(t) /\ u[i] = t[i - Len(s)]
      BY <1>3
  <1>5. /\ \A i \in 1 .. Len(s) : s[i] \in S
        /\ \A i \in 1 .. Len(t) : t[i] \in T
      BY <1>1, <1>2, EnLugar
  <1>6. ASSUME NEW i \in 1 .. Len(u), NEW j \in 1 .. Len(u), u[i] = u[j] PROVE i = j
    <2>1. \A a, b, n \in Int : a - n = b - n => a = b
        OBVIOUS
    <2>2. i \in Int /\ j \in Int /\ Len(s) \in Int
        BY <1>3
    <2>3. CASE i \in 1 .. Len(s) /\ u[i] = s[i]
        BY <1>1, <1>4, <1>5, <1>6, <2>3
    <2>4. CASE i - Len(s) \in 1 .. Len(t) /\ u[i] = t[i - Len(s)]
      <3>1. j - Len(s) \in 1 .. Len(t) /\ u[j] = t[j - Len(s)]
          BY <1>4, <1>5, <1>6, <2>4
      <3>2. i - Len(s) = j - Len(s)
          BY <1>2, <1>6, <2>4, <3>1
      <3> QED BY <2>1, <2>2, <3>2
    <2> QED BY <1>4, <2>3, <2>4
  <1>7. ToSet(u) = S \cup T
    <2>1. ASSUME NEW x \in ToSet(u) PROVE x \in S \cup T
      <3>1. PICK i \in 1 .. Len(u) : u[i] = x
          BY <1>3, EnLugar
      <3> QED BY <1>4, <1>5, <3>1
    <2>2. ASSUME NEW x \in S PROVE x \in ToSet(u)
      <3>1. PICK i \in 1 .. Len(s) : s[i] = x
          BY <1>1, EnLugar
      <3>2. i \in 1 .. Len(u) /\ u[i] = x
          BY <1>3, <3>1
      <3> QED BY <1>3, <3>2, EnLugar
    <2>3. ASSUME NEW x \in T PROVE x \in ToSet(u)
      <3>1. PICK i \in 1 .. Len(t) : t[i] = x
          BY <1>2, EnLugar
      <3>2. i + Len(s) \in 1 .. Len(u) /\ ~(i + Len(s) <= Len(s)) /\ (i + Len(s)) - Len(s) = i
          BY <1>3, <3>1
      <3>3. i + Len(s) \in 1 .. Len(s) + Len(t)
          BY <1>3, <3>2
      <3>4. u[i + Len(s)] = t[(i + Len(s)) - Len(s)]
          BY <1>3, <3>2, <3>3
      <3>5. u[i + Len(s)] = x
          BY <3>1, <3>2, <3>4
      <3> QED BY <1>3, <3>2, <3>5, EnLugar
    <2> QED BY <2>1, <2>2, <2>3
  <1> QED BY <1>3, <1>6, <1>7 DEF Lugar, u

(* A queue cut in two: evaluar_NEW_a_READY.                                *)
LEMMA LugarCorte ==
  ASSUME NEW s, NEW S, Lugar(s, S), NEW n \in 0 .. Len(s)
  PROVE  LET A == ToSet(SubSeq(s, 1, n))
         IN  /\ A \subseteq S
             /\ Lugar(SubSeq(s, 1, n), A)
             /\ Lugar(SubSeq(s, n + 1, Len(s)), S \ A)
             /\ IsFiniteSet(A) /\ Cardinality(A) = n
  <1> DEFINE a == SubSeq(s, 1, n)
             b == SubSeq(s, n + 1, Len(s))
             A == ToSet(a)
  <1>0. n \in Nat /\ n <= Len(s) /\ Len(s) \in Nat
      BY LenProperties DEF Lugar
  <1>1. s \in Seq(Pid) /\ ToSet(s) = S /\ \A i, j \in 1 .. Len(s) : s[i] = s[j] => i = j
      BY DEF Lugar
  <1>2. \A i \in 1 .. Len(s) : s[i] \in Pid
      BY <1>1, EnLugar
  <1>3. a \in Seq(Pid) /\ Len(a) = n /\ \A i \in 1 .. n : a[i] = s[i]
    <2>1. \A i \in 1 .. n : s[i] \in Pid
        BY <1>0, <1>2
    <2>2. /\ a \in Seq(Pid) /\ Len(a) = IF 1 <= n THEN n - 1 + 1 ELSE 0
          /\ \A i \in 1 .. n - 1 + 1 : a[i] = s[1 + i - 1]
        BY <1>0, <2>1, SubSeqProperties
    <2> QED BY <1>0, <2>2
  <1>4. b \in Seq(Pid) /\ Len(b) = Len(s) - n /\ \A i \in 1 .. Len(s) - n : b[i] = s[n + i]
    <2>1. \A i \in n + 1 .. Len(s) : s[i] \in Pid
        BY <1>0, <1>2
    <2>2. /\ b \in Seq(Pid) /\ Len(b) = IF n + 1 <= Len(s) THEN Len(s) - (n + 1) + 1 ELSE 0
          /\ \A i \in 1 .. Len(s) - (n + 1) + 1 : b[i] = s[(n + 1) + i - 1]
        BY <1>0, <2>1, SubSeqProperties
    <2> QED BY <1>0, <2>2
  <1> HIDE DEF a, b
  <1>5. Lugar(a, A)
    <2>1. \A i, j \in 1 .. Len(a) : a[i] = a[j] => i = j
        BY <1>0, <1>1, <1>3
    <2> QED BY <1>3, <2>1 DEF Lugar
  <1>6. A \subseteq S
    <2>1. ASSUME NEW x \in A PROVE x \in S
      <3>1. PICK i \in 1 .. Len(a) : a[i] = x
          BY <1>3, EnLugar
      <3>2. i \in 1 .. Len(s) /\ s[i] = x
          BY <1>0, <1>3, <3>1
      <3> QED BY <1>1, <3>2, EnLugar
    <2> QED BY <2>1
  <1>7. Lugar(b, S \ A)
    <2>1. \A i \in 1 .. Len(b) : n + i \in 1 .. Len(s) /\ b[i] = s[n + i]
        BY <1>0, <1>4
    <2>2. \A i, j \in 1 .. Len(b) : b[i] = b[j] => i = j
      <3>1. \A i, j \in 1 .. Len(b) : n + i = n + j => i = j
          BY <1>0, <1>4
      <3> QED BY <1>1, <2>1, <3>1
    <2>3. ASSUME NEW x \in ToSet(b) PROVE x \in S \ A
      <3>1. PICK i \in 1 .. Len(b) : b[i] = x
          BY <1>4, EnLugar
      <3>2. x \in S
          BY <1>1, <2>1, <3>1, EnLugar
      <3>3. ASSUME x \in A PROVE FALSE
        <4>1. PICK j \in 1 .. Len(a) : a[j] = x
            BY <1>3, <3>3, EnLugar
        <4>2. j \in 1 .. Len(s) /\ s[j] = x /\ j <= n
            BY <1>0, <1>3, <4>1
        <4>3. n + i = j
            BY <1>1, <2>1, <3>1, <4>2
        <4> QED BY <1>0, <4>2, <4>3
      <3> QED BY <3>2, <3>3
    <2>4. ASSUME NEW x \in S \ A PROVE x \in ToSet(b)
      <3>1. PICK i \in 1 .. Len(s) : s[i] = x
          BY <1>1, EnLugar
      <3>2. ~(i <= n)
        <4>1. ASSUME i <= n PROVE FALSE
          <5>1. i \in 1 .. Len(a) /\ a[i] = x
              BY <1>0, <1>3, <3>1, <4>1
          <5> QED BY <1>3, <5>1, EnLugar
        <4> QED BY <4>1
      <3>3. i - n \in 1 .. Len(b) /\ n + (i - n) = i
          BY <1>0, <1>4, <3>2
      <3>4. b[i - n] = x
          BY <2>1, <3>1, <3>3
      <3> QED BY <1>4, <3>3, <3>4, EnLugar
    <2>5. ToSet(b) = S \ A
        BY <2>3, <2>4
    <2> QED BY <1>4, <2>2, <2>5 DEF Lugar
  <1>8. IsFiniteSet(A) /\ Cardinality(A) = n
    <2>1. a \in [1 .. n -> A]
      <3>1. DOMAIN a = 1 .. n /\ \A i \in 1 .. n : a[i] \in A
          BY <1>3, EnLugar
      <3>2. a \in [1 .. n -> Pid]
          BY <1>3, LenProperties
      <3> QED BY <3>1, <3>2
    <2>2. \A i, j \in 1 .. n : a[i] = a[j] => i = j
        BY <1>3, <1>5 DEF Lugar
    <2>3. \A x \in A : \E i \in 1 .. n : a[i] = x
        BY <1>3, EnLugar
    <2>4. a \in Bijection(1 .. n, A)
        BY <2>1, <2>2, <2>3 DEF Bijection, Injection, Surjection, IsInjective
    <2>5. ExistsBijection(1 .. n, A)
        BY <2>4 DEF ExistsBijection
    <2> QED BY <1>0, <2>5, FS_CountingElements, FS_NatBijection
  <1> QED BY <1>5, <1>6, <1>7, <1>8 DEF a, b

(* The wakings of sacarle_sus_recursos, in the order of the hash table.    *)
LEMMA LugarOrden ==
  ASSUME NEW S \in SUBSET Pid, NEW s \in SetToSeqs(S)
  PROVE  Lugar(s, S)
  <1> DEFINE n == Cardinality(S)
  <1>0. IsFiniteSet(S) /\ n \in Nat /\ Cardinality(1 .. n) = n
    <2>1. CantPids \in Nat
        BY ConstantesOK
    <2>2. IsFiniteSet(Pid)
        BY <2>1, FS_Interval DEF Pid
    <2>3. IsFiniteSet(S) /\ n \in Nat
        BY <2>2, FS_Subset, FS_CardinalityType
    <2> HIDE DEF n
    <2>4. Cardinality(1 .. n) = n
        BY <2>3, FS_Interval
    <2> QED BY <2>3, <2>4
  <1>1. s \in [1 .. n -> S] /\ \A i, j \in 1 .. n : i # j => s[i] # s[j]
      BY DEF SetToSeqs
  <1>a. s \in Seq(Pid)
      BY OrdenTipo
  <1> HIDE DEF n
  <1>b. Len(s) = n
      BY <1>0, <1>1, <1>a, LenProperties
  <1>2. s \in Injection(1 .. n, S)
      BY <1>1 DEF Injection, IsInjective
  <1>3. s \in Surjection(1 .. n, S)
      BY <1>0, <1>2, FS_Injection DEF n
  <1>4. ToSet(s) = S
    <2>1. \A x \in S : \E i \in 1 .. n : s[i] = x
        BY <1>3 DEF Surjection
    <2>2. \A i \in 1 .. n : s[i] \in S
        BY <1>1
    <2>3. \A x : x \in ToSet(s) <=> \E i \in 1 .. n : s[i] = x
        BY <1>a, <1>b, EnLugar
    <2> QED BY <2>1, <2>2, <2>3
  <1> QED BY <1>1, <1>a, <1>b, <1>4 DEF Lugar

(***************************************************************************)
(* The queues and the states                                               *)
(***************************************************************************)
(* The processes in state e, those of X aside.                             *)
En(est, e, X) == {p \in Pid \ X : est[p] = e}

(* Each blocked process is in one of the queues blo, once.                 *)
Bloqueos(S, blo) ==
  /\ \A c \in Clave : Lugar(blo[c], ToSet(blo[c]))
  /\ \A c, d \in Clave : \A p \in Pid : p \in ToSet(blo[c]) /\ p \in ToSet(blo[d]) => c = d
  /\ \A p : p \in S <=> \E c \in Clave : p \in ToSet(blo[c])

(* ColasCoherentes of these fields, while the processes of X are between   *)
(* two queues.                                                             *)
ColasDe(est, cn, cr, cp, cx, blo, X) ==
  /\ Lugar(cn, En(est, "NEW", X))
  /\ Lugar(cr, En(est, "READY", X))
  /\ Lugar(cp, En(est, "READY_PRIORITARIO", X))
  /\ Lugar(cx, En(est, "RUNNING", X))
  /\ Bloqueos(En(est, "BLOCKED", X), blo)

Colas(k, X) ==
  ColasDe(k.estado, k.cola_NEW, k.cola_READY, k.cola_READY_PRIORITARIA, k.cola_RUNNING,
          k.bloqueados, X)

LEMMA EnSaca ==
  ASSUME NEW est \in [Pid -> Estado], NEW p \in Pid
  PROVE  /\ \A e : e = est[p] => p \in En(est, e, {}) /\ En(est, e, {p}) = En(est, e, {}) \ {p}
         /\ \A e : e # est[p] => En(est, e, {p}) = En(est, e, {})
  BY DEF En

LEMMA EnPone ==
  ASSUME NEW est \in [Pid -> Estado], NEW p \in Pid, NEW e \in Estado
  PROVE  /\ En([est EXCEPT ![p] = e], e, {}) = En(est, e, {p}) \cup {p}
         /\ \A f : f # e => En([est EXCEPT ![p] = e], f, {}) = En(est, f, {p})
  BY DEF En

LEMMA BloqueosSaca ==
  ASSUME NEW S, NEW blo \in [Clave -> Seq(Pid)], Bloqueos(S, blo),
         NEW c \in Clave, NEW p \in ToSet(blo[c]), NEW s, Lugar(s, ToSet(blo[c]) \ {p})
  PROVE  p \in S /\ Bloqueos(S \ {p}, [blo EXCEPT ![c] = s])
  <1> DEFINE b2 == [blo EXCEPT ![c] = s]
  <1>0. s \in Seq(Pid) /\ ToSet(s) = ToSet(blo[c]) \ {p}
      BY DEF Lugar
  <1>a. p \in Pid
      BY EnLugar
  <1>1. /\ b2[c] = s
        /\ \A d \in Clave : d # c => b2[d] = blo[d]
      OBVIOUS
  <1> HIDE DEF b2
  <1>2. ASSUME NEW d \in Clave PROVE ToSet(b2[d]) = ToSet(blo[d]) \ {p}
    <2>1. CASE d = c
        BY <1>0, <1>1, <2>1
    <2>2. CASE d # c
      <3>1. p \notin ToSet(blo[d])
          BY <1>a, <2>2 DEF Bloqueos
      <3> QED BY <1>1, <2>2, <3>1
    <2> QED BY <2>1, <2>2
  <1>3. \A d \in Clave : Lugar(b2[d], ToSet(b2[d]))
    <2>1. Lugar(s, ToSet(s))
        BY <1>0
    <2>2. \A d \in Clave : Lugar(blo[d], ToSet(blo[d]))
        BY DEF Bloqueos
    <2> QED BY <1>1, <2>1, <2>2
  <1>4. \A d, f \in Clave : \A q \in Pid : q \in ToSet(b2[d]) /\ q \in ToSet(b2[f]) => d = f
      BY <1>2 DEF Bloqueos
  <1>5. \A q : q \in S \ {p} <=> \E d \in Clave : q \in ToSet(b2[d])
      BY <1>2 DEF Bloqueos
  <1>6. p \in S
      BY DEF Bloqueos
  <1> QED BY <1>3, <1>4, <1>5, <1>6 DEF Bloqueos, b2

LEMMA BloqueosPone ==
  ASSUME NEW S, NEW blo \in [Clave -> Seq(Pid)], Bloqueos(S, blo),
         NEW c \in Clave, NEW p \in Pid, p \notin S
  PROVE  Bloqueos(S \cup {p}, [blo EXCEPT ![c] = Append(@, p)])
  <1> DEFINE b2 == [blo EXCEPT ![c] = Append(@, p)]
  <1>0. \A d \in Clave : p \notin ToSet(blo[d])
      BY DEF Bloqueos
  <1>1. /\ b2[c] = Append(blo[c], p)
        /\ \A d \in Clave : d # c => b2[d] = blo[d]
      OBVIOUS
  <1>2. Lugar(Append(blo[c], p), ToSet(blo[c]) \cup {p})
      BY <1>0, LugarAppend DEF Bloqueos
  <1>3. ToSet(Append(blo[c], p)) = ToSet(blo[c]) \cup {p}
      BY <1>2 DEF Lugar
  <1> HIDE DEF b2
  <1>4. \A d \in Clave : Lugar(b2[d], ToSet(b2[d]))
    <2>1. \A d \in Clave : Lugar(blo[d], ToSet(blo[d]))
        BY DEF Bloqueos
    <2> QED BY <1>1, <1>2, <1>3, <2>1
  <1>5. \A d \in Clave : ToSet(b2[d]) = IF d = c THEN ToSet(blo[d]) \cup {p} ELSE ToSet(blo[d])
      BY <1>1, <1>3
  <1>6. \A d, f \in Clave : \A q \in Pid : q \in ToSet(b2[d]) /\ q \in ToSet(b2[f]) => d = f
      BY <1>0, <1>5 DEF Bloqueos
  <1>7. \A q : q \in S \cup {p} <=> \E d \in Clave : q \in ToSet(b2[d])
      BY <1>5 DEF Bloqueos
  <1> QED BY <1>4, <1>6, <1>7 DEF Bloqueos, b2

(* A process leaves its queue ...                                          *)
LEMMA ColasSaca ==
  ASSUME NEW est \in [Pid -> Estado], NEW cn, NEW cr, NEW cp, NEW cx, NEW blo \in [Clave -> Seq(Pid)],
         ColasDe(est, cn, cr, cp, cx, blo, {}), NEW p \in Pid, NEW s
  PROVE  /\ est[p] = "NEW" /\ Lugar(s, En(est, "NEW", {}) \ {p})
              => ColasDe(est, s, cr, cp, cx, blo, {p})
         /\ est[p] = "READY" /\ Lugar(s, En(est, "READY", {}) \ {p})
              => ColasDe(est, cn, s, cp, cx, blo, {p})
         /\ est[p] = "READY_PRIORITARIO" /\ Lugar(s, En(est, "READY_PRIORITARIO", {}) \ {p})
              => ColasDe(est, cn, cr, s, cx, blo, {p})
         /\ est[p] = "RUNNING" /\ Lugar(s, En(est, "RUNNING", {}) \ {p})
              => ColasDe(est, cn, cr, cp, s, blo, {p})
         /\ \A c \in Clave : p \in ToSet(blo[c]) /\ Lugar(s, ToSet(blo[c]) \ {p})
              => est[p] = "BLOCKED" /\ ColasDe(est, cn, cr, cp, cx, [blo EXCEPT ![c] = s], {p})
         /\ est[p] \in {"NO_CREADO", "EXIT"} => ColasDe(est, cn, cr, cp, cx, blo, {p})
  <1>0. /\ Lugar(cn, En(est, "NEW", {}))
        /\ Lugar(cr, En(est, "READY", {}))
        /\ Lugar(cp, En(est, "READY_PRIORITARIO", {}))
        /\ Lugar(cx, En(est, "RUNNING", {}))
        /\ Bloqueos(En(est, "BLOCKED", {}), blo)
      BY DEF ColasDe
  <1>1. ASSUME est[p] = "NEW", Lugar(s, En(est, "NEW", {}) \ {p})
        PROVE  ColasDe(est, s, cr, cp, cx, blo, {p})
      BY <1>0, <1>1, EnSaca DEF ColasDe
  <1>2. ASSUME est[p] = "READY", Lugar(s, En(est, "READY", {}) \ {p})
        PROVE  ColasDe(est, cn, s, cp, cx, blo, {p})
      BY <1>0, <1>2, EnSaca DEF ColasDe
  <1>3. ASSUME est[p] = "READY_PRIORITARIO", Lugar(s, En(est, "READY_PRIORITARIO", {}) \ {p})
        PROVE  ColasDe(est, cn, cr, s, cx, blo, {p})
      BY <1>0, <1>3, EnSaca DEF ColasDe
  <1>4. ASSUME est[p] = "RUNNING", Lugar(s, En(est, "RUNNING", {}) \ {p})
        PROVE  ColasDe(est, cn, cr, cp, s, blo, {p})
      BY <1>0, <1>4, EnSaca DEF ColasDe
  <1>5. ASSUME NEW c \in Clave, p \in ToSet(blo[c]), Lugar(s, ToSet(blo[c]) \ {p})
        PROVE  est[p] = "BLOCKED" /\ ColasDe(est, cn, cr, cp, cx, [blo EXCEPT ![c] = s], {p})
    <2>1. p \in En(est, "BLOCKED", {}) /\ Bloqueos(En(est, "BLOCKED", {}) \ {p}, [blo EXCEPT ![c] = s])
        BY <1>0, <1>5, BloqueosSaca
    <2>2. est[p] = "BLOCKED"
        BY <2>1 DEF En
    <2> QED BY <1>0, <2>1, <2>2, EnSaca DEF ColasDe
  <1>6. ASSUME est[p] \in {"NO_CREADO", "EXIT"}
        PROVE  ColasDe(est, cn, cr, cp, cx, blo, {p})
      BY <1>0, <1>6, EnSaca DEF ColasDe
  <1> QED BY <1>1, <1>2, <1>3, <1>4, <1>5, <1>6

(* ... and enters another.                                                 *)
LEMMA ColasPone ==
  ASSUME NEW est \in [Pid -> Estado], NEW cn, NEW cr, NEW cp, NEW cx, NEW blo \in [Clave -> Seq(Pid)],
         NEW p \in Pid, ColasDe(est, cn, cr, cp, cx, blo, {p})
  PROVE  /\ ColasDe([est EXCEPT ![p] = "NEW"], Append(cn, p), cr, cp, cx, blo, {})
         /\ ColasDe([est EXCEPT ![p] = "READY"], cn, Append(cr, p), cp, cx, blo, {})
         /\ ColasDe([est EXCEPT ![p] = "READY_PRIORITARIO"], cn, cr, Append(cp, p), cx, blo, {})
         /\ ColasDe([est EXCEPT ![p] = "RUNNING"], cn, cr, cp, Append(cx, p), blo, {})
         /\ \A c \in Clave : ColasDe([est EXCEPT ![p] = "BLOCKED"], cn, cr, cp, cx,
                                     [blo EXCEPT ![c] = Append(@, p)], {})
         /\ ColasDe([est EXCEPT ![p] = "EXIT"], cn, cr, cp, cx, blo, {})
  <1>0. /\ Lugar(cn, En(est, "NEW", {p}))
        /\ Lugar(cr, En(est, "READY", {p}))
        /\ Lugar(cp, En(est, "READY_PRIORITARIO", {p}))
        /\ Lugar(cx, En(est, "RUNNING", {p}))
        /\ Bloqueos(En(est, "BLOCKED", {p}), blo)
      BY DEF ColasDe
  <1>a. \A e \in Estado : p \notin En(est, e, {p})
      BY DEF En
  <1>1. ColasDe([est EXCEPT ![p] = "NEW"], Append(cn, p), cr, cp, cx, blo, {})
    <2>1. "NEW" \in Estado
        BY DEF Estado
    <2>2. Lugar(Append(cn, p), En(est, "NEW", {p}) \cup {p})
        BY <1>0, <1>a, <2>1, LugarAppend
    <2>3. /\ En([est EXCEPT ![p] = "NEW"], "NEW", {}) = En(est, "NEW", {p}) \cup {p}
          /\ \A f : f # "NEW" => En([est EXCEPT ![p] = "NEW"], f, {}) = En(est, f, {p})
        BY <2>1, EnPone
    <2> QED BY <1>0, <2>2, <2>3 DEF ColasDe
  <1>2. ColasDe([est EXCEPT ![p] = "READY"], cn, Append(cr, p), cp, cx, blo, {})
    <2>1. "READY" \in Estado
        BY DEF Estado
    <2>2. Lugar(Append(cr, p), En(est, "READY", {p}) \cup {p})
        BY <1>0, <1>a, <2>1, LugarAppend
    <2>3. /\ En([est EXCEPT ![p] = "READY"], "READY", {}) = En(est, "READY", {p}) \cup {p}
          /\ \A f : f # "READY" => En([est EXCEPT ![p] = "READY"], f, {}) = En(est, f, {p})
        BY <2>1, EnPone
    <2> QED BY <1>0, <2>2, <2>3 DEF ColasDe
  <1>3. ColasDe([est EXCEPT ![p] = "READY_PRIORITARIO"], cn, cr, Append(cp, p), cx, blo, {})
    <2>1. "READY_PRIORITARIO" \in Estado
        BY DEF Estado
    <2>2. Lugar(Append(cp, p), En(est, "READY_PRIORITARIO", {p}) \cup {p})
        BY <1>0, <1>a, <2>1, LugarAppend
    <2>3. /\ En([est EXCEPT ![p] = "READY_PRIORITARIO"], "READY_PRIORITARIO", {}) = En(est, "READY_PRIORITARIO", {p}) \cup {p}
          /\ \A f : f # "READY_PRIORITARIO" => En([est EXCEPT ![p] = "READY_PRIORITARIO"], f, {}) = En(est, f, {p})
        BY <2>1, EnPone
    <2> QED BY <1>0, <2>2, <2>3 DEF ColasDe
  <1>4. ColasDe([est EXCEPT ![p] = "RUNNING"], cn, cr, cp, Append(cx, p), blo, {})
    <2>1. "RUNNING" \in Estado
        BY DEF Estado
    <2>2. Lugar(Append(cx, p), En(est, "RUNNING", {p}) \cup {p})
        BY <1>0, <1>a, <2>1, LugarAppend
    <2>3. /\ En([est EXCEPT ![p] = "RUNNING"], "RUNNING", {}) = En(est, "RUNNING", {p}) \cup {p}
          /\ \A f : f # "RUNNING" => En([est EXCEPT ![p] = "RUNNING"], f, {}) = En(est, f, {p})
        BY <2>1, EnPone
    <2> QED BY <1>0, <2>2, <2>3 DEF ColasDe
  <1>5. ASSUME NEW c \in Clave
        PROVE  ColasDe([est EXCEPT ![p] = "BLOCKED"], cn, cr, cp, cx, [blo EXCEPT ![c] = Append(@, p)], {})
    <2>1. "BLOCKED" \in Estado
        BY DEF Estado
    <2>2. Bloqueos(En(est, "BLOCKED", {p}) \cup {p}, [blo EXCEPT ![c] = Append(@, p)])
        BY <1>0, <1>a, <2>1, BloqueosPone
    <2>3. /\ En([est EXCEPT ![p] = "BLOCKED"], "BLOCKED", {}) = En(est, "BLOCKED", {p}) \cup {p}
          /\ \A f : f # "BLOCKED" => En([est EXCEPT ![p] = "BLOCKED"], f, {}) = En(est, f, {p})
        BY <2>1, EnPone
    <2> QED BY <1>0, <2>2, <2>3 DEF ColasDe
  <1>6. ColasDe([est EXCEPT ![p] = "EXIT"], cn, cr, cp, cx, blo, {})
    <2>1. "EXIT" \in Estado
        BY DEF Estado
    <2>3. /\ En([est EXCEPT ![p] = "EXIT"], "EXIT", {}) = En(est, "EXIT", {p}) \cup {p}
          /\ \A f : f # "EXIT" => En([est EXCEPT ![p] = "EXIT"], f, {}) = En(est, f, {p})
        BY <2>1, EnPone
    <2> QED BY <1>0, <2>3 DEF ColasDe
  <1> QED BY <1>1, <1>2, <1>3, <1>4, <1>5, <1>6

(***************************************************************************)
(* What is kept in order besides the queues: the count of the processes in *)
(* the system, the part of a quantum of those with priority, and the ids   *)
(* that were not handed out yet.                                           *)
(***************************************************************************)
EnSistema == {"READY", "READY_PRIORITARIO", "RUNNING", "BLOCKED"}

Contados(k)  == SinMatar(k, {"NEW"}) => k.cant = Cardinality(Admitidos(k))
ConResto(k)  == \A p \in Pid : k.estado[p] = "READY_PRIORITARIO" => k.parcial[p]
SinUsar(k)   == {p \in Pid : p >= k.contador}
SinCrear(k)  == \A p \in SinUsar(k) : k.estado[p] = "NO_CREADO"

Ordenado(k) ==
  /\ KernelOK(k)
  /\ Colas(k, {})
  /\ Contados(k)
  /\ ConResto(k)
  /\ SinCrear(k)

(* What no move between states changes: the history, the console's         *)
(* settings, the processes that finished and those not admitted.           *)
Fijo(k, k2) ==
  /\ k2.contador = k.contador /\ k2.matados = k.matados /\ k2.vivo = k.vivo
  /\ k2.grado = k.grado /\ k2.pausada = k.pausada
  /\ \A p \in Pid : /\ k2.estado[p] = "NEW" => k.estado[p] = "NEW"
                    /\ k.estado[p] = "NEW" => k2.estado[p] \in {"NEW", "EXIT"}
  /\ \A p \in Pid : k.estado[p] = "EXIT" => k2.estado[p] = "EXIT"

(* What the CPU and the threads that answer it see of the kernel.          *)
Quieto(k, k2) ==
  /\ k2.cola_RUNNING = k.cola_RUNNING
  /\ k2.dispatch = k.dispatch
  /\ k2.hilos_respuesta = k.hilos_respuesta

MismoSemaforo(k, k2) == k2.instancias = k.instancias /\ k2.bloqueados = k.bloqueados

LEMMA Finitos ==
  ASSUME NEW k
  PROVE  IsFiniteSet(Admitidos(k)) /\ Cardinality(Admitidos(k)) \in Nat
  <1>1. CantPids \in Nat
      BY ConstantesOK
  <1>2. IsFiniteSet(Pid)
      BY <1>1, FS_Interval DEF Pid
  <1>3. Admitidos(k) \in SUBSET Pid
      BY DEF Admitidos
  <1> QED BY <1>2, <1>3, FS_Subset, FS_CardinalityType

(* A process of the system changes its state for another of the system.    *)
LEMMA Movida ==
  ASSUME NEW k, Ordenado(k), NEW k2, KernelOK(k2), Colas(k2, {}),
         NEW p \in Pid, NEW e \in EnSistema, k.estado[p] \in EnSistema,
         k2.estado = [k.estado EXCEPT ![p] = e],
         k2.cant = k.cant, k2.contador = k.contador, k2.matados = k.matados,
         k2.vivo = k.vivo, k2.grado = k.grado, k2.pausada = k.pausada,
         \A q \in Pid : q # p => k2.parcial[q] = k.parcial[q],
         e = "READY_PRIORITARIO" => k2.parcial[p]
  PROVE  Ordenado(k2) /\ Fijo(k, k2)
  <1>0. k.estado \in [Pid -> Estado]
      BY DEF Ordenado, KernelOK, KernelType
  <1>1. \A q \in Pid : k2.estado[q] = IF q = p THEN e ELSE k.estado[q]
      BY <1>0
  <1>2. Admitidos(k2) = Admitidos(k)
      BY <1>1 DEF Admitidos, EnSistema
  <1>3. Contados(k2)
      BY <1>2 DEF Ordenado, Contados, SinMatar
  <1>4. ConResto(k2)
      BY <1>1 DEF Ordenado, ConResto
  <1>5. SinCrear(k2)
    <2>1. SinUsar(k2) = SinUsar(k)
        BY DEF SinUsar
    <2>2. \A q \in SinUsar(k) : q \in Pid /\ k.estado[q] = "NO_CREADO" /\ q # p
        BY DEF Ordenado, SinCrear, EnSistema, SinUsar
    <2> QED BY <1>1, <2>1, <2>2 DEF SinCrear
  <1>6. Fijo(k, k2)
      BY <1>1 DEF Fijo, EnSistema
  <1> QED BY <1>3, <1>4, <1>5, <1>6 DEF Ordenado

(* A process of the system finishes and is discounted.                     *)
LEMMA Salida ==
  ASSUME NEW k, Ordenado(k), NEW k2, KernelOK(k2), Colas(k2, {}),
         NEW p \in Pid, k.estado[p] \in EnSistema,
         k2.estado = [k.estado EXCEPT ![p] = "EXIT"],
         k2.cant = k.cant - 1, k2.contador = k.contador, k2.matados = k.matados,
         k2.vivo = k.vivo, k2.grado = k.grado, k2.pausada = k.pausada,
         \A q \in Pid : q # p => k2.parcial[q] = k.parcial[q]
  PROVE  Ordenado(k2) /\ Fijo(k, k2)
  <1>0. k.estado \in [Pid -> Estado]
      BY DEF Ordenado, KernelOK, KernelType
  <1>1. \A q \in Pid : k2.estado[q] = IF q = p THEN "EXIT" ELSE k.estado[q]
      BY <1>0
  <1>2. Admitidos(k2) = Admitidos(k) \ {p} /\ p \in Admitidos(k)
      BY <1>1 DEF Admitidos, EnSistema
  <1>3. Contados(k2)
    <2>1. Cardinality(Admitidos(k2)) = Cardinality(Admitidos(k)) - 1
        BY <1>2, Finitos, FS_RemoveElement
    <2> QED BY <2>1 DEF Ordenado, Contados, SinMatar
  <1>4. ConResto(k2)
      BY <1>1 DEF Ordenado, ConResto
  <1>5. SinCrear(k2)
    <2>1. SinUsar(k2) = SinUsar(k)
        BY DEF SinUsar
    <2>2. \A q \in SinUsar(k) : q \in Pid /\ k.estado[q] = "NO_CREADO" /\ q # p
        BY DEF Ordenado, SinCrear, EnSistema, SinUsar
    <2> QED BY <1>1, <2>1, <2>2 DEF SinCrear
  <1>6. Fijo(k, k2)
      BY <1>1 DEF Fijo, EnSistema
  <1> QED BY <1>3, <1>4, <1>5, <1>6 DEF Ordenado

(* Nobody moves.                                                           *)
LEMMA Inmovil ==
  ASSUME NEW k, Ordenado(k), NEW k2, KernelOK(k2),
         k2.estado = k.estado, k2.cola_NEW = k.cola_NEW, k2.cola_READY = k.cola_READY,
         k2.cola_READY_PRIORITARIA = k.cola_READY_PRIORITARIA, k2.cola_RUNNING = k.cola_RUNNING,
         k2.bloqueados = k.bloqueados, k2.parcial = k.parcial,
         k2.cant = k.cant, k2.contador = k.contador,
         SinMatar(k2, {"NEW"}) => SinMatar(k, {"NEW"})
  PROVE  Ordenado(k2)
  <1>1. Colas(k2, {})
      BY DEF Ordenado, Colas
  <1>2. Admitidos(k2) = Admitidos(k)
      BY DEF Admitidos
  <1>3. Contados(k2) /\ ConResto(k2) /\ SinCrear(k2)
      BY <1>2 DEF Ordenado, Contados, ConResto, SinCrear, SinUsar
  <1> QED BY <1>1, <1>3 DEF Ordenado

(***************************************************************************)
(* The moves between states                                                *)
(***************************************************************************)
PCB(p) == [tipo |-> "PCB", dato |-> p]

(* A process of the ready queues gets the idle CPU.                        *)
Despachado(k, k2) ==
  /\ k.cola_RUNNING = <<>>
  /\ \E p \in Pid : /\ k2.cola_RUNNING = <<p>>
                    /\ k2.dispatch = Append(k.dispatch, PCB(p))
                    /\ k2.hilos_respuesta = [k.hilos_respuesta EXCEPT ![p] = @ + 1]

Paso(k, k2) == Quieto(k, k2) \/ Despachado(k, k2)

LEMMA OrdenadoTipo ==
  ASSUME NEW k, Ordenado(k)
  PROVE  /\ k \in KernelType
         /\ k.estado \in [Pid -> Estado] /\ k.bloqueados \in [Clave -> Seq(Pid)]
         /\ k.cola_NEW \in Seq(Pid) /\ k.cola_READY \in Seq(Pid) /\ k.cola_RUNNING \in Seq(Pid)
         /\ k.cola_READY_PRIORITARIA \in Seq(Pid)
         /\ k.parcial \in [Pid -> BOOLEAN] /\ k.hilos_respuesta \in [Pid -> Nat]
         /\ k.cant \in Int /\ k.grado \in Int /\ k.contador \in Nat
         /\ ColasDe(k.estado, k.cola_NEW, k.cola_READY, k.cola_READY_PRIORITARIA, k.cola_RUNNING,
                    k.bloqueados, {})
  BY DEF Ordenado, KernelOK, KernelType, Colas

(* The head of a queue is a process in the queue's state.                  *)
LEMMA Cabeza ==
  ASSUME NEW k, Ordenado(k), NEW e, NEW s, Lugar(s, En(k.estado, e, {})), s # <<>>
  PROVE  /\ Head(s) \in Pid /\ k.estado[Head(s)] = e
         /\ Lugar(Tail(s), En(k.estado, e, {}) \ {Head(s)})
  BY LugarTail DEF En

(* The fields after Despacho(k1, p), k1 being k with a shorter queue.      *)
CamposDespacho(k, k1, k2, p) ==
  /\ k2.estado = [k.estado EXCEPT ![p] = "RUNNING"]
  /\ k2.cola_RUNNING = Append(k.cola_RUNNING, p)
  /\ k2.dispatch = Append(k.dispatch, PCB(p))
  /\ k2.hilos_respuesta = [k.hilos_respuesta EXCEPT ![p] = @ + 1]
  /\ k2.cola_NEW = k.cola_NEW
  /\ k2.cola_READY = k1.cola_READY
  /\ k2.cola_READY_PRIORITARIA = k1.cola_READY_PRIORITARIA
  /\ k2.bloqueados = k.bloqueados /\ k2.instancias = k.instancias
  /\ k2.cant = k.cant /\ k2.contador = k.contador /\ k2.matados = k.matados
  /\ k2.vivo = k.vivo /\ k2.grado = k.grado /\ k2.pausada = k.pausada
  /\ k2.parcial = k.parcial /\ k2.sirviendo = k.sirviendo

LEMMA DespachoCampos ==
  ASSUME NEW k \in KernelType, NEW k1, NEW p \in Pid, NEW s,
         \/ k1 = [k EXCEPT !.cola_READY = s]
         \/ k1 = [k EXCEPT !.cola_READY_PRIORITARIA = s]
  PROVE  CamposDespacho(k, k1, Despacho(k1, p), p)
  BY DEF KernelType, Despacho, PCB, CamposDespacho

(* evaluar_READY_a_EXEC gives the idle CPU to a ready process if there is  *)
(* one, unless planning is stopped.                                        *)
LEMMA ReadyExec ==
  ASSUME NEW k, Ordenado(k), NEW k2, k2 = evaluar_READY_a_EXEC(k)
  PROVE  /\ Ordenado(k2) /\ Fijo(k, k2) /\ MismoSemaforo(k, k2) /\ Paso(k, k2)
         /\ k2.sirviendo = k.sirviendo /\ k2.cant = k.cant
         /\ ~k.pausada /\ k2.cola_RUNNING = <<>>
              => k2.cola_READY = <<>> /\ k2.cola_READY_PRIORITARIA = <<>>
  <1>0. k \in KernelType /\ KernelOK(k) /\ KernelOK(k2)
      BY OrdenadoTipo, ReadyExecTipo DEF Ordenado
  <1>a. k.cola_READY \in Seq(Pid) /\ k.cola_READY_PRIORITARIA \in Seq(Pid)
      BY OrdenadoTipo
  <1>b. /\ Lugar(k.cola_READY, En(k.estado, "READY", {}))
        /\ Lugar(k.cola_READY_PRIORITARIA, En(k.estado, "READY_PRIORITARIO", {}))
      BY OrdenadoTipo DEF ColasDe
  <1>1. CASE k.pausada \/ k.cola_RUNNING # <<>> \/ k.cola_READY \o k.cola_READY_PRIORITARIA = <<>>
    <2>1. k2 = k
        BY <1>1 DEF evaluar_READY_a_EXEC
    <2>2. Fijo(k, k2) /\ MismoSemaforo(k, k2) /\ Paso(k, k2)
        BY <2>1 DEF Fijo, MismoSemaforo, Paso, Quieto
    <2>3. k.cola_READY \o k.cola_READY_PRIORITARIA = <<>>
            => k.cola_READY = <<>> /\ k.cola_READY_PRIORITARIA = <<>>
        BY <1>a, ConcatVacia
    <2> QED BY <1>1, <2>1, <2>2, <2>3
  <1>2. ASSUME k.cola_RUNNING = <<>>, NEW p \in Pid, NEW k1, NEW s,
               k2 = Despacho(k1, p), k.estado[p] \in EnSistema,
               \/ /\ k1 = [k EXCEPT !.cola_READY = s]
                  /\ ColasDe(k.estado, k.cola_NEW, s, k.cola_READY_PRIORITARIA, k.cola_RUNNING,
                             k.bloqueados, {p})
               \/ /\ k1 = [k EXCEPT !.cola_READY_PRIORITARIA = s]
                  /\ ColasDe(k.estado, k.cola_NEW, k.cola_READY, s, k.cola_RUNNING,
                             k.bloqueados, {p})
        PROVE  /\ Ordenado(k2) /\ Fijo(k, k2) /\ MismoSemaforo(k, k2) /\ Paso(k, k2)
               /\ k2.sirviendo = k.sirviendo /\ k2.cant = k.cant /\ k2.cola_RUNNING # <<>>
    <2>0. CamposDespacho(k, k1, k2, p)
        BY <1>0, <1>2, DespachoCampos
    <2>1. /\ k2.estado = [k.estado EXCEPT ![p] = "RUNNING"]
          /\ k2.cola_RUNNING = Append(k.cola_RUNNING, p)
          /\ k2.dispatch = Append(k.dispatch, PCB(p))
          /\ k2.hilos_respuesta = [k.hilos_respuesta EXCEPT ![p] = @ + 1]
          /\ k2.cola_NEW = k.cola_NEW
          /\ k2.cola_READY = k1.cola_READY
          /\ k2.cola_READY_PRIORITARIA = k1.cola_READY_PRIORITARIA
          /\ k2.bloqueados = k.bloqueados /\ k2.instancias = k.instancias
          /\ k2.cant = k.cant /\ k2.contador = k.contador /\ k2.matados = k.matados
          /\ k2.vivo = k.vivo /\ k2.grado = k.grado /\ k2.pausada = k.pausada
          /\ k2.parcial = k.parcial /\ k2.sirviendo = k.sirviendo
        BY <2>0 DEF CamposDespacho
    <2>2. ColasDe(k.estado, k2.cola_NEW, k2.cola_READY, k2.cola_READY_PRIORITARIA, k.cola_RUNNING,
                  k2.bloqueados, {p})
        BY <1>0, <1>2, <2>1 DEF KernelType
    <2>3. Colas(k2, {})
      <3>1. k.estado \in [Pid -> Estado] /\ k2.bloqueados \in [Clave -> Seq(Pid)]
          BY <2>1, OrdenadoTipo
      <3>2. ColasDe([k.estado EXCEPT ![p] = "RUNNING"], k2.cola_NEW, k2.cola_READY,
                    k2.cola_READY_PRIORITARIA, Append(k.cola_RUNNING, p), k2.bloqueados, {})
          BY <2>2, <3>1, ColasPone
      <3> QED BY <2>1, <3>2 DEF Colas
    <2>4. Ordenado(k2) /\ Fijo(k, k2)
      <3>1. "RUNNING" \in EnSistema
          BY DEF EnSistema
      <3> QED BY <1>0, <1>2, <2>1, <2>3, <3>1, Movida
    <2>5. k2.cola_RUNNING = <<p>>
        BY <1>2, <2>1
    <2>6. Paso(k, k2)
        BY <1>2, <2>1, <2>5 DEF Paso, Despachado
    <2> QED BY <2>1, <2>4, <2>5, <2>6 DEF MismoSemaforo
  <1>3. CASE ~(k.pausada \/ k.cola_RUNNING # <<>> \/ k.cola_READY \o k.cola_READY_PRIORITARIA = <<>>)
    <2>1. k.cola_READY # <<>> \/ k.cola_READY_PRIORITARIA # <<>>
        BY <1>3, <1>a, ConcatVacia
    <2>2. CASE Algoritmo = "VRR" /\ k.cola_READY_PRIORITARIA # <<>>
      <3> DEFINE p == Head(k.cola_READY_PRIORITARIA)
                 s == Tail(k.cola_READY_PRIORITARIA)
      <3>1. k2 = Despacho([k EXCEPT !.cola_READY_PRIORITARIA = s], p)
          BY <1>3, <2>2 DEF evaluar_READY_a_EXEC
      <3>2. /\ p \in Pid /\ k.estado[p] = "READY_PRIORITARIO"
            /\ Lugar(s, En(k.estado, "READY_PRIORITARIO", {}) \ {p})
          BY <1>b, <2>2, Cabeza
      <3>3. ColasDe(k.estado, k.cola_NEW, k.cola_READY, s, k.cola_RUNNING, k.bloqueados, {p})
          BY <3>2, OrdenadoTipo, ColasSaca
      <3>4. k.estado[p] \in EnSistema
          BY <3>2 DEF EnSistema
      <3> HIDE DEF p, s
      <3> QED BY <1>2, <1>3, <3>1, <3>2, <3>3, <3>4
    <2>3. CASE ~(Algoritmo = "VRR" /\ k.cola_READY_PRIORITARIA # <<>>)
      <3> DEFINE p == Head(k.cola_READY)
                 s == Tail(k.cola_READY)
      <3>0. k.cola_READY # <<>>
          BY <1>0, <2>1, <2>3 DEF KernelOK
      <3>1. k2 = Despacho([k EXCEPT !.cola_READY = s], p)
          BY <1>3, <2>3 DEF evaluar_READY_a_EXEC
      <3>2. p \in Pid /\ k.estado[p] = "READY" /\ Lugar(s, En(k.estado, "READY", {}) \ {p})
          BY <1>b, <3>0, Cabeza
      <3>3. ColasDe(k.estado, k.cola_NEW, s, k.cola_READY_PRIORITARIA, k.cola_RUNNING, k.bloqueados, {p})
          BY <3>2, OrdenadoTipo, ColasSaca
      <3>4. k.estado[p] \in EnSistema
          BY <3>2 DEF EnSistema
      <3> HIDE DEF p, s
      <3> QED BY <1>2, <1>3, <3>1, <3>2, <3>3, <3>4
    <2> QED BY <2>2, <2>3
  <1> QED BY <1>1, <1>3

(* evaluar_NEW_a_READY only makes new processes ready.                     *)
Admision(k, k2) ==
  /\ k2.contador = k.contador /\ k2.matados = k.matados /\ k2.vivo = k.vivo
  /\ k2.grado = k.grado /\ k2.pausada = k.pausada /\ k2.sirviendo = k.sirviendo
  /\ \A p \in Pid : \/ k2.estado[p] = k.estado[p]
                    \/ k.estado[p] = "NEW" /\ k2.estado[p] = "READY"

LEMMA AdmisiblesCota ==
  ASSUME NEW k, KernelOK(k)
  PROVE  Admisibles(k) \in 0 .. Len(k.cola_NEW)
  <1>1. k.cola_NEW \in Seq(Pid) /\ k.cant \in Int /\ k.grado \in Int
      BY DEF KernelOK, KernelType
  <1>2. Len(k.cola_NEW) \in Nat
      BY <1>1, LenProperties
  <1> QED BY <1>1, <1>2 DEF Admisibles

LEMMA AdmisionOrden ==
  ASSUME NEW k, Ordenado(k), NEW k2, k2 = evaluar_NEW_a_READY(k)
  PROVE  /\ Ordenado(k2) /\ Admision(k, k2) /\ Quieto(k, k2) /\ MismoSemaforo(k, k2)
  <1> DEFINE n == Admisibles(k)
             a == SubSeq(k.cola_NEW, 1, n)
             b == SubSeq(k.cola_NEW, n + 1, Len(k.cola_NEW))
             A == ToSet(a)
             est2 == [p \in Pid |-> IF p \in A THEN "READY" ELSE k.estado[p]]
  <1>0. k \in KernelType /\ KernelOK(k) /\ KernelOK(k2) /\ k.estado \in [Pid -> Estado]
      BY OrdenadoTipo, AdmisionTipo DEF Ordenado
  <1>1. n \in 0 .. Len(k.cola_NEW) /\ n \in Nat
      BY <1>0, AdmisiblesCota
  <1>2. k2 = [k EXCEPT !.cola_NEW = b, !.cola_READY = @ \o a, !.estado = est2, !.cant = @ + n]
      BY DEF evaluar_NEW_a_READY
  <1> HIDE DEF n, est2
  <1>3. /\ Lugar(k.cola_NEW, En(k.estado, "NEW", {}))
        /\ Lugar(k.cola_READY, En(k.estado, "READY", {}))
        /\ Lugar(k.cola_READY_PRIORITARIA, En(k.estado, "READY_PRIORITARIO", {}))
        /\ Lugar(k.cola_RUNNING, En(k.estado, "RUNNING", {}))
        /\ Bloqueos(En(k.estado, "BLOCKED", {}), k.bloqueados)
      BY OrdenadoTipo DEF ColasDe
  <1>4. /\ A \subseteq En(k.estado, "NEW", {})
        /\ Lugar(a, A) /\ Lugar(b, En(k.estado, "NEW", {}) \ A)
        /\ IsFiniteSet(A) /\ Cardinality(A) = n
      BY <1>1, <1>3, LugarCorte
  <1> HIDE DEF a, b, A
  <1>5. /\ k2.estado = est2 /\ k2.cola_NEW = b /\ k2.cola_READY = k.cola_READY \o a
        /\ k2.cola_READY_PRIORITARIA = k.cola_READY_PRIORITARIA
        /\ k2.bloqueados = k.bloqueados /\ k2.instancias = k.instancias
        /\ k2.cant = k.cant + n /\ k2.contador = k.contador /\ k2.matados = k.matados
        /\ k2.vivo = k.vivo /\ k2.grado = k.grado /\ k2.pausada = k.pausada
        /\ k2.parcial = k.parcial /\ k2.sirviendo = k.sirviendo
        /\ k2.cola_RUNNING = k.cola_RUNNING /\ k2.dispatch = k.dispatch
        /\ k2.hilos_respuesta = k.hilos_respuesta
      BY <1>0, <1>2 DEF KernelType
  <1>6. /\ \A p \in A : p \in Pid /\ k.estado[p] = "NEW" /\ est2[p] = "READY"
        /\ \A p \in Pid : p \notin A => est2[p] = k.estado[p]
      BY <1>4 DEF est2, En
  <1>7. /\ En(est2, "NEW", {}) = En(k.estado, "NEW", {}) \ A
        /\ En(est2, "READY", {}) = En(k.estado, "READY", {}) \cup A
        /\ En(est2, "READY_PRIORITARIO", {}) = En(k.estado, "READY_PRIORITARIO", {})
        /\ En(est2, "RUNNING", {}) = En(k.estado, "RUNNING", {})
        /\ En(est2, "BLOCKED", {}) = En(k.estado, "BLOCKED", {})
      BY <1>6 DEF En
  <1>8. Lugar(k.cola_READY \o a, En(k.estado, "READY", {}) \cup A)
    <2>1. En(k.estado, "READY", {}) \cap A = {}
        BY <1>6 DEF En
    <2> QED BY <1>3, <1>4, <2>1, LugarConcat
  <1>9. Colas(k2, {})
      BY <1>3, <1>4, <1>5, <1>7, <1>8 DEF Colas, ColasDe
  <1>10. Contados(k2)
    <2>1. Admitidos(k2) = Admitidos(k) \cup A /\ Admitidos(k) \cap A = {}
        BY <1>5, <1>6 DEF Admitidos
    <2>2. Cardinality(Admitidos(k2)) = Cardinality(Admitidos(k)) + Cardinality(A) - Cardinality({})
        BY <1>4, <2>1, Finitos, FS_Union
    <2>3. Cardinality({}) = 0
        BY FS_EmptySet
    <2>4. Cardinality(Admitidos(k2)) = Cardinality(Admitidos(k)) + n
        BY <1>1, <1>4, <2>2, <2>3, Finitos
    <2> QED BY <1>5, <2>4 DEF Ordenado, Contados, SinMatar
  <1>11. ConResto(k2)
      BY <1>5, <1>6 DEF ConResto, Ordenado
  <1>12. SinCrear(k2)
    <2>1. SinUsar(k2) = SinUsar(k)
        BY <1>5 DEF SinUsar
    <2>2. \A q \in SinUsar(k) : q \in Pid /\ k.estado[q] = "NO_CREADO" /\ q \notin A
        BY <1>6 DEF Ordenado, SinCrear, SinUsar
    <2> QED BY <1>5, <1>6, <2>1, <2>2 DEF SinCrear
  <1>13. Admision(k, k2)
    <2>1. \A p \in Pid : \/ k2.estado[p] = k.estado[p]
                         \/ k.estado[p] = "NEW" /\ k2.estado[p] = "READY"
        BY <1>5, <1>6
    <2> QED BY <1>5, <2>1 DEF Admision
  <1> QED BY <1>0, <1>5, <1>9, <1>10, <1>11, <1>12, <1>13 DEF Ordenado, Quieto, MismoSemaforo

(* The process p = Head(cola_RUNNING) lets the CPU go ...                  *)
Desaloja(k, p, v) == [cosas_vrr_cuando_se_desaloja_un_proceso(k, p, v) EXCEPT !.cola_RUNNING = Tail(@)]

MismoMarco(k, k2) ==
  /\ k2.contador = k.contador /\ k2.matados = k.matados /\ k2.vivo = k.vivo
  /\ k2.grado = k.grado /\ k2.pausada = k.pausada /\ k2.sirviendo = k.sirviendo

CamposDesaloja(k, k2, p) ==
  /\ MismoMarco(k, k2) /\ MismoSemaforo(k, k2)
  /\ k2.estado = k.estado /\ k2.cant = k.cant
  /\ k2.cola_NEW = k.cola_NEW /\ k2.cola_READY = k.cola_READY
  /\ k2.cola_READY_PRIORITARIA = k.cola_READY_PRIORITARIA
  /\ k2.cola_RUNNING = <<>> /\ k2.dispatch = k.dispatch /\ k2.hilos_respuesta = k.hilos_respuesta
  /\ \A q \in Pid : q # p => k2.parcial[q] = k.parcial[q]

LEMMA DesalojaCampos ==
  ASSUME NEW k, KernelOK(k), NEW p \in Pid, k.cola_RUNNING = <<p>>, NEW v \in BOOLEAN
  PROVE  KernelOK(Desaloja(k, p, v)) /\ CamposDesaloja(k, Desaloja(k, p, v), p)
  <1> DEFINE k1 == cosas_vrr_cuando_se_desaloja_un_proceso(k, p, v)
  <1>0. k \in KernelType
      BY DEF KernelOK
  <1>1. KernelOK(k1) /\ k1.cola_RUNNING = k.cola_RUNNING
      BY DesalojoTipo
  <1>2. /\ k1.estado = k.estado /\ k1.cant = k.cant
        /\ k1.cola_NEW = k.cola_NEW /\ k1.cola_READY = k.cola_READY
        /\ k1.cola_READY_PRIORITARIA = k.cola_READY_PRIORITARIA
        /\ k1.dispatch = k.dispatch /\ k1.hilos_respuesta = k.hilos_respuesta
        /\ \A q \in Pid : q # p => k1.parcial[q] = k.parcial[q]
      BY <1>0 DEF cosas_vrr_cuando_se_desaloja_un_proceso, KernelType
  <1>3. MismoMarco(k, k1) /\ MismoSemaforo(k, k1)
      BY <1>0 DEF cosas_vrr_cuando_se_desaloja_un_proceso, KernelType, MismoMarco, MismoSemaforo
  <1> HIDE DEF k1
  <1>4. k.cola_RUNNING # <<>> /\ Tail(k.cola_RUNNING) = <<>>
      OBVIOUS
  <1> DEFINE k2 == [k1 EXCEPT !.cola_RUNNING = Tail(@)]
  <1>5. KernelOK(k2)
      BY <1>1, <1>4, ColasTipo
  <1>6. k1 \in KernelType
      BY <1>1 DEF KernelOK
  <1>7. /\ k2.estado = k1.estado /\ k2.cant = k1.cant
        /\ k2.cola_NEW = k1.cola_NEW /\ k2.cola_READY = k1.cola_READY
        /\ k2.cola_READY_PRIORITARIA = k1.cola_READY_PRIORITARIA
        /\ k2.dispatch = k1.dispatch /\ k2.hilos_respuesta = k1.hilos_respuesta
        /\ k2.parcial = k1.parcial /\ k2.cola_RUNNING = Tail(k1.cola_RUNNING)
        /\ MismoMarco(k1, k2) /\ MismoSemaforo(k1, k2)
      BY <1>6 DEF KernelType, MismoMarco, MismoSemaforo
  <1> HIDE DEF k2
  <1>8. MismoMarco(k, k2) /\ MismoSemaforo(k, k2)
      BY <1>3, <1>7 DEF MismoMarco, MismoSemaforo
  <1>9. CamposDesaloja(k, k2, p)
      BY <1>1, <1>2, <1>4, <1>7, <1>8 DEF CamposDesaloja
  <1> QED BY <1>5, <1>9 DEF Desaloja, k1, k2

(* ... and is between two queues.                                          *)
LEMMA DesalojaColas ==
  ASSUME NEW k, Ordenado(k), NEW p \in Pid, k.cola_RUNNING = <<p>>, NEW v \in BOOLEAN,
         NEW k1, k1 = Desaloja(k, p, v)
  PROVE  /\ KernelOK(k1) /\ CamposDesaloja(k, k1, p)
         /\ k.estado[p] = "RUNNING" /\ k.estado[p] \in EnSistema
         /\ ColasDe(k.estado, k1.cola_NEW, k1.cola_READY, k1.cola_READY_PRIORITARIA, k1.cola_RUNNING,
                    k1.bloqueados, {p})
  <1>1. KernelOK(k1) /\ CamposDesaloja(k, k1, p)
      BY DesalojaCampos DEF Ordenado
  <1>2. Lugar(k.cola_RUNNING, En(k.estado, "RUNNING", {}))
      BY OrdenadoTipo DEF ColasDe
  <1>3. k.cola_RUNNING # <<>> /\ Head(k.cola_RUNNING) = p /\ Tail(k.cola_RUNNING) = <<>>
      OBVIOUS
  <1>a. /\ k.estado[Head(k.cola_RUNNING)] = "RUNNING"
        /\ Lugar(Tail(k.cola_RUNNING), En(k.estado, "RUNNING", {}) \ {Head(k.cola_RUNNING)})
      BY <1>2, <1>3, Cabeza
  <1>4. k.estado[p] = "RUNNING" /\ Lugar(<<>>, En(k.estado, "RUNNING", {}) \ {p})
      BY <1>a, <1>3
  <1>5. ColasDe(k.estado, k.cola_NEW, k.cola_READY, k.cola_READY_PRIORITARIA, <<>>, k.bloqueados, {p})
      BY <1>4, OrdenadoTipo, ColasSaca
  <1> QED BY <1>1, <1>4, <1>5 DEF CamposDesaloja, MismoSemaforo, EnSistema

(* A_READY puts p in one of the ready queues.                              *)
CamposAReady(k, k2, p, e) ==
  /\ MismoMarco(k, k2) /\ MismoSemaforo(k, k2) /\ Quieto(k, k2)
  /\ k2.estado = [k.estado EXCEPT ![p] = e] /\ k2.cant = k.cant
  /\ k2.cola_NEW = k.cola_NEW /\ k2.parcial = k.parcial
  /\ \/ /\ e = "READY"
        /\ k2.cola_READY = Append(k.cola_READY, p)
        /\ k2.cola_READY_PRIORITARIA = k.cola_READY_PRIORITARIA
     \/ /\ e = "READY_PRIORITARIO" /\ k.parcial[p]
        /\ k2.cola_READY = k.cola_READY
        /\ k2.cola_READY_PRIORITARIA = Append(k.cola_READY_PRIORITARIA, p)

LEMMA AReadyCampos ==
  ASSUME NEW k \in KernelType, NEW p \in Pid
  PROVE  \E e \in EnSistema : CamposAReady(k, A_READY(k, p), p, e)
  <1>1. CASE debe_ir_a_cola_prioritaria(k, p)
    <2>1. A_READY(k, p) = [k EXCEPT !.estado[p] = "READY_PRIORITARIO",
                                    !.cola_READY_PRIORITARIA = Append(@, p)]
        BY <1>1 DEF A_READY
    <2>2. k.parcial[p]
        BY <1>1 DEF debe_ir_a_cola_prioritaria
    <2>3. CamposAReady(k, A_READY(k, p), p, "READY_PRIORITARIO")
        BY <2>1, <2>2 DEF KernelType, CamposAReady, MismoMarco, MismoSemaforo, Quieto
    <2> QED BY <2>3 DEF EnSistema
  <1>2. CASE ~debe_ir_a_cola_prioritaria(k, p)
    <2>1. A_READY(k, p) = [k EXCEPT !.estado[p] = "READY", !.cola_READY = Append(@, p)]
        BY <1>2 DEF A_READY
    <2>2. CamposAReady(k, A_READY(k, p), p, "READY")
        BY <2>1 DEF KernelType, CamposAReady, MismoMarco, MismoSemaforo, Quieto
    <2> QED BY <2>2 DEF EnSistema
  <1> QED BY <1>1, <1>2

(* From k to k1 the process p left its queue; A_READY(k1, p) restores order.*)
LEMMA AReadyOrden ==
  ASSUME NEW k, Ordenado(k), NEW k1, KernelOK(k1), NEW p \in Pid, k.estado[p] \in EnSistema,
         MismoMarco(k, k1), k1.estado = k.estado, k1.cant = k.cant,
         \A q \in Pid : q # p => k1.parcial[q] = k.parcial[q],
         ColasDe(k.estado, k1.cola_NEW, k1.cola_READY, k1.cola_READY_PRIORITARIA, k1.cola_RUNNING,
                 k1.bloqueados, {p}),
         NEW k2, k2 = A_READY(k1, p)
  PROVE  /\ Ordenado(k2) /\ Fijo(k, k2) /\ MismoMarco(k1, k2) /\ MismoSemaforo(k1, k2)
         /\ Quieto(k1, k2) /\ k2.cant = k1.cant
  <1>0. KernelOK(k2) /\ k1 \in KernelType
      BY AReadyTipo DEF KernelOK
  <1>1. PICK e \in EnSistema : CamposAReady(k1, k2, p, e)
      BY <1>0, AReadyCampos
  <1>2. k.estado \in [Pid -> Estado] /\ k1.bloqueados \in [Clave -> Seq(Pid)]
      BY <1>0, OrdenadoTipo DEF KernelType
  <1>3. /\ k2.bloqueados = k1.bloqueados /\ k2.cola_RUNNING = k1.cola_RUNNING
        /\ k2.estado = [k.estado EXCEPT ![p] = e] /\ k2.cola_NEW = k1.cola_NEW
      BY <1>1 DEF CamposAReady, MismoSemaforo, Quieto
  <1>4. Colas(k2, {})
    <2>1. CASE e = "READY" /\ k2.cola_READY = Append(k1.cola_READY, p)
               /\ k2.cola_READY_PRIORITARIA = k1.cola_READY_PRIORITARIA
      <3>1. ColasDe([k.estado EXCEPT ![p] = "READY"], k1.cola_NEW, Append(k1.cola_READY, p),
                    k1.cola_READY_PRIORITARIA, k1.cola_RUNNING, k1.bloqueados, {})
          BY <1>2, ColasPone
      <3> QED BY <1>3, <2>1, <3>1 DEF Colas
    <2>2. CASE e = "READY_PRIORITARIO" /\ k2.cola_READY = k1.cola_READY
               /\ k2.cola_READY_PRIORITARIA = Append(k1.cola_READY_PRIORITARIA, p)
      <3>1. ColasDe([k.estado EXCEPT ![p] = "READY_PRIORITARIO"], k1.cola_NEW, k1.cola_READY,
                    Append(k1.cola_READY_PRIORITARIA, p), k1.cola_RUNNING, k1.bloqueados, {})
          BY <1>2, ColasPone
      <3> QED BY <1>3, <2>2, <3>1 DEF Colas
    <2> QED BY <1>1, <2>1, <2>2 DEF CamposAReady
  <1>5. /\ k2.cant = k.cant /\ k2.contador = k.contador /\ k2.matados = k.matados
        /\ k2.vivo = k.vivo /\ k2.grado = k.grado /\ k2.pausada = k.pausada
        /\ \A q \in Pid : q # p => k2.parcial[q] = k.parcial[q]
        /\ e = "READY_PRIORITARIO" => k2.parcial[p]
      BY <1>1 DEF CamposAReady, MismoMarco
  <1>6. Ordenado(k2) /\ Fijo(k, k2)
      BY <1>0, <1>3, <1>4, <1>5, Movida
  <1> QED BY <1>1, <1>6 DEF CamposAReady

(***************************************************************************)
(* The token: what the CPU, its messages and the threads that answer them  *)
(* agree on.                                                               *)
(***************************************************************************)
SinHilos(k) == \A q \in Pid : k.hilos_respuesta[q] = 0
Ociosa(k)   == k.cola_RUNNING = <<>> /\ SinHilos(k)
Corre(k, p) == /\ k.cola_RUNNING = <<p>>
               /\ \A q \in Pid : k.hilos_respuesta[q] = IF q = p THEN 1 ELSE 0

(* Nobody runs, or somebody whose pcb is on its way after the messages d.  *)
Entrega(k, d) ==
  \/ Ociosa(k) /\ k.dispatch = d
  \/ \E p \in Pid : Corre(k, p) /\ k.dispatch = Append(d, PCB(p))

LEMMA PasoEntrega ==
  ASSUME NEW k, Ordenado(k), NEW k2, Paso(k, k2), NEW d, Entrega(k, d)
  PROVE  Entrega(k2, d)
  <1>0. k.hilos_respuesta \in [Pid -> Nat]
      BY OrdenadoTipo
  <1>1. CASE Quieto(k, k2)
      BY <1>1 DEF Quieto, Entrega, Ociosa, Corre, SinHilos
  <1>2. CASE Despachado(k, k2)
    <2>1. Ociosa(k) /\ k.dispatch = d
        BY <1>2 DEF Despachado, Entrega, Corre
    <2>2. PICK p \in Pid : /\ k2.cola_RUNNING = <<p>>
                           /\ k2.dispatch = Append(d, PCB(p))
                           /\ k2.hilos_respuesta = [k.hilos_respuesta EXCEPT ![p] = @ + 1]
        BY <1>2, <2>1 DEF Despachado
    <2>3. \A q \in Pid : k2.hilos_respuesta[q] = IF q = p THEN 1 ELSE 0
        BY <1>0, <2>1, <2>2 DEF Ociosa, SinHilos
    <2> QED BY <2>2, <2>3 DEF Entrega, Corre
  <1> QED BY <1>1, <1>2 DEF Paso

LEMMA PasoCorre ==
  ASSUME NEW k, NEW k2, Paso(k, k2), NEW p \in Pid, Corre(k, p)
  PROVE  Corre(k2, p) /\ k2.dispatch = k.dispatch
  BY DEF Paso, Despachado, Quieto, Corre

(* The CPU is not left idle with somebody ready to run.                    *)
SinListos(k) ==
  ~k.pausada /\ k.cola_RUNNING = <<>> => k.cola_READY = <<>> /\ k.cola_READY_PRIORITARIA = <<>>

(* A resource has at most as many instances owed as processes that wait,   *)
(* c being one short of its last process.                                  *)
SemSalvo(k, c) ==
  \A r \in Recurso : -k.instancias[r] <= Len(k.bloqueados[r]) + (IF r = c THEN 1 ELSE 0)
Sem(k) == \A r \in Recurso : -k.instancias[r] <= Len(k.bloqueados[r])

LEMMA SemMismo ==
  ASSUME NEW k, Sem(k), NEW k2, MismoSemaforo(k, k2)
  PROVE  Sem(k2)
  BY DEF Sem, MismoSemaforo

LEMMA FijoSigue ==
  ASSUME NEW k, NEW k1, NEW k2, Fijo(k, k1), Fijo(k1, k2)
  PROVE  Fijo(k, k2)
  BY DEF Fijo

(* evaluar_EXEC_a_READY takes the CPU from p and gives it to the next one. *)
LEMMA ExecReady ==
  ASSUME NEW k, Ordenado(k), NEW p \in Pid, k.cola_RUNNING = <<p>>, SinHilos(k),
         NEW v \in BOOLEAN, NEW k3, k3 = evaluar_EXEC_a_READY(k, v)
  PROVE  /\ Ordenado(k3) /\ Fijo(k, k3) /\ Entrega(k3, k.dispatch) /\ MismoSemaforo(k, k3)
         /\ k3.sirviendo = k.sirviendo /\ SinListos(k3)
  <1> DEFINE k1 == Desaloja(k, p, v)
             k2 == A_READY(k1, p)
  <1>0. k.cola_RUNNING # <<>> /\ Head(k.cola_RUNNING) = p
      OBVIOUS
  <1>1. k3 = evaluar_READY_a_EXEC(k2)
      BY <1>0 DEF evaluar_EXEC_a_READY, Desaloja
  <1>2. /\ KernelOK(k1) /\ CamposDesaloja(k, k1, p)
        /\ k.estado[p] = "RUNNING" /\ k.estado[p] \in EnSistema
        /\ ColasDe(k.estado, k1.cola_NEW, k1.cola_READY, k1.cola_READY_PRIORITARIA, k1.cola_RUNNING,
                   k1.bloqueados, {p})
      BY DesalojaColas
  <1> HIDE DEF k1
  <1>3. /\ Ordenado(k2) /\ Fijo(k, k2) /\ MismoMarco(k1, k2) /\ MismoSemaforo(k1, k2)
        /\ Quieto(k1, k2)
      BY <1>2, AReadyOrden DEF CamposDesaloja
  <1> HIDE DEF k2
  <1>4. /\ Ordenado(k3) /\ Fijo(k2, k3) /\ MismoSemaforo(k2, k3) /\ Paso(k2, k3)
        /\ k3.sirviendo = k2.sirviendo /\ SinListos(k3)
    <2>1. k3.pausada = k2.pausada
        BY <1>1, <1>3, ReadyExec DEF Fijo
    <2> QED BY <1>1, <1>3, <2>1, ReadyExec DEF SinListos
  <1>5. Ociosa(k2) /\ k2.dispatch = k.dispatch
      BY <1>2, <1>3 DEF CamposDesaloja, Quieto, Ociosa, SinHilos
  <1>6. Entrega(k3, k.dispatch)
    <2>1. Entrega(k2, k.dispatch)
        BY <1>5 DEF Entrega
    <2> QED BY <1>3, <1>4, <2>1, PasoEntrega
  <1>7. Fijo(k, k3)
      BY <1>3, <1>4, FijoSigue
  <1>8. MismoSemaforo(k, k3) /\ k3.sirviendo = k.sirviendo
      BY <1>2, <1>3, <1>4 DEF MismoSemaforo, MismoMarco, CamposDesaloja
  <1> QED BY <1>4, <1>6, <1>7, <1>8

(* p blocks on clave.                                                      *)
Bloquea(k1, p, clave) ==
  [k1 EXCEPT !.estado[p] = "BLOCKED",
             !.bloqueados[clave] = Append(@, p),
             !.binario = IF clave \in Interfaz THEN [@ EXCEPT ![clave] = TRUE] ELSE @]

CamposBloquea(k1, k2, p, clave) ==
  /\ MismoMarco(k1, k2) /\ Quieto(k1, k2)
  /\ k2.estado = [k1.estado EXCEPT ![p] = "BLOCKED"] /\ k2.cant = k1.cant
  /\ k2.bloqueados = [k1.bloqueados EXCEPT ![clave] = Append(@, p)]
  /\ k2.instancias = k1.instancias
  /\ k2.cola_NEW = k1.cola_NEW /\ k2.cola_READY = k1.cola_READY
  /\ k2.cola_READY_PRIORITARIA = k1.cola_READY_PRIORITARIA
  /\ k2.parcial = k1.parcial

LEMMA BloqueaCampos ==
  ASSUME NEW k1, KernelOK(k1), NEW p \in Pid, NEW clave \in Clave
  PROVE  KernelOK(Bloquea(k1, p, clave)) /\ CamposBloquea(k1, Bloquea(k1, p, clave), p, clave)
  <1>0. k1 \in KernelType
      BY DEF KernelOK
  <1>6. Append(k1.bloqueados[clave], p) \in Seq(Pid)
      BY <1>0, AppendProperties DEF KernelType
  <1>7. [k1.bloqueados EXCEPT ![clave] = Append(@, p)] \in [Clave -> Seq(Pid)]
      BY <1>0, <1>6 DEF KernelType
  <1>8. [k1.estado EXCEPT ![p] = "BLOCKED"] \in [Pid -> Estado]
      BY <1>0 DEF KernelType, Estado
  <1>9. IF clave \in Interfaz THEN [k1.binario EXCEPT ![clave] = TRUE] \in [Interfaz -> BOOLEAN]
        ELSE k1.binario \in [Interfaz -> BOOLEAN]
      BY <1>0 DEF KernelType
  <1>10. KernelOK(Bloquea(k1, p, clave))
      BY <1>0, <1>7, <1>8, <1>9 DEF KernelOK, KernelType, Bloquea
  <1>11. CamposBloquea(k1, Bloquea(k1, p, clave), p, clave)
      BY <1>0 DEF KernelType, Bloquea, CamposBloquea, MismoMarco, Quieto
  <1> QED BY <1>10, <1>11

LEMMA ExecBlocked ==
  ASSUME NEW k, Ordenado(k), NEW p \in Pid, k.cola_RUNNING = <<p>>, SinHilos(k),
         NEW clave \in Clave, NEW v \in BOOLEAN, NEW k3, k3 = evaluar_EXEC_a_BLOCKED(k, clave, v)
  PROVE  /\ Ordenado(k3) /\ Fijo(k, k3) /\ Entrega(k3, k.dispatch)
         /\ SemSalvo(k, clave) => Sem(k3)
         /\ k3.bloqueados = [k.bloqueados EXCEPT ![clave] = Append(@, p)]
         /\ k3.sirviendo = k.sirviendo /\ SinListos(k3)
  <1> DEFINE k1 == Desaloja(k, p, v)
             k2 == Bloquea(k1, p, clave)
  <1>0. k.cola_RUNNING # <<>> /\ Head(k.cola_RUNNING) = p
      OBVIOUS
  <1>a. k \in KernelType /\ k.estado \in [Pid -> Estado]
      BY OrdenadoTipo
  <1>1. k3 = evaluar_READY_a_EXEC(k2)
    <2> DEFINE k0 == cosas_vrr_cuando_se_desaloja_un_proceso(k, p, v)
               k4 == [k0 EXCEPT !.cola_RUNNING = Tail(@),
                        !.estado[p] = "BLOCKED",
                        !.bloqueados[clave] = Append(@, p),
                        !.binario = IF clave \in Interfaz THEN [@ EXCEPT ![clave] = TRUE] ELSE @]
    <2>1. k3 = evaluar_READY_a_EXEC(k4)
        BY <1>0 DEF evaluar_EXEC_a_BLOCKED
    <2>2. k0 \in KernelType
        BY DesalojoTipo DEF Ordenado, KernelOK
    <2>3. k4 = k2
      <3> HIDE DEF k0
      <3>1. k1 = [k0 EXCEPT !.cola_RUNNING = Tail(@)]
          BY DEF Desaloja, k0
      <3> HIDE DEF k1
      <3> QED BY <2>2, <3>1 DEF KernelType, Bloquea
    <2> QED BY <2>1, <2>3
  <1>2. /\ KernelOK(k1) /\ CamposDesaloja(k, k1, p)
        /\ k.estado[p] = "RUNNING" /\ k.estado[p] \in EnSistema
        /\ ColasDe(k.estado, k1.cola_NEW, k1.cola_READY, k1.cola_READY_PRIORITARIA, k1.cola_RUNNING,
                   k1.bloqueados, {p})
      BY DesalojaColas
  <1> HIDE DEF k1
  <1>b. k1.estado = k.estado /\ k1.cant = k.cant /\ k1.bloqueados = k.bloqueados
        /\ k1.bloqueados \in [Clave -> Seq(Pid)] /\ k1.instancias = k.instancias
        /\ \A q \in Pid : q # p => k1.parcial[q] = k.parcial[q]
      BY <1>2, OrdenadoTipo DEF CamposDesaloja, MismoSemaforo
  <1>3. KernelOK(k2) /\ CamposBloquea(k1, k2, p, clave)
      BY <1>2, BloqueaCampos
  <1> HIDE DEF k2
  <1>4. Ordenado(k2) /\ Fijo(k, k2)
    <2>1. Colas(k2, {})
      <3>1. ColasDe([k.estado EXCEPT ![p] = "BLOCKED"], k1.cola_NEW, k1.cola_READY,
                    k1.cola_READY_PRIORITARIA, k1.cola_RUNNING,
                    [k1.bloqueados EXCEPT ![clave] = Append(@, p)], {})
          BY <1>2, <1>a, <1>b, ColasPone
      <3> QED BY <1>3, <1>b, <3>1 DEF Colas, CamposBloquea, Quieto
    <2>2. "BLOCKED" \in EnSistema
        BY DEF EnSistema
    <2>3. /\ k2.cant = k.cant /\ k2.contador = k.contador /\ k2.matados = k.matados
          /\ k2.vivo = k.vivo /\ k2.grado = k.grado /\ k2.pausada = k.pausada
          /\ k2.estado = [k.estado EXCEPT ![p] = "BLOCKED"]
          /\ \A q \in Pid : q # p => k2.parcial[q] = k.parcial[q]
        BY <1>2, <1>3, <1>b DEF CamposBloquea, CamposDesaloja, MismoMarco
    <2> QED BY <1>2, <1>3, <2>1, <2>2, <2>3, Movida
  <1>5. /\ Ordenado(k3) /\ Fijo(k2, k3) /\ MismoSemaforo(k2, k3) /\ Paso(k2, k3)
        /\ k3.sirviendo = k2.sirviendo /\ SinListos(k3)
    <2>1. k3.pausada = k2.pausada
        BY <1>1, <1>4, ReadyExec DEF Fijo
    <2> QED BY <1>1, <1>4, <2>1, ReadyExec DEF SinListos
  <1>6. Entrega(k3, k.dispatch)
    <2>1. Ociosa(k2) /\ k2.dispatch = k.dispatch
        BY <1>2, <1>3 DEF CamposDesaloja, CamposBloquea, Quieto, Ociosa, SinHilos
    <2>2. Entrega(k2, k.dispatch)
        BY <2>1 DEF Entrega
    <2> QED BY <1>4, <1>5, <2>2, PasoEntrega
  <1>7. Fijo(k, k3)
      BY <1>4, <1>5, FijoSigue
  <1>8. /\ k3.bloqueados = [k.bloqueados EXCEPT ![clave] = Append(@, p)]
        /\ k3.instancias = k.instancias
      BY <1>3, <1>5, <1>b DEF CamposBloquea, MismoSemaforo
  <1>9. SemSalvo(k, clave) => Sem(k3)
    <2>1. \A c \in Clave : k.bloqueados[c] \in Seq(Pid)
        BY <1>b
    <2>2. \A r \in Recurso : r \in Clave /\ Len(k3.bloqueados[r]) = Len(k.bloqueados[r]) + (IF r = clave THEN 1 ELSE 0)
      <3>1. Len(Append(k.bloqueados[clave], p)) = Len(k.bloqueados[clave]) + 1
          BY <2>1, AppendProperties
      <3>2. \A c \in Clave : Len(k.bloqueados[c]) \in Nat
          BY <2>1, LenProperties
      <3>3. /\ k3.bloqueados[clave] = Append(k.bloqueados[clave], p)
            /\ \A c \in Clave : c # clave => k3.bloqueados[c] = k.bloqueados[c]
          BY <1>8, <1>b
      <3>4. \A r \in Recurso : r \in Clave
          BY DEF Clave
      <3>5. Len(k3.bloqueados[clave]) = Len(k.bloqueados[clave]) + 1
          BY <3>1, <3>3
      <3>6. ASSUME NEW r \in Recurso
            PROVE  r \in Clave /\ Len(k3.bloqueados[r]) = Len(k.bloqueados[r]) + (IF r = clave THEN 1 ELSE 0)
        <4>1. CASE r = clave
            BY <3>5, <4>1
        <4>2. CASE r # clave
          <5>1. k3.bloqueados[r] = k.bloqueados[r] /\ Len(k.bloqueados[r]) \in Nat
              BY <3>2, <3>3, <3>4, <4>2
          <5>2. \A n \in Nat : n = n + 0
              OBVIOUS
          <5> QED BY <3>4, <4>2, <5>1, <5>2
        <4> QED BY <4>1, <4>2
      <3> QED BY <3>6
    <2> QED BY <1>8, <2>2 DEF Sem, SemSalvo
  <1>10. k3.sirviendo = k.sirviendo
      BY <1>2, <1>3, <1>5 DEF CamposDesaloja, CamposBloquea, MismoMarco
  <1> QED BY <1>5, <1>6, <1>7, <1>8, <1>9, <1>10

(* The two planners.  Who finished stays so, and a step of theirs leaves   *)
(* the CPU idle only if all who are ready were new before it.              *)
Avance(k, k2) ==
  /\ k2.contador = k.contador /\ k2.matados = k.matados /\ k2.vivo = k.vivo
  /\ k2.grado = k.grado /\ k2.pausada = k.pausada
  /\ \A p \in Pid : k.estado[p] = "EXIT" => k2.estado[p] = "EXIT"

Ocupa(k, k2) ==
  ~k2.pausada /\ k2.cola_RUNNING = <<>>
    => \A p \in Pid : k2.estado[p] \in {"READY", "READY_PRIORITARIO"} => k.estado[p] = "NEW"

LEMMA FijoAvance ==
  ASSUME NEW k, NEW k2, Fijo(k, k2)
  PROVE  Avance(k, k2)
  BY DEF Fijo, Avance

LEMMA ListosVacios ==
  ASSUME NEW k, Ordenado(k), SinListos(k), ~k.pausada, k.cola_RUNNING = <<>>, NEW p \in Pid
  PROVE  k.estado[p] \notin {"READY", "READY_PRIORITARIO"}
  <1>1. k.cola_READY = <<>> /\ k.cola_READY_PRIORITARIA = <<>>
      BY DEF SinListos
  <1>2. /\ Lugar(k.cola_READY, En(k.estado, "READY", {}))
        /\ Lugar(k.cola_READY_PRIORITARIA, En(k.estado, "READY_PRIORITARIO", {}))
      BY OrdenadoTipo DEF ColasDe
  <1>3. ToSet(<<>>) = {}
      BY LugarVacio DEF Lugar
  <1>4. ToSet(k.cola_READY) = {} /\ ToSet(k.cola_READY_PRIORITARIA) = {}
      BY <1>1, <1>3
  <1>5. En(k.estado, "READY", {}) = {} /\ En(k.estado, "READY_PRIORITARIO", {}) = {}
      BY <1>2, <1>4 DEF Lugar
  <1> QED BY <1>5 DEF En

LEMMA ListosOcupa ==
  ASSUME NEW k, NEW k2, Ordenado(k2), Fijo(k, k2), SinListos(k2)
  PROVE  Ocupa(k, k2)
  BY ListosVacios DEF Ocupa

LEMMA PlanificarOrden ==
  ASSUME NEW k0, NEW k, Ordenado(k), Fijo(k0, k), NEW k2, k2 = Planificar(k)
  PROVE  /\ Ordenado(k2) /\ Avance(k0, k2) /\ Ocupa(k0, k2) /\ Paso(k, k2)
         /\ MismoSemaforo(k, k2) /\ k2.sirviendo = k.sirviendo
  <1> DEFINE k1 == evaluar_READY_a_EXEC(k)
  <1>1. /\ Ordenado(k1) /\ Fijo(k, k1) /\ MismoSemaforo(k, k1) /\ Paso(k, k1)
        /\ k1.sirviendo = k.sirviendo /\ SinListos(k1)
    <2>1. k1.pausada = k.pausada
        BY ReadyExec DEF Fijo
    <2> QED BY <2>1, ReadyExec DEF SinListos
  <1>2. k2 = evaluar_NEW_a_READY(k1)
      BY DEF Planificar
  <1> HIDE DEF k1
  <1>3. Ordenado(k2) /\ Admision(k1, k2) /\ Quieto(k1, k2) /\ MismoSemaforo(k1, k2)
      BY <1>1, <1>2, AdmisionOrden
  <1>4. Fijo(k0, k1)
      BY <1>1, FijoSigue
  <1>5. Avance(k0, k2)
      BY <1>3, <1>4 DEF Fijo, Admision, Avance
  <1>6. Ocupa(k0, k2)
    <2> SUFFICES ASSUME ~k2.pausada, k2.cola_RUNNING = <<>>, NEW p \in Pid,
                        k2.estado[p] \in {"READY", "READY_PRIORITARIO"}
                 PROVE  k0.estado[p] = "NEW"
        BY DEF Ocupa
    <2>1. ~k1.pausada /\ k1.cola_RUNNING = <<>>
        BY <1>3 DEF Admision, Quieto
    <2>2. k1.estado[p] \notin {"READY", "READY_PRIORITARIO"}
        BY <1>1, <2>1, ListosVacios
    <2>3. k1.estado[p] = "NEW"
        BY <1>3, <2>2 DEF Admision
    <2> QED BY <1>4, <2>3 DEF Fijo
  <1>7. Paso(k, k2)
      BY <1>1, <1>3 DEF Paso, Quieto, Despachado
  <1>8. MismoSemaforo(k, k2) /\ k2.sirviendo = k.sirviendo
      BY <1>1, <1>3 DEF MismoSemaforo, Admision
  <1> QED BY <1>3, <1>5, <1>6, <1>7, <1>8

LEMMA SigueMuerto ==
  ASSUME NEW k, Ordenado(k), NEW p \in Pid, k.estado[p] = "EXIT"
  PROVE  Planificar(k).estado[p] = "EXIT"
  <1>1. Fijo(k, k)
      BY DEF Fijo
  <1>2. Avance(k, Planificar(k))
      BY <1>1, PlanificarOrden
  <1> QED BY <1>2 DEF Avance

(* p finishes: out of its queue already, marked and discounted.            *)
Marca(k, p) == [k EXCEPT !.estado[p] = "EXIT", !.cant = @ - 1]

CamposMarca(k, k2, p) ==
  /\ MismoMarco(k, k2) /\ MismoSemaforo(k, k2) /\ Quieto(k, k2)
  /\ k2.estado = [k.estado EXCEPT ![p] = "EXIT"] /\ k2.cant = k.cant - 1
  /\ k2.cola_NEW = k.cola_NEW /\ k2.cola_READY = k.cola_READY
  /\ k2.cola_READY_PRIORITARIA = k.cola_READY_PRIORITARIA
  /\ k2.parcial = k.parcial

LEMMA MarcaCampos ==
  ASSUME NEW k \in KernelType, NEW p \in Pid
  PROVE  CamposMarca(k, Marca(k, p), p)
  BY DEF KernelType, CamposMarca, Marca, MismoMarco, MismoSemaforo, Quieto

LEMMA ExecExit ==
  ASSUME NEW k, Ordenado(k), NEW p \in Pid, k.cola_RUNNING = <<p>>, SinHilos(k),
         NEW v \in BOOLEAN, NEW k3, k3 = evaluar_EXEC_a_EXIT(k, v)
  PROVE  /\ Ordenado(k3) /\ Avance(k, k3) /\ Ocupa(k, k3) /\ Entrega(k3, k.dispatch)
         /\ MismoSemaforo(k, k3) /\ k3.sirviendo = k.sirviendo /\ k3.estado[p] = "EXIT"
  <1> DEFINE k1 == Desaloja(k, p, v)
             k2 == Marca(k1, p)
  <1>0. k.cola_RUNNING # <<>> /\ Head(k.cola_RUNNING) = p
      OBVIOUS
  <1>a. k \in KernelType /\ k.estado \in [Pid -> Estado]
      BY OrdenadoTipo
  <1>2. /\ KernelOK(k1) /\ CamposDesaloja(k, k1, p)
        /\ k.estado[p] = "RUNNING" /\ k.estado[p] \in EnSistema
        /\ ColasDe(k.estado, k1.cola_NEW, k1.cola_READY, k1.cola_READY_PRIORITARIA, k1.cola_RUNNING,
                   k1.bloqueados, {p})
      BY DesalojaColas
  <1>1. k3 = Planificar(k2)
    <2> DEFINE k0 == cosas_vrr_cuando_se_desaloja_un_proceso(k, p, v)
               k4 == [k0 EXCEPT !.cola_RUNNING = Tail(@), !.estado[p] = "EXIT", !.cant = @ - 1]
    <2>1. k3 = Planificar(k4)
        BY <1>0, <1>2 DEF evaluar_EXEC_a_EXIT, Planificar
    <2>2. k0 \in KernelType
        BY DesalojoTipo DEF Ordenado, KernelOK
    <2>3. k4 = k2
      <3> HIDE DEF k0
      <3>1. k1 = [k0 EXCEPT !.cola_RUNNING = Tail(@)]
          BY DEF Desaloja, k0
      <3> HIDE DEF k1
      <3> QED BY <2>2, <3>1 DEF KernelType, Marca
    <2> QED BY <2>1, <2>3
  <1> HIDE DEF k1
  <1>b. k1.estado = k.estado /\ k1.cant = k.cant /\ k1.bloqueados \in [Clave -> Seq(Pid)]
        /\ \A q \in Pid : q # p => k1.parcial[q] = k.parcial[q]
      BY <1>2, OrdenadoTipo DEF CamposDesaloja, MismoSemaforo
  <1>3. KernelOK(k2) /\ CamposMarca(k1, k2, p)
    <2>1. k1 \in KernelType
        BY <1>2 DEF KernelOK
    <2>2. KernelOK(k2)
        BY <1>2, TerminaTipo DEF Marca
    <2> QED BY <2>1, <2>2, MarcaCampos
  <1> HIDE DEF k2
  <1>4. Ordenado(k2) /\ Fijo(k, k2)
    <2>1. Colas(k2, {})
      <3>1. ColasDe([k.estado EXCEPT ![p] = "EXIT"], k1.cola_NEW, k1.cola_READY,
                    k1.cola_READY_PRIORITARIA, k1.cola_RUNNING, k1.bloqueados, {})
          BY <1>2, <1>a, <1>b, ColasPone
      <3> QED BY <1>3, <1>b, <3>1 DEF Colas, CamposMarca, MismoSemaforo, Quieto
    <2>3. /\ k2.cant = k.cant - 1 /\ k2.contador = k.contador /\ k2.matados = k.matados
          /\ k2.vivo = k.vivo /\ k2.grado = k.grado /\ k2.pausada = k.pausada
          /\ k2.estado = [k.estado EXCEPT ![p] = "EXIT"]
          /\ \A q \in Pid : q # p => k2.parcial[q] = k.parcial[q]
        BY <1>2, <1>3, <1>b DEF CamposMarca, CamposDesaloja, MismoMarco
    <2> QED BY <1>2, <1>3, <2>1, <2>3, Salida
  <1>5. /\ Ordenado(k3) /\ Avance(k, k3) /\ Ocupa(k, k3) /\ Paso(k2, k3)
        /\ MismoSemaforo(k2, k3) /\ k3.sirviendo = k2.sirviendo
      BY <1>1, <1>4, PlanificarOrden
  <1>6. Entrega(k3, k.dispatch)
    <2>1. Ociosa(k2) /\ k2.dispatch = k.dispatch
        BY <1>2, <1>3 DEF CamposDesaloja, CamposMarca, Quieto, Ociosa, SinHilos
    <2>2. Entrega(k2, k.dispatch)
        BY <2>1 DEF Entrega
    <2> QED BY <1>4, <1>5, <2>2, PasoEntrega
  <1>7. MismoSemaforo(k, k3) /\ k3.sirviendo = k.sirviendo
      BY <1>2, <1>3, <1>5 DEF CamposDesaloja, CamposMarca, MismoSemaforo, MismoMarco
  <1>8. k3.estado[p] = "EXIT"
    <2>1. k2.estado[p] = "EXIT"
        BY <1>a, <1>b, <1>3 DEF CamposMarca
    <2> QED BY <1>1, <1>4, <2>1, SigueMuerto
  <1> QED BY <1>5, <1>6, <1>7, <1>8

(* The head of a queue of blocked processes.                               *)
LEMMA CabezaBloqueada ==
  ASSUME NEW k, Ordenado(k), NEW c \in Clave
  PROVE  /\ Lugar(k.bloqueados[c], ToSet(k.bloqueados[c])) /\ k.bloqueados[c] \in Seq(Pid)
         /\ \A p \in ToSet(k.bloqueados[c]) :
              /\ p \in Pid /\ k.estado[p] = "BLOCKED"
              /\ \A d \in Clave : p \in ToSet(k.bloqueados[d]) => d = c
         /\ k.bloqueados[c] # <<>> =>
              /\ Head(k.bloqueados[c]) \in ToSet(k.bloqueados[c])
              /\ Lugar(Tail(k.bloqueados[c]), ToSet(k.bloqueados[c]) \ {Head(k.bloqueados[c])})
  <1>1. Bloqueos(En(k.estado, "BLOCKED", {}), k.bloqueados) /\ k.bloqueados[c] \in Seq(Pid)
      BY OrdenadoTipo DEF ColasDe
  <1>2. Lugar(k.bloqueados[c], ToSet(k.bloqueados[c]))
      BY <1>1 DEF Bloqueos
  <1>3. ASSUME NEW p \in ToSet(k.bloqueados[c])
        PROVE  /\ p \in Pid /\ k.estado[p] = "BLOCKED"
               /\ \A d \in Clave : p \in ToSet(k.bloqueados[d]) => d = c
    <2>1. p \in En(k.estado, "BLOCKED", {})
        BY <1>1 DEF Bloqueos
    <2>2. p \in Pid
        BY <1>1, EnLugar
    <2>3. \A d \in Clave : p \in ToSet(k.bloqueados[d]) => d = c
        BY <1>1, <2>2 DEF Bloqueos
    <2> QED BY <2>1, <2>2, <2>3 DEF En
  <1>4. k.bloqueados[c] # <<>> =>
          /\ Head(k.bloqueados[c]) \in ToSet(k.bloqueados[c])
          /\ Lugar(Tail(k.bloqueados[c]), ToSet(k.bloqueados[c]) \ {Head(k.bloqueados[c])})
      BY <1>2, LugarTail
  <1> QED BY <1>1, <1>2, <1>3, <1>4

(* evaluar_BLOCKED_a_READY wakes the first of the queue.                   *)
Despierta(k, c) ==
  [k EXCEPT !.bloqueados[c] = Tail(@),
            !.tiene = IF c \in Recurso THEN [@ EXCEPT ![c] = DarUna(k, c, Head(k.bloqueados[c]))] ELSE @]

CamposDespierta(k, k1, c) ==
  /\ MismoMarco(k, k1) /\ Quieto(k, k1)
  /\ k1.estado = k.estado /\ k1.cant = k.cant /\ k1.instancias = k.instancias
  /\ k1.bloqueados = [k.bloqueados EXCEPT ![c] = Tail(@)]
  /\ k1.cola_NEW = k.cola_NEW /\ k1.cola_READY = k.cola_READY
  /\ k1.cola_READY_PRIORITARIA = k.cola_READY_PRIORITARIA
  /\ k1.parcial = k.parcial

LEMMA DespiertaCampos ==
  ASSUME NEW k, KernelOK(k), NEW c \in Clave, k.bloqueados[c] # <<>>
  PROVE  KernelOK(Despierta(k, c)) /\ CamposDespierta(k, Despierta(k, c), c)
  <1> DEFINE p  == Head(k.bloqueados[c])
             ti == IF c \in Recurso THEN [k.tiene EXCEPT ![c] = DarUna(k, c, p)] ELSE k.tiene
             k1 == [k EXCEPT !.bloqueados[c] = Tail(@), !.tiene = ti]
  <1>a. k \in KernelType
      BY DEF KernelOK
  <1>1. k.bloqueados[c] \in Seq(Pid)
      BY <1>a DEF KernelType
  <1>2. p \in Pid /\ Tail(k.bloqueados[c]) \in Seq(Pid)
      BY <1>1, HeadTailProperties
  <1>3. [k.bloqueados EXCEPT ![c] = Tail(@)] \in [Clave -> Seq(Pid)]
      BY <1>a, <1>2 DEF KernelType
  <1>0. Despierta(k, c) = k1
      BY DEF Despierta
  <1> HIDE DEF p
  <1>4. ti \in [Recurso -> [Pid -> Nat]]
    <2>1. k.tiene \in [Recurso -> [Pid -> Nat]]
        BY <1>a DEF KernelType
    <2> QED BY <1>2, <2>1, DarUnaTipo
  <1> HIDE DEF ti
  <1>5. KernelOK(k1)
      BY <1>a, <1>3, <1>4 DEF KernelOK, KernelType
  <1>6. CamposDespierta(k, k1, c)
      BY <1>a DEF KernelType, CamposDespierta, MismoMarco, Quieto
  <1> QED BY <1>0, <1>5, <1>6

(* The queues of a resource's waiters only lose whom it no longer owes.    *)
LEMMA SemCola ==
  ASSUME NEW k, Ordenado(k), Sem(k), NEW c \in Clave, NEW s \in Seq(Pid), NEW k2,
         k2.bloqueados = [k.bloqueados EXCEPT ![c] = s],
         \A r \in Recurso : r # c => k2.instancias[r] = k.instancias[r],
         c \in Recurso => -k2.instancias[c] <= Len(s)
  PROVE  Sem(k2)
  <1>1. k.bloqueados \in [Clave -> Seq(Pid)]
      BY OrdenadoTipo
  <1>2. k2.bloqueados[c] = s /\ \A d \in Clave : d # c => k2.bloqueados[d] = k.bloqueados[d]
      BY <1>1
  <1>3. ASSUME NEW r \in Recurso PROVE -k2.instancias[r] <= Len(k2.bloqueados[r])
    <2>1. r \in Clave
        BY DEF Clave
    <2>2. CASE r = c
        BY <1>2, <2>2
    <2>3. CASE r # c
      <3>1. k2.bloqueados[r] = k.bloqueados[r] /\ k2.instancias[r] = k.instancias[r]
          BY <1>2, <2>1, <2>3
      <3> QED BY <3>1 DEF Sem
    <2> QED BY <2>2, <2>3
  <1> QED BY <1>3 DEF Sem

LEMMA BlockedReady ==
  ASSUME NEW k, Ordenado(k), NEW c \in Clave, NEW k2, k2 = evaluar_BLOCKED_a_READY(k, c)
  PROVE  /\ Ordenado(k2) /\ Fijo(k, k2) /\ Quieto(k, k2) /\ k2.sirviendo = k.sirviendo
         /\ Sem(k) => Sem(k2)
         /\ \/ k2.bloqueados = k.bloqueados
            \/ k2.bloqueados = [k.bloqueados EXCEPT ![c] = Tail(@)] /\ k.bloqueados[c] # <<>>
         /\ c \notin Recurso /\ k.bloqueados[c] # <<>>
              => k2.bloqueados = [k.bloqueados EXCEPT ![c] = Tail(@)]
  <1> DEFINE sigue == k.bloqueados[c] = <<>> \/ (c \in Recurso /\ k.instancias[c] < 0)
             p == Head(k.bloqueados[c])
             k1 == Despierta(k, c)
  <1>1. CASE sigue
    <2>1. k2 = k
        BY <1>1 DEF evaluar_BLOCKED_a_READY
    <2>2. Fijo(k, k) /\ Quieto(k, k)
        BY DEF Fijo, Quieto
    <2> QED BY <1>1, <2>1, <2>2
  <1>2. CASE ~sigue
    <2>1. k2 = A_READY(k1, p)
        BY <1>2 DEF evaluar_BLOCKED_a_READY, Despierta
    <2>2. /\ k.bloqueados[c] # <<>> /\ k.bloqueados[c] \in Seq(Pid)
          /\ p \in Pid /\ p \in ToSet(k.bloqueados[c]) /\ k.estado[p] = "BLOCKED"
          /\ Lugar(Tail(k.bloqueados[c]), ToSet(k.bloqueados[c]) \ {p})
      <3>1. k.bloqueados[c] # <<>>
          BY <1>2
      <3>2. p \in ToSet(k.bloqueados[c]) /\ Lugar(Tail(k.bloqueados[c]), ToSet(k.bloqueados[c]) \ {p})
          BY <3>1, CabezaBloqueada
      <3>3. /\ k.bloqueados[c] \in Seq(Pid)
            /\ \A q \in ToSet(k.bloqueados[c]) : q \in Pid /\ k.estado[q] = "BLOCKED"
          BY CabezaBloqueada
      <3> HIDE DEF p
      <3> QED BY <3>1, <3>2, <3>3
    <2>3. KernelOK(k1) /\ CamposDespierta(k, k1, c)
        BY <2>2, DespiertaCampos DEF Ordenado
    <2>4. ColasDe(k.estado, k.cola_NEW, k.cola_READY, k.cola_READY_PRIORITARIA, k.cola_RUNNING,
                  [k.bloqueados EXCEPT ![c] = Tail(k.bloqueados[c])], {p})
      <3> DEFINE s == Tail(k.bloqueados[c])
      <3>1. Lugar(s, ToSet(k.bloqueados[c]) \ {p}) /\ p \in ToSet(k.bloqueados[c]) /\ p \in Pid
          BY <2>2
      <3> HIDE DEF s, p
      <3>2. /\ k.estado \in [Pid -> Estado] /\ k.bloqueados \in [Clave -> Seq(Pid)]
            /\ ColasDe(k.estado, k.cola_NEW, k.cola_READY, k.cola_READY_PRIORITARIA, k.cola_RUNNING,
                       k.bloqueados, {})
          BY OrdenadoTipo
      <3>3. ColasDe(k.estado, k.cola_NEW, k.cola_READY, k.cola_READY_PRIORITARIA, k.cola_RUNNING,
                    [k.bloqueados EXCEPT ![c] = s], {p})
          BY <3>1, <3>2, ColasSaca
      <3> QED BY <3>3 DEF s
    <2>5. k1.bloqueados = [k.bloqueados EXCEPT ![c] = Tail(k.bloqueados[c])]
        BY <2>3 DEF CamposDespierta
    <2> HIDE DEF k1, p
    <2>6. ColasDe(k.estado, k1.cola_NEW, k1.cola_READY, k1.cola_READY_PRIORITARIA, k1.cola_RUNNING,
                  k1.bloqueados, {p})
        BY <2>3, <2>4, <2>5 DEF CamposDespierta, Quieto
    <2>7. /\ k.estado[p] \in EnSistema /\ MismoMarco(k, k1) /\ k1.estado = k.estado /\ k1.cant = k.cant
          /\ k1.parcial = k.parcial
        BY <2>2, <2>3 DEF CamposDespierta, EnSistema
    <2>8. /\ Ordenado(k2) /\ Fijo(k, k2) /\ MismoMarco(k1, k2) /\ MismoSemaforo(k1, k2)
          /\ Quieto(k1, k2)
        BY <2>1, <2>2, <2>3, <2>6, <2>7, AReadyOrden
    <2>9. Quieto(k, k2) /\ k2.sirviendo = k.sirviendo
        BY <2>3, <2>8 DEF CamposDespierta, Quieto, MismoMarco
    <2>10. k2.bloqueados = [k.bloqueados EXCEPT ![c] = Tail(k.bloqueados[c])]
           /\ k2.instancias = k.instancias
        BY <2>3, <2>5, <2>8 DEF MismoSemaforo, CamposDespierta
    <2>11. ASSUME Sem(k) PROVE Sem(k2)
      <3>1. Tail(k.bloqueados[c]) \in Seq(Pid)
          BY <2>2, HeadTailProperties
      <3>2. c \in Recurso => -k2.instancias[c] <= Len(Tail(k.bloqueados[c]))
        <4>1. c \in Recurso => k.instancias[c] \in Int /\ ~(k.instancias[c] < 0)
            BY <1>2, OrdenadoTipo DEF KernelType
        <4>2. Len(Tail(k.bloqueados[c])) \in Nat
            BY <3>1, LenProperties
        <4> QED BY <2>10, <4>1, <4>2
      <3> QED BY <2>10, <2>11, <3>1, <3>2, SemCola
    <2> QED BY <2>2, <2>8, <2>9, <2>10, <2>11
  <1> QED BY <1>1, <1>2

(* Who finishes while it is not running: nobody of the queues but p moves. *)
FueraDeCPU(k, k2) == Fijo(k, k2) /\ Quieto(k, k2)

LEMMA ReadyExit ==
  ASSUME NEW k, Ordenado(k), NEW p \in Pid, k.estado[p] = "READY",
         NEW k2, k2 = evaluar_READY_a_EXIT(k, p)
  PROVE  /\ Ordenado(k2) /\ FueraDeCPU(k, k2) /\ MismoSemaforo(k, k2) /\ k2.sirviendo = k.sirviendo
  <1> DEFINE s == RemoveFirst(k.cola_READY, p)
  <1>0. k \in KernelType /\ KernelOK(k2)
      BY OrdenadoTipo, TerminaTipo DEF Ordenado
  <1>1. k2 = [k EXCEPT !.cola_READY = s, !.estado[p] = "EXIT", !.cant = @ - 1]
      BY DEF evaluar_READY_a_EXIT
  <1>2. Lugar(s, En(k.estado, "READY", {}) \ {p})
    <2>1. Lugar(k.cola_READY, En(k.estado, "READY", {})) /\ p \in En(k.estado, "READY", {})
        BY OrdenadoTipo DEF ColasDe, En
    <2> QED BY <2>1, LugarQuita
  <1> HIDE DEF s
  <1>3. /\ k2.estado = [k.estado EXCEPT ![p] = "EXIT"] /\ k2.cant = k.cant - 1
        /\ k2.cola_NEW = k.cola_NEW /\ k2.cola_READY = s
        /\ k2.cola_READY_PRIORITARIA = k.cola_READY_PRIORITARIA
        /\ k2.bloqueados = k.bloqueados /\ k2.instancias = k.instancias
        /\ k2.contador = k.contador /\ k2.matados = k.matados
        /\ k2.vivo = k.vivo /\ k2.grado = k.grado /\ k2.pausada = k.pausada
        /\ k2.parcial = k.parcial /\ k2.sirviendo = k.sirviendo
        /\ k2.cola_RUNNING = k.cola_RUNNING /\ k2.dispatch = k.dispatch
        /\ k2.hilos_respuesta = k.hilos_respuesta
      BY <1>0, <1>1 DEF KernelType
  <1>4. Colas(k2, {})
    <2>1. /\ k.estado \in [Pid -> Estado] /\ k.bloqueados \in [Clave -> Seq(Pid)]
          /\ ColasDe(k.estado, k.cola_NEW, k.cola_READY, k.cola_READY_PRIORITARIA, k.cola_RUNNING,
                     k.bloqueados, {})
        BY OrdenadoTipo
    <2>2. ColasDe(k.estado, k.cola_NEW, s, k.cola_READY_PRIORITARIA, k.cola_RUNNING, k.bloqueados, {p})
        BY <1>2, <2>1, ColasSaca
    <2>3. ColasDe([k.estado EXCEPT ![p] = "EXIT"], k.cola_NEW, s, k.cola_READY_PRIORITARIA,
                  k.cola_RUNNING, k.bloqueados, {})
        BY <2>1, <2>2, ColasPone
    <2> QED BY <1>3, <2>3 DEF Colas
  <1>5. Ordenado(k2) /\ Fijo(k, k2)
    <2>1. k.estado[p] \in EnSistema
        BY DEF EnSistema
    <2> QED BY <1>0, <1>3, <1>4, <2>1, Salida
  <1> QED BY <1>3, <1>5 DEF FueraDeCPU, Quieto, MismoSemaforo

(* One that was killed before it was admitted is discounted all the same,  *)
(* which is why the history variable matados is a premise of the count.    *)
LEMMA NewExit ==
  ASSUME NEW k, Ordenado(k), ~SinMatar(k, {"NEW"}), NEW p \in Pid, k.estado[p] = "NEW",
         NEW k2, k2 = evaluar_NEW_a_EXIT(k, p)
  PROVE  /\ Ordenado(k2) /\ FueraDeCPU(k, k2) /\ MismoSemaforo(k, k2) /\ k2.sirviendo = k.sirviendo
  <1> DEFINE s == RemoveFirst(k.cola_NEW, p)
  <1>0. k \in KernelType /\ KernelOK(k2) /\ k.estado \in [Pid -> Estado]
      BY OrdenadoTipo, TerminaTipo DEF Ordenado
  <1>1. k2 = [k EXCEPT !.cola_NEW = s, !.estado[p] = "EXIT", !.cant = @ - 1]
      BY DEF evaluar_NEW_a_EXIT
  <1>2. Lugar(s, En(k.estado, "NEW", {}) \ {p})
    <2>1. Lugar(k.cola_NEW, En(k.estado, "NEW", {})) /\ p \in En(k.estado, "NEW", {})
        BY OrdenadoTipo DEF ColasDe, En
    <2> QED BY <2>1, LugarQuita
  <1> HIDE DEF s
  <1>3. /\ k2.estado = [k.estado EXCEPT ![p] = "EXIT"]
        /\ k2.cola_NEW = s /\ k2.cola_READY = k.cola_READY
        /\ k2.cola_READY_PRIORITARIA = k.cola_READY_PRIORITARIA
        /\ k2.bloqueados = k.bloqueados /\ k2.instancias = k.instancias
        /\ k2.contador = k.contador /\ k2.matados = k.matados
        /\ k2.vivo = k.vivo /\ k2.grado = k.grado /\ k2.pausada = k.pausada
        /\ k2.parcial = k.parcial /\ k2.sirviendo = k.sirviendo
        /\ k2.cola_RUNNING = k.cola_RUNNING /\ k2.dispatch = k.dispatch
        /\ k2.hilos_respuesta = k.hilos_respuesta
      BY <1>0, <1>1 DEF KernelType
  <1>4. Colas(k2, {})
    <2>1. /\ k.bloqueados \in [Clave -> Seq(Pid)]
          /\ ColasDe(k.estado, k.cola_NEW, k.cola_READY, k.cola_READY_PRIORITARIA, k.cola_RUNNING,
                     k.bloqueados, {})
        BY OrdenadoTipo
    <2>2. ColasDe(k.estado, s, k.cola_READY, k.cola_READY_PRIORITARIA, k.cola_RUNNING, k.bloqueados, {p})
        BY <1>0, <1>2, <2>1, ColasSaca
    <2>3. ColasDe([k.estado EXCEPT ![p] = "EXIT"], s, k.cola_READY, k.cola_READY_PRIORITARIA,
                  k.cola_RUNNING, k.bloqueados, {})
        BY <1>0, <2>1, <2>2, ColasPone
    <2> QED BY <1>3, <2>3 DEF Colas
  <1>5. \A q \in Pid : k2.estado[q] = IF q = p THEN "EXIT" ELSE k.estado[q]
      BY <1>0, <1>3
  <1>6. Contados(k2)
      BY <1>3 DEF Contados, SinMatar
  <1>7. ConResto(k2)
      BY <1>3, <1>5 DEF Ordenado, ConResto
  <1>8. SinCrear(k2)
    <2>1. SinUsar(k2) = SinUsar(k)
        BY <1>3 DEF SinUsar
    <2>2. \A q \in SinUsar(k) : q \in Pid /\ k.estado[q] = "NO_CREADO" /\ q # p
        BY DEF Ordenado, SinCrear, SinUsar
    <2> QED BY <1>5, <2>1, <2>2 DEF SinCrear
  <1>9. Fijo(k, k2)
      BY <1>3, <1>5 DEF Fijo
  <1> QED BY <1>0, <1>3, <1>4, <1>6, <1>7, <1>8, <1>9 DEF Ordenado, FueraDeCPU, Quieto, MismoSemaforo

(* One that was waiting: what it had asked for is given back.              *)
LEMMA BlockedExit ==
  ASSUME NEW k, Ordenado(k), NEW p \in Pid, NEW c \in conseguir_tmb(k, p),
         NEW k2, k2 = evaluar_BLOCKED_a_EXIT(k, p, c)
  PROVE  /\ Ordenado(k2) /\ FueraDeCPU(k, k2) /\ k2.sirviendo = k.sirviendo
         /\ Sem(k) => Sem(k2)
         /\ k2.bloqueados = [k.bloqueados EXCEPT ![c] = RemoveFirst(@, p)]
  <1> DEFINE s == RemoveFirst(k.bloqueados[c], p)
             dev == Devolver(k, c)
  <1>a. c \in Clave /\ p \in ToSet(k.bloqueados[c])
      BY DEF conseguir_tmb
  <1>0. k \in KernelType /\ KernelOK(k2) /\ k.estado \in [Pid -> Estado]
      BY <1>a, OrdenadoTipo, BlockedExitTipo DEF Ordenado
  <1>1. k2 = [k EXCEPT !.bloqueados[c] = s, !.instancias = dev, !.estado[p] = "EXIT", !.cant = @ - 1]
      BY DEF evaluar_BLOCKED_a_EXIT
  <1>2. Lugar(s, ToSet(k.bloqueados[c]) \ {p}) /\ k.estado[p] = "BLOCKED" /\ k.bloqueados[c] \in Seq(Pid)
    <2>1. Lugar(k.bloqueados[c], ToSet(k.bloqueados[c])) /\ k.bloqueados[c] \in Seq(Pid)
        BY <1>a, CabezaBloqueada
    <2>2. k.estado[p] = "BLOCKED"
        BY <1>a, CabezaBloqueada
    <2>3. Lugar(s, ToSet(k.bloqueados[c]) \ {p})
        BY <1>a, <2>1, LugarQuita
    <2> QED BY <2>1, <2>2, <2>3
  <1>b. s \in Seq(Pid)
      BY <1>2 DEF Lugar
  <1>c. Len(s) = Len(k.bloqueados[c]) - 1 /\ Len(s) \in Nat /\ Len(k.bloqueados[c]) \in Nat
    <2>1. \E i \in 1 .. Len(k.bloqueados[c]) : k.bloqueados[c][i] = p
        BY <1>a, <1>2, EnLugar
    <2>2. PICK i \in 1 .. Len(k.bloqueados[c]) : s = RemoveAt(k.bloqueados[c], i)
        BY <1>2, <2>1, QuitaPrimero
    <2>3. Len(s) = Len(k.bloqueados[c]) - 1
        BY <1>2, <2>2, SinUno
    <2> QED BY <1>2, <1>b, <2>3, LenProperties
  <1>d. /\ dev \in [Recurso -> Int]
        /\ \A r \in Recurso : dev[r] = IF r = c THEN k.instancias[r] + 1 ELSE k.instancias[r]
      BY <1>0 DEF Devolver, KernelType
  <1> HIDE DEF s, dev
  <1>3. /\ k2.estado = [k.estado EXCEPT ![p] = "EXIT"] /\ k2.cant = k.cant - 1
        /\ k2.cola_NEW = k.cola_NEW /\ k2.cola_READY = k.cola_READY
        /\ k2.cola_READY_PRIORITARIA = k.cola_READY_PRIORITARIA
        /\ k2.bloqueados = [k.bloqueados EXCEPT ![c] = s] /\ k2.instancias = dev
        /\ k2.contador = k.contador /\ k2.matados = k.matados
        /\ k2.vivo = k.vivo /\ k2.grado = k.grado /\ k2.pausada = k.pausada
        /\ k2.parcial = k.parcial /\ k2.sirviendo = k.sirviendo
        /\ k2.cola_RUNNING = k.cola_RUNNING /\ k2.dispatch = k.dispatch
        /\ k2.hilos_respuesta = k.hilos_respuesta
      BY <1>0, <1>1 DEF KernelType
  <1>4. Colas(k2, {})
    <2>1. /\ k.bloqueados \in [Clave -> Seq(Pid)]
          /\ ColasDe(k.estado, k.cola_NEW, k.cola_READY, k.cola_READY_PRIORITARIA, k.cola_RUNNING,
                     k.bloqueados, {})
        BY OrdenadoTipo
    <2>2. ColasDe(k.estado, k.cola_NEW, k.cola_READY, k.cola_READY_PRIORITARIA, k.cola_RUNNING,
                  [k.bloqueados EXCEPT ![c] = s], {p})
        BY <1>0, <1>a, <1>2, <2>1, ColasSaca
    <2>a. [k.bloqueados EXCEPT ![c] = s] \in [Clave -> Seq(Pid)]
        BY <1>b, <2>1
    <2>3. ColasDe([k.estado EXCEPT ![p] = "EXIT"], k.cola_NEW, k.cola_READY, k.cola_READY_PRIORITARIA,
                  k.cola_RUNNING, [k.bloqueados EXCEPT ![c] = s], {})
        BY <1>0, <2>a, <2>2, ColasPone
    <2> QED BY <1>3, <2>3 DEF Colas
  <1>5. Ordenado(k2) /\ Fijo(k, k2)
    <2>1. k.estado[p] \in EnSistema
        BY <1>2 DEF EnSistema
    <2> QED BY <1>0, <1>3, <1>4, <2>1, Salida
  <1>6. ASSUME Sem(k) PROVE Sem(k2)
    <2>1. \A r \in Recurso : r # c => k2.instancias[r] = k.instancias[r]
        BY <1>3, <1>d
    <2>2. c \in Recurso => -k2.instancias[c] <= Len(s)
      <3>1. c \in Recurso => k2.instancias[c] = k.instancias[c] + 1 /\ k.instancias[c] \in Int
          BY <1>0, <1>3, <1>d DEF KernelType
      <3>2. c \in Recurso => -k.instancias[c] <= Len(k.bloqueados[c])
          BY <1>6 DEF Sem
      <3> QED BY <1>c, <3>1, <3>2
    <2> QED BY <1>3, <1>a, <1>b, <1>6, <2>1, <2>2, SemCola
  <1> QED BY <1>3, <1>5, <1>6 DEF FueraDeCPU, Quieto, s

(***************************************************************************)
(* sacarle_sus_recursos                                                    *)
(***************************************************************************)
(* The heads of the queues in W, which are those of D, leave them.         *)
SinCabezas(blo, W, b2, D) ==
  /\ W \in SUBSET Clave
  /\ \A c \in W : blo[c] # <<>> /\ b2[c] = Tail(blo[c])
  /\ \A c \in Clave \ W : b2[c] = blo[c]
  /\ \A q : q \in D <=> \E c \in W : q = Head(blo[c])

LEMMA BloqueosSinCabezas ==
  ASSUME NEW S, NEW blo, Bloqueos(S, blo), NEW W, NEW b2, NEW D, SinCabezas(blo, W, b2, D)
  PROVE  Bloqueos(S \ D, b2) /\ D \subseteq S
  <1>0. /\ W \in SUBSET Clave
        /\ \A c \in W : blo[c] # <<>> /\ b2[c] = Tail(blo[c])
        /\ \A c \in Clave \ W : b2[c] = blo[c]
        /\ \A q : q \in D <=> \E c \in W : q = Head(blo[c])
      BY DEF SinCabezas
  <1>1. ASSUME NEW c \in W
        PROVE  /\ Head(blo[c]) \in ToSet(blo[c]) /\ Head(blo[c]) \in Pid
               /\ Lugar(Tail(blo[c]), ToSet(blo[c]) \ {Head(blo[c])})
               /\ b2[c] = Tail(blo[c]) /\ ToSet(b2[c]) = ToSet(blo[c]) \ {Head(blo[c])}
    <2>1. Lugar(blo[c], ToSet(blo[c]))
        BY <1>0 DEF Bloqueos
    <2>2. Head(blo[c]) \in ToSet(blo[c]) /\ Lugar(Tail(blo[c]), ToSet(blo[c]) \ {Head(blo[c])})
        BY <1>0, <2>1, LugarTail
    <2>3. b2[c] = Tail(blo[c])
        BY <1>0
    <2>4. Head(blo[c]) \in Pid
        BY <2>1, <2>2, LugarInyectivo
    <2> QED BY <2>2, <2>3, <2>4 DEF Lugar
  <1>2. \A c \in Clave \ W : b2[c] = blo[c]
      BY <1>0
  <1>3. \A c \in Clave : Lugar(b2[c], ToSet(b2[c]))
    <2>1. \A c \in Clave : Lugar(blo[c], ToSet(blo[c]))
        BY DEF Bloqueos
    <2> QED BY <1>0, <1>1, <1>2, <2>1
  <1>4. \A c \in Clave : \A q \in ToSet(b2[c]) : q \in ToSet(blo[c])
      BY <1>0, <1>1, <1>2
  <1>5. \A c, d \in Clave : \A q \in Pid : q \in ToSet(b2[c]) /\ q \in ToSet(b2[d]) => c = d
      BY <1>4 DEF Bloqueos
  <1>6. D \subseteq S
    <2>1. \A q, c : c \in Clave /\ q \in ToSet(blo[c]) => q \in S
        BY DEF Bloqueos
    <2>2. ASSUME NEW c \in W PROVE Head(blo[c]) \in S
        BY <1>0, <1>1, <2>1
    <2> QED BY <1>0, <2>2
  <1>7. ASSUME NEW q, q \in S \ D PROVE \E c \in Clave : q \in ToSet(b2[c])
    <2>1. PICK c \in Clave : q \in ToSet(blo[c])
        BY <1>7 DEF Bloqueos
    <2>2. CASE c \in W
      <3>1. q # Head(blo[c])
          BY <1>0, <1>7, <2>2
      <3> QED BY <1>1, <2>1, <2>2, <3>1
    <2>3. CASE c \notin W
        BY <1>2, <2>1, <2>3
    <2> QED BY <2>2, <2>3
  <1>8. ASSUME NEW q, NEW c \in Clave, q \in ToSet(b2[c]) PROVE q \in S \ D
    <2>1. q \in ToSet(blo[c]) /\ q \in S
        BY <1>4, <1>8 DEF Bloqueos
    <2>2. ASSUME NEW d \in W, q = Head(blo[d]) PROVE FALSE
      <3>1. d = c
          BY <1>0, <1>1, <2>1, <2>2 DEF Bloqueos
      <3> QED BY <1>1, <1>8, <2>2, <3>1
    <2> QED BY <1>0, <2>1, <2>2
  <1>9. Bloqueos(S \ D, b2)
    <2>1. \A q : q \in S \ D <=> \E c \in Clave : q \in ToSet(b2[c])
        BY <1>7, <1>8
    <2> QED BY <1>3, <1>5, <2>1 DEF Bloqueos
  <1> QED BY <1>6, <1>9

CamposSacar(k, k2, W, o) ==
  /\ MismoMarco(k, k2) /\ Quieto(k, k2)
  /\ k2.cant = k.cant /\ k2.cola_NEW = k.cola_NEW /\ k2.parcial = k.parcial
  /\ k2.bloqueados = [c \in Clave |-> IF c \in W THEN Tail(k.bloqueados[c]) ELSE k.bloqueados[c]]
  /\ k2.cola_READY = k.cola_READY \o o.ready
  /\ k2.cola_READY_PRIORITARIA = k.cola_READY_PRIORITARIA \o o.prio
  /\ k2.estado = [q \in Pid |-> IF q \in ToSet(o.ready) THEN "READY"
                                ELSE IF q \in ToSet(o.prio) THEN "READY_PRIORITARIO" ELSE k.estado[q]]

LEMMA SacarCampos ==
  ASSUME NEW k \in KernelType, NEW p \in Pid, NEW o
  PROVE  /\ CamposSacar(k, sacarle_sus_recursos(k, p, o), QueDespiertan(k, p), o)
         /\ sacarle_sus_recursos(k, p, o).instancias
              = [r \in Recurso |-> IF r \in Devueltos(k, p) THEN k.instancias[r] + 1 ELSE k.instancias[r]]
  <1> DEFINE k2 == sacarle_sus_recursos(k, p, o)
             ins == [r \in Recurso |-> IF r \in Devueltos(k, p) THEN k.instancias[r] + 1
                                       ELSE k.instancias[r]]
             usa == [r \in Recurso |-> [k.usando[r] EXCEPT ![p] = Menos(k.usando[r][p])]]
             ti  == [r \in Recurso |-> IF r \in QueDespiertan(k, p)
                                       THEN DarUna(k, r, Head(k.bloqueados[r])) ELSE k.tiene[r]]
             blo == [c \in Clave |-> IF c \in QueDespiertan(k, p) THEN Tail(k.bloqueados[c])
                                     ELSE k.bloqueados[c]]
             est == [q \in Pid |-> IF q \in ToSet(o.ready) THEN "READY"
                                   ELSE IF q \in ToSet(o.prio) THEN "READY_PRIORITARIO"
                                   ELSE k.estado[q]]
             lis == k.cola_READY \o o.ready
             pri == k.cola_READY_PRIORITARIA \o o.prio
  <1>1. k2 = [k EXCEPT !.instancias = ins, !.usando = usa, !.tiene = ti, !.bloqueados = blo,
                       !.cola_READY = lis, !.cola_READY_PRIORITARIA = pri, !.estado = est]
      BY DEF sacarle_sus_recursos
  <1> HIDE DEF k2, ins, usa, ti, blo, est, lis, pri
  <1>2. MismoMarco(k, k2) /\ Quieto(k, k2)
      BY <1>1 DEF KernelType, MismoMarco, Quieto
  <1>3. /\ k2.cant = k.cant /\ k2.cola_NEW = k.cola_NEW /\ k2.parcial = k.parcial
        /\ k2.bloqueados = blo /\ k2.cola_READY = lis /\ k2.cola_READY_PRIORITARIA = pri
        /\ k2.estado = est /\ k2.instancias = ins
      BY <1>1 DEF KernelType
  <1>4. CamposSacar(k, k2, QueDespiertan(k, p), o)
      BY <1>2, <1>3 DEF CamposSacar, blo, lis, pri, est
  <1> QED BY <1>3, <1>4 DEF k2, ins

LEMMA Sacar ==
  ASSUME NEW k, Ordenado(k), NEW p \in Pid, NEW o \in Ordenes(k, p),
         NEW k2, k2 = sacarle_sus_recursos(k, p, o)
  PROVE  /\ Ordenado(k2) /\ FueraDeCPU(k, k2) /\ k2.sirviendo = k.sirviendo
         /\ Sem(k) => Sem(k2)
         /\ \A q \in Pid : \/ k2.estado[q] = k.estado[q]
                           \/ k.estado[q] = "BLOCKED" /\ k2.estado[q] \in {"READY", "READY_PRIORITARIO"}
         /\ \A i \in Interfaz : k2.bloqueados[i] = k.bloqueados[i]
  <1> DEFINE W == QueDespiertan(k, p)
             D == Despertados(k, p)
             P == Prioritarios(k, D)
  <1>0. k \in KernelType /\ KernelOK(k2) /\ k.estado \in [Pid -> Estado]
      BY OrdenadoTipo, SacarTipo DEF Ordenado
  <1>1. /\ D \in SUBSET Pid
        /\ \A r \in W : r \in Recurso /\ k.bloqueados[r] # <<>>
        /\ o.ready \in SetToSeqs(D \ P) /\ o.prio \in SetToSeqs(P)
      BY OrdenesTipo DEF Ordenado
  <1>2. CamposSacar(k, k2, W, o)
      BY <1>0, SacarCampos
  <1>a. P = {q \in D : debe_ir_a_cola_prioritaria(k, q)}
      BY DEF Prioritarios
  <1>b. D = {Head(k.bloqueados[r]) : r \in W}
      BY DEF Despertados
  <1> HIDE DEF D, W, P
  <1>c. P \in SUBSET D /\ \A q \in P : k.parcial[q]
      BY <1>a DEF debe_ir_a_cola_prioritaria
  <1>3. Lugar(o.ready, D \ P) /\ Lugar(o.prio, P) /\ ToSet(o.ready) = D \ P /\ ToSet(o.prio) = P
    <2>1. Lugar(o.ready, D \ P) /\ Lugar(o.prio, P)
        BY <1>1, <1>c, LugarOrden
    <2> QED BY <2>1 DEF Lugar
  <1>4. /\ Lugar(k.cola_NEW, En(k.estado, "NEW", {}))
        /\ Lugar(k.cola_READY, En(k.estado, "READY", {}))
        /\ Lugar(k.cola_READY_PRIORITARIA, En(k.estado, "READY_PRIORITARIO", {}))
        /\ Lugar(k.cola_RUNNING, En(k.estado, "RUNNING", {}))
        /\ Bloqueos(En(k.estado, "BLOCKED", {}), k.bloqueados)
        /\ k.bloqueados \in [Clave -> Seq(Pid)]
      BY OrdenadoTipo DEF ColasDe
  <1>5. W \in SUBSET Clave
      BY <1>1 DEF Clave
  <1>6. Bloqueos(En(k.estado, "BLOCKED", {}) \ D, k2.bloqueados) /\ D \subseteq En(k.estado, "BLOCKED", {})
    <2>1. k2.bloqueados = [c \in Clave |-> IF c \in W THEN Tail(k.bloqueados[c]) ELSE k.bloqueados[c]]
        BY <1>2 DEF CamposSacar
    <2>2. \A c \in W : k.bloqueados[c] # <<>>
        BY <1>1
    <2>a. /\ \A c \in W : k2.bloqueados[c] = Tail(k.bloqueados[c])
          /\ \A c \in Clave \ W : k2.bloqueados[c] = k.bloqueados[c]
        BY <1>5, <2>1
    <2>b. \A q : q \in D <=> \E c \in W : q = Head(k.bloqueados[c])
        BY <1>b
    <2> DEFINE S == En(k.estado, "BLOCKED", {})
    <2>3. Bloqueos(S, k.bloqueados) /\ k.bloqueados \in [Clave -> Seq(Pid)]
        BY <1>4
    <2> HIDE DEF S
    <2>4. Bloqueos(S \ D, k2.bloqueados) /\ D \subseteq S
      <3>1. SinCabezas(k.bloqueados, W, k2.bloqueados, D)
          BY <1>5, <2>2, <2>a, <2>b DEF SinCabezas
      <3> QED BY <2>3, <3>1, BloqueosSinCabezas
    <2> QED BY <2>4 DEF S
  <1>7. \A q \in Pid : k2.estado[q] = IF q \in D \ P THEN "READY"
                                      ELSE IF q \in P THEN "READY_PRIORITARIO" ELSE k.estado[q]
      BY <1>2, <1>3 DEF CamposSacar
  <1>8. \A q \in D : q \in Pid /\ k.estado[q] = "BLOCKED"
      BY <1>6 DEF En
  <1>9. /\ En(k2.estado, "NEW", {}) = En(k.estado, "NEW", {})
        /\ En(k2.estado, "READY", {}) = En(k.estado, "READY", {}) \cup (D \ P)
        /\ En(k2.estado, "READY_PRIORITARIO", {}) = En(k.estado, "READY_PRIORITARIO", {}) \cup P
        /\ En(k2.estado, "RUNNING", {}) = En(k.estado, "RUNNING", {})
        /\ En(k2.estado, "BLOCKED", {}) = En(k.estado, "BLOCKED", {}) \ D
      BY <1>7, <1>8, <1>c DEF En
  <1>10. Colas(k2, {})
    <2>1. En(k.estado, "READY", {}) \cap (D \ P) = {} /\ En(k.estado, "READY_PRIORITARIO", {}) \cap P = {}
        BY <1>8, <1>c DEF En
    <2>2. /\ Lugar(k.cola_READY \o o.ready, En(k.estado, "READY", {}) \cup (D \ P))
          /\ Lugar(k.cola_READY_PRIORITARIA \o o.prio, En(k.estado, "READY_PRIORITARIO", {}) \cup P)
        BY <1>3, <1>4, <2>1, LugarConcat
    <2> QED BY <1>2, <1>4, <1>6, <1>9, <2>2 DEF Colas, ColasDe, CamposSacar, Quieto
  <1>11. \A q \in Pid : \/ k2.estado[q] = k.estado[q]
                        \/ k.estado[q] = "BLOCKED" /\ k2.estado[q] \in {"READY", "READY_PRIORITARIO"}
      BY <1>7, <1>8, <1>c
  <1>12. Contados(k2)
    <2>1. Admitidos(k2) = Admitidos(k)
        BY <1>11 DEF Admitidos
    <2> QED BY <1>2, <2>1 DEF Ordenado, Contados, SinMatar, CamposSacar, MismoMarco
  <1>13. ConResto(k2)
      BY <1>2, <1>7, <1>c DEF Ordenado, ConResto, CamposSacar
  <1>14. SinCrear(k2)
    <2>1. SinUsar(k2) = SinUsar(k)
        BY <1>2 DEF SinUsar, CamposSacar, MismoMarco
    <2>2. \A q \in SinUsar(k) : q \in Pid /\ k.estado[q] = "NO_CREADO"
        BY DEF Ordenado, SinCrear, SinUsar
    <2> QED BY <1>11, <2>1, <2>2 DEF SinCrear
  <1>15. Fijo(k, k2)
      BY <1>2, <1>11 DEF Fijo, CamposSacar, MismoMarco
  <1>16. \A i \in Interfaz : k2.bloqueados[i] = k.bloqueados[i]
    <2>1. \A i \in Interfaz : i \in Clave /\ i \notin W
        BY <1>1, ConstantesOK DEF Clave
    <2> QED BY <1>2, <2>1 DEF CamposSacar
  <1>17. ASSUME Sem(k) PROVE Sem(k2)
    <2>1. k2.instancias = [r \in Recurso |-> IF r \in Devueltos(k, p) THEN k.instancias[r] + 1
                                             ELSE k.instancias[r]]
        BY <1>0, SacarCampos
    <2>2. ASSUME NEW r \in Recurso PROVE -k2.instancias[r] <= Len(k2.bloqueados[r])
      <3>0. /\ r \in Clave /\ k.instancias[r] \in Int /\ k.bloqueados[r] \in Seq(Pid)
            /\ Len(k.bloqueados[r]) \in Nat
        <4>1. r \in Clave
            BY DEF Clave
        <4>2. k.instancias[r] \in Int
            BY <1>0 DEF KernelType
        <4> QED BY <4>1, <4>2, <1>4, LenProperties
      <3>1. -k.instancias[r] <= Len(k.bloqueados[r])
          BY <1>17 DEF Sem
      <3>2. CASE r \in W
        <4>1. k.instancias[r] + 1 >= 0 /\ r \in Devueltos(k, p) /\ k.bloqueados[r] # <<>>
            BY <3>2 DEF W, QueDespiertan
        <4>2. k2.bloqueados[r] = Tail(k.bloqueados[r]) /\ k2.instancias[r] = k.instancias[r] + 1
            BY <1>2, <2>1, <3>0, <3>2, <4>1 DEF CamposSacar
        <4>3. Tail(k.bloqueados[r]) \in Seq(Pid)
            BY <3>0, <4>1, HeadTailProperties
        <4>4. Len(Tail(k.bloqueados[r])) \in Nat
            BY <4>3, LenProperties
        <4> QED BY <3>0, <4>1, <4>2, <4>4
      <3>3. CASE r \notin W
        <4>1. k2.bloqueados[r] = k.bloqueados[r]
            BY <1>2, <3>0, <3>3 DEF CamposSacar
        <4>2. k2.instancias[r] = k.instancias[r] + 1 \/ k2.instancias[r] = k.instancias[r]
            BY <2>1
        <4> QED BY <3>0, <3>1, <4>1, <4>2
      <3> QED BY <3>2, <3>3
    <2> QED BY <2>2 DEF Sem
  <1>18. Quieto(k, k2) /\ k2.sirviendo = k.sirviendo
      BY <1>2 DEF CamposSacar, MismoMarco
  <1> QED BY <1>0, <1>10, <1>11, <1>12, <1>13, <1>14, <1>15, <1>16, <1>17, <1>18 DEF Ordenado, FueraDeCPU

(***************************************************************************)
(* The token of the CPU                                                    *)
(***************************************************************************)
RESP(n) == [tipo |-> "RESPUESTA", dato |-> n]

(* Where the token is: nowhere or in a pcb that the CPU will read ...      *)
Libre(k, c, a)     == c.fase = "libre" /\ a = <<>> /\ Entrega(k, <<>>)
(* ... after the answer that takes the CPU from who asked, ...             *)
Rechazada(k, c, a) == c.fase = "espera_wait" /\ a = <<>> /\ Entrega(k, <<RESP(1)>>)
(* ... in the CPU, in an answer to go on, lost in a SIGNAL of no resource, *)
Ejecuta(c, a, d)   == c.fase = "ejecutando" /\ a = <<>> /\ d = <<>>
Aceptada(c, a, d)  == c.fase \in {"espera_wait", "espera_signal"} /\ a = <<>> /\ d = <<RESP(0)>>
Perdida(c, a, d)   ==
  ~(NombresSignal \subseteq Recurso) /\ c.fase = "espera_signal" /\ a = <<>> /\ d = <<>>
(* ... or in the message m to the kernel.                                  *)
Pregunta(c, m) ==
  \/ c.fase = "libre" /\ m.motivo \in {"EXIT", "OUT_OF_MEMORY", "INTERRUPCION", "IO"}
  \/ c.fase = "espera_wait" /\ m.motivo = "WAIT" /\ m.pid = c.pid
  \/ c.fase = "espera_signal" /\ m.motivo = "SIGNAL" /\ m.arg \in NombresSignal /\ m.pid = c.pid

EnCPU(k, c, a, p) ==
  /\ c.pid = p
  /\ \/ Ejecuta(c, a, k.dispatch)
     \/ Aceptada(c, a, k.dispatch)
     \/ Perdida(c, a, k.dispatch)

EnMensaje(k, c, a, p) ==
  \E m \in Mensaje : a = <<m>> /\ m.pid = p /\ Pregunta(c, m) /\ k.dispatch = <<>>

Ficha(k, c, a) ==
  \/ Libre(k, c, a)
  \/ Rechazada(k, c, a)
  \/ \E p \in Pid : Corre(k, p) /\ (EnCPU(k, c, a, p) \/ EnMensaje(k, c, a, p))

LEMMA FichaPaso ==
  ASSUME NEW k, Ordenado(k), NEW k2, Paso(k, k2), NEW c, NEW a, Ficha(k, c, a)
  PROVE  Ficha(k2, c, a)
  <1>1. CASE Libre(k, c, a)
      BY <1>1, PasoEntrega DEF Libre, Ficha
  <1>2. CASE Rechazada(k, c, a)
      BY <1>2, PasoEntrega DEF Rechazada, Ficha
  <1>3. ASSUME NEW p \in Pid, Corre(k, p), EnCPU(k, c, a, p) \/ EnMensaje(k, c, a, p)
        PROVE  Ficha(k2, c, a)
    <2>1. Corre(k2, p) /\ k2.dispatch = k.dispatch
        BY <1>3, PasoCorre
    <2> QED BY <1>3, <2>1 DEF Ficha, EnCPU, EnMensaje
  <1> QED BY <1>1, <1>2, <1>3 DEF Ficha

(* What a step does besides keeping the order: who finished stays so and   *)
(* who frees the CPU gives it to somebody.                                 *)
Bien(k, k2) ==
  /\ Ordenado(k2)
  /\ Sem(k) => Sem(k2)
  /\ \A p \in Pid : k.estado[p] = "EXIT" => k2.estado[p] = "EXIT"
  /\ k.cola_RUNNING # <<>> => Ocupa(k, k2)

(* What the threads of the interfaces see of it: they may get one process  *)
(* more at the end of a queue.                                             *)
ColasIO(k, k2) ==
  /\ k2.sirviendo = k.sirviendo
  /\ \A i \in Interfaz : \/ k2.bloqueados[i] = k.bloqueados[i]
                         \/ \E p \in Pid : k2.bloqueados[i] = Append(k.bloqueados[i], p)

LEMMA BienAvance ==
  ASSUME NEW k, NEW k2, Ordenado(k2), Sem(k) => Sem(k2), Avance(k, k2),
         Ocupa(k, k2) \/ k2.cola_RUNNING = k.cola_RUNNING
  PROVE  Bien(k, k2)
  BY DEF Bien, Avance, Ocupa

(* A step that moves nobody.                                               *)
LEMMA BienInmovil ==
  ASSUME NEW k, NEW k2, Ordenado(k2), k2.estado = k.estado,
         k2.cola_RUNNING = k.cola_RUNNING, MismoSemaforo(k, k2)
  PROVE  Bien(k, k2)
  <1>1. Sem(k) => Sem(k2)
      BY SemMismo
  <1>2. k.cola_RUNNING # <<>> => Ocupa(k, k2)
      BY DEF Ocupa
  <1>3. \A p \in Pid : ~(k.estado[p] = "NEW" /\ k2.estado[p] = "READY")
      OBVIOUS
  <1> QED BY <1>1, <1>2, <1>3 DEF Bien

(* The commands that finish a process who is not running: from k1, which   *)
(* is k with the killing written down, to k3 and to the planners' k4.      *)
LEMMA Finaliza ==
  ASSUME NEW k, NEW k1, Ordenado(k1), k1.estado = k.estado, Quieto(k, k1), MismoSemaforo(k, k1),
         NEW k3, Ordenado(k3), FueraDeCPU(k1, k3), Sem(k1) => Sem(k3),
         NEW k4, k4 = Planificar(k3)
  PROVE  /\ Bien(k, k4) /\ Paso(k, k4) /\ k4.matados = k3.matados
         /\ MismoSemaforo(k3, k4) /\ k4.sirviendo = k3.sirviendo
  <1>1. /\ Ordenado(k4) /\ Avance(k1, k4) /\ Ocupa(k1, k4) /\ Paso(k3, k4)
        /\ MismoSemaforo(k3, k4) /\ k4.sirviendo = k3.sirviendo
      BY PlanificarOrden DEF FueraDeCPU
  <1>2. Paso(k, k4)
      BY <1>1 DEF Paso, Quieto, Despachado, FueraDeCPU
  <1>3. Sem(k) => Sem(k4)
      BY <1>1, SemMismo
  <1>4. Ocupa(k, k4)
      BY <1>1 DEF Ocupa
  <1>5. \A p \in Pid : k.estado[p] = "EXIT" => k4.estado[p] = "EXIT"
      BY <1>1 DEF Avance
  <1>6. Bien(k, k4)
      BY <1>1, <1>3, <1>4, <1>5 DEF Bien
  <1>7. k4.matados = k3.matados
      BY <1>1 DEF Avance, FueraDeCPU, Fijo
  <1> QED BY <1>1, <1>2, <1>6, <1>7

(***************************************************************************)
(* History: what was killed is not forgotten, whatever the processes'      *)
(* states and queues hold.                                                 *)
(***************************************************************************)
Historia(k, m) == "matados" \in DOMAIN k /\ k.matados = m

LEMMA HistoriaMueve ==
  ASSUME NEW k, NEW m, Historia(k, m), NEW p, NEW v
  PROVE  /\ Historia(A_READY(k, p), m)
         /\ Historia(Despacho(k, p), m)
         /\ Historia(cosas_vrr_cuando_se_desaloja_un_proceso(k, p, v), m)
         /\ Historia(evaluar_NEW_a_EXIT(k, p), m)
         /\ Historia(evaluar_READY_a_EXIT(k, p), m)
         /\ Historia(evaluar_BLOCKED_a_EXIT(k, p, v), m)
         /\ Historia(TerminaHilo(k, p), m)
         /\ Historia(Responder(k, v), m)
         /\ Historia(asignar_recurso(k, v, p), m)
         /\ Historia(desasignar_recurso(k, v, p), m)
         /\ Historia(sacarle_sus_recursos(k, p, v), m)
  <1>1. Historia(A_READY(k, p), m)
      BY DEF Historia, A_READY
  <1>2. Historia(Despacho(k, p), m)
      BY DEF Historia, Despacho
  <1>3. Historia(cosas_vrr_cuando_se_desaloja_un_proceso(k, p, v), m)
      BY DEF Historia, cosas_vrr_cuando_se_desaloja_un_proceso
  <1>4. Historia(evaluar_NEW_a_EXIT(k, p), m)
      BY DEF Historia, evaluar_NEW_a_EXIT
  <1>5. Historia(evaluar_READY_a_EXIT(k, p), m)
      BY DEF Historia, evaluar_READY_a_EXIT
  <1>6. Historia(evaluar_BLOCKED_a_EXIT(k, p, v), m)
      BY DEF Historia, evaluar_BLOCKED_a_EXIT
  <1>7. Historia(TerminaHilo(k, p), m)
      BY DEF Historia, TerminaHilo
  <1>8. Historia(Responder(k, v), m)
      BY DEF Historia, Responder
  <1>9. Historia(asignar_recurso(k, v, p), m)
      BY DEF Historia, asignar_recurso
  <1>10. Historia(desasignar_recurso(k, v, p), m)
      BY DEF Historia, desasignar_recurso
  <1>11. Historia(sacarle_sus_recursos(k, p, v), m)
      BY DEF Historia, sacarle_sus_recursos
  <1> QED BY <1>1, <1>2, <1>3, <1>4, <1>5, <1>6, <1>7, <1>8, <1>9, <1>10, <1>11

LEMMA HistoriaPlanifica ==
  ASSUME NEW k, NEW m, Historia(k, m)
  PROVE  /\ Historia(evaluar_NEW_a_READY(k), m)
         /\ Historia(evaluar_READY_a_EXEC(k), m)
         /\ Historia(Planificar(k), m)
  <1>1. ASSUME NEW j, Historia(j, m) PROVE Historia(evaluar_NEW_a_READY(j), m)
      BY <1>1 DEF Historia, evaluar_NEW_a_READY
  <1>2. Historia(evaluar_READY_a_EXEC(k), m)
    <2>1. /\ Historia([k EXCEPT !.cola_READY = Tail(@)], m)
          /\ Historia([k EXCEPT !.cola_READY_PRIORITARIA = Tail(@)], m)
        BY DEF Historia
    <2> QED BY <2>1, HistoriaMueve DEF evaluar_READY_a_EXEC
  <1>3. Historia(Planificar(k), m)
      BY <1>1, <1>2 DEF Planificar
  <1> QED BY <1>1, <1>2, <1>3

LEMMA HistoriaDesaloja ==
  ASSUME NEW k, NEW m, Historia(k, m), NEW v, NEW c
  PROVE  /\ Historia(evaluar_EXEC_a_READY(k, v), m)
         /\ Historia(evaluar_EXEC_a_BLOCKED(k, c, v), m)
         /\ Historia(evaluar_EXEC_a_EXIT(k, v), m)
         /\ Historia(evaluar_BLOCKED_a_READY(k, c), m)
  <1>1. ASSUME NEW p PROVE Historia(cosas_vrr_cuando_se_desaloja_un_proceso(k, p, v), m)
      BY HistoriaMueve
  <1>2. Historia(evaluar_EXEC_a_READY(k, v), m)
    <2> DEFINE p  == Head(k.cola_RUNNING)
               k1 == [cosas_vrr_cuando_se_desaloja_un_proceso(k, p, v) EXCEPT !.cola_RUNNING = Tail(@)]
    <2>1. Historia(k1, m)
        BY <1>1 DEF Historia
    <2>2. Historia(A_READY(k1, p), m)
        BY <2>1, HistoriaMueve
    <2>3. evaluar_EXEC_a_READY(k, v) = evaluar_READY_a_EXEC(k)
          \/ evaluar_EXEC_a_READY(k, v) = evaluar_READY_a_EXEC(A_READY(k1, p))
        BY DEF evaluar_EXEC_a_READY
    <2> QED BY <2>2, <2>3, HistoriaPlanifica
  <1>3. Historia(evaluar_EXEC_a_BLOCKED(k, c, v), m)
    <2> DEFINE p  == Head(k.cola_RUNNING)
               k0 == cosas_vrr_cuando_se_desaloja_un_proceso(k, p, v)
               k1 == [k0 EXCEPT !.cola_RUNNING = Tail(@),
                        !.estado[p] = "BLOCKED",
                        !.bloqueados[c] = Append(@, p),
                        !.binario = IF c \in Interfaz THEN [@ EXCEPT ![c] = TRUE] ELSE @]
    <2>1. Historia(k0, m)
        BY <1>1
    <2>2. evaluar_EXEC_a_BLOCKED(k, c, v) = evaluar_READY_a_EXEC(k)
          \/ evaluar_EXEC_a_BLOCKED(k, c, v) = evaluar_READY_a_EXEC(k1)
        BY DEF evaluar_EXEC_a_BLOCKED
    <2> HIDE DEF k0
    <2>3. Historia(k1, m)
        BY <2>1 DEF Historia
    <2> HIDE DEF k1
    <2> QED BY <2>2, <2>3, HistoriaPlanifica
  <1>4. Historia(evaluar_EXEC_a_EXIT(k, v), m)
    <2> DEFINE vacia == k.cola_RUNNING = <<>>
               p  == IF vacia THEN 0 ELSE Head(k.cola_RUNNING)
               k0 == cosas_vrr_cuando_se_desaloja_un_proceso(k, p, v)
               k1 == [k0 EXCEPT !.cola_RUNNING = IF vacia THEN @ ELSE Tail(@),
                        !.estado[p] = "EXIT",
                        !.cant = @ - 1]
    <2>1. Historia(k0, m)
        BY <1>1
    <2>2. \/ evaluar_EXEC_a_EXIT(k, v) = [k EXCEPT !.vivo = FALSE]
          \/ evaluar_EXEC_a_EXIT(k, v) = evaluar_NEW_a_READY(evaluar_READY_a_EXEC(k1))
        BY DEF evaluar_EXEC_a_EXIT
    <2> HIDE DEF k0, vacia
    <2>3. Historia(k1, m) /\ Historia([k EXCEPT !.vivo = FALSE], m)
        BY <2>1 DEF Historia
    <2> HIDE DEF k1
    <2>4. Historia(evaluar_NEW_a_READY(evaluar_READY_a_EXEC(k1)), m)
        BY <2>3, HistoriaPlanifica
    <2> QED BY <2>2, <2>3, <2>4
  <1>5. Historia(evaluar_BLOCKED_a_READY(k, c), m)
    <2> DEFINE p  == Head(k.bloqueados[c])
    <2>1. Historia(Despierta(k, c), m)
        BY DEF Historia, Despierta
    <2>2. evaluar_BLOCKED_a_READY(k, c) = k
          \/ evaluar_BLOCKED_a_READY(k, c) = A_READY(Despierta(k, c), p)
        BY DEF evaluar_BLOCKED_a_READY, Despierta
    <2> QED BY <2>1, <2>2, HistoriaMueve
  <1> QED BY <1>2, <1>3, <1>4, <1>5

(***************************************************************************)
(* The console                                                             *)
(***************************************************************************)
(* The console's settings move nobody.                                     *)
Ajustado(k, k2) ==
  \/ \E g \in Int : k2 = [k EXCEPT !.grado = g]
  \/ \E b \in BOOLEAN : k2 = [k EXCEPT !.pausada = b]

LEMMA Ajuste ==
  ASSUME NEW k, Ordenado(k), NEW k2, Ajustado(k, k2)
  PROVE  /\ Ordenado(k2) /\ Quieto(k, k2) /\ MismoSemaforo(k, k2)
         /\ k2.estado = k.estado /\ k2.sirviendo = k.sirviendo /\ k2.matados = k.matados
  <1>0. k \in KernelType
      BY OrdenadoTipo
  <1>1. KernelOK(k2)
      BY <1>0 DEF Ajustado, Ordenado, KernelOK, KernelType
  <1>2. /\ k2.estado = k.estado /\ k2.cola_NEW = k.cola_NEW /\ k2.cola_READY = k.cola_READY
        /\ k2.cola_READY_PRIORITARIA = k.cola_READY_PRIORITARIA /\ k2.cola_RUNNING = k.cola_RUNNING
        /\ k2.bloqueados = k.bloqueados /\ k2.parcial = k.parcial
        /\ k2.cant = k.cant /\ k2.contador = k.contador /\ k2.matados = k.matados
      BY <1>0 DEF Ajustado, KernelType
  <1>3. Quieto(k, k2) /\ MismoSemaforo(k, k2) /\ k2.sirviendo = k.sirviendo
      BY <1>0 DEF Ajustado, KernelType, Quieto, MismoSemaforo
  <1>4. Ordenado(k2)
      BY <1>1, <1>2, Inmovil DEF SinMatar
  <1> QED BY <1>2, <1>3, <1>4

(* INICIAR_PROCESO                                                         *)
LEMMA Alta ==
  ASSUME NEW k, Ordenado(k), NEW p, p = k.contador, p < CantPids,
         NEW k2, KernelOK(k2),
         \/ k2 = [k EXCEPT !.contador = p + 1, !.estado[p] = "NEW", !.cola_NEW = Append(@, p)]
         \/ k2 = [k EXCEPT !.contador = p + 1]
  PROVE  Bien(k, k2) /\ Quieto(k, k2) /\ MismoSemaforo(k, k2) /\ k2.sirviendo = k.sirviendo
  <1>0. k \in KernelType /\ k.contador \in Nat /\ k.estado \in [Pid -> Estado]
      BY OrdenadoTipo
  <1>1. p \in Pid /\ k.estado[p] = "NO_CREADO"
    <2>1. p \in Pid
        BY <1>0, ConstantesOK DEF Pid
    <2> QED BY <2>1, <1>0 DEF Ordenado, SinCrear, SinUsar, Pid
  <1>2. /\ Quieto(k, k2) /\ MismoSemaforo(k, k2) /\ k2.sirviendo = k.sirviendo
        /\ k2.contador = p + 1 /\ k2.cant = k.cant /\ k2.parcial = k.parcial
        /\ k2.cola_READY = k.cola_READY /\ k2.cola_READY_PRIORITARIA = k.cola_READY_PRIORITARIA
        /\ k2.matados = k.matados
        /\ \/ k2.estado = k.estado /\ k2.cola_NEW = k.cola_NEW
           \/ k2.estado = [k.estado EXCEPT ![p] = "NEW"] /\ k2.cola_NEW = Append(k.cola_NEW, p)
      BY <1>0 DEF KernelType, Quieto, MismoSemaforo
  <1>3. \A q \in Pid : q # p => k2.estado[q] = k.estado[q]
      BY <1>0, <1>2
  <1>4. k2.estado[p] \in {"NO_CREADO", "NEW"}
      BY <1>0, <1>1, <1>2
  <1>5. Colas(k2, {})
    <2>1. /\ k.bloqueados \in [Clave -> Seq(Pid)]
          /\ ColasDe(k.estado, k.cola_NEW, k.cola_READY, k.cola_READY_PRIORITARIA, k.cola_RUNNING,
                     k.bloqueados, {})
        BY OrdenadoTipo
    <2>2. ColasDe(k.estado, k.cola_NEW, k.cola_READY, k.cola_READY_PRIORITARIA, k.cola_RUNNING,
                  k.bloqueados, {p})
        BY <1>0, <1>1, <2>1, ColasSaca
    <2>3. ColasDe([k.estado EXCEPT ![p] = "NEW"], Append(k.cola_NEW, p), k.cola_READY,
                  k.cola_READY_PRIORITARIA, k.cola_RUNNING, k.bloqueados, {})
        BY <1>0, <1>1, <2>1, <2>2, ColasPone
    <2> QED BY <1>2, <2>1, <2>3 DEF Colas, Quieto, MismoSemaforo
  <1>6. Contados(k2)
    <2>1. Admitidos(k2) = Admitidos(k)
        BY <1>1, <1>3, <1>4 DEF Admitidos
    <2> QED BY <1>2, <2>1 DEF Ordenado, Contados, SinMatar
  <1>7. ConResto(k2)
      BY <1>2, <1>3, <1>4 DEF Ordenado, ConResto
  <1>8. SinCrear(k2)
    <2>1. \A q \in Pid : q >= p + 1 => q >= p /\ q # p
        BY <1>0 DEF Pid
    <2>2. \A q \in SinUsar(k2) : q \in Pid /\ q \in SinUsar(k) /\ q # p
        BY <1>2, <2>1 DEF SinUsar
    <2>3. \A q \in SinUsar(k) : k.estado[q] = "NO_CREADO"
        BY DEF Ordenado, SinCrear
    <2> QED BY <1>3, <2>2, <2>3 DEF SinCrear
  <1>9. Ordenado(k2)
      BY <1>5, <1>6, <1>7, <1>8 DEF Ordenado
  <1>10. /\ Sem(k) => Sem(k2)
         /\ k.cola_RUNNING # <<>> => Ocupa(k, k2)
      BY <1>2, SemMismo DEF Quieto, Ocupa
  <1>11. \A q \in Pid : /\ k.estado[q] = "EXIT" => k2.estado[q] = "EXIT"
                        /\ ~(k.estado[q] = "NEW" /\ k2.estado[q] = "READY")
      BY <1>1, <1>3, <1>4
  <1>12. Bien(k, k2)
      BY <1>9, <1>10, <1>11 DEF Bien
  <1> QED BY <1>2, <1>12

(* Taking its resources from a process that is then finished.              *)
LEMMA Confisca ==
  ASSUME NEW k1, Ordenado(k1), NEW p \in Pid, NEW o \in Ordenes(k1, p),
         NEW k2, k2 = sacarle_sus_recursos(k1, p, o), NEW k3, Ordenado(k3), FueraDeCPU(k2, k3),
         Sem(k2) => Sem(k3)
  PROVE  FueraDeCPU(k1, k3) /\ (Sem(k1) => Sem(k3))
  <1>1. FueraDeCPU(k1, k2) /\ (Sem(k1) => Sem(k2))
      BY Sacar
  <1>2. Fijo(k1, k3)
      BY <1>1, FijoSigue DEF FueraDeCPU
  <1> QED BY <1>1, <1>2 DEF FueraDeCPU, Quieto

LEMMA MatadoOrden ==
  ASSUME NEW k, Ordenado(k), NEW e \in Estado, NEW k1, k1 = [k EXCEPT !.matados = @ \cup {e}]
  PROVE  /\ Ordenado(k1) /\ k1.estado = k.estado /\ Quieto(k, k1) /\ MismoSemaforo(k, k1)
         /\ k1.sirviendo = k.sirviendo /\ k1.matados = k.matados \cup {e}
  <1>0. k \in KernelType
      BY OrdenadoTipo
  <1>1. KernelOK(k1)
      BY <1>0 DEF Ordenado, KernelOK, KernelType
  <1>2. /\ k1.estado = k.estado /\ k1.cola_NEW = k.cola_NEW /\ k1.cola_READY = k.cola_READY
        /\ k1.cola_READY_PRIORITARIA = k.cola_READY_PRIORITARIA /\ k1.cola_RUNNING = k.cola_RUNNING
        /\ k1.bloqueados = k.bloqueados /\ k1.parcial = k.parcial
        /\ k1.cant = k.cant /\ k1.contador = k.contador /\ k1.matados = k.matados \cup {e}
        /\ k1.instancias = k.instancias
        /\ k1.dispatch = k.dispatch /\ k1.hilos_respuesta = k.hilos_respuesta
        /\ k1.sirviendo = k.sirviendo
      BY <1>0 DEF KernelType
  <1>3. Ordenado(k1)
      BY <1>1, <1>2, Inmovil DEF SinMatar
  <1> QED BY <1>2, <1>3 DEF Quieto, MismoSemaforo

(* The crash of the kernel leaves everything where it was.                 *)
LEMMA SeCae ==
  ASSUME KernelOK(kernel'), Ordenado(kernel), KernelSeCae
  PROVE  /\ Bien(kernel, kernel') /\ Quieto(kernel, kernel') /\ MismoSemaforo(kernel, kernel')
         /\ kernel'.sirviendo = kernel.sirviendo
  <1>0. kernel \in KernelType
      BY OrdenadoTipo
  <1>1. kernel' = [kernel EXCEPT !.vivo = FALSE]
      BY DEF KernelSeCae
  <1>2. /\ Quieto(kernel, kernel') /\ MismoSemaforo(kernel, kernel')
        /\ kernel'.estado = kernel.estado /\ kernel'.sirviendo = kernel.sirviendo
      BY <1>0, <1>1 DEF KernelType, Quieto, MismoSemaforo
  <1>3. /\ kernel'.cola_NEW = kernel.cola_NEW /\ kernel'.cola_READY = kernel.cola_READY
        /\ kernel'.cola_READY_PRIORITARIA = kernel.cola_READY_PRIORITARIA
        /\ kernel'.parcial = kernel.parcial /\ kernel'.cant = kernel.cant
        /\ kernel'.contador = kernel.contador /\ kernel'.matados = kernel.matados
      BY <1>0, <1>1 DEF KernelType
  <1>4. Ordenado(kernel')
      BY <1>2, <1>3, Inmovil DEF SinMatar, Quieto, MismoSemaforo
  <1>5. Bien(kernel, kernel')
      BY <1>2, <1>4, BienInmovil DEF Quieto
  <1> QED BY <1>2, <1>5

(* Every command but the killing of the running process.                   *)
LEMMA ConsolaOrden ==
  ASSUME Tipos, Ordenado(kernel), Consola, SinMatar(kernel', {"RUNNING"})
  PROVE  /\ Bien(kernel, kernel') /\ Paso(kernel, kernel')
         /\ SinMatar(kernel', {"BLOCKED"}) => ColasIO(kernel, kernel')
  <1>0. KernelOK(kernel) /\ kernel \in KernelType /\ KernelOK(kernel')
      BY ConsolaTipos, TiposPorPartes DEF KernelOK
  <1>a. ASSUME NEW k, MismoSemaforo(kernel, k), k.sirviendo = kernel.sirviendo
        PROVE  ColasIO(kernel, k)
      BY <1>a DEF MismoSemaforo, ColasIO
  <1>b. "NEW" \in Estado /\ "RUNNING" \in Estado /\ "BLOCKED" \in Estado
      BY DEF Estado
  <1>1. ASSUME NEW b \in BOOLEAN, IniciarProceso(b)
        PROVE  Bien(kernel, kernel') /\ Paso(kernel, kernel') /\ ColasIO(kernel, kernel')
    <2> DEFINE p == kernel.contador
    <2>1. /\ p < CantPids
          /\ \/ kernel' = [kernel EXCEPT !.contador = p + 1, !.estado[p] = "NEW",
                                         !.cola_NEW = Append(@, p)]
             \/ kernel' = [kernel EXCEPT !.contador = p + 1]
        BY <1>1 DEF IniciarProceso
    <2>2. /\ Bien(kernel, kernel') /\ Quieto(kernel, kernel') /\ MismoSemaforo(kernel, kernel')
          /\ kernel'.sirviendo = kernel.sirviendo
        BY <1>0, <2>1, Alta
    <2> QED BY <1>a, <2>2 DEF Paso
  <1>2. CASE IniciarPlanificacion
    <2> DEFINE k1 == [kernel EXCEPT !.pausada = FALSE]
               k2 == evaluar_NEW_a_READY(k1)
    <2>1. kernel' = evaluar_READY_a_EXEC(k2)
        BY <1>2 DEF IniciarPlanificacion
    <2>2. /\ Ordenado(k1) /\ Quieto(kernel, k1) /\ MismoSemaforo(kernel, k1)
          /\ k1.estado = kernel.estado /\ k1.sirviendo = kernel.sirviendo
      <3>1. Ajustado(kernel, k1)
          BY DEF Ajustado
      <3> QED BY <3>1, Ajuste
    <2> HIDE DEF k1
    <2>3. /\ Ordenado(k2) /\ Admision(k1, k2) /\ Quieto(k1, k2) /\ MismoSemaforo(k1, k2)
        BY <2>2, AdmisionOrden
    <2> HIDE DEF k2
    <2>4. /\ Ordenado(kernel') /\ Fijo(k2, kernel') /\ MismoSemaforo(k2, kernel') /\ Paso(k2, kernel')
          /\ kernel'.sirviendo = k2.sirviendo /\ kernel'.cant = k2.cant
        BY <2>1, <2>3, ReadyExec
    <2>5. Paso(kernel, kernel') /\ MismoSemaforo(kernel, kernel') /\ kernel'.sirviendo = kernel.sirviendo
      <3>1. Quieto(kernel, k2) /\ MismoSemaforo(kernel, k2) /\ k2.sirviendo = kernel.sirviendo
          BY <2>2, <2>3 DEF Quieto, MismoSemaforo, Admision
      <3>2. MismoSemaforo(kernel, kernel') /\ kernel'.sirviendo = kernel.sirviendo
          BY <2>4, <3>1 DEF MismoSemaforo
      <3>3. Paso(kernel, kernel')
          BY <2>4, <3>1 DEF Paso, Quieto, Despachado
      <3> QED BY <3>2, <3>3
    <2>6. \A p \in Pid : kernel.estado[p] = "EXIT" => kernel'.estado[p] = "EXIT"
        BY <2>2, <2>3, <2>4 DEF Admision, Fijo
    <2>7. kernel.cola_RUNNING # <<>> => Ocupa(kernel, kernel')
        BY <2>5 DEF Paso, Quieto, Despachado, Ocupa
    <2>8. Sem(kernel) => Sem(kernel')
        BY <2>5, SemMismo
    <2> QED BY <1>a, <2>4, <2>5, <2>6, <2>7, <2>8 DEF Bien
  <1>3. CASE DetenerPlanificacion
    <2>1. kernel' = [kernel EXCEPT !.pausada = TRUE]
        BY <1>3 DEF DetenerPlanificacion
    <2>2. /\ Ordenado(kernel') /\ Quieto(kernel, kernel') /\ MismoSemaforo(kernel, kernel')
          /\ kernel'.estado = kernel.estado /\ kernel'.sirviendo = kernel.sirviendo
      <3>1. Ajustado(kernel, kernel')
          BY <2>1 DEF Ajustado
      <3> QED BY <3>1, Ajuste
    <2>3. Bien(kernel, kernel')
        BY <2>2, BienInmovil DEF Quieto
    <2> QED BY <1>a, <2>2, <2>3 DEF Paso
  <1>4. ASSUME NEW g \in Grados, Multiprogramacion(g)
        PROVE  Bien(kernel, kernel') /\ Paso(kernel, kernel') /\ ColasIO(kernel, kernel')
    <2> DEFINE k1 == [kernel EXCEPT !.grado = g]
    <2>1. kernel' = evaluar_NEW_a_READY(k1) /\ g \in Int
        BY <1>4, ConstantesOK DEF Multiprogramacion
    <2>2. /\ Ordenado(k1) /\ Quieto(kernel, k1) /\ MismoSemaforo(kernel, k1)
          /\ k1.estado = kernel.estado /\ k1.sirviendo = kernel.sirviendo
      <3>1. Ajustado(kernel, k1)
          BY <2>1 DEF Ajustado
      <3> QED BY <3>1, Ajuste
    <2> HIDE DEF k1
    <2>3. /\ Ordenado(kernel') /\ Admision(k1, kernel') /\ Quieto(k1, kernel')
          /\ MismoSemaforo(k1, kernel')
        BY <2>1, <2>2, AdmisionOrden
    <2>4. /\ Quieto(kernel, kernel') /\ MismoSemaforo(kernel, kernel')
          /\ kernel'.sirviendo = kernel.sirviendo
        BY <2>2, <2>3 DEF Quieto, MismoSemaforo, Admision
    <2>5. \A p \in Pid : kernel.estado[p] = "EXIT" => kernel'.estado[p] = "EXIT"
        BY <2>2, <2>3 DEF Admision
    <2>6. kernel.cola_RUNNING # <<>> => Ocupa(kernel, kernel')
        BY <2>4 DEF Quieto, Ocupa
    <2>7. Sem(kernel) => Sem(kernel')
        BY <2>4, SemMismo
    <2>8. Bien(kernel, kernel')
        BY <2>3, <2>5, <2>6, <2>7 DEF Bien
    <2> QED BY <1>a, <2>4, <2>8 DEF Paso
  <1>c. Quieto(kernel, kernel) /\ MismoSemaforo(kernel, kernel)
      BY DEF Quieto, MismoSemaforo
  <1>5. ASSUME NEW p \in Pid, FinalizarInexistente(p)
        PROVE  Bien(kernel, kernel') /\ Paso(kernel, kernel') /\ ColasIO(kernel, kernel')
    <2>1. kernel' = Planificar(kernel)
        BY <1>5 DEF FinalizarInexistente
    <2>2. FueraDeCPU(kernel, kernel)
        BY DEF FueraDeCPU, Fijo, Quieto
    <2>3. /\ Bien(kernel, kernel') /\ Paso(kernel, kernel') /\ MismoSemaforo(kernel, kernel')
          /\ kernel'.sirviendo = kernel.sirviendo
        BY <1>c, <2>1, <2>2, Finaliza
    <2> QED BY <1>a, <2>3
  <1>6. ASSUME NEW p \in Pid, FinalizarNew(p)
        PROVE  Bien(kernel, kernel') /\ Paso(kernel, kernel') /\ ColasIO(kernel, kernel')
    <2> DEFINE k1 == Matado("NEW")
    <2>1. PICK o \in Ordenes(kernel, p) :
            kernel' = Planificar(evaluar_NEW_a_EXIT(sacarle_sus_recursos(k1, p, o), p))
        BY <1>6 DEF FinalizarNew
    <2>2. /\ Ordenado(k1) /\ k1.estado = kernel.estado /\ Quieto(kernel, k1) /\ MismoSemaforo(kernel, k1)
          /\ k1.sirviendo = kernel.sirviendo /\ k1.matados = kernel.matados \cup {"NEW"}
        BY <1>b, MatadoOrden DEF Matado
    <2>3. o \in Ordenes(k1, p) /\ k1.estado[p] = "NEW"
        BY <1>0, <1>6, <1>b, <2>2, MatadoTipo DEF FinalizarNew, Matable
    <2> HIDE DEF k1
    <2> DEFINE k2 == sacarle_sus_recursos(k1, p, o)
               k3 == evaluar_NEW_a_EXIT(k2, p)
    <2>4. /\ Ordenado(k2) /\ FueraDeCPU(k1, k2) /\ k2.sirviendo = k1.sirviendo /\ k2.estado[p] = "NEW"
          /\ \A i \in Interfaz : k2.bloqueados[i] = k1.bloqueados[i]
      <3>1. /\ Ordenado(k2) /\ FueraDeCPU(k1, k2) /\ k2.sirviendo = k1.sirviendo
            /\ \A i \in Interfaz : k2.bloqueados[i] = k1.bloqueados[i]
          BY <2>2, <2>3, Sacar
      <3>2. \A q \in Pid : \/ k2.estado[q] = k1.estado[q]
                           \/ k1.estado[q] = "BLOCKED"
          BY <2>2, <2>3, Sacar
      <3> QED BY <2>3, <3>1, <3>2
    <2>5. ~SinMatar(k2, {"NEW"})
        BY <2>2, <2>4 DEF FueraDeCPU, Fijo, SinMatar
    <2> HIDE DEF k2
    <2>6. Ordenado(k3) /\ FueraDeCPU(k2, k3) /\ MismoSemaforo(k2, k3) /\ k3.sirviendo = k2.sirviendo
        BY <2>4, <2>5, NewExit
    <2>7. FueraDeCPU(k1, k3) /\ (Sem(k1) => Sem(k3))
      <3>1. Sem(k2) => Sem(k3)
          BY <2>6, SemMismo
      <3> QED BY <2>2, <2>3, <2>6, <3>1, Confisca DEF k2
    <2>8. kernel' = Planificar(k3)
        BY <2>1 DEF k2
    <2> HIDE DEF k3
    <2>9. /\ Bien(kernel, kernel') /\ Paso(kernel, kernel') /\ MismoSemaforo(k3, kernel')
          /\ kernel'.sirviendo = k3.sirviendo
        BY <2>2, <2>6, <2>7, <2>8, Finaliza
    <2>10. ColasIO(kernel, kernel')
        BY <2>2, <2>4, <2>6, <2>9 DEF ColasIO, MismoSemaforo
    <2> QED BY <2>9, <2>10
  <1>7. ASSUME NEW p \in Pid, FinalizarReady(p)
        PROVE  Bien(kernel, kernel') /\ Paso(kernel, kernel') /\ ColasIO(kernel, kernel')
    <2>1. PICK o \in Ordenes(kernel, p) :
            kernel' = Planificar(evaluar_READY_a_EXIT(sacarle_sus_recursos(kernel, p, o), p))
        BY <1>7 DEF FinalizarReady
    <2>3. kernel.estado[p] = "READY"
        BY <1>7 DEF FinalizarReady, Matable
    <2> DEFINE k2 == sacarle_sus_recursos(kernel, p, o)
               k3 == evaluar_READY_a_EXIT(k2, p)
    <2>4. /\ Ordenado(k2) /\ FueraDeCPU(kernel, k2) /\ k2.sirviendo = kernel.sirviendo
          /\ k2.estado[p] = "READY" /\ \A i \in Interfaz : k2.bloqueados[i] = kernel.bloqueados[i]
      <3>1. /\ Ordenado(k2) /\ FueraDeCPU(kernel, k2) /\ k2.sirviendo = kernel.sirviendo
            /\ \A i \in Interfaz : k2.bloqueados[i] = kernel.bloqueados[i]
          BY Sacar
      <3>2. \A q \in Pid : \/ k2.estado[q] = kernel.estado[q]
                           \/ kernel.estado[q] = "BLOCKED"
          BY Sacar
      <3> QED BY <2>3, <3>1, <3>2
    <2> HIDE DEF k2
    <2>6. Ordenado(k3) /\ FueraDeCPU(k2, k3) /\ MismoSemaforo(k2, k3) /\ k3.sirviendo = k2.sirviendo
        BY <2>4, ReadyExit
    <2>7. FueraDeCPU(kernel, k3) /\ (Sem(kernel) => Sem(k3))
      <3>1. Sem(k2) => Sem(k3)
          BY <2>6, SemMismo
      <3> QED BY <2>6, <3>1, Confisca DEF k2
    <2>8. kernel' = Planificar(k3)
        BY <2>1 DEF k2
    <2> HIDE DEF k3
    <2>9. /\ Bien(kernel, kernel') /\ Paso(kernel, kernel') /\ MismoSemaforo(k3, kernel')
          /\ kernel'.sirviendo = k3.sirviendo
        BY <1>c, <2>6, <2>7, <2>8, Finaliza
    <2>10. ColasIO(kernel, kernel')
        BY <2>4, <2>6, <2>9 DEF ColasIO, MismoSemaforo
    <2> QED BY <2>9, <2>10
  <1>8. ASSUME NEW p \in Pid, FinalizarRunning(p) PROVE FALSE
    <2> DEFINE k1 == Matado("RUNNING")
    <2>1. PICK o \in Ordenes(kernel, p), v \in Restos :
            kernel' = Planificar(evaluar_EXEC_a_EXIT(sacarle_sus_recursos(k1, p, o), v))
        BY <1>8 DEF FinalizarRunning
    <2>2. Ordenado(k1) /\ k1.matados = kernel.matados \cup {"RUNNING"}
        BY <1>b, MatadoOrden DEF Matado
    <2>3. o \in Ordenes(k1, p)
        BY <1>0, <1>b, MatadoTipo
    <2> HIDE DEF k1
    <2> DEFINE k2 == sacarle_sus_recursos(k1, p, o)
               k3 == evaluar_EXEC_a_EXIT(k2, v)
    <2>4. Ordenado(k2) /\ FueraDeCPU(k1, k2)
        BY <2>2, <2>3, Sacar
    <2> DEFINE m == kernel.matados \cup {"RUNNING"}
    <2>5. Historia(k2, m)
        BY <2>2, <2>4 DEF FueraDeCPU, Fijo, Historia, Ordenado, KernelOK, KernelType
    <2>6. kernel' = Planificar(k3)
        BY <2>1
    <2> HIDE DEF k2, m
    <2>7. Historia(k3, m)
        BY <2>5, HistoriaDesaloja
    <2> HIDE DEF k3
    <2>8. Historia(kernel', m)
        BY <2>6, <2>7, HistoriaPlanifica
    <2>9. "RUNNING" \in kernel'.matados
        BY <2>8 DEF Historia, m
    <2> QED BY <2>9 DEF SinMatar
  <1>9. ASSUME NEW p \in Pid, FinalizarBlocked(p)
        PROVE  /\ Bien(kernel, kernel') /\ Paso(kernel, kernel')
               /\ SinMatar(kernel', {"BLOCKED"}) => ColasIO(kernel, kernel')
    <2> DEFINE k1 == Matado("BLOCKED")
    <2>1. PICK o \in Ordenes(kernel, p) :
            LET k == sacarle_sus_recursos(k1, p, o)
            IN  \/ \E c \in conseguir_tmb(k, p) : kernel' = Planificar(evaluar_BLOCKED_a_EXIT(k, p, c))
                \/ KernelSeCae
        BY <1>9 DEF FinalizarBlocked
    <2>2. /\ Ordenado(k1) /\ k1.estado = kernel.estado /\ Quieto(kernel, k1) /\ MismoSemaforo(kernel, k1)
          /\ k1.sirviendo = kernel.sirviendo /\ k1.matados = kernel.matados \cup {"BLOCKED"}
        BY <1>b, MatadoOrden DEF Matado
    <2>3. o \in Ordenes(k1, p)
        BY <1>0, <1>b, MatadoTipo
    <2> HIDE DEF k1
    <2> DEFINE k2 == sacarle_sus_recursos(k1, p, o)
    <2>4. Ordenado(k2) /\ FueraDeCPU(k1, k2)
        BY <2>2, <2>3, Sacar
    <2>5. \/ \E c \in conseguir_tmb(k2, p) : kernel' = Planificar(evaluar_BLOCKED_a_EXIT(k2, p, c))
          \/ KernelSeCae
        BY <2>1
    <2>6. ASSUME NEW c \in conseguir_tmb(k2, p), kernel' = Planificar(evaluar_BLOCKED_a_EXIT(k2, p, c))
          PROVE  Bien(kernel, kernel') /\ Paso(kernel, kernel') /\ ~SinMatar(kernel', {"BLOCKED"})
      <3> DEFINE k3 == evaluar_BLOCKED_a_EXIT(k2, p, c)
      <3>0. c \in conseguir_tmb(k2, p)
          BY <2>6
      <3> HIDE DEF k2
      <3>1. Ordenado(k3) /\ FueraDeCPU(k2, k3) /\ (Sem(k2) => Sem(k3))
          BY <2>4, <3>0, BlockedExit
      <3>2. kernel' = Planificar(k3)
          BY <2>6
      <3> HIDE DEF k3
      <3>3. FueraDeCPU(k1, k3) /\ (Sem(k1) => Sem(k3))
          BY <2>2, <2>3, <3>1, Confisca DEF k2
      <3>4. Bien(kernel, kernel') /\ Paso(kernel, kernel') /\ kernel'.matados = k3.matados
          BY <2>2, <3>1, <3>2, <3>3, Finaliza
      <3>5. k3.matados = k1.matados
          BY <3>3 DEF FueraDeCPU, Fijo
      <3> QED BY <2>2, <3>4, <3>5 DEF SinMatar
    <2>7. CASE KernelSeCae
      <3>1. /\ Bien(kernel, kernel') /\ Quieto(kernel, kernel') /\ MismoSemaforo(kernel, kernel')
            /\ kernel'.sirviendo = kernel.sirviendo
          BY <1>0, <2>7, SeCae
      <3> QED BY <1>a, <3>1 DEF Paso
    <2> HIDE DEF k2
    <2> QED BY <2>5, <2>6, <2>7
  <1>10. ASSUME NEW p \in Pid, FinalizarOtro(p)
         PROVE  Bien(kernel, kernel') /\ Paso(kernel, kernel') /\ ColasIO(kernel, kernel')
    <2>1. PICK o \in Ordenes(kernel, p) : kernel' = Planificar(sacarle_sus_recursos(kernel, p, o))
        BY <1>10 DEF FinalizarOtro
    <2> DEFINE k2 == sacarle_sus_recursos(kernel, p, o)
    <2>2. /\ Ordenado(k2) /\ FueraDeCPU(kernel, k2) /\ k2.sirviendo = kernel.sirviendo
          /\ (Sem(kernel) => Sem(k2)) /\ \A i \in Interfaz : k2.bloqueados[i] = kernel.bloqueados[i]
        BY Sacar
    <2>3. kernel' = Planificar(k2)
        BY <2>1
    <2> HIDE DEF k2
    <2>4. /\ Bien(kernel, kernel') /\ Paso(kernel, kernel') /\ MismoSemaforo(k2, kernel')
          /\ kernel'.sirviendo = k2.sirviendo
        BY <1>c, <2>2, <2>3, Finaliza
    <2>5. ColasIO(kernel, kernel')
        BY <2>2, <2>4 DEF ColasIO, MismoSemaforo
    <2> QED BY <2>4, <2>5
  <1> QED BY <1>1, <1>2, <1>3, <1>4, <1>5, <1>6, <1>7, <1>8, <1>9, <1>10 DEF Consola

(***************************************************************************)
(* The threads that answer the CPU                                         *)
(***************************************************************************)
(* Steps that write an answer or count threads and instances move nobody.  *)
Anota(k, k2) ==
  /\ Ordenado(k2) /\ Fijo(k, k2)
  /\ k2.estado = k.estado /\ k2.cola_RUNNING = k.cola_RUNNING
  /\ k2.bloqueados = k.bloqueados /\ k2.sirviendo = k.sirviendo

LEMMA AnotaCampos ==
  ASSUME NEW k, Ordenado(k), NEW k2, KernelOK(k2),
         k2.estado = k.estado, k2.cola_NEW = k.cola_NEW, k2.cola_READY = k.cola_READY,
         k2.cola_READY_PRIORITARIA = k.cola_READY_PRIORITARIA, k2.cola_RUNNING = k.cola_RUNNING,
         k2.bloqueados = k.bloqueados, k2.parcial = k.parcial,
         k2.cant = k.cant, k2.contador = k.contador, k2.matados = k.matados,
         k2.vivo = k.vivo, k2.grado = k.grado, k2.pausada = k.pausada, k2.sirviendo = k.sirviendo
  PROVE  Anota(k, k2)
  <1>1. Ordenado(k2)
      BY Inmovil DEF SinMatar
  <1>2. Fijo(k, k2)
      BY DEF Fijo
  <1> QED BY <1>1, <1>2 DEF Anota

LEMMA Termina ==
  ASSUME NEW k, Ordenado(k), NEW q \in Pid, Corre(k, q), NEW k2, k2 = TerminaHilo(k, q)
  PROVE  Anota(k, k2) /\ SinHilos(k2) /\ k2.dispatch = k.dispatch /\ MismoSemaforo(k, k2)
  <1>0. k \in KernelType /\ KernelOK(k) /\ k.hilos_respuesta \in [Pid -> Nat]
      BY OrdenadoTipo DEF Ordenado
  <1>1. k.hilos_respuesta[q] = 1 /\ \A r \in Pid : r # q => k.hilos_respuesta[r] = 0
      BY DEF Corre
  <1>2. KernelOK(k2)
    <2>1. 0 \in {0, 1} /\ k.hilos_respuesta[q] > 0
        BY <1>1
    <2> QED BY <1>0, <2>1, MensajesTipo
  <1>3. k2.hilos_respuesta = [k.hilos_respuesta EXCEPT ![q] = @ - 1]
      BY <1>0 DEF TerminaHilo, KernelType
  <1>4. SinHilos(k2)
      BY <1>0, <1>1, <1>3 DEF SinHilos
  <1>5. Anota(k, k2)
    <2>1. /\ k2.estado = k.estado /\ k2.cola_NEW = k.cola_NEW /\ k2.cola_READY = k.cola_READY
          /\ k2.cola_READY_PRIORITARIA = k.cola_READY_PRIORITARIA /\ k2.cola_RUNNING = k.cola_RUNNING
          /\ k2.bloqueados = k.bloqueados /\ k2.parcial = k.parcial
          /\ k2.cant = k.cant /\ k2.contador = k.contador /\ k2.matados = k.matados
          /\ k2.vivo = k.vivo /\ k2.grado = k.grado /\ k2.pausada = k.pausada
          /\ k2.sirviendo = k.sirviendo
        BY <1>0 DEF TerminaHilo, KernelType
    <2> QED BY <1>2, <2>1, AnotaCampos
  <1>6. k2.dispatch = k.dispatch /\ MismoSemaforo(k, k2)
      BY <1>0 DEF TerminaHilo, KernelType, MismoSemaforo
  <1> QED BY <1>4, <1>5, <1>6

LEMMA Contesta ==
  ASSUME NEW k, Ordenado(k), NEW n \in {0, 1}, k.dispatch = <<>>, NEW k2, k2 = Responder(k, n)
  PROVE  /\ Anota(k, k2) /\ k2.hilos_respuesta = k.hilos_respuesta
         /\ k2.dispatch = <<RESP(n)>> /\ MismoSemaforo(k, k2)
  <1>0. k \in KernelType /\ KernelOK(k) /\ KernelOK(k2)
      BY OrdenadoTipo, MensajesTipo DEF Ordenado
  <1>1. k2.dispatch = Append(k.dispatch, RESP(n))
      BY <1>0 DEF Responder, KernelType, RESP
  <1>2. \A m : Append(<<>>, m) = <<m>>
      OBVIOUS
  <1>3. k2.dispatch = <<RESP(n)>>
      BY <1>1, <1>2
  <1>5. Anota(k, k2)
    <2>1. /\ k2.estado = k.estado /\ k2.cola_NEW = k.cola_NEW /\ k2.cola_READY = k.cola_READY
          /\ k2.cola_READY_PRIORITARIA = k.cola_READY_PRIORITARIA /\ k2.cola_RUNNING = k.cola_RUNNING
          /\ k2.bloqueados = k.bloqueados /\ k2.parcial = k.parcial
          /\ k2.cant = k.cant /\ k2.contador = k.contador /\ k2.matados = k.matados
          /\ k2.vivo = k.vivo /\ k2.grado = k.grado /\ k2.pausada = k.pausada
          /\ k2.sirviendo = k.sirviendo
        BY <1>0 DEF Responder, KernelType
    <2> QED BY <1>0, <2>1, AnotaCampos
  <1>6. k2.hilos_respuesta = k.hilos_respuesta /\ MismoSemaforo(k, k2)
      BY <1>0 DEF Responder, KernelType, MismoSemaforo
  <1> QED BY <1>3, <1>5, <1>6

(* WAIT takes an instance, which may then be owed; SIGNAL gives one back.  *)
LEMMA Asigna ==
  ASSUME NEW k, Ordenado(k), NEW r \in Recurso, NEW q \in Pid, NEW k2, k2 = asignar_recurso(k, r, q)
  PROVE  /\ Anota(k, k2) /\ k2.hilos_respuesta = k.hilos_respuesta /\ k2.dispatch = k.dispatch
         /\ Sem(k) => SemSalvo(k2, r) /\ (k2.instancias[r] >= 0 => Sem(k2))
  <1>0. /\ k \in KernelType /\ KernelOK(k) /\ KernelOK(k2)
        /\ k.instancias \in [Recurso -> Int] /\ k.bloqueados \in [Clave -> Seq(Pid)]
      BY OrdenadoTipo, RecursosTipo DEF Ordenado, KernelType
  <1>1. Anota(k, k2)
    <2>1. /\ k2.estado = k.estado /\ k2.cola_NEW = k.cola_NEW /\ k2.cola_READY = k.cola_READY
          /\ k2.cola_READY_PRIORITARIA = k.cola_READY_PRIORITARIA /\ k2.cola_RUNNING = k.cola_RUNNING
          /\ k2.bloqueados = k.bloqueados /\ k2.parcial = k.parcial
          /\ k2.cant = k.cant /\ k2.contador = k.contador /\ k2.matados = k.matados
          /\ k2.vivo = k.vivo /\ k2.grado = k.grado /\ k2.pausada = k.pausada
          /\ k2.sirviendo = k.sirviendo
        BY <1>0 DEF asignar_recurso, KernelType
    <2> QED BY <1>0, <2>1, AnotaCampos
  <1>2. k2.hilos_respuesta = k.hilos_respuesta /\ k2.dispatch = k.dispatch
        /\ k2.instancias = [k.instancias EXCEPT ![r] = @ - 1]
      BY <1>0 DEF asignar_recurso, KernelType
  <1>3. /\ k2.bloqueados = k.bloqueados
        /\ \A s \in Recurso : /\ k.instancias[s] \in Int /\ Len(k.bloqueados[s]) \in Nat
                              /\ k2.instancias[s] = IF s = r THEN k.instancias[s] - 1
                                                    ELSE k.instancias[s]
    <2>1. \A s \in Recurso : s \in Clave
        BY DEF Clave
    <2>2. \A s \in Recurso : k.instancias[s] \in Int /\ k.bloqueados[s] \in Seq(Pid)
        BY <1>0, <2>1
    <2> QED BY <1>0, <1>1, <1>2, <2>2, LenProperties DEF Anota
  <1>4. ASSUME Sem(k) PROVE SemSalvo(k2, r) /\ (k2.instancias[r] >= 0 => Sem(k2))
    <2>1. ASSUME NEW s \in Recurso
          PROVE  /\ -k2.instancias[s] <= Len(k2.bloqueados[s]) + (IF s = r THEN 1 ELSE 0)
                 /\ k2.instancias[r] >= 0 => -k2.instancias[s] <= Len(k2.bloqueados[s])
      <3>1. /\ -k.instancias[s] <= Len(k.bloqueados[s])
            /\ k.instancias[s] \in Int /\ Len(k.bloqueados[s]) \in Nat
            /\ Len(k2.bloqueados[s]) = Len(k.bloqueados[s])
          BY <1>3, <1>4 DEF Sem
      <3>2. CASE s = r
        <4>1. k2.instancias[s] = k.instancias[s] - 1
            BY <1>3, <3>2
        <4> QED BY <3>1, <3>2, <4>1
      <3>3. CASE s # r
        <4>1. k2.instancias[s] = k.instancias[s]
            BY <1>3, <3>3
        <4> QED BY <3>1, <3>3, <4>1
      <3> QED BY <3>2, <3>3
    <2> QED BY <2>1 DEF Sem, SemSalvo
  <1> QED BY <1>1, <1>2, <1>4

LEMMA Desasigna ==
  ASSUME NEW k, Ordenado(k), NEW r \in Recurso, NEW q \in Pid, NEW k2, k2 = desasignar_recurso(k, r, q)
  PROVE  /\ Anota(k, k2) /\ k2.hilos_respuesta = k.hilos_respuesta /\ k2.dispatch = k.dispatch
         /\ Sem(k) => Sem(k2)
  <1>0. /\ k \in KernelType /\ KernelOK(k) /\ KernelOK(k2)
        /\ k.instancias \in [Recurso -> Int] /\ k.bloqueados \in [Clave -> Seq(Pid)]
      BY OrdenadoTipo, RecursosTipo DEF Ordenado, KernelType
  <1>1. Anota(k, k2)
    <2>1. /\ k2.estado = k.estado /\ k2.cola_NEW = k.cola_NEW /\ k2.cola_READY = k.cola_READY
          /\ k2.cola_READY_PRIORITARIA = k.cola_READY_PRIORITARIA /\ k2.cola_RUNNING = k.cola_RUNNING
          /\ k2.bloqueados = k.bloqueados /\ k2.parcial = k.parcial
          /\ k2.cant = k.cant /\ k2.contador = k.contador /\ k2.matados = k.matados
          /\ k2.vivo = k.vivo /\ k2.grado = k.grado /\ k2.pausada = k.pausada
          /\ k2.sirviendo = k.sirviendo
        BY <1>0 DEF desasignar_recurso, KernelType
    <2> QED BY <1>0, <2>1, AnotaCampos
  <1>2. k2.hilos_respuesta = k.hilos_respuesta /\ k2.dispatch = k.dispatch
        /\ k2.instancias = [k.instancias EXCEPT ![r] = @ + 1]
      BY <1>0 DEF desasignar_recurso, KernelType
  <1>3. /\ k2.bloqueados = k.bloqueados
        /\ \A s \in Recurso : /\ k.instancias[s] \in Int /\ Len(k.bloqueados[s]) \in Nat
                              /\ k2.instancias[s] = IF s = r THEN k.instancias[s] + 1
                                                    ELSE k.instancias[s]
    <2>1. \A s \in Recurso : s \in Clave
        BY DEF Clave
    <2>2. \A s \in Recurso : k.instancias[s] \in Int /\ k.bloqueados[s] \in Seq(Pid)
        BY <1>0, <2>1
    <2> QED BY <1>0, <1>1, <1>2, <2>2, LenProperties DEF Anota
  <1>4. ASSUME Sem(k), NEW s \in Recurso PROVE -k2.instancias[s] <= Len(k2.bloqueados[s])
    <2>1. -k.instancias[s] <= Len(k.bloqueados[s])
        BY <1>4 DEF Sem
    <2> QED BY <1>3, <2>1
  <1> QED BY <1>1, <1>2, <1>4 DEF Sem

(* Ways to leave the CPU, from k1, which is k when the answer is written.  *)
LEMMA SalePorExit ==
  ASSUME NEW k, NEW k1, Ordenado(k1), Fijo(k, k1), Sem(k) => Sem(k1), SinHilos(k1),
         NEW q \in Pid, k1.cola_RUNNING = <<q>>, NEW v \in Restos,
         NEW k2, k2 = evaluar_EXEC_a_EXIT(k1, v)
  PROVE  /\ Bien(k, k2) /\ Entrega(k2, k1.dispatch)
         /\ k2.bloqueados = k1.bloqueados /\ k2.sirviendo = k1.sirviendo
  <1>1. /\ Ordenado(k2) /\ Avance(k1, k2) /\ Ocupa(k1, k2) /\ Entrega(k2, k1.dispatch)
        /\ MismoSemaforo(k1, k2) /\ k2.sirviendo = k1.sirviendo
      BY RestosTipo, ExecExit
  <1>2. Sem(k) => Sem(k2)
      BY <1>1, SemMismo
  <1>3. Ocupa(k, k2)
      BY <1>1 DEF Ocupa, Fijo
  <1>4. \A p \in Pid : k.estado[p] = "EXIT" => k2.estado[p] = "EXIT"
    <2>1. \A p \in Pid : k1.estado[p] = "EXIT" => k2.estado[p] # "READY"
        BY <1>1 DEF Avance
    <2> QED BY <1>1, <2>1 DEF Avance, Fijo
  <1> QED BY <1>1, <1>2, <1>3, <1>4 DEF Bien, MismoSemaforo

LEMMA SalePorBlocked ==
  ASSUME NEW k, NEW k1, Ordenado(k1), Fijo(k, k1), NEW c \in Clave, Sem(k) => SemSalvo(k1, c),
         SinHilos(k1), NEW q \in Pid, k1.cola_RUNNING = <<q>>, NEW v \in Restos,
         NEW k2, k2 = evaluar_EXEC_a_BLOCKED(k1, c, v)
  PROVE  /\ Bien(k, k2) /\ Entrega(k2, k1.dispatch) /\ k2.sirviendo = k1.sirviendo
         /\ k2.bloqueados = [k1.bloqueados EXCEPT ![c] = Append(@, q)]
  <1>1. /\ Ordenado(k2) /\ Fijo(k1, k2) /\ Entrega(k2, k1.dispatch) /\ SinListos(k2)
        /\ SemSalvo(k1, c) => Sem(k2)
        /\ k2.sirviendo = k1.sirviendo
        /\ k2.bloqueados = [k1.bloqueados EXCEPT ![c] = Append(@, q)]
      BY RestosTipo, ExecBlocked
  <1>2. Fijo(k, k2)
      BY <1>1, FijoSigue
  <1>3. Ocupa(k, k2) /\ Avance(k, k2)
      BY <1>1, <1>2, ListosOcupa, FijoAvance
  <1>4. Bien(k, k2)
      BY <1>1, <1>3, BienAvance
  <1> QED BY <1>1, <1>4

LEMMA SalePorReady ==
  ASSUME NEW k, NEW k1, Ordenado(k1), Fijo(k, k1), Sem(k) => Sem(k1), SinHilos(k1),
         NEW q \in Pid, k1.cola_RUNNING = <<q>>, NEW v \in Restos,
         NEW k2, k2 = evaluar_EXEC_a_READY(k1, v)
  PROVE  /\ Bien(k, k2) /\ Entrega(k2, k1.dispatch)
         /\ k2.bloqueados = k1.bloqueados /\ k2.sirviendo = k1.sirviendo
  <1>1. /\ Ordenado(k2) /\ Fijo(k1, k2) /\ Entrega(k2, k1.dispatch) /\ SinListos(k2)
        /\ MismoSemaforo(k1, k2) /\ k2.sirviendo = k1.sirviendo
      BY RestosTipo, ExecReady
  <1>2. Fijo(k, k2)
      BY <1>1, FijoSigue
  <1>3. Ocupa(k, k2) /\ Avance(k, k2) /\ (Sem(k) => Sem(k2))
      BY <1>1, <1>2, ListosOcupa, FijoAvance, SemMismo
  <1>4. Bien(k, k2)
      BY <1>1, <1>3, BienAvance
  <1> QED BY <1>1, <1>4 DEF MismoSemaforo

(* Answers after which the process stays in the CPU.                       *)
LEMMA Sigue ==
  ASSUME NEW k, NEW k2, Ordenado(k2), Fijo(k, k2), Sem(k) => Sem(k2),
         k2.cola_RUNNING = k.cola_RUNNING
  PROVE  Bien(k, k2)
  <1>1. Avance(k, k2)
      BY FijoAvance
  <1> QED BY <1>1, BienAvance

LEMMA ColasIOIguales ==
  ASSUME NEW k, NEW k2, k2.bloqueados = k.bloqueados, k2.sirviendo = k.sirviendo
  PROVE  ColasIO(k, k2)
  BY DEF ColasIO

(* A message is answered by the thread of the process that runs.           *)
LEMMA Atendida ==
  ASSUME Tipos, Ficha(kernel, cpu, a_kernel), NEW q \in Pid, NEW mo, Atiende(q, mo)
  PROVE  /\ Corre(kernel, q) /\ kernel.dispatch = <<>> /\ cpu' = cpu /\ a_kernel' = <<>>
         /\ Head(a_kernel) \in Mensaje /\ Head(a_kernel).motivo = mo /\ Head(a_kernel).pid = q
         /\ Pregunta(cpu, Head(a_kernel))
  <1>1. a_kernel # <<>> /\ kernel.hilos_respuesta[q] > 0 /\ Head(a_kernel).motivo = mo
        /\ a_kernel' = Tail(a_kernel) /\ cpu' = cpu
      BY DEF Atiende
  <1>2. PICK p \in Pid : Corre(kernel, p) /\ EnMensaje(kernel, cpu, a_kernel, p)
      BY <1>1 DEF Ficha, Libre, Rechazada, EnCPU, Ejecuta, Aceptada, Perdida
  <1>3. p = q
      BY <1>1, <1>2 DEF Corre
  <1>4. PICK m \in Mensaje : a_kernel = <<m>> /\ m.pid = p /\ Pregunta(cpu, m) /\ kernel.dispatch = <<>>
      BY <1>2 DEF EnMensaje
  <1>5. Head(a_kernel) = m /\ Tail(a_kernel) = <<>>
    <2>1. Head(<<m>>) = m /\ Tail(<<m>>) = <<>>
        OBVIOUS
    <2> QED BY <1>4, <2>1
  <1> QED BY <1>1, <1>2, <1>3, <1>4, <1>5

LEMMA RespuestasOrden ==
  ASSUME Tipos, Ordenado(kernel), Ficha(kernel, cpu, a_kernel), Respuestas
  PROVE  /\ Bien(kernel, kernel') /\ ColasIO(kernel, kernel')
         /\ Ficha(kernel', cpu', a_kernel')
  <1> DEFINE Final == /\ Bien(kernel, kernel') /\ ColasIO(kernel, kernel')
                      /\ Ficha(kernel', cpu', a_kernel')
  <1>a. kernel.cola_RUNNING \in Seq(Pid) /\ kernel.conectadas \in SUBSET Interfaz
      BY OrdenadoTipo DEF KernelType
  <1>b. ASSUME NEW q \in Pid, NEW mo, Atiende(q, mo)
        PROVE  /\ Corre(kernel, q) /\ kernel.cola_RUNNING = <<q>> /\ kernel.dispatch = <<>>
               /\ cpu' = cpu /\ a_kernel' = <<>>
               /\ Head(a_kernel).motivo = mo /\ Head(a_kernel).pid = q
               /\ Pregunta(cpu, Head(a_kernel))
      BY <1>b, Atendida DEF Corre
  <1>c. ASSUME cpu.fase = "libre", cpu' = cpu, a_kernel' = <<>>, Entrega(kernel', <<>>)
        PROVE  Ficha(kernel', cpu', a_kernel')
      BY <1>c DEF Ficha, Libre
  <1>d. ASSUME cpu.fase = "espera_wait", cpu' = cpu, a_kernel' = <<>>, Entrega(kernel', <<RESP(1)>>)
        PROVE  Ficha(kernel', cpu', a_kernel')
      BY <1>d DEF Ficha, Rechazada
  <1>e. ASSUME cpu.fase \in {"espera_wait", "espera_signal"}, cpu' = cpu, a_kernel' = <<>>,
               NEW q \in Pid, cpu.pid = q, Corre(kernel', q), kernel'.dispatch = <<RESP(0)>>
        PROVE  Ficha(kernel', cpu', a_kernel')
      BY <1>e DEF Ficha, EnCPU, Aceptada
  <1>f. Sem(kernel) => Sem(kernel)
      OBVIOUS
  <1>g. ASSUME NEW q \in Pid, Corre(kernel, q), NEW k1, k1 = TerminaHilo(kernel, q)
        PROVE  /\ Ordenado(k1) /\ Fijo(kernel, k1) /\ SinHilos(k1) /\ (Sem(kernel) => Sem(k1))
               /\ k1.cola_RUNNING = <<q>> /\ k1.dispatch = kernel.dispatch
               /\ k1.bloqueados = kernel.bloqueados /\ k1.sirviendo = kernel.sirviendo
    <2>1. Anota(kernel, k1) /\ SinHilos(k1) /\ k1.dispatch = kernel.dispatch /\ MismoSemaforo(kernel, k1)
        BY <1>g, Termina
    <2>2. Sem(kernel) => Sem(k1)
        BY <2>1, SemMismo
    <2> QED BY <1>g, <2>1, <2>2 DEF Anota, Corre
  <1>1. ASSUME NEW q \in Pid, AtenderExit(q) PROVE Final
    <2>1. PICK v \in Restos : kernel' = evaluar_EXEC_a_EXIT(TerminaHilo(kernel, q), v)
        BY <1>1 DEF AtenderExit
    <2> DEFINE k1 == TerminaHilo(kernel, q)
    <2>2. /\ Corre(kernel, q) /\ kernel.dispatch = <<>> /\ cpu' = cpu /\ a_kernel' = <<>>
          /\ cpu.fase = "libre"
        BY <1>1, <1>b DEF AtenderExit, Pregunta
    <2>3. /\ Ordenado(k1) /\ Fijo(kernel, k1) /\ SinHilos(k1) /\ (Sem(kernel) => Sem(k1))
          /\ k1.cola_RUNNING = <<q>> /\ k1.dispatch = kernel.dispatch
          /\ k1.bloqueados = kernel.bloqueados /\ k1.sirviendo = kernel.sirviendo
        BY <1>g, <2>2
    <2>4. kernel' = evaluar_EXEC_a_EXIT(k1, v)
        BY <2>1
    <2> HIDE DEF k1
    <2>5. /\ Bien(kernel, kernel') /\ Entrega(kernel', k1.dispatch)
          /\ kernel'.bloqueados = k1.bloqueados /\ kernel'.sirviendo = k1.sirviendo
        BY <2>3, <2>4, SalePorExit
    <2>6. ColasIO(kernel, kernel')
        BY <2>3, <2>5, ColasIOIguales
    <2> QED BY <1>c, <2>2, <2>3, <2>5, <2>6
  <1>2. ASSUME NEW q \in Pid, AtenderOutOfMemory(q) PROVE Final
    <2>1. PICK o \in Ordenes(kernel, q), v \in Restos :
            kernel' = evaluar_EXEC_a_EXIT(TerminaHilo(sacarle_sus_recursos(kernel, q, o), q), v)
        BY <1>2 DEF AtenderOutOfMemory
    <2> DEFINE k0 == sacarle_sus_recursos(kernel, q, o)
               k1 == TerminaHilo(k0, q)
    <2>2. /\ Corre(kernel, q) /\ kernel.dispatch = <<>> /\ cpu' = cpu /\ a_kernel' = <<>>
          /\ cpu.fase = "libre"
        BY <1>2, <1>b DEF AtenderOutOfMemory, Pregunta
    <2>3. /\ Ordenado(k0) /\ FueraDeCPU(kernel, k0) /\ k0.sirviendo = kernel.sirviendo
          /\ (Sem(kernel) => Sem(k0)) /\ \A i \in Interfaz : k0.bloqueados[i] = kernel.bloqueados[i]
        BY Sacar
    <2>4. kernel' = evaluar_EXEC_a_EXIT(k1, v)
        BY <2>1
    <2> HIDE DEF k0
    <2>5. Corre(k0, q) /\ k0.dispatch = <<>>
        BY <2>2, <2>3 DEF FueraDeCPU, Quieto, Corre
    <2>6. Anota(k0, k1) /\ SinHilos(k1) /\ k1.dispatch = k0.dispatch /\ MismoSemaforo(k0, k1)
        BY <2>3, <2>5, Termina
    <2> HIDE DEF k1
    <2>7. /\ Ordenado(k1) /\ Fijo(kernel, k1) /\ k1.cola_RUNNING = <<q>> /\ k1.dispatch = <<>>
          /\ (Sem(kernel) => Sem(k1))
      <3>1. Fijo(kernel, k1)
          BY <2>3, <2>6, FijoSigue DEF Anota, FueraDeCPU
      <3>2. Sem(kernel) => Sem(k1)
          BY <2>3, <2>6, SemMismo
      <3> QED BY <2>5, <2>6, <3>1, <3>2 DEF Anota, Corre
    <2>8. /\ Bien(kernel, kernel') /\ Entrega(kernel', k1.dispatch)
          /\ kernel'.bloqueados = k1.bloqueados /\ kernel'.sirviendo = k1.sirviendo
        BY <2>4, <2>6, <2>7, SalePorExit
    <2>9. ColasIO(kernel, kernel')
        BY <2>3, <2>6, <2>8 DEF ColasIO, Anota
    <2> QED BY <1>c, <2>2, <2>7, <2>8, <2>9
  <1>3. ASSUME NEW q \in Pid, AtenderWait(q) PROVE Final
    <2> DEFINE r == Head(a_kernel).arg
    <2>1. /\ Corre(kernel, q) /\ kernel.cola_RUNNING = <<q>> /\ kernel.dispatch = <<>>
          /\ cpu' = cpu /\ a_kernel' = <<>> /\ cpu.fase = "espera_wait" /\ cpu.pid = q
        BY <1>3, <1>b DEF AtenderWait, Pregunta
    <2>2. CASE r \notin Recurso
      <3>1. PICK v \in Restos : kernel' = evaluar_EXEC_a_EXIT(Responder(TerminaHilo(kernel, q), 1), v)
          BY <1>3, <2>2 DEF AtenderWait
      <3> DEFINE k1 == TerminaHilo(kernel, q)
                 k2 == Responder(k1, 1)
      <3>2. /\ Ordenado(k1) /\ Fijo(kernel, k1) /\ SinHilos(k1) /\ (Sem(kernel) => Sem(k1))
            /\ k1.cola_RUNNING = <<q>> /\ k1.dispatch = kernel.dispatch
            /\ k1.bloqueados = kernel.bloqueados /\ k1.sirviendo = kernel.sirviendo
          BY <1>g, <2>1
      <3>3. kernel' = evaluar_EXEC_a_EXIT(k2, v)
          BY <3>1
      <3> HIDE DEF k1
      <3>4. /\ Anota(k1, k2) /\ k2.hilos_respuesta = k1.hilos_respuesta
            /\ k2.dispatch = <<RESP(1)>> /\ MismoSemaforo(k1, k2)
        <4>1. 1 \in {0, 1} /\ k1.dispatch = <<>>
            BY <2>1, <3>2
        <4> QED BY <3>2, <4>1, Contesta
      <3> HIDE DEF k2
      <3>5. Fijo(kernel, k2) /\ (Sem(kernel) => Sem(k2)) /\ SinHilos(k2)
        <4>1. Fijo(kernel, k2)
            BY <3>2, <3>4, FijoSigue DEF Anota
        <4>2. Sem(kernel) => Sem(k2)
            BY <3>2, <3>4, SemMismo
        <4> QED BY <3>2, <3>4, <4>1, <4>2 DEF SinHilos
      <3>6. /\ Bien(kernel, kernel') /\ Entrega(kernel', k2.dispatch)
            /\ kernel'.bloqueados = k2.bloqueados /\ kernel'.sirviendo = k2.sirviendo
        <4>1. Ordenado(k2) /\ k2.cola_RUNNING = <<q>>
            BY <3>2, <3>4 DEF Anota
        <4> QED BY <3>3, <3>5, <4>1, SalePorExit
      <3>7. ColasIO(kernel, kernel')
          BY <3>2, <3>4, <3>6, ColasIOIguales DEF Anota
      <3> QED BY <1>d, <2>1, <3>4, <3>6, <3>7
    <2>3. CASE r \in Recurso
      <3> DEFINE k1 == asignar_recurso(kernel, r, q)
      <3>1. IF k1.instancias[r] >= 0
            THEN kernel' = Responder(k1, 0)
            ELSE \E v \in Restos :
                   kernel' = evaluar_EXEC_a_BLOCKED(Responder(TerminaHilo(k1, q), 1), r, v)
          BY <1>3, <2>3 DEF AtenderWait
      <3>2. /\ Anota(kernel, k1) /\ k1.hilos_respuesta = kernel.hilos_respuesta
            /\ k1.dispatch = kernel.dispatch
            /\ Sem(kernel) => SemSalvo(k1, r) /\ (k1.instancias[r] >= 0 => Sem(k1))
          BY <2>3, Asigna
      <3> HIDE DEF k1
      <3>3. Corre(k1, q) /\ k1.dispatch = <<>>
          BY <2>1, <3>2 DEF Anota, Corre
      <3>4. CASE k1.instancias[r] >= 0
        <4>1. kernel' = Responder(k1, 0) /\ 0 \in {0, 1}
            BY <3>1, <3>4
        <4>2. /\ Anota(k1, kernel') /\ kernel'.hilos_respuesta = k1.hilos_respuesta
              /\ kernel'.dispatch = <<RESP(0)>> /\ MismoSemaforo(k1, kernel')
            BY <3>2, <3>3, <4>1, Contesta DEF Anota
        <4>3. Fijo(kernel, kernel') /\ (Sem(kernel) => Sem(kernel'))
          <5>1. Fijo(kernel, kernel')
              BY <3>2, <4>2, FijoSigue DEF Anota
          <5>2. Sem(kernel) => Sem(k1)
              BY <3>2, <3>4
          <5> QED BY <4>2, <5>1, <5>2, SemMismo
        <4>4. Bien(kernel, kernel')
          <5>1. Ordenado(kernel') /\ kernel'.cola_RUNNING = kernel.cola_RUNNING
              BY <3>2, <4>2 DEF Anota
          <5> QED BY <4>3, <5>1, Sigue
        <4>5. ColasIO(kernel, kernel')
            BY <3>2, <4>2, ColasIOIguales DEF Anota
        <4>6. Corre(kernel', q)
            BY <3>3, <4>2 DEF Anota, Corre
        <4> QED BY <1>e, <2>1, <4>2, <4>4, <4>5, <4>6
      <3>5. CASE ~(k1.instancias[r] >= 0)
        <4>1. PICK v \in Restos :
                kernel' = evaluar_EXEC_a_BLOCKED(Responder(TerminaHilo(k1, q), 1), r, v)
            BY <3>1, <3>5
        <4> DEFINE k2 == TerminaHilo(k1, q)
                   k3 == Responder(k2, 1)
        <4>2. kernel' = evaluar_EXEC_a_BLOCKED(k3, r, v)
            BY <4>1
        <4>3. Anota(k1, k2) /\ SinHilos(k2) /\ k2.dispatch = k1.dispatch /\ MismoSemaforo(k1, k2)
            BY <3>2, <3>3, Termina DEF Anota
        <4> HIDE DEF k2
        <4>4. /\ Anota(k2, k3) /\ k3.hilos_respuesta = k2.hilos_respuesta
              /\ k3.dispatch = <<RESP(1)>> /\ MismoSemaforo(k2, k3)
          <5>1. 1 \in {0, 1} /\ k2.dispatch = <<>> /\ Ordenado(k2)
              BY <3>3, <4>3 DEF Anota
          <5> QED BY <5>1, Contesta
        <4> HIDE DEF k3
        <4>5. /\ Ordenado(k3) /\ k3.cola_RUNNING = <<q>> /\ SinHilos(k3)
              /\ k3.bloqueados = kernel.bloqueados /\ k3.sirviendo = kernel.sirviendo
            BY <2>1, <3>2, <4>3, <4>4 DEF Anota, SinHilos
        <4>6. Fijo(kernel, k3)
          <5>1. Fijo(kernel, k2)
              BY <3>2, <4>3, FijoSigue DEF Anota
          <5> QED BY <4>4, <5>1, FijoSigue DEF Anota
        <4>7. Sem(kernel) => SemSalvo(k3, r)
          <5>1. Sem(kernel) => SemSalvo(k1, r)
              BY <3>2
          <5> QED BY <4>3, <4>4, <5>1 DEF SemSalvo, MismoSemaforo
        <4>8. r \in Clave /\ r \notin Interfaz
            BY <2>3, ConstantesOK DEF Clave
        <4>9. /\ Bien(kernel, kernel') /\ Entrega(kernel', k3.dispatch)
              /\ kernel'.sirviendo = k3.sirviendo
              /\ kernel'.bloqueados = [k3.bloqueados EXCEPT ![r] = Append(@, q)]
          <5> HIDE DEF r
          <5> QED BY <4>2, <4>5, <4>6, <4>7, <4>8, SalePorBlocked
        <4>10. ColasIO(kernel, kernel')
          <5>1. kernel.bloqueados \in [Clave -> Seq(Pid)] /\ Interfaz \subseteq Clave
              BY OrdenadoTipo DEF Clave
          <5>2. \A i \in Interfaz : kernel'.bloqueados[i] = kernel.bloqueados[i]
              BY <4>5, <4>8, <4>9, <5>1
          <5> QED BY <4>5, <4>9, <5>2 DEF ColasIO
        <4> QED BY <1>d, <2>1, <4>4, <4>9, <4>10
      <3> QED BY <3>4, <3>5
    <2> QED BY <2>2, <2>3
  <1>4. ASSUME NEW q \in Pid, AtenderSignal(q) PROVE Final
    <2> DEFINE r == Head(a_kernel).arg
    <2>1. /\ Corre(kernel, q) /\ kernel.cola_RUNNING = <<q>> /\ kernel.dispatch = <<>>
          /\ cpu' = cpu /\ a_kernel' = <<>> /\ cpu.fase = "espera_signal" /\ cpu.pid = q
          /\ r \in NombresSignal
        BY <1>4, <1>b DEF AtenderSignal, Pregunta
    <2>2. CASE r \notin Recurso
      <3>1. kernel' = kernel
          BY <1>4, <2>2 DEF AtenderSignal
      <3>2. Perdida(cpu', a_kernel', kernel'.dispatch)
          BY <2>1, <2>2, <3>1 DEF Perdida
      <3>3. Ficha(kernel', cpu', a_kernel')
          BY <2>1, <3>1, <3>2 DEF Ficha, EnCPU
      <3>4. Bien(kernel, kernel')
          BY <3>1, Sigue DEF Fijo
      <3> QED BY <3>1, <3>3, <3>4, ColasIOIguales
    <2>3. CASE r \in Recurso
      <3> DEFINE k1 == desasignar_recurso(kernel, r, q)
                 k2 == Responder(k1, 0)
      <3>1. kernel' = evaluar_BLOCKED_a_READY(k2, r)
          BY <1>4, <2>3 DEF AtenderSignal
      <3>2. /\ Anota(kernel, k1) /\ k1.hilos_respuesta = kernel.hilos_respuesta
            /\ k1.dispatch = kernel.dispatch /\ (Sem(kernel) => Sem(k1))
          BY <2>3, Desasigna
      <3> HIDE DEF k1
      <3>3. /\ Anota(k1, k2) /\ k2.hilos_respuesta = k1.hilos_respuesta
            /\ k2.dispatch = <<RESP(0)>> /\ MismoSemaforo(k1, k2)
        <4>1. 0 \in {0, 1} /\ k1.dispatch = <<>> /\ Ordenado(k1)
            BY <2>1, <3>2 DEF Anota
        <4> QED BY <4>1, Contesta
      <3> HIDE DEF k2
      <3>4. r \in Clave /\ r \notin Interfaz
          BY <2>3, ConstantesOK DEF Clave
      <3>5. Ordenado(k2) /\ k2.cola_RUNNING = <<q>> /\ Corre(k2, q) /\ k2.bloqueados = kernel.bloqueados
            /\ k2.sirviendo = kernel.sirviendo /\ Fijo(kernel, k2) /\ (Sem(kernel) => Sem(k2))
        <4>1. Fijo(kernel, k2)
            BY <3>2, <3>3, FijoSigue DEF Anota
        <4>2. Sem(kernel) => Sem(k2)
            BY <3>2, <3>3, SemMismo
        <4> QED BY <2>1, <3>2, <3>3, <4>1, <4>2 DEF Anota, Corre
      <3> HIDE DEF r
      <3>6. /\ Ordenado(kernel') /\ Fijo(k2, kernel') /\ Quieto(k2, kernel')
            /\ kernel'.sirviendo = k2.sirviendo /\ (Sem(k2) => Sem(kernel'))
            /\ \/ kernel'.bloqueados = k2.bloqueados
               \/ kernel'.bloqueados = [k2.bloqueados EXCEPT ![r] = Tail(@)]
          BY <3>1, <3>4, <3>5, BlockedReady
      <3>7. Bien(kernel, kernel')
        <4>1. Fijo(kernel, kernel') /\ (Sem(kernel) => Sem(kernel'))
            BY <3>5, <3>6, FijoSigue
        <4>2. kernel'.cola_RUNNING = kernel.cola_RUNNING
            BY <2>1, <3>5, <3>6 DEF Quieto
        <4> QED BY <3>6, <4>1, <4>2, Sigue
      <3>8. ColasIO(kernel, kernel')
        <4>1. kernel.bloqueados \in [Clave -> Seq(Pid)] /\ Interfaz \subseteq Clave
            BY OrdenadoTipo DEF Clave
        <4>2. \A i \in Interfaz : kernel'.bloqueados[i] = kernel.bloqueados[i]
            BY <3>4, <3>5, <3>6, <4>1
        <4> QED BY <3>5, <3>6, <4>2 DEF ColasIO
      <3>9. Corre(kernel', q) /\ kernel'.dispatch = <<RESP(0)>>
          BY <3>3, <3>5, <3>6 DEF Quieto, Corre
      <3> QED BY <1>e, <2>1, <3>7, <3>8, <3>9
    <2> QED BY <2>2, <2>3
  <1>5. ASSUME NEW q \in Pid, AtenderInterrupcion(q) PROVE Final
    <2>1. PICK v \in Restos : kernel' = evaluar_EXEC_a_READY(TerminaHilo(kernel, q), v)
        BY <1>5 DEF AtenderInterrupcion
    <2> DEFINE k1 == TerminaHilo(kernel, q)
    <2>2. /\ Corre(kernel, q) /\ kernel.dispatch = <<>> /\ cpu' = cpu /\ a_kernel' = <<>>
          /\ cpu.fase = "libre"
        BY <1>5, <1>b DEF AtenderInterrupcion, Pregunta
    <2>3. /\ Ordenado(k1) /\ Fijo(kernel, k1) /\ SinHilos(k1) /\ (Sem(kernel) => Sem(k1))
          /\ k1.cola_RUNNING = <<q>> /\ k1.dispatch = kernel.dispatch
          /\ k1.bloqueados = kernel.bloqueados /\ k1.sirviendo = kernel.sirviendo
        BY <1>g, <2>2
    <2>4. kernel' = evaluar_EXEC_a_READY(k1, v)
        BY <2>1
    <2> HIDE DEF k1
    <2>5. /\ Bien(kernel, kernel') /\ Entrega(kernel', k1.dispatch)
          /\ kernel'.bloqueados = k1.bloqueados /\ kernel'.sirviendo = k1.sirviendo
        BY <2>3, <2>4, SalePorReady
    <2>6. ColasIO(kernel, kernel')
        BY <2>3, <2>5, ColasIOIguales
    <2> QED BY <1>c, <2>2, <2>3, <2>5, <2>6
  <1>6. ASSUME NEW q \in Pid, AtenderIO(q) PROVE Final
    <2> DEFINE i == Head(a_kernel).arg
               k1 == TerminaHilo(kernel, q)
    <2>1. PICK v \in Restos :
            kernel' = IF i \in kernel.conectadas THEN evaluar_EXEC_a_BLOCKED(k1, i, v)
                      ELSE evaluar_EXEC_a_EXIT(k1, v)
        BY <1>6 DEF AtenderIO
    <2>2. /\ Corre(kernel, q) /\ kernel.dispatch = <<>> /\ cpu' = cpu /\ a_kernel' = <<>>
          /\ cpu.fase = "libre"
        BY <1>6, <1>b DEF AtenderIO, Pregunta
    <2>3. /\ Ordenado(k1) /\ Fijo(kernel, k1) /\ SinHilos(k1) /\ (Sem(kernel) => Sem(k1))
          /\ k1.cola_RUNNING = <<q>> /\ k1.dispatch = kernel.dispatch
          /\ k1.bloqueados = kernel.bloqueados /\ k1.sirviendo = kernel.sirviendo
        BY <1>g, <2>2
    <2> HIDE DEF k1
    <2>4. CASE i \in kernel.conectadas
      <3>1. kernel' = evaluar_EXEC_a_BLOCKED(k1, i, v) /\ i \in Interfaz /\ i \in Clave /\ i \notin Recurso
          BY <1>a, <2>1, <2>4, ConstantesOK DEF Clave
      <3> HIDE DEF i
      <3>2. Sem(kernel) => SemSalvo(k1, i)
        <4>1. Sem(k1) => SemSalvo(k1, i)
          <5>1. ASSUME NEW r \in Recurso, -k1.instancias[r] <= Len(k1.bloqueados[r])
                PROVE  -k1.instancias[r] <= Len(k1.bloqueados[r]) + (IF r = i THEN 1 ELSE 0)
            <6>1. r # i /\ r \in Clave
                BY <3>1 DEF Clave
            <6>2. k1.bloqueados[r] \in Seq(Pid)
                BY <2>3, <6>1, OrdenadoTipo
            <6>3. Len(k1.bloqueados[r]) \in Nat
                BY <6>2, LenProperties
            <6>4. Len(k1.bloqueados[r]) + 0 = Len(k1.bloqueados[r])
                BY <6>3
            <6> QED BY <5>1, <6>1, <6>4
          <5> QED BY <5>1 DEF Sem, SemSalvo
        <4> QED BY <2>3, <4>1
      <3>3. /\ Bien(kernel, kernel') /\ Entrega(kernel', k1.dispatch)
            /\ kernel'.sirviendo = k1.sirviendo
            /\ kernel'.bloqueados = [k1.bloqueados EXCEPT ![i] = Append(@, q)]
          BY <2>3, <3>1, <3>2, SalePorBlocked
      <3>4. ColasIO(kernel, kernel')
        <4>1. kernel.bloqueados \in [Clave -> Seq(Pid)] /\ Interfaz \subseteq Clave
            BY OrdenadoTipo DEF Clave
        <4>2. \A j \in Interfaz : \/ kernel'.bloqueados[j] = kernel.bloqueados[j]
                                  \/ kernel'.bloqueados[j] = Append(kernel.bloqueados[j], q)
            BY <2>3, <3>3, <4>1
        <4> QED BY <2>3, <3>3, <4>2 DEF ColasIO
      <3> QED BY <1>c, <2>2, <2>3, <3>3, <3>4
    <2>5. CASE i \notin kernel.conectadas
      <3>1. kernel' = evaluar_EXEC_a_EXIT(k1, v)
          BY <2>1, <2>5
      <3>2. /\ Bien(kernel, kernel') /\ Entrega(kernel', k1.dispatch)
            /\ kernel'.bloqueados = k1.bloqueados /\ kernel'.sirviendo = k1.sirviendo
          BY <2>3, <3>1, SalePorExit
      <3>3. ColasIO(kernel, kernel')
          BY <2>3, <3>2, ColasIOIguales
      <3> QED BY <1>c, <2>2, <2>3, <3>2, <3>3
    <2> QED BY <2>4, <2>5
  <1> QED BY <1>1, <1>2, <1>3, <1>4, <1>5, <1>6 DEF Respuestas

(***************************************************************************)
(* The CPU                                                                 *)
(***************************************************************************)
LEMMA PidNatural ==
  ASSUME NEW p \in Pid
  PROVE  p \in Nat
  BY ConstantesOK DEF Pid

LEMMA AlMensaje ==
  ASSUME NEW k, NEW p \in Pid, Corre(k, p), k.dispatch = <<>>, NEW c, NEW m \in Mensaje, m.pid = p,
         Pregunta(c, m), NEW a, a = <<m>>
  PROVE  Ficha(k, c, a)
  BY DEF Ficha, EnMensaje

(* The first message of the socket is read.                                *)
LEMMA Lee ==
  ASSUME NEW k, Ordenado(k), NEW k2, KernelOK(k2), k2 = [k EXCEPT !.dispatch = Tail(@)]
  PROVE  /\ Anota(k, k2) /\ k2.dispatch = Tail(k.dispatch) /\ k2.hilos_respuesta = k.hilos_respuesta
         /\ MismoSemaforo(k, k2)
  <1>0. k \in KernelType
      BY OrdenadoTipo
  <1>1. /\ k2.estado = k.estado /\ k2.cola_NEW = k.cola_NEW /\ k2.cola_READY = k.cola_READY
        /\ k2.cola_READY_PRIORITARIA = k.cola_READY_PRIORITARIA /\ k2.cola_RUNNING = k.cola_RUNNING
        /\ k2.bloqueados = k.bloqueados /\ k2.parcial = k.parcial
        /\ k2.cant = k.cant /\ k2.contador = k.contador /\ k2.matados = k.matados
        /\ k2.vivo = k.vivo /\ k2.grado = k.grado /\ k2.pausada = k.pausada
        /\ k2.sirviendo = k.sirviendo
      BY <1>0 DEF KernelType
  <1>2. Anota(k, k2)
      BY <1>1, AnotaCampos
  <1> QED BY <1>0, <1>2 DEF KernelType, MismoSemaforo

(* Who executes has the token in the CPU.                                  *)
LEMMA Ejecutando ==
  ASSUME Ficha(kernel, cpu, a_kernel), cpu.fase = "ejecutando"
  PROVE  \E p \in Pid : Corre(kernel, p) /\ cpu.pid = p /\ a_kernel = <<>> /\ kernel.dispatch = <<>>
  BY DEF Ficha, Libre, Rechazada, EnCPU, Ejecuta, Aceptada, Perdida, EnMensaje, Pregunta

LEMMA UnMensaje ==
  ASSUME NEW m
  PROVE  Append(<<>>, m) = <<m>> /\ Head(<<m>>) = m /\ Tail(<<m>>) = <<>>
  OBVIOUS

LEMMA DosMensajes ==
  ASSUME NEW m, NEW n
  PROVE  /\ Append(<<m>>, n) # <<>> /\ Head(Append(<<m>>, n)) = m
         /\ Tail(Append(<<m>>, n)) = Append(<<>>, n)
  <1> DEFINE S == {m, n}
             s == <<m>>
  <1>1. m \in S /\ n \in S /\ s \in Seq(S) /\ s # <<>>
      OBVIOUS
  <1>2. Head(s) = m /\ Tail(s) = <<>>
      OBVIOUS
  <1> HIDE DEF S, s
  <1>3. /\ Append(s, n) # <<>> /\ Head(Append(s, n)) = Head(s)
        /\ Tail(Append(s, n)) = Append(Tail(s), n)
      BY <1>1, AppendProperties, HeadTailAppend
  <1>4. /\ Append(s, n) # <<>> /\ Head(Append(s, n)) = m
        /\ Tail(Append(s, n)) = Append(<<>>, n)
      BY <1>2, <1>3
  <1> QED BY <1>4 DEF s

(* It asks the kernel for something, in the phase that c is in.            *)
LEMMA Pide ==
  ASSUME Tipos, Ficha(kernel, cpu, a_kernel), cpu.fase = "ejecutando",
         NEW mo \in {"EXIT", "OUT_OF_MEMORY", "WAIT", "SIGNAL", "INTERRUPCION", "IO"},
         NEW arg \in Nombre \cup {""}, Enviar(mo, arg), kernel' = kernel,
         \/ mo \in {"EXIT", "OUT_OF_MEMORY", "INTERRUPCION", "IO"} /\ cpu'.fase = "libre"
         \/ mo = "WAIT" /\ cpu'.fase = "espera_wait" /\ cpu'.pid = cpu.pid
         \/ mo = "SIGNAL" /\ arg \in NombresSignal /\ cpu'.fase = "espera_signal" /\ cpu'.pid = cpu.pid
  PROVE  Ficha(kernel', cpu', a_kernel')
  <1>1. PICK p \in Pid : Corre(kernel, p) /\ cpu.pid = p /\ a_kernel = <<>> /\ kernel.dispatch = <<>>
      BY Ejecutando
  <1>a. p \in Nat
      BY PidNatural
  <1> DEFINE m == [motivo |-> mo, arg |-> arg, pid |-> cpu.pid]
  <1>2. m \in Mensaje /\ m.pid = p /\ m.motivo = mo /\ m.arg = arg
      BY <1>1, <1>a DEF Mensaje
  <1>3. a_kernel' = Append(a_kernel, m)
      BY DEF Enviar
  <1> HIDE DEF m
  <1>4. a_kernel' = <<m>>
      BY <1>1, <1>3, UnMensaje
  <1>5. Pregunta(cpu', m)
      BY <1>1, <1>2 DEF Pregunta
  <1>6. Corre(kernel', p) /\ kernel'.dispatch = <<>>
      BY <1>1
  <1> QED BY <1>2, <1>4, <1>5, <1>6, AlMensaje

LEMMA CPUOrden ==
  ASSUME Tipos, Ordenado(kernel), Ficha(kernel, cpu, a_kernel), CPU
  PROVE  Anota(kernel, kernel') /\ MismoSemaforo(kernel, kernel') /\ Ficha(kernel', cpu', a_kernel')
  <1>0. /\ KernelOK(kernel') /\ cpu \in RegistroCPU
        /\ kernel.dispatch \in Seq([tipo: {"PCB", "RESPUESTA"}, dato: Nat])
      BY CPUTipos, TiposPorPartes, OrdenadoTipo DEF Tipos, TypeOK, KernelOK, KernelType
  <1>a. ASSUME kernel' = kernel PROVE Anota(kernel, kernel') /\ MismoSemaforo(kernel, kernel')
      BY <1>a DEF Anota, Fijo, MismoSemaforo
  <1>b. ASSUME kernel' = [kernel EXCEPT !.dispatch = Tail(@)]
        PROVE  /\ Anota(kernel, kernel') /\ MismoSemaforo(kernel, kernel')
               /\ kernel'.dispatch = Tail(kernel.dispatch)
               /\ kernel'.cola_RUNNING = kernel.cola_RUNNING
               /\ kernel'.hilos_respuesta = kernel.hilos_respuesta
    <2>1. /\ Anota(kernel, kernel') /\ kernel'.dispatch = Tail(kernel.dispatch)
          /\ kernel'.hilos_respuesta = kernel.hilos_respuesta /\ MismoSemaforo(kernel, kernel')
        BY <1>0, <1>b, Lee
    <2> QED BY <2>1 DEF Anota
  <1>1. CASE RecibirPCB
    <2>1. /\ cpu.fase = "libre" /\ kernel.dispatch # <<>>
          /\ cpu' = [cpu EXCEPT !.pid = Head(kernel.dispatch).dato, !.fase = "ejecutando"]
          /\ kernel' = [kernel EXCEPT !.dispatch = Tail(@)] /\ a_kernel' = a_kernel
        BY <1>1 DEF RecibirPCB
    <2>2. Libre(kernel, cpu, a_kernel)
        BY <2>1 DEF Ficha, Rechazada, EnCPU, Ejecuta, Aceptada, Perdida, EnMensaje
    <2>3. PICK p \in Pid : Corre(kernel, p) /\ kernel.dispatch = Append(<<>>, PCB(p))
        BY <2>1, <2>2 DEF Libre, Entrega
    <2>4. Head(kernel.dispatch) = PCB(p) /\ Tail(kernel.dispatch) = <<>>
        BY <2>3, UnMensaje
    <2>5. cpu'.pid = p /\ cpu'.fase = "ejecutando"
        BY <1>0, <2>1, <2>4 DEF RegistroCPU, PCB
    <2>6. Corre(kernel', p) /\ kernel'.dispatch = <<>> /\ a_kernel' = <<>>
        BY <1>b, <2>1, <2>2, <2>3, <2>4 DEF Corre, Libre
    <2>7. Ficha(kernel', cpu', a_kernel')
        BY <2>5, <2>6 DEF Ficha, EnCPU, Ejecuta
    <2> QED BY <1>b, <2>1, <2>7
  <1>2. CASE RecibirInterrupcion
    <2>1. kernel' = kernel /\ a_kernel' = a_kernel /\ cpu' = [cpu EXCEPT !.interrupcion = TRUE]
        BY <1>2 DEF RecibirInterrupcion
    <2>2. cpu'.pid = cpu.pid /\ cpu'.fase = cpu.fase
        BY <1>0, <2>1 DEF RegistroCPU
    <2>3. Ficha(kernel', cpu', a_kernel')
        BY <2>1, <2>2 DEF Ficha, Libre, Rechazada, EnCPU, Ejecuta, Aceptada, Perdida, EnMensaje, Pregunta
    <2> QED BY <1>a, <2>1, <2>3
  <1>c. CPULibre.fase = "libre" /\ "" \in Nombre \cup {""}
      BY DEF CPULibre
  <1>3. CASE EjecutarInterrumpida
    <2>1. /\ Enviar("INTERRUPCION", "") /\ cpu' = CPULibre /\ kernel' = kernel
          /\ cpu.fase = "ejecutando"
        BY <1>3 DEF EjecutarInterrumpida
    <2>2. Ficha(kernel', cpu', a_kernel')
        BY <1>c, <2>1, Pide
    <2> QED BY <1>a, <2>1, <2>2
  <1>4. ASSUME NEW mo \in {"EXIT", "OUT_OF_MEMORY", "IO"}, NEW arg \in Nombre \cup {""},
               EjecutarFinal(mo, arg)
        PROVE  /\ Anota(kernel, kernel') /\ MismoSemaforo(kernel, kernel')
               /\ Ficha(kernel', cpu', a_kernel')
    <2>1. Enviar(mo, arg) /\ cpu' = CPULibre /\ kernel' = kernel /\ cpu.fase = "ejecutando"
        BY <1>4 DEF EjecutarFinal
    <2>2. Ficha(kernel', cpu', a_kernel')
        BY <1>c, <2>1, Pide
    <2> QED BY <1>a, <2>1, <2>2
  <1>5. ASSUME NEW r \in NombresWait, EjecutarWait(r)
        PROVE  /\ Anota(kernel, kernel') /\ MismoSemaforo(kernel, kernel')
               /\ Ficha(kernel', cpu', a_kernel')
    <2>1. /\ Enviar("WAIT", r) /\ cpu' = [cpu EXCEPT !.fase = "espera_wait"] /\ kernel' = kernel
          /\ cpu.fase = "ejecutando" /\ r \in Nombre \cup {""}
        BY <1>5 DEF EjecutarWait, Nombre
    <2>2. cpu'.fase = "espera_wait" /\ cpu'.pid = cpu.pid
        BY <1>0, <2>1 DEF RegistroCPU
    <2>3. Ficha(kernel', cpu', a_kernel')
        BY <2>1, <2>2, Pide
    <2> QED BY <1>a, <2>1, <2>3
  <1>6. ASSUME NEW r \in NombresSignal, EjecutarSignal(r)
        PROVE  /\ Anota(kernel, kernel') /\ MismoSemaforo(kernel, kernel')
               /\ Ficha(kernel', cpu', a_kernel')
    <2>1. /\ Enviar("SIGNAL", r) /\ cpu' = [cpu EXCEPT !.fase = "espera_signal"] /\ kernel' = kernel
          /\ cpu.fase = "ejecutando" /\ r \in Nombre \cup {""}
        BY <1>6 DEF EjecutarSignal, Nombre
    <2>2. cpu'.fase = "espera_signal" /\ cpu'.pid = cpu.pid
        BY <1>0, <2>1 DEF RegistroCPU
    <2>3. Ficha(kernel', cpu', a_kernel')
        BY <2>1, <2>2, Pide
    <2> QED BY <1>a, <2>1, <2>3
  <1>7. CASE RecibirRespuesta
    <2>1. /\ cpu.fase \in {"espera_wait", "espera_signal"} /\ kernel.dispatch # <<>>
          /\ kernel' = [kernel EXCEPT !.dispatch = Tail(@)]
          /\ IF Rechazo(Head(kernel.dispatch).dato)
             THEN cpu' = CPULibre /\ a_kernel' = a_kernel
             ELSE \/ cpu' = CPULibre /\ Enviar("INTERRUPCION", "")
                  \/ cpu' = [cpu EXCEPT !.fase = "ejecutando"] /\ a_kernel' = a_kernel
        BY <1>7 DEF RecibirRespuesta
    <2>2. RESP(1).dato = 1 /\ RESP(0).dato = 0
        BY DEF RESP
    <2>3. CASE Rechazada(kernel, cpu, a_kernel)
      <3>1. cpu.fase = "espera_wait" /\ a_kernel = <<>> /\ Entrega(kernel, <<RESP(1)>>)
          BY <2>3 DEF Rechazada
      <3>2. Head(kernel.dispatch) = RESP(1) /\ Entrega(kernel', <<>>)
        <4>1. CASE Ociosa(kernel) /\ kernel.dispatch = <<RESP(1)>>
          <5>1. Head(kernel.dispatch) = RESP(1) /\ Tail(kernel.dispatch) = <<>>
              BY <4>1, UnMensaje
          <5>2. Ociosa(kernel') /\ kernel'.dispatch = <<>>
              BY <1>b, <2>1, <4>1, <5>1 DEF Ociosa, SinHilos
          <5> QED BY <5>1, <5>2 DEF Entrega
        <4>2. ASSUME NEW p \in Pid, Corre(kernel, p), kernel.dispatch = Append(<<RESP(1)>>, PCB(p))
              PROVE  Head(kernel.dispatch) = RESP(1) /\ Entrega(kernel', <<>>)
          <5>1. Head(kernel.dispatch) = RESP(1) /\ Tail(kernel.dispatch) = Append(<<>>, PCB(p))
              BY <4>2, DosMensajes
          <5>2. Corre(kernel', p) /\ kernel'.dispatch = Append(<<>>, PCB(p))
              BY <1>b, <2>1, <4>2, <5>1 DEF Corre
          <5> QED BY <5>1, <5>2 DEF Entrega
        <4> QED BY <3>1, <4>1, <4>2 DEF Entrega
      <3>3. Rechazo(Head(kernel.dispatch).dato)
          BY <2>2, <3>1, <3>2 DEF Rechazo
      <3>4. cpu'.fase = "libre" /\ a_kernel' = <<>>
          BY <1>c, <2>1, <3>1, <3>3
      <3>5. Ficha(kernel', cpu', a_kernel')
          BY <3>2, <3>4 DEF Ficha, Libre
      <3> QED BY <1>b, <2>1, <3>5
    <2>4. ASSUME NEW p \in Pid, Corre(kernel, p), cpu.pid = p, a_kernel = <<>>,
                 kernel.dispatch = <<RESP(0)>>
          PROVE  /\ Anota(kernel, kernel') /\ MismoSemaforo(kernel, kernel')
                 /\ Ficha(kernel', cpu', a_kernel')
      <3>1. Head(kernel.dispatch) = RESP(0) /\ Tail(kernel.dispatch) = <<>>
          BY <2>4, UnMensaje
      <3>2. ~Rechazo(Head(kernel.dispatch).dato)
          BY <2>2, <3>1 DEF Rechazo
      <3>3. Corre(kernel', p) /\ kernel'.dispatch = <<>>
          BY <1>b, <2>1, <2>4, <3>1 DEF Corre
      <3>4. CASE cpu' = CPULibre /\ Enviar("INTERRUPCION", "")
        <4> DEFINE m == [motivo |-> "INTERRUPCION", arg |-> "", pid |-> cpu.pid]
        <4>1. m \in Mensaje /\ m.pid = p /\ m.motivo = "INTERRUPCION"
          <5>1. p \in Nat
              BY PidNatural
          <5> QED BY <2>4, <5>1 DEF Mensaje
        <4>2. a_kernel' = Append(a_kernel, m)
            BY <3>4 DEF Enviar
        <4> HIDE DEF m
        <4>3. a_kernel' = <<m>> /\ Pregunta(cpu', m)
            BY <1>c, <2>4, <3>4, <4>1, <4>2, UnMensaje DEF Pregunta
        <4>4. Ficha(kernel', cpu', a_kernel')
            BY <3>3, <4>1, <4>3, AlMensaje
        <4> QED BY <1>b, <2>1, <4>4
      <3>5. CASE cpu' = [cpu EXCEPT !.fase = "ejecutando"] /\ a_kernel' = a_kernel
        <4>1. cpu'.fase = "ejecutando" /\ cpu'.pid = p
            BY <1>0, <2>4, <3>5 DEF RegistroCPU
        <4>2. Ficha(kernel', cpu', a_kernel')
            BY <2>4, <3>3, <3>5, <4>1 DEF Ficha, EnCPU, Ejecuta
        <4> QED BY <1>b, <2>1, <4>2
      <3> QED BY <2>1, <3>2, <3>4, <3>5
    <2>5. Rechazada(kernel, cpu, a_kernel)
          \/ \E p \in Pid : /\ Corre(kernel, p) /\ cpu.pid = p /\ a_kernel = <<>>
                            /\ kernel.dispatch = <<RESP(0)>>
        BY <2>1 DEF Ficha, Libre, EnCPU, Ejecuta, Aceptada, Perdida, EnMensaje
    <2> QED BY <2>3, <2>4, <2>5
  <1>8. \A i \in NombresIO : i \in Nombre \cup {""}
      BY DEF Nombre
  <1> QED BY <1>c, <1>1, <1>2, <1>3, <1>4, <1>5, <1>6, <1>7, <1>8 DEF CPU

LEMMA MatadosCrecen ==
  ASSUME Tipos, [Next]_vars
  PROVE  /\ kernel.matados \subseteq kernel'.matados
         /\ kernel'.matados \subseteq kernel.matados \cup EstadosMatables
  <1> DEFINE m == kernel.matados
  <1>0. kernel \in KernelType /\ Historia(kernel, m)
      BY TiposPorPartes DEF KernelOK, KernelType, Historia
  <1>a. ASSUME NEW e PROVE Historia(Matado(e), m \cup {e})
      BY <1>0 DEF Historia, Matado
  <1>b. KernelSeCae => Historia(kernel', m)
      BY <1>0 DEF Historia, KernelSeCae
  <1> HIDE DEF m
  <1>1. CASE Consola
    <2>1. ASSUME NEW b, IniciarProceso(b) PROVE Historia(kernel', m)
        BY <1>0, <2>1 DEF IniciarProceso, Historia
    <2>2. ASSUME IniciarPlanificacion PROVE Historia(kernel', m)
      <3>1. Historia([kernel EXCEPT !.pausada = FALSE], m)
          BY <1>0 DEF Historia
      <3>2. Historia(evaluar_NEW_a_READY([kernel EXCEPT !.pausada = FALSE]), m)
          BY <3>1, HistoriaPlanifica
      <3> QED BY <2>2, <3>2, HistoriaPlanifica DEF IniciarPlanificacion
    <2>3. ASSUME DetenerPlanificacion PROVE Historia(kernel', m)
        BY <1>0, <2>3 DEF DetenerPlanificacion, Historia
    <2>4. ASSUME NEW g, Multiprogramacion(g) PROVE Historia(kernel', m)
      <3>1. Historia([kernel EXCEPT !.grado = g], m)
          BY <1>0 DEF Historia
      <3> QED BY <2>4, <3>1, HistoriaPlanifica DEF Multiprogramacion
    <2>5. ASSUME NEW p, FinalizarInexistente(p) PROVE Historia(kernel', m)
        BY <1>0, <2>5, HistoriaPlanifica DEF FinalizarInexistente
    <2>6. ASSUME NEW p, NEW e, NEW o
          PROVE  /\ Historia(sacarle_sus_recursos(kernel, p, o), m)
                 /\ Historia(sacarle_sus_recursos(Matado(e), p, o), m \cup {e})
        BY <1>0, <1>a, HistoriaMueve
    <2>7. ASSUME NEW p, FinalizarNew(p) PROVE Historia(kernel', m \cup {"NEW"})
      <3>1. PICK o : kernel' = Planificar(evaluar_NEW_a_EXIT(sacarle_sus_recursos(Matado("NEW"), p, o), p))
          BY <2>7 DEF FinalizarNew
      <3>2. Historia(evaluar_NEW_a_EXIT(sacarle_sus_recursos(Matado("NEW"), p, o), p), m \cup {"NEW"})
          BY <2>6, HistoriaMueve
      <3> QED BY <3>1, <3>2, HistoriaPlanifica
    <2>8. ASSUME NEW p, FinalizarReady(p) PROVE Historia(kernel', m)
      <3>1. PICK o : kernel' = Planificar(evaluar_READY_a_EXIT(sacarle_sus_recursos(kernel, p, o), p))
          BY <2>8 DEF FinalizarReady
      <3>2. Historia(evaluar_READY_a_EXIT(sacarle_sus_recursos(kernel, p, o), p), m)
          BY <2>6, HistoriaMueve
      <3> QED BY <3>1, <3>2, HistoriaPlanifica
    <2>9. ASSUME NEW p, FinalizarRunning(p) PROVE Historia(kernel', m \cup {"RUNNING"})
      <3>1. PICK o, v : kernel' = Planificar(evaluar_EXEC_a_EXIT(
                                    sacarle_sus_recursos(Matado("RUNNING"), p, o), v))
          BY <2>9 DEF FinalizarRunning
      <3>2. Historia(evaluar_EXEC_a_EXIT(sacarle_sus_recursos(Matado("RUNNING"), p, o), v),
                     m \cup {"RUNNING"})
          BY <2>6, HistoriaDesaloja
      <3> QED BY <3>1, <3>2, HistoriaPlanifica
    <2>10. ASSUME NEW p, FinalizarBlocked(p)
           PROVE  Historia(kernel', m \cup {"BLOCKED"}) \/ Historia(kernel', m)
      <3>1. CASE KernelSeCae
          BY <1>b, <3>1
      <3>2. CASE ~KernelSeCae
        <4>1. PICK o, c : kernel' = Planificar(evaluar_BLOCKED_a_EXIT(
                                      sacarle_sus_recursos(Matado("BLOCKED"), p, o), p, c))
            BY <2>10, <3>2 DEF FinalizarBlocked
        <4>2. Historia(evaluar_BLOCKED_a_EXIT(sacarle_sus_recursos(Matado("BLOCKED"), p, o), p, c),
                       m \cup {"BLOCKED"})
            BY <2>6, HistoriaMueve
        <4> QED BY <4>1, <4>2, HistoriaPlanifica
      <3> QED BY <3>1, <3>2
    <2>11. ASSUME NEW p, FinalizarOtro(p) PROVE Historia(kernel', m)
      <3>1. PICK o : kernel' = Planificar(sacarle_sus_recursos(kernel, p, o))
          BY <2>11 DEF FinalizarOtro
      <3> QED BY <2>6, <3>1, HistoriaPlanifica
    <2>12. ASSUME NEW p
           PROVE  /\ FinalizarNew(p) => "NEW" \in EstadosMatables
                  /\ FinalizarRunning(p) => "RUNNING" \in EstadosMatables
                  /\ FinalizarBlocked(p) => "BLOCKED" \in EstadosMatables
        BY DEF FinalizarNew, FinalizarRunning, FinalizarBlocked, Matable
    <2>13. \/ Historia(kernel', m)
           \/ \E e \in EstadosMatables : Historia(kernel', m \cup {e})
        BY <1>1, <2>1, <2>2, <2>3, <2>4, <2>5, <2>7, <2>8, <2>9, <2>10, <2>11, <2>12 DEF Consola
    <2> QED BY <2>13 DEF Historia, m
  <1>2. CASE CPU
    <2>1. kernel' = kernel \/ kernel' = [kernel EXCEPT !.dispatch = Tail(@)]
        BY <1>2 DEF CPU, RecibirPCB, RecibirInterrupcion, EjecutarInterrumpida, EjecutarFinal,
                    EjecutarWait, EjecutarSignal, RecibirRespuesta
    <2> QED BY <1>0, <2>1 DEF Historia, m
  <1>3. CASE Respuestas
    <2>a. ASSUME NEW q, NEW n
          PROVE  /\ Historia(TerminaHilo(kernel, q), m)
                 /\ Historia(Responder(TerminaHilo(kernel, q), n), m)
        BY <1>0, HistoriaMueve
    <2>1. ASSUME NEW q, AtenderExit(q) PROVE Historia(kernel', m)
        BY <2>1, <2>a, HistoriaDesaloja DEF AtenderExit
    <2>2. ASSUME NEW q, AtenderOutOfMemory(q) PROVE Historia(kernel', m)
      <3>1. PICK o, v : kernel' = evaluar_EXEC_a_EXIT(TerminaHilo(sacarle_sus_recursos(kernel, q, o), q), v)
          BY <2>2 DEF AtenderOutOfMemory
      <3>2. Historia(sacarle_sus_recursos(kernel, q, o), m)
          BY <1>0, HistoriaMueve
      <3>3. Historia(TerminaHilo(sacarle_sus_recursos(kernel, q, o), q), m)
          BY <3>2, HistoriaMueve
      <3> QED BY <3>1, <3>3, HistoriaDesaloja
    <2>3. ASSUME NEW q, AtenderWait(q) PROVE Historia(kernel', m)
      <3> DEFINE r == Head(a_kernel).arg
                 k == asignar_recurso(kernel, r, q)
      <3>1. \/ \E v : kernel' = evaluar_EXEC_a_EXIT(Responder(TerminaHilo(kernel, q), 1), v)
            \/ kernel' = Responder(k, 0)
            \/ \E v : kernel' = evaluar_EXEC_a_BLOCKED(Responder(TerminaHilo(k, q), 1), r, v)
          BY <2>3 DEF AtenderWait
      <3>2. Historia(k, m)
          BY <1>0, HistoriaMueve
      <3> HIDE DEF k
      <3>3. Historia(TerminaHilo(k, q), m) /\ Historia(Responder(k, 0), m)
          BY <3>2, HistoriaMueve
      <3>4. Historia(Responder(TerminaHilo(k, q), 1), m)
          BY <3>3, HistoriaMueve
      <3> HIDE DEF r
      <3> QED BY <2>a, <3>1, <3>3, <3>4, HistoriaDesaloja
    <2>4. ASSUME NEW q, AtenderSignal(q) PROVE Historia(kernel', m)
      <3> DEFINE r == Head(a_kernel).arg
                 k == desasignar_recurso(kernel, r, q)
      <3>1. kernel' = kernel \/ kernel' = evaluar_BLOCKED_a_READY(Responder(k, 0), r)
          BY <2>4 DEF AtenderSignal
      <3>2. Historia(k, m)
          BY <1>0, HistoriaMueve
      <3> HIDE DEF k, r
      <3>3. Historia(Responder(k, 0), m)
          BY <3>2, HistoriaMueve
      <3> QED BY <1>0, <3>1, <3>3, HistoriaDesaloja
    <2>5. ASSUME NEW q, AtenderInterrupcion(q) PROVE Historia(kernel', m)
        BY <2>5, <2>a, HistoriaDesaloja DEF AtenderInterrupcion
    <2>6. ASSUME NEW q, AtenderIO(q) PROVE Historia(kernel', m)
      <3>1. \/ \E v, i : kernel' = evaluar_EXEC_a_BLOCKED(TerminaHilo(kernel, q), i, v)
            \/ \E v : kernel' = evaluar_EXEC_a_EXIT(TerminaHilo(kernel, q), v)
          BY <2>6 DEF AtenderIO
      <3> QED BY <2>a, <3>1, HistoriaDesaloja
    <2> QED BY <1>3, <2>1, <2>2, <2>3, <2>4, <2>5, <2>6 DEF Respuestas, Historia, m
  <1>4. CASE Hilos
    <2>1. ASSUME NEW p, NEW edad, FinQuantum(p, edad) PROVE Historia(kernel', m)
        BY <1>0, <2>1 DEF FinQuantum, Historia
    <2>2. ASSUME NEW i, ConectarInterfaz(i) PROVE Historia(kernel', m)
        BY <1>0, <2>2 DEF ConectarInterfaz, Historia
    <2>3. ASSUME NEW i, TomarPedido(i) PROVE Historia(kernel', m)
        BY <1>0, <2>3 DEF TomarPedido, Historia
    <2> DEFINE k(i) == [kernel EXCEPT !.sirviendo[i] = Nadie]
    <2>a. ASSUME NEW i PROVE Historia(k(i), m)
        BY <1>0 DEF Historia
    <2> HIDE DEF k
    <2>4. ASSUME NEW i, RespuestaIO(i) PROVE Historia(kernel', m)
      <3>1. kernel' = evaluar_READY_a_EXEC(evaluar_BLOCKED_a_READY(k(i), i))
          BY <2>4 DEF RespuestaIO, k
      <3>2. Historia(evaluar_BLOCKED_a_READY(k(i), i), m)
          BY <2>a, HistoriaDesaloja
      <3> QED BY <3>1, <3>2, HistoriaPlanifica
    <2>5. ASSUME NEW i, FallaIO(i) PROVE Historia(kernel', m)
      <3>1. (\E p, c : kernel' = evaluar_BLOCKED_a_EXIT(k(i), p, c)) \/ KernelSeCae
          BY <2>5 DEF FallaIO, k
      <3> QED BY <1>b, <2>a, <3>1, HistoriaMueve
    <2> QED BY <1>4, <2>1, <2>2, <2>3, <2>4, <2>5 DEF Hilos, Historia, m
  <1>5. CASE UNCHANGED vars
      BY <1>5 DEF vars
  <1> QED BY <1>1, <1>2, <1>3, <1>4, <1>5 DEF Next

(***************************************************************************)
(* The quantum threads and the threads of the interfaces                   *)
(***************************************************************************)
LEMMA SinServir ==
  ASSUME NEW k, Ordenado(k), NEW i \in Interfaz, NEW k2, k2 = [k EXCEPT !.sirviendo[i] = Nadie]
  PROVE  /\ Ordenado(k2) /\ Fijo(k, k2) /\ Quieto(k, k2) /\ MismoSemaforo(k, k2)
         /\ k2.sirviendo = [k.sirviendo EXCEPT ![i] = Nadie]
  <1>0. k \in KernelType
      BY OrdenadoTipo
  <1>1. KernelOK(k2)
    <2>1. [k.sirviendo EXCEPT ![i] = Nadie] \in [Interfaz -> Pid \cup {Nadie}]
        BY <1>0 DEF KernelType
    <2> QED BY <1>0, <2>1 DEF Ordenado, KernelOK, KernelType
  <1>2. /\ k2.estado = k.estado /\ k2.cola_NEW = k.cola_NEW /\ k2.cola_READY = k.cola_READY
        /\ k2.cola_READY_PRIORITARIA = k.cola_READY_PRIORITARIA /\ k2.cola_RUNNING = k.cola_RUNNING
        /\ k2.bloqueados = k.bloqueados /\ k2.parcial = k.parcial
        /\ k2.cant = k.cant /\ k2.contador = k.contador /\ k2.matados = k.matados
        /\ k2.vivo = k.vivo /\ k2.grado = k.grado /\ k2.pausada = k.pausada
      BY <1>0 DEF KernelType
  <1>3. Ordenado(k2)
      BY <1>1, <1>2, Inmovil DEF SinMatar
  <1>4. Quieto(k, k2) /\ MismoSemaforo(k, k2) /\ k2.sirviendo = [k.sirviendo EXCEPT ![i] = Nadie]
      BY <1>0 DEF KernelType, Quieto, MismoSemaforo
  <1> QED BY <1>2, <1>3, <1>4 DEF Fijo

LEMMA HilosOrden ==
  ASSUME Tipos, Ordenado(kernel), Hilos
  PROVE  Bien(kernel, kernel') /\ Paso(kernel, kernel')
  <1>0. KernelOK(kernel) /\ kernel \in KernelType /\ KernelOK(kernel')
      BY HilosTipos, TiposPorPartes DEF KernelOK
  <1>a. ASSUME kernel'.estado = kernel.estado, kernel'.cola_NEW = kernel.cola_NEW,
               kernel'.cola_READY = kernel.cola_READY,
               kernel'.cola_READY_PRIORITARIA = kernel.cola_READY_PRIORITARIA,
               Quieto(kernel, kernel'), MismoSemaforo(kernel, kernel'),
               kernel'.parcial = kernel.parcial, kernel'.cant = kernel.cant,
               kernel'.contador = kernel.contador, kernel'.matados = kernel.matados
        PROVE  Bien(kernel, kernel') /\ Paso(kernel, kernel')
    <2>1. Ordenado(kernel')
        BY <1>0, <1>a, Inmovil DEF SinMatar, Quieto, MismoSemaforo
    <2>2. Bien(kernel, kernel')
        BY <1>a, <2>1, BienInmovil DEF Quieto
    <2> QED BY <1>a, <2>2 DEF Paso
  <1>1. ASSUME NEW p \in Pid, NEW edad \in Edad, FinQuantum(p, edad)
        PROVE  Bien(kernel, kernel') /\ Paso(kernel, kernel')
    <2>1. kernel' = kernel \/ kernel' = [kernel EXCEPT !.hilos_quantum[p] = @ \ {edad}]
        BY <1>1 DEF FinQuantum
    <2> QED BY <1>0, <1>a, <2>1 DEF KernelType, Quieto, MismoSemaforo
  <1>2. ASSUME NEW i \in Interfaz, ConectarInterfaz(i)
        PROVE  Bien(kernel, kernel') /\ Paso(kernel, kernel')
      BY <1>0, <1>2, <1>a DEF ConectarInterfaz, KernelType, Quieto, MismoSemaforo
  <1>3. ASSUME NEW i \in Interfaz, TomarPedido(i)
        PROVE  Bien(kernel, kernel') /\ Paso(kernel, kernel')
    <2>1. \E n : kernel' = [kernel EXCEPT !.binario[i] = FALSE, !.sirviendo[i] = n]
        BY <1>3 DEF TomarPedido
    <2> QED BY <1>0, <1>a, <2>1 DEF KernelType, Quieto, MismoSemaforo
  <1>4. ASSUME NEW i \in Interfaz, RespuestaIO(i)
        PROVE  Bien(kernel, kernel') /\ Paso(kernel, kernel')
    <2> DEFINE k1 == [kernel EXCEPT !.sirviendo[i] = Nadie]
               k2 == evaluar_BLOCKED_a_READY(k1, i)
    <2>1. kernel' = evaluar_READY_a_EXEC(k2) /\ i \in Clave
        BY <1>4 DEF RespuestaIO, Clave
    <2>2. Ordenado(k1) /\ Fijo(kernel, k1) /\ Quieto(kernel, k1) /\ MismoSemaforo(kernel, k1)
        BY SinServir
    <2> HIDE DEF k1
    <2>3. Ordenado(k2) /\ Fijo(k1, k2) /\ Quieto(k1, k2) /\ (Sem(k1) => Sem(k2))
        BY <2>1, <2>2, BlockedReady
    <2> HIDE DEF k2
    <2>4. /\ Ordenado(kernel') /\ Fijo(k2, kernel') /\ MismoSemaforo(k2, kernel') /\ Paso(k2, kernel')
          /\ ~k2.pausada /\ kernel'.cola_RUNNING = <<>>
               => kernel'.cola_READY = <<>> /\ kernel'.cola_READY_PRIORITARIA = <<>>
        BY <2>1, <2>3, ReadyExec
    <2>5. Fijo(kernel, kernel')
      <3>1. Fijo(kernel, k2)
          BY <2>2, <2>3, FijoSigue
      <3> QED BY <2>4, <3>1, FijoSigue
    <2>6. Paso(kernel, kernel')
      <3>1. Quieto(kernel, k2)
          BY <2>2, <2>3 DEF Quieto
      <3> QED BY <2>4, <3>1 DEF Paso, Quieto, Despachado
    <2>7. Ocupa(kernel, kernel')
      <3>1. SinListos(kernel')
          BY <2>4 DEF SinListos, Fijo
      <3> QED BY <2>4, <2>5, <3>1, ListosOcupa
    <2>8. Sem(kernel) => Sem(kernel')
      <3>1. Sem(kernel) => Sem(k1)
          BY <2>2, SemMismo
      <3> QED BY <2>3, <2>4, <3>1, SemMismo
    <2>9. Avance(kernel, kernel')
        BY <2>5, FijoAvance
    <2> QED BY <2>4, <2>6, <2>7, <2>8, <2>9, BienAvance
  <1>5. ASSUME NEW i \in Interfaz, FallaIO(i)
        PROVE  Bien(kernel, kernel') /\ Paso(kernel, kernel')
    <2> DEFINE p == kernel.sirviendo[i]
               k1 == [kernel EXCEPT !.sirviendo[i] = Nadie]
    <2>1. /\ p # Nadie
          /\ \/ \E c \in conseguir_tmb(kernel, p) : kernel' = evaluar_BLOCKED_a_EXIT(k1, p, c)
             \/ KernelSeCae
        BY <1>5 DEF FallaIO
    <2>2. p \in Pid
        BY <1>0, <2>1 DEF KernelType
    <2>3. Ordenado(k1) /\ Fijo(kernel, k1) /\ Quieto(kernel, k1) /\ MismoSemaforo(kernel, k1)
        BY SinServir
    <2> HIDE DEF k1, p
    <2>4. ASSUME NEW c \in conseguir_tmb(kernel, p), kernel' = evaluar_BLOCKED_a_EXIT(k1, p, c)
          PROVE  Bien(kernel, kernel') /\ Paso(kernel, kernel')
      <3>1. c \in conseguir_tmb(k1, p)
          BY <2>3 DEF conseguir_tmb, MismoSemaforo
      <3>2. Ordenado(kernel') /\ FueraDeCPU(k1, kernel') /\ (Sem(k1) => Sem(kernel'))
          BY <2>2, <2>3, <2>4, <3>1, BlockedExit
      <3>3. Fijo(kernel, kernel') /\ Quieto(kernel, kernel')
          BY <2>3, <3>2, FijoSigue DEF FueraDeCPU, Quieto
      <3>4. Sem(kernel) => Sem(kernel')
          BY <2>3, <3>2, SemMismo
      <3>5. Bien(kernel, kernel')
          BY <3>2, <3>3, <3>4, Sigue DEF Quieto
      <3> QED BY <3>3, <3>5 DEF Paso
    <2>5. CASE KernelSeCae
        BY <1>0, <2>5, SeCae DEF Paso
    <2> QED BY <2>1, <2>4, <2>5
  <1> QED BY <1>1, <1>2, <1>3, <1>4, <1>5 DEF Hilos

(***************************************************************************)
(* The interfaces: the request in course is of the first of the queue, and *)
(* the thread that ends it takes that process, and only it, out.           *)
(***************************************************************************)
IOCabeza(k) ==
  \A i \in Interfaz : k.sirviendo[i] # Nadie =>
    k.bloqueados[i] # <<>> /\ Head(k.bloqueados[i]) = k.sirviendo[i]

IOSale(k, k2) ==
  \A i \in Interfaz : k.sirviendo[i] # Nadie /\ k2.sirviendo[i] = Nadie =>
    ToSet(k.bloqueados[i]) \ ToSet(k2.bloqueados[i]) = {k.sirviendo[i]}

LEMMA ColasIOCabeza ==
  ASSUME NEW k, Ordenado(k), IOCabeza(k), NEW k2, ColasIO(k, k2)
  PROVE  IOCabeza(k2) /\ IOSale(k, k2)
  <1>1. IOSale(k, k2)
      BY DEF ColasIO, IOSale
  <1>2. ASSUME NEW i \in Interfaz, k2.sirviendo[i] # Nadie
        PROVE  k2.bloqueados[i] # <<>> /\ Head(k2.bloqueados[i]) = k2.sirviendo[i]
    <2>1. k2.sirviendo[i] = k.sirviendo[i]
        BY DEF ColasIO
    <2>2. k.bloqueados[i] # <<>> /\ Head(k.bloqueados[i]) = k.sirviendo[i]
        BY <1>2, <2>1 DEF IOCabeza
    <2>3. CASE k2.bloqueados[i] = k.bloqueados[i]
        BY <2>1, <2>2, <2>3
    <2>4. ASSUME NEW p \in Pid, k2.bloqueados[i] = Append(k.bloqueados[i], p)
          PROVE  k2.bloqueados[i] # <<>> /\ Head(k2.bloqueados[i]) = k2.sirviendo[i]
      <3>1. i \in Clave
          BY DEF Clave
      <3>2. k.bloqueados[i] \in Seq(Pid)
          BY <3>1, OrdenadoTipo
      <3>3. Append(k.bloqueados[i], p) # <<>> /\ Head(Append(k.bloqueados[i], p)) = Head(k.bloqueados[i])
          BY <2>2, <3>2, AppendProperties, HeadTailAppend
      <3> QED BY <2>1, <2>2, <2>4, <3>3
    <2> QED BY <2>3, <2>4 DEF ColasIO
  <1> QED BY <1>1, <1>2 DEF IOCabeza

LEMMA UnoSale ==
  ASSUME NEW k, Ordenado(k), IOCabeza(k), NEW i \in Interfaz, k.sirviendo[i] # Nadie,
         NEW k2, k2.sirviendo = [k.sirviendo EXCEPT ![i] = Nadie],
         NEW s, k2.bloqueados = [k.bloqueados EXCEPT ![i] = s],
         Lugar(s, ToSet(k.bloqueados[i]) \ {k.sirviendo[i]})
  PROVE  IOCabeza(k2) /\ IOSale(k, k2)
  <1>0. /\ k.sirviendo \in [Interfaz -> Pid \cup {Nadie}] /\ k.bloqueados \in [Clave -> Seq(Pid)]
        /\ Interfaz \subseteq Clave
      BY OrdenadoTipo DEF KernelType, Clave
  <1>1. /\ k2.sirviendo[i] = Nadie /\ k2.bloqueados[i] = s
        /\ \A j \in Interfaz : j # i => /\ k2.sirviendo[j] = k.sirviendo[j]
                                        /\ k2.bloqueados[j] = k.bloqueados[j]
      BY <1>0
  <1>2. IOCabeza(k2)
      BY <1>1 DEF IOCabeza
  <1>3. ToSet(k.bloqueados[i]) \ ToSet(s) = {k.sirviendo[i]}
    <2>1. ToSet(s) = ToSet(k.bloqueados[i]) \ {k.sirviendo[i]}
        BY DEF Lugar
    <2>2. Head(k.bloqueados[i]) = k.sirviendo[i] /\ k.bloqueados[i] # <<>>
        BY DEF IOCabeza
    <2>3. k.sirviendo[i] \in ToSet(k.bloqueados[i])
      <3>1. i \in Clave
          BY <1>0
      <3>2. Head(k.bloqueados[i]) \in ToSet(k.bloqueados[i])
          BY <2>2, <3>1, CabezaBloqueada
      <3> QED BY <2>2, <3>2
    <2> QED BY <2>1, <2>3
  <1>4. IOSale(k, k2)
      BY <1>1, <1>3 DEF IOSale
  <1> QED BY <1>2, <1>4

LEMMA HilosIO ==
  ASSUME Tipos, Ordenado(kernel), IOCabeza(kernel), Hilos
  PROVE  IOCabeza(kernel') /\ IOSale(kernel, kernel')
  <1>0. /\ kernel \in KernelType /\ kernel.sirviendo \in [Interfaz -> Pid \cup {Nadie}]
        /\ Interfaz \subseteq Clave
    <2>1. kernel \in KernelType
        BY OrdenadoTipo
    <2> QED BY <2>1 DEF KernelType, Clave
  <1>a. ASSUME kernel'.bloqueados = kernel.bloqueados, kernel'.sirviendo = kernel.sirviendo
        PROVE  IOCabeza(kernel') /\ IOSale(kernel, kernel')
    <2>1. ColasIO(kernel, kernel')
        BY <1>a, ColasIOIguales
    <2> QED BY <2>1, ColasIOCabeza
  <1>1. ASSUME NEW p \in Pid, NEW edad \in Edad, FinQuantum(p, edad)
        PROVE  IOCabeza(kernel') /\ IOSale(kernel, kernel')
    <2>1. kernel' = kernel \/ kernel' = [kernel EXCEPT !.hilos_quantum[p] = @ \ {edad}]
        BY <1>1 DEF FinQuantum
    <2> QED BY <1>0, <1>a, <2>1 DEF KernelType
  <1>2. ASSUME NEW i \in Interfaz, ConectarInterfaz(i)
        PROVE  IOCabeza(kernel') /\ IOSale(kernel, kernel')
      BY <1>0, <1>2, <1>a DEF ConectarInterfaz, KernelType
  <1>3. ASSUME NEW i \in Interfaz, TomarPedido(i)
        PROVE  IOCabeza(kernel') /\ IOSale(kernel, kernel')
    <2> DEFINE n == IF kernel.bloqueados[i] = <<>> THEN Nadie ELSE Head(kernel.bloqueados[i])
    <2>1. kernel' = [kernel EXCEPT !.binario[i] = FALSE, !.sirviendo[i] = n] /\ kernel.sirviendo[i] = Nadie
        BY <1>3 DEF TomarPedido
    <2>2. n # Nadie => kernel.bloqueados[i] # <<>> /\ Head(kernel.bloqueados[i]) = n
        OBVIOUS
    <2> HIDE DEF n
    <2>3. /\ kernel'.bloqueados = kernel.bloqueados
          /\ kernel'.sirviendo = [kernel.sirviendo EXCEPT ![i] = n]
        BY <1>0, <2>1 DEF KernelType
    <2>4. /\ kernel'.sirviendo[i] = n
          /\ \A j \in Interfaz : j # i => kernel'.sirviendo[j] = kernel.sirviendo[j]
        BY <1>0, <2>3
    <2>5. IOCabeza(kernel')
        BY <2>2, <2>3, <2>4 DEF IOCabeza
    <2>6. IOSale(kernel, kernel')
        BY <2>1, <2>4 DEF IOSale
    <2> QED BY <2>5, <2>6
  <1>4. ASSUME NEW i \in Interfaz, RespuestaIO(i)
        PROVE  IOCabeza(kernel') /\ IOSale(kernel, kernel')
    <2> DEFINE k1 == [kernel EXCEPT !.sirviendo[i] = Nadie]
               k2 == evaluar_BLOCKED_a_READY(k1, i)
    <2>1. kernel' = evaluar_READY_a_EXEC(k2) /\ i \in Clave /\ i \notin Recurso
          /\ kernel.sirviendo[i] # Nadie
        BY <1>4, ConstantesOK DEF RespuestaIO, Clave
    <2>2. /\ Ordenado(k1) /\ MismoSemaforo(kernel, k1)
          /\ k1.sirviendo = [kernel.sirviendo EXCEPT ![i] = Nadie]
        BY SinServir
    <2>3. kernel.bloqueados[i] # <<>> /\ Head(kernel.bloqueados[i]) = kernel.sirviendo[i]
        BY <2>1 DEF IOCabeza
    <2> HIDE DEF k1
    <2>4. /\ Ordenado(k2) /\ k2.sirviendo = k1.sirviendo
          /\ k2.bloqueados = [k1.bloqueados EXCEPT ![i] = Tail(@)]
        BY <2>1, <2>2, <2>3, BlockedReady DEF MismoSemaforo
    <2> HIDE DEF k2
    <2>5. MismoSemaforo(k2, kernel') /\ kernel'.sirviendo = k2.sirviendo
        BY <2>1, <2>4, ReadyExec
    <2>6. /\ kernel'.sirviendo = [kernel.sirviendo EXCEPT ![i] = Nadie]
          /\ kernel'.bloqueados = [kernel.bloqueados EXCEPT ![i] = Tail(kernel.bloqueados[i])]
        BY <2>2, <2>4, <2>5 DEF MismoSemaforo
    <2>7. Lugar(Tail(kernel.bloqueados[i]), ToSet(kernel.bloqueados[i]) \ {kernel.sirviendo[i]})
      <3>1. Lugar(Tail(kernel.bloqueados[i]), ToSet(kernel.bloqueados[i]) \ {Head(kernel.bloqueados[i])})
          BY <2>1, <2>3, CabezaBloqueada
      <3> QED BY <2>3, <3>1
    <2> DEFINE s == Tail(kernel.bloqueados[i])
    <2>8. /\ kernel.sirviendo[i] # Nadie
          /\ kernel'.bloqueados = [kernel.bloqueados EXCEPT ![i] = s]
          /\ Lugar(s, ToSet(kernel.bloqueados[i]) \ {kernel.sirviendo[i]})
        BY <2>1, <2>6, <2>7
    <2> HIDE DEF s
    <2> QED BY <2>6, <2>8, UnoSale
  <1>5. ASSUME NEW i \in Interfaz, FallaIO(i)
        PROVE  IOCabeza(kernel') /\ IOSale(kernel, kernel')
    <2> DEFINE p == kernel.sirviendo[i]
               k1 == [kernel EXCEPT !.sirviendo[i] = Nadie]
    <2>1. /\ p # Nadie
          /\ \/ \E c \in conseguir_tmb(kernel, p) : kernel' = evaluar_BLOCKED_a_EXIT(k1, p, c)
             \/ KernelSeCae
        BY <1>5 DEF FallaIO
    <2>2. p \in Pid /\ i \in Clave
        BY <1>0, <2>1
    <2>3. /\ Ordenado(k1) /\ MismoSemaforo(kernel, k1)
          /\ k1.sirviendo = [kernel.sirviendo EXCEPT ![i] = Nadie]
        BY SinServir
    <2>4. kernel.bloqueados[i] # <<>> /\ Head(kernel.bloqueados[i]) = p
        BY <2>1 DEF IOCabeza
    <2> HIDE DEF k1
    <2>5. /\ p \in ToSet(kernel.bloqueados[i])
          /\ Lugar(kernel.bloqueados[i], ToSet(kernel.bloqueados[i]))
          /\ \A d \in Clave : p \in ToSet(kernel.bloqueados[d]) => d = i
      <3>1. /\ Head(kernel.bloqueados[i]) \in ToSet(kernel.bloqueados[i])
            /\ Lugar(kernel.bloqueados[i], ToSet(kernel.bloqueados[i]))
          BY <2>2, <2>4, CabezaBloqueada
      <3>2. p \in ToSet(kernel.bloqueados[i])
          BY <2>4, <3>1
      <3> HIDE DEF p
      <3>3. \A d \in Clave : p \in ToSet(kernel.bloqueados[d]) => d = i
          BY <2>2, <3>2, CabezaBloqueada
      <3> QED BY <3>1, <3>2, <3>3
    <2>6. ASSUME NEW c \in conseguir_tmb(kernel, p), kernel' = evaluar_BLOCKED_a_EXIT(k1, p, c)
          PROVE  IOCabeza(kernel') /\ IOSale(kernel, kernel')
      <3> HIDE DEF p
      <3>1. c \in conseguir_tmb(k1, p) /\ c = i
          BY <2>3, <2>5 DEF conseguir_tmb, MismoSemaforo
      <3>2. /\ kernel'.sirviendo = k1.sirviendo
            /\ kernel'.bloqueados = [k1.bloqueados EXCEPT ![c] = RemoveFirst(@, p)]
          BY <2>2, <2>3, <2>6, <3>1, BlockedExit
      <3>3. /\ kernel'.sirviendo = [kernel.sirviendo EXCEPT ![i] = Nadie]
            /\ kernel'.bloqueados = [kernel.bloqueados EXCEPT ![i] = RemoveFirst(kernel.bloqueados[i], p)]
          BY <2>3, <3>1, <3>2 DEF MismoSemaforo
      <3>4. Lugar(RemoveFirst(kernel.bloqueados[i], p), ToSet(kernel.bloqueados[i]) \ {p})
          BY <2>5, LugarQuita
      <3> QED BY <2>1, <3>3, <3>4, UnoSale DEF p
    <2>7. CASE KernelSeCae
        BY <1>0, <1>a, <2>7 DEF KernelSeCae, KernelType
    <2> QED BY <2>1, <2>6, <2>7
  <1> QED BY <1>1, <1>2, <1>3, <1>4, <1>5 DEF Hilos

(***************************************************************************)
(* The inductive invariant: until the console kills the running process    *)
(* there is order in the queues and one token for the CPU; until it kills  *)
(* a blocked one too, the interfaces serve the heads of their queues.      *)
(***************************************************************************)
Orden(k, c, a) == Ordenado(k) /\ Sem(k) /\ Ficha(k, c, a)

IInv ==
  /\ Tipos
  /\ SinMatar(kernel, {"RUNNING"}) => Orden(kernel, cpu, a_kernel)
  /\ SinMatar(kernel, {"RUNNING", "BLOCKED"}) => IOCabeza(kernel)

LEMMA Inicio ==
  ASSUME Init
  PROVE  Tipos /\ Orden(kernel, cpu, a_kernel) /\ IOCabeza(kernel) /\ kernel.matados = {}
  <1>1. Tipos /\ KernelOK(kernel)
      BY InicioTipos, TiposPorPartes
  <1>2. /\ kernel.contador = 0 /\ kernel.estado = [p \in Pid |-> "NO_CREADO"]
        /\ kernel.cola_NEW = <<>> /\ kernel.cola_READY = <<>> /\ kernel.cola_READY_PRIORITARIA = <<>>
        /\ kernel.cola_RUNNING = <<>> /\ kernel.bloqueados = [c \in Clave |-> <<>>]
        /\ kernel.cant = 0 /\ kernel.instancias = InstanciasIniciales
        /\ kernel.sirviendo = [i \in Interfaz |-> Nadie]
        /\ kernel.hilos_respuesta = [p \in Pid |-> 0]
        /\ kernel.dispatch = <<>> /\ kernel.matados = {}
        /\ cpu = CPULibre /\ a_kernel = <<>>
      BY DEF Init
  <1>3. \A p \in Pid : kernel.estado[p] = "NO_CREADO"
      BY <1>2
  <1>4. Colas(kernel, {})
    <2>1. \A e : e # "NO_CREADO" => En(kernel.estado, e, {}) = {}
        BY <1>3 DEF En
    <2>2. Lugar(<<>>, {}) /\ ToSet(<<>>) = {}
        BY LugarVacio DEF Lugar
    <2>3. \A c \in Clave : kernel.bloqueados[c] = <<>>
        BY <1>2
    <2>4. Bloqueos({}, kernel.bloqueados)
        BY <2>2, <2>3 DEF Bloqueos
    <2> QED BY <1>2, <2>1, <2>2, <2>4 DEF Colas, ColasDe
  <1>5. Contados(kernel)
    <2>1. Admitidos(kernel) = {}
        BY <1>3 DEF Admitidos
    <2>2. Cardinality(Admitidos(kernel)) = 0
        BY <2>1, FS_EmptySet
    <2> QED BY <1>2, <2>2 DEF Contados
  <1>6. ConResto(kernel) /\ SinCrear(kernel)
      BY <1>3 DEF ConResto, SinCrear, SinUsar
  <1>7. Ordenado(kernel)
      BY <1>1, <1>4, <1>5, <1>6 DEF Ordenado
  <1>8. Sem(kernel)
    <2>1. ASSUME NEW r \in Recurso
          PROVE  -kernel.instancias[r] <= Len(kernel.bloqueados[r])
      <3>1. InstanciasIniciales[r] \in Nat
          BY ConstantesOK
      <3>2. r \in Clave
          BY DEF Clave
      <3>3. Len(kernel.bloqueados[r]) = 0
          BY <1>2, <3>2
      <3> QED BY <1>2, <3>1, <3>3
    <2> QED BY <2>1 DEF Sem
  <1>9. Ficha(kernel, cpu, a_kernel)
      BY <1>2 DEF Ficha, Libre, CPULibre, Entrega, Ociosa, SinHilos
  <1>10. IOCabeza(kernel)
      BY <1>2 DEF IOCabeza
  <1> QED BY <1>1, <1>2, <1>7, <1>8, <1>9, <1>10 DEF Orden

(* A step from an ordered kernel in which the running process is not       *)
(* killed.                                                                 *)
LEMMA PasoOrden ==
  ASSUME Tipos, Orden(kernel, cpu, a_kernel), [Next]_vars, SinMatar(kernel', {"RUNNING"})
  PROVE  Bien(kernel, kernel') /\ Orden(kernel', cpu', a_kernel')
  <1>0. Ordenado(kernel) /\ Sem(kernel) /\ Ficha(kernel, cpu, a_kernel)
      BY DEF Orden
  <1>a. ASSUME Bien(kernel, kernel'), Ficha(kernel', cpu', a_kernel')
        PROVE  Bien(kernel, kernel') /\ Orden(kernel', cpu', a_kernel')
      BY <1>0, <1>a DEF Bien, Orden
  <1>b. ASSUME Bien(kernel, kernel'), Paso(kernel, kernel'), cpu' = cpu, a_kernel' = a_kernel
        PROVE  Bien(kernel, kernel') /\ Orden(kernel', cpu', a_kernel')
    <2>1. Ficha(kernel', cpu', a_kernel')
        BY <1>0, <1>b, FichaPaso
    <2> QED BY <1>a, <1>b, <2>1
  <1>1. CASE Consola
    <2>1. cpu' = cpu /\ a_kernel' = a_kernel
        BY <1>1 DEF Consola, IniciarProceso, IniciarPlanificacion, DetenerPlanificacion,
                    Multiprogramacion, FinalizarInexistente, FinalizarNew, FinalizarReady,
                    FinalizarRunning, FinalizarBlocked, FinalizarOtro, SinPeriferia
    <2> QED BY <1>0, <1>1, <1>b, <2>1, ConsolaOrden
  <1>2. CASE CPU
    <2>1. Anota(kernel, kernel') /\ MismoSemaforo(kernel, kernel') /\ Ficha(kernel', cpu', a_kernel')
        BY <1>0, <1>2, CPUOrden
    <2>2. Sem(kernel) => Sem(kernel')
        BY <2>1, SemMismo
    <2>3. Bien(kernel, kernel')
        BY <2>1, <2>2, Sigue DEF Anota
    <2> QED BY <1>a, <2>1, <2>3
  <1>3. CASE Respuestas
      BY <1>0, <1>3, <1>a, RespuestasOrden
  <1>4. CASE Hilos
    <2>1. cpu' = cpu /\ a_kernel' = a_kernel
        BY <1>4 DEF Hilos, FinQuantum, ConectarInterfaz, TomarPedido, RespuestaIO, FallaIO,
                    SinPeriferia
    <2> QED BY <1>0, <1>4, <1>b, <2>1, HilosOrden
  <1>5. CASE UNCHANGED vars
    <2>1. kernel' = kernel /\ cpu' = cpu /\ a_kernel' = a_kernel
        BY <1>5 DEF vars
    <2>2. Bien(kernel, kernel')
        BY <1>0, <2>1, BienInmovil DEF MismoSemaforo
    <2> QED BY <1>0, <1>a, <2>1, <2>2
  <1> QED BY <1>1, <1>2, <1>3, <1>4, <1>5 DEF Next

(* The same for the interfaces, if no blocked process is killed either.    *)
LEMMA PasoIO ==
  ASSUME Tipos, Orden(kernel, cpu, a_kernel), IOCabeza(kernel), [Next]_vars,
         SinMatar(kernel', {"RUNNING", "BLOCKED"})
  PROVE  IOCabeza(kernel') /\ IOSale(kernel, kernel')
  <1>0. Ordenado(kernel) /\ Ficha(kernel, cpu, a_kernel)
      BY DEF Orden
  <1>1. SinMatar(kernel', {"RUNNING"}) /\ SinMatar(kernel', {"BLOCKED"})
      BY DEF SinMatar
  <1>2. CASE Consola \/ CPU \/ Respuestas \/ UNCHANGED vars
    <2>1. CASE Consola
        BY <1>0, <1>1, <2>1, ConsolaOrden, ColasIOCabeza
    <2>2. CASE CPU
      <3>1. Anota(kernel, kernel')
          BY <1>0, <2>2, CPUOrden
      <3>2. ColasIO(kernel, kernel')
          BY <3>1, ColasIOIguales DEF Anota
      <3> QED BY <1>0, <3>2, ColasIOCabeza
    <2>3. CASE Respuestas
        BY <1>0, <2>3, RespuestasOrden, ColasIOCabeza
    <2>4. CASE UNCHANGED vars
        BY <2>4 DEF vars, IOCabeza, IOSale
    <2> QED BY <1>2, <2>1, <2>2, <2>3, <2>4
  <1>3. CASE Hilos
      BY <1>0, <1>3, HilosIO
  <1> QED BY <1>2, <1>3 DEF Next

LEMMA PasoIInv ==
  ASSUME IInv, [Next]_vars
  PROVE  IInv'
  <1>1. Tipos'
      BY PasoTipos DEF IInv
  <1>2. kernel.matados \subseteq kernel'.matados
      BY MatadosCrecen DEF IInv
  <1>3. SinMatar(kernel', {"RUNNING"}) => Orden(kernel', cpu', a_kernel')
    <2> SUFFICES ASSUME SinMatar(kernel', {"RUNNING"}) PROVE Orden(kernel', cpu', a_kernel')
        OBVIOUS
    <2>1. SinMatar(kernel, {"RUNNING"})
        BY <1>2 DEF SinMatar
    <2> QED BY <2>1, PasoOrden DEF IInv
  <1>4. SinMatar(kernel', {"RUNNING", "BLOCKED"}) => IOCabeza(kernel')
    <2> SUFFICES ASSUME SinMatar(kernel', {"RUNNING", "BLOCKED"}) PROVE IOCabeza(kernel')
        OBVIOUS
    <2>1. SinMatar(kernel, {"RUNNING"}) /\ SinMatar(kernel, {"RUNNING", "BLOCKED"})
        BY <1>2 DEF SinMatar
    <2> QED BY <2>1, PasoIO DEF IInv
  <1> QED BY <1>1, <1>3, <1>4 DEF IInv

(* The inductive invariant of the scheduler.  It holds whatever the        *)
(* programs ask and whatever the console kills: what the killing of the    *)
(* running process breaks is under its history.                            *)
THEOREM Invariante == Spec => []IInv
  <1>1. Init => IInv
      BY Inicio DEF IInv
  <1>2. IInv /\ [Next]_vars => IInv'
      BY PasoIInv
  <1> QED BY <1>1, <1>2, PTL DEF Spec

(***************************************************************************)
(* What the invariant says of the queues and the counters                  *)
(***************************************************************************)
LEMMA OrdenColas ==
  ASSUME Ordenado(kernel)
  PROVE  /\ Encolados(kernel.cola_NEW, "NEW")
         /\ Encolados(kernel.cola_READY, "READY")
         /\ Encolados(kernel.cola_READY_PRIORITARIA, "READY_PRIORITARIO")
         /\ Encolados(kernel.cola_RUNNING, "RUNNING")
         /\ \A c \in Clave : IsInjective(kernel.bloqueados[c])
         /\ \A p \in Pid : Cardinality(conseguir_tmb(kernel, p)) =
                             IF kernel.estado[p] = "BLOCKED" THEN 1 ELSE 0
  <1>0. /\ Lugar(kernel.cola_NEW, En(kernel.estado, "NEW", {}))
        /\ Lugar(kernel.cola_READY, En(kernel.estado, "READY", {}))
        /\ Lugar(kernel.cola_READY_PRIORITARIA, En(kernel.estado, "READY_PRIORITARIO", {}))
        /\ Lugar(kernel.cola_RUNNING, En(kernel.estado, "RUNNING", {}))
        /\ Bloqueos(En(kernel.estado, "BLOCKED", {}), kernel.bloqueados)
      BY DEF Ordenado, Colas, ColasDe
  <1>1. ASSUME NEW s, NEW e, Lugar(s, En(kernel.estado, e, {}))
        PROVE  Encolados(s, e)
    <2>1. IsInjective(s) /\ ToSet(s) = En(kernel.estado, e, {})
        BY <1>1, LugarInyectivo
    <2> QED BY <2>1 DEF Encolados, En
  <1>2. \A c \in Clave : IsInjective(kernel.bloqueados[c])
      BY <1>0, LugarInyectivo DEF Bloqueos
  <1>3. ASSUME NEW p \in Pid
        PROVE  Cardinality(conseguir_tmb(kernel, p)) = IF kernel.estado[p] = "BLOCKED" THEN 1 ELSE 0
    <2>1. p \in En(kernel.estado, "BLOCKED", {}) <=> \E c \in Clave : p \in ToSet(kernel.bloqueados[c])
        BY <1>0 DEF Bloqueos
    <2>2. p \in En(kernel.estado, "BLOCKED", {}) <=> kernel.estado[p] = "BLOCKED"
        BY DEF En
    <2>3. CASE kernel.estado[p] = "BLOCKED"
      <3>1. PICK c \in Clave : p \in ToSet(kernel.bloqueados[c])
          BY <2>1, <2>2, <2>3
      <3>2. \A d \in Clave : p \in ToSet(kernel.bloqueados[d]) => d = c
          BY <1>0, <3>1 DEF Bloqueos
      <3>3. conseguir_tmb(kernel, p) = {c}
          BY <3>1, <3>2 DEF conseguir_tmb
      <3> QED BY <2>3, <3>3, FS_Singleton
    <2>4. CASE kernel.estado[p] # "BLOCKED"
      <3>1. conseguir_tmb(kernel, p) = {}
          BY <2>1, <2>2, <2>4 DEF conseguir_tmb
      <3> QED BY <2>4, <3>1, FS_EmptySet
    <2> QED BY <2>3, <2>4
  <1> QED BY <1>0, <1>1, <1>2, <1>3

(* Whatever the threads and the console do, until the running process is   *)
(* killed: a process is once in the queue of its state and in no other.    *)
THEOREM SiempreColasCoherentes == Spec => []ColasCoherentes
  <1>1. IInv => ColasCoherentes
      BY OrdenColas DEF IInv, Orden, ColasCoherentes
  <1> QED BY <1>1, Invariante, PTL

(* cant_procesos_ejecutando counts the processes in the system, whoever    *)
(* finishes them, except those the console kills in NEW or running.        *)
THEOREM SiempreCantCoherente == Spec => []CantCoherente
  <1>1. IInv => CantCoherente
    <2> SUFFICES ASSUME IInv, SinMatar(kernel, {"NEW", "RUNNING"})
                 PROVE  kernel.cant = Cardinality(Admitidos(kernel))
        BY DEF CantCoherente
    <2>1. SinMatar(kernel, {"NEW"}) /\ SinMatar(kernel, {"RUNNING"})
        BY DEF SinMatar
    <2> QED BY <2>1 DEF IInv, Orden, Ordenado, Contados
  <1> QED BY <1>1, Invariante, PTL

(* A resource owes at most one instance to each process in its queue, as   *)
(* long as the console does not kill a running process.                    *)
THEOREM SiempreSemaforoCoherente ==
  Spec => [](SinMatar(kernel, {"RUNNING"}) => SemaforoCoherente)
  <1>1. IInv => (SinMatar(kernel, {"RUNNING"}) => SemaforoCoherente)
      BY DEF IInv, Orden, Sem, SemaforoCoherente
  <1> QED BY <1>1, Invariante, PTL

(* Who has priority has part of a quantum left, under the same condition.  *)
THEOREM SiemprePrioridadConResto ==
  Spec => [](SinMatar(kernel, {"RUNNING"}) => PrioridadConResto)
  <1>1. ASSUME Ordenado(kernel) PROVE PrioridadConResto
    <2>1. ToSet(kernel.cola_READY_PRIORITARIA) = {p \in Pid : kernel.estado[p] = "READY_PRIORITARIO"}
        BY <1>1, OrdenColas DEF Encolados
    <2> QED BY <1>1, <2>1 DEF PrioridadConResto, Ordenado, ConResto
  <1>2. IInv => (SinMatar(kernel, {"RUNNING"}) => PrioridadConResto)
      BY <1>1 DEF IInv, Orden
  <1> QED BY <1>2, Invariante, PTL

(***************************************************************************)
(* What the invariant says of the steps                                    *)
(***************************************************************************)
(* IOAlQuePidio: the thread of an interface takes out of its queue the     *)
(* process whose request it sent, until the console kills one in a queue.  *)
THEOREM SiempreIOAlQuePidio == Spec => IOAlQuePidio
  <1> DEFINE A == SinMatar(kernel', {"RUNNING", "BLOCKED"}) =>
                    \A i \in Interfaz : kernel.sirviendo[i] # Nadie /\ kernel'.sirviendo[i] = Nadie
                      => ToSet(kernel.bloqueados[i]) \ ToSet(kernel'.bloqueados[i]) = {kernel.sirviendo[i]}
  <1>1. IInv /\ [Next]_vars => [A]_vars
    <2> SUFFICES ASSUME IInv, [Next]_vars, SinMatar(kernel', {"RUNNING", "BLOCKED"})
                 PROVE  IOSale(kernel, kernel')
        BY DEF IOSale
    <2>1. kernel.matados \subseteq kernel'.matados
        BY MatadosCrecen DEF IInv
    <2>2. SinMatar(kernel, {"RUNNING"}) /\ SinMatar(kernel, {"RUNNING", "BLOCKED"})
        BY <2>1 DEF SinMatar
    <2> QED BY <2>2, PasoIO DEF IInv
  <1> QED BY <1>1, Invariante, PTL DEF Spec, IOAlQuePidio

(* If the console never kills a running process, none was ever killed.     *)
LEMMA NuncaSeMata ==
  ASSUME "RUNNING" \notin EstadosMatables
  PROVE  Spec => [](IInv /\ SinMatar(kernel, {"RUNNING"}))
  <1>1. Init => SinMatar(kernel, {"RUNNING"})
      BY Inicio DEF SinMatar
  <1>2. IInv /\ SinMatar(kernel, {"RUNNING"}) /\ [Next]_vars => SinMatar(kernel, {"RUNNING"})'
    <2> SUFFICES ASSUME IInv, SinMatar(kernel, {"RUNNING"}), [Next]_vars
                 PROVE  SinMatar(kernel', {"RUNNING"})
        OBVIOUS
    <2>1. kernel'.matados \subseteq kernel.matados \cup EstadosMatables
        BY MatadosCrecen DEF IInv
    <2> QED BY <2>1 DEF SinMatar
  <1> QED BY <1>1, <1>2, Invariante, PTL DEF Spec

LEMMA PasoSinMatar ==
  ASSUME "RUNNING" \notin EstadosMatables, IInv, SinMatar(kernel, {"RUNNING"}), [Next]_vars
  PROVE  Bien(kernel, kernel')
  <1>1. kernel'.matados \subseteq kernel.matados \cup EstadosMatables
      BY MatadosCrecen DEF IInv
  <1>2. SinMatar(kernel', {"RUNNING"})
      BY <1>1 DEF SinMatar
  <1> QED BY <1>2, PasoOrden DEF IInv

(* ExitFinal: if the console only kills processes that do not run, who     *)
(* finished is never moved again.                                          *)
THEOREM SiempreExitFinal == "RUNNING" \notin EstadosMatables => (Spec => ExitFinal)
  <1> SUFFICES ASSUME "RUNNING" \notin EstadosMatables PROVE Spec => ExitFinal
      OBVIOUS
  <1> DEFINE A == \A p \in Pid : kernel.estado[p] = "EXIT" => kernel'.estado[p] = "EXIT"
  <1>1. IInv /\ SinMatar(kernel, {"RUNNING"}) /\ [Next]_vars => [A]_vars
      BY PasoSinMatar DEF Bien
  <1>2. Spec => [](IInv /\ SinMatar(kernel, {"RUNNING"}))
      BY NuncaSeMata
  <1> QED BY <1>1, <1>2, PTL DEF Spec, ExitFinal

(* LiberarCPUDespacha, under the same condition: the CPU is not left to    *)
(* nobody while somebody who was already admitted is ready.                *)
THEOREM SiempreLiberarCPUDespacha ==
  "RUNNING" \notin EstadosMatables => (Spec => LiberarCPUDespacha)
  <1> SUFFICES ASSUME "RUNNING" \notin EstadosMatables PROVE Spec => LiberarCPUDespacha
      OBVIOUS
  <1> DEFINE A == kernel.cola_RUNNING # <<>> /\ kernel'.cola_RUNNING = <<>> /\ ~kernel'.pausada
                    => \A p \in Pid : kernel'.estado[p] \in {"READY", "READY_PRIORITARIO"}
                                        => kernel.estado[p] = "NEW"
  <1>1. IInv /\ SinMatar(kernel, {"RUNNING"}) /\ [Next]_vars => [A]_vars
      BY PasoSinMatar DEF Bien, Ocupa
  <1>2. Spec => [](IInv /\ SinMatar(kernel, {"RUNNING"}))
      BY NuncaSeMata
  <1> QED BY <1>1, <1>2, PTL DEF Spec, LiberarCPUDespacha

(***************************************************************************)
(* The token is one: how many messages of the dispatch socket carry it     *)
(***************************************************************************)
EsFicha(m) == m.tipo = "PCB" \/ Siga(m)
Fichas(d)  == {i \in DOMAIN d : EsFicha(d[i])}

LEMMA DeQueSon ==
  ASSUME NEW p
  PROVE  /\ EsFicha(PCB(p)) /\ PCB(p).dato = p /\ ~Siga(PCB(p))
         /\ EsFicha(RESP(0)) /\ RESP(0).tipo # "PCB"
         /\ ~EsFicha(RESP(1))
  BY DEF EsFicha, PCB, RESP, Siga

LEMMA FichasDeUno ==
  ASSUME NEW m
  PROVE  /\ DOMAIN <<m>> = {1} /\ <<m>>[1] = m
         /\ Cardinality(Fichas(<<m>>)) = IF EsFicha(m) THEN 1 ELSE 0
  <1>1. DOMAIN <<m>> = {1} /\ <<m>>[1] = m
      OBVIOUS
  <1>2. CASE EsFicha(m)
    <2>1. Fichas(<<m>>) = {1}
        BY <1>1, <1>2 DEF Fichas
    <2> QED BY <1>1, <1>2, <2>1, FS_Singleton
  <1>3. CASE ~EsFicha(m)
    <2>1. Fichas(<<m>>) = {}
        BY <1>1, <1>3 DEF Fichas
    <2> QED BY <1>1, <1>3, <2>1, FS_EmptySet
  <1> QED BY <1>2, <1>3

(* The second message of d, and only it, carries the token.                *)
LaSegunda(d, m, n) ==
  DOMAIN d = {1, 2} /\ d[1] = m /\ d[2] = n /\ Cardinality(Fichas(d)) = 1

LEMMA FichasDeDos ==
  ASSUME NEW m, NEW n, ~EsFicha(m), EsFicha(n), NEW d, d = Append(<<m>>, n)
  PROVE  LaSegunda(d, m, n)
  <1> DEFINE S == {m, n}
             s == <<m>>
  <1>1. n \in S /\ s \in Seq(S) /\ Len(s) = 1 /\ s[1] = m
      OBVIOUS
  <1>2. d = Append(s, n)
      OBVIOUS
  <1> HIDE DEF S, s
  <1>3. /\ d \in Seq(S) /\ Len(d) = Len(s) + 1
        /\ \A i \in 1 .. Len(s) : d[i] = s[i]
        /\ d[Len(s) + 1] = n
      BY <1>1, <1>2, AppendProperties
  <1>4. Len(d) = 2 /\ d[1] = m /\ d[2] = n
      BY <1>1, <1>3
  <1>5. DOMAIN d = {1, 2}
    <2>1. DOMAIN d = 1 .. 2
        BY <1>3, <1>4, LenProperties
    <2> QED BY <2>1
  <1>6. Fichas(d) = {2}
      BY <1>4, <1>5 DEF Fichas
  <1> QED BY <1>4, <1>5, <1>6, FS_Singleton DEF LaSegunda

(* The places of the token: nowhere, on its way to the CPU or to go on,    *)
(* in the CPU, or on its way back.                                         *)
Ninguna(k, c, a) ==
  /\ Ociosa(k) /\ a = <<>> /\ c.fase # "ejecutando"
  /\ Cardinality(Fichas(k.dispatch)) = 0
  /\ \A i \in DOMAIN k.dispatch : ~EsFicha(k.dispatch[i])

Enviada(k, c, a, p) ==
  /\ Corre(k, p) /\ a = <<>> /\ c.fase # "ejecutando"
  /\ Cardinality(Fichas(k.dispatch)) = 1
  /\ \A i \in DOMAIN k.dispatch : /\ k.dispatch[i].tipo = "PCB" => k.dispatch[i].dato = p
                                  /\ Siga(k.dispatch[i]) => c.pid = p

EnUso(k, c, a, p) ==
  Corre(k, p) /\ a = <<>> /\ c.fase = "ejecutando" /\ c.pid = p /\ k.dispatch = <<>>

Devuelta(k, c, a, p) ==
  /\ Corre(k, p) /\ c.fase # "ejecutando" /\ k.dispatch = <<>>
  /\ \E m : a = <<m>> /\ m.pid = p

LEMMA DondeEsta ==
  ASSUME NombresSignal \subseteq Recurso, Ficha(kernel, cpu, a_kernel)
  PROVE  \/ Ninguna(kernel, cpu, a_kernel)
         \/ \E p \in Pid : \/ Enviada(kernel, cpu, a_kernel, p)
                          \/ EnUso(kernel, cpu, a_kernel, p)
                          \/ Devuelta(kernel, cpu, a_kernel, p)
  <1>0. DOMAIN <<>> = {} /\ Cardinality(Fichas(<<>>)) = 0
    <2>1. DOMAIN <<>> = {}
        OBVIOUS
    <2>2. Fichas(<<>>) = {}
        BY <2>1 DEF Fichas
    <2> QED BY <2>1, <2>2, FS_EmptySet
  <1>1. CASE Libre(kernel, cpu, a_kernel)
    <2>1. CASE Ociosa(kernel) /\ kernel.dispatch = <<>>
        BY <1>0, <1>1, <2>1 DEF Libre, Ninguna
    <2>2. ASSUME NEW p \in Pid, Corre(kernel, p), kernel.dispatch = Append(<<>>, PCB(p))
          PROVE  Enviada(kernel, cpu, a_kernel, p)
      <3>1. kernel.dispatch = <<PCB(p)>>
          BY <2>2, UnMensaje
      <3>2. Cardinality(Fichas(kernel.dispatch)) = 1
          BY <3>1, FichasDeUno, DeQueSon
      <3>3. \A i \in DOMAIN kernel.dispatch : kernel.dispatch[i] = PCB(p)
          BY <3>1, FichasDeUno
      <3> QED BY <1>1, <2>2, <3>2, <3>3, DeQueSon DEF Libre, Enviada
    <2> QED BY <1>1, <2>1, <2>2 DEF Libre, Entrega
  <1>2. CASE Rechazada(kernel, cpu, a_kernel)
    <2>1. CASE Ociosa(kernel) /\ kernel.dispatch = <<RESP(1)>>
      <3>1. Cardinality(Fichas(kernel.dispatch)) = 0
          BY <2>1, FichasDeUno, DeQueSon
      <3>2. \A i \in DOMAIN kernel.dispatch : kernel.dispatch[i] = RESP(1)
          BY <2>1, FichasDeUno
      <3> QED BY <1>2, <2>1, <3>1, <3>2, DeQueSon DEF Rechazada, Ninguna
    <2>2. ASSUME NEW p \in Pid, Corre(kernel, p), kernel.dispatch = Append(<<RESP(1)>>, PCB(p))
          PROVE  Enviada(kernel, cpu, a_kernel, p)
      <3>1. /\ DOMAIN kernel.dispatch = {1, 2} /\ Cardinality(Fichas(kernel.dispatch)) = 1
            /\ kernel.dispatch[1] = RESP(1) /\ kernel.dispatch[2] = PCB(p)
        <4>1. ~EsFicha(RESP(1)) /\ EsFicha(PCB(p))
            BY DeQueSon
        <4>2. LaSegunda(kernel.dispatch, RESP(1), PCB(p))
            BY <2>2, <4>1, FichasDeDos
        <4> QED BY <4>2 DEF LaSegunda
      <3>2. \A i \in DOMAIN kernel.dispatch : kernel.dispatch[i] = RESP(1) \/ kernel.dispatch[i] = PCB(p)
          BY <3>1
      <3>3. RESP(1).tipo # "PCB" /\ ~Siga(RESP(1))
          BY DeQueSon DEF EsFicha
      <3> QED BY <1>2, <2>2, <3>1, <3>2, <3>3, DeQueSon DEF Rechazada, Enviada
    <2> QED BY <1>2, <2>1, <2>2 DEF Rechazada, Entrega
  <1>3. ASSUME NEW p \in Pid, Corre(kernel, p), EnCPU(kernel, cpu, a_kernel, p)
        PROVE  Enviada(kernel, cpu, a_kernel, p) \/ EnUso(kernel, cpu, a_kernel, p)
    <2>1. CASE Ejecuta(cpu, a_kernel, kernel.dispatch)
        BY <1>3, <2>1 DEF Ejecuta, EnCPU, EnUso
    <2>2. CASE Aceptada(cpu, a_kernel, kernel.dispatch)
      <3>1. Cardinality(Fichas(kernel.dispatch)) = 1
          BY <2>2, FichasDeUno, DeQueSon DEF Aceptada
      <3>2. \A i \in DOMAIN kernel.dispatch : kernel.dispatch[i] = RESP(0)
          BY <2>2, FichasDeUno DEF Aceptada
      <3>3. a_kernel = <<>> /\ cpu.fase # "ejecutando" /\ cpu.pid = p
          BY <1>3, <2>2 DEF Aceptada, EnCPU
      <3> QED BY <1>3, <3>1, <3>2, <3>3, DeQueSon DEF Enviada
    <2> QED BY <1>3, <2>1, <2>2 DEF EnCPU, Perdida
  <1>4. ASSUME NEW p \in Pid, Corre(kernel, p), EnMensaje(kernel, cpu, a_kernel, p)
        PROVE  Devuelta(kernel, cpu, a_kernel, p)
      BY <1>4 DEF EnMensaje, Pregunta, Devuelta
  <1> QED BY <1>1, <1>2, <1>3, <1>4 DEF Ficha

LEMMA FichaSola ==
  ASSUME NombresSignal \subseteq Recurso, Ficha(kernel, cpu, a_kernel)
  PROVE  /\ Len(kernel.cola_RUNNING) <= 1
         /\ Len(kernel.cola_RUNNING) =
              Len(a_kernel) + (IF cpu.fase = "ejecutando" THEN 1 ELSE 0)
              + Cardinality(Fichas(kernel.dispatch))
         /\ \A q \in Pid : kernel.hilos_respuesta[q] = IF q \in Corriendo THEN 1 ELSE 0
         /\ cpu.fase = "ejecutando" => cpu.pid \in Corriendo
         /\ \A i \in DOMAIN a_kernel : a_kernel[i].pid \in Corriendo
         /\ \A i \in DOMAIN kernel.dispatch :
              /\ kernel.dispatch[i].tipo = "PCB" => kernel.dispatch[i].dato \in Corriendo
              /\ Siga(kernel.dispatch[i]) => cpu.pid \in Corriendo
  <1> DEFINE A == Len(a_kernel)
             C == IF cpu.fase = "ejecutando" THEN 1 ELSE 0
             D == Cardinality(Fichas(kernel.dispatch))
             R == Len(kernel.cola_RUNNING)
             HilosOK == \A q \in Pid : kernel.hilos_respuesta[q] = IF q \in Corriendo THEN 1 ELSE 0
             FichasOK == /\ cpu.fase = "ejecutando" => cpu.pid \in Corriendo
                         /\ \A i \in DOMAIN a_kernel : a_kernel[i].pid \in Corriendo
                         /\ \A i \in DOMAIN kernel.dispatch :
                              /\ kernel.dispatch[i].tipo = "PCB" => kernel.dispatch[i].dato \in Corriendo
                              /\ Siga(kernel.dispatch[i]) => cpu.pid \in Corriendo
  <1>0. /\ DOMAIN <<>> = {} /\ Len(<<>>) = 0 /\ ToSet(<<>>) = {}
        /\ Cardinality(Fichas(<<>>)) = 0
    <2>1. DOMAIN <<>> = {} /\ Len(<<>>) = 0
        OBVIOUS
    <2>2. Fichas(<<>>) = {}
        BY <2>1 DEF Fichas
    <2>3. ToSet(<<>>) = {}
        BY LugarVacio DEF Lugar
    <2> QED BY <2>1, <2>2, <2>3, FS_EmptySet
  <1>1. ASSUME Ociosa(kernel) PROVE R = 0 /\ HilosOK
      BY <1>0, <1>1 DEF Ociosa, SinHilos, Corriendo
  <1>2. ASSUME NEW p \in Pid, Corre(kernel, p) PROVE R = 1 /\ HilosOK /\ Corriendo = {p}
    <2>1. Len(<<p>>) = 1 /\ ToSet(<<p>>) = {p}
      <3>1. Len(<<p>>) = 1 /\ DOMAIN <<p>> = {1} /\ <<p>>[1] = p
          BY FichasDeUno
      <3> QED BY <3>1 DEF ToSet
    <2> QED BY <1>2, <2>1 DEF Corre, Corriendo
  <1>3. ASSUME Ninguna(kernel, cpu, a_kernel)
        PROVE  A = 0 /\ C = 0 /\ D = 0 /\ R = 0 /\ HilosOK /\ FichasOK
    <2>1. A = 0 /\ C = 0 /\ D = 0 /\ R = 0 /\ HilosOK
        BY <1>0, <1>1, <1>3 DEF Ninguna
    <2>2. FichasOK
        BY <1>0, <1>3 DEF Ninguna, EsFicha
    <2> QED BY <2>1, <2>2
  <1>4. ASSUME NEW p \in Pid, Enviada(kernel, cpu, a_kernel, p)
        PROVE  A = 0 /\ C = 0 /\ D = 1 /\ R = 1 /\ HilosOK /\ FichasOK
    <2>1. Corriendo = {p} /\ R = 1 /\ HilosOK
        BY <1>2, <1>4 DEF Enviada
    <2> QED BY <1>0, <1>4, <2>1 DEF Enviada
  <1>5. ASSUME NEW p \in Pid, EnUso(kernel, cpu, a_kernel, p)
        PROVE  A = 0 /\ C = 1 /\ D = 0 /\ R = 1 /\ HilosOK /\ FichasOK
    <2>1. Corriendo = {p} /\ R = 1 /\ HilosOK
        BY <1>2, <1>5 DEF EnUso
    <2> QED BY <1>0, <1>5, <2>1 DEF EnUso
  <1>6. ASSUME NEW p \in Pid, Devuelta(kernel, cpu, a_kernel, p)
        PROVE  A = 1 /\ C = 0 /\ D = 0 /\ R = 1 /\ HilosOK /\ FichasOK
    <2>1. Corriendo = {p} /\ R = 1 /\ HilosOK
        BY <1>2, <1>6 DEF Devuelta
    <2>2. PICK m : a_kernel = <<m>> /\ m.pid = p
        BY <1>6 DEF Devuelta
    <2>3. A = 1 /\ DOMAIN a_kernel = {1} /\ a_kernel[1] = m
        BY <2>2, FichasDeUno
    <2> QED BY <1>0, <1>6, <2>1, <2>2, <2>3 DEF Devuelta
  <1> HIDE DEF A, C, D, R, HilosOK, FichasOK
  <1>7. \/ A = 0 /\ C = 0 /\ D = 0 /\ R = 0 /\ HilosOK /\ FichasOK
        \/ A = 0 /\ C = 0 /\ D = 1 /\ R = 1 /\ HilosOK /\ FichasOK
        \/ A = 0 /\ C = 1 /\ D = 0 /\ R = 1 /\ HilosOK /\ FichasOK
        \/ A = 1 /\ C = 0 /\ D = 0 /\ R = 1 /\ HilosOK /\ FichasOK
      BY <1>3, <1>4, <1>5, <1>6, DondeEsta
  <1>8. R <= 1 /\ R = A + C + D /\ HilosOK /\ FichasOK
      BY <1>7
  <1> QED BY <1>8 DEF A, C, D, R, HilosOK, FichasOK

(* FichaUnica, if the programs only signal the resources that exist: a     *)
(* SIGNAL of another name is not answered and the token is lost in it.     *)
THEOREM SiempreFichaUnica == NombresSignal \subseteq Recurso => (Spec => []FichaUnica)
  <1> SUFFICES ASSUME NombresSignal \subseteq Recurso PROVE Spec => []FichaUnica
      OBVIOUS
  <1>1. Indices(kernel.dispatch, LAMBDA m : m.tipo = "PCB" \/ Siga(m)) = Fichas(kernel.dispatch)
      BY DEF Indices, Fichas, EsFicha
  <1>2. IInv => FichaUnica
    <2> SUFFICES ASSUME IInv, SinMatar(kernel, {"RUNNING"}) PROVE FichaUnica
        BY DEF FichaUnica
    <2>1. Ficha(kernel, cpu, a_kernel)
        BY DEF IInv, Orden
    <2> QED BY <1>1, <2>1, FichaSola DEF FichaUnica
  <1> QED BY <1>2, Invariante, PTL
=============================================================================
