----------------------- MODULE PlanificadorHilos_proofs -----------------------
(***************************************************************************)
(* Proofs about PlanificadorHilos: for any number of processes and of      *)
(* answering threads, interleaved access by access.                        *)
(***************************************************************************)
EXTENDS PlanificadorHilos, SequenceTheorems, FiniteSetTheorems, TLAPS

(***************************************************************************)
(* The threads                                                             *)
(***************************************************************************)
(* The steps, by name.                                                     *)
sacarNEW     == sacar("NEW")
sacarREADY   == sacar("READY")
sacarRUNNING == sacar("RUNNING")
sacarBLOCKED == sacar("BLOCKED")
ponerREADY   == poner("READY")
ponerRUNNING == poner("RUNNING")
ponerBLOCKED == poner("BLOCKED")
terminar     == hacer("terminar")
verNEW       == hacer("ver NEW")
tomarMutex   == hacer("tomar mutex")
verREADY     == hacer("ver READY")
enviar       == hacer("enviar")
crearHilo    == hacer("crear hilo")
soltarMutex  == hacer("soltar mutex")
mirarRUNNING == hacer("mirar RUNNING")
recibir      == hacer("recibir")

Pasos == {sacarNEW, sacarREADY, sacarRUNNING, sacarBLOCKED, ponerREADY, ponerRUNNING, ponerBLOCKED,
          terminar, verNEW, tomarMutex, verREADY, enviar, crearHilo, soltarMutex, mirarRUNNING, recibir}

(* Which step b may come right after a, and which may be the last.         *)
Encadenados(a, b) ==
  /\ a = sacarNEW => b = ponerREADY
  /\ a = sacarREADY => b = ponerRUNNING
  /\ a = sacarRUNNING => b \in {ponerREADY, ponerBLOCKED, terminar}
  /\ a = sacarBLOCKED => b \in {ponerREADY, terminar}
  /\ a = ponerREADY => b \in {verNEW, tomarMutex}
  /\ a = ponerRUNNING => b = enviar
  /\ a = ponerBLOCKED => b = tomarMutex
  /\ a = terminar => b = tomarMutex
  /\ a = verNEW => b = tomarMutex
  /\ a = tomarMutex => b = verNEW
  /\ a = verREADY => b = soltarMutex
  /\ a = enviar => b = crearHilo
  /\ a = crearHilo => b = soltarMutex
  /\ a = soltarMutex => b = verNEW
  /\ a = mirarRUNNING => b = recibir
  /\ a # recibir
Ultimo(a) == a \in {terminar, verNEW, tomarMutex,
                    soltarMutex, recibir}

(* What comes after a process was taken from a queue says from which one.  *)
Terceros(s) ==
  \A i \in 1 .. Len(s) :
    /\ s[i] = sacarNEW => i + 2 <= Len(s) /\ s[i + 2] = verNEW
    /\ s[i] = sacarRUNNING => i + 2 <= Len(s) /\ s[i + 2] = tomarMutex
    /\ s[i] = sacarBLOCKED /\ i + 2 <= Len(s) => s[i + 2] = tomarMutex

Encadenada(s) ==
  /\ \A i \in 1 .. Len(s) - 1 : Encadenados(s[i], s[i + 1])
  /\ Len(s) > 0 => Ultimo(s[Len(s)])
  /\ Terceros(s)

Motivo == {"EXIT", "INTERRUPCION", "IO"}

HilosOK ==
  /\ hilo \in [Hilo -> [pila: Seq(Pasos), p: Pid, id: Pid]]
  /\ \A t \in Hilo : Encadenada(hilo[t].pila)

Tipos ==
  /\ cola \in [Cola -> Seq(Pid)] /\ contador \in 0 .. CantPids /\ pausada \in BOOLEAN
  /\ mutex \in Hilo \cup {Nadie}
  /\ dispatch \in Seq(Pid) /\ a_kernel \in Seq([motivo: Motivo, pid: Pid])
  /\ corrio \subseteq Pid /\ fin \subseteq Pid /\ nulo \in BOOLEAN
  /\ HilosOK

(* The step that t is about to take, <<>> if none; whether it has just     *)
(* admitted a process; whether it has yet to plan.                         *)
Ahora(t) == IF hilo[t].pila = <<>> THEN <<>> ELSE hilo[t].pila[1]
Admite(t) == Ahora(t) = ponerREADY /\ hilo[t].pila[2] = verNEW
Toma(t) == \E i \in 1 .. Len(hilo[t].pila) : hilo[t].pila[i] = tomarMutex

(***************************************************************************)
(* The inductive invariant                                                 *)
(***************************************************************************)
Dentro == {verREADY, sacarREADY, ponerRUNNING, enviar,
           crearHilo, soltarMutex}
EnCurso == {enviar, crearHilo, mirarRUNNING, recibir,
            sacarRUNNING}
Llevan == {ponerREADY, ponerRUNNING, ponerBLOCKED, terminar}

(* Who is between ver READY and soltar mutex holds the mutex.              *)
Exclusion == \A t \in Hilo : Ahora(t) \in Dentro <=> mutex = t

(* What was seen before a pop still holds.                                 *)
VistoVigente ==
  \A t \in Hilo :
    /\ Ahora(t) \in {sacarREADY, ponerRUNNING} => cola["RUNNING"] = <<>>
    /\ Ahora(t) = sacarREADY => cola["READY"] # <<>>
    /\ Ahora(t) = sacarBLOCKED => t = interfaz /\ cola["BLOCKED"] # <<>>

(* One process in the CPU and one thread in charge of it.                  *)
UnTurno ==
  /\ Len(cola["RUNNING"]) <= 1
  /\ Len(dispatch) + Len(a_kernel) <= Len(cola["RUNNING"])
  /\ \A i \in 1 .. Len(dispatch) : dispatch[i] = cola["RUNNING"][1]
  /\ \A i \in 1 .. Len(a_kernel) : a_kernel[i].pid = cola["RUNNING"][1]
  /\ \A t, u \in Hilo : Ahora(t) \in EnCurso /\ Ahora(u) \in EnCurso => t = u
  /\ \A t \in Hilo :
       /\ Ahora(t) \in EnCurso => cola["RUNNING"] # <<>>
       /\ Ahora(t) \in {enviar, sacarRUNNING} => dispatch = <<>> /\ a_kernel = <<>>
       /\ Ahora(t) = enviar => hilo[t].p = cola["RUNNING"][1]
       /\ Ahora(t) = recibir => hilo[t].id = cola["RUNNING"][1]

(* Every live process is in one place, and only live ones are.             *)
Esta(p, s) == \E i \in 1 .. Len(s) : s[i] = p
Lleva(t, p) == Ahora(t) \in Llevan /\ hilo[t].p = p
ColasSinRepetir ==
  \A q, r \in Cola : \A i \in 1 .. Len(cola[q]), j \in 1 .. Len(cola[r]) :
    cola[q][i] = cola[r][j] => q = r /\ i = j
ManosSinRepetir ==
  \A t, u \in Hilo : Ahora(t) \in Llevan /\ Ahora(u) \in Llevan /\ hilo[t].p = hilo[u].p => t = u
ColaOMano ==
  \A t \in Hilo, q \in Cola : Ahora(t) \in Llevan => ~Esta(hilo[t].p, cola[q])
EnColaVivo ==
  \A q \in Cola : \A i \in 1 .. Len(cola[q]) : cola[q][i] < contador /\ cola[q][i] \notin fin
EnManoVivo ==
  \A t \in Hilo : Ahora(t) \in Llevan => hilo[t].p < contador /\ hilo[t].p \notin fin
VivoEsta ==
  \A p \in Pid : p < contador /\ p \notin fin =>
    (\E q \in Cola : Esta(p, cola[q])) \/ (\E t \in Hilo : Lleva(t, p))
UnLugar ==
  ColasSinRepetir /\ ManosSinRepetir /\ ColaOMano /\ EnColaVivo /\ EnManoVivo /\ VivoEsta

(* No process that has run is NEW.                                         *)
NuevosSinCorrer ==
  /\ \A p \in corrio : p < contador /\ ~Esta(p, cola["NEW"])
  /\ \A p \in fin : p < contador
  /\ \A t \in Hilo : Admite(t) => hilo[t].p \notin corrio

(* When somebody that has run waits and could be dispatched, some thread   *)
(* has yet to look.                                                        *)
Mira(t) == Toma(t) \/ Ahora(t) \in {verREADY, sacarREADY, ponerRUNNING}
AlguienMira ==
  ~pausada /\ cola["RUNNING"] = <<>> /\ (\E p \in corrio : Esta(p, cola["READY"]))
    => \E t \in Hilo : Mira(t)

Coherente ==
  Exclusion /\ VistoVigente /\ UnTurno /\ UnLugar /\ NuevosSinCorrer /\ AlguienMira

IInv == Tipos /\ (~nulo => Coherente)

-----------------------------------------------------------------------------
(* The steps are all different.                                            *)
LEMMA ClasesDistintas ==
  /\ \A q, r : sacar(q) = sacar(r) => q = r
  /\ \A q, r : poner(q) = poner(r) => q = r
  /\ \A s, r : hacer(s) = hacer(r) => s = r
  /\ \A q, r : sacar(q) # poner(r)
  /\ \A q, s : sacar(q) # hacer(s) /\ poner(q) # hacer(s)
  /\ \A q : sacar(q) # <<>> /\ poner(q) # <<>> /\ hacer(q) # <<>>
  BY DEF sacar, poner, hacer

LEMMA PasosDistintos ==
  /\ sacarNEW \notin {sacarREADY, sacarRUNNING, sacarBLOCKED, ponerREADY, ponerRUNNING,
                      ponerBLOCKED, terminar, verNEW, tomarMutex, verREADY, enviar, crearHilo,
                      soltarMutex, mirarRUNNING, recibir, <<>>}
  /\ sacarREADY \notin {sacarRUNNING, sacarBLOCKED, ponerREADY, ponerRUNNING, ponerBLOCKED,
                        terminar, verNEW, tomarMutex, verREADY, enviar, crearHilo, soltarMutex,
                        mirarRUNNING, recibir, <<>>}
  /\ sacarRUNNING \notin {sacarBLOCKED, ponerREADY, ponerRUNNING, ponerBLOCKED, terminar, verNEW,
                          tomarMutex, verREADY, enviar, crearHilo, soltarMutex, mirarRUNNING,
                          recibir, <<>>}
  /\ sacarBLOCKED \notin {ponerREADY, ponerRUNNING, ponerBLOCKED, terminar, verNEW, tomarMutex,
                          verREADY, enviar, crearHilo, soltarMutex, mirarRUNNING, recibir, <<>>}
  /\ ponerREADY \notin {ponerRUNNING, ponerBLOCKED, terminar, verNEW, tomarMutex, verREADY,
                        enviar, crearHilo, soltarMutex, mirarRUNNING, recibir, <<>>}
  /\ ponerRUNNING \notin {ponerBLOCKED, terminar, verNEW, tomarMutex, verREADY, enviar, crearHilo,
                          soltarMutex, mirarRUNNING, recibir, <<>>}
  /\ ponerBLOCKED \notin {terminar, verNEW, tomarMutex, verREADY, enviar, crearHilo, soltarMutex,
                          mirarRUNNING, recibir, <<>>}
  /\ terminar \notin {verNEW, tomarMutex, verREADY, enviar, crearHilo, soltarMutex, mirarRUNNING,
                      recibir, <<>>}
  /\ verNEW \notin {tomarMutex, verREADY, enviar, crearHilo, soltarMutex, mirarRUNNING, recibir,
                    <<>>}
  /\ tomarMutex \notin {verREADY, enviar, crearHilo, soltarMutex, mirarRUNNING, recibir, <<>>}
  /\ verREADY \notin {enviar, crearHilo, soltarMutex, mirarRUNNING, recibir, <<>>}
  /\ enviar \notin {crearHilo, soltarMutex, mirarRUNNING, recibir, <<>>}
  /\ crearHilo \notin {soltarMutex, mirarRUNNING, recibir, <<>>}
  /\ soltarMutex \notin {mirarRUNNING, recibir, <<>>}
  /\ mirarRUNNING \notin {recibir, <<>>}
  /\ recibir \notin {<<>>}
  BY ClasesDistintas DEF sacarNEW, sacarREADY, sacarRUNNING, sacarBLOCKED, ponerREADY,
         ponerRUNNING, ponerBLOCKED, terminar, verNEW, tomarMutex, verREADY, enviar, crearHilo,
         soltarMutex, mirarRUNNING, recibir

(* What is left of a well formed stack is well formed.                     *)
LEMMA RestoEncadenado ==
  ASSUME NEW s \in Seq(Pasos), s # <<>>, Encadenada(s)
  PROVE  /\ Tail(s) \in Seq(Pasos) /\ Encadenada(Tail(s))
         /\ Len(s) \in Nat \ {0} /\ Len(Tail(s)) = Len(s) - 1
         /\ \A i \in 1 .. Len(s) - 1 : Tail(s)[i] = s[i + 1]
  <1>1. /\ Tail(s) \in Seq(Pasos) /\ Len(s) \in Nat \ {0} /\ Len(Tail(s)) = Len(s) - 1
        /\ \A i \in 1 .. Len(s) - 1 : Tail(s)[i] = s[i + 1]
      BY HeadTailProperties, LenProperties, EmptySeq
  <1>2. \A i \in 1 .. Len(Tail(s)) - 1 : Encadenados(Tail(s)[i], Tail(s)[i + 1])
    <2> SUFFICES ASSUME NEW i \in 1 .. Len(Tail(s)) - 1
                 PROVE  Encadenados(Tail(s)[i], Tail(s)[i + 1])
        OBVIOUS
    <2>1. i + 1 \in 1 .. Len(s) - 1 /\ Tail(s)[i] = s[i + 1] /\ Tail(s)[i + 1] = s[(i + 1) + 1]
        BY <1>1
    <2> QED BY <2>1 DEF Encadenada
  <1>3. Len(Tail(s)) > 0 => Ultimo(Tail(s)[Len(Tail(s))])
      BY <1>1 DEF Encadenada
  <1>4. Terceros(Tail(s))
    <2> SUFFICES ASSUME NEW i \in 1 .. Len(Tail(s))
                 PROVE  /\ Tail(s)[i] = sacarNEW => i + 2 <= Len(Tail(s)) /\ Tail(s)[i + 2] = verNEW
                        /\ Tail(s)[i] = sacarRUNNING => i + 2 <= Len(Tail(s)) /\ Tail(s)[i + 2] = tomarMutex
                        /\ Tail(s)[i] = sacarBLOCKED /\ i + 2 <= Len(Tail(s)) => Tail(s)[i + 2] = tomarMutex
        BY DEF Terceros
    <2>1. i + 1 \in 1 .. Len(s) /\ Tail(s)[i] = s[i + 1]
        BY <1>1
    <2>2. i + 2 <= Len(Tail(s)) <=> (i + 1) + 2 <= Len(s)
        BY <1>1
    <2>3. i + 2 <= Len(Tail(s)) => Tail(s)[i + 2] = s[(i + 1) + 2]
        BY <1>1
    <2> QED BY <2>1, <2>2, <2>3 DEF Encadenada, Terceros
  <1> QED BY <1>1, <1>2, <1>3, <1>4 DEF Encadenada

(* Steps that may be put before b.                                         *)
Precede(a, b) ==
  /\ Len(a) > 0
  /\ \A i \in 1 .. Len(a) - 1 : Encadenados(a[i], a[i + 1])
  /\ \A i \in 1 .. Len(a) :
       /\ a[i] = sacarNEW => i + 2 <= Len(a) /\ a[i + 2] = verNEW
       /\ a[i] = sacarRUNNING => i + 2 <= Len(a) /\ a[i + 2] = tomarMutex
       /\ a[i] = sacarBLOCKED => i + 2 <= Len(a) /\ a[i + 2] = tomarMutex
  /\ Len(b) > 0 => Encadenados(a[Len(a)], b[1])
  /\ Len(b) = 0 => Ultimo(a[Len(a)])

LEMMA Concatenar ==
  ASSUME NEW a \in Seq(Pasos), NEW b \in Seq(Pasos), Encadenada(b), Precede(a, b)
  PROVE  /\ a \o b \in Seq(Pasos) /\ Encadenada(a \o b)
         /\ Len(a \o b) = Len(a) + Len(b)
         /\ \A i \in 1 .. Len(a) : (a \o b)[i] = a[i]
         /\ \A i \in 1 .. Len(b) : (a \o b)[Len(a) + i] = b[i]
  <1> DEFINE c == a \o b
  <1>1. /\ c \in Seq(Pasos) /\ Len(c) = Len(a) + Len(b)
        /\ Len(a) \in Nat /\ Len(b) \in Nat
      BY ConcatProperties, LenProperties
  <1>2. \A i \in 1 .. Len(a) : c[i] = a[i]
      BY ConcatProperties, LenProperties
  <1>3. \A i \in 1 .. Len(b) : c[Len(a) + i] = b[i]
    <2> SUFFICES ASSUME NEW i \in 1 .. Len(b) PROVE c[Len(a) + i] = b[i]
        OBVIOUS
    <2>1. Len(a) + i \in 1 .. Len(a) + Len(b) /\ ~(Len(a) + i <= Len(a)) /\ (Len(a) + i) - Len(a) = i
        BY <1>1
    <2> QED BY <2>1, ConcatProperties
  <1> HIDE DEF c
  <1>4. \A i \in 1 .. Len(c) - 1 : Encadenados(c[i], c[i + 1])
    <2> SUFFICES ASSUME NEW i \in 1 .. Len(c) - 1 PROVE Encadenados(c[i], c[i + 1])
        OBVIOUS
    <2>1. CASE i < Len(a)
      <3>1. i \in 1 .. Len(a) - 1 /\ i + 1 \in 1 .. Len(a) /\ i \in 1 .. Len(a)
          BY <1>1, <2>1
      <3> QED BY <1>2, <3>1 DEF Precede
    <2>2. CASE i = Len(a)
      <3>1. Len(b) > 0 /\ 1 \in 1 .. Len(b) /\ i \in 1 .. Len(a)
          BY <1>1, <2>2
      <3> QED BY <1>2, <1>3, <2>2, <3>1 DEF Precede
    <2>3. CASE i > Len(a)
      <3>1. PICK j \in 1 .. Len(b) - 1 : i = Len(a) + j
          BY <1>1, <2>3
      <3>2. c[i] = b[j] /\ c[i + 1] = b[j + 1]
        <4>1. j \in 1 .. Len(b) /\ j + 1 \in 1 .. Len(b) /\ i + 1 = Len(a) + (j + 1)
            BY <1>1, <3>1
        <4> QED BY <1>3, <3>1, <4>1
      <3> QED BY <3>1, <3>2 DEF Encadenada
    <2> QED BY <1>1, <2>1, <2>2, <2>3
  <1>5. Ultimo(c[Len(c)])
    <2>1. CASE Len(b) = 0
      <3>1. Len(a) > 0 /\ Ultimo(a[Len(a)])
          BY <2>1 DEF Precede
      <3>2. Len(c) = Len(a) /\ Len(a) \in 1 .. Len(a)
          BY <1>1, <2>1, <3>1
      <3> QED BY <1>2, <3>1, <3>2
    <2>2. CASE Len(b) # 0
      <3>1. c[Len(c)] = b[Len(b)] /\ Len(b) > 0
          BY <1>1, <1>3, <2>2
      <3> QED BY <3>1 DEF Encadenada
    <2> QED BY <2>1, <2>2
  <1>6. Terceros(c)
    <2> SUFFICES ASSUME NEW i \in 1 .. Len(c)
                 PROVE  /\ c[i] = sacarNEW => i + 2 <= Len(c) /\ c[i + 2] = verNEW
                        /\ c[i] = sacarRUNNING => i + 2 <= Len(c) /\ c[i + 2] = tomarMutex
                        /\ c[i] = sacarBLOCKED /\ i + 2 <= Len(c) => c[i + 2] = tomarMutex
        BY DEF Terceros
    <2>1. CASE i <= Len(a)
      <3>1. i \in 1 .. Len(a) /\ c[i] = a[i]
          BY <1>1, <1>2, <2>1
      <3>2. i + 2 <= Len(a) => i + 2 <= Len(c) /\ c[i + 2] = a[i + 2]
          BY <1>1, <1>2
      <3> QED BY <3>1, <3>2 DEF Precede
    <2>2. CASE ~(i <= Len(a))
      <3>0. i - Len(a) \in 1 .. Len(b) /\ i = Len(a) + (i - Len(a))
          BY <1>1, <2>2
      <3>1. PICK j \in 1 .. Len(b) : i = Len(a) + j
          BY <3>0
      <3>2. c[i] = b[j] /\ (i + 2 <= Len(c) <=> j + 2 <= Len(b))
          BY <1>1, <1>3, <3>1
      <3>3. j + 2 <= Len(b) => c[i + 2] = b[j + 2]
        <4>1. j + 2 <= Len(b) => j + 2 \in 1 .. Len(b) /\ i + 2 = Len(a) + (j + 2)
            BY <1>1, <3>1
        <4> QED BY <1>3, <4>1
      <3> QED BY <3>2, <3>3 DEF Encadenada, Terceros
    <2> QED BY <2>1, <2>2
  <1> QED BY <1>1, <1>2, <1>3, <1>4, <1>5, <1>6 DEF Encadenada, c

-----------------------------------------------------------------------------
(* Short sequences, written out.                                           *)
LEMMA Tupla1 ==
  ASSUME NEW S, NEW a \in S
  PROVE  <<a>> \in Seq(S) /\ Len(<<a>>) = 1 /\ <<a>>[1] = a /\ <<a>> # <<>>
  OBVIOUS

LEMMA Tupla2 ==
  ASSUME NEW S, NEW a \in S, NEW b \in S
  PROVE  /\ <<a, b>> \in Seq(S) /\ Len(<<a, b>>) = 2 /\ <<a, b>> # <<>>
         /\ <<a, b>>[1] = a /\ <<a, b>>[2] = b
         /\ <<a>> \o <<b>> = <<a, b>>
  <1>1. /\ <<a, b>> \in Seq(S) /\ Len(<<a, b>>) = 2 /\ <<a, b>> # <<>>
        /\ <<a, b>>[1] = a /\ <<a, b>>[2] = b
      OBVIOUS
  <1>2. \A i \in 1 .. 2 : (<<a>> \o <<b>>)[i] = <<a, b>>[i]
      BY <1>1, Tupla1, ConcatProperties
  <1>3. <<a>> \o <<b>> \in Seq(S) /\ Len(<<a>> \o <<b>>) = 2
      BY Tupla1, ConcatProperties
  <1> QED BY <1>1, <1>2, <1>3, SeqEqual

LEMMA Tupla3 ==
  ASSUME NEW S, NEW a \in S, NEW b \in S, NEW c \in S
  PROVE  /\ <<a, b, c>> \in Seq(S) /\ Len(<<a, b, c>>) = 3 /\ <<a, b, c>> # <<>>
         /\ <<a, b, c>>[1] = a /\ <<a, b, c>>[2] = b /\ <<a, b, c>>[3] = c
         /\ <<a, b>> \o <<c>> = <<a, b, c>>
  <1>1. /\ <<a, b, c>> \in Seq(S) /\ Len(<<a, b, c>>) = 3 /\ <<a, b, c>> # <<>>
        /\ <<a, b, c>>[1] = a /\ <<a, b, c>>[2] = b /\ <<a, b, c>>[3] = c
      OBVIOUS
  <1>2. \A i \in 1 .. 3 : (<<a, b>> \o <<c>>)[i] = <<a, b, c>>[i]
      BY <1>1, Tupla1, Tupla2, ConcatProperties
  <1>3. <<a, b>> \o <<c>> \in Seq(S) /\ Len(<<a, b>> \o <<c>>) = 3
      BY Tupla1, Tupla2, ConcatProperties
  <1> QED BY <1>1, <1>2, <1>3, SeqEqual

LEMMA Tupla4 ==
  ASSUME NEW S, NEW a \in S, NEW b \in S, NEW c \in S, NEW d \in S
  PROVE  /\ <<a, b, c, d>> \in Seq(S) /\ Len(<<a, b, c, d>>) = 4 /\ <<a, b, c, d>> # <<>>
         /\ <<a, b, c, d>>[1] = a /\ <<a, b, c, d>>[2] = b
         /\ <<a, b, c, d>>[3] = c /\ <<a, b, c, d>>[4] = d
         /\ <<a, b, c>> \o <<d>> = <<a, b, c, d>>
  <1>1. /\ <<a, b, c, d>> \in Seq(S) /\ Len(<<a, b, c, d>>) = 4 /\ <<a, b, c, d>> # <<>>
        /\ <<a, b, c, d>>[1] = a /\ <<a, b, c, d>>[2] = b
        /\ <<a, b, c, d>>[3] = c /\ <<a, b, c, d>>[4] = d
      OBVIOUS
  <1>2. \A i \in 1 .. 4 : (<<a, b, c>> \o <<d>>)[i] = <<a, b, c, d>>[i]
      BY <1>1, Tupla1, Tupla3, ConcatProperties
  <1>3. <<a, b, c>> \o <<d>> \in Seq(S) /\ Len(<<a, b, c>> \o <<d>>) = 4
      BY Tupla1, Tupla3, ConcatProperties
  <1> QED BY <1>1, <1>2, <1>3, SeqEqual

LEMMA SonPasos ==
  /\ \A a \in Pasos : a # <<>>
  /\ \A a \in {sacarNEW, sacarREADY, sacarRUNNING, sacarBLOCKED, ponerREADY, ponerRUNNING, ponerBLOCKED, terminar, verNEW, tomarMutex, verREADY, enviar, crearHilo, soltarMutex, mirarRUNNING, recibir} : a \in Pasos
  BY PasosDistintos DEF Pasos

(* The functions, step by step.                                            *)
LEMMA Cuerpos ==
  /\ evaluar_NEW_a_READY = <<verNEW>>
  /\ evaluar_READY_a_EXEC = <<tomarMutex>>
  /\ evaluar_BLOCKED_a_EXIT = <<sacarBLOCKED, terminar>>
  /\ atender_respuesta_proceso = <<mirarRUNNING, recibir>>
  /\ Despachar = <<sacarREADY, ponerRUNNING, enviar, crearHilo>>
  /\ Admitir = <<sacarNEW, ponerREADY, verNEW>>
  /\ evaluar_NEW_a_READY \o evaluar_READY_a_EXEC = <<verNEW, tomarMutex>>
  /\ evaluar_EXEC_a_READY = <<sacarRUNNING, ponerREADY, tomarMutex>>
  /\ evaluar_EXEC_a_BLOCKED = <<sacarRUNNING, ponerBLOCKED, tomarMutex>>
  /\ evaluar_EXEC_a_EXIT = <<sacarRUNNING, terminar, tomarMutex, verNEW>>
  /\ evaluar_BLOCKED_a_READY \o evaluar_READY_a_EXEC = <<sacarBLOCKED, ponerREADY, tomarMutex>>
  <1>1. /\ evaluar_NEW_a_READY = <<verNEW>> /\ evaluar_READY_a_EXEC = <<tomarMutex>>
        /\ evaluar_BLOCKED_a_EXIT = <<sacarBLOCKED, terminar>>
        /\ evaluar_BLOCKED_a_READY = <<sacarBLOCKED, ponerREADY>>
        /\ atender_respuesta_proceso = <<mirarRUNNING, recibir>>
        /\ Despachar = <<sacarREADY, ponerRUNNING, enviar, crearHilo>>
      BY DEF evaluar_NEW_a_READY, evaluar_READY_a_EXEC, evaluar_BLOCKED_a_EXIT, Despachar,
             evaluar_BLOCKED_a_READY, atender_respuesta_proceso, verNEW, tomarMutex, sacarBLOCKED,
             terminar, mirarRUNNING, recibir, sacarREADY, ponerRUNNING, ponerREADY, enviar, crearHilo
  <1>2. Admitir = <<sacarNEW, ponerREADY>> \o evaluar_NEW_a_READY
      BY DEF Admitir, sacarNEW, ponerREADY
  <1>3. evaluar_EXEC_a_READY = <<sacarRUNNING, ponerREADY>> \o evaluar_READY_a_EXEC
      BY DEF evaluar_EXEC_a_READY, sacarRUNNING, ponerREADY
  <1>4. evaluar_EXEC_a_BLOCKED = <<sacarRUNNING, ponerBLOCKED>> \o evaluar_READY_a_EXEC
      BY DEF evaluar_EXEC_a_BLOCKED, sacarRUNNING, ponerBLOCKED
  <1>5. evaluar_EXEC_a_EXIT
          = (<<sacarRUNNING, terminar>> \o evaluar_READY_a_EXEC) \o evaluar_NEW_a_READY
      BY DEF evaluar_EXEC_a_EXIT, sacarRUNNING, terminar
  <1>6. ASSUME NEW a \in Pasos, NEW b \in Pasos PROVE <<a>> \o <<b>> = <<a, b>>
      BY Tupla2
  <1>7. ASSUME NEW a \in Pasos, NEW b \in Pasos, NEW c \in Pasos
        PROVE  <<a, b>> \o <<c>> = <<a, b, c>>
      BY Tupla3
  <1>8. ASSUME NEW a \in Pasos, NEW b \in Pasos, NEW c \in Pasos, NEW d \in Pasos
        PROVE  <<a, b, c>> \o <<d>> = <<a, b, c, d>>
      BY Tupla4
  <1>9. Admitir = <<sacarNEW, ponerREADY, verNEW>>
      BY <1>1, <1>2, <1>7, SonPasos
  <1>10. /\ evaluar_EXEC_a_READY = <<sacarRUNNING, ponerREADY, tomarMutex>>
         /\ evaluar_EXEC_a_BLOCKED = <<sacarRUNNING, ponerBLOCKED, tomarMutex>>
      BY <1>1, <1>3, <1>4, <1>7, SonPasos
  <1>11. evaluar_EXEC_a_EXIT = <<sacarRUNNING, terminar, tomarMutex, verNEW>>
    <2>1. /\ sacarRUNNING \in Pasos /\ terminar \in Pasos /\ tomarMutex \in Pasos /\ verNEW \in Pasos
        BY SonPasos
    <2>2. <<sacarRUNNING, terminar>> \o <<tomarMutex>> = <<sacarRUNNING, terminar, tomarMutex>>
        BY <1>7, <2>1
    <2>3. <<sacarRUNNING, terminar, tomarMutex>> \o <<verNEW>>
            = <<sacarRUNNING, terminar, tomarMutex, verNEW>>
        BY <1>8, <2>1
    <2> QED BY <1>1, <1>5, <2>2, <2>3
  <1>12. /\ evaluar_NEW_a_READY \o evaluar_READY_a_EXEC = <<verNEW, tomarMutex>>
         /\ evaluar_BLOCKED_a_READY \o evaluar_READY_a_EXEC = <<sacarBLOCKED, ponerREADY, tomarMutex>>
      BY <1>1, <1>6, <1>7, SonPasos
  <1> QED BY <1>1, <1>9, <1>10, <1>11, <1>12

(* A stack that a thread starts with.                                      *)
Inicial(s) == s \in Seq(Pasos) /\ s # <<>> /\ Encadenada(s)

LEMMA Vacia == <<>> \in Seq(Pasos) /\ Encadenada(<<>>)
  <1>1. <<>> \in Seq(Pasos) /\ Len(<<>>) = 0
      OBVIOUS
  <1> QED BY <1>1 DEF Encadenada, Terceros

LEMMA Inicial1 ==
  ASSUME NEW a \in Pasos, Ultimo(a)
  PROVE  Inicial(<<a>>)
  <1> DEFINE s == <<a>>
  <1>1. s \in Seq(Pasos) /\ s # <<>> /\ Len(s) = 1 /\ s[1] = a
      BY Tupla1
  <1> HIDE DEF s
  <1>2. Terceros(s)
      BY <1>1, PasosDistintos DEF Terceros, Ultimo
  <1>3. \A i \in 1 .. Len(s) - 1 : Encadenados(s[i], s[i + 1])
      BY <1>1
  <1> QED BY <1>1, <1>2, <1>3 DEF Encadenada, Inicial, s

LEMMA Inicial2 ==
  ASSUME NEW a \in Pasos, NEW b \in Pasos, Encadenados(a, b), Ultimo(b),
         a \notin {sacarNEW, sacarRUNNING}
  PROVE  Inicial(<<a, b>>)
  <1> DEFINE s == <<a, b>>
  <1>1. s \in Seq(Pasos) /\ s # <<>> /\ Len(s) = 2 /\ s[1] = a /\ s[2] = b
      BY Tupla2
  <1> HIDE DEF s
  <1>2. \A i \in 1 .. 2 : i = 1 \/ i = 2
      OBVIOUS
  <1>3. Terceros(s)
      BY <1>1, <1>2, PasosDistintos DEF Terceros, Ultimo
  <1>4. \A i \in 1 .. Len(s) - 1 : Encadenados(s[i], s[i + 1])
      BY <1>1
  <1> QED BY <1>1, <1>3, <1>4 DEF Encadenada, Inicial, s

LEMMA Inicial3 ==
  ASSUME NEW a \in Pasos, NEW b \in Pasos, NEW c \in Pasos, Encadenados(a, b), Encadenados(b, c),
         a \in {sacarRUNNING, sacarBLOCKED}, c = tomarMutex,
         b \in {ponerREADY, ponerBLOCKED}
  PROVE  Inicial(<<a, b, c>>)
  <1> DEFINE s == <<a, b, c>>
  <1>1. s \in Seq(Pasos) /\ s # <<>> /\ Len(s) = 3 /\ s[1] = a /\ s[2] = b /\ s[3] = c
      BY Tupla3
  <1> HIDE DEF s
  <1>2. \A i \in 1 .. 3 : i = 1 \/ i = 2 \/ i = 3
      OBVIOUS
  <1>3. Terceros(s)
      BY <1>1, <1>2, PasosDistintos DEF Terceros
  <1>4. \A i \in 1 .. Len(s) - 1 : Encadenados(s[i], s[i + 1])
      BY <1>1, <1>2
  <1>5. Ultimo(c)
      BY DEF Ultimo
  <1> QED BY <1>1, <1>3, <1>4, <1>5 DEF Encadenada, Inicial, s

LEMMA InicialEXIT == Inicial(evaluar_EXEC_a_EXIT)
  <1> DEFINE s == evaluar_EXEC_a_EXIT
  <1>1. /\ s \in Seq(Pasos) /\ s # <<>> /\ Len(s) = 4
        /\ s[1] = sacarRUNNING /\ s[2] = terminar
        /\ s[3] = tomarMutex /\ s[4] = verNEW
    <2>1. /\ sacarRUNNING \in Pasos /\ terminar \in Pasos
          /\ tomarMutex \in Pasos /\ verNEW \in Pasos
        BY SonPasos
    <2> QED BY <2>1, Cuerpos, Tupla4
  <1> HIDE DEF s
  <1>2. \A i \in 1 .. 4 : i = 1 \/ i = 2 \/ i = 3 \/ i = 4
      OBVIOUS
  <1>3. Terceros(s)
      BY <1>1, <1>2, PasosDistintos DEF Terceros
  <1>4. \A i \in 1 .. Len(s) - 1 : Encadenados(s[i], s[i + 1])
    <2>1. \A i \in 1 .. 3 : i = 1 \/ i = 2 \/ i = 3
        OBVIOUS
    <2>2. Encadenados(s[1], s[1 + 1]) /\ Encadenados(s[2], s[2 + 1]) /\ Encadenados(s[3], s[3 + 1])
        BY <1>1, PasosDistintos DEF Encadenados
    <2> QED BY <1>1, <2>1, <2>2
  <1>5. Ultimo(s[4])
      BY <1>1 DEF Ultimo
  <1> QED BY <1>1, <1>3, <1>4, <1>5 DEF Encadenada, Inicial, s

(* The stacks that the code starts threads with.                           *)
LEMMA Iniciales ==
  /\ Inicial(evaluar_NEW_a_READY)
  /\ Inicial(evaluar_NEW_a_READY \o evaluar_READY_a_EXEC)
  /\ Inicial(evaluar_EXEC_a_READY) /\ Inicial(evaluar_EXEC_a_BLOCKED) /\ Inicial(evaluar_EXEC_a_EXIT)
  /\ Inicial(evaluar_BLOCKED_a_READY \o evaluar_READY_a_EXEC) /\ Inicial(evaluar_BLOCKED_a_EXIT)
  /\ Inicial(atender_respuesta_proceso)
  <1>1. /\ sacarRUNNING \in Pasos /\ sacarBLOCKED \in Pasos
        /\ ponerREADY \in Pasos /\ ponerBLOCKED \in Pasos
        /\ terminar \in Pasos /\ verNEW \in Pasos /\ tomarMutex \in Pasos
        /\ mirarRUNNING \in Pasos /\ recibir \in Pasos
      BY SonPasos
  <1>2. /\ Ultimo(terminar) /\ Ultimo(verNEW) /\ Ultimo(tomarMutex)
        /\ Ultimo(recibir)
      BY DEF Ultimo
  <1>3. /\ Encadenados(verNEW, tomarMutex)
        /\ Encadenados(mirarRUNNING, recibir)
        /\ Encadenados(sacarRUNNING, ponerREADY) /\ Encadenados(sacarRUNNING, ponerBLOCKED)
        /\ Encadenados(sacarBLOCKED, ponerREADY) /\ Encadenados(sacarBLOCKED, terminar)
        /\ Encadenados(ponerREADY, tomarMutex)
        /\ Encadenados(ponerBLOCKED, tomarMutex)
      BY PasosDistintos DEF Encadenados
  <1>4. Inicial(evaluar_NEW_a_READY)
      BY <1>1, <1>2, Inicial1, Cuerpos
  <1>5. Inicial(evaluar_NEW_a_READY \o evaluar_READY_a_EXEC) /\ Inicial(atender_respuesta_proceso)
      BY <1>1, <1>2, <1>3, Inicial2, Cuerpos, PasosDistintos
  <1>6. Inicial(evaluar_BLOCKED_a_EXIT)
      BY <1>1, <1>2, <1>3, Inicial2, Cuerpos, PasosDistintos
  <1>7. /\ Inicial(evaluar_EXEC_a_READY) /\ Inicial(evaluar_EXEC_a_BLOCKED)
        /\ Inicial(evaluar_BLOCKED_a_READY \o evaluar_READY_a_EXEC)
      BY <1>1, <1>3, Inicial3, Cuerpos
  <1> QED BY <1>4, <1>5, <1>6, <1>7, InicialEXIT

-----------------------------------------------------------------------------
(* What a step does to the threads.                                        *)
Otros(t) == \A u \in Hilo : u # t => hilo'[u] = hilo[u]

LEMMA PrimerPaso ==
  ASSUME HilosOK, NEW t \in Hilo, NEW s, Paso(t, s)
  PROVE  /\ hilo[t] \in [pila: Seq(Pasos), p: Pid, id: Pid] /\ Encadenada(hilo[t].pila)
         /\ hilo[t].pila # <<>> /\ hilo[t].pila[1] = s /\ Ahora(t) = s /\ s \in Pasos
         /\ Len(hilo[t].pila) \in Nat \ {0}
  <1>1. hilo[t] \in [pila: Seq(Pasos), p: Pid, id: Pid] /\ Encadenada(hilo[t].pila)
      BY DEF HilosOK
  <1>2. hilo[t].pila \in Seq(Pasos) /\ hilo[t].pila # <<>> /\ Head(hilo[t].pila) = s
      BY <1>1 DEF Paso
  <1>3. hilo[t].pila[1] = s /\ s \in Pasos /\ Len(hilo[t].pila) \in Nat \ {0}
      BY <1>2, HeadTailProperties, LenProperties, EmptySeq
  <1> QED BY <1>1, <1>2, <1>3 DEF Ahora

(* The step is done: the next one of the stack comes.                      *)
LEMMA Avanza ==
  ASSUME HilosOK, NEW t \in Hilo, NEW s, Paso(t, s), NEW x \in Pid, SigueCon(t, <<>>, x)
  PROVE  /\ HilosOK' /\ Otros(t)
         /\ Ahora(t)' = <<>> => Ultimo(s)
         /\ Ahora(t)' # <<>> => /\ Ahora(t)' \in Pasos /\ Encadenados(s, Ahora(t)')
                                /\ hilo'[t].p = x
         /\ s = sacarNEW => Admite(t)'
         /\ s \in {sacarRUNNING, sacarBLOCKED} => ~Admite(t)'
         /\ s = sacarRUNNING => Toma(t)'
         /\ s = ponerREADY /\ ~Admite(t) => Toma(t)'
         /\ Toma(t) /\ s # tomarMutex => Toma(t)'
  <1> DEFINE a == hilo[t].pila
             b == Tail(a)
  <1>1. /\ a \in Seq(Pasos) /\ Encadenada(a) /\ a # <<>> /\ a[1] = s /\ s \in Pasos /\ Ahora(t) = s
        /\ hilo[t] \in [pila: Seq(Pasos), p: Pid, id: Pid]
      BY PrimerPaso
  <1>2. /\ b \in Seq(Pasos) /\ Encadenada(b)
        /\ Len(a) \in Nat \ {0} /\ Len(b) = Len(a) - 1
        /\ \A i \in 1 .. Len(a) - 1 : b[i] = a[i + 1]
      BY <1>1, RestoEncadenado
  <1>3. <<>> \o Tail(hilo[t].pila) = b
      BY <1>2, ConcatEmptySeq
  <1>4. hilo' = [hilo EXCEPT ![t] = IF b = <<>> THEN Ociosa ELSE [@ EXCEPT !.pila = b, !.p = x]]
      BY <1>3 DEF SigueCon
  <1> HIDE DEF b
  <1>5. hilo'[t].pila = b /\ (b # <<>> => hilo'[t].p = x) /\ Otros(t)
      BY <1>1, <1>4 DEF HilosOK, Ociosa, Otros
  <1>6. HilosOK'
    <2>1. 0 \in Pid
        BY ConstantesOK DEF Pid
    <2>2. Ociosa \in [pila: Seq(Pasos), p: Pid, id: Pid] /\ Encadenada(Ociosa.pila)
        BY <2>1, Vacia DEF Ociosa
    <2>3. b # <<>> => [hilo[t] EXCEPT !.pila = b, !.p = x] \in [pila: Seq(Pasos), p: Pid, id: Pid]
        BY <1>1, <1>2
    <2>4. hilo'[t] \in [pila: Seq(Pasos), p: Pid, id: Pid]
        BY <1>4, <2>2, <2>3 DEF HilosOK
    <2>5. hilo' \in [Hilo -> [pila: Seq(Pasos), p: Pid, id: Pid]]
        BY <1>4, <2>4 DEF HilosOK
    <2> QED BY <1>2, <1>5, <2>5 DEF HilosOK, Otros
  <1>7. Len(b) = 0 <=> b = <<>>
      BY <1>2, EmptySeq
  <1>8. Ahora(t)' = IF b = <<>> THEN <<>> ELSE b[1]
      BY <1>5 DEF Ahora
  <1>9. b # <<>> => b[1] = a[2] /\ b[1] \in Pasos /\ Len(a) - 1 \in Nat \ {0}
    <2> SUFFICES ASSUME b # <<>> PROVE b[1] = a[2] /\ b[1] \in Pasos /\ Len(a) - 1 \in Nat \ {0}
        OBVIOUS
    <2>1. Len(b) # 0 /\ Len(b) \in Nat
        BY <1>7, <1>2, LenProperties
    <2>2. 1 \in 1 .. Len(a) - 1 /\ 1 \in 1 .. Len(b) /\ 1 + 1 = 2 /\ Len(a) - 1 \in Nat \ {0}
        BY <1>2, <2>1
    <2> QED BY <1>2, <2>2, ElementOfSeq
  <1>20. b # <<>> /\ Len(b) # 1 => 1 + 2 <= Len(a)
    <2>1. \A n \in Nat : n >= 2 /\ n - 1 # 1 => 1 + 2 <= n
        OBVIOUS
    <2>2. b # <<>> => Len(a) \in Nat /\ Len(a) >= 2
        BY <1>2, <1>9
    <2> QED BY <1>2, <2>1, <2>2
  <1>10. Ahora(t)' = <<>> => Ultimo(s)
    <2> SUFFICES ASSUME b = <<>> PROVE Ultimo(s)
        BY <1>8, <1>9, SonPasos
    <2>1. Len(a) = 1
        BY <1>2, <1>7
    <2> QED BY <1>1, <2>1 DEF Encadenada
  <1>11. Ahora(t)' # <<>> => Ahora(t)' \in Pasos /\ Encadenados(s, Ahora(t)') /\ hilo'[t].p = x
    <2> SUFFICES ASSUME b # <<>> PROVE b[1] \in Pasos /\ Encadenados(s, b[1]) /\ hilo'[t].p = x
        BY <1>8
    <2>0. Len(a) \in Nat /\ Len(a) >= 2
        BY <1>2, <1>9
    <2>1. 1 \in 1 .. Len(a) - 1 /\ 1 + 1 = 2
        BY <2>0
    <2>2. Encadenados(a[1], a[2])
        BY <1>1, <2>1 DEF Encadenada
    <2> QED BY <1>1, <1>5, <1>9, <2>2
  <1>12. Ultimo(s) => s \notin {sacarNEW, sacarRUNNING, sacarBLOCKED, ponerREADY}
      BY PasosDistintos DEF Ultimo
  <1>13. 1 \in 1 .. Len(a) /\ (1 + 2 <= Len(a) => b[2] = a[3])
    <2>1. 1 + 2 <= Len(a) => 2 \in 1 .. Len(a) - 1 /\ 2 + 1 = 3
        BY <1>2
    <2>2. 1 \in 1 .. Len(a)
        BY <1>2
    <2> QED BY <1>2, <2>1, <2>2
  <1>14. /\ s = sacarNEW => 1 + 2 <= Len(a) /\ a[3] = verNEW
         /\ s = sacarRUNNING => 1 + 2 <= Len(a) /\ a[3] = tomarMutex
         /\ s = sacarBLOCKED /\ 1 + 2 <= Len(a) => a[3] = tomarMutex
    <2>1. 1 + 2 = 3
        OBVIOUS
    <2> QED BY <1>1, <1>13, <2>1 DEF Encadenada, Terceros
  <1>15. s = sacarNEW => Admite(t)'
    <2> SUFFICES ASSUME s = sacarNEW PROVE Admite(t)'
        OBVIOUS
    <2>1. Ahora(t)' = ponerREADY
        BY <1>10, <1>11, <1>12 DEF Encadenados
    <2>2. b[2] = verNEW
        BY <1>13, <1>14
    <2> QED BY <1>5, <2>1, <2>2 DEF Admite
  <1>16. s \in {sacarRUNNING, sacarBLOCKED} => ~Admite(t)'
    <2> SUFFICES ASSUME s \in {sacarRUNNING, sacarBLOCKED}, Ahora(t)' = ponerREADY, b[2] = verNEW PROVE FALSE
        BY <1>5 DEF Admite
    <2>1. b # <<>> /\ b[1] = ponerREADY
        BY <1>8, SonPasos
    <2>2. Len(b) # 1
        BY <1>2, <2>1, PasosDistintos DEF Encadenada, Ultimo
    <2>3. 1 + 2 <= Len(a)
        BY <1>20, <2>1, <2>2
    <2> QED BY <1>13, <1>14, <2>3, PasosDistintos
  <1>17. s = sacarRUNNING => Toma(t)'
    <2> SUFFICES ASSUME s = sacarRUNNING PROVE Toma(t)'
        OBVIOUS
    <2>1. 2 \in 1 .. Len(b) /\ b[2] = tomarMutex
        BY <1>2, <1>13, <1>14
    <2> QED BY <1>5, <2>1 DEF Toma
  <1>18. s = ponerREADY /\ ~Admite(t) => Toma(t)'
    <2> SUFFICES ASSUME s = ponerREADY, ~Admite(t) PROVE Toma(t)'
        OBVIOUS
    <2>1. Ahora(t)' \in {verNEW, tomarMutex} /\ b # <<>>
        BY <1>8, <1>10, <1>11, <1>12 DEF Encadenados
    <2>2. b[1] = tomarMutex
        BY <1>1, <1>8, <1>9, <2>1 DEF Admite
    <2>3. 1 \in 1 .. Len(b)
        BY <1>2, <1>9, <2>1
    <2> QED BY <1>5, <2>2, <2>3 DEF Toma
  <1>19. Toma(t) /\ s # tomarMutex => Toma(t)'
    <2> SUFFICES ASSUME s # tomarMutex, NEW i \in 1 .. Len(a), a[i] = tomarMutex PROVE Toma(t)'
        BY DEF Toma
    <2>1. i # 1
        BY <1>1
    <2>2. i - 1 \in 1 .. Len(a) - 1 /\ (i - 1) + 1 = i
        BY <1>2, <2>1
    <2>3. i - 1 \in 1 .. Len(b) /\ b[i - 1] = tomarMutex
        BY <1>2, <2>2
    <2> QED BY <1>5, <2>3 DEF Toma
  <1> QED BY <1>5, <1>6, <1>10, <1>11, <1>15, <1>16, <1>17, <1>18, <1>19

(* The step gives way to others, and the rest of the stack comes later.    *)
LEMMA Expande ==
  ASSUME HilosOK, NEW t \in Hilo, NEW s, Paso(t, s), NEW pasos \in Seq(Pasos),
         Precede(pasos, Tail(hilo[t].pila)), Sigue(t, pasos)
  PROVE  /\ HilosOK' /\ Otros(t)
         /\ Ahora(t)' = pasos[1] /\ hilo'[t].p = hilo[t].p
         /\ Toma(t) /\ s # tomarMutex => Toma(t)'
  <1> DEFINE a == hilo[t].pila
             b == Tail(a)
             c == pasos \o b
  <1>1. /\ a \in Seq(Pasos) /\ Encadenada(a) /\ a # <<>> /\ a[1] = s /\ s \in Pasos
        /\ hilo[t] \in [pila: Seq(Pasos), p: Pid, id: Pid]
      BY PrimerPaso
  <1>2. /\ b \in Seq(Pasos) /\ Encadenada(b)
        /\ Len(a) \in Nat \ {0} /\ Len(b) = Len(a) - 1
        /\ \A i \in 1 .. Len(a) - 1 : b[i] = a[i + 1]
      BY <1>1, RestoEncadenado
  <1>3. /\ c \in Seq(Pasos) /\ Encadenada(c)
        /\ Len(c) = Len(pasos) + Len(b)
        /\ \A i \in 1 .. Len(pasos) : c[i] = pasos[i]
        /\ \A i \in 1 .. Len(b) : c[Len(pasos) + i] = b[i]
      BY <1>2, Concatenar
  <1>4. Len(pasos) \in Nat \ {0} /\ Len(b) \in Nat
      BY <1>2, LenProperties DEF Precede
  <1>5. hilo' = [hilo EXCEPT ![t] = IF c = <<>> THEN Ociosa ELSE [@ EXCEPT !.pila = c, !.p = hilo[t].p]]
      BY DEF Sigue, SigueCon
  <1> HIDE DEF b, c
  <1>6. c # <<>>
    <2>1. Len(c) # 0
        BY <1>3, <1>4
    <2> QED BY <1>3, <2>1, EmptySeq
  <1>7. hilo'[t].pila = c /\ hilo'[t].p = hilo[t].p /\ Otros(t)
      BY <1>1, <1>5, <1>6 DEF HilosOK, Otros
  <1>8. HilosOK'
    <2>1. [hilo[t] EXCEPT !.pila = c, !.p = hilo[t].p] \in [pila: Seq(Pasos), p: Pid, id: Pid]
        BY <1>1, <1>3
    <2>2. hilo' \in [Hilo -> [pila: Seq(Pasos), p: Pid, id: Pid]]
        BY <1>5, <1>6, <2>1 DEF HilosOK
    <2> QED BY <1>3, <1>7, <2>2 DEF HilosOK, Otros
  <1>9. Ahora(t)' = pasos[1]
    <2>1. 1 \in 1 .. Len(pasos)
        BY <1>4
    <2> QED BY <1>3, <1>6, <1>7, <2>1 DEF Ahora
  <1>10. Toma(t) /\ s # tomarMutex => Toma(t)'
    <2> SUFFICES ASSUME s # tomarMutex, NEW i \in 1 .. Len(a), a[i] = tomarMutex PROVE Toma(t)'
        BY DEF Toma
    <2>1. i # 1
        BY <1>1
    <2>2. i - 1 \in 1 .. Len(a) - 1 /\ (i - 1) + 1 = i
        BY <1>2, <2>1
    <2>3. i - 1 \in 1 .. Len(b) /\ b[i - 1] = tomarMutex
        BY <1>2, <2>2
    <2>4. PICK j \in 1 .. Len(b) : b[j] = tomarMutex
        BY <2>3
    <2>5. c[Len(pasos) + j] = tomarMutex
        BY <1>3, <2>4
    <2>6. Len(pasos) + j \in 1 .. Len(c)
        BY <1>3, <1>4
    <2> QED BY <1>7, <2>5, <2>6 DEF Toma
  <1> QED BY <1>7, <1>8, <1>9, <1>10

(* A thread gets something to do.                                          *)
LEMMA Empieza ==
  ASSUME HilosOK, NEW t \in Hilo, NEW pasos, Inicial(pasos), NEW x \in Pid,
         hilo' = [hilo EXCEPT ![t].pila = pasos, ![t].id = x]
  PROVE  /\ HilosOK' /\ Otros(t) /\ hilo'[t].pila = pasos
         /\ Ahora(t)' = pasos[1] /\ hilo'[t].id = x
  <1>1. /\ hilo'[t].pila = pasos /\ hilo'[t].id = x /\ Otros(t)
        /\ hilo' \in [Hilo -> [pila: Seq(Pasos), p: Pid, id: Pid]]
      BY DEF HilosOK, Inicial, Otros
  <1>2. HilosOK'
      BY <1>1 DEF HilosOK, Inicial, Otros
  <1> QED BY <1>1, <1>2 DEF Ahora, Inicial

-----------------------------------------------------------------------------
(* What a step of t that changes the stack of t alone does not change.     *)
OtrosIgual(t) ==
  \A u \in Hilo : u # t => /\ Ahora(u)' = Ahora(u)
                           /\ hilo'[u].p = hilo[u].p /\ hilo'[u].id = hilo[u].id
                           /\ Admite(u)' <=> Admite(u)
                           /\ Toma(u)' <=> Toma(u)

LEMMA OtrosNoCambian ==
  ASSUME NEW t \in Hilo, Otros(t)
  PROVE  OtrosIgual(t)
  BY DEF Otros, OtrosIgual, Ahora, Admite, Toma

LEMMA MismaExclusion ==
  ASSUME Exclusion, NEW t \in Hilo, OtrosIgual(t), UNCHANGED mutex,
         Ahora(t) \in Dentro <=> Ahora(t)' \in Dentro
  PROVE  Exclusion'
  BY DEF Exclusion, OtrosIgual

(* Only who holds the mutex is between looking and dispatching.            *)
LEMMA UnoDentro ==
  ASSUME Exclusion, NEW t \in Hilo, NEW u \in Hilo, Ahora(t) \in Dentro, Ahora(u) \in Dentro
  PROVE  t = u
  BY DEF Exclusion

LEMMA Paradas ==
  /\ \A a \in Llevan : a \notin EnCurso /\ a # <<>> /\ a \notin {verREADY, sacarREADY, sacarBLOCKED}
  /\ \A a \in EnCurso : a \notin {sacarREADY, ponerRUNNING, sacarBLOCKED, verREADY}
  /\ <<>> \notin Dentro /\ <<>> \notin EnCurso /\ <<>> \notin Llevan
  BY PasosDistintos DEF Llevan, EnCurso, Dentro

(* A step of t that neither moves a process nor touches the sockets, and   *)
(* that goes to no step in charge of the CPU.                              *)
LEMMA SinMover ==
  ASSUME Coherente, NEW t \in Hilo, OtrosIgual(t),
         UNCHANGED <<cola, contador, dispatch, a_kernel, corrio, fin>>,
         Ahora(t) \notin Llevan, Ahora(t)' \notin Llevan, Ahora(t)' \notin EnCurso,
         Ahora(t)' = sacarREADY => cola["RUNNING"] = <<>> /\ cola["READY"] # <<>>,
         Ahora(t)' = sacarBLOCKED => t = interfaz /\ cola["BLOCKED"] # <<>>,
         \/ pausada' /\ pausada' \in BOOLEAN
         \/ Mira(t)'
         \/ UNCHANGED pausada /\ (Mira(t) => cola["RUNNING"] # <<>> \/ cola["READY"] = <<>> \/ pausada)
  PROVE  VistoVigente' /\ UnTurno' /\ UnLugar' /\ NuevosSinCorrer' /\ AlguienMira'
  <1>1. VistoVigente'
      BY Paradas DEF Coherente, VistoVigente, OtrosIgual, Llevan
  <1>2. UnTurno'
    <2>1. \A u \in Hilo : Ahora(u)' \in EnCurso => u # t /\ Ahora(u)' = Ahora(u)
                                                   /\ hilo'[u].p = hilo[u].p /\ hilo'[u].id = hilo[u].id
        BY DEF OtrosIgual
    <2>2. enviar \in EnCurso /\ sacarRUNNING \in EnCurso /\ recibir \in EnCurso
        BY DEF EnCurso
    <2> QED BY <2>1, <2>2 DEF Coherente, UnTurno
  <1>3. UnLugar'
    <2>1. \A u \in Hilo : /\ Ahora(u)' \in Llevan <=> Ahora(u) \in Llevan
                          /\ Ahora(u) \in Llevan => hilo'[u].p = hilo[u].p
        BY DEF OtrosIgual
    <2> QED BY <2>1 DEF Coherente, UnLugar, ColasSinRepetir, ManosSinRepetir, ColaOMano, EnColaVivo, EnManoVivo, VivoEsta,
                    Lleva
  <1>4. NuevosSinCorrer'
    <2>1. \A u \in Hilo : Admite(u)' => Admite(u) /\ hilo'[u].p = hilo[u].p
        BY DEF OtrosIgual, Admite, Llevan
    <2> QED BY <2>1 DEF Coherente, NuevosSinCorrer, Esta
  <1>5. AlguienMira'
    <2> SUFFICES ASSUME ~pausada', cola["RUNNING"] = <<>>, NEW p \in corrio, Esta(p, cola["READY"])
                 PROVE  \E u \in Hilo : Mira(u)'
        BY DEF AlguienMira, Esta
    <2>1. cola["READY"] # <<>>
        BY DEF Esta
    <2>2. CASE Mira(t)'
        BY <2>2
    <2>3. CASE UNCHANGED pausada /\ ~Mira(t)
      <3>1. PICK u \in Hilo : Mira(u)
          BY <2>3 DEF Coherente, AlguienMira
      <3>2. Mira(u)'
          BY <2>3, <3>1 DEF Mira, OtrosIgual
      <3> QED BY <3>2
    <2> QED BY <2>1, <2>2, <2>3
  <1> QED BY <1>1, <1>2, <1>3, <1>4, <1>5

(* A process goes from a queue to the hands of a thread.                   *)
LEMMA SacarLugar ==
  ASSUME UnLugar, cola \in [Cola -> Seq(Pid)], NEW t \in Hilo, NEW q \in Cola, OtrosIgual(t),
         cola[q] # <<>>, cola' = [cola EXCEPT ![q] = Tail(@)], UNCHANGED <<contador, fin>>,
         Ahora(t) \notin Llevan, Ahora(t)' \in Llevan, hilo'[t].p = Head(cola[q])
  PROVE  /\ UnLugar'
         /\ \A p : \A r \in Cola : Esta(p, cola'[r]) => Esta(p, cola[r])
         /\ Esta(Head(cola[q]), cola[q])
  <1> DEFINE a == cola[q]
             b == Tail(a)
  <1>0. PICK x : x = Head(a)
      OBVIOUS
  <1>1. /\ a \in Seq(Pid) /\ b \in Seq(Pid) /\ Len(a) \in Nat \ {0} /\ Len(b) = Len(a) - 1
        /\ x = a[1] /\ \A i \in 1 .. Len(b) : b[i] = a[i + 1] /\ i + 1 \in 1 .. Len(a) /\ i + 1 # 1
    <2>1. a \in Seq(Pid) /\ a # <<>>
        OBVIOUS
    <2>2. b \in Seq(Pid) /\ Len(b) = Len(a) - 1 /\ Len(a) \in Nat \ {0} /\ x = a[1]
        BY <1>0, <2>1, HeadTailProperties, LenProperties, EmptySeq
    <2>3. \A i \in 1 .. Len(b) : b[i] = a[i + 1]
        BY <2>1, <2>2, HeadTailProperties
    <2>4. \A i \in 1 .. Len(b) : i + 1 \in 1 .. Len(a) /\ i + 1 # 1
        BY <2>2
    <2> QED BY <2>1, <2>2, <2>3, <2>4
  <1>2. /\ cola'[q] = b
        /\ \A r \in Cola : r # q => cola'[r] = cola[r]
        /\ 1 \in 1 .. Len(a)
      BY <1>1
  <1> HIDE DEF b
  <1>3. \A u \in Hilo : u # t => /\ Ahora(u)' \in Llevan <=> Ahora(u) \in Llevan
                                 /\ hilo'[u].p = hilo[u].p
      BY DEF OtrosIgual
  <1>4. ASSUME NEW r \in Cola, NEW i \in 1 .. Len(cola'[r])
        PROVE  \E k \in 1 .. Len(cola[r]) :
                 /\ cola'[r][i] = cola[r][k]
                 /\ k = IF r = q THEN i + 1 ELSE i
      BY <1>1, <1>2
  <1>5. \A p : \A r \in Cola : Esta(p, cola'[r]) => Esta(p, cola[r])
      BY <1>4 DEF Esta
  <1>6. Esta(x, a)
      BY <1>1, <1>2 DEF Esta
  <1>7. ~Esta(x, b)
    <2> SUFFICES ASSUME NEW i \in 1 .. Len(b), b[i] = x PROVE FALSE
        BY DEF Esta
    <2>1. a[i + 1] = a[1] /\ i + 1 \in 1 .. Len(a) /\ i + 1 # 1
        BY <1>1
    <2> QED BY <1>2, <2>1 DEF UnLugar, ColasSinRepetir
  <1>8. \A r \in Cola : ~Esta(x, cola'[r])
    <2> SUFFICES ASSUME NEW r \in Cola, r # q, Esta(x, cola[r]) PROVE FALSE
        BY <1>2, <1>5, <1>7
    <2> QED BY <1>1, <1>2 DEF UnLugar, ColasSinRepetir, Esta
  <1>9. hilo'[t].p = x
      BY <1>0
  <1>10. \A r, s \in Cola : \A i \in 1 .. Len(cola'[r]), j \in 1 .. Len(cola'[s]) :
            cola'[r][i] = cola'[s][j] => r = s /\ i = j
    <2> SUFFICES ASSUME NEW r \in Cola, NEW s \in Cola, NEW i \in 1 .. Len(cola'[r]),
                        NEW j \in 1 .. Len(cola'[s]), cola'[r][i] = cola'[s][j]
                 PROVE  r = s /\ i = j
        OBVIOUS
    <2>1. PICK k \in 1 .. Len(cola[r]) : cola'[r][i] = cola[r][k] /\ k = IF r = q THEN i + 1 ELSE i
        BY <1>4
    <2>2. PICK l \in 1 .. Len(cola[s]) : cola'[s][j] = cola[s][l] /\ l = IF s = q THEN j + 1 ELSE j
        BY <1>4
    <2>3. r = s /\ k = l
        BY <2>1, <2>2 DEF UnLugar, ColasSinRepetir
    <2>4. i \in Int /\ j \in Int
        OBVIOUS
    <2> QED BY <2>1, <2>2, <2>3, <2>4
  <1>11. \A u, v \in Hilo : Ahora(u)' \in Llevan /\ Ahora(v)' \in Llevan /\ hilo'[u].p = hilo'[v].p => u = v
    <2>1. \A u \in Hilo : u # t /\ Ahora(u)' \in Llevan => hilo'[u].p # x
        BY <1>3, <1>6 DEF UnLugar, ManosSinRepetir, ColaOMano
    <2> QED BY <1>3, <1>9, <2>1 DEF UnLugar, ManosSinRepetir, ColaOMano
  <1>12. \A u \in Hilo, r \in Cola : Ahora(u)' \in Llevan => ~Esta(hilo'[u].p, cola'[r])
    <2>1. \A r \in Cola : ~Esta(hilo'[t].p, cola'[r])
        BY <1>8, <1>9
    <2>2. \A u \in Hilo, r \in Cola : u # t /\ Ahora(u)' \in Llevan => ~Esta(hilo'[u].p, cola'[r])
        BY <1>3, <1>5 DEF UnLugar, ColaOMano
    <2> QED BY <2>1, <2>2
  <1>13. \A r \in Cola : \A i \in 1 .. Len(cola'[r]) : cola'[r][i] < contador /\ cola'[r][i] \notin fin
      BY <1>4 DEF UnLugar, EnColaVivo
  <1>14. \A u \in Hilo : Ahora(u)' \in Llevan => hilo'[u].p < contador /\ hilo'[u].p \notin fin
    <2>1. x < contador /\ x \notin fin
        BY <1>1, <1>2 DEF UnLugar, EnColaVivo, EnManoVivo
    <2> QED BY <1>3, <1>9, <2>1 DEF UnLugar, EnColaVivo, EnManoVivo
  <1>15. \A p \in Pid : p < contador /\ p \notin fin =>
           (\E r \in Cola : Esta(p, cola'[r])) \/ (\E u \in Hilo : Lleva(u, p)')
    <2> SUFFICES ASSUME NEW p \in Pid, p < contador, p \notin fin
                 PROVE  (\E r \in Cola : Esta(p, cola'[r])) \/ (\E u \in Hilo : Lleva(u, p)')
        OBVIOUS
    <2>1. CASE p = x
        BY <1>9, <2>1 DEF Lleva
    <2>2. ASSUME NEW r \in Cola, Esta(p, cola[r]), p # x PROVE Esta(p, cola'[r])
      <3>1. CASE r # q
          BY <1>2, <2>2, <3>1
      <3>2. CASE r = q
        <4>1. PICK k \in 1 .. Len(a) : a[k] = p
            BY <2>2, <3>2 DEF Esta
        <4>2. k # 1
            BY <1>1, <2>2, <4>1
        <4>3. k - 1 \in 1 .. Len(b) /\ (k - 1) + 1 = k
            BY <1>1, <4>2
        <4>4. b[k - 1] = p
            BY <1>1, <4>1, <4>3
        <4> QED BY <1>2, <3>2, <4>3, <4>4 DEF Esta
      <3> QED BY <3>1, <3>2
    <2>3. ASSUME NEW u \in Hilo, Lleva(u, p) PROVE Lleva(u, p)'
        BY <1>3, <2>3 DEF Lleva
    <2> QED BY <2>1, <2>2, <2>3 DEF UnLugar, VivoEsta
  <1>16. UnLugar'
    <2>1. ColasSinRepetir'
        BY <1>10 DEF ColasSinRepetir
    <2>2. ManosSinRepetir'
        BY <1>11 DEF ManosSinRepetir
    <2>3. ColaOMano'
        BY <1>12 DEF ColaOMano
    <2>4. EnColaVivo' /\ EnManoVivo'
        BY <1>13, <1>14 DEF EnColaVivo, EnManoVivo
    <2>5. VivoEsta'
        BY <1>15 DEF VivoEsta
    <2> QED BY <2>1, <2>2, <2>3, <2>4, <2>5 DEF UnLugar
  <1> QED BY <1>0, <1>5, <1>6, <1>16

(* A process goes from the hands of a thread to a queue.                   *)
LEMMA PonerLugar ==
  ASSUME UnLugar, cola \in [Cola -> Seq(Pid)], NEW t \in Hilo, NEW q \in Cola, OtrosIgual(t),
         hilo[t].p \in Pid, cola' = [cola EXCEPT ![q] = Append(@, hilo[t].p)],
         UNCHANGED <<contador, fin>>, Ahora(t) \in Llevan, Ahora(t)' \notin Llevan
  PROVE  /\ UnLugar'
         /\ \A p : \A r \in Cola : Esta(p, cola'[r]) => Esta(p, cola[r]) \/ (r = q /\ p = hilo[t].p)
  <1> DEFINE a == cola[q]
  <1>0. PICK x \in Pid : x = hilo[t].p
      OBVIOUS
  <1>1. PICK b : b = Append(a, x)
      OBVIOUS
  <1>2. /\ a \in Seq(Pid) /\ b \in Seq(Pid) /\ Len(a) \in Nat /\ Len(b) = Len(a) + 1 /\ b[Len(b)] = x
        /\ \A i \in 1 .. Len(a) : b[i] = a[i]
      BY <1>1, AppendProperties, LenProperties
  <1>3. cola'[q] = b /\ \A r \in Cola : r # q => cola'[r] = cola[r]
      BY <1>0, <1>1
  <1>4. \A u \in Hilo : u # t => /\ Ahora(u)' \in Llevan <=> Ahora(u) \in Llevan
                                 /\ hilo'[u].p = hilo[u].p
      BY DEF OtrosIgual
  <1>5. \A r \in Cola : ~Esta(x, cola[r])
      BY <1>0 DEF UnLugar, ColaOMano
  <1>6. ASSUME NEW r \in Cola, NEW i \in 1 .. Len(cola'[r])
        PROVE  \/ i \in 1 .. Len(cola[r]) /\ cola'[r][i] = cola[r][i]
               \/ r = q /\ i = Len(b) /\ cola'[r][i] = x
      BY <1>2, <1>3
  <1>7. \A p : \A r \in Cola : Esta(p, cola'[r]) => Esta(p, cola[r]) \/ (r = q /\ p = x)
      BY <1>6 DEF Esta
  <1>8. ColasSinRepetir'
    <2> SUFFICES ASSUME NEW r \in Cola, NEW s \in Cola, NEW i \in 1 .. Len(cola'[r]),
                        NEW j \in 1 .. Len(cola'[s]), cola'[r][i] = cola'[s][j]
                 PROVE  r = s /\ i = j
        BY DEF ColasSinRepetir
    <2>1. CASE i \in 1 .. Len(cola[r]) /\ cola'[r][i] = cola[r][i] /\ j \in 1 .. Len(cola[s]) /\ cola'[s][j] = cola[s][j]
        BY <2>1 DEF UnLugar, ColasSinRepetir
    <2>2. CASE i \in 1 .. Len(cola[r]) /\ cola'[r][i] = cola[r][i] /\ cola'[s][j] = x
        BY <1>5, <2>2 DEF Esta
    <2>3. CASE cola'[r][i] = x /\ j \in 1 .. Len(cola[s]) /\ cola'[s][j] = cola[s][j]
        BY <1>5, <2>3 DEF Esta
    <2> QED BY <1>6, <2>1, <2>2, <2>3
  <1>9. ManosSinRepetir'
      BY <1>4 DEF UnLugar, ManosSinRepetir
  <1>10. ColaOMano'
    <2> SUFFICES ASSUME NEW u \in Hilo, NEW r \in Cola, Ahora(u)' \in Llevan, Esta(hilo'[u].p, cola'[r])
                 PROVE  FALSE
        BY DEF ColaOMano
    <2>1. u # t /\ Ahora(u) \in Llevan /\ hilo'[u].p = hilo[u].p
        BY <1>4
    <2>2. ~Esta(hilo[u].p, cola[r])
        BY <2>1 DEF UnLugar, ColaOMano
    <2>3. hilo[u].p # x
        BY <1>0, <2>1 DEF UnLugar, ManosSinRepetir
    <2> QED BY <1>7, <2>1, <2>2, <2>3
  <1>11. EnColaVivo'
    <2>1. x < contador /\ x \notin fin
        BY <1>0 DEF UnLugar, EnManoVivo
    <2> QED BY <1>6, <2>1 DEF UnLugar, EnColaVivo
  <1>12. EnManoVivo'
      BY <1>4 DEF UnLugar, EnManoVivo
  <1>13. VivoEsta'
    <2> SUFFICES ASSUME NEW p \in Pid, p < contador, p \notin fin
                 PROVE  (\E r \in Cola : Esta(p, cola'[r])) \/ (\E u \in Hilo : Lleva(u, p)')
        BY DEF VivoEsta
    <2>1. ASSUME NEW r \in Cola, Esta(p, cola[r]) PROVE Esta(p, cola'[r])
      <3>1. \A i \in 1 .. Len(cola[r]) : i \in 1 .. Len(cola'[r]) /\ cola'[r][i] = cola[r][i]
          BY <1>2, <1>3
      <3> QED BY <2>1, <3>1 DEF Esta
    <2>2. ASSUME NEW u \in Hilo, Lleva(u, p), u # t PROVE Lleva(u, p)'
        BY <1>4, <2>2 DEF Lleva
    <2>3. Esta(x, cola'[q])
      <3>1. Len(b) \in 1 .. Len(b)
          BY <1>2
      <3> QED BY <1>2, <1>3, <3>1 DEF Esta
    <2> QED BY <1>0, <2>1, <2>2, <2>3 DEF UnLugar, VivoEsta, Lleva
  <1>14. UnLugar'
      BY <1>8, <1>9, <1>10, <1>11, <1>12, <1>13 DEF UnLugar
  <1> QED BY <1>0, <1>7, <1>14

(* What Sacar and Poner leave as the process in hand.                      *)
LEMMA PrimeroEsPid ==
  ASSUME Tipos, NEW q \in Cola
  PROVE  /\ Primero(q) \in Pid
         /\ cola[q] # <<>> => Primero(q) = Head(cola[q])
         /\ [cola EXCEPT ![q] = IF @ = <<>> THEN @ ELSE Tail(@)] \in [Cola -> Seq(Pid)]
  <1>1. 0 \in Pid /\ cola[q] \in Seq(Pid) /\ cola \in [Cola -> Seq(Pid)]
      BY ConstantesOK DEF Tipos, Pid
  <1>2. cola[q] # <<>> => Head(cola[q]) \in Pid /\ Tail(cola[q]) \in Seq(Pid)
      BY <1>1, HeadTailProperties
  <1> QED BY <1>1, <1>2 DEF Primero

LEMMA SacarTipos ==
  ASSUME Tipos, NEW t \in Hilo, NEW q \in Cola, Sacar(t, q)
  PROVE  Tipos'
  <1>1. HilosOK'
      BY PrimeroEsPid, Avanza DEF Sacar, Tipos
  <1>2. cola' \in [Cola -> Seq(Pid)]
      BY PrimeroEsPid DEF Sacar
  <1> QED BY <1>1, <1>2 DEF Sacar, Tipos, mando, cpu

(* The order in which a thread goes from a pop to a push.                  *)
LEMMA TrasSacar ==
  ASSUME Tipos, NEW t \in Hilo, NEW q \in Cola, Sacar(t, q)
  PROVE  /\ OtrosIgual(t) /\ hilo'[t].p = Primero(q)
         /\ Ahora(t) = sacar(q) /\ Ahora(t) \notin Llevan /\ Ahora(t)' \in Llevan
         /\ q = "NEW" => Ahora(t) = sacarNEW /\ Ahora(t)' = ponerREADY
         /\ q = "READY" => Ahora(t) = sacarREADY /\ Ahora(t)' = ponerRUNNING
         /\ q = "RUNNING" => /\ Ahora(t) = sacarRUNNING /\ Ahora(t)' # ponerRUNNING
                             /\ ~Admite(t)' /\ Toma(t)'
         /\ q = "BLOCKED" => Ahora(t) = sacarBLOCKED /\ Ahora(t)' # ponerRUNNING /\ ~Admite(t)'
         /\ Toma(t) => Toma(t)'
  <1> DEFINE s == sacar(q)
  <1>1. Primero(q) \in Pid /\ HilosOK
      BY PrimeroEsPid DEF Tipos
  <1>2. Paso(t, s) /\ SigueCon(t, <<>>, Primero(q))
      BY DEF Sacar
  <1>3. /\ q = "NEW" => s = sacarNEW
        /\ q = "READY" => s = sacarREADY
        /\ q = "RUNNING" => s = sacarRUNNING
        /\ q = "BLOCKED" => s = sacarBLOCKED
        /\ q \in {"NEW", "READY", "RUNNING", "BLOCKED"}
      BY DEF sacarNEW, sacarREADY, sacarRUNNING, sacarBLOCKED, Cola
  <1> HIDE DEF s
  <1>4. /\ Otros(t)
        /\ Ahora(t)' = <<>> => Ultimo(s)
        /\ Ahora(t)' # <<>> => Encadenados(s, Ahora(t)') /\ hilo'[t].p = Primero(q)
        /\ s \in {sacarRUNNING, sacarBLOCKED} => ~Admite(t)'
        /\ s = sacarRUNNING => Toma(t)'
        /\ Toma(t) /\ s # tomarMutex => Toma(t)'
      BY <1>1, <1>2, Avanza
  <1>5. Ahora(t) = s
      BY <1>1, <1>2, PrimerPaso
  <1>6. OtrosIgual(t)
      BY <1>4, OtrosNoCambian
  <1>7. s \in {sacarNEW, sacarREADY, sacarRUNNING, sacarBLOCKED}
      BY <1>3
  <1>8. ~Ultimo(s) /\ s \notin Llevan /\ s # tomarMutex
      BY <1>7, PasosDistintos DEF Ultimo, Llevan
  <1>9. Encadenados(s, Ahora(t)') /\ hilo'[t].p = Primero(q)
      BY <1>4, <1>8
  <1>10. /\ s = sacarNEW => Ahora(t)' = ponerREADY
         /\ s = sacarREADY => Ahora(t)' = ponerRUNNING
         /\ s = sacarRUNNING => Ahora(t)' \in {ponerREADY, ponerBLOCKED, terminar}
         /\ s = sacarBLOCKED => Ahora(t)' \in {ponerREADY, terminar}
      BY <1>9 DEF Encadenados
  <1>11. Ahora(t)' \in Llevan
      BY <1>7, <1>10 DEF Llevan
  <1>12. s \in {sacarRUNNING, sacarBLOCKED} => Ahora(t)' # ponerRUNNING
      BY <1>10, PasosDistintos
  <1> QED BY <1>3, <1>4, <1>5, <1>6, <1>8, <1>9, <1>10, <1>11, <1>12 DEF s

LEMMA SacarIInv ==
  ASSUME IInv, ~nulo, NEW t \in Hilo, NEW q \in Cola, Sacar(t, q)
  PROVE  IInv'
  <1>1. Tipos'
      BY SacarTipos DEF IInv
  <1>2. CASE cola[q] = <<>> /\ q = "NEW"
      BY <1>1, <1>2 DEF Sacar, IInv
  <1>3. CASE cola[q] # <<>> \/ q # "NEW"
    <2>1. /\ OtrosIgual(t) /\ hilo'[t].p = Primero(q)
          /\ Ahora(t) \notin Llevan /\ Ahora(t)' \in Llevan
          /\ q = "NEW" => Ahora(t) = sacarNEW /\ Ahora(t)' = ponerREADY
          /\ q = "READY" => Ahora(t) = sacarREADY /\ Ahora(t)' = ponerRUNNING
          /\ q = "RUNNING" => /\ Ahora(t) = sacarRUNNING /\ Ahora(t)' # ponerRUNNING
                              /\ ~Admite(t)' /\ Toma(t)'
          /\ q = "BLOCKED" => Ahora(t) = sacarBLOCKED /\ Ahora(t)' # ponerRUNNING /\ ~Admite(t)'
          /\ Toma(t) => Toma(t)'
        BY TrasSacar DEF IInv
    <2>2. Coherente /\ q \in {"NEW", "READY", "RUNNING", "BLOCKED"} /\ cola \in [Cola -> Seq(Pid)]
        BY DEF IInv, Cola, Tipos
    <2>3. cola[q] # <<>>
        BY <1>3, <2>1, <2>2, Paradas DEF Coherente, VistoVigente, UnTurno, EnCurso
    <2>4. /\ hilo'[t].p = Head(cola[q]) /\ cola' = [cola EXCEPT ![q] = Tail(@)]
          /\ UNCHANGED <<contador, pausada, mutex, dispatch, a_kernel, corrio, fin>> /\ nulo' = nulo
        BY <1>3, <2>1, <2>3, PrimeroEsPid DEF Sacar, IInv, mando, cpu, Tipos
    <2>5. /\ UnLugar'
          /\ \A p : \A r \in Cola : Esta(p, cola'[r]) => Esta(p, cola[r])
          /\ Esta(Head(cola[q]), cola[q])
        BY <2>1, <2>2, <2>3, <2>4, SacarLugar DEF Coherente
    <2>6. \A r \in Cola : r # q => cola'[r] = cola[r]
        BY <2>2, <2>4
    <2>7. Exclusion'
      <3>1. Ahora(t) \in Dentro <=> Ahora(t)' \in Dentro
          BY <2>1, <2>2, PasosDistintos DEF Dentro, Llevan
      <3> QED BY <2>1, <2>2, <2>4, <3>1, MismaExclusion DEF Coherente
    <2>8. "READY" \in Cola /\ "RUNNING" \in Cola /\ "BLOCKED" \in Cola /\ "NEW" \in Cola
        BY DEF Cola
    <2>13. Ahora(t)' = ponerRUNNING => q = "READY"
        BY <2>1, <2>2, PasosDistintos
    <2>9. VistoVigente'
      <3> SUFFICES ASSUME NEW u \in Hilo
                   PROVE  /\ Ahora(u)' \in {sacarREADY, ponerRUNNING} => cola'["RUNNING"] = <<>>
                          /\ Ahora(u)' = sacarREADY => cola'["READY"] # <<>>
                          /\ Ahora(u)' = sacarBLOCKED => u = interfaz /\ cola'["BLOCKED"] # <<>>
          BY DEF VistoVigente
      <3>1. CASE u = t
        <4>1. Ahora(t)' \notin {sacarREADY, sacarBLOCKED}
            BY <2>1, Paradas
        <4>2. q = "READY" => cola["RUNNING"] = <<>>
            BY <2>1, <2>2 DEF Coherente, VistoVigente
        <4> QED BY <2>6, <2>8, <2>13, <3>1, <4>1, <4>2
      <3>2. CASE u # t
        <4>1. Ahora(u)' = Ahora(u)
            BY <2>1, <3>2 DEF OtrosIgual
        <4>2. /\ Ahora(u) \in {sacarREADY, ponerRUNNING} => cola["RUNNING"] = <<>>
              /\ Ahora(u) = sacarREADY => cola["READY"] # <<>>
              /\ Ahora(u) = sacarBLOCKED => u = interfaz /\ cola["BLOCKED"] # <<>>
              /\ Ahora(t) = sacarBLOCKED => t = interfaz
            BY <2>2 DEF Coherente, VistoVigente
        <4>3. Ahora(u) = sacarREADY => Ahora(t) # sacarREADY
            BY <2>2, <3>2, UnoDentro DEF Coherente, Dentro
        <4>4. Ahora(u) \in {sacarREADY, ponerRUNNING} => q # "RUNNING"
            BY <2>3, <4>2
        <4>5. Ahora(u) = sacarREADY => q # "READY"
            BY <2>1, <4>3
        <4>6. Ahora(u) = sacarBLOCKED => q # "BLOCKED"
            BY <2>1, <3>2, <4>2
        <4> QED BY <2>6, <2>8, <4>1, <4>2, <4>4, <4>5, <4>6
      <3> QED BY <3>1, <3>2
    <2>14. Ahora(t)' \notin EnCurso
        BY <2>1, Paradas
    <2>15. enviar \in EnCurso /\ sacarRUNNING \in EnCurso /\ recibir \in EnCurso
        BY DEF EnCurso
    <2>16. \A u \in Hilo : Ahora(u)' \in EnCurso => u # t /\ Ahora(u)' = Ahora(u)
                                                  /\ hilo'[u].p = hilo[u].p /\ hilo'[u].id = hilo[u].id
        BY <2>1, <2>14 DEF OtrosIgual
    <2>10. UnTurno'
      <3>1. CASE q # "RUNNING"
        <4>1. cola'["RUNNING"] = cola["RUNNING"]
            BY <2>6, <2>8, <3>1
        <4> QED BY <2>2, <2>4, <2>15, <2>16, <4>1 DEF Coherente, UnTurno
      <3>2. CASE q = "RUNNING"
        <4>1. Ahora(t) \in EnCurso /\ Ahora(t) = sacarRUNNING
            BY <2>1, <2>15, <3>2
        <4>2. \A u \in Hilo : Ahora(u)' \notin EnCurso
            BY <2>2, <2>16, <4>1 DEF Coherente, UnTurno
        <4>3. dispatch = <<>> /\ a_kernel = <<>> /\ Len(cola["RUNNING"]) <= 1
            BY <2>2, <4>1 DEF Coherente, UnTurno
        <4>4. Len(cola'["RUNNING"]) = 0
          <5>1. cola["RUNNING"] \in Seq(Pid) /\ cola["RUNNING"] # <<>>
              BY <2>2, <2>3, <3>2
          <5>2. Len(cola["RUNNING"]) = 1
            <6>1. \A n \in Nat : n <= 1 /\ n # 0 => n = 1
                OBVIOUS
            <6>2. Len(cola["RUNNING"]) \in Nat /\ Len(cola["RUNNING"]) # 0
                BY <5>1, LenProperties, EmptySeq
            <6> QED BY <4>3, <6>1, <6>2
          <5>3. Len(Tail(cola["RUNNING"])) = 0
              BY <5>1, <5>2, HeadTailProperties
          <5> QED BY <2>2, <2>4, <3>2, <5>3
        <4>5. dispatch' = <<>> /\ a_kernel' = <<>> /\ Len(<<>>) = 0
            BY <2>4, <4>3
        <4> QED BY <2>15, <4>2, <4>4, <4>5 DEF UnTurno
      <3> QED BY <3>1, <3>2
    <2>11. NuevosSinCorrer'
      <3>1. \A p \in corrio : p < contador /\ ~Esta(p, cola'["NEW"])
          BY <2>2, <2>5, <2>8 DEF Coherente, NuevosSinCorrer
      <3>2. Admite(t)' => q = "NEW"
          BY <2>1, <2>2, PasosDistintos DEF Admite
      <3>3. q = "NEW" => Head(cola[q]) \notin corrio
          BY <2>2, <2>5 DEF Coherente, NuevosSinCorrer
      <3>4. \A u \in Hilo : u # t => (Admite(u)' <=> Admite(u)) /\ hilo'[u].p = hilo[u].p
          BY <2>1 DEF OtrosIgual
      <3> QED BY <2>2, <2>4, <3>1, <3>2, <3>3, <3>4 DEF Coherente, NuevosSinCorrer
    <2>12. AlguienMira'
      <3> SUFFICES ASSUME ~pausada, cola'["RUNNING"] = <<>>, NEW p \in corrio, Esta(p, cola'["READY"])
                   PROVE  \E u \in Hilo : Mira(u)'
          BY <2>4 DEF AlguienMira
      <3>1. CASE q \in {"READY", "RUNNING"}
        <4>1. Mira(t)'
            BY <2>1, <3>1 DEF Mira
        <4> QED BY <4>1
      <3>2. CASE q \notin {"READY", "RUNNING"}
        <4>1. cola'["RUNNING"] = cola["RUNNING"] /\ Esta(p, cola["READY"])
            BY <2>5, <2>6, <2>8, <3>2
        <4>2. PICK u \in Hilo : Mira(u)
            BY <2>2, <4>1 DEF Coherente, AlguienMira
        <4>3. CASE u # t
            BY <2>1, <4>2, <4>3 DEF OtrosIgual, Mira
        <4>4. CASE u = t
          <5>1. Ahora(t) \in {sacarNEW, sacarBLOCKED}
              BY <2>1, <2>2, <3>2
          <5>2. Toma(t)
              BY <4>2, <4>4, <5>1, PasosDistintos DEF Mira
          <5>3. Mira(t)'
              BY <2>1, <5>2 DEF Mira
          <5> QED BY <5>3
        <4> QED BY <4>3, <4>4
      <3> QED BY <3>1, <3>2
    <2> QED BY <1>1, <2>5, <2>7, <2>9, <2>10, <2>11, <2>12 DEF IInv, Coherente
  <1> QED BY <1>2, <1>3


(* The order in which a thread goes on from a push.                        *)
LEMMA TrasPoner ==
  ASSUME Tipos, NEW t \in Hilo, NEW q \in Cola, Poner(t, q)
  PROVE  /\ HilosOK' /\ OtrosIgual(t) /\ hilo[t].p \in Pid
         /\ Ahora(t) \in Llevan /\ Ahora(t)' \in {verNEW, tomarMutex, enviar}
         /\ q = "READY" => Ahora(t) = ponerREADY /\ Ahora(t)' # enviar /\ (~Admite(t) => Toma(t)')
         /\ q = "RUNNING" => Ahora(t) = ponerRUNNING /\ Ahora(t)' = enviar /\ hilo'[t].p = hilo[t].p
         /\ q = "BLOCKED" => Ahora(t) = ponerBLOCKED /\ Ahora(t)' # enviar
         /\ Toma(t) => Toma(t)'
         /\ q \in {"READY", "RUNNING", "BLOCKED"}
  <1> DEFINE s == poner(q)
  <1>0. PICK x : x = IF q = "RUNNING" THEN hilo[t].p ELSE 0
      OBVIOUS
  <1>1. hilo[t].p \in Pid /\ HilosOK /\ x \in Pid
      BY <1>0, ConstantesOK DEF Tipos, HilosOK, Pid
  <1>2. Paso(t, s) /\ SigueCon(t, <<>>, x)
      BY <1>0 DEF Poner
  <1>3. Ahora(t) = s /\ s \in Pasos
      BY <1>1, <1>2, PrimerPaso
  <1>4. poner("NEW") \notin Pasos
    <2>1. "NEW" # "READY" /\ "NEW" # "RUNNING" /\ "NEW" # "BLOCKED"
        OBVIOUS
    <2> QED BY <2>1, ClasesDistintas DEF Pasos, sacarNEW, sacarREADY, sacarRUNNING, sacarBLOCKED,
                ponerREADY, ponerRUNNING, ponerBLOCKED, terminar, verNEW, tomarMutex, verREADY, enviar,
                crearHilo, soltarMutex, mirarRUNNING, recibir
  <1>5. /\ q \in {"READY", "RUNNING", "BLOCKED"}
        /\ q = "READY" => s = ponerREADY
        /\ q = "RUNNING" => s = ponerRUNNING /\ x = hilo[t].p
        /\ q = "BLOCKED" => s = ponerBLOCKED
      BY <1>0, <1>3, <1>4 DEF Cola, ponerREADY, ponerRUNNING, ponerBLOCKED
  <1> HIDE DEF s
  <1>6. /\ HilosOK' /\ Otros(t)
        /\ Ahora(t)' = <<>> => Ultimo(s)
        /\ Ahora(t)' # <<>> => Encadenados(s, Ahora(t)') /\ hilo'[t].p = x
        /\ s = ponerREADY /\ ~Admite(t) => Toma(t)'
        /\ Toma(t) /\ s # tomarMutex => Toma(t)'
      BY <1>1, <1>2, Avanza
  <1>7. OtrosIgual(t)
      BY <1>6, OtrosNoCambian
  <1>8. s \in {ponerREADY, ponerRUNNING, ponerBLOCKED}
      BY <1>5
  <1>9. ~Ultimo(s) /\ s \in Llevan /\ s # tomarMutex
      BY <1>8, PasosDistintos DEF Ultimo, Llevan
  <1>10. Encadenados(s, Ahora(t)') /\ hilo'[t].p = x
      BY <1>6, <1>9
  <1>11. /\ s = ponerREADY => Ahora(t)' \in {verNEW, tomarMutex}
         /\ s = ponerRUNNING => Ahora(t)' = enviar
         /\ s = ponerBLOCKED => Ahora(t)' = tomarMutex
      BY <1>10 DEF Encadenados
  <1>12. s \in {ponerREADY, ponerBLOCKED} => Ahora(t)' # enviar
      BY <1>11, PasosDistintos
  <1> QED BY <1>1, <1>3, <1>5, <1>6, <1>7, <1>8, <1>9, <1>10, <1>11, <1>12

LEMMA PonerIInv ==
  ASSUME IInv, ~nulo, NEW t \in Hilo, NEW q \in Cola, Poner(t, q)
  PROVE  IInv'
  <1>1. /\ HilosOK' /\ OtrosIgual(t) /\ hilo[t].p \in Pid
        /\ Ahora(t) \in Llevan /\ Ahora(t)' \in {verNEW, tomarMutex, enviar}
        /\ q = "READY" => Ahora(t) = ponerREADY /\ Ahora(t)' # enviar /\ (~Admite(t) => Toma(t)')
        /\ q = "RUNNING" => Ahora(t) = ponerRUNNING /\ Ahora(t)' = enviar /\ hilo'[t].p = hilo[t].p
        /\ q = "BLOCKED" => Ahora(t) = ponerBLOCKED /\ Ahora(t)' # enviar
        /\ Toma(t) => Toma(t)'
        /\ q \in {"READY", "RUNNING", "BLOCKED"}
      BY TrasPoner DEF IInv
  <1>2. Tipos /\ Coherente /\ cola \in [Cola -> Seq(Pid)]
      BY DEF IInv, Tipos
  <1>3. /\ cola' = [cola EXCEPT ![q] = Append(@, hilo[t].p)]
        /\ UNCHANGED <<contador, pausada, mutex, dispatch, a_kernel, corrio, fin, nulo>>
      BY DEF Poner, mando, cpu, historia
  <1>4. PICK x \in Pid : x = hilo[t].p
      BY <1>1
  <1>5. /\ cola'[q] = Append(cola[q], x) /\ Append(cola[q], x) \in Seq(Pid)
        /\ cola'[q] # <<>> /\ \A r \in Cola : r # q => cola'[r] = cola[r]
    <2>1. cola[q] \in Seq(Pid)
        BY <1>2
    <2>2. Append(cola[q], x) \in Seq(Pid) /\ Append(cola[q], x) # <<>>
        BY <2>1, AppendProperties
    <2> QED BY <1>2, <1>3, <1>4, <2>2
  <1>6. Tipos'
    <2>1. cola' \in [Cola -> Seq(Pid)]
        BY <1>2, <1>3, <1>4, <1>5
    <2> QED BY <1>1, <1>2, <1>3, <2>1 DEF Tipos
  <1>7. Ahora(t)' \notin Llevan
      BY <1>1, PasosDistintos DEF Llevan
  <1>8. /\ UnLugar'
        /\ \A p : \A r \in Cola : Esta(p, cola'[r]) => Esta(p, cola[r]) \/ (r = q /\ p = hilo[t].p)
      BY <1>1, <1>2, <1>3, <1>7, PonerLugar DEF Coherente
  <1>9. Exclusion'
    <2>1. q = "RUNNING" => Ahora(t) \in Dentro /\ Ahora(t)' \in Dentro
        BY <1>1 DEF Dentro
    <2>2. q # "RUNNING" => Ahora(t) \notin Dentro /\ Ahora(t)' \notin Dentro
        BY <1>1, PasosDistintos DEF Dentro
    <2> QED BY <1>1, <1>2, <1>3, <2>1, <2>2, MismaExclusion DEF Coherente
  <1>10. "READY" \in Cola /\ "RUNNING" \in Cola /\ "BLOCKED" \in Cola /\ "NEW" \in Cola
      BY DEF Cola
  <1>11. VistoVigente'
    <2> SUFFICES ASSUME NEW u \in Hilo
                 PROVE  /\ Ahora(u)' \in {sacarREADY, ponerRUNNING} => cola'["RUNNING"] = <<>>
                        /\ Ahora(u)' = sacarREADY => cola'["READY"] # <<>>
                        /\ Ahora(u)' = sacarBLOCKED => u = interfaz /\ cola'["BLOCKED"] # <<>>
        BY DEF VistoVigente
    <2>1. CASE u = t
        BY <1>1, <2>1, PasosDistintos
    <2>2. CASE u # t
      <3>1. Ahora(u)' = Ahora(u)
          BY <1>1, <2>2 DEF OtrosIgual
      <3>2. /\ Ahora(u) \in {sacarREADY, ponerRUNNING} => cola["RUNNING"] = <<>>
            /\ Ahora(u) = sacarREADY => cola["READY"] # <<>>
            /\ Ahora(u) = sacarBLOCKED => u = interfaz /\ cola["BLOCKED"] # <<>>
          BY <1>2 DEF Coherente, VistoVigente
      <3>3. Ahora(u) \in {sacarREADY, ponerRUNNING} => q # "RUNNING"
          BY <1>1, <1>2, <2>2, UnoDentro DEF Coherente, Dentro
      <3> QED BY <1>5, <1>10, <3>1, <3>2, <3>3
    <2> QED BY <2>1, <2>2
  <1>12. enviar \in EnCurso /\ sacarRUNNING \in EnCurso /\ recibir \in EnCurso
      BY DEF EnCurso
  <1>13. UnTurno'
    <2>1. CASE q # "RUNNING"
      <3>1. cola'["RUNNING"] = cola["RUNNING"]
          BY <1>5, <1>10, <2>1
      <3>2. Ahora(t)' \notin EnCurso
          BY <1>1, <2>1, PasosDistintos DEF EnCurso
      <3>3. \A u \in Hilo : Ahora(u)' \in EnCurso => u # t /\ Ahora(u)' = Ahora(u)
                                                /\ hilo'[u].p = hilo[u].p /\ hilo'[u].id = hilo[u].id
          BY <1>1, <3>2 DEF OtrosIgual
      <3> QED BY <1>2, <1>3, <1>12, <3>1, <3>3 DEF Coherente, UnTurno
    <2>2. CASE q = "RUNNING"
      <3>1. cola["RUNNING"] = <<>>
          BY <1>1, <1>2, <2>2 DEF Coherente, VistoVigente
      <3>2. \A u \in Hilo : Ahora(u) \notin EnCurso
          BY <1>2, <3>1 DEF Coherente, UnTurno
      <3>3. dispatch = <<>> /\ a_kernel = <<>>
        <4>1. \A m, n \in Nat : m + n <= 0 => m = 0 /\ n = 0
            OBVIOUS
        <4>2. Len(dispatch) \in Nat /\ Len(a_kernel) \in Nat
            BY <1>2, LenProperties DEF Tipos
        <4>3. Len(<<>>) = 0
            OBVIOUS
        <4>4. Len(dispatch) = 0 /\ Len(a_kernel) = 0
            BY <1>2, <3>1, <4>1, <4>2, <4>3 DEF Coherente, UnTurno
        <4> QED BY <1>2, <4>4, EmptySeq DEF Tipos
      <3>4. cola'["RUNNING"] = Append(<<>>, x)
          BY <1>5, <2>2, <3>1
      <3>5. Len(Append(<<>>, x)) = 1 /\ Append(<<>>, x)[1] = x
          OBVIOUS
      <3>6. /\ \A u \in Hilo : Ahora(u)' \in EnCurso => u = t
            /\ Ahora(t)' = enviar /\ hilo'[t].p = x
          BY <1>1, <1>4, <2>2, <3>2 DEF OtrosIgual
      <3>7. Ahora(t)' # recibir
          BY <3>6, PasosDistintos
      <3>8. Len(cola'["RUNNING"]) = 1 /\ cola'["RUNNING"][1] = x /\ cola'["RUNNING"] # <<>>
          BY <1>5, <2>2, <3>4, <3>5
      <3>9. dispatch' = <<>> /\ a_kernel' = <<>> /\ Len(<<>>) = 0
          BY <1>3, <3>3
      <3>10. Len(cola'["RUNNING"]) <= 1
          BY <3>8
      <3>11. Len(dispatch') + Len(a_kernel') <= Len(cola'["RUNNING"])
          BY <3>8, <3>9
      <3>12. (\A i \in 1 .. Len(dispatch') : FALSE) /\ (\A i \in 1 .. Len(a_kernel') : FALSE)
          BY <3>9
      <3> QED BY <1>12, <3>6, <3>7, <3>8, <3>9, <3>10, <3>11, <3>12 DEF UnTurno
    <2> QED BY <2>1, <2>2
  <1>14. NuevosSinCorrer'
    <2>1. \A p \in corrio : p < contador /\ ~Esta(p, cola'["NEW"])
        BY <1>1, <1>2, <1>5, <1>10 DEF Coherente, NuevosSinCorrer
    <2>2. ~Admite(t)'
        BY <1>1, PasosDistintos DEF Admite
    <2>3. \A u \in Hilo : u # t => (Admite(u)' <=> Admite(u)) /\ hilo'[u].p = hilo[u].p
        BY <1>1 DEF OtrosIgual
    <2> QED BY <1>2, <1>3, <2>1, <2>2, <2>3 DEF Coherente, NuevosSinCorrer
  <1>15. AlguienMira'
    <2> SUFFICES ASSUME ~pausada, cola'["RUNNING"] = <<>>, NEW p \in corrio, Esta(p, cola'["READY"]),
                        ~Toma(t)'
                 PROVE  \E u \in Hilo : Mira(u)'
        BY <1>3 DEF AlguienMira, Mira
    <2>1. q # "RUNNING"
        BY <1>5
    <2>2. q = "READY" => hilo[t].p \notin corrio
        BY <1>1, <1>2 DEF Coherente, NuevosSinCorrer
    <2>3. cola["RUNNING"] = <<>> /\ Esta(p, cola["READY"])
        BY <1>5, <1>8, <1>10, <2>1, <2>2
    <2>4. PICK u \in Hilo : Mira(u)
        BY <1>2, <2>3 DEF Coherente, AlguienMira
    <2>5. Ahora(t) \notin {verREADY, sacarREADY, ponerRUNNING}
        BY <1>1, <2>1, PasosDistintos
    <2>6. u # t
        BY <1>1, <2>4, <2>5 DEF Mira
    <2> QED BY <1>1, <2>4, <2>6 DEF OtrosIgual, Mira
  <1>16. Coherente'
      BY <1>8, <1>9, <1>11, <1>13, <1>14, <1>15 DEF Coherente
  <1> QED BY <1>6, <1>16 DEF IInv

-----------------------------------------------------------------------------
(* What comes after the step that a thread is about to take.               *)
LEMMA Siguiente ==
  ASSUME HilosOK, NEW t \in Hilo, NEW s, Paso(t, s)
  PROVE  /\ Len(Tail(hilo[t].pila)) \in Nat
         /\ Len(Tail(hilo[t].pila)) > 0 => Encadenados(s, Tail(hilo[t].pila)[1])
         /\ Len(Tail(hilo[t].pila)) = 0 => Ultimo(s)
  <1> DEFINE a == hilo[t].pila
             b == Tail(a)
  <1>1. a \in Seq(Pasos) /\ Encadenada(a) /\ a # <<>> /\ a[1] = s
      BY PrimerPaso
  <1>2. /\ Len(a) \in Nat \ {0} /\ Len(b) = Len(a) - 1
        /\ \A i \in 1 .. Len(a) - 1 : b[i] = a[i + 1]
      BY <1>1, RestoEncadenado
  <1> HIDE DEF b
  <1>3. Len(b) > 0 => 1 \in 1 .. Len(a) - 1 /\ 1 + 1 = 2
      BY <1>2
  <1>4. Len(b) > 0 => Encadenados(s, b[1])
      BY <1>1, <1>2, <1>3 DEF Encadenada
  <1>5. Len(b) = 0 => Len(a) = 1 /\ Len(a) > 0
      BY <1>2
  <1>6. Len(b) = 0 => Ultimo(s)
      BY <1>1, <1>5 DEF Encadenada
  <1> QED BY <1>2, <1>4, <1>6 DEF b

(* The loop of NEW_a_READY, what the mutex guards and the branch of        *)
(* READY_a_EXEC fit where they are put.                                    *)
LEMMA PrecedeVerREADY ==
  ASSUME HilosOK, NEW t \in Hilo, Paso(t, tomarMutex)
  PROVE  Precede(<<verREADY, soltarMutex>>, Tail(hilo[t].pila)) /\ <<verREADY, soltarMutex>> \in Seq(Pasos)
  <1> DEFINE s == <<verREADY, soltarMutex>>
             b == Tail(hilo[t].pila)
  <1>1. /\ Len(b) \in Nat /\ (Len(b) > 0 => Encadenados(tomarMutex, b[1]))
      BY Siguiente
  <1>2. s \in Seq(Pasos) /\ Len(s) = 2 /\ s[1] = verREADY /\ s[2] = soltarMutex
      BY SonPasos, Tupla2
  <1> HIDE DEF s, b
  <1>3. \A i \in 1 .. 2 : i = 1 \/ i = 2
      OBVIOUS
  <1>4. Encadenados(verREADY, soltarMutex) /\ Ultimo(soltarMutex)
      BY PasosDistintos DEF Encadenados, Ultimo
  <1>5. Len(b) > 0 => Encadenados(soltarMutex, b[1])
      BY <1>1, PasosDistintos DEF Encadenados
  <1>6. \A i \in 1 .. Len(s) - 1 : Encadenados(s[i], s[i + 1])
      BY <1>2, <1>4
  <1>7. \A i \in 1 .. Len(s) : s[i] # sacarNEW /\ s[i] # sacarRUNNING /\ s[i] # sacarBLOCKED
      BY <1>2, <1>3, PasosDistintos
  <1>8. Len(s) > 0
      BY <1>2
  <1> QED BY <1>2, <1>4, <1>5, <1>6, <1>7, <1>8 DEF Precede, s, b

LEMMA PrecedeAdmitir ==
  ASSUME HilosOK, NEW t \in Hilo, Paso(t, verNEW)
  PROVE  Precede(Admitir, Tail(hilo[t].pila)) /\ Admitir \in Seq(Pasos) /\ Admitir[1] = sacarNEW
  <1> DEFINE s == Admitir
             b == Tail(hilo[t].pila)
  <1>1. /\ Len(b) \in Nat /\ (Len(b) > 0 => Encadenados(verNEW, b[1]))
      BY Siguiente
  <1>2. s \in Seq(Pasos) /\ Len(s) = 3 /\ s[1] = sacarNEW /\ s[2] = ponerREADY /\ s[3] = verNEW
      BY SonPasos, Tupla3, Cuerpos
  <1> HIDE DEF s, b
  <1>3. (\A i \in 1 .. 3 : i = 1 \/ i = 2 \/ i = 3) /\ (\A i \in 1 .. 2 : i = 1 \/ i = 2)
      OBVIOUS
  <1>4. Encadenados(sacarNEW, ponerREADY) /\ Encadenados(ponerREADY, verNEW) /\ Ultimo(verNEW)
      BY PasosDistintos DEF Encadenados, Ultimo
  <1>5. \A i \in 1 .. Len(s) - 1 : Encadenados(s[i], s[i + 1])
      BY <1>2, <1>3, <1>4
  <1>6. \A i \in 1 .. Len(s) : /\ s[i] # sacarRUNNING /\ s[i] # sacarBLOCKED
                               /\ s[i] = sacarNEW => i = 1
      BY <1>2, <1>3, PasosDistintos
  <1>7. 1 + 2 <= Len(s) /\ Len(s) > 0 /\ 1 + 2 = 3
      BY <1>2
  <1> QED BY <1>1, <1>2, <1>4, <1>5, <1>6, <1>7 DEF Precede, s, b

LEMMA PrecedeDespachar ==
  ASSUME HilosOK, NEW t \in Hilo, Paso(t, verREADY)
  PROVE  Precede(Despachar, Tail(hilo[t].pila)) /\ Despachar \in Seq(Pasos) /\ Despachar[1] = sacarREADY
  <1> DEFINE s == Despachar
             b == Tail(hilo[t].pila)
  <1>1. /\ Len(b) \in Nat /\ (Len(b) > 0 => Encadenados(verREADY, b[1])) /\ (Len(b) = 0 => Ultimo(verREADY))
      BY Siguiente
  <1>2. /\ s \in Seq(Pasos) /\ Len(s) = 4
        /\ s[1] = sacarREADY /\ s[2] = ponerRUNNING /\ s[3] = enviar /\ s[4] = crearHilo
      BY SonPasos, Tupla4, Cuerpos
  <1> HIDE DEF s, b
  <1>3. (\A i \in 1 .. 4 : i = 1 \/ i = 2 \/ i = 3 \/ i = 4) /\ (\A i \in 1 .. 3 : i = 1 \/ i = 2 \/ i = 3)
      OBVIOUS
  <1>4. Encadenados(sacarREADY, ponerRUNNING) /\ Encadenados(ponerRUNNING, enviar) /\ Encadenados(enviar, crearHilo)
      BY PasosDistintos DEF Encadenados
  <1>5. \A i \in 1 .. Len(s) - 1 : Encadenados(s[i], s[i + 1])
      BY <1>2, <1>3, <1>4
  <1>6. \A i \in 1 .. Len(s) : s[i] # sacarNEW /\ s[i] # sacarRUNNING /\ s[i] # sacarBLOCKED
      BY <1>2, <1>3, PasosDistintos
  <1>7. Len(b) # 0 /\ Len(s) > 0
      BY <1>1, <1>2, PasosDistintos DEF Ultimo
  <1>8. Len(b) > 0 => Encadenados(crearHilo, b[1])
      BY <1>1, PasosDistintos DEF Encadenados
  <1> QED BY <1>2, <1>5, <1>6, <1>7, <1>8 DEF Precede, s, b

-----------------------------------------------------------------------------
LEMMA TerminarIInv ==
  ASSUME IInv, ~nulo, NEW t \in Hilo, Terminar(t)
  PROVE  IInv'
  <1>1. Tipos /\ Coherente /\ HilosOK /\ hilo[t].p \in Pid /\ 0 \in Pid
      BY ConstantesOK DEF IInv, Tipos, HilosOK, Pid
  <1>2. Paso(t, terminar) /\ SigueCon(t, <<>>, 0)
      BY DEF Terminar, terminar
  <1>3. Ahora(t) = terminar
      BY <1>1, <1>2, PrimerPaso
  <1>4. PICK x \in Pid : x = hilo[t].p
      BY <1>1
  <1>5. UNCHANGED <<cola, contador, pausada, mutex, dispatch, a_kernel, corrio, nulo>> /\ fin' = fin \cup {x}
      BY <1>4 DEF Terminar, mando, cpu
  <1>6. /\ HilosOK' /\ Otros(t)
        /\ Ahora(t)' # <<>> => Encadenados(terminar, Ahora(t)')
        /\ Toma(t) /\ terminar # tomarMutex => Toma(t)'
      BY <1>1, <1>2, Avanza
  <1>7. OtrosIgual(t) /\ Ahora(t)' \in {<<>>, tomarMutex} /\ (Toma(t) => Toma(t)')
      BY <1>6, OtrosNoCambian, PasosDistintos DEF Encadenados
  <1>8. Tipos'
      BY <1>1, <1>5, <1>6 DEF Tipos
  <1>9. Exclusion'
    <2>1. Ahora(t) \notin Dentro /\ Ahora(t)' \notin Dentro
        BY <1>3, <1>7, PasosDistintos DEF Dentro
    <2> QED BY <1>1, <1>5, <1>7, <2>1, MismaExclusion DEF Coherente
  <1>10. VistoVigente'
      BY <1>1, <1>5, <1>7, PasosDistintos DEF Coherente, VistoVigente, OtrosIgual
  <1>11. UnTurno'
    <2>1. enviar \in EnCurso /\ sacarRUNNING \in EnCurso /\ recibir \in EnCurso
        BY DEF EnCurso
    <2>2. Ahora(t)' \notin EnCurso
        BY <1>7, PasosDistintos DEF EnCurso
    <2>3. \A u \in Hilo : Ahora(u)' \in EnCurso => u # t /\ Ahora(u)' = Ahora(u)
                                              /\ hilo'[u].p = hilo[u].p /\ hilo'[u].id = hilo[u].id
        BY <1>7, <2>2 DEF OtrosIgual
    <2> QED BY <1>1, <1>5, <2>1, <2>3 DEF Coherente, UnTurno
  <1>12. Ahora(t) \in Llevan /\ Ahora(t)' \notin Llevan
      BY <1>3, <1>7, PasosDistintos DEF Llevan
  <1>13. \A u \in Hilo : Ahora(u)' \in Llevan => u # t /\ Ahora(u) \in Llevan /\ hilo'[u].p = hilo[u].p
      BY <1>7, <1>12 DEF OtrosIgual
  <1>14. x < contador
      BY <1>1, <1>4, <1>12 DEF Coherente, UnLugar, EnManoVivo
  <1>15. UnLugar'
    <2>1. ColasSinRepetir' /\ ManosSinRepetir' /\ ColaOMano'
        BY <1>1, <1>5, <1>13 DEF Coherente, UnLugar, ColasSinRepetir, ManosSinRepetir, ColaOMano, Esta
    <2>2. EnColaVivo'
      <3>1. \A q \in Cola : \A i \in 1 .. Len(cola[q]) : cola[q][i] # x
          BY <1>1, <1>4, <1>12 DEF Coherente, UnLugar, ColaOMano, Esta
      <3> QED BY <1>1, <1>5, <3>1 DEF Coherente, UnLugar, EnColaVivo
    <2>3. EnManoVivo'
      <3>1. \A u \in Hilo : Ahora(u)' \in Llevan => hilo[u].p # x
          BY <1>1, <1>4, <1>12, <1>13 DEF Coherente, UnLugar, ManosSinRepetir
      <3> QED BY <1>1, <1>5, <1>13, <3>1 DEF Coherente, UnLugar, EnManoVivo
    <2>4. VivoEsta'
      <3> SUFFICES ASSUME NEW p \in Pid, p < contador, p \notin fin, p # x
                   PROVE  (\E q \in Cola : Esta(p, cola[q])) \/ (\E u \in Hilo : Lleva(u, p)')
          BY <1>5 DEF VivoEsta, Esta
      <3>1. ASSUME NEW u \in Hilo, Lleva(u, p) PROVE Lleva(u, p)'
          BY <1>4, <1>7, <3>1 DEF Lleva, OtrosIgual
      <3> QED BY <1>1, <3>1 DEF Coherente, UnLugar, VivoEsta
    <2> QED BY <2>1, <2>2, <2>3, <2>4 DEF UnLugar
  <1>16. NuevosSinCorrer'
    <2>1. ~Admite(t)'
        BY <1>7, PasosDistintos DEF Admite
    <2>2. \A u \in Hilo : Admite(u)' => Admite(u) /\ hilo'[u].p = hilo[u].p
        BY <1>7, <2>1 DEF OtrosIgual
    <2> QED BY <1>1, <1>5, <1>14, <2>2 DEF Coherente, NuevosSinCorrer, Esta
  <1>17. AlguienMira'
    <2> SUFFICES ASSUME ~pausada, cola["RUNNING"] = <<>>, NEW p \in corrio, Esta(p, cola["READY"])
                 PROVE  \E u \in Hilo : Mira(u)'
        BY <1>5 DEF AlguienMira, Esta
    <2>1. PICK u \in Hilo : Mira(u)
        BY <1>1 DEF Coherente, AlguienMira
    <2>2. u = t => Toma(t)
        BY <1>3, <2>1, PasosDistintos DEF Mira
    <2>3. Mira(u)'
        BY <1>7, <2>1, <2>2 DEF Mira, OtrosIgual
    <2> QED BY <2>3
  <1> QED BY <1>8, <1>9, <1>10, <1>11, <1>15, <1>16, <1>17 DEF IInv, Coherente

LEMMA VerNEWIInv ==
  ASSUME IInv, ~nulo, NEW t \in Hilo, VerNEW(t)
  PROVE  IInv'
  <1>1. Tipos /\ Coherente /\ HilosOK /\ hilo[t].p \in Pid
      BY DEF IInv, Tipos, HilosOK
  <1>2. Paso(t, verNEW) /\ (Sigue(t, Admitir) \/ Sigue(t, <<>>))
      BY DEF VerNEW, verNEW
  <1>3. UNCHANGED <<cola, contador, pausada, mutex, dispatch, a_kernel, corrio, fin, nulo>>
      BY DEF VerNEW, mando, cpu, historia
  <1>4. Ahora(t) = verNEW
      BY <1>1, <1>2, PrimerPaso
  <1>5. HilosOK' /\ Otros(t) /\ (Toma(t) => Toma(t)') /\ Ahora(t)' \in {<<>>, tomarMutex, sacarNEW}
    <2>1. CASE Sigue(t, Admitir)
        BY <1>1, <1>2, <2>1, PrecedeAdmitir, Expande, PasosDistintos
    <2>2. CASE Sigue(t, <<>>)
      <3>1. SigueCon(t, <<>>, hilo[t].p)
          BY <2>2 DEF Sigue
      <3>2. /\ HilosOK' /\ Otros(t)
            /\ Ahora(t)' # <<>> => Encadenados(verNEW, Ahora(t)')
            /\ Toma(t) /\ verNEW # tomarMutex => Toma(t)'
          BY <1>1, <1>2, <3>1, Avanza
      <3> QED BY <3>2, PasosDistintos DEF Encadenados
    <2> QED BY <1>2, <2>1, <2>2
  <1>6. OtrosIgual(t)
      BY <1>5, OtrosNoCambian
  <1>7. /\ Ahora(t) \notin Llevan /\ Ahora(t)' \notin Llevan /\ Ahora(t)' \notin EnCurso
        /\ Ahora(t)' # sacarREADY /\ Ahora(t)' # sacarBLOCKED
        /\ Ahora(t) \notin Dentro /\ Ahora(t)' \notin Dentro
        /\ Mira(t) => Mira(t)'
      BY <1>4, <1>5, PasosDistintos DEF Llevan, EnCurso, Dentro, Mira
  <1>8. Exclusion'
      BY <1>1, <1>3, <1>6, <1>7, MismaExclusion DEF Coherente
  <1>9. VistoVigente' /\ UnTurno' /\ UnLugar' /\ NuevosSinCorrer' /\ AlguienMira'
      BY <1>1, <1>3, <1>6, <1>7, SinMover
  <1> QED BY <1>1, <1>3, <1>5, <1>8, <1>9 DEF IInv, Coherente, Tipos

LEMMA NadieNoEsHilo == Nadie \notin Hilo
  BY ConstantesOK DEF Nadie, Hilo, consola, interfaz

LEMMA TomarMutexIInv ==
  ASSUME IInv, ~nulo, NEW t \in Hilo, TomarMutex(t)
  PROVE  IInv'
  <1>1. Tipos /\ Coherente /\ HilosOK
      BY DEF IInv, Tipos
  <1>2. Paso(t, tomarMutex) /\ mutex = Nadie /\ Sigue(t, <<verREADY, soltarMutex>>)
      BY DEF TomarMutex, tomarMutex, verREADY, soltarMutex
  <1>3. mutex' = t /\ UNCHANGED <<cola, contador, pausada, dispatch, a_kernel, corrio, fin, nulo>>
      BY DEF TomarMutex, mando, cpu, historia
  <1>4. Ahora(t) = tomarMutex
      BY <1>1, <1>2, PrimerPaso
  <1>5. HilosOK' /\ Otros(t) /\ Ahora(t)' = verREADY
    <2>1. <<verREADY, soltarMutex>>[1] = verREADY
        OBVIOUS
    <2>2. HilosOK' /\ Otros(t) /\ Ahora(t)' = <<verREADY, soltarMutex>>[1]
        BY <1>1, <1>2, PrecedeVerREADY, Expande
    <2> QED BY <2>1, <2>2
  <1>6. OtrosIgual(t)
      BY <1>5, OtrosNoCambian
  <1>7. /\ Ahora(t) \notin Llevan /\ Ahora(t)' \notin Llevan /\ Ahora(t)' \notin EnCurso
        /\ Ahora(t)' # sacarREADY /\ Ahora(t)' # sacarBLOCKED
        /\ Ahora(t)' \in Dentro /\ Mira(t)'
      BY <1>4, <1>5, PasosDistintos DEF Llevan, EnCurso, Dentro, Mira
  <1>8. Exclusion'
    <2>1. \A u \in Hilo : Ahora(u) \notin Dentro
        BY <1>1, <1>2, NadieNoEsHilo DEF Coherente, Exclusion
    <2> QED BY <1>3, <1>6, <1>7, <2>1 DEF Exclusion, OtrosIgual
  <1>9. VistoVigente' /\ UnTurno' /\ UnLugar' /\ NuevosSinCorrer' /\ AlguienMira'
      BY <1>1, <1>3, <1>6, <1>7, SinMover
  <1> QED BY <1>1, <1>3, <1>5, <1>8, <1>9 DEF IInv, Coherente, Tipos

LEMMA VerREADYIInv ==
  ASSUME IInv, ~nulo, NEW t \in Hilo, VerREADY(t)
  PROVE  IInv'
  <1>1. Tipos /\ Coherente /\ HilosOK /\ hilo[t].p \in Pid
      BY DEF IInv, Tipos, HilosOK
  <1>2. /\ Paso(t, verREADY)
        /\ \/ (cola["RUNNING"] # <<>> \/ cola["READY"] = <<>> \/ pausada) /\ Sigue(t, <<>>)
           \/ cola["RUNNING"] = <<>> /\ cola["READY"] # <<>> /\ Sigue(t, Despachar)
      BY DEF VerREADY, verREADY
  <1>3. UNCHANGED <<cola, contador, pausada, mutex, dispatch, a_kernel, corrio, fin, nulo>>
      BY DEF VerREADY, mando, cpu, historia
  <1>4. Ahora(t) = verREADY
      BY <1>1, <1>2, PrimerPaso
  <1>5. /\ HilosOK' /\ Otros(t)
        /\ \/ Ahora(t)' = soltarMutex /\ (cola["RUNNING"] # <<>> \/ cola["READY"] = <<>> \/ pausada)
           \/ Ahora(t)' = sacarREADY /\ cola["RUNNING"] = <<>> /\ cola["READY"] # <<>>
    <2>1. CASE Sigue(t, Despachar) /\ cola["RUNNING"] = <<>> /\ cola["READY"] # <<>>
        BY <1>1, <1>2, <2>1, PrecedeDespachar, Expande
    <2>2. CASE Sigue(t, <<>>) /\ (cola["RUNNING"] # <<>> \/ cola["READY"] = <<>> \/ pausada)
      <3>1. SigueCon(t, <<>>, hilo[t].p)
          BY <2>2 DEF Sigue
      <3>2. /\ HilosOK' /\ Otros(t)
            /\ Ahora(t)' = <<>> => Ultimo(verREADY)
            /\ Ahora(t)' # <<>> => Encadenados(verREADY, Ahora(t)')
          BY <1>1, <1>2, <3>1, Avanza
      <3>3. ~Ultimo(verREADY)
          BY PasosDistintos DEF Ultimo
      <3> QED BY <2>2, <3>2, <3>3 DEF Encadenados
    <2> QED BY <1>2, <2>1, <2>2
  <1>6. OtrosIgual(t)
      BY <1>5, OtrosNoCambian
  <1>7. /\ Ahora(t) \notin Llevan /\ Ahora(t)' \notin Llevan /\ Ahora(t)' \notin EnCurso
        /\ Ahora(t)' # sacarBLOCKED
        /\ Ahora(t) \in Dentro /\ Ahora(t)' \in Dentro
      BY <1>4, <1>5, PasosDistintos DEF Llevan, EnCurso, Dentro
  <1>8. /\ Ahora(t)' = sacarREADY => cola["RUNNING"] = <<>> /\ cola["READY"] # <<>>
        /\ \/ Mira(t)'
           \/ cola["RUNNING"] # <<>> \/ cola["READY"] = <<>> \/ pausada
      BY <1>5, PasosDistintos DEF Mira
  <1>9. Exclusion'
      BY <1>1, <1>3, <1>6, <1>7, MismaExclusion DEF Coherente
  <1>10. VistoVigente' /\ UnTurno' /\ UnLugar' /\ NuevosSinCorrer' /\ AlguienMira'
      BY <1>1, <1>3, <1>6, <1>7, <1>8, SinMover
  <1> QED BY <1>1, <1>3, <1>5, <1>9, <1>10 DEF IInv, Coherente, Tipos

LEMMA SoltarMutexIInv ==
  ASSUME IInv, ~nulo, NEW t \in Hilo, SoltarMutex(t)
  PROVE  IInv'
  <1>1. Tipos /\ Coherente /\ HilosOK /\ hilo[t].p \in Pid
      BY DEF IInv, Tipos, HilosOK
  <1>2. Paso(t, soltarMutex) /\ SigueCon(t, <<>>, hilo[t].p)
      BY DEF SoltarMutex, Sigue, soltarMutex
  <1>3. mutex' = Nadie /\ UNCHANGED <<cola, contador, pausada, dispatch, a_kernel, corrio, fin, nulo>>
      BY DEF SoltarMutex, mando, cpu, historia
  <1>4. Ahora(t) = soltarMutex
      BY <1>1, <1>2, PrimerPaso
  <1>5. HilosOK' /\ Otros(t) /\ (Toma(t) => Toma(t)') /\ Ahora(t)' \in {<<>>, verNEW}
    <2>1. /\ HilosOK' /\ Otros(t)
          /\ Ahora(t)' # <<>> => Encadenados(soltarMutex, Ahora(t)')
          /\ Toma(t) /\ soltarMutex # tomarMutex => Toma(t)'
        BY <1>1, <1>2, Avanza
    <2> QED BY <2>1, PasosDistintos DEF Encadenados
  <1>6. OtrosIgual(t)
      BY <1>5, OtrosNoCambian
  <1>7. /\ Ahora(t) \notin Llevan /\ Ahora(t)' \notin Llevan /\ Ahora(t)' \notin EnCurso
        /\ Ahora(t)' # sacarREADY /\ Ahora(t)' # sacarBLOCKED
        /\ Ahora(t) \in Dentro /\ Ahora(t)' \notin Dentro
        /\ Mira(t) => Mira(t)'
      BY <1>4, <1>5, PasosDistintos DEF Llevan, EnCurso, Dentro, Mira
  <1>8. Exclusion'
    <2>1. \A u \in Hilo : u # t => Ahora(u) \notin Dentro
        BY <1>1, <1>7 DEF Coherente, Exclusion
    <2> QED BY <1>3, <1>6, <1>7, <2>1, NadieNoEsHilo DEF Exclusion, OtrosIgual
  <1>9. VistoVigente' /\ UnTurno' /\ UnLugar' /\ NuevosSinCorrer' /\ AlguienMira'
      BY <1>1, <1>3, <1>6, <1>7, SinMover
  <1> QED BY <1>1, <1>3, <1>5, <1>8, <1>9 DEF IInv, Coherente, Tipos

-----------------------------------------------------------------------------
(* A step that moves no process and leaves the CPU with one thread, that   *)
(* of before or n, which is not t if it was idle.                          *)
LEMMA CambiaElTurno ==
  ASSUME Coherente, NEW t \in Hilo, NEW n \in Hilo, Ahora(t) \in EnCurso, Ahora(n)' \in EnCurso,
         \A u \in Hilo \ {t, n} : /\ Ahora(u)' = Ahora(u) /\ hilo'[u].p = hilo[u].p
                                  /\ Admite(u)' <=> Admite(u),
         t # n => Ahora(t)' = soltarMutex /\ Ahora(n) = <<>>,
         UNCHANGED <<cola, contador, fin>>
  PROVE  /\ VistoVigente' /\ UnLugar' /\ AlguienMira'
         /\ \A u \in Hilo : Ahora(u)' \in EnCurso => u = n
         /\ \A u \in Hilo : Admite(u)' => Admite(u) /\ hilo'[u].p = hilo[u].p
         /\ cola["RUNNING"] # <<>>
  <1>0. soltarMutex \notin EnCurso /\ soltarMutex \notin Llevan /\ soltarMutex # ponerREADY
        /\ soltarMutex \notin {sacarREADY, ponerRUNNING, sacarBLOCKED}
      BY PasosDistintos DEF EnCurso, Llevan
  <1>1. cola["RUNNING"] # <<>> /\ \A u \in Hilo : Ahora(u) \in EnCurso => u = t
      BY DEF Coherente, UnTurno
  <1>2. \A u \in Hilo : Ahora(u)' \in EnCurso => u = n
      BY <1>0, <1>1
  <1>3. \A u \in {t, n} : /\ Ahora(u)' \notin Llevan /\ Ahora(u) \notin Llevan /\ Ahora(u)' # ponerREADY
                          /\ Ahora(u)' \notin {sacarREADY, ponerRUNNING, sacarBLOCKED}
    <2>1. \A a \in EnCurso : a # ponerREADY
        BY PasosDistintos DEF EnCurso
    <2> QED BY <1>0, <2>1, Paradas
  <1>4. VistoVigente'
      BY <1>3 DEF Coherente, VistoVigente
  <1>5. UnLugar'
    <2>1. \A u \in Hilo : /\ Ahora(u)' \in Llevan <=> Ahora(u) \in Llevan
                          /\ Ahora(u) \in Llevan => hilo'[u].p = hilo[u].p
        BY <1>3
    <2> QED BY <2>1 DEF Coherente, UnLugar, ColasSinRepetir, ManosSinRepetir, ColaOMano, EnColaVivo, EnManoVivo, VivoEsta,
                    Lleva, Esta
  <1>6. \A u \in Hilo : Admite(u)' => Admite(u) /\ hilo'[u].p = hilo[u].p
      BY <1>3 DEF Admite
  <1>7. AlguienMira'
      BY <1>1 DEF AlguienMira
  <1> QED BY <1>1, <1>2, <1>4, <1>5, <1>6, <1>7

(* Whose turn it is has nothing on the sockets or all that there is.       *)
LEMMA Sockets ==
  ASSUME Tipos, UnTurno
  PROVE  /\ Len(dispatch) \in Nat /\ Len(a_kernel) \in Nat /\ Len(cola["RUNNING"]) \in Nat
         /\ dispatch # <<>> => dispatch = <<dispatch[1]>> /\ a_kernel = <<>> /\ Len(cola["RUNNING"]) = 1
         /\ a_kernel # <<>> => dispatch = <<>> /\ Tail(a_kernel) = <<>> /\ Len(cola["RUNNING"]) = 1
  <1>1. cola["RUNNING"] \in Seq(Pid) /\ dispatch \in Seq(Pid) /\ a_kernel \in Seq([motivo: Motivo, pid: Pid])
      BY DEF Tipos, Cola
  <1>2. Len(dispatch) \in Nat /\ Len(a_kernel) \in Nat /\ Len(cola["RUNNING"]) \in Nat
      BY <1>1, LenProperties
  <1>3. \A d, k, r \in Nat : d + k <= r /\ r <= 1 => /\ d # 0 => d = 1 /\ k = 0 /\ r = 1
                                                     /\ k # 0 => d = 0 /\ k = 1 /\ r = 1
      OBVIOUS
  <1>4. Len(dispatch) + Len(a_kernel) <= Len(cola["RUNNING"]) /\ Len(cola["RUNNING"]) <= 1
      BY DEF UnTurno
  <1>5. /\ Len(dispatch) # 0 => Len(dispatch) = 1 /\ Len(a_kernel) = 0 /\ Len(cola["RUNNING"]) = 1
        /\ Len(a_kernel) # 0 => Len(dispatch) = 0 /\ Len(a_kernel) = 1 /\ Len(cola["RUNNING"]) = 1
      BY <1>2, <1>3, <1>4
  <1>6. /\ Len(dispatch) = 0 <=> dispatch = <<>>
        /\ Len(a_kernel) = 0 <=> a_kernel = <<>>
      BY <1>1, EmptySeq
  <1>7. dispatch # <<>> => dispatch = <<dispatch[1]>>
    <2> SUFFICES ASSUME dispatch # <<>> PROVE dispatch = <<dispatch[1]>>
        OBVIOUS
    <2>1. Len(dispatch) = 1 /\ dispatch[1] \in Pid
        BY <1>1, <1>5, <1>6, ElementOfSeq
    <2>2. <<dispatch[1]>> \in Seq(Pid) /\ Len(<<dispatch[1]>>) = 1 /\ <<dispatch[1]>>[1] = dispatch[1]
        BY <2>1, Tupla1
    <2>3. \A i \in 1 .. 1 : i = 1
        OBVIOUS
    <2> QED BY <1>1, <2>1, <2>2, <2>3, SeqEqual
  <1>8. a_kernel # <<>> => Tail(a_kernel) = <<>>
    <2> SUFFICES ASSUME a_kernel # <<>> PROVE Tail(a_kernel) = <<>>
        OBVIOUS
    <2>1. Tail(a_kernel) \in Seq([motivo: Motivo, pid: Pid]) /\ Len(Tail(a_kernel)) = 0
        BY <1>1, <1>5, <1>6, HeadTailProperties
    <2> QED BY <2>1, EmptySeq
  <1> QED BY <1>2, <1>5, <1>6, <1>7, <1>8

LEMMA EnviarIInv ==
  ASSUME IInv, ~nulo, NEW t \in Hilo, Enviar(t)
  PROVE  IInv'
  <1>1. Tipos /\ Coherente /\ HilosOK /\ hilo[t].p \in Pid /\ 0 \in Pid
      BY ConstantesOK DEF IInv, Tipos, HilosOK, Pid
  <1>2. Paso(t, enviar) /\ SigueCon(t, <<>>, 0)
      BY DEF Enviar, enviar
  <1>3. Ahora(t) = enviar
      BY <1>1, <1>2, PrimerPaso
  <1>4. PICK x \in Pid : x = hilo[t].p
      BY <1>1
  <1>5. /\ UNCHANGED <<cola, contador, pausada, mutex, a_kernel, fin, nulo>>
        /\ corrio' = corrio \cup {x} /\ dispatch' = Append(dispatch, x)
      BY <1>4 DEF Enviar, mando
  <1>6. HilosOK' /\ Otros(t) /\ Ahora(t)' = crearHilo
    <2>1. /\ HilosOK' /\ Otros(t)
          /\ Ahora(t)' = <<>> => Ultimo(enviar)
          /\ Ahora(t)' # <<>> => Encadenados(enviar, Ahora(t)')
        BY <1>1, <1>2, Avanza
    <2>2. ~Ultimo(enviar)
        BY PasosDistintos DEF Ultimo
    <2> QED BY <2>1, <2>2 DEF Encadenados
  <1>7. OtrosIgual(t)
      BY <1>6, OtrosNoCambian
  <1>8. /\ Ahora(t) \in EnCurso /\ Ahora(t)' \in EnCurso /\ Ahora(t) \in Dentro /\ Ahora(t)' \in Dentro
        /\ crearHilo \notin {enviar, sacarRUNNING, recibir}
      BY <1>3, <1>6, PasosDistintos DEF EnCurso, Dentro
  <1>9. /\ dispatch = <<>> /\ a_kernel = <<>> /\ x = cola["RUNNING"][1] /\ cola["RUNNING"] # <<>>
        /\ Len(cola["RUNNING"]) <= 1
      BY <1>1, <1>3, <1>4, <1>8 DEF Coherente, UnTurno
  <1>10. dispatch' = <<x>> /\ Len(<<x>>) = 1 /\ <<x>>[1] = x /\ <<x>> \in Seq(Pid)
    <2>1. Append(<<>>, x) = <<x>>
        OBVIOUS
    <2> QED BY <1>5, <1>9, <2>1, Tupla1
  <1>11. Tipos'
    <2>1. corrio' \subseteq Pid
        BY <1>1, <1>5 DEF Tipos
    <2> QED BY <1>1, <1>5, <1>6, <1>10, <2>1 DEF Tipos
  <1>12. Exclusion'
      BY <1>1, <1>5, <1>7, <1>8, MismaExclusion DEF Coherente
  <1>13. /\ VistoVigente' /\ UnLugar' /\ AlguienMira'
         /\ \A u \in Hilo : Ahora(u)' \in EnCurso => u = t
         /\ \A u \in Hilo : Admite(u)' => Admite(u) /\ hilo'[u].p = hilo[u].p
    <2>1. \A u \in Hilo \ {t, t} : /\ Ahora(u)' = Ahora(u) /\ hilo'[u].p = hilo[u].p
                                   /\ Admite(u)' <=> Admite(u)
        BY <1>7 DEF OtrosIgual
    <2> QED BY <1>1, <1>5, <1>8, <2>1, CambiaElTurno
  <1>14. UnTurno'
    <2>1. enviar \in EnCurso /\ sacarRUNNING \in EnCurso /\ recibir \in EnCurso
        BY DEF EnCurso
    <2>2. \A u \in Hilo : Ahora(u)' \notin {enviar, sacarRUNNING, recibir}
        BY <1>6, <1>8, <1>13, <2>1
    <2>3. Len(dispatch') + Len(a_kernel') <= Len(cola'["RUNNING"])
      <3>1. \A r \in Nat : r # 0 => 1 + 0 <= r
          OBVIOUS
      <3>2. Len(cola["RUNNING"]) \in Nat /\ Len(cola["RUNNING"]) # 0 /\ Len(<<>>) = 0
        <4>1. cola["RUNNING"] \in Seq(Pid)
            BY <1>1 DEF Tipos, Cola
        <4> QED BY <1>9, <4>1, LenProperties, EmptySeq
      <3>3. 1 + 0 <= Len(cola["RUNNING"])
          BY <3>1, <3>2
      <3> QED BY <1>5, <1>9, <1>10, <3>2, <3>3
    <2>4. \A i \in 1 .. Len(dispatch') : dispatch'[i] = cola'["RUNNING"][1]
      <3>1. \A i \in 1 .. 1 : i = 1
          OBVIOUS
      <3> QED BY <1>5, <1>9, <1>10, <3>1
    <2>5. \A i \in 1 .. Len(a_kernel') : a_kernel'[i].pid = cola'["RUNNING"][1]
        BY <1>5, <1>9
    <2>6. Len(cola'["RUNNING"]) <= 1 /\ cola'["RUNNING"] # <<>>
        BY <1>5, <1>9
    <2> QED BY <1>13, <2>2, <2>3, <2>4, <2>5, <2>6 DEF UnTurno
  <1>15. NuevosSinCorrer'
    <2>1. "RUNNING" \in Cola /\ "NEW" \in Cola /\ 1 \in 1 .. Len(cola["RUNNING"]) /\ "RUNNING" # "NEW"
      <3>1. Len(cola["RUNNING"]) \in Nat \ {0}
        <4>1. cola["RUNNING"] \in Seq(Pid)
            BY <1>1 DEF Tipos, Cola
        <4> QED BY <1>9, <4>1, LenProperties, EmptySeq
      <3>2. \A k \in Nat \ {0} : 1 \in 1 .. k
          OBVIOUS
      <3>3. 1 \in 1 .. Len(cola["RUNNING"])
          BY <3>1, <3>2
      <3> QED BY <3>3 DEF Cola
    <2>2. Esta(x, cola["RUNNING"]) /\ x < contador
        BY <1>1, <1>9, <2>1 DEF Esta, Coherente, UnLugar, EnColaVivo
    <2>3. ~Esta(x, cola["NEW"])
        BY <1>1, <1>9, <2>1 DEF Esta, Coherente, UnLugar, ColasSinRepetir
    <2>4. \A u \in Hilo : Admite(u) => hilo[u].p # x
      <3>1. \A u \in Hilo : Admite(u) => Ahora(u) \in Llevan
          BY DEF Admite, Llevan
      <3> QED BY <1>1, <2>1, <2>2, <3>1 DEF Coherente, UnLugar, ColaOMano
    <2>5. \A p \in corrio' : p < contador /\ ~Esta(p, cola["NEW"])
        BY <1>1, <1>5, <2>2, <2>3 DEF Coherente, NuevosSinCorrer
    <2> QED BY <1>1, <1>5, <1>13, <2>4, <2>5 DEF Coherente, NuevosSinCorrer, Esta
  <1> QED BY <1>11, <1>12, <1>13, <1>14, <1>15 DEF IInv, Coherente

(* The step that a thread leaves behind, when it changes nothing else but  *)
(* the id.                                                                 *)
LEMMA RestoInicial ==
  ASSUME HilosOK, NEW t \in Hilo, NEW s, Paso(t, s), ~Ultimo(s)
  PROVE  Inicial(Tail(hilo[t].pila)) /\ Encadenados(s, Tail(hilo[t].pila)[1])
  <1>1. hilo[t].pila \in Seq(Pasos) /\ Encadenada(hilo[t].pila) /\ hilo[t].pila # <<>>
      BY PrimerPaso
  <1>2. Tail(hilo[t].pila) \in Seq(Pasos) /\ Encadenada(Tail(hilo[t].pila))
      BY <1>1, RestoEncadenado
  <1>3. Len(Tail(hilo[t].pila)) \in Nat /\ Len(Tail(hilo[t].pila)) # 0
      BY Siguiente
  <1>4. Len(Tail(hilo[t].pila)) > 0 /\ Tail(hilo[t].pila) # <<>>
    <2>1. \A n \in Nat : n # 0 => n > 0
        OBVIOUS
    <2> QED BY <1>2, <1>3, <2>1, EmptySeq
  <1> QED BY <1>2, <1>4, Siguiente DEF Inicial

LEMMA CrearHiloIInv ==
  ASSUME IInv, ~nulo, NEW t \in Hilo, CrearHilo(t)
  PROVE  IInv'
  <1>1. Tipos /\ Coherente /\ HilosOK
      BY DEF IInv, Tipos
  <1>2. Paso(t, crearHilo)
      BY DEF CrearHilo, crearHilo
  <1>3. UNCHANGED <<cola, contador, pausada, mutex, dispatch, a_kernel, corrio, fin, nulo>>
      BY DEF CrearHilo, mando, cpu, historia
  <1>4. PICK n \in Hilo : /\ hilo[n] = Ociosa
                          /\ hilo' = [hilo EXCEPT ![t].pila = Tail(@), ![n].pila = atender_respuesta_proceso]
      BY DEF CrearHilo, Hilo
  <1>5. Ahora(t) = crearHilo /\ hilo[t].pila # <<>>
      BY <1>1, <1>2, PrimerPaso
  <1>6. Ahora(n) = <<>> /\ t # n
      BY <1>4, <1>5 DEF Ahora, Ociosa
  <1>7. Inicial(Tail(hilo[t].pila)) /\ Tail(hilo[t].pila)[1] = soltarMutex
    <2>1. ~Ultimo(crearHilo)
        BY PasosDistintos DEF Ultimo
    <2> QED BY <1>1, <1>2, <2>1, RestoInicial DEF Encadenados
  <1>8. Inicial(atender_respuesta_proceso) /\ atender_respuesta_proceso[1] = mirarRUNNING
      BY Iniciales, Cuerpos, SonPasos, Tupla2
  <1>9. /\ hilo'[t].pila = Tail(hilo[t].pila) /\ hilo'[n].pila = atender_respuesta_proceso
        /\ \A u \in Hilo \ {t, n} : hilo'[u] = hilo[u]
        /\ hilo' \in [Hilo -> [pila: Seq(Pasos), p: Pid, id: Pid]]
      BY <1>1, <1>4, <1>6, <1>7, <1>8 DEF HilosOK, Inicial
  <1>10. HilosOK'
    <2>1. \A u \in Hilo : Encadenada(hilo'[u].pila)
        BY <1>1, <1>7, <1>8, <1>9 DEF HilosOK, Inicial
    <2> QED BY <1>9, <2>1 DEF HilosOK
  <1>11. Ahora(t)' = soltarMutex /\ Ahora(n)' = mirarRUNNING
      BY <1>7, <1>8, <1>9 DEF Ahora, Inicial
  <1>12. \A u \in Hilo \ {t, n} : /\ Ahora(u)' = Ahora(u) /\ hilo'[u].p = hilo[u].p
                                  /\ Admite(u)' <=> Admite(u)
      BY <1>9 DEF Ahora, Admite
  <1>13. Tipos'
      BY <1>1, <1>3, <1>10 DEF Tipos
  <1>14. /\ Ahora(t) \in EnCurso /\ Ahora(n)' \in EnCurso /\ Ahora(t) \in Dentro /\ Ahora(t)' \in Dentro
         /\ Ahora(n) \notin Dentro /\ Ahora(n)' \notin Dentro
      BY <1>5, <1>6, <1>11, PasosDistintos DEF EnCurso, Dentro
  <1>15. Exclusion'
      BY <1>1, <1>3, <1>12, <1>14 DEF Coherente, Exclusion
  <1>16. /\ VistoVigente' /\ UnLugar' /\ AlguienMira'
         /\ \A u \in Hilo : Ahora(u)' \in EnCurso => u = n
         /\ \A u \in Hilo : Admite(u)' => Admite(u) /\ hilo'[u].p = hilo[u].p
         /\ cola["RUNNING"] # <<>>
      BY <1>1, <1>3, <1>6, <1>11, <1>12, <1>14, CambiaElTurno
  <1>17. UnTurno'
    <2>1. enviar \in EnCurso /\ sacarRUNNING \in EnCurso /\ recibir \in EnCurso
        BY DEF EnCurso
    <2>2. \A u \in Hilo : Ahora(u)' \notin {enviar, sacarRUNNING, recibir}
        BY <1>11, <1>16, <2>1, PasosDistintos
    <2> QED BY <1>1, <1>3, <1>16, <2>2 DEF Coherente, UnTurno
  <1>18. NuevosSinCorrer'
      BY <1>1, <1>3, <1>16 DEF Coherente, NuevosSinCorrer, Esta
  <1> QED BY <1>13, <1>15, <1>16, <1>17, <1>18 DEF IInv, Coherente

LEMMA MirarRUNNINGIInv ==
  ASSUME IInv, ~nulo, NEW t \in Hilo, MirarRUNNING(t)
  PROVE  IInv'
  <1>1. Tipos /\ Coherente /\ HilosOK /\ "RUNNING" \in Cola
      BY DEF IInv, Tipos, Cola
  <1>2. Paso(t, mirarRUNNING)
      BY DEF MirarRUNNING, mirarRUNNING
  <1>3. UNCHANGED <<cola, contador, pausada, mutex, dispatch, a_kernel, corrio, fin, nulo>>
      BY DEF MirarRUNNING, mando, cpu, historia
  <1>4. Ahora(t) = mirarRUNNING
      BY <1>1, <1>2, PrimerPaso
  <1>5. PICK x \in Pid : x = Primero("RUNNING")
      BY <1>1, PrimeroEsPid
  <1>6. PICK pasos : pasos = Tail(hilo[t].pila)
      OBVIOUS
  <1>7. Inicial(pasos) /\ pasos[1] = recibir
    <2>1. ~Ultimo(mirarRUNNING)
        BY PasosDistintos DEF Ultimo
    <2> QED BY <1>1, <1>2, <1>6, <2>1, RestoInicial DEF Encadenados
  <1>8. hilo' = [hilo EXCEPT ![t].pila = pasos, ![t].id = x]
      BY <1>1, <1>5, <1>6 DEF MirarRUNNING, HilosOK
  <1>9. HilosOK' /\ Otros(t) /\ Ahora(t)' = recibir /\ hilo'[t].id = x
      BY <1>1, <1>7, <1>8, Empieza
  <1>10. OtrosIgual(t)
      BY <1>9, OtrosNoCambian
  <1>11. /\ Ahora(t) \in EnCurso /\ Ahora(t)' \in EnCurso /\ Ahora(t) \notin Dentro /\ Ahora(t)' \notin Dentro
         /\ recibir \notin {enviar, sacarRUNNING}
      BY <1>4, <1>9, PasosDistintos DEF EnCurso, Dentro
  <1>12. Tipos'
      BY <1>1, <1>3, <1>9 DEF Tipos
  <1>13. Exclusion'
      BY <1>1, <1>3, <1>10, <1>11, MismaExclusion DEF Coherente
  <1>14. /\ VistoVigente' /\ UnLugar' /\ AlguienMira'
         /\ \A u \in Hilo : Ahora(u)' \in EnCurso => u = t
         /\ \A u \in Hilo : Admite(u)' => Admite(u) /\ hilo'[u].p = hilo[u].p
         /\ cola["RUNNING"] # <<>>
    <2>1. \A u \in Hilo \ {t, t} : /\ Ahora(u)' = Ahora(u) /\ hilo'[u].p = hilo[u].p
                                   /\ Admite(u)' <=> Admite(u)
        BY <1>10 DEF OtrosIgual
    <2> QED BY <1>1, <1>3, <1>11, <2>1, CambiaElTurno
  <1>15. x = cola["RUNNING"][1]
    <2>1. cola["RUNNING"] \in Seq(Pid)
        BY <1>1 DEF Tipos
    <2> QED BY <1>1, <1>5, <1>14, <2>1, PrimeroEsPid, HeadTailProperties
  <1>16. UnTurno'
    <2>1. enviar \in EnCurso /\ sacarRUNNING \in EnCurso
        BY DEF EnCurso
    <2>2. \A u \in Hilo : Ahora(u)' \notin {enviar, sacarRUNNING}
        BY <1>9, <1>11, <1>14, <2>1
    <2>3. recibir \in EnCurso
        BY DEF EnCurso
    <2> QED BY <1>1, <1>3, <1>9, <1>14, <1>15, <2>2, <2>3 DEF Coherente, UnTurno
  <1>17. NuevosSinCorrer'
      BY <1>1, <1>3, <1>14 DEF Coherente, NuevosSinCorrer, Esta
  <1> QED BY <1>12, <1>13, <1>14, <1>16, <1>17 DEF IInv, Coherente

LEMMA RecibirIInv ==
  ASSUME IInv, ~nulo, NEW t \in Hilo, Recibir(t)
  PROVE  IInv'
  <1>1. Tipos /\ Coherente /\ HilosOK /\ 0 \in Pid
      BY ConstantesOK DEF IInv, Tipos, Pid
  <1>2. Paso(t, recibir) /\ a_kernel # <<>>
      BY DEF Recibir, recibir
  <1>3. /\ UNCHANGED <<cola, contador, pausada, mutex, dispatch, corrio, fin, nulo>>
        /\ a_kernel' = Tail(a_kernel)
      BY DEF Recibir, mando, historia
  <1>4. Ahora(t) = recibir
      BY <1>1, <1>2, PrimerPaso
  <1>5. a_kernel' = <<>> /\ dispatch = <<>> /\ Len(cola["RUNNING"]) = 1
      BY <1>1, <1>2, <1>3, Sockets DEF Coherente
  <1>6. PICK m \in Motivo : m = Head(a_kernel).motivo
    <2>1. Head(a_kernel) \in [motivo: Motivo, pid: Pid]
        BY <1>1, <1>2, HeadTailProperties DEF Tipos
    <2> QED BY <2>1
  <1>7. PICK pasos : pasos = Atender[m]
      OBVIOUS
  <1>8. pasos \in {evaluar_EXEC_a_EXIT, evaluar_EXEC_a_READY, evaluar_EXEC_a_BLOCKED}
      BY <1>7 DEF Atender, Motivo
  <1>9. Inicial(pasos) /\ pasos[1] = sacarRUNNING
    <2>1. /\ evaluar_EXEC_a_READY[1] = sacarRUNNING /\ evaluar_EXEC_a_BLOCKED[1] = sacarRUNNING
          /\ evaluar_EXEC_a_EXIT[1] = sacarRUNNING
      <3>1. \A a, b, c : <<a, b, c>>[1] = a
          OBVIOUS
      <3>2. \A a, b, c, d : <<a, b, c, d>>[1] = a
          OBVIOUS
      <3> QED BY <3>1, <3>2, Cuerpos
    <2>2. CASE pasos = evaluar_EXEC_a_EXIT
        BY <2>1, <2>2, Iniciales
    <2>3. CASE pasos = evaluar_EXEC_a_READY
        BY <2>1, <2>3, Iniciales
    <2>4. CASE pasos = evaluar_EXEC_a_BLOCKED
        BY <2>1, <2>4, Iniciales
    <2> QED BY <1>8, <2>2, <2>3, <2>4
  <1>10. hilo' = [hilo EXCEPT ![t].pila = pasos, ![t].id = 0]
      BY <1>6, <1>7 DEF Recibir
  <1>11. HilosOK' /\ Otros(t) /\ Ahora(t)' = sacarRUNNING
      BY <1>1, <1>9, <1>10, Empieza
  <1>12. OtrosIgual(t)
      BY <1>11, OtrosNoCambian
  <1>13. /\ Ahora(t) \in EnCurso /\ Ahora(t)' \in EnCurso /\ Ahora(t) \notin Dentro /\ Ahora(t)' \notin Dentro
         /\ sacarRUNNING \notin {enviar, recibir}
      BY <1>4, <1>11, PasosDistintos DEF EnCurso, Dentro
  <1>14. Tipos'
    <2>1. <<>> \in Seq([motivo: Motivo, pid: Pid])
        OBVIOUS
    <2> QED BY <1>1, <1>3, <1>5, <1>11, <2>1 DEF Tipos
  <1>15. Exclusion'
      BY <1>1, <1>3, <1>12, <1>13, MismaExclusion DEF Coherente
  <1>16. /\ VistoVigente' /\ UnLugar' /\ AlguienMira'
         /\ \A u \in Hilo : Ahora(u)' \in EnCurso => u = t
         /\ \A u \in Hilo : Admite(u)' => Admite(u) /\ hilo'[u].p = hilo[u].p
         /\ cola["RUNNING"] # <<>>
    <2>1. \A u \in Hilo \ {t, t} : /\ Ahora(u)' = Ahora(u) /\ hilo'[u].p = hilo[u].p
                                   /\ Admite(u)' <=> Admite(u)
        BY <1>12 DEF OtrosIgual
    <2> QED BY <1>1, <1>3, <1>13, <2>1, CambiaElTurno
  <1>17. UnTurno'
    <2>1. enviar \in EnCurso /\ recibir \in EnCurso
        BY DEF EnCurso
    <2>2. \A u \in Hilo : Ahora(u)' \notin {enviar, recibir}
        BY <1>11, <1>13, <1>16, <2>1
    <2>3. Len(cola'["RUNNING"]) <= 1 /\ Len(dispatch') + Len(a_kernel') <= Len(cola'["RUNNING"])
      <3>1. Len(<<>>) + Len(<<>>) <= 1 /\ 1 <= 1
          OBVIOUS
      <3> QED BY <1>3, <1>5, <3>1
    <2>4. dispatch' = <<>> /\ a_kernel' = <<>> /\ cola'["RUNNING"] # <<>>
        BY <1>3, <1>5, <1>16
    <2>5. (\A i \in 1 .. Len(dispatch') : FALSE) /\ (\A i \in 1 .. Len(a_kernel') : FALSE)
        BY <2>4
    <2> QED BY <1>16, <2>2, <2>3, <2>4, <2>5 DEF UnTurno
  <1>18. NuevosSinCorrer'
      BY <1>1, <1>3, <1>16 DEF Coherente, NuevosSinCorrer, Esta
  <1> QED BY <1>14, <1>15, <1>16, <1>17, <1>18 DEF IInv, Coherente

-----------------------------------------------------------------------------
(* An idle thread is nowhere.                                              *)
LEMMA Desocupado ==
  ASSUME NEW t \in Hilo, hilo[t] = Ociosa
  PROVE  Ahora(t) = <<>> /\ ~Toma(t) /\ ~Mira(t)
  <1>1. hilo[t].pila = <<>> /\ Len(<<>>) = 0
      BY DEF Ociosa
  <1>2. Ahora(t) = <<>> /\ ~Toma(t)
      BY <1>1 DEF Ahora, Toma
  <1>3. <<>> \notin {verREADY, sacarREADY, ponerRUNNING}
      BY PasosDistintos
  <1> QED BY <1>2, <1>3 DEF Mira

(* A thread that was idle gets a function to run.                          *)
LEMMA EmpiezaFuncion ==
  ASSUME HilosOK, NEW t \in Hilo, NEW pasos, Inicial(pasos), hilo' = [hilo EXCEPT ![t].pila = pasos]
  PROVE  HilosOK' /\ OtrosIgual(t) /\ hilo'[t].pila = pasos /\ Ahora(t)' = pasos[1]
  <1>1. PICK x \in Pid : x = hilo[t].id
      BY DEF HilosOK
  <1>2. hilo' = [hilo EXCEPT ![t].pila = pasos, ![t].id = x]
      BY <1>1 DEF HilosOK
  <1>3. HilosOK' /\ Otros(t) /\ hilo'[t].pila = pasos /\ Ahora(t)' = pasos[1]
      BY <1>2, Empieza
  <1> QED BY <1>3, OtrosNoCambian

LEMMA RespuestaIOIInv ==
  ASSUME IInv, ~nulo, RespuestaIO
  PROVE  IInv'
  <1>1. Tipos /\ Coherente /\ HilosOK /\ interfaz \in Hilo
      BY DEF IInv, Tipos, Hilo
  <1>2. /\ hilo[interfaz] = Ociosa /\ cola["BLOCKED"] # <<>>
        /\ UNCHANGED <<cola, contador, pausada, mutex, dispatch, a_kernel, corrio, fin, nulo>>
      BY DEF RespuestaIO, mando, cpu, historia
  <1>3. PICK pasos \in {evaluar_BLOCKED_a_READY \o evaluar_READY_a_EXEC, evaluar_BLOCKED_a_EXIT} :
          hilo' = [hilo EXCEPT ![interfaz].pila = pasos]
      BY DEF RespuestaIO
  <1>4. Inicial(pasos) /\ pasos[1] = sacarBLOCKED
    <2>1. (\A a, b, c : <<a, b, c>>[1] = a) /\ (\A a, b : <<a, b>>[1] = a)
        OBVIOUS
    <2>2. /\ (evaluar_BLOCKED_a_READY \o evaluar_READY_a_EXEC)[1] = sacarBLOCKED
          /\ evaluar_BLOCKED_a_EXIT[1] = sacarBLOCKED
      <3>1. evaluar_BLOCKED_a_READY \o evaluar_READY_a_EXEC = <<sacarBLOCKED, ponerREADY, tomarMutex>>
          BY Cuerpos
      <3>2. evaluar_BLOCKED_a_EXIT = <<sacarBLOCKED, terminar>>
          BY Cuerpos
      <3> QED BY <2>1, <3>1, <3>2
    <2>3. CASE pasos = evaluar_BLOCKED_a_READY \o evaluar_READY_a_EXEC
        BY <2>2, <2>3, Iniciales
    <2>4. CASE pasos = evaluar_BLOCKED_a_EXIT
        BY <2>2, <2>4, Iniciales
    <2> QED BY <2>3, <2>4
  <1>5. HilosOK' /\ OtrosIgual(interfaz) /\ Ahora(interfaz)' = sacarBLOCKED
      BY <1>1, <1>3, <1>4, EmpiezaFuncion
  <1>6. Ahora(interfaz) = <<>> /\ ~Mira(interfaz)
      BY <1>1, <1>2, Desocupado
  <1>7. /\ Ahora(interfaz) \notin Llevan /\ Ahora(interfaz)' \notin Llevan /\ Ahora(interfaz)' \notin EnCurso
        /\ Ahora(interfaz)' # sacarREADY /\ Ahora(interfaz) \notin Dentro /\ Ahora(interfaz)' \notin Dentro
      BY <1>5, <1>6, PasosDistintos DEF Llevan, EnCurso, Dentro
  <1>8. Exclusion'
      BY <1>1, <1>2, <1>5, <1>7, MismaExclusion DEF Coherente
  <1>9. VistoVigente' /\ UnTurno' /\ UnLugar' /\ NuevosSinCorrer' /\ AlguienMira'
    <2>1. \/ pausada' /\ pausada' \in BOOLEAN
          \/ Mira(interfaz)'
          \/ UNCHANGED pausada /\ (Mira(interfaz) => cola["RUNNING"] # <<>> \/ cola["READY"] = <<>> \/ pausada)
        BY <1>2, <1>6
    <2>2. UNCHANGED <<cola, contador, dispatch, a_kernel, corrio, fin>>
        BY <1>2
    <2> QED BY <1>1, <1>2, <1>5, <1>7, <2>1, <2>2, SinMover
  <1> QED BY <1>1, <1>2, <1>5, <1>8, <1>9 DEF IInv, Coherente, Tipos

(* The console, which plans or not, and pauses or not.                     *)
LEMMA ComandoIInv ==
  ASSUME IInv, ~nulo, NEW pasos, Comando(pasos), UNCHANGED <<cola, contador>>, pausada' \in BOOLEAN,
         \/ pasos = <<>> /\ pausada'
         \/ pasos = evaluar_NEW_a_READY /\ UNCHANGED pausada
         \/ pasos = evaluar_NEW_a_READY \o evaluar_READY_a_EXEC
  PROVE  IInv'
  <1>1. Tipos /\ Coherente /\ HilosOK /\ consola \in Hilo
      BY DEF IInv, Tipos, Hilo
  <1>2. /\ hilo[consola] = Ociosa /\ hilo' = [hilo EXCEPT ![consola].pila = pasos]
        /\ UNCHANGED <<cola, contador, mutex, dispatch, a_kernel, corrio, fin, nulo>>
      BY DEF Comando, cpu, historia
  <1>3. Ahora(consola) = <<>> /\ ~Mira(consola)
      BY <1>1, <1>2, Desocupado
  <1>4. /\ HilosOK' /\ OtrosIgual(consola) /\ Ahora(consola)' \in {<<>>, verNEW}
        /\ pausada' \/ Mira(consola)' \/ UNCHANGED pausada
    <2>1. CASE pasos = <<>> /\ pausada'
      <3>1. hilo' = hilo
          BY <1>1, <1>2, <2>1 DEF HilosOK, Ociosa
      <3>2. \A u \in Hilo : /\ Ahora(u)' = Ahora(u) /\ (Admite(u)' <=> Admite(u)) /\ (Toma(u)' <=> Toma(u))
                            /\ hilo'[u].p = hilo[u].p /\ hilo'[u].id = hilo[u].id
          BY <3>1 DEF Ahora, Admite, Toma
      <3>3. HilosOK'
          BY <1>1, <3>1 DEF HilosOK
      <3> QED BY <1>1, <1>3, <2>1, <3>2, <3>3 DEF OtrosIgual
    <2>2. CASE pasos = evaluar_NEW_a_READY /\ UNCHANGED pausada
      <3>1. evaluar_NEW_a_READY[1] = verNEW
        <4>1. \A a : <<a>>[1] = a
            OBVIOUS
        <4> QED BY <4>1, Cuerpos
      <3>2. Inicial(pasos) /\ pasos[1] = verNEW
          BY <2>2, <3>1, Iniciales
      <3> QED BY <1>1, <1>2, <2>2, <3>2, EmpiezaFuncion
    <2>3. CASE pasos = evaluar_NEW_a_READY \o evaluar_READY_a_EXEC
      <3>1. Inicial(pasos) /\ pasos = <<verNEW, tomarMutex>>
          BY <2>3, Iniciales, Cuerpos
      <3>2. \A a, b : <<a, b>>[1] = a /\ <<a, b>>[2] = b /\ Len(<<a, b>>) = 2
          OBVIOUS
      <3>3. pasos[1] = verNEW /\ pasos[2] = tomarMutex /\ Len(pasos) = 2
          BY <3>1, <3>2
      <3>4. HilosOK' /\ OtrosIgual(consola) /\ Ahora(consola)' = verNEW /\ hilo'[consola].pila = pasos
          BY <1>1, <1>2, <3>1, <3>3, EmpiezaFuncion
      <3>5. Toma(consola)'
        <4>1. 2 \in 1 .. Len(pasos)
            BY <3>3
        <4> QED BY <3>3, <3>4, <4>1 DEF Toma
      <3> QED BY <3>4, <3>5 DEF Mira
    <2> QED BY <2>1, <2>2, <2>3
  <1>5. /\ Ahora(consola) \notin Llevan /\ Ahora(consola)' \notin Llevan /\ Ahora(consola)' \notin EnCurso
        /\ Ahora(consola)' # sacarREADY /\ Ahora(consola)' # sacarBLOCKED
        /\ Ahora(consola) \notin Dentro /\ Ahora(consola)' \notin Dentro
      BY <1>3, <1>4, PasosDistintos DEF Llevan, EnCurso, Dentro
  <1>6. Exclusion'
      BY <1>1, <1>2, <1>4, <1>5, MismaExclusion DEF Coherente
  <1>7. VistoVigente' /\ UnTurno' /\ UnLugar' /\ NuevosSinCorrer' /\ AlguienMira'
    <2>1. \/ pausada' /\ pausada' \in BOOLEAN
          \/ Mira(consola)'
          \/ UNCHANGED pausada /\ (Mira(consola) => cola["RUNNING"] # <<>> \/ cola["READY"] = <<>> \/ pausada)
        BY <1>3, <1>4
    <2>2. UNCHANGED <<cola, contador, dispatch, a_kernel, corrio, fin>>
        BY <1>2
    <2> QED BY <1>1, <1>4, <1>5, <2>1, <2>2, SinMover
  <1> QED BY <1>1, <1>2, <1>4, <1>6, <1>7 DEF IInv, Coherente, Tipos

LEMMA IniciarProcesoIInv ==
  ASSUME IInv, ~nulo, IniciarProceso
  PROVE  IInv'
  <1>1. /\ Tipos /\ Coherente /\ HilosOK /\ cola \in [Cola -> Seq(Pid)]
        /\ "NEW" \in Cola /\ "READY" \in Cola /\ "RUNNING" \in Cola /\ "BLOCKED" \in Cola
      BY DEF IInv, Tipos, Cola
  <1>2. /\ contador < CantPids /\ contador' = contador + 1
        /\ hilo[consola] = Ociosa /\ hilo' = [hilo EXCEPT ![consola].pila = <<>>]
        /\ UNCHANGED <<pausada, mutex, dispatch, a_kernel, corrio, fin, nulo>>
      BY DEF IniciarProceso, Comando, cpu, historia
  <1>3. hilo' = hilo
      BY <1>1, <1>2 DEF HilosOK, Ociosa, Hilo
  <1>4. PICK x \in Pid : x = contador
      BY <1>1, <1>2, ConstantesOK DEF Tipos, Pid
  <1>5. x \in Nat /\ contador' = x + 1 /\ contador' \in 0 .. CantPids /\ Pid \subseteq Int
      BY <1>1, <1>2, <1>4, ConstantesOK DEF Tipos, Pid
  <1>6. PICK a \in Seq(Pid) : a = cola["NEW"]
      BY <1>1
  <1>7. PICK b : b = Append(a, x)
      OBVIOUS
  <1>8. cola' = [cola EXCEPT !["NEW"] = b]
      BY <1>4, <1>6, <1>7 DEF IniciarProceso
  <1>9. /\ b \in Seq(Pid) /\ Len(a) \in Nat /\ Len(b) = Len(a) + 1 /\ b[Len(b)] = x
        /\ \A i \in 1 .. Len(a) : b[i] = a[i]
      BY <1>7, AppendProperties, LenProperties
  <1>10. /\ cola'["NEW"] = b /\ \A r \in Cola : r # "NEW" => cola'[r] = cola[r]
         /\ cola' \in [Cola -> Seq(Pid)]
      BY <1>1, <1>8, <1>9
  <1>11. PICK q \in Cola : q = "NEW"
      BY <1>1
  <1>12. /\ cola[q] = a /\ cola'[q] = b /\ \A r \in Cola : r # q => cola'[r] = cola[r]
         /\ cola'["READY"] = cola["READY"] /\ cola'["RUNNING"] = cola["RUNNING"] /\ cola'["BLOCKED"] = cola["BLOCKED"]
    <2>1. "READY" # "NEW" /\ "RUNNING" # "NEW" /\ "BLOCKED" # "NEW"
        OBVIOUS
    <2> QED BY <1>1, <1>6, <1>10, <1>11, <2>1
  <1>13. Tipos'
    <2>1. HilosOK'
        BY <1>1, <1>3 DEF HilosOK
    <2> QED BY <1>1, <1>2, <1>5, <1>10, <2>1 DEF Tipos
  <1>14. ASSUME NEW u \in Hilo
         PROVE  /\ Ahora(u)' = Ahora(u) /\ (Admite(u)' <=> Admite(u)) /\ (Mira(u)' <=> Mira(u))
                /\ hilo'[u] = hilo[u]
      BY <1>3 DEF Ahora, Admite, Mira, Toma
  <1>15. Exclusion' /\ VistoVigente'
      BY <1>1, <1>2, <1>12, <1>14 DEF Coherente, Exclusion, VistoVigente
  <1>16. UnTurno'
      BY <1>1, <1>2, <1>12, <1>14 DEF Coherente, UnTurno
  <1>17. ASSUME NEW r \in Cola, NEW i \in 1 .. Len(cola'[r])
         PROVE  \/ i \in 1 .. Len(cola[r]) /\ cola'[r][i] = cola[r][i]
                \/ r = q /\ i = Len(b) /\ cola'[r][i] = x
      BY <1>9, <1>12
  <1>18. \A p : \A r \in Cola : Esta(p, cola'[r]) => Esta(p, cola[r]) \/ (r = q /\ p = x)
      BY <1>17 DEF Esta
  <1>19. \A p : \A r \in Cola : Esta(p, cola[r]) => Esta(p, cola'[r])
    <2> SUFFICES ASSUME NEW p, NEW r \in Cola, NEW i \in 1 .. Len(cola[r]), cola[r][i] = p
                 PROVE  Esta(p, cola'[r])
        BY DEF Esta
    <2>1. i \in 1 .. Len(cola'[r]) /\ cola'[r][i] = cola[r][i]
        BY <1>9, <1>12
    <2> QED BY <2>1 DEF Esta
  <1>20. /\ \A r \in Cola : \A i \in 1 .. Len(cola[r]) : cola[r][i] # x
         /\ \A u \in Hilo : Ahora(u) \in Llevan => hilo[u].p # x
         /\ x \notin fin /\ x \notin corrio
    <2>1. ~(x < contador)
        BY <1>4, <1>5
    <2> QED BY <1>1, <2>1 DEF Coherente, UnLugar, EnColaVivo, EnManoVivo, NuevosSinCorrer
  <1>21. /\ x < contador' /\ \A p \in Pid : p < contador => p < contador'
         /\ \A p \in Pid : p < contador' => p < contador \/ p = x
      BY <1>4, <1>5
  <1>22. UnLugar'
    <2>1. ColasSinRepetir'
      <3> SUFFICES ASSUME NEW r \in Cola, NEW s \in Cola, NEW i \in 1 .. Len(cola'[r]),
                          NEW j \in 1 .. Len(cola'[s]), cola'[r][i] = cola'[s][j]
                   PROVE  r = s /\ i = j
          BY DEF ColasSinRepetir
      <3>1. CASE i \in 1 .. Len(cola[r]) /\ cola'[r][i] = cola[r][i] /\ j \in 1 .. Len(cola[s]) /\ cola'[s][j] = cola[s][j]
        <4>1. ColasSinRepetir
            BY <1>1 DEF Coherente, UnLugar
        <4>2. i \in 1 .. Len(cola[r]) /\ j \in 1 .. Len(cola[s]) /\ cola[r][i] = cola[s][j]
            BY <3>1
        <4> QED BY <4>1, <4>2 DEF ColasSinRepetir
      <3>2. CASE i \in 1 .. Len(cola[r]) /\ cola'[r][i] = cola[r][i] /\ cola'[s][j] = x
          BY <1>20, <3>2
      <3>3. CASE cola'[r][i] = x /\ j \in 1 .. Len(cola[s]) /\ cola'[s][j] = cola[s][j]
          BY <1>20, <3>3
      <3> QED BY <1>17, <3>1, <3>2, <3>3
    <2>2. ManosSinRepetir'
        BY <1>1, <1>14 DEF Coherente, UnLugar, ManosSinRepetir
    <2>3. ColaOMano'
        BY <1>1, <1>14, <1>18, <1>20 DEF Coherente, UnLugar, ColaOMano
    <2>4. EnColaVivo'
      <3> SUFFICES ASSUME NEW r \in Cola, NEW i \in 1 .. Len(cola'[r])
                   PROVE  cola'[r][i] < contador' /\ cola'[r][i] \notin fin
          BY <1>2 DEF EnColaVivo
      <3>1. CASE cola'[r][i] = x
          BY <1>20, <1>21, <3>1
      <3>2. CASE i \in 1 .. Len(cola[r]) /\ cola'[r][i] = cola[r][i]
        <4>1. cola[r][i] \in Pid
            BY <1>1, <3>2, ElementOfSeq
        <4>2. cola[r][i] < contador /\ cola[r][i] \notin fin
            BY <1>1, <3>2 DEF Coherente, UnLugar, EnColaVivo
        <4> QED BY <1>21, <3>2, <4>1, <4>2
      <3> QED BY <1>17, <3>1, <3>2
    <2>5. EnManoVivo'
      <3>1. \A u \in Hilo : hilo[u].p \in Pid
          BY <1>1 DEF HilosOK
      <3> QED BY <1>1, <1>2, <1>14, <1>21, <3>1 DEF Coherente, UnLugar, EnManoVivo
    <2>6. VivoEsta'
      <3> SUFFICES ASSUME NEW p \in Pid, p < contador', p \notin fin
                   PROVE  (\E r \in Cola : Esta(p, cola'[r])) \/ (\E u \in Hilo : Lleva(u, p)')
          BY <1>2 DEF VivoEsta
      <3>1. CASE p = x
        <4>1. Len(b) \in 1 .. Len(b)
            BY <1>9
        <4> QED BY <1>9, <1>12, <3>1, <4>1 DEF Esta
      <3>2. CASE p < contador
        <4>1. ASSUME NEW u \in Hilo, Lleva(u, p) PROVE Lleva(u, p)'
            BY <1>14, <4>1 DEF Lleva
        <4> QED BY <1>1, <1>19, <3>2, <4>1 DEF Coherente, UnLugar, VivoEsta
      <3> QED BY <1>21, <3>1, <3>2
    <2> QED BY <2>1, <2>2, <2>3, <2>4, <2>5, <2>6 DEF UnLugar
  <1>23. NuevosSinCorrer'
    <2>1. corrio \subseteq Pid /\ fin \subseteq Pid
        BY <1>1 DEF Tipos
    <2>2. \A p \in corrio : p < contador' /\ ~Esta(p, cola'["NEW"])
        BY <1>1, <1>11, <1>18, <1>20, <1>21, <2>1 DEF Coherente, NuevosSinCorrer
    <2>3. \A p \in fin : p < contador'
        BY <1>1, <1>21, <2>1 DEF Coherente, NuevosSinCorrer
    <2> QED BY <1>1, <1>2, <1>14, <2>2, <2>3 DEF Coherente, NuevosSinCorrer
  <1>24. AlguienMira'
    <2> SUFFICES ASSUME ~pausada, cola["RUNNING"] = <<>>, NEW p \in corrio, Esta(p, cola["READY"])
                 PROVE  \E u \in Hilo : Mira(u)'
        BY <1>2, <1>12 DEF AlguienMira
    <2> QED BY <1>1, <1>14 DEF Coherente, AlguienMira
  <1> QED BY <1>13, <1>15, <1>16, <1>22, <1>23, <1>24 DEF IInv, Coherente

(* The CPU has the process of cola_RUNNING and gives it back.              *)
LEMMA EjecutarIInv ==
  ASSUME IInv, ~nulo, NEW motivo \in DOMAIN Atender, Ejecutar(motivo)
  PROVE  IInv'
  <1>1. Tipos /\ Coherente /\ motivo \in Motivo
      BY DEF IInv, Atender, Motivo
  <1>2. UNCHANGED <<cola, contador, pausada, mutex, hilo, corrio, fin, nulo>> /\ dispatch # <<>>
      BY DEF Ejecutar, mando, historia
  <1>3. PICK x \in Pid : x = dispatch[1]
    <2>1. dispatch \in Seq(Pid)
        BY <1>1 DEF Tipos
    <2> QED BY <1>2, <2>1, HeadTailProperties
  <1>4. dispatch = <<x>> /\ a_kernel = <<>> /\ Len(cola["RUNNING"]) = 1
      BY <1>1, <1>2, <1>3, Sockets DEF Coherente
  <1>5. PICK m \in [motivo: Motivo, pid: Pid] : m = [motivo |-> motivo, pid |-> x]
      BY <1>1
  <1>6. dispatch' = <<>> /\ a_kernel' = <<m>>
    <2>1. Head(<<x>>) = x /\ Tail(<<x>>) = <<>> /\ Append(<<>>, m) = <<m>>
        OBVIOUS
    <2> QED BY <1>4, <1>5, <2>1 DEF Ejecutar
  <1>7. x = cola["RUNNING"][1]
    <2>1. Len(<<x>>) = 1 /\ 1 \in 1 .. 1 /\ <<x>>[1] = x
        OBVIOUS
    <2> QED BY <1>1, <1>4, <2>1 DEF Coherente, UnTurno
  <1>8. Tipos'
    <2>1. <<>> \in Seq(Pid) /\ <<m>> \in Seq([motivo: Motivo, pid: Pid])
        OBVIOUS
    <2>2. HilosOK'
        BY <1>1, <1>2 DEF Tipos, HilosOK
    <2> QED BY <1>1, <1>2, <1>6, <2>1, <2>2 DEF Tipos
  <1>9. ASSUME NEW u \in Hilo
        PROVE  Ahora(u)' = Ahora(u) /\ (Admite(u)' <=> Admite(u)) /\ (Mira(u)' <=> Mira(u)) /\ hilo'[u] = hilo[u]
      BY <1>2 DEF Ahora, Admite, Mira, Toma
  <1>10. Exclusion' /\ VistoVigente'
      BY <1>1, <1>2, <1>9 DEF Coherente, Exclusion, VistoVigente
  <1>11. UnLugar'
      BY <1>1, <1>2, <1>9 DEF Coherente, UnLugar, ColasSinRepetir, ManosSinRepetir, ColaOMano, EnColaVivo,
                              EnManoVivo, VivoEsta, Lleva, Esta
  <1>12. NuevosSinCorrer' /\ AlguienMira'
      BY <1>1, <1>2, <1>9 DEF Coherente, NuevosSinCorrer, AlguienMira, Esta
  <1>13. UnTurno'
    <2>1. \A u \in Hilo : Ahora(u) \notin {enviar, sacarRUNNING}
      <3>1. <<x>> # <<>>
          OBVIOUS
      <3> QED BY <1>1, <1>4, <3>1 DEF Coherente, UnTurno
    <2>2. Len(dispatch') + Len(a_kernel') <= Len(cola'["RUNNING"]) /\ Len(cola'["RUNNING"]) <= 1
      <3>1. Len(<<>>) + Len(<<m>>) <= 1 /\ 1 <= 1
          OBVIOUS
      <3> QED BY <1>2, <1>4, <1>6, <3>1
    <2>3. \A i \in 1 .. Len(dispatch') : dispatch'[i] = cola'["RUNNING"][1]
      <3>1. \A i \in 1 .. Len(<<>>) : FALSE
          OBVIOUS
      <3> QED BY <1>6, <3>1
    <2>4. \A i \in 1 .. Len(a_kernel') : a_kernel'[i].pid = cola'["RUNNING"][1]
      <3>1. m.pid = x
          BY <1>5
      <3>2. \A i \in 1 .. Len(<<m>>) : <<m>>[i] = m
          OBVIOUS
      <3> QED BY <1>2, <1>6, <1>7, <3>1, <3>2
    <2>5. \A t, u \in Hilo : Ahora(t)' \in EnCurso /\ Ahora(u)' \in EnCurso => t = u
        BY <1>1, <1>9 DEF Coherente, UnTurno
    <2>6. \A t \in Hilo :
            /\ Ahora(t)' \in EnCurso => cola'["RUNNING"] # <<>>
            /\ Ahora(t)' \notin {enviar, sacarRUNNING}
            /\ Ahora(t)' = recibir => hilo'[t].id = cola'["RUNNING"][1]
        BY <1>1, <1>2, <1>9, <2>1 DEF Coherente, UnTurno
    <2> QED BY <2>2, <2>3, <2>4, <2>5, <2>6 DEF UnTurno
  <1> QED BY <1>8, <1>10, <1>11, <1>12, <1>13 DEF IInv, Coherente

-----------------------------------------------------------------------------
(***************************************************************************)
(* The invariant                                                           *)
(***************************************************************************)
LEMMA InicioIInv ==
  ASSUME Init
  PROVE  IInv
  <1>1. /\ 0 \in Pid /\ Ociosa \in [pila: Seq(Pasos), p: Pid, id: Pid] /\ Encadenada(Ociosa.pila)
        /\ \A p \in Pid : ~(p < 0)
    <2>1. 0 \in Pid /\ \A p \in Pid : ~(p < 0)
        BY ConstantesOK DEF Pid
    <2> QED BY <2>1, Vacia DEF Ociosa
  <1>2. HilosOK
    <2>1. hilo = [t \in Hilo |-> Ociosa]
        BY DEF Init
    <2> QED BY <1>1, <2>1 DEF HilosOK
  <1>3. Tipos
    <2>1. /\ cola = [q \in Cola |-> <<>>] /\ contador = 0 /\ pausada = TRUE /\ mutex = Nadie
          /\ dispatch = <<>> /\ a_kernel = <<>> /\ corrio = {} /\ fin = {} /\ nulo = FALSE
        BY DEF Init
    <2>2. <<>> \in Seq(Pid) /\ <<>> \in Seq([motivo: Motivo, pid: Pid])
        OBVIOUS
    <2>3. 0 \in 0 .. CantPids
        BY ConstantesOK
    <2> QED BY <1>2, <2>1, <2>2, <2>3 DEF Tipos
  <1>4. \A t \in Hilo : Ahora(t) = <<>>
    <2>1. \A t \in Hilo : hilo[t] = Ociosa
        BY DEF Init
    <2> QED BY <2>1, Desocupado
  <1>5. \A t \in Hilo : /\ Ahora(t) \notin Dentro /\ Ahora(t) \notin EnCurso /\ Ahora(t) \notin Llevan
                        /\ Ahora(t) \notin {sacarREADY, ponerRUNNING, sacarBLOCKED, enviar, sacarRUNNING, recibir, ponerREADY}
      BY <1>4, PasosDistintos DEF Dentro, EnCurso, Llevan
  <1>6. /\ \A q \in Cola : cola[q] = <<>> /\ Len(cola[q]) = 0
        /\ \A q \in Cola : \A i \in 1 .. Len(cola[q]) : FALSE
        /\ "RUNNING" \in Cola
      BY DEF Init, Cola
  <1>7. Exclusion
      BY <1>5, NadieNoEsHilo DEF Init, Exclusion
  <1>8. VistoVigente
      BY <1>5 DEF VistoVigente
  <1>9. UnTurno
    <2>1. /\ Len(dispatch) = 0 /\ Len(a_kernel) = 0 /\ Len(cola["RUNNING"]) = 0
          /\ (\A i \in 1 .. Len(dispatch) : FALSE) /\ (\A i \in 1 .. Len(a_kernel) : FALSE)
        BY <1>6 DEF Init
    <2>2. Len(dispatch) + Len(a_kernel) <= Len(cola["RUNNING"]) /\ Len(cola["RUNNING"]) <= 1
      <3>1. 0 + 0 <= 0 /\ 0 <= 1
          OBVIOUS
      <3> QED BY <2>1, <3>1
    <2> QED BY <1>5, <2>1, <2>2 DEF UnTurno
  <1>10. UnLugar
    <2>1. contador = 0
        BY DEF Init
    <2>2. VivoEsta
        BY <1>1, <2>1 DEF VivoEsta
    <2> QED BY <1>5, <1>6, <2>2 DEF UnLugar, ColasSinRepetir, ManosSinRepetir, ColaOMano, EnColaVivo, EnManoVivo
  <1>11. NuevosSinCorrer
      BY <1>5 DEF Init, NuevosSinCorrer, Admite
  <1>12. AlguienMira
      BY DEF Init, AlguienMira
  <1> QED BY <1>3, <1>7, <1>8, <1>9, <1>10, <1>11, <1>12 DEF IInv, Coherente

LEMMA PasoIInv ==
  ASSUME IInv, [Next]_vars
  PROVE  IInv'
  <1>1. CASE UNCHANGED vars
      BY <1>1 DEF vars, IInv, Tipos, HilosOK, Coherente, Exclusion, VistoVigente, UnTurno, UnLugar, ColasSinRepetir,
                  ManosSinRepetir, ColaOMano, EnColaVivo, EnManoVivo, VivoEsta, NuevosSinCorrer, AlguienMira,
                  Lleva, Admite, Mira, Toma, Ahora, Esta
  <1> SUFFICES ASSUME ~nulo, Next PROVE IInv'
      BY <1>1 DEF Next
  <1>2. CASE IniciarProceso
      BY <1>2, IniciarProcesoIInv
  <1>3. CASE IniciarPlanificacion
      BY <1>3, ComandoIInv DEF IniciarPlanificacion
  <1>4. CASE DetenerPlanificacion
      BY <1>4, ComandoIInv DEF DetenerPlanificacion
  <1>5. CASE Multiprogramacion
    <2>1. pausada \in BOOLEAN
        BY DEF IInv, Tipos
    <2> QED BY <1>5, <2>1, ComandoIInv DEF Multiprogramacion, mando
  <1>6. CASE RespuestaIO
      BY <1>6, RespuestaIOIInv
  <1>7. ASSUME NEW t \in Hilo, Correr(t) PROVE IInv'
    <2>1. ASSUME NEW q \in Cola, Sacar(t, q) PROVE IInv'
        BY <2>1, SacarIInv
    <2>2. ASSUME NEW q \in Cola, Poner(t, q) PROVE IInv'
        BY <2>2, PonerIInv
    <2> QED BY <1>7, <2>1, <2>2, TerminarIInv, VerNEWIInv, TomarMutexIInv, VerREADYIInv, EnviarIInv, CrearHiloIInv,
               SoltarMutexIInv, MirarRUNNINGIInv, RecibirIInv DEF Correr
  <1>8. ASSUME NEW motivo \in DOMAIN Atender, Ejecutar(motivo) PROVE IInv'
      BY <1>8, EjecutarIInv
  <1> QED BY <1>2, <1>3, <1>4, <1>5, <1>6, <1>7, <1>8 DEF Next, Consola

(* The inductive invariant holds: every live process is in one queue or in *)
(* one hand, one thread is in charge of the CPU, what was seen under       *)
(* mutex_ready_a_exec still holds when it is used.                         *)
THEOREM Invariante == Spec => []IInv
  <1>1. Init => IInv
      BY InicioIInv
  <1>2. IInv /\ [Next]_vars => IInv'
      BY PasoIInv
  <1> QED BY <1>1, <1>2, PTL DEF Spec

(* The queues, the sockets and the locals of the threads hold processes.   *)
THEOREM SiempreTipos == Spec => []TypeOK
  <1>1. IInv => TypeOK
    <2> SUFFICES ASSUME Tipos PROVE TypeOK
        BY DEF IInv
    <2>1. \A t \in Hilo : hilo[t].p \in Pid /\ hilo[t].id \in Pid
        BY DEF Tipos, HilosOK
    <2>2. \A i \in DOMAIN a_kernel : a_kernel[i].pid \in Pid
      <3>1. a_kernel \in Seq([motivo: Motivo, pid: Pid])
          BY DEF Tipos
      <3>2. \A i \in DOMAIN a_kernel : a_kernel[i] \in [motivo: Motivo, pid: Pid]
          BY <3>1, LenProperties, ElementOfSeq
      <3> QED BY <3>2
    <2> QED BY <2>1, <2>2 DEF Tipos, TypeOK
  <1> QED BY <1>1, Invariante, PTL

-----------------------------------------------------------------------------
(* Who is about to take a step.                                            *)
LEMMA EnPasoAhora ==
  ASSUME Tipos, NEW S, <<>> \notin S
  PROVE  EnPaso(S) = {t \in Hilo : Ahora(t) \in S}
  <1>1. ASSUME NEW t \in Hilo, NEW s PROVE Paso(t, s) <=> hilo[t].pila # <<>> /\ Ahora(t) = s
    <2>1. hilo[t].pila \in Seq(Pasos)
        BY DEF Tipos, HilosOK
    <2>2. hilo[t].pila # <<>> => Head(hilo[t].pila) = hilo[t].pila[1]
        BY <2>1, HeadTailProperties
    <2> QED BY <2>2 DEF Paso, Ahora
  <1>2. ASSUME NEW t \in Hilo PROVE (\E s \in S : Paso(t, s)) <=> Ahora(t) \in S
    <2>1. hilo[t].pila = <<>> => Ahora(t) = <<>>
        BY DEF Ahora
    <2> QED BY <1>1, <2>1
  <1> QED BY <1>2 DEF EnPaso

LEMMA EsUnoEnCPU ==
  ASSUME Tipos, Coherente
  PROVE  UnoEnCPU
  <1>1. EnPaso({poner("RUNNING")}) = {t \in Hilo : Ahora(t) = ponerRUNNING}
    <2>1. <<>> \notin {ponerRUNNING}
        BY PasosDistintos
    <2>2. EnPaso({ponerRUNNING}) = {t \in Hilo : Ahora(t) \in {ponerRUNNING}}
        BY <2>1, EnPasoAhora
    <2> QED BY <2>2 DEF ponerRUNNING
  <1> DEFINE n == Cardinality(EnPaso({poner("RUNNING")}))
             r == Len(cola["RUNNING"])
  <1>2. (n = 0 /\ r <= 1) \/ (n = 1 /\ r = 0)
    <2>1. CASE \E t \in Hilo : Ahora(t) = ponerRUNNING
      <3>1. PICK t \in Hilo : Ahora(t) = ponerRUNNING
          BY <2>1
      <3>2. \A u \in Hilo : Ahora(u) = ponerRUNNING => u = t
          BY <3>1, UnoDentro DEF Coherente, Dentro
      <3>3. EnPaso({poner("RUNNING")}) = {t}
          BY <1>1, <3>1, <3>2
      <3>4. cola["RUNNING"] = <<>> /\ Len(<<>>) = 0
          BY <3>1 DEF Coherente, VistoVigente
      <3> QED BY <3>3, <3>4, FS_Singleton
    <2>2. CASE ~\E t \in Hilo : Ahora(t) = ponerRUNNING
      <3>1. EnPaso({poner("RUNNING")}) = {}
          BY <1>1, <2>2
      <3> QED BY <3>1, FS_EmptySet DEF Coherente, UnTurno
    <2> QED BY <2>1, <2>2
  <1>3. r \in Nat /\ Len(dispatch) \in Nat
      BY Sockets DEF Coherente
  <1>4. n + r <= 1 /\ r + n <= 1
    <2> HIDE DEF n, r
    <2>1. \A k \in Nat : (k <= 1 => 0 + k <= 1 /\ k + 0 <= 1) /\ (k = 0 => 1 + k <= 1 /\ k + 1 <= 1)
        OBVIOUS
    <2> QED BY <1>2, <1>3, <2>1
  <1>5. \A i \in DOMAIN dispatch : dispatch[i] \in ToSet(cola["RUNNING"])
    <2> SUFFICES ASSUME NEW i \in DOMAIN dispatch PROVE dispatch[i] \in ToSet(cola["RUNNING"])
        OBVIOUS
    <2>1. dispatch \in Seq(Pid) /\ cola["RUNNING"] \in Seq(Pid)
        BY DEF Tipos, Cola
    <2>2. DOMAIN dispatch = 1 .. Len(dispatch) /\ dispatch # <<>>
        BY <2>1, LenProperties
    <2>3. Len(cola["RUNNING"]) = 1
        BY <2>2, Sockets DEF Coherente
    <2>4. 1 \in DOMAIN cola["RUNNING"]
      <3>1. 1 \in 1 .. 1
          OBVIOUS
      <3>2. DOMAIN cola["RUNNING"] = 1 .. Len(cola["RUNNING"])
          BY <2>1, LenProperties
      <3> QED BY <2>3, <3>1, <3>2
    <2>5. dispatch[i] = cola["RUNNING"][1]
        BY <2>2 DEF Coherente, UnTurno
    <2> QED BY <2>4, <2>5 DEF ToSet
  <1> QED BY <1>4, <1>5 DEF UnoEnCPU, Coherente, UnTurno

(* The CPU has one process at a time, and its context is on one socket or  *)
(* in one handler, for any number of threads and processes.                *)
THEOREM SiempreUnoEnCPU == Spec => []UnoEnCPU
  <1>1. IInv => UnoEnCPU
    <2>1. nulo => UnoEnCPU
        BY DEF UnoEnCPU
    <2> QED BY <2>1, EsUnoEnCPU DEF IInv
  <1> QED BY <1>1, Invariante, PTL

LEMMA EsContextoPropio ==
  ASSUME Tipos, Coherente
  PROVE  ContextoPropio
  <1>1. /\ EnPaso({hacer("recibir")}) = {t \in Hilo : Ahora(t) = recibir}
        /\ EnPaso({hacer("mirar RUNNING"), hacer("recibir")}) = {t \in Hilo : Ahora(t) \in {mirarRUNNING, recibir}}
    <2>1. <<>> \notin {recibir} /\ <<>> \notin {mirarRUNNING, recibir}
        BY PasosDistintos
    <2>2. /\ EnPaso({recibir}) = {t \in Hilo : Ahora(t) \in {recibir}}
          /\ EnPaso({mirarRUNNING, recibir}) = {t \in Hilo : Ahora(t) \in {mirarRUNNING, recibir}}
        BY <2>1, EnPasoAhora
    <2> QED BY <2>2 DEF mirarRUNNING, recibir
  <1>2. ASSUME NEW t \in Hilo, Ahora(t) = recibir
        PROVE  /\ EnPaso({hacer("mirar RUNNING"), hacer("recibir")}) = {t}
               /\ \A i \in DOMAIN a_kernel : a_kernel[i].pid = hilo[t].id
    <2>1. mirarRUNNING \in EnCurso /\ recibir \in EnCurso
        BY DEF EnCurso
    <2>2. \A u \in Hilo : Ahora(u) \in {mirarRUNNING, recibir} => u = t
        BY <1>2, <2>1 DEF Coherente, UnTurno
    <2>3. EnPaso({hacer("mirar RUNNING"), hacer("recibir")}) = {t}
        BY <1>1, <1>2, <2>2
    <2>4. DOMAIN a_kernel = 1 .. Len(a_kernel)
      <3>1. a_kernel \in Seq([motivo: Motivo, pid: Pid])
          BY DEF Tipos
      <3> QED BY <3>1, LenProperties
    <2>5. hilo[t].id = cola["RUNNING"][1] /\ \A i \in 1 .. Len(a_kernel) : a_kernel[i].pid = cola["RUNNING"][1]
        BY <1>2 DEF Coherente, UnTurno
    <2> QED BY <2>3, <2>4, <2>5
  <1> QED BY <1>1, <1>2 DEF ContextoPropio

(* The thread that waits for a context is the only one, and it knows whose *)
(* the context is, although it found out by looking at cola_RUNNING after  *)
(* it was created.                                                         *)
THEOREM SiempreContextoPropio == Spec => []ContextoPropio
  <1>1. IInv => ContextoPropio
    <2>1. nulo => ContextoPropio
        BY DEF ContextoPropio
    <2> QED BY <2>1, EsContextoPropio DEF IInv
  <1> QED BY <1>1, Invariante, PTL

(* No queue holds more than all the processes.                             *)
LEMMA ColaAcotada ==
  ASSUME Tipos, ColasSinRepetir, NEW q \in Cola
  PROVE  Len(cola[q]) \in Nat /\ Len(cola[q]) <= CantPids
  <1>1. PICK s \in Seq(Pid) : s = cola[q]
      BY DEF Tipos
  <1>2. PICK n \in Nat : n = Len(s)
      BY LenProperties
  <1>3. CantPids \in Nat \ {0}
      BY ConstantesOK
  <1>4. IsFiniteSet(Pid) /\ Cardinality(Pid) = CantPids
    <2>1. 0 \in Int /\ CantPids - 1 \in Int /\ ~(0 > CantPids - 1) /\ (CantPids - 1) - 0 + 1 = CantPids
        BY <1>3
    <2>2. IsFiniteSet(0 .. CantPids - 1) /\ Cardinality(0 .. CantPids - 1) = (CantPids - 1) - 0 + 1
        BY <2>1, FS_Interval
    <2> QED BY <2>1, <2>2 DEF Pid
  <1>5. \A i \in 1 .. n : s[i] \in Pid
      BY <1>2, ElementOfSeq
  <1>6. \A i, j \in 1 .. n : s[i] = s[j] => i = j
      BY <1>1, <1>2 DEF ColasSinRepetir
  <1>7. [i \in 1 .. n |-> s[i]] \in Injection(1 .. n, Pid)
      BY <1>5, <1>6 DEF Injection, IsInjective
  <1>8. Cardinality(1 .. n) <= Cardinality(Pid)
      BY <1>4, <1>7, FS_Injection
  <1>9. Cardinality(1 .. n) = n
    <2>1. 1 \in Int /\ n \in Int /\ (1 > n => n = 0) /\ n - 1 + 1 = n
        OBVIOUS
    <2>2. Cardinality(1 .. n) = IF 1 > n THEN 0 ELSE n - 1 + 1
        BY <2>1, FS_Interval
    <2> QED BY <2>1, <2>2
  <1> QED BY <1>1, <1>2, <1>4, <1>8, <1>9

LEMMA EsNadieSePierde ==
  ASSUME Tipos, Coherente
  PROVE  NadieSePierde
  <1>1. ASSUME NEW p \in Pid PROVE EnTransito(p) = {t \in Hilo : Lleva(t, p)}
    <2> DEFINE S == {poner(q) : q \in Cola} \cup {hacer("terminar")}
    <2>1. <<>> \notin S
        BY ClasesDistintas
    <2>2. EnPaso(S) = {t \in Hilo : Ahora(t) \in S}
        BY <2>1, EnPasoAhora
    <2>3. \A t \in Hilo : Ahora(t) = <<>> \/ Ahora(t) \in Pasos
      <3> SUFFICES ASSUME NEW t \in Hilo, hilo[t].pila # <<>> PROVE hilo[t].pila[1] \in Pasos
          BY DEF Ahora
      <3>1. hilo[t].pila \in Seq(Pasos)
          BY DEF Tipos, HilosOK
      <3> QED BY <3>1, HeadTailProperties
    <2>4. poner("NEW") \notin Llevan /\ poner("NEW") \notin Pasos /\ poner("NEW") # <<>>
      <3>1. "NEW" # "READY" /\ "NEW" # "RUNNING" /\ "NEW" # "BLOCKED"
          OBVIOUS
      <3> QED BY <3>1, ClasesDistintas DEF Pasos, Llevan, sacarNEW, sacarREADY, sacarRUNNING, sacarBLOCKED,
                ponerREADY, ponerRUNNING, ponerBLOCKED, terminar, verNEW, tomarMutex, verREADY, enviar,
                crearHilo, soltarMutex, mirarRUNNING, recibir
    <2>5. S = Llevan \cup {poner("NEW")}
        BY DEF Llevan, Cola, ponerREADY, ponerRUNNING, ponerBLOCKED, terminar
    <2>6. \A t \in Hilo : Ahora(t) \in S <=> Ahora(t) \in Llevan
        BY <2>3, <2>4, <2>5
    <2> QED BY <2>2, <2>6 DEF EnTransito, Lleva
  <1>2. UnLugar
      BY DEF Coherente
  <1>3. ASSUME NEW q \in Cola
        PROVE  /\ DOMAIN cola[q] = 1 .. Len(cola[q])
               /\ \A i \in 1 .. Len(cola[q]) : i \in 1 .. CantPids + 1
    <2>1. cola[q] \in Seq(Pid)
        BY DEF Tipos
    <2>2. Len(cola[q]) \in Nat /\ Len(cola[q]) <= CantPids
        BY <1>2, ColaAcotada DEF UnLugar
    <2>3. \A n \in Nat : n <= CantPids => \A i \in 1 .. n : i \in 1 .. CantPids + 1
        BY ConstantesOK
    <2> QED BY <2>1, <2>2, <2>3, LenProperties
  <1>4. ASSUME NEW p \in Pid, NEW lugar \in EnColas(p)
        PROVE  lugar[1] \in Cola /\ lugar[2] \in 1 .. Len(cola[lugar[1]]) /\ cola[lugar[1]][lugar[2]] = p
      BY <1>3 DEF EnColas
  <1>5. ASSUME NEW p \in Pid PROVE EnColas(p) # {} <=> \E q \in Cola : Esta(p, cola[q])
    <2>1. ASSUME NEW lugar \in EnColas(p) PROVE \E q \in Cola : Esta(p, cola[q])
        BY <1>4 DEF Esta
    <2>2. ASSUME NEW q \in Cola, NEW i \in 1 .. Len(cola[q]), cola[q][i] = p PROVE EnColas(p) # {}
      <3>1. <<q, i>> \in Cola \X (1 .. CantPids + 1) /\ <<q, i>>[1] = q /\ <<q, i>>[2] = i
          BY <1>3
      <3>2. <<q, i>> \in EnColas(p)
          BY <1>3, <2>2, <3>1 DEF EnColas
      <3> QED BY <3>2
    <2> QED BY <2>1, <2>2 DEF Esta
  <1>6. ASSUME NEW p \in Pid, NEW a \in EnColas(p), NEW b \in EnColas(p) PROVE a = b
    <2>1. a[1] = b[1] /\ a[2] = b[2]
        BY <1>2, <1>4 DEF UnLugar, ColasSinRepetir
    <2>2. a = <<a[1], a[2]>> /\ b = <<b[1], b[2]>>
        BY DEF EnColas
    <2> QED BY <2>1, <2>2
  <1>7. ASSUME NEW p \in Pid
        PROVE  Cardinality(EnTransito(p)) + Cardinality(EnColas(p)) = IF p < contador /\ p \notin fin THEN 1 ELSE 0
    <2>1. CASE \E q \in Cola : Esta(p, cola[q])
      <3>1. PICK a \in EnColas(p) : TRUE
          BY <1>5, <2>1
      <3>2. EnColas(p) = {a}
          BY <1>6, <3>1
      <3>3. EnTransito(p) = {}
          BY <1>1, <1>2, <2>1 DEF UnLugar, ColaOMano, Lleva
      <3>4. p < contador /\ p \notin fin
          BY <1>2, <2>1 DEF UnLugar, EnColaVivo, Esta
      <3>5. Cardinality(EnTransito(p)) = 0 /\ Cardinality(EnColas(p)) = 1
          BY <3>2, <3>3, FS_Singleton, FS_EmptySet
      <3> QED BY <3>4, <3>5
    <2>2. CASE (\E t \in Hilo : Lleva(t, p)) /\ ~\E q \in Cola : Esta(p, cola[q])
      <3>1. PICK t \in Hilo : Lleva(t, p)
          BY <2>2
      <3>2. EnTransito(p) = {t}
          BY <1>1, <1>2, <3>1 DEF UnLugar, ManosSinRepetir, Lleva
      <3>3. EnColas(p) = {}
          BY <1>5, <2>2
      <3>4. p < contador /\ p \notin fin
          BY <1>2, <3>1 DEF UnLugar, EnManoVivo, Lleva
      <3>5. Cardinality(EnTransito(p)) = 1 /\ Cardinality(EnColas(p)) = 0
          BY <3>2, <3>3, FS_Singleton, FS_EmptySet
      <3> QED BY <3>4, <3>5
    <2>3. CASE ~(\E t \in Hilo : Lleva(t, p)) /\ ~\E q \in Cola : Esta(p, cola[q])
      <3>1. EnTransito(p) = {} /\ EnColas(p) = {}
          BY <1>1, <1>5, <2>3
      <3>2. ~(p < contador /\ p \notin fin)
          BY <1>2, <2>3 DEF UnLugar, VivoEsta
      <3>3. Cardinality(EnTransito(p)) = 0 /\ Cardinality(EnColas(p)) = 0
          BY <3>1, FS_EmptySet
      <3> QED BY <3>2, <3>3
    <2> QED BY <2>1, <2>2, <2>3
  <1> QED BY <1>7 DEF NadieSePierde

(* A process that was started and has not finished is in one place of one  *)
(* queue or in the hands of one thread, and in no other.                   *)
THEOREM SiempreNadieSePierde == Spec => []NadieSePierde
  <1>1. IInv => NadieSePierde
    <2>1. nulo => NadieSePierde
        BY DEF NadieSePierde
    <2> QED BY <2>1, EsNadieSePierde DEF IInv
  <1> QED BY <1>1, Invariante, PTL

(* When every thread is done and the CPU is free, nobody who has run waits *)
(* in READY: the last to hold mutex_ready_a_exec saw it.                   *)
THEOREM SiempreSinOlvidados == Spec => []SinOlvidados
  <1>1. IInv => SinOlvidados
    <2> SUFFICES ASSUME Tipos, Coherente, Quieto, ~pausada, cola["RUNNING"] = <<>>,
                        NEW p \in ToSet(cola["READY"]), p \in corrio
                 PROVE  FALSE
        BY DEF IInv, SinOlvidados
    <2>1. cola["READY"] \in Seq(Pid)
        BY DEF Tipos, Cola
    <2>2. Esta(p, cola["READY"])
        BY <2>1, LenProperties DEF ToSet, Esta
    <2>3. \A t \in Hilo : ~Mira(t)
        BY Desocupado DEF Quieto
    <2> QED BY <2>2, <2>3 DEF Coherente, AlguienMira
  <1> QED BY <1>1, Invariante, PTL
=============================================================================
