--------------------------- MODULE Programas_proofs ---------------------------
(***************************************************************************)
(* Proofs about the programs (Programas over EspacioDeUsuario): for any    *)
(* number of processes, frames, registers and programs, every variable     *)
(* keeps its type, a request never leaves the frames of the process that   *)
(* made it, and each program has a machine of its own (Maquina).           *)
(***************************************************************************)
EXTENDS Programas, SequenceTheorems, FiniteSetTheorems, WellFoundedInduction, TLAPS

(***************************************************************************)
(* Types, with those of the locals of an instruction and of a context.     *)
(***************************************************************************)
Banco == {v \in [Registro -> Nat] : \A r \in Registro : v[r] \in 0 .. Palabra(r) - 1}
Renglon == [pid: Pid, df: Direccion, size: Nat]
Curso ==
  [en: {"libre", "fetch", "check", "escribir", "wait"}]
    \cup [en: {"mov_in"}, reg: Registro]
    \cup [en: {"copiar"}, df: Direccion, size: Nat]
    \cup [en: {"resize"}, paginas: Nat]
    \cup [en: {"decode"}, df: Direccion]

Tipos ==
  /\ codigo \in [Pid -> Seq(Linea)]
  /\ espacio \in [Direccion -> Byte] /\ tablas \in [Pid -> Seq(Marco)]
  /\ pedido \in [Hilo -> PedidoType]
  /\ \A h \in Hilo : pedido[h].op = "escribir" => Len(pedido[h].buffer) = pedido[h].size
  /\ pcb \in [Pid -> [pc: Nat, val: Banco]]
  /\ regs \in [pid: Pid \cup {0}, pc: Nat, val: Banco]
  /\ curso \in Curso /\ (curso # Libre => regs.pid \in Pid)
  /\ estado \in [Pid -> Estado]
  /\ bloqueados \in [Interfaz -> Seq(Renglon)]

(***************************************************************************)
(* Memory: a frame is in one place, and what is asked for is there.        *)
(***************************************************************************)
MarcosUnicos ==
  \A p, q \in Pid : \A i \in DOMAIN tablas[p], j \in DOMAIN tablas[q] :
    tablas[p][i] = tablas[q][j] => p = q /\ i = j

\* The n bytes from df on, in the order of the pages of p, are of p.
EnPaginas(p, df, n) ==
  \E j \in DOMAIN tablas[p] :
    /\ tablas[p][j] = MarcoDe(df)
    /\ (j - 1) * TamPag + (df % TamPag) + n <= Len(tablas[p]) * TamPag

EsIO(m) == m \in {"IO_STDIN_READ", "IO_STDOUT_WRITE"}
InterfazDe(m) == IF m = "IO_STDIN_READ" THEN "STDIN" ELSE "STDOUT"

(***************************************************************************)
(* A process is in the CPU, on its way to the kernel, in the queue of one  *)
(* interface or in none of them.                                           *)
(***************************************************************************)
Viaje ==
  /\ a_kernel # <<>> =>
       /\ a_kernel[1] \in Pid /\ actualizar_pcb(a_kernel) \in [pc: Nat, val: Banco]
       /\ \/ Motivo(a_kernel) \in {"INTERRUPCION", "EXIT", "OUT_OF_MEMORY"} /\ curso = Libre
          \/ /\ EsIO(Motivo(a_kernel)) /\ curso = Libre
             /\ Dato(a_kernel, 1) = InterfazDe(Motivo(a_kernel))
             /\ Dato(a_kernel, 2) \in Direccion /\ Dato(a_kernel, 3) \in Nat
             /\ EnPaginas(a_kernel[1], Dato(a_kernel, 2), Dato(a_kernel, 3))
          \/ /\ Motivo(a_kernel) \in {"WAIT", "SIGNAL"} /\ curso.en = "wait" /\ regs.pid = a_kernel[1]
             /\ actualizar_pcb(a_kernel) = [pc |-> regs.pc, val |-> regs.val]
  /\ curso.en = "wait" => a_kernel # <<>>

EnUnLugar == \A p \in Pid : estado[p] = "RUNNING" <=> EnCpu(p) \/ EnCamino(p)

Colas ==
  /\ \A f \in Interfaz : \A j \in DOMAIN bloqueados[f] :
       LET b == bloqueados[f][j] IN estado[b.pid] = "BLOCKED" /\ EnPaginas(b.pid, b.df, b.size)
  /\ \A f, g \in Interfaz : \A j \in DOMAIN bloqueados[f], k \in DOMAIN bloqueados[g] :
       bloqueados[f][j].pid = bloqueados[g][k].pid => f = g /\ j = k

(***************************************************************************)
(* Each request is of who waits for it.                                    *)
(***************************************************************************)
Pedidos ==
  /\ pedido["CPU"] # Nada <=> curso.en \in {"mov_in", "copiar", "escribir"}
  /\ pedido["CPU"] # Nada => /\ pedido["CPU"].pid = regs.pid
                             /\ pedido["CPU"].op = "escribir" <=> curso.en = "escribir"
  /\ \A f \in Interfaz : pedido[f] # Nada =>
       /\ bloqueados[f] # <<>> /\ pedido[f].pid = bloqueados[f][1].pid
       /\ pedido[f].op = IF f = "STDIN" THEN "escribir" ELSE "leer"
  /\ \A h \in Hilo : pedido[h] # Nada /\ pedido[h].size > 0
                       => EnPaginas(pedido[h].pid, pedido[h].df, pedido[h].size)
  /\ curso.en = "copiar" => EnPaginas(regs.pid, curso.df, curso.size)

IInv == Tipos /\ MarcosUnicos /\ Viaje /\ EnUnLugar /\ Colas /\ Pedidos

(***************************************************************************)
(* The TLB: a row of a page that a live process has is that page's.  One   *)
(* of a page that it has not is of a process that shrank, and which does   *)
(* not grow again.                                                         *)
(***************************************************************************)
Fila == [clave: Pid \X Nat, marco: Marco]
FilaBuena(f) ==
  LET p == f.clave[1]
      g == f.clave[2]
  IN /\ estado[p] # "EXIT" /\ g < Len(tablas[p]) => f.marco = tablas[p][g + 1]
     /\ estado[p] # "EXIT" /\ p \notin achicado => g < Len(tablas[p])

\* decode has the address of SI, and looks for that of DI.
Decodificada ==
  /\ HayInstruccion /\ Instruccion[1] = "COPY_STRING"
  /\ Dentro(regs.pid, regs.val["SI"], Instruccion[2]) /\ Dentro(regs.pid, regs.val["DI"], Instruccion[2])
  /\ curso.df = DireccionDe(regs.pid, regs.val["SI"])

FInv ==
  /\ Disciplina /\ cola \in Seq(Fila) /\ \A j \in DOMAIN cola : FilaBuena(cola[j])
  /\ curso.en = "resize" /\ regs.pid \in achicado => curso.paginas <= Len(tablas[regs.pid])
  /\ curso.en = "decode" => Decodificada

(***************************************************************************)
(* What was read of the n bytes from the logical address dl on is what the *)
(* process has there.                                                      *)
(***************************************************************************)
LeidoDe(q, dl, n) ==
  /\ dl + n <= Len(tablas[q.pid]) * TamPag
  /\ Len(q.buffer) + q.size = n
  /\ q.size > 0 => Logica(q.pid, q.df) = dl + Len(q.buffer)
  /\ \A k \in DOMAIN q.buffer : q.buffer[k] = MemoriaDe(q.pid)[dl + k]

\* The instruction that is being executed: pc is already that of the next.
Actual == codigo[regs.pid][regs.pc]
EnCurso ==
  /\ curso.en \in {"mov_in", "copiar", "resize", "wait"} => regs.pc \in DOMAIN codigo[regs.pid]
  /\ curso.en = "mov_in" =>
       /\ Actual[1] = "MOV_IN" /\ Actual[2] = curso.reg /\ Actual[3] \in Registro
       /\ LeidoDe(pedido["CPU"], regs.val[Actual[3]], TamReg[curso.reg])
  /\ curso.en = "copiar" =>
       /\ Actual[1] = "COPY_STRING" /\ Actual[2] = curso.size
       /\ Logica(regs.pid, curso.df) = regs.val["DI"]
       /\ LeidoDe(pedido["CPU"], regs.val["SI"], curso.size)
  /\ curso.en = "resize" => Actual[1] = "RESIZE" /\ curso.paginas = Techo(Actual[2])
  /\ curso.en = "wait" => Actual[1] \in {"WAIT", "SIGNAL"} /\ Actual[1] = Motivo(a_kernel)

Mostrando ==
  pedido["STDOUT"] # Nada =>
    LET b == bloqueados["STDOUT"][1] IN LeidoDe(pedido["STDOUT"], Logica(b.pid, b.df), b.size)

RInv == IInv /\ FInv /\ EnCurso /\ Mostrando

-----------------------------------------------------------------------------
(***************************************************************************)
(* Constants and packets                                                   *)
(***************************************************************************)
LEMMA Hilos ==
  /\ Interfaz = {"STDIN", "STDOUT"} /\ Hilo = {"CPU", "STDIN", "STDOUT"}
  BY ProgramasOK DEF Interfaz

LEMMA PalabraNat == \A r \in Registro : /\ TamReg[r] \in {1, TamInt} /\ TamReg[r] \in Nat
                                        /\ Palabra(r) \in Nat \ {0}
  BY ProgramasOK, PotenciasOK DEF Palabra

LEMMA RestoEnBanco ==
  ASSUME NEW val \in Banco, NEW r \in Registro, NEW v \in Int
  PROVE  [val EXCEPT ![r] = v % Palabra(r)] \in Banco
  <1>1. v % Palabra(r) \in 0 .. Palabra(r) - 1
      BY PalabraNat
  <1>2. \A s \in Registro : Palabra(s) - 1 \in Int
      BY PalabraNat
  <1> QED BY <1>1, <1>2 DEF Banco

LEMMA LugarDeRegistro ==
  ASSUME NEW r \in Registro
  PROVE  Lugar(r) \in DOMAIN Orden /\ Orden[Lugar(r)] = r
  BY DEF Registro, ToSet, Lugar

LEMMA OrdenSeq == Orden \in Seq(Registro) /\ Len(Orden) \in Nat /\ DOMAIN Orden = 1 .. Len(Orden)
  BY ProgramasOK, LenProperties DEF Registro, ToSet

(* The context that leaves keeps each field in its place, whatever goes    *)
(* after the registers.                                                    *)
LEMMA EnviarPcb ==
  ASSUME NEW rs, rs.val \in Banco, rs.pc \in Nat, NEW m, NEW S, NEW d \in Seq(S), enviar_pcb(rs, m, d)
  PROVE  /\ a_kernel' # <<>> /\ a_kernel'[1] = rs.pid
         /\ actualizar_pcb(a_kernel') = [pc |-> rs.pc, val |-> rs.val]
         /\ actualizar_pcb(a_kernel') \in [pc: Nat, val: Banco]
         /\ Motivo(a_kernel') = m
         /\ \A n \in 1 .. Len(d) : Dato(a_kernel', n) = d[n]
  <1> DEFINE l == a_kernel'
             N == Len(Orden)
             v == Valores(rs.val)
             h == <<rs.pid, rs.pc>> \o v
             k == h \o <<m>>
  <1>1. N \in Nat /\ DOMAIN Orden = 1 .. N
      BY OrdenSeq
  <1>2. v \in Seq(Nat) /\ Len(v) = N /\ \A j \in 1 .. N : v[j] = rs.val[Orden[j]]
      BY <1>1, OrdenSeq DEF Valores, Banco
  <1>3. l = k \o d
      BY DEF empaquetar_registros, enviar_pcb
  <1> HIDE DEF v, N, l
  <1>4. Len(h) = N + 2 /\ h[1] = rs.pid /\ h[2] = rs.pc /\ (\A j \in 1 .. N : h[j + 2] = v[j])
      BY <1>1, <1>2
  <1>5. Len(k) = N + 3 /\ k[N + 3] = m /\ (\A j \in 1 .. N + 2 : k[j] = h[j])
      BY <1>1, <1>2, SMTT(30)
  <1> DEFINE T == Nat \cup S \cup {rs.pid, rs.pc, m}
  <1>12. k \in Seq(T) /\ d \in Seq(T)
    <2>1. Nat \subseteq T /\ S \subseteq T /\ rs.pid \in T /\ rs.pc \in T /\ m \in T
        OBVIOUS
    <2> HIDE DEF T
    <2>2. v \in Seq(T) /\ d \in Seq(T)
        BY <1>2, <2>1, SeqMonotonic
    <2>3. <<rs.pid, rs.pc>> \in Seq(T) /\ <<m>> \in Seq(T)
        BY <2>1
    <2>4. h \in Seq(T)
        BY <2>2, <2>3, ConcatProperties
    <2> QED BY <2>2, <2>3, <2>4, ConcatProperties
  <1> HIDE DEF h, k, T
  <1>6. Len(l) = N + 3 + Len(d) /\ (\A j \in 1 .. N + 3 : l[j] = k[j])
           /\ (\A j \in 1 .. Len(d) : l[N + 3 + j] = d[j])
    <2>1. Len(d) \in Nat
        BY <1>12, LenProperties
    <2>2. /\ Len(k \o d) = Len(k) + Len(d)
          /\ \A j \in 1 .. Len(k) + Len(d) :
               (k \o d)[j] = IF j <= Len(k) THEN k[j] ELSE d[j - Len(k)]
        BY <1>12, ConcatProperties
    <2> QED BY <1>1, <1>3, <1>5, <2>1, <2>2
  <1>7. l # <<>> /\ l[1] = rs.pid /\ l[2] = rs.pc
      BY <1>1, <1>4, <1>5, <1>6
  <1>8. \A r \in Registro : l[Lugar(r) + 2] = rs.val[r]
    <2> SUFFICES ASSUME NEW r \in Registro PROVE l[Lugar(r) + 2] = rs.val[r]
        OBVIOUS
    <2> DEFINE j == Lugar(r)
    <2>1. j \in 1 .. N /\ Orden[j] = r
        BY <1>1, LugarDeRegistro
    <2> HIDE DEF j
    <2>2. l[j + 2] = k[j + 2] /\ k[j + 2] = h[j + 2]
        BY <1>1, <1>5, <1>6, <2>1
    <2>3. l[j + 2] = rs.val[r]
        BY <1>2, <1>4, <2>1, <2>2
    <2> QED BY <2>3 DEF j
  <1>9. actualizar_pcb(l) = [pc |-> rs.pc, val |-> rs.val]
      BY <1>7, <1>8 DEF actualizar_pcb, Banco
  <1>10. Motivo(l) = m
      BY <1>1, <1>5, <1>6 DEF Motivo, N
  <1>11. \A n \in 1 .. Len(d) : Dato(l, n) = d[n]
      BY <1>1, <1>6 DEF Dato, N
  <1> QED BY <1>7, <1>9, <1>10, <1>11 DEF l

LEMMA PaqueteDePcb ==
  ASSUME NEW p, pcb[p].val \in Banco, NEW rs, rs = desempaquetar_pcb_a_registros(empaquetar_pcb(p))
  PROVE  rs = [pid |-> p, pc |-> pcb[p].pc, val |-> pcb[p].val]
  <1> DEFINE N == Len(Orden)
             v == Valores(pcb[p].val)
             l == empaquetar_pcb(p)
  <1>1. N \in Nat /\ DOMAIN Orden = 1 .. N
      BY OrdenSeq
  <1>2. v \in Seq(Nat) /\ Len(v) = N /\ \A j \in 1 .. N : v[j] = pcb[p].val[Orden[j]]
      BY <1>1, OrdenSeq DEF Valores, Banco
  <1>3. l = <<p, pcb[p].pc, "quantum", estado[p]>> \o v
      BY DEF empaquetar_pcb
  <1> HIDE DEF v, N, l
  <1>4. l[1] = p /\ l[2] = pcb[p].pc /\ \A j \in 1 .. N : l[j + 4] = v[j]
      BY <1>1, <1>2, <1>3
  <1>5. \A r \in Registro : l[Lugar(r) + 4] = pcb[p].val[r]
      BY <1>1, <1>2, <1>4, LugarDeRegistro
  <1> QED BY <1>4, <1>5 DEF desempaquetar_pcb_a_registros, Banco, l

-----------------------------------------------------------------------------
(***************************************************************************)
(* Addresses: a page of a frame, and the places of a process               *)
(***************************************************************************)
LEMMA Producto ==
  ASSUME NEW a \in Int, NEW b \in Int, NEW t \in Nat \ {0}
  PROVE  /\ a * t \in Int /\ b * t \in Int
         /\ a <= b => a * t <= b * t
         /\ a < b => (a * t) + t <= b * t
         /\ a * t < b * t => a < b
         /\ (a + 1) * t = (a * t) + t /\ (a - 1) * t = (a * t) - t
  OBVIOUS

LEMMA Cociente ==
  ASSUME NEW d \in Nat, NEW t \in Nat \ {0}
  PROVE  /\ d \div t \in Nat /\ d % t \in 0 .. t - 1 /\ d = ((d \div t) * t) + (d % t)
         /\ \A l \in Nat : d < l * t => d \div t < l
  <1>1. d \div t \in Nat /\ d % t \in 0 .. t - 1 /\ d = ((d \div t) * t) + (d % t)
      OBVIOUS
  <1>2. ASSUME NEW l \in Nat, d < l * t PROVE d \div t < l
    <2>1. (d \div t) * t < l * t
      <3>1. (d \div t) * t \in Int /\ l * t \in Int
          BY <1>1
      <3> QED BY <1>1, <1>2, <3>1
    <2> QED BY <1>1, <2>1, Producto
  <1> QED BY <1>1, <1>2

LEMMA EnMarco ==
  ASSUME NEW m \in Marco, NEW o \in 0 .. TamPag - 1
  PROVE  /\ (m * TamPag) + o \in Direccion
         /\ MarcoDe((m * TamPag) + o) = m /\ ((m * TamPag) + o) % TamPag = o
  <1>1. TamPag \in Nat \ {0} /\ CantMarcos \in Nat \ {0} /\ m \in Nat /\ o \in Nat /\ o < TamPag
      BY EspacioOK DEF Marco
  <1>2. (m + 1) * TamPag <= CantMarcos * TamPag
      BY <1>1 DEF Marco
  <1>3. (m + 1) * TamPag = (m * TamPag) + TamPag
      BY <1>1
  <1>4. m * TamPag \in Nat /\ CantMarcos * TamPag \in Nat
      BY <1>1
  <1>5. (m * TamPag) + o \in Direccion
      BY <1>1, <1>2, <1>3, <1>4 DEF Direccion
  <1>6. ((m * TamPag) + o) \div TamPag = m /\ ((m * TamPag) + o) % TamPag = o
      BY <1>1
  <1> QED BY <1>5, <1>6 DEF MarcoDe

LEMMA DeMarco ==
  ASSUME NEW df \in Direccion
  PROVE  /\ MarcoDe(df) \in Marco /\ df % TamPag \in 0 .. TamPag - 1
         /\ df = (MarcoDe(df) * TamPag) + (df % TamPag)
  <1>1. TamPag \in Nat \ {0} /\ CantMarcos \in Nat \ {0} /\ df \in Nat /\ df < CantMarcos * TamPag
      BY EspacioOK DEF Direccion
  <1> DEFINE m == df \div TamPag
  <1>2. m \in Nat /\ df % TamPag \in 0 .. TamPag - 1 /\ df = (m * TamPag) + (df % TamPag)
      BY <1>1
  <1>3. m < CantMarcos
    <2> SUFFICES ASSUME CantMarcos <= m PROVE FALSE
        BY <1>1, <1>2
    <2>1. CantMarcos * TamPag <= m * TamPag
        BY <1>1, <1>2
    <2> QED BY <1>1, <1>2, <2>1
  <1> QED BY <1>1, <1>2, <1>3 DEF MarcoDe, Marco

LEMMA TablaSeq ==
  ASSUME tablas \in [Pid -> Seq(Marco)], NEW p \in Pid
  PROVE  /\ tablas[p] \in Seq(Marco) /\ Len(tablas[p]) \in Nat /\ DOMAIN tablas[p] = 1 .. Len(tablas[p])
         /\ \A j \in DOMAIN tablas[p] : tablas[p][j] \in Marco
  BY LenProperties, ElementOfSeq

LEMMA LogicaEs ==
  ASSUME MarcosUnicos, NEW p \in Pid, NEW df, NEW j \in DOMAIN tablas[p], tablas[p][j] = MarcoDe(df)
  PROVE  Logica(p, df) = ((j - 1) * TamPag) + (df % TamPag)
  BY DEF MarcosUnicos, Logica

(* The MMU gives an address of the process, in its place.                  *)
LEMMA Mmu ==
  ASSUME tablas \in [Pid -> Seq(Marco)], MarcosUnicos,
         NEW p \in Pid, NEW dl \in Nat, dl < Len(tablas[p]) * TamPag
  PROVE  /\ DireccionDe(p, dl) \in Direccion
         /\ Logica(p, DireccionDe(p, dl)) = dl
         /\ \A n \in Nat : dl + n <= Len(tablas[p]) * TamPag
                             => EnPaginas(p, DireccionDe(p, dl), n)
  <1> DEFINE L == Len(tablas[p])
             g == dl \div TamPag
             o == dl % TamPag
             df == DireccionDe(p, dl)
  <1>1. TamPag \in Nat \ {0} /\ L \in Nat
      BY EspacioOK, TablaSeq
  <1>2. g \in Nat /\ o \in 0 .. TamPag - 1 /\ dl = (g * TamPag) + o
      BY <1>1
  <1>3. g < L
      BY <1>1, Cociente
  <1>4. g + 1 \in DOMAIN tablas[p] /\ tablas[p][g + 1] \in Marco
      BY <1>1, <1>2, <1>3, TablaSeq
  <1>5. df = (tablas[p][g + 1] * TamPag) + o
      BY DEF DireccionDe
  <1> HIDE DEF g, o, df
  <1>6. df \in Direccion /\ MarcoDe(df) = tablas[p][g + 1] /\ df % TamPag = o
      BY <1>2, <1>4, <1>5, EnMarco
  <1>7. (g + 1) - 1 = g
      BY <1>2
  <1>8. Logica(p, df) = (g * TamPag) + o
      BY <1>4, <1>6, <1>7, LogicaEs
  <1>9. \A n \in Nat : dl + n <= L * TamPag => EnPaginas(p, df, n)
      BY <1>2, <1>4, <1>6, <1>7 DEF EnPaginas
  <1> QED BY <1>2, <1>6, <1>8, <1>9 DEF df

LEMMA EnPaginasMenos ==
  ASSUME tablas \in [Pid -> Seq(Marco)], NEW p \in Pid, NEW df \in Direccion, NEW n \in Nat, NEW k \in 0 .. n,
         EnPaginas(p, df, n)
  PROVE  EnPaginas(p, df, k)
  <1>1. PICK j \in DOMAIN tablas[p] : /\ tablas[p][j] = MarcoDe(df)
                                      /\ (j - 1) * TamPag + (df % TamPag) + n <= Len(tablas[p]) * TamPag
      BY DEF EnPaginas
  <1>2. TamPag \in Nat \ {0} /\ Len(tablas[p]) \in Nat /\ j \in Nat \ {0}
      BY EspacioOK, TablaSeq
  <1>3. (j - 1) * TamPag \in Int /\ df % TamPag \in Int /\ Len(tablas[p]) * TamPag \in Int
      BY <1>2, DeMarco
  <1>4. (j - 1) * TamPag + (df % TamPag) + k <= Len(tablas[p]) * TamPag
      BY <1>1, <1>3
  <1> QED BY <1>1, <1>4 DEF EnPaginas

(* A piece, and where the request goes on.                                 *)
LEMMA TramoEs ==
  ASSUME NEW q, q.df \in Direccion, q.size \in Nat \ {0}
  PROVE  /\ Tramo(q) \in 1 .. q.size /\ Tramo(q) <= TamPag - (q.df % TamPag)
         /\ Tramo(q) < q.size => Tramo(q) = TamPag - (q.df % TamPag)
  <1> DEFINE m == MarcoDe(q.df)
             o == q.df % TamPag
  <1>1. TamPag \in Nat \ {0} /\ m \in Nat /\ o \in 0 .. TamPag - 1 /\ q.df = (m * TamPag) + o
      BY EspacioOK, DeMarco DEF Marco
  <1>2. (m + 1) * TamPag = (m * TamPag) + TamPag /\ m * TamPag \in Nat
      BY <1>1
  <1>3. (m + 1) * TamPag - q.df = TamPag - o
      BY <1>1, <1>2
  <1> HIDE DEF m, o
  <1>4. Tramo(q) = IF TamPag - o >= q.size THEN q.size ELSE TamPag - o
      BY <1>3 DEF Tramo, m
  <1> QED BY <1>1, <1>4 DEF o

LEMMA SigueEs ==
  ASSUME tablas \in [Pid -> Seq(Marco)], MarcosUnicos,
         NEW q, q.pid \in Pid, q.df \in Direccion, q.size \in Nat \ {0},
         EnPaginas(q.pid, q.df, q.size), NEW df \in Sigue(q, Tramo(q))
  PROVE  /\ df \in Direccion
         /\ q.size - Tramo(q) > 0 => /\ EnPaginas(q.pid, df, q.size - Tramo(q))
                                     /\ Logica(q.pid, df) = Logica(q.pid, q.df) + Tramo(q)
  <1> DEFINE n == Tramo(q)
             p == q.pid
             L == Len(tablas[p])
             o == q.df % TamPag
  <1>1. n \in 1 .. q.size /\ (n < q.size => n = TamPag - o)
      BY TramoEs
  <1>2. CASE n = q.size
    <2>1. df = q.df
        BY <1>2 DEF Sigue
    <2> QED BY <1>2, <2>1
  <1>3. CASE n # q.size
    <2>1. TamPag \in Nat \ {0} /\ L \in Nat /\ DOMAIN tablas[p] = 1 .. L /\ o \in 0 .. TamPag - 1
        BY EspacioOK, TablaSeq, DeMarco
    <2>2. PICK j \in DOMAIN tablas[p] : /\ tablas[p][j] = MarcoDe(q.df)
                                        /\ (j - 1) * TamPag + o + q.size <= L * TamPag
        BY DEF EnPaginas
    <2>3. n = TamPag - o /\ n < q.size
        BY <1>1, <1>3
    <2>4. (j - 1) * TamPag + TamPag = j * TamPag /\ j \in Nat
        BY <2>1, <2>2
    <2> DEFINE a == (j - 1) * TamPag
    <2>5. a \in Int /\ j * TamPag \in Int /\ L * TamPag \in Int
        BY <2>1, <2>2
    <2>6. j * TamPag + (q.size - n) <= L * TamPag /\ j * TamPag < L * TamPag
        BY <2>1, <2>2, <2>3, <2>4, <2>5
    <2>7. j < L
        BY <2>1, <2>2, <2>6
    <2>8. {k \in DOMAIN tablas[p] : tablas[p][k] = MarcoDe(q.df) /\ k < L} = {j}
        BY <2>2, <2>7 DEF MarcosUnicos
    <2>9. df = tablas[p][j + 1] * TamPag
        BY <1>3, <2>8 DEF Sigue, conseguir_siguiente_marco
    <2>16. j + 1 \in DOMAIN tablas[p] /\ (j + 1) - 1 = j
        BY <2>1, <2>7
    <2>10. j + 1 \in DOMAIN tablas[p] /\ tablas[p][j + 1] \in Marco /\ (j + 1) - 1 = j
        BY <2>16, TablaSeq
    <2>11. df = (tablas[p][j + 1] * TamPag) + 0 /\ 0 \in 0 .. TamPag - 1
        BY <2>1, <2>9, <2>10 DEF Marco
    <2>12. df \in Direccion /\ MarcoDe(df) = tablas[p][j + 1] /\ df % TamPag = 0
        BY <2>10, <2>11, EnMarco
    <2>13. EnPaginas(p, df, q.size - n)
      <3>1. ((j + 1) - 1) * TamPag + (df % TamPag) + (q.size - n) <= L * TamPag
          BY <2>1, <2>4, <2>5, <2>6, <2>10, <2>12
      <3> QED BY <3>1, <2>10, <2>12 DEF EnPaginas
    <2>14. Logica(p, df) = j * TamPag
      <3>1. Logica(p, df) = ((j + 1) - 1) * TamPag + (df % TamPag)
          BY <2>10, <2>12, LogicaEs
      <3> QED BY <2>4, <2>5, <2>10, <2>12, <3>1
    <2>15. Logica(p, q.df) = a + o
        BY <2>2, LogicaEs
    <2> QED BY <2>1, <2>3, <2>4, <2>5, <2>12, <2>13, <2>14, <2>15
  <1> QED BY <1>2, <1>3

-----------------------------------------------------------------------------
(***************************************************************************)
(* Bytes, numbers and texts                                                *)
(***************************************************************************)
LEMMA MenorDe ==
  ASSUME NEW S \in SUBSET Nat, S # {}
  PROVE  Min(S) \in S /\ \A j \in S : Min(S) <= j
  <1>1. PICK x \in S : \A y \in S : <<y, x>> \notin OpToRel(<, Nat)
      BY NatLessThanWellFounded, WFMin
  <1>2. ASSUME NEW y \in S PROVE x <= y
    <2>1. ~(y < x)
        BY <1>1 DEF OpToRel
    <2> QED BY <2>1
  <1> QED BY <1>1, <1>2 DEF Min

(* The fold that Numero is has a value, a natural number: there is a       *)
(* function as its recursion asks for on the sets of up to n places, for   *)
(* every n.                                                                *)
LEMMA NumeroNat ==
  ASSUME NEW s \in Seq(Byte)
  PROVE  Numero(s) \in Nat
  <1> DEFINE D == DOMAIN s
             Hasta(n) == {t \in SUBSET D : Cardinality(t) <= n}
             Paso(f, t) == IF t = {} THEN 0 ELSE s[Min(t)] + Base * f[t \ {Min(t)}]
             Vale(n) == \E f \in [Hasta(n) -> Nat] : \A t \in Hasta(n) : f[t] = Paso(f, t)
             Faltan == {n \in Nat : ~Vale(n)}
  <1>1. /\ D = 1 .. Len(s) /\ Len(s) \in Nat /\ IsFiniteSet(D) /\ Cardinality(D) = Len(s)
        /\ \A j \in D : s[j] \in Nat
    <2>1. D = 1 .. Len(s) /\ Len(s) \in Nat
        BY LenProperties
    <2>2. IsFiniteSet(D) /\ Cardinality(D) = Len(s)
        BY <2>1, FS_Interval
    <2>3. \A j \in D : s[j] \in Byte
        BY <2>1, ElementOfSeq
    <2> QED BY <2>1, <2>2, <2>3, EspacioOK DEF Byte
  <1>2. \A t \in SUBSET D : IsFiniteSet(t) /\ Cardinality(t) \in Nat /\ Cardinality(t) <= Len(s)
      BY <1>1, FS_Subset, FS_CardinalityType
  <1>3. \A t \in SUBSET D : t # {} => /\ Min(t) \in t
                                      /\ Cardinality(t \ {Min(t)}) = Cardinality(t) - 1
                                      /\ Cardinality(t) # 0
    <2> SUFFICES ASSUME NEW t \in SUBSET D, t # {}
                 PROVE  /\ Min(t) \in t
                        /\ Cardinality(t \ {Min(t)}) = Cardinality(t) - 1
                        /\ Cardinality(t) # 0
        OBVIOUS
    <2>1. t \in SUBSET Nat
        BY <1>1
    <2>2. Min(t) \in t
        BY <2>1, MenorDe
    <2> QED BY <1>2, <2>2, FS_RemoveElement, FS_EmptySet
  <1>4. Vale(0)
    <2>1. Hasta(0) = {{}}
        BY <1>2, <1>3, FS_EmptySet
    <2> DEFINE f == [t \in Hasta(0) |-> 0]
    <2>2. f \in [Hasta(0) -> Nat] /\ \A t \in Hasta(0) : f[t] = Paso(f, t)
        BY <2>1
    <2> QED BY <2>2
  <1>5. ASSUME NEW n \in Nat, Vale(n) PROVE Vale(n + 1)
    <2>1. PICK f \in [Hasta(n) -> Nat] : \A t \in Hasta(n) : f[t] = Paso(f, t)
        BY <1>5
    <2> DEFINE g == [t \in Hasta(n + 1) |-> Paso(f, t)]
    <2>2. \A t \in Hasta(n + 1) : t # {} => /\ t \ {Min(t)} \in Hasta(n) /\ t \ {Min(t)} \in Hasta(n + 1)
                                            /\ s[Min(t)] \in Nat
      <3> SUFFICES ASSUME NEW t \in Hasta(n + 1), t # {}
                   PROVE  /\ t \ {Min(t)} \in Hasta(n) /\ t \ {Min(t)} \in Hasta(n + 1)
                          /\ s[Min(t)] \in Nat
          OBVIOUS
      <3>1. t \in SUBSET D /\ Cardinality(t) \in Nat /\ Cardinality(t) <= n + 1
          BY <1>2
      <3>2. Min(t) \in t /\ Cardinality(t \ {Min(t)}) = Cardinality(t) - 1
          BY <1>3, <3>1
      <3>3. t \ {Min(t)} \in SUBSET D /\ Min(t) \in D
          BY <3>1, <3>2
      <3> QED BY <1>1, <3>1, <3>2, <3>3
    <2>3. g \in [Hasta(n + 1) -> Nat]
      <3> SUFFICES ASSUME NEW t \in Hasta(n + 1) PROVE Paso(f, t) \in Nat
          OBVIOUS
      <3>1. CASE t = {}
          BY <3>1
      <3>2. CASE t # {}
        <4>1. s[Min(t)] \in Nat /\ t \ {Min(t)} \in Hasta(n)
            BY <2>2, <3>2
        <4>2. f[t \ {Min(t)}] \in Nat
            BY <2>1, <4>1
        <4>3. Base * f[t \ {Min(t)}] \in Nat
            BY <4>2, EspacioOK
        <4> QED BY <3>2, <4>1, <4>3
      <3> QED BY <3>1, <3>2
    <2>4. \A t \in Hasta(n + 1) : g[t] = Paso(g, t)
      <3> SUFFICES ASSUME NEW t \in Hasta(n + 1) PROVE g[t] = Paso(g, t)
          OBVIOUS
      <3>1. CASE t = {}
          BY <3>1
      <3>2. CASE t # {}
        <4> DEFINE u == t \ {Min(t)}
        <4>1. u \in Hasta(n) /\ u \in Hasta(n + 1)
            BY <2>2, <3>2
        <4>2. g[u] = Paso(f, u) /\ Paso(f, u) = f[u]
            BY <2>1, <4>1
        <4> QED BY <3>2, <4>2
      <3> QED BY <3>1, <3>2
    <2> HIDE DEF g
    <2> QED BY <2>3, <2>4
  <1>6. Faltan = {}
    <2> SUFFICES ASSUME Faltan # {} PROVE FALSE
        OBVIOUS
    <2>1. Min(Faltan) \in Faltan /\ \A j \in Faltan : Min(Faltan) <= j
        BY MenorDe
    <2> DEFINE m == Min(Faltan)
    <2> HIDE DEF m, Vale
    <2>2. m \in Nat /\ ~Vale(m) /\ \A j \in Nat : ~Vale(j) => m <= j
        BY <2>1 DEF m
    <2>3. m # 0
        BY <1>4, <2>2
    <2>4. Vale(m - 1)
        BY <2>2, <2>3
    <2>5. Vale((m - 1) + 1)
        BY <1>5, <2>2, <2>3, <2>4
    <2> QED BY <2>2, <2>5
  <1>7. Vale(Len(s))
      BY <1>1, <1>6
  <1>8. Hasta(Len(s)) = SUBSET D
      BY <1>2
  <1> DEFINE Iter(f) == f = [t \in SUBSET D |-> Paso(f, t)]
             it == CHOOSE f : Iter(f)
  <1>9. \E f : Iter(f)
      BY <1>7, <1>8
  <1>10. Iter(it)
      BY <1>9
  <1>11. Numero(s) = it[D]
      BY DEF Numero, FoldRight, MapThenFoldSet
  <1> DEFINE Malos == {n \in Nat : \E t \in SUBSET D : Cardinality(t) = n /\ it[t] \notin Nat}
  <1>12. Malos = {}
    <2> SUFFICES ASSUME Malos # {} PROVE FALSE
        OBVIOUS
    <2>1. Min(Malos) \in Malos /\ \A j \in Malos : Min(Malos) <= j
        BY MenorDe
    <2>2. PICK t \in SUBSET D : Cardinality(t) = Min(Malos) /\ it[t] \notin Nat
        BY <2>1
    <2> HIDE DEF it
    <2>3. it[t] = Paso(it, t)
        BY <1>10
    <2>4. t # {}
        BY <2>2, <2>3
    <2>5. it[t \ {Min(t)}] \in Nat
      <3>1. t \ {Min(t)} \in SUBSET D /\ Cardinality(t \ {Min(t)}) = Min(Malos) - 1 /\ Min(Malos) # 0
          BY <1>3, <2>2, <2>4
      <3>2. Min(Malos) - 1 \in Nat /\ Min(Malos) - 1 \notin Malos
          BY <2>1, <3>1
      <3> QED BY <3>1, <3>2
    <2>6. s[Min(t)] \in Nat
        BY <1>1, <1>3, <2>4
    <2> QED BY <2>2, <2>3, <2>4, <2>5, <2>6, EspacioOK
  <1> HIDE DEF it, D
  <1>13. D \in SUBSET D /\ Cardinality(D) \in Nat
      BY <1>2
  <1>14. it[D] \in Nat
      BY <1>12, <1>13
  <1> QED BY <1>11, <1>14

LEMMA BytesEs ==
  ASSUME NEW v \in Nat, NEW n \in {1, TamInt}
  PROVE  Bytes(v, n) \in Seq(Byte) /\ Len(Bytes(v, n)) = n
  <1>1. n \in Nat /\ Base \in Nat \ {0}
      BY EspacioOK, ProgramasOK
  <1>2. ASSUME NEW i \in 1 .. n PROVE (v \div Base ^ (i - 1)) % Base \in Byte
    <2>1. i - 1 \in 0 .. TamInt
        BY <1>1, ProgramasOK
    <2>2. Base ^ (i - 1) \in Nat \ {0}
        BY <2>1, PotenciasOK
    <2>3. v \div Base ^ (i - 1) \in Nat
        BY <2>2, Cociente
    <2> QED BY <1>1, <2>3, Cociente DEF Byte
  <1>3. Bytes(v, n) \in [1 .. n -> Byte]
      BY <1>2 DEF Bytes
  <1> QED BY <1>1, <1>3

LEMMA CopiablesEs ==
  ASSUME NEW s, NEW n \in Nat, NEW b \in Copiables(s, n)
  PROVE  b \in Seq(Byte) /\ Len(b) = n
  <1>1. b \in [1 .. n -> Byte]
      BY DEF Copiables
  <1> QED BY <1>1

LEMMA PedidoEs ==
  ASSUME NEW p \in Pid, NEW df \in Direccion
  PROVE  /\ \A n \in Nat : Lectura(p, df, n) \in PedidoType /\ Lectura(p, df, n) # Nada
         /\ \A s \in Seq(Byte) : Escritura(p, df, s) \in PedidoType /\ Escritura(p, df, s) # Nada
  <1>1. <<>> \in Seq(Byte) /\ \A s \in Seq(Byte) : Len(s) \in Nat
      BY LenProperties
  <1> QED BY <1>1 DEF Lectura, Escritura, PedidoType, Nada

LEMMA DePedido ==
  ASSUME NEW q \in PedidoType, q # Nada
  PROVE  /\ q.op \in {"leer", "escribir"} /\ q.pid \in Pid /\ q.df \in Direccion
         /\ q.size \in Nat /\ q.buffer \in Seq(Byte)
  BY DEF PedidoType

-----------------------------------------------------------------------------
(***************************************************************************)
(* What the instructions and the answers do to where the process is        *)
(***************************************************************************)
\* The process stays in the CPU,
LEMMA PasoDeCPU ==
  ASSUME IInv, Tipos', curso # Libre, curso.en # "wait", curso' # Libre, curso'.en # "wait",
         regs'.pid = regs.pid, UNCHANGED <<tablas, a_kernel, estado, bloqueados>>,
         \A f \in Interfaz : pedido'[f] = pedido[f],
         pedido'["CPU"] # Nada <=> curso'.en \in {"mov_in", "copiar", "escribir"},
         pedido'["CPU"] # Nada =>
           /\ pedido'["CPU"].pid = regs.pid
           /\ pedido'["CPU"].op = "escribir" <=> curso'.en = "escribir"
           /\ pedido'["CPU"].size > 0 => EnPaginas(regs.pid, pedido'["CPU"].df, pedido'["CPU"].size),
         curso'.en = "copiar" => EnPaginas(regs.pid, curso'.df, curso'.size)
  PROVE  IInv'
  <1>1. MarcosUnicos' /\ Colas'
      BY DEF IInv, MarcosUnicos, Colas, EnPaginas
  <1>2. a_kernel = <<>>
      BY DEF IInv, Viaje
  <1>3. Viaje' /\ EnUnLugar'
      BY <1>2 DEF IInv, Viaje, EnUnLugar, EnCpu, EnCamino
  <1>4. Pedidos'
    <2>1. \A f \in Interfaz : pedido'[f] # Nada =>
            /\ bloqueados'[f] # <<>> /\ pedido'[f].pid = bloqueados'[f][1].pid
            /\ pedido'[f].op = IF f = "STDIN" THEN "escribir" ELSE "leer"
        BY DEF IInv, Pedidos
    <2>2. \A h \in Hilo : (pedido[h] # Nada /\ pedido[h].size > 0
                              => EnPaginas(pedido[h].pid, pedido[h].df, pedido[h].size))'
      <3>1. (pedido["CPU"] # Nada /\ pedido["CPU"].size > 0
               => EnPaginas(pedido["CPU"].pid, pedido["CPU"].df, pedido["CPU"].size))'
          BY DEF EnPaginas
      <3>2. \A f \in Interfaz : (pedido[f] # Nada /\ pedido[f].size > 0
                                    => EnPaginas(pedido[f].pid, pedido[f].df, pedido[f].size))'
          BY Hilos DEF IInv, Pedidos, EnPaginas
      <3> QED BY <3>1, <3>2, Hilos
    <2>3. (curso.en = "copiar" => EnPaginas(regs.pid, curso.df, curso.size))'
        BY DEF EnPaginas
    <2>4. (pedido["CPU"] # Nada <=> curso.en \in {"mov_in", "copiar", "escribir"})'
        OBVIOUS
    <2>5. (pedido["CPU"] # Nada => /\ pedido["CPU"].pid = regs.pid
                                   /\ pedido["CPU"].op = "escribir" <=> curso.en = "escribir")'
        OBVIOUS
    <2> QED BY <2>1, <2>2, <2>3, <2>4, <2>5 DEF Pedidos
  <1> QED BY <1>1, <1>3, <1>4 DEF IInv

\* leaves with its context on the way to the kernel,
LEMMA SaleDeCPU ==
  ASSUME IInv, Tipos', curso # Libre, curso.en # "wait", curso' = Libre, pedido["CPU"] = Nada,
         UNCHANGED <<tablas, estado, bloqueados, pedido>>,
         a_kernel' # <<>>, a_kernel'[1] = regs.pid, actualizar_pcb(a_kernel') \in [pc: Nat, val: Banco],
         \/ Motivo(a_kernel') \in {"INTERRUPCION", "EXIT", "OUT_OF_MEMORY"}
         \/ /\ EsIO(Motivo(a_kernel')) /\ Dato(a_kernel', 1) = InterfazDe(Motivo(a_kernel'))
            /\ Dato(a_kernel', 2) \in Direccion /\ Dato(a_kernel', 3) \in Nat
            /\ EnPaginas(regs.pid, Dato(a_kernel', 2), Dato(a_kernel', 3))
  PROVE  IInv'
  <1>1. MarcosUnicos' /\ Colas'
      BY DEF IInv, MarcosUnicos, Colas, EnPaginas
  <1>2. a_kernel = <<>> /\ regs.pid \in Pid
      BY DEF IInv, Viaje, Tipos
  <1>3. EnUnLugar'
      BY <1>2 DEF IInv, EnUnLugar, EnCpu, EnCamino
  <1>4. Viaje'
    <2>1. EsIO(Motivo(a_kernel')) => EnPaginas(a_kernel[1], Dato(a_kernel, 2), Dato(a_kernel, 3))'
        BY DEF EnPaginas, EsIO
    <2> QED BY <1>2, <2>1 DEF Viaje, Libre, EsIO, InterfazDe
  <1>5. Pedidos'
      BY DEF IInv, Pedidos, EnPaginas, Libre
  <1> QED BY <1>1, <1>3, <1>4, <1>5 DEF IInv

-----------------------------------------------------------------------------
(***************************************************************************)
(* Initial states                                                          *)
(***************************************************************************)
LEMMA CeroEnBanco == [r \in Registro |-> 0] \in Banco /\ RegsLibres \in [pid: Pid \cup {0}, pc: Nat, val: Banco]
  <1>1. \A r \in Registro : 0 \in 0 .. Palabra(r) - 1
      BY PalabraNat
  <1> QED BY <1>1 DEF Banco, RegsLibres

LEMMA InicioIInv == Init => IInv
  <1> SUFFICES ASSUME Init PROVE IInv
      OBVIOUS
  <1>1. tablas = [p \in Pid |-> <<>>] /\ a_kernel = <<>> /\ curso = Libre
          /\ pedido = [h \in Hilo |-> Nada] /\ bloqueados = [f \in Interfaz |-> <<>>]
          /\ estado = [p \in Pid |-> "READY"] /\ Libre.en = "libre"
      BY DEF Init, Tablas!Init, Libre
  <1>2. Tipos
    <2>1. codigo \in [Pid -> Seq(Linea)]
        BY LineasOK DEF Init
    <2>2. espacio \in [Direccion -> Byte]
        BY DEF Init
    <2>3. pcb \in [Pid -> [pc: Nat, val: Banco]] /\ regs \in [pid: Pid \cup {0}, pc: Nat, val: Banco]
        BY CeroEnBanco DEF Init
    <2>4. curso \in Curso
        BY <1>1 DEF Curso, Libre
    <2>5. pedido \in [Hilo -> PedidoType] /\ \A h \in Hilo : pedido[h].op = "nada"
        BY <1>1 DEF PedidoType, Nada
    <2>6. tablas \in [Pid -> Seq(Marco)] /\ bloqueados \in [Interfaz -> Seq(Renglon)]
        BY <1>1
    <2> QED BY <1>1, <2>1, <2>2, <2>3, <2>4, <2>5, <2>6 DEF Tipos, Estado
  <1>3. MarcosUnicos /\ Colas
      BY <1>1 DEF MarcosUnicos, Colas
  <1>4. Viaje /\ EnUnLugar
      BY <1>1 DEF Viaje, EnUnLugar, EnCpu, EnCamino
  <1>5. Pedidos
      BY <1>1, Hilos DEF Pedidos
  <1> QED BY <1>2, <1>3, <1>4, <1>5 DEF IInv

-----------------------------------------------------------------------------
(***************************************************************************)
(* Instructions                                                            *)
(***************************************************************************)
LEMMA LineaEs ==
  ASSUME NEW i \in Linea
  PROVE  /\ i[1] = "SET" => i[2] \in Nombre /\ i[3] \in Nat
         /\ i[1] = "JNZ" => i[2] \in Nombre /\ i[3] \in Nat \ {0}
         /\ i[1] \in {"SUM", "SUB", "MOV_IN", "MOV_OUT"} => i[2] \in Nombre /\ i[3] \in Nombre
         /\ i[1] \in {"RESIZE", "COPY_STRING"} => i[2] \in Nat
         /\ i[1] = "WAIT" => i[2] \in STRING
         /\ EsIO(i[1]) => i[2] = InterfazDe(i[1]) /\ i[3] \in Nombre /\ i[4] \in Nombre
  BY DEF Linea, EsIO, InterfazDe

LEMMA ConsultadosEs ==
  ASSUME NEW i, Consultados(i) \subseteq Registro
  PROVE  /\ i[1] = "JNZ" => i[2] \in Registro
         /\ i[1] \in {"SUM", "SUB", "MOV_IN", "MOV_OUT"} => i[2] \in Registro /\ i[3] \in Registro
         /\ EsIO(i[1]) => i[3] \in Registro /\ i[4] \in Registro
  BY DEF Consultados, EsIO

LEMMA RegsEs ==
  ASSUME Tipos, curso # Libre
  PROVE  /\ regs.pid \in Pid /\ regs.pc \in Nat /\ regs.val \in Banco
         /\ \A r \in Registro : regs.val[r] \in Nat
         /\ Avanzado = [pid |-> regs.pid, pc |-> regs.pc + 1, val |-> regs.val]
         /\ Avanzado \in [pid: Pid \cup {0}, pc: Nat, val: Banco]
  <1>1. /\ regs \in [pid: Pid \cup {0}, pc: Nat, val: Banco]
        /\ regs.pid \in Pid /\ regs.pc \in Nat /\ regs.val \in Banco
      BY DEF Tipos
  <1>2. \A r \in Registro : regs.val[r] \in Nat
      BY <1>1 DEF Banco
  <1>3. /\ Avanzado = [pid |-> regs.pid, pc |-> regs.pc + 1, val |-> regs.val]
        /\ Avanzado \in [pid: Pid \cup {0}, pc: Nat, val: Banco]
      BY <1>1 DEF Avanzado
  <1> QED BY <1>1, <1>2, <1>3

LEMMA AsignadoEs ==
  ASSUME Tipos, curso # Libre, NEW r \in Nombre, NEW v \in Int, r = "PC" => v \in Nat
  PROVE  Asignado(r, v) \in [pid: Pid \cup {0}, pc: Nat, val: Banco] /\ Asignado(r, v).pid = regs.pid
  <1>1. CASE r = "PC"
      BY <1>1, RegsEs DEF Asignado, Tipos
  <1>2. CASE r # "PC"
    <2>1. [regs.val EXCEPT ![r] = v % Palabra(r)] \in Banco
        BY <1>2, RegsEs, RestoEnBanco DEF Nombre
    <2>2. Asignado(r, v) = [pid |-> regs.pid, pc |-> regs.pc + 1,
                            val |-> [regs.val EXCEPT ![r] = v % Palabra(r)]]
        BY <1>2 DEF Asignado, Tipos
    <2> QED BY <2>1, <2>2, RegsEs
  <1> QED BY <1>1, <1>2

\* Only the CPU goes on: its registers, its request and what it waits for.
LEMMA TiposCPU ==
  ASSUME Tipos, UNCHANGED <<codigo, espacio, tablas, pcb, estado, bloqueados>>,
         regs' \in [pid: Pid \cup {0}, pc: Nat, val: Banco], curso' \in Curso,
         curso' # Libre => regs'.pid \in Pid,
         NEW q \in PedidoType, q.op = "escribir" => Len(q.buffer) = q.size,
         pedido' = [pedido EXCEPT !["CPU"] = q]
  PROVE  Tipos' /\ pedido'["CPU"] = q /\ \A f \in Interfaz : pedido'[f] = pedido[f]
  <1>1. pedido' \in [Hilo -> PedidoType] /\ pedido'["CPU"] = q
      BY Hilos DEF Tipos
  <1>2. \A h \in Hilo : pedido'[h].op = "escribir" => Len(pedido'[h].buffer) = pedido'[h].size
      BY <1>1 DEF Tipos
  <1>3. \A f \in Interfaz : pedido'[f] = pedido[f]
      BY DEF Tipos, Interfaz
  <1> QED BY <1>1, <1>2, <1>3 DEF Tipos

LEMMA TiposCPUSinPedir ==
  ASSUME Tipos, UNCHANGED <<codigo, espacio, tablas, pedido, pcb, estado, bloqueados>>,
         regs' \in [pid: Pid \cup {0}, pc: Nat, val: Banco], curso' \in Curso,
         curso' # Libre => regs'.pid \in Pid
  PROVE  Tipos'
  BY DEF Tipos

LEMMA NadaEs == Nada \in PedidoType /\ Nada.op = "nada"
  BY DEF Nada, PedidoType

LEMMA CursoEs ==
  /\ \A e \in {"libre", "fetch", "check", "escribir", "wait"} :
       [en |-> e] \in Curso /\ [en |-> e].en = e /\ (e # "libre" => [en |-> e] # Libre)
  /\ \A r \in Registro : /\ [en |-> "mov_in", reg |-> r] \in Curso
                         /\ [en |-> "mov_in", reg |-> r].en = "mov_in" /\ [en |-> "mov_in", reg |-> r] # Libre
  /\ Libre.en = "libre"
  BY DEF Curso, Libre

LEMMA PasoEnRegistros ==
  ASSUME IInv, curso.en = "fetch", NEW i \in Linea, Consultados(i) \subseteq Registro, EnRegistros(i)
  PROVE  IInv'
  <1>1. Tipos /\ curso # Libre /\ pedido["CPU"] = Nada
      BY DEF IInv, Pedidos, Libre
  <1>2. curso' = [en |-> "check"]
          /\ UNCHANGED <<codigo, espacio, tablas, pedido, pcb, estado, bloqueados, a_kernel>>
      BY DEF EnRegistros, Seguir, delKernel, delaMemoria
  <1>3. regs' \in [pid: Pid \cup {0}, pc: Nat, val: Banco] /\ regs'.pid = regs.pid
    <2>1. CASE i[1] = "SET" /\ regs' = Asignado(i[2], i[3])
        BY <1>1, <2>1, LineaEs, AsignadoEs
    <2>2. CASE i[1] = "SUM" /\ regs' = Asignado(i[2], regs.val[i[3]] + regs.val[i[2]])
      <3>1. i[2] \in Registro /\ i[3] \in Registro /\ i[2] \in Nombre /\ i[2] # "PC"
          BY <2>2, ConsultadosEs, LineaEs, ProgramasOK
      <3>2. regs.val[i[3]] + regs.val[i[2]] \in Int
          BY <1>1, <3>1, RegsEs
      <3> QED BY <1>1, <2>2, <3>1, <3>2, AsignadoEs
    <2>3. CASE i[1] = "SUB" /\ regs' = Asignado(i[2], regs.val[i[2]] - regs.val[i[3]])
      <3>1. i[2] \in Registro /\ i[3] \in Registro /\ i[2] \in Nombre /\ i[2] # "PC"
          BY <2>3, ConsultadosEs, LineaEs, ProgramasOK
      <3>2. regs.val[i[2]] - regs.val[i[3]] \in Int
          BY <1>1, <3>1, RegsEs
      <3> QED BY <1>1, <2>3, <3>1, <3>2, AsignadoEs
    <2>4. CASE i[1] = "JNZ" /\ regs' = IF regs.val[i[2]] # 0 THEN [regs EXCEPT !.pc = i[3] - 1] ELSE Avanzado
      <3>1. i[3] - 1 \in Nat
          BY <2>4, LineaEs
      <3>2. [regs EXCEPT !.pc = i[3] - 1] \in [pid: Pid \cup {0}, pc: Nat, val: Banco]
              /\ [regs EXCEPT !.pc = i[3] - 1].pid = regs.pid
          BY <1>1, <3>1 DEF Tipos
      <3> QED BY <1>1, <2>4, <3>2, RegsEs
    <2> QED BY <2>1, <2>2, <2>3, <2>4 DEF EnRegistros
  <1>4. Tipos'
      BY <1>1, <1>2, <1>3, CursoEs, RegsEs, TiposCPUSinPedir
  <1> QED BY <1>1, <1>2, <1>3, <1>4, CursoEs, PasoDeCPU

LEMMA DentroEs ==
  ASSUME tablas \in [Pid -> Seq(Marco)], MarcosUnicos, NEW p \in Pid, NEW dl \in Nat, NEW n \in Nat, Dentro(p, dl, n)
  PROVE  /\ DireccionDe(p, dl) \in Direccion /\ EnPaginas(p, DireccionDe(p, dl), n)
         /\ Logica(p, DireccionDe(p, dl)) = dl /\ dl + n <= Len(tablas[p]) * TamPag
  BY Mmu DEF Dentro

(* What a lookup of the TLB gives, and the row that it may add.            *)
LEMMA MovidaEs ==
  ASSUME NEW S, NEW s \in Seq(S), NEW k \in 1 .. Len(s)
  PROVE  /\ Append(RemoveAt(s, k), s[k]) \in Seq(S)
         /\ \A j \in DOMAIN Append(RemoveAt(s, k), s[k]) :
              \E l \in DOMAIN s : Append(RemoveAt(s, k), s[k])[j] = s[l]
  <1> DEFINE a == SubSeq(s, 1, k - 1)
             b == SubSeq(s, k + 1, Len(s))
             c == a \o b
             d == Append(c, s[k])
             R == {s[l] : l \in 1 .. Len(s)}
  <1>1. Len(s) \in Nat /\ DOMAIN s = 1 .. Len(s) /\ s[k] \in R /\ R \subseteq S
    <2>1. \A l \in 1 .. Len(s) : s[l] \in S
        BY LenProperties, ElementOfSeq
    <2> QED BY <2>1, LenProperties
  <1>2. a \in Seq(R)
    <2>1. \A l \in 1 .. k - 1 : s[l] \in R
        BY <1>1
    <2> QED BY <1>1, <2>1, SubSeqProperties
  <1>3. b \in Seq(R)
    <2>1. \A l \in k + 1 .. Len(s) : s[l] \in R
        BY <1>1
    <2> QED BY <1>1, <2>1, SubSeqProperties
  <1> HIDE DEF a, b
  <1>4. c \in Seq(R)
      BY <1>2, <1>3, ConcatProperties
  <1> HIDE DEF c
  <1>5. d \in Seq(R)
      BY <1>1, <1>4, AppendProperties
  <1> HIDE DEF d, R
  <1>6. d \in Seq(S) /\ \A j \in DOMAIN d : d[j] \in R
      BY <1>1, <1>5, ElementOfSeq, LenProperties
  <1>7. d = Append(RemoveAt(s, k), s[k])
      BY DEF RemoveAt, a, b, c, d
  <1> QED BY <1>1, <1>6, <1>7 DEF R

LEMMA EntraEs ==
  ASSUME NEW S, NEW s \in Seq(S), NEW f \in S, NEW n \in Nat \ {0}
  PROVE  LET quedan == IF Len(s) < n THEN s ELSE Tail(s)
             t == Append(quedan, f)
         IN /\ t \in Seq(S)
            /\ \A j \in DOMAIN t : t[j] = f \/ \E l \in DOMAIN s : t[j] = s[l]
  <1> DEFINE quedan == IF Len(s) < n THEN s ELSE Tail(s)
             t == Append(quedan, f)
             R == {s[l] : l \in 1 .. Len(s)}
  <1>1. Len(s) \in Nat /\ DOMAIN s = 1 .. Len(s) /\ R \subseteq S
    <2>1. \A l \in 1 .. Len(s) : s[l] \in S
        BY LenProperties, ElementOfSeq
    <2> QED BY <2>1, LenProperties
  <1>2. s \in Seq(R)
    <2>1. s \in [1 .. Len(s) -> R]
        BY <1>1, LenProperties
    <2> HIDE DEF R
    <2> QED BY <1>1, <2>1
  <1>3. quedan \in Seq(R)
    <2>1. CASE Len(s) < n
        BY <1>2, <2>1
    <2>2. CASE ~(Len(s) < n)
      <3>1. s # <<>>
          BY <1>1, <2>2
      <3> QED BY <1>2, <2>2, <3>1, HeadTailProperties
    <2> QED BY <2>1, <2>2
  <1> HIDE DEF quedan
  <1> DEFINE T == R \cup {f}
  <1>4. quedan \in Seq(T)
    <2>1. \A l \in 1 .. Len(quedan) : quedan[l] \in T
        BY <1>3, ElementOfSeq, LenProperties
    <2>2. quedan \in [1 .. Len(quedan) -> T] /\ Len(quedan) \in Nat
        BY <1>3, <2>1, LenProperties
    <2> QED BY <2>2
  <1>5. t \in Seq(T) /\ T \subseteq S
      BY <1>1, <1>4, AppendProperties
  <1> HIDE DEF t, T
  <1>6. \A j \in DOMAIN t : t[j] \in T
      BY <1>5, ElementOfSeq, LenProperties
  <1>7. t \in Seq(S)
      BY <1>5, <1>6, LenProperties
  <1> QED BY <1>1, <1>6, <1>7 DEF T, R, t, quedan

LEMMA MarcoConseguido ==
  ASSUME tablas \in [Pid -> Seq(Marco)], FInv, NEW p \in Pid, estado[p] # "EXIT",
         NEW dl \in Nat, dl < Len(tablas[p]) * TamPag, conseguir_marco(p, dl)
  PROVE  /\ componente_mmu(dl) = DireccionDe(p, dl)
         /\ cola' \in Seq(Fila) /\ achicado' = achicado
         /\ \A j \in DOMAIN cola' : FilaBuena(cola'[j])
  <1> DEFINE g == dl \div TamPag
             c == <<p, g>>
             m == tablas[p][g + 1]
             f == [clave |-> c, marco |-> m]
  <1>1. TamPag \in Nat \ {0} /\ Len(tablas[p]) \in Nat
      BY EspacioOK, TablaSeq
  <1>2. g \in Nat /\ g < Len(tablas[p])
      BY <1>1, Cociente
  <1>3. m \in Marco
    <2>1. g + 1 \in DOMAIN tablas[p]
        BY <1>1, <1>2, TablaSeq
    <2> QED BY <2>1, TablaSeq
  <1>4. f \in Fila /\ FilaBuena(f)
      BY <1>2, <1>3 DEF Fila, FilaBuena
  <1>5. cola \in Seq(Fila) /\ DOMAIN cola = 1 .. Len(cola) /\ \A j \in DOMAIN cola : FilaBuena(cola[j])
      BY LenProperties DEF FInv
  <1>6. achicado' = achicado
      BY DEF conseguir_marco
  <1>7. CASE MMU!Acierto(c)
    <2>1. PICK k \in DOMAIN cola :
            /\ cola[k].clave = c /\ traducido' = cola[k].marco
            /\ cola' = IF algoritmo = "FIFO" THEN cola ELSE Append(RemoveAt(cola, k), cola[k])
        BY <1>7 DEF MMU!Acierto, MMU!RemoveAt, RemoveAt
    <2>2. traducido' = m
        BY <1>2, <1>5, <2>1 DEF FilaBuena
    <2>3. cola' \in Seq(Fila) /\ \A j \in DOMAIN cola' : \E l \in DOMAIN cola : cola'[j] = cola[l]
      <3>1. CASE cola' = cola
          BY <1>5, <3>1
      <3>2. CASE cola' = Append(RemoveAt(cola, k), cola[k])
        <4>1. k \in 1 .. Len(cola)
            BY <1>5
        <4>2. /\ Append(RemoveAt(cola, k), cola[k]) \in Seq(Fila)
              /\ \A j \in DOMAIN Append(RemoveAt(cola, k), cola[k]) :
                   \E l \in DOMAIN cola : Append(RemoveAt(cola, k), cola[k])[j] = cola[l]
          <5>1. cola \in Seq(Fila)
              BY <1>5
          <5>2. PICK t \in Seq(Fila) : t = cola
              BY <5>1
          <5>3. Append(RemoveAt(t, k), t[k]) \in Seq(Fila)
              BY <4>1, <5>2, MovidaEs
          <5>4. \A j \in DOMAIN Append(RemoveAt(t, k), t[k]) : \E l \in DOMAIN t : Append(RemoveAt(t, k), t[k])[j] = t[l]
              BY <4>1, <5>2, MovidaEs
          <5> QED BY <5>2, <5>3, <5>4
        <4> QED BY <3>2, <4>2
      <3> QED BY <2>1, <3>1, <3>2
    <2> HIDE DEF m
    <2>4. \A j \in DOMAIN cola' : FilaBuena(cola'[j])
      <3> SUFFICES ASSUME NEW j \in DOMAIN cola' PROVE FilaBuena(cola'[j])
          OBVIOUS
      <3>1. PICK l \in DOMAIN cola : cola'[j] = cola[l]
          BY <2>3
      <3>2. FilaBuena(cola[l])
          BY <1>5
      <3> QED BY <3>1, <3>2
    <2> QED BY <1>6, <2>2, <2>3, <2>4 DEF componente_mmu, DireccionDe, m
  <1>8. CASE MMU!Fallo(c, m)
    <2>1. traducido' = m
        BY <1>8 DEF MMU!Fallo
    <2>2. cola' \in Seq(Fila) /\ \A j \in DOMAIN cola' : cola'[j] = f \/ \E l \in DOMAIN cola : cola'[j] = cola[l]
      <3>1. CASE Entradas = 0
        <4>1. cola' = <<>>
            BY <1>8, <3>1 DEF MMU!Fallo
        <4> QED BY <4>1
      <3>2. CASE Entradas # 0
        <4>1. Entradas \in Nat \ {0}
            BY <3>2, ProgramasOK
        <4>2. cola' = Append(IF Len(cola) < Entradas THEN cola ELSE Tail(cola), f)
            BY <1>8, <3>2 DEF MMU!Fallo
        <4> HIDE DEF f
        <4> QED BY <1>4, <1>5, <4>1, <4>2, EntraEs
      <3> QED BY <3>1, <3>2
    <2> HIDE DEF m, f
    <2>3. \A j \in DOMAIN cola' : FilaBuena(cola'[j])
      <3> SUFFICES ASSUME NEW j \in DOMAIN cola' PROVE FilaBuena(cola'[j])
          OBVIOUS
      <3>1. CASE cola'[j] = f
          BY <1>4, <3>1
      <3>2. CASE \E l \in DOMAIN cola : cola'[j] = cola[l]
        <4>1. PICK l \in DOMAIN cola : cola'[j] = cola[l]
            BY <3>2
        <4>2. FilaBuena(cola[l])
            BY <1>5
        <4> QED BY <4>1, <4>2
      <3> QED BY <2>2, <3>1, <3>2
    <2> QED BY <1>6, <2>1, <2>2, <2>3 DEF componente_mmu, DireccionDe, m
  <1> QED BY <1>7, <1>8 DEF conseguir_marco

LEMMA EnEjecucion ==
  ASSUME IInv, curso # Libre
  PROVE  regs.pid \in Pid /\ estado[regs.pid] = "RUNNING" /\ tablas \in [Pid -> Seq(Marco)]
  BY DEF IInv, Tipos, EnUnLugar, EnCpu

(* The instructions that look in the memory, with the addresses that the   *)
(* page tables give.                                                       *)
MovInDeTabla(i) ==
  LET dl == regs.val[i[3]]
  IN /\ i[1] = "MOV_IN" /\ Dentro(regs.pid, dl, TamReg[i[2]])
     /\ Pedir("CPU", Lectura(regs.pid, DireccionDe(regs.pid, dl), TamReg[i[2]]))
     /\ regs' = Avanzado /\ Seguir([en |-> "mov_in", reg |-> i[2]])
     /\ UNCHANGED <<delaMemoria, a_kernel, caido>>

MovOutDeTabla(i) ==
  LET dl == regs.val[i[2]]
  IN /\ i[1] = "MOV_OUT" /\ Dentro(regs.pid, dl, TamReg[i[3]])
     /\ Pedir("CPU", Escritura(regs.pid, DireccionDe(regs.pid, dl), Bytes(regs.val[i[3]], TamReg[i[3]])))
     /\ regs' = Avanzado /\ Seguir([en |-> "escribir"])
     /\ UNCHANGED <<delaMemoria, a_kernel, caido>>

CopyStringDeTabla(i) ==
  LET si == regs.val["SI"]
      di == regs.val["DI"]
  IN /\ i[1] = "COPY_STRING" /\ Dentro(regs.pid, si, i[2]) /\ Dentro(regs.pid, di, i[2])
     /\ Pedir("CPU", Lectura(regs.pid, DireccionDe(regs.pid, si), i[2]))
     /\ regs' = Avanzado
     /\ Seguir([en |-> "copiar", df |-> DireccionDe(regs.pid, di), size |-> i[2]])
     /\ UNCHANGED <<delaMemoria, a_kernel, caido>>

IODeTabla(i) ==
  LET dl == regs.val[i[3]]
  IN /\ i[1] \in {"IO_STDIN_READ", "IO_STDOUT_WRITE"} /\ Dentro(regs.pid, dl, regs.val[i[4]])
     /\ enviar_pcb(Avanzado, i[1], <<i[2], DireccionDe(regs.pid, dl), regs.val[i[4]]>>)
     /\ regs' = RegsLibres /\ Seguir(Libre)
     /\ UNCHANGED <<delaMemoria, pedido, caido>>

LEMMA DecodeDe ==
  ASSUME IInv, FInv, curso.en = "decode"
  PROVE  /\ curso # Libre /\ regs.pid \in Pid /\ HayInstruccion /\ Instruccion \in Linea
         /\ Instruccion[1] = "COPY_STRING" /\ Instruccion[2] \in Nat
         /\ Dentro(regs.pid, regs.val["SI"], Instruccion[2]) /\ Dentro(regs.pid, regs.val["DI"], Instruccion[2])
         /\ curso.df = DireccionDe(regs.pid, regs.val["SI"])
         /\ regs.val["SI"] \in Nat /\ regs.val["DI"] \in Nat
  <1>1. Tipos /\ curso # Libre /\ Decodificada
      BY DEF IInv, FInv, Libre
  <1>2. regs.pid \in Pid /\ codigo[regs.pid] \in Seq(Linea)
      BY <1>1 DEF Tipos
  <1>3. Instruccion \in Linea
      BY <1>1, <1>2, ElementOfSeq, LenProperties DEF Decodificada, HayInstruccion, Instruccion
  <1>4. Instruccion[2] \in Nat
      BY <1>1, <1>3, LineaEs DEF Decodificada
  <1>5. regs.val["SI"] \in Nat /\ regs.val["DI"] \in Nat
      BY <1>1, RegsEs, ProgramasOK
  <1> QED BY <1>1, <1>2, <1>3, <1>4, <1>5 DEF Decodificada

LEMMA MovInMira ==
  ASSUME IInv, FInv, curso.en = "fetch", NEW i \in Linea, Consultados(i) \subseteq Registro, instruccion_mov_in(i)
  PROVE  MovInDeTabla(i) /\ cola' \in Seq(Fila) /\ achicado' = achicado /\ \A j \in DOMAIN cola' : FilaBuena(cola'[j])
  <1> DEFINE dl == regs.val[i[3]]
  <1>1. /\ regs.pid \in Pid /\ estado[regs.pid] # "EXIT" /\ tablas \in [Pid -> Seq(Marco)]
        /\ Tipos /\ curso # Libre
      BY EnEjecucion DEF IInv, Libre
  <1>2. dl \in Nat /\ dl < Len(tablas[regs.pid]) * TamPag
      BY <1>1, ConsultadosEs, RegsEs DEF instruccion_mov_in, Dentro
  <1>3. conseguir_marco(regs.pid, dl)
      BY DEF instruccion_mov_in
  <1>4. /\ componente_mmu(dl) = DireccionDe(regs.pid, dl)
        /\ cola' \in Seq(Fila) /\ achicado' = achicado /\ \A j \in DOMAIN cola' : FilaBuena(cola'[j])
      BY <1>1, <1>2, <1>3, MarcoConseguido
  <1> QED BY <1>4 DEF instruccion_mov_in, MovInDeTabla

LEMMA MovOutMira ==
  ASSUME IInv, FInv, curso.en = "fetch", NEW i \in Linea, Consultados(i) \subseteq Registro, instruccion_mov_out(i)
  PROVE  MovOutDeTabla(i) /\ cola' \in Seq(Fila) /\ achicado' = achicado /\ \A j \in DOMAIN cola' : FilaBuena(cola'[j])
  <1> DEFINE dl == regs.val[i[2]]
  <1>1. /\ regs.pid \in Pid /\ estado[regs.pid] # "EXIT" /\ tablas \in [Pid -> Seq(Marco)]
        /\ Tipos /\ curso # Libre
      BY EnEjecucion DEF IInv, Libre
  <1>2. dl \in Nat /\ dl < Len(tablas[regs.pid]) * TamPag
      BY <1>1, ConsultadosEs, RegsEs DEF instruccion_mov_out, Dentro
  <1>3. conseguir_marco(regs.pid, dl)
      BY DEF instruccion_mov_out
  <1>4. /\ componente_mmu(dl) = DireccionDe(regs.pid, dl)
        /\ cola' \in Seq(Fila) /\ achicado' = achicado /\ \A j \in DOMAIN cola' : FilaBuena(cola'[j])
      BY <1>1, <1>2, <1>3, MarcoConseguido
  <1> QED BY <1>4 DEF instruccion_mov_out, MovOutDeTabla

LEMMA IOMira ==
  ASSUME IInv, FInv, curso.en = "fetch", NEW i \in Linea, Consultados(i) \subseteq Registro, instruccion_io(i)
  PROVE  IODeTabla(i) /\ cola' \in Seq(Fila) /\ achicado' = achicado /\ \A j \in DOMAIN cola' : FilaBuena(cola'[j])
  <1> DEFINE dl == regs.val[i[3]]
  <1>1. /\ regs.pid \in Pid /\ estado[regs.pid] # "EXIT" /\ tablas \in [Pid -> Seq(Marco)]
        /\ Tipos /\ curso # Libre
      BY EnEjecucion DEF IInv, Libre
  <1>2. dl \in Nat /\ dl < Len(tablas[regs.pid]) * TamPag
      BY <1>1, ConsultadosEs, RegsEs DEF instruccion_io, Dentro, EsIO
  <1>3. conseguir_marco(regs.pid, dl)
      BY DEF instruccion_io
  <1>4. /\ componente_mmu(dl) = DireccionDe(regs.pid, dl)
        /\ cola' \in Seq(Fila) /\ achicado' = achicado /\ \A j \in DOMAIN cola' : FilaBuena(cola'[j])
      BY <1>1, <1>2, <1>3, MarcoConseguido
  <1> QED BY <1>4 DEF instruccion_io, IODeTabla

LEMMA DecodeMira ==
  ASSUME IInv, FInv, curso.en = "fetch", NEW i \in Linea, decode_copy_string(i)
  PROVE  /\ curso' = [en |-> "decode", df |-> DireccionDe(regs.pid, regs.val["SI"])]
         /\ cola' \in Seq(Fila) /\ achicado' = achicado /\ \A j \in DOMAIN cola' : FilaBuena(cola'[j])
  <1> DEFINE dl == regs.val["SI"]
  <1>1. /\ regs.pid \in Pid /\ estado[regs.pid] # "EXIT" /\ tablas \in [Pid -> Seq(Marco)]
        /\ Tipos /\ curso # Libre
      BY EnEjecucion DEF IInv, Libre
  <1>2. dl \in Nat /\ dl < Len(tablas[regs.pid]) * TamPag
      BY <1>1, ProgramasOK, RegsEs DEF decode_copy_string, Dentro
  <1>3. conseguir_marco(regs.pid, dl)
      BY DEF decode_copy_string
  <1>4. /\ componente_mmu(dl) = DireccionDe(regs.pid, dl)
        /\ cola' \in Seq(Fila) /\ achicado' = achicado /\ \A j \in DOMAIN cola' : FilaBuena(cola'[j])
      BY <1>1, <1>2, <1>3, MarcoConseguido
  <1> QED BY <1>4 DEF decode_copy_string, Seguir

LEMMA CopyStringMira ==
  ASSUME IInv, FInv, instruccion_copy_string
  PROVE  /\ curso.en = "decode" /\ CopyStringDeTabla(Instruccion)
         /\ cola' \in Seq(Fila) /\ achicado' = achicado /\ \A j \in DOMAIN cola' : FilaBuena(cola'[j])
  <1> DEFINE dl == regs.val["DI"]
  <1>1. curso.en = "decode" /\ conseguir_marco(regs.pid, dl)
      BY DEF instruccion_copy_string
  <1>2. regs.pid \in Pid /\ estado[regs.pid] # "EXIT" /\ tablas \in [Pid -> Seq(Marco)]
      BY <1>1, EnEjecucion DEF Libre
  <1>3. dl \in Nat /\ dl < Len(tablas[regs.pid]) * TamPag
      BY <1>1, DecodeDe DEF Dentro
  <1>4. /\ componente_mmu(dl) = DireccionDe(regs.pid, dl)
        /\ cola' \in Seq(Fila) /\ achicado' = achicado /\ \A j \in DOMAIN cola' : FilaBuena(cola'[j])
      BY <1>1, <1>2, <1>3, MarcoConseguido
  <1>5. CopyStringDeTabla(Instruccion)
      BY <1>1, <1>4, DecodeDe DEF instruccion_copy_string, CopyStringDeTabla
  <1> QED BY <1>1, <1>4, <1>5

\* The CPU asks for q and waits for the answer in c.
LEMMA PideLaCPU ==
  ASSUME IInv, curso # Libre, curso.en # "wait", NEW q \in PedidoType, q # Nada,
         q.op = "escribir" => Len(q.buffer) = q.size,
         NEW c \in Curso, c.en \in {"mov_in", "copiar", "escribir"}, c # Libre,
         q.op = "escribir" <=> c.en = "escribir",
         q.pid = regs.pid, EnPaginas(regs.pid, q.df, q.size),
         c.en = "copiar" => EnPaginas(regs.pid, c.df, c.size),
         regs' \in [pid: Pid \cup {0}, pc: Nat, val: Banco], regs'.pid = regs.pid,
         Pedir("CPU", q), curso' = c,
         UNCHANGED <<codigo, espacio, tablas, pcb, estado, bloqueados, a_kernel>>
  PROVE  IInv'
  <1>1. Tipos /\ regs.pid \in Pid
      BY DEF IInv, Tipos
  <1>2. pedido' = [pedido EXCEPT !["CPU"] = q]
      BY DEF Pedir
  <1>3. Tipos' /\ pedido'["CPU"] = q /\ \A f \in Interfaz : pedido'[f] = pedido[f]
      BY <1>1, <1>2, TiposCPU
  <1> QED BY <1>3, PasoDeCPU

LEMMA PasoMovIn ==
  ASSUME IInv, curso.en = "fetch", NEW i \in Linea, Consultados(i) \subseteq Registro, MovInDeTabla(i)
  PROVE  IInv'
  <1> DEFINE dl == regs.val[i[3]]
             df == DireccionDe(regs.pid, dl)
             n == TamReg[i[2]]
             q == Lectura(regs.pid, df, n)
             c == [en |-> "mov_in", reg |-> i[2]]
  <1>1. Tipos /\ MarcosUnicos /\ curso # Libre
      BY DEF IInv, Libre
  <1>2. i[2] \in Registro /\ i[3] \in Registro
      BY ConsultadosEs DEF MovInDeTabla
  <1>3. dl \in Nat /\ n \in Nat /\ regs.pid \in Pid
      BY <1>1, <1>2, RegsEs, PalabraNat
  <1>4. df \in Direccion /\ EnPaginas(regs.pid, df, n)
      BY <1>1, <1>3, DentroEs DEF MovInDeTabla, Tipos
  <1>5. q \in PedidoType /\ q # Nada /\ q.op = "leer" /\ q.pid = regs.pid /\ q.df = df /\ q.size = n
      BY <1>3, <1>4, PedidoEs DEF Lectura
  <1>6. c \in Curso /\ c # Libre /\ c.en = "mov_in"
      BY <1>2, CursoEs
  <1>7. Pedir("CPU", q) /\ curso' = c /\ regs' = Avanzado
          /\ UNCHANGED <<codigo, espacio, tablas, pcb, estado, bloqueados, a_kernel>>
      BY DEF MovInDeTabla, Seguir, delKernel, delaMemoria
  <1>8. regs' \in [pid: Pid \cup {0}, pc: Nat, val: Banco] /\ regs'.pid = regs.pid
      BY <1>1, <1>7, RegsEs
  <1> HIDE DEF q, c, df, n
  <1> QED BY <1>1, <1>4, <1>5, <1>6, <1>7, <1>8, PideLaCPU

LEMMA PasoMovOut ==
  ASSUME IInv, curso.en = "fetch", NEW i \in Linea, Consultados(i) \subseteq Registro, MovOutDeTabla(i)
  PROVE  IInv'
  <1> DEFINE dl == regs.val[i[2]]
             df == DireccionDe(regs.pid, dl)
             n == TamReg[i[3]]
             s == Bytes(regs.val[i[3]], n)
             q == Escritura(regs.pid, df, s)
             c == [en |-> "escribir"]
  <1>1. Tipos /\ MarcosUnicos /\ curso # Libre
      BY DEF IInv, Libre
  <1>2. i[2] \in Registro /\ i[3] \in Registro
      BY ConsultadosEs DEF MovOutDeTabla
  <1>3. dl \in Nat /\ regs.val[i[3]] \in Nat /\ n \in Nat /\ n \in {1, TamInt} /\ regs.pid \in Pid
      BY <1>1, <1>2, RegsEs, PalabraNat
  <1>4. df \in Direccion /\ EnPaginas(regs.pid, df, n)
      BY <1>1, <1>3, DentroEs DEF MovOutDeTabla, Tipos
  <1>9. s \in Seq(Byte) /\ Len(s) = n
      BY <1>3, BytesEs
  <1> HIDE DEF s
  <1>5. q \in PedidoType /\ q # Nada /\ q.op = "escribir" /\ q.pid = regs.pid /\ q.df = df /\ q.size = n
          /\ Len(q.buffer) = q.size
      BY <1>3, <1>4, <1>9, PedidoEs DEF Escritura
  <1>6. c \in Curso /\ c # Libre /\ c.en = "escribir"
      BY CursoEs
  <1>7. Pedir("CPU", q) /\ curso' = c /\ regs' = Avanzado
          /\ UNCHANGED <<codigo, espacio, tablas, pcb, estado, bloqueados, a_kernel>>
      BY DEF MovOutDeTabla, Seguir, delKernel, delaMemoria, s
  <1>8. regs' \in [pid: Pid \cup {0}, pc: Nat, val: Banco] /\ regs'.pid = regs.pid
      BY <1>1, <1>7, RegsEs
  <1> HIDE DEF q, c, df, n
  <1> QED BY <1>1, <1>4, <1>5, <1>6, <1>7, <1>8, PideLaCPU

LEMMA PasoCopyString ==
  ASSUME IInv, curso.en = "decode", NEW i \in Linea, CopyStringDeTabla(i)
  PROVE  IInv'
  <1> DEFINE si == regs.val["SI"]
             di == regs.val["DI"]
             df == DireccionDe(regs.pid, si)
             n == i[2]
             q == Lectura(regs.pid, df, n)
             c == [en |-> "copiar", df |-> DireccionDe(regs.pid, di), size |-> n]
  <1>1. Tipos /\ MarcosUnicos /\ curso # Libre
      BY DEF IInv, Libre
  <1>2. "SI" \in Registro /\ "DI" \in Registro /\ n \in Nat
      BY LineaEs, ProgramasOK DEF CopyStringDeTabla
  <1>3. si \in Nat /\ di \in Nat /\ regs.pid \in Pid
      BY <1>1, <1>2, RegsEs
  <1>4. df \in Direccion /\ EnPaginas(regs.pid, df, n)
          /\ DireccionDe(regs.pid, di) \in Direccion /\ EnPaginas(regs.pid, DireccionDe(regs.pid, di), n)
      BY <1>1, <1>2, <1>3, DentroEs DEF CopyStringDeTabla, Tipos
  <1>5. q \in PedidoType /\ q # Nada /\ q.op = "leer" /\ q.pid = regs.pid /\ q.df = df /\ q.size = n
      BY <1>2, <1>3, <1>4, PedidoEs DEF Lectura
  <1>6. c \in Curso /\ c # Libre /\ c.en = "copiar" /\ EnPaginas(regs.pid, c.df, c.size)
      BY <1>2, <1>4 DEF Curso, Libre
  <1>7. Pedir("CPU", q) /\ curso' = c /\ regs' = Avanzado
          /\ UNCHANGED <<codigo, espacio, tablas, pcb, estado, bloqueados, a_kernel>>
      BY DEF CopyStringDeTabla, Seguir, delKernel, delaMemoria
  <1>8. regs' \in [pid: Pid \cup {0}, pc: Nat, val: Banco] /\ regs'.pid = regs.pid
      BY <1>1, <1>7, RegsEs
  <1> HIDE DEF q, c, df, n
  <1> QED BY <1>1, <1>4, <1>5, <1>6, <1>7, <1>8, PideLaCPU

\* The CPU has translated SI.
LEMMA PasoDecode ==
  ASSUME IInv, FInv, curso.en = "fetch", NEW i \in Linea, decode_copy_string(i)
  PROVE  IInv'
  <1> DEFINE c == [en |-> "decode", df |-> DireccionDe(regs.pid, regs.val["SI"])]
  <1>1. Tipos /\ MarcosUnicos /\ curso # Libre /\ pedido["CPU"] = Nada
      BY DEF IInv, Pedidos, Libre
  <1>2. curso' = c /\ UNCHANGED <<codigo, espacio, tablas, pedido, pcb, estado, bloqueados, a_kernel, regs>>
      BY DecodeMira DEF decode_copy_string, Seguir, delKernel, delaMemoria
  <1>3. DireccionDe(regs.pid, regs.val["SI"]) \in Direccion
    <2>1. regs.val["SI"] \in Nat /\ i[2] \in Nat /\ regs.pid \in Pid
        BY <1>1, RegsEs, ProgramasOK, LineaEs DEF decode_copy_string
    <2> QED BY <1>1, <2>1, DentroEs DEF decode_copy_string, Tipos
  <1>4. c \in Curso /\ c # Libre /\ c.en = "decode"
      BY <1>3 DEF Curso, Libre
  <1>5. regs' \in [pid: Pid \cup {0}, pc: Nat, val: Banco] /\ regs'.pid = regs.pid /\ regs.pid \in Pid
      BY <1>1, <1>2, RegsEs DEF Tipos
  <1> HIDE DEF c
  <1>6. Tipos'
      BY <1>1, <1>2, <1>4, <1>5, TiposCPUSinPedir
  <1> QED BY <1>1, <1>2, <1>4, <1>5, <1>6, PasoDeCPU

LEMMA TechoNat == ASSUME NEW n \in Nat PROVE Techo(n) \in Nat
  BY EspacioOK, Cociente DEF Techo

LEMMA PasoResize ==
  ASSUME IInv, curso.en = "fetch", NEW i \in Linea, instruccion_resize(i)
  PROVE  IInv'
  <1> DEFINE c == [en |-> "resize", paginas |-> Techo(i[2])]
  <1>1. Tipos /\ curso # Libre /\ pedido["CPU"] = Nada
      BY DEF IInv, Pedidos, Libre
  <1>2. curso' = c /\ regs' = Avanzado
          /\ UNCHANGED <<codigo, espacio, tablas, pedido, pcb, estado, bloqueados, a_kernel>>
      BY DEF instruccion_resize, Seguir, delKernel, delaMemoria
  <1>3. Techo(i[2]) \in Nat
      BY LineaEs, TechoNat DEF instruccion_resize
  <1>4. c \in Curso /\ c # Libre /\ c.en = "resize"
      BY <1>3 DEF Curso, Libre
  <1>5. regs' \in [pid: Pid \cup {0}, pc: Nat, val: Banco] /\ regs'.pid = regs.pid
      BY <1>1, <1>2, RegsEs
  <1>6. Tipos'
      BY <1>1, <1>2, <1>4, <1>5, RegsEs, TiposCPUSinPedir
  <1> QED BY <1>1, <1>2, <1>4, <1>5, <1>6, PasoDeCPU

LEMMA TiposAlSalir ==
  ASSUME Tipos, curso' = Libre, regs' = RegsLibres,
         UNCHANGED <<codigo, espacio, tablas, pedido, pcb, estado, bloqueados>>
  PROVE  Tipos'
  <1>1. curso' \in Curso
      BY DEF Curso, Libre
  <1> QED BY <1>1, CeroEnBanco, TiposCPUSinPedir

LEMMA PasoIO ==
  ASSUME IInv, curso.en = "fetch", NEW i \in Linea, Consultados(i) \subseteq Registro, IODeTabla(i)
  PROVE  IInv'
  <1> DEFINE dl == regs.val[i[3]]
             n == regs.val[i[4]]
             df == DireccionDe(regs.pid, dl)
             d == <<i[2], df, n>>
  <1>1. Tipos /\ MarcosUnicos /\ curso # Libre /\ curso.en # "wait" /\ pedido["CPU"] = Nada
      BY DEF IInv, Pedidos, Libre
  <1>2. EsIO(i[1]) /\ i[2] = InterfazDe(i[1]) /\ i[3] \in Registro /\ i[4] \in Registro
      BY ConsultadosEs, LineaEs DEF IODeTabla, EsIO
  <1>3. dl \in Nat /\ n \in Nat /\ regs.pid \in Pid
      BY <1>1, <1>2, RegsEs
  <1>4. df \in Direccion /\ EnPaginas(regs.pid, df, n)
      BY <1>1, <1>3, DentroEs DEF IODeTabla, Tipos
  <1> HIDE DEF df, n
  <1>5. d \in Seq({i[2], df, n}) /\ Len(d) = 3 /\ d[1] = i[2] /\ d[2] = df /\ d[3] = n
      BY DEF n, df
  <1>6. enviar_pcb(Avanzado, i[1], d) /\ regs' = RegsLibres /\ curso' = Libre
          /\ UNCHANGED <<codigo, espacio, tablas, pedido, pcb, estado, bloqueados>>
      BY DEF IODeTabla, Seguir, delKernel, delaMemoria, n, df
  <1> HIDE DEF d
  <1>7. Avanzado.pid = regs.pid /\ Avanzado.val \in Banco /\ Avanzado.pc \in Nat
      BY <1>1, RegsEs
  <1>8. /\ a_kernel' # <<>> /\ a_kernel'[1] = regs.pid
        /\ actualizar_pcb(a_kernel') \in [pc: Nat, val: Banco]
        /\ Motivo(a_kernel') = i[1]
        /\ \A k \in 1 .. 3 : Dato(a_kernel', k) = d[k]
      BY <1>5, <1>6, <1>7, EnviarPcb
  <1>9. Tipos'
      BY <1>1, <1>6, TiposAlSalir
  <1>10. /\ EsIO(Motivo(a_kernel')) /\ Dato(a_kernel', 1) = InterfazDe(Motivo(a_kernel'))
         /\ Dato(a_kernel', 2) \in Direccion /\ Dato(a_kernel', 3) \in Nat
         /\ EnPaginas(regs.pid, Dato(a_kernel', 2), Dato(a_kernel', 3))
      BY <1>2, <1>3, <1>4, <1>5, <1>8 DEF n
  <1> QED BY <1>1, <1>6, <1>8, <1>9, <1>10, SaleDeCPU

LEMMA PasoExit ==
  ASSUME IInv, curso.en = "fetch", NEW i, instruccion_exit(i)
  PROVE  IInv'
  <1>1. Tipos /\ curso # Libre /\ curso.en # "wait" /\ pedido["CPU"] = Nada
      BY DEF IInv, Pedidos, Libre
  <1>2. enviar_pcb(Avanzado, "EXIT", <<>>) /\ regs' = RegsLibres /\ curso' = Libre
          /\ UNCHANGED <<codigo, espacio, tablas, pedido, pcb, estado, bloqueados>>
      BY DEF instruccion_exit, Seguir, delKernel, delaMemoria
  <1>3. Avanzado.pid = regs.pid /\ Avanzado.val \in Banco /\ Avanzado.pc \in Nat /\ <<>> \in Seq({})
      BY <1>1, RegsEs
  <1>4. /\ a_kernel' # <<>> /\ a_kernel'[1] = regs.pid
        /\ actualizar_pcb(a_kernel') \in [pc: Nat, val: Banco] /\ Motivo(a_kernel') = "EXIT"
      BY <1>2, <1>3, EnviarPcb
  <1>5. Tipos'
      BY <1>1, <1>2, TiposAlSalir
  <1> QED BY <1>1, <1>2, <1>4, <1>5, SaleDeCPU

\* A WAIT sends the context, and the CPU keeps it.
LEMMA PasoWait ==
  ASSUME IInv, curso.en = "fetch", NEW i \in Linea, instruccion_wait(i)
  PROVE  IInv'
  <1>1. Tipos /\ curso # Libre /\ curso.en # "wait" /\ pedido["CPU"] = Nada /\ a_kernel = <<>>
      BY DEF IInv, Pedidos, Viaje, Libre
  <1>2. enviar_pcb(Avanzado, i[1], <<i[2]>>) /\ regs' = Avanzado /\ curso' = [en |-> "wait"]
          /\ UNCHANGED <<codigo, espacio, tablas, pedido, pcb, estado, bloqueados>>
      BY DEF instruccion_wait, Seguir, delKernel, delaMemoria
  <1>10. i[1] \in {"WAIT", "SIGNAL"}
      BY DEF instruccion_wait
  <1>3. /\ Avanzado = [pid |-> regs.pid, pc |-> regs.pc + 1, val |-> regs.val]
        /\ Avanzado \in [pid: Pid \cup {0}, pc: Nat, val: Banco] /\ regs.pid \in Pid
        /\ <<i[2]>> \in Seq({i[2]})
      BY <1>1, RegsEs
  <1>4. /\ a_kernel' # <<>> /\ a_kernel'[1] = regs.pid
        /\ actualizar_pcb(a_kernel') = [pc |-> regs'.pc, val |-> regs'.val]
        /\ actualizar_pcb(a_kernel') \in [pc: Nat, val: Banco] /\ Motivo(a_kernel') = i[1]
    <2>1. Avanzado.val \in Banco /\ Avanzado.pc \in Nat /\ Avanzado.pid = regs.pid
        BY <1>3
    <2> QED BY <1>2, <1>3, <2>1, EnviarPcb
  <1>5. curso' \in Curso /\ curso'.en = "wait" /\ curso' # Libre /\ regs'.pid = regs.pid
      BY <1>2, <1>3, CursoEs
  <1>6. Tipos'
      BY <1>1, <1>2, <1>3, <1>5, TiposCPUSinPedir
  <1>7. MarcosUnicos' /\ Colas'
      BY <1>2 DEF IInv, MarcosUnicos, Colas, EnPaginas
  <1>8. Viaje' /\ EnUnLugar'
      BY <1>1, <1>2, <1>3, <1>4, <1>5, <1>10 DEF IInv, Viaje, EnUnLugar, EnCpu, EnCamino
  <1>9. Pedidos'
      BY <1>1, <1>2, <1>5 DEF IInv, Pedidos, EnPaginas
  <1> QED BY <1>6, <1>7, <1>8, <1>9 DEF IInv

\* Any variable but what IInv speaks of may change.
LEMMA IInvIgual ==
  ASSUME IInv, UNCHANGED <<codigo, espacio, tablas, pedido, regs, curso, pcb, estado, bloqueados, a_kernel>>
  PROVE  IInv'
  <1>1. Tipos' /\ MarcosUnicos'
      BY DEF IInv, Tipos, MarcosUnicos
  <1>2. Viaje' /\ EnUnLugar'
      BY DEF IInv, Viaje, EnPaginas, EnUnLugar, EnCpu, EnCamino
  <1>3. Colas' /\ Pedidos'
      BY DEF IInv, Colas, Pedidos, EnPaginas
  <1> QED BY <1>1, <1>2, <1>3 DEF IInv

LEMMA PasoEjecutar == ASSUME IInv, FInv, Ejecutar PROVE IInv'
  <1>1. curso.en = "fetch"
      BY DEF Ejecutar
  <1>2. CASE HayInstruccion /\ Consultados(Instruccion) \subseteq Registro
    <2> DEFINE i == Instruccion
    <2>1. i \in Linea
      <3>1. regs.pid \in Pid /\ codigo[regs.pid] \in Seq(Linea)
          BY <1>1 DEF IInv, Tipos, Libre
      <3> QED BY <1>2, <3>1, ElementOfSeq, LenProperties DEF HayInstruccion, Instruccion
    <2>2. Consultados(i) \subseteq Registro
        BY <1>2
    <2>3. \/ EnRegistros(i) \/ instruccion_mov_in(i) \/ instruccion_mov_out(i)
          \/ decode_copy_string(i) \/ instruccion_resize(i)
          \/ instruccion_io(i) \/ instruccion_wait(i) \/ instruccion_exit(i)
        BY <1>2 DEF Ejecutar
    <2> HIDE DEF i
    <2> QED BY <1>1, <2>1, <2>2, <2>3, PasoEnRegistros, MovInMira, PasoMovIn, MovOutMira, PasoMovOut,
               PasoDecode, PasoResize, IOMira, PasoIO, PasoWait, PasoExit
  <1>3. CASE ~(HayInstruccion /\ Consultados(Instruccion) \subseteq Registro)
      BY <1>3, IInvIgual DEF Ejecutar, delKernel, delaMemoria
  <1> QED BY <1>2, <1>3

LEMMA PasoInstruccionCopyString == ASSUME IInv, FInv, instruccion_copy_string PROVE IInv'
  <1>1. curso.en = "decode" /\ Instruccion \in Linea /\ CopyStringDeTabla(Instruccion)
      BY CopyStringMira, DecodeDe
  <1> QED BY <1>1, PasoCopyString

-----------------------------------------------------------------------------
(***************************************************************************)
(* What the CPU does between instructions and with the answers             *)
(***************************************************************************)
LEMMA CursoDe ==
  ASSUME Tipos
  PROVE  /\ curso.en = "mov_in" => curso.reg \in Registro
         /\ curso.en = "copiar" => curso.df \in Direccion /\ curso.size \in Nat
         /\ curso.en = "resize" => curso.paginas \in Nat
         /\ curso.en # "libre" <=> curso # Libre
         /\ curso # Libre => curso.en \in {"fetch", "check", "escribir", "wait", "mov_in", "copiar", "resize", "decode"}
  <1>1. curso \in Curso
      BY DEF Tipos
  <1>2. CASE curso \in [en: {"libre", "fetch", "check", "escribir", "wait"}]
    <2>1. curso = [en |-> curso.en]
        BY <1>2
    <2> QED BY <1>2, <2>1 DEF Libre
  <1>3. CASE curso \in [en: {"mov_in"}, reg: Registro]
      BY <1>3 DEF Libre
  <1>4. CASE curso \in [en: {"copiar"}, df: Direccion, size: Nat]
      BY <1>4 DEF Libre
  <1>5. CASE curso \in [en: {"resize"}, paginas: Nat]
      BY <1>5 DEF Libre
  <1>6. CASE curso \in [en: {"decode"}, df: Direccion]
      BY <1>6 DEF Libre
  <1> QED BY <1>1, <1>2, <1>3, <1>4, <1>5, <1>6 DEF Curso

LEMMA PasoCheckInterrupt == ASSUME IInv, check_interrupt PROVE IInv'
  <1>1. Tipos /\ curso.en = "check" /\ curso # Libre /\ curso.en # "wait" /\ pedido["CPU"] = Nada
      BY DEF IInv, Pedidos, Libre, check_interrupt
  <1>2. UNCHANGED <<codigo, espacio, tablas, pedido, pcb, estado, bloqueados>>
      BY DEF check_interrupt, Seguir, delKernel, delaMemoria
  <1>3. CASE UNCHANGED <<regs, a_kernel>> /\ curso' = [en |-> "fetch"]
    <2>1. regs' \in [pid: Pid \cup {0}, pc: Nat, val: Banco] /\ regs'.pid = regs.pid
        BY <1>1, <1>3 DEF Tipos
    <2>2. Tipos'
        BY <1>1, <1>2, <1>3, <2>1, CursoEs, RegsEs, TiposCPUSinPedir
    <2> QED BY <1>1, <1>2, <1>3, <2>1, <2>2, CursoEs, PasoDeCPU
  <1>4. CASE enviar_pcb(regs, "INTERRUPCION", <<>>) /\ regs' = RegsLibres /\ curso' = Libre
    <2>1. regs.val \in Banco /\ regs.pc \in Nat /\ <<>> \in Seq({})
        BY <1>1, RegsEs
    <2>2. /\ a_kernel' # <<>> /\ a_kernel'[1] = regs.pid
          /\ actualizar_pcb(a_kernel') \in [pc: Nat, val: Banco] /\ Motivo(a_kernel') = "INTERRUPCION"
        BY <1>4, <2>1, EnviarPcb
    <2>3. Tipos'
        BY <1>1, <1>2, <1>4, TiposAlSalir
    <2> QED BY <1>1, <1>2, <1>4, <2>2, <2>3, SaleDeCPU
  <1> QED BY <1>3, <1>4 DEF check_interrupt, Seguir

LEMMA LoRespondido ==
  ASSUME IInv, NEW h \in Hilo, Respondido(h)
  PROVE  pedido[h] \in PedidoType /\ pedido[h] # Nada /\ pedido[h].buffer \in Seq(Byte)
  <1>1. pedido[h] \in PedidoType /\ pedido[h] # Nada
      BY DEF IInv, Tipos, Respondido
  <1> QED BY <1>1, DePedido

\* The request of the CPU has been answered, and the instruction ends.
LEMMA TerminaInstruccion ==
  ASSUME IInv, curso # Libre, curso.en # "wait", Pedir("CPU", Nada), curso' = [en |-> "check"],
         regs' \in [pid: Pid \cup {0}, pc: Nat, val: Banco], regs'.pid = regs.pid,
         UNCHANGED <<codigo, espacio, tablas, pcb, estado, bloqueados, a_kernel>>
  PROVE  IInv'
  <1>1. Tipos /\ regs.pid \in Pid /\ pedido' = [pedido EXCEPT !["CPU"] = Nada]
      BY DEF IInv, Tipos, Pedir
  <1>2. Tipos' /\ pedido'["CPU"] = Nada /\ \A f \in Interfaz : pedido'[f] = pedido[f]
      BY <1>1, NadaEs, CursoEs, TiposCPU
  <1> QED BY <1>1, <1>2, CursoEs, PasoDeCPU

LEMMA PasoFinDeMovIn == ASSUME IInv, FinDeMovIn PROVE IInv'
  <1> DEFINE v == Numero(pedido["CPU"].buffer)
             r == curso.reg
  <1>1. Tipos /\ curso.en = "mov_in" /\ curso # Libre /\ curso.en # "wait"
      BY DEF IInv, Libre, FinDeMovIn
  <1>2. r \in Registro /\ v \in Nat
      BY <1>1, Hilos, CursoDe, LoRespondido, NumeroNat DEF FinDeMovIn
  <1>3. regs' = [regs EXCEPT !.val = [regs.val EXCEPT ![r] = v % Palabra(r)]]
      BY DEF FinDeMovIn
  <1> HIDE DEF v, r
  <1>4. [regs.val EXCEPT ![r] = v % Palabra(r)] \in Banco
      BY <1>1, <1>2, RegsEs, RestoEnBanco
  <1>5. regs' \in [pid: Pid \cup {0}, pc: Nat, val: Banco] /\ regs'.pid = regs.pid
      BY <1>1, <1>3, <1>4 DEF Tipos
  <1>6. /\ Pedir("CPU", Nada) /\ curso' = [en |-> "check"]
        /\ UNCHANGED <<codigo, espacio, tablas, pcb, estado, bloqueados, a_kernel>>
      BY DEF FinDeMovIn, Seguir, delKernel, delaMemoria
  <1> QED BY <1>1, <1>5, <1>6, TerminaInstruccion

LEMMA PasoFinDeEscribir == ASSUME IInv, FinDeEscribir PROVE IInv'
  <1>1. Tipos /\ curso.en = "escribir" /\ curso # Libre /\ curso.en # "wait"
      BY DEF IInv, Libre, FinDeEscribir
  <1>2. regs' \in [pid: Pid \cup {0}, pc: Nat, val: Banco] /\ regs'.pid = regs.pid
      BY <1>1 DEF FinDeEscribir, Tipos
  <1>3. /\ Pedir("CPU", Nada) /\ curso' = [en |-> "check"]
        /\ UNCHANGED <<codigo, espacio, tablas, pcb, estado, bloqueados, a_kernel>>
      BY DEF FinDeEscribir, Seguir, delKernel, delaMemoria
  <1> QED BY <1>1, <1>2, <1>3, TerminaInstruccion

LEMMA PasoCopiarTexto == ASSUME IInv, CopiarTexto PROVE IInv'
  <1> DEFINE texto == Texto(pedido["CPU"].buffer)
             c == [en |-> "escribir"]
  <1>1. Tipos /\ curso.en = "copiar" /\ curso # Libre
      BY DEF IInv, Libre, CopiarTexto
  <1>2. ASSUME NEW s \in Copiables(texto, curso.size), Pedir("CPU", Escritura(regs.pid, curso.df, s)),
               curso' = c, UNCHANGED <<codigo, pcb, estado, bloqueados, espacio, tablas, regs, a_kernel>>
        PROVE  IInv'
    <2> DEFINE q == Escritura(regs.pid, curso.df, s)
    <2>1. curso.df \in Direccion /\ curso.size \in Nat /\ regs.pid \in Pid
        BY <1>1, CursoDe, RegsEs
    <2>2. EnPaginas(regs.pid, curso.df, curso.size)
        BY <1>1 DEF IInv, Pedidos
    <2>3. s \in Seq(Byte) /\ Len(s) = curso.size
        BY <2>1, CopiablesEs
    <2>4. /\ q \in PedidoType /\ q # Nada /\ q.op = "escribir" /\ q.pid = regs.pid
          /\ q.df = curso.df /\ q.size = curso.size /\ Len(q.buffer) = q.size
        BY <2>1, <2>3, PedidoEs DEF Escritura
    <2>5. c \in Curso /\ c # Libre /\ c.en = "escribir"
        BY CursoEs
    <2>6. regs' \in [pid: Pid \cup {0}, pc: Nat, val: Banco] /\ regs'.pid = regs.pid
        BY <1>1, <1>2 DEF Tipos
    <2> HIDE DEF q, c
    <2>7. Pedir("CPU", q) /\ curso' = c
        BY <1>2 DEF q, c
    <2> QED BY <1>1, <1>2, <2>2, <2>4, <2>5, <2>6, <2>7, PideLaCPU
  <1>3. CASE UNCHANGED <<pedido, codigo, pcb, estado, bloqueados, espacio, tablas, regs, a_kernel, curso>>
      BY <1>3, IInvIgual
  <1>4. \/ /\ \E s \in Copiables(texto, curso.size) : Pedir("CPU", Escritura(regs.pid, curso.df, s))
           /\ curso' = c /\ UNCHANGED <<codigo, pcb, estado, bloqueados, espacio, tablas, regs, a_kernel>>
        \/ UNCHANGED <<pedido, codigo, pcb, estado, bloqueados, espacio, tablas, regs, a_kernel, curso>>
      BY DEF CopiarTexto, Seguir, delKernel, delaMemoria
  <1> HIDE DEF texto, c
  <1> QED BY <1>2, <1>3, <1>4

-----------------------------------------------------------------------------
(***************************************************************************)
(* A page more or less                                                     *)
(***************************************************************************)
LEMMA CambiaTabla ==
  ASSUME tablas \in [Pid -> Seq(Marco)], MarcosUnicos, NEW p \in Pid, Tablas!Ampliar(p) \/ Tablas!Reducir(p)
  PROVE  /\ tablas' \in [Pid -> Seq(Marco)] /\ MarcosUnicos'
         /\ \A q \in Pid \ {p} : tablas'[q] = tablas[q]
  <1> DEFINE L == Len(tablas[p])
  <1>1. /\ tablas[p] \in Seq(Marco) /\ L \in Nat /\ DOMAIN tablas[p] = 1 .. L
        /\ \A q \in Pid : DOMAIN tablas[q] \subseteq Nat
      BY TablaSeq
  <1>2. CASE Tablas!Ampliar(p)
    <2>1. PICK m \in Marco \ Tablas!Asignados : tablas' = [tablas EXCEPT ![p] = Append(@, m)]
        BY <1>2 DEF Tablas!Ampliar
    <2>2. \A q \in Pid : \A j \in DOMAIN tablas[q] : tablas[q][j] # m
        BY <2>1 DEF Tablas!Asignados, Tablas!ToSet
    <2>3. /\ tablas'[p] = Append(tablas[p], m) /\ tablas'[p] \in Seq(Marco)
          /\ DOMAIN tablas'[p] = 1 .. L + 1 /\ tablas'[p][L + 1] = m
          /\ \A j \in 1 .. L : tablas'[p][j] = tablas[p][j]
        BY <1>1, <2>1, AppendProperties
    <2>4. \A q \in Pid \ {p} : tablas'[q] = tablas[q]
        BY <2>1
    <2>5. tablas' \in [Pid -> Seq(Marco)]
        BY <2>1, <2>3
    <2>6. \A q \in Pid : \A j \in DOMAIN tablas'[q] :
             \/ j \in DOMAIN tablas[q] /\ tablas'[q][j] = tablas[q][j]
             \/ q = p /\ j = L + 1 /\ tablas'[q][j] = m
      <3> SUFFICES ASSUME NEW q \in Pid, NEW j \in DOMAIN tablas'[q]
                   PROVE  \/ j \in DOMAIN tablas[q] /\ tablas'[q][j] = tablas[q][j]
                          \/ q = p /\ j = L + 1 /\ tablas'[q][j] = m
          OBVIOUS
      <3>1. CASE q = p
          BY <1>1, <2>3, <3>1
      <3>2. CASE q # p
          BY <2>4, <3>2
      <3> QED BY <3>1, <3>2
    <2>7. MarcosUnicos'
        BY <2>2, <2>6 DEF MarcosUnicos
    <2> QED BY <2>4, <2>5, <2>7
  <1>3. CASE Tablas!Reducir(p)
    <2>1. tablas[p] # <<>> /\ tablas' = [tablas EXCEPT ![p] = Front(@)]
        BY <1>3 DEF Tablas!Reducir, Tablas!Front, Front
    <2>2. L # 0
        BY <1>1, <2>1, EmptySeq
    <2>3. /\ tablas'[p] = Front(tablas[p]) /\ tablas'[p] \in Seq(Marco)
          /\ DOMAIN tablas'[p] = 1 .. L - 1
          /\ \A j \in 1 .. L - 1 : tablas'[p][j] = tablas[p][j]
      <3>1. tablas'[p] = Front(tablas[p])
          BY <2>1
      <3>2. Front(tablas[p]) = [j \in 1 .. L - 1 |-> tablas[p][j]]
          BY <1>1, <2>2 DEF Front
      <3>3. \A j \in 1 .. L - 1 : tablas[p][j] \in Marco
          BY <1>1, ElementOfSeq
      <3>4. Front(tablas[p]) \in Seq(Marco)
          BY <1>1, <2>2, <3>2, <3>3
      <3> QED BY <3>1, <3>2, <3>4
    <2>4. \A q \in Pid \ {p} : tablas'[q] = tablas[q]
        BY <2>1
    <2>5. tablas' \in [Pid -> Seq(Marco)]
        BY <2>1, <2>3
    <2>6. \A q \in Pid : \A j \in DOMAIN tablas'[q] : j \in DOMAIN tablas[q] /\ tablas'[q][j] = tablas[q][j]
      <3> SUFFICES ASSUME NEW q \in Pid, NEW j \in DOMAIN tablas'[q]
                   PROVE  j \in DOMAIN tablas[q] /\ tablas'[q][j] = tablas[q][j]
          OBVIOUS
      <3>1. CASE q = p
          BY <1>1, <2>2, <2>3, <3>1
      <3>2. CASE q # p
          BY <2>4, <3>2
      <3> QED BY <3>1, <3>2
    <2>7. MarcosUnicos'
        BY <2>6 DEF MarcosUnicos
    <2> QED BY <2>4, <2>5, <2>7
  <1> QED BY <1>2, <1>3

LEMMA CabezaEs ==
  ASSUME IInv, NEW f \in Interfaz, bloqueados[f] # <<>>
  PROVE  /\ bloqueados[f] \in Seq(Renglon) /\ Len(bloqueados[f]) \in Nat \ {0} /\ 1 \in DOMAIN bloqueados[f]
         /\ Head(bloqueados[f]) = bloqueados[f][1] /\ bloqueados[f][1] \in Renglon
         /\ bloqueados[f][1].pid \in Pid /\ bloqueados[f][1].df \in Direccion /\ bloqueados[f][1].size \in Nat
         /\ estado[bloqueados[f][1].pid] = "BLOCKED"
         /\ EnPaginas(bloqueados[f][1].pid, bloqueados[f][1].df, bloqueados[f][1].size)
  <1>1. bloqueados[f] \in Seq(Renglon)
      BY DEF IInv, Tipos
  <1>2. Len(bloqueados[f]) \in Nat \ {0} /\ 1 \in DOMAIN bloqueados[f]
      BY <1>1, EmptySeq, LenProperties
  <1>3. bloqueados[f][1] \in Renglon /\ Head(bloqueados[f]) = bloqueados[f][1]
      BY <1>1, <1>2, ElementOfSeq, LenProperties
  <1>4. estado[bloqueados[f][1].pid] = "BLOCKED"
          /\ EnPaginas(bloqueados[f][1].pid, bloqueados[f][1].df, bloqueados[f][1].size)
      BY <1>2 DEF IInv, Colas
  <1> QED BY <1>1, <1>2, <1>3, <1>4 DEF Renglon

\* The pages of a process change when nothing of it is asked for.
LEMMA CambiaPagina ==
  ASSUME IInv, NEW p \in Pid, Tablas!Ampliar(p) \/ Tablas!Reducir(p),
         estado[p] # "BLOCKED", ~EnCamino(p), curso # Libre => regs.pid # p \/ curso.en = "resize",
         UNCHANGED <<codigo, espacio, pedido, regs, curso, pcb, estado, bloqueados, a_kernel>>
  PROVE  IInv'
  <1>1. /\ tablas' \in [Pid -> Seq(Marco)] /\ MarcosUnicos'
        /\ \A q \in Pid \ {p} : tablas'[q] = tablas[q]
      BY CambiaTabla DEF IInv, Tipos
  <1>2. \A q \in Pid \ {p} : \A df, n : EnPaginas(q, df, n) => EnPaginas(q, df, n)'
      BY <1>1 DEF EnPaginas
  <1>3. Tipos'
      BY <1>1 DEF IInv, Tipos
  <1>4. Viaje' /\ EnUnLugar'
    <2>1. a_kernel # <<>> => a_kernel[1] \in Pid \ {p}
        BY DEF IInv, Viaje, EnCamino
    <2> QED BY <1>2, <2>1 DEF IInv, Viaje, EnUnLugar, EnCpu, EnCamino
  <1>5. Colas'
    <2>1. \A f \in Interfaz : \A j \in DOMAIN bloqueados[f] : bloqueados[f][j].pid \in Pid \ {p}
      <3> SUFFICES ASSUME NEW f \in Interfaz, NEW j \in DOMAIN bloqueados[f]
                   PROVE  bloqueados[f][j].pid \in Pid \ {p}
          OBVIOUS
      <3>1. bloqueados[f] \in Seq(Renglon)
          BY DEF IInv, Tipos
      <3>2. bloqueados[f][j] \in Renglon
          BY <3>1, ElementOfSeq, LenProperties
      <3>3. estado[bloqueados[f][j].pid] = "BLOCKED"
          BY DEF IInv, Colas
      <3> QED BY <3>2, <3>3 DEF Renglon
    <2> QED BY <1>2, <2>1 DEF IInv, Colas
  <1>6. Pedidos'
    <2>1. \A h \in Hilo : pedido[h] # Nada => pedido[h].pid \in Pid \ {p}
      <3> SUFFICES ASSUME NEW h \in Hilo, pedido[h] # Nada
                   PROVE  pedido[h].pid \in Pid \ {p}
          OBVIOUS
      <3>1. CASE h = "CPU"
        <4>1. curso.en \in {"mov_in", "copiar", "escribir"} /\ pedido[h].pid = regs.pid
            BY <3>1 DEF IInv, Pedidos
        <4>2. curso # Libre /\ curso.en # "resize"
            BY <4>1 DEF Libre
        <4> QED BY <4>1, <4>2 DEF IInv, Tipos
      <3>2. CASE h \in Interfaz
        <4>1. bloqueados[h] # <<>> /\ pedido[h].pid = bloqueados[h][1].pid
            BY <3>2 DEF IInv, Pedidos
        <4> QED BY <3>2, <4>1, CabezaEs
      <3> QED BY <3>1, <3>2, Hilos
    <2>2. curso.en = "copiar" => regs.pid \in Pid \ {p}
        BY DEF IInv, Tipos, Libre
    <2> QED BY <1>2, <2>1, <2>2 DEF IInv, Pedidos
  <1> QED BY <1>1, <1>3, <1>4, <1>5, <1>6 DEF IInv

LEMMA PasoPaginaDeResize == ASSUME IInv, PaginaDeResize PROVE IInv'
  <1>1. regs.pid \in Pid /\ curso.en = "resize" /\ curso # Libre
      BY DEF IInv, Tipos, PaginaDeResize, Libre
  <1>2. estado[regs.pid] = "RUNNING" /\ ~EnCamino(regs.pid)
      BY <1>1 DEF IInv, EnUnLugar, EnCpu, EnCamino, Viaje
  <1> QED BY <1>1, <1>2, CambiaPagina DEF PaginaDeResize, delKernel

LEMMA PasoDevolver == ASSUME IInv, NEW p \in Pid, Devolver(p) PROVE IInv'
  <1>1. estado[p] = "EXIT"
      BY DEF Devolver
  <1>2. ~EnCamino(p) /\ ~EnCpu(p)
      BY <1>1 DEF IInv, EnUnLugar
  <1> QED BY <1>1, <1>2, CambiaPagina DEF Devolver, delKernel, EnCpu

LEMMA PasoFinDeResize == ASSUME IInv, FinDeResize PROVE IInv'
  <1>1. Tipos /\ curso.en = "resize" /\ curso # Libre /\ curso.en # "wait" /\ pedido["CPU"] = Nada
      BY DEF IInv, Pedidos, Libre, FinDeResize
  <1>2. UNCHANGED <<codigo, espacio, tablas, pedido, pcb, estado, bloqueados>>
      BY DEF FinDeResize, Seguir, delKernel, Tablas!Contestar
  <1>3. CASE UNCHANGED <<regs, a_kernel>> /\ curso' = [en |-> "check"]
    <2>1. regs' \in [pid: Pid \cup {0}, pc: Nat, val: Banco] /\ regs'.pid = regs.pid
        BY <1>1, <1>3 DEF Tipos
    <2>2. Tipos'
        BY <1>1, <1>2, <1>3, <2>1, CursoEs, RegsEs, TiposCPUSinPedir
    <2> QED BY <1>1, <1>2, <1>3, <2>1, <2>2, CursoEs, PasoDeCPU
  <1>4. CASE enviar_pcb(regs, "OUT_OF_MEMORY", <<>>) /\ regs' = RegsLibres /\ curso' = Libre
    <2>1. regs.val \in Banco /\ regs.pc \in Nat /\ <<>> \in Seq({})
        BY <1>1, RegsEs
    <2>2. /\ a_kernel' # <<>> /\ a_kernel'[1] = regs.pid
          /\ actualizar_pcb(a_kernel') \in [pc: Nat, val: Banco] /\ Motivo(a_kernel') = "OUT_OF_MEMORY"
        BY <1>4, <2>1, EnviarPcb
    <2>3. Tipos'
        BY <1>1, <1>2, <1>4, TiposAlSalir
    <2> QED BY <1>1, <1>2, <1>4, <2>2, <2>3, SaleDeCPU
  <1> QED BY <1>3, <1>4 DEF FinDeResize, Seguir

-----------------------------------------------------------------------------
(***************************************************************************)
(* The kernel                                                              *)
(***************************************************************************)
LEMMA RenglonEs ==
  ASSUME Tipos, NEW f \in Interfaz, NEW j \in DOMAIN bloqueados[f]
  PROVE  /\ bloqueados[f][j] \in Renglon /\ bloqueados[f][j].pid \in Pid
         /\ bloqueados[f][j].df \in Direccion /\ bloqueados[f][j].size \in Nat
  <1>1. bloqueados[f] \in Seq(Renglon)
      BY DEF Tipos
  <1>2. bloqueados[f][j] \in Renglon
      BY <1>1, ElementOfSeq, LenProperties
  <1> QED BY <1>2 DEF Renglon

LEMMA PasoDespachar == ASSUME IInv, NEW p \in Pid, Despachar(p) PROVE IInv'
  <1>1. /\ Tipos /\ curso = Libre /\ Libre.en = "libre" /\ a_kernel = <<>> /\ estado[p] = "READY"
        /\ pedido["CPU"] = Nada
      BY DEF IInv, Pedidos, Libre, Despachar
  <1>2. /\ estado' = [estado EXCEPT ![p] = "RUNNING"] /\ curso' = [en |-> "fetch"]
        /\ UNCHANGED <<codigo, espacio, tablas, pedido, pcb, a_kernel, bloqueados>>
      BY DEF Despachar, delaMemoria
  <1>3. regs' = [pid |-> p, pc |-> pcb[p].pc, val |-> pcb[p].val]
      BY <1>1, PaqueteDePcb DEF Despachar, Tipos
  <1>4. regs' \in [pid: Pid \cup {0}, pc: Nat, val: Banco] /\ regs'.pid = p
      BY <1>1, <1>3 DEF Tipos
  <1>5. curso' \in Curso /\ curso'.en = "fetch" /\ curso' # Libre
      BY <1>2, CursoEs
  <1>6. Tipos'
      BY <1>1, <1>2, <1>4, <1>5 DEF Tipos, Estado
  <1>7. MarcosUnicos' /\ Viaje'
      BY <1>1, <1>2, <1>5 DEF IInv, MarcosUnicos, Viaje
  <1>8. EnUnLugar'
      BY <1>1, <1>2, <1>4, <1>5 DEF IInv, EnUnLugar, EnCpu, EnCamino, Tipos
  <1>9. Colas'
    <2>1. \A f \in Interfaz : \A j \in DOMAIN bloqueados[f] : bloqueados[f][j].pid # p
        BY <1>1 DEF IInv, Colas
    <2>2. \A q \in Pid : q # p => estado'[q] = estado[q]
        BY <1>1, <1>2 DEF Tipos
    <2>3. \A f \in Interfaz : \A j \in DOMAIN bloqueados[f] : bloqueados[f][j].pid \in Pid
        BY <1>1, RenglonEs
    <2> QED BY <1>2, <2>1, <2>2, <2>3 DEF IInv, Colas, EnPaginas
  <1>10. Pedidos'
      BY <1>1, <1>2, <1>5 DEF IInv, Pedidos, EnPaginas
  <1> QED BY <1>6, <1>7, <1>8, <1>9, <1>10 DEF IInv

\* What the queues and the requests hold, when only the state of p changes.
LEMMA CambiaEstado ==
  ASSUME IInv, NEW p \in Pid, NEW e, estado' = [estado EXCEPT ![p] = e],
         \A f \in Interfaz : \A j \in DOMAIN bloqueados[f] : bloqueados[f][j].pid # p,
         UNCHANGED <<tablas, bloqueados>>
  PROVE  Colas'
  <1>1. \A q \in Pid : q # p => estado'[q] = estado[q]
      BY DEF IInv, Tipos
  <1>2. \A f \in Interfaz : \A j \in DOMAIN bloqueados[f] : bloqueados[f][j].pid \in Pid
      BY RenglonEs DEF IInv
  <1> QED BY <1>1, <1>2 DEF IInv, Colas, EnPaginas

LEMMA NoEnColas ==
  ASSUME IInv, NEW p \in Pid, estado[p] # "BLOCKED"
  PROVE  \A f \in Interfaz : \A j \in DOMAIN bloqueados[f] : bloqueados[f][j].pid # p
  BY DEF IInv, Colas

LEMMA PasoAtenderContexto == ASSUME IInv, AtenderContexto PROVE IInv'
  <1> DEFINE p == a_kernel[1]
             m == Motivo(a_kernel)
  <1>1. /\ Tipos /\ a_kernel # <<>> /\ p \in Pid /\ EnCamino(p) /\ estado[p] = "RUNNING"
        /\ actualizar_pcb(a_kernel) \in [pc: Nat, val: Banco]
      BY DEF IInv, Viaje, EnUnLugar, EnCamino, AtenderContexto
  <1>2. /\ a_kernel' = <<>> /\ pcb' = [pcb EXCEPT ![p] = actualizar_pcb(a_kernel)]
        /\ UNCHANGED <<codigo, espacio, tablas, pedido>>
      BY DEF AtenderContexto, delaMemoria
  <1>3. pcb' \in [Pid -> [pc: Nat, val: Banco]] /\ MarcosUnicos'
      BY <1>1, <1>2 DEF Tipos, IInv, MarcosUnicos
  <1>4. \A f \in Interfaz : \A j \in DOMAIN bloqueados[f] : bloqueados[f][j].pid # p
      BY <1>1, NoEnColas
  <1>5. \A q \in Pid : estado[q] = "RUNNING" => q = p
      BY <1>1 DEF IInv, EnUnLugar, EnCpu, EnCamino, Viaje, EsIO
  <1>6. ASSUME NEW e \in {"READY", "EXIT"}, estado' = [estado EXCEPT ![p] = e],
               m \in {"INTERRUPCION", "EXIT", "OUT_OF_MEMORY"}, UNCHANGED <<bloqueados, curso, regs>>
        PROVE  IInv'
    <2>1. curso = Libre /\ Libre.en = "libre"
        BY <1>1, <1>6 DEF IInv, Viaje, EsIO, Libre
    <2>2. Tipos'
        BY <1>1, <1>2, <1>3, <1>6 DEF Tipos, Estado
    <2>3. Viaje' /\ EnUnLugar'
        BY <1>1, <1>2, <1>5, <1>6, <2>1 DEF Viaje, EnUnLugar, EnCpu, EnCamino, Tipos
    <2>4. Colas'
        BY <1>1, <1>2, <1>4, <1>6, CambiaEstado
    <2>5. Pedidos'
        BY <1>2, <1>6 DEF IInv, Pedidos, EnPaginas
    <2> QED BY <1>3, <2>2, <2>3, <2>4, <2>5 DEF IInv
  <1>7. ASSUME EsIO(m), estado' = [estado EXCEPT ![p] = "BLOCKED"],
               bloqueados' = [bloqueados EXCEPT ![Dato(a_kernel, 1)] =
                 Append(@, [pid |-> p, df |-> Dato(a_kernel, 2), size |-> Dato(a_kernel, 3)])],
               UNCHANGED <<curso, regs>>
        PROVE  IInv'
    <2> DEFINE g == Dato(a_kernel, 1)
               b == [pid |-> p, df |-> Dato(a_kernel, 2), size |-> Dato(a_kernel, 3)]
               K == Len(bloqueados[g])
    <2>1. curso = Libre /\ Libre.en = "libre"
        BY <1>1, <1>7 DEF IInv, Viaje, EsIO, Libre
    <2>2. g \in Interfaz /\ b \in Renglon /\ b.pid = p /\ EnPaginas(b.pid, b.df, b.size)
        BY <1>1, <1>7, Hilos DEF IInv, Viaje, EsIO, InterfazDe, Renglon
    <2> HIDE DEF g, b, m, p
    <2>3. /\ bloqueados'[g] = Append(bloqueados[g], b) /\ bloqueados[g] \in Seq(Renglon)
          /\ \A f \in Interfaz \ {g} : bloqueados'[f] = bloqueados[f]
        BY <1>1, <1>7, <2>2 DEF Tipos, g, b, p
    <2>4. /\ bloqueados'[g] \in Seq(Renglon) /\ K \in Nat /\ DOMAIN bloqueados[g] = 1 .. K
          /\ DOMAIN bloqueados'[g] = 1 .. K + 1 /\ bloqueados'[g][K + 1] = b
          /\ \A j \in 1 .. K : bloqueados'[g][j] = bloqueados[g][j]
        BY <2>2, <2>3, AppendProperties
    <2>5. \A f \in Interfaz : \A j \in DOMAIN bloqueados'[f] :
             \/ j \in DOMAIN bloqueados[f] /\ bloqueados'[f][j] = bloqueados[f][j]
             \/ f = g /\ j = K + 1 /\ bloqueados'[f][j] = b
      <3> SUFFICES ASSUME NEW f \in Interfaz, NEW j \in DOMAIN bloqueados'[f]
                   PROVE  \/ j \in DOMAIN bloqueados[f] /\ bloqueados'[f][j] = bloqueados[f][j]
                          \/ f = g /\ j = K + 1 /\ bloqueados'[f][j] = b
          OBVIOUS
      <3>1. CASE f = g
          BY <2>4, <3>1
      <3>2. CASE f # g
          BY <2>3, <3>2
      <3> QED BY <3>1, <3>2
    <2>6. Tipos'
      <3>1. bloqueados' \in [Interfaz -> Seq(Renglon)]
          BY <1>1, <1>7, <2>2, <2>3, <2>4 DEF Tipos, g, b, p
      <3> QED BY <1>1, <1>2, <1>3, <1>7, <3>1 DEF Tipos, Estado
    <2>7. Viaje' /\ EnUnLugar'
        BY <1>1, <1>2, <1>5, <1>7, <2>1 DEF Viaje, EnUnLugar, EnCpu, EnCamino, Tipos
    <2>8. Colas'
      <3>1. \A q \in Pid : q # p => estado'[q] = estado[q]
          BY <1>7 DEF IInv, Tipos
      <3>2. estado'[p] = "BLOCKED"
          BY <1>1, <1>7 DEF Tipos
      <3>3. \A f \in Interfaz : \A j \in DOMAIN bloqueados[f] : bloqueados[f][j].pid \in Pid
          BY <1>1, RenglonEs
      <3>5. \A f \in Interfaz : \A j \in DOMAIN bloqueados'[f] :
              /\ estado'[bloqueados'[f][j].pid] = "BLOCKED"
              /\ EnPaginas(bloqueados'[f][j].pid, bloqueados'[f][j].df, bloqueados'[f][j].size)
        <4> SUFFICES ASSUME NEW f \in Interfaz, NEW j \in DOMAIN bloqueados'[f]
                     PROVE  /\ estado'[bloqueados'[f][j].pid] = "BLOCKED"
                            /\ EnPaginas(bloqueados'[f][j].pid, bloqueados'[f][j].df, bloqueados'[f][j].size)
            OBVIOUS
        <4>1. CASE j \in DOMAIN bloqueados[f] /\ bloqueados'[f][j] = bloqueados[f][j]
            BY <1>4, <3>1, <3>3, <4>1 DEF IInv, Colas
        <4>2. CASE bloqueados'[f][j] = b
            BY <2>2, <3>2, <4>2
        <4> QED BY <2>5, <4>1, <4>2
      <3>6. \A f, h \in Interfaz : \A j \in DOMAIN bloqueados'[f], k \in DOMAIN bloqueados'[h] :
              bloqueados'[f][j].pid = bloqueados'[h][k].pid => f = h /\ j = k
          BY <1>4, <2>2, <2>5 DEF IInv, Colas
      <3> QED BY <1>2, <3>5, <3>6 DEF Colas, EnPaginas
    <2>9. Pedidos'
      <3>1. \A f \in Interfaz : bloqueados[f] # <<>> => bloqueados'[f] # <<>> /\ bloqueados'[f][1] = bloqueados[f][1]
        <4> SUFFICES ASSUME NEW f \in Interfaz, bloqueados[f] # <<>>
                     PROVE  bloqueados'[f] # <<>> /\ bloqueados'[f][1] = bloqueados[f][1]
            OBVIOUS
        <4>1. CASE f = g
          <5>1. 1 \in 1 .. K
              BY <2>4, <4>1, CabezaEs
          <5> QED BY <2>4, <4>1, <5>1
        <4>2. CASE f # g
            BY <2>3, <4>2
        <4> QED BY <4>1, <4>2
      <3> QED BY <1>2, <1>7, <3>1 DEF IInv, Pedidos, EnPaginas
    <2> QED BY <1>3, <2>6, <2>7, <2>8, <2>9 DEF IInv
  <1>8. ASSUME m \in {"WAIT", "SIGNAL"}, curso' = [en |-> "check"], UNCHANGED <<estado, bloqueados, regs>>
        PROVE  IInv'
    <2>1. curso.en = "wait" /\ regs.pid = p /\ curso # Libre
        BY <1>1, <1>8 DEF IInv, Viaje, EsIO, Libre
    <2>2. curso' \in Curso /\ curso'.en = "check" /\ curso' # Libre
        BY <1>8, CursoEs
    <2>3. Tipos'
        BY <1>1, <1>2, <1>3, <1>8, <2>1, <2>2 DEF Tipos
    <2>4. Viaje' /\ EnUnLugar'
        BY <1>1, <1>2, <1>5, <1>8, <2>1, <2>2 DEF Viaje, EnUnLugar, EnCpu, EnCamino
    <2>5. Colas' /\ Pedidos'
        BY <1>2, <1>8, <2>1, <2>2 DEF IInv, Colas, Pedidos, EnPaginas
    <2> QED BY <1>3, <2>3, <2>4, <2>5 DEF IInv
  <1>9. ASSUME NEW e \in {"BLOCKED", "EXIT"}, m = "WAIT", estado' = [estado EXCEPT ![p] = e], curso' = Libre, regs' = RegsLibres,
               UNCHANGED bloqueados
        PROVE  IInv'
    <2>1. curso.en = "wait" /\ Libre.en = "libre" /\ curso' \in Curso
        BY <1>1, <1>9 DEF IInv, Viaje, EsIO, Libre, Curso
    <2>2. Tipos'
        BY <1>1, <1>2, <1>3, <1>9, <2>1, CeroEnBanco DEF Tipos, Estado
    <2>3. Viaje' /\ EnUnLugar'
        BY <1>1, <1>2, <1>5, <1>9, <2>1 DEF Viaje, EnUnLugar, EnCpu, EnCamino, Tipos
    <2>4. Colas'
        BY <1>1, <1>2, <1>4, <1>9, CambiaEstado
    <2>5. Pedidos'
        BY <1>2, <1>9, <2>1 DEF IInv, Pedidos, EnPaginas
    <2> QED BY <1>3, <2>2, <2>3, <2>4, <2>5 DEF IInv
  <1>10. \/ m = "INTERRUPCION" /\ estado' = [estado EXCEPT ![p] = "READY"] /\ UNCHANGED <<bloqueados, curso, regs>>
         \/ /\ m \in {"EXIT", "OUT_OF_MEMORY"} /\ estado' = [estado EXCEPT ![p] = "EXIT"]
            /\ UNCHANGED <<bloqueados, curso, regs>>
         \/ /\ EsIO(m) /\ estado' = [estado EXCEPT ![p] = "BLOCKED"]
            /\ bloqueados' = [bloqueados EXCEPT ![Dato(a_kernel, 1)] =
                 Append(@, [pid |-> p, df |-> Dato(a_kernel, 2), size |-> Dato(a_kernel, 3)])]
            /\ UNCHANGED <<curso, regs>>
         \/ m \in {"WAIT", "SIGNAL"} /\ curso' = [en |-> "check"] /\ UNCHANGED <<estado, bloqueados, regs>>
         \/ /\ m = "WAIT" /\ curso' = Libre /\ regs' = RegsLibres /\ UNCHANGED bloqueados
            /\ \E e \in {"BLOCKED", "EXIT"} : estado' = [estado EXCEPT ![p] = e]
      BY DEF AtenderContexto, EsIO
  <1> HIDE DEF p, m
  <1> QED BY <1>6, <1>7, <1>8, <1>9, <1>10

LEMMA PasoDespertar == ASSUME IInv, NEW p \in Pid, Despertar(p) PROVE IInv'
  <1>1. /\ Tipos /\ estado[p] = "BLOCKED" /\ estado' = [estado EXCEPT ![p] = "READY"]
        /\ UNCHANGED <<codigo, espacio, tablas, pedido, regs, curso, pcb, a_kernel, bloqueados>>
        /\ \A f \in Interfaz : \A j \in DOMAIN bloqueados[f] : bloqueados[f][j].pid # p
      BY DEF IInv, Despertar, EnInterfaz, delaMemoria
  <1>2. Tipos' /\ MarcosUnicos'
      BY <1>1 DEF Tipos, Estado, IInv, MarcosUnicos
  <1>3. Viaje' /\ Pedidos'
      BY <1>1 DEF IInv, Viaje, Pedidos, EnPaginas
  <1>4. EnUnLugar'
      BY <1>1 DEF IInv, EnUnLugar, EnCpu, EnCamino, Tipos
  <1>5. Colas'
      BY <1>1, CambiaEstado
  <1> QED BY <1>2, <1>3, <1>4, <1>5 DEF IInv

-----------------------------------------------------------------------------
(***************************************************************************)
(* The interfaces                                                          *)
(***************************************************************************)
\* The request of f becomes q, of the process that it had.
LEMMA CambiaPedido ==
  ASSUME IInv, NEW f \in Hilo, NEW q \in PedidoType, q # Nada,
         q.op = "escribir" => Len(q.buffer) = q.size,
         f = "CPU" => pedido[f] # Nada /\ q.pid = pedido[f].pid /\ q.op = pedido[f].op,
         f \in Interfaz => /\ bloqueados[f] # <<>> /\ q.pid = bloqueados[f][1].pid
                           /\ q.op = IF f = "STDIN" THEN "escribir" ELSE "leer",
         q.size > 0 => EnPaginas(q.pid, q.df, q.size),
         pedido' = [pedido EXCEPT ![f] = q], espacio' \in [Direccion -> Byte],
         UNCHANGED <<codigo, tablas, regs, curso, pcb, estado, bloqueados, a_kernel>>
  PROVE  IInv'
  <1>1. /\ pedido' \in [Hilo -> PedidoType] /\ pedido'[f] = q
        /\ \A h \in Hilo \ {f} : pedido'[h] = pedido[h]
      BY DEF IInv, Tipos
  <1>2. Tipos' /\ MarcosUnicos'
      BY <1>1 DEF IInv, Tipos, MarcosUnicos
  <1>3. Viaje' /\ EnUnLugar' /\ Colas'
      BY DEF IInv, Viaje, EnUnLugar, EnCpu, EnCamino, Colas, EnPaginas
  <1>4. Pedidos'
    <2>1. /\ pedido'["CPU"] # Nada <=> pedido["CPU"] # Nada
          /\ pedido'["CPU"] # Nada => /\ pedido'["CPU"].pid = pedido["CPU"].pid
                                      /\ pedido'["CPU"].op = pedido["CPU"].op
        BY <1>1, Hilos
    <2>2. \A g \in Interfaz : pedido'[g] # Nada =>
            /\ bloqueados[g] # <<>> /\ pedido'[g].pid = bloqueados[g][1].pid
            /\ pedido'[g].op = IF g = "STDIN" THEN "escribir" ELSE "leer"
        BY <1>1, Hilos DEF IInv, Pedidos
    <2>3. \A h \in Hilo : pedido'[h] # Nada /\ pedido'[h].size > 0
                            => EnPaginas(pedido'[h].pid, pedido'[h].df, pedido'[h].size)
        BY <1>1 DEF IInv, Pedidos
    <2> QED BY <2>1, <2>2, <2>3 DEF IInv, Pedidos, EnPaginas
  <1> QED BY <1>2, <1>3, <1>4 DEF IInv

LEMMA PasoLeerTeclado == ASSUME IInv, LeerTeclado PROVE IInv'
  <1> DEFINE b == Head(bloqueados["STDIN"])
  <1>1. /\ "STDIN" \in Interfaz /\ "STDIN" \in Hilo /\ bloqueados["STDIN"] # <<>> /\ b = bloqueados["STDIN"][1]
        /\ b.pid \in Pid /\ b.df \in Direccion /\ b.size \in Nat /\ EnPaginas(b.pid, b.df, b.size)
      BY Hilos, CabezaEs DEF LeerTeclado
  <1>2. UNCHANGED <<codigo, espacio, tablas, regs, curso, pcb, estado, bloqueados, a_kernel>>
      BY DEF LeerTeclado, delaMemoria, delKernel
  <1>3. ASSUME NEW t, NEW s \in Copiables(t, b.size), Pedir("STDIN", Escritura(b.pid, b.df, s))
        PROVE  IInv'
    <2> DEFINE q == Escritura(b.pid, b.df, s)
    <2>1. s \in Seq(Byte) /\ Len(s) = b.size
        BY <1>1, CopiablesEs
    <2>2. /\ q \in PedidoType /\ q # Nada /\ q.op = "escribir" /\ q.pid = b.pid
          /\ q.df = b.df /\ q.size = b.size /\ Len(q.buffer) = q.size
        BY <1>1, <2>1, PedidoEs DEF Escritura
    <2>3. pedido' = [pedido EXCEPT !["STDIN"] = q] /\ espacio' \in [Direccion -> Byte]
        BY <1>2, <1>3 DEF Pedir, IInv, Tipos
    <2> HIDE DEF q, b
    <2> QED BY <1>1, <1>2, <2>2, <2>3, CambiaPedido
  <1>4. CASE UNCHANGED pedido
      BY <1>2, <1>4, IInvIgual
  <1>5. (\E t : \E s \in Copiables(t, b.size) : Pedir("STDIN", Escritura(b.pid, b.df, s))) \/ UNCHANGED pedido
      BY DEF LeerTeclado
  <1> HIDE DEF b
  <1> QED BY <1>3, <1>4, <1>5

LEMMA PasoPedirTexto == ASSUME IInv, PedirTexto PROVE IInv'
  <1> DEFINE b == Head(bloqueados["STDOUT"])
             q == Lectura(b.pid, b.df, b.size)
  <1>1. /\ "STDOUT" \in Interfaz /\ "STDOUT" \in Hilo /\ bloqueados["STDOUT"] # <<>> /\ b = bloqueados["STDOUT"][1]
        /\ b.pid \in Pid /\ b.df \in Direccion /\ b.size \in Nat /\ EnPaginas(b.pid, b.df, b.size)
      BY Hilos, CabezaEs DEF PedirTexto
  <1>2. UNCHANGED <<codigo, espacio, tablas, regs, curso, pcb, estado, bloqueados, a_kernel>>
      BY DEF PedirTexto, delaMemoria, delKernel
  <1>3. /\ q \in PedidoType /\ q # Nada /\ q.op = "leer" /\ q.pid = b.pid /\ q.df = b.df /\ q.size = b.size
      BY <1>1, PedidoEs DEF Lectura
  <1>4. pedido' = [pedido EXCEPT !["STDOUT"] = q] /\ espacio' \in [Direccion -> Byte]
      BY <1>2 DEF PedirTexto, Pedir, IInv, Tipos
  <1> HIDE DEF q, b
  <1> QED BY <1>1, <1>2, <1>3, <1>4, CambiaPedido

LEMMA PasoDesbloquear ==
  ASSUME IInv, NEW f \in Interfaz, pedido[f] # Nada, Desbloquear(f),
         UNCHANGED <<codigo, espacio, tablas, regs, curso, a_kernel>>
  PROVE  IInv'
  <1> DEFINE b == Head(bloqueados[f])
             p == b.pid
             K == Len(bloqueados[f])
  <1>1. bloqueados[f] # <<>> /\ f \in Hilo
      BY Hilos DEF IInv, Pedidos
  <1>2. /\ bloqueados[f] \in Seq(Renglon) /\ K \in Nat \ {0} /\ 1 \in DOMAIN bloqueados[f] /\ b = bloqueados[f][1]
        /\ p \in Pid /\ estado[p] = "BLOCKED"
      BY <1>1, CabezaEs
  <1>3. /\ estado' = [estado EXCEPT ![p] = "READY"] /\ UNCHANGED pcb
        /\ bloqueados' = [bloqueados EXCEPT ![f] = Tail(@)] /\ pedido' = [pedido EXCEPT ![f] = Nada]
      BY DEF Desbloquear, Pedir
  <1> HIDE DEF b, p
  <1>4. /\ bloqueados'[f] = Tail(bloqueados[f]) /\ bloqueados'[f] \in Seq(Renglon)
        /\ \A g \in Interfaz \ {f} : bloqueados'[g] = bloqueados[g]
        /\ DOMAIN bloqueados[f] = 1 .. K /\ DOMAIN bloqueados'[f] = 1 .. K - 1
        /\ \A j \in 1 .. K - 1 : bloqueados'[f][j] = bloqueados[f][j + 1]
    <2>1. /\ bloqueados'[f] = Tail(bloqueados[f]) /\ \A g \in Interfaz \ {f} : bloqueados'[g] = bloqueados[g]
        BY <1>3 DEF IInv, Tipos
    <2>2. /\ Tail(bloqueados[f]) \in Seq(Renglon) /\ Len(Tail(bloqueados[f])) = K - 1
          /\ \A j \in 1 .. K - 1 : Tail(bloqueados[f])[j] = bloqueados[f][j + 1]
        BY <1>1, <1>2, HeadTailProperties
    <2> QED BY <1>2, <2>1, <2>2, LenProperties
  <1>5. \A g \in Interfaz : \A j \in DOMAIN bloqueados'[g] :
          \E k \in DOMAIN bloqueados[g] :
            bloqueados'[g][j] = bloqueados[g][k] /\ k = (IF g = f THEN j + 1 ELSE j)
    <2> SUFFICES ASSUME NEW g \in Interfaz, NEW j \in DOMAIN bloqueados'[g]
                 PROVE  \E k \in DOMAIN bloqueados[g] :
                          bloqueados'[g][j] = bloqueados[g][k] /\ k = (IF g = f THEN j + 1 ELSE j)
        OBVIOUS
    <2>1. CASE g = f
      <3>1. j \in 1 .. K - 1
          BY <1>4, <2>1
      <3>2. j + 1 \in 1 .. K
          BY <1>2, <3>1
      <3> QED BY <1>4, <2>1, <3>1, <3>2
    <2>2. CASE g # f
        BY <1>4, <2>2
    <2> QED BY <2>1, <2>2
  <1>6. \A g \in Interfaz : \A k \in DOMAIN bloqueados[g] :
          /\ k \in Nat /\ bloqueados[g][k].pid \in Pid
          /\ bloqueados[g][k].pid = p => g = f /\ k = 1
    <2>1. \A g \in Interfaz : \A k \in DOMAIN bloqueados[g] : bloqueados[g][k].pid = p => g = f /\ k = 1
        BY <1>2 DEF IInv, Colas, p
    <2>2. \A g \in Interfaz : \A k \in DOMAIN bloqueados[g] : k \in Nat
      <3> SUFFICES ASSUME NEW g \in Interfaz, NEW k \in DOMAIN bloqueados[g] PROVE k \in Nat
          OBVIOUS
      <3>1. bloqueados[g] \in Seq(Renglon)
          BY DEF IInv, Tipos
      <3> QED BY <3>1, LenProperties
    <2> QED BY <2>1, <2>2, RenglonEs DEF IInv
  <1>7. Tipos'
    <2>1. /\ bloqueados' \in [Interfaz -> Seq(Renglon)] /\ estado' \in [Pid -> Estado]
          /\ pedido' \in [Hilo -> PedidoType]
        BY <1>1, <1>2, <1>3, <1>4, NadaEs DEF IInv, Tipos, Estado
    <2>2. \A h \in Hilo : pedido'[h].op = "escribir" => Len(pedido'[h].buffer) = pedido'[h].size
        BY <1>1, <1>3, NadaEs DEF IInv, Tipos
    <2> QED BY <1>3, <2>1, <2>2 DEF IInv, Tipos
  <1>8. MarcosUnicos' /\ Viaje'
      BY DEF IInv, MarcosUnicos, Viaje, EnPaginas
  <1>9. \A q \in Pid : q # p => estado'[q] = estado[q]
      BY <1>3 DEF IInv, Tipos
  <1>10. EnUnLugar'
      BY <1>2, <1>3 DEF IInv, EnUnLugar, EnCpu, EnCamino, Tipos
  <1>11. Colas'
    <2>1. \A g \in Interfaz : \A j \in DOMAIN bloqueados'[g] :
            /\ estado'[bloqueados'[g][j].pid] = "BLOCKED"
            /\ EnPaginas(bloqueados'[g][j].pid, bloqueados'[g][j].df, bloqueados'[g][j].size)
      <3> SUFFICES ASSUME NEW g \in Interfaz, NEW j \in DOMAIN bloqueados'[g]
                   PROVE  /\ estado'[bloqueados'[g][j].pid] = "BLOCKED"
                          /\ EnPaginas(bloqueados'[g][j].pid, bloqueados'[g][j].df, bloqueados'[g][j].size)
          OBVIOUS
      <3>1. PICK k \in DOMAIN bloqueados[g] :
              bloqueados'[g][j] = bloqueados[g][k] /\ k = (IF g = f THEN j + 1 ELSE j)
          BY <1>5
      <3>2. bloqueados[g][k].pid # p
        <4>1. g = f => j \in 1 .. K - 1
            BY <1>4
        <4> QED BY <1>6, <3>1, <4>1
      <3> QED BY <1>6, <1>9, <3>1, <3>2 DEF IInv, Colas
    <2>2. \A g, h \in Interfaz : \A j \in DOMAIN bloqueados'[g], k \in DOMAIN bloqueados'[h] :
            bloqueados'[g][j].pid = bloqueados'[h][k].pid => g = h /\ j = k
      <3> SUFFICES ASSUME NEW g \in Interfaz, NEW h \in Interfaz,
                          NEW j \in DOMAIN bloqueados'[g], NEW k \in DOMAIN bloqueados'[h],
                          bloqueados'[g][j].pid = bloqueados'[h][k].pid
                   PROVE  g = h /\ j = k
          OBVIOUS
      <3>1. PICK x \in DOMAIN bloqueados[g] :
              bloqueados'[g][j] = bloqueados[g][x] /\ x = (IF g = f THEN j + 1 ELSE j)
          BY <1>5
      <3>2. PICK y \in DOMAIN bloqueados[h] :
              bloqueados'[h][k] = bloqueados[h][y] /\ y = (IF h = f THEN k + 1 ELSE k)
          BY <1>5
      <3>3. g = h /\ x = y
          BY <3>1, <3>2 DEF IInv, Colas
      <3>4. g = f => j \in 1 .. K - 1 /\ k \in 1 .. K - 1
          BY <1>4, <3>3
      <3> QED BY <1>2, <3>1, <3>2, <3>3, <3>4
    <2> QED BY <2>1, <2>2 DEF Colas, EnPaginas
  <1>12. Pedidos'
    <2>1. pedido'[f] = Nada /\ \A h \in Hilo \ {f} : pedido'[h] = pedido[h]
        BY <1>1, <1>3 DEF IInv, Tipos
    <2>2. pedido'["CPU"] = pedido["CPU"]
        BY <2>1, Hilos
    <2>3. \A g \in Interfaz : pedido'[g] # Nada =>
            /\ bloqueados'[g] # <<>> /\ pedido'[g].pid = bloqueados'[g][1].pid
            /\ pedido'[g].op = IF g = "STDIN" THEN "escribir" ELSE "leer"
        BY <1>4, <2>1, Hilos DEF IInv, Pedidos
    <2>4. \A h \in Hilo : pedido'[h] # Nada /\ pedido'[h].size > 0
                            => EnPaginas(pedido'[h].pid, pedido'[h].df, pedido'[h].size)
        BY <2>1 DEF IInv, Pedidos
    <2> QED BY <2>2, <2>3, <2>4 DEF IInv, Pedidos, EnPaginas
  <1> QED BY <1>7, <1>8, <1>10, <1>11, <1>12 DEF IInv

LEMMA PasoFinDeTeclado == ASSUME IInv, FinDeTeclado PROVE IInv'
  BY Hilos, PasoDesbloquear DEF FinDeTeclado, Respondido, delaMemoria

LEMMA PasoMostrarTexto == ASSUME IInv, MostrarTexto PROVE IInv'
  <1>1. pedido["STDOUT"] # Nada /\ "STDOUT" \in Interfaz
          /\ UNCHANGED <<codigo, espacio, tablas, regs, curso, a_kernel>>
      BY Hilos DEF MostrarTexto, Respondido, delaMemoria
  <1>2. Desbloquear("STDOUT") \/ UNCHANGED <<pedido, pcb, estado, bloqueados>>
      BY DEF MostrarTexto, delKernel
  <1> QED BY <1>1, <1>2, PasoDesbloquear, IInvIgual

-----------------------------------------------------------------------------
(***************************************************************************)
(* A piece of a request                                                    *)
(***************************************************************************)
LEMMA TramoEnDireccion ==
  ASSUME NEW q, q.df \in Direccion, q.size \in Nat \ {0}
  PROVE  \A j \in 1 .. Tramo(q) : /\ q.df + j - 1 \in Direccion
                                  /\ MarcoDe(q.df + j - 1) = MarcoDe(q.df)
                                  /\ (q.df + j - 1) % TamPag = (q.df % TamPag) + (j - 1)
  <1> SUFFICES ASSUME NEW j \in 1 .. Tramo(q)
               PROVE  /\ q.df + j - 1 \in Direccion
                      /\ MarcoDe(q.df + j - 1) = MarcoDe(q.df)
                      /\ (q.df + j - 1) % TamPag = (q.df % TamPag) + (j - 1)
      OBVIOUS
  <1> DEFINE m == MarcoDe(q.df)
             o == q.df % TamPag
  <1>1. m \in Marco /\ o \in 0 .. TamPag - 1 /\ q.df = (m * TamPag) + o
      BY DeMarco
  <1>2. Tramo(q) \in Nat /\ Tramo(q) <= TamPag - o /\ TamPag \in Nat
      BY TramoEs, EspacioOK
  <1> HIDE DEF m, o
  <1>3. o + (j - 1) \in 0 .. TamPag - 1
      BY <1>1, <1>2
  <1>4. m * TamPag \in Int
      BY <1>1, <1>2 DEF Marco
  <1>5. q.df + j - 1 = (m * TamPag) + (o + (j - 1))
      BY <1>1, <1>2, <1>4
  <1> QED BY <1>1, <1>3, <1>5, EnMarco DEF m, o

LEMMA PasoTramos == ASSUME IInv, Tramos PROVE IInv'
  <1>1. PICK h \in Hilo : LeerTramo(h) \/ EscribirTramo(h)
      BY DEF Tramos
  <1> DEFINE q == pedido[h]
             n == Tramo(q)
  <1>2. /\ UNCHANGED <<codigo, tablas, regs, curso, pcb, estado, bloqueados, a_kernel>>
        /\ q.op \in {"leer", "escribir"} /\ q.size > 0
      BY <1>1 DEF Tramos, LeerTramo, EscribirTramo, delKernel
  <1>3. /\ q # Nada /\ q \in PedidoType /\ tablas \in [Pid -> Seq(Marco)] /\ MarcosUnicos
        /\ espacio \in [Direccion -> Byte]
      BY <1>2, NadaEs DEF IInv, Tipos
  <1>4. /\ q \in [op: {"leer", "escribir"}, pid: Pid, df: Direccion, size: Nat, buffer: Seq(Byte)]
        /\ q.pid \in Pid /\ q.df \in Direccion /\ q.size \in Nat \ {0} /\ q.buffer \in Seq(Byte)
      BY <1>2, <1>3, DePedido DEF PedidoType
  <1>5. EnPaginas(q.pid, q.df, q.size)
      BY <1>2, <1>3 DEF IInv, Pedidos
  <1>6. q.op = "escribir" => Len(q.buffer) = q.size
      BY DEF IInv, Tipos
  <1>7. n \in 1 .. q.size
      BY <1>4, TramoEs
  <1>8. /\ h = "CPU" => pedido[h] # Nada
        /\ h \in Interfaz => /\ bloqueados[h] # <<>> /\ q.pid = bloqueados[h][1].pid
                             /\ q.op = IF h = "STDIN" THEN "escribir" ELSE "leer"
      BY <1>3 DEF IInv, Pedidos
  <1> HIDE DEF n
  <1>9. ASSUME NEW df \in Sigue(q, n), NEW s \in Seq(Byte), NEW r,
               r = [q EXCEPT !.df = df, !.size = @ - n, !.buffer = s],
               pedido' = [pedido EXCEPT ![h] = r], espacio' \in [Direccion -> Byte],
               q.op = "escribir" => Len(s) = q.size - n
        PROVE  IInv'
    <2>1. /\ df \in Direccion
          /\ q.size - n > 0 => EnPaginas(q.pid, df, q.size - n)
        BY <1>3, <1>4, <1>5, <1>9, SigueEs DEF n
    <2>2. q.size - n \in Nat
        BY <1>4, <1>7
    <2>3. /\ r.op = q.op /\ r.pid = q.pid /\ r.df = df /\ r.size = q.size - n /\ r.buffer = s
          /\ r \in [op: {"leer", "escribir"}, pid: Pid, df: Direccion, size: Nat, buffer: Seq(Byte)]
        BY <1>4, <1>9, <2>1, <2>2
    <2>4. r \in PedidoType /\ r # Nada
        BY <2>3, NadaEs DEF PedidoType
    <2> HIDE DEF q
    <2> QED BY <1>2, <1>8, <1>9, <2>1, <2>3, <2>4, CambiaPedido DEF q
  <1>10. CASE LeerTramo(h)
    <2> DEFINE t == [j \in 1 .. n |-> espacio[q.df + j - 1]]
               s == q.buffer \o t
    <2>1. q.op = "leer" /\ UNCHANGED espacio
        BY <1>10 DEF LeerTramo
    <2>2. PICK df \in Sigue(q, n) : pedido' = [pedido EXCEPT ![h] = [q EXCEPT !.df = df, !.size = @ - n, !.buffer = s]]
        BY <1>10 DEF LeerTramo, n
    <2>3. s \in Seq(Byte)
      <3>1. \A j \in 1 .. n : q.df + j - 1 \in Direccion
          BY <1>4, <1>7, TramoEnDireccion DEF n
      <3>2. t \in Seq(Byte)
          BY <1>3, <1>4, <1>7, <3>1
      <3> QED BY <1>4, <3>2, ConcatProperties
    <2> HIDE DEF s
    <2> QED BY <1>3, <1>9, <2>1, <2>2, <2>3
  <1>11. CASE EscribirTramo(h)
    <2> DEFINE s == SubSeq(q.buffer, n + 1, Len(q.buffer))
    <2>1. /\ q.op = "escribir"
          /\ espacio' = [d \in Direccion |->
                           IF d - q.df \in 0 .. n - 1 THEN q.buffer[d - q.df + 1] ELSE espacio[d]]
        BY <1>11 DEF EscribirTramo, n
    <2>2. PICK df \in Sigue(q, n) : pedido' = [pedido EXCEPT ![h] = [q EXCEPT !.df = df, !.size = @ - n, !.buffer = s]]
        BY <1>11 DEF EscribirTramo, n
    <2>3. Len(q.buffer) = q.size /\ \A j \in 1 .. q.size : q.buffer[j] \in Byte
        BY <1>4, <1>6, <2>1, ElementOfSeq
    <2>4. espacio' \in [Direccion -> Byte]
      <3>1. ASSUME NEW d \in Direccion, d - q.df \in 0 .. n - 1 PROVE d - q.df + 1 \in 1 .. q.size
          BY <1>4, <1>7, <3>1 DEF Direccion
      <3> QED BY <1>3, <2>1, <2>3, <3>1
    <2>5. s \in Seq(Byte) /\ Len(s) = q.size - n
      <3>1. \A j \in n + 1 .. Len(q.buffer) : q.buffer[j] \in Byte
          BY <1>4, <1>7, <2>3
      <3>2. n + 1 \in 1 .. q.size + 1 /\ Len(q.buffer) \in n .. q.size
          BY <1>4, <1>7, <2>3
      <3> QED BY <1>4, <1>7, <2>3, <3>1, <3>2, SubSeqProperties
    <2> HIDE DEF s
    <2> QED BY <1>9, <2>1, <2>2, <2>4, <2>5
  <1> QED BY <1>1, <1>10, <1>11

-----------------------------------------------------------------------------
(***************************************************************************)
(* The TLB, step by step                                                   *)
(***************************************************************************)
Traducciones == cola \in Seq(Fila) /\ \A j \in DOMAIN cola : FilaBuena(cola[j])

\* The rows that a step leaves or adds stay good, if no process that is not
\* finished had its table or its state changed in what they say.
LEMMA TraduccionesSiguen ==
  ASSUME cola' \in Seq(Fila), \A j \in DOMAIN cola' : FilaBuena(cola'[j]), achicado' = achicado,
         \A p \in Pid : estado'[p] # "EXIT" => estado[p] # "EXIT" /\ tablas'[p] = tablas[p]
  PROVE  Traducciones'
  <1>1. PICK t \in Seq(Fila) : t = cola'
      OBVIOUS
  <1>2. ASSUME NEW j \in DOMAIN t PROVE FilaBuena(t[j])'
    <2>1. t[j] \in Fila /\ FilaBuena(t[j])
        BY <1>1, ElementOfSeq, LenProperties
    <2>2. t[j].clave[1] \in Pid
        BY <2>1 DEF Fila
    <2> QED BY <2>1, <2>2 DEF FilaBuena
  <1>3. \A j \in DOMAIN cola' : FilaBuena(t[j])'
      BY <1>1, <1>2
  <1> QED BY <1>1, <1>3 DEF Traducciones, FilaBuena

LEMMA TraduccionesIguales ==
  ASSUME FInv, UNCHANGED <<cola, achicado>>,
         \A p \in Pid : estado'[p] # "EXIT" => estado[p] # "EXIT" /\ tablas'[p] = tablas[p]
  PROVE  Traducciones'
  <1>1. cola' \in Seq(Fila) /\ \A j \in DOMAIN cola' : FilaBuena(cola'[j])
      BY DEF FInv
  <1> QED BY <1>1, TraduccionesSiguen

\* Nothing is left of an instruction that looks in the TLB.
LEMMA FInvSinCurso ==
  ASSUME FInv, Traducciones', curso'.en \notin {"resize", "decode"}
  PROVE  FInv'
  BY DEF FInv, Traducciones

\* It goes on as it was.
LEMMA FInvConCurso ==
  ASSUME FInv, Traducciones', UNCHANGED <<curso, regs, codigo, achicado>>,
         curso.en \in {"resize", "decode"} => tablas'[regs.pid] = tablas[regs.pid]
  PROVE  FInv'
  BY DEF FInv, Traducciones, Decodificada, HayInstruccion, Instruccion, Dentro, DireccionDe

LEMMA FInvIgual ==
  ASSUME FInv, UNCHANGED <<codigo, tablas, regs, curso, estado, cola, achicado>>
  PROVE  FInv'
  BY TraduccionesIguales, FInvConCurso

LEMMA EjecutarFInv == ASSUME IInv, FInv, Ejecutar PROVE FInv'
  <1>1. /\ curso.en = "fetch" /\ regs.pid \in Pid /\ estado[regs.pid] # "EXIT"
      BY EnEjecucion DEF Ejecutar, Libre
  <1>2. CASE HayInstruccion /\ Consultados(Instruccion) \subseteq Registro
    <2> DEFINE i == Instruccion
    <2>1. i \in Linea
      <3>1. regs.pid \in Pid /\ codigo[regs.pid] \in Seq(Linea)
          BY <1>1 DEF IInv, Tipos, Libre
      <3> QED BY <1>2, <3>1, ElementOfSeq, LenProperties DEF HayInstruccion, Instruccion
    <2>2. Consultados(i) \subseteq Registro
        BY <1>2
    <2>3. \/ EnRegistros(i) \/ instruccion_mov_in(i) \/ instruccion_mov_out(i)
          \/ decode_copy_string(i) \/ instruccion_resize(i)
          \/ instruccion_io(i) \/ instruccion_wait(i) \/ instruccion_exit(i)
        BY <1>2 DEF Ejecutar
    <2>4. CASE EnRegistros(i) \/ instruccion_wait(i) \/ instruccion_exit(i)
      <3>1. /\ UNCHANGED <<cola, achicado, tablas, estado>> /\ curso'.en \in {"check", "wait", "libre"}
          BY <2>4 DEF EnRegistros, instruccion_wait, instruccion_exit, Seguir, Libre, delaMemoria, delaMMU, delKernel
      <3> QED BY <3>1, TraduccionesIguales, FInvSinCurso
    <2>5. CASE instruccion_mov_in(i) \/ instruccion_mov_out(i) \/ instruccion_io(i)
      <3>1. cola' \in Seq(Fila) /\ achicado' = achicado /\ \A j \in DOMAIN cola' : FilaBuena(cola'[j])
        <4> HIDE DEF i
        <4> QED BY <1>1, <2>1, <2>2, <2>5, MovInMira, MovOutMira, IOMira
      <3>2. UNCHANGED <<tablas, estado>> /\ curso'.en \in {"mov_in", "escribir", "libre"}
          BY <2>5 DEF instruccion_mov_in, instruccion_mov_out, instruccion_io, Seguir, Libre, delaMemoria, delKernel
      <3> QED BY <3>1, <3>2, TraduccionesSiguen, FInvSinCurso
    <2>6. CASE decode_copy_string(i)
      <3>1. /\ curso' = [en |-> "decode", df |-> DireccionDe(regs.pid, regs.val["SI"])]
            /\ cola' \in Seq(Fila) /\ achicado' = achicado /\ \A j \in DOMAIN cola' : FilaBuena(cola'[j])
        <4> HIDE DEF i
        <4> QED BY <1>1, <2>1, <2>6, DecodeMira
      <3>2. /\ UNCHANGED <<tablas, estado, codigo, regs>> /\ i[1] = "COPY_STRING"
            /\ Dentro(regs.pid, regs.val["SI"], i[2]) /\ Dentro(regs.pid, regs.val["DI"], i[2])
          BY <2>6 DEF decode_copy_string, Seguir, delaMemoria, delKernel
      <3>3. Traducciones'
          BY <3>1, <3>2, TraduccionesSiguen
      <3>4. Decodificada'
          BY <1>2, <3>1, <3>2 DEF Decodificada, HayInstruccion, Instruccion, Dentro, DireccionDe
      <3>5. curso'.en # "resize"
          BY <3>1
      <3> QED BY <3>3, <3>4, <3>5 DEF FInv, Traducciones
    <2>7. CASE instruccion_resize(i)
      <3>1. /\ UNCHANGED <<tablas, estado, cola, achicado>> /\ regs'.pid = regs.pid
            /\ curso' = [en |-> "resize", paginas |-> Techo(i[2])]
            /\ regs.pid \notin achicado \/ Techo(i[2]) <= Len(tablas[regs.pid])
          BY <2>7 DEF instruccion_resize, Seguir, delaMemoria, delaMMU, delKernel, FInv, Avanzado, IInv, Tipos
      <3>2. Traducciones'
          BY <3>1, TraduccionesIguales
      <3> QED BY <3>1, <3>2 DEF FInv, Traducciones
    <2> QED BY <2>3, <2>4, <2>5, <2>6, <2>7
  <1>3. CASE ~(HayInstruccion /\ Consultados(Instruccion) \subseteq Registro)
      BY <1>3, FInvIgual DEF Ejecutar, delKernel, delaMemoria, delaMMU
  <1> QED BY <1>2, <1>3

LEMMA InstruccionCopyStringFInv == ASSUME IInv, FInv, instruccion_copy_string PROVE FInv'
  <1>1. cola' \in Seq(Fila) /\ achicado' = achicado /\ \A j \in DOMAIN cola' : FilaBuena(cola'[j])
      BY CopyStringMira
  <1>2. UNCHANGED <<tablas, estado>> /\ curso'.en = "copiar"
      BY DEF instruccion_copy_string, Seguir, delaMemoria, delKernel
  <1> QED BY <1>1, <1>2, TraduccionesSiguen, FInvSinCurso

\* RESIZE gives pages to a process that has not shrunk, and one that has
\* keeps no row of what it has left.
LEMMA PaginaDeResizeFInv == ASSUME IInv, FInv, PaginaDeResize PROVE FInv'
  <1>1. /\ curso.en = "resize" /\ curso # Libre /\ UNCHANGED <<codigo, regs, curso, estado, cola>>
        /\ curso.paginas \in Nat
      BY CursoDe DEF PaginaDeResize, Libre, delKernel, IInv
  <1> DEFINE p == regs.pid
  <1>2. p \in Pid /\ tablas \in [Pid -> Seq(Marco)] /\ Len(tablas[p]) \in Nat
      BY <1>1, EnEjecucion, LenProperties
  <1>3. cola \in Seq(Fila) /\ \A j \in DOMAIN cola : cola[j] \in Fila /\ FilaBuena(cola[j])
      BY ElementOfSeq, LenProperties DEF FInv
  <1>4. CASE Len(tablas[p]) < curso.paginas /\ Tablas!Ampliar(p) /\ UNCHANGED achicado
    <2>1. PICK m \in Marco : tablas' = [tablas EXCEPT ![p] = Append(@, m)]
        BY <1>4 DEF Tablas!Ampliar, Tablas!Asignados
    <2>2. /\ Len(tablas'[p]) = Len(tablas[p]) + 1 /\ \A q \in Pid \ {p} : tablas'[q] = tablas[q]
          /\ \A j \in 1 .. Len(tablas[p]) : tablas'[p][j] = tablas[p][j]
        BY <1>2, <2>1, AppendProperties
    <2>3. p \notin achicado
        BY <1>1, <1>2, <1>4 DEF FInv
    <2>4. ASSUME NEW f \in Fila, FilaBuena(f) PROVE FilaBuena(f)'
      <3>1. f.clave[1] \in Pid /\ f.clave[2] \in Nat
          BY DEF Fila
      <3>2. CASE f.clave[1] = p
        <4>1. estado[p] # "EXIT" => f.clave[2] < Len(tablas[p]) /\ f.marco = tablas[p][f.clave[2] + 1]
            BY <2>3, <2>4, <3>2 DEF FilaBuena
        <4>2. estado[p] # "EXIT" => f.clave[2] < Len(tablas'[p]) /\ f.marco = tablas'[p][f.clave[2] + 1]
            BY <1>2, <2>2, <3>1, <4>1
        <4> QED BY <1>1, <3>2, <4>2 DEF FilaBuena
      <3>3. CASE f.clave[1] # p
          BY <1>1, <1>4, <2>2, <2>4, <3>1, <3>3 DEF FilaBuena
      <3> QED BY <3>2, <3>3
    <2>5. Traducciones'
        BY <1>1, <1>3, <2>4 DEF Traducciones
    <2>6. /\ curso'.en # "decode" /\ curso'.en = "resize" /\ regs'.pid = p /\ achicado' = achicado
        BY <1>1, <1>4
    <2> QED BY <2>3, <2>5, <2>6 DEF FInv, Traducciones
  <1>5. CASE Len(tablas[p]) > curso.paginas /\ Tablas!Reducir(p) /\ achicado' = achicado \cup {p}
    <2>1. tablas[p] # <<>> /\ tablas' = [tablas EXCEPT ![p] = Front(@)]
        BY <1>5 DEF Tablas!Reducir, Tablas!Front, Front
    <2>2. /\ Len(tablas'[p]) = Len(tablas[p]) - 1 /\ \A q \in Pid \ {p} : tablas'[q] = tablas[q]
          /\ \A j \in 1 .. Len(tablas[p]) - 1 : tablas'[p][j] = tablas[p][j]
      <3>1. tablas'[p] = [j \in 1 .. Len(tablas[p]) - 1 |-> tablas[p][j]]
          BY <1>2, <2>1 DEF Front, SubSeq
      <3>2. Len(tablas[p]) - 1 \in Nat
          BY <1>1, <1>2, <1>5
      <3> QED BY <1>2, <2>1, <3>1, <3>2
    <2>3. ASSUME NEW f \in Fila, FilaBuena(f) PROVE FilaBuena(f)'
      <3>1. f.clave[1] \in Pid /\ f.clave[2] \in Nat
          BY DEF Fila
      <3>2. CASE f.clave[1] = p
        <4>1. estado[p] # "EXIT" /\ f.clave[2] < Len(tablas[p]) => f.marco = tablas[p][f.clave[2] + 1]
            BY <2>3, <3>2 DEF FilaBuena
        <4>2. estado[p] # "EXIT" /\ f.clave[2] < Len(tablas'[p]) => f.marco = tablas'[p][f.clave[2] + 1]
          <5> SUFFICES ASSUME estado[p] # "EXIT", f.clave[2] < Len(tablas'[p])
                       PROVE  f.marco = tablas'[p][f.clave[2] + 1]
              OBVIOUS
          <5>1. f.clave[2] + 1 \in 1 .. Len(tablas[p]) - 1 /\ f.clave[2] < Len(tablas[p])
              BY <1>2, <2>2, <3>1
          <5> QED BY <2>2, <4>1, <5>1
        <4> QED BY <1>1, <1>5, <3>2, <4>2 DEF FilaBuena
      <3>3. CASE f.clave[1] # p
        <4>1. tablas'[f.clave[1]] = tablas[f.clave[1]] /\ estado' = estado
            BY <1>1, <2>2, <3>1, <3>3
        <4>2. f.clave[1] \notin achicado' => f.clave[1] \notin achicado
            BY <1>5
        <4> QED BY <2>3, <4>1, <4>2 DEF FilaBuena
      <3> QED BY <3>2, <3>3
    <2>4. Traducciones'
        BY <1>1, <1>3, <2>3 DEF Traducciones
    <2>5. curso'.paginas <= Len(tablas'[regs'.pid]) /\ curso'.en # "decode"
        BY <1>1, <1>2, <1>5, <2>2
    <2> QED BY <2>4, <2>5 DEF FInv, Traducciones
  <1> QED BY <1>4, <1>5 DEF PaginaDeResize

LEMMA DevolverFInv == ASSUME IInv, FInv, NEW p \in Pid, Devolver(p) PROVE FInv'
  <1>1. /\ estado[p] = "EXIT" /\ UNCHANGED <<codigo, regs, curso, estado, cola, achicado>>
        /\ tablas' = [tablas EXCEPT ![p] = Front(@)]
      BY DEF Devolver, delKernel, delaMMU, Tablas!Reducir, Tablas!Front, Front
  <1>2. tablas \in [Pid -> Seq(Marco)]
      BY DEF IInv, Tipos
  <1>3. \A q \in Pid \ {p} : tablas'[q] = tablas[q]
      BY <1>1, <1>2
  <1>4. curso.en \in {"resize", "decode"} => regs.pid \in Pid \ {p}
      BY <1>1, EnEjecucion DEF Libre
  <1>5. Traducciones'
      BY <1>1, <1>3, TraduccionesIguales
  <1> QED BY <1>1, <1>3, <1>4, <1>5, FInvConCurso

LEMMA AtenderContextoFInv == ASSUME IInv, FInv, AtenderContexto PROVE FInv'
  <1>1. PICK p : p = a_kernel[1]
      OBVIOUS
  <1>2. /\ a_kernel # <<>> /\ p \in Pid /\ estado[p] = "RUNNING" /\ estado \in [Pid -> Estado]
      BY <1>1 DEF IInv, Tipos, Viaje, EnUnLugar, EnCamino, AtenderContexto
  <1>3. /\ UNCHANGED <<tablas, cola, achicado>> /\ \E e : estado' = [estado EXCEPT ![p] = e]
    <2>1. estado' = estado => estado' = [estado EXCEPT ![p] = estado[p]]
        BY <1>2
    <2> QED BY <1>1, <2>1 DEF AtenderContexto, delaMemoria, delaMMU
  <1>4. Traducciones'
      BY <1>2, <1>3, TraduccionesIguales
  <1>5. curso'.en \in {"check", "libre"}
    <2>1. Motivo(a_kernel) \notin {"WAIT", "SIGNAL"} => curso = Libre
        BY <1>2 DEF IInv, Viaje, EsIO
    <2>2. \/ curso' = curso /\ Motivo(a_kernel) \notin {"WAIT", "SIGNAL"}
          \/ curso' = [en |-> "check"] \/ curso' = Libre
        BY DEF AtenderContexto
    <2> QED BY <2>1, <2>2 DEF Libre
  <1> QED BY <1>4, <1>5, FInvSinCurso

LEMMA DesbloquearFInv ==
  ASSUME IInv, FInv, NEW f \in Interfaz, bloqueados[f] # <<>>, Desbloquear(f),
         UNCHANGED <<codigo, tablas, regs, curso, cola, achicado>>
  PROVE  FInv'
  <1>1. Head(bloqueados[f]).pid \in Pid /\ estado[Head(bloqueados[f]).pid] = "BLOCKED"
      BY CabezaEs
  <1>2. estado \in [Pid -> Estado]
      BY DEF IInv, Tipos
  <1>3. Traducciones'
      BY <1>1, <1>2, TraduccionesIguales DEF Desbloquear
  <1> QED BY <1>3, FInvConCurso

LEMMA PasoFInv == IInv /\ FInv /\ [Next]_vars => FInv'
  <1> SUFFICES ASSUME IInv, FInv, [Next]_vars PROVE FInv'
      OBVIOUS
  <1>1. CASE Ejecutar \/ instruccion_copy_string
      BY <1>1, EjecutarFInv, InstruccionCopyStringFInv
  <1>2. CASE check_interrupt \/ FinDeMovIn \/ CopiarTexto \/ FinDeEscribir \/ FinDeResize
    <2>1. /\ UNCHANGED <<estado, cola, achicado>>
          /\ curso'.en \in {"fetch", "libre", "check", "escribir"} \/ (UNCHANGED curso /\ curso.en = "copiar")
        BY <1>2 DEF check_interrupt, FinDeMovIn, CopiarTexto, FinDeEscribir, FinDeResize,
                    Seguir, Libre, delaMMU, delKernel
    <2>2. UNCHANGED tablas
        BY <1>2 DEF check_interrupt, FinDeMovIn, CopiarTexto, FinDeEscribir, FinDeResize, delaMemoria, Tablas!Contestar
    <2> QED BY <2>1, <2>2, TraduccionesIguales, FInvSinCurso
  <1>3. CASE PaginaDeResize
      BY <1>3, PaginaDeResizeFInv
  <1>4. CASE AtenderContexto
      BY <1>4, AtenderContextoFInv
  <1>5. ASSUME NEW p \in Pid, Despachar(p) \/ Despertar(p) \/ Devolver(p) PROVE FInv'
    <2>1. CASE Despachar(p) \/ Despertar(p)
      <3>1. /\ UNCHANGED <<codigo, tablas, cola, achicado>> /\ estado[p] \in {"READY", "BLOCKED"}
            /\ \E e : estado' = [estado EXCEPT ![p] = e]
            /\ curso'.en = "fetch" \/ UNCHANGED <<regs, curso>>
          BY <2>1 DEF Despachar, Despertar, delaMemoria, delaMMU
      <3>2. Traducciones'
        <4>1. estado \in [Pid -> Estado]
            BY DEF IInv, Tipos
        <4> QED BY <3>1, <4>1, TraduccionesIguales
      <3> QED BY <3>1, <3>2, FInvSinCurso, FInvConCurso
    <2> QED BY <1>5, <2>1, DevolverFInv
  <1>6. CASE LeerTeclado \/ PedirTexto \/ Tramos
    <2>1. UNCHANGED <<codigo, regs, curso, estado, cola, achicado>>
        BY <1>6 DEF LeerTeclado, PedirTexto, Tramos, delaMMU, delKernel
    <2>2. UNCHANGED tablas
      <3>1. LeerTeclado => UNCHANGED tablas
          BY DEF LeerTeclado, delaMemoria
      <3>2. PedirTexto => UNCHANGED tablas
          BY DEF PedirTexto, delaMemoria
      <3>3. \A h \in Hilo : LeerTramo(h) => UNCHANGED tablas
          BY Zenon DEF LeerTramo
      <3>4. \A h \in Hilo : EscribirTramo(h) => UNCHANGED tablas
          BY Zenon DEF EscribirTramo
      <3> QED BY <1>6, <3>1, <3>2, <3>3, <3>4 DEF Tramos
    <2> QED BY <2>1, <2>2, FInvIgual
  <1>7. CASE FinDeTeclado \/ MostrarTexto
    <2>1. PICK f \in {"STDIN", "STDOUT"} :
            /\ pedido[f] # Nada /\ UNCHANGED <<codigo, tablas, regs, curso, cola, achicado>>
            /\ Desbloquear(f) \/ UNCHANGED estado
        BY <1>7 DEF FinDeTeclado, MostrarTexto, Respondido, delaMemoria, delaMMU, delKernel
    <2>2. f \in Interfaz /\ bloqueados[f] # <<>>
        BY <2>1, ProgramasOK DEF IInv, Pedidos
    <2> QED BY <2>1, <2>2, DesbloquearFInv, FInvIgual
  <1>8. CASE UNCHANGED vars
      BY <1>8, FInvIgual DEF vars, delaMemoria, delKernel, delaMMU
  <1> QED BY <1>1, <1>2, <1>3, <1>4, <1>5, <1>6, <1>7, <1>8 DEF Next

LEMMA InicioFInv == Disciplina /\ Init => FInv
  <1> SUFFICES ASSUME Disciplina, Init PROVE FInv
      OBVIOUS
  <1>1. cola = <<>> /\ curso.en = "libre"
      BY DEF Init, MMU!Init, Libre
  <1> QED BY <1>1 DEF FInv

-----------------------------------------------------------------------------
(***************************************************************************)
(* The invariant                                                           *)
(***************************************************************************)
LEMMA PasoIInv == IInv /\ FInv /\ [Next]_vars => IInv'
  <1> SUFFICES ASSUME IInv, FInv, [Next]_vars PROVE IInv'
      OBVIOUS
  <1>1. CASE Ejecutar
      BY <1>1, PasoEjecutar
  <1>2. CASE check_interrupt
      BY <1>2, PasoCheckInterrupt
  <1>3. CASE FinDeMovIn
      BY <1>3, PasoFinDeMovIn
  <1>4. CASE CopiarTexto
      BY <1>4, PasoCopiarTexto
  <1>5. CASE FinDeEscribir
      BY <1>5, PasoFinDeEscribir
  <1>6. CASE PaginaDeResize
      BY <1>6, PasoPaginaDeResize
  <1>7. CASE FinDeResize
      BY <1>7, PasoFinDeResize
  <1>8. CASE AtenderContexto
      BY <1>8, PasoAtenderContexto
  <1>9. ASSUME NEW p \in Pid, Despachar(p) \/ Despertar(p) \/ Devolver(p) PROVE IInv'
      BY <1>9, PasoDespachar, PasoDespertar, PasoDevolver
  <1>10. CASE LeerTeclado
      BY <1>10, PasoLeerTeclado
  <1>11. CASE PedirTexto
      BY <1>11, PasoPedirTexto
  <1>12. CASE FinDeTeclado
      BY <1>12, PasoFinDeTeclado
  <1>13. CASE MostrarTexto
      BY <1>13, PasoMostrarTexto
  <1>14. CASE Tramos
      BY <1>14, PasoTramos
  <1>15. CASE UNCHANGED vars
      BY <1>15, IInvIgual DEF vars, delaMemoria, delKernel
  <1>16. CASE instruccion_copy_string
      BY <1>16, PasoInstruccionCopyString
  <1> QED BY <1>1, <1>2, <1>3, <1>4, <1>5, <1>6, <1>7, <1>8, <1>9, <1>10, <1>11, <1>12, <1>13, <1>14, <1>15, <1>16
          DEF Next

LEMMA IInvTypeOK == IInv => TypeOK
  <1> SUFFICES ASSUME IInv PROVE TypeOK
      OBVIOUS
  <1>1. Tipos
      BY DEF IInv
  <1>2. espacio \in [Direccion -> Byte] /\ pedido \in [Hilo -> PedidoType]
      BY <1>1 DEF Tipos
  <1>3. \A h \in Hilo : pedido[h] # Nada /\ pedido[h].op = "escribir" => Len(pedido[h].buffer) = pedido[h].size
      BY <1>1 DEF Tipos
  <1>4. \A p \in Pid : tablas[p] \in Seq(Marco) /\ estado[p] \in Estado
      BY <1>1 DEF Tipos
  <1>5. \A p \in Pid : pcb[p].pc \in Nat /\ pcb[p].val \in Banco
      BY <1>1 DEF Tipos
  <1>6. \A v \in Banco : \A r \in Registro : v[r] \in 0 .. Palabra(r) - 1
      BY DEF Banco
  <1>7. regs.val \in Banco
      BY <1>1 DEF Tipos
  <1>8. \A p, q \in Pid : estado[p] = "RUNNING" /\ estado[q] = "RUNNING" => p = q
      BY DEF IInv, EnUnLugar, EnCpu, EnCamino, Viaje, EsIO
  <1> QED BY <1>2, <1>3, <1>4, <1>5, <1>6, <1>7, <1>8 DEF TypeOK

LEMMA IInvTramosPropios == IInv => TramosPropios
  <1> SUFFICES ASSUME IInv, NEW h \in Hilo, pedido[h] # Nada, pedido[h].size > 0
               PROVE  MarcoDe(pedido[h].df) \in ToSet(tablas[pedido[h].pid])
      BY DEF TramosPropios
  <1>1. EnPaginas(pedido[h].pid, pedido[h].df, pedido[h].size)
      BY DEF IInv, Pedidos
  <1> QED BY <1>1 DEF EnPaginas, ToSet

LEMMA SiempreIInv == Disciplina => (Spec => [](IInv /\ FInv))
  <1>1. Disciplina /\ Init => IInv /\ FInv
      BY InicioIInv, InicioFInv
  <1>2. IInv /\ FInv /\ [Next]_vars => (IInv /\ FInv)'
      BY PasoIInv, PasoFInv
  <1> SUFFICES ASSUME Disciplina PROVE Spec => [](IInv /\ FInv)
      OBVIOUS
  <1> QED BY <1>1, <1>2, PTL DEF Spec

\* Every variable of the CPU, the kernel, the memory and the interfaces keeps
\* its type and no two processes are RUNNING, whatever each runs, if none
\* grows again after it has shrunk.
THEOREM SiempreTypeOK == Disciplina => (Spec => []TypeOK)
  <1> SUFFICES ASSUME Disciplina PROVE Spec => []TypeOK
      OBVIOUS
  <1> QED BY SiempreIInv, IInvTypeOK, PTL

\* If no process grows again after it has shrunk, a request of the CPU or of
\* an interface (memoria/src/main.c, atender_cpu and atender_interfaz) is
\* always in a frame of the process that made it, through a TLB whose rows
\* nobody removes (cpu/src/main.c:1096-1170).
THEOREM SiempreTramosPropios == Disciplina => (Spec => []TramosPropios)
  <1> SUFFICES ASSUME Disciplina PROVE Spec => []TramosPropios
      OBVIOUS
  <1> QED BY SiempreIInv, IInvTramosPropios, PTL

-----------------------------------------------------------------------------
(***************************************************************************)
(* The machine of each program                                             *)
(***************************************************************************)
Vive(p) == /\ estado[p] # "EXIT"
           /\ ~(EnCamino(p) /\ Motivo(a_kernel) \in {"EXIT", "OUT_OF_MEMORY"})

Registros == [p \in Pid |-> Contexto(p).val]
Pcs == [p \in Pid |-> Contexto(p).pc]
Memorias == [p \in Pid |-> MemoriaDe(p)]
Esperandos == [p \in Pid |-> EsperandoDe(p)]
Vivos == [p \in Pid |-> /\ estado[p] # "EXIT"
                        /\ ~(EnCamino(p) /\ Motivo(a_kernel) \in {"EXIT", "OUT_OF_MEMORY"})]

\* p sees no change in its machine.
Igual(p) ==
  /\ Contexto(p)'.val = Contexto(p).val /\ Contexto(p)'.pc = Contexto(p).pc
  /\ MemoriaDe(p)' = MemoriaDe(p) /\ EsperandoDe(p)' = EsperandoDe(p)
  /\ Vive(p)' <=> Vive(p)

LEMMA Tartamudeo ==
  ASSUME \A p \in Pid : Igual(p), UNCHANGED <<codigo, mostrado>>
  PROVE  UNCHANGED Maquinas!vars
  <1>1. Registros' = Registros /\ Pcs' = Pcs
      BY DEF Registros, Pcs, Igual
  <1>2. Memorias' = Memorias /\ Esperandos' = Esperandos
      BY DEF Memorias, Esperandos, Igual
  <1>3. Vivos' = Vivos
      BY Zenon DEF Vivos, Igual, Vive
  <1> QED BY <1>1, <1>2, <1>3 DEF Maquinas!vars, Registros, Pcs, Memorias, Esperandos, Vivos

LEMMA CambiaUno ==
  ASSUME NEW p \in Pid, \A q \in Pid \ {p} : Igual(q), NEW v, NEW c, NEW m, NEW e,
         Contexto(p)'.val = v, Contexto(p)'.pc = c, MemoriaDe(p)' = m, EsperandoDe(p)' = e
  PROVE  /\ Registros' = [Registros EXCEPT ![p] = v] /\ Pcs' = [Pcs EXCEPT ![p] = c]
         /\ Memorias' = [Memorias EXCEPT ![p] = m] /\ Esperandos' = [Esperandos EXCEPT ![p] = e]
  <1>1. Registros' = [Registros EXCEPT ![p] = v] /\ Pcs' = [Pcs EXCEPT ![p] = c]
      BY DEF Registros, Pcs, Igual
  <1>2. Memorias' = [Memorias EXCEPT ![p] = m] /\ Esperandos' = [Esperandos EXCEPT ![p] = e]
      BY DEF Memorias, Esperandos, Igual
  <1> QED BY <1>1, <1>2

LEMMA ViveUno ==
  ASSUME NEW p \in Pid, \A q \in Pid \ {p} : Igual(q), NEW v \in BOOLEAN, Vive(p)' <=> v
  PROVE  Vivos' = [Vivos EXCEPT ![p] = v]
  BY DEF Vivos, Igual, Vive

-----------------------------------------------------------------------------
(***************************************************************************)
(* What a process has in memory                                            *)
(***************************************************************************)
Escribe(h, p) == pedido[h].op = "escribir" /\ pedido[h].pid = p /\ pedido[h].size > 0
Extension(p) == 1 .. Len(tablas[p]) * TamPag

LEMMA DivisionEs ==
  ASSUME NEW t \in Nat \ {0}, NEW a \in Nat, NEW b \in 0 .. t - 1
  PROVE  ((a * t) + b) \div t = a /\ ((a * t) + b) % t = b
  OBVIOUS

LEMMA FisicaEs ==
  ASSUME tablas \in [Pid -> Seq(Marco)], MarcosUnicos, NEW p \in Pid, NEW i \in Extension(p)
  PROVE  /\ Fisica(p, i) \in Direccion /\ Logica(p, Fisica(p, i)) = i - 1 /\ i \in Nat
         /\ \E j \in DOMAIN tablas[p] : /\ MarcoDe(Fisica(p, i)) = tablas[p][j]
                                        /\ j = (i - 1) \div TamPag + 1
  <1>1. TamPag \in Nat \ {0} /\ Len(tablas[p]) \in Nat /\ Len(tablas[p]) * TamPag \in Nat
      BY EspacioOK, TablaSeq
  <1>2. i \in Nat /\ i - 1 \in Nat /\ i - 1 < Len(tablas[p]) * TamPag
      BY <1>1 DEF Extension
  <1>3. Fisica(p, i) = DireccionDe(p, i - 1)
      BY DEF Fisica
  <1>4. DireccionDe(p, i - 1) \in Direccion /\ Logica(p, DireccionDe(p, i - 1)) = i - 1
      BY <1>2, Mmu
  <1> DEFINE j == (i - 1) \div TamPag + 1
             o == (i - 1) % TamPag
  <1>5. (i - 1) \div TamPag < Len(tablas[p]) /\ (i - 1) \div TamPag \in Nat /\ o \in 0 .. TamPag - 1
      BY <1>1, <1>2, Cociente
  <1>6. j \in DOMAIN tablas[p]
      BY <1>1, <1>5, TablaSeq
  <1>9. tablas[p][j] \in Marco
      BY <1>6, TablaSeq
  <1>7. DireccionDe(p, i - 1) = (tablas[p][j] * TamPag) + o
      BY DEF DireccionDe
  <1> HIDE DEF o
  <1>8. MarcoDe(DireccionDe(p, i - 1)) = tablas[p][j]
      BY <1>5, <1>7, <1>9, EnMarco
  <1> QED BY <1>2, <1>3, <1>4, <1>6, <1>8

\* In the piece of a request, physical addresses go as logical ones do.
LEMMA EnTramo ==
  ASSUME tablas \in [Pid -> Seq(Marco)], MarcosUnicos, NEW p \in Pid, NEW i \in Extension(p),
         NEW q, q.df \in Direccion, q.size \in Nat \ {0}, EnPaginas(p, q.df, q.size), NEW k \in 0 .. Tramo(q) - 1
  PROVE  Fisica(p, i) = q.df + k <=> i - 1 = Logica(p, q.df) + k
  <1> DEFINE o == q.df % TamPag
             m == MarcoDe(q.df)
  <1>1. TamPag \in Nat \ {0} /\ o \in 0 .. TamPag - 1 /\ m \in Marco /\ q.df = (m * TamPag) + o
      BY EspacioOK, DeMarco
  <1>2. PICK j \in DOMAIN tablas[p] : tablas[p][j] = m
      BY DEF EnPaginas
  <1>3. j \in Nat \ {0} /\ Logica(p, q.df) = ((j - 1) * TamPag) + o
      BY <1>2, TablaSeq, LogicaEs
  <1>4. Tramo(q) \in Nat /\ Tramo(q) <= TamPag - o /\ k + 1 \in 1 .. Tramo(q) /\ k \in Nat
      BY <1>1, TramoEs
  <1>13. q.df \in Int
      BY DEF Direccion
  <1>5. (q.df + (k + 1)) - 1 = q.df + k
    <2>1. \A x, y \in Int : (x + (y + 1)) - 1 = x + y
        OBVIOUS
    <2>2. k \in Int /\ q.df \in Int
        BY <1>4, <1>13
    <2> QED BY <2>1, <2>2
  <1>6. MarcoDe(q.df + k) = m /\ (q.df + k) % TamPag = o + ((k + 1) - 1)
      BY <1>4, <1>5, TramoEnDireccion
  <1>7. Logica(p, q.df + k) = ((j - 1) * TamPag) + (o + k)
      BY <1>1, <1>2, <1>4, <1>6, LogicaEs
  <1>8. (j - 1) * TamPag \in Int
      BY <1>1, <1>3
  <1>9. Logica(p, Fisica(p, i)) = i - 1 /\ i \in Nat
      BY FisicaEs
  <1>10. ASSUME i - 1 = ((j - 1) * TamPag) + (o + k) PROVE Fisica(p, i) = q.df + k
    <2>1. j - 1 \in Nat /\ o + k \in 0 .. TamPag - 1
        BY <1>1, <1>3, <1>4
    <2>2. (i - 1) \div TamPag = j - 1 /\ (i - 1) % TamPag = o + k
      <3> DEFINE a == j - 1
                 b == o + k
      <3>1. a \in Nat /\ b \in 0 .. TamPag - 1 /\ i - 1 = (a * TamPag) + b
          BY <1>10, <2>1
      <3> HIDE DEF a, b
      <3>2. ((a * TamPag) + b) \div TamPag = a /\ ((a * TamPag) + b) % TamPag = b
          BY <1>1, <3>1, DivisionEs
      <3> QED BY <3>1, <3>2 DEF a, b
    <2>3. (j - 1) + 1 = j
        BY <1>3
    <2>4. Fisica(p, i) = (m * TamPag) + (o + k)
        BY <1>2, <2>2, <2>3 DEF Fisica, DireccionDe
    <2>5. m * TamPag \in Int /\ k \in Int /\ o \in Int
        BY <1>1, <1>4 DEF Marco
    <2> HIDE DEF m, o
    <2> QED BY <1>1, <2>4, <2>5
  <1> HIDE DEF o, m
  <1>11. ASSUME Fisica(p, i) = q.df + k PROVE i - 1 = ((j - 1) * TamPag) + (o + k)
      BY <1>7, <1>9, <1>11
  <1>12. Logica(p, q.df) + k = ((j - 1) * TamPag) + (o + k)
      BY <1>1, <1>3, <1>4, <1>8
  <1> QED BY <1>10, <1>11, <1>12

LEMMA UnEscritor ==
  ASSUME IInv, NEW h \in Hilo, NEW g \in Hilo, NEW p \in Pid, Escribe(h, p), Escribe(g, p)
  PROVE  h = g
  <1>1. \A f \in Interfaz : Escribe(f, p) => f = "STDIN" /\ estado[p] = "BLOCKED"
    <2> SUFFICES ASSUME NEW f \in Interfaz, Escribe(f, p) PROVE f = "STDIN" /\ estado[p] = "BLOCKED"
        OBVIOUS
    <2>1. pedido[f] # Nada
        BY NadaEs DEF Escribe
    <2>2. f = "STDIN" /\ bloqueados[f] # <<>> /\ bloqueados[f][1].pid = p
        BY <2>1 DEF Escribe, IInv, Pedidos
    <2> QED BY <2>2, CabezaEs
  <1>2. Escribe("CPU", p) => estado[p] = "RUNNING"
    <2> SUFFICES ASSUME Escribe("CPU", p) PROVE estado[p] = "RUNNING"
        OBVIOUS
    <2>1. pedido["CPU"] # Nada
        BY NadaEs DEF Escribe
    <2>2. regs.pid = p /\ curso # Libre
        BY <2>1 DEF Escribe, IInv, Pedidos, Libre
    <2> QED BY <2>2 DEF IInv, EnUnLugar, EnCpu
  <1> QED BY <1>1, <1>2, Hilos

LEMMA MemoriaSin ==
  \A p \in Pid : (\A h \in Hilo : ~Escribe(h, p)) => MemoriaDe(p) = [i \in Extension(p) |-> espacio[Fisica(p, i)]]
  <1> SUFFICES ASSUME NEW p \in Pid, \A h \in Hilo : ~Escribe(h, p)
               PROVE  MemoriaDe(p) = [i \in Extension(p) |-> espacio[Fisica(p, i)]]
      OBVIOUS
  <1>1. \A i : Pendiente(p, i) = {}
      BY DEF Pendiente, Escribe
  <1> QED BY <1>1 DEF MemoriaDe, Extension

Escrita(h, p) ==
  [i \in Extension(p) |->
     IF i - Logica(p, pedido[h].df) \in 1 .. pedido[h].size THEN pedido[h].buffer[i - Logica(p, pedido[h].df)]
     ELSE espacio[Fisica(p, i)]]

LEMMA MemoriaCon ==
  IInv => \A p \in Pid : \A h \in Hilo : Escribe(h, p) => MemoriaDe(p) = Escrita(h, p)
  <1> SUFFICES ASSUME IInv, NEW p \in Pid, NEW h \in Hilo, Escribe(h, p)
               PROVE  MemoriaDe(p) = Escrita(h, p)
      OBVIOUS
  <1>1. \A i : Pendiente(p, i) = IF i - Logica(p, pedido[h].df) \in 1 .. pedido[h].size THEN {h} ELSE {}
    <2> SUFFICES ASSUME NEW i
                 PROVE  Pendiente(p, i) = IF i - Logica(p, pedido[h].df) \in 1 .. pedido[h].size THEN {h} ELSE {}
        OBVIOUS
    <2>1. \A g \in Pendiente(p, i) : g \in Hilo /\ Escribe(g, p)
        BY DEF Pendiente, Escribe
    <2>2. \A g \in Pendiente(p, i) : g = h
        BY <2>1, UnEscritor
    <2>3. h \in Pendiente(p, i) <=> i - Logica(p, pedido[h].df) \in 1 .. pedido[h].size
        BY DEF Pendiente, Escribe
    <2> QED BY <2>2, <2>3
  <1>2. \A i : Pendiente(p, i) # {} => (CHOOSE g \in Pendiente(p, i) : TRUE) = h
      BY <1>1
  <1>3. \A i \in Extension(p) : MemoriaDe(p)[i] = Escrita(h, p)[i]
    <2> SUFFICES ASSUME NEW i \in Extension(p) PROVE MemoriaDe(p)[i] = Escrita(h, p)[i]
        OBVIOUS
    <2>1. MemoriaDe(p)[i] = IF Pendiente(p, i) = {} THEN espacio[Fisica(p, i)]
                            ELSE LET q == pedido[CHOOSE g \in Pendiente(p, i) : TRUE]
                                 IN q.buffer[i - Logica(p, q.df)]
        BY DEF MemoriaDe, Extension
    <2>2. CASE i - Logica(p, pedido[h].df) \in 1 .. pedido[h].size
        BY <1>1, <1>2, <2>1, <2>2 DEF Escrita
    <2>3. CASE ~(i - Logica(p, pedido[h].df) \in 1 .. pedido[h].size)
        BY <1>1, <2>1, <2>3 DEF Escrita
    <2> QED BY <2>2, <2>3
  <1>4. MemoriaDe(p) = [i \in Extension(p) |-> MemoriaDe(p)[i]]
      BY DEF MemoriaDe, Extension
  <1>5. Escrita(h, p) = [i \in Extension(p) |-> Escrita(h, p)[i]]
      BY DEF Escrita
  <1> QED BY <1>3, <1>4, <1>5

LEMMA MemoriaSinPrima ==
  (\A p \in Pid : (\A h \in Hilo : ~Escribe(h, p)) => MemoriaDe(p) = [i \in Extension(p) |-> espacio[Fisica(p, i)]])'
  BY MemoriaSin, PTL

LEMMA MemoriaConPrima ==
  (IInv => \A p \in Pid : \A h \in Hilo : Escribe(h, p) => MemoriaDe(p) = Escrita(h, p))'
  BY MemoriaCon, PTL

LEMMA MemoriaIgual ==
  ASSUME IInv, IInv', NEW p \in Pid, tablas'[p] = tablas[p], UNCHANGED espacio,
         \A h \in Hilo : /\ Escribe(h, p)' <=> Escribe(h, p)
                         /\ Escribe(h, p) => pedido'[h] = pedido[h]
  PROVE  MemoriaDe(p)' = MemoriaDe(p)
  <1>1. Extension(p)' = Extension(p) /\ \A i : Fisica(p, i)' = Fisica(p, i)
      BY DEF Extension, Fisica, DireccionDe
  <1>2. CASE \A h \in Hilo : ~Escribe(h, p)
    <2>1. MemoriaDe(p) = [i \in Extension(p) |-> espacio[Fisica(p, i)]]
        BY <1>2, MemoriaSin
    <2>2. MemoriaDe(p)' = [i \in Extension(p)' |-> espacio'[Fisica(p, i)']]
        BY <1>2, MemoriaSinPrima
    <2> QED BY <1>1, <2>1, <2>2
  <1>3. ASSUME NEW h \in Hilo, Escribe(h, p) PROVE MemoriaDe(p)' = MemoriaDe(p)
    <2>1. MemoriaDe(p) = Escrita(h, p)
        BY <1>3, MemoriaCon
    <2>2. MemoriaDe(p)' = Escrita(h, p)'
        BY <1>3, MemoriaConPrima
    <2>3. \A df : Logica(p, df)' = Logica(p, df)
        BY DEF Logica
    <2>4. pedido'[h] = pedido[h]
        BY <1>3
    <2>5. Escrita(h, p)' = Escrita(h, p)
        BY <1>1, <2>3, <2>4 DEF Escrita
    <2> QED BY <2>1, <2>2, <2>5
  <1> QED BY <1>2, <1>3

LEMMA LeidoIgual ==
  ASSUME NEW h \in Hilo, NEW p \in Pid, pedido[h].pid = p, pedido'[h] = pedido[h], tablas'[p] = tablas[p],
         MemoriaDe(p)' = MemoriaDe(p), NEW dl, NEW n, LeidoDe(pedido[h], dl, n)
  PROVE  LeidoDe(pedido[h], dl, n)'
  <1>1. \A df : Logica(p, df)' = Logica(p, df)
      BY DEF Logica
  <1> QED BY <1>1 DEF LeidoDe

LEMMA PedidoDeTramo ==
  ASSUME IInv, NEW h \in Hilo, LeerTramo(h) \/ EscribirTramo(h)
  PROVE  /\ UNCHANGED tablas /\ tablas \in [Pid -> Seq(Marco)] /\ MarcosUnicos
         /\ \A g \in Hilo \ {h} : pedido'[g] = pedido[g]
         /\ pedido[h] # Nada /\ pedido[h] \in PedidoType
         /\ pedido[h].pid \in Pid /\ pedido[h].df \in Direccion
         /\ pedido[h].size \in Nat \ {0} /\ pedido[h].buffer \in Seq(Byte)
         /\ EnPaginas(pedido[h].pid, pedido[h].df, pedido[h].size)
         /\ Tramo(pedido[h]) \in 1 .. pedido[h].size
         /\ \E df \in Direccion : \E s :
              /\ pedido'[h].op = pedido[h].op /\ pedido'[h].pid = pedido[h].pid /\ pedido'[h].df = df
              /\ pedido'[h].size = pedido[h].size - Tramo(pedido[h]) /\ pedido'[h].buffer = s
              /\ pedido'[h].size > 0 => Logica(pedido[h].pid, df) = Logica(pedido[h].pid, pedido[h].df) + Tramo(pedido[h])
              /\ LeerTramo(h) => s = pedido[h].buffer \o [j \in 1 .. Tramo(pedido[h]) |-> espacio[pedido[h].df + j - 1]]
              /\ EscribirTramo(h) => s = SubSeq(pedido[h].buffer, Tramo(pedido[h]) + 1, Len(pedido[h].buffer))
  <1> DEFINE q == pedido[h]
             n == Tramo(q)
  <1>1. UNCHANGED tablas /\ q.op \in {"leer", "escribir"} /\ q.size > 0
      BY DEF LeerTramo, EscribirTramo
  <1>2. tablas \in [Pid -> Seq(Marco)] /\ MarcosUnicos /\ pedido \in [Hilo -> PedidoType] /\ q # Nada
      BY <1>1, NadaEs DEF IInv, Tipos
  <1>3. /\ q.pid \in Pid /\ q.df \in Direccion /\ q.size \in Nat \ {0} /\ q.buffer \in Seq(Byte)
        /\ q \in [op: {"leer", "escribir"}, pid: Pid, df: Direccion, size: Nat, buffer: Seq(Byte)]
    <2>1. q \in PedidoType
        BY <1>2
    <2> QED BY <1>1, <1>2, <2>1, DePedido DEF PedidoType
  <1>4. EnPaginas(q.pid, q.df, q.size)
      BY <1>1, <1>2 DEF IInv, Pedidos
  <1>5. n \in 1 .. q.size
      BY <1>3, TramoEs
  <1>6. ASSUME NEW df \in Sigue(q, n), NEW s, pedido' = [pedido EXCEPT ![h] = [q EXCEPT !.df = df, !.size = @ - n, !.buffer = s]]
        PROVE  /\ df \in Direccion
               /\ pedido'[h].op = q.op /\ pedido'[h].pid = q.pid /\ pedido'[h].df = df
               /\ pedido'[h].size = q.size - n /\ pedido'[h].buffer = s
               /\ pedido'[h].size > 0 => Logica(q.pid, df) = Logica(q.pid, q.df) + n
               /\ \A g \in Hilo \ {h} : pedido'[g] = pedido[g]
    <2>1. /\ df \in Direccion
          /\ q.size - n > 0 => Logica(q.pid, df) = Logica(q.pid, q.df) + n
        BY <1>2, <1>3, <1>4, SigueEs
    <2> HIDE DEF n
    <2>2. /\ pedido'[h] = [q EXCEPT !.df = df, !.size = @ - n, !.buffer = s]
          /\ \A g \in Hilo \ {h} : pedido'[g] = pedido[g]
        BY <1>2, <1>6
    <2>3. /\ pedido'[h].op = q.op /\ pedido'[h].pid = q.pid /\ pedido'[h].df = df
          /\ pedido'[h].size = q.size - n /\ pedido'[h].buffer = s
        BY <1>3, <2>2
    <2> QED BY <2>1, <2>2, <2>3
  <1>7. CASE LeerTramo(h)
    <2> DEFINE s == q.buffer \o [j \in 1 .. n |-> espacio[q.df + j - 1]]
    <2>1. PICK df \in Sigue(q, n) : pedido' = [pedido EXCEPT ![h] = [q EXCEPT !.df = df, !.size = @ - n, !.buffer = s]]
        BY <1>7 DEF LeerTramo
    <2>2. ~EscribirTramo(h)
        BY <1>7 DEF LeerTramo, EscribirTramo
    <2> HIDE DEF n
    <2> QED BY <1>1, <1>2, <1>3, <1>4, <1>5, <1>6, <2>1, <2>2 DEF n
  <1>8. CASE EscribirTramo(h)
    <2> DEFINE s == SubSeq(q.buffer, n + 1, Len(q.buffer))
    <2>1. PICK df \in Sigue(q, n) : pedido' = [pedido EXCEPT ![h] = [q EXCEPT !.df = df, !.size = @ - n, !.buffer = s]]
        BY <1>8 DEF EscribirTramo
    <2>2. ~LeerTramo(h)
        BY <1>8 DEF LeerTramo, EscribirTramo
    <2> HIDE DEF n
    <2> QED BY <1>1, <1>2, <1>3, <1>4, <1>5, <1>6, <2>1, <2>2 DEF n
  <1> QED BY <1>7, <1>8

\* A piece that is written was written already for the process.
LEMMA MemoriaTramo ==
  ASSUME IInv, IInv', NEW h \in Hilo, LeerTramo(h) \/ EscribirTramo(h), NEW p \in Pid
  PROVE  MemoriaDe(p)' = MemoriaDe(p)
  <1> DEFINE q == pedido[h]
             n == Tramo(q)
             l == Logica(p, q.df)
  <1>1. /\ UNCHANGED tablas /\ tablas \in [Pid -> Seq(Marco)] /\ MarcosUnicos
        /\ \A g \in Hilo \ {h} : pedido'[g] = pedido[g]
        /\ pedido'[h].op = q.op /\ pedido'[h].pid = q.pid
        /\ q.pid \in Pid /\ q.df \in Direccion /\ q.size \in Nat \ {0} /\ EnPaginas(q.pid, q.df, q.size)
        /\ n \in 1 .. q.size
      BY PedidoDeTramo
  <1>2. \A i, df : Fisica(p, i)' = Fisica(p, i) /\ Logica(p, df)' = Logica(p, df) /\ Extension(p)' = Extension(p)
      BY <1>1 DEF Fisica, DireccionDe, Logica, Extension
  <1>3. CASE LeerTramo(h)
    <2>1. q.op = "leer" /\ UNCHANGED espacio
        BY <1>3 DEF LeerTramo
    <2> QED BY <1>1, <2>1, MemoriaIgual DEF Escribe
  <1>4. CASE EscribirTramo(h)
    <2>1. /\ q.op = "escribir"
          /\ espacio' = [d \in Direccion |->
                           IF d - q.df \in 0 .. n - 1 THEN q.buffer[d - q.df + 1] ELSE espacio[d]]
        BY <1>4 DEF EscribirTramo
    <2>2. /\ pedido'[h].size = q.size - n
          /\ pedido'[h].buffer = SubSeq(q.buffer, n + 1, Len(q.buffer))
          /\ pedido'[h].size > 0 => Logica(q.pid, pedido'[h].df) = Logica(q.pid, q.df) + n
        BY <1>4, PedidoDeTramo
    <2>3. q.buffer \in Seq(Byte) /\ Len(q.buffer) = q.size
        BY <1>4, <2>1, PedidoDeTramo DEF IInv, Tipos
    <2>4. \A d \in Direccion : d \in Int /\ d - q.df \in Int
        BY <1>1 DEF Direccion
    <2> HIDE DEF n
    <2>5. CASE p # q.pid
      <3>1. \A i \in Extension(p) : espacio'[Fisica(p, i)] = espacio[Fisica(p, i)]
        <4> SUFFICES ASSUME NEW i \in Extension(p) PROVE espacio'[Fisica(p, i)] = espacio[Fisica(p, i)]
            OBVIOUS
        <4> DEFINE d == Fisica(p, i)
        <4>1. PICK j \in DOMAIN tablas[p] : d \in Direccion /\ MarcoDe(d) = tablas[p][j]
            BY <1>1, FisicaEs
        <4>2. PICK k \in DOMAIN tablas[q.pid] : tablas[q.pid][k] = MarcoDe(q.df)
            BY <1>1 DEF EnPaginas
        <4> HIDE DEF d
        <4>3. ASSUME d - q.df \in 0 .. n - 1 PROVE MarcoDe(d) = MarcoDe(q.df)
          <5> DEFINE x == d - q.df + 1
          <5>1. x \in 1 .. n /\ q.df + x - 1 = d
              BY <1>1, <2>4, <4>1, <4>3, SMTT(30) DEF Direccion
          <5> HIDE DEF x
          <5> QED BY <1>1, <5>1, TramoEnDireccion DEF n
        <4>4. ~(d - q.df \in 0 .. n - 1)
            BY <1>1, <2>5, <4>1, <4>2, <4>3 DEF MarcosUnicos
        <4> QED BY <2>1, <4>1, <4>4 DEF d
      <3>2. \A g \in Hilo : /\ Escribe(g, p)' <=> Escribe(g, p)
                            /\ Escribe(g, p) => g # h
          BY <1>1, <2>5 DEF Escribe
      <3>3. CASE \A g \in Hilo : ~Escribe(g, p)
        <4>1. MemoriaDe(p) = [i \in Extension(p) |-> espacio[Fisica(p, i)]]
            BY <3>3, MemoriaSin
        <4>2. MemoriaDe(p)' = [i \in Extension(p)' |-> espacio'[Fisica(p, i)']]
            BY <3>2, <3>3, MemoriaSinPrima
        <4> QED BY <1>2, <3>1, <4>1, <4>2
      <3>4. ASSUME NEW g \in Hilo, Escribe(g, p) PROVE MemoriaDe(p)' = MemoriaDe(p)
        <4>1. pedido'[g] = pedido[g]
            BY <1>1, <3>2, <3>4
        <4>2. MemoriaDe(p) = Escrita(g, p) /\ MemoriaDe(p)' = Escrita(g, p)'
            BY <3>2, <3>4, MemoriaCon, MemoriaConPrima
        <4>3. Escrita(g, p)' = Escrita(g, p)
            BY <1>2, <3>1, <4>1 DEF Escrita
        <4> QED BY <4>2, <4>3
      <3> QED BY <3>3, <3>4
    <2>6. CASE p = q.pid
      <3>1. Escribe(h, p) /\ MemoriaDe(p) = Escrita(h, p)
          BY <1>1, <2>1, <2>6, MemoriaCon DEF Escribe
      <3>2. DOMAIN MemoriaDe(p)' = Extension(p) /\ MemoriaDe(p)' = [i \in Extension(p) |-> MemoriaDe(p)'[i]]
          BY <1>1 DEF MemoriaDe, Extension
      <3>3. ASSUME NEW i \in Extension(p)
            PROVE  MemoriaDe(p)'[i] = IF i - l \in 1 .. q.size THEN q.buffer[i - l] ELSE espacio[Fisica(p, i)]
        <4> DEFINE d == Fisica(p, i)
                   e == i - l
        <4>1. d \in Direccion /\ i \in Nat
            BY <1>1, FisicaEs
        <4>2. l \in Int
          <5>1. PICK j \in DOMAIN tablas[p] : tablas[p][j] = MarcoDe(q.df)
              BY <1>1, <2>6 DEF EnPaginas
          <5>2. l = ((j - 1) * TamPag) + (q.df % TamPag) /\ j \in Nat
              BY <1>1, <5>1, LogicaEs, TablaSeq
          <5>3. (j - 1) * TamPag \in Int /\ q.df % TamPag \in Int
              BY <1>1, <5>2, EspacioOK, DeMarco
          <5> HIDE DEF l
          <5> QED BY <5>2, <5>3
        <4>3. \A k \in 0 .. n - 1 : d = q.df + k <=> i - 1 = l + k
            BY <1>1, <2>6, EnTramo DEF n
        <4> HIDE DEF d, l
        <4>4. d - q.df \in 0 .. n - 1 <=> e \in 1 .. n
          <5>1. ASSUME d - q.df \in 0 .. n - 1 PROVE e \in 1 .. n
            <6>1. d = q.df + (d - q.df)
                BY <2>4, <4>1, <1>1 DEF Direccion
            <6>2. i - 1 = l + (d - q.df)
                BY <4>3, <5>1, <6>1
            <6> QED BY <1>1, <2>4, <4>1, <4>2, <5>1, <6>2
          <5>2. ASSUME e \in 1 .. n PROVE d - q.df \in 0 .. n - 1
            <6>1. e - 1 \in 0 .. n - 1 /\ i - 1 = l + (e - 1)
                BY <1>1, <4>1, <4>2, <5>2
            <6>2. d = q.df + (e - 1)
                BY <4>3, <6>1
            <6> QED BY <1>1, <6>1, <6>2 DEF Direccion
          <5> QED BY <5>1, <5>2
        <4>5. e \in 1 .. n => d - q.df + 1 = e
          <5> SUFFICES ASSUME e \in 1 .. n PROVE d - q.df + 1 = e
              OBVIOUS
          <5>1. e - 1 \in 0 .. n - 1 /\ i - 1 = l + (e - 1)
              BY <1>1, <4>1, <4>2
          <5>2. d = q.df + (e - 1)
              BY <4>3, <5>1
          <5> QED BY <1>1, <5>1, <5>2 DEF Direccion
        <4>6. espacio'[d] = IF e \in 1 .. n THEN q.buffer[e] ELSE espacio[d]
            BY <2>1, <4>1, <4>4, <4>5
        <4>7. CASE q.size - n > 0
          <5>1. Escribe(h, p)' /\ Logica(p, pedido'[h].df) = l + n
              BY <1>1, <2>1, <2>2, <2>6, <4>7 DEF Escribe, l
          <5>2. MemoriaDe(p)' = Escrita(h, p)'
              BY <5>1, MemoriaConPrima
          <5>3. MemoriaDe(p)'[i] = IF i - (l + n) \in 1 .. q.size - n THEN pedido'[h].buffer[i - (l + n)] ELSE espacio'[d]
              BY <1>2, <2>2, <5>1, <5>2 DEF Escrita, d
          <5>4. i - (l + n) = e - n /\ e \in Int
              BY <1>1, <4>1, <4>2
          <5>5. \A x \in 1 .. q.size - n : pedido'[h].buffer[x] = q.buffer[n + x]
            <6>1. n + 1 \in 1 .. q.size + 1 /\ Len(q.buffer) \in n .. q.size
                BY <1>1, <2>3
            <6>2. \A x \in n + 1 .. q.size : q.buffer[x] \in Byte
                BY <1>1, <2>3, ElementOfSeq
            <6> QED BY <1>1, <2>2, <2>3, <6>1, <6>2
          <5> HIDE DEF e
          <5>6. CASE e \in 1 .. n
              BY <1>1, <4>6, <5>3, <5>4, <5>6 DEF e
          <5>7. CASE e \in n + 1 .. q.size
            <6>1. e - n \in 1 .. q.size - n /\ n + (e - n) = e
                BY <1>1, <5>7
            <6> QED BY <1>1, <5>3, <5>4, <5>5, <5>7, <6>1 DEF e
          <5>8. CASE ~(e \in 1 .. q.size)
              BY <1>1, <4>6, <5>3, <5>4, <5>8 DEF e, d
          <5> QED BY <1>1, <5>4, <5>6, <5>7, <5>8
        <4>8. CASE ~(q.size - n > 0)
          <5>1. n = q.size
              BY <1>1, <4>8
          <5>2. \A g \in Hilo : ~Escribe(g, p)'
            <6> SUFFICES ASSUME NEW g \in Hilo, Escribe(g, p)' PROVE FALSE
                OBVIOUS
            <6>1. g # h
                BY <1>1, <2>2, <5>1 DEF Escribe
            <6>2. Escribe(g, p)
                BY <1>1, <6>1 DEF Escribe
            <6> QED BY <3>1, <6>1, <6>2, UnEscritor
          <5>3. MemoriaDe(p)' = [x \in Extension(p)' |-> espacio'[Fisica(p, x)']]
              BY <5>2, MemoriaSinPrima
          <5> QED BY <1>2, <4>6, <5>1, <5>3 DEF d
        <4> QED BY <4>7, <4>8 DEF l
      <3> QED BY <3>1, <3>2, <3>3 DEF Escrita
    <2> QED BY <2>5, <2>6
  <1> QED BY <1>3, <1>4

-----------------------------------------------------------------------------
(***************************************************************************)
(* What a process waits for, and where its context is                      *)
(***************************************************************************)
LEMMA SinEspera ==
  \A p : /\ ~(EnCamino(p) /\ EsIO(Motivo(a_kernel))) /\ (\A f \in Interfaz : EnCola(p, f) = {})
         => EsperandoDe(p) = <<>>
  BY DEF EsperandoDe, EsIO

LEMMA SinEsperaPrima ==
  (\A p : /\ ~(EnCamino(p) /\ EsIO(Motivo(a_kernel))) /\ (\A f \in Interfaz : EnCola(p, f) = {})
          => EsperandoDe(p) = <<>>)'
  BY SinEspera, PTL

\* Who is not blocked is in no queue.
LEMMA FueraDeColas ==
  IInv => \A p \in Pid : estado[p] # "BLOCKED" => \A f \in Interfaz : EnCola(p, f) = {}
  BY DEF IInv, Colas, EnCola

LEMMA FueraDeColasPrima ==
  (IInv => \A p \in Pid : estado[p] # "BLOCKED" => \A f \in Interfaz : EnCola(p, f) = {})'
  BY FueraDeColas, PTL

LEMMA EsperaEnCola ==
  IInv => \A p \in Pid, f \in Interfaz : \A j \in EnCola(p, f) :
    EsperandoDe(p) = <<IF f = "STDIN" THEN "IO_STDIN_READ" ELSE "IO_STDOUT_WRITE",
                       Logica(p, bloqueados[f][j].df), bloqueados[f][j].size>>
  <1> SUFFICES ASSUME IInv, NEW p \in Pid, NEW f \in Interfaz, NEW j \in EnCola(p, f)
               PROVE  EsperandoDe(p) = <<IF f = "STDIN" THEN "IO_STDIN_READ" ELSE "IO_STDOUT_WRITE",
                                         Logica(p, bloqueados[f][j].df), bloqueados[f][j].size>>
      OBVIOUS
  <1>1. j \in DOMAIN bloqueados[f] /\ bloqueados[f][j].pid = p
      BY DEF EnCola
  <1>2. estado[p] = "BLOCKED"
      BY <1>1 DEF IInv, Colas
  <1>3. ~EnCamino(p)
      BY <1>2 DEF IInv, EnUnLugar
  <1>4. \A g \in Interfaz : \A k \in EnCola(p, g) : g = f /\ k = j
    <2> SUFFICES ASSUME NEW g \in Interfaz, NEW k \in EnCola(p, g) PROVE g = f /\ k = j
        OBVIOUS
    <2>1. k \in DOMAIN bloqueados[g] /\ bloqueados[g][k].pid = p
        BY DEF EnCola
    <2> QED BY <1>1, <2>1 DEF IInv, Colas
  <1>5. (\E g \in Interfaz : EnCola(p, g) # {}) /\ (CHOOSE g \in Interfaz : EnCola(p, g) # {}) = f
      BY <1>4
  <1>6. (CHOOSE k \in EnCola(p, f) : TRUE) = j
      BY <1>4
  <1> QED BY <1>3, <1>5, <1>6 DEF EsperandoDe

LEMMA EsperaEnColaPrima ==
  (IInv => \A p \in Pid, f \in Interfaz : \A j \in EnCola(p, f) :
     EsperandoDe(p) = <<IF f = "STDIN" THEN "IO_STDIN_READ" ELSE "IO_STDOUT_WRITE",
                        Logica(p, bloqueados[f][j].df), bloqueados[f][j].size>>)'
  BY EsperaEnCola, PTL

LEMMA EsperandoIgual ==
  ASSUME NEW p \in Pid, tablas'[p] = tablas[p], UNCHANGED bloqueados, pedido'["STDIN"] = Nada <=> pedido["STDIN"] = Nada,
         EnCamino(p)' <=> EnCamino(p), EnCamino(p) => a_kernel' = a_kernel
  PROVE  EsperandoDe(p)' = EsperandoDe(p)
  <1>1. \A f : EnCola(p, f)' = EnCola(p, f)
      BY DEF EnCola
  <1>2. \A df : Logica(p, df)' = Logica(p, df)
      BY DEF Logica
  <1>3. CASE EnCamino(p) /\ Motivo(a_kernel) \in {"IO_STDIN_READ", "IO_STDOUT_WRITE"}
      BY <1>2, <1>3 DEF EsperandoDe
  <1>4. CASE ~(EnCamino(p) /\ Motivo(a_kernel) \in {"IO_STDIN_READ", "IO_STDOUT_WRITE"})
    <2>1. ~(EnCamino(p)' /\ Motivo(a_kernel') \in {"IO_STDIN_READ", "IO_STDOUT_WRITE"})
        BY <1>4
    <2> DEFINE f == CHOOSE g \in Interfaz : EnCola(p, g) # {}
               j == CHOOSE k \in EnCola(p, f) : TRUE
               hay == \E g \in Interfaz : EnCola(p, g) # {}
               pide(g, k, l) == <<IF g = "STDIN" THEN "IO_STDIN_READ" ELSE "IO_STDOUT_WRITE", l, bloqueados[g][k].size>>
    <2>2. EsperandoDe(p) = IF hay THEN pide(f, j, Logica(p, bloqueados[f][j].df)) ELSE <<>>
        BY <1>4 DEF EsperandoDe
    <2>3. EsperandoDe(p)' = IF hay' THEN pide(f, j, Logica(p, bloqueados[f][j].df))' ELSE <<>>
        BY <2>1 DEF EsperandoDe
    <2>4. f' = f /\ (hay' <=> hay)
        BY <1>1
    <2>5. j' = j
      <3> HIDE DEF f
      <3> QED BY <1>1, <2>4
    <2> HIDE DEF f, j, hay
    <2>6. pide(f, j, Logica(p, bloqueados[f][j].df))' = pide(f, j, Logica(p, bloqueados[f][j].df))
        BY <1>2, <2>4, <2>5
    <2> QED BY <2>2, <2>3, <2>4, <2>6
  <1> QED BY <1>3, <1>4

Pospuesta == curso.en \in {"mov_in", "copiar", "resize", "wait"}

LEMMA EnLaCPU ==
  IInv /\ curso # Libre =>
    /\ regs.pid \in Pid /\ estado[regs.pid] = "RUNNING" /\ EnCpu(regs.pid)
    /\ Contexto(regs.pid).val = regs.val
    /\ Pospuesta => Contexto(regs.pid).pc = regs.pc - 1
    /\ ~Pospuesta => Contexto(regs.pid).pc = regs.pc
    /\ EsperandoDe(regs.pid) = <<>> /\ Vive(regs.pid)
    /\ curso.en # "escribir" => \A h \in Hilo : ~Escribe(h, regs.pid)
    /\ \A h \in Interfaz : ~Escribe(h, regs.pid)
  <1> SUFFICES ASSUME IInv, curso # Libre
               PROVE  /\ regs.pid \in Pid /\ estado[regs.pid] = "RUNNING" /\ EnCpu(regs.pid)
                      /\ Contexto(regs.pid).val = regs.val
                      /\ Pospuesta => Contexto(regs.pid).pc = regs.pc - 1
                      /\ ~Pospuesta => Contexto(regs.pid).pc = regs.pc
                      /\ EsperandoDe(regs.pid) = <<>> /\ Vive(regs.pid)
                      /\ curso.en # "escribir" => \A h \in Hilo : ~Escribe(h, regs.pid)
                      /\ \A h \in Interfaz : ~Escribe(h, regs.pid)
      OBVIOUS
  <1>1. regs.pid \in Pid /\ EnCpu(regs.pid) /\ estado[regs.pid] = "RUNNING" /\ regs.pc \in Nat
      BY DEF IInv, Tipos, EnCpu, EnUnLugar
  <1>2. /\ Contexto(regs.pid).val = regs.val
        /\ Pospuesta => Contexto(regs.pid).pc = regs.pc - 1
        /\ ~Pospuesta => Contexto(regs.pid).pc = regs.pc
      BY <1>1 DEF Contexto, Pospuesta
  <1>3. EnCamino(regs.pid) => Motivo(a_kernel) \in {"WAIT", "SIGNAL"}
      BY DEF IInv, Viaje, EnCamino
  <1>4. EsperandoDe(regs.pid) = <<>>
      BY <1>1, <1>3, SinEspera, FueraDeColas DEF EsIO
  <1>5. Vive(regs.pid)
      BY <1>1, <1>3 DEF Vive
  <1>6. \A f \in Interfaz : ~Escribe(f, regs.pid)
    <2> SUFFICES ASSUME NEW f \in Interfaz, Escribe(f, regs.pid) PROVE FALSE
        OBVIOUS
    <2>1. pedido[f] # Nada
        BY NadaEs DEF Escribe
    <2>2. bloqueados[f] # <<>> /\ bloqueados[f][1].pid = regs.pid
        BY <2>1 DEF Escribe, IInv, Pedidos
    <2> QED BY <1>1, <2>2, CabezaEs
  <1>7. curso.en # "escribir" => ~Escribe("CPU", regs.pid)
      BY NadaEs DEF Escribe, IInv, Pedidos
  <1> QED BY <1>1, <1>2, <1>4, <1>5, <1>6, <1>7, Hilos

LEMMA EnLaCPUPrima ==
  (IInv /\ curso # Libre =>
     /\ regs.pid \in Pid /\ estado[regs.pid] = "RUNNING" /\ EnCpu(regs.pid)
     /\ Contexto(regs.pid).val = regs.val
     /\ Pospuesta => Contexto(regs.pid).pc = regs.pc - 1
     /\ ~Pospuesta => Contexto(regs.pid).pc = regs.pc
     /\ EsperandoDe(regs.pid) = <<>> /\ Vive(regs.pid)
     /\ curso.en # "escribir" => \A h \in Hilo : ~Escribe(h, regs.pid)
     /\ \A h \in Interfaz : ~Escribe(h, regs.pid))'
  BY EnLaCPU, PTL

\* On its way to the kernel, when the CPU does not keep it.
LEMMA DeCamino ==
  IInv /\ curso = Libre /\ a_kernel # <<>> =>
    /\ a_kernel[1] \in Pid /\ estado[a_kernel[1]] = "RUNNING" /\ EnCamino(a_kernel[1])
    /\ Contexto(a_kernel[1]) = actualizar_pcb(a_kernel)
    /\ EsperandoDe(a_kernel[1]) =
         IF EsIO(Motivo(a_kernel))
         THEN <<Motivo(a_kernel), Logica(a_kernel[1], Dato(a_kernel, 2)), Dato(a_kernel, 3)>> ELSE <<>>
    /\ Vive(a_kernel[1]) <=> Motivo(a_kernel) \notin {"EXIT", "OUT_OF_MEMORY"}
    /\ \A h \in Hilo : ~Escribe(h, a_kernel[1])
  <1> SUFFICES ASSUME IInv, curso = Libre, a_kernel # <<>>
               PROVE  /\ a_kernel[1] \in Pid /\ estado[a_kernel[1]] = "RUNNING" /\ EnCamino(a_kernel[1])
                      /\ Contexto(a_kernel[1]) = actualizar_pcb(a_kernel)
                      /\ EsperandoDe(a_kernel[1]) =
                           IF EsIO(Motivo(a_kernel))
                           THEN <<Motivo(a_kernel), Logica(a_kernel[1], Dato(a_kernel, 2)), Dato(a_kernel, 3)>>
                           ELSE <<>>
                      /\ Vive(a_kernel[1]) <=> Motivo(a_kernel) \notin {"EXIT", "OUT_OF_MEMORY"}
                      /\ \A h \in Hilo : ~Escribe(h, a_kernel[1])
      OBVIOUS
  <1> DEFINE p == a_kernel[1]
  <1>1. p \in Pid /\ EnCamino(p) /\ estado[p] = "RUNNING"
      BY DEF IInv, Viaje, EnCamino, EnUnLugar
  <1>2. Contexto(p) = actualizar_pcb(a_kernel)
      BY DEF Contexto, EnCpu
  <1>3. ~EsIO(Motivo(a_kernel)) => EsperandoDe(p) = <<>>
      BY <1>1, SinEspera, FueraDeColas
  <1>4. EsIO(Motivo(a_kernel)) =>
          EsperandoDe(p) = <<Motivo(a_kernel), Logica(p, Dato(a_kernel, 2)), Dato(a_kernel, 3)>>
      BY <1>1 DEF EsperandoDe, EsIO
  <1>5. Vive(p) <=> Motivo(a_kernel) \notin {"EXIT", "OUT_OF_MEMORY"}
      BY <1>1 DEF Vive
  <1>6. \A f \in Interfaz : ~Escribe(f, p)
    <2> SUFFICES ASSUME NEW f \in Interfaz, Escribe(f, p) PROVE FALSE
        OBVIOUS
    <2>1. pedido[f] # Nada
        BY NadaEs DEF Escribe
    <2>2. bloqueados[f] # <<>> /\ bloqueados[f][1].pid = p
        BY <2>1 DEF Escribe, IInv, Pedidos
    <2> QED BY <1>1, <2>2, CabezaEs
  <1>7. ~Escribe("CPU", p)
      BY NadaEs DEF Escribe, IInv, Pedidos, Libre
  <1> QED BY <1>1, <1>2, <1>3, <1>4, <1>5, <1>6, <1>7, Hilos

LEMMA DeCaminoPrima ==
  (IInv /\ curso = Libre /\ a_kernel # <<>> =>
     /\ a_kernel[1] \in Pid /\ estado[a_kernel[1]] = "RUNNING" /\ EnCamino(a_kernel[1])
     /\ Contexto(a_kernel[1]) = actualizar_pcb(a_kernel)
     /\ EsperandoDe(a_kernel[1]) =
          IF EsIO(Motivo(a_kernel))
          THEN <<Motivo(a_kernel), Logica(a_kernel[1], Dato(a_kernel, 2)), Dato(a_kernel, 3)>> ELSE <<>>
     /\ Vive(a_kernel[1]) <=> Motivo(a_kernel) \notin {"EXIT", "OUT_OF_MEMORY"}
     /\ \A h \in Hilo : ~Escribe(h, a_kernel[1]))'
  BY DeCamino, PTL

\* Who is neither in the CPU nor on its way is as the kernel has it.
LEMMA EnReposo ==
  \A p : ~EnCpu(p) /\ ~EnCamino(p) => Contexto(p) = pcb[p] /\ (Vive(p) <=> estado[p] # "EXIT")
  BY DEF Contexto, EnCamino, Vive

LEMMA EnReposoPrima ==
  (\A p : ~EnCpu(p) /\ ~EnCamino(p) => Contexto(p) = pcb[p] /\ (Vive(p) <=> estado[p] # "EXIT"))'
  BY EnReposo, PTL

\* A step of the CPU with p is not seen by the others.
LEMMA OtrosDeCPU ==
  ASSUME IInv, IInv', NEW p \in Pid, curso # Libre, regs.pid = p, curso' # Libre => regs'.pid = p,
         a_kernel = <<>>, a_kernel' = <<>> \/ a_kernel'[1] = p,
         UNCHANGED <<espacio, bloqueados, estado, pcb>>, \A q \in Pid \ {p} : tablas'[q] = tablas[q],
         \A f \in Interfaz : pedido'[f] = pedido[f]
  PROVE  \A q \in Pid \ {p} : Igual(q)
  <1> SUFFICES ASSUME NEW q \in Pid \ {p} PROVE Igual(q)
      OBVIOUS
  <1>1. ~EnCpu(q) /\ ~EnCamino(q) /\ ~EnCpu(q)' /\ ~EnCamino(q)'
      BY DEF EnCpu, EnCamino
  <1>2. Contexto(q)' = Contexto(q) /\ (Vive(q)' <=> Vive(q))
    <2>1. Contexto(q) = pcb[q] /\ (Vive(q) <=> estado[q] # "EXIT")
        BY <1>1, EnReposo
    <2>2. Contexto(q)' = pcb'[q] /\ (Vive(q)' <=> estado'[q] # "EXIT")
        BY <1>1, EnReposoPrima
    <2> QED BY <2>1, <2>2
  <1>3. EsperandoDe(q)' = EsperandoDe(q)
      BY <1>1, Hilos, EsperandoIgual
  <1>4. \A h \in Hilo : /\ Escribe(h, q)' <=> Escribe(h, q)
                        /\ Escribe(h, q) => pedido'[h] = pedido[h]
    <2>1. ~Escribe("CPU", q)
        BY NadaEs DEF Escribe, IInv, Pedidos
    <2>2. ~Escribe("CPU", q)'
      <3> SUFFICES ASSUME Escribe("CPU", q)' PROVE FALSE
          OBVIOUS
      <3>1. pedido'["CPU"] # Nada
          BY NadaEs DEF Escribe
      <3>2. pedido'["CPU"].pid = regs'.pid /\ curso'.en \in {"mov_in", "copiar", "escribir"}
          BY <3>1 DEF IInv, Pedidos
      <3>3. curso' # Libre
          BY <3>2 DEF Libre
      <3> QED BY <3>2, <3>3 DEF Escribe
    <2>3. \A f \in Interfaz : (Escribe(f, q)' <=> Escribe(f, q)) /\ pedido'[f] = pedido[f]
        BY DEF Escribe
    <2> QED BY <2>1, <2>2, <2>3, Hilos
  <1>5. MemoriaDe(q)' = MemoriaDe(q)
      BY <1>4, MemoriaIgual
  <1> QED BY <1>2, <1>3, <1>5 DEF Igual

-----------------------------------------------------------------------------
(***************************************************************************)
(* Steps of the CPU, as the machine of its process sees them               *)
(***************************************************************************)
Visto == Maquinas!Next \/ UNCHANGED Maquinas!vars

\* p stays in the CPU.
LEMMA EnCPUSeVe ==
  ASSUME IInv, IInv', NEW p \in Pid, p = regs.pid, curso # Libre, curso' # Libre, regs'.pid = p,
         a_kernel = <<>>, a_kernel' = <<>> \/ a_kernel'[1] = p,
         UNCHANGED <<espacio, bloqueados, estado, pcb>>, \A q \in Pid \ {p} : tablas'[q] = tablas[q],
         \A f \in Interfaz : pedido'[f] = pedido[f]
  PROVE  /\ \A q \in Pid \ {p} : Igual(q)
         /\ Registros[p] = regs.val /\ Registros' = [Registros EXCEPT ![p] = regs'.val]
         /\ Pcs[p] = regs.pc - (IF Pospuesta THEN 1 ELSE 0)
         /\ Pcs' = [Pcs EXCEPT ![p] = regs'.pc - (IF Pospuesta' THEN 1 ELSE 0)]
         /\ Esperandos' = Esperandos /\ Vivos' = Vivos /\ Esperandos[p] = <<>> /\ Vivos[p]
         /\ Memorias[p] = MemoriaDe(p) /\ Memorias' = [Memorias EXCEPT ![p] = MemoriaDe(p)']
         /\ UNCHANGED tablas /\ curso.en # "escribir" /\ curso'.en # "escribir"
              => MemoriaDe(p)' = MemoriaDe(p) /\ Memorias' = Memorias
  <1>1. \A q \in Pid \ {p} : Igual(q)
      BY OtrosDeCPU
  <1>2. /\ Contexto(p).val = regs.val /\ EsperandoDe(p) = <<>> /\ Vive(p)
        /\ Contexto(p).pc = regs.pc - (IF Pospuesta THEN 1 ELSE 0)
        /\ curso.en # "escribir" => \A h \in Hilo : ~Escribe(h, p)
    <2>1. regs.pc \in Int
        BY DEF IInv, Tipos
    <2> QED BY <2>1, EnLaCPU
  <1>3. /\ Contexto(p)'.val = regs'.val /\ EsperandoDe(p)' = <<>> /\ Vive(p)'
        /\ Contexto(p)'.pc = regs'.pc - (IF Pospuesta' THEN 1 ELSE 0)
        /\ curso'.en # "escribir" => \A h \in Hilo : ~Escribe(h, p)'
    <2>1. regs'.pc \in Int
        BY DEF IInv, Tipos
    <2>2. /\ Contexto(regs.pid)' = Contexto(p)' /\ EsperandoDe(regs.pid)' = EsperandoDe(p)'
          /\ Vive(regs.pid)' = Vive(p)' /\ \A h \in Hilo : Escribe(h, regs.pid)' = Escribe(h, p)'
        OBVIOUS
    <2> QED BY <2>1, <2>2, EnLaCPUPrima
  <1>4. Registros[p] = regs.val /\ Pcs[p] = regs.pc - (IF Pospuesta THEN 1 ELSE 0)
          /\ Esperandos[p] = <<>> /\ Memorias[p] = MemoriaDe(p)
      BY <1>2 DEF Registros, Pcs, Esperandos, Memorias
  <1>5. Vivos[p]
      BY <1>2 DEF Vivos, Vive
  <1>6. /\ Registros' = [Registros EXCEPT ![p] = regs'.val]
        /\ Pcs' = [Pcs EXCEPT ![p] = regs'.pc - (IF Pospuesta' THEN 1 ELSE 0)]
        /\ Memorias' = [Memorias EXCEPT ![p] = MemoriaDe(p)']
      BY <1>1, <1>3 DEF Registros, Pcs, Memorias, Igual
  <1>7. Esperandos' = Esperandos
      BY <1>1, <1>2, <1>3 DEF Esperandos, Igual
  <1>8. Vivos' = Vivos
      BY <1>1, <1>2, <1>3 DEF Vivos, Igual, Vive
  <1>9. ASSUME UNCHANGED tablas, curso.en # "escribir", curso'.en # "escribir"
        PROVE  MemoriaDe(p)' = MemoriaDe(p) /\ Memorias' = Memorias
    <2>1. MemoriaDe(p)' = MemoriaDe(p)
        BY <1>2, <1>3, <1>9, MemoriaIgual
    <2> QED BY <1>6, <2>1 DEF Memorias
  <1> QED BY <1>1, <1>4, <1>5, <1>6, <1>7, <1>8, <1>9

\* p leaves for the kernel.
LEMMA AlSalirSeVe ==
  ASSUME IInv, IInv', NEW p \in Pid, p = regs.pid, curso # Libre, curso.en # "escribir", curso' = Libre,
         a_kernel = <<>>, a_kernel' # <<>>, a_kernel'[1] = p, NEW c, NEW v, actualizar_pcb(a_kernel') = [pc |-> c, val |-> v],
         UNCHANGED <<espacio, bloqueados, estado, pcb, tablas, pedido>>
  PROVE  /\ \A q \in Pid \ {p} : Igual(q)
         /\ Registros[p] = regs.val /\ Registros' = [Registros EXCEPT ![p] = v]
         /\ Pcs[p] = regs.pc - (IF Pospuesta THEN 1 ELSE 0) /\ Pcs' = [Pcs EXCEPT ![p] = c]
         /\ Esperandos[p] = <<>> /\ Vivos[p] /\ Memorias' = Memorias /\ Memorias[p] = MemoriaDe(p)
         /\ Esperandos' = [Esperandos EXCEPT ![p] =
              IF EsIO(Motivo(a_kernel')) THEN <<Motivo(a_kernel'), Logica(p, Dato(a_kernel', 2)), Dato(a_kernel', 3)>>
              ELSE <<>>]
         /\ ~EsIO(Motivo(a_kernel')) => Esperandos' = Esperandos
         /\ Motivo(a_kernel') \in {"EXIT", "OUT_OF_MEMORY"} => Vivos' = [Vivos EXCEPT ![p] = FALSE]
         /\ Motivo(a_kernel') \notin {"EXIT", "OUT_OF_MEMORY"} => Vivos' = Vivos
  <1>1. \A q \in Pid \ {p} : Igual(q)
      BY OtrosDeCPU
  <1>2. /\ Contexto(p).val = regs.val /\ EsperandoDe(p) = <<>> /\ Vive(p)
        /\ Contexto(p).pc = regs.pc - (IF Pospuesta THEN 1 ELSE 0)
        /\ \A h \in Hilo : ~Escribe(h, p)
    <2>1. regs.pc \in Int
        BY DEF IInv, Tipos
    <2> QED BY <2>1, EnLaCPU
  <1>3. /\ Contexto(p)' = actualizar_pcb(a_kernel')
        /\ EsperandoDe(p)' = IF EsIO(Motivo(a_kernel'))
             THEN <<Motivo(a_kernel'), Logica(p, Dato(a_kernel', 2)), Dato(a_kernel', 3)>> ELSE <<>>
        /\ Vive(p)' <=> Motivo(a_kernel') \notin {"EXIT", "OUT_OF_MEMORY"}
    <2>1. /\ Contexto(a_kernel[1])' = Contexto(p)' /\ EsperandoDe(a_kernel[1])' = EsperandoDe(p)'
          /\ Vive(a_kernel[1])' = Vive(p)' /\ \A df : Logica(a_kernel[1], df)' = Logica(p, df)
        BY DEF Logica
    <2> QED BY <2>1, DeCaminoPrima
  <1>4. MemoriaDe(p)' = MemoriaDe(p)
    <2>1. \A h \in Hilo : ~Escribe(h, p)'
        BY <1>2 DEF Escribe
    <2> QED BY <1>2, <2>1, MemoriaIgual
  <1>5. Contexto(p)'.val = v /\ Contexto(p)'.pc = c
      BY <1>3
  <1>6. Registros[p] = regs.val /\ Pcs[p] = regs.pc - (IF Pospuesta THEN 1 ELSE 0)
          /\ Esperandos[p] = <<>> /\ Memorias[p] = MemoriaDe(p)
      BY <1>2 DEF Registros, Pcs, Esperandos, Memorias
  <1>7. Vivos[p]
      BY <1>2 DEF Vivos, Vive
  <1>8. /\ Registros' = [Registros EXCEPT ![p] = v] /\ Pcs' = [Pcs EXCEPT ![p] = c]
      BY <1>1, <1>5 DEF Registros, Pcs, Igual
  <1>9. Memorias' = Memorias
      BY <1>1, <1>4 DEF Memorias, Igual
  <1>10. Esperandos' = [Esperandos EXCEPT ![p] =
              IF EsIO(Motivo(a_kernel')) THEN <<Motivo(a_kernel'), Logica(p, Dato(a_kernel', 2)), Dato(a_kernel', 3)>>
              ELSE <<>>]
      BY <1>1, <1>3 DEF Esperandos, Igual
  <1>11. ~EsIO(Motivo(a_kernel')) => Esperandos' = Esperandos
      BY <1>1, <1>2, <1>3 DEF Esperandos, Igual
  <1>12. Motivo(a_kernel') \in {"EXIT", "OUT_OF_MEMORY"} => Vivos' = [Vivos EXCEPT ![p] = FALSE]
      BY <1>1, <1>3, ViveUno
  <1>13. Motivo(a_kernel') \notin {"EXIT", "OUT_OF_MEMORY"} => Vivos' = Vivos
      BY <1>1, <1>2, <1>3 DEF Vivos, Igual, Vive
  <1> QED BY <1>1, <1>6, <1>7, <1>8, <1>9, <1>10, <1>11, <1>12, <1>13

Proxima(p) == codigo[p][Pcs[p] + 1]

\* The instruction of a machine that is alive and waits for nothing.
LEMMA MaquinaEjecuta ==
  ASSUME NEW p \in Pid, Vivos[p], Esperandos[p] = <<>>, UNCHANGED codigo,
         \/ Maquinas!Set(p, Proxima(p)) \/ Maquinas!Sum(p, Proxima(p))
         \/ Maquinas!Sub(p, Proxima(p)) \/ Maquinas!Jnz(p, Proxima(p))
         \/ Maquinas!MovIn(p, Proxima(p)) \/ Maquinas!MovOut(p, Proxima(p)) \/ Maquinas!CopyString(p, Proxima(p))
         \/ Maquinas!Redimensionar(p, Proxima(p)) \/ Maquinas!Quedarse(p, Proxima(p))
         \/ Maquinas!Pedir(p, Proxima(p)) \/ Maquinas!Recurso(p, Proxima(p)) \/ Maquinas!Exit(p, Proxima(p))
  PROVE  Visto
  <1>1. Maquinas!Ejecutar(p)
      BY DEF Maquinas!Ejecutar, Maquinas!Nada, Proxima, Pcs, Esperandos, Vivos
  <1> QED BY <1>1 DEF Maquinas!Next, Visto

LEMMA Iguales ==
  /\ Maquinas!Registro = Registro
  /\ \A r \in Registro : Maquinas!Palabra(r) = Palabra(r)
  /\ \A v, n : Maquinas!Bytes(v, n) = Bytes(v, n)
  /\ \A n : Maquinas!Techo(n) = Techo(n)
  /\ Maquinas!Byte = Byte
  <1>1. Maquinas!Registro = Registro
      BY ProgramasOK DEF Maquinas!Registro
  <1> QED BY <1>1 DEF Maquinas!Palabra, Palabra, Maquinas!Bytes, Bytes, Maquinas!Techo, Techo, Maquinas!Byte, Byte

LEMMA TextoIgual == \A s : Maquinas!Texto(s) = Texto(s)
  BY DEF Maquinas!Texto, Texto, Maquinas!SelectInSeq, SelectInSeq, Maquinas!Min, Min, Maquinas!SelectInSubSeq, SelectInSubSeq

LEMMA NumeroIgual == \A s : Maquinas!Numero(s) = Numero(s)
  BY DEF Maquinas!Numero, Numero, Maquinas!FoldRight, FoldRight, Maquinas!MapThenFoldSet, MapThenFoldSet, Maquinas!Min, Min

-----------------------------------------------------------------------------
(***************************************************************************)
(* What goes on through a step: an instruction and a text that is shown    *)
(***************************************************************************)
LEMMA MostrandoSigue ==
  ASSUME IInv, Mostrando, pedido'["STDOUT"] = pedido["STDOUT"],
         NEW p \in Pid, pedido["STDOUT"] # Nada => p = bloqueados["STDOUT"][1].pid,
         pedido["STDOUT"] # Nada => /\ bloqueados'["STDOUT"][1] = bloqueados["STDOUT"][1]
                                    /\ tablas'[p] = tablas[p] /\ MemoriaDe(p)' = MemoriaDe(p)
  PROVE  Mostrando'
  <1> SUFFICES ASSUME pedido["STDOUT"] # Nada PROVE Mostrando'
      BY DEF Mostrando
  <1> DEFINE b == bloqueados["STDOUT"][1]
             dl == Logica(p, b.df)
  <1>1. pedido["STDOUT"].pid = p /\ p = b.pid
      BY Hilos DEF IInv, Pedidos
  <1>2. LeidoDe(pedido["STDOUT"], dl, b.size)
      BY <1>1 DEF Mostrando
  <1>3. Logica(p, b.df)' = Logica(p, b.df) /\ b' = b
      BY DEF Logica
  <1>4. PICK l, n : l = dl /\ n = b.size
      OBVIOUS
  <1>5. LeidoDe(pedido["STDOUT"], l, n)'
    <2>1. LeidoDe(pedido["STDOUT"], l, n)
        BY <1>2, <1>4
    <2> QED BY <1>1, <2>1, Hilos, LeidoIgual
  <1> HIDE DEF dl, b
  <1>6. b'.pid = p /\ b'.size = n /\ Logica(p, b.df)' = l
      BY <1>1, <1>3, <1>4 DEF dl
  <1>7. Logica(b.pid, b.df)' = Logica(p, b.df)'
      BY <1>6 DEF Logica
  <1> QED BY <1>5, <1>6, <1>7 DEF Mostrando, b

LEMMA MostrandoDeCPU ==
  ASSUME IInv, Mostrando, NEW p \in Pid, estado[p] # "BLOCKED", \A q \in Pid \ {p} : Igual(q),
         \A q \in Pid \ {p} : tablas'[q] = tablas[q], pedido'["STDOUT"] = pedido["STDOUT"], UNCHANGED bloqueados
  PROVE  Mostrando'
  <1> SUFFICES ASSUME pedido["STDOUT"] # Nada PROVE Mostrando'
      BY DEF Mostrando
  <1>1. "STDOUT" \in Interfaz /\ bloqueados["STDOUT"] # <<>>
      BY Hilos DEF IInv, Pedidos
  <1>2. PICK q \in Pid : q = bloqueados["STDOUT"][1].pid /\ estado[q] = "BLOCKED"
      BY <1>1, CabezaEs
  <1>3. tablas'[q] = tablas[q] /\ MemoriaDe(q)' = MemoriaDe(q)
      BY <1>2 DEF Igual
  <1> QED BY <1>2, <1>3, MostrandoSigue

LEMMA SinCurso ==
  ASSUME curso'.en \notin {"mov_in", "copiar", "resize", "wait"}
  PROVE  EnCurso'
  BY DEF EnCurso

LEMMA EnCursoSigue ==
  ASSUME IInv, EnCurso, UNCHANGED <<codigo, curso, regs>>, pedido'["CPU"] = pedido["CPU"],
         curso.en = "wait" => UNCHANGED a_kernel,
         curso # Libre => tablas'[regs.pid] = tablas[regs.pid] /\ MemoriaDe(regs.pid)' = MemoriaDe(regs.pid)
  PROVE  EnCurso'
  <1> SUFFICES ASSUME Pospuesta PROVE EnCurso'
      BY SinCurso DEF Pospuesta
  <1>1. curso # Libre /\ regs.pid \in Pid
      BY DEF IInv, Tipos, Libre, Pospuesta
  <1>2. Actual' = Actual
      BY DEF Actual
  <1>3. \A df : Logica(regs.pid, df)' = Logica(regs.pid, df)
      BY <1>1 DEF Logica
  <1>4. curso.en \in {"mov_in", "copiar"} => pedido["CPU"].pid = regs.pid
      BY DEF IInv, Pedidos
  <1>5. ASSUME NEW l, NEW n, LeidoDe(pedido["CPU"], l, n), curso.en \in {"mov_in", "copiar"}
        PROVE  LeidoDe(pedido["CPU"], l, n)'
    <2>1. PICK p \in Pid : p = regs.pid
        BY <1>1
    <2>2. tablas'[p] = tablas[p] /\ MemoriaDe(p)' = MemoriaDe(p)
      <3>1. MemoriaDe(p)' = MemoriaDe(regs.pid)'
          BY <2>1
      <3> QED BY <1>1, <2>1, <3>1
    <2> QED BY <1>4, <1>5, <2>1, <2>2, Hilos, LeidoIgual
  <1>6. CASE curso.en = "mov_in"
    <2> DEFINE l == regs.val[Actual[3]]
               n == TamReg[curso.reg]
    <2>1. PICK ll, nn : ll = l /\ nn = n
        OBVIOUS
    <2>2. LeidoDe(pedido["CPU"], ll, nn)'
        BY <1>5, <1>6, <2>1 DEF EnCurso
    <2>3. l' = ll /\ n' = nn
        BY <1>2, <2>1
    <2> HIDE DEF l, n
    <2>4. LeidoDe(pedido["CPU"], l, n)'
        BY <2>2, <2>3
    <2> QED BY <1>2, <1>6, <2>4 DEF EnCurso, l, n
  <1>7. CASE curso.en = "copiar"
    <2> DEFINE l == regs.val["SI"]
               n == curso.size
    <2>1. PICK ll, nn : ll = l /\ nn = n
        OBVIOUS
    <2>2. LeidoDe(pedido["CPU"], ll, nn)'
        BY <1>5, <1>7, <2>1 DEF EnCurso
    <2>3. l' = ll /\ n' = nn
        BY <2>1
    <2> HIDE DEF l, n
    <2>4. LeidoDe(pedido["CPU"], l, n)'
        BY <2>2, <2>3
    <2>5. Logica(regs.pid, curso.df)' = Logica(regs.pid, curso.df)
        BY <1>3
    <2> QED BY <1>2, <1>7, <2>4, <2>5 DEF EnCurso, l, n
  <1>8. CASE curso.en = "resize"
      BY <1>2, <1>8 DEF EnCurso
  <1>9. CASE curso.en = "wait"
    <2>1. Motivo(a_kernel') = Motivo(a_kernel)
        BY <1>9
    <2> QED BY <1>2, <1>9, <2>1 DEF EnCurso
  <1> QED BY <1>6, <1>7, <1>8, <1>9 DEF Pospuesta

\* What a step has to keep, and what the machines see of it.
SeVe == Visto /\ EnCurso' /\ Mostrando'

LEMMA SinCambio ==
  ASSUME NEW p \in Pid, UNCHANGED <<codigo, mostrado>>, Registros' = [Registros EXCEPT ![p] = Registros[p]],
         Pcs' = [Pcs EXCEPT ![p] = Pcs[p]], Memorias' = Memorias, Esperandos' = Esperandos, Vivos' = Vivos
  PROVE  Visto
  <1>1. Registros' = Registros
    <2>1. [Registros EXCEPT ![p] = Registros[p]] = Registros
        BY DEF Registros
    <2> QED BY <2>1
  <1>2. Pcs' = Pcs
    <2>1. [Pcs EXCEPT ![p] = Pcs[p]] = Pcs
        BY DEF Pcs
    <2> QED BY <2>1
  <1> QED BY <1>1, <1>2 DEF Visto, Maquinas!vars, Registros, Pcs, Memorias, Esperandos, Vivos

LEMMA SinVerse ==
  ASSUME \A p \in Pid : Igual(p), UNCHANGED <<codigo, mostrado>>
  PROVE  Visto
  BY Tartamudeo DEF Visto

-----------------------------------------------------------------------------
(***************************************************************************)
(* Instructions                                                            *)
(***************************************************************************)
LEMMA EnFetch ==
  ASSUME IInv, curso.en \in {"fetch", "decode"}
  PROVE  /\ Tipos /\ curso # Libre /\ ~Pospuesta /\ a_kernel = <<>> /\ pedido["CPU"] = Nada
         /\ regs.pid \in Pid /\ regs.pc \in Nat /\ estado[regs.pid] = "RUNNING"
  <1>1. curso # Libre /\ ~Pospuesta /\ pedido["CPU"] = Nada
      BY DEF Libre, Pospuesta, IInv, Pedidos
  <1>2. a_kernel = <<>>
      BY <1>1 DEF IInv, Viaje
  <1> QED BY <1>1, <1>2, EnLaCPU, RegsEs DEF IInv

LEMMA EnRegistrosSeVe ==
  ASSUME RInv, IInv', curso.en = "fetch", NEW i \in Linea, i = Instruccion, Consultados(i) \subseteq Registro, EnRegistros(i)
  PROVE  SeVe
  <1> DEFINE p == regs.pid
             j == Proxima(p)
  <1>1. /\ IInv /\ Tipos /\ curso # Libre /\ ~Pospuesta /\ a_kernel = <<>> /\ p \in Pid /\ regs.pc \in Nat
        /\ estado[p] = "RUNNING"
      BY EnFetch DEF RInv
  <1>2. /\ curso' = [en |-> "check"] /\ UNCHANGED <<codigo, pcb, estado, bloqueados, mostrado>>
        /\ UNCHANGED <<espacio, tablas, pedido, a_kernel>>
      BY DEF EnRegistros, Seguir, delKernel, delaMemoria
  <1>3. curso' # Libre /\ ~Pospuesta' /\ curso.en # "escribir" /\ curso'.en # "escribir"
      BY <1>2 DEF Libre, Pospuesta
  <1>4. /\ i[1] = "SET" => i[2] \in Nombre /\ i[3] \in Nat
        /\ i[1] = "JNZ" => i[2] \in Registro /\ i[3] \in Nat \ {0}
        /\ i[1] \in {"SUM", "SUB"} => i[2] \in Registro /\ i[3] \in Registro
      BY LineaEs, ConsultadosEs
  <1>5. regs = [pid |-> p, pc |-> regs.pc, val |-> regs.val] /\ regs.val \in Banco
      BY <1>1 DEF Tipos
  <1>6. \A r \in Registro : \A v : Asignado(r, v) =
          [pid |-> p, pc |-> regs.pc + 1, val |-> [regs.val EXCEPT ![r] = v % Palabra(r)]]
      BY <1>5, ProgramasOK DEF Asignado
  <1>7. \A v : Asignado("PC", v) = [pid |-> p, pc |-> v, val |-> regs.val]
      BY <1>5 DEF Asignado
  <1>8. Avanzado = [pid |-> p, pc |-> regs.pc + 1, val |-> regs.val]
      BY <1>5 DEF Avanzado
  <1>9. regs'.pid = p
      BY <1>4, <1>5, <1>6, <1>7, <1>8 DEF EnRegistros, Nombre
  <1>10. /\ \A q \in Pid \ {p} : Igual(q)
         /\ Registros[p] = regs.val /\ Registros' = [Registros EXCEPT ![p] = regs'.val]
         /\ Pcs[p] = regs.pc - (IF Pospuesta THEN 1 ELSE 0)
         /\ Pcs' = [Pcs EXCEPT ![p] = regs'.pc - (IF Pospuesta' THEN 1 ELSE 0)]
         /\ Esperandos' = Esperandos /\ Vivos' = Vivos /\ Esperandos[p] = <<>> /\ Vivos[p]
         /\ Memorias' = Memorias
      BY <1>1, <1>2, <1>3, <1>9, EnCPUSeVe
  <1>11. regs'.pc \in Int
      BY DEF IInv, Tipos
  <1>12. Pcs[p] = regs.pc /\ Pcs' = [Pcs EXCEPT ![p] = regs'.pc]
    <2>1. regs.pc - 0 = regs.pc /\ regs'.pc - 0 = regs'.pc
        BY <1>1, <1>11
    <2> HIDE DEF p, j
    <2> QED BY <1>1, <1>3, <1>10, <2>1
  <1>13. j = i
      BY <1>12 DEF Proxima, Instruccion
  <1> HIDE DEF j, p
  <1>14. Maquinas!Set(p, j) \/ Maquinas!Sum(p, j) \/ Maquinas!Sub(p, j) \/ Maquinas!Jnz(p, j)
    <2>1. /\ UNCHANGED <<Memorias, Esperandos, Vivos, mostrado>>
          /\ Pcs[p] = regs.pc /\ Registros[p] = regs.val
        BY <1>2, <1>10, <1>12
    <2>2. \A r \in Registro : \A v : regs'.val = [regs.val EXCEPT ![r] = v % Palabra(r)]
            => Registros' = [Registros EXCEPT ![p][r] = v % Maquinas!Palabra(r)]
        BY <1>10, Iguales
    <2>3. regs'.pc = regs.pc + 1 => Pcs' = [Pcs EXCEPT ![p] = @ + 1]
        BY <1>12
    <2>4. regs'.val = regs.val => Registros' = Registros
      <3>1. [Registros EXCEPT ![p] = Registros[p]] = Registros
          BY DEF Registros
      <3> QED BY <1>10, <3>1
    <2>5. Maquinas!Registro = Registro
        BY Iguales
    <2>6. CASE i[1] = "SET" /\ regs' = Asignado(i[2], i[3])
      <3>1. CASE i[2] = "PC"
        <4>1. regs'.pc = i[3] /\ regs'.val = regs.val
            BY <1>7, <2>6, <3>1
        <4> QED BY <1>12, <1>13, <2>1, <2>4, <2>6, <3>1, <4>1
               DEF Maquinas!Set, Maquinas!SinMemoria, Registros, Pcs, Memorias, Esperandos, Vivos
      <3>2. CASE i[2] # "PC"
        <4>1. i[2] \in Registro
            BY <1>4, <2>6, <3>2 DEF Nombre
        <4>2. regs'.pc = regs.pc + 1 /\ regs'.val = [regs.val EXCEPT ![i[2]] = i[3] % Palabra(i[2])]
            BY <1>6, <2>6, <4>1
        <4>3. Pcs' = [Pcs EXCEPT ![p] = @ + 1] /\ Registros' = [Registros EXCEPT ![p][i[2]] = i[3] % Maquinas!Palabra(i[2])]
            BY <2>2, <2>3, <4>1, <4>2
        <4> QED BY <1>13, <2>1, <2>6, <3>2, <4>3
               DEF Maquinas!Set, Maquinas!SinMemoria, Maquinas!Queda, Maquinas!Avanza, Registros, Pcs, Memorias,
                   Esperandos, Vivos
      <3> QED BY <3>1, <3>2
    <2>7. CASE i[1] = "SUM" /\ regs' = Asignado(i[2], regs.val[i[3]] + regs.val[i[2]])
      <3> DEFINE v == regs.val[i[2]] + regs.val[i[3]]
      <3>1. i[2] \in Registro /\ i[3] \in Registro /\ regs.val[i[3]] + regs.val[i[2]] = v
          BY <1>4, <1>5, <2>7 DEF Banco
      <3>2. regs'.pc = regs.pc + 1 /\ regs'.val = [regs.val EXCEPT ![i[2]] = v % Palabra(i[2])]
          BY <1>6, <2>7, <3>1
      <3>3. v = Registros[p][i[2]] + Registros[p][i[3]]
          BY <2>1
      <3> HIDE DEF v
      <3>4. Pcs' = [Pcs EXCEPT ![p] = @ + 1] /\ Registros' = [Registros EXCEPT ![p][i[2]] = v % Maquinas!Palabra(i[2])]
          BY <2>2, <2>3, <3>1, <3>2
      <3> QED BY <1>13, <2>1, <2>5, <2>7, <3>1, <3>3, <3>4
             DEF Maquinas!Sum, Maquinas!SinMemoria, Maquinas!Queda, Maquinas!Avanza, Registros, Pcs, Memorias,
                 Esperandos, Vivos
    <2>8. CASE i[1] = "SUB" /\ regs' = Asignado(i[2], regs.val[i[2]] - regs.val[i[3]])
      <3> DEFINE v == regs.val[i[2]] - regs.val[i[3]]
      <3>1. i[2] \in Registro /\ i[3] \in Registro
          BY <1>4, <2>8
      <3>2. regs'.pc = regs.pc + 1 /\ regs'.val = [regs.val EXCEPT ![i[2]] = v % Palabra(i[2])]
          BY <1>6, <2>8, <3>1
      <3>3. v = Registros[p][i[2]] - Registros[p][i[3]]
          BY <2>1
      <3> HIDE DEF v
      <3>4. Pcs' = [Pcs EXCEPT ![p] = @ + 1] /\ Registros' = [Registros EXCEPT ![p][i[2]] = v % Maquinas!Palabra(i[2])]
          BY <2>2, <2>3, <3>1, <3>2
      <3> QED BY <1>13, <2>1, <2>5, <2>8, <3>1, <3>3, <3>4
             DEF Maquinas!Sub, Maquinas!SinMemoria, Maquinas!Queda, Maquinas!Avanza, Registros, Pcs, Memorias,
                 Esperandos, Vivos
    <2>9. CASE i[1] = "JNZ" /\ regs' = IF regs.val[i[2]] # 0 THEN [regs EXCEPT !.pc = i[3] - 1] ELSE Avanzado
      <3>1. regs'.val = regs.val /\ regs'.pc = IF regs.val[i[2]] # 0 THEN i[3] - 1 ELSE regs.pc + 1
          BY <1>5, <1>8, <2>9
      <3>2. Registros' = Registros /\ regs.val[i[2]] = Registros[p][i[2]]
          BY <2>1, <2>4, <3>1
      <3>3. IF Registros[p][i[2]] # 0 THEN Pcs' = [Pcs EXCEPT ![p] = i[3] - 1] ELSE Pcs' = [Pcs EXCEPT ![p] = @ + 1]
          BY <1>12, <2>3, <3>1, <3>2
      <3> QED BY <1>13, <2>1, <2>9, <3>2, <3>3
             DEF Maquinas!Jnz, Maquinas!SinMemoria, Maquinas!Avanza, Registros, Pcs, Memorias, Esperandos, Vivos
    <2> QED BY <2>6, <2>7, <2>8, <2>9 DEF EnRegistros
  <1>15. Visto
      BY <1>1, <1>2, <1>10, <1>14, MaquinaEjecuta DEF j
  <1>16. EnCurso'
      BY <1>2, SinCurso
  <1>17. Mostrando'
      BY <1>1, <1>2, <1>10, MostrandoDeCPU DEF RInv
  <1> QED BY <1>15, <1>16, <1>17 DEF SeVe

\* A request to read that has just been made.
LEMMA LecturaSeVe ==
  ASSUME NEW h \in Hilo, NEW p \in Pid, NEW df, NEW n \in Nat, NEW l \in Nat, pedido'[h] = Lectura(p, df, n),
         tablas'[p] = tablas[p], Logica(p, df) = l, l + n <= Len(tablas[p]) * TamPag
  PROVE  LeidoDe(pedido[h], l, n)'
  <1>1. pedido'[h].pid = p /\ pedido'[h].df = df /\ pedido'[h].size = n /\ pedido'[h].buffer = <<>>
      BY DEF Lectura
  <1>2. Logica(pedido[h].pid, pedido[h].df)' = l
      BY <1>1 DEF Logica
  <1>3. Len(pedido'[h].buffer) = 0 /\ DOMAIN pedido'[h].buffer = {} /\ 0 + n = n /\ l + 0 = l
      BY <1>1
  <1>4. Len(tablas'[pedido'[h].pid]) * TamPag = Len(tablas[p]) * TamPag
      BY <1>1
  <1> QED BY <1>1, <1>2, <1>3, <1>4 DEF LeidoDe

\* An instruction that has yet to have its effect.
LEMMA Empieza ==
  ASSUME RInv, IInv', curso.en \in {"fetch", "decode"}, regs' = Avanzado, Pospuesta',
         UNCHANGED a_kernel \/ a_kernel'[1] = regs.pid,
         UNCHANGED <<codigo, espacio, tablas, pcb, estado, bloqueados, mostrado>>,
         \A f \in Interfaz : pedido'[f] = pedido[f]
  PROVE  Visto /\ Mostrando' /\ regs'.pid = regs.pid /\ regs'.val = regs.val /\ Actual' = Instruccion
  <1> DEFINE p == regs.pid
  <1>1. /\ IInv /\ Tipos /\ curso # Libre /\ ~Pospuesta /\ a_kernel = <<>> /\ p \in Pid /\ regs.pc \in Nat
        /\ estado[p] = "RUNNING"
      BY EnFetch DEF RInv
  <1>2. regs'.pid = p /\ regs'.pc = regs.pc + 1 /\ regs'.val = regs.val
      BY <1>1, RegsEs
  <1>3. curso' # Libre /\ curso.en # "escribir" /\ curso'.en # "escribir"
      BY DEF Pospuesta, Libre
  <1>4. /\ \A q \in Pid \ {p} : Igual(q)
        /\ Registros[p] = regs.val /\ Registros' = [Registros EXCEPT ![p] = regs'.val]
        /\ Pcs[p] = regs.pc - (IF Pospuesta THEN 1 ELSE 0)
        /\ Pcs' = [Pcs EXCEPT ![p] = regs'.pc - (IF Pospuesta' THEN 1 ELSE 0)]
        /\ Esperandos' = Esperandos /\ Vivos' = Vivos /\ Memorias' = Memorias
      BY <1>1, <1>2, <1>3, EnCPUSeVe
  <1>5. (regs.pc + 1) - 1 = regs.pc /\ regs.pc - 0 = regs.pc
      BY <1>1
  <1> HIDE DEF p
  <1>6. Pcs' = [Pcs EXCEPT ![p] = Pcs[p]] /\ Registros' = [Registros EXCEPT ![p] = Registros[p]]
    <2>1. Pcs[p] = regs.pc - 0 /\ Pcs' = [Pcs EXCEPT ![p] = (regs.pc + 1) - 1]
        BY <1>1, <1>2, <1>4
    <2>2. Pcs' = [Pcs EXCEPT ![p] = Pcs[p]]
        BY <1>5, <2>1
    <2> QED BY <1>2, <1>4, <2>2
  <1>7. Visto
      BY <1>1, <1>4, <1>6, SinCambio
  <1>8. Mostrando'
      BY <1>1, <1>4, Hilos, MostrandoDeCPU DEF RInv
  <1>9. Actual' = Instruccion
      BY <1>2 DEF Actual, Instruccion, p
  <1> QED BY <1>2, <1>7, <1>8, <1>9 DEF p

LEMMA MovInSeVe ==
  ASSUME RInv, IInv', curso.en = "fetch", NEW i \in Linea, i = Instruccion, HayInstruccion,
         Consultados(i) \subseteq Registro, MovInDeTabla(i)
  PROVE  SeVe
  <1> DEFINE p == regs.pid
             l == regs.val[i[3]]
             n == TamReg[i[2]]
             df == DireccionDe(p, l)
  <1>1. /\ IInv /\ Tipos /\ curso # Libre /\ p \in Pid /\ regs.pc \in Nat /\ tablas \in [Pid -> Seq(Marco)]
        /\ MarcosUnicos /\ pedido \in [Hilo -> PedidoType] /\ "CPU" \in Hilo
      BY EnFetch, Hilos DEF RInv, IInv, Tipos
  <1>2. i[2] \in Registro /\ i[3] \in Registro /\ i[1] = "MOV_IN"
      BY ConsultadosEs DEF MovInDeTabla
  <1>3. l \in Nat /\ n \in Nat
      BY <1>1, <1>2, RegsEs, PalabraNat
  <1>4. Logica(p, df) = l /\ l + n <= Len(tablas[p]) * TamPag
      BY <1>1, <1>3, DentroEs DEF MovInDeTabla
  <1>5. /\ pedido' = [pedido EXCEPT !["CPU"] = Lectura(p, df, n)] /\ regs' = Avanzado
        /\ curso' = [en |-> "mov_in", reg |-> i[2]]
        /\ UNCHANGED <<codigo, espacio, tablas, pcb, estado, bloqueados, a_kernel, mostrado>>
      BY DEF MovInDeTabla, Pedir, Seguir, delKernel, delaMemoria
  <1>6. pedido'["CPU"] = Lectura(p, df, n) /\ \A f \in Interfaz : pedido'[f] = pedido[f]
      BY <1>1, <1>5 DEF Interfaz
  <1>7. Visto /\ Mostrando' /\ regs'.pid = p /\ regs'.val = regs.val /\ Actual' = i
      BY <1>5, <1>6, Empieza DEF Pospuesta
  <1>8. regs'.pc \in DOMAIN codigo'[regs'.pid]
      BY <1>1, <1>5, <1>7, RegsEs DEF HayInstruccion
  <1>9. PICK ll, nn : ll = l /\ nn = n
      OBVIOUS
  <1>10. LeidoDe(pedido["CPU"], ll, nn)'
      BY <1>1, <1>3, <1>4, <1>5, <1>6, <1>9, LecturaSeVe
  <1>11. regs.val[Actual[3]]' = ll /\ TamReg[curso.reg]' = nn
      BY <1>5, <1>7, <1>9
  <1>12. EnCurso'
    <2>1. LeidoDe(pedido["CPU"], regs.val[Actual[3]], TamReg[curso.reg])'
        BY <1>10, <1>11
    <2> QED BY <1>2, <1>5, <1>7, <1>8, <2>1 DEF EnCurso
  <1> QED BY <1>7, <1>12 DEF SeVe

LEMMA CopyStringSeVe ==
  ASSUME RInv, IInv', curso.en = "decode", NEW i \in Linea, i = Instruccion, HayInstruccion, CopyStringDeTabla(i)
  PROVE  SeVe
  <1> DEFINE p == regs.pid
             l == regs.val["SI"]
             d == regs.val["DI"]
             n == i[2]
             df == DireccionDe(p, l)
  <1>1. /\ IInv /\ Tipos /\ curso # Libre /\ p \in Pid /\ regs.pc \in Nat /\ tablas \in [Pid -> Seq(Marco)]
        /\ MarcosUnicos /\ pedido \in [Hilo -> PedidoType] /\ "CPU" \in Hilo
      BY EnFetch, Hilos DEF RInv, IInv, Tipos
  <1>2. i[1] = "COPY_STRING" /\ n \in Nat
      BY LineaEs DEF CopyStringDeTabla
  <1>3. l \in Nat /\ d \in Nat
      BY <1>1, RegsEs, ProgramasOK
  <1>4. Logica(p, df) = l /\ l + n <= Len(tablas[p]) * TamPag /\ Logica(p, DireccionDe(p, d)) = d
    <2>1. Dentro(p, l, n) /\ Dentro(p, d, n)
        BY DEF CopyStringDeTabla
    <2> HIDE DEF l, d, n, p
    <2> QED BY <1>1, <1>2, <1>3, <2>1, DentroEs
  <1>5. /\ pedido' = [pedido EXCEPT !["CPU"] = Lectura(p, df, n)] /\ regs' = Avanzado
        /\ curso' = [en |-> "copiar", df |-> DireccionDe(p, d), size |-> n]
        /\ UNCHANGED <<codigo, espacio, tablas, pcb, estado, bloqueados, a_kernel, mostrado>>
      BY DEF CopyStringDeTabla, Pedir, Seguir, delKernel, delaMemoria
  <1>6. pedido'["CPU"] = Lectura(p, df, n) /\ \A f \in Interfaz : pedido'[f] = pedido[f]
      BY <1>1, <1>5 DEF Interfaz
  <1>7. Visto /\ Mostrando' /\ regs'.pid = p /\ regs'.val = regs.val /\ Actual' = i
      BY <1>5, <1>6, Empieza DEF Pospuesta
  <1>8. regs'.pc \in DOMAIN codigo'[regs'.pid]
      BY <1>1, <1>5, <1>7, RegsEs DEF HayInstruccion
  <1>9. PICK ll, nn : ll = l /\ nn = n
      OBVIOUS
  <1>10. LeidoDe(pedido["CPU"], ll, nn)'
      BY <1>1, <1>2, <1>3, <1>4, <1>5, <1>6, <1>9, LecturaSeVe
  <1>11. regs.val["SI"]' = ll /\ curso.size' = nn /\ regs.val["DI"]' = d
      BY <1>5, <1>7, <1>9
  <1>12. Logica(regs.pid, curso.df)' = d
    <2>1. Logica(regs.pid, curso.df)' = Logica(p, DireccionDe(p, d))
      <3>1. regs'.pid = p /\ curso'.df = DireccionDe(p, d) /\ UNCHANGED tablas
          BY <1>5, <1>7
      <3> HIDE DEF p, d
      <3> QED BY <3>1 DEF Logica
    <2> QED BY <1>4, <2>1
  <1>13. EnCurso'
    <2>1. LeidoDe(pedido["CPU"], regs.val["SI"], curso.size)'
        BY <1>10, <1>11
    <2>2. Actual[2]' = curso.size' /\ Actual[1]' = "COPY_STRING"
        BY <1>2, <1>5, <1>7
    <2> QED BY <1>5, <1>8, <1>11, <1>12, <2>1, <2>2 DEF EnCurso
  <1> QED BY <1>7, <1>13 DEF SeVe

LEMMA ResizeSeVe ==
  ASSUME RInv, IInv', curso.en = "fetch", NEW i \in Linea, i = Instruccion, HayInstruccion, instruccion_resize(i)
  PROVE  SeVe
  <1>1. Tipos /\ curso # Libre
      BY EnFetch DEF RInv
  <1>2. /\ UNCHANGED pedido /\ regs' = Avanzado /\ i[1] = "RESIZE"
        /\ curso' = [en |-> "resize", paginas |-> Techo(i[2])]
        /\ UNCHANGED <<codigo, espacio, tablas, pcb, estado, bloqueados, a_kernel, mostrado>>
      BY DEF instruccion_resize, Seguir, delKernel, delaMemoria
  <1>3. Visto /\ Mostrando' /\ regs'.pid = regs.pid /\ Actual' = i
      BY <1>2, Empieza DEF Pospuesta
  <1>4. regs'.pc \in DOMAIN codigo'[regs'.pid]
      BY <1>1, <1>2, <1>3, RegsEs DEF HayInstruccion
  <1>5. EnCurso'
      BY <1>2, <1>3, <1>4 DEF EnCurso, Techo
  <1> QED BY <1>3, <1>5 DEF SeVe

\* A request to write is written for the process when it is made.
LEMMA EscritoEs ==
  ASSUME IInv, IInv', NEW p \in Pid, NEW h \in Hilo, \A g \in Hilo : ~Escribe(g, p), UNCHANGED <<espacio, tablas>>,
         NEW df, NEW s \in Seq(Byte), pedido'[h] = Escritura(p, df, s), Len(s) > 0
  PROVE  /\ MemoriaDe(p)' = [i \in Extension(p) |->
              IF i - Logica(p, df) \in 1 .. Len(s) THEN s[i - Logica(p, df)] ELSE MemoriaDe(p)[i]]
         /\ Len(MemoriaDe(p)) = Len(tablas[p]) * TamPag /\ DOMAIN MemoriaDe(p) = Extension(p)
         /\ Len(MemoriaDe(p)') = Len(tablas[p]) * TamPag
  <1>1. /\ pedido'[h].op = "escribir" /\ pedido'[h].pid = p /\ pedido'[h].df = df
        /\ pedido'[h].size = Len(s) /\ pedido'[h].buffer = s
      BY DEF Escritura
  <1>2. Escribe(h, p)'
      BY <1>1 DEF Escribe
  <1>3. MemoriaDe(p)' = Escrita(h, p)'
      BY <1>2, MemoriaConPrima
  <1>4. MemoriaDe(p) = [i \in Extension(p) |-> espacio[Fisica(p, i)]]
      BY MemoriaSin
  <1>5. Logica(p, pedido[h].df)' = Logica(p, df)
      BY <1>1 DEF Logica
  <1>6. Extension(p)' = Extension(p) /\ \A i : Fisica(p, i)' = Fisica(p, i)
      BY DEF Extension, Fisica, DireccionDe
  <1>7. Escrita(h, p)' = [i \in Extension(p) |->
          IF i - Logica(p, df) \in 1 .. Len(s) THEN s[i - Logica(p, df)] ELSE espacio[Fisica(p, i)]]
      BY <1>1, <1>5, <1>6 DEF Escrita
  <1>8. MemoriaDe(p)' = [i \in Extension(p) |->
          IF i - Logica(p, df) \in 1 .. Len(s) THEN s[i - Logica(p, df)] ELSE MemoriaDe(p)[i]]
      BY <1>3, <1>4, <1>7
  <1>9. Len(tablas[p]) * TamPag \in Nat
      BY EspacioOK, TablaSeq DEF IInv, Tipos
  <1>10. Len(MemoriaDe(p)) = Len(tablas[p]) * TamPag /\ DOMAIN MemoriaDe(p) = Extension(p)
      BY <1>4, <1>9 DEF Extension
  <1>11. Len(MemoriaDe(p)') = Len(tablas[p]) * TamPag
      BY <1>8, <1>9 DEF Extension
  <1> QED BY <1>8, <1>10, <1>11

LEMMA EscritoDesdeEs ==
  ASSUME IInv, IInv', NEW p \in Pid, NEW h \in Hilo, \A g \in Hilo : ~Escribe(g, p), UNCHANGED <<espacio, tablas>>,
         NEW df, NEW s \in Seq(Byte), pedido'[h] = Escritura(p, df, s), Len(s) > 0,
         NEW l, l = Logica(p, df), l + Len(s) <= Len(tablas[p]) * TamPag,
         \A q \in Pid \ {p} : MemoriaDe(q)' = MemoriaDe(q),
         NEW t, \A j \in DOMAIN t : j \in 1 .. Len(s) => s[j] = t[j],
         NEW n, n = Len(s)
  PROVE  Maquinas!EscritoDesde(p, l, t, n)
  <1>1. /\ MemoriaDe(p)' = [i \in Extension(p) |->
             IF i - l \in 1 .. n THEN s[i - l] ELSE MemoriaDe(p)[i]]
        /\ Len(MemoriaDe(p)) = Len(tablas[p]) * TamPag /\ DOMAIN MemoriaDe(p) = Extension(p)
        /\ Len(MemoriaDe(p)') = Len(tablas[p]) * TamPag
      BY EscritoEs
  <1>2. \A k \in 1 .. n : s[k] \in Byte
      BY ElementOfSeq
  <1>3. Memorias[p] = MemoriaDe(p) /\ Memorias'[p] = MemoriaDe(p)'
      BY DEF Memorias
  <1>4. \A q \in Pid \ {p} : Memorias'[q] = Memorias[q]
      BY DEF Memorias
  <1>5. l + n <= Len(Memorias[p]) /\ Len(Memorias'[p]) = Len(Memorias[p])
      BY <1>1, <1>3
  <1>6. ASSUME NEW i \in DOMAIN Memorias[p]
        PROVE  IF i - l \in 1 .. n
               THEN Memorias'[p][i] \in Byte /\ (i - l \in DOMAIN t => Memorias'[p][i] = t[i - l])
               ELSE Memorias'[p][i] = Memorias[p][i]
      BY <1>1, <1>2, <1>3
  <1> QED BY <1>4, <1>5, <1>6, Iguales DEF Maquinas!EscritoDesde, Maquinas!EnRango, Memorias

LEMMA MovOutSeVe ==
  ASSUME RInv, IInv', curso.en = "fetch", NEW i \in Linea, i = Instruccion, Consultados(i) \subseteq Registro,
         MovOutDeTabla(i)
  PROVE  SeVe
  <1>20. PICK p, l, n, s, df :
           /\ p = regs.pid /\ l = regs.val[i[2]] /\ n = TamReg[i[3]] /\ s = Bytes(regs.val[i[3]], n)
           /\ df = DireccionDe(p, l)
      OBVIOUS
  <1> DEFINE j == Proxima(p)
  <1>1. /\ IInv /\ Tipos /\ curso # Libre /\ ~Pospuesta /\ a_kernel = <<>> /\ p \in Pid /\ regs.pc \in Nat
        /\ tablas \in [Pid -> Seq(Marco)] /\ estado[p] = "RUNNING"
        /\ MarcosUnicos /\ pedido \in [Hilo -> PedidoType] /\ "CPU" \in Hilo
      BY <1>20, EnFetch, Hilos DEF RInv, IInv, Tipos
  <1>2. i[2] \in Registro /\ i[3] \in Registro /\ i[1] = "MOV_OUT"
      BY ConsultadosEs DEF MovOutDeTabla
  <1>3. l \in Nat /\ n \in {1, TamInt} /\ n \in Nat \ {0} /\ regs.val[i[3]] \in Nat
    <2>1. \A x \in {1, TamInt} : x \in Nat \ {0}
        BY ProgramasOK
    <2> QED BY <1>1, <1>2, <1>20, <2>1, RegsEs, PalabraNat
  <1>4. Logica(p, df) = l /\ l + n <= Len(tablas[p]) * TamPag
      BY <1>1, <1>3, <1>20, DentroEs DEF MovOutDeTabla
  <1>5. s \in Seq(Byte) /\ Len(s) = n
      BY <1>3, <1>20, BytesEs
  <1>6. /\ pedido' = [pedido EXCEPT !["CPU"] = Escritura(p, df, s)] /\ regs' = Avanzado
        /\ curso' = [en |-> "escribir"]
        /\ UNCHANGED <<codigo, espacio, tablas, pcb, estado, bloqueados, a_kernel, mostrado>>
      BY <1>20 DEF MovOutDeTabla, Pedir, Seguir, delKernel, delaMemoria
  <1>7. pedido'["CPU"] = Escritura(p, df, s) /\ \A f \in Interfaz : pedido'[f] = pedido[f]
      BY <1>1, <1>6 DEF Interfaz
  <1>8. regs'.pid = p /\ regs'.pc = regs.pc + 1 /\ regs'.val = regs.val
      BY <1>1, <1>6, <1>20, RegsEs
  <1>9. curso' # Libre /\ ~Pospuesta' /\ curso.en # "escribir"
      BY <1>6 DEF Libre, Pospuesta
  <1>10. /\ \A q \in Pid \ {p} : Igual(q)
         /\ Registros[p] = regs.val /\ Registros' = [Registros EXCEPT ![p] = regs'.val]
         /\ Pcs[p] = regs.pc - (IF Pospuesta THEN 1 ELSE 0)
         /\ Pcs' = [Pcs EXCEPT ![p] = regs'.pc - (IF Pospuesta' THEN 1 ELSE 0)]
         /\ Esperandos' = Esperandos /\ Vivos' = Vivos /\ Esperandos[p] = <<>> /\ Vivos[p]
      BY <1>1, <1>6, <1>7, <1>8, <1>9, <1>20, EnCPUSeVe
  <1> HIDE DEF j
  <1>11. Pcs[p] = regs.pc /\ Pcs' = [Pcs EXCEPT ![p] = @ + 1]
    <2>1. regs.pc - 0 = regs.pc /\ (regs.pc + 1) - 0 = regs.pc + 1
        BY <1>1
    <2> QED BY <1>1, <1>8, <1>9, <1>10, <2>1
  <1>12. Registros' = Registros
    <2>1. [Registros EXCEPT ![p] = Registros[p]] = Registros
        BY DEF Registros
    <2> QED BY <1>8, <1>10, <2>1
  <1>13. j = i
      BY <1>11, <1>20 DEF Proxima, Instruccion, j
  <1>14. Maquinas!EscritoDesde(p, l, s, n)
    <2>1. \A g \in Hilo : ~Escribe(g, p)
        BY <1>1, <1>9, <1>20, EnLaCPU
    <2>2. \A q \in Pid \ {p} : MemoriaDe(q)' = MemoriaDe(q)
        BY <1>10 DEF Igual
    <2>3. Len(s) > 0
        BY <1>3, <1>5
    <2> QED BY <1>1, <1>3, <1>4, <1>5, <1>6, <1>7, <2>1, <2>2, <2>3, EscritoDesdeEs DEF RInv
  <1>15. l = Registros[p][i[2]] /\ s = Maquinas!Bytes(Registros[p][i[3]], TamReg[i[3]]) /\ n = TamReg[i[3]]
      BY <1>10, <1>20, Iguales
  <1>16. Maquinas!MovOut(p, j)
    <2>1. Maquinas!EscritoDesde(p, Registros[p][i[2]], Maquinas!Bytes(Registros[p][i[3]], TamReg[i[3]]), TamReg[i[3]])
        BY <1>14, <1>15
    <2> QED BY <1>2, <1>6, <1>10, <1>11, <1>12, <1>13, <2>1
           DEF Maquinas!MovOut, Maquinas!Avanza, Registros, Pcs, Memorias, Esperandos, Vivos
  <1>17. Visto
      BY <1>1, <1>6, <1>10, <1>16, MaquinaEjecuta DEF j
  <1>18. EnCurso'
      BY <1>6, SinCurso
  <1>19. Mostrando'
      BY <1>1, <1>6, <1>7, <1>10, Hilos, MostrandoDeCPU DEF RInv
  <1> QED BY <1>17, <1>18, <1>19 DEF SeVe

\* The effect of WAIT and SIGNAL is the answer of the kernel.
LEMMA WaitSeVe ==
  ASSUME RInv, IInv', curso.en = "fetch", NEW i \in Linea, i = Instruccion, HayInstruccion, instruccion_wait(i)
  PROVE  SeVe
  <1>20. PICK rs : rs = Avanzado
      OBVIOUS
  <1>1. Tipos /\ curso # Libre /\ regs.pid \in Pid /\ regs.pc \in Nat
      BY EnFetch DEF RInv
  <1>2. /\ i[1] \in {"WAIT", "SIGNAL"} /\ enviar_pcb(rs, i[1], <<i[2]>>) /\ regs' = Avanzado
        /\ curso' = [en |-> "wait"]
        /\ UNCHANGED <<codigo, espacio, tablas, pedido, pcb, estado, bloqueados, mostrado>>
      BY <1>20 DEF instruccion_wait, Seguir, delKernel, delaMemoria
  <1>3. a_kernel'[1] = regs.pid /\ Motivo(a_kernel') = i[1]
    <2>1. rs.pid = regs.pid /\ rs.val \in Banco /\ rs.pc \in Nat /\ <<i[2]>> \in Seq({i[2]})
        BY <1>1, <1>20, RegsEs
    <2> QED BY <1>2, <2>1, EnviarPcb
  <1>4. Visto /\ Mostrando' /\ regs'.pid = regs.pid /\ Actual' = i
      BY <1>2, <1>3, Empieza DEF Pospuesta
  <1>5. regs'.pc \in DOMAIN codigo'[regs'.pid]
      BY <1>1, <1>2, <1>4, RegsEs DEF HayInstruccion
  <1>6. EnCurso'
      BY <1>2, <1>3, <1>4, <1>5 DEF EnCurso
  <1> QED BY <1>4, <1>6 DEF SeVe

\* The instruction ends with the context on its way.
LEMMA Sale ==
  ASSUME RInv, IInv', curso.en = "fetch", NEW p, p = regs.pid,
         NEW m, NEW S, NEW d \in Seq(S), EsIO(m) => Len(d) >= 3,
         enviar_pcb(Avanzado, m, d), curso' = Libre,
         UNCHANGED <<codigo, espacio, tablas, pedido, pcb, estado, bloqueados, mostrado>>
  PROVE  /\ p \in Pid /\ Vivos[p] /\ Esperandos[p] = <<>> /\ Proxima(p) = Instruccion /\ Registros[p] = regs.val
         /\ Registros' = Registros /\ Memorias' = Memorias /\ Pcs' = [Pcs EXCEPT ![p] = @ + 1]
         /\ EsIO(m) => Esperandos' = [Esperandos EXCEPT ![p] = <<m, Logica(p, d[2])', d[3]>>]
         /\ ~EsIO(m) => Esperandos' = Esperandos
         /\ m \in {"EXIT", "OUT_OF_MEMORY"} => Vivos' = [Vivos EXCEPT ![p] = FALSE]
         /\ m \notin {"EXIT", "OUT_OF_MEMORY"} => Vivos' = Vivos
         /\ EnCurso' /\ Mostrando'
  <1>20. PICK rs : rs = Avanzado
      OBVIOUS
  <1>1. /\ IInv /\ Tipos /\ curso # Libre /\ ~Pospuesta /\ a_kernel = <<>> /\ p \in Pid /\ regs.pc \in Nat
        /\ estado[p] = "RUNNING"
      BY EnFetch DEF RInv
  <1>2. rs.pid = p /\ rs.val = regs.val /\ rs.pc = regs.pc + 1 /\ rs.val \in Banco /\ rs.pc \in Nat
      BY <1>1, <1>20, RegsEs
  <1>3. /\ a_kernel' # <<>> /\ a_kernel'[1] = p
        /\ actualizar_pcb(a_kernel') = [pc |-> rs.pc, val |-> rs.val]
        /\ Motivo(a_kernel') = m
        /\ \A n \in 1 .. Len(d) : Dato(a_kernel', n) = d[n]
      BY <1>2, <1>20, EnviarPcb
  <1>4. /\ \A q \in Pid \ {p} : Igual(q)
        /\ Registros[p] = regs.val /\ Registros' = [Registros EXCEPT ![p] = rs.val]
        /\ Pcs[p] = regs.pc - (IF Pospuesta THEN 1 ELSE 0) /\ Pcs' = [Pcs EXCEPT ![p] = rs.pc]
        /\ Esperandos[p] = <<>> /\ Vivos[p] /\ Memorias' = Memorias
        /\ Esperandos' = [Esperandos EXCEPT ![p] =
              IF EsIO(m) THEN <<m, Logica(p, Dato(a_kernel', 2)), Dato(a_kernel', 3)>> ELSE <<>>]
        /\ ~EsIO(m) => Esperandos' = Esperandos
        /\ m \in {"EXIT", "OUT_OF_MEMORY"} => Vivos' = [Vivos EXCEPT ![p] = FALSE]
        /\ m \notin {"EXIT", "OUT_OF_MEMORY"} => Vivos' = Vivos
      BY <1>1, <1>3, AlSalirSeVe
  <1>5. Pcs[p] = regs.pc
    <2>1. regs.pc - 0 = regs.pc
        BY <1>1
    <2> QED BY <1>1, <1>4, <2>1
  <1>6. Proxima(p) = Instruccion /\ Pcs' = [Pcs EXCEPT ![p] = @ + 1]
      BY <1>2, <1>4, <1>5 DEF Proxima, Instruccion
  <1>7. Registros' = Registros
    <2>1. [Registros EXCEPT ![p] = Registros[p]] = Registros
        BY DEF Registros
    <2> QED BY <1>2, <1>4, <2>1
  <1>8. EsIO(m) => Dato(a_kernel', 2) = d[2] /\ Dato(a_kernel', 3) = d[3]
      BY <1>3, LenProperties
  <1>9. EnCurso'
      BY SinCurso DEF Libre
  <1>10. Mostrando'
      BY <1>1, <1>4, MostrandoDeCPU DEF RInv
  <1>12. Logica(p, d[2])' = Logica(p, d[2])
      BY DEF Logica
  <1> QED BY <1>1, <1>4, <1>6, <1>7, <1>8, <1>9, <1>10, <1>12

LEMMA ExitSeVe ==
  ASSUME RInv, IInv', curso.en = "fetch", NEW i \in Linea, i = Instruccion, instruccion_exit(i)
  PROVE  SeVe
  <1>20. PICK p : p = regs.pid
      OBVIOUS
  <1> DEFINE j == Proxima(p)
  <1>1. /\ i[1] = "EXIT" /\ enviar_pcb(Avanzado, "EXIT", <<>>) /\ curso' = Libre
        /\ UNCHANGED <<codigo, espacio, tablas, pedido, pcb, estado, bloqueados, mostrado>>
      BY DEF instruccion_exit, Seguir, delKernel, delaMemoria
  <1>2. <<>> \in Seq({}) /\ ~EsIO("EXIT")
      BY DEF EsIO
  <1>3. /\ p \in Pid /\ Vivos[p] /\ Esperandos[p] = <<>> /\ j = i
        /\ Registros' = Registros /\ Memorias' = Memorias /\ Pcs' = [Pcs EXCEPT ![p] = @ + 1]
        /\ Esperandos' = Esperandos /\ Vivos' = [Vivos EXCEPT ![p] = FALSE]
        /\ EnCurso' /\ Mostrando'
      BY <1>1, <1>2, <1>20, Sale
  <1> HIDE DEF j
  <1>4. Maquinas!Exit(p, j)
      BY <1>1, <1>3 DEF Maquinas!Exit, Maquinas!Avanza, Registros, Pcs, Memorias, Esperandos, Vivos
  <1>5. Visto
      BY <1>1, <1>3, <1>4, MaquinaEjecuta DEF j
  <1> QED BY <1>3, <1>5 DEF SeVe

LEMMA IOSeVe ==
  ASSUME RInv, IInv', curso.en = "fetch", NEW i \in Linea, i = Instruccion, Consultados(i) \subseteq Registro,
         IODeTabla(i)
  PROVE  SeVe
  <1>20. PICK p, l, n, df, d : /\ p = regs.pid /\ l = regs.val[i[3]] /\ n = regs.val[i[4]]
                               /\ df = DireccionDe(p, l) /\ d = <<i[2], df, n>>
      OBVIOUS
  <1> DEFINE j == Proxima(p)
  <1>1. /\ EsIO(i[1]) /\ Dentro(p, l, n) /\ enviar_pcb(Avanzado, i[1], d) /\ curso' = Libre
        /\ UNCHANGED <<codigo, espacio, tablas, pedido, pcb, estado, bloqueados, mostrado>>
      BY <1>20 DEF IODeTabla, Seguir, delKernel, delaMemoria, EsIO
  <1>2. d \in Seq({i[2], df, n}) /\ Len(d) = 3 /\ d[2] = df /\ d[3] = n
      BY <1>20
  <1>3. /\ p \in Pid /\ Vivos[p] /\ Esperandos[p] = <<>> /\ j = i /\ Registros[p] = regs.val
        /\ Registros' = Registros /\ Memorias' = Memorias /\ Pcs' = [Pcs EXCEPT ![p] = @ + 1]
        /\ Esperandos' = [Esperandos EXCEPT ![p] = <<i[1], Logica(p, df)', n>>] /\ Vivos' = Vivos
        /\ EnCurso' /\ Mostrando'
    <2>1. /\ p \in Pid /\ Vivos[p] /\ Esperandos[p] = <<>> /\ j = i /\ Registros[p] = regs.val
          /\ Registros' = Registros /\ Memorias' = Memorias /\ Pcs' = [Pcs EXCEPT ![p] = @ + 1]
          /\ Esperandos' = [Esperandos EXCEPT ![p] = <<i[1], Logica(p, d[2])', d[3]>>]
          /\ i[1] \notin {"EXIT", "OUT_OF_MEMORY"} => Vivos' = Vivos
          /\ EnCurso' /\ Mostrando'
      <3>1. PICK m, S : m = i[1] /\ S = {i[2], df, n} /\ d \in Seq(S) /\ Len(d) >= 3
          BY <1>2
      <3>2. p = regs.pid
          BY <1>20
      <3> QED BY <1>1, <3>1, <3>2, Sale
    <2>2. i[1] \notin {"EXIT", "OUT_OF_MEMORY"} /\ Logica(p, d[2])' = Logica(p, df)'
        BY <1>1, <1>2 DEF EsIO, Logica
    <2> QED BY <1>2, <2>1, <2>2
  <1> HIDE DEF j
  <1>4. Logica(p, df)' = l
    <2>1. tablas \in [Pid -> Seq(Marco)] /\ MarcosUnicos /\ Tipos /\ curso # Libre
        BY EnFetch DEF RInv, IInv, Tipos
    <2>2. i[3] \in Registro /\ i[4] \in Registro
        BY <1>1, ConsultadosEs
    <2>3. l \in Nat /\ n \in Nat
        BY <1>20, <2>1, <2>2, RegsEs
    <2>4. Logica(p, df) = l
        BY <1>1, <1>3, <1>20, <2>1, <2>3, DentroEs
    <2> QED BY <1>1, <2>4 DEF Logica
  <1>5. Esperandos' = [Esperandos EXCEPT ![p] = <<i[1], Registros[p][i[3]], Registros[p][i[4]]>>]
      BY <1>3, <1>4, <1>20
  <1>6. Maquinas!Pedir(p, j)
      BY <1>1, <1>3, <1>5 DEF Maquinas!Pedir, Maquinas!Avanza, Registros, Pcs, Memorias, Esperandos, Vivos, EsIO
  <1>7. Visto
      BY <1>1, <1>3, <1>6, MaquinaEjecuta DEF j
  <1> QED BY <1>3, <1>7 DEF SeVe

\* Only that a module has fallen.
LEMMA QuietoSeVe ==
  ASSUME RInv, IInv',
         UNCHANGED <<codigo, espacio, tablas, pedido, regs, curso, pcb, estado, bloqueados, a_kernel, mostrado>>
  PROVE  SeVe
  <1>1. ASSUME NEW p \in Pid PROVE Igual(p)
    <2>1. Contexto(p)' = Contexto(p) /\ (Vive(p)' <=> Vive(p))
        BY DEF Contexto, EnCpu, Vive, EnCamino
    <2>2. EsperandoDe(p)' = EsperandoDe(p)
        BY EsperandoIgual DEF EnCamino
    <2>3. MemoriaDe(p)' = MemoriaDe(p)
        BY MemoriaIgual DEF RInv, Escribe
    <2> QED BY <2>1, <2>2, <2>3 DEF Igual
  <1>2. Visto
      BY <1>1, SinVerse
  <1>3. EnCurso'
      BY <1>1, EnCursoSigue DEF RInv, IInv, Tipos, Igual
  <1>4. Mostrando'
    <2> SUFFICES ASSUME pedido["STDOUT"] # Nada PROVE Mostrando'
        BY DEF Mostrando
    <2>1. PICK q \in Pid : q = bloqueados["STDOUT"][1].pid
        BY Hilos, CabezaEs DEF RInv, IInv, Pedidos
    <2> QED BY <1>1, <2>1, MostrandoSigue DEF RInv, Igual
  <1> QED BY <1>2, <1>3, <1>4 DEF SeVe

\* The CPU goes on with nothing that the process sees.
LEMMA SigueEnCPU ==
  ASSUME RInv, IInv', curso # Libre, a_kernel = <<>>, curso'.en \in {"fetch", "check", "decode"}, UNCHANGED regs, ~Pospuesta,
         UNCHANGED <<codigo, espacio, tablas, pcb, estado, bloqueados, a_kernel, mostrado>>,
         \A f \in Interfaz : pedido'[f] = pedido[f], MemoriaDe(regs.pid)' = MemoriaDe(regs.pid)
  PROVE  SeVe
  <1>20. PICK p : p = regs.pid
      OBVIOUS
  <1>1. IInv /\ p \in Pid /\ estado[p] = "RUNNING"
      BY <1>20, EnLaCPU DEF RInv
  <1>2. curso' # Libre /\ ~Pospuesta' /\ regs'.pid = p /\ regs'.val = regs.val /\ regs'.pc = regs.pc
      BY <1>20 DEF Libre, Pospuesta
  <1>3. /\ \A q \in Pid \ {p} : Igual(q)
        /\ Registros[p] = regs.val /\ Registros' = [Registros EXCEPT ![p] = regs'.val]
        /\ Pcs[p] = regs.pc - (IF Pospuesta THEN 1 ELSE 0)
        /\ Pcs' = [Pcs EXCEPT ![p] = regs'.pc - (IF Pospuesta' THEN 1 ELSE 0)]
        /\ Esperandos' = Esperandos /\ Vivos' = Vivos
        /\ Memorias[p] = MemoriaDe(p) /\ Memorias' = [Memorias EXCEPT ![p] = MemoriaDe(p)']
      BY <1>1, <1>2, <1>20, EnCPUSeVe
  <1>4. MemoriaDe(p)' = MemoriaDe(p)
    <2>1. MemoriaDe(p)' = MemoriaDe(regs.pid)'
        BY <1>20
    <2> QED BY <1>20, <2>1
  <1>5. Memorias' = Memorias
    <2>1. [Memorias EXCEPT ![p] = Memorias[p]] = Memorias
        BY DEF Memorias
    <2> QED BY <1>3, <1>4, <2>1
  <1>6. Visto
      BY <1>1, <1>2, <1>3, <1>5, SinCambio
  <1>7. EnCurso'
      BY SinCurso
  <1>8. Mostrando'
      BY <1>1, <1>3, Hilos, MostrandoDeCPU DEF RInv
  <1> QED BY <1>6, <1>7, <1>8 DEF SeVe

\* decode translates SI.
LEMMA DecodeSeVe ==
  ASSUME RInv, IInv', curso.en = "fetch", NEW i, decode_copy_string(i)
  PROVE  SeVe
  <1>1. /\ IInv /\ curso # Libre /\ ~Pospuesta /\ a_kernel = <<>> /\ regs.pid \in Pid
        /\ \A h \in Hilo : ~Escribe(h, regs.pid)
      BY EnFetch, EnLaCPU DEF RInv
  <1>2. /\ curso'.en = "decode" /\ UNCHANGED regs
        /\ UNCHANGED <<codigo, espacio, tablas, pcb, estado, bloqueados, pedido, a_kernel, mostrado>>
      BY DEF decode_copy_string, Seguir, delKernel, delaMemoria
  <1>3. PICK p \in Pid : p = regs.pid
      BY <1>1
  <1>4. MemoriaDe(p)' = MemoriaDe(p)
      BY <1>1, <1>2, <1>3, MemoriaIgual DEF Escribe
  <1>5. MemoriaDe(regs.pid)' = MemoriaDe(p)' /\ MemoriaDe(regs.pid) = MemoriaDe(p)
      BY <1>2, <1>3
  <1> QED BY <1>1, <1>2, <1>4, <1>5, SigueEnCPU

LEMMA InstruccionCopyStringSeVe == ASSUME RInv, IInv', instruccion_copy_string PROVE SeVe
  <1>1. /\ curso.en = "decode" /\ Instruccion \in Linea /\ HayInstruccion /\ CopyStringDeTabla(Instruccion)
      BY CopyStringMira, DecodeDe DEF RInv
  <1>2. UNCHANGED mostrado
      BY DEF instruccion_copy_string, Seguir
  <1> QED BY <1>1, <1>2, CopyStringSeVe

LEMMA EjecutarSeVe == ASSUME RInv, IInv', Ejecutar PROVE SeVe
  <1>1. curso.en = "fetch"
      BY DEF Ejecutar
  <1>2. CASE HayInstruccion /\ Consultados(Instruccion) \subseteq Registro
    <2>1. PICK i : i = Instruccion
        OBVIOUS
    <2>2. i \in Linea
      <3>1. regs.pid \in Pid /\ codigo[regs.pid] \in Seq(Linea)
          BY <1>1 DEF RInv, IInv, Tipos, Libre
      <3> QED BY <1>2, <2>1, <3>1, ElementOfSeq, LenProperties DEF HayInstruccion, Instruccion
    <2>3. \/ EnRegistros(i) \/ instruccion_mov_in(i) \/ instruccion_mov_out(i)
          \/ decode_copy_string(i) \/ instruccion_resize(i)
          \/ instruccion_io(i) \/ instruccion_wait(i) \/ instruccion_exit(i)
        BY <1>2, <2>1 DEF Ejecutar
    <2>4. Consultados(i) \subseteq Registro
        BY <1>2, <2>1
    <2>5. CASE instruccion_mov_in(i)
        BY <1>1, <1>2, <2>1, <2>2, <2>4, <2>5, MovInMira, MovInSeVe DEF RInv
    <2>6. CASE instruccion_mov_out(i)
        BY <1>1, <2>1, <2>2, <2>4, <2>6, MovOutMira, MovOutSeVe DEF RInv
    <2>7. CASE instruccion_io(i)
        BY <1>1, <2>1, <2>2, <2>4, <2>7, IOMira, IOSeVe DEF RInv
    <2> QED BY <1>1, <1>2, <2>1, <2>2, <2>3, <2>4, <2>5, <2>6, <2>7, EnRegistrosSeVe, DecodeSeVe,
               ResizeSeVe, WaitSeVe, ExitSeVe
  <1>3. CASE ~(HayInstruccion /\ Consultados(Instruccion) \subseteq Registro)
      BY <1>3, QuietoSeVe DEF Ejecutar, delKernel, delaMemoria
  <1> QED BY <1>2, <1>3

-----------------------------------------------------------------------------
(***************************************************************************)
(* Between instructions, and answers                                       *)
(***************************************************************************)
LEMMA CheckInterruptSeVe == ASSUME RInv, IInv', check_interrupt PROVE SeVe
  <1>20. PICK p, rs : p = regs.pid /\ rs = regs
      OBVIOUS
  <1>1. /\ IInv /\ Tipos /\ curso # Libre /\ ~Pospuesta /\ a_kernel = <<>> /\ curso.en # "escribir"
      BY DEF RInv, IInv, Viaje, Pospuesta, check_interrupt, Libre
  <1>2. p \in Pid /\ estado[p] = "RUNNING" /\ \A h \in Hilo : ~Escribe(h, p)
      BY <1>1, <1>20, EnLaCPU
  <1>3. UNCHANGED <<codigo, espacio, tablas, pedido, pcb, estado, bloqueados, mostrado>>
      BY DEF check_interrupt, Seguir, delKernel, delaMemoria
  <1>4. CASE UNCHANGED <<regs, a_kernel>> /\ curso' = [en |-> "fetch"]
    <2>1. MemoriaDe(p)' = MemoriaDe(p)
        BY <1>1, <1>2, <1>3, MemoriaIgual DEF Escribe
    <2>2. MemoriaDe(regs.pid)' = MemoriaDe(p)' /\ MemoriaDe(regs.pid) = MemoriaDe(p)
        BY <1>4, <1>20
    <2> QED BY <1>1, <1>3, <1>4, <2>1, <2>2, SigueEnCPU
  <1>5. CASE enviar_pcb(regs, "INTERRUPCION", <<>>) /\ curso' = Libre
    <2>1. rs.pid = p /\ rs.val \in Banco /\ rs.pc \in Nat /\ <<>> \in Seq({}) /\ enviar_pcb(rs, "INTERRUPCION", <<>>)
        BY <1>1, <1>5, <1>20, RegsEs
    <2>2. /\ a_kernel' # <<>> /\ a_kernel'[1] = p /\ Motivo(a_kernel') = "INTERRUPCION"
          /\ actualizar_pcb(a_kernel') = [pc |-> rs.pc, val |-> rs.val]
        BY <2>1, EnviarPcb
    <2>3. ~EsIO("INTERRUPCION")
        BY DEF EsIO
    <2>4. /\ \A q \in Pid \ {p} : Igual(q)
          /\ Registros[p] = regs.val /\ Registros' = [Registros EXCEPT ![p] = rs.val]
          /\ Pcs[p] = regs.pc - (IF Pospuesta THEN 1 ELSE 0) /\ Pcs' = [Pcs EXCEPT ![p] = rs.pc]
          /\ Memorias' = Memorias /\ Esperandos' = Esperandos /\ Vivos' = Vivos
        BY <1>1, <1>2, <1>3, <1>5, <1>20, <2>2, <2>3, AlSalirSeVe
    <2>5. Pcs[p] = rs.pc
      <3>1. regs.pc - 0 = regs.pc
          BY <1>20, <2>1
      <3> QED BY <1>1, <1>20, <2>4, <3>1
    <2>6. Visto
        BY <1>2, <1>3, <1>20, <2>4, <2>5, SinCambio
    <2>7. EnCurso'
        BY <1>5, SinCurso DEF Libre
    <2>8. Mostrando'
        BY <1>1, <1>2, <1>3, <2>4, MostrandoDeCPU DEF RInv
    <2> QED BY <2>6, <2>7, <2>8 DEF SeVe
  <1> QED BY <1>4, <1>5 DEF check_interrupt, Seguir

LEMMA FinDeEscribirSeVe == ASSUME RInv, IInv', FinDeEscribir PROVE SeVe
  <1>20. PICK p : p = regs.pid
      OBVIOUS
  <1>1. IInv /\ curso # Libre /\ ~Pospuesta /\ a_kernel = <<>> /\ pedido["CPU"].size = 0
      BY DEF RInv, IInv, Viaje, Pospuesta, FinDeEscribir, Libre, Respondido
  <1>2. p \in Pid /\ \A h \in Interfaz : ~Escribe(h, p)
      BY <1>1, <1>20, EnLaCPU
  <1>3. /\ pedido' = [pedido EXCEPT !["CPU"] = Nada] /\ curso' = [en |-> "check"] /\ UNCHANGED <<regs, a_kernel>>
        /\ UNCHANGED <<codigo, espacio, tablas, pcb, estado, bloqueados, mostrado>>
      BY DEF FinDeEscribir, Pedir, Seguir, delKernel, delaMemoria
  <1>4. pedido'["CPU"] = Nada /\ \A f \in Interfaz : pedido'[f] = pedido[f]
      BY <1>1, <1>3, Hilos DEF Interfaz, IInv, Tipos
  <1>5. ~Escribe("CPU", p) /\ ~Escribe("CPU", p)' /\ \A f \in Interfaz : ~Escribe(f, p)'
      BY <1>1, <1>2, <1>4, NadaEs DEF Escribe
  <1>6. MemoriaDe(p)' = MemoriaDe(p)
      BY <1>1, <1>2, <1>3, <1>5, Hilos, MemoriaIgual
  <1>7. MemoriaDe(regs.pid)' = MemoriaDe(p)' /\ MemoriaDe(regs.pid) = MemoriaDe(p)
      BY <1>3, <1>20
  <1> QED BY <1>1, <1>3, <1>4, <1>6, <1>7, SigueEnCPU

LEMMA EnPaginasLogica ==
  ASSUME tablas \in [Pid -> Seq(Marco)], MarcosUnicos, NEW p \in Pid, NEW df \in Direccion, NEW n \in Nat, EnPaginas(p, df, n)
  PROVE  Logica(p, df) \in Nat /\ Logica(p, df) + n <= Len(tablas[p]) * TamPag
  <1>1. PICK j \in DOMAIN tablas[p] : /\ tablas[p][j] = MarcoDe(df)
                                      /\ (j - 1) * TamPag + (df % TamPag) + n <= Len(tablas[p]) * TamPag
      BY DEF EnPaginas
  <1>2. Logica(p, df) = ((j - 1) * TamPag) + (df % TamPag)
      BY <1>1, LogicaEs
  <1>3. TamPag \in Nat \ {0} /\ df % TamPag \in Nat /\ j - 1 \in Nat
      BY EspacioOK, DeMarco, TablaSeq
  <1>4. (j - 1) * TamPag \in Nat
      BY <1>3
  <1> QED BY <1>1, <1>2, <1>3, <1>4

LEMMA MemoriaSeq ==
  ASSUME tablas \in [Pid -> Seq(Marco)], NEW p \in Pid
  PROVE  /\ Len(MemoriaDe(p)) = Len(tablas[p]) * TamPag /\ Len(tablas[p]) * TamPag \in Nat
         /\ DOMAIN MemoriaDe(p) = Extension(p)
         /\ MemoriaDe(p) \in Seq({MemoriaDe(p)[i] : i \in Extension(p)})
  <1> DEFINE m == MemoriaDe(p)
  <1>1. Len(tablas[p]) * TamPag \in Nat
      BY EspacioOK, TablaSeq
  <1>2. m = [i \in Extension(p) |-> m[i]]
      BY DEF MemoriaDe, Extension
  <1> HIDE DEF m
  <1>3. DOMAIN m = 1 .. Len(tablas[p]) * TamPag /\ Len(m) = Len(tablas[p]) * TamPag
      BY <1>1, <1>2 DEF Extension
  <1>4. m \in Seq({m[i] : i \in Extension(p)})
      BY <1>1, <1>2, <1>3 DEF Extension
  <1> QED BY <1>1, <1>3, <1>4 DEF m, Extension

\* What an answer has read is what the process has.
LEMMA LeidoEs ==
  ASSUME tablas \in [Pid -> Seq(Marco)], NEW q, NEW p \in Pid, q.pid = p, q.size = 0, q.buffer \in Seq(Byte),
         NEW l \in Nat, NEW n \in Nat, LeidoDe(q, l, n)
  PROVE  /\ l + n <= Len(MemoriaDe(p)) /\ Len(q.buffer) = n
         /\ SubSeq(MemoriaDe(p), l + 1, l + n) = q.buffer
  <1> DEFINE m == MemoriaDe(p)
             s == SubSeq(m, l + 1, l + n)
  <1>1. Len(q.buffer) \in Nat /\ DOMAIN q.buffer = 1 .. Len(q.buffer)
      BY LenProperties
  <1>2. /\ l + n <= Len(tablas[p]) * TamPag /\ Len(q.buffer) = n
        /\ \A k \in 1 .. n : q.buffer[k] = m[l + k]
    <2>1. l + n <= Len(tablas[q.pid]) * TamPag /\ Len(q.buffer) + q.size = n
        BY DEF LeidoDe
    <2>2. Len(q.buffer) = n
        BY <1>1, <2>1
    <2>3. \A k \in DOMAIN q.buffer : q.buffer[k] = MemoriaDe(q.pid)[l + k]
        BY DEF LeidoDe
    <2> QED BY <1>1, <2>1, <2>2, <2>3
  <1>3. Len(m) = Len(tablas[p]) * TamPag
      BY MemoriaSeq
  <1>4. \A i \in l + 1 .. l + n : m[i] \in Byte
    <2> SUFFICES ASSUME NEW i \in l + 1 .. l + n PROVE m[i] \in Byte
        OBVIOUS
    <2>1. i - l \in 1 .. n /\ l + (i - l) = i
        OBVIOUS
    <2>2. m[i] = q.buffer[i - l]
        BY <1>2, <2>1
    <2>3. q.buffer[i - l] \in Byte
        BY <1>2, <2>1, ElementOfSeq
    <2> QED BY <2>2, <2>3
  <1> HIDE DEF m
  <1>5. l + 1 \in Int /\ l + n \in Int /\ (l + n) - (l + 1) + 1 = n /\ \A k \in 1 .. n : (l + 1) + k - 1 = l + k
      OBVIOUS
  <1>6. s \in Seq(Byte) /\ Len(s) = n /\ \A k \in 1 .. n : s[k] = m[l + k]
      BY <1>4, <1>5, SubSeqProperties
  <1> HIDE DEF s
  <1>7. s = q.buffer
    <2>1. PICK b \in Seq(Byte) : b = q.buffer
        OBVIOUS
    <2>2. Len(b) = n /\ \A k \in 1 .. n : b[k] = m[l + k]
        BY <1>2, <2>1
    <2>3. s \in Seq(Byte) /\ Len(s) = Len(b)
        BY <1>6, <2>2
    <2>4. \A k \in 1 .. Len(s) : s[k] = b[k]
        BY <1>6, <2>2
    <2>5. s = b
        BY <2>1, <2>3, <2>4, SeqEqual
    <2> QED BY <2>1, <2>5
  <1> QED BY <1>2, <1>3, <1>7 DEF m, s

LEMMA TextoEs ==
  ASSUME NEW b \in Seq(Byte)
  PROVE  Texto(b) \in Seq(Byte) /\ Len(Texto(b)) <= Len(b)
  <1> DEFINE I == {i \in 1 .. Len(b) : b[i] = 0}
             fin == SelectInSeq(b, LAMBDA x : x = 0)
  <1>1. Len(b) \in Nat
      BY LenProperties
  <1>2. fin = IF I # {} THEN Min(I) ELSE 0
      BY DEF SelectInSeq, SelectInSubSeq
  <1>3. fin \in 0 .. Len(b)
    <2>1. I \in SUBSET Nat /\ I \subseteq 1 .. Len(b)
        BY <1>1
    <2> HIDE DEF I
    <2>2. I # {} => Min(I) \in I
        BY <2>1, MenorDe
    <2> QED BY <1>1, <1>2, <2>1, <2>2
  <1>4. Texto(b) = IF fin = 0 THEN b ELSE SubSeq(b, 1, fin - 1)
      BY DEF Texto
  <1> HIDE DEF fin
  <1>5. CASE fin # 0
    <2>1. fin - 1 \in Int /\ \A i \in 1 .. fin - 1 : b[i] \in Byte
        BY <1>1, <1>3, ElementOfSeq
    <2>2. SubSeq(b, 1, fin - 1) \in Seq(Byte) /\ Len(SubSeq(b, 1, fin - 1)) <= Len(b)
        BY <1>1, <1>3, <1>5, <2>1, SubSeqProperties
    <2> QED BY <1>4, <1>5, <2>2
  <1> QED BY <1>1, <1>4, <1>5

\* What is copied of a text is what the machine writes of it.
LEMMA CopiableEs ==
  ASSUME NEW b \in Seq(Byte), NEW n \in Nat, Len(b) <= n, NEW s \in Copiables(b, n)
  PROVE  /\ s \in Seq(Byte) /\ Len(s) = n
         /\ \A j \in DOMAIN Maquinas!ConFin(b, n) : j \in 1 .. Len(s) => s[j] = Maquinas!ConFin(b, n)[j]
  <1>1. s \in Seq(Byte) /\ Len(s) = n
      BY CopiablesEs
  <1>2. Len(b) \in Nat /\ DOMAIN b = 1 .. Len(b)
      BY LenProperties
  <1>3. /\ \A j \in 1 .. n : j \in DOMAIN b => s[j] = b[j]
        /\ Len(b) < n => s[Len(b) + 1] = 0
      BY DEF Copiables
  <1>4. CASE Len(b) < n
    <2>1. Maquinas!ConFin(b, n) = Append(b, 0)
        BY <1>4 DEF Maquinas!ConFin
    <2>2. /\ DOMAIN Append(b, 0) = 1 .. Len(b) + 1 /\ Append(b, 0)[Len(b) + 1] = 0
          /\ \A j \in 1 .. Len(b) : Append(b, 0)[j] = b[j]
        BY <1>2
    <2> QED BY <1>1, <1>2, <1>3, <1>4, <2>1, <2>2
  <1>5. CASE ~(Len(b) < n)
      BY <1>1, <1>3, <1>5 DEF Maquinas!ConFin
  <1> QED BY <1>1, <1>4, <1>5

\* The instruction under way, for the machine, is the next one.
LEMMA ProximaEs ==
  ASSUME RInv, Pospuesta, NEW p, p = regs.pid
  PROVE  /\ IInv /\ Tipos /\ curso # Libre /\ (curso.en # "wait" => a_kernel = <<>>) /\ p \in Pid /\ regs.pc \in Nat /\ estado[p] = "RUNNING"
         /\ curso.en # "escribir" /\ \A h \in Hilo : ~Escribe(h, p)
         /\ tablas \in [Pid -> Seq(Marco)] /\ MarcosUnicos /\ pedido \in [Hilo -> PedidoType]
         /\ Pcs[p] = regs.pc - 1 /\ Proxima(p) = Actual
         /\ Actual \in Linea /\ \A r \in Registro : regs.val[r] \in Nat
  <1>1. /\ IInv /\ Tipos /\ curso # Libre /\ curso.en # "escribir" /\ (curso.en # "wait" => a_kernel = <<>>)
        /\ tablas \in [Pid -> Seq(Marco)] /\ MarcosUnicos /\ pedido \in [Hilo -> PedidoType]
    <2>1. curso # Libre /\ curso.en # "escribir"
        BY DEF Pospuesta, Libre
    <2>2. curso.en # "wait" => a_kernel = <<>>
        BY <2>1 DEF RInv, IInv, Viaje
    <2> QED BY <2>1, <2>2 DEF RInv, IInv, Tipos
  <1>2. /\ p \in Pid /\ regs.pc \in Nat /\ estado[p] = "RUNNING" /\ \A h \in Hilo : ~Escribe(h, p)
        /\ Contexto(p).pc = regs.pc - 1 /\ \A r \in Registro : regs.val[r] \in Nat
      BY <1>1, EnLaCPU, RegsEs
  <1>3. Pcs[p] = regs.pc - 1
      BY <1>2 DEF Pcs
  <1>4. (regs.pc - 1) + 1 = regs.pc
      BY <1>2
  <1>5. Proxima(p) = Actual
      BY <1>3, <1>4 DEF Proxima, Actual
  <1>6. Actual \in Linea
    <2>1. codigo[p] \in Seq(Linea) /\ regs.pc \in DOMAIN codigo[p]
        BY <1>1, <1>2 DEF RInv, EnCurso, Pospuesta, Tipos
    <2> QED BY <2>1, ElementOfSeq, LenProperties DEF Actual
  <1> QED BY <1>1, <1>2, <1>3, <1>5, <1>6

LEMMA FinDeMovInSeVe == ASSUME RInv, IInv', FinDeMovIn PROVE SeVe
  <1>20. PICK p, r, i, b, l, n :
           /\ p = regs.pid /\ r = curso.reg /\ i = Actual /\ b = pedido["CPU"].buffer
           /\ l = regs.val[i[3]] /\ n = TamReg[r]
      OBVIOUS
  <1> DEFINE j == Proxima(p)
             v == Numero(b)
  <1>0. curso.en = "mov_in" /\ Pospuesta
      BY DEF FinDeMovIn, Pospuesta
  <1>1. /\ IInv /\ Tipos /\ curso # Libre /\ a_kernel = <<>> /\ p \in Pid /\ regs.pc \in Nat /\ estado[p] = "RUNNING"
        /\ curso.en # "escribir" /\ \A h \in Hilo : ~Escribe(h, p)
        /\ tablas \in [Pid -> Seq(Marco)] /\ MarcosUnicos /\ pedido \in [Hilo -> PedidoType]
        /\ Pcs[p] = regs.pc - 1 /\ j = i
      BY <1>0, <1>20, ProximaEs
  <1>2. r \in Registro /\ i[1] = "MOV_IN" /\ i[2] = r /\ i[3] \in Registro /\ LeidoDe(pedido["CPU"], l, n)
      BY <1>0, <1>1, <1>20, CursoDe DEF RInv, EnCurso
  <1>3. l \in Nat /\ n \in Nat
      BY <1>1, <1>2, <1>20, RegsEs, PalabraNat
  <1>4. pedido["CPU"].size = 0 /\ pedido["CPU"].pid = p /\ b \in Seq(Byte)
    <2>1. Respondido("CPU")
        BY DEF FinDeMovIn
    <2> QED BY <1>1, <1>20, <2>1, Hilos, LoRespondido DEF Respondido, IInv, Pedidos
  <1>5. /\ regs' = [regs EXCEPT !.val[r] = v % Palabra(r)]
        /\ pedido' = [pedido EXCEPT !["CPU"] = Nada] /\ curso' = [en |-> "check"]
        /\ UNCHANGED <<codigo, espacio, tablas, pcb, estado, bloqueados, a_kernel, mostrado>>
      BY <1>20 DEF FinDeMovIn, Pedir, Seguir, delKernel, delaMemoria
  <1>6. pedido'["CPU"] = Nada /\ \A f \in Interfaz : pedido'[f] = pedido[f]
      BY <1>1, <1>5, Hilos DEF Interfaz
  <1>7. regs'.pid = p /\ regs'.pc = regs.pc /\ regs'.val = [regs.val EXCEPT ![r] = v % Palabra(r)]
      BY <1>1, <1>5, <1>20 DEF Tipos
  <1>8. curso' # Libre /\ curso'.en # "escribir" /\ ~Pospuesta'
      BY <1>5 DEF Libre, Pospuesta
  <1>9. /\ \A q \in Pid \ {p} : Igual(q)
        /\ Registros[p] = regs.val /\ Registros' = [Registros EXCEPT ![p] = regs'.val]
        /\ Pcs' = [Pcs EXCEPT ![p] = regs'.pc - (IF Pospuesta' THEN 1 ELSE 0)]
        /\ Esperandos' = Esperandos /\ Vivos' = Vivos /\ Esperandos[p] = <<>> /\ Vivos[p]
        /\ Memorias' = Memorias /\ Memorias[p] = MemoriaDe(p)
      BY <1>1, <1>5, <1>6, <1>7, <1>8, <1>20, EnCPUSeVe
  <1> HIDE DEF j
  <1>10. Pcs' = [Pcs EXCEPT ![p] = @ + 1]
    <2>1. regs.pc - 0 = (regs.pc - 1) + 1
        BY <1>1
    <2> QED BY <1>1, <1>7, <1>8, <1>9, <2>1
  <1>11. l + n <= Len(Memorias[p]) /\ SubSeq(Memorias[p], l + 1, l + n) = b
    <2>1. PICK q : q = pedido["CPU"]
        OBVIOUS
    <2>2. q.pid = p /\ q.size = 0 /\ q.buffer = b /\ LeidoDe(q, l, n)
        BY <1>2, <1>4, <1>20, <2>1
    <2>3. l + n <= Len(MemoriaDe(p)) /\ SubSeq(MemoriaDe(p), l + 1, l + n) = q.buffer
        BY <1>1, <1>3, <1>4, <2>2, LeidoEs
    <2> QED BY <1>9, <2>2, <2>3
  <1>12. l = Registros[p][i[3]] /\ n = TamReg[i[2]] /\ v = Maquinas!Numero(b)
      BY <1>2, <1>9, <1>20, NumeroIgual
  <1> HIDE DEF v
  <1>13. Registros' = [Registros EXCEPT ![p][r] = v % Maquinas!Palabra(r)]
      BY <1>2, <1>7, <1>9, Iguales
  <1>14. Maquinas!EnRango(p, l, n) /\ Maquinas!Leido(p, l, n) = b
      BY <1>1, <1>11 DEF Maquinas!EnRango, Maquinas!Leido, Memorias
  <1>15. Maquinas!Queda(p, r, Maquinas!Numero(Maquinas!Leido(p, l, n)))
      BY <1>12, <1>13, <1>14 DEF Maquinas!Queda, Registros
  <1>16. Maquinas!MovIn(p, j)
    <2>1. Maquinas!EnRango(p, l, n) /\ Maquinas!Queda(p, r, Maquinas!Numero(Maquinas!Leido(p, l, n)))
          /\ j = i /\ i[1] = "MOV_IN" /\ i[2] = r /\ UNCHANGED <<Memorias, Esperandos, Vivos, mostrado>>
          /\ l = Registros[p][i[3]] /\ n = TamReg[i[2]]
        BY <1>1, <1>2, <1>5, <1>9, <1>12, <1>14, <1>15
    <2> QED BY <1>10, <2>1 DEF Maquinas!MovIn, Maquinas!EnRango, Maquinas!Queda, Maquinas!Leido, Maquinas!SinMemoria,
               Maquinas!Avanza, Registros, Pcs, Memorias, Esperandos, Vivos
  <1>17. Visto
      BY <1>1, <1>5, <1>9, <1>16, MaquinaEjecuta DEF j
  <1>18. EnCurso'
      BY <1>5, SinCurso
  <1>19. Mostrando'
      BY <1>1, <1>5, <1>6, <1>9, Hilos, MostrandoDeCPU DEF RInv
  <1> QED BY <1>17, <1>18, <1>19 DEF SeVe

LEMMA CopiarTextoSeVe == ASSUME RInv, IInv', CopiarTexto PROVE SeVe
  <1>20. PICK p, i, b, l, d, n, df :
           /\ p = regs.pid /\ i = Actual /\ b = pedido["CPU"].buffer
           /\ l = regs.val["SI"] /\ d = regs.val["DI"] /\ n = curso.size /\ df = curso.df
      OBVIOUS
  <1> DEFINE j == Proxima(p)
             x == Texto(b)
  <1>0. curso.en = "copiar" /\ Pospuesta
      BY DEF CopiarTexto, Pospuesta
  <1>1. /\ IInv /\ Tipos /\ curso # Libre /\ a_kernel = <<>> /\ p \in Pid /\ regs.pc \in Nat /\ estado[p] = "RUNNING"
        /\ curso.en # "escribir" /\ \A h \in Hilo : ~Escribe(h, p)
        /\ tablas \in [Pid -> Seq(Marco)] /\ MarcosUnicos /\ pedido \in [Hilo -> PedidoType]
        /\ Pcs[p] = regs.pc - 1 /\ j = i
      BY <1>0, <1>20, ProximaEs
  <1>2. /\ i[1] = "COPY_STRING" /\ i[2] = n /\ LeidoDe(pedido["CPU"], l, n) /\ Logica(p, df) = d
        /\ df \in Direccion /\ n \in Nat /\ EnPaginas(p, df, n)
      BY <1>0, <1>1, <1>20, CursoDe DEF RInv, EnCurso, IInv, Pedidos
  <1>3. l \in Nat /\ d \in Nat
      BY <1>1, <1>20, RegsEs, ProgramasOK
  <1>4. pedido["CPU"].size = 0 /\ pedido["CPU"].pid = p /\ b \in Seq(Byte)
    <2>1. Respondido("CPU")
        BY DEF CopiarTexto
    <2> QED BY <1>0, <1>1, <1>20, <2>1, Hilos, LoRespondido DEF Respondido, IInv, Pedidos
  <1>5. UNCHANGED <<codigo, espacio, tablas, pcb, estado, bloqueados, a_kernel, regs, mostrado>>
      BY DEF CopiarTexto, Seguir, delKernel, delaMemoria
  <1>6. CASE UNCHANGED <<pedido, curso>>
      BY <1>5, <1>6, QuietoSeVe
  <1>7. ASSUME LlegaTexto(x), NEW s \in Copiables(x, n), pedido' = [pedido EXCEPT !["CPU"] = Escritura(p, df, s)],
               curso' = [en |-> "escribir"]
        PROVE  SeVe
    <2>1. pedido'["CPU"] = Escritura(p, df, s) /\ \A f \in Interfaz : pedido'[f] = pedido[f]
        BY <1>1, <1>7, Hilos DEF Interfaz
    <2>2. curso' # Libre /\ ~Pospuesta' /\ regs'.pid = p /\ regs'.val = regs.val /\ regs'.pc = regs.pc
        BY <1>5, <1>7, <1>20 DEF Libre, Pospuesta
    <2>3. /\ \A q \in Pid \ {p} : Igual(q)
          /\ Registros[p] = regs.val /\ Registros' = [Registros EXCEPT ![p] = regs'.val]
          /\ Pcs' = [Pcs EXCEPT ![p] = regs'.pc - (IF Pospuesta' THEN 1 ELSE 0)]
          /\ Esperandos' = Esperandos /\ Vivos' = Vivos /\ Esperandos[p] = <<>> /\ Vivos[p]
          /\ Memorias[p] = MemoriaDe(p)
        BY <1>1, <1>5, <2>1, <2>2, <1>20, EnCPUSeVe
    <2> HIDE DEF j
    <2>4. Pcs' = [Pcs EXCEPT ![p] = @ + 1]
      <3>1. regs.pc - 0 = (regs.pc - 1) + 1
          BY <1>1
      <3> QED BY <1>1, <2>2, <2>3, <3>1
    <2>5. Registros' = Registros
      <3>1. [Registros EXCEPT ![p] = Registros[p]] = Registros
          BY DEF Registros
      <3> QED BY <2>2, <2>3, <3>1
    <2>6. l + n <= Len(Memorias[p]) /\ SubSeq(Memorias[p], l + 1, l + n) = b /\ Len(b) = n
      <3>1. PICK q : q = pedido["CPU"]
          OBVIOUS
      <3>2. q.pid = p /\ q.size = 0 /\ q.buffer = b /\ LeidoDe(q, l, n)
          BY <1>2, <1>4, <1>20, <3>1
      <3>4. /\ tablas \in [Pid -> Seq(Marco)] /\ p \in Pid /\ q.buffer \in Seq(Byte)
            /\ l \in Nat /\ n \in Nat
          BY <1>1, <1>2, <1>3, <1>4, <3>2
      <3>3. /\ l + n <= Len(MemoriaDe(p)) /\ SubSeq(MemoriaDe(p), l + 1, l + n) = q.buffer
            /\ Len(q.buffer) = n
          BY <3>2, <3>4, LeidoEs
      <3> QED BY <2>3, <3>2, <3>3
    <2>7. x \in Seq(Byte) /\ Len(x) <= n /\ Len(x) \in Nat /\ x = Maquinas!Texto(b)
        BY <1>4, <2>6, TextoEs, TextoIgual, LenProperties
    <2>8. n > 0
        BY <1>2, <1>7, <2>7 DEF LlegaTexto
    <2> DEFINE t == Maquinas!ConFin(x, n)
    <2>9. s \in Seq(Byte) /\ Len(s) = n /\ \A k \in DOMAIN t : k \in 1 .. Len(s) => s[k] = t[k]
      <3> HIDE DEF x
      <3> QED BY <1>2, <1>7, <2>7, CopiableEs
    <2>10. d + n <= Len(tablas[p]) * TamPag
        BY <1>1, <1>2, EnPaginasLogica
    <2>11. PICK tt : tt = t
        OBVIOUS
    <2>12. Maquinas!EscritoDesde(p, d, tt, n)
      <3>1. \A q \in Pid \ {p} : MemoriaDe(q)' = MemoriaDe(q)
          BY <2>3 DEF Igual
      <3> HIDE DEF t
      <3> QED BY <1>1, <1>2, <1>5, <2>1, <2>8, <2>9, <2>10, <2>11, <3>1, Hilos, EscritoDesdeEs
    <2> HIDE DEF t, x
    <2>13. tt = Maquinas!ConFin(Maquinas!Texto(Maquinas!Leido(p, l, n)), n) /\ Maquinas!EnRango(p, l, n)
      <3>1. Maquinas!Leido(p, l, n) = b /\ Maquinas!EnRango(p, l, n)
          BY <1>1, <2>6 DEF Maquinas!EnRango, Maquinas!Leido, Memorias
      <3> QED BY <2>7, <2>11, <3>1 DEF t
    <2>14. Maquinas!CopyString(p, j)
      <3>1. /\ j = i /\ i[1] = "COPY_STRING" /\ i[2] = n /\ Registros[p]["SI"] = l /\ Registros[p]["DI"] = d
            /\ UNCHANGED <<Registros, Esperandos, Vivos, mostrado>>
          BY <1>1, <1>2, <1>5, <1>20, <2>3, <2>5
      <3>2. /\ Maquinas!EnRango(p, Registros[p]["SI"], i[2])
            /\ Maquinas!EscritoDesde(p, Registros[p]["DI"],
                 Maquinas!ConFin(Maquinas!Texto(Maquinas!Leido(p, Registros[p]["SI"], i[2])), i[2]), i[2])
          BY <2>12, <2>13, <3>1
      <3> QED BY <2>4, <3>1, <3>2 DEF Maquinas!CopyString, Maquinas!Avanza, Registros, Pcs, Esperandos, Vivos
    <2>15. Visto
        BY <1>1, <1>5, <2>3, <2>14, MaquinaEjecuta DEF j
    <2>16. EnCurso'
        BY <1>7, SinCurso
    <2>17. Mostrando'
        BY <1>1, <1>5, <2>1, <2>3, Hilos, MostrandoDeCPU DEF RInv
    <2> QED BY <2>15, <2>16, <2>17 DEF SeVe
  <1> HIDE DEF j
  <1>8. \/ /\ LlegaTexto(x) /\ curso' = [en |-> "escribir"]
           /\ \E s \in Copiables(x, n) : pedido' = [pedido EXCEPT !["CPU"] = Escritura(p, df, s)]
        \/ UNCHANGED <<pedido, curso>>
      BY <1>20 DEF CopiarTexto, Seguir, Pedir
  <1> QED BY <1>6, <1>7, <1>8

-----------------------------------------------------------------------------
(***************************************************************************)
(* A page more or less is, for its process, TamPag bytes more or less      *)
(***************************************************************************)
LEMMA TablaDeUna ==
  ASSUME tablas \in [Pid -> Seq(Marco)], NEW p \in Pid
  PROVE  /\ Tablas!Ampliar(p) => /\ Len(tablas'[p]) = Len(tablas[p]) + 1
                                 /\ \A j \in 1 .. Len(tablas[p]) : tablas'[p][j] = tablas[p][j]
         /\ Tablas!Reducir(p) => /\ Len(tablas'[p]) = Len(tablas[p]) - 1 /\ Len(tablas[p]) >= 1
                                 /\ \A j \in 1 .. Len(tablas[p]) - 1 : tablas'[p][j] = tablas[p][j]
  <1>1. tablas[p] \in Seq(Marco) /\ Len(tablas[p]) \in Nat
      BY TablaSeq
  <1>2. ASSUME Tablas!Ampliar(p)
        PROVE  Len(tablas'[p]) = Len(tablas[p]) + 1 /\ \A j \in 1 .. Len(tablas[p]) : tablas'[p][j] = tablas[p][j]
    <2>1. PICK m \in Marco \ Tablas!Asignados : tablas' = [tablas EXCEPT ![p] = Append(@, m)]
        BY <1>2 DEF Tablas!Ampliar
    <2>2. tablas'[p] = Append(tablas[p], m)
        BY <2>1
    <2> QED BY <1>1, <2>2, AppendProperties
  <1>3. ASSUME Tablas!Reducir(p)
        PROVE  /\ Len(tablas'[p]) = Len(tablas[p]) - 1 /\ Len(tablas[p]) >= 1
               /\ \A j \in 1 .. Len(tablas[p]) - 1 : tablas'[p][j] = tablas[p][j]
    <2>1. tablas'[p] = SubSeq(tablas[p], 1, Len(tablas[p]) - 1) /\ tablas[p] # <<>>
        BY <1>3 DEF Tablas!Reducir, Tablas!Front, Front
    <2>2. Len(tablas[p]) >= 1
        BY <1>1, <2>1, EmptySeq
    <2>3. PICK s : s = tablas[p]
        OBVIOUS
    <2>4. /\ \A i \in 1 .. Len(s) - 1 : s[i] \in Marco
          /\ 1 \in Int /\ Len(s) - 1 \in Int /\ (Len(s) - 1) - 1 + 1 = Len(s) - 1
        BY <1>1, <2>2, <2>3, ElementOfSeq
    <2>5. /\ Len(SubSeq(s, 1, Len(s) - 1)) = IF 1 <= Len(s) - 1 THEN (Len(s) - 1) - 1 + 1 ELSE 0
          /\ \A i \in 1 .. Len(s) - 1 : SubSeq(s, 1, Len(s) - 1)[i] = s[1 + i - 1]
        BY <2>4, SubSeqProperties
    <2>6. \A i \in 1 .. Len(s) - 1 : 1 + i - 1 = i
        BY <2>4
    <2>7. Len(SubSeq(s, 1, Len(s) - 1)) = Len(s) - 1
      <3>1. \A n \in Nat : \A x : n >= 1 /\ x = (IF 1 <= n - 1 THEN (n - 1) - 1 + 1 ELSE 0) => x = n - 1
          OBVIOUS
      <3>2. Len(s) \in Nat /\ Len(s) >= 1
          BY <1>1, <2>2, <2>3
      <3> QED BY <2>5, <3>1, <3>2
    <2>8. \A i \in 1 .. Len(s) - 1 : SubSeq(s, 1, Len(s) - 1)[i] = s[i]
        BY <2>5, <2>6
    <2>9. tablas'[p] = SubSeq(s, 1, Len(s) - 1)
        BY <2>1, <2>3
    <2> QED BY <2>2, <2>3, <2>7, <2>8, <2>9
  <1> QED BY <1>2, <1>3

LEMMA MemoriaPagina ==
  ASSUME IInv, IInv', NEW p \in Pid, Tablas!Ampliar(p) \/ Tablas!Reducir(p), UNCHANGED <<espacio, pedido>>,
         \A h \in Hilo : ~Escribe(h, p)
  PROVE  /\ Tablas!Ampliar(p) => Len(MemoriaDe(p)') = Len(MemoriaDe(p)) + TamPag
         /\ Tablas!Reducir(p) => Len(MemoriaDe(p)') = Len(MemoriaDe(p)) - TamPag /\ Len(MemoriaDe(p)) >= TamPag
         /\ \A i \in DOMAIN MemoriaDe(p) \cap DOMAIN MemoriaDe(p)' : MemoriaDe(p)'[i] = MemoriaDe(p)[i]
         /\ \A q \in Pid \ {p} : MemoriaDe(q)' = MemoriaDe(q)
         /\ Tablas!Reducir(p) => MemoriaDe(p)' = SubSeq(MemoriaDe(p), 1, Len(MemoriaDe(p)) - TamPag)
  <1> DEFINE L == Len(tablas[p])
             k == Len(tablas'[p])
  <1>1. tablas \in [Pid -> Seq(Marco)] /\ MarcosUnicos /\ tablas' \in [Pid -> Seq(Marco)] /\ L \in Nat /\ k \in Nat
      BY TablaSeq, SMTT(30) DEF IInv, Tipos
  <1>2. /\ Tablas!Ampliar(p) => k = L + 1 /\ \A j \in 1 .. L : tablas'[p][j] = tablas[p][j]
        /\ Tablas!Reducir(p) => k = L - 1 /\ L >= 1 /\ \A j \in 1 .. L - 1 : tablas'[p][j] = tablas[p][j]
      BY <1>1, TablaDeUna
  <1>3. \A q \in Pid \ {p} : tablas'[q] = tablas[q]
      BY <1>1, CambiaTabla
  <1>4. /\ MemoriaDe(p) = [i \in Extension(p) |-> espacio[Fisica(p, i)]]
        /\ MemoriaDe(p)' = [i \in Extension(p)' |-> espacio[Fisica(p, i)']]
    <2>1. \A h \in Hilo : ~Escribe(h, p)'
        BY DEF Escribe
    <2> QED BY <2>1, MemoriaSin, MemoriaSinPrima
  <1>5. TamPag \in Nat \ {0} /\ L * TamPag \in Nat /\ k * TamPag \in Nat
      BY <1>1, EspacioOK
  <1>6. /\ Extension(p) = 1 .. L * TamPag /\ Extension(p)' = 1 .. k * TamPag
      BY DEF Extension
  <1> HIDE DEF L, k
  <1>7. ASSUME NEW i \in 1 .. L * TamPag, i \in 1 .. k * TamPag PROVE Fisica(p, i)' = Fisica(p, i)
    <2> DEFINE g == (i - 1) \div TamPag
    <2>1. i - 1 \in Nat /\ i - 1 < L * TamPag /\ i - 1 < k * TamPag
        BY <1>5, <1>7
    <2>2. g \in Nat /\ g < L /\ g < k
        BY <1>1, <1>5, <2>1, Cociente
    <2> HIDE DEF g
    <2>3. tablas'[p][g + 1] = tablas[p][g + 1]
      <3>1. CASE Tablas!Ampliar(p)
          BY <1>1, <1>2, <2>2, <3>1
      <3>2. CASE Tablas!Reducir(p)
          BY <1>1, <1>2, <2>2, <3>2
      <3> QED BY <3>1, <3>2
    <2> QED BY <2>3 DEF Fisica, DireccionDe, g
  <1>8. \A i \in DOMAIN MemoriaDe(p) \cap DOMAIN MemoriaDe(p)' : MemoriaDe(p)'[i] = MemoriaDe(p)[i]
      BY <1>4, <1>6, <1>7
  <1>9. Len(MemoriaDe(p)) = L * TamPag /\ Len(MemoriaDe(p)') = k * TamPag
      BY <1>4, <1>5, <1>6
  <1>10. Tablas!Ampliar(p) => Len(MemoriaDe(p)') = Len(MemoriaDe(p)) + TamPag
    <2>1. (L + 1) * TamPag = (L * TamPag) + TamPag
        BY <1>1, <1>5, Producto
    <2> QED BY <1>2, <1>9, <2>1
  <1>11. Tablas!Reducir(p) => Len(MemoriaDe(p)') = Len(MemoriaDe(p)) - TamPag /\ Len(MemoriaDe(p)) >= TamPag
    <2>1. (L - 1) * TamPag = (L * TamPag) - TamPag
        BY <1>1, <1>5, Producto
    <2> QED BY <1>2, <1>5, <1>9, <2>1
  <1>12. \A q \in Pid \ {p} : MemoriaDe(q)' = MemoriaDe(q)
      BY <1>3, MemoriaIgual DEF Escribe
  <1>13. ASSUME Tablas!Reducir(p) PROVE MemoriaDe(p)' = SubSeq(MemoriaDe(p), 1, Len(MemoriaDe(p)) - TamPag)
    <2>1. PICK m, mm : m = MemoriaDe(p) /\ mm = MemoriaDe(p)'
        OBVIOUS
    <2> DEFINE n == Len(m) - TamPag
               S == {m[i] : i \in Extension(p)}
    <2>2. m \in Seq(S) /\ Len(m) \in Nat /\ n \in Nat /\ Len(mm) = n /\ DOMAIN mm = 1 .. n /\ DOMAIN m = 1 .. Len(m)
      <3>1. m \in Seq(S)
          BY <1>1, <2>1, MemoriaSeq
      <3>2. Len(m) = L * TamPag /\ n \in Nat /\ Len(mm) = n /\ Len(mm) = k * TamPag
          BY <1>5, <1>9, <1>11, <1>13, <2>1
      <3>3. DOMAIN mm = 1 .. k * TamPag /\ DOMAIN m = 1 .. L * TamPag
          BY <1>4, <1>6, <2>1
      <3> QED BY <1>5, <3>1, <3>2, <3>3
    <2>3. \A i \in 1 .. n : mm[i] = m[i] /\ m[i] \in S
      <3>1. \A i \in 1 .. n : i \in DOMAIN m /\ i \in DOMAIN mm
          BY <1>5, <2>2
      <3>2. \A i \in 1 .. n : mm[i] = m[i]
          BY <1>8, <2>1, <3>1
      <3>3. DOMAIN m = Extension(p)
          BY <1>4, <2>1
      <3> QED BY <3>1, <3>2, <3>3
    <2> HIDE DEF S
    <2>4. SubSeq(m, 1, n) \in Seq(S) /\ Len(SubSeq(m, 1, n)) = n /\ \A i \in 1 .. n : SubSeq(m, 1, n)[i] = m[i]
      <3>1. n - 1 + 1 = n /\ \A i \in 1 .. n : 1 + i - 1 = i
          BY <2>2
      <3> HIDE DEF n
      <3> QED BY <2>2, <2>3, <3>1, SubSeqProperties
    <2>5. mm \in Seq(S)
      <3>1. mm = [i \in 1 .. n |-> mm[i]]
        <4>1. mm = [i \in Extension(p)' |-> espacio[Fisica(p, i)']]
            BY <1>4, <2>1
        <4> HIDE DEF n
        <4> QED BY <2>2, <4>1
      <3> HIDE DEF n
      <3> QED BY <2>2, <2>3, <3>1
    <2> HIDE DEF n
    <2>6. mm = SubSeq(m, 1, n)
        BY <2>2, <2>3, <2>4, <2>5, SeqEqual
    <2> QED BY <2>1, <2>6 DEF n
  <1> QED BY <1>8, <1>10, <1>11, <1>12, <1>13

LEMMA PaginaDeResizeSeVe == ASSUME RInv, IInv', PaginaDeResize PROVE SeVe
  <1>20. PICK p, i : p = regs.pid /\ i = Actual
      OBVIOUS
  <1> DEFINE j == Proxima(p)
             L == Len(tablas[p])
             m == Techo(i[2]) * TamPag
  <1>0. curso.en = "resize" /\ Pospuesta
      BY DEF PaginaDeResize, Pospuesta
  <1>1. /\ IInv /\ Tipos /\ curso # Libre /\ a_kernel = <<>> /\ p \in Pid /\ regs.pc \in Nat /\ estado[p] = "RUNNING"
        /\ curso.en # "escribir" /\ \A h \in Hilo : ~Escribe(h, p)
        /\ tablas \in [Pid -> Seq(Marco)] /\ MarcosUnicos
        /\ Pcs[p] = regs.pc - 1 /\ j = i /\ L \in Nat
      BY <1>0, <1>20, ProximaEs, TablaSeq
  <1>2. i[1] = "RESIZE" /\ curso.paginas = Techo(i[2]) /\ curso.paginas \in Nat
      BY <1>0, <1>1, <1>20, CursoDe DEF RInv, EnCurso
  <1>3. /\ UNCHANGED <<codigo, espacio, pedido, regs, curso, pcb, estado, bloqueados, a_kernel, mostrado>>
        /\ \/ L < curso.paginas /\ Tablas!Ampliar(p)
           \/ L > curso.paginas /\ Tablas!Reducir(p)
      BY <1>20 DEF PaginaDeResize, delKernel
  <1>4. \A q \in Pid \ {p} : tablas'[q] = tablas[q]
      BY <1>1, <1>3, CambiaTabla
  <1>5. /\ \A q \in Pid \ {p} : Igual(q)
        /\ Registros[p] = regs.val /\ Registros' = [Registros EXCEPT ![p] = regs'.val]
        /\ Pcs[p] = regs.pc - (IF Pospuesta THEN 1 ELSE 0)
        /\ Pcs' = [Pcs EXCEPT ![p] = regs'.pc - (IF Pospuesta' THEN 1 ELSE 0)]
        /\ Esperandos' = Esperandos /\ Vivos' = Vivos /\ Esperandos[p] = <<>> /\ Vivos[p]
        /\ Memorias[p] = MemoriaDe(p) /\ Memorias' = [Memorias EXCEPT ![p] = MemoriaDe(p)']
      BY <1>1, <1>3, <1>4, <1>20, EnCPUSeVe
  <1> HIDE DEF j
  <1>6. Pcs' = Pcs /\ Registros' = Registros
    <2>1. [Pcs EXCEPT ![p] = Pcs[p]] = Pcs /\ [Registros EXCEPT ![p] = Registros[p]] = Registros
        BY DEF Pcs, Registros
    <2>2. Pospuesta' <=> Pospuesta
        BY <1>3 DEF Pospuesta
    <2> QED BY <1>3, <1>5, <2>1, <2>2
  <1>7. Memorias'[p] = MemoriaDe(p)' /\ \A q \in Pid \ {p} : Memorias'[q] = Memorias[q]
      BY <1>1, <1>5 DEF Memorias, Igual
  <1>8. Len(MemoriaDe(p)) = L * TamPag /\ TamPag \in Nat \ {0} /\ m \in Int
    <2>1. TamPag \in Nat \ {0} /\ Techo(i[2]) \in Nat
        BY <1>2, EspacioOK
    <2>2. m \in Int
        BY <2>1, Producto
    <2>3. Len(MemoriaDe(p)) = L * TamPag
        BY <1>1, MemoriaSeq
    <2> QED BY <2>1, <2>2, <2>3
  <1>9. /\ Tablas!Ampliar(p) => Len(MemoriaDe(p)') = Len(MemoriaDe(p)) + TamPag
        /\ Tablas!Reducir(p) => Len(MemoriaDe(p)') = Len(MemoriaDe(p)) - TamPag
        /\ \A b \in DOMAIN MemoriaDe(p) \cap DOMAIN MemoriaDe(p)' : MemoriaDe(p)'[b] = MemoriaDe(p)[b]
      BY <1>1, <1>3, MemoriaPagina
  <1>10. /\ L < curso.paginas => L * TamPag < m
         /\ L > curso.paginas => m < L * TamPag
    <2>1. \A a, c \in Nat : a < c => a * TamPag < c * TamPag
      <3> SUFFICES ASSUME NEW a \in Nat, NEW c \in Nat, a < c PROVE a * TamPag < c * TamPag
          OBVIOUS
      <3>1. (a * TamPag) + TamPag <= c * TamPag /\ a * TamPag \in Int /\ c * TamPag \in Int
          BY <1>8, Producto
      <3> QED BY <1>8, <3>1
    <2> QED BY <1>1, <1>2, <2>1
  <1>11. /\ Len(Memorias[p]) # m /\ \A b \in DOMAIN Memorias[p] \cap DOMAIN Memorias'[p] : Memorias'[p][b] = Memorias[p][b]
         /\ Len(Memorias'[p]) = IF Len(Memorias[p]) < m THEN Len(Memorias[p]) + TamPag ELSE Len(Memorias[p]) - TamPag
    <2>1. L * TamPag \in Int
        BY <1>1, <1>8
    <2> HIDE DEF L, m
    <2>2. CASE L < curso.paginas /\ Tablas!Ampliar(p)
        BY <1>5, <1>7, <1>8, <1>9, <1>10, <2>1, <2>2
    <2>3. CASE L > curso.paginas /\ Tablas!Reducir(p)
        BY <1>5, <1>7, <1>8, <1>9, <1>10, <2>1, <2>3
    <2> QED BY <1>3, <2>2, <2>3
  <1>12. m = Maquinas!Techo(i[2]) * TamPag
      BY Iguales
  <1> HIDE DEF m, L
  <1>13. Maquinas!Redimensionar(p, j)
      BY <1>1, <1>2, <1>3, <1>5, <1>6, <1>7, <1>11, <1>12
         DEF Maquinas!Redimensionar, Registros, Pcs, Memorias, Esperandos, Vivos
  <1>14. Visto
      BY <1>1, <1>3, <1>5, <1>13, MaquinaEjecuta DEF j
  <1>15. EnCurso'
      BY <1>0, <1>3 DEF RInv, EnCurso, Actual
  <1>16. Mostrando'
      BY <1>1, <1>3, <1>4, <1>5, MostrandoDeCPU DEF RInv
  <1> QED BY <1>14, <1>15, <1>16 DEF SeVe

LEMMA FinDeResizeSeVe == ASSUME RInv, IInv', FinDeResize PROVE SeVe
  <1>20. PICK p, i, rs : p = regs.pid /\ i = Actual /\ rs = regs
      OBVIOUS
  <1> DEFINE j == Proxima(p)
             L == Len(tablas[p])
             m == Techo(i[2]) * TamPag
  <1>0. curso.en = "resize" /\ Pospuesta
      BY DEF FinDeResize, Pospuesta
  <1>1. /\ IInv /\ Tipos /\ curso # Libre /\ a_kernel = <<>> /\ p \in Pid /\ regs.pc \in Nat /\ estado[p] = "RUNNING"
        /\ curso.en # "escribir" /\ \A h \in Hilo : ~Escribe(h, p)
        /\ tablas \in [Pid -> Seq(Marco)] /\ MarcosUnicos
        /\ Pcs[p] = regs.pc - 1 /\ j = i /\ L \in Nat
      BY <1>0, <1>20, ProximaEs, TablaSeq
  <1>2. i[1] = "RESIZE" /\ curso.paginas = Techo(i[2]) /\ curso.paginas \in Nat
      BY <1>0, <1>1, <1>20, CursoDe DEF RInv, EnCurso
  <1>3. UNCHANGED <<codigo, espacio, tablas, pedido, pcb, estado, bloqueados, mostrado>>
      BY DEF FinDeResize, Seguir, delKernel, Tablas!Contestar
  <1>4. Len(MemoriaDe(p)) = L * TamPag /\ TamPag \in Nat \ {0} /\ m \in Int /\ m = Maquinas!Techo(i[2]) * TamPag
    <2>1. TamPag \in Nat \ {0} /\ Techo(i[2]) \in Nat
        BY <1>2, EspacioOK
    <2>2. m \in Int
        BY <2>1, Producto
    <2>3. Len(MemoriaDe(p)) = L * TamPag
        BY <1>1, MemoriaSeq
    <2>4. m = Maquinas!Techo(i[2]) * TamPag
        BY Iguales
    <2> QED BY <2>1, <2>2, <2>3, <2>4
  <1>5. regs.pc - 0 = (regs.pc - 1) + 1
      BY <1>1
  <1>6. [Registros EXCEPT ![p] = Registros[p]] = Registros
      BY DEF Registros
  <1> HIDE DEF j, m
  <1>7. CASE UNCHANGED <<regs, a_kernel>> /\ curso' = [en |-> "check"] /\ L = curso.paginas
    <2>1. curso' # Libre /\ curso'.en # "escribir" /\ ~Pospuesta'
        BY <1>7 DEF Libre, Pospuesta
    <2>2. /\ \A q \in Pid \ {p} : Igual(q)
          /\ Registros[p] = regs.val /\ Registros' = [Registros EXCEPT ![p] = regs'.val]
          /\ Pcs' = [Pcs EXCEPT ![p] = regs'.pc - (IF Pospuesta' THEN 1 ELSE 0)]
          /\ Esperandos' = Esperandos /\ Vivos' = Vivos /\ Esperandos[p] = <<>> /\ Vivos[p]
          /\ Memorias' = Memorias /\ Memorias[p] = MemoriaDe(p)
        BY <1>1, <1>3, <1>7, <1>20, <2>1, EnCPUSeVe
    <2>3. Pcs' = [Pcs EXCEPT ![p] = @ + 1] /\ Registros' = Registros
        BY <1>1, <1>5, <1>6, <1>7, <2>1, <2>2
    <2>4. Len(Memorias[p]) = Maquinas!Techo(i[2]) * TamPag
        BY <1>2, <1>4, <1>7, <2>2 DEF m
    <2>5. Maquinas!Redimensionar(p, j)
        BY <1>1, <1>2, <1>3, <2>2, <2>3, <2>4
           DEF Maquinas!Redimensionar, Maquinas!Avanza, Registros, Pcs, Memorias, Esperandos, Vivos
    <2>6. Visto
        BY <1>1, <1>3, <2>2, <2>5, MaquinaEjecuta DEF j
    <2>7. EnCurso'
        BY <1>7, SinCurso
    <2>8. Mostrando'
        BY <1>1, <1>3, <2>2, MostrandoDeCPU DEF RInv
    <2> QED BY <2>6, <2>7, <2>8 DEF SeVe
  <1>8. CASE enviar_pcb(regs, "OUT_OF_MEMORY", <<>>) /\ curso' = Libre /\ L < curso.paginas
    <2>1. rs.pid = p /\ rs.val \in Banco /\ rs.pc \in Nat /\ <<>> \in Seq({}) /\ enviar_pcb(rs, "OUT_OF_MEMORY", <<>>)
        BY <1>1, <1>8, <1>20, RegsEs
    <2>2. /\ a_kernel' # <<>> /\ a_kernel'[1] = p /\ Motivo(a_kernel') = "OUT_OF_MEMORY"
          /\ actualizar_pcb(a_kernel') = [pc |-> rs.pc, val |-> rs.val]
        BY <2>1, EnviarPcb
    <2>3. ~EsIO("OUT_OF_MEMORY")
        BY DEF EsIO
    <2>4. /\ \A q \in Pid \ {p} : Igual(q)
          /\ Registros[p] = regs.val /\ Registros' = [Registros EXCEPT ![p] = rs.val]
          /\ Pcs' = [Pcs EXCEPT ![p] = rs.pc] /\ Esperandos[p] = <<>> /\ Vivos[p]
          /\ Memorias' = Memorias /\ Memorias[p] = MemoriaDe(p)
          /\ Esperandos' = Esperandos /\ Vivos' = [Vivos EXCEPT ![p] = FALSE]
        BY <1>1, <1>3, <1>8, <1>20, <2>2, <2>3, AlSalirSeVe
    <2>5. Pcs' = [Pcs EXCEPT ![p] = @ + 1] /\ Registros' = Registros
      <3>1. rs.pc = (regs.pc - 1) + 1
          BY <1>1, <1>20
      <3> QED BY <1>1, <1>6, <1>20, <2>4, <3>1
    <2>6. Len(Memorias[p]) < Maquinas!Techo(i[2]) * TamPag
      <3>1. (L * TamPag) + TamPag <= curso.paginas * TamPag /\ L * TamPag \in Int
        <4>1. PICK a, c : a = L /\ c = curso.paginas
            OBVIOUS
        <4>2. a \in Int /\ c \in Int /\ a < c
            BY <1>1, <1>2, <1>8, <4>1
        <4>3. (a * TamPag) + TamPag <= c * TamPag /\ a * TamPag \in Int
            BY <1>4, <4>2, Producto
        <4> QED BY <4>1, <4>3
      <3>2. curso.paginas * TamPag = m
          BY <1>2 DEF m
      <3> HIDE DEF L
      <3> QED BY <1>4, <2>4, <3>1, <3>2
    <2>7. Maquinas!Quedarse(p, j)
        BY <1>1, <1>2, <1>3, <2>4, <2>5, <2>6
           DEF Maquinas!Quedarse, Maquinas!Avanza, Registros, Pcs, Memorias, Esperandos, Vivos
    <2>8. Visto
        BY <1>1, <1>3, <2>4, <2>7, MaquinaEjecuta DEF j
    <2>9. EnCurso'
        BY <1>8, SinCurso DEF Libre
    <2>10. Mostrando'
        BY <1>1, <1>3, <2>4, MostrandoDeCPU DEF RInv
    <2> QED BY <2>8, <2>9, <2>10 DEF SeVe
  <1> QED BY <1>7, <1>8, <1>20 DEF FinDeResize, Seguir

-----------------------------------------------------------------------------
(***************************************************************************)
(* Steps of the kernel, as the machines see them                           *)
(***************************************************************************)
LEMMA EnCursoDe ==
  ASSUME IInv, EnCurso, UNCHANGED <<codigo, curso, regs, a_kernel>>, pedido'["CPU"] = pedido["CPU"],
         \A q \in Pid : EnCpu(q) => tablas'[q] = tablas[q] /\ MemoriaDe(q)' = MemoriaDe(q)
  PROVE  EnCurso'
  <1>1. ASSUME curso # Libre
        PROVE  tablas'[regs.pid] = tablas[regs.pid] /\ MemoriaDe(regs.pid)' = MemoriaDe(regs.pid)
    <2>1. PICK q \in Pid : q = regs.pid
        BY <1>1 DEF IInv, Tipos
    <2>2. MemoriaDe(q)' = MemoriaDe(regs.pid)'
        BY <2>1
    <2> QED BY <1>1, <2>1, <2>2 DEF EnCpu
  <1> QED BY <1>1, EnCursoSigue

LEMMA MostrandoDe ==
  ASSUME IInv, Mostrando, pedido'["STDOUT"] = pedido["STDOUT"],
         pedido["STDOUT"] # Nada => bloqueados'["STDOUT"][1] = bloqueados["STDOUT"][1],
         \A q \in Pid : estado[q] = "BLOCKED" => tablas'[q] = tablas[q] /\ MemoriaDe(q)' = MemoriaDe(q)
  PROVE  Mostrando'
  <1> SUFFICES ASSUME pedido["STDOUT"] # Nada PROVE Mostrando'
      BY DEF Mostrando
  <1>1. PICK q \in Pid : q = bloqueados["STDOUT"][1].pid /\ estado[q] = "BLOCKED"
      BY Hilos, CabezaEs DEF IInv, Pedidos
  <1> QED BY <1>1, MostrandoSigue

LEMMA SinEscribir ==
  ASSUME IInv, NEW p \in Pid, estado[p] \notin {"RUNNING", "BLOCKED"}
  PROVE  \A h \in Hilo : ~Escribe(h, p)
  <1> SUFFICES ASSUME NEW h \in Hilo, Escribe(h, p) PROVE FALSE
      OBVIOUS
  <1>1. pedido[h] # Nada /\ pedido[h].pid = p
      BY NadaEs DEF Escribe
  <1>2. CASE h = "CPU"
    <2>1. EnCpu(p)
        BY <1>1, <1>2 DEF IInv, Pedidos, EnCpu, Libre
    <2> QED BY <2>1 DEF IInv, EnUnLugar
  <1>3. CASE h \in Interfaz
      BY <1>1, <1>3, CabezaEs DEF IInv, Pedidos
  <1> QED BY <1>2, <1>3, Hilos

LEMMA DevolverSeVe == ASSUME RInv, IInv', NEW p \in Pid, Devolver(p) PROVE SeVe
  <1>20. PICK v, c, m, n : v = Contexto(p).val /\ c = Contexto(p).pc /\ m = MemoriaDe(p) /\ n = MemoriaDe(p)'
      OBVIOUS
  <1>1. /\ IInv /\ estado[p] = "EXIT" /\ Tablas!Reducir(p) /\ tablas \in [Pid -> Seq(Marco)] /\ MarcosUnicos
        /\ UNCHANGED <<codigo, espacio, pedido, regs, curso, pcb, estado, bloqueados, a_kernel, mostrado>>
      BY DEF Devolver, delKernel, RInv, IInv, Tipos
  <1>2. ~EnCpu(p) /\ ~EnCamino(p) /\ ~EnCamino(p)' /\ \A h \in Hilo : ~Escribe(h, p)
      BY <1>1, SinEscribir DEF IInv, EnUnLugar, EnCamino
  <1>3. \A q \in Pid \ {p} : tablas'[q] = tablas[q]
      BY <1>1, CambiaTabla
  <1>4. /\ Len(m) >= TamPag /\ n = SubSeq(m, 1, Len(m) - TamPag)
        /\ \A q \in Pid \ {p} : MemoriaDe(q)' = MemoriaDe(q)
      BY <1>1, <1>2, <1>20, MemoriaPagina
  <1>5. \A q \in Pid : /\ Contexto(q)' = Contexto(q) /\ (Vive(q)' <=> Vive(q)) /\ (EnCamino(q)' <=> EnCamino(q))
      BY <1>1 DEF Contexto, EnCpu, Vive, EnCamino
  <1>6. \A q \in Pid \ {p} : Igual(q)
    <2> SUFFICES ASSUME NEW q \in Pid \ {p} PROVE Igual(q)
        OBVIOUS
    <2>1. EsperandoDe(q)' = EsperandoDe(q)
        BY <1>1, <1>3, <1>5, EsperandoIgual
    <2> QED BY <1>4, <1>5, <2>1 DEF Igual
  <1>7. EsperandoDe(p) = <<>> /\ EsperandoDe(p)' = <<>>
    <2>1. EsperandoDe(p) = <<>>
        BY <1>1, <1>2, SinEspera, FueraDeColas
    <2>2. EsperandoDe(p)' = <<>>
        BY <1>1, <1>2, SinEsperaPrima, FueraDeColasPrima
    <2> QED BY <2>1, <2>2
  <1>8. /\ Registros' = [Registros EXCEPT ![p] = v] /\ Pcs' = [Pcs EXCEPT ![p] = c]
        /\ Memorias' = [Memorias EXCEPT ![p] = n] /\ Esperandos' = [Esperandos EXCEPT ![p] = <<>>]
      BY <1>5, <1>6, <1>7, <1>20, CambiaUno
  <1>9. Registros[p] = v /\ Pcs[p] = c /\ Memorias[p] = m /\ Esperandos[p] = <<>>
      BY <1>7, <1>20 DEF Registros, Pcs, Memorias, Esperandos
  <1>10. Registros' = Registros /\ Pcs' = Pcs /\ Esperandos' = Esperandos
    <2>1. /\ [Registros EXCEPT ![p] = Registros[p]] = Registros /\ [Pcs EXCEPT ![p] = Pcs[p]] = Pcs
          /\ [Esperandos EXCEPT ![p] = Esperandos[p]] = Esperandos
        BY DEF Registros, Pcs, Esperandos
    <2> QED BY <1>8, <1>9, <2>1
  <1>11. Vivos' = Vivos /\ ~Vivos[p]
      BY <1>1 DEF Vivos, EnCamino
  <1>12. Memorias[p] # <<>>
      BY <1>4, <1>9, EspacioOK
  <1>13. Maquinas!Devolver(p)
      BY <1>1, <1>4, <1>8, <1>9, <1>10, <1>11, <1>12
         DEF Maquinas!Devolver, Registros, Pcs, Memorias, Esperandos, Vivos
  <1>14. Visto
      BY <1>1, <1>13 DEF Maquinas!Next, Visto
  <1>15. EnCurso'
      BY <1>1, <1>2, <1>3, <1>4, EnCursoDe DEF RInv
  <1>16. Mostrando'
      BY <1>1, <1>3, <1>4, MostrandoDe DEF RInv
  <1> QED BY <1>14, <1>15, <1>16 DEF SeVe

LEMMA MemoriasIguales ==
  ASSUME IInv, IInv', UNCHANGED <<espacio, tablas, pedido>>
  PROVE  \A q \in Pid : MemoriaDe(q)' = MemoriaDe(q)
  BY MemoriaIgual DEF Escribe

LEMMA DespacharSeVe == ASSUME RInv, IInv', NEW p \in Pid, Despachar(p) PROVE SeVe
  <1>1. /\ IInv /\ Tipos /\ curso = Libre /\ a_kernel = <<>> /\ estado[p] = "READY"
        /\ estado' = [estado EXCEPT ![p] = "RUNNING"] /\ curso' = [en |-> "fetch"]
        /\ UNCHANGED <<codigo, espacio, tablas, pedido, pcb, a_kernel, bloqueados, mostrado>>
      BY DEF Despachar, delaMemoria, RInv, IInv
  <1>2. regs' = [pid |-> p, pc |-> pcb[p].pc, val |-> pcb[p].val]
      BY <1>1, PaqueteDePcb DEF Despachar, Tipos
  <1>3. curso' # Libre /\ ~Pospuesta' /\ regs'.pid = p /\ regs'.pc = pcb[p].pc /\ regs'.val = pcb[p].val
      BY <1>1, <1>2 DEF Libre, Pospuesta
  <1>4. \A q \in Pid : MemoriaDe(q)' = MemoriaDe(q) /\ EsperandoDe(q)' = EsperandoDe(q)
    <2>1. \A q \in Pid : EsperandoDe(q)' = EsperandoDe(q)
        BY <1>1, EsperandoIgual DEF EnCamino
    <2> QED BY <1>1, <2>1, MemoriasIguales
  <1>5. \A q \in Pid : /\ ~EnCpu(q) /\ ~EnCamino(q) /\ ~EnCamino(q)'
                       /\ q # p => ~EnCpu(q)' /\ estado'[q] = estado[q]
      BY <1>1, <1>3 DEF EnCpu, EnCamino, Tipos
  <1>6. ASSUME NEW q \in Pid \ {p} PROVE Igual(q)
    <2>1. Contexto(q) = pcb[q] /\ (Vive(q) <=> estado[q] # "EXIT")
        BY <1>5, EnReposo
    <2>2. Contexto(q)' = pcb'[q] /\ (Vive(q)' <=> estado'[q] # "EXIT")
        BY <1>5, EnReposoPrima
    <2> QED BY <1>1, <1>4, <1>5, <2>1, <2>2 DEF Igual
  <1>7. Igual(p)
    <2>1. Contexto(p) = pcb[p] /\ Vive(p)
        BY <1>1, <1>5, EnReposo
    <2>2. Contexto(p)'.val = pcb[p].val /\ Contexto(p)'.pc = pcb[p].pc /\ Vive(p)'
      <3>1. EnCpu(p)' /\ curso'.en \notin {"mov_in", "copiar", "resize", "wait"}
          BY <1>1, <1>3 DEF EnCpu
      <3>2. Contexto(p)' = [val |-> regs'.val, pc |-> regs'.pc - 0]
          BY <3>1 DEF Contexto
      <3>3. regs'.pc - 0 = regs'.pc
          BY <1>1, <1>3 DEF Tipos
      <3>4. Vive(p)'
          BY <1>1, <1>5 DEF Vive, Tipos
      <3> QED BY <1>3, <3>2, <3>3, <3>4
    <2> QED BY <1>4, <2>1, <2>2 DEF Igual
  <1>8. Visto
      BY <1>1, <1>6, <1>7, SinVerse
  <1>9. EnCurso'
      BY <1>1, SinCurso
  <1>10. Mostrando'
      BY <1>1, <1>4, MostrandoDe DEF RInv
  <1> QED BY <1>8, <1>9, <1>10 DEF SeVe

LEMMA DespertarSeVe == ASSUME RInv, IInv', NEW p \in Pid, Despertar(p) PROVE SeVe
  <1>1. /\ IInv /\ Tipos /\ estado[p] = "BLOCKED" /\ estado' = [estado EXCEPT ![p] = "READY"]
        /\ UNCHANGED <<codigo, espacio, tablas, pedido, regs, curso, pcb, a_kernel, bloqueados, mostrado>>
      BY DEF Despertar, delaMemoria, RInv, IInv
  <1>2. \A q \in Pid : MemoriaDe(q)' = MemoriaDe(q) /\ EsperandoDe(q)' = EsperandoDe(q)
    <2>1. \A q \in Pid : EsperandoDe(q)' = EsperandoDe(q)
        BY <1>1, EsperandoIgual DEF EnCamino
    <2> QED BY <1>1, <2>1, MemoriasIguales
  <1>3. \A q \in Pid : Contexto(q)' = Contexto(q) /\ (Vive(q)' <=> Vive(q))
      BY <1>1 DEF Contexto, EnCpu, Vive, EnCamino, Tipos
  <1>4. Visto
      BY <1>1, <1>2, <1>3, SinVerse DEF Igual
  <1>5. EnCurso'
      BY <1>1, <1>2, EnCursoDe DEF RInv
  <1>6. Mostrando'
      BY <1>1, <1>2, MostrandoDe DEF RInv
  <1> QED BY <1>4, <1>5, <1>6 DEF SeVe

\* The request of q may move in its queue.
LEMMA EsperandoSigue ==
  ASSUME IInv, IInv', NEW q \in Pid, ~EnCamino(q), ~EnCamino(q)', tablas'[q] = tablas[q],
         \A f \in Interfaz : \A j \in EnCola(q, f) : \E k \in EnCola(q, f)' : bloqueados'[f][k] = bloqueados[f][j],
         \A f \in Interfaz : EnCola(q, f) = {} => EnCola(q, f)' = {}
  PROVE  EsperandoDe(q)' = EsperandoDe(q)
  <1>1. \A df : Logica(q, df)' = Logica(q, df)
      BY DEF Logica
  <1>2. CASE \A f \in Interfaz : EnCola(q, f) = {}
    <2>1. EsperandoDe(q) = <<>>
        BY <1>2, SinEspera
    <2>2. EsperandoDe(q)' = <<>>
        BY <1>2, SinEsperaPrima
    <2> QED BY <2>1, <2>2
  <1>3. ASSUME NEW f \in Interfaz, NEW j \in EnCola(q, f) PROVE EsperandoDe(q)' = EsperandoDe(q)
    <2>1. PICK k \in EnCola(q, f)' : bloqueados'[f][k] = bloqueados[f][j]
        OBVIOUS
    <2>2. EsperandoDe(q) = <<IF f = "STDIN" THEN "IO_STDIN_READ" ELSE "IO_STDOUT_WRITE",
                             Logica(q, bloqueados[f][j].df), bloqueados[f][j].size>>
        BY EsperaEnCola
    <2>3. EsperandoDe(q)' = <<IF f = "STDIN" THEN "IO_STDIN_READ" ELSE "IO_STDOUT_WRITE",
                              Logica(q, bloqueados[f][k].df)', bloqueados'[f][k].size>>
        BY EsperaEnColaPrima
    <2>4. Logica(q, bloqueados[f][k].df)' = Logica(q, bloqueados[f][j].df)
        BY <1>1, <2>1
    <2> QED BY <2>1, <2>2, <2>3, <2>4
  <1> QED BY <1>2, <1>3

LEMMA AtenderContextoSeVe == ASSUME RInv, IInv', AtenderContexto PROVE SeVe
  <1>20. PICK p, m, v, g, d, n : /\ p = a_kernel[1] /\ m = Motivo(a_kernel) /\ v = actualizar_pcb(a_kernel)
                                 /\ g = Dato(a_kernel, 1) /\ d = Dato(a_kernel, 2) /\ n = Dato(a_kernel, 3)
      OBVIOUS
  <1>1. /\ IInv /\ Tipos /\ a_kernel # <<>> /\ p \in Pid /\ EnCamino(p) /\ estado[p] = "RUNNING"
        /\ a_kernel' = <<>> /\ pcb' = [pcb EXCEPT ![p] = v] /\ pcb'[p] = v
        /\ UNCHANGED <<codigo, espacio, tablas, pedido, mostrado>>
      BY <1>20 DEF RInv, IInv, Tipos, Viaje, EnUnLugar, EnCamino, AtenderContexto, delaMemoria
  <1>2. \/ /\ m \in {"INTERRUPCION", "EXIT", "OUT_OF_MEMORY"} /\ UNCHANGED <<bloqueados, curso, regs>>
           /\ estado' = [estado EXCEPT ![p] = IF m = "INTERRUPCION" THEN "READY" ELSE "EXIT"]
        \/ /\ EsIO(m) /\ estado' = [estado EXCEPT ![p] = "BLOCKED"] /\ UNCHANGED <<curso, regs>>
           /\ bloqueados' = [bloqueados EXCEPT ![g] = Append(@, [pid |-> p, df |-> d, size |-> n])]
        \/ m \in {"WAIT", "SIGNAL"} /\ curso' = [en |-> "check"] /\ UNCHANGED <<estado, bloqueados, regs>>
        \/ /\ m = "WAIT" /\ curso' = Libre /\ UNCHANGED bloqueados
           /\ \E e \in {"BLOCKED", "EXIT"} : estado' = [estado EXCEPT ![p] = e]
      BY <1>20 DEF AtenderContexto, EsIO
  <1>3. /\ m \notin {"WAIT", "SIGNAL"} => curso = Libre
        /\ m \in {"WAIT", "SIGNAL"} =>
             curso.en = "wait" /\ curso # Libre /\ regs.pid = p /\ v = [pc |-> regs.pc, val |-> regs.val]
        /\ EsIO(m) => g = InterfazDe(m)
      BY <1>1, <1>20 DEF IInv, Viaje, EsIO, Libre
  <1>4. \A f \in Interfaz : \A j \in DOMAIN bloqueados[f] : bloqueados[f][j].pid # p
      BY <1>1, NoEnColas
  <1>5. \A q \in Pid : MemoriaDe(q)' = MemoriaDe(q)
      BY <1>1, MemoriasIguales
  <1>6. \A q \in Pid : ~EnCamino(q)' /\ \A df : Logica(q, df)' = Logica(q, df)
      BY <1>1 DEF EnCamino, Logica
  <1>7. ASSUME EsIO(m)
        PROVE  /\ g \in Interfaz /\ m = (IF g = "STDIN" THEN "IO_STDIN_READ" ELSE "IO_STDOUT_WRITE")
               /\ bloqueados[g] \in Seq(Renglon) /\ Len(bloqueados[g]) \in Nat
               /\ DOMAIN bloqueados[g] = 1 .. Len(bloqueados[g])
               /\ Len(bloqueados[g]) = 0 => bloqueados[g] = <<>>
    <2>1. g \in Interfaz /\ m = (IF g = "STDIN" THEN "IO_STDIN_READ" ELSE "IO_STDOUT_WRITE")
        BY <1>3, <1>7, Hilos DEF EsIO, InterfazDe
    <2>2. bloqueados[g] \in Seq(Renglon)
        BY <1>1, <2>1 DEF Tipos
    <2> QED BY <2>1, <2>2, EmptySeq, LenProperties
  <1>8. ASSUME EsIO(m)
        PROVE  /\ DOMAIN bloqueados'[g] = 1 .. Len(bloqueados[g]) + 1
               /\ \A j \in DOMAIN bloqueados[g] : bloqueados'[g][j] = bloqueados[g][j]
               /\ bloqueados'[g][Len(bloqueados[g]) + 1] = [pid |-> p, df |-> d, size |-> n]
               /\ \A f \in Interfaz \ {g} : bloqueados'[f] = bloqueados[f]
    <2>1. bloqueados' = [bloqueados EXCEPT ![g] = Append(@, [pid |-> p, df |-> d, size |-> n])]
        BY <1>2, <1>8 DEF EsIO
    <2>2. /\ bloqueados'[g] = Append(bloqueados[g], [pid |-> p, df |-> d, size |-> n])
          /\ \A f \in Interfaz \ {g} : bloqueados'[f] = bloqueados[f]
        BY <1>1, <1>7, <1>8, <2>1 DEF Tipos
    <2> QED BY <1>7, <1>8, <2>2
  <1>9. ~EsIO(m) => UNCHANGED bloqueados
      BY <1>2
  <1>10. ASSUME NEW q \in Pid \ {p} PROVE Igual(q)
    <2>1. ~EnCpu(q) /\ ~EnCamino(q) /\ ~EnCpu(q)' /\ ~EnCamino(q)' /\ estado'[q] = estado[q] /\ pcb'[q] = pcb[q]
      <3>1. ~EnCpu(q) /\ ~EnCamino(q) /\ ~EnCamino(q)' /\ pcb'[q] = pcb[q]
          BY <1>1, <1>3, <1>20 DEF EnCpu, EnCamino, Tipos
      <3>2. ~EnCpu(q)' /\ estado'[q] = estado[q]
          BY <1>1, <1>2, <1>3, <3>1 DEF EnCpu, Tipos, EsIO
      <3> QED BY <3>1, <3>2
    <2>2. Contexto(q) = pcb[q] /\ (Vive(q) <=> estado[q] # "EXIT")
        BY <2>1, EnReposo
    <2>3. Contexto(q)' = pcb'[q] /\ (Vive(q)' <=> estado'[q] # "EXIT")
        BY <2>1, EnReposoPrima
    <2>4. \A f \in Interfaz : EnCola(q, f)' = EnCola(q, f) /\ \A j \in EnCola(q, f) : bloqueados'[f][j] = bloqueados[f][j]
      <3>1. CASE ~EsIO(m)
          BY <1>1, <1>9, <3>1 DEF EnCola
      <3>2. CASE EsIO(m)
        <4>1. \A f \in Interfaz \ {g} : EnCola(q, f)' = EnCola(q, f) /\ bloqueados'[f] = bloqueados[f]
            BY <1>1, <1>8, <3>2 DEF EnCola
        <4>2. EnCola(q, g)' = EnCola(q, g) /\ \A j \in EnCola(q, g) : bloqueados'[g][j] = bloqueados[g][j]
            BY <1>1, <1>7, <1>8, <3>2 DEF EnCola
        <4> QED BY <4>1, <4>2
      <3> QED BY <3>1, <3>2
    <2>5. EsperandoDe(q)' = EsperandoDe(q)
        BY <1>1, <2>1, <2>4, EsperandoSigue
    <2> QED BY <1>5, <2>1, <2>2, <2>3, <2>5 DEF Igual
  <1>11. ASSUME m \in {"INTERRUPCION", "EXIT", "OUT_OF_MEMORY"} PROVE Igual(p)
    <2>1. curso = Libre /\ curso' = Libre /\ ~EsIO(m) /\ UNCHANGED bloqueados
        BY <1>2, <1>3, <1>11 DEF EsIO
    <2>2. estado' = [estado EXCEPT ![p] = IF m = "INTERRUPCION" THEN "READY" ELSE "EXIT"]
        BY <1>2, <1>11 DEF EsIO
    <2>3. estado'[p] # "BLOCKED" /\ (estado'[p] # "EXIT" <=> m = "INTERRUPCION")
        BY <1>1, <1>11, <2>2 DEF Tipos
    <2>4. Contexto(p) = v /\ EsperandoDe(p) = <<>> /\ (Vive(p) <=> m = "INTERRUPCION")
        BY <1>1, <1>11, <1>20, <2>1, DeCamino
    <2>5. Contexto(p)' = v /\ (Vive(p)' <=> m = "INTERRUPCION")
      <3>1. ~EnCpu(p)'
          BY <2>1 DEF EnCpu
      <3> QED BY <1>1, <1>6, <2>3, <3>1, EnReposoPrima
    <2>6. EsperandoDe(p)' = <<>>
        BY <1>1, <1>6, <2>3, SinEsperaPrima, FueraDeColasPrima
    <2> QED BY <1>1, <1>5, <2>4, <2>5, <2>6 DEF Igual
  <1>12. ASSUME EsIO(m) PROVE Igual(p)
    <2>7. PICK K : K = Len(bloqueados[g]) + 1
        OBVIOUS
    <2>1. /\ curso = Libre /\ curso' = Libre /\ m \notin {"EXIT", "OUT_OF_MEMORY"}
          /\ estado' = [estado EXCEPT ![p] = "BLOCKED"]
        BY <1>2, <1>3, <1>12 DEF EsIO
    <2>2. estado'[p] = "BLOCKED"
        BY <1>1, <2>1 DEF Tipos
    <2>3. Contexto(p) = v /\ Vive(p) /\ EsperandoDe(p) = <<m, Logica(p, d), n>>
        BY <1>1, <1>12, <1>20, <2>1, DeCamino
    <2>4. Contexto(p)' = v /\ Vive(p)'
      <3>1. ~EnCpu(p)'
          BY <2>1 DEF EnCpu
      <3> QED BY <1>1, <1>6, <2>2, <3>1, EnReposoPrima
    <2>5. K \in EnCola(p, g)' /\ bloqueados'[g][K].df = d /\ bloqueados'[g][K].size = n
      <3>1. K \in DOMAIN bloqueados'[g] /\ bloqueados'[g][K] = [pid |-> p, df |-> d, size |-> n]
          BY <1>7, <1>8, <1>12, <2>7
      <3>2. ~(K = 1 /\ g = "STDIN" /\ pedido'[g] # Nada)
        <4>1. K = 1 => bloqueados[g] = <<>>
            BY <1>7, <1>12, <2>7
        <4>2. bloqueados[g] = <<>> => pedido[g] = Nada
            BY <1>1, <1>7, <1>12 DEF IInv, Pedidos
        <4> QED BY <1>1, <4>1, <4>2
      <3> QED BY <3>1, <3>2 DEF EnCola
    <2>6. EsperandoDe(p)' = <<m, Logica(p, d), n>>
      <3>1. EsperandoDe(p)' = <<IF g = "STDIN" THEN "IO_STDIN_READ" ELSE "IO_STDOUT_WRITE",
                                Logica(p, bloqueados[g][K].df)', bloqueados'[g][K].size>>
          BY <1>1, <1>7, <1>12, <2>5, EsperaEnColaPrima
      <3>2. Logica(p, bloqueados[g][K].df)' = Logica(p, d)
          BY <1>1, <1>6, <2>5
      <3> QED BY <1>7, <1>12, <2>5, <3>1, <3>2
    <2> QED BY <1>1, <1>5, <2>3, <2>4, <2>6 DEF Igual
  <1>13. ASSUME m \in {"WAIT", "SIGNAL"}
         PROVE  /\ curso.en = "wait" /\ curso # Libre /\ regs.pid = p /\ Pospuesta /\ regs.pc \in Nat
                /\ Proxima(p)[1] = m /\ Pcs[p] = regs.pc - 1 /\ Registros[p] = regs.val
                /\ Esperandos[p] = <<>> /\ Vivos[p] /\ v = [pc |-> regs.pc, val |-> regs.val]
    <2>1. /\ curso.en = "wait" /\ curso # Libre /\ regs.pid = p /\ Pospuesta
          /\ v = [pc |-> regs.pc, val |-> regs.val]
        BY <1>3, <1>13 DEF Pospuesta
    <2>2. regs.pc \in Nat /\ Pcs[p] = regs.pc - 1 /\ Proxima(p) = Actual
        BY <2>1, ProximaEs
    <2>3. Actual[1] = m
        BY <1>20, <2>1 DEF RInv, EnCurso
    <2>4. Contexto(p).val = regs.val /\ EsperandoDe(p) = <<>> /\ Vive(p)
        BY <1>1, <2>1, EnLaCPU
    <2>5. Registros[p] = regs.val /\ Esperandos[p] = <<>>
        BY <1>1, <2>4 DEF Registros, Esperandos
    <2>6. Vivos[p]
        BY <1>1, <2>4 DEF Vivos, Vive
    <2> QED BY <2>1, <2>2, <2>3, <2>5, <2>6
  <1>14. ASSUME m \in {"WAIT", "SIGNAL"}
         PROVE  /\ Contexto(p)'.val = regs.val /\ Contexto(p)'.pc = regs.pc /\ EsperandoDe(p)' = <<>>
                /\ Vive(p)' \/ m = "WAIT"
    <2>1. CASE curso' = [en |-> "check"] /\ UNCHANGED <<estado, bloqueados, regs>>
      <3>1. curso' # Libre /\ ~Pospuesta' /\ regs'.pid = p /\ regs' = regs
          BY <1>13, <1>14, <2>1 DEF Libre, Pospuesta
      <3>2. /\ Contexto(regs.pid)'.val = regs'.val /\ Contexto(regs.pid)'.pc = regs'.pc
            /\ EsperandoDe(regs.pid)' = <<>> /\ Vive(regs.pid)'
          BY <3>1, EnLaCPUPrima
      <3>3. /\ Contexto(regs.pid)' = Contexto(p)' /\ EsperandoDe(regs.pid)' = EsperandoDe(p)'
            /\ (Vive(regs.pid)' <=> Vive(p)')
          BY <3>1
      <3> QED BY <3>1, <3>2, <3>3
    <2>2. CASE /\ m = "WAIT" /\ curso' = Libre /\ UNCHANGED bloqueados
               /\ \E e \in {"BLOCKED", "EXIT"} : estado' = [estado EXCEPT ![p] = e]
      <3>1. ~EnCpu(p)'
          BY <2>2 DEF EnCpu
      <3>2. Contexto(p)' = v
          BY <1>1, <1>6, <3>1, EnReposoPrima
      <3>3. \A f \in Interfaz : EnCola(p, f)' = {}
          BY <1>4, <2>2 DEF EnCola
      <3>4. EsperandoDe(p)' = <<>>
          BY <1>1, <1>6, <3>3, SinEsperaPrima
      <3> QED BY <1>13, <1>14, <2>2, <3>2, <3>4
    <2> QED BY <1>2, <1>14, <2>1, <2>2 DEF EsIO
  <1>15. Memorias' = Memorias
      BY <1>5 DEF Memorias
  <1>16. Visto
    <2>1. CASE m \in {"WAIT", "SIGNAL"}
      <3>1. /\ Registros' = [Registros EXCEPT ![p] = Registros[p]] /\ Pcs' = [Pcs EXCEPT ![p] = regs.pc]
            /\ Esperandos' = [Esperandos EXCEPT ![p] = Esperandos[p]]
          BY <1>1, <1>10, <1>13, <1>14, <2>1 DEF Registros, Pcs, Esperandos, Igual
      <3>2. Registros' = Registros /\ Esperandos' = Esperandos /\ Pcs' = [Pcs EXCEPT ![p] = @ + 1]
        <4>1. [Registros EXCEPT ![p] = Registros[p]] = Registros /\ [Esperandos EXCEPT ![p] = Esperandos[p]] = Esperandos
            BY DEF Registros, Esperandos
        <4>2. regs.pc = Pcs[p] + 1
            BY <1>13, <2>1
        <4> QED BY <3>1, <4>1, <4>2
      <3>3. Vivos' = Vivos \/ (m = "WAIT" /\ Vivos' = [Vivos EXCEPT ![p] = FALSE])
        <4>1. CASE Vive(p)'
            BY <1>1, <1>10, <1>13, <2>1, <4>1 DEF Vivos, Vive, Igual
        <4>2. CASE ~Vive(p)'
          <5>1. Vivos' = [Vivos EXCEPT ![p] = FALSE]
              BY <1>1, <1>10, <4>2, ViveUno
          <5> QED BY <1>14, <2>1, <4>2, <5>1
        <4> QED BY <4>1, <4>2
      <3> DEFINE j == Proxima(p)
      <3> HIDE DEF j
      <3>4. j[1] \in {"WAIT", "SIGNAL"} /\ (j[1] = m)
          BY <1>13, <2>1 DEF j
      <3>5. Memorias' = Memorias /\ (Vivos' = Vivos \/ (j[1] = "WAIT" /\ Vivos' = [Vivos EXCEPT ![p] = FALSE]))
          BY <1>15, <3>3, <3>4
      <3>6. Maquinas!Recurso(p, j)
          BY <1>1, <3>2, <3>4, <3>5
             DEF Maquinas!Recurso, Maquinas!Avanza, Registros, Pcs, Memorias, Esperandos, Vivos
      <3>7. Esperandos[p] = <<>> /\ Vivos[p]
          BY <1>13, <2>1
      <3>8. UNCHANGED codigo /\ p \in Pid
          BY <1>1
      <3> QED BY <3>6, <3>7, <3>8, MaquinaEjecuta DEF j
    <2>2. CASE m \notin {"WAIT", "SIGNAL"}
      <3>1. Igual(p)
          BY <1>2, <1>11, <1>12, <2>2
      <3> QED BY <1>1, <1>10, <3>1, SinVerse
    <2> QED BY <2>1, <2>2
  <1>17. EnCurso'
    <2>1. curso' \in {Libre, [en |-> "check"]}
        BY <1>2, <1>3 DEF EsIO
    <2> QED BY <2>1, SinCurso DEF Libre
  <1>18. Mostrando'
    <2>1. pedido["STDOUT"] # Nada => bloqueados'["STDOUT"][1] = bloqueados["STDOUT"][1]
      <3> SUFFICES ASSUME pedido["STDOUT"] # Nada PROVE bloqueados'["STDOUT"][1] = bloqueados["STDOUT"][1]
          OBVIOUS
      <3>1. "STDOUT" \in Interfaz /\ 1 \in DOMAIN bloqueados["STDOUT"]
          BY <1>1, Hilos, CabezaEs DEF IInv, Pedidos
      <3> QED BY <1>8, <1>9, <3>1
    <2> QED BY <1>1, <1>5, <2>1, MostrandoDe DEF RInv
  <1> QED BY <1>16, <1>17, <1>18 DEF SeVe

-----------------------------------------------------------------------------
(***************************************************************************)
(* Steps of the interfaces, as the machines see them                       *)
(***************************************************************************)
\* The queue loses its first request.
LEMMA SinCabeza ==
  ASSUME IInv, NEW f \in Interfaz, bloqueados[f] # <<>>, bloqueados' = [bloqueados EXCEPT ![f] = Tail(@)]
  PROVE  /\ \A g \in Interfaz \ {f} : bloqueados'[g] = bloqueados[g]
         /\ DOMAIN bloqueados[f] = 1 .. Len(bloqueados[f]) /\ Len(bloqueados[f]) \in Nat \ {0}
         /\ DOMAIN bloqueados'[f] = 1 .. Len(bloqueados[f]) - 1
         /\ \A j \in 1 .. Len(bloqueados[f]) - 1 : bloqueados'[f][j] = bloqueados[f][j + 1]
  <1>1. bloqueados'[f] = Tail(bloqueados[f]) /\ \A g \in Interfaz \ {f} : bloqueados'[g] = bloqueados[g]
      BY DEF IInv, Tipos
  <1>2. bloqueados[f] \in Seq(Renglon) /\ Len(bloqueados[f]) \in Nat \ {0} /\ DOMAIN bloqueados[f] = 1 .. Len(bloqueados[f])
      BY CabezaEs, LenProperties
  <1>3. /\ Tail(bloqueados[f]) \in Seq(Renglon) /\ Len(Tail(bloqueados[f])) = Len(bloqueados[f]) - 1
        /\ \A j \in 1 .. Len(bloqueados[f]) - 1 : Tail(bloqueados[f])[j] = bloqueados[f][j + 1]
      BY <1>2, HeadTailProperties
  <1> QED BY <1>1, <1>2, <1>3, LenProperties

\* What is asked of an interface does not change while it travels.
LEMMA EsperandoDeCamino ==
  ASSUME IInv, IInv', NEW q \in Pid, EnCamino(q), UNCHANGED a_kernel, tablas'[q] = tablas[q]
  PROVE  EsperandoDe(q)' = EsperandoDe(q)
  <1>1. EnCamino(q)' /\ \A df : Logica(q, df)' = Logica(q, df)
      BY DEF EnCamino, Logica
  <1>2. CASE Motivo(a_kernel) \in {"IO_STDIN_READ", "IO_STDOUT_WRITE"}
      BY <1>1, <1>2 DEF EsperandoDe
  <1>3. CASE ~EsIO(Motivo(a_kernel))
    <2>1. estado[q] = "RUNNING" /\ estado'[q] = "RUNNING"
        BY <1>1 DEF IInv, EnUnLugar
    <2>2. EsperandoDe(q) = <<>>
        BY <1>3, <2>1, SinEspera, FueraDeColas
    <2>3. EsperandoDe(q)' = <<>>
        BY <1>3, <2>1, SinEsperaPrima, FueraDeColasPrima
    <2> QED BY <2>2, <2>3
  <1> QED BY <1>2, <1>3 DEF EsIO

\* Who is blocked and is not being written by the keyboard is not being written.
LEMMA BloqueadoSinEscribir ==
  ASSUME IInv, NEW p \in Pid, estado[p] = "BLOCKED", pedido["STDIN"] = Nada
  PROVE  \A h \in Hilo : ~Escribe(h, p)
  <1> SUFFICES ASSUME NEW h \in Hilo, Escribe(h, p) PROVE FALSE
      OBVIOUS
  <1>1. pedido[h] # Nada /\ pedido[h].pid = p /\ pedido[h].op = "escribir"
      BY NadaEs DEF Escribe
  <1>2. CASE h = "CPU"
    <2>1. EnCpu(p)
        BY <1>1, <1>2 DEF IInv, Pedidos, EnCpu, Libre
    <2> QED BY <2>1 DEF IInv, EnUnLugar
  <1>3. CASE h \in Interfaz
      BY <1>1, <1>3, Hilos DEF IInv, Pedidos
  <1> QED BY <1>2, <1>3, Hilos

LEMMA DesbloquearEs ==
  ASSUME IInv, IInv', NEW f \in Interfaz, pedido[f] # Nada, pedido[f].size = 0, Desbloquear(f),
         UNCHANGED <<codigo, espacio, tablas, regs, curso, a_kernel>>, NEW p, p = bloqueados[f][1].pid
  PROVE  /\ p \in Pid /\ estado[p] = "BLOCKED" /\ 1 \in DOMAIN bloqueados[f]
         /\ \A q \in Pid : MemoriaDe(q)' = MemoriaDe(q) /\ Contexto(q)' = Contexto(q) /\ (Vive(q)' <=> Vive(q))
         /\ \A q \in Pid \ {p} : Igual(q)
         /\ EsperandoDe(p)' = <<>>
         /\ f = "STDIN" => EsperandoDe(p) = <<>>
         /\ \A h \in Hilo \ {f} : pedido'[h] = pedido[h]
         /\ \A g \in Interfaz \ {f} : bloqueados'[g] = bloqueados[g]
         /\ pedido'[f] = Nada
  <1> DEFINE K == Len(bloqueados[f])
  <1>1. bloqueados[f] # <<>> /\ f \in Hilo
      BY Hilos DEF IInv, Pedidos
  <1>2. 1 \in DOMAIN bloqueados[f] /\ p \in Pid /\ estado[p] = "BLOCKED" /\ Head(bloqueados[f]) = bloqueados[f][1]
      BY <1>1, CabezaEs
  <1>3. /\ estado' = [estado EXCEPT ![p] = "READY"] /\ UNCHANGED pcb
        /\ bloqueados' = [bloqueados EXCEPT ![f] = Tail(@)]
        /\ pedido'[f] = Nada /\ \A h \in Hilo \ {f} : pedido'[h] = pedido[h]
      BY <1>1, <1>2 DEF Desbloquear, Pedir, IInv, Tipos
  <1>4. /\ \A g \in Interfaz \ {f} : bloqueados'[g] = bloqueados[g]
        /\ DOMAIN bloqueados[f] = 1 .. K /\ K \in Nat \ {0} /\ DOMAIN bloqueados'[f] = 1 .. K - 1
        /\ \A j \in 1 .. K - 1 : bloqueados'[f][j] = bloqueados[f][j + 1]
      BY <1>1, <1>3, SinCabeza
  <1>5. \A g \in Interfaz : \A k \in DOMAIN bloqueados[g] : bloqueados[g][k].pid = p => g = f /\ k = 1
      BY <1>2 DEF IInv, Colas
  <1>6. \A q \in Pid : MemoriaDe(q)' = MemoriaDe(q)
    <2>1. \A h \in Hilo : \A q \in Pid : /\ Escribe(h, q)' <=> Escribe(h, q)
                                         /\ Escribe(h, q) => pedido'[h] = pedido[h]
        BY <1>3, NadaEs DEF Escribe
    <2> QED BY <2>1, MemoriaIgual
  <1>7. \A q \in Pid : /\ Contexto(q)' = Contexto(q) /\ (Vive(q)' <=> Vive(q)) /\ (EnCamino(q)' <=> EnCamino(q))
                       /\ q # p => estado'[q] = estado[q]
      BY <1>2, <1>3 DEF Contexto, EnCpu, Vive, EnCamino, IInv, Tipos
  <1>8. ASSUME NEW q \in Pid \ {p} PROVE EsperandoDe(q)' = EsperandoDe(q)
    <2>1. CASE EnCamino(q)
        BY <2>1, EsperandoDeCamino
    <2>2. CASE ~EnCamino(q)
      <3>1. \A g \in Interfaz \ {f} : EnCola(q, g)' = EnCola(q, g)
          BY <1>3, <1>4, Hilos DEF EnCola
      <3>2. \A j \in EnCola(q, f) : j - 1 \in EnCola(q, f)' /\ bloqueados'[f][j - 1] = bloqueados[f][j]
        <4> SUFFICES ASSUME NEW j \in EnCola(q, f)
                     PROVE  j - 1 \in EnCola(q, f)' /\ bloqueados'[f][j - 1] = bloqueados[f][j]
            OBVIOUS
        <4>1. j \in 1 .. K /\ bloqueados[f][j].pid = q
            BY <1>4 DEF EnCola
        <4>2. j # 1
            BY <4>1
        <4>3. j - 1 \in 1 .. K - 1 /\ (j - 1) + 1 = j
            BY <1>4, <4>1, <4>2
        <4> QED BY <1>3, <1>4, <4>1, <4>3 DEF EnCola
      <3>3. \A k \in EnCola(q, f)' : k + 1 \in EnCola(q, f)
        <4> SUFFICES ASSUME NEW k \in EnCola(q, f)' PROVE k + 1 \in EnCola(q, f)
            OBVIOUS
        <4>1. k \in 1 .. K - 1 /\ bloqueados'[f][k].pid = q
            BY <1>4 DEF EnCola
        <4>2. k + 1 \in 1 .. K /\ k + 1 # 1
            BY <1>4, <4>1
        <4> QED BY <1>4, <4>1, <4>2 DEF EnCola
      <3>4. \A g \in Interfaz : \A j \in EnCola(q, g) : \E k \in EnCola(q, g)' : bloqueados'[g][k] = bloqueados[g][j]
          BY <1>4, <3>1, <3>2
      <3>5. \A g \in Interfaz : EnCola(q, g) = {} => EnCola(q, g)' = {}
          BY <3>1, <3>3
      <3> QED BY <1>7, <2>2, <3>4, <3>5, EsperandoSigue
    <2> QED BY <2>1, <2>2
  <1>9. ~EnCamino(p) /\ ~EnCamino(p)'
      BY <1>2, <1>7 DEF IInv, EnUnLugar
  <1>10. EsperandoDe(p)' = <<>>
    <2>1. estado'[p] # "BLOCKED"
        BY <1>2, <1>3 DEF IInv, Tipos
    <2> QED BY <1>2, <1>9, <2>1, SinEsperaPrima, FueraDeColasPrima
  <1>11. f = "STDIN" => EsperandoDe(p) = <<>>
    <2> SUFFICES ASSUME f = "STDIN" PROVE EsperandoDe(p) = <<>>
        OBVIOUS
    <2>1. \A g \in Interfaz : EnCola(p, g) = {}
        BY <1>5 DEF EnCola
    <2> QED BY <1>9, <2>1, SinEspera
  <1> QED BY <1>2, <1>3, <1>4, <1>6, <1>7, <1>8, <1>10, <1>11 DEF Igual

LEMMA FinDeTecladoSeVe == ASSUME RInv, IInv', FinDeTeclado PROVE SeVe
  <1>20. PICK p : p = bloqueados["STDIN"][1].pid
      OBVIOUS
  <1>1. /\ IInv /\ pedido["STDIN"] # Nada /\ pedido["STDIN"].size = 0 /\ Desbloquear("STDIN") /\ "STDIN" \in Interfaz
        /\ UNCHANGED <<codigo, espacio, tablas, regs, curso, a_kernel, mostrado>>
      BY Hilos DEF FinDeTeclado, Respondido, delaMemoria, RInv
  <1>2. /\ p \in Pid
        /\ \A q \in Pid : MemoriaDe(q)' = MemoriaDe(q) /\ Contexto(q)' = Contexto(q) /\ (Vive(q)' <=> Vive(q))
        /\ \A q \in Pid \ {p} : Igual(q)
        /\ EsperandoDe(p)' = <<>> /\ EsperandoDe(p) = <<>>
        /\ pedido'["CPU"] = pedido["CPU"] /\ pedido'["STDOUT"] = pedido["STDOUT"]
        /\ bloqueados'["STDOUT"] = bloqueados["STDOUT"]
      BY <1>1, <1>20, Hilos, DesbloquearEs
  <1>3. Visto
      BY <1>1, <1>2, SinVerse DEF Igual
  <1>4. EnCurso'
      BY <1>1, <1>2, EnCursoDe DEF RInv
  <1>5. Mostrando'
      BY <1>1, <1>2, MostrandoDe DEF RInv
  <1> QED BY <1>3, <1>4, <1>5 DEF SeVe

LEMMA MostrarTextoSeVe == ASSUME RInv, IInv', MostrarTexto PROVE SeVe
  <1>20. PICK p, b, q, l, n, v, c :
           /\ b = bloqueados["STDOUT"][1] /\ p = b.pid /\ q = pedido["STDOUT"] /\ l = Logica(p, b.df) /\ n = b.size
           /\ v = Contexto(p).val /\ c = Contexto(p).pc
      OBVIOUS
  <1>1. /\ IInv /\ q # Nada /\ q.size = 0 /\ "STDOUT" \in Interfaz /\ "STDOUT" \in Hilo
        /\ UNCHANGED <<codigo, espacio, tablas, regs, curso, a_kernel>>
      BY <1>20, Hilos DEF MostrarTexto, Respondido, delaMemoria, RInv
  <1>2. CASE UNCHANGED <<pedido, delKernel, mostrado>>
      BY <1>1, <1>2, QuietoSeVe DEF delKernel
  <1>3. ASSUME mostrado' = Texto(q.buffer), Desbloquear("STDOUT") PROVE SeVe
    <2>1. /\ bloqueados["STDOUT"] # <<>> /\ q.pid = p /\ q \in PedidoType /\ q.buffer \in Seq(Byte)
          /\ tablas \in [Pid -> Seq(Marco)] /\ MarcosUnicos
        BY <1>1, <1>20, DePedido DEF IInv, Pedidos, Tipos
    <2>2. p \in Pid /\ b.df \in Direccion /\ n \in Nat /\ EnPaginas(p, b.df, n)
        BY <1>1, <1>20, <2>1, CabezaEs
    <2>3. l \in Nat
        BY <1>20, <2>1, <2>2, EnPaginasLogica
    <2>4. LeidoDe(q, l, n)
        BY <1>1, <1>20 DEF RInv, Mostrando
    <2>5. l + n <= Len(MemoriaDe(p)) /\ SubSeq(MemoriaDe(p), l + 1, l + n) = q.buffer
        BY <1>1, <2>1, <2>2, <2>3, <2>4, LeidoEs
    <2>6. /\ 1 \in DOMAIN bloqueados["STDOUT"]
          /\ \A r \in Pid : MemoriaDe(r)' = MemoriaDe(r) /\ Contexto(r)' = Contexto(r) /\ (Vive(r)' <=> Vive(r))
          /\ \A r \in Pid \ {p} : Igual(r)
          /\ EsperandoDe(p)' = <<>> /\ pedido'["CPU"] = pedido["CPU"] /\ pedido'["STDOUT"] = Nada
        BY <1>1, <1>3, <1>20, Hilos, DesbloquearEs
    <2>7. EsperandoDe(p) = <<"IO_STDOUT_WRITE", l, n>>
      <3>1. 1 \in EnCola(p, "STDOUT")
          BY <1>20, <2>6 DEF EnCola
      <3> QED BY <1>1, <1>20, <2>2, <3>1, EsperaEnCola
    <2>8. /\ Registros' = [Registros EXCEPT ![p] = v] /\ Pcs' = [Pcs EXCEPT ![p] = c]
          /\ Memorias' = [Memorias EXCEPT ![p] = MemoriaDe(p)'] /\ Esperandos' = [Esperandos EXCEPT ![p] = <<>>]
        BY <1>20, <2>2, <2>6, CambiaUno
    <2>9. /\ Registros[p] = v /\ Pcs[p] = c /\ Memorias[p] = MemoriaDe(p) /\ Memorias[p] = MemoriaDe(p)'
          /\ Esperandos[p] = <<"IO_STDOUT_WRITE", l, n>>
        BY <1>20, <2>2, <2>6, <2>7 DEF Registros, Pcs, Memorias, Esperandos
    <2>10. Registros' = Registros /\ Pcs' = Pcs /\ Memorias' = Memorias
      <3>1. /\ [Registros EXCEPT ![p] = Registros[p]] = Registros /\ [Pcs EXCEPT ![p] = Pcs[p]] = Pcs
            /\ [Memorias EXCEPT ![p] = Memorias[p]] = Memorias
          BY DEF Registros, Pcs, Memorias
      <3> QED BY <2>8, <2>9, <3>1
    <2>11. Vivos' = Vivos
        BY <2>6 DEF Vivos, Vive
    <2>12. /\ l + n <= Len(Memorias[p]) /\ mostrado' = Maquinas!Texto(SubSeq(Memorias[p], l + 1, l + n))
        BY <1>3, <2>5, <2>9, TextoIgual
    <2>13. Maquinas!Salida(p)
      <3>1. Esperandos[p] # <<>> /\ Esperandos[p][1] = "IO_STDOUT_WRITE" /\ Esperandos[p][2] = l /\ Esperandos[p][3] = n
          BY <2>9
      <3> QED BY <2>8, <2>10, <2>11, <2>12, <3>1
             DEF Maquinas!Salida, Maquinas!EnRango, Maquinas!Leido, Maquinas!Nada, Registros, Pcs, Memorias, Esperandos, Vivos
    <2>14. Visto
        BY <1>1, <2>2, <2>13 DEF Maquinas!Next, Visto
    <2>15. EnCurso'
        BY <1>1, <2>6, EnCursoDe DEF RInv
    <2>16. Mostrando'
        BY <2>6 DEF Mostrando
    <2> QED BY <2>14, <2>15, <2>16 DEF SeVe
  <1> QED BY <1>2, <1>3, <1>20 DEF MostrarTexto

LEMMA PedirTextoSeVe == ASSUME RInv, IInv', PedirTexto PROVE SeVe
  <1>20. PICK b, p, l, n : b = bloqueados["STDOUT"][1] /\ p = b.pid /\ l = Logica(p, b.df) /\ n = b.size
      OBVIOUS
  <1>1. /\ IInv /\ bloqueados["STDOUT"] # <<>> /\ pedido["STDOUT"] = Nada /\ "STDOUT" \in Interfaz /\ "STDOUT" \in Hilo
        /\ "STDOUT" # "CPU" /\ "STDOUT" # "STDIN" /\ tablas \in [Pid -> Seq(Marco)] /\ MarcosUnicos
        /\ UNCHANGED <<codigo, espacio, tablas, regs, curso, pcb, estado, bloqueados, a_kernel, mostrado>>
      BY Hilos DEF PedirTexto, delaMemoria, delKernel, RInv, IInv, Tipos
  <1>2. p \in Pid /\ b.df \in Direccion /\ n \in Nat /\ EnPaginas(p, b.df, n) /\ Head(bloqueados["STDOUT"]) = b
      BY <1>1, <1>20, CabezaEs
  <1>3. l \in Nat /\ l + n <= Len(tablas[p]) * TamPag
      BY <1>1, <1>2, <1>20, EnPaginasLogica
  <1>4. pedido'["STDOUT"] = Lectura(p, b.df, n) /\ \A h \in Hilo \ {"STDOUT"} : pedido'[h] = pedido[h]
      BY <1>1, <1>2, <1>20 DEF PedirTexto, Pedir, IInv, Tipos
  <1>5. \A q \in Pid : MemoriaDe(q)' = MemoriaDe(q)
    <2>1. \A h \in Hilo : \A q \in Pid : /\ Escribe(h, q)' <=> Escribe(h, q)
                                         /\ Escribe(h, q) => pedido'[h] = pedido[h]
        BY <1>1, <1>4, NadaEs DEF Escribe, Lectura
    <2> QED BY <1>1, <2>1, MemoriaIgual
  <1>6. \A q \in Pid : EsperandoDe(q)' = EsperandoDe(q)
      BY <1>1, <1>4, Hilos, EsperandoIgual DEF EnCamino
  <1>7. \A q \in Pid : Contexto(q)' = Contexto(q) /\ (Vive(q)' <=> Vive(q))
      BY <1>1 DEF Contexto, EnCpu, Vive, EnCamino
  <1>8. Visto
      BY <1>1, <1>5, <1>6, <1>7, SinVerse DEF Igual
  <1>9. EnCurso'
      BY <1>1, <1>4, <1>5, Hilos, EnCursoDe DEF RInv
  <1>10. Mostrando'
    <2>1. LeidoDe(pedido["STDOUT"], l, n)'
        BY <1>1, <1>2, <1>3, <1>4, <1>20, LecturaSeVe
    <2>2. Logica(b.pid, b.df)' = l
        BY <1>1, <1>20 DEF Logica
    <2>3. bloqueados'["STDOUT"][1] = b
        BY <1>1, <1>20
    <2>4. Logica(bloqueados["STDOUT"][1].pid, bloqueados["STDOUT"][1].df)' = l
        BY <2>2, <2>3 DEF Logica
    <2> QED BY <1>20, <2>1, <2>3, <2>4 DEF Mostrando
  <1> QED BY <1>8, <1>9, <1>10 DEF SeVe

LEMMA LeerTecladoSeVe == ASSUME RInv, IInv', LeerTeclado PROVE SeVe
  <1>20. PICK b, p, l, n, v, c :
           /\ b = bloqueados["STDIN"][1] /\ p = b.pid /\ l = Logica(p, b.df) /\ n = b.size
           /\ v = Contexto(p).val /\ c = Contexto(p).pc
      OBVIOUS
  <1>1. /\ IInv /\ bloqueados["STDIN"] # <<>> /\ pedido["STDIN"] = Nada /\ "STDIN" \in Interfaz /\ "STDIN" \in Hilo
        /\ "STDIN" # "CPU" /\ "STDOUT" # "STDIN" /\ tablas \in [Pid -> Seq(Marco)] /\ MarcosUnicos
        /\ UNCHANGED <<codigo, espacio, tablas, regs, curso, pcb, estado, bloqueados, a_kernel, mostrado>>
      BY Hilos DEF LeerTeclado, delaMemoria, delKernel, RInv, IInv, Tipos
  <1>2. /\ p \in Pid /\ b.df \in Direccion /\ n \in Nat /\ EnPaginas(p, b.df, n) /\ Head(bloqueados["STDIN"]) = b
        /\ estado[p] = "BLOCKED" /\ 1 \in DOMAIN bloqueados["STDIN"]
      BY <1>1, <1>20, CabezaEs
  <1>3. l \in Nat /\ l + n <= Len(tablas[p]) * TamPag
      BY <1>1, <1>2, <1>20, EnPaginasLogica
  <1>4. CASE UNCHANGED pedido
      BY <1>1, <1>4, QuietoSeVe
  <1>5. ASSUME NEW texto \in BoundedSeq(Byte \ {0}, n), NEW s \in Copiables(texto, n),
               Pedir("STDIN", Escritura(p, b.df, s)), n > 0
        PROVE  SeVe
    <2>1. texto \in Seq(Byte) /\ Len(texto) <= n
      <3>1. PICK k \in 0 .. n : texto \in [1 .. k -> Byte \ {0}]
          BY <1>2, <1>5 DEF BoundedSeq, SeqOf
      <3> QED BY <1>2, <3>1
    <2>2. /\ s \in Seq(Byte) /\ Len(s) = n
          /\ \A j \in DOMAIN Maquinas!ConFin(texto, n) : j \in 1 .. Len(s) => s[j] = Maquinas!ConFin(texto, n)[j]
        BY <1>2, <1>5, <2>1, CopiableEs
    <2>3. /\ pedido'["STDIN"] = Escritura(p, b.df, s) /\ \A h \in Hilo \ {"STDIN"} : pedido'[h] = pedido[h]
          /\ pedido'["STDIN"] # Nada /\ pedido'["STDIN"].pid = p
      <3>1. pedido'["STDIN"] = Escritura(p, b.df, s) /\ \A h \in Hilo \ {"STDIN"} : pedido'[h] = pedido[h]
          BY <1>1, <1>5 DEF Pedir, IInv, Tipos
      <3> QED BY <1>2, <2>2, <3>1, PedidoEs DEF Escritura
    <2>4. \A g \in Hilo : ~Escribe(g, p)
        BY <1>1, <1>2, BloqueadoSinEscribir
    <2>5. \A q \in Pid \ {p} : MemoriaDe(q)' = MemoriaDe(q)
      <3>1. \A h \in Hilo : \A q \in Pid \ {p} : /\ Escribe(h, q)' <=> Escribe(h, q)
                                                 /\ Escribe(h, q) => pedido'[h] = pedido[h]
          BY <1>1, <2>3, NadaEs DEF Escribe
      <3> QED BY <1>1, <3>1, MemoriaIgual
    <2>6. Maquinas!EscritoDesde(p, l, Maquinas!ConFin(texto, n), n)
        BY <1>1, <1>2, <1>3, <1>5, <1>20, <2>2, <2>3, <2>4, <2>5, EscritoDesdeEs
    <2>7. \A q \in Pid : /\ Contexto(q)' = Contexto(q) /\ (Vive(q)' <=> Vive(q)) /\ (EnCamino(q)' <=> EnCamino(q))
        BY <1>1 DEF Contexto, EnCpu, Vive, EnCamino
    <2>8. \A g \in Interfaz : \A k \in DOMAIN bloqueados[g] : bloqueados[g][k].pid = p => g = "STDIN" /\ k = 1
        BY <1>1, <1>2, <1>20 DEF IInv, Colas
    <2>9. ASSUME NEW q \in Pid \ {p} PROVE Igual(q)
      <3>1. EsperandoDe(q)' = EsperandoDe(q)
        <4>1. CASE EnCamino(q)
            BY <1>1, <4>1, EsperandoDeCamino
        <4>2. CASE ~EnCamino(q)
          <5>1. \A g \in Interfaz : EnCola(q, g)' = EnCola(q, g)
            <6> SUFFICES ASSUME NEW g \in Interfaz PROVE EnCola(q, g)' = EnCola(q, g)
                OBVIOUS
            <6>1. CASE g = "STDIN"
                BY <1>1, <1>20, <6>1 DEF EnCola
            <6>2. CASE g # "STDIN"
                BY <1>1, <6>2 DEF EnCola
            <6> QED BY <6>1, <6>2
          <5> QED BY <1>1, <2>7, <4>2, <5>1, EsperandoSigue
        <4> QED BY <4>1, <4>2
      <3> QED BY <2>5, <2>7, <3>1 DEF Igual
    <2>10. ~EnCamino(p) /\ ~EnCamino(p)'
        BY <1>1, <1>2, <2>7 DEF IInv, EnUnLugar
    <2>11. EsperandoDe(p) = <<"IO_STDIN_READ", l, n>>
      <3>1. 1 \in EnCola(p, "STDIN")
          BY <1>1, <1>2, <1>20 DEF EnCola
      <3> QED BY <1>1, <1>2, <1>20, <3>1, EsperaEnCola
    <2>12. EsperandoDe(p)' = <<>>
      <3>1. \A g \in Interfaz : EnCola(p, g)' = {}
          BY <1>1, <2>3, <2>8 DEF EnCola
      <3> QED BY <2>10, <3>1, SinEsperaPrima
    <2>13. /\ Registros' = [Registros EXCEPT ![p] = v] /\ Pcs' = [Pcs EXCEPT ![p] = c]
           /\ Esperandos' = [Esperandos EXCEPT ![p] = <<>>]
        BY <1>2, <1>20, <2>7, <2>9, <2>12, CambiaUno
    <2>14. Registros[p] = v /\ Pcs[p] = c /\ Esperandos[p] = <<"IO_STDIN_READ", l, n>>
        BY <1>2, <1>20, <2>11 DEF Registros, Pcs, Esperandos
    <2>15. Registros' = Registros /\ Pcs' = Pcs
      <3>1. [Registros EXCEPT ![p] = Registros[p]] = Registros /\ [Pcs EXCEPT ![p] = Pcs[p]] = Pcs
          BY DEF Registros, Pcs
      <3> QED BY <2>13, <2>14, <3>1
    <2>16. Vivos' = Vivos
        BY <2>7 DEF Vivos, Vive
    <2>17. texto \in Maquinas!BoundedSeq(Maquinas!Byte \ {0}, n)
        BY <1>5, Iguales DEF BoundedSeq, SeqOf, Maquinas!BoundedSeq, Maquinas!SeqOf
    <2>18. Maquinas!Entrada(p)
      <3>1. Esperandos[p] # <<>> /\ Esperandos[p][1] = "IO_STDIN_READ" /\ Esperandos[p][2] = l /\ Esperandos[p][3] = n
          BY <2>14
      <3>2. \E t \in Maquinas!BoundedSeq(Maquinas!Byte \ {0}, Esperandos[p][3]) :
              Maquinas!EscritoDesde(p, Esperandos[p][2], Maquinas!ConFin(t, Esperandos[p][3]), Esperandos[p][3])
          BY <2>6, <2>17, <3>1
      <3> QED BY <1>1, <2>13, <2>15, <2>16, <3>1, <3>2
             DEF Maquinas!Entrada, Maquinas!Nada, Registros, Pcs, Memorias, Esperandos, Vivos
    <2>19. Visto
        BY <1>1, <1>2, <2>18 DEF Maquinas!Next, Visto
    <2>21. EnCurso'
      <3>1. ~EnCpu(p)
          BY <1>1, <1>2 DEF IInv, EnUnLugar
      <3> QED BY <1>1, <2>3, <2>5, <3>1, Hilos, EnCursoDe DEF RInv
    <2>22. Mostrando'
      <3> SUFFICES ASSUME pedido["STDOUT"] # Nada PROVE Mostrando'
          BY <1>1, <2>3, Hilos DEF Mostrando
      <3>1. PICK q \in Pid : q = bloqueados["STDOUT"][1].pid /\ q # p
        <4>1. "STDOUT" \in Interfaz /\ bloqueados["STDOUT"][1].pid \in Pid /\ 1 \in DOMAIN bloqueados["STDOUT"]
            BY <1>1, Hilos, CabezaEs DEF IInv, Pedidos
        <4> QED BY <1>1, <2>8, <4>1
      <3> QED BY <1>1, <2>3, <2>5, <3>1, Hilos, MostrandoSigue DEF RInv
    <2> QED BY <2>19, <2>21, <2>22 DEF SeVe
  <1>6. /\ n > 0
        /\ \/ UNCHANGED pedido
           \/ \E texto \in BoundedSeq(Byte \ {0}, n) : \E s \in Copiables(texto, n) : Pedir("STDIN", Escritura(p, b.df, s))
      BY <1>2, <1>20 DEF LeerTeclado
  <1> QED BY <1>4, <1>5, <1>6

-----------------------------------------------------------------------------
(***************************************************************************)
(* A piece of a request, as the machines see it                            *)
(***************************************************************************)
LEMMA SecuenciaEs ==
  ASSUME NEW n \in Nat, NEW S, NEW f \in [1 .. n -> S]
  PROVE  f \in Seq(S) /\ Len(f) = n
  BY SeqDef, LenProperties

LEMMA LeidoTramo ==
  ASSUME IInv, IInv', NEW h \in Hilo, LeerTramo(h), NEW l \in Nat, NEW n \in Nat, LeidoDe(pedido[h], l, n),
         NEW p \in Pid, p = pedido[h].pid, \A g \in Hilo : ~Escribe(g, p)
  PROVE  LeidoDe(pedido[h], l, n)'
  <1>20. PICK q, N, L, t : /\ q = pedido[h] /\ N = Tramo(q) /\ L = Len(q.buffer)
                           /\ t = [j \in 1 .. N |-> espacio[q.df + j - 1]]
      OBVIOUS
  <1>1. /\ UNCHANGED tablas /\ tablas \in [Pid -> Seq(Marco)] /\ MarcosUnicos /\ q.pid = p
        /\ q.df \in Direccion /\ q.size \in Nat \ {0} /\ q.buffer \in Seq(Byte) /\ EnPaginas(p, q.df, q.size)
        /\ N \in 1 .. q.size
      BY <1>20, PedidoDeTramo
  <1>2. PICK df \in Direccion :
          /\ pedido'[h].pid = p /\ pedido'[h].df = df
          /\ pedido'[h].size = q.size - N /\ pedido'[h].buffer = q.buffer \o t
          /\ q.size - N > 0 => Logica(p, df) = Logica(p, q.df) + N
    <2>1. PICK df \in Direccion : \E s :
            /\ pedido'[h].pid = pedido[h].pid /\ pedido'[h].df = df
            /\ pedido'[h].size = pedido[h].size - Tramo(pedido[h]) /\ pedido'[h].buffer = s
            /\ pedido'[h].size > 0 => Logica(pedido[h].pid, df) = Logica(pedido[h].pid, pedido[h].df) + Tramo(pedido[h])
            /\ s = pedido[h].buffer \o [j \in 1 .. Tramo(pedido[h]) |-> espacio[pedido[h].df + j - 1]]
      <3>1. \E df \in Direccion : \E s :
              /\ pedido'[h].op = pedido[h].op /\ pedido'[h].pid = pedido[h].pid /\ pedido'[h].df = df
              /\ pedido'[h].size = pedido[h].size - Tramo(pedido[h]) /\ pedido'[h].buffer = s
              /\ pedido'[h].size > 0 => Logica(pedido[h].pid, df) = Logica(pedido[h].pid, pedido[h].df) + Tramo(pedido[h])
              /\ LeerTramo(h) => s = pedido[h].buffer \o [j \in 1 .. Tramo(pedido[h]) |-> espacio[pedido[h].df + j - 1]]
              /\ EscribirTramo(h) => s = SubSeq(pedido[h].buffer, Tramo(pedido[h]) + 1, Len(pedido[h].buffer))
          BY PedidoDeTramo
      <3> QED BY <3>1
    <2> QED BY <1>1, <1>20, <2>1
  <1>3. /\ l + n <= Len(tablas[p]) * TamPag /\ L + q.size = n /\ Logica(p, q.df) = l + L
        /\ \A k \in DOMAIN q.buffer : q.buffer[k] = MemoriaDe(p)[l + k]
      BY <1>1, <1>20 DEF LeidoDe
  <1>4. L \in Nat /\ DOMAIN q.buffer = 1 .. L
      BY <1>1, <1>20, LenProperties
  <1>5. t \in Seq({t[j] : j \in 1 .. N}) /\ Len(t) = N /\ \A j \in 1 .. N : t[j] = espacio[q.df + j - 1]
    <2>1. N \in Nat /\ t = [j \in 1 .. N |-> espacio[q.df + j - 1]]
        BY <1>1, <1>20
    <2>2. \A j \in 1 .. N : t[j] = espacio[q.df + j - 1]
        BY <2>1
    <2> DEFINE S == {t[j] : j \in 1 .. N}
    <2>3. \A j \in 1 .. N : t[j] \in S
        OBVIOUS
    <2> HIDE DEF S
    <2>4. t \in [1 .. N -> S]
        BY <2>1, <2>3
    <2>5. t \in Seq(S) /\ Len(t) = N
        BY <2>1, <2>4, SecuenciaEs
    <2> QED BY <2>2, <2>5 DEF S
  <1>6. /\ Len(q.buffer \o t) = L + N /\ DOMAIN (q.buffer \o t) = 1 .. L + N
        /\ \A k \in 1 .. L + N : (q.buffer \o t)[k] = IF k <= L THEN q.buffer[k] ELSE t[k - L]
    <2> DEFINE S == Byte \cup {t[j] : j \in 1 .. N}
    <2>1. q.buffer \in Seq(S) /\ t \in Seq(S)
        BY <1>1, <1>5, SeqMonotonic
    <2> HIDE DEF S
    <2>2. /\ (q.buffer \o t) \in Seq(S) /\ Len(q.buffer \o t) = Len(q.buffer) + Len(t)
          /\ \A k \in 1 .. Len(q.buffer) + Len(t) :
               (q.buffer \o t)[k] = IF k <= Len(q.buffer) THEN q.buffer[k] ELSE t[k - Len(q.buffer)]
        BY <2>1, ConcatProperties
    <2> QED BY <1>5, <1>20, <2>2, LenProperties
  <1>7. MemoriaDe(p)' = MemoriaDe(p) /\ MemoriaDe(p) = [i \in Extension(p) |-> espacio[Fisica(p, i)]]
    <2>1. MemoriaDe(p)' = MemoriaDe(p)
        BY MemoriaTramo
    <2> QED BY <2>1, MemoriaSin
  <1>8. Len(tablas[p]) * TamPag \in Nat
      BY <1>1, EspacioOK, TablaSeq
  <1>9. ASSUME NEW k \in 1 .. L + N PROVE (q.buffer \o t)[k] = MemoriaDe(p)[l + k]
    <2>1. CASE k <= L
      <3>1. k \in DOMAIN q.buffer
          BY <1>4, <2>1
      <3>2. q.buffer[k] = MemoriaDe(p)[l + k]
          BY <1>3, <3>1
      <3>3. (q.buffer \o t)[k] = q.buffer[k]
          BY <1>6, <2>1
      <3> QED BY <3>2, <3>3
    <2>2. CASE ~(k <= L)
      <3>1. k - L \in 1 .. N /\ (k - L) - 1 \in 0 .. N - 1
          BY <1>1, <1>4, <2>2
      <3>2. l + k \in Extension(p)
          BY <1>1, <1>3, <1>4, <1>8, <3>1 DEF Extension
      <3>3. (l + k) - 1 = (l + L) + ((k - L) - 1)
          BY <1>4
      <3>4. Fisica(p, l + k) = q.df + ((k - L) - 1)
        <4>1. PICK i, d : i = l + k /\ d = (k - L) - 1
            OBVIOUS
        <4>2. i \in Extension(p) /\ d \in 0 .. Tramo(q) - 1 /\ i - 1 = Logica(p, q.df) + d
            BY <1>3, <1>20, <3>1, <3>2, <3>3, <4>1
        <4>3. Fisica(p, i) = q.df + d
            BY <1>1, <4>2, EnTramo
        <4> QED BY <4>1, <4>3
      <3>5. q.df + ((k - L) - 1) = q.df + (k - L) - 1
          BY <1>1, <1>4 DEF Direccion
      <3>6. (q.buffer \o t)[k] = espacio[q.df + (k - L) - 1]
          BY <1>5, <1>6, <2>2, <3>1
      <3> QED BY <1>7, <3>2, <3>4, <3>5, <3>6
    <2> QED BY <2>1, <2>2
  <1>10. \A d : Logica(p, d)' = Logica(p, d)
      BY <1>1 DEF Logica
  <1>11. Logica(pedido[h].pid, pedido[h].df)' = Logica(p, df)
    <2>1. Logica(pedido[h].pid, pedido[h].df)' = Logica(p, df)'
        BY <1>2 DEF Logica
    <2> QED BY <1>10, <2>1
  <1>12. /\ Len(pedido'[h].buffer) = L + N /\ (L + N) + (q.size - N) = n /\ (l + L) + N = l + (L + N)
      BY <1>1, <1>2, <1>3, <1>4, <1>6
  <1>13. /\ MemoriaDe(pedido[h].pid)' = MemoriaDe(p)' /\ Len(tablas'[pedido'[h].pid]) = Len(tablas[p])
      BY <1>1, <1>2
  <1> QED BY <1>2, <1>3, <1>6, <1>7, <1>9, <1>11, <1>12, <1>13 DEF LeidoDe

LEMMA TramoDeCPU ==
  ASSUME RInv, IInv', LeerTramo("CPU"), UNCHANGED <<codigo, curso, regs>>
  PROVE  EnCurso'
  <1>20. PICK p, q : p = regs.pid /\ q = pedido["CPU"]
      OBVIOUS
  <1>1. /\ IInv /\ Tipos /\ "CPU" \in Hilo /\ tablas' = tablas /\ q # Nada /\ q.op = "leer"
      BY <1>20, Hilos, PedidoDeTramo DEF RInv, IInv, LeerTramo
  <1>2. curso.en \in {"mov_in", "copiar"} /\ curso # Libre /\ q.pid = p
      BY <1>1, <1>20, CursoDe DEF IInv, Pedidos
  <1>3. p \in Pid /\ \A g \in Hilo : ~Escribe(g, p)
      BY <1>1, <1>2, <1>20, EnLaCPU
  <1>4. ASSUME NEW l \in Nat, NEW n \in Nat, LeidoDe(pedido["CPU"], l, n)
        PROVE  LeidoDe(pedido["CPU"], l, n)'
      BY <1>1, <1>2, <1>3, <1>4, <1>20, LeidoTramo
  <1>5. Actual' = Actual
      BY DEF Actual
  <1>6. EnCurso /\ \A r \in Registro : regs.val[r] \in Nat
      BY <1>1, <1>2, RegsEs DEF RInv
  <1>7. CASE curso.en = "mov_in"
    <2>1. PICK l, n : l = regs.val[Actual[3]] /\ n = TamReg[curso.reg]
        OBVIOUS
    <2>2. /\ regs.pc \in DOMAIN codigo[regs.pid]
          /\ Actual[1] = "MOV_IN" /\ Actual[2] = curso.reg /\ Actual[3] \in Registro
          /\ LeidoDe(pedido["CPU"], l, n)
        BY <1>6, <1>7, <2>1 DEF EnCurso
    <2>3. l \in Nat /\ n \in Nat
        BY <1>1, <1>6, <1>7, <2>1, <2>2, CursoDe, PalabraNat
    <2>4. LeidoDe(pedido["CPU"], l, n)'
        BY <1>4, <2>2, <2>3
    <2>5. regs.val'[Actual'[3]] = l /\ TamReg[curso.reg]' = n
        BY <1>5, <2>1
    <2> QED BY <1>5, <1>7, <2>2, <2>4, <2>5 DEF EnCurso
  <1>8. CASE curso.en = "copiar"
    <2>1. PICK l, n : l = regs.val["SI"] /\ n = curso.size
        OBVIOUS
    <2>2. /\ regs.pc \in DOMAIN codigo[regs.pid]
          /\ Actual[1] = "COPY_STRING" /\ Actual[2] = curso.size
          /\ Logica(regs.pid, curso.df) = regs.val["DI"]
          /\ LeidoDe(pedido["CPU"], l, n)
        BY <1>6, <1>8, <2>1 DEF EnCurso
    <2>3. l \in Nat /\ n \in Nat
        BY <1>1, <1>6, <1>8, <2>1, CursoDe, ProgramasOK
    <2>4. LeidoDe(pedido["CPU"], l, n)'
        BY <1>4, <2>2, <2>3
    <2>5. Logica(regs.pid, curso.df)' = Logica(regs.pid, curso.df)
        BY <1>1 DEF Logica
    <2> QED BY <1>5, <1>8, <2>1, <2>2, <2>4, <2>5 DEF EnCurso
  <1> QED BY <1>2, <1>7, <1>8

LEMMA TramoDeSalida ==
  ASSUME RInv, IInv', LeerTramo("STDOUT"), UNCHANGED bloqueados
  PROVE  Mostrando'
  <1>20. PICK b, p, l, n : b = bloqueados["STDOUT"][1] /\ p = b.pid /\ l = Logica(p, b.df) /\ n = b.size
      OBVIOUS
  <1>1. /\ IInv /\ Tipos /\ "STDOUT" \in Hilo /\ "STDOUT" \in Interfaz /\ tablas' = tablas /\ pedido["STDOUT"] # Nada
        /\ tablas \in [Pid -> Seq(Marco)] /\ MarcosUnicos
      BY Hilos, PedidoDeTramo DEF RInv, IInv
  <1>2. bloqueados["STDOUT"] # <<>> /\ pedido["STDOUT"].pid = p
      BY <1>1, <1>20 DEF IInv, Pedidos
  <1>3. /\ p \in Pid /\ b.df \in Direccion /\ n \in Nat /\ EnPaginas(p, b.df, n) /\ estado[p] = "BLOCKED"
        /\ 1 \in DOMAIN bloqueados["STDOUT"]
      BY <1>1, <1>2, <1>20, CabezaEs
  <1>4. l \in Nat
      BY <1>1, <1>3, <1>20, EnPaginasLogica
  <1>5. ASSUME NEW g \in Hilo PROVE ~Escribe(g, p)
    <2> SUFFICES ASSUME Escribe(g, p) PROVE FALSE
        OBVIOUS
    <2>1. pedido[g] # Nada /\ pedido[g].pid = p /\ pedido[g].op = "escribir"
        BY NadaEs DEF Escribe
    <2>2. CASE g = "CPU"
      <3>1. EnCpu(p)
          BY <1>1, <2>1, <2>2, CursoDe DEF IInv, Pedidos, EnCpu
      <3> QED BY <1>1, <1>3, <3>1 DEF IInv, EnUnLugar
    <2>3. CASE g = "STDIN"
      <3>1. bloqueados["STDIN"] # <<>> /\ bloqueados["STDIN"][1].pid = p /\ "STDIN" \in Interfaz
          BY <1>1, <2>1, <2>3, Hilos DEF IInv, Pedidos
      <3>2. 1 \in DOMAIN bloqueados["STDIN"]
          BY <1>1, <3>1, CabezaEs
      <3> QED BY <1>1, <1>3, <1>20, <3>1, <3>2 DEF IInv, Colas
    <2>4. CASE g = "STDOUT"
        BY <1>1, <2>1, <2>4 DEF IInv, Pedidos
    <2> QED BY <2>2, <2>3, <2>4, Hilos
  <1>6. LeidoDe(pedido["STDOUT"], l, n)
      BY <1>1, <1>20 DEF RInv, Mostrando
  <1>7. LeidoDe(pedido["STDOUT"], l, n)'
      BY <1>1, <1>2, <1>3, <1>4, <1>5, <1>6, LeidoTramo
  <1>8. bloqueados'["STDOUT"][1] = b
      BY <1>20
  <1>9. Logica(p, b.df)' = l
      BY <1>1, <1>20 DEF Logica
  <1>10. Logica(bloqueados["STDOUT"][1].pid, bloqueados["STDOUT"][1].df)' = l
      BY <1>8, <1>9, <1>20 DEF Logica
  <1> QED BY <1>7, <1>8, <1>10, <1>20 DEF Mostrando

\* A piece that is copied is seen by nobody.
LEMMA TramosSeVe == ASSUME RInv, IInv', Tramos PROVE SeVe
  <1>1. /\ IInv /\ Tipos
        /\ UNCHANGED <<codigo, regs, curso, pcb, estado, bloqueados, a_kernel, mostrado>>
      BY DEF Tramos, delKernel, RInv, IInv
  <1>2. PICK h \in Hilo : LeerTramo(h) \/ EscribirTramo(h)
      BY DEF Tramos
  <1>3. /\ tablas' = tablas /\ \A g \in Hilo \ {h} : pedido'[g] = pedido[g]
        /\ pedido[h] # Nada /\ pedido'[h].op = pedido[h].op /\ pedido[h].op \in {"leer", "escribir"}
      BY <1>1, <1>2, PedidoDeTramo, DePedido
  <1>4. pedido'[h] # Nada
      BY <1>3, NadaEs
  <1>5. \A q \in Pid : MemoriaDe(q)' = MemoriaDe(q)
      BY <1>1, <1>2, MemoriaTramo
  <1>6. pedido'["STDIN"] = Nada <=> pedido["STDIN"] = Nada
      BY <1>3, <1>4, Hilos
  <1>7. \A q \in Pid : EsperandoDe(q)' = EsperandoDe(q)
      BY <1>1, <1>3, <1>6, EsperandoIgual DEF EnCamino
  <1>8. \A q \in Pid : Contexto(q)' = Contexto(q) /\ (Vive(q)' <=> Vive(q))
      BY <1>1 DEF Contexto, EnCpu, Vive, EnCamino
  <1>9. Visto
      BY <1>1, <1>5, <1>7, <1>8, SinVerse DEF Igual
  <1>10. EnCurso'
    <2>1. CASE h # "CPU"
        BY <1>1, <1>3, <1>5, <2>1, Hilos, EnCursoDe DEF RInv
    <2>2. CASE h = "CPU" /\ LeerTramo(h)
        BY <1>1, <2>2, TramoDeCPU
    <2>3. CASE h = "CPU" /\ EscribirTramo(h)
      <3>1. pedido["CPU"].op = "escribir" /\ pedido["CPU"] # Nada
          BY <1>3, <2>3 DEF EscribirTramo
      <3>2. Pedidos
          BY <1>1 DEF IInv
      <3>3. curso.en = "escribir"
          BY <3>1, <3>2 DEF Pedidos
      <3> QED BY <1>1, <3>3, SinCurso
    <2> QED BY <1>2, <2>1, <2>2, <2>3
  <1>11. Mostrando'
    <2>1. CASE h # "STDOUT"
        BY <1>1, <1>3, <1>5, <2>1, Hilos, MostrandoDe DEF RInv
    <2>2. CASE h = "STDOUT"
      <3>3. Pedidos
          BY <1>1 DEF IInv
      <3>4. pedido[h].op = "leer"
          BY <1>3, <2>2, <3>3, Hilos DEF Pedidos
      <3>1. LeerTramo(h)
          BY <1>2, <3>4 DEF EscribirTramo
      <3> QED BY <1>1, <2>2, <3>1, TramoDeSalida
    <2> QED BY <2>1, <2>2
  <1> QED BY <1>9, <1>10, <1>11 DEF SeVe

-----------------------------------------------------------------------------
(***************************************************************************)
(* The system implements the machines.                                     *)
(***************************************************************************)
LEMMA InicioRInv == Disciplina /\ Init => RInv
  <1> SUFFICES ASSUME Disciplina, Init PROVE RInv
      OBVIOUS
  <1>1. IInv
      BY InicioIInv
  <1>2. EnCurso
      BY DEF Init, EnCurso, Libre
  <1>3. Mostrando
      BY Hilos DEF Init, Mostrando
  <1>4. FInv
      BY InicioFInv
  <1> QED BY <1>1, <1>2, <1>3, <1>4 DEF RInv

LEMMA InicioDeMaquinas == Init => Maquinas!Init
  <1> SUFFICES ASSUME Init PROVE Maquinas!Init
      OBVIOUS
  <1>1. IInv /\ curso = Libre /\ a_kernel = <<>> /\ mostrado = <<>>
      BY InicioIInv DEF Init
  <1>2. Registro = DOMAIN TamReg
      BY ProgramasOK
  <1>3. ASSUME NEW p \in Pid
        PROVE  /\ Contexto(p) = [pc |-> 0, val |-> [r \in Registro |-> 0]]
               /\ MemoriaDe(p) = <<>> /\ EsperandoDe(p) = <<>> /\ Vive(p)
    <2>1. ~EnCpu(p) /\ ~EnCamino(p) /\ pcb[p] = [pc |-> 0, val |-> [r \in Registro |-> 0]] /\ estado[p] = "READY"
        BY <1>1 DEF Init, EnCpu, EnCamino
    <2>2. Contexto(p) = pcb[p] /\ Vive(p)
        BY <2>1, EnReposo
    <2>3. \A f \in Interfaz : EnCola(p, f) = {}
        BY <1>1, <2>1, FueraDeColas
    <2>4. EsperandoDe(p) = <<>>
        BY <2>1, <2>3, SinEspera
    <2>5. tablas[p] = <<>>
        BY DEF Init, Tablas!Init
    <2>6. MemoriaDe(p) = <<>>
      <3>1. Len(MemoriaDe(p)) = Len(tablas[p]) * TamPag
          BY <1>1, MemoriaSeq DEF IInv, Tipos
      <3>2. Len(tablas[p]) * TamPag = 0
          BY <2>5, EspacioOK
      <3>3. MemoriaDe(p) \in Seq({MemoriaDe(p)[i] : i \in Extension(p)})
          BY <1>1, MemoriaSeq DEF IInv, Tipos
      <3>4. PICK S, m : m = MemoriaDe(p) /\ m \in Seq(S) /\ Len(m) = 0
          BY <3>1, <3>2, <3>3
      <3>5. m = <<>>
          BY <3>4, EmptySeq
      <3> QED BY <3>4, <3>5
    <2> QED BY <2>1, <2>2, <2>4, <2>6
  <1>4. Registros = [p \in Pid |-> [r \in DOMAIN TamReg |-> 0]] /\ Pcs = [p \in Pid |-> 0]
      BY <1>2, <1>3 DEF Registros, Pcs
  <1>5. Memorias = [p \in Pid |-> <<>>] /\ Esperandos = [p \in Pid |-> <<>>]
      BY <1>3 DEF Memorias, Esperandos
  <1>6. Vivos = [p \in Pid |-> TRUE]
      BY <1>3 DEF Vivos, Vive
  <1> QED BY <1>1, <1>4, <1>5, <1>6
          DEF Maquinas!Init, Maquinas!Nada, Maquinas!Registro, Registros, Pcs, Memorias, Esperandos, Vivos

LEMMA PasoSeVe == ASSUME RInv, [Next]_vars PROVE RInv' /\ [Maquinas!Next]_Maquinas!vars
  <1>1. IInv' /\ FInv'
      BY PasoIInv, PasoFInv DEF RInv
  <1>2. SeVe
    <2>1. CASE Ejecutar
        BY <1>1, <2>1, EjecutarSeVe
    <2>2. CASE check_interrupt
        BY <1>1, <2>2, CheckInterruptSeVe
    <2>3. CASE FinDeMovIn
        BY <1>1, <2>3, FinDeMovInSeVe
    <2>4. CASE CopiarTexto
        BY <1>1, <2>4, CopiarTextoSeVe
    <2>5. CASE FinDeEscribir
        BY <1>1, <2>5, FinDeEscribirSeVe
    <2>6. CASE PaginaDeResize
        BY <1>1, <2>6, PaginaDeResizeSeVe
    <2>7. CASE FinDeResize
        BY <1>1, <2>7, FinDeResizeSeVe
    <2>8. CASE AtenderContexto
        BY <1>1, <2>8, AtenderContextoSeVe
    <2>9. ASSUME NEW p \in Pid, Despachar(p) \/ Despertar(p) \/ Devolver(p)
          PROVE  SeVe
        BY <1>1, <2>9, DespacharSeVe, DespertarSeVe, DevolverSeVe
    <2>10. CASE LeerTeclado
        BY <1>1, <2>10, LeerTecladoSeVe
    <2>11. CASE PedirTexto
        BY <1>1, <2>11, PedirTextoSeVe
    <2>12. CASE FinDeTeclado
        BY <1>1, <2>12, FinDeTecladoSeVe
    <2>13. CASE MostrarTexto
        BY <1>1, <2>13, MostrarTextoSeVe
    <2>14. CASE Tramos
        BY <1>1, <2>14, TramosSeVe
    <2>15. CASE UNCHANGED vars
        BY <1>1, <2>15, QuietoSeVe DEF vars, delaMemoria, delKernel
    <2>16. CASE instruccion_copy_string
        BY <1>1, <2>16, InstruccionCopyStringSeVe
    <2> QED BY <2>1, <2>2, <2>3, <2>4, <2>5, <2>6, <2>7, <2>8, <2>9, <2>10, <2>11, <2>12, <2>13, <2>14, <2>15, <2>16
            DEF Next
  <1> QED BY <1>1, <1>2 DEF RInv, SeVe, Visto

\* Whatever is interleaved with it, a program that does not grow again after
\* it has shrunk gets what it would get from a machine of its own (Maquina):
\* its registers survive the packets, the dispatches and the interruptions,
\* nobody else writes in its memory, and an access of many pieces is one
\* (cpu/src/main.c, kernel/src/main.c, memoria/src/main.c and
\* entradasalida/src/main.c together).
THEOREM ProgramasImplementan == Disciplina => (Spec => Implementa)
  <1> SUFFICES ASSUME Disciplina PROVE Spec => Implementa
      OBVIOUS
  <1>1. Init => RInv /\ Maquinas!Init
      BY InicioRInv, InicioDeMaquinas
  <1>2. RInv /\ [Next]_vars => RInv' /\ [Maquinas!Next]_Maquinas!vars
      BY PasoSeVe
  <1> QED BY <1>1, <1>2, PTL DEF Spec, Implementa, Maquinas!Spec
=============================================================================
