-------------------------- MODULE EspacioDeUsuario --------------------------
(***************************************************************************)
(* The user space of the memory module (memoria/src/main.c): the bytes of  *)
(* the frames, and the requests to read and write them that the CPU and    *)
(* the interfaces make, each served by a thread of its own.                *)
(*                                                                         *)
(* A request starts at a physical address and goes on, frame by frame, in  *)
(* the order of the process's page table.  Each piece is copied under the  *)
(* mutex, which is released between one and the next: a step is a piece    *)
(* and the search of the frame where the next one starts.                  *)
(***************************************************************************)
EXTENDS Integers, SequencesExt

CONSTANTS
  Pid,
  CantMarcos,   \* frames of the memory
  TamPag,       \* TAM_PAGINA, in bytes
  Base,         \* values of a byte (256)
  Hilo          \* threads that serve requests

ASSUME EspacioOK ==
  /\ CantMarcos \in Nat \ {0} /\ TamPag \in Nat \ {0}
  /\ Base \in Nat \ {0, 1}

Marco == 0 .. CantMarcos - 1
Byte == 0 .. Base - 1
Direccion == 0 .. CantMarcos * TamPag - 1

VARIABLES
  espacio,            \* espacio_memoria
  tablas, resultado,  \* the page tables, as TablasDePaginas promises them
  pedido              \* of each thread, the request that it serves

Tablas == INSTANCE TablasDePaginas

(***************************************************************************)
(* A request: what is left of it is size bytes from df on.  buffer is what *)
(* was read so far, or what is still to be written.                        *)
(***************************************************************************)
Nada == [op |-> "nada"]
Lectura(p, df, n) == [op |-> "leer", pid |-> p, df |-> df, size |-> n, buffer |-> <<>>]
Escritura(p, df, s) == [op |-> "escribir", pid |-> p, df |-> df, size |-> Len(s), buffer |-> s]

PedidoType ==
  {Nada} \cup [op: {"leer", "escribir"}, pid: Pid, df: Direccion, size: Nat, buffer: Seq(Byte)]

\* Numbers are kept with their least significant byte first.
Bytes(v, n) == [i \in 1 .. n |-> (v \div Base ^ (i - 1)) % Base]
Numero(s) == FoldRight(LAMBDA b, v : b + Base * v, s, 0)

MarcoDe(df) == df \div TamPag

\* Where the tables have the logical address dl of p.
DireccionDe(p, dl) == (tablas[p][dl \div TamPag + 1] * TamPag) + (dl % TamPag)

\* Mutant: frames are taken to be one after the other.
SiguienteContiguo(p, m) == {(m + 1) % CantMarcos}

\* What conseguir_siguiente_marco may return: the frame of the next page.
\* The row after the last holds what a shrinking left, or what malloc did.
conseguir_siguiente_marco(p, m) ==
  LET i == {j \in DOMAIN tablas[p] : tablas[p][j] = m /\ j < Len(tablas[p])}
  IN IF i = {} THEN Marco ELSE {tablas[p][j + 1] : j \in i}

Tramo(q) ==
  LET memoria_disponible == (MarcoDe(q.df) + 1) * TamPag - q.df
  IN IF memoria_disponible >= q.size THEN q.size ELSE memoria_disponible

\* Where the request goes on after n bytes.
Sigue(q, n) ==
  IF n = q.size THEN {q.df}
  ELSE {m * TamPag : m \in conseguir_siguiente_marco(q.pid, MarcoDe(q.df))}

LeerTramo(h) ==
  LET q == pedido[h]
      n == Tramo(q)
  IN /\ q.op = "leer" /\ q.size > 0
     /\ \E df \in Sigue(q, n) :
          pedido' = [pedido EXCEPT ![h] =
            [q EXCEPT !.df = df, !.size = @ - n,
                      !.buffer = @ \o [j \in 1 .. n |-> espacio[q.df + j - 1]]]]
     /\ UNCHANGED <<espacio, tablas, resultado>>

\* Mutant: what was written is not skipped.
EscribirSinAvanzar(h) ==
  LET q == pedido[h]
      n == Tramo(q)
  IN /\ q.op = "escribir" /\ q.size > 0
     /\ espacio' = [d \in Direccion |-> IF d - q.df \in 0 .. n - 1 THEN q.buffer[d - q.df + 1] ELSE espacio[d]]
     /\ \E df \in Sigue(q, n) : pedido' = [pedido EXCEPT ![h] = [q EXCEPT !.df = df, !.size = @ - n]]
     /\ UNCHANGED <<tablas, resultado>>

EscribirTramo(h) ==
  LET q == pedido[h]
      n == Tramo(q)
  IN /\ q.op = "escribir" /\ q.size > 0
     /\ espacio' = [d \in Direccion |->
                      IF d - q.df \in 0 .. n - 1 THEN q.buffer[d - q.df + 1] ELSE espacio[d]]
     /\ \E df \in Sigue(q, n) :
          pedido' = [pedido EXCEPT ![h] =
            [q EXCEPT !.df = df, !.size = @ - n, !.buffer = SubSeq(@, n + 1, Len(@))]]
     /\ UNCHANGED <<tablas, resultado>>

-----------------------------------------------------------------------------
(***************************************************************************)
(* The flat memory that a process sees: the bytes of its pages in order,   *)
(* with what is left of a request to write already written.                *)
(***************************************************************************)
Fisica(p, i) == DireccionDe(p, i - 1)

\* Place of the physical address df among the bytes of p.
Logica(p, df) ==
  (((CHOOSE j \in DOMAIN tablas[p] : tablas[p][j] = MarcoDe(df)) - 1) * TamPag) + (df % TamPag)

Pendiente(p, i) ==
  {h \in Hilo : /\ pedido[h].op = "escribir" /\ pedido[h].pid = p /\ pedido[h].size > 0
                /\ i - Logica(p, pedido[h].df) \in 1 .. pedido[h].size}

MemoriaDe(p) ==
  [i \in 1 .. Len(tablas[p]) * TamPag |->
     IF Pendiente(p, i) = {} THEN espacio[Fisica(p, i)]
     ELSE LET q == pedido[CHOOSE h \in Pendiente(p, i) : TRUE]
          IN q.buffer[i - Logica(p, q.df)]]
=============================================================================
