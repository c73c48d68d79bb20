------------------------------- MODULE Maquina -------------------------------
(***************************************************************************)
(* The machine that every program believes it has to itself: its own       *)
(* registers, its own program counter and its own memory, a sequence of    *)
(* bytes that nobody else touches and in which an access is one step.      *)
(* Instructions come in the order of the program, from line 0.             *)
(***************************************************************************)
EXTENDS Integers, SequencesExt

CONSTANTS
  Pid,
  Base,       \* values of a byte
  TamPag,     \* the memory grows and shrinks by this many bytes
  TamReg      \* bytes of each register

VARIABLES
  codigo,     \* the program of each process
  registros, pc, memoria,
  esperando,  \* what the process asked of an interface, or Nada
  vive,       \* FALSE: it ended, or there was no memory for it
  mostrado    \* last text that an interface showed

vars == <<codigo, registros, pc, memoria, esperando, vive, mostrado>>

Nada == <<>>
Byte == 0 .. Base - 1
Registro == DOMAIN TamReg
Palabra(r) == Base ^ TamReg[r]

Numero(s) == FoldRight(LAMBDA b, v : b + Base * v, s, 0)
Bytes(v, n) == [i \in 1 .. n |-> (v \div Base ^ (i - 1)) % Base]

EnRango(p, dl, n) == dl + n <= Len(memoria[p])
Leido(p, dl, n) == SubSeq(memoria[p], dl + 1, dl + n)

\* The bytes s are written from dl on, and after them anything up to n.
EscritoDesde(p, dl, s, n) ==
  /\ EnRango(p, dl, n) /\ Len(memoria'[p]) = Len(memoria[p])
  /\ \A q \in Pid \ {p} : memoria'[q] = memoria[q]
  /\ \A i \in DOMAIN memoria[p] :
       IF i - dl \in 1 .. n
       THEN memoria'[p][i] \in Byte /\ (i - dl \in DOMAIN s => memoria'[p][i] = s[i - dl])
       ELSE memoria'[p][i] = memoria[p][i]

\* A text ends at its first zero, and is kept with one if there is room.
Texto(s) == LET fin == SelectInSeq(s, LAMBDA b : b = 0)
            IN IF fin = 0 THEN s ELSE SubSeq(s, 1, fin - 1)
ConFin(s, n) == IF Len(s) < n THEN Append(s, 0) ELSE s

Techo(n) == (n + TamPag - 1) \div TamPag

(***************************************************************************)
(* Instructions: i is the one at the program counter, the name followed by *)
(* its parameters.                                                         *)
(***************************************************************************)
Avanza(p) == pc' = [pc EXCEPT ![p] = @ + 1]
Queda(p, r, v) == registros' = [registros EXCEPT ![p][r] = v % Palabra(r)]
SinMemoria == UNCHANGED <<memoria, esperando, vive, mostrado>>

Set(p, i) ==
  /\ i[1] = "SET" /\ SinMemoria
  /\ IF i[2] = "PC" THEN pc' = [pc EXCEPT ![p] = i[3]] /\ UNCHANGED registros
     ELSE Queda(p, i[2], i[3]) /\ Avanza(p)

Sum(p, i) ==
  /\ i[1] = "SUM" /\ {i[2], i[3]} \subseteq Registro
  /\ Queda(p, i[2], registros[p][i[2]] + registros[p][i[3]])
  /\ Avanza(p) /\ SinMemoria

Sub(p, i) ==
  /\ i[1] = "SUB" /\ {i[2], i[3]} \subseteq Registro
  /\ Queda(p, i[2], registros[p][i[2]] - registros[p][i[3]])
  /\ Avanza(p) /\ SinMemoria

\* Lines are counted from 1.
Jnz(p, i) ==
  /\ i[1] = "JNZ" /\ UNCHANGED registros /\ SinMemoria
  /\ IF registros[p][i[2]] # 0 THEN pc' = [pc EXCEPT ![p] = i[3] - 1] ELSE Avanza(p)

MovIn(p, i) ==
  LET dl == registros[p][i[3]]
  IN /\ i[1] = "MOV_IN" /\ EnRango(p, dl, TamReg[i[2]])
     /\ Queda(p, i[2], Numero(Leido(p, dl, TamReg[i[2]])))
     /\ Avanza(p) /\ SinMemoria

MovOut(p, i) ==
  /\ i[1] = "MOV_OUT"
  /\ EscritoDesde(p, registros[p][i[2]], Bytes(registros[p][i[3]], TamReg[i[3]]), TamReg[i[3]])
  /\ Avanza(p) /\ UNCHANGED <<registros, esperando, vive, mostrado>>

CopyString(p, i) ==
  /\ i[1] = "COPY_STRING" /\ EnRango(p, registros[p]["SI"], i[2])
  /\ EscritoDesde(p, registros[p]["DI"],
                  ConFin(Texto(Leido(p, registros[p]["SI"], i[2])), i[2]), i[2])
  /\ Avanza(p) /\ UNCHANGED <<registros, esperando, vive, mostrado>>

\* RESIZE goes a page at a time: what the new bytes hold is not promised.
Redimensionar(p, i) ==
  LET n == Len(memoria[p])
      m == Techo(i[2]) * TamPag
  IN /\ i[1] = "RESIZE" /\ UNCHANGED <<registros, esperando, vive, mostrado>>
     /\ \/ n = m /\ Avanza(p) /\ UNCHANGED memoria
        \/ /\ n # m /\ UNCHANGED pc
           /\ Len(memoria'[p]) = IF n < m THEN n + TamPag ELSE n - TamPag
           /\ \A b \in DOMAIN memoria[p] \cap DOMAIN memoria'[p] : memoria'[p][b] = memoria[p][b]
           /\ \A q \in Pid \ {p} : memoria'[q] = memoria[q]

\* There is no memory for it.
Quedarse(p, i) ==
  /\ i[1] = "RESIZE" /\ Len(memoria[p]) < Techo(i[2]) * TamPag
  /\ vive' = [vive EXCEPT ![p] = FALSE]
  /\ Avanza(p) /\ UNCHANGED <<registros, memoria, esperando, mostrado>>

Pedir(p, i) ==
  /\ i[1] \in {"IO_STDIN_READ", "IO_STDOUT_WRITE"}
  /\ esperando' = [esperando EXCEPT ![p] = <<i[1], registros[p][i[3]], registros[p][i[4]]>>]
  /\ Avanza(p) /\ UNCHANGED <<registros, memoria, vive, mostrado>>

\* WAIT and SIGNAL only change what others may do, but for a WAIT of what
\* does not exist, which ends the process.
Recurso(p, i) ==
  /\ i[1] \in {"WAIT", "SIGNAL"} /\ Avanza(p) /\ UNCHANGED <<registros, memoria, esperando, mostrado>>
  /\ UNCHANGED vive \/ (i[1] = "WAIT" /\ vive' = [vive EXCEPT ![p] = FALSE])

Exit(p, i) ==
  /\ i[1] = "EXIT" /\ vive' = [vive EXCEPT ![p] = FALSE]
  /\ Avanza(p) /\ UNCHANGED <<registros, memoria, esperando, mostrado>>

Ejecutar(p) ==
  LET i == codigo[p][pc[p] + 1]
  IN /\ vive[p] /\ esperando[p] = Nada
     /\ \/ Set(p, i) \/ Sum(p, i) \/ Sub(p, i) \/ Jnz(p, i) \/ MovIn(p, i) \/ MovOut(p, i)
        \/ CopyString(p, i) \/ Redimensionar(p, i) \/ Quedarse(p, i)
        \/ Pedir(p, i) \/ Recurso(p, i) \/ Exit(p, i)

(***************************************************************************)
(* What happens to a process that is not executing                         *)
(***************************************************************************)
\* The text that was asked for comes in, cut to the length asked for,
Entrada(p) ==
  /\ esperando[p] # Nada /\ esperando[p][1] = "IO_STDIN_READ"
  /\ \E s \in BoundedSeq(Byte \ {0}, esperando[p][3]) :
       EscritoDesde(p, esperando[p][2], ConFin(s, esperando[p][3]), esperando[p][3])
  /\ esperando' = [esperando EXCEPT ![p] = Nada]
  /\ UNCHANGED <<registros, pc, vive, mostrado>>

\* or the text at the address given goes out.
Salida(p) ==
  /\ esperando[p] # Nada /\ esperando[p][1] = "IO_STDOUT_WRITE"
  /\ EnRango(p, esperando[p][2], esperando[p][3])
  /\ mostrado' = Texto(Leido(p, esperando[p][2], esperando[p][3]))
  /\ esperando' = [esperando EXCEPT ![p] = Nada]
  /\ UNCHANGED <<registros, pc, memoria, vive>>

Devolver(p) ==
  /\ ~vive[p] /\ memoria[p] # <<>>
  /\ memoria' = [memoria EXCEPT ![p] = SubSeq(@, 1, Len(@) - TamPag)]
  /\ UNCHANGED <<registros, pc, esperando, vive, mostrado>>

Init ==
  /\ registros = [p \in Pid |-> [r \in Registro |-> 0]]
  /\ pc = [p \in Pid |-> 0]
  /\ memoria = [p \in Pid |-> <<>>]
  /\ esperando = [p \in Pid |-> Nada]
  /\ vive = [p \in Pid |-> TRUE]
  /\ mostrado = <<>>

Next ==
  /\ \E p \in Pid : Ejecutar(p) \/ Entrada(p) \/ Salida(p) \/ Devolver(p)
  /\ UNCHANGED codigo

Spec == Init /\ [][Next]_vars
=============================================================================
