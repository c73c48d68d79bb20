------------------------------ MODULE Programas ------------------------------
(***************************************************************************)
(* Programs that run on the whole system: the CPU executes one process at  *)
(* a time (cpu/src/main.c), its context goes to and from the kernel in     *)
(* packets whose fields are told by their place (utils: pcb.c and          *)
(* registros.c), the memory keeps the bytes, and interfaces (entradasalida *)
(* /src/main.c) read and write them while other processes execute.         *)
(*                                                                         *)
(* The CPU translates addresses with a cache that nobody tells of what     *)
(* RESIZE does: CacheDeMarcos, which Tlb implements.                       *)
(*                                                                         *)
(* The addresses that programs use are within their pages, no process is   *)
(* killed, and the scheduler is any: which process goes first, and when it *)
(* is interrupted, is in Planificador.                                     *)
(***************************************************************************)
EXTENDS EspacioDeUsuario

CONSTANTS
  Orden,       \* registers, in the order in which they go in a packet
  TamReg,      \* bytes of each of them
  TamInt,      \* sizeof(uint32_t)
  Programas,   \* of each process, the files that it may be started with
  Entradas, Algoritmos,   \* tlb_size, ALGORITMO_TLB
  Disciplina   \* TRUE: no program grows again after it has shrunk

Interfaz == Hilo \ {"CPU"}
Registro == ToSet(Orden)
Lugar(r) == CHOOSE j \in DOMAIN Orden : Orden[j] = r

ASSUME ProgramasOK ==
  /\ Interfaz = {"STDIN", "STDOUT"} /\ "CPU" \in Hilo
  /\ Orden \in Seq(STRING)
  /\ TamInt \in Nat \ {0} /\ TamReg \in [Registro -> {1, TamInt}]
  /\ {"SI", "DI"} \subseteq Registro /\ "PC" \notin Registro
  /\ Entradas \in Nat /\ Disciplina \in BOOLEAN

\* The lines that these programs have, split in words: a jump is to a line,
\* which are counted from 1, and an interface is asked for what it does.  The
\* others that decode and execute know, IO_GEN_SLEEP and the five IO_FS_*,
\* are for interfaces that are not here.
Nombre == Registro \cup {"PC"}
Linea ==
  ({"SET"} \X Nombre \X Nat) \cup ({"JNZ"} \X Nombre \X (Nat \ {0}))
    \cup ({"SUM", "SUB", "MOV_IN", "MOV_OUT"} \X Nombre \X Nombre)
    \cup ({"RESIZE", "COPY_STRING"} \X Nat) \cup ({"WAIT", "SIGNAL"} \X STRING) \cup {<<"EXIT">>}
    \cup ({"IO_STDIN_READ"} \X {"STDIN"} \X Nombre \X Nombre)
    \cup ({"IO_STDOUT_WRITE"} \X {"STDOUT"} \X Nombre \X Nombre)

ASSUME LineasOK == DOMAIN Programas = Pid /\ \A p \in Pid : Programas[p] \subseteq Seq(Linea)

\* Arithmetic of ^, of which the provers know nothing.
ASSUME PotenciasOK == \A n \in 0 .. TamInt : Base ^ n \in Nat \ {0}

(***************************************************************************)
(* codigo     lineas_de_codigo of each process, split in words             *)
(* regs       registros of the CPU: pid, pc and values                     *)
(* curso      what the CPU is at: "libre", "fetch", "check" or, within an  *)
(*            instruction, what it waits for and the locals it needs then  *)
(* algoritmo, cola, traducido   the TLB, as CacheDeMarcos promises it      *)
(* achicado   a history: processes that have given pages back              *)
(* pcb        pc and registers of each process in the kernel               *)
(* estado     its state there                                              *)
(* a_kernel   the context on its way to the kernel, or <<>>                *)
(* bloqueados cola_bloqueados of each interface, with df and size          *)
(* mostrado   last text that STDOUT logged                                 *)
(* caido      a module has fallen: what comes after is not modelled        *)
(***************************************************************************)
VARIABLES codigo, regs, curso, algoritmo, cola, traducido, achicado,
          pcb, estado, a_kernel, bloqueados, mostrado, caido

MMU == INSTANCE CacheDeMarcos WITH Clave <- Pid \X Nat

delaMMU == <<algoritmo, cola, traducido, achicado>>
delKernel == <<pcb, estado, bloqueados>>
delaMemoria == <<espacio, tablas, resultado>>
vars == <<delaMemoria, delaMMU, pedido, codigo, regs, curso, delKernel, a_kernel, mostrado, caido>>

Estado == {"READY", "RUNNING", "BLOCKED", "EXIT"}

\* The CPU writes the registers at each dispatch: what is left in them when
\* it is free is not kept.
Libre == [en |-> "libre"]
RegsLibres == [pid |-> 0, pc |-> 0, val |-> [r \in Registro |-> 0]]
Palabra(r) == Base ^ TamReg[r]

-----------------------------------------------------------------------------
(***************************************************************************)
(* Packets                                                                 *)
(***************************************************************************)
Valores(val) == [j \in DOMAIN Orden |-> val[Orden[j]]]

\* The third and fourth fields, quantum and state, are not for the CPU.
empaquetar_pcb(p) == <<p, pcb[p].pc, "quantum", estado[p]>> \o Valores(pcb[p].val)

desempaquetar_pcb_a_registros(l) ==
  [pid |-> l[1], pc |-> l[2], val |-> [r \in Registro |-> l[Lugar(r) + 4]]]

empaquetar_registros(rs, motivo) == <<rs.pid, rs.pc>> \o Valores(rs.val) \o <<motivo>>

\* Mutant: the registers are looked for one place before theirs.
actualizar_corrido(l) == [pc |-> l[2], val |-> [r \in Registro |-> l[Lugar(r) + 1]]]

actualizar_pcb(l) == [pc |-> l[2], val |-> [r \in Registro |-> l[Lugar(r) + 2]]]

Motivo(l) == l[Len(Orden) + 3]
Dato(l, n) == l[Len(Orden) + 3 + n]

\* An element of 1 or TamInt bytes is sent as the number itself, so a text
\* of that size, with its zero, arrives as half of a pointer.
LlegaTexto(s) == Len(s) + 1 \notin {1, TamInt}

\* A text ends at its first zero.
Texto(s) == LET fin == SelectInSeq(s, LAMBDA b : b = 0)
            IN IF fin = 0 THEN s ELSE SubSeq(s, 1, fin - 1)

\* n bytes are copied from the text, its zero and whatever follows them.
Copiables(s, n) ==
  {b \in [1 .. n -> Byte] : /\ \A j \in 1 .. n : j \in DOMAIN s => b[j] = s[j]
                            /\ Len(s) < n => b[Len(s) + 1] = 0}

-----------------------------------------------------------------------------
(***************************************************************************)
(* Instructions.  A step is the whole of fetch, decode and execute, up to  *)
(* the first thing that the CPU waits for.                                 *)
(***************************************************************************)
Pedir(h, q) == pedido' = [pedido EXCEPT ![h] = q]
Seguir(c) == curso' = c /\ UNCHANGED <<codigo, delKernel, mostrado>>
Dentro(p, dl, n) == dl + n <= Len(tablas[p]) * TamPag /\ dl < Len(tablas[p]) * TamPag
Techo(n) == (n + TamPag - 1) \div TamPag

\* asignarValoresIntEnRegistros
Asignado(r, v) == IF r = "PC" THEN [regs EXCEPT !.pc = v]
                  ELSE [regs EXCEPT !.pc = @ + 1, !.val[r] = v % Palabra(r)]
Avanzado == [regs EXCEPT !.pc = @ + 1]

\* After the last line is the NULL that ends the array.
HayInstruccion == regs.pc + 1 \in DOMAIN codigo[regs.pid]
Instruccion == codigo[regs.pid][regs.pc + 1]

\* Registers whose value or size an instruction asks for.
Consultados(i) ==
  CASE i[1] \in {"SUM", "SUB", "MOV_IN", "MOV_OUT"}         -> {i[2], i[3]}
    [] i[1] = "JNZ"                                         -> {i[2]}
    [] i[1] \in {"IO_STDIN_READ", "IO_STDOUT_WRITE"}        -> {i[3], i[4]}
    [] OTHER                                                -> {}

\* SET, SUM, SUB and JNZ only change registers.
EnRegistros(i) ==
  /\ \/ i[1] = "SET" /\ regs' = Asignado(i[2], i[3])
     \/ i[1] = "SUM" /\ regs' = Asignado(i[2], regs.val[i[3]] + regs.val[i[2]])
     \/ i[1] = "SUB" /\ regs' = Asignado(i[2], regs.val[i[2]] - regs.val[i[3]])
     \/ i[1] = "JNZ" /\ regs' = IF regs.val[i[2]] # 0 THEN [regs EXCEPT !.pc = i[3] - 1] ELSE Avanzado
  /\ Seguir([en |-> "check"])
  /\ UNCHANGED <<delaMemoria, delaMMU, pedido, a_kernel, caido>>

\* Mutant: a row is of any process.
conseguir_marco_de_cualquiera(p, dl) ==
  LET c == <<p, dl \div TamPag>>
      hay == {j \in DOMAIN cola : cola[j].clave[2] = c[2]}
  IN /\ IF hay # {} THEN traducido' = cola[CHOOSE j \in hay : TRUE].marco /\ UNCHANGED cola
        ELSE MMU!Fallo(c, tablas[p][dl \div TamPag + 1])
     /\ UNCHANGED <<algoritmo, achicado>>

\* The frame of the page of dl, from the TLB or, if it is not there, from
\* the memory; then the physical address.
conseguir_marco(p, dl) ==
  LET c == <<p, dl \div TamPag>>
  IN /\ MMU!Acierto(c) \/ MMU!Fallo(c, tablas[p][dl \div TamPag + 1])
     /\ UNCHANGED <<algoritmo, achicado>>
componente_mmu(dl) == (traducido' * TamPag) + (dl % TamPag)

instruccion_mov_in(i) ==
  LET dl == regs.val[i[3]]
  IN /\ i[1] = "MOV_IN" /\ Dentro(regs.pid, dl, TamReg[i[2]])
     /\ conseguir_marco(regs.pid, dl)
     /\ Pedir("CPU", Lectura(regs.pid, componente_mmu(dl), TamReg[i[2]]))
     /\ regs' = Avanzado /\ Seguir([en |-> "mov_in", reg |-> i[2]])
     /\ UNCHANGED <<delaMemoria, a_kernel, caido>>

instruccion_mov_out(i) ==
  LET dl == regs.val[i[2]]
  IN /\ i[1] = "MOV_OUT" /\ Dentro(regs.pid, dl, TamReg[i[3]])
     /\ conseguir_marco(regs.pid, dl)
     /\ Pedir("CPU", Escritura(regs.pid, componente_mmu(dl), Bytes(regs.val[i[3]], TamReg[i[3]])))
     /\ regs' = Avanzado /\ Seguir([en |-> "escribir"])
     /\ UNCHANGED <<delaMemoria, a_kernel, caido>>

\* decode translates SI, and then DI.
decode_copy_string(i) ==
  LET si == regs.val["SI"]
  IN /\ i[1] = "COPY_STRING" /\ Dentro(regs.pid, si, i[2]) /\ Dentro(regs.pid, regs.val["DI"], i[2])
     /\ conseguir_marco(regs.pid, si) /\ Seguir([en |-> "decode", df |-> componente_mmu(si)])
     /\ UNCHANGED <<delaMemoria, pedido, regs, a_kernel, caido>>

instruccion_copy_string ==
  LET n == Instruccion[2]
      di == regs.val["DI"]
  IN /\ ~caido /\ curso.en = "decode"
     /\ conseguir_marco(regs.pid, di)
     /\ Pedir("CPU", Lectura(regs.pid, curso.df, n))
     /\ regs' = Avanzado
     /\ Seguir([en |-> "copiar", df |-> componente_mmu(di), size |-> n])
     /\ UNCHANGED <<delaMemoria, a_kernel, caido>>

instruccion_resize(i) ==
  /\ i[1] = "RESIZE"
  /\ Disciplina => regs.pid \notin achicado \/ Techo(i[2]) <= Len(tablas[regs.pid])
  /\ regs' = Avanzado /\ Seguir([en |-> "resize", paginas |-> Techo(i[2])])
  /\ UNCHANGED <<delaMemoria, delaMMU, pedido, a_kernel, caido>>

\* The instruction ends with the context on its way to the kernel.
enviar_pcb(rs, motivo, datos) == a_kernel' = empaquetar_registros(rs, motivo) \o datos

\* instruccion_io_stdin_read and instruccion_io_stdout_write
instruccion_io(i) ==
  LET dl == regs.val[i[3]]
  IN /\ i[1] \in {"IO_STDIN_READ", "IO_STDOUT_WRITE"} /\ Dentro(regs.pid, dl, regs.val[i[4]])
     /\ conseguir_marco(regs.pid, dl)
     /\ enviar_pcb(Avanzado, i[1], <<i[2], componente_mmu(dl), regs.val[i[4]]>>)
     /\ regs' = RegsLibres /\ Seguir(Libre)
     /\ UNCHANGED <<delaMemoria, pedido, caido>>

instruccion_exit(i) ==
  /\ i[1] = "EXIT" /\ enviar_pcb(Avanzado, "EXIT", <<>>)
  /\ regs' = RegsLibres /\ Seguir(Libre)
  /\ UNCHANGED <<delaMemoria, delaMMU, pedido, caido>>

\* instruccion_wait and instruccion_signal: the CPU keeps its registers while
\* it waits for the kernel.
instruccion_wait(i) ==
  /\ i[1] \in {"WAIT", "SIGNAL"} /\ enviar_pcb(Avanzado, i[1], <<i[2]>>)
  /\ regs' = Avanzado /\ Seguir([en |-> "wait"])
  /\ UNCHANGED <<delaMemoria, delaMMU, pedido, caido>>

Ejecutar ==
  /\ ~caido /\ curso.en = "fetch"
  /\ IF HayInstruccion /\ Consultados(Instruccion) \subseteq Registro
     THEN \/ EnRegistros(Instruccion) \/ instruccion_mov_in(Instruccion) \/ instruccion_mov_out(Instruccion)
          \/ decode_copy_string(Instruccion) \/ instruccion_resize(Instruccion)
          \/ instruccion_io(Instruccion) \/ instruccion_wait(Instruccion) \/ instruccion_exit(Instruccion)
     ELSE /\ caido' = TRUE
          /\ UNCHANGED <<delaMemoria, delaMMU, pedido, codigo, regs, curso, delKernel, a_kernel, mostrado>>

\* check_interrupt: the interruption came during the instruction, or not.
check_interrupt ==
  /\ ~caido /\ curso.en = "check"
  /\ \/ UNCHANGED <<regs, a_kernel>> /\ Seguir([en |-> "fetch"])
     \/ enviar_pcb(regs, "INTERRUPCION", <<>>) /\ regs' = RegsLibres /\ Seguir(Libre)
  /\ UNCHANGED <<delaMemoria, delaMMU, pedido, caido>>

(***************************************************************************)
(* Answers that the CPU waits for                                          *)
(***************************************************************************)
Respondido(h) == pedido[h] # Nada /\ pedido[h].size = 0

FinDeMovIn ==
  /\ ~caido /\ curso.en = "mov_in" /\ Respondido("CPU")
  /\ regs' = [regs EXCEPT !.val[curso.reg] = Numero(pedido["CPU"].buffer) % Palabra(curso.reg)]
  /\ Pedir("CPU", Nada) /\ Seguir([en |-> "check"])
  /\ UNCHANGED <<delaMemoria, delaMMU, a_kernel, caido>>

\* instruccion_copy_string goes on with the text that it read.
CopiarTexto ==
  LET texto == Texto(pedido["CPU"].buffer)
  IN /\ ~caido /\ curso.en = "copiar" /\ Respondido("CPU")
     /\ \/ /\ LlegaTexto(texto) /\ UNCHANGED caido
           /\ \E s \in Copiables(texto, curso.size) : Pedir("CPU", Escritura(regs.pid, curso.df, s))
           /\ Seguir([en |-> "escribir"])
        \/ /\ ~LlegaTexto(texto) /\ caido' = TRUE
           /\ Seguir(curso) /\ UNCHANGED pedido
     /\ UNCHANGED <<delaMemoria, delaMMU, regs, a_kernel>>

FinDeEscribir ==
  /\ ~caido /\ curso.en = "escribir" /\ Respondido("CPU")
  /\ Pedir("CPU", Nada) /\ Seguir([en |-> "check"])
  /\ UNCHANGED <<delaMemoria, delaMMU, regs, a_kernel, caido>>

PaginaDeResize ==
  LET p == regs.pid
  IN /\ ~caido /\ curso.en = "resize"
     /\ \/ Len(tablas[p]) < curso.paginas /\ Tablas!Ampliar(p) /\ UNCHANGED achicado
        \/ Len(tablas[p]) > curso.paginas /\ Tablas!Reducir(p) /\ achicado' = achicado \cup {p}
     /\ UNCHANGED <<espacio, algoritmo, cola, traducido, pedido, codigo, regs, curso, delKernel, a_kernel, mostrado, caido>>

\* The search for a frame fails when all are taken, or when one that it had
\* passed by has been freed since, of a process that is being destroyed.
SinMarcos == Tablas!Asignados = Marco \/ \E q \in Pid : estado[q] = "EXIT"

FinDeResize ==
  LET p == regs.pid
  IN /\ ~caido /\ curso.en = "resize"
     /\ \/ /\ Len(tablas[p]) = curso.paginas /\ Tablas!Contestar(0)
           /\ Seguir([en |-> "check"]) /\ UNCHANGED <<regs, a_kernel>>
        \/ /\ Len(tablas[p]) < curso.paginas /\ SinMarcos /\ resultado' = 1 /\ UNCHANGED tablas
           /\ enviar_pcb(regs, "OUT_OF_MEMORY", <<>>)
           /\ regs' = RegsLibres /\ Seguir(Libre)
     /\ UNCHANGED <<espacio, delaMMU, pedido, caido>>

-----------------------------------------------------------------------------
(***************************************************************************)
(* Kernel                                                                  *)
(***************************************************************************)
Despachar(p) ==
  /\ ~caido /\ curso = Libre /\ a_kernel = <<>> /\ estado[p] = "READY"
  /\ estado' = [estado EXCEPT ![p] = "RUNNING"]
  /\ regs' = desempaquetar_pcb_a_registros(empaquetar_pcb(p))
  /\ curso' = [en |-> "fetch"]
  /\ UNCHANGED <<delaMemoria, delaMMU, pedido, codigo, pcb, a_kernel, bloqueados, mostrado, caido>>

\* atender_respuesta_proceso.  The answer to WAIT is the resource, or that
\* the process leaves the CPU: blocked, or finished if there is no such
\* resource.  SIGNAL of one that does not exist is never answered.
AtenderContexto ==
  LET p == a_kernel[1]
      m == Motivo(a_kernel)
      Queda(e) == estado' = [estado EXCEPT ![p] = e]
  IN /\ ~caido /\ a_kernel # <<>>
     /\ pcb' = [pcb EXCEPT ![p] = actualizar_pcb(a_kernel)]
     /\ a_kernel' = <<>>
     /\ \/ m = "INTERRUPCION" /\ Queda("READY") /\ UNCHANGED <<bloqueados, curso, regs>>
        \/ m \in {"EXIT", "OUT_OF_MEMORY"} /\ Queda("EXIT") /\ UNCHANGED <<bloqueados, curso, regs>>
        \/ /\ m \in {"IO_STDIN_READ", "IO_STDOUT_WRITE"} /\ Queda("BLOCKED")
           /\ bloqueados' = [bloqueados EXCEPT ![Dato(a_kernel, 1)] =
                Append(@, [pid |-> p, df |-> Dato(a_kernel, 2), size |-> Dato(a_kernel, 3)])]
           /\ UNCHANGED <<curso, regs>>
        \/ m \in {"WAIT", "SIGNAL"} /\ curso' = [en |-> "check"] /\ UNCHANGED <<estado, bloqueados, regs>>
        \/ /\ m = "WAIT" /\ (Queda("BLOCKED") \/ Queda("EXIT"))
           /\ curso' = Libre /\ regs' = RegsLibres /\ UNCHANGED bloqueados
     /\ UNCHANGED <<delaMemoria, delaMMU, pedido, codigo, mostrado, caido>>

EnInterfaz(p) == \E f \in Interfaz : \E j \in DOMAIN bloqueados[f] : bloqueados[f][j].pid = p

\* Another process signals the resource.
Despertar(p) ==
  /\ ~caido /\ estado[p] = "BLOCKED" /\ ~EnInterfaz(p)
  /\ estado' = [estado EXCEPT ![p] = "READY"]
  /\ UNCHANGED <<delaMemoria, delaMMU, pedido, codigo, regs, curso, pcb, a_kernel, bloqueados, mostrado, caido>>

\* destruir_proceso gives the pages back one by one, while the CPU may be
\* executing another process.
Devolver(p) ==
  /\ ~caido /\ estado[p] = "EXIT" /\ Tablas!Reducir(p)
  /\ UNCHANGED <<espacio, delaMMU, pedido, codigo, regs, curso, delKernel, a_kernel, mostrado, caido>>

(***************************************************************************)
(* Interfaces                                                              *)
(***************************************************************************)
\* readline gives any text, of which the size asked for is kept.  A request
\* to write 0 bytes is never answered, so neither is the kernel.
LeerTeclado ==
  LET b == Head(bloqueados["STDIN"])
  IN /\ ~caido /\ bloqueados["STDIN"] # <<>> /\ pedido["STDIN"] = Nada /\ b.size > 0
     /\ \E texto \in BoundedSeq(Byte \ {0}, b.size) :
          IF LlegaTexto(texto)
          THEN /\ \E s \in Copiables(texto, b.size) : Pedir("STDIN", Escritura(b.pid, b.df, s))
               /\ UNCHANGED caido
          ELSE caido' = TRUE /\ UNCHANGED pedido
     /\ UNCHANGED <<delaMemoria, delaMMU, codigo, regs, curso, delKernel, a_kernel, mostrado>>

PedirTexto ==
  LET b == Head(bloqueados["STDOUT"])
  IN /\ ~caido /\ bloqueados["STDOUT"] # <<>> /\ pedido["STDOUT"] = Nada
     /\ Pedir("STDOUT", Lectura(b.pid, b.df, b.size))
     /\ UNCHANGED <<delaMemoria, delaMMU, codigo, regs, curso, delKernel, a_kernel, mostrado, caido>>

\* The interface answers the kernel, which moves the process to READY.
Desbloquear(f) ==
  /\ Pedir(f, Nada)
  /\ estado' = [estado EXCEPT ![Head(bloqueados[f]).pid] = "READY"]
  /\ bloqueados' = [bloqueados EXCEPT ![f] = Tail(@)]
  /\ UNCHANGED pcb

FinDeTeclado ==
  /\ ~caido /\ Respondido("STDIN") /\ Desbloquear("STDIN")
  /\ UNCHANGED <<delaMemoria, delaMMU, codigo, regs, curso, a_kernel, mostrado, caido>>

MostrarTexto ==
  LET texto == Texto(pedido["STDOUT"].buffer)
  IN /\ ~caido /\ Respondido("STDOUT")
     /\ IF LlegaTexto(texto)
        THEN mostrado' = texto /\ Desbloquear("STDOUT") /\ UNCHANGED caido
        ELSE caido' = TRUE /\ UNCHANGED <<pedido, delKernel, mostrado>>
     /\ UNCHANGED <<delaMemoria, delaMMU, codigo, regs, curso, a_kernel>>

-----------------------------------------------------------------------------
Tramos ==
  /\ ~caido /\ \E h \in Hilo : LeerTramo(h) \/ EscribirTramo(h)
  /\ UNCHANGED <<delaMMU, codigo, regs, curso, delKernel, a_kernel, mostrado, caido>>

Init ==
  /\ codigo \in {c \in [Pid -> UNION {Programas[p] : p \in Pid}] : \A p \in Pid : c[p] \in Programas[p]}
  /\ \E b \in Byte : espacio = [d \in Direccion |-> b]
  /\ Tablas!Init /\ MMU!Init /\ achicado = {} /\ pedido = [h \in Hilo |-> Nada]
  /\ regs = RegsLibres /\ curso = Libre /\ a_kernel = <<>>
  /\ pcb = [p \in Pid |-> [pc |-> 0, val |-> [r \in Registro |-> 0]]]
  /\ estado = [p \in Pid |-> "READY"]
  /\ bloqueados = [f \in Interfaz |-> <<>>]
  /\ mostrado = <<>> /\ caido = FALSE

Next ==
  \/ Ejecutar \/ instruccion_copy_string \/ check_interrupt \/ FinDeMovIn \/ CopiarTexto \/ FinDeEscribir
  \/ PaginaDeResize \/ FinDeResize
  \/ AtenderContexto \/ \E p \in Pid : Despachar(p) \/ Despertar(p) \/ Devolver(p)
  \/ LeerTeclado \/ PedirTexto \/ FinDeTeclado \/ MostrarTexto
  \/ Tramos

Spec == Init /\ [][Next]_vars

-----------------------------------------------------------------------------
(***************************************************************************)
(* Properties                                                              *)
(***************************************************************************)
\* Every value is of its kind; what is left to write is as long as the size
\* that is left; and no two processes are RUNNING.
TypeOK ==
  /\ espacio \in [Direccion -> Byte] /\ pedido \in [Hilo -> PedidoType]
  /\ \A h \in Hilo : pedido[h] # Nada /\ pedido[h].op = "escribir" => Len(pedido[h].buffer) = pedido[h].size
  /\ \A p \in Pid : tablas[p] \in Seq(Marco) /\ estado[p] \in Estado
  /\ \A p \in Pid, r \in Registro : pcb[p].pc \in Nat /\ pcb[p].val[r] \in 0 .. Palabra(r) - 1
  /\ \A r \in Registro : regs.val[r] \in 0 .. Palabra(r) - 1
  /\ \A p, q \in Pid : estado[p] = "RUNNING" /\ estado[q] = "RUNNING" => p = q

\* A request that goes on, frame after frame, is always in a frame of the
\* process that made it: neither RESIZE nor the end of another process takes
\* it from under the request.
TramosPropios ==
  \A h \in Hilo : pedido[h] # Nada /\ pedido[h].size > 0
                    => MarcoDe(pedido[h].df) \in ToSet(tablas[pedido[h].pid])

(***************************************************************************)
(* Seen by each program, the system is a machine of its own, in which      *)
(* writes happen when they are asked for and reads when they are answered. *)
(***************************************************************************)
\* The context of p, wherever it is; an instruction that has yet to have its
\* effect has not been executed.
EnCpu(p) == curso # Libre /\ regs.pid = p
Contexto(p) ==
  IF EnCpu(p)
  THEN [val |-> regs.val, pc |-> regs.pc - (IF curso.en \in {"mov_in", "copiar", "resize", "wait"} THEN 1 ELSE 0)]
  ELSE IF a_kernel # <<>> /\ a_kernel[1] = p THEN actualizar_pcb(a_kernel)
  ELSE pcb[p]

EnCamino(p) == a_kernel # <<>> /\ a_kernel[1] = p

\* Requests of p that the interface has in its queue and, if they are to
\* write, has not begun.
EnCola(p, f) ==
  {j \in DOMAIN bloqueados[f] : /\ bloqueados[f][j].pid = p
                                /\ ~(j = 1 /\ f = "STDIN" /\ pedido[f] # Nada)}
EsperandoDe(p) ==
  IF EnCamino(p) /\ Motivo(a_kernel) \in {"IO_STDIN_READ", "IO_STDOUT_WRITE"}
  THEN <<Motivo(a_kernel), Logica(p, Dato(a_kernel, 2)), Dato(a_kernel, 3)>>
  ELSE IF \E f \in Interfaz : EnCola(p, f) # {}
  THEN LET f == CHOOSE g \in Interfaz : EnCola(p, g) # {}
           b == bloqueados[f][CHOOSE j \in EnCola(p, f) : TRUE]
       IN <<IF f = "STDIN" THEN "IO_STDIN_READ" ELSE "IO_STDOUT_WRITE", Logica(p, b.df), b.size>>
  ELSE <<>>

Maquinas == INSTANCE Maquina WITH
  registros <- [p \in Pid |-> Contexto(p).val],
  pc        <- [p \in Pid |-> Contexto(p).pc],
  memoria   <- [p \in Pid |-> MemoriaDe(p)],
  esperando <- [p \in Pid |-> EsperandoDe(p)],
  vive      <- [p \in Pid |-> /\ estado[p] # "EXIT"
                              /\ ~(EnCamino(p) /\ Motivo(a_kernel) \in {"EXIT", "OUT_OF_MEMORY"})]

Implementa == Maquinas!Spec
=============================================================================
