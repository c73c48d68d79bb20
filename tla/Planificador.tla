---------------------------- MODULE Planificador ----------------------------
(***************************************************************************)
(* The kernel's scheduler (kernel/src/main.c) together with the two peers  *)
(* it schedules for: the CPU's instruction cycle (cpu/src/main.c), reduced *)
(* to what crosses the dispatch and interrupt sockets, and one thread per  *)
(* connected I/O interface.                                                *)
(*                                                                         *)
(* Every global of the kernel is a field of the record kernel.  A function *)
(* evaluar_X_a_Y of the source is an operator of the same name from such a *)
(* record to the next one, so that a handler that calls several of them is *)
(* their composition and one action.  The sockets are explicit: a message  *)
(* is sent in one step and read in a later one.                            *)
(*                                                                         *)
(* Process ids are 0, 1, ... in creation order (pcb.c); id 0 is also what  *)
(* queue_pop and queue_peek return for an empty queue.                     *)
(***************************************************************************)
EXTENDS Integers, SequencesExt

CONSTANTS
  CantPids,             \* bound: ids that contadorParaGenerarIdProcesos hands out
  Recurso,              \* names in RECURSOS of the kernel's configuration
  Interfaz,             \* names of the I/O interfaces that may connect
  InstanciasIniciales,  \* INSTANCIAS_RECURSOS
  Algoritmo,            \* ALGORITMO_PLANIFICACION
  GradoInicial,         \* GRADO_MULTIPROGRAMACION
  Grados,               \* values the console gives to MULTIPROGRAMACION
  EstadosMatables,      \* states of the processes the console gives to FINALIZAR_PROCESO
  NombresWait,          \* names the programs give to WAIT ...
  NombresSignal,        \* ... to SIGNAL ...
  NombresIO,            \* ... and to the IO_* instructions
  Disciplina,           \* TRUE: programs only SIGNAL what they hold
  MaxTenencia,          \* bound: instances of a resource, held by a process or free
  MaxAvisos             \* bound: messages in flight on the interrupt socket

Pid == 0 .. CantPids - 1
Nadie == -1
Clave == Recurso \cup Interfaz      \* keys of diccionario_recursos_e_interfaces
Nombre == NombresWait \cup NombresSignal \cup NombresIO

ASSUME ConstantesOK ==
  /\ CantPids \in Nat \ {0}
  /\ Recurso \cap Interfaz = {}
  /\ InstanciasIniciales \in [Recurso -> Nat]
  /\ Algoritmo \in {"FIFO", "RR", "VRR"}
  /\ GradoInicial \in Int /\ Grados \subseteq Int
  /\ NombresWait \cap Interfaz = {} /\ NombresSignal \cap Interfaz = {}
  /\ NombresIO \cap Recurso = {}
  /\ Disciplina \in BOOLEAN
  /\ MaxTenencia \in Nat /\ MaxAvisos \in Nat

Estado == {"NO_CREADO", "NEW", "READY", "READY_PRIORITARIO", "RUNNING", "BLOCKED", "EXIT"}
Edad == {"vigente", "viejo"}   \* of a quantum thread: its slice still runs, or is over

(***************************************************************************)
(* kernel      the kernel's globals; parcial[p] stands for "quantum of p   *)
(*             below the configured one"; hilos_respuesta[p] counts the    *)
(*             atender_respuesta_proceso threads whose idProcesoActual is  *)
(*             p; hilos_quantum[p] says of what age the sleeping           *)
(*             trigger_interrupcion_quantum threads of p are; dispatch is  *)
(*             the socket towards the CPU; tiene is history: who got each  *)
(*             instance through WAIT, at once or by being woken; matados   *)
(*             is history too: those of the states NEW, RUNNING and        *)
(*             BLOCKED in which a process was killed                       *)
(* cpu         process in its registers, phase of servidor_dispatch, and   *)
(*             the flag interrupcion                                       *)
(* a_kernel    the dispatch socket towards the kernel                      *)
(* avisos      messages on the interrupt socket, with the age of the       *)
(*             quantum thread that sent each ("kill": the console)         *)
(***************************************************************************)
VARIABLES kernel, cpu, a_kernel, avisos

vars == <<kernel, cpu, a_kernel, avisos>>

KernelType ==
  [ vivo: BOOLEAN, contador: Nat,
    estado: [Pid -> Estado], parcial: [Pid -> BOOLEAN],
    cola_NEW: Seq(Pid), cola_READY: Seq(Pid), cola_READY_PRIORITARIA: Seq(Pid),
    cola_RUNNING: Seq(Pid), bloqueados: [Clave -> Seq(Pid)],
    cant: Int, grado: Int, pausada: BOOLEAN,
    instancias: [Recurso -> Int], usando: [Recurso -> [Pid -> Nat]],
    tiene: [Recurso -> [Pid -> Nat]],
    conectadas: SUBSET Interfaz, binario: [Interfaz -> BOOLEAN],
    sirviendo: [Interfaz -> Pid \cup {Nadie}],
    hilos_respuesta: [Pid -> Nat], hilos_quantum: [Pid -> SUBSET Edad],
    dispatch: Seq([tipo: {"PCB", "RESPUESTA"}, dato: Nat]),
    matados: SUBSET Estado ]

(***************************************************************************)
(* Moves between states: operators on the kernel record k                  *)
(***************************************************************************)
\* Mutant: ignores the quantum.
debe_ir_siempre(k, p) == Algoritmo = "VRR"

(* A process gets ready again (tail of EXEC_a_READY and BLOCKED_a_READY).  *)
debe_ir_a_cola_prioritaria(k, p) == k.parcial[p] /\ Algoritmo = "VRR"

A_READY(k, p) ==
  IF debe_ir_a_cola_prioritaria(k, p)
  THEN [k EXCEPT !.estado[p] = "READY_PRIORITARIO",
                 !.cola_READY_PRIORITARIA = Append(@, p)]
  ELSE [k EXCEPT !.estado[p] = "READY", !.cola_READY = Append(@, p)]

(* Admission: the loop moves processes until the degree is reached.  It is *)
(* one step here, and nothing is claimed of the degree: another thread may *)
(* compare after the lock is let go of and before the increment, and both  *)
(* admit.  PlanificadorHilos has the pieces, with a comparison that goes   *)
(* either way.                                                             *)
Admisibles(k) ==
  IF k.pausada \/ k.cant >= k.grado THEN 0
  ELSE IF Len(k.cola_NEW) <= k.grado - k.cant THEN Len(k.cola_NEW) ELSE k.grado - k.cant

evaluar_NEW_a_READY(k) ==
  LET n == Admisibles(k)
      admitidos == SubSeq(k.cola_NEW, 1, n)
  IN [k EXCEPT !.cola_NEW = SubSeq(@, n + 1, Len(@)),
               !.cola_READY = @ \o admitidos,
               !.estado = [p \in Pid |-> IF p \in ToSet(admitidos) THEN "READY" ELSE @[p]],
               !.cant = @ + n]

(* Dispatch of process p, taken from the head of its ready queue.          *)
Despacho(k, p) ==
  [k EXCEPT !.cola_RUNNING = Append(@, p),
            !.estado[p] = "RUNNING",
            !.dispatch = Append(@, [tipo |-> "PCB", dato |-> p]),
            !.hilos_respuesta[p] = @ + 1,
            !.hilos_quantum[p] = IF Algoritmo = "FIFO" THEN @ ELSE @ \cup {"vigente"}]

\* Mutant: does not look whether somebody runs.
READY_a_EXEC_sin_guarda(k) ==
  IF k.pausada \/ k.cola_READY = <<>> THEN k
  ELSE Despacho([k EXCEPT !.cola_READY = Tail(@)], Head(k.cola_READY))

evaluar_READY_a_EXEC(k) ==
  IF k.pausada \/ k.cola_RUNNING # <<>> \/ k.cola_READY \o k.cola_READY_PRIORITARIA = <<>>
  THEN k
  ELSE IF Algoritmo = "VRR" /\ k.cola_READY_PRIORITARIA # <<>>
  THEN Despacho([k EXCEPT !.cola_READY_PRIORITARIA = Tail(@)], Head(k.cola_READY_PRIORITARIA))
  ELSE Despacho([k EXCEPT !.cola_READY = Tail(@)], Head(k.cola_READY))

(* The process p stops being the running one: its quantum thread is now a  *)
(* leftover, and under VRR what is left of its quantum is written down.    *)
cosas_vrr_cuando_se_desaloja_un_proceso(k, p, v) ==
  [k EXCEPT !.parcial[p] = IF Algoritmo = "VRR" THEN v ELSE @,
            !.hilos_quantum[p] = IF @ = {} THEN {} ELSE {"viejo"}]

(* What temporal_gettime may leave: a partial quantum or a whole one.      *)
Restos == IF Algoritmo = "VRR" THEN BOOLEAN ELSE {FALSE}

evaluar_EXEC_a_READY(k, v) ==
  evaluar_READY_a_EXEC(
    IF k.cola_RUNNING = <<>> THEN k
    ELSE LET p == Head(k.cola_RUNNING)
         IN A_READY([cosas_vrr_cuando_se_desaloja_un_proceso(k, p, v)
                       EXCEPT !.cola_RUNNING = Tail(@)], p))

\* Mutant: forgets to plan after blocking.
EXEC_a_BLOCKED_sin_planificar(k, clave, v) ==
  IF k.cola_RUNNING = <<>> THEN k
  ELSE LET p == Head(k.cola_RUNNING)
       IN [cosas_vrr_cuando_se_desaloja_un_proceso(k, p, v)
             EXCEPT !.cola_RUNNING = Tail(@),
                    !.estado[p] = "BLOCKED",
                    !.bloqueados[clave] = Append(@, p),
                    !.binario = IF clave \in Interfaz THEN [@ EXCEPT ![clave] = TRUE] ELSE @]

evaluar_EXEC_a_BLOCKED(k, clave, v) ==
  evaluar_READY_a_EXEC(
    IF k.cola_RUNNING = <<>> THEN k
    ELSE LET p == Head(k.cola_RUNNING)
         IN [cosas_vrr_cuando_se_desaloja_un_proceso(k, p, v)
               EXCEPT !.cola_RUNNING = Tail(@),
                      !.estado[p] = "BLOCKED",
                      !.bloqueados[clave] = Append(@, p),
                      !.binario = IF clave \in Interfaz THEN [@ EXCEPT ![clave] = TRUE] ELSE @])

(* queue_pop of an empty queue is NULL: the process finished is then 0,    *)
(* and if there is no such process its pcb is dereferenced.                *)
evaluar_EXEC_a_EXIT(k, v) ==
  LET vacia == k.cola_RUNNING = <<>>
      p == IF vacia THEN 0 ELSE Head(k.cola_RUNNING)
  IN IF k.estado[p] = "NO_CREADO" THEN [k EXCEPT !.vivo = FALSE]
     ELSE evaluar_NEW_a_READY(evaluar_READY_a_EXEC(
            [cosas_vrr_cuando_se_desaloja_un_proceso(k, p, v)
               EXCEPT !.cola_RUNNING = IF vacia THEN @ ELSE Tail(@),
                      !.estado[p] = "EXIT",
                      !.cant = @ - 1]))

evaluar_NEW_a_EXIT(k, p) ==
  [k EXCEPT !.cola_NEW = RemoveFirst(@, p), !.estado[p] = "EXIT", !.cant = @ - 1]

\* Mutants: not taken from its queue; cant_procesos_ejecutando not decremented.
READY_a_EXIT_sin_sacar(k, p) == [k EXCEPT !.estado[p] = "EXIT", !.cant = @ - 1]
READY_a_EXIT_sin_descontar(k, p) ==
  [k EXCEPT !.cola_READY = RemoveFirst(@, p), !.estado[p] = "EXIT"]

evaluar_READY_a_EXIT(k, p) ==
  [k EXCEPT !.cola_READY = RemoveFirst(@, p), !.estado[p] = "EXIT", !.cant = @ - 1]

(* conseguir_tmb: the queues that hold p.  It finds none when the process  *)
(* was unblocked meanwhile, and the caller dereferences NULL; passing an   *)
(* interface that does not hold p it frees the list it is iterating over;  *)
(* and out of the middle of a queue it destroys the datos of p, which of   *)
(* one that waits for a resource nobody has set.  What is undefined may go *)
(* as if it were not, or the kernel falls.                                 *)
conseguir_tmb(k, p) == {c \in Clave : p \in ToSet(k.bloqueados[c])}

TmbInvalido(k, p) == conseguir_tmb(k, p) = {}
TmbIndefinido(k, p) ==
  \/ k.conectadas \ conseguir_tmb(k, p) # {}
  \/ \E r \in Recurso : p \in ToSet(k.bloqueados[r]) /\ Head(k.bloqueados[r]) # p

\* One more instance of r for q.
DarUna(k, r, q) == [k.tiene[r] EXCEPT ![q] = k.tiene[r][q] + 1]

\* What the process had asked for is given back.
Devolver(k, clave) ==
  [r \in Recurso |-> k.instancias[r] + (IF r = clave THEN 1 ELSE 0)]

\* Mutants: not taken from its queue; what it had asked for is not given back.
BLOCKED_a_EXIT_sin_sacar(k, p, clave) ==
  [k EXCEPT !.instancias = Devolver(k, clave),
            !.estado[p] = "EXIT",
            !.cant = @ - 1]
BLOCKED_a_EXIT_sin_devolver(k, p, clave) ==
  [k EXCEPT !.bloqueados[clave] = RemoveFirst(@, p), !.estado[p] = "EXIT", !.cant = @ - 1]

evaluar_BLOCKED_a_EXIT(k, p, clave) ==
  [k EXCEPT !.bloqueados[clave] = RemoveFirst(@, p),
            !.instancias = Devolver(k, clave),
            !.estado[p] = "EXIT",
            !.cant = @ - 1]

\* Mutant: pops the last instead of the first.
BLOCKED_a_READY_lifo(k, clave) ==
  IF k.bloqueados[clave] = <<>> \/ (clave \in Recurso /\ k.instancias[clave] < 0)
  THEN k
  ELSE A_READY([k EXCEPT !.bloqueados[clave] = Front(@)], Last(k.bloqueados[clave]))

evaluar_BLOCKED_a_READY(k, clave) ==
  IF \/ k.bloqueados[clave] = <<>>
     \/ clave \in Recurso /\ k.instancias[clave] < 0
  THEN k
  ELSE LET p == Head(k.bloqueados[clave])
       IN A_READY([k EXCEPT !.bloqueados[clave] = Tail(@),
                            !.tiene = IF clave \in Recurso THEN [@ EXCEPT ![clave] = DarUna(k, clave, p)]
                                      ELSE @], p)

(***************************************************************************)
(* Resources                                                               *)
(***************************************************************************)
\* Mutant: does not look whether it is in the list.
MenosSinMirar(n) == n - 1

Menos(n) == IF n = 0 THEN 0 ELSE n - 1

\* Mutant: compares before it decrements.
asignar_recurso_de_mas(k, r, p) ==
  [k EXCEPT !.instancias[r] = @ - 1,
            !.usando[r][p] = IF k.instancias[r] >= 0 THEN @ + 1 ELSE @,
            !.tiene[r][p] = IF k.instancias[r] >= 0 THEN @ + 1 ELSE @]

asignar_recurso(k, r, p) ==
  LET resultado == k.instancias[r] - 1 >= 0
  IN [k EXCEPT !.instancias[r] = @ - 1,
               !.usando[r][p] = IF resultado THEN @ + 1 ELSE @,
               !.tiene[r][p] = IF resultado THEN @ + 1 ELSE @]

desasignar_recurso(k, r, p) ==
  [k EXCEPT !.instancias[r] = @ + 1,
            !.usando[r][p] = Menos(@),
            !.tiene[r][p] = Menos(@)]

(* sacarle_sus_recursos: one instance of each resource that p is listed as *)
(* using goes back and may wake the head of that resource's queue.  The    *)
(* order of the keys is the hash table's: o gives the order in which the   *)
(* woken processes reach each ready queue.                                 *)
Devueltos(k, p) == {r \in Recurso : k.usando[r][p] > 0}
QueDespiertan(k, p) ==
  {r \in Devueltos(k, p) : k.bloqueados[r] # <<>> /\ k.instancias[r] + 1 >= 0}
Despertados(k, p) == {Head(k.bloqueados[r]) : r \in QueDespiertan(k, p)}
Prioritarios(k, S) == {q \in S : debe_ir_a_cola_prioritaria(k, q)}

Ordenes(k, p) ==
  LET D == Despertados(k, p)
  IN [ready: SetToSeqs(D \ Prioritarios(k, D)), prio: SetToSeqs(Prioritarios(k, D))]

sacarle_sus_recursos(k, p, o) ==
  LET despierta == QueDespiertan(k, p)
  IN [k EXCEPT
        !.instancias = [r \in Recurso |-> IF r \in Devueltos(k, p) THEN @[r] + 1 ELSE @[r]],
        !.usando = [r \in Recurso |-> [k.usando[r] EXCEPT ![p] = Menos(k.usando[r][p])]],
        !.tiene = [r \in Recurso |-> IF r \in despierta
                                     THEN DarUna(k, r, Head(k.bloqueados[r])) ELSE k.tiene[r]],
        !.bloqueados = [c \in Clave |-> IF c \in despierta THEN Tail(@[c]) ELSE @[c]],
        !.cola_READY = @ \o o.ready,
        !.cola_READY_PRIORITARIA = @ \o o.prio,
        !.estado = [q \in Pid |-> IF q \in ToSet(o.ready) THEN "READY"
                                  ELSE IF q \in ToSet(o.prio) THEN "READY_PRIORITARIO" ELSE @[q]]]

(***************************************************************************)
(* Console: ejecutar_comando.  Each command is one step of the main thread *)
(***************************************************************************)
Planificar(k) == evaluar_NEW_a_READY(evaluar_READY_a_EXEC(k))

SinPeriferia == UNCHANGED <<cpu, a_kernel, avisos>>

\* INICIAR_PROCESO: the id is spent even when memory cannot read the program.
IniciarProceso(hayPrograma) ==
  LET p == kernel.contador
  IN /\ kernel.vivo /\ p < CantPids
     /\ kernel' = IF hayPrograma
                  THEN [kernel EXCEPT !.contador = p + 1, !.estado[p] = "NEW",
                                      !.cola_NEW = Append(@, p)]
                  ELSE [kernel EXCEPT !.contador = p + 1]
     /\ SinPeriferia

IniciarPlanificacion ==
  /\ kernel.vivo
  /\ kernel' = evaluar_READY_a_EXEC(evaluar_NEW_a_READY([kernel EXCEPT !.pausada = FALSE]))
  /\ SinPeriferia

DetenerPlanificacion ==
  /\ kernel.vivo
  /\ kernel' = [kernel EXCEPT !.pausada = TRUE]
  /\ SinPeriferia

Multiprogramacion(g) ==
  /\ kernel.vivo
  /\ kernel' = evaluar_NEW_a_READY([kernel EXCEPT !.grado = g])
  /\ SinPeriferia

(* FINALIZAR_PROCESO: eliminar_proceso by the state p was in before its    *)
(* resources were taken, then the two planners.                            *)
Matable(p, e) == kernel.vivo /\ kernel.estado[p] = e /\ e \in EstadosMatables
Matado(e) == [kernel EXCEPT !.matados = @ \cup {e}]

KernelSeCae == kernel' = [kernel EXCEPT !.vivo = FALSE]

FinalizarInexistente(p) ==
  /\ Matable(p, "NO_CREADO")
  /\ kernel' = Planificar(kernel)
  /\ SinPeriferia

FinalizarNew(p) ==
  /\ Matable(p, "NEW")
  /\ \E o \in Ordenes(kernel, p) :
       kernel' = Planificar(evaluar_NEW_a_EXIT(sacarle_sus_recursos(Matado("NEW"), p, o), p))
  /\ SinPeriferia

FinalizarReady(p) ==
  /\ Matable(p, "READY")
  /\ \E o \in Ordenes(kernel, p) :
       kernel' = Planificar(evaluar_READY_a_EXIT(sacarle_sus_recursos(kernel, p, o), p))
  /\ SinPeriferia

\* The running process: the CPU is told to let go of it, and the process is
\* finished without waiting for the CPU to do so.
FinalizarRunning(p) ==
  /\ Matable(p, "RUNNING")
  /\ Len(avisos) < MaxAvisos
  /\ avisos' = Append(avisos, "kill")
  /\ \E o \in Ordenes(kernel, p), v \in Restos :
       kernel' = Planificar(evaluar_EXEC_a_EXIT(sacarle_sus_recursos(Matado("RUNNING"), p, o), v))
  /\ UNCHANGED <<cpu, a_kernel>>

FinalizarBlocked(p) ==
  /\ Matable(p, "BLOCKED")
  /\ \E o \in Ordenes(kernel, p) :
       LET k == sacarle_sus_recursos(Matado("BLOCKED"), p, o)
       IN \/ \E c \in conseguir_tmb(k, p) : kernel' = Planificar(evaluar_BLOCKED_a_EXIT(k, p, c))
          \/ (TmbInvalido(k, p) \/ TmbIndefinido(k, p)) /\ KernelSeCae
  /\ SinPeriferia

\* The states the switch does not name.
FinalizarOtro(p) ==
  /\ Matable(p, "READY_PRIORITARIO") \/ Matable(p, "EXIT")
  /\ \E o \in Ordenes(kernel, p) :
       kernel' = Planificar(sacarle_sus_recursos(kernel, p, o))
  /\ SinPeriferia

Consola ==
  \/ \E b \in BOOLEAN : IniciarProceso(b)
  \/ IniciarPlanificacion
  \/ DetenerPlanificacion
  \/ \E g \in Grados : Multiprogramacion(g)
  \/ \E p \in Pid : \/ FinalizarInexistente(p)
                    \/ FinalizarNew(p)
                    \/ FinalizarReady(p)
                    \/ FinalizarRunning(p)
                    \/ FinalizarBlocked(p)
                    \/ FinalizarOtro(p)

(***************************************************************************)
(* CPU: servidor_dispatch, servidor_interrupt, check_interrupt             *)
(***************************************************************************)
Enviar(motivo, arg) ==
  a_kernel' = Append(a_kernel, [motivo |-> motivo, arg |-> arg, pid |-> cpu.pid])

CPULibre == [pid |-> Nadie, fase |-> "libre", interrupcion |-> FALSE]

\* The registers are overwritten with the first packet that arrives; the
\* interrupt flag is left as it was.
RecibirPCB ==
  /\ cpu.fase = "libre" /\ kernel.dispatch # <<>>
  /\ cpu' = [cpu EXCEPT !.pid = Head(kernel.dispatch).dato, !.fase = "ejecutando"]
  /\ kernel' = [kernel EXCEPT !.dispatch = Tail(@)]
  /\ UNCHANGED <<a_kernel, avisos>>

RecibirInterrupcion ==
  /\ avisos # <<>>
  /\ avisos' = Tail(avisos)
  /\ cpu' = [cpu EXCEPT !.interrupcion = TRUE]
  /\ UNCHANGED <<kernel, a_kernel>>

\* An instruction the kernel has no part in, with the flag set at its end.
EjecutarInterrumpida ==
  /\ cpu.fase = "ejecutando" /\ cpu.interrupcion
  /\ Enviar("INTERRUPCION", "")
  /\ cpu' = CPULibre
  /\ UNCHANGED <<kernel, avisos>>

\* EXIT, RESIZE without memory and the IO_* instructions send the context
\* and end the cycle; check_interrupt still consumes the flag.
EjecutarFinal(motivo, arg) ==
  /\ cpu.fase = "ejecutando"
  /\ Enviar(motivo, arg)
  /\ cpu' = CPULibre
  /\ UNCHANGED <<kernel, avisos>>

EjecutarWait(r) ==
  /\ cpu.fase = "ejecutando"
  /\ r \in Recurso => kernel.tiene[r][cpu.pid] < MaxTenencia
  /\ Enviar("WAIT", r)
  /\ cpu' = [cpu EXCEPT !.fase = "espera_wait"]
  /\ UNCHANGED <<kernel, avisos>>

EjecutarSignal(r) ==
  /\ cpu.fase = "ejecutando"
  /\ r \in Recurso => /\ kernel.instancias[r] < MaxTenencia
                      /\ Disciplina => kernel.tiene[r][cpu.pid] > 0
  /\ Enviar("SIGNAL", r)
  /\ cpu' = [cpu EXCEPT !.fase = "espera_signal"]
  /\ UNCHANGED <<kernel, avisos>>

\* The first packet that arrives is taken for the answer.
Rechazo(dato) == IF cpu.fase = "espera_wait" THEN dato = 1 ELSE dato # 0

\* Mutant: without ya_se_mando_pcb the interrupt sends the context again.
RecibirRespuestaDosPCB ==
  /\ cpu.fase \in {"espera_wait", "espera_signal"} /\ kernel.dispatch # <<>>
  /\ kernel' = [kernel EXCEPT !.dispatch = Tail(@)]
  /\ IF cpu.interrupcion
     THEN cpu' = CPULibre /\ Enviar("INTERRUPCION", "")
     ELSE /\ cpu' = IF Rechazo(Head(kernel.dispatch).dato) THEN CPULibre
                    ELSE [cpu EXCEPT !.fase = "ejecutando"]
          /\ UNCHANGED a_kernel
  /\ UNCHANGED avisos

RecibirRespuesta ==
  /\ cpu.fase \in {"espera_wait", "espera_signal"} /\ kernel.dispatch # <<>>
  /\ kernel' = [kernel EXCEPT !.dispatch = Tail(@)]
  /\ IF Rechazo(Head(kernel.dispatch).dato)
     THEN cpu' = CPULibre /\ UNCHANGED a_kernel
     ELSE IF cpu.interrupcion
     THEN cpu' = CPULibre /\ Enviar("INTERRUPCION", "")
     ELSE cpu' = [cpu EXCEPT !.fase = "ejecutando"] /\ UNCHANGED a_kernel
  /\ UNCHANGED avisos

CPU ==
  \/ RecibirPCB
  \/ RecibirInterrupcion
  \/ EjecutarInterrumpida
  \/ EjecutarFinal("EXIT", "")
  \/ EjecutarFinal("OUT_OF_MEMORY", "")
  \/ \E i \in NombresIO : EjecutarFinal("IO", i)
  \/ \E r \in NombresWait : EjecutarWait(r)
  \/ \E r \in NombresSignal : EjecutarSignal(r)
  \/ RecibirRespuesta

(***************************************************************************)
(* Kernel threads that read the dispatch socket: atender_respuesta_proceso *)
(* of process q, by motivo_desalojo                                        *)
(***************************************************************************)
Atiende(q, motivo) ==
  /\ kernel.vivo
  /\ kernel.hilos_respuesta[q] > 0
  /\ a_kernel # <<>> /\ Head(a_kernel).motivo = motivo
  /\ a_kernel' = Tail(a_kernel)
  /\ UNCHANGED <<cpu, avisos>>

TerminaHilo(k, q) == [k EXCEPT !.hilos_respuesta[q] = @ - 1]

\* Mutant: builds the packet and does not send it.
ResponderSinEnviar(k, resultado) == k

Responder(k, resultado) ==
  [k EXCEPT !.dispatch = Append(@, [tipo |-> "RESPUESTA", dato |-> resultado])]

AtenderExit(q) ==
  /\ Atiende(q, "EXIT")
  /\ \E v \in Restos : kernel' = evaluar_EXEC_a_EXIT(TerminaHilo(kernel, q), v)

AtenderOutOfMemory(q) ==
  /\ Atiende(q, "OUT_OF_MEMORY")
  /\ \E o \in Ordenes(kernel, q), v \in Restos :
       kernel' = evaluar_EXEC_a_EXIT(TerminaHilo(sacarle_sus_recursos(kernel, q, o), q), v)

AtenderWait(q) ==
  /\ Atiende(q, "WAIT")
  /\ LET r == Head(a_kernel).arg
     IN IF r \notin Recurso
        THEN \E v \in Restos :
               kernel' = evaluar_EXEC_a_EXIT(Responder(TerminaHilo(kernel, q), 1), v)
        ELSE LET k == asignar_recurso(kernel, r, q)
             IN IF k.instancias[r] >= 0
                THEN kernel' = Responder(k, 0)
                ELSE \E v \in Restos :
                       kernel' = evaluar_EXEC_a_BLOCKED(Responder(TerminaHilo(k, q), 1), r, v)

\* For an unknown name the code compares the packet's address with 1: no
\* branch is taken, nothing is answered and the thread keeps waiting.
AtenderSignal(q) ==
  /\ Atiende(q, "SIGNAL")
  /\ LET r == Head(a_kernel).arg
     IN kernel' = IF r \notin Recurso THEN kernel
                  ELSE evaluar_BLOCKED_a_READY(Responder(desasignar_recurso(kernel, r, q), 0), r)

AtenderInterrupcion(q) ==
  /\ Atiende(q, "INTERRUPCION")
  /\ \E v \in Restos : kernel' = evaluar_EXEC_a_READY(TerminaHilo(kernel, q), v)

AtenderIO(q) ==
  /\ Atiende(q, "IO")
  /\ LET i == Head(a_kernel).arg
     IN \E v \in Restos :
          kernel' = IF i \in kernel.conectadas
                    THEN evaluar_EXEC_a_BLOCKED(TerminaHilo(kernel, q), i, v)
                    ELSE evaluar_EXEC_a_EXIT(TerminaHilo(kernel, q), v)

Respuestas ==
  \E q \in Pid : \/ AtenderExit(q)
                 \/ AtenderOutOfMemory(q)
                 \/ AtenderWait(q)
                 \/ AtenderSignal(q)
                 \/ AtenderInterrupcion(q)
                 \/ AtenderIO(q)

(***************************************************************************)
(* Quantum threads and I/O threads                                         *)
(***************************************************************************)
\* trigger_interrupcion_quantum wakes up: it compares ids only, and whether
\* other threads of p of the same age sleep on is not counted.
FinQuantum(p, edad) ==
  /\ kernel.vivo /\ edad \in kernel.hilos_quantum[p]
  /\ \/ kernel' = [kernel EXCEPT !.hilos_quantum[p] = @ \ {edad}]
     \/ edad = "viejo" /\ UNCHANGED kernel
  /\ IF kernel.cola_RUNNING # <<>> /\ Head(kernel.cola_RUNNING) = p
     THEN Len(avisos) < MaxAvisos /\ avisos' = Append(avisos, edad)
     ELSE UNCHANGED avisos
  /\ UNCHANGED <<cpu, a_kernel>>

ConectarInterfaz(i) ==
  /\ kernel.vivo /\ i \notin kernel.conectadas
  /\ kernel' = [kernel EXCEPT !.conectadas = @ \cup {i}]
  /\ SinPeriferia

\* One turn of the loop of atender_cliente_io up to the request it sends.
TomarPedido(i) ==
  /\ kernel.vivo /\ i \in kernel.conectadas
  /\ kernel.sirviendo[i] = Nadie /\ kernel.binario[i]
  /\ kernel' = [kernel EXCEPT !.binario[i] = FALSE,
                              !.sirviendo[i] = IF kernel.bloqueados[i] = <<>> THEN Nadie
                                               ELSE Head(kernel.bloqueados[i])]
  /\ SinPeriferia

RespuestaIO(i) ==
  /\ kernel.vivo /\ kernel.sirviendo[i] # Nadie
  /\ kernel' = evaluar_READY_a_EXEC(
                 evaluar_BLOCKED_a_READY([kernel EXCEPT !.sirviendo[i] = Nadie], i))
  /\ SinPeriferia

\* The interface reports a failure: only the process that asked is finished.
FallaIO(i) ==
  LET p == kernel.sirviendo[i]
  IN /\ kernel.vivo /\ p # Nadie
     /\ \/ \E c \in conseguir_tmb(kernel, p) :
             kernel' = evaluar_BLOCKED_a_EXIT([kernel EXCEPT !.sirviendo[i] = Nadie], p, c)
        \/ (TmbInvalido(kernel, p) \/ TmbIndefinido(kernel, p)) /\ KernelSeCae
     /\ SinPeriferia

Hilos ==
  \/ \E p \in Pid, edad \in Edad : FinQuantum(p, edad)
  \/ \E i \in Interfaz : \/ ConectarInterfaz(i)
                         \/ TomarPedido(i)
                         \/ RespuestaIO(i)
                         \/ FallaIO(i)

-----------------------------------------------------------------------------
Init ==
  /\ kernel = [ vivo |-> TRUE, contador |-> 0,
                estado |-> [p \in Pid |-> "NO_CREADO"], parcial |-> [p \in Pid |-> FALSE],
                cola_NEW |-> <<>>, cola_READY |-> <<>>, cola_READY_PRIORITARIA |-> <<>>,
                cola_RUNNING |-> <<>>, bloqueados |-> [c \in Clave |-> <<>>],
                cant |-> 0, grado |-> GradoInicial, pausada |-> TRUE,
                instancias |-> InstanciasIniciales,
                usando |-> [r \in Recurso |-> [p \in Pid |-> 0]],
                tiene |-> [r \in Recurso |-> [p \in Pid |-> 0]],
                conectadas |-> {}, binario |-> [i \in Interfaz |-> FALSE],
                sirviendo |-> [i \in Interfaz |-> Nadie],
                hilos_respuesta |-> [p \in Pid |-> 0],
                hilos_quantum |-> [p \in Pid |-> {}],
                dispatch |-> <<>>, matados |-> {} ]
  /\ cpu = CPULibre
  /\ a_kernel = <<>>
  /\ avisos = <<>>

Next == Consola \/ CPU \/ Respuestas \/ Hilos

Spec == Init /\ [][Next]_vars

TypeOK ==
  /\ kernel \in KernelType
  /\ cpu \in [pid: Nat \cup {Nadie}, fase: {"libre", "ejecutando", "espera_wait", "espera_signal"},
              interrupcion: BOOLEAN]
  /\ a_kernel \in Seq([motivo: {"EXIT", "OUT_OF_MEMORY", "WAIT", "SIGNAL", "INTERRUPCION", "IO"},
                       arg: Nombre \cup {""}, pid: Nat])
  /\ avisos \in Seq(Edad \cup {"kill"})

-----------------------------------------------------------------------------
(***************************************************************************)
(* Properties                                                              *)
(***************************************************************************)
\* Nobody was killed in one of the states of S.
SinMatar(k, S) == k.matados \cap S = {}

Encolados(cola, e) ==
  IsInjective(cola) /\ ToSet(cola) = {p \in Pid : kernel.estado[p] = e}

(* The pcb's state and the queues, which different functions update, agree:*)
(* a process is once in the queue its state names and in no other, until   *)
(* the console kills the running one.                                      *)
ColasCoherentes ==
  SinMatar(kernel, {"RUNNING"}) =>
    /\ Encolados(kernel.cola_NEW, "NEW")
    /\ Encolados(kernel.cola_READY, "READY")
    /\ Encolados(kernel.cola_READY_PRIORITARIA, "READY_PRIORITARIO")
    /\ Encolados(kernel.cola_RUNNING, "RUNNING")
    /\ \A c \in Clave : IsInjective(kernel.bloqueados[c])
    /\ \A p \in Pid : Cardinality(conseguir_tmb(kernel, p)) =
                        IF kernel.estado[p] = "BLOCKED" THEN 1 ELSE 0

(* The right to use the CPU is one token: a pcb on its way, an executing   *)
(* CPU, a message the kernel has not handled or an answer to go on.  There *)
(* is one exactly when cola_RUNNING holds a process, it is that process's, *)
(* and so is the only thread that waits for the CPU's messages, until the  *)
(* console kills the running process.                                      *)
Corriendo == ToSet(kernel.cola_RUNNING)
Siga(m) == m.tipo = "RESPUESTA" /\ m.dato = 0
Indices(s, P(_)) == {i \in DOMAIN s : P(s[i])}

FichaUnica ==
  SinMatar(kernel, {"RUNNING"}) =>
    /\ Len(kernel.cola_RUNNING) <= 1
    /\ Len(kernel.cola_RUNNING) =
         Len(a_kernel) + (IF cpu.fase = "ejecutando" THEN 1 ELSE 0)
         + Cardinality(Indices(kernel.dispatch, LAMBDA m : m.tipo = "PCB" \/ Siga(m)))
    /\ \A q \in Pid : kernel.hilos_respuesta[q] = IF q \in Corriendo THEN 1 ELSE 0
    /\ cpu.fase = "ejecutando" => cpu.pid \in Corriendo
    /\ \A i \in DOMAIN a_kernel : a_kernel[i].pid \in Corriendo
    /\ \A i \in DOMAIN kernel.dispatch :
         /\ kernel.dispatch[i].tipo = "PCB" => kernel.dispatch[i].dato \in Corriendo
         /\ Siga(kernel.dispatch[i]) => cpu.pid \in Corriendo

(* cant_procesos_ejecutando, which six functions increment and decrement,  *)
(* counts the admitted processes that have not finished, although a process*)
(* may be killed while it is blocked or its interface may fail it.         *)
Admitidos(k) == {p \in Pid : k.estado[p] \in {"READY", "READY_PRIORITARIO", "RUNNING", "BLOCKED"}}
CantCoherente ==
  SinMatar(kernel, {"NEW", "RUNNING"}) => kernel.cant = Cardinality(Admitidos(kernel))

(* A negative semaphore never counts waiters that are not in its queue.    *)
SemaforoCoherente ==
  \A r \in Recurso : -kernel.instancias[r] <= Len(kernel.bloqueados[r])

(* A finished process stays finished: its memory was already released.     *)
ExitFinal ==
  [][\A p \in Pid : kernel.estado[p] = "EXIT" => kernel'.estado[p] = "EXIT"]_vars

(* Whoever frees the CPU hands it over at once to a process that was ready *)
(* or that the same step made ready again.                                 *)
LiberarCPUDespacha ==
  [][kernel.cola_RUNNING # <<>> /\ kernel'.cola_RUNNING = <<>> /\ ~kernel'.pausada
       => \A p \in Pid : kernel'.estado[p] \in {"READY", "READY_PRIORITARIO"}
                           => kernel.estado[p] = "NEW"]_vars

(* Disciplined programs get mutual exclusion: the live processes that were *)
(* granted an instance never exceed the configured number.  An instance    *)
(* that p got is a pair <<p, n>>, n counting those of p.                   *)
Otorgadas(t, S) == UNION {{p} \X (1 .. t[p]) : p \in S}

ExclusionMutua ==
  \A r \in Recurso :
    Cardinality(Otorgadas(kernel.tiene[r], {p \in Pid : kernel.estado[p] # "EXIT"}))
      <= InstanciasIniciales[r]

(* The process that an interface's answer makes ready is the one whose     *)
(* request the interface carried out.                                      *)
IOAlQuePidio ==
  [][SinMatar(kernel', {"RUNNING", "BLOCKED"}) =>
       \A i \in Interfaz : kernel.sirviendo[i] # Nadie /\ kernel'.sirviendo[i] = Nadie
         => ToSet(kernel.bloqueados[i]) \ ToSet(kernel'.bloqueados[i]) = {kernel.sirviendo[i]}]_vars

(* The priority queue holds processes with part of a quantum left, even    *)
(* those that a resource or an interface released long after the preemption*)
PrioridadConResto ==
  \A p \in ToSet(kernel.cola_READY_PRIORITARIA) : kernel.parcial[p]

(* SIGNAL and every other return of an instance wake a waiter if there is  *)
(* one.                                                                    *)
SignalDesbloquea ==
  [][\A r \in Recurso : /\ kernel'.instancias[r] > kernel.instancias[r]
                        /\ kernel.bloqueados[r] # <<>>
       => kernel'.bloqueados[r] # kernel.bloqueados[r]]_vars

(* A CPU that waits for the answer to WAIT or SIGNAL gets it, provided the *)
(* kernel's threads and the CPU run.                                       *)
RespuestaLlega ==
  cpu.fase \in {"espera_wait", "espera_signal"} ~> cpu.fase \in {"libre", "ejecutando"}

SpecJusta ==
  Spec /\ WF_vars(\E q \in Pid : AtenderWait(q) \/ AtenderSignal(q)) /\ WF_vars(RecibirRespuesta)
=============================================================================
