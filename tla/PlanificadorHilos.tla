--------------------------- MODULE PlanificadorHilos ---------------------------
(***************************************************************************)
(* The kernel's planners, one access to the shared queues and locks per    *)
(* step: the console, the thread of an I/O interface and a thread per      *)
(* dispatch, atender_respuesta_proceso, run the functions evaluar_X_a_Y at *)
(* the same time.  Planificador has all that these functions do and takes  *)
(* each handler as one step; here are in pieces the handlers of EXIT,      *)
(* INTERRUPCION and IO, without resources, kills nor the priority queue.   *)
(*                                                                         *)
(* What a thread has yet to do is the sequence pila of its steps.  What a  *)
(* mutex guards is one step; the only one held from step to step is        *)
(* mutex_ready_a_exec.  A push and a pop are one step, guarded or not.     *)
(* pcb->estado, that only the console reads, is left out, and so are the   *)
(* counter and the degree of multiprogramming: the counter is changed      *)
(* without a lock, so the comparison of the two may come out either way.   *)
(* Without kills cola_RUNNING holds the process whose context has come     *)
(* back (UnoEnCPU), and the guards of evaluar_EXEC_a_* are left out.       *)
(***************************************************************************)
EXTENDS Integers, SequencesExt

CONSTANTS
  CantPids,   \* bound: processes that the console starts
  Respuesta   \* bound: threads of atender_respuesta_proceso alive at the same time

consola == "consola"
interfaz == "interfaz"
Nadie == "nadie"

ASSUME ConstantesOK ==
  /\ CantPids \in Nat \ {0}
  /\ Respuesta # {} /\ {consola, interfaz, Nadie} \cap Respuesta = {}

Pid == 0 .. CantPids - 1
Hilo == {consola, interfaz} \cup Respuesta
Cola == {"NEW", "READY", "RUNNING", "BLOCKED"}

(***************************************************************************)
(* The functions, as sequences of steps                                    *)
(***************************************************************************)
sacar(q) == <<"sacar", q>>
poner(q) == <<"poner", q>>
hacer(s) == <<s>>

evaluar_NEW_a_READY    == <<hacer("ver NEW")>>
evaluar_READY_a_EXEC   == <<hacer("tomar mutex")>>
evaluar_EXEC_a_READY   == <<sacar("RUNNING"), poner("READY")>> \o evaluar_READY_a_EXEC
evaluar_EXEC_a_BLOCKED == <<sacar("RUNNING"), poner("BLOCKED")>> \o evaluar_READY_a_EXEC
evaluar_EXEC_a_EXIT    ==
  <<sacar("RUNNING"), hacer("terminar")>> \o evaluar_READY_a_EXEC \o evaluar_NEW_a_READY
evaluar_BLOCKED_a_READY == <<sacar("BLOCKED"), poner("READY")>>
evaluar_BLOCKED_a_EXIT  == <<sacar("BLOCKED"), hacer("terminar")>>
atender_respuesta_proceso == <<hacer("mirar RUNNING"), hacer("recibir")>>

\* Mutant: the thread is created before the process is in its queue.
DespacharHiloAntes == <<sacar("READY"), hacer("crear hilo"), poner("RUNNING"), hacer("enviar")>>

\* Bodies of the loop of NEW_a_READY and of the branch of READY_a_EXEC.
Admitir   == <<sacar("NEW"), poner("READY")>> \o evaluar_NEW_a_READY
Despachar == <<sacar("READY"), poner("RUNNING"), hacer("enviar"), hacer("crear hilo")>>

(***************************************************************************)
(* cola       the three queues and that of the interface                   *)
(* contador   contadorParaGenerarIdProcesos                                *)
(* pausada    esta_planificacion_pausada                                   *)
(* mutex      who holds mutex_ready_a_exec                                 *)
(* hilo       of each thread: pila; p, the local of the function that runs;*)
(*            id, its idProcesoActual                                      *)
(* dispatch, a_kernel     the dispatch socket, towards the CPU and back    *)
(* corrio, fin    history: processes that were dispatched, and finished    *)
(* nulo       history: NEW was popped when it was empty                    *)
(***************************************************************************)
VARIABLES cola, contador, pausada, mutex, hilo, dispatch, a_kernel, corrio, fin, nulo

vars == <<cola, contador, pausada, mutex, hilo, dispatch, a_kernel, corrio, fin, nulo>>
mando == <<contador, pausada>>
cpu == <<dispatch, a_kernel>>
historia == <<corrio, fin, nulo>>

Ociosa == [pila |-> <<>>, p |-> 0, id |-> 0]

-----------------------------------------------------------------------------
Paso(t, s) == hilo[t].pila # <<>> /\ Head(hilo[t].pila) = s

\* The step is done and these come before the rest; p is the local.
SigueCon(t, pasos, p) ==
  hilo' = [hilo EXCEPT ![t] = LET resto == pasos \o Tail(@.pila)
                              IN IF resto = <<>> THEN Ociosa ELSE [@ EXCEPT !.pila = resto, !.p = p]]
Sigue(t, pasos) == SigueCon(t, pasos, hilo[t].p)

\* queue_pop and queue_peek of an empty queue are NULL, the id 0.
Primero(q) == IF cola[q] = <<>> THEN 0 ELSE Head(cola[q])

\* Mutant: the process is looked at and stays in its queue.
SacarSinQuitar(t, q) ==
  /\ Paso(t, sacar(q))
  /\ SigueCon(t, <<>>, Primero(q))
  /\ nulo' = (nulo \/ (q = "NEW" /\ cola[q] = <<>>))
  /\ UNCHANGED <<cola, mando, mutex, cpu, corrio, fin>>

Sacar(t, q) ==
  /\ Paso(t, sacar(q))
  /\ SigueCon(t, <<>>, Primero(q))
  /\ cola' = [cola EXCEPT ![q] = IF @ = <<>> THEN @ ELSE Tail(@)]
  /\ nulo' = (nulo \/ (q = "NEW" /\ cola[q] = <<>>))
  /\ UNCHANGED <<mando, mutex, cpu, corrio, fin>>

Poner(t, q) ==
  /\ Paso(t, poner(q))
  /\ cola' = [cola EXCEPT ![q] = Append(@, hilo[t].p)]
  /\ SigueCon(t, <<>>, IF q = "RUNNING" THEN hilo[t].p ELSE 0)
  /\ UNCHANGED <<mando, mutex, cpu, historia>>

Terminar(t) ==
  /\ Paso(t, hacer("terminar"))
  /\ fin' = fin \cup {hilo[t].p}
  /\ SigueCon(t, <<>>, 0)
  /\ UNCHANGED <<cola, mando, mutex, cpu, corrio, nulo>>

\* evaluar_NEW_a_READY looks at the queue and at the degree, lets go of the
\* degree's lock and pops later.
VerNEW(t) ==
  /\ Paso(t, hacer("ver NEW"))
  /\ \/ ~pausada /\ cola["NEW"] # <<>> /\ Sigue(t, Admitir)
     \/ Sigue(t, <<>>)
  /\ UNCHANGED <<cola, mando, mutex, cpu, historia>>

(***************************************************************************)
(* evaluar_READY_a_EXEC, always called with mutex_ready_a_exec held: the   *)
(* queues are looked at under their locks and popped later.                *)
(***************************************************************************)
\* Mutant: whoever finds it taken goes on without planning.
TomarSiLibre(t) ==
  /\ Paso(t, hacer("tomar mutex"))
  /\ mutex' = IF mutex = Nadie THEN t ELSE mutex
  /\ Sigue(t, IF mutex = Nadie THEN <<hacer("ver READY"), hacer("soltar mutex")>> ELSE <<>>)
  /\ UNCHANGED <<cola, mando, cpu, historia>>

\* Mutant: nobody waits for it.
TomarSinEsperar(t) ==
  /\ Paso(t, hacer("tomar mutex"))
  /\ mutex' = t
  /\ Sigue(t, <<hacer("ver READY"), hacer("soltar mutex")>>)
  /\ UNCHANGED <<cola, mando, cpu, historia>>

TomarMutex(t) ==
  /\ Paso(t, hacer("tomar mutex")) /\ mutex = Nadie
  /\ mutex' = t
  /\ Sigue(t, <<hacer("ver READY"), hacer("soltar mutex")>>)
  /\ UNCHANGED <<cola, mando, cpu, historia>>

VerREADY(t) ==
  /\ Paso(t, hacer("ver READY"))
  /\ Sigue(t, IF cola["RUNNING"] # <<>> \/ cola["READY"] = <<>> \/ pausada THEN <<>> ELSE Despachar)
  /\ UNCHANGED <<cola, mando, mutex, cpu, historia>>

Enviar(t) ==
  /\ Paso(t, hacer("enviar"))
  /\ dispatch' = Append(dispatch, hilo[t].p)
  /\ corrio' = corrio \cup {hilo[t].p}
  /\ SigueCon(t, <<>>, 0)
  /\ UNCHANGED <<cola, mando, mutex, a_kernel, fin, nulo>>

CrearHilo(t) ==
  /\ Paso(t, hacer("crear hilo"))
  /\ \E n \in Respuesta :
       /\ hilo[n] = Ociosa
       /\ hilo' = [hilo EXCEPT ![t].pila = Tail(@), ![n].pila = atender_respuesta_proceso]
  /\ UNCHANGED <<cola, mando, mutex, cpu, historia>>

SoltarMutex(t) ==
  /\ Paso(t, hacer("soltar mutex"))
  /\ mutex' = Nadie
  /\ Sigue(t, <<>>)
  /\ UNCHANGED <<cola, mando, cpu, historia>>

(***************************************************************************)
(* atender_respuesta_proceso                                               *)
(***************************************************************************)
MirarRUNNING(t) ==
  /\ Paso(t, hacer("mirar RUNNING"))
  /\ hilo' = [hilo EXCEPT ![t].pila = Tail(@), ![t].id = Primero("RUNNING")]
  /\ UNCHANGED <<cola, mando, mutex, cpu, historia>>

\* By motivo_desalojo.
Atender == [EXIT |-> evaluar_EXEC_a_EXIT, INTERRUPCION |-> evaluar_EXEC_a_READY,
            IO |-> evaluar_EXEC_a_BLOCKED]

Recibir(t) ==
  /\ Paso(t, hacer("recibir")) /\ a_kernel # <<>>
  /\ a_kernel' = Tail(a_kernel)
  /\ hilo' = [hilo EXCEPT ![t].pila = Atender[Head(a_kernel).motivo], ![t].id = 0]
  /\ UNCHANGED <<cola, mando, mutex, dispatch, historia>>

(***************************************************************************)
(* The interface answers: who asked gets ready, or is finished if it failed*)
(***************************************************************************)
RespuestaIO ==
  /\ hilo[interfaz] = Ociosa /\ cola["BLOCKED"] # <<>>
  /\ \E pasos \in {evaluar_BLOCKED_a_READY \o evaluar_READY_a_EXEC, evaluar_BLOCKED_a_EXIT} :
       hilo' = [hilo EXCEPT ![interfaz].pila = pasos]
  /\ UNCHANGED <<cola, mando, mutex, cpu, historia>>

(***************************************************************************)
(* Console                                                                 *)
(***************************************************************************)
Comando(pasos) ==
  /\ hilo[consola] = Ociosa
  /\ hilo' = [hilo EXCEPT ![consola].pila = pasos]
  /\ UNCHANGED <<mutex, cpu, historia>>

\* Mutant: the id is read after the counter was incremented.
IniciarConElSiguiente ==
  /\ contador < CantPids
  /\ contador' = contador + 1 /\ cola' = [cola EXCEPT !["NEW"] = Append(@, contador')]
  /\ Comando(<<>>)
  /\ UNCHANGED pausada

IniciarProceso ==
  /\ contador < CantPids
  /\ contador' = contador + 1 /\ cola' = [cola EXCEPT !["NEW"] = Append(@, contador)]
  /\ Comando(<<>>)
  /\ UNCHANGED pausada

IniciarPlanificacion ==
  /\ pausada' = FALSE
  /\ Comando(evaluar_NEW_a_READY \o evaluar_READY_a_EXEC)
  /\ UNCHANGED <<cola, contador>>

DetenerPlanificacion ==
  /\ pausada' = TRUE
  /\ Comando(<<>>)
  /\ UNCHANGED <<cola, contador>>

Multiprogramacion ==
  /\ Comando(evaluar_NEW_a_READY)
  /\ UNCHANGED <<cola, mando>>

(***************************************************************************)
(* The CPU gets a context and sends it back some time later.               *)
(***************************************************************************)
Ejecutar(motivo) ==
  /\ dispatch # <<>>
  /\ dispatch' = Tail(dispatch)
  /\ a_kernel' = Append(a_kernel, [motivo |-> motivo, pid |-> Head(dispatch)])
  /\ UNCHANGED <<cola, mando, mutex, hilo, historia>>

-----------------------------------------------------------------------------
Init ==
  /\ cola = [q \in Cola |-> <<>>] /\ contador = 0 /\ pausada = TRUE
  /\ mutex = Nadie /\ hilo = [t \in Hilo |-> Ociosa]
  /\ dispatch = <<>> /\ a_kernel = <<>>
  /\ corrio = {} /\ fin = {} /\ nulo = FALSE

Consola == IniciarProceso \/ IniciarPlanificacion \/ DetenerPlanificacion \/ Multiprogramacion

Correr(t) ==
  \/ \E q \in Cola : Sacar(t, q) \/ Poner(t, q)
  \/ Terminar(t) \/ VerNEW(t)
  \/ TomarMutex(t) \/ VerREADY(t) \/ Enviar(t) \/ CrearHilo(t) \/ SoltarMutex(t)
  \/ MirarRUNNING(t) \/ Recibir(t)

\* Nothing is claimed after the NULL: see the properties.
Next ==
  /\ ~nulo
  /\ \/ Consola \/ RespuestaIO
     \/ \E t \in Hilo : Correr(t)
     \/ \E motivo \in DOMAIN Atender : Ejecutar(motivo)

Spec == Init /\ [][Next]_vars

-----------------------------------------------------------------------------
(***************************************************************************)
(* Properties.  They hold until evaluar_NEW_a_READY, which two threads may *)
(* run at the same time, pops a NEW that the other has emptied: from then  *)
(* on process 0 is taken for one more.                                     *)
(***************************************************************************)
TypeOK ==
  /\ cola \in [Cola -> Seq(Pid)] /\ contador \in 0 .. CantPids /\ pausada \in BOOLEAN
  /\ mutex \in Hilo \cup {Nadie}
  /\ \A t \in Hilo : hilo[t].p \in Pid /\ hilo[t].id \in Pid
  /\ dispatch \in Seq(Pid) /\ \A i \in DOMAIN a_kernel : a_kernel[i].pid \in Pid
  /\ corrio \subseteq Pid /\ fin \subseteq Pid /\ nulo \in BOOLEAN

EnPaso(S) == {t \in Hilo : \E s \in S : Paso(t, s)}

(* The CPU has one process at a time and its context is on one socket or   *)
(* in one handler, although cola_RUNNING is popped without a lock by one   *)
(* thread while another looks at it to dispatch.                           *)
UnoEnCPU ==
  ~nulo =>
    /\ Len(cola["RUNNING"]) + Cardinality(EnPaso({poner("RUNNING")})) <= 1
    /\ Len(dispatch) + Len(a_kernel) <= Len(cola["RUNNING"])
    /\ \A i \in DOMAIN dispatch : dispatch[i] \in ToSet(cola["RUNNING"])

(* A thread that learns whom it serves by looking at cola_RUNNING some time*)
(* after it was created gets it right: the context that it receives is of  *)
(* that process, and no other thread waits for it.                         *)
ContextoPropio ==
  ~nulo =>
    \A t \in EnPaso({hacer("recibir")}) :
      /\ EnPaso({hacer("mirar RUNNING"), hacer("recibir")}) = {t}
      /\ \A i \in DOMAIN a_kernel : a_kernel[i].pid = hilo[t].id

(* No process is lost nor doubled on its way from a queue to another: it   *)
(* is in one queue or in the hands of one thread until it finishes.        *)
EnTransito(p) ==
  {t \in EnPaso({poner(q) : q \in Cola} \cup {hacer("terminar")}) : hilo[t].p = p}
EnColas(p) ==
  {lugar \in Cola \X (1 .. CantPids + 1) :
     lugar[2] \in DOMAIN cola[lugar[1]] /\ cola[lugar[1]][lugar[2]] = p}

NadieSePierde ==
  ~nulo =>
    \A p \in Pid : Cardinality(EnTransito(p)) + Cardinality(EnColas(p))
                     = IF p < contador /\ p \notin fin THEN 1 ELSE 0

(* When the CPU is free, nobody is paused and no thread is in the middle   *)
(* of a function, no process that was ever dispatched waits in READY: none *)
(* that comes back from the CPU or from an interface is forgotten because  *)
(* two threads looked at the queues at the same time.                      *)
Quieto == \A t \in Hilo : hilo[t] = Ociosa

SinOlvidados ==
  ~nulo /\ Quieto /\ ~pausada /\ cola["RUNNING"] = <<>> => ToSet(cola["READY"]) \cap corrio = {}
=============================================================================
