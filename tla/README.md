# A verification project for TpSistemasOperativos

The repository is an operating system in four processes that talk over TCP
sockets: a **kernel** that schedules, a **CPU** that interprets programs, a
**memory** that stores them with simple paging, and any number of **I/O
interfaces**, one of which (DialFS) keeps a small file system.  A fifth
directory, `utils`, holds the packets and the pcb.  This directory holds TLA+
modules translated from that code, the configurations with which TLC checks
them and the proofs that TLAPS checks.

`tlc -config X.cfg M` runs a configuration, `tlapm M.tla` checks the
proofs of a module.  `PROJECT.json` lists the runs, the lines that each definition
stands for, the hazards and, for every property, a mutation of a definition
that breaks it.

## 1. Inventory

| component | state | operations | talks to |
|---|---|---|---|
| Scheduler (`kernel/src/main.c`) | queues NEW, READY, READY+, RUNNING; `lista_de_pcbs`; `cant_procesos_ejecutando`, `grado_multiprogramacion`, `esta_planificacion_pausada` | console commands, `evaluar_X_a_Y`, `atender_respuesta_proceso` (a thread per dispatch), `trigger_interrupcion_quantum` (a thread per slice) | CPU by two sockets (dispatch, interrupt), memory by calls that wait for the answer |
| Resources (kernel) | per resource: instances, holders, blocked queue | WAIT, SIGNAL, return of everything a killed process held | scheduler, by calls |
| I/O interfaces (kernel side) | per interface: blocked queue, two mutexes, the request being served | connect, take a request, answer, failure | one thread per interface, one socket each |
| CPU cycle (`cpu/src/main.c`) | registers, flag `interrupcion`, `proceso_actual_ejecutando`, `ya_se_mando_pcb` | receive a context, execute, check interrupt, send the context | kernel, memory |
| MMU and TLB (CPU) | rows, circular index, clock | look up, add, replace (FIFO, LRU) | memory, by calls |
| Page tables (`memoria/src/main.c`) | dictionary of processes, page table of each, bitmap of frames | create, destroy (thread of the kernel), resize (thread of the CPU) | shared variables of two threads |
| User space (memory) | bytes of the frames | reads and writes that cross pages | threads of the CPU and of each interface |
| DialFS (`entradasalida`) | bitmap file, block file, a metadata file per file | create, delete, truncate, read, write, compact, restart | kernel, memory, disk |
| STDIN, STDOUT (`entradasalida`) | none between requests | read a text and ask the memory to write it; ask the memory for a text and show it | kernel, memory |
| Generic interface (`entradasalida`) | none | sleep and answer | kernel |
| Program files (memory) | lines of the program of each process | give the line at the program counter | CPU |
| Packets (`utils`) | none | serialise, parse | everybody |

What is hard in each, and what makes it correct:

* **Scheduler.**  Console, answers, quantum threads and interfaces change the
  same queues; contexts, answers and interrupts cross on the sockets.  Correct
  when a process is in the one queue its state names, one process has the CPU
  and only its thread reads the CPU's messages, a freed CPU is handed over, and
  a finished process stays so.
* **Resources.**  Counts, holders and waiters are updated by different
  functions.  Correct when nobody gets what is not there, a negative count
  equals waiters in the queue, and a returned instance wakes a waiter.
* **Interfaces.**  The answer arrives long after the request and the queue
  may have changed.  Correct when the answer wakes the process that asked.
* **CPU.**  An interrupt may arrive while the CPU waits for the answer to
  WAIT.  Correct when the context is sent exactly once per dispatch.
* **TLB.**  Rows outlive what they describe.  Correct when it is the queue
  that its algorithm promises and a row of a live process names its frame.
* **Page tables.**  Two threads, one bitmap, no lock.  Correct when no frame
  backs two pages, none is lost, and RESIZE fails only when memory is full;
  what a lost bit damages should at least be the frames of that byte.
* **User space.**  A request is copied a frame at a time, under a lock that is
  released in between, by the threads of the CPU and of the interfaces.  Correct
  when every program sees memory of its own, in which an access is one step.
* **DialFS.**  Every operation writes several files; the machine may stop
  between two of them.  Correct when bitmap and metadata agree and files do
  not overlap.
* **Packets.**  Fields are told by their place and some types by their size.
  Correct when a context survives the trip to the kernel and back.

## 2. Modules

| module | models |
|---|---|
| `Planificador` | scheduler, resources, interfaces seen from the kernel, and the CPU seen from the sockets; a handler per step |
| `MCPlanificador` | values for TLC |
| `PlanificadorHilos` | the same planners, one access to a queue or to a lock per step |
| `MCPlanificadorHilos` | symmetry for TLC |
| `Planificador_tipos` | theorems: the types of `Planificador` |
| `Planificador_proofs` | theorems about `Planificador`: its safety |
| `Planificador_recursos` | theorem about `Planificador`: mutual exclusion |
| `PlanificadorHilos_proofs` | theorems about `PlanificadorHilos` |
| `Memoria` | page tables and bitmap with two threads |
| `TablasDePaginas` | what the page tables promise (abstract) |
| `MCMemoria` | symmetry for TLC |
| `Memoria_proofs` | theorems about `Memoria`: the safety invariants, and that it implements `TablasDePaginas` |
| `Tlb` | the array of rows, its circular index and its clock |
| `CacheDeMarcos` | a queue of translations (abstract) |
| `Traduccion` | `Tlb` over `TablasDePaginas`: the MMU with tables that change under it |
| `Traduccion_proofs` | theorems about `Traduccion` |
| `EspacioDeUsuario` | bytes of the frames and the requests over them, a piece per step, over `TablasDePaginas` |
| `Programas` | instructions, registers and contexts of the CPU, STDIN and STDOUT, the kernel between them, over `EspacioDeUsuario` |
| `Maquina` | the machine that each program believes it has to itself (abstract) |
| `MCProgramas` | the programs for TLC |
| `Programas_proofs` | theorems about `Programas`: types, requests, and that it implements `Maquina` |
| `DialFS` | the file system on its disk, with kills and restarts |
| `Archivos` | what its files promise (abstract) |
| `MCDialFS` | symmetry for TLC |
| `DialFS_proofs` | theorems about `DialFS` |

**Planificador.**  The kernel's globals are the fields of one record, and each
`evaluar_X_a_Y` is an operator from a record to the next, so a handler that
calls three of them is their composition and one action.  The messages are
real: a context sent in one step is read in a later one, and the order in which
threads read the sockets is free.  What is abstracted:

* A handler is one step; `PlanificadorHilos` takes the handlers apart.  That
  includes `evaluar_NEW_a_READY`, which in the code releases its lock between
  the comparison with the degree and the increment, so nothing is claimed of
  the degree of multiprogramming.
* `parcial[p]` stands for "the quantum left is below the configured one"; the
  time that passes is a choice (`Restos`).
* `hilos_quantum[p]` is a set of ages, so any number of sleeping threads is a
  bounded state; that another thread of the same age sleeps on is a choice.
* The hash table's order, in which `sacarle_sus_recursos` walks the resources,
  is a choice (`Ordenes`).
* Undefined behaviour that falls on NULL ends in `vivo = FALSE`, and so may a
  call on a pointer never set (`TmbIndefinido`), which goes on otherwise.
* `tiene` is history: who was granted an instance.  The code's own list
  (`usando`) forgets the processes woken by SIGNAL.  `matados` is history too:
  the states in which the console killed somebody.  The kill of a process in
  NEW or of the running one breaks what several properties say; they are stated
  until such a kill (`SinMatar`), and the runs go on past it.
* `liberar_memoria` is a call to the other model and leaves no trace here.
  Programs do not WAIT on the name of an interface (the code would treat the
  interface's record as a resource's).

**PlanificadorHilos.**  The console, the thread of an interface and a thread per
dispatch have each a `pila`, the sequence of steps they have yet to do: pop a
queue, push it, look at NEW, look at RUNNING and READY, take and release
`mutex_ready_a_exec`, send a context, create a thread, peek at RUNNING, receive.
`evaluar_X_a_Y` is a sequence of steps and a call is its concatenation.  What a
mutex guards from lock to unlock is one step, a push or a pop too (the
library's list is not modelled below that).  The comparison of the unlocked
counter with the degree may come out either way, `pcb->estado` is left out, and
so are kills, resources and the priority queue.  `evaluar_NEW_a_READY` may pop a
NEW that another thread has just emptied; the id is then 0, `nulo` is set and
the model stops: the properties are about everything before it.

**Memoria.**  The bitmap is a set of frames.  Clearing and setting a bit are
each a read of its byte and a write back, `MarcosPorByte` says how many frames
share one (eight in the code) and the search looks at one bit per step.  The
locals of the loops are in `hilo`.  `BorradoConcurrente = FALSE` means that the
CPU is idle while the kernel destroys a process, which is so when processes end
by EXIT and nothing else is dispatched first; TRUE is what the code allows.
Then a byte may be written back after the other thread has changed it: `pisados`
is history, the frames whose bit such a write undid (`Escribir`).  Nothing stops
`agregar_paginas` at the end of a table of `cant_marcos` rows but the search,
and after lost bits the search may find a frame for one page more:
`EscribirFuera` is that write, and the thread goes no further (`caido`).  A
process is not destroyed while the CPU resizes that same one: the code frees the
table under the other thread's feet and anything may follow.

**Tlb, Traduccion.**  The rows are an array as in the code.  `Traduccion`
replaces the answer of the memory by the page tables of `TablasDePaginas`.
With `Disciplina`, programs use only pages they have and never shrink; in
`Programas` its condition is weaker, not to grow again after shrinking.

**EspacioDeUsuario, Programas.**  A request is the bytes that are left from a
physical address on; each step copies what is in one frame and looks for the
frame of the next page, with `conseguir_siguiente_marco`'s own search.  The CPU,
STDIN and STDOUT serve one request each and their steps interleave with each
other and with RESIZE.  The CPU runs the instructions of `execute` over
registers of 1 and `TamInt` bytes that wrap; every address goes through the TLB
(`conseguir_marco`, over `CacheDeMarcos`, which `Tlb` implements), whose rows
nobody removes; its context is packed in the order
of `empaquetar_registros` and unpacked in that of `actualizar_pcb` and
`desempaquetar_pcb_a_registros`.  What is abstracted:

* Any ready process may be dispatched, and an interrupt may come at any check.
* The addresses that programs use are within their pages; no process is killed.
* WAIT gives the instance, blocks the process until some step wakes it (who, and
  when, is `Planificador`) or, of an unknown name, finishes it.  SIGNAL goes on;
  of an unknown name it is never answered, and that is no step.
* RESIZE takes or returns one page per step, and the frames of a finished process
  are returned one per step meanwhile, but each is one step on tables that keep
  the promise of `TablasDePaginas`: the races of the bitmap, which break it, are
  in `Memoria`.
* With `Disciplina` a program does not grow again after it has shrunk.  One that
  does may be sent by a row that survived (`cpu/src/main.c:1160`) to a frame of
  another process: with `Disciplina = FALSE` TLC finds it in the program `Crece`
  of `MCProgramas`, as a violation of `TramosPropios`.
* A line is a sequence of words of the kinds that `execute` knows (`Linea`,
  assumed of the files in `LineasOK`), without IO_GEN_SLEEP and the five IO_FS_*,
  whose interfaces are not here.
* What the code does not survive ends in `caido`, after which nothing happens: an
  element of a packet that the receiver would take for a pointer, a program
  counter past the last line (`HayInstruccion`, the memory copies the NULL that
  ends the array), a value asked of PC, which is no register for
  `obtenerValorRegistros`.

**Maquina** is what a program sees: registers, a counter, a sequence of bytes,
and what it asked of an interface.  In the refinement a write takes effect when
it is asked for and a read when it is answered: `MemoriaDe` gives each byte of
the process its value once the pieces under way are done.

**DialFS.**  `bitmap` and `datos` are the two mapped files, `metadata` the files
of text with their keys, `vacias` those that have none: just created, or emptied by
a kill.  A step is
one write, so a kill (`Caer`) falls between any two of them, and `Reiniciar`
starts from what the disk has.  `config_save` truncates its file before it writes
it, and a kill between the two leaves a file of metadata with nothing in it
(`CaerAlGuardar`).  `fase` and `lazo` are the place in the function
and its locals, `compacta` those of `compactar`.  `intacto` is history: no
compaction and no shrink has started, and no kill has cut a deletion.  A
compaction spoils it from its start, even one that ends, because on a disk where
an earlier kill leaked a block it looks for a file that starts at a block of
nobody and moves whichever it read last.

The transfer of bytes from and to the memory is not modelled, nor is what a read
hands over: the code reads TAMANIO_ARCHIVO bytes from the pointer whatever was
asked (681), past the end of the file and, in the last blocks, of the mapping
(`leer_en_archivo` may then end the process), and sends the text up to a zero
that may not be there; the memory does not answer a write of 0 bytes.

**Archivos** has files with contents and a number of blocks, in no place.  Its
contents are those of the disk when the interface is idle (`antes`).

## 3. Runs

Every bound is a constant of the module that uses it.

| run | bounds | states | shows |
|---|---|---|---|
| `PlanFIFO` | 3 processes, 1 interface and a name without one, degree 2 that becomes 1 or 3, kills in NO_CREADO, NEW, READY, RUNNING, BLOCKED | 1.5M | `ColasCoherentes`, `FichaUnica`, `CantCoherente`, `LiberarCPUDespacha`, `IOAlQuePidio` |
| `PlanVRR` | 2 processes, 1 resource and an unknown one to WAIT on, kills in the priority queue | 0.2M | `PrioridadConResto`, `FichaUnica`, `RespuestaLlega` under fairness, and no deadlock |
| `PlanRecursos` | RR, 3 processes, 1 instance, an interface that no program asks for, kills of ready, blocked and finished ones | 1.3M | `TypeOK`, `FichaUnica`, `ColasCoherentes`, `ExclusionMutua`, `SemaforoCoherente`, `ExitFinal` |
| `PlanHilos` | 3 processes, 3 interchangeable answering threads | 0.8M | `TypeOK`, `UnoEnCPU`, `ContextoPropio`, `NadieSePierde`, `SinOlvidados` |
| `MemSerie` | 3 processes, 4 frames, 2 per byte, no destruction while the CPU works | 39k | `BitmapCoherente`, `Implementa` (of `TablasDePaginas`) |
| `MemConcurrente` | 3 processes, 3 frames, 2 per byte, destruction while the CPU works | 74k | `TypeOK`, `MarcosDisjuntos`, `BitmapCoherente`, `HilosCoherentes` |
| `MMU` | FIFO and LRU, 2 rows, 2 processes, 3 pages, 3 frames, 5 lookups | 0.4M | `TypeOK`, `FilasVigentes`, `TraduccionCorrecta`, `Implementa` (of `CacheDeMarcos`) |
| `FSOrdenes` | 3 files, 4 blocks of 2 bytes, sizes 0, 1, 3 | 0.2M | `BitmapCoherente`, `Implementa` (of `Archivos`) |
| `FSCaidas` | 2 files, 3 blocks of 2 bytes, sizes 1, 3, kills in any phase, restarts | 1.0M | `TypeOK`, `Reservados`, `Disjuntos`, `SeContesta` under fairness |
| `Programas` | 2 processes, 3 frames of 2 bytes, bytes of 2 values, registers of 1 and 2 bytes, a TLB of 2 rows with LRU, 113 programs next to another one, `Disciplina` | 1.8M | `TypeOK`, `TramosPropios`, `Implementa` (of `Maquina`) |

Why these bounds: three processes are enough for one to run, one to wait and
one to be killed, admitted or woken between them, and no function of the
kernel looks further than the head of a queue.  One instance of a resource with
three processes gives two waiters, the least for a negative count that one
SIGNAL does not clear.  `MaxAvisos = 1` delays an interrupt until the previous
one was read: a second unread interrupt only sets a flag already set.  Of the
answering threads one waits for the CPU while others still finish their
handler: three let two handlers meet the console, the interface and a new
dispatch.  A thread that cannot be created for want of a number waits, which is
a slow `pthread_create`.  Four frames and sizes 0, 1 and 3 let two processes take
all the memory, run out of it half way and reuse what a third returned.  Three frames of which two share a byte lose a bit and give a frame twice, in every
order of the two threads.  Two
rows and five lookups replace every row and wrap the index.  Three files on four
blocks leave holes between files, so that the growth of one moves the other two,
and sizes 0, 1 and 3 take one block without counting it, one and two.  Three
frames make a process's pages follow no order as soon as one was returned, and
texts of up to three bytes cross a page.  `CHECK_DEADLOCK FALSE` is where the
system may stop: the kernel has fallen or the CPU waits for ever (kills of
blocked and running processes), every id is created and destroyed (memory), the
clock of the TLB reached its bound, the interface was killed, a module fell or
every program ended, or the NULL was popped.

### Fairness

* `RespuestaLlega` (`Planificador!SpecJusta`): weak fairness of the steps in
  which the kernel's threads answer WAIT and SIGNAL, and of the step in which
  the CPU reads an answer.  Both are threads blocked in `recv` on a socket with
  data in it, that nothing else reads; the operating system wakes them.
* `SeContesta` (`DialFS!SpecJusta`): weak fairness of the writes of the order
  under way (`Paso`): the process is one thread that waits for nothing in the
  middle of an order.

Nothing is assumed of programs, interfaces, the console, kills or restarts.

### Runs that show a disagreement

* `SignalDosEsperan`: SIGNAL with two waiters wakes nobody
  (`kernel/src/main.c:849` against the comment at 1029).
* `BitmapCarrera`: with two frames per byte a bit is lost and the bitmap is not
  empty after every process is destroyed (`memoria/src/main.c:568`, against the
  test's assertion at 842).

### Other behaviours seen while modelling

They follow from the code and no run is kept for them.

Kernel:

* SIGNAL of an unknown resource is never answered (1035 compares the packet, not
  the result), and the CPU waits for ever; `PlanVRR` leaves those out.
* The degree of multiprogramming is not kept: `evaluar_NEW_a_READY` compares
  under a lock (553), releases it (555) and increments later (566), so two
  threads pass with room for one.
* A process killed in NEW decrements a counter that never counted it (673);
  the counter then admits one process too many.
* Killing the running process dispatches the next before the CPU lets go of
  the first (437): two contexts are under way; if nobody is ready, an exit
  handled later finishes process 0 (898), even if it is blocked, and the answer
  of its interface then brings it back; and a CPU that waits for the answer to
  WAIT may wait for ever.
* Killing a process of the priority queue takes its resources only (451).
* EXIT does not return resources (982), a kill does.
* Killing a blocked process that holds an instance of what it waits for wakes it
  and then dereferences NULL (736).
* With two keys in the dictionary, a failure or a kill walks a list already
  freed (779).
* Killing a process that waits for a resource behind the head of its queue
  destroys the list `datos` (497), which nobody set (801): whatever `malloc` left
  there.  The model falls or goes on; a heap that is damaged and goes on is not
  modelled.
* Two requests may leave one unlock of `binario` (820) and the second waits for
  a third to arrive.
* A process admitted when another finishes waits for the next event although
  the CPU is free (909 before 913).
* The quantum thread of an old slice interrupts a later slice of its process
  (1473 against the comment at 1466).
* Two threads in `evaluar_NEW_a_READY` (550) may both pass the comparison with
  the degree, pop a NEW that one of them emptied (process 0 is queued once
  more), and lose an increment of the counter, which no lock protects.
* `pcb->estado = E_READY` is written after the push (562): the process may have
  run and even finished, and PROCESO_ESTADO shows it ready.
* The kill of a ready process between the look and the pop of
  `evaluar_READY_a_EXEC` (586, 597) would dispatch NULL, the id 0.
* `mutex_cola_ready_plus` is unlocked by who does not hold it (882).
* Killing a process during its I/O returns its frames at once (448), while the
  interface goes on reading and writing them.

CPU and memory:

* Two threads in the bitmap may also give one frame to two processes, by the
  race that `BitmapCarrera` shows, and then a table may get a page more than it
  has rows (590).
* A TLB row survives the page it names, when a program shrinks; if it grows
  again, the row sends it to the frame it had, of another process by then (1160).
* A write of 0 bytes is never answered (`memoria/src/main.c:364`).
* A text of 0 or 3 letters is sent as the low bytes of a pointer
  (`sockets.c:107`) and its receiver falls.
* COPY_STRING and STDIN write as many bytes as the size, from a buffer as long
  as the text (`memoria/src/main.c:386`).
* A word that names no instruction reads an uninitialised enum, and PC as a
  source register falls.

DialFS:

* Deleting an empty file leaves its block taken (517).
* Shrinking frees blocks counted in bytes, also those of other files (609), and
  then dies on a number stored as a text (621).
* The bytes that a moved file leaves behind come back when it grows (852), and
  those beyond the size of a shrunk one when another file gets its block.
* A kill in the middle of `config_save` (587, 726, 848) leaves an empty file of
  metadata: the size and the place of the file are lost, and its blocks leak.
* A read copies the whole size of the file from the pointer on (681), past its
  end when the pointer is not 0.
* A kill in the middle of a deletion or of a compaction leaves metadata that
  names free blocks (519, 846), which the next creation takes.
* A compaction that moved nothing destroys a pointer that was never set (785).
* The bitmap has `BLOCK_COUNT / 8` bytes (`bitmap.c:9`); `DialFS` has a bit for
  every block, as in the configurations of the repository, multiples of 8.

## 4. Proofs

`Memoria_proofs` proves, for every set of processes, number of frames, frames
per byte and set of sizes, and with both threads at work, that `Spec` implies
`[]BitmapCoherente`, `[]MarcosDisjuntos`, `[]TypeOK` and `[]HilosCoherentes`,
without hypothesis.  What they say of a frame they say until a byte written back
late undoes its bit (`pisados`).  That cannot be said of every frame:
`BitmapCarrera` shows a lost one.  So the theorems say how far the race goes: the frames
that shared the byte, and the tables of those that have them; a frame of another
byte is never lost nor shared, however many frames are given twice.  While the
threads take turns (`~BorradoConcurrente`) no bit is undone, which
`BitmapCoherente` also says.

None is inductive alone.  That a cleared bit leaves the bitmap coherent needs
that nobody else uses the frame (`MarcosDisjuntos`); that a set bit keeps the
frames disjoint needs that the frame found is still free, and that the locals
`i` of both loops follow `paginas_actuales` of different processes
(`HilosCoherentes`); and that the write back undoes no bit but those of
`pisados` is what `Escrito` proves of `Escribir`.  The inductive invariant
`IInv` is the four, the same that `MemConcurrente` checks, and `EnSerie`: when
the threads take turns, the byte held is still the bitmap's.  The proof has a
lemma per action.  `agregar_paginas` writes beyond its table only after some bit
was undone: before that, disjoint pages whose frames all differ from a free one
are fewer than the frames (`HayLugar`).

It also proves that under `~BorradoConcurrente` `Spec` implies
`Implementa`: every step of the two threads is a step of `TablasDePaginas` or a
stutter.  The last write of a freed page is `Reducir`, the write of a new one
`Ampliar`, and the answer of RESIZE `Contestar`.  The write maps to `Ampliar`
because the frame, clear in the bitmap, is in no table (`LosAsignados` with
`BitmapCoherente`).  That a denial comes only with every frame taken needs one
more invariant, `Vistos`: the frames the search has passed are all taken.  It
does not survive a concurrent destruction, which may free a frame already
passed or lose a bit, and this is why the theorem assumes that there is none.

`DialFS_proofs` proves, for any set of files, number and size of blocks, sizes,
orders and phases in which the interface may be killed and started again, that
`Spec` implies `[]TypeOK`, `[]Reservados` and `[]Disjuntos`: until a compaction
or a shrink starts, or a kill cuts a deletion (`intacto`), the bitmap has every
block of every file and no block is of two.  `Reservados` is not inductive: a
block is taken before the metadata that names it, one at a time, and a kill in
between must leave more bits than files, never fewer.  The invariant is
`IInv == Tipos /\ Bloques`.  `Tipos` is `TypeOK` with the locals of every phase.
`Bloques` says, while `intacto`, that the order under way is not one of those that
spoil it (`SinMudar`), `Reservados`, `Disjuntos`, that the blocks the order is
taking, which no metadata may name yet, are of no other file and those behind
the index of its loop are in the bitmap (`Apartado`), and that the blocks a
deletion is freeing are of no other file (`Liberado`).  The growth in place needs that the blocks after the file were
seen free, and the arithmetic of sizes into blocks (`TechoNat`) that a file
never loses blocks by growing.

It also proves `BitmapCoherente` whole, compaction included, when the interface
is not started again (`~Reinicios`: a kill leaves blocks that are of nobody, and
so does a shrink, which ends the interface at 625) and nobody deletes an empty file (`SinBorrarVacios`, its block stays
taken, 515).  At rest the bitmap and the metadata say the same; in the middle of an
order they do not, and the invariant `BInv` says how far apart they are in each phase:

| part | says |
|---|---|
| `EnReposo` | between orders, `BitmapCoherente` itself |
| `AlCrecer` | while blocks are taken one by one, the bitmap is the blocks of the files and those behind the loop's index (`Reparto`), and the range of the order is free of other files (`Lugar`) |
| `AlSoltar` | while blocks are freed, the bitmap still has those the loop has not reached |
| `ConTamanio` | the new size is already in the metadata and the bitmap agrees with it |
| `AlSacar` | a compaction takes the file to be grown out of the bitmap; it will fit at the end (`Caben`), and no other file has its first block |
| `AlRecorrer` | every block below the first free one is taken, and each file is wholly below it or wholly above (`Partidos`) |
| `AlMudar` | a file is moved down block by block: the destination is free, may overlap the source, and what was copied is not freed again |

`Partidos` is what makes a move safe: the file that starts at the next taken
block does not begin in the middle of another, so what lies below stays as it
is.  `Caben` is a count: a compaction moves as many blocks as it frees, and the
cardinalities of the taken and free blocks say that the file taken out fits after
the last one.

Last, under the hypotheses of `BitmapCoherente` (`Archivos` is not started again,
and a block that a deletion leaves taken would be space that `Archivos` still
has), it proves `Implementa`: what the processes see is `Archivos`, compactions
and kills included.  Over `BInv`, `DInv` follows the contents:

| part | says |
|---|---|
| `Recuerda` | the contents that the processes know are the bytes on the disk, but for the files `EnMano` of the order under way (`Fiel`) |
| `AlNacer` | the file being created is empty |
| `AlEstirar`, `AlOcupar` | the place that a truncation to a bigger size is taking starts with the bytes of the file |
| `AlBorrar` | the blocks that a deletion puts to zero are of no other file |
| `AlCompactar`, `AlLlevar` | the two files that a compaction has off their place are in its buffers, as they were |
| `AlPoner` | the file taken out goes behind all the others, with its new size |

Each action that writes has its lemma (`...Datos`).  Those that write into
blocks write where `BInv` says that only the file at hand has any, so the bytes
of the others stay (`FielSigue`), and a file written whole has what was written
(`EscritoSeLee`; `TamanioCabe`, `BloqueDelByte` and `ByteDeArchivo` say which
block each byte of a file is in).  Then each answer is a step of `Archivos` (`...Visto`) and every
other step stutters.  That an order refused did not fit compares a count
in `Archivos`, the blocks of each file, with the bits of the bitmap: the pairs of a
file and a number up to its size are as many as the blocks taken, since at rest
one goes to the other (`ParesSonBloques`).

`Planificador_tipos` proves, without any hypothesis, that `Spec` implies
`[]TypeOK`.  The inductive invariant is `Tipos`: the types, a process with the
state NEW for each id in `cola_NEW`, ids in the registers whenever the CPU is in
use.  It needs no order: it survives the kills that break everything else, which
is the point of the theorem.  No queue ever gets anything but a process and the
counters of threads stay natural because a handler decrements one only after it
has found it positive.

`Planificador_proofs` proves `Spec => []IInv`, also without hypothesis, and
from it the properties of the runs:

    IInv == Tipos /\ (SinMatar({"RUNNING"}) => Ordenado /\ Sem /\ Ficha)
                  /\ (SinMatar({"RUNNING", "BLOCKED"}) => IOCabeza)

| part | says | why it is needed |
|---|---|---|
| `Colas` | each queue holds the processes of its state, once (`Lugar`); each blocked process is in one blocked queue | `ColasCoherentes` itself; pops that rely on it (`Head`, `RemoveFirst`) keep it |
| `Contados` | `cant` is the number of processes in the system, until one is killed in NEW | `CantCoherente` itself |
| `ConResto` | a process with priority has part of a quantum left | it is pushed with it, and nothing changes it while it waits |
| `SinCrear` | ids not handed out have no process | a new process is in no queue |
| `Ficha` | where the token is: a pcb under way, the CPU, a message, an answer, or the answer that rejects followed by the next pcb | with it a handler finds its own process at the head of `cola_RUNNING`, and `evaluar_EXEC_a_EXIT` never pops an empty queue |
| `Sem` | a negative semaphore counts no more than the waiters in its queue | inductive with `Colas` only: `asignar_recurso` decrements one step of the composition before the process is pushed |
| `IOCabeza` | the process an interface serves is the first of its queue | `IOAlQuePidio`: the answer pops the head, whoever it is |

A lemma per `evaluar_X_a_Y` says how that operator moves a process between queues
(`ReadyExec`, `ExecBlocked`, `BlockedReady`, ...), and the lemma of a handler
composes them in the order of the code.  `Colas(k, X)` has the set `X` of
processes that are between two queues, as they are in the middle of a handler.
`Sacar` is the one that moves several at once: `sacarle_sus_recursos` takes the
heads of many queues, which are different processes because no process is in two.
`Bien(k, k2)` is what a step keeps besides: EXIT is final and the CPU is handed
over.

| theorem | hypothesis | why |
|---|---|---|
| `SiempreColasCoherentes`, `SiempreCantCoherente`, `SiempreIOAlQuePidio` | none | the properties carry `SinMatar` themselves |
| `SiempreSemaforoCoherente`, `SiemprePrioridadConResto` | `SinMatar(kernel, {"RUNNING"})` in the state | the runs that check them kill no running process |
| `SiempreFichaUnica` | `NombresSignal \subseteq Recurso` | a SIGNAL of an unknown name is not answered (1035) and the token stays in it: `Perdida` is that case of `Ficha` |
| `SiempreExitFinal`, `SiempreLiberarCPUDespacha` | `"RUNNING" \notin EstadosMatables` | after such a kill an exit handled later finishes whoever is 0 (898).  `PlanFIFO` checks `LiberarCPUDespacha` with those kills too; that part is only model-checked |

`Planificador_recursos` proves `ExclusionMutua`, for any number of processes,
resources and instances, under `Disciplina` (programs signal only what they
hold) and with READY_PRIORITARIO and RUNNING out of `EstadosMatables`.  The
property looks at the history `tiene`; what the code keeps is `instancias`, the
blocked queues and the list of holders `usando`, which misses whoever was woken
by a SIGNAL (418).  The invariant, on top of `IInv`, is

    Repartido(kernel, Muertos(kernel)) /\ Debe(kernel, a_kernel)

| part | says | why it is needed |
|---|---|---|
| `usando <= tiene` | nobody is listed with more than it was granted | a kill gives back what is listed: it gives back no more than was granted |
| `Cubierto` | granted + waiting + `instancias` are at most those configured.  What counts of a finished process is `usando`, of the others `tiene` (`Cuenta`) | a bound, not an equation: EXIT returns nothing (982), and of what a finished process held only what is listed can come back, if it is killed after it finished; the rest is lost.  The living count whole, so `ExclusionMutua` follows with `Sem`: minus `instancias` is at most the waiters |
| `Debe` | a SIGNAL on its way is of an instance its sender was granted | between the step of the CPU and that of the kernel other processes are killed, woken and finished; none of it takes an instance from the sender (`Crece`) |

An instance is the pair of its holder and a number, so that what a step does is
a statement about finite sets (`CubiertoMenos`, `CubiertoUnaMenos`,
`CubiertoUnaMas`, `CubiertoPasan`: nobody gets one, p gives one back, q gets
one, p's passes to q).  The killed process counts as finished from the first
line of `sacarle_sus_recursos`, before `pcb->estado` says so; who finished stays
so (`ExitFinal`), and this is where the hypotheses come from: the kill of a
process with priority leaves it alive after its instances went to others (451).

`PlanificadorHilos_proofs` proves `TypeOK`, `UnoEnCPU`, `ContextoPropio`,
`NadieSePierde` and `SinOlvidados` for any number of processes and threads.  The
invariant is `Tipos /\ (~nulo => Coherente)`.  `Tipos` includes that every `pila`
is a sequence that the functions can leave (`Encadenada`: which step comes after
which).  `Coherente` says that the holder of `mutex_ready_a_exec` is the thread
that is between look and unlock (`Exclusion`), that what it saw still holds when
it pops, although others push and pop under other locks (`VistoVigente`: RUNNING
is filled only by the holder and emptied only by the thread of the running
process), that one thread is in charge of the running process (`UnTurno`), that
each process is in one queue or one hand (`UnLugar`), and that when a process
that has run waits with the CPU free some thread has yet to look
(`AlguienMira`).

`Traduccion_proofs` proves the types of the TLB for any program, and with
`Disciplina` that the row of a live process names the frame of its page
(`FilasVigentes`) and that every address is translated as the tables say.  The
invariant adds that a row is of a page the table has (`FilasDePaginas`): only so
is a table that grows at its end, or another process's frame that is returned, no
change for the row.  `Pagina \subseteq Nat` is assumed of the constant: a page is
the quotient of two unsigned numbers.

`TlbImplementa` needs neither `Disciplina` nor the tables: whatever is asked, the
rows are the queue of `CacheDeMarcos`.  `Cola` is a CHOOSE of an order of the rows
in use, so the invariant `QInv` carries that there is one (`EnFila`), each step
makes the next from it, and two orders of the same rows are the same (`UnaLista`,
by the first place where they differ).  To be first, last or in the middle is a number
(`Rango`): the clock of the row for LRU, its distance from the circular index for
FIFO, which at each replacement is one less for all rows but the replaced one,
that goes to the end (`ListaMovida`).  `QInv` also says that rows are taken from
the first on (`SinSaltos`), that the circular index stays at 0 until none is free
(`EsperaTurno`), that a page of a process has one row (`UnaFila`) and that the clock
is ahead of every row's (`Relojes`); without them a free row, or the row that
LRU chooses, would not be the end or the head of the queue.

`Programas_proofs` proves `TypeOK`, `TramosPropios` and `Implementa` of
`Programas` under `Disciplina` (a program does not grow again after it has
shrunk: what happens otherwise is above), for any number of processes, frames,
rows of the TLB, registers and widths of them, and whatever else each program
does.  The page tables are those of `TablasDePaginas`, which `Memoria` implements
when its threads take turns.  Assumed of the constants: the three
threads and the registers that instructions name exist (`ProgramasOK`), programs
are of lines that `execute` knows (`LineasOK`), and powers of `Base` are positive
numbers (`PotenciasOK`, arithmetic the provers do not have).  The inductive
invariant `IInv` says:

| part | says | why it is needed |
|---|---|---|
| `Tipos` | the types of every variable, of the locals in `curso` included, and that what is left to write is as long as the size left | the values that registers take from memory and from packets are in their widths |
| `MarcosUnicos` | a frame is in one place of one table | a physical address is of one byte of one process |
| `Viaje` | what a context on its way says, by its reason: of WAIT, the CPU waits; of I/O, the bytes it names are of the process | the fields of the packet are told by their place |
| `EnUnLugar` | the process in RUNNING is the one in the CPU or on its way | two steps, one of the CPU and one of the kernel, move a process |
| `Colas` | who waits in an interface is BLOCKED, once, and what it asked for is in its pages | its pages cannot change meanwhile |
| `Pedidos` | each request is of who waits for it, and the bytes left of it are of its pages, in their order (`EnPaginas`) | `TramosPropios`: the frame after this one is the next of the same table |

`FInv` is about the TLB, step by step: a row of a page that a live process has
names its frame, a row of any other page is of a process that has shrunk
(`FilaBuena`, `achicado`) and so will not get that page again, and COPY_STRING has
the address of SI while it looks for that of DI (`Decodificada`).  With it the
address that `conseguir_marco` gives is that of the table (`DireccionDe`), which
`EnPaginas` of a new request needs.

For the refinement, `RInv` adds what an instruction that waits has done: the
bytes read so far are those the process has in memory at the addresses that its
registers gave (`LeidoDe`), for the instruction under way (`EnCurso`) and for
the text that STDOUT shows (`Mostrando`).  That stays true because who reads is
nobody's writer: a running process has no request in an interface, a blocked one
has one, and a write changes the memory of its process only.  Then each
action is a step of `Maquina` or a stutter, with one lemma each (`...SeVe`):

* a request to write changes the memory of the machine when it is made
  (`EscritoEs`), since `MemoriaDe` shows as written what is pending; each of its
  pieces then changes nothing (`MemoriaTramo`), because pieces of different
  frames are different bytes (`EnTramo`);
* `FinDeMovIn`, `CopiarTexto`, `FinDeResize` and `MostrarTexto` are the step of
  their instruction, the fetch of which was a stutter;
* a context that is packed, carried, saved, packed again and dispatched is the
  same (`EnviarPcb`, `PaqueteDePcb`), so those steps stutter;
* a page that RESIZE or the end of a process takes or gives is of nobody else
  (`MemoriaPagina`).

Only model-checked: the liveness properties (`RespuestaLlega`, `SeContesta`),
which the prover does not reach, and the runs that show a disagreement.  Every
other property of a run is a theorem, some under the hypotheses named above.

## 5. Plan

Done: the scheduler in two grains with its proofs, the page tables with theirs,
the TLB, the user space with the programs over it and theirs, and DialFS.  Next:

1. Kills and resources in `PlanificadorHilos`.
2. `Archivos` with restarts: what a kill may leave, and what the next start keeps.

Not modelled: the shutdown (`finalizar_kernel`, SALIR) and the disconnection of
an interface, which end threads in the middle of what they do and free what
others use; the sockets themselves (partial reads, a peer that goes away), whose
failures the code answers by ending; EJECUTAR_SCRIPT, which calls the same
commands one after the other; the generic interface's sleep; reading program
files; configuration and logging.
