# A formal model of MAPPA

MAPPA is a distributed simulator of an operating system: a **Kernel** that
schedules processes and manages resources and files, a **CPU** that runs their
instructions, a **Memoria** with paging and a **FileSystem** with a FAT, four
processes that talk over TCP. This directory holds a TLA+ model of its core
(the Kernel's schedulers and syscalls, the CPU they drive, the resources, the
deadlock detection, the file locks, the paging of Memoria with its swap, and the
files of the FileSystem), the TLC configurations that check it and TLAPS proofs
about it. Names in the modules are the names in the code,
Spanish included.

## 1. Inventory

| Component | Source | State | Operations | Modelled in |
|---|---|---|---|---|
| Long-term scheduler | `Kernel/src/PlanificadorLargo.c` | `colaLargo`, `multiprogramacion`, `gradoMultiprogramacion`, `planiLargo` | `planificador_largo` (admit), `planificador_largo_salida` (end a process) | `Planificacion` |
| Short-term scheduler | `Kernel/src/PlanificadorCorto.c` | `colaCorto`, `ejecutandoB`, `planiCorto`, `contexto` | `planificador_corto`, `prioridad`, `clock_rr` (FIFO, RR, PRIORIDADES) | `Planificacion` |
| Syscall handler | `Kernel/src/Kernel.c` | every PCB's `estado` and saved `pc` | `procesar_mensaje` "contexto" and "cargado", detached threads (`hilo_funcion`) | `Planificacion` |
| Console | `Kernel/src/Consola.c` | `detenida`, `procesos`, `PIDGLOBAL` | create, kill, pause, resume, change the degree, print | `Planificacion` |
| Resources | `Kernel/src/Kernel.c`, `PlanificadorLargo.c` | instances, one queue per resource, `recursosTomados` of each PCB | `wait_recurso`, `signal_recurso`, `liberar_recursos` | `Recursos` |
| Deadlock detection | `PlanificadorLargo.c` | reads the resources | `deteccion_deadlock` | `Deteccion` |
| Files of the Kernel | `Kernel/src/KernelMemoria.c` | `tag` (active lock, queue of locks), `tablaArchivos` of each PCB | `f_open`, `f_close`, `liberar_archivos`; `f_seek`, `f_write`, `f_truncate`, `f_read`, `page_fault` | `Archivos`; in part `Planificacion` |
| CPU | `CPU/src/CPU.c` | `proceso`, `ciclo`, `respuesta`, `bloquear`, `interrupcion` | instruction cycle, `check_interrupt`, receivers of the two sockets | `CPU` |
| Memoria, user space | `Memoria/src/MemoriaUsuario.c`, `Memoria.c` | `tablaMarcos`, `tablapaginasGlobales`, the page table of each process, `marcoFIFO`, the RAM | `crear_proceso`, `finalizar_proceso`, `page_fault` with `FIFO` or `LRU`, "marco", "mov_in", "mov_out", blocks of F_READ and F_WRITE | `Memoria` |
| Memoria, instructions | `Memoria/src/MemoriaInstruciones.c` | program files | serve an instruction | constant `Programa` |
| FileSystem, files | `FileSystem/src/FileSystem.c` | FCBs, FAT, blocks, on disk | F_OPEN, F_TRUNCATE (grow, shrink), F_READ, F_WRITE | `FAT` |
| FileSystem, swap | `FileSystem/src/FileSystem.c` | `tablaSWAP`, the first blocks | reserve, write, read, free | `Swap` |
| Sockets and packets | `Utils/src/` | connections | serialise, send, serve in order | channels |

How they interact. The console creates a PCB and asks Memoria to load it;
Memoria's "cargado" puts it in `colaLargo`. `planificador_largo` admits
processes while the degree allows, and posts `planiCorto`. `planificador_corto`
takes the head of `colaCorto` if `ejecutandoB` is false and sends the PCB to the
CPU. The CPU runs until a syscall, a page fault or an interrupt and sends the
PCB back ("contexto"); after a syscall it waits for "respuesta". The handler
saves the PCB, does the syscall, often in a detached thread, and posts
`planiCorto`. An interrupt goes by a socket of its own, received by a thread of
its own. The CPU asks Memoria for the frame of a page ("marco") and, in another
request, for the access; when the page is missing the process goes back to the
Kernel, which asks Memoria to load it ("pageFault"). Memoria keeps what does not
fit in the swap partition of the FileSystem, by one connection that one thread
serves at each end. The Kernel asks the FileSystem for the operations on files;
for F_READ and F_WRITE the FileSystem and Memoria exchange a block by that same
connection, with the physical address the CPU translated before it sent the
process back.

What is hard in it. Each Kernel structure has its own mutex and most handlers
take several, one after another, so the schedulers, the handler, the console
and the detached threads interleave between them. The wake-ups are counting
semaphores, some of them shared by every waiting thread. The CPU has three
threads over one PCB. A SIGKILL may come at any of these points. Memoria has
three threads over the page tables, each page and each frame with its mutex, and
a page fault holds one of them while it waits for the FileSystem. A request on
a file writes the disk several times, and the program may stop in between. The complete
list, with its lines, is `hazards` in `PROJECT.json`.

What makes each part correct:

- schedulers: no process lost or in two places; one process in the CPU; no
  degree overrun; no lost wake-up; who is created ends;
- handler and CPU: a syscall has exactly one answer; a program goes on exactly
  where it stopped; a sleeping process does not run;
- resources: instances are conserved, handed over in order, never left free
  while somebody waits;
- deadlock detection: reports a process exactly when it is on a cycle of waits, and
  hangs only on a cycle further along;
- file locks: participants and tables agree, a writer is alone, the queue is
  served in order and to the last, nobody goes past it but a reader that joins
  readers, a process ends without locks;
- Memoria: the page tables and the tables of frames agree, a page holds what was
  last written to it wherever it is, no two pages share swap, the victim of FIFO
  is the oldest;
- FileSystem: the chains of the FAT are linked and disjoint, as long as the size
  says, no block is lost, and a file reads back what was written in it, whatever
  happens to the others and wherever the program stops, short of stopping a shrink
  half-way, running out of blocks and the other cases of `danio` below.

## 2. Modules

- `Generales`: process identifiers and the list operations on the queues.
- `Recursos`: the three resource operations as a small machine. In `RSpec` a
  process that waits asks nothing more until it is served: it is the abstract
  specification that `Planificacion` implements under FIFO. In `RSpecLibre` any
  process does any operation at any time, which is what a kill makes possible;
  that `Planificacion` is within it follows from how it is written, and is used only
  to carry over what is proved of it.
- `Deteccion` (over `Recursos`): `deteccion_deadlock`, against the definition by
  cycles. The recursion of the search is a function of the mutexes held, each level
  (`Recorrer`) an answer from those with one more.
- `CPU`: one action per half of the cycle where threads can come in between.
- `Planificacion` (over `CPU` and `Deteccion`, and so `Recursos`): the composed system.
- `LectoresEscritores`: the abstract specification of the file locks, said only of
  who has each file and who waits for it.
- `Archivos`: the file locks, on their own until they are composed; it implements
  `LectoresEscritores`.
- `Swap`: the swap partition of the FileSystem and the two directions of its
  connection with Memoria.
- `Memoria` (over `Swap`): paging, with the CPU, the Kernel and the FileSystem's
  other connection as far as they decide what is asked and when.
- `SistemaArchivos`: the abstract specification of the files, a sequence of blocks
  per file and a request that is done at once or lost.
- `FAT`: the files over FCBs, FAT and blocks; it implements `SistemaArchivos`.
- `RecursosProofs`, `DeteccionProofs`, `ArchivosProofs`, `FATProofs`, `MemoriaProofs`:
  theorems of those modules. The ones of `Planificacion` are in `PlanificacionProofs` (types and
  resources, for every algorithm), `PlanificacionFIFOProofs` (planning by FIFO, where
  each process is, after the lemmas about counting that it needs) and
  `PlanificacionOrdenProofs` (what rests on that).
- `RecursosMC`, `PlanificacionMC`, `ArchivosMC`, `MemoriaMC`, `FATMC`: constants of
  the runs. The programs the processes run are there.

### Correspondence of `Planificacion`

The two schedulers have a position (`largo`, `corto`), a step per critical
section. Every other thread is the list of the calls it has still to make:
`hilo["despacho"]` (the socket of the CPU), `hilo["memoria"]` (the socket of
Memoria), `hilo["consola"]`, and one per detached thread (`Sueltos`). Each call
is an action (`CambiarEstado`, `SemPost`, `WaitConInstancia`, `Salida` ...), so
two threads interleave between any two calls. `Atencion` is the switch of
`procesar_mensaje`, `Rutinas` the functions of the detached threads (one operator
each: `sleep_proceso`, `page_fault`, `f_truncate`, `f_write`), `ColaDeSalida` the
rest of `planificador_largo_salida`. `caido` is true once the code has
dereferenced a NULL: `queue_pop` of a queue emptied meanwhile, `f_write` of a file
the process does not have open (`EscribirSinAbrir`), or the second step of the loop
of `liberar_recursos`, which removes at an index that grows while its list shrinks
(`LiberarPrimero`: the first resource is returned or handed over, and the Kernel
dies). From there nothing happens.

A process that blocks on a resource has its wait searched for deadlocks
(`DetectarDeadlock`) by the operator of `Deteccion`. When the search locks the mutex
of a PCB it already holds, the thread stays at the call "colgado", with
`mutexRecursos` taken: the operations of `wait_recurso`, `signal_recurso` and the
release of resources need it (`MutexRecursosLibre`) and stop too. The mutexes of the
PCBs the search holds then are not kept, so the model lets a `push_colaCorto` or a
dispatch of those processes go on. `planificador_largo_salida` searches too (line
207), after the resources were released: it finds none and does nothing. No
resource is named like a file or SLEEP, so blocking on those searches nothing.

What is one step in the model and more than one lock in the code:

- the crash of a release of two resources, which is one with the release of the
  first, and that of `f_write`, one with the creation of its thread;
- the fetch, Memoria's answer and `pc++`: nobody else looks at them, but a
  dispatch that overwrites the PCB in that window is not distinguished from one
  before it;
- the `sem_wait` of a scheduler and the reads that follow it under
  `mutexDetenida`; `ejecutandoB` and the `queue_pop` that follows in
  `planificador_corto`, the only one that sets the flag (setting it and sending the
  PCB are two steps, `CortoOcupa` and `CortoEnvia`; the second also starts the clock);
- in the handler, `ejecutandoB = false`, the look at the state and the saving of
  the PCB;
- the change of state and the push inside `push_colaCorto`; in `signal_recurso`,
  the push of the process to the front and of the one that receives;
- the CPU's reset of `bloquear` and its `sem_wait(&respuesta)`.

A wait for the File System is a thread that stays at its next call for as long
as it likes. Memoria is a queue of requests answered in order; it may reject a
load. Programs hold instructions by what they make the CPU do: registers are
not kept, so a JNZ may jump or not, and an access may fault or not. `estadoAntiguo`
of `planificador_largo_salida` is a `bool` holding an enum whose NEW is 0, so it
tells NEW from the rest, and no more; the model says so. An interrupt sent by
`signal_recurso` has no pid and the CPU reads the next element of the list, the
socket's descriptor: the constant `FdInterrupcion`, which is nobody's pid in the
runs; when it is one, `UnSoloLugar` and `DesalojoEmparejado` do not hold. The thread that receives it writes
the reason, compares the pid and marks the interrupt in three steps
(`RecibirInterrupcion`, `CompararPid`, `MarcarInterrupcion`). F_OPEN, F_CLOSE and
F_READ are not instructions of the model.

### Correspondence of `Archivos`

A record of `tag` is `lockActivo[f]`, `participantes[f]` (how many times each
process is listed) and `colaLocks[f]`; `tap[p][f]` is the process's own table.
`f_open` is one step, under the record's mutex: granted (`AbrirYa`) or queued
(`AbrirYEsperar`). `f_close` is one step: others remain, nobody waits, or the
queue is served (`CerrarConOtros`, `CerrarUltimo`, `CerrarYConceder`; the loop
over the readers is `Tanda` and `Restan`). A reader joins readers though a writer
waits (line 170): `LocksEnOrden` says that it is the only one let past the queue
(`SoloLectoresSeSuman`), besides that a close serves the queue from its front
(`SinAdelantarLocks`). `liberar_archivos` copies the keys
(`Salir`), closes them one at a time (`CerrarUno`), with the others at work in
between, and destroys the table (`DestruirTabla`). Assumed of the programs: one
opens a file it does not have open. A process that waits issues nothing and,
unless `MatarEnEspera`, is not killed.

`LectoresEscritores` has no lock of its own: whether a process may enter is said of
those that have the file (`Admite`), and a release (`Soltar`) serves the front of the
queue, however many it takes, so that who has the file can be together and the first
that is left could not enter. `espera` is `colaLocks`, and `tiene` is `Tienen`, who
has the file by the global table; a close of a file the process does not have is a
stutter. It says what the other properties do not: a writer taken off the queue and
not put back would leave the tables in agreement, the order respected, and nobody
waiting (the mutant of `ImplementaLocks`).

A kill of a process that waits breaks the tables of the processes (`archivos_kill`),
not the global one: `LockCoherente` and `TerminaSinLocks` need that there are no such
kills, `EsperaJustificada`, `LocksEnOrden` and `ImplementaLocks` hold with them, which
the run does not show and the theorems do. Granting a
file to a process whose table is destroyed writes freed memory; that step is the
last (`roto`), in the model and in what is said of the code.

### Correspondence of `Memoria`

A page is a pair `<<pid, number>>`. Its `pagina_t` is spread over `posSWAP[g]`,
`marcoDe[g]` (its `marco` while `p` is 1, or -1) and `modificadas` (`m`); a frame
is in `libres` or not; `inversa[k]` is the entry of `tablapaginasGlobales`;
`tiempo` orders the frames by their timers and is kept only under LRU, the only one
that reads them. Contents are one value per page: `tamPagina` bytes are written by
`set_dato` word by word, and a page is one word here.

Memoria has one thread per connection. The Kernel's (`kernel`, `pedida`,
`victima`) attends a load, a fault or an end to the end, and stops in it to wait
for the FileSystem at a semaphore (`semaforos`). `page_fault` is one step up to the
first message it waits for, one more after each answer: `FallaConMarcoLibre`,
or `FallaConVictima` and `VictimaGuardada`, then `paginaCargada`. From
`FallaConVictima` to `VictimaGuardada` it holds the mutex of the victim's page,
for which `Traducir...` and `Marcar` wait. The CPU's thread translates
(`TraducirPresente`, `TraducirAusente`) and accesses in a later request
(`mov_in`; `mov_out`, which writes the frame, and `movido_out`, which marks the
page that has it). The FileSystem's thread takes its messages in order
(`asignar_swap`, `cargar_pagina_swap`, `recibir_datos_bloque`,
`enviar_datos_bloque`, and the two answers that only post), and marks in a second
step (`BloqueMarcado`).

Outside: a process (`hace`) translates and uses; the Kernel asks for a page that is
missing, and answers wake any of the threads that wait for one like it
(`Despertar`; the semaphores are shared); it kills or ends a process that is not
in the CPU; it asks the FileSystem for F_READ and F_WRITE, one at a time. Loads
come in order of pid.

`danio` says that something went wrong which the code does not prevent, and from
then on nothing happens and nothing is promised:

- the physical address of an access or of a transfer is not that of its page any
  more, because it was replaced, loaded again or ended in between (`Vigente`), or
  its page is on its way out and a write would be lost (`VigenteParaEscribir`);
- the bytes of an access or of a block run over the end of the frame: nothing checks
  that the address of an F_READ or F_WRITE is the start of a page, and `tamPagina`
  bytes are moved whatever it is (`UsarDireccion`);
- a request names a process without a page table (`pagina_get` reads from a
  NULL list), or the victim or the frame to mark belonged to one
  (`finalizar_proceso` does not clean `tablapaginasGlobales`);
- a page is asked for twice, and loaded into two frames;
- `reservar_SWAP` ran out of blocks; it announces as many as were asked for, and
  `asignar_swap` takes for a position the number of the socket that `manejar_cliente`
  adds to the message, then reads a NULL.

What is one step here and more than one lock in the code: the choice of the
victim, the lock of its mutex and the reading of its frame; the look at
`tablapaginasGlobales` and the lock of the page in `set_dato`; in
`finalizar_proceso`, taking the process out of the dictionary, the message to the
FileSystem and the freeing of its frames and pages (a thread that holds one of those
pages meanwhile, and would use it freed, is not told from one that finds no table);
`reservar_SWAP` over
its blocks (nobody else touches `tablaSWAP`: one thread serves the connection).
Two configurations that ship with the code have pages of 32 bytes and blocks of 16:
a block of swap then holds half a page. The model assumes they are equal, which
is what `descargar_pagina_swap` and `escribir_pagina_swap` assume of each other.
Not kept: an access to a page beyond the table (`pagina_get` answers NULL and
"marco" is not answered, `Memoria.c:209`), and the `ceil` of an integer division in
`crear_proceso`, which makes `CantPaginas` smaller than the program needs.

### Correspondence of `FAT`

`tamanio[f]` and `inicial[f]` are TAMANIO_ARCHIVO and BLOQUE_INICIAL of the FCB
(`FCBVacio`: the file exists and is empty, as `fopen` with "w" leaves it until
`config_save`); `fat` and `bloques` are the two files of their name. Sizes and
pointers count blocks. The thread of the Kernel's connection serves a request in
steps (`paso`), each of which reads or writes the disk once: F_OPEN (`f_open`,
`crear_archivo`); F_TRUNCATE up (`Agrandar`, the walk to the last block
`Ultimo...`, the loop over the FAT `Asignar...` and `Enlazar`) and down (`Achicar`,
the list of blocks `Listar...`, the loop that frees them `Borrar...`), ending
in `Guardar`; F_READ and F_WRITE (`Acceder`, the walk of `obtener_bloque` `Saltar`,
and the block). The Kernel stops a transfer on a file of size 0 before it
gets here; nothing else is assumed of the requests.

`Caida` stops the program at any step and runs it again over the same disk. A step
that writes is taken to be on disk when it ends: stdio keeps at most the last write
until the next `fseek` or `fclose`, in order, so stopping before it gets there is
stopping at the step before. `config_save` is one write.

`cadena` (the blocks each file has), `perdidos` (blocks in use that no file has,
because the program stopped after taking them and before saving the FCB) and
`leido` are history. `danio` ends the promise, as in `Memoria`:

- extending a file of exactly one block (`bloqueReal` has no value,
  `FileSystem.c:165-176`), truncating to zero one with blocks (`list_get` of -1,
  line 254), opening an FCB left empty by a stop;
- running out of blocks: the size is saved all the same;
- a read or a write past the end. The read is let through one block too far
  (line 311) and the write has no check; `obtener_bloque` then answers
  `UINT32_MAX` and `cantBloquesSWAP + bloque` wraps round to the last block of swap;
- stopping after a shrink has freed blocks and before it saves the size.

So what is shown is that there is nothing else: short of these, the files work.
Sizes that are not a multiple of `tamBloque` are not modelled; the loops divide
the difference and not the sizes, and lose the remainder.

## 3. Runs

No symmetry is used: pids are ordered (`Pids == 1..MaxProcesos`), and the
resources have names in the programs. `CHECK_DEADLOCK FALSE` everywhere: the
system really stops, idle when the console types nothing more, every process
blocked in a deadlock of its own making, or crashed (`caido`, `roto`, `danio`).

| Run | Question | Bounds |
|---|---|---|
| `recursos` | are instances conserved, handed in order, never free while waited for; one queue per waiting process; is the detection of deadlock exact | 3 processes, 3 resources, one with 2 instances: cycles of 2 and 3, chains that lead to a cycle, on which the search hangs |
| `planificacion_fifo` | no PCB lost or duplicated, one process in the CPU, one answer per syscall, programs in order, `RSpec` implemented | 2 processes: WAIT contended and not, SLEEP, SIGNAL, F_WRITE (valid or not), F_SEEK, an unknown resource, a SIGNAL too many |
| `planificacion_grado` | degree and wake-ups | 3 processes, degree 1 then 2, a pause, a rejected load |
| `planificacion_progreso` | does everybody end | 2 processes, contended WAIT never signalled, a page fault, a loop, a pause |
| `planificacion_kill` | do the instances survive a kill at any moment; does the search for deadlocks hang only around a cycle | 2 processes, 2 instances wanted twice each, 1 kill; a search that may hang |
| `planificacion_algoritmos` | is each preemption by priority answered by its own context (`DesalojoEmparejado`) | 2 processes, RR and PRIORIDADES, preemption with a resource held, 1 quantum |
| `planificacion_quantum` | violation, see below | RR, 1 quantum |
| `archivos` | do the tables agree; are locks granted in order and to the last; does a process end without any; is `LectoresEscritores` implemented | 4 processes, 2 files: a writer with readers and writers queued behind it; nobody is killed while it waits |
| `archivos_kill` | violation, see below | 3 processes |
| `memoria` | do pages, frames and swap agree; does paging lose a write; is FIFO's victim the oldest | 2 processes of 2 pages and 1, 2 frames, 3 blocks of swap, 2 values, FIFO and LRU, 1 transfer with a file, any number of faults, ends of both |
| `memoria_swap` | violation, see below; with `MaxArchivos = 0` it passes | 2 processes of 1 page, 1 frame, 1 transfer |
| `fat` | are the chains right at every step; is `SistemaArchivos` implemented; is swap left alone | 2 files, 4 usable blocks, 2 blocks of swap, sizes and pointers 0 to 3, 1 stop, any number of requests |

Why these bounds are enough to be of interest: two processes are what it takes
for contention and hand-over, for a dispatch that races a return and a kill that
races a grant; three for a degree below the number of processes and for cycles
of waits; four for a lock with a batch of readers before a writer. Three pages over two
frames make every load after the second a replacement, and leave a page in swap
while others come and go; with the blocks of swap equal to the pages, one block
too many is noticed. Two files whose sizes add up to more than the blocks there are
interleave their chains and exhaust the FAT; a file of three blocks has a first, a
middle and a last. `Sueltos`
(detached threads at once) is never less than the processes that can be blocked
in one, except in `planificacion_progreso`, where it is one and a thread that
cannot be created waits. Pauses, kills, changes of degree, rejections, quanta and
page faults, transfers with files and stops are bounded by the `Max...` constants, all of them counts of external
events; `MaxProcesos` bounds the pids.

`UnSoloLugar`, `CpuUnica` and `RespuestaEmparejada` are stated for FIFO without
kills. With them the code does not hold them, for the reasons the hazards list.

### Fairness

`PSpecJusta` asks weak fairness of every thread (the CPU's three, the schedulers,
the handler, each detached thread, the clocks) and of Memoria's answers: threads
are scheduled by the operating system and none of them spins. Nothing is asked
of the console. The semaphores need no strong fairness here, since one thread
waits on each or, on `paginaCargada`, whichever wakes. `Progreso` only promises
if planning stays on.

`ASpecJusta` asks that a process able to end again and again does (strong
fairness of `Salir`, for a program that opens and closes files in between is one
that has an EXIT) and that `liberar_archivos` goes on. `EsperaAtendida` is
conditional: nobody waits for a file with another open. Without that, two
processes can wait for each other's file for ever, and the code has no remedy
for it: `deteccion_deadlock` looks at resources only.

`MSpecJusta` asks weak fairness of Memoria's threads, of the FileSystem's and of the
CPU's for each process. Page faults are asked strong fairness one by one: the
Kernel's messages are served in the order of the socket, so one that waits is
served if the thread is free again and again. None of it helps the thread of
`memoria_swap`, where both wait for each other.

### What the violations show

- `planificacion_quantum`. `check_interrupt` posts `ciclo` when no interrupt is
  marked (`CPU.c:488`) and looks at the flag again later (`CPU.c:500`). An
  interrupt marked in between sends the process back while the extra token makes
  the CPU fetch once more from the PCB it gave up. The process runs its SLEEP, the
  Kernel dispatches it again meanwhile, and it executes while it is BLOCKED.
- `archivos_kill`. `liberar_archivos` closes the files of the process's own table,
  and a lock that waits is in none. A process killed while it waits keeps its
  place in `colaLocks`; `f_close` gives it the file later, and it never closes it.
- `memoria_swap`. "Guardar en bloques SWAP y luego continuar", says
  `MemoriaUsuario.c:261`; it does not continue. `page_fault` holds the victim's
  mutex while it waits for `sem_escribirSwap`. The post comes from the thread that
  serves the FileSystem, after the messages before it; if one of those is the block of
  an F_READ into the victim's frame, `set_dato` waits for that mutex.

## 4. Proofs

Everything below is for any number of processes, resources, files, programs and
bounds. Assumed: the ASSUMEs of the modules (types of the constants).

- **Resources.** `RTipo`, `RConservacion`, `RNadie` hold of `RSpecLibre`, whatever
  the users do. Conservation is about a sum over processes; its invariance
  rests on lemmas about that sum when one entry changes. `EsperaUnica`
  and `EntregaEnOrden` (`RColas`, `ROrden`) need that a process that waits asks
  nothing more, so they are proved of `RSpec`; the order needs `EsperaUnica`.
- **Deadlock detection** (`DeteccionProofs`). `RDeteccion`: in every state of
  `RSpecLibre` the search answers what the wait-for graph says. The table of a
  recursive definition need not exist: `VerificacionEcuacion` shows that this one does
  (`Bueno`: a table right wherever fewer than n mutexes are free gives one for n + 1).
  Then, one lemma per answer. If it is "si", a set closed under the waits of p
  that lacks p would have a process of the chain outside it at every level, with ever
  more mutexes held. If it is "no", the processes seen with that answer are closed under
  "waits for one of them" and p is not there. If it hangs, the mutexes held are
  those of a path to p (`Camino`) and the one it meets again closes a cycle that p is
  not on. Each induction is on the mutexes held, which only grow, and is made by taking
  a largest set that fails (`TomadosMaximo`), since the induction rules of the library
  are out of the provers' reach. The proof does not use that the process waits, nor
  anything of the state but its types.
- **Composed system.** `PTipo` is type correctness of every thread's remaining
  calls, the channels and the CPU. It needs the strengthening in `CPUTypeOK`: that
  whoever sends the PCB back has one, and an interrupt marked has a reason.
  `PRefina`, a lemma: each step of `PSpec` is a step of `RSpecLibre` or leaves the
  resources alone. With it `Conservacion` and `NadieEsperaConInstancias` hold
  of the whole system (`PConservacion`, `PNadie`), and so does `DeteccionExacta` (`PDeteccion`), for any
  algorithm and any kill, without proving anything again. `PCuelgue`: a hang in the
  search begins only around a cycle of waits that the process is not on, and the
  cycle lasts as long as the hang. Its invariant adds `SoloCabeza`: "colgado" is
  never behind another call of a list, so it can only be where `DetectarDeadlock` put
  it; with `mutexRecursos` taken the tables of resources cannot change from there.
- **Planning by FIFO** (`PlanificacionFIFOProofs`). Assumed: `SoloFIFO`, that is
  `Algoritmos = {"FIFO"}` and no kill from the console, and `[]DescriptorAjeno`: when
  the CPU compares the descriptor it reads for a pid (`FdInterrupcion`), that is not the
  pid of the process it works on. They are
  hypotheses of each theorem and not of the module: with preemption or a kill the code does
  not have these properties, and without the second a SIGNAL loses a process
  (`Kernel.c:399` pushes it nowhere). The code does not see to the second: pids grow from
  1 and the descriptor is a small number. `DescriptorLejano` proves it, from the same
  invariant, as long as fewer processes have been created than that number. Programs, degree, processes, threads, pauses, page faults,
  transfers, invalid ones, and ends by an unknown resource are
  arbitrary. The invariant is `FInv`. `SinDesalojo`: no interrupt is ever marked and a
  context comes back by a syscall or a page fault only. `CpuContada`: dispatches on
  their way, the CPU's work and contexts on their way add up to `ejecutandoB`.
  `RespuestaContada`: the same for the answer after a syscall. `LugaresContados`: the
  places of a process add up to one while it is admitted, and the places of its load
  add up to one while it is NEW; a place is an element of a queue or a channel, the CPU,
  a scheduler's hand, or a call that some thread has still to make and that moves the
  process. `CargaEnOrden` (the console waits for the load it asked for) is why
  a process is loaded once. `HilosBien` and `Encadenadas` say which calls
  a thread may have left and what must follow them: a change of state that is
  still to be made belongs to a process that a later call of the same list holds, so it
  cannot overwrite what another thread has done. None of the seven is inductive without the
  others. On it rest `PUnSoloLugar`, `PCpuUnica` and `PRespuestaEmparejada`.
- **What rests on it** (`PlanificacionOrdenProofs`), each with its own strengthening.
  `Alcanzan`: nobody but the scheduler takes from its queue, so `queue_pop` finds what was
  seen before the unlock; with it `PRefinaFIFO`, the system implements `RSpec`: a process
  that waits issues nothing more. `Fiel`: the `pc` in a dispatch, in the CPU, in a
  context or saved in the PCB, wherever the process is, is the one it is at; with it
  `PInstruccionSiguiente`, which needs that there is one such place.
  `GradoContado`: admitted processes and discounts pending are `multi`, the one that
  `planificador_largo` has admitted and not counted yet, and the ends pending; with
  `Prolijas` (an end is followed by its discount in the same list, so there are no more
  ends than discounts pending) it gives `PGradoRespetado`. That one adds the hypothesis
  `[][GradoNoBaja]_pvars`: the console may change the degree at any moment, but
  does not lower it; lowering it expels nobody. `Anunciado`: with a process ready, the CPU
  free and planning on, there is a token, a scheduler at work or a thread with the
  post still in its list and no push before it; with it `PSinDespertarPerdido`.
- **File locks.** With kills of processes that wait: `ATipo`, `AJustificada`,
  `ALocksEnOrden` and `ALocksImplementan`. `ALocksEnOrden` is about steps. The batch a
  close grants is a prefix of the queue, and who `f_open` lets in past a queue is a
  reader among readers, with a writer first in it (`LectoresSeSuman`, from
  `EsperaJustificada`); and by `Esperan` (who waits for a file has
  not got it and waits for it once) whoever is in it is nowhere else in the queue.
  `ALocksImplementan` is the refinement of `LectoresEscritores`. Its invariant is `LInv`:
  besides the types and `EsperaJustificada`, `Listados` (nobody is listed twice in a
  lock, and of those that are alive the ones listed are those that have the file; of
  the others nothing is said, for a kill parts the two tables) and `Activos` (a lock is
  free exactly when nobody is listed, and a writer is alone). With it `Compatible` is
  `Admite`, and a close that serves the queue is one by a process that has the file,
  because nobody waits for a free lock. `TandaPrefijo` is the lemma about the loop of
  `f_close`: it takes exactly a front of the queue and leaves exactly the rest.
  `ACoherente` and `ATermina` assume `MatarEnEspera = FALSE`; their invariant is `AInv`:
  besides `LockCoherente` and `Esperan`, `EsperanVivos` (who waits is alive) and `Salen`
  (the keys `liberar_archivos` has still to go through are exactly the files the
  process has, because nothing can be granted to it any more). `LockCoherente` is what
  makes a close by the last participant mean that nobody has the file.
- **Files.** `FInvariante` is the inductive invariant: the types and, until the promise ends, ten parts: what each
  `paso` knows of its request (`IPaso`, `IAsignar`, `ILista`, `ICamino`), the FCBs
  (`ISinFCB`, `ITamanio`, `IInicio`), the links (`IEnlace`), disjointness (`IDisjuntas`)
  and the blocks in use (`IOcupados`). `CadenaEnlazada` and `BloquesPropios` need
  each other (a block found free is in no chain because chains are in use; linking it
  leaves the others alone because they are disjoint), and both need what the
  shrinking loop knows of its list: a prefix of the chain, linked as far as what
  is left, and free after it. `TamanioCumplido` is what lets `ListarBloque` go on
  to the size without leaving the chain. On this invariant rest `FTipos`,
  `CadenasEnlazadas`, `BloquesSonPropios`, `TamaniosCumplidos`, `SwapQuedaIntacta` and
  `ImplementaSistemaArchivos`, the refinement: a request takes effect at `Guardar`
  or at the access to its block, every other step is a stutter, and a stop loses
  the request and leaves the contents as they were. All but the types is said until
  `danio`: a stop while a shrink frees blocks and running out of blocks are excluded,
  and after them a size does promise blocks the file does not have.
- **Paging** (`MemoriaProofs`). The invariant `MInv` holds for any number of
  processes, pages, frames and blocks; its parts hold until the promise ends. `IUna`
  says that there is one request about swap at a time, in one place (a queue, the
  FileSystem's thread or a semaphore), and `IMensajes` that it is the one the
  Kernel's thread waits for. `IKernel` is what that thread relies on across its
  waits: the victim's block holds what its frame does once "escribirSwap" is
  answered, and the page's frame what its block does once "paginaSWAP" is. `ISwap`
  follows the blocks of a process while it is loaded (free, announced, assigned) and
  while it ends. `Coherencia` makes two pages' frames distinct, so a write through a
  live address disturbs no other page, and `ISwap` makes their blocks distinct; with
  them `PaginasFieles` is preserved by every step. `IModificadas` came out of the
  proof: as `cargar_pagina_swap` loads a page with `set_dato`, every page in RAM is
  marked as modified, and `page_fault` always writes its victim; the branch that
  spares the write is never taken. On it rest `MTipos`, `TablasCoherentes`,
  `BloquesDeSwapPropios` and `PaginasSiempreFieles`. `FIFOTomaLaMasAntigua` adds
  `EnRonda`: until a process ends, `llegada` (the frames by the time they were filled) is
  a rotation of the frames with the free ones first, and `marcoFIFO` is where it
  begins, or one further while the victim is being written.

Model-checked only: liveness (`Progreso`, `EsperaAtendida`), which needs fairness and
ENABLED, out of the proof system's reach. The theorems under `SoloFIFO` and those that
assume `MatarEnEspera = FALSE` say nothing of what their hypotheses exclude; the
violations and the hazards say what happens there.

## 5. Not modelled, and the plan

1. Compose `Archivos` with `Planificacion`: F_OPEN, F_CLOSE and F_READ in the
   CPU and the handler, `liberar_archivos` in the end of a process, the pushes
   `f_close` makes, and `f_read`'s end of a process with `mutexRegistro` held.
2. Put `Memoria` in place of the external of `Planificacion`, where the race of
   `paginaCargada` is a process that runs without its page; here it faults again.
3. Runs that state what a kill breaks in the schedulers: the console that waits
   for a context that will not come, the instance granted to a dead process.
4. Theorems: what of the FIFO invariant survives preemption by quantum or priority
   (one place per process in the queues, degree).

The composition of 1 and 2 multiplies the states of models that take minutes
by themselves, so what crosses the boundary is modelled on each side: `Archivos`
and `Memoria` let the other side do, in any order, all it may do.

Left out for good: reading configuration and program files, logging, `proceso_estado` (it prints), packing of bytes, values of
registers. There are no automated tests in the repository, and its README is a
title, so the claims the code is held to come from its comments and names.
