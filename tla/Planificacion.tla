---------------------------- MODULE Planificacion ----------------------------
(***************************************************************************)
(* The Kernel's schedulers, together with the CPU they dispatch to and the *)
(* resources their syscalls touch.                                         *)
(*                                                                         *)
(* planificador_largo and planificador_corto are threads with a position   *)
(* of their own.  Every other thread (the one that serves the CPU socket,  *)
(* the one that serves Memoria, the console, and the detached threads of   *)
(* hilo_funcion) is the list of the calls it has still to make, `hilo[h]`; *)
(* each call is one action, so threads interleave between calls.  A call   *)
(* is [op, pid, arg]: its name, the process and what else it takes.        *)
(*                                                                         *)
(* File System and Memoria are outside: Memoria answers the requests of    *)
(* its socket in order; a wait for the File System is a thread that stays  *)
(* at its next call for as long as it likes.                               *)
(***************************************************************************)
EXTENDS CPU, Deteccion

CONSTANTS
  Algoritmos,      \* values of ALGORITMO_PLANIFICACION a run considers
  GradoInicial,    \* GRADO_MULTIPROGRAMACION_INI
  Grados,          \* degrees the console may set later
  Prioridad,       \* the priority the console gives each process
  FdInterrupcion,  \* the socket the CPU reads as a pid in "desalojo_signal"
  Sueltos,         \* bound: detached threads alive at once
  MaxPausas, MaxKills, MaxCambios, MaxRechazos, MaxQuantums  \* bounds on external events

ASSUME PlanificacionAssumption ==
  /\ Algoritmos \subseteq {"FIFO", "RR", "PRIORIDADES"}
  /\ GradoInicial \in Nat \ {0} /\ Grados \subseteq Nat \ {0}
  /\ Prioridad \in [Pids -> Nat]
  /\ FdInterrupcion \in Nat \ {0}
  /\ IsFiniteSet(Sueltos) /\ {"despacho", "memoria", "consola"} \cap Sueltos = {}
  /\ {MaxPausas, MaxKills, MaxCambios, MaxRechazos, MaxQuantums} \subseteq Nat

Hilos     == {"despacho", "memoria", "consola"} \cup Sueltos
Semaforos == {"planiLargo", "planiCorto", "contexto", "procesoCargado",
              "procesoTerminado", "paginaCargada", "paginasLiberadas"}

VARIABLES
  algoritmo, creados,      \* ALGORITMO_PLANIFICACION; PIDGLOBAL and list_size(procesos)
  estado, pcb,             \* of each PCB: its state and its saved pc
  colaLargo, colaCorto, detenida, grado, multi, ejecutandoB,
  sem,                     \* the semaphores of the Kernel
  hilo,                    \* the calls each thread has still to make
  largo, corto,            \* planificador_largo and planificador_corto
  relojes,                 \* clock_rr threads that watch each process
  canalMemoria,            \* requests Memoria has not answered
  eventos                  \* bound: external events so far

colas    == <<colaLargo, colaCorto>>
tabla    == <<creados, estado, pcb>>
consigna == <<algoritmo, detenida, grado, eventos>>
cortoVar == <<ejecutandoB, corto, relojes>>
kernel   == <<consigna, tabla, colas, multi, sem, hilo, largo, cortoVar, canalMemoria>>
pvars    == <<kernel, cpuVars, rvars>>

EventosMax == [pausas |-> MaxPausas, kills |-> MaxKills, cambios |-> MaxCambios,
               rechazos |-> MaxRechazos, quantums |-> MaxQuantums]

PInit ==
  /\ CPUInit /\ RInit
  /\ algoritmo \in Algoritmos /\ creados = 0
  /\ estado = [p \in Pids |-> "NULO"] /\ pcb = [p \in Pids |-> 0]
  /\ colaLargo = <<>> /\ colaCorto = <<>>
  /\ detenida = FALSE /\ grado = GradoInicial /\ multi = 0 /\ ejecutandoB = FALSE
  /\ sem = [s \in Semaforos |-> 0]
  /\ hilo = [h \in Hilos |-> <<>>]
  /\ largo = [pc |-> "esperar", resto |-> 0, pid |-> 0]
  /\ corto = [pc |-> "esperar", pid |-> 0]
  /\ relojes = [p \in Pids |-> 0]
  /\ canalMemoria = <<>>
  /\ eventos = [e \in DOMAIN EventosMax |-> 0]

(* An external event a bound allows once more.                             *)
Ocurre(e) == /\ eventos[e] < EventosMax[e]
             /\ eventos' = [eventos EXCEPT ![e] = @ + 1]

-----------------------------------------------------------------------------
(* The calls.                                                              *)
Op(nombre, p, x)     == [op |-> nombre, pid |-> p, arg |-> x]
SinArg               == ""
Simple(nombre, p)    == Op(nombre, p, SinArg)
cambiar_estado(p, e) == Op("cambiar_estado", p, e)
push_colaCorto(p)    == Simple("push_colaCorto", p)
sem_post(s)          == Op("sem_post", 0, s)
sem_wait(s)          == Op("sem_wait", 0, s)
responder            == Simple("respuesta", 0)
hilo_funcion(p, f)   == Op("hilo_funcion", p, f)
salida(p, razon)     == Op("planificador_largo_salida", p, razon)

(* What planificador_largo_salida does once the process is off the CPU;    *)
(* e is the state it found at its first line.                              *)
ColaDeSalida(p, e) ==
  << Simple("quitarCorto", p), Simple("quitarLargo", p), Simple("liberar_recursos", p),
     Simple("liberar_paginas", p), sem_wait("paginasLiberadas"),
     cambiar_estado(p, "TERMINATED") >>
  \o IF e # "NEW" THEN <<Simple("bajar_multi", p), sem_post("planiLargo")>> ELSE <<>>

(* The routines hilo_funcion starts, by the calls they make.  No resource  *)
(* is named like a file or SLEEP, so blocking here searches no deadlock.   *)
Volver(p)        == <<push_colaCorto(p), sem_post("planiCorto")>>
sleep_proceso(p) == <<cambiar_estado(p, "BLOCKED")>> \o Volver(p)
page_fault(p) ==
  <<cambiar_estado(p, "PAGBLOCK"), Simple("cargar_pagina", p), sem_wait("paginaCargada")>>
  \o Volver(p)
f_truncate(p)    == <<cambiar_estado(p, "BLOCKED"), sem_post("planiCorto")>> \o Volver(p)
(* A file opened to be read, or empty, ends the process.                   *)
f_write(p) ==
  {<<cambiar_estado(p, "BLOCKED"), sem_post("planiCorto")>> \o Volver(p),
   <<cambiar_estado(p, "BLOCKED"), salida(p, "INVALID_WRITE")>>}

Rutinas(f, p) ==
  CASE f = "sleep_proceso" -> {sleep_proceso(p)}
    [] f = "page_fault"    -> {page_fault(p)}
    [] f = "f_truncate"    -> {f_truncate(p)}
    [] f = "f_write"       -> f_write(p)

(* The switch of procesar_mensaje "contexto", by reason.                   *)
AlFrente(p) == <<Simple("ordenar_adelante", p), sem_post("planiCorto")>>
Atencion(razon, p, arg) ==
  CASE razon = "procesoExit" -> <<salida(p, "SUCCESS"), responder>>
    [] razon = "prioridades" -> <<Simple("push_si_EXEC", p), sem_post("contexto")>>
    [] razon = "quantum"     -> <<Simple("push_si_EXEC", p), sem_post("planiCorto")>>
    [] razon = "wait"        ->
         <<cambiar_estado(p, "READY"), Op("wait_recurso", p, arg), responder>>
    [] razon = "sleep"       ->
         <<cambiar_estado(p, "READY"), sem_post("planiCorto"),
           hilo_funcion(p, "sleep_proceso"), responder>>
    [] razon = "signal"      ->
         <<cambiar_estado(p, "READY"), sem_post("planiCorto"),
           Op("signal_recurso", p, arg), responder>>
    [] razon = "desalojo_signal" -> <<sem_post("planiCorto")>>
    [] razon = "page_fault"  ->
         <<hilo_funcion(p, "page_fault"), responder, sem_post("planiCorto")>>
    [] razon = "f_seek"      -> <<cambiar_estado(p, "READY"), responder>> \o AlFrente(p)
    [] razon \in {"f_write", "f_truncate"} -> <<hilo_funcion(p, razon), responder>>
    [] razon = "TERMINATED"  -> <<cambiar_estado(p, "READY"), sem_post("procesoTerminado")>>

-----------------------------------------------------------------------------
(* Steps of the threads that are lists of calls.                           *)
Llama(h, nombre) == ~caido /\ hilo[h] # <<>> /\ Head(hilo[h]).op = nombre
De(h)            == Head(hilo[h]).pid
Sigue(h, ops)    == hilo' = [hilo EXCEPT ![h] = ops \o Tail(@)]
Avanza(h)        == hilo' = [hilo EXCEPT ![h] = Tail(@)]
Publica(s)       == sem' = [sem EXCEPT ![s] = @ + 1]

(* What no call changes.                                                   *)
FijoEnLlamadas ==
  UNCHANGED <<consigna, pcb, largo, cortoVar, nucleo, canalContexto>>

CambiarEstado(h) ==
  /\ Llama(h, "cambiar_estado") /\ Avanza(h)
  /\ estado' = [estado EXCEPT ![De(h)] = Head(hilo[h]).arg]
  /\ FijoEnLlamadas
  /\ UNCHANGED <<creados, colas, multi, sem, canalDespacho, canalInterrupcion, canalMemoria, rvars>>

SemPost(h) ==
  /\ Llama(h, "sem_post") /\ Avanza(h)
  /\ Publica(Head(hilo[h]).arg)
  /\ FijoEnLlamadas
  /\ UNCHANGED <<creados, estado, colas, multi, canalDespacho, canalInterrupcion, canalMemoria, rvars>>

(* Bug: a wait that does not wait.                                         *)
SemWait_SinEsperar(h) ==
  /\ Llama(h, "sem_wait") /\ Avanza(h)
  /\ sem' = [sem EXCEPT ![Head(hilo[h]).arg] = @ - 1]
  /\ FijoEnLlamadas
  /\ UNCHANGED <<creados, estado, colas, multi, canalDespacho, canalInterrupcion, canalMemoria, rvars>>

SemWait(h) ==
  /\ Llama(h, "sem_wait") /\ Avanza(h)
  /\ sem[Head(hilo[h]).arg] > 0
  /\ sem' = [sem EXCEPT ![Head(hilo[h]).arg] = @ - 1]
  /\ FijoEnLlamadas
  /\ UNCHANGED <<creados, estado, colas, multi, canalDespacho, canalInterrupcion, canalMemoria, rvars>>

(* push_colaCorto does not add a process that is already there.            *)
ConAlFinal(p, cola) == IF EnCola(p, cola) THEN cola ELSE Append(cola, p)

PushColaCorto(h) ==
  /\ Llama(h, "push_colaCorto") /\ Avanza(h)
  /\ estado' = [estado EXCEPT ![De(h)] = "READY"]
  /\ colaCorto' = ConAlFinal(De(h), colaCorto)
  /\ FijoEnLlamadas
  /\ UNCHANGED <<creados, colaLargo, multi, sem, canalDespacho, canalInterrupcion, canalMemoria, rvars>>

(* A process the CPU returns by interrupt: pushed if nobody changed it.    *)
PushSiEXEC(h) ==
  /\ Llama(h, "push_si_EXEC")
  /\ IF estado[De(h)] = "EXEC" THEN Sigue(h, <<push_colaCorto(De(h))>>) ELSE Avanza(h)
  /\ FijoEnLlamadas
  /\ UNCHANGED <<creados, estado, colas, multi, sem, canalDespacho, canalInterrupcion,
                 canalMemoria, rvars>>

(* The push of wait_recurso, which adds the process whatever the queue has.*)
QueuePush(h) ==
  /\ Llama(h, "queue_push") /\ Avanza(h)
  /\ colaCorto' = Append(colaCorto, De(h))
  /\ FijoEnLlamadas
  /\ UNCHANGED <<creados, estado, colaLargo, multi, sem, canalDespacho, canalInterrupcion,
                 canalMemoria, rvars>>

OrdenarAdelante(h) ==
  /\ Llama(h, "ordenar_adelante") /\ Avanza(h)
  /\ colaCorto' = <<De(h)>> \o colaCorto
  /\ FijoEnLlamadas
  /\ UNCHANGED <<creados, estado, colaLargo, multi, sem, canalDespacho, canalInterrupcion,
                 canalMemoria, rvars>>

Responder(h) ==
  /\ Llama(h, "respuesta") /\ Avanza(h)
  /\ canalDespacho' = Append(canalDespacho, [tipo |-> "respuesta", pid |-> 0, pc |-> 0])
  /\ FijoEnLlamadas
  /\ UNCHANGED <<creados, estado, colas, multi, sem, canalInterrupcion, canalMemoria, rvars>>

(* pthread_create and detach: a free detached thread takes the routine.    *)
Libres == {s \in Sueltos : hilo[s] = <<>>}
HiloFuncion(h) ==
  /\ Llama(h, "hilo_funcion") /\ Libres # {}
  /\ \E ops \in Rutinas(Head(hilo[h]).arg, De(h)) :
       hilo' = [hilo EXCEPT ![h] = Tail(@), ![CHOOSE s \in Libres : TRUE] = ops]
  /\ FijoEnLlamadas
  /\ UNCHANGED <<creados, estado, colas, multi, sem, canalDespacho, canalInterrupcion,
                 canalMemoria, rvars>>

(* f_write of a file the process has not opened: get_reg_tap answers NULL, *)
(* and reading it is the first thing the new thread does.                  *)
EscribirSinAbrir(h) ==
  /\ Llama(h, "hilo_funcion") /\ Libres # {} /\ Head(hilo[h]).arg = "f_write"
  /\ Caer
  /\ UNCHANGED <<kernel, cpuVars>>

(* Nobody hangs in deteccion_deadlock with mutexRecursos locked.           *)
MutexRecursosLibre == \A h \in Hilos : hilo[h] # <<>> => Head(hilo[h]).op # "colgado"

(* wait_recurso, by what it finds under mutexRecursos.  Without a free     *)
(* instance the mutex is released before the state becomes BLOCKED, and    *)
(* taken again to search for deadlocks.                                    *)
WaitConInstancia(h) ==
  /\ Llama(h, "wait_recurso") /\ MutexRecursosLibre /\ Head(hilo[h]).arg \in Recs
  /\ TomarInstancia(De(h), Head(hilo[h]).arg)
  /\ Sigue(h, <<Simple("queue_push", De(h)), sem_post("planiCorto"), sem_post("planiCorto")>>)
  /\ FijoEnLlamadas
  /\ UNCHANGED <<creados, estado, colas, multi, sem, canalDespacho, canalInterrupcion, canalMemoria>>

WaitSinInstancia(h) ==
  /\ Llama(h, "wait_recurso") /\ MutexRecursosLibre /\ Head(hilo[h]).arg \in Recs
  /\ EncolarEspera(De(h), Head(hilo[h]).arg)
  /\ Sigue(h, <<cambiar_estado(De(h), "BLOCKED"), Simple("deteccion_deadlock", De(h)),
               sem_post("planiCorto")>>)
  /\ FijoEnLlamadas
  /\ UNCHANGED <<creados, estado, colas, multi, sem, canalDespacho, canalInterrupcion, canalMemoria>>

(* deteccion_deadlock writes a line of the log, or locks the mutex of a PCB*)
(* it holds and stays there, with mutexRecursos.  When the answer depends  *)
(* on the order of the lists it may go either way.                         *)
DetectarDeadlock(h) ==
  LET p == De(h) IN
  /\ Llama(h, "deteccion_deadlock") /\ MutexRecursosLibre
  /\ \/ (deteccion_deadlock(p) # "cuelga" \/ EnCiclo(p)) /\ Avanza(h)
     \/ deteccion_deadlock(p) = "cuelga" /\ Sigue(h, <<Simple("colgado", p)>>)
  /\ FijoEnLlamadas
  /\ UNCHANGED <<creados, estado, colas, multi, sem, canalDespacho, canalInterrupcion,
                 canalMemoria, rvars>>

(* Bug: the branch answers the CPU, and so does the end of the handler.    *)
WaitInvalido_DosRespuestas(h) ==
  /\ Llama(h, "wait_recurso") /\ MutexRecursosLibre /\ Head(hilo[h]).arg \notin Recs
  /\ Sigue(h, <<salida(De(h), "INVALID_RESOURCE"), responder, sem_post("planiCorto")>>)
  /\ FijoEnLlamadas
  /\ UNCHANGED <<creados, estado, colas, multi, sem, canalDespacho, canalInterrupcion,
                 canalMemoria, rvars>>

WaitInvalido(h) ==
  /\ Llama(h, "wait_recurso") /\ MutexRecursosLibre /\ Head(hilo[h]).arg \notin Recs
  /\ Sigue(h, <<salida(De(h), "INVALID_RESOURCE"), sem_post("planiCorto")>>)
  /\ FijoEnLlamadas
  /\ UNCHANGED <<creados, estado, colas, multi, sem, canalDespacho, canalInterrupcion,
                 canalMemoria, rvars>>

(* Bug: who waits is woken, and the instance is free for anybody.          *)
SignalValido_SinEntregar(h) ==
  LET p == De(h)  r == Head(hilo[h]).arg  frente == <<p>> \o colaCorto IN
  /\ Llama(h, "signal_recurso") /\ MutexRecursosLibre /\ r \in Recs /\ tenencia[p][r] > 0
  /\ instancias' = [instancias EXCEPT ![r] = @ + 1] /\ tenencia' = Dejar(p, r)
  /\ IF colaEspera[r] = <<>>
     THEN colaCorto' = frente /\ UNCHANGED <<estado, colaEspera>>
     ELSE /\ colaCorto' = ConAlFinal(Head(colaEspera[r]), frente)
          /\ estado' = [estado EXCEPT ![Head(colaEspera[r])] = "READY"]
          /\ colaEspera' = [colaEspera EXCEPT ![r] = Tail(@)]
  /\ Sigue(h, <<Simple("avisar", 0)>>)
  /\ FijoEnLlamadas
  /\ UNCHANGED <<creados, colaLargo, multi, sem, canalDespacho, canalInterrupcion, canalMemoria, caido>>

(* signal_recurso of a resource the process holds: the process goes to the *)
(* front of the queue, and the first that waits to its end.                *)
SignalValido(h) ==
  LET p == De(h)  r == Head(hilo[h]).arg  frente == <<p>> \o colaCorto IN
  /\ Llama(h, "signal_recurso") /\ MutexRecursosLibre /\ r \in Recs
  /\ DevolverInstancia(p, r)
  /\ IF colaEspera[r] = <<>>
     THEN colaCorto' = frente /\ UNCHANGED estado
     ELSE /\ colaCorto' = ConAlFinal(Head(colaEspera[r]), frente)
          /\ estado' = [estado EXCEPT ![Head(colaEspera[r])] = "READY"]
  /\ Sigue(h, <<Simple("avisar", 0)>>)
  /\ FijoEnLlamadas
  /\ UNCHANGED <<creados, colaLargo, multi, sem, canalDespacho, canalInterrupcion, canalMemoria>>

SignalInvalido(h) ==
  LET r == Head(hilo[h]).arg IN
  /\ Llama(h, "signal_recurso") /\ MutexRecursosLibre
  /\ r \in Recs => tenencia[De(h)][r] = 0
  /\ Sigue(h, <<salida(De(h), "INVALID_RESOURCE")>>)
  /\ FijoEnLlamadas
  /\ UNCHANGED <<creados, estado, colas, multi, sem, canalDespacho, canalInterrupcion,
                 canalMemoria, rvars>>

(* The end of signal_recurso: with the CPU taken, interrupt it; the        *)
(* message carries no pid, and the CPU reads the next element of the list. *)
Avisar(h) ==
  /\ Llama(h, "avisar") /\ Avanza(h)
  /\ IF ejecutandoB
     THEN /\ canalInterrupcion' = Append(canalInterrupcion,
                                    [motivo |-> "desalojo_signal", pid |-> FdInterrupcion])
          /\ UNCHANGED sem
     ELSE Publica("planiCorto") /\ UNCHANGED canalInterrupcion
  /\ FijoEnLlamadas
  /\ UNCHANGED <<creados, estado, colas, multi, canalDespacho, canalMemoria, rvars>>

-----------------------------------------------------------------------------
(* planificador_largo_salida.  A kill of the process in EXEC interrupts    *)
(* the CPU and waits for its context.                                      *)
Salida(h) ==
  LET p == De(h)  cola == ColaDeSalida(p, estado[p]) IN
  /\ Llama(h, "planificador_largo_salida")
  /\ IF estado[p] = "EXEC" /\ Head(hilo[h]).arg = "SIGKILL"
     THEN /\ canalInterrupcion' = Append(canalInterrupcion, [motivo |-> "TERMINATED", pid |-> p])
          /\ Sigue(h, <<sem_wait("procesoTerminado")>> \o cola)
     ELSE Sigue(h, cola) /\ UNCHANGED canalInterrupcion
  /\ FijoEnLlamadas
  /\ UNCHANGED <<creados, estado, colas, multi, sem, canalDespacho, canalMemoria, rvars>>

QuitarDeColas(h) ==
  /\ \/ /\ Llama(h, "quitarCorto")
        /\ colaCorto' = Quitar(De(h), colaCorto) /\ UNCHANGED colaLargo
     \/ /\ Llama(h, "quitarLargo")
        /\ colaLargo' = Quitar(De(h), colaLargo) /\ UNCHANGED colaCorto
  /\ Avanza(h)
  /\ FijoEnLlamadas
  /\ UNCHANGED <<creados, estado, multi, sem, canalDespacho, canalInterrupcion, canalMemoria, rvars>>

(* liberar_recursos: who receives the instance is pushed and announced.    *)
LiberarSinEntrega(h) ==
  /\ Llama(h, "liberar_recursos") /\ MutexRecursosLibre /\ Avanza(h)
  /\ \/ LiberarNada(De(h))
     \/ \E r \in Recs : ColasSin(De(h))[r] = <<>> /\ LiberarPrimero(De(h), r)
  /\ FijoEnLlamadas
  /\ UNCHANGED <<creados, estado, colas, multi, sem, canalDespacho, canalInterrupcion, canalMemoria>>

(* Bug: the resources of who ends are released without mutexRecursos.      *)
LiberarConEntrega_SinMutex(h) ==
  /\ Llama(h, "liberar_recursos")
  /\ \E r \in Recs :
       /\ ColasSin(De(h))[r] # <<>> /\ LiberarPrimero(De(h), r)
       /\ colaCorto' = ConAlFinal(Head(ColasSin(De(h))[r]), colaCorto)
       /\ estado' = [estado EXCEPT ![Head(ColasSin(De(h))[r])] = "READY"]
  /\ Sigue(h, <<sem_post("planiCorto")>>)
  /\ FijoEnLlamadas
  /\ UNCHANGED <<creados, colaLargo, multi, sem, canalDespacho, canalInterrupcion, canalMemoria>>

LiberarConEntrega(h) ==
  /\ Llama(h, "liberar_recursos") /\ MutexRecursosLibre
  /\ \E r \in Recs :
       /\ ColasSin(De(h))[r] # <<>> /\ LiberarPrimero(De(h), r)
       /\ colaCorto' = ConAlFinal(Head(ColasSin(De(h))[r]), colaCorto)
       /\ estado' = [estado EXCEPT ![Head(ColasSin(De(h))[r])] = "READY"]
  /\ Sigue(h, <<sem_post("planiCorto")>>)
  /\ FijoEnLlamadas
  /\ UNCHANGED <<creados, colaLargo, multi, sem, canalDespacho, canalInterrupcion, canalMemoria>>

(* The requests that wait for Memoria: liberar_paginas and cargar_pagina.  *)
PedirMemoria(h) ==
  /\ \/ Llama(h, "liberar_paginas") \/ Llama(h, "cargar_pagina")
  /\ Avanza(h)
  /\ canalMemoria' = Append(canalMemoria, [tipo |-> Head(hilo[h]).op, pid |-> De(h)])
  /\ FijoEnLlamadas
  /\ UNCHANGED <<creados, estado, colas, multi, sem, canalDespacho, canalInterrupcion, rvars>>

BajarMulti(h) ==
  /\ Llama(h, "bajar_multi") /\ Avanza(h)
  /\ multi' = multi - 1
  /\ FijoEnLlamadas
  /\ UNCHANGED <<creados, estado, colas, sem, canalDespacho, canalInterrupcion, canalMemoria, rvars>>

(* procesar_mensaje "cargado" with "yes": the process enters colaLargo and *)
(* planificador_largo is told, unless planning is stopped.                 *)
PushColaLargo(h) ==
  /\ Llama(h, "push_colaLargo") /\ Avanza(h)
  /\ colaLargo' = Append(colaLargo, De(h))
  /\ FijoEnLlamadas
  /\ UNCHANGED <<creados, estado, colaCorto, multi, sem, canalDespacho, canalInterrupcion,
                 canalMemoria, rvars>>

DespertarLargo(h) ==
  /\ Llama(h, "despertar_largo") /\ largo.pc = "esperar" /\ Avanza(h)
  /\ IF detenida THEN UNCHANGED sem ELSE Publica("planiLargo")
  /\ FijoEnLlamadas
  /\ UNCHANGED <<creados, estado, colas, multi, canalDespacho, canalInterrupcion, canalMemoria, rvars>>

(* ... and with anything else: the PCB is destroyed and the pid reused.    *)
BorrarProceso(h) ==
  /\ Llama(h, "borrar_proceso") /\ Avanza(h)
  /\ creados' = creados - 1
  /\ estado' = [estado EXCEPT ![De(h)] = "NULO"]
  /\ FijoEnLlamadas
  /\ UNCHANGED <<colas, multi, sem, canalDespacho, canalInterrupcion, canalMemoria, rvars>>

Llamada(h) ==
  \/ CambiarEstado(h) \/ SemPost(h) \/ SemWait(h) \/ PushColaCorto(h) \/ PushSiEXEC(h)
  \/ QueuePush(h) \/ OrdenarAdelante(h) \/ Responder(h) \/ HiloFuncion(h) \/ EscribirSinAbrir(h)
  \/ WaitConInstancia(h) \/ WaitSinInstancia(h) \/ DetectarDeadlock(h) \/ WaitInvalido(h)
  \/ SignalValido(h) \/ SignalInvalido(h) \/ Avisar(h)
  \/ Salida(h) \/ QuitarDeColas(h) \/ LiberarSinEntrega(h) \/ LiberarConEntrega(h)
  \/ PedirMemoria(h) \/ BajarMulti(h)
  \/ PushColaLargo(h) \/ DespertarLargo(h) \/ BorrarProceso(h)

-----------------------------------------------------------------------------
(* procesar_mensaje "contexto": the CPU is free; a process that has ended  *)
(* meanwhile is ignored, any other is saved and attended.                  *)
RecibirContexto ==
  LET m == Head(canalContexto) IN
  /\ ~caido /\ canalContexto # <<>> /\ hilo["despacho"] = <<>>
  /\ canalContexto' = Tail(canalContexto)
  /\ ejecutandoB' = FALSE
  /\ IF estado[m.pid] = "TERMINATED"
     THEN UNCHANGED <<pcb, hilo>>
     ELSE /\ pcb' = [pcb EXCEPT ![m.pid] = m.pc]
          /\ hilo' = [hilo EXCEPT !["despacho"] = Atencion(m.motivo, m.pid, m.arg)]
  /\ UNCHANGED <<consigna, creados, estado, colas, multi, sem, largo, corto, relojes,
                 canalDespacho, canalInterrupcion, nucleo, rvars, canalMemoria>>

(* Memoria answers the oldest request; the socket thread attends it.       *)
MemoriaResponde ==
  LET m == Head(canalMemoria) IN
  /\ ~caido /\ canalMemoria # <<>> /\ hilo["memoria"] = <<>>
  /\ canalMemoria' = Tail(canalMemoria)
  /\ \/ /\ m.tipo = "cargar"
        /\ hilo' = [hilo EXCEPT !["memoria"] =
             <<Simple("push_colaLargo", m.pid), Simple("despertar_largo", 0),
               sem_post("procesoCargado")>>]
        /\ UNCHANGED <<sem, eventos>>
     \/ /\ m.tipo = "cargar" /\ Ocurre("rechazos")
        /\ hilo' = [hilo EXCEPT !["memoria"] =
             <<Simple("borrar_proceso", m.pid), sem_post("procesoCargado")>>]
        /\ UNCHANGED sem
     \/ m.tipo = "cargar_pagina" /\ Publica("paginaCargada") /\ UNCHANGED <<hilo, eventos>>
     \/ m.tipo = "liberar_paginas" /\ Publica("paginasLiberadas") /\ UNCHANGED <<hilo, eventos>>
  /\ UNCHANGED <<algoritmo, detenida, grado, tabla, colas, multi, largo, cortoVar, cpuVars, rvars>>

-----------------------------------------------------------------------------
(* planificador_largo.  Between "lote" and its end the thread holds        *)
(* mutexGrado and mutexDetenida.                                           *)
FijoEnLargo == UNCHANGED <<consigna, creados, pcb, hilo, cortoVar, cpuVars, canalMemoria>>

LargoDespierta ==
  /\ ~caido /\ largo.pc = "esperar" /\ sem["planiLargo"] > 0
  /\ sem' = [sem EXCEPT !["planiLargo"] = @ - 1]
  /\ largo' = [pc |-> "lote", resto |-> Len(colaLargo), pid |-> 0]
  /\ FijoEnLargo /\ UNCHANGED <<estado, colas, multi, rvars>>

(* Bug: one process more than the degree.                                  *)
HayLugar_Limite == largo.resto > 0 /\ ~detenida /\ multi <= grado

HayLugar == largo.resto > 0 /\ ~detenida /\ multi < grado

(* queue_pop answers NULL when the queue shrank since its size was read.   *)
LargoToma ==
  /\ ~caido /\ largo.pc = "lote" /\ HayLugar
  /\ IF colaLargo = <<>>
     THEN caido' = TRUE /\ UNCHANGED <<largo, colaLargo>>
     ELSE /\ largo' = [largo EXCEPT !.pc = "admitir", !.pid = Head(colaLargo)]
          /\ colaLargo' = Tail(colaLargo)
          /\ UNCHANGED caido
  /\ FijoEnLargo /\ UNCHANGED <<estado, colaCorto, multi, sem, instancias, colaEspera, tenencia>>

LargoAdmite ==
  /\ ~caido /\ largo.pc = "admitir"
  /\ estado' = [estado EXCEPT ![largo.pid] = "READY"]
  /\ colaCorto' = ConAlFinal(largo.pid, colaCorto)
  /\ largo' = [largo EXCEPT !.pc = "contar"]
  /\ FijoEnLargo /\ UNCHANGED <<colaLargo, multi, sem, rvars>>

LargoCuenta ==
  /\ ~caido /\ largo.pc = "contar"
  /\ multi' = multi + 1
  /\ largo' = [pc |-> "lote", resto |-> largo.resto - 1, pid |-> 0]
  /\ FijoEnLargo /\ UNCHANGED <<estado, colas, sem, rvars>>

(* Bug: planificador_corto is not told.                                    *)
LargoTermina_SinAvisar ==
  /\ ~caido /\ largo.pc = "lote" /\ ~HayLugar
  /\ largo' = [pc |-> "esperar", resto |-> 0, pid |-> 0]
  /\ FijoEnLargo /\ UNCHANGED <<estado, colas, multi, sem, rvars>>

LargoTermina ==
  /\ ~caido /\ largo.pc = "lote" /\ ~HayLugar
  /\ Publica("planiCorto")
  /\ largo' = [pc |-> "esperar", resto |-> 0, pid |-> 0]
  /\ FijoEnLargo /\ UNCHANGED <<estado, colas, multi, rvars>>

planificador_largo == LargoDespierta \/ LargoToma \/ LargoAdmite \/ LargoCuenta \/ LargoTermina

-----------------------------------------------------------------------------
(* planificador_corto.                                                     *)
FijoEnCorto ==
  UNCHANGED <<consigna, creados, pcb, colaLargo, multi, hilo, largo, canalMemoria, nucleo,
              canalContexto, instancias, colaEspera, tenencia>>
CortoVa(pc, p) == corto' = [pc |-> pc, pid |-> p]

CortoDespierta ==
  /\ ~caido /\ corto.pc = "esperar" /\ sem["planiCorto"] > 0 /\ largo.pc = "esperar"
  /\ sem' = [sem EXCEPT !["planiCorto"] = @ - 1]
  /\ CortoVa(IF colaCorto = <<>> \/ detenida THEN "esperar"
             ELSE IF algoritmo = "PRIORIDADES" THEN "ordenar" ELSE "lugar", 0)
  /\ FijoEnCorto
  /\ UNCHANGED <<estado, colaCorto, ejecutandoB, relojes, canalDespacho, canalInterrupcion, caido>>

(* list_sort by priority; the order of equals is not promised.             *)
CortoOrdena ==
  /\ ~caido /\ corto.pc = "ordenar"
  /\ \E f \in Bijection(DOMAIN colaCorto, DOMAIN colaCorto) :
       /\ \A i, j \in DOMAIN colaCorto :
            i < j => Prioridad[colaCorto[f[i]]] <= Prioridad[colaCorto[f[j]]]
       /\ colaCorto' = [i \in DOMAIN colaCorto |-> colaCorto[f[i]]]
  /\ CortoVa("mirar", 0)
  /\ FijoEnCorto
  /\ UNCHANGED <<estado, sem, ejecutandoB, relojes, canalDespacho, canalInterrupcion, caido>>

CortoMira ==
  /\ ~caido /\ corto.pc = "mirar"
  /\ CortoVa(IF ejecutandoB THEN "comparar" ELSE "lugar", 0)
  /\ FijoEnCorto
  /\ UNCHANGED <<estado, colaCorto, sem, ejecutandoB, relojes, canalDespacho,
                 canalInterrupcion, caido>>

(* The first PCB in EXEC against the head of the queue.                    *)
EnEXEC(p) == p \in 1..creados /\ estado[p] = "EXEC" /\ \A q \in 1..(p - 1) : estado[q] # "EXEC"
Desaloja(p) == Head(colaCorto) # p /\ Prioridad[p] > Prioridad[Head(colaCorto)]

CortoCompara ==
  /\ ~caido /\ corto.pc = "comparar"
  /\ \/ /\ \A p \in Pids : EnEXEC(p) => colaCorto # <<>> /\ ~Desaloja(p)
        /\ CortoVa("lugar", 0)
        /\ UNCHANGED <<canalInterrupcion, caido>>
     \/ \E p \in Pids :
          /\ EnEXEC(p) /\ colaCorto # <<>> /\ Desaloja(p)
          /\ canalInterrupcion' = Append(canalInterrupcion, [motivo |-> "prioridades", pid |-> p])
          /\ CortoVa("contexto", 0)
          /\ UNCHANGED caido
     \/ /\ colaCorto = <<>> /\ \E p \in Pids : EnEXEC(p)
        /\ caido' = TRUE
        /\ UNCHANGED <<corto, canalInterrupcion>>
  /\ FijoEnCorto
  /\ UNCHANGED <<estado, colaCorto, sem, ejecutandoB, relojes, canalDespacho>>

(* Bug: planificador_corto does not wait for the context it asked for.     *)
CortoDesalojado_SinEsperar ==
  /\ ~caido /\ corto.pc = "contexto"
  /\ CortoVa("lugar", 0)
  /\ FijoEnCorto
  /\ UNCHANGED <<estado, colaCorto, sem, ejecutandoB, relojes, canalDespacho, canalInterrupcion,
                 caido>>

CortoDesalojado ==
  /\ ~caido /\ corto.pc = "contexto" /\ sem["contexto"] > 0
  /\ sem' = [sem EXCEPT !["contexto"] = @ - 1]
  /\ CortoVa("lugar", 0)
  /\ FijoEnCorto
  /\ UNCHANGED <<estado, colaCorto, ejecutandoB, relojes, canalDespacho, canalInterrupcion, caido>>

(* Bug: queue_peek for queue_pop.                                          *)
CortoToma_SinQuitar ==
  /\ ~caido /\ corto.pc = "lugar"
  /\ IF ejecutandoB THEN CortoVa("esperar", 0) /\ UNCHANGED caido
     ELSE IF colaCorto = <<>> THEN caido' = TRUE /\ UNCHANGED corto
     ELSE CortoVa("marcar", Head(colaCorto)) /\ UNCHANGED caido
  /\ FijoEnCorto
  /\ UNCHANGED <<estado, colaCorto, sem, ejecutandoB, relojes, canalDespacho, canalInterrupcion>>

(* With the CPU free, pop; NULL when the queue emptied since it was read.  *)
CortoToma ==
  /\ ~caido /\ corto.pc = "lugar"
  /\ IF ejecutandoB THEN CortoVa("esperar", 0) /\ UNCHANGED <<colaCorto, caido>>
     ELSE IF colaCorto = <<>> THEN caido' = TRUE /\ UNCHANGED <<corto, colaCorto>>
     ELSE /\ CortoVa("marcar", Head(colaCorto))
          /\ colaCorto' = Tail(colaCorto)
          /\ UNCHANGED caido
  /\ FijoEnCorto
  /\ UNCHANGED <<estado, sem, ejecutandoB, relojes, canalDespacho, canalInterrupcion>>

CortoMarca ==
  /\ ~caido /\ corto.pc = "marcar"
  /\ estado' = [estado EXCEPT ![corto.pid] = "EXEC"]
  /\ CortoVa("ocupar", corto.pid)
  /\ FijoEnCorto
  /\ UNCHANGED <<colaCorto, sem, ejecutandoB, relojes, canalDespacho, canalInterrupcion, caido>>

(* Bug: ejecutandoB is not set.                                            *)
CortoOcupa_SinMarcar ==
  /\ ~caido /\ corto.pc = "ocupar"
  /\ CortoVa("enviar", corto.pid)
  /\ FijoEnCorto
  /\ UNCHANGED <<estado, colaCorto, sem, ejecutandoB, relojes, canalDespacho,
                 canalInterrupcion, caido>>

CortoOcupa ==
  /\ ~caido /\ corto.pc = "ocupar"
  /\ ejecutandoB' = TRUE
  /\ CortoVa("enviar", corto.pid)
  /\ FijoEnCorto
  /\ UNCHANGED <<estado, colaCorto, sem, relojes, canalDespacho, canalInterrupcion, caido>>

CortoEnvia ==
  /\ ~caido /\ corto.pc = "enviar"
  /\ canalDespacho' = Append(canalDespacho,
                        [tipo |-> "proceso", pid |-> corto.pid, pc |-> pcb[corto.pid]])
  /\ relojes' = IF algoritmo = "RR" THEN [relojes EXCEPT ![corto.pid] = @ + 1] ELSE relojes
  /\ CortoVa("esperar", 0)
  /\ FijoEnCorto
  /\ UNCHANGED <<estado, colaCorto, sem, ejecutandoB, canalInterrupcion, caido>>

planificador_corto ==
  \/ CortoDespierta \/ CortoOrdena \/ CortoMira \/ CortoCompara \/ CortoDesalojado
  \/ CortoToma \/ CortoMarca \/ CortoOcupa \/ CortoEnvia

(* clock_rr of p: when a quantum ends with somebody in the queue, it       *)
(* interrupts p, whatever p is doing by then.                              *)
clock_rr(p) ==
  /\ ~caido /\ relojes[p] > 0 /\ colaCorto # <<>> /\ Ocurre("quantums")
  /\ relojes' = [relojes EXCEPT ![p] = @ - 1]
  /\ canalInterrupcion' = Append(canalInterrupcion, [motivo |-> "quantum", pid |-> p])
  /\ UNCHANGED <<algoritmo, detenida, grado, tabla, colas, multi, sem, hilo, largo, ejecutandoB,
                 corto, canalMemoria, canalDespacho, canalContexto, nucleo, rvars>>

-----------------------------------------------------------------------------
(* The console attends a command when the one before has returned.         *)
Lista == ~caido /\ hilo["consola"] = <<>>
FijoEnConsola ==
  UNCHANGED <<algoritmo, colas, multi, largo, cortoVar, cpuVars, rvars>>

iniciar_proceso ==
  LET p == creados + 1 IN
  /\ Lista /\ p \in Pids
  /\ creados' = p
  /\ estado' = [estado EXCEPT ![p] = "NEW"]
  /\ pcb' = [pcb EXCEPT ![p] = 0]
  /\ canalMemoria' = Append(canalMemoria, [tipo |-> "cargar", pid |-> p])
  /\ hilo' = [hilo EXCEPT !["consola"] = <<sem_wait("procesoCargado")>>]
  /\ FijoEnConsola /\ UNCHANGED <<detenida, grado, eventos, sem>>

finalizar_proceso(p) ==
  /\ Lista /\ p <= creados /\ estado[p] # "TERMINATED" /\ Ocurre("kills")
  /\ hilo' = [hilo EXCEPT !["consola"] = <<salida(p, "SIGKILL")>>]
  /\ FijoEnConsola /\ UNCHANGED <<detenida, grado, tabla, sem, canalMemoria>>

detener_planificacion ==
  /\ Lista /\ largo.pc = "esperar" /\ ~detenida /\ Ocurre("pausas")
  /\ detenida' = TRUE
  /\ FijoEnConsola /\ UNCHANGED <<grado, tabla, sem, hilo, canalMemoria>>

(* Bug: start does not wake planificador_largo.                            *)
iniciar_planificacion_SinAvisar ==
  /\ Lista /\ largo.pc = "esperar" /\ detenida
  /\ detenida' = FALSE
  /\ FijoEnConsola /\ UNCHANGED <<grado, eventos, tabla, sem, hilo, canalMemoria>>

iniciar_planificacion ==
  /\ Lista /\ largo.pc = "esperar" /\ detenida
  /\ detenida' = FALSE
  /\ Publica("planiLargo")
  /\ FijoEnConsola /\ UNCHANGED <<grado, eventos, tabla, hilo, canalMemoria>>

(* The degree changes without mutexGrado: a batch may be under way.        *)
multiprogramacion(g) ==
  /\ Lista /\ Ocurre("cambios")
  /\ grado' = g
  /\ IF detenida THEN UNCHANGED sem ELSE Publica("planiLargo")
  /\ FijoEnConsola /\ UNCHANGED <<detenida, tabla, hilo, canalMemoria>>

hilo_consola ==
  \/ iniciar_proceso \/ detener_planificacion \/ iniciar_planificacion
  \/ \E p \in Pids : finalizar_proceso(p)
  \/ \E g \in Grados : multiprogramacion(g)

-----------------------------------------------------------------------------
CPUPaso == ~caido /\ CPUNext /\ UNCHANGED <<kernel, rvars>>

PNext ==
  \/ CPUPaso
  \/ \E h \in Hilos : Llamada(h)
  \/ RecibirContexto \/ MemoriaResponde
  \/ planificador_largo \/ planificador_corto
  \/ \E p \in Pids : clock_rr(p)
  \/ hilo_consola

PSpec == PInit /\ [][PNext]_pvars

(* Every thread that can go on does, and Memoria answers; nothing obliges  *)
(* the user to type.                                                       *)
PJusticia ==
  /\ WF_pvars(~caido /\ HiloCiclo /\ UNCHANGED <<kernel, rvars>>)
  /\ WF_pvars(~caido /\ HiloDespacho /\ UNCHANGED <<kernel, rvars>>)
  /\ WF_pvars(~caido /\ HiloInterrupcion /\ UNCHANGED <<kernel, rvars>>)
  /\ \A h \in Hilos : WF_pvars(Llamada(h))
  /\ WF_pvars(RecibirContexto) /\ WF_pvars(MemoriaResponde)
  /\ WF_pvars(planificador_largo) /\ WF_pvars(planificador_corto)
  /\ \A p \in Pids : WF_pvars(clock_rr(p))

PSpecJusta == PSpec /\ PJusticia
-----------------------------------------------------------------------------
(* What the Kernel's threads keep typed, the calls they have still to make *)
(* included.                                                               *)
Estados == {"NULO", "NEW", "READY", "EXEC", "BLOCKED", "PAGBLOCK", "TERMINATED"}
Conocidas ==
  [op : {"cambiar_estado"}, pid : Pids, arg : Estados]
  \cup [op : {"sem_post", "sem_wait"}, pid : {0}, arg : Semaforos]
  \cup [op : {"hilo_funcion"}, pid : Pids,
        arg : {"sleep_proceso", "page_fault", "f_write", "f_truncate"}]
  \cup [op : {"wait_recurso", "signal_recurso"}, pid : Pids, arg : Args \cup {0}]
  \cup [op : {"planificador_largo_salida"}, pid : Pids,
        arg : {"SUCCESS", "SIGKILL", "INVALID_RESOURCE", "INVALID_WRITE"}]
  \cup [op : {"push_colaCorto", "push_si_EXEC", "queue_push", "ordenar_adelante", "quitarCorto",
              "quitarLargo", "liberar_recursos", "liberar_paginas", "cargar_pagina", "bajar_multi",
              "push_colaLargo", "borrar_proceso", "deteccion_deadlock", "colgado"},
        pid : Pids, arg : {SinArg}]
  \cup [op : {"respuesta", "avisar", "despertar_largo"}, pid : {0}, arg : {SinArg}]

TipoConsigna ==
  /\ algoritmo \in Algoritmos /\ detenida \in BOOLEAN /\ grado \in Nat \ {0}
  /\ eventos \in [DOMAIN EventosMax -> Nat]
TipoTabla ==
  /\ creados \in Int /\ estado \in [Pids -> Estados] /\ pcb \in [Pids -> Int]
  /\ relojes \in [Pids -> Int] /\ ejecutandoB \in BOOLEAN
TipoColas ==
  /\ colaLargo \in Seq(Pids) /\ colaCorto \in Seq(Pids) /\ multi \in Int
  /\ largo \in [pc : {"esperar", "lote"}, resto : Int, pid : {0}]
               \cup [pc : {"admitir", "contar"}, resto : Int, pid : Pids]
  /\ corto \in [pc : {"esperar", "ordenar", "mirar", "comparar", "contexto", "lugar"}, pid : {0}]
               \cup [pc : {"marcar", "ocupar", "enviar"}, pid : Pids]
TipoHilos ==
  /\ sem \in [Semaforos -> Nat]
  /\ hilo \in [Hilos -> Seq(Conocidas)]
  /\ canalMemoria \in Seq([tipo : {"cargar", "cargar_pagina", "liberar_paginas"}, pid : Pids])
PTypeOK == TipoConsigna /\ TipoTabla /\ TipoColas /\ TipoHilos /\ CPUTypeOK /\ RTypeOK

(* The calls still to be made that satisfy Es, an element each.            *)
Llamadas(Es(_)) ==
  UNION {{h} \X {i \in 1..Len(hilo[h]) : Es(hilo[h][i])} : h \in Hilos}
Mensajes(canal, Es(_)) == {i \in 1..Len(canal) : Es(canal[i])}
Uno(condicion) == IF condicion THEN 1 ELSE 0

(* The CPU works on `proceso` and has not sent it back.                    *)
CpuOcupada == ciclo > 0 \/ cicloPc = "ejecutar" \/ (cicloPc = "controlar" /\ ~bloquear)
                        \/ (cicloPc = "interrumpir" /\ interrupcion)

(* How many times the system holds p to run it: queues, messages, threads. *)
Coloca(o) ==
  \/ o.op \in {"push_colaCorto", "push_colaLargo", "queue_push", "ordenar_adelante", "wait_recurso",
               "signal_recurso", "push_si_EXEC", "hilo_funcion", "planificador_largo_salida",
               "borrar_proceso"}
  \/ o.op = "cambiar_estado" /\ o.arg = "TERMINATED"
Referencias(p) ==
  LET EsP(x) == x = p   DeP(m) == m.pid = p IN
    Cardinality(Llamadas(LAMBDA o : o.pid = p /\ Coloca(o)))
  + Cardinality(Mensajes(colaLargo, EsP)) + Cardinality(Mensajes(colaCorto, EsP))
  + Cardinality(UNION {{r} \X Mensajes(colaEspera[r], EsP) : r \in Recs})
  + Cardinality(Mensajes(canalMemoria, LAMBDA m : m.pid = p /\ m.tipo = "cargar"))
  + Cardinality(Mensajes(canalDespacho, DeP)) + Cardinality(Mensajes(canalContexto, DeP))
  + Uno(largo.pc = "admitir" /\ largo.pid = p) + Uno(corto.pid = p)
  + Uno(CpuOcupada /\ proceso.pid = p)

(* Planning by FIFO, and nobody killed: what the next three are about.     *)
SoloFIFO == Algoritmos = {"FIFO"} /\ MaxKills = 0

(* The interrupt of signal_recurso carries no pid, and the CPU reads the   *)
(* number of the socket in its place: when it compares, the process it     *)
(* works on has another number.  The code does not see to it: pids grow    *)
(* from 1, and once as many processes have been created as the number of   *)
(* the socket one of them may have it.                                     *)
DescriptorAjeno == pedido = FdInterrupcion => proceso.pid # FdInterrupcion

(* Under FIFO a live process is in one place: no interleaving of the       *)
(* handler, the detached threads and the schedulers loses a PCB or leaves  *)
(* it in two queues, and nothing holds one that has ended.                 *)
UnSoloLugar ==
  \A p \in Pids : Referencias(p) = Uno(estado[p] \notin {"NULO", "TERMINATED"})

(* Under FIFO ejecutandoB says exactly whether the CPU, or a message to it *)
(* or from it, or the dispatcher about to send it, has a process: a        *)
(* dispatch never overwrites one.                                          *)
CpuUnica ==
    Uno(corto.pc = "enviar") + Cardinality(Mensajes(canalDespacho, LAMBDA m : m.tipo = "proceso"))
  + Uno(CpuOcupada) + Len(canalContexto) = Uno(ejecutandoB)

(* Under FIFO the CPU is owed one answer after a syscall and none          *)
(* otherwise: an extra one would let it run past a later syscall, a        *)
(* missing one would stop it for good.                                     *)
RespuestaEmparejada ==
    Len(canalContexto) + Cardinality(Llamadas(LAMBDA o : o.op = "respuesta"))
  + Cardinality(Mensajes(canalDespacho, LAMBDA m : m.tipo = "respuesta")) + respuesta
  = Uno(bloquear)

(* Every instruction fetched is the next one of its program: what the      *)
(* Kernel saved and sent back, through any number of syscalls, faults and  *)
(* dispatches, is where the process really was.                            *)
InstruccionSiguiente ==
  [][cicloPc = "ciclo" /\ cicloPc' = "ejecutar" => proceso.pc = avance[proceso.pid]]_pvars

(* While the degree is not lowered, the admitted processes do not exceed   *)
(* it, though multiprogramacion is counted after each one is admitted and  *)
(* discounted after each one ends.                                         *)
Admitidos == {p \in Pids : estado[p] \in {"READY", "EXEC", "BLOCKED", "PAGBLOCK"}}
GradoRespetado == Cardinality(Admitidos) <= grado

(* No wake-up is lost: with a process ready, the CPU free and planning on, *)
(* planificador_corto is at work, or a token is there, or the handler or a *)
(* thread that is not itself bringing a process back is about to post one. *)
Despierta(ops) ==
  \E i \in 1..Len(ops) :
    /\ \/ ops[i].op = "sem_post" /\ ops[i].arg \in {"planiCorto", "planiLargo"}
       \/ ops[i].op = "planificador_largo_salida"
    /\ \A j \in 1..(i - 1) : ops[j].op # "push_colaCorto"
SinDespertarPerdido ==
  colaCorto # <<>> /\ ~ejecutandoB /\ ~detenida =>
    \/ sem["planiCorto"] > 0 \/ sem["planiLargo"] > 0
    \/ corto.pc # "esperar" \/ largo.pc # "esperar"
    \/ hilo["despacho"] # <<>> \/ \E h \in Hilos : Despierta(hilo[h])

(* Under PRIORIDADES, with nobody killed and the number of the socket      *)
(* nobody's pid, planificador_corto goes on by the answer to its own       *)
(* interrupt and never by an older one: of a preemption (the interrupt, its*)
(* mark, the context it brings, the post of contexto) there is one thing at*)
(* most under way, and only while it waits for it.                         *)
DesalojoEmparejado ==
  LET DePrioridad(m) == m.motivo = "prioridades" IN
    Cardinality(Mensajes(canalInterrupcion, DePrioridad))
  + Uno((pedido # 0 \/ avisar \/ interrupcion) /\ motivo = "prioridades")
  + Cardinality(Mensajes(canalContexto, DePrioridad))
  + Cardinality(Llamadas(LAMBDA o : o.op = "sem_post" /\ o.arg = "contexto")) + sem["contexto"]
  <= Uno(corto.pc = "contexto")

(* The Kernel hangs in the search for deadlocks only where the search meets*)
(* a cycle of waits that the process that blocked is not on, and the tables*)
(* stay as they were then, for everybody waits for mutexRecursos.          *)
CuelgueJustificado ==
  \A p \in Pids, h \in Hilos :
    hilo[h] # <<>> /\ Head(hilo[h]) = Simple("colgado", p) => CicloAjeno(p)

(* A sleeping process does not run: sleep_i is declared blocking.          *)
SleepBloqueante ==
  [][cicloPc = "ciclo" /\ cicloPc' = "ejecutar" => estado[proceso.pid] # "BLOCKED"]_pvars

(* Once planning stays on, every process that is created ends (or Memoria  *)
(* rejected it): nobody waits for ever for a degree, a token, an instance, *)
(* a page or an answer.                                                    *)
Progreso ==
  <>[]~detenida => \A p \in Pids : estado[p] = "NEW" ~> estado[p] \in {"TERMINATED", "NULO"}
=============================================================================
