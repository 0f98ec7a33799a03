------------------------------ MODULE Recursos ------------------------------
(***************************************************************************)
(* The Kernel's resources: diccionarioRecursos maps every resource to its  *)
(* free instances and its queue of waiting processes, and every PCB lists  *)
(* the resources it holds.  Three operations touch them, each under        *)
(* mutexRecursos: wait_recurso, signal_recurso and liberar_recursos.  The  *)
(* list of a PCB is kept as a bag: `tenencia[p][r]` counts the entries.    *)
(*                                                                         *)
(* The actions named after the code are the ones Planificacion takes; RSpec*)
(* closes them under the weakest discipline they need: a process that      *)
(* waits issues no instruction.                                            *)
(***************************************************************************)
EXTENDS Generales

CONSTANTS
  Recs,                 \* RECURSOS of Kernel.config
  InstanciasIniciales   \* INSTANCIAS_RECURSOS of Kernel.config

ASSUME RecursosAssumption ==
  /\ IsFiniteSet(Recs)
  /\ InstanciasIniciales \in [Recs -> Nat]

VARIABLES
  instancias,   \* elements[0] of each dictionary entry
  colaEspera,   \* elements[1] of each dictionary entry
  tenencia,     \* proceso->recursos, as a bag
  caido         \* the Kernel process died on an invalid pointer

rvars == <<instancias, colaEspera, tenencia, caido>>

SinRecursos == [r \in Recs |-> 0]
SoloUno(r)  == [SinRecursos EXCEPT ![r] = 1]

RInit ==
  /\ instancias = InstanciasIniciales
  /\ colaEspera = [r \in Recs |-> <<>>]
  /\ tenencia = [p \in Pids |-> SinRecursos]
  /\ caido = FALSE

Espera(p, r) == EnCola(p, colaEspera[r])

-----------------------------------------------------------------------------
(* Bug: an off-by-one in the test for a free instance.                     *)
TomarInstancia_Limite(p, r) ==
  /\ instancias[r] >= 0
  /\ instancias' = [instancias EXCEPT ![r] = @ - 1]
  /\ tenencia' = [tenencia EXCEPT ![p][r] = @ + 1]
  /\ UNCHANGED <<colaEspera, caido>>

(* wait_recurso with a free instance: taken at once.                       *)
TomarInstancia(p, r) ==
  /\ instancias[r] > 0
  /\ instancias' = [instancias EXCEPT ![r] = @ - 1]
  /\ tenencia' = [tenencia EXCEPT ![p][r] = @ + 1]
  /\ UNCHANGED <<colaEspera, caido>>

(* Bug: the process is pushed again when it blocks.                        *)
EncolarEspera_DosVeces(p, r) ==
  /\ ~(instancias[r] > 0)
  /\ colaEspera' = [colaEspera EXCEPT ![r] = Append(Append(@, p), p)]
  /\ UNCHANGED <<instancias, tenencia, caido>>

(* wait_recurso without one: p goes to the end of the queue.               *)
EncolarEspera(p, r) ==
  /\ ~(instancias[r] > 0)
  /\ colaEspera' = [colaEspera EXCEPT ![r] = Append(@, p)]
  /\ UNCHANGED <<instancias, tenencia, caido>>

(* One entry of p for r ends, and the one of q begins.                     *)
Dejar(p, r)      == [tenencia EXCEPT ![p][r] = @ - 1]
Pasar(p, q, r)   == [Dejar(p, r) EXCEPT ![q][r] = @ + 1]

(* Bug: the instance handed over is also counted as free.                  *)
Soltar_SinDescontar(p, r, colas) ==
  /\ instancias' = [instancias EXCEPT ![r] = @ + 1]
  /\ IF colas[r] = <<>>
     THEN tenencia' = Dejar(p, r) /\ colaEspera' = colas
     ELSE /\ tenencia' = Pasar(p, Head(colas[r]), r)
          /\ colaEspera' = [colas EXCEPT ![r] = Tail(@)]

(* Bug: nobody looks at the queue.                                         *)
Soltar_SinMirarCola(p, r, colas) ==
  /\ instancias' = [instancias EXCEPT ![r] = @ + 1]
  /\ tenencia' = Dejar(p, r)
  /\ colaEspera' = colas

(* Bug: the last one that came is served first.                            *)
Soltar_AlUltimo(p, r, colas) ==
  IF colas[r] = <<>>
  THEN /\ instancias' = [instancias EXCEPT ![r] = @ + 1]
       /\ tenencia' = Dejar(p, r)
       /\ colaEspera' = colas
  ELSE /\ tenencia' = Pasar(p, Last(colas[r]), r)
       /\ colaEspera' = [colas EXCEPT ![r] = Front(@)]
       /\ UNCHANGED instancias

(* p gives an instance of r up: it goes back to the free ones or, when     *)
(* `colas` has somebody waiting for r, straight to the head of that queue. *)
Soltar(p, r, colas) ==
  IF colas[r] = <<>>
  THEN /\ instancias' = [instancias EXCEPT ![r] = @ + 1]
       /\ tenencia' = Dejar(p, r)
       /\ colaEspera' = colas
  ELSE /\ tenencia' = Pasar(p, Head(colas[r]), r)
       /\ colaEspera' = [colas EXCEPT ![r] = Tail(@)]
       /\ UNCHANGED instancias

(* signal_recurso on a resource p holds.                                   *)
DevolverInstancia(p, r) ==
  /\ tenencia[p][r] > 0
  /\ Soltar(p, r, colaEspera)
  /\ UNCHANGED caido

(* remover_espera over the whole dictionary.                               *)
ColasSin(p) == [r \in Recs |-> Quitar(p, colaEspera[r])]

(* liberar_recursos of a process that holds nothing.                       *)
LiberarNada(p) ==
  /\ tenencia[p] = SinRecursos
  /\ colaEspera' = ColasSin(p)
  /\ UNCHANGED <<instancias, tenencia, caido>>

(* Bug: the instance of the process that ends is not returned.             *)
LiberarPrimero_SinDevolver(p, r) ==
  /\ tenencia[p][r] > 0
  /\ tenencia' = Dejar(p, r) /\ colaEspera' = ColasSin(p)
  /\ caido' = (caido \/ tenencia[p] # SoloUno(r))
  /\ UNCHANGED instancias

(* liberar_recursos of a process whose first entry is r (the order of its  *)
(* list is not kept).  With more entries the loop index grows while the    *)
(* list shrinks: list_remove runs past its end, and the NULL it returns is *)
(* used as a dictionary key once the first entry has been given up (and,   *)
(* with three or more, some others, which nobody lives to see).            *)
LiberarPrimero(p, r) ==
  /\ tenencia[p][r] > 0
  /\ Soltar(p, r, ColasSin(p))
  /\ caido' = (caido \/ tenencia[p] # SoloUno(r))

LiberarRecursos(p) == LiberarNada(p) \/ \E r \in Recs : LiberarPrimero(p, r)

-----------------------------------------------------------------------------
Esperando(p) == \E r \in Recs : Espera(p, r)

WaitRecurso(p, r)   == ~Esperando(p) /\ (TomarInstancia(p, r) \/ EncolarEspera(p, r))
SignalRecurso(p, r) == ~Esperando(p) /\ DevolverInstancia(p, r)

(* The Kernel dies elsewhere: a NULL of another part of the code.          *)
Caer == caido' = TRUE /\ UNCHANGED <<instancias, colaEspera, tenencia>>

RNext ==
  /\ ~caido
  /\ \/ Caer
     \/ \E p \in Pids :
          \/ \E r \in Recs : WaitRecurso(p, r) \/ SignalRecurso(p, r)
          \/ LiberarRecursos(p)

RSpec == RInit /\ [][RNext]_rvars

(* The same operations by any process at any time: what every scheduler    *)
(* does to the resources, whichever the algorithm and whoever is killed.   *)
RPaso ==
  /\ ~caido
  /\ \/ Caer
     \/ \E p \in Pids :
          \/ \E r \in Recs : TomarInstancia(p, r) \/ EncolarEspera(p, r) \/ DevolverInstancia(p, r)
          \/ LiberarRecursos(p)

RSpecLibre == RInit /\ [][RPaso]_rvars
-----------------------------------------------------------------------------
(* What the code keeps typed.                                              *)
RTypeOK ==
  /\ instancias \in [Recs -> Nat]
  /\ colaEspera \in [Recs -> Seq(Pids)]
  /\ tenencia \in [Pids -> [Recs -> Nat]]
  /\ caido \in BOOLEAN

(* The instances of r that processes hold by the table t, an element each. *)
Unidades(t, r) == UNION {{p} \X (1..t[p][r]) : p \in Pids}

(* No instance of a resource is created or lost, whatever the order of     *)
(* waits, signals, exits and kills: what is free and what is held add up   *)
(* to what Kernel.config says.                                             *)
Conservacion ==
  \A r \in Recs : instancias[r] + Cardinality(Unidades(tenencia, r)) = InstanciasIniciales[r]

(* A process waits for a resource only while it has no free instance: no   *)
(* path that frees one forgets the queue.                                  *)
NadieEsperaConInstancias ==
  \A r \in Recs : colaEspera[r] # <<>> => instancias[r] = 0

(* A process waits in one queue at most, once: the queues hold pointers to *)
(* the PCB, and a second copy would run the same process twice.            *)
EsperaUnica ==
  \A r, s \in Recs : \A i \in 1..Len(colaEspera[r]), j \in 1..Len(colaEspera[s]) :
    colaEspera[r][i] = colaEspera[s][j] => r = s /\ i = j

(* An instance never overtakes: a waiting process that receives one leaves *)
(* nobody behind that was ahead of it in the queue.                        *)
SinAdelantarse ==
  \A r \in Recs : \A i, j \in 1..Len(colaEspera[r]) :
    /\ tenencia'[colaEspera[r][j]][r] > tenencia[colaEspera[r][j]][r]
    /\ i < j
    => ~EnCola(colaEspera[r][i], colaEspera'[r])

EntregaEnOrden == [][SinAdelantarse]_rvars
=============================================================================
