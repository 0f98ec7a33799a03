----------------------------- MODULE Deteccion ------------------------------
(***************************************************************************)
(* deteccion_deadlock: the search the Kernel makes, with mutexRecursos     *)
(* held, every time a process blocks on a resource.  It starts from the    *)
(* resources the process holds and walks from a resource to the processes  *)
(* that wait for it and from a process to the resources it holds, locking  *)
(* the mutex of every PCB on the way.                                      *)
(***************************************************************************)
EXTENDS Recursos

Tiene(p) == {r \in Recs : tenencia[p][r] > 0}

(* Bug: only the first of the queue is examined.                           *)
PrimeraRespuesta_SoloUno(respuestas) ==
  IF respuestas = <<>> THEN "no" ELSE Head(respuestas)

(* The loop over a queue of waiters stops at the first answer but "no".    *)
PrimeraRespuesta(respuestas) ==
  LET utiles == {i \in DOMAIN respuestas : respuestas[i] # "no"}
  IN  IF utiles = {} THEN "no" ELSE respuestas[Min(utiles)]

(* list_find over the resources of a PCB, whose order is not modelled: a   *)
(* hang counts before a hit.                                               *)
AlgunaRespuesta(respuestas) ==
  IF "cuelga" \in respuestas THEN "cuelga" ELSE IF "si" \in respuestas THEN "si" ELSE "no"

(* The body of the loop for the waiter temp, if `v` is what the search     *)
(* answers with each set of mutexes held and for each resource: "si" when p*)
(* is found, "cuelga" when it locks a mutex it already holds (`tomados`).  *)
Examinar(p, tomados, v, temp) ==
  IF temp = p THEN "si"
  ELSE IF Tiene(temp) = {} THEN "no"
  ELSE IF temp \in tomados THEN "cuelga"
  ELSE AlgunaRespuesta({v[tomados \cup {temp}][s] : s \in Tiene(temp)})

Recorrer(p, tomados, v) ==
  [r \in Recs |-> PrimeraRespuesta([i \in 1..Len(colaEspera[r]) |->
                                      Examinar(p, tomados, v, colaEspera[r][i])])]

(* verificacion_DL for the process p, by the mutexes held and the resource.*)
verificacion_DL(p) ==
  LET v[tomados \in SUBSET Pids] == Recorrer(p, tomados, v) IN v

deteccion_deadlock(p) ==
  AlgunaRespuesta({verificacion_DL(p)[{p}][r] : r \in Tiene(p)})

-----------------------------------------------------------------------------
(* Reference: the wait-for graph.  x reaches y if y is in every set that   *)
(* has the successors of x and those of its own elements.                  *)
EsperaA == {e \in Pids \X Pids : \E r \in Tiene(e[2]) : Espera(e[1], r)}
Alcanza(R, x, y) ==
  \A S \in SUBSET Pids : (\A e \in R : e[1] = x \/ e[1] \in S => e[2] \in S) => y \in S

EnCiclo(p) == Alcanza(EsperaA, p, p)

(* Some process that waits for p, maybe through others, is on a cycle that *)
(* p is not on: one of them waits for a resource that several hold.        *)
SinEl(p) == {e \in EsperaA : p \notin {e[1], e[2]}}
CicloAjeno(p) == \E q \in Pids : Alcanza(EsperaA, q, p) /\ Alcanza(SinEl(p), q, q)

(* The search tells exactly whether a waiting process is on a cycle of the *)
(* wait-for graph, unless it locks a PCB mutex it already holds, and it    *)
(* does so only when a cycle that the process is not on leads to it (it    *)
(* then hangs with mutexRecursos taken, and with it the whole Kernel).     *)
(* When every resource has one instance there is no such cycle.            *)
DeteccionExacta ==
  \A p \in Pids : Esperando(p) =>
    CASE deteccion_deadlock(p) = "si"     -> EnCiclo(p)
      [] deteccion_deadlock(p) = "no"     -> ~EnCiclo(p)
      [] deteccion_deadlock(p) = "cuelga" -> CicloAjeno(p)
=============================================================================
