--------------------------- MODULE PlanificacionMC ---------------------------
(* Instances for the runs of Planificacion.                                *)
EXTENDS Planificacion

CONSTANTS r1, r2, h1, h2, h3

Ins(op, x) == [op |-> op, arg |-> x]
Fin == Ins("EXIT", 0)

UnaDeCada == [x \in Recs |-> 1]
DosDeCada == [x \in Recs |-> 2]
MismaPrioridad == [p \in Pids |-> 1]

(* Two processes compete for r1: one sleeps with it and signals, once too  *)
(* often; the other does I/O and then asks for a resource that does not    *)
(* exist.                                                                  *)
ProgramaFIFO ==
  << <<Ins("WAIT", r1), Ins("SLEEP", 1), Ins("SIGNAL", r1), Ins("SIGNAL", r1)>>,
     <<Ins("WAIT", r1), Ins("F_WRITE", 0), Ins("F_SEEK", 0), Ins("WAIT", r2)>> >>

(* Processes that only come and go.                                        *)
ProgramaBreve == [p \in Pids |-> <<Fin>>]

(* One faults and ends with the resource another waits for.                *)
ProgramaProgreso ==
  << <<Ins("WAIT", r1), Ins("MOV", 0), Fin>>, <<Ins("WAIT", r1), Ins("JNZ", 2), Fin>> >>

(* A process that is interrupted just before it sleeps.                    *)
ProgramaQuantum ==
  << <<Ins("CALC", 0), Ins("SLEEP", 1), Ins("CALC", 0), Fin>>, <<Ins("CALC", 0), Fin>> >>

(* The first may be preempted with r1, or interrupt the second by its      *)
(* SIGNAL; the second has a better priority.                               *)
ProgramaAlgoritmos ==
  << <<Ins("WAIT", r1), Ins("SIGNAL", r1), Fin>>, <<Fin>> >>
PrioridadAlSegundo == [p \in Pids |-> 3 - p]

(* Each wants both instances of r1, and either may be killed: they may wait*)
(* for each other, and end with one entry or two.                          *)
ProgramaKill ==
  << <<Ins("WAIT", r1), Ins("WAIT", r1), Fin>>, <<Ins("WAIT", r1), Ins("WAIT", r1), Fin>> >>
=============================================================================
