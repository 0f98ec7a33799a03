------------------------------ MODULE MemoriaMC -----------------------------
(* Instances for the runs of Memoria.                                      *)
EXTENDS Memoria

CONSTANTS cero, uno

DosYUna  == [p \in Pids |-> IF p = 1 THEN 2 ELSE 1]
UnaDeCada == [p \in Pids |-> 1]
=============================================================================
