----------------------------- MODULE RecursosMC -----------------------------
(* Instances for the runs of Recursos and Deteccion.                       *)
EXTENDS Deteccion

CONSTANTS a, b, c

DosYUna   == [r \in Recs |-> IF r = a THEN 2 ELSE 1]
=============================================================================
