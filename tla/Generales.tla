----------------------------- MODULE Generales -----------------------------
(***************************************************************************)
(* What every Kernel module shares: the process identifiers PIDGLOBAL      *)
(* hands out and the operations of the commons lists used on the queues.   *)
(***************************************************************************)
EXTENDS Integers, Sequences, FiniteSets, SequencesExt

CONSTANT MaxProcesos    \* bound: processes the console may have created

ASSUME MaxProcesosAssumption == MaxProcesos \in Nat \ {0}

Pids == 1..MaxProcesos

(* list_find(...) != NULL: e is somewhere in the queue s.                  *)
EnCola(e, s) == \E i \in 1..Len(s) : s[i] = e

(* i is the position list_remove_element finds e at: its first occurrence. *)
EsPrimera(i, e, s) == s[i] = e /\ \A j \in 1..(i - 1) : s[j] # e

(* list_remove_element(s, e): drops the first occurrence, if there is one. *)
Quitar(e, s) ==
  IF \E i \in 1..Len(s) : EsPrimera(i, e, s)
  THEN RemoveAt(s, CHOOSE i \in 1..Len(s) : EsPrimera(i, e, s))
  ELSE s
=============================================================================
