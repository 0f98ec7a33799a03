----------------------------- MODULE ArchivosMC -----------------------------
(* Instances for the runs of Archivos.                                     *)
EXTENDS Archivos

CONSTANTS f1, f2
=============================================================================
