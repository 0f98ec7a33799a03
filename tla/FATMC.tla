-------------------------------- MODULE FATMC --------------------------------
(* Instance for the run of FAT.                                            *)
EXTENDS FAT

CONSTANTS f1, f2, cero, uno
=============================================================================
