------------------------------ MODULE Archivos ------------------------------
(***************************************************************************)
(* The Kernel's open files.  Each file of the global table (tag) has an    *)
(* active lock, with its participants, and a queue of the locks that wait; *)
(* each process has a table of the files it has open (tap).  f_open and    *)
(* f_close work under the mutex of the file's record, and so each is one   *)
(* step; liberar_archivos, the end of a process, closes one file at a time.*)
(*                                                                         *)
(* A program opens a file it does not have open, and a process that waits  *)
(* for a lock issues no instruction; it may be killed, if MatarEnEspera.   *)
(***************************************************************************)
EXTENDS Generales

CONSTANTS
  Archs,          \* names of the files of the global table
  MatarEnEspera   \* whether the console kills processes that wait

ASSUME ArchivosAssumption == MatarEnEspera \in BOOLEAN

Modos == {"LECTURA", "ESCRITURA"}

VARIABLES
  lockActivo,     \* type of the active lock of each file
  participantes,  \* its participants: how many times each process is listed
  colaLocks,      \* the locks that wait, each with its only participant
  tap,            \* tablaArchivos of each process: the mode, or "CERRADO"
  fin,            \* "vivo", "saliendo" (in liberar_archivos) or "terminado"
  porCerrar,      \* keys liberar_archivos has still to go through
  destruidas,     \* processes whose tablaArchivos was destroyed
  roto            \* a destroyed table was written: nothing is known of the Kernel

avars == <<lockActivo, participantes, colaLocks, tap, fin, porCerrar, destruidas, roto>>

Nadie == [q \in Pids |-> 0]

AInit ==
  /\ lockActivo = [f \in Archs |-> "NOASIGNADO"]
  /\ participantes = [f \in Archs |-> Nadie]
  /\ colaLocks = [f \in Archs |-> <<>>]
  /\ tap = [p \in Pids |-> [f \in Archs |-> "CERRADO"]]
  /\ fin = [p \in Pids |-> "vivo"]
  /\ porCerrar = [p \in Pids |-> {}]
  /\ destruidas = {} /\ roto = FALSE

EsperaEn(p, f) == \E i \in 1..Len(colaLocks[f]) : colaLocks[f][i].pid = p
EsperaLock(p)  == \E f \in Archs : EsperaEn(p, f)
Abiertos(p)    == {f \in Archs : tap[p][f] # "CERRADO"}

-----------------------------------------------------------------------------
(* The active lock lets a lock of this mode in.                            *)
Compatible(f, modo) ==
  lockActivo[f] = "NOASIGNADO" \/ (modo = "LECTURA" /\ lockActivo[f] = "LECTURA")

(* f_open, by whether the process gets the file or waits for it.           *)
AbrirYa(p, f, modo) ==
  /\ Compatible(f, modo)
  /\ lockActivo' = [lockActivo EXCEPT ![f] = modo]
  /\ participantes' = [participantes EXCEPT ![f][p] = @ + 1]
  /\ tap' = [tap EXCEPT ![p][f] = modo]
  /\ UNCHANGED colaLocks

AbrirYEsperar(p, f, modo) ==
  /\ ~Compatible(f, modo)
  /\ colaLocks' = [colaLocks EXCEPT ![f] = Append(@, [pid |-> p, tipo |-> modo])]
  /\ UNCHANGED <<lockActivo, participantes, tap>>

f_open(p, f, modo) ==
  /\ fin[p] = "vivo" /\ ~EsperaLock(p) /\ tap[p][f] = "CERRADO"
  /\ AbrirYa(p, f, modo) \/ AbrirYEsperar(p, f, modo)
  /\ UNCHANGED <<fin, porCerrar, destruidas, roto>>

(* Bug: every reader of the queue is taken, past the writers.              *)
Tanda_TodosLosLectores(cola) ==
  IF cola[1].tipo = "ESCRITURA" THEN {1}
  ELSE {i \in 1..Len(cola) : cola[i].tipo = "LECTURA"}

(* Bug: a writer takes the readers behind it along.                        *)
Tanda_ConEscritor(cola) ==
  {i \in 1..Len(cola) : \A j \in 2..i : cola[j].tipo = "LECTURA"}

(* The locks f_close takes from a queue that is not empty: a writer alone, *)
(* or the readers up to the first writer.                                  *)
Tanda(cola) ==
  IF cola[1].tipo = "ESCRITURA" THEN {1}
  ELSE {i \in 1..Len(cola) : \A j \in 1..i : cola[j].tipo = "LECTURA"}

EsPrimerEscritor(i, cola) ==
  cola[i].tipo = "ESCRITURA" /\ \A j \in 1..(i - 1) : cola[j].tipo = "LECTURA"

(* Bug: the readers of the queue are served one at each close.             *)
Restan_DeAUno(cola) == Tail(cola)

(* Bug: the writer that ends the batch is taken off the queue to look at it*)
(* and not put back.                                                       *)
Restan_SinEscritor(cola) ==
  IF \E i \in 2..Len(cola) : EsPrimerEscritor(i, cola)
  THEN SubSeq(cola, 1 + CHOOSE i \in 2..Len(cola) : EsPrimerEscritor(i, cola), Len(cola))
  ELSE IF cola[1].tipo = "ESCRITURA" THEN Tail(cola) ELSE <<>>

(* ... and what it leaves there.                                           *)
Restan(cola) ==
  IF cola[1].tipo = "ESCRITURA" THEN Tail(cola)
  ELSE IF \E i \in 1..Len(cola) : EsPrimerEscritor(i, cola)
       THEN SubSeq(cola, CHOOSE i \in 1..Len(cola) : EsPrimerEscritor(i, cola), Len(cola))
       ELSE <<>>

(* Bug: the count is lowered for a process that is not listed.             *)
Quedan_SinBuscar(p, f) == [participantes[f] EXCEPT ![p] = @ - 1]

(* f_close of f by p: p leaves the lock and forgets the file.  The queue is*)
(* looked at when nobody is left.                                          *)
Quedan(p, f) == [participantes[f] EXCEPT ![p] = IF @ > 0 THEN @ - 1 ELSE 0]

CerrarConOtros(p, f) ==
  /\ Quedan(p, f) # Nadie
  /\ participantes' = [participantes EXCEPT ![f] = Quedan(p, f)]
  /\ tap' = [tap EXCEPT ![p][f] = "CERRADO"]
  /\ UNCHANGED <<lockActivo, colaLocks, roto>>

CerrarUltimo(p, f) ==
  /\ Quedan(p, f) = Nadie /\ colaLocks[f] = <<>>
  /\ lockActivo' = [lockActivo EXCEPT ![f] = "NOASIGNADO"]
  /\ participantes' = [participantes EXCEPT ![f] = Nadie]
  /\ tap' = [tap EXCEPT ![p][f] = "CERRADO"]
  /\ UNCHANGED <<colaLocks, roto>>

CerrarYConceder(p, f) ==
  LET cola == colaLocks[f]
      reciben == {cola[i].pid : i \in Tanda(cola)}
  IN
  /\ Quedan(p, f) = Nadie /\ cola # <<>>
  /\ lockActivo' = [lockActivo EXCEPT ![f] = cola[1].tipo]
  /\ participantes' = [participantes EXCEPT ![f] = [q \in Pids |-> IF q \in reciben THEN 1 ELSE 0]]
  /\ tap' = [q \in Pids |-> IF q \in reciben THEN [tap[q] EXCEPT ![f] = cola[1].tipo]
                            ELSE IF q = p THEN [tap[q] EXCEPT ![f] = "CERRADO"]
                            ELSE tap[q]]
  /\ colaLocks' = [colaLocks EXCEPT ![f] = Restan(cola)]
  /\ roto' = (reciben \cap destruidas # {})

(* Bug: the lock becomes free though somebody waits for it.                *)
Cerrar_SinMirarCola(p, f) ==
  /\ participantes' = [participantes EXCEPT ![f] = Quedan(p, f)]
  /\ lockActivo' = [lockActivo EXCEPT ![f] = IF Quedan(p, f) = Nadie THEN "NOASIGNADO" ELSE @]
  /\ tap' = [tap EXCEPT ![p][f] = "CERRADO"]
  /\ UNCHANGED <<colaLocks, roto>>

Cerrar(p, f) == CerrarConOtros(p, f) \/ CerrarUltimo(p, f) \/ CerrarYConceder(p, f)

(* F_CLOSE, also of a file the process does not have open.                 *)
f_close(p, f) ==
  /\ fin[p] = "vivo" /\ ~EsperaLock(p)
  /\ Cerrar(p, f)
  /\ UNCHANGED <<fin, porCerrar, destruidas>>

-----------------------------------------------------------------------------
(* Bug: a process that ends keeps its locks.                               *)
Salir_SinCerrar(p) ==
  /\ fin[p] = "vivo" /\ (EsperaLock(p) => MatarEnEspera)
  /\ fin' = [fin EXCEPT ![p] = "terminado"]
  /\ UNCHANGED <<lockActivo, participantes, colaLocks, tap, porCerrar, destruidas, roto>>

(* liberar_archivos: the keys of the table are read once; with none, there *)
(* is nothing to do.                                                       *)
Salir(p) ==
  /\ fin[p] = "vivo" /\ (EsperaLock(p) => MatarEnEspera)
  /\ porCerrar' = [porCerrar EXCEPT ![p] = Abiertos(p)]
  /\ fin' = [fin EXCEPT ![p] = IF Abiertos(p) = {} THEN "terminado" ELSE "saliendo"]
  /\ UNCHANGED <<lockActivo, participantes, colaLocks, tap, destruidas, roto>>

CerrarUno(p, f) ==
  /\ fin[p] = "saliendo" /\ f \in porCerrar[p]
  /\ Cerrar(p, f)
  /\ porCerrar' = [porCerrar EXCEPT ![p] = @ \ {f}]
  /\ UNCHANGED <<fin, destruidas>>

(* dictionary_clean and dictionary_destroy of the table.                   *)
DestruirTabla(p) ==
  /\ fin[p] = "saliendo" /\ porCerrar[p] = {}
  /\ tap' = [tap EXCEPT ![p] = [f \in Archs |-> "CERRADO"]]
  /\ destruidas' = destruidas \cup {p}
  /\ fin' = [fin EXCEPT ![p] = "terminado"]
  /\ UNCHANGED <<lockActivo, participantes, colaLocks, porCerrar, roto>>

ANext ==
  /\ ~roto
  /\ \E p \in Pids :
       \/ \E f \in Archs, modo \in Modos : f_open(p, f, modo)
       \/ \E f \in Archs : f_close(p, f) \/ CerrarUno(p, f)
       \/ Salir(p) \/ DestruirTabla(p)

ASpec == AInit /\ [][ANext]_avars

(* Programs end: a process that is not left waiting for ever reaches EXIT, *)
(* and liberar_archivos goes on.                                           *)
AJusticia == \A p \in Pids :
  /\ SF_avars(~roto /\ Salir(p))
  /\ WF_avars(~roto /\ \E f \in Archs : CerrarUno(p, f))
  /\ WF_avars(~roto /\ DestruirTabla(p))

ASpecJusta == ASpec /\ AJusticia
-----------------------------------------------------------------------------
(* What the tables keep typed.                                             *)
ATypeOK ==
  /\ lockActivo \in [Archs -> Modos \cup {"NOASIGNADO"}]
  /\ participantes \in [Archs -> [Pids -> Nat]]
  /\ colaLocks \in [Archs -> Seq([pid : Pids, tipo : Modos])]
  /\ tap \in [Pids -> [Archs -> Modos \cup {"CERRADO"}]]
  /\ fin \in [Pids -> {"vivo", "saliendo", "terminado"}]
  /\ porCerrar \in [Pids -> SUBSET Archs]
  /\ destruidas \in SUBSET Pids /\ roto \in BOOLEAN

(* The global and the per-process tables tell the same story: the ones     *)
(* listed in the active lock, once, are those that have the file open in   *)
(* its mode, and a writer is alone.                                        *)
LockCoherente == \A f \in Archs :
  /\ \A p \in Pids :
       /\ participantes[f][p] = IF tap[p][f] = "CERRADO" THEN 0 ELSE 1
       /\ tap[p][f] \in {"CERRADO", lockActivo[f]}
  /\ lockActivo[f] = "ESCRITURA" =>
       \A p, q \in Pids : tap[p][f] # "CERRADO" /\ tap[q][f] # "CERRADO" => p = q

(* Nobody waits for what it could have: the first of a queue is not        *)
(* compatible with the active lock, however the locks before it were       *)
(* closed.                                                                 *)
EsperaJustificada == \A f \in Archs :
  colaLocks[f] # <<>> => ~Compatible(f, colaLocks[f][1].tipo)

(* A queued lock is not granted past one that waits before it; and who gets*)
(* a file at once while others wait for it (f_open, line 170) is a reader  *)
(* that joins readers, so that only writers are ever overtaken.            *)
SinAdelantarLocks == \A f \in Archs : \A i, j \in 1..Len(colaLocks[f]) :
  /\ i < j
  /\ tap'[colaLocks[f][j].pid][f] # "CERRADO"
  => \A k \in 1..Len(colaLocks'[f]) : colaLocks'[f][k].pid # colaLocks[f][i].pid
SoloLectoresSeSuman == \A f \in Archs : \A p \in Pids :
  /\ colaLocks[f] # <<>> /\ ~EsperaEn(p, f)
  /\ tap[p][f] = "CERRADO" /\ tap'[p][f] # "CERRADO"
  => lockActivo[f] = "LECTURA" /\ tap'[p][f] = "LECTURA" /\ colaLocks[f][1].tipo = "ESCRITURA"
LocksEnOrden == [][SinAdelantarLocks /\ SoloLectoresSeSuman]_avars

(* A process that has ended has no lock, and asks for none: whoever waits  *)
(* behind it is not waiting for a process that will never close.           *)
TerminaSinLocks == \A p \in Pids : fin[p] = "terminado" =>
  \A f \in Archs : participantes[f][p] = 0 /\ ~EsperaEn(p, f)

(* Who has each file, as the global table tells it.                        *)
Tienen == [p \in Pids |-> [f \in Archs |->
            IF participantes[f][p] > 0 THEN lockActivo[f] ELSE "CERRADO"]]

LE == INSTANCE LectoresEscritores WITH Procesos <- Pids, Objetos <- Archs,
                                       tiene <- Tienen, espera <- colaLocks

(* The global table behaves as locks of readers and writers, also when     *)
(* processes are killed while they wait: what lockActivo remembers is      *)
(* enough to let in those that can be together, and only them, and a close *)
(* hands the file over, in order, to as many as it can, and loses nobody.  *)
(* A reader may still join the readers past a writer that waits.           *)
ImplementaLocks == LE!LSpec

(* While programs end, whoever waits for a file gets it, however many      *)
(* readers join before a writer, if nobody waits with another file open.   *)
EsperaAtendida ==
  [](\A q \in Pids : EsperaLock(q) => Abiertos(q) = {}) =>
    \A p \in Pids : EsperaLock(p) ~> ~EsperaLock(p)
=============================================================================
