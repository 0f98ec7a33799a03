------------------------- MODULE LectoresEscritores -------------------------
(***************************************************************************)
(* What the file locks promise, said only of who has each object and who   *)
(* waits for it: one writer or any number of readers have it; who could not*)
(* be with them waits, in the order it came, and a release serves the front*)
(* of the queue, as far as it can go, in the same step.  A reader that     *)
(* comes while readers have the object takes it, whoever waits.            *)
(***************************************************************************)
EXTENDS Integers, Sequences

CONSTANTS Procesos, Objetos

VARIABLES
  tiene,    \* how each process has each object, or "CERRADO"
  espera    \* of each object, the sequence of requests [pid, tipo] that wait

lvars == <<tiene, espera>>

LInit ==
  /\ tiene = [p \in Procesos |-> [o \in Objetos |-> "CERRADO"]]
  /\ espera = [o \in Objetos |-> <<>>]

(* Those that have o leave room for one more.                              *)
Admite(o, modo) == \A q \in Procesos :
  tiene[q][o] = "CERRADO" \/ (modo = "LECTURA" /\ tiene[q][o] = "LECTURA")

(* A writer of o is alone.                                                 *)
Conviven(o) == \A p, q \in Procesos :
  p # q /\ tiene[p][o] = "ESCRITURA" => tiene[q][o] = "CERRADO"

(* The first that waits for o could not have it.                           *)
EsperaNecesaria(o) == espera[o] # <<>> => ~Admite(o, espera[o][1].tipo)

Activo(p) == \A o \in Objetos : \A i \in 1..Len(espera[o]) : espera[o][i].pid # p

Tomar(p, o, modo) ==
  /\ Activo(p) /\ tiene[p][o] = "CERRADO" /\ Admite(o, modo)
  /\ tiene' = [tiene EXCEPT ![p][o] = modo]
  /\ UNCHANGED espera

PonerseEnCola(p, o, modo) ==
  /\ Activo(p) /\ tiene[p][o] = "CERRADO" /\ ~Admite(o, modo)
  /\ espera' = [espera EXCEPT ![o] = Append(@, [pid |-> p, tipo |-> modo])]
  /\ UNCHANGED tiene

(* p leaves o, and the first n that waited have it, each in the mode it    *)
(* asked for.  There are as many as can be together, and not one more.  p  *)
(* may wait for another object: it is being ended.                         *)
Soltar(p, o, n) ==
  /\ tiene[p][o] # "CERRADO"
  /\ espera' = [espera EXCEPT ![o] = SubSeq(@, n + 1, Len(@))]
  /\ \A q \in Procesos, x \in Objetos \ {o} : tiene'[q][x] = tiene[q][x]
  /\ \A i \in 1..n : tiene'[espera[o][i].pid][o] = espera[o][i].tipo
  /\ \A q \in Procesos : (\A i \in 1..n : espera[o][i].pid # q) =>
       tiene'[q][o] = IF q = p THEN "CERRADO" ELSE tiene[q][o]
  /\ Conviven(o)' /\ EsperaNecesaria(o)'

LNext == \E p \in Procesos, o \in Objetos :
  \/ \E modo \in {"LECTURA", "ESCRITURA"} : Tomar(p, o, modo) \/ PonerseEnCola(p, o, modo)
  \/ \E n \in 0..Len(espera[o]) : Soltar(p, o, n)

LSpec == LInit /\ [][LNext]_lvars
=============================================================================
