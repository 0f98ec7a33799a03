--------------------------- MODULE ArchivosProofs ---------------------------
(***************************************************************************)
(* Proofs about Archivos, for any number of processes and files.  Whoever  *)
(* is killed and whenever: the types, that nobody waits for a lock it could*)
(* have, that queued locks are granted in their order, and that the global *)
(* table implements LectoresEscritores.  When nobody is killed  *)
(* while it waits: that the tables agree, and that a process ends with no  *)
(* lock.                                                                   *)
(***************************************************************************)
EXTENDS Archivos, SequenceTheorems, WellFoundedInduction, TLAPS

Espera == [pid : Pids, tipo : Modos]

(* The first lock of a queue.                                              *)
LEMMA PrimeraEspera ==
  ASSUME NEW cola \in Seq(Espera), cola # <<>>
  PROVE  1 \in 1..Len(cola) /\ cola[1] \in Espera /\ cola[1].tipo \in Modos
<1>1. 1 \in 1..Len(cola)
  BY EmptySeq, LenProperties
<1>2. cola[1] \in Espera
  BY <1>1, ElementOfSeq
<1>3. QED
  BY <1>1, <1>2 DEF Espera

(* What f_close leaves in a queue: a tail of it, none of it taken.         *)
LEMMA RestanPropiedades ==
  ASSUME NEW cola \in Seq(Espera), cola # <<>>
  PROVE  /\ Restan(cola) \in Seq(Espera)
         /\ \E d \in Nat : \A i \in 1..Len(Restan(cola)) :
              /\ i + d \in 1..Len(cola) /\ i + d \notin Tanda(cola)
              /\ Restan(cola)[i] = cola[i + d]
         /\ Restan(cola) # <<>> =>
              cola[1].tipo = "ESCRITURA" \/ Restan(cola)[1].tipo = "ESCRITURA"
<1>0. Len(cola) \in Nat \ {0}
  BY EmptySeq, LenProperties
<1>1. CASE cola[1].tipo = "ESCRITURA"
  <2>1. Restan(cola) = Tail(cola) /\ Tanda(cola) = {1}
    BY <1>1 DEF Restan, Tanda
  <2>2. /\ Tail(cola) \in Seq(Espera) /\ Len(Tail(cola)) = Len(cola) - 1
        /\ \A i \in 1..Len(Tail(cola)) : Tail(cola)[i] = cola[i + 1]
    BY HeadTailProperties
  <2>3. \A i \in 1..Len(Tail(cola)) : i + 1 \in 1..Len(cola) /\ i + 1 \notin {1}
    BY <1>0, <2>2
  <2>4. QED
    BY <1>1, <2>1, <2>2, <2>3
<1>2. CASE cola[1].tipo # "ESCRITURA" /\ ~\E i \in 1..Len(cola) : EsPrimerEscritor(i, cola)
  <2>1. Restan(cola) = <<>>
    BY <1>2 DEF Restan
  <2>2. <<>> \in Seq(Espera) /\ Len(<<>>) = 0
    BY EmptySeq
  <2>3. \A i \in 1..0 : FALSE
    OBVIOUS
  <2>4. QED
    BY <2>1, <2>2, <2>3
<1>3. CASE cola[1].tipo # "ESCRITURA" /\ \E i \in 1..Len(cola) : EsPrimerEscritor(i, cola)
  <2> DEFINE m == CHOOSE i \in 1..Len(cola) : EsPrimerEscritor(i, cola)
  <2>1. m \in 1..Len(cola) /\ EsPrimerEscritor(m, cola)
    BY <1>3
  <2>2. Restan(cola) = SubSeq(cola, m, Len(cola))
    BY <1>3 DEF Restan
  <2> HIDE DEF m
  <2>3. /\ SubSeq(cola, m, Len(cola)) \in Seq(Espera)
        /\ Len(SubSeq(cola, m, Len(cola))) = Len(cola) - m + 1
        /\ \A i \in 1..(Len(cola) - m + 1) : SubSeq(cola, m, Len(cola))[i] = cola[m + i - 1]
    BY <1>0, <2>1, SubSeqProperties
  <2>4. cola[m].tipo = "ESCRITURA"
    BY <2>1 DEF EsPrimerEscritor
  <2>5. ASSUME NEW i \in 1..(Len(cola) - m + 1)
        PROVE  /\ i + (m - 1) \in 1..Len(cola) /\ i + (m - 1) \notin Tanda(cola)
               /\ SubSeq(cola, m, Len(cola))[i] = cola[i + (m - 1)]
    <3>1. i + (m - 1) \in 1..Len(cola) /\ m \in 1..(i + (m - 1)) /\ m + i - 1 = i + (m - 1)
      BY <1>0, <2>1
    <3>2. i + (m - 1) \notin Tanda(cola)
      BY <1>3, <2>4, <3>1 DEF Tanda
    <3>3. QED
      BY <2>3, <3>1, <3>2
  <2>6. m - 1 \in Nat
    BY <2>1
  <2>7. Restan(cola)[1].tipo = "ESCRITURA"
    <3>1. 1 \in 1..(Len(cola) - m + 1) /\ m + 1 - 1 = m
      BY <1>0, <2>1
    <3>2. QED
      BY <2>2, <2>3, <2>4, <3>1
  <2>8. QED
    BY <2>2, <2>3, <2>5, <2>6, <2>7
<1>4. QED
  BY <1>1, <1>2, <1>3

-----------------------------------------------------------------------------
(* Types.                                                                  *)
LEMMA CerrarTipo ==
  ASSUME ATypeOK, NEW p \in Pids, NEW f \in Archs, Cerrar(p, f)
  PROVE  /\ lockActivo' \in [Archs -> Modos \cup {"NOASIGNADO"}]
         /\ participantes' \in [Archs -> [Pids -> Nat]]
         /\ colaLocks' \in [Archs -> Seq(Espera)]
         /\ tap' \in [Pids -> [Archs -> Modos \cup {"CERRADO"}]]
         /\ roto' \in BOOLEAN
<1>1. Quedan(p, f) \in [Pids -> Nat]
  BY DEF Quedan, ATypeOK
<1>2. CASE CerrarConOtros(p, f)
  BY <1>1, <1>2 DEF CerrarConOtros, ATypeOK, Espera
<1>3. CASE CerrarUltimo(p, f)
  BY <1>3 DEF CerrarUltimo, Nadie, ATypeOK, Espera
<1>4. CASE CerrarYConceder(p, f)
  <2>1. colaLocks[f] \in Seq(Espera) /\ colaLocks[f] # <<>>
    BY <1>4 DEF CerrarYConceder, ATypeOK, Espera
  <2>3. colaLocks[f][1].tipo \in Modos
    BY <2>1, PrimeraEspera
  <2>4. Restan(colaLocks[f]) \in Seq(Espera)
    BY <2>1, RestanPropiedades
  <2> DEFINE reciben == {colaLocks[f][i].pid : i \in Tanda(colaLocks[f])}
             modo == colaLocks[f][1].tipo
  <2>5. /\ lockActivo' = [lockActivo EXCEPT ![f] = modo]
        /\ participantes' = [participantes EXCEPT ![f] = [q \in Pids |-> IF q \in reciben THEN 1 ELSE 0]]
        /\ tap' = [q \in Pids |-> IF q \in reciben THEN [tap[q] EXCEPT ![f] = modo]
                                  ELSE IF q = p THEN [tap[q] EXCEPT ![f] = "CERRADO"]
                                  ELSE tap[q]]
        /\ colaLocks' = [colaLocks EXCEPT ![f] = Restan(colaLocks[f])]
        /\ roto' = (reciben \cap destruidas # {})
    BY <1>4 DEF CerrarYConceder
  <2> HIDE DEF reciben, modo
  <2>6. modo \in Modos
    BY <2>3 DEF modo
  <2>7. lockActivo' \in [Archs -> Modos \cup {"NOASIGNADO"}]
    BY <2>5, <2>6 DEF ATypeOK
  <2>8. participantes' \in [Archs -> [Pids -> Nat]]
    BY <2>5 DEF ATypeOK
  <2>9. colaLocks' \in [Archs -> Seq(Espera)]
    BY <2>4, <2>5 DEF ATypeOK, Espera
  <2>10. tap' \in [Pids -> [Archs -> Modos \cup {"CERRADO"}]]
    BY <2>5, <2>6 DEF ATypeOK
  <2>11. roto' \in BOOLEAN
    BY <2>5
  <2>12. QED
    BY <2>7, <2>8, <2>9, <2>10, <2>11
<1>5. QED
  BY <1>2, <1>3, <1>4 DEF Cerrar

LEMMA ATipoInductivo == ATypeOK /\ [ANext]_avars => ATypeOK'
<1> SUFFICES ASSUME ATypeOK, [ANext]_avars PROVE ATypeOK'
  OBVIOUS
<1>1. ASSUME NEW p \in Pids, NEW f \in Archs, NEW modo \in Modos, f_open(p, f, modo)
      PROVE ATypeOK'
  <2>1. CASE AbrirYa(p, f, modo)
    <3>1. /\ lockActivo' = [lockActivo EXCEPT ![f] = modo]
          /\ participantes' = [participantes EXCEPT ![f][p] = @ + 1]
          /\ tap' = [tap EXCEPT ![p][f] = modo]
          /\ UNCHANGED <<colaLocks, fin, porCerrar, destruidas, roto>>
      BY <1>1, <2>1 DEF f_open, AbrirYa
    <3>2. lockActivo' \in [Archs -> Modos \cup {"NOASIGNADO"}]
      BY <3>1 DEF ATypeOK
    <3>3. participantes' \in [Archs -> [Pids -> Nat]]
      <4>1. participantes[f][p] + 1 \in Nat
        BY DEF ATypeOK
      <4>2. QED
        BY <3>1, <4>1 DEF ATypeOK
    <3>4. tap' \in [Pids -> [Archs -> Modos \cup {"CERRADO"}]]
      BY <3>1 DEF ATypeOK
    <3>5. QED
      BY <3>1, <3>2, <3>3, <3>4 DEF ATypeOK
  <2>2. CASE AbrirYEsperar(p, f, modo)
    <3>1. [pid |-> p, tipo |-> modo] \in Espera
      BY DEF Espera
    <3>2. Append(colaLocks[f], [pid |-> p, tipo |-> modo]) \in Seq(Espera)
      BY <3>1, AppendProperties DEF ATypeOK, Espera
    <3>3. QED
      BY <1>1, <2>2, <3>2 DEF f_open, AbrirYEsperar, ATypeOK, Espera
  <2>3. QED
    BY <1>1, <2>1, <2>2 DEF f_open
<1>2. ASSUME NEW p \in Pids, NEW f \in Archs, f_close(p, f) PROVE ATypeOK'
  BY <1>2, CerrarTipo DEF f_close, ATypeOK, Espera
<1>3. ASSUME NEW p \in Pids, NEW f \in Archs, CerrarUno(p, f) PROVE ATypeOK'
  BY <1>3, CerrarTipo DEF CerrarUno, ATypeOK, Espera
<1>4. ASSUME NEW p \in Pids, Salir(p) PROVE ATypeOK'
  BY <1>4 DEF Salir, Abiertos, ATypeOK
<1>5. ASSUME NEW p \in Pids, DestruirTabla(p) PROVE ATypeOK'
  BY <1>5 DEF DestruirTabla, ATypeOK
<1>6. CASE UNCHANGED avars
  BY <1>6 DEF avars, ATypeOK
<1>7. QED
  BY <1>1, <1>2, <1>3, <1>4, <1>5, <1>6 DEF ANext

LEMMA ATipoInicial == AInit => ATypeOK
<1>1. <<>> \in Seq([pid : Pids, tipo : Modos])
  BY EmptySeq
<1>2. Nadie \in [Pids -> Nat]
  BY DEF Nadie
<1>3. AInit => participantes \in [Archs -> [Pids -> Nat]]
  BY <1>2 DEF AInit
<1>4. AInit => colaLocks \in [Archs -> Seq([pid : Pids, tipo : Modos])]
  BY <1>1 DEF AInit
<1>5. AInit => /\ tap \in [Pids -> [Archs -> Modos \cup {"CERRADO"}]]
               /\ lockActivo \in [Archs -> Modos \cup {"NOASIGNADO"}]
               /\ fin \in [Pids -> {"vivo", "saliendo", "terminado"}]
  BY DEF AInit
<1>6. AInit => porCerrar \in [Pids -> SUBSET Archs] /\ destruidas \in SUBSET Pids /\ roto \in BOOLEAN
  BY DEF AInit
<1>7. QED
  BY <1>3, <1>4, <1>5, <1>6 DEF ATypeOK

(* Type correctness of the file tables, with or without kills.             *)
THEOREM ATipo == ASpec => []ATypeOK
BY ATipoInicial, ATipoInductivo, PTL DEF ASpec

-----------------------------------------------------------------------------
(* A lock waits only behind one it is not compatible with.                 *)
LEMMA CerrarJustifica ==
  ASSUME ATypeOK, EsperaJustificada, NEW p \in Pids, NEW f \in Archs, Cerrar(p, f)
  PROVE  EsperaJustificada'
<1> SUFFICES ASSUME NEW g \in Archs, colaLocks'[g] # <<>>
             PROVE  ~(Compatible(g, colaLocks[g][1].tipo))'
  BY DEF EsperaJustificada
<1>1. CASE CerrarConOtros(p, f)
  BY <1>1 DEF CerrarConOtros, EsperaJustificada, Compatible
<1>2. CASE CerrarUltimo(p, f)
  <2>1. g # f
    BY <1>2 DEF CerrarUltimo
  <2>2. QED
    BY <1>2, <2>1 DEF CerrarUltimo, EsperaJustificada, Compatible, ATypeOK
<1>3. CASE CerrarYConceder(p, f)
  <2> DEFINE cola == colaLocks[f]
  <2>1. /\ cola # <<>>
        /\ lockActivo' = [lockActivo EXCEPT ![f] = cola[1].tipo]
        /\ colaLocks' = [colaLocks EXCEPT ![f] = Restan(cola)]
    BY <1>3 DEF CerrarYConceder
  <2>2. CASE g # f
    BY <2>1, <2>2 DEF EsperaJustificada, Compatible, ATypeOK
  <2>3. CASE g = f
    <3>1. cola \in Seq(Espera)
      BY DEF ATypeOK, Espera
    <3>2. cola[1].tipo \in Modos
      BY <2>1, <3>1, PrimeraEspera
    <3> HIDE DEF cola
    <3>3. lockActivo'[g] = cola[1].tipo /\ colaLocks'[g] = Restan(cola)
      BY <2>1, <2>3 DEF ATypeOK
    <3>4. Restan(cola) # <<>>
      BY <3>3
    <3>5. cola[1].tipo = "ESCRITURA" \/ Restan(cola)[1].tipo = "ESCRITURA"
      BY <2>1, <3>1, <3>4, RestanPropiedades
    <3>6. QED
      BY <3>2, <3>3, <3>5 DEF Compatible, Modos
  <2>4. QED
    BY <2>2, <2>3
<1>4. QED
  BY <1>1, <1>2, <1>3 DEF Cerrar

LEMMA JustificadaInductivo ==
  ATypeOK /\ EsperaJustificada /\ [ANext]_avars => EsperaJustificada'
<1> SUFFICES ASSUME ATypeOK, EsperaJustificada, [ANext]_avars PROVE EsperaJustificada'
  OBVIOUS
<1>1. ASSUME NEW p \in Pids, NEW f \in Archs, NEW modo \in Modos, f_open(p, f, modo)
      PROVE EsperaJustificada'
  <2>1. CASE AbrirYa(p, f, modo)
    <3>1. ASSUME NEW g \in Archs, colaLocks[g] # <<>>
          PROVE  lockActivo'[g] = lockActivo[g]
      BY <2>1, <3>1 DEF AbrirYa, Compatible, EsperaJustificada, ATypeOK
    <3>2. QED
      BY <2>1, <3>1 DEF AbrirYa, Compatible, EsperaJustificada
  <2>2. CASE AbrirYEsperar(p, f, modo)
    <3> DEFINE nuevo == [pid |-> p, tipo |-> modo]
    <3>1. /\ ~Compatible(f, modo) /\ UNCHANGED lockActivo
          /\ colaLocks' = [colaLocks EXCEPT ![f] = Append(@, nuevo)]
      BY <2>2 DEF AbrirYEsperar
    <3>2. colaLocks[f] \in Seq(Espera) /\ nuevo \in Espera
      BY DEF ATypeOK, Espera
    <3>3. CASE colaLocks[f] = <<>>
      <4>1. Append(colaLocks[f], nuevo)[1] = nuevo
        BY <3>2, <3>3, AppendProperties, EmptySeq
      <4>2. QED
        BY <3>1, <4>1 DEF EsperaJustificada, Compatible, ATypeOK
    <3>4. CASE colaLocks[f] # <<>>
      <4>1. 1 \in 1..Len(colaLocks[f])
        BY <3>2, <3>4, EmptySeq, LenProperties
      <4>2. Append(colaLocks[f], nuevo)[1] = colaLocks[f][1]
        BY <3>2, <4>1, AppendProperties
      <4>3. QED
        BY <3>1, <3>4, <4>2 DEF EsperaJustificada, Compatible, ATypeOK
    <3>5. QED
      BY <3>3, <3>4
  <2>3. QED
    BY <1>1, <2>1, <2>2 DEF f_open
<1>2. ASSUME NEW p \in Pids, NEW f \in Archs, f_close(p, f) \/ CerrarUno(p, f)
      PROVE EsperaJustificada'
  BY <1>2, CerrarJustifica DEF f_close, CerrarUno
<1>3. ASSUME NEW p \in Pids, Salir(p) \/ DestruirTabla(p) PROVE EsperaJustificada'
  BY <1>3 DEF Salir, DestruirTabla, EsperaJustificada, Compatible
<1>4. CASE UNCHANGED avars
  BY <1>4 DEF avars, EsperaJustificada, Compatible
<1>5. QED
  BY <1>1, <1>2, <1>3, <1>4 DEF ANext

LEMMA JustificadaInicial == AInit => EsperaJustificada
BY DEF AInit, EsperaJustificada

(* Nobody waits for a lock it could have, whoever is killed and whenever.  *)
THEOREM AJustificada == ASpec => []EsperaJustificada
<1>1. ATypeOK /\ EsperaJustificada /\ [ANext]_avars => (ATypeOK /\ EsperaJustificada)'
  BY ATipoInductivo, JustificadaInductivo
<1>2. AInit => ATypeOK /\ EsperaJustificada
  BY ATipoInicial, JustificadaInicial
<1>3. QED
  BY <1>1, <1>2, PTL DEF ASpec

-----------------------------------------------------------------------------
(* Who waits for a file has not got it and waits for it once.              *)
Esperan == \A f \in Archs : \A i \in 1..Len(colaLocks[f]) :
  /\ tap[colaLocks[f][i].pid][f] = "CERRADO"
  /\ \A j \in 1..Len(colaLocks[f]) : colaLocks[f][j].pid = colaLocks[f][i].pid => i = j

LEMMA EsperaDeProceso ==
  ASSUME ATypeOK, NEW f \in Archs, NEW i \in 1..Len(colaLocks[f])
  PROVE  colaLocks[f][i].pid \in Pids
<1>1. colaLocks[f] \in Seq(Espera)
  BY DEF ATypeOK, Espera
<1>2. colaLocks[f][i] \in Espera
  BY <1>1, ElementOfSeq
<1>3. QED
  BY <1>2 DEF Espera

(* A close touches one file; there, it takes the file from p and from      *)
(* nobody else, and gives it only to who waits for it.                     *)
LEMMA CerrarEfecto ==
  ASSUME ATypeOK, NEW p \in Pids, NEW f \in Archs, Cerrar(p, f)
  PROVE  /\ \A g \in Archs \ {f} :
              /\ lockActivo'[g] = lockActivo[g] /\ participantes'[g] = participantes[g]
              /\ colaLocks'[g] = colaLocks[g] /\ \A q \in Pids : tap'[q][g] = tap[q][g]
         /\ \A q \in Pids : ~EsperaEn(q, f) =>
              tap'[q][f] = IF q = p THEN "CERRADO" ELSE tap[q][f]
<1>1. CASE CerrarConOtros(p, f) \/ CerrarUltimo(p, f)
  <2>1. /\ tap' = [tap EXCEPT ![p][f] = "CERRADO"] /\ UNCHANGED colaLocks
        /\ lockActivo' = [lockActivo EXCEPT ![f] = "NOASIGNADO"] \/ UNCHANGED lockActivo
        /\ \/ participantes' = [participantes EXCEPT ![f] = Quedan(p, f)]
           \/ participantes' = [participantes EXCEPT ![f] = Nadie]
    BY <1>1 DEF CerrarConOtros, CerrarUltimo
  <2>2. \A q \in Pids, g \in Archs :
          tap'[q][g] = IF q = p /\ g = f THEN "CERRADO" ELSE tap[q][g]
    BY <2>1 DEF ATypeOK
  <2>3. \A g \in Archs \ {f} : lockActivo'[g] = lockActivo[g] /\ participantes'[g] = participantes[g]
    BY <2>1 DEF ATypeOK
  <2>4. QED
    BY <2>1, <2>2, <2>3
<1>2. CASE CerrarYConceder(p, f)
  <2> DEFINE cola == colaLocks[f]
             reciben == {cola[i].pid : i \in Tanda(cola)}
             modo == cola[1].tipo
  <2>1. /\ lockActivo' = [lockActivo EXCEPT ![f] = modo]
        /\ participantes' = [participantes EXCEPT ![f] = [q \in Pids |-> IF q \in reciben THEN 1 ELSE 0]]
        /\ tap' = [q \in Pids |-> IF q \in reciben THEN [tap[q] EXCEPT ![f] = modo]
                                  ELSE IF q = p THEN [tap[q] EXCEPT ![f] = "CERRADO"]
                                  ELSE tap[q]]
        /\ colaLocks' = [colaLocks EXCEPT ![f] = Restan(cola)]
        /\ cola # <<>>
    BY <1>2 DEF CerrarYConceder
  <2>2. Tanda(cola) \subseteq 1..Len(cola)
    <3>1. cola \in Seq(Espera)
      BY DEF ATypeOK, Espera
    <3>2. QED
      BY <2>1, <3>1, PrimeraEspera DEF Tanda
  <2>3. \A q \in reciben : EsperaEn(q, f)
    BY <2>2 DEF EsperaEn
  <2> HIDE DEF cola, reciben, modo
  <2>4. QED
    BY <2>1, <2>3 DEF ATypeOK
<1>3. QED
  BY <1>1, <1>2 DEF Cerrar

(* Whoever is left in the queue was not taken, nor is listed a second time.*)
LEMMA CerrarEsperan ==
  ASSUME ATypeOK, Esperan, NEW p \in Pids, NEW f \in Archs, Cerrar(p, f)
  PROVE  Esperan'
<1> SUFFICES ASSUME NEW g \in Archs, NEW i \in 1..Len(colaLocks'[g])
             PROVE  /\ tap'[colaLocks'[g][i].pid][g] = "CERRADO"
                    /\ \A j \in 1..Len(colaLocks'[g]) :
                         colaLocks'[g][j].pid = colaLocks'[g][i].pid => i = j
  BY DEF Esperan
<1>1. \A h \in Archs : \A k \in 1..Len(colaLocks[h]) : colaLocks[h][k].pid \in Pids
  BY EsperaDeProceso
<1>2. CASE g # f
  BY <1>1, <1>2, CerrarEfecto DEF Esperan
<1>3. CASE g = f /\ CerrarConOtros(p, f)
  <2>1. tap' = [tap EXCEPT ![p][f] = "CERRADO"] /\ UNCHANGED colaLocks
    BY <1>3 DEF CerrarConOtros
  <2>2. \A q \in Pids : tap'[q][f] = IF q = p THEN "CERRADO" ELSE tap[q][f]
    BY <2>1 DEF ATypeOK
  <2>3. QED
    BY <1>1, <1>3, <2>1, <2>2 DEF Esperan
<1>4. CASE g = f /\ CerrarUltimo(p, f)
  <2>1. colaLocks'[g] = <<>>
    BY <1>4 DEF CerrarUltimo
  <2>2. Len(<<>>) = 0
    BY EmptySeq
  <2>3. QED
    BY <2>1, <2>2
<1>5. CASE g = f /\ CerrarYConceder(p, f)
  <2> DEFINE cola == colaLocks[f]
             reciben == {cola[k].pid : k \in Tanda(cola)}
             modo == cola[1].tipo
  <2>1. /\ tap' = [q \in Pids |-> IF q \in reciben THEN [tap[q] EXCEPT ![f] = modo]
                                  ELSE IF q = p THEN [tap[q] EXCEPT ![f] = "CERRADO"]
                                  ELSE tap[q]]
        /\ colaLocks'[f] = Restan(cola) /\ cola # <<>>
    BY <1>5 DEF CerrarYConceder, ATypeOK
  <2>2. cola \in Seq(Espera)
    BY DEF ATypeOK, Espera
  <2>3. PICK d \in Nat : \A k \in 1..Len(Restan(cola)) :
              /\ k + d \in 1..Len(cola) /\ k + d \notin Tanda(cola)
              /\ Restan(cola)[k] = cola[k + d]
    BY <2>1, <2>2, RestanPropiedades
  <2>4. Tanda(cola) \subseteq 1..Len(cola)
    BY <2>1, <2>2, PrimeraEspera DEF Tanda
  <2>5. \A k \in 1..Len(cola) :
          /\ cola[k].pid \in Pids /\ tap[cola[k].pid][f] = "CERRADO"
          /\ \A j \in 1..Len(cola) : cola[j].pid = cola[k].pid => k = j
    BY <1>1 DEF Esperan
  <2>6. /\ i \in 1..Len(Restan(cola)) /\ i + d \in 1..Len(cola) /\ i + d \notin Tanda(cola)
        /\ colaLocks'[g][i] = cola[i + d]
    BY <1>5, <2>1, <2>3
  <2>7. cola[i + d].pid \notin reciben
    BY <2>4, <2>5, <2>6
  <2> HIDE DEF cola, reciben, modo
  <2>8. tap'[cola[i + d].pid][f] = "CERRADO"
    BY <2>1, <2>5, <2>6, <2>7 DEF ATypeOK
  <2>9. ASSUME NEW j \in 1..Len(colaLocks'[g]), colaLocks'[g][j].pid = colaLocks'[g][i].pid
        PROVE  i = j
    <3>1. j \in 1..Len(Restan(cola)) /\ j + d \in 1..Len(cola) /\ colaLocks'[g][j] = cola[j + d]
      BY <1>5, <2>1, <2>3, <2>9
    <3>2. i + d = j + d
      BY <2>5, <2>6, <2>9, <3>1
    <3>3. i \in Int /\ j \in Int
      BY <2>6, <3>1
    <3>4. QED
      BY <2>3, <3>2, <3>3
  <2>10. QED
    BY <1>5, <2>5, <2>6, <2>8, <2>9
<1>6. QED
  BY <1>2, <1>3, <1>4, <1>5 DEF Cerrar

LEMMA EsperanInductivo ==
  ASSUME ATypeOK, Esperan, [ANext]_avars
  PROVE  Esperan'
<1>1. ASSUME NEW p \in Pids, NEW f \in Archs, NEW modo \in Modos, f_open(p, f, modo)
      PROVE  Esperan'
  <2>1. ~EsperaLock(p) /\ tap[p][f] = "CERRADO"
    BY <1>1 DEF f_open
  <2>2. CASE AbrirYa(p, f, modo)
    <3>1. tap' = [tap EXCEPT ![p][f] = modo] /\ UNCHANGED colaLocks
      BY <2>2 DEF AbrirYa
    <3>2. \A g \in Archs : \A i \in 1..Len(colaLocks[g]) : colaLocks[g][i].pid # p
      BY <2>1 DEF EsperaLock, EsperaEn
    <3>3. \A q \in Pids \ {p} : tap'[q] = tap[q]
      BY <3>1 DEF ATypeOK
    <3>4. \A g \in Archs : \A i \in 1..Len(colaLocks[g]) : colaLocks[g][i].pid \in Pids
      BY EsperaDeProceso
    <3>5. QED
      BY <3>1, <3>2, <3>3, <3>4 DEF Esperan
  <2>3. CASE AbrirYEsperar(p, f, modo)
    <3> DEFINE nuevo == [pid |-> p, tipo |-> modo]
               cola == colaLocks[f]
    <3>1. UNCHANGED tap /\ colaLocks' = [colaLocks EXCEPT ![f] = Append(cola, nuevo)]
      BY <2>3 DEF AbrirYEsperar
    <3>3. cola \in Seq(Espera) /\ nuevo \in Espera
      BY DEF ATypeOK, Espera
    <3>4. /\ Len(Append(cola, nuevo)) = Len(cola) + 1 /\ Len(cola) \in Nat
          /\ Append(cola, nuevo)[Len(cola) + 1] = nuevo
          /\ \A i \in 1..Len(cola) : Append(cola, nuevo)[i] = cola[i]
      BY <3>3, AppendProperties, LenProperties
    <3>5. \A i \in 1..Len(cola) : cola[i].pid # p
      BY <2>1 DEF EsperaLock, EsperaEn
    <3>6. \A g \in Archs \ {f} : colaLocks'[g] = colaLocks[g]
      BY <3>1 DEF ATypeOK
    <3>7. colaLocks'[f] = Append(cola, nuevo) /\ nuevo.pid = p
      BY <3>1 DEF ATypeOK
    <3>8. \A i \in 1..Len(cola) :
            /\ tap[cola[i].pid][f] = "CERRADO"
            /\ \A j \in 1..Len(cola) : cola[j].pid = cola[i].pid => i = j
      BY DEF Esperan
    <3> HIDE DEF nuevo, cola
    <3> SUFFICES ASSUME NEW g \in Archs, NEW i \in 1..Len(colaLocks'[g])
                 PROVE  /\ tap[colaLocks'[g][i].pid][g] = "CERRADO"
                        /\ \A j \in 1..Len(colaLocks'[g]) :
                             colaLocks'[g][j].pid = colaLocks'[g][i].pid => i = j
      BY <3>1 DEF Esperan
    <3>9. CASE g # f
      BY <3>6, <3>9 DEF Esperan
    <3>10. CASE g = f
      <4>1. Len(colaLocks'[g]) = Len(cola) + 1
        BY <3>4, <3>7, <3>10
      <4>2. \A j \in 1..Len(colaLocks'[g]) :
              \/ j \in 1..Len(cola) /\ colaLocks'[g][j] = cola[j]
              \/ j = Len(cola) + 1 /\ colaLocks'[g][j] = nuevo
        BY <3>4, <3>7, <3>10, <4>1
      <4>3. QED
        BY <2>1, <3>5, <3>7, <3>8, <3>10, <4>2
    <3>11. QED
      BY <3>9, <3>10
  <2>4. QED
    BY <1>1, <2>2, <2>3 DEF f_open
<1>2. ASSUME NEW p \in Pids, NEW f \in Archs, Cerrar(p, f)
      PROVE  Esperan'
  BY <1>2, CerrarEsperan
<1>3. ASSUME NEW p \in Pids, Salir(p)
      PROVE  Esperan'
  BY <1>3 DEF Salir, Esperan
<1>4. ASSUME NEW p \in Pids, DestruirTabla(p)
      PROVE  Esperan'
  <2>1. UNCHANGED colaLocks /\ tap' = [tap EXCEPT ![p] = [g \in Archs |-> "CERRADO"]]
    BY <1>4 DEF DestruirTabla
  <2>2. \A q \in Pids, g \in Archs : tap[q][g] = "CERRADO" => tap'[q][g] = "CERRADO"
    BY <2>1 DEF ATypeOK
  <2>3. QED
    BY <2>1, <2>2, EsperaDeProceso DEF Esperan
<1>5. CASE UNCHANGED avars
  <2>1. UNCHANGED colaLocks /\ UNCHANGED tap
    BY <1>5 DEF avars
  <2>2. QED
    BY <2>1 DEF Esperan
<1>6. QED
  BY <1>1, <1>2, <1>3, <1>4, <1>5 DEF ANext, f_close, CerrarUno

LEMMA EsperanInicial == AInit => Esperan
<1>1. Len(<<>>) = 0
  BY EmptySeq
<1>2. AInit => \A f \in Archs : Len(colaLocks[f]) = 0
  BY <1>1 DEF AInit
<1>3. QED
  BY <1>2 DEF Esperan

-----------------------------------------------------------------------------
(* Who stays in the queue of f was behind everyone that was granted it.    *)
LEMMA CerrarSinAdelantar ==
  ASSUME ATypeOK, Esperan, NEW p \in Pids, NEW f \in Archs, CerrarYConceder(p, f),
         NEW i \in 1..Len(colaLocks[f]), NEW j \in 1..Len(colaLocks[f]), i < j,
         tap'[colaLocks[f][j].pid][f] # "CERRADO",
         NEW k \in 1..Len(colaLocks'[f])
  PROVE  colaLocks'[f][k].pid # colaLocks[f][i].pid
<1> DEFINE cola == colaLocks[f]
           reciben == {cola[m].pid : m \in Tanda(cola)}
           modo == cola[1].tipo
<1>1. /\ tap' = [q \in Pids |-> IF q \in reciben THEN [tap[q] EXCEPT ![f] = modo]
                                ELSE IF q = p THEN [tap[q] EXCEPT ![f] = "CERRADO"]
                                ELSE tap[q]]
      /\ colaLocks'[f] = Restan(cola) /\ cola # <<>>
  BY DEF CerrarYConceder, ATypeOK
<1>2. cola \in Seq(Espera) /\ Len(cola) \in Nat
  BY LenProperties DEF ATypeOK, Espera
<1>3. Tanda(cola) \subseteq 1..Len(cola)
  BY <1>1, <1>2, PrimeraEspera DEF Tanda
<1>4. \A m \in 1..Len(cola) :
        /\ cola[m].pid \in Pids /\ tap[cola[m].pid][f] = "CERRADO"
        /\ \A n \in 1..Len(cola) : cola[n].pid = cola[m].pid => n = m
  BY EsperaDeProceso DEF Esperan
<1>5. cola[j].pid \in reciben
  <2> HIDE DEF reciben, modo, cola
  <2>1. cola[j].pid \in Pids /\ tap[cola[j].pid][f] = "CERRADO"
    BY <1>4 DEF cola
  <2>2. tap'[cola[j].pid][f] # "CERRADO"
    BY DEF cola
  <2>3. QED
    BY <1>1, <2>1, <2>2 DEF ATypeOK
<1>6. j \in Tanda(cola)
  BY <1>3, <1>4, <1>5
<1>7. i \in Tanda(cola)
  BY <1>2, <1>6 DEF Tanda
<1>8. PICK d \in Nat : \A m \in 1..Len(Restan(cola)) :
            /\ m + d \in 1..Len(cola) /\ m + d \notin Tanda(cola)
            /\ Restan(cola)[m] = cola[m + d]
  BY <1>1, <1>2, RestanPropiedades
<1>9. k + d \in 1..Len(cola) /\ k + d # i /\ colaLocks'[f][k] = cola[k + d]
  BY <1>1, <1>7, <1>8
<1>10. QED
  BY <1>4, <1>9

LEMMA LocksSinAdelantar ==
  ASSUME ATypeOK, Esperan, [ANext]_avars
  PROVE  SinAdelantarLocks
<1> SUFFICES ASSUME NEW f \in Archs, NEW i \in 1..Len(colaLocks[f]), NEW j \in 1..Len(colaLocks[f]),
                    i < j, tap'[colaLocks[f][j].pid][f] # "CERRADO",
                    NEW k \in 1..Len(colaLocks'[f])
             PROVE  colaLocks'[f][k].pid # colaLocks[f][i].pid
  BY DEF SinAdelantarLocks
<1> DEFINE q == colaLocks[f][j].pid
<1>1. /\ ATypeOK /\ Esperan /\ q \in Pids /\ EsperaEn(q, f) /\ EsperaLock(q)
      /\ tap[q][f] = "CERRADO" /\ tap'[q][f] # "CERRADO"
  BY EsperaDeProceso DEF Esperan, EsperaEn, EsperaLock
<1> HIDE DEF q
<1>2. ASSUME NEW p \in Pids, NEW g \in Archs, Cerrar(p, g)
      PROVE  g = f /\ CerrarYConceder(p, f)
  <2>1. g = f
    BY <1>1, <1>2, CerrarEfecto
  <2>2. ~(CerrarConOtros(p, f) \/ CerrarUltimo(p, f))
    <3>1. CerrarConOtros(p, f) \/ CerrarUltimo(p, f) => tap' = [tap EXCEPT ![p][f] = "CERRADO"]
      BY DEF CerrarConOtros, CerrarUltimo
    <3>2. tap' = [tap EXCEPT ![p][f] = "CERRADO"] =>
            tap'[q][f] = IF q = p THEN "CERRADO" ELSE tap[q][f]
      BY <1>1 DEF ATypeOK
    <3>3. QED
      BY <1>1, <3>1, <3>2
  <2>3. QED
    BY <1>2, <2>1, <2>2 DEF Cerrar
<1>3. ASSUME NEW p \in Pids, NEW g \in Archs, NEW modo \in Modos, f_open(p, g, modo)
      PROVE  FALSE
  <2>1. p # q /\ (tap' = [tap EXCEPT ![p][g] = modo] \/ UNCHANGED tap)
    BY <1>1, <1>3 DEF f_open, AbrirYa, AbrirYEsperar
  <2>2. QED
    BY <1>1, <2>1 DEF ATypeOK
<1>4. ASSUME NEW p \in Pids, Salir(p) \/ DestruirTabla(p)
      PROVE  FALSE
  <2>1. UNCHANGED tap \/ tap' = [tap EXCEPT ![p] = [g \in Archs |-> "CERRADO"]]
    BY <1>4 DEF Salir, DestruirTabla
  <2>2. DOMAIN tap = Pids
    BY <1>1 DEF ATypeOK
  <2>3. tap'[q] \in {tap[q], [g \in Archs |-> "CERRADO"]}
    BY <1>1, <2>1, <2>2
  <2>4. tap'[q][f] = "CERRADO"
    BY <1>1, <2>3
  <2>5. QED
    BY <1>1, <2>4
<1>5. ~UNCHANGED avars
  BY <1>1 DEF avars
<1>6. PICK p \in Pids, g \in Archs : Cerrar(p, g)
  BY <1>3, <1>4, <1>5 DEF ANext, f_close, CerrarUno
<1>7. CerrarYConceder(p, f)
  BY <1>2, <1>6
<1>8. QED
  BY <1>1, <1>7, CerrarSinAdelantar DEF q

(* f_open gives a file at once past those that wait for it only to readers *)
(* that join readers.  A queue is not empty only while its first lock is   *)
(* not compatible with the active one, and so the active one is not free.  *)
LEMMA LectoresSeSuman ==
  ASSUME ATypeOK, EsperaJustificada, [ANext]_avars
  PROVE  SoloLectoresSeSuman
<1> SUFFICES ASSUME NEW f \in Archs, NEW p \in Pids, colaLocks[f] # <<>>, ~EsperaEn(p, f),
                    tap[p][f] = "CERRADO", tap'[p][f] # "CERRADO"
             PROVE  /\ lockActivo[f] = "LECTURA" /\ tap'[p][f] = "LECTURA"
                    /\ colaLocks[f][1].tipo = "ESCRITURA"
  BY DEF SoloLectoresSeSuman
<1>1. tap' # tap
  OBVIOUS
<1>2. ASSUME NEW q \in Pids, NEW g \in Archs, Cerrar(q, g)
      PROVE  FALSE
  <2>1. CASE CerrarConOtros(q, g) \/ CerrarUltimo(q, g)
    <3>1. tap' = [tap EXCEPT ![q][g] = "CERRADO"]
      BY <2>1 DEF CerrarConOtros, CerrarUltimo
    <3>2. tap'[p][f] \in {tap[p][f], "CERRADO"}
      BY <3>1 DEF ATypeOK
    <3>3. QED
      BY <3>2
  <2>2. CASE CerrarYConceder(q, g)
    <3> DEFINE cola == colaLocks[g]
               reciben == {cola[i].pid : i \in Tanda(cola)}
    <3>1. /\ tap' = [x \in Pids |-> IF x \in reciben THEN [tap[x] EXCEPT ![g] = cola[1].tipo]
                                    ELSE IF x = q THEN [tap[x] EXCEPT ![g] = "CERRADO"]
                                    ELSE tap[x]]
          /\ cola # <<>>
      BY <2>2 DEF CerrarYConceder
    <3>2. cola \in Seq(Espera)
      BY DEF ATypeOK, Espera
    <3>3. Tanda(cola) \subseteq 1..Len(cola)
      BY <3>1, <3>2, PrimeraEspera DEF Tanda
    <3>4. p \in reciben => EsperaEn(p, g)
      BY <3>3 DEF EsperaEn
    <3> HIDE DEF reciben, cola
    <3>5. g = f => p \notin reciben
      BY <3>4
    <3>6. tap'[p][f] \in {tap[p][f], "CERRADO"}
      BY <3>1, <3>5 DEF ATypeOK
    <3>7. QED
      BY <3>6
  <2>3. QED
    BY <1>2, <2>1, <2>2 DEF Cerrar
<1>3. ASSUME NEW q \in Pids, Salir(q) \/ DestruirTabla(q)
      PROVE  FALSE
  <2>1. UNCHANGED tap \/ tap' = [tap EXCEPT ![q] = [x \in Archs |-> "CERRADO"]]
    BY <1>3 DEF Salir, DestruirTabla
  <2>2. DOMAIN tap = Pids
    BY DEF ATypeOK
  <2>3. tap'[p] \in {tap[p], [x \in Archs |-> "CERRADO"]}
    BY <2>1, <2>2
  <2>4. tap'[p][f] = "CERRADO"
    BY <2>3
  <2>5. QED
    BY <2>4
<1>4. PICK q \in Pids, g \in Archs, modo \in Modos : f_open(q, g, modo)
  BY <1>1, <1>2, <1>3 DEF ANext, f_close, CerrarUno, avars
<1>5. AbrirYa(q, g, modo)
  BY <1>1, <1>4 DEF f_open, AbrirYEsperar
<1>6. q = p /\ g = f /\ tap'[p][f] = modo
  BY <1>5 DEF AbrirYa, ATypeOK
<1>7. Compatible(f, modo) /\ ~Compatible(f, colaLocks[f][1].tipo)
  BY <1>5, <1>6 DEF AbrirYa, EsperaJustificada
<1>8. colaLocks[f] \in Seq(Espera)
  BY DEF ATypeOK, Espera
<1>9. colaLocks[f][1].tipo \in Modos
  BY <1>8, PrimeraEspera DEF Espera
<1>10. QED
  BY <1>6, <1>7, <1>9 DEF Compatible, Modos

(* Whoever is killed: f_close grants a file in the order it was asked for, *)
(* for a batch of readers stops at the first writer and nobody is granted a*)
(* lock while one that waits before it goes on waiting; and f_open, while  *)
(* somebody waits, lets in only a reader among readers.                    *)
THEOREM ALocksEnOrden == ASpec => LocksEnOrden
<1>1. AInit => ATypeOK /\ Esperan /\ EsperaJustificada
  BY ATipoInicial, EsperanInicial, JustificadaInicial
<1>2. ATypeOK /\ Esperan /\ EsperaJustificada /\ [ANext]_avars =>
        (ATypeOK /\ Esperan /\ EsperaJustificada)'
  BY ATipoInductivo, EsperanInductivo, JustificadaInductivo
<1>3. ATypeOK /\ Esperan /\ EsperaJustificada /\ [ANext]_avars =>
        SinAdelantarLocks /\ SoloLectoresSeSuman
  BY LocksSinAdelantar, LectoresSeSuman
<1>4. QED
  BY <1>1, <1>2, <1>3, PTL DEF ASpec, LocksEnOrden

-----------------------------------------------------------------------------
(* Without kills of processes that wait.  Who waits is alive ...           *)
EsperanVivos == \A p \in Pids : EsperaLock(p) => fin[p] = "vivo"

(* ... so nothing is granted to who is leaving, and the keys it read are   *)
(* the files it has.                                                       *)
Salen == \A p \in Pids :
  /\ fin[p] = "saliendo" => porCerrar[p] = Abiertos(p)
  /\ fin[p] = "terminado" => Abiertos(p) = {}

AInv == ATypeOK /\ LockCoherente /\ Esperan /\ EsperanVivos /\ Salen

(* A close puts nobody in a queue.                                         *)
LEMMA CerrarNoEncola ==
  ASSUME ATypeOK, NEW p \in Pids, NEW f \in Archs, Cerrar(p, f),
         NEW q \in Pids, EsperaLock(q)'
  PROVE  EsperaLock(q)
<1>1. PICK g \in Archs : \E i \in 1..Len(colaLocks'[g]) : colaLocks'[g][i].pid = q
  BY DEF EsperaLock, EsperaEn
<1>2. PICK i \in 1..Len(colaLocks'[g]) : colaLocks'[g][i].pid = q
  BY <1>1
<1>3. CASE colaLocks'[g] = colaLocks[g]
  BY <1>2, <1>3 DEF EsperaLock, EsperaEn
<1>4. CASE colaLocks'[g] # colaLocks[g]
  <2> DEFINE cola == colaLocks[g]
  <2>1. g = f /\ CerrarYConceder(p, f)
    BY <1>4, CerrarEfecto DEF Cerrar, CerrarConOtros, CerrarUltimo
  <2>2. cola # <<>> /\ colaLocks'[g] = Restan(cola) /\ cola \in Seq(Espera)
    BY <2>1 DEF CerrarYConceder, ATypeOK, Espera
  <2>3. PICK d \in Nat : \A k \in 1..Len(Restan(cola)) :
              k + d \in 1..Len(cola) /\ Restan(cola)[k] = cola[k + d]
    BY <2>2, RestanPropiedades
  <2>4. i + d \in 1..Len(cola) /\ cola[i + d].pid = q
    BY <1>2, <2>2, <2>3
  <2>5. QED
    BY <2>4 DEF EsperaLock, EsperaEn
<1>5. QED
  BY <1>3, <1>4

LEMMA CerrarCoherente ==
  ASSUME ATypeOK, LockCoherente, NEW p \in Pids, NEW f \in Archs, Cerrar(p, f)
  PROVE  LockCoherente'
<1> SUFFICES ASSUME NEW g \in Archs
             PROVE  /\ \A q \in Pids :
                         /\ participantes'[g][q] = IF tap'[q][g] = "CERRADO" THEN 0 ELSE 1
                         /\ tap'[q][g] \in {"CERRADO", lockActivo'[g]}
                    /\ lockActivo'[g] = "ESCRITURA" =>
                         \A q, r \in Pids : tap'[q][g] # "CERRADO" /\ tap'[r][g] # "CERRADO" => q = r
  BY DEF LockCoherente
<1>1. CASE g # f
  BY <1>1, CerrarEfecto DEF LockCoherente
<1>2. CASE g = f /\ CerrarConOtros(p, f)
  <2>1. /\ participantes'[f] = Quedan(p, f) /\ UNCHANGED lockActivo
        /\ tap' = [tap EXCEPT ![p][f] = "CERRADO"]
    BY <1>2 DEF CerrarConOtros, ATypeOK
  <2>2. \A q \in Pids : tap'[q][f] = IF q = p THEN "CERRADO" ELSE tap[q][f]
    BY <2>1 DEF ATypeOK
  <2>3. \A q \in Pids : participantes'[f][q] = IF q = p THEN 0 ELSE participantes[f][q]
    <3>1. participantes[f] \in [Pids -> Nat] /\ participantes[f][p] \in {0, 1}
      BY DEF LockCoherente, ATypeOK
    <3>2. \A q \in Pids : Quedan(p, f)[q] = IF q = p THEN 0 ELSE participantes[f][q]
      BY <3>1 DEF Quedan
    <3>3. QED
      BY <2>1, <3>2
  <2>4. QED
    BY <1>2, <2>1, <2>2, <2>3 DEF LockCoherente
<1>3. ASSUME Quedan(p, f) = Nadie, NEW q \in Pids \ {p} PROVE tap[q][f] = "CERRADO"
  <2>1. participantes[f][q] = 0
    BY <1>3 DEF Quedan, Nadie, ATypeOK
  <2>2. QED
    BY <2>1 DEF LockCoherente
<1>4. CASE g = f /\ CerrarUltimo(p, f)
  <2>1. /\ participantes'[f] = Nadie /\ tap' = [tap EXCEPT ![p][f] = "CERRADO"]
        /\ Quedan(p, f) = Nadie
    BY <1>4 DEF CerrarUltimo, ATypeOK
  <2>2. \A q \in Pids : tap'[q][f] = "CERRADO"
    BY <1>3, <2>1 DEF ATypeOK
  <2>3. QED
    BY <1>4, <2>1, <2>2 DEF Nadie
<1>5. CASE g = f /\ CerrarYConceder(p, f)
  <2> DEFINE cola == colaLocks[f]
             reciben == {cola[i].pid : i \in Tanda(cola)}
             modo == cola[1].tipo
  <2>1. /\ lockActivo' = [lockActivo EXCEPT ![f] = modo]
        /\ participantes' = [participantes EXCEPT ![f] = [q \in Pids |-> IF q \in reciben THEN 1 ELSE 0]]
        /\ tap' = [q \in Pids |-> IF q \in reciben THEN [tap[q] EXCEPT ![f] = modo]
                                  ELSE IF q = p THEN [tap[q] EXCEPT ![f] = "CERRADO"]
                                  ELSE tap[q]]
        /\ cola # <<>> /\ Quedan(p, f) = Nadie
    BY <1>5 DEF CerrarYConceder
  <2>2. modo \in Modos
    BY <2>1, PrimeraEspera DEF ATypeOK, Espera
  <2>3. modo = "ESCRITURA" => \A q, r \in reciben : q = r
    BY DEF Tanda
  <2> HIDE DEF cola, reciben, modo
  <2>4. \A q \in Pids : tap'[q][f] = IF q \in reciben THEN modo ELSE "CERRADO"
    BY <1>3, <2>1 DEF ATypeOK
  <2>5. \A q \in Pids : participantes'[f][q] = IF q \in reciben THEN 1 ELSE 0
    BY <2>1 DEF ATypeOK
  <2>6. lockActivo'[f] = modo /\ modo # "CERRADO"
    BY <2>1, <2>2 DEF ATypeOK, Modos
  <2>7. QED
    BY <1>5, <2>3, <2>4, <2>5, <2>6
<1>6. QED
  BY <1>1, <1>2, <1>4, <1>5 DEF Cerrar

(* The files of who has left change only by its own closes.                *)
LEMMA CerrarAbiertos ==
  ASSUME ATypeOK, EsperanVivos, NEW p \in Pids, NEW f \in Archs, Cerrar(p, f),
         NEW q \in Pids, fin[q] # "vivo"
  PROVE  Abiertos(q)' = IF q = p THEN Abiertos(q) \ {f} ELSE Abiertos(q)
<1>1. ~EsperaEn(q, f)
  BY DEF EsperanVivos, EsperaLock
<1>2. tap'[q][f] = IF q = p THEN "CERRADO" ELSE tap[q][f]
  BY <1>1, CerrarEfecto
<1>3. \A g \in Archs \ {f} : tap'[q][g] = tap[q][g]
  BY CerrarEfecto
<1>4. QED
  BY <1>2, <1>3 DEF Abiertos

LEMMA AInvInductivo ==
  ASSUME MatarEnEspera = FALSE, AInv, [ANext]_avars
  PROVE  AInv'
<1> USE DEF AInv
<1>1. ATypeOK' /\ Esperan'
  BY ATipoInductivo, EsperanInductivo
<1>2. ASSUME NEW p \in Pids, NEW f \in Archs, NEW modo \in Modos, f_open(p, f, modo)
      PROVE  LockCoherente' /\ EsperanVivos' /\ Salen'
  <2>1. fin[p] = "vivo" /\ ~EsperaLock(p) /\ tap[p][f] = "CERRADO" /\ UNCHANGED <<fin, porCerrar>>
    BY <1>2 DEF f_open
  <2>2. CASE AbrirYa(p, f, modo)
    <3>1. /\ lockActivo' = [lockActivo EXCEPT ![f] = modo] /\ UNCHANGED colaLocks
          /\ participantes' = [participantes EXCEPT ![f][p] = @ + 1]
          /\ tap' = [tap EXCEPT ![p][f] = modo] /\ Compatible(f, modo)
      BY <2>2 DEF AbrirYa
    <3>2. \A q \in Pids, g \in Archs : tap'[q][g] = IF q = p /\ g = f THEN modo ELSE tap[q][g]
      BY <3>1 DEF ATypeOK
    <3>3. \A q \in Pids, g \in Archs :
            participantes'[g][q] = IF q = p /\ g = f THEN participantes[g][q] + 1 ELSE participantes[g][q]
      BY <3>1 DEF ATypeOK
    <3>4. \A g \in Archs : lockActivo'[g] = IF g = f THEN modo ELSE lockActivo[g]
      BY <3>1 DEF ATypeOK
    <3>5. participantes[f][p] = 0
      BY <2>1 DEF LockCoherente
    <3>6. \A q \in Pids : tap[q][f] = "CERRADO" \/ (modo = "LECTURA" /\ tap[q][f] = "LECTURA")
      BY <3>1 DEF Compatible, LockCoherente, ATypeOK, Modos
    <3>7. LockCoherente'
      BY <3>2, <3>3, <3>4, <3>5, <3>6 DEF LockCoherente, Modos
    <3>8. EsperanVivos'
      BY <2>1, <3>1 DEF EsperanVivos, EsperaLock, EsperaEn
    <3>9. Salen'
      <4>1. \A q \in Pids \ {p} : Abiertos(q)' = Abiertos(q)
        BY <3>2 DEF Abiertos
      <4>2. QED
        BY <2>1, <4>1 DEF Salen
    <3>10. QED
      BY <3>7, <3>8, <3>9
  <2>3. CASE AbrirYEsperar(p, f, modo)
    <3> DEFINE nuevo == [pid |-> p, tipo |-> modo]
               cola == colaLocks[f]
    <3>1. UNCHANGED <<lockActivo, participantes, tap>> /\ colaLocks' = [colaLocks EXCEPT ![f] = Append(cola, nuevo)]
      BY <2>3 DEF AbrirYEsperar
    <3>2. LockCoherente' /\ Salen'
      BY <2>1, <3>1 DEF LockCoherente, Salen, Abiertos
    <3>3. cola \in Seq(Espera) /\ nuevo \in Espera
      BY DEF ATypeOK, Espera
    <3>4. /\ Len(Append(cola, nuevo)) = Len(cola) + 1 /\ Len(cola) \in Nat
          /\ Append(cola, nuevo)[Len(cola) + 1] = nuevo
          /\ \A i \in 1..Len(cola) : Append(cola, nuevo)[i] = cola[i]
      BY <3>3, AppendProperties, LenProperties
    <3>5. \A g \in Archs \ {f} : colaLocks'[g] = colaLocks[g]
      BY <3>1 DEF ATypeOK
    <3>6. colaLocks'[f] = Append(cola, nuevo) /\ nuevo.pid = p
      BY <3>1 DEF ATypeOK
    <3>7. \A i \in 1..Len(cola) : EsperaLock(cola[i].pid)
      BY DEF EsperaLock, EsperaEn
    <3> HIDE DEF nuevo, cola
    <3>8. ASSUME NEW q \in Pids, NEW g \in Archs, NEW i \in 1..Len(colaLocks'[g]),
                 colaLocks'[g][i].pid = q
          PROVE  q = p \/ EsperaLock(q)
      <4>1. CASE g # f
        BY <3>5, <3>8, <4>1 DEF EsperaLock, EsperaEn
      <4>2. CASE g = f
        <5>1. i \in 1..Len(cola) \/ i = Len(cola) + 1
          BY <3>4, <3>6, <4>2
        <5>2. QED
          BY <3>4, <3>6, <3>7, <3>8, <4>2, <5>1
      <4>3. QED
        BY <4>1, <4>2
    <3>9. EsperanVivos'
      BY <2>1, <3>8 DEF EsperanVivos, EsperaLock, EsperaEn
    <3>10. QED
      BY <3>2, <3>9
  <2>4. QED
    BY <1>2, <2>2, <2>3 DEF f_open
<1>3. ASSUME NEW p \in Pids, NEW f \in Archs, f_close(p, f)
      PROVE  LockCoherente' /\ EsperanVivos' /\ Salen'
  <2>1. Cerrar(p, f) /\ UNCHANGED <<fin, porCerrar>> /\ fin[p] = "vivo"
    BY <1>3 DEF f_close
  <2>2. LockCoherente' /\ EsperanVivos'
    BY <2>1, CerrarCoherente, CerrarNoEncola DEF EsperanVivos
  <2>3. \A q \in Pids : fin[q] # "vivo" => Abiertos(q)' = Abiertos(q)
    BY <2>1, CerrarAbiertos
  <2>4. QED
    BY <2>1, <2>2, <2>3 DEF Salen
<1>4. ASSUME NEW p \in Pids, NEW f \in Archs, CerrarUno(p, f)
      PROVE  LockCoherente' /\ EsperanVivos' /\ Salen'
  <2>1. /\ Cerrar(p, f) /\ UNCHANGED fin /\ fin[p] = "saliendo"
        /\ porCerrar' = [porCerrar EXCEPT ![p] = @ \ {f}]
    BY <1>4 DEF CerrarUno
  <2>2. LockCoherente' /\ EsperanVivos'
    BY <2>1, CerrarCoherente, CerrarNoEncola DEF EsperanVivos
  <2>3. \A q \in Pids : fin[q] # "vivo" =>
          Abiertos(q)' = IF q = p THEN Abiertos(q) \ {f} ELSE Abiertos(q)
    BY <2>1, CerrarAbiertos
  <2>4. \A q \in Pids : porCerrar'[q] = IF q = p THEN porCerrar[q] \ {f} ELSE porCerrar[q]
    BY <2>1 DEF ATypeOK
  <2>5. QED
    BY <2>1, <2>2, <2>3, <2>4 DEF Salen
<1>5. ASSUME NEW p \in Pids, Salir(p)
      PROVE  LockCoherente' /\ EsperanVivos' /\ Salen'
  <2>1. /\ ~EsperaLock(p) /\ UNCHANGED <<lockActivo, participantes, colaLocks, tap>>
        /\ porCerrar' = [porCerrar EXCEPT ![p] = Abiertos(p)]
        /\ fin' = [fin EXCEPT ![p] = IF Abiertos(p) = {} THEN "terminado" ELSE "saliendo"]
    BY <1>5 DEF Salir
  <2>2. LockCoherente'
    BY <2>1 DEF LockCoherente
  <2>3. \A q \in Pids : EsperaLock(q)' = EsperaLock(q)
    BY <2>1 DEF EsperaLock, EsperaEn
  <2>4. \A q \in Pids \ {p} : fin'[q] = fin[q]
    BY <2>1 DEF ATypeOK
  <2>5. EsperanVivos'
    BY <2>1, <2>3, <2>4 DEF EsperanVivos
  <2>6. Salen'
    <3>1. \A q \in Pids : Abiertos(q)' = Abiertos(q)
      BY <2>1 DEF Abiertos
    <3>2. \A q \in Pids \ {p} : fin'[q] = fin[q] /\ porCerrar'[q] = porCerrar[q]
      BY <2>1 DEF ATypeOK
    <3>3. /\ fin'[p] = IF Abiertos(p) = {} THEN "terminado" ELSE "saliendo"
          /\ porCerrar'[p] = Abiertos(p)
      BY <2>1 DEF ATypeOK
    <3>4. QED
      BY <3>1, <3>2, <3>3 DEF Salen
  <2>7. QED
    BY <2>2, <2>5, <2>6
<1>6. ASSUME NEW p \in Pids, DestruirTabla(p)
      PROVE  LockCoherente' /\ EsperanVivos' /\ Salen'
  <2>1. /\ fin[p] = "saliendo" /\ porCerrar[p] = {}
        /\ tap' = [tap EXCEPT ![p] = [g \in Archs |-> "CERRADO"]]
        /\ fin' = [fin EXCEPT ![p] = "terminado"]
        /\ UNCHANGED <<lockActivo, participantes, colaLocks, porCerrar>>
    BY <1>6 DEF DestruirTabla
  <2>2. \A g \in Archs : tap[p][g] = "CERRADO"
    BY <2>1 DEF Salen, Abiertos
  <2>3. \A q \in Pids, g \in Archs : tap'[q][g] = tap[q][g]
    BY <2>1, <2>2 DEF ATypeOK
  <2>4. LockCoherente'
    BY <2>1, <2>3 DEF LockCoherente
  <2>5. \A q \in Pids \ {p} : fin'[q] = fin[q]
    BY <2>1 DEF ATypeOK
  <2>6. EsperanVivos'
    <3>1. \A q \in Pids : EsperaLock(q)' = EsperaLock(q)
      BY <2>1 DEF EsperaLock, EsperaEn
    <3>2. ~EsperaLock(p)
      BY <2>1 DEF EsperanVivos
    <3>3. QED
      BY <2>5, <3>1, <3>2 DEF EsperanVivos
  <2>7. Salen'
    <3>1. \A q \in Pids : Abiertos(q)' = Abiertos(q)
      BY <2>3 DEF Abiertos
    <3>2. fin'[p] = "terminado" /\ Abiertos(p) = {}
      BY <2>1, <2>2 DEF Abiertos, ATypeOK
    <3>3. QED
      BY <2>1, <2>5, <3>1, <3>2 DEF Salen
  <2>8. QED
    BY <2>4, <2>6, <2>7
<1>7. CASE UNCHANGED avars
  <2>1. UNCHANGED <<lockActivo, participantes, colaLocks, tap, fin, porCerrar>>
    BY <1>7 DEF avars
  <2>2. \A q \in Pids : Abiertos(q)' = Abiertos(q)
    BY <2>1 DEF Abiertos
  <2>3. \A q \in Pids : EsperaLock(q)' = EsperaLock(q)
    BY <2>1 DEF EsperaLock, EsperaEn
  <2>4. LockCoherente' /\ EsperanVivos' /\ Salen'
    BY <2>1, <2>2, <2>3 DEF LockCoherente, EsperanVivos, Salen
  <2>5. QED
    BY <1>1, <2>4
<1>8. QED
  BY <1>1, <1>2, <1>3, <1>4, <1>5, <1>6, <1>7 DEF ANext

LEMMA AInvInicial == AInit => AInv
<1> SUFFICES ASSUME AInit PROVE AInv
  OBVIOUS
<1>1. ATypeOK
  BY ATipoInicial
<1>2. LockCoherente
  BY DEF AInit, Nadie, LockCoherente
<1>3. Esperan
  BY EsperanInicial
<1>4. \A f \in Archs : Len(colaLocks[f]) = 0
  BY EmptySeq DEF AInit
<1>5. EsperanVivos
  BY <1>4 DEF EsperanVivos, EsperaLock, EsperaEn
<1>6. Salen
  BY DEF AInit, Salen
<1>7. QED
  BY <1>1, <1>2, <1>3, <1>5, <1>6 DEF AInv

LEMMA AInvTermina == AInv => TerminaSinLocks
<1> SUFFICES ASSUME AInv, NEW p \in Pids, fin[p] = "terminado", NEW f \in Archs
             PROVE  participantes[f][p] = 0 /\ ~EsperaEn(p, f)
  BY DEF TerminaSinLocks
<1>1. tap[p][f] = "CERRADO"
  BY DEF AInv, Salen, Abiertos
<1>2. QED
  BY <1>1 DEF AInv, LockCoherente, EsperanVivos, EsperaLock

(* If nobody is killed while it waits: the ones listed in a lock are those *)
(* that have the file open in its mode, a writer alone ...                 *)
THEOREM ACoherente == ASSUME MatarEnEspera = FALSE PROVE ASpec => []LockCoherente
<1>1. AInit => AInv
  BY AInvInicial
<1>2. AInv /\ [ANext]_avars => AInv'
  BY AInvInductivo
<1>3. AInv => LockCoherente
  BY DEF AInv
<1>4. QED
  BY <1>1, <1>2, <1>3, PTL DEF ASpec

(* ... and a process that has ended has no lock and waits for none.        *)
THEOREM ATermina == ASSUME MatarEnEspera = FALSE PROVE ASpec => []TerminaSinLocks
<1>1. AInit => AInv
  BY AInvInicial
<1>2. AInv /\ [ANext]_avars => AInv'
  BY AInvInductivo
<1>3. AInv => TerminaSinLocks
  BY AInvTermina
<1>4. QED
  BY <1>1, <1>2, <1>3, PTL DEF ASpec
-----------------------------------------------------------------------------
(* The locks as LectoresEscritores.  A batch is a front of the queue, of   *)
(* locks of one mode, and what is left is the rest of it.                  *)
LEMMA MinimoNatural ==
  ASSUME NEW S \in SUBSET Nat, S # {}
  PROVE  \E m \in S : \A k \in S : m <= k
<1>1. PICK m \in S : \A k \in S : <<k, m>> \notin OpToRel(<, Nat)
  BY NatLessThanWellFounded, WFMin
<1>2. \A k \in S : ~(k < m)
  BY <1>1 DEF OpToRel
<1>3. QED
  BY <1>2

LEMMA TandaPrefijo ==
  ASSUME NEW cola \in Seq(Espera), cola # <<>>
  PROVE  \E n \in 1..Len(cola) :
           /\ Tanda(cola) = 1..n
           /\ Restan(cola) = SubSeq(cola, n + 1, Len(cola))
           /\ \A i \in 1..n : cola[i].tipo = cola[1].tipo
<1>1. Len(cola) \in Nat \ {0} /\ cola[1].tipo \in Modos
  BY EmptySeq, LenProperties, PrimeraEspera
<1>2. CASE cola[1].tipo = "ESCRITURA"
  <2>1. Tanda(cola) = 1..1 /\ Restan(cola) = Tail(cola)
    BY <1>2 DEF Tanda, Restan
  <2>2. Tail(cola) = SubSeq(cola, 2, Len(cola))
    BY <1>1
  <2>3. 1 \in 1..Len(cola) /\ 1 + 1 = 2
    BY <1>1
  <2>4. QED
    BY <2>1, <2>2, <2>3
<1>3. CASE cola[1].tipo = "LECTURA"
  <2> DEFINE Escritores == {i \in 1..Len(cola) : cola[i].tipo = "ESCRITURA"}
  <2>1. \A i \in 1..Len(cola) : cola[i].tipo \in {"LECTURA", "ESCRITURA"}
    <3>1. \A i \in 1..Len(cola) : cola[i] \in Espera
      BY ElementOfSeq
    <3>2. QED
      BY <3>1 DEF Espera, Modos
  <2>2. Tanda(cola) = {i \in 1..Len(cola) : \A j \in 1..i : cola[j].tipo = "LECTURA"}
    BY <1>3 DEF Tanda
  <2>3. CASE Escritores = {}
    <3>1. Tanda(cola) = 1..Len(cola) /\ \A i \in 1..Len(cola) : cola[i].tipo = "LECTURA"
      BY <1>1, <2>1, <2>2, <2>3
    <3>2. Restan(cola) = <<>>
      BY <1>3, <2>3 DEF Restan, EsPrimerEscritor
    <3>3. SubSeq(cola, Len(cola) + 1, Len(cola)) = <<>>
      BY <1>1
    <3>4. Len(cola) \in 1..Len(cola)
      BY <1>1
    <3>5. QED
      BY <1>3, <3>1, <3>2, <3>3, <3>4
  <2>4. CASE Escritores # {}
    <3>1. PICK m \in Escritores : \A k \in Escritores : m <= k
      <4>1. Escritores \in SUBSET Nat
        BY <1>1
      <4>2. QED
        BY <2>4, <4>1, MinimoNatural
    <3>2. m \in 2..Len(cola) /\ cola[m].tipo = "ESCRITURA"
      BY <1>1, <1>3
    <3>3. \A j \in 1..(m - 1) : cola[j].tipo = "LECTURA"
      BY <1>1, <2>1, <3>1, <3>2
    <3>4. \A i \in 1..Len(cola) : EsPrimerEscritor(i, cola) <=> i = m
      <4>1. EsPrimerEscritor(m, cola)
        BY <3>2, <3>3 DEF EsPrimerEscritor
      <4>2. ASSUME NEW i \in 1..Len(cola), EsPrimerEscritor(i, cola) PROVE i = m
        <5>1. cola[i].tipo = "ESCRITURA" /\ \A j \in 1..(i - 1) : cola[j].tipo = "LECTURA"
          BY <4>2 DEF EsPrimerEscritor
        <5>2. m <= i
          BY <3>1, <5>1
        <5>3. ~(m < i)
          BY <1>1, <3>2, <5>1
        <5>4. QED
          BY <1>1, <3>2, <5>2, <5>3
      <4>3. QED
        BY <4>1, <4>2
    <3>5. Restan(cola) = SubSeq(cola, m, Len(cola))
      <4>1. \E i \in 1..Len(cola) : EsPrimerEscritor(i, cola)
        BY <3>4
      <4>2. (CHOOSE i \in 1..Len(cola) : EsPrimerEscritor(i, cola)) = m
        BY <3>4, <4>1
      <4>3. QED
        BY <1>3, <4>1, <4>2 DEF Restan
    <3>6. Tanda(cola) = 1..(m - 1)
      <4>1. ASSUME NEW i \in 1..Len(cola) PROVE i \in Tanda(cola) <=> i < m
        <5>1. i < m => \A j \in 1..i : cola[j].tipo = "LECTURA"
          BY <1>1, <3>2, <3>3
        <5>2. ~(i < m) => m \in 1..i
          BY <1>1, <3>2
        <5>3. QED
          BY <2>2, <3>2, <5>1, <5>2
      <4>2. \A i \in 1..(m - 1) : i \in 1..Len(cola) /\ i < m
        BY <1>1, <3>2
      <4>3. \A i \in 1..Len(cola) : i < m => i \in 1..(m - 1)
        BY <1>1, <3>2
      <4>4. Tanda(cola) \subseteq 1..Len(cola)
        BY <2>2
      <4>5. QED
        BY <4>1, <4>2, <4>3, <4>4
    <3>7. m - 1 \in 1..Len(cola) /\ (m - 1) + 1 = m
      BY <1>1, <3>2
    <3>8. QED
      BY <1>3, <3>3, <3>5, <3>6, <3>7
  <2>5. QED
    BY <2>3, <2>4
<1>4. QED
  BY <1>1, <1>2, <1>3 DEF Modos

(* The global table, whoever is killed.  Nobody is listed twice, and, of   *)
(* those that are alive, the ones listed are those that have the file.     *)
Listados == \A f \in Archs, p \in Pids :
  /\ participantes[f][p] \in {0, 1}
  /\ fin[p] = "vivo" => (participantes[f][p] = 0 <=> tap[p][f] = "CERRADO")

(* A lock is free when it has nobody, and a writer is alone in it.         *)
Activos == \A f \in Archs :
  /\ lockActivo[f] = "NOASIGNADO" <=> \A p \in Pids : participantes[f][p] = 0
  /\ lockActivo[f] = "ESCRITURA" =>
       \A p, q \in Pids : participantes[f][p] = 1 /\ participantes[f][q] = 1 => p = q

LInv == ATypeOK /\ EsperaJustificada /\ Listados /\ Activos

LEMMA QuedanListados ==
  ASSUME ATypeOK, Listados, NEW p \in Pids, NEW f \in Archs
  PROVE  /\ \A q \in Pids : Quedan(p, f)[q] = IF q = p THEN 0 ELSE participantes[f][q]
         /\ Quedan(p, f) = Nadie <=> \A q \in Pids \ {p} : participantes[f][q] = 0
<1>1. participantes[f] \in [Pids -> Nat] /\ participantes[f][p] \in {0, 1}
  BY DEF ATypeOK, Listados
<1>2. \A q \in Pids : Quedan(p, f)[q] = IF q = p THEN 0 ELSE participantes[f][q]
  BY <1>1 DEF Quedan
<1>3. Quedan(p, f) \in [Pids -> Nat]
  BY <1>1 DEF Quedan
<1>4. Quedan(p, f) = Nadie <=> \A q \in Pids : Quedan(p, f)[q] = 0
  BY <1>3 DEF Nadie
<1>5. QED
  BY <1>2, <1>4

(* What a close that serves the queue does to the tables of the file.      *)
LEMMA ConcederEfecto ==
  ASSUME ATypeOK, NEW p \in Pids, NEW f \in Archs, CerrarYConceder(p, f)
  PROVE  LET cola    == colaLocks[f]
             modo    == cola[1].tipo
             reciben == {cola[k].pid : k \in Tanda(cola)}
         IN /\ modo \in Modos /\ lockActivo'[f] = modo
            /\ cola[1].pid \in reciben
            /\ modo = "ESCRITURA" => \A q, r \in reciben : q = r
            /\ reciben \subseteq Pids
            /\ \A q \in Pids :
                 /\ participantes'[f][q] = IF q \in reciben THEN 1 ELSE 0
                 /\ q \in reciben => tap'[q][f] = modo
<1> DEFINE cola == colaLocks[f]
           modo == cola[1].tipo
           reciben == {cola[k].pid : k \in Tanda(cola)}
<1>1. /\ lockActivo' = [lockActivo EXCEPT ![f] = modo]
      /\ participantes' = [participantes EXCEPT ![f] = [q \in Pids |-> IF q \in reciben THEN 1 ELSE 0]]
      /\ tap' = [q \in Pids |-> IF q \in reciben THEN [tap[q] EXCEPT ![f] = modo]
                                ELSE IF q = p THEN [tap[q] EXCEPT ![f] = "CERRADO"]
                                ELSE tap[q]]
      /\ cola # <<>>
  BY DEF CerrarYConceder
<1>2. cola \in Seq(Espera)
  BY DEF ATypeOK, Espera
<1>3. PICK n \in 1..Len(cola) : Tanda(cola) = 1..n
  BY <1>1, <1>2, TandaPrefijo
<1>4. 1 \in Tanda(cola)
  BY <1>3
<1>5. Tanda(cola) \subseteq 1..Len(cola)
  BY <1>2, <1>3, LenProperties
<1>6. modo \in Modos
  BY <1>1, <1>2, PrimeraEspera
<1>7. reciben \subseteq Pids
  BY <1>5, EsperaDeProceso
<1>8. cola[1].pid \in reciben
  BY <1>4
<1>9. modo = "ESCRITURA" => \A q, r \in reciben : q = r
  BY DEF Tanda
<1> HIDE DEF cola, modo, reciben
<1>10. lockActivo'[f] = modo
  BY <1>1 DEF ATypeOK
<1>11. \A q \in Pids : participantes'[f][q] = IF q \in reciben THEN 1 ELSE 0
  BY <1>1 DEF ATypeOK
<1>12. \A q \in Pids : q \in reciben => tap'[q][f] = modo
  BY <1>1 DEF ATypeOK
<1>13. QED
  BY <1>6, <1>7, <1>8, <1>9, <1>10, <1>11, <1>12 DEF cola, modo, reciben

LEMMA CerrarListados ==
  ASSUME ATypeOK, Listados, NEW p \in Pids, NEW f \in Archs, Cerrar(p, f), UNCHANGED fin
  PROVE  Listados'
<1> SUFFICES ASSUME NEW g \in Archs, NEW q \in Pids
             PROVE  /\ participantes'[g][q] \in {0, 1}
                    /\ fin[q] = "vivo" => (participantes'[g][q] = 0 <=> tap'[q][g] = "CERRADO")
  BY DEF Listados
<1>1. CASE g # f
  <2>1. participantes'[g] = participantes[g] /\ tap'[q][g] = tap[q][g]
    BY <1>1, CerrarEfecto
  <2>2. QED
    BY <2>1 DEF Listados
<1>2. CASE g = f /\ (CerrarConOtros(p, f) \/ CerrarUltimo(p, f))
  <2>1. /\ participantes' = [participantes EXCEPT ![f] = Quedan(p, f)]
        /\ tap' = [tap EXCEPT ![p][f] = "CERRADO"]
    BY <1>2 DEF CerrarConOtros, CerrarUltimo
  <2>2. participantes'[f] = Quedan(p, f) /\ tap'[q][f] = IF q = p THEN "CERRADO" ELSE tap[q][f]
    BY <2>1 DEF ATypeOK
  <2>3. participantes'[f][q] = IF q = p THEN 0 ELSE participantes[f][q]
    BY <2>2, QuedanListados
  <2>4. QED
    BY <1>2, <2>2, <2>3 DEF Listados
<1>3. CASE g = f /\ CerrarYConceder(p, f)
  <2> DEFINE modo == colaLocks[f][1].tipo
             reciben == {colaLocks[f][k].pid : k \in Tanda(colaLocks[f])}
  <2>1. /\ participantes'[f][q] = IF q \in reciben THEN 1 ELSE 0
        /\ modo \in Modos /\ (q \in reciben => tap'[q][f] = modo)
    BY <1>3, ConcederEfecto
  <2>2. q \notin reciben => tap'[q][f] = IF q = p THEN "CERRADO" ELSE tap[q][f]
    <3>1. tap' = [r \in Pids |-> IF r \in reciben THEN [tap[r] EXCEPT ![f] = modo]
                                 ELSE IF r = p THEN [tap[r] EXCEPT ![f] = "CERRADO"]
                                 ELSE tap[r]]
      BY <1>3 DEF CerrarYConceder
    <3> HIDE DEF modo, reciben
    <3>2. QED
      BY <3>1 DEF ATypeOK
  <2>3. q # p => participantes[f][q] = 0
    BY <1>3, QuedanListados DEF CerrarYConceder
  <2> HIDE DEF modo, reciben
  <2>4. CASE q \in reciben
    BY <1>3, <2>1, <2>4 DEF Modos
  <2>5. CASE q \notin reciben
    BY <1>3, <2>1, <2>2, <2>3, <2>5 DEF Listados
  <2>6. QED
    BY <2>4, <2>5
<1>4. QED
  BY <1>1, <1>2, <1>3 DEF Cerrar

LEMMA CerrarActivos ==
  ASSUME ATypeOK, Listados, Activos, NEW p \in Pids, NEW f \in Archs, Cerrar(p, f)
  PROVE  Activos'
<1> SUFFICES ASSUME NEW g \in Archs
             PROVE  /\ lockActivo'[g] = "NOASIGNADO" <=> \A q \in Pids : participantes'[g][q] = 0
                    /\ lockActivo'[g] = "ESCRITURA" =>
                         \A q, r \in Pids : participantes'[g][q] = 1 /\ participantes'[g][r] = 1 => q = r
  BY DEF Activos
<1>1. CASE g # f
  <2>1. lockActivo'[g] = lockActivo[g] /\ participantes'[g] = participantes[g]
    BY <1>1, CerrarEfecto
  <2>2. QED
    BY <2>1 DEF Activos
<1>2. CASE g = f /\ CerrarConOtros(p, f)
  <2>1. participantes'[f] = Quedan(p, f) /\ UNCHANGED lockActivo /\ Quedan(p, f) # Nadie
    BY <1>2 DEF CerrarConOtros, ATypeOK
  <2>2. PICK q \in Pids \ {p} : participantes[f][q] # 0
    BY <2>1, QuedanListados
  <2>3. \A r \in Pids : participantes'[f][r] = IF r = p THEN 0 ELSE participantes[f][r]
    BY <2>1, QuedanListados
  <2>4. lockActivo'[f] # "NOASIGNADO" /\ participantes'[f][q] # 0
    BY <2>1, <2>2, <2>3 DEF Activos
  <2>5. lockActivo[f] = "ESCRITURA" =>
          \A r, t \in Pids : participantes[f][r] = 1 /\ participantes[f][t] = 1 => r = t
    BY DEF Activos
  <2>6. lockActivo'[f] = "ESCRITURA" =>
          \A r, t \in Pids : participantes'[f][r] = 1 /\ participantes'[f][t] = 1 => r = t
    BY <2>1, <2>3, <2>5
  <2>7. QED
    BY <1>2, <2>2, <2>4, <2>6
<1>3. CASE g = f /\ CerrarUltimo(p, f)
  <2>1. lockActivo'[f] = "NOASIGNADO" /\ participantes'[f] = Nadie
    BY <1>3 DEF CerrarUltimo, ATypeOK
  <2>2. QED
    BY <1>3, <2>1 DEF Nadie
<1>4. CASE g = f /\ CerrarYConceder(p, f)
  <2> DEFINE cola == colaLocks[f]
             modo == cola[1].tipo
             reciben == {cola[k].pid : k \in Tanda(cola)}
  <2>1. modo \in Modos /\ lockActivo'[f] = modo /\ cola[1].pid \in reciben /\ reciben \subseteq Pids
    BY <1>4, ConcederEfecto
  <2>2. modo = "ESCRITURA" => \A q, r \in reciben : q = r
    BY <1>4, ConcederEfecto
  <2>3. \A q \in Pids : participantes'[f][q] = IF q \in reciben THEN 1 ELSE 0
    BY <1>4, ConcederEfecto
  <2> HIDE DEF cola, modo, reciben
  <2>4. lockActivo'[f] # "NOASIGNADO" /\ participantes'[f][cola[1].pid] = 1 /\ cola[1].pid \in Pids
    BY <2>1, <2>3 DEF Modos
  <2>5. lockActivo'[f] = "ESCRITURA" =>
          \A q, r \in Pids : participantes'[f][q] = 1 /\ participantes'[f][r] = 1 => q = r
    BY <2>1, <2>2, <2>3
  <2>6. QED
    BY <1>4, <2>4, <2>5
<1>5. QED
  BY <1>1, <1>2, <1>3, <1>4 DEF Cerrar

(* f_open by one that is alive and does not have the file.                 *)
LEMMA AbrirYaEfecto ==
  ASSUME LInv, NEW p \in Pids, NEW f \in Archs, NEW modo \in Modos,
         f_open(p, f, modo), AbrirYa(p, f, modo)
  PROVE  /\ participantes[f][p] = 0
         /\ \A q \in Pids : participantes[f][q] = 1 =>
              modo = "LECTURA" /\ lockActivo[f] = "LECTURA"
         /\ \A g \in Archs : lockActivo'[g] = IF g = f THEN modo ELSE lockActivo[g]
         /\ \A g \in Archs, q \in Pids :
              /\ participantes'[g][q] = IF q = p /\ g = f THEN 1 ELSE participantes[g][q]
              /\ tap'[q][g] = IF q = p /\ g = f THEN modo ELSE tap[q][g]
<1>1. /\ fin[p] = "vivo" /\ tap[p][f] = "CERRADO" /\ Compatible(f, modo)
      /\ lockActivo' = [lockActivo EXCEPT ![f] = modo]
      /\ participantes' = [participantes EXCEPT ![f][p] = @ + 1]
      /\ tap' = [tap EXCEPT ![p][f] = modo]
  BY DEF f_open, AbrirYa
<1>2. participantes[f][p] = 0
  BY <1>1 DEF LInv, Listados
<1>3. \A q \in Pids : participantes[f][q] = 1 => lockActivo[f] # "NOASIGNADO"
  <2>1. lockActivo[f] = "NOASIGNADO" => \A q \in Pids : participantes[f][q] = 0
    BY DEF LInv, Activos
  <2>2. QED
    BY <2>1
<1>4. \A q \in Pids : participantes[f][q] = 1 => modo = "LECTURA" /\ lockActivo[f] = "LECTURA"
  BY <1>1, <1>3 DEF Compatible
<1>5. \A g \in Archs : lockActivo'[g] = IF g = f THEN modo ELSE lockActivo[g]
  BY <1>1 DEF LInv, ATypeOK
<1>6. \A g \in Archs, q \in Pids :
        participantes'[g][q] = IF q = p /\ g = f THEN 1 ELSE participantes[g][q]
  BY <1>1, <1>2 DEF LInv, ATypeOK
<1>7. \A g \in Archs, q \in Pids : tap'[q][g] = IF q = p /\ g = f THEN modo ELSE tap[q][g]
  BY <1>1 DEF LInv, ATypeOK
<1>8. QED
  BY <1>2, <1>4, <1>5, <1>6, <1>7

LEMMA LInvInductivo ==
  ASSUME LInv, [ANext]_avars
  PROVE  LInv'
<1>0. ATypeOK /\ EsperaJustificada /\ Listados /\ Activos
  BY DEF LInv
<1>1. ATypeOK' /\ EsperaJustificada'
  BY <1>0, ATipoInductivo, JustificadaInductivo
<1>2. ASSUME NEW p \in Pids, NEW f \in Archs, NEW modo \in Modos, f_open(p, f, modo)
      PROVE  Listados' /\ Activos'
  <2>1. UNCHANGED fin
    BY <1>2 DEF f_open
  <2>2. CASE AbrirYa(p, f, modo)
    <3>1. /\ participantes[f][p] = 0
          /\ \A q \in Pids : participantes[f][q] = 1 =>
               modo = "LECTURA" /\ lockActivo[f] = "LECTURA"
          /\ \A g \in Archs : lockActivo'[g] = IF g = f THEN modo ELSE lockActivo[g]
          /\ \A g \in Archs, q \in Pids :
               /\ participantes'[g][q] = IF q = p /\ g = f THEN 1 ELSE participantes[g][q]
               /\ tap'[q][g] = IF q = p /\ g = f THEN modo ELSE tap[q][g]
      BY <1>2, <2>2, AbrirYaEfecto
    <3>2. modo \in {"LECTURA", "ESCRITURA"}
      BY DEF Modos
    <3>3. Listados'
      BY <1>0, <2>1, <3>1, <3>2 DEF Listados
    <3>4. \A q \in Pids : participantes[f][q] \in {0, 1}
      BY <1>0 DEF Listados
    <3>5. Activos'
      <4>1. ASSUME NEW g \in Archs, g # f
            PROVE  /\ lockActivo'[g] = lockActivo[g]
                   /\ \A q \in Pids : participantes'[g][q] = participantes[g][q]
        BY <3>1, <4>1
      <4>2. lockActivo'[f] # "NOASIGNADO" /\ participantes'[f][p] = 1
        BY <3>1, <3>2
      <4>3. lockActivo'[f] = "ESCRITURA" => \A q \in Pids : participantes'[f][q] = 1 => q = p
        BY <3>1, <3>2, <3>4
      <4>4. QED
        BY <1>0, <4>1, <4>2, <4>3 DEF Activos
    <3>6. QED
      BY <3>3, <3>5
  <2>3. CASE AbrirYEsperar(p, f, modo)
    BY <1>0, <2>1, <2>3 DEF AbrirYEsperar, Listados, Activos
  <2>4. QED
    BY <1>2, <2>2, <2>3 DEF f_open
<1>3. ASSUME NEW p \in Pids, NEW f \in Archs, Cerrar(p, f), UNCHANGED fin
      PROVE  Listados' /\ Activos'
  BY <1>0, <1>3, CerrarListados, CerrarActivos
<1>4. ASSUME NEW p \in Pids, Salir(p)
      PROVE  Listados' /\ Activos'
  <2>1. /\ UNCHANGED <<lockActivo, participantes, tap>>
        /\ fin' = [fin EXCEPT ![p] = IF Abiertos(p) = {} THEN "terminado" ELSE "saliendo"]
    BY <1>4 DEF Salir
  <2>2. \A q \in Pids : fin'[q] = "vivo" => fin[q] = "vivo"
    BY <1>0, <2>1 DEF ATypeOK
  <2>3. QED
    BY <1>0, <2>1, <2>2 DEF Listados, Activos
<1>5. ASSUME NEW p \in Pids, DestruirTabla(p)
      PROVE  Listados' /\ Activos'
  <2>1. /\ UNCHANGED <<lockActivo, participantes>>
        /\ tap' = [tap EXCEPT ![p] = [f \in Archs |-> "CERRADO"]]
        /\ fin' = [fin EXCEPT ![p] = "terminado"]
    BY <1>5 DEF DestruirTabla
  <2>2. \A q \in Pids : fin'[q] = "vivo" => fin[q] = "vivo" /\ tap'[q] = tap[q]
    BY <1>0, <2>1 DEF ATypeOK
  <2>3. QED
    BY <1>0, <2>1, <2>2 DEF Listados, Activos
<1>6. ASSUME UNCHANGED avars
      PROVE  Listados' /\ Activos'
  <2>1. UNCHANGED <<lockActivo, participantes, tap, fin>>
    BY <1>6 DEF avars
  <2>2. Listados'
    BY <1>0, <2>1 DEF Listados
  <2>3. Activos'
    BY <1>0, <2>1 DEF Activos
  <2>4. QED
    BY <2>2, <2>3
<1>7. Listados' /\ Activos'
  <2>1. ASSUME NEW p \in Pids, NEW f \in Archs, f_close(p, f) \/ CerrarUno(p, f)
        PROVE  Cerrar(p, f) /\ UNCHANGED fin
    BY <2>1 DEF f_close, CerrarUno
  <2>2. ASSUME NEW p \in Pids, NEW f \in Archs, f_close(p, f) \/ CerrarUno(p, f)
        PROVE  Listados' /\ Activos'
    BY <1>3, <2>1, <2>2
  <2>3. QED
    BY <1>2, <1>4, <1>5, <1>6, <2>2 DEF ANext
<1>8. QED
  BY <1>1, <1>7 DEF LInv

LEMMA LInvInicial == AInit => LInv
<1>1. AInit => Listados /\ Activos
  BY DEF AInit, Nadie, Listados, Activos
<1>2. QED
  BY <1>1, ATipoInicial, JustificadaInicial DEF LInv

-----------------------------------------------------------------------------
(* What lockActivo remembers of those that have the file is all that       *)
(* matters to let another in.                                              *)
LEMMA AdmiteSegunActivo ==
  ASSUME NEW activo \in Modos \cup {"NOASIGNADO"}, NEW modo \in Modos,
         NEW listado \in [Pids -> {0, 1}],
         activo = "NOASIGNADO" <=> \A q \in Pids : listado[q] = 0
  PROVE  (activo = "NOASIGNADO" \/ (modo = "LECTURA" /\ activo = "LECTURA"))
         <=> \A q \in Pids : \/ (IF listado[q] > 0 THEN activo ELSE "CERRADO") = "CERRADO"
                             \/ /\ modo = "LECTURA"
                                /\ (IF listado[q] > 0 THEN activo ELSE "CERRADO") = "LECTURA"
<1>1. \A q \in Pids : (listado[q] > 0 <=> listado[q] = 1) /\ listado[q] \in {0, 1}
  OBVIOUS
<1>2. activo # "CERRADO"
  BY DEF Modos
<1>3. CASE activo = "NOASIGNADO"
  BY <1>1, <1>3
<1>4. CASE activo # "NOASIGNADO"
  <2>1. PICK q \in Pids : listado[q] = 1
    BY <1>1, <1>4
  <2>2. QED
    BY <1>1, <1>2, <1>4, <2>1
<1>5. QED
  BY <1>3, <1>4

LEMMA CompatibleAdmite ==
  ASSUME LInv, NEW f \in Archs, NEW modo \in Modos
  PROVE  Compatible(f, modo) <=> LE!Admite(f, modo)
<1>1. lockActivo[f] \in Modos \cup {"NOASIGNADO"} /\ participantes[f] \in [Pids -> Nat]
  BY DEF LInv, ATypeOK
<1>2. participantes[f] \in [Pids -> {0, 1}]
  BY <1>1 DEF LInv, Listados
<1>3. lockActivo[f] = "NOASIGNADO" <=> \A q \in Pids : participantes[f][q] = 0
  BY DEF LInv, Activos
<1>4. \A q \in Pids : Tienen[q][f] = IF participantes[f][q] > 0 THEN lockActivo[f] ELSE "CERRADO"
  BY DEF Tienen
<1>5. Compatible(f, modo)
      <=> \A q \in Pids : \/ (IF participantes[f][q] > 0 THEN lockActivo[f] ELSE "CERRADO") = "CERRADO"
                          \/ /\ modo = "LECTURA"
                             /\ (IF participantes[f][q] > 0 THEN lockActivo[f] ELSE "CERRADO") = "LECTURA"
  BY <1>1, <1>2, <1>3, AdmiteSegunActivo DEF Compatible
<1>6. QED
  BY <1>4, <1>5 DEF LE!Admite

(* Of the next state, what LectoresEscritores asks of a release.           *)
LEMMA LockTrasCerrar ==
  ASSUME LInv', NEW f \in Archs
  PROVE  LE!Conviven(f)' /\ LE!EsperaNecesaria(f)'
<1> DEFINE cola == colaLocks'[f]
           listado == participantes'[f]
           activo == lockActivo'[f]
<1>1. activo \in Modos \cup {"NOASIGNADO"} /\ listado \in [Pids -> Nat]
  BY DEF LInv, ATypeOK
<1>2. listado \in [Pids -> {0, 1}]
  BY <1>1 DEF LInv, Listados
<1>3. activo = "NOASIGNADO" <=> \A q \in Pids : listado[q] = 0
  BY DEF LInv, Activos
<1>4. activo = "ESCRITURA" => \A q, r \in Pids : listado[q] = 1 /\ listado[r] = 1 => q = r
  BY DEF LInv, Activos
<1>5. \A q \in Pids : Tienen'[q][f] = IF listado[q] > 0 THEN activo ELSE "CERRADO"
  BY DEF Tienen
<1>6. cola # <<>> => cola[1].tipo \in Modos
  BY PrimeraEspera DEF LInv, ATypeOK, Espera
<1>7. cola # <<>> => ~(activo = "NOASIGNADO" \/ (cola[1].tipo = "LECTURA" /\ activo = "LECTURA"))
  BY DEF LInv, EsperaJustificada, Compatible
<1>8. LE!Conviven(f)' <=>
        \A q, r \in Pids : q # r /\ Tienen'[q][f] = "ESCRITURA" => Tienen'[r][f] = "CERRADO"
  BY DEF LE!Conviven
<1>9. LE!EsperaNecesaria(f)' <=>
        (cola # <<>> =>
          ~\A q \in Pids : \/ Tienen'[q][f] = "CERRADO"
                           \/ cola[1].tipo = "LECTURA" /\ Tienen'[q][f] = "LECTURA")
  BY DEF LE!EsperaNecesaria, LE!Admite
<1> HIDE DEF cola, listado, activo
<1>10. LE!Conviven(f)'
  <2>1. \A q \in Pids : listado[q] > 0 => listado[q] = 1
    BY <1>2
  <2>2. QED
    BY <1>4, <1>5, <1>8, <2>1
<1>11. LE!EsperaNecesaria(f)'
  <2>1. cola # <<>> =>
          ~\A q \in Pids : \/ (IF listado[q] > 0 THEN activo ELSE "CERRADO") = "CERRADO"
                           \/ /\ cola[1].tipo = "LECTURA"
                              /\ (IF listado[q] > 0 THEN activo ELSE "CERRADO") = "LECTURA"
    BY <1>1, <1>2, <1>3, <1>6, <1>7, AdmiteSegunActivo
  <2>2. QED
    BY <1>5, <1>9, <2>1
<1>12. QED
  BY <1>10, <1>11

(* Tienen is told by its points.                                           *)
LEMMA TienenIgual ==
  ASSUME \A q \in Pids, g \in Archs : Tienen'[q][g] = Tienen[q][g]
  PROVE  Tienen' = Tienen
<1> DEFINE antes(q, g) == IF participantes[g][q] > 0 THEN lockActivo[g] ELSE "CERRADO"
           luego(q, g) == IF participantes'[g][q] > 0 THEN lockActivo'[g] ELSE "CERRADO"
<1>1. /\ Tienen = [q \in Pids |-> [g \in Archs |-> antes(q, g)]]
      /\ Tienen' = [q \in Pids |-> [g \in Archs |-> luego(q, g)]]
  BY DEF Tienen
<1> HIDE DEF antes, luego
<1>2. \A q \in Pids, g \in Archs : luego(q, g) = antes(q, g)
  BY <1>1
<1>3. QED
  BY <1>1, <1>2

LEMMA TienenCambia ==
  ASSUME NEW p \in Pids, NEW f \in Archs, NEW modo,
         \A q \in Pids, g \in Archs : Tienen'[q][g] = IF q = p /\ g = f THEN modo ELSE Tienen[q][g]
  PROVE  Tienen' = [Tienen EXCEPT ![p][f] = modo]
<1> DEFINE antes(q, g) == IF participantes[g][q] > 0 THEN lockActivo[g] ELSE "CERRADO"
           luego(q, g) == IF participantes'[g][q] > 0 THEN lockActivo'[g] ELSE "CERRADO"
<1>1. /\ Tienen = [q \in Pids |-> [g \in Archs |-> antes(q, g)]]
      /\ Tienen' = [q \in Pids |-> [g \in Archs |-> luego(q, g)]]
  BY DEF Tienen
<1> HIDE DEF antes, luego
<1>2. \A q \in Pids, g \in Archs : luego(q, g) = IF q = p /\ g = f THEN modo ELSE antes(q, g)
  BY <1>1
<1>3. \A q \in Pids : [Tienen EXCEPT ![p][f] = modo][q]
                        = [g \in Archs |-> IF q = p /\ g = f THEN modo ELSE antes(q, g)]
  BY <1>1
<1>4. \A q \in Pids : [g \in Archs |-> luego(q, g)]
                        = [g \in Archs |-> IF q = p /\ g = f THEN modo ELSE antes(q, g)]
  BY <1>2
<1>5. QED
  BY <1>1, <1>3, <1>4

(* A close that hands nothing over is a release with nobody served, or, of *)
(* a file the process does not have, no step at all.                       *)
LEMMA CerrarSinConceder ==
  ASSUME LInv, LInv', NEW p \in Pids, NEW f \in Archs,
         CerrarConOtros(p, f) \/ CerrarUltimo(p, f)
  PROVE  LE!LNext \/ UNCHANGED LE!lvars
<1>1. /\ ATypeOK /\ Listados /\ Activos /\ UNCHANGED colaLocks
      /\ participantes' = [participantes EXCEPT ![f] = Quedan(p, f)]
  BY DEF LInv, CerrarConOtros, CerrarUltimo
<1>2. \A q \in Pids : participantes'[f][q] = IF q = p THEN 0 ELSE participantes[f][q]
  <2>1. participantes'[f] = Quedan(p, f)
    BY <1>1 DEF ATypeOK
  <2>2. QED
    BY <1>1, <2>1, QuedanListados
<1>3. \A g \in Archs \ {f} : participantes'[g] = participantes[g] /\ lockActivo'[g] = lockActivo[g]
  BY <1>1, CerrarEfecto DEF Cerrar
<1>4. \/ lockActivo'[f] = lockActivo[f]
      \/ \A q \in Pids \ {p} : participantes[f][q] = 0
  BY <1>1, QuedanListados DEF CerrarConOtros, CerrarUltimo
<1>5. \A q \in Pids, g \in Archs : Tienen'[q][g] = IF q = p /\ g = f THEN "CERRADO" ELSE Tienen[q][g]
  <2> SUFFICES ASSUME NEW q \in Pids, NEW g \in Archs
               PROVE  Tienen'[q][g] = IF q = p /\ g = f THEN "CERRADO" ELSE Tienen[q][g]
    OBVIOUS
  <2>1. /\ Tienen[q][g] = IF participantes[g][q] > 0 THEN lockActivo[g] ELSE "CERRADO"
        /\ Tienen'[q][g] = IF participantes'[g][q] > 0 THEN lockActivo'[g] ELSE "CERRADO"
    BY DEF Tienen
  <2>2. CASE g # f
    BY <1>3, <2>1, <2>2
  <2>3. CASE g = f /\ q = p
    BY <1>2, <2>1, <2>3
  <2>4. CASE g = f /\ q # p
    BY <1>2, <1>4, <2>1, <2>4
  <2>5. QED
    BY <2>2, <2>3, <2>4
<1>6. CASE Tienen[p][f] = "CERRADO"
  <2>1. Tienen' = Tienen
    <3>1. \A q \in Pids, g \in Archs : Tienen'[q][g] = Tienen[q][g]
      BY <1>5, <1>6
    <3>2. QED
      BY <3>1, TienenIgual
  <2>2. QED
    BY <1>1, <2>1 DEF LE!lvars
<1>7. CASE Tienen[p][f] # "CERRADO"
  <2>1. colaLocks[f] \in Seq(Espera) /\ Len(colaLocks[f]) \in Nat
    BY <1>1, LenProperties DEF ATypeOK, Espera
  <2>2. SubSeq(colaLocks[f], 0 + 1, Len(colaLocks[f])) = colaLocks[f]
    BY <2>1
  <2>3. colaLocks' = [colaLocks EXCEPT ![f] = SubSeq(@, 0 + 1, Len(@))]
    BY <1>1, <2>2 DEF ATypeOK
  <2>4. LE!Conviven(f)' /\ LE!EsperaNecesaria(f)'
    BY LockTrasCerrar
  <2>5. LE!Soltar(p, f, 0)
    BY <1>5, <1>7, <2>3, <2>4 DEF LE!Soltar
  <2>6. 0 \in 0..Len(colaLocks[f])
    BY <2>1
  <2>7. QED
    BY <2>5, <2>6 DEF LE!LNext
<1>8. QED
  BY <1>6, <1>7

(* A close that serves the queue is a release by one that has the file: if *)
(* nobody had it, the first of the queue would not be waiting.             *)
LEMMA CerrarConcede ==
  ASSUME LInv, LInv', NEW p \in Pids, NEW f \in Archs, CerrarYConceder(p, f)
  PROVE  LE!LNext
<1> DEFINE cola == colaLocks[f]
           modo == cola[1].tipo
           reciben == {cola[k].pid : k \in Tanda(cola)}
<1>1. /\ Quedan(p, f) = Nadie /\ cola # <<>>
      /\ colaLocks' = [colaLocks EXCEPT ![f] = Restan(cola)]
  BY DEF CerrarYConceder
<1>2. ATypeOK /\ Listados /\ Activos /\ cola \in Seq(Espera)
  BY DEF LInv, ATypeOK, Espera
<1>3. \A q \in Pids \ {p} : participantes[f][q] = 0
  BY <1>1, <1>2, QuedanListados
<1>4. participantes[f][p] = 1
  <2>1. lockActivo[f] # "NOASIGNADO"
    BY <1>1 DEF LInv, EsperaJustificada, Compatible
  <2>2. ~\A q \in Pids : participantes[f][q] = 0
    BY <1>2, <2>1 DEF Activos
  <2>3. participantes[f][p] \in {0, 1}
    BY <1>2 DEF Listados
  <2>4. QED
    BY <1>3, <2>2, <2>3
<1>5. PICK n \in 1..Len(cola) :
        /\ Tanda(cola) = 1..n
        /\ Restan(cola) = SubSeq(cola, n + 1, Len(cola))
        /\ \A i \in 1..n : cola[i].tipo = modo
  BY <1>1, <1>2, TandaPrefijo
<1>6. \A i \in 1..n : i \in 1..Len(cola) /\ cola[i].pid \in Pids /\ cola[i].pid \in reciben
  BY <1>2, <1>5, LenProperties, EsperaDeProceso
<1>7. \A q \in Pids : (\A i \in 1..n : cola[i].pid # q) => q \notin reciben
  BY <1>5
<1>8. colaLocks' = [colaLocks EXCEPT ![f] = SubSeq(@, n + 1, Len(@))]
  BY <1>1, <1>5
<1>9. n \in 0..Len(cola)
  BY <1>5
<1>10. /\ lockActivo'[f] = modo
       /\ \A q \in Pids : participantes'[f][q] = IF q \in reciben THEN 1 ELSE 0
  BY <1>2, ConcederEfecto
<1> HIDE DEF reciben, modo
<1>11. \A q \in Pids, g \in Archs \ {f} : Tienen'[q][g] = Tienen[q][g]
  <2>1. \A g \in Archs \ {f} : participantes'[g] = participantes[g] /\ lockActivo'[g] = lockActivo[g]
    BY <1>2, CerrarEfecto DEF Cerrar
  <2>2. QED
    BY <2>1 DEF Tienen
<1>12. \A q \in Pids : Tienen'[q][f] = IF q \in reciben THEN modo ELSE "CERRADO"
  BY <1>10 DEF Tienen
<1>13. Tienen[p][f] # "CERRADO" /\ \A q \in Pids \ {p} : Tienen[q][f] = "CERRADO"
  <2>1. lockActivo[f] # "CERRADO"
    BY <1>2 DEF ATypeOK, Modos
  <2>2. \A q \in Pids : Tienen[q][f] = IF participantes[f][q] > 0 THEN lockActivo[f] ELSE "CERRADO"
    BY DEF Tienen
  <2>3. QED
    BY <1>3, <1>4, <2>1, <2>2
<1>14. \A i \in 1..n : Tienen'[cola[i].pid][f] = cola[i].tipo
  BY <1>5, <1>6, <1>12
<1>15. \A q \in Pids : (\A i \in 1..n : cola[i].pid # q) =>
         Tienen'[q][f] = IF q = p THEN "CERRADO" ELSE Tienen[q][f]
  BY <1>7, <1>12, <1>13
<1>16. LE!Conviven(f)' /\ LE!EsperaNecesaria(f)'
  BY LockTrasCerrar
<1>17. LE!Soltar(p, f, n)
  BY <1>8, <1>11, <1>13, <1>14, <1>15, <1>16 DEF LE!Soltar
<1>18. QED
  BY <1>9, <1>17 DEF LE!LNext

LEMMA AbrirEnCola ==
  ASSUME LInv, NEW p \in Pids, NEW f \in Archs, NEW modo \in Modos, f_open(p, f, modo)
  PROVE  LE!LNext
<1>1. LE!Activo(p)
  BY DEF f_open, LE!Activo, EsperaLock, EsperaEn
<1>2. Tienen[p][f] = "CERRADO"
  <2>1. participantes[f][p] = 0
    BY DEF f_open, LInv, Listados
  <2>2. QED
    BY <2>1 DEF Tienen
<1>3. CASE AbrirYa(p, f, modo)
  <2>1. \A q \in Pids, g \in Archs : Tienen'[q][g] = IF q = p /\ g = f THEN modo ELSE Tienen[q][g]
    <3>1. /\ \A q \in Pids : participantes[f][q] = 1 =>
               modo = "LECTURA" /\ lockActivo[f] = "LECTURA"
          /\ \A g \in Archs : lockActivo'[g] = IF g = f THEN modo ELSE lockActivo[g]
          /\ \A g \in Archs, q \in Pids :
               participantes'[g][q] = IF q = p /\ g = f THEN 1 ELSE participantes[g][q]
      BY <1>3, AbrirYaEfecto
    <3>2. \A g \in Archs, q \in Pids : participantes[g][q] \in {0, 1}
      BY DEF LInv, Listados
    <3>3. \A g \in Archs, q \in Pids :
            /\ Tienen[q][g] = IF participantes[g][q] > 0 THEN lockActivo[g] ELSE "CERRADO"
            /\ Tienen'[q][g] = IF participantes'[g][q] > 0 THEN lockActivo'[g] ELSE "CERRADO"
      BY DEF Tienen
    <3>4. QED
      BY <3>1, <3>2, <3>3
  <2>2. Tienen' = [Tienen EXCEPT ![p][f] = modo]
    BY <2>1, TienenCambia
  <2>3. LE!Admite(f, modo)
    BY <1>3, CompatibleAdmite DEF AbrirYa
  <2>4. LE!Tomar(p, f, modo)
    BY <1>1, <1>2, <1>3, <2>2, <2>3 DEF AbrirYa, LE!Tomar
  <2>5. QED
    BY <2>4 DEF LE!LNext, Modos
<1>4. CASE AbrirYEsperar(p, f, modo)
  <2>1. Tienen' = Tienen
    BY <1>4 DEF AbrirYEsperar, Tienen
  <2>2. ~LE!Admite(f, modo)
    BY <1>4, CompatibleAdmite DEF AbrirYEsperar
  <2>3. LE!PonerseEnCola(p, f, modo)
    BY <1>1, <1>2, <1>4, <2>1, <2>2 DEF AbrirYEsperar, LE!PonerseEnCola
  <2>4. QED
    BY <2>3 DEF LE!LNext, Modos
<1>5. QED
  BY <1>3, <1>4 DEF f_open

LEMMA PasoDeLocks ==
  ASSUME LInv, LInv', [ANext]_avars
  PROVE  LE!LNext \/ UNCHANGED LE!lvars
<1>1. ASSUME NEW p \in Pids, NEW f \in Archs, NEW modo \in Modos, f_open(p, f, modo)
      PROVE  LE!LNext
  BY <1>1, AbrirEnCola
<1>2. ASSUME NEW p \in Pids, NEW f \in Archs, Cerrar(p, f)
      PROVE  LE!LNext \/ UNCHANGED LE!lvars
  BY <1>2, CerrarSinConceder, CerrarConcede DEF Cerrar
<1>3. ASSUME UNCHANGED <<lockActivo, participantes, colaLocks>>
      PROVE  UNCHANGED LE!lvars
  BY <1>3 DEF Tienen, LE!lvars
<1>4. ASSUME NEW p \in Pids, Salir(p) \/ DestruirTabla(p) PROVE UNCHANGED LE!lvars
  BY <1>3, <1>4 DEF Salir, DestruirTabla
<1>5. UNCHANGED avars => UNCHANGED LE!lvars
  BY <1>3 DEF avars
<1>6. QED
  BY <1>1, <1>2, <1>4, <1>5 DEF ANext, f_close, CerrarUno

(* Whoever is killed and whenever, the global table implements             *)
(* LectoresEscritores: a writer is alone, no request is lost, and each     *)
(* release serves the front of the queue as far as it goes.  Readers that  *)
(* come while readers have the file join them past a writer that waits.    *)
THEOREM ALocksImplementan == ASpec => ImplementaLocks
<1>1. AInit => LE!LInit
  BY DEF AInit, Nadie, Tienen, LE!LInit
<1>2. AInit => LInv
  BY LInvInicial
<1>3. LInv /\ [ANext]_avars => LInv'
  BY LInvInductivo
<1>4. LInv /\ LInv' /\ [ANext]_avars => [LE!LNext]_(LE!lvars)
  BY PasoDeLocks
<1>5. QED
  BY <1>1, <1>2, <1>3, <1>4, PTL DEF ASpec, ImplementaLocks, LE!LSpec
=============================================================================
