--------------------------- MODULE RecursosProofs ---------------------------
(***************************************************************************)
(* Proofs about Recursos: the type invariant, the conservation of          *)
(* instances, the discipline of the queues, and the order of the hand-over.*)
(***************************************************************************)
EXTENDS Recursos, SequenceTheorems, FiniteSetTheorems, TLAPS

(* What removing an element does to a queue: nothing, or it closes the gap *)
(* at one position k and keeps the order of the rest.                      *)
LEMMA QuitarPropiedades ==
  ASSUME NEW S, NEW s \in Seq(S), NEW e
  PROVE  /\ Quitar(e, s) \in Seq(S)
         /\ \/ Quitar(e, s) = s /\ \A i \in 1..Len(s) : ~EsPrimera(i, e, s)
            \/ \E k \in 1..Len(s) :
                 /\ EsPrimera(k, e, s)
                 /\ Len(Quitar(e, s)) = Len(s) - 1
                 /\ \A i \in 1..Len(Quitar(e, s)) :
                      Quitar(e, s)[i] = s[IF i < k THEN i ELSE i + 1]
<1>1. CASE ~\E i \in 1..Len(s) : EsPrimera(i, e, s)
  BY <1>1 DEF Quitar
<1>2. CASE \E i \in 1..Len(s) : EsPrimera(i, e, s)
  <2> DEFINE k == CHOOSE i \in 1..Len(s) : EsPrimera(i, e, s)
             t == SubSeq(s, 1, k - 1)
             u == SubSeq(s, k + 1, Len(s))
  <2>1. k \in 1..Len(s) /\ EsPrimera(k, e, s)
    BY <1>2
  <2>2. Quitar(e, s) = t \o u
    BY <1>2 DEF Quitar, RemoveAt
  <2> HIDE DEF k
  <2>3. t \in Seq(S) /\ Len(t) = k - 1 /\ \A i \in 1..(k - 1) : t[i] = s[i]
    BY <2>1, SubSeqProperties
  <2>4. u \in Seq(S) /\ Len(u) = Len(s) - k /\ \A i \in 1..(Len(s) - k) : u[i] = s[i + k]
    BY <2>1, SubSeqProperties
  <2> HIDE DEF t, u
  <2>5. /\ t \o u \in Seq(S)
        /\ Len(t \o u) = Len(s) - 1
        /\ \A i \in 1..(Len(s) - 1) : (t \o u)[i] = IF i <= k - 1 THEN t[i] ELSE u[i - (k - 1)]
    <3>1. Len(s) \in Nat /\ k \in 1..Len(s)
      BY <2>1, LenProperties
    <3>2. (k - 1) + (Len(s) - k) = Len(s) - 1
      BY <3>1
    <3>3. t \o u \in Seq(S) /\ Len(t \o u) = Len(t) + Len(u)
      BY <2>3, <2>4, ConcatProperties
    <3>4. \A i \in 1..(Len(t) + Len(u)) : (t \o u)[i] = IF i <= Len(t) THEN t[i] ELSE u[i - Len(t)]
      BY <2>3, <2>4, ConcatProperties
    <3>5. Len(t) = k - 1 /\ Len(t) + Len(u) = Len(s) - 1
      BY <2>3, <2>4, <3>2
    <3>6. QED
      BY <3>3, <3>4, <3>5
  <2>6. \A i \in 1..(Len(s) - 1) : (t \o u)[i] = s[IF i < k THEN i ELSE i + 1]
    <3> TAKE i \in 1..(Len(s) - 1)
    <3>1. CASE i < k
      BY <3>1, <2>1, <2>3, <2>5
    <3>2. CASE ~(i < k)
      <4>1. i - (k - 1) \in 1..(Len(s) - k) /\ (i - (k - 1)) + k = i + 1
        BY <3>2, <2>1
      <4>2. QED
        BY <3>2, <4>1, <2>1, <2>4, <2>5
    <3>3. QED
      BY <3>1, <3>2
  <2>7. QED
    BY <2>1, <2>2, <2>5, <2>6
<1>3. QED
  BY <1>1, <1>2

(* What one count gains and the other loses.                               *)
LEMMA Compensa ==
  ASSUME NEW n \in Nat, NEW x \in Int
  PROVE  (n + 1) + x = n + (x + 1)
OBVIOUS

(* The removals liberar_recursos makes keep the queues typed.              *)
LEMMA ColasSinTipo ==
  ASSUME RTypeOK, NEW p \in Pids
  PROVE  ColasSin(p) \in [Recs -> Seq(Pids)]
BY QuitarPropiedades DEF ColasSin, RTypeOK

(* Giving an entry up, pointwise.                                          *)
LEMMA DejarValores ==
  ASSUME RTypeOK, NEW p \in Pids, NEW r \in Recs, tenencia[p][r] > 0
  PROVE  /\ Dejar(p, r) \in [Pids -> [Recs -> Nat]]
         /\ \A x \in Pids, y \in Recs :
              Dejar(p, r)[x][y] = IF x = p /\ y = r THEN tenencia[p][r] - 1 ELSE tenencia[x][y]
<1>1. tenencia[p][r] - 1 \in Nat
  BY DEF RTypeOK
<1>2. QED
  BY <1>1 DEF Dejar, RTypeOK

(* Passing an entry on, as one step after giving it up.                    *)
LEMMA PasarValores ==
  ASSUME RTypeOK, NEW p \in Pids, NEW q \in Pids, NEW r \in Recs, tenencia[p][r] > 0
  PROVE  /\ Pasar(p, q, r) \in [Pids -> [Recs -> Nat]]
         /\ \A x \in Pids, y \in Recs :
              Pasar(p, q, r)[x][y] = IF x = q /\ y = r THEN Dejar(p, r)[q][r] + 1
                                     ELSE Dejar(p, r)[x][y]
<1> DEFINE t == Dejar(p, r)
<1>1. t \in [Pids -> [Recs -> Nat]]
  BY DejarValores
<1>2. Pasar(p, q, r) = [t EXCEPT ![q][r] = @ + 1]
  BY DEF Pasar
<1> HIDE DEF t
<1>3. t[q][r] + 1 \in Nat
  BY <1>1
<1>4. /\ [t EXCEPT ![q][r] = @ + 1] \in [Pids -> [Recs -> Nat]]
      /\ \A x \in Pids, y \in Recs :
           [t EXCEPT ![q][r] = @ + 1][x][y] = IF x = q /\ y = r THEN t[q][r] + 1 ELSE t[x][y]
  BY <1>1, <1>3
<1>5. QED
  BY <1>2, <1>4 DEF t

-----------------------------------------------------------------------------
(* Type correctness of the three operations.                               *)
LEMMA SoltarTipo ==
  ASSUME RTypeOK, NEW p \in Pids, NEW r \in Recs, tenencia[p][r] > 0,
         NEW colas \in [Recs -> Seq(Pids)], Soltar(p, r, colas), caido' \in BOOLEAN
  PROVE  RTypeOK'
<1>1. CASE colas[r] = <<>>
  <2>1. Dejar(p, r) \in [Pids -> [Recs -> Nat]]
    BY DejarValores
  <2>2. instancias[r] + 1 \in Nat
    BY DEF RTypeOK
  <2>3. QED
    BY <1>1, <2>1, <2>2 DEF Soltar, RTypeOK
<1>2. CASE colas[r] # <<>>
  <2>1. Head(colas[r]) \in Pids /\ Tail(colas[r]) \in Seq(Pids)
    BY <1>2, HeadTailProperties
  <2>2. tenencia' = Pasar(p, Head(colas[r]), r)
    BY <1>2 DEF Soltar
  <2>3. tenencia' \in [Pids -> [Recs -> Nat]]
    BY <2>1, <2>2, PasarValores
  <2>4. QED
    BY <1>2, <2>1, <2>3 DEF Soltar, RTypeOK
<1>3. QED
  BY <1>1, <1>2

(* The discipline of RNext only removes steps.                             *)
LEMMA RNextEsPaso == [RNext]_rvars => [RPaso]_rvars
BY DEF RNext, RPaso, WaitRecurso, SignalRecurso

(* One step for each operation keeps the types.                            *)
LEMMA RTipoInductivo == RTypeOK /\ [RPaso]_rvars => RTypeOK'
<1> SUFFICES ASSUME RTypeOK, [RPaso]_rvars PROVE RTypeOK'
  OBVIOUS
<1>1. ASSUME NEW p \in Pids, NEW r \in Recs, TomarInstancia(p, r) PROVE RTypeOK'
  BY <1>1 DEF TomarInstancia, RTypeOK
<1>2. ASSUME NEW p \in Pids, NEW r \in Recs, EncolarEspera(p, r) PROVE RTypeOK'
  BY <1>2 DEF EncolarEspera, RTypeOK
<1>3. ASSUME NEW p \in Pids, NEW r \in Recs, DevolverInstancia(p, r) PROVE RTypeOK'
  <2>1. caido' \in BOOLEAN
    BY <1>3 DEF DevolverInstancia, RTypeOK
  <2>2. QED
    BY <1>3, <2>1, SoltarTipo DEF DevolverInstancia, RTypeOK
<1>4. ASSUME NEW p \in Pids, LiberarNada(p) PROVE RTypeOK'
  BY <1>4, ColasSinTipo DEF LiberarNada, RTypeOK
<1>5. ASSUME NEW p \in Pids, NEW r \in Recs, LiberarPrimero(p, r) PROVE RTypeOK'
  <2>1. caido' \in BOOLEAN
    BY <1>5 DEF LiberarPrimero, RTypeOK
  <2>2. QED
    BY <1>5, <2>1, ColasSinTipo, SoltarTipo DEF LiberarPrimero
<1>6. CASE Caer
  BY <1>6 DEF Caer, RTypeOK
<1>7. CASE UNCHANGED rvars
  BY <1>7 DEF rvars, RTypeOK
<1>8. QED
  BY <1>1, <1>2, <1>3, <1>4, <1>5, <1>6, <1>7 DEF RPaso, LiberarRecursos

LEMMA RTipoInicial == RInit => RTypeOK
<1>1. <<>> \in Seq(Pids) /\ SinRecursos \in [Recs -> Nat]
  BY EmptySeq DEF SinRecursos
<1>2. QED
  BY <1>1, RecursosAssumption DEF RInit, RTypeOK

(* Every behaviour of the resource layer is well typed, with no discipline *)
(* asked from those who call it.                                           *)
THEOREM RTipo == RSpecLibre => []RTypeOK
BY RTipoInicial, RTipoInductivo, PTL DEF RSpecLibre

-----------------------------------------------------------------------------
(* Conservation.  The held instances are counted by the cardinality of     *)
(* Unidades, which one operation changes by one element at most.           *)
Tabla == [Pids -> [Recs -> Nat]]

LEMMA UnidadesMiembro ==
  ASSUME NEW t \in Tabla, NEW r \in Recs
  PROVE  \A u : u \in Unidades(t, r) <=>
                 \E p \in Pids : \E k \in 1..t[p][r] : u = <<p, k>>
BY DEF Unidades

LEMMA UnidadesIguales ==
  ASSUME NEW t \in Tabla, NEW u \in Tabla, NEW r \in Recs, \A x \in Pids : u[x][r] = t[x][r]
  PROVE  Unidades(u, r) = Unidades(t, r)
BY DEF Unidades

LEMMA UnidadMas ==
  ASSUME NEW t \in Tabla, NEW u \in Tabla, NEW r \in Recs, NEW p \in Pids,
         IsFiniteSet(Unidades(t, r)),
         \A x \in Pids : u[x][r] = IF x = p THEN t[p][r] + 1 ELSE t[x][r]
  PROVE  /\ IsFiniteSet(Unidades(u, r))
         /\ Cardinality(Unidades(u, r)) = Cardinality(Unidades(t, r)) + 1
<1> DEFINE nueva == <<p, t[p][r] + 1>>
<1>1. t[p][r] \in Nat /\ \A x \in Pids : t[x][r] \in Nat /\ u[x][r] \in Nat
  BY DEF Tabla
<1>2. nueva \notin Unidades(t, r)
  BY <1>1, UnidadesMiembro
<1>3. Unidades(u, r) = Unidades(t, r) \cup {nueva}
  <2>1. ASSUME NEW e \in Unidades(u, r) PROVE e \in Unidades(t, r) \cup {nueva}
    <3>1. PICK x \in Pids : \E k \in 1..u[x][r] : e = <<x, k>>
      BY UnidadesMiembro
    <3> PICK k \in 1..u[x][r] : e = <<x, k>>
      BY <3>1
    <3>2. CASE x = p /\ k = t[p][r] + 1
      BY <3>1, <3>2
    <3>3. CASE ~(x = p /\ k = t[p][r] + 1)
      <4>1. k \in 1..t[x][r]
        BY <1>1, <3>1, <3>3
      <4>2. QED
        BY <3>1, <4>1, UnidadesMiembro
    <3>4. QED
      BY <3>2, <3>3
  <2>2. ASSUME NEW e \in Unidades(t, r) PROVE e \in Unidades(u, r)
    <3>1. PICK x \in Pids : \E k \in 1..t[x][r] : e = <<x, k>>
      BY UnidadesMiembro
    <3> PICK k \in 1..t[x][r] : e = <<x, k>>
      BY <3>1
    <3>2. k \in 1..u[x][r]
      BY <1>1, <3>1
    <3>3. QED
      BY <3>1, <3>2, UnidadesMiembro
  <2>3. nueva \in Unidades(u, r)
    <3>1. t[p][r] + 1 \in 1..u[p][r]
      BY <1>1
    <3>2. QED
      BY <3>1, UnidadesMiembro
  <2>4. QED
    BY <2>1, <2>2, <2>3
<1>4. QED
  BY <1>2, <1>3, FS_AddElement

LEMMA UnidadMenos ==
  ASSUME NEW t \in Tabla, NEW u \in Tabla, NEW r \in Recs, NEW p \in Pids,
         IsFiniteSet(Unidades(t, r)), t[p][r] > 0,
         \A x \in Pids : u[x][r] = IF x = p THEN t[p][r] - 1 ELSE t[x][r]
  PROVE  /\ IsFiniteSet(Unidades(u, r))
         /\ Cardinality(Unidades(u, r)) = Cardinality(Unidades(t, r)) - 1
<1>1. \A x \in Pids : t[x][r] = IF x = p THEN u[p][r] + 1 ELSE u[x][r]
  BY DEF Tabla
<1>2. Unidades(u, r) \subseteq Unidades(t, r)
  <2>1. ASSUME NEW e \in Unidades(u, r) PROVE e \in Unidades(t, r)
    <3>1. PICK x \in Pids : \E k \in 1..u[x][r] : e = <<x, k>>
      BY UnidadesMiembro
    <3> PICK k \in 1..u[x][r] : e = <<x, k>>
      BY <3>1
    <3>2. k \in 1..t[x][r]
      BY <1>1, <3>1 DEF Tabla
    <3>3. QED
      BY <3>1, <3>2, UnidadesMiembro
  <2>2. QED
    BY <2>1
<1>3. IsFiniteSet(Unidades(u, r))
  BY <1>2, FS_Subset
<1>4. Cardinality(Unidades(t, r)) = Cardinality(Unidades(u, r)) + 1
  BY <1>1, <1>3, UnidadMas
<1>5. Cardinality(Unidades(u, r)) \in Nat
  BY <1>3, FS_CardinalityType
<1>6. QED
  BY <1>3, <1>4, <1>5

Finitas == \A r \in Recs : IsFiniteSet(Unidades(tenencia, r))

(* Giving an instance up moves it to the free ones or to another holder.   *)
LEMMA SoltarConserva ==
  ASSUME RTypeOK, Finitas, Conservacion, NEW p \in Pids, NEW r \in Recs, tenencia[p][r] > 0,
         NEW colas \in [Recs -> Seq(Pids)], Soltar(p, r, colas)
  PROVE  Finitas' /\ Conservacion'
<1> DEFINE d == Dejar(p, r)
<1>1. d \in Tabla /\ \A x \in Pids, y \in Recs :
        d[x][y] = IF x = p /\ y = r THEN tenencia[p][r] - 1 ELSE tenencia[x][y]
  BY DejarValores DEF Tabla
<1>2. tenencia \in Tabla
  BY DEF RTypeOK, Tabla
<1> HIDE DEF d
<1>3. /\ IsFiniteSet(Unidades(d, r))
      /\ Cardinality(Unidades(d, r)) = Cardinality(Unidades(tenencia, r)) - 1
  <2>1. IsFiniteSet(Unidades(tenencia, r))
    BY DEF Finitas
  <2>2. QED
    BY <1>1, <1>2, <2>1, UnidadMenos
<1>4. CASE colas[r] = <<>>
  <2>1. tenencia' = d /\ instancias' = [instancias EXCEPT ![r] = @ + 1]
    BY <1>4 DEF Soltar, d
  <2> SUFFICES ASSUME NEW y \in Recs
               PROVE  /\ IsFiniteSet(Unidades(d, y))
                      /\ instancias'[y] + Cardinality(Unidades(d, y)) = InstanciasIniciales[y]
    BY <2>1 DEF Finitas, Conservacion
  <2>2. CASE y = r
    <3>1. /\ instancias[r] \in Nat /\ Cardinality(Unidades(tenencia, r)) \in Nat
          /\ instancias[r] + Cardinality(Unidades(tenencia, r)) = InstanciasIniciales[r]
      BY FS_CardinalityType DEF RTypeOK, Finitas, Conservacion
    <3>2. instancias'[r] = instancias[r] + 1
      BY <2>1 DEF RTypeOK
    <3> DEFINE c == Cardinality(Unidades(tenencia, r))
               e == Cardinality(Unidades(d, r))
    <3>3. c \in Nat /\ instancias[r] + c = InstanciasIniciales[r] /\ e = c - 1
      BY <1>3, <3>1
    <3> HIDE DEF c, e
    <3>4. instancias'[r] + e = InstanciasIniciales[r]
      <4>1. instancias[r] \in Nat
        BY <3>1
      <4>2. e + 1 = c
        BY <3>3
      <4>3. (instancias[r] + 1) + e = instancias[r] + (e + 1)
        <5>1. e \in Int
          BY <3>3
        <5>2. QED
          BY <4>1, <5>1, Compensa
      <4>4. QED
        BY <3>2, <3>3, <4>2, <4>3
    <3>5. instancias'[r] + Cardinality(Unidades(d, r)) = InstanciasIniciales[r]
      BY <3>4 DEF e
    <3>6. QED
      BY <2>2, <1>3, <3>5
  <2>3. CASE y # r
    <3>1. Unidades(d, y) = Unidades(tenencia, y)
      BY <2>3, <1>1, <1>2, UnidadesIguales
    <3>2. instancias'[y] = instancias[y]
      BY <2>1, <2>3 DEF RTypeOK
    <3>3. QED
      BY <3>1, <3>2 DEF Finitas, Conservacion
  <2>4. QED
    BY <2>2, <2>3
<1>5. CASE colas[r] # <<>>
  <2> DEFINE q == Head(colas[r])
             u == Pasar(p, q, r)
  <2>1. q \in Pids
    BY <1>5, HeadTailProperties
  <2>2. tenencia' = u /\ instancias' = instancias
    BY <1>5 DEF Soltar
  <2> HIDE DEF q
  <2>3. u \in Tabla /\ \A x \in Pids, y \in Recs :
          u[x][y] = IF x = q /\ y = r THEN d[q][r] + 1 ELSE d[x][y]
    BY <2>1, PasarValores DEF Tabla, d
  <2> HIDE DEF u
  <2>4. /\ IsFiniteSet(Unidades(u, r))
        /\ Cardinality(Unidades(u, r)) = Cardinality(Unidades(d, r)) + 1
    BY <1>1, <1>3, <2>1, <2>3, UnidadMas
  <2>5. Cardinality(Unidades(tenencia, r)) \in Nat
    BY FS_CardinalityType DEF Finitas
  <2> SUFFICES ASSUME NEW y \in Recs
               PROVE  /\ IsFiniteSet(Unidades(u, y))
                      /\ Cardinality(Unidades(u, y)) = Cardinality(Unidades(tenencia, y))
    BY <2>2 DEF Finitas, Conservacion
  <2>6. CASE y = r
    BY <2>6, <1>3, <2>4, <2>5
  <2>7. CASE y # r
    <3>1. Unidades(u, y) = Unidades(tenencia, y)
      BY <2>7, <1>1, <1>2, <2>3, UnidadesIguales
    <3>2. QED
      BY <3>1 DEF Finitas
  <2>8. QED
    BY <2>6, <2>7
<1>6. QED
  BY <1>4, <1>5

LEMMA ConservacionInductiva ==
  RTypeOK /\ Finitas /\ Conservacion /\ [RPaso]_rvars => Finitas' /\ Conservacion'
<1> SUFFICES ASSUME RTypeOK, Finitas, Conservacion, [RPaso]_rvars
             PROVE  Finitas' /\ Conservacion'
  OBVIOUS
<1>1. ASSUME NEW p \in Pids, NEW r \in Recs, TomarInstancia(p, r)
      PROVE  Finitas' /\ Conservacion'
  <2>1. tenencia \in Tabla /\ instancias[r] \in Nat /\ instancias[r] > 0
    BY <1>1 DEF TomarInstancia, RTypeOK, Tabla
  <2>2. tenencia[p][r] + 1 \in Nat
    BY <2>1 DEF Tabla
  <2>3. /\ tenencia' \in Tabla
        /\ \A x \in Pids, y \in Recs :
             tenencia'[x][y] = IF x = p /\ y = r THEN tenencia[p][r] + 1 ELSE tenencia[x][y]
    BY <1>1, <2>1, <2>2 DEF TomarInstancia, Tabla
  <2> SUFFICES ASSUME NEW y \in Recs
               PROVE  /\ IsFiniteSet(Unidades(tenencia', y))
                      /\ instancias'[y] + Cardinality(Unidades(tenencia', y)) = InstanciasIniciales[y]
    BY DEF Finitas, Conservacion
  <2>4. IsFiniteSet(Unidades(tenencia, y)) /\ Cardinality(Unidades(tenencia, y)) \in Nat
    BY FS_CardinalityType DEF Finitas
  <2>5. instancias[y] + Cardinality(Unidades(tenencia, y)) = InstanciasIniciales[y]
    BY DEF Conservacion
  <2>6. CASE y = r
    <3>1. /\ IsFiniteSet(Unidades(tenencia', r))
          /\ Cardinality(Unidades(tenencia', r)) = Cardinality(Unidades(tenencia, r)) + 1
      BY <2>1, <2>3, <2>4, <2>6, UnidadMas
    <3>2. instancias'[r] = instancias[r] - 1
      BY <1>1 DEF TomarInstancia, RTypeOK
    <3>3. QED
      BY <2>1, <2>4, <2>5, <2>6, <3>1, <3>2
  <2>7. CASE y # r
    <3>1. Unidades(tenencia', y) = Unidades(tenencia, y)
      BY <2>1, <2>3, <2>7, UnidadesIguales
    <3>2. instancias'[y] = instancias[y]
      BY <1>1, <2>7 DEF TomarInstancia, RTypeOK
    <3>3. QED
      BY <2>4, <2>5, <3>1, <3>2
  <2>8. QED
    BY <2>6, <2>7
<1>2. ASSUME NEW p \in Pids, NEW r \in Recs, DevolverInstancia(p, r)
      PROVE  Finitas' /\ Conservacion'
  BY <1>2, SoltarConserva DEF DevolverInstancia, RTypeOK
<1>3. ASSUME NEW p \in Pids, NEW r \in Recs, LiberarPrimero(p, r)
      PROVE  Finitas' /\ Conservacion'
  BY <1>3, ColasSinTipo, SoltarConserva DEF LiberarPrimero
<1>4. CASE UNCHANGED <<instancias, tenencia>>
  BY <1>4 DEF Finitas, Conservacion
<1>5. QED
  BY <1>1, <1>2, <1>3, <1>4
     DEF RPaso, LiberarRecursos, EncolarEspera, LiberarNada, Caer, rvars

LEMMA ConservacionInicial == RInit => Finitas /\ Conservacion
<1> SUFFICES ASSUME RInit, NEW r \in Recs
             PROVE  /\ IsFiniteSet(Unidades(tenencia, r))
                    /\ instancias[r] + Cardinality(Unidades(tenencia, r)) = InstanciasIniciales[r]
  BY DEF Finitas, Conservacion
<1>1. Unidades(tenencia, r) = {}
  BY DEF Unidades, RInit, SinRecursos
<1>2. instancias[r] \in Nat /\ instancias[r] = InstanciasIniciales[r]
  BY RecursosAssumption DEF RInit
<1>3. QED
  BY <1>1, <1>2, FS_EmptySet

(* For any number of processes, resources and instances: what is free and  *)
(* what is held of a resource always add up to its configured instances.   *)
THEOREM RConservacion == RSpecLibre => []Conservacion
<1>1. RInit => RTypeOK /\ Finitas /\ Conservacion
  BY RTipoInicial, ConservacionInicial
<1>2. RTypeOK /\ Finitas /\ Conservacion /\ [RPaso]_rvars
      => (RTypeOK /\ Finitas /\ Conservacion)'
  BY RTipoInductivo, ConservacionInductiva
<1>3. QED
  BY <1>1, <1>2, PTL DEF RSpecLibre

-----------------------------------------------------------------------------
(* The queues.  Unica says of any queues what EsperaUnica says of          *)
(* colaEspera.                                                             *)
Colas == [Recs -> Seq(Pids)]

Unica(colas) ==
  \A r, s \in Recs : \A i \in 1..Len(colas[r]), j \in 1..Len(colas[s]) :
    colas[r][i] = colas[s][j] => r = s /\ i = j

(* c is d with some elements left out of some queues.                      *)
Recorte(c, d) ==
  \A r \in Recs :
    /\ \A i \in 1..Len(c[r]) : \E k \in 1..Len(d[r]) : c[r][i] = d[r][k]
    /\ Unica(d) => \A i, j \in 1..Len(c[r]) : c[r][i] = c[r][j] => i = j

LEMMA RecorteUnica ==
  ASSUME NEW c \in Colas, NEW d \in Colas, Recorte(c, d), Unica(d)
  PROVE  Unica(c)
<1> SUFFICES ASSUME NEW r \in Recs, NEW s \in Recs,
                    NEW i \in 1..Len(c[r]), NEW j \in 1..Len(c[s]), c[r][i] = c[s][j]
             PROVE  r = s /\ i = j
  BY DEF Unica
<1>1. PICK k \in 1..Len(d[r]) : c[r][i] = d[r][k]
  BY DEF Recorte
<1>2. PICK l \in 1..Len(d[s]) : c[s][j] = d[s][l]
  BY DEF Recorte
<1>3. r = s
  BY <1>1, <1>2 DEF Unica
<1>4. QED
  BY <1>3 DEF Recorte

LEMMA ColasSinRecorte ==
  ASSUME NEW p \in Pids, colaEspera \in Colas
  PROVE  Recorte(ColasSin(p), colaEspera)
<1> SUFFICES ASSUME NEW r \in Recs
             PROVE  /\ \A i \in 1..Len(Quitar(p, colaEspera[r])) :
                          \E k \in 1..Len(colaEspera[r]) : Quitar(p, colaEspera[r])[i] = colaEspera[r][k]
                    /\ Unica(colaEspera) =>
                         \A i, j \in 1..Len(Quitar(p, colaEspera[r])) :
                           Quitar(p, colaEspera[r])[i] = Quitar(p, colaEspera[r])[j] => i = j
  BY DEF Recorte, ColasSin
<1> DEFINE s == colaEspera[r]
           t == Quitar(p, s)
<1>1. s \in Seq(Pids) /\ Len(s) \in Nat
  BY DEF Colas
<1>2. Unica(colaEspera) => \A i, j \in 1..Len(s) : s[i] = s[j] => i = j
  BY DEF Unica
<1>3. \/ t = s
      \/ \E k \in 1..Len(s) : /\ Len(t) = Len(s) - 1
                             /\ \A i \in 1..Len(t) : t[i] = s[IF i < k THEN i ELSE i + 1]
  BY <1>1, QuitarPropiedades
<1> HIDE DEF s, t
<1>4. CASE t = s
  BY <1>1, <1>2, <1>4 DEF s, t
<1>5. CASE t # s
  <2>1. PICK k \in 1..Len(s) : /\ Len(t) = Len(s) - 1
                               /\ \A i \in 1..Len(t) : t[i] = s[IF i < k THEN i ELSE i + 1]
    BY <1>3, <1>5
  <2>2. \A i \in 1..Len(t) : (IF i < k THEN i ELSE i + 1) \in 1..Len(s)
    BY <1>1, <2>1
  <2>3. \A i \in 1..Len(t) : \E l \in 1..Len(s) : t[i] = s[l]
    BY <2>1, <2>2
  <2>4. ASSUME Unica(colaEspera), NEW i \in 1..Len(t), NEW j \in 1..Len(t), t[i] = t[j]
        PROVE  i = j
    <3>1. (IF i < k THEN i ELSE i + 1) = (IF j < k THEN j ELSE j + 1)
      BY <1>2, <2>1, <2>2, <2>4
    <3>2. QED
      BY <3>1, <1>1, <2>1
  <2>5. QED
    BY <2>3, <2>4 DEF s, t
<1>6. QED
  BY <1>4, <1>5

LEMMA ColaRestoRecorte ==
  ASSUME NEW c \in Colas, NEW r \in Recs, c[r] # <<>>
  PROVE  /\ [c EXCEPT ![r] = Tail(@)] \in Colas
         /\ Recorte([c EXCEPT ![r] = Tail(@)], c)
<1> DEFINE d == [c EXCEPT ![r] = Tail(@)]
<1>1. /\ c[r] \in Seq(Pids) /\ Len(c[r]) \in Nat
      /\ Tail(c[r]) \in Seq(Pids) /\ Len(Tail(c[r])) = Len(c[r]) - 1
      /\ \A i \in 1..Len(Tail(c[r])) : Tail(c[r])[i] = c[r][i + 1]
  BY HeadTailProperties DEF Colas
<1>2. d \in Colas /\ \A s \in Recs : d[s] = IF s = r THEN Tail(c[r]) ELSE c[s]
  BY <1>1 DEF Colas
<1> HIDE DEF d
<1>3. ASSUME NEW s \in Recs, NEW i \in 1..Len(d[s])
      PROVE  \E k \in 1..Len(c[s]) : d[s][i] = c[s][k]
  <2>1. CASE s = r
    <3>1. d[s] = Tail(c[r])
      BY <1>2, <2>1
    <3>2. i + 1 \in 1..Len(c[r]) /\ d[s][i] = c[r][i + 1]
      BY <1>1, <3>1
    <3>3. QED
      BY <2>1, <3>2
  <2>2. CASE s # r
    BY <1>2, <2>2
  <2>3. QED
    BY <2>1, <2>2
<1>4. ASSUME Unica(c), NEW s \in Recs, NEW i \in 1..Len(d[s]), NEW j \in 1..Len(d[s]), d[s][i] = d[s][j]
      PROVE  i = j
  <2>1. CASE s = r
    <3>1. d[s] = Tail(c[r])
      BY <1>2, <2>1
    <3>2. i \in Int /\ j \in Int
      BY <1>1, <3>1
    <3>3. /\ i + 1 \in 1..Len(c[r]) /\ d[s][i] = c[r][i + 1]
          /\ j + 1 \in 1..Len(c[r]) /\ d[s][j] = c[r][j + 1]
      BY <1>1, <3>1, <3>2
    <3>4. c[r][i + 1] = c[r][j + 1]
      BY <1>4, <3>3
    <3>5. i + 1 = j + 1
      BY <1>4, <3>3, <3>4 DEF Unica
    <3>6. QED
      BY <3>2, <3>5
  <2>2. CASE s # r
    BY <1>2, <1>4, <2>2 DEF Unica
  <2>3. QED
    BY <2>1, <2>2
<1>5. QED
  BY <1>2, <1>3, <1>4 DEF Recorte, d

LEMMA RecorteVacia ==
  ASSUME NEW c \in Colas, NEW d \in Colas, Recorte(c, d), NEW r \in Recs, c[r] # <<>>
  PROVE  d[r] # <<>>
<1>1. 1 \in 1..Len(c[r])
  BY EmptySeq DEF Colas
<1>2. PICK k \in 1..Len(d[r]) : c[r][1] = d[r][k]
  BY <1>1 DEF Recorte
<1>3. QED
  BY <1>2, EmptySeq

(* Queues with free instances: none, whoever asks and whenever.            *)
LEMMA SoltarNadie ==
  ASSUME RTypeOK, NadieEsperaConInstancias, NEW p \in Pids, NEW r \in Recs,
         NEW colas \in Colas, Recorte(colas, colaEspera), Soltar(p, r, colas)
  PROVE  NadieEsperaConInstancias'
<1>1. colaEspera \in Colas
  BY DEF RTypeOK, Colas
<1>2. \A y \in Recs : colas[y] # <<>> => instancias[y] = 0
  BY <1>1, RecorteVacia DEF NadieEsperaConInstancias
<1>3. CASE colas[r] = <<>>
  <2>1. colaEspera' = colas /\ \A y \in Recs : y # r => instancias'[y] = instancias[y]
    BY <1>3 DEF Soltar, RTypeOK
  <2>2. QED
    BY <1>2, <1>3, <2>1 DEF NadieEsperaConInstancias
<1>4. CASE colas[r] # <<>>
  <2> DEFINE resto == [colas EXCEPT ![r] = Tail(@)]
  <2>1. colaEspera' = resto /\ instancias' = instancias
    BY <1>4 DEF Soltar
  <2>2. resto \in Colas /\ Recorte(resto, colas)
    BY <1>4, ColaRestoRecorte
  <2> HIDE DEF resto
  <2>3. \A y \in Recs : resto[y] # <<>> => instancias[y] = 0
    BY <1>2, <2>2, RecorteVacia
  <2>4. QED
    BY <2>1, <2>3 DEF NadieEsperaConInstancias
<1>5. QED
  BY <1>3, <1>4

LEMMA NadieInductivo ==
  RTypeOK /\ NadieEsperaConInstancias /\ [RPaso]_rvars => NadieEsperaConInstancias'
<1> SUFFICES ASSUME RTypeOK, NadieEsperaConInstancias, [RPaso]_rvars
             PROVE  NadieEsperaConInstancias'
  OBVIOUS
<1>1. colaEspera \in Colas
  BY DEF RTypeOK, Colas
<1>2. \A p \in Pids : ColasSin(p) \in Colas /\ Recorte(ColasSin(p), colaEspera)
  BY <1>1, ColasSinTipo, ColasSinRecorte DEF Colas
<1>3. ASSUME NEW p \in Pids, NEW r \in Recs, TomarInstancia(p, r)
      PROVE  NadieEsperaConInstancias'
  <2>1. \A y \in Recs : instancias[y] = 0 => instancias'[y] = 0
    BY <1>3 DEF TomarInstancia, RTypeOK
  <2>2. QED
    BY <1>3, <2>1 DEF TomarInstancia, NadieEsperaConInstancias
<1>4. ASSUME NEW p \in Pids, NEW r \in Recs, EncolarEspera(p, r)
      PROVE  NadieEsperaConInstancias'
  <2>1. instancias' = instancias /\ instancias[r] = 0
    BY <1>4 DEF EncolarEspera, RTypeOK
  <2>2. \A y \in Recs : y # r => colaEspera'[y] = colaEspera[y]
    BY <1>4 DEF EncolarEspera, RTypeOK
  <2>3. QED
    BY <2>1, <2>2 DEF NadieEsperaConInstancias
<1>5. ASSUME NEW p \in Pids, NEW r \in Recs, DevolverInstancia(p, r)
      PROVE  NadieEsperaConInstancias'
  <2>1. Recorte(colaEspera, colaEspera)
    BY DEF Recorte, Unica
  <2>2. QED
    BY <1>1, <1>5, <2>1, SoltarNadie DEF DevolverInstancia
<1>6. ASSUME NEW p \in Pids, LiberarNada(p) PROVE NadieEsperaConInstancias'
  <2>1. \A y \in Recs : ColasSin(p)[y] # <<>> => instancias[y] = 0
    BY <1>1, <1>2, RecorteVacia DEF NadieEsperaConInstancias
  <2>2. QED
    BY <1>6, <2>1 DEF LiberarNada, NadieEsperaConInstancias
<1>7. ASSUME NEW p \in Pids, NEW r \in Recs, LiberarPrimero(p, r)
      PROVE  NadieEsperaConInstancias'
  BY <1>2, <1>7, SoltarNadie DEF LiberarPrimero
<1>8. CASE UNCHANGED <<instancias, colaEspera>>
  BY <1>8 DEF NadieEsperaConInstancias
<1>9. QED
  BY <1>3, <1>4, <1>5, <1>6, <1>7, <1>8
     DEF RPaso, LiberarRecursos, Caer, rvars

(* For any number of processes and resources, nobody waits for a resource  *)
(* with a free instance, though a process may ask while it waits already.  *)
THEOREM RNadie == RSpecLibre => []NadieEsperaConInstancias
<1>1. RInit => RTypeOK /\ NadieEsperaConInstancias
  BY RTipoInicial DEF RInit, NadieEsperaConInstancias
<1>2. RTypeOK /\ NadieEsperaConInstancias /\ [RPaso]_rvars
      => (RTypeOK /\ NadieEsperaConInstancias)'
  BY RTipoInductivo, NadieInductivo
<1>3. QED
  BY <1>1, <1>2, PTL DEF RSpecLibre

LEMMA SoltarColas ==
  ASSUME RTypeOK, NadieEsperaConInstancias, EsperaUnica,
         NEW p \in Pids, NEW r \in Recs,
         NEW colas \in Colas, Recorte(colas, colaEspera), Soltar(p, r, colas)
  PROVE  NadieEsperaConInstancias' /\ EsperaUnica'
<1>1. colaEspera \in Colas /\ Unica(colaEspera)
  BY DEF RTypeOK, Colas, EsperaUnica, Unica
<1>2. Unica(colas)
  BY <1>1, RecorteUnica
<1>3. \A y \in Recs : colas[y] # <<>> => instancias[y] = 0
  BY <1>1, RecorteVacia DEF NadieEsperaConInstancias
<1>4. CASE colas[r] = <<>>
  <2>1. colaEspera' = colas /\ instancias' = [instancias EXCEPT ![r] = @ + 1]
    BY <1>4 DEF Soltar
  <2>2. \A y \in Recs : y # r => instancias'[y] = instancias[y]
    BY <2>1 DEF RTypeOK
  <2>3. NadieEsperaConInstancias'
    BY <1>3, <1>4, <2>1, <2>2 DEF NadieEsperaConInstancias
  <2>4. QED
    BY <1>2, <2>1, <2>3 DEF EsperaUnica, Unica
<1>5. CASE colas[r] # <<>>
  <2> DEFINE resto == [colas EXCEPT ![r] = Tail(@)]
  <2>1. colaEspera' = resto /\ instancias' = instancias
    BY <1>5 DEF Soltar
  <2>2. resto \in Colas /\ Recorte(resto, colas)
    BY <1>5, ColaRestoRecorte
  <2> HIDE DEF resto
  <2>3. Unica(resto)
    BY <1>2, <2>2, RecorteUnica
  <2>4. \A y \in Recs : resto[y] # <<>> => instancias[y] = 0
    BY <1>3, <2>2, RecorteVacia
  <2>5. QED
    BY <2>1, <2>3, <2>4 DEF NadieEsperaConInstancias, EsperaUnica, Unica
<1>6. QED
  BY <1>4, <1>5

LEMMA EncolarColas ==
  ASSUME RTypeOK, NadieEsperaConInstancias, EsperaUnica,
         NEW p \in Pids, NEW r \in Recs, ~Esperando(p), EncolarEspera(p, r)
  PROVE  NadieEsperaConInstancias' /\ EsperaUnica'
<1> DEFINE c == colaEspera'
           s == colaEspera[r]
<1>1. s \in Seq(Pids) /\ Len(s) \in Nat
  BY DEF RTypeOK
<1>2. /\ Len(Append(s, p)) = Len(s) + 1
      /\ \A i \in 1..(Len(s) + 1) : Append(s, p)[i] = IF i = Len(s) + 1 THEN p ELSE s[i]
  BY <1>1
<1>3. \A y \in Recs : c[y] = IF y = r THEN Append(s, p) ELSE colaEspera[y]
  BY DEF EncolarEspera, RTypeOK
<1>4. instancias' = instancias /\ instancias[r] = 0
  BY DEF EncolarEspera, RTypeOK
<1>5. \A y \in Recs : \A i \in 1..Len(colaEspera[y]) : colaEspera[y][i] # p
  BY DEF Esperando, Espera, EnCola
<1> HIDE DEF c, s
<1>6. NadieEsperaConInstancias'
  BY <1>3, <1>4 DEF NadieEsperaConInstancias, c
<1>7. ASSUME NEW x \in Recs, NEW y \in Recs, NEW i \in 1..Len(c[x]), NEW j \in 1..Len(c[y]),
             c[x][i] = c[y][j]
      PROVE  x = y /\ i = j
  <2> DEFINE nuevo(z, k) == z = r /\ k = Len(s) + 1
  <2>1. ASSUME NEW z \in Recs, NEW k \in 1..Len(c[z])
        PROVE  \/ nuevo(z, k) /\ c[z][k] = p
               \/ ~nuevo(z, k) /\ k \in 1..Len(colaEspera[z]) /\ c[z][k] = colaEspera[z][k]
    <3>1. CASE z = r
      <4>1. c[z] = Append(s, p) /\ colaEspera[z] = s
        BY <3>1, <1>3 DEF s
      <4>2. k \in 1..(Len(s) + 1)
        BY <1>2, <4>1
      <4>3. k = Len(s) + 1 \/ k \in 1..Len(s)
        BY <1>1, <4>2
      <4>4. QED
        BY <3>1, <1>1, <1>2, <4>1, <4>2, <4>3
    <3>2. CASE z # r
      BY <3>2, <1>3
    <3>3. QED
      BY <3>1, <3>2
  <2>2. CASE nuevo(x, i)
    BY <2>1, <2>2, <1>5, <1>7
  <2>3. CASE nuevo(y, j)
    BY <2>1, <2>3, <1>5, <1>7
  <2>4. CASE ~nuevo(x, i) /\ ~nuevo(y, j)
    <3>1. /\ i \in 1..Len(colaEspera[x]) /\ j \in 1..Len(colaEspera[y])
          /\ colaEspera[x][i] = colaEspera[y][j]
      BY <2>1, <2>4, <1>7
    <3>2. QED
      BY <3>1 DEF EsperaUnica
  <2>5. QED
    BY <2>2, <2>3, <2>4
<1>8. EsperaUnica'
  BY <1>7 DEF EsperaUnica, c
<1>9. QED
  BY <1>6, <1>8

LEMMA ColasInductivas ==
  RTypeOK /\ NadieEsperaConInstancias /\ EsperaUnica /\ [RNext]_rvars
    => NadieEsperaConInstancias' /\ EsperaUnica'
<1> SUFFICES ASSUME RTypeOK, NadieEsperaConInstancias, EsperaUnica, [RNext]_rvars
             PROVE  NadieEsperaConInstancias' /\ EsperaUnica'
  OBVIOUS
<1>1. colaEspera \in Colas /\ Unica(colaEspera)
  BY DEF RTypeOK, Colas, EsperaUnica, Unica
<1>2. \A p \in Pids : ColasSin(p) \in Colas /\ Recorte(ColasSin(p), colaEspera)
  BY <1>1, ColasSinTipo, ColasSinRecorte DEF Colas
<1>3. ASSUME NEW p \in Pids, NEW r \in Recs, TomarInstancia(p, r)
      PROVE  NadieEsperaConInstancias' /\ EsperaUnica'
  <2>1. \A y \in Recs : instancias[y] = 0 => instancias'[y] = 0
    BY <1>3 DEF TomarInstancia, RTypeOK
  <2>2. QED
    BY <1>3, <2>1 DEF TomarInstancia, NadieEsperaConInstancias, EsperaUnica
<1>4. ASSUME NEW p \in Pids, NEW r \in Recs, ~Esperando(p), EncolarEspera(p, r)
      PROVE  NadieEsperaConInstancias' /\ EsperaUnica'
  BY <1>4, EncolarColas
<1>5. ASSUME NEW p \in Pids, NEW r \in Recs, DevolverInstancia(p, r)
      PROVE  NadieEsperaConInstancias' /\ EsperaUnica'
  <2>1. Recorte(colaEspera, colaEspera)
    BY DEF Recorte, Unica
  <2>2. QED
    BY <1>1, <1>5, <2>1, SoltarColas DEF DevolverInstancia
<1>6. ASSUME NEW p \in Pids, LiberarNada(p)
      PROVE  NadieEsperaConInstancias' /\ EsperaUnica'
  <2>1. Unica(ColasSin(p))
    BY <1>1, <1>2, RecorteUnica
  <2>2. \A y \in Recs : ColasSin(p)[y] # <<>> => instancias[y] = 0
    BY <1>1, <1>2, RecorteVacia DEF NadieEsperaConInstancias
  <2>3. QED
    BY <1>6, <2>1, <2>2 DEF LiberarNada, NadieEsperaConInstancias, EsperaUnica, Unica
<1>7. ASSUME NEW p \in Pids, NEW r \in Recs, LiberarPrimero(p, r)
      PROVE  NadieEsperaConInstancias' /\ EsperaUnica'
  BY <1>2, <1>7, SoltarColas DEF LiberarPrimero
<1>8. CASE Caer
  BY <1>8 DEF Caer, NadieEsperaConInstancias, EsperaUnica
<1>9. CASE UNCHANGED rvars
  BY <1>9 DEF rvars, NadieEsperaConInstancias, EsperaUnica
<1>10. QED
  BY <1>3, <1>4, <1>5, <1>6, <1>7, <1>8, <1>9
     DEF RNext, WaitRecurso, SignalRecurso, LiberarRecursos

LEMMA ColasIniciales == RInit => NadieEsperaConInstancias /\ EsperaUnica
<1> SUFFICES ASSUME RInit PROVE NadieEsperaConInstancias /\ EsperaUnica
  OBVIOUS
<1>1. \A r \in Recs : colaEspera[r] = <<>> /\ Len(colaEspera[r]) = 0
  BY EmptySeq DEF RInit
<1>2. QED
  BY <1>1 DEF NadieEsperaConInstancias, EsperaUnica

(* No wake-up is lost: a process waits only for a resource with no free    *)
(* instance, and in one queue, once.                                       *)
THEOREM RColas == RSpec => [](NadieEsperaConInstancias /\ EsperaUnica)
<1>1. RInit => RTypeOK /\ NadieEsperaConInstancias /\ EsperaUnica
  BY RTipoInicial, ColasIniciales
<1>2. RTypeOK /\ NadieEsperaConInstancias /\ EsperaUnica /\ [RNext]_rvars
      => (RTypeOK /\ NadieEsperaConInstancias /\ EsperaUnica)'
  BY RTipoInductivo, ColasInductivas, RNextEsPaso
<1>3. QED
  BY <1>1, <1>2, PTL DEF RSpec

-----------------------------------------------------------------------------
(* The order of the hand-over.                                             *)
LEMMA PasarGana ==
  ASSUME RTypeOK, NEW p \in Pids, NEW r \in Recs, tenencia[p][r] > 0,
         NEW colas \in Colas, Soltar(p, r, colas),
         NEW q \in Pids, NEW y \in Recs, tenencia'[q][y] > tenencia[q][y]
  PROVE  y = r /\ colas[r] # <<>> /\ q = Head(colas[r])
<1>1. \A x \in Pids, z \in Recs : /\ tenencia[x][z] \in Nat
                                /\ Dejar(p, r)[x][z] \in Nat
                                /\ Dejar(p, r)[x][z] <= tenencia[x][z]
  <2>1. \A x \in Pids, z \in Recs : tenencia[x][z] \in Nat
    BY DEF RTypeOK
  <2>2. /\ Dejar(p, r) \in [Pids -> [Recs -> Nat]]
        /\ \A x \in Pids, z \in Recs :
             Dejar(p, r)[x][z] = IF x = p /\ z = r THEN tenencia[p][r] - 1 ELSE tenencia[x][z]
    BY DejarValores
  <2>3. QED
    BY <2>1, <2>2
<1>2. CASE colas[r] = <<>>
  <2>1. tenencia' = Dejar(p, r)
    BY <1>2 DEF Soltar
  <2>2. QED
    BY <1>1, <2>1
<1>3. CASE colas[r] # <<>>
  <2> DEFINE h == Head(colas[r])
  <2>1. h \in Pids /\ tenencia' = Pasar(p, h, r)
    BY <1>3, HeadTailProperties DEF Soltar, Colas
  <2> HIDE DEF h
  <2>2. tenencia'[q][y] = IF q = h /\ y = r THEN Dejar(p, r)[h][r] + 1 ELSE Dejar(p, r)[q][y]
    BY <2>1, PasarValores
  <2>3. q = h /\ y = r
    BY <1>1, <2>2
  <2>4. QED
    BY <1>3, <2>3 DEF h
<1>4. QED
  BY <1>2, <1>3

(* The head of a queue without p has nobody but p ahead of it.             *)
LEMMA CabezaSinP ==
  ASSUME NEW s \in Seq(Pids), NEW p \in Pids, \A k, l \in 1..Len(s) : s[k] = s[l] => k = l,
         Quitar(p, s) # <<>>,
         NEW i \in 1..Len(s), NEW j \in 1..Len(s), s[j] = Head(Quitar(p, s)), i < j
  PROVE  s[i] = p
<1> DEFINE t == Quitar(p, s)
<1>1. t \in Seq(Pids) /\ Len(s) \in Nat /\ Len(t) \in Nat \ {0} /\ Head(t) = t[1]
  BY QuitarPropiedades, EmptySeq
<1>2. \/ t = s
      \/ \E k \in 1..Len(s) : /\ EsPrimera(k, p, s)
                             /\ Len(t) = Len(s) - 1
                             /\ \A l \in 1..Len(t) : t[l] = s[IF l < k THEN l ELSE l + 1]
  BY QuitarPropiedades
<1> HIDE DEF t
<1>3. s[j] = t[1]
  BY <1>1 DEF t
<1>4. CASE t = s
  BY <1>1, <1>3, <1>4
<1>5. CASE t # s
  <2>1. PICK k \in 1..Len(s) : /\ EsPrimera(k, p, s)
                               /\ Len(t) = Len(s) - 1
                               /\ \A l \in 1..Len(t) : t[l] = s[IF l < k THEN l ELSE l + 1]
    BY <1>2, <1>5
  <2>2. (IF 1 < k THEN 1 ELSE 2) \in 1..Len(s)
    BY <1>1, <2>1
  <2>3. j = IF 1 < k THEN 1 ELSE 2
    <3>1. t[1] = s[IF 1 < k THEN 1 ELSE 2]
      BY <1>1, <2>1
    <3>2. QED
      BY <1>3, <2>2, <3>1
  <2>4. k = 1 /\ i = 1
    BY <2>1, <2>3
  <2>5. QED
    BY <2>1, <2>4 DEF EsPrimera
<1>6. QED
  BY <1>4, <1>5

LEMMA SinPQuitada ==
  ASSUME NEW s \in Seq(Pids), NEW p \in Pids, \A k, l \in 1..Len(s) : s[k] = s[l] => k = l
  PROVE  ~EnCola(p, Quitar(p, s))
<1> SUFFICES ASSUME NEW m \in 1..Len(Quitar(p, s)), Quitar(p, s)[m] = p PROVE FALSE
  BY DEF EnCola
<1>1. CASE Quitar(p, s) = s /\ \A i \in 1..Len(s) : ~EsPrimera(i, p, s)
  <2>1. m \in 1..Len(s) /\ s[m] = p /\ Len(s) \in Nat
    BY <1>1
  <2>2. EsPrimera(m, p, s)
    <3>1. ASSUME NEW l \in 1..(m - 1) PROVE s[l] # p
      BY <2>1
    <3>2. QED
      BY <2>1, <3>1 DEF EsPrimera
  <2>3. QED
    BY <1>1, <2>1, <2>2
<1>2. CASE \E k \in 1..Len(s) :
             /\ EsPrimera(k, p, s)
             /\ Len(Quitar(p, s)) = Len(s) - 1
             /\ \A i \in 1..Len(Quitar(p, s)) : Quitar(p, s)[i] = s[IF i < k THEN i ELSE i + 1]
  <2>1. PICK k \in 1..Len(s) :
             /\ EsPrimera(k, p, s)
             /\ Len(Quitar(p, s)) = Len(s) - 1
             /\ \A i \in 1..Len(Quitar(p, s)) : Quitar(p, s)[i] = s[IF i < k THEN i ELSE i + 1]
    BY <1>2
  <2>2. Len(s) \in Nat
    OBVIOUS
  <2>3. (IF m < k THEN m ELSE m + 1) \in 1..Len(s)
    BY <2>1, <2>2
  <2>4. s[IF m < k THEN m ELSE m + 1] = p /\ s[k] = p
    BY <2>1 DEF EsPrimera
  <2>5. (IF m < k THEN m ELSE m + 1) = k
    BY <2>3, <2>4
  <2>6. QED
    BY <2>1, <2>2, <2>5
<1>3. QED
  BY <1>1, <1>2, QuitarPropiedades

LEMMA OrdenEnCadaPaso ==
  RTypeOK /\ EsperaUnica /\ [RNext]_rvars => [SinAdelantarse]_rvars
<1> SUFFICES ASSUME RTypeOK, EsperaUnica, RNext,
                    NEW r \in Recs, NEW i \in 1..Len(colaEspera[r]), NEW j \in 1..Len(colaEspera[r]),
                    tenencia'[colaEspera[r][j]][r] > tenencia[colaEspera[r][j]][r], i < j
             PROVE  ~EnCola(colaEspera[r][i], colaEspera'[r])
  BY DEF SinAdelantarse
<1> DEFINE s == colaEspera[r]
           q == s[j]
<1>1. /\ s \in Seq(Pids) /\ Len(s) \in Nat /\ q \in Pids
      /\ \A k, l \in 1..Len(s) : s[k] = s[l] => k = l
  BY DEF RTypeOK, EsperaUnica
<1>2. colaEspera \in Colas /\ tenencia[q][r] \in Nat
  BY <1>1 DEF RTypeOK, Colas
<1>3. ASSUME NEW p \in Pids, NEW y \in Recs, ~Esperando(p), TomarInstancia(p, y) PROVE FALSE
  <2>1. q # p
    BY <1>3 DEF Esperando, Espera, EnCola
  <2>2. tenencia'[q][r] = tenencia[q][r]
    BY <1>1, <1>3, <2>1 DEF TomarInstancia, RTypeOK
  <2>3. QED
    BY <1>2, <2>2
<1>4. ASSUME NEW p \in Pids, NEW y \in Recs, DevolverInstancia(p, y) PROVE FALSE
  <2>1. y = r /\ colaEspera[r] # <<>> /\ q = Head(colaEspera[r])
    BY <1>1, <1>2, <1>4, PasarGana DEF DevolverInstancia
  <2>2. 1 \in 1..Len(s) /\ s[1] = s[j]
    BY <1>1, <2>1, EmptySeq
  <2>3. j = 1
    BY <1>1, <2>2
  <2>4. QED
    BY <2>3
<1>5. ASSUME NEW p \in Pids, NEW y \in Recs, LiberarPrimero(p, y)
      PROVE  ~EnCola(s[i], colaEspera'[r])
  <2>1. tenencia[p][y] > 0
    BY <1>5 DEF LiberarPrimero
  <2>2. ColasSin(p) \in Colas /\ ColasSin(p)[r] = Quitar(p, s)
    BY ColasSinTipo DEF Colas, ColasSin
  <2>3. y = r /\ ColasSin(p)[r] # <<>> /\ q = Head(ColasSin(p)[r])
    BY <1>1, <1>5, <2>1, <2>2, PasarGana DEF LiberarPrimero
  <2> DEFINE t == Quitar(p, s)
  <2>4. s[i] = p
    BY <1>1, <2>2, <2>3, CabezaSinP
  <2>5. ~EnCola(p, t)
    BY <1>1, SinPQuitada
  <2>6. colaEspera'[r] = Tail(t)
    BY <1>5, <2>2, <2>3 DEF LiberarPrimero, Soltar, Colas
  <2>7. t \in Seq(Pids) /\ t # <<>>
    BY <1>1, <2>2, <2>3, QuitarPropiedades
  <2> HIDE DEF t
  <2>8. Len(t) \in Nat /\ Len(Tail(t)) = Len(t) - 1 /\ \A m \in 1..Len(Tail(t)) : Tail(t)[m] = t[m + 1]
    BY <2>7, HeadTailProperties
  <2>9. \A m \in 1..Len(Tail(t)) : m + 1 \in 1..Len(t)
    BY <2>8
  <2>10. ~EnCola(p, Tail(t))
    BY <2>5, <2>8, <2>9 DEF EnCola
  <2>11. QED
    BY <2>4, <2>6, <2>10
<1>6. CASE UNCHANGED tenencia
  BY <1>2, <1>6
<1>7. QED
  BY <1>3, <1>4, <1>5, <1>6
     DEF RNext, WaitRecurso, SignalRecurso, LiberarRecursos,
         EncolarEspera, LiberarNada, Caer

(* For any number of processes and resources, no waiting process overtakes *)
(* another one on the way to an instance.                                  *)
THEOREM ROrden == RSpec => EntregaEnOrden
<1>1. RTypeOK /\ NadieEsperaConInstancias /\ EsperaUnica /\ [RNext]_rvars
      => (RTypeOK /\ NadieEsperaConInstancias /\ EsperaUnica)'
  BY RTipoInductivo, ColasInductivas, RNextEsPaso
<1>2. QED
  BY <1>1, RTipoInicial, ColasIniciales, OrdenEnCadaPaso, PTL DEF RSpec, EntregaEnOrden
=============================================================================
