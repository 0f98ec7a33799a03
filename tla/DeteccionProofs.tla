-------------------------- MODULE DeteccionProofs --------------------------
(***************************************************************************)
(* Proofs about Deteccion: the answer of the recursive search is the one   *)
(* the wait-for graph gives, whatever the processes, the resources and the *)
(* state of the queues.                                                    *)
(*                                                                         *)
(* The induction is on the mutexes held, which only grow along the search, *)
(* and is made without an induction rule: a set of mutexes held at which a *)
(* fact fails and which no other such set contains leads to a larger one.  *)
(***************************************************************************)
EXTENDS Deteccion, RecursosProofs, WellFoundedInduction

LEMMA MinimoNatural ==
  ASSUME NEW S \in SUBSET Nat, S # {}
  PROVE  \E n \in S : \A m \in S : n <= m
<1>1. PICK n \in S : \A m \in S : <<m, n>> \notin OpToRel(<, Nat)
  BY NatLessThanWellFounded, WFMin
<1>2. \A m \in S : ~(m < n)
  BY <1>1 DEF OpToRel
<1>3. QED
  BY <1>2

(* Some set of mutexes held of B is in no other one of B.                  *)
LEMMA TomadosMaximo ==
  ASSUME NEW B \in SUBSET SUBSET Pids, B # {}
  PROVE  \E t \in B : \A u \in B : t \subseteq u => u = t
<1> DEFINE C == {Pids \ t : t \in B}
<1>1. IsWellFoundedOn(StrictSubsetOrdering(Pids), SUBSET Pids)
  <2>1. IsFiniteSet(Pids)
    BY MaxProcesosAssumption, FS_Interval DEF Pids
  <2>2. QED
    BY <2>1, FS_FiniteSubsetsOfFinite, FS_StrictSubsetOrderingWellFounded
<1>2. C \subseteq SUBSET Pids /\ C # {}
  <2>1. PICK t0 \in B : TRUE
    OBVIOUS
  <2>2. Pids \ t0 \in C
    OBVIOUS
  <2>3. \A c \in C : c \in SUBSET Pids
    OBVIOUS
  <2> HIDE DEF C
  <2>4. QED
    BY <2>2, <2>3
<1>3. PICK c \in C : \A d \in C : <<d, c>> \notin StrictSubsetOrdering(Pids)
  <2> HIDE DEF C
  <2> QED
    BY <1>1, <1>2, WFMin
<1>4. PICK t \in B : c = Pids \ t
  OBVIOUS
<1>5. ASSUME NEW u \in B, t \subseteq u
      PROVE  u = t
  <2>1. Pids \ u \in C /\ Pids \ u \subseteq Pids \ t
    BY <1>5
  <2>2. Pids \ u = Pids \ t
    BY <1>3, <1>4, <2>1 DEF StrictSubsetOrdering
  <2>3. QED
    BY <2>2, <1>5
<1>6. QED
  BY <1>5

-----------------------------------------------------------------------------
(* What the two loops answer, from what they are answered.                 *)
Veredictos == {"si", "no", "cuelga"}

LEMMA PrimeraDice ==
  ASSUME NEW n \in Nat, NEW s, DOMAIN s = 1..n
  PROVE  /\ PrimeraRespuesta(s) = "no" => \A i \in 1..n : s[i] = "no"
         /\ PrimeraRespuesta(s) # "no" => \E i \in 1..n : s[i] = PrimeraRespuesta(s)
<1> DEFINE utiles == {i \in 1..n : s[i] # "no"}
<1>1. CASE utiles = {}
  BY <1>1 DEF PrimeraRespuesta
<1>2. CASE utiles # {}
  <2>1. utiles \in SUBSET Nat
    OBVIOUS
  <2>2. \E i \in utiles : \A j \in utiles : i <= j
    <3> HIDE DEF utiles
    <3> QED
      BY <1>2, <2>1, MinimoNatural
  <2>3. Min(utiles) \in utiles
    <3> HIDE DEF utiles
    <3> QED
      BY <2>2 DEF Min
  <2>4. PrimeraRespuesta(s) = s[Min(utiles)]
    BY <1>2 DEF PrimeraRespuesta
  <2> DEFINE m == Min(utiles)
  <2>5. m \in 1..n /\ s[m] # "no" /\ PrimeraRespuesta(s) = s[m]
    BY <2>3, <2>4
  <2> HIDE DEF m, utiles
  <2>6. QED
    BY <2>5
<1>3. QED
  BY <1>1, <1>2

LEMMA AlgunaDice ==
  ASSUME NEW A
  PROVE  /\ AlgunaRespuesta(A) \in Veredictos
         /\ AlgunaRespuesta(A) = "si" => "si" \in A
         /\ AlgunaRespuesta(A) = "no" => "si" \notin A /\ "cuelga" \notin A
         /\ AlgunaRespuesta(A) = "cuelga" => "cuelga" \in A
BY DEF AlgunaRespuesta, Veredictos

(* The answer for a resource depends only on the answers with one more     *)
(* mutex held.                                                             *)
LEMMA RecorrerLocal ==
  ASSUME RTypeOK, NEW p \in Pids, NEW t \in SUBSET Pids, NEW g, NEW h,
         \A x \in Pids \ t : g[t \cup {x}] = h[t \cup {x}]
  PROVE  Recorrer(p, t, g) = Recorrer(p, t, h)
<1>1. ASSUME NEW y \in Pids
      PROVE  Examinar(p, t, g, y) = Examinar(p, t, h, y)
  <2>1. CASE y \in t
    BY <2>1 DEF Examinar
  <2>2. CASE y \notin t
    <3>1. g[t \cup {y}] = h[t \cup {y}]
      BY <2>2
    <3>2. QED
      BY <3>1 DEF Examinar
  <2>3. QED
    BY <2>1, <2>2
<1>2. ASSUME NEW r \in Recs
      PROVE  [i \in 1..Len(colaEspera[r]) |-> Examinar(p, t, g, colaEspera[r][i])]
               = [i \in 1..Len(colaEspera[r]) |-> Examinar(p, t, h, colaEspera[r][i])]
  <2>1. \A i \in 1..Len(colaEspera[r]) : colaEspera[r][i] \in Pids
    BY DEF RTypeOK
  <2>2. QED
    BY <2>1, <1>1
<1>3. QED
  BY <1>2 DEF Recorrer

-----------------------------------------------------------------------------
(* The equation of verificacion_DL has a solution.  Bueno(p, n) has a table*)
(* that satisfies it wherever fewer than n mutexes are free.               *)
SinTomar(t) == Cardinality(Pids \ t)
Bueno(p, n) ==
  \E g : \A t \in SUBSET Pids : SinTomar(t) < n => g[t] = Recorrer(p, t, g)

LEMMA SinTomarBaja ==
  /\ \A t \in SUBSET Pids : SinTomar(t) \in Nat /\ SinTomar(t) <= MaxProcesos
  /\ \A t \in SUBSET Pids, x \in Pids : x \notin t => SinTomar(t \cup {x}) = SinTomar(t) - 1
<1>1. IsFiniteSet(Pids) /\ Cardinality(Pids) = MaxProcesos
  BY MaxProcesosAssumption, FS_Interval DEF Pids
<1>2. ASSUME NEW t \in SUBSET Pids
      PROVE  IsFiniteSet(Pids \ t) /\ SinTomar(t) \in Nat /\ SinTomar(t) <= MaxProcesos
  BY <1>1, FS_Subset, FS_CardinalityType DEF SinTomar
<1>3. ASSUME NEW t \in SUBSET Pids, NEW x \in Pids, x \notin t
      PROVE  SinTomar(t \cup {x}) = SinTomar(t) - 1
  <2>1. Pids \ (t \cup {x}) = (Pids \ t) \ {x} /\ x \in Pids \ t
    BY <1>3
  <2>2. QED
    BY <1>2, <2>1, FS_RemoveElement DEF SinTomar
<1>4. QED
  BY <1>2, <1>3

LEMMA BuenoSigue ==
  ASSUME RTypeOK, NEW p \in Pids, NEW n \in Nat, Bueno(p, n)
  PROVE  Bueno(p, n + 1)
<1>1. PICK g : \A t \in SUBSET Pids : SinTomar(t) < n => g[t] = Recorrer(p, t, g)
  BY DEF Bueno
<1> DEFINE h == [t \in SUBSET Pids |-> Recorrer(p, t, g)]
<1>2. ASSUME NEW t \in SUBSET Pids, SinTomar(t) < n + 1
      PROVE  h[t] = Recorrer(p, t, h)
  <2>1. ASSUME NEW x \in Pids \ t
        PROVE  g[t \cup {x}] = h[t \cup {x}]
    <3>1. t \cup {x} \in SUBSET Pids /\ SinTomar(t \cup {x}) < n
      <4>1. SinTomar(t) \in Nat /\ SinTomar(t \cup {x}) = SinTomar(t) - 1
        BY SinTomarBaja
      <4>2. QED
        BY <4>1, <1>2
    <3>2. g[t \cup {x}] = Recorrer(p, t \cup {x}, g)
      BY <3>1, <1>1
    <3>3. h[t \cup {x}] = Recorrer(p, t \cup {x}, g)
      BY <3>1
    <3>4. QED
      BY <3>2, <3>3
  <2>2. h[t] = Recorrer(p, t, g)
    OBVIOUS
  <2> HIDE DEF h
  <2>3. Recorrer(p, t, g) = Recorrer(p, t, h)
    BY <2>1, RecorrerLocal
  <2>4. QED
    BY <2>2, <2>3
<1> HIDE DEF h
<1>3. QED
  BY <1>2 DEF Bueno

LEMMA BuenoSiempre ==
  ASSUME RTypeOK, NEW p \in Pids
  PROVE  \A n \in Nat : Bueno(p, n)
<1> DEFINE malos == {n \in Nat : ~Bueno(p, n)}
<1>1. SUFFICES ASSUME malos # {} PROVE FALSE
  OBVIOUS
<1>2. PICK n \in malos : \A m \in malos : n <= m
  <2>1. malos \in SUBSET Nat
    OBVIOUS
  <2> HIDE DEF malos
  <2>2. QED
    BY <1>1, <2>1, MinimoNatural
<1>3. n \in Nat /\ ~Bueno(p, n)
  OBVIOUS
<1>4. n # 0
  <2>1. Bueno(p, 0)
    <3>1. \A t \in SUBSET Pids : ~(SinTomar(t) < 0)
      BY SinTomarBaja
    <3>2. QED
      BY <3>1 DEF Bueno
  <2>2. QED
    BY <2>1, <1>3
<1>5. n - 1 \in Nat /\ n - 1 \notin malos
  BY <1>2, <1>3, <1>4
<1>6. Bueno(p, n - 1)
  BY <1>5
<1>7. Bueno(p, (n - 1) + 1)
  BY <1>5, <1>6, BuenoSigue
<1>8. QED
  BY <1>3, <1>7

LEMMA VerificacionEcuacion ==
  ASSUME RTypeOK, NEW p \in Pids
  PROVE  \A t \in SUBSET Pids : verificacion_DL(p)[t] = Recorrer(p, t, verificacion_DL(p))
<1>1. verificacion_DL(p) = CHOOSE v : v = [t \in SUBSET Pids |-> Recorrer(p, t, v)]
  BY DEF verificacion_DL
<1>2. PICK g : \A t \in SUBSET Pids : SinTomar(t) < MaxProcesos + 1 => g[t] = Recorrer(p, t, g)
  <2>1. MaxProcesos + 1 \in Nat
    BY MaxProcesosAssumption
  <2>2. QED
    BY <2>1, BuenoSiempre DEF Bueno
<1>3. \A t \in SUBSET Pids : g[t] = Recorrer(p, t, g)
  BY <1>2, SinTomarBaja, MaxProcesosAssumption
<1> DEFINE h == [t \in SUBSET Pids |-> g[t]]
<1>4. ASSUME NEW t \in SUBSET Pids
      PROVE  Recorrer(p, t, g) = Recorrer(p, t, h)
  <2>1. \A x \in Pids \ t : t \cup {x} \in SUBSET Pids
    OBVIOUS
  <2>2. \A x \in Pids \ t : g[t \cup {x}] = h[t \cup {x}]
    BY <2>1
  <2> HIDE DEF h
  <2>3. QED
    BY <2>2, RecorrerLocal
<1>5. h = [t \in SUBSET Pids |-> Recorrer(p, t, h)]
  BY <1>3, <1>4
<1> HIDE DEF h
<1>6. verificacion_DL(p) = [t \in SUBSET Pids |-> Recorrer(p, t, verificacion_DL(p))]
  BY <1>1, <1>5
<1>7. QED
  BY <1>6

-----------------------------------------------------------------------------
(* What one level of the search has seen when it gives each answer.        *)
LEMMA Pasos ==
  ASSUME RTypeOK, NEW p \in Pids, NEW t \in SUBSET Pids, NEW r \in Recs
  PROVE  LET v == verificacion_DL(p)
         IN  /\ v[t][r] \in Veredictos
             /\ v[t][r] = "no" => \A y \in Pids : Espera(y, r) =>
                  y # p /\ (y \in t => Tiene(y) = {})
                        /\ (y \notin t => \A s \in Tiene(y) : v[t \cup {y}][s] \notin {"si", "cuelga"})
             /\ v[t][r] = "si" => \E y \in Pids : Espera(y, r) /\
                  (y = p \/ (y \notin t /\ \E s \in Tiene(y) : v[t \cup {y}][s] = "si"))
             /\ v[t][r] = "cuelga" => \E y \in Pids : Espera(y, r) /\ y # p /\
                  (y \in t \/ \E s \in Tiene(y) : v[t \cup {y}][s] = "cuelga")
<1> DEFINE v == verificacion_DL(p)
           n == Len(colaEspera[r])
           c == colaEspera[r]
           s == [i \in 1..n |-> Examinar(p, t, v, c[i])]
<1>1. n \in Nat /\ \A i \in 1..n : c[i] \in Pids
  BY DEF RTypeOK
<1>2. v[t][r] = PrimeraRespuesta(s)
  <2>1. v[t] = Recorrer(p, t, v)
    BY VerificacionEcuacion
  <2> HIDE DEF v
  <2>2. Recorrer(p, t, v)[r] = PrimeraRespuesta(s)
    BY DEF Recorrer
  <2>3. QED
    BY <2>1, <2>2
<1>3. \A y : Espera(y, r) <=> \E i \in 1..n : c[i] = y
  BY DEF Espera, EnCola
<1>4. /\ PrimeraRespuesta(s) = "no" => \A i \in 1..n : s[i] = "no"
      /\ PrimeraRespuesta(s) # "no" => \E i \in 1..n : s[i] = PrimeraRespuesta(s)
  <2>1. DOMAIN s = 1..n
    OBVIOUS
  <2> HIDE DEF s, n
  <2>2. QED
    BY <1>1, <2>1, PrimeraDice
<1>5. \A i \in 1..n : s[i] = Examinar(p, t, v, c[i])
  OBVIOUS
<1> HIDE DEF v, n, c, s
<1>6. ASSUME NEW y \in Pids
      PROVE  /\ Examinar(p, t, v, y) \in Veredictos
             /\ Examinar(p, t, v, y) = "no" =>
                  y # p /\ (y \in t => Tiene(y) = {})
                        /\ (y \notin t => \A q \in Tiene(y) : v[t \cup {y}][q] \notin {"si", "cuelga"})
             /\ Examinar(p, t, v, y) = "si" =>
                  y = p \/ (y \notin t /\ \E q \in Tiene(y) : v[t \cup {y}][q] = "si")
             /\ Examinar(p, t, v, y) = "cuelga" =>
                  y # p /\ (y \in t \/ \E q \in Tiene(y) : v[t \cup {y}][q] = "cuelga")
  <2> DEFINE A == {v[t \cup {y}][q] : q \in Tiene(y)}
  <2>1. CASE y = p
    BY <2>1 DEF Examinar, Veredictos
  <2>2. CASE y # p /\ Tiene(y) = {}
    BY <2>2 DEF Examinar, Veredictos
  <2>3. CASE y # p /\ Tiene(y) # {} /\ y \in t
    BY <2>3 DEF Examinar, Veredictos
  <2>4. CASE y # p /\ Tiene(y) # {} /\ y \notin t
    <3>1. Examinar(p, t, v, y) = AlgunaRespuesta(A)
      BY <2>4 DEF Examinar
    <3>2. /\ AlgunaRespuesta(A) \in Veredictos
          /\ AlgunaRespuesta(A) = "si" => "si" \in A
          /\ AlgunaRespuesta(A) = "no" => "si" \notin A /\ "cuelga" \notin A
          /\ AlgunaRespuesta(A) = "cuelga" => "cuelga" \in A
      <4> HIDE DEF A
      <4> QED
        BY AlgunaDice
    <3>3. QED
      BY <3>1, <3>2, <2>4
  <2>5. QED
    BY <2>1, <2>2, <2>3, <2>4
<1>7. v[t][r] \in Veredictos
  <2>1. CASE PrimeraRespuesta(s) = "no"
    BY <2>1, <1>2 DEF Veredictos
  <2>2. CASE PrimeraRespuesta(s) # "no"
    BY <2>2, <1>2, <1>4, <1>5, <1>6, <1>1
  <2>3. QED
    BY <2>1, <2>2
<1>8. ASSUME v[t][r] = "si"
      PROVE  \E y \in Pids : Espera(y, r) /\
                  (y = p \/ (y \notin t /\ \E q \in Tiene(y) : v[t \cup {y}][q] = "si"))
  <2>1. PICK i \in 1..n : s[i] = "si"
    BY <1>8, <1>2, <1>4
  <2>2. c[i] \in Pids /\ Espera(c[i], r) /\ Examinar(p, t, v, c[i]) = "si"
    BY <2>1, <1>1, <1>3, <1>5
  <2>3. QED
    BY <2>2, <1>6
<1>9. ASSUME v[t][r] = "cuelga"
      PROVE  \E y \in Pids : Espera(y, r) /\ y # p /\
                  (y \in t \/ \E q \in Tiene(y) : v[t \cup {y}][q] = "cuelga")
  <2>1. PICK i \in 1..n : s[i] = "cuelga"
    BY <1>9, <1>2, <1>4
  <2>2. c[i] \in Pids /\ Espera(c[i], r) /\ Examinar(p, t, v, c[i]) = "cuelga"
    BY <2>1, <1>1, <1>3, <1>5
  <2>3. QED
    BY <2>2, <1>6
<1>10. ASSUME v[t][r] = "no", NEW y \in Pids, Espera(y, r)
       PROVE  y # p /\ (y \in t => Tiene(y) = {})
                    /\ (y \notin t => \A q \in Tiene(y) : v[t \cup {y}][q] \notin {"si", "cuelga"})
  <2>1. PICK i \in 1..n : c[i] = y
    BY <1>10, <1>3
  <2>2. Examinar(p, t, v, y) = "no"
    BY <2>1, <1>10, <1>2, <1>4, <1>5
  <2>3. QED
    BY <2>2, <1>6
<1>11. QED
  <2>1. /\ v[t][r] \in Veredictos
        /\ v[t][r] = "no" => \A y \in Pids : Espera(y, r) =>
             y # p /\ (y \in t => Tiene(y) = {})
                   /\ (y \notin t => \A q \in Tiene(y) : v[t \cup {y}][q] \notin {"si", "cuelga"})
        /\ v[t][r] = "si" => \E y \in Pids : Espera(y, r) /\
             (y = p \/ (y \notin t /\ \E q \in Tiene(y) : v[t \cup {y}][q] = "si"))
        /\ v[t][r] = "cuelga" => \E y \in Pids : Espera(y, r) /\ y # p /\
             (y \in t \/ \E q \in Tiene(y) : v[t \cup {y}][q] = "cuelga")
    BY <1>7, <1>8, <1>9, <1>10
  <2>2. QED
    BY <2>1 DEF v

-----------------------------------------------------------------------------
(* Paths of the wait-for graph.                                            *)
LEMMA AlcanzaArista ==
  ASSUME NEW R, NEW x \in Pids, NEW y \in Pids, <<x, y>> \in R
  PROVE  Alcanza(R, x, y)
BY DEF Alcanza

LEMMA AlcanzaSigue ==
  ASSUME NEW R, NEW x \in Pids, NEW y \in Pids, NEW z \in Pids,
         <<x, y>> \in R, Alcanza(R, y, z)
  PROVE  Alcanza(R, x, z)
<1>1. ASSUME NEW S \in SUBSET Pids, \A e \in R : e[1] = x \/ e[1] \in S => e[2] \in S
      PROVE  z \in S
  <2>1. y \in S
    BY <1>1
  <2>2. \A e \in R : e[1] = y \/ e[1] \in S => e[2] \in S
    BY <1>1, <2>1
  <2>3. QED
    BY <2>2 DEF Alcanza
<1>2. QED
  BY <1>1 DEF Alcanza

LEMMA EsperaArista ==
  ASSUME NEW x \in Pids, NEW y \in Pids, NEW r \in Tiene(y), Espera(x, r)
  PROVE  <<x, y>> \in EsperaA
BY DEF EsperaA

-----------------------------------------------------------------------------
(* "si": every set that is closed under the waits of p has p in it.        *)
LEMMA SiEsCiclo ==
  ASSUME RTypeOK, NEW p \in Pids, deteccion_deadlock(p) = "si"
  PROVE  EnCiclo(p)
<1> DEFINE v == verificacion_DL(p)
<1>1. SUFFICES ASSUME NEW S \in SUBSET Pids, p \notin S,
                      \A e \in EsperaA : e[1] = p \/ e[1] \in S => e[2] \in S
               PROVE  FALSE
  BY DEF EnCiclo, Alcanza
<1> DEFINE B == {t \in SUBSET Pids : \E h \in Pids \ S : \E r \in Tiene(h) : v[t][r] = "si"}
<1>2. B # {}
  <2>1. PICK r \in Tiene(p) : v[{p}][r] = "si"
    BY AlgunaDice DEF deteccion_deadlock
  <2>2. {p} \in B
    BY <2>1, <1>1
  <2>3. QED
    BY <2>2
<1>3. PICK t \in B : \A u \in B : t \subseteq u => u = t
  <2>1. B \in SUBSET SUBSET Pids
    OBVIOUS
  <2> HIDE DEF B
  <2>2. QED
    BY <1>2, <2>1, TomadosMaximo
<1>4. PICK h \in Pids \ S : \E r \in Tiene(h) : v[t][r] = "si"
  OBVIOUS
<1>4a. PICK r \in Tiene(h) : v[t][r] = "si"
  BY <1>4
<1>5. r \in Recs /\ t \in SUBSET Pids
  BY DEF Tiene
<1>6. PICK y \in Pids : Espera(y, r) /\
             (y = p \/ (y \notin t /\ \E s \in Tiene(y) : v[t \cup {y}][s] = "si"))
  BY <1>4a, <1>5, Pasos
<1>7. <<y, h>> \in EsperaA
  BY <1>6, EsperaArista
<1>8. y # p /\ y \notin S
  BY <1>7, <1>1
<1>9. t \cup {y} \in B
  BY <1>5, <1>6, <1>8
<1>10. QED
  BY <1>3, <1>6, <1>8, <1>9

(* "no": the processes that wait for p, maybe through others, do not have p*)
(* among them.                                                             *)
LEMMA NoSinCiclo ==
  ASSUME RTypeOK, NEW p \in Pids, deteccion_deadlock(p) = "no"
  PROVE  ~EnCiclo(p)
<1> DEFINE v == verificacion_DL(p)
           Z == {q \in Pids : \E t \in SUBSET Pids : \E r \in Recs :
                                Espera(q, r) /\ v[t][r] = "no"}
           S == (Pids \ Z) \ {p}
<1>1. ASSUME NEW t \in SUBSET Pids, NEW r \in Recs
      PROVE  v[t][r] \in Veredictos
  BY Pasos
<1>1a. ASSUME NEW t \in SUBSET Pids, NEW r \in Recs, v[t][r] = "no"
      PROVE  \A y \in Pids : Espera(y, r) =>
               y # p /\ (y \in t => Tiene(y) = {})
                     /\ (y \notin t => \A s \in Tiene(y) : v[t \cup {y}][s] \notin {"si", "cuelga"})
  BY <1>1a, Pasos
<1>2. ASSUME NEW x \in Pids, NEW t \in SUBSET Pids, NEW r \in Recs,
             Espera(x, r), v[t][r] = "no"
      PROVE  x # p /\ x \in Z
  <2>1. x # p
    <3> HIDE DEF v
    <3> QED
      BY <1>2, <1>1a
  <2>2. QED
    BY <2>1, <1>2
<1>3. ASSUME NEW x \in Pids, NEW r \in Tiene(p), Espera(x, r)
      PROVE  x # p /\ x \in Z
  <2>1. {p} \in SUBSET Pids /\ r \in Recs
    BY DEF Tiene
  <2>2. v[{p}][r] \in {v[{p}][s] : s \in Tiene(p)}
    OBVIOUS
  <2>3. v[{p}][r] \notin {"si", "cuelga"}
    BY <2>2, AlgunaDice DEF deteccion_deadlock
  <2>4. v[{p}][r] = "no"
    BY <2>1, <2>3, <1>1 DEF Veredictos
  <2>5. QED
    BY <2>1, <2>4, <1>2, <1>3
<1>4. ASSUME NEW x \in Pids, NEW q \in Z, NEW r \in Tiene(q), Espera(x, r)
      PROVE  x # p /\ x \in Z
  <2>1. PICK t \in SUBSET Pids, s \in Recs : Espera(q, s) /\ v[t][s] = "no"
    OBVIOUS
  <2>2. q \in Pids /\ r \in Recs
    BY DEF Tiene
  <2>3. q \notin t /\ v[t \cup {q}][r] \notin {"si", "cuelga"}
    <3> HIDE DEF v, Z
    <3> QED
      BY <2>1, <2>2, <1>1a
  <2>4. t \cup {q} \in SUBSET Pids
    BY <2>2
  <2>5. v[t \cup {q}][r] = "no"
    BY <2>2, <2>3, <2>4, <1>1 DEF Veredictos
  <2>6. QED
    BY <2>2, <2>4, <2>5, <1>2, <1>4
<1>5. ASSUME NEW e \in EsperaA, e[1] = p \/ e[1] \in S
      PROVE  e[2] \in S
  <2>1. e[1] \in Pids /\ e[2] \in Pids /\ \E r \in Tiene(e[2]) : Espera(e[1], r)
    BY DEF EsperaA
  <2>2. e[1] = p \/ e[1] \notin Z
    BY <1>5
  <2>3. e[2] # p
    BY <2>1, <2>2, <1>3
  <2>4. e[2] \notin Z
    BY <2>1, <2>2, <1>4
  <2>5. QED
    BY <2>1, <2>3, <2>4
<1>6. S \in SUBSET Pids /\ p \notin S
  OBVIOUS
<1> HIDE DEF S
<1>7. QED
  BY <1>5, <1>6 DEF EnCiclo, Alcanza

-----------------------------------------------------------------------------
(* Camino(p, t, h): the mutexes held when the search that began at p is at *)
(* the resources of h are those of a path from h to p.                     *)
Camino(p, t, h) ==
  /\ {p, h} \subseteq t
  /\ h = p => t = {p}
  /\ \A x \in t \ {p} : /\ x = h \/ Alcanza(SinEl(p), h, x)
                        /\ Alcanza(EsperaA, x, p)

(* One step back along a wait: the path grows, or it closes a cycle.       *)
LEMMA CaminoSigue ==
  ASSUME NEW p \in Pids, NEW h \in Pids, NEW y \in Pids, NEW t \in SUBSET Pids,
         Camino(p, t, h), <<y, h>> \in EsperaA, y # p
  PROVE  /\ y \in t => CicloAjeno(p)
         /\ y \notin t => Camino(p, t \cup {y}, y)
<1>1. h # p => <<y, h>> \in SinEl(p)
  BY DEF SinEl
<1>2. ASSUME NEW x \in t \ {p}
      PROVE  Alcanza(SinEl(p), y, x)
  <2>1. h # p /\ x \in Pids
    BY <1>2 DEF Camino
  <2>2. CASE x = h
    BY <1>1, <2>1, <2>2, AlcanzaArista
  <2>3. CASE x # h
    BY <1>1, <2>1, <2>3, AlcanzaSigue DEF Camino
  <2>4. QED
    BY <2>2, <2>3
<1>3. Alcanza(EsperaA, y, p)
  <2>1. CASE h = p
    BY <2>1, AlcanzaArista
  <2>2. CASE h # p
    <3>1. Alcanza(EsperaA, h, p)
      BY <2>2 DEF Camino
    <3>2. QED
      BY <3>1, AlcanzaSigue
  <2>3. QED
    BY <2>1, <2>2
<1>4. y \in t => CicloAjeno(p)
  BY <1>2, <1>3 DEF CicloAjeno
<1>5. y \notin t => Camino(p, t \cup {y}, y)
  BY <1>2, <1>3 DEF Camino
<1>6. QED
  BY <1>4, <1>5

(* "cuelga": the search came back to a mutex it holds, around a cycle.     *)
LEMMA CuelgaPorCiclo ==
  ASSUME RTypeOK, NEW p \in Pids, deteccion_deadlock(p) = "cuelga"
  PROVE  CicloAjeno(p)
<1> DEFINE v == verificacion_DL(p)
           B == {t \in SUBSET Pids : \E h \in Pids : \E r \in Tiene(h) :
                                       Camino(p, t, h) /\ v[t][r] = "cuelga"}
<1>1. B # {}
  <2>1. PICK r \in Tiene(p) : v[{p}][r] = "cuelga"
    BY AlgunaDice DEF deteccion_deadlock
  <2>2. Camino(p, {p}, p)
    BY DEF Camino
  <2>3. {p} \in B
    BY <2>1, <2>2
  <2>4. QED
    BY <2>3
<1>2. PICK t \in B : \A u \in B : t \subseteq u => u = t
  <2>1. B \in SUBSET SUBSET Pids
    OBVIOUS
  <2> HIDE DEF B
  <2>2. QED
    BY <1>1, <2>1, TomadosMaximo
<1>2a. PICK h \in Pids : \E r \in Tiene(h) : Camino(p, t, h) /\ v[t][r] = "cuelga"
  OBVIOUS
<1>3. PICK r \in Tiene(h) : Camino(p, t, h) /\ v[t][r] = "cuelga"
  BY <1>2a
<1>4. r \in Recs /\ t \in SUBSET Pids
  BY DEF Tiene
<1>4a. v[t][r] = "cuelga" => \E y \in Pids : Espera(y, r) /\ y # p /\
        (y \in t \/ \E s \in Tiene(y) : v[t \cup {y}][s] = "cuelga")
  BY <1>4, Pasos
<1>5. PICK y \in Pids : Espera(y, r) /\ y # p /\
             (y \in t \/ \E s \in Tiene(y) : v[t \cup {y}][s] = "cuelga")
  BY <1>3, <1>4a
<1>6. <<y, h>> \in EsperaA
  BY <1>5, EsperaArista
<1>7. CASE y \in t
  BY <1>3, <1>4, <1>5, <1>6, <1>7, CaminoSigue
<1>8. CASE y \notin t
  <2>1. Camino(p, t \cup {y}, y)
    BY <1>3, <1>4, <1>5, <1>6, <1>8, CaminoSigue
  <2>2. t \cup {y} \in B
    BY <2>1, <1>4, <1>5, <1>8
  <2>3. QED
    BY <2>2, <1>2, <1>8
<1>9. QED
  BY <1>7, <1>8

-----------------------------------------------------------------------------
LEMMA DeteccionCorrecta == RTypeOK => DeteccionExacta
<1>1. ASSUME RTypeOK, NEW p \in Pids
      PROVE  CASE deteccion_deadlock(p) = "si"     -> EnCiclo(p)
               [] deteccion_deadlock(p) = "no"     -> ~EnCiclo(p)
               [] deteccion_deadlock(p) = "cuelga" -> CicloAjeno(p)
  <2>1. deteccion_deadlock(p) \in Veredictos
    BY AlgunaDice DEF deteccion_deadlock
  <2>2. CASE deteccion_deadlock(p) = "si"
    BY <1>1, <2>2, SiEsCiclo
  <2>3. CASE deteccion_deadlock(p) = "no"
    BY <1>1, <2>3, NoSinCiclo
  <2>4. CASE deteccion_deadlock(p) = "cuelga"
    BY <1>1, <2>4, CuelgaPorCiclo
  <2>5. QED
    BY <2>1, <2>2, <2>3, <2>4 DEF Veredictos
<1>2. QED
  BY <1>1 DEF DeteccionExacta

(* The deadlock search answers every waiting process what the wait-for     *)
(* graph says of it, and hangs only where a cycle the process is not on    *)
(* leads to it, for any number of processes, resources and instances, in   *)
(* every state of the resource layer (deteccion_deadlock).                 *)
THEOREM RDeteccion == RSpecLibre => []DeteccionExacta
BY RTipo, DeteccionCorrecta, PTL
=============================================================================
