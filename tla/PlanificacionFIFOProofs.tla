----------------------- MODULE PlanificacionFIFOProofs -----------------------
(***************************************************************************)
(* What planning by FIFO promises, for every number of processes, program  *)
(* and set of detached threads: a live process is in one place, the CPU    *)
(* has one at most and is owed one answer for each syscall.                *)
(*                                                                         *)
(* The invariant has seven parts.  SinDesalojo: nothing interrupts the CPU.*)
(* CpuContada: the flag ejecutandoB counts the process in the CPU, or on   *)
(* its way there or back.  RespuestaContada: it is owed one answer.        *)
(* LugaresContados: a process is in one place from its admission to its    *)
(* end, and in another kind of place while it is NEW.  CargaEnOrden: the   *)
(* console waits for the load it asked for, so one load at most is under   *)
(* way.  HilosBien: which calls a thread may have still to make.           *)
(* Encadenadas: what follows some of them.                                 *)
(*                                                                         *)
(* All of it as long as DescriptorAjeno holds: the interrupts of           *)
(* signal_recurso, which carry the number of a socket where the CPU looks  *)
(* for a pid, are never for the process the CPU works on.  The last        *)
(* theorem, DescriptorLejano, says until when that is sure.                *)
(***************************************************************************)
EXTENDS PlanificacionProofs, FunctionTheorems

-----------------------------------------------------------------------------
(* How many elements of a sequence, or of a family of sequences, are in a  *)
(* set: what the operations of the queues, channels and lists of calls do  *)
(* to that number.                                                         *)
Posiciones(s, S) == {i \in 1..Len(s) : s[i] \in S}
Cuenta(s, S)     == Cardinality(Posiciones(s, S))
Vale(x, S)       == IF x \in S THEN 1 ELSE 0

Dispersos(f, S) == UNION {{d} \X Posiciones(f[d], S) : d \in DOMAIN f}
CuentaEn(f, S)  == Cardinality(Dispersos(f, S))

(* A count is a natural number; it is positive when some element counts.   *)
LEMMA PosicionesFinitas ==
  ASSUME NEW T, NEW s \in Seq(T), NEW S
  PROVE  IsFiniteSet(Posiciones(s, S))
<1>1. Len(s) \in Nat
  BY LenProperties
<1>2. IsFiniteSet(1..Len(s))
  BY <1>1, FS_Interval
<1>3. QED
  BY <1>2, FS_Subset DEF Posiciones

LEMMA CuentaNatural ==
  ASSUME NEW T, NEW s \in Seq(T), NEW S
  PROVE  /\ Cuenta(s, S) \in Nat
         /\ Cuenta(s, S) > 0 <=> \E i \in 1..Len(s) : s[i] \in S
<1>1. IsFiniteSet(Posiciones(s, S))
  BY PosicionesFinitas
<1>2. Cuenta(s, S) \in Nat /\ (Cuenta(s, S) = 0 <=> Posiciones(s, S) = {})
  BY <1>1, FS_CardinalityType, FS_EmptySet DEF Cuenta
<1>3. QED
  BY <1>2 DEF Posiciones

LEMMA UnionDisjunta ==
  ASSUME NEW A, NEW B, IsFiniteSet(A), IsFiniteSet(B), A \cap B = {}
  PROVE  Cardinality(A \cup B) = Cardinality(A) + Cardinality(B)
<1>1. Cardinality(A \cup B) = Cardinality(A) + Cardinality(B) - Cardinality(A \cap B)
  BY FS_Union
<1>2. Cardinality(A \cap B) = 0
  BY FS_EmptySet
<1>3. Cardinality(A) \in Nat /\ Cardinality(B) \in Nat
  BY FS_CardinalityType
<1>4. QED
  BY <1>1, <1>2, <1>3

LEMMA CuentaVacia ==
  ASSUME NEW S
  PROVE  Cuenta(<<>>, S) = 0
<1>1. Posiciones(<<>>, S) = {}
  BY DEF Posiciones
<1>2. QED
  BY <1>1, FS_EmptySet DEF Cuenta

(* The sets whose elements in a sequence are the same count the same.      *)
LEMMA CuentaIgual ==
  ASSUME NEW s, NEW S, NEW U, \A i \in 1..Len(s) : s[i] \in S <=> s[i] \in U
  PROVE  Cuenta(s, S) = Cuenta(s, U)
<1>1. Posiciones(s, S) = Posiciones(s, U)
  BY DEF Posiciones
<1>2. QED
  BY <1>1 DEF Cuenta

LEMMA ValeUnoOCero ==
  ASSUME NEW x, NEW S
  PROVE  Vale(x, S) \in {0, 1} /\ (Vale(x, S) = 1 <=> x \in S)
BY DEF Vale

LEMMA CuentaUna ==
  ASSUME NEW a, NEW S
  PROVE  Cuenta(<<a>>, S) = Vale(a, S)
<1>1. Posiciones(<<a>>, S) = IF a \in S THEN {1} ELSE {}
  BY DEF Posiciones
<1>2. QED
  BY <1>1, FS_EmptySet, FS_Singleton DEF Cuenta, Vale

LEMMA CuentaUnica ==
  ASSUME NEW s, NEW S, NEW k \in 1..Len(s), s[k] \in S, \A i \in 1..Len(s) : s[i] \in S => i = k
  PROVE  Cuenta(s, S) = 1
<1>1. Posiciones(s, S) = {k}
  BY DEF Posiciones
<1>2. QED
  BY <1>1, FS_Singleton DEF Cuenta

LEMMA CuentaNinguna ==
  ASSUME NEW s, NEW S, \A i \in 1..Len(s) : s[i] \notin S
  PROVE  Cuenta(s, S) = 0
<1>1. Posiciones(s, S) = {}
  BY DEF Posiciones
<1>2. QED
  BY <1>1, FS_EmptySet DEF Cuenta

(* A concatenation counts what its parts do.                               *)
LEMMA CuentaUnir ==
  ASSUME NEW T, NEW s \in Seq(T), NEW t \in Seq(T), NEW S
  PROVE  Cuenta(s \o t, S) = Cuenta(s, S) + Cuenta(t, S)
<1> DEFINE n == Len(s)
           B == Posiciones(t, S)
           M == {i \in (n + 1)..(n + Len(t)) : (s \o t)[i] \in S}
           f == [j \in B |-> j + n]
<1>1. /\ n \in Nat /\ Len(t) \in Nat
      /\ Len(s \o t) = n + Len(t)
      /\ \A i \in 1..(n + Len(t)) : (s \o t)[i] = IF i <= n THEN s[i] ELSE t[i - n]
  BY ConcatProperties, LenProperties
<1>2. Posiciones(s \o t, S) = Posiciones(s, S) \cup M
  BY <1>1 DEF Posiciones
<1>3. Posiciones(s, S) \cap M = {}
  BY <1>1 DEF Posiciones
<1>4. f \in [B -> M]
  <2>1. ASSUME NEW j \in B PROVE j + n \in M
    <3>1. j \in 1..Len(t) /\ t[j] \in S
      BY DEF Posiciones
    <3>2. j + n \in (n + 1)..(n + Len(t)) /\ j + n \in 1..(n + Len(t)) /\ ~(j + n <= n)
      BY <1>1, <3>1
    <3>3. (j + n) - n = j
      BY <1>1, <3>1
    <3>4. QED
      BY <1>1, <3>1, <3>2, <3>3
  <2>2. QED
    BY <2>1
<1>5. \A a, b \in B : f[a] = f[b] => a = b
  BY <1>1 DEF Posiciones
<1>6. \A m \in M : \E j \in B : f[j] = m
  <2>1. ASSUME NEW m \in M PROVE m - n \in B /\ f[m - n] = m
    <3>1. m \in Int /\ m - n \in 1..Len(t) /\ (m - n) + n = m
      BY <1>1
    <3>2. t[m - n] \in S
      BY <1>1
    <3>3. QED
      BY <3>1, <3>2 DEF Posiciones
  <2>2. QED
    BY <2>1
<1>7. f \in Bijection(B, M)
  <2> HIDE DEF f
  <2>1. QED
    BY <1>4, <1>5, <1>6, Fun_IsBij, Fun_IsSurj
<1>8. IsFiniteSet(B) /\ IsFiniteSet(Posiciones(s, S))
  BY PosicionesFinitas
<1>9. IsFiniteSet(M) /\ Cardinality(M) = Cardinality(B)
  BY <1>7, <1>8, FS_Bijection DEF ExistsBijection
<1> HIDE DEF M
<1>10. Cardinality(Posiciones(s, S) \cup M) = Cardinality(Posiciones(s, S)) + Cardinality(M)
  BY <1>3, <1>8, <1>9, UnionDisjunta
<1>11. QED
  BY <1>2, <1>9, <1>10 DEF Cuenta

LEMMA CuentaAgregar ==
  ASSUME NEW T, NEW s \in Seq(T), NEW a \in T, NEW S
  PROVE  Cuenta(Append(s, a), S) = Cuenta(s, S) + Vale(a, S)
<1>1. Append(s, a) = s \o <<a>> /\ <<a>> \in Seq(T)
  OBVIOUS
<1>2. Cuenta(s \o <<a>>, S) = Cuenta(s, S) + Cuenta(<<a>>, S)
  BY <1>1, CuentaUnir
<1>3. QED
  BY <1>1, <1>2, CuentaUna

LEMMA CuentaAnteponer ==
  ASSUME NEW T, NEW s \in Seq(T), NEW a \in T, NEW S
  PROVE  Cuenta(<<a>> \o s, S) = Cuenta(s, S) + Vale(a, S)
<1>1. <<a>> \in Seq(T)
  OBVIOUS
<1>2. Cuenta(s, S) \in Nat /\ Vale(a, S) \in Nat
  BY CuentaNatural, ValeUnoOCero
<1>3. Cuenta(<<a>> \o s, S) = Cuenta(<<a>>, S) + Cuenta(s, S)
  BY <1>1, CuentaUnir
<1>4. QED
  BY <1>2, <1>3, CuentaUna

LEMMA CuentaResto ==
  ASSUME NEW T, NEW s \in Seq(T), s # <<>>, NEW S
  PROVE  Cuenta(s, S) = Cuenta(Tail(s), S) + Vale(Head(s), S)
<1>1. Head(s) \in T /\ Tail(s) \in Seq(T)
  BY HeadTailProperties
<1>2. s = <<Head(s)>> \o Tail(s)
  OBVIOUS
<1>3. QED
  BY <1>1, <1>2, CuentaAnteponer

(* Two sets without an element in common count apart.                      *)
LEMMA CuentaDisjuntos ==
  ASSUME NEW T, NEW s \in Seq(T), NEW S, NEW U, S \cap U = {}
  PROVE  Cuenta(s, S \cup U) = Cuenta(s, S) + Cuenta(s, U)
<1>1. Posiciones(s, S \cup U) = Posiciones(s, S) \cup Posiciones(s, U)
  BY DEF Posiciones
<1>2. Posiciones(s, S) \cap Posiciones(s, U) = {}
  BY DEF Posiciones
<1>3. IsFiniteSet(Posiciones(s, S)) /\ IsFiniteSet(Posiciones(s, U))
  BY PosicionesFinitas
<1>4. QED
  BY <1>1, <1>2, <1>3, UnionDisjunta DEF Cuenta

-----------------------------------------------------------------------------
(* The same over a family of sequences.                                    *)
LEMMA DispersosFinitos ==
  ASSUME NEW D, IsFiniteSet(D), NEW T, NEW f \in [D -> Seq(T)], NEW S
  PROVE  IsFiniteSet(Dispersos(f, S))
<1> DEFINE Parte(d) == {d} \X Posiciones(f[d], S)
<1>1. ASSUME NEW d \in D PROVE IsFiniteSet(Parte(d))
  BY PosicionesFinitas, FS_Product, FS_Singleton
<1> DEFINE F == [d \in D |-> Parte(d)]
           Partes == {Parte(d) : d \in D}
<1>2. Dispersos(f, S) = UNION Partes
  BY DEF Dispersos
<1>3. F \in Surjection(D, Partes)
  <2>1. F \in [D -> Partes] /\ \A p \in Partes : \E d \in D : F[d] = p
    OBVIOUS
  <2> HIDE DEF F, Partes
  <2>2. QED
    BY <2>1, Fun_IsSurj
<1>4. \A p \in Partes : IsFiniteSet(p)
  BY <1>1
<1> HIDE DEF Parte, F, Partes
<1>5. IsFiniteSet(Partes)
  BY <1>3, FS_Surjection
<1>6. QED
  BY <1>2, <1>4, <1>5, FS_UNION

LEMMA CuentaEnNatural ==
  ASSUME NEW D, IsFiniteSet(D), NEW T, NEW f \in [D -> Seq(T)], NEW S
  PROVE  /\ CuentaEn(f, S) \in Nat
         /\ CuentaEn(f, S) > 0 <=> \E d \in D : \E i \in 1..Len(f[d]) : f[d][i] \in S
<1>1. IsFiniteSet(Dispersos(f, S))
  BY DispersosFinitos
<1>2. CuentaEn(f, S) \in Nat /\ (CuentaEn(f, S) = 0 <=> Dispersos(f, S) = {})
  BY <1>1, FS_CardinalityType, FS_EmptySet DEF CuentaEn
<1>3. Dispersos(f, S) # {} <=> \E d \in D : \E i \in 1..Len(f[d]) : f[d][i] \in S
  <2>1. ASSUME Dispersos(f, S) # {} PROVE \E d \in D : \E i \in 1..Len(f[d]) : f[d][i] \in S
    BY <2>1 DEF Dispersos, Posiciones
  <2>2. ASSUME NEW d \in D, NEW i \in 1..Len(f[d]), f[d][i] \in S PROVE Dispersos(f, S) # {}
    <3>1. <<d, i>> \in {d} \X Posiciones(f[d], S)
      BY <2>2 DEF Posiciones
    <3>2. <<d, i>> \in Dispersos(f, S)
      BY <3>1 DEF Dispersos
    <3>3. QED
      BY <3>2
  <2>3. QED
    BY <2>1, <2>2
<1>4. QED
  BY <1>2, <1>3

LEMMA CuentaEnIgual ==
  ASSUME NEW D, NEW T, NEW f \in [D -> Seq(T)], NEW S, NEW U, \A x \in T : x \in S <=> x \in U
  PROVE  CuentaEn(f, S) = CuentaEn(f, U)
<1>1. ASSUME NEW d \in D PROVE Posiciones(f[d], S) = Posiciones(f[d], U)
  <2>1. \A i \in 1..Len(f[d]) : f[d][i] \in T
    BY ElementOfSeq
  <2>2. QED
    BY <2>1 DEF Posiciones
<1>2. Dispersos(f, S) = Dispersos(f, U)
  BY <1>1 DEF Dispersos
<1>3. QED
  BY <1>2 DEF CuentaEn

LEMMA CuentaEnDisjuntos ==
  ASSUME NEW D, IsFiniteSet(D), NEW T, NEW f \in [D -> Seq(T)], NEW S, NEW U, S \cap U = {}
  PROVE  CuentaEn(f, S \cup U) = CuentaEn(f, S) + CuentaEn(f, U)
<1>1. Dispersos(f, S \cup U) = Dispersos(f, S) \cup Dispersos(f, U)
  BY DEF Dispersos, Posiciones
<1>2. Dispersos(f, S) \cap Dispersos(f, U) = {}
  BY DEF Dispersos, Posiciones
<1>3. IsFiniteSet(Dispersos(f, S)) /\ IsFiniteSet(Dispersos(f, U))
  BY DispersosFinitos
<1>4. QED
  BY <1>1, <1>2, <1>3, UnionDisjunta DEF CuentaEn

(* One sequence of the family is replaced by another.                      *)
Familia(f, D, T)   == f \in [D -> Seq(T)]
SoloEn(f, g, D, d) == d \in D /\ \A e \in D \ {d} : g[e] = f[e]

LEMMA CuentaEnCambia ==
  ASSUME NEW D, NEW T, NEW f, NEW g, NEW d, NEW S,
         IsFiniteSet(D), Familia(f, D, T), Familia(g, D, T), SoloEn(f, g, D, d)
  PROVE  CuentaEn(g, S) + Cuenta(f[d], S) = CuentaEn(f, S) + Cuenta(g[d], S)
<1> DEFINE Otros == UNION {{e} \X Posiciones(f[e], S) : e \in D \ {d}}
           F == {d} \X Posiciones(f[d], S)
           G == {d} \X Posiciones(g[d], S)
<1> USE DEF Familia, SoloEn
<1>1. Dispersos(f, S) = Otros \cup F
  BY DEF Dispersos
<1>2. Dispersos(g, S) = Otros \cup G
  <2>1. DOMAIN g = D /\ \A e \in D \ {d} : g[e] = f[e]
    OBVIOUS
  <2>2. Otros = UNION {{e} \X Posiciones(g[e], S) : e \in D \ {d}}
    BY <2>1
  <2>3. QED
    BY <2>1, <2>2 DEF Dispersos
<1>3. Otros \cap F = {} /\ Otros \cap G = {}
  OBVIOUS
<1>4. /\ IsFiniteSet(F) /\ Cardinality(F) = Cuenta(f[d], S)
      /\ IsFiniteSet(G) /\ Cardinality(G) = Cuenta(g[d], S)
  <2>1. IsFiniteSet(Posiciones(f[d], S)) /\ IsFiniteSet(Posiciones(g[d], S))
    BY PosicionesFinitas
  <2>2. IsFiniteSet({d}) /\ Cardinality({d}) = 1
    BY FS_Singleton
  <2>3. ASSUME NEW A, IsFiniteSet(A)
        PROVE  IsFiniteSet({d} \X A) /\ Cardinality({d} \X A) = Cardinality(A)
    <3>1. IsFiniteSet({d} \X A) /\ Cardinality({d} \X A) = Cardinality({d}) * Cardinality(A)
      BY <2>2, <2>3, FS_Product
    <3>2. Cardinality(A) \in Nat
      BY <2>3, FS_CardinalityType
    <3>3. QED
      BY <3>1, <3>2, <2>2
  <2>4. QED
    BY <2>1, <2>3 DEF Cuenta
<1>5. IsFiniteSet(Otros)
  BY <1>1, DispersosFinitos, FS_Subset
<1> HIDE DEF Otros, F, G
<1>6. Cardinality(Otros) \in Nat /\ Cardinality(F) \in Nat /\ Cardinality(G) \in Nat
  BY <1>4, <1>5, FS_CardinalityType
<1>7. CuentaEn(f, S) = Cardinality(Otros) + Cardinality(F)
  BY <1>1, <1>3, <1>4, <1>5, UnionDisjunta DEF CuentaEn
<1>8. CuentaEn(g, S) = Cardinality(Otros) + Cardinality(G)
  BY <1>2, <1>3, <1>4, <1>5, UnionDisjunta DEF CuentaEn
<1>9. QED
  BY <1>4, <1>6, <1>7, <1>8

(* The first element of one of them is taken, and others put in its place. *)
Pone(f, g, d, t) == f[d] # <<>> /\ g[d] = t \o Tail(f[d])

LEMMA CuentaEnSigue ==
  ASSUME NEW D, NEW T, NEW f, NEW g, NEW d, NEW S, NEW t \in Seq(T),
         IsFiniteSet(D), Familia(f, D, T), Familia(g, D, T), SoloEn(f, g, D, d), Pone(f, g, d, t)
  PROVE  CuentaEn(g, S) + Vale(Head(f[d]), S) = CuentaEn(f, S) + Cuenta(t, S)
<1> DEFINE s == Tail(f[d])
           x == Head(f[d])
<1>1. f[d] \in Seq(T) /\ x \in T /\ s \in Seq(T) /\ g[d] \in Seq(T)
  BY HeadTailProperties DEF Familia, SoloEn, Pone
<1>2. Cuenta(f[d], S) = Cuenta(s, S) + Vale(x, S)
  BY <1>1, CuentaResto DEF Pone
<1>3. g[d] = t \o s
  BY DEF Pone
<1> HIDE DEF s, x
<1>4. Cuenta(g[d], S) = Cuenta(t, S) + Cuenta(s, S)
  BY <1>1, <1>3, CuentaUnir
<1>5. CuentaEn(g, S) + Cuenta(f[d], S) = CuentaEn(f, S) + Cuenta(g[d], S)
  BY CuentaEnCambia
<1>6. Cuenta(f[d], S) \in Nat /\ Cuenta(s, S) \in Nat /\ Cuenta(g[d], S) \in Nat /\ Cuenta(t, S) \in Nat
  BY <1>1, CuentaNatural
<1>7. CuentaEn(f, S) \in Nat /\ CuentaEn(g, S) \in Nat
  BY CuentaEnNatural DEF Familia
<1>8. Vale(x, S) \in Nat
  BY ValeUnoOCero
<1>9. CuentaEn(g, S) + Vale(x, S) = CuentaEn(f, S) + Cuenta(t, S)
  <2> DEFINE cg == CuentaEn(g, S)
             cf == CuentaEn(f, S)
             ct == Cuenta(t, S)
             cs == Cuenta(s, S)
             vx == Vale(x, S)
  <2>1. cg + (cs + vx) = cf + (ct + cs)
    BY <1>2, <1>4, <1>5
  <2>2. cg \in Nat /\ cf \in Nat /\ ct \in Nat /\ cs \in Nat /\ vx \in Nat
    BY <1>6, <1>7, <1>8
  <2>3. cg + vx = cf + ct
    <3> HIDE DEF cg, cf, ct, cs, vx
    <3> QED
      BY <2>1, <2>2
  <2>4. QED
    BY <2>3
<1>10. QED
  BY <1>9 DEF x

LEMMA CuentaEnResto ==
  ASSUME NEW D, NEW T, NEW f, NEW g, NEW d, NEW S,
         IsFiniteSet(D), Familia(f, D, T), Familia(g, D, T), SoloEn(f, g, D, d), Pone(f, g, d, <<>>)
  PROVE  CuentaEn(g, S) + Vale(Head(f[d]), S) = CuentaEn(f, S)
<1> DEFINE t == <<>>
<1>1. t \in Seq(T) /\ Pone(f, g, d, t)
  OBVIOUS
<1>2. Cuenta(t, S) = 0 /\ CuentaEn(f, S) \in Nat
  BY CuentaVacia, CuentaEnNatural DEF Familia
<1> HIDE DEF t
<1>3. CuentaEn(g, S) + Vale(Head(f[d]), S) = CuentaEn(f, S) + Cuenta(t, S)
  BY <1>1, CuentaEnSigue
<1>4. QED
  BY <1>2, <1>3

LEMMA CuentaEnVacia ==
  ASSUME NEW D, IsFiniteSet(D), NEW S
  PROVE  CuentaEn([d \in D |-> <<>>], S) = 0
<1>1. Dispersos([d \in D |-> <<>>], S) = {}
  BY DEF Dispersos, Posiciones
<1>2. QED
  BY <1>1, FS_EmptySet DEF CuentaEn

-----------------------------------------------------------------------------

(* Where a process may be, counted.                                        *)
Admitida == {"READY", "EXEC", "BLOCKED", "PAGBLOCK"}

Ubica(o) ==
  \/ o.op \in {"push_colaCorto", "queue_push", "ordenar_adelante", "wait_recurso",
               "signal_recurso", "hilo_funcion", "planificador_largo_salida"}
  \/ o.op = "cambiar_estado" /\ o.arg = "TERMINATED"
Carga(o) == o.op \in {"push_colaLargo", "borrar_proceso"}

Contextos == [motivo : MotivosContexto, pid : Pids, pc : Int, arg : Args \cup {0}]
Pedidos   == [tipo : {"cargar", "cargar_pagina", "liberar_paginas"}, pid : Pids]

OpsDe(p)      == {o \in Conocidas : o.pid = p /\ Ubica(o)}
OpsDeCarga(p) == {o \in Conocidas : o.pid = p /\ Carga(o)}
EnHilos(p)    == CuentaEn(hilo, OpsDe(p))
EnCorto(p)    == Cuenta(colaCorto, {p})
EnEspera(p)   == CuentaEn(colaEspera, {p})
EnDespacho(p) == Cuenta(canalDespacho, {m \in MensajesDespacho : m.pid = p})
EnContexto(p) == Cuenta(canalContexto, {m \in Contextos : m.pid = p})
EnCamino(p)   == Uno(corto.pid = p)
EnCpu(p)      == Uno(CpuOcupada /\ proceso.pid = p)
Lugares(p)    == EnHilos(p) + EnCorto(p) + EnEspera(p) + EnDespacho(p) + EnContexto(p)
                 + EnCamino(p) + EnCpu(p)

CargaHilos(p)     == CuentaEn(hilo, OpsDeCarga(p))
EnLargo(p)        == Cuenta(colaLargo, {p})
EnMemoria(p)      == Cuenta(canalMemoria, {m \in Pedidos : m.tipo = "cargar" /\ m.pid = p})
EnAdmision(p)     == Uno(largo.pc = "admitir" /\ largo.pid = p)
LugaresDeCarga(p) == CargaHilos(p) + EnLargo(p) + EnMemoria(p) + EnAdmision(p)

Vivo(p)         == Uno(estado[p] \in Admitida)
Nuevo(p)        == Uno(estado[p] = "NEW")
LugaresContados == \A p \in Pids : Lugares(p) = Vivo(p) /\ LugaresDeCarga(p) = Nuevo(p)

(* Nothing interrupts the CPU.                                             *)
MotivosFIFO == {MotivoDe[x] : x \in Syscalls} \cup {"page_fault"}
SinDesalojo ==
  /\ algoritmo = "FIFO" /\ ~avisar /\ ~interrupcion /\ pedido \in {0, FdInterrupcion}
  /\ \A i \in 1..Len(canalInterrupcion) : canalInterrupcion[i].pid = FdInterrupcion
  /\ \A i \in 1..Len(canalContexto) : canalContexto[i].motivo \in MotivosFIFO
  /\ \A p \in Pids : relojes[p] = 0
  /\ corto.pc \in {"esperar", "lugar", "marcar", "ocupar", "enviar"}
  /\ cicloPc # "controlar" => ~bloquear

(* The process the CPU has, or is about to have or to leave.               *)
Procesos  == {m \in MensajesDespacho : m.tipo = "proceso"}
Ocupacion == ciclo + Uno(cicloPc = "ejecutar" \/ (cicloPc = "controlar" /\ ~bloquear))
CpuContada ==
  /\ Cuenta(canalDespacho, Procesos) + Ocupacion + Len(canalContexto)
       = Uno(ejecutandoB /\ corto.pc # "enviar")
  /\ corto.pc \in {"marcar", "ocupar"} => ~ejecutandoB
  /\ corto.pc = "enviar" => ejecutandoB

(* The answer the CPU waits for is on its way, once.                       *)
PorResponder     == CuentaEn(hilo, {responder})
EnRespuesta      == Cuenta(canalDespacho, {m \in MensajesDespacho : m.tipo = "respuesta"})
Debida           == Uno(bloquear)
RespuestaContada == Len(canalContexto) + PorResponder + EnRespuesta + respuesta = Debida

(* The load of a process, from the command to the answer the console waits *)
(* for.                                                                    *)
EnCarga == Cuenta(canalMemoria, {m \in Pedidos : m.tipo = "cargar"})
CargaEnOrden ==
  /\ creados \in Nat /\ \A p \in Pids : p > creados => estado[p] = "NULO"
  /\ \A i \in 1..Len(canalMemoria) : canalMemoria[i].tipo = "cargar" => canalMemoria[i].pid = creados
  /\ EnCarga + Uno(hilo["memoria"] # <<>>) + sem["procesoCargado"] = Uno(hilo["consola"] # <<>>)

(* The calls of each thread.                                               *)
Corriente(h, o) ==
  /\ o.op \notin {"push_si_EXEC", "push_colaLargo", "borrar_proceso", "despertar_largo"}
  /\ o.op = "wait_recurso" => h = "despacho"
  /\ o.op \in {"sem_post", "sem_wait"} => o.arg # "procesoCargado"
  /\ o.op = "planificador_largo_salida" => o.arg # "SIGKILL"
Cargado == sem_post("procesoCargado")
ListasDeMemoria(p) ==
  { <<>>, <<Cargado>>, <<Simple("despertar_largo", 0), Cargado>>,
    <<Simple("push_colaLargo", p), Simple("despertar_largo", 0), Cargado>>,
    <<Simple("borrar_proceso", p), Cargado>> }
Corrientes == Hilos \ {"consola", "memoria"}
HilosBien ==
  /\ hilo["consola"] \in {<<>>, <<sem_wait("procesoCargado")>>}
  /\ hilo["memoria"] \in ListasDeMemoria(creados)
  /\ \A h \in Corrientes : \A i \in 1..Len(hilo[h]) : Corriente(h, hilo[h][i])

(* What is removed from the queues is about to end; and a process whose    *)
(* state is about to be set is held by a later call of the same thread, or *)
(* it is one (of `libres`) that has just been left in a queue.             *)
Retira(o)        == o.op \in {"quitarCorto", "quitarLargo", "liberar_recursos"}
Acomoda(o)       == o.op = "cambiar_estado" /\ o.arg # "TERMINATED"
Luego(ops, i, S) == \E j \in (i + 1)..Len(ops) : ops[j] \in S
Seguida(ops, i, libres) ==
  /\ Retira(ops[i]) => Luego(ops, i, {cambiar_estado(ops[i].pid, "TERMINATED")})
  /\ Acomoda(ops[i]) => /\ ops[i].arg \in Admitida
                        /\ ops[i].pid \in libres \/ Luego(ops, i, OpsDe(ops[i].pid))
Encadenada(ops, libres) == \A i \in 1..Len(ops) : Seguida(ops, i, libres)
EnManosDeNadie == {p \in Pids : estado[p] \in Admitida /\ EnHilos(p) = 0}
LibresPara(h)  == IF h = "despacho" THEN EnManosDeNadie ELSE {}
Encadenadas    == \A h \in Corrientes : Encadenada(hilo[h], LibresPara(h))

FInv ==
  /\ PTypeOK /\ SinDesalojo /\ CpuContada /\ RespuestaContada /\ LugaresContados
  /\ CargaEnOrden /\ HilosBien /\ Encadenadas

-----------------------------------------------------------------------------
(* The numbers are natural.                                                *)
LEMMA HilosFinitos == IsFiniteSet(Hilos)
<1>1. IsFiniteSet({"despacho", "memoria", "consola"})
  <2>1. IsFiniteSet({"consola"})
    BY FS_Singleton
  <2>2. IsFiniteSet({"consola"} \cup {"memoria"})
    BY <2>1, FS_AddElement
  <2>3. IsFiniteSet(({"consola"} \cup {"memoria"}) \cup {"despacho"})
    BY <2>2, FS_AddElement
  <2>4. {"despacho", "memoria", "consola"} = ({"consola"} \cup {"memoria"}) \cup {"despacho"}
    OBVIOUS
  <2>5. QED
    BY <2>3, <2>4
<1>2. QED
  BY <1>1, PlanificacionAssumption, FS_Union DEF Hilos

LEMMA FamiliaHilo == ASSUME PTypeOK PROVE Familia(hilo, Hilos, Conocidas)
BY DEF PTypeOK, TipoHilos, Familia

LEMMA FamiliaEspera == ASSUME PTypeOK PROVE Familia(colaEspera, Recs, Pids) /\ IsFiniteSet(Recs)
BY RecursosAssumption DEF PTypeOK, RTypeOK, Familia

NumerosNaturales ==
  \A p \in Pids :
    /\ EnHilos(p) \in Nat /\ EnCorto(p) \in Nat /\ EnEspera(p) \in Nat
    /\ EnDespacho(p) \in Nat /\ EnContexto(p) \in Nat /\ EnCpu(p) \in Nat /\ EnCamino(p) \in Nat
    /\ CargaHilos(p) \in Nat /\ EnLargo(p) \in Nat /\ EnMemoria(p) \in Nat
    /\ EnAdmision(p) \in Nat

LEMMA LugaresNaturales == PTypeOK => NumerosNaturales
<1> SUFFICES ASSUME PTypeOK, NEW p \in Pids
             PROVE  /\ EnHilos(p) \in Nat /\ EnCorto(p) \in Nat /\ EnEspera(p) \in Nat
                    /\ EnDespacho(p) \in Nat /\ EnContexto(p) \in Nat /\ EnCpu(p) \in Nat /\ EnCamino(p) \in Nat
                    /\ CargaHilos(p) \in Nat /\ EnLargo(p) \in Nat /\ EnMemoria(p) \in Nat
                    /\ EnAdmision(p) \in Nat
  BY DEF NumerosNaturales
<1>1. /\ hilo \in [Hilos -> Seq(Conocidas)] /\ colaCorto \in Seq(Pids) /\ colaLargo \in Seq(Pids)
      /\ canalMemoria \in Seq(Pedidos) /\ canalDespacho \in Seq(MensajesDespacho)
      /\ canalContexto \in Seq(Contextos) /\ colaEspera \in [Recs -> Seq(Pids)]
  BY DEF PTypeOK, TipoHilos, TipoColas, CPUTypeOK, TipoCanales, RTypeOK, Pedidos, Contextos
<1>2. EnHilos(p) \in Nat /\ CargaHilos(p) \in Nat
  BY <1>1, HilosFinitos, CuentaEnNatural DEF EnHilos, CargaHilos
<1>3. EnEspera(p) \in Nat
  BY <1>1, RecursosAssumption, CuentaEnNatural DEF EnEspera
<1>4. EnCorto(p) \in Nat /\ EnLargo(p) \in Nat
  BY <1>1, CuentaNatural DEF EnCorto, EnLargo
<1>5. EnDespacho(p) \in Nat /\ EnContexto(p) \in Nat /\ EnMemoria(p) \in Nat
  BY <1>1, CuentaNatural DEF EnDespacho, EnContexto, EnMemoria
<1>6. EnCpu(p) \in Nat /\ EnAdmision(p) \in Nat /\ EnCamino(p) \in Nat
  BY DEF EnCpu, EnCamino, EnAdmision, Uno
<1>7. QED
  BY <1>2, <1>3, <1>4, <1>5, <1>6

LEMMA LugaresNaturalesDespues == PTypeOK' => NumerosNaturales'
BY LugaresNaturales, PTL

-----------------------------------------------------------------------------
(* What taking the first call of a thread, and putting others in its place,*)
(* does to the numbers.                                                    *)
LEMMA HiloCambia ==
  ASSUME PTypeOK, PTypeOK', NEW h \in Hilos, hilo[h] # <<>>, NEW ops \in Seq(Conocidas), NEW S,
         hilo' = [hilo EXCEPT ![h] = ops \o Tail(@)]
  PROVE  CuentaEn(hilo', S) + Vale(Head(hilo[h]), S) = CuentaEn(hilo, S) + Cuenta(ops, S)
<1>1. Familia(hilo, Hilos, Conocidas) /\ Familia(hilo', Hilos, Conocidas)
  BY DEF PTypeOK, TipoHilos, Familia
<1>2. SoloEn(hilo, hilo', Hilos, h) /\ Pone(hilo, hilo', h, ops)
  BY DEF PTypeOK, TipoHilos, SoloEn, Pone
<1>3. QED
  BY <1>1, <1>2, HilosFinitos, CuentaEnSigue

LEMMA HiloAvanza ==
  ASSUME PTypeOK, PTypeOK', NEW h \in Hilos, hilo[h] # <<>>, NEW S, Avanza(h)
  PROVE  CuentaEn(hilo', S) + Vale(Head(hilo[h]), S) = CuentaEn(hilo, S)
<1>1. Familia(hilo, Hilos, Conocidas) /\ Familia(hilo', Hilos, Conocidas)
  BY DEF PTypeOK, TipoHilos, Familia
<1>2. SoloEn(hilo, hilo', Hilos, h) /\ Pone(hilo, hilo', h, <<>>)
  <2>1. hilo' = [hilo EXCEPT ![h] = Tail(@)] /\ hilo[h] \in Seq(Conocidas)
    BY DEF PTypeOK, TipoHilos, Avanza
  <2>2. <<>> \o Tail(hilo[h]) = Tail(hilo[h])
    BY <2>1
  <2>3. QED
    BY <2>1, <2>2 DEF PTypeOK, TipoHilos, SoloEn, Pone
<1>3. QED
  BY <1>1, <1>2, HilosFinitos, CuentaEnResto

(* What a list of calls brings: one that holds q, or none.                 *)
Trae(ops, q) ==
  \E k \in 1..Len(ops) :
    /\ ops[k].pid = q /\ Ubica(ops[k])
    /\ \A i \in 1..Len(ops) : i # k => ~Ubica(ops[i])
NoTrae(ops)    == \A i \in 1..Len(ops) : ~Ubica(ops[i])
SinCarga(ops)  == \A i \in 1..Len(ops) : ~Carga(ops[i])

LEMMA TraeCuenta ==
  ASSUME NEW ops \in Seq(Conocidas), NEW q, Trae(ops, q), NEW p \in Pids
  PROVE  Cuenta(ops, OpsDe(p)) = Uno(q = p)
<1>1. PICK k \in 1..Len(ops) : /\ ops[k].pid = q /\ Ubica(ops[k])
                               /\ \A i \in 1..Len(ops) : i # k => ~Ubica(ops[i])
  BY DEF Trae
<1>2. \A i \in 1..Len(ops) : ops[i] \in Conocidas
  BY ElementOfSeq
<1>3. CASE q = p
  <2>1. ops[k] \in OpsDe(p) /\ \A i \in 1..Len(ops) : ops[i] \in OpsDe(p) => i = k
    BY <1>1, <1>2, <1>3 DEF OpsDe
  <2>2. QED
    BY <2>1, <1>3, CuentaUnica DEF Uno
<1>4. CASE q # p
  <2>1. \A i \in 1..Len(ops) : ops[i] \notin OpsDe(p)
    BY <1>1, <1>4 DEF OpsDe
  <2>2. QED
    BY <2>1, <1>4, CuentaNinguna DEF Uno
<1>5. QED
  BY <1>3, <1>4

LEMMA NoTraeCuenta ==
  ASSUME NEW ops, NoTrae(ops), NEW p \in Pids
  PROVE  Cuenta(ops, OpsDe(p)) = 0
<1>1. \A i \in 1..Len(ops) : ops[i] \notin OpsDe(p)
  BY DEF OpsDe, NoTrae
<1>2. QED
  BY <1>1, CuentaNinguna

LEMMA SinCargaCuenta ==
  ASSUME NEW ops, SinCarga(ops), NEW p \in Pids
  PROVE  Cuenta(ops, OpsDeCarga(p)) = 0
<1>1. \A i \in 1..Len(ops) : ops[i] \notin OpsDeCarga(p)
  BY DEF OpsDeCarga, SinCarga
<1>2. QED
  BY <1>1, CuentaNinguna

(* The first call of h holds p, or loads it.                               *)
Sostiene(h, p) == Uno(De(h) = p /\ Ubica(Head(hilo[h])))
Trata(h, p)    == Uno(De(h) = p /\ Carga(Head(hilo[h])))

LEMMA CabezaVale ==
  ASSUME PTypeOK, NEW h \in Hilos, hilo[h] # <<>>, NEW p \in Pids
  PROVE  /\ Vale(Head(hilo[h]), OpsDe(p)) = Sostiene(h, p)
         /\ Vale(Head(hilo[h]), OpsDeCarga(p)) = Trata(h, p)
<1>1. Head(hilo[h]) \in Conocidas
  BY CabezaConocida DEF PTypeOK
<1>2. QED
  BY <1>1 DEF Vale, Uno, OpsDe, OpsDeCarga, De, Sostiene, Trata

LEMMA AvanzaLugares ==
  ASSUME PTypeOK, PTypeOK', NEW h \in Hilos, hilo[h] # <<>>, Avanza(h), NEW p \in Pids
  PROVE  /\ EnHilos(p)' + Sostiene(h, p) = EnHilos(p)
         /\ CargaHilos(p)' + Trata(h, p) = CargaHilos(p)
<1>1. /\ CuentaEn(hilo', OpsDe(p)) + Vale(Head(hilo[h]), OpsDe(p)) = CuentaEn(hilo, OpsDe(p))
      /\ CuentaEn(hilo', OpsDeCarga(p)) + Vale(Head(hilo[h]), OpsDeCarga(p))
         = CuentaEn(hilo, OpsDeCarga(p))
  BY HiloAvanza
<1>2. QED
  BY <1>1, CabezaVale DEF EnHilos, CargaHilos

LEMMA SigueLugares ==
  ASSUME PTypeOK, PTypeOK', NEW h \in Hilos, hilo[h] # <<>>, NEW ops \in Seq(Conocidas),
         Sigue(h, ops), SinCarga(ops), NEW p \in Pids
  PROVE  /\ EnHilos(p)' + Sostiene(h, p)
            = EnHilos(p) + Cuenta(ops, OpsDe(p))
         /\ CargaHilos(p)' + Trata(h, p) = CargaHilos(p)
<1>1. hilo' = [hilo EXCEPT ![h] = ops \o Tail(@)]
  BY DEF Sigue
<1>2. /\ CuentaEn(hilo', OpsDe(p)) + Vale(Head(hilo[h]), OpsDe(p))
         = CuentaEn(hilo, OpsDe(p)) + Cuenta(ops, OpsDe(p))
      /\ CuentaEn(hilo', OpsDeCarga(p)) + Vale(Head(hilo[h]), OpsDeCarga(p))
         = CuentaEn(hilo, OpsDeCarga(p)) + Cuenta(ops, OpsDeCarga(p))
  BY <1>1, HiloCambia
<1>3. Cuenta(ops, OpsDeCarga(p)) = 0
  BY SinCargaCuenta
<1>4. CargaHilos(p) \in Nat
  BY LugaresNaturales DEF NumerosNaturales
<1>5. QED
  BY <1>2, <1>3, <1>4, CabezaVale DEF EnHilos, CargaHilos

-----------------------------------------------------------------------------
(* What a call does to the places of p: each is counted as it should,      *)
(* nothing takes hold of a process left in a queue, and only a live one    *)
(* goes from one state to another.                                         *)
Mudado(p) ==
  \/ estado'[p] = estado[p]
  \/ estado[p] \in Admitida /\ estado'[p] \in Admitida \cup {"TERMINATED"}
  \/ estado[p] = "NEW" /\ estado'[p] = "NULO"
Tras(p) ==
  /\ Lugares(p)' = Vivo(p)' /\ LugaresDeCarga(p)' = Nuevo(p)'
  /\ p \in EnManosDeNadie => p \in EnManosDeNadie'
  /\ Mudado(p) /\ EnDespacho(p)' = EnDespacho(p)

LEMMA FijoLugares ==
  ASSUME FijoEnLlamadas, NEW p
  PROVE  /\ EnContexto(p)' = EnContexto(p) /\ EnCamino(p)' = EnCamino(p)
         /\ EnCpu(p)' = EnCpu(p) /\ EnAdmision(p)' = EnAdmision(p)
BY DEF FijoEnLlamadas, cortoVar, nucleo, EnContexto, EnCpu, EnCamino, EnAdmision, CpuOcupada

LEMMA SumaDeSiete ==
  ASSUME NEW a \in Nat, NEW b \in Nat, NEW c \in Nat, NEW d \in Nat, NEW e \in Nat, NEW f \in Nat,
         NEW g \in Nat, a + b + c + d + e + f + g \in {0, 1}
  PROVE  a > 0 => a = 1 /\ b = 0 /\ c = 0 /\ d = 0 /\ e = 0 /\ f = 0 /\ g = 0
OBVIOUS

LEMMA SumaDeCuatro ==
  ASSUME NEW a \in Nat, NEW b \in Nat, NEW c \in Nat, NEW d \in Nat, a + b + c + d = 0
  PROVE  a = 0 /\ b = 0 /\ c = 0 /\ d = 0
OBVIOUS

(* A live process is in one place, and a new one waits to be admitted.     *)
LEMMA Lugar ==
  ASSUME PTypeOK, LugaresContados, NEW p \in Pids
  PROVE  /\ EnHilos(p) > 0 => estado[p] \in Admitida
         /\ Lugares(p) \in {0, 1} /\ LugaresDeCarga(p) \in {0, 1}
         /\ EnHilos(p) > 0 => /\ EnHilos(p) = 1 /\ EnCorto(p) = 0 /\ EnEspera(p) = 0
                              /\ EnLargo(p) = 0 /\ estado[p] \in Admitida
<1>1. Lugares(p) = Vivo(p) /\ LugaresDeCarga(p) = Nuevo(p)
  BY DEF LugaresContados
<1>2. /\ Vivo(p) \in {0, 1} /\ Nuevo(p) \in {0, 1}
      /\ Vivo(p) = 1 => estado[p] \in Admitida
      /\ estado[p] \in Admitida => Nuevo(p) = 0
  BY DEF Uno, Vivo, Nuevo, Admitida
<1>3. /\ EnHilos(p) \in Nat /\ EnCorto(p) \in Nat /\ EnEspera(p) \in Nat
      /\ EnDespacho(p) \in Nat /\ EnContexto(p) \in Nat /\ EnCpu(p) \in Nat /\ EnCamino(p) \in Nat
      /\ CargaHilos(p) \in Nat /\ EnLargo(p) \in Nat /\ EnMemoria(p) \in Nat
      /\ EnAdmision(p) \in Nat
  BY LugaresNaturales DEF NumerosNaturales
<1>4. Lugares(p) \in {0, 1} /\ LugaresDeCarga(p) \in {0, 1}
  BY <1>1, <1>2
<1>5. EnHilos(p) > 0 =>
        /\ EnHilos(p) = 1 /\ EnCorto(p) = 0 /\ EnEspera(p) = 0 /\ EnDespacho(p) = 0
        /\ EnContexto(p) = 0 /\ EnCamino(p) = 0 /\ EnCpu(p) = 0
  BY <1>3, <1>4, SumaDeSiete DEF Lugares
<1>6. LugaresDeCarga(p) = 0 => EnLargo(p) = 0
  BY <1>3, SumaDeCuatro DEF LugaresDeCarga
<1>7. EnHilos(p) > 0 => Lugares(p) = 1
  BY <1>5 DEF Lugares
<1>8. QED
  BY <1>1, <1>2, <1>4, <1>5, <1>6, <1>7

-----------------------------------------------------------------------------
(* What follows a call, when the list loses its first call, grows at its   *)
(* end or is put before another.                                           *)
LEMMA LuegoResto ==
  ASSUME NEW s \in Seq(Conocidas), s # <<>>, NEW i \in 1..Len(Tail(s)), NEW S
  PROVE  Luego(s, i + 1, S) => Luego(Tail(s), i, S)
<1>1. /\ Len(s) \in Nat /\ Len(Tail(s)) = Len(s) - 1
      /\ \A j \in 1..Len(Tail(s)) : Tail(s)[j] = s[j + 1]
  BY HeadTailProperties
<1>2. ASSUME NEW j \in (i + 2)..Len(s), s[j] \in S
      PROVE  Luego(Tail(s), i, S)
  <2>1. j - 1 \in (i + 1)..Len(Tail(s)) /\ j - 1 \in 1..Len(Tail(s))
    BY <1>1
  <2>2. Tail(s)[j - 1] = s[j]
    BY <1>1, <2>1
  <2>3. QED
    BY <1>2, <2>1, <2>2 DEF Luego
<1>3. QED
  BY <1>2 DEF Luego

LEMMA EncadenadaResto ==
  ASSUME NEW s \in Seq(Conocidas), s # <<>>, NEW L, Encadenada(s, L)
  PROVE  Encadenada(Tail(s), L)
<1>1. /\ Len(s) \in Nat /\ Len(Tail(s)) = Len(s) - 1
      /\ \A j \in 1..Len(Tail(s)) : Tail(s)[j] = s[j + 1]
  BY HeadTailProperties
<1>2. ASSUME NEW i \in 1..Len(Tail(s))
      PROVE  Seguida(Tail(s), i, L)
  <2>1. i + 1 \in 1..Len(s) /\ Tail(s)[i] = s[i + 1]
    BY <1>1
  <2>2. Seguida(s, i + 1, L)
    BY <2>1 DEF Encadenada
  <2>3. \A S : Luego(s, i + 1, S) => Luego(Tail(s), i, S)
    BY LuegoResto
  <2>4. QED
    BY <2>1, <2>2, <2>3 DEF Seguida
<1>3. QED
  BY <1>2 DEF Encadenada

LEMMA LuegoUnir ==
  ASSUME NEW s \in Seq(Conocidas), NEW t \in Seq(Conocidas), NEW S
  PROVE  /\ \A i \in 1..Len(s) : Luego(s, i, S) => Luego(s \o t, i, S)
         /\ \A i \in 1..Len(t) : Luego(t, i, S) => Luego(s \o t, i + Len(s), S)
<1>1. /\ Len(s) \in Nat /\ Len(t) \in Nat /\ Len(s \o t) = Len(s) + Len(t)
      /\ \A i \in 1..Len(s) : (s \o t)[i] = s[i]
      /\ \A i \in 1..Len(t) : (s \o t)[i + Len(s)] = t[i]
  BY ConcatProperties
<1>2. ASSUME NEW i \in 1..Len(s), NEW j \in (i + 1)..Len(s), s[j] \in S
      PROVE  Luego(s \o t, i, S)
  <2>1. j \in (i + 1)..Len(s \o t) /\ (s \o t)[j] \in S
    BY <1>1, <1>2
  <2>2. QED
    BY <2>1 DEF Luego
<1>3. ASSUME NEW i \in 1..Len(t), NEW j \in (i + 1)..Len(t), t[j] \in S
      PROVE  Luego(s \o t, i + Len(s), S)
  <2>1. j + Len(s) \in (i + Len(s) + 1)..Len(s \o t) /\ (s \o t)[j + Len(s)] \in S
    BY <1>1, <1>3
  <2>2. QED
    BY <2>1 DEF Luego
<1>4. QED
  BY <1>2, <1>3 DEF Luego

LEMMA EncadenadaUnir ==
  ASSUME NEW s \in Seq(Conocidas), NEW t \in Seq(Conocidas), NEW L,
         Encadenada(s, L), Encadenada(t, L)
  PROVE  Encadenada(s \o t, L)
<1>1. /\ Len(s) \in Nat /\ Len(t) \in Nat /\ Len(s \o t) = Len(s) + Len(t)
      /\ \A i \in 1..Len(s) : (s \o t)[i] = s[i]
      /\ \A i \in 1..Len(t) : (s \o t)[i + Len(s)] = t[i]
  BY ConcatProperties
<1>2. ASSUME NEW i \in 1..Len(s)
      PROVE  Seguida(s \o t, i, L)
  <2>1. Seguida(s, i, L) /\ (s \o t)[i] = s[i]
    BY <1>1 DEF Encadenada
  <2>2. \A S : Luego(s, i, S) => Luego(s \o t, i, S)
    BY LuegoUnir
  <2>3. QED
    BY <2>1, <2>2 DEF Seguida
<1>3. ASSUME NEW i \in 1..Len(t)
      PROVE  Seguida(s \o t, i + Len(s), L)
  <2>1. Seguida(t, i, L) /\ (s \o t)[i + Len(s)] = t[i]
    BY <1>1 DEF Encadenada
  <2>2. \A S : Luego(t, i, S) => Luego(s \o t, i + Len(s), S)
    BY LuegoUnir
  <2>3. QED
    BY <2>1, <2>2 DEF Seguida
<1>4. ASSUME NEW k \in 1..Len(s \o t)
      PROVE  Seguida(s \o t, k, L)
  <2>1. CASE k \in 1..Len(s)
    BY <1>2, <2>1
  <2>2. CASE k \notin 1..Len(s)
    <3>1. k - Len(s) \in 1..Len(t) /\ (k - Len(s)) + Len(s) = k
      BY <1>1, <2>2
    <3>2. QED
      BY <1>3, <3>1
  <2>3. QED
    BY <2>1, <2>2
<1>5. QED
  BY <1>4 DEF Encadenada

LEMMA EncadenadaMayor ==
  ASSUME NEW s, NEW L, NEW M, L \subseteq M, Encadenada(s, L)
  PROVE  Encadenada(s, M)
BY DEF Encadenada, Seguida

(* A list that neither removes nor changes a state needs nothing after it. *)
LEMMA EncadenadaSimple ==
  ASSUME NEW s, NEW L, \A i \in 1..Len(s) : ~Retira(s[i]) /\ ~Acomoda(s[i])
  PROVE  Encadenada(s, L)
BY DEF Encadenada, Seguida

-----------------------------------------------------------------------------
(* The lists a thread starts with.  Each holds the process, once, in calls *)
(* that are ordinary and well chained; that of a context answers the CPU.  *)
Responde(ops)    == \E k \in 1..Len(ops) : /\ ops[k] = responder
                                           /\ \A i \in 1..Len(ops) : ops[i] = responder => i = k
NoResponde(ops)  == \A i \in 1..Len(ops) : ops[i] # responder
Comunes(h, ops)  == \A i \in 1..Len(ops) : Corriente(h, ops[i])
EnOrden(h, ops, p) == Comunes(h, ops) /\ Encadenada(ops, {}) /\ Trae(ops, p)

LEMMA ColaDeSalidaEnOrden ==
  ASSUME NEW p \in Pids, NEW e, e # "NEW", NEW h
  PROVE  EnOrden(h, ColaDeSalida(p, e), p) /\ NoResponde(ColaDeSalida(p, e))
<1> DEFINE s == ColaDeSalida(p, e)
<1>1. /\ Len(s) = 8
      /\ s[1] = Simple("quitarCorto", p) /\ s[2] = Simple("quitarLargo", p)
      /\ s[3] = Simple("liberar_recursos", p) /\ s[4] = Simple("liberar_paginas", p)
      /\ s[5] = sem_wait("paginasLiberadas") /\ s[6] = cambiar_estado(p, "TERMINATED")
      /\ s[7] = Simple("bajar_multi", p) /\ s[8] = sem_post("planiLargo")
  BY DEF ColaDeSalida
<1> HIDE DEF s
<1>2. \A i \in 1..Len(s) : i \in {1, 2, 3, 4, 5, 6, 7, 8}
  BY <1>1
<1>3. Comunes(h, s) /\ NoResponde(s)
  BY <1>1, <1>2 DEF Comunes, NoResponde, Corriente, Op, Simple, sem_wait, sem_post, cambiar_estado, responder
<1>4. Trae(s, p)
  BY <1>1, <1>2 DEF Trae, Ubica, Op, Simple, sem_wait, sem_post, cambiar_estado
<1>5. \A i \in 1..Len(s) : ~Acomoda(s[i]) /\ (Retira(s[i]) => i \in 1..3 /\ s[i].pid = p)
  BY <1>1, <1>2 DEF Acomoda, Retira, Op, Simple, sem_wait, sem_post, cambiar_estado
<1>6. \A i \in 1..3 : Luego(s, i, {cambiar_estado(p, "TERMINATED")})
  BY <1>1 DEF Luego
<1>7. Encadenada(s, {})
  BY <1>5, <1>6 DEF Encadenada, Seguida
<1>8. QED
  BY <1>3, <1>4, <1>7 DEF s, EnOrden

(* What holds p is among the calls known to hold it.                       *)
LEMMA Sostienen ==
  ASSUME NEW p \in Pids
  PROVE  /\ Simple("push_colaCorto", p) \in OpsDe(p) /\ Simple("ordenar_adelante", p) \in OpsDe(p)
         /\ salida(p, "INVALID_WRITE") \in OpsDe(p)
         /\ \A a \in Args \cup {0} : /\ Op("wait_recurso", p, a) \in OpsDe(p)
                                     /\ Op("signal_recurso", p, a) \in OpsDe(p)
         /\ hilo_funcion(p, "sleep_proceso") \in OpsDe(p)
BY OpsConocidas, OpsSimples DEF OpsDe, Ubica, Op, Simple, salida, hilo_funcion

LEMMA RutinaEnOrden ==
  ASSUME NEW p \in Pids, NEW h, NEW ops,
         NEW f \in {"sleep_proceso", "page_fault", "f_write", "f_truncate"}, ops \in Rutinas(f, p)
  PROVE  EnOrden(h, ops, p) /\ NoResponde(ops)
<1>1. CASE f = "sleep_proceso"
  <2>1. /\ Len(ops) = 3 /\ ops[1] = cambiar_estado(p, "BLOCKED")
        /\ ops[2] = push_colaCorto(p) /\ ops[3] = sem_post("planiCorto")
    BY <1>1 DEF Rutinas, sleep_proceso, Volver
  <2>2. \A i \in 1..Len(ops) : i \in {1, 2, 3}
    BY <2>1
  <2>3. Comunes(h, ops) /\ NoResponde(ops)
    BY <2>1, <2>2 DEF Comunes, NoResponde, Corriente, Op, Simple, sem_post, push_colaCorto, cambiar_estado,
                      responder
  <2>4. Trae(ops, p)
    BY <2>1, <2>2 DEF Trae, Ubica, Op, Simple, sem_post, push_colaCorto, cambiar_estado
  <2>5. Luego(ops, 1, OpsDe(p))
    BY <2>1, Sostienen DEF Luego, push_colaCorto
  <2>6. \A i \in 1..Len(ops) : ~Retira(ops[i]) /\ (Acomoda(ops[i]) => i = 1)
    BY <2>1, <2>2 DEF Acomoda, Retira, Op, Simple, sem_post, push_colaCorto, cambiar_estado
  <2>7. ops[1].arg \in Admitida /\ ops[1].pid = p
    BY <2>1 DEF Admitida, cambiar_estado, Op, Simple
  <2>8. Encadenada(ops, {})
    BY <2>5, <2>6, <2>7 DEF Encadenada, Seguida
  <2>9. QED
    BY <2>3, <2>4, <2>8 DEF EnOrden
<1>2. CASE f = "page_fault"
  <2>1. /\ Len(ops) = 5 /\ ops[1] = cambiar_estado(p, "PAGBLOCK")
        /\ ops[2] = Simple("cargar_pagina", p) /\ ops[3] = sem_wait("paginaCargada")
        /\ ops[4] = push_colaCorto(p) /\ ops[5] = sem_post("planiCorto")
    BY <1>2 DEF Rutinas, page_fault, Volver
  <2>2. \A i \in 1..Len(ops) : i \in {1, 2, 3, 4, 5}
    BY <2>1
  <2>3. Comunes(h, ops) /\ NoResponde(ops)
    BY <2>1, <2>2 DEF Comunes, NoResponde, Corriente, Op, Simple, sem_post, sem_wait, push_colaCorto,
                      cambiar_estado, responder
  <2>4. Trae(ops, p)
    BY <2>1, <2>2 DEF Trae, Ubica, Op, Simple, sem_post, sem_wait, push_colaCorto, cambiar_estado
  <2>5. Luego(ops, 1, OpsDe(p))
    BY <2>1, Sostienen DEF Luego, push_colaCorto
  <2>6. \A i \in 1..Len(ops) : ~Retira(ops[i]) /\ (Acomoda(ops[i]) => i = 1)
    BY <2>1, <2>2 DEF Acomoda, Retira, Op, Simple, sem_post, sem_wait, push_colaCorto, cambiar_estado
  <2>7. ops[1].arg \in Admitida /\ ops[1].pid = p
    BY <2>1 DEF Admitida, cambiar_estado, Op, Simple
  <2>8. Encadenada(ops, {})
    BY <2>5, <2>6, <2>7 DEF Encadenada, Seguida
  <2>9. QED
    BY <2>3, <2>4, <2>8 DEF EnOrden
<1>3. CASE f \in {"f_write", "f_truncate"}
           /\ ops = <<cambiar_estado(p, "BLOCKED"), sem_post("planiCorto")>> \o Volver(p)
  <2>1. /\ Len(ops) = 4 /\ ops[1] = cambiar_estado(p, "BLOCKED")
        /\ ops[2] = sem_post("planiCorto")
        /\ ops[3] = push_colaCorto(p) /\ ops[4] = sem_post("planiCorto")
    BY <1>3 DEF Volver
  <2>2. \A i \in 1..Len(ops) : i \in {1, 2, 3, 4}
    BY <2>1
  <2>3. Comunes(h, ops) /\ NoResponde(ops)
    BY <2>1, <2>2 DEF Comunes, NoResponde, Corriente, Op, Simple, sem_post, push_colaCorto,
                      cambiar_estado, responder
  <2>4. Trae(ops, p)
    BY <2>1, <2>2 DEF Trae, Ubica, Op, Simple, sem_post, push_colaCorto, cambiar_estado
  <2>5. Luego(ops, 1, OpsDe(p))
    BY <2>1, Sostienen DEF Luego, push_colaCorto
  <2>6. \A i \in 1..Len(ops) : ~Retira(ops[i]) /\ (Acomoda(ops[i]) => i = 1)
    BY <2>1, <2>2 DEF Acomoda, Retira, Op, Simple, sem_post, push_colaCorto, cambiar_estado
  <2>7. ops[1].arg \in Admitida /\ ops[1].pid = p
    BY <2>1 DEF Admitida, cambiar_estado, Op, Simple
  <2>8. Encadenada(ops, {})
    BY <2>5, <2>6, <2>7 DEF Encadenada, Seguida
  <2>9. QED
    BY <2>3, <2>4, <2>8 DEF EnOrden
<1>4. CASE f = "f_write" /\ ops = <<cambiar_estado(p, "BLOCKED"), salida(p, "INVALID_WRITE")>>
  <2>1. /\ Len(ops) = 2 /\ ops[1] = cambiar_estado(p, "BLOCKED")
        /\ ops[2] = salida(p, "INVALID_WRITE")
    BY <1>4
  <2>2. \A i \in 1..Len(ops) : i \in {1, 2}
    BY <2>1
  <2>3. Comunes(h, ops) /\ NoResponde(ops)
    BY <2>1, <2>2 DEF Comunes, NoResponde, Corriente, Op, Simple, salida, cambiar_estado, responder
  <2>4. Trae(ops, p)
    BY <2>1, <2>2 DEF Trae, Ubica, Op, Simple, salida, cambiar_estado
  <2>5. Luego(ops, 1, OpsDe(p))
    BY <2>1, Sostienen DEF Luego
  <2>6. \A i \in 1..Len(ops) : ~Retira(ops[i]) /\ (Acomoda(ops[i]) => i = 1)
    BY <2>1, <2>2 DEF Acomoda, Retira, Op, Simple, salida, cambiar_estado
  <2>7. ops[1].arg \in Admitida /\ ops[1].pid = p
    BY <2>1 DEF Admitida, cambiar_estado, Op, Simple
  <2>8. Encadenada(ops, {})
    BY <2>5, <2>6, <2>7 DEF Encadenada, Seguida
  <2>9. QED
    BY <2>3, <2>4, <2>8 DEF EnOrden
<1>5. QED
  BY <1>1, <1>2, <1>3, <1>4 DEF Rutinas, f_truncate, f_write

LEMMA AtencionEnOrden ==
  ASSUME NEW p \in Pids, NEW razon \in MotivosFIFO, NEW arg \in Args \cup {0}
  PROVE  EnOrden("despacho", Atencion(razon, p, arg), p) /\ Responde(Atencion(razon, p, arg))
<1> DEFINE s == Atencion(razon, p, arg)
<1>1. razon \in {"sleep", "wait", "signal", "f_seek", "f_write", "f_truncate", "procesoExit",
                 "page_fault"}
  BY DEF MotivosFIFO, MotivoDe, Syscalls
<1>2. CASE razon = "procesoExit"
  <2>1. Len(s) = 2 /\ s[1] = salida(p, "SUCCESS") /\ s[2] = responder
    BY <1>2 DEF Atencion
  <2> HIDE DEF s
  <2>2. \A i \in 1..Len(s) : i \in {1, 2}
    BY <2>1
  <2>3. Comunes("despacho", s) /\ Responde(s)
    BY <2>1, <2>2 DEF Comunes, Responde, Corriente, Op, Simple, salida, responder
  <2>4. Trae(s, p)
    BY <2>1, <2>2 DEF Trae, Ubica, Op, Simple, salida, responder
  <2>5. \A i \in 1..Len(s) : ~Retira(s[i]) /\ ~Acomoda(s[i])
    BY <2>1, <2>2 DEF Acomoda, Retira, Op, Simple, salida, responder
  <2>6. QED
    BY <2>3, <2>4, <2>5, EncadenadaSimple DEF s, EnOrden
<1>3. CASE razon = "page_fault"
  <2>1. /\ Len(s) = 3 /\ s[1] = hilo_funcion(p, "page_fault") /\ s[2] = responder
        /\ s[3] = sem_post("planiCorto")
    BY <1>3 DEF Atencion
  <2> HIDE DEF s
  <2>2. \A i \in 1..Len(s) : i \in {1, 2, 3}
    BY <2>1
  <2>3. Comunes("despacho", s) /\ Responde(s)
    BY <2>1, <2>2 DEF Comunes, Responde, Corriente, Op, Simple, hilo_funcion, sem_post, responder
  <2>4. Trae(s, p)
    BY <2>1, <2>2 DEF Trae, Ubica, Op, Simple, hilo_funcion, sem_post, responder
  <2>5. \A i \in 1..Len(s) : ~Retira(s[i]) /\ ~Acomoda(s[i])
    BY <2>1, <2>2 DEF Acomoda, Retira, Op, Simple, hilo_funcion, sem_post, responder
  <2>6. QED
    BY <2>3, <2>4, <2>5, EncadenadaSimple DEF s, EnOrden
<1>4. CASE razon \in {"f_write", "f_truncate"}
  <2>1. Len(s) = 2 /\ s[1] = hilo_funcion(p, razon) /\ s[2] = responder
    BY <1>4 DEF Atencion
  <2> HIDE DEF s
  <2>2. \A i \in 1..Len(s) : i \in {1, 2}
    BY <2>1
  <2>3. Comunes("despacho", s) /\ Responde(s)
    BY <2>1, <2>2 DEF Comunes, Responde, Corriente, Op, Simple, hilo_funcion, responder
  <2>4. Trae(s, p)
    BY <2>1, <2>2 DEF Trae, Ubica, Op, Simple, hilo_funcion, responder
  <2>5. \A i \in 1..Len(s) : ~Retira(s[i]) /\ ~Acomoda(s[i])
    BY <2>1, <2>2 DEF Acomoda, Retira, Op, Simple, hilo_funcion, responder
  <2>6. QED
    BY <2>3, <2>4, <2>5, EncadenadaSimple DEF s, EnOrden
<1>5. CASE razon = "wait"
  <2>1. /\ Len(s) = 3 /\ s[1] = cambiar_estado(p, "READY") /\ s[2] = Op("wait_recurso", p, arg)
        /\ s[3] = responder
    BY <1>5 DEF Atencion
  <2> HIDE DEF s
  <2>2. \A i \in 1..Len(s) : i \in {1, 2, 3}
    BY <2>1
  <2>3. Comunes("despacho", s) /\ Responde(s)
    BY <2>1, <2>2 DEF Comunes, Responde, Corriente, Op, Simple, cambiar_estado, responder
  <2>4. Trae(s, p)
    BY <2>1, <2>2 DEF Trae, Ubica, Op, Simple, cambiar_estado, responder
  <2>5. Luego(s, 1, OpsDe(p))
    BY <2>1, Sostienen DEF Luego
  <2>6. \A i \in 1..Len(s) : ~Retira(s[i]) /\ (Acomoda(s[i]) => i = 1)
    BY <2>1, <2>2 DEF Acomoda, Retira, Op, Simple, cambiar_estado, responder
  <2>7. s[1].arg \in Admitida /\ s[1].pid = p
    BY <2>1 DEF Admitida, cambiar_estado, Op
  <2>8. Encadenada(s, {})
    BY <2>5, <2>6, <2>7 DEF Encadenada, Seguida
  <2>9. QED
    BY <2>3, <2>4, <2>8 DEF s, EnOrden
<1>6. CASE razon = "sleep"
  <2>1. /\ Len(s) = 4 /\ s[1] = cambiar_estado(p, "READY") /\ s[2] = sem_post("planiCorto")
        /\ s[3] = hilo_funcion(p, "sleep_proceso") /\ s[4] = responder
    BY <1>6 DEF Atencion
  <2> HIDE DEF s
  <2>2. \A i \in 1..Len(s) : i \in {1, 2, 3, 4}
    BY <2>1
  <2>3. Comunes("despacho", s) /\ Responde(s)
    BY <2>1, <2>2 DEF Comunes, Responde, Corriente, Op, Simple, cambiar_estado, responder, hilo_funcion, sem_post
  <2>4. Trae(s, p)
    BY <2>1, <2>2 DEF Trae, Ubica, Op, Simple, cambiar_estado, responder, hilo_funcion, sem_post
  <2>5. Luego(s, 1, OpsDe(p))
    BY <2>1, Sostienen DEF Luego
  <2>6. \A i \in 1..Len(s) : ~Retira(s[i]) /\ (Acomoda(s[i]) => i = 1)
    BY <2>1, <2>2 DEF Acomoda, Retira, Op, Simple, cambiar_estado, responder, hilo_funcion, sem_post
  <2>7. s[1].arg \in Admitida /\ s[1].pid = p
    BY <2>1 DEF Admitida, cambiar_estado, Op
  <2>8. Encadenada(s, {})
    BY <2>5, <2>6, <2>7 DEF Encadenada, Seguida
  <2>9. QED
    BY <2>3, <2>4, <2>8 DEF s, EnOrden
<1>7. CASE razon = "signal"
  <2>1. /\ Len(s) = 4 /\ s[1] = cambiar_estado(p, "READY") /\ s[2] = sem_post("planiCorto")
        /\ s[3] = Op("signal_recurso", p, arg) /\ s[4] = responder
    BY <1>7 DEF Atencion
  <2> HIDE DEF s
  <2>2. \A i \in 1..Len(s) : i \in {1, 2, 3, 4}
    BY <2>1
  <2>3. Comunes("despacho", s) /\ Responde(s)
    BY <2>1, <2>2 DEF Comunes, Responde, Corriente, Op, Simple, cambiar_estado, responder, sem_post
  <2>4. Trae(s, p)
    BY <2>1, <2>2 DEF Trae, Ubica, Op, Simple, cambiar_estado, responder, sem_post
  <2>5. Luego(s, 1, OpsDe(p))
    BY <2>1, Sostienen DEF Luego
  <2>6. \A i \in 1..Len(s) : ~Retira(s[i]) /\ (Acomoda(s[i]) => i = 1)
    BY <2>1, <2>2 DEF Acomoda, Retira, Op, Simple, cambiar_estado, responder, sem_post
  <2>7. s[1].arg \in Admitida /\ s[1].pid = p
    BY <2>1 DEF Admitida, cambiar_estado, Op
  <2>8. Encadenada(s, {})
    BY <2>5, <2>6, <2>7 DEF Encadenada, Seguida
  <2>9. QED
    BY <2>3, <2>4, <2>8 DEF s, EnOrden
<1>8. CASE razon = "f_seek"
  <2>1. /\ Len(s) = 4 /\ s[1] = cambiar_estado(p, "READY") /\ s[2] = responder
        /\ s[3] = Simple("ordenar_adelante", p) /\ s[4] = sem_post("planiCorto")
    BY <1>8 DEF Atencion, AlFrente
  <2> HIDE DEF s
  <2>2. \A i \in 1..Len(s) : i \in {1, 2, 3, 4}
    BY <2>1
  <2>3. Comunes("despacho", s) /\ Responde(s)
    BY <2>1, <2>2 DEF Comunes, Responde, Corriente, Op, Simple, cambiar_estado, responder, sem_post
  <2>4. Trae(s, p)
    BY <2>1, <2>2 DEF Trae, Ubica, Op, Simple, cambiar_estado, responder, sem_post
  <2>5. Luego(s, 1, OpsDe(p))
    BY <2>1, Sostienen DEF Luego
  <2>6. \A i \in 1..Len(s) : ~Retira(s[i]) /\ (Acomoda(s[i]) => i = 1)
    BY <2>1, <2>2 DEF Acomoda, Retira, Op, Simple, cambiar_estado, responder, sem_post
  <2>7. s[1].arg \in Admitida /\ s[1].pid = p
    BY <2>1 DEF Admitida, cambiar_estado, Op
  <2>8. Encadenada(s, {})
    BY <2>5, <2>6, <2>7 DEF Encadenada, Seguida
  <2>9. QED
    BY <2>3, <2>4, <2>8 DEF s, EnOrden
<1>9. QED
  BY <1>1, <1>2, <1>3, <1>4, <1>5, <1>6, <1>7, <1>8

LEMMA RespondeCuenta ==
  ASSUME NEW ops
  PROVE  /\ Responde(ops) => Cuenta(ops, {responder}) = 1
         /\ NoResponde(ops) => Cuenta(ops, {responder}) = 0
<1>1. ASSUME Responde(ops)
      PROVE  Cuenta(ops, {responder}) = 1
  <2>1. PICK k \in 1..Len(ops) : /\ ops[k] = responder
                                 /\ \A i \in 1..Len(ops) : ops[i] = responder => i = k
    BY <1>1 DEF Responde
  <2>2. ops[k] \in {responder} /\ \A i \in 1..Len(ops) : ops[i] \in {responder} => i = k
    BY <2>1
  <2>3. QED
    BY <2>2, CuentaUnica
<1>2. ASSUME NoResponde(ops)
      PROVE  Cuenta(ops, {responder}) = 0
  <2>1. \A i \in 1..Len(ops) : ops[i] \notin {responder}
    BY <1>2 DEF NoResponde
  <2>2. QED
    BY <2>1, CuentaNinguna
<1>3. QED
  BY <1>1, <1>2

-----------------------------------------------------------------------------
(* The calls of the ordinary threads.  Each leaves calls of the same kind. *)
Ordinaria(h) ==
  \E ops \in Seq(Conocidas) :
    /\ Sigue(h, ops) /\ Comunes(h, ops) /\ NoResponde(ops)
    /\ Encadenada(ops, LibresPara(h)')
Asi(h) == Ordinaria(h) /\ \A p \in Pids : Tras(p)

LEMMA CabezaCorriente ==
  ASSUME PTypeOK, HilosBien, NEW h \in Corrientes, hilo[h] # <<>>
  PROVE  /\ h \in Hilos /\ Head(hilo[h]) \in Conocidas /\ Corriente(h, Head(hilo[h]))
         /\ hilo[h] \in Seq(Conocidas) /\ Head(hilo[h]) = hilo[h][1] /\ 1 \in 1..Len(hilo[h])
<1>1. h \in Hilos /\ hilo[h] \in Seq(Conocidas)
  BY DEF Corrientes, PTypeOK, TipoHilos
<1>2. Head(hilo[h]) = hilo[h][1] /\ 1 \in 1..Len(hilo[h])
  BY <1>1
<1>3. QED
  BY <1>1, <1>2, CabezaConocida DEF PTypeOK, HilosBien

LEMMA AvanzaSigue ==
  ASSUME PTypeOK, NEW h \in Hilos, hilo[h] # <<>>, Avanza(h)
  PROVE  Ordinaria(h)
<1>1. <<>> \in Seq(Conocidas) /\ Comunes(h, <<>>) /\ NoResponde(<<>>)
  BY DEF Comunes, NoResponde
<1>2. Encadenada(<<>>, LibresPara(h)')
  BY DEF Encadenada
<1>3. Sigue(h, <<>>)
  <2>1. hilo' = [hilo EXCEPT ![h] = Tail(@)] /\ hilo[h] \in Seq(Conocidas)
    BY DEF PTypeOK, TipoHilos, Avanza
  <2>2. <<>> \o Tail(hilo[h]) = Tail(hilo[h])
    BY <2>1
  <2>3. QED
    BY <2>1, <2>2 DEF Sigue
<1>4. QED
  BY <1>1, <1>2, <1>3 DEF Ordinaria

(* A process that only moves, or whose state stays among the admitted.     *)
LEMMA TrasMudanza ==
  ASSUME PTypeOK, PTypeOK', LugaresContados, FijoEnLlamadas, NEW p \in Pids,
         EnDespacho(p)' = EnDespacho(p), EnMemoria(p)' = EnMemoria(p),
         EnHilos(p)' + EnCorto(p)' + EnEspera(p)' = EnHilos(p) + EnCorto(p) + EnEspera(p),
         CargaHilos(p)' + EnLargo(p)' = CargaHilos(p) + EnLargo(p),
         estado'[p] = estado[p] \/ (estado[p] \in Admitida /\ estado'[p] \in Admitida),
         EnHilos(p)' <= EnHilos(p)
  PROVE  Tras(p)
<1>1. /\ EnContexto(p)' = EnContexto(p) /\ EnCamino(p)' = EnCamino(p)
      /\ EnCpu(p)' = EnCpu(p) /\ EnAdmision(p)' = EnAdmision(p)
  BY FijoLugares
<1>2. /\ EnHilos(p) \in Nat /\ EnCorto(p) \in Nat /\ EnEspera(p) \in Nat
      /\ EnDespacho(p) \in Nat /\ EnContexto(p) \in Nat /\ EnCpu(p) \in Nat /\ EnCamino(p) \in Nat
      /\ CargaHilos(p) \in Nat /\ EnLargo(p) \in Nat /\ EnMemoria(p) \in Nat
      /\ EnAdmision(p) \in Nat
  BY LugaresNaturales DEF NumerosNaturales
<1>3. /\ EnHilos(p)' \in Nat /\ EnCorto(p)' \in Nat /\ EnEspera(p)' \in Nat
      /\ CargaHilos(p)' \in Nat /\ EnLargo(p)' \in Nat
  BY LugaresNaturalesDespues DEF NumerosNaturales
<1>4. Lugares(p)' = Lugares(p)
  BY <1>1, <1>2, <1>3 DEF Lugares
<1>5. LugaresDeCarga(p)' = LugaresDeCarga(p)
  BY <1>1, <1>2, <1>3 DEF LugaresDeCarga
<1>6. Vivo(p)' = Vivo(p) /\ Nuevo(p)' = Nuevo(p)
  BY DEF Vivo, Nuevo, Uno, Admitida
<1>7. p \in EnManosDeNadie => p \in EnManosDeNadie'
  BY <1>2, <1>3 DEF EnManosDeNadie
<1>8. Mudado(p)
  BY DEF Mudado
<1>9. QED
  BY <1>4, <1>5, <1>6, <1>7, <1>8 DEF Tras, LugaresContados

LEMMA CortoAgrega ==
  ASSUME PTypeOK, NEW q \in Pids, NEW p
  PROVE  /\ colaCorto' = Append(colaCorto, q) => EnCorto(p)' = EnCorto(p) + Vale(q, {p})
         /\ colaCorto' = <<q>> \o colaCorto => EnCorto(p)' = EnCorto(p) + Vale(q, {p})
         /\ EnCorto(q) = 0 => ConAlFinal(q, colaCorto) = Append(colaCorto, q)
<1>1. colaCorto \in Seq(Pids)
  BY DEF PTypeOK, TipoColas
<1>2. /\ Cuenta(Append(colaCorto, q), {p}) = Cuenta(colaCorto, {p}) + Vale(q, {p})
      /\ Cuenta(<<q>> \o colaCorto, {p}) = Cuenta(colaCorto, {p}) + Vale(q, {p})
  BY <1>1, CuentaAgregar, CuentaAnteponer
<1>3. EnCorto(q) = 0 => ~EnCola(q, colaCorto)
  <2>1. Cuenta(colaCorto, {q}) > 0 <=> \E i \in 1..Len(colaCorto) : colaCorto[i] \in {q}
    BY <1>1, CuentaNatural
  <2>2. QED
    BY <1>1, <2>1 DEF EnCola, EnCorto
<1>4. QED
  BY <1>2, <1>3 DEF EnCorto, ConAlFinal

(* A call that moves p, or none, and brings nothing.                       *)
LEMMA AvanzaCuentas ==
  ASSUME PTypeOK, PTypeOK', HilosBien, NEW h \in Corrientes, hilo[h] # <<>>, Avanza(h), NEW p \in Pids
  PROVE  /\ CargaHilos(p)' = CargaHilos(p) /\ EnHilos(p)' <= EnHilos(p)
         /\ Ubica(Head(hilo[h])) => EnHilos(p)' + Vale(De(h), {p}) = EnHilos(p)
         /\ ~Ubica(Head(hilo[h])) => EnHilos(p)' = EnHilos(p)
         /\ Ubica(Head(hilo[h])) /\ De(h) = p => EnHilos(p) > 0
<1>1. h \in Hilos /\ ~Carga(Head(hilo[h]))
  BY CabezaCorriente DEF Corriente, Carga
<1>2. /\ EnHilos(p)' + Sostiene(h, p) = EnHilos(p)
      /\ CargaHilos(p)' + Trata(h, p) = CargaHilos(p)
  BY <1>1, AvanzaLugares
<1>3. /\ Trata(h, p) = 0 /\ Sostiene(h, p) \in {0, 1}
      /\ Ubica(Head(hilo[h])) => Sostiene(h, p) = Vale(De(h), {p})
      /\ ~Ubica(Head(hilo[h])) => Sostiene(h, p) = 0
      /\ Ubica(Head(hilo[h])) /\ De(h) = p => Sostiene(h, p) = 1
  BY <1>1 DEF Trata, Sostiene, Uno, Vale
<1>4. EnHilos(p)' \in Nat /\ CargaHilos(p)' \in Nat
  BY LugaresNaturalesDespues DEF NumerosNaturales
<1>5. QED
  BY <1>2, <1>3, <1>4

(* The calls that leave every process where it is.                         *)
LEMMA QuietaAsi ==
  ASSUME PTypeOK, PTypeOK', HilosBien, LugaresContados, NEW h \in Corrientes, hilo[h] # <<>>,
         Avanza(h), ~Ubica(Head(hilo[h])), FijoEnLlamadas,
         UNCHANGED <<estado, colaCorto, colaLargo, colaEspera>>,
         \A p \in Pids : EnDespacho(p)' = EnDespacho(p) /\ EnMemoria(p)' = EnMemoria(p)
  PROVE  Asi(h)
<1>1. h \in Hilos
  BY CabezaCorriente
<1>2. ASSUME NEW p \in Pids
      PROVE  Tras(p)
  <2>1. EnHilos(p)' = EnHilos(p) /\ CargaHilos(p)' = CargaHilos(p)
    BY AvanzaCuentas
  <2>2. EnCorto(p)' = EnCorto(p) /\ EnEspera(p)' = EnEspera(p) /\ EnLargo(p)' = EnLargo(p)
    BY DEF EnCorto, EnEspera, EnLargo
  <2>3. EnHilos(p) \in Nat
    BY LugaresNaturales DEF NumerosNaturales
  <2>4. EnHilos(p)' <= EnHilos(p)
    BY <2>1, <2>3
  <2>5. /\ EnHilos(p)' + EnCorto(p)' + EnEspera(p)' = EnHilos(p) + EnCorto(p) + EnEspera(p)
        /\ CargaHilos(p)' + EnLargo(p)' = CargaHilos(p) + EnLargo(p)
    BY <2>1, <2>2
  <2>6. QED
    BY <2>4, <2>5, TrasMudanza
<1>3. QED
  BY <1>1, <1>2, AvanzaSigue DEF Asi

(* Nothing moves in the channels to Memoria and to the CPU.                *)
LEMMA CanalesQuietos ==
  ASSUME UNCHANGED <<canalDespacho, canalMemoria>>
  PROVE  \A p \in Pids : EnDespacho(p)' = EnDespacho(p) /\ EnMemoria(p)' = EnMemoria(p)
BY DEF EnDespacho, EnMemoria

LEMMA SemaforosAsi ==
  ASSUME FInv, PTypeOK', NEW h \in Corrientes,
         SemPost(h) \/ SemWait(h) \/ Avisar(h) \/ BajarMulti(h)
  PROVE  Asi(h)
<1>1. /\ hilo[h] # <<>> /\ Avanza(h) /\ FijoEnLlamadas
      /\ UNCHANGED <<estado, colaCorto, colaLargo, colaEspera, canalDespacho, canalMemoria>>
      /\ Head(hilo[h]).op \in {"sem_post", "sem_wait", "avisar", "bajar_multi"}
  BY DEF SemPost, SemWait, Avisar, BajarMulti, Llama, colas, rvars
<1>2. ~Ubica(Head(hilo[h]))
  BY <1>1 DEF Ubica
<1>3. QED
  BY <1>1, <1>2, CanalesQuietos, QuietaAsi DEF FInv

LEMMA ResponderAsi ==
  ASSUME FInv, PTypeOK', NEW h \in Corrientes, Responder(h)
  PROVE  Asi(h)
<1> DEFINE m == [tipo |-> "respuesta", pid |-> 0, pc |-> 0]
<1>1. /\ hilo[h] # <<>> /\ Avanza(h) /\ FijoEnLlamadas
      /\ UNCHANGED <<estado, colaCorto, colaLargo, colaEspera, canalMemoria>>
      /\ Head(hilo[h]).op = "respuesta" /\ canalDespacho' = Append(canalDespacho, m)
  BY DEF Responder, Llama, colas, rvars
<1>2. m \in MensajesDespacho /\ m.pid \notin Pids
  BY DEF MensajesDespacho, Pids
<1>3. canalDespacho \in Seq(MensajesDespacho)
  BY DEF FInv, PTypeOK, CPUTypeOK, TipoCanales
<1> HIDE DEF m
<1>4. ASSUME NEW p \in Pids
      PROVE  EnDespacho(p)' = EnDespacho(p) /\ EnMemoria(p)' = EnMemoria(p)
  <2> DEFINE S == {x \in MensajesDespacho : x.pid = p}
  <2>1. Cuenta(Append(canalDespacho, m), S) = Cuenta(canalDespacho, S) + Vale(m, S)
    BY <1>2, <1>3, CuentaAgregar
  <2>2. Vale(m, S) = 0
    BY <1>2 DEF Vale
  <2>3. EnDespacho(p) \in Nat
    BY LugaresNaturales DEF NumerosNaturales, FInv
  <2>4. QED
    BY <1>1, <2>1, <2>2, <2>3 DEF EnDespacho, EnMemoria
<1>5. ~Ubica(Head(hilo[h]))
  BY <1>1 DEF Ubica
<1>6. QED
  BY <1>1, <1>4, <1>5, QuietaAsi DEF FInv

LEMMA PedirMemoriaAsi ==
  ASSUME FInv, PTypeOK', NEW h \in Corrientes, PedirMemoria(h)
  PROVE  Asi(h)
<1> DEFINE m == [tipo |-> Head(hilo[h]).op, pid |-> De(h)]
<1>1. /\ hilo[h] # <<>> /\ Avanza(h) /\ FijoEnLlamadas
      /\ UNCHANGED <<estado, colaCorto, colaLargo, colaEspera, canalDespacho>>
      /\ Head(hilo[h]).op \in {"liberar_paginas", "cargar_pagina"}
      /\ canalMemoria' = Append(canalMemoria, m)
  BY DEF PedirMemoria, Llama, colas, rvars
<1>2. m \in Pedidos /\ m.tipo # "cargar"
  <2>1. De(h) \in Pids
    <3>1. h \in Hilos /\ TipoHilos /\ (Llama(h, "liberar_paginas") \/ Llama(h, "cargar_pagina"))
      BY <1>1, CabezaCorriente DEF FInv, PTypeOK, PedirMemoria
    <3>2. QED
      BY <3>1, CampoPid
  <2>2. QED
    BY <1>1, <2>1 DEF Pedidos
<1>3. canalMemoria \in Seq(Pedidos)
  BY DEF FInv, PTypeOK, TipoHilos, Pedidos
<1> HIDE DEF m
<1>4. ASSUME NEW p \in Pids
      PROVE  EnDespacho(p)' = EnDespacho(p) /\ EnMemoria(p)' = EnMemoria(p)
  <2> DEFINE S == {x \in Pedidos : x.tipo = "cargar" /\ x.pid = p}
  <2>1. Cuenta(Append(canalMemoria, m), S) = Cuenta(canalMemoria, S) + Vale(m, S)
    BY <1>2, <1>3, CuentaAgregar
  <2>2. Vale(m, S) = 0
    BY <1>2 DEF Vale
  <2>3. EnMemoria(p) \in Nat
    BY LugaresNaturales DEF NumerosNaturales, FInv
  <2>4. QED
    BY <1>1, <2>1, <2>2, <2>3 DEF EnDespacho, EnMemoria
<1>5. ~Ubica(Head(hilo[h]))
  BY <1>1 DEF Ubica
<1>6. QED
  BY <1>1, <1>4, <1>5, QuietaAsi DEF FInv

(* What is about to be removed from the queues is in none of them.         *)
LEMMA SeRetira ==
  ASSUME FInv, NEW h \in Corrientes, hilo[h] # <<>>, Retira(Head(hilo[h]))
  PROVE  LET q == De(h) IN
         q \in Pids => EnCorto(q) = 0 /\ EnLargo(q) = 0 /\ EnEspera(q) = 0
<1> SUFFICES ASSUME De(h) \in Pids
             PROVE  EnCorto(De(h)) = 0 /\ EnLargo(De(h)) = 0 /\ EnEspera(De(h)) = 0
  OBVIOUS
<1> DEFINE q == De(h)
           o == cambiar_estado(q, "TERMINATED")
<1>1. /\ h \in Hilos /\ hilo[h] \in Seq(Conocidas) /\ Head(hilo[h]) = hilo[h][1]
      /\ 1 \in 1..Len(hilo[h])
  BY CabezaCorriente DEF FInv
<1>2. Luego(hilo[h], 1, {o})
  <2>1. Seguida(hilo[h], 1, LibresPara(h))
    BY <1>1 DEF FInv, Encadenadas, Encadenada
  <2>2. QED
    BY <1>1, <2>1 DEF Seguida, De
<1>3. o \in OpsDe(q)
  BY OpsConocidas DEF OpsDe, Ubica, Op, cambiar_estado, Estados
<1>4. \E i \in 1..Len(hilo[h]) : hilo[h][i] \in OpsDe(q)
  <2>1. Len(hilo[h]) \in Nat
    BY <1>1, LenProperties
  <2>2. QED
    BY <1>2, <1>3, <2>1 DEF Luego
<1>5. EnHilos(q) > 0
  BY <1>1, <1>4, HilosFinitos, CuentaEnNatural DEF EnHilos, FInv, PTypeOK, TipoHilos
<1>6. QED
  BY <1>5, Lugar DEF FInv

LEMMA QuitarNada ==
  ASSUME NEW q \in Pids, NEW s \in Seq(Pids), Cuenta(s, {q}) = 0
  PROVE  Quitar(q, s) = s
<1>1. Cuenta(s, {q}) > 0 <=> \E i \in 1..Len(s) : s[i] \in {q}
  BY CuentaNatural
<1>2. ~\E i \in 1..Len(s) : EsPrimera(i, q, s)
  BY <1>1 DEF EsPrimera
<1>3. QED
  BY <1>2 DEF Quitar

LEMMA QuitarDeColasAsi ==
  ASSUME FInv, PTypeOK', NEW h \in Corrientes, QuitarDeColas(h)
  PROVE  Asi(h)
<1>1. /\ hilo[h] # <<>> /\ Avanza(h) /\ FijoEnLlamadas
      /\ UNCHANGED <<estado, colaEspera, canalDespacho, canalMemoria>>
      /\ Llama(h, "quitarCorto") \/ Llama(h, "quitarLargo")
      /\ Head(hilo[h]).op \in {"quitarCorto", "quitarLargo"}
      /\ \/ colaCorto' = Quitar(De(h), colaCorto) /\ colaLargo' = colaLargo
         \/ colaLargo' = Quitar(De(h), colaLargo) /\ colaCorto' = colaCorto
  BY DEF QuitarDeColas, Llama, rvars
<1>2. De(h) \in Pids
  BY <1>1, CabezaCorriente, CampoPid DEF FInv, PTypeOK
<1>3. EnCorto(De(h)) = 0 /\ EnLargo(De(h)) = 0
  BY <1>1, <1>2, SeRetira DEF Retira
<1>4. colaCorto \in Seq(Pids) /\ colaLargo \in Seq(Pids)
  BY DEF FInv, PTypeOK, TipoColas
<1>5. Quitar(De(h), colaCorto) = colaCorto /\ Quitar(De(h), colaLargo) = colaLargo
  BY <1>2, <1>3, <1>4, QuitarNada DEF EnCorto, EnLargo
<1>6. UNCHANGED <<colaCorto, colaLargo>>
  BY <1>1, <1>5
<1>7. ~Ubica(Head(hilo[h]))
  BY <1>1 DEF Ubica
<1>8. QED
  BY <1>1, <1>6, <1>7, CanalesQuietos, QuietaAsi DEF FInv

(* A process that holds p nowhere is in no queue of a resource.            *)
LEMMA ColasSinNada ==
  ASSUME PTypeOK, NEW q \in Pids, EnEspera(q) = 0
  PROVE  ColasSin(q) = colaEspera
<1>1. colaEspera \in [Recs -> Seq(Pids)] /\ IsFiniteSet(Recs)
  BY RecursosAssumption DEF PTypeOK, RTypeOK
<1>2. ASSUME NEW r \in Recs
      PROVE  Quitar(q, colaEspera[r]) = colaEspera[r]
  <2>1. CuentaEn(colaEspera, {q}) > 0
          <=> \E d \in Recs : \E i \in 1..Len(colaEspera[d]) : colaEspera[d][i] \in {q}
    BY <1>1, CuentaEnNatural
  <2>2. \A i \in 1..Len(colaEspera[r]) : colaEspera[r][i] \notin {q}
    BY <2>1 DEF EnEspera
  <2>3. Cuenta(colaEspera[r], {q}) = 0
    BY <2>2, CuentaNinguna
  <2>4. QED
    BY <1>1, <2>3, QuitarNada
<1>3. QED
  BY <1>1, <1>2 DEF ColasSin

LEMMA LiberarSinEntregaAsi ==
  ASSUME FInv, PTypeOK', NEW h \in Corrientes, LiberarSinEntrega(h)
  PROVE  Asi(h)
<1>1. /\ hilo[h] # <<>> /\ Avanza(h) /\ FijoEnLlamadas
      /\ UNCHANGED <<estado, colaCorto, colaLargo, canalDespacho, canalMemoria>>
      /\ Llama(h, "liberar_recursos") /\ Head(hilo[h]).op = "liberar_recursos"
  BY DEF LiberarSinEntrega, Llama, colas
<1>2. De(h) \in Pids
  BY <1>1, CabezaCorriente, CampoPid DEF FInv, PTypeOK
<1>3. EnEspera(De(h)) = 0
  BY <1>1, <1>2, SeRetira DEF Retira
<1>4. ColasSin(De(h)) = colaEspera
  BY <1>2, <1>3, ColasSinNada DEF FInv
<1>5. colaEspera' = colaEspera
  BY <1>4 DEF LiberarSinEntrega, LiberarNada, LiberarPrimero, Soltar
<1>6. ~Ubica(Head(hilo[h]))
  BY <1>1 DEF Ubica
<1>7. QED
  BY <1>1, <1>5, <1>6, CanalesQuietos, QuietaAsi DEF FInv

(* The state of a process is set while it is held, or free in a queue.     *)
LEMMA SeAcomoda ==
  ASSUME FInv, NEW h \in Corrientes, hilo[h] # <<>>, Acomoda(Head(hilo[h])), De(h) \in Pids
  PROVE  estado[De(h)] \in Admitida /\ Head(hilo[h]).arg \in Admitida
<1> DEFINE q == De(h)
<1>1. /\ h \in Hilos /\ hilo[h] \in Seq(Conocidas) /\ Head(hilo[h]) = hilo[h][1]
      /\ 1 \in 1..Len(hilo[h])
  BY CabezaCorriente DEF FInv
<1>2. Head(hilo[h]).arg \in Admitida /\ (q \in LibresPara(h) \/ Luego(hilo[h], 1, OpsDe(q)))
  <2>1. Seguida(hilo[h], 1, LibresPara(h))
    BY <1>1 DEF FInv, Encadenadas, Encadenada
  <2>2. QED
    BY <1>1, <2>1 DEF Seguida, De
<1>3. CASE q \in LibresPara(h)
  BY <1>2, <1>3 DEF LibresPara, EnManosDeNadie
<1>4. CASE Luego(hilo[h], 1, OpsDe(q))
  <2>1. \E i \in 1..Len(hilo[h]) : hilo[h][i] \in OpsDe(q)
    <3>1. Len(hilo[h]) \in Nat
      BY <1>1, LenProperties
    <3>2. QED
      BY <1>4, <3>1 DEF Luego
  <2>2. EnHilos(q) > 0
    BY <1>1, <2>1, HilosFinitos, CuentaEnNatural DEF EnHilos, FInv, PTypeOK, TipoHilos
  <2>3. QED
    BY <1>2, <2>2, Lugar DEF FInv
<1>5. QED
  BY <1>2, <1>3, <1>4

LEMMA CambiarEstadoAsi ==
  ASSUME FInv, PTypeOK', NEW h \in Corrientes, CambiarEstado(h)
  PROVE  Asi(h)
<1> DEFINE q == De(h)
           e == Head(hilo[h]).arg
<1>1. /\ hilo[h] # <<>> /\ Avanza(h) /\ FijoEnLlamadas /\ estado' = [estado EXCEPT ![q] = e]
      /\ UNCHANGED <<colaCorto, colaLargo, colaEspera, canalDespacho, canalMemoria>>
      /\ Llama(h, "cambiar_estado") /\ Head(hilo[h]).op = "cambiar_estado"
  BY DEF CambiarEstado, Llama, colas, rvars
<1>2. q \in Pids /\ h \in Hilos /\ e \in Estados
  BY <1>1, CabezaCorriente, CampoPid, CampoEstado DEF FInv, PTypeOK
<1>3. estado \in [Pids -> Estados]
  BY DEF FInv, PTypeOK, TipoTabla
<1>4. /\ \A p \in Pids : /\ EnCorto(p)' = EnCorto(p) /\ EnEspera(p)' = EnEspera(p)
                         /\ EnLargo(p)' = EnLargo(p)
                         /\ EnDespacho(p)' = EnDespacho(p) /\ EnMemoria(p)' = EnMemoria(p)
  BY <1>1, CanalesQuietos DEF EnCorto, EnEspera, EnLargo
<1> HIDE DEF q, e
<1>5. ASSUME e # "TERMINATED", NEW p \in Pids
      PROVE  Tras(p)
  <2>1. estado[q] \in Admitida /\ e \in Admitida
    BY <1>1, <1>2, <1>5, SeAcomoda DEF q, e, Acomoda
  <2>2. EnHilos(p)' = EnHilos(p) /\ CargaHilos(p)' = CargaHilos(p) /\ EnHilos(p)' <= EnHilos(p)
    <3>1. ~Ubica(Head(hilo[h]))
      BY <1>1, <1>5 DEF Ubica, e
    <3>2. QED
      BY <1>1, <3>1, AvanzaCuentas DEF FInv
  <2>3. estado'[p] = estado[p] \/ (estado[p] \in Admitida /\ estado'[p] \in Admitida)
    BY <1>1, <1>2, <1>3, <2>1
  <2>4. /\ EnHilos(p)' + EnCorto(p)' + EnEspera(p)' = EnHilos(p) + EnCorto(p) + EnEspera(p)
        /\ CargaHilos(p)' + EnLargo(p)' = CargaHilos(p) + EnLargo(p)
    BY <1>4, <2>2
  <2>5. QED
    BY <1>1, <1>4, <2>2, <2>3, <2>4, TrasMudanza DEF FInv
<1>6. ASSUME e = "TERMINATED", NEW p \in Pids
      PROVE  Tras(p)
  <2>1. Ubica(Head(hilo[h]))
    BY <1>1, <1>6 DEF Ubica, e
  <2>2. /\ CargaHilos(p)' = CargaHilos(p) /\ EnHilos(p)' <= EnHilos(p)
        /\ EnHilos(p)' + Vale(q, {p}) = EnHilos(p) /\ (q = p => EnHilos(p) > 0)
    BY <1>1, <2>1, AvanzaCuentas DEF FInv, q
  <2>3. CASE p # q
    <3>1. EnHilos(p)' = EnHilos(p)
      <4>1. EnHilos(p)' \in Nat /\ Vale(q, {p}) = 0
        BY <2>3, LugaresNaturalesDespues DEF NumerosNaturales, Vale
      <4>2. QED
        BY <2>2, <4>1
    <3>2. estado'[p] = estado[p]
      BY <1>1, <1>2, <1>3, <2>3
    <3>3. /\ EnHilos(p)' + EnCorto(p)' + EnEspera(p)' = EnHilos(p) + EnCorto(p) + EnEspera(p)
          /\ CargaHilos(p)' + EnLargo(p)' = CargaHilos(p) + EnLargo(p)
      BY <1>4, <2>2, <3>1
    <3>4. QED
      BY <1>1, <1>4, <2>2, <3>2, <3>3, TrasMudanza DEF FInv
  <2>4. CASE p = q
    <3>1. EnHilos(p) = 1 /\ estado[p] \in Admitida /\ Lugares(p) = 1
      <4>1. EnHilos(p) = 1 /\ estado[p] \in Admitida
        BY <2>2, <2>4, Lugar DEF FInv
      <4>2. Lugares(p) = Vivo(p)
        BY DEF FInv, LugaresContados
      <4>3. QED
        BY <4>1, <4>2 DEF Vivo, Uno
    <3>2. EnHilos(p)' = 0
      <4>1. EnHilos(p)' \in Nat /\ Vale(q, {p}) = 1
        BY <2>4, LugaresNaturalesDespues DEF NumerosNaturales, Vale
      <4>2. QED
        BY <2>2, <3>1, <4>1
    <3>3. estado'[p] = "TERMINATED"
      BY <1>1, <1>2, <1>3, <1>6, <2>4
    <3>4. /\ EnContexto(p)' = EnContexto(p) /\ EnCamino(p)' = EnCamino(p)
          /\ EnCpu(p)' = EnCpu(p) /\ EnAdmision(p)' = EnAdmision(p)
      BY <1>1, FijoLugares
    <3>5. Lugares(p)' = 0
      <4>1. /\ EnHilos(p) \in Nat /\ EnCorto(p) \in Nat /\ EnEspera(p) \in Nat
            /\ EnDespacho(p) \in Nat /\ EnContexto(p) \in Nat /\ EnCpu(p) \in Nat
            /\ EnCamino(p) \in Nat
        BY LugaresNaturales DEF NumerosNaturales, FInv
      <4>2. EnCorto(p) + EnEspera(p) + EnDespacho(p) + EnContexto(p) + EnCamino(p) + EnCpu(p) = 0
        BY <3>1, <4>1 DEF Lugares
      <4>3. QED
        BY <1>4, <3>2, <3>4, <4>1, <4>2 DEF Lugares
    <3>6. LugaresDeCarga(p)' = 0
      <4>1. LugaresDeCarga(p) = Nuevo(p)
        BY DEF FInv, LugaresContados
      <4>2. Nuevo(p) = 0
        BY <3>1 DEF Nuevo, Uno, Admitida
      <4>3. LugaresDeCarga(p)' = LugaresDeCarga(p)
        BY <1>4, <2>2, <3>4 DEF LugaresDeCarga
      <4>4. QED
        BY <4>1, <4>2, <4>3
    <3>7. Vivo(p)' = 0 /\ Nuevo(p)' = 0
      BY <3>3 DEF Vivo, Nuevo, Uno, Admitida
    <3>8. p \notin EnManosDeNadie
      BY <3>1 DEF EnManosDeNadie
    <3>9. Mudado(p)
      BY <3>1, <3>3 DEF Mudado
    <3>10. QED
      BY <1>4, <3>5, <3>6, <3>7, <3>8, <3>9 DEF Tras
  <2>5. QED
    BY <2>3, <2>4
<1>7. Ordinaria(h)
  BY <1>1, <1>2, AvanzaSigue DEF FInv
<1>8. QED
  BY <1>5, <1>6, <1>7 DEF Asi

(* The calls that put the process they hold in colaCorto.                  *)
LEMMA EncolarAsi ==
  ASSUME FInv, PTypeOK', NEW h \in Corrientes,
         PushColaCorto(h) \/ QueuePush(h) \/ OrdenarAdelante(h)
  PROVE  Asi(h)
<1> DEFINE q == De(h)
<1>1. /\ hilo[h] # <<>> /\ Avanza(h) /\ FijoEnLlamadas
      /\ estado' = estado \/ estado' = [estado EXCEPT ![q] = "READY"]
      /\ UNCHANGED <<colaLargo, colaEspera, canalDespacho, canalMemoria>>
      /\ Head(hilo[h]).op \in {"push_colaCorto", "queue_push", "ordenar_adelante"}
      /\ \/ colaCorto' = ConAlFinal(q, colaCorto) \/ colaCorto' = Append(colaCorto, q)
         \/ colaCorto' = <<q>> \o colaCorto
  BY DEF PushColaCorto, QueuePush, OrdenarAdelante, Llama, colas, rvars
<1>2. q \in Pids /\ h \in Hilos
  <2>1. \E n \in {"push_colaCorto", "queue_push", "ordenar_adelante"} : Llama(h, n)
    BY DEF PushColaCorto, QueuePush, OrdenarAdelante
  <2>2. QED
    BY <1>1, <2>1, CabezaCorriente, CampoPid DEF FInv, PTypeOK
<1>3. estado \in [Pids -> Estados]
  BY DEF FInv, PTypeOK, TipoTabla
<1>4. Ubica(Head(hilo[h]))
  BY <1>1 DEF Ubica
<1> HIDE DEF q
<1>5. EnHilos(q) > 0 /\ EnCorto(q) = 0 /\ estado[q] \in Admitida
  <2>1. EnHilos(q) > 0
    BY <1>1, <1>2, <1>4, AvanzaCuentas DEF FInv, q
  <2>2. QED
    BY <1>2, <2>1, Lugar DEF FInv
<1>6. ASSUME NEW p \in Pids
      PROVE  Tras(p)
  <2>1. /\ EnHilos(p)' + Vale(q, {p}) = EnHilos(p) /\ EnHilos(p)' <= EnHilos(p)
        /\ CargaHilos(p)' = CargaHilos(p)
    BY <1>1, <1>4, AvanzaCuentas DEF FInv, q
  <2>2. EnCorto(p)' = EnCorto(p) + Vale(q, {p})
    BY <1>1, <1>2, <1>5, CortoAgrega DEF FInv
  <2>3. EnLargo(p)' = EnLargo(p) /\ EnEspera(p)' = EnEspera(p)
    BY <1>1 DEF EnLargo, EnEspera
  <2>4. EnHilos(p)' \in Nat /\ EnCorto(p) \in Nat /\ EnEspera(p) \in Nat /\ Vale(q, {p}) \in Nat
    BY LugaresNaturales, LugaresNaturalesDespues DEF NumerosNaturales, FInv, Vale
  <2>5. /\ EnHilos(p)' + EnCorto(p)' + EnEspera(p)' = EnHilos(p) + EnCorto(p) + EnEspera(p)
        /\ CargaHilos(p)' + EnLargo(p)' = CargaHilos(p) + EnLargo(p)
    BY <2>1, <2>2, <2>3, <2>4
  <2>6. estado'[p] = estado[p] \/ (estado[p] \in Admitida /\ estado'[p] \in Admitida)
    BY <1>1, <1>2, <1>3, <1>5 DEF Admitida
  <2>7. EnDespacho(p)' = EnDespacho(p) /\ EnMemoria(p)' = EnMemoria(p)
    BY <1>1, CanalesQuietos
  <2>8. QED
    BY <1>1, <2>1, <2>5, <2>6, <2>7, TrasMudanza DEF FInv
<1>7. Ordinaria(h)
  BY <1>1, <1>2, AvanzaSigue DEF FInv
<1>8. QED
  BY <1>6, <1>7 DEF Asi

(* A call that puts others in its place.                                   *)
LEMMA SigueCuentas ==
  ASSUME PTypeOK, PTypeOK', HilosBien, NEW h \in Corrientes, hilo[h] # <<>>,
         NEW ops \in Seq(Conocidas), Sigue(h, ops), Comunes(h, ops), Ubica(Head(hilo[h])),
         NEW p \in Pids
  PROVE  /\ CargaHilos(p)' = CargaHilos(p)
         /\ Trae(ops, De(h)) => EnHilos(p)' = EnHilos(p)
         /\ NoTrae(ops) => EnHilos(p)' + Vale(De(h), {p}) = EnHilos(p) /\ EnHilos(p)' <= EnHilos(p)
         /\ De(h) = p => EnHilos(p) > 0
<1>1. h \in Hilos /\ ~Carga(Head(hilo[h])) /\ Head(hilo[h]) \in Conocidas
  BY CabezaCorriente DEF Corriente, Carga
<1>2. SinCarga(ops)
  BY DEF SinCarga, Carga, Comunes, Corriente
<1>3. /\ EnHilos(p)' + Sostiene(h, p) = EnHilos(p) + Cuenta(ops, OpsDe(p))
      /\ CargaHilos(p)' + Trata(h, p) = CargaHilos(p)
  BY <1>1, <1>2, SigueLugares
<1>4. Trata(h, p) = 0 /\ Sostiene(h, p) = Vale(De(h), {p})
  BY <1>1 DEF Trata, Sostiene, Uno, Vale
<1>5. EnHilos(p)' \in Nat /\ CargaHilos(p)' \in Nat /\ EnHilos(p) \in Nat
  BY LugaresNaturales, LugaresNaturalesDespues DEF NumerosNaturales
<1>6. Vale(De(h), {p}) \in {0, 1} /\ Vale(De(h), {p}) = Uno(De(h) = p)
  BY DEF Vale, Uno
<1>7. Trae(ops, De(h)) => EnHilos(p)' = EnHilos(p)
  <2>1. Trae(ops, De(h)) => Cuenta(ops, OpsDe(p)) = Vale(De(h), {p})
    BY <1>6, TraeCuenta
  <2>2. QED
    BY <1>3, <1>4, <1>5, <1>6, <2>1
<1>8. NoTrae(ops) => EnHilos(p)' + Vale(De(h), {p}) = EnHilos(p) /\ EnHilos(p)' <= EnHilos(p)
  <2>1. NoTrae(ops) => Cuenta(ops, OpsDe(p)) = 0
    BY NoTraeCuenta
  <2>2. QED
    BY <1>3, <1>4, <1>5, <1>6, <2>1
<1>9. De(h) = p => EnHilos(p) > 0
  <2>1. \E i \in 1..Len(hilo[h]) : hilo[h][i] \in OpsDe(De(h))
    BY <1>1, CabezaCorriente DEF OpsDe, De
  <2>2. De(h) = p => CuentaEn(hilo, OpsDe(p)) > 0
    BY <1>1, <2>1, HilosFinitos, CuentaEnNatural DEF PTypeOK, TipoHilos
  <2>3. QED
    BY <2>2 DEF EnHilos
<1>10. CargaHilos(p)' = CargaHilos(p)
  BY <1>3, <1>4, <1>5
<1>11. QED
  BY <1>7, <1>8, <1>9, <1>10

(* A call whose process goes on in the hands of the same thread.           *)
LEMMA RelevoAsi ==
  ASSUME FInv, PTypeOK', NEW h \in Corrientes, hilo[h] # <<>>, NEW ops \in Seq(Conocidas),
         Sigue(h, ops), EnOrden(h, ops, De(h)), NoResponde(ops), Ubica(Head(hilo[h])), FijoEnLlamadas,
         UNCHANGED <<estado, colaCorto, colaLargo, colaEspera, canalDespacho, canalMemoria>>
  PROVE  Asi(h)
<1>1. Comunes(h, ops) /\ Encadenada(ops, {}) /\ Trae(ops, De(h))
  BY DEF EnOrden
<1>2. ASSUME NEW p \in Pids
      PROVE  Tras(p)
  <2>1. CargaHilos(p)' = CargaHilos(p) /\ EnHilos(p)' = EnHilos(p)
    BY <1>1, SigueCuentas DEF FInv
  <2>2. EnCorto(p)' = EnCorto(p) /\ EnEspera(p)' = EnEspera(p) /\ EnLargo(p)' = EnLargo(p)
    BY DEF EnCorto, EnEspera, EnLargo
  <2>3. EnHilos(p) \in Nat
    BY LugaresNaturales DEF NumerosNaturales, FInv
  <2>4. EnHilos(p)' <= EnHilos(p)
    BY <2>1, <2>3
  <2>5. /\ EnHilos(p)' + EnCorto(p)' + EnEspera(p)' = EnHilos(p) + EnCorto(p) + EnEspera(p)
        /\ CargaHilos(p)' + EnLargo(p)' = CargaHilos(p) + EnLargo(p)
    BY <2>1, <2>2
  <2>6. EnDespacho(p)' = EnDespacho(p) /\ EnMemoria(p)' = EnMemoria(p)
    BY CanalesQuietos
  <2>7. QED
    BY <2>4, <2>5, <2>6, TrasMudanza DEF FInv
<1>3. Encadenada(ops, LibresPara(h)')
  BY <1>1, EncadenadaMayor
<1>4. QED
  BY <1>1, <1>2, <1>3 DEF Asi, Ordinaria

LEMMA WaitConInstanciaAsi ==
  ASSUME FInv, PTypeOK', NEW h \in Corrientes, WaitConInstancia(h)
  PROVE  Asi(h)
<1> DEFINE q == De(h)
           s == <<Simple("queue_push", q), sem_post("planiCorto"), sem_post("planiCorto")>>
<1>1. /\ hilo[h] # <<>> /\ Sigue(h, s) /\ FijoEnLlamadas
      /\ UNCHANGED <<estado, colaCorto, colaLargo, colaEspera, canalDespacho, canalMemoria>>
      /\ Llama(h, "wait_recurso") /\ Head(hilo[h]).op = "wait_recurso"
  BY DEF WaitConInstancia, Llama, colas, TomarInstancia
<1>2. q \in Pids
  BY <1>1, CabezaCorriente, CampoPid DEF FInv, PTypeOK
<1>3. s \in Seq(Conocidas)
  <2>1. Simple("queue_push", q) \in Conocidas /\ sem_post("planiCorto") \in Conocidas
    BY <1>2, OpsSimples, OpsConocidas DEF Semaforos
  <2>2. QED
    BY <2>1, ListaDeTres
<1>4. Len(s) = 3 /\ s[1] = Simple("queue_push", q) /\ s[2] = sem_post("planiCorto")
      /\ s[3] = sem_post("planiCorto")
  OBVIOUS
<1> HIDE DEF s, q
<1>5. \A i \in 1..Len(s) : i \in {1, 2, 3}
  BY <1>4
<1>6. Comunes(h, s) /\ NoResponde(s)
  BY <1>4, <1>5 DEF Comunes, NoResponde, Corriente, Op, Simple, sem_post, responder
<1>7. Trae(s, q)
  BY <1>4, <1>5 DEF Trae, Ubica, Op, Simple, sem_post
<1>8. \A i \in 1..Len(s) : ~Retira(s[i]) /\ ~Acomoda(s[i])
  BY <1>4, <1>5 DEF Retira, Acomoda, Op, Simple, sem_post
<1>9. EnOrden(h, s, q)
  BY <1>6, <1>7, <1>8, EncadenadaSimple DEF EnOrden
<1>10. Ubica(Head(hilo[h]))
  BY <1>1 DEF Ubica
<1>11. QED
  BY <1>1, <1>3, <1>6, <1>9, <1>10, RelevoAsi DEF q

LEMMA InvalidoAsi ==
  ASSUME FInv, PTypeOK', NEW h \in Corrientes, WaitInvalido(h) \/ SignalInvalido(h)
  PROVE  Asi(h)
<1> DEFINE q == De(h)
           z == salida(q, "INVALID_RESOURCE")
<1>1. PICK s \in {<<z, sem_post("planiCorto")>>, <<z>>} : Sigue(h, s)
  BY DEF WaitInvalido, SignalInvalido
<1>2. /\ hilo[h] # <<>> /\ FijoEnLlamadas
      /\ UNCHANGED <<estado, colaCorto, colaLargo, colaEspera, canalDespacho, canalMemoria>>
      /\ Llama(h, "wait_recurso") \/ Llama(h, "signal_recurso")
      /\ Head(hilo[h]).op \in {"wait_recurso", "signal_recurso"}
  BY DEF WaitInvalido, SignalInvalido, Llama, colas, rvars
<1>3. q \in Pids
  BY <1>2, CabezaCorriente, CampoPid DEF FInv, PTypeOK
<1>4. s \in Seq(Conocidas)
  <2>1. z \in Conocidas /\ sem_post("planiCorto") \in Conocidas
    BY <1>3, OpsConocidas DEF Semaforos
  <2>2. QED
    BY <1>1, <2>1, ListaDeUna, ListaDeDos
<1>5. /\ Len(s) \in {1, 2} /\ s[1] = z
      /\ Len(s) = 2 => s[2] = sem_post("planiCorto")
  BY <1>1
<1> HIDE DEF q
<1>6. 1 \in 1..Len(s) /\ \A i \in 1..Len(s) : i = 1 \/ (i = 2 /\ Len(s) = 2)
  BY <1>5
<1>7. Comunes(h, s) /\ NoResponde(s)
  BY <1>5, <1>6 DEF Comunes, NoResponde, Corriente, Op, Simple, salida, sem_post, responder
<1>8. Trae(s, q)
  BY <1>5, <1>6 DEF Trae, Ubica, Op, salida, sem_post
<1>9. \A i \in 1..Len(s) : ~Retira(s[i]) /\ ~Acomoda(s[i])
  BY <1>5, <1>6 DEF Retira, Acomoda, Op, salida, sem_post
<1>10. EnOrden(h, s, q)
  BY <1>7, <1>8, <1>9, EncadenadaSimple DEF EnOrden
<1>11. Ubica(Head(hilo[h]))
  BY <1>2 DEF Ubica
<1>12. QED
  BY <1>1, <1>2, <1>4, <1>7, <1>10, <1>11, RelevoAsi DEF q

(* Nobody kills, so the calls of a process that ends replace its exit.     *)
LEMMA SalidaAsi ==
  ASSUME FInv, PTypeOK', NEW h \in Corrientes, Salida(h)
  PROVE  Asi(h) /\ UNCHANGED canalInterrupcion
<1> DEFINE q == De(h)
           s == ColaDeSalida(q, estado[q])
<1>1. /\ hilo[h] # <<>> /\ FijoEnLlamadas
      /\ UNCHANGED <<estado, colaCorto, colaLargo, colaEspera, canalDespacho, canalMemoria>>
      /\ Llama(h, "planificador_largo_salida") /\ Head(hilo[h]).op = "planificador_largo_salida"
  BY DEF Salida, Llama, colas, rvars
<1>2. Head(hilo[h]).arg # "SIGKILL"
  BY <1>1, CabezaCorriente DEF FInv, Corriente
<1>3. Sigue(h, s) /\ UNCHANGED canalInterrupcion
  BY <1>2 DEF Salida
<1>4. q \in Pids
  BY <1>1, CabezaCorriente, CampoPid DEF FInv, PTypeOK
<1>5. Ubica(Head(hilo[h]))
  BY <1>1 DEF Ubica
<1>6. estado[q] # "NEW"
  <2>1. \E i \in 1..Len(hilo[h]) : hilo[h][i] \in OpsDe(q)
    BY <1>1, <1>5, CabezaCorriente DEF OpsDe, De, FInv
  <2>2. EnHilos(q) > 0
    BY <2>1, CabezaCorriente, <1>1, HilosFinitos, CuentaEnNatural DEF EnHilos, FInv, PTypeOK, TipoHilos
  <2>3. QED
    BY <1>4, <2>2, Lugar DEF FInv, Admitida
<1>7. s \in Seq(Conocidas) /\ EnOrden(h, s, q) /\ NoResponde(s)
  BY <1>4, <1>6, ColaDeSalidaTipo, ColaDeSalidaEnOrden
<1> HIDE DEF s
<1>8. QED
  BY <1>1, <1>3, <1>5, <1>7, RelevoAsi

(* A process that waits is nowhere else.                                   *)
LEMMA LugarEspera ==
  ASSUME PTypeOK, LugaresContados, NEW p \in Pids, EnEspera(p) > 0
  PROVE  EnHilos(p) = 0 /\ EnCorto(p) = 0 /\ estado[p] \in Admitida
<1>1. Lugares(p) = Vivo(p) /\ Lugares(p) \in {0, 1}
  BY Lugar DEF LugaresContados
<1>2. /\ EnHilos(p) \in Nat /\ EnCorto(p) \in Nat /\ EnEspera(p) \in Nat
      /\ EnDespacho(p) \in Nat /\ EnContexto(p) \in Nat /\ EnCpu(p) \in Nat /\ EnCamino(p) \in Nat
  BY LugaresNaturales DEF NumerosNaturales
<1>3. EnHilos(p) + EnCorto(p) + EnEspera(p) + EnDespacho(p) + EnContexto(p) + EnCamino(p) + EnCpu(p)
        = Lugares(p)
  BY DEF Lugares
<1>4. EnHilos(p) = 0 /\ EnCorto(p) = 0 /\ Lugares(p) = 1
  BY <1>1, <1>2, <1>3
<1>5. QED
  BY <1>1, <1>4 DEF Vivo, Uno

(* Who waits first for r leaves its queue.                                 *)
LEMMA EntregaCuentas ==
  ASSUME FInv, PTypeOK', NEW r \in Recs, colaEspera[r] # <<>>,
         colaEspera' = [colaEspera EXCEPT ![r] = Tail(@)]
  PROVE  LET w == Head(colaEspera[r]) IN
         /\ w \in Pids /\ EnHilos(w) = 0 /\ EnCorto(w) = 0 /\ estado[w] \in Admitida
         /\ \A p \in Pids : EnEspera(p)' + Vale(w, {p}) = EnEspera(p)
<1> DEFINE w == Head(colaEspera[r])
<1>1. colaEspera[r] \in Seq(Pids) /\ colaEspera \in [Recs -> Seq(Pids)]
  BY DEF FInv, PTypeOK, RTypeOK
<1>2. w \in Pids /\ \E i \in 1..Len(colaEspera[r]) : colaEspera[r][i] = w
  <2>1. w = colaEspera[r][1] /\ 1 \in 1..Len(colaEspera[r]) /\ w \in Pids
    BY <1>1
  <2>2. QED
    BY <2>1
<1>3. EnEspera(w) > 0
  BY <1>1, <1>2, RecursosAssumption, CuentaEnNatural DEF EnEspera
<1>4. EnHilos(w) = 0 /\ EnCorto(w) = 0 /\ estado[w] \in Admitida
  BY <1>2, <1>3, LugarEspera DEF FInv
<1>5. ASSUME NEW p \in Pids
      PROVE  EnEspera(p)' + Vale(w, {p}) = EnEspera(p)
  <2>1. Familia(colaEspera, Recs, Pids) /\ Familia(colaEspera', Recs, Pids)
    BY DEF FInv, PTypeOK, RTypeOK, Familia
  <2>2. SoloEn(colaEspera, colaEspera', Recs, r) /\ Pone(colaEspera, colaEspera', r, <<>>)
    <3>1. <<>> \o Tail(colaEspera[r]) = Tail(colaEspera[r])
      BY <1>1
    <3>2. QED
      BY <1>1, <3>1 DEF SoloEn, Pone
  <2>3. CuentaEn(colaEspera', {p}) + Vale(w, {p}) = CuentaEn(colaEspera, {p})
    BY <2>1, <2>2, RecursosAssumption, CuentaEnResto
  <2>4. QED
    BY <2>3 DEF EnEspera
<1>6. QED
  BY <1>2, <1>4, <1>5

Encola(r, q) == colaEspera' = [colaEspera EXCEPT ![r] = Append(@, q)]

LEMMA EsperaAgrega ==
  ASSUME PTypeOK, PTypeOK', NEW r \in Recs, NEW q \in Pids, Encola(r, q), NEW p \in Pids
  PROVE  EnEspera(p)' = EnEspera(p) + Vale(q, {p})
<1>1. colaEspera[r] \in Seq(Pids) /\ colaEspera \in [Recs -> Seq(Pids)]
  BY DEF PTypeOK, RTypeOK
<1>2. Familia(colaEspera, Recs, Pids) /\ Familia(colaEspera', Recs, Pids)
  BY DEF PTypeOK, RTypeOK, Familia
<1>3. SoloEn(colaEspera, colaEspera', Recs, r)
  BY <1>1 DEF SoloEn, Encola
<1>4. CuentaEn(colaEspera', {p}) + Cuenta(colaEspera[r], {p})
        = CuentaEn(colaEspera, {p}) + Cuenta(colaEspera'[r], {p})
  BY <1>2, <1>3, RecursosAssumption, CuentaEnCambia
<1>5. Cuenta(colaEspera'[r], {p}) = Cuenta(colaEspera[r], {p}) + Vale(q, {p})
  <2>1. Cuenta(Append(colaEspera[r], q), {p}) = Cuenta(colaEspera[r], {p}) + Vale(q, {p})
    BY <1>1, CuentaAgregar
  <2>2. colaEspera'[r] = Append(colaEspera[r], q)
    BY <1>1 DEF Encola
  <2>3. QED
    BY <2>1, <2>2, Zenon
<1>6. Cuenta(colaEspera[r], {p}) \in Nat /\ Vale(q, {p}) \in Nat
  BY <1>1, CuentaNatural DEF Vale
<1>7. EnEspera(p) \in Nat /\ EnEspera(p)' \in Nat
  BY LugaresNaturales, LugaresNaturalesDespues DEF NumerosNaturales
<1>8. QED
  BY <1>4, <1>5, <1>6, <1>7 DEF EnEspera

LEMMA WaitSinInstanciaAsi ==
  ASSUME FInv, PTypeOK', NEW h \in Corrientes, WaitSinInstancia(h)
  PROVE  Asi(h)
<1> DEFINE q == De(h)
           r == Head(hilo[h]).arg
           s == <<cambiar_estado(q, "BLOCKED"), Simple("deteccion_deadlock", q),
                  sem_post("planiCorto")>>
<1>1. /\ hilo[h] # <<>> /\ Sigue(h, s) /\ FijoEnLlamadas /\ r \in Recs
      /\ Encola(r, q)
      /\ UNCHANGED <<estado, colaCorto, colaLargo, canalDespacho, canalMemoria>>
      /\ Llama(h, "wait_recurso") /\ Head(hilo[h]).op = "wait_recurso"
  BY DEF WaitSinInstancia, Llama, colas, EncolarEspera, Encola
<1>2. q \in Pids
  BY <1>1, CabezaCorriente, CampoPid DEF FInv, PTypeOK
<1>3. s \in Seq(Conocidas)
  <2>1. cambiar_estado(q, "BLOCKED") \in Conocidas /\ sem_post("planiCorto") \in Conocidas
    BY <1>2, OpsConocidas DEF Semaforos, Estados
  <2>2. Simple("deteccion_deadlock", q) \in Conocidas
    BY <1>2, OpsSimples
  <2>3. QED
    BY <2>1, <2>2, ListaDeTres
<1>4. /\ Len(s) = 3 /\ s[1] = cambiar_estado(q, "BLOCKED")
      /\ s[2] = Simple("deteccion_deadlock", q) /\ s[3] = sem_post("planiCorto")
  OBVIOUS
<1> HIDE DEF s, q, r
<1>5. \A i \in 1..Len(s) : i \in {1, 2, 3}
  BY <1>4
<1>6. Comunes(h, s) /\ NoResponde(s)
  BY <1>4, <1>5 DEF Comunes, NoResponde, Corriente, Op, Simple, cambiar_estado, sem_post, responder
<1>7. NoTrae(s)
  BY <1>4, <1>5 DEF NoTrae, Ubica, Op, Simple, cambiar_estado, sem_post
<1>8. Ubica(Head(hilo[h])) /\ h = "despacho"
  BY <1>1, CabezaCorriente DEF Ubica, FInv, Corriente
<1>9. \A p \in Pids : /\ CargaHilos(p)' = CargaHilos(p) /\ EnHilos(p)' <= EnHilos(p)
                      /\ EnHilos(p)' + Vale(q, {p}) = EnHilos(p) /\ (q = p => EnHilos(p) > 0)
  BY <1>1, <1>3, <1>6, <1>7, <1>8, SigueCuentas DEF FInv, q
<1>10. ASSUME NEW p \in Pids
       PROVE  Tras(p)
  <2>1. EnEspera(p)' = EnEspera(p) + Vale(q, {p})
    BY <1>1, <1>2, EsperaAgrega DEF FInv
  <2>2. EnLargo(p)' = EnLargo(p) /\ EnCorto(p)' = EnCorto(p)
    BY <1>1 DEF EnLargo, EnCorto
  <2>3. EnHilos(p)' \in Nat /\ EnCorto(p) \in Nat /\ EnEspera(p) \in Nat /\ Vale(q, {p}) \in Nat
    BY LugaresNaturales, LugaresNaturalesDespues DEF NumerosNaturales, FInv, Vale
  <2>4. /\ EnHilos(p)' + EnCorto(p)' + EnEspera(p)' = EnHilos(p) + EnCorto(p) + EnEspera(p)
        /\ CargaHilos(p)' + EnLargo(p)' = CargaHilos(p) + EnLargo(p)
    BY <1>9, <2>1, <2>2, <2>3
  <2>5. EnDespacho(p)' = EnDespacho(p) /\ EnMemoria(p)' = EnMemoria(p)
    BY <1>1, CanalesQuietos
  <2>6. QED
    BY <1>1, <1>9, <2>4, <2>5, TrasMudanza DEF FInv
<1>11. Encadenada(s, LibresPara(h)')
  <2>1. PICK p \in Pids : p = q
    BY <1>2
  <2>2. estado[p] \in Admitida /\ EnHilos(p) = 1
    BY <1>9, <2>1, Lugar DEF FInv
  <2>3. EnHilos(p)' = 0
    <3>1. EnHilos(p)' \in Nat /\ Vale(q, {p}) = 1
      BY <2>1, LugaresNaturalesDespues DEF NumerosNaturales, Vale
    <3>2. EnHilos(p)' + Vale(q, {p}) = EnHilos(p)
      BY <1>9
    <3>3. QED
      BY <2>2, <3>1, <3>2
  <2>4. q \in LibresPara(h)'
    BY <1>1, <1>8, <2>1, <2>2, <2>3 DEF LibresPara, EnManosDeNadie
  <2>5. \A i \in 1..Len(s) : ~Retira(s[i]) /\ (Acomoda(s[i]) => i = 1)
    BY <1>4, <1>5 DEF Retira, Acomoda, Op, Simple, cambiar_estado, sem_post
  <2>6. s[1].pid = q /\ s[1].arg \in Admitida
    BY <1>4 DEF Op, cambiar_estado, Admitida
  <2>7. QED
    BY <2>4, <2>5, <2>6 DEF Encadenada, Seguida
<1>12. QED
  BY <1>1, <1>3, <1>6, <1>10, <1>11 DEF Asi, Ordinaria

(* The instance goes to who waits first, and it goes to the queue.         *)
Desencola(r) == colaEspera' = [colaEspera EXCEPT ![r] = Tail(@)]

LEMMA SignalValidoAsi ==
  ASSUME FInv, PTypeOK', NEW h \in Corrientes, SignalValido(h)
  PROVE  Asi(h)
<1> DEFINE q == De(h)
           r == Head(hilo[h]).arg
           s == <<Simple("avisar", 0)>>
           w == Head(colaEspera[r])
           c == <<q>> \o colaCorto
<1>1. /\ hilo[h] # <<>> /\ Sigue(h, s) /\ FijoEnLlamadas /\ r \in Recs
      /\ UNCHANGED <<colaLargo, canalDespacho, canalMemoria>>
      /\ Llama(h, "signal_recurso") /\ Head(hilo[h]).op = "signal_recurso"
  BY DEF SignalValido, Llama, colas
<1>2. \/ colaEspera[r] = <<>> /\ colaCorto' = c /\ UNCHANGED <<estado, colaEspera>>
      \/ /\ colaEspera[r] # <<>> /\ colaCorto' = ConAlFinal(w, c)
         /\ estado' = [estado EXCEPT ![w] = "READY"] /\ Desencola(r)
  BY DEF SignalValido, DevolverInstancia, Soltar, Desencola
<1>3. q \in Pids
  BY <1>1, CabezaCorriente, CampoPid DEF FInv, PTypeOK
<1>4. s \in Seq(Conocidas)
  <2>1. Simple("avisar", 0) \in Conocidas
    BY <1>3, OpsConocidas DEF Simple
  <2>2. QED
    BY <2>1, ListaDeUna
<1>5. Len(s) = 1 /\ s[1] = Simple("avisar", 0)
  OBVIOUS
<1>6. colaCorto \in Seq(Pids) /\ c \in Seq(Pids)
  BY <1>3 DEF FInv, PTypeOK, TipoColas
<1> HIDE DEF s
<1>7. \A i \in 1..Len(s) : i = 1
  BY <1>5
<1>8. Comunes(h, s) /\ NoResponde(s)
  BY <1>5, <1>7 DEF Comunes, NoResponde, Corriente, Op, Simple, responder
<1>9. NoTrae(s)
  BY <1>5, <1>7 DEF NoTrae, Ubica, Op, Simple
<1>10. \A i \in 1..Len(s) : ~Retira(s[i]) /\ ~Acomoda(s[i])
  BY <1>5, <1>7 DEF Retira, Acomoda, Op, Simple
<1>11. Ubica(Head(hilo[h]))
  BY <1>1 DEF Ubica
<1>12. \A p \in Pids : /\ CargaHilos(p)' = CargaHilos(p) /\ EnHilos(p)' <= EnHilos(p)
                       /\ EnHilos(p)' + Vale(q, {p}) = EnHilos(p) /\ (q = p => EnHilos(p) > 0)
  BY <1>1, <1>4, <1>8, <1>9, <1>11, SigueCuentas DEF FInv
<1>13. \A p \in Pids : Cuenta(c, {p}) = EnCorto(p) + Vale(q, {p})
  BY <1>3, <1>6, CuentaAnteponer DEF EnCorto
<1>14. estado \in [Pids -> Estados]
  BY DEF FInv, PTypeOK, TipoTabla
<1>15. \A p \in Pids : EnDespacho(p)' = EnDespacho(p) /\ EnMemoria(p)' = EnMemoria(p)
                       /\ EnLargo(p)' = EnLargo(p)
  BY <1>1, CanalesQuietos DEF EnLargo
<1> HIDE DEF q, r, w, c
<1>16. CASE colaEspera[r] = <<>>
  <2>1. ASSUME NEW p \in Pids
        PROVE  Tras(p)
    <3>1. EnCorto(p)' = EnCorto(p) + Vale(q, {p}) /\ EnEspera(p)' = EnEspera(p)
      BY <1>2, <1>13, <1>16 DEF EnCorto, EnEspera
    <3>2. EnHilos(p)' \in Nat /\ EnCorto(p) \in Nat /\ EnEspera(p) \in Nat /\ Vale(q, {p}) \in Nat
      BY LugaresNaturales, LugaresNaturalesDespues DEF NumerosNaturales, FInv, Vale
    <3>3. /\ EnHilos(p)' + EnCorto(p)' + EnEspera(p)' = EnHilos(p) + EnCorto(p) + EnEspera(p)
          /\ CargaHilos(p)' + EnLargo(p)' = CargaHilos(p) + EnLargo(p)
      BY <1>12, <1>15, <3>1, <3>2
    <3>4. estado'[p] = estado[p]
      BY <1>2, <1>16
    <3>5. QED
      BY <1>1, <1>12, <1>15, <3>3, <3>4, TrasMudanza DEF FInv
  <2>2. QED
    BY <1>1, <1>4, <1>8, <1>10, <2>1, EncadenadaSimple DEF Asi, Ordinaria
<1>17. CASE colaEspera[r] # <<>>
  <2>1. /\ w \in Pids /\ EnHilos(w) = 0 /\ EnCorto(w) = 0 /\ estado[w] \in Admitida
        /\ \A p \in Pids : EnEspera(p)' + Vale(w, {p}) = EnEspera(p)
    BY <1>1, <1>2, <1>17, EntregaCuentas DEF Desencola, w
  <2>2. w # q
    <3>1. EnHilos(q) > 0
      BY <1>3, <1>12
    <3>2. QED
      BY <2>1, <3>1
  <2>3. ConAlFinal(w, c) = Append(c, w)
    <3>1. Cuenta(c, {w}) = 0
      BY <1>13, <2>1, <2>2 DEF Vale
    <3>2. ~EnCola(w, c)
      <4>1. Cuenta(c, {w}) > 0 <=> \E i \in 1..Len(c) : c[i] \in {w}
        BY <1>6, CuentaNatural
      <4>2. QED
        BY <3>1, <4>1 DEF EnCola
    <3>3. QED
      BY <3>2 DEF ConAlFinal
  <2>4. ASSUME NEW p \in Pids
        PROVE  Tras(p)
    <3>1. EnCorto(p)' = EnCorto(p) + Vale(q, {p}) + Vale(w, {p})
      <4>1. Cuenta(Append(c, w), {p}) = Cuenta(c, {p}) + Vale(w, {p})
        BY <1>6, <2>1, CuentaAgregar
      <4>2. EnCorto(p)' = Cuenta(Append(c, w), {p})
        BY <1>2, <1>17, <2>3 DEF EnCorto
      <4>3. QED
        BY <1>13, <4>1, <4>2
    <3>2. /\ EnHilos(p)' \in Nat /\ EnCorto(p) \in Nat /\ EnEspera(p) \in Nat /\ EnEspera(p)' \in Nat
          /\ Vale(q, {p}) \in Nat /\ Vale(w, {p}) \in Nat
      BY LugaresNaturales, LugaresNaturalesDespues DEF NumerosNaturales, FInv, Vale
    <3>3. /\ EnHilos(p)' + Vale(q, {p}) = EnHilos(p) /\ EnEspera(p)' + Vale(w, {p}) = EnEspera(p)
          /\ CargaHilos(p)' = CargaHilos(p) /\ EnLargo(p)' = EnLargo(p)
      BY <1>12, <1>15, <2>1
    <3>4. /\ EnHilos(p)' + EnCorto(p)' + EnEspera(p)' = EnHilos(p) + EnCorto(p) + EnEspera(p)
          /\ CargaHilos(p)' + EnLargo(p)' = CargaHilos(p) + EnLargo(p)
      BY <3>1, <3>2, <3>3
    <3>5. estado'[p] = estado[p] \/ (estado[p] \in Admitida /\ estado'[p] \in Admitida)
      BY <1>2, <1>14, <1>17, <2>1 DEF Admitida
    <3>6. QED
      BY <1>1, <1>12, <1>15, <3>4, <3>5, TrasMudanza DEF FInv
  <2>5. QED
    BY <1>1, <1>4, <1>8, <1>10, <2>4, EncadenadaSimple DEF Asi, Ordinaria
<1>18. QED
  BY <1>16, <1>17

LEMMA SigueQuieta ==
  ASSUME PTypeOK, PTypeOK', HilosBien, NEW h \in Corrientes, hilo[h] # <<>>,
         NEW ops \in Seq(Conocidas), Sigue(h, ops), Comunes(h, ops), ~Ubica(Head(hilo[h])), NoTrae(ops),
         NEW p \in Pids
  PROVE  CargaHilos(p)' = CargaHilos(p) /\ EnHilos(p)' = EnHilos(p)
<1>1. h \in Hilos /\ ~Carga(Head(hilo[h])) /\ Head(hilo[h]) \in Conocidas
  BY CabezaCorriente DEF Corriente, Carga
<1>2. SinCarga(ops)
  BY DEF SinCarga, Carga, Comunes, Corriente
<1>3. /\ EnHilos(p)' + Sostiene(h, p) = EnHilos(p) + Cuenta(ops, OpsDe(p))
      /\ CargaHilos(p)' + Trata(h, p) = CargaHilos(p)
  BY <1>1, <1>2, SigueLugares
<1>4. Trata(h, p) = 0 /\ Sostiene(h, p) = 0 /\ Cuenta(ops, OpsDe(p)) = 0
  BY <1>1, NoTraeCuenta DEF Trata, Sostiene, Uno
<1>5. EnHilos(p)' \in Nat /\ CargaHilos(p)' \in Nat /\ EnHilos(p) \in Nat
  BY LugaresNaturales, LugaresNaturalesDespues DEF NumerosNaturales
<1>6. QED
  BY <1>3, <1>4, <1>5

(* The search for deadlocks moves nobody, even when it hangs.              *)
LEMMA DetectarDeadlockAsi ==
  ASSUME FInv, PTypeOK', NEW h \in Corrientes, DetectarDeadlock(h)
  PROVE  Asi(h)
<1>1. /\ hilo[h] # <<>> /\ FijoEnLlamadas
      /\ UNCHANGED <<estado, colaCorto, colaLargo, colaEspera, canalDespacho, canalMemoria>>
      /\ Avanza(h) \/ Sigue(h, <<Simple("colgado", De(h))>>)
      /\ Llama(h, "deteccion_deadlock") /\ Head(hilo[h]).op = "deteccion_deadlock"
  BY DEF DetectarDeadlock, Llama, colas, rvars
<1>2. ~Ubica(Head(hilo[h]))
  BY <1>1 DEF Ubica
<1>3. CASE Avanza(h)
  BY <1>1, <1>2, <1>3, CanalesQuietos, QuietaAsi DEF FInv
<1>4. CASE Sigue(h, <<Simple("colgado", De(h))>>)
  <2> DEFINE o == Simple("colgado", De(h))
             s == <<o>>
  <2>1. De(h) \in Pids
    BY <1>1, CabezaCorriente, CampoPid DEF FInv, PTypeOK
  <2>2. o \in Conocidas /\ s \in Seq(Conocidas)
    BY <2>1, OpsSimples
  <2>3. /\ Corriente(h, o) /\ ~Ubica(o) /\ ~Retira(o) /\ ~Acomoda(o) /\ o # responder
    BY DEF Corriente, Ubica, Retira, Acomoda, responder, Simple, Op
  <2> HIDE DEF o
  <2>4. Len(s) = 1 /\ s[1] = o /\ \A i \in 1..Len(s) : i = 1
    OBVIOUS
  <2> HIDE DEF s
  <2>5. Comunes(h, s) /\ NoResponde(s) /\ NoTrae(s) /\ Encadenada(s, LibresPara(h)')
    BY <2>3, <2>4 DEF Comunes, NoResponde, NoTrae, Encadenada, Seguida
  <2>6. Sigue(h, s)
    BY <1>4 DEF s, o
  <2>7. ASSUME NEW p \in Pids
        PROVE  Tras(p)
    <3>1. CargaHilos(p)' = CargaHilos(p) /\ EnHilos(p)' = EnHilos(p)
      BY <1>1, <1>2, <2>2, <2>5, <2>6, SigueQuieta DEF FInv
    <3>2. EnCorto(p)' = EnCorto(p) /\ EnEspera(p)' = EnEspera(p) /\ EnLargo(p)' = EnLargo(p)
      BY <1>1 DEF EnCorto, EnEspera, EnLargo
    <3>3. EnHilos(p) \in Nat
      BY LugaresNaturales DEF NumerosNaturales, FInv
    <3>4. /\ EnHilos(p)' <= EnHilos(p)
          /\ EnHilos(p)' + EnCorto(p)' + EnEspera(p)' = EnHilos(p) + EnCorto(p) + EnEspera(p)
          /\ CargaHilos(p)' + EnLargo(p)' = CargaHilos(p) + EnLargo(p)
      BY <3>1, <3>2, <3>3
    <3>5. EnDespacho(p)' = EnDespacho(p) /\ EnMemoria(p)' = EnMemoria(p)
      BY <1>1, CanalesQuietos
    <3>6. QED
      BY <1>1, <3>4, <3>5, TrasMudanza DEF FInv
  <2>8. QED
    BY <1>1, <2>2, <2>5, <2>6, <2>7 DEF Asi, Ordinaria
<1>5. QED
  BY <1>1, <1>3, <1>4

LEMMA LiberarConEntregaAsi ==
  ASSUME FInv, PTypeOK', NEW h \in Corrientes, LiberarConEntrega(h)
  PROVE  Asi(h)
<1> DEFINE s == <<sem_post("planiCorto")>>
<1>1. /\ hilo[h] # <<>> /\ Sigue(h, s) /\ FijoEnLlamadas
      /\ UNCHANGED <<colaLargo, canalDespacho, canalMemoria>>
      /\ Llama(h, "liberar_recursos") /\ Head(hilo[h]).op = "liberar_recursos"
  BY DEF LiberarConEntrega, Llama, colas
<1>2. De(h) \in Pids
  BY <1>1, CabezaCorriente, CampoPid DEF FInv, PTypeOK
<1>3. ColasSin(De(h)) = colaEspera
  <2>1. EnEspera(De(h)) = 0
    BY <1>1, <1>2, SeRetira DEF Retira
  <2>2. QED
    BY <1>2, <2>1, ColasSinNada DEF FInv
<1>4. PICK r \in Recs : /\ colaEspera[r] # <<>> /\ Soltar(De(h), r, colaEspera)
                        /\ colaCorto' = ConAlFinal(Head(colaEspera[r]), colaCorto)
                        /\ estado' = [estado EXCEPT ![Head(colaEspera[r])] = "READY"]
  BY <1>3 DEF LiberarConEntrega, LiberarPrimero
<1> DEFINE w == Head(colaEspera[r])
<1>5. Desencola(r)
  BY <1>4 DEF Soltar, Desencola
<1>6. s \in Seq(Conocidas)
  <2>1. sem_post("planiCorto") \in Conocidas
    BY <1>2, OpsConocidas DEF Semaforos
  <2>2. QED
    BY <2>1, ListaDeUna
<1>7. Len(s) = 1 /\ s[1] = sem_post("planiCorto")
  OBVIOUS
<1> HIDE DEF s, w
<1>8. \A i \in 1..Len(s) : i = 1
  BY <1>7
<1>9. Comunes(h, s) /\ NoResponde(s)
  BY <1>7, <1>8 DEF Comunes, NoResponde, Corriente, Op, Simple, sem_post, responder
<1>10. NoTrae(s)
  BY <1>7, <1>8 DEF NoTrae, Ubica, Op, sem_post
<1>11. \A i \in 1..Len(s) : ~Retira(s[i]) /\ ~Acomoda(s[i])
  BY <1>7, <1>8 DEF Retira, Acomoda, Op, sem_post
<1>12. ~Ubica(Head(hilo[h]))
  BY <1>1 DEF Ubica
<1>13. /\ w \in Pids /\ EnHilos(w) = 0 /\ EnCorto(w) = 0 /\ estado[w] \in Admitida
       /\ \A p \in Pids : EnEspera(p)' + Vale(w, {p}) = EnEspera(p)
  BY <1>4, <1>5, EntregaCuentas DEF Desencola, w
<1>14. colaCorto' = Append(colaCorto, w)
  BY <1>4, <1>13, CortoAgrega DEF FInv, w
<1>15. estado \in [Pids -> Estados]
  BY DEF FInv, PTypeOK, TipoTabla
<1>16. ASSUME NEW p \in Pids
       PROVE  Tras(p)
  <2>1. EnCorto(p)' = EnCorto(p) + Vale(w, {p})
    BY <1>13, <1>14, CortoAgrega DEF FInv
  <2>2. CargaHilos(p)' = CargaHilos(p) /\ EnHilos(p)' = EnHilos(p)
    BY <1>1, <1>6, <1>9, <1>10, <1>12, SigueQuieta DEF FInv
  <2>3. /\ EnHilos(p) \in Nat /\ EnCorto(p) \in Nat /\ EnEspera(p) \in Nat /\ EnEspera(p)' \in Nat
        /\ Vale(w, {p}) \in Nat
    BY LugaresNaturales, LugaresNaturalesDespues DEF NumerosNaturales, FInv, Vale
  <2>4. EnLargo(p)' = EnLargo(p) /\ EnEspera(p)' + Vale(w, {p}) = EnEspera(p)
    BY <1>1, <1>13 DEF EnLargo
  <2>5. /\ EnHilos(p)' + EnCorto(p)' + EnEspera(p)' = EnHilos(p) + EnCorto(p) + EnEspera(p)
        /\ CargaHilos(p)' + EnLargo(p)' = CargaHilos(p) + EnLargo(p) /\ EnHilos(p)' <= EnHilos(p)
    BY <2>1, <2>2, <2>3, <2>4
  <2>6. estado'[p] = estado[p] \/ (estado[p] \in Admitida /\ estado'[p] \in Admitida)
    BY <1>4, <1>13, <1>15 DEF Admitida, w
  <2>7. EnDespacho(p)' = EnDespacho(p) /\ EnMemoria(p)' = EnMemoria(p)
    BY <1>1, CanalesQuietos
  <2>8. QED
    BY <1>1, <2>5, <2>6, <2>7, TrasMudanza DEF FInv
<1>17. QED
  BY <1>1, <1>6, <1>9, <1>11, <1>16, EncadenadaSimple DEF Asi, Ordinaria

(* A call of hilo_funcion passes what it holds to the thread it starts.    *)
Lanza(h, s, ops) == hilo' = [hilo EXCEPT ![h] = Tail(@), ![s] = ops]

LEMMA LanzaCuenta ==
  ASSUME PTypeOK, PTypeOK', NEW h \in Hilos, NEW s \in Hilos, hilo[h] # <<>>, hilo[s] = <<>>,
         NEW ops \in Seq(Conocidas), Lanza(h, s, ops), NEW S
  PROVE  CuentaEn(hilo', S) + Vale(Head(hilo[h]), S) = CuentaEn(hilo, S) + Cuenta(ops, S)
<1> DEFINE g == [hilo EXCEPT ![h] = Tail(@)]
<1>1. Familia(hilo, Hilos, Conocidas) /\ Familia(hilo', Hilos, Conocidas)
  BY DEF PTypeOK, TipoHilos, Familia
<1>2. hilo \in [Hilos -> Seq(Conocidas)]
  BY DEF PTypeOK, TipoHilos
<1>3. hilo[h] \in Seq(Conocidas) /\ Tail(hilo[h]) \in Seq(Conocidas) /\ h # s
  BY <1>2
<1>4. Familia(g, Hilos, Conocidas)
  BY <1>2, <1>3 DEF Familia
<1>5. SoloEn(hilo, g, Hilos, h) /\ Pone(hilo, g, h, <<>>)
  <2>1. <<>> \o Tail(hilo[h]) = Tail(hilo[h])
    BY <1>3
  <2>2. QED
    BY <1>2, <2>1 DEF SoloEn, Pone
<1>6. SoloEn(g, hilo', Hilos, s) /\ g[s] = <<>> /\ hilo'[s] = ops
  BY <1>2, <1>3 DEF SoloEn, Lanza
<1> HIDE DEF g
<1>7. CuentaEn(g, S) + Vale(Head(hilo[h]), S) = CuentaEn(hilo, S)
  BY <1>1, <1>4, <1>5, HilosFinitos, CuentaEnResto
<1>8. CuentaEn(hilo', S) + Cuenta(g[s], S) = CuentaEn(g, S) + Cuenta(hilo'[s], S)
  BY <1>1, <1>4, <1>6, HilosFinitos, CuentaEnCambia
<1>9. Cuenta(g[s], S) = 0 /\ Cuenta(hilo'[s], S) = Cuenta(ops, S)
  BY <1>6, CuentaVacia
<1>10. /\ CuentaEn(hilo', S) \in Nat /\ CuentaEn(hilo, S) \in Nat /\ CuentaEn(g, S) \in Nat
       /\ Cuenta(ops, S) \in Nat /\ Vale(Head(hilo[h]), S) \in Nat
  BY <1>1, <1>4, HilosFinitos, CuentaEnNatural, CuentaNatural DEF Familia, Vale
<1>11. QED
  BY <1>7, <1>8, <1>9, <1>10

(* What a call of an ordinary thread does.                                 *)
Ordenados(g) == Comunes(g, hilo'[g]) /\ Encadenada(hilo'[g], LibresPara(g)')
Marcha(h) ==
  /\ \A g \in Corrientes : Ordenados(g)
  /\ hilo'["consola"] = hilo["consola"] /\ hilo'["memoria"] = hilo["memoria"]
  /\ PorResponder' + Vale(Head(hilo[h]), {responder}) = PorResponder
  /\ \A p \in Pids : Tras(p)

LEMMA LibresCrecen ==
  ASSUME NEW g, \A p \in Pids : Tras(p)
  PROVE  LibresPara(g) \subseteq LibresPara(g)'
<1>1. EnManosDeNadie \subseteq EnManosDeNadie'
  <2>1. \A p \in EnManosDeNadie : p \in Pids
    BY DEF EnManosDeNadie
  <2>2. QED
    BY <2>1 DEF Tras
<1>2. QED
  BY <1>1 DEF LibresPara

LEMMA SiguenOrdenados ==
  ASSUME HilosBien, Encadenadas, \A p \in Pids : Tras(p), NEW g \in Corrientes, hilo'[g] = hilo[g]
  PROVE  Ordenados(g)
<1>1. Encadenada(hilo[g], LibresPara(g))
  BY DEF Encadenadas
<1>2. Encadenada(hilo[g], LibresPara(g)')
  BY <1>1, LibresCrecen, EncadenadaMayor
<1>3. Comunes(g, hilo[g])
  BY DEF HilosBien, Comunes
<1>4. QED
  BY <1>2, <1>3 DEF Ordenados

LEMMA RestoOrdenado ==
  ASSUME PTypeOK, HilosBien, Encadenadas, \A p \in Pids : Tras(p), NEW h \in Corrientes,
         hilo[h] # <<>>
  PROVE  Comunes(h, Tail(hilo[h])) /\ Encadenada(Tail(hilo[h]), LibresPara(h)')
<1>1. hilo[h] \in Seq(Conocidas)
  BY DEF PTypeOK, TipoHilos, Corrientes
<1>2. Comunes(h, Tail(hilo[h]))
  <2>1. /\ Len(hilo[h]) \in Nat /\ Len(Tail(hilo[h])) = Len(hilo[h]) - 1
        /\ \A j \in 1..Len(Tail(hilo[h])) : Tail(hilo[h])[j] = hilo[h][j + 1]
    BY <1>1, HeadTailProperties
  <2>2. \A j \in 1..Len(Tail(hilo[h])) : j + 1 \in 1..Len(hilo[h])
    BY <2>1
  <2>3. QED
    BY <2>1, <2>2 DEF HilosBien, Comunes
<1>3. Encadenada(Tail(hilo[h]), LibresPara(h))
  BY <1>1, EncadenadaResto DEF Encadenadas
<1>4. QED
  BY <1>2, <1>3, LibresCrecen, EncadenadaMayor

LEMMA ComunesUnir ==
  ASSUME NEW h, NEW s \in Seq(Conocidas), NEW t \in Seq(Conocidas), Comunes(h, s), Comunes(h, t)
  PROVE  Comunes(h, s \o t)
<1>1. /\ Len(s) \in Nat /\ Len(t) \in Nat /\ Len(s \o t) = Len(s) + Len(t)
      /\ \A i \in 1..Len(s) : (s \o t)[i] = s[i]
      /\ \A i \in 1..Len(t) : (s \o t)[i + Len(s)] = t[i]
  BY ConcatProperties
<1>2. ASSUME NEW k \in 1..Len(s \o t)
      PROVE  Corriente(h, (s \o t)[k])
  <2>1. CASE k \in 1..Len(s)
    BY <1>1, <2>1 DEF Comunes
  <2>2. CASE k \notin 1..Len(s)
    <3>1. k - Len(s) \in 1..Len(t) /\ (k - Len(s)) + Len(s) = k
      BY <1>1, <2>2
    <3>2. (s \o t)[k] = t[k - Len(s)]
      BY <1>1, <3>1
    <3>3. QED
      BY <3>1, <3>2 DEF Comunes
  <2>3. QED
    BY <2>1, <2>2
<1>3. QED
  BY <1>2 DEF Comunes

LEMMA AsiMarcha ==
  ASSUME FInv, PTypeOK', NEW h \in Corrientes, hilo[h] # <<>>, Asi(h)
  PROVE  Marcha(h)
<1>1. \A p \in Pids : Tras(p)
  BY DEF Asi
<1>2. PICK ops \in Seq(Conocidas) : /\ Sigue(h, ops) /\ Comunes(h, ops) /\ NoResponde(ops)
                                    /\ Encadenada(ops, LibresPara(h)')
  BY DEF Asi, Ordinaria
<1>3. /\ hilo \in [Hilos -> Seq(Conocidas)] /\ h \in Hilos /\ h # "consola" /\ h # "memoria"
      /\ "consola" \in Hilos /\ "memoria" \in Hilos /\ Corrientes \subseteq Hilos
  BY DEF FInv, PTypeOK, TipoHilos, Corrientes, Hilos
<1>4. /\ hilo'[h] = ops \o Tail(hilo[h])
      /\ \A g \in Hilos : g # h => hilo'[g] = hilo[g]
  BY <1>2, <1>3 DEF Sigue
<1>5. Ordenados(h)
  <2>1. Comunes(h, Tail(hilo[h])) /\ Encadenada(Tail(hilo[h]), LibresPara(h)')
    BY <1>1, RestoOrdenado DEF FInv
  <2>2. hilo[h] \in Seq(Conocidas) /\ Tail(hilo[h]) \in Seq(Conocidas)
    BY <1>3
  <2>3. Comunes(h, ops \o Tail(hilo[h])) /\ Encadenada(ops \o Tail(hilo[h]), LibresPara(h)')
    BY <1>2, <2>1, <2>2, ComunesUnir, EncadenadaUnir
  <2>4. QED
    BY <1>4, <2>3 DEF Ordenados
<1>6. \A g \in Corrientes : Ordenados(g)
  BY <1>1, <1>3, <1>4, <1>5, SiguenOrdenados DEF FInv
<1>7. PorResponder' + Vale(Head(hilo[h]), {responder}) = PorResponder
  <2>1. hilo' = [hilo EXCEPT ![h] = ops \o Tail(@)]
    BY <1>2 DEF Sigue
  <2>2. CuentaEn(hilo', {responder}) + Vale(Head(hilo[h]), {responder})
          = CuentaEn(hilo, {responder}) + Cuenta(ops, {responder})
    BY <1>3, <2>1, HiloCambia DEF FInv
  <2>3. Cuenta(ops, {responder}) = 0
    BY <1>2, RespondeCuenta
  <2>4. CuentaEn(hilo, {responder}) \in Nat
    BY <1>3, HilosFinitos, CuentaEnNatural
  <2>5. PorResponder' = CuentaEn(hilo', {responder})
    <3>1. responder' = responder
      BY DEF responder, Simple, Op, SinArg
    <3>2. QED
      BY <3>1 DEF PorResponder
  <2>6. QED
    BY <2>2, <2>3, <2>4, <2>5 DEF PorResponder
<1>8. QED
  BY <1>1, <1>3, <1>4, <1>6, <1>7 DEF Marcha

LEMMA HiloFuncionMarcha ==
  ASSUME FInv, PTypeOK', NEW h \in Corrientes, HiloFuncion(h)
  PROVE  Marcha(h)
<1> DEFINE q == De(h)
           f == Head(hilo[h]).arg
           s == CHOOSE x \in Libres : TRUE
<1>1. /\ hilo[h] # <<>> /\ FijoEnLlamadas /\ Libres # {}
      /\ UNCHANGED <<estado, colaCorto, colaLargo, colaEspera, canalDespacho, canalMemoria>>
      /\ Llama(h, "hilo_funcion") /\ Head(hilo[h]).op = "hilo_funcion"
  BY DEF HiloFuncion, Llama, colas, rvars
<1>2. PICK ops \in Rutinas(f, q) : Lanza(h, s, ops)
  BY DEF HiloFuncion, Lanza
<1>3. q \in Pids /\ h \in Hilos /\ f \in {"sleep_proceso", "page_fault", "f_write", "f_truncate"}
  BY <1>1, CabezaCorriente, CampoPid, CampoRutina DEF FInv, PTypeOK
<1>4. s \in Libres /\ s \in Sueltos /\ hilo[s] = <<>>
  BY <1>1 DEF Libres
<1> HIDE DEF s, f, q
<1>5. /\ hilo \in [Hilos -> Seq(Conocidas)] /\ h # "consola" /\ h # "memoria" /\ h # s
      /\ "consola" \in Hilos /\ "memoria" \in Hilos /\ Corrientes \subseteq Hilos
      /\ s \in Hilos /\ s \in Corrientes /\ s # "consola" /\ s # "memoria"
  BY <1>1, <1>4, PlanificacionAssumption DEF FInv, PTypeOK, TipoHilos, Corrientes, Hilos
<1>6. ops \in Seq(Conocidas) /\ EnOrden(s, ops, q) /\ NoResponde(ops)
  BY <1>2, <1>3, RutinasTipo, RutinaEnOrden
<1>7. \A S : CuentaEn(hilo', S) + Vale(Head(hilo[h]), S) = CuentaEn(hilo, S) + Cuenta(ops, S)
  BY <1>1, <1>2, <1>3, <1>4, <1>5, <1>6, LanzaCuenta DEF FInv
<1>8. ASSUME NEW p \in Pids
      PROVE  EnHilos(p)' = EnHilos(p) /\ CargaHilos(p)' = CargaHilos(p)
  <2>1. /\ Vale(Head(hilo[h]), OpsDe(p)) = Sostiene(h, p)
        /\ Vale(Head(hilo[h]), OpsDeCarga(p)) = Trata(h, p)
    BY <1>1, <1>3, CabezaVale DEF FInv
  <2>2. Ubica(Head(hilo[h])) /\ ~Carga(Head(hilo[h]))
    BY <1>1 DEF Ubica, Carga
  <2>3. Sostiene(h, p) = Uno(q = p) /\ Trata(h, p) = 0 /\ Uno(q = p) \in {0, 1}
    BY <2>2 DEF Sostiene, Trata, Uno, q
  <2>4. Cuenta(ops, OpsDe(p)) = Uno(q = p)
    BY <1>6, TraeCuenta DEF EnOrden
  <2>5. Cuenta(ops, OpsDeCarga(p)) = 0
    <3>1. SinCarga(ops)
      BY <1>6 DEF EnOrden, Comunes, Corriente, SinCarga, Carga
    <3>2. QED
      BY <3>1, SinCargaCuenta
  <2>6. /\ CuentaEn(hilo', OpsDe(p)) + Sostiene(h, p) = CuentaEn(hilo, OpsDe(p)) + Uno(q = p)
        /\ CuentaEn(hilo', OpsDeCarga(p)) + Trata(h, p) = CuentaEn(hilo, OpsDeCarga(p)) + 0
    BY <1>7, <2>1, <2>4, <2>5
  <2>7. EnHilos(p) \in Nat /\ CargaHilos(p) \in Nat /\ EnHilos(p)' \in Nat /\ CargaHilos(p)' \in Nat
    BY LugaresNaturales, LugaresNaturalesDespues DEF NumerosNaturales, FInv
  <2>8. QED
    BY <2>3, <2>6, <2>7 DEF EnHilos, CargaHilos
<1>9. ASSUME NEW p \in Pids
      PROVE  Tras(p)
  <2>1. EnCorto(p)' = EnCorto(p) /\ EnEspera(p)' = EnEspera(p) /\ EnLargo(p)' = EnLargo(p)
    BY <1>1 DEF EnCorto, EnEspera, EnLargo
  <2>2. EnHilos(p) \in Nat
    BY LugaresNaturales DEF NumerosNaturales, FInv
  <2>3. /\ EnHilos(p)' + EnCorto(p)' + EnEspera(p)' = EnHilos(p) + EnCorto(p) + EnEspera(p)
        /\ CargaHilos(p)' + EnLargo(p)' = CargaHilos(p) + EnLargo(p) /\ EnHilos(p)' <= EnHilos(p)
    BY <1>8, <2>1, <2>2
  <2>4. EnDespacho(p)' = EnDespacho(p) /\ EnMemoria(p)' = EnMemoria(p)
    BY <1>1, CanalesQuietos
  <2>5. QED
    BY <1>1, <2>3, <2>4, TrasMudanza DEF FInv
<1>10. /\ hilo'[h] = Tail(hilo[h]) /\ hilo'[s] = ops
       /\ \A g \in Hilos : g # h /\ g # s => hilo'[g] = hilo[g]
  BY <1>2, <1>3, <1>5 DEF Lanza
<1>11. Ordenados(h)
  <2>1. Comunes(h, Tail(hilo[h])) /\ Encadenada(Tail(hilo[h]), LibresPara(h)')
    BY <1>1, <1>9, RestoOrdenado DEF FInv
  <2>2. QED
    BY <1>10, <2>1 DEF Ordenados
<1>12. Ordenados(s)
  BY <1>6, <1>10, EncadenadaMayor DEF Ordenados, EnOrden
<1>13. \A g \in Corrientes : Ordenados(g)
  BY <1>5, <1>9, <1>10, <1>11, <1>12, SiguenOrdenados DEF FInv
<1>14. PorResponder' + Vale(Head(hilo[h]), {responder}) = PorResponder
  <2>1. CuentaEn(hilo', {responder}) + Vale(Head(hilo[h]), {responder})
          = CuentaEn(hilo, {responder}) + Cuenta(ops, {responder})
    BY <1>7
  <2>2. Cuenta(ops, {responder}) = 0
    BY <1>6, RespondeCuenta
  <2>3. CuentaEn(hilo, {responder}) \in Nat
    BY <1>5, HilosFinitos, CuentaEnNatural
  <2>4. PorResponder' = CuentaEn(hilo', {responder})
    <3>1. responder' = responder
      BY DEF responder, Simple, Op, SinArg
    <3>2. QED
      BY <3>1 DEF PorResponder
  <2>5. QED
    BY <2>1, <2>2, <2>3, <2>4 DEF PorResponder
<1>15. QED
  BY <1>5, <1>9, <1>10, <1>13, <1>14, <1>1 DEF Marcha

-----------------------------------------------------------------------------
(* What a call of an ordinary thread leaves alone.                         *)
Discreta(h) ==
  /\ FijoEnLlamadas /\ creados' = creados /\ sem'["procesoCargado"] = sem["procesoCargado"]
  /\ \/ canalInterrupcion' = canalInterrupcion
     \/ canalInterrupcion' = Append(canalInterrupcion,
                               [motivo |-> "desalojo_signal", pid |-> FdInterrupcion])
  /\ \/ canalMemoria' = canalMemoria
     \/ \E t \in {"cargar_pagina", "liberar_paginas"}, q \in Pids :
          canalMemoria' = Append(canalMemoria, [tipo |-> t, pid |-> q])
  /\ \/ canalDespacho' = canalDespacho /\ Head(hilo[h]) # responder
     \/ /\ canalDespacho' = Append(canalDespacho, [tipo |-> "respuesta", pid |-> 0, pc |-> 0])
        /\ Head(hilo[h]) = responder

LEMMA LlamadaDiscreta ==
  ASSUME FInv, PTypeOK', NEW h \in Corrientes, Llamada(h), ~EscribirSinAbrir(h)
  PROVE  Discreta(h)
<1>1. h \in Hilos /\ hilo[h] # <<>>
  BY DEF Corrientes, Llamada, Llama, CambiarEstado, SemPost, SemWait, PushColaCorto, PushSiEXEC,
         QueuePush, OrdenarAdelante, Responder, HiloFuncion, EscribirSinAbrir, WaitConInstancia, WaitSinInstancia,
         DetectarDeadlock, WaitInvalido, SignalValido, SignalInvalido, Avisar, Salida, QuitarDeColas,
         LiberarSinEntrega, LiberarConEntrega, PedirMemoria, BajarMulti, PushColaLargo,
         DespertarLargo, BorrarProceso
<1>2. Head(hilo[h]) \in Conocidas /\ Corriente(h, Head(hilo[h]))
  BY <1>1, CabezaCorriente DEF FInv
<1>3. sem \in [Semaforos -> Nat] /\ "planiCorto" \in Semaforos /\ "procesoCargado" \in Semaforos
  BY DEF FInv, PTypeOK, TipoHilos, Semaforos
<1>4. ASSUME SemPost(h) \/ SemWait(h)
      PROVE  Discreta(h)
  <2>1. Head(hilo[h]).op \in {"sem_post", "sem_wait"} /\ Head(hilo[h]).arg \in Semaforos
    BY <1>1, <1>4, CampoSemaforo DEF SemPost, SemWait, Llama, FInv, PTypeOK
  <2>2. Head(hilo[h]).arg # "procesoCargado"
    BY <1>2, <2>1 DEF Corriente
  <2>3. sem'["procesoCargado"] = sem["procesoCargado"]
    BY <1>3, <1>4, <2>1, <2>2 DEF SemPost, SemWait, Publica
  <2>4. Head(hilo[h]) # responder
    BY <2>1 DEF responder, Simple, Op
  <2>5. QED
    BY <1>4, <2>3, <2>4 DEF SemPost, SemWait, Discreta
<1>5. ASSUME Avisar(h)
      PROVE  Discreta(h)
  <2>1. sem'["procesoCargado"] = sem["procesoCargado"]
    BY <1>3, <1>5 DEF Avisar, Publica
  <2>2. Head(hilo[h]) # responder
    BY <1>5 DEF responder, Simple, Op, Avisar, Llama
  <2>3. QED
    BY <1>5, <2>1, <2>2 DEF Avisar, Discreta
<1>6. ASSUME Responder(h)
      PROVE  Discreta(h)
  <2>1. Head(hilo[h]) = responder
    <3>1. Head(hilo[h]).op = "respuesta"
      BY <1>6 DEF Responder, Llama
    <3>2. Head(hilo[h]) \in [op : {"respuesta", "avisar", "despertar_largo"}, pid : {0}, arg : {SinArg}]
      BY <1>2, <3>1 DEF Conocidas
    <3>3. QED
      BY <3>1, <3>2 DEF responder, Simple, Op
  <2>2. QED
    BY <1>6, <2>1 DEF Responder, Discreta
<1>7. ASSUME PedirMemoria(h)
      PROVE  Discreta(h)
  <2>1. De(h) \in Pids
    BY <1>1, <1>7, CampoPid DEF PedirMemoria, FInv, PTypeOK
  <2>2. Head(hilo[h]).op \in {"liberar_paginas", "cargar_pagina"}
    BY <1>7 DEF PedirMemoria, Llama
  <2>3. Head(hilo[h]) # responder
    BY <2>2 DEF responder, Simple, Op
  <2>4. \E t \in {"cargar_pagina", "liberar_paginas"}, q \in Pids :
          canalMemoria' = Append(canalMemoria, [tipo |-> t, pid |-> q])
    BY <1>7, <2>1, <2>2 DEF PedirMemoria
  <2>5. QED
    BY <1>7, <2>3, <2>4 DEF PedirMemoria, Discreta
<1>8. ASSUME Salida(h)
      PROVE  Discreta(h)
  <2>1. UNCHANGED canalInterrupcion
    BY <1>8, SalidaAsi
  <2>2. Head(hilo[h]) # responder
    BY <1>8 DEF responder, Simple, Op, Salida, Llama
  <2>3. QED
    BY <1>8, <2>1, <2>2 DEF Salida, Discreta
<1>9. ~PushSiEXEC(h) /\ ~PushColaLargo(h) /\ ~DespertarLargo(h) /\ ~BorrarProceso(h)
  BY <1>2 DEF Corriente, PushSiEXEC, PushColaLargo, DespertarLargo, BorrarProceso, Llama
<1>10. ASSUME \/ CambiarEstado(h) \/ PushColaCorto(h) \/ QueuePush(h) \/ OrdenarAdelante(h)
              \/ HiloFuncion(h) \/ BajarMulti(h)
       PROVE  Discreta(h)
  <2>1. Head(hilo[h]) # responder
    BY <1>10 DEF responder, Simple, Op, CambiarEstado, PushColaCorto, QueuePush, OrdenarAdelante,
                 HiloFuncion, BajarMulti, Llama
  <2>2. QED
    BY <1>10, <2>1 DEF Discreta, CambiarEstado, PushColaCorto, QueuePush, OrdenarAdelante,
                       HiloFuncion, BajarMulti
<1>11. ASSUME \/ WaitConInstancia(h) \/ WaitSinInstancia(h) \/ WaitInvalido(h)
              \/ DetectarDeadlock(h) \/ SignalValido(h) \/ SignalInvalido(h)
       PROVE  Discreta(h)
  <2>1. Head(hilo[h]) # responder
    BY <1>11 DEF responder, Simple, Op, WaitConInstancia, WaitSinInstancia, WaitInvalido,
                 DetectarDeadlock, SignalValido, SignalInvalido, Llama
  <2>2. QED
    BY <1>11, <2>1 DEF Discreta, WaitConInstancia, WaitSinInstancia, WaitInvalido,
                       DetectarDeadlock, SignalValido, SignalInvalido
<1>12. ASSUME QuitarDeColas(h) \/ LiberarSinEntrega(h) \/ LiberarConEntrega(h)
       PROVE  Discreta(h)
  <2>1. Head(hilo[h]) # responder
    BY <1>12 DEF responder, Simple, Op, QuitarDeColas, LiberarSinEntrega, LiberarConEntrega, Llama
  <2>2. QED
    BY <1>12, <2>1 DEF Discreta, QuitarDeColas, LiberarSinEntrega, LiberarConEntrega
<1>13. QED
  BY <1>4, <1>5, <1>6, <1>7, <1>8, <1>9, <1>10, <1>11, <1>12 DEF Llamada

LEMMA LlamadaMarcha ==
  ASSUME FInv, PTypeOK', NEW h \in Corrientes, Llamada(h), ~EscribirSinAbrir(h)
  PROVE  Marcha(h) /\ hilo[h] # <<>>
<1>1. h \in Hilos /\ hilo[h] # <<>>
  BY DEF Corrientes, Llamada, Llama, CambiarEstado, SemPost, SemWait, PushColaCorto, PushSiEXEC,
         QueuePush, OrdenarAdelante, Responder, HiloFuncion, EscribirSinAbrir, WaitConInstancia, WaitSinInstancia,
         DetectarDeadlock, WaitInvalido, SignalValido, SignalInvalido, Avisar, Salida, QuitarDeColas,
         LiberarSinEntrega, LiberarConEntrega, PedirMemoria, BajarMulti, PushColaLargo,
         DespertarLargo, BorrarProceso
<1>2. Corriente(h, Head(hilo[h]))
  BY <1>1, CabezaCorriente DEF FInv
<1>3. ~PushSiEXEC(h) /\ ~PushColaLargo(h) /\ ~DespertarLargo(h) /\ ~BorrarProceso(h)
  BY <1>2 DEF Corriente, PushSiEXEC, PushColaLargo, DespertarLargo, BorrarProceso, Llama
<1>4. CASE HiloFuncion(h)
  BY <1>1, <1>4, HiloFuncionMarcha
<1>5. CASE ~HiloFuncion(h)
  <2>1. Asi(h)
    BY <1>3, <1>5, SemaforosAsi, ResponderAsi, PedirMemoriaAsi, QuitarDeColasAsi, LiberarSinEntregaAsi,
       CambiarEstadoAsi, EncolarAsi, WaitConInstanciaAsi, InvalidoAsi, SalidaAsi, WaitSinInstanciaAsi,
       DetectarDeadlockAsi, SignalValidoAsi, LiberarConEntregaAsi DEF Llamada
  <2>2. QED
    BY <1>1, <2>1, AsiMarcha
<1>6. QED
  BY <1>4, <1>5

(* The parts of the invariant, after a call of an ordinary thread.         *)
LEMMA DiscretaSinDesalojo ==
  ASSUME FInv, NEW h, Discreta(h)
  PROVE  SinDesalojo'
<1>1. UNCHANGED <<algoritmo, avisar, pedido, interrupcion, canalContexto, relojes, corto, cicloPc, bloquear>>
  BY DEF Discreta, FijoEnLlamadas, consigna, cortoVar, nucleo
<1>2. \A i \in 1..Len(canalInterrupcion') : canalInterrupcion'[i].pid = FdInterrupcion
  <2>1. canalInterrupcion \in Seq([motivo : MotivosInterrupcion, pid : Nat \ {0}])
        /\ \A i \in 1..Len(canalInterrupcion) : canalInterrupcion[i].pid = FdInterrupcion
    BY DEF FInv, PTypeOK, CPUTypeOK, TipoCanales, SinDesalojo
  <2>2. CASE canalInterrupcion' = canalInterrupcion
    BY <2>1, <2>2
  <2>3. CASE canalInterrupcion' = Append(canalInterrupcion,
                                    [motivo |-> "desalojo_signal", pid |-> FdInterrupcion])
    BY <2>1, <2>3
  <2>4. QED
    BY <2>2, <2>3 DEF Discreta
<1>3. QED
  BY <1>1, <1>2 DEF FInv, SinDesalojo

(* An answer is no process.                                                *)
LEMMA RespuestaAgregada ==
  ASSUME PTypeOK, canalDespacho' = Append(canalDespacho, [tipo |-> "respuesta", pid |-> 0, pc |-> 0])
  PROVE  /\ Cuenta(canalDespacho', Procesos) = Cuenta(canalDespacho, Procesos)
         /\ EnRespuesta' = EnRespuesta + 1
<1> DEFINE m == [tipo |-> "respuesta", pid |-> 0, pc |-> 0]
           R == {x \in MensajesDespacho : x.tipo = "respuesta"}
<1>1. canalDespacho \in Seq(MensajesDespacho) /\ m \in MensajesDespacho
  BY DEF PTypeOK, CPUTypeOK, TipoCanales, MensajesDespacho
<1>2. m \notin Procesos /\ m \in R
  BY <1>1 DEF Procesos
<1> HIDE DEF m
<1>3. Vale(m, Procesos) = 0 /\ Vale(m, R) = 1
  BY <1>2 DEF Vale
<1> HIDE DEF R
<1>4. /\ Cuenta(Append(canalDespacho, m), Procesos) = Cuenta(canalDespacho, Procesos) + Vale(m, Procesos)
      /\ Cuenta(Append(canalDespacho, m), R) = Cuenta(canalDespacho, R) + Vale(m, R)
  BY <1>1, CuentaAgregar
<1>5. Cuenta(canalDespacho, Procesos) \in Nat
  BY <1>1, CuentaNatural
<1>6. canalDespacho' = Append(canalDespacho, m)
  BY DEF m
<1>7. EnRespuesta = Cuenta(canalDespacho, R) /\ EnRespuesta' = Cuenta(canalDespacho', R)
  BY DEF EnRespuesta, R
<1>8. QED
  BY <1>3, <1>4, <1>5, <1>6, <1>7

LEMMA DiscretaCpu ==
  ASSUME FInv, NEW h, Discreta(h)
  PROVE  CpuContada'
<1>1. UNCHANGED <<canalContexto, corto, cicloPc, bloquear, ciclo, ejecutandoB>>
  BY DEF Discreta, FijoEnLlamadas, cortoVar, nucleo
<1>2. Cuenta(canalDespacho', Procesos) = Cuenta(canalDespacho, Procesos)
  BY RespuestaAgregada DEF Discreta, FInv
<1>3. Ocupacion' = Ocupacion
  BY <1>1 DEF Ocupacion
<1>4. QED
  BY <1>1, <1>2, <1>3 DEF CpuContada, FInv

NumerosDeLaCpu ==
  /\ PorResponder \in Nat /\ EnRespuesta \in Nat /\ respuesta \in Nat
  /\ Len(canalContexto) \in Nat /\ Debida \in {0, 1}

LEMMA NumerosDeRespuesta == PTypeOK => NumerosDeLaCpu
<1> SUFFICES ASSUME PTypeOK
             PROVE  /\ PorResponder \in Nat /\ EnRespuesta \in Nat /\ respuesta \in Nat
                    /\ Len(canalContexto) \in Nat /\ Debida \in {0, 1}
  BY DEF NumerosDeLaCpu
<1>1. /\ hilo \in [Hilos -> Seq(Conocidas)] /\ canalDespacho \in Seq(MensajesDespacho)
      /\ respuesta \in Nat /\ canalContexto \in Seq(Contextos)
  BY DEF PTypeOK, TipoHilos, CPUTypeOK, TipoCanales, TipoNucleo, Contextos
<1>2. PorResponder \in Nat /\ EnRespuesta \in Nat
  BY <1>1, HilosFinitos, CuentaEnNatural, CuentaNatural DEF PorResponder, EnRespuesta
<1>3. QED
  BY <1>1, <1>2 DEF Debida, Uno

LEMMA NumerosDeRespuestaDespues == PTypeOK' => NumerosDeLaCpu'
BY NumerosDeRespuesta, PTL

LEMMA DiscretaRespuesta ==
  ASSUME FInv, PTypeOK', NEW h, Discreta(h), Marcha(h)
  PROVE  RespuestaContada'
<1>1. UNCHANGED <<canalContexto, bloquear, respuesta>>
  BY DEF Discreta, FijoEnLlamadas, nucleo
<1>2. Debida' = Debida
  BY <1>1 DEF Debida
<1>3. PorResponder' + Vale(Head(hilo[h]), {responder}) = PorResponder
  BY DEF Marcha
<1>4. /\ PorResponder \in Nat /\ EnRespuesta \in Nat /\ respuesta \in Nat
      /\ Len(canalContexto) \in Nat
  BY NumerosDeRespuesta DEF FInv, NumerosDeLaCpu
<1>5. PorResponder' \in Nat
  BY NumerosDeRespuestaDespues DEF NumerosDeLaCpu
<1>6. CASE canalDespacho' = canalDespacho /\ Head(hilo[h]) # responder
  <2>1. EnRespuesta' = EnRespuesta
    BY <1>6 DEF EnRespuesta
  <2>2. Vale(Head(hilo[h]), {responder}) = 0
    BY <1>6 DEF Vale
  <2>3. QED
    BY <1>1, <1>2, <1>3, <1>4, <1>5, <2>1, <2>2 DEF RespuestaContada, FInv
<1>7. CASE /\ canalDespacho' = Append(canalDespacho, [tipo |-> "respuesta", pid |-> 0, pc |-> 0])
           /\ Head(hilo[h]) = responder
  <2>1. EnRespuesta' = EnRespuesta + 1
    BY <1>7, RespuestaAgregada DEF FInv
  <2>2. Vale(Head(hilo[h]), {responder}) = 1
    BY <1>7 DEF Vale
  <2>3. QED
    BY <1>1, <1>2, <1>3, <1>4, <1>5, <2>1, <2>2 DEF RespuestaContada, FInv
<1>8. QED
  BY <1>6, <1>7 DEF Discreta

LEMMA DiscretaCarga ==
  ASSUME FInv, NEW h, Discreta(h), Marcha(h)
  PROVE  CargaEnOrden'
<1>1. /\ creados' = creados /\ sem'["procesoCargado"] = sem["procesoCargado"]
      /\ hilo'["consola"] = hilo["consola"] /\ hilo'["memoria"] = hilo["memoria"]
  BY DEF Discreta, Marcha
<1>2. \A p \in Pids : p > creados => estado'[p] = "NULO"
  BY DEF Marcha, Tras, Mudado, Admitida, FInv, CargaEnOrden
<1>3. /\ EnCarga' = EnCarga
      /\ \A i \in 1..Len(canalMemoria') :
           canalMemoria'[i].tipo = "cargar" => canalMemoria'[i].pid = creados
  <2>1. /\ canalMemoria \in Seq(Pedidos)
        /\ \A i \in 1..Len(canalMemoria) :
             canalMemoria[i].tipo = "cargar" => canalMemoria[i].pid = creados
    BY DEF FInv, PTypeOK, TipoHilos, Pedidos, CargaEnOrden
  <2>2. CASE canalMemoria' = canalMemoria
    BY <2>1, <2>2 DEF EnCarga
  <2>3. ASSUME NEW t \in {"cargar_pagina", "liberar_paginas"}, NEW q \in Pids,
               canalMemoria' = Append(canalMemoria, [tipo |-> t, pid |-> q])
        PROVE  /\ EnCarga' = EnCarga
               /\ \A i \in 1..Len(canalMemoria') :
                    canalMemoria'[i].tipo = "cargar" => canalMemoria'[i].pid = creados
    <3> DEFINE m == [tipo |-> t, pid |-> q]
               S == {x \in Pedidos : x.tipo = "cargar"}
    <3>1. m \in Pedidos /\ m.tipo # "cargar"
      BY DEF Pedidos
    <3>2. \A i \in 1..Len(canalMemoria') :
            canalMemoria'[i].tipo = "cargar" => canalMemoria'[i].pid = creados
      BY <2>1, <2>3, <3>1
    <3>3. canalMemoria' = Append(canalMemoria, m)
      BY <2>3
    <3> HIDE DEF m
    <3>4. Vale(m, S) = 0
      BY <3>1 DEF Vale
    <3>5. Cuenta(Append(canalMemoria, m), S) = Cuenta(canalMemoria, S) + Vale(m, S)
      BY <2>1, <3>1, CuentaAgregar
    <3>6. Cuenta(canalMemoria, S) \in Nat
      BY <2>1, CuentaNatural
    <3>7. EnCarga' = Cuenta(canalMemoria', S) /\ EnCarga = Cuenta(canalMemoria, S)
      BY DEF EnCarga
    <3>8. QED
      BY <3>2, <3>3, <3>4, <3>5, <3>6, <3>7
  <2>4. QED
    BY <2>2, <2>3 DEF Discreta
<1>4. QED
  BY <1>1, <1>2, <1>3 DEF FInv, CargaEnOrden

LEMMA LlamadaConserva ==
  ASSUME FInv, PTypeOK', NEW h \in Corrientes, Llamada(h), ~EscribirSinAbrir(h)
  PROVE  FInv'
<1>1. Discreta(h) /\ Marcha(h)
  BY LlamadaDiscreta, LlamadaMarcha
<1>2. SinDesalojo' /\ CpuContada' /\ RespuestaContada' /\ CargaEnOrden'
  BY <1>1, DiscretaSinDesalojo, DiscretaCpu, DiscretaRespuesta, DiscretaCarga
<1>3. LugaresContados'
  BY <1>1 DEF Marcha, Tras, LugaresContados
<1>4. HilosBien'
  <2>1. creados' = creados
    BY <1>1 DEF Discreta
  <2>2. ListasDeMemoria(creados)' = ListasDeMemoria(creados)
    BY <2>1 DEF ListasDeMemoria, Cargado, sem_post, Simple, Op, SinArg
  <2>3. /\ hilo'["consola"] = hilo["consola"] /\ hilo'["memoria"] = hilo["memoria"]
        /\ \A g \in Corrientes : Comunes(g, hilo'[g])
    BY <1>1 DEF Marcha, Ordenados
  <2>4. sem_wait("procesoCargado")' = sem_wait("procesoCargado")
    BY DEF sem_wait, Op
  <2>5. Corrientes' = Corrientes
    BY DEF Corrientes, Hilos
  <2>6. \A g \in Corrientes : \A i \in 1..Len(hilo'[g]) : Corriente(g, hilo'[g][i])
    BY <2>3 DEF Comunes
  <2>7. QED
    BY <2>2, <2>3, <2>4, <2>5, <2>6 DEF FInv, HilosBien, Corriente
<1>5. Encadenadas'
  BY <1>1 DEF Marcha, Ordenados, Encadenadas
<1>6. QED
  BY <1>2, <1>3, <1>4, <1>5 DEF FInv

-----------------------------------------------------------------------------
(* The calls of the console and of the thread that attends Memoria.        *)
LEMMA SiguenLibres ==
  ASSUME HilosBien, Encadenadas, EnManosDeNadie \subseteq EnManosDeNadie', NEW g \in Corrientes,
         hilo'[g] = hilo[g]
  PROVE  Ordenados(g)
<1>1. Encadenada(hilo[g], LibresPara(g))
  BY DEF Encadenadas
<1>2. LibresPara(g) \subseteq LibresPara(g)'
  BY DEF LibresPara
<1>3. Encadenada(hilo[g], LibresPara(g)')
  BY <1>1, <1>2, EncadenadaMayor
<1>4. Comunes(g, hilo[g])
  BY DEF HilosBien, Comunes
<1>5. QED
  BY <1>3, <1>4 DEF Ordenados

LEMMA Junta ==
  ASSUME PTypeOK', SinDesalojo', CpuContada', RespuestaContada', LugaresContados', CargaEnOrden',
         \A g \in Corrientes : Ordenados(g),
         hilo'["consola"] \in {<<>>, <<sem_wait("procesoCargado")>>},
         hilo'["memoria"] \in ListasDeMemoria(creados')
  PROVE  FInv'
<1>1. ListasDeMemoria(creados)' = ListasDeMemoria(creados')
  BY DEF ListasDeMemoria, Cargado, sem_post, Simple, Op, SinArg
<1>2. sem_wait("procesoCargado")' = sem_wait("procesoCargado")
  BY DEF sem_wait, Op
<1>3. Corrientes' = Corrientes
  BY DEF Corrientes, Hilos
<1>4. \A g \in Corrientes : \A i \in 1..Len(hilo'[g]) : Corriente(g, hilo'[g][i])
  BY DEF Ordenados, Comunes
<1>5. HilosBien'
  BY <1>1, <1>2, <1>3, <1>4 DEF HilosBien, Corriente
<1>6. Encadenadas'
  BY DEF Ordenados, Encadenadas
<1>7. QED
  BY <1>5, <1>6 DEF FInv

LEMMA CargaQuieta ==
  ASSUME FInv, PTypeOK', NEW h \in {"consola", "memoria"}, hilo[h] # <<>>, Avanza(h), FijoEnLlamadas,
         ~Ubica(Head(hilo[h])), Head(hilo[h]).op # "respuesta",
         UNCHANGED <<colaCorto, colaEspera, canalDespacho, canalInterrupcion>>
  PROVE  /\ SinDesalojo' /\ CpuContada' /\ RespuestaContada'
         /\ hilo'[h] = Tail(hilo[h]) /\ \A g \in Hilos : g # h => hilo'[g] = hilo[g]
         /\ \A p \in Pids : /\ EnHilos(p)' = EnHilos(p) /\ EnCorto(p)' = EnCorto(p)
                            /\ EnEspera(p)' = EnEspera(p) /\ EnDespacho(p)' = EnDespacho(p)
                            /\ CargaHilos(p)' + Trata(h, p) = CargaHilos(p)
<1>1. UNCHANGED <<algoritmo, avisar, pedido, interrupcion, canalContexto, relojes, corto, cicloPc, bloquear,
                  ciclo, ejecutandoB, respuesta>>
  BY DEF FijoEnLlamadas, consigna, cortoVar, nucleo
<1>2. SinDesalojo'
  BY <1>1 DEF FInv, SinDesalojo
<1>3. CpuContada'
  BY <1>1 DEF FInv, CpuContada, Ocupacion, Procesos
<1>4. h \in Hilos /\ hilo \in [Hilos -> Seq(Conocidas)]
  BY DEF Hilos, FInv, PTypeOK, TipoHilos
<1>5. RespuestaContada'
  <2>1. CuentaEn(hilo', {responder}) + Vale(Head(hilo[h]), {responder}) = CuentaEn(hilo, {responder})
    BY <1>4, HiloAvanza DEF FInv
  <2>2. Vale(Head(hilo[h]), {responder}) = 0
    BY DEF Vale, responder, Simple, Op
  <2>3. PorResponder' = CuentaEn(hilo', {responder})
    <3>1. responder' = responder
      BY DEF responder, Simple, Op, SinArg
    <3>2. QED
      BY <3>1 DEF PorResponder
  <2>4. PorResponder' \in Nat
    BY NumerosDeRespuestaDespues DEF NumerosDeLaCpu
  <2>5. PorResponder' = PorResponder
    BY <2>1, <2>2, <2>3, <2>4 DEF PorResponder
  <2>6. EnRespuesta' = EnRespuesta /\ Debida' = Debida
    BY <1>1 DEF EnRespuesta, Debida
  <2>7. QED
    BY <1>1, <2>5, <2>6 DEF FInv, RespuestaContada
<1>6. ASSUME NEW p \in Pids
      PROVE  /\ EnHilos(p)' = EnHilos(p) /\ EnCorto(p)' = EnCorto(p) /\ EnEspera(p)' = EnEspera(p)
             /\ EnDespacho(p)' = EnDespacho(p) /\ CargaHilos(p)' + Trata(h, p) = CargaHilos(p)
  <2>1. /\ EnHilos(p)' + Sostiene(h, p) = EnHilos(p)
        /\ CargaHilos(p)' + Trata(h, p) = CargaHilos(p)
    BY <1>4, AvanzaLugares DEF FInv
  <2>2. Sostiene(h, p) = 0
    BY DEF Sostiene, Uno
  <2>3. EnHilos(p)' \in Nat
    BY LugaresNaturalesDespues DEF NumerosNaturales
  <2>4. QED
    BY <2>1, <2>2, <2>3 DEF EnCorto, EnEspera, EnDespacho
<1>7. hilo'[h] = Tail(hilo[h]) /\ \A g \in Hilos : g # h => hilo'[g] = hilo[g]
  BY <1>4 DEF Avanza
<1>8. QED
  BY <1>2, <1>3, <1>5, <1>6, <1>7

(* ... when they do not touch what is being loaded either.                 *)
LEMMA CargaSinMudanza ==
  ASSUME FInv, PTypeOK', NEW h \in {"consola", "memoria"}, hilo[h] # <<>>, Avanza(h), FijoEnLlamadas,
         Head(hilo[h]).op \in {"sem_post", "sem_wait", "despertar_largo"},
         UNCHANGED <<creados, estado, colas, canalDespacho, canalInterrupcion, canalMemoria, rvars>>,
         EnCarga + Uno(hilo'["memoria"] # <<>>) + sem'["procesoCargado"]
           = Uno(hilo'["consola"] # <<>>),
         hilo'["consola"] \in {<<>>, <<sem_wait("procesoCargado")>>},
         hilo'["memoria"] \in ListasDeMemoria(creados)
  PROVE  FInv'
<1>1. ~Ubica(Head(hilo[h])) /\ ~Carga(Head(hilo[h])) /\ Head(hilo[h]).op # "respuesta"
  BY DEF Ubica, Carga
<1>2. UNCHANGED <<colaCorto, colaLargo, colaEspera, canalMemoria>>
  BY DEF colas, rvars
<1>3. /\ SinDesalojo' /\ CpuContada' /\ RespuestaContada'
      /\ hilo'[h] = Tail(hilo[h]) /\ \A g \in Hilos : g # h => hilo'[g] = hilo[g]
      /\ \A p \in Pids : /\ EnHilos(p)' = EnHilos(p) /\ EnCorto(p)' = EnCorto(p)
                         /\ EnEspera(p)' = EnEspera(p) /\ EnDespacho(p)' = EnDespacho(p)
                         /\ CargaHilos(p)' + Trata(h, p) = CargaHilos(p)
  BY <1>1, <1>2, CargaQuieta
<1>4. ASSUME NEW p \in Pids
      PROVE  Tras(p)
  <2>1. Trata(h, p) = 0
    BY <1>1 DEF Trata, Uno
  <2>2. CargaHilos(p)' \in Nat /\ EnHilos(p) \in Nat
    BY LugaresNaturales, LugaresNaturalesDespues DEF NumerosNaturales, FInv
  <2>3. EnLargo(p)' = EnLargo(p) /\ EnMemoria(p)' = EnMemoria(p)
    BY <1>2 DEF EnLargo, EnMemoria
  <2>4. /\ EnHilos(p)' + EnCorto(p)' + EnEspera(p)' = EnHilos(p) + EnCorto(p) + EnEspera(p)
        /\ CargaHilos(p)' + EnLargo(p)' = CargaHilos(p) + EnLargo(p) /\ EnHilos(p)' <= EnHilos(p)
    BY <1>3, <2>1, <2>2, <2>3
  <2>5. QED
    BY <1>3, <2>3, <2>4, TrasMudanza DEF FInv
<1>5. EnManosDeNadie \subseteq EnManosDeNadie'
  BY <1>4 DEF Tras, EnManosDeNadie
<1>6. \A g \in Corrientes : Ordenados(g)
  <2>1. \A g \in Corrientes : hilo'[g] = hilo[g]
    BY <1>3 DEF Corrientes
  <2>2. QED
    BY <1>5, <2>1, SiguenLibres DEF FInv
<1>7. LugaresContados'
  BY <1>4 DEF Tras, LugaresContados
<1>8. CargaEnOrden'
  <2>1. EnCarga' = EnCarga
    BY <1>2 DEF EnCarga
  <2>2. QED
    BY <1>2, <2>1 DEF FInv, CargaEnOrden
<1>9. QED
  BY <1>3, <1>6, <1>7, <1>8, Junta

(* Which call it is, by its name.                                          *)
LEMMA SoloEsa ==
  ASSUME NEW h, Llamada(h)
  PROVE  /\ hilo[h] # <<>>
         /\ Head(hilo[h]).op = "sem_wait" => SemWait(h)
         /\ Head(hilo[h]).op = "sem_post" => SemPost(h)
         /\ Head(hilo[h]).op = "despertar_largo" => DespertarLargo(h)
         /\ Head(hilo[h]).op = "push_colaLargo" => PushColaLargo(h)
         /\ Head(hilo[h]).op = "borrar_proceso" => BorrarProceso(h)
BY DEF Llamada, Llama, CambiarEstado, SemPost, SemWait, PushColaCorto, PushSiEXEC,
         QueuePush, OrdenarAdelante, Responder, HiloFuncion, EscribirSinAbrir, WaitConInstancia, WaitSinInstancia,
         DetectarDeadlock, WaitInvalido, SignalValido, SignalInvalido, Avisar, Salida, QuitarDeColas,
         LiberarSinEntrega, LiberarConEntrega, PedirMemoria, BajarMulti, PushColaLargo,
         DespertarLargo, BorrarProceso

LEMMA ConsolaConserva ==
  ASSUME FInv, PTypeOK', Llamada("consola")
  PROVE  FInv'
<1>1. hilo["consola"] = <<sem_wait("procesoCargado")>>
  BY SoloEsa DEF FInv, HilosBien
<1>2. Head(hilo["consola"]).op = "sem_wait" /\ Head(hilo["consola"]).arg = "procesoCargado"
      /\ Tail(hilo["consola"]) = <<>>
  <2>1. Head(hilo["consola"]) = sem_wait("procesoCargado") /\ Tail(hilo["consola"]) = <<>>
    BY <1>1
  <2>2. QED
    BY <2>1 DEF sem_wait, Op
<1>3. SemWait("consola")
  BY <1>2, SoloEsa
<1>4. hilo \in [Hilos -> Seq(Conocidas)] /\ "consola" \in Hilos /\ "memoria" \in Hilos
      /\ sem \in [Semaforos -> Nat] /\ "procesoCargado" \in Semaforos
  BY DEF FInv, PTypeOK, TipoHilos, Hilos, Semaforos
<1>5. hilo'["consola"] = <<>> /\ hilo'["memoria"] = hilo["memoria"] /\ hilo["consola"] # <<>>
  BY <1>1, <1>2, <1>3, <1>4 DEF SemWait, Avanza
<1>6. sem'["procesoCargado"] = sem["procesoCargado"] - 1
  BY <1>2, <1>3, <1>4 DEF SemWait
<1>7. EnCarga + Uno(hilo'["memoria"] # <<>>) + sem'["procesoCargado"] = Uno(hilo'["consola"] # <<>>)
  <2>1. EnCarga + Uno(hilo["memoria"] # <<>>) + sem["procesoCargado"] = 1
    BY <1>5 DEF FInv, CargaEnOrden, Uno
  <2>2. EnCarga \in Nat /\ Uno(hilo["memoria"] # <<>>) \in Nat
    BY CuentaNatural DEF EnCarga, FInv, PTypeOK, TipoHilos, Uno
  <2>3. QED
    BY <1>4, <1>5, <1>6, <2>1, <2>2 DEF Uno
<1>8. hilo["memoria"] \in ListasDeMemoria(creados)
  BY DEF FInv, HilosBien
<1>9. QED
  BY <1>2, <1>3, <1>5, <1>7, <1>8, CargaSinMudanza DEF SemWait, Llama

(* What the thread that attends Memoria has still to do.                   *)
LEMMA ListaDeMemoria ==
  ASSUME FInv, hilo["memoria"] # <<>>
  PROVE  LET s == hilo["memoria"]  o == Head(hilo["memoria"]) IN
         \/ o = Cargado /\ Tail(s) = <<>>
         \/ o = Simple("despertar_largo", 0) /\ Tail(s) = <<Cargado>>
         \/ /\ o = Simple("push_colaLargo", creados)
            /\ Tail(s) = <<Simple("despertar_largo", 0), Cargado>>
         \/ o = Simple("borrar_proceso", creados) /\ Tail(s) = <<Cargado>>
<1>1. \A a, b, c : /\ Head(<<a>>) = a /\ Tail(<<a>>) = <<>>
                   /\ Head(<<a, b>>) = a /\ Tail(<<a, b>>) = <<b>>
                   /\ Head(<<a, b, c>>) = a /\ Tail(<<a, b, c>>) = <<b, c>>
  OBVIOUS
<1>2. \/ hilo["memoria"] = <<Cargado>>
      \/ hilo["memoria"] = <<Simple("despertar_largo", 0), Cargado>>
      \/ hilo["memoria"] = <<Simple("push_colaLargo", creados), Simple("despertar_largo", 0), Cargado>>
      \/ hilo["memoria"] = <<Simple("borrar_proceso", creados), Cargado>>
  BY DEF FInv, HilosBien, ListasDeMemoria
<1>3. CASE hilo["memoria"] = <<Cargado>>
  BY <1>1, <1>3, Zenon
<1>4. CASE hilo["memoria"] = <<Simple("despertar_largo", 0), Cargado>>
  <2>1. Head(hilo["memoria"]) = Simple("despertar_largo", 0) /\ Tail(hilo["memoria"]) = <<Cargado>>
    BY <1>4
  <2>2. QED
    BY <2>1, Zenon
<1>5. CASE hilo["memoria"] = <<Simple("push_colaLargo", creados), Simple("despertar_largo", 0), Cargado>>
  <2>1. /\ Head(hilo["memoria"]) = Simple("push_colaLargo", creados)
        /\ Tail(hilo["memoria"]) = <<Simple("despertar_largo", 0), Cargado>>
    BY <1>5
  <2>2. QED
    BY <2>1, Zenon
<1>6. CASE hilo["memoria"] = <<Simple("borrar_proceso", creados), Cargado>>
  <2>1. Head(hilo["memoria"]) = Simple("borrar_proceso", creados) /\ Tail(hilo["memoria"]) = <<Cargado>>
    BY <1>6
  <2>2. QED
    BY <2>1, Zenon
<1>7. QED
  BY <1>2, <1>3, <1>4, <1>5, <1>6, Zenon

LEMMA TipoDeCarga ==
  ASSUME FInv
  PROVE  /\ hilo \in [Hilos -> Seq(Conocidas)] /\ "consola" \in Hilos /\ "memoria" \in Hilos
         /\ sem \in [Semaforos -> Nat] /\ "procesoCargado" \in Semaforos /\ "planiLargo" \in Semaforos
         /\ EnCarga \in Nat /\ creados \in Nat
BY CuentaNatural DEF EnCarga, FInv, PTypeOK, TipoHilos, Hilos, Semaforos, CargaEnOrden

LEMMA MemoriaAvisa ==
  ASSUME FInv, PTypeOK', SemPost("memoria") \/ DespertarLargo("memoria")
  PROVE  FInv'
<1>1. /\ hilo["memoria"] # <<>> /\ Avanza("memoria")
      /\ Head(hilo["memoria"]).op \in {"sem_post", "despertar_largo"}
  BY DEF SemPost, DespertarLargo, Llama
<1>2. \/ SemPost("memoria") /\ Head(hilo["memoria"]) = Cargado /\ Tail(hilo["memoria"]) = <<>>
      \/ DespertarLargo("memoria") /\ Tail(hilo["memoria"]) = <<Cargado>>
  BY <1>1, ListaDeMemoria DEF Cargado, Simple, Op, sem_post, SemPost, DespertarLargo, Llama
<1>3. hilo'["consola"] = hilo["consola"] /\ hilo'["memoria"] = Tail(hilo["memoria"])
  BY <1>1, TipoDeCarga DEF Avanza
<1>4. \/ /\ SemPost("memoria") /\ hilo'["memoria"] = <<>>
         /\ sem'["procesoCargado"] = sem["procesoCargado"] + 1
      \/ /\ DespertarLargo("memoria") /\ hilo'["memoria"] = <<Cargado>>
         /\ sem'["procesoCargado"] = sem["procesoCargado"]
  BY <1>2, <1>3, TipoDeCarga DEF SemPost, DespertarLargo, Publica, Cargado, sem_post, Op
<1>5. EnCarga + Uno(hilo'["memoria"] # <<>>) + sem'["procesoCargado"] = Uno(hilo'["consola"] # <<>>)
  <2>1. EnCarga + 1 + sem["procesoCargado"] = Uno(hilo["consola"] # <<>>)
    BY <1>1 DEF FInv, CargaEnOrden, Uno
  <2>2. EnCarga \in Nat /\ sem["procesoCargado"] \in Nat
    BY TipoDeCarga
  <2>3. <<Cargado>> # <<>>
    OBVIOUS
  <2>4. \/ Uno(hilo'["memoria"] # <<>>) = 0 /\ sem'["procesoCargado"] = sem["procesoCargado"] + 1
        \/ Uno(hilo'["memoria"] # <<>>) = 1 /\ sem'["procesoCargado"] = sem["procesoCargado"]
    BY <1>4, <2>3 DEF Uno
  <2>5. Uno(hilo'["consola"] # <<>>) = Uno(hilo["consola"] # <<>>)
    BY <1>3
  <2>6. QED
    BY <2>1, <2>2, <2>4, <2>5
<1>6. hilo'["memoria"] \in ListasDeMemoria(creados)
  BY <1>4 DEF ListasDeMemoria
<1>7. hilo'["consola"] \in {<<>>, <<sem_wait("procesoCargado")>>}
  BY <1>3 DEF FInv, HilosBien
<1>8. QED
  BY <1>1, <1>5, <1>6, <1>7, CargaSinMudanza DEF SemPost, DespertarLargo

(* Memoria admits the process: it passes from its thread to colaLargo.     *)
LEMMA MemoriaPasa ==
  ASSUME FInv, PTypeOK', PushColaLargo("memoria")
  PROVE  FInv'
<1> DEFINE h == "memoria"
           q == De(h)
<1>1. /\ hilo[h] # <<>> /\ Avanza(h) /\ FijoEnLlamadas
      /\ Llama(h, "push_colaLargo") /\ Head(hilo[h]).op = "push_colaLargo"
      /\ colaLargo' = Append(colaLargo, q)
      /\ UNCHANGED <<creados, estado, colaCorto, colaEspera, sem, canalDespacho, canalInterrupcion,
                     canalMemoria>>
  BY DEF PushColaLargo, Llama, rvars
<1>2. q \in Pids
  BY <1>1, TipoDeCarga, CampoPid DEF FInv, PTypeOK
<1>3. ~Ubica(Head(hilo[h])) /\ Carga(Head(hilo[h])) /\ Head(hilo[h]).op # "respuesta"
  BY <1>1 DEF Ubica, Carga
<1>4. /\ SinDesalojo' /\ CpuContada' /\ RespuestaContada'
      /\ hilo'[h] = Tail(hilo[h]) /\ \A g \in Hilos : g # h => hilo'[g] = hilo[g]
      /\ \A p \in Pids : /\ EnHilos(p)' = EnHilos(p) /\ EnCorto(p)' = EnCorto(p)
                         /\ EnEspera(p)' = EnEspera(p) /\ EnDespacho(p)' = EnDespacho(p)
                         /\ CargaHilos(p)' + Trata(h, p) = CargaHilos(p)
  BY <1>1, <1>3, CargaQuieta
<1>5. ASSUME NEW p \in Pids
      PROVE  Tras(p)
  <2>1. Trata(h, p) = Vale(q, {p}) /\ Vale(q, {p}) \in {0, 1}
    BY <1>3 DEF Trata, Uno, Vale
  <2>2. EnLargo(p)' = EnLargo(p) + Vale(q, {p})
    <3>1. colaLargo \in Seq(Pids)
      BY DEF FInv, PTypeOK, TipoColas
    <3>2. Cuenta(Append(colaLargo, q), {p}) = Cuenta(colaLargo, {p}) + Vale(q, {p})
      BY <1>2, <3>1, CuentaAgregar
    <3>3. QED
      BY <1>1, <3>2 DEF EnLargo
  <2>3. /\ CargaHilos(p)' \in Nat /\ EnHilos(p) \in Nat /\ EnLargo(p) \in Nat
    BY LugaresNaturales, LugaresNaturalesDespues DEF NumerosNaturales, FInv
  <2>4. EnMemoria(p)' = EnMemoria(p)
    BY <1>1 DEF EnMemoria
  <2>5. CargaHilos(p)' + Trata(h, p) = CargaHilos(p)
    BY <1>4
  <2>6. /\ EnHilos(p)' + EnCorto(p)' + EnEspera(p)' = EnHilos(p) + EnCorto(p) + EnEspera(p)
        /\ CargaHilos(p)' + EnLargo(p)' = CargaHilos(p) + EnLargo(p) /\ EnHilos(p)' <= EnHilos(p)
    BY <1>4, <2>1, <2>2, <2>3, <2>5
  <2>7. QED
    BY <1>1, <1>4, <2>4, <2>6, TrasMudanza DEF FInv
<1>6. EnManosDeNadie \subseteq EnManosDeNadie'
  BY <1>5 DEF Tras, EnManosDeNadie
<1>7. \A g \in Corrientes : Ordenados(g)
  <2>1. \A g \in Corrientes : hilo'[g] = hilo[g]
    BY <1>4 DEF Corrientes
  <2>2. QED
    BY <1>6, <2>1, SiguenLibres DEF FInv
<1>8. LugaresContados'
  BY <1>5 DEF Tras, LugaresContados
<1>9. hilo'[h] = <<Simple("despertar_largo", 0), Cargado>> /\ hilo'["consola"] = hilo["consola"]
  BY <1>1, <1>4, ListaDeMemoria, TipoDeCarga DEF Cargado, Simple, Op, sem_post
<1>10. CargaEnOrden'
  <2>1. EnCarga' = EnCarga /\ hilo'[h] # <<>>
    BY <1>1, <1>9 DEF EnCarga
  <2>2. QED
    BY <1>1, <1>9, <2>1 DEF FInv, CargaEnOrden
<1>11. /\ hilo'["memoria"] \in ListasDeMemoria(creados')
       /\ hilo'["consola"] \in {<<>>, <<sem_wait("procesoCargado")>>}
  BY <1>9 DEF FInv, HilosBien, ListasDeMemoria
<1>12. QED
  BY <1>4, <1>7, <1>8, <1>10, <1>11, Junta

(* Memoria rejects it: the last process created, which was only there.     *)
LEMMA MemoriaBorra ==
  ASSUME FInv, PTypeOK', BorrarProceso("memoria")
  PROVE  FInv'
<1> DEFINE h == "memoria"
           q == De(h)
<1>1. /\ hilo[h] # <<>> /\ Avanza(h) /\ FijoEnLlamadas
      /\ Llama(h, "borrar_proceso") /\ Head(hilo[h]).op = "borrar_proceso"
      /\ creados' = creados - 1 /\ estado' = [estado EXCEPT ![q] = "NULO"]
      /\ UNCHANGED <<colaCorto, colaLargo, colaEspera, sem, canalDespacho, canalInterrupcion,
                     canalMemoria>>
  BY DEF BorrarProceso, Llama, rvars, colas
<1>2. q \in Pids
  BY <1>1, TipoDeCarga, CampoPid DEF FInv, PTypeOK
<1>3. Head(hilo[h]) = Simple("borrar_proceso", creados) /\ Tail(hilo[h]) = <<Cargado>>
  BY <1>1, ListaDeMemoria DEF Cargado, Simple, Op, sem_post
<1>4. q = creados
  BY <1>3 DEF De, Simple, Op
<1>5. ~Ubica(Head(hilo[h])) /\ Carga(Head(hilo[h])) /\ Head(hilo[h]).op # "respuesta"
  BY <1>1 DEF Ubica, Carga
<1>6. /\ SinDesalojo' /\ CpuContada' /\ RespuestaContada'
      /\ hilo'[h] = Tail(hilo[h]) /\ \A g \in Hilos : g # h => hilo'[g] = hilo[g]
      /\ \A p \in Pids : /\ EnHilos(p)' = EnHilos(p) /\ EnCorto(p)' = EnCorto(p)
                         /\ EnEspera(p)' = EnEspera(p) /\ EnDespacho(p)' = EnDespacho(p)
                         /\ CargaHilos(p)' + Trata(h, p) = CargaHilos(p)
  BY <1>1, <1>5, CargaQuieta
<1>7. estado \in [Pids -> Estados]
  BY DEF FInv, PTypeOK, TipoTabla
<1>8. ASSUME NEW p \in Pids
      PROVE  Tras(p)
  <2>1. Trata(h, p) = Vale(q, {p}) /\ Vale(q, {p}) = Uno(q = p)
    BY <1>5 DEF Trata, Uno, Vale
  <2>2. /\ EnHilos(p) \in Nat /\ EnCorto(p) \in Nat /\ EnEspera(p) \in Nat
        /\ EnDespacho(p) \in Nat /\ EnContexto(p) \in Nat /\ EnCpu(p) \in Nat /\ EnCamino(p) \in Nat
        /\ CargaHilos(p) \in Nat /\ EnLargo(p) \in Nat /\ EnMemoria(p) \in Nat
        /\ EnAdmision(p) \in Nat /\ CargaHilos(p)' \in Nat
    BY LugaresNaturales, LugaresNaturalesDespues DEF NumerosNaturales, FInv
  <2>3. EnMemoria(p)' = EnMemoria(p) /\ EnLargo(p)' = EnLargo(p)
    BY <1>1 DEF EnMemoria, EnLargo
  <2>4. CargaHilos(p)' + Trata(h, p) = CargaHilos(p)
    BY <1>6
  <2>5. CASE p # q
    <3>1. CargaHilos(p)' = CargaHilos(p)
      BY <2>1, <2>2, <2>4, <2>5 DEF Uno
    <3>2. /\ EnHilos(p)' + EnCorto(p)' + EnEspera(p)' = EnHilos(p) + EnCorto(p) + EnEspera(p)
          /\ CargaHilos(p)' + EnLargo(p)' = CargaHilos(p) + EnLargo(p) /\ EnHilos(p)' <= EnHilos(p)
      BY <1>6, <2>2, <2>3, <3>1
    <3>3. estado'[p] = estado[p]
      BY <1>1, <1>2, <1>7, <2>5
    <3>4. QED
      BY <1>1, <1>6, <2>3, <3>2, <3>3, TrasMudanza DEF FInv
  <2>6. CASE p = q
    <3>1. /\ EnContexto(p)' = EnContexto(p) /\ EnCamino(p)' = EnCamino(p)
          /\ EnCpu(p)' = EnCpu(p) /\ EnAdmision(p)' = EnAdmision(p)
      BY <1>1, FijoLugares
    <3>2. CargaHilos(p)' + 1 = CargaHilos(p)
      BY <2>1, <2>4, <2>6 DEF Uno
    <3>3. Lugares(p) = Vivo(p) /\ LugaresDeCarga(p) = Nuevo(p) /\ Nuevo(p) \in {0, 1}
      BY DEF FInv, LugaresContados, Nuevo, Uno
    <3>4. LugaresDeCarga(p)' + 1 = LugaresDeCarga(p)
      BY <2>2, <2>3, <3>1, <3>2 DEF LugaresDeCarga
    <3>5. LugaresDeCarga(p) \in Nat /\ LugaresDeCarga(p)' \in Nat
      BY <2>2, <2>3, <3>1 DEF LugaresDeCarga
    <3>6. LugaresDeCarga(p)' = 0 /\ Nuevo(p) = 1
      BY <3>3, <3>4, <3>5
    <3>7. estado[p] = "NEW"
      BY <3>6 DEF Nuevo, Uno
    <3>8. Lugares(p)' = 0
      <4>1. Lugares(p) = 0
        BY <3>3, <3>7 DEF Vivo, Uno, Admitida
      <4>2. Lugares(p)' = Lugares(p)
        BY <1>6, <3>1 DEF Lugares
      <4>3. QED
        BY <4>1, <4>2
    <3>9. estado'[p] = "NULO"
      BY <1>1, <1>2, <1>7, <2>6
    <3>10. Vivo(p)' = 0 /\ Nuevo(p)' = 0
      BY <3>9 DEF Vivo, Nuevo, Uno, Admitida
    <3>11. p \notin EnManosDeNadie
      BY <3>7 DEF EnManosDeNadie, Admitida
    <3>12. Mudado(p) /\ EnDespacho(p)' = EnDespacho(p)
      BY <1>6, <3>7, <3>9 DEF Mudado
    <3>13. QED
      BY <3>6, <3>8, <3>10, <3>11, <3>12 DEF Tras
  <2>7. QED
    BY <2>5, <2>6
<1>9. EnManosDeNadie \subseteq EnManosDeNadie'
  BY <1>8 DEF Tras, EnManosDeNadie
<1>10. \A g \in Corrientes : Ordenados(g)
  <2>1. \A g \in Corrientes : hilo'[g] = hilo[g]
    BY <1>6 DEF Corrientes
  <2>2. QED
    BY <1>9, <2>1, SiguenLibres DEF FInv
<1>11. LugaresContados'
  BY <1>8 DEF Tras, LugaresContados
<1>12. hilo'[h] = <<Cargado>> /\ hilo'["consola"] = hilo["consola"]
  BY <1>3, <1>6, TipoDeCarga
<1>13. CargaEnOrden'
  <2>1. EnCarga' = EnCarga /\ hilo'[h] # <<>>
    BY <1>1, <1>12 DEF EnCarga
  <2>2. EnCarga = 0
    <3>1. EnCarga + 1 + sem["procesoCargado"] \in {0, 1}
      BY <1>1 DEF FInv, CargaEnOrden, Uno
    <3>2. EnCarga \in Nat /\ sem["procesoCargado"] \in Nat
      BY TipoDeCarga
    <3>3. QED
      BY <3>1, <3>2
  <2>3. \A i \in 1..Len(canalMemoria) : canalMemoria[i].tipo # "cargar"
    <3>1. canalMemoria \in Seq(Pedidos)
      BY DEF FInv, PTypeOK, TipoHilos, Pedidos
    <3>2. \A i \in 1..Len(canalMemoria) : canalMemoria[i] \notin {m \in Pedidos : m.tipo = "cargar"}
      BY <2>2, <3>1, CuentaNatural DEF EnCarga
    <3>3. \A i \in 1..Len(canalMemoria) : canalMemoria[i] \in Pedidos
      BY <3>1, ElementOfSeq
    <3>4. QED
      BY <3>2, <3>3
  <2>4. creados' \in Nat
    BY <1>1, <1>2, <1>4 DEF Pids
  <2>5. \A p \in Pids : p > creados' => estado'[p] = "NULO"
    <3>1. ASSUME NEW p \in Pids, p > creados'
          PROVE  estado'[p] = "NULO"
      <4>1. p = q \/ p > creados
        BY <1>1, <1>2, <1>4, <3>1 DEF Pids
      <4>2. p > creados => estado[p] = "NULO"
        BY DEF FInv, CargaEnOrden
      <4>3. QED
        BY <1>1, <1>2, <1>7, <4>1, <4>2
    <3>2. QED
      BY <3>1
  <2>6. QED
    BY <1>1, <1>12, <2>1, <2>3, <2>4, <2>5 DEF FInv, CargaEnOrden
<1>14. /\ hilo'["memoria"] \in ListasDeMemoria(creados')
       /\ hilo'["consola"] \in {<<>>, <<sem_wait("procesoCargado")>>}
  BY <1>12 DEF FInv, HilosBien, ListasDeMemoria
<1>15. QED
  BY <1>6, <1>10, <1>11, <1>13, <1>14, Junta

LEMMA MemoriaConserva ==
  ASSUME FInv, PTypeOK', Llamada("memoria")
  PROVE  FInv'
<1>1. hilo["memoria"] # <<>>
  BY SoloEsa
<1>2. Head(hilo["memoria"]).op \in {"sem_post", "despertar_largo", "push_colaLargo", "borrar_proceso"}
  BY <1>1, ListaDeMemoria DEF Cargado, Simple, Op, sem_post
<1>3. \/ SemPost("memoria") \/ DespertarLargo("memoria") \/ PushColaLargo("memoria")
      \/ BorrarProceso("memoria")
  BY <1>2, SoloEsa
<1>4. QED
  BY <1>3, MemoriaAvisa, MemoriaPasa, MemoriaBorra


-----------------------------------------------------------------------------
(* The steps of the CPU.                                                   *)
Ocupada == ~interrupcion => (CpuOcupada <=> Ocupacion > 0) /\ Ocupacion \in Nat

LEMMA OcupadaEs == PTypeOK => Ocupada
<1> SUFFICES ASSUME PTypeOK, ~interrupcion
             PROVE  (CpuOcupada <=> Ocupacion > 0) /\ Ocupacion \in Nat
  BY DEF Ocupada
<1>1. ciclo \in Nat
  BY DEF PTypeOK, CPUTypeOK, TipoNucleo
<1>2. CASE cicloPc = "ejecutar" \/ (cicloPc = "controlar" /\ ~bloquear)
  <2>1. Ocupacion = ciclo + 1
    BY <1>1, <1>2 DEF Ocupacion, Uno
  <2>2. QED
    BY <1>1, <1>2, <2>1 DEF CpuOcupada
<1>3. CASE ~(cicloPc = "ejecutar" \/ (cicloPc = "controlar" /\ ~bloquear))
  <2>1. Ocupacion = ciclo
    BY <1>1, <1>3 DEF Ocupacion, Uno
  <2>2. QED
    BY <1>1, <1>3, <2>1 DEF CpuOcupada
<1>4. QED
  BY <1>2, <1>3

LEMMA OcupadaEsDespues == PTypeOK' => Ocupada'
BY OcupadaEs, PTL

(* One process at most is in the CPU or on its way.                        *)
LEMMA UnoEnLaCpu ==
  ASSUME FInv
  PROVE  /\ Cuenta(canalDespacho, Procesos) \in Nat /\ Ocupacion \in Nat /\ Len(canalContexto) \in Nat
         /\ Cuenta(canalDespacho, Procesos) + Ocupacion + Len(canalContexto) \in {0, 1}
         /\ ciclo \in Nat /\ proceso.pid \in Pids \cup {0} /\ ~interrupcion /\ ~avisar
<1>1. ciclo \in Nat /\ proceso.pid \in Pids \cup {0} /\ ~interrupcion /\ ~avisar
  BY DEF FInv, PTypeOK, CPUTypeOK, TipoNucleo, SinDesalojo
<1>2. canalDespacho \in Seq(MensajesDespacho) /\ canalContexto \in Seq(Contextos)
  BY DEF FInv, PTypeOK, CPUTypeOK, TipoCanales, Contextos
<1>3. Cuenta(canalDespacho, Procesos) \in Nat /\ Len(canalContexto) \in Nat
  BY <1>2, CuentaNatural
<1>4. Ocupacion \in Nat
  BY <1>1, OcupadaEs DEF Ocupada, FInv
<1>5. QED
  BY <1>1, <1>3, <1>4 DEF FInv, CpuContada, Uno

(* What every step of the CPU leaves as it is, and what it has to keep.    *)
CuentasDeCpu ==
  /\ Cuenta(canalDespacho', Procesos) + Ocupacion' + Len(canalContexto')
       = Cuenta(canalDespacho, Procesos) + Ocupacion + Len(canalContexto)
  /\ Len(canalContexto') + EnRespuesta' + respuesta' + Debida
       = Len(canalContexto) + EnRespuesta + respuesta + Debida'
  /\ \A p \in Pids : EnDespacho(p)' + EnContexto(p)' + EnCpu(p)'
                       = EnDespacho(p) + EnContexto(p) + EnCpu(p)

LEMMA CpuConserva ==
  ASSUME FInv, PTypeOK', UNCHANGED <<kernel, rvars>>, SinDesalojo', CuentasDeCpu
  PROVE  FInv'
<1>1. /\ UNCHANGED <<algoritmo, creados, estado, colaLargo, colaCorto, sem, hilo, largo, corto,
                     ejecutandoB, relojes, canalMemoria, colaEspera>>
  BY DEF kernel, consigna, tabla, colas, cortoVar, rvars
<1>2. CpuContada'
  <2>1. Procesos' = Procesos
    BY DEF Procesos, MensajesDespacho, Pids
  <2>2. QED
    BY <1>1, <2>1 DEF FInv, CpuContada, CuentasDeCpu
<1>3. RespuestaContada'
  <2>1. PorResponder' = PorResponder
    BY <1>1 DEF PorResponder, responder, Simple, Op, SinArg
  <2>2. NumerosDeLaCpu /\ NumerosDeLaCpu'
    BY NumerosDeRespuesta, NumerosDeRespuestaDespues DEF FInv
  <2>3. /\ PorResponder \in Nat /\ EnRespuesta \in Nat /\ respuesta \in Nat
        /\ Len(canalContexto) \in Nat /\ Debida \in Nat
        /\ EnRespuesta' \in Nat /\ respuesta' \in Nat
        /\ Len(canalContexto') \in Nat /\ Debida' \in Nat
    BY <2>2 DEF NumerosDeLaCpu
  <2>4. Len(canalContexto') + EnRespuesta' + respuesta' + Debida
          = Len(canalContexto) + EnRespuesta + respuesta + Debida'
    BY DEF CuentasDeCpu
  <2>5. Len(canalContexto) + PorResponder + EnRespuesta + respuesta = Debida
    BY DEF FInv, RespuestaContada
  <2>6. Len(canalContexto') + PorResponder' + EnRespuesta' + respuesta' = Debida'
    <3> DEFINE l == Len(canalContexto')
               e == EnRespuesta'
               r == respuesta'
               d == Debida'
               k == Len(canalContexto)
    <3>1. l \in Nat /\ e \in Nat /\ r \in Nat /\ d \in Nat /\ k \in Nat
      BY <2>3
    <3>2. l + e + r + Debida = k + EnRespuesta + respuesta + d
      BY <2>4
    <3>3. k + PorResponder + EnRespuesta + respuesta = Debida
      BY <2>5
    <3>4. SUFFICES l + PorResponder + e + r = d
      BY <2>1
    <3> HIDE DEF l, e, r, d, k
    <3>5. QED
      BY <2>3, <3>1, <3>2, <3>3
  <2>7. QED
    BY <2>6 DEF RespuestaContada
<1>4. \A p \in Pids : /\ EnHilos(p)' = EnHilos(p) /\ EnCorto(p)' = EnCorto(p)
                      /\ EnEspera(p)' = EnEspera(p) /\ EnCamino(p)' = EnCamino(p)
                      /\ LugaresDeCarga(p)' = LugaresDeCarga(p)
                      /\ Vivo(p)' = Vivo(p) /\ Nuevo(p)' = Nuevo(p)
  BY <1>1 DEF EnHilos, EnCorto, EnEspera, EnCamino, LugaresDeCarga, CargaHilos, EnLargo, EnMemoria,
              EnAdmision, Vivo, Nuevo, OpsDe, OpsDeCarga
<1>5. LugaresContados'
  <2>1. ASSUME NEW p \in Pids
        PROVE  Lugares(p)' = Lugares(p)
    <3>1. /\ EnHilos(p) \in Nat /\ EnCorto(p) \in Nat /\ EnEspera(p) \in Nat
          /\ EnDespacho(p) \in Nat /\ EnContexto(p) \in Nat /\ EnCpu(p) \in Nat /\ EnCamino(p) \in Nat
          /\ EnDespacho(p)' \in Nat /\ EnContexto(p)' \in Nat /\ EnCpu(p)' \in Nat
      BY LugaresNaturales, LugaresNaturalesDespues DEF NumerosNaturales, FInv
    <3>2. EnDespacho(p)' + EnContexto(p)' + EnCpu(p)' = EnDespacho(p) + EnContexto(p) + EnCpu(p)
      BY DEF CuentasDeCpu
    <3>3. /\ EnHilos(p)' = EnHilos(p) /\ EnCorto(p)' = EnCorto(p)
          /\ EnEspera(p)' = EnEspera(p) /\ EnCamino(p)' = EnCamino(p)
      BY <1>4
    <3>4. EnHilos(p)' + EnCorto(p)' + EnEspera(p)' + EnDespacho(p)' + EnContexto(p)' + EnCamino(p)'
            + EnCpu(p)'
          = EnHilos(p) + EnCorto(p) + EnEspera(p) + EnDespacho(p) + EnContexto(p) + EnCamino(p) + EnCpu(p)
      BY <3>1, <3>2, <3>3
    <3>5. QED
      BY <3>4 DEF Lugares
  <2>2. QED
    BY <1>4, <2>1 DEF FInv, LugaresContados
<1>6. CargaEnOrden'
  <2>1. EnCarga' = EnCarga
    BY <1>1 DEF EnCarga
  <2>2. QED
    BY <1>1, <2>1 DEF FInv, CargaEnOrden
<1>7. \A g \in Corrientes : Ordenados(g)
  <2>1. EnManosDeNadie \subseteq EnManosDeNadie'
    BY <1>1, <1>4 DEF EnManosDeNadie
  <2>2. QED
    BY <1>1, <2>1, SiguenLibres DEF FInv
<1>8. /\ hilo'["consola"] \in {<<>>, <<sem_wait("procesoCargado")>>}
      /\ hilo'["memoria"] \in ListasDeMemoria(creados')
  BY <1>1 DEF FInv, HilosBien
<1>9. QED
  BY <1>2, <1>3, <1>5, <1>6, <1>7, <1>8, Junta

(* A step inside the CPU.                                                  *)
LEMMA PasoInterno ==
  ASSUME FInv, PTypeOK', UNCHANGED <<kernel, rvars>>, SinDesalojo',
         UNCHANGED <<canalDespacho, canalContexto>>, proceso'.pid = proceso.pid, Ocupacion' = Ocupacion,
         respuesta' + Debida = respuesta + Debida'
  PROVE  FInv'
<1>1. CpuOcupada' <=> CpuOcupada
  BY OcupadaEs, OcupadaEsDespues DEF Ocupada, FInv, SinDesalojo
<1>2. EnRespuesta' = EnRespuesta /\ \A p : EnDespacho(p)' = EnDespacho(p) /\ EnContexto(p)' = EnContexto(p)
  BY DEF EnRespuesta, EnDespacho, EnContexto
<1>3. \A p : EnCpu(p)' = EnCpu(p)
  BY <1>1 DEF EnCpu, Uno
<1>4. NumerosDeLaCpu /\ NumerosDeLaCpu'
  BY NumerosDeRespuesta, NumerosDeRespuestaDespues DEF FInv
<1>5. CuentasDeCpu
  <2>1. Len(canalContexto) + EnRespuesta + (respuesta' + Debida)
          = Len(canalContexto) + EnRespuesta + (respuesta + Debida')
    OBVIOUS
  <2>2. Len(canalContexto') + EnRespuesta' + respuesta' + Debida
          = Len(canalContexto) + EnRespuesta + respuesta + Debida'
    <3> DEFINE a == Len(canalContexto)
               b == EnRespuesta
               c == respuesta
               d == Debida
               e == respuesta'
               f == Debida'
    <3>1. a \in Nat /\ b \in Nat /\ c \in Nat /\ d \in Int /\ e \in Nat /\ f \in Int
      BY <1>4 DEF NumerosDeLaCpu
    <3>2. a + b + (e + d) = a + b + (c + f)
      BY <2>1
    <3>3. a + b + e + d = a + b + c + f
      <4> HIDE DEF a, b, c, d, e, f
      <4> QED
        BY <3>1, <3>2
    <3>4. QED
      BY <1>2, <3>3
  <2>3. QED
    BY <1>2, <1>3, <2>2 DEF CuentasDeCpu
<1>6. QED
  BY <1>5, CpuConserva

LEMMA CicloConserva ==
  ASSUME FInv, PTypeOK', UNCHANGED <<kernel, rvars>>,
         Buscar \/ Calcular \/ Saltar \/ Continuar \/ EsperarRespuesta \/ AtenderInterrupcion
  PROVE  FInv'
<1>1. /\ ~avisar /\ ~interrupcion /\ (cicloPc # "controlar" => ~bloquear)
      /\ ciclo \in Nat /\ respuesta \in Nat /\ bloquear \in BOOLEAN
      /\ proceso \in [pid : Pids \cup {0}, pc : Int]
  BY DEF FInv, SinDesalojo, PTypeOK, CPUTypeOK, TipoNucleo
<1>2. UNCHANGED <<algoritmo, relojes, corto>>
  BY DEF kernel, consigna, cortoVar
<1>3. UNCHANGED <<canalDespacho, canalContexto, canalInterrupcion, avisar, pedido>>
  BY <1>1 DEF Buscar, Calcular, Saltar, Continuar, EsperarRespuesta, AtenderInterrupcion, canales
<1>4. ~interrupcion' /\ proceso'.pid = proceso.pid
  BY <1>1 DEF Buscar, Calcular, Saltar, Continuar, EsperarRespuesta, AtenderInterrupcion, canales
<1>5. cicloPc' # "controlar" => ~bloquear'
  BY <1>1 DEF Buscar, Calcular, Saltar, Continuar, EsperarRespuesta, AtenderInterrupcion
<1>6. SinDesalojo'
  BY <1>1, <1>2, <1>3, <1>4, <1>5 DEF FInv, SinDesalojo
<1>7. Ocupacion' = Ocupacion
  BY <1>1 DEF Buscar, Calcular, Saltar, Continuar, EsperarRespuesta, AtenderInterrupcion, Ocupacion, Uno
<1>8. respuesta' + Debida = respuesta + Debida'
  BY <1>1 DEF Buscar, Calcular, Saltar, Continuar, EsperarRespuesta, AtenderInterrupcion, Debida, Uno
<1>9. QED
  BY <1>3, <1>4, <1>6, <1>7, <1>8, PasoInterno

(* The number of the socket is no process: the pid is compared for nothing.*)
LEMMA InterrupcionConserva ==
  ASSUME DescriptorAjeno, FInv, PTypeOK', UNCHANGED <<kernel, rvars>>, HiloInterrupcion
  PROVE  FInv'
<1>1. /\ ~avisar /\ ~interrupcion /\ pedido \in {0, FdInterrupcion}
      /\ \A i \in 1..Len(canalInterrupcion) : canalInterrupcion[i].pid = FdInterrupcion
      /\ canalInterrupcion \in Seq([motivo : MotivosInterrupcion, pid : Nat \ {0}])
  BY DEF FInv, SinDesalojo, PTypeOK, CPUTypeOK, TipoCanales
<1>2. ~MarcarInterrupcion
  BY <1>1 DEF MarcarInterrupcion
<1>3. /\ avisar' = FALSE /\ pedido' \in {0, FdInterrupcion}
      /\ \A i \in 1..Len(canalInterrupcion') : canalInterrupcion'[i].pid = FdInterrupcion
  <2>1. CASE RecibirInterrupcion
    <3>1. /\ canalInterrupcion # <<>> /\ canalInterrupcion' = Tail(canalInterrupcion)
          /\ pedido' = Head(canalInterrupcion).pid /\ avisar' = avisar
      BY <2>1 DEF RecibirInterrupcion
    <3>2. /\ Head(canalInterrupcion).pid = FdInterrupcion
          /\ \A i \in 1..Len(Tail(canalInterrupcion)) : Tail(canalInterrupcion)[i].pid = FdInterrupcion
      BY <1>1, <3>1
    <3>3. QED
      BY <1>1, <3>1, <3>2
  <2>2. CASE CompararPid
    <3>1. /\ pedido # 0 /\ pedido' = 0 /\ avisar' = (pedido = proceso.pid)
          /\ canalInterrupcion' = canalInterrupcion
      BY <2>2 DEF CompararPid, canales
    <3>2. pedido # proceso.pid
      BY <1>1, <3>1 DEF DescriptorAjeno
    <3>3. QED
      BY <1>1, <3>1, <3>2
  <2>3. QED
    BY <1>2, <2>1, <2>2 DEF HiloInterrupcion
<1>4. UNCHANGED <<canalDespacho, canalContexto, proceso, ciclo, respuesta, cicloPc, bloquear, interrupcion>>
  BY <1>2 DEF HiloInterrupcion, RecibirInterrupcion, CompararPid, canales
<1>5. UNCHANGED <<algoritmo, relojes, corto>>
  BY DEF kernel, consigna, cortoVar
<1>6. SinDesalojo'
  BY <1>1, <1>3, <1>4, <1>5 DEF FInv, SinDesalojo
<1>7. Ocupacion' = Ocupacion /\ Debida' = Debida
  BY <1>4 DEF Ocupacion, Debida
<1>8. QED
  BY <1>4, <1>6, <1>7, PasoInterno

(* The CPU takes a message of its dispatch socket.                         *)
LEMMA DespachoResto ==
  ASSUME PTypeOK, PTypeOK', canalDespacho # <<>>, canalDespacho' = Tail(canalDespacho)
  PROVE  LET m == Head(canalDespacho) IN
         /\ m \in MensajesDespacho
         /\ m.tipo = "proceso" =>
              /\ Cuenta(canalDespacho', Procesos) + 1 = Cuenta(canalDespacho, Procesos)
              /\ EnRespuesta' = EnRespuesta /\ m.pid \in Pids
              /\ \A p \in Pids : EnDespacho(p)' + Vale(m.pid, {p}) = EnDespacho(p)
         /\ m.tipo = "respuesta" =>
              /\ Cuenta(canalDespacho', Procesos) = Cuenta(canalDespacho, Procesos)
              /\ EnRespuesta' + 1 = EnRespuesta
              /\ \A p \in Pids : EnDespacho(p)' = EnDespacho(p)
<1> DEFINE m == Head(canalDespacho)
           R == {x \in MensajesDespacho : x.tipo = "respuesta"}
           D(p) == {x \in MensajesDespacho : x.pid = p}
<1>1. canalDespacho \in Seq(MensajesDespacho) /\ canalDespacho' \in Seq(MensajesDespacho)
  BY DEF PTypeOK, CPUTypeOK, TipoCanales
<1>2. m \in MensajesDespacho
  BY <1>1
<1>3. \A S : Cuenta(canalDespacho, S) = Cuenta(canalDespacho', S) + Vale(m, S)
  BY <1>1, CuentaResto
<1>4. /\ EnRespuesta = Cuenta(canalDespacho, R) /\ EnRespuesta' = Cuenta(canalDespacho', R)
      /\ \A p : EnDespacho(p) = Cuenta(canalDespacho, D(p)) /\ EnDespacho(p)' = Cuenta(canalDespacho', D(p))
  BY DEF EnRespuesta, EnDespacho
<1>5. \A S : Cuenta(canalDespacho', S) \in Nat
  BY <1>1, CuentaNatural
<1>6. ASSUME m.tipo = "proceso"
      PROVE  /\ Vale(m, Procesos) = 1 /\ Vale(m, R) = 0 /\ m.pid \in Pids
             /\ \A p \in Pids : Vale(m, D(p)) = Vale(m.pid, {p})
  BY <1>2, <1>6 DEF Vale, Procesos, MensajesDespacho
<1>7. ASSUME m.tipo = "respuesta"
      PROVE  /\ Vale(m, Procesos) = 0 /\ Vale(m, R) = 1
             /\ \A p \in Pids : Vale(m, D(p)) = 0
  BY <1>2, <1>7 DEF Vale, Procesos, MensajesDespacho, Pids
<1> HIDE DEF m, R, D
<1>8. ASSUME m.tipo = "proceso"
      PROVE  /\ Cuenta(canalDespacho', Procesos) + 1 = Cuenta(canalDespacho, Procesos)
             /\ EnRespuesta' = EnRespuesta /\ m.pid \in Pids
             /\ \A p \in Pids : EnDespacho(p)' + Vale(m.pid, {p}) = EnDespacho(p)
  <2>1. Cuenta(canalDespacho', Procesos) + 1 = Cuenta(canalDespacho, Procesos)
    BY <1>3, <1>6, <1>8
  <2>2. EnRespuesta' = EnRespuesta
    BY <1>3, <1>4, <1>5, <1>6, <1>8
  <2>3. \A p \in Pids : EnDespacho(p)' + Vale(m.pid, {p}) = EnDespacho(p)
    BY <1>3, <1>4, <1>6, <1>8
  <2>4. QED
    BY <1>6, <1>8, <2>1, <2>2, <2>3
<1>9. ASSUME m.tipo = "respuesta"
      PROVE  /\ Cuenta(canalDespacho', Procesos) = Cuenta(canalDespacho, Procesos)
             /\ EnRespuesta' + 1 = EnRespuesta
             /\ \A p \in Pids : EnDespacho(p)' = EnDespacho(p)
  <2>1. Cuenta(canalDespacho', Procesos) = Cuenta(canalDespacho, Procesos)
    BY <1>3, <1>5, <1>7, <1>9
  <2>2. EnRespuesta' + 1 = EnRespuesta
    BY <1>3, <1>4, <1>7, <1>9
  <2>3. \A p \in Pids : EnDespacho(p)' = EnDespacho(p)
    BY <1>3, <1>4, <1>5, <1>7, <1>9
  <2>4. QED
    BY <2>1, <2>2, <2>3
<1>10. QED
  BY <1>2, <1>8, <1>9 DEF m

LEMMA RecibirRespuestaConserva ==
  ASSUME FInv, PTypeOK', UNCHANGED <<kernel, rvars>>, RecibirRespuesta
  PROVE  FInv'
<1>1. /\ canalDespacho # <<>> /\ Head(canalDespacho).tipo = "respuesta"
      /\ canalDespacho' = Tail(canalDespacho) /\ respuesta' = respuesta + 1
      /\ UNCHANGED <<canalContexto, canalInterrupcion, proceso, ciclo, cicloPc, bloquear,
                     interrupcion, avisar, pedido>>
  BY DEF RecibirRespuesta
<1>2. UNCHANGED <<algoritmo, relojes, corto>>
  BY DEF kernel, consigna, cortoVar
<1>3. SinDesalojo'
  BY <1>1, <1>2 DEF FInv, SinDesalojo
<1>4. /\ Cuenta(canalDespacho', Procesos) = Cuenta(canalDespacho, Procesos)
      /\ EnRespuesta' + 1 = EnRespuesta
      /\ \A p \in Pids : EnDespacho(p)' = EnDespacho(p)
  BY <1>1, DespachoResto DEF FInv
<1>5. /\ Ocupacion' = Ocupacion /\ Debida' = Debida
      /\ \A p : EnContexto(p)' = EnContexto(p) /\ EnCpu(p)' = EnCpu(p)
  BY <1>1 DEF Ocupacion, Debida, EnContexto, EnCpu, CpuOcupada
<1>6. EnRespuesta' \in Nat /\ respuesta \in Nat /\ Len(canalContexto) \in Nat /\ Debida \in Nat
  BY NumerosDeRespuesta, NumerosDeRespuestaDespues DEF NumerosDeLaCpu, FInv
<1>7. Len(canalContexto') + EnRespuesta' + respuesta' + Debida
       = Len(canalContexto) + EnRespuesta + respuesta + Debida'
  <2> DEFINE e == EnRespuesta'
             k == Len(canalContexto)
  <2>1. e + 1 = EnRespuesta /\ e \in Nat /\ k \in Nat
    BY <1>4, <1>6
  <2> HIDE DEF e, k
  <2>2. k + e + (respuesta + 1) + Debida = k + (e + 1) + respuesta + Debida
    BY <1>6, <2>1
  <2>3. QED
    BY <1>1, <1>5, <2>1, <2>2 DEF e, k
<1>8. CuentasDeCpu
  BY <1>1, <1>4, <1>5, <1>7 DEF CuentasDeCpu
<1>9. QED
  BY <1>3, <1>8, CpuConserva

LEMMA RecibirProcesoConserva ==
  ASSUME FInv, PTypeOK', UNCHANGED <<kernel, rvars>>, RecibirProceso
  PROVE  FInv'
<1> DEFINE m == Head(canalDespacho)
<1>1. /\ canalDespacho # <<>> /\ m.tipo = "proceso"
      /\ canalDespacho' = Tail(canalDespacho) /\ ciclo' = ciclo + 1
      /\ proceso' = [pid |-> m.pid, pc |-> m.pc]
      /\ UNCHANGED <<canalContexto, canalInterrupcion, respuesta, cicloPc, bloquear,
                     interrupcion, avisar, pedido>>
  BY DEF RecibirProceso
<1>2. UNCHANGED <<algoritmo, relojes, corto>>
  BY DEF kernel, consigna, cortoVar
<1>3. SinDesalojo'
  BY <1>1, <1>2 DEF FInv, SinDesalojo
<1>4. /\ Cuenta(canalDespacho', Procesos) + 1 = Cuenta(canalDespacho, Procesos)
      /\ EnRespuesta' = EnRespuesta
      /\ \A p \in Pids : EnDespacho(p)' + Vale(m.pid, {p}) = EnDespacho(p)
  BY <1>1, DespachoResto DEF FInv
<1> HIDE DEF m
<1>5. /\ Debida' = Debida /\ \A p : EnContexto(p)' = EnContexto(p)
  BY <1>1 DEF Debida, EnContexto
<1>6. /\ Cuenta(canalDespacho, Procesos) \in Nat /\ Ocupacion \in Nat /\ Len(canalContexto) \in Nat
      /\ Cuenta(canalDespacho, Procesos) + Ocupacion + Len(canalContexto) \in {0, 1}
      /\ ciclo \in Nat /\ ~interrupcion
  BY UnoEnLaCpu
<1>7. Cuenta(canalDespacho', Procesos) \in Nat
  BY CuentaNatural DEF PTypeOK, CPUTypeOK, TipoCanales
<1>8. Ocupacion = 0
  BY <1>4, <1>6, <1>7
<1>9. Ocupacion' = Ocupacion + 1
  BY <1>1, <1>6 DEF Ocupacion, Uno
<1>10. CpuOcupada' /\ ~CpuOcupada
  <2>1. CpuOcupada <=> Ocupacion > 0
    BY <1>6, OcupadaEs DEF Ocupada, FInv
  <2>2. CpuOcupada' <=> Ocupacion' > 0
    BY <1>1, <1>6, OcupadaEsDespues DEF Ocupada
  <2>3. QED
    BY <1>8, <1>9, <2>1, <2>2
<1>11. \A p \in Pids : EnCpu(p) = 0 /\ EnCpu(p)' = Vale(m.pid, {p})
  BY <1>1, <1>10 DEF EnCpu, Uno, Vale
<1>12. ASSUME NEW p \in Pids
       PROVE  EnDespacho(p)' + EnContexto(p)' + EnCpu(p)' = EnDespacho(p) + EnContexto(p) + EnCpu(p)
  <2>1. EnContexto(p) \in Nat /\ EnDespacho(p) \in Nat /\ EnDespacho(p)' \in Nat
    BY LugaresNaturales, LugaresNaturalesDespues DEF NumerosNaturales, FInv
  <2>2. Vale(m.pid, {p}) \in Nat
    BY DEF Vale
  <2>3. QED
    BY <1>4, <1>5, <1>11, <2>1, <2>2
<1>13. Cuenta(canalDespacho', Procesos) + Ocupacion' + Len(canalContexto')
         = Cuenta(canalDespacho, Procesos) + Ocupacion + Len(canalContexto)
  BY <1>1, <1>4, <1>6, <1>7, <1>9
<1>14. CuentasDeCpu
  BY <1>1, <1>4, <1>5, <1>12, <1>13 DEF CuentasDeCpu
<1>15. QED
  BY <1>3, <1>14, CpuConserva

(* The CPU sends a process back with a reason of its own.                  *)
Devuelve(x) ==
  /\ x \in Contextos /\ x.pid = proceso.pid /\ x.motivo \in MotivosFIFO
  /\ canalContexto' = Append(canalContexto, x)

LEMMA DevolverConserva ==
  ASSUME FInv, PTypeOK', UNCHANGED <<kernel, rvars>>, NEW x, Devuelve(x),
         cicloPc = "ejecutar", bloquear' = TRUE, cicloPc' = "controlar",
         UNCHANGED <<canalDespacho, canalInterrupcion, ciclo, respuesta, interrupcion, avisar, pedido>>
  PROVE  FInv'
<1>1. UNCHANGED <<algoritmo, relojes, corto>>
  BY DEF kernel, consigna, cortoVar
<1>2. canalContexto \in Seq(Contextos)
  BY DEF FInv, PTypeOK, CPUTypeOK, TipoCanales, Contextos
<1>3. SinDesalojo'
  <2>1. \A i \in 1..Len(canalContexto') : canalContexto'[i].motivo \in MotivosFIFO
    BY <1>2 DEF FInv, SinDesalojo, Devuelve
  <2>2. MotivosFIFO' = MotivosFIFO
    BY DEF MotivosFIFO, MotivoDe, Syscalls
  <2>3. QED
    BY <1>1, <2>1, <2>2 DEF FInv, SinDesalojo
<1>4. Len(canalContexto') = Len(canalContexto) + 1
  BY <1>2 DEF Devuelve
<1>5. /\ Cuenta(canalDespacho, Procesos) \in Nat /\ Ocupacion \in Nat /\ Len(canalContexto) \in Nat
      /\ Cuenta(canalDespacho, Procesos) + Ocupacion + Len(canalContexto) \in {0, 1}
      /\ ciclo \in Nat /\ ~interrupcion
  BY UnoEnLaCpu
<1>6. Ocupacion = ciclo + 1 /\ Ocupacion' = ciclo
  BY <1>5 DEF Ocupacion, Uno
<1>7. ciclo = 0
  BY <1>5, <1>6
<1>8. CpuOcupada /\ ~CpuOcupada'
  <2>1. CpuOcupada <=> Ocupacion > 0
    BY <1>5, OcupadaEs DEF Ocupada, FInv
  <2>2. CpuOcupada' <=> Ocupacion' > 0
    BY <1>5, OcupadaEsDespues DEF Ocupada
  <2>3. QED
    BY <1>6, <1>7, <2>1, <2>2
<1>9. ASSUME NEW p \in Pids
      PROVE  EnDespacho(p)' + EnContexto(p)' + EnCpu(p)' = EnDespacho(p) + EnContexto(p) + EnCpu(p)
  <2> DEFINE S == {y \in Contextos : y.pid = p}
  <2>1. Cuenta(Append(canalContexto, x), S) = Cuenta(canalContexto, S) + Vale(x, S)
    BY <1>2, CuentaAgregar DEF Devuelve
  <2>2. EnContexto(p) = Cuenta(canalContexto, S) /\ EnContexto(p)' = Cuenta(canalContexto', S)
    BY DEF EnContexto
  <2>3. Vale(x, S) = Vale(proceso.pid, {p})
    BY DEF Vale, Devuelve
  <2>4. EnCpu(p) = Vale(proceso.pid, {p}) /\ EnCpu(p)' = 0
    BY <1>8 DEF EnCpu, Uno, Vale
  <2>5. EnDespacho(p)' = EnDespacho(p)
    BY DEF EnDespacho
  <2>6. EnContexto(p) \in Nat /\ EnDespacho(p) \in Nat
    BY LugaresNaturales DEF NumerosNaturales, FInv
  <2>7. EnContexto(p)' = EnContexto(p) + Vale(proceso.pid, {p})
    <3> HIDE DEF S
    <3>1. canalContexto' = Append(canalContexto, x)
      BY DEF Devuelve
    <3>2. QED
      BY <2>1, <2>2, <2>3, <3>1, Zenon
  <2>8. Vale(proceso.pid, {p}) \in Nat
    BY DEF Vale
  <2>9. QED
    BY <2>4, <2>5, <2>6, <2>7, <2>8
<1>10. Cuenta(canalDespacho', Procesos) + Ocupacion' + Len(canalContexto')
         = Cuenta(canalDespacho, Procesos) + Ocupacion + Len(canalContexto)
  BY <1>4, <1>5, <1>6
<1>11. Len(canalContexto') + EnRespuesta' + respuesta' + Debida
         = Len(canalContexto) + EnRespuesta + respuesta + Debida'
  <2>1. Debida = 0 /\ Debida' = 1
    BY DEF Debida, Uno, FInv, SinDesalojo
  <2>2. EnRespuesta' = EnRespuesta
    BY DEF EnRespuesta
  <2>3. EnRespuesta \in Nat /\ respuesta \in Nat /\ Len(canalContexto) \in Nat
    BY NumerosDeRespuesta DEF NumerosDeLaCpu, FInv
  <2>4. QED
    BY <1>4, <2>1, <2>2, <2>3
<1>12. CuentasDeCpu
  BY <1>9, <1>10, <1>11 DEF CuentasDeCpu
<1>13. QED
  BY <1>3, <1>12, CpuConserva

LEMMA SalidaDeLaCpuConserva ==
  ASSUME FInv, PTypeOK', UNCHANGED <<kernel, rvars>>, PedirKernel \/ FallarPagina
  PROVE  FInv'
<1>1. /\ cicloPc = "ejecutar" /\ bloquear' = TRUE /\ cicloPc' = "controlar"
      /\ UNCHANGED <<canalDespacho, canalInterrupcion, ciclo, respuesta, interrupcion, avisar, pedido>>
  BY DEF PedirKernel, FallarPagina
<1>2. PICK x \in {Contexto("page_fault", proceso.pc - 1, instruccion.arg),
                  Contexto(MotivoDe[instruccion.op], proceso.pc, instruccion.arg)} :
        /\ canalContexto' = Append(canalContexto, x)
        /\ x.motivo = "page_fault" \/ (x.motivo = MotivoDe[instruccion.op] /\ instruccion.op \in Syscalls)
  BY DEF PedirKernel, FallarPagina, Contexto
<1>3. x.motivo \in MotivosFIFO
  BY <1>2 DEF MotivosFIFO
<1>4. /\ instruccion.arg \in Args \cup {0} /\ proceso.pid \in Pids /\ proceso.pc \in Int
  BY <1>1 DEF FInv, PTypeOK, CPUTypeOK, TipoNucleo, TieneProceso
<1>5. x \in Contextos /\ x.pid = proceso.pid
  BY <1>2, <1>3, <1>4 DEF Contexto, Contextos, MotivosContexto, MotivosFIFO
<1>6. QED
  BY <1>1, <1>2, <1>3, <1>5, DevolverConserva DEF Devuelve

LEMMA CpuPasoConserva ==
  ASSUME DescriptorAjeno, FInv, PTypeOK', CPUPaso
  PROVE  FInv'
<1>1. UNCHANGED <<kernel, rvars>> /\ CPUNext
  BY DEF CPUPaso
<1>2. QED
  BY <1>1, CicloConserva, InterrupcionConserva, RecibirRespuestaConserva, RecibirProcesoConserva,
     SalidaDeLaCpuConserva DEF CPUNext, HiloCiclo, HiloDespacho

-----------------------------------------------------------------------------
(* The socket thread attends the context of the CPU.                       *)
LEMMA UnicoLugar ==
  ASSUME FInv, NEW p \in Pids
  PROVE  /\ EnContexto(p) > 0 => estado[p] \in Admitida /\ EnHilos(p) = 0 /\ EnContexto(p) = 1
         /\ EnCorto(p) > 0 => estado[p] \in Admitida /\ EnHilos(p) = 0 /\ EnCamino(p) = 0
         /\ EnCamino(p) > 0 => estado[p] \in Admitida /\ EnHilos(p) = 0 /\ EnCamino(p) = 1
         /\ EnAdmision(p) > 0 => estado[p] = "NEW" /\ Lugares(p) = 0 /\ EnAdmision(p) = 1
<1>1. Lugares(p) = Vivo(p) /\ LugaresDeCarga(p) = Nuevo(p)
  BY DEF FInv, LugaresContados
<1>2. /\ Vivo(p) \in {0, 1} /\ Nuevo(p) \in {0, 1}
      /\ Vivo(p) = 1 => estado[p] \in Admitida
      /\ Nuevo(p) = 1 => estado[p] = "NEW" /\ Vivo(p) = 0
  BY DEF Uno, Vivo, Nuevo, Admitida
<1>3. /\ EnHilos(p) \in Nat /\ EnCorto(p) \in Nat /\ EnEspera(p) \in Nat
      /\ EnDespacho(p) \in Nat /\ EnContexto(p) \in Nat /\ EnCpu(p) \in Nat /\ EnCamino(p) \in Nat
      /\ CargaHilos(p) \in Nat /\ EnLargo(p) \in Nat /\ EnMemoria(p) \in Nat
      /\ EnAdmision(p) \in Nat
  BY LugaresNaturales DEF NumerosNaturales, FInv
<1>4. EnHilos(p) + EnCorto(p) + EnEspera(p) + EnDespacho(p) + EnContexto(p) + EnCamino(p) + EnCpu(p) = Vivo(p)
  BY <1>1 DEF Lugares
<1>5. CargaHilos(p) + EnLargo(p) + EnMemoria(p) + EnAdmision(p) = Nuevo(p)
  BY <1>1 DEF LugaresDeCarga
<1> DEFINE a == EnHilos(p)
           b == EnCorto(p)
           c == EnEspera(p)
           d == EnDespacho(p)
           e == EnContexto(p)
           f == EnCamino(p)
           g == EnCpu(p)
           v == Vivo(p)
           w == CargaHilos(p)
           x == EnLargo(p)
           y == EnMemoria(p)
           z == EnAdmision(p)
           n == Nuevo(p)
<1>6. /\ a \in Nat /\ b \in Nat /\ c \in Nat /\ d \in Nat /\ e \in Nat /\ f \in Nat /\ g \in Nat
      /\ w \in Nat /\ x \in Nat /\ y \in Nat /\ z \in Nat /\ v \in {0, 1} /\ n \in {0, 1}
      /\ a + b + c + d + e + f + g = v /\ w + x + y + z = n
  BY <1>2, <1>3, <1>4, <1>5
<1> HIDE DEF a, b, c, d, e, f, g, v, w, x, y, z, n
<1>7. /\ b > 0 => v = 1 /\ a = 0 /\ f = 0
      /\ e > 0 => v = 1 /\ a = 0 /\ e = 1
      /\ f > 0 => v = 1 /\ a = 0 /\ f = 1
      /\ z > 0 => n = 1 /\ z = 1
  BY <1>6
<1>8. QED
  BY <1>1, <1>2, <1>7 DEF a, b, c, d, e, f, g, v, w, x, y, z, n

(* The first context, and what remains of the channel.                     *)
LEMMA ContextoResto ==
  ASSUME FInv, PTypeOK', canalContexto # <<>>, canalContexto' = Tail(canalContexto)
  PROVE  LET m == Head(canalContexto) IN
         /\ m \in Contextos /\ m.motivo \in MotivosFIFO
         /\ Len(canalContexto') + 1 = Len(canalContexto) /\ Len(canalContexto') \in Nat
         /\ \A i \in 1..Len(canalContexto') : canalContexto'[i].motivo \in MotivosFIFO
         /\ \A p \in Pids : EnContexto(p)' + Vale(m.pid, {p}) = EnContexto(p)
<1> DEFINE m == Head(canalContexto)
           D(p) == {x \in Contextos : x.pid = p}
<1>1. canalContexto \in Seq(Contextos)
  BY DEF FInv, PTypeOK, CPUTypeOK, TipoCanales, Contextos
<1>2. m \in Contextos /\ m = canalContexto[1] /\ 1 \in 1..Len(canalContexto)
  BY <1>1
<1>3. m.motivo \in MotivosFIFO
  BY <1>2 DEF FInv, SinDesalojo
<1>4. Len(canalContexto') + 1 = Len(canalContexto) /\ Len(canalContexto') \in Nat
  BY <1>1
<1>5. \A i \in 1..Len(canalContexto') : canalContexto'[i].motivo \in MotivosFIFO
  BY <1>1 DEF FInv, SinDesalojo
<1>6. ASSUME NEW p \in Pids
      PROVE  EnContexto(p)' + Vale(m.pid, {p}) = EnContexto(p)
  <2>1. Cuenta(canalContexto, D(p)) = Cuenta(Tail(canalContexto), D(p)) + Vale(m, D(p))
    BY <1>1, CuentaResto
  <2>2. Vale(m, D(p)) = Vale(m.pid, {p})
    BY <1>2 DEF Vale
  <2>3. EnContexto(p) = Cuenta(canalContexto, D(p)) /\ EnContexto(p)' = Cuenta(canalContexto', D(p))
    BY DEF EnContexto
  <2> HIDE DEF m, D
  <2>4. QED
    BY <2>1, <2>2, <2>3
<1>7. QED
  BY <1>2, <1>3, <1>4, <1>5, <1>6

(* A thread that had nothing to do is given a list of calls.               *)
Dale(h, ops) == hilo[h] = <<>> /\ hilo' = [hilo EXCEPT ![h] = ops]

LEMMA DaLista ==
  ASSUME PTypeOK, PTypeOK', NEW h \in Hilos, NEW ops \in Seq(Conocidas), Dale(h, ops), NEW S
  PROVE  CuentaEn(hilo', S) = CuentaEn(hilo, S) + Cuenta(ops, S)
<1>1. Familia(hilo, Hilos, Conocidas) /\ Familia(hilo', Hilos, Conocidas)
  BY DEF PTypeOK, TipoHilos, Familia
<1>2. SoloEn(hilo, hilo', Hilos, h) /\ hilo'[h] = ops /\ hilo[h] = <<>>
  BY DEF PTypeOK, TipoHilos, SoloEn, Dale
<1>3. CuentaEn(hilo', S) + Cuenta(hilo[h], S) = CuentaEn(hilo, S) + Cuenta(hilo'[h], S)
  BY <1>1, <1>2, HilosFinitos, CuentaEnCambia
<1>4. Cuenta(hilo[h], S) = 0 /\ Cuenta(hilo'[h], S) = Cuenta(ops, S)
  BY <1>2, CuentaVacia
<1>5. CuentaEn(hilo', S) \in Nat
  BY <1>1, HilosFinitos, CuentaEnNatural DEF Familia
<1>6. QED
  BY <1>3, <1>4, <1>5

LEMMA ContextoRecibido ==
  ASSUME FInv, PTypeOK', RecibirContexto
  PROVE  LET m == Head(canalContexto)
             ops == Atencion(m.motivo, m.pid, m.arg) IN
         /\ m.pid \in Pids /\ ops \in Seq(Conocidas)
         /\ EnOrden("despacho", ops, m.pid) /\ Responde(ops) /\ Dale("despacho", ops)
         /\ EnContexto(m.pid) = 1 /\ EnHilos(m.pid) = 0 /\ estado[m.pid] \in Admitida
<1> DEFINE m == Head(canalContexto)
           ops == Atencion(m.motivo, m.pid, m.arg)
<1>1. canalContexto # <<>> /\ canalContexto' = Tail(canalContexto) /\ hilo["despacho"] = <<>>
  BY DEF RecibirContexto
<1>2. /\ m \in Contextos /\ m.motivo \in MotivosFIFO
      /\ \A p \in Pids : EnContexto(p)' + Vale(m.pid, {p}) = EnContexto(p)
  BY <1>1, ContextoResto
<1>3. m.pid \in Pids /\ m.arg \in Args \cup {0} /\ m.motivo \in MotivosContexto
  BY <1>2 DEF Contextos
<1>4. ops \in Seq(Conocidas) /\ EnOrden("despacho", ops, m.pid) /\ Responde(ops)
  BY <1>2, <1>3, AtencionTipo, AtencionEnOrden
<1>5. /\ IF estado[m.pid] = "TERMINATED" THEN UNCHANGED <<pcb, hilo>>
         ELSE /\ pcb' = [pcb EXCEPT ![m.pid] = m.pc]
              /\ hilo' = [hilo EXCEPT !["despacho"] = ops]
  BY DEF RecibirContexto
<1> HIDE DEF m, ops
<1>6. EnContexto(m.pid) > 0
  <2>1. PICK q \in Pids : q = m.pid
    BY <1>3
  <2>2. EnContexto(q)' + Vale(q, {q}) = EnContexto(q)
    BY <1>2, <2>1
  <2>3. Vale(q, {q}) = 1
    BY DEF Vale
  <2>4. EnContexto(q)' \in Nat /\ EnContexto(q) \in Nat
    BY LugaresNaturales, LugaresNaturalesDespues DEF NumerosNaturales, FInv
  <2>5. EnContexto(q) > 0
    BY <2>2, <2>3, <2>4
  <2>6. QED
    BY <2>1, <2>5
<1>7. EnContexto(m.pid) = 1 /\ EnHilos(m.pid) = 0 /\ estado[m.pid] \in Admitida
  BY <1>3, <1>6, UnicoLugar
<1>8. hilo' = [hilo EXCEPT !["despacho"] = ops]
  BY <1>5, <1>7 DEF Admitida
<1>9. QED
  BY <1>1, <1>3, <1>4, <1>7, <1>8 DEF Dale, m, ops

LEMMA RecibirContextoConserva ==
  ASSUME FInv, PTypeOK', RecibirContexto
  PROVE  FInv'
<1> DEFINE m == Head(canalContexto)
           ops == Atencion(m.motivo, m.pid, m.arg)
<1>1. /\ canalContexto # <<>> /\ canalContexto' = Tail(canalContexto) /\ ejecutandoB' = FALSE
      /\ UNCHANGED <<algoritmo, creados, estado, colaLargo, colaCorto, sem, largo, corto, relojes,
                     canalDespacho, canalInterrupcion, canalMemoria, colaEspera, avisar, pedido, interrupcion,
                     cicloPc, bloquear, ciclo, respuesta, proceso>>
  BY DEF RecibirContexto, consigna, colas, nucleo, rvars
<1>2. /\ Len(canalContexto') + 1 = Len(canalContexto) /\ Len(canalContexto') \in Nat
      /\ \A i \in 1..Len(canalContexto') : canalContexto'[i].motivo \in MotivosFIFO
      /\ \A p \in Pids : EnContexto(p)' + Vale(m.pid, {p}) = EnContexto(p)
  BY <1>1, ContextoResto
<1>3. /\ m.pid \in Pids /\ ops \in Seq(Conocidas)
      /\ EnOrden("despacho", ops, m.pid) /\ Responde(ops) /\ Dale("despacho", ops)
      /\ EnContexto(m.pid) = 1 /\ EnHilos(m.pid) = 0 /\ estado[m.pid] \in Admitida
  BY ContextoRecibido
<1>4. PICK q \in Pids : q = m.pid
  BY <1>3
<1>5. PICK s \in Seq(Conocidas) : s = ops
  BY <1>3
<1> HIDE DEF m, ops
<1>6. "despacho" \in Hilos /\ hilo \in [Hilos -> Seq(Conocidas)]
  BY DEF FInv, PTypeOK, TipoHilos, Hilos
<1>7. /\ hilo'["despacho"] = s /\ hilo["despacho"] = <<>>
      /\ \A g \in Hilos : g # "despacho" => hilo'[g] = hilo[g]
  BY <1>3, <1>5, <1>6 DEF Dale
<1>8. \A S : CuentaEn(hilo', S) = CuentaEn(hilo, S) + Cuenta(s, S)
  BY <1>3, <1>5, <1>6, DaLista DEF FInv
<1>9. SinDesalojo'
  BY <1>1, <1>2 DEF FInv, SinDesalojo
<1>10. CpuContada'
  <2>1. /\ Cuenta(canalDespacho, Procesos) \in Nat /\ Ocupacion \in Nat /\ Len(canalContexto) \in Nat
        /\ Cuenta(canalDespacho, Procesos) + Ocupacion + Len(canalContexto) \in {0, 1}
    BY UnoEnLaCpu
  <2>2. Cuenta(canalDespacho, Procesos) = 0 /\ Ocupacion = 0 /\ Len(canalContexto') = 0
    BY <1>2, <2>1
  <2>3. corto.pc # "enviar"
    BY <1>2, <2>1 DEF FInv, CpuContada, Uno
  <2>4. Ocupacion' = Ocupacion /\ Cuenta(canalDespacho', Procesos') = Cuenta(canalDespacho, Procesos)
    BY <1>1 DEF Ocupacion, Procesos, MensajesDespacho
  <2>5. QED
    BY <1>1, <2>2, <2>3, <2>4 DEF CpuContada, Uno
<1>11. RespuestaContada'
  <2>1. Cuenta(s, {responder}) = 1
    BY <1>3, <1>5, RespondeCuenta
  <2>2. CuentaEn(hilo', {responder}) = CuentaEn(hilo, {responder}) + Cuenta(s, {responder})
    BY <1>8
  <2>3. responder' = responder
    BY DEF responder, Simple, Op, SinArg
  <2>4. PorResponder' = PorResponder + 1
    BY <2>1, <2>2, <2>3 DEF PorResponder
  <2>5. EnRespuesta' = EnRespuesta /\ Debida' = Debida
    BY <1>1 DEF EnRespuesta, Debida
  <2>6. NumerosDeLaCpu
    BY NumerosDeRespuesta DEF FInv
  <2>7. Len(canalContexto) + PorResponder + EnRespuesta + respuesta = Debida
    BY DEF FInv, RespuestaContada
  <2>8. Len(canalContexto') + PorResponder' + EnRespuesta' + respuesta' = Debida'
    <3> DEFINE l == Len(canalContexto')
    <3>1. l \in Nat /\ Len(canalContexto) = l + 1
      BY <1>2, <2>6 DEF NumerosDeLaCpu
    <3> HIDE DEF l
    <3>2. l + (PorResponder + 1) + EnRespuesta + respuesta = Debida
      BY <2>6, <2>7, <3>1 DEF NumerosDeLaCpu
    <3>3. QED
      BY <1>1, <2>4, <2>5, <3>2 DEF l
  <2>9. QED
    BY <2>8 DEF RespuestaContada
<1>12. ASSUME NEW p \in Pids
       PROVE  /\ Lugares(p)' = Vivo(p)' /\ LugaresDeCarga(p)' = Nuevo(p)'
              /\ p # q => EnHilos(p)' = EnHilos(p)
  <2>1. /\ EnCorto(p)' = EnCorto(p) /\ EnEspera(p)' = EnEspera(p) /\ EnCamino(p)' = EnCamino(p)
        /\ EnDespacho(p)' = EnDespacho(p) /\ EnCpu(p)' = EnCpu(p) /\ EnLargo(p)' = EnLargo(p)
        /\ EnMemoria(p)' = EnMemoria(p) /\ EnAdmision(p)' = EnAdmision(p)
        /\ Vivo(p)' = Vivo(p) /\ Nuevo(p)' = Nuevo(p)
    BY <1>1 DEF EnCorto, EnEspera, EnCamino, EnDespacho, EnCpu, CpuOcupada, EnLargo, EnMemoria,
                EnAdmision, Vivo, Nuevo
  <2>2. Cuenta(s, OpsDe(p)) = Uno(q = p)
    BY <1>3, <1>4, <1>5, TraeCuenta DEF EnOrden
  <2>3. Cuenta(s, OpsDeCarga(p)) = 0
    <3>1. SinCarga(s)
      BY <1>3, <1>5 DEF EnOrden, Comunes, Corriente, SinCarga, Carga
    <3>2. QED
      BY <3>1, SinCargaCuenta
  <2>4. /\ CuentaEn(hilo', OpsDe(p)) = CuentaEn(hilo, OpsDe(p)) + Cuenta(s, OpsDe(p))
        /\ CuentaEn(hilo', OpsDeCarga(p)) = CuentaEn(hilo, OpsDeCarga(p)) + Cuenta(s, OpsDeCarga(p))
    BY <1>8
  <2>5. /\ EnHilos(p) \in Nat /\ EnCorto(p) \in Nat /\ EnEspera(p) \in Nat
        /\ EnDespacho(p) \in Nat /\ EnContexto(p)' \in Nat /\ EnCpu(p) \in Nat /\ EnCamino(p) \in Nat
        /\ CargaHilos(p) \in Nat
    BY LugaresNaturales, LugaresNaturalesDespues DEF NumerosNaturales, FInv
  <2>6. EnHilos(p)' = EnHilos(p) + Uno(q = p)
    BY <2>2, <2>4 DEF EnHilos
  <2>7. CargaHilos(p)' = CargaHilos(p)
    BY <2>3, <2>4, <2>5 DEF CargaHilos
  <2>8. EnContexto(p)' + Uno(q = p) = EnContexto(p) /\ Uno(q = p) \in Nat
    BY <1>2, <1>4 DEF Vale, Uno
  <2>9. Lugares(p)' = Lugares(p)
    <3> DEFINE c == EnContexto(p)'
               u == Uno(q = p)
    <3>1. c \in Nat /\ u \in Nat /\ EnContexto(p) = c + u
      BY <2>5, <2>8
    <3> HIDE DEF c, u
    <3>2. (EnHilos(p) + u) + EnCorto(p) + EnEspera(p) + EnDespacho(p) + c + EnCamino(p) + EnCpu(p)
            = EnHilos(p) + EnCorto(p) + EnEspera(p) + EnDespacho(p) + (c + u) + EnCamino(p) + EnCpu(p)
      BY <2>5, <3>1
    <3>3. QED
      BY <2>1, <2>6, <3>1, <3>2 DEF Lugares, c, u
  <2>10. LugaresDeCarga(p)' = LugaresDeCarga(p)
    BY <2>1, <2>7 DEF LugaresDeCarga
  <2>11. p # q => EnHilos(p)' = EnHilos(p)
    BY <2>5, <2>6 DEF Uno
  <2>12. QED
    BY <2>1, <2>9, <2>10, <2>11 DEF FInv, LugaresContados
<1>13. LugaresContados'
  BY <1>12 DEF LugaresContados
<1>14. CargaEnOrden'
  <2>1. EnCarga' = EnCarga
    BY <1>1 DEF EnCarga
  <2>2. hilo'["memoria"] = hilo["memoria"] /\ hilo'["consola"] = hilo["consola"]
    BY <1>7 DEF Hilos
  <2>3. QED
    BY <1>1, <2>1, <2>2 DEF FInv, CargaEnOrden
<1>15. ASSUME NEW g \in Corrientes
       PROVE  Ordenados(g)
  <2>1. CASE g = "despacho"
    BY <1>3, <1>5, <1>7, <2>1, EncadenadaMayor DEF Ordenados, EnOrden
  <2>2. CASE g # "despacho"
    <3>1. hilo'[g] = hilo[g]
      BY <1>7, <2>2 DEF Corrientes
    <3>2. Encadenada(hilo[g], LibresPara(g)) /\ Comunes(g, hilo[g])
      BY DEF FInv, Encadenadas, HilosBien, Comunes
    <3>3. LibresPara(g) = {} /\ LibresPara(g)' = {}
      BY <2>2 DEF LibresPara
    <3>4. QED
      BY <3>1, <3>2, <3>3 DEF Ordenados
  <2>3. QED
    BY <2>1, <2>2
<1>16. /\ hilo'["consola"] \in {<<>>, <<sem_wait("procesoCargado")>>}
       /\ hilo'["memoria"] \in ListasDeMemoria(creados')
  <2>1. hilo'["memoria"] = hilo["memoria"] /\ hilo'["consola"] = hilo["consola"]
    BY <1>7 DEF Hilos
  <2>2. QED
    BY <1>1, <2>1 DEF FInv, HilosBien
<1>17. QED
  BY <1>9, <1>10, <1>11, <1>13, <1>14, <1>15, <1>16, Junta

-----------------------------------------------------------------------------
(* The steps that leave the CPU and planificador_corto as they are: those  *)
(* of Memoria, of planificador_largo and of the console.                   *)
LEMMA CpuQuieta ==
  ASSUME FInv, UNCHANGED <<algoritmo, cortoVar, cpuVars>>, PorResponder' = PorResponder
  PROVE  /\ SinDesalojo' /\ CpuContada' /\ RespuestaContada'
         /\ \A p \in Pids : /\ EnDespacho(p)' = EnDespacho(p) /\ EnContexto(p)' = EnContexto(p)
                            /\ EnCpu(p)' = EnCpu(p) /\ EnCamino(p)' = EnCamino(p)
<1>1. UNCHANGED <<algoritmo, avisar, pedido, interrupcion, canalContexto, canalDespacho, canalInterrupcion,
                  relojes, corto, ejecutandoB, cicloPc, bloquear, ciclo, respuesta, proceso>>
  BY DEF cortoVar, cpuVars, canales, nucleo
<1>2. SinDesalojo'
  BY <1>1 DEF FInv, SinDesalojo
<1>3. CpuContada'
  BY <1>1 DEF FInv, CpuContada, Ocupacion, Procesos, MensajesDespacho
<1>4. RespuestaContada'
  BY <1>1 DEF FInv, RespuestaContada, EnRespuesta, Debida, MensajesDespacho
<1>5. \A p \in Pids : /\ EnDespacho(p)' = EnDespacho(p) /\ EnContexto(p)' = EnContexto(p)
                      /\ EnCpu(p)' = EnCpu(p) /\ EnCamino(p)' = EnCamino(p)
  BY <1>1 DEF EnDespacho, EnContexto, EnCpu, CpuOcupada, EnCamino
<1>6. QED
  BY <1>2, <1>3, <1>4, <1>5

(* Nobody's calls change.                                                  *)
LEMMA HilosQuietos ==
  ASSUME hilo' = hilo
  PROVE  /\ PorResponder' = PorResponder
         /\ \A p \in Pids : EnHilos(p)' = EnHilos(p) /\ CargaHilos(p)' = CargaHilos(p)
<1>1. responder' = responder
  BY DEF responder, Simple, Op, SinArg
<1>2. \A p \in Pids : OpsDe(p)' = OpsDe(p) /\ OpsDeCarga(p)' = OpsDeCarga(p)
  BY DEF OpsDe, OpsDeCarga
<1>3. QED
  BY <1>1, <1>2 DEF PorResponder, EnHilos, CargaHilos

(* Memoria answers a request of a thread.                                  *)
LEMMA PedidoResto ==
  ASSUME PTypeOK, PTypeOK', canalMemoria # <<>>, canalMemoria' = Tail(canalMemoria)
  PROVE  LET m == Head(canalMemoria) IN
         /\ m \in Pedidos /\ m = canalMemoria[1] /\ 1 \in 1..Len(canalMemoria)
         /\ \A i \in 1..Len(canalMemoria') : canalMemoria'[i] = canalMemoria[i + 1]
                                             /\ i + 1 \in 1..Len(canalMemoria)
         /\ EnCarga' + Uno(m.tipo = "cargar") = EnCarga
         /\ \A p \in Pids : EnMemoria(p)' + Uno(m.tipo = "cargar" /\ m.pid = p) = EnMemoria(p)
<1> DEFINE m == Head(canalMemoria)
           C == {x \in Pedidos : x.tipo = "cargar"}
           D(p) == {x \in Pedidos : x.tipo = "cargar" /\ x.pid = p}
<1>1. canalMemoria \in Seq(Pedidos)
  BY DEF PTypeOK, TipoHilos, Pedidos
<1>2. m \in Pedidos /\ m = canalMemoria[1] /\ 1 \in 1..Len(canalMemoria)
  BY <1>1
<1>3. /\ Len(canalMemoria) \in Nat /\ Len(canalMemoria') = Len(canalMemoria) - 1
      /\ \A i \in 1..Len(canalMemoria') : canalMemoria'[i] = canalMemoria[i + 1]
  BY <1>1, HeadTailProperties
<1>4. \A S : Cuenta(canalMemoria, S) = Cuenta(canalMemoria', S) + Vale(m, S)
  BY <1>1, CuentaResto
<1>5. Vale(m, C) = Uno(m.tipo = "cargar") /\ \A p : Vale(m, D(p)) = Uno(m.tipo = "cargar" /\ m.pid = p)
  BY <1>2 DEF Vale, Uno
<1>6. /\ EnCarga = Cuenta(canalMemoria, C) /\ EnCarga' = Cuenta(canalMemoria', C)
      /\ \A p : EnMemoria(p) = Cuenta(canalMemoria, D(p)) /\ EnMemoria(p)' = Cuenta(canalMemoria', D(p))
  BY DEF EnCarga, EnMemoria
<1> HIDE DEF m, C, D
<1>7. EnCarga' + Uno(m.tipo = "cargar") = EnCarga
  BY <1>4, <1>5, <1>6
<1>8. ASSUME NEW p \in Pids
      PROVE  EnMemoria(p)' + Uno(m.tipo = "cargar" /\ m.pid = p) = EnMemoria(p)
  BY <1>4, <1>5, <1>6
<1>9. \A i \in 1..Len(canalMemoria') : i + 1 \in 1..Len(canalMemoria)
  BY <1>3
<1>10. QED
  BY <1>2, <1>3, <1>7, <1>8, <1>9 DEF m

LEMMA PedidoAtendido ==
  ASSUME FInv, PTypeOK', MemoriaResponde, Head(canalMemoria).tipo # "cargar"
  PROVE  FInv'
<1> DEFINE m == Head(canalMemoria)
<1>1. /\ canalMemoria # <<>> /\ canalMemoria' = Tail(canalMemoria)
      /\ UNCHANGED <<algoritmo, creados, estado, colaLargo, colaCorto, largo, cortoVar, cpuVars,
                     colaEspera>>
  BY DEF MemoriaResponde, tabla, colas, rvars
<1>2. hilo' = hilo /\ (Publica("paginaCargada") \/ Publica("paginasLiberadas"))
  BY DEF MemoriaResponde
<1>3. sem'["procesoCargado"] = sem["procesoCargado"]
  BY <1>2 DEF Publica, FInv, PTypeOK, TipoHilos, Semaforos
<1>4. /\ m \in Pedidos /\ m.tipo # "cargar"
      /\ \A i \in 1..Len(canalMemoria') : canalMemoria'[i] = canalMemoria[i + 1]
                                          /\ i + 1 \in 1..Len(canalMemoria)
      /\ EnCarga' + Uno(m.tipo = "cargar") = EnCarga
      /\ \A p \in Pids : EnMemoria(p)' + Uno(m.tipo = "cargar" /\ m.pid = p) = EnMemoria(p)
  BY <1>1, PedidoResto DEF FInv
<1> HIDE DEF m
<1>5. EnCarga' \in Nat
  BY CuentaNatural DEF EnCarga, PTypeOK, TipoHilos
<1>6. EnCarga' = EnCarga
  BY <1>4, <1>5 DEF Uno
<1>7. ASSUME NEW p \in Pids
      PROVE  EnMemoria(p)' = EnMemoria(p)
  <2>1. EnMemoria(p)' \in Nat
    BY LugaresNaturalesDespues DEF NumerosNaturales
  <2>2. Uno(m.tipo = "cargar" /\ m.pid = p) = 0
    BY <1>4 DEF Uno
  <2>3. EnMemoria(p)' + Uno(m.tipo = "cargar" /\ m.pid = p) = EnMemoria(p)
    BY <1>4
  <2>4. QED
    BY <2>1, <2>2, <2>3
<1>8. /\ PorResponder' = PorResponder
      /\ \A p \in Pids : EnHilos(p)' = EnHilos(p) /\ CargaHilos(p)' = CargaHilos(p)
  BY <1>2, HilosQuietos
<1>9. /\ SinDesalojo' /\ CpuContada' /\ RespuestaContada'
      /\ \A p \in Pids : /\ EnDespacho(p)' = EnDespacho(p) /\ EnContexto(p)' = EnContexto(p)
                         /\ EnCpu(p)' = EnCpu(p) /\ EnCamino(p)' = EnCamino(p)
  BY <1>1, <1>8, CpuQuieta
<1>10. LugaresContados'
  <2>1. \A p \in Pids : /\ EnCorto(p)' = EnCorto(p) /\ EnEspera(p)' = EnEspera(p)
                        /\ EnLargo(p)' = EnLargo(p) /\ EnAdmision(p)' = EnAdmision(p)
                        /\ Vivo(p)' = Vivo(p) /\ Nuevo(p)' = Nuevo(p)
    BY <1>1 DEF EnCorto, EnEspera, EnLargo, EnAdmision, Vivo, Nuevo
  <2>2. \A p \in Pids : Lugares(p)' = Lugares(p) /\ LugaresDeCarga(p)' = LugaresDeCarga(p)
    BY <1>7, <1>8, <1>9, <2>1 DEF Lugares, LugaresDeCarga
  <2>3. QED
    BY <2>1, <2>2 DEF FInv, LugaresContados
<1>11. CargaEnOrden'
  <2>1. \A i \in 1..Len(canalMemoria') :
          canalMemoria'[i].tipo = "cargar" => canalMemoria'[i].pid = creados
    BY <1>4 DEF FInv, CargaEnOrden
  <2>2. QED
    BY <1>1, <1>2, <1>3, <1>6, <2>1 DEF FInv, CargaEnOrden
<1>12. \A g \in Corrientes : Ordenados(g)
  <2>1. EnManosDeNadie \subseteq EnManosDeNadie'
    BY <1>1, <1>8 DEF EnManosDeNadie
  <2>2. QED
    BY <1>2, <2>1, SiguenLibres DEF FInv
<1>13. /\ hilo'["consola"] \in {<<>>, <<sem_wait("procesoCargado")>>}
       /\ hilo'["memoria"] \in ListasDeMemoria(creados')
  BY <1>1, <1>2 DEF FInv, HilosBien
<1>14. QED
  BY <1>9, <1>10, <1>11, <1>12, <1>13, Junta

(* Memoria answers the load of a process, the last one created.            *)
Respuestas(q) == { <<Simple("push_colaLargo", q), Simple("despertar_largo", 0), Cargado>>,
                   <<Simple("borrar_proceso", q), Cargado>> }

LEMMA RespuestaDeCarga ==
  ASSUME NEW q \in Pids, NEW ops \in Respuestas(q), NEW p \in Pids
  PROVE  /\ ops \in Seq(Conocidas) /\ ops # <<>> /\ Cuenta(ops, {responder}) = 0
         /\ Cuenta(ops, OpsDe(p)) = 0 /\ Cuenta(ops, OpsDeCarga(p)) = Uno(q = p)
<1>1. /\ Simple("push_colaLargo", q) \in Conocidas /\ Simple("borrar_proceso", q) \in Conocidas
      /\ Simple("despertar_largo", 0) \in Conocidas /\ Cargado \in Conocidas
  BY OpsConocidas DEF Conocidas, Simple, Op, Cargado, sem_post, Semaforos
<1>2. ops \in Seq(Conocidas) /\ ops # <<>>
  <2>1. CASE ops = <<Simple("push_colaLargo", q), Simple("despertar_largo", 0), Cargado>>
    BY <1>1, <2>1, ListaDeTres
  <2>2. CASE ops = <<Simple("borrar_proceso", q), Cargado>>
    BY <1>1, <2>2, ListaDeDos
  <2>3. QED
    BY <2>1, <2>2 DEF Respuestas
<1>3. /\ ops[1] \in {Simple("push_colaLargo", q), Simple("borrar_proceso", q)}
      /\ 1 \in 1..Len(ops)
      /\ \A i \in 1..Len(ops) : i # 1 => ops[i] \in {Simple("despertar_largo", 0), Cargado}
  BY DEF Respuestas
<1>4. \A i \in 1..Len(ops) :
        ops[i] \in {Simple("push_colaLargo", q), Simple("borrar_proceso", q),
                    Simple("despertar_largo", 0), Cargado}
  BY <1>3
<1>5. NoTrae(ops) /\ NoResponde(ops)
  BY <1>4 DEF NoTrae, NoResponde, Ubica, Simple, Op, Cargado, sem_post, responder
<1>6. Cuenta(ops, {responder}) = 0 /\ Cuenta(ops, OpsDe(p)) = 0
  BY <1>5, RespondeCuenta, NoTraeCuenta
<1>7. \A i \in 1..Len(ops) : ops[i] \in OpsDeCarga(p) => i = 1 /\ q = p
  BY <1>3 DEF OpsDeCarga, Carga, Simple, Op, Cargado, sem_post
<1>8. q = p => ops[1] \in OpsDeCarga(p)
  BY <1>1, <1>3 DEF OpsDeCarga, Carga, Simple, Op
<1>9. Cuenta(ops, OpsDeCarga(p)) = Uno(q = p)
  <2>1. CASE q = p
    BY <1>3, <1>7, <1>8, <2>1, CuentaUnica DEF Uno
  <2>2. CASE q # p
    BY <1>7, <2>2, CuentaNinguna DEF Uno
  <2>3. QED
    BY <2>1, <2>2
<1>10. QED
  BY <1>2, <1>6, <1>9

LEMMA CargaAtendida ==
  ASSUME FInv, PTypeOK', MemoriaResponde, Head(canalMemoria).tipo = "cargar"
  PROVE  FInv'
<1> DEFINE m == Head(canalMemoria)
<1>1. /\ canalMemoria # <<>> /\ canalMemoria' = Tail(canalMemoria) /\ hilo["memoria"] = <<>>
      /\ UNCHANGED <<algoritmo, creados, estado, colaLargo, colaCorto, largo, cortoVar, cpuVars,
                     colaEspera, sem>>
  BY DEF MemoriaResponde, tabla, colas, rvars
<1>2. /\ m \in Pedidos /\ m = canalMemoria[1] /\ 1 \in 1..Len(canalMemoria)
      /\ \A i \in 1..Len(canalMemoria') : canalMemoria'[i] = canalMemoria[i + 1]
                                          /\ i + 1 \in 1..Len(canalMemoria)
      /\ EnCarga' + Uno(m.tipo = "cargar") = EnCarga
      /\ \A p \in Pids : EnMemoria(p)' + Uno(m.tipo = "cargar" /\ m.pid = p) = EnMemoria(p)
  BY <1>1, PedidoResto DEF FInv
<1>3. PICK q \in Pids : q = m.pid
  BY <1>2 DEF Pedidos
<1>4. q = creados
  BY <1>2, <1>3 DEF FInv, CargaEnOrden
<1>5. PICK ops \in Respuestas(q) : hilo' = [hilo EXCEPT !["memoria"] = ops]
  BY <1>3 DEF MemoriaResponde, Respuestas, Cargado
<1>6. m.tipo = "cargar"
  OBVIOUS
<1> HIDE DEF m
<1>7. /\ ops \in Seq(Conocidas) /\ ops # <<>> /\ Cuenta(ops, {responder}) = 0
      /\ \A p \in Pids : Cuenta(ops, OpsDe(p)) = 0 /\ Cuenta(ops, OpsDeCarga(p)) = Uno(q = p)
  <2>1. ASSUME NEW p \in Pids
        PROVE  /\ ops \in Seq(Conocidas) /\ ops # <<>> /\ Cuenta(ops, {responder}) = 0
               /\ Cuenta(ops, OpsDe(p)) = 0 /\ Cuenta(ops, OpsDeCarga(p)) = Uno(q = p)
    <3>1. ops \in Respuestas(q)
      BY <1>5
    <3>2. ops \in Seq(Conocidas) /\ ops # <<>>
      BY <3>1, RespuestaDeCarga
    <3>3. Cuenta(ops, {responder}) = 0
      BY <3>1, RespuestaDeCarga
    <3>4. Cuenta(ops, OpsDe(p)) = 0
      BY <3>1, RespuestaDeCarga
    <3>5. Cuenta(ops, OpsDeCarga(p)) = Uno(q = p)
      BY <3>1, RespuestaDeCarga
    <3>6. QED
      BY <3>2, <3>3, <3>4, <3>5
  <2>2. QED
    BY <1>3, <2>1, Zenon
<1>8. "memoria" \in Hilos /\ hilo \in [Hilos -> Seq(Conocidas)] /\ "consola" \in Hilos
  BY DEF FInv, PTypeOK, TipoHilos, Hilos
<1>9. Dale("memoria", ops)
  BY <1>1, <1>5 DEF Dale
<1>10. hilo'["memoria"] = ops /\ \A g \in Hilos : g # "memoria" => hilo'[g] = hilo[g]
  BY <1>8, <1>9 DEF Dale
<1>11. \A S : CuentaEn(hilo', S) = CuentaEn(hilo, S) + Cuenta(ops, S)
  BY <1>7, <1>8, <1>9, DaLista DEF FInv
<1>12. PorResponder' = PorResponder
  <2>1. responder' = responder
    BY DEF responder, Simple, Op, SinArg
  <2>2. CuentaEn(hilo', {responder}) = CuentaEn(hilo, {responder}) + Cuenta(ops, {responder})
    BY <1>11
  <2>3. CuentaEn(hilo, {responder}) \in Nat
    BY <1>8, HilosFinitos, CuentaEnNatural
  <2>4. QED
    BY <1>3, <1>7, <2>1, <2>2, <2>3 DEF PorResponder
<1>13. /\ SinDesalojo' /\ CpuContada' /\ RespuestaContada'
       /\ \A p \in Pids : /\ EnDespacho(p)' = EnDespacho(p) /\ EnContexto(p)' = EnContexto(p)
                          /\ EnCpu(p)' = EnCpu(p) /\ EnCamino(p)' = EnCamino(p)
  BY <1>1, <1>12, CpuQuieta
<1>14. ASSUME NEW p \in Pids
       PROVE  EnHilos(p)' = EnHilos(p) /\ CargaHilos(p)' + EnMemoria(p)' = CargaHilos(p) + EnMemoria(p)
  <2>1. /\ CuentaEn(hilo', OpsDe(p)) = CuentaEn(hilo, OpsDe(p)) + Cuenta(ops, OpsDe(p))
        /\ CuentaEn(hilo', OpsDeCarga(p)) = CuentaEn(hilo, OpsDeCarga(p)) + Cuenta(ops, OpsDeCarga(p))
    BY <1>11
  <2>2. /\ EnHilos(p) \in Nat /\ CargaHilos(p) \in Nat /\ EnMemoria(p)' \in Nat
    BY LugaresNaturales, LugaresNaturalesDespues DEF NumerosNaturales, FInv
  <2>3. EnHilos(p)' = EnHilos(p) /\ CargaHilos(p)' = CargaHilos(p) + Uno(q = p)
    BY <1>7, <2>1, <2>2 DEF EnHilos, CargaHilos
  <2>4. EnMemoria(p)' + Uno(q = p) = EnMemoria(p) /\ Uno(q = p) \in Nat
    BY <1>2, <1>3, <1>6 DEF Uno
  <2>5. QED
    <3> DEFINE e == EnMemoria(p)'
               u == Uno(q = p)
    <3>1. e \in Nat /\ u \in Nat /\ EnMemoria(p) = e + u
      BY <2>2, <2>4
    <3> HIDE DEF e, u
    <3>2. (CargaHilos(p) + u) + e = CargaHilos(p) + (e + u)
      BY <2>2, <3>1
    <3>3. QED
      BY <2>3, <3>1, <3>2 DEF e, u
<1>15. LugaresContados'
  <2>1. ASSUME NEW p \in Pids
        PROVE  Lugares(p)' = Vivo(p)' /\ LugaresDeCarga(p)' = Nuevo(p)'
    <3>1. /\ EnCorto(p)' = EnCorto(p) /\ EnEspera(p)' = EnEspera(p)
          /\ EnLargo(p)' = EnLargo(p) /\ EnAdmision(p)' = EnAdmision(p)
          /\ Vivo(p)' = Vivo(p) /\ Nuevo(p)' = Nuevo(p)
      BY <1>1 DEF EnCorto, EnEspera, EnLargo, EnAdmision, Vivo, Nuevo
    <3>2. Lugares(p)' = Lugares(p)
      BY <1>13, <1>14, <3>1 DEF Lugares
    <3>3. LugaresDeCarga(p)' = LugaresDeCarga(p)
      <4>1. /\ CargaHilos(p) \in Nat /\ EnMemoria(p) \in Nat /\ EnLargo(p) \in Nat /\ EnAdmision(p) \in Nat
            /\ CargaHilos(p)' \in Nat /\ EnMemoria(p)' \in Nat
        BY LugaresNaturales, LugaresNaturalesDespues DEF NumerosNaturales, FInv
      <4>2. CargaHilos(p)' + EnLargo(p) + EnMemoria(p)' + EnAdmision(p)
              = CargaHilos(p) + EnLargo(p) + EnMemoria(p) + EnAdmision(p)
        BY <1>14, <4>1
      <4>3. QED
        BY <3>1, <4>2 DEF LugaresDeCarga
    <3>4. QED
      BY <3>1, <3>2, <3>3 DEF FInv, LugaresContados
  <2>2. QED
    BY <2>1 DEF LugaresContados
<1>16. CargaEnOrden'
  <2>1. \A i \in 1..Len(canalMemoria') :
          canalMemoria'[i].tipo = "cargar" => canalMemoria'[i].pid = creados
    BY <1>2 DEF FInv, CargaEnOrden
  <2>2. EnCarga' + 1 = EnCarga /\ EnCarga' \in Nat
    BY <1>2, <1>6, CuentaNatural DEF EnCarga, PTypeOK, TipoHilos, Uno
  <2>3. EnCarga + sem["procesoCargado"] = Uno(hilo["consola"] # <<>>) /\ sem["procesoCargado"] \in Nat
    BY <1>1, TipoDeCarga DEF FInv, CargaEnOrden, Uno
  <2>4. EnCarga' + Uno(hilo'["memoria"] # <<>>) + sem'["procesoCargado"] = Uno(hilo'["consola"] # <<>>)
    <3> DEFINE e == EnCarga'
    <3>1. e \in Nat /\ EnCarga = e + 1
      BY <2>2
    <3> HIDE DEF e
    <3>2. e + 1 + sem["procesoCargado"] = Uno(hilo["consola"] # <<>>)
      BY <2>3, <3>1
    <3>3. Uno(hilo'["memoria"] # <<>>) = 1 /\ hilo'["consola"] = hilo["consola"]
      BY <1>7, <1>8, <1>10 DEF Uno
    <3>4. QED
      BY <1>1, <3>2, <3>3 DEF e
  <2>5. QED
    BY <1>1, <2>1, <2>4 DEF FInv, CargaEnOrden
<1>17. \A g \in Corrientes : Ordenados(g)
  <2>1. EnManosDeNadie \subseteq EnManosDeNadie'
    BY <1>1, <1>14 DEF EnManosDeNadie
  <2>2. \A g \in Corrientes : hilo'[g] = hilo[g]
    BY <1>10 DEF Corrientes
  <2>3. QED
    BY <2>1, <2>2, SiguenLibres DEF FInv
<1>18. /\ hilo'["consola"] \in {<<>>, <<sem_wait("procesoCargado")>>}
       /\ hilo'["memoria"] \in ListasDeMemoria(creados')
  <2>1. hilo'["memoria"] \in Respuestas(creados') /\ hilo'["consola"] = hilo["consola"]
    BY <1>1, <1>4, <1>8, <1>10
  <2>2. QED
    BY <2>1 DEF FInv, HilosBien, ListasDeMemoria, Respuestas
<1>19. QED
  BY <1>13, <1>15, <1>16, <1>17, <1>18, Junta

LEMMA MemoriaRespondeConserva ==
  ASSUME FInv, PTypeOK', MemoriaResponde
  PROVE  FInv'
BY PedidoAtendido, CargaAtendida

(* planificador_largo moves what is loaded to colaCorto, and nothing else. *)
LEMMA LargoConserva ==
  ASSUME FInv, PTypeOK', FijoEnLargo, colaEspera' = colaEspera,
         sem'["procesoCargado"] = sem["procesoCargado"],
         \A p \in Pids :
           /\ Vivo(p)' + EnCorto(p) = Vivo(p) + EnCorto(p)'
           /\ Nuevo(p)' + EnLargo(p) + EnAdmision(p) = Nuevo(p) + EnLargo(p)' + EnAdmision(p)'
           /\ estado[p] \in Admitida => estado'[p] \in Admitida
           /\ estado[p] = "NULO" => estado'[p] = "NULO"
  PROVE  FInv'
<1>1. UNCHANGED <<algoritmo, creados, hilo, cortoVar, cpuVars, canalMemoria>>
  BY DEF FijoEnLargo, consigna
<1>2. /\ PorResponder' = PorResponder
      /\ \A p \in Pids : EnHilos(p)' = EnHilos(p) /\ CargaHilos(p)' = CargaHilos(p)
  BY <1>1, HilosQuietos
<1>3. /\ SinDesalojo' /\ CpuContada' /\ RespuestaContada'
      /\ \A p \in Pids : /\ EnDespacho(p)' = EnDespacho(p) /\ EnContexto(p)' = EnContexto(p)
                         /\ EnCpu(p)' = EnCpu(p) /\ EnCamino(p)' = EnCamino(p)
  BY <1>1, <1>2, CpuQuieta
<1>4. \A p \in Pids : EnEspera(p)' = EnEspera(p) /\ EnMemoria(p)' = EnMemoria(p)
  BY <1>1 DEF EnEspera, EnMemoria
<1>5. LugaresContados'
  <2>1. ASSUME NEW p \in Pids
        PROVE  Lugares(p)' = Vivo(p)' /\ LugaresDeCarga(p)' = Nuevo(p)'
    <3> DEFINE c == EnCorto(p)'
               l == EnLargo(p)'
               a == EnAdmision(p)'
               v == Vivo(p)'
               n == Nuevo(p)'
    <3>1. /\ EnHilos(p) \in Nat /\ EnCorto(p) \in Nat /\ EnEspera(p) \in Nat
          /\ EnDespacho(p) \in Nat /\ EnContexto(p) \in Nat /\ EnCpu(p) \in Nat /\ EnCamino(p) \in Nat
          /\ CargaHilos(p) \in Nat /\ EnLargo(p) \in Nat /\ EnMemoria(p) \in Nat
          /\ EnAdmision(p) \in Nat /\ c \in Nat /\ l \in Nat /\ a \in Nat
      BY LugaresNaturales, LugaresNaturalesDespues DEF NumerosNaturales, FInv
    <3>2. Vivo(p) \in Nat /\ Nuevo(p) \in Nat /\ v \in Nat /\ n \in Nat
      BY DEF Vivo, Nuevo, Uno
    <3>3. /\ EnHilos(p) + EnCorto(p) + EnEspera(p) + EnDespacho(p) + EnContexto(p) + EnCamino(p)
               + EnCpu(p) = Vivo(p)
          /\ CargaHilos(p) + EnLargo(p) + EnMemoria(p) + EnAdmision(p) = Nuevo(p)
      BY DEF FInv, LugaresContados, Lugares, LugaresDeCarga
    <3>4. v + EnCorto(p) = Vivo(p) + c /\ n + EnLargo(p) + EnAdmision(p) = Nuevo(p) + l + a
      OBVIOUS
    <3>5. /\ Lugares(p)' = EnHilos(p) + c + EnEspera(p) + EnDespacho(p) + EnContexto(p) + EnCamino(p)
                             + EnCpu(p)
          /\ LugaresDeCarga(p)' = CargaHilos(p) + l + EnMemoria(p) + a
      BY <1>2, <1>3, <1>4 DEF Lugares, LugaresDeCarga
    <3> HIDE DEF c, l, a, v, n
    <3>6. EnHilos(p) + c + EnEspera(p) + EnDespacho(p) + EnContexto(p) + EnCamino(p) + EnCpu(p) = v
      <4> DEFINE x == EnHilos(p)
                 y == EnCorto(p)
                 z == EnEspera(p) + EnDespacho(p) + EnContexto(p) + EnCamino(p) + EnCpu(p)
                 w == Vivo(p)
      <4>1. x \in Nat /\ y \in Nat /\ z \in Nat /\ w \in Nat /\ x + y + z = w /\ v + y = w + c
        BY <3>1, <3>2, <3>3, <3>4
      <4>2. EnHilos(p) + c + EnEspera(p) + EnDespacho(p) + EnContexto(p) + EnCamino(p) + EnCpu(p) = x + c + z
        BY <3>1
      <4> HIDE DEF x, y, z, w
      <4>3. x + c + z = v
        BY <3>1, <3>2, <4>1
      <4>4. QED
        BY <4>2, <4>3
    <3>7. CargaHilos(p) + l + EnMemoria(p) + a = n
      BY <3>1, <3>2, <3>3, <3>4
    <3>8. QED
      BY <3>5, <3>6, <3>7 DEF v, n
  <2>2. QED
    BY <2>1 DEF LugaresContados
<1>6. CargaEnOrden'
  <2>1. EnCarga' = EnCarga
    BY <1>1 DEF EnCarga
  <2>2. QED
    BY <1>1, <2>1 DEF FInv, CargaEnOrden
<1>7. \A g \in Corrientes : Ordenados(g)
  <2>1. EnManosDeNadie \subseteq EnManosDeNadie'
    BY <1>2 DEF EnManosDeNadie
  <2>2. QED
    BY <1>1, <2>1, SiguenLibres DEF FInv
<1>8. /\ hilo'["consola"] \in {<<>>, <<sem_wait("procesoCargado")>>}
      /\ hilo'["memoria"] \in ListasDeMemoria(creados')
  BY <1>1 DEF FInv, HilosBien
<1>9. QED
  BY <1>3, <1>5, <1>6, <1>7, <1>8, Junta

(* The steps that move no process.                                         *)
LEMMA LargoQuieto ==
  ASSUME FInv, PTypeOK', FijoEnLargo, UNCHANGED <<estado, colas, colaEspera>>,
         sem'["procesoCargado"] = sem["procesoCargado"],
         \A p : EnAdmision(p)' = EnAdmision(p)
  PROVE  FInv'
<1>1. UNCHANGED <<colaCorto, colaLargo>>
  BY DEF colas
<1>2. \A p \in Pids : /\ EnCorto(p)' = EnCorto(p) /\ EnLargo(p)' = EnLargo(p)
                      /\ Vivo(p)' = Vivo(p) /\ Nuevo(p)' = Nuevo(p)
  BY <1>1 DEF EnCorto, EnLargo, Vivo, Nuevo
<1>3. \A p \in Pids : /\ EnCorto(p) \in Nat /\ EnLargo(p) \in Nat /\ EnAdmision(p) \in Nat
                      /\ Vivo(p) \in Nat /\ Nuevo(p) \in Nat
  BY LugaresNaturales DEF NumerosNaturales, FInv, Vivo, Nuevo, Uno
<1>4. \A p \in Pids :
        /\ Vivo(p)' + EnCorto(p) = Vivo(p) + EnCorto(p)'
        /\ Nuevo(p)' + EnLargo(p) + EnAdmision(p) = Nuevo(p) + EnLargo(p)' + EnAdmision(p)'
  BY <1>2, <1>3
<1>5. QED
  BY <1>4, LargoConserva

LEMMA LargoTomaConserva ==
  ASSUME FInv, PTypeOK', LargoToma
  PROVE  FInv'
<1>1. /\ FijoEnLargo /\ UNCHANGED <<estado, colaCorto, sem, colaEspera>> /\ largo.pc = "lote"
      /\ \/ UNCHANGED <<largo, colaLargo>>
         \/ /\ colaLargo # <<>> /\ colaLargo' = Tail(colaLargo)
            /\ largo' = [largo EXCEPT !.pc = "admitir", !.pid = Head(colaLargo)]
  BY DEF LargoToma
<1>2. CASE UNCHANGED <<largo, colaLargo>>
  BY <1>1, <1>2, LargoQuieto DEF EnAdmision, colas
<1>3. CASE /\ colaLargo # <<>> /\ colaLargo' = Tail(colaLargo)
           /\ largo' = [largo EXCEPT !.pc = "admitir", !.pid = Head(colaLargo)]
  <2>1. colaLargo \in Seq(Pids)
    BY DEF FInv, PTypeOK, TipoColas
  <2>2. PICK q \in Pids : q = Head(colaLargo)
    BY <1>3, <2>1
  <2>3. largo'.pc = "admitir" /\ largo'.pid = q
    BY <1>1, <1>3, <2>2 DEF FInv, PTypeOK, TipoColas
  <2>4. ASSUME NEW p \in Pids
        PROVE  /\ Vivo(p)' + EnCorto(p) = Vivo(p) + EnCorto(p)'
               /\ Nuevo(p)' + EnLargo(p) + EnAdmision(p) = Nuevo(p) + EnLargo(p)' + EnAdmision(p)'
    <3>1. EnCorto(p)' = EnCorto(p) /\ Vivo(p)' = Vivo(p) /\ Nuevo(p)' = Nuevo(p)
      BY <1>1 DEF EnCorto, Vivo, Nuevo
    <3>2. EnAdmision(p) = 0 /\ EnAdmision(p)' = Vale(q, {p}) /\ Vale(q, {p}) \in Nat
      BY <1>1, <2>3 DEF EnAdmision, Uno, Vale
    <3>3. EnLargo(p) = EnLargo(p)' + Vale(q, {p})
      BY <1>3, <2>1, <2>2, CuentaResto DEF EnLargo
    <3>4. EnLargo(p)' \in Nat /\ Nuevo(p) \in Nat
      BY LugaresNaturalesDespues DEF NumerosNaturales, Nuevo, Uno
    <3>5. QED
      <4> DEFINE l == EnLargo(p)'
                 u == Vale(q, {p})
      <4>1. l \in Nat /\ u \in Nat /\ EnLargo(p) = l + u /\ EnAdmision(p)' = u
        BY <3>2, <3>3, <3>4
      <4> HIDE DEF l, u
      <4>2. Nuevo(p) + (l + u) + 0 = Nuevo(p) + l + u
        BY <3>4, <4>1
      <4>3. QED
        BY <3>1, <3>2, <4>1, <4>2 DEF l
  <2>5. QED
    BY <1>1, <2>4, LargoConserva
<1>4. QED
  BY <1>1, <1>2, <1>3

LEMMA LargoAdmiteConserva ==
  ASSUME FInv, PTypeOK', LargoAdmite
  PROVE  FInv'
<1>1. /\ FijoEnLargo /\ UNCHANGED <<colaLargo, sem, colaEspera>> /\ largo.pc = "admitir"
      /\ estado' = [estado EXCEPT ![largo.pid] = "READY"]
      /\ colaCorto' = ConAlFinal(largo.pid, colaCorto) /\ largo' = [largo EXCEPT !.pc = "contar"]
  BY DEF LargoAdmite, rvars
<1>2. PICK q \in Pids : q = largo.pid
  BY <1>1 DEF FInv, PTypeOK, TipoColas
<1>3. largo'.pc = "contar" /\ estado \in [Pids -> Estados]
  BY <1>1 DEF FInv, PTypeOK, TipoColas, TipoTabla
<1>4. EnAdmision(q) = 1
  BY <1>1, <1>2 DEF EnAdmision, Uno
<1>5. estado[q] = "NEW" /\ Lugares(q) = 0
  BY <1>4, UnicoLugar
<1>6. EnCorto(q) = 0
  <2>1. /\ EnHilos(q) \in Nat /\ EnCorto(q) \in Nat /\ EnEspera(q) \in Nat
        /\ EnDespacho(q) \in Nat /\ EnContexto(q) \in Nat /\ EnCpu(q) \in Nat /\ EnCamino(q) \in Nat
    BY LugaresNaturales DEF NumerosNaturales, FInv
  <2>2. QED
    BY <1>5, <2>1 DEF Lugares
<1>7. \A p \in Pids : EnCorto(p)' = EnCorto(p) + Vale(q, {p})
  BY <1>1, <1>2, <1>6, CortoAgrega DEF FInv
<1>8. /\ \A p \in Pids : p # q => estado'[p] = estado[p]
      /\ estado'[q] = "READY"
  BY <1>1, <1>2, <1>3
<1>9. ASSUME NEW p \in Pids
      PROVE  /\ Vivo(p)' + EnCorto(p) = Vivo(p) + EnCorto(p)'
             /\ Nuevo(p)' + EnLargo(p) + EnAdmision(p) = Nuevo(p) + EnLargo(p)' + EnAdmision(p)'
  <2>1. /\ Vivo(p)' = Vivo(p) + Vale(q, {p}) /\ Nuevo(p) = Nuevo(p)' + Vale(q, {p})
    BY <1>5, <1>8 DEF Vivo, Nuevo, Uno, Vale, Admitida
  <2>2. EnAdmision(p)' = 0 /\ EnAdmision(p) = Vale(q, {p}) /\ Vale(q, {p}) \in Nat
    BY <1>1, <1>2, <1>3 DEF EnAdmision, Uno, Vale
  <2>3. EnLargo(p)' = EnLargo(p)
    BY <1>1 DEF EnLargo
  <2>4. EnCorto(p)' = EnCorto(p) + Vale(q, {p})
    BY <1>7
  <2>5. EnCorto(p) \in Nat /\ EnLargo(p) \in Nat
    BY LugaresNaturales DEF NumerosNaturales, FInv
  <2>6. Vivo(p) \in Nat /\ Nuevo(p)' \in Nat
    BY DEF Vivo, Nuevo, Uno
  <2>7. QED
    <3> DEFINE n == Nuevo(p)'
               u == Vale(q, {p})
    <3>1. n \in Nat /\ u \in Nat /\ Nuevo(p) = n + u /\ EnAdmision(p) = u /\ Vivo(p)' = Vivo(p) + u
          /\ EnCorto(p)' = EnCorto(p) + u
      BY <2>1, <2>2, <2>4, <2>6
    <3> HIDE DEF n, u
    <3>2. /\ (Vivo(p) + u) + EnCorto(p) = Vivo(p) + (EnCorto(p) + u)
          /\ n + EnLargo(p) + u = (n + u) + EnLargo(p) + 0
      BY <2>5, <2>6, <3>1
    <3>3. QED
      BY <2>2, <2>3, <3>1, <3>2 DEF n
<1>10. \A p \in Pids : /\ estado[p] \in Admitida => estado'[p] \in Admitida
                       /\ estado[p] = "NULO" => estado'[p] = "NULO"
  BY <1>5, <1>8 DEF Admitida
<1>11. QED
  BY <1>1, <1>9, <1>10, LargoConserva

LEMMA PlanificadorLargoConserva ==
  ASSUME FInv, PTypeOK', planificador_largo
  PROVE  FInv'
<1>1. ASSUME LargoDespierta \/ LargoTermina
      PROVE  FInv'
  <2>1. /\ FijoEnLargo /\ UNCHANGED <<estado, colas, colaEspera>>
        /\ largo.pc # "admitir" /\ largo'.pc # "admitir"
    BY <1>1 DEF LargoDespierta, LargoTermina, rvars
  <2>2. sem'["procesoCargado"] = sem["procesoCargado"]
    BY <1>1 DEF LargoDespierta, LargoTermina, Publica, FInv, PTypeOK, TipoHilos, Semaforos
  <2>3. QED
    BY <2>1, <2>2, LargoQuieto DEF EnAdmision, Uno
<1>2. ASSUME LargoCuenta
      PROVE  FInv'
  <2>1. /\ FijoEnLargo /\ UNCHANGED <<estado, colas, colaEspera, sem>>
        /\ largo.pc # "admitir" /\ largo'.pc # "admitir"
    BY <1>2 DEF LargoCuenta, rvars
  <2>2. QED
    BY <2>1, LargoQuieto DEF EnAdmision, Uno
<1>3. QED
  BY <1>1, <1>2, LargoTomaConserva, LargoAdmiteConserva DEF planificador_largo

-----------------------------------------------------------------------------
(* The steps of planificador_corto.                                        *)
LEMMA CortoConserva ==
  ASSUME FInv, PTypeOK', FijoEnCorto, UNCHANGED <<canalInterrupcion, relojes>>, CpuContada',
         corto'.pc \in {"esperar", "lugar", "marcar", "ocupar", "enviar"},
         sem'["procesoCargado"] = sem["procesoCargado"], EnRespuesta' = EnRespuesta,
         \A p \in Pids :
           /\ EnCorto(p)' + EnDespacho(p)' + EnCamino(p)' = EnCorto(p) + EnDespacho(p) + EnCamino(p)
           /\ estado'[p] = estado[p] \/ (estado[p] \in Admitida /\ estado'[p] \in Admitida)
  PROVE  FInv'
<1>1. UNCHANGED <<algoritmo, creados, colaLargo, hilo, largo, canalMemoria, canalContexto, colaEspera,
                  cicloPc, bloquear, ciclo, respuesta, proceso, avisar, pedido, interrupcion>>
  BY DEF FijoEnCorto, consigna, nucleo
<1>2. /\ PorResponder' = PorResponder
      /\ \A p \in Pids : EnHilos(p)' = EnHilos(p) /\ CargaHilos(p)' = CargaHilos(p)
  BY <1>1, HilosQuietos
<1>3. SinDesalojo'
  BY <1>1 DEF FInv, SinDesalojo
<1>4. RespuestaContada'
  <2>1. Debida' = Debida
    BY <1>1 DEF Debida
  <2>2. QED
    BY <1>1, <1>2, <2>1 DEF FInv, RespuestaContada
<1>5. \A p \in Pids : /\ EnEspera(p)' = EnEspera(p) /\ EnMemoria(p)' = EnMemoria(p)
                      /\ EnContexto(p)' = EnContexto(p) /\ EnCpu(p)' = EnCpu(p)
                      /\ EnLargo(p)' = EnLargo(p) /\ EnAdmision(p)' = EnAdmision(p)
                      /\ Vivo(p)' = Vivo(p) /\ Nuevo(p)' = Nuevo(p)
  BY <1>1 DEF EnEspera, EnMemoria, EnContexto, EnCpu, CpuOcupada, EnLargo, EnAdmision, Vivo, Nuevo, Uno,
              Admitida
<1>6. LugaresContados'
  <2>1. ASSUME NEW p \in Pids
        PROVE  Lugares(p)' = Lugares(p)
    <3> DEFINE c == EnCorto(p)'
               d == EnDespacho(p)'
               k == EnCamino(p)'
               x == EnHilos(p)
               y == EnEspera(p)
               z == EnContexto(p)
               w == EnCpu(p)
    <3>1. /\ x \in Nat /\ EnCorto(p) \in Nat /\ y \in Nat
          /\ EnDespacho(p) \in Nat /\ z \in Nat /\ w \in Nat /\ EnCamino(p) \in Nat
          /\ c \in Nat /\ d \in Nat /\ k \in Nat
      BY LugaresNaturales, LugaresNaturalesDespues DEF NumerosNaturales, FInv
    <3>2. c + d + k = EnCorto(p) + EnDespacho(p) + EnCamino(p)
      OBVIOUS
    <3>3. /\ Lugares(p)' = x + c + y + d + z + k + w
          /\ Lugares(p) = x + EnCorto(p) + y + EnDespacho(p) + z + EnCamino(p) + w
      BY <1>2, <1>5 DEF Lugares
    <3> HIDE DEF c, d, k, x, y, z, w
    <3>4. x + c + y + d + z + k + w = x + EnCorto(p) + y + EnDespacho(p) + z + EnCamino(p) + w
      BY <3>1, <3>2
    <3>5. QED
      BY <3>3, <3>4
  <2>2. \A p \in Pids : LugaresDeCarga(p)' = LugaresDeCarga(p)
    BY <1>2, <1>5 DEF LugaresDeCarga
  <2>3. QED
    BY <1>5, <2>1, <2>2 DEF FInv, LugaresContados
<1>7. CargaEnOrden'
  <2>1. EnCarga' = EnCarga
    BY <1>1 DEF EnCarga
  <2>2. \A p \in Pids : p > creados => estado'[p] = "NULO"
    BY DEF FInv, CargaEnOrden, Admitida
  <2>3. QED
    BY <1>1, <2>1, <2>2 DEF FInv, CargaEnOrden
<1>8. \A g \in Corrientes : Ordenados(g)
  <2>1. EnManosDeNadie \subseteq EnManosDeNadie'
    BY <1>2 DEF EnManosDeNadie
  <2>2. QED
    BY <1>1, <2>1, SiguenLibres DEF FInv
<1>9. /\ hilo'["consola"] \in {<<>>, <<sem_wait("procesoCargado")>>}
      /\ hilo'["memoria"] \in ListasDeMemoria(creados')
  BY <1>1 DEF FInv, HilosBien
<1>10. QED
  BY <1>3, <1>4, <1>6, <1>7, <1>8, <1>9, Junta

(* What holds the count of the CPU when nothing is sent to it.             *)
LEMMA CortoNoEnvia ==
  ASSUME FInv, FijoEnCorto, UNCHANGED <<canalDespacho, ejecutandoB>>,
         corto.pc # "enviar", corto'.pc # "enviar",
         corto'.pc \in {"marcar", "ocupar"} => ~ejecutandoB
  PROVE  /\ CpuContada' /\ EnRespuesta' = EnRespuesta
         /\ \A p \in Pids : EnDespacho(p)' = EnDespacho(p)
<1>1. UNCHANGED <<canalContexto, cicloPc, bloquear, ciclo>>
  BY DEF FijoEnCorto, nucleo
<1>2. Ocupacion' = Ocupacion /\ Cuenta(canalDespacho', Procesos') = Cuenta(canalDespacho, Procesos)
  BY <1>1 DEF Ocupacion, Procesos, MensajesDespacho
<1>3. CpuContada'
  BY <1>1, <1>2 DEF FInv, CpuContada
<1>4. QED
  BY <1>3 DEF EnRespuesta, EnDespacho, MensajesDespacho

LEMMA CortoDespiertaConserva ==
  ASSUME FInv, PTypeOK', CortoDespierta
  PROVE  FInv'
<1>1. /\ FijoEnCorto /\ UNCHANGED <<estado, colaCorto, ejecutandoB, relojes, canalDespacho, canalInterrupcion>>
      /\ corto.pc = "esperar" /\ corto'.pid = 0 /\ corto'.pc \in {"esperar", "lugar"}
      /\ sem' = [sem EXCEPT !["planiCorto"] = @ - 1]
  BY DEF CortoDespierta, CortoVa, FInv, SinDesalojo
<1>2. corto.pid = 0
  BY <1>1 DEF FInv, PTypeOK, TipoColas
<1>3. sem'["procesoCargado"] = sem["procesoCargado"]
  BY <1>1 DEF FInv, PTypeOK, TipoHilos, Semaforos
<1>4. \A p \in Pids : EnCorto(p)' = EnCorto(p) /\ EnCamino(p)' = EnCamino(p)
  BY <1>1, <1>2 DEF EnCorto, EnCamino
<1>5. /\ CpuContada' /\ EnRespuesta' = EnRespuesta
      /\ \A p \in Pids : EnDespacho(p)' = EnDespacho(p)
  BY <1>1, CortoNoEnvia
<1>6. QED
  BY <1>1, <1>3, <1>4, <1>5, CortoConserva

LEMMA CortoTomaConserva ==
  ASSUME FInv, PTypeOK', CortoToma
  PROVE  FInv'
<1>1. /\ FijoEnCorto /\ corto.pc = "lugar"
      /\ UNCHANGED <<estado, sem, ejecutandoB, relojes, canalDespacho, canalInterrupcion>>
      /\ \/ /\ colaCorto' = colaCorto
            /\ corto' = corto \/ corto' = [pc |-> "esperar", pid |-> 0]
         \/ /\ colaCorto # <<>> /\ ~ejecutandoB /\ colaCorto' = Tail(colaCorto)
            /\ corto' = [pc |-> "marcar", pid |-> Head(colaCorto)]
  BY DEF CortoToma, CortoVa
<1>2. corto.pid = 0
  BY <1>1 DEF FInv, PTypeOK, TipoColas
<1>3. CASE colaCorto' = colaCorto /\ (corto' = corto \/ corto' = [pc |-> "esperar", pid |-> 0])
  <2>1. \A p \in Pids : EnCorto(p)' = EnCorto(p) /\ EnCamino(p)' = EnCamino(p)
    BY <1>2, <1>3 DEF EnCorto, EnCamino
  <2>2. corto'.pc \in {"esperar", "lugar"}
    BY <1>1, <1>3
  <2>3. /\ CpuContada' /\ EnRespuesta' = EnRespuesta
        /\ \A p \in Pids : EnDespacho(p)' = EnDespacho(p)
    BY <1>1, <2>2, CortoNoEnvia
  <2>4. QED
    BY <1>1, <2>1, <2>2, <2>3, CortoConserva
<1>4. CASE /\ colaCorto # <<>> /\ ~ejecutandoB /\ colaCorto' = Tail(colaCorto)
           /\ corto' = [pc |-> "marcar", pid |-> Head(colaCorto)]
  <2>1. colaCorto \in Seq(Pids)
    BY DEF FInv, PTypeOK, TipoColas
  <2>2. PICK q \in Pids : q = Head(colaCorto)
    BY <1>4, <2>1
  <2>3. corto'.pc = "marcar" /\ corto'.pid = q
    BY <1>4, <2>2
  <2>4. /\ CpuContada' /\ EnRespuesta' = EnRespuesta
        /\ \A p \in Pids : EnDespacho(p)' = EnDespacho(p)
    BY <1>1, <1>4, CortoNoEnvia
  <2>5. ASSUME NEW p \in Pids
        PROVE  EnCorto(p)' + EnDespacho(p)' + EnCamino(p)' = EnCorto(p) + EnDespacho(p) + EnCamino(p)
    <3> DEFINE c == EnCorto(p)'
               u == Vale(q, {p})
    <3>1. EnCorto(p) = c + u
      BY <1>4, <2>1, <2>2, CuentaResto DEF EnCorto
    <3>2. EnCamino(p) = 0 /\ EnCamino(p)' = u /\ u \in Nat
      BY <1>2, <2>3 DEF EnCamino, Uno, Vale, Pids
    <3>3. c \in Nat /\ EnDespacho(p) \in Nat
      BY LugaresNaturales, LugaresNaturalesDespues DEF NumerosNaturales, FInv
    <3> HIDE DEF c, u
    <3>4. c + EnDespacho(p) + u = (c + u) + EnDespacho(p) + 0
      BY <3>2, <3>3
    <3>5. QED
      BY <2>4, <3>1, <3>2, <3>4 DEF c
  <2>6. QED
    BY <1>1, <2>3, <2>4, <2>5, CortoConserva
<1>5. QED
  BY <1>1, <1>3, <1>4

LEMMA CortoMarcaConserva ==
  ASSUME FInv, PTypeOK', CortoMarca
  PROVE  FInv'
<1>1. /\ FijoEnCorto /\ corto.pc = "marcar" /\ corto' = [pc |-> "ocupar", pid |-> corto.pid]
      /\ estado' = [estado EXCEPT ![corto.pid] = "EXEC"]
      /\ UNCHANGED <<colaCorto, sem, ejecutandoB, relojes, canalDespacho, canalInterrupcion>>
  BY DEF CortoMarca, CortoVa
<1>2. PICK q \in Pids : q = corto.pid
  BY <1>1 DEF FInv, PTypeOK, TipoColas
<1>3. ~ejecutandoB /\ estado \in [Pids -> Estados]
  BY <1>1 DEF FInv, CpuContada, PTypeOK, TipoTabla
<1>4. /\ CpuContada' /\ EnRespuesta' = EnRespuesta
      /\ \A p \in Pids : EnDespacho(p)' = EnDespacho(p)
  BY <1>1, <1>3, CortoNoEnvia
<1>5. \A p \in Pids : EnCorto(p)' = EnCorto(p) /\ EnCamino(p)' = EnCamino(p)
  BY <1>1 DEF EnCorto, EnCamino
<1>6. estado[q] \in Admitida
  <2>1. EnCamino(q) = 1
    BY <1>2 DEF EnCamino, Uno
  <2>2. QED
    BY <2>1, UnicoLugar
<1>7. \A p \in Pids : estado'[p] = estado[p] \/ (estado[p] \in Admitida /\ estado'[p] \in Admitida)
  BY <1>1, <1>2, <1>3, <1>6 DEF Admitida
<1>8. corto'.pc = "ocupar"
  BY <1>1
<1>9. QED
  BY <1>1, <1>4, <1>5, <1>7, <1>8, CortoConserva

(* The flag is set before the process is sent: it is counted as on its way.*)
LEMMA CortoOcupaConserva ==
  ASSUME FInv, PTypeOK', CortoOcupa
  PROVE  FInv'
<1>1. /\ FijoEnCorto /\ corto.pc = "ocupar" /\ corto' = [pc |-> "enviar", pid |-> corto.pid]
      /\ ejecutandoB' = TRUE
      /\ UNCHANGED <<estado, colaCorto, sem, relojes, canalDespacho, canalInterrupcion>>
  BY DEF CortoOcupa, CortoVa
<1>2. UNCHANGED <<canalContexto, cicloPc, bloquear, ciclo>>
  BY <1>1 DEF FijoEnCorto, nucleo
<1>3. Ocupacion' = Ocupacion /\ Cuenta(canalDespacho', Procesos') = Cuenta(canalDespacho, Procesos)
  BY <1>1, <1>2 DEF Ocupacion, Procesos, MensajesDespacho
<1>4. Cuenta(canalDespacho, Procesos) + Ocupacion + Len(canalContexto) = 0
  BY <1>1 DEF FInv, CpuContada, Uno
<1>5. CpuContada'
  BY <1>1, <1>2, <1>3, <1>4 DEF CpuContada, Uno
<1>6. \A p \in Pids : /\ EnCorto(p)' = EnCorto(p) /\ EnCamino(p)' = EnCamino(p)
                      /\ EnDespacho(p)' = EnDespacho(p)
  BY <1>1 DEF EnCorto, EnCamino, EnDespacho, MensajesDespacho
<1>7. EnRespuesta' = EnRespuesta
  BY <1>1 DEF EnRespuesta, MensajesDespacho
<1>8. corto'.pc = "enviar"
  BY <1>1
<1>9. QED
  BY <1>1, <1>5, <1>6, <1>7, <1>8, CortoConserva

LEMMA ProcesoAgregado ==
  ASSUME PTypeOK, NEW q \in Pids, NEW n \in Int,
         canalDespacho' = Append(canalDespacho, [tipo |-> "proceso", pid |-> q, pc |-> n])
  PROVE  /\ Cuenta(canalDespacho', Procesos) = Cuenta(canalDespacho, Procesos) + 1
         /\ EnRespuesta' = EnRespuesta
         /\ \A p \in Pids : EnDespacho(p)' = EnDespacho(p) + Vale(q, {p})
<1> DEFINE m == [tipo |-> "proceso", pid |-> q, pc |-> n]
           R == {x \in MensajesDespacho : x.tipo = "respuesta"}
           D(p) == {x \in MensajesDespacho : x.pid = p}
<1>1. canalDespacho \in Seq(MensajesDespacho) /\ m \in MensajesDespacho
  BY DEF PTypeOK, CPUTypeOK, TipoCanales, MensajesDespacho
<1>2. /\ Vale(m, Procesos) = 1 /\ Vale(m, R) = 0
      /\ \A p \in Pids : Vale(m, D(p)) = Vale(q, {p})
  BY <1>1 DEF Vale, Procesos
<1>3. canalDespacho' = Append(canalDespacho, m)
  OBVIOUS
<1>4. /\ EnRespuesta = Cuenta(canalDespacho, R) /\ EnRespuesta' = Cuenta(canalDespacho', R)
      /\ \A p : EnDespacho(p) = Cuenta(canalDespacho, D(p)) /\ EnDespacho(p)' = Cuenta(canalDespacho', D(p))
  BY DEF EnRespuesta, EnDespacho
<1> HIDE DEF m, R, D
<1>5. \A S : Cuenta(Append(canalDespacho, m), S) = Cuenta(canalDespacho, S) + Vale(m, S)
  BY <1>1, CuentaAgregar
<1>6. Cuenta(canalDespacho, R) \in Nat
  BY <1>1, CuentaNatural
<1>7. QED
  BY <1>2, <1>3, <1>4, <1>5, <1>6

LEMMA CortoEnviaConserva ==
  ASSUME FInv, PTypeOK', CortoEnvia
  PROVE  FInv'
<1>1. /\ FijoEnCorto /\ corto.pc = "enviar" /\ corto' = [pc |-> "esperar", pid |-> 0]
      /\ canalDespacho' = Append(canalDespacho,
                            [tipo |-> "proceso", pid |-> corto.pid, pc |-> pcb[corto.pid]])
      /\ UNCHANGED <<ejecutandoB, estado, colaCorto, sem, relojes, canalInterrupcion>>
  BY DEF CortoEnvia, CortoVa, FInv, SinDesalojo
<1>2. PICK q \in Pids : q = corto.pid
  BY <1>1 DEF FInv, PTypeOK, TipoColas
<1>3. pcb[q] \in Int
  BY <1>2 DEF FInv, PTypeOK, TipoTabla
<1>4. /\ Cuenta(canalDespacho', Procesos) = Cuenta(canalDespacho, Procesos) + 1
      /\ EnRespuesta' = EnRespuesta
      /\ \A p \in Pids : EnDespacho(p)' = EnDespacho(p) + Vale(q, {p})
  BY <1>1, <1>2, <1>3, ProcesoAgregado DEF FInv
<1>5. corto'.pc = "esperar" /\ corto'.pid = 0
  BY <1>1
<1>6. CpuContada'
  <2>1. /\ Cuenta(canalDespacho, Procesos) \in Nat /\ Ocupacion \in Nat /\ Len(canalContexto) \in Nat
        /\ Cuenta(canalDespacho, Procesos) + Ocupacion + Len(canalContexto) = 0
    BY <1>1, UnoEnLaCpu DEF FInv, CpuContada, Uno
  <2>2. UNCHANGED <<canalContexto, cicloPc, bloquear, ciclo>>
    BY <1>1 DEF FijoEnCorto, nucleo
  <2>3. Ocupacion' = Ocupacion /\ Procesos' = Procesos
    BY <2>2 DEF Ocupacion, Procesos, MensajesDespacho
  <2>4. Cuenta(canalDespacho', Procesos') + Ocupacion' + Len(canalContexto') = 1
    BY <1>4, <2>1, <2>2, <2>3
  <2>5. ejecutandoB
    BY <1>1 DEF FInv, CpuContada
  <2>6. QED
    BY <1>1, <1>5, <2>4, <2>5 DEF CpuContada, Uno
<1>7. ASSUME NEW p \in Pids
      PROVE  EnCorto(p)' + EnDespacho(p)' + EnCamino(p)' = EnCorto(p) + EnDespacho(p) + EnCamino(p)
  <2>1. EnCorto(p)' = EnCorto(p)
    BY <1>1 DEF EnCorto
  <2>2. EnCamino(p) = Vale(q, {p}) /\ EnCamino(p)' = 0 /\ Vale(q, {p}) \in Nat
    BY <1>2, <1>5 DEF EnCamino, Uno, Vale, Pids
  <2>3. EnCorto(p) \in Nat /\ EnDespacho(p) \in Nat
    BY LugaresNaturales DEF NumerosNaturales, FInv
  <2>4. QED
    BY <1>4, <2>1, <2>2, <2>3
<1>8. QED
  BY <1>1, <1>4, <1>5, <1>6, <1>7, CortoConserva

LEMMA PlanificadorCortoConserva ==
  ASSUME FInv, PTypeOK', planificador_corto
  PROVE  FInv'
<1>1. ~CortoOrdena /\ ~CortoMira /\ ~CortoCompara /\ ~CortoDesalojado
  BY DEF FInv, SinDesalojo, CortoOrdena, CortoMira, CortoCompara, CortoDesalojado
<1>2. QED
  BY <1>1, CortoDespiertaConserva, CortoTomaConserva, CortoMarcaConserva, CortoOcupaConserva,
     CortoEnviaConserva
     DEF planificador_corto

-----------------------------------------------------------------------------
(* The console.  A command that does not touch threads, states, queues nor *)
(* messages keeps the invariant; a pause has none left to disturb.         *)
LEMMA ConsignaConserva ==
  ASSUME FInv, PTypeOK', hilo' = hilo, sem'["procesoCargado"] = sem["procesoCargado"],
         UNCHANGED <<algoritmo, tabla, colas, largo, cortoVar, cpuVars, colaEspera, canalMemoria>>
  PROVE  FInv'
<1>1. UNCHANGED <<creados, estado, colaLargo, colaCorto, colaEspera, largo, cortoVar, cpuVars>>
  BY DEF tabla, colas
<1>2. /\ PorResponder' = PorResponder
      /\ \A p \in Pids : EnHilos(p)' = EnHilos(p) /\ CargaHilos(p)' = CargaHilos(p)
  BY HilosQuietos
<1>3. /\ SinDesalojo' /\ CpuContada' /\ RespuestaContada'
      /\ \A p \in Pids : /\ EnDespacho(p)' = EnDespacho(p) /\ EnContexto(p)' = EnContexto(p)
                         /\ EnCpu(p)' = EnCpu(p) /\ EnCamino(p)' = EnCamino(p)
  BY <1>1, <1>2, CpuQuieta
<1>4. LugaresContados'
  <2>1. \A p \in Pids : /\ EnCorto(p)' = EnCorto(p) /\ EnEspera(p)' = EnEspera(p)
                        /\ EnLargo(p)' = EnLargo(p) /\ EnAdmision(p)' = EnAdmision(p)
                        /\ EnMemoria(p)' = EnMemoria(p)
                        /\ Vivo(p)' = Vivo(p) /\ Nuevo(p)' = Nuevo(p)
    BY <1>1 DEF EnCorto, EnEspera, EnLargo, EnAdmision, EnMemoria, Vivo, Nuevo, Pedidos
  <2>2. \A p \in Pids : Lugares(p)' = Lugares(p) /\ LugaresDeCarga(p)' = LugaresDeCarga(p)
    BY <1>2, <1>3, <2>1 DEF Lugares, LugaresDeCarga
  <2>3. QED
    BY <2>1, <2>2 DEF FInv, LugaresContados
<1>5. CargaEnOrden'
  <2>1. EnCarga' = EnCarga
    BY DEF EnCarga, Pedidos
  <2>2. QED
    BY <1>1, <2>1 DEF FInv, CargaEnOrden
<1>6. \A g \in Corrientes : Ordenados(g)
  <2>1. EnManosDeNadie \subseteq EnManosDeNadie'
    BY <1>1, <1>2 DEF EnManosDeNadie
  <2>2. QED
    BY <2>1, SiguenLibres DEF FInv
<1>7. /\ hilo'["consola"] \in {<<>>, <<sem_wait("procesoCargado")>>}
      /\ hilo'["memoria"] \in ListasDeMemoria(creados')
  BY <1>1 DEF FInv, HilosBien
<1>8. QED
  BY <1>3, <1>4, <1>5, <1>6, <1>7, Junta

LEMMA PausaConserva ==
  ASSUME FInv, PTypeOK', detener_planificacion \/ iniciar_planificacion
                         \/ \E g \in Grados : multiprogramacion(g)
  PROVE  FInv'
<1>1. UNCHANGED <<algoritmo, tabla, colas, largo, cortoVar, cpuVars, colaEspera, canalMemoria, hilo>>
  BY Zenon DEF detener_planificacion, iniciar_planificacion, multiprogramacion, FijoEnConsola, rvars
<1>2. UNCHANGED sem \/ Publica("planiLargo")
  BY Zenon DEF detener_planificacion, iniciar_planificacion, multiprogramacion
<1>3. sem'["procesoCargado"] = sem["procesoCargado"]
  BY <1>2 DEF Publica, FInv, PTypeOK, TipoHilos, Semaforos
<1>4. QED
  BY <1>1, <1>3, ConsignaConserva

(* With no kills there is none.                                            *)
LEMMA SinKills ==
  ASSUME SoloFIFO, PTypeOK, NEW p \in Pids, finalizar_proceso(p)
  PROVE  FALSE
<1>1. eventos["kills"] < EventosMax["kills"] /\ EventosMax["kills"] = 0
  BY DEF finalizar_proceso, Ocurre, EventosMax, SoloFIFO
<1>2. eventos["kills"] \in Nat
  BY Limites DEF PTypeOK, TipoConsigna
<1>3. QED
  BY <1>1, <1>2

(* A new process: with the console free, nothing is being loaded.          *)
LEMMA NadaEnCarga ==
  ASSUME FInv, hilo["consola"] = <<>>
  PROVE  EnCarga = 0 /\ hilo["memoria"] = <<>> /\ sem["procesoCargado"] = 0
<1>1. EnCarga \in Nat /\ sem["procesoCargado"] \in Nat
  BY TipoDeCarga DEF FInv
<1>2. EnCarga + Uno(hilo["memoria"] # <<>>) + sem["procesoCargado"] = 0
  BY DEF FInv, CargaEnOrden, Uno
<1>3. CASE hilo["memoria"] = <<>>
  <2>1. Uno(hilo["memoria"] # <<>>) = 0
    BY <1>3 DEF Uno
  <2>2. QED
    BY <1>1, <1>2, <1>3, <2>1
<1>4. CASE hilo["memoria"] # <<>>
  <2>1. Uno(hilo["memoria"] # <<>>) = 1
    BY <1>4 DEF Uno
  <2>2. QED
    BY <1>1, <1>2, <2>1
<1>5. QED
  BY <1>3, <1>4

LEMMA PedidoAgregado ==
  ASSUME PTypeOK, NEW p \in Pids, canalMemoria' = Append(canalMemoria, [tipo |-> "cargar", pid |-> p])
  PROVE  /\ EnCarga' = EnCarga + 1
         /\ \A q \in Pids : EnMemoria(q)' = EnMemoria(q) + Uno(q = p)
<1> DEFINE m == [tipo |-> "cargar", pid |-> p]
           C == {x \in Pedidos : x.tipo = "cargar"}
           D(q) == {x \in Pedidos : x.tipo = "cargar" /\ x.pid = q}
<1>1. canalMemoria \in Seq(Pedidos) /\ m \in Pedidos
  BY DEF PTypeOK, TipoHilos, Pedidos
<1>2. Vale(m, C) = 1 /\ \A q : Vale(m, D(q)) = Uno(q = p)
  BY <1>1 DEF Vale, Uno
<1>3. canalMemoria' = Append(canalMemoria, m)
  OBVIOUS
<1>4. /\ EnCarga = Cuenta(canalMemoria, C) /\ EnCarga' = Cuenta(canalMemoria', C)
      /\ \A q : EnMemoria(q) = Cuenta(canalMemoria, D(q)) /\ EnMemoria(q)' = Cuenta(canalMemoria', D(q))
  BY DEF EnCarga, EnMemoria
<1> HIDE DEF m, C, D
<1>5. \A S : Cuenta(canalMemoria', S) = Cuenta(canalMemoria, S) + Vale(m, S)
  BY <1>1, <1>3, CuentaAgregar
<1>6. EnCarga' = EnCarga + 1
  BY <1>2, <1>4, <1>5
<1>7. ASSUME NEW q \in Pids
      PROVE  EnMemoria(q)' = EnMemoria(q) + Uno(q = p)
  BY <1>2, <1>4, <1>5
<1>8. QED
  BY <1>6, <1>7

LEMMA IniciarConserva ==
  ASSUME FInv, PTypeOK', iniciar_proceso
  PROVE  FInv'
<1> DEFINE ops == <<sem_wait("procesoCargado")>>
<1>1. /\ hilo["consola"] = <<>> /\ hilo' = [hilo EXCEPT !["consola"] = ops]
      /\ UNCHANGED <<algoritmo, colaLargo, colaCorto, largo, cortoVar, cpuVars, colaEspera, sem>>
  BY DEF iniciar_proceso, Lista, FijoEnConsola, colas, rvars
<1>2. PICK p \in Pids : /\ p = creados + 1 /\ creados' = p
                        /\ estado' = [estado EXCEPT ![p] = "NEW"]
                        /\ canalMemoria' = Append(canalMemoria, [tipo |-> "cargar", pid |-> p])
  BY DEF iniciar_proceso
<1>3. /\ creados \in Nat /\ estado \in [Pids -> Estados] /\ Pids \subseteq Nat
      /\ hilo \in [Hilos -> Seq(Conocidas)] /\ "consola" \in Hilos /\ "memoria" \in Hilos
      /\ canalMemoria \in Seq(Pedidos)
  <2>1. Pids \subseteq Nat
    BY MaxProcesosAssumption DEF Pids
  <2>2. QED
    BY <2>1 DEF FInv, CargaEnOrden, PTypeOK, TipoTabla, TipoHilos, Hilos, Pedidos
<1>4. EnCarga = 0 /\ hilo["memoria"] = <<>> /\ sem["procesoCargado"] = 0
  BY <1>1, NadaEnCarga
<1>5. /\ ops \in Seq(Conocidas) /\ ops # <<>> /\ Cuenta(ops, {responder}) = 0
      /\ \A q \in Pids : Cuenta(ops, OpsDe(q)) = 0 /\ Cuenta(ops, OpsDeCarga(q)) = 0
  <2>1. sem_wait("procesoCargado") \in Conocidas
    BY DEF Conocidas, sem_wait, Op, Semaforos
  <2>2. ops \in Seq(Conocidas) /\ ops # <<>> /\ Len(ops) = 1 /\ ops[1] = sem_wait("procesoCargado")
    BY <2>1
  <2>3. NoTrae(ops) /\ NoResponde(ops) /\ SinCarga(ops)
    BY <2>2 DEF NoTrae, NoResponde, SinCarga, Ubica, Carga, sem_wait, Op, responder, Simple
  <2> HIDE DEF ops
  <2>4. QED
    BY <2>2, <2>3, RespondeCuenta, NoTraeCuenta, SinCargaCuenta
<1>6. Dale("consola", ops)
  BY <1>1 DEF Dale
<1>7. hilo'["consola"] = ops /\ \A g \in Hilos : g # "consola" => hilo'[g] = hilo[g]
  BY <1>3, <1>6 DEF Dale
<1>8. ops \in {<<>>, <<sem_wait("procesoCargado")>>}
  OBVIOUS
<1> HIDE DEF ops
<1>9. \A S : CuentaEn(hilo', S) = CuentaEn(hilo, S) + Cuenta(ops, S)
  BY <1>3, <1>5, <1>6, DaLista DEF FInv
<1>10. PorResponder' = PorResponder
  <2>1. responder' = responder
    BY DEF responder, Simple, Op, SinArg
  <2>2. CuentaEn(hilo', {responder}) = CuentaEn(hilo, {responder}) + Cuenta(ops, {responder})
    BY <1>9
  <2>3. CuentaEn(hilo, {responder}) \in Nat
    BY <1>3, HilosFinitos, CuentaEnNatural
  <2>4. QED
    BY <1>5, <2>1, <2>2, <2>3 DEF PorResponder
<1>11. ASSUME NEW q \in Pids
       PROVE  EnHilos(q)' = EnHilos(q) /\ CargaHilos(q)' = CargaHilos(q)
  <2>1. /\ CuentaEn(hilo', OpsDe(q)) = CuentaEn(hilo, OpsDe(q)) + Cuenta(ops, OpsDe(q))
        /\ CuentaEn(hilo', OpsDeCarga(q)) = CuentaEn(hilo, OpsDeCarga(q)) + Cuenta(ops, OpsDeCarga(q))
    BY <1>9
  <2>2. EnHilos(q) \in Nat /\ CargaHilos(q) \in Nat
    BY LugaresNaturales DEF NumerosNaturales, FInv
  <2>3. QED
    BY <1>5, <2>1, <2>2 DEF EnHilos, CargaHilos
<1>12. /\ SinDesalojo' /\ CpuContada' /\ RespuestaContada'
       /\ \A q \in Pids : /\ EnDespacho(q)' = EnDespacho(q) /\ EnContexto(q)' = EnContexto(q)
                          /\ EnCpu(q)' = EnCpu(q) /\ EnCamino(q)' = EnCamino(q)
  BY <1>1, <1>10, CpuQuieta
<1>13. EnCarga' = 1 /\ \A q \in Pids : EnMemoria(q)' = EnMemoria(q) + Uno(q = p)
  BY <1>2, <1>4, PedidoAgregado DEF FInv
<1>14. estado[p] = "NULO" /\ estado'[p] = "NEW" /\ \A q \in Pids : q # p => estado'[q] = estado[q]
  BY <1>2, <1>3 DEF FInv, CargaEnOrden
<1>15. LugaresContados'
  <2>1. ASSUME NEW q \in Pids
        PROVE  Lugares(q)' = Vivo(q)' /\ LugaresDeCarga(q)' = Nuevo(q)'
    <3>1. /\ EnCorto(q)' = EnCorto(q) /\ EnEspera(q)' = EnEspera(q)
          /\ EnLargo(q)' = EnLargo(q) /\ EnAdmision(q)' = EnAdmision(q)
      BY <1>1 DEF EnCorto, EnEspera, EnLargo, EnAdmision
    <3>2. Lugares(q)' = Lugares(q)
      BY <1>11, <1>12, <3>1 DEF Lugares
    <3>3. LugaresDeCarga(q)' = LugaresDeCarga(q) + Uno(q = p)
      <4>1. /\ CargaHilos(q) \in Nat /\ EnMemoria(q) \in Nat /\ EnLargo(q) \in Nat /\ EnAdmision(q) \in Nat
            /\ Uno(q = p) \in Nat
        BY LugaresNaturales DEF NumerosNaturales, FInv, Uno
      <4>2. CargaHilos(q) + EnLargo(q) + (EnMemoria(q) + Uno(q = p)) + EnAdmision(q)
              = (CargaHilos(q) + EnLargo(q) + EnMemoria(q) + EnAdmision(q)) + Uno(q = p)
        BY <4>1
      <4>3. QED
        BY <1>11, <1>13, <3>1, <4>2 DEF LugaresDeCarga
    <3>4. Vivo(q)' = Vivo(q) /\ Nuevo(q)' = Nuevo(q) + Uno(q = p)
      <4>1. CASE q = p
        BY <1>14, <4>1 DEF Vivo, Nuevo, Uno, Admitida
      <4>2. CASE q # p
        BY <1>14, <4>2 DEF Vivo, Nuevo, Uno
      <4>3. QED
        BY <4>1, <4>2
    <3>5. QED
      BY <3>2, <3>3, <3>4 DEF FInv, LugaresContados
  <2>2. QED
    BY <2>1 DEF LugaresContados
<1>16. CargaEnOrden'
  <2>1. creados' \in Nat /\ \A q \in Pids : q > creados' => estado'[q] = "NULO"
    <3>1. ASSUME NEW q \in Pids, q > creados' PROVE estado'[q] = "NULO"
      <4>1. q > creados /\ q # p
        BY <1>2, <1>3, <3>1
      <4>2. estado[q] = "NULO"
        BY <4>1 DEF FInv, CargaEnOrden
      <4>3. QED
        BY <1>14, <4>1, <4>2
    <3>2. QED
      BY <1>2, <1>3, <3>1
  <2>2. ASSUME NEW i \in 1..Len(canalMemoria'), canalMemoria'[i].tipo = "cargar"
        PROVE  canalMemoria'[i].pid = creados'
    <3>1. CASE i \in 1..Len(canalMemoria)
      <4>1. canalMemoria'[i] = canalMemoria[i] /\ canalMemoria[i] \in Pedidos
        BY <1>2, <1>3, <3>1
      <4>2. canalMemoria[i] \in {m \in Pedidos : m.tipo = "cargar"}
        BY <2>2, <4>1
      <4>3. EnCarga > 0
        BY <1>3, <3>1, <4>2, CuentaNatural DEF EnCarga
      <4>4. QED
        BY <1>4, <4>3
    <3>2. CASE i \notin 1..Len(canalMemoria)
      <4>1. i = Len(canalMemoria) + 1
        BY <1>2, <1>3, <3>2
      <4>2. canalMemoria'[i] = [tipo |-> "cargar", pid |-> p]
        BY <1>2, <1>3, <4>1
      <4>3. QED
        BY <1>2, <4>2
    <3>3. QED
      BY <3>1, <3>2
  <2>3. EnCarga' + Uno(hilo'["memoria"] # <<>>) + sem'["procesoCargado"] = Uno(hilo'["consola"] # <<>>)
    BY <1>1, <1>3, <1>4, <1>5, <1>7, <1>13 DEF Uno
  <2>4. QED
    BY <2>1, <2>2, <2>3 DEF CargaEnOrden
<1>17. \A g \in Corrientes : Ordenados(g)
  <2>1. EnManosDeNadie \subseteq EnManosDeNadie'
    <3>1. ASSUME NEW q \in EnManosDeNadie PROVE q \in EnManosDeNadie'
      <4>1. q \in Pids /\ estado[q] \in Admitida /\ EnHilos(q) = 0
        BY DEF EnManosDeNadie
      <4>2. q # p
        BY <1>14, <4>1 DEF Admitida
      <4>3. QED
        BY <1>11, <1>14, <4>1, <4>2 DEF EnManosDeNadie
    <3>2. QED
      BY <3>1
  <2>2. \A g \in Corrientes : hilo'[g] = hilo[g]
    BY <1>7 DEF Corrientes
  <2>3. QED
    BY <2>1, <2>2, SiguenLibres DEF FInv
<1>18. /\ hilo'["consola"] \in {<<>>, <<sem_wait("procesoCargado")>>}
       /\ hilo'["memoria"] \in ListasDeMemoria(creados')
  <2>1. hilo'["memoria"] = <<>>
    BY <1>3, <1>4, <1>7
  <2>2. QED
    BY <1>7, <1>8, <2>1 DEF ListasDeMemoria
<1>19. QED
  BY <1>12, <1>15, <1>16, <1>17, <1>18, Junta

-----------------------------------------------------------------------------
(* FInv is inductive, and it holds initially.                              *)
LEMMA FQuieto == FInv /\ UNCHANGED pvars => FInv'
<1> SUFFICES ASSUME FInv, UNCHANGED pvars PROVE FInv'
  OBVIOUS
<1>1. /\ hilo' = hilo /\ sem'["procesoCargado"] = sem["procesoCargado"]
      /\ UNCHANGED <<algoritmo, tabla, colas, largo, cortoVar, cpuVars, colaEspera, canalMemoria>>
  BY DEF pvars, kernel, consigna, rvars
<1>2. PTypeOK'
  BY PTipoInductivo DEF FInv
<1>3. QED
  BY <1>1, <1>2, ConsignaConserva

(* The Kernel dies of a file that is not open: the rest stays as it was.   *)
LEMMA EscribirSinAbrirConserva ==
  ASSUME FInv, PTypeOK', NEW h, EscribirSinAbrir(h)
  PROVE  FInv'
<1>1. UNCHANGED <<kernel, cpuVars>> /\ colaEspera' = colaEspera
  BY DEF EscribirSinAbrir, Caer
<1>2. /\ hilo' = hilo /\ sem'["procesoCargado"] = sem["procesoCargado"]
      /\ UNCHANGED <<algoritmo, tabla, colas, largo, cortoVar, cpuVars, colaEspera, canalMemoria>>
  BY <1>1 DEF kernel, consigna
<1>3. QED
  BY <1>2, ConsignaConserva

LEMMA LlamadasConservan ==
  ASSUME FInv, PTypeOK', NEW h \in Hilos, Llamada(h)
  PROVE  FInv'
BY ConsolaConserva, MemoriaConserva, LlamadaConserva, EscribirSinAbrirConserva DEF Corrientes

LEMMA FInductivo == SoloFIFO /\ DescriptorAjeno /\ FInv /\ [PNext]_pvars => FInv'
<1> SUFFICES ASSUME SoloFIFO, DescriptorAjeno, FInv, [PNext]_pvars PROVE FInv'
  OBVIOUS
<1>1. PTypeOK /\ PTypeOK'
  BY PTipoInductivo DEF FInv
<1>2. CASE CPUPaso
  BY <1>1, <1>2, CpuPasoConserva
<1>3. ASSUME NEW h \in Hilos, Llamada(h) PROVE FInv'
  BY <1>1, <1>3, LlamadasConservan
<1>4. CASE RecibirContexto
  BY <1>1, <1>4, RecibirContextoConserva
<1>5. CASE MemoriaResponde
  BY <1>1, <1>5, MemoriaRespondeConserva
<1>6. CASE planificador_largo
  BY <1>1, <1>6, PlanificadorLargoConserva
<1>7. CASE planificador_corto
  BY <1>1, <1>7, PlanificadorCortoConserva
<1>8. ASSUME NEW p \in Pids, clock_rr(p) PROVE FInv'
  <2>1. relojes[p] > 0 /\ relojes[p] = 0
    BY <1>8 DEF clock_rr, FInv, SinDesalojo
  <2>2. QED
    BY <2>1
<1>9. CASE hilo_consola
  <2>1. CASE iniciar_proceso
    BY <1>1, <2>1, IniciarConserva
  <2>2. ASSUME NEW p \in Pids, finalizar_proceso(p) PROVE FInv'
    BY <1>1, <2>2, SinKills
  <2>3. CASE detener_planificacion \/ iniciar_planificacion \/ \E g \in Grados : multiprogramacion(g)
    BY <1>1, <2>3, PausaConserva
  <2>4. QED
    BY <1>9, <2>1, <2>2, <2>3 DEF hilo_consola
<1>10. CASE UNCHANGED pvars
  BY <1>10, FQuieto
<1>11. QED
  BY <1>2, <1>3, <1>4, <1>5, <1>6, <1>7, <1>8, <1>9, <1>10 DEF PNext

LEMMA FInicial == SoloFIFO /\ PInit => FInv
<1> SUFFICES ASSUME SoloFIFO, PInit PROVE FInv
  OBVIOUS
<1>1. PTypeOK
  BY PTipoInicial
<1>2. /\ algoritmo = "FIFO" /\ creados = 0 /\ estado = [p \in Pids |-> "NULO"]
      /\ colaLargo = <<>> /\ colaCorto = <<>> /\ ejecutandoB = FALSE
      /\ sem = [s \in Semaforos |-> 0] /\ hilo = [h \in Hilos |-> <<>>]
      /\ largo.pc = "esperar" /\ corto.pc = "esperar" /\ corto.pid = 0
      /\ relojes = [p \in Pids |-> 0] /\ canalMemoria = <<>>
  BY DEF PInit, SoloFIFO
<1>3. /\ canalDespacho = <<>> /\ canalContexto = <<>> /\ canalInterrupcion = <<>>
      /\ proceso.pid = 0 /\ ciclo = 0 /\ respuesta = 0 /\ cicloPc = "ciclo" /\ bloquear = FALSE
      /\ interrupcion = FALSE /\ avisar = FALSE /\ pedido = 0
  BY DEF PInit, CPUInit
<1>4. colaEspera = [r \in Recs |-> <<>>]
  BY DEF PInit, RInit
<1>5. \A S : /\ Cuenta(canalDespacho, S) = 0 /\ Cuenta(canalContexto, S) = 0
             /\ Cuenta(canalMemoria, S) = 0 /\ Cuenta(colaCorto, S) = 0 /\ Cuenta(colaLargo, S) = 0
  BY <1>2, <1>3, CuentaVacia
<1>6. \A S : CuentaEn(hilo, S) = 0
  BY <1>2, HilosFinitos, CuentaEnVacia
<1>7. \A S : CuentaEn(colaEspera, S) = 0
  BY <1>4, RecursosAssumption, CuentaEnVacia
<1>8. SinDesalojo
  BY <1>2, <1>3 DEF SinDesalojo
<1>9. CpuContada
  BY <1>2, <1>3, <1>5 DEF CpuContada, Ocupacion, Uno
<1>10. RespuestaContada
  BY <1>3, <1>5, <1>6 DEF RespuestaContada, PorResponder, EnRespuesta, Debida, Uno
<1>11. LugaresContados
  <2>1. ASSUME NEW p \in Pids
        PROVE  Lugares(p) = Vivo(p) /\ LugaresDeCarga(p) = Nuevo(p)
    <3>1. EnHilos(p) = 0 /\ CargaHilos(p) = 0 /\ EnEspera(p) = 0
      BY <1>6, <1>7 DEF EnHilos, CargaHilos, EnEspera
    <3>2. EnCorto(p) = 0 /\ EnLargo(p) = 0 /\ EnDespacho(p) = 0 /\ EnContexto(p) = 0 /\ EnMemoria(p) = 0
      BY <1>5 DEF EnCorto, EnLargo, EnDespacho, EnContexto, EnMemoria
    <3>3. EnCamino(p) = 0 /\ EnAdmision(p) = 0 /\ EnCpu(p) = 0
      BY <1>2, <1>3, MaxProcesosAssumption DEF EnCamino, EnAdmision, EnCpu, Uno, Pids
    <3>4. Vivo(p) = 0 /\ Nuevo(p) = 0
      BY <1>2 DEF Vivo, Nuevo, Uno, Admitida
    <3>5. QED
      BY <3>1, <3>2, <3>3, <3>4 DEF Lugares, LugaresDeCarga
  <2>2. QED
    BY <2>1 DEF LugaresContados
<1>12. CargaEnOrden
  <2>1. EnCarga = 0
    BY <1>5 DEF EnCarga
  <2>2. hilo["memoria"] = <<>> /\ hilo["consola"] = <<>> /\ sem["procesoCargado"] = 0
    BY <1>2 DEF Hilos, Semaforos
  <2>3. QED
    BY <1>2, <2>1, <2>2 DEF CargaEnOrden, Uno
<1>13. \A h \in Hilos : hilo[h] = <<>>
  BY <1>2
<1>14. HilosBien
  <2>1. hilo["consola"] = <<>> /\ hilo["memoria"] = <<>>
    BY <1>13 DEF Hilos
  <2>2. \A h \in Corrientes : \A i \in 1..Len(hilo[h]) : Corriente(h, hilo[h][i])
    BY <1>13 DEF Corrientes
  <2>3. QED
    BY <2>1, <2>2, Zenon DEF HilosBien, ListasDeMemoria
<1>15. Encadenadas
  BY <1>13 DEF Encadenadas, Encadenada, Corrientes
<1>16. QED
  BY <1>1, <1>8, <1>9, <1>10, <1>11, <1>12, <1>14, <1>15 DEF FInv

(* The inductive invariant of planning by FIFO without kills: nothing      *)
(* interrupts the CPU; what goes to it, is in it and comes back adds up to *)
(* the flag of planificador_corto and to the answers owed; every process   *)
(* is in one place from its load to its end, whatever the handler, the     *)
(* console, the schedulers and the detached threads do in between.  It is  *)
(* so as long as the number of the socket is no pid the CPU works on       *)
(* (DescriptorAjeno), which the code leaves to how many processes there    *)
(* are: see DescriptorLejano.                                              *)
THEOREM FInvariante == SoloFIFO => (PSpec /\ []DescriptorAjeno => []FInv)
<1>1. SoloFIFO /\ PInit => FInv
  BY FInicial
<1>2. SoloFIFO /\ DescriptorAjeno /\ FInv /\ [PNext]_pvars => FInv'
  BY FInductivo
<1>3. CASE SoloFIFO
  BY <1>1, <1>2, <1>3, PTL DEF PSpec
<1>4. QED
  BY <1>3

-----------------------------------------------------------------------------
(* What FInv says is what the three properties ask, which count the calls  *)
(* and the messages by what they are.                                      *)
LEMMA TiposContados ==
  ASSUME PTypeOK
  PROVE  /\ \A h \in Hilos : \A i \in 1..Len(hilo[h]) : hilo[h][i] \in Conocidas
         /\ \A i \in 1..Len(canalDespacho) : canalDespacho[i] \in MensajesDespacho
         /\ \A i \in 1..Len(canalContexto) : canalContexto[i] \in Contextos
         /\ \A i \in 1..Len(canalMemoria) : canalMemoria[i] \in Pedidos
         /\ DOMAIN hilo = Hilos /\ DOMAIN colaEspera = Recs
<1>1. /\ hilo \in [Hilos -> Seq(Conocidas)] /\ canalMemoria \in Seq(Pedidos)
      /\ canalDespacho \in Seq(MensajesDespacho) /\ canalContexto \in Seq(Contextos)
      /\ DOMAIN colaEspera = Recs
  BY DEF PTypeOK, TipoHilos, CPUTypeOK, TipoCanales, RTypeOK, Pedidos, Contextos
<1>2. ASSUME NEW h \in Hilos, NEW i \in 1..Len(hilo[h]) PROVE hilo[h][i] \in Conocidas
  BY <1>1, ElementOfSeq
<1>3. QED
  BY <1>1, <1>2, ElementOfSeq

(* A thread does not answer but with responder.                            *)
LEMMA RespuestasDeHilos ==
  ASSUME PTypeOK
  PROVE  Cardinality(Llamadas(LAMBDA o : o.op = "respuesta")) = PorResponder
<1>1. \A h \in Hilos : \A i \in 1..Len(hilo[h]) : hilo[h][i] \in Conocidas
  BY TiposContados
<1>2. \A o \in Conocidas : o.op = "respuesta" <=> o \in {responder}
  BY DEF Conocidas, responder, Simple, Op
<1>3. \A h \in Hilos : {i \in 1..Len(hilo[h]) : hilo[h][i].op = "respuesta"} = Posiciones(hilo[h], {responder})
  BY <1>1, <1>2 DEF Posiciones
<1>4. Llamadas(LAMBDA o : o.op = "respuesta") = Dispersos(hilo, {responder})
  <2> DEFINE A(h) == {i \in 1..Len(hilo[h]) : hilo[h][i].op = "respuesta"}
             B(h) == Posiciones(hilo[h], {responder})
  <2>1. \A h \in Hilos : A(h) = B(h)
    BY <1>3
  <2>2. Llamadas(LAMBDA o : o.op = "respuesta") = UNION {{h} \X A(h) : h \in Hilos}
    BY DEF Llamadas
  <2>3. Dispersos(hilo, {responder}) = UNION {{h} \X B(h) : h \in Hilos}
    <3>1. DOMAIN hilo = Hilos
      BY TiposContados DEF FInv
    <3>2. QED
      BY <3>1 DEF Dispersos
  <2> HIDE DEF A, B
  <2>4. UNION {{h} \X A(h) : h \in Hilos} = UNION {{h} \X B(h) : h \in Hilos}
    BY <2>1
  <2>5. QED
    BY <2>2, <2>3, <2>4
<1>5. QED
  BY <1>4 DEF PorResponder, CuentaEn

LEMMA MensajesContados ==
  ASSUME PTypeOK
  PROVE  /\ Cardinality(Mensajes(canalDespacho, LAMBDA m : m.tipo = "respuesta")) = EnRespuesta
         /\ Cardinality(Mensajes(canalDespacho, LAMBDA m : m.tipo = "proceso")) = Cuenta(canalDespacho, Procesos)
<1>1. Mensajes(canalDespacho, LAMBDA m : m.tipo = "respuesta")
        = Posiciones(canalDespacho, {m \in MensajesDespacho : m.tipo = "respuesta"})
  BY TiposContados DEF Mensajes, Posiciones
<1>2. Mensajes(canalDespacho, LAMBDA m : m.tipo = "proceso") = Posiciones(canalDespacho, Procesos)
  BY TiposContados DEF Mensajes, Posiciones, Procesos
<1>3. QED
  BY <1>1, <1>2 DEF EnRespuesta, Cuenta

LEMMA RespuestaDeFInv == FInv => RespuestaEmparejada
<1> SUFFICES ASSUME FInv PROVE RespuestaEmparejada
  OBVIOUS
<1>1. Cardinality(Llamadas(LAMBDA o : o.op = "respuesta")) = PorResponder
  BY RespuestasDeHilos DEF FInv
<1>2. Cardinality(Mensajes(canalDespacho, LAMBDA m : m.tipo = "respuesta")) = EnRespuesta
  BY MensajesContados DEF FInv
<1>3. QED
  BY <1>1, <1>2 DEF FInv, RespuestaContada, Debida, RespuestaEmparejada

LEMMA CpuDeFInv == FInv => CpuUnica
<1> SUFFICES ASSUME FInv PROVE CpuUnica
  OBVIOUS
<1>1. Cardinality(Mensajes(canalDespacho, LAMBDA m : m.tipo = "proceso")) = Cuenta(canalDespacho, Procesos)
  BY MensajesContados DEF FInv
<1>2. Uno(CpuOcupada) = Ocupacion
  <2>1. /\ Cuenta(canalDespacho, Procesos) \in Nat /\ Ocupacion \in Nat /\ Len(canalContexto) \in Nat
        /\ Cuenta(canalDespacho, Procesos) + Ocupacion + Len(canalContexto) \in {0, 1}
        /\ ~interrupcion
    BY UnoEnLaCpu
  <2>2. CpuOcupada <=> Ocupacion > 0
    BY <2>1, OcupadaEs DEF FInv, Ocupada
  <2>3. Ocupacion \in {0, 1}
    BY <2>1
  <2>4. QED
    BY <2>2, <2>3 DEF Uno
<1>3. /\ Cuenta(canalDespacho, Procesos) \in Nat /\ Ocupacion \in Nat /\ Len(canalContexto) \in Nat
      /\ Cuenta(canalDespacho, Procesos) + Ocupacion + Len(canalContexto)
           = Uno(ejecutandoB /\ corto.pc # "enviar")
      /\ corto.pc = "enviar" => ejecutandoB
  BY UnoEnLaCpu DEF FInv, CpuContada
<1>4. Uno(corto.pc = "enviar") + Cuenta(canalDespacho, Procesos) + Ocupacion + Len(canalContexto)
        = Uno(ejecutandoB)
  BY <1>3 DEF Uno
<1>5. QED
  BY <1>1, <1>2, <1>4 DEF CpuUnica

(* Nobody pushes a process that an interrupt returned: none interrupts.    *)
LEMMA Colocadas ==
  ASSUME FInv, NEW p \in Pids, NEW h \in Hilos, NEW i \in 1..Len(hilo[h])
  PROVE  hilo[h][i].pid = p /\ Coloca(hilo[h][i]) <=> hilo[h][i] \in OpsDe(p) \cup OpsDeCarga(p)
<1>1. hilo[h][i] \in Conocidas
  BY TiposContados DEF FInv
<1>2. hilo[h][i].op # "push_si_EXEC"
  <2>1. CASE h \in Corrientes
    BY <2>1 DEF FInv, HilosBien, Corriente
  <2>2. CASE h = "consola"
    BY <2>2 DEF FInv, HilosBien, sem_wait, Op
  <2>3. CASE h = "memoria"
    BY <2>3 DEF FInv, HilosBien, ListasDeMemoria, Cargado, sem_post, Simple, Op
  <2>4. QED
    BY <2>1, <2>2, <2>3 DEF Corrientes
<1>3. QED
  BY <1>1, <1>2 DEF OpsDe, OpsDeCarga, Coloca, Ubica, Carga

LEMMA ColocadasEnHilos ==
  ASSUME FInv, NEW p \in Pids
  PROVE  Cardinality(Llamadas(LAMBDA o : o.pid = p /\ Coloca(o))) = EnHilos(p) + CargaHilos(p)
<1>1. \A h \in Hilos : {i \in 1..Len(hilo[h]) : hilo[h][i].pid = p /\ Coloca(hilo[h][i])}
                         = Posiciones(hilo[h], OpsDe(p) \cup OpsDeCarga(p))
  BY Colocadas DEF Posiciones
<1>2. Llamadas(LAMBDA o : o.pid = p /\ Coloca(o)) = Dispersos(hilo, OpsDe(p) \cup OpsDeCarga(p))
  <2> DEFINE A(h) == {i \in 1..Len(hilo[h]) : hilo[h][i].pid = p /\ Coloca(hilo[h][i])}
             B(h) == Posiciones(hilo[h], OpsDe(p) \cup OpsDeCarga(p))
  <2>1. \A h \in Hilos : A(h) = B(h)
    BY <1>1
  <2>2. Llamadas(LAMBDA o : o.pid = p /\ Coloca(o)) = UNION {{h} \X A(h) : h \in Hilos}
    BY DEF Llamadas
  <2>3. Dispersos(hilo, OpsDe(p) \cup OpsDeCarga(p)) = UNION {{h} \X B(h) : h \in Hilos}
    <3>1. DOMAIN hilo = Hilos
      BY TiposContados DEF FInv
    <3>2. QED
      BY <3>1 DEF Dispersos
  <2> HIDE DEF A, B
  <2>4. UNION {{h} \X A(h) : h \in Hilos} = UNION {{h} \X B(h) : h \in Hilos}
    BY <2>1
  <2>5. QED
    BY <2>2, <2>3, <2>4
<1>3. OpsDe(p) \cap OpsDeCarga(p) = {}
  BY DEF OpsDe, OpsDeCarga, Ubica, Carga
<1>4. CuentaEn(hilo, OpsDe(p) \cup OpsDeCarga(p)) = CuentaEn(hilo, OpsDe(p)) + CuentaEn(hilo, OpsDeCarga(p))
  <2>1. hilo \in [Hilos -> Seq(Conocidas)]
    BY DEF FInv, PTypeOK, TipoHilos
  <2>2. QED
    BY <1>3, <2>1, HilosFinitos, CuentaEnDisjuntos
<1>5. QED
  BY <1>2, <1>4 DEF CuentaEn, EnHilos, CargaHilos

LEMMA LugarDeFInv == FInv => UnSoloLugar
<1> SUFFICES ASSUME FInv, NEW p \in Pids
             PROVE  Referencias(p) = Uno(estado[p] \notin {"NULO", "TERMINATED"})
  BY DEF UnSoloLugar
<1>1. Cardinality(Llamadas(LAMBDA o : o.pid = p /\ Coloca(o))) = EnHilos(p) + CargaHilos(p)
  BY ColocadasEnHilos
<1>2. /\ {i \in 1..Len(colaLargo) : colaLargo[i] = p} = Posiciones(colaLargo, {p})
      /\ {i \in 1..Len(colaCorto) : colaCorto[i] = p} = Posiciones(colaCorto, {p})
  BY DEF Posiciones
<1>3. UNION {{r} \X {i \in 1..Len(colaEspera[r]) : colaEspera[r][i] = p} : r \in Recs}
        = Dispersos(colaEspera, {p})
  <2> DEFINE A(h) == {i \in 1..Len(colaEspera[h]) : colaEspera[h][i] = p}
             B(h) == Posiciones(colaEspera[h], {p})
  <2>1. \A h \in Recs : A(h) = B(h)
    BY DEF Posiciones
  <2>2. UNION {{r} \X {i \in 1..Len(colaEspera[r]) : colaEspera[r][i] = p} : r \in Recs} = UNION {{h} \X A(h) : h \in Recs}
    OBVIOUS
  <2>3. Dispersos(colaEspera, {p}) = UNION {{h} \X B(h) : h \in Recs}
    <3>1. DOMAIN colaEspera = Recs
      BY TiposContados DEF FInv
    <3>2. QED
      BY <3>1 DEF Dispersos
  <2> HIDE DEF A, B
  <2>4. UNION {{h} \X A(h) : h \in Recs} = UNION {{h} \X B(h) : h \in Recs}
    BY <2>1
  <2>5. QED
    BY <2>2, <2>3, <2>4
<1>4. {i \in 1..Len(canalMemoria) : canalMemoria[i].pid = p /\ canalMemoria[i].tipo = "cargar"}
        = Posiciones(canalMemoria, {m \in Pedidos : m.tipo = "cargar" /\ m.pid = p})
  BY TiposContados DEF Posiciones, FInv
<1>5. /\ {i \in 1..Len(canalDespacho) : canalDespacho[i].pid = p}
           = Posiciones(canalDespacho, {m \in MensajesDespacho : m.pid = p})
      /\ {i \in 1..Len(canalContexto) : canalContexto[i].pid = p}
           = Posiciones(canalContexto, {m \in Contextos : m.pid = p})
  BY TiposContados DEF Posiciones, FInv
<1>6. Referencias(p) = (EnHilos(p) + CargaHilos(p)) + EnLargo(p) + EnCorto(p) + EnEspera(p) + EnMemoria(p)
                       + EnDespacho(p) + EnContexto(p) + EnAdmision(p) + EnCamino(p) + EnCpu(p)
  BY <1>1, <1>2, <1>3, <1>4, <1>5
  DEF Referencias, Mensajes, EnLargo, EnCorto, EnEspera, EnMemoria, EnDespacho, EnContexto,
      EnAdmision, EnCamino, EnCpu, Cuenta, CuentaEn
<1>7. NumerosNaturales
  BY LugaresNaturales DEF FInv
<1>8. Referencias(p) = Lugares(p) + LugaresDeCarga(p)
  BY <1>6, <1>7 DEF NumerosNaturales, Lugares, LugaresDeCarga
<1>9. Lugares(p) = Vivo(p) /\ LugaresDeCarga(p) = Nuevo(p)
  BY DEF FInv, LugaresContados
<1>10. Vivo(p) + Nuevo(p) = Uno(estado[p] \notin {"NULO", "TERMINATED"})
  BY DEF FInv, PTypeOK, TipoTabla, Estados, Vivo, Nuevo, Admitida, Uno
<1>11. QED
  BY <1>8, <1>9, <1>10

(* Under FIFO, and with nobody killed, a live process is in exactly one    *)
(* place: no interleaving of the handler of contexts, the detached threads *)
(* and the schedulers loses a PCB, leaves it in two queues, or keeps one   *)
(* that has ended, while the number of the socket is nobody's pid in the   *)
(* CPU (DescriptorAjeno; when it is, the handler of desalojo_signal loses  *)
(* the process).                                                           *)
THEOREM PUnSoloLugar == SoloFIFO => (PSpec /\ []DescriptorAjeno => []UnSoloLugar)
BY FInvariante, LugarDeFInv, PTL

(* Under FIFO, with nobody killed and the descriptor nobody's pid in the   *)
(* CPU, ejecutandoB says exactly whether the CPU, or a message to it or    *)
(* from it, or the dispatcher about to send it, has a process.             *)
THEOREM PCpuUnica == SoloFIFO => (PSpec /\ []DescriptorAjeno => []CpuUnica)
BY FInvariante, CpuDeFInv, PTL

(* Under FIFO, with nobody killed and the descriptor nobody's pid in the   *)
(* CPU, it is owed one answer after a syscall and none otherwise.          *)
THEOREM PRespuestaEmparejada == SoloFIFO => (PSpec /\ []DescriptorAjeno => []RespuestaEmparejada)
BY FInvariante, RespuestaDeFInv, PTL
-----------------------------------------------------------------------------
(* The CPU works on processes that were loaded, so on pids not beyond      *)
(* `creados`: while they are fewer than the number of the socket, no pid is*)
(* that number.                                                            *)
Cargada(p)  == estado[p] \notin {"NULO", "NEW"}
CpuConocida == proceso.pid # 0 => Cargada(proceso.pid)

LEMMA SinCargarAun ==
  ASSUME FInv, NEW h \in Hilos, BorrarProceso(h)
  PROVE  De(h) \in Pids /\ estado[De(h)] = "NEW"
<1>1. Llama(h, "borrar_proceso") /\ Head(hilo[h]).op = "borrar_proceso" /\ hilo[h] # <<>>
  BY DEF BorrarProceso, Llama
<1>2. De(h) \in Pids /\ Head(hilo[h]) \in Conocidas
  BY <1>1, CampoPid, CabezaConocida DEF FInv, PTypeOK
<1>3. hilo[h] \in Seq(Conocidas) /\ 1 \in 1..Len(hilo[h]) /\ hilo[h][1] = Head(hilo[h])
  BY <1>1 DEF FInv, PTypeOK, TipoHilos
<1>4. Head(hilo[h]) \in OpsDeCarga(De(h))
  BY <1>1, <1>2 DEF OpsDeCarga, Carga, De
<1>5. CargaHilos(De(h)) > 0
  BY <1>3, <1>4, HilosFinitos, CuentaEnNatural DEF CargaHilos, FInv, PTypeOK, TipoHilos
<1>6. LugaresDeCarga(De(h)) > 0
  <2>1. NumerosNaturales
    BY LugaresNaturales DEF FInv
  <2>2. QED
    BY <1>2, <1>5, <2>1 DEF NumerosNaturales, LugaresDeCarga
<1>7. QED
  BY <1>2, <1>6 DEF FInv, LugaresContados, Nuevo, Uno

(* The state of a process is set to one it has after it is loaded.         *)
LEMMA EstadoPuesto ==
  ASSUME FInv, NEW h \in Hilos, CambiarEstado(h)
  PROVE  De(h) \in Pids /\ Head(hilo[h]).arg \in Admitida \cup {"TERMINATED"}
<1>1. Llama(h, "cambiar_estado") /\ Head(hilo[h]).op = "cambiar_estado" /\ hilo[h] # <<>>
  BY DEF CambiarEstado, Llama
<1>2. De(h) \in Pids
  BY <1>1, CampoPid DEF FInv, PTypeOK
<1>3. h # "consola"
  <2>1. ASSUME h = "consola" PROVE FALSE
    <3>1. hilo[h] = <<sem_wait("procesoCargado")>>
      BY <1>1, <2>1 DEF FInv, HilosBien
    <3>2. Head(hilo[h]) = sem_wait("procesoCargado")
      BY <3>1
    <3>3. QED
      BY <1>1, <3>2 DEF sem_wait, Op
  <2>2. QED
    BY <2>1
<1>4. h # "memoria"
  BY <1>1, ListaDeMemoria DEF Cargado, sem_post, Simple, Op
<1>5. h \in Corrientes
  BY <1>3, <1>4 DEF Corrientes
<1>6. 1 \in 1..Len(hilo[h]) /\ hilo[h][1] = Head(hilo[h])
  BY <1>1, <1>5, CabezaCorriente DEF FInv
<1>7. Acomoda(hilo[h][1]) => hilo[h][1].arg \in Admitida
  BY <1>5, <1>6 DEF FInv, Encadenadas, Encadenada, Seguida
<1>8. QED
  BY <1>1, <1>2, <1>6, <1>7 DEF Acomoda

(* A process that was loaded stays so.                                     *)
LEMMA LlamadaCargada ==
  ASSUME FInv, NEW h \in Hilos, Llamada(h), NEW q \in Pids, Cargada(q)
  PROVE  Cargada(q)'
<1>1. estado \in [Pids -> Estados]
  BY DEF FInv, PTypeOK, TipoTabla
<1>2. CASE CambiarEstado(h)
  <2>1. estado' = [estado EXCEPT ![De(h)] = Head(hilo[h]).arg]
    BY <1>2 DEF CambiarEstado
  <2>2. QED
    BY <1>1, <1>2, <2>1, EstadoPuesto DEF Cargada, Admitida
<1>3. CASE BorrarProceso(h)
  <2>1. estado' = [estado EXCEPT ![De(h)] = "NULO"] /\ estado[De(h)] = "NEW"
    BY <1>3, SinCargarAun DEF BorrarProceso
  <2>2. QED
    BY <1>1, <2>1 DEF Cargada
<1>4. CASE SignalValido(h) \/ LiberarConEntrega(h) \/ PushColaCorto(h)
  <2>1. estado' = estado \/ \E w : estado' = [estado EXCEPT ![w] = "READY"]
    BY <1>4 DEF SignalValido, LiberarConEntrega, PushColaCorto
  <2>2. QED
    BY <1>1, <2>1 DEF Cargada
<1>5. ASSUME estado' = estado PROVE Cargada(q)'
  BY <1>5 DEF Cargada
<1>6. QED
  BY <1>2, <1>3, <1>4, <1>5
  DEF Llamada, SemPost, SemWait, PushSiEXEC, QueuePush, OrdenarAdelante, Responder, HiloFuncion,
      EscribirSinAbrir, WaitConInstancia, WaitSinInstancia, DetectarDeadlock, WaitInvalido,
      SignalInvalido, Avisar, Salida, QuitarDeColas, LiberarSinEntrega, PedirMemoria, BajarMulti,
      PushColaLargo, DespertarLargo, kernel, tabla

LEMMA SigueCargada ==
  ASSUME FInv, [PNext]_pvars, NEW q \in Pids, Cargada(q)
  PROVE  Cargada(q)'
<1>1. estado \in [Pids -> Estados]
  BY DEF FInv, PTypeOK, TipoTabla
<1>2. ASSUME estado' = estado PROVE Cargada(q)'
  BY <1>2 DEF Cargada
<1>3. CASE CPUPaso \/ RecibirContexto \/ MemoriaResponde \/ UNCHANGED pvars
           \/ \E p \in Pids : clock_rr(p)
  BY <1>2, <1>3 DEF CPUPaso, RecibirContexto, MemoriaResponde, clock_rr, pvars, kernel, tabla
<1>4. ASSUME NEW h \in Hilos, Llamada(h) PROVE Cargada(q)'
  BY <1>4, LlamadaCargada
<1>5. CASE planificador_largo \/ planificador_corto
  <2>1. estado' = estado \/ \E w, e : /\ estado' = [estado EXCEPT ![w] = e]
                                      /\ e \in {"READY", "EXEC"}
    BY <1>5 DEF planificador_largo, LargoDespierta, LargoToma, LargoAdmite, LargoCuenta, LargoTermina,
                planificador_corto, CortoDespierta, CortoOrdena, CortoMira, CortoCompara,
                CortoDesalojado, CortoToma, CortoMarca, CortoOcupa, CortoEnvia
  <2>2. QED
    BY <1>1, <1>2, <2>1 DEF Cargada
<1>6. CASE iniciar_proceso
  <2>1. creados + 1 \in Pids /\ estado' = [estado EXCEPT ![creados + 1] = "NEW"]
    BY <1>6 DEF iniciar_proceso
  <2>2. estado[creados + 1] = "NULO"
    BY <2>1 DEF FInv, CargaEnOrden
  <2>3. QED
    BY <1>1, <2>1, <2>2 DEF Cargada
<1>7. CASE hilo_consola
  <2>1. iniciar_proceso \/ estado' = estado
    BY <1>7 DEF hilo_consola, finalizar_proceso, detener_planificacion, iniciar_planificacion,
                multiprogramacion, tabla
  <2>2. QED
    BY <1>2, <1>6, <2>1
<1>8. QED
  BY <1>3, <1>4, <1>5, <1>7 DEF PNext

LEMMA EnCaminoALaCpu ==
  ASSUME FInv, RecibirProceso
  PROVE  proceso'.pid \in Pids /\ Cargada(proceso'.pid)
<1> DEFINE m == Head(canalDespacho)
<1>1. canalDespacho # <<>> /\ m.tipo = "proceso" /\ proceso'.pid = m.pid
  BY DEF RecibirProceso
<1>2. canalDespacho \in Seq(MensajesDespacho)
  BY DEF FInv, PTypeOK, CPUTypeOK, TipoCanales
<1>3. m \in MensajesDespacho /\ 1 \in 1..Len(canalDespacho) /\ canalDespacho[1] = m
  BY <1>1, <1>2
<1>4. m.pid \in Pids
  BY <1>1, <1>3 DEF MensajesDespacho
<1> HIDE DEF m
<1>5. PICK p \in Pids : p = m.pid
  BY <1>4
<1>6. EnDespacho(p) > 0
  BY <1>2, <1>3, <1>5, CuentaNatural DEF EnDespacho
<1>7. Lugares(p) > 0
  <2>1. NumerosNaturales
    BY LugaresNaturales DEF FInv
  <2>2. QED
    BY <1>6, <2>1 DEF NumerosNaturales, Lugares
<1>8. estado[p] \in Admitida
  BY <1>7 DEF FInv, LugaresContados, Vivo, Uno
<1>9. QED
  BY <1>1, <1>5, <1>8 DEF Cargada, Admitida

LEMMA CpuConocidaSigue == FInv /\ CpuConocida /\ [PNext]_pvars => CpuConocida'
<1> SUFFICES ASSUME FInv, CpuConocida, [PNext]_pvars PROVE CpuConocida'
  OBVIOUS
<1>1. proceso.pid \in Pids \cup {0}
  BY DEF FInv, PTypeOK, CPUTypeOK, TipoNucleo
<1>2. CASE RecibirProceso
  BY <1>2, EnCaminoALaCpu, SigueCargada DEF CpuConocida
<1>3. ASSUME proceso'.pid = proceso.pid PROVE CpuConocida'
  <2>1. CASE proceso.pid = 0
    BY <1>3, <2>1 DEF CpuConocida
  <2>2. CASE proceso.pid # 0
    <3>1. PICK q \in Pids : q = proceso.pid
      BY <1>1, <2>2
    <3>2. Cargada(q)
      BY <2>2, <3>1 DEF CpuConocida
    <3>3. Cargada(q)'
      BY <3>2, SigueCargada
    <3>4. QED
      BY <1>3, <3>1, <3>3 DEF CpuConocida, Cargada
  <2>3. QED
    BY <2>1, <2>2
<1>4. RecibirProceso \/ proceso'.pid = proceso.pid
  <2>1. CASE CPUPaso
    <3>1. proceso \in [pid : Pids \cup {0}, pc : Int]
      BY DEF FInv, PTypeOK, CPUTypeOK, TipoNucleo
    <3>2. QED
      BY <2>1, <3>1
      DEF CPUPaso, CPUNext, HiloCiclo, HiloDespacho, HiloInterrupcion, Buscar, Calcular, Saltar,
          FallarPagina, PedirKernel, Continuar, EsperarRespuesta, AtenderInterrupcion,
          RecibirRespuesta, RecibirInterrupcion, CompararPid, MarcarInterrupcion
  <2>2. ASSUME UNCHANGED nucleo PROVE proceso'.pid = proceso.pid
    BY <2>2 DEF nucleo
  <2>3. ASSUME NEW h \in Hilos, Llamada(h) PROVE proceso'.pid = proceso.pid
    <3>1. FijoEnLlamadas \/ UNCHANGED cpuVars
      BY <2>3 DEF Llamada, CambiarEstado, SemPost, SemWait, PushColaCorto, PushSiEXEC, QueuePush,
                  OrdenarAdelante, Responder, HiloFuncion, EscribirSinAbrir, WaitConInstancia,
                  WaitSinInstancia, DetectarDeadlock, WaitInvalido, SignalValido, SignalInvalido,
                  Avisar, Salida, QuitarDeColas, LiberarSinEntrega, LiberarConEntrega, PedirMemoria,
                  BajarMulti, PushColaLargo, DespertarLargo, BorrarProceso
    <3>2. QED
      BY <2>2, <3>1 DEF FijoEnLlamadas, cpuVars
  <2>4. CASE RecibirContexto \/ MemoriaResponde \/ planificador_largo \/ UNCHANGED pvars
    BY <2>2, <2>4 DEF RecibirContexto, MemoriaResponde, planificador_largo, LargoDespierta, LargoToma,
                      LargoAdmite, LargoCuenta, LargoTermina, FijoEnLargo, pvars, cpuVars
  <2>5. CASE planificador_corto
    BY <2>2, <2>5 DEF planificador_corto, CortoDespierta, CortoOrdena, CortoMira, CortoCompara,
                      CortoDesalojado, CortoToma, CortoMarca, CortoOcupa, CortoEnvia, FijoEnCorto
  <2>6. CASE (\E p \in Pids : clock_rr(p)) \/ hilo_consola
    BY <2>2, <2>6, Zenon DEF clock_rr, hilo_consola, iniciar_proceso, finalizar_proceso,
                      detener_planificacion, iniciar_planificacion, multiprogramacion,
                      FijoEnConsola, cpuVars
  <2>7. QED
    BY <2>1, <2>3, <2>4, <2>5, <2>6 DEF PNext
<1>5. QED
  BY <1>2, <1>3, <1>4

LEMMA DescriptorPorCreados == FInv /\ CpuConocida /\ creados < FdInterrupcion => DescriptorAjeno
<1> SUFFICES ASSUME FInv, CpuConocida, creados < FdInterrupcion, proceso.pid = FdInterrupcion
             PROVE  FALSE
  BY DEF DescriptorAjeno
<1>1. proceso.pid \in Pids /\ proceso.pid # 0
  BY PlanificacionAssumption DEF FInv, PTypeOK, CPUTypeOK, TipoNucleo
<1>2. proceso.pid \in Nat /\ creados \in Nat
  BY <1>1 DEF Pids, FInv, CargaEnOrden
<1>3. estado[proceso.pid] = "NULO"
  BY <1>1, <1>2 DEF FInv, CargaEnOrden
<1>4. QED
  BY <1>1, <1>3 DEF CpuConocida, Cargada

(* Under FIFO, and with nobody killed, as long as fewer processes have been*)
(* created than the number of the socket the CPU takes for a pid, it never *)
(* compares it with the pid it names: what the theorems above ask for.     *)
THEOREM DescriptorLejano ==
  SoloFIFO => (PSpec /\ [](creados < FdInterrupcion) => []DescriptorAjeno)
<1>1. SoloFIFO /\ PInit => FInv /\ CpuConocida
  <2>1. PInit => proceso.pid = 0
    <3>1. PInit => CPUInit
      BY DEF PInit
    <3>2. CPUInit => proceso = [pid |-> 0, pc |-> 0]
      BY DEF CPUInit
    <3>3. QED
      BY <3>1, <3>2, SMT
  <2>2. PInit => CpuConocida
    BY <2>1 DEF CpuConocida
  <2>3. QED
    BY <2>2, FInicial
<1>2. SoloFIFO /\ creados < FdInterrupcion /\ FInv /\ CpuConocida /\ [PNext]_pvars
        => FInv' /\ CpuConocida'
  BY FInductivo, CpuConocidaSigue, DescriptorPorCreados
<1>3. creados < FdInterrupcion /\ FInv /\ CpuConocida => DescriptorAjeno
  BY DescriptorPorCreados
<1>4. CASE SoloFIFO
  BY <1>1, <1>2, <1>3, <1>4, PTL DEF PSpec
<1>5. QED
  BY <1>4
=============================================================================
