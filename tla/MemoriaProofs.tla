---------------------------- MODULE MemoriaProofs ----------------------------
(***************************************************************************)
(* Proofs about Memoria: the tables of pages and frames, the blocks of     *)
(* swap, what the pages hold and the order in which FIFO takes its victims,*)
(* for any number of processes, pages and frames.                          *)
(***************************************************************************)
EXTENDS Memoria, TLAPS

Mensajes == {"reservarSWAP", "bloquesSwap", "escribirSwap", "paginaSWAP", "liberar_swap"}

Elementos(q) == {q[i] : i \in 1..Len(q)}
DeSwap(q) == {m \in Elementos(q) : m.tipo \in Mensajes}

UnoSolo(q) ==
  \A i, j \in 1..Len(q) : q[i].tipo \in Mensajes /\ q[j].tipo \in Mensajes => i = j

Cargando == hiloFS # Nulo /\ hiloFS.para = "paginaSWAP"
Leida == Cargando \/ semaforos["paginaSWAP"] > 0

(* There is one request about swap at a time, in one place.                *)
IUna ==
  /\ UnoSolo(aFS) /\ UnoSolo(aMem)
  /\ DeSwap(aFS) = {} \/ DeSwap(aMem) = {}
  /\ Cargando => DeSwap(aFS) = {} /\ DeSwap(aMem) = {}
  /\ \A s \in EsperasSwap : semaforos[s] > 0 =>
       semaforos[s] = 1 /\ kernel = s /\ DeSwap(aFS) = {} /\ DeSwap(aMem) = {} /\ ~Cargando

(* ... and it is the one that the Kernel's thread waits for.               *)
IMensajes ==
  /\ \A m \in DeSwap(aFS) :
       /\ kernel = IF m.tipo = "reservarSWAP" THEN "bloquesSwap" ELSE m.tipo
       /\ m.tipo = "reservarSWAP" => m.pid = pedida[1]
       /\ m.tipo = "escribirSwap" => m.pos = posSWAP[victima] /\ m.dato = ram[marcoDe[victima]]
       /\ m.tipo = "paginaSWAP" => m.pag = pedida /\ m.pos = posSWAP[pedida]
  /\ \A m \in DeSwap(aMem) :
       /\ kernel = m.tipo
       /\ m.tipo = "bloquesSwap" => m.pid = pedida[1]
       /\ m.tipo = "paginaSWAP" => m.pag = pedida /\ m.dato = swap[posSWAP[pedida]]

(* What the Kernel's thread knows of its page and of its victim.           *)
IKernel ==
  /\ kernel = "escribirSwap" =>
       /\ pedida \in Paginas /\ pedida[1] \in tablaProcesos /\ pedida \notin presentes
       /\ victima \in presentes
       /\ DeSwap(aFS) = {} => swap[posSWAP[victima]] = ram[marcoDe[victima]]
  /\ kernel # "escribirSwap" => victima = Nulo
  /\ kernel = "paginaSWAP" => pedida \in presentes
  /\ Cargando => kernel = "paginaSWAP" /\ hiloFS.marco = marcoDe[pedida]
  /\ Leida => ram[marcoDe[pedida]] = swap[posSWAP[pedida]]
  /\ semaforos["paginaSWAP"] > 0 => pedida \in modificadas
  /\ kernel = "bloquesSwap" =>
       /\ pedida \in Pids \X {0} /\ pedida[1] \in tablaProcesos
       /\ \A g \in PaginasDe(pedida[1]) : g \notin presentes /\ escrito[g] = ValorInicial

(* The CPU runs a process at a time.                                       *)
ICPU ==
  /\ \A p, q \in Pids : hace[p] = "usa" /\ hace[q] = "usa" => p = q
  /\ \A p \in Pids : hace[p] = "usa" /\ hiloCPU = -1 => direccion[p] \in Direcciones

(* Processes that are not loaded.                                          *)
IAusentes ==
  /\ \A p \in Pids : hace[p] = "nada" => p \notin tablaProcesos
  /\ \A g \in Paginas : g[1] \notin tablaProcesos => escrito[g] = ValorInicial

(* Every page in RAM is marked as modified, even one that is only read.    *)
IModificadas == \A g \in Paginas : Cargada(g) => g \in modificadas

Usados == {posSWAP[g] : g \in ConSwap}
DeVivos == {g \in Paginas : g[1] \in tablaProcesos}

(* The blocks of swap while a process is loaded or ends.                   *)
ISwap ==
  /\ \A g, h \in ConSwap : posSWAP[g] = posSWAP[h] => g = h
  /\ kernel \notin {"bloquesSwap", "liberar_swap"} => tablaSWAP = Usados
  /\ kernel = "bloquesSwap" /\ DeSwap(aFS) # {} => tablaSWAP = Usados
  /\ \A m \in DeSwap(aMem) : m.tipo = "bloquesSwap" =>
       /\ tablaSWAP = Usados \cup Elementos(m.pos) /\ Usados \cap Elementos(m.pos) = {}
       /\ Len(m.pos) <= CantPaginas[m.pid]
       /\ \A i, j \in 1..Len(m.pos) : m.pos[i] = m.pos[j] => i = j
       /\ \A b \in Elementos(m.pos) : swap[b] = ValorInicial
  /\ semaforos["bloquesSwap"] > 0 =>
       /\ tablaSWAP = {posSWAP[g] : g \in DeVivos}
       /\ \A g, h \in DeVivos : posSWAP[g] = posSWAP[h] => g = h
       /\ \A g \in PaginasDe(pedida[1]) : swap[posSWAP[g]] = ValorInicial
  /\ \A m \in DeSwap(aFS) : m.tipo = "liberar_swap" =>
       tablaSWAP = Usados \cup m.pos /\ Usados \cap m.pos = {}
  /\ kernel = "liberar_swap" /\ DeSwap(aFS) = {} => tablaSWAP = Usados

Sana ==
  /\ IUna /\ IMensajes /\ IKernel /\ ICPU /\ IAusentes /\ IModificadas /\ ISwap
  /\ Coherencia /\ PaginasFieles

MInv == MTypeOK /\ (~danio => Sana)

-----------------------------------------------------------------------------
(* Facts about pages, queues and messages, for the steps below.            *)

LEMMA PaginaDePid ==
  ASSUME NEW g \in Paginas
  PROVE  g[1] \in Pids /\ g[2] \in Nat /\ g[2] < CantPaginas[g[1]] /\ g = <<g[1], g[2]>>
<1>1. PICK p \in Pids : g \in {p} \X (0..(CantPaginas[p] - 1))
  BY DEF Paginas
<1>2. CantPaginas[p] \in Nat
  BY SwapAssumption
<1> QED
  BY <1>1, <1>2

LEMMA PaginaExiste ==
  ASSUME NEW p \in Pids, NEW n \in Nat, n < CantPaginas[p]
  PROVE  <<p, n>> \in Paginas
<1>1. CantPaginas[p] \in Nat
  BY SwapAssumption
<1>2. n \in 0..(CantPaginas[p] - 1)
  BY <1>1
<1> QED
  BY <1>2 DEF Paginas

LEMMA ColaMas ==
  ASSUME NEW S, NEW q \in Seq(S), NEW m \in S
  PROVE  /\ Append(q, m) \in Seq(S)
         /\ m.tipo \in Mensajes => DeSwap(Append(q, m)) = DeSwap(q) \cup {m}
         /\ m.tipo \notin Mensajes => DeSwap(Append(q, m)) = DeSwap(q)
         /\ UnoSolo(q) /\ (m.tipo \notin Mensajes \/ DeSwap(q) = {}) => UnoSolo(Append(q, m))
<1> DEFINE r == Append(q, m)
<1>1. r \in Seq(S) /\ Len(r) = Len(q) + 1 /\ r[Len(q) + 1] = m /\ Len(q) \in Nat
  OBVIOUS
<1>2. \A i \in 1..Len(q) : r[i] = q[i]
  OBVIOUS
<1> HIDE DEF r
<1>3. Elementos(r) = Elementos(q) \cup {m}
  BY <1>1, <1>2 DEF Elementos
<1>4. ASSUME UnoSolo(q), m.tipo \notin Mensajes \/ DeSwap(q) = {}
      PROVE  UnoSolo(r)
  <2> SUFFICES ASSUME NEW i \in 1..Len(r), NEW j \in 1..Len(r),
                      r[i].tipo \in Mensajes, r[j].tipo \in Mensajes
               PROVE  i = j
    BY DEF UnoSolo
  <2>1. CASE m.tipo \notin Mensajes
    <3>1. i \in 1..Len(q) /\ j \in 1..Len(q)
      BY <1>1, <2>1
    <3> QED
      BY <3>1, <1>2, <1>4 DEF UnoSolo
  <2>2. CASE DeSwap(q) = {}
    <3>1. \A n \in 1..Len(q) : r[n].tipo \notin Mensajes
      BY <1>2, <2>2 DEF DeSwap, Elementos
    <3> QED
      BY <3>1, <1>1
  <2> QED
    BY <1>4, <2>1, <2>2
<1> QED
  BY <1>1, <1>3, <1>4 DEF DeSwap, r

LEMMA ColaMenos ==
  ASSUME NEW S, NEW q \in Seq(S), q # <<>>
  PROVE  /\ Tail(q) \in Seq(S) /\ Head(q) \in S
         /\ Head(q).tipo \in Mensajes => Head(q) \in DeSwap(q)
         /\ Head(q).tipo \notin Mensajes => DeSwap(Tail(q)) = DeSwap(q)
         /\ UnoSolo(q) => UnoSolo(Tail(q))
         /\ UnoSolo(q) /\ Head(q).tipo \in Mensajes =>
              DeSwap(Tail(q)) = {} /\ DeSwap(q) = {Head(q)}
<1> DEFINE r == Tail(q)
<1>1. r \in Seq(S) /\ Len(r) = Len(q) - 1 /\ Head(q) = q[1] /\ Len(q) \in Nat \ {0}
  OBVIOUS
<1>2. \A i \in 1..Len(r) : r[i] = q[i + 1] /\ i + 1 \in 1..Len(q)
  OBVIOUS
<1>3. Head(q) \in S
  BY <1>1
<1> HIDE DEF r
<1>4. Elementos(q) = Elementos(r) \cup {Head(q)}
  <2>1. Elementos(r) \cup {Head(q)} \subseteq Elementos(q)
    BY <1>1, <1>2 DEF Elementos
  <2>2. ASSUME NEW i \in 1..Len(q)
        PROVE  q[i] \in Elementos(r) \cup {Head(q)}
    <3>1. CASE i = 1
      BY <1>1, <3>1
    <3>2. CASE i # 1
      <4>1. i - 1 \in 1..Len(r) /\ r[i - 1] = q[i]
        BY <1>1, <1>2, <3>2
      <4> QED
        BY <4>1 DEF Elementos
    <3> QED
      BY <3>1, <3>2
  <2> QED
    BY <2>1, <2>2 DEF Elementos
<1>5. UnoSolo(q) => UnoSolo(r)
  <2> SUFFICES ASSUME UnoSolo(q), NEW i \in 1..Len(r), NEW j \in 1..Len(r),
                      r[i].tipo \in Mensajes, r[j].tipo \in Mensajes
               PROVE  i = j
    BY DEF UnoSolo
  <2>1. i + 1 = j + 1
    BY <1>2 DEF UnoSolo
  <2> QED
    BY <2>1, <1>1
<1>6. ASSUME UnoSolo(q), Head(q).tipo \in Mensajes, NEW i \in 1..Len(r)
      PROVE  r[i].tipo \notin Mensajes
  <2>1. i + 1 \in 1..Len(q) /\ 1 \in 1..Len(q) /\ i + 1 # 1
    BY <1>1, <1>2
  <2> QED
    BY <2>1, <1>1, <1>2, <1>6 DEF UnoSolo
<1>7. UnoSolo(q) /\ Head(q).tipo \in Mensajes => DeSwap(r) = {}
  BY <1>6 DEF DeSwap, Elementos
<1> QED
  BY <1>1, <1>3, <1>4, <1>5, <1>7 DEF DeSwap, r

LEMMA TiposFS ==
  ASSUME NEW m \in MensajesFS
  PROVE  /\ m.tipo = "reservarSWAP" => m.pid \in Pids
         /\ m.tipo = "escribirSwap" => m.pos \in BloquesSWAP /\ m.dato \in Valores
         /\ m.tipo = "paginaSWAP" => m.pos \in BloquesSWAP /\ m.pag \in Paginas
         /\ m.tipo = "liberar_swap" => m.pos \subseteq BloquesSWAP
BY DEF MensajesFS

LEMMA TiposMem ==
  ASSUME NEW m \in MensajesMem
  PROVE  /\ m.tipo = "bloquesSwap" => m.pid \in Pids /\ m.pos \in Seq(BloquesSWAP)
         /\ m.tipo = "paginaSWAP" => m.pag \in Paginas /\ m.dato \in Valores
         /\ m.tipo \in {"f_read", "f_write"} => m.dir \in Direcciones /\ m.dato \in Valores
BY DEF MensajesMem

LEMMA SemaforoNat ==
  ASSUME MTypeOK
  PROVE  \A s \in EsperasSwap : semaforos[s] \in Nat /\ (~(semaforos[s] > 0) => semaforos[s] = 0)
<1>1. semaforos \in [EsperasSwap -> Nat]
  BY DEF MTypeOK
<1> QED
  BY <1>1

(* While the Kernel's thread waits for nothing, nothing is about swap.     *)
LEMMA Ociosa ==
  ASSUME MTypeOK, IUna, IMensajes, IKernel, kernel \notin EsperasSwap
  PROVE  /\ DeSwap(aFS) = {} /\ DeSwap(aMem) = {} /\ ~Cargando
         /\ \A s \in EsperasSwap : semaforos[s] = 0
<1>1. DeSwap(aFS) = {}
  BY DEF IMensajes, DeSwap, Mensajes, EsperasSwap
<1>2. DeSwap(aMem) = {}
  <2>1. kernel # "reservarSWAP"
    BY DEF MTypeOK, EsperasSwap
  <2> QED
    BY <2>1 DEF IMensajes, DeSwap, Mensajes, EsperasSwap
<1>3. ~Cargando
  BY DEF IKernel, EsperasSwap
<1>4. \A s \in EsperasSwap : semaforos[s] = 0
  BY SemaforoNat DEF IUna
<1> QED
  BY <1>1, <1>2, <1>3, <1>4

(* When an answer about swap has come, nothing else is about swap.         *)
LEMMA Respondida ==
  ASSUME MTypeOK, IUna, NEW s \in EsperasSwap, semaforos[s] > 0
  PROVE  /\ DeSwap(aFS) = {} /\ DeSwap(aMem) = {} /\ ~Cargando
         /\ kernel = s /\ semaforos[s] = 1
         /\ \A r \in EsperasSwap : r # s => semaforos[r] = 0
BY SemaforoNat DEF IUna

(* A message about swap is alone.                                          *)
LEMMA Viajando ==
  ASSUME MTypeOK, IUna, DeSwap(aFS) # {} \/ DeSwap(aMem) # {} \/ Cargando
  PROVE  \A s \in EsperasSwap : semaforos[s] = 0
BY SemaforoNat DEF IUna

LEMMA MarcoVictimaEsMarco ==
  ASSUME MTypeOK
  PROVE  MarcoVictima \in Marcos /\ SiguienteFIFO \in Marcos
         /\ \A k \in Marcos : AlFinal(k, tiempo) \in [1..CantMarcos -> Marcos]
                             /\ AlFinal(k, llegada) \in [1..CantMarcos -> Marcos]
<1>1. CantMarcos \in Nat \ {0} /\ 1 \in 1..CantMarcos
  BY MemoriaAssumption
<1>2. MarcoVictima \in Marcos
  BY <1>1 DEF MTypeOK, MarcoVictima
<1>3. SiguienteFIFO \in Marcos
  BY <1>1 DEF MTypeOK, SiguienteFIFO, Marcos
<1>4. ASSUME NEW k \in Marcos, NEW f \in [1..CantMarcos -> Marcos]
      PROVE  AlFinal(k, f) \in [1..CantMarcos -> Marcos]
  <2>1. \A j \in 1..CantMarcos : j < CantMarcos => j + 1 \in 1..CantMarcos
    BY <1>1
  <2> QED
    BY <1>4, <2>1 DEF AlFinal
<1> QED
  BY <1>2, <1>3, <1>4 DEF MTypeOK

-----------------------------------------------------------------------------
(* The types, action by action.                                            *)

LEMMA SemaforoMas ==
  ASSUME MTypeOK, NEW s \in EsperasSwap
  PROVE  /\ [semaforos EXCEPT ![s] = @ + 1] \in [EsperasSwap -> Nat]
         /\ semaforos[s] > 0 => [semaforos EXCEPT ![s] = @ - 1] \in [EsperasSwap -> Nat]
<1>1. semaforos \in [EsperasSwap -> Nat]
  BY DEF MTypeOK
<1> QED
  BY <1>1

(* Nothing of Ocupar leaves the types.                                     *)
LEMMA OcuparTipos ==
  ASSUME MTypeOK, NEW g \in Paginas, NEW k \in Marcos, NEW fuera, Ocupar(g, k, fuera)
  PROVE  /\ aFS' \in Seq(MensajesFS) /\ modificadas' \subseteq Paginas
         /\ marcoDe' \in [Paginas -> Marcos \cup {-1}] /\ libres' \subseteq Marcos
         /\ inversa' \in [Marcos -> Paginas \cup {Nulo}]
         /\ {tiempo', llegada'} \subseteq [1..CantMarcos -> Marcos]
         /\ kernel' \in EsperasSwap \cup {"libre"} /\ pedida' \in Paginas
         /\ victima' \in Paginas \cup {Nulo}
<1>1. posSWAP[g] \in BloquesSWAP
  BY DEF MTypeOK
<1>2. [tipo |-> "paginaSWAP", pos |-> posSWAP[g], pag |-> g] \in MensajesFS
  BY <1>1 DEF MensajesFS
<1>3. aFS' \in Seq(MensajesFS)
  BY <1>2, ColaMas DEF Ocupar, Enviar, MTypeOK
<1>4. {tiempo', llegada'} \subseteq [1..CantMarcos -> Marcos]
  BY MarcoVictimaEsMarco DEF Ocupar, Usado, MTypeOK
<1> QED
  BY <1>3, <1>4 DEF Ocupar, MTypeOK, EsperasSwap

(* Only a page that is there is made the victim.                           *)
LEMMA VictimaPresente ==
  ASSUME MTypeOK, Coherencia, ~danio, libres = {}
  PROVE  /\ inversa[MarcoVictima] \in presentes
         /\ inversa[MarcoVictima] \in Paginas
         /\ marcoDe[inversa[MarcoVictima]] = MarcoVictima
BY MarcoVictimaEsMarco DEF Coherencia, presentes

LEMMA Tipos_crear_proceso ==
  ASSUME MTypeOK, Sana, ~danio, NEW p \in Pids, crear_proceso(p)
  PROVE  MTypeOK'
BY DEF MTypeOK, crear_proceso, Enviar, MensajesFS, EsperasSwap,
    swapvars, tablas, marcos, hiloKernel, externas

LEMMA Tipos_cargado ==
  ASSUME MTypeOK, Sana, ~danio, cargado
  PROVE  MTypeOK'
BY SemaforoMas DEF MTypeOK, cargado, Retoma, EsperasSwap,
    swapvars, tablas, marcos, hiloKernel, externas

LEMMA Tipos_procesoFinalizado ==
  ASSUME MTypeOK, Sana, ~danio, procesoFinalizado
  PROVE  MTypeOK'
BY DEF MTypeOK, procesoFinalizado, Retoma,
    swapvars, tablas, marcos, hiloKernel, externas

LEMMA Tipos_paginaCargada ==
  ASSUME MTypeOK, Sana, ~danio, paginaCargada
  PROVE  MTypeOK'
BY DEF MTypeOK, paginaCargada, Retoma, Despertar,
    swapvars, tablas, marcos, hiloKernel, externas

LEMMA Tipos_FallaSinTabla ==
  ASSUME MTypeOK, Sana, ~danio, NEW g \in Paginas, FallaSinTabla(g)
  PROVE  MTypeOK'
BY DEF MTypeOK, FallaSinTabla, AtenderFalla,
    swapvars, tablas, marcos, hiloKernel, externas

LEMMA Tipos_TraducirSinTabla ==
  ASSUME MTypeOK, Sana, ~danio, NEW p \in Pids, NEW g \in Paginas, TraducirSinTabla(p, g)
  PROVE  MTypeOK'
BY DEF MTypeOK, TraducirSinTabla, Traducir,
    swapvars, tablas, marcos, hiloKernel, externas

LEMMA Tipos_TraducirPresente ==
  ASSUME MTypeOK, Sana, ~danio, NEW p \in Pids, NEW g \in Paginas, TraducirPresente(p, g)
  PROVE  MTypeOK'
<1>1. marcoDe[g] \in Marcos
  BY DEF TraducirPresente, presentes, MTypeOK
<1>2. tiempo' \in [1..CantMarcos -> Marcos]
  BY <1>1, MarcoVictimaEsMarco DEF TraducirPresente, Usado, MTypeOK
<1>3. [pag |-> g, marco |-> marcoDe[g]] \in Direcciones
  BY <1>1 DEF Direcciones
<1> QED
  BY <1>2, <1>3 DEF MTypeOK, TraducirPresente, Traducir,
    swapvars, tablas, marcos, hiloKernel, externas

LEMMA Tipos_TraducirAusente ==
  ASSUME MTypeOK, Sana, ~danio, NEW p \in Pids, NEW g \in Paginas, TraducirAusente(p, g)
  PROVE  MTypeOK'
BY DEF MTypeOK, TraducirAusente, Traducir,
    swapvars, tablas, marcos, hiloKernel, externas

LEMMA Tipos_mov_in ==
  ASSUME MTypeOK, Sana, ~danio, NEW p \in Pids, mov_in(p)
  PROVE  MTypeOK'
BY DEF MTypeOK, mov_in, UsarDireccion,
    swapvars, tablas, marcos, hiloKernel, externas

LEMMA Tipos_movido_out ==
  ASSUME MTypeOK, Sana, ~danio, NEW p \in Pids, movido_out(p)
  PROVE  MTypeOK'
<1>1. inversa[hiloCPU] \in Paginas
  BY DEF MTypeOK, movido_out, Marcar, Marcable
<1> QED
  BY <1>1 DEF MTypeOK, movido_out, Marcar,
    swapvars, tablas, marcos, hiloKernel, externas

LEMMA Tipos_MarcarSinTabla ==
  ASSUME MTypeOK, Sana, ~danio, MarcarSinTabla
  PROVE  MTypeOK'
BY DEF MTypeOK, MarcarSinTabla,
    swapvars, tablas, marcos, hiloKernel, externas

LEMMA Tipos_finalizar_proceso ==
  ASSUME MTypeOK, Sana, ~danio, NEW p \in Pids, finalizar_proceso(p)
  PROVE  MTypeOK'
<1> DEFINE m == [tipo |-> "liberar_swap", pos |-> {posSWAP[g] : g \in PaginasDe(p)}]
<1>1. m \in MensajesFS
  BY DEF MTypeOK, MensajesFS, PaginasDe
<1>2. aFS' \in Seq(MensajesFS)
  BY <1>1, ColaMas DEF finalizar_proceso, Enviar, MTypeOK
<1>3. MarcosDe(p) \subseteq Marcos
  BY DEF MarcosDe, presentes, MTypeOK
<1>4. 0 \in BloquesSWAP
  BY SwapAssumption DEF BloquesSWAP
<1> HIDE DEF m
<1> QED
  BY <1>2, <1>3, <1>4, SwapAssumption DEF MTypeOK, finalizar_proceso, EsperasSwap, PaginasDe,
    swapvars, tablas, marcos, hiloKernel, externas

LEMMA Tipos_FallaConMarcoLibre ==
  ASSUME MTypeOK, Sana, ~danio, NEW g \in Paginas, FallaConMarcoLibre(g)
  PROVE  MTypeOK'
<1>1. PICK k \in Marcos : Ocupar(g, k, {})
  BY DEF FallaConMarcoLibre, MTypeOK
<1> QED
  BY <1>1, OcuparTipos DEF MTypeOK, FallaConMarcoLibre, AtenderFalla,
    swapvars, tablas, marcos, hiloKernel, externas

LEMMA Tipos_FallaConVictima ==
  ASSUME MTypeOK, Sana, ~danio, NEW g \in Paginas, FallaConVictima(g)
  PROVE  MTypeOK'
<1> DEFINE v == inversa[MarcoVictima]
<1>1. v \in Paginas /\ marcoDe[v] = MarcoVictima /\ MarcoVictima \in Marcos /\ marcoFIFO' \in Marcos
  <2>1. libres = {} /\ Coherencia
    BY DEF FallaConVictima, Sana
  <2>2. MarcoVictima \in Marcos /\ SiguienteFIFO \in Marcos
    BY MarcoVictimaEsMarco
  <2>3. marcoFIFO \in Marcos
    BY DEF MTypeOK
  <2>4. marcoFIFO' \in Marcos
    BY <2>2, <2>3 DEF FallaConVictima
  <2> QED
    BY <2>1, <2>2, <2>4, VictimaPresente
<1> HIDE DEF v
<1>2. /\ UNCHANGED <<tablaSWAP, swap, aMem, tablaProcesos, posSWAP, algoritmoReemplazo, ram, semaforos,
                     hiloFS, hiloCPU, hace, direccion, espera, aArchivos, enviados, archivo, escrito>>
      /\ pedidos' = [pedidos EXCEPT ![g] = @ - 1] /\ pedidos[g] > 0 /\ danio' \in BOOLEAN
  BY DEF FallaConVictima, AtenderFalla
<1>3. CASE Ocupar(g, marcoDe[v], {v})
  <2>1. /\ aFS' \in Seq(MensajesFS) /\ modificadas' \subseteq Paginas
        /\ marcoDe' \in [Paginas -> Marcos \cup {-1}] /\ libres' \subseteq Marcos
        /\ inversa' \in [Marcos -> Paginas \cup {Nulo}]
        /\ {tiempo', llegada'} \subseteq [1..CantMarcos -> Marcos]
        /\ kernel' \in EsperasSwap \cup {"libre"} /\ pedida' \in Paginas
        /\ victima' \in Paginas \cup {Nulo}
    BY <1>1, <1>3, OcuparTipos
  <2>2. pedidos' \in [Paginas -> Nat]
    BY <1>2 DEF MTypeOK
  <2> QED
    BY <1>1, <1>2, <2>1, <2>2 DEF MTypeOK
<1>4. CASE /\ Enviar([tipo |-> "escribirSwap", pos |-> posSWAP[v], dato |-> ram[marcoDe[v]]])
           /\ kernel' = "escribirSwap" /\ pedida' = g /\ victima' = v
           /\ UNCHANGED <<libres, marcoDe, modificadas, inversa, tiempo, llegada>>
  <2>1. [tipo |-> "escribirSwap", pos |-> posSWAP[v], dato |-> ram[marcoDe[v]]] \in MensajesFS
    BY <1>1 DEF MensajesFS, MTypeOK
  <2>2. aFS' \in Seq(MensajesFS)
    BY <1>4, <2>1, ColaMas DEF Enviar, MTypeOK
  <2>3. pedidos' \in [Paginas -> Nat]
    BY <1>2 DEF MTypeOK
  <2> QED
    BY <1>1, <1>4, <1>2, <2>2, <2>3 DEF MTypeOK, EsperasSwap
<1> QED
  BY <1>3, <1>4 DEF MTypeOK, FallaConVictima, v,
    swapvars, tablas, marcos, hiloKernel, externas

LEMMA Tipos_VictimaGuardada ==
  ASSUME MTypeOK, Sana, ~danio, VictimaGuardada
  PROVE  MTypeOK'
<1>1. pedida \in Paginas /\ marcoDe[victima] \in Marcos
  BY DEF VictimaGuardada, Retoma, Sana, IKernel, presentes, MTypeOK
<1>2. "escribirSwap" \in EsperasSwap
  BY DEF EsperasSwap
<1> QED
  BY <1>1, <1>2, OcuparTipos, SemaforoMas DEF MTypeOK, VictimaGuardada, Retoma,
    swapvars, tablas, marcos, hiloKernel, externas

LEMMA Tipos_mov_out ==
  ASSUME MTypeOK, Sana, ~danio, NEW p \in Pids, NEW v \in Valores, mov_out(p, v)
  PROVE  MTypeOK'
<1>1. direccion[p] \in Direcciones /\ direccion[p].marco \in Marcos /\ direccion[p].pag \in Paginas
  BY DEF mov_out, Sana, ICPU, Direcciones
<1> QED
  BY <1>1 DEF MTypeOK, mov_out, EscribirMarco, UsarDireccion,
    swapvars, tablas, marcos, hiloKernel, externas

LEMMA Tipos_PedirArchivo ==
  ASSUME MTypeOK, Sana, ~danio, NEW p \in Pids, NEW op \in {"f_read", "f_write"}, PedirArchivo(p, op)
  PROVE  MTypeOK'
<1>1. direccion[p] \in Direcciones
  BY DEF PedirArchivo, Sana, ICPU
<1> QED
  BY <1>1 DEF MTypeOK, PedirArchivo,
    swapvars, tablas, marcos, hiloKernel, externas

LEMMA Tipos_AtenderArchivo ==
  ASSUME MTypeOK, Sana, ~danio, NEW v \in Valores, AtenderArchivo(v)
  PROVE  MTypeOK'
<1> DEFINE S == [op : {"f_read", "f_write"}, dir : Direcciones]
<1>1. aArchivos \in Seq(S) /\ aArchivos # <<>>
  BY DEF AtenderArchivo, MTypeOK
<1>2. Head(aArchivos) \in S /\ Tail(aArchivos) \in Seq(S)
  <2> HIDE DEF S
  <2> QED
    BY <1>1
<1>3. Head(aArchivos) \in [op : {"f_read", "f_write"}, dir : Direcciones]
  BY <1>2
<1> DEFINE m == [tipo |-> Head(aArchivos).op, dir |-> Head(aArchivos).dir,
                 dato |-> IF Head(aArchivos).op = "f_read" THEN v ELSE ValorInicial]
<1>4. m \in MensajesMem
  BY <1>3, SwapAssumption DEF MensajesMem
<1>5. aMem' \in Seq(MensajesMem)
  BY <1>4, ColaMas DEF AtenderArchivo, MTypeOK
<1>6. aArchivos' \in Seq([op : {"f_read", "f_write"}, dir : Direcciones])
  BY <1>2 DEF AtenderArchivo, MTypeOK
<1> HIDE DEF m
<1> QED
  BY <1>3, <1>5, <1>6 DEF MTypeOK, AtenderArchivo,
    swapvars, tablas, marcos, hiloKernel, externas

LEMMA Tipos_ArchivoAtendido ==
  ASSUME MTypeOK, Sana, ~danio, ArchivoAtendido
  PROVE  MTypeOK'
<1>1. aFS' \in Seq(MensajesFS)
  BY ColaMenos DEF ArchivoAtendido, LlegaFS, MTypeOK
<1> QED
  BY <1>1 DEF MTypeOK, ArchivoAtendido, Despertar,
    swapvars, tablas, marcos, hiloKernel, externas

LEMMA Tipos_reservar_SWAP ==
  ASSUME MTypeOK, Sana, ~danio,
         UNCHANGED <<tablas, marcos, tiempo, ram, hiloKernel, semaforos, hiloFS, hiloCPU, hace,
                     direccion, externas, escrito, danio>>,
         reservar_SWAP
  PROVE  MTypeOK'
<1>1. aFS' \in Seq(MensajesFS) /\ Head(aFS) \in MensajesFS
  BY ColaMenos DEF LlegaFS, Responder, MTypeOK, reservar_SWAP

<1>2. PICK largo \in 0..CantPaginas[Head(aFS).pid] : \E pos \in [1..largo -> BloquesSWAP] :
        /\ tablaSWAP' = tablaSWAP \cup {pos[i] : i \in 1..largo}
        /\ swap' = [b \in BloquesSWAP |->
                      IF b \in {pos[i] : i \in 1..largo} THEN ValorInicial ELSE swap[b]]
        /\ Responder([tipo |-> "bloquesSwap", pid |-> Head(aFS).pid, pos |-> pos])
  BY DEF reservar_SWAP
<1>3. PICK pos \in [1..largo -> BloquesSWAP] :
        /\ tablaSWAP' = tablaSWAP \cup {pos[i] : i \in 1..largo}
        /\ swap' = [b \in BloquesSWAP |->
                      IF b \in {pos[i] : i \in 1..largo} THEN ValorInicial ELSE swap[b]]
        /\ Responder([tipo |-> "bloquesSwap", pid |-> Head(aFS).pid, pos |-> pos])
  BY <1>2
<1>4. Head(aFS).pid \in Pids
  BY <1>1, TiposFS DEF reservar_SWAP, LlegaFS
<1>5. largo \in Nat
  BY <1>4, SwapAssumption
<1>6. pos \in Seq(BloquesSWAP)
  BY <1>5
<1>7. [tipo |-> "bloquesSwap", pid |-> Head(aFS).pid, pos |-> pos] \in MensajesMem
  BY <1>4, <1>6 DEF MensajesMem
<1>8. aMem' \in Seq(MensajesMem)
  BY <1>3, <1>7, ColaMas DEF Responder, MTypeOK
<1>9. tablaSWAP' \subseteq BloquesSWAP /\ swap' \in [BloquesSWAP -> Valores]
  BY <1>3, SwapAssumption DEF MTypeOK
<1> QED
  BY <1>1, <1>8, <1>9 DEF MTypeOK, tablas, marcos, hiloKernel, externas

LEMMA Tipos_escribir_pagina_swap ==
  ASSUME MTypeOK, Sana, ~danio,
         UNCHANGED <<tablas, marcos, tiempo, ram, hiloKernel, semaforos, hiloFS, hiloCPU, hace,
                     direccion, externas, escrito, danio>>,
         escribir_pagina_swap
  PROVE  MTypeOK'
<1>1. aFS' \in Seq(MensajesFS) /\ Head(aFS) \in MensajesFS
  BY ColaMenos DEF LlegaFS, Responder, MTypeOK, escribir_pagina_swap

<1>2. Head(aFS).pos \in BloquesSWAP /\ Head(aFS).dato \in Valores
  BY <1>1, TiposFS DEF escribir_pagina_swap, LlegaFS
<1>3. [tipo |-> "escribirSwap"] \in MensajesMem
  BY DEF MensajesMem
<1>4. aMem' \in Seq(MensajesMem)
  BY <1>3, ColaMas DEF escribir_pagina_swap, Responder, MTypeOK
<1> QED
  BY <1>1, <1>2, <1>4 DEF MTypeOK, escribir_pagina_swap, tablas, marcos, hiloKernel, externas

LEMMA Tipos_obtener_pagina_swap ==
  ASSUME MTypeOK, Sana, ~danio,
         UNCHANGED <<tablas, marcos, tiempo, ram, hiloKernel, semaforos, hiloFS, hiloCPU, hace,
                     direccion, externas, escrito, danio>>,
         obtener_pagina_swap
  PROVE  MTypeOK'
<1>1. aFS' \in Seq(MensajesFS) /\ Head(aFS) \in MensajesFS
  BY ColaMenos DEF LlegaFS, Responder, MTypeOK, obtener_pagina_swap

<1>2. Head(aFS).pos \in BloquesSWAP /\ Head(aFS).pag \in Paginas
  BY <1>1, TiposFS DEF obtener_pagina_swap, LlegaFS
<1>3. [tipo |-> "paginaSWAP", pag |-> Head(aFS).pag, dato |-> swap[Head(aFS).pos]] \in MensajesMem
  BY <1>2 DEF MensajesMem, MTypeOK
<1>4. aMem' \in Seq(MensajesMem)
  BY <1>3, ColaMas DEF obtener_pagina_swap, Responder, MTypeOK
<1> QED
  BY <1>1, <1>4 DEF MTypeOK, obtener_pagina_swap, tablas, marcos, hiloKernel, externas

LEMMA Tipos_liberar_swap ==
  ASSUME MTypeOK, Sana, ~danio,
         UNCHANGED <<tablas, marcos, tiempo, ram, hiloKernel, semaforos, hiloFS, hiloCPU, hace,
                     direccion, externas, escrito, danio>>,
         liberar_swap
  PROVE  MTypeOK'
<1>1. aFS' \in Seq(MensajesFS) /\ Head(aFS) \in MensajesFS
  BY ColaMenos DEF LlegaFS, Responder, MTypeOK, liberar_swap

<1>3. [tipo |-> "liberar_swap"] \in MensajesMem
  BY DEF MensajesMem
<1>4. aMem' \in Seq(MensajesMem)
  BY <1>3, ColaMas DEF liberar_swap, Responder, MTypeOK
<1> QED
  BY <1>1, <1>4 DEF MTypeOK, liberar_swap, tablas, marcos, hiloKernel, externas

LEMMA Tipos_asignar_swap ==
  ASSUME MTypeOK, Sana, ~danio, asignar_swap
  PROVE  MTypeOK'
<1>1. aMem' \in Seq(MensajesMem) /\ Head(aMem) \in MensajesMem
  BY ColaMenos DEF LlegaMem, MTypeOK, asignar_swap

<1> DEFINE m == Head(aMem)
<1>2. m.pos \in Seq(BloquesSWAP)
  BY <1>1, TiposMem DEF asignar_swap, LlegaMem
<1>3. ASSUME NEW g \in Paginas, g[2] < Len(m.pos)
      PROVE  m.pos[g[2] + 1] \in BloquesSWAP
  <2>1. g[2] \in Nat
    BY PaginaDePid
  <2>2. g[2] + 1 \in 1..Len(m.pos)
    BY <2>1, <1>2, <1>3
  <2> QED
    BY <1>2, <2>2
<1>4. posSWAP' \in [Paginas -> BloquesSWAP]
  BY <1>3, MemoriaAssumption DEF asignar_swap, MTypeOK
<1>5. "bloquesSwap" \in EsperasSwap
  BY DEF EsperasSwap
<1>6. danio' \in BOOLEAN
  BY DEF asignar_swap
<1>7. semaforos' \in [EsperasSwap -> Nat]
  BY <1>5, SemaforoMas DEF asignar_swap, Avisar
<1>8. /\ UNCHANGED <<tablaSWAP, swap, aFS, tablaProcesos, modificadas, marcoDe, marcos>>
      /\ UNCHANGED <<tiempo, ram, hiloKernel, hiloFS, hiloCPU, hace, direccion, externas, escrito>>
  BY DEF asignar_swap
<1> HIDE DEF m
<1> QED
  BY <1>1, <1>4, <1>6, <1>7, <1>8 DEF MTypeOK, marcos, hiloKernel, externas

LEMMA Tipos_RespuestaDeSwap ==
  ASSUME MTypeOK, Sana, ~danio, NEW tipo \in EsperasSwap, RespuestaDeSwap(tipo)
  PROVE  MTypeOK'
<1>1. aMem' \in Seq(MensajesMem) /\ Head(aMem) \in MensajesMem
  BY ColaMenos DEF LlegaMem, MTypeOK, RespuestaDeSwap
<1> QED
  BY <1>1, SemaforoMas DEF MTypeOK, RespuestaDeSwap, Avisar,
    swapvars, tablas, marcos, hiloKernel, externas

LEMMA Tipos_cargar_pagina_swap ==
  ASSUME MTypeOK, Sana, ~danio, cargar_pagina_swap
  PROVE  MTypeOK'
<1>1. aMem' \in Seq(MensajesMem) /\ Head(aMem) \in MensajesMem
  BY ColaMenos DEF LlegaMem, MTypeOK, cargar_pagina_swap

<1>2. Head(aMem) \in DeSwap(aMem) /\ Head(aMem).dato \in Valores
  BY <1>1, TiposMem, ColaMenos DEF cargar_pagina_swap, LlegaMem, Mensajes, MTypeOK
<1>3. marcoDe[Head(aMem).pag] \in Marcos
  BY <1>2 DEF Sana, IMensajes, IKernel, presentes, MTypeOK, cargar_pagina_swap, LlegaMem
<1> QED
  BY <1>1, <1>2, <1>3 DEF MTypeOK, cargar_pagina_swap,
    swapvars, tablas, marcos, hiloKernel, externas

LEMMA Tipos_recibir_datos_bloque ==
  ASSUME MTypeOK, Sana, ~danio, recibir_datos_bloque
  PROVE  MTypeOK'
<1>1. aMem' \in Seq(MensajesMem) /\ Head(aMem) \in MensajesMem
  BY ColaMenos DEF LlegaMem, MTypeOK, recibir_datos_bloque

<1>2. Head(aMem).dir \in Direcciones /\ Head(aMem).dato \in Valores
  BY <1>1, TiposMem DEF recibir_datos_bloque, LlegaMem
<1>3. Head(aMem).dir.marco \in Marcos /\ Head(aMem).dir.pag \in Paginas
  BY <1>2 DEF Direcciones
<1> QED
  BY <1>1, <1>2, <1>3 DEF MTypeOK, recibir_datos_bloque, EscribirMarco, UsarDireccion,
    swapvars, tablas, marcos, hiloKernel, externas

LEMMA Tipos_enviar_datos_bloque ==
  ASSUME MTypeOK, Sana, ~danio, enviar_datos_bloque
  PROVE  MTypeOK'
<1>1. aMem' \in Seq(MensajesMem) /\ Head(aMem) \in MensajesMem
  BY ColaMenos DEF LlegaMem, MTypeOK, enviar_datos_bloque

<1>2. [tipo |-> "datos_memoria"] \in MensajesFS
  BY DEF MensajesFS
<1>3. aFS' \in Seq(MensajesFS)
  BY <1>2, ColaMas DEF enviar_datos_bloque, Enviar, MTypeOK
<1> QED
  BY <1>1, <1>3 DEF MTypeOK, enviar_datos_bloque, UsarDireccion,
    swapvars, tablas, marcos, hiloKernel, externas

LEMMA Tipos_BloqueMarcado ==
  ASSUME MTypeOK, Sana, ~danio, BloqueMarcado
  PROVE  MTypeOK'
<1>1. hiloFS.marco \in Marcos /\ inversa[hiloFS.marco] \in Paginas
  BY DEF BloqueMarcado, Marcar, Marcable, MTypeOK
<1>2. [tipo |-> "valid_read"] \in MensajesFS /\ "paginaSWAP" \in EsperasSwap
  BY DEF MensajesFS, EsperasSwap
<1>3. aFS \in Seq(MensajesFS) /\ semaforos \in [EsperasSwap -> Nat]
  BY DEF MTypeOK
<1>4. Append(aFS, [tipo |-> "valid_read"]) \in Seq(MensajesFS)
  BY <1>2, <1>3, ColaMas
<1>5. \/ aFS' = aFS /\ semaforos' = [semaforos EXCEPT !["paginaSWAP"] = @ + 1]
      \/ aFS' = Append(aFS, [tipo |-> "valid_read"]) /\ semaforos' = semaforos
  BY DEF BloqueMarcado, Enviar, Avisar
<1>6. aFS' \in Seq(MensajesFS) /\ semaforos' \in [EsperasSwap -> Nat]
  BY <1>2, <1>3, <1>4, <1>5, SemaforoMas
<1> QED
  BY <1>1, <1>6 DEF MTypeOK, BloqueMarcado, Marcar,
    swapvars, tablas, marcos, hiloKernel, externas

-----------------------------------------------------------------------------
(* What one message more or less leaves about swap.                        *)

LEMMA EnviarSwap ==
  ASSUME MTypeOK, IUna, DeSwap(aFS) = {}, NEW m \in MensajesFS, m.tipo \in Mensajes, Enviar(m)
  PROVE  DeSwap(aFS)' = {m} /\ UnoSolo(aFS)'
<1>1. aFS \in Seq(MensajesFS)
  BY DEF MTypeOK
<1> QED
  BY <1>1, ColaMas DEF Enviar, IUna

LEMMA ResponderSwap ==
  ASSUME MTypeOK, IUna, aFS # <<>>, Head(aFS).tipo \in Mensajes,
         NEW m \in MensajesMem, m.tipo \in Mensajes, Responder(m)
  PROVE  /\ DeSwap(aFS) = {Head(aFS)} /\ DeSwap(aFS)' = {} /\ UnoSolo(aFS)'
         /\ DeSwap(aMem) = {} /\ DeSwap(aMem)' = {m} /\ UnoSolo(aMem)'
         /\ ~Cargando /\ \A s \in EsperasSwap : semaforos[s] = 0
<1>1. aFS \in Seq(MensajesFS) /\ aMem \in Seq(MensajesMem)
  BY DEF MTypeOK
<1>2. /\ DeSwap(aFS) = {Head(aFS)} /\ DeSwap(aFS)' = {} /\ UnoSolo(aFS)'
  BY <1>1, ColaMenos DEF Responder, IUna
<1>3. DeSwap(aMem) = {} /\ ~Cargando
  BY <1>2 DEF IUna
<1>4. DeSwap(aMem)' = {m} /\ UnoSolo(aMem)'
  BY <1>1, <1>3, ColaMas DEF Responder, IUna
<1> QED
  BY <1>2, <1>3, <1>4, Viajando

LEMMA RecibirSwap ==
  ASSUME MTypeOK, IUna, aMem # <<>>, Head(aMem).tipo \in Mensajes, aMem' = Tail(aMem)
  PROVE  /\ DeSwap(aMem) = {Head(aMem)} /\ DeSwap(aMem)' = {} /\ UnoSolo(aMem)'
         /\ DeSwap(aFS) = {}
         /\ ~Cargando /\ \A s \in EsperasSwap : semaforos[s] = 0
<1>1. aMem \in Seq(MensajesMem)
  BY DEF MTypeOK
<1>2. /\ DeSwap(aMem) = {Head(aMem)} /\ DeSwap(aMem)' = {} /\ UnoSolo(aMem)'
  BY <1>1, ColaMenos DEF IUna
<1>3. DeSwap(aFS) = {} /\ ~Cargando
  BY <1>2 DEF IUna
<1> QED
  BY <1>2, <1>3, Viajando

(* Nothing happens to the pages.                                           *)
LEMMA MismasPaginas ==
  ASSUME PaginasFieles, ~danio, ConSwap' = ConSwap, UNCHANGED escrito,
         \A g \in Paginas : Contenido(g)' = Contenido(g)
  PROVE  PaginasFieles'
<1>1. ConSwap \subseteq Paginas
  BY DEF ConSwap
<1>2. \A g \in ConSwap : Contenido(g) = escrito[g]
  BY DEF PaginasFieles
<1>3. \A g \in ConSwap' : Contenido(g)' = escrito'[g]
  BY <1>1, <1>2
<1> QED
  BY <1>3 DEF PaginasFieles

-----------------------------------------------------------------------------
(* The invariant, action by action: while nothing goes wrong.              *)

LEMMA Sana_crear_proceso ==
  ASSUME MTypeOK, Sana, ~danio, ~danio', NEW p \in Pids, crear_proceso(p)
  PROVE  Sana'
<1> DEFINE m == [tipo |-> "reservarSWAP", pid |-> p]
<1>1. /\ kernel = "libre" /\ kernel' = "bloquesSwap" /\ pedida' = <<p, 0>>
      /\ hace[p] = "nada" /\ hace' = [hace EXCEPT ![p] = "carga"]
      /\ tablaProcesos' = tablaProcesos \cup {p}
      /\ UNCHANGED <<tablaSWAP, swap, aMem, posSWAP, modificadas, marcoDe, libres, inversa, ram,
                     victima, semaforos, hiloFS, hiloCPU, direccion, escrito>>
  BY DEF crear_proceso, marcos
<1>2. DeSwap(aFS) = {} /\ DeSwap(aMem) = {} /\ ~Cargando /\ \A s \in EsperasSwap : semaforos[s] = 0
  BY <1>1, Ociosa DEF Sana, EsperasSwap
<1>3. m \in MensajesFS /\ m.tipo \in Mensajes
  BY DEF MensajesFS, Mensajes
<1>4. DeSwap(aFS)' = {m} /\ UnoSolo(aFS)'
  BY <1>2, <1>3, EnviarSwap DEF Sana, crear_proceso
<1>5. p \notin tablaProcesos /\ \A g \in PaginasDe(p) : g \notin presentes /\ escrito[g] = ValorInicial
  BY <1>1 DEF Sana, IAusentes, Coherencia, PaginasDe
<1>6. presentes' = presentes /\ ConSwap' = ConSwap
  BY <1>1, <1>5 DEF presentes, ConSwap, Reservando
<1>7. \A g \in Paginas : Cargada(g)' = Cargada(g) /\ Contenido(g)' = Contenido(g)
  BY <1>1 DEF Cargada, Contenido, presentes
<1>8. DeSwap(aMem)' = {} /\ UnoSolo(aMem)' /\ ~Cargando' /\ ~Leida'
  BY <1>1, <1>2 DEF Sana, IUna, Cargando, Leida, EsperasSwap
<1> HIDE DEF m
<1>9. IUna'
  BY <1>1, <1>2, <1>4, <1>8 DEF Sana, IUna
<1>10. IMensajes'
  BY <1>1, <1>4, <1>8 DEF Sana, IMensajes, m
<1>11. IKernel'
  BY <1>1, <1>2, <1>4, <1>5, <1>6, <1>8 DEF Sana, IKernel, PaginasDe, EsperasSwap
<1>12. ICPU'
  BY <1>1 DEF Sana, ICPU, MTypeOK
<1>13. IAusentes'
  BY <1>1 DEF Sana, IAusentes, MTypeOK
<1>14. IModificadas'
  BY <1>1, <1>7 DEF Sana, IModificadas
<1>15. ISwap'
  BY <1>1, <1>2, <1>4, <1>6, <1>8 DEF Sana, ISwap, Usados, EsperasSwap, m
<1>16. Coherencia'
  BY <1>1, <1>6 DEF Sana, Coherencia
<1>17. PaginasFieles'
  BY <1>1, <1>6, <1>7, MismasPaginas DEF Sana, PaginasFieles
<1> QED
  BY <1>9, <1>10, <1>11, <1>12, <1>13, <1>14, <1>15, <1>16, <1>17 DEF Sana

LEMMA Sana_cargado ==
  ASSUME MTypeOK, Sana, ~danio, ~danio', cargado
  PROVE  Sana'
<1>1. /\ kernel = "bloquesSwap" /\ semaforos["bloquesSwap"] > 0 /\ kernel' = "libre"
      /\ semaforos' = [semaforos EXCEPT !["bloquesSwap"] = @ - 1]
      /\ hace' = [hace EXCEPT ![pedida[1]] = "listo"]
      /\ UNCHANGED <<tablaSWAP, swap, aFS, aMem, tablaProcesos, posSWAP, modificadas, marcoDe,
                     libres, inversa, ram, victima, hiloFS, hiloCPU, direccion, escrito>>
  BY DEF cargado, Retoma, swapvars, tablas, marcos
<1>2. /\ DeSwap(aFS) = {} /\ DeSwap(aMem) = {} /\ ~Cargando /\ semaforos["bloquesSwap"] = 1
      /\ \A r \in EsperasSwap : r # "bloquesSwap" => semaforos[r] = 0
  BY <1>1, Respondida DEF Sana, EsperasSwap
<1>3. \A s \in EsperasSwap : semaforos'[s] = 0
  BY <1>1, <1>2 DEF MTypeOK
<1>4. presentes' = presentes /\ ConSwap' = DeVivos /\ DeVivos' = DeVivos
  BY <1>1 DEF presentes, ConSwap, DeVivos, Reservando
<1>5. \A g \in Paginas : Cargada(g)' = Cargada(g) /\ Contenido(g)' = Contenido(g)
  BY <1>1 DEF Cargada, Contenido, presentes
<1>6. /\ DeSwap(aFS)' = {} /\ DeSwap(aMem)' = {} /\ UnoSolo(aFS)' /\ UnoSolo(aMem)'
      /\ ~Cargando' /\ ~Leida' /\ victima' = Nulo
  BY <1>1, <1>2, <1>3 DEF Sana, IUna, IKernel, Cargando, Leida, EsperasSwap
<1>7. IUna'
  BY <1>3, <1>6 DEF Sana, IUna
<1>8. IMensajes'
  BY <1>6 DEF Sana, IMensajes
<1>9. IKernel'
  BY <1>1, <1>3, <1>6 DEF Sana, IKernel, EsperasSwap
<1>10. ICPU'
  BY <1>1 DEF Sana, ICPU, MTypeOK
<1>11. IAusentes'
  BY <1>1, <1>7 DEF Sana, IAusentes, IKernel
<1>12. IModificadas'
  BY <1>1, <1>5 DEF Sana, IModificadas
<1>13. ISwap'
  BY <1>1, <1>3, <1>4, <1>6 DEF Sana, ISwap, Usados, EsperasSwap
<1>14. Coherencia'
  BY <1>1, <1>4 DEF Sana, Coherencia
<1>15. PaginasFieles'
  <2> SUFFICES ASSUME NEW g \in DeVivos PROVE Contenido(g) = escrito[g]
    BY <1>1, <1>4, <1>5 DEF PaginasFieles, DeVivos
  <2>1. CASE g \in ConSwap
    BY <2>1 DEF Sana, PaginasFieles
  <2>2. CASE g \notin ConSwap
    <3>1. g \in PaginasDe(pedida[1])
      BY <2>2 DEF DeVivos, ConSwap, Reservando, PaginasDe
    <3> QED
      BY <1>1, <3>1 DEF Sana, IKernel, ISwap, Contenido, Cargada
  <2> QED
    BY <2>1, <2>2
<1> QED
  BY <1>7, <1>8, <1>9, <1>10, <1>11, <1>12, <1>13, <1>14, <1>15 DEF Sana

LEMMA Sana_procesoFinalizado ==
  ASSUME MTypeOK, Sana, ~danio, ~danio', procesoFinalizado
  PROVE  Sana'
<1>1. /\ kernel = "liberar_swap" /\ semaforos["liberar_swap"] > 0 /\ kernel' = "libre"
      /\ semaforos' = [semaforos EXCEPT !["liberar_swap"] = @ - 1]
      /\ UNCHANGED <<tablaSWAP, swap, aFS, aMem, tablaProcesos, posSWAP, modificadas, marcoDe,
                     libres, inversa, ram, victima, hiloFS, hiloCPU, hace, direccion, escrito>>
  BY DEF procesoFinalizado, Retoma, swapvars, tablas, marcos
<1>2. /\ DeSwap(aFS) = {} /\ DeSwap(aMem) = {} /\ ~Cargando /\ semaforos["liberar_swap"] = 1
      /\ \A r \in EsperasSwap : r # "liberar_swap" => semaforos[r] = 0
  BY <1>1, Respondida DEF Sana, EsperasSwap
<1>3. \A s \in EsperasSwap : semaforos'[s] = 0
  BY <1>1, <1>2 DEF MTypeOK
<1>4. presentes' = presentes /\ ConSwap' = ConSwap
  BY <1>1 DEF presentes, ConSwap, Reservando
<1>5. \A g \in Paginas : Cargada(g)' = Cargada(g) /\ Contenido(g)' = Contenido(g)
  BY <1>1 DEF Cargada, Contenido, presentes
<1>6. /\ DeSwap(aFS)' = {} /\ DeSwap(aMem)' = {} /\ UnoSolo(aFS)' /\ UnoSolo(aMem)'
      /\ ~Cargando' /\ ~Leida' /\ victima' = Nulo
  BY <1>1, <1>2, <1>3 DEF Sana, IUna, IKernel, Cargando, Leida, EsperasSwap
<1>7. IUna'
  BY <1>3, <1>6 DEF Sana, IUna
<1>8. IMensajes'
  BY <1>6 DEF Sana, IMensajes
<1>9. IKernel'
  BY <1>1, <1>3, <1>6 DEF Sana, IKernel, EsperasSwap
<1>10. ICPU'
  BY <1>1 DEF Sana, ICPU
<1>11. IAusentes'
  BY <1>1 DEF Sana, IAusentes
<1>12. IModificadas'
  BY <1>1, <1>5 DEF Sana, IModificadas
<1>13. ISwap'
  BY <1>1, <1>2, <1>3, <1>4, <1>6 DEF Sana, ISwap, Usados, EsperasSwap
<1>14. Coherencia'
  BY <1>1, <1>4 DEF Sana, Coherencia
<1>15. PaginasFieles'
  BY <1>1, <1>4, <1>5, MismasPaginas DEF Sana, PaginasFieles
<1> QED
  BY <1>7, <1>8, <1>9, <1>10, <1>11, <1>12, <1>13, <1>14, <1>15 DEF Sana

LEMMA Sana_finalizar_proceso ==
  ASSUME MTypeOK, Sana, ~danio, ~danio', NEW p \in Pids, finalizar_proceso(p)
  PROVE  Sana'
<1> DEFINE m == [tipo |-> "liberar_swap", pos |-> {posSWAP[g] : g \in PaginasDe(p)}]
<1>1. /\ kernel = "libre" /\ kernel' = "liberar_swap" /\ p \in tablaProcesos
      /\ hace' = [hace EXCEPT ![p] = "fin"]
      /\ tablaProcesos' = tablaProcesos \ {p}
      /\ libres' = libres \cup MarcosDe(p)
      /\ marcoDe' = [g \in Paginas |-> IF g[1] = p THEN -1 ELSE marcoDe[g]]
      /\ posSWAP' = [g \in Paginas |-> IF g[1] = p THEN 0 ELSE posSWAP[g]]
      /\ modificadas' = modificadas \ PaginasDe(p)
      /\ escrito' = [g \in Paginas |-> IF g[1] = p THEN ValorInicial ELSE escrito[g]]
      /\ UNCHANGED <<tablaSWAP, swap, aMem, inversa, ram, victima, semaforos, hiloFS, hiloCPU,
                     direccion>>
  BY DEF finalizar_proceso
<1>2. DeSwap(aFS) = {} /\ DeSwap(aMem) = {} /\ ~Cargando /\ \A s \in EsperasSwap : semaforos[s] = 0
  BY <1>1, Ociosa DEF Sana, EsperasSwap
<1>3. m \in MensajesFS /\ m.tipo \in Mensajes
  BY DEF MensajesFS, Mensajes, MTypeOK, PaginasDe
<1>4. DeSwap(aFS)' = {m} /\ UnoSolo(aFS)'
  BY <1>2, <1>3, EnviarSwap DEF Sana, finalizar_proceso
<1>5. presentes' = presentes \ PaginasDe(p) /\ ConSwap' = ConSwap \ PaginasDe(p)
  BY <1>1 DEF presentes, ConSwap, Reservando, PaginasDe
<1>6. ConSwap = DeVivos /\ PaginasDe(p) \subseteq ConSwap /\ ConSwap \subseteq Paginas
  BY <1>1 DEF ConSwap, Reservando, PaginasDe, DeVivos
<1>7. \A g \in Paginas \ PaginasDe(p) :
        /\ posSWAP'[g] = posSWAP[g] /\ marcoDe'[g] = marcoDe[g] /\ escrito'[g] = escrito[g]
        /\ Cargada(g)' = Cargada(g) /\ Contenido(g)' = Contenido(g)
  BY <1>1, <1>5 DEF Cargada, Contenido, PaginasDe
<1>8. DeSwap(aMem)' = {} /\ UnoSolo(aMem)' /\ ~Cargando' /\ ~Leida'
  BY <1>1, <1>2 DEF Sana, IUna, Cargando, Leida, EsperasSwap
<1> HIDE DEF m
<1>9. IUna'
  BY <1>1, <1>2, <1>4, <1>8 DEF Sana, IUna
<1>10. IMensajes'
  BY <1>1, <1>4, <1>8 DEF Sana, IMensajes, m
<1>11. IKernel'
  BY <1>1, <1>2, <1>4, <1>8 DEF Sana, IKernel, EsperasSwap
<1>12. ICPU'
  BY <1>1 DEF Sana, ICPU, MTypeOK
<1>13. IAusentes'
  BY <1>1 DEF Sana, IAusentes, MTypeOK
<1>14. IModificadas'
  <2> SUFFICES ASSUME NEW g \in Paginas, Cargada(g)' PROVE g \in modificadas'
    BY DEF IModificadas
  <2>1. g \notin PaginasDe(p)
    BY <1>5 DEF Cargada
  <2> QED
    BY <1>1, <1>7, <2>1 DEF Sana, IModificadas
<1>15. ISwap'
  <2>1. \A g, h \in ConSwap : posSWAP[g] = posSWAP[h] => g = h
    BY DEF Sana, ISwap
  <2>2. \A g, h \in ConSwap' : posSWAP'[g] = posSWAP'[h] => g = h
    BY <1>5, <1>6, <1>7, <2>1
  <2>3. tablaSWAP = Usados
    BY <1>1 DEF Sana, ISwap
  <2>4. Usados' = {posSWAP[g] : g \in ConSwap \ PaginasDe(p)}
    BY <1>5, <1>6, <1>7 DEF Usados
  <2>5. tablaSWAP' = Usados' \cup m.pos /\ Usados' \cap m.pos = {}
    <3>1. m.pos = {posSWAP[g] : g \in PaginasDe(p)}
      BY DEF m
    <3>2. Usados = {posSWAP[g] : g \in ConSwap} /\ tablaSWAP' = tablaSWAP
      BY <1>1 DEF Usados
    <3>3. \A x : x \in Usados <=> x \in Usados' \/ x \in m.pos
      BY <1>6, <2>4, <3>1, <3>2
    <3>4. \A x : ~(x \in Usados' /\ x \in m.pos)
      BY <1>6, <2>1, <2>4, <3>1
    <3> QED
      BY <2>3, <3>2, <3>3, <3>4
  <2> QED
    BY <1>1, <1>2, <1>4, <1>8, <2>2, <2>5 DEF ISwap, EsperasSwap
<1>16. Coherencia'
  <2>1. /\ \A g \in presentes :
             g[1] \in tablaProcesos /\ marcoDe[g] \in Marcos \ libres /\ inversa[marcoDe[g]] = g
        /\ \A k \in Marcos \ libres : inversa[k] \in presentes /\ marcoDe[inversa[k]] = k
    BY DEF Sana, Coherencia
  <2>2. presentes \subseteq Paginas /\ MarcosDe(p) = {marcoDe[g] : g \in PaginasDe(p) \cap presentes}
    BY DEF presentes, MarcosDe
  <2>3. ASSUME NEW g \in presentes'
        PROVE  g[1] \in tablaProcesos' /\ marcoDe'[g] \in Marcos \ libres' /\ inversa'[marcoDe'[g]] = g
    <3>1. g \in presentes /\ g \notin PaginasDe(p) /\ g \in Paginas
      BY <1>5, <2>2
    <3>2. marcoDe[g] \notin MarcosDe(p)
      BY <2>1, <2>2, <3>1
    <3> QED
      BY <1>1, <1>7, <2>1, <3>1, <3>2 DEF PaginasDe
  <2>4. ASSUME NEW k \in Marcos \ libres'
        PROVE  inversa'[k] \in presentes' /\ marcoDe'[inversa'[k]] = k
    <3>1. k \in Marcos \ libres /\ k \notin MarcosDe(p)
      BY <1>1
    <3>2. inversa[k] \in presentes /\ marcoDe[inversa[k]] = k /\ inversa[k] \notin PaginasDe(p)
      BY <2>1, <2>2, <3>1
    <3> QED
      BY <1>1, <1>5, <1>7, <2>2, <3>2
  <2> QED
    BY <2>3, <2>4 DEF Coherencia
<1>17. PaginasFieles'
  <2>1. \A g \in ConSwap : Contenido(g) = escrito[g]
    BY DEF Sana, PaginasFieles
  <2>2. \A g \in ConSwap' : Contenido(g)' = escrito'[g]
    BY <1>5, <1>6, <1>7, <2>1
  <2> QED
    BY <2>2 DEF PaginasFieles
<1> QED
  BY <1>9, <1>10, <1>11, <1>12, <1>13, <1>14, <1>15, <1>16, <1>17 DEF Sana

(* The page takes a free frame, or that of a victim whose block of swap     *)
(* holds what its frame does.                                              *)
LEMMA OcuparSana ==
  ASSUME MTypeOK, Sana, ~danio, NEW g \in Paginas, NEW k \in Marcos, NEW fuera,
         g[1] \in tablaProcesos, g \notin presentes, kernel \in {"libre", "escribirSwap"},
         \/ fuera = {} /\ k \in libres
         \/ \E v \in presentes : fuera = {v} /\ k = marcoDe[v] /\ swap[posSWAP[v]] = ram[k],
         Ocupar(g, k, fuera), DeSwap(aFS) = {}, DeSwap(aMem) = {}, ~Cargando,
         \A s \in EsperasSwap : semaforos'[s] = 0,
         UNCHANGED <<tablaSWAP, swap, aMem, tablaProcesos, posSWAP, ram, hiloFS, hiloCPU, hace,
                     direccion, escrito>>
  PROVE  Sana'
<1> DEFINE m == [tipo |-> "paginaSWAP", pos |-> posSWAP[g], pag |-> g]
<1>1. /\ libres' = libres \ {k}
      /\ marcoDe' = [h \in Paginas |-> IF h = g THEN k ELSE IF h \in fuera THEN -1 ELSE marcoDe[h]]
      /\ modificadas' = modificadas \ fuera /\ inversa' = [inversa EXCEPT ![k] = g]
      /\ kernel' = "paginaSWAP" /\ pedida' = g /\ victima' = Nulo /\ Enviar(m)
  BY DEF Ocupar
<1>2. m \in MensajesFS /\ m.tipo \in Mensajes
  BY DEF MensajesFS, Mensajes, MTypeOK
<1>3. DeSwap(aFS)' = {m} /\ UnoSolo(aFS)'
  BY <1>1, <1>2, EnviarSwap DEF Sana
<1> HIDE DEF m
<1>4. DeSwap(aMem)' = {} /\ UnoSolo(aMem)' /\ ~Cargando' /\ ~Leida'
  BY DEF Sana, IUna, Cargando, Leida, EsperasSwap
<1>5. /\ g \notin fuera /\ presentes \subseteq Paginas /\ fuera \subseteq presentes
      /\ k \in Nat /\ presentes' = (presentes \ fuera) \cup {g}
  <2>1. /\ g \notin fuera /\ presentes \subseteq Paginas /\ fuera \subseteq presentes
        /\ k \in Nat /\ k # -1
    BY MemoriaAssumption DEF presentes, Marcos
  <2> QED
    BY <1>1, <2>1 DEF presentes
<1>6. ConSwap' = ConSwap
  BY <1>1 DEF ConSwap, Reservando
<1>7. \A h \in Paginas : Cargada(h) <=> h \in presentes
  BY DEF Cargada
<1>8. \A h \in Paginas : Cargada(h)' <=> h \in presentes \ fuera
  BY <1>1, <1>5 DEF Cargada
<1>9. \A h \in Paginas : Contenido(h)' = Contenido(h)
  <2> SUFFICES ASSUME NEW h \in Paginas PROVE Contenido(h)' = Contenido(h)
    OBVIOUS
  <2>1. CASE h \in fuera
    BY <1>5, <1>7, <1>8, <2>1 DEF Contenido
  <2>2. CASE h = g
    BY <1>5, <1>7, <1>8, <2>2 DEF Contenido
  <2>3. CASE h \notin fuera /\ h # g
    <3>1. marcoDe'[h] = marcoDe[h]
      BY <1>1, <2>3
    <3> QED
      BY <1>7, <1>8, <2>3, <3>1 DEF Contenido
  <2> QED
    BY <2>1, <2>2, <2>3
<1>10. IUna'
  BY <1>1, <1>3, <1>4 DEF Sana, IUna
<1>11. IMensajes'
  BY <1>1, <1>3, <1>4 DEF Sana, IMensajes, m
<1>12. IKernel'
  BY <1>1, <1>4, <1>5 DEF Sana, IKernel, EsperasSwap
<1>13. ICPU'
  BY DEF Sana, ICPU
<1>14. IAusentes'
  BY DEF Sana, IAusentes
<1>15. IModificadas'
  BY <1>1, <1>7, <1>8 DEF Sana, IModificadas
<1>16. ISwap'
  BY <1>1, <1>3, <1>4, <1>6 DEF Sana, ISwap, Usados, EsperasSwap, m
<1>17. Coherencia'
  <2>1. /\ \A h \in presentes :
             h[1] \in tablaProcesos /\ marcoDe[h] \in Marcos \ libres /\ inversa[marcoDe[h]] = h
        /\ \A j \in Marcos \ libres : inversa[j] \in presentes /\ marcoDe[inversa[j]] = j
    BY DEF Sana, Coherencia
  <2>2. \A h \in presentes \ fuera : marcoDe[h] # k
    BY <2>1
  <2>3. inversa'[k] = g /\ \A j \in Marcos : j # k => inversa'[j] = inversa[j]
    BY <1>1 DEF MTypeOK
  <2>4. \A h \in presentes \ fuera : marcoDe'[h] = marcoDe[h]
    BY <1>1, <1>5
  <2>5. marcoDe'[g] = k
    BY <1>1
  <2>6. ASSUME NEW h \in presentes'
        PROVE  h[1] \in tablaProcesos' /\ marcoDe'[h] \in Marcos \ libres' /\ inversa'[marcoDe'[h]] = h
    BY <1>1, <1>5, <2>1, <2>2, <2>3, <2>4, <2>5
  <2>7. ASSUME NEW j \in Marcos \ libres'
        PROVE  inversa'[j] \in presentes' /\ marcoDe'[inversa'[j]] = j
    <3>1. CASE j = k
      BY <1>5, <2>3, <2>5, <3>1
    <3>2. CASE j # k
      <4>1. j \in Marcos \ libres /\ inversa[j] \in presentes /\ marcoDe[inversa[j]] = j
        BY <1>1, <2>1, <3>2
      <4>2. inversa[j] \notin fuera
        BY <3>2, <4>1
      <4> QED
        BY <1>5, <2>3, <2>4, <3>2, <4>1, <4>2
    <3> QED
      BY <3>1, <3>2
  <2> QED
    BY <2>6, <2>7 DEF Coherencia
<1>18. PaginasFieles'
  BY <1>6, <1>9, MismasPaginas DEF Sana, PaginasFieles
<1> QED
  BY <1>10, <1>11, <1>12, <1>13, <1>14, <1>15, <1>16, <1>17, <1>18 DEF Sana

LEMMA Sana_FallaConMarcoLibre ==
  ASSUME MTypeOK, Sana, ~danio, ~danio', NEW g \in Paginas, FallaConMarcoLibre(g)
  PROVE  Sana'
<1>1. /\ kernel = "libre" /\ g[1] \in tablaProcesos /\ g \notin presentes
      /\ UNCHANGED <<tablaSWAP, swap, aMem, tablaProcesos, posSWAP, ram, semaforos, hiloFS, hiloCPU,
                     hace, direccion, escrito>>
  BY DEF FallaConMarcoLibre, AtenderFalla
<1>2. PICK k \in libres : Ocupar(g, k, {})
  BY DEF FallaConMarcoLibre
<1>3. k \in Marcos
  BY DEF MTypeOK
<1>4. DeSwap(aFS) = {} /\ DeSwap(aMem) = {} /\ ~Cargando /\ \A s \in EsperasSwap : semaforos[s] = 0
  BY <1>1, Ociosa DEF Sana, EsperasSwap
<1> QED
  BY <1>1, <1>2, <1>3, <1>4, OcuparSana

LEMMA Sana_FallaConVictima ==
  ASSUME MTypeOK, Sana, ~danio, ~danio', NEW g \in Paginas, FallaConVictima(g)
  PROVE  Sana'
<1> DEFINE v == inversa[MarcoVictima]
           m == [tipo |-> "escribirSwap", pos |-> posSWAP[v], dato |-> ram[marcoDe[v]]]
<1>1. /\ kernel = "libre" /\ g[1] \in tablaProcesos /\ g \notin presentes /\ libres = {}
      /\ UNCHANGED <<tablaSWAP, swap, aMem, tablaProcesos, posSWAP, ram, semaforos, hiloFS, hiloCPU,
                     hace, direccion, escrito>>
  BY DEF FallaConVictima, AtenderFalla
<1>2. v \in presentes /\ v \in Paginas /\ v \in modificadas
  <2>1. v \in presentes /\ v \in Paginas
    BY <1>1, VictimaPresente DEF Sana
  <2> QED
    BY <1>1, <2>1 DEF Sana, IModificadas, Cargada
<1>3. /\ Enviar(m) /\ kernel' = "escribirSwap" /\ pedida' = g /\ victima' = v
      /\ UNCHANGED <<libres, marcoDe, modificadas, inversa>>
  BY <1>2 DEF FallaConVictima
<1>4. DeSwap(aFS) = {} /\ DeSwap(aMem) = {} /\ ~Cargando /\ \A s \in EsperasSwap : semaforos[s] = 0
  BY <1>1, Ociosa DEF Sana, EsperasSwap
<1>5. m \in MensajesFS /\ m.tipo \in Mensajes
  BY <1>2 DEF MensajesFS, Mensajes, MTypeOK, presentes
<1> HIDE DEF v
<1>6. DeSwap(aFS)' = {m} /\ UnoSolo(aFS)'
  BY <1>3, <1>4, <1>5, EnviarSwap DEF Sana
<1>7. presentes' = presentes /\ ConSwap' = ConSwap
  BY <1>1, <1>3 DEF presentes, ConSwap, Reservando
<1>8. \A h \in Paginas : Cargada(h)' = Cargada(h) /\ Contenido(h)' = Contenido(h)
  BY <1>1, <1>3 DEF Cargada, Contenido, presentes
<1>9. DeSwap(aMem)' = {} /\ UnoSolo(aMem)' /\ ~Cargando' /\ ~Leida'
  BY <1>1, <1>4 DEF Sana, IUna, Cargando, Leida, EsperasSwap
<1>10. DeSwap(aFS)' # {}
  BY <1>6
<1>11. IUna'
  BY <1>1, <1>4, <1>6, <1>9 DEF Sana, IUna
<1>12. IMensajes'
  BY <1>1, <1>3, <1>6, <1>9 DEF Sana, IMensajes
<1>13. IKernel'
  BY <1>1, <1>2, <1>3, <1>4, <1>7, <1>9, <1>10 DEF Sana, IKernel, EsperasSwap
<1>14. ICPU'
  BY <1>1 DEF Sana, ICPU
<1>15. IAusentes'
  BY <1>1 DEF Sana, IAusentes
<1>16. IModificadas'
  BY <1>3, <1>8 DEF Sana, IModificadas
<1>17. ISwap'
  BY <1>1, <1>3, <1>4, <1>6, <1>7, <1>9 DEF Sana, ISwap, Usados, EsperasSwap
<1>18. Coherencia'
  BY <1>1, <1>3, <1>7 DEF Sana, Coherencia
<1>19. PaginasFieles'
  BY <1>1, <1>7, <1>8, MismasPaginas DEF Sana, PaginasFieles
<1> QED
  BY <1>11, <1>12, <1>13, <1>14, <1>15, <1>16, <1>17, <1>18, <1>19 DEF Sana

LEMMA Sana_VictimaGuardada ==
  ASSUME MTypeOK, Sana, ~danio, ~danio', VictimaGuardada
  PROVE  Sana'
<1>1. /\ kernel = "escribirSwap" /\ semaforos["escribirSwap"] > 0
      /\ semaforos' = [semaforos EXCEPT !["escribirSwap"] = @ - 1]
      /\ Ocupar(pedida, marcoDe[victima], {victima})
      /\ UNCHANGED <<tablaSWAP, swap, aMem, tablaProcesos, posSWAP, ram, hiloFS, hiloCPU,
                     hace, direccion, escrito>>
  BY DEF VictimaGuardada, Retoma, externas
<1>2. /\ DeSwap(aFS) = {} /\ DeSwap(aMem) = {} /\ ~Cargando /\ semaforos["escribirSwap"] = 1
      /\ \A r \in EsperasSwap : r # "escribirSwap" => semaforos[r] = 0
  BY <1>1, Respondida DEF Sana, EsperasSwap
<1>3. \A s \in EsperasSwap : semaforos'[s] = 0
  BY <1>1, <1>2 DEF MTypeOK
<1>4. /\ pedida \in Paginas /\ pedida[1] \in tablaProcesos /\ pedida \notin presentes
      /\ victima \in presentes /\ swap[posSWAP[victima]] = ram[marcoDe[victima]]
  BY <1>1, <1>2 DEF Sana, IKernel
<1>5. marcoDe[victima] \in Marcos
  BY <1>4 DEF presentes, MTypeOK
<1> QED
  BY <1>1, <1>2, <1>3, <1>4, <1>5, OcuparSana

LEMMA Sana_paginaCargada ==
  ASSUME MTypeOK, Sana, ~danio, ~danio', paginaCargada
  PROVE  Sana'
<1>1. /\ kernel = "paginaSWAP" /\ semaforos["paginaSWAP"] > 0 /\ kernel' = "libre"
      /\ semaforos' = [semaforos EXCEPT !["paginaSWAP"] = @ - 1]
      /\ UNCHANGED <<tablaSWAP, swap, aFS, aMem, tablaProcesos, posSWAP, modificadas, marcoDe,
                     libres, inversa, ram, victima, hiloFS, hiloCPU, direccion, escrito>>
  BY DEF paginaCargada, Retoma, swapvars, tablas, marcos
<1>2. PICK p \in Pids : hace' = [hace EXCEPT ![p] = "listo"]
  BY DEF paginaCargada, Despertar
<1>3. /\ DeSwap(aFS) = {} /\ DeSwap(aMem) = {} /\ ~Cargando /\ semaforos["paginaSWAP"] = 1
      /\ \A r \in EsperasSwap : r # "paginaSWAP" => semaforos[r] = 0
  BY <1>1, Respondida DEF Sana, EsperasSwap
<1>4. \A s \in EsperasSwap : semaforos'[s] = 0
  BY <1>1, <1>3 DEF MTypeOK
<1>5. presentes' = presentes /\ ConSwap' = ConSwap
  BY <1>1 DEF presentes, ConSwap, Reservando
<1>6. /\ pedida \in presentes /\ pedida \in modificadas
      /\ ram[marcoDe[pedida]] = swap[posSWAP[pedida]]
  BY <1>1 DEF Sana, IKernel, Leida
<1>7. \A g \in Paginas :
        (Cargada(g)' <=> g \in presentes) /\ (Cargada(g) <=> g \in presentes \ {pedida})
  BY <1>1, <1>5 DEF Cargada
<1>8. \A g \in Paginas : Contenido(g)' = Contenido(g)
  BY <1>1, <1>6, <1>7 DEF Contenido
<1>9. /\ DeSwap(aFS)' = {} /\ DeSwap(aMem)' = {} /\ UnoSolo(aFS)' /\ UnoSolo(aMem)'
      /\ ~Cargando' /\ ~Leida' /\ victima' = Nulo
  BY <1>1, <1>3, <1>4 DEF Sana, IUna, IKernel, Cargando, Leida, EsperasSwap
<1>10. IUna'
  BY <1>4, <1>9 DEF Sana, IUna
<1>11. IMensajes'
  BY <1>9 DEF Sana, IMensajes
<1>12. IKernel'
  BY <1>1, <1>4, <1>9 DEF Sana, IKernel, EsperasSwap
<1>13. ICPU'
  BY <1>1, <1>2 DEF Sana, ICPU, MTypeOK
<1>14. IAusentes'
  BY <1>1, <1>2 DEF Sana, IAusentes, MTypeOK
<1>15. IModificadas'
  BY <1>1, <1>6, <1>7 DEF Sana, IModificadas
<1>16. ISwap'
  BY <1>1, <1>4, <1>5, <1>9 DEF Sana, ISwap, Usados, EsperasSwap
<1>17. Coherencia'
  BY <1>1, <1>5 DEF Sana, Coherencia
<1>18. PaginasFieles'
  BY <1>1, <1>5, <1>8, MismasPaginas DEF Sana, PaginasFieles
<1> QED
  BY <1>10, <1>11, <1>12, <1>13, <1>14, <1>15, <1>16, <1>17, <1>18 DEF Sana

(* A step that is about neither swap nor what the pages hold.              *)
LEMMA Ajena ==
  ASSUME Sana, ~danio, ~danio', ICPU',
         UNCHANGED <<tablaSWAP, swap, tablaProcesos, posSWAP, marcoDe, libres, inversa, ram,
                     kernel, pedida, victima, semaforos, escrito>>,
         modificadas \subseteq modificadas',
         DeSwap(aFS)' = DeSwap(aFS), DeSwap(aMem)' = DeSwap(aMem), UnoSolo(aFS)', UnoSolo(aMem)',
         Cargando' = Cargando, Cargando => UNCHANGED hiloFS,
         \A p \in Pids : hace'[p] = "nada" => hace[p] = "nada"
  PROVE  Sana'
<1>1. presentes' = presentes /\ ConSwap' = ConSwap /\ Leida' = Leida
  BY DEF presentes, ConSwap, Reservando, Leida
<1>2. \A g \in Paginas : Cargada(g)' = Cargada(g) /\ Contenido(g)' = Contenido(g)
  BY DEF Cargada, Contenido, presentes
<1>3. ICPU'
  OBVIOUS
<1>4. IUna'
  BY DEF Sana, IUna
<1>5. IMensajes'
  BY DEF Sana, IMensajes
<1>6. IKernel'
  BY <1>1 DEF Sana, IKernel
<1>7. IAusentes'
  BY DEF Sana, IAusentes
<1>8. IModificadas'
  BY <1>2 DEF Sana, IModificadas
<1>9. ISwap'
  BY <1>1 DEF Sana, ISwap, Usados, DeVivos
<1>10. Coherencia'
  BY <1>1 DEF Sana, Coherencia
<1>11. PaginasFieles'
  BY <1>1, <1>2, MismasPaginas DEF Sana, PaginasFieles
<1> QED
  BY <1>3, <1>4, <1>5, <1>6, <1>7, <1>8, <1>9, <1>10, <1>11 DEF Sana

(* A page is written through an address that still leads to it.            *)
LEMMA EscribirSana ==
  ASSUME MTypeOK, Sana, ~danio, ~danio', ICPU', NEW d \in Direcciones, NEW v \in Valores,
         EscribirMarco(d, v),
         UNCHANGED <<tablaSWAP, swap, tablaProcesos, posSWAP, modificadas, marcoDe, libres,
                     inversa, kernel, pedida, victima, semaforos, hace>>,
         DeSwap(aFS)' = DeSwap(aFS), DeSwap(aMem)' = DeSwap(aMem), UnoSolo(aFS)', UnoSolo(aMem)',
         Cargando' = Cargando, Cargando => UNCHANGED hiloFS
  PROVE  Sana'
<1>1. /\ ram' = [ram EXCEPT ![d.marco] = v] /\ escrito' = [escrito EXCEPT ![d.pag] = v]
      /\ Cargada(d.pag) /\ marcoDe[d.pag] = d.marco /\ d.pag # victima
      /\ d.pag \in Paginas /\ d.marco \in Marcos
  BY DEF EscribirMarco, UsarDireccion, VigenteParaEscribir, Vigente, Direcciones
<1>2. /\ d.pag \in presentes /\ d.pag[1] \in tablaProcesos
      /\ ~(kernel = "paginaSWAP" /\ pedida = d.pag)
  BY <1>1 DEF Cargada, Sana, Coherencia
<1>3. ASSUME NEW h \in presentes, h # d.pag
      PROVE  ram'[marcoDe[h]] = ram[marcoDe[h]]
  <2>1. marcoDe[h] # d.marco /\ marcoDe[h] \in Marcos
    BY <1>1, <1>2, <1>3 DEF Sana, Coherencia
  <2> QED
    BY <1>1, <2>1 DEF MTypeOK
<1>4. presentes' = presentes /\ ConSwap' = ConSwap /\ Leida' = Leida
  BY DEF presentes, ConSwap, Reservando, Leida
<1>5. \A h \in Paginas : Cargada(h)' = Cargada(h)
  BY DEF Cargada, presentes
<1>6. kernel = "escribirSwap" => ram'[marcoDe[victima]] = ram[marcoDe[victima]]
  BY <1>1, <1>3 DEF Sana, IKernel
<1>7. Leida => ram'[marcoDe[pedida]] = ram[marcoDe[pedida]]
  <2>1. Leida => kernel = "paginaSWAP" /\ pedida \in presentes
    BY DEF Leida, Sana, IUna, IKernel, EsperasSwap
  <2> QED
    BY <1>2, <1>3, <2>1
<1>8. ICPU'
  OBVIOUS
<1>9. IUna'
  BY DEF Sana, IUna
<1>10. IMensajes'
  BY <1>6 DEF Sana, IMensajes
<1>11. IKernel'
  BY <1>1, <1>2, <1>4, <1>6, <1>7 DEF Sana, IKernel, MTypeOK, PaginasDe
<1>12. IAusentes'
  BY <1>1, <1>2 DEF Sana, IAusentes, MTypeOK
<1>13. IModificadas'
  BY <1>5 DEF Sana, IModificadas
<1>14. ISwap'
  BY <1>4 DEF Sana, ISwap, Usados, DeVivos
<1>15. Coherencia'
  BY <1>4 DEF Sana, Coherencia
<1>16. PaginasFieles'
  <2> SUFFICES ASSUME NEW g \in ConSwap PROVE Contenido(g)' = escrito'[g]
    BY <1>4 DEF PaginasFieles
  <2>1. g \in Paginas /\ Contenido(g) = escrito[g]
    BY DEF ConSwap, Sana, PaginasFieles
  <2>2. CASE g = d.pag
    BY <1>1, <1>5, <2>1, <2>2 DEF Contenido, MTypeOK
  <2>3. CASE g # d.pag
    <3>1. escrito'[g] = escrito[g]
      BY <1>1, <2>1, <2>3 DEF MTypeOK
    <3>2. Cargada(g) => ram'[marcoDe[g]] = ram[marcoDe[g]]
      BY <1>3, <2>3 DEF Cargada
    <3> QED
      BY <1>5, <2>1, <3>1, <3>2 DEF Contenido
  <2> QED
    BY <2>2, <2>3
<1> QED
  BY <1>8, <1>9, <1>10, <1>11, <1>12, <1>13, <1>14, <1>15, <1>16 DEF Sana

LEMMA Sana_TraducirPresente ==
  ASSUME MTypeOK, Sana, ~danio, ~danio', NEW p \in Pids, NEW g \in Paginas, TraducirPresente(p, g)
  PROVE  Sana'
<1>1. /\ UNCHANGED <<tablaSWAP, swap, aFS, aMem, tablaProcesos, posSWAP, modificadas, marcoDe, libres,
                     inversa, ram, kernel, pedida, victima, semaforos, hiloFS, escrito>>
      /\ UNCHANGED hiloCPU /\ hace' = [hace EXCEPT ![p] = "usa"]
      /\ direccion' = [direccion EXCEPT ![p] = [pag |-> g, marco |-> marcoDe[g]]]
      /\ hace[p] = "listo" /\ CPUDesocupada /\ g \in presentes
  BY DEF TraducirPresente, Traducir, swapvars, tablas, marcos, hiloKernel
<1>2. /\ DeSwap(aFS)' = DeSwap(aFS) /\ DeSwap(aMem)' = DeSwap(aMem)
      /\ UnoSolo(aFS)' /\ UnoSolo(aMem)' /\ Cargando' = Cargando
  BY <1>1 DEF Sana, IUna, Cargando

<1>3. [pag |-> g, marco |-> marcoDe[g]] \in Direcciones
  BY <1>1 DEF Direcciones, presentes, MTypeOK
<1>4. ICPU'
  BY <1>1, <1>3 DEF ICPU, CPUDesocupada, MTypeOK
<1>5. \A q \in Pids : hace'[q] = "nada" => hace[q] = "nada"
  BY <1>1 DEF MTypeOK
<1> QED
  BY <1>1, <1>2, <1>4, <1>5, Ajena

LEMMA Sana_TraducirAusente ==
  ASSUME MTypeOK, Sana, ~danio, ~danio', NEW p \in Pids, NEW g \in Paginas, TraducirAusente(p, g)
  PROVE  Sana'
<1>1. /\ UNCHANGED <<tablaSWAP, swap, aFS, aMem, tablaProcesos, posSWAP, modificadas, marcoDe, libres,
                     inversa, ram, kernel, pedida, victima, semaforos, hiloFS, escrito>>
      /\ UNCHANGED <<hiloCPU, direccion>> /\ hace' = [hace EXCEPT ![p] = "bloqueado"]
  BY DEF TraducirAusente, Traducir, swapvars, tablas, marcos, hiloKernel
<1>2. /\ DeSwap(aFS)' = DeSwap(aFS) /\ DeSwap(aMem)' = DeSwap(aMem)
      /\ UnoSolo(aFS)' /\ UnoSolo(aMem)' /\ Cargando' = Cargando
  BY <1>1 DEF Sana, IUna, Cargando

<1>3. ICPU'
  BY <1>1 DEF Sana, ICPU, MTypeOK
<1>4. \A q \in Pids : hace'[q] = "nada" => hace[q] = "nada"
  BY <1>1 DEF MTypeOK
<1> QED
  BY <1>1, <1>2, <1>3, <1>4, Ajena

LEMMA Sana_mov_in ==
  ASSUME MTypeOK, Sana, ~danio, ~danio', NEW p \in Pids, mov_in(p)
  PROVE  Sana'
<1>1. /\ UNCHANGED <<tablaSWAP, swap, aFS, aMem, tablaProcesos, posSWAP, modificadas, marcoDe, libres,
                     inversa, ram, kernel, pedida, victima, semaforos, hiloFS, escrito>>
      /\ UNCHANGED hiloCPU /\ hace[p] = "usa" /\ hace' = [hace EXCEPT ![p] = "listo"]
      /\ direccion' = [direccion EXCEPT ![p] = Nulo]
  BY DEF mov_in, swapvars, tablas, marcos, hiloKernel
<1>2. /\ DeSwap(aFS)' = DeSwap(aFS) /\ DeSwap(aMem)' = DeSwap(aMem)
      /\ UnoSolo(aFS)' /\ UnoSolo(aMem)' /\ Cargando' = Cargando
  BY <1>1 DEF Sana, IUna, Cargando

<1>3. ICPU'
  BY <1>1 DEF Sana, ICPU, MTypeOK
<1>4. \A q \in Pids : hace'[q] = "nada" => hace[q] = "nada"
  BY <1>1 DEF MTypeOK
<1> QED
  BY <1>1, <1>2, <1>3, <1>4, Ajena

LEMMA Sana_PedirArchivo ==
  ASSUME MTypeOK, Sana, ~danio, ~danio', NEW p \in Pids, NEW op \in {"f_read", "f_write"},
         PedirArchivo(p, op)
  PROVE  Sana'
<1>1. /\ UNCHANGED <<tablaSWAP, swap, aFS, aMem, tablaProcesos, posSWAP, modificadas, marcoDe, libres,
                     inversa, ram, kernel, pedida, victima, semaforos, hiloFS, escrito>>
      /\ UNCHANGED hiloCPU /\ hace[p] = "usa" /\ hace' = [hace EXCEPT ![p] = "bloqueado"]
      /\ direccion' = [direccion EXCEPT ![p] = Nulo]
  BY DEF PedirArchivo, swapvars, tablas, marcos, hiloKernel
<1>2. /\ DeSwap(aFS)' = DeSwap(aFS) /\ DeSwap(aMem)' = DeSwap(aMem)
      /\ UnoSolo(aFS)' /\ UnoSolo(aMem)' /\ Cargando' = Cargando
  BY <1>1 DEF Sana, IUna, Cargando

<1>3. ICPU'
  BY <1>1 DEF Sana, ICPU, MTypeOK
<1>4. \A q \in Pids : hace'[q] = "nada" => hace[q] = "nada"
  BY <1>1 DEF MTypeOK
<1> QED
  BY <1>1, <1>2, <1>3, <1>4, Ajena

LEMMA Sana_movido_out ==
  ASSUME MTypeOK, Sana, ~danio, ~danio', NEW p \in Pids, movido_out(p)
  PROVE  Sana'
<1>1. /\ UNCHANGED <<tablaSWAP, swap, aFS, aMem, tablaProcesos, posSWAP, marcoDe, libres, inversa, ram,
                     kernel, pedida, victima, semaforos, hiloFS, direccion, escrito>>
      /\ modificadas \subseteq modificadas'
      /\ hace[p] = "usa" /\ hace' = [hace EXCEPT ![p] = "listo"]
  BY DEF movido_out, Marcar, swapvars, marcos, hiloKernel
<1>2. /\ DeSwap(aFS)' = DeSwap(aFS) /\ DeSwap(aMem)' = DeSwap(aMem)
      /\ UnoSolo(aFS)' /\ UnoSolo(aMem)' /\ Cargando' = Cargando
  BY <1>1 DEF Sana, IUna, Cargando
<1>3. \A q \in Pids : hace'[q] # "usa"
  BY <1>1 DEF Sana, ICPU, MTypeOK
<1>4. ICPU'
  BY <1>3 DEF ICPU
<1>5. \A q \in Pids : hace'[q] = "nada" => hace[q] = "nada"
  BY <1>1 DEF MTypeOK
<1> QED
  BY <1>1, <1>2, <1>4, <1>5, Ajena

LEMMA Sana_mov_out ==
  ASSUME MTypeOK, Sana, ~danio, ~danio', NEW p \in Pids, NEW v \in Valores, mov_out(p, v)
  PROVE  Sana'
<1>1. /\ UNCHANGED <<tablaSWAP, swap, aFS, aMem, tablaProcesos, posSWAP, modificadas, marcoDe, libres,
                     inversa, kernel, pedida, victima, semaforos, hiloFS, hace>>
      /\ hace[p] = "usa" /\ hiloCPU = -1 /\ hiloCPU' = direccion[p].marco
      /\ EscribirMarco(direccion[p], v)
  BY DEF mov_out, swapvars, tablas, marcos, hiloKernel
<1>2. direccion[p] \in Direcciones
  BY <1>1 DEF Sana, ICPU
<1>3. /\ DeSwap(aFS)' = DeSwap(aFS) /\ DeSwap(aMem)' = DeSwap(aMem)
      /\ UnoSolo(aFS)' /\ UnoSolo(aMem)' /\ Cargando' = Cargando
  BY <1>1 DEF Sana, IUna, Cargando
<1>4. hiloCPU' # -1
  BY <1>1, <1>2, MemoriaAssumption DEF Direcciones, Marcos
<1>5. ICPU'
  BY <1>1, <1>4 DEF Sana, ICPU
<1> QED
  BY <1>1, <1>2, <1>3, <1>5, EscribirSana

LEMMA Sana_AtenderArchivo ==
  ASSUME MTypeOK, Sana, ~danio, ~danio', NEW v \in Valores, AtenderArchivo(v)
  PROVE  Sana'
<1> DEFINE S == [op : {"f_read", "f_write"}, dir : Direcciones]
           m == [tipo |-> Head(aArchivos).op, dir |-> Head(aArchivos).dir,
                 dato |-> IF Head(aArchivos).op = "f_read" THEN v ELSE ValorInicial]
<1>1. Head(aArchivos) \in S
  <2>1. aArchivos \in Seq(S) /\ aArchivos # <<>>
    BY DEF AtenderArchivo, MTypeOK
  <2> HIDE DEF S
  <2> QED
    BY <2>1
<1>2. m \in MensajesMem /\ m.tipo \notin Mensajes
  BY <1>1, SwapAssumption DEF MensajesMem, Mensajes
<1>3. aMem \in Seq(MensajesMem) /\ aMem' = Append(aMem, m)
  BY DEF MTypeOK, AtenderArchivo
<1> HIDE DEF S, m
<1>4. /\ UNCHANGED <<tablaSWAP, swap, aFS, tablaProcesos, posSWAP, modificadas, marcoDe, libres,
                     inversa, ram, kernel, pedida, victima, semaforos, hiloFS, hiloCPU, hace, direccion, escrito>>
  BY DEF AtenderArchivo, tablas, marcos, hiloKernel
<1>5. /\ DeSwap(aFS)' = DeSwap(aFS) /\ UnoSolo(aFS)' /\ Cargando' = Cargando /\ ICPU'
  BY <1>4 DEF Sana, IUna, Cargando, ICPU
<1>6. DeSwap(aMem)' = DeSwap(aMem) /\ UnoSolo(aMem)'
  BY <1>2, <1>3, ColaMas DEF Sana, IUna
<1> QED
  BY <1>4, <1>5, <1>6, Ajena

LEMMA Sana_ArchivoAtendido ==
  ASSUME MTypeOK, Sana, ~danio, ~danio', ArchivoAtendido
  PROVE  Sana'
<1>1. aFS \in Seq(MensajesFS) /\ aFS' = Tail(aFS) /\ aFS # <<>> /\ Head(aFS).tipo \notin Mensajes
  BY DEF MTypeOK, ArchivoAtendido, LlegaFS, Mensajes
<1>2. /\ UNCHANGED <<tablaSWAP, swap, aMem, tablaProcesos, posSWAP, modificadas, marcoDe, libres,
                     inversa, ram, kernel, pedida, victima, semaforos, hiloFS, hiloCPU, direccion, escrito>>
  BY DEF ArchivoAtendido, tablas, marcos, hiloKernel
<1>3. PICK p \in Pids : hace' = [hace EXCEPT ![p] = "listo"]
  BY DEF ArchivoAtendido, Despertar
<1>4. /\ DeSwap(aMem)' = DeSwap(aMem) /\ UnoSolo(aMem)' /\ Cargando' = Cargando
  BY <1>2 DEF Sana, IUna, Cargando
<1>5. ICPU' /\ \A q \in Pids : hace'[q] = "nada" => hace[q] = "nada"
  BY <1>2, <1>3 DEF Sana, ICPU, MTypeOK
<1>6. DeSwap(aFS)' = DeSwap(aFS) /\ UnoSolo(aFS)'
  BY <1>1, ColaMenos DEF Sana, IUna
<1> QED
  BY <1>2, <1>4, <1>5, <1>6, Ajena

LEMMA Sana_enviar_datos_bloque ==
  ASSUME MTypeOK, Sana, ~danio, ~danio', enviar_datos_bloque
  PROVE  Sana'
<1> DEFINE m == [tipo |-> "datos_memoria"]
<1>1. /\ aMem \in Seq(MensajesMem) /\ aMem' = Tail(aMem) /\ aMem # <<>>
      /\ Head(aMem).tipo \notin Mensajes /\ aFS \in Seq(MensajesFS) /\ aFS' = Append(aFS, m)
  BY DEF MTypeOK, enviar_datos_bloque, LlegaMem, Enviar, Mensajes
<1>2. m \in MensajesFS /\ m.tipo \notin Mensajes
  BY DEF MensajesFS, Mensajes
<1> HIDE DEF m
<1>3. /\ UNCHANGED <<tablaSWAP, swap, tablaProcesos, posSWAP, modificadas, marcoDe, libres,
                     inversa, ram, kernel, pedida, victima, semaforos, hiloFS, hiloCPU, hace, direccion, escrito>>
  BY DEF enviar_datos_bloque, tablas, marcos, hiloKernel
<1>4. Cargando' = Cargando /\ ICPU'
  BY <1>3 DEF Sana, Cargando, ICPU
<1>5. DeSwap(aFS)' = DeSwap(aFS) /\ UnoSolo(aFS)'
  BY <1>1, <1>2, ColaMas DEF Sana, IUna
<1>6. DeSwap(aMem)' = DeSwap(aMem) /\ UnoSolo(aMem)'
  BY <1>1, ColaMenos DEF Sana, IUna
<1> QED
  BY <1>3, <1>4, <1>5, <1>6, Ajena

LEMMA Sana_recibir_datos_bloque ==
  ASSUME MTypeOK, Sana, ~danio, ~danio', recibir_datos_bloque
  PROVE  Sana'
<1>1. /\ aMem \in Seq(MensajesMem) /\ aMem' = Tail(aMem) /\ aMem # <<>>
      /\ Head(aMem).tipo = "f_read" /\ Head(aMem).tipo \notin Mensajes
  BY DEF MTypeOK, recibir_datos_bloque, LlegaMem, Mensajes
<1>2. Head(aMem).dir \in Direcciones /\ Head(aMem).dato \in Valores
  BY <1>1, ColaMenos, TiposMem
<1>3. /\ UNCHANGED <<tablaSWAP, swap, aFS, tablaProcesos, posSWAP, modificadas, marcoDe, libres,
                     inversa, kernel, pedida, victima, semaforos, hiloCPU, hace, direccion>>
      /\ EscribirMarco(Head(aMem).dir, Head(aMem).dato)
      /\ hiloFS = Nulo /\ hiloFS' = [marco |-> Head(aMem).dir.marco, para |-> "f_read"]
  BY DEF recibir_datos_bloque, LlegaMem, tablas, marcos, hiloKernel
<1>4. ~Cargando /\ Cargando' = Cargando /\ ICPU' /\ DeSwap(aFS)' = DeSwap(aFS) /\ UnoSolo(aFS)'
  BY <1>3 DEF Sana, Cargando, ICPU, IUna
<1>5. DeSwap(aMem)' = DeSwap(aMem) /\ UnoSolo(aMem)'
  BY <1>1, ColaMenos DEF Sana, IUna
<1> QED
  BY <1>2, <1>3, <1>4, <1>5, EscribirSana

LEMMA Sana_obtener_pagina_swap ==
  ASSUME MTypeOK, Sana, ~danio, ~danio',
         UNCHANGED <<tablas, marcos, tiempo, ram, hiloKernel, semaforos, hiloFS, hiloCPU, hace,
                     direccion, externas, escrito, danio>>,
         obtener_pagina_swap
  PROVE  Sana'
<1> DEFINE m == Head(aFS)
           r == [tipo |-> "paginaSWAP", pag |-> m.pag, dato |-> swap[m.pos]]
<1>1. /\ UNCHANGED <<tablaProcesos, posSWAP, modificadas, marcoDe, libres, inversa, ram, kernel,
                     pedida, victima, semaforos, hiloFS, hiloCPU, hace, direccion, escrito>>
      /\ aFS # <<>> /\ m.tipo = "paginaSWAP" /\ Responder(r)
  BY DEF obtener_pagina_swap, LlegaFS, tablas, marcos, hiloKernel
<1>2. m \in MensajesFS /\ m.tipo \in Mensajes
  BY <1>1, ColaMenos DEF MTypeOK, Mensajes
<1>3. r \in MensajesMem /\ r.tipo \in Mensajes
  BY <1>1, <1>2, TiposFS DEF MensajesMem, Mensajes, MTypeOK
<1>4. /\ DeSwap(aFS) = {m} /\ DeSwap(aFS)' = {} /\ UnoSolo(aFS)'
      /\ DeSwap(aMem) = {} /\ DeSwap(aMem)' = {r} /\ UnoSolo(aMem)'
      /\ ~Cargando /\ \A s \in EsperasSwap : semaforos[s] = 0
  BY <1>1, <1>2, <1>3, ResponderSwap DEF Sana
<1>5. kernel = "paginaSWAP" /\ m.pag = pedida /\ m.pos = posSWAP[pedida]
  BY <1>1, <1>4 DEF Sana, IMensajes
<1>6. ~Cargando' /\ ~Leida' /\ presentes' = presentes /\ ConSwap' = ConSwap
  BY <1>1, <1>4 DEF Cargando, Leida, EsperasSwap, presentes, ConSwap, Reservando
<1>7. \A g \in Paginas : Cargada(g)' = Cargada(g)
  BY <1>1 DEF Cargada, presentes
<1>8. UNCHANGED <<tablaSWAP, swap>>
  BY DEF obtener_pagina_swap
<1>9. \A g \in Paginas : Contenido(g)' = Contenido(g)
  BY <1>1, <1>7, <1>8 DEF Contenido
<1> HIDE DEF m
<1>10. IUna'
  BY <1>1, <1>4, <1>6 DEF Sana, IUna
<1>11. IMensajes'
  BY <1>1, <1>4, <1>5, <1>8 DEF Sana, IMensajes, r
<1>12. IKernel'
  BY <1>1, <1>4, <1>5, <1>6 DEF Sana, IKernel, EsperasSwap, PaginasDe
<1>13. ICPU'
  BY <1>1 DEF Sana, ICPU
<1>14. IAusentes'
  BY <1>1 DEF Sana, IAusentes
<1>15. IModificadas'
  BY <1>1, <1>7 DEF Sana, IModificadas
<1>16. ISwap'
  BY <1>1, <1>4, <1>5, <1>6, <1>8 DEF Sana, ISwap, Usados, EsperasSwap, r
<1>17. Coherencia'
  BY <1>1, <1>6 DEF Sana, Coherencia
<1>18. PaginasFieles'
  BY <1>1, <1>6, <1>9, MismasPaginas DEF Sana, PaginasFieles
<1> QED
  BY <1>10, <1>11, <1>12, <1>13, <1>14, <1>15, <1>16, <1>17, <1>18 DEF Sana

LEMMA Sana_liberar_swap ==
  ASSUME MTypeOK, Sana, ~danio, ~danio',
         UNCHANGED <<tablas, marcos, tiempo, ram, hiloKernel, semaforos, hiloFS, hiloCPU, hace,
                     direccion, externas, escrito, danio>>,
         liberar_swap
  PROVE  Sana'
<1> DEFINE m == Head(aFS)
           r == [tipo |-> "liberar_swap"]
<1>1. /\ UNCHANGED <<tablaProcesos, posSWAP, modificadas, marcoDe, libres, inversa, ram, kernel,
                     pedida, victima, semaforos, hiloFS, hiloCPU, hace, direccion, escrito>>
      /\ aFS # <<>> /\ m.tipo = "liberar_swap" /\ Responder(r)
  BY DEF liberar_swap, LlegaFS, tablas, marcos, hiloKernel
<1>2. m \in MensajesFS /\ m.tipo \in Mensajes
  BY <1>1, ColaMenos DEF MTypeOK, Mensajes
<1>3. r \in MensajesMem /\ r.tipo \in Mensajes
  BY <1>1, <1>2, TiposFS DEF MensajesMem, Mensajes, MTypeOK
<1>4. /\ DeSwap(aFS) = {m} /\ DeSwap(aFS)' = {} /\ UnoSolo(aFS)'
      /\ DeSwap(aMem) = {} /\ DeSwap(aMem)' = {r} /\ UnoSolo(aMem)'
      /\ ~Cargando /\ \A s \in EsperasSwap : semaforos[s] = 0
  BY <1>1, <1>2, <1>3, ResponderSwap DEF Sana
<1>5. kernel = "liberar_swap"
  BY <1>1, <1>4 DEF Sana, IMensajes
<1>6. ~Cargando' /\ ~Leida' /\ presentes' = presentes /\ ConSwap' = ConSwap
  BY <1>1, <1>4 DEF Cargando, Leida, EsperasSwap, presentes, ConSwap, Reservando
<1>7. \A g \in Paginas : Cargada(g)' = Cargada(g)
  BY <1>1 DEF Cargada, presentes
<1>8. tablaSWAP' = tablaSWAP \ m.pos /\ UNCHANGED swap
  BY DEF liberar_swap
<1>9. \A g \in Paginas : Contenido(g)' = Contenido(g)
  BY <1>1, <1>7, <1>8 DEF Contenido
<1> HIDE DEF m
<1>10. IUna'
  BY <1>1, <1>4, <1>6 DEF Sana, IUna
<1>11. IMensajes'
  BY <1>1, <1>3, <1>4, <1>5 DEF Sana, IMensajes, r
<1>12. IKernel'
  BY <1>1, <1>4, <1>5, <1>6 DEF Sana, IKernel, EsperasSwap, PaginasDe
<1>13. ICPU'
  BY <1>1 DEF Sana, ICPU
<1>14. IAusentes'
  BY <1>1 DEF Sana, IAusentes
<1>15. IModificadas'
  BY <1>1, <1>7 DEF Sana, IModificadas
<1>16. ISwap'
  <2>1. tablaSWAP = Usados \cup m.pos /\ Usados \cap m.pos = {}
    BY <1>1, <1>4 DEF Sana, ISwap
  <2>2. tablaSWAP' = Usados
    BY <1>8, <2>1
  <2>3. Usados' = Usados
    BY <1>1, <1>6 DEF Usados
  <2>4. \A g, h \in ConSwap' : posSWAP'[g] = posSWAP'[h] => g = h
    BY <1>1, <1>6 DEF Sana, ISwap
  <2> QED
    BY <1>1, <1>4, <1>5, <1>6, <2>2, <2>3, <2>4 DEF ISwap, EsperasSwap, r
<1>17. Coherencia'
  BY <1>1, <1>6 DEF Sana, Coherencia
<1>18. PaginasFieles'
  BY <1>1, <1>6, <1>9, MismasPaginas DEF Sana, PaginasFieles
<1> QED
  BY <1>10, <1>11, <1>12, <1>13, <1>14, <1>15, <1>16, <1>17, <1>18 DEF Sana

LEMMA Sana_escribir_pagina_swap ==
  ASSUME MTypeOK, Sana, ~danio, ~danio',
         UNCHANGED <<tablas, marcos, tiempo, ram, hiloKernel, semaforos, hiloFS, hiloCPU, hace,
                     direccion, externas, escrito, danio>>,
         escribir_pagina_swap
  PROVE  Sana'
<1> DEFINE m == Head(aFS)
           r == [tipo |-> "escribirSwap"]
<1>1. /\ UNCHANGED <<tablaProcesos, posSWAP, modificadas, marcoDe, libres, inversa, ram, kernel,
                     pedida, victima, semaforos, hiloFS, hiloCPU, hace, direccion, escrito>>
      /\ aFS # <<>> /\ m.tipo = "escribirSwap" /\ Responder(r)
  BY DEF escribir_pagina_swap, LlegaFS, tablas, marcos, hiloKernel
<1>2. m \in MensajesFS /\ m.tipo \in Mensajes
  BY <1>1, ColaMenos DEF MTypeOK, Mensajes
<1>3. r \in MensajesMem /\ r.tipo \in Mensajes
  BY <1>1, <1>2, TiposFS DEF MensajesMem, Mensajes, MTypeOK
<1>4. /\ DeSwap(aFS) = {m} /\ DeSwap(aFS)' = {} /\ UnoSolo(aFS)'
      /\ DeSwap(aMem) = {} /\ DeSwap(aMem)' = {r} /\ UnoSolo(aMem)'
      /\ ~Cargando /\ \A s \in EsperasSwap : semaforos[s] = 0
  BY <1>1, <1>2, <1>3, ResponderSwap DEF Sana
<1>5. kernel = "escribirSwap"
      /\ m.pos = posSWAP[victima] /\ m.dato = ram[marcoDe[victima]]
  BY <1>1, <1>4 DEF Sana, IMensajes
<1>6. ~Cargando' /\ ~Leida' /\ presentes' = presentes /\ ConSwap' = ConSwap
  BY <1>1, <1>4 DEF Cargando, Leida, EsperasSwap, presentes, ConSwap, Reservando
<1>7. \A g \in Paginas : Cargada(g)' = Cargada(g)
  BY <1>1 DEF Cargada, presentes
<1>8. swap' = [swap EXCEPT ![m.pos] = m.dato] /\ UNCHANGED tablaSWAP
  BY DEF escribir_pagina_swap
<1> HIDE DEF m
<1>9. victima \in presentes /\ victima \in ConSwap /\ posSWAP[victima] \in BloquesSWAP
  <2>1. victima \in presentes /\ victima \in Paginas /\ victima[1] \in tablaProcesos
    BY <1>5 DEF Sana, IKernel, Coherencia, presentes
  <2> QED
    BY <1>5, <2>1 DEF ConSwap, Reservando, MTypeOK
<1>10. IUna'
  BY <1>1, <1>4, <1>6 DEF Sana, IUna
<1>11. IMensajes'
  BY <1>1, <1>3, <1>4, <1>5 DEF Sana, IMensajes, r
<1>12. IKernel'
  <2>1. swap'[posSWAP[victima]] = ram[marcoDe[victima]]
    BY <1>5, <1>8, <1>9 DEF MTypeOK
  <2> QED
    BY <1>1, <1>4, <1>5, <1>6, <2>1 DEF Sana, IKernel, EsperasSwap
<1>13. ICPU'
  BY <1>1 DEF Sana, ICPU
<1>14. IAusentes'
  BY <1>1 DEF Sana, IAusentes
<1>15. IModificadas'
  BY <1>1, <1>7 DEF Sana, IModificadas
<1>16. ISwap'
  BY <1>1, <1>4, <1>5, <1>6, <1>8 DEF Sana, ISwap, Usados, EsperasSwap, r
<1>17. Coherencia'
  BY <1>1, <1>6 DEF Sana, Coherencia
<1>18. PaginasFieles'
  <2> SUFFICES ASSUME NEW g \in ConSwap PROVE Contenido(g)' = escrito'[g]
    BY <1>6 DEF PaginasFieles
  <2>1. g \in Paginas /\ Contenido(g) = escrito[g]
    BY DEF ConSwap, Sana, PaginasFieles
  <2>2. CASE g = victima
    BY <1>1, <1>5, <1>7, <1>9, <2>1, <2>2 DEF Contenido, Cargada
  <2>3. CASE g # victima
    <3>1. posSWAP[g] # posSWAP[victima]
      BY <1>9, <2>3 DEF Sana, ISwap
    <3>2. swap'[posSWAP[g]] = swap[posSWAP[g]]
      BY <1>5, <1>8, <2>1, <3>1 DEF MTypeOK
    <3> QED
      BY <1>1, <1>7, <2>1, <3>2 DEF Contenido
  <2> QED
    BY <2>2, <2>3
<1> QED
  BY <1>10, <1>11, <1>12, <1>13, <1>14, <1>15, <1>16, <1>17, <1>18 DEF Sana

LEMMA Sana_reservar_SWAP ==
  ASSUME MTypeOK, Sana, ~danio, ~danio',
         UNCHANGED <<tablas, marcos, tiempo, ram, hiloKernel, semaforos, hiloFS, hiloCPU, hace,
                     direccion, externas, escrito, danio>>,
         reservar_SWAP
  PROVE  Sana'
<1> DEFINE m == Head(aFS)
<1>1. /\ UNCHANGED <<tablaProcesos, posSWAP, modificadas, marcoDe, libres, inversa, ram, kernel,
                     pedida, victima, semaforos, hiloFS, hiloCPU, hace, direccion, escrito>>
      /\ aFS # <<>> /\ m.tipo = "reservarSWAP"
  BY DEF reservar_SWAP, LlegaFS, tablas, marcos, hiloKernel
<1>2. PICK largo \in 0..CantPaginas[m.pid] : \E pos \in [1..largo -> BloquesSWAP] :
        /\ Reserva(pos, CantPaginas[m.pid])
        /\ tablaSWAP' = tablaSWAP \cup {pos[i] : i \in 1..largo}
        /\ swap' = [b \in BloquesSWAP |->
                      IF b \in {pos[i] : i \in 1..largo} THEN ValorInicial ELSE swap[b]]
        /\ Responder([tipo |-> "bloquesSwap", pid |-> m.pid, pos |-> pos])
  BY DEF reservar_SWAP
<1>3. PICK pos \in [1..largo -> BloquesSWAP] :
        /\ Reserva(pos, CantPaginas[m.pid])
        /\ tablaSWAP' = tablaSWAP \cup {pos[i] : i \in 1..largo}
        /\ swap' = [b \in BloquesSWAP |->
                      IF b \in {pos[i] : i \in 1..largo} THEN ValorInicial ELSE swap[b]]
        /\ Responder([tipo |-> "bloquesSwap", pid |-> m.pid, pos |-> pos])
  BY <1>2
<1>4. m \in MensajesFS /\ m.tipo \in Mensajes /\ m.pid \in Pids
  BY <1>1, ColaMenos, TiposFS DEF MTypeOK, Mensajes
<1> DEFINE r == [tipo |-> "bloquesSwap", pid |-> m.pid, pos |-> pos]
           dados == {pos[i] : i \in 1..largo}
<1>5. largo \in Nat /\ largo <= CantPaginas[m.pid] /\ pos \in Seq(BloquesSWAP) /\ Len(pos) = largo
  <2>1. CantPaginas[m.pid] \in Nat
    BY <1>4, SwapAssumption
  <2>2. largo \in Nat /\ largo <= CantPaginas[m.pid]
    BY <2>1
  <2> QED
    BY <2>2
<1>6. r \in MensajesMem /\ r.tipo \in Mensajes
  BY <1>4, <1>5 DEF MensajesMem, Mensajes
<1>7. Elementos(r.pos) = dados /\ Len(r.pos) <= CantPaginas[r.pid]
  BY <1>5 DEF Elementos
<1>8. /\ DeSwap(aFS) = {m} /\ DeSwap(aFS)' = {} /\ UnoSolo(aFS)'
      /\ DeSwap(aMem) = {} /\ DeSwap(aMem)' = {r} /\ UnoSolo(aMem)'
      /\ ~Cargando /\ \A s \in EsperasSwap : semaforos[s] = 0
  BY <1>1, <1>3, <1>4, <1>6, ResponderSwap DEF Sana
<1>9. kernel = "bloquesSwap" /\ m.pid = pedida[1]
  BY <1>1, <1>8 DEF Sana, IMensajes
<1>10. ~Cargando' /\ ~Leida' /\ presentes' = presentes /\ ConSwap' = ConSwap
  BY <1>1, <1>8 DEF Cargando, Leida, EsperasSwap, presentes, ConSwap, Reservando
<1>11. \A g \in Paginas : Cargada(g)' = Cargada(g)
  BY <1>1 DEF Cargada, presentes
<1>12. tablaSWAP = Usados
  BY <1>8, <1>9 DEF Sana, ISwap
<1>13. /\ \A b \in dados : b \in BloquesSWAP /\ b \notin tablaSWAP
       /\ \A i, j \in 1..largo : pos[i] = pos[j] => i = j
  <2>1. \A i \in 1..largo : pos[i] \in BloquesSWAP /\ pos[i] \notin tablaSWAP
    BY <1>3, <1>5 DEF Reserva, LibresSWAP
  <2>2. \A i, j \in 1..largo : i < j => pos[i] < pos[j]
    BY <1>3, <1>5 DEF Reserva
  <2>3. \A i \in 1..largo : pos[i] \in Int
    BY <2>1, SwapAssumption DEF BloquesSWAP
  <2>4. ASSUME NEW i \in 1..largo, NEW j \in 1..largo, pos[i] = pos[j]
        PROVE  i = j
    <3>1. ~(i < j) /\ ~(j < i)
      BY <2>2, <2>3, <2>4
    <3> QED
      BY <3>1, <1>5
  <2> QED
    BY <2>1, <2>4
<1>14. /\ tablaSWAP' = tablaSWAP \cup dados
       /\ \A b \in dados : swap'[b] = ValorInicial
       /\ \A b \in tablaSWAP : swap'[b] = swap[b]
  BY <1>3, <1>13 DEF MTypeOK
<1> HIDE DEF dados, m
<1>15. r.pos = pos /\ r.tipo = "bloquesSwap" /\ r.pid = m.pid
  OBVIOUS
<1> HIDE DEF r
<1>16. IUna'
  BY <1>1, <1>8, <1>10 DEF Sana, IUna
<1>17. IMensajes'
  BY <1>1, <1>8, <1>9, <1>15 DEF Sana, IMensajes
<1>18. IKernel'
  BY <1>1, <1>8, <1>9, <1>10 DEF Sana, IKernel, EsperasSwap, PaginasDe
<1>19. ICPU'
  BY <1>1 DEF Sana, ICPU
<1>20. IAusentes'
  BY <1>1 DEF Sana, IAusentes
<1>21. IModificadas'
  BY <1>1, <1>11 DEF Sana, IModificadas
<1>22. ISwap'
  <2>1. Usados' = Usados
    BY <1>1, <1>10 DEF Usados
  <2>2. \A g, h \in ConSwap' : posSWAP'[g] = posSWAP'[h] => g = h
    BY <1>1, <1>10 DEF Sana, ISwap
  <2>3. tablaSWAP' = Usados' \cup Elementos(r.pos) /\ Usados' \cap Elementos(r.pos) = {}
    BY <1>7, <1>12, <1>13, <1>14, <2>1
  <2>4. \A i, j \in 1..Len(r.pos) : r.pos[i] = r.pos[j] => i = j
    BY <1>5, <1>13, <1>15
  <2>5. \A b \in Elementos(r.pos) : swap'[b] = ValorInicial
    BY <1>7, <1>14
  <2> QED
    BY <1>1, <1>7, <1>8, <1>9, <2>2, <2>3, <2>4, <2>5 DEF ISwap, EsperasSwap
<1>23. Coherencia'
  BY <1>1, <1>10 DEF Sana, Coherencia
<1>24. PaginasFieles'
  <2> SUFFICES ASSUME NEW g \in ConSwap PROVE Contenido(g)' = escrito'[g]
    BY <1>10 DEF PaginasFieles
  <2>1. g \in Paginas /\ Contenido(g) = escrito[g]
    BY DEF ConSwap, Sana, PaginasFieles
  <2>2. swap'[posSWAP[g]] = swap[posSWAP[g]]
    BY <1>12, <1>14 DEF Usados
  <2> QED
    BY <1>1, <1>11, <2>1, <2>2 DEF Contenido
<1> QED
  BY <1>16, <1>17, <1>18, <1>19, <1>20, <1>21, <1>22, <1>23, <1>24 DEF Sana

LEMMA Sana_asignar_swap ==
  ASSUME MTypeOK, Sana, ~danio, ~danio', asignar_swap
  PROVE  Sana'
<1> DEFINE m == Head(aMem)
<1>1. /\ UNCHANGED <<tablaSWAP, swap, aFS, tablaProcesos, modificadas, marcoDe, libres, inversa, ram,
                     kernel, pedida, victima, hiloFS, hiloCPU, hace, direccion, escrito>>
      /\ aMem # <<>> /\ m.tipo = "bloquesSwap" /\ aMem' = Tail(aMem)
      /\ semaforos' = [semaforos EXCEPT !["bloquesSwap"] = @ + 1]
      /\ ~(CantPaginas[m.pid] - Len(m.pos) > 0)
      /\ posSWAP' = [g \in Paginas |->
                       IF g[1] # m.pid THEN posSWAP[g]
                       ELSE IF g[2] < Len(m.pos) THEN m.pos[g[2] + 1]
                       ELSE IF g[2] = Len(m.pos) THEN BloqueFD ELSE posSWAP[g]]
  BY DEF asignar_swap, LlegaMem, Avisar, marcos, hiloKernel
<1>2. m \in MensajesMem /\ m.tipo \in Mensajes /\ m.pid \in Pids /\ m.pos \in Seq(BloquesSWAP)
  BY <1>1, ColaMenos, TiposMem DEF MTypeOK, Mensajes
<1>3. /\ DeSwap(aMem) = {m} /\ DeSwap(aMem)' = {} /\ UnoSolo(aMem)' /\ DeSwap(aFS) = {}
      /\ ~Cargando /\ \A s \in EsperasSwap : semaforos[s] = 0
  BY <1>1, <1>2, RecibirSwap DEF Sana
<1>4. kernel = "bloquesSwap" /\ m.pid = pedida[1]
  BY <1>1, <1>3 DEF Sana, IMensajes
<1>5. /\ tablaSWAP = Usados \cup Elementos(m.pos) /\ Usados \cap Elementos(m.pos) = {}
      /\ Len(m.pos) <= CantPaginas[m.pid]
      /\ \A i, j \in 1..Len(m.pos) : m.pos[i] = m.pos[j] => i = j
      /\ \A b \in Elementos(m.pos) : swap[b] = ValorInicial
  BY <1>1, <1>3 DEF Sana, ISwap
<1> DEFINE p == m.pid
<1> HIDE DEF m
<1>6. Len(m.pos) = CantPaginas[p] /\ CantPaginas[p] \in Nat
  <2>1. CantPaginas[p] \in Nat /\ Len(m.pos) \in Nat
    BY <1>2, SwapAssumption
  <2> QED
    BY <1>1, <1>5, <2>1
<1> HIDE DEF p
<1>7. \A g \in PaginasDe(p) : g[2] + 1 \in 1..Len(m.pos) /\ posSWAP'[g] = m.pos[g[2] + 1]
  <2> SUFFICES ASSUME NEW g \in PaginasDe(p)
               PROVE  g[2] + 1 \in 1..Len(m.pos) /\ posSWAP'[g] = m.pos[g[2] + 1]
    OBVIOUS
  <2>1. g \in Paginas /\ g[1] = p /\ g[2] \in Nat /\ g[2] < CantPaginas[p]
    BY PaginaDePid DEF PaginasDe
  <2> QED
    BY <1>1, <1>6, <2>1 DEF p
<1>8. p \in tablaProcesos /\ p = pedida[1] /\ p \in Pids /\ victima = Nulo
      /\ \A g \in PaginasDe(p) : g \notin presentes
  BY <1>2, <1>4 DEF Sana, IKernel, p
<1>9. /\ DeVivos = ConSwap \cup PaginasDe(p) /\ ConSwap \cap PaginasDe(p) = {}
      /\ ConSwap \subseteq Paginas /\ ConSwap' = ConSwap /\ DeVivos' = DeVivos
  BY <1>1, <1>4, <1>8 DEF ConSwap, DeVivos, PaginasDe, Reservando
<1>10. \A g \in Paginas \ PaginasDe(p) : posSWAP'[g] = posSWAP[g]
  BY <1>1 DEF PaginasDe, p
<1>11. \A g \in PaginasDe(p) : posSWAP'[g] \in Elementos(m.pos)
  BY <1>7 DEF Elementos
<1>12. \A b \in Elementos(m.pos) : \E g \in PaginasDe(p) : posSWAP'[g] = b
  <2> SUFFICES ASSUME NEW i \in 1..Len(m.pos)
               PROVE  \E g \in PaginasDe(p) : posSWAP'[g] = m.pos[i]
    BY DEF Elementos
  <2>1. i - 1 \in Nat /\ i - 1 < CantPaginas[p] /\ (i - 1) + 1 = i
    BY <1>6
  <2>2. <<p, i - 1>> \in PaginasDe(p)
    BY <1>8, <2>1, PaginaExiste DEF PaginasDe
  <2> QED
    BY <1>7, <2>1, <2>2
<1>13. semaforos'["bloquesSwap"] = 1 /\ \A s \in EsperasSwap : s # "bloquesSwap" => semaforos'[s] = 0
  BY <1>1, <1>3 DEF MTypeOK, EsperasSwap
<1>14. ~Cargando' /\ ~Leida' /\ presentes' = presentes /\ DeSwap(aFS)' = {} /\ UnoSolo(aFS)'
  BY <1>1, <1>3, <1>13 DEF Sana, IUna, Cargando, Leida, EsperasSwap, presentes
<1>15. \A g \in Paginas : Cargada(g)' = Cargada(g)
  BY <1>1 DEF Cargada, presentes
<1>16. IUna'
  BY <1>1, <1>3, <1>4, <1>13, <1>14 DEF Sana, IUna
<1>17. IMensajes'
  BY <1>3, <1>14 DEF Sana, IMensajes
<1>18. IKernel'
  BY <1>1, <1>4, <1>8, <1>13, <1>14 DEF Sana, IKernel, EsperasSwap, PaginasDe
<1>19. ICPU'
  BY <1>1 DEF Sana, ICPU
<1>20. IAusentes'
  BY <1>1 DEF Sana, IAusentes
<1>21. IModificadas'
  BY <1>1, <1>15 DEF Sana, IModificadas
<1>22. ISwap'
  <2>1. \A g, h \in ConSwap : posSWAP[g] = posSWAP[h] => g = h
    BY DEF Sana, ISwap
  <2>2. \A g \in ConSwap : posSWAP'[g] = posSWAP[g]
    BY <1>9, <1>10
  <2>3. Usados = {posSWAP'[g] : g \in ConSwap}
    BY <2>2 DEF Usados
  <2>4. tablaSWAP' = {posSWAP'[g] : g \in DeVivos'}
    <3>1. \A x : x \in tablaSWAP <=> x \in {posSWAP'[g] : g \in DeVivos}
      BY <1>5, <1>9, <1>11, <1>12, <2>3
    <3> QED
      BY <1>1, <1>9, <3>1
  <2>5. ASSUME NEW g \in DeVivos, NEW h \in DeVivos, posSWAP'[g] = posSWAP'[h]
        PROVE  g = h
    <3>1. CASE g \in ConSwap /\ h \in ConSwap
      BY <2>1, <2>2, <2>5, <3>1
    <3>2. CASE g \in PaginasDe(p) /\ h \in PaginasDe(p)
      <4>1. g[2] + 1 = h[2] + 1
        BY <1>5, <1>7, <2>5, <3>2
      <4>2. /\ g[1] = p /\ h[1] = p /\ g = <<g[1], g[2]>> /\ h = <<h[1], h[2]>>
            /\ g[2] \in Nat /\ h[2] \in Nat
        BY <3>2, PaginaDePid DEF PaginasDe
      <4>3. g[2] = h[2]
        BY <4>1, <4>2
      <4> QED
        BY <4>2, <4>3
    <3>3. \A x \in ConSwap, y \in PaginasDe(p) : posSWAP'[x] # posSWAP'[y]
      BY <1>5, <1>11, <2>3
    <3> QED
      BY <1>9, <2>5, <3>1, <3>2, <3>3
  <2>6. \A g \in PaginasDe(pedida'[1]) : swap'[posSWAP'[g]] = ValorInicial
    BY <1>1, <1>5, <1>8, <1>11
  <2>7. \A g, h \in ConSwap' : posSWAP'[g] = posSWAP'[h] => g = h
    BY <1>9, <2>1, <2>2
  <2>8. /\ kernel' = "bloquesSwap" /\ DeSwap(aFS)' = {} /\ DeSwap(aMem)' = {}
    BY <1>1, <1>3, <1>4, <1>14
  <2>9. \A g, h \in DeVivos' : posSWAP'[g] = posSWAP'[h] => g = h
    BY <1>9, <2>5
  <2> QED
    BY <2>4, <2>6, <2>7, <2>8, <2>9 DEF ISwap, PaginasDe
<1>23. Coherencia'
  BY <1>1, <1>14 DEF Sana, Coherencia
<1>24. PaginasFieles'
  <2>1. \A g \in ConSwap : g \in Paginas /\ Contenido(g) = escrito[g] /\ posSWAP'[g] = posSWAP[g]
    BY <1>9, <1>10 DEF Sana, PaginasFieles
  <2>2. \A g \in ConSwap' : Contenido(g)' = escrito'[g]
    BY <1>1, <1>9, <1>15, <2>1 DEF Contenido
  <2> QED
    BY <2>2 DEF PaginasFieles
<1> QED
  BY <1>16, <1>17, <1>18, <1>19, <1>20, <1>21, <1>22, <1>23, <1>24 DEF Sana

LEMMA Sana_RespuestaDeSwap ==
  ASSUME MTypeOK, Sana, ~danio, ~danio', NEW tipo \in {"escribirSwap", "liberar_swap"},
         RespuestaDeSwap(tipo)
  PROVE  Sana'
<1>1. /\ UNCHANGED <<tablaSWAP, swap, aFS, tablaProcesos, posSWAP, modificadas, marcoDe, libres,
                     inversa, ram, kernel, pedida, victima, hiloFS, hiloCPU, hace, direccion, escrito>>
      /\ aMem # <<>> /\ Head(aMem).tipo = tipo /\ aMem' = Tail(aMem)
      /\ semaforos' = [semaforos EXCEPT ![tipo] = @ + 1]
  BY DEF RespuestaDeSwap, LlegaMem, Avisar, tablas, marcos, hiloKernel
<1>2. Head(aMem).tipo \in Mensajes /\ tipo \in EsperasSwap
  BY <1>1 DEF Mensajes, EsperasSwap
<1>3. /\ DeSwap(aMem) = {Head(aMem)} /\ DeSwap(aMem)' = {} /\ UnoSolo(aMem)' /\ DeSwap(aFS) = {}
      /\ ~Cargando /\ \A s \in EsperasSwap : semaforos[s] = 0
  BY <1>1, <1>2, RecibirSwap DEF Sana
<1>4. kernel = tipo
  BY <1>1, <1>3 DEF Sana, IMensajes
<1>5. semaforos'[tipo] = 1 /\ \A s \in EsperasSwap : s # tipo => semaforos'[s] = 0
  BY <1>1, <1>2, <1>3 DEF MTypeOK
<1>6. ~Cargando' /\ ~Leida' /\ presentes' = presentes /\ ConSwap' = ConSwap
  BY <1>1, <1>3, <1>5 DEF Cargando, Leida, EsperasSwap, presentes, ConSwap, Reservando
<1>7. DeSwap(aFS)' = {} /\ UnoSolo(aFS)'
  BY <1>1, <1>3 DEF Sana, IUna
<1>8. \A g \in Paginas : Cargada(g)' = Cargada(g) /\ Contenido(g)' = Contenido(g)
  BY <1>1 DEF Cargada, Contenido, presentes
<1>9. semaforos'["bloquesSwap"] = 0 /\ semaforos'["paginaSWAP"] = 0
  BY <1>5 DEF EsperasSwap
<1>10. IUna'
  BY <1>1, <1>3, <1>4, <1>5, <1>6, <1>7 DEF Sana, IUna
<1>11. IMensajes'
  BY <1>3, <1>7 DEF Sana, IMensajes
<1>12. IKernel'
  BY <1>1, <1>3, <1>4, <1>6, <1>7, <1>9 DEF Sana, IKernel
<1>13. ICPU'
  BY <1>1 DEF Sana, ICPU
<1>14. IAusentes'
  BY <1>1 DEF Sana, IAusentes
<1>15. IModificadas'
  BY <1>1, <1>8 DEF Sana, IModificadas
<1>16. ISwap'
  BY <1>1, <1>3, <1>4, <1>6, <1>7, <1>9 DEF Sana, ISwap, Usados
<1>17. Coherencia'
  BY <1>1, <1>6 DEF Sana, Coherencia
<1>18. PaginasFieles'
  BY <1>1, <1>6, <1>8, MismasPaginas DEF Sana, PaginasFieles
<1> QED
  BY <1>10, <1>11, <1>12, <1>13, <1>14, <1>15, <1>16, <1>17, <1>18 DEF Sana

LEMMA Sana_cargar_pagina_swap ==
  ASSUME MTypeOK, Sana, ~danio, ~danio', cargar_pagina_swap
  PROVE  Sana'
<1> DEFINE m == Head(aMem)
           k == marcoDe[m.pag]
<1>1. /\ UNCHANGED <<tablaSWAP, swap, aFS, tablaProcesos, posSWAP, modificadas, marcoDe, libres,
                     inversa, kernel, pedida, victima, semaforos, hiloCPU, hace, direccion, escrito>>
      /\ aMem # <<>> /\ m.tipo = "paginaSWAP" /\ aMem' = Tail(aMem)
      /\ ram' = [ram EXCEPT ![k] = m.dato] /\ hiloFS' = [marco |-> k, para |-> "paginaSWAP"]
  BY DEF cargar_pagina_swap, LlegaMem, tablas, marcos, hiloKernel
<1>2. m.tipo \in Mensajes
  BY <1>1 DEF Mensajes
<1>3. /\ DeSwap(aMem) = {m} /\ DeSwap(aMem)' = {} /\ UnoSolo(aMem)' /\ DeSwap(aFS) = {}
      /\ ~Cargando /\ \A s \in EsperasSwap : semaforos[s] = 0
  BY <1>1, <1>2, RecibirSwap DEF Sana
<1>4. kernel = "paginaSWAP" /\ m.pag = pedida /\ m.dato = swap[posSWAP[pedida]]
  BY <1>1, <1>3 DEF Sana, IMensajes
<1>5. pedida \in presentes /\ marcoDe[pedida] \in Marcos
  BY <1>4 DEF Sana, IKernel, presentes, MTypeOK
<1>6. hiloFS'.marco = marcoDe[pedida] /\ ram'[marcoDe[pedida]] = swap[posSWAP[pedida]]
  BY <1>1, <1>4, <1>5 DEF MTypeOK
<1>7. \A h \in presentes : h # pedida => ram'[marcoDe[h]] = ram[marcoDe[h]]
  <2> SUFFICES ASSUME NEW h \in presentes, h # pedida
               PROVE  ram'[marcoDe[h]] = ram[marcoDe[h]]
    OBVIOUS
  <2>1. marcoDe[h] # marcoDe[pedida] /\ marcoDe[h] \in Marcos
    BY <1>5 DEF Sana, Coherencia
  <2> QED
    BY <1>1, <1>4, <2>1 DEF MTypeOK
<1> HIDE DEF k, m
<1>8. presentes' = presentes /\ ConSwap' = ConSwap /\ DeSwap(aFS)' = {} /\ UnoSolo(aFS)'
  BY <1>1, <1>3 DEF presentes, ConSwap, Reservando, Sana, IUna
<1>9. \A g \in Paginas : Cargada(g)' = Cargada(g)
  BY <1>1 DEF Cargada, presentes
<1>10. \A g \in Paginas : Contenido(g)' = Contenido(g)
  BY <1>1, <1>4, <1>7, <1>9 DEF Contenido, Cargada
<1>11. semaforos'["bloquesSwap"] = 0 /\ semaforos'["paginaSWAP"] = 0
  BY <1>1, <1>3 DEF EsperasSwap
<1>12. IUna'
  BY <1>1, <1>3, <1>8 DEF Sana, IUna
<1>13. IMensajes'
  BY <1>3, <1>8 DEF Sana, IMensajes
<1>14. IKernel'
  BY <1>1, <1>4, <1>5, <1>6, <1>8, <1>11 DEF Sana, IKernel
<1>15. ICPU'
  BY <1>1 DEF Sana, ICPU
<1>16. IAusentes'
  BY <1>1 DEF Sana, IAusentes
<1>17. IModificadas'
  BY <1>1, <1>9 DEF Sana, IModificadas
<1>18. ISwap'
  BY <1>1, <1>3, <1>4, <1>8, <1>11 DEF Sana, ISwap, Usados
<1>19. Coherencia'
  BY <1>1, <1>8 DEF Sana, Coherencia
<1>20. PaginasFieles'
  BY <1>1, <1>8, <1>10, MismasPaginas DEF Sana, PaginasFieles
<1> QED
  BY <1>12, <1>13, <1>14, <1>15, <1>16, <1>17, <1>18, <1>19, <1>20 DEF Sana

LEMMA Sana_BloqueMarcado ==
  ASSUME MTypeOK, Sana, ~danio, ~danio', BloqueMarcado
  PROVE  Sana'
<1>1. /\ UNCHANGED <<tablaSWAP, swap, aMem, tablaProcesos, posSWAP, marcoDe, libres, inversa, ram,
                     kernel, pedida, victima, hiloCPU, hace, direccion, escrito>>
      /\ hiloFS # Nulo /\ hiloFS' = Nulo /\ modificadas' = modificadas \cup {inversa[hiloFS.marco]}
  BY DEF BloqueMarcado, Marcar, swapvars, marcos, hiloKernel
<1>2. CASE hiloFS.para = "paginaSWAP"
  <2>1. Cargando /\ ~Cargando' /\ UNCHANGED aFS
        /\ semaforos' = [semaforos EXCEPT !["paginaSWAP"] = @ + 1]
    BY <1>1, <1>2 DEF BloqueMarcado, Cargando, Avisar
  <2>2. /\ DeSwap(aFS) = {} /\ DeSwap(aMem) = {} /\ \A s \in EsperasSwap : semaforos[s] = 0
    BY <2>1, Viajando DEF Sana, IUna
  <2>3. /\ DeSwap(aFS)' = {} /\ DeSwap(aMem)' = {} /\ UnoSolo(aFS)' /\ UnoSolo(aMem)'
    BY <1>1, <2>1, <2>2 DEF Sana, IUna
  <2>4. semaforos'["paginaSWAP"] = 1 /\ \A s \in EsperasSwap : s # "paginaSWAP" => semaforos'[s] = 0
    BY <2>1, <2>2 DEF MTypeOK, EsperasSwap
  <2>5. /\ kernel = "paginaSWAP" /\ pedida \in presentes /\ hiloFS.marco = marcoDe[pedida]
        /\ ram[marcoDe[pedida]] = swap[posSWAP[pedida]]
    BY <2>1 DEF Sana, IKernel, Leida
  <2>6. pedida \in modificadas'
    BY <1>1, <2>5 DEF Sana, Coherencia
  <2>7. presentes' = presentes /\ ConSwap' = ConSwap
    BY <1>1 DEF presentes, ConSwap, Reservando
  <2>8. \A g \in Paginas : Cargada(g)' = Cargada(g) /\ Contenido(g)' = Contenido(g)
    BY <1>1 DEF Cargada, Contenido, presentes
  <2>9. semaforos'["bloquesSwap"] = 0
    BY <2>4 DEF EsperasSwap
  <2>10. IUna'
    BY <2>1, <2>3, <2>4, <2>5, <1>1 DEF Sana, IUna
  <2>11. IMensajes'
    BY <2>3 DEF Sana, IMensajes
  <2>12. IKernel'
    BY <1>1, <2>1, <2>5, <2>6, <2>7 DEF Sana, IKernel
  <2>13. ICPU'
    BY <1>1 DEF Sana, ICPU
  <2>14. IAusentes'
    BY <1>1 DEF Sana, IAusentes
  <2>15. IModificadas'
    BY <1>1, <2>8 DEF Sana, IModificadas
  <2>16. ISwap'
    BY <1>1, <2>3, <2>5, <2>7, <2>9 DEF Sana, ISwap, Usados
  <2>17. Coherencia'
    BY <1>1, <2>7 DEF Sana, Coherencia
  <2>18. PaginasFieles'
    BY <1>1, <2>7, <2>8, MismasPaginas DEF Sana, PaginasFieles
  <2> QED
    BY <2>10, <2>11, <2>12, <2>13, <2>14, <2>15, <2>16, <2>17, <2>18 DEF Sana
<1>3. CASE hiloFS.para # "paginaSWAP"
  <2> DEFINE r == [tipo |-> "valid_read"]
  <2>1. aFS' = Append(aFS, r) /\ UNCHANGED semaforos /\ aFS \in Seq(MensajesFS)
    BY <1>3 DEF BloqueMarcado, Enviar, MTypeOK
  <2>2. r \in MensajesFS /\ r.tipo \notin Mensajes
    BY DEF MensajesFS, Mensajes
  <2> HIDE DEF r
  <2>3. DeSwap(aFS)' = DeSwap(aFS) /\ UnoSolo(aFS)'
    BY <2>1, <2>2, ColaMas DEF Sana, IUna
  <2>4. /\ DeSwap(aMem)' = DeSwap(aMem) /\ UnoSolo(aMem)' /\ Cargando' = Cargando /\ ~Cargando
    BY <1>1, <1>3 DEF Sana, IUna, Cargando
  <2>5. ICPU'
    BY <1>1 DEF Sana, ICPU
  <2> QED
    BY <1>1, <2>1, <2>3, <2>4, <2>5, Ajena
<1> QED
  BY <1>2, <1>3

-----------------------------------------------------------------------------
(* The invariant holds.                                                    *)

LEMMA Inicio ==
  ASSUME MInit
  PROVE  MInv
<1>1. /\ CantMarcos \in Nat \ {0} /\ 0 \in Marcos /\ 0 \in BloquesSWAP /\ ValorInicial \in Valores
  BY MemoriaAssumption, SwapAssumption DEF Marcos, BloquesSWAP
<1>2. tiempo \in [1..CantMarcos -> Marcos] /\ llegada = tiempo
  BY <1>1 DEF MInit, Marcos
<1>3. /\ aFS = <<>> /\ aMem = <<>> /\ <<>> \in Seq(MensajesFS) /\ <<>> \in Seq(MensajesMem)
      /\ aArchivos = <<>> /\ <<>> \in Seq([op : {"f_read", "f_write"}, dir : Direcciones])
  BY DEF MInit
<1>4. MTypeOK
  BY <1>1, <1>2, <1>3, MemoriaAssumption DEF MInit, MTypeOK, Nulo
<1>5. DeSwap(aFS) = {} /\ DeSwap(aMem) = {} /\ UnoSolo(aFS) /\ UnoSolo(aMem)
  BY <1>3 DEF DeSwap, Elementos, UnoSolo
<1>6. ~Cargando /\ ~Leida /\ presentes = {} /\ ConSwap = {} /\ \A s \in EsperasSwap : semaforos[s] = 0
  BY DEF MInit, Cargando, Leida, presentes, ConSwap, EsperasSwap
<1>7. IUna /\ IMensajes
  BY <1>5, <1>6 DEF IUna, IMensajes
<1>8. IKernel /\ ICPU /\ IAusentes
  BY <1>5, <1>6 DEF MInit, IKernel, ICPU, IAusentes, EsperasSwap
<1>9. IModificadas /\ Coherencia /\ PaginasFieles
  BY <1>6 DEF MInit, IModificadas, Cargada, Coherencia, PaginasFieles
<1>10. ISwap
  BY <1>5, <1>6 DEF MInit, ISwap, Usados, EsperasSwap
<1> QED
  BY <1>4, <1>7, <1>8, <1>9, <1>10 DEF MInv, Sana

LEMMA TiposSiempre ==
  ASSUME MTypeOK, Sana, ~danio, MNext
  PROVE  MTypeOK'
<1>1. ASSUME NEW p \in Pids, crear_proceso(p) \/ finalizar_proceso(p)
      PROVE  MTypeOK'
  BY <1>1, Tipos_crear_proceso, Tipos_finalizar_proceso
<1>2. ASSUME NEW p \in Pids, AccionCPU(p)
      PROVE  MTypeOK'
  <2>1. ASSUME NEW g \in PaginasDe(p),
               TraducirSinTabla(p, g) \/ TraducirPresente(p, g) \/ TraducirAusente(p, g)
        PROVE  MTypeOK'
    <3>1. g \in Paginas
      BY DEF PaginasDe
    <3> QED
      BY <2>1, <3>1, Tipos_TraducirSinTabla, Tipos_TraducirPresente, Tipos_TraducirAusente
  <2>2. CASE mov_in(p) \/ movido_out(p)
    BY <2>2, Tipos_mov_in, Tipos_movido_out
  <2>3. CASE \E v \in Valores : mov_out(p, v)
    BY <2>3, Tipos_mov_out
  <2>4. CASE \E op \in {"f_read", "f_write"} : PedirArchivo(p, op)
    BY <2>4, Tipos_PedirArchivo
  <2> QED
    BY <1>2, <2>1, <2>2, <2>3, <2>4 DEF AccionCPU
<1>3. ASSUME NEW g \in Paginas, Falla(g)
      PROVE  MTypeOK'
  BY <1>3, Tipos_FallaConMarcoLibre, Tipos_FallaConVictima, Tipos_FallaSinTabla DEF Falla
<1>4. CASE \E v \in Valores : AtenderArchivo(v)
  BY <1>4, Tipos_AtenderArchivo
<1>5. CASE AccionKernel
  BY <1>5, Tipos_cargado, Tipos_procesoFinalizado, Tipos_VictimaGuardada, Tipos_paginaCargada
     DEF AccionKernel
<1>6. CASE AccionFS
  <2>1. CASE ArchivoAtendido
    BY <2>1, Tipos_ArchivoAtendido
  <2>2. CASE AtenderSwap
    BY <2>2, Tipos_reservar_SWAP, Tipos_escribir_pagina_swap, Tipos_obtener_pagina_swap,
       Tipos_liberar_swap DEF AtenderSwap
  <2> QED
    BY <1>6, <2>1, <2>2 DEF AccionFS
<1>7. CASE AccionHiloFS
  <2>1. CASE RespuestaDeSwap("escribirSwap") \/ RespuestaDeSwap("liberar_swap")
    BY <2>1, Tipos_RespuestaDeSwap DEF EsperasSwap
  <2>2. CASE asignar_swap \/ cargar_pagina_swap
    BY <2>2, Tipos_asignar_swap, Tipos_cargar_pagina_swap
  <2>3. CASE recibir_datos_bloque \/ enviar_datos_bloque
    BY <2>3, Tipos_recibir_datos_bloque, Tipos_enviar_datos_bloque
  <2>4. CASE BloqueMarcado
    BY <2>4, Tipos_BloqueMarcado
  <2>5. CASE MarcarSinTabla
    BY <2>5, Tipos_MarcarSinTabla
  <2> QED
    BY <1>7, <2>1, <2>2, <2>3, <2>4, <2>5 DEF AccionHiloFS
<1> QED
  BY <1>1, <1>2, <1>3, <1>4, <1>5, <1>6, <1>7 DEF MNext

LEMMA SanaSiempre ==
  ASSUME MTypeOK, Sana, ~danio, ~danio', MNext
  PROVE  Sana'
<1>1. ASSUME NEW p \in Pids, crear_proceso(p) \/ finalizar_proceso(p)
      PROVE  Sana'
  BY <1>1, Sana_crear_proceso, Sana_finalizar_proceso
<1>2. ASSUME NEW p \in Pids, AccionCPU(p)
      PROVE  Sana'
  <2>1. ASSUME NEW g \in PaginasDe(p),
               TraducirSinTabla(p, g) \/ TraducirPresente(p, g) \/ TraducirAusente(p, g)
        PROVE  Sana'
    <3>1. g \in Paginas
      BY DEF PaginasDe
    <3> QED
      BY <2>1, <3>1, Sana_TraducirPresente, Sana_TraducirAusente DEF TraducirSinTabla
  <2>2. CASE mov_in(p) \/ movido_out(p)
    BY <2>2, Sana_mov_in, Sana_movido_out
  <2>3. CASE \E v \in Valores : mov_out(p, v)
    BY <2>3, Sana_mov_out
  <2>4. CASE \E op \in {"f_read", "f_write"} : PedirArchivo(p, op)
    BY <2>4, Sana_PedirArchivo
  <2> QED
    BY <1>2, <2>1, <2>2, <2>3, <2>4 DEF AccionCPU
<1>3. ASSUME NEW g \in Paginas, Falla(g)
      PROVE  Sana'
  BY <1>3, Sana_FallaConMarcoLibre, Sana_FallaConVictima DEF Falla, FallaSinTabla
<1>4. CASE \E v \in Valores : AtenderArchivo(v)
  BY <1>4, Sana_AtenderArchivo
<1>5. CASE AccionKernel
  BY <1>5, Sana_cargado, Sana_procesoFinalizado, Sana_VictimaGuardada, Sana_paginaCargada
     DEF AccionKernel
<1>6. CASE AccionFS
  <2>1. CASE ArchivoAtendido
    BY <2>1, Sana_ArchivoAtendido
  <2>2. CASE AtenderSwap
    BY <2>2, Sana_reservar_SWAP, Sana_escribir_pagina_swap, Sana_obtener_pagina_swap,
       Sana_liberar_swap DEF AtenderSwap
  <2> QED
    BY <1>6, <2>1, <2>2 DEF AccionFS
<1>7. CASE AccionHiloFS
  <2>1. CASE RespuestaDeSwap("escribirSwap") \/ RespuestaDeSwap("liberar_swap")
    BY <2>1, Sana_RespuestaDeSwap DEF EsperasSwap
  <2>2. CASE asignar_swap \/ cargar_pagina_swap
    BY <2>2, Sana_asignar_swap, Sana_cargar_pagina_swap
  <2>3. CASE recibir_datos_bloque \/ enviar_datos_bloque
    BY <2>3, Sana_recibir_datos_bloque, Sana_enviar_datos_bloque
  <2>4. CASE BloqueMarcado
    BY <2>4, Sana_BloqueMarcado
  <2>5. CASE MarcarSinTabla
    BY <2>5 DEF MarcarSinTabla
  <2> QED
    BY <1>7, <2>1, <2>2, <2>3, <2>4, <2>5 DEF AccionHiloFS
<1> QED
  BY <1>1, <1>2, <1>3, <1>4, <1>5, <1>6, <1>7 DEF MNext

LEMMA Paso ==
  ASSUME MInv, [MNext]_mvars
  PROVE  MInv'
<1>1. CASE MNext
  <2>1. MTypeOK /\ ~danio /\ Sana
    BY <1>1 DEF MInv, MNext
  <2>2. MTypeOK'
    BY <1>1, <2>1, TiposSiempre
  <2>3. ~danio' => Sana'
    BY <1>1, <2>1, SanaSiempre
  <2> QED
    BY <2>2, <2>3 DEF MInv
<1>2. CASE UNCHANGED mvars
  <2>1. MTypeOK'
    BY <1>2 DEF MInv, MTypeOK, mvars, swapvars, tablas, marcos, hiloKernel, externas
  <2>2. /\ UNCHANGED <<tablaSWAP, swap, aFS, aMem, tablaProcesos, posSWAP, modificadas, marcoDe, libres,
                       inversa, ram, kernel, pedida, victima, semaforos, hiloFS, hiloCPU, hace,
                       direccion, escrito, danio>>
    BY <1>2 DEF mvars, swapvars, tablas, marcos, hiloKernel
  <2>3. ASSUME ~danio', Sana
        PROVE  Sana'
    <3>1. /\ DeSwap(aFS)' = DeSwap(aFS) /\ DeSwap(aMem)' = DeSwap(aMem)
          /\ UnoSolo(aFS)' /\ UnoSolo(aMem)' /\ Cargando' = Cargando
      BY <2>2, <2>3 DEF Sana, IUna, Cargando
    <3>2. ICPU' /\ ~danio
      BY <2>2, <2>3 DEF Sana, ICPU
    <3> QED
      BY <2>2, <2>3, <3>1, <3>2, Ajena
  <2> QED
    BY <2>1, <2>2, <2>3 DEF MInv
<1> QED
  BY <1>1, <1>2

(* The invariant that the properties of Memoria rest on.                   *)
THEOREM MInvariante == MSpec => []MInv
<1>1. MInit => MInv
  BY Inicio
<1>2. MInv /\ [MNext]_mvars => MInv'
  BY Paso
<1> QED
  BY <1>1, <1>2, PTL DEF MSpec

(* Messages, threads and tables keep their shape: every address leads to a *)
(* frame there is, and every answer is one that was asked for.             *)
THEOREM MTipos == MSpec => []MTypeOK
<1>1. MInv => MTypeOK
  BY DEF MInv
<1> QED
  BY <1>1, MInvariante, PTL

(* The page tables, the frames and the inverse table agree, whatever ends  *)
(* and whatever is replaced meanwhile, until something goes wrong.         *)
THEOREM TablasCoherentes == MSpec => []Coherencia
<1>1. MInv => Coherencia
  BY DEF MInv, Sana, Coherencia
<1> QED
  BY <1>1, MInvariante, PTL

(* No two pages share a block of swap and no block is lost, until something*)
(* goes wrong.                                                             *)
THEOREM BloquesDeSwapPropios == MSpec => []SwapPropia
<1>1. MInv => SwapPropia
  BY DEF MInv, Sana, ISwap, SwapPropia, Usados
<1> QED
  BY <1>1, MInvariante, PTL

(* Paging is invisible: each page holds what was last written to it, in RAM*)
(* or in swap, until something goes wrong.                                 *)
THEOREM PaginasSiempreFieles == MSpec => []PaginasFieles
<1>1. MInv => PaginasFieles
  BY DEF MInv, Sana, PaginasFieles
<1> QED
  BY <1>1, MInvariante, PTL

-----------------------------------------------------------------------------
(* While no process has ended, FIFO goes round the frames: `llegada` is a  *)
(* rotation of them, the free ones come first in it, and marcoFIFO is where*)
(* it begins, or one further while the victim is being written.            *)
Siguiente(k) == IF k = CantMarcos - 1 THEN 0 ELSE k + 1
Ronda(b) == [i \in 1..CantMarcos |->
               IF b + i - 1 < CantMarcos THEN b + i - 1 ELSE b + i - 1 - CantMarcos]

SinFinalizar ==
  \A p \in Pids : hace[p] # "fin" /\ (hace[p] = "nada" <=> p \notin tablaProcesos)

(* Who ends has no page table, and gets none again.                        *)
IFin == \A p \in Pids : hace[p] = "fin" => p \notin tablaProcesos

IRonda ==
  algoritmoReemplazo = "FIFO" /\ SinFinalizar =>
    \E b \in Marcos :
      /\ llegada = Ronda(b)
      /\ \/ libres = b..(CantMarcos - 1) /\ victima = Nulo /\ marcoFIFO = 0
         \/ libres = {} /\ victima = Nulo /\ marcoFIFO = b
         \/ libres = {} /\ victima # Nulo /\ marcoFIFO = Siguiente(b) /\ marcoDe[victima] = b

EnRonda == ~danio => IFin /\ IRonda

(* Taking the first frame of the round moves it to the end.                *)
LEMMA RondaSigue ==
  ASSUME NEW b \in Marcos
  PROVE  /\ AlFinal(b, Ronda(b)) = Ronda(Siguiente(b))
         /\ Siguiente(b) \in Marcos /\ Ronda(b)[1] = b
<1>1. CantMarcos \in Nat \ {0} /\ b \in Int /\ 0 <= b /\ b < CantMarcos /\ 1 \in 1..CantMarcos
  BY MemoriaAssumption DEF Marcos
<1>2. \A j \in 1..CantMarcos : Ronda(b)[j] = b <=> j = 1
  BY <1>1 DEF Ronda
<1>3. (CHOOSE j \in 1..CantMarcos : Ronda(b)[j] = b) = 1
  BY <1>1, <1>2
<1>4. AlFinal(b, Ronda(b)) =
        [j \in 1..CantMarcos |-> IF j < 1 THEN Ronda(b)[j]
                                 ELSE IF j < CantMarcos THEN Ronda(b)[j + 1] ELSE b]
  BY <1>3 DEF AlFinal
<1>5. ASSUME NEW j \in 1..CantMarcos
      PROVE  Ronda(Siguiente(b))[j] = IF j < CantMarcos THEN Ronda(b)[j + 1] ELSE b
  <2>1. CASE j < CantMarcos
    <3>1. j + 1 \in 1..CantMarcos
      BY <1>1, <2>1
    <3>2. Ronda(b)[j + 1] = IF b + j < CantMarcos THEN b + j ELSE b + j - CantMarcos
      BY <1>1, <3>1 DEF Ronda
    <3>3. CASE b = CantMarcos - 1
      BY <1>1, <2>1, <3>2, <3>3 DEF Ronda, Siguiente
    <3>4. CASE b # CantMarcos - 1
      BY <1>1, <2>1, <3>2, <3>4 DEF Ronda, Siguiente
    <3> QED
      BY <3>3, <3>4
  <2>2. CASE j = CantMarcos
    BY <1>1, <2>2 DEF Ronda, Siguiente
  <2> QED
    BY <1>1, <2>1, <2>2
<1>6. Ronda(Siguiente(b)) =
        [j \in 1..CantMarcos |-> IF j < CantMarcos THEN Ronda(b)[j + 1] ELSE b]
  <2>1. Ronda(Siguiente(b)) = [j \in 1..CantMarcos |-> Ronda(Siguiente(b))[j]]
    BY DEF Ronda
  <2> QED
    BY <1>5, <2>1
<1>7. AlFinal(b, Ronda(b)) =
        [j \in 1..CantMarcos |-> IF j < CantMarcos THEN Ronda(b)[j + 1] ELSE b]
  BY <1>1, <1>4
<1>8. Siguiente(b) \in Marcos
  BY <1>1 DEF Siguiente, Marcos
<1> QED
  BY <1>1, <1>2, <1>6, <1>7, <1>8

(* What processes do: who has begun does not begin again.                  *)
LEMMA NadieRenace ==
  ASSUME MTypeOK, MNext, NEW p \in Pids
  PROVE  /\ hace[p] # "nada" => hace'[p] # "nada" /\ (p \in tablaProcesos' => p \in tablaProcesos)
         /\ hace'[p] = "fin" => hace[p] = "fin" \/ p \notin tablaProcesos'
<1> DEFINE Bien == /\ hace[p] # "nada" => hace'[p] # "nada" /\ (p \in tablaProcesos' => p \in tablaProcesos)
                   /\ hace'[p] = "fin" => hace[p] = "fin" \/ p \notin tablaProcesos'
<1>1. ASSUME UNCHANGED <<hace, tablaProcesos>>
      PROVE  Bien
  BY <1>1
<1>2. ASSUME NEW q, NEW x \in {"listo", "usa", "bloqueado"}, hace' = [hace EXCEPT ![q] = x],
             UNCHANGED tablaProcesos
      PROVE  Bien
  <2>1. hace'[p] = hace[p] \/ hace'[p] = x
    BY <1>2 DEF MTypeOK
  <2> QED
    BY <1>2, <2>1
<1>3. ASSUME NEW q \in Pids, crear_proceso(q)
      PROVE  Bien
  <2>1. hace[q] = "nada" /\ tablaProcesos' = tablaProcesos \cup {q} /\ hace' = [hace EXCEPT ![q] = "carga"]
    BY <1>3 DEF crear_proceso
  <2>2. hace'[p] = IF p = q THEN "carga" ELSE hace[p]
    BY <2>1 DEF MTypeOK
  <2> QED
    BY <2>1, <2>2
<1>4. ASSUME NEW q \in Pids, finalizar_proceso(q)
      PROVE  Bien
  <2>1. tablaProcesos' = tablaProcesos \ {q} /\ hace' = [hace EXCEPT ![q] = "fin"]
    BY <1>4 DEF finalizar_proceso
  <2>2. hace'[p] = IF p = q THEN "fin" ELSE hace[p]
    BY <2>1 DEF MTypeOK
  <2> QED
    BY <2>1, <2>2
<1>5. ASSUME NEW q \in Pids, AccionCPU(q)
      PROVE  Bien
  <2>1. UNCHANGED tablaProcesos
    BY <1>5 DEF AccionCPU, TraducirSinTabla, TraducirPresente, TraducirAusente, mov_in, movido_out,
               mov_out, PedirArchivo, tablas
  <2>2. \/ UNCHANGED hace \/ hace' = [hace EXCEPT ![q] = "usa"]
        \/ hace' = [hace EXCEPT ![q] = "bloqueado"] \/ hace' = [hace EXCEPT ![q] = "listo"]
    BY <1>5 DEF AccionCPU, TraducirSinTabla, TraducirPresente, TraducirAusente, mov_in, movido_out,
               mov_out, PedirArchivo
  <2> QED
    BY <1>1, <1>2, <2>1, <2>2
<1>6. ASSUME NEW g \in Paginas, Falla(g)
      PROVE  Bien
  BY <1>1, <1>6 DEF Falla, FallaSinTabla, FallaConMarcoLibre, FallaConVictima, tablas
<1>7. CASE \E v \in Valores : AtenderArchivo(v)
  BY <1>1, <1>7 DEF AtenderArchivo, tablas
<1>8. CASE AccionKernel
  <2>1. UNCHANGED tablaProcesos
    BY <1>8 DEF AccionKernel, cargado, procesoFinalizado, VictimaGuardada, paginaCargada, tablas
  <2>2. UNCHANGED hace \/ \E q : hace' = [hace EXCEPT ![q] = "listo"]
    BY <1>8 DEF AccionKernel, cargado, procesoFinalizado, VictimaGuardada, paginaCargada, Despertar
  <2>3. ASSUME NEW q, hace' = [hace EXCEPT ![q] = "listo"]
        PROVE  Bien
    BY <1>2, <2>1, <2>3
  <2> QED
    BY <1>1, <2>1, <2>2, <2>3
<1>9. CASE AccionFS
  <2>1. UNCHANGED tablaProcesos
    BY <1>9 DEF AccionFS, ArchivoAtendido, AtenderSwap, tablas
  <2>2. UNCHANGED hace \/ \E q : hace' = [hace EXCEPT ![q] = "listo"]
    BY <1>9 DEF AccionFS, ArchivoAtendido, AtenderSwap, Despertar
  <2>3. ASSUME NEW q, hace' = [hace EXCEPT ![q] = "listo"]
        PROVE  Bien
    BY <1>2, <2>1, <2>3
  <2> QED
    BY <1>1, <2>1, <2>2, <2>3
<1>10. CASE AccionHiloFS
  BY <1>1, <1>10 DEF AccionHiloFS, asignar_swap, RespuestaDeSwap, cargar_pagina_swap,
     recibir_datos_bloque, enviar_datos_bloque, BloqueMarcado, MarcarSinTabla, tablas
<1>11. Bien
  BY <1>3, <1>4, <1>5, <1>6, <1>7, <1>8, <1>9, <1>10 DEF MNext
<1> QED
  BY <1>11

(* So if nobody has ended after a step, nobody had before it.              *)
LEMMA FinEsParaSiempre ==
  ASSUME MTypeOK, Sana, IFin, MNext
  PROVE  IFin' /\ (SinFinalizar' => SinFinalizar)
<1>1. \A p \in Pids : hace'[p] = "fin" => p \notin tablaProcesos'
  <2> SUFFICES ASSUME NEW p \in Pids, hace'[p] = "fin"
               PROVE  p \notin tablaProcesos'
    OBVIOUS
  <2>1. hace[p] = "fin" => p \notin tablaProcesos
    BY DEF IFin
  <2> QED
    BY <2>1, NadieRenace
<1>2. ASSUME SinFinalizar', NEW p \in Pids
      PROVE  hace[p] # "fin" /\ (hace[p] = "nada" <=> p \notin tablaProcesos)
  <2>1. hace[p] = "nada" => p \notin tablaProcesos
    BY DEF Sana, IAusentes
  <2>2. hace[p] # "nada" => p \in tablaProcesos
    <3>1. hace'[p] # "nada" => p \in tablaProcesos'
      BY <1>2 DEF SinFinalizar
    <3> QED
      BY <3>1, NadieRenace
  <2>3. hace[p] # "fin"
    BY <2>2 DEF IFin
  <2> QED
    BY <2>1, <2>2, <2>3
<1> QED
  BY <1>1, <1>2 DEF IFin, SinFinalizar

(* A step that neither takes a frame nor chooses a victim.                 *)
LEMMA RondaQuieta ==
  ASSUME IRonda, SinFinalizar' => SinFinalizar,
         UNCHANGED <<libres, marcoFIFO, llegada, victima, algoritmoReemplazo, marcoDe>>
  PROVE  IRonda'
BY DEF IRonda

LEMMA RondaConMarcoLibre ==
  ASSUME MTypeOK, Sana, IRonda, SinFinalizar, algoritmoReemplazo = "FIFO",
         NEW g \in Paginas, FallaConMarcoLibre(g)
  PROVE  IRonda'
<1>1. PICK b \in Marcos :
        /\ llegada = Ronda(b)
        /\ \/ libres = b..(CantMarcos - 1) /\ victima = Nulo /\ marcoFIFO = 0
           \/ libres = {} /\ victima = Nulo /\ marcoFIFO = b
           \/ libres = {} /\ victima # Nulo /\ marcoFIFO = Siguiente(b) /\ marcoDe[victima] = b
  BY DEF IRonda
<1>2. PICK k \in libres : (\A j \in libres : k <= j) /\ Ocupar(g, k, {})
  BY DEF FallaConMarcoLibre
<1>3. /\ libres' = libres \ {k} /\ victima' = Nulo /\ llegada' = AlFinal(k, llegada)
      /\ UNCHANGED <<marcoFIFO, algoritmoReemplazo>>
  BY <1>2 DEF Ocupar, FallaConMarcoLibre
<1>4. CantMarcos \in Nat \ {0} /\ b \in Int /\ 0 <= b /\ b < CantMarcos
  BY MemoriaAssumption DEF Marcos
<1>5. libres = b..(CantMarcos - 1) /\ marcoFIFO = 0
  BY <1>1, <1>2
<1>6. k = b
  <2>1. b \in libres /\ k \in Int /\ b <= k
    BY <1>2, <1>4, <1>5
  <2> QED
    BY <1>2, <1>4, <2>1
<1>7. llegada' = Ronda(Siguiente(b)) /\ Siguiente(b) \in Marcos
  BY <1>1, <1>3, <1>6, RondaSigue
<1>8. CASE b = CantMarcos - 1
  <2>1. Siguiente(b) = 0 /\ libres' = {}
    BY <1>3, <1>4, <1>5, <1>6, <1>8 DEF Siguiente
  <2> QED
    BY <1>3, <1>5, <1>7, <2>1 DEF IRonda
<1>9. CASE b # CantMarcos - 1
  <2>1. Siguiente(b) = b + 1 /\ libres' = (b + 1)..(CantMarcos - 1)
    BY <1>3, <1>4, <1>5, <1>6, <1>9 DEF Siguiente
  <2> QED
    BY <1>3, <1>5, <1>7, <2>1 DEF IRonda
<1> QED
  BY <1>8, <1>9

(* The victim is the page of the first frame of the round.                 *)
LEMMA VictimaPrimera ==
  ASSUME MTypeOK, Sana, ~danio, IRonda, SinFinalizar, algoritmoReemplazo = "FIFO",
         NEW g \in Paginas, FallaConVictima(g)
  PROVE  /\ marcoFIFO \in Marcos /\ llegada = Ronda(marcoFIFO) /\ victima = Nulo
         /\ marcoDe[inversa[marcoFIFO]] = marcoFIFO /\ inversa[marcoFIFO] \in Paginas
         /\ MarcoVictima = marcoFIFO /\ libres = {} /\ marcoFIFO' = Siguiente(marcoFIFO)
<1>1. PICK b \in Marcos :
        /\ llegada = Ronda(b)
        /\ \/ libres = b..(CantMarcos - 1) /\ victima = Nulo /\ marcoFIFO = 0
           \/ libres = {} /\ victima = Nulo /\ marcoFIFO = b
           \/ libres = {} /\ victima # Nulo /\ marcoFIFO = Siguiente(b) /\ marcoDe[victima] = b
  BY DEF IRonda
<1>2. CantMarcos \in Nat \ {0} /\ b \in Int /\ 0 <= b /\ b < CantMarcos
  BY MemoriaAssumption DEF Marcos
<1>3. libres = {} /\ kernel = "libre" /\ marcoFIFO' = SiguienteFIFO
  BY DEF FallaConVictima, AtenderFalla
<1>4. victima = Nulo
  BY <1>3 DEF Sana, IKernel
<1>5. marcoFIFO = b
  <2>1. b \in b..(CantMarcos - 1)
    BY <1>2
  <2> QED
    BY <1>1, <1>3, <1>4, <2>1
<1>6. inversa[b] \in presentes /\ marcoDe[inversa[b]] = b
  BY <1>3 DEF Sana, Coherencia
<1> QED
  BY <1>1, <1>3, <1>4, <1>5, <1>6 DEF presentes, MarcoVictima, SiguienteFIFO, Siguiente

LEMMA RondaConVictima ==
  ASSUME MTypeOK, Sana, ~danio, IRonda, SinFinalizar, algoritmoReemplazo = "FIFO",
         NEW g \in Paginas, FallaConVictima(g)
  PROVE  IRonda'
<1> DEFINE v == inversa[MarcoVictima]
           b == marcoFIFO
<1>1. /\ b \in Marcos /\ llegada = Ronda(b) /\ marcoDe[v] = b /\ v \in Paginas
      /\ libres = {} /\ marcoFIFO' = Siguiente(b)
  BY VictimaPrimera
<1>2. v # Nulo
  BY <1>1, PaginaDePid DEF Nulo
<1>3. CASE v \in modificadas
  <2>1. victima' = v /\ UNCHANGED <<libres, marcoDe, llegada>>
    BY <1>3 DEF FallaConVictima
  <2> QED
    BY <1>1, <1>2, <2>1 DEF IRonda
<1>4. CASE v \notin modificadas
  <2>1. Ocupar(g, marcoDe[v], {v})
    BY <1>4 DEF FallaConVictima
  <2>2. victima' = Nulo /\ libres' = {} /\ llegada' = AlFinal(b, llegada)
    BY <1>1, <2>1 DEF Ocupar
  <2>3. llegada' = Ronda(Siguiente(b)) /\ Siguiente(b) \in Marcos
    BY <1>1, <2>2, RondaSigue
  <2> HIDE DEF b
  <2> QED
    BY <1>1, <2>2, <2>3 DEF IRonda
<1> QED
  BY <1>3, <1>4

LEMMA RondaGuardada ==
  ASSUME MTypeOK, Sana, IRonda, SinFinalizar, algoritmoReemplazo = "FIFO", VictimaGuardada
  PROVE  IRonda'
<1>1. PICK b \in Marcos :
        /\ llegada = Ronda(b)
        /\ \/ libres = b..(CantMarcos - 1) /\ victima = Nulo /\ marcoFIFO = 0
           \/ libres = {} /\ victima = Nulo /\ marcoFIFO = b
           \/ libres = {} /\ victima # Nulo /\ marcoFIFO = Siguiente(b) /\ marcoDe[victima] = b
  BY DEF IRonda
<1>2. kernel = "escribirSwap" /\ Ocupar(pedida, marcoDe[victima], {victima}) /\ UNCHANGED marcoFIFO
  BY DEF VictimaGuardada, Retoma
<1>3. victima \in Paginas
  BY <1>2 DEF Sana, IKernel, presentes
<1>4. victima # Nulo
  BY <1>3, PaginaDePid DEF Nulo
<1>5. libres = {} /\ marcoFIFO = Siguiente(b) /\ marcoDe[victima] = b
  BY <1>1, <1>4
<1>6. victima' = Nulo /\ libres' = {} /\ llegada' = AlFinal(b, llegada)
  BY <1>2, <1>5 DEF Ocupar
<1>7. llegada' = Ronda(Siguiente(b)) /\ Siguiente(b) \in Marcos
  BY <1>1, <1>6, RondaSigue
<1> QED
  BY <1>2, <1>5, <1>6, <1>7 DEF IRonda

LEMMA RondaInicial ==
  ASSUME MInit
  PROVE  EnRonda
<1>1. CantMarcos \in Nat \ {0} /\ 0 \in Marcos
  BY MemoriaAssumption DEF Marcos
<1>2. llegada = [i \in 1..CantMarcos |-> i - 1] /\ libres = Marcos /\ marcoFIFO = 0 /\ victima = Nulo
  BY DEF MInit
<1>3. llegada = Ronda(0)
  BY <1>1, <1>2 DEF Ronda
<1>4. libres = 0..(CantMarcos - 1)
  BY <1>2 DEF Marcos
<1>5. IRonda
  BY <1>1, <1>2, <1>3, <1>4 DEF IRonda
<1>6. IFin
  BY DEF MInit, IFin
<1> QED
  BY <1>5, <1>6 DEF EnRonda

LEMMA RondaPaso ==
  ASSUME MTypeOK, Sana, ~danio, IFin, IRonda, MNext
  PROVE  IFin' /\ IRonda'
<1>1. IFin' /\ (SinFinalizar' => SinFinalizar)
  BY FinEsParaSiempre
<1>2. UNCHANGED algoritmoReemplazo
  <2>1. CASE \E p \in Pids : crear_proceso(p) \/ finalizar_proceso(p)
    BY <2>1 DEF crear_proceso, finalizar_proceso, marcos
  <2>2. CASE \E p \in Pids : AccionCPU(p)
    BY <2>2 DEF AccionCPU, TraducirSinTabla, TraducirPresente, TraducirAusente, mov_in, movido_out,
       mov_out, PedirArchivo, marcos
  <2>3. CASE \E g \in Paginas : Falla(g)
    BY <2>3 DEF Falla, FallaSinTabla, FallaConMarcoLibre, FallaConVictima, marcos
  <2>4. CASE (\E v \in Valores : AtenderArchivo(v)) \/ AccionFS
    BY <2>4 DEF AtenderArchivo, AccionFS, ArchivoAtendido, AtenderSwap, marcos
  <2>5. CASE AccionKernel
    BY <2>5 DEF AccionKernel, cargado, procesoFinalizado, VictimaGuardada, paginaCargada, marcos
  <2>6. CASE AccionHiloFS
    BY <2>6 DEF AccionHiloFS, asignar_swap, RespuestaDeSwap, cargar_pagina_swap,
       recibir_datos_bloque, enviar_datos_bloque, BloqueMarcado, MarcarSinTabla, marcos
  <2> QED
    BY <2>1, <2>2, <2>3, <2>4, <2>5, <2>6 DEF MNext
<1> DEFINE Quieta == UNCHANGED <<libres, marcoFIFO, llegada, victima, algoritmoReemplazo, marcoDe>>
<1>3. Quieta => IRonda'
  BY <1>1, RondaQuieta
<1> SUFFICES ASSUME SinFinalizar', algoritmoReemplazo' = "FIFO"
             PROVE  IRonda'
  BY <1>1 DEF IRonda
<1>4. SinFinalizar /\ algoritmoReemplazo = "FIFO"
  BY <1>1, <1>2
<1>5. ASSUME NEW p \in Pids, crear_proceso(p)
      PROVE  IRonda'
  BY <1>3, <1>5 DEF crear_proceso, marcos
<1>6. ASSUME NEW p \in Pids, finalizar_proceso(p)
      PROVE  FALSE
  <2>1. hace' = [hace EXCEPT ![p] = "fin"]
    BY <1>6 DEF finalizar_proceso
  <2>2. hace'[p] = "fin"
    BY <2>1 DEF MTypeOK
  <2> QED
    BY <2>2 DEF SinFinalizar
<1>7. ASSUME NEW p \in Pids, AccionCPU(p)
      PROVE  IRonda'
  BY <1>3, <1>7 DEF AccionCPU, TraducirSinTabla, TraducirPresente, TraducirAusente, mov_in,
     movido_out, mov_out, PedirArchivo, tablas, marcos, hiloKernel
<1>8. ASSUME NEW g \in Paginas, Falla(g)
      PROVE  IRonda'
  <2>1. FallaSinTabla(g) => Quieta
    BY DEF FallaSinTabla, tablas, marcos, hiloKernel
  <2> QED
    BY <1>3, <1>4, <1>8, <2>1, RondaConMarcoLibre, RondaConVictima DEF Falla
<1>9. CASE \E v \in Valores : AtenderArchivo(v)
  BY <1>3, <1>9 DEF AtenderArchivo, tablas, marcos, hiloKernel
<1>10. CASE AccionKernel
  <2>1. cargado \/ procesoFinalizado \/ paginaCargada => Quieta
    BY DEF cargado, procesoFinalizado, paginaCargada, tablas, marcos
  <2> QED
    BY <1>3, <1>4, <1>10, <2>1, RondaGuardada DEF AccionKernel
<1>11. CASE AccionFS
  BY <1>3, <1>11 DEF AccionFS, ArchivoAtendido, AtenderSwap, tablas, marcos, hiloKernel
<1>12. CASE AccionHiloFS
  BY <1>3, <1>12 DEF AccionHiloFS, asignar_swap, RespuestaDeSwap, cargar_pagina_swap,
     recibir_datos_bloque, enviar_datos_bloque, BloqueMarcado, MarcarSinTabla, tablas, marcos, hiloKernel
<1> QED
  BY <1>5, <1>6, <1>7, <1>8, <1>9, <1>10, <1>11, <1>12 DEF MNext

LEMMA RondaSiempre ==
  ASSUME MInv, EnRonda, [MNext]_mvars
  PROVE  EnRonda'
<1>1. CASE MNext
  <2>1. ~danio /\ MTypeOK /\ Sana /\ IFin /\ IRonda
    BY <1>1 DEF MNext, MInv, EnRonda
  <2> QED
    BY <1>1, <2>1, RondaPaso DEF EnRonda
<1>2. CASE UNCHANGED mvars
  <2>1. /\ UNCHANGED <<libres, marcoFIFO, llegada, victima, algoritmoReemplazo, marcoDe>>
        /\ UNCHANGED <<hace, tablaProcesos, danio>>
    BY <1>2 DEF mvars, tablas, marcos, hiloKernel
  <2> QED
    BY <2>1 DEF EnRonda, IFin, IRonda, SinFinalizar
<1> QED
  BY <1>1, <1>2

(* Only page_fault chooses a victim.                                       *)
LEMMA VictimaElegida ==
  ASSUME MInv, EnRonda, [MNext]_mvars, victima' # Nulo, victima = Nulo,
         algoritmoReemplazo = "FIFO", ~danio, SinFinalizar
  PROVE  victima' = inversa[llegada[1]]
<1>1. MTypeOK /\ Sana /\ IRonda
  BY DEF MInv, EnRonda
<1>2. \E g \in Paginas : Falla(g)
  <2>1. ASSUME \E p \in Pids : crear_proceso(p) \/ finalizar_proceso(p) PROVE FALSE
    BY <2>1 DEF crear_proceso, finalizar_proceso, hiloKernel
  <2>2. ASSUME \E p \in Pids : AccionCPU(p) PROVE FALSE
    BY <2>2 DEF AccionCPU, TraducirSinTabla, TraducirPresente, TraducirAusente, mov_in, movido_out,
       mov_out, PedirArchivo, hiloKernel
  <2>3. ASSUME (\E v \in Valores : AtenderArchivo(v)) \/ AccionFS PROVE FALSE
    BY <2>3 DEF AtenderArchivo, AccionFS, ArchivoAtendido, AtenderSwap, hiloKernel
  <2>4. ASSUME AccionKernel PROVE FALSE
    BY <2>4 DEF AccionKernel, cargado, procesoFinalizado, VictimaGuardada, Ocupar, paginaCargada
  <2>5. ASSUME AccionHiloFS PROVE FALSE
    BY <2>5 DEF AccionHiloFS, asignar_swap, RespuestaDeSwap, cargar_pagina_swap,
       recibir_datos_bloque, enviar_datos_bloque, BloqueMarcado, MarcarSinTabla, hiloKernel
  <2>6. ~UNCHANGED mvars
    BY DEF mvars, hiloKernel
  <2> QED
    BY <2>1, <2>2, <2>3, <2>4, <2>5, <2>6 DEF MNext
<1>3. PICK g \in Paginas : FallaConVictima(g)
  BY <1>2 DEF Falla, FallaSinTabla, FallaConMarcoLibre, Ocupar, hiloKernel
<1>4. /\ marcoFIFO \in Marcos /\ llegada = Ronda(marcoFIFO) /\ MarcoVictima = marcoFIFO
  BY <1>1, <1>3, VictimaPrimera
<1>5. llegada[1] = marcoFIFO
  BY <1>4, RondaSigue
<1>6. victima' = inversa[MarcoVictima]
  BY <1>3 DEF FallaConVictima, Ocupar
<1> QED
  BY <1>4, <1>5, <1>6

(* FIFO takes the page whose frame was filled the longest ago, until some  *)
(* process ends: the free frames are taken in the order in which marcoFIFO *)
(* will go round them.                                                     *)
THEOREM FIFOTomaLaMasAntigua == MSpec => VictimaMasAntigua
<1>1. MInit => EnRonda
  BY RondaInicial
<1>2. MInv /\ EnRonda /\ [MNext]_mvars => EnRonda'
  BY RondaSiempre
<1> DEFINE Elige == victima' # Nulo /\ victima = Nulo /\ algoritmoReemplazo = "FIFO" /\ ~danio
                      /\ SinFinalizar => victima' = inversa[llegada[1]]
<1>3. MInv /\ EnRonda /\ [MNext]_mvars => Elige
  BY VictimaElegida
<1> QED
  BY <1>1, <1>2, <1>3, MInvariante, PTL DEF MSpec, VictimaMasAntigua, SinFinalizar
=============================================================================
