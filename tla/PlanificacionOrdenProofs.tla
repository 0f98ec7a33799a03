----------------------- MODULE PlanificacionOrdenProofs -----------------------
(***************************************************************************)
(* What else planning by FIFO promises, from the invariant of              *)
(* PlanificacionFIFOProofs.  Four parts, each with the invariant it adds:  *)
(*   Alcanzan     a scheduler finds in the queue what it saw there, so the *)
(*                resources behave as RSpec says;                          *)
(*   Fiel         the pc that travels with a process, or is kept in its    *)
(*                PCB, is that of its next instruction;                    *)
(*   Prolijas     what comes at once after the calls that end a process or *)
(*                push it, and with GradoContado the processes admitted    *)
(*                are those counted, so the degree is respected;           *)
(*   Anunciado    while a process is ready and the CPU free somebody is    *)
(*                awake or is about to wake planificador_corto.            *)
(* With the same hypotheses: SoloFIFO, and DescriptorAjeno all along.      *)
(***************************************************************************)
EXTENDS PlanificacionFIFOProofs

-----------------------------------------------------------------------------
(* What no call changes, whichever it is; and the one that kills the Kernel*)
(* changes nothing else.                                                   *)
LEMMA EscribirQuieta ==
  ASSUME NEW h, EscribirSinAbrir(h)
  PROVE  /\ FijoEnLlamadas /\ Head(hilo[h]).op = "hilo_funcion"
         /\ UNCHANGED <<grado, detenida, largo, corto, ejecutandoB>>
         /\ UNCHANGED <<creados, estado, colas, multi, sem, hilo, canalDespacho>>
<1>1. UNCHANGED <<kernel, cpuVars>> /\ Head(hilo[h]).op = "hilo_funcion"
  BY DEF EscribirSinAbrir, Llama
<1>2. QED
  BY <1>1 DEF FijoEnLlamadas, kernel, consigna, tabla, cortoVar, cpuVars, canales

LEMMA LlamadaFija ==
  ASSUME NEW h \in Hilos, Llamada(h)
  PROVE  FijoEnLlamadas
<1>1. CASE EscribirSinAbrir(h)
  BY <1>1, EscribirQuieta
<1>2. CASE ~EscribirSinAbrir(h)
  BY <1>2
  DEF Llamada, CambiarEstado, SemPost, SemWait, PushColaCorto, PushSiEXEC, QueuePush,
      OrdenarAdelante, Responder, HiloFuncion, WaitConInstancia, WaitSinInstancia, DetectarDeadlock,
      WaitInvalido, SignalValido, SignalInvalido, Avisar, Salida, QuitarDeColas, LiberarSinEntrega,
      LiberarConEntrega, PedirMemoria, BajarMulti, PushColaLargo, DespertarLargo, BorrarProceso
<1>3. QED
  BY <1>1, <1>2

(* The schedulers find in the queues what they saw there: under FIFO       *)
(* nobody else takes a process out of them.                                *)
Alcanzan ==
  /\ largo.pc = "lote" => largo.resto <= Len(colaLargo)
  /\ largo.pc \in {"admitir", "contar"} => largo.resto - 1 <= Len(colaLargo)
  /\ corto.pc = "lugar" => colaCorto # <<>>

(* The queues do not shrink.                                               *)
Crecen ==
  /\ Len(colaLargo') >= Len(colaLargo)
  /\ colaCorto # <<>> => colaCorto' # <<>>

LEMMA CrecenQuietas ==
  ASSUME PTypeOK, UNCHANGED colas
  PROVE  Crecen
<1>1. Len(colaLargo) \in Int /\ UNCHANGED <<colaLargo, colaCorto>>
  BY DEF PTypeOK, TipoColas, colas
<1>2. QED
  BY <1>1 DEF Crecen

LEMMA ConAlFinalLlena ==
  ASSUME NEW s \in Seq(Pids), NEW p \in Pids
  PROVE  (s # <<>> => ConAlFinal(p, s) # <<>>) /\ <<p>> \o s # <<>> /\ Append(s, p) # <<>>
         /\ ConAlFinal(p, s) # <<>>
<1>1. <<p>> \o s # <<>> /\ Append(s, p) # <<>>
  <2>1. Len(<<p>> \o s) = Len(s) + 1 /\ Len(Append(s, p)) = Len(s) + 1 /\ Len(s) \in Nat
    BY <<p>> \in Seq(Pids)
  <2>2. QED
    BY <2>1
<1>2. EnCola(p, s) => s # <<>>
  BY DEF EnCola
<1>3. QED
  BY <1>1, <1>2 DEF ConAlFinal

(* What is removed from the queues was not there.                          *)
LEMMA QuitarDeColasNada ==
  ASSUME FInv, NEW h \in Hilos, QuitarDeColas(h)
  PROVE  UNCHANGED colas
<1>1. /\ hilo[h] # <<>> /\ Head(hilo[h]).op \in {"quitarCorto", "quitarLargo"}
      /\ Llama(h, "quitarCorto") \/ Llama(h, "quitarLargo")
      /\ \/ colaCorto' = Quitar(De(h), colaCorto) /\ colaLargo' = colaLargo
         \/ colaLargo' = Quitar(De(h), colaLargo) /\ colaCorto' = colaCorto
  BY DEF QuitarDeColas, Llama
<1>2. h \in Corrientes
  <2>1. hilo["consola"] # <<>> => Head(hilo["consola"]).op = "sem_wait"
    BY DEF FInv, HilosBien, sem_wait, Op
  <2>2. hilo["memoria"] # <<>> =>
          Head(hilo["memoria"]).op \in {"sem_post", "despertar_largo", "push_colaLargo", "borrar_proceso"}
    BY DEF FInv, HilosBien, ListasDeMemoria, Cargado, sem_post, Simple, Op
  <2>3. QED
    BY <1>1, <2>1, <2>2 DEF Corrientes
<1>3. De(h) \in Pids
  BY <1>1, CampoPid DEF FInv, PTypeOK
<1>4. EnCorto(De(h)) = 0 /\ EnLargo(De(h)) = 0
  BY <1>1, <1>2, <1>3, SeRetira DEF Retira
<1>5. colaCorto \in Seq(Pids) /\ colaLargo \in Seq(Pids)
  BY DEF FInv, PTypeOK, TipoColas
<1>6. Quitar(De(h), colaCorto) = colaCorto /\ Quitar(De(h), colaLargo) = colaLargo
  BY <1>3, <1>4, <1>5, QuitarNada DEF EnCorto, EnLargo
<1>7. QED
  BY <1>1, <1>6 DEF colas

LEMMA LlamadaCrece ==
  ASSUME FInv, PTypeOK', NEW h \in Hilos, Llamada(h)
  PROVE  Crecen
<1>1. colaLargo \in Seq(Pids) /\ colaCorto \in Seq(Pids) /\ Len(colaLargo) \in Nat
  BY DEF FInv, PTypeOK, TipoColas
<1>2. hilo[h] # <<>>
  BY SoloEsa
<1>3. CASE QuitarDeColas(h)
  BY <1>3, QuitarDeColasNada, CrecenQuietas DEF FInv
<1>4. CASE PushColaCorto(h)
  <2>1. De(h) \in Pids /\ colaCorto' = ConAlFinal(De(h), colaCorto) /\ colaLargo' = colaLargo
    BY <1>4, CampoPid DEF PushColaCorto, FInv, PTypeOK
  <2>2. QED
    BY <1>1, <2>1, ConAlFinalLlena DEF Crecen
<1>5. CASE QueuePush(h) \/ OrdenarAdelante(h)
  <2>1. De(h) \in Pids /\ colaCorto' \in {Append(colaCorto, De(h)), <<De(h)>> \o colaCorto}
        /\ colaLargo' = colaLargo
    BY <1>5, CampoPid DEF QueuePush, OrdenarAdelante, FInv, PTypeOK
  <2>2. QED
    BY <1>1, <2>1, ConAlFinalLlena DEF Crecen
<1>6. CASE PushColaLargo(h)
  <2>1. De(h) \in Pids /\ colaLargo' = Append(colaLargo, De(h)) /\ colaCorto' = colaCorto
    BY <1>6, CampoPid DEF PushColaLargo, FInv, PTypeOK
  <2>2. Len(colaLargo') = Len(colaLargo) + 1
    BY <1>1, <2>1
  <2>3. QED
    BY <1>1, <2>1, <2>2 DEF Crecen
<1>7. CASE SignalValido(h)
  <2> DEFINE r == Head(hilo[h]).arg
             frente == <<De(h)>> \o colaCorto
  <2>1. De(h) \in Pids /\ r \in Recs /\ colaLargo' = colaLargo
    BY <1>7, CampoPid DEF SignalValido, FInv, PTypeOK, colas
  <2>2. frente \in Seq(Pids) /\ frente # <<>>
    BY <1>1, <2>1
  <2>3. CASE colaEspera[r] = <<>>
    <3>1. colaCorto' = frente
      BY <1>7, <2>3 DEF SignalValido
    <3>2. QED
      BY <1>1, <2>1, <2>2, <3>1 DEF Crecen
  <2>4. CASE colaEspera[r] # <<>>
    <3>1. colaEspera[r] \in Seq(Pids)
      BY <2>1 DEF FInv, PTypeOK, RTypeOK
    <3>2. Head(colaEspera[r]) \in Pids
      BY <2>4, <3>1
    <3>3. colaCorto' = ConAlFinal(Head(colaEspera[r]), frente)
      BY <1>7, <2>4 DEF SignalValido
    <3>4. colaCorto' # <<>>
      BY <2>2, <3>2, <3>3, ConAlFinalLlena
    <3>5. QED
      BY <1>1, <2>1, <3>4 DEF Crecen
  <2>5. QED
    BY <2>3, <2>4
<1>8. CASE LiberarConEntrega(h)
  <2>1. PICK r \in Recs : /\ ColasSin(De(h))[r] # <<>>
                          /\ colaCorto' = ConAlFinal(Head(ColasSin(De(h))[r]), colaCorto)
    BY <1>8 DEF LiberarConEntrega
  <2>2. colaLargo' = colaLargo
    BY <1>8 DEF LiberarConEntrega
  <2>3. De(h) \in Pids
    BY <1>8, CampoPid DEF LiberarConEntrega, FInv, PTypeOK
  <2>4. Head(ColasSin(De(h))[r]) \in Pids
    <3>1. ColasSin(De(h)) \in [Recs -> Seq(Pids)]
      BY <2>3, ColasSinTipo DEF FInv, PTypeOK, RTypeOK
    <3>2. ColasSin(De(h))[r] \in Seq(Pids)
      BY <3>1
    <3>3. QED
      BY <2>1, <3>2
  <2>5. QED
    BY <1>1, <2>1, <2>2, <2>4, ConAlFinalLlena DEF Crecen
<1>9. CASE \/ CambiarEstado(h) \/ SemPost(h) \/ SemWait(h) \/ PushSiEXEC(h) \/ Responder(h)
           \/ HiloFuncion(h) \/ WaitConInstancia(h) \/ WaitSinInstancia(h) \/ WaitInvalido(h)
           \/ EscribirSinAbrir(h) \/ DetectarDeadlock(h) \/ SignalInvalido(h) \/ Avisar(h) \/ Salida(h) \/ LiberarSinEntrega(h)
           \/ PedirMemoria(h) \/ BajarMulti(h) \/ DespertarLargo(h) \/ BorrarProceso(h)
  <2>1. UNCHANGED colas
    BY <1>9, EscribirQuieta
    DEF CambiarEstado, SemPost, SemWait, PushSiEXEC, Responder, HiloFuncion, WaitConInstancia,
       WaitSinInstancia, DetectarDeadlock, WaitInvalido, SignalInvalido, Avisar, Salida, LiberarSinEntrega, PedirMemoria,
       BajarMulti, DespertarLargo, BorrarProceso
  <2>2. QED
    BY <2>1, CrecenQuietas DEF FInv
<1>10. QED
  BY <1>3, <1>4, <1>5, <1>6, <1>7, <1>8, <1>9 DEF Llamada

(* With the schedulers where they were, longer queues are no harm.         *)
LEMMA CrecenAlcanzan ==
  ASSUME PTypeOK, PTypeOK', Alcanzan, Crecen, UNCHANGED <<largo, corto>>
  PROVE  Alcanzan'
<1>1. Len(colaLargo) \in Nat /\ Len(colaLargo') \in Nat /\ largo.resto \in Int
  BY DEF PTypeOK, TipoColas
<1>2. QED
  BY <1>1 DEF Alcanzan, Crecen

LEMMA LargoAlcanza ==
  ASSUME FInv, PTypeOK', Alcanzan, planificador_largo
  PROVE  Alcanzan' /\ UNCHANGED rvars
<1>1. /\ colaLargo \in Seq(Pids) /\ colaCorto \in Seq(Pids) /\ Len(colaLargo) \in Nat
      /\ largo.resto \in Int
      /\ largo.pc \in {"admitir", "contar"} => largo.pid \in Pids
  BY DEF FInv, PTypeOK, TipoColas
<1>2. CASE LargoDespierta
  <2>1. largo' = [pc |-> "lote", resto |-> Len(colaLargo), pid |-> 0]
        /\ UNCHANGED <<corto, colaLargo, colaCorto, rvars>>
    BY <1>2 DEF LargoDespierta, FijoEnLargo, colas, cortoVar
  <2>2. QED
    BY <1>1, <2>1 DEF Alcanzan
<1>3. CASE LargoToma
  <2>1. largo.pc = "lote" /\ largo.resto > 0
    BY <1>3 DEF LargoToma, HayLugar
  <2>2. largo.resto <= Len(colaLargo) /\ colaLargo # <<>>
    BY <1>1, <2>1 DEF Alcanzan
  <2>3. /\ largo' = [largo EXCEPT !.pc = "admitir", !.pid = Head(colaLargo)]
        /\ colaLargo' = Tail(colaLargo)
        /\ UNCHANGED <<corto, colaCorto, rvars>>
    BY <1>3, <2>2 DEF LargoToma, FijoEnLargo, cortoVar, rvars
  <2>4. largo'.pc = "admitir" /\ largo'.resto = largo.resto
    BY <2>3 DEF FInv, PTypeOK, TipoColas
  <2>5. Len(colaLargo') = Len(colaLargo) - 1
    BY <1>1, <2>2, <2>3
  <2>6. QED
    BY <1>1, <2>2, <2>3, <2>4, <2>5 DEF Alcanzan
<1>4. CASE LargoAdmite
  <2>1. /\ largo.pc = "admitir" /\ largo' = [largo EXCEPT !.pc = "contar"]
        /\ colaCorto' = ConAlFinal(largo.pid, colaCorto)
        /\ UNCHANGED <<corto, colaLargo, rvars>>
    BY <1>4 DEF LargoAdmite, FijoEnLargo, cortoVar, rvars
  <2>2. largo'.pc = "contar" /\ largo'.resto = largo.resto
    BY <2>1 DEF FInv, PTypeOK, TipoColas
  <2>3. colaCorto' # <<>>
    BY <1>1, <2>1, ConAlFinalLlena
  <2>4. QED
    BY <2>1, <2>2, <2>3 DEF Alcanzan
<1>5. CASE LargoCuenta
  <2>1. /\ largo.pc = "contar" /\ largo' = [pc |-> "lote", resto |-> largo.resto - 1, pid |-> 0]
        /\ UNCHANGED <<corto, colaLargo, colaCorto, rvars>>
    BY <1>5 DEF LargoCuenta, FijoEnLargo, cortoVar, colas
  <2>2. QED
    BY <1>1, <2>1 DEF Alcanzan
<1>6. CASE LargoTermina
  <2>1. /\ largo' = [pc |-> "esperar", resto |-> 0, pid |-> 0]
        /\ UNCHANGED <<corto, colaLargo, colaCorto, rvars>>
    BY <1>6 DEF LargoTermina, FijoEnLargo, cortoVar, colas
  <2>2. QED
    BY <1>1, <2>1 DEF Alcanzan
<1>7. QED
  BY <1>2, <1>3, <1>4, <1>5, <1>6 DEF planificador_largo

LEMMA CortoAlcanza ==
  ASSUME FInv, PTypeOK', Alcanzan, planificador_corto
  PROVE  Alcanzan' /\ UNCHANGED rvars
<1>1. corto.pc \in {"esperar", "lugar", "marcar", "ocupar", "enviar"} /\ algoritmo = "FIFO"
  BY DEF FInv, SinDesalojo
<1>2. CASE CortoDespierta
  <2>1. /\ CortoVa(IF colaCorto = <<>> \/ detenida THEN "esperar" ELSE "lugar", 0)
        /\ UNCHANGED <<largo, colaLargo, colaCorto, rvars>>
    BY <1>1, <1>2 DEF CortoDespierta, FijoEnCorto, rvars
  <2>2. corto'.pc = "lugar" => colaCorto # <<>>
    BY <2>1 DEF CortoVa
  <2>3. QED
    BY <2>1, <2>2 DEF Alcanzan
<1>3. CASE CortoToma
  <2>1. colaCorto # <<>>
    BY <1>3 DEF CortoToma, Alcanzan
  <2>2. UNCHANGED <<largo, colaLargo, rvars>> /\ corto'.pc # "lugar"
    BY <1>3, <2>1 DEF CortoToma, CortoVa, FijoEnCorto, rvars
  <2>3. QED
    BY <2>2 DEF Alcanzan
<1>4. CASE CortoMarca \/ CortoOcupa \/ CortoEnvia
  <2>1. UNCHANGED <<largo, colaLargo, rvars>> /\ corto'.pc # "lugar"
    BY <1>4 DEF CortoMarca, CortoOcupa, CortoEnvia, CortoVa, FijoEnCorto, rvars
  <2>2. QED
    BY <2>1 DEF Alcanzan
<1>5. CASE CortoOrdena \/ CortoMira \/ CortoCompara \/ CortoDesalojado
  BY <1>1, <1>5 DEF CortoOrdena, CortoMira, CortoCompara, CortoDesalojado
<1>6. QED
  BY <1>2, <1>3, <1>4, <1>5 DEF planificador_corto

LEMMA AlcanzanInductivo == FInv /\ Alcanzan /\ [PNext]_pvars => Alcanzan'
<1> SUFFICES ASSUME FInv, Alcanzan, [PNext]_pvars PROVE Alcanzan'
  OBVIOUS
<1>1. PTypeOK /\ PTypeOK'
  BY PTipoInductivo DEF FInv
<1>2. CASE CPUPaso \/ RecibirContexto \/ MemoriaResponde \/ hilo_consola \/ UNCHANGED pvars
  <2>1. UNCHANGED <<colas, largo, corto>>
    BY <1>2, Zenon DEF CPUPaso, RecibirContexto, MemoriaResponde, hilo_consola, iniciar_proceso,
       finalizar_proceso, detener_planificacion, iniciar_planificacion, multiprogramacion,
       FijoEnConsola, kernel, pvars, cortoVar
  <2>2. QED
    BY <1>1, <2>1, CrecenQuietas, CrecenAlcanzan
<1>3. ASSUME NEW h \in Hilos, Llamada(h) PROVE Alcanzan'
  <2>1. UNCHANGED <<largo, corto>>
    BY <1>3, LlamadaFija DEF FijoEnLlamadas, cortoVar
  <2>2. QED
    BY <1>1, <1>3, <2>1, LlamadaCrece, CrecenAlcanzan
<1>4. CASE planificador_largo
  BY <1>1, <1>4, LargoAlcanza
<1>5. CASE planificador_corto
  BY <1>1, <1>5, CortoAlcanza
<1>6. ASSUME NEW p \in Pids, clock_rr(p) PROVE Alcanzan'
  <2>1. relojes[p] > 0 /\ relojes[p] = 0
    BY <1>6 DEF clock_rr, FInv, SinDesalojo
  <2>2. QED
    BY <2>1
<1>7. QED
  BY <1>2, <1>3, <1>4, <1>5, <1>6 DEF PNext

(* Who waits for a resource, or signals it, waits for none.                *)
LEMMA NoEspera ==
  ASSUME FInv, NEW h \in Hilos, Llama(h, "wait_recurso") \/ Llama(h, "signal_recurso")
  PROVE  De(h) \in Pids /\ ~Esperando(De(h))
<1> DEFINE q == De(h)
<1>1. /\ hilo[h] # <<>> /\ Head(hilo[h]).op \in {"wait_recurso", "signal_recurso"} /\ q \in Pids
  BY CampoRecurso DEF Llama, FInv, PTypeOK
<1>2. Head(hilo[h]) \in Conocidas /\ hilo[h] \in Seq(Conocidas)
  BY <1>1, CabezaConocida DEF FInv, PTypeOK, TipoHilos
<1>3. Head(hilo[h]) = hilo[h][1] /\ 1 \in 1..Len(hilo[h])
  BY <1>1, <1>2
<1>4. hilo[h][1] \in OpsDe(q)
  BY <1>1, <1>2, <1>3 DEF OpsDe, Ubica, De
<1> HIDE DEF q
<1>5. EnHilos(q) > 0
  BY <1>3, <1>4, HilosFinitos, CuentaEnNatural DEF EnHilos, FInv, PTypeOK, TipoHilos
<1>6. EnEspera(q) = 0
  BY <1>1, <1>5, Lugar DEF FInv
<1>7. \A r \in Recs : ~EnCola(q, colaEspera[r])
  <2>1. colaEspera \in [Recs -> Seq(Pids)] /\ IsFiniteSet(Recs)
    BY RecursosAssumption DEF FInv, PTypeOK, RTypeOK
  <2>2. CuentaEn(colaEspera, {q}) > 0
          <=> \E d \in Recs : \E i \in 1..Len(colaEspera[d]) : colaEspera[d][i] \in {q}
    BY <2>1, CuentaEnNatural
  <2>3. QED
    BY <1>6, <2>2 DEF EnEspera, EnCola
<1>8. QED
  BY <1>1, <1>7 DEF Esperando, Espera, q

LEMMA LlamadaRecursos ==
  ASSUME FInv, NEW h \in Hilos, Llamada(h)
  PROVE  RNext \/ UNCHANGED rvars
<1>1. CASE WaitConInstancia(h) \/ WaitSinInstancia(h)
  <2>1. De(h) \in Pids /\ ~Esperando(De(h)) /\ ~caido
    BY <1>1, NoEspera DEF WaitConInstancia, WaitSinInstancia, Llama
  <2>2. Head(hilo[h]).arg \in Recs /\ WaitRecurso(De(h), Head(hilo[h]).arg)
    BY <1>1, <2>1 DEF WaitConInstancia, WaitSinInstancia, WaitRecurso
  <2>3. QED
    BY <2>1, <2>2 DEF RNext
<1>2. CASE SignalValido(h)
  <2>1. De(h) \in Pids /\ ~Esperando(De(h)) /\ ~caido
    BY <1>2, NoEspera DEF SignalValido, Llama
  <2>2. Head(hilo[h]).arg \in Recs /\ SignalRecurso(De(h), Head(hilo[h]).arg)
    BY <1>2, <2>1 DEF SignalValido, SignalRecurso
  <2>3. QED
    BY <2>1, <2>2 DEF RNext
<1>3. CASE LiberarSinEntrega(h) \/ LiberarConEntrega(h)
  <2>1. De(h) \in Pids /\ ~caido
    BY <1>3, CampoPid DEF LiberarSinEntrega, LiberarConEntrega, Llama, FInv, PTypeOK
  <2>2. LiberarRecursos(De(h))
    BY <1>3 DEF LiberarSinEntrega, LiberarConEntrega, LiberarRecursos
  <2>3. QED
    BY <2>1, <2>2 DEF RNext
<1>4. CASE \/ CambiarEstado(h) \/ SemPost(h) \/ SemWait(h) \/ PushColaCorto(h) \/ PushSiEXEC(h)
           \/ QueuePush(h) \/ OrdenarAdelante(h) \/ Responder(h) \/ HiloFuncion(h)
           \/ WaitInvalido(h) \/ SignalInvalido(h) \/ Avisar(h) \/ Salida(h) \/ QuitarDeColas(h)
           \/ PedirMemoria(h) \/ BajarMulti(h) \/ PushColaLargo(h) \/ DespertarLargo(h)
           \/ BorrarProceso(h) \/ DetectarDeadlock(h)
  BY <1>4 DEF CambiarEstado, SemPost, SemWait, PushColaCorto, PushSiEXEC, QueuePush,
     OrdenarAdelante, Responder, HiloFuncion, DetectarDeadlock, WaitInvalido, SignalInvalido, Avisar, Salida,
     QuitarDeColas, PedirMemoria, BajarMulti, PushColaLargo, DespertarLargo, BorrarProceso
<1>5. CASE EscribirSinAbrir(h)
  <2>1. Caer /\ ~caido
    BY <1>5 DEF EscribirSinAbrir, Llama
  <2>2. QED
    BY <2>1 DEF RNext
<1>6. QED
  BY <1>1, <1>2, <1>3, <1>4, <1>5 DEF Llamada

LEMMA PasoRecursosFIFO == FInv /\ Alcanzan /\ [PNext]_pvars => [RNext]_rvars
<1> SUFFICES ASSUME FInv, Alcanzan, [PNext]_pvars PROVE RNext \/ UNCHANGED rvars
  OBVIOUS
<1>1. PTypeOK /\ PTypeOK'
  BY PTipoInductivo DEF FInv
<1>2. CASE CPUPaso \/ RecibirContexto \/ MemoriaResponde
  BY <1>2 DEF CPUPaso, RecibirContexto, MemoriaResponde
<1>3. ASSUME NEW h \in Hilos, Llamada(h) PROVE RNext \/ UNCHANGED rvars
  BY <1>3, LlamadaRecursos
<1>4. CASE planificador_largo \/ planificador_corto
  BY <1>1, <1>4, LargoAlcanza, CortoAlcanza
<1>5. ASSUME NEW p \in Pids, clock_rr(p) PROVE RNext \/ UNCHANGED rvars
  BY <1>5 DEF clock_rr
<1>6. CASE hilo_consola
  BY <1>6, Zenon DEF hilo_consola, iniciar_proceso, detener_planificacion, iniciar_planificacion,
     finalizar_proceso, multiprogramacion, FijoEnConsola
<1>7. CASE UNCHANGED pvars
  BY <1>7 DEF pvars
<1>8. QED
  BY <1>2, <1>3, <1>4, <1>5, <1>6, <1>7 DEF PNext

LEMMA AlcanzanInicial == PInit => Alcanzan
BY DEF PInit, Alcanzan

(* Under FIFO, and with nobody killed, queue_pop never answers NULL: what  *)
(* planificador_largo counted at the start of its batch is still there     *)
(* when it pops, and so is what planificador_corto saw before it released  *)
(* the mutex.                                                              *)
THEOREM FAlcanzan == SoloFIFO => (PSpec /\ []DescriptorAjeno => [](FInv /\ Alcanzan))
<1>1. CASE SoloFIFO
  BY <1>1, FInvariante, AlcanzanInicial, AlcanzanInductivo, PTL DEF PSpec
<1>2. QED
  BY <1>1

(* Under FIFO, and with nobody killed, the schedulers use the resources as *)
(* RSpec says: a process that waits for one neither waits for another nor  *)
(* signals one until it is served.                                         *)
THEOREM PRefinaFIFO == SoloFIFO => (PSpec /\ []DescriptorAjeno => RSpec)
<1>1. PInit => RInit
  BY DEF PInit
<1>2. CASE SoloFIFO
  BY <1>1, <1>2, FAlcanzan, PasoRecursosFIFO, PTL DEF PSpec, RSpec
<1>3. QED
  BY <1>2

-----------------------------------------------------------------------------
(* What the Kernel saved, or the message on its way, is where the program  *)
(* of the process really is; the cycle is one instruction ahead while it   *)
(* executes one.                                                           *)
EnViaje(p) == EnDespacho(p) + EnContexto(p) + EnCpu(p)
Guardado(p) ==
  /\ estado[p] \in {"NULO", "NEW"} => avance[p] = 0
  /\ estado[p] # "TERMINATED" /\ EnViaje(p) = 0 => pcb[p] = avance[p]
DespachoFiel ==
  \A i \in 1..Len(canalDespacho) :
    canalDespacho[i].tipo = "proceso" => canalDespacho[i].pc = avance[canalDespacho[i].pid]
ContextoFiel ==
  \A i \in 1..Len(canalContexto) : canalContexto[i].pc = avance[canalContexto[i].pid]
CicloFiel ==
  CpuOcupada => proceso.pc = avance[proceso.pid] + Uno(cicloPc = "ejecutar")
Fiel == (\A p \in Pids : Guardado(p)) /\ DespachoFiel /\ ContextoFiel /\ CicloFiel

(* A state that may follow: nobody comes back from the dead, and nobody    *)
(* that was admitted is new again.                                         *)
Prosigue(p) ==
  \/ estado'[p] = estado[p] \/ estado'[p] = "TERMINATED"
  \/ /\ estado[p] # "TERMINATED"
     /\ estado'[p] \in {"NULO", "NEW"} => estado[p] \in {"NULO", "NEW"}

LEMMA NumerosDeViaje == PTypeOK => \A p \in Pids : EnViaje(p) \in Nat
BY LugaresNaturales DEF NumerosNaturales, EnViaje

LEMMA NumerosDeViajeDespues == PTypeOK' => \A p \in Pids : EnViaje(p)' \in Nat
BY LugaresNaturalesDespues DEF NumerosNaturales, EnViaje

(* A step of the Kernel that saves nothing.                                *)
LEMMA KernelFiel ==
  ASSUME Fiel, UNCHANGED <<pcb, nucleo, canalContexto>>, DespachoFiel',
         \A p \in Pids : Prosigue(p) /\ (EnViaje(p)' = 0 => EnViaje(p) = 0)
  PROVE  Fiel'
<1>1. UNCHANGED <<proceso, ciclo, cicloPc, bloquear, interrupcion, avance>>
  BY DEF nucleo
<1>2. ASSUME NEW p \in Pids
      PROVE  Guardado(p)'
  <2>1. Guardado(p) /\ Prosigue(p) /\ (EnViaje(p)' = 0 => EnViaje(p) = 0)
    BY DEF Fiel
  <2>2. estado'[p] \in {"NULO", "NEW"} => estado[p] \in {"NULO", "NEW"}
    BY <2>1 DEF Prosigue
  <2>3. estado'[p] # "TERMINATED" => estado[p] # "TERMINATED"
    BY <2>1 DEF Prosigue
  <2>4. QED
    BY <1>1, <2>1, <2>2, <2>3 DEF Guardado
<1>3. ContextoFiel' /\ CicloFiel'
  BY <1>1 DEF Fiel, ContextoFiel, CicloFiel, CpuOcupada
<1>4. QED
  BY <1>2, <1>3 DEF Fiel

LEMMA DespachoQuieto ==
  ASSUME Fiel, UNCHANGED <<canalDespacho, nucleo>>
  PROVE  DespachoFiel'
BY DEF Fiel, DespachoFiel, nucleo

LEMMA DespachoAgrega ==
  ASSUME Fiel, PTypeOK, UNCHANGED avance, NEW m \in MensajesDespacho,
         canalDespacho' = Append(canalDespacho, m), m.tipo = "proceso" => m.pc = avance[m.pid]
  PROVE  DespachoFiel'
<1>1. canalDespacho \in Seq(MensajesDespacho)
  BY DEF PTypeOK, CPUTypeOK, TipoCanales
<1>2. /\ Len(canalDespacho') = Len(canalDespacho) + 1
      /\ \A i \in 1..Len(canalDespacho) : canalDespacho'[i] = canalDespacho[i]
      /\ canalDespacho'[Len(canalDespacho) + 1] = m
  BY <1>1, AppendProperties
<1>3. ASSUME NEW i \in 1..Len(canalDespacho'), canalDespacho'[i].tipo = "proceso"
      PROVE  canalDespacho'[i].pc = avance[canalDespacho'[i].pid]
  <2>1. i \in 1..Len(canalDespacho) \/ i = Len(canalDespacho) + 1
    BY <1>1, <1>2
  <2>2. QED
    BY <1>2, <1>3, <2>1 DEF Fiel, DespachoFiel
<1>4. QED
  BY <1>3 DEF DespachoFiel

LEMMA DespachoSaca ==
  ASSUME Fiel, PTypeOK, UNCHANGED avance, canalDespacho # <<>>, canalDespacho' = Tail(canalDespacho)
  PROVE  /\ DespachoFiel' /\ Head(canalDespacho) \in MensajesDespacho
         /\ Head(canalDespacho).tipo = "proceso" =>
              Head(canalDespacho).pc = avance[Head(canalDespacho).pid]
<1>1. canalDespacho \in Seq(MensajesDespacho)
  BY DEF PTypeOK, CPUTypeOK, TipoCanales
<1>2. /\ Len(canalDespacho) \in Nat /\ Len(canalDespacho') = Len(canalDespacho) - 1
      /\ \A i \in 1..Len(canalDespacho') : canalDespacho'[i] = canalDespacho[i + 1]
  BY <1>1, HeadTailProperties
<1>3. \A i \in 1..Len(canalDespacho') : i + 1 \in 1..Len(canalDespacho)
  BY <1>2
<1>4. Head(canalDespacho) = canalDespacho[1] /\ 1 \in 1..Len(canalDespacho)
  BY <1>1
<1>5. canalDespacho[1] \in MensajesDespacho
  BY <1>1, <1>4, ElementOfSeq
<1>6. QED
  BY <1>2, <1>3, <1>4, <1>5 DEF Fiel, DespachoFiel

(* Where a call leaves the processes.                                      *)
LEMMA MudadoProsigue ==
  ASSUME NEW p, Mudado(p)
  PROVE  Prosigue(p)
BY DEF Mudado, Prosigue, Admitida

LEMMA FijoViaje ==
  ASSUME FijoEnLlamadas, NEW p, EnDespacho(p)' = EnDespacho(p)
  PROVE  EnViaje(p)' = EnViaje(p)
BY FijoLugares DEF EnViaje

LEMMA CargaDespacho ==
  ASSUME FInv, PTypeOK', NEW h \in {"consola", "memoria"}, Llamada(h)
  PROVE  /\ FijoEnLlamadas /\ UNCHANGED canalDespacho
         /\ \A p \in Pids : estado'[p] = estado[p] \/ (estado[p] = "NEW" /\ estado'[p] = "NULO")
<1>1. hilo[h] # <<>>
  BY SoloEsa
<1>2. Head(hilo[h]).op \in {"sem_wait", "sem_post", "despertar_largo", "push_colaLargo", "borrar_proceso"}
  <2>1. CASE h = "consola"
    <3>1. Head(<<sem_wait("procesoCargado")>>).op = "sem_wait"
      BY DEF sem_wait, Op
    <3>2. QED
      BY <1>1, <2>1, <3>1 DEF FInv, HilosBien
  <2>2. CASE h = "memoria"
    BY <1>1, <2>2, ListaDeMemoria DEF Cargado, sem_post, Simple, Op
  <2>3. QED
    BY <2>1, <2>2
<1>3. CASE SemWait(h) \/ SemPost(h) \/ DespertarLargo(h) \/ PushColaLargo(h)
  BY <1>3 DEF SemWait, SemPost, DespertarLargo, PushColaLargo
<1>4. CASE BorrarProceso(h)
  <2>0. /\ FijoEnLlamadas /\ UNCHANGED canalDespacho /\ estado' = [estado EXCEPT ![De(h)] = "NULO"]
        /\ Llama(h, "borrar_proceso") /\ Head(hilo[h]).op = "borrar_proceso" /\ Avanza(h)
    BY <1>4 DEF BorrarProceso, Llama
  <2>1. PICK q \in Pids : q = De(h)
    <3>1. h \in Hilos /\ TipoHilos
      BY DEF Hilos, FInv, PTypeOK
    <3>2. De(h) \in Pids
      BY <1>1, <2>0, <3>1, CampoPid
    <3>3. QED
      BY <3>2
  <2>2. estado' = [estado EXCEPT ![q] = "NULO"] /\ h \in Hilos /\ estado \in [Pids -> Estados]
    BY <2>0, <2>1 DEF Hilos, FInv, PTypeOK, TipoTabla
  <2>3. Trata(h, q) = 1
    BY <2>0, <2>1 DEF Trata, Uno, Carga
  <2>4. CargaHilos(q)' + Trata(h, q) = CargaHilos(q)
    BY <1>1, <2>0, <2>2, AvanzaLugares DEF FInv
  <2>5. /\ CargaHilos(q) \in Nat /\ EnLargo(q) \in Nat /\ EnMemoria(q) \in Nat
        /\ EnAdmision(q) \in Nat /\ CargaHilos(q)' \in Nat
    BY LugaresNaturales, LugaresNaturalesDespues DEF NumerosNaturales, FInv
  <2>6. LugaresDeCarga(q) > 0
    BY <2>3, <2>4, <2>5 DEF LugaresDeCarga
  <2>7. LugaresDeCarga(q) = Nuevo(q)
    BY DEF FInv, LugaresContados
  <2>8. estado[q] = "NEW"
    BY <2>6, <2>7 DEF Nuevo, Uno
  <2>9. QED
    BY <2>0, <2>2, <2>8
<1>5. QED
  BY <1>2, <1>3, <1>4, SoloEsa

LEMMA LlamadaFiel ==
  ASSUME FInv, PTypeOK', Fiel, NEW h \in Hilos, Llamada(h)
  PROVE  Fiel'
<1>0. CASE EscribirSinAbrir(h)
  <2>1. FijoEnLlamadas /\ UNCHANGED <<estado, canalDespacho>>
    BY <1>0, EscribirQuieta
  <2>2. UNCHANGED <<pcb, nucleo, canalContexto>> /\ \A p \in Pids : EnDespacho(p)' = EnDespacho(p)
    BY <2>1 DEF FijoEnLlamadas, EnDespacho
  <2>3. \A p \in Pids : Prosigue(p) /\ EnViaje(p)' = EnViaje(p)
    BY <2>1, <2>2, FijoViaje DEF Prosigue
  <2>4. QED
    BY <2>1, <2>2, <2>3, DespachoQuieto, KernelFiel
<1>1. CASE h \in Corrientes /\ ~EscribirSinAbrir(h)
  <2>1. Discreta(h) /\ Marcha(h)
    BY <1>1, LlamadaDiscreta, LlamadaMarcha
  <2>2. FijoEnLlamadas /\ UNCHANGED <<pcb, nucleo, canalContexto>>
    BY <2>1 DEF Discreta, FijoEnLlamadas
  <2>3. \A p \in Pids : Prosigue(p) /\ EnViaje(p)' = EnViaje(p)
    BY <2>1, <2>2, MudadoProsigue, FijoViaje DEF Marcha, Tras
  <2>4. DespachoFiel'
    <3>1. CASE canalDespacho' = canalDespacho
      BY <2>2, <3>1, DespachoQuieto
    <3>2. CASE canalDespacho' = Append(canalDespacho, [tipo |-> "respuesta", pid |-> 0, pc |-> 0])
      <4> DEFINE m == [tipo |-> "respuesta", pid |-> 0, pc |-> 0]
      <4>1. m \in MensajesDespacho /\ m.tipo # "proceso" /\ UNCHANGED avance
        BY <2>2 DEF MensajesDespacho, nucleo
      <4>2. QED
        BY <3>2, <4>1, DespachoAgrega DEF FInv
    <3>3. QED
      BY <2>1, <3>1, <3>2 DEF Discreta
  <2>5. QED
    BY <2>2, <2>3, <2>4, KernelFiel
<1>2. CASE h \in {"consola", "memoria"}
  <2>1. /\ FijoEnLlamadas /\ UNCHANGED canalDespacho
        /\ \A p \in Pids : estado'[p] = estado[p] \/ (estado[p] = "NEW" /\ estado'[p] = "NULO")
    BY <1>2, CargaDespacho
  <2>2. UNCHANGED <<pcb, nucleo, canalContexto>> /\ \A p \in Pids : EnDespacho(p)' = EnDespacho(p)
    BY <2>1 DEF FijoEnLlamadas, EnDespacho
  <2>3. \A p \in Pids : Prosigue(p) /\ EnViaje(p)' = EnViaje(p)
    BY <2>1, <2>2, MudadoProsigue, FijoViaje DEF Mudado
  <2>4. QED
    BY <2>1, <2>2, <2>3, DespachoQuieto, KernelFiel
<1>3. QED
  BY <1>0, <1>1, <1>2 DEF Corrientes

(* The schedulers and the console.                                         *)
LEMMA SinViaje ==
  ASSUME UNCHANGED <<canales, nucleo>>, NEW p
  PROVE  EnViaje(p)' = EnViaje(p)
BY DEF canales, nucleo, EnViaje, EnDespacho, EnContexto, EnCpu, CpuOcupada, MensajesDespacho, Contextos

LEMMA LargoFiel ==
  ASSUME FInv, PTypeOK', Fiel, planificador_largo
  PROVE  Fiel'
<1>1. UNCHANGED <<pcb, cpuVars>>
  BY DEF planificador_largo, LargoDespierta, LargoToma, LargoAdmite, LargoCuenta, LargoTermina,
         FijoEnLargo
<1>2. UNCHANGED <<canales, nucleo, canalDespacho, canalContexto>>
  BY <1>1 DEF cpuVars, canales
<1>3. ASSUME NEW p \in Pids
      PROVE  Prosigue(p)
  <2>1. CASE LargoAdmite
    <3>1. PICK q \in Pids : q = largo.pid
      BY <2>1 DEF LargoAdmite, FInv, PTypeOK, TipoColas
    <3>2. EnAdmision(q) = 1
      BY <2>1, <3>1 DEF LargoAdmite, EnAdmision, Uno
    <3>3. estado[q] = "NEW"
      BY <3>2, UnicoLugar
    <3>4. estado' = [estado EXCEPT ![q] = "READY"] /\ estado \in [Pids -> Estados]
      BY <2>1, <3>1 DEF LargoAdmite, FInv, PTypeOK, TipoTabla
    <3>5. QED
      BY <3>3, <3>4 DEF Prosigue
  <2>2. CASE LargoDespierta \/ LargoToma \/ LargoCuenta \/ LargoTermina
    BY <2>2 DEF LargoDespierta, LargoToma, LargoCuenta, LargoTermina, Prosigue
  <2>3. QED
    BY <2>1, <2>2 DEF planificador_largo
<1>4. \A p \in Pids : EnViaje(p)' = EnViaje(p)
  BY <1>2, SinViaje
<1>5. QED
  BY <1>1, <1>2, <1>3, <1>4, DespachoQuieto, KernelFiel

LEMMA ConsolaFiel ==
  ASSUME FInv, PTypeOK', Fiel, MemoriaResponde \/ hilo_consola
  PROVE  Fiel'
<1>1. UNCHANGED cpuVars
  BY Zenon DEF MemoriaResponde, hilo_consola, iniciar_proceso, detener_planificacion,
     iniciar_planificacion, finalizar_proceso, multiprogramacion, FijoEnConsola
<1>2. UNCHANGED <<canales, nucleo, canalDespacho, canalContexto, avance>>
  BY <1>1 DEF cpuVars, canales, nucleo
<1>3. \A p \in Pids : EnViaje(p)' = EnViaje(p)
  BY <1>2, SinViaje
<1>4. CASE iniciar_proceso
  <2>1. PICK q \in Pids : q = creados + 1
    BY <1>4 DEF iniciar_proceso
  <2>2. /\ estado' = [estado EXCEPT ![q] = "NEW"] /\ pcb' = [pcb EXCEPT ![q] = 0]
        /\ estado \in [Pids -> Estados] /\ pcb \in [Pids -> Int]
    BY <1>4, <2>1 DEF iniciar_proceso, FInv, PTypeOK, TipoTabla
  <2>3. estado[q] = "NULO"
    <3>1. creados \in Nat /\ q > creados
      BY <2>1 DEF FInv, CargaEnOrden
    <3>2. QED
      BY <3>1 DEF FInv, CargaEnOrden
  <2>4. avance[q] = 0
    BY <2>3 DEF Fiel, Guardado
  <2>5. ASSUME NEW p \in Pids
        PROVE  Guardado(p)'
    <3>1. CASE p = q
      BY <1>2, <2>2, <2>4, <3>1 DEF Guardado
    <3>2. CASE p # q
      <4>1. estado'[p] = estado[p] /\ pcb'[p] = pcb[p] /\ EnViaje(p)' = EnViaje(p)
        BY <1>3, <2>2, <3>2
      <4>2. QED
        BY <1>2, <4>1 DEF Guardado, Fiel
    <3>3. QED
      BY <3>1, <3>2
  <2>6. DespachoFiel' /\ ContextoFiel' /\ CicloFiel'
    BY <1>2 DEF nucleo, Fiel, DespachoFiel, ContextoFiel, CicloFiel, CpuOcupada
  <2>7. QED
    BY <2>5, <2>6 DEF Fiel
<1>5. CASE UNCHANGED tabla
  <2>1. UNCHANGED pcb /\ \A p \in Pids : Prosigue(p)
    BY <1>5 DEF tabla, Prosigue
  <2>2. QED
    BY <1>2, <1>3, <2>1, DespachoQuieto, KernelFiel
<1>6. iniciar_proceso \/ UNCHANGED tabla
  BY Zenon DEF MemoriaResponde, hilo_consola, detener_planificacion,
     iniciar_planificacion, finalizar_proceso, multiprogramacion, FijoEnConsola
<1>7. QED
  BY <1>4, <1>5, <1>6

LEMMA CortoFiel ==
  ASSUME FInv, PTypeOK', FInv', Fiel, planificador_corto
  PROVE  Fiel'
<1>1. UNCHANGED <<pcb, nucleo, canalContexto>>
  BY DEF planificador_corto, CortoDespierta, CortoOrdena, CortoMira, CortoCompara, CortoDesalojado,
         CortoToma, CortoMarca, CortoOcupa, CortoEnvia, FijoEnCorto
<1>2. ASSUME NEW p \in Pids
      PROVE  Prosigue(p)
  <2>1. CASE CortoMarca
    <3>1. PICK q \in Pids : q = corto.pid
      BY <2>1 DEF CortoMarca, FInv, PTypeOK, TipoColas
    <3>2. EnCamino(q) = 1
      BY <3>1 DEF EnCamino, Uno
    <3>3. estado[q] \in Admitida
      BY <3>2, UnicoLugar
    <3>4. estado' = [estado EXCEPT ![q] = "EXEC"] /\ estado \in [Pids -> Estados]
      BY <2>1, <3>1 DEF CortoMarca, FInv, PTypeOK, TipoTabla
    <3>5. QED
      BY <3>3, <3>4 DEF Prosigue, Admitida
  <2>2. CASE ~CortoMarca
    BY <2>2 DEF planificador_corto, CortoDespierta, CortoOrdena, CortoMira, CortoCompara, CortoDesalojado,
         CortoToma, CortoOcupa, CortoEnvia, Prosigue
  <2>3. QED
    BY <2>1, <2>2
<1>3. CASE CortoEnvia
  <2>1. PICK q \in Pids : q = corto.pid
    BY <1>3 DEF CortoEnvia, FInv, PTypeOK, TipoColas
  <2>2. canalDespacho' = Append(canalDespacho, [tipo |-> "proceso", pid |-> q, pc |-> pcb[q]])
        /\ pcb[q] \in Int
    BY <1>3, <2>1 DEF CortoEnvia, FInv, PTypeOK, TipoTabla
  <2>3. \A p \in Pids : EnDespacho(p)' = EnDespacho(p) + Vale(q, {p})
    BY <2>2, ProcesoAgregado DEF FInv
  <2>4. pcb[q] = avance[q]
    <3>1. EnCamino(q) = 1
      BY <2>1 DEF EnCamino, Uno
    <3>2. estado[q] \in Admitida
      BY <3>1, UnicoLugar
    <3>3. Lugares(q) = 1
      BY <3>2 DEF FInv, LugaresContados, Vivo, Uno
    <3>4. /\ EnHilos(q) \in Nat /\ EnCorto(q) \in Nat /\ EnEspera(q) \in Nat
          /\ EnDespacho(q) \in Nat /\ EnContexto(q) \in Nat /\ EnCpu(q) \in Nat
      BY LugaresNaturales DEF NumerosNaturales, FInv
    <3>5. EnViaje(q) = 0
      <4>1. EnDespacho(q) = 0 /\ EnContexto(q) = 0 /\ EnCpu(q) = 0
        <5> DEFINE a == EnHilos(q)
                   b == EnCorto(q)
                   c == EnEspera(q)
                   d == EnDespacho(q)
                   e == EnContexto(q)
                   g == EnCpu(q)
        <5>1. a + b + c + d + e + 1 + g = 1
          BY <3>1, <3>3 DEF Lugares
        <5>2. a \in Nat /\ b \in Nat /\ c \in Nat /\ d \in Nat /\ e \in Nat /\ g \in Nat
          BY <3>4
        <5>3. SUFFICES d = 0 /\ e = 0 /\ g = 0
          OBVIOUS
        <5> HIDE DEF a, b, c, d, e, g
        <5>4. QED
          BY <5>1, <5>2
      <4>2. QED
        BY <4>1 DEF EnViaje
    <3>6. QED
      BY <3>2, <3>5 DEF Fiel, Guardado, Admitida
  <2>5. DespachoFiel'
    <3> DEFINE m == [tipo |-> "proceso", pid |-> q, pc |-> pcb[q]]
    <3>1. m \in MensajesDespacho /\ m.pc = avance[m.pid] /\ UNCHANGED avance
      BY <1>1, <2>2, <2>4 DEF MensajesDespacho, nucleo
    <3>2. QED
      BY <2>2, <3>1, DespachoAgrega DEF FInv
  <2>6. ASSUME NEW p \in Pids, EnViaje(p)' = 0
        PROVE  EnViaje(p) = 0
    <3>1. EnContexto(p)' = EnContexto(p) /\ EnCpu(p)' = EnCpu(p)
      BY <1>1 DEF nucleo, EnContexto, EnCpu, CpuOcupada, Contextos
    <3>2. /\ EnDespacho(p) \in Nat /\ EnContexto(p) \in Nat /\ EnCpu(p) \in Nat
          /\ Vale(q, {p}) \in Nat
      BY LugaresNaturales DEF NumerosNaturales, FInv, Vale
    <3>3. EnDespacho(p)' = EnDespacho(p) + Vale(q, {p})
      BY <2>3
    <3>4. EnDespacho(p) + Vale(q, {p}) + EnContexto(p) + EnCpu(p) = 0
      BY <2>6, <3>1, <3>3 DEF EnViaje
    <3> DEFINE a == EnDespacho(p)
               b == EnContexto(p)
               c == EnCpu(p)
               d == Vale(q, {p})
    <3>5. EnViaje(p) = a + b + c /\ a + d + b + c = 0
      BY <3>4 DEF EnViaje
    <3>6. a \in Nat /\ b \in Nat /\ c \in Nat /\ d \in Nat
      BY <3>2
    <3> HIDE DEF a, b, c, d
    <3>7. a = 0 /\ b = 0 /\ c = 0
      BY <3>5, <3>6
    <3>8. QED
      BY <3>5, <3>7
  <2>7. QED
    BY <1>1, <1>2, <2>5, <2>6, KernelFiel
<1>4. CASE ~CortoEnvia
  <2>1. canalDespacho' = canalDespacho
    BY <1>4 DEF planificador_corto, CortoDespierta, CortoOrdena, CortoMira, CortoCompara,
         CortoDesalojado, CortoToma, CortoMarca, CortoOcupa
  <2>2. \A p \in Pids : EnViaje(p)' = EnViaje(p)
    BY <1>1, <2>1 DEF nucleo, EnViaje, EnDespacho, EnContexto, EnCpu, CpuOcupada, Contextos,
       MensajesDespacho
  <2>3. QED
    BY <1>1, <1>2, <2>1, <2>2, DespachoQuieto, KernelFiel
<1>5. QED
  BY <1>3, <1>4

(* The context the Kernel receives says where the process is.              *)
LEMMA ContextoFielRecibido ==
  ASSUME FInv, PTypeOK', Fiel, RecibirContexto
  PROVE  Fiel'
<1>1. PICK m : m = Head(canalContexto)
  OBVIOUS
<1>2. /\ canalContexto # <<>> /\ canalContexto' = Tail(canalContexto)
      /\ UNCHANGED <<estado, canalDespacho, nucleo>>
  BY DEF RecibirContexto
<1>3. /\ m.pid \in Pids /\ estado[m.pid] \in Admitida
  BY <1>1, ContextoRecibido
<1>4. pcb' = [pcb EXCEPT ![m.pid] = m.pc] /\ pcb \in [Pids -> Int]
  BY <1>1, <1>3 DEF RecibirContexto, Admitida, FInv, PTypeOK, TipoTabla
<1>5. \A p \in Pids : EnContexto(p)' + Vale(m.pid, {p}) = EnContexto(p)
  BY <1>1, <1>2, ContextoResto
<1>6. canalContexto \in Seq(Contextos)
  BY DEF FInv, PTypeOK, CPUTypeOK, TipoCanales, Contextos
<1>7. /\ m = canalContexto[1] /\ 1 \in 1..Len(canalContexto)
      /\ Len(canalContexto') = Len(canalContexto) - 1
      /\ \A i \in 1..Len(canalContexto') : canalContexto'[i] = canalContexto[i + 1]
                                           /\ i + 1 \in 1..Len(canalContexto)
  <2>1. m = canalContexto[1] /\ 1 \in 1..Len(canalContexto) /\ Len(canalContexto) \in Nat
    BY <1>1, <1>2, <1>6
  <2>2. /\ Len(canalContexto') = Len(canalContexto) - 1
        /\ \A i \in 1..Len(canalContexto') : canalContexto'[i] = canalContexto[i + 1]
    BY <1>2, <1>6, HeadTailProperties
  <2>3. \A i \in 1..Len(canalContexto') : i + 1 \in 1..Len(canalContexto)
    BY <2>1, <2>2
  <2>4. QED
    BY <2>1, <2>2, <2>3
<1>8. m.pc = avance[m.pid]
  BY <1>7 DEF Fiel, ContextoFiel
<1>9. UNCHANGED <<proceso, ciclo, cicloPc, bloquear, interrupcion, avance>>
  BY <1>2 DEF nucleo
<1>10. ContextoFiel'
  BY <1>7, <1>9 DEF Fiel, ContextoFiel
<1>11. DespachoFiel' /\ CicloFiel'
  BY <1>2, <1>9 DEF Fiel, DespachoFiel, CicloFiel, CpuOcupada
<1>12. ASSUME NEW p \in Pids
       PROVE  Guardado(p)'
  <2>1. CASE p = m.pid
    <3>1. pcb'[p] = avance'[p]
      BY <1>4, <1>8, <1>9, <2>1
    <3>2. estado'[p] \in Admitida
      BY <1>2, <1>3, <2>1
    <3>3. QED
      BY <3>1, <3>2 DEF Guardado, Admitida
  <2>2. CASE p # m.pid
    <3>1. pcb'[p] = pcb[p] /\ Vale(m.pid, {p}) = 0
      BY <1>4, <2>2 DEF Vale
    <3>2. EnContexto(p)' \in Nat
      BY LugaresNaturalesDespues DEF NumerosNaturales
    <3>3. EnContexto(p)' = EnContexto(p)
      BY <1>5, <3>1, <3>2
    <3>4. EnDespacho(p)' = EnDespacho(p) /\ EnCpu(p)' = EnCpu(p)
      BY <1>2, <1>9 DEF EnDespacho, EnCpu, CpuOcupada, MensajesDespacho
    <3>5. QED
      BY <1>2, <1>9, <3>1, <3>3, <3>4 DEF Fiel, Guardado, EnViaje
  <2>3. QED
    BY <2>1, <2>2
<1>13. QED
  BY <1>10, <1>11, <1>12 DEF Fiel

-----------------------------------------------------------------------------
(* The CPU.                                                                *)
LEMMA ViajeQuieto ==
  ASSUME FInv, FInv', UNCHANGED <<kernel, rvars>>
  PROVE  \A p \in Pids : EnViaje(p)' = EnViaje(p)
<1>1. UNCHANGED <<estado, colaCorto, hilo, corto, colaEspera>>
  BY DEF kernel, tabla, colas, cortoVar, rvars
<1>2. ASSUME NEW p \in Pids
      PROVE  EnViaje(p)' = EnViaje(p)
  <2>1. /\ EnHilos(p)' = EnHilos(p) /\ EnCorto(p)' = EnCorto(p) /\ EnEspera(p)' = EnEspera(p)
        /\ EnCamino(p)' = EnCamino(p) /\ Vivo(p)' = Vivo(p)
    BY <1>1 DEF EnHilos, EnCorto, EnEspera, EnCamino, Vivo, OpsDe
  <2>2. Lugares(p)' = Lugares(p)
    BY <2>1 DEF FInv, LugaresContados
  <2>3. /\ EnHilos(p) \in Nat /\ EnCorto(p) \in Nat /\ EnEspera(p) \in Nat /\ EnCamino(p) \in Nat
        /\ EnDespacho(p) \in Nat /\ EnContexto(p) \in Nat /\ EnCpu(p) \in Nat
        /\ EnDespacho(p)' \in Nat /\ EnContexto(p)' \in Nat /\ EnCpu(p)' \in Nat
    BY LugaresNaturales, LugaresNaturalesDespues DEF NumerosNaturales, FInv
  <2>4. EnHilos(p) + EnCorto(p) + EnEspera(p) + EnDespacho(p)' + EnContexto(p)' + EnCamino(p) + EnCpu(p)'
        = EnHilos(p) + EnCorto(p) + EnEspera(p) + EnDespacho(p) + EnContexto(p) + EnCamino(p) + EnCpu(p)
    BY <2>1, <2>2 DEF Lugares
  <2>5. EnDespacho(p)' + EnContexto(p)' + EnCpu(p)' = EnDespacho(p) + EnContexto(p) + EnCpu(p)
    <3> DEFINE a == EnDespacho(p)'
               b == EnContexto(p)'
               c == EnCpu(p)'
    <3>1. a \in Nat /\ b \in Nat /\ c \in Nat
      BY <2>3
    <3>2. EnHilos(p) + EnCorto(p) + EnEspera(p) + a + b + EnCamino(p) + c
        = EnHilos(p) + EnCorto(p) + EnEspera(p) + EnDespacho(p) + EnContexto(p) + EnCamino(p) + EnCpu(p)
      BY <2>4
    <3>3. SUFFICES a + b + c = EnDespacho(p) + EnContexto(p) + EnCpu(p)
      OBVIOUS
    <3> HIDE DEF a, b, c
    <3>4. QED
      BY <2>3, <3>1, <3>2
  <2>6. QED
    BY <2>5 DEF EnViaje
<1>3. QED
  BY <1>2

(* With the CPU at work no process is on its way to it or back.            *)
LEMMA CpuSola ==
  ASSUME FInv, Ocupacion > 0
  PROVE  /\ CpuOcupada /\ Ocupacion = 1 /\ canalContexto = <<>>
         /\ \A i \in 1..Len(canalDespacho) : canalDespacho[i].tipo # "proceso"
<1>1. /\ Cuenta(canalDespacho, Procesos) \in Nat /\ Ocupacion \in Nat /\ Len(canalContexto) \in Nat
      /\ Cuenta(canalDespacho, Procesos) + Ocupacion + Len(canalContexto) \in {0, 1} /\ ~interrupcion
  BY UnoEnLaCpu
<1>2. Ocupacion = 1 /\ Cuenta(canalDespacho, Procesos) = 0 /\ Len(canalContexto) = 0
  BY <1>1
<1>3. canalContexto \in Seq(Contextos) /\ canalDespacho \in Seq(MensajesDespacho)
  BY DEF FInv, PTypeOK, CPUTypeOK, TipoCanales, Contextos
<1>4. \A i \in 1..Len(canalDespacho) : canalDespacho[i] \notin Procesos
  <2>1. Cuenta(canalDespacho, Procesos) > 0
          <=> \E i \in 1..Len(canalDespacho) : canalDespacho[i] \in Procesos
    BY <1>3, CuentaNatural
  <2>2. QED
    BY <1>2, <2>1
<1>5. \A i \in 1..Len(canalDespacho) : canalDespacho[i].tipo # "proceso"
  BY <1>3, <1>4, ElementOfSeq DEF Procesos
<1>6. CpuOcupada
  BY <1>1, OcupadaEs DEF Ocupada, FInv
<1>7. QED
  BY <1>2, <1>3, <1>5, <1>6

(* A step of the CPU that executes nothing of a program.                   *)
LEMMA QuietaFiel ==
  ASSUME FInv, FInv', Fiel, UNCHANGED <<kernel, rvars>>, UNCHANGED avance,
         DespachoFiel', ContextoFiel', CicloFiel'
  PROVE  Fiel'
<1>1. UNCHANGED <<estado, pcb>> /\ \A p \in Pids : EnViaje(p)' = EnViaje(p)
  BY ViajeQuieto DEF kernel, tabla
<1>2. QED
  BY <1>1 DEF Fiel, Guardado

(* A step that executes an instruction: the program moves on, and only     *)
(* that of the process the CPU has.                                        *)
LEMMA EjecutaFiel ==
  ASSUME FInv, FInv', Fiel, UNCHANGED <<kernel, rvars>>, NEW n \in Int, Ejecutado(n),
         cicloPc = "ejecutar", UNCHANGED canalDespacho,
         \A i \in 1..Len(canalContexto') :
           canalContexto'[i].pc = n /\ canalContexto'[i].pid = proceso.pid,
         CpuOcupada' => proceso'.pc = n /\ proceso'.pid = proceso.pid /\ cicloPc' # "ejecutar"
  PROVE  Fiel'
<1>1. UNCHANGED <<estado, pcb>> /\ \A p \in Pids : EnViaje(p)' = EnViaje(p)
  BY ViajeQuieto DEF kernel, tabla
<1>2. ciclo \in Nat /\ avance \in [Pids -> Int]
  BY DEF FInv, PTypeOK, CPUTypeOK, TipoNucleo
<1>3. PICK q \in Pids : q = proceso.pid
  BY DEF FInv, PTypeOK, CPUTypeOK, TieneProceso
<1>4. avance' = [avance EXCEPT ![q] = n]
  BY <1>3 DEF Ejecutado
<1>5. Ocupacion > 0
  BY <1>2 DEF Ocupacion, Uno
<1>6. CpuOcupada /\ \A i \in 1..Len(canalDespacho) : canalDespacho[i].tipo # "proceso"
  BY <1>5, CpuSola
<1>7. DespachoFiel'
  BY <1>6 DEF DespachoFiel
<1>8. avance'[q] = n
  BY <1>2, <1>4
<1>9. ContextoFiel'
  BY <1>3, <1>8 DEF ContextoFiel
<1>10. CicloFiel'
  BY <1>3, <1>8 DEF CicloFiel, Uno
<1>11. ASSUME NEW p \in Pids
       PROVE  Guardado(p)'
  <2>1. CASE p # q
    <3>1. avance'[p] = avance[p]
      BY <1>2, <1>4, <2>1
    <3>2. QED
      BY <1>1, <3>1 DEF Fiel, Guardado
  <2>2. CASE p = q
    <3>1. EnCpu(p) = 1
      BY <1>3, <1>6, <2>2 DEF EnCpu, Uno
    <3>2. /\ EnHilos(p) \in Nat /\ EnCorto(p) \in Nat /\ EnEspera(p) \in Nat /\ EnCamino(p) \in Nat
          /\ EnDespacho(p) \in Nat /\ EnContexto(p) \in Nat
      BY LugaresNaturales DEF NumerosNaturales, FInv
    <3>3. EnViaje(p) > 0 /\ Lugares(p) > 0
      BY <3>1, <3>2 DEF EnViaje, Lugares
    <3>4. Vivo(p) > 0
      BY <3>3 DEF FInv, LugaresContados
    <3>5. estado[p] \in Admitida
      BY <3>4 DEF Vivo, Uno
    <3>6. QED
      BY <1>1, <3>3, <3>5 DEF Guardado, Admitida
  <2>3. QED
    BY <2>1, <2>2
<1>12. QED
  BY <1>7, <1>9, <1>10, <1>11 DEF Fiel

LEMMA CpuFiel ==
  ASSUME FInv, FInv', Fiel, CPUPaso
  PROVE  Fiel'
<1>1. UNCHANGED <<kernel, rvars>> /\ CPUNext
  BY DEF CPUPaso
<1>2. /\ ciclo \in Nat /\ proceso \in [pid : Pids \cup {0}, pc : Int] /\ avance \in [Pids -> Int]
      /\ instruccion.op = "JNZ" => instruccion.arg \in Nat
      /\ cicloPc # "ciclo" => proceso.pid \in Pids
  BY DEF FInv, PTypeOK, CPUTypeOK, TipoNucleo, TieneProceso
<1>3. ~interrupcion /\ ~avisar /\ ~interrupcion'
  BY DEF FInv, SinDesalojo
<1>4. cicloPc = "ejecutar" => canalContexto = <<>> /\ ciclo = 0
  <2>1. cicloPc = "ejecutar" => Ocupacion = ciclo + 1
    BY DEF Ocupacion, Uno
  <2>2. QED
    BY <1>2, <2>1, CpuSola
<1>5. CASE Calcular \/ Saltar
  <2>1. PICK n \in Int : /\ Ejecutado(n) /\ proceso'.pc = n /\ proceso'.pid = proceso.pid
                         /\ cicloPc' = "controlar" /\ cicloPc = "ejecutar"
                         /\ UNCHANGED <<canalDespacho, canalContexto>>
    <3>1. CASE Calcular
      BY <1>2, <3>1 DEF Calcular, canales
    <3>2. CASE Saltar
      <4>1. instruccion.arg \in Int
        BY <1>2, <3>2 DEF Saltar
      <4>2. QED
        BY <1>2, <3>2, <4>1 DEF Saltar, canales
    <3>3. QED
      BY <1>5, <3>1, <3>2
  <2>2. Len(canalContexto') = 0
    BY <1>4, <2>1
  <2>3. QED
    BY <1>1, <2>1, <2>2, EjecutaFiel
<1>6. CASE PedirKernel
  <2>1. PICK n \in Int : n = proceso.pc
    BY <1>2
  <2>2. PICK x : x = Contexto(MotivoDe[instruccion.op], proceso.pc, instruccion.arg)
    OBVIOUS
  <2>3. /\ Ejecutado(n) /\ cicloPc = "ejecutar" /\ UNCHANGED canalDespacho
        /\ canalContexto' = Append(canalContexto, x) /\ x.pc = n /\ x.pid = proceso.pid
    BY <1>6, <2>1, <2>2 DEF PedirKernel, Contexto
  <2>4. canalContexto' = <<x>>
    BY <1>4, <2>3
  <2>5. \A i \in 1..Len(canalContexto') :
          canalContexto'[i].pc = n /\ canalContexto'[i].pid = proceso.pid
    BY <2>3, <2>4
  <2>6. ~CpuOcupada'
    BY <1>3, <1>4, <1>6 DEF PedirKernel, CpuOcupada
  <2>7. QED
    BY <1>1, <2>3, <2>5, <2>6, EjecutaFiel
<1>7. CASE FallarPagina
  <2>1. PICK x : x = Contexto("page_fault", proceso.pc - 1, instruccion.arg)
    OBVIOUS
  <2>2. /\ cicloPc = "ejecutar" /\ UNCHANGED <<canalDespacho, avance>>
        /\ canalContexto' = Append(canalContexto, x) /\ x.pc = proceso.pc - 1 /\ x.pid = proceso.pid
    BY <1>7, <2>1 DEF FallarPagina, Contexto
  <2>3. canalContexto' = <<x>>
    BY <1>4, <2>2
  <2>4. proceso.pc = avance[proceso.pid] + 1
    BY <2>2 DEF Fiel, CicloFiel, CpuOcupada, Uno
  <2>5. x.pc = avance[x.pid]
    BY <1>2, <2>2, <2>4
  <2>6. ContextoFiel'
    BY <2>2, <2>3, <2>5 DEF ContextoFiel
  <2>7. ~CpuOcupada'
    BY <1>3, <1>4, <1>7 DEF FallarPagina, CpuOcupada
  <2>8. DespachoFiel' /\ CicloFiel'
    BY <2>2, <2>7 DEF Fiel, DespachoFiel, CicloFiel
  <2>9. QED
    BY <1>1, <2>2, <2>6, <2>8, QuietaFiel
<1>8. CASE Buscar
  <2>1. /\ CpuOcupada /\ proceso.pc = avance[proceso.pid] /\ proceso.pid \in Pids
        /\ proceso' = [proceso EXCEPT !.pc = @ + 1] /\ cicloPc' = "ejecutar"
        /\ UNCHANGED <<canalDespacho, canalContexto, avance>>
    <3>1. CpuOcupada /\ cicloPc # "ejecutar" /\ proceso.pid \in Pids
      BY <1>8 DEF Buscar, CpuOcupada
    <3>2. proceso.pc = avance[proceso.pid] + 0
      BY <3>1 DEF Fiel, CicloFiel, Uno
    <3>3. QED
      BY <1>2, <1>8, <3>1, <3>2 DEF Buscar, canales
  <2>2. CicloFiel'
    BY <1>2, <2>1 DEF CicloFiel, Uno
  <2>3. DespachoFiel' /\ ContextoFiel'
    BY <2>1 DEF Fiel, DespachoFiel, ContextoFiel
  <2>4. QED
    BY <1>1, <2>1, <2>2, <2>3, QuietaFiel
<1>9. CASE \/ Continuar \/ EsperarRespuesta \/ AtenderInterrupcion \/ RecibirInterrupcion
           \/ CompararPid \/ MarcarInterrupcion
  <2>1. UNCHANGED <<canalDespacho, canalContexto, avance, proceso>>
    BY <1>3, <1>9 DEF Continuar, EsperarRespuesta, AtenderInterrupcion, RecibirInterrupcion,
       CompararPid, MarcarInterrupcion, canales
  <2>2. CpuOcupada' => CpuOcupada
    BY <1>3, <1>9 DEF Continuar, EsperarRespuesta, AtenderInterrupcion, RecibirInterrupcion,
       CompararPid, MarcarInterrupcion, CpuOcupada
  <2>3. cicloPc' = "ejecutar" <=> cicloPc = "ejecutar"
    BY <1>9 DEF Continuar, EsperarRespuesta, AtenderInterrupcion, RecibirInterrupcion,
       CompararPid, MarcarInterrupcion
  <2>4. DespachoFiel' /\ ContextoFiel' /\ CicloFiel'
    BY <2>1, <2>2, <2>3 DEF Fiel, DespachoFiel, ContextoFiel, CicloFiel, Uno
  <2>5. QED
    BY <1>1, <2>1, <2>4, QuietaFiel
<1>10. CASE RecibirProceso \/ RecibirRespuesta
  <2>1. /\ canalDespacho # <<>> /\ canalDespacho' = Tail(canalDespacho)
        /\ UNCHANGED <<canalContexto, avance, cicloPc>>
    BY <1>10 DEF RecibirProceso, RecibirRespuesta
  <2>2. /\ DespachoFiel' /\ Head(canalDespacho) \in MensajesDespacho
        /\ Head(canalDespacho).tipo = "proceso" =>
             Head(canalDespacho).pc = avance[Head(canalDespacho).pid]
    BY <2>1, DespachoSaca DEF FInv
  <2>3. ContextoFiel'
    BY <2>1 DEF Fiel, ContextoFiel
  <2>4. CicloFiel'
    <3>1. CASE RecibirRespuesta
      BY <3>1 DEF RecibirRespuesta, Fiel, CicloFiel, CpuOcupada
    <3>2. CASE RecibirProceso
      <4>1. /\ proceso'.pc = Head(canalDespacho).pc /\ proceso'.pid = Head(canalDespacho).pid
            /\ Head(canalDespacho).tipo = "proceso" /\ ciclo' = ciclo + 1
        BY <3>2 DEF RecibirProceso
      <4>2. proceso'.pc = avance'[proceso'.pid] /\ proceso'.pc \in Int
        BY <2>1, <2>2, <4>1 DEF FInv, PTypeOK, CPUTypeOK, TipoNucleo
      <4>3. cicloPc # "ejecutar"
        <5>1. Head(canalDespacho) = canalDespacho[1] /\ 1 \in 1..Len(canalDespacho)
          BY <2>1 DEF FInv, PTypeOK, CPUTypeOK, TipoCanales
        <5>2. ~(Ocupacion > 0)
          BY <4>1, <5>1, CpuSola
        <5>3. QED
          BY <1>2, <5>2 DEF Ocupacion, Uno
      <4>4. QED
        BY <2>1, <4>2, <4>3 DEF CicloFiel, Uno
    <3>3. QED
      BY <1>10, <3>1, <3>2
  <2>5. QED
    BY <1>1, <2>1, <2>2, <2>3, <2>4, QuietaFiel
<1>11. QED
  BY <1>1, <1>5, <1>6, <1>7, <1>8, <1>9, <1>10 DEF CPUNext, HiloCiclo, HiloDespacho, HiloInterrupcion

LEMMA FielInductivo == FInv /\ FInv' /\ Fiel /\ [PNext]_pvars => Fiel'
<1> SUFFICES ASSUME FInv, FInv', Fiel, [PNext]_pvars PROVE Fiel'
  OBVIOUS
<1>1. PTypeOK'
  BY DEF FInv
<1>2. ASSUME NEW h \in Hilos, Llamada(h) PROVE Fiel'
  BY <1>1, <1>2, LlamadaFiel
<1>3. ASSUME NEW p \in Pids, clock_rr(p) PROVE Fiel'
  <2>1. relojes[p] > 0 /\ relojes[p] = 0
    BY <1>3 DEF clock_rr, FInv, SinDesalojo
  <2>2. QED
    BY <2>1
<1>4. CASE UNCHANGED pvars
  <2>1. UNCHANGED <<estado, pcb, avance, canalDespacho, canalContexto, proceso, ciclo, cicloPc, bloquear,
                    interrupcion, kernel, rvars>>
    BY <1>4 DEF pvars, kernel, tabla, cpuVars, canales, nucleo
  <2>2. DespachoFiel' /\ ContextoFiel' /\ CicloFiel'
    BY <2>1 DEF Fiel, DespachoFiel, ContextoFiel, CicloFiel, CpuOcupada
  <2>3. QED
    BY <2>1, <2>2, QuietaFiel
<1>5. QED
  BY <1>1, <1>2, <1>3, <1>4, CpuFiel, ContextoFielRecibido, ConsolaFiel, LargoFiel, CortoFiel DEF PNext

LEMMA FielInicial == PInit => Fiel
<1> SUFFICES ASSUME PInit PROVE Fiel
  OBVIOUS
<1>1. /\ canalDespacho = <<>> /\ canalContexto = <<>> /\ ~CpuOcupada
      /\ avance = [p \in Pids |-> 0] /\ pcb = [p \in Pids |-> 0]
  <2>1. /\ canalDespacho = <<>> /\ canalContexto = <<>> /\ ciclo = 0 /\ cicloPc = "ciclo"
        /\ interrupcion = FALSE
        /\ avance = [p \in Pids |-> 0] /\ pcb = [p \in Pids |-> 0]
    BY Zenon DEF PInit, CPUInit
  <2>2. QED
    BY <2>1 DEF CpuOcupada
<1>2. QED
  BY <1>1 DEF Fiel, Guardado, DespachoFiel, ContextoFiel, CicloFiel

(* The instruction the cycle fetches is that of a process it has.          *)
LEMMA BuscaSiguiente ==
  FInv /\ Fiel /\ [PNext]_pvars =>
    (cicloPc = "ciclo" /\ cicloPc' = "ejecutar" => proceso.pc = avance[proceso.pid])
<1> SUFFICES ASSUME FInv, Fiel, [PNext]_pvars, cicloPc = "ciclo", cicloPc' = "ejecutar"
             PROVE  proceso.pc = avance[proceso.pid]
  OBVIOUS
<1>1. CPUPaso \/ UNCHANGED cicloPc
  <2>1. CASE \E h \in Hilos : Llamada(h)
    <3>1. PICK h \in Hilos : Llamada(h)
      BY <2>1
    <3>2. FijoEnLlamadas
      BY <3>1, LlamadaFija
    <3>3. QED
      BY <3>2 DEF FijoEnLlamadas, nucleo
  <2>2. CASE planificador_largo
    BY <2>2 DEF planificador_largo, LargoDespierta, LargoToma, LargoAdmite, LargoCuenta,
       LargoTermina, FijoEnLargo, cpuVars, nucleo
  <2>3. CASE planificador_corto
    BY <2>3 DEF planificador_corto, CortoDespierta, CortoOrdena, CortoMira, CortoCompara,
       CortoDesalojado, CortoToma, CortoMarca, CortoOcupa, CortoEnvia, FijoEnCorto, nucleo
  <2>4. CASE RecibirContexto \/ MemoriaResponde \/ \E p \in Pids : clock_rr(p)
    BY <2>4 DEF RecibirContexto, MemoriaResponde, clock_rr, cpuVars, nucleo
  <2>5. CASE hilo_consola
    BY <2>5, Zenon DEF hilo_consola, iniciar_proceso, detener_planificacion,
       iniciar_planificacion, finalizar_proceso, multiprogramacion, FijoEnConsola, cpuVars, nucleo
  <2>6. CASE UNCHANGED pvars
    BY <2>6 DEF pvars, cpuVars, nucleo
  <2>7. QED
    BY <2>1, <2>2, <2>3, <2>4, <2>5, <2>6 DEF PNext
<1>2. Buscar
  BY <1>1 DEF CPUPaso, CPUNext, HiloCiclo, HiloDespacho, HiloInterrupcion, Calcular, Saltar,
     FallarPagina, PedirKernel, Continuar, EsperarRespuesta, AtenderInterrupcion, RecibirProceso,
     RecibirRespuesta, RecibirInterrupcion, CompararPid, MarcarInterrupcion
<1>3. CpuOcupada /\ proceso.pid \in Pids
  BY <1>2 DEF Buscar, CpuOcupada
<1>4. proceso.pc = avance[proceso.pid] + 0
  BY <1>3 DEF Fiel, CicloFiel, Uno
<1>5. avance[proceso.pid] \in Int
  BY <1>3 DEF FInv, PTypeOK, CPUTypeOK, TipoNucleo
<1>6. QED
  BY <1>4, <1>5

(* Under FIFO, and with nobody killed, the CPU always fetches the next     *)
(* instruction of the program: through dispatches, syscalls and page       *)
(* faults, for any number of processes and threads, the pc that comes back *)
(* is the one that left.                                                   *)
THEOREM PInstruccionSiguiente ==
  SoloFIFO => (PSpec /\ []DescriptorAjeno => InstruccionSiguiente)
<1>1. CASE SoloFIFO
  BY <1>1, FInvariante, FielInicial, FielInductivo, BuscaSiguiente, PTL DEF PSpec, InstruccionSiguiente
<1>2. QED
  BY <1>1

-----------------------------------------------------------------------------
(* What comes at once after some calls: a process that ends is discounted, *)
(* and one that is put in the queue is announced.  And which calls only    *)
(* the thread that attends the CPU has.                                    *)
EsFin(o)   == o.op = "cambiar_estado" /\ o.arg = "TERMINATED"
EsBaja(o)  == o.op = "bajar_multi"
Empuja(o)  == o.op \in {"push_colaCorto", "queue_push", "ordenar_adelante"}
Aviso      == sem_post("planiCorto")
Pegada(ops, i) ==
  /\ EsFin(ops[i])  => i + 1 \in 1..Len(ops) /\ EsBaja(ops[i + 1])
  /\ Empuja(ops[i]) => i + 1 \in 1..Len(ops) /\ ops[i + 1] = Aviso
Propia(h, o) ==
  /\ o.op = "sem_wait" => o.arg \notin {"planiCorto", "planiLargo"}
  /\ o.op \in {"wait_recurso", "signal_recurso", "avisar", "hilo_funcion"} => h = "despacho"
Prolija(h, ops) == \A i \in 1..Len(ops) : Pegada(ops, i) /\ Propia(h, ops[i])
Prolijas == \A h \in Hilos : Prolija(h, hilo[h])

Fines       == {o \in Conocidas : EsFin(o)}
Bajas       == {o \in Conocidas : EsBaja(o)}
Pareja(ops) == Cuenta(ops, Fines) = Cuenta(ops, Bajas)
Buena(h, ops) == Prolija(h, ops) /\ Pareja(ops)

LEMMA ProlijaResto ==
  ASSUME NEW h, NEW s \in Seq(Conocidas), s # <<>>, Prolija(h, s)
  PROVE  Prolija(h, Tail(s))
<1>1. /\ Len(s) \in Nat /\ Len(Tail(s)) = Len(s) - 1
      /\ \A j \in 1..Len(Tail(s)) : Tail(s)[j] = s[j + 1]
  BY HeadTailProperties
<1>2. ASSUME NEW i \in 1..Len(Tail(s))
      PROVE  Pegada(Tail(s), i) /\ Propia(h, Tail(s)[i])
  <2>1. i + 1 \in 1..Len(s) /\ Tail(s)[i] = s[i + 1]
    BY <1>1
  <2>2. Pegada(s, i + 1) /\ Propia(h, s[i + 1])
    BY <2>1 DEF Prolija
  <2>3. (i + 1) + 1 \in 1..Len(s) => i + 1 \in 1..Len(Tail(s)) /\ Tail(s)[i + 1] = s[(i + 1) + 1]
    BY <1>1
  <2>4. QED
    BY <2>1, <2>2, <2>3 DEF Pegada
<1>3. QED
  BY <1>2 DEF Prolija

LEMMA ProlijaUnir ==
  ASSUME NEW h, NEW s \in Seq(Conocidas), NEW t \in Seq(Conocidas), Prolija(h, s), Prolija(h, t)
  PROVE  Prolija(h, s \o t)
<1>1. /\ Len(s) \in Nat /\ Len(t) \in Nat /\ Len(s \o t) = Len(s) + Len(t)
      /\ \A i \in 1..Len(s) : (s \o t)[i] = s[i]
      /\ \A i \in 1..Len(t) : (s \o t)[i + Len(s)] = t[i]
  BY ConcatProperties
<1>2. ASSUME NEW i \in 1..Len(s)
      PROVE  Pegada(s \o t, i) /\ Propia(h, (s \o t)[i])
  <2>1. Pegada(s, i) /\ Propia(h, s[i])
    BY DEF Prolija
  <2>2. i + 1 \in 1..Len(s) => i + 1 \in 1..Len(s \o t) /\ (s \o t)[i + 1] = s[i + 1]
    BY <1>1
  <2>3. (s \o t)[i] = s[i]
    BY <1>1
  <2>4. QED
    BY <2>1, <2>2, <2>3 DEF Pegada
<1>3. ASSUME NEW k \in 1..Len(t)
      PROVE  Pegada(s \o t, k + Len(s)) /\ Propia(h, (s \o t)[k + Len(s)])
  <2>1. Pegada(t, k) /\ Propia(h, t[k])
    BY DEF Prolija
  <2>2. k + 1 \in 1..Len(t) =>
          (k + Len(s)) + 1 \in 1..Len(s \o t) /\ (s \o t)[(k + Len(s)) + 1] = t[k + 1]
    <3>1. ASSUME k + 1 \in 1..Len(t)
          PROVE  (k + Len(s)) + 1 \in 1..Len(s \o t) /\ (s \o t)[(k + Len(s)) + 1] = t[k + 1]
      <4>1. (s \o t)[(k + 1) + Len(s)] = t[k + 1]
        BY <1>1, <3>1
      <4>2. (k + 1) + Len(s) = (k + Len(s)) + 1 /\ (k + Len(s)) + 1 \in 1..Len(s \o t)
        BY <1>1, <3>1
      <4>3. QED
        BY <4>1, <4>2
    <3>2. QED
      BY <3>1
  <2>3. (s \o t)[k + Len(s)] = t[k]
    BY <1>1
  <2>4. QED
    BY <2>1, <2>2, <2>3 DEF Pegada
<1>4. ASSUME NEW i \in 1..Len(s \o t)
      PROVE  Pegada(s \o t, i) /\ Propia(h, (s \o t)[i])
  <2>1. CASE i \in 1..Len(s)
    BY <1>2, <2>1
  <2>2. CASE i \notin 1..Len(s)
    <3>1. PICK k \in 1..Len(t) : k + Len(s) = i
      <4>1. i - Len(s) \in 1..Len(t) /\ (i - Len(s)) + Len(s) = i
        BY <1>1, <2>2
      <4>2. QED
        BY <4>1
    <3>2. QED
      BY <1>3, <3>1
  <2>3. QED
    BY <2>1, <2>2
<1>5. QED
  BY <1>4 DEF Prolija

(* A list that neither ends a process nor puts one in the queue.           *)
Suelta(h, ops) ==
  \A i \in 1..Len(ops) : /\ ~EsFin(ops[i]) /\ ~EsBaja(ops[i]) /\ ~Empuja(ops[i])
                         /\ Propia(h, ops[i])
SinFines(ops) == \A i \in 1..Len(ops) : ~EsFin(ops[i]) /\ ~EsBaja(ops[i])

LEMMA SinFinesPareja ==
  ASSUME NEW ops, SinFines(ops)
  PROVE  Pareja(ops)
<1>1. \A i \in 1..Len(ops) : ops[i] \notin Fines /\ ops[i] \notin Bajas
  BY DEF SinFines, Fines, Bajas
<1>2. Cuenta(ops, Fines) = 0 /\ Cuenta(ops, Bajas) = 0
  BY <1>1, CuentaNinguna
<1>3. QED
  BY <1>2 DEF Pareja

LEMMA SueltaBuena ==
  ASSUME NEW h, NEW ops, Suelta(h, ops)
  PROVE  Buena(h, ops)
<1>1. SinFines(ops)
  BY DEF Suelta, SinFines
<1>2. Prolija(h, ops)
  BY DEF Suelta, Prolija, Pegada
<1>3. QED
  BY <1>1, <1>2, SinFinesPareja DEF Buena

LEMMA ColaDeSalidaBuena ==
  ASSUME NEW p \in Pids, NEW e, e # "NEW", NEW h
  PROVE  Buena(h, ColaDeSalida(p, e))
<1> DEFINE s == ColaDeSalida(p, e)
<1>1. /\ Len(s) = 8
      /\ s[1] = Simple("quitarCorto", p) /\ s[2] = Simple("quitarLargo", p)
      /\ s[3] = Simple("liberar_recursos", p) /\ s[4] = Simple("liberar_paginas", p)
      /\ s[5] = sem_wait("paginasLiberadas") /\ s[6] = cambiar_estado(p, "TERMINATED")
      /\ s[7] = Simple("bajar_multi", p) /\ s[8] = sem_post("planiLargo")
  BY DEF ColaDeSalida
<1> HIDE DEF s
<1>2. \A i \in 1..Len(s) : i \in {1, 2, 3, 4, 5, 6, 7, 8}
  BY <1>1
<1>3. /\ \A i \in 1..Len(s) : /\ EsFin(s[i]) <=> i = 6
                              /\ EsBaja(s[i]) <=> i = 7
                              /\ ~Empuja(s[i]) /\ Propia(h, s[i])
  BY <1>1, <1>2 DEF EsFin, EsBaja, Empuja, Propia, Op, Simple, sem_wait, sem_post, cambiar_estado
<1>4. 6 \in 1..Len(s) /\ 7 \in 1..Len(s)
  BY <1>1
<1>5. Prolija(h, s)
  BY <1>3, <1>4 DEF Prolija, Pegada
<1>6. s[6] \in Conocidas /\ s[7] \in Conocidas
  <2>1. cambiar_estado(p, "TERMINATED") \in Conocidas
    BY OpsConocidas DEF Estados
  <2>2. Simple("bajar_multi", p) \in Conocidas
    BY OpsSimples
  <2>3. QED
    BY <1>1, <2>1, <2>2
<1>7. Cuenta(s, Fines) = 1
  <2>1. s[6] \in Fines /\ \A i \in 1..Len(s) : s[i] \in Fines => i = 6
    BY <1>3, <1>4, <1>6 DEF Fines
  <2>2. QED
    BY <1>4, <2>1, CuentaUnica
<1>8. Cuenta(s, Bajas) = 1
  <2>1. s[7] \in Bajas /\ \A i \in 1..Len(s) : s[i] \in Bajas => i = 7
    BY <1>3, <1>4, <1>6 DEF Bajas
  <2>2. QED
    BY <1>4, <2>1, CuentaUnica
<1>9. QED
  BY <1>5, <1>7, <1>8 DEF Buena, Pareja, s

LEMMA RutinaBuena ==
  ASSUME NEW p \in Pids, NEW h, NEW ops,
         NEW f \in {"sleep_proceso", "page_fault", "f_write", "f_truncate"}, ops \in Rutinas(f, p)
  PROVE  Buena(h, ops)
<1>1. CASE f = "sleep_proceso"
  <2>1. /\ Len(ops) = 3 /\ ops[1] = cambiar_estado(p, "BLOCKED")
        /\ ops[2] = push_colaCorto(p) /\ ops[3] = sem_post("planiCorto")
    BY <1>1 DEF Rutinas, sleep_proceso, Volver
  <2>2. \A i \in 1..Len(ops) : i \in {1, 2, 3}
    BY <2>1
  <2>3. \A i \in 1..Len(ops) : /\ ~EsFin(ops[i]) /\ ~EsBaja(ops[i]) /\ (Empuja(ops[i]) => i = 2)
                               /\ Propia(h, ops[i])
    BY <2>1, <2>2 DEF EsFin, EsBaja, Empuja, Propia, Op, Simple, sem_post, push_colaCorto, cambiar_estado
  <2>4. Prolija(h, ops)
    BY <2>1, <2>3 DEF Prolija, Pegada, Aviso
  <2>5. QED
    BY <2>3, <2>4, SinFinesPareja DEF SinFines, Buena
<1>2. CASE f = "page_fault"
  <2>1. /\ Len(ops) = 5 /\ ops[1] = cambiar_estado(p, "PAGBLOCK")
        /\ ops[2] = Simple("cargar_pagina", p) /\ ops[3] = sem_wait("paginaCargada")
        /\ ops[4] = push_colaCorto(p) /\ ops[5] = sem_post("planiCorto")
    BY <1>2 DEF Rutinas, page_fault, Volver
  <2>2. \A i \in 1..Len(ops) : i \in {1, 2, 3, 4, 5}
    BY <2>1
  <2>3. \A i \in 1..Len(ops) : /\ ~EsFin(ops[i]) /\ ~EsBaja(ops[i]) /\ (Empuja(ops[i]) => i = 4)
                               /\ Propia(h, ops[i])
    BY <2>1, <2>2 DEF EsFin, EsBaja, Empuja, Propia, Op, Simple, sem_post, sem_wait, push_colaCorto,
                      cambiar_estado
  <2>4. Prolija(h, ops)
    BY <2>1, <2>3 DEF Prolija, Pegada, Aviso
  <2>5. QED
    BY <2>3, <2>4, SinFinesPareja DEF SinFines, Buena
<1>3. CASE f \in {"f_write", "f_truncate"}
           /\ ops = <<cambiar_estado(p, "BLOCKED"), sem_post("planiCorto")>> \o Volver(p)
  <2>1. /\ Len(ops) = 4 /\ ops[1] = cambiar_estado(p, "BLOCKED")
        /\ ops[2] = sem_post("planiCorto")
        /\ ops[3] = push_colaCorto(p) /\ ops[4] = sem_post("planiCorto")
    BY <1>3 DEF Volver
  <2>2. \A i \in 1..Len(ops) : i \in {1, 2, 3, 4}
    BY <2>1
  <2>3. \A i \in 1..Len(ops) : /\ ~EsFin(ops[i]) /\ ~EsBaja(ops[i]) /\ (Empuja(ops[i]) => i = 3)
                               /\ Propia(h, ops[i])
    BY <2>1, <2>2 DEF EsFin, EsBaja, Empuja, Propia, Op, Simple, sem_post, push_colaCorto, cambiar_estado
  <2>4. Prolija(h, ops)
    BY <2>1, <2>3 DEF Prolija, Pegada, Aviso
  <2>5. QED
    BY <2>3, <2>4, SinFinesPareja DEF SinFines, Buena
<1>4. CASE f = "f_write" /\ ops = <<cambiar_estado(p, "BLOCKED"), salida(p, "INVALID_WRITE")>>
  <2>1. /\ Len(ops) = 2 /\ ops[1] = cambiar_estado(p, "BLOCKED")
        /\ ops[2] = salida(p, "INVALID_WRITE")
    BY <1>4
  <2>2. \A i \in 1..Len(ops) : i \in {1, 2}
    BY <2>1
  <2>3. Suelta(h, ops)
    BY <2>1, <2>2 DEF Suelta, EsFin, EsBaja, Empuja, Propia, Op, Simple, salida, cambiar_estado
  <2>4. QED
    BY <2>3, SueltaBuena
<1>5. QED
  BY <1>1, <1>2, <1>3, <1>4 DEF Rutinas, f_truncate, f_write

LEMMA AtencionBuena ==
  ASSUME NEW p \in Pids, NEW razon \in MotivosFIFO, NEW arg \in Args \cup {0}
  PROVE  Buena("despacho", Atencion(razon, p, arg))
<1> DEFINE s == Atencion(razon, p, arg)
<1>1. razon \in {"sleep", "wait", "signal", "f_seek", "f_write", "f_truncate", "procesoExit",
                 "page_fault"}
  BY DEF MotivosFIFO, MotivoDe, Syscalls
<1>2. CASE razon = "f_seek"
  <2>1. /\ Len(s) = 4 /\ s[1] = cambiar_estado(p, "READY") /\ s[2] = responder
        /\ s[3] = Simple("ordenar_adelante", p) /\ s[4] = sem_post("planiCorto")
    BY <1>2 DEF Atencion, AlFrente
  <2> HIDE DEF s
  <2>2. \A i \in 1..Len(s) : i \in {1, 2, 3, 4}
    BY <2>1
  <2>3. \A i \in 1..Len(s) : /\ ~EsFin(s[i]) /\ ~EsBaja(s[i]) /\ (Empuja(s[i]) => i = 3)
                             /\ Propia("despacho", s[i])
    BY <2>1, <2>2 DEF EsFin, EsBaja, Empuja, Propia, Op, Simple, sem_post, responder, cambiar_estado
  <2>4. Prolija("despacho", s)
    BY <2>1, <2>3 DEF Prolija, Pegada, Aviso
  <2>5. QED
    BY <2>3, <2>4, SinFinesPareja DEF SinFines, Buena, s
<1>3. CASE razon # "f_seek"
  <2>1. Suelta("despacho", s)
    <3>1. CASE razon = "procesoExit"
      <4>1. Len(s) = 2 /\ s[1] = salida(p, "SUCCESS") /\ s[2] = responder
        BY <3>1 DEF Atencion
      <4> HIDE DEF s
      <4>2. \A i \in 1..Len(s) : i \in {1, 2}
        BY <4>1
      <4>3. QED
        BY <4>1, <4>2 DEF Suelta, EsFin, EsBaja, Empuja, Propia, Op, Simple, salida, responder
    <3>2. CASE razon = "page_fault"
      <4>1. /\ Len(s) = 3 /\ s[1] = hilo_funcion(p, "page_fault") /\ s[2] = responder
            /\ s[3] = sem_post("planiCorto")
        BY <3>2 DEF Atencion
      <4> HIDE DEF s
      <4>2. \A i \in 1..Len(s) : i \in {1, 2, 3}
        BY <4>1
      <4>3. QED
        BY <4>1, <4>2 DEF Suelta, EsFin, EsBaja, Empuja, Propia, Op, Simple, hilo_funcion, sem_post,
           responder
    <3>3. CASE razon \in {"f_write", "f_truncate"}
      <4>1. Len(s) = 2 /\ s[1] = hilo_funcion(p, razon) /\ s[2] = responder
        BY <3>3 DEF Atencion
      <4> HIDE DEF s
      <4>2. \A i \in 1..Len(s) : i \in {1, 2}
        BY <4>1
      <4>3. QED
        BY <4>1, <4>2 DEF Suelta, EsFin, EsBaja, Empuja, Propia, Op, Simple, hilo_funcion, responder
    <3>4. CASE razon = "wait"
      <4>1. /\ Len(s) = 3 /\ s[1] = cambiar_estado(p, "READY") /\ s[2] = Op("wait_recurso", p, arg)
            /\ s[3] = responder
        BY <3>4 DEF Atencion
      <4> HIDE DEF s
      <4>2. \A i \in 1..Len(s) : i \in {1, 2, 3}
        BY <4>1
      <4>3. QED
        BY <4>1, <4>2 DEF Suelta, EsFin, EsBaja, Empuja, Propia, Op, Simple, cambiar_estado, responder
    <3>5. CASE razon = "sleep"
      <4>1. /\ Len(s) = 4 /\ s[1] = cambiar_estado(p, "READY") /\ s[2] = sem_post("planiCorto")
            /\ s[3] = hilo_funcion(p, "sleep_proceso") /\ s[4] = responder
        BY <3>5 DEF Atencion
      <4> HIDE DEF s
      <4>2. \A i \in 1..Len(s) : i \in {1, 2, 3, 4}
        BY <4>1
      <4>3. QED
        BY <4>1, <4>2 DEF Suelta, EsFin, EsBaja, Empuja, Propia, Op, Simple, cambiar_estado, sem_post,
           hilo_funcion, responder
    <3>6. CASE razon = "signal"
      <4>1. /\ Len(s) = 4 /\ s[1] = cambiar_estado(p, "READY") /\ s[2] = sem_post("planiCorto")
            /\ s[3] = Op("signal_recurso", p, arg) /\ s[4] = responder
        BY <3>6 DEF Atencion
      <4> HIDE DEF s
      <4>2. \A i \in 1..Len(s) : i \in {1, 2, 3, 4}
        BY <4>1
      <4>3. QED
        BY <4>1, <4>2 DEF Suelta, EsFin, EsBaja, Empuja, Propia, Op, Simple, cambiar_estado, sem_post,
           responder
    <3>7. QED
      BY <1>1, <1>3, <3>1, <3>2, <3>3, <3>4, <3>5, <3>6
  <2>2. QED
    BY <2>1, SueltaBuena
<1>4. QED
  BY <1>2, <1>3

-----------------------------------------------------------------------------
(* A step of a thread puts a good list in the place of its first call, or  *)
(* starts another with one.                                                *)
Brota(h)      == \E ops \in Seq(Conocidas) : Sigue(h, ops) /\ Buena(h, ops)
BrotaEn(h, s) == hilo[s] = <<>> /\ \E ops \in Seq(Conocidas) : Lanza(h, s, ops) /\ Buena(s, ops)

LEMMA AvanzaBrota ==
  ASSUME PTypeOK, NEW h \in Hilos, hilo[h] # <<>>, Avanza(h)
  PROVE  Brota(h)
<1>1. <<>> \in Seq(Conocidas) /\ Suelta(h, <<>>)
  BY DEF Suelta
<1>2. Sigue(h, <<>>)
  <2>1. hilo' = [hilo EXCEPT ![h] = Tail(@)] /\ hilo[h] \in Seq(Conocidas)
    BY DEF PTypeOK, TipoHilos, Avanza
  <2>2. <<>> \o Tail(hilo[h]) = Tail(hilo[h])
    BY <2>1
  <2>3. QED
    BY <2>1, <2>2 DEF Sigue
<1>3. QED
  BY <1>1, <1>2, SueltaBuena DEF Brota

(* A process that asks to leave has been admitted.                         *)
LEMMA SaleAdmitido ==
  ASSUME FInv, NEW h \in Corrientes, Llama(h, "planificador_largo_salida")
  PROVE  De(h) \in Pids /\ estado[De(h)] \in Admitida /\ Head(hilo[h]).arg # "SIGKILL"
<1> DEFINE q == De(h)
<1>1. hilo[h] # <<>> /\ Head(hilo[h]).op = "planificador_largo_salida"
  BY DEF Llama
<1>2. Head(hilo[h]).arg # "SIGKILL"
  BY <1>1, CabezaCorriente DEF FInv, Corriente
<1>3. q \in Pids
  BY <1>1, CabezaCorriente, CampoPid DEF FInv, PTypeOK
<1>4. Ubica(Head(hilo[h]))
  BY <1>1 DEF Ubica
<1>5. \E i \in 1..Len(hilo[h]) : hilo[h][i] \in OpsDe(q)
  BY <1>1, <1>4, CabezaCorriente DEF OpsDe, De, FInv
<1>6. EnHilos(q) > 0
  BY <1>5, CabezaCorriente, <1>1, HilosFinitos, CuentaEnNatural DEF EnHilos, FInv, PTypeOK, TipoHilos
<1>7. QED
  BY <1>2, <1>3, <1>6, Lugar DEF FInv

LEMMA LlamadaBrota ==
  ASSUME FInv, Prolijas, NEW h \in Hilos, Llamada(h), ~EscribirSinAbrir(h)
  PROVE  hilo[h] # <<>> /\ (Brota(h) \/ \E s \in Sueltos : BrotaEn(h, s))
<1>1. hilo[h] # <<>> /\ PTypeOK
  BY SoloEsa DEF FInv
<1>2. CASE Avanza(h)
  BY <1>1, <1>2, AvanzaBrota
<1>3. h \in {"consola", "memoria"} => Avanza(h)
  <2>1. CASE h = "consola"
    <3>1. Head(<<sem_wait("procesoCargado")>>).op = "sem_wait"
      BY DEF sem_wait, Op
    <3>2. QED
      BY <1>1, <2>1, <3>1, SoloEsa DEF FInv, HilosBien, SemWait
  <2>2. CASE h = "memoria"
    <3>1. Head(hilo[h]).op \in {"sem_post", "despertar_largo", "push_colaLargo", "borrar_proceso"}
      BY <1>1, <2>2, ListaDeMemoria DEF Cargado, sem_post, Simple, Op
    <3>2. QED
      BY <3>1, SoloEsa DEF SemPost, DespertarLargo, PushColaLargo, BorrarProceso
  <2>3. QED
    BY <2>1, <2>2
<1>4. CASE h \in Corrientes
  <2>1. Corriente(h, Head(hilo[h])) /\ ~PushSiEXEC(h)
    BY <1>1, <1>4, CabezaCorriente DEF FInv, Corriente, PushSiEXEC, Llama
  <2>2. Propia(h, Head(hilo[h]))
    BY <1>1, <1>4, CabezaCorriente DEF FInv, Prolijas, Prolija
  <2>3. CASE Salida(h)
    <3>1. Llama(h, "planificador_largo_salida")
      BY <2>3 DEF Salida
    <3>2. PICK p \in Pids : p = De(h)
      BY <1>4, <3>1, SaleAdmitido
    <3>3. PICK e : e = estado[p]
      OBVIOUS
    <3>4. e # "NEW" /\ Head(hilo[h]).arg # "SIGKILL"
      BY <1>4, <3>1, <3>2, <3>3, SaleAdmitido DEF Admitida
    <3>5. Sigue(h, ColaDeSalida(p, e))
      BY <2>3, <3>2, <3>3, <3>4 DEF Salida
    <3>6. ColaDeSalida(p, e) \in Seq(Conocidas) /\ Buena(h, ColaDeSalida(p, e))
      BY <3>4, ColaDeSalidaTipo, ColaDeSalidaBuena
    <3>7. QED
      BY <1>1, <3>5, <3>6 DEF Brota
  <2>4. CASE HiloFuncion(h)
    <3>1. Llama(h, "hilo_funcion") /\ Libres # {}
      BY <2>4 DEF HiloFuncion
    <3>2. PICK p \in Pids : p = De(h)
      BY <1>1, <3>1, CampoPid DEF PTypeOK
    <3>3. PICK f \in {"sleep_proceso", "page_fault", "f_write", "f_truncate"} : f = Head(hilo[h]).arg
      BY <1>1, <3>1, CampoRutina DEF PTypeOK
    <3>4. PICK s : s = CHOOSE x \in Libres : TRUE
      OBVIOUS
    <3>5. s \in Sueltos /\ hilo[s] = <<>>
      <4>1. s \in Libres
        BY <3>1, <3>4
      <4>2. QED
        BY <4>1 DEF Libres
    <3>6. PICK ops \in Rutinas(f, p) : Lanza(h, s, ops)
      BY <2>4, <3>2, <3>3, <3>4 DEF HiloFuncion, Lanza
    <3>7. ops \in Seq(Conocidas) /\ Buena(s, ops)
      BY <3>6, RutinasTipo, RutinaBuena
    <3>8. QED
      BY <1>1, <3>5, <3>6, <3>7 DEF BrotaEn
  <2>5. CASE WaitConInstancia(h)
    <3>1. Llama(h, "wait_recurso")
      BY <2>5 DEF WaitConInstancia
    <3>2. PICK p \in Pids : p = De(h)
      BY <1>1, <3>1, CampoPid DEF PTypeOK
    <3>3. PICK ops : ops = <<Simple("queue_push", p), sem_post("planiCorto"), sem_post("planiCorto")>>
      OBVIOUS
    <3>4. Sigue(h, ops)
      BY <2>5, <3>2, <3>3 DEF WaitConInstancia
    <3>5. /\ Len(ops) = 3 /\ ops[1] = Simple("queue_push", p)
          /\ ops[2] = sem_post("planiCorto") /\ ops[3] = sem_post("planiCorto")
      BY <3>3
    <3>6. \A i \in 1..Len(ops) : i \in {1, 2, 3}
      BY <3>5
    <3>7. \A i \in 1..Len(ops) : /\ ~EsFin(ops[i]) /\ ~EsBaja(ops[i]) /\ (Empuja(ops[i]) => i = 1)
                                 /\ Propia(h, ops[i])
      BY <3>5, <3>6 DEF EsFin, EsBaja, Empuja, Propia, Op, Simple, sem_post
    <3>8. Prolija(h, ops)
      BY <3>5, <3>7 DEF Prolija, Pegada, Aviso
    <3>9. ops \in Seq(Conocidas)
      <4>1. Simple("queue_push", p) \in Conocidas /\ sem_post("planiCorto") \in Conocidas
        BY OpsConocidas, OpsSimples DEF Semaforos
      <4>2. QED
        BY <3>3, <4>1, ListaDeTres
    <3>10. QED
      BY <1>1, <3>4, <3>7, <3>8, <3>9, SinFinesPareja DEF SinFines, Buena, Brota
  <2>6. CASE WaitSinInstancia(h)
    <3>1. Llama(h, "wait_recurso")
      BY <2>6 DEF WaitSinInstancia
    <3>2. PICK p \in Pids : p = De(h)
      BY <1>1, <3>1, CampoPid DEF PTypeOK
    <3>3. PICK ops : ops = <<cambiar_estado(p, "BLOCKED"), Simple("deteccion_deadlock", p),
                             sem_post("planiCorto")>>
      OBVIOUS
    <3>4. Sigue(h, ops)
      BY <2>6, <3>2, <3>3 DEF WaitSinInstancia
    <3>5. /\ Len(ops) = 3 /\ ops[1] = cambiar_estado(p, "BLOCKED")
          /\ ops[2] = Simple("deteccion_deadlock", p) /\ ops[3] = sem_post("planiCorto")
      BY <3>3
    <3>6. \A i \in 1..Len(ops) : i \in {1, 2, 3}
      BY <3>5
    <3>7. Suelta(h, ops)
      BY <3>5, <3>6 DEF Suelta, EsFin, EsBaja, Empuja, Propia, Op, Simple, sem_post, cambiar_estado
    <3>8. ops \in Seq(Conocidas)
      <4>1. /\ cambiar_estado(p, "BLOCKED") \in Conocidas /\ sem_post("planiCorto") \in Conocidas
            /\ Simple("deteccion_deadlock", p) \in Conocidas
        BY OpsConocidas, OpsSimples DEF Semaforos, Estados
      <4>2. QED
        BY <3>3, <4>1, ListaDeTres
    <3>9. QED
      BY <1>1, <3>4, <3>7, <3>8, SueltaBuena DEF Brota
  <2>7. CASE WaitInvalido(h)
    <3>1. Llama(h, "wait_recurso")
      BY <2>7 DEF WaitInvalido
    <3>2. PICK p \in Pids : p = De(h)
      BY <1>1, <3>1, CampoPid DEF PTypeOK
    <3>3. PICK ops : ops = <<salida(p, "INVALID_RESOURCE"), sem_post("planiCorto")>>
      OBVIOUS
    <3>4. Sigue(h, ops)
      BY <2>7, <3>2, <3>3 DEF WaitInvalido
    <3>5. Len(ops) = 2 /\ ops[1] = salida(p, "INVALID_RESOURCE") /\ ops[2] = sem_post("planiCorto")
      BY <3>3
    <3>6. \A i \in 1..Len(ops) : i \in {1, 2}
      BY <3>5
    <3>7. Suelta(h, ops)
      BY <3>5, <3>6 DEF Suelta, EsFin, EsBaja, Empuja, Propia, Op, sem_post, salida
    <3>8. ops \in Seq(Conocidas)
      <4>1. salida(p, "INVALID_RESOURCE") \in Conocidas /\ sem_post("planiCorto") \in Conocidas
        BY OpsConocidas DEF Semaforos
      <4>2. QED
        BY <3>3, <4>1, ListaDeDos
    <3>9. QED
      BY <1>1, <3>4, <3>7, <3>8, SueltaBuena DEF Brota
  <2>8. CASE SignalInvalido(h)
    <3>1. Llama(h, "signal_recurso")
      BY <2>8 DEF SignalInvalido
    <3>2. PICK p \in Pids : p = De(h)
      BY <1>1, <3>1, CampoPid DEF PTypeOK
    <3>3. PICK ops : ops = <<salida(p, "INVALID_RESOURCE")>>
      OBVIOUS
    <3>4. Sigue(h, ops)
      BY <2>8, <3>2, <3>3 DEF SignalInvalido
    <3>5. Len(ops) = 1 /\ ops[1] = salida(p, "INVALID_RESOURCE")
      BY <3>3
    <3>6. \A i \in 1..Len(ops) : i = 1
      BY <3>5
    <3>7. Suelta(h, ops)
      BY <3>5, <3>6 DEF Suelta, EsFin, EsBaja, Empuja, Propia, Op, salida
    <3>8. ops \in Seq(Conocidas)
      BY <3>3, OpsConocidas, ListaDeUna
    <3>9. QED
      BY <1>1, <3>4, <3>7, <3>8, SueltaBuena DEF Brota
  <2>9. CASE SignalValido(h)
    <3>1. h = "despacho"
      BY <2>2, <2>9 DEF Propia, SignalValido, Llama
    <3>2. PICK ops : ops = <<Simple("avisar", 0)>>
      OBVIOUS
    <3>3. Sigue(h, ops)
      BY <2>9, <3>2 DEF SignalValido
    <3>4. Len(ops) = 1 /\ ops[1] = Simple("avisar", 0)
      BY <3>2
    <3>5. \A i \in 1..Len(ops) : i = 1
      BY <3>4
    <3>6. Suelta(h, ops)
      BY <3>1, <3>4, <3>5 DEF Suelta, EsFin, EsBaja, Empuja, Propia, Op, Simple
    <3>7. ops \in Seq(Conocidas)
      <4>1. Simple("avisar", 0) \in Conocidas
        BY DEF Simple, Op, Conocidas
      <4>2. QED
        BY <3>2, <4>1, ListaDeUna
    <3>8. QED
      BY <1>1, <3>3, <3>6, <3>7, SueltaBuena DEF Brota
  <2>10. CASE LiberarConEntrega(h)
    <3>1. PICK ops : ops = <<sem_post("planiCorto")>>
      OBVIOUS
    <3>2. Sigue(h, ops)
      BY <2>10, <3>1 DEF LiberarConEntrega
    <3>3. Len(ops) = 1 /\ ops[1] = sem_post("planiCorto")
      BY <3>1
    <3>4. \A i \in 1..Len(ops) : i = 1
      BY <3>3
    <3>5. Suelta(h, ops)
      BY <3>3, <3>4 DEF Suelta, EsFin, EsBaja, Empuja, Propia, Op, sem_post
    <3>6. ops \in Seq(Conocidas)
      <4>1. sem_post("planiCorto") \in Conocidas
        BY DEF sem_post, Op, Conocidas, Semaforos
      <4>2. QED
        BY <3>1, <4>1, ListaDeUna
    <3>7. QED
      BY <1>1, <3>2, <3>5, <3>6, SueltaBuena DEF Brota
  <2>11. CASE DetectarDeadlock(h)
    <3>1. Llama(h, "deteccion_deadlock")
      BY <2>11 DEF DetectarDeadlock
    <3>2. PICK p \in Pids : p = De(h)
      BY <1>1, <3>1, CampoPid DEF PTypeOK
    <3>3. PICK ops : ops = <<Simple("colgado", p)>>
      OBVIOUS
    <3>4. Len(ops) = 1 /\ ops[1] = Simple("colgado", p)
      BY <3>3
    <3>5. \A i \in 1..Len(ops) : i = 1
      BY <3>4
    <3>6. Suelta(h, ops)
      BY <3>4, <3>5 DEF Suelta, EsFin, EsBaja, Empuja, Propia, Op, Simple
    <3>7. ops \in Seq(Conocidas)
      BY <3>3, OpsSimples, ListaDeUna
    <3>8. Sigue(h, ops) => Brota(h)
      BY <3>6, <3>7, SueltaBuena DEF Brota
    <3>9. Avanza(h) \/ Sigue(h, ops)
      BY <2>11, <3>2, <3>3 DEF DetectarDeadlock
    <3>10. QED
      BY <1>1, <1>2, <3>8, <3>9
  <2>12. QED
    BY <1>2, <2>1, <2>3, <2>4, <2>5, <2>6, <2>7, <2>8, <2>9, <2>10, <2>11
       DEF Llamada, CambiarEstado, SemPost, SemWait, PushColaCorto, QueuePush, OrdenarAdelante,
           Responder, Avisar, QuitarDeColas, LiberarSinEntrega, PedirMemoria, BajarMulti,
           PushColaLargo, DespertarLargo, BorrarProceso
<1>5. QED
  BY <1>2, <1>3, <1>4 DEF Corrientes

(* What that does to the lists, and to the processes that are to be        *)
(* discounted.                                                             *)
EnFin  == CuentaEn(hilo, Fines)
EnBaja == CuentaEn(hilo, Bajas)
Balance(h) == EnFin' + Vale(Head(hilo[h]), Fines) + EnBaja
              = EnFin + EnBaja' + Vale(Head(hilo[h]), Bajas)

FinesNaturales == EnFin \in Nat /\ EnBaja \in Nat

LEMMA NumerosDeFin == PTypeOK => FinesNaturales
BY HilosFinitos, CuentaEnNatural DEF FinesNaturales, EnFin, EnBaja, PTypeOK, TipoHilos

LEMMA NumerosDeFinDespues == PTypeOK' => FinesNaturales'
BY NumerosDeFin, PTL

LEMMA ConocidasFijas == UNCHANGED <<Fines, Bajas>>
BY DEF Fines, Bajas, EsFin, EsBaja, Conocidas, Estados, Semaforos, SinArg

LEMMA LlamadaProlija ==
  ASSUME FInv, PTypeOK', Prolijas, NEW h \in Hilos, Llamada(h), ~EscribirSinAbrir(h)
  PROVE  Prolijas' /\ Balance(h) /\ hilo[h] # <<>>
<1>1. hilo[h] # <<>> /\ (Brota(h) \/ \E s \in Sueltos : BrotaEn(h, s))
  BY LlamadaBrota
<1>2. hilo \in [Hilos -> Seq(Conocidas)] /\ Prolija(h, Tail(hilo[h])) /\ Tail(hilo[h]) \in Seq(Conocidas)
  <2>1. hilo \in [Hilos -> Seq(Conocidas)] /\ hilo[h] \in Seq(Conocidas)
    BY DEF FInv, PTypeOK, TipoHilos
  <2>2. QED
    BY <1>1, <2>1, ProlijaResto DEF Prolijas
<1>3. /\ Vale(Head(hilo[h]), Fines) \in Nat /\ Vale(Head(hilo[h]), Bajas) \in Nat
      /\ EnFin \in Nat /\ EnBaja \in Nat /\ EnFin' \in Nat /\ EnBaja' \in Nat
  BY NumerosDeFin, NumerosDeFinDespues DEF FinesNaturales, Vale, FInv
<1>4. EnFin' = CuentaEn(hilo', Fines) /\ EnBaja' = CuentaEn(hilo', Bajas)
  BY ConocidasFijas DEF EnFin, EnBaja
<1>5. ASSUME NEW ops \in Seq(Conocidas), Pareja(ops),
             \A S : CuentaEn(hilo', S) + Vale(Head(hilo[h]), S) = CuentaEn(hilo, S) + Cuenta(ops, S)
      PROVE  Balance(h)
  <2>1. /\ EnFin' + Vale(Head(hilo[h]), Fines) = EnFin + Cuenta(ops, Fines)
        /\ EnBaja' + Vale(Head(hilo[h]), Bajas) = EnBaja + Cuenta(ops, Bajas)
    BY <1>4, <1>5 DEF EnFin, EnBaja
  <2>2. Cuenta(ops, Fines) = Cuenta(ops, Bajas) /\ Cuenta(ops, Fines) \in Nat
    BY <1>5, CuentaNatural DEF Pareja
  <2> DEFINE a == EnFin'
             b == EnBaja'
             c == EnFin
             d == EnBaja
             e == Vale(Head(hilo[h]), Fines)
             f == Vale(Head(hilo[h]), Bajas)
             n == Cuenta(ops, Fines)
  <2>3. a \in Nat /\ b \in Nat /\ c \in Nat /\ d \in Nat /\ e \in Nat /\ f \in Nat /\ n \in Nat
    BY <1>3, <2>2
  <2>4. a + e = c + n /\ b + f = d + n
    BY <2>1, <2>2
  <2>5. SUFFICES a + e + d = c + b + f
    BY DEF Balance
  <2> HIDE DEF a, b, c, d, e, f, n
  <2>6. QED
    BY <2>3, <2>4
<1>6. CASE Brota(h)
  <2>1. PICK ops \in Seq(Conocidas) : Sigue(h, ops) /\ Buena(h, ops)
    BY <1>6 DEF Brota
  <2>2. hilo' = [hilo EXCEPT ![h] = ops \o Tail(@)]
    BY <2>1 DEF Sigue
  <2>3. \A S : CuentaEn(hilo', S) + Vale(Head(hilo[h]), S) = CuentaEn(hilo, S) + Cuenta(ops, S)
    BY <1>1, <2>2, HiloCambia DEF FInv
  <2>4. Balance(h)
    BY <1>5, <2>1, <2>3 DEF Buena
  <2>5. Prolija(h, ops \o Tail(hilo[h]))
    BY <1>2, <2>1, ProlijaUnir DEF Buena
  <2>6. ASSUME NEW g \in Hilos
        PROVE  Prolija(g, hilo'[g])
    <3>1. CASE g = h
      BY <1>2, <2>2, <2>5, <3>1
    <3>2. CASE g # h
      BY <1>2, <2>2, <3>2 DEF Prolijas
    <3>3. QED
      BY <3>1, <3>2
  <2>7. QED
    BY <1>1, <2>4, <2>6 DEF Prolijas, Prolija, Pegada, Propia, EsFin, EsBaja, Empuja, Aviso, sem_post,
       Op, Hilos
<1>7. CASE \E s \in Sueltos : BrotaEn(h, s)
  <2>1. PICK s \in Sueltos : BrotaEn(h, s)
    BY <1>7
  <2>2. PICK ops \in Seq(Conocidas) : Lanza(h, s, ops) /\ Buena(s, ops)
    BY <2>1 DEF BrotaEn
  <2>3. s \in Hilos /\ hilo[s] = <<>> /\ s # h
    BY <1>1, <2>1 DEF Hilos, BrotaEn
  <2>4. \A S : CuentaEn(hilo', S) + Vale(Head(hilo[h]), S) = CuentaEn(hilo, S) + Cuenta(ops, S)
    BY <1>1, <2>2, <2>3, LanzaCuenta DEF FInv
  <2>5. Balance(h)
    BY <1>5, <2>2, <2>4 DEF Buena
  <2>6. hilo' = [hilo EXCEPT ![h] = Tail(@), ![s] = ops]
    BY <2>2 DEF Lanza
  <2>7. ASSUME NEW g \in Hilos
        PROVE  Prolija(g, hilo'[g])
    <3>1. CASE g = h
      BY <1>2, <2>3, <2>6, <3>1
    <3>2. CASE g = s
      BY <1>2, <2>2, <2>3, <2>6, <3>2 DEF Buena
    <3>3. CASE g # h /\ g # s
      BY <1>2, <2>6, <3>3 DEF Prolijas
    <3>4. QED
      BY <3>1, <3>2, <3>3
  <2>8. QED
    BY <1>1, <2>5, <2>7 DEF Prolijas, Prolija, Pegada, Propia, EsFin, EsBaja, Empuja, Aviso, sem_post,
       Op, Hilos
<1>8. QED
  BY <1>1, <1>6, <1>7

-----------------------------------------------------------------------------
(* The steps that are not of a thread that is a list: the only lists they  *)
(* touch are those of threads with nothing to do.                          *)
Equilibrio == EnFin' + EnBaja = EnFin + EnBaja'

LEMMA DaBuena ==
  ASSUME PTypeOK, PTypeOK', Prolijas, NEW h \in Hilos, NEW ops \in Seq(Conocidas), Dale(h, ops),
         Buena(h, ops)
  PROVE  Prolijas' /\ Equilibrio
<1>1. /\ CuentaEn(hilo', Fines) = CuentaEn(hilo, Fines) + Cuenta(ops, Fines)
      /\ CuentaEn(hilo', Bajas) = CuentaEn(hilo, Bajas) + Cuenta(ops, Bajas)
  BY DaLista
<1>2. /\ EnFin' = EnFin + Cuenta(ops, Fines)
      /\ EnBaja' = EnBaja + Cuenta(ops, Fines)
      /\ Cuenta(ops, Fines) \in Nat
  BY <1>1, ConocidasFijas, CuentaNatural DEF EnFin, EnBaja, Buena, Pareja
<1>3. Equilibrio
  BY <1>2, NumerosDeFin DEF Equilibrio, FinesNaturales
<1>4. hilo' = [hilo EXCEPT ![h] = ops] /\ hilo \in [Hilos -> Seq(Conocidas)]
  BY DEF Dale, PTypeOK, TipoHilos
<1>5. ASSUME NEW g \in Hilos
      PROVE  Prolija(g, hilo'[g])
  BY <1>4 DEF Prolijas, Buena
<1>6. QED
  BY <1>3, <1>5 DEF Prolijas, Prolija, Pegada, Propia, EsFin, EsBaja, Empuja, Aviso, sem_post, Op, Hilos

LEMMA HilosIguales ==
  ASSUME Prolijas, UNCHANGED hilo
  PROVE  Prolijas' /\ EnFin' = EnFin /\ EnBaja' = EnBaja
<1>1. EnFin' = EnFin /\ EnBaja' = EnBaja
  BY ConocidasFijas DEF EnFin, EnBaja
<1>2. Prolijas'
  BY DEF Prolijas, Prolija, Pegada, Propia, EsFin, EsBaja, Empuja, Aviso, sem_post, Op, Hilos
<1>3. QED
  BY <1>1, <1>2

LEMMA ContextoProlijo ==
  ASSUME FInv, PTypeOK', Prolijas, RecibirContexto
  PROVE  Prolijas' /\ Equilibrio
<1>1. PICK m : m = Head(canalContexto)
  OBVIOUS
<1>2. PICK ops : ops = Atencion(m.motivo, m.pid, m.arg)
  OBVIOUS
<1>3. m.pid \in Pids /\ ops \in Seq(Conocidas) /\ Dale("despacho", ops)
  BY <1>1, <1>2, ContextoRecibido
<1>4. canalContexto # <<>> /\ canalContexto' = Tail(canalContexto)
  BY DEF RecibirContexto
<1>5. m.motivo \in MotivosFIFO /\ m.arg \in Args \cup {0}
  BY <1>1, <1>4, ContextoResto DEF Contextos
<1>6. Buena("despacho", ops)
  BY <1>2, <1>3, <1>5, AtencionBuena
<1>7. "despacho" \in Hilos
  BY DEF Hilos
<1>8. QED
  BY <1>3, <1>6, <1>7, DaBuena DEF FInv

LEMMA MemoriaProlija ==
  ASSUME FInv, PTypeOK', Prolijas, MemoriaResponde
  PROVE  Prolijas' /\ Equilibrio
<1>1. CASE UNCHANGED hilo
  BY <1>1, HilosIguales, NumerosDeFin DEF Equilibrio, FInv, FinesNaturales
<1>2. ASSUME NEW ops, ops \in Seq(Conocidas), Dale("memoria", ops), Suelta("memoria", ops)
      PROVE  Prolijas' /\ Equilibrio
  BY <1>2, SueltaBuena, DaBuena DEF FInv, Hilos
<1>3. PICK m : m = Head(canalMemoria)
  OBVIOUS
<1>4. m.pid \in Pids
  <2>1. canalMemoria \in Seq(Pedidos) /\ canalMemoria # <<>>
    BY DEF FInv, PTypeOK, TipoHilos, Pedidos, MemoriaResponde
  <2>2. m \in Pedidos
    BY <1>3, <2>1
  <2>3. QED
    BY <2>2 DEF Pedidos
<1>5. PICK p \in Pids : p = m.pid
  BY <1>4
<1>6. /\ Simple("push_colaLargo", p) \in Conocidas /\ Simple("borrar_proceso", p) \in Conocidas
      /\ Simple("despertar_largo", 0) \in Conocidas /\ sem_post("procesoCargado") \in Conocidas
  BY OpsConocidas, OpsSimples DEF Semaforos
<1>7. CASE hilo' = [hilo EXCEPT !["memoria"] =
             <<Simple("push_colaLargo", m.pid), Simple("despertar_largo", 0), sem_post("procesoCargado")>>]
  <2>1. PICK ops : ops = <<Simple("push_colaLargo", p), Simple("despertar_largo", 0),
                           sem_post("procesoCargado")>>
    OBVIOUS
  <2>2. Dale("memoria", ops)
    BY <1>5, <1>7, <2>1 DEF Dale, MemoriaResponde
  <2>3. ops \in Seq(Conocidas)
    BY <1>6, <2>1, ListaDeTres
  <2>4. /\ Len(ops) = 3 /\ ops[1] = Simple("push_colaLargo", p)
        /\ ops[2] = Simple("despertar_largo", 0) /\ ops[3] = sem_post("procesoCargado")
    BY <2>1
  <2>5. \A i \in 1..Len(ops) : i \in {1, 2, 3}
    BY <2>4
  <2>6. Suelta("memoria", ops)
    BY <2>4, <2>5 DEF Suelta, EsFin, EsBaja, Empuja, Propia, Op, Simple, sem_post
  <2>7. QED
    BY <1>2, <2>2, <2>3, <2>6
<1>8. CASE hilo' = [hilo EXCEPT !["memoria"] =
             <<Simple("borrar_proceso", m.pid), sem_post("procesoCargado")>>]
  <2>1. PICK ops : ops = <<Simple("borrar_proceso", p), sem_post("procesoCargado")>>
    OBVIOUS
  <2>2. Dale("memoria", ops)
    BY <1>5, <1>8, <2>1 DEF Dale, MemoriaResponde
  <2>3. ops \in Seq(Conocidas)
    BY <1>6, <2>1, ListaDeDos
  <2>4. /\ Len(ops) = 2 /\ ops[1] = Simple("borrar_proceso", p) /\ ops[2] = sem_post("procesoCargado")
    BY <2>1
  <2>5. \A i \in 1..Len(ops) : i \in {1, 2}
    BY <2>4
  <2>6. Suelta("memoria", ops)
    BY <2>4, <2>5 DEF Suelta, EsFin, EsBaja, Empuja, Propia, Op, Simple, sem_post
  <2>7. QED
    BY <1>2, <2>2, <2>3, <2>6
<1>9. QED
  BY <1>1, <1>3, <1>7, <1>8 DEF MemoriaResponde

LEMMA ConsolaProlija ==
  ASSUME SoloFIFO, FInv, PTypeOK', Prolijas, hilo_consola
  PROVE  Prolijas' /\ Equilibrio
<1>1. CASE UNCHANGED hilo
  BY <1>1, HilosIguales, NumerosDeFin DEF Equilibrio, FInv, FinesNaturales
<1>2. CASE iniciar_proceso
  <2>1. PICK ops : ops = <<sem_wait("procesoCargado")>>
    OBVIOUS
  <2>2. Dale("consola", ops)
    BY <1>2, <2>1 DEF Dale, iniciar_proceso, Lista
  <2>3. ops \in Seq(Conocidas)
    <3>1. sem_wait("procesoCargado") \in Conocidas
      BY DEF sem_wait, Op, Conocidas, Semaforos
    <3>2. QED
      BY <2>1, <3>1, ListaDeUna
  <2>4. Len(ops) = 1 /\ ops[1] = sem_wait("procesoCargado")
    BY <2>1
  <2>5. \A i \in 1..Len(ops) : i = 1
    BY <2>4
  <2>6. Suelta("consola", ops)
    BY <2>4, <2>5 DEF Suelta, EsFin, EsBaja, Empuja, Propia, Op, sem_wait
  <2>7. QED
    BY <2>2, <2>3, <2>6, SueltaBuena, DaBuena DEF FInv, Hilos
<1>3. \A p \in Pids : ~finalizar_proceso(p)
  BY SinKills DEF FInv
<1>4. QED
  BY <1>1, <1>2, <1>3, Zenon DEF hilo_consola, detener_planificacion, iniciar_planificacion,
     multiprogramacion, FijoEnConsola

-----------------------------------------------------------------------------
(* The degree: a process is admitted before it is counted and ends before  *)
(* it is discounted, so the two numbers differ by what is in between.      *)
Contando  == Uno(largo.pc = "contar")
Reservado == Uno(largo.pc \in {"admitir", "contar"})
GradoContado ==
  /\ Cardinality(Admitidos) + EnBaja = multi + Contando + EnFin
  /\ multi + Reservado <= grado
GradoNoBaja == grado' >= grado

LEMMA PidsFinitos ==
  ASSUME NEW S, S \subseteq Pids
  PROVE  IsFiniteSet(S) /\ Cardinality(S) \in Nat
<1>1. IsFiniteSet(Pids)
  BY FS_Interval, MaxProcesosAssumption DEF Pids
<1>2. QED
  BY <1>1, FS_Subset, FS_CardinalityType

LEMMA FinesBajan ==
  ASSUME PTypeOK, Prolijas
  PROVE  EnFin <= EnBaja
<1> DEFINE A == Dispersos(hilo, Fines)
           B == Dispersos(hilo, Bajas)
           f == [x \in A |-> <<x[1], x[2] + 1>>]
<1>1. hilo \in [Hilos -> Seq(Conocidas)] /\ DOMAIN hilo = Hilos
  BY DEF PTypeOK, TipoHilos
<1>2. /\ \A x \in A : x[1] \in Hilos /\ x[2] \in Posiciones(hilo[x[1]], Fines) /\ x = <<x[1], x[2]>>
      /\ \A d \in Hilos : \A i \in Posiciones(hilo[d], Bajas) : <<d, i>> \in B
  BY <1>1 DEF Dispersos
<1>3. ASSUME NEW d \in Hilos, NEW i \in Posiciones(hilo[d], Fines)
      PROVE  i \in Nat /\ i + 1 \in Posiciones(hilo[d], Bajas)
  <2>1. i \in 1..Len(hilo[d]) /\ EsFin(hilo[d][i]) /\ Len(hilo[d]) \in Nat
    BY <1>1, <1>3 DEF Posiciones, Fines
  <2>2. i + 1 \in 1..Len(hilo[d]) /\ EsBaja(hilo[d][i + 1])
    BY <2>1 DEF Prolijas, Prolija, Pegada
  <2>3. hilo[d][i + 1] \in Conocidas
    BY <1>1, <2>2
  <2>4. QED
    BY <2>1, <2>2, <2>3 DEF Posiciones, Bajas
<1>4. ASSUME NEW x \in A
      PROVE  f[x] \in B /\ x[2] \in Nat /\ f[x] = <<x[1], x[2] + 1>>
  <2>1. x[1] \in Hilos /\ x[2] \in Posiciones(hilo[x[1]], Fines)
    BY <1>2
  <2>2. x[2] \in Nat /\ x[2] + 1 \in Posiciones(hilo[x[1]], Bajas)
    BY <1>3, <2>1
  <2>3. <<x[1], x[2] + 1>> \in B
    BY <1>2, <2>1, <2>2
  <2>4. QED
    BY <2>2, <2>3
<1>5. ASSUME NEW x \in A, NEW y \in A, f[x] = f[y]
      PROVE  x = y
  <2>1. x[1] = y[1] /\ x[2] + 1 = y[2] + 1
    BY <1>4, <1>5
  <2>2. x[2] = y[2]
    <3>1. x[2] \in Nat /\ y[2] \in Nat
      BY <1>4
    <3> HIDE DEF A, f
    <3>2. QED
      BY <2>1, <3>1
  <2>3. x = <<x[1], x[2]>> /\ y = <<y[1], y[2]>>
    BY <1>2
  <2>4. QED
    BY <2>1, <2>2, <2>3
<1>6. f \in Injection(A, B)
  <2>1. f \in [A -> B]
    BY <1>4
  <2>2. QED
    BY <1>5, <2>1 DEF Injection, IsInjective
<1>7. IsFiniteSet(B)
  BY <1>1, HilosFinitos, DispersosFinitos
<1>8. Cardinality(A) <= Cardinality(B)
  BY <1>6, <1>7, FS_Injection
<1>9. QED
  BY <1>8 DEF EnFin, EnBaja, CuentaEn

LEMMA GradoDeContado ==
  ASSUME PTypeOK, Prolijas, GradoContado
  PROVE  GradoRespetado
<1>1. EnFin \in Nat /\ EnBaja \in Nat /\ EnFin <= EnBaja
  BY FinesBajan, NumerosDeFin DEF FinesNaturales
<1>2. multi \in Int /\ grado \in Nat /\ Contando \in {0, 1} /\ Contando <= Reservado /\ Reservado \in {0, 1}
  BY DEF PTypeOK, TipoColas, TipoConsigna, Contando, Reservado, Uno
<1>3. Cardinality(Admitidos) = multi + Contando + EnFin - EnBaja \/ Cardinality(Admitidos) \notin Int
  BY <1>1, <1>2 DEF GradoContado
<1>4. Cardinality(Admitidos) \in Nat
  BY PidsFinitos DEF Admitidos
<1>5. QED
  BY <1>1, <1>2, <1>3, <1>4 DEF GradoContado, GradoRespetado

(* What a step adds to each side of the count.                             *)
Cuadra ==
  Cardinality(Admitidos)' + EnBaja' + multi + Contando + EnFin
  = Cardinality(Admitidos) + EnBaja + multi' + Contando' + EnFin'
GradoSigue == PTypeOK /\ PTypeOK' /\ GradoContado /\ Cuadra /\ multi' + Reservado' <= grado'

LEMMA CuadraContado == GradoSigue => GradoContado'
<1> SUFFICES ASSUME GradoSigue PROVE GradoContado'
  OBVIOUS
<1> DEFINE a == Cardinality(Admitidos)
           b == EnBaja
           c == multi
           d == Contando
           e == EnFin
           a1 == a'
           b1 == b'
           c1 == c'
           d1 == d'
           e1 == e'
<1>1. a \in Nat /\ a1 \in Nat
  BY PidsFinitos DEF Admitidos
<1>2. b \in Nat /\ b1 \in Nat /\ e \in Nat /\ e1 \in Nat
  BY NumerosDeFin, NumerosDeFinDespues DEF FinesNaturales, GradoSigue
<1>3. c \in Int /\ c1 \in Int /\ d \in {0, 1} /\ d1 \in {0, 1}
  BY DEF GradoSigue, PTypeOK, TipoColas, Contando, Uno
<1>4. a1 + b1 + c + d + e = a + b + c1 + d1 + e1 /\ a + b = c + d + e
  BY DEF GradoSigue, GradoContado, Cuadra
<1>5. SUFFICES a1 + b1 = c1 + d1 + e1
  BY DEF GradoSigue, GradoContado
<1> HIDE DEF a, b, c, d, e, a1, b1, c1, d1, e1
<1>6. QED
  BY <1>1, <1>2, <1>3, <1>4

(* A call keeps the count: what ends a process takes it from the admitted, *)
(* and what discounts it lowers multiprogramacion.                         *)
LEMMA TerminaSoloFin ==
  ASSUME PTypeOK, NEW h \in Hilos, Llamada(h), ~EsFin(Head(hilo[h])), NEW p \in Pids,
         estado'[p] = "TERMINATED"
  PROVE  estado[p] = "TERMINATED"
<1>1. estado \in [Pids -> Estados]
  BY DEF PTypeOK, TipoTabla
<1>2. CASE CambiarEstado(h)
  <2>1. Head(hilo[h]).op = "cambiar_estado" /\ Head(hilo[h]).arg # "TERMINATED"
    BY <1>2 DEF CambiarEstado, Llama, EsFin
  <2>2. estado' = [estado EXCEPT ![De(h)] = Head(hilo[h]).arg]
    BY <1>2 DEF CambiarEstado
  <2>3. QED
    BY <1>1, <2>1, <2>2
<1>3. CASE PushColaCorto(h) \/ SignalValido(h) \/ LiberarConEntrega(h) \/ BorrarProceso(h)
  <2>1. \/ UNCHANGED estado
        \/ \E q, e : estado' = [estado EXCEPT ![q] = e] /\ e \in {"READY", "NULO"}
    BY <1>3 DEF PushColaCorto, SignalValido, LiberarConEntrega, BorrarProceso
  <2>2. QED
    BY <1>1, <2>1
<1>4. CASE UNCHANGED estado
  BY <1>4
<1>5. QED
  BY <1>2, <1>3, <1>4, EscribirQuieta
  DEF Llamada, SemPost, SemWait, PushSiEXEC, QueuePush, OrdenarAdelante, Responder,
     HiloFuncion, WaitConInstancia, WaitSinInstancia, DetectarDeadlock, WaitInvalido, SignalInvalido, Avisar, Salida,
     QuitarDeColas, LiberarSinEntrega, PedirMemoria, BajarMulti, PushColaLargo, DespertarLargo

LEMMA LlamadaMudado ==
  ASSUME FInv, PTypeOK', NEW h \in Hilos, Llamada(h), ~EscribirSinAbrir(h), NEW p \in Pids
  PROVE  Mudado(p)
<1>1. CASE h \in Corrientes
  BY <1>1, LlamadaMarcha DEF Marcha, Tras
<1>2. CASE h \in {"consola", "memoria"}
  BY <1>2, CargaDespacho DEF Mudado
<1>3. QED
  BY <1>1, <1>2 DEF Corrientes

LEMMA FinCorriente ==
  ASSUME FInv, NEW h \in Hilos, Llamada(h), EsFin(Head(hilo[h]))
  PROVE  /\ De(h) \in Pids /\ estado[De(h)] \in Admitida
         /\ estado' = [estado EXCEPT ![De(h)] = "TERMINATED"]
<1>1. hilo[h] # <<>> /\ PTypeOK
  BY SoloEsa DEF FInv
<1>2. Head(hilo[h]).op = "cambiar_estado" /\ Head(hilo[h]).arg = "TERMINATED"
  BY DEF EsFin
<1>3. CambiarEstado(h)
  BY <1>2, EscribirQuieta
  DEF Llamada, Llama, SemPost, SemWait, PushColaCorto, PushSiEXEC, QueuePush, OrdenarAdelante,
     Responder, HiloFuncion, WaitConInstancia, WaitSinInstancia, DetectarDeadlock, WaitInvalido,
     SignalValido, SignalInvalido, Avisar, Salida, QuitarDeColas, LiberarSinEntrega,
     LiberarConEntrega, PedirMemoria, BajarMulti, PushColaLargo, DespertarLargo, BorrarProceso
<1>4. h \in Corrientes
  <2>1. CASE h = "consola"
    <3>1. Head(<<sem_wait("procesoCargado")>>).op = "sem_wait"
      BY DEF sem_wait, Op
    <3>2. QED
      BY <1>1, <1>2, <2>1, <3>1 DEF FInv, HilosBien
  <2>2. CASE h = "memoria"
    <3>1. Head(hilo[h]).op \in {"sem_post", "despertar_largo", "push_colaLargo", "borrar_proceso"}
      BY <1>1, <2>2, ListaDeMemoria DEF Cargado, Simple, Op, sem_post
    <3>2. QED
      BY <1>2, <3>1
  <2>3. QED
    BY <2>1, <2>2 DEF Corrientes
<1>5. De(h) \in Pids
  BY <1>1, <1>3, CampoPid DEF PTypeOK, CambiarEstado
<1>6. PICK q \in Pids : q = De(h)
  BY <1>5
<1>7. Ubica(Head(hilo[h]))
  BY <1>2 DEF Ubica
<1>8. \E i \in 1..Len(hilo[h]) : hilo[h][i] \in OpsDe(q)
  BY <1>1, <1>4, <1>6, <1>7, CabezaCorriente DEF OpsDe, De, FInv
<1>9. EnHilos(q) > 0
  BY <1>1, <1>8, HilosFinitos, CuentaEnNatural DEF EnHilos, PTypeOK, TipoHilos
<1>10. estado[q] \in Admitida
  BY <1>1, <1>9, Lugar DEF FInv
<1>11. estado' = [estado EXCEPT ![De(h)] = "TERMINATED"]
  BY <1>2, <1>3 DEF CambiarEstado
<1>12. QED
  BY <1>5, <1>6, <1>10, <1>11

LEMMA LlamadaAdmitidos ==
  ASSUME FInv, PTypeOK', NEW h \in Hilos, Llamada(h), ~EscribirSinAbrir(h)
  PROVE  Cardinality(Admitidos') + Vale(Head(hilo[h]), Fines) = Cardinality(Admitidos)
<1>1. estado \in [Pids -> Estados] /\ estado' \in [Pids -> Estados]
  BY DEF FInv, PTypeOK, TipoTabla
<1>2. IsFiniteSet(Admitidos) /\ Cardinality(Admitidos) \in Nat
  BY PidsFinitos DEF Admitidos
<1>3. Head(hilo[h]) \in Conocidas
  <2>1. hilo[h] # <<>> /\ hilo[h] \in Seq(Conocidas)
    BY SoloEsa DEF FInv, PTypeOK, TipoHilos
  <2>2. QED
    BY <2>1
<1>4. CASE EsFin(Head(hilo[h]))
  <2>1. PICK q \in Pids : q = De(h)
    BY <1>4, FinCorriente
  <2>2. estado[q] \in Admitida /\ estado' = [estado EXCEPT ![q] = "TERMINATED"]
    BY <1>4, <2>1, FinCorriente
  <2>3. q \in Admitidos
    BY <2>2 DEF Admitidos, Admitida
  <2>4. Admitidos' = Admitidos \ {q}
    BY <1>1, <2>2 DEF Admitidos
  <2>5. Cardinality(Admitidos') = Cardinality(Admitidos) - 1
    BY <1>2, <2>3, <2>4, FS_RemoveElement
  <2>6. Vale(Head(hilo[h]), Fines) = 1
    BY <1>3, <1>4 DEF Vale, Fines
  <2>7. QED
    BY <1>2, <2>5, <2>6
<1>5. CASE ~EsFin(Head(hilo[h]))
  <2>1. ASSUME NEW p \in Pids
        PROVE  estado'[p] \in Admitida <=> estado[p] \in Admitida
    <3>1. Mudado(p)
      BY LlamadaMudado
    <3>2. estado'[p] = "TERMINATED" => estado[p] = "TERMINATED"
      BY <1>5, TerminaSoloFin DEF FInv
    <3>3. QED
      BY <3>1, <3>2 DEF Mudado, Admitida
  <2>2. Admitidos' = Admitidos
    BY <2>1 DEF Admitidos, Admitida
  <2>3. Vale(Head(hilo[h]), Fines) = 0
    BY <1>5 DEF Vale, Fines
  <2>4. QED
    BY <1>2, <2>2, <2>3
<1>6. QED
  BY <1>4, <1>5

LEMMA LlamadaMulti ==
  ASSUME FInv, NEW h \in Hilos, Llamada(h)
  PROVE  multi' + Vale(Head(hilo[h]), Bajas) = multi
<1>1. multi \in Int
  BY DEF FInv, PTypeOK, TipoColas
<1>2. Head(hilo[h]) \in Conocidas
  <2>1. hilo[h] # <<>> /\ hilo[h] \in Seq(Conocidas)
    BY SoloEsa DEF FInv, PTypeOK, TipoHilos
  <2>2. QED
    BY <2>1
<1>3. CASE BajarMulti(h)
  <2>1. EsBaja(Head(hilo[h])) /\ multi' = multi - 1
    BY <1>3 DEF BajarMulti, Llama, EsBaja
  <2>2. Vale(Head(hilo[h]), Bajas) = 1
    BY <1>2, <2>1 DEF Vale, Bajas
  <2>3. QED
    BY <1>1, <2>1, <2>2
<1>4. CASE ~BajarMulti(h)
  <2>1. multi' = multi /\ Head(hilo[h]).op # "bajar_multi"
    BY <1>4, EscribirQuieta
    DEF Llamada, Llama, CambiarEstado, SemPost, SemWait, PushColaCorto, PushSiEXEC, QueuePush,
       OrdenarAdelante, Responder, HiloFuncion, WaitConInstancia, WaitSinInstancia, DetectarDeadlock,
       WaitInvalido,
       SignalValido, SignalInvalido, Avisar, Salida, QuitarDeColas, LiberarSinEntrega,
       LiberarConEntrega, PedirMemoria, PushColaLargo, DespertarLargo, BorrarProceso
  <2>2. Vale(Head(hilo[h]), Bajas) = 0
    BY <2>1 DEF Vale, Bajas, EsBaja
  <2>3. QED
    BY <1>1, <2>1, <2>2
<1>5. QED
  BY <1>3, <1>4

LEMMA LlamadaGrado ==
  ASSUME FInv, PTypeOK', Prolijas, GradoContado, NEW h \in Hilos, Llamada(h), ~EscribirSinAbrir(h)
  PROVE  GradoSigue
<1>1. Balance(h)
  BY LlamadaProlija
<1>2. multi' + Vale(Head(hilo[h]), Bajas) = multi
  BY LlamadaMulti
<1>3. Cardinality(Admitidos)' + Vale(Head(hilo[h]), Fines) = Cardinality(Admitidos)
  BY LlamadaAdmitidos
<1>4. FijoEnLlamadas
  BY LlamadaFija
<1>5. Contando' = Contando /\ Reservado' = Reservado /\ grado' = grado
  BY <1>4 DEF FijoEnLlamadas, consigna, Contando, Reservado
<1>6. PTypeOK /\ multi \in Int /\ multi' \in Int /\ grado \in Nat /\ Contando \in {0, 1} /\ Reservado \in {0, 1}
  BY DEF FInv, PTypeOK, TipoColas, TipoConsigna, Contando, Reservado, Uno
<1>7. EnFin \in Nat /\ EnBaja \in Nat /\ EnFin' \in Nat /\ EnBaja' \in Nat
  BY <1>6, NumerosDeFin, NumerosDeFinDespues DEF FinesNaturales
<1>8. Cardinality(Admitidos)' \in Nat /\ Cardinality(Admitidos) \in Nat
  BY PidsFinitos DEF Admitidos
<1>9. Vale(Head(hilo[h]), Bajas) \in {0, 1} /\ Vale(Head(hilo[h]), Fines) \in {0, 1}
  BY ValeUnoOCero
<1>10. multi' + Reservado' <= grado'
  <2> DEFINE vb == Vale(Head(hilo[h]), Bajas)
             r  == Reservado
             c1 == multi'
  <2>1. vb \in {0, 1} /\ r \in {0, 1} /\ c1 \in Int /\ multi \in Int /\ grado \in Nat
    BY <1>6, <1>9
  <2>2. c1 + vb = multi /\ multi + r <= grado
    BY <1>2 DEF GradoContado
  <2>3. SUFFICES c1 + r <= grado
    BY <1>5
  <2> HIDE DEF vb, r, c1
  <2>4. QED
    BY <2>1, <2>2
<1>11. Cuadra
  <2> DEFINE a == Cardinality(Admitidos)
             b == EnBaja
             e == EnFin
             a1 == a'
             b1 == b'
             e1 == e'
             vf == Vale(Head(hilo[h]), Fines)
             vb == Vale(Head(hilo[h]), Bajas)
             c == multi
             d == Contando
             c1 == multi'
             d1 == Contando'
  <2>1. /\ a \in Nat /\ b \in Nat /\ e \in Nat /\ a1 \in Nat /\ b1 \in Nat /\ e1 \in Nat
        /\ vf \in {0, 1} /\ vb \in {0, 1} /\ c \in Int /\ d \in {0, 1} /\ c1 \in Int /\ d1 = d
    BY <1>5, <1>6, <1>7, <1>8, <1>9
  <2>2. e1 + vf + b = e + b1 + vb /\ c1 + vb = c /\ a1 + vf = a
    BY <1>1, <1>2, <1>3 DEF Balance
  <2>3. SUFFICES a1 + b1 + c + d + e = a + b + c1 + d1 + e1
    BY DEF Cuadra
  <2> HIDE DEF a, b, c, d, e, a1, b1, c1, d1, e1, vf, vb
  <2>4. QED
    BY <2>1, <2>2
<1>12. QED
  BY <1>6, <1>10, <1>11 DEF GradoSigue

(* The steps of the schedulers, of the CPU, of the sockets and of the      *)
(* console.                                                                *)
LEMMA QuietoGrado ==
  ASSUME PTypeOK, PTypeOK', GradoContado, Equilibrio, Admitidos' = Admitidos, grado' >= grado,
         multi' = multi, Contando' = Contando, Reservado' <= Reservado
  PROVE  GradoSigue
<1>1. /\ multi \in Int /\ grado \in Nat /\ grado' \in Nat /\ Contando \in {0, 1}
      /\ Reservado \in {0, 1} /\ Reservado' \in {0, 1}
  BY DEF PTypeOK, TipoColas, TipoConsigna, Contando, Reservado, Uno
<1>2. EnFin \in Nat /\ EnBaja \in Nat /\ EnFin' \in Nat /\ EnBaja' \in Nat
  BY NumerosDeFin, NumerosDeFinDespues DEF FinesNaturales
<1>3. Cardinality(Admitidos) \in Nat /\ Cardinality(Admitidos') = Cardinality(Admitidos)
  BY PidsFinitos DEF Admitidos
<1>4. multi' + Reservado' <= grado'
  <2> DEFINE r  == Reservado
             r1 == r'
             g1 == grado'
  <2>1. r \in {0, 1} /\ r1 \in {0, 1} /\ g1 \in Nat /\ grado \in Nat /\ multi \in Int
    BY <1>1
  <2>2. multi + r <= grado /\ g1 >= grado /\ r1 <= r
    BY DEF GradoContado
  <2>3. SUFFICES multi + r1 <= g1
    OBVIOUS
  <2> HIDE DEF r, r1, g1
  <2>4. QED
    BY <2>1, <2>2
<1>5. Cuadra
  <2> DEFINE a == Cardinality(Admitidos)
             b == EnBaja
             e == EnFin
             d == Contando
             a1 == a'
             b1 == b'
             e1 == e'
             d1 == d'
  <2>1. /\ a \in Nat /\ b \in Nat /\ e \in Nat /\ b1 \in Nat /\ e1 \in Nat /\ d \in {0, 1}
        /\ multi \in Int
    BY <1>1, <1>2, <1>3
  <2>2. a1 = a /\ d1 = d /\ e1 + b = e + b1
    BY <1>3 DEF Equilibrio
  <2>3. SUFFICES a1 + b1 + multi + d + e = a + b + multi + d1 + e1
    BY DEF Cuadra
  <2> HIDE DEF a, b, d, e, a1, b1, d1, e1
  <2>4. QED
    BY <2>1, <2>2
<1>6. QED
  BY <1>4, <1>5 DEF GradoSigue

LEMMA LargoGrado ==
  ASSUME FInv, PTypeOK', Prolijas, GradoContado, planificador_largo
  PROVE  GradoSigue
<1>1. UNCHANGED <<consigna, hilo>> /\ FijoEnLargo
  BY DEF planificador_largo, LargoDespierta, LargoToma, LargoAdmite, LargoCuenta, LargoTermina, FijoEnLargo
<1>2. grado' = grado /\ EnFin' = EnFin /\ EnBaja' = EnBaja
  BY <1>1, HilosIguales DEF consigna
<1>3. PTypeOK /\ multi \in Int /\ grado \in Nat /\ EnFin \in Nat /\ EnBaja \in Nat
  BY NumerosDeFin DEF FInv, PTypeOK, TipoColas, TipoConsigna, FinesNaturales
<1>4. Equilibrio
  BY <1>2, <1>3 DEF Equilibrio
<1>5. Cardinality(Admitidos) \in Nat /\ Cardinality(Admitidos') \in Nat /\ IsFiniteSet(Admitidos)
  BY PidsFinitos DEF Admitidos
<1>6. CASE LargoDespierta \/ LargoTermina
  <2>1. UNCHANGED <<estado, multi>>
    BY <1>6 DEF LargoDespierta, LargoTermina
  <2>2. largo.pc \notin {"admitir", "contar"} /\ largo'.pc \notin {"admitir", "contar"}
    BY <1>6 DEF LargoDespierta, LargoTermina
  <2>3. Contando = 0 /\ Contando' = 0 /\ Reservado = 0 /\ Reservado' = 0
    BY <2>2 DEF Contando, Reservado, Uno
  <2>4. Admitidos' = Admitidos
    BY <2>1 DEF Admitidos
  <2>5. QED
    BY <1>2, <1>3, <1>4, <2>1, <2>3, <2>4, QuietoGrado
<1>7. CASE LargoToma
  <2>1. UNCHANGED <<estado, multi>> /\ largo.pc = "lote" /\ multi < grado
    BY <1>7 DEF LargoToma, HayLugar
  <2>2. largo'.pc \in {"lote", "admitir"}
    BY <1>7, <2>1 DEF LargoToma, FInv, PTypeOK, TipoColas
  <2>3. Contando = 0 /\ Contando' = 0 /\ Reservado' \in {0, 1}
    BY <2>1, <2>2 DEF Contando, Reservado, Uno
  <2>4. Admitidos' = Admitidos
    BY <2>1 DEF Admitidos
  <2>5. Cuadra
    BY <1>2, <1>3, <1>5, <2>1, <2>3, <2>4 DEF Cuadra
  <2>6. multi' + Reservado' <= grado'
    <3> DEFINE r1 == Reservado'
    <3>1. r1 \in {0, 1}
      BY <2>3
    <3>2. SUFFICES multi + r1 <= grado
      BY <1>2, <2>1
    <3> HIDE DEF r1
    <3>3. QED
      BY <1>3, <2>1, <3>1
  <2>7. QED
    BY <1>3, <2>5, <2>6 DEF GradoSigue
<1>8. CASE LargoAdmite
  <2>1. largo.pc = "admitir" /\ largo'.pc = "contar" /\ multi' = multi
    BY <1>3, <1>8 DEF LargoAdmite, PTypeOK, TipoColas
  <2>2. PICK q \in Pids : q = largo.pid
    BY <1>3, <2>1 DEF PTypeOK, TipoColas
  <2>3. EnAdmision(q) = 1
    BY <2>1, <2>2 DEF EnAdmision, Uno
  <2>4. estado[q] = "NEW" /\ estado' = [estado EXCEPT ![q] = "READY"]
    BY <1>8, <2>2, <2>3, UnicoLugar DEF LargoAdmite
  <2>5. q \notin Admitidos /\ Admitidos' = Admitidos \cup {q}
    BY <1>3, <2>4 DEF Admitidos, PTypeOK, TipoTabla
  <2>6. Cardinality(Admitidos') = Cardinality(Admitidos) + 1
    BY <1>5, <2>5, FS_AddElement
  <2>7. Contando = 0 /\ Contando' = 1 /\ Reservado = 1 /\ Reservado' = 1
    BY <2>1 DEF Contando, Reservado, Uno
  <2>8. Cuadra
    BY <1>2, <1>3, <1>5, <2>1, <2>6, <2>7 DEF Cuadra
  <2>9. multi' + Reservado' <= grado'
    BY <1>2, <2>1, <2>7 DEF GradoContado
  <2>10. QED
    BY <1>3, <2>8, <2>9 DEF GradoSigue
<1>9. CASE LargoCuenta
  <2>1. largo.pc = "contar" /\ largo'.pc = "lote" /\ multi' = multi + 1 /\ UNCHANGED estado
    BY <1>9 DEF LargoCuenta
  <2>2. Contando = 1 /\ Contando' = 0 /\ Reservado = 1 /\ Reservado' = 0
    BY <2>1 DEF Contando, Reservado, Uno
  <2>3. Admitidos' = Admitidos
    BY <2>1 DEF Admitidos
  <2>4. Cuadra
    BY <1>2, <1>3, <1>5, <2>1, <2>2, <2>3 DEF Cuadra
  <2>5. multi' + Reservado' <= grado'
    BY <1>2, <1>3, <2>1, <2>2 DEF GradoContado
  <2>6. QED
    BY <1>3, <2>4, <2>5 DEF GradoSigue
<1>10. QED
  BY <1>6, <1>7, <1>8, <1>9 DEF planificador_largo

LEMMA CortoGrado ==
  ASSUME FInv, PTypeOK', Prolijas, GradoContado, planificador_corto
  PROVE  GradoSigue
<1>1. FijoEnCorto
  BY DEF planificador_corto, CortoDespierta, CortoOrdena, CortoMira, CortoCompara, CortoDesalojado,
     CortoToma, CortoMarca, CortoOcupa, CortoEnvia
<1>2. UNCHANGED <<grado, multi, hilo, largo>>
  BY <1>1 DEF FijoEnCorto, consigna
<1>3. PTypeOK /\ multi \in Int /\ grado \in Nat /\ EnFin \in Nat /\ EnBaja \in Nat
  BY NumerosDeFin DEF FInv, PTypeOK, TipoColas, TipoConsigna, FinesNaturales
<1>4. Equilibrio
  BY <1>2, <1>3, HilosIguales DEF Equilibrio
<1>5. Contando' = Contando /\ Reservado' = Reservado /\ Reservado \in {0, 1}
  BY <1>2 DEF Contando, Reservado, Uno
<1>6. Admitidos' = Admitidos
  <2>1. CASE CortoMarca
    <3>1. PICK q \in Pids : q = corto.pid
      BY <1>3, <2>1 DEF CortoMarca, PTypeOK, TipoColas
    <3>2. EnCamino(q) = 1
      BY <3>1 DEF EnCamino, Uno
    <3>3. estado[q] \in Admitida /\ estado' = [estado EXCEPT ![q] = "EXEC"]
      BY <2>1, <3>1, <3>2, UnicoLugar DEF CortoMarca
    <3>4. QED
      BY <1>3, <3>3 DEF Admitidos, Admitida, PTypeOK, TipoTabla
  <2>2. CASE ~CortoMarca
    <3>1. UNCHANGED estado
      BY <2>2 DEF planificador_corto, CortoDespierta, CortoOrdena, CortoMira, CortoCompara,
         CortoDesalojado, CortoToma, CortoOcupa, CortoEnvia
    <3>2. QED
      BY <3>1 DEF Admitidos
  <2>3. QED
    BY <2>1, <2>2
<1>7. QED
  BY <1>2, <1>3, <1>4, <1>5, <1>6, QuietoGrado

LEMMA ConsolaGrado ==
  ASSUME SoloFIFO, FInv, PTypeOK', Prolijas, GradoContado, grado' >= grado, hilo_consola
  PROVE  GradoSigue
<1>1. Equilibrio
  BY ConsolaProlija
<1>2. UNCHANGED <<multi, largo>>
  BY Zenon DEF hilo_consola, iniciar_proceso, finalizar_proceso, detener_planificacion,
     iniciar_planificacion, multiprogramacion, FijoEnConsola
<1>3. Contando' = Contando /\ Reservado' = Reservado /\ Reservado \in {0, 1}
  BY <1>2 DEF Contando, Reservado, Uno
<1>4. PTypeOK
  BY DEF FInv
<1>5. Admitidos' = Admitidos
  <2>1. CASE iniciar_proceso
    <3>1. PICK q \in Pids : q = creados + 1
      BY <2>1 DEF iniciar_proceso
    <3>2. estado[q] = "NULO"
      BY <3>1 DEF FInv, CargaEnOrden
    <3>3. estado' = [estado EXCEPT ![q] = "NEW"]
      BY <2>1, <3>1 DEF iniciar_proceso
    <3>4. QED
      BY <1>4, <3>2, <3>3 DEF Admitidos, PTypeOK, TipoTabla
  <2>2. CASE ~iniciar_proceso
    <3>1. UNCHANGED estado
      BY <2>2, Zenon DEF hilo_consola, finalizar_proceso, detener_planificacion,
         iniciar_planificacion, multiprogramacion, tabla
    <3>2. QED
      BY <3>1 DEF Admitidos
  <2>3. QED
    BY <2>1, <2>2
<1>6. QED
  BY <1>1, <1>2, <1>3, <1>4, <1>5, QuietoGrado

LEMMA OtrosGrado ==
  ASSUME FInv, PTypeOK', GradoContado, Equilibrio, UNCHANGED <<estado, multi, grado, largo>>
  PROVE  GradoSigue
<1>1. Contando' = Contando /\ Reservado' = Reservado /\ Reservado \in {0, 1}
  BY DEF Contando, Reservado, Uno
<1>2. Admitidos' = Admitidos
  BY DEF Admitidos
<1>3. grado' >= grado /\ PTypeOK
  BY DEF FInv, PTypeOK, TipoConsigna
<1>4. QED
  BY <1>1, <1>2, <1>3, QuietoGrado

GradoInv == Prolijas /\ GradoContado

LEMMA GradoInductivo ==
  SoloFIFO /\ FInv /\ GradoInv /\ [PNext]_pvars /\ [GradoNoBaja]_pvars => GradoInv'
<1> SUFFICES ASSUME SoloFIFO, FInv, Prolijas, GradoContado, [PNext]_pvars, [GradoNoBaja]_pvars
             PROVE  Prolijas' /\ GradoSigue
  BY CuadraContado DEF GradoInv
<1>1. PTypeOK /\ PTypeOK'
  BY PTipoInductivo DEF FInv
<1>2. grado' >= grado
  <2>1. grado \in Nat
    BY <1>1 DEF PTypeOK, TipoConsigna
  <2>2. CASE UNCHANGED pvars
    BY <2>1, <2>2 DEF pvars, kernel, consigna
  <2>3. QED
    BY <2>2 DEF GradoNoBaja
<1>3. ASSUME UNCHANGED <<estado, multi, grado, largo, hilo>>
      PROVE  Prolijas' /\ GradoSigue
  <2>1. Prolijas' /\ Equilibrio
    BY <1>1, <1>3, HilosIguales, NumerosDeFin DEF Equilibrio, FinesNaturales
  <2>2. QED
    BY <1>1, <1>3, <2>1, OtrosGrado
<1>4. ASSUME NEW h \in Hilos, Llamada(h) PROVE Prolijas' /\ GradoSigue
  <2>1. CASE EscribirSinAbrir(h)
    BY <1>3, <2>1, EscribirQuieta
  <2>2. CASE ~EscribirSinAbrir(h)
    BY <1>1, <1>4, <2>2, LlamadaProlija, LlamadaGrado
  <2>3. QED
    BY <2>1, <2>2
<1>5. CASE CPUPaso
  BY <1>3, <1>5 DEF CPUPaso, kernel, tabla, consigna
<1>6. CASE RecibirContexto
  <2>1. Prolijas' /\ Equilibrio
    BY <1>1, <1>6, ContextoProlijo
  <2>2. UNCHANGED <<estado, multi, grado, largo>>
    BY <1>6 DEF RecibirContexto, consigna
  <2>3. QED
    BY <1>1, <2>1, <2>2, OtrosGrado
<1>7. CASE MemoriaResponde
  <2>1. Prolijas' /\ Equilibrio
    BY <1>1, <1>7, MemoriaProlija
  <2>2. UNCHANGED <<estado, multi, grado, largo>>
    BY <1>7 DEF MemoriaResponde, tabla
  <2>3. QED
    BY <1>1, <2>1, <2>2, OtrosGrado
<1>8. CASE planificador_largo
  <2>1. UNCHANGED hilo
    BY <1>8 DEF planificador_largo, LargoDespierta, LargoToma, LargoAdmite, LargoCuenta,
       LargoTermina, FijoEnLargo
  <2>2. QED
    BY <1>1, <1>8, <2>1, LargoGrado, HilosIguales
<1>9. CASE planificador_corto
  <2>1. UNCHANGED hilo
    BY <1>9 DEF planificador_corto, CortoDespierta, CortoOrdena, CortoMira, CortoCompara,
       CortoDesalojado, CortoToma, CortoMarca, CortoOcupa, CortoEnvia, FijoEnCorto
  <2>2. QED
    BY <1>1, <1>9, <2>1, CortoGrado, HilosIguales
<1>10. ASSUME NEW p \in Pids, clock_rr(p) PROVE Prolijas' /\ GradoSigue
  BY <1>3, <1>10 DEF clock_rr, tabla
<1>11. CASE hilo_consola
  BY <1>1, <1>2, <1>11, ConsolaProlija, ConsolaGrado
<1>12. CASE UNCHANGED pvars
  BY <1>3, <1>12 DEF pvars, kernel, tabla, consigna
<1>13. QED
  BY <1>4, <1>5, <1>6, <1>7, <1>8, <1>9, <1>10, <1>11, <1>12 DEF PNext

LEMMA ProlijasInicial == PInit => Prolijas
<1> SUFFICES ASSUME PInit PROVE Prolijas
  OBVIOUS
<1>1. \A h \in Hilos : hilo[h] = <<>>
  BY DEF PInit
<1>2. QED
  BY <1>1 DEF Prolijas, Prolija

LEMMA GradoInicialContado == PInit => GradoInv
<1> SUFFICES ASSUME PInit PROVE GradoContado
  BY ProlijasInicial DEF GradoInv
<1>1. EnFin = 0 /\ EnBaja = 0
  <2>1. hilo = [h \in Hilos |-> <<>>]
    BY DEF PInit
  <2>2. QED
    BY <2>1, HilosFinitos, CuentaEnVacia DEF EnFin, EnBaja
<1>2. Admitidos = {}
  BY DEF PInit, Admitidos
<1>3. Cardinality(Admitidos) = 0
  BY <1>2, FS_EmptySet
<1>4. multi = 0 /\ Contando = 0 /\ Reservado = 0 /\ grado \in Nat
  BY PlanificacionAssumption DEF PInit, Contando, Reservado, Uno
<1>5. QED
  BY <1>1, <1>3, <1>4 DEF GradoContado

(* GradoRespetado (planificador_largo admits under `multi < grado` and     *)
(* counts afterwards; planificador_largo_salida ends the process and       *)
(* discounts it afterwards): under FIFO with nobody killed, in no order of *)
(* those steps are more processes admitted than the degree, while the      *)
(* console does not lower it.                                              *)
THEOREM PGradoRespetado ==
  SoloFIFO => (PSpec /\ []DescriptorAjeno /\ [][GradoNoBaja]_pvars => []GradoRespetado)
<1>1. CASE SoloFIFO
  <2>1. FInv /\ GradoInv => GradoRespetado
    BY GradoDeContado DEF GradoInv, FInv
  <2>2. SoloFIFO
    BY <1>1
  <2>3. PSpec /\ []DescriptorAjeno => []FInv
    BY <2>2, FInvariante
  <2>4. QED
    BY <2>1, <2>2, <2>3, GradoInicialContado, GradoInductivo, PTL DEF PSpec
<1>2. QED
  BY <1>1, Zenon

-----------------------------------------------------------------------------
(* The wake-ups: a call that posts to a scheduler or leads to one that     *)
(* does, and a list that gets there without pushing a process first.       *)
Despertador(o) ==
  \/ o.op = "sem_post" /\ o.arg \in {"planiCorto", "planiLargo"}
  \/ o.op \in {"planificador_largo_salida", "wait_recurso", "signal_recurso", "avisar"}
  \/ o.op = "hilo_funcion" /\ o.arg \in {"f_write", "f_truncate"}
Anuncia(ops) ==
  \E i \in 1..Len(ops) : /\ Despertador(ops[i])
                         /\ \A j \in 1..(i - 1) : ops[j].op # "push_colaCorto"
Pendiente == colaCorto # <<>> /\ ~ejecutandoB /\ ~detenida
Despierto == \/ sem["planiCorto"] > 0 \/ sem["planiLargo"] > 0
             \/ corto.pc # "esperar" \/ largo.pc # "esperar"
Anunciado == Pendiente => Despierto \/ \E h \in Hilos : Anuncia(hilo[h])

LEMMA AnunciadoDespues ==
  ASSUME Pendiente' => Despierto' \/ \E h \in Hilos : Anuncia(hilo'[h])
  PROVE  Anunciado'
BY DEF Anunciado, Anuncia, Despertador, Hilos

LEMMA AnunciaUnir ==
  ASSUME NEW s \in Seq(Conocidas), NEW t \in Seq(Conocidas), Anuncia(s)
  PROVE  Anuncia(s \o t)
<1>1. /\ Len(s) \in Nat /\ Len(t) \in Nat /\ Len(s \o t) = Len(s) + Len(t)
      /\ \A i \in 1..Len(s) : (s \o t)[i] = s[i]
  BY ConcatProperties
<1>2. PICK i \in 1..Len(s) : Despertador(s[i]) /\ \A j \in 1..(i - 1) : s[j].op # "push_colaCorto"
  BY DEF Anuncia
<1>3. i \in 1..Len(s \o t) /\ (s \o t)[i] = s[i]
  BY <1>1
<1>4. \A j \in 1..(i - 1) : (s \o t)[j].op # "push_colaCorto"
  BY <1>1, <1>2
<1>5. QED
  BY <1>2, <1>3, <1>4 DEF Anuncia

LEMMA AnunciaCabeza ==
  ASSUME NEW s \in Seq(Conocidas), s # <<>>, Despertador(Head(s))
  PROVE  Anuncia(s)
<1>1. 1 \in 1..Len(s) /\ Head(s) = s[1] /\ 1..(1 - 1) = {}
  BY HeadTailProperties
<1>2. QED
  BY <1>1 DEF Anuncia

LEMMA AnunciaResto ==
  ASSUME NEW s \in Seq(Conocidas), s # <<>>, Anuncia(s), ~Despertador(Head(s))
  PROVE  Anuncia(Tail(s))
<1>1. /\ Len(s) \in Nat /\ Len(Tail(s)) = Len(s) - 1 /\ Head(s) = s[1]
      /\ \A j \in 1..Len(Tail(s)) : Tail(s)[j] = s[j + 1]
  BY HeadTailProperties
<1>2. PICK i \in 1..Len(s) : Despertador(s[i]) /\ \A j \in 1..(i - 1) : s[j].op # "push_colaCorto"
  BY DEF Anuncia
<1>3. i - 1 \in 1..Len(Tail(s)) /\ (i - 1) + 1 = i
  <2>1. i # 1
    BY <1>1, <1>2
  <2>2. QED
    BY <1>1, <2>1
<1>4. Tail(s)[i - 1] = s[i]
  BY <1>1, <1>3
<1>5. ASSUME NEW j \in 1..((i - 1) - 1)
      PROVE  Tail(s)[j].op # "push_colaCorto"
  <2>1. j \in 1..Len(Tail(s)) /\ j + 1 \in 1..(i - 1)
    BY <1>1, <1>3
  <2>2. QED
    BY <1>1, <1>2, <2>1
<1>6. QED
  BY <1>2, <1>3, <1>4, <1>5 DEF Anuncia

LEMMA AnunciaTras ==
  ASSUME NEW t \in Seq(Conocidas), NEW o \in Conocidas, Anuncia(t), o.op # "push_colaCorto"
  PROVE  Anuncia(<<o>> \o t)
<1>1. /\ Len(t) \in Nat /\ Len(<<o>> \o t) = Len(t) + 1 /\ (<<o>> \o t)[1] = o
      /\ \A j \in 1..Len(t) : (<<o>> \o t)[j + 1] = t[j]
  OBVIOUS
<1>2. PICK i \in 1..Len(t) : Despertador(t[i]) /\ \A j \in 1..(i - 1) : t[j].op # "push_colaCorto"
  BY DEF Anuncia
<1>3. i + 1 \in 1..Len(<<o>> \o t) /\ (<<o>> \o t)[i + 1] = t[i]
  BY <1>1
<1>4. ASSUME NEW j \in 1..((i + 1) - 1)
      PROVE  (<<o>> \o t)[j].op # "push_colaCorto"
  <2>1. CASE j = 1
    BY <1>1, <2>1
  <2>2. CASE j # 1
    <3>1. j - 1 \in 1..(i - 1) /\ j - 1 \in 1..Len(t) /\ (j - 1) + 1 = j
      BY <1>1, <2>2
    <3>2. QED
      BY <1>1, <1>2, <3>1
  <2>3. QED
    BY <2>1, <2>2
<1>5. QED
  BY <1>2, <1>3, <1>4 DEF Anuncia

LEMMA NadaAnuncia == ~Anuncia(<<>>)
BY DEF Anuncia

(* What is pushed is announced: the next call is the post.                 *)
LEMMA EmpujeAnuncia ==
  ASSUME PTypeOK, Prolijas, NEW h \in Hilos, hilo[h] # <<>>, Empuja(Head(hilo[h]))
  PROVE  Anuncia(Tail(hilo[h])) /\ Tail(hilo[h]) \in Seq(Conocidas)
<1> DEFINE s == hilo[h]
<1>1. s \in Seq(Conocidas)
  BY DEF PTypeOK, TipoHilos
<1>2. Prolija(h, s) /\ s # <<>> /\ Empuja(Head(s))
  BY DEF Prolijas
<1> HIDE DEF s
<1>3. /\ Len(s) \in Nat /\ Len(Tail(s)) = Len(s) - 1 /\ Head(s) = s[1] /\ 1 \in 1..Len(s)
      /\ \A j \in 1..Len(Tail(s)) : Tail(s)[j] = s[j + 1]
      /\ Tail(s) \in Seq(Conocidas)
  BY <1>1, <1>2, HeadTailProperties
<1>4. 1 + 1 \in 1..Len(s) /\ s[1 + 1] = Aviso
  BY <1>2, <1>3 DEF Prolija, Pegada
<1>5. Tail(s) # <<>> /\ Head(Tail(s)) = Aviso
  <2>1. 1 \in 1..Len(Tail(s)) /\ Tail(s)[1] = Aviso
    BY <1>3, <1>4
  <2>2. PICK t \in Seq(Conocidas) : t = Tail(s)
    BY <1>3
  <2>3. Len(t) > 0 /\ t[1] = Aviso
    BY <2>1, <2>2
  <2>4. t # <<>> /\ Head(t) = t[1]
    BY <2>3
  <2>5. QED
    BY <2>2, <2>3, <2>4
<1>6. Despertador(Aviso)
  BY DEF Despertador, Aviso, sem_post, Op
<1>7. Anuncia(Tail(s))
  BY <1>3, <1>5, <1>6, AnunciaCabeza
<1>8. QED
  BY <1>3, <1>7 DEF s

-----------------------------------------------------------------------------
(* The lists that announce.                                                *)
LEMMA ColaDeSalidaAnuncia ==
  ASSUME NEW p \in Pids, NEW e, e # "NEW"
  PROVE  Anuncia(ColaDeSalida(p, e))
<1> DEFINE s == ColaDeSalida(p, e)
<1>1. /\ Len(s) = 8
      /\ s[1] = Simple("quitarCorto", p) /\ s[2] = Simple("quitarLargo", p)
      /\ s[3] = Simple("liberar_recursos", p) /\ s[4] = Simple("liberar_paginas", p)
      /\ s[5] = sem_wait("paginasLiberadas") /\ s[6] = cambiar_estado(p, "TERMINATED")
      /\ s[7] = Simple("bajar_multi", p) /\ s[8] = sem_post("planiLargo")
  BY DEF ColaDeSalida
<1> HIDE DEF s
<1>2. 8 \in 1..Len(s) /\ Despertador(s[8])
  BY <1>1 DEF Despertador, sem_post, Op
<1>3. \A j \in 1..(8 - 1) : s[j].op # "push_colaCorto"
  <2>1. \A j \in 1..(8 - 1) : j \in {1, 2, 3, 4, 5, 6, 7}
    OBVIOUS
  <2>2. QED
    BY <1>1, <2>1 DEF Op, Simple, sem_wait, cambiar_estado
<1>4. Anuncia(s)
  BY <1>2, <1>3 DEF Anuncia
<1>5. QED
  BY <1>4 DEF s

LEMMA AnunciaPrimera ==
  ASSUME NEW s, 1 \in 1..Len(s), Despertador(s[1])
  PROVE  Anuncia(s)
<1>1. 1..(1 - 1) = {}
  OBVIOUS
<1>2. QED
  BY <1>1 DEF Anuncia

LEMMA AnunciaSegunda ==
  ASSUME NEW s, 2 \in 1..Len(s), Despertador(s[2]), s[1].op # "push_colaCorto"
  PROVE  Anuncia(s)
<1>1. \A j \in 1..(2 - 1) : j = 1
  OBVIOUS
<1>2. QED
  BY <1>1 DEF Anuncia

LEMMA RutinaAnuncia ==
  ASSUME NEW p \in Pids, NEW f \in {"f_write", "f_truncate"}, NEW ops \in Rutinas(f, p)
  PROVE  Anuncia(ops)
<1>1. CASE ops = <<cambiar_estado(p, "BLOCKED"), sem_post("planiCorto")>> \o Volver(p)
  <2>1. Len(ops) = 4 /\ ops[1] = cambiar_estado(p, "BLOCKED") /\ ops[2] = sem_post("planiCorto")
    BY <1>1 DEF Volver
  <2>2. 2 \in 1..Len(ops) /\ Despertador(ops[2]) /\ ops[1].op # "push_colaCorto"
    BY <2>1 DEF Despertador, sem_post, cambiar_estado, Op
  <2>3. QED
    BY <2>2, AnunciaSegunda
<1>2. CASE ops = <<cambiar_estado(p, "BLOCKED"), salida(p, "INVALID_WRITE")>>
  <2>1. Len(ops) = 2 /\ ops[1] = cambiar_estado(p, "BLOCKED") /\ ops[2] = salida(p, "INVALID_WRITE")
    BY <1>2
  <2>2. 2 \in 1..Len(ops) /\ Despertador(ops[2]) /\ ops[1].op # "push_colaCorto"
    BY <2>1 DEF Despertador, salida, cambiar_estado, Op
  <2>3. QED
    BY <2>2, AnunciaSegunda
<1>3. QED
  BY <1>1, <1>2 DEF Rutinas, f_truncate, f_write

LEMMA AtencionAnuncia ==
  ASSUME NEW p \in Pids, NEW razon \in MotivosFIFO, NEW arg \in Args \cup {0}
  PROVE  Anuncia(Atencion(razon, p, arg))
<1> DEFINE s == Atencion(razon, p, arg)
<1>1. razon \in {"sleep", "wait", "signal", "f_seek", "f_write", "f_truncate", "procesoExit",
                 "page_fault"}
  BY DEF MotivosFIFO, MotivoDe, Syscalls
<1>2. CASE razon = "f_seek"
  <2>1. /\ Len(s) = 4 /\ s[1] = cambiar_estado(p, "READY") /\ s[2] = responder
        /\ s[3] = Simple("ordenar_adelante", p) /\ s[4] = sem_post("planiCorto")
    BY <1>2 DEF Atencion, AlFrente
  <2> HIDE DEF s
  <2>2. 4 \in 1..Len(s) /\ Despertador(s[4])
    BY <2>1 DEF Despertador, sem_post, Op
  <2>3. \A j \in 1..(4 - 1) : s[j].op # "push_colaCorto"
    <3>1. \A j \in 1..(4 - 1) : j \in {1, 2, 3}
      OBVIOUS
    <3>2. QED
      BY <2>1, <3>1 DEF cambiar_estado, responder, Simple, Op
  <2>4. Anuncia(s)
    BY <2>2, <2>3 DEF Anuncia
  <2>5. QED
    BY <2>4 DEF s
<1>3. CASE razon = "page_fault"
  <2>1. /\ Len(s) = 3 /\ s[1] = hilo_funcion(p, "page_fault") /\ s[2] = responder
        /\ s[3] = sem_post("planiCorto")
    BY <1>3 DEF Atencion
  <2> HIDE DEF s
  <2>2. 3 \in 1..Len(s) /\ Despertador(s[3])
    BY <2>1 DEF Despertador, sem_post, Op
  <2>3. \A j \in 1..(3 - 1) : s[j].op # "push_colaCorto"
    <3>1. \A j \in 1..(3 - 1) : j \in {1, 2}
      OBVIOUS
    <3>2. QED
      BY <2>1, <3>1 DEF hilo_funcion, responder, Simple, Op
  <2>4. Anuncia(s)
    BY <2>2, <2>3 DEF Anuncia
  <2>5. QED
    BY <2>4 DEF s
<1>4. CASE razon = "procesoExit"
  <2>1. Len(s) = 2 /\ s[1] = salida(p, "SUCCESS")
    BY <1>4 DEF Atencion
  <2> HIDE DEF s
  <2>2. 1 \in 1..Len(s) /\ Despertador(s[1])
    BY <2>1 DEF Despertador, salida, Op
  <2>3. QED
    BY <2>2, AnunciaPrimera DEF s
<1>5. CASE razon \in {"f_write", "f_truncate"}
  <2>1. Len(s) = 2 /\ s[1] = hilo_funcion(p, razon)
    BY <1>5 DEF Atencion
  <2> HIDE DEF s
  <2>2. 1 \in 1..Len(s) /\ Despertador(s[1])
    BY <1>5, <2>1 DEF Despertador, hilo_funcion, Op
  <2>3. QED
    BY <2>2, AnunciaPrimera DEF s
<1>6. CASE razon = "wait"
  <2>1. Len(s) = 3 /\ s[1] = cambiar_estado(p, "READY") /\ s[2] = Op("wait_recurso", p, arg)
    BY <1>6 DEF Atencion
  <2> HIDE DEF s
  <2>2. 2 \in 1..Len(s) /\ Despertador(s[2]) /\ s[1].op # "push_colaCorto"
    BY <2>1 DEF Despertador, cambiar_estado, Op
  <2>3. QED
    BY <2>2, AnunciaSegunda DEF s
<1>7. CASE razon \in {"sleep", "signal"}
  <2>1. Len(s) = 4 /\ s[1] = cambiar_estado(p, "READY") /\ s[2] = sem_post("planiCorto")
    BY <1>7 DEF Atencion
  <2> HIDE DEF s
  <2>2. 2 \in 1..Len(s) /\ Despertador(s[2]) /\ s[1].op # "push_colaCorto"
    BY <2>1 DEF Despertador, cambiar_estado, sem_post, Op
  <2>3. QED
    BY <2>2, AnunciaSegunda DEF s
<1>8. QED
  BY <1>1, <1>2, <1>3, <1>4, <1>5, <1>6, <1>7

-----------------------------------------------------------------------------
(* A call either announces, or leaves every announcement where it was.     *)
Avisa == Pendiente' => Despierto' \/ \E g \in Hilos : Anuncia(hilo'[g])
MasFichas == sem'["planiCorto"] >= sem["planiCorto"] /\ sem'["planiLargo"] >= sem["planiLargo"]
Calla(h) ==
  /\ ~Despertador(Head(hilo[h])) /\ MasFichas
  /\ colaCorto' # <<>> => colaCorto # <<>>
  /\ \/ hilo'[h] = Tail(hilo[h])
     \/ \E o \in Conocidas : o.op = "colgado" /\ hilo'[h] = <<o>> \o Tail(hilo[h])
  /\ \A g \in Hilos : g # h => hilo'[g] = hilo[g] \/ hilo[g] = <<>>

LEMMA Fichas ==
  ASSUME PTypeOK
  PROVE  sem["planiCorto"] \in Nat /\ sem["planiLargo"] \in Nat
BY DEF PTypeOK, TipoHilos, Semaforos

LEMMA FichasDespues ==
  ASSUME PTypeOK'
  PROVE  sem'["planiCorto"] \in Nat /\ sem'["planiLargo"] \in Nat
BY DEF PTypeOK, TipoHilos, Semaforos

LEMMA SigueDespierto ==
  ASSUME PTypeOK, PTypeOK', MasFichas, UNCHANGED <<corto, largo>>, Despierto
  PROVE  Despierto'
<1>1. sem["planiCorto"] > 0 => sem'["planiCorto"] > 0
  BY Fichas, FichasDespues DEF MasFichas
<1>2. sem["planiLargo"] > 0 => sem'["planiLargo"] > 0
  BY Fichas, FichasDespues DEF MasFichas
<1>3. QED
  BY <1>1, <1>2 DEF Despierto

LEMMA CallaAvisa ==
  ASSUME PTypeOK, PTypeOK', Anunciado, NEW h \in Hilos, hilo[h] # <<>>, Calla(h), FijoEnLlamadas
  PROVE  Avisa
<1> SUFFICES ASSUME Pendiente' PROVE Despierto' \/ \E g \in Hilos : Anuncia(hilo'[g])
  BY DEF Avisa
<1>1. UNCHANGED <<detenida, ejecutandoB, corto, largo>>
  BY DEF FijoEnLlamadas, consigna, cortoVar
<1>2. Pendiente
  BY <1>1 DEF Pendiente, Calla
<1>3. CASE Despierto
  BY <1>1, <1>3, SigueDespierto DEF Calla
<1>4. ASSUME NEW g \in Hilos, Anuncia(hilo[g])
      PROVE  Anuncia(hilo'[g])
  <2>1. hilo[g] # <<>>
    BY <1>4, NadaAnuncia
  <2>2. CASE g # h
    BY <1>4, <2>1, <2>2 DEF Calla
  <2>3. CASE g = h
    <3>1. hilo[h] \in Seq(Conocidas)
      BY DEF PTypeOK, TipoHilos
    <3>2. Anuncia(Tail(hilo[h])) /\ Tail(hilo[h]) \in Seq(Conocidas)
      BY <1>4, <2>3, <3>1, AnunciaResto DEF Calla
    <3>3. CASE hilo'[h] = Tail(hilo[h])
      BY <2>3, <3>2, <3>3
    <3>4. ASSUME NEW o \in Conocidas, o.op = "colgado", hilo'[h] = <<o>> \o Tail(hilo[h])
          PROVE  Anuncia(hilo'[g])
      BY <2>3, <3>2, <3>4, AnunciaTras
    <3>5. QED
      BY <3>3, <3>4 DEF Calla
  <2>4. QED
    BY <2>2, <2>3
<1>5. QED
  BY <1>2, <1>3, <1>4 DEF Anunciado

LEMMA AnunciaLanzada ==
  ASSUME PTypeOK, NEW h \in Hilos, NEW ops \in Seq(Conocidas), Sigue(h, ops), hilo[h] # <<>>,
         Anuncia(ops)
  PROVE  Avisa
<1>1. hilo \in [Hilos -> Seq(Conocidas)] /\ Tail(hilo[h]) \in Seq(Conocidas)
  <2>1. hilo \in [Hilos -> Seq(Conocidas)] /\ hilo[h] \in Seq(Conocidas)
    BY DEF PTypeOK, TipoHilos
  <2>2. QED
    BY <2>1
<1>2. hilo'[h] = ops \o Tail(hilo[h])
  BY <1>1 DEF Sigue
<1>3. QED
  BY <1>1, <1>2, AnunciaUnir DEF Avisa

LEMMA AvanzaUno ==
  ASSUME PTypeOK, NEW h \in Hilos, Avanza(h)
  PROVE  hilo'[h] = Tail(hilo[h]) /\ \A g \in Hilos : g # h => hilo'[g] = hilo[g]
BY DEF PTypeOK, TipoHilos, Avanza

LEMMA CallanQuietas ==
  ASSUME PTypeOK, NEW h \in Hilos, Avanza(h), UNCHANGED <<colaCorto, sem>>,
         ~Despertador(Head(hilo[h]))
  PROVE  Calla(h)
BY AvanzaUno, Fichas DEF Calla, MasFichas

LEMMA EmpujarAvisa ==
  ASSUME PTypeOK, Prolijas, NEW h \in Hilos,
         PushColaCorto(h) \/ QueuePush(h) \/ OrdenarAdelante(h)
  PROVE  Avisa
<1>1. hilo[h] # <<>> /\ Empuja(Head(hilo[h])) /\ Avanza(h)
  BY DEF PushColaCorto, QueuePush, OrdenarAdelante, Llama, Empuja
<1>2. Anuncia(hilo'[h])
  BY <1>1, EmpujeAnuncia, AvanzaUno
<1>3. QED
  BY <1>2 DEF Avisa

LEMMA PublicarAvisa ==
  ASSUME PTypeOK, PTypeOK', Prolijas, NEW h \in Hilos, SemPost(h) \/ SemWait(h)
  PROVE  Avisa \/ Calla(h)
<1>1. hilo[h] # <<>> /\ Avanza(h) /\ UNCHANGED colaCorto
  BY DEF SemPost, SemWait, Llama, colas
<1>2. sem \in [Semaforos -> Nat] /\ {"planiCorto", "planiLargo"} \subseteq Semaforos
  BY DEF PTypeOK, TipoHilos, Semaforos
<1>3. PICK s : s = Head(hilo[h]).arg
  OBVIOUS
<1>4. CASE SemPost(h) /\ s \in {"planiCorto", "planiLargo"}
  <2>1. sem' = [sem EXCEPT ![s] = @ + 1]
    BY <1>3, <1>4 DEF SemPost, Publica
  <2>2. sem'[s] > 0
    BY <1>2, <1>4, <2>1
  <2>3. QED
    BY <1>4, <2>2 DEF Avisa, Despierto
<1>5. CASE SemPost(h) /\ s \notin {"planiCorto", "planiLargo"}
  <2>1. sem' = [sem EXCEPT ![s] = @ + 1] /\ Head(hilo[h]).op = "sem_post"
    BY <1>3, <1>5 DEF SemPost, Publica, Llama
  <2>2. sem'["planiCorto"] = sem["planiCorto"] /\ sem'["planiLargo"] = sem["planiLargo"]
    BY <1>2, <1>5, <2>1
  <2>3. ~Despertador(Head(hilo[h]))
    BY <1>3, <1>5, <2>1 DEF Despertador
  <2>4. QED
    BY <1>1, <2>2, <2>3, AvanzaUno, Fichas DEF Calla, MasFichas
<1>6. CASE SemWait(h)
  <2>1. sem' = [sem EXCEPT ![s] = @ - 1] /\ Head(hilo[h]).op = "sem_wait"
    BY <1>3, <1>6 DEF SemWait, Llama
  <2>2. s \notin {"planiCorto", "planiLargo"}
    <3>1. 1 \in 1..Len(hilo[h]) /\ Head(hilo[h]) = hilo[h][1]
      <4>1. hilo[h] \in Seq(Conocidas)
        BY DEF PTypeOK, TipoHilos
      <4>2. QED
        BY <1>1, <4>1
    <3>2. Propia(h, Head(hilo[h]))
      BY <3>1 DEF Prolijas, Prolija
    <3>3. QED
      BY <1>3, <2>1, <3>2 DEF Propia
  <2>3. sem'["planiCorto"] = sem["planiCorto"] /\ sem'["planiLargo"] = sem["planiLargo"]
    BY <1>2, <2>1, <2>2
  <2>4. ~Despertador(Head(hilo[h]))
    BY <2>1 DEF Despertador
  <2>5. QED
    BY <1>1, <2>3, <2>4, AvanzaUno, Fichas DEF Calla, MasFichas
<1>7. QED
  BY <1>4, <1>5, <1>6

LEMMA SimplesCallan ==
  ASSUME FInv, NEW h \in Hilos,
         \/ CambiarEstado(h) \/ Responder(h) \/ QuitarDeColas(h) \/ LiberarSinEntrega(h)
         \/ PedirMemoria(h) \/ BajarMulti(h) \/ PushColaLargo(h) \/ BorrarProceso(h)
  PROVE  Calla(h)
<1>1. Avanza(h) /\ UNCHANGED sem
  BY DEF CambiarEstado, Responder, QuitarDeColas, LiberarSinEntrega, PedirMemoria, BajarMulti,
     PushColaLargo, BorrarProceso
<1>2. UNCHANGED colaCorto
  <2>1. CASE QuitarDeColas(h)
    BY <2>1, QuitarDeColasNada DEF colas
  <2>2. CASE ~QuitarDeColas(h)
    BY <2>2 DEF CambiarEstado, Responder, LiberarSinEntrega, PedirMemoria, BajarMulti,
       PushColaLargo, BorrarProceso, colas
  <2>3. QED
    BY <2>1, <2>2
<1>3. ~Despertador(Head(hilo[h]))
  BY DEF CambiarEstado, Responder, QuitarDeColas, LiberarSinEntrega, PedirMemoria, BajarMulti,
     PushColaLargo, BorrarProceso, Llama, Despertador
<1>4. QED
  BY <1>1, <1>2, <1>3, CallanQuietas DEF FInv

LEMMA DespertarCalla ==
  ASSUME PTypeOK, NEW h \in Hilos, DespertarLargo(h)
  PROVE  Calla(h)
<1>1. Avanza(h) /\ UNCHANGED colaCorto /\ Head(hilo[h]).op = "despertar_largo"
  BY DEF DespertarLargo, colas, Llama
<1>2. ~Despertador(Head(hilo[h]))
  BY <1>1 DEF Despertador
<1>3. MasFichas
  <2>1. sem \in [Semaforos -> Nat] /\ {"planiCorto", "planiLargo"} \subseteq Semaforos
    BY DEF PTypeOK, TipoHilos, Semaforos
  <2>2. UNCHANGED sem \/ sem' = [sem EXCEPT !["planiLargo"] = @ + 1]
    BY DEF DespertarLargo, Publica
  <2>3. QED
    BY <2>1, <2>2 DEF MasFichas
<1>4. QED
  BY <1>1, <1>2, <1>3, AvanzaUno DEF Calla

LEMMA DetectarCalla ==
  ASSUME PTypeOK, NEW h \in Hilos, DetectarDeadlock(h)
  PROVE  Calla(h)
<1>1. UNCHANGED <<colaCorto, sem>> /\ Llama(h, "deteccion_deadlock")
      /\ Head(hilo[h]).op = "deteccion_deadlock"
  BY DEF DetectarDeadlock, colas, Llama
<1>2. ~Despertador(Head(hilo[h]))
  BY <1>1 DEF Despertador
<1>3. CASE Avanza(h)
  BY <1>1, <1>2, <1>3, CallanQuietas
<1>4. CASE Sigue(h, <<Simple("colgado", De(h))>>)
  <2>1. De(h) \in Pids
    BY <1>1, CampoPid DEF PTypeOK
  <2>2. Simple("colgado", De(h)) \in Conocidas /\ Simple("colgado", De(h)).op = "colgado"
    BY <2>1, OpsSimples DEF Simple, Op
  <2>3. /\ hilo'[h] = <<Simple("colgado", De(h))>> \o Tail(hilo[h])
        /\ \A g \in Hilos : g # h => hilo'[g] = hilo[g]
    BY <1>4 DEF Sigue, PTypeOK, TipoHilos
  <2>4. MasFichas
    BY <1>1, Fichas DEF MasFichas
  <2>5. QED
    BY <1>1, <1>2, <2>2, <2>3, <2>4 DEF Calla
<1>5. QED
  BY <1>3, <1>4 DEF DetectarDeadlock

LEMMA RecursoAvisa ==
  ASSUME PTypeOK, NEW h \in Hilos,
         \/ WaitConInstancia(h) \/ WaitSinInstancia(h) \/ WaitInvalido(h)
         \/ SignalValido(h) \/ SignalInvalido(h) \/ LiberarConEntrega(h)
  PROVE  Avisa
<1>1. hilo[h] # <<>>
  BY DEF WaitConInstancia, WaitSinInstancia, WaitInvalido, SignalValido, SignalInvalido,
     LiberarConEntrega, Llama
<1>2. De(h) \in Pids
  <2>1. \/ Llama(h, "wait_recurso") \/ Llama(h, "signal_recurso") \/ Llama(h, "liberar_recursos")
    BY DEF WaitConInstancia, WaitSinInstancia, WaitInvalido, SignalValido, SignalInvalido,
       LiberarConEntrega
  <2>2. CASE Llama(h, "wait_recurso")
    BY <2>2, CampoPid DEF PTypeOK
  <2>3. CASE Llama(h, "signal_recurso")
    BY <2>3, CampoPid DEF PTypeOK
  <2>4. CASE Llama(h, "liberar_recursos")
    BY <2>4, CampoPid DEF PTypeOK
  <2>5. QED
    BY <2>1, <2>2, <2>3, <2>4
<1>3. PICK p \in Pids : p = De(h)
  BY <1>2
<1>4. /\ Simple("queue_push", p) \in Conocidas /\ sem_post("planiCorto") \in Conocidas
      /\ cambiar_estado(p, "BLOCKED") \in Conocidas /\ salida(p, "INVALID_RESOURCE") \in Conocidas
  BY OpsConocidas, OpsSimples DEF Semaforos, Estados
<1>5. Simple("avisar", 0) \in Conocidas
  BY DEF Simple, Op, Conocidas
<1>6. ASSUME NEW ops \in Seq(Conocidas), Sigue(h, ops),
             \/ 1 \in 1..Len(ops) /\ Despertador(ops[1])
             \/ 2 \in 1..Len(ops) /\ Despertador(ops[2]) /\ ops[1].op # "push_colaCorto"
             \/ Anuncia(ops)
      PROVE  Avisa
  BY <1>1, <1>6, AnunciaPrimera, AnunciaSegunda, AnunciaLanzada
<1>7. CASE WaitConInstancia(h)
  <2>1. PICK ops : ops = <<Simple("queue_push", p), sem_post("planiCorto"), sem_post("planiCorto")>>
    OBVIOUS
  <2>2. ops \in Seq(Conocidas)
    BY <1>4, <2>1, ListaDeTres
  <2>3. Sigue(h, ops)
    BY <1>3, <1>7, <2>1 DEF WaitConInstancia
  <2>4. Len(ops) = 3 /\ ops[1] = Simple("queue_push", p) /\ ops[2] = sem_post("planiCorto")
    BY <2>1
  <2>5. 2 \in 1..Len(ops) /\ Despertador(ops[2]) /\ ops[1].op # "push_colaCorto"
    BY <2>4 DEF Despertador, sem_post, Simple, Op
  <2>6. QED
    BY <1>6, <2>2, <2>3, <2>5
<1>8. CASE WaitSinInstancia(h)
  <2>1. PICK ops : ops = <<cambiar_estado(p, "BLOCKED"), Simple("deteccion_deadlock", p),
                           sem_post("planiCorto")>>
    OBVIOUS
  <2>2. ops \in Seq(Conocidas)
    <3>1. Simple("deteccion_deadlock", p) \in Conocidas
      BY OpsSimples
    <3>2. QED
      BY <1>4, <2>1, <3>1, ListaDeTres
  <2>3. Sigue(h, ops)
    BY <1>3, <1>8, <2>1 DEF WaitSinInstancia
  <2>4. /\ Len(ops) = 3 /\ ops[1] = cambiar_estado(p, "BLOCKED")
        /\ ops[2] = Simple("deteccion_deadlock", p) /\ ops[3] = sem_post("planiCorto")
    BY <2>1
  <2>5. 3 \in 1..Len(ops) /\ Despertador(ops[3])
    BY <2>4 DEF Despertador, sem_post, Op
  <2>6. \A j \in 1..(3 - 1) : ops[j].op # "push_colaCorto"
    <3>1. \A j \in 1..(3 - 1) : j \in {1, 2}
      OBVIOUS
    <3>2. QED
      BY <2>4, <3>1 DEF cambiar_estado, Simple, Op
  <2>7. Anuncia(ops)
    BY <2>5, <2>6 DEF Anuncia
  <2>8. QED
    BY <1>6, <2>2, <2>3, <2>7
<1>9. CASE WaitInvalido(h)
  <2>1. PICK ops : ops = <<salida(p, "INVALID_RESOURCE"), sem_post("planiCorto")>>
    OBVIOUS
  <2>2. ops \in Seq(Conocidas)
    BY <1>4, <2>1, ListaDeDos
  <2>3. Sigue(h, ops)
    BY <1>3, <1>9, <2>1 DEF WaitInvalido
  <2>4. Len(ops) = 2 /\ ops[1] = salida(p, "INVALID_RESOURCE")
    BY <2>1
  <2>5. 1 \in 1..Len(ops) /\ Despertador(ops[1])
    BY <2>4 DEF Despertador, salida, Op
  <2>6. QED
    BY <1>6, <2>2, <2>3, <2>5
<1>10. CASE SignalInvalido(h)
  <2>1. PICK ops : ops = <<salida(p, "INVALID_RESOURCE")>>
    OBVIOUS
  <2>2. ops \in Seq(Conocidas)
    BY <1>4, <2>1, ListaDeUna
  <2>3. Sigue(h, ops)
    BY <1>3, <1>10, <2>1 DEF SignalInvalido
  <2>4. Len(ops) = 1 /\ ops[1] = salida(p, "INVALID_RESOURCE")
    BY <2>1
  <2>5. 1 \in 1..Len(ops) /\ Despertador(ops[1])
    BY <2>4 DEF Despertador, salida, Op
  <2>6. QED
    BY <1>6, <2>2, <2>3, <2>5
<1>11. CASE SignalValido(h)
  <2>1. PICK ops : ops = <<Simple("avisar", 0)>>
    OBVIOUS
  <2>2. ops \in Seq(Conocidas)
    BY <1>5, <2>1, ListaDeUna
  <2>3. Sigue(h, ops)
    BY <1>11, <2>1 DEF SignalValido
  <2>4. Len(ops) = 1 /\ ops[1] = Simple("avisar", 0)
    BY <2>1
  <2>5. 1 \in 1..Len(ops) /\ Despertador(ops[1])
    BY <2>4 DEF Despertador, Simple, Op
  <2>6. QED
    BY <1>6, <2>2, <2>3, <2>5
<1>12. CASE LiberarConEntrega(h)
  <2>1. PICK ops : ops = <<sem_post("planiCorto")>>
    OBVIOUS
  <2>2. ops \in Seq(Conocidas)
    BY <1>4, <2>1, ListaDeUna
  <2>3. Sigue(h, ops)
    BY <1>12, <2>1 DEF LiberarConEntrega
  <2>4. Len(ops) = 1 /\ ops[1] = sem_post("planiCorto")
    BY <2>1
  <2>5. 1 \in 1..Len(ops) /\ Despertador(ops[1])
    BY <2>4 DEF Despertador, sem_post, Op
  <2>6. QED
    BY <1>6, <2>2, <2>3, <2>5
<1>13. QED
  BY <1>7, <1>8, <1>9, <1>10, <1>11, <1>12

LEMMA AvisarAvisa ==
  ASSUME PTypeOK, NEW h \in Hilos, Avisar(h)
  PROVE  Avisa
<1>1. sem["planiCorto"] \in Nat /\ sem \in [Semaforos -> Nat] /\ "planiCorto" \in Semaforos
  BY DEF PTypeOK, TipoHilos, Semaforos
<1>2. CASE ejecutandoB
  <2>1. ejecutandoB' = ejecutandoB
    BY DEF Avisar, FijoEnLlamadas, cortoVar
  <2>2. ~Pendiente'
    BY <1>2, <2>1 DEF Pendiente
  <2>3. QED
    BY <2>2 DEF Avisa
<1>3. CASE ~ejecutandoB
  <2>1. sem' = [sem EXCEPT !["planiCorto"] = @ + 1]
    BY <1>3 DEF Avisar, Publica
  <2>2. sem'["planiCorto"] > 0
    BY <1>1, <2>1
  <2>3. QED
    BY <2>2 DEF Avisa, Despierto
<1>4. QED
  BY <1>2, <1>3

LEMMA SalidaAvisa ==
  ASSUME FInv, NEW h \in Corrientes, Salida(h)
  PROVE  Avisa
<1>1. Llama(h, "planificador_largo_salida") /\ hilo[h] # <<>> /\ h \in Hilos /\ PTypeOK
  BY DEF Salida, Llama, Corrientes, FInv
<1>2. PICK p \in Pids : p = De(h)
  BY <1>1, SaleAdmitido
<1>3. PICK e : e = estado[p]
  OBVIOUS
<1>4. e # "NEW" /\ Head(hilo[h]).arg # "SIGKILL"
  BY <1>1, <1>2, <1>3, SaleAdmitido DEF Admitida
<1>5. Sigue(h, ColaDeSalida(p, e))
  BY <1>2, <1>3, <1>4 DEF Salida
<1>6. ColaDeSalida(p, e) \in Seq(Conocidas) /\ Anuncia(ColaDeSalida(p, e))
  BY <1>4, ColaDeSalidaTipo, ColaDeSalidaAnuncia
<1>7. QED
  BY <1>1, <1>5, <1>6, AnunciaLanzada

LEMMA HiloFuncionAvisa ==
  ASSUME FInv, NEW h \in Hilos, HiloFuncion(h)
  PROVE  Avisa \/ Calla(h)
<1>1. Llama(h, "hilo_funcion") /\ Libres # {} /\ hilo[h] # <<>> /\ PTypeOK /\ UNCHANGED <<colaCorto, sem>>
  BY DEF HiloFuncion, Llama, FInv, colas
<1>2. PICK p \in Pids : p = De(h)
  BY <1>1, CampoPid DEF PTypeOK
<1>3. PICK f \in {"sleep_proceso", "page_fault", "f_write", "f_truncate"} : f = Head(hilo[h]).arg
  BY <1>1, CampoRutina DEF PTypeOK
<1>4. PICK s : s = CHOOSE x \in Libres : TRUE
  OBVIOUS
<1>5. s \in Sueltos /\ hilo[s] = <<>> /\ s \in Hilos /\ s # h
  <2>1. s \in Libres
    BY <1>1, <1>4
  <2>2. QED
    BY <1>1, <2>1 DEF Libres, Hilos
<1>6. PICK ops \in Rutinas(f, p) : Lanza(h, s, ops)
  BY <1>2, <1>3, <1>4 DEF HiloFuncion, Lanza
<1>7. hilo \in [Hilos -> Seq(Conocidas)]
  BY <1>1 DEF PTypeOK, TipoHilos
<1>8. /\ hilo'[s] = ops /\ hilo'[h] = Tail(hilo[h])
      /\ \A g \in Hilos : g # h => hilo'[g] = hilo[g] \/ hilo[g] = <<>>
  BY <1>5, <1>6, <1>7 DEF Lanza
<1>9. CASE f \in {"f_write", "f_truncate"}
  <2>1. Anuncia(ops)
    BY <1>6, <1>9, RutinaAnuncia
  <2>2. QED
    BY <1>5, <1>8, <2>1 DEF Avisa
<1>10. CASE f \notin {"f_write", "f_truncate"}
  <2>1. ~Despertador(Head(hilo[h]))
    BY <1>1, <1>3, <1>10 DEF Despertador, Llama
  <2>2. QED
    BY <1>1, <1>8, <2>1, Fichas DEF Calla, MasFichas
<1>11. QED
  BY <1>9, <1>10

LEMMA LlamadaAvisa ==
  ASSUME FInv, PTypeOK', Prolijas, Anunciado, NEW h \in Hilos, Llamada(h), ~EscribirSinAbrir(h)
  PROVE  Avisa
<1>1. hilo[h] # <<>> /\ PTypeOK
  BY SoloEsa DEF FInv
<1>2. FijoEnLlamadas
  BY LlamadaFija
<1>3. Avisa \/ Calla(h)
  <2>1. CASE h = "consola"
    <3>1. Head(<<sem_wait("procesoCargado")>>).op = "sem_wait"
      BY DEF sem_wait, Op
    <3>2. SemWait(h)
      BY <1>1, <2>1, <3>1, SoloEsa DEF FInv, HilosBien
    <3>3. QED
      BY <1>1, <3>2, PublicarAvisa
  <2>2. CASE h = "memoria"
    <3>1. Head(hilo[h]).op \in {"sem_post", "despertar_largo", "push_colaLargo", "borrar_proceso"}
      BY <1>1, <2>2, ListaDeMemoria DEF Cargado, sem_post, Simple, Op
    <3>2. SemPost(h) \/ DespertarLargo(h) \/ PushColaLargo(h) \/ BorrarProceso(h)
      BY <3>1, SoloEsa
    <3>3. QED
      BY <1>1, <3>2, PublicarAvisa, DespertarCalla, SimplesCallan
  <2>3. CASE h \in Corrientes
    <3>1. ~PushSiEXEC(h)
      BY <1>1, <2>3, CabezaCorriente DEF FInv, Corriente, PushSiEXEC, Llama
    <3>2. QED
      BY <1>1, <2>3, <3>1, PublicarAvisa, DespertarCalla, SimplesCallan, DetectarCalla,
         HiloFuncionAvisa, SalidaAvisa, AvisarAvisa, RecursoAvisa, EmpujarAvisa DEF Llamada
  <2>4. QED
    BY <2>1, <2>2, <2>3 DEF Corrientes
<1>4. QED
  BY <1>1, <1>2, <1>3, CallaAvisa

-----------------------------------------------------------------------------
(* The other steps.                                                        *)
LEMMA QuietaAvisa ==
  ASSUME PTypeOK, PTypeOK', Anunciado, MasFichas,
         UNCHANGED <<colaCorto, ejecutandoB, corto, largo, detenida>>,
         \A g \in Hilos : hilo'[g] = hilo[g] \/ hilo[g] = <<>>
  PROVE  Avisa
<1> SUFFICES ASSUME Pendiente' PROVE Despierto' \/ \E g \in Hilos : Anuncia(hilo'[g])
  BY DEF Avisa
<1>1. Pendiente
  BY DEF Pendiente
<1>2. Despierto => Despierto'
  BY SigueDespierto
<1>3. \A g \in Hilos : Anuncia(hilo[g]) => Anuncia(hilo'[g])
  BY NadaAnuncia
<1>4. QED
  BY <1>1, <1>2, <1>3 DEF Anunciado

LEMMA LargoAvisa ==
  ASSUME PTypeOK, planificador_largo
  PROVE  Avisa
<1>1. CASE LargoTermina
  <2>1. sem["planiCorto"] \in Nat /\ sem \in [Semaforos -> Nat] /\ "planiCorto" \in Semaforos
    BY DEF PTypeOK, TipoHilos, Semaforos
  <2>2. sem' = [sem EXCEPT !["planiCorto"] = @ + 1]
    BY <1>1 DEF LargoTermina, Publica
  <2>3. sem'["planiCorto"] > 0
    BY <2>1, <2>2
  <2>4. QED
    BY <2>3 DEF Avisa, Despierto
<1>2. CASE ~LargoTermina
  <2>1. largo'.pc # "esperar"
    <3>1. CASE LargoDespierta \/ LargoCuenta
      BY <3>1 DEF LargoDespierta, LargoCuenta
    <3>2. CASE LargoToma
      <4>1. CASE UNCHANGED largo
        BY <3>2, <4>1 DEF LargoToma
      <4>2. CASE largo' = [largo EXCEPT !.pc = "admitir", !.pid = Head(colaLargo)]
        BY <4>2 DEF PTypeOK, TipoColas
      <4>3. QED
        BY <3>2, <4>1, <4>2 DEF LargoToma
    <3>3. CASE LargoAdmite
      BY <3>3 DEF LargoAdmite, PTypeOK, TipoColas
    <3>4. QED
      BY <1>2, <3>1, <3>2, <3>3 DEF planificador_largo
  <2>2. QED
    BY <2>1 DEF Avisa, Despierto
<1>3. QED
  BY <1>1, <1>2

LEMMA CortoAvisa ==
  ASSUME FInv, planificador_corto
  PROVE  Avisa
<1>0. PTypeOK
  BY DEF FInv
<1>1. CASE CortoDespierta
  <2>1. UNCHANGED <<colaCorto, detenida>>
    BY <1>1 DEF CortoDespierta, FijoEnCorto, consigna
  <2>2. CASE colaCorto = <<>> \/ detenida
    BY <2>1, <2>2 DEF Avisa, Pendiente
  <2>3. CASE ~(colaCorto = <<>> \/ detenida)
    <3>1. corto'.pc # "esperar"
      BY <1>1, <2>3 DEF CortoDespierta, CortoVa
    <3>2. QED
      BY <3>1 DEF Avisa, Despierto
  <2>4. QED
    BY <2>2, <2>3
<1>2. CASE CortoToma
  <2>1. CASE ejecutandoB
    <3>1. ejecutandoB'
      BY <1>2, <2>1 DEF CortoToma
    <3>2. QED
      BY <3>1 DEF Avisa, Pendiente
  <2>2. CASE ~ejecutandoB
    <3>1. corto'.pc # "esperar"
      BY <1>2, <2>2 DEF CortoToma, CortoVa
    <3>2. QED
      BY <3>1 DEF Avisa, Despierto
  <2>3. QED
    BY <2>1, <2>2
<1>3. CASE CortoEnvia
  <2>1. ejecutandoB'
    BY <1>3 DEF CortoEnvia, FInv, CpuContada
  <2>2. QED
    BY <2>1 DEF Avisa, Pendiente
<1>4. CASE CortoOcupa \/ CortoOrdena \/ CortoMira \/ CortoCompara \/ CortoDesalojado \/ CortoMarca
  <2>1. corto'.pc # "esperar"
    <3>1. CASE CortoOrdena
      <4>1. corto' = [pc |-> "mirar", pid |-> 0]
        BY <3>1, Zenon DEF CortoOrdena, CortoVa
      <4>2. QED
        BY <4>1
    <3>2. CASE CortoMira \/ CortoDesalojado \/ CortoMarca \/ CortoOcupa
      BY <3>2 DEF CortoMira, CortoDesalojado, CortoMarca, CortoOcupa, CortoVa
    <3>3. CASE CortoCompara
      <4>1. /\ corto.pc = "comparar"
            /\ \/ corto' = corto \/ corto' = [pc |-> "lugar", pid |-> 0]
               \/ corto' = [pc |-> "contexto", pid |-> 0]
        BY <3>3, Zenon DEF CortoCompara, CortoVa
      <4>2. QED
        BY <4>1
    <3>4. QED
      BY <1>4, <3>1, <3>2, <3>3
  <2>2. QED
    BY <2>1 DEF Avisa, Despierto
<1>5. QED
  BY <1>1, <1>2, <1>3, <1>4 DEF planificador_corto

LEMMA ContextoAvisa ==
  ASSUME FInv, PTypeOK', RecibirContexto
  PROVE  Avisa
<1>1. PICK m : m = Head(canalContexto)
  OBVIOUS
<1>2. PICK ops : ops = Atencion(m.motivo, m.pid, m.arg)
  OBVIOUS
<1>3. m.pid \in Pids /\ Dale("despacho", ops)
  BY <1>1, <1>2, ContextoRecibido
<1>4. canalContexto # <<>> /\ canalContexto' = Tail(canalContexto)
  BY DEF RecibirContexto
<1>5. m.motivo \in MotivosFIFO /\ m.arg \in Args \cup {0}
  BY <1>1, <1>4, ContextoResto DEF Contextos
<1>6. Anuncia(ops)
  BY <1>2, <1>3, <1>5, AtencionAnuncia
<1>7. "despacho" \in Hilos /\ hilo \in [Hilos -> Seq(Conocidas)]
  BY DEF Hilos, FInv, PTypeOK, TipoHilos
<1>8. hilo'["despacho"] = ops
  BY <1>3, <1>7 DEF Dale
<1>9. QED
  BY <1>6, <1>7, <1>8 DEF Avisa

LEMMA MemoriaAvisaCorto ==
  ASSUME FInv, PTypeOK', Anunciado, MemoriaResponde
  PROVE  Avisa
<1>1. sem \in [Semaforos -> Nat] /\ {"planiCorto", "planiLargo"} \subseteq Semaforos
  BY DEF FInv, PTypeOK, TipoHilos, Semaforos
<1>2. \/ UNCHANGED sem \/ sem' = [sem EXCEPT !["paginaCargada"] = @ + 1]
      \/ sem' = [sem EXCEPT !["paginasLiberadas"] = @ + 1]
  BY DEF MemoriaResponde, Publica
<1>3. MasFichas
  BY <1>1, <1>2 DEF MasFichas
<1>4. UNCHANGED <<colaCorto, ejecutandoB, corto, largo, detenida>>
  BY DEF MemoriaResponde, colas, cortoVar
<1>5. \A g \in Hilos : hilo'[g] = hilo[g] \/ hilo[g] = <<>>
  <2>1. hilo \in [Hilos -> Seq(Conocidas)]
    BY DEF FInv, PTypeOK, TipoHilos
  <2>2. hilo["memoria"] = <<>> /\ (UNCHANGED hilo \/ \E ops : hilo' = [hilo EXCEPT !["memoria"] = ops])
    BY DEF MemoriaResponde
  <2>3. QED
    BY <2>1, <2>2
<1>6. QED
  BY <1>3, <1>4, <1>5, QuietaAvisa DEF FInv

LEMMA ConsolaAvisa ==
  ASSUME SoloFIFO, FInv, PTypeOK', Anunciado, hilo_consola
  PROVE  Avisa
<1>1. sem \in [Semaforos -> Nat] /\ {"planiCorto", "planiLargo"} \subseteq Semaforos
  BY DEF FInv, PTypeOK, TipoHilos, Semaforos
<1>2. hilo \in [Hilos -> Seq(Conocidas)] /\ PTypeOK
  BY DEF FInv, PTypeOK, TipoHilos
<1>3. UNCHANGED <<colas, largo, cortoVar>>
  BY Zenon DEF hilo_consola, iniciar_proceso, finalizar_proceso, detener_planificacion,
     iniciar_planificacion, multiprogramacion, FijoEnConsola
<1>4. UNCHANGED <<colaCorto, ejecutandoB, corto, largo>>
  BY <1>3 DEF colas, cortoVar
<1>5. CASE iniciar_proceso
  <2>1. UNCHANGED <<detenida, sem>> /\ hilo["consola"] = <<>>
        /\ hilo' = [hilo EXCEPT !["consola"] = <<sem_wait("procesoCargado")>>]
    BY <1>5 DEF iniciar_proceso, Lista
  <2>2. \A g \in Hilos : hilo'[g] = hilo[g] \/ hilo[g] = <<>>
    BY <1>2, <2>1
  <2>3. MasFichas
    BY <1>2, <2>1, Fichas DEF MasFichas
  <2>4. QED
    BY <1>2, <1>4, <2>1, <2>2, <2>3, QuietaAvisa
<1>6. CASE detener_planificacion
  BY <1>6 DEF detener_planificacion, Avisa, Pendiente
<1>7. CASE iniciar_planificacion
  <2>1. sem' = [sem EXCEPT !["planiLargo"] = @ + 1]
    BY <1>7 DEF iniciar_planificacion, Publica
  <2>2. sem'["planiLargo"] > 0
    BY <1>1, <2>1
  <2>3. QED
    BY <2>2 DEF Avisa, Despierto
<1>8. ASSUME NEW g \in Grados, multiprogramacion(g)
      PROVE  Avisa
  <2>1. UNCHANGED <<detenida, hilo>> /\ (UNCHANGED sem \/ sem' = [sem EXCEPT !["planiLargo"] = @ + 1])
    BY <1>8 DEF multiprogramacion, Publica
  <2>2. MasFichas
    BY <1>1, <2>1 DEF MasFichas
  <2>3. QED
    BY <1>2, <1>4, <2>1, <2>2, QuietaAvisa
<1>9. \A p \in Pids : ~finalizar_proceso(p)
  BY SinKills DEF FInv
<1>10. QED
  BY <1>5, <1>6, <1>7, <1>8, <1>9 DEF hilo_consola

LEMMA AnunciadoInductivo ==
  SoloFIFO /\ FInv /\ Prolijas /\ Anunciado /\ [PNext]_pvars => Prolijas' /\ Anunciado'
<1> SUFFICES ASSUME SoloFIFO, FInv, Prolijas, Anunciado, [PNext]_pvars
             PROVE  Prolijas' /\ Avisa
  BY AnunciadoDespues DEF Avisa
<1>1. PTypeOK /\ PTypeOK'
  BY PTipoInductivo DEF FInv
<1>2. ASSUME UNCHANGED <<colas, ejecutandoB, corto, largo, detenida, sem, hilo>>
      PROVE  Prolijas' /\ Avisa
  <2>1. MasFichas
    BY <1>1, <1>2, Fichas DEF MasFichas
  <2>2. Prolijas'
    BY <1>2, HilosIguales
  <2>3. QED
    BY <1>1, <1>2, <2>1, <2>2, QuietaAvisa DEF colas
<1>3. ASSUME NEW h \in Hilos, Llamada(h) PROVE Prolijas' /\ Avisa
  <2>1. CASE EscribirSinAbrir(h)
    BY <1>2, <2>1, EscribirQuieta
  <2>2. CASE ~EscribirSinAbrir(h)
    BY <1>1, <1>3, <2>2, LlamadaProlija, LlamadaAvisa
  <2>3. QED
    BY <2>1, <2>2
<1>4. CASE CPUPaso
  BY <1>2, <1>4 DEF CPUPaso, kernel, consigna, cortoVar
<1>5. CASE RecibirContexto
  BY <1>1, <1>5, ContextoProlijo, ContextoAvisa
<1>6. CASE MemoriaResponde
  BY <1>1, <1>6, MemoriaProlija, MemoriaAvisaCorto
<1>7. CASE planificador_largo
  <2>1. UNCHANGED hilo
    BY <1>7 DEF planificador_largo, LargoDespierta, LargoToma, LargoAdmite, LargoCuenta,
       LargoTermina, FijoEnLargo
  <2>2. QED
    BY <1>1, <1>7, <2>1, LargoAvisa, HilosIguales
<1>8. CASE planificador_corto
  <2>1. UNCHANGED hilo
    BY <1>8 DEF planificador_corto, CortoDespierta, CortoOrdena, CortoMira, CortoCompara,
       CortoDesalojado, CortoToma, CortoMarca, CortoOcupa, CortoEnvia, FijoEnCorto
  <2>2. QED
    BY <1>1, <1>8, <2>1, CortoAvisa, HilosIguales
<1>9. ASSUME NEW p \in Pids, clock_rr(p) PROVE Prolijas' /\ Avisa
  BY <1>2, <1>9 DEF clock_rr
<1>10. CASE hilo_consola
  BY <1>1, <1>10, ConsolaProlija, ConsolaAvisa
<1>11. CASE UNCHANGED pvars
  BY <1>2, <1>11 DEF pvars, kernel, consigna, cortoVar
<1>12. QED
  BY <1>3, <1>4, <1>5, <1>6, <1>7, <1>8, <1>9, <1>10, <1>11 DEF PNext

LEMMA AnunciadoInicial == PInit => Anunciado
BY DEF PInit, Anunciado, Pendiente

(* Only the thread that attends the CPU has calls that post without being  *)
(* posts: in any other an announcement is one of the two the property names.*)
LEMMA DespiertaDeAnunciado == PTypeOK /\ Prolijas /\ Anunciado => SinDespertarPerdido
<1> SUFFICES ASSUME PTypeOK, Prolijas, Anunciado, Pendiente, ~Despierto, hilo["despacho"] = <<>>
             PROVE  \E h \in Hilos : Despierta(hilo[h])
  BY DEF SinDespertarPerdido, Pendiente, Despierto
<1>1. PICK h \in Hilos : Anuncia(hilo[h])
  BY DEF Anunciado
<1>2. h # "despacho"
  BY <1>1, NadaAnuncia
<1>3. PICK i \in 1..Len(hilo[h]) : /\ Despertador(hilo[h][i])
                                   /\ \A j \in 1..(i - 1) : hilo[h][j].op # "push_colaCorto"
  BY <1>1 DEF Anuncia
<1>4. hilo[h][i].op \notin {"wait_recurso", "signal_recurso", "avisar", "hilo_funcion"}
  BY <1>2, <1>3 DEF Prolijas, Prolija, Propia
<1>5. QED
  BY <1>3, <1>4 DEF Despertador, Despierta

(* SinDespertarPerdido: the handler, the detached threads,                 *)
(* planificador_largo and the console post to sem_planiCorto or to         *)
(* sem_planiLargo, some after the push they announce and some before it;   *)
(* under FIFO with nobody killed no interleaving of them leaves a ready    *)
(* process, a free CPU and nobody that is about to find out.               *)
THEOREM PSinDespertarPerdido ==
  SoloFIFO => (PSpec /\ []DescriptorAjeno => []SinDespertarPerdido)
<1>1. CASE SoloFIFO
  <2>1. FInv => PTypeOK
    BY DEF FInv
  <2>2. PSpec /\ []DescriptorAjeno => []FInv
    BY <1>1, FInvariante
  <2>3. QED
    BY <1>1, <2>1, <2>2, DespiertaDeAnunciado, AnunciadoInicial, ProlijasInicial, AnunciadoInductivo,
       PTL DEF PSpec
<1>2. QED
  BY <1>1, Zenon
=============================================================================
