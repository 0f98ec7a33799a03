------------------------- MODULE PlanificacionProofs -------------------------
(***************************************************************************)
(* Proofs about Planificacion: its type invariant; that whatever the       *)
(* schedulers, the CPU and the console do, the resources only make the     *)
(* steps of RSpecLibre, so its invariants hold here as well; and that the  *)
(* search for deadlocks hangs the Kernel only around a cycle of waits.     *)
(***************************************************************************)
EXTENDS Planificacion, DeteccionProofs

(* A thread about to make a call has a call of the known ones to make, and *)
(* whatever it does next is made of known ones.                            *)
LEMMA CabezaConocida ==
  ASSUME TipoHilos, NEW h \in Hilos, hilo[h] # <<>>
  PROVE  Head(hilo[h]) \in Conocidas /\ Tail(hilo[h]) \in Seq(Conocidas)
<1>1. hilo[h] \in Seq(Conocidas)
  BY DEF TipoHilos
<1>2. QED
  BY <1>1

LEMMA SigueTipo ==
  ASSUME TipoHilos, NEW h \in Hilos, hilo[h] # <<>>, NEW ops \in Seq(Conocidas), Sigue(h, ops)
  PROVE  hilo' \in [Hilos -> Seq(Conocidas)]
<1>1. Tail(hilo[h]) \in Seq(Conocidas)
  BY CabezaConocida
<1>2. ops \o Tail(hilo[h]) \in Seq(Conocidas)
  BY <1>1
<1>3. QED
  BY <1>2 DEF Sigue, TipoHilos

LEMMA AvanzaTipo ==
  ASSUME TipoHilos, NEW h \in Hilos, hilo[h] # <<>>, Avanza(h)
  PROVE  hilo' \in [Hilos -> Seq(Conocidas)]
<1>1. Tail(hilo[h]) \in Seq(Conocidas)
  BY CabezaConocida
<1>2. QED
  BY <1>1 DEF Avanza, TipoHilos

LEMMA PublicaTipo ==
  ASSUME TipoHilos, NEW s \in Semaforos, Publica(s)
  PROVE  sem' \in [Semaforos -> Nat]
BY DEF TipoHilos, Publica

(* What each call carries, by its name.                                    *)
LEMMA CampoPid ==
  ASSUME TipoHilos, NEW h \in Hilos, NEW n, Llama(h, n),
         n \notin {"sem_post", "sem_wait", "respuesta", "avisar", "despertar_largo"}
  PROVE  De(h) \in Pids
<1>1. Head(hilo[h]) \in Conocidas /\ Head(hilo[h]).op = n
  BY CabezaConocida DEF Llama
<1>2. QED
  BY <1>1 DEF Conocidas, De

LEMMA CampoEstado ==
  ASSUME TipoHilos, NEW h \in Hilos, Llama(h, "cambiar_estado")
  PROVE  Head(hilo[h]).arg \in Estados
<1>1. Head(hilo[h]) \in Conocidas /\ Head(hilo[h]).op = "cambiar_estado"
  BY CabezaConocida DEF Llama
<1>2. QED
  BY <1>1 DEF Conocidas

LEMMA CampoSemaforo ==
  ASSUME TipoHilos, NEW h \in Hilos, Llama(h, "sem_post") \/ Llama(h, "sem_wait")
  PROVE  Head(hilo[h]).arg \in Semaforos
<1>1. Head(hilo[h]) \in Conocidas /\ Head(hilo[h]).op \in {"sem_post", "sem_wait"}
  BY CabezaConocida DEF Llama
<1>2. QED
  BY <1>1 DEF Conocidas

LEMMA CampoRutina ==
  ASSUME TipoHilos, NEW h \in Hilos, Llama(h, "hilo_funcion")
  PROVE  Head(hilo[h]).arg \in {"sleep_proceso", "page_fault", "f_write", "f_truncate"}
<1>1. Head(hilo[h]) \in Conocidas /\ Head(hilo[h]).op = "hilo_funcion"
  BY CabezaConocida DEF Llama
<1>2. QED
  BY <1>1 DEF Conocidas

-----------------------------------------------------------------------------
(* The variables a call may change, typed after it.                        *)
EfectoTipado ==
  /\ creados' \in Int /\ estado' \in [Pids -> Estados]
  /\ colaLargo' \in Seq(Pids) /\ colaCorto' \in Seq(Pids) /\ multi' \in Int
  /\ sem' \in [Semaforos -> Nat] /\ hilo' \in [Hilos -> Seq(Conocidas)]
  /\ canalMemoria' \in Seq([tipo : {"cargar", "cargar_pagina", "liberar_paginas"}, pid : Pids])
  /\ canalDespacho' \in Seq(MensajesDespacho)
  /\ canalInterrupcion' \in Seq([motivo : MotivosInterrupcion, pid : Nat \ {0}])

LEMMA EfectoNulo ==
  ASSUME PTypeOK
  PROVE  /\ creados \in Int /\ estado \in [Pids -> Estados]
         /\ colaLargo \in Seq(Pids) /\ colaCorto \in Seq(Pids) /\ multi \in Int
         /\ sem \in [Semaforos -> Nat] /\ hilo \in [Hilos -> Seq(Conocidas)]
         /\ canalMemoria \in Seq([tipo : {"cargar", "cargar_pagina", "liberar_paginas"}, pid : Pids])
         /\ canalDespacho \in Seq(MensajesDespacho)
         /\ canalInterrupcion \in Seq([motivo : MotivosInterrupcion, pid : Nat \ {0}])
         /\ TipoHilos /\ RTypeOK
BY DEF PTypeOK, TipoTabla, TipoColas, TipoHilos, CPUTypeOK, TipoCanales, TipoNucleo, TieneProceso

LEMMA LlamadaTipo ==
  ASSUME PTypeOK, FijoEnLlamadas, EfectoTipado, RTypeOK'
  PROVE  PTypeOK'
<1>1. TipoConsigna'
  BY DEF PTypeOK, TipoConsigna, FijoEnLlamadas, consigna, EventosMax
<1>2. TipoTabla'
  BY DEF PTypeOK, TipoTabla, FijoEnLlamadas, EfectoTipado, cortoVar
<1>3. TipoColas'
  BY DEF PTypeOK, TipoColas, FijoEnLlamadas, EfectoTipado, cortoVar
<1>4. TipoHilos'
  BY DEF TipoHilos, EfectoTipado
<1>5. CPUTypeOK'
  BY DEF PTypeOK, CPUTypeOK, TipoCanales, TipoNucleo, TieneProceso, FijoEnLlamadas, EfectoTipado, nucleo
<1>6. QED
  BY <1>1, <1>2, <1>3, <1>4, <1>5 DEF PTypeOK

LEMMA RecursosQuietos ==
  ASSUME RTypeOK, UNCHANGED rvars
  PROVE  RTypeOK'
BY DEF RTypeOK, rvars

(* One lemma for each call that leaves the resources alone.                *)
LEMMA CambiarEstadoTipo ==
  ASSUME PTypeOK, NEW h \in Hilos, CambiarEstado(h)
  PROVE  PTypeOK'
<1>1. hilo[h] # <<>> /\ Llama(h, "cambiar_estado")
  BY DEF CambiarEstado, Llama
<1>2. De(h) \in Pids /\ Head(hilo[h]).arg \in Estados
  BY <1>1, EfectoNulo, CampoPid, CampoEstado
<1>3. hilo' \in [Hilos -> Seq(Conocidas)]
  BY <1>1, EfectoNulo, AvanzaTipo DEF CambiarEstado
<1>4. EfectoTipado
  BY <1>2, <1>3, EfectoNulo DEF CambiarEstado, EfectoTipado, colas
<1>5. QED
  BY <1>4, EfectoNulo, RecursosQuietos, LlamadaTipo DEF CambiarEstado

LEMMA SemPostTipo ==
  ASSUME PTypeOK, NEW h \in Hilos, SemPost(h)
  PROVE  PTypeOK'
<1>1. hilo[h] # <<>> /\ Llama(h, "sem_post")
  BY DEF SemPost, Llama
<1>2. sem' \in [Semaforos -> Nat]
  BY <1>1, EfectoNulo, CampoSemaforo, PublicaTipo DEF SemPost
<1>3. hilo' \in [Hilos -> Seq(Conocidas)]
  BY <1>1, EfectoNulo, AvanzaTipo DEF SemPost
<1>4. EfectoTipado
  BY <1>2, <1>3, EfectoNulo DEF SemPost, EfectoTipado, colas
<1>5. QED
  BY <1>4, EfectoNulo, RecursosQuietos, LlamadaTipo DEF SemPost

LEMMA SemWaitTipo ==
  ASSUME PTypeOK, NEW h \in Hilos, SemWait(h)
  PROVE  PTypeOK'
<1>1. hilo[h] # <<>> /\ Llama(h, "sem_wait")
  BY DEF SemWait, Llama
<1>2. Head(hilo[h]).arg \in Semaforos
  BY <1>1, EfectoNulo, CampoSemaforo
<1>3. sem' \in [Semaforos -> Nat]
  BY <1>2, EfectoNulo DEF SemWait
<1>4. hilo' \in [Hilos -> Seq(Conocidas)]
  BY <1>1, EfectoNulo, AvanzaTipo DEF SemWait
<1>5. EfectoTipado
  BY <1>3, <1>4, EfectoNulo DEF SemWait, EfectoTipado, colas
<1>6. QED
  BY <1>5, EfectoNulo, RecursosQuietos, LlamadaTipo DEF SemWait

LEMMA ConAlFinalTipo ==
  ASSUME NEW p \in Pids, NEW c \in Seq(Pids)
  PROVE  ConAlFinal(p, c) \in Seq(Pids)
BY DEF ConAlFinal

LEMMA PushColaCortoTipo ==
  ASSUME PTypeOK, NEW h \in Hilos, PushColaCorto(h)
  PROVE  PTypeOK'
<1>1. hilo[h] # <<>> /\ Llama(h, "push_colaCorto")
  BY DEF PushColaCorto, Llama
<1>2. De(h) \in Pids
  BY <1>1, EfectoNulo, CampoPid
<1>3. hilo' \in [Hilos -> Seq(Conocidas)]
  BY <1>1, EfectoNulo, AvanzaTipo DEF PushColaCorto
<1>4. colaCorto' \in Seq(Pids) /\ estado' \in [Pids -> Estados]
  BY <1>2, EfectoNulo, ConAlFinalTipo DEF PushColaCorto, Estados
<1>5. EfectoTipado
  BY <1>3, <1>4, EfectoNulo DEF PushColaCorto, EfectoTipado
<1>6. QED
  BY <1>5, EfectoNulo, RecursosQuietos, LlamadaTipo DEF PushColaCorto

LEMMA QueuePushTipo ==
  ASSUME PTypeOK, NEW h \in Hilos, QueuePush(h)
  PROVE  PTypeOK'
<1>1. hilo[h] # <<>> /\ Llama(h, "queue_push")
  BY DEF QueuePush, Llama
<1>2. De(h) \in Pids
  BY <1>1, EfectoNulo, CampoPid
<1>3. hilo' \in [Hilos -> Seq(Conocidas)]
  BY <1>1, EfectoNulo, AvanzaTipo DEF QueuePush
<1>4. colaCorto' \in Seq(Pids)
  BY <1>2, EfectoNulo DEF QueuePush
<1>5. EfectoTipado
  BY <1>3, <1>4, EfectoNulo DEF QueuePush, EfectoTipado
<1>6. QED
  BY <1>5, EfectoNulo, RecursosQuietos, LlamadaTipo DEF QueuePush

LEMMA OrdenarAdelanteTipo ==
  ASSUME PTypeOK, NEW h \in Hilos, OrdenarAdelante(h)
  PROVE  PTypeOK'
<1>1. hilo[h] # <<>> /\ Llama(h, "ordenar_adelante")
  BY DEF OrdenarAdelante, Llama
<1>2. De(h) \in Pids
  BY <1>1, EfectoNulo, CampoPid
<1>3. hilo' \in [Hilos -> Seq(Conocidas)]
  BY <1>1, EfectoNulo, AvanzaTipo DEF OrdenarAdelante
<1>4. colaCorto' \in Seq(Pids)
  BY <1>2, EfectoNulo DEF OrdenarAdelante
<1>5. EfectoTipado
  BY <1>3, <1>4, EfectoNulo DEF OrdenarAdelante, EfectoTipado
<1>6. QED
  BY <1>5, EfectoNulo, RecursosQuietos, LlamadaTipo DEF OrdenarAdelante

LEMMA PushColaLargoTipo ==
  ASSUME PTypeOK, NEW h \in Hilos, PushColaLargo(h)
  PROVE  PTypeOK'
<1>1. hilo[h] # <<>> /\ Llama(h, "push_colaLargo")
  BY DEF PushColaLargo, Llama
<1>2. De(h) \in Pids
  BY <1>1, EfectoNulo, CampoPid
<1>3. hilo' \in [Hilos -> Seq(Conocidas)]
  BY <1>1, EfectoNulo, AvanzaTipo DEF PushColaLargo
<1>4. colaLargo' \in Seq(Pids)
  BY <1>2, EfectoNulo DEF PushColaLargo
<1>5. EfectoTipado
  BY <1>3, <1>4, EfectoNulo DEF PushColaLargo, EfectoTipado
<1>6. QED
  BY <1>5, EfectoNulo, RecursosQuietos, LlamadaTipo DEF PushColaLargo

LEMMA BajarMultiTipo ==
  ASSUME PTypeOK, NEW h \in Hilos, BajarMulti(h)
  PROVE  PTypeOK'
<1>1. hilo[h] # <<>> /\ Llama(h, "bajar_multi")
  BY DEF BajarMulti, Llama
<1>2. hilo' \in [Hilos -> Seq(Conocidas)]
  BY <1>1, EfectoNulo, AvanzaTipo DEF BajarMulti
<1>3. multi' \in Int
  BY EfectoNulo DEF BajarMulti
<1>4. EfectoTipado
  BY <1>2, <1>3, EfectoNulo DEF BajarMulti, EfectoTipado, colas
<1>5. QED
  BY <1>4, EfectoNulo, RecursosQuietos, LlamadaTipo DEF BajarMulti

LEMMA DespertarLargoTipo ==
  ASSUME PTypeOK, NEW h \in Hilos, DespertarLargo(h)
  PROVE  PTypeOK'
<1>1. hilo[h] # <<>> /\ Llama(h, "despertar_largo")
  BY DEF DespertarLargo, Llama
<1>2. hilo' \in [Hilos -> Seq(Conocidas)]
  BY <1>1, EfectoNulo, AvanzaTipo DEF DespertarLargo
<1>3. sem' \in [Semaforos -> Nat]
  BY EfectoNulo, PublicaTipo DEF DespertarLargo, Semaforos
<1>4. EfectoTipado
  BY <1>2, <1>3, EfectoNulo DEF DespertarLargo, EfectoTipado, colas
<1>5. QED
  BY <1>4, EfectoNulo, RecursosQuietos, LlamadaTipo DEF DespertarLargo

LEMMA BorrarProcesoTipo ==
  ASSUME PTypeOK, NEW h \in Hilos, BorrarProceso(h)
  PROVE  PTypeOK'
<1>1. hilo[h] # <<>> /\ Llama(h, "borrar_proceso")
  BY DEF BorrarProceso, Llama
<1>2. De(h) \in Pids
  BY <1>1, EfectoNulo, CampoPid
<1>3. hilo' \in [Hilos -> Seq(Conocidas)]
  BY <1>1, EfectoNulo, AvanzaTipo DEF BorrarProceso
<1>4. creados' \in Int /\ estado' \in [Pids -> Estados]
  BY <1>2, EfectoNulo DEF BorrarProceso, Estados
<1>5. EfectoTipado
  BY <1>3, <1>4, EfectoNulo DEF BorrarProceso, EfectoTipado, colas
<1>6. QED
  BY <1>5, EfectoNulo, RecursosQuietos, LlamadaTipo DEF BorrarProceso

LEMMA ResponderTipo ==
  ASSUME PTypeOK, NEW h \in Hilos, Responder(h)
  PROVE  PTypeOK'
<1>1. hilo[h] # <<>> /\ Llama(h, "respuesta")
  BY DEF Responder, Llama
<1>2. hilo' \in [Hilos -> Seq(Conocidas)]
  BY <1>1, EfectoNulo, AvanzaTipo DEF Responder
<1>3. [tipo |-> "respuesta", pid |-> 0, pc |-> 0] \in MensajesDespacho
  BY DEF MensajesDespacho
<1>4. canalDespacho' \in Seq(MensajesDespacho)
  BY <1>3, EfectoNulo DEF Responder
<1>5. EfectoTipado
  BY <1>2, <1>3, <1>4, EfectoNulo DEF Responder, EfectoTipado, colas
<1>6. QED
  BY <1>5, EfectoNulo, RecursosQuietos, LlamadaTipo DEF Responder

LEMMA AvisarTipo ==
  ASSUME PTypeOK, NEW h \in Hilos, Avisar(h)
  PROVE  PTypeOK'
<1>1. hilo[h] # <<>> /\ Llama(h, "avisar")
  BY DEF Avisar, Llama
<1>2. hilo' \in [Hilos -> Seq(Conocidas)]
  BY <1>1, EfectoNulo, AvanzaTipo DEF Avisar
<1>3. [motivo |-> "desalojo_signal", pid |-> FdInterrupcion]
        \in [motivo : MotivosInterrupcion, pid : Nat \ {0}]
  BY PlanificacionAssumption DEF MotivosInterrupcion
<1>4. canalInterrupcion' \in Seq([motivo : MotivosInterrupcion, pid : Nat \ {0}])
  <2> DEFINE Avisos == [motivo : MotivosInterrupcion, pid : Nat \ {0}]
  <2>1. canalInterrupcion \in Seq(Avisos)
    BY EfectoNulo
  <2>2. Append(canalInterrupcion, [motivo |-> "desalojo_signal", pid |-> FdInterrupcion])
          \in Seq(Avisos)
    <3>1. [motivo |-> "desalojo_signal", pid |-> FdInterrupcion] \in Avisos
      BY <1>3
    <3> HIDE DEF Avisos
    <3>2. QED
      BY <2>1, <3>1
  <2>3. QED
    BY <2>1, <2>2 DEF Avisar
<1>5. sem' \in [Semaforos -> Nat]
  BY EfectoNulo, PublicaTipo DEF Avisar, Semaforos
<1>6. EfectoTipado
  BY <1>2, <1>3, <1>4, <1>5, EfectoNulo DEF Avisar, EfectoTipado, colas
<1>7. QED
  BY <1>6, EfectoNulo, RecursosQuietos, LlamadaTipo DEF Avisar

LEMMA QuitarDeColasTipo ==
  ASSUME PTypeOK, NEW h \in Hilos, QuitarDeColas(h)
  PROVE  PTypeOK'
<1>1. hilo[h] # <<>> /\ (Llama(h, "quitarCorto") \/ Llama(h, "quitarLargo"))
  BY DEF QuitarDeColas, Llama
<1>2. hilo' \in [Hilos -> Seq(Conocidas)]
  BY <1>1, EfectoNulo, AvanzaTipo DEF QuitarDeColas
<1>3. colaCorto' \in Seq(Pids) /\ colaLargo' \in Seq(Pids)
  BY EfectoNulo, QuitarPropiedades DEF QuitarDeColas
<1>4. EfectoTipado
  BY <1>2, <1>3, EfectoNulo DEF QuitarDeColas, EfectoTipado
<1>5. QED
  BY <1>4, EfectoNulo, RecursosQuietos, LlamadaTipo DEF QuitarDeColas

LEMMA PedirMemoriaTipo ==
  ASSUME PTypeOK, NEW h \in Hilos, PedirMemoria(h)
  PROVE  PTypeOK'
<1>1. /\ hilo[h] # <<>>
      /\ Llama(h, "liberar_paginas") \/ Llama(h, "cargar_pagina")
  BY DEF PedirMemoria, Llama
<1>2. De(h) \in Pids
  BY <1>1, EfectoNulo, CampoPid
<1>3. hilo' \in [Hilos -> Seq(Conocidas)]
  BY <1>1, EfectoNulo, AvanzaTipo DEF PedirMemoria
<1>4. [tipo |-> Head(hilo[h]).op, pid |-> De(h)]
        \in [tipo : {"cargar", "cargar_pagina", "liberar_paginas"}, pid : Pids]
  BY <1>1, <1>2 DEF Llama
<1>5. canalMemoria' \in Seq([tipo : {"cargar", "cargar_pagina", "liberar_paginas"}, pid : Pids])
  BY <1>4, EfectoNulo DEF PedirMemoria
<1>6. EfectoTipado
  BY <1>3, <1>5, EfectoNulo DEF PedirMemoria, EfectoTipado, colas
<1>7. QED
  BY <1>6, EfectoNulo, RecursosQuietos, LlamadaTipo DEF PedirMemoria

-----------------------------------------------------------------------------
(* The calls that go on with others: what they put in front is known.      *)
LEMMA PushSiEXECTipo ==
  ASSUME PTypeOK, NEW h \in Hilos, PushSiEXEC(h)
  PROVE  PTypeOK'
<1>1. hilo[h] # <<>> /\ Llama(h, "push_si_EXEC")
  BY DEF PushSiEXEC, Llama
<1>2. De(h) \in Pids
  BY <1>1, EfectoNulo, CampoPid
<1>3. hilo' \in [Hilos -> Seq(Conocidas)]
  <2>1. push_colaCorto(De(h)) \in Conocidas
    BY <1>2 DEF push_colaCorto, Op, Simple, Conocidas
  <2>2. <<push_colaCorto(De(h))>> \in Seq(Conocidas)
    BY <2>1
  <2>3. QED
    BY <1>1, <2>2, EfectoNulo, AvanzaTipo, SigueTipo DEF PushSiEXEC
<1>4. EfectoTipado
  BY <1>3, EfectoNulo DEF PushSiEXEC, EfectoTipado, colas
<1>5. QED
  BY <1>4, EfectoNulo, RecursosQuietos, LlamadaTipo DEF PushSiEXEC

(* Every call a thread makes but the one that never returns.               *)
Normales == {o \in Conocidas : o.op # "colgado"}

LEMMA NormalesConocidas == Seq(Normales) \subseteq Seq(Conocidas)
<1>1. Normales \subseteq Conocidas
  BY DEF Normales
<1>2. QED
  BY <1>1

LEMMA OpsNormales ==
  ASSUME NEW p \in Pids
  PROVE  /\ \A e \in Estados : cambiar_estado(p, e) \in Normales
         /\ \A s \in Semaforos : sem_post(s) \in Normales /\ sem_wait(s) \in Normales
         /\ responder \in Normales /\ Simple("avisar", 0) \in Normales
         /\ Simple("despertar_largo", 0) \in Normales
         /\ \A f \in {"sleep_proceso", "page_fault", "f_write", "f_truncate"} :
              hilo_funcion(p, f) \in Normales
         /\ \A r \in Args \cup {0} : Op("wait_recurso", p, r) \in Normales
                                     /\ Op("signal_recurso", p, r) \in Normales
         /\ \A z \in {"SUCCESS", "SIGKILL", "INVALID_RESOURCE", "INVALID_WRITE"} :
              salida(p, z) \in Normales
<1>1. \A e \in Estados : cambiar_estado(p, e) \in Normales
  BY DEF Op, Conocidas, cambiar_estado, Normales
<1>2. \A s \in Semaforos : sem_post(s) \in Normales /\ sem_wait(s) \in Normales
  BY DEF Op, Conocidas, sem_post, sem_wait, Normales
<1>3. /\ responder \in Normales /\ Simple("avisar", 0) \in Normales
      /\ Simple("despertar_largo", 0) \in Normales
  BY DEF Op, Simple, Conocidas, responder, Normales
<1>4. \A f \in {"sleep_proceso", "page_fault", "f_write", "f_truncate"} :
        hilo_funcion(p, f) \in Normales
  BY DEF Op, Conocidas, hilo_funcion, Normales
<1>5. \A r \in Args \cup {0} : Op("wait_recurso", p, r) \in Normales
                               /\ Op("signal_recurso", p, r) \in Normales
  BY DEF Op, Simple, Conocidas, Normales
<1>6. \A z \in {"SUCCESS", "SIGKILL", "INVALID_RESOURCE", "INVALID_WRITE"} :
        salida(p, z) \in Normales
  BY DEF Op, Conocidas, salida, Normales
<1>7. QED
  BY <1>1, <1>2, <1>3, <1>4, <1>5, <1>6

LEMMA OpsConocidas ==
  ASSUME NEW p \in Pids
  PROVE  /\ \A e \in Estados : cambiar_estado(p, e) \in Conocidas
         /\ \A s \in Semaforos : sem_post(s) \in Conocidas /\ sem_wait(s) \in Conocidas
         /\ responder \in Conocidas /\ Simple("avisar", 0) \in Conocidas
         /\ Simple("despertar_largo", 0) \in Conocidas
         /\ \A f \in {"sleep_proceso", "page_fault", "f_write", "f_truncate"} :
              hilo_funcion(p, f) \in Conocidas
         /\ \A r \in Args \cup {0} : Op("wait_recurso", p, r) \in Conocidas
                                     /\ Op("signal_recurso", p, r) \in Conocidas
         /\ \A z \in {"SUCCESS", "SIGKILL", "INVALID_RESOURCE", "INVALID_WRITE"} :
              salida(p, z) \in Conocidas
BY OpsNormales DEF Normales

LEMMA OpsSimples ==
  ASSUME NEW p \in Pids,
         NEW n \in {"push_colaCorto", "push_si_EXEC", "queue_push", "ordenar_adelante",
                    "quitarCorto", "quitarLargo", "liberar_recursos", "liberar_paginas",
                    "cargar_pagina", "bajar_multi", "push_colaLargo", "borrar_proceso",
                    "deteccion_deadlock", "colgado"}
  PROVE  Simple(n, p) \in Conocidas
BY DEF Op, Simple, Conocidas

LEMMA OpsSimplesNormales ==
  ASSUME NEW p \in Pids,
         NEW n \in {"push_colaCorto", "push_si_EXEC", "queue_push", "ordenar_adelante",
                    "quitarCorto", "quitarLargo", "liberar_recursos", "liberar_paginas",
                    "cargar_pagina", "bajar_multi", "push_colaLargo", "borrar_proceso",
                    "deteccion_deadlock"}
  PROVE  Simple(n, p) \in Normales
BY DEF Op, Simple, Conocidas, Normales

(* A few calls make a sequence of them.                                    *)
LEMMA ConcatenarTipo == \A S : \A s, t \in Seq(S) : s \o t \in Seq(S)
OBVIOUS

LEMMA ListaDeUna == \A S : \A a \in S : <<a>> \in Seq(S)
OBVIOUS

LEMMA ListaDeDos == \A S : \A a, b \in S : <<a, b>> \in Seq(S)
OBVIOUS

LEMMA ListaDeTres == \A S : \A a, b, c \in S : <<a, b, c>> \in Seq(S)
OBVIOUS

LEMMA ListaDeCuatro == \A S : \A a, b, c, d \in S : <<a, b, c, d>> \in Seq(S)
OBVIOUS

LEMMA ListaDeSeis == \A S : \A a, b, c, d, e, f \in S : <<a, b, c, d, e, f>> \in Seq(S)
OBVIOUS

LEMMA WaitInvalidoTipo ==
  ASSUME PTypeOK, NEW h \in Hilos, WaitInvalido(h)
  PROVE  PTypeOK'
<1>1. hilo[h] # <<>> /\ Llama(h, "wait_recurso")
  BY DEF WaitInvalido, Llama
<1>2. De(h) \in Pids
  BY <1>1, EfectoNulo, CampoPid
<1>3. salida(De(h), "INVALID_RESOURCE") \in Conocidas /\ sem_post("planiCorto") \in Conocidas
  BY <1>2, OpsConocidas DEF Semaforos
<1>4. <<salida(De(h), "INVALID_RESOURCE"), sem_post("planiCorto")>> \in Seq(Conocidas)
  BY <1>3
<1>5. hilo' \in [Hilos -> Seq(Conocidas)]
  BY <1>1, <1>4, EfectoNulo, SigueTipo DEF WaitInvalido
<1>6. EfectoTipado
  BY <1>5, EfectoNulo DEF WaitInvalido, EfectoTipado, colas
<1>7. QED
  BY <1>6, EfectoNulo, RecursosQuietos, LlamadaTipo DEF WaitInvalido

LEMMA SignalInvalidoTipo ==
  ASSUME PTypeOK, NEW h \in Hilos, SignalInvalido(h)
  PROVE  PTypeOK'
<1>1. hilo[h] # <<>> /\ Llama(h, "signal_recurso")
  BY DEF SignalInvalido, Llama
<1>2. De(h) \in Pids
  BY <1>1, EfectoNulo, CampoPid
<1>3. salida(De(h), "INVALID_RESOURCE") \in Conocidas
  BY <1>2, OpsConocidas
<1>4. <<salida(De(h), "INVALID_RESOURCE")>> \in Seq(Conocidas)
  BY <1>3
<1>5. hilo' \in [Hilos -> Seq(Conocidas)]
  BY <1>1, <1>4, EfectoNulo, SigueTipo DEF SignalInvalido
<1>6. EfectoTipado
  BY <1>5, EfectoNulo DEF SignalInvalido, EfectoTipado, colas
<1>7. QED
  BY <1>6, EfectoNulo, RecursosQuietos, LlamadaTipo DEF SignalInvalido

LEMMA ColaDeSalidaNormal ==
  ASSUME NEW p \in Pids, NEW e
  PROVE  ColaDeSalida(p, e) \in Seq(Normales)
<1>1. /\ Simple("quitarCorto", p) \in Normales /\ Simple("quitarLargo", p) \in Normales
      /\ Simple("liberar_recursos", p) \in Normales /\ Simple("liberar_paginas", p) \in Normales
      /\ Simple("bajar_multi", p) \in Normales
  BY OpsSimplesNormales
<1>2. sem_wait("paginasLiberadas") \in Normales /\ sem_post("planiLargo") \in Normales
  BY OpsNormales DEF Semaforos
<1>3. cambiar_estado(p, "TERMINATED") \in Normales
  BY OpsNormales DEF Estados
<1>4. << Simple("quitarCorto", p), Simple("quitarLargo", p), Simple("liberar_recursos", p),
         Simple("liberar_paginas", p), sem_wait("paginasLiberadas"),
         cambiar_estado(p, "TERMINATED") >> \in Seq(Normales)
  BY <1>1, <1>2, <1>3, ListaDeSeis
<1>5. <<Simple("bajar_multi", p), sem_post("planiLargo")>> \in Seq(Normales)
  BY <1>1, <1>2, ListaDeDos
<1>6. <<>> \in Seq(Normales)
  BY EmptySeq
<1> DEFINE principio == << Simple("quitarCorto", p), Simple("quitarLargo", p),
         Simple("liberar_recursos", p), Simple("liberar_paginas", p), sem_wait("paginasLiberadas"),
         cambiar_estado(p, "TERMINATED") >>
           final == IF e # "NEW" THEN <<Simple("bajar_multi", p), sem_post("planiLargo")>> ELSE <<>>
<1>7. principio \in Seq(Normales) /\ final \in Seq(Normales)
  BY <1>4, <1>5, <1>6
<1>8. ColaDeSalida(p, e) = principio \o final
  BY DEF ColaDeSalida
<1> HIDE DEF principio, final
<1>9. QED
  BY <1>7, <1>8, ConcatenarTipo

LEMMA ColaDeSalidaTipo ==
  ASSUME NEW p \in Pids, NEW e
  PROVE  ColaDeSalida(p, e) \in Seq(Conocidas)
BY ColaDeSalidaNormal, NormalesConocidas

LEMMA SalidaTipo ==
  ASSUME PTypeOK, NEW h \in Hilos, Salida(h)
  PROVE  PTypeOK'
<1> DEFINE p == De(h)
           cola == ColaDeSalida(p, estado[p])
           Avisos == [motivo : MotivosInterrupcion, pid : Nat \ {0}]
<1>1. hilo[h] # <<>> /\ Llama(h, "planificador_largo_salida")
  BY DEF Salida, Llama
<1>2. p \in Pids
  BY <1>1, EfectoNulo, CampoPid
<1>3. cola \in Seq(Conocidas)
  BY <1>2, ColaDeSalidaTipo
<1>4. sem_wait("procesoTerminado") \in Conocidas
  BY <1>2, OpsConocidas DEF Semaforos
<1>5. CASE estado[p] = "EXEC" /\ Head(hilo[h]).arg = "SIGKILL"
  <2>1. Sigue(h, <<sem_wait("procesoTerminado")>> \o cola)
    BY <1>5 DEF Salida
  <2>2. <<sem_wait("procesoTerminado")>> \in Seq(Conocidas)
    BY <1>4
  <2> HIDE DEF cola
  <2>3. <<sem_wait("procesoTerminado")>> \o cola \in Seq(Conocidas)
    BY <1>3, <2>2
  <2>4. hilo' \in [Hilos -> Seq(Conocidas)]
    BY <1>1, <2>1, <2>3, EfectoNulo, SigueTipo
  <2>5. canalInterrupcion' \in Seq(Avisos)
    <3>1. [motivo |-> "TERMINATED", pid |-> p] \in Avisos
      BY <1>2 DEF MotivosInterrupcion, Pids
    <3>2. canalInterrupcion' = Append(canalInterrupcion, [motivo |-> "TERMINATED", pid |-> p])
      BY <1>5 DEF Salida
    <3> HIDE DEF Avisos, p
    <3>3. QED
      BY <3>1, <3>2, EfectoNulo DEF Avisos
  <2>6. EfectoTipado
    BY <2>4, <2>5, EfectoNulo DEF Salida, EfectoTipado, colas
  <2>7. QED
    BY <2>6, EfectoNulo, RecursosQuietos, LlamadaTipo DEF Salida
<1>6. CASE ~(estado[p] = "EXEC" /\ Head(hilo[h]).arg = "SIGKILL")
  <2>1. Sigue(h, cola) /\ UNCHANGED canalInterrupcion
    BY <1>6 DEF Salida
  <2>2. hilo' \in [Hilos -> Seq(Conocidas)]
    BY <1>1, <2>1, <1>3, EfectoNulo, SigueTipo
  <2>3. EfectoTipado
    BY <2>1, <2>2, EfectoNulo DEF Salida, EfectoTipado, colas
  <2>4. QED
    BY <2>3, EfectoNulo, RecursosQuietos, LlamadaTipo DEF Salida
<1>7. QED
  BY <1>5, <1>6

LEMMA VolverNormal ==
  ASSUME NEW p \in Pids
  PROVE  Volver(p) \in Seq(Normales)
<1>1. push_colaCorto(p) \in Normales
  BY OpsSimplesNormales DEF push_colaCorto
<1>2. sem_post("planiCorto") \in Normales
  BY OpsNormales DEF Semaforos
<1>3. QED
  BY <1>1, <1>2 DEF Volver

LEMMA RutinasNormales ==
  ASSUME NEW p \in Pids,
         NEW f \in {"sleep_proceso", "page_fault", "f_write", "f_truncate"},
         NEW ops \in Rutinas(f, p)
  PROVE  ops \in Seq(Normales)
<1>1. /\ cambiar_estado(p, "BLOCKED") \in Normales /\ cambiar_estado(p, "PAGBLOCK") \in Normales
      /\ Simple("cargar_pagina", p) \in Normales /\ sem_wait("paginaCargada") \in Normales
      /\ sem_post("planiCorto") \in Normales /\ salida(p, "INVALID_WRITE") \in Normales
  BY OpsNormales, OpsSimplesNormales DEF Estados, Semaforos
<1>2. Volver(p) \in Seq(Normales)
  BY VolverNormal
<1>3. CASE f = "sleep_proceso"
  <2>1. ops = <<cambiar_estado(p, "BLOCKED")>> \o Volver(p)
    BY <1>3 DEF Rutinas, sleep_proceso
  <2>2. <<cambiar_estado(p, "BLOCKED")>> \in Seq(Normales)
    BY <1>1, ListaDeUna
  <2>3. QED
    BY <2>1, <2>2, <1>2, ConcatenarTipo, Zenon
<1>4. CASE f = "page_fault"
  <2>1. ops = <<cambiar_estado(p, "PAGBLOCK"), Simple("cargar_pagina", p), sem_wait("paginaCargada")>>
              \o Volver(p)
    BY <1>4 DEF Rutinas, page_fault
  <2>2. <<cambiar_estado(p, "PAGBLOCK"), Simple("cargar_pagina", p), sem_wait("paginaCargada")>>
          \in Seq(Normales)
    BY <1>1, ListaDeTres
  <2>3. QED
    BY <2>1, <2>2, <1>2, ConcatenarTipo, Zenon
<1>5. CASE f \in {"f_write", "f_truncate"}
  <2>1. \/ ops = <<cambiar_estado(p, "BLOCKED"), sem_post("planiCorto")>> \o Volver(p)
        \/ ops = <<cambiar_estado(p, "BLOCKED"), salida(p, "INVALID_WRITE")>>
    BY <1>5 DEF Rutinas, f_write, f_truncate
  <2>2. /\ <<cambiar_estado(p, "BLOCKED"), sem_post("planiCorto")>> \in Seq(Normales)
        /\ <<cambiar_estado(p, "BLOCKED"), salida(p, "INVALID_WRITE")>> \in Seq(Normales)
    BY <1>1, ListaDeDos
  <2>3. QED
    BY <2>1, <2>2, <1>2, ConcatenarTipo, Zenon
<1>6. QED
  BY <1>3, <1>4, <1>5

LEMMA RutinasTipo ==
  ASSUME NEW p \in Pids,
         NEW f \in {"sleep_proceso", "page_fault", "f_write", "f_truncate"},
         NEW ops \in Rutinas(f, p)
  PROVE  ops \in Seq(Conocidas)
BY RutinasNormales, NormalesConocidas

LEMMA HiloFuncionTipo ==
  ASSUME PTypeOK, NEW h \in Hilos, HiloFuncion(h)
  PROVE  PTypeOK'
<1> DEFINE s == CHOOSE s \in Libres : TRUE
<1>1. hilo[h] # <<>> /\ Llama(h, "hilo_funcion")
  BY DEF HiloFuncion, Llama
<1>2. /\ De(h) \in Pids
      /\ Head(hilo[h]).arg \in {"sleep_proceso", "page_fault", "f_write", "f_truncate"}
  BY <1>1, EfectoNulo, CampoPid, CampoRutina
<1>3. PICK ops \in Rutinas(Head(hilo[h]).arg, De(h)) :
        hilo' = [hilo EXCEPT ![h] = Tail(@), ![s] = ops]
  BY DEF HiloFuncion
<1>4. ops \in Seq(Conocidas) /\ Tail(hilo[h]) \in Seq(Conocidas)
  BY <1>1, <1>2, EfectoNulo, RutinasTipo, CabezaConocida
<1> HIDE DEF s
<1>5. hilo' \in [Hilos -> Seq(Conocidas)]
  BY <1>3, <1>4, EfectoNulo
<1>6. EfectoTipado
  BY <1>5, EfectoNulo DEF HiloFuncion, EfectoTipado, colas
<1>7. QED
  BY <1>6, EfectoNulo, RecursosQuietos, LlamadaTipo DEF HiloFuncion

LEMMA EscribirSinAbrirTipo ==
  ASSUME PTypeOK, NEW h \in Hilos, EscribirSinAbrir(h)
  PROVE  PTypeOK'
<1>1. CPUTypeOK'
  BY DEF EscribirSinAbrir, PTypeOK, CPUTypeOK, TipoCanales, TipoNucleo, TieneProceso, cpuVars,
     canales, nucleo
<1>2. RTypeOK'
  BY DEF EscribirSinAbrir, Caer, PTypeOK, RTypeOK
<1>3. TipoConsigna' /\ TipoTabla'
  BY DEF PTypeOK, TipoConsigna, TipoTabla, EscribirSinAbrir, kernel, consigna, tabla, cortoVar,
     EventosMax
<1>4. TipoColas' /\ TipoHilos'
  BY DEF PTypeOK, TipoColas, TipoHilos, EscribirSinAbrir, kernel, colas, cortoVar
<1>5. QED
  BY <1>1, <1>2, <1>3, <1>4 DEF PTypeOK

LEMMA DetectarDeadlockTipo ==
  ASSUME PTypeOK, NEW h \in Hilos, DetectarDeadlock(h)
  PROVE  PTypeOK'
<1>1. hilo[h] # <<>> /\ Llama(h, "deteccion_deadlock")
  BY DEF DetectarDeadlock, Llama
<1>2. De(h) \in Pids
  BY <1>1, EfectoNulo, CampoPid
<1>3. <<Simple("colgado", De(h))>> \in Seq(Conocidas)
  BY <1>2, OpsSimples, ListaDeUna
<1>4. Avanza(h) \/ Sigue(h, <<Simple("colgado", De(h))>>)
  BY DEF DetectarDeadlock
<1>5. hilo' \in [Hilos -> Seq(Conocidas)]
  BY <1>1, <1>3, <1>4, EfectoNulo, AvanzaTipo, SigueTipo
<1>6. EfectoTipado
  BY <1>5, EfectoNulo DEF DetectarDeadlock, EfectoTipado, colas
<1>7. QED
  BY <1>6, EfectoNulo, RecursosQuietos, LlamadaTipo DEF DetectarDeadlock

-----------------------------------------------------------------------------
(* The calls that touch the resources: each is one step of RPaso.          *)
LEMMA CampoRecurso ==
  ASSUME TipoHilos, NEW h \in Hilos, Llama(h, "wait_recurso") \/ Llama(h, "signal_recurso")
  PROVE  De(h) \in Pids /\ Head(hilo[h]).arg \in Args \cup {0}
<1>1. Head(hilo[h]) \in Conocidas /\ Head(hilo[h]).op \in {"wait_recurso", "signal_recurso"}
  BY CabezaConocida DEF Llama
<1>2. QED
  BY <1>1 DEF Conocidas, De

LEMMA WaitConInstanciaPaso ==
  ASSUME PTypeOK, NEW h \in Hilos, WaitConInstancia(h)
  PROVE  RPaso
<1>1. ~caido /\ De(h) \in Pids
  BY EfectoNulo, CampoPid DEF WaitConInstancia, Llama
<1>2. QED
  BY <1>1 DEF WaitConInstancia, RPaso

LEMMA WaitSinInstanciaPaso ==
  ASSUME PTypeOK, NEW h \in Hilos, WaitSinInstancia(h)
  PROVE  RPaso
<1>1. ~caido /\ De(h) \in Pids
  BY EfectoNulo, CampoPid DEF WaitSinInstancia, Llama
<1>2. QED
  BY <1>1 DEF WaitSinInstancia, RPaso

LEMMA SignalValidoPaso ==
  ASSUME PTypeOK, NEW h \in Hilos, SignalValido(h)
  PROVE  RPaso
<1>1. ~caido /\ De(h) \in Pids
  BY EfectoNulo, CampoPid DEF SignalValido, Llama
<1>2. QED
  BY <1>1 DEF SignalValido, RPaso

LEMMA LiberarSinEntregaPaso ==
  ASSUME PTypeOK, NEW h \in Hilos, LiberarSinEntrega(h)
  PROVE  RPaso
<1>1. ~caido /\ De(h) \in Pids
  BY EfectoNulo, CampoPid DEF LiberarSinEntrega, Llama
<1>2. LiberarRecursos(De(h))
  BY DEF LiberarSinEntrega, LiberarRecursos
<1>3. QED
  BY <1>1, <1>2 DEF RPaso

LEMMA LiberarConEntregaPaso ==
  ASSUME PTypeOK, NEW h \in Hilos, LiberarConEntrega(h)
  PROVE  RPaso
<1>1. ~caido /\ De(h) \in Pids
  BY EfectoNulo, CampoPid DEF LiberarConEntrega, Llama
<1>2. LiberarRecursos(De(h))
  BY DEF LiberarConEntrega, LiberarRecursos
<1>3. QED
  BY <1>1, <1>2 DEF RPaso

LEMMA WaitConInstanciaTipo ==
  ASSUME PTypeOK, NEW h \in Hilos, WaitConInstancia(h)
  PROVE  PTypeOK'
<1>1. hilo[h] # <<>> /\ De(h) \in Pids
  BY EfectoNulo, CampoPid DEF WaitConInstancia, Llama
<1>2. Simple("queue_push", De(h)) \in Conocidas /\ sem_post("planiCorto") \in Conocidas
  BY <1>1, OpsSimples, OpsConocidas DEF Semaforos
<1>3. <<Simple("queue_push", De(h)), sem_post("planiCorto"), sem_post("planiCorto")>>
        \in Seq(Conocidas)
  BY <1>2, ListaDeTres
<1>4. hilo' \in [Hilos -> Seq(Conocidas)]
  BY <1>1, <1>3, EfectoNulo, SigueTipo DEF WaitConInstancia
<1>5. EfectoTipado
  BY <1>4, EfectoNulo DEF WaitConInstancia, EfectoTipado, colas
<1>6. QED
  BY <1>5, EfectoNulo, WaitConInstanciaPaso, RTipoInductivo, LlamadaTipo DEF WaitConInstancia

LEMMA WaitSinInstanciaTipo ==
  ASSUME PTypeOK, NEW h \in Hilos, WaitSinInstancia(h)
  PROVE  PTypeOK'
<1>1. hilo[h] # <<>> /\ De(h) \in Pids
  BY EfectoNulo, CampoPid DEF WaitSinInstancia, Llama
<1>2. /\ cambiar_estado(De(h), "BLOCKED") \in Conocidas /\ sem_post("planiCorto") \in Conocidas
      /\ Simple("deteccion_deadlock", De(h)) \in Conocidas
  BY <1>1, OpsConocidas, OpsSimples DEF Semaforos, Estados
<1>3. <<cambiar_estado(De(h), "BLOCKED"), Simple("deteccion_deadlock", De(h)),
        sem_post("planiCorto")>> \in Seq(Conocidas)
  BY <1>2, ListaDeTres
<1>4. hilo' \in [Hilos -> Seq(Conocidas)]
  BY <1>1, <1>3, EfectoNulo, SigueTipo DEF WaitSinInstancia
<1>5. EfectoTipado
  BY <1>4, EfectoNulo DEF WaitSinInstancia, EfectoTipado, colas
<1>6. QED
  BY <1>5, EfectoNulo, WaitSinInstanciaPaso, RTipoInductivo, LlamadaTipo DEF WaitSinInstancia

(* Who receives an instance is a process.                                  *)
LEMMA PrimeroTipo ==
  ASSUME NEW c \in Seq(Pids), c # <<>>
  PROVE  Head(c) \in Pids
OBVIOUS

LEMMA SignalValidoTipo ==
  ASSUME PTypeOK, NEW h \in Hilos, SignalValido(h)
  PROVE  PTypeOK'
<1> DEFINE r == Head(hilo[h]).arg
           frente == <<De(h)>> \o colaCorto
<1>1. hilo[h] # <<>> /\ De(h) \in Pids /\ r \in Recs
  BY EfectoNulo, CampoPid DEF SignalValido, Llama
<1>2. <<Simple("avisar", 0)>> \in Seq(Conocidas)
  BY <1>1, OpsConocidas, ListaDeUna
<1>3. hilo' \in [Hilos -> Seq(Conocidas)]
  BY <1>1, <1>2, EfectoNulo, SigueTipo DEF SignalValido
<1>4. frente \in Seq(Pids)
  BY <1>1, EfectoNulo
<1>5. colaEspera[r] \in Seq(Pids)
  BY <1>1, EfectoNulo DEF RTypeOK
<1>6. \/ colaCorto' = frente /\ UNCHANGED estado
      \/ /\ colaEspera[r] # <<>>
         /\ colaCorto' = ConAlFinal(Head(colaEspera[r]), frente)
         /\ estado' = [estado EXCEPT ![Head(colaEspera[r])] = "READY"]
  BY DEF SignalValido
<1> HIDE DEF r, frente
<1>7. colaCorto' \in Seq(Pids)
  BY <1>4, <1>5, <1>6, PrimeroTipo, ConAlFinalTipo
<1>8. estado' \in [Pids -> Estados]
  BY <1>6, EfectoNulo DEF Estados
<1>9. EfectoTipado
  BY <1>3, <1>7, <1>8, EfectoNulo DEF SignalValido, EfectoTipado
<1>10. QED
  BY <1>9, EfectoNulo, SignalValidoPaso, RTipoInductivo, LlamadaTipo DEF SignalValido

LEMMA LiberarSinEntregaTipo ==
  ASSUME PTypeOK, NEW h \in Hilos, LiberarSinEntrega(h)
  PROVE  PTypeOK'
<1>1. hilo[h] # <<>>
  BY DEF LiberarSinEntrega, Llama
<1>2. hilo' \in [Hilos -> Seq(Conocidas)]
  BY <1>1, EfectoNulo, AvanzaTipo DEF LiberarSinEntrega
<1>3. EfectoTipado
  BY <1>2, EfectoNulo DEF LiberarSinEntrega, EfectoTipado, colas
<1>4. QED
  BY <1>3, EfectoNulo, LiberarSinEntregaPaso, RTipoInductivo, LlamadaTipo DEF LiberarSinEntrega

LEMMA LiberarConEntregaTipo ==
  ASSUME PTypeOK, NEW h \in Hilos, LiberarConEntrega(h)
  PROVE  PTypeOK'
<1>1. hilo[h] # <<>> /\ De(h) \in Pids
  BY EfectoNulo, CampoPid DEF LiberarConEntrega, Llama
<1>2. <<sem_post("planiCorto")>> \in Seq(Conocidas)
  BY <1>1, OpsConocidas, ListaDeUna DEF Semaforos
<1>3. hilo' \in [Hilos -> Seq(Conocidas)]
  BY <1>1, <1>2, EfectoNulo, SigueTipo DEF LiberarConEntrega
<1>4. PICK r \in Recs :
        /\ ColasSin(De(h))[r] # <<>>
        /\ colaCorto' = ConAlFinal(Head(ColasSin(De(h))[r]), colaCorto)
        /\ estado' = [estado EXCEPT ![Head(ColasSin(De(h))[r])] = "READY"]
  BY DEF LiberarConEntrega
<1> DEFINE q == Head(ColasSin(De(h))[r])
<1>5. q \in Pids
  BY <1>1, <1>4, EfectoNulo, ColasSinTipo, PrimeroTipo
<1> HIDE DEF q
<1>6. colaCorto' \in Seq(Pids)
  BY <1>4, <1>5, EfectoNulo, ConAlFinalTipo DEF q
<1>7. estado' \in [Pids -> Estados]
  BY <1>4, EfectoNulo DEF Estados
<1>8. EfectoTipado
  BY <1>3, <1>6, <1>7, EfectoNulo DEF LiberarConEntrega, EfectoTipado
<1>9. QED
  BY <1>8, EfectoNulo, LiberarConEntregaPaso, RTipoInductivo, LlamadaTipo DEF LiberarConEntrega

LEMMA CadaLlamadaTipo ==
  ASSUME PTypeOK, NEW h \in Hilos, Llamada(h)
  PROVE  PTypeOK'
BY CambiarEstadoTipo, SemPostTipo, SemWaitTipo, PushColaCortoTipo, PushSiEXECTipo, QueuePushTipo,
   OrdenarAdelanteTipo, ResponderTipo, HiloFuncionTipo, EscribirSinAbrirTipo,
   WaitConInstanciaTipo, WaitSinInstanciaTipo, DetectarDeadlockTipo,
   WaitInvalidoTipo, SignalValidoTipo, SignalInvalidoTipo, AvisarTipo, SalidaTipo,
   QuitarDeColasTipo, LiberarSinEntregaTipo, LiberarConEntregaTipo, PedirMemoriaTipo,
   BajarMultiTipo, PushColaLargoTipo, DespertarLargoTipo, BorrarProcesoTipo DEF Llamada

-----------------------------------------------------------------------------
(* The handler of "contexto": what it leaves to do is known calls.         *)
LEMMA AtencionNormal ==
  ASSUME NEW p \in Pids, NEW razon \in MotivosContexto, NEW arg \in Args \cup {0}
  PROVE  Atencion(razon, p, arg) \in Seq(Normales)
<1> DEFINE ruta == Atencion(razon, p, arg)
<1>1. /\ salida(p, "SUCCESS") \in Normales /\ responder \in Normales
      /\ Simple("push_si_EXEC", p) \in Normales /\ Simple("ordenar_adelante", p) \in Normales
      /\ sem_post("contexto") \in Normales /\ sem_post("planiCorto") \in Normales
      /\ sem_post("procesoTerminado") \in Normales
      /\ cambiar_estado(p, "READY") \in Normales
      /\ Op("wait_recurso", p, arg) \in Normales /\ Op("signal_recurso", p, arg) \in Normales
      /\ \A f \in {"sleep_proceso", "page_fault", "f_write", "f_truncate"} :
           hilo_funcion(p, f) \in Normales
  BY OpsNormales, OpsSimplesNormales DEF Estados, Semaforos
<1>2. razon \in {"quantum", "prioridades", "desalojo_signal", "TERMINATED", "sleep", "wait", "signal",
                 "f_seek", "f_write", "f_truncate", "procesoExit", "page_fault"}
  BY DEF MotivosContexto, MotivosInterrupcion, MotivoDe, Syscalls
<1>3. CASE razon = "procesoExit"
  <2>1. ruta = <<salida(p, "SUCCESS"), responder>>
    BY <1>3 DEF Atencion
  <2>2. QED
    BY <2>1, <1>1, ListaDeDos
<1>4. CASE razon = "prioridades"
  <2>1. ruta = <<Simple("push_si_EXEC", p), sem_post("contexto")>>
    BY <1>4 DEF Atencion
  <2>2. QED
    BY <2>1, <1>1, ListaDeDos
<1>5. CASE razon = "quantum"
  <2>1. ruta = <<Simple("push_si_EXEC", p), sem_post("planiCorto")>>
    BY <1>5 DEF Atencion
  <2>2. QED
    BY <2>1, <1>1, ListaDeDos
<1>6. CASE razon = "wait"
  <2>1. ruta = <<cambiar_estado(p, "READY"), Op("wait_recurso", p, arg), responder>>
    BY <1>6 DEF Atencion
  <2>2. QED
    BY <2>1, <1>1, ListaDeTres, Zenon
<1>7. CASE razon = "sleep"
  <2>1. ruta = <<cambiar_estado(p, "READY"), sem_post("planiCorto"),
                 hilo_funcion(p, "sleep_proceso"), responder>>
    BY <1>7 DEF Atencion
  <2>2. <<cambiar_estado(p, "READY"), sem_post("planiCorto"),
                 hilo_funcion(p, "sleep_proceso"), responder>>
          \in Seq(Normales)
    BY <1>1, ListaDeCuatro
  <2>3. QED
    BY <2>1, <2>2
<1>8. CASE razon = "signal"
  <2>1. ruta = <<cambiar_estado(p, "READY"), sem_post("planiCorto"),
                 Op("signal_recurso", p, arg), responder>>
    BY <1>8 DEF Atencion
  <2>2. <<cambiar_estado(p, "READY"), sem_post("planiCorto"),
                 Op("signal_recurso", p, arg), responder>>
          \in Seq(Normales)
    BY <1>1, ListaDeCuatro
  <2>3. QED
    BY <2>1, <2>2
<1>9. CASE razon = "desalojo_signal"
  <2>1. ruta = <<sem_post("planiCorto")>>
    BY <1>9 DEF Atencion
  <2>2. QED
    BY <2>1, <1>1, ListaDeUna
<1>10. CASE razon = "page_fault"
  <2>1. ruta = <<hilo_funcion(p, "page_fault"), responder, sem_post("planiCorto")>>
    BY <1>10 DEF Atencion
  <2>2. QED
    BY <2>1, <1>1, ListaDeTres
<1>11. CASE razon = "f_seek"
  <2>1. ruta = <<cambiar_estado(p, "READY"), responder>> \o AlFrente(p)
    BY <1>11 DEF Atencion
  <2>2. <<cambiar_estado(p, "READY"), responder>> \in Seq(Normales) /\ AlFrente(p) \in Seq(Normales)
    BY <1>1, ListaDeDos DEF AlFrente
  <2>3. QED
    BY <2>1, <2>2, ConcatenarTipo, Zenon
<1>12. CASE razon \in {"f_write", "f_truncate"}
  <2>1. ruta = <<hilo_funcion(p, razon), responder>>
    BY <1>12 DEF Atencion
  <2>2. hilo_funcion(p, razon) \in Normales
    BY <1>1, <1>12
  <2>3. QED
    BY <2>1, <2>2, <1>1, ListaDeDos
<1>13. CASE razon = "TERMINATED"
  <2>1. ruta = <<cambiar_estado(p, "READY"), sem_post("procesoTerminado")>>
    BY <1>13 DEF Atencion
  <2>2. QED
    BY <2>1, <1>1, ListaDeDos
<1>14. QED
  BY <1>2, <1>3, <1>4, <1>5, <1>6, <1>7, <1>8, <1>9, <1>10, <1>11, <1>12, <1>13

LEMMA AtencionTipo ==
  ASSUME NEW p \in Pids, NEW razon \in MotivosContexto, NEW arg \in Args \cup {0}
  PROVE  Atencion(razon, p, arg) \in Seq(Conocidas)
BY AtencionNormal, NormalesConocidas

LEMMA RecibirContextoTipo ==
  ASSUME PTypeOK, RecibirContexto
  PROVE  PTypeOK'
<1> DEFINE m == Head(canalContexto)
           Contextos == [motivo : MotivosContexto, pid : Pids, pc : Int, arg : Args \cup {0}]
<1>1. canalContexto \in Seq(Contextos) /\ canalContexto # <<>>
  BY DEF PTypeOK, CPUTypeOK, TipoCanales, TipoNucleo, TieneProceso, RecibirContexto
<1>2. m \in Contextos /\ canalContexto' \in Seq(Contextos)
  <2>1. canalContexto' = Tail(canalContexto)
    BY DEF RecibirContexto
  <2> HIDE DEF Contextos
  <2>2. QED
    BY <1>1, <2>1
<1>3. m.pid \in Pids /\ m.pc \in Int /\ m.motivo \in MotivosContexto /\ m.arg \in Args \cup {0}
  BY <1>2
<1>4. Atencion(m.motivo, m.pid, m.arg) \in Seq(Conocidas)
  BY <1>3, AtencionTipo
<1>5. \/ UNCHANGED <<pcb, hilo>>
      \/ /\ pcb' = [pcb EXCEPT ![m.pid] = m.pc]
         /\ hilo' = [hilo EXCEPT !["despacho"] = Atencion(m.motivo, m.pid, m.arg)]
  BY DEF RecibirContexto
<1>6. ejecutandoB' \in BOOLEAN
  BY DEF RecibirContexto
<1> HIDE DEF m
<1>7. hilo' \in [Hilos -> Seq(Conocidas)]
  BY <1>4, <1>5, EfectoNulo
<1>8. pcb' \in [Pids -> Int]
  BY <1>3, <1>5 DEF PTypeOK, TipoTabla
<1>9. TipoConsigna' /\ TipoTabla'
  BY <1>6, <1>8 DEF PTypeOK, TipoConsigna, TipoTabla, RecibirContexto, consigna, EventosMax
<1>10. TipoColas' /\ TipoHilos'
  BY <1>7 DEF PTypeOK, TipoColas, TipoHilos, RecibirContexto, colas
<1>11. CPUTypeOK'
  BY <1>2 DEF PTypeOK, CPUTypeOK, TipoCanales, TipoNucleo, TieneProceso, RecibirContexto, nucleo
<1>12. RTypeOK'
  BY EfectoNulo, RecursosQuietos DEF RecibirContexto
<1>13. QED
  BY <1>9, <1>10, <1>11, <1>12 DEF PTypeOK

LEMMA OcurreTipo ==
  ASSUME PTypeOK, NEW e \in DOMAIN EventosMax, Ocurre(e)
  PROVE  eventos' \in [DOMAIN EventosMax -> Nat]
<1> DEFINE D == DOMAIN EventosMax
<1>1. eventos \in [D -> Nat] /\ e \in D
  BY DEF PTypeOK, TipoConsigna
<1>2. eventos' = [eventos EXCEPT ![e] = eventos[e] + 1]
  BY DEF Ocurre
<1> HIDE DEF D
<1>3. eventos' \in [D -> Nat]
  BY <1>1, <1>2
<1>4. QED
  BY <1>3 DEF D

(* The constant of the bounds does not change.                             *)
LEMMA Limites == DOMAIN EventosMax = {"pausas", "kills", "cambios", "rechazos", "quantums"}
BY DEF EventosMax

LEMMA CPUQuietaTipo ==
  ASSUME CPUTypeOK, UNCHANGED cpuVars
  PROVE  CPUTypeOK'
BY DEF CPUTypeOK, TipoCanales, TipoNucleo, TieneProceso, cpuVars, canales, nucleo

LEMMA MemoriaRespondeTipo ==
  ASSUME PTypeOK, MemoriaResponde
  PROVE  PTypeOK'
<1> DEFINE m == Head(canalMemoria)
           Pedidos == [tipo : {"cargar", "cargar_pagina", "liberar_paginas"}, pid : Pids]
<1>1. canalMemoria \in Seq(Pedidos) /\ canalMemoria # <<>>
  BY EfectoNulo DEF MemoriaResponde
<1>2. m \in Pedidos /\ canalMemoria' \in Seq(Pedidos)
  <2>1. canalMemoria' = Tail(canalMemoria)
    BY DEF MemoriaResponde
  <2> HIDE DEF Pedidos
  <2>2. QED
    BY <1>1, <2>1
<1>3. m.pid \in Pids
  BY <1>2
<1>4. /\ Simple("push_colaLargo", m.pid) \in Conocidas /\ Simple("borrar_proceso", m.pid) \in Conocidas
      /\ Simple("despertar_largo", 0) \in Conocidas /\ sem_post("procesoCargado") \in Conocidas
  BY <1>3, OpsConocidas, OpsSimples DEF Semaforos
<1>5. /\ <<Simple("push_colaLargo", m.pid), Simple("despertar_largo", 0), sem_post("procesoCargado")>>
           \in Seq(Conocidas)
      /\ <<Simple("borrar_proceso", m.pid), sem_post("procesoCargado")>> \in Seq(Conocidas)
  BY <1>4, ListaDeDos, ListaDeTres
<1>6. \/ /\ \/ hilo' = [hilo EXCEPT !["memoria"] =
                 <<Simple("push_colaLargo", m.pid), Simple("despertar_largo", 0),
                   sem_post("procesoCargado")>>]
            \/ hilo' = [hilo EXCEPT !["memoria"] =
                 <<Simple("borrar_proceso", m.pid), sem_post("procesoCargado")>>]
         /\ UNCHANGED sem
      \/ UNCHANGED hilo /\ (Publica("paginaCargada") \/ Publica("paginasLiberadas"))
  BY DEF MemoriaResponde
<1>7. UNCHANGED eventos \/ Ocurre("rechazos")
  BY DEF MemoriaResponde
<1> HIDE DEF m
<1>8. hilo' \in [Hilos -> Seq(Conocidas)]
  BY <1>5, <1>6, EfectoNulo
<1>9. sem' \in [Semaforos -> Nat]
  BY <1>6, EfectoNulo, PublicaTipo DEF Semaforos
<1>10. eventos' \in [DOMAIN EventosMax -> Nat]
  BY <1>7, OcurreTipo, Limites DEF PTypeOK, TipoConsigna
<1>11. TipoConsigna'
  BY <1>10, Limites DEF PTypeOK, TipoConsigna, MemoriaResponde, EventosMax
<1>12. TipoTabla' /\ TipoColas'
  BY DEF PTypeOK, TipoTabla, TipoColas, MemoriaResponde, tabla, colas, cortoVar
<1>13. TipoHilos'
  BY <1>2, <1>8, <1>9 DEF TipoHilos
<1>14. CPUTypeOK' /\ RTypeOK'
  BY CPUQuietaTipo, RecursosQuietos DEF PTypeOK, MemoriaResponde
<1>15. QED
  BY <1>11, <1>12, <1>13, <1>14 DEF PTypeOK

-----------------------------------------------------------------------------
(* planificador_largo.                                                     *)
LEMMA LargoFijo ==
  ASSUME PTypeOK, FijoEnLargo
  PROVE  /\ TipoConsigna' /\ CPUTypeOK' /\ creados' \in Int /\ pcb' \in [Pids -> Int]
         /\ relojes' \in [Pids -> Int] /\ ejecutandoB' \in BOOLEAN
         /\ hilo' \in [Hilos -> Seq(Conocidas)]
         /\ canalMemoria' \in Seq([tipo : {"cargar", "cargar_pagina", "liberar_paginas"}, pid : Pids])
         /\ corto' = corto
<1>1. TipoConsigna'
  BY DEF PTypeOK, TipoConsigna, FijoEnLargo, consigna, EventosMax
<1>2. CPUTypeOK'
  BY CPUQuietaTipo DEF PTypeOK, FijoEnLargo
<1>3. QED
  BY <1>1, <1>2 DEF PTypeOK, TipoTabla, TipoHilos, FijoEnLargo, cortoVar

LEMMA ColaCabezaTipo ==
  ASSUME NEW c \in Seq(Pids), c # <<>>
  PROVE  Head(c) \in Pids /\ Tail(c) \in Seq(Pids)
OBVIOUS

LEMMA LargoDespiertaTipo ==
  ASSUME PTypeOK, LargoDespierta
  PROVE  PTypeOK'
<1>1. RTypeOK'
  BY EfectoNulo, RecursosQuietos DEF LargoDespierta
<1>2. FijoEnLargo
  BY DEF LargoDespierta
<1>3. sem' \in [Semaforos -> Nat]
  BY EfectoNulo DEF LargoDespierta, Semaforos
<1>4. TipoColas'
  <2>1. Len(colaLargo) \in Int
    BY EfectoNulo
  <2>2. QED
    BY <2>1, <1>2, LargoFijo DEF PTypeOK, TipoColas, LargoDespierta, colas
<1>5. TipoTabla' /\ TipoHilos'
  BY <1>2, <1>3, LargoFijo DEF PTypeOK, TipoTabla, TipoHilos, LargoDespierta
<1>6. QED
  BY <1>1, <1>2, <1>4, <1>5, LargoFijo DEF PTypeOK

LEMMA LargoTomaTipo ==
  ASSUME PTypeOK, LargoToma
  PROVE  PTypeOK'
<1>1. RTypeOK'
  BY EfectoNulo DEF LargoToma, RTypeOK
<1>2. FijoEnLargo
  BY DEF LargoToma
<1>3. largo \in [pc : {"lote"}, resto : Int, pid : {0}]
  BY DEF PTypeOK, TipoColas, LargoToma
<1>4. TipoColas'
  <2>1. CASE colaLargo = <<>>
    BY <2>1, <1>2, LargoFijo DEF PTypeOK, TipoColas, LargoToma
  <2>2. CASE colaLargo # <<>>
    <3>1. Head(colaLargo) \in Pids /\ Tail(colaLargo) \in Seq(Pids)
      BY <2>2, EfectoNulo, ColaCabezaTipo
    <3>2. largo' \in [pc : {"admitir", "contar"}, resto : Int, pid : Pids]
      BY <2>2, <3>1, <1>3 DEF LargoToma
    <3>3. QED
      BY <2>2, <3>1, <3>2, <1>2, LargoFijo DEF PTypeOK, TipoColas, LargoToma
  <2>3. QED
    BY <2>1, <2>2
<1>5. TipoTabla' /\ TipoHilos'
  BY <1>2, LargoFijo DEF PTypeOK, TipoTabla, TipoHilos, LargoToma
<1>6. QED
  BY <1>1, <1>2, <1>4, <1>5, LargoFijo DEF PTypeOK

LEMMA LargoAdmiteTipo ==
  ASSUME PTypeOK, LargoAdmite
  PROVE  PTypeOK'
<1>1. RTypeOK'
  BY EfectoNulo, RecursosQuietos DEF LargoAdmite
<1>2. FijoEnLargo
  BY DEF LargoAdmite
<1>3. largo \in [pc : {"admitir"}, resto : Int, pid : Pids]
  BY DEF PTypeOK, TipoColas, LargoAdmite
<1>4. TipoColas'
  <2>1. colaCorto' \in Seq(Pids)
    BY <1>3, EfectoNulo, ConAlFinalTipo DEF LargoAdmite
  <2>2. largo' \in [pc : {"admitir", "contar"}, resto : Int, pid : Pids]
    BY <1>3 DEF LargoAdmite
  <2>3. QED
    BY <2>1, <2>2, <1>2, LargoFijo DEF PTypeOK, TipoColas, LargoAdmite
<1>5. estado' \in [Pids -> Estados]
  BY <1>3, EfectoNulo DEF LargoAdmite, Estados
<1>6. TipoTabla' /\ TipoHilos'
  BY <1>2, <1>5, LargoFijo DEF PTypeOK, TipoTabla, TipoHilos, LargoAdmite
<1>7. QED
  BY <1>1, <1>2, <1>4, <1>6, LargoFijo DEF PTypeOK

LEMMA LargoCuentaTipo ==
  ASSUME PTypeOK, LargoCuenta
  PROVE  PTypeOK'
<1>1. RTypeOK'
  BY EfectoNulo, RecursosQuietos DEF LargoCuenta
<1>2. FijoEnLargo
  BY DEF LargoCuenta
<1>3. largo.resto \in Int
  BY DEF PTypeOK, TipoColas
<1>4. TipoColas'
  <2>1. largo' \in [pc : {"esperar", "lote"}, resto : Int, pid : {0}]
    BY <1>3 DEF LargoCuenta
  <2>2. multi' \in Int
    BY EfectoNulo DEF LargoCuenta
  <2>3. QED
    BY <2>1, <2>2, <1>2, LargoFijo DEF PTypeOK, TipoColas, LargoCuenta, colas
<1>5. TipoTabla' /\ TipoHilos'
  BY <1>2, LargoFijo DEF PTypeOK, TipoTabla, TipoHilos, LargoCuenta
<1>6. QED
  BY <1>1, <1>2, <1>4, <1>5, LargoFijo DEF PTypeOK

LEMMA LargoTerminaTipo ==
  ASSUME PTypeOK, LargoTermina
  PROVE  PTypeOK'
<1>1. RTypeOK'
  BY EfectoNulo, RecursosQuietos DEF LargoTermina
<1>2. FijoEnLargo
  BY DEF LargoTermina
<1>3. sem' \in [Semaforos -> Nat]
  BY EfectoNulo, PublicaTipo DEF LargoTermina, Semaforos
<1>4. TipoColas'
  BY <1>2, LargoFijo DEF PTypeOK, TipoColas, LargoTermina, colas
<1>5. TipoTabla' /\ TipoHilos'
  BY <1>2, <1>3, LargoFijo DEF PTypeOK, TipoTabla, TipoHilos, LargoTermina
<1>6. QED
  BY <1>1, <1>2, <1>4, <1>5, LargoFijo DEF PTypeOK

-----------------------------------------------------------------------------
(* planificador_corto.  The variables its steps may change, typed after    *)
(* them, are enough.                                                       *)
LEMMA CortoTipo ==
  ASSUME PTypeOK, FijoEnCorto,
         estado' \in [Pids -> Estados], colaCorto' \in Seq(Pids), sem' \in [Semaforos -> Nat],
         ejecutandoB' \in BOOLEAN, relojes' \in [Pids -> Int], caido' \in BOOLEAN,
         canalDespacho' \in Seq(MensajesDespacho),
         canalInterrupcion' \in Seq([motivo : MotivosInterrupcion, pid : Nat \ {0}]),
         corto' \in [pc : {"esperar", "ordenar", "mirar", "comparar", "contexto", "lugar"}, pid : {0}]
                    \cup [pc : {"marcar", "ocupar", "enviar"}, pid : Pids]
  PROVE  PTypeOK'
<1>1. TipoConsigna' /\ TipoTabla'
  BY DEF PTypeOK, TipoConsigna, TipoTabla, FijoEnCorto, consigna, EventosMax
<1>2. TipoColas' /\ TipoHilos'
  BY DEF PTypeOK, TipoColas, TipoHilos, FijoEnCorto
<1>3. CPUTypeOK'
  BY DEF PTypeOK, CPUTypeOK, TipoCanales, TipoNucleo, TieneProceso, FijoEnCorto, nucleo
<1>4. RTypeOK'
  BY DEF PTypeOK, RTypeOK, FijoEnCorto
<1>5. QED
  BY <1>1, <1>2, <1>3, <1>4 DEF PTypeOK

LEMMA CortoNulo ==
  ASSUME PTypeOK
  PROVE  /\ estado \in [Pids -> Estados] /\ colaCorto \in Seq(Pids) /\ sem \in [Semaforos -> Nat]
         /\ ejecutandoB \in BOOLEAN /\ relojes \in [Pids -> Int] /\ caido \in BOOLEAN
         /\ canalDespacho \in Seq(MensajesDespacho)
         /\ canalInterrupcion \in Seq([motivo : MotivosInterrupcion, pid : Nat \ {0}])
         /\ corto \in [pc : {"esperar", "ordenar", "mirar", "comparar", "contexto", "lugar"}, pid : {0}]
                      \cup [pc : {"marcar", "ocupar", "enviar"}, pid : Pids]
         /\ pcb \in [Pids -> Int]
BY DEF PTypeOK, TipoTabla, TipoColas, TipoHilos, CPUTypeOK, TipoCanales, TipoNucleo, TieneProceso, RTypeOK

LEMMA CortoDespiertaTipo ==
  ASSUME PTypeOK, CortoDespierta
  PROVE  PTypeOK'
<1>1. sem' \in [Semaforos -> Nat]
  BY CortoNulo DEF CortoDespierta, Semaforos
<1>2. corto' \in [pc : {"esperar", "ordenar", "mirar", "comparar", "contexto", "lugar"}, pid : {0}]
  BY DEF CortoDespierta, CortoVa
<1>3. QED
  BY <1>1, <1>2, CortoNulo, CortoTipo DEF CortoDespierta

LEMMA CortoOrdenaTipo ==
  ASSUME PTypeOK, CortoOrdena
  PROVE  PTypeOK'
<1>1. PICK f \in Bijection(DOMAIN colaCorto, DOMAIN colaCorto) :
        colaCorto' = [i \in DOMAIN colaCorto |-> colaCorto[f[i]]]
  BY DEF CortoOrdena
<1>2. f \in [DOMAIN colaCorto -> DOMAIN colaCorto]
  BY DEF Bijection, Injection
<1>3. colaCorto' \in Seq(Pids)
  <2>1. DOMAIN colaCorto = 1..Len(colaCorto) /\ Len(colaCorto) \in Nat
    BY CortoNulo
  <2>2. \A i \in 1..Len(colaCorto) : colaCorto[f[i]] \in Pids
    <3>1. \A j \in 1..Len(colaCorto) : colaCorto[j] \in Pids
      BY CortoNulo
    <3>2. \A i \in 1..Len(colaCorto) : f[i] \in 1..Len(colaCorto)
      BY <1>2, <2>1
    <3>3. QED
      BY <3>1, <3>2
  <2> DEFINE n == Len(colaCorto)
             g == [i \in 1..n |-> colaCorto[f[i]]]
  <2>3. g \in [1..n -> Pids] /\ colaCorto' = g
    BY <1>1, <2>1, <2>2
  <2>4. QED
    BY <2>1, <2>3, SeqDef
<1>4. corto' \in [pc : {"esperar", "ordenar", "mirar", "comparar", "contexto", "lugar"}, pid : {0}]
  BY DEF CortoOrdena, CortoVa
<1>5. QED
  BY <1>3, <1>4, CortoNulo, CortoTipo DEF CortoOrdena

LEMMA CortoMiraTipo ==
  ASSUME PTypeOK, CortoMira
  PROVE  PTypeOK'
<1>1. corto' \in [pc : {"esperar", "ordenar", "mirar", "comparar", "contexto", "lugar"}, pid : {0}]
  BY DEF CortoMira, CortoVa
<1>2. QED
  BY <1>1, CortoNulo, CortoTipo DEF CortoMira

LEMMA CortoComparaTipo ==
  ASSUME PTypeOK, CortoCompara
  PROVE  PTypeOK'
<1> DEFINE Avisos == [motivo : MotivosInterrupcion, pid : Nat \ {0}]
           Puntos == [pc : {"esperar", "ordenar", "mirar", "comparar", "contexto", "lugar"}, pid : {0}]
<1>1. corto \in Puntos
  BY CortoNulo DEF CortoCompara
<1>2. /\ [pc |-> "lugar", pid |-> 0] \in Puntos
      /\ [pc |-> "contexto", pid |-> 0] \in Puntos
  OBVIOUS
<1>3. \/ corto' = [pc |-> "lugar", pid |-> 0] /\ UNCHANGED <<canalInterrupcion, caido>>
      \/ \E p \in Pids :
           /\ canalInterrupcion' =
                Append(canalInterrupcion, [motivo |-> "prioridades", pid |-> p])
           /\ corto' = [pc |-> "contexto", pid |-> 0]
           /\ UNCHANGED caido
      \/ caido' = TRUE /\ UNCHANGED <<corto, canalInterrupcion>>
  BY Zenon DEF CortoCompara, CortoVa
<1>4. \A p \in Pids : Append(canalInterrupcion, [motivo |-> "prioridades", pid |-> p]) \in Seq(Avisos)
  <2> TAKE p \in Pids
  <2>1. [motivo |-> "prioridades", pid |-> p] \in Avisos
    BY DEF MotivosInterrupcion, Pids
  <2>2. canalInterrupcion \in Seq(Avisos)
    BY CortoNulo
  <2> HIDE DEF Avisos
  <2>3. QED
    BY <2>1, <2>2
<1>5. canalInterrupcion \in Seq(Avisos) /\ caido \in BOOLEAN
  BY CortoNulo
<1> HIDE DEF Avisos, Puntos
<1>6. corto' \in Puntos /\ canalInterrupcion' \in Seq(Avisos) /\ caido' \in BOOLEAN
  BY <1>1, <1>2, <1>3, <1>4, <1>5
<1>7. QED
  BY <1>6, CortoNulo, CortoTipo DEF CortoCompara, Avisos, Puntos

LEMMA CortoDesalojadoTipo ==
  ASSUME PTypeOK, CortoDesalojado
  PROVE  PTypeOK'
<1>1. sem' \in [Semaforos -> Nat]
  BY CortoNulo DEF CortoDesalojado, Semaforos
<1>2. corto' \in [pc : {"esperar", "ordenar", "mirar", "comparar", "contexto", "lugar"}, pid : {0}]
  BY DEF CortoDesalojado, CortoVa
<1>3. QED
  BY <1>1, <1>2, CortoNulo, CortoTipo DEF CortoDesalojado

LEMMA CortoTomaTipo ==
  ASSUME PTypeOK, CortoToma
  PROVE  PTypeOK'
<1>1. CASE ejecutandoB
  BY <1>1, CortoNulo, CortoTipo DEF CortoToma, CortoVa
<1>2. CASE ~ejecutandoB /\ colaCorto = <<>>
  BY <1>2, CortoNulo, CortoTipo DEF CortoToma, CortoVa
<1>3. CASE ~ejecutandoB /\ colaCorto # <<>>
  <2>1. Head(colaCorto) \in Pids /\ Tail(colaCorto) \in Seq(Pids)
    BY <1>3, CortoNulo, ColaCabezaTipo
  <2>2. corto' \in [pc : {"marcar", "ocupar", "enviar"}, pid : Pids] /\ colaCorto' \in Seq(Pids)
    BY <1>3, <2>1 DEF CortoToma, CortoVa
  <2>3. QED
    BY <1>3, <2>2, CortoNulo, CortoTipo DEF CortoToma
<1>4. QED
  BY <1>1, <1>2, <1>3, CortoNulo

LEMMA CortoMarcaTipo ==
  ASSUME PTypeOK, CortoMarca
  PROVE  PTypeOK'
<1>1. corto.pid \in Pids
  BY CortoNulo DEF CortoMarca
<1>2. corto' \in [pc : {"marcar", "ocupar", "enviar"}, pid : Pids]
  BY <1>1 DEF CortoMarca, CortoVa
<1>3. estado' \in [Pids -> Estados]
  BY <1>1, CortoNulo DEF CortoMarca, Estados
<1>4. QED
  BY <1>2, <1>3, CortoNulo, CortoTipo DEF CortoMarca

LEMMA CortoOcupaTipo ==
  ASSUME PTypeOK, CortoOcupa
  PROVE  PTypeOK'
<1>1. corto.pid \in Pids
  BY CortoNulo DEF CortoOcupa
<1>2. corto' \in [pc : {"marcar", "ocupar", "enviar"}, pid : Pids]
  BY <1>1 DEF CortoOcupa, CortoVa
<1>3. QED
  BY <1>2, CortoNulo, CortoTipo DEF CortoOcupa

LEMMA CortoEnviaTipo ==
  ASSUME PTypeOK, CortoEnvia
  PROVE  PTypeOK'
<1>1. corto.pid \in Pids
  BY CortoNulo DEF CortoEnvia
<1>2. corto' \in [pc : {"esperar", "ordenar", "mirar", "comparar", "contexto", "lugar"}, pid : {0}]
  BY DEF CortoEnvia, CortoVa
<1>3. relojes' \in [Pids -> Int]
  BY <1>1, CortoNulo DEF CortoEnvia
<1>4. canalDespacho' \in Seq(MensajesDespacho)
  <2>1. [tipo |-> "proceso", pid |-> corto.pid, pc |-> pcb[corto.pid]] \in MensajesDespacho
    BY <1>1, CortoNulo DEF MensajesDespacho
  <2>2. QED
    BY <2>1, CortoNulo DEF CortoEnvia
<1>5. QED
  BY <1>2, <1>3, <1>4, CortoNulo, CortoTipo DEF CortoEnvia

-----------------------------------------------------------------------------
(* The clocks and the console.                                             *)
LEMMA ClockTipo ==
  ASSUME PTypeOK, NEW p \in Pids, clock_rr(p)
  PROVE  PTypeOK'
<1> DEFINE Avisos == [motivo : MotivosInterrupcion, pid : Nat \ {0}]
<1>1. relojes' \in [Pids -> Int]
  BY CortoNulo DEF clock_rr
<1>2. canalInterrupcion' \in Seq(Avisos)
  <2>1. [motivo |-> "quantum", pid |-> p] \in Avisos
    BY DEF MotivosInterrupcion, Pids
  <2>2. canalInterrupcion \in Seq(Avisos)
    BY CortoNulo
  <2> HIDE DEF Avisos
  <2>3. QED
    BY <2>1, <2>2 DEF clock_rr
<1>3. eventos' \in [DOMAIN EventosMax -> Nat]
  BY OcurreTipo, Limites DEF clock_rr
<1>4. TipoConsigna'
  BY <1>3, Limites DEF PTypeOK, TipoConsigna, clock_rr, EventosMax
<1>5. TipoTabla'
  BY <1>1 DEF PTypeOK, TipoTabla, clock_rr, tabla
<1>6. TipoColas' /\ TipoHilos'
  BY DEF PTypeOK, TipoColas, TipoHilos, clock_rr, colas
<1>7. CPUTypeOK'
  BY <1>2 DEF PTypeOK, CPUTypeOK, TipoCanales, TipoNucleo, TieneProceso, clock_rr, nucleo
<1>8. RTypeOK'
  BY EfectoNulo, RecursosQuietos DEF clock_rr
<1>9. QED
  BY <1>4, <1>5, <1>6, <1>7, <1>8 DEF PTypeOK

LEMMA ConsolaTipo ==
  ASSUME PTypeOK, FijoEnConsola,
         detenida' \in BOOLEAN, grado' \in Nat \ {0}, eventos' \in [DOMAIN EventosMax -> Nat],
         creados' \in Int, estado' \in [Pids -> Estados], pcb' \in [Pids -> Int],
         sem' \in [Semaforos -> Nat], hilo' \in [Hilos -> Seq(Conocidas)],
         canalMemoria' \in Seq([tipo : {"cargar", "cargar_pagina", "liberar_paginas"}, pid : Pids])
  PROVE  PTypeOK'
<1>1. TipoConsigna'
  BY Limites DEF PTypeOK, TipoConsigna, FijoEnConsola, EventosMax
<1>2. TipoTabla' /\ TipoColas' /\ TipoHilos'
  BY DEF PTypeOK, TipoTabla, TipoColas, TipoHilos, FijoEnConsola, colas, cortoVar
<1>3. CPUTypeOK' /\ RTypeOK'
  BY CPUQuietaTipo, RecursosQuietos DEF PTypeOK, FijoEnConsola
<1>4. QED
  BY <1>1, <1>2, <1>3 DEF PTypeOK

LEMMA ConsolaNula ==
  ASSUME PTypeOK
  PROVE  /\ detenida \in BOOLEAN /\ grado \in Nat \ {0} /\ eventos \in [DOMAIN EventosMax -> Nat]
         /\ creados \in Int /\ estado \in [Pids -> Estados] /\ pcb \in [Pids -> Int]
         /\ sem \in [Semaforos -> Nat] /\ hilo \in [Hilos -> Seq(Conocidas)]
         /\ canalMemoria \in Seq([tipo : {"cargar", "cargar_pagina", "liberar_paginas"}, pid : Pids])
BY DEF PTypeOK, TipoConsigna, TipoTabla, TipoHilos

LEMMA IniciarProcesoTipo ==
  ASSUME PTypeOK, iniciar_proceso
  PROVE  PTypeOK'
<1> DEFINE p == creados + 1
           Pedidos == [tipo : {"cargar", "cargar_pagina", "liberar_paginas"}, pid : Pids]
<1>1. p \in Pids
  BY DEF iniciar_proceso
<1>2. creados' \in Int /\ estado' \in [Pids -> Estados] /\ pcb' \in [Pids -> Int]
  BY <1>1, ConsolaNula DEF iniciar_proceso, Estados
<1>3. sem_wait("procesoCargado") \in Conocidas
  BY <1>1, OpsConocidas DEF Semaforos
<1>4. hilo' \in [Hilos -> Seq(Conocidas)]
  <2>1. <<sem_wait("procesoCargado")>> \in Seq(Conocidas)
    BY <1>3, ListaDeUna
  <2>2. QED
    BY <2>1, ConsolaNula DEF iniciar_proceso
<1>5. canalMemoria' \in Seq(Pedidos)
  <2>1. [tipo |-> "cargar", pid |-> p] \in Pedidos
    BY <1>1
  <2>2. canalMemoria \in Seq(Pedidos) /\ canalMemoria' = Append(canalMemoria, [tipo |-> "cargar", pid |-> p])
    BY ConsolaNula DEF iniciar_proceso
  <2> HIDE DEF Pedidos
  <2>3. QED
    BY <2>1, <2>2
<1>6. QED
  BY <1>2, <1>4, <1>5, ConsolaNula, ConsolaTipo DEF iniciar_proceso

LEMMA FinalizarProcesoTipo ==
  ASSUME PTypeOK, NEW p \in Pids, finalizar_proceso(p)
  PROVE  PTypeOK'
<1>1. <<salida(p, "SIGKILL")>> \in Seq(Conocidas)
  BY OpsConocidas, ListaDeUna
<1>2. hilo' \in [Hilos -> Seq(Conocidas)]
  BY <1>1, ConsolaNula DEF finalizar_proceso
<1>3. eventos' \in [DOMAIN EventosMax -> Nat]
  BY OcurreTipo, Limites DEF finalizar_proceso
<1>4. QED
  BY <1>2, <1>3, ConsolaNula, ConsolaTipo DEF finalizar_proceso, tabla

LEMMA PlanificacionConsolaTipo ==
  ASSUME PTypeOK,
         detener_planificacion \/ iniciar_planificacion \/ \E g \in Grados : multiprogramacion(g)
  PROVE  PTypeOK'
<1>1. CASE detener_planificacion
  <2>1. eventos' \in [DOMAIN EventosMax -> Nat]
    BY <1>1, OcurreTipo, Limites DEF detener_planificacion
  <2>2. QED
    BY <1>1, <2>1, ConsolaNula, ConsolaTipo DEF detener_planificacion, tabla
<1>2. CASE iniciar_planificacion
  <2>1. sem' \in [Semaforos -> Nat]
    BY <1>2, EfectoNulo, PublicaTipo DEF iniciar_planificacion, Semaforos
  <2>2. QED
    BY <1>2, <2>1, ConsolaNula, ConsolaTipo DEF iniciar_planificacion, tabla
<1>3. ASSUME NEW g \in Grados, multiprogramacion(g) PROVE PTypeOK'
  <2>1. sem' \in [Semaforos -> Nat]
    BY <1>3, EfectoNulo, PublicaTipo DEF multiprogramacion, Semaforos
  <2>2. eventos' \in [DOMAIN EventosMax -> Nat]
    BY <1>3, OcurreTipo, Limites DEF multiprogramacion
  <2>3. grado' \in Nat \ {0}
    BY <1>3, PlanificacionAssumption DEF multiprogramacion
  <2>4. QED
    BY <1>3, <2>1, <2>2, <2>3, ConsolaNula, ConsolaTipo DEF multiprogramacion, tabla
<1>4. QED
  BY <1>1, <1>2, <1>3

-----------------------------------------------------------------------------
(* The CPU.  The rest of the system does not move, so its own invariant is *)
(* enough.                                                                 *)
LEMMA InstruccionTipo ==
  ASSUME NEW p \in Pids, NEW i \in DOMAIN Programa[p]
  PROVE  /\ Programa[p][i] \in [op : Comandos, arg : Args \cup {0}]
         /\ Programa[p][i].op = "JNZ" => Programa[p][i].arg \in Nat
<1>1. Programa[p] \in Seq(Instrucciones)
  BY CPUAssumption
<1>2. i \in 1..Len(Programa[p]) /\ Programa[p][i] \in Instrucciones
  BY <1>1
<1>3. QED
  BY <1>2, CPUAssumption DEF Instrucciones

LEMMA BuscarTipo ==
  ASSUME CPUTypeOK, Buscar
  PROVE  CPUTypeOK'
<1>1. proceso.pid \in Pids /\ proceso.pc + 1 \in DOMAIN Programa[proceso.pid]
  BY DEF Buscar
<1>2. /\ instruccion' \in [op : Comandos, arg : Args \cup {0}]
      /\ instruccion'.op = "JNZ" => instruccion'.arg \in Nat
  <2>1. instruccion' = Programa[proceso.pid][proceso.pc + 1]
    BY DEF Buscar
  <2>2. QED
    BY <1>1, <2>1, InstruccionTipo
<1>3. proceso' \in [pid : Pids \cup {0}, pc : Int] /\ proceso'.pid = proceso.pid
  <2>1. proceso \in [pid : Pids \cup {0}, pc : Int]
    BY DEF CPUTypeOK, TipoNucleo
  <2>2. proceso' = [proceso EXCEPT !.pc = @ + 1]
    BY DEF Buscar
  <2>3. QED
    BY <2>1, <2>2
<1>4. ciclo' \in Nat
  <2>1. ciclo \in Nat /\ ciclo > 0 /\ ciclo' = ciclo - 1
    BY DEF CPUTypeOK, TipoNucleo, Buscar
  <2>2. QED
    BY <2>1
<1>5. /\ cicloPc' = "ejecutar"
      /\ UNCHANGED <<canales, respuesta, bloquear, interrupcion, motivo, pedido, avisar, fallas,
                     avance>>
  BY DEF Buscar
<1>6. TipoCanales'
  BY <1>5 DEF CPUTypeOK, TipoCanales, canales
<1>7. TipoNucleo'
  BY <1>2, <1>3, <1>4, <1>5 DEF CPUTypeOK, TipoNucleo
<1>8. TieneProceso'
  BY <1>1, <1>2, <1>3, <1>5 DEF CPUTypeOK, TieneProceso
<1>9. QED
  BY <1>6, <1>7, <1>8 DEF CPUTypeOK

LEMMA ProcesoPresente ==
  ASSUME CPUTypeOK, cicloPc # "ciclo" \/ avisar \/ interrupcion
  PROVE  proceso.pid \in Pids /\ proceso.pc \in Int
BY DEF CPUTypeOK, TipoNucleo, TieneProceso

LEMMA EjecutadoTipo ==
  ASSUME CPUTypeOK, NEW pc \in Int, cicloPc = "ejecutar", Ejecutado(pc)
  PROVE  avance' \in [Pids -> Int]
BY DEF CPUTypeOK, TipoNucleo, Ejecutado

LEMMA CalcularTipo ==
  ASSUME CPUTypeOK, Calcular
  PROVE  CPUTypeOK'
<1>1. avance' \in [Pids -> Int]
  BY ProcesoPresente, EjecutadoTipo DEF Calcular
<1>2. TipoCanales'
  BY DEF CPUTypeOK, TipoCanales, Calcular, canales
<1>3. TipoNucleo'
  BY <1>1 DEF CPUTypeOK, TipoNucleo, Calcular
<1>4. TieneProceso'
  BY DEF CPUTypeOK, TieneProceso, Calcular
<1>5. QED
  BY <1>2, <1>3, <1>4 DEF CPUTypeOK

LEMMA SaltarTipo ==
  ASSUME CPUTypeOK, Saltar
  PROVE  CPUTypeOK'
<1>1. instruccion.arg \in Int
  BY DEF Saltar, CPUTypeOK, TieneProceso
<1>2. avance' \in [Pids -> Int]
  BY <1>1, EjecutadoTipo DEF Saltar
<1>3. proceso' \in [pid : Pids \cup {0}, pc : Int] /\ proceso'.pid = proceso.pid
  <2>1. proceso \in [pid : Pids \cup {0}, pc : Int]
    BY DEF CPUTypeOK, TipoNucleo
  <2>2. proceso' = [proceso EXCEPT !.pc = instruccion.arg]
    BY DEF Saltar
  <2>3. QED
    BY <1>1, <2>1, <2>2
<1>4. TipoCanales'
  BY DEF CPUTypeOK, TipoCanales, Saltar, canales
<1>5. TipoNucleo'
  BY <1>2, <1>3 DEF CPUTypeOK, TipoNucleo, Saltar
<1>6. TieneProceso'
  BY <1>3 DEF CPUTypeOK, TieneProceso, Saltar
<1>7. QED
  BY <1>4, <1>5, <1>6 DEF CPUTypeOK

LEMMA ContextoTipo ==
  ASSUME CPUTypeOK, NEW razon \in MotivosContexto, NEW pc \in Int, proceso.pid \in Pids
  PROVE  Append(canalContexto, Contexto(razon, pc, instruccion.arg))
           \in Seq([motivo : MotivosContexto, pid : Pids, pc : Int, arg : Args \cup {0}])
<1> DEFINE Contextos == [motivo : MotivosContexto, pid : Pids, pc : Int, arg : Args \cup {0}]
<1>1. instruccion.arg \in Args \cup {0}
  BY DEF CPUTypeOK, TipoNucleo
<1>2. Contexto(razon, pc, instruccion.arg) \in Contextos
  BY <1>1 DEF Contexto
<1>3. canalContexto \in Seq(Contextos)
  BY DEF CPUTypeOK, TipoCanales
<1> HIDE DEF Contextos
<1>4. Append(canalContexto, Contexto(razon, pc, instruccion.arg)) \in Seq(Contextos)
  BY <1>2, <1>3
<1>5. QED
  BY <1>4 DEF Contextos

LEMMA FallarPaginaTipo ==
  ASSUME CPUTypeOK, FallarPagina
  PROVE  CPUTypeOK'
<1>1. proceso.pid \in Pids /\ proceso.pc - 1 \in Int
  BY ProcesoPresente DEF FallarPagina
<1>2. canalContexto' \in Seq([motivo : MotivosContexto, pid : Pids, pc : Int, arg : Args \cup {0}])
  BY <1>1, ContextoTipo DEF FallarPagina, MotivosContexto
<1>3. proceso' \in [pid : Pids \cup {0}, pc : Int] /\ proceso'.pid = proceso.pid
  <2>1. proceso \in [pid : Pids \cup {0}, pc : Int]
    BY DEF CPUTypeOK, TipoNucleo
  <2>2. proceso' = [proceso EXCEPT !.pc = @ - 1]
    BY DEF FallarPagina
  <2>3. QED
    BY <2>1, <2>2
<1>4. TipoCanales'
  BY <1>2 DEF CPUTypeOK, TipoCanales, FallarPagina
<1>5. TipoNucleo'
  <2>1. fallas \in Nat
    BY DEF CPUTypeOK, TipoNucleo
  <2>2. fallas' = fallas + 1
    BY DEF FallarPagina
  <2>3. fallas' \in Nat
    BY <2>1, <2>2
  <2>4. QED
    BY <1>3, <2>3 DEF CPUTypeOK, TipoNucleo, FallarPagina
<1>6. TieneProceso'
  BY <1>1, <1>3 DEF CPUTypeOK, TieneProceso, FallarPagina
<1>7. QED
  BY <1>4, <1>5, <1>6 DEF CPUTypeOK

LEMMA PedirKernelTipo ==
  ASSUME CPUTypeOK, PedirKernel
  PROVE  CPUTypeOK'
<1>1. proceso.pid \in Pids /\ proceso.pc \in Int
  BY ProcesoPresente DEF PedirKernel
<1>2. MotivoDe[instruccion.op] \in MotivosContexto
  BY DEF PedirKernel, MotivosContexto
<1>3. canalContexto' \in Seq([motivo : MotivosContexto, pid : Pids, pc : Int, arg : Args \cup {0}])
  BY <1>1, <1>2, ContextoTipo DEF PedirKernel
<1>4. avance' \in [Pids -> Int]
  BY <1>1, EjecutadoTipo DEF PedirKernel
<1>5. TipoCanales'
  BY <1>3 DEF CPUTypeOK, TipoCanales, PedirKernel
<1>6. TipoNucleo'
  BY <1>4 DEF CPUTypeOK, TipoNucleo, PedirKernel
<1>7. TieneProceso'
  BY <1>1 DEF CPUTypeOK, TieneProceso, PedirKernel
<1>8. QED
  BY <1>5, <1>6, <1>7 DEF CPUTypeOK

LEMMA ContinuarTipo ==
  ASSUME CPUTypeOK, Continuar
  PROVE  CPUTypeOK'
<1>1. ciclo' \in Nat
  <2>1. ciclo \in Nat
    BY DEF CPUTypeOK, TipoNucleo
  <2>2. ciclo' = ciclo \/ ciclo' = ciclo + 1
    BY DEF Continuar
  <2>3. QED
    BY <2>1, <2>2
<1>2. TipoCanales'
  BY DEF CPUTypeOK, TipoCanales, Continuar, canales
<1>3. TipoNucleo'
  BY <1>1 DEF CPUTypeOK, TipoNucleo, Continuar
<1>4. TieneProceso'
  BY DEF CPUTypeOK, TieneProceso, Continuar
<1>5. QED
  BY <1>2, <1>3, <1>4 DEF CPUTypeOK

LEMMA EsperarRespuestaTipo ==
  ASSUME CPUTypeOK, EsperarRespuesta
  PROVE  CPUTypeOK'
<1>1. respuesta' \in Nat
  <2>1. respuesta \in Nat
    BY DEF CPUTypeOK, TipoNucleo
  <2>2. respuesta > 0 /\ respuesta' = respuesta - 1
    BY DEF EsperarRespuesta
  <2>3. QED
    BY <2>1, <2>2
<1>2. TipoCanales'
  BY DEF CPUTypeOK, TipoCanales, EsperarRespuesta, canales
<1>3. TipoNucleo'
  BY <1>1 DEF CPUTypeOK, TipoNucleo, EsperarRespuesta
<1>4. TieneProceso'
  BY DEF CPUTypeOK, TieneProceso, EsperarRespuesta
<1>5. QED
  BY <1>2, <1>3, <1>4 DEF CPUTypeOK

LEMMA AtenderInterrupcionTipo ==
  ASSUME CPUTypeOK, AtenderInterrupcion
  PROVE  CPUTypeOK'
<1>1. proceso.pid \in Pids /\ proceso.pc \in Int
  BY ProcesoPresente DEF AtenderInterrupcion
<1>2. interrupcion => motivo \in MotivosContexto
  BY DEF CPUTypeOK, TieneProceso, MotivosContexto
<1>3. canalContexto' \in Seq([motivo : MotivosContexto, pid : Pids, pc : Int, arg : Args \cup {0}])
  <2>1. CASE interrupcion
    BY <2>1, <1>1, <1>2, ContextoTipo DEF AtenderInterrupcion
  <2>2. CASE ~interrupcion
    BY <2>2 DEF AtenderInterrupcion, CPUTypeOK, TipoCanales
  <2>3. QED
    BY <2>1, <2>2
<1>4. TipoCanales'
  BY <1>3 DEF CPUTypeOK, TipoCanales, AtenderInterrupcion
<1>5. TipoNucleo'
  BY DEF CPUTypeOK, TipoNucleo, AtenderInterrupcion
<1>6. TieneProceso'
  BY DEF CPUTypeOK, TieneProceso, AtenderInterrupcion
<1>7. QED
  BY <1>4, <1>5, <1>6 DEF CPUTypeOK

LEMMA RecibirDespachoTipo ==
  ASSUME CPUTypeOK, HiloDespacho
  PROVE  CPUTypeOK'
<1>1. canalDespacho \in Seq(MensajesDespacho) /\ canalDespacho # <<>>
  BY DEF CPUTypeOK, TipoCanales, HiloDespacho, RecibirProceso, RecibirRespuesta
<1>2. Head(canalDespacho) \in MensajesDespacho /\ Tail(canalDespacho) \in Seq(MensajesDespacho)
  BY <1>1
<1>3. CASE RecibirProceso
  <2>1. Head(canalDespacho).pid \in Pids /\ Head(canalDespacho).pc \in Int
    BY <1>2, <1>3 DEF RecibirProceso, MensajesDespacho
  <2>2. proceso' \in [pid : Pids \cup {0}, pc : Int] /\ proceso'.pid \in Pids
    BY <2>1, <1>3 DEF RecibirProceso
  <2>3. TipoCanales'
    BY <1>2, <1>3 DEF RecibirProceso, CPUTypeOK, TipoCanales
  <2>4. TipoNucleo'
    <3>1. ciclo \in Nat
      BY DEF CPUTypeOK, TipoNucleo
    <3>2. ciclo' = ciclo + 1
      BY <1>3 DEF RecibirProceso
    <3>3. ciclo' \in Nat
      BY <3>1, <3>2
    <3>4. QED
      BY <2>2, <1>3, <3>3 DEF RecibirProceso, CPUTypeOK, TipoNucleo
  <2>5. TieneProceso'
    BY <2>2, <1>3 DEF RecibirProceso, CPUTypeOK, TieneProceso
  <2>6. QED
    BY <2>3, <2>4, <2>5 DEF CPUTypeOK
<1>4. CASE RecibirRespuesta
  <2>1. TipoCanales'
    BY <1>2, <1>4 DEF RecibirRespuesta, CPUTypeOK, TipoCanales
  <2>2. TipoNucleo'
    <3>1. respuesta \in Nat
      BY DEF CPUTypeOK, TipoNucleo
    <3>2. respuesta' = respuesta + 1
      BY <1>4 DEF RecibirRespuesta
    <3>3. respuesta' \in Nat
      BY <3>1, <3>2
    <3>4. QED
      BY <1>4, <3>3 DEF RecibirRespuesta, CPUTypeOK, TipoNucleo
  <2>3. TieneProceso'
    BY <1>4 DEF RecibirRespuesta, CPUTypeOK, TieneProceso
  <2>4. QED
    BY <2>1, <2>2, <2>3 DEF CPUTypeOK
<1>5. QED
  BY <1>3, <1>4 DEF HiloDespacho

LEMMA RecibirInterrupcionTipo ==
  ASSUME CPUTypeOK, HiloInterrupcion
  PROVE  CPUTypeOK'
<1> DEFINE Avisos == [motivo : MotivosInterrupcion, pid : Nat \ {0}]
<1>1. CASE RecibirInterrupcion
  <2>1. canalInterrupcion \in Seq(Avisos) /\ canalInterrupcion # <<>>
    BY <1>1 DEF CPUTypeOK, TipoCanales, RecibirInterrupcion
  <2>2. Head(canalInterrupcion) \in Avisos /\ Tail(canalInterrupcion) \in Seq(Avisos)
    <3> HIDE DEF Avisos
    <3>1. QED
      BY <2>1
  <2>3. /\ Head(canalInterrupcion).motivo \in MotivosInterrupcion
        /\ Head(canalInterrupcion).pid \in Nat \ {0}
    BY <2>2
  <2>4. motivo' \in MotivosInterrupcion /\ pedido' \in Nat
    BY <1>1, <2>3 DEF RecibirInterrupcion
  <2>5. TipoCanales'
    BY <1>1, <2>2 DEF RecibirInterrupcion, CPUTypeOK, TipoCanales
  <2>6. TipoNucleo'
    BY <1>1, <2>4 DEF RecibirInterrupcion, CPUTypeOK, TipoNucleo
  <2>7. TieneProceso'
    BY <1>1, <2>4 DEF RecibirInterrupcion, CPUTypeOK, TieneProceso
  <2>8. QED
    BY <2>5, <2>6, <2>7 DEF CPUTypeOK
<1>2. CASE CompararPid
  <2>1. proceso.pid \in Pids \cup {0}
    BY DEF CPUTypeOK, TipoNucleo
  <2>2. avisar' \in BOOLEAN /\ pedido' = 0 /\ (avisar' => proceso.pid \in Pids)
    BY <1>2, <2>1 DEF CompararPid
  <2>3. TipoCanales'
    BY <1>2 DEF CompararPid, CPUTypeOK, TipoCanales, canales
  <2>4. TipoNucleo'
    <3>1. UNCHANGED <<proceso, instruccion, ciclo, respuesta, cicloPc, bloquear, interrupcion,
                      motivo, fallas, avance>>
      BY <1>2, Zenon DEF CompararPid
    <3>2. QED
      BY <2>2, <3>1 DEF CPUTypeOK, TipoNucleo
  <2>5. TieneProceso'
    BY <1>2, <2>2 DEF CompararPid, CPUTypeOK, TieneProceso
  <2>6. QED
    BY <2>3, <2>4, <2>5 DEF CPUTypeOK
<1>3. CASE MarcarInterrupcion
  <2>1. TipoCanales'
    BY <1>3 DEF MarcarInterrupcion, CPUTypeOK, TipoCanales, canales
  <2>2. TipoNucleo'
    BY <1>3 DEF MarcarInterrupcion, CPUTypeOK, TipoNucleo
  <2>3. TieneProceso'
    BY <1>3 DEF MarcarInterrupcion, CPUTypeOK, TieneProceso
  <2>4. QED
    BY <2>1, <2>2, <2>3 DEF CPUTypeOK
<1>4. QED
  BY <1>1, <1>2, <1>3 DEF HiloInterrupcion

LEMMA CPUTipo ==
  ASSUME CPUTypeOK, CPUNext
  PROVE  CPUTypeOK'
BY BuscarTipo, CalcularTipo, SaltarTipo, FallarPaginaTipo, PedirKernelTipo, ContinuarTipo,
   EsperarRespuestaTipo, AtenderInterrupcionTipo, RecibirDespachoTipo, RecibirInterrupcionTipo
   DEF CPUNext, HiloCiclo

-----------------------------------------------------------------------------
(* Every action keeps the types.                                           *)
LEMMA CPUPasoTipo ==
  ASSUME PTypeOK, CPUPaso
  PROVE  PTypeOK'
<1>1. CPUTypeOK'
  BY CPUTipo DEF PTypeOK, CPUPaso
<1>2. RTypeOK'
  BY EfectoNulo, RecursosQuietos DEF CPUPaso
<1>3. TipoConsigna' /\ TipoTabla'
  BY DEF PTypeOK, TipoConsigna, TipoTabla, CPUPaso, kernel, consigna, tabla, cortoVar, EventosMax
<1>4. TipoColas' /\ TipoHilos'
  BY DEF PTypeOK, TipoColas, TipoHilos, CPUPaso, kernel, colas, cortoVar
<1>5. QED
  BY <1>1, <1>2, <1>3, <1>4 DEF PTypeOK

LEMMA PQuietoTipo ==
  ASSUME PTypeOK, UNCHANGED pvars
  PROVE  PTypeOK'
<1>1. CPUTypeOK' /\ RTypeOK'
  BY CPUQuietaTipo, RecursosQuietos DEF PTypeOK, pvars
<1>2. TipoConsigna' /\ TipoTabla'
  BY DEF PTypeOK, TipoConsigna, TipoTabla, pvars, kernel, consigna, tabla, cortoVar, EventosMax
<1>3. TipoColas' /\ TipoHilos'
  BY DEF PTypeOK, TipoColas, TipoHilos, pvars, kernel, colas, cortoVar
<1>4. QED
  BY <1>1, <1>2, <1>3 DEF PTypeOK

LEMMA PTipoInductivo == PTypeOK /\ [PNext]_pvars => PTypeOK'
<1> SUFFICES ASSUME PTypeOK, [PNext]_pvars PROVE PTypeOK'
  OBVIOUS
<1>1. CASE CPUPaso
  BY <1>1, CPUPasoTipo
<1>2. ASSUME NEW h \in Hilos, Llamada(h) PROVE PTypeOK'
  BY <1>2, CadaLlamadaTipo
<1>3. CASE RecibirContexto
  BY <1>3, RecibirContextoTipo
<1>4. CASE MemoriaResponde
  BY <1>4, MemoriaRespondeTipo
<1>5. CASE planificador_largo
  BY <1>5, LargoDespiertaTipo, LargoTomaTipo, LargoAdmiteTipo, LargoCuentaTipo, LargoTerminaTipo
     DEF planificador_largo
<1>6. CASE planificador_corto
  BY <1>6, CortoDespiertaTipo, CortoOrdenaTipo, CortoMiraTipo, CortoComparaTipo, CortoDesalojadoTipo,
     CortoTomaTipo, CortoMarcaTipo, CortoOcupaTipo, CortoEnviaTipo DEF planificador_corto
<1>7. ASSUME NEW p \in Pids, clock_rr(p) PROVE PTypeOK'
  BY <1>7, ClockTipo
<1>8. CASE hilo_consola
  BY <1>8, IniciarProcesoTipo, FinalizarProcesoTipo, PlanificacionConsolaTipo DEF hilo_consola
<1>9. CASE UNCHANGED pvars
  BY <1>9, PQuietoTipo
<1>10. QED
  BY <1>1, <1>2, <1>3, <1>4, <1>5, <1>6, <1>7, <1>8, <1>9 DEF PNext

LEMMA PTipoInicial == PInit => PTypeOK
<1> SUFFICES ASSUME PInit PROVE PTypeOK
  OBVIOUS
<1>1. RTypeOK
  BY RTipoInicial DEF PInit
<1>2. \A S : <<>> \in Seq(S)
  OBVIOUS
<1>3. TipoConsigna
  BY PlanificacionAssumption DEF PInit, TipoConsigna
<1>4. TipoTabla
  <2>1. "NULO" \in Estados
    BY DEF Estados
  <2>2. estado = [p \in Pids |-> "NULO"] /\ pcb = [p \in Pids |-> 0] /\ relojes = [p \in Pids |-> 0]
    BY DEF PInit
  <2>3. estado \in [Pids -> Estados] /\ pcb \in [Pids -> Int] /\ relojes \in [Pids -> Int]
    BY <2>1, <2>2
  <2>4. creados \in Int
    <3>1. creados = 0
      BY DEF PInit
    <3>2. QED
      BY <3>1
  <2>5. ejecutandoB \in BOOLEAN
    <3>1. ejecutandoB = FALSE
      BY Zenon DEF PInit
    <3>2. QED
      BY <3>1
  <2>6. QED
    BY <2>3, <2>4, <2>5 DEF TipoTabla
<1>5. TipoColas
  BY <1>2 DEF PInit, TipoColas
<1>6. TipoHilos
  BY <1>2 DEF PInit, TipoHilos
<1>7. TipoCanales
  BY <1>2 DEF PInit, CPUInit, TipoCanales
<1>8. TipoNucleo
  <2>1. /\ proceso = [pid |-> 0, pc |-> 0] /\ instruccion = [op |-> "CALC", arg |-> 0]
        /\ avance = [p \in Pids |-> 0]
    BY DEF PInit, CPUInit
  <2>2. /\ proceso \in [pid : Pids \cup {0}, pc : Int] /\ avance \in [Pids -> Int]
        /\ instruccion \in [op : Comandos, arg : Args \cup {0}]
    BY <2>1 DEF Comandos
  <2>3. /\ ciclo = 0 /\ respuesta = 0 /\ fallas = 0 /\ cicloPc = "ciclo" /\ motivo = ""
        /\ bloquear = FALSE /\ interrupcion = FALSE /\ pedido = 0 /\ avisar = FALSE
    BY DEF PInit, CPUInit
  <2>4. QED
    BY <2>2, <2>3 DEF TipoNucleo
<1>9. TieneProceso
  BY DEF PInit, CPUInit, TieneProceso
<1>10. QED
  BY <1>1, <1>3, <1>4, <1>5, <1>6, <1>7, <1>8, <1>9 DEF PTypeOK, CPUTypeOK

(* The types of the scheduling hold for every number of processes, every   *)
(* program, algorithm, priority and set of detached threads: no thread is  *)
(* left with a call that is not one of Conocidas, no queue or message      *)
(* names what is not a process, and an interrupt marked in the CPU always  *)
(* has a process to send back.                                             *)
THEOREM PTipo == PSpec => []PTypeOK
BY PTipoInicial, PTipoInductivo, PTL DEF PSpec

-----------------------------------------------------------------------------
(* The scheduling implements RSpecLibre.                                   *)
LEMMA LlamadaEsPaso ==
  ASSUME PTypeOK, NEW h \in Hilos, Llamada(h)
  PROVE  RPaso \/ UNCHANGED rvars
<1>1. CASE WaitConInstancia(h) \/ WaitSinInstancia(h) \/ SignalValido(h)
  BY <1>1, WaitConInstanciaPaso, WaitSinInstanciaPaso, SignalValidoPaso
<1>2. CASE LiberarSinEntrega(h) \/ LiberarConEntrega(h)
  BY <1>2, LiberarSinEntregaPaso, LiberarConEntregaPaso
<1>3. CASE \/ CambiarEstado(h) \/ SemPost(h) \/ SemWait(h) \/ PushColaCorto(h) \/ PushSiEXEC(h)
           \/ QueuePush(h) \/ OrdenarAdelante(h) \/ Responder(h) \/ HiloFuncion(h)
           \/ DetectarDeadlock(h) \/ WaitInvalido(h) \/ SignalInvalido(h) \/ Avisar(h) \/ Salida(h) \/ QuitarDeColas(h)
           \/ PedirMemoria(h) \/ BajarMulti(h) \/ PushColaLargo(h) \/ DespertarLargo(h)
           \/ BorrarProceso(h)
  BY <1>3 DEF CambiarEstado, SemPost, SemWait, PushColaCorto, PushSiEXEC, QueuePush,
     OrdenarAdelante, Responder, HiloFuncion, DetectarDeadlock, WaitInvalido, SignalInvalido, Avisar, Salida,
     QuitarDeColas, PedirMemoria, BajarMulti, PushColaLargo, DespertarLargo, BorrarProceso
<1>4. CASE EscribirSinAbrir(h)
  BY <1>4 DEF EscribirSinAbrir, Llama, RPaso
<1>5. QED
  BY <1>1, <1>2, <1>3, <1>4 DEF Llamada

LEMMA PlanificadorEsPaso ==
  ASSUME PTypeOK, planificador_largo \/ planificador_corto
  PROVE  RPaso \/ UNCHANGED rvars
<1>1. CASE LargoToma
  BY <1>1 DEF LargoToma, RPaso, Caer, rvars
<1>2. CASE LargoDespierta \/ LargoAdmite \/ LargoCuenta \/ LargoTermina
  BY <1>2 DEF LargoDespierta, LargoAdmite, LargoCuenta, LargoTermina
<1>3. CASE CortoCompara \/ CortoToma
  <2>1. ~caido /\ UNCHANGED <<instancias, colaEspera, tenencia>>
    BY <1>3, Zenon DEF CortoCompara, CortoToma, FijoEnCorto
  <2>2. caido' = TRUE \/ UNCHANGED caido
    BY <1>3, Zenon DEF CortoCompara, CortoToma
  <2>3. QED
    BY <2>1, <2>2 DEF RPaso, Caer, rvars
<1>4. CASE \/ CortoDespierta \/ CortoOrdena \/ CortoMira \/ CortoDesalojado \/ CortoMarca
           \/ CortoOcupa \/ CortoEnvia
  BY <1>4 DEF CortoDespierta, CortoOrdena, CortoMira, CortoDesalojado, CortoMarca, CortoOcupa,
     CortoEnvia, FijoEnCorto, rvars
<1>5. QED
  BY <1>1, <1>2, <1>3, <1>4 DEF planificador_largo, planificador_corto

LEMMA PasoDeRecursos == PTypeOK /\ [PNext]_pvars => [RPaso]_rvars
<1> SUFFICES ASSUME PTypeOK, [PNext]_pvars PROVE RPaso \/ UNCHANGED rvars
  OBVIOUS
<1>1. CASE CPUPaso \/ RecibirContexto \/ MemoriaResponde
  BY <1>1 DEF CPUPaso, RecibirContexto, MemoriaResponde
<1>2. ASSUME NEW h \in Hilos, Llamada(h) PROVE RPaso \/ UNCHANGED rvars
  BY <1>2, LlamadaEsPaso
<1>3. CASE planificador_largo \/ planificador_corto
  BY <1>3, PlanificadorEsPaso
<1>4. ASSUME NEW p \in Pids, clock_rr(p) PROVE RPaso \/ UNCHANGED rvars
  BY <1>4 DEF clock_rr
<1>5. CASE hilo_consola
  BY <1>5, Zenon DEF hilo_consola, iniciar_proceso, detener_planificacion, iniciar_planificacion,
     finalizar_proceso, multiprogramacion, FijoEnConsola
<1>6. CASE UNCHANGED pvars
  BY <1>6 DEF pvars
<1>7. QED
  BY <1>1, <1>2, <1>3, <1>4, <1>5, <1>6 DEF PNext

(* Whatever the algorithm, the interleaving of threads and the kills, the  *)
(* schedulers make no step on the resources that the operations of Recursos*)
(* do not allow.                                                           *)
LEMMA PRefina == PSpec => RSpecLibre
<1>1. PInit => RInit
  BY DEF PInit
<1>2. QED
  BY <1>1, PTipo, PasoDeRecursos, PTL DEF PSpec, RSpecLibre

(* No schedule, kill or interrupt creates an instance or loses one.        *)
THEOREM PConservacion == PSpec => []Conservacion
BY PRefina, RConservacion, PTL

(* No schedule, kill or interrupt leaves a process waiting for a resource  *)
(* that has a free instance.                                               *)
THEOREM PNadie == PSpec => []NadieEsperaConInstancias
BY PRefina, RNadie, PTL

(* In no state of the whole system does deteccion_deadlock miss a cycle of *)
(* waits or report one that is not there.                                  *)
THEOREM PDeteccion == PSpec => []DeteccionExacta
BY PRefina, RDeteccion, PTL
-----------------------------------------------------------------------------
(* The call that never returns, "colgado", only begins in DetectarDeadlock,*)
(* with mutexRecursos free; from there the resources stay as they are.     *)
SoloCabeza == \A h \in Hilos : hilo[h] # <<>> => Tail(hilo[h]) \in Seq(Normales)

LEMMA CicloQuieto ==
  ASSUME NEW p \in Pids, UNCHANGED <<colaEspera, tenencia>>
  PROVE  CicloAjeno(p)' <=> CicloAjeno(p)
<1>1. EsperaA' = EsperaA
  BY DEF EsperaA, Tiene, Espera, EnCola
<1>2. SinEl(p)' = SinEl(p)
  BY <1>1 DEF SinEl
<1>3. QED
  BY <1>1, <1>2 DEF CicloAjeno, Alcanza

LEMMA CuelgueQuieto ==
  ASSUME PTypeOK, PTypeOK', SoloCabeza, CuelgueJustificado,
         \A k \in Hilos : hilo'[k] = hilo[k] \/ hilo'[k] \in Seq(Normales),
         UNCHANGED <<colaEspera, tenencia>> \/ MutexRecursosLibre
  PROVE  (SoloCabeza /\ CuelgueJustificado)'
<1>1. SoloCabeza'
  <2> SUFFICES ASSUME NEW k \in Hilos, hilo'[k] # <<>>
               PROVE  Tail(hilo'[k]) \in Seq(Normales)
    BY DEF SoloCabeza
  <2>1. CASE hilo'[k] = hilo[k]
    BY <2>1 DEF SoloCabeza
  <2>2. CASE hilo'[k] \in Seq(Normales)
    BY <2>2
  <2>3. QED
    BY <2>1, <2>2
<1>2. CuelgueJustificado'
  <2> SUFFICES ASSUME NEW p \in Pids, NEW k \in Hilos, hilo'[k] # <<>>,
                      Head(hilo'[k]) = Simple("colgado", p)
               PROVE  CicloAjeno(p)'
    BY DEF CuelgueJustificado, Simple, Op
  <2>1. hilo'[k] \notin Seq(Normales)
    <3>1. hilo'[k] \in Seq(Normales) => Head(hilo'[k]) \in Normales
      OBVIOUS
    <3>2. QED
      BY <3>1 DEF Normales, Simple, Op
  <2>2. hilo'[k] = hilo[k] /\ ~MutexRecursosLibre
    BY <2>1 DEF MutexRecursosLibre, Simple, Op
  <2>3. CicloAjeno(p)
    BY <2>2 DEF CuelgueJustificado
  <2>4. QED
    BY <2>2, <2>3, CicloQuieto
<1>3. QED
  BY <1>1, <1>2

(* A thread that goes on, with calls of its own before the rest or without.*)
LEMMA SigueNormal ==
  ASSUME PTypeOK, SoloCabeza, NEW h \in Hilos, hilo[h] # <<>>, NEW ops \in Seq(Normales),
         Sigue(h, ops) \/ Avanza(h)
  PROVE  \A k \in Hilos : hilo'[k] = hilo[k] \/ hilo'[k] \in Seq(Normales)
<1>1. Tail(hilo[h]) \in Seq(Normales)
  BY DEF SoloCabeza
<1>2. ops \o Tail(hilo[h]) \in Seq(Normales)
  BY <1>1
<1>3. QED
  BY <1>1, <1>2, EfectoNulo DEF Sigue, Avanza

(* A thread that takes a list of calls anew.                               *)
(* Each call.                                                              *)
LEMMA LlamadaSinCuelgue ==
  ASSUME PTypeOK, SoloCabeza, NEW h \in Hilos, Llamada(h), ~DetectarDeadlock(h)
  PROVE  /\ \A k \in Hilos : hilo'[k] = hilo[k] \/ hilo'[k] \in Seq(Normales)
         /\ UNCHANGED <<colaEspera, tenencia>> \/ MutexRecursosLibre
<1> DEFINE p == De(h)
<1>1. CASE \/ CambiarEstado(h) \/ SemPost(h) \/ SemWait(h) \/ PushColaCorto(h) \/ QueuePush(h)
           \/ OrdenarAdelante(h) \/ Responder(h) \/ Avisar(h) \/ QuitarDeColas(h)
           \/ PedirMemoria(h) \/ BajarMulti(h) \/ PushColaLargo(h) \/ DespertarLargo(h)
           \/ BorrarProceso(h)
  <2>1. hilo[h] # <<>> /\ Avanza(h) /\ UNCHANGED rvars
    BY <1>1 DEF CambiarEstado, SemPost, SemWait, PushColaCorto, QueuePush, OrdenarAdelante,
                Responder, Avisar, QuitarDeColas, PedirMemoria, BajarMulti, PushColaLargo,
                DespertarLargo, BorrarProceso, Llama
  <2>2. <<>> \in Seq(Normales)
    BY EmptySeq
  <2>3. QED
    BY <2>1, <2>2, SigueNormal DEF rvars
<1>2. CASE PushSiEXEC(h)
  <2>1. p \in Pids /\ hilo[h] # <<>> /\ UNCHANGED rvars
    BY <1>2, EfectoNulo, CampoPid DEF PushSiEXEC, Llama
  <2>2. <<push_colaCorto(p)>> \in Seq(Normales)
    BY <2>1, OpsSimplesNormales, ListaDeUna DEF push_colaCorto
  <2>3. Sigue(h, <<push_colaCorto(p)>>) \/ Avanza(h)
    BY <1>2 DEF PushSiEXEC
  <2>4. QED
    BY <2>1, <2>2, <2>3, SigueNormal DEF rvars
<1>3. CASE HiloFuncion(h)
  <2> DEFINE s == CHOOSE s \in Libres : TRUE
  <2>1. /\ p \in Pids /\ hilo[h] # <<>> /\ UNCHANGED rvars
        /\ Head(hilo[h]).arg \in {"sleep_proceso", "page_fault", "f_write", "f_truncate"}
    BY <1>3, EfectoNulo, CampoPid, CampoRutina DEF HiloFuncion, Llama
  <2>2. PICK ops \in Rutinas(Head(hilo[h]).arg, p) :
          hilo' = [hilo EXCEPT ![h] = Tail(@), ![s] = ops]
    BY <1>3 DEF HiloFuncion
  <2>3. ops \in Seq(Normales) /\ Tail(hilo[h]) \in Seq(Normales)
    BY <2>1, RutinasNormales DEF SoloCabeza
  <2> HIDE DEF s
  <2>4. QED
    BY <2>1, <2>2, <2>3, EfectoNulo DEF rvars
<1>4. CASE EscribirSinAbrir(h)
  BY <1>4 DEF EscribirSinAbrir, Caer, kernel
<1>5. CASE WaitConInstancia(h)
  <2>1. p \in Pids /\ hilo[h] # <<>> /\ MutexRecursosLibre
    BY <1>5, EfectoNulo, CampoPid DEF WaitConInstancia, Llama
  <2>2. <<Simple("queue_push", p), sem_post("planiCorto"), sem_post("planiCorto")>> \in Seq(Normales)
    BY <2>1, OpsNormales, OpsSimplesNormales, ListaDeTres DEF Semaforos
  <2>3. Sigue(h, <<Simple("queue_push", p), sem_post("planiCorto"), sem_post("planiCorto")>>)
    BY <1>5 DEF WaitConInstancia
  <2>4. QED
    BY <2>1, <2>2, <2>3, SigueNormal
<1>6. CASE WaitSinInstancia(h)
  <2>1. p \in Pids /\ hilo[h] # <<>> /\ MutexRecursosLibre
    BY <1>6, EfectoNulo, CampoPid DEF WaitSinInstancia, Llama
  <2>2. <<cambiar_estado(p, "BLOCKED"), Simple("deteccion_deadlock", p), sem_post("planiCorto")>>
          \in Seq(Normales)
    BY <2>1, OpsNormales, OpsSimplesNormales, ListaDeTres DEF Semaforos, Estados
  <2>3. Sigue(h, <<cambiar_estado(p, "BLOCKED"), Simple("deteccion_deadlock", p),
                   sem_post("planiCorto")>>)
    BY <1>6 DEF WaitSinInstancia
  <2>4. QED
    BY <2>1, <2>2, <2>3, SigueNormal
<1>7. CASE WaitInvalido(h)
  <2>1. p \in Pids /\ hilo[h] # <<>> /\ UNCHANGED rvars
    BY <1>7, EfectoNulo, CampoPid DEF WaitInvalido, Llama
  <2>2. <<salida(p, "INVALID_RESOURCE"), sem_post("planiCorto")>> \in Seq(Normales)
    BY <2>1, OpsNormales, ListaDeDos DEF Semaforos
  <2>3. Sigue(h, <<salida(p, "INVALID_RESOURCE"), sem_post("planiCorto")>>)
    BY <1>7 DEF WaitInvalido
  <2>4. QED
    BY <2>1, <2>2, <2>3, SigueNormal DEF rvars
<1>8. CASE SignalValido(h)
  <2>1. p \in Pids /\ hilo[h] # <<>> /\ MutexRecursosLibre
    BY <1>8, EfectoNulo, CampoPid DEF SignalValido, Llama
  <2>2. <<Simple("avisar", 0)>> \in Seq(Normales)
    BY <2>1, OpsNormales, ListaDeUna
  <2>3. Sigue(h, <<Simple("avisar", 0)>>)
    BY <1>8 DEF SignalValido
  <2>4. QED
    BY <2>1, <2>2, <2>3, SigueNormal
<1>9. CASE SignalInvalido(h)
  <2>1. p \in Pids /\ hilo[h] # <<>> /\ UNCHANGED rvars
    BY <1>9, EfectoNulo, CampoPid DEF SignalInvalido, Llama
  <2>2. <<salida(p, "INVALID_RESOURCE")>> \in Seq(Normales)
    BY <2>1, OpsNormales, ListaDeUna
  <2>3. Sigue(h, <<salida(p, "INVALID_RESOURCE")>>)
    BY <1>9 DEF SignalInvalido
  <2>4. QED
    BY <2>1, <2>2, <2>3, SigueNormal DEF rvars
<1>10. CASE Salida(h)
  <2> DEFINE cola == ColaDeSalida(p, estado[p])
  <2>1. p \in Pids /\ hilo[h] # <<>> /\ UNCHANGED rvars
    BY <1>10, EfectoNulo, CampoPid DEF Salida, Llama
  <2>2. cola \in Seq(Normales)
    BY <2>1, ColaDeSalidaNormal
  <2>3. <<sem_wait("procesoTerminado")>> \in Seq(Normales)
    BY <2>1, OpsNormales, ListaDeUna DEF Semaforos
  <2>4. Sigue(h, <<sem_wait("procesoTerminado")>> \o cola) \/ Sigue(h, cola)
    BY <1>10 DEF Salida
  <2> HIDE DEF cola
  <2>5. <<sem_wait("procesoTerminado")>> \o cola \in Seq(Normales)
    BY <2>2, <2>3, ConcatenarTipo
  <2>6. QED
    BY <2>1, <2>2, <2>4, <2>5, SigueNormal DEF rvars
<1>11. CASE LiberarSinEntrega(h)
  <2>1. hilo[h] # <<>> /\ MutexRecursosLibre /\ Avanza(h)
    BY <1>11 DEF LiberarSinEntrega, Llama
  <2>2. <<>> \in Seq(Normales)
    BY EmptySeq
  <2>3. QED
    BY <2>1, <2>2, SigueNormal
<1>12. CASE LiberarConEntrega(h)
  <2>1. p \in Pids /\ hilo[h] # <<>> /\ MutexRecursosLibre
    BY <1>12, EfectoNulo, CampoPid DEF LiberarConEntrega, Llama
  <2>2. <<sem_post("planiCorto")>> \in Seq(Normales)
    BY <2>1, OpsNormales, ListaDeUna DEF Semaforos
  <2>3. Sigue(h, <<sem_post("planiCorto")>>)
    BY <1>12 DEF LiberarConEntrega
  <2>4. QED
    BY <2>1, <2>2, <2>3, SigueNormal
<1>13. QED
  BY <1>1, <1>2, <1>3, <1>4, <1>5, <1>6, <1>7, <1>8, <1>9, <1>10, <1>11, <1>12 DEF Llamada

(* The search hangs only around a cycle that the process is not on.        *)
LEMMA DetectarJustifica ==
  ASSUME PTypeOK, SoloCabeza, CuelgueJustificado, NEW h \in Hilos, DetectarDeadlock(h)
  PROVE  (SoloCabeza /\ CuelgueJustificado)'
<1> DEFINE p == De(h)
<1>1. p \in Pids /\ hilo[h] # <<>> /\ UNCHANGED rvars /\ MutexRecursosLibre
  BY EfectoNulo, CampoPid DEF DetectarDeadlock, Llama
<1>2. Tail(hilo[h]) \in Seq(Normales)
  BY <1>1 DEF SoloCabeza
<1>3. CASE Avanza(h)
  <2>1. <<>> \in Seq(Normales)
    BY EmptySeq
  <2>2. \A k \in Hilos : hilo'[k] = hilo[k] \/ hilo'[k] \in Seq(Normales)
    BY <1>1, <1>3, <2>1, SigueNormal
  <2>3. PTypeOK'
    BY DetectarDeadlockTipo
  <2>4. QED
    BY <1>1, <2>2, <2>3, CuelgueQuieto
<1>4. CASE deteccion_deadlock(p) = "cuelga" /\ Sigue(h, <<Simple("colgado", p)>>)
  <2>1. hilo' = [hilo EXCEPT ![h] = <<Simple("colgado", p)>> \o Tail(@)]
    BY <1>4 DEF Sigue
  <2>2. hilo'[h] = <<Simple("colgado", p)>> \o Tail(hilo[h])
    BY <2>1, EfectoNulo
  <2> HIDE DEF p
  <2>3. Head(hilo'[h]) = Simple("colgado", p) /\ Tail(hilo'[h]) = Tail(hilo[h])
    BY <1>2, <2>2
  <2>4. \A k \in Hilos : k # h => hilo'[k] = hilo[k]
    BY <2>1, EfectoNulo
  <2>5. SoloCabeza'
    BY <1>2, <2>3, <2>4 DEF SoloCabeza
  <2>6. CicloAjeno(p)
    BY <1>1, <1>4, EfectoNulo, CuelgaPorCiclo
  <2>7. \A q \in Pids : CicloAjeno(q) => CicloAjeno(q)'
    BY <1>1, CicloQuieto DEF rvars
  <2>8. CuelgueJustificado'
    <3> SUFFICES ASSUME NEW q \in Pids, NEW k \in Hilos, hilo'[k] # <<>>,
                        Head(hilo'[k]) = Simple("colgado", q)
                 PROVE  CicloAjeno(q)'
      BY DEF CuelgueJustificado, Simple, Op
    <3>1. CASE k = h
      <4>1. q = p
        BY <2>3, <3>1 DEF Simple, Op
      <4>2. CicloAjeno(q)
        BY <2>6, <4>1
      <4>3. QED
        BY <2>7, <4>2
    <3>2. CASE k # h
      <4>1. hilo[k] # <<>> /\ Head(hilo[k]).op = "colgado"
        BY <2>4, <3>2 DEF Simple, Op
      <4>2. QED
        BY <1>1, <4>1 DEF MutexRecursosLibre
    <3>3. QED
      BY <3>1, <3>2
  <2>9. QED
    BY <2>5, <2>8
<1>5. QED
  BY <1>3, <1>4 DEF DetectarDeadlock

(* Everything else leaves the tables alone, and starts threads with lists  *)
(* of the known calls.                                                     *)
LEMMA RestoSinCuelgue ==
  ASSUME PTypeOK, [PNext]_pvars, \A h \in Hilos : ~Llamada(h)
  PROVE  /\ \A k \in Hilos : hilo'[k] = hilo[k] \/ hilo'[k] \in Seq(Normales)
         /\ UNCHANGED <<colaEspera, tenencia>>
<1>1. CASE RecibirContexto
  <2> DEFINE m == Head(canalContexto)
             Contextos == [motivo : MotivosContexto, pid : Pids, pc : Int, arg : Args \cup {0}]
  <2>1. m \in Contextos
    <3>1. canalContexto \in Seq(Contextos) /\ canalContexto # <<>>
      BY <1>1 DEF PTypeOK, CPUTypeOK, TipoCanales, RecibirContexto
    <3> HIDE DEF Contextos
    <3>2. QED
      BY <3>1
  <2>2. Atencion(m.motivo, m.pid, m.arg) \in Seq(Normales)
    BY <2>1, AtencionNormal
  <2>3. UNCHANGED hilo \/ hilo' = [hilo EXCEPT !["despacho"] = Atencion(m.motivo, m.pid, m.arg)]
    BY <1>1 DEF RecibirContexto
  <2> HIDE DEF m
  <2>4. \A k \in Hilos : hilo'[k] = hilo[k] \/ hilo'[k] \in Seq(Normales)
    BY <2>2, <2>3, EfectoNulo
  <2>5. QED
    BY <1>1, <2>4 DEF RecibirContexto, rvars
<1>2. CASE MemoriaResponde
  <2> DEFINE m == Head(canalMemoria)
             Pedidos == [tipo : {"cargar", "cargar_pagina", "liberar_paginas"}, pid : Pids]
  <2>1. m.pid \in Pids
    <3>1. canalMemoria \in Seq(Pedidos) /\ canalMemoria # <<>>
      BY <1>2, EfectoNulo DEF MemoriaResponde
    <3>2. m \in Pedidos
      <4> HIDE DEF Pedidos
      <4>1. QED
        BY <3>1
    <3>3. QED
      BY <3>2
  <2>2. /\ Simple("push_colaLargo", m.pid) \in Normales
        /\ Simple("borrar_proceso", m.pid) \in Normales
        /\ Simple("despertar_largo", 0) \in Normales /\ sem_post("procesoCargado") \in Normales
    BY <2>1, OpsNormales, OpsSimplesNormales DEF Semaforos
  <2>3. /\ <<Simple("push_colaLargo", m.pid), Simple("despertar_largo", 0),
              sem_post("procesoCargado")>> \in Seq(Normales)
        /\ <<Simple("borrar_proceso", m.pid), sem_post("procesoCargado")>> \in Seq(Normales)
    BY <2>2, ListaDeDos, ListaDeTres
  <2>4. \/ hilo' = [hilo EXCEPT !["memoria"] =
               <<Simple("push_colaLargo", m.pid), Simple("despertar_largo", 0),
                 sem_post("procesoCargado")>>]
        \/ hilo' = [hilo EXCEPT !["memoria"] =
               <<Simple("borrar_proceso", m.pid), sem_post("procesoCargado")>>]
        \/ UNCHANGED hilo
    BY <1>2 DEF MemoriaResponde
  <2> HIDE DEF m
  <2>5. \A k \in Hilos : hilo'[k] = hilo[k] \/ hilo'[k] \in Seq(Normales)
    BY <2>3, <2>4, EfectoNulo
  <2>6. QED
    BY <1>2, <2>5 DEF MemoriaResponde, rvars
<1>3. CASE planificador_largo
  BY <1>3 DEF planificador_largo, LargoDespierta, LargoToma, LargoAdmite, LargoCuenta, LargoTermina,
              FijoEnLargo, rvars
<1>4. CASE planificador_corto
  BY <1>4 DEF planificador_corto, CortoDespierta, CortoOrdena, CortoMira, CortoCompara,
              CortoDesalojado, CortoToma, CortoMarca, CortoOcupa, CortoEnvia, FijoEnCorto
<1>5. ASSUME NEW p \in Pids, clock_rr(p)
      PROVE  UNCHANGED hilo /\ UNCHANGED <<colaEspera, tenencia>>
  BY <1>5 DEF clock_rr, rvars
<1>6. CASE iniciar_proceso
  <2>1. <<sem_wait("procesoCargado")>> \in Seq(Normales)
    <3>1. creados + 1 \in Pids
      BY <1>6 DEF iniciar_proceso
    <3>2. QED
      BY <3>1, OpsNormales, ListaDeUna DEF Semaforos
  <2>2. \A k \in Hilos : hilo'[k] = hilo[k] \/ hilo'[k] \in Seq(Normales)
    BY <1>6, <2>1, EfectoNulo DEF iniciar_proceso
  <2>3. QED
    BY <1>6, <2>2 DEF iniciar_proceso, FijoEnConsola, rvars
<1>7. ASSUME NEW p \in Pids, finalizar_proceso(p)
      PROVE  /\ \A k \in Hilos : hilo'[k] = hilo[k] \/ hilo'[k] \in Seq(Normales)
             /\ UNCHANGED <<colaEspera, tenencia>>
  <2>1. <<salida(p, "SIGKILL")>> \in Seq(Normales)
    BY OpsNormales, ListaDeUna
  <2>2. \A k \in Hilos : hilo'[k] = hilo[k] \/ hilo'[k] \in Seq(Normales)
    BY <1>7, <2>1, EfectoNulo DEF finalizar_proceso
  <2>3. QED
    BY <1>7, <2>2 DEF finalizar_proceso, FijoEnConsola, rvars
<1>8. CASE \/ detener_planificacion \/ iniciar_planificacion
           \/ \E g \in Grados : multiprogramacion(g)
  BY <1>8 DEF detener_planificacion, iniciar_planificacion, multiprogramacion, FijoEnConsola, rvars
<1>9. CASE CPUPaso \/ UNCHANGED pvars
  BY <1>9 DEF CPUPaso, pvars, kernel, rvars
<1>10. QED
  BY <1>1, <1>2, <1>3, <1>4, <1>5, <1>6, <1>7, <1>8, <1>9 DEF PNext, hilo_consola

(* Whatever the algorithm and whoever is killed, the Kernel hangs in the   *)
(* search for deadlocks only around a cycle of waits that the process it   *)
(* began with is not on, and the waits stay as they were when it hung.     *)
THEOREM PCuelgue == PSpec => []CuelgueJustificado
<1>1. PInit => SoloCabeza /\ CuelgueJustificado
  BY DEF PInit, SoloCabeza, CuelgueJustificado
<1>2. PTypeOK /\ PTypeOK' /\ SoloCabeza /\ CuelgueJustificado /\ [PNext]_pvars =>
        (SoloCabeza /\ CuelgueJustificado)'
  <2> SUFFICES ASSUME PTypeOK, PTypeOK', SoloCabeza, CuelgueJustificado, [PNext]_pvars
               PROVE  (SoloCabeza /\ CuelgueJustificado)'
    OBVIOUS
  <2>1. ASSUME NEW h \in Hilos, DetectarDeadlock(h)
        PROVE  (SoloCabeza /\ CuelgueJustificado)'
    BY <2>1, DetectarJustifica
  <2>2. ASSUME NEW h \in Hilos, Llamada(h), ~DetectarDeadlock(h)
        PROVE  (SoloCabeza /\ CuelgueJustificado)'
    BY <2>2, LlamadaSinCuelgue, CuelgueQuieto
  <2>3. CASE \A h \in Hilos : ~Llamada(h)
    BY <2>3, RestoSinCuelgue, CuelgueQuieto
  <2>4. QED
    BY <2>1, <2>2, <2>3
<1>3. QED
  BY <1>1, <1>2, PTipo, PTL DEF PSpec
=============================================================================
