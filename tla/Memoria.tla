------------------------------- MODULE Memoria ------------------------------
(***************************************************************************)
(* The user space of Memoria: frames, page tables, replacement and the     *)
(* exchange of pages with the swap partition.  Three threads share it, one *)
(* per connection: the Kernel's (loads, page faults, ends), the CPU's      *)
(* (translations and accesses) and the FileSystem's (answers about swap,   *)
(* and the blocks of F_READ and F_WRITE).  The CPU and the Kernel are here *)
(* as far as they decide what is asked: a process translates an address    *)
(* and uses it in a later request.                                         *)
(***************************************************************************)
EXTENDS Swap

CONSTANTS
  CantMarcos,     \* tamMemoria / tamPagina
  Reemplazos,     \* values of ALGORITMO_REEMPLAZO
  MaxArchivos,    \* bound: F_READs and F_WRITEs
  BloqueFD        \* swap block that the number of the socket falls in, taken as a position

ASSUME MemoriaAssumption ==
  /\ CantMarcos \in Nat \ {0}
  /\ Reemplazos \subseteq {"FIFO", "LRU"}
  /\ MaxArchivos \in Nat /\ BloqueFD \in BloquesSWAP

Marcos == 0..(CantMarcos - 1)
Nulo   == <<>>
EsperasSwap == {"bloquesSwap", "escribirSwap", "paginaSWAP", "liberar_swap"}

VARIABLES
  tablaProcesos,       \* processes with a page table
  posSWAP,             \* of each page
  modificadas,         \* pages with m = 1
  marcoDe,             \* frame of each page with p = 1, -1 of the others
  libres,              \* frames with libre = true
  inversa,             \* tablapaginasGlobales: page that took each frame last
  tiempo,              \* the frames, from the one used longest ago to the last used
  marcoFIFO,           \* next frame FIFO chooses
  ram,                 \* contents of each frame
  algoritmoReemplazo,
  kernel,              \* what the Kernel's thread waits for, or "libre"
  pedida,              \* page it attends (of a process: its page 0)
  victima,             \* page whose mutex it holds, or Nulo
  semaforos,           \* tokens of the semaphores it waits on
  hiloFS,              \* frame the FileSystem's thread has still to mark and why, or Nulo
  hiloCPU,             \* frame the CPU's thread has still to mark, or -1
  (* Outside Memoria *)
  hace,                \* what each process does
  direccion,           \* its translated address, or Nulo
  pedidos,             \* page faults of the Kernel not attended yet
  espera,              \* the answer the Kernel's thread of each process waits for, or "nada"
  aArchivos,           \* requests of the Kernel to the FileSystem, in order
  enviados,            \* ... and how many there have been
  archivo,             \* the one it attends, or Nulo
  (* History *)
  llegada,             \* the frames, from the one taken longest ago to the last taken
  escrito,             \* what each page was last given to hold
  danio                \* something went wrong: nothing is promised any more

swapvars    == <<tablaSWAP, swap, aFS, aMem>>
tablas      == <<tablaProcesos, posSWAP, modificadas, marcoDe>>
marcos      == <<libres, inversa, marcoFIFO, llegada, algoritmoReemplazo>>
hiloKernel  == <<kernel, pedida, victima>>
externas    == <<pedidos, espera, aArchivos, enviados, archivo>>
mvars == <<swapvars, tablas, marcos, tiempo, ram, hiloKernel, semaforos, hiloFS, hiloCPU,
           hace, direccion, externas, escrito, danio>>

MInit ==
  /\ tablaSWAP = {} /\ swap \in [BloquesSWAP -> {ValorInicial}] /\ aFS = <<>> /\ aMem = <<>>
  /\ tablaProcesos = {} /\ posSWAP = [g \in Paginas |-> 0]
  /\ modificadas = {} /\ marcoDe = [g \in Paginas |-> -1]
  /\ libres = Marcos /\ inversa = [k \in Marcos |-> Nulo] /\ marcoFIFO = 0
  /\ tiempo = [i \in 1..CantMarcos |-> i - 1] /\ llegada = tiempo
  /\ ram = [k \in Marcos |-> ValorInicial]
  /\ algoritmoReemplazo \in Reemplazos
  /\ kernel = "libre" /\ pedida = Nulo /\ victima = Nulo
  /\ semaforos = [s \in EsperasSwap |-> 0]
  /\ hiloFS = Nulo /\ hiloCPU = -1
  /\ hace = [p \in Pids |-> "nada"] /\ direccion = [p \in Pids |-> Nulo]
  /\ pedidos = [g \in Paginas |-> 0] /\ espera = [p \in Pids |-> "nada"]
  /\ aArchivos = <<>> /\ archivo = Nulo
  /\ enviados = 0 /\ escrito = [g \in Paginas |-> ValorInicial] /\ danio = FALSE

-----------------------------------------------------------------------------
presentes == {g \in Paginas : marcoDe[g] # -1}

(* The frames in order, with k at the end.                                 *)
AlFinal(k, orden) ==
  LET i == CHOOSE j \in 1..CantMarcos : orden[j] = k
  IN  [j \in 1..CantMarcos |->
         IF j < i THEN orden[j] ELSE IF j < CantMarcos THEN orden[j + 1] ELSE k]

(* Only LRU reads the timers.                                              *)
Usado(k) == IF algoritmoReemplazo = "LRU" THEN AlFinal(k, tiempo) ELSE tiempo

(* The mutex of the page is free: page_fault holds its victim's.           *)
SinMutex(g) == g # victima
Enviar(mensaje) == aFS' = Append(aFS, mensaje)

(* What is in the page's frame is the page.                                *)
Cargada(g) == g \in presentes /\ ~(kernel = "paginaSWAP" /\ pedida = g)

(* The translated address d still leads to its page; to write there, the   *)
(* page must not be on its way out either.                                 *)
Vigente(d) == Cargada(d.pag) /\ marcoDe[d.pag] = d.marco
VigenteParaEscribir(d) == Vigente(d) /\ d.pag # victima

(* What is lost when an address is used: the promise, unless it is good,   *)
(* and unless the bytes it stands for end within its frame.  Nothing checks*)
(* that they do: an address off the start of a page makes a block of a file*)
(* run over into the next frame.                                           *)
UsarDireccion(buena) == danio' \in {~buena, TRUE}

(* An answer posts a semaphore that is shared: any of the Kernel's threads *)
(* that wait on it goes on and makes its process READY, even if it ended.  *)
Despertar(respuesta) ==
  \E p \in Pids :
    /\ espera[p] = respuesta
    /\ espera' = [espera EXCEPT ![p] = "nada"]
    /\ hace' = [hace EXCEPT ![p] = "listo"]

-----------------------------------------------------------------------------
(* The Kernel's thread.  It waits in the middle of each request for the    *)
(* FileSystem's answer.                                                    *)
crear_proceso(p) ==
  /\ kernel = "libre" /\ hace[p] = "nada" /\ \A q \in 1..(p - 1) : hace[q] # "nada"
  /\ tablaProcesos' = tablaProcesos \cup {p}
  /\ Enviar([tipo |-> "reservarSWAP", pid |-> p])
  /\ kernel' = "bloquesSwap" /\ pedida' = <<p, 0>>
  /\ hace' = [hace EXCEPT ![p] = "carga"]
  /\ UNCHANGED <<tablaSWAP, swap, aMem, posSWAP, modificadas, marcoDe, marcos, tiempo,
                 ram, victima, semaforos, hiloFS, hiloCPU, direccion, externas, escrito, danio>>

Retoma(tipo) ==
  /\ kernel = tipo /\ semaforos[tipo] > 0
  /\ semaforos' = [semaforos EXCEPT ![tipo] = @ - 1]

cargado ==
  /\ Retoma("bloquesSwap")
  /\ kernel' = "libre" /\ pedida' = Nulo
  /\ hace' = [hace EXCEPT ![pedida[1]] = "listo"]
  /\ UNCHANGED <<swapvars, tablas, marcos, tiempo, ram, victima, hiloFS, hiloCPU, direccion,
                 externas, escrito, danio>>

(* Bug: the frames of the process are not freed.                           *)
MarcosDe_Ninguno(p) == {}

MarcosDe(p) == {marcoDe[g] : g \in PaginasDe(p) \cap presentes}

(* A process ends: by itself from the CPU's queues, or killed while it     *)
(* waits.  Its table leaves the dictionary, the FileSystem is told and its *)
(* frames and pages are freed, in one step.                                *)
finalizar_proceso(p) ==
  /\ kernel = "libre" /\ p \in tablaProcesos /\ hace[p] \in {"listo", "bloqueado"}
  /\ tablaProcesos' = tablaProcesos \ {p}
  /\ Enviar([tipo |-> "liberar_swap", pos |-> {posSWAP[g] : g \in PaginasDe(p)}])
  /\ libres' = libres \cup MarcosDe(p)
  /\ marcoDe' = [g \in Paginas |-> IF g[1] = p THEN -1 ELSE marcoDe[g]]
  /\ posSWAP' = [g \in Paginas |-> IF g[1] = p THEN 0 ELSE posSWAP[g]]
  /\ modificadas' = modificadas \ PaginasDe(p)
  /\ escrito' = [g \in Paginas |-> IF g[1] = p THEN ValorInicial ELSE escrito[g]]
  /\ kernel' = "liberar_swap" /\ pedida' = <<p, 0>>
  /\ hace' = [hace EXCEPT ![p] = "fin"]
  /\ UNCHANGED <<tablaSWAP, swap, aMem, inversa, marcoFIFO, llegada,
                 algoritmoReemplazo, tiempo, ram, victima, semaforos, hiloFS, hiloCPU, direccion,
                 externas, danio>>

procesoFinalizado ==
  /\ Retoma("liberar_swap")
  /\ kernel' = "libre" /\ pedida' = Nulo
  /\ UNCHANGED <<swapvars, tablas, marcos, tiempo, ram, victima, hiloFS, hiloCPU, hace, direccion,
                 externas, escrito, danio>>

-----------------------------------------------------------------------------
(* page_fault of g.  The page takes frame k, in place of the pages in fuera*)
(* and is asked of the FileSystem.                                         *)
Ocupar(g, k, fuera) ==
  /\ libres' = libres \ {k}
  /\ marcoDe' = [h \in Paginas |-> IF h = g THEN k ELSE IF h \in fuera THEN -1 ELSE marcoDe[h]]
  /\ modificadas' = modificadas \ fuera
  /\ inversa' = [inversa EXCEPT ![k] = g]
  /\ tiempo' = Usado(k)
  /\ llegada' = IF algoritmoReemplazo = "FIFO" THEN AlFinal(k, llegada) ELSE llegada
  /\ Enviar([tipo |-> "paginaSWAP", pos |-> posSWAP[g], pag |-> g])
  /\ kernel' = "paginaSWAP" /\ pedida' = g /\ victima' = Nulo

(* Bug: FIFO does not go on to the next frame.                             *)
MarcoVictima_Mismo == IF algoritmoReemplazo = "FIFO" THEN 0 ELSE tiempo[1]

MarcoVictima == IF algoritmoReemplazo = "FIFO" THEN marcoFIFO ELSE tiempo[1]

(* Bug: the round is one frame too long.                                   *)
SiguienteFIFO_Pasada == IF marcoFIFO = CantMarcos THEN 0 ELSE marcoFIFO + 1

SiguienteFIFO == IF marcoFIFO = CantMarcos - 1 THEN 0 ELSE marcoFIFO + 1

(* The Kernel's thread takes the request.  A page whose process has no     *)
(* table, g's or the victim's, ends Memoria (pagina_get reads a NULL list);*)
(* a page that is loaded already is loaded again.                          *)
AtenderFalla(g) ==
  /\ kernel = "libre" /\ pedidos[g] > 0
  /\ pedidos' = [pedidos EXCEPT ![g] = @ - 1]

FallaSinTabla(g) ==
  /\ AtenderFalla(g)
  /\ \/ g[1] \notin tablaProcesos
     \/ libres = {} /\ inversa[MarcoVictima][1] \notin tablaProcesos
  /\ danio' = TRUE
  /\ UNCHANGED <<swapvars, tablas, marcos, tiempo, ram, hiloKernel, semaforos, hiloFS, hiloCPU,
                 hace, direccion, espera, aArchivos, enviados, archivo, escrito>>

FallaConMarcoLibre(g) ==
  /\ AtenderFalla(g) /\ g[1] \in tablaProcesos /\ libres # {}
  /\ \E k \in libres : (\A j \in libres : k <= j) /\ Ocupar(g, k, {})
  /\ danio' = (g \in presentes)
  /\ UNCHANGED <<tablaSWAP, swap, aMem, tablaProcesos, posSWAP, marcoFIFO, algoritmoReemplazo, ram,
                 semaforos, hiloFS, hiloCPU, hace, direccion, espera, aArchivos, enviados, archivo, escrito>>

(* The victim is written if it was modified.  Its mutex is held meanwhile. *)
FallaConVictima(g) ==
  LET v == inversa[MarcoVictima]
      k == marcoDe[v]
  IN
  /\ AtenderFalla(g) /\ libres = {}
  /\ {g[1], inversa[MarcoVictima][1]} \subseteq tablaProcesos
  /\ IF algoritmoReemplazo = "FIFO"
     THEN marcoFIFO' = SiguienteFIFO ELSE UNCHANGED marcoFIFO
  /\ IF v \in modificadas
     THEN /\ Enviar([tipo |-> "escribirSwap", pos |-> posSWAP[v], dato |-> ram[k]])
          /\ kernel' = "escribirSwap" /\ pedida' = g /\ victima' = v
          /\ UNCHANGED <<libres, marcoDe, modificadas, inversa, tiempo, llegada>>
     ELSE Ocupar(g, k, {v})
  /\ danio' = (g \in presentes)
  /\ UNCHANGED <<tablaSWAP, swap, aMem, tablaProcesos, posSWAP, algoritmoReemplazo, ram, semaforos,
                 hiloFS, hiloCPU, hace, direccion, espera, aArchivos, enviados, archivo, escrito>>

VictimaGuardada ==
  /\ Retoma("escribirSwap")
  /\ Ocupar(pedida, marcoDe[victima], {victima})
  /\ UNCHANGED <<tablaSWAP, swap, aMem, tablaProcesos, posSWAP, marcoFIFO, algoritmoReemplazo, ram,
                 hiloFS, hiloCPU, hace, direccion, externas, escrito, danio>>

(* The Kernel posts paginaCargada: any of the threads that wait goes on.   *)
paginaCargada ==
  /\ Retoma("paginaSWAP")
  /\ kernel' = "libre" /\ pedida' = Nulo
  /\ Despertar("paginaCargada")
  /\ UNCHANGED <<swapvars, tablas, marcos, tiempo, ram, victima, hiloFS, hiloCPU, direccion,
                 pedidos, aArchivos, enviados, archivo, escrito, danio>>

-----------------------------------------------------------------------------
(* The CPU's thread.  The CPU runs one process at a time, and asks for the *)
(* frame of a page before each access.                                     *)
CPUDesocupada == hiloCPU = -1 /\ \A q \in Pids : hace[q] # "usa"

Traducir(p, g) == CPUDesocupada /\ hace[p] = "listo"

TraducirSinTabla(p, g) ==
  /\ Traducir(p, g) /\ p \notin tablaProcesos
  /\ danio' = TRUE
  /\ UNCHANGED <<swapvars, tablas, marcos, tiempo, ram, hiloKernel, semaforos, hiloFS, hiloCPU,
                 hace, direccion, externas, escrito>>

TraducirPresente(p, g) ==
  /\ Traducir(p, g) /\ p \in tablaProcesos /\ SinMutex(g) /\ g \in presentes
  /\ direccion' = [direccion EXCEPT ![p] = [pag |-> g, marco |-> marcoDe[g]]]
  /\ tiempo' = Usado(marcoDe[g])
  /\ hace' = [hace EXCEPT ![p] = "usa"]
  /\ UNCHANGED <<swapvars, tablas, marcos, ram, hiloKernel, semaforos, hiloFS, hiloCPU, externas,
                 escrito, danio>>

(* The CPU sends the process back, and a thread of the Kernel asks for the *)
(* page.                                                                   *)
TraducirAusente(p, g) ==
  /\ Traducir(p, g) /\ p \in tablaProcesos /\ SinMutex(g) /\ g \notin presentes
  /\ hace' = [hace EXCEPT ![p] = "bloqueado"]
  /\ pedidos' = [pedidos EXCEPT ![g] = @ + 1]
  /\ espera' = [espera EXCEPT ![p] = "paginaCargada"]
  /\ UNCHANGED <<swapvars, tablas, marcos, tiempo, ram, hiloKernel, semaforos, hiloFS, hiloCPU,
                 direccion, aArchivos, enviados, archivo, escrito, danio>>

mov_in(p) ==
  /\ hace[p] = "usa" /\ hiloCPU = -1
  /\ UsarDireccion(Vigente(direccion[p]))
  /\ hace' = [hace EXCEPT ![p] = "listo"]
  /\ direccion' = [direccion EXCEPT ![p] = Nulo]
  /\ UNCHANGED <<swapvars, tablas, marcos, tiempo, ram, hiloKernel, semaforos, hiloFS, hiloCPU,
                 externas, escrito>>

(* set_dato writes the frame first, and then marks the page that has it.   *)
EscribirMarco(d, v) ==
  /\ ram' = [ram EXCEPT ![d.marco] = v]
  /\ escrito' = [escrito EXCEPT ![d.pag] = v]
  /\ UsarDireccion(VigenteParaEscribir(d))

mov_out(p, v) ==
  /\ hace[p] = "usa" /\ hiloCPU = -1
  /\ EscribirMarco(direccion[p], v)
  /\ hiloCPU' = direccion[p].marco
  /\ direccion' = [direccion EXCEPT ![p] = Nulo]
  /\ UNCHANGED <<swapvars, tablas, marcos, tiempo, hiloKernel, semaforos, hiloFS, hace, externas>>

Marcable(k) == inversa[k] # Nulo /\ inversa[k][1] \in tablaProcesos

(* Bug: the page is not marked.                                            *)
Marcar_Nada(k) == SinMutex(inversa[k]) /\ Marcable(k) /\ UNCHANGED modificadas

(* It waits for the page's mutex.                                          *)
Marcar(k) ==
  /\ Marcable(k) /\ SinMutex(inversa[k])
  /\ modificadas' = modificadas \cup {inversa[k]}

movido_out(p) ==
  /\ hace[p] = "usa" /\ hiloCPU # -1
  /\ Marcar(hiloCPU)
  /\ hiloCPU' = -1
  /\ hace' = [hace EXCEPT ![p] = "listo"]
  /\ UNCHANGED <<swapvars, tablaProcesos, posSWAP, marcoDe, marcos, tiempo, ram,
                 hiloKernel, semaforos, hiloFS, direccion, externas, escrito, danio>>

(* F_READ or F_WRITE with the translated address: the process leaves the   *)
(* CPU and the Kernel asks the FileSystem.                                 *)
PedirArchivo(p, op) ==
  /\ hace[p] = "usa" /\ hiloCPU = -1
  /\ enviados < MaxArchivos /\ enviados' = enviados + 1
  /\ aArchivos' = Append(aArchivos, [op |-> op, dir |-> direccion[p]])
  /\ hace' = [hace EXCEPT ![p] = "bloqueado"]
  /\ espera' = [espera EXCEPT ![p] = op]
  /\ direccion' = [direccion EXCEPT ![p] = Nulo]
  /\ UNCHANGED <<swapvars, tablas, marcos, tiempo, ram, hiloKernel, semaforos, hiloFS, hiloCPU,
                 pedidos, archivo, escrito, danio>>

-----------------------------------------------------------------------------
(* The FileSystem's connection with the Kernel: it sends the block it read,*)
(* or asks Memoria for the one to write, and waits.                        *)
AtenderArchivo(v) ==
  /\ archivo = Nulo /\ aArchivos # <<>>
  /\ archivo' = Head(aArchivos) /\ aArchivos' = Tail(aArchivos)
  /\ aMem' = Append(aMem, [tipo |-> Head(aArchivos).op, dir |-> Head(aArchivos).dir,
                           dato |-> IF Head(aArchivos).op = "f_read" THEN v ELSE ValorInicial])
  /\ UNCHANGED <<tablaSWAP, swap, aFS, tablas, marcos, tiempo, ram, hiloKernel, semaforos, hiloFS,
                 hiloCPU, hace, direccion, pedidos, espera, enviados, escrito, danio>>

ArchivoAtendido ==
  /\ LlegaFS("valid_read") \/ LlegaFS("datos_memoria")
  /\ aFS' = Tail(aFS)
  /\ archivo' = Nulo
  /\ Despertar(archivo.op)
  /\ UNCHANGED <<tablaSWAP, swap, aMem, tablas, marcos, tiempo, ram, hiloKernel, semaforos, hiloFS,
                 hiloCPU, direccion, pedidos, aArchivos, enviados, escrito, danio>>

(* The FileSystem's connection with Memoria.                               *)
AtenderSwap ==
  /\ reservar_SWAP \/ escribir_pagina_swap \/ obtener_pagina_swap \/ liberar_swap
  /\ UNCHANGED <<tablas, marcos, tiempo, ram, hiloKernel, semaforos, hiloFS, hiloCPU, hace,
                 direccion, externas, escrito, danio>>

-----------------------------------------------------------------------------
(* The FileSystem's thread of Memoria.                                     *)
LlegaMem(tipo) == hiloFS = Nulo /\ aMem # <<>> /\ Head(aMem).tipo = tipo
Avisar(s) == semaforos' = [semaforos EXCEPT ![s] = @ + 1]

(* The positions come before the number of the socket: a page too many     *)
(* takes that number for its position, and the next one reads NULL.        *)
asignar_swap ==
  LET mensaje == Head(aMem)
      largo == Len(mensaje.pos)
      faltan == CantPaginas[mensaje.pid] - largo
  IN
  /\ LlegaMem("bloquesSwap")
  /\ aMem' = Tail(aMem)
  /\ posSWAP' = [g \in Paginas |->
                   IF g[1] # mensaje.pid THEN posSWAP[g]
                   ELSE IF g[2] < largo THEN mensaje.pos[g[2] + 1]
                   ELSE IF g[2] = largo THEN BloqueFD ELSE posSWAP[g]]
  /\ danio' = (faltan > 0)
  /\ Avisar("bloquesSwap")
  /\ UNCHANGED <<tablaSWAP, swap, aFS, tablaProcesos, modificadas, marcoDe, marcos,
                 tiempo, ram, hiloKernel, hiloFS, hiloCPU, hace, direccion, externas, escrito>>

RespuestaDeSwap(tipo) ==
  /\ LlegaMem(tipo)
  /\ aMem' = Tail(aMem)
  /\ Avisar(tipo)
  /\ UNCHANGED <<tablaSWAP, swap, aFS, tablas, marcos, tiempo, ram, hiloKernel, hiloFS, hiloCPU,
                 hace, direccion, externas, escrito, danio>>

cargar_pagina_swap ==
  LET k == marcoDe[Head(aMem).pag]
  IN
  /\ LlegaMem("paginaSWAP")
  /\ aMem' = Tail(aMem)
  /\ ram' = [ram EXCEPT ![k] = Head(aMem).dato]
  /\ hiloFS' = [marco |-> k, para |-> "paginaSWAP"]
  /\ UNCHANGED <<tablaSWAP, swap, aFS, tablas, marcos, tiempo, hiloKernel, semaforos, hiloCPU, hace,
                 direccion, externas, escrito, danio>>

recibir_datos_bloque ==
  /\ LlegaMem("f_read")
  /\ aMem' = Tail(aMem)
  /\ EscribirMarco(Head(aMem).dir, Head(aMem).dato)
  /\ hiloFS' = [marco |-> Head(aMem).dir.marco, para |-> "f_read"]
  /\ UNCHANGED <<tablaSWAP, swap, aFS, tablas, marcos, tiempo, hiloKernel, semaforos, hiloCPU, hace,
                 direccion, externas>>

enviar_datos_bloque ==
  LET d == Head(aMem).dir
  IN
  /\ LlegaMem("f_write")
  /\ aMem' = Tail(aMem)
  /\ UsarDireccion(Vigente(d))
  /\ Enviar([tipo |-> "datos_memoria"])
  /\ UNCHANGED <<tablaSWAP, swap, tablas, marcos, tiempo, ram, hiloKernel, semaforos, hiloFS,
                 hiloCPU, hace, direccion, externas, escrito>>

BloqueMarcado ==
  /\ hiloFS # Nulo
  /\ Marcar(hiloFS.marco)
  /\ hiloFS' = Nulo
  /\ IF hiloFS.para = "paginaSWAP"
     THEN Avisar("paginaSWAP") /\ UNCHANGED aFS
     ELSE Enviar([tipo |-> "valid_read"]) /\ UNCHANGED semaforos
  /\ UNCHANGED <<tablaSWAP, swap, aMem, tablaProcesos, posSWAP, marcoDe, marcos, tiempo,
                 ram, hiloKernel, hiloCPU, hace, direccion, externas, escrito, danio>>

(* Either thread marks a frame whose page's process has ended.             *)
MarcarSinTabla ==
  /\ \/ hiloFS # Nulo /\ ~Marcable(hiloFS.marco)
     \/ hiloCPU # -1 /\ ~Marcable(hiloCPU)
  /\ danio' = TRUE
  /\ UNCHANGED <<swapvars, tablas, marcos, tiempo, ram, hiloKernel, semaforos, hiloFS, hiloCPU,
                 hace, direccion, externas, escrito>>

-----------------------------------------------------------------------------
AccionKernel ==
  \/ cargado \/ procesoFinalizado \/ VictimaGuardada \/ paginaCargada

Falla(g) == FallaSinTabla(g) \/ FallaConMarcoLibre(g) \/ FallaConVictima(g)

AccionCPU(p) ==
  \/ \E g \in PaginasDe(p) :
       TraducirSinTabla(p, g) \/ TraducirPresente(p, g) \/ TraducirAusente(p, g)
  \/ mov_in(p) \/ movido_out(p)
  \/ \E v \in Valores : mov_out(p, v)
  \/ \E op \in {"f_read", "f_write"} : PedirArchivo(p, op)

AccionFS == ArchivoAtendido \/ AtenderSwap

AccionHiloFS ==
  \/ asignar_swap \/ RespuestaDeSwap("escribirSwap") \/ RespuestaDeSwap("liberar_swap")
  \/ cargar_pagina_swap \/ recibir_datos_bloque \/ enviar_datos_bloque
  \/ BloqueMarcado \/ MarcarSinTabla

MNext ==
  /\ ~danio
  /\ \/ \E p \in Pids : crear_proceso(p) \/ finalizar_proceso(p) \/ AccionCPU(p)
     \/ \E g \in Paginas : Falla(g)
     \/ \E v \in Valores : AtenderArchivo(v)
     \/ AccionKernel \/ AccionFS \/ AccionHiloFS

MSpec == MInit /\ [][MNext]_mvars

MSpecJusta ==
  /\ MSpec
  /\ WF_mvars(~danio /\ AccionKernel) /\ WF_mvars(~danio /\ AccionFS)
  /\ WF_mvars(~danio /\ AccionHiloFS)
  /\ WF_mvars(~danio /\ \E v \in Valores : AtenderArchivo(v))
  /\ \A p \in Pids : WF_mvars(~danio /\ AccionCPU(p))
  /\ \A g \in Paginas : SF_mvars(~danio /\ Falla(g))

-----------------------------------------------------------------------------
Direcciones == [pag : Paginas, marco : Marcos]

MensajesFS ==
  [tipo : {"reservarSWAP"}, pid : Pids]
    \cup [tipo : {"escribirSwap"}, pos : BloquesSWAP, dato : Valores]
    \cup [tipo : {"paginaSWAP"}, pos : BloquesSWAP, pag : Paginas]
    \cup [tipo : {"liberar_swap"}, pos : SUBSET BloquesSWAP]
    \cup [tipo : {"datos_memoria", "valid_read"}]

MensajesMem ==
  [tipo : {"bloquesSwap"}, pid : Pids, pos : Seq(BloquesSWAP)]
    \cup [tipo : {"escribirSwap", "liberar_swap"}]
    \cup [tipo : {"paginaSWAP"}, pag : Paginas, dato : Valores]
    \cup [tipo : {"f_read", "f_write"}, dir : Direcciones, dato : Valores]

(* Every piece of state keeps its shape: addresses lead to frames there    *)
(* are, threads wait only for what the FileSystem answers.                 *)
MTypeOK ==
  /\ tablaSWAP \subseteq BloquesSWAP /\ swap \in [BloquesSWAP -> Valores]
  /\ aFS \in Seq(MensajesFS) /\ aMem \in Seq(MensajesMem)
  /\ tablaProcesos \subseteq Pids /\ posSWAP \in [Paginas -> BloquesSWAP]
  /\ modificadas \subseteq Paginas
  /\ marcoDe \in [Paginas -> Marcos \cup {-1}]
  /\ libres \subseteq Marcos /\ inversa \in [Marcos -> Paginas \cup {Nulo}]
  /\ {tiempo, llegada} \subseteq [1..CantMarcos -> Marcos]
  /\ marcoFIFO \in Marcos /\ ram \in [Marcos -> Valores]
  /\ algoritmoReemplazo \in {"FIFO", "LRU"}
  /\ kernel \in EsperasSwap \cup {"libre"}
  /\ pedida \in Paginas \cup (Pids \X {0}) \cup {Nulo} /\ victima \in Paginas \cup {Nulo}
  /\ semaforos \in [EsperasSwap -> Nat]
  /\ hiloFS \in [marco : Marcos, para : {"paginaSWAP", "f_read"}] \cup {Nulo}
  /\ hiloCPU \in Marcos \cup {-1}
  /\ hace \in [Pids -> {"nada", "carga", "listo", "usa", "bloqueado", "fin"}]
  /\ direccion \in [Pids -> Direcciones \cup {Nulo}]
  /\ pedidos \in [Paginas -> Nat]
  /\ espera \in [Pids -> {"paginaCargada", "f_read", "f_write", "nada"}]
  /\ aArchivos \in Seq([op : {"f_read", "f_write"}, dir : Direcciones])
  /\ archivo \in [op : {"f_read", "f_write"}, dir : Direcciones] \cup {Nulo}
  /\ enviados \in Nat /\ escrito \in [Paginas -> Valores]
  /\ danio \in BOOLEAN

(* Until something goes wrong (danio), the page tables, the frames and the *)
(* inverse table of frames agree: a frame in use has one page, of a process*)
(* that lives, and no page is thought to be in another's frame, whatever   *)
(* ends and whatever is replaced in the meantime (finalizar_proceso leaves *)
(* its entries in tablapaginasGlobales).                                   *)
Coherencia ==
  ~danio =>
    /\ \A g \in presentes :
         g[1] \in tablaProcesos /\ marcoDe[g] \in Marcos \ libres /\ inversa[marcoDe[g]] = g
    /\ \A k \in Marcos \ libres : inversa[k] \in presentes /\ marcoDe[inversa[k]] = k

Reservando(p) == kernel = "bloquesSwap" /\ pedida[1] = p
ConSwap == {g \in Paginas : g[1] \in tablaProcesos /\ ~Reservando(g[1])}

(* Until something goes wrong, no two pages share a block of swap; and once*)
(* a load or an end is answered, the blocks in use are exactly those of the*)
(* pages of the loaded processes: none is lost when a process ends.        *)
SwapPropia ==
  ~danio =>
    /\ \A g, h \in ConSwap : posSWAP[g] = posSWAP[h] => g = h
    /\ kernel \notin {"bloquesSwap", "liberar_swap"} =>
         tablaSWAP = {posSWAP[g] : g \in ConSwap}

(* FIFO takes the frame that was filled the longest ago, as long as no     *)
(* process has ended: marcoFIFO goes round the frames, and a frame that is *)
(* freed and filled again keeps its place in the round.                    *)
VictimaMasAntigua ==
  [][ (victima' # Nulo /\ victima = Nulo /\ algoritmoReemplazo = "FIFO"
         /\ ~danio /\ \A p \in Pids : hace[p] # "fin" /\ (hace[p] = "nada" <=> p \notin tablaProcesos))
      => victima' = inversa[llegada[1]] ]_mvars

(* What each page holds for its process: the frame if it is loaded, or else*)
(* its block of swap.                                                      *)
Contenido(g) == IF Cargada(g) THEN ram[marcoDe[g]] ELSE swap[posSWAP[g]]

(* Paging is invisible: until something goes wrong, each page of a loaded  *)
(* process holds what was last written to it, through any sequence of      *)
(* faults, replacements and ends of processes, with the page in RAM, in    *)
(* swap or on its way.                                                     *)
PaginasFieles == ~danio => \A g \in ConSwap : Contenido(g) = escrito[g]

(* "Guardar en bloques SWAP y luego continuar" (MemoriaUsuario.c:261): the *)
(* page fault that writes its victim goes on, unless something went wrong  *)
(* meanwhile, where these behaviours stop.                                 *)
GuardarYContinuar == (kernel = "escribirSwap") ~> (kernel # "escribirSwap" \/ danio)
=============================================================================
