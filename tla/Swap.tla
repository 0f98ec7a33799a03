-------------------------------- MODULE Swap --------------------------------
(***************************************************************************)
(* The swap partition of the FileSystem and the socket that joins it to    *)
(* Memoria.  A block of swap holds one page and is named by its index,     *)
(* posSWAP / tamBloque.                                                    *)
(***************************************************************************)
EXTENDS Generales

CONSTANTS
  Valores,          \* what a page may hold
  ValorInicial,     \* ... and reservar_SWAP leaves in a block
  CantPaginas,      \* pages of each process
  CantBloquesSWAP   \* CANT_BLOQUES_SWAP

ASSUME SwapAssumption ==
  /\ ValorInicial \in Valores
  /\ CantPaginas \in [Pids -> Nat]
  /\ CantBloquesSWAP \in Nat \ {0}

Paginas == UNION {{p} \X (0..(CantPaginas[p] - 1)) : p \in Pids}
PaginasDe(p) == {g \in Paginas : g[1] = p}
BloquesSWAP == 0..(CantBloquesSWAP - 1)

VARIABLES
  tablaSWAP,   \* blocks in use
  swap,        \* contents of each block
  aFS,         \* messages from Memoria to the FileSystem, in order
  aMem         \* ... and back

(* The FileSystem's next message from Memoria is of this type.             *)
LlegaFS(tipo) == aFS # <<>> /\ Head(aFS).tipo = tipo

Responder(mensaje) ==
  /\ aFS' = Tail(aFS)
  /\ aMem' = Append(aMem, mensaje)

LibresSWAP == BloquesSWAP \ tablaSWAP

(* Bug: a block in use is handed again.                                    *)
Reserva_SinMirar(pos, cant) ==
  /\ Len(pos) = cant
  /\ \A i \in 1..Len(pos) : pos[i] = i - 1

(* pos is what the scan of tablaSWAP for cant blocks collects: the first   *)
(* free ones, in order, fewer when they run out.                           *)
Reserva(pos, cant) ==
  /\ \A i \in 1..Len(pos) : pos[i] \in LibresSWAP
  /\ \A i, j \in 1..Len(pos) : i < j => pos[i] < pos[j]
  /\ \A b \in LibresSWAP :
       \/ \E i \in 1..Len(pos) : pos[i] = b
       \/ Len(pos) = cant /\ \A i \in 1..Len(pos) : pos[i] < b

(* The answer announces as many blocks as were asked for.                  *)
reservar_SWAP ==
  /\ LlegaFS("reservarSWAP")
  /\ LET p == Head(aFS).pid
         cant == CantPaginas[p]
     IN  \E largo \in 0..cant : \E pos \in [1..largo -> BloquesSWAP] :
           LET dados == {pos[i] : i \in 1..largo}
           IN  /\ Reserva(pos, cant)
               /\ tablaSWAP' = tablaSWAP \cup dados
               /\ swap' = [b \in BloquesSWAP |->
                             IF b \in dados THEN ValorInicial ELSE swap[b]]
               /\ Responder([tipo |-> "bloquesSwap", pid |-> p, pos |-> pos])

escribir_pagina_swap ==
  /\ LlegaFS("escribirSwap")
  /\ swap' = [swap EXCEPT ![Head(aFS).pos] = Head(aFS).dato]
  /\ Responder([tipo |-> "escribirSwap"])
  /\ UNCHANGED tablaSWAP

obtener_pagina_swap ==
  /\ LlegaFS("paginaSWAP")
  /\ Responder([tipo |-> "paginaSWAP", pag |-> Head(aFS).pag, dato |-> swap[Head(aFS).pos]])
  /\ UNCHANGED <<tablaSWAP, swap>>

liberar_swap ==
  /\ LlegaFS("liberar_swap")
  /\ tablaSWAP' = tablaSWAP \ Head(aFS).pos
  /\ Responder([tipo |-> "liberar_swap"])
  /\ UNCHANGED swap
=============================================================================
