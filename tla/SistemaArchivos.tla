--------------------------- MODULE SistemaArchivos ---------------------------
(***************************************************************************)
(* What the FileSystem promises: each file keeps its blocks, in order, and *)
(* what was last written in them, whatever is done to the other files.  A  *)
(* request that is asked is done at once, or lost without effect.  The     *)
(* promise ends with `danio`, for which FAT gives the cases: among them, a *)
(* FileSystem that runs out of blocks or that stops while it shrinks a     *)
(* file.                                                                   *)
(***************************************************************************)
EXTENDS Integers, Sequences

CONSTANTS
  Archivos,
  Valores,   \* what a block may hold
  Nada       \* no request

VARIABLES
  creados,     \* files that exist
  contenido,   \* of each file, the sequence of its blocks
  pedido,      \* the request being served: [op, archivo, n, dato], or Nada
  leido,       \* what the last read gave
  danio        \* the promise no longer holds

svars == <<creados, contenido, pedido, leido, danio>>

SInit ==
  /\ creados = {}
  /\ contenido = [f \in Archivos |-> <<>>]
  /\ pedido = Nada
  /\ leido \in Valores
  /\ danio = FALSE

Pedir == pedido = Nada /\ UNCHANGED <<creados, contenido, leido>>

Atender(op) == pedido # Nada /\ pedido.op = op /\ pedido' = Nada

Abrir ==
  /\ Atender("f_open")
  /\ creados' = creados \cup {pedido.archivo}
  /\ UNCHANGED <<contenido, leido>>

(* The file has n blocks; those it had before keep what they hold.         *)
Truncar ==
  LET f == pedido.archivo
  IN
  /\ Atender("f_truncate") /\ f \in creados
  /\ Len(contenido'[f]) = pedido.n
  /\ \A n \in 1..Len(contenido[f]) : n <= pedido.n => contenido'[f][n] = contenido[f][n]
  /\ \A g \in Archivos \ {f} : contenido'[g] = contenido[g]
  /\ UNCHANGED <<creados, leido>>

Leer ==
  /\ Atender("f_read")
  /\ pedido.n < Len(contenido[pedido.archivo])
  /\ leido' = contenido[pedido.archivo][pedido.n + 1]
  /\ UNCHANGED <<creados, contenido>>

Escribir ==
  /\ Atender("f_write")
  /\ pedido.n < Len(contenido[pedido.archivo])
  /\ contenido' = [contenido EXCEPT ![pedido.archivo][pedido.n + 1] = pedido.dato]
  /\ UNCHANGED <<creados, leido>>

Perder == pedido # Nada /\ pedido' = Nada /\ UNCHANGED <<creados, contenido, leido>>

SNext ==
  \/ danio' = TRUE
  \/ UNCHANGED danio /\ (Pedir \/ Abrir \/ Truncar \/ Leer \/ Escribir \/ Perder)

SSpec == SInit /\ [][SNext]_svars
=============================================================================
