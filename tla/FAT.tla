--------------------------------- MODULE FAT ---------------------------------
(***************************************************************************)
(* The files of the FileSystem: a FCB for each one with its size and its   *)
(* first block, a FAT that links the blocks, and the blocks, which follow  *)
(* those of the swap partition in the same file of blocks.  FCBs, FAT and  *)
(* blocks are on disk.  The thread that serves the Kernel does one request *)
(* at a time, in steps that each read or write the disk once; the program  *)
(* may stop between any two of them and be run again over the same disk.   *)
(* Sizes are multiples of TAM_BLOQUE and are counted in blocks.            *)
(***************************************************************************)
EXTENDS Integers, Sequences

CONSTANTS
  Archivos,          \* names of files
  Valores,           \* what a block may hold
  ValorInicial,      \* ... and holds at first
  CantBloquesFAT,    \* CANT_BLOQUES_TOTAL - CANT_BLOQUES_SWAP
  CantBloquesSWAP,   \* CANT_BLOQUES_SWAP
  Tamanios,          \* sizes given to F_TRUNCATE, in blocks
  Punteros,          \* pointers given to F_SEEK, in blocks
  MaxCaidas          \* bound: times the program stops

ASSUME FATAssumption ==
  /\ ValorInicial \in Valores
  /\ CantBloquesFAT \in Nat \ {0} /\ CantBloquesSWAP \in Nat \ {0}
  /\ \A t \in Tamanios : t \in Nat
  /\ \A p \in Punteros : p \in Nat
  /\ MaxCaidas \in Nat

EOF == -1              \* valor_EOF, UINT32_MAX
BloquesFAT == 1..(CantBloquesFAT - 1)   \* block 0 is never given
Disco == 0..(CantBloquesSWAP + CantBloquesFAT - 1)

SinFCB == -1           \* instead of a size: the file does not exist
FCBVacio == -2         \* ... or its FCB has nothing yet
Nadie == "nadie"

ASSUME NadieAssumption == Nadie \notin Archivos

VARIABLES
  (* On disk *)
  tamanio,    \* TAMANIO_ARCHIVO of each file
  inicial,    \* BLOQUE_INICIAL of each file, 0 without it
  fat, bloques,
  (* The request being served *)
  paso,       \* what it does next
  arch,       \* its file
  nuevo,      \* size or pointer asked for
  dato,       \* bufferMemoria: what is to be written
  resto,      \* blocks still to go
  ini,        \* BLOQUE_INICIAL in the FCB that is open
  bloque,     \* ultimoBloque, or block the walk has reached
  indice,     \* i of the loop over the FAT
  lista,      \* listaFAT
  (* History *)
  cadena,     \* blocks of each file, in order
  perdidos,   \* blocks in use that no file has
  leido, danio, caidas

disco   == <<tamanio, inicial, fat, bloques>>
pedido  == <<arch, nuevo, dato, resto, ini, bloque, indice, lista>>
historia == <<cadena, perdidos, leido, caidas>>
fvars == <<disco, paso, pedido, historia, danio>>

NadaEnCurso ==
  /\ paso' = "libre" /\ arch' = Nadie /\ nuevo' = 0 /\ dato' = ValorInicial /\ resto' = 0
  /\ ini' = 0 /\ bloque' = 0 /\ indice' = 0 /\ lista' = <<>>

FInit ==
  /\ tamanio = [f \in Archivos |-> SinFCB] /\ inicial = [f \in Archivos |-> 0]
  /\ fat = [b \in 0..(CantBloquesFAT - 1) |-> 0]
  /\ bloques = [b \in Disco |-> ValorInicial]
  /\ paso = "libre" /\ arch = Nadie /\ nuevo = 0 /\ dato = ValorInicial /\ resto = 0
  /\ ini = 0 /\ bloque = 0 /\ indice = 0 /\ lista = <<>>
  /\ cadena = [f \in Archivos |-> <<>>] /\ perdidos = {}
  /\ leido = ValorInicial /\ danio = FALSE /\ caidas = 0

(* The request needs a value that is not there (a key of the FCB, an       *)
(* element of a list, a variable without value) or a loop does not end.    *)
Danio == danio' = TRUE /\ UNCHANGED <<disco, paso, pedido, historia>>

Sigue == UNCHANGED danio

-----------------------------------------------------------------------------
(* F_OPEN creates the file if it is not there.                             *)
f_open(f) ==
  /\ paso = "libre" /\ tamanio[f] = SinFCB
  /\ tamanio' = [tamanio EXCEPT ![f] = FCBVacio]
  /\ paso' = "crear" /\ arch' = f
  /\ UNCHANGED <<inicial, fat, bloques, nuevo, dato, resto, ini, bloque, indice, lista, historia>> /\ Sigue

crear_archivo ==
  /\ paso = "crear"
  /\ tamanio' = [tamanio EXCEPT ![arch] = 0]
  /\ NadaEnCurso
  /\ UNCHANGED <<inicial, fat, bloques, historia>> /\ Sigue

AbrirSinTamanio(f) == paso = "libre" /\ tamanio[f] = FCBVacio /\ Danio

-----------------------------------------------------------------------------
(* Bug: the search for free blocks begins at block 0.                      *)
Truncar_DesdeCero(f, t, siguiente) ==
  /\ paso = "libre" /\ tamanio[f] >= 0
  /\ paso' = siguiente
  /\ arch' = f /\ nuevo' = t
  /\ ini' = inicial[f]
  /\ indice' = 0
  /\ UNCHANGED <<disco, dato, historia>> /\ Sigue

(* F_TRUNCATE of f to t blocks.                                            *)
Truncar(f, t, siguiente) ==
  /\ paso = "libre" /\ tamanio[f] >= 0
  /\ paso' = siguiente
  /\ arch' = f /\ nuevo' = t
  /\ ini' = inicial[f]
  /\ indice' = 1
  /\ UNCHANGED <<disco, dato, historia>> /\ Sigue

TruncarIgual(f, t) ==
  /\ t = tamanio[f] /\ Truncar(f, t, "guardar")
  /\ UNCHANGED <<resto, bloque, lista>>

Agrandar(f, t) ==
  /\ t > tamanio[f]
  /\ Truncar(f, t, IF inicial[f] = 0 THEN "asignar" ELSE "ultimo")
  /\ resto' = t - tamanio[f] /\ bloque' = inicial[f]
  /\ UNCHANGED lista

(* get_ultimo_bloque_archivo: bloque is bloqueReal, once the loop has begun*)
(* (a file of one block leaves it without a value).                        *)
UltimoSinValor ==
  paso = "ultimo" /\ bloque = ini /\ fat[bloque] = EOF /\ Danio

UltimoAvanza ==
  /\ paso = "ultimo" /\ fat[bloque] # EOF
  /\ bloque' = fat[bloque]
  /\ UNCHANGED <<disco, paso, arch, nuevo, dato, resto, ini, indice, lista, historia>> /\ Sigue

UltimoHallado ==
  /\ paso = "ultimo" /\ bloque # ini /\ fat[bloque] = EOF
  /\ paso' = "asignar"
  /\ UNCHANGED <<disco, pedido, historia>> /\ Sigue

(* The loop of asignar_bloques_FAT.                                        *)
Asignando == paso = "asignar" /\ indice < CantBloquesFAT /\ resto > 0

(* Bug: a block in use counts as assigned.                                 *)
AsignarOcupado_Descuenta ==
  /\ Asignando /\ fat[indice] # 0
  /\ indice' = indice + 1 /\ resto' = resto - 1
  /\ UNCHANGED <<disco, paso, arch, nuevo, dato, ini, bloque, lista, historia>> /\ Sigue

AsignarOcupado ==
  /\ Asignando /\ fat[indice] # 0
  /\ indice' = indice + 1
  /\ UNCHANGED <<disco, paso, arch, nuevo, dato, resto, ini, bloque, lista, historia>> /\ Sigue

(* The block becomes the last of the file.                                 *)
Ultimo ==
  /\ cadena' = [cadena EXCEPT ![arch] = Append(cadena[arch], indice)]
  /\ bloque' = indice /\ indice' = indice + 1
  /\ resto' = resto - 1

(* Bug: the block is not marked as the last of a file.                     *)
AsignarPrimero_SinMarcar ==
  /\ Asignando /\ fat[indice] = 0 /\ ini = 0
  /\ ini' = indice /\ Ultimo
  /\ UNCHANGED <<disco, paso, arch, nuevo, dato, lista, perdidos, leido, caidas>> /\ Sigue

AsignarPrimero ==
  /\ Asignando /\ fat[indice] = 0 /\ ini = 0
  /\ fat' = [fat EXCEPT ![indice] = EOF]
  /\ ini' = indice /\ Ultimo
  /\ UNCHANGED <<tamanio, inicial, bloques, paso, arch, nuevo, dato, lista, perdidos, leido, caidas>> /\ Sigue

AsignarOtro ==
  /\ Asignando /\ fat[indice] = 0 /\ ini # 0
  /\ fat' = [fat EXCEPT ![indice] = EOF]
  /\ paso' = "enlazar"
  /\ UNCHANGED <<tamanio, inicial, bloques, pedido, historia>> /\ Sigue

(* Bug: the last block is not the one just linked.                         *)
Enlazar_SinAvanzar ==
  /\ paso = "enlazar"
  /\ fat' = [fat EXCEPT ![bloque] = indice]
  /\ cadena' = [cadena EXCEPT ![arch] = Append(cadena[arch], indice)]
  /\ indice' = indice + 1 /\ resto' = resto - 1
  /\ paso' = "asignar"
  /\ UNCHANGED <<tamanio, inicial, bloques, arch, nuevo, dato, ini, bloque, lista, perdidos, leido, caidas>>
  /\ Sigue

Enlazar ==
  /\ paso = "enlazar"
  /\ fat' = [fat EXCEPT ![bloque] = indice]
  /\ Ultimo
  /\ paso' = "asignar"
  /\ UNCHANGED <<tamanio, inicial, bloques, arch, nuevo, dato, ini, lista, perdidos, leido, caidas>> /\ Sigue

(* When the blocks run out the size is saved all the same.                 *)
AsignarFin ==
  /\ paso = "asignar" /\ ~Asignando
  /\ paso' = "guardar"
  /\ danio' = (resto > 0)
  /\ UNCHANGED <<disco, pedido, historia>>

-----------------------------------------------------------------------------
(* liberar_bloques_FAT lists the blocks of the file, frees the last ones   *)
(* and marks the one that becomes the last.                                *)
Achicar(f, t) ==
  /\ t < tamanio[f]
  /\ Truncar(f, t, IF inicial[f] = 0 THEN "guardar" ELSE "listar")
  /\ resto' = tamanio[f] - t
  /\ bloque' = inicial[f]
  /\ lista' = IF inicial[f] = 0 THEN <<>> ELSE <<inicial[f]>>

ListarBloque ==
  /\ paso = "listar" /\ Len(lista) < tamanio[arch]
  /\ bloque' = fat[bloque]
  /\ lista' = Append(lista, fat[bloque])
  /\ UNCHANGED <<disco, paso, arch, nuevo, dato, resto, ini, indice, historia>> /\ Sigue

Listado ==
  /\ paso = "listar" /\ Len(lista) >= tamanio[arch]
  /\ paso' = "borrar" /\ indice' = 0
  /\ UNCHANGED <<disco, arch, nuevo, dato, resto, ini, bloque, lista, historia>> /\ Sigue

(* Bug: the first blocks are freed.                                        *)
BorrarBloque_Primeros ==
  /\ paso = "borrar" /\ indice < resto /\ indice < Len(lista)
  /\ fat' = [fat EXCEPT ![lista[indice + 1]] = 0]
  /\ indice' = indice + 1
  /\ UNCHANGED <<tamanio, inicial, bloques, paso, arch, nuevo, dato, resto, ini, bloque, lista, historia>>
  /\ Sigue

BorrarBloque ==
  /\ paso = "borrar" /\ indice < resto /\ indice < Len(lista)
  /\ fat' = [fat EXCEPT ![lista[Len(lista) - indice]] = 0]
  /\ indice' = indice + 1
  /\ UNCHANGED <<tamanio, inicial, bloques, paso, arch, nuevo, dato, resto, ini, bloque, lista, historia>>
  /\ Sigue

(* A file is never left without blocks: there is no new last one.          *)
BorrarTodo == paso = "borrar" /\ indice >= Len(lista) /\ Danio

Borrado ==
  /\ paso = "borrar" /\ indice = resto /\ indice < Len(lista)
  /\ fat' = [fat EXCEPT ![lista[Len(lista) - indice]] = EOF]
  /\ paso' = "guardar"
  /\ UNCHANGED <<tamanio, inicial, bloques, pedido, historia>> /\ Sigue

(* config_save, and the answer.                                            *)
Guardar ==
  LET quedan == Len(lista) - indice
  IN
  /\ paso = "guardar"
  /\ tamanio' = [tamanio EXCEPT ![arch] = nuevo]
  /\ inicial' = [inicial EXCEPT ![arch] = ini]
  /\ IF lista = <<>> THEN UNCHANGED <<cadena, perdidos>>
     ELSE /\ cadena' = [cadena EXCEPT ![arch] = SubSeq(lista, 1, quedan)]
          /\ perdidos' = perdidos \cup
               {cadena[arch][n] : n \in (Len(lista) + 1)..Len(cadena[arch])}
  /\ NadaEnCurso
  /\ UNCHANGED <<fat, bloques, leido, caidas>> /\ Sigue

-----------------------------------------------------------------------------
(* F_READ and F_WRITE of f at p: obtener_bloque walks the file, and what is *)
(* to be written has come from Memoria.  The Kernel lets through files of  *)
(* some size; only a read is compared with it, and by one block too many.  *)
Acceder(f, p, v, siguiente) ==
  /\ paso = "libre" /\ tamanio[f] > 0
  /\ paso' = siguiente
  /\ arch' = f /\ nuevo' = p /\ resto' = p /\ dato' = v
  /\ bloque' = inicial[f]
  /\ UNCHANGED <<disco, ini, indice, lista, historia>> /\ Sigue

PedirLeer(f, p) ==
  tamanio[f] >= p /\ Acceder(f, p, ValorInicial, "leer")

PedirEscribir(f, p, v) == Acceder(f, p, v, "escribir")

(* Past the end of the FAT fread leaves the block as it was.               *)
Saltar ==
  /\ paso \in {"leer", "escribir"} /\ resto > 0
  /\ bloque' = (IF bloque = EOF THEN EOF ELSE fat[bloque])
  /\ resto' = resto - 1
  /\ UNCHANGED <<disco, paso, arch, nuevo, dato, ini, indice, lista, historia>> /\ Sigue

(* Bug: the partition of swap is not skipped.                              *)
Fisico_SinSwap == IF bloque = EOF THEN CantBloquesSWAP - 1 ELSE bloque

(* EOF is 2^32 - 1, and wraps round to the block before the FAT's first.   *)
Fisico == CantBloquesSWAP + bloque

EnElArchivo == nuevo < tamanio[arch]

leer_archivo ==
  /\ paso = "leer" /\ resto = 0
  /\ leido' = bloques[Fisico]
  /\ danio' = ~EnElArchivo
  /\ NadaEnCurso
  /\ UNCHANGED <<disco, cadena, perdidos, caidas>>

escribir_archivo ==
  /\ paso = "escribir" /\ resto = 0
  /\ bloques' = [bloques EXCEPT ![Fisico] = dato]
  /\ danio' = ~EnElArchivo
  /\ NadaEnCurso
  /\ UNCHANGED <<tamanio, inicial, fat, historia>>

-----------------------------------------------------------------------------
(* The FCB of the file does not have its first block yet.                  *)
SinGuardar == paso \in {"asignar", "enlazar", "guardar"} /\ inicial[arch] = 0

(* The request has freed some of the blocks of its file, and not saved it. *)
Achicando == (paso = "borrar" /\ indice > 0) \/ (paso = "guardar" /\ lista # <<>>)

(* The program stops, and is run again over the same disk.                 *)
Caida ==
  /\ caidas < MaxCaidas /\ caidas' = caidas + 1
  /\ paso # "libre"
  /\ NadaEnCurso
  /\ danio' = Achicando
  /\ LET nuevos == IF SinGuardar THEN {cadena[arch][n] : n \in 1..Len(cadena[arch])} ELSE {}
         suelto == IF paso = "enlazar" THEN {indice} ELSE {}
     IN  perdidos' = perdidos \cup nuevos \cup suelto
  /\ cadena' = IF SinGuardar THEN [cadena EXCEPT ![arch] = <<>>] ELSE cadena
  /\ UNCHANGED <<disco, leido>>

-----------------------------------------------------------------------------
PedidoNuevo(f) ==
  \/ f_open(f) \/ AbrirSinTamanio(f)
  \/ \E t \in Tamanios : TruncarIgual(f, t) \/ Agrandar(f, t) \/ Achicar(f, t)
  \/ \E p \in Punteros : PedirLeer(f, p) \/ \E v \in Valores : PedirEscribir(f, p, v)

PasoTruncar ==
  \/ UltimoSinValor \/ UltimoAvanza \/ UltimoHallado
  \/ AsignarOcupado \/ AsignarPrimero \/ AsignarOtro \/ Enlazar \/ AsignarFin
  \/ ListarBloque \/ Listado \/ BorrarBloque \/ BorrarTodo \/ Borrado \/ Guardar

FNext ==
  /\ ~danio
  /\ \/ \E f \in Archivos : PedidoNuevo(f)
     \/ crear_archivo \/ PasoTruncar
     \/ Saltar \/ leer_archivo \/ escribir_archivo
     \/ Caida

FSpec == FInit /\ [][FNext]_fvars

-----------------------------------------------------------------------------
Pasos == {"libre", "crear", "ultimo", "asignar", "enlazar", "guardar", "listar", "borrar",
          "leer", "escribir"}

(* Every piece of state keeps its shape; the walks only go through blocks  *)
(* of the FAT.                                                             *)
FTypeOK ==
  /\ tamanio \in [Archivos -> Nat \cup {SinFCB, FCBVacio}]
  /\ inicial \in [Archivos -> BloquesFAT \cup {0}]
  /\ fat \in [0..(CantBloquesFAT - 1) -> BloquesFAT \cup {0, EOF}]
  /\ bloques \in [Disco -> Valores]
  /\ paso \in Pasos /\ arch \in Archivos \cup {Nadie}
  /\ nuevo \in Nat /\ dato \in Valores /\ resto \in Nat
  /\ ini \in BloquesFAT \cup {0} /\ bloque \in BloquesFAT \cup {0, EOF}
  /\ indice \in Nat
  /\ lista \in Seq(BloquesFAT) /\ cadena \in [Archivos -> Seq(BloquesFAT)]
  /\ perdidos \subseteq BloquesFAT
  /\ leido \in Valores /\ danio \in BOOLEAN /\ caidas \in Nat

(* BLOQUE_INICIAL, in the FCB that is open or in the one on disk.          *)
PrimerBloque(f) ==
  IF arch = f /\ paso \in {"asignar", "enlazar", "guardar"} THEN ini ELSE inicial[f]

(* The FAT and the FCBs tell the blocks of each file: the first is in the  *)
(* FCB, each one leads to the next and the last is marked, at every step of*)
(* any request but the end of one that shrinks the file, and after stopping*)
(* anywhere else.                                                          *)
CadenaEnlazada ==
  ~danio =>
  \A f \in Archivos : ~(Achicando /\ arch = f) =>
    /\ cadena[f] # <<>> => cadena[f][1] = PrimerBloque(f)
    /\ \A n \in 1..Len(cadena[f]) :
         fat[cadena[f][n]] = (IF n = Len(cadena[f]) THEN EOF ELSE cadena[f][n + 1])

(* No block is in two files or twice in one, the blocks of a file are in   *)
(* use, and those in use that no file has are the ones that were lost when *)
(* the program stopped.                                                    *)
BloquesPropios ==
  ~danio =>
  /\ \A f, g \in Archivos : \A n \in 1..Len(cadena[f]), m \in 1..Len(cadena[g]) :
       cadena[f][n] = cadena[g][m] => f = g /\ n = m
  /\ \A b \in BloquesFAT : fat[b] # 0 =>
       \/ b \in perdidos
       \/ paso = "enlazar" /\ b = indice
       \/ \E f \in Archivos : \E n \in 1..Len(cadena[f]) : cadena[f][n] = b

(* The size of a file never promises more blocks than it has: when a file  *)
(* grows the size is saved after the blocks are linked, and stopping in    *)
(* between only leaves it short.  Two things break it, and end the promise *)
(* (danio): running out of blocks, and stopping a shrink halfway.          *)
TamanioCumplido ==
  ~danio => \A f \in Archivos : tamanio[f] >= 0 => tamanio[f] <= Len(cadena[f])

(* Only a write past the end of a file reaches the partition of swap.      *)
SwapIntacta ==
  [][danio' \/ \A b \in 0..(CantBloquesSWAP - 1) : bloques'[b] = bloques[b]]_fvars

Contenido(f) ==
  [n \in 1..(IF tamanio[f] < 0 THEN 0 ELSE tamanio[f]) |->
     bloques[CantBloquesSWAP + cadena[f][n]]]

Operacion ==
  CASE paso = "crear"    -> "f_open"
    [] paso = "leer"     -> "f_read"
    [] paso = "escribir" -> "f_write"
    [] OTHER             -> "f_truncate"

Nada == [op |-> "nada"]

Pedido ==
  IF paso = "libre" THEN Nada
  ELSE [op |-> Operacion, archivo |-> arch, n |-> nuevo, dato |-> dato]

S == INSTANCE SistemaArchivos WITH creados   <- {f \in Archivos : tamanio[f] >= 0},
                                   contenido <- [f \in Archivos |-> Contenido(f)],
                                   pedido    <- Pedido

(* A file reads back what was last written in each block, whatever is      *)
(* created, extended, shrunk or written elsewhere, and even if the program *)
(* stops before a request is answered, unless it has begun to free blocks. *)
(* It goes as far as danio: what ends the promise is said there.           *)
ImplementaArchivos == S!SSpec
=============================================================================
