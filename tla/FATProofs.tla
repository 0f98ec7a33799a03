------------------------------ MODULE FATProofs ------------------------------
(***************************************************************************)
(* Proofs about FAT: the chains of blocks, their sizes and what the files  *)
(* hold, for any number of files, blocks and stops of the program.         *)
(***************************************************************************)
EXTENDS FAT, TLAPS

(* What each step of a request knows.                                      *)
IPaso ==
  /\ paso = "libre" => arch = Nadie /\ lista = <<>>
  /\ paso # "libre" => arch \in Archivos
  /\ paso = "crear" => tamanio[arch] = FCBVacio
  /\ paso \notin {"libre", "crear"} => tamanio[arch] >= 0
  /\ paso \in {"leer", "escribir"} => tamanio[arch] > 0
  /\ paso \notin {"listar", "borrar", "guardar"} => lista = <<>>
  /\ paso \in {"ultimo", "listar", "borrar"} => ini = inicial[arch] /\ ini # 0
  /\ paso \in {"asignar", "enlazar", "guardar"} /\ inicial[arch] # 0 => ini = inicial[arch]
  /\ paso = "guardar" /\ lista # <<>> => ini # 0 /\ ini = inicial[arch]

ISinFCB == \A f \in Archivos : tamanio[f] < 0 => inicial[f] = 0 /\ cadena[f] = <<>>

ITamanio ==
  \A f \in Archivos :
    /\ tamanio[f] >= 0 => tamanio[f] <= Len(cadena[f])
    /\ inicial[f] = 0 => tamanio[f] <= 0

IInicio ==
  \A f \in Archivos :
    /\ PrimerBloque(f) = 0 <=> cadena[f] = <<>>
    /\ cadena[f] # <<>> => cadena[f][1] = PrimerBloque(f)

IEnlace ==
  \A f \in Archivos : ~(Achicando /\ arch = f) =>
    \A n \in 1..Len(cadena[f]) :
      fat[cadena[f][n]] = IF n = Len(cadena[f]) THEN EOF ELSE cadena[f][n + 1]

IDisjuntas ==
  \A f, g \in Archivos : \A n \in 1..Len(cadena[f]), m \in 1..Len(cadena[g]) :
    cadena[f][n] = cadena[g][m] => f = g /\ n = m

EnCadena(b) == \E f \in Archivos : \E n \in 1..Len(cadena[f]) : cadena[f][n] = b

IOcupados ==
  \A b \in BloquesFAT : fat[b] # 0 =>
    b \in perdidos \/ (paso = "enlazar" /\ b = indice) \/ EnCadena(b)

(* While the file is extended.                                             *)
IAsignar ==
  /\ paso = "ultimo" =>
       /\ indice = 1 /\ nuevo - resto <= Len(cadena[arch])
       /\ \E n \in 1..Len(cadena[arch]) : bloque = cadena[arch][n]
  /\ paso \in {"asignar", "enlazar"} =>
       /\ indice >= 1 /\ nuevo - resto <= Len(cadena[arch])
       /\ ini # 0 => bloque = cadena[arch][Len(cadena[arch])]
  /\ paso = "enlazar" =>
       /\ ini # 0 /\ resto > 0 /\ indice < CantBloquesFAT
       /\ fat[indice] = EOF /\ ~EnCadena(indice)
  /\ paso = "guardar" /\ lista = <<>> => nuevo <= Len(cadena[arch])

(* While the file is shrunk.                                               *)
ILista ==
  /\ paso \in {"listar", "borrar"} \/ lista # <<>> =>
       /\ nuevo < tamanio[arch] /\ resto = tamanio[arch] - nuevo
       /\ 1 <= Len(lista) /\ Len(lista) <= tamanio[arch]
       /\ \A n \in 1..Len(lista) : lista[n] = cadena[arch][n]
  /\ paso = "listar" => bloque = lista[Len(lista)]
  /\ paso = "borrar" \/ (paso = "guardar" /\ lista # <<>>) =>
       /\ Len(lista) = tamanio[arch] /\ indice <= resto
       /\ \A n \in 1..(Len(lista) - indice - 1) : fat[cadena[arch][n]] = cadena[arch][n + 1]
       /\ \A n \in (Len(lista) - indice + 1)..Len(lista) : fat[lista[n]] = 0
  /\ paso = "guardar" /\ lista # <<>> =>
       /\ indice = resto /\ indice < Len(lista) /\ fat[lista[Len(lista) - indice]] = EOF

(* While the blocks of the file are walked.                                *)
ICamino ==
  paso \in {"leer", "escribir"} =>
    /\ resto <= nuevo
    /\ bloque = IF nuevo - resto < Len(cadena[arch]) THEN cadena[arch][nuevo - resto + 1] ELSE EOF

Sano ==
  /\ IPaso /\ ISinFCB /\ ITamanio /\ IInicio /\ IEnlace /\ IDisjuntas /\ IOcupados
  /\ IAsignar /\ ILista /\ ICamino

FInv == FTypeOK /\ (~danio => Sano)

-----------------------------------------------------------------------------
(* Facts about chains, for the steps below.                                *)

(* What the type invariant says of one file.                               *)
LEMMA TipoArchivo ==
  ASSUME FTypeOK, NEW f \in Archivos
  PROVE  /\ tamanio[f] \in Int /\ (tamanio[f] >= 0 => tamanio[f] \in Nat)
         /\ inicial[f] \in BloquesFAT \cup {0}
         /\ cadena[f] \in Seq(BloquesFAT) /\ Len(cadena[f]) \in Nat
<1>1. tamanio[f] \in Nat \cup {SinFCB, FCBVacio} /\ inicial[f] \in BloquesFAT \cup {0}
  BY DEF FTypeOK
<1>2. cadena[f] \in Seq(BloquesFAT)
  BY DEF FTypeOK
<1> QED
  BY <1>1, <1>2 DEF SinFCB, FCBVacio

(* A chain with one block more.                                            *)
LEMMA UltimoCadena ==
  ASSUME FTypeOK, arch \in Archivos, indice \in BloquesFAT, Ultimo
  PROVE  /\ cadena' \in [Archivos -> Seq(BloquesFAT)]
         /\ \A g \in Archivos : g # arch => cadena'[g] = cadena[g]
         /\ Len(cadena'[arch]) = Len(cadena[arch]) + 1
         /\ \A n \in 1..Len(cadena[arch]) : cadena'[arch][n] = cadena[arch][n]
         /\ cadena'[arch][Len(cadena[arch]) + 1] = indice
BY DEF FTypeOK, Ultimo

(* A free block is in no file, unless one is being shrunk.                 *)
LEMMA LibreSinCadena ==
  ASSUME FTypeOK, Sano, ~Achicando, NEW b \in BloquesFAT, fat[b] = 0
  PROVE  ~EnCadena(b)
<1> SUFFICES ASSUME NEW f \in Archivos, NEW n \in 1..Len(cadena[f]), cadena[f][n] = b
             PROVE  FALSE
  BY DEF EnCadena
<1>1. cadena[f] \in Seq(BloquesFAT)
  BY DEF FTypeOK
<1>2. n # Len(cadena[f]) => cadena[f][n + 1] \in BloquesFAT
  BY <1>1
<1>3. fat[cadena[f][n]] = IF n = Len(cadena[f]) THEN EOF ELSE cadena[f][n + 1]
  BY DEF Sano, IEnlace
<1> QED
  BY <1>2, <1>3, FATAssumption DEF BloquesFAT, EOF

(* From each block of a file the FAT leads to the next.                    *)
LEMMA SiguienteBloque ==
  ASSUME FTypeOK, Sano, NEW f \in Archivos, NEW n \in 1..Len(cadena[f]), ~(Achicando /\ arch = f)
  PROVE  /\ cadena[f][n] \in BloquesFAT /\ cadena[f][n] # EOF
         /\ fat[cadena[f][n]] = EOF <=> n = Len(cadena[f])
         /\ n < Len(cadena[f]) => n + 1 \in 1..Len(cadena[f]) /\ fat[cadena[f][n]] = cadena[f][n + 1]
<1>1. cadena[f] \in Seq(BloquesFAT)
  BY DEF FTypeOK
<1>2. cadena[f][n] \in BloquesFAT /\ (n < Len(cadena[f]) => cadena[f][n + 1] \in BloquesFAT)
  BY <1>1
<1>3. fat[cadena[f][n]] = IF n = Len(cadena[f]) THEN EOF ELSE cadena[f][n + 1]
  BY DEF Sano, IEnlace
<1> QED
  BY <1>1, <1>2, <1>3, FATAssumption DEF BloquesFAT, EOF

(* Between requests the FCB has the first block.                           *)
LEMMA InicioCadena ==
  ASSUME FTypeOK, Sano, NEW f \in Archivos, ~(arch = f /\ paso \in {"asignar", "enlazar", "guardar"})
  PROVE  /\ Len(cadena[f]) \in Nat
         /\ inicial[f] = 0 <=> Len(cadena[f]) = 0
         /\ Len(cadena[f]) > 0 => 1 \in 1..Len(cadena[f]) /\ cadena[f][1] = inicial[f]
         /\ tamanio[f] >= 0 => tamanio[f] \in Nat /\ tamanio[f] <= Len(cadena[f])
<1>1. cadena[f] \in Seq(BloquesFAT) /\ tamanio[f] \in Nat \cup {SinFCB, FCBVacio}
  BY DEF FTypeOK
<1>2. PrimerBloque(f) = inicial[f]
  BY DEF PrimerBloque
<1> QED
  BY <1>1, <1>2 DEF Sano, IInicio, ITamanio, SinFCB, FCBVacio

(* What does not mind that a file has a block more, which was in none.     *)
LEMMA UltimoConserva ==
  ASSUME FTypeOK, Sano, arch \in Archivos, indice \in BloquesFAT, Ultimo, ~EnCadena(indice),
         tamanio[arch] >= 0, UNCHANGED <<tamanio, inicial>>
  PROVE  /\ ISinFCB' /\ ITamanio' /\ IDisjuntas'
         /\ \A b : EnCadena(b) \/ b = indice => EnCadena(b)'
<1>1. /\ \A g \in Archivos : g # arch => cadena'[g] = cadena[g]
      /\ Len(cadena'[arch]) = Len(cadena[arch]) + 1
      /\ \A n \in 1..Len(cadena[arch]) : cadena'[arch][n] = cadena[arch][n]
      /\ cadena'[arch][Len(cadena[arch]) + 1] = indice
  BY UltimoCadena
<1>2. \A f \in Archivos : tamanio[f] \in Int /\ Len(cadena[f]) \in Nat
  BY TipoArchivo
<1>3. ISinFCB'
  BY <1>1, <1>2 DEF Sano, ISinFCB
<1>4. ITamanio'
  BY <1>1, <1>2 DEF Sano, ITamanio
<1>5. ASSUME NEW f \in Archivos, NEW g \in Archivos,
             NEW n \in 1..Len(cadena'[f]), NEW m \in 1..Len(cadena'[g]),
             cadena'[f][n] = cadena'[g][m]
      PROVE  f = g /\ n = m
  <2>1. \/ f = arch /\ n = Len(cadena[f]) + 1 /\ cadena'[f][n] = indice
        \/ n \in 1..Len(cadena[f]) /\ cadena'[f][n] = cadena[f][n] /\ cadena[f][n] # indice
    BY <1>1, <1>2 DEF EnCadena
  <2>2. \/ g = arch /\ m = Len(cadena[g]) + 1 /\ cadena'[g][m] = indice
        \/ m \in 1..Len(cadena[g]) /\ cadena'[g][m] = cadena[g][m] /\ cadena[g][m] # indice
    BY <1>1, <1>2 DEF EnCadena
  <2> QED
    BY <1>5, <2>1, <2>2 DEF Sano, IDisjuntas
<1>6. IDisjuntas'
  BY <1>5 DEF IDisjuntas
<1>7. ASSUME NEW b, b = indice PROVE EnCadena(b)'
  <2>1. Len(cadena[arch]) + 1 \in 1..Len(cadena'[arch]) /\ cadena'[arch][Len(cadena[arch]) + 1] = b
    BY <1>1, <1>2, <1>7
  <2> QED
    BY <2>1 DEF EnCadena
<1>8. ASSUME NEW b, EnCadena(b) PROVE EnCadena(b)'
  <2>0. PICK f \in Archivos : \E n \in 1..Len(cadena[f]) : cadena[f][n] = b
    BY <1>8 DEF EnCadena
  <2>1. PICK n \in 1..Len(cadena[f]) : cadena[f][n] = b
    BY <2>0
  <2>2. n \in 1..Len(cadena'[f]) /\ cadena'[f][n] = b
    BY <1>1, <1>2, <2>1
  <2> QED
    BY <2>2 DEF EnCadena
<1> QED
  BY <1>3, <1>4, <1>6, <1>7, <1>8

-----------------------------------------------------------------------------
(* Each step of a request keeps the types and, while the promise holds, the*)
(* invariant: one lemma per step, and one step of it per part.             *)

(* The FCB of a new file is empty, and the file has no block.              *)
LEMMA f_openInv ==
  ASSUME NEW f \in Archivos, FTypeOK, Sano, ~danio, f_open(f)
  PROVE  FTypeOK' /\ (~danio' => Sano')
<1> USE FATAssumption, NadieAssumption DEF f_open, Sigue, historia, Sigue, Pasos, BloquesFAT, EOF, SinFCB,
      FCBVacio, Nadie
<1>1. FTypeOK'
  BY DEF FTypeOK, Sano, IPaso
<1>2. IPaso'
  BY DEF FTypeOK, Sano, IPaso
<1>3. ISinFCB'
  BY DEF FTypeOK, Sano, ISinFCB, IPaso
<1>4. ITamanio'
  BY DEF FTypeOK, Sano, ITamanio, IPaso
<1>5. IInicio'
  BY DEF FTypeOK, Sano, IInicio, PrimerBloque, IPaso
<1>6. IEnlace'
  BY DEF FTypeOK, Sano, IEnlace, Achicando, IPaso
<1>7. IDisjuntas'
  BY DEF FTypeOK, Sano, IDisjuntas
<1>8. IOcupados'
  BY DEF FTypeOK, Sano, IOcupados, EnCadena, IPaso
<1>9. IAsignar'
  BY DEF FTypeOK, Sano, IAsignar, EnCadena, IPaso
<1>10. ILista'
  BY DEF FTypeOK, Sano, ILista, IPaso
<1>11. ICamino'
  BY DEF FTypeOK, Sano, ICamino, IPaso
<1> QED
  BY <1>1, <1>2, <1>3, <1>4, <1>5, <1>6, <1>7, <1>8, <1>9, <1>10, <1>11 DEF Sano

(* A new file has no block and size 0.                                     *)
LEMMA crear_archivoInv ==
  ASSUME FTypeOK, Sano, ~danio, crear_archivo
  PROVE  FTypeOK' /\ (~danio' => Sano')
<1> USE FATAssumption, NadieAssumption DEF crear_archivo, NadaEnCurso, historia, Sigue, Pasos, BloquesFAT,
      EOF, SinFCB, FCBVacio, Nadie
<1>1. FTypeOK'
  BY DEF FTypeOK, Sano, IPaso
<1>2. IPaso'
  BY DEF FTypeOK, Sano, IPaso
<1>3. ISinFCB'
  BY DEF FTypeOK, Sano, ISinFCB, IPaso
<1>4. ITamanio'
  BY DEF FTypeOK, Sano, ITamanio, IPaso
<1>5. IInicio'
  BY DEF FTypeOK, Sano, IInicio, PrimerBloque, IPaso
<1>6. IEnlace'
  BY DEF FTypeOK, Sano, IEnlace, Achicando, IPaso
<1>7. IDisjuntas'
  BY DEF FTypeOK, Sano, IDisjuntas
<1>8. IOcupados'
  BY DEF FTypeOK, Sano, IOcupados, EnCadena, IPaso
<1>9. IAsignar'
  BY DEF FTypeOK, Sano, IAsignar, EnCadena, IPaso
<1>10. ILista'
  BY DEF FTypeOK, Sano, ILista, IPaso
<1>11. ICamino'
  BY DEF FTypeOK, Sano, ICamino, IPaso
<1> QED
  BY <1>1, <1>2, <1>3, <1>4, <1>5, <1>6, <1>7, <1>8, <1>9, <1>10, <1>11 DEF Sano

(* The size a file has already is one its chain has.                       *)
LEMMA TruncarIgualInv ==
  ASSUME NEW f \in Archivos, NEW t \in Tamanios, FTypeOK, Sano, ~danio, TruncarIgual(f, t)
  PROVE  FTypeOK' /\ (~danio' => Sano')
<1> USE FATAssumption, NadieAssumption DEF TruncarIgual, Truncar, disco, historia, Sigue, Pasos,
      BloquesFAT, EOF, SinFCB, FCBVacio, Nadie
<1>1. FTypeOK'
  BY DEF FTypeOK, Sano, IPaso
<1>2. IPaso'
  BY DEF FTypeOK, Sano, IPaso
<1>3. ISinFCB'
  BY DEF FTypeOK, Sano, ISinFCB, IPaso
<1>4. ITamanio'
  BY DEF FTypeOK, Sano, ITamanio, IPaso
<1>5. IInicio'
  BY DEF FTypeOK, Sano, IInicio, PrimerBloque, IPaso
<1>6. IEnlace'
  BY DEF FTypeOK, Sano, IEnlace, Achicando, IPaso
<1>7. IDisjuntas'
  BY DEF FTypeOK, Sano, IDisjuntas
<1>8. IOcupados'
  BY DEF FTypeOK, Sano, IOcupados, EnCadena, IPaso
<1>9. IAsignar'
  BY DEF FTypeOK, Sano, IAsignar, EnCadena, IPaso, ITamanio
<1>10. ILista'
  BY DEF FTypeOK, Sano, ILista, IPaso
<1>11. ICamino'
  BY DEF FTypeOK, Sano, ICamino, IPaso
<1> QED
  BY <1>1, <1>2, <1>3, <1>4, <1>5, <1>6, <1>7, <1>8, <1>9, <1>10, <1>11 DEF Sano

(* The walk to the last block begins at the first one.                     *)
LEMMA AgrandarInv ==
  ASSUME NEW f \in Archivos, NEW t \in Tamanios, FTypeOK, Sano, ~danio, Agrandar(f, t)
  PROVE  FTypeOK' /\ (~danio' => Sano')
<1> USE FATAssumption, NadieAssumption DEF Agrandar, Truncar, disco, historia, Sigue, Pasos, BloquesFAT,
      EOF, SinFCB, FCBVacio, Nadie
<1>1. FTypeOK'
  <2>1. t \in Nat /\ tamanio[f] \in Nat
    BY TipoArchivo
  <2>2. resto' \in Nat
    BY <2>1
  <2>3. inicial[f] \in BloquesFAT \cup {0}
    BY TipoArchivo
  <2> QED
    BY <2>1, <2>2, <2>3 DEF FTypeOK
<1>2. IPaso'
  BY DEF FTypeOK, Sano, IPaso
<1>3. ISinFCB'
  BY DEF FTypeOK, Sano, ISinFCB, IPaso
<1>4. ITamanio'
  BY DEF FTypeOK, Sano, ITamanio, IPaso
<1>5. IInicio'
  BY DEF FTypeOK, Sano, IInicio, PrimerBloque, IPaso
<1>6. IEnlace'
  BY DEF FTypeOK, Sano, IEnlace, Achicando, IPaso
<1>7. IDisjuntas'
  BY DEF FTypeOK, Sano, IDisjuntas
<1>8. IOcupados'
  BY DEF FTypeOK, Sano, IOcupados, EnCadena, IPaso
<1>9. IAsignar'
  <2>1. arch = Nadie
    BY DEF Sano, IPaso
  <2>2. t \in Nat /\ tamanio[f] \in Nat /\ tamanio[f] <= Len(cadena[f])
    BY <2>1, TipoArchivo, InicioCadena, NadieAssumption
  <2>3. nuevo' - resto' = tamanio[f]
    BY <2>2
  <2>4. inicial[f] # 0 => \E n \in 1..Len(cadena[f]) : bloque' = cadena[f][n]
    BY <2>1, InicioCadena, NadieAssumption
  <2> QED
    BY <2>2, <2>3, <2>4 DEF IAsignar
<1>10. ILista'
  BY DEF FTypeOK, Sano, ILista, IPaso
<1>11. ICamino'
  BY DEF FTypeOK, Sano, ICamino, IPaso
<1> QED
  BY <1>1, <1>2, <1>3, <1>4, <1>5, <1>6, <1>7, <1>8, <1>9, <1>10, <1>11 DEF Sano

(* The walk to the last block stays in the chain.                          *)
LEMMA UltimoAvanzaInv ==
  ASSUME FTypeOK, Sano, ~danio, UltimoAvanza
  PROVE  FTypeOK' /\ (~danio' => Sano')
<1> USE FATAssumption, NadieAssumption DEF UltimoAvanza, disco, historia, Sigue, Pasos, BloquesFAT, EOF,
      SinFCB, FCBVacio, Nadie
<1>1. FTypeOK'
  <2>1. bloque \in BloquesFAT
    BY TipoArchivo DEF Sano, IPaso, IAsignar
  <2>2. fat[bloque] \in BloquesFAT \cup {0, EOF}
    BY <2>1 DEF FTypeOK
  <2> QED
    BY <2>2 DEF FTypeOK
<1>2. IPaso'
  BY DEF FTypeOK, Sano, IPaso
<1>3. ISinFCB'
  BY DEF FTypeOK, Sano, ISinFCB, IPaso
<1>4. ITamanio'
  BY DEF FTypeOK, Sano, ITamanio, IPaso
<1>5. IInicio'
  BY DEF FTypeOK, Sano, IInicio, PrimerBloque, IPaso
<1>6. IEnlace'
  BY DEF FTypeOK, Sano, IEnlace, Achicando, IPaso
<1>7. IDisjuntas'
  BY DEF FTypeOK, Sano, IDisjuntas
<1>8. IOcupados'
  BY DEF FTypeOK, Sano, IOcupados, EnCadena, IPaso
<1>9. IAsignar'
  <2>1. PICK n \in 1..Len(cadena[arch]) : bloque = cadena[arch][n]
    BY DEF Sano, IAsignar
  <2>2. n + 1 \in 1..Len(cadena[arch]) /\ bloque' = cadena[arch][n + 1]
    BY <2>1, SiguienteBloque DEF Sano, IPaso, Achicando
  <2>3. indice = 1 /\ nuevo - resto <= Len(cadena[arch])
    BY DEF Sano, IAsignar
  <2>4. paso' = "ultimo" /\ UNCHANGED <<indice, nuevo, resto, cadena, arch>>
    OBVIOUS
  <2> QED
    BY <2>2, <2>3, <2>4 DEF IAsignar
<1>10. ILista'
  BY DEF FTypeOK, Sano, ILista, IPaso
<1>11. ICamino'
  BY DEF FTypeOK, Sano, ICamino, IPaso
<1> QED
  BY <1>1, <1>2, <1>3, <1>4, <1>5, <1>6, <1>7, <1>8, <1>9, <1>10, <1>11 DEF Sano

(* The walk to the last block ends at it.                                  *)
LEMMA UltimoHalladoInv ==
  ASSUME FTypeOK, Sano, ~danio, UltimoHallado
  PROVE  FTypeOK' /\ (~danio' => Sano')
<1> USE FATAssumption, NadieAssumption DEF UltimoHallado, disco, pedido, historia, Sigue, Pasos,
      BloquesFAT, EOF, SinFCB, FCBVacio, Nadie
<1>1. FTypeOK'
  BY DEF FTypeOK, Sano, IPaso
<1>2. IPaso'
  BY DEF FTypeOK, Sano, IPaso
<1>3. ISinFCB'
  BY DEF FTypeOK, Sano, ISinFCB, IPaso
<1>4. ITamanio'
  BY DEF FTypeOK, Sano, ITamanio, IPaso
<1>5. IInicio'
  BY DEF FTypeOK, Sano, IInicio, PrimerBloque, IPaso
<1>6. IEnlace'
  BY DEF FTypeOK, Sano, IEnlace, Achicando, IPaso
<1>7. IDisjuntas'
  BY DEF FTypeOK, Sano, IDisjuntas
<1>8. IOcupados'
  BY DEF FTypeOK, Sano, IOcupados, EnCadena, IPaso
<1>9. IAsignar'
  <2>1. PICK n \in 1..Len(cadena[arch]) : bloque = cadena[arch][n]
    BY DEF Sano, IAsignar
  <2>2. n = Len(cadena[arch])
    BY <2>1, SiguienteBloque DEF Sano, IPaso, Achicando
  <2>3. indice = 1 /\ nuevo - resto <= Len(cadena[arch])
    BY DEF Sano, IAsignar
  <2>4. paso' = "asignar" /\ UNCHANGED <<indice, nuevo, resto, cadena, arch, ini, bloque>>
    OBVIOUS
  <2> QED
    BY <2>1, <2>2, <2>3, <2>4 DEF IAsignar
<1>10. ILista'
  BY DEF FTypeOK, Sano, ILista, IPaso
<1>11. ICamino'
  BY DEF FTypeOK, Sano, ICamino, IPaso
<1> QED
  BY <1>1, <1>2, <1>3, <1>4, <1>5, <1>6, <1>7, <1>8, <1>9, <1>10, <1>11 DEF Sano

(* A block in use is passed over.                                          *)
LEMMA AsignarOcupadoInv ==
  ASSUME FTypeOK, Sano, ~danio, AsignarOcupado
  PROVE  FTypeOK' /\ (~danio' => Sano')
<1> USE FATAssumption, NadieAssumption DEF AsignarOcupado, Asignando, disco, historia, Sigue, Pasos,
      BloquesFAT, EOF, SinFCB, FCBVacio, Nadie
<1>1. FTypeOK'
  BY DEF FTypeOK, Sano, IPaso
<1>2. IPaso'
  BY DEF FTypeOK, Sano, IPaso
<1>3. ISinFCB'
  BY DEF FTypeOK, Sano, ISinFCB, IPaso
<1>4. ITamanio'
  BY DEF FTypeOK, Sano, ITamanio, IPaso
<1>5. IInicio'
  BY DEF FTypeOK, Sano, IInicio, PrimerBloque, IPaso
<1>6. IEnlace'
  BY DEF FTypeOK, Sano, IEnlace, Achicando, IPaso
<1>7. IDisjuntas'
  BY DEF FTypeOK, Sano, IDisjuntas
<1>8. IOcupados'
  BY DEF FTypeOK, Sano, IOcupados, EnCadena, IPaso
<1>9. IAsignar'
  BY DEF FTypeOK, Sano, IAsignar, EnCadena, IPaso
<1>10. ILista'
  BY DEF FTypeOK, Sano, ILista, IPaso
<1>11. ICamino'
  BY DEF FTypeOK, Sano, ICamino, IPaso
<1> QED
  BY <1>1, <1>2, <1>3, <1>4, <1>5, <1>6, <1>7, <1>8, <1>9, <1>10, <1>11 DEF Sano

(* The first block of a file was free, and is marked as the last.          *)
LEMMA AsignarPrimeroInv ==
  ASSUME FTypeOK, Sano, ~danio, AsignarPrimero
  PROVE  FTypeOK' /\ (~danio' => Sano')
<1> USE FATAssumption, NadieAssumption DEF AsignarPrimero, Asignando, Sigue, Pasos, BloquesFAT, EOF,
      SinFCB, FCBVacio, Nadie
<1>a. arch \in Archivos /\ indice \in BloquesFAT /\ tamanio[arch] >= 0 /\ ~Achicando
  BY DEF FTypeOK, Sano, IPaso, IAsignar, Achicando
<1>b. ~EnCadena(indice)
  BY <1>a, LibreSinCadena
<1>c. /\ cadena' \in [Archivos -> Seq(BloquesFAT)]
      /\ \A g \in Archivos : g # arch => cadena'[g] = cadena[g]
      /\ Len(cadena'[arch]) = Len(cadena[arch]) + 1
      /\ \A n \in 1..Len(cadena[arch]) : cadena'[arch][n] = cadena[arch][n]
      /\ cadena'[arch][Len(cadena[arch]) + 1] = indice
  BY <1>a, UltimoCadena
<1>d. \A f \in Archivos : Len(cadena[f]) \in Nat
  BY TipoArchivo
<1>e. inicial[arch] = 0 /\ Len(cadena[arch]) = 0
  BY <1>a, <1>d DEF Sano, IPaso, IInicio, PrimerBloque
<1>f. bloque' = indice /\ indice' = indice + 1 /\ resto' = resto - 1
  BY DEF Ultimo
<1>g. /\ ISinFCB' /\ ITamanio' /\ IDisjuntas'
      /\ \A b : EnCadena(b) \/ b = indice => EnCadena(b)'
  BY <1>a, <1>b, UltimoConserva
<1>h. \A f \in Archivos : \A n \in 1..Len(cadena[f]) : cadena[f][n] # indice
  BY <1>b DEF EnCadena
<1>1. FTypeOK'
  <2>1. fat' \in [0..(CantBloquesFAT - 1) -> BloquesFAT \cup {0, EOF}]
    BY <1>a DEF FTypeOK
  <2>2. bloque' \in BloquesFAT \cup {0, EOF} /\ indice' \in Nat /\ resto' \in Nat
    BY <1>a, <1>e, <1>f DEF FTypeOK
  <2>3. ini' \in BloquesFAT \cup {0} /\ paso' \in Pasos
    BY <1>a DEF FTypeOK
  <2> QED
    BY <1>c, <2>1, <2>2, <2>3 DEF FTypeOK
<1>2. IPaso'
  BY DEF FTypeOK, Sano, IPaso
<1>3. ISinFCB'
  BY <1>g
<1>4. ITamanio'
  BY <1>g
<1>5. IInicio'
  BY <1>a, <1>c, <1>d, <1>e DEF Sano, IInicio, PrimerBloque
<1>6. IEnlace'
  <2> SUFFICES ASSUME NEW f \in Archivos, NEW n \in 1..Len(cadena'[f])
               PROVE  fat'[cadena'[f][n]] = IF n = Len(cadena'[f]) THEN EOF ELSE cadena'[f][n + 1]
    BY DEF IEnlace
  <2>1. CASE f = arch
    BY <2>1, <1>a, <1>c, <1>e DEF FTypeOK
  <2>2. CASE f # arch
    <3>1. fat[cadena[f][n]] = IF n = Len(cadena[f]) THEN EOF ELSE cadena[f][n + 1]
      BY <2>2, <1>a, <1>c DEF Sano, IEnlace
    <3>a. cadena'[f] = cadena[f] /\ n \in 1..Len(cadena[f]) /\ cadena[f] \in Seq(BloquesFAT)
      BY <2>2, <1>c, TipoArchivo
    <3>2. cadena'[f] = cadena[f] /\ cadena[f][n] \in BloquesFAT /\ cadena[f][n] # indice
      BY <3>a, <1>h
    <3>3. fat'[cadena[f][n]] = fat[cadena[f][n]]
      BY <3>2 DEF FTypeOK
    <3> QED
      BY <3>1, <3>2, <3>3
  <2> QED
    BY <2>1, <2>2
<1>7. IDisjuntas'
  BY <1>g
<1>8. IOcupados'
  BY <1>g DEF FTypeOK, Sano, IOcupados
<1>9. IAsignar'
  BY <1>a, <1>c, <1>d, <1>e, <1>f DEF FTypeOK, Sano, IAsignar
<1>10. ILista'
  BY DEF FTypeOK, Sano, ILista, IPaso
<1>11. ICamino'
  BY DEF FTypeOK, Sano, ICamino, IPaso
<1> QED
  BY <1>1, <1>2, <1>3, <1>4, <1>5, <1>6, <1>7, <1>8, <1>9, <1>10, <1>11 DEF Sano

(* A block that is marked as the last was in no chain.                     *)
LEMMA AsignarOtroInv ==
  ASSUME FTypeOK, Sano, ~danio, AsignarOtro
  PROVE  FTypeOK' /\ (~danio' => Sano')
<1> USE FATAssumption, NadieAssumption DEF AsignarOtro, Asignando, pedido, historia, Sigue, Pasos,
      BloquesFAT, EOF, SinFCB, FCBVacio, Nadie
<1>1. FTypeOK'
  BY DEF FTypeOK, Sano, IPaso
<1>2. IPaso'
  BY DEF FTypeOK, Sano, IPaso
<1>3. ISinFCB'
  BY DEF FTypeOK, Sano, ISinFCB, IPaso
<1>4. ITamanio'
  BY DEF FTypeOK, Sano, ITamanio, IPaso
<1>5. IInicio'
  BY DEF FTypeOK, Sano, IInicio, PrimerBloque, IPaso
<1>6. IEnlace'
  <2>1. ~Achicando /\ ~Achicando' /\ indice \in BloquesFAT
    BY DEF FTypeOK, Sano, IAsignar, Achicando
  <2>2. ~EnCadena(indice)
    BY <2>1, LibreSinCadena
  <2>3. \A f \in Archivos : \A n \in 1..Len(cadena[f]) : fat'[cadena[f][n]] = fat[cadena[f][n]]
    BY <2>2, TipoArchivo DEF FTypeOK, EnCadena
  <2> QED
    BY <2>1, <2>3 DEF Sano, IEnlace
<1>7. IDisjuntas'
  BY DEF FTypeOK, Sano, IDisjuntas
<1>8. IOcupados'
  BY DEF FTypeOK, Sano, IOcupados, EnCadena, IPaso
<1>9. IAsignar'
  <2>1. indice \in BloquesFAT /\ ~Achicando
    BY DEF FTypeOK, Sano, IAsignar, Achicando
  <2>2. ~EnCadena(indice) /\ fat'[indice] = EOF
    BY <2>1, LibreSinCadena DEF FTypeOK
  <2> QED
    BY <2>2 DEF Sano, IAsignar, EnCadena
<1>10. ILista'
  BY DEF FTypeOK, Sano, ILista, IPaso
<1>11. ICamino'
  BY DEF FTypeOK, Sano, ICamino, IPaso
<1> QED
  BY <1>1, <1>2, <1>3, <1>4, <1>5, <1>6, <1>7, <1>8, <1>9, <1>10, <1>11 DEF Sano

(* The last block leads to the one that has just been marked.              *)
LEMMA EnlazarInv ==
  ASSUME FTypeOK, Sano, ~danio, Enlazar
  PROVE  FTypeOK' /\ (~danio' => Sano')
<1> USE FATAssumption, NadieAssumption DEF Enlazar, Sigue, Pasos, BloquesFAT, EOF, SinFCB, FCBVacio, Nadie
<1>a. arch \in Archivos /\ indice \in BloquesFAT /\ tamanio[arch] >= 0 /\ ~Achicando
  BY DEF FTypeOK, Sano, IPaso, IAsignar, Achicando
<1>b. ~EnCadena(indice)
  BY DEF Sano, IAsignar
<1>c. /\ cadena' \in [Archivos -> Seq(BloquesFAT)]
      /\ \A g \in Archivos : g # arch => cadena'[g] = cadena[g]
      /\ Len(cadena'[arch]) = Len(cadena[arch]) + 1
      /\ \A n \in 1..Len(cadena[arch]) : cadena'[arch][n] = cadena[arch][n]
      /\ cadena'[arch][Len(cadena[arch]) + 1] = indice
  BY <1>a, UltimoCadena
<1>d. \A f \in Archivos : Len(cadena[f]) \in Nat
  BY TipoArchivo
<1>e. /\ ini # 0 /\ PrimerBloque(arch) = ini /\ Len(cadena[arch]) > 0
      /\ bloque = cadena[arch][Len(cadena[arch])]
      /\ fat[indice] = EOF /\ resto > 0
  BY <1>a, <1>d DEF Sano, IInicio, IAsignar, PrimerBloque
<1>f. bloque' = indice /\ indice' = indice + 1 /\ resto' = resto - 1
  BY DEF Ultimo
<1>g. /\ ISinFCB' /\ ITamanio' /\ IDisjuntas'
      /\ \A b : EnCadena(b) \/ b = indice => EnCadena(b)'
  BY <1>a, <1>b, UltimoConserva
<1>h. \A f \in Archivos : \A n \in 1..Len(cadena[f]) : cadena[f][n] # indice
  BY <1>b DEF EnCadena
<1>1. FTypeOK'
  <2>1. fat' \in [0..(CantBloquesFAT - 1) -> BloquesFAT \cup {0, EOF}]
    BY <1>a DEF FTypeOK
  <2>2. bloque' \in BloquesFAT \cup {0, EOF} /\ indice' \in Nat /\ resto' \in Nat
    BY <1>a, <1>e, <1>f DEF FTypeOK
  <2>3. ini' \in BloquesFAT \cup {0} /\ paso' \in Pasos
    BY <1>a DEF FTypeOK
  <2> QED
    BY <1>c, <2>1, <2>2, <2>3 DEF FTypeOK
<1>2. IPaso'
  BY DEF FTypeOK, Sano, IPaso
<1>3. ISinFCB'
  BY <1>g
<1>4. ITamanio'
  BY <1>g
<1>5. IInicio'
  <2> SUFFICES ASSUME NEW f \in Archivos
               PROVE  /\ PrimerBloque(f)' = 0 <=> cadena'[f] = <<>>
                      /\ cadena'[f] # <<>> => cadena'[f][1] = PrimerBloque(f)'
    BY DEF IInicio
  <2>1. CASE f # arch
    BY <2>1, <1>c DEF Sano, IInicio, PrimerBloque
  <2>2. CASE f = arch
    <3>1. cadena'[f] # <<>> /\ PrimerBloque(f)' = ini
      BY <2>2, <1>a, <1>c, <1>d, <1>e DEF PrimerBloque
    <3>a. 1 \in 1..Len(cadena[arch])
      BY <1>a, <1>d, <1>e
    <3>2. cadena'[f][1] = cadena[f][1] /\ cadena[f] # <<>>
      <4>1. cadena'[f][1] = cadena[f][1]
        BY <2>2, <3>a, <1>c
      <4>2. Len(cadena[f]) > 0
        BY <2>2, <1>e
      <4> QED
        BY <4>1, <4>2
    <3>3. cadena[f][1] = ini
      BY <2>2, <3>2, <1>a, <1>e DEF Sano, IInicio
    <3> QED
      BY <3>1, <3>2, <3>3, <1>e
  <2> QED
    BY <2>1, <2>2
<1>6. IEnlace'
  <2> SUFFICES ASSUME NEW f \in Archivos, NEW n \in 1..Len(cadena'[f])
               PROVE  fat'[cadena'[f][n]] = IF n = Len(cadena'[f]) THEN EOF ELSE cadena'[f][n + 1]
    BY DEF IEnlace
  <2>1. bloque \in BloquesFAT /\ bloque # indice /\ fat'[bloque] = indice /\ fat'[indice] = EOF
    <3>1. Len(cadena[arch]) \in 1..Len(cadena[arch])
      BY <1>a, <1>d, <1>e
    <3>2. bloque \in BloquesFAT
      BY <3>1, <1>a, <1>e, SiguienteBloque
    <3>3. bloque # indice
      BY <3>1, <1>a, <1>e, <1>h
    <3>4. fat' = [fat EXCEPT ![bloque] = indice] /\ bloque \in DOMAIN fat /\ indice \in DOMAIN fat
      BY <3>2, <1>a DEF FTypeOK
    <3> QED
      BY <3>2, <3>3, <3>4, <1>e
  <2>2. CASE f = arch /\ n = Len(cadena[arch]) + 1
    BY <2>1, <2>2, <1>c
  <2>3. CASE n \in 1..Len(cadena[f])
    <3>1. fat[cadena[f][n]] = IF n = Len(cadena[f]) THEN EOF ELSE cadena[f][n + 1]
      BY <2>3, <1>a DEF Sano, IEnlace
    <3>2. cadena[f][n] = bloque <=> f = arch /\ n = Len(cadena[arch])
      <4>1. Len(cadena[arch]) \in 1..Len(cadena[arch])
        BY <1>a, <1>d, <1>e
      <4> QED
        BY <2>3, <4>1, <1>a, <1>e DEF Sano, IDisjuntas
    <3>3. cadena[f][n] \in BloquesFAT /\ cadena'[f][n] = cadena[f][n]
      BY <2>3, <1>a, <1>c, SiguienteBloque
    <3>4. cadena[f][n] # bloque => fat'[cadena[f][n]] = fat[cadena[f][n]]
      BY <3>3 DEF FTypeOK
    <3>5. CASE f = arch
      <4>1. Len(cadena'[f]) = Len(cadena[f]) + 1
        BY <3>5, <1>c
      <4>2. CASE n = Len(cadena[f])
        <5>1. cadena'[f][n + 1] = indice
          BY <3>5, <4>2, <1>c
        <5> QED
          BY <2>1, <3>2, <3>3, <3>5, <4>1, <4>2, <5>1, <1>d
      <4>3. CASE n # Len(cadena[f])
        <5>1. n + 1 \in 1..Len(cadena[f]) /\ n # Len(cadena'[f])
          BY <2>3, <4>1, <4>3, <1>d
        <5>2. cadena'[f][n + 1] = cadena[f][n + 1]
          BY <3>5, <5>1, <1>c
        <5> QED
          BY <3>1, <3>2, <3>3, <3>4, <3>5, <4>3, <5>1, <5>2
      <4> QED
        BY <4>2, <4>3
    <3>6. CASE f # arch
      BY <3>1, <3>2, <3>3, <3>4, <3>6, <1>c
    <3> QED
      BY <3>5, <3>6
  <2>4. n \in 1..Len(cadena[f]) \/ (f = arch /\ n = Len(cadena[arch]) + 1)
    BY <1>a, <1>c, <1>d
  <2> QED
    BY <2>2, <2>3, <2>4
<1>7. IDisjuntas'
  BY <1>g
<1>8. IOcupados'
  <2>1. EnCadena(bloque)
    BY <1>a, <1>d, <1>e DEF EnCadena
  <2>2. \A b \in BloquesFAT : fat'[b] # 0 => b = bloque \/ fat[b] # 0
    BY DEF FTypeOK
  <2> QED
    BY <2>1, <2>2, <1>g DEF Sano, IOcupados
<1>9. IAsignar'
  BY <1>a, <1>c, <1>d, <1>e, <1>f DEF FTypeOK, Sano, IAsignar
<1>10. ILista'
  BY DEF FTypeOK, Sano, ILista, IPaso
<1>11. ICamino'
  BY DEF FTypeOK, Sano, ICamino, IPaso
<1> QED
  BY <1>1, <1>2, <1>3, <1>4, <1>5, <1>6, <1>7, <1>8, <1>9, <1>10, <1>11 DEF Sano

(* The loop ends with the blocks that were asked for, or the promise ends. *)
LEMMA AsignarFinInv ==
  ASSUME FTypeOK, Sano, ~danio, AsignarFin
  PROVE  FTypeOK' /\ (~danio' => Sano')
<1> USE FATAssumption, NadieAssumption DEF AsignarFin, Asignando, disco, pedido, historia, Sigue, Pasos,
      BloquesFAT, EOF, SinFCB, FCBVacio, Nadie
<1>1. FTypeOK'
  BY DEF FTypeOK, Sano, IPaso
<1> SUFFICES ASSUME ~danio' PROVE Sano'
  BY <1>1
<1>2. IPaso'
  BY DEF FTypeOK, Sano, IPaso
<1>3. ISinFCB'
  BY DEF FTypeOK, Sano, ISinFCB, IPaso
<1>4. ITamanio'
  BY DEF FTypeOK, Sano, ITamanio, IPaso
<1>5. IInicio'
  BY DEF FTypeOK, Sano, IInicio, PrimerBloque, IPaso
<1>6. IEnlace'
  BY DEF FTypeOK, Sano, IEnlace, Achicando, IPaso
<1>7. IDisjuntas'
  BY DEF FTypeOK, Sano, IDisjuntas
<1>8. IOcupados'
  BY DEF FTypeOK, Sano, IOcupados, EnCadena, IPaso
<1>9. IAsignar'
  <2>0. ~(resto > 0)
    BY Zenon
  <2>1. resto = 0 /\ paso' = "guardar" /\ lista = <<>>
    BY <2>0 DEF FTypeOK, Sano, IPaso
  <2>2. nuevo <= Len(cadena[arch])
    BY <2>1, TipoArchivo DEF FTypeOK, Sano, IPaso, IAsignar
  <2> QED
    BY <2>1, <2>2 DEF IAsignar
<1>10. ILista'
  BY DEF FTypeOK, Sano, ILista, IPaso
<1>11. ICamino'
  BY DEF FTypeOK, Sano, ICamino, IPaso
<1> QED
  BY <1>2, <1>3, <1>4, <1>5, <1>6, <1>7, <1>8, <1>9, <1>10, <1>11 DEF Sano

(* The list of blocks begins with the first one.                           *)
LEMMA AchicarInv ==
  ASSUME NEW f \in Archivos, NEW t \in Tamanios, FTypeOK, Sano, ~danio, Achicar(f, t)
  PROVE  FTypeOK' /\ (~danio' => Sano')
<1> USE FATAssumption, NadieAssumption DEF Achicar, Truncar, disco, historia, Sigue, Pasos, BloquesFAT,
      EOF, SinFCB, FCBVacio, Nadie
<1>1. FTypeOK'
  <2>1. t \in Nat /\ tamanio[f] \in Nat /\ t < tamanio[f] /\ resto' = tamanio[f] - t
    BY TipoArchivo
  <2>2. resto' \in Nat
    BY <2>1
  <2>3. inicial[f] \in BloquesFAT \cup {0}
    BY TipoArchivo
  <2>4. lista' = <<>> \/ (inicial[f] \in BloquesFAT /\ lista' = <<inicial[f]>>)
    BY <2>3
  <2>5. paso' \in Pasos /\ arch' = f /\ nuevo' = t /\ ini' = inicial[f] /\ indice' = 1 /\ bloque' =
      inicial[f]
    OBVIOUS
  <2>6. UNCHANGED <<tamanio, inicial, fat, bloques, dato, cadena, perdidos, leido, danio, caidas>>
    OBVIOUS
  <2> HIDE DEF Achicar
  <2>7. lista' \in Seq(BloquesFAT)
    <3>1. CASE lista' = <<>>
      BY <3>1
    <3>2. CASE inicial[f] \in BloquesFAT /\ lista' = <<inicial[f]>>
      <4>1. <<inicial[f]>> \in Seq(BloquesFAT)
        BY <3>2
      <4> QED
        BY <3>2, <4>1
    <3> QED
      BY <2>4, <3>1, <3>2
  <2> QED
    BY <2>1, <2>2, <2>3, <2>5, <2>6, <2>7 DEF FTypeOK
<1>2. IPaso'
  BY DEF FTypeOK, Sano, IPaso
<1>3. ISinFCB'
  BY DEF FTypeOK, Sano, ISinFCB, IPaso
<1>4. ITamanio'
  BY DEF FTypeOK, Sano, ITamanio, IPaso
<1>5. IInicio'
  BY DEF FTypeOK, Sano, IInicio, PrimerBloque, IPaso
<1>6. IEnlace'
  BY DEF FTypeOK, Sano, IEnlace, Achicando, IPaso
<1>7. IDisjuntas'
  BY DEF FTypeOK, Sano, IDisjuntas
<1>8. IOcupados'
  BY DEF FTypeOK, Sano, IOcupados, EnCadena, IPaso
<1>9. IAsignar'
  <2>0. arch = Nadie
    BY DEF Sano, IPaso
  <2>1. t \in Nat /\ tamanio[f] \in Nat /\ t < tamanio[f]
    BY TipoArchivo
  <2>2. /\ tamanio[f] <= Len(cadena[f]) /\ Len(cadena[f]) \in Nat
        /\ inicial[f] # 0 /\ cadena[f][1] = inicial[f]
    BY <2>0, <2>1, InicioCadena, NadieAssumption
  <2>3. paso' = "listar" /\ lista' = <<inicial[f]>> /\ bloque' = inicial[f]
    BY <2>2

  <2> QED
    BY <2>3 DEF IAsignar
<1>10. ILista'
  <2>0. arch = Nadie
    BY DEF Sano, IPaso
  <2>1. t \in Nat /\ tamanio[f] \in Nat /\ t < tamanio[f]
    BY TipoArchivo
  <2>2. /\ tamanio[f] <= Len(cadena[f]) /\ Len(cadena[f]) \in Nat
        /\ inicial[f] # 0 /\ cadena[f][1] = inicial[f]
    BY <2>0, <2>1, InicioCadena, NadieAssumption
  <2>3. paso' = "listar" /\ lista' = <<inicial[f]>> /\ bloque' = inicial[f]
    BY <2>2

  <2>4. Len(lista') = 1 /\ lista'[1] = inicial[f]
    BY <2>3
  <2> QED
    BY <2>1, <2>2, <2>3, <2>4 DEF ILista
<1>11. ICamino'
  BY DEF FTypeOK, Sano, ICamino, IPaso
<1> QED
  BY <1>1, <1>2, <1>3, <1>4, <1>5, <1>6, <1>7, <1>8, <1>9, <1>10, <1>11 DEF Sano

(* The list is a prefix of the chain.                                      *)
LEMMA ListarBloqueInv ==
  ASSUME FTypeOK, Sano, ~danio, ListarBloque
  PROVE  FTypeOK' /\ (~danio' => Sano')
<1> USE FATAssumption, NadieAssumption DEF ListarBloque, disco, historia, Sigue, Pasos, BloquesFAT, EOF,
      SinFCB, FCBVacio, Nadie
<1>1. FTypeOK'
  <2>0. lista \in Seq(BloquesFAT) /\ Len(lista) \in Nat
    BY DEF FTypeOK
  <2>a. arch \in Archivos /\ tamanio[arch] >= 0
    BY DEF Sano, IPaso
  <2>b. tamanio[arch] \in Nat /\ tamanio[arch] <= Len(cadena[arch])
    BY <2>a, InicioCadena
  <2>c. /\ 1 <= Len(lista) /\ bloque = lista[Len(lista)]
        /\ \A n \in 1..Len(lista) : lista[n] = cadena[arch][n]
    BY DEF Sano, ILista
  <2>d. Len(lista) < tamanio[arch]
    OBVIOUS
  <2>1. /\ Len(lista) \in 1..Len(cadena[arch]) /\ Len(lista) < Len(cadena[arch])
        /\ lista[Len(lista)] = cadena[arch][Len(lista)]
    <3> HIDE DEF ListarBloque
    <3> QED
      BY <2>0, <2>a, <2>b, <2>c, <2>d, TipoArchivo
  <2>2. /\ Len(lista) + 1 \in 1..Len(cadena[arch])
        /\ fat[bloque] = cadena[arch][Len(lista) + 1]
    BY <2>1, <2>a, <2>c, SiguienteBloque DEF Achicando
  <2>3. fat[bloque] \in BloquesFAT
    BY <2>2, <2>a, TipoArchivo

  <2>4. Append(lista, fat[bloque]) \in Seq(BloquesFAT)
    BY <2>0, <2>3
  <2> QED
    BY <2>3, <2>4 DEF FTypeOK
<1>2. IPaso'
  BY DEF FTypeOK, Sano, IPaso
<1>3. ISinFCB'
  BY DEF FTypeOK, Sano, ISinFCB, IPaso
<1>4. ITamanio'
  BY DEF FTypeOK, Sano, ITamanio, IPaso
<1>5. IInicio'
  BY DEF FTypeOK, Sano, IInicio, PrimerBloque, IPaso
<1>6. IEnlace'
  BY DEF FTypeOK, Sano, IEnlace, Achicando, IPaso
<1>7. IDisjuntas'
  BY DEF FTypeOK, Sano, IDisjuntas
<1>8. IOcupados'
  BY DEF FTypeOK, Sano, IOcupados, EnCadena, IPaso
<1>9. IAsignar'
  BY DEF FTypeOK, Sano, IAsignar, EnCadena, IPaso
<1>10. ILista'
  <2>0. lista \in Seq(BloquesFAT) /\ Len(lista) \in Nat
    BY DEF FTypeOK
  <2>a. arch \in Archivos /\ tamanio[arch] >= 0
    BY DEF Sano, IPaso
  <2>b. tamanio[arch] \in Nat /\ tamanio[arch] <= Len(cadena[arch])
    BY <2>a, InicioCadena
  <2>c. /\ 1 <= Len(lista) /\ bloque = lista[Len(lista)]
        /\ \A n \in 1..Len(lista) : lista[n] = cadena[arch][n]
    BY DEF Sano, ILista
  <2>d. Len(lista) < tamanio[arch]
    OBVIOUS
  <2>1. /\ Len(lista) \in 1..Len(cadena[arch]) /\ Len(lista) < Len(cadena[arch])
        /\ lista[Len(lista)] = cadena[arch][Len(lista)]
    <3> HIDE DEF ListarBloque
    <3> QED
      BY <2>0, <2>a, <2>b, <2>c, <2>d, TipoArchivo
  <2>2. /\ Len(lista) + 1 \in 1..Len(cadena[arch])
        /\ fat[bloque] = cadena[arch][Len(lista) + 1]
    BY <2>1, <2>a, <2>c, SiguienteBloque DEF Achicando
  <2>3. fat[bloque] \in BloquesFAT
    BY <2>2, <2>a, TipoArchivo

  <2>4. /\ Len(lista') = Len(lista) + 1 /\ lista'[Len(lista) + 1] = fat[bloque]
        /\ \A n \in 1..Len(lista) : lista'[n] = lista[n]
    BY <2>0, <2>3
  <2>5. /\ nuevo < tamanio[arch] /\ resto = tamanio[arch] - nuevo
        /\ \A n \in 1..Len(lista) : lista[n] = cadena[arch][n]
    BY DEF Sano, ILista
  <2>6. \A n \in 1..Len(lista') : lista'[n] = cadena[arch][n]
    BY <2>0, <2>2, <2>4, <2>5
  <2> QED
    BY <2>0, <2>b, <2>4, <2>5, <2>6 DEF ILista
<1>11. ICamino'
  BY DEF FTypeOK, Sano, ICamino, IPaso
<1> QED
  BY <1>1, <1>2, <1>3, <1>4, <1>5, <1>6, <1>7, <1>8, <1>9, <1>10, <1>11 DEF Sano

(* The list has the blocks that the size says.                             *)
LEMMA ListadoInv ==
  ASSUME FTypeOK, Sano, ~danio, Listado
  PROVE  FTypeOK' /\ (~danio' => Sano')
<1> USE FATAssumption, NadieAssumption DEF Listado, disco, historia, Sigue, Pasos, BloquesFAT, EOF,
      SinFCB, FCBVacio, Nadie
<1>1. FTypeOK'
  BY DEF FTypeOK, Sano, IPaso
<1>2. IPaso'
  BY DEF FTypeOK, Sano, IPaso
<1>3. ISinFCB'
  BY DEF FTypeOK, Sano, ISinFCB, IPaso
<1>4. ITamanio'
  BY DEF FTypeOK, Sano, ITamanio, IPaso
<1>5. IInicio'
  BY DEF FTypeOK, Sano, IInicio, PrimerBloque, IPaso
<1>6. IEnlace'
  BY DEF FTypeOK, Sano, IEnlace, Achicando, IPaso
<1>7. IDisjuntas'
  BY DEF FTypeOK, Sano, IDisjuntas
<1>8. IOcupados'
  BY DEF FTypeOK, Sano, IOcupados, EnCadena, IPaso
<1>9. IAsignar'
  BY DEF FTypeOK, Sano, IAsignar, EnCadena, IPaso
<1>10. ILista'
  <2>0. lista \in Seq(BloquesFAT) /\ Len(lista) \in Nat
    BY DEF FTypeOK
  <2>a. arch \in Archivos /\ tamanio[arch] >= 0
    BY DEF Sano, IPaso
  <2>b. tamanio[arch] \in Nat /\ tamanio[arch] <= Len(cadena[arch]) /\ Len(cadena[arch]) \in Nat
    BY <2>a, InicioCadena
  <2>1. /\ nuevo < tamanio[arch] /\ resto = tamanio[arch] - nuevo
        /\ 1 <= Len(lista) /\ Len(lista) = tamanio[arch]
        /\ \A n \in 1..Len(lista) : lista[n] = cadena[arch][n]
    BY <2>0, <2>b DEF Sano, ILista
  <2>2. ASSUME NEW n \in 1..(Len(lista) - 1)
        PROVE  fat[cadena[arch][n]] = cadena[arch][n + 1]
    <3>1. n \in 1..Len(cadena[arch]) /\ n < Len(cadena[arch])
      BY <2>0, <2>b, <2>1
    <3> QED
      BY <3>1, <2>a, SiguienteBloque DEF Achicando
  <2>3. nuevo \in Nat
    BY DEF FTypeOK
  <2> QED
    <3>1. /\ paso' = "borrar" /\ indice' = 0
          /\ UNCHANGED <<fat, tamanio, cadena, arch, nuevo, resto, lista>>
      OBVIOUS
    <3>2. /\ nuevo' < tamanio'[arch'] /\ resto' = tamanio'[arch'] - nuevo'
          /\ 1 <= Len(lista') /\ Len(lista') <= tamanio'[arch']
          /\ \A n \in 1..Len(lista') : lista'[n] = cadena'[arch'][n]
      BY <2>b, <2>1, <3>1
    <3>3. Len(lista') = tamanio'[arch'] /\ indice' <= resto'
      BY <2>b, <2>1, <2>3, <3>1
    <3>4. \A n \in 1..(Len(lista') - indice' - 1) : fat'[cadena'[arch'][n]] = cadena'[arch'][n + 1]
      <4>1. Len(lista') - indice' - 1 = Len(lista) - 1
        BY <2>0, <3>1
      <4> QED
        BY <2>2, <3>1, <4>1
    <3>5. \A n \in (Len(lista') - indice' + 1)..Len(lista') : fat'[lista'[n]] = 0
      <4>1. Len(lista') - indice' + 1 = Len(lista') + 1 /\ Len(lista') \in Nat
        BY <2>0, <3>1
      <4>2. \A n \in (Len(lista') + 1)..Len(lista') : FALSE
        BY <4>1
      <4> QED
        BY <4>1, <4>2
    <3>6. paso' # "listar" /\ paso' # "guardar"
      BY <3>1
    <3> HIDE DEF Listado
    <3> QED
      BY <3>2, <3>3, <3>4, <3>5, <3>6 DEF ILista
<1>11. ICamino'
  BY DEF FTypeOK, Sano, ICamino, IPaso
<1> QED
  BY <1>1, <1>2, <1>3, <1>4, <1>5, <1>6, <1>7, <1>8, <1>9, <1>10, <1>11 DEF Sano

(* The last blocks are freed one by one; the rest are still linked.        *)
LEMMA BorrarBloqueInv ==
  ASSUME FTypeOK, Sano, ~danio, BorrarBloque
  PROVE  FTypeOK' /\ (~danio' => Sano')
<1> USE FATAssumption, NadieAssumption DEF Sigue, Pasos, BloquesFAT, EOF, SinFCB, FCBVacio, Nadie
<1> DEFINE k == Len(lista) - indice
<1>0. /\ fat' = [fat EXCEPT ![lista[k]] = 0]
      /\ paso' = "borrar" /\ indice' = indice + 1 /\ indice < resto
      /\ lista' = lista /\ arch' = arch /\ cadena' = cadena /\ tamanio' = tamanio /\ nuevo' = nuevo
      /\ resto' = resto /\ perdidos' = perdidos /\ paso = "borrar" /\ indice < Len(lista)
  BY DEF BorrarBloque, historia
<1>a. /\ arch \in Archivos /\ tamanio[arch] >= 0
      /\ lista \in Seq(BloquesFAT) /\ Len(lista) \in Nat /\ indice \in Nat /\ nuevo \in Nat
  BY <1>0 DEF FTypeOK, Sano, IPaso
<1>b. Len(cadena[arch]) \in Nat /\ tamanio[arch] <= Len(cadena[arch])
  BY <1>0, <1>a, InicioCadena
<1>c. /\ nuevo < tamanio[arch] /\ resto = tamanio[arch] - nuevo
      /\ Len(lista) = tamanio[arch] /\ indice <= resto
      /\ \A n \in 1..Len(lista) : lista[n] = cadena[arch][n]
      /\ \A n \in 1..(k - 1) : fat[cadena[arch][n]] = cadena[arch][n + 1]
      /\ \A n \in (k + 1)..Len(lista) : fat[lista[n]] = 0
  BY <1>0 DEF Sano, ILista
<1>d. /\ k \in 1..Len(lista) /\ k \in 1..Len(cadena[arch]) /\ Len(lista) <= Len(cadena[arch])
      /\ lista[k] = cadena[arch][k]
  <2>1. Len(lista) = tamanio[arch] /\ indice < Len(lista)
    BY <1>0, <1>c
  <2>2. k \in 1..Len(lista) /\ k \in 1..Len(cadena[arch]) /\ Len(lista) <= Len(cadena[arch])
    BY <2>1, <1>a, <1>b
  <2> HIDE DEF k
  <2> QED
    BY <2>2, <1>c
<1>k. /\ k = Len(lista) - indice /\ k \in Nat \ {0} /\ Len(lista) \in Nat /\ k <= Len(lista)
      /\ Len(cadena[arch]) \in Nat /\ Len(lista) <= Len(cadena[arch])
  BY <1>a, <1>b, <1>d
<1> HIDE DEF k
<1>e. \A f \in Archivos : \A n \in 1..Len(cadena[f]) : cadena[f][n] \in BloquesFAT
  BY TipoArchivo
<1>f. \A f \in Archivos : \A n \in 1..Len(cadena[f]) :
        ~(f = arch /\ n = k) => fat'[cadena[f][n]] = fat[cadena[f][n]]
  <2> SUFFICES ASSUME NEW f \in Archivos, NEW n \in 1..Len(cadena[f]), ~(f = arch /\ n = k)
               PROVE  fat'[cadena[f][n]] = fat[cadena[f][n]]
    OBVIOUS
  <2>1. cadena[f][n] # lista[k]
    BY <1>a, <1>d DEF Sano, IDisjuntas
  <2>2. cadena[f][n] \in BloquesFAT
    BY <1>e
  <2> QED
    BY <1>0, <2>1, <2>2 DEF FTypeOK
<1>g. lista[k] \in BloquesFAT /\ fat'[lista[k]] = 0
  BY <1>0, <1>a, <1>d, <1>e DEF FTypeOK
<1>h. lista # <<>>
  BY <1>d
<1>1. FTypeOK'
  BY DEF FTypeOK, Sano, IPaso, BorrarBloque, historia
<1>2. IPaso'
  BY DEF FTypeOK, Sano, IPaso, BorrarBloque, historia
<1>3. ISinFCB'
  BY DEF FTypeOK, Sano, ISinFCB, IPaso, BorrarBloque, historia
<1>4. ITamanio'
  BY DEF FTypeOK, Sano, ITamanio, IPaso, BorrarBloque, historia
<1>5. IInicio'
  BY DEF FTypeOK, Sano, IInicio, PrimerBloque, IPaso, BorrarBloque, historia
<1>6. IEnlace'
  <2> SUFFICES ASSUME NEW f \in Archivos, f # arch
               PROVE  \A n \in 1..Len(cadena[f]) :
                        fat'[cadena[f][n]] = IF n = Len(cadena[f]) THEN EOF ELSE cadena[f][n + 1]
    <3>1. Achicando'
      BY <1>0, <1>a, <1>h DEF Achicando
    <3> QED
      BY <1>0, <3>1 DEF IEnlace
  <2>1. \A n \in 1..Len(cadena[f]) :
          fat[cadena[f][n]] = IF n = Len(cadena[f]) THEN EOF ELSE cadena[f][n + 1]
    BY <1>0 DEF Sano, IEnlace, Achicando
  <2> QED
    BY <1>0, <2>1, <1>f
<1>7. IDisjuntas'
  BY DEF FTypeOK, Sano, IDisjuntas, BorrarBloque, historia
<1>8. IOcupados'
  BY DEF FTypeOK, Sano, IOcupados, EnCadena, IPaso, BorrarBloque, historia
<1>9. IAsignar'
  BY DEF FTypeOK, Sano, IAsignar, EnCadena, IPaso, BorrarBloque, historia
<1>10. ILista'
  <2>1. \A n \in 1..(k - 1) : fat'[cadena[arch][n]] = cadena[arch][n + 1]
    <3> SUFFICES ASSUME NEW n \in 1..(k - 1) PROVE fat'[cadena[arch][n]] = cadena[arch][n + 1]
      OBVIOUS
    <3>1. n \in 1..Len(cadena[arch]) /\ n # k
      BY <1>k
    <3> QED
      BY <3>1, <1>a, <1>c, <1>f
  <2>2. \A n \in (k + 1)..Len(lista) : fat'[lista[n]] = 0
    <3> SUFFICES ASSUME NEW n \in (k + 1)..Len(lista) PROVE fat'[lista[n]] = 0
      OBVIOUS
    <3>1. n \in 1..Len(lista) /\ n \in 1..Len(cadena[arch]) /\ n # k
      BY <1>k
    <3>2. fat[lista[n]] = 0 /\ lista[n] = cadena[arch][n]
      BY <3>1, <1>c
    <3> QED
      BY <3>1, <3>2, <1>a, <1>f

  <2>3. \A n \in k..Len(lista) : fat'[lista[n]] = 0
    <3> SUFFICES ASSUME NEW n \in k..Len(lista) PROVE fat'[lista[n]] = 0
      OBVIOUS
    <3>1. n = k \/ n \in (k + 1)..Len(lista)
      BY <1>k
    <3> QED
      BY <2>2, <3>1, <1>g
  <2>4. indice' <= resto
    BY <1>0, <1>a, <1>b, <1>c
  <2>5. Len(lista) - indice' - 1 = k - 2 /\ Len(lista) - indice' + 1 = k
    BY <1>0, <1>a, <1>k
  <2>6. \A n \in 1..(Len(lista) - indice' - 1) : fat'[cadena[arch][n]] = cadena[arch][n + 1]
    BY <2>1, <2>5, <1>k
  <2> QED
    BY <2>3, <2>4, <2>5, <2>6, <1>0, <1>c, <1>d DEF ILista
<1>11. ICamino'
  BY DEF FTypeOK, Sano, ICamino, IPaso, BorrarBloque, historia
<1> QED
  BY <1>1, <1>2, <1>3, <1>4, <1>5, <1>6, <1>7, <1>8, <1>9, <1>10, <1>11 DEF Sano

(* The block that becomes the last is marked.                              *)
LEMMA BorradoInv ==
  ASSUME FTypeOK, Sano, ~danio, Borrado
  PROVE  FTypeOK' /\ (~danio' => Sano')
<1> USE FATAssumption, NadieAssumption DEF Sigue, Pasos, BloquesFAT, EOF, SinFCB, FCBVacio, Nadie
<1> DEFINE k == Len(lista) - indice
<1>0. /\ fat' = [fat EXCEPT ![lista[k]] = EOF]
      /\ paso' = "guardar" /\ indice' = indice /\ indice = resto
      /\ lista' = lista /\ arch' = arch /\ cadena' = cadena /\ tamanio' = tamanio /\ nuevo' = nuevo
      /\ resto' = resto /\ perdidos' = perdidos /\ paso = "borrar" /\ indice < Len(lista)
  BY DEF Borrado, pedido, historia
<1>a. /\ arch \in Archivos /\ tamanio[arch] >= 0
      /\ lista \in Seq(BloquesFAT) /\ Len(lista) \in Nat /\ indice \in Nat /\ nuevo \in Nat
  BY <1>0 DEF FTypeOK, Sano, IPaso
<1>b. Len(cadena[arch]) \in Nat /\ tamanio[arch] <= Len(cadena[arch])
  BY <1>0, <1>a, InicioCadena
<1>c. /\ nuevo < tamanio[arch] /\ resto = tamanio[arch] - nuevo
      /\ Len(lista) = tamanio[arch] /\ indice <= resto
      /\ \A n \in 1..Len(lista) : lista[n] = cadena[arch][n]
      /\ \A n \in 1..(k - 1) : fat[cadena[arch][n]] = cadena[arch][n + 1]
      /\ \A n \in (k + 1)..Len(lista) : fat[lista[n]] = 0
  BY <1>0 DEF Sano, ILista
<1>d. /\ k \in 1..Len(lista) /\ k \in 1..Len(cadena[arch]) /\ Len(lista) <= Len(cadena[arch])
      /\ lista[k] = cadena[arch][k]
  <2>1. Len(lista) = tamanio[arch] /\ indice < Len(lista)
    BY <1>0, <1>c
  <2>2. k \in 1..Len(lista) /\ k \in 1..Len(cadena[arch]) /\ Len(lista) <= Len(cadena[arch])
    BY <2>1, <1>a, <1>b
  <2> HIDE DEF k
  <2> QED
    BY <2>2, <1>c
<1>k. /\ k = Len(lista) - indice /\ k \in Nat \ {0} /\ Len(lista) \in Nat /\ k <= Len(lista)
      /\ Len(cadena[arch]) \in Nat /\ Len(lista) <= Len(cadena[arch])
  BY <1>a, <1>b, <1>d
<1> HIDE DEF k
<1>e. \A f \in Archivos : \A n \in 1..Len(cadena[f]) : cadena[f][n] \in BloquesFAT
  BY TipoArchivo
<1>f. \A f \in Archivos : \A n \in 1..Len(cadena[f]) :
        ~(f = arch /\ n = k) => fat'[cadena[f][n]] = fat[cadena[f][n]]
  <2> SUFFICES ASSUME NEW f \in Archivos, NEW n \in 1..Len(cadena[f]), ~(f = arch /\ n = k)
               PROVE  fat'[cadena[f][n]] = fat[cadena[f][n]]
    OBVIOUS
  <2>1. cadena[f][n] # lista[k]
    BY <1>a, <1>d DEF Sano, IDisjuntas
  <2>2. cadena[f][n] \in BloquesFAT
    BY <1>e
  <2> QED
    BY <1>0, <2>1, <2>2 DEF FTypeOK
<1>g. lista[k] \in BloquesFAT /\ fat'[lista[k]] = EOF
  BY <1>0, <1>a, <1>d, <1>e DEF FTypeOK
<1>h. lista # <<>>
  BY <1>d
<1>1. FTypeOK'
  BY DEF FTypeOK, Sano, IPaso, Borrado, pedido, historia
<1>2. IPaso'
  BY DEF FTypeOK, Sano, IPaso, Borrado, pedido, historia
<1>3. ISinFCB'
  BY DEF FTypeOK, Sano, ISinFCB, IPaso, Borrado, pedido, historia
<1>4. ITamanio'
  BY DEF FTypeOK, Sano, ITamanio, IPaso, Borrado, pedido, historia
<1>5. IInicio'
  BY DEF FTypeOK, Sano, IInicio, PrimerBloque, IPaso, Borrado, pedido, historia
<1>6. IEnlace'
  <2> SUFFICES ASSUME NEW f \in Archivos, f # arch
               PROVE  \A n \in 1..Len(cadena[f]) :
                        fat'[cadena[f][n]] = IF n = Len(cadena[f]) THEN EOF ELSE cadena[f][n + 1]
    <3>1. Achicando'
      BY <1>0, <1>h DEF Achicando
    <3> QED
      BY <1>0, <3>1 DEF IEnlace
  <2>1. \A n \in 1..Len(cadena[f]) :
          fat[cadena[f][n]] = IF n = Len(cadena[f]) THEN EOF ELSE cadena[f][n + 1]
    BY <1>0 DEF Sano, IEnlace, Achicando
  <2> QED
    BY <1>0, <2>1, <1>f
<1>7. IDisjuntas'
  BY DEF FTypeOK, Sano, IDisjuntas, Borrado, pedido, historia
<1>8. IOcupados'
  <2>1. EnCadena(lista[k])
    BY <1>a, <1>d DEF EnCadena
  <2>2. \A b \in BloquesFAT : fat'[b] # 0 => b = lista[k] \/ fat[b] # 0
    BY <1>0 DEF FTypeOK
  <2> QED
    BY <2>1, <2>2, <1>0 DEF Sano, IOcupados, EnCadena
<1>9. IAsignar'
  BY DEF FTypeOK, Sano, IAsignar, EnCadena, IPaso, Borrado, pedido, historia
<1>10. ILista'
  <2>1. \A n \in 1..(k - 1) : fat'[cadena[arch][n]] = cadena[arch][n + 1]
    <3> SUFFICES ASSUME NEW n \in 1..(k - 1) PROVE fat'[cadena[arch][n]] = cadena[arch][n + 1]
      OBVIOUS
    <3>1. n \in 1..Len(cadena[arch]) /\ n # k
      BY <1>k
    <3> QED
      BY <3>1, <1>a, <1>c, <1>f
  <2>2. \A n \in (k + 1)..Len(lista) : fat'[lista[n]] = 0
    <3> SUFFICES ASSUME NEW n \in (k + 1)..Len(lista) PROVE fat'[lista[n]] = 0
      OBVIOUS
    <3>1. n \in 1..Len(lista) /\ n \in 1..Len(cadena[arch]) /\ n # k
      BY <1>k
    <3>2. fat[lista[n]] = 0 /\ lista[n] = cadena[arch][n]
      BY <3>1, <1>c
    <3> QED
      BY <3>1, <3>2, <1>a, <1>f
  <2>3. /\ nuevo' < tamanio'[arch'] /\ resto' = tamanio'[arch'] - nuevo'
        /\ 1 <= Len(lista') /\ Len(lista') <= tamanio'[arch']
        /\ \A n \in 1..Len(lista') : lista'[n] = cadena'[arch'][n]
    BY <1>0, <1>c, <1>k
  <2>4. Len(lista') - indice' = k
    BY <1>0, <1>k
  <2>5. /\ Len(lista') = tamanio'[arch'] /\ indice' <= resto'
        /\ \A n \in 1..(Len(lista') - indice' - 1) : fat'[cadena'[arch'][n]] = cadena'[arch'][n + 1]
        /\ \A n \in (Len(lista') - indice' + 1)..Len(lista') : fat'[lista'[n]] = 0
    BY <2>1, <2>2, <2>4, <1>0, <1>c
  <2>6. indice' = resto' /\ indice' < Len(lista') /\ fat'[lista'[Len(lista') - indice']] = EOF
    BY <2>4, <1>0, <1>g
  <2>7. paso' # "listar"
    BY <1>0
  <2> QED
    BY <2>3, <2>5, <2>6, <2>7 DEF ILista
<1>11. ICamino'
  BY DEF FTypeOK, Sano, ICamino, IPaso, Borrado, pedido, historia
<1> QED
  BY <1>1, <1>2, <1>3, <1>4, <1>5, <1>6, <1>7, <1>8, <1>9, <1>10, <1>11 DEF Sano

(* The FCB gets the size and the first block of the chain as it is now.    *)
LEMMA GuardarInv ==
  ASSUME FTypeOK, Sano, ~danio, Guardar
  PROVE  FTypeOK' /\ (~danio' => Sano')
<1> USE FATAssumption, NadieAssumption DEF Sigue, Pasos, BloquesFAT, EOF, SinFCB, FCBVacio, Nadie
<1> DEFINE G == /\ cadena' \in [Archivos -> Seq(BloquesFAT)] /\ perdidos' \subseteq BloquesFAT
                /\ ISinFCB' /\ ITamanio' /\ IInicio' /\ IEnlace' /\ IDisjuntas' /\ IOcupados'
<1> HIDE DEF G
<1> DEFINE k == Len(lista) - indice
<1>0. /\ tamanio' = [tamanio EXCEPT ![arch] = nuevo] /\ inicial' = [inicial EXCEPT ![arch] = ini]
      /\ paso = "guardar" /\ paso' = "libre" /\ arch' = Nadie /\ lista' = <<>>
      /\ fat' = fat
  BY DEF Guardar, NadaEnCurso
<1>a. /\ arch \in Archivos /\ tamanio[arch] >= 0
      /\ lista \in Seq(BloquesFAT) /\ Len(lista) \in Nat /\ indice \in Nat /\ nuevo \in Nat
      /\ ini \in BloquesFAT \cup {0}
  BY <1>0 DEF FTypeOK, Sano, IPaso
<1>b. /\ \A f \in Archivos : cadena[f] \in Seq(BloquesFAT) /\ Len(cadena[f]) \in Nat
      /\ tamanio[arch] \in Nat
  BY <1>a, TipoArchivo
<1>c. ASSUME lista = <<>> PROVE G
  <2>1. cadena' = cadena /\ perdidos' = perdidos /\ nuevo <= Len(cadena[arch]) /\ ~Achicando
    BY <1>0, <1>c DEF Guardar, Sano, IAsignar, Achicando
  <2>2. PrimerBloque(arch) = ini /\ (ini = 0 <=> cadena[arch] = <<>>)
    BY <1>0, <1>a DEF Sano, IInicio, PrimerBloque
  <2>3. ITamanio'
    BY <1>0, <1>a, <1>b, <2>1, <2>2 DEF FTypeOK, Sano, ITamanio
  <2>4. IInicio'
    BY <1>0, <1>a, <2>1, <2>2 DEF FTypeOK, Sano, IInicio, PrimerBloque
  <2>5. IEnlace' /\ IDisjuntas' /\ IOcupados'
    <3>1. IEnlace'
      BY <1>0, <2>1 DEF Sano, IEnlace
    <3>2. IDisjuntas' /\ IOcupados'
      BY <1>0, <2>1 DEF Sano, IDisjuntas, IOcupados, EnCadena
    <3> QED
      BY <3>1, <3>2
  <2>6. cadena' \in [Archivos -> Seq(BloquesFAT)] /\ perdidos' \subseteq BloquesFAT
    BY <2>1 DEF FTypeOK
  <2>7. ISinFCB'
    BY <1>0, <1>a, <2>1 DEF FTypeOK, Sano, ISinFCB
  <2> QED
    BY <2>3, <2>4, <2>5, <2>6, <2>7 DEF G
<1>d. ASSUME lista # <<>> PROVE G
  <2>1. /\ cadena' = [cadena EXCEPT ![arch] = SubSeq(lista, 1, k)]
        /\ perdidos' = perdidos \cup {cadena[arch][n] : n \in (Len(lista) + 1)..Len(cadena[arch])}
    BY <1>d DEF Guardar
  <2>2. /\ nuevo < tamanio[arch] /\ Len(lista) = tamanio[arch] /\ indice = tamanio[arch] - nuevo
        /\ indice < Len(lista)
    BY <1>0, <1>d DEF Sano, ILista
  <2>a. /\ \A n \in 1..Len(lista) : lista[n] = cadena[arch][n]
        /\ \A n \in 1..(k - 1) : fat[cadena[arch][n]] = cadena[arch][n + 1]
        /\ \A n \in (k + 1)..Len(lista) : fat[lista[n]] = 0
        /\ fat[lista[k]] = EOF
    BY <1>0, <1>d DEF Sano, ILista
  <2>3. /\ ini # 0 /\ ini = inicial[arch] /\ tamanio[arch] <= Len(cadena[arch])
        /\ cadena[arch] # <<>> /\ cadena[arch][1] = ini
    BY <1>0, <1>a, <1>d DEF Sano, IPaso, ITamanio, IInicio, PrimerBloque
  <2>4. k = nuevo /\ k \in 1..Len(lista) /\ Len(lista) <= Len(cadena[arch])
    <3>1. Len(cadena[arch]) \in Nat /\ tamanio[arch] \in Nat /\ tamanio[arch] <= Len(cadena[arch])
      BY <1>a, <1>b, <2>3
    <3> QED
      BY <1>a, <2>2, <3>1
  <2>b. k \in Nat
    BY <1>a, <2>4
  <2> HIDE DEF k
  <2>5. /\ SubSeq(lista, 1, k) \in Seq(BloquesFAT) /\ Len(SubSeq(lista, 1, k)) = k
        /\ \A n \in 1..k : SubSeq(lista, 1, k)[n] = lista[n]
    BY <1>a, <2>4
  <2>6. cadena' \in [Archivos -> Seq(BloquesFAT)] /\ perdidos' \subseteq BloquesFAT
    <3>1. cadena' \in [Archivos -> Seq(BloquesFAT)]
      BY <1>a, <1>b, <2>1, <2>5 DEF FTypeOK
    <3>2. ASSUME NEW n \in (Len(lista) + 1)..Len(cadena[arch]) PROVE cadena[arch][n] \in BloquesFAT
      <4>1. n \in 1..Len(cadena[arch])
        BY <1>a
      <4> QED
        BY <4>1, <1>a, <1>b
    <3>3. ASSUME NEW b \in perdidos' PROVE b \in BloquesFAT
      <4>1. CASE b \in perdidos
        BY <4>1 DEF FTypeOK
      <4>2. CASE b \notin perdidos
        BY <4>2, <3>2, <2>1
      <4> QED
        BY <4>1, <4>2
    <3> QED
      BY <3>1, <3>3
  <2>7. /\ \A f \in Archivos : f # arch => cadena'[f] = cadena[f]
        /\ Len(cadena'[arch]) = k
        /\ \A n \in 1..k : n \in 1..Len(cadena[arch]) /\ cadena'[arch][n] = cadena[arch][n]
    BY <1>a, <1>b, <2>1, <2>a, <2>4, <2>5 DEF FTypeOK
  <2>8. \A f \in Archivos : \A n \in 1..Len(cadena'[f]) :
          n \in 1..Len(cadena[f]) /\ cadena'[f][n] = cadena[f][n]
    BY <2>7
  <2>9. ISinFCB' /\ ITamanio'
    <3>1. \A f \in Archivos : /\ tamanio'[f] = IF f = arch THEN nuevo ELSE tamanio[f]
                             /\ inicial'[f] = IF f = arch THEN ini ELSE inicial[f]
      BY <1>0, <1>a DEF FTypeOK
    <3>2. ISinFCB'
      <4> SUFFICES ASSUME NEW f \in Archivos, tamanio'[f] < 0
                   PROVE  inicial'[f] = 0 /\ cadena'[f] = <<>>
        BY DEF ISinFCB
      <4>1. f # arch
        BY <3>1, <1>a
      <4> QED
        BY <4>1, <3>1, <2>7 DEF Sano, ISinFCB
    <3>3. ITamanio'
      <4> SUFFICES ASSUME NEW f \in Archivos
                   PROVE  /\ tamanio'[f] >= 0 => tamanio'[f] <= Len(cadena'[f])
                          /\ inicial'[f] = 0 => tamanio'[f] <= 0
        BY DEF ITamanio
      <4>1. CASE f = arch
        BY <4>1, <3>1, <1>a, <2>3, <2>4, <2>7
      <4>2. CASE f # arch
        BY <4>2, <3>1, <2>7 DEF Sano, ITamanio
      <4> QED
        BY <4>1, <4>2
    <3> QED
      BY <3>2, <3>3
  <2>10. IInicio'
    <3>1. cadena'[arch] # <<>> /\ cadena'[arch][1] = ini
      <4>1. 1 \in 1..k
        BY <1>a, <2>4
      <4> QED
        BY <4>1, <1>a, <2>3, <2>7
    <3>2. \A f \in Archivos : PrimerBloque(f)' = IF f = arch THEN ini ELSE PrimerBloque(f)
      BY <1>0, <1>a DEF PrimerBloque, FTypeOK
    <3> QED
      BY <3>1, <3>2, <2>3, <2>7 DEF Sano, IInicio
  <2>11. IEnlace'
    <3> SUFFICES ASSUME NEW f \in Archivos, NEW n \in 1..Len(cadena'[f])
                 PROVE  fat[cadena'[f][n]] = IF n = Len(cadena'[f]) THEN EOF ELSE cadena'[f][n + 1]
      BY <1>0 DEF IEnlace
    <3>1. CASE f # arch
      BY <3>1, <2>7 DEF Sano, IEnlace
    <3>2. CASE f = arch /\ n = k
      BY <3>2, <2>a, <2>4, <2>7
    <3>3. CASE f = arch /\ n # k
      <4>1. n \in 1..(k - 1) /\ n + 1 \in 1..k /\ n \in 1..k
        BY <3>3, <2>4, <2>7, <1>a
      <4> QED
        BY <4>1, <3>3, <2>a, <2>7
    <3> QED
      BY <3>1, <3>2, <3>3
  <2>12. IDisjuntas'
    BY <2>8 DEF Sano, IDisjuntas
  <2>13. IOcupados'
    <3> SUFFICES ASSUME NEW b \in BloquesFAT, fat[b] # 0, b \notin perdidos'
                 PROVE  EnCadena(b)'
      BY <1>0 DEF IOcupados
    <3>1. EnCadena(b)
      BY <1>0, <2>1 DEF Sano, IOcupados
    <3>2. PICK f \in Archivos : \E n \in 1..Len(cadena[f]) : cadena[f][n] = b
      BY <3>1 DEF EnCadena
    <3>3. PICK n \in 1..Len(cadena[f]) : cadena[f][n] = b
      BY <3>2
    <3>4. CASE f # arch
      BY <3>3, <3>4, <2>7 DEF EnCadena
    <3>5. CASE f = arch
      <4>1. n \notin (Len(lista) + 1)..Len(cadena[arch])
        BY <3>3, <3>5, <2>1
      <4>2. n \notin (k + 1)..Len(lista)
        <5> SUFFICES ASSUME n \in (k + 1)..Len(lista) PROVE FALSE
          OBVIOUS
        <5>1. n \in 1..Len(lista)
          BY <1>a, <2>b
        <5> QED
          BY <5>1, <3>3, <3>5, <2>a
      <4>3. n \in 1..k
        BY <3>5, <4>1, <4>2, <1>a, <1>b, <2>b
      <4> QED
        BY <4>3, <3>3, <3>5, <1>a, <2>7 DEF EnCadena
    <3> QED
      BY <3>4, <3>5
  <2> QED
    BY <2>6, <2>9, <2>10, <2>11, <2>12, <2>13 DEF G
<1>g. G
  BY <1>c, <1>d
<1>1. FTypeOK'
  <2>1. cadena' \in [Archivos -> Seq(BloquesFAT)] /\ perdidos' \subseteq BloquesFAT
    BY <1>g DEF G
  <2>2. /\ tamanio' \in [Archivos -> Nat \cup {SinFCB, FCBVacio}]
        /\ inicial' \in [Archivos -> BloquesFAT \cup {0}]
    BY <1>0, <1>a DEF FTypeOK
  <2>3. /\ UNCHANGED <<fat, bloques, leido, danio, caidas>>
        /\ nuevo' = 0 /\ dato' = ValorInicial /\ resto' = 0 /\ ini' = 0 /\ bloque' = 0 /\ indice' = 0
    BY DEF Guardar, NadaEnCurso
  <2>4. <<>> \in Seq(BloquesFAT)
    OBVIOUS
  <2> QED
    BY <1>0, <2>1, <2>2, <2>3, <2>4 DEF FTypeOK
<1>2. IPaso'
  BY DEF FTypeOK, Sano, IPaso, Guardar, NadaEnCurso
<1>3. ISinFCB'
  BY <1>g DEF G
<1>4. ITamanio'
  BY <1>g DEF G
<1>5. IInicio'
  BY <1>g DEF G
<1>6. IEnlace'
  BY <1>g DEF G
<1>7. IDisjuntas'
  BY <1>g DEF G
<1>8. IOcupados'
  BY <1>g DEF G
<1>9. IAsignar'
  BY DEF FTypeOK, Sano, IAsignar, EnCadena, IPaso, Guardar, NadaEnCurso
<1>10. ILista'
  BY DEF FTypeOK, Sano, ILista, IPaso, Guardar, NadaEnCurso
<1>11. ICamino'
  BY DEF FTypeOK, Sano, ICamino, IPaso, Guardar, NadaEnCurso
<1> QED
  BY <1>1, <1>2, <1>3, <1>4, <1>5, <1>6, <1>7, <1>8, <1>9, <1>10, <1>11 DEF Sano

(* The walk of a read begins at the first block.                           *)
LEMMA PedirLeerInv ==
  ASSUME NEW f \in Archivos, NEW p \in Punteros, FTypeOK, Sano, ~danio, PedirLeer(f, p)
  PROVE  FTypeOK' /\ (~danio' => Sano')
<1> USE FATAssumption, NadieAssumption DEF PedirLeer, Acceder, disco, historia, Sigue, Pasos, BloquesFAT,
      EOF, SinFCB, FCBVacio, Nadie
<1>1. FTypeOK'
  BY DEF FTypeOK, Sano, IPaso
<1>2. IPaso'
  <2>1. lista' = <<>>
    BY DEF Sano, IPaso
  <2>2. paso' = "leer" /\ arch' = f /\ tamanio'[f] > 0 /\ tamanio[f] \in Int
    BY TipoArchivo
  <2> QED
    BY <2>1, <2>2 DEF IPaso
<1>3. ISinFCB'
  BY DEF FTypeOK, Sano, ISinFCB, IPaso
<1>4. ITamanio'
  BY DEF FTypeOK, Sano, ITamanio, IPaso
<1>5. IInicio'
  BY DEF FTypeOK, Sano, IInicio, PrimerBloque, IPaso
<1>6. IEnlace'
  BY DEF FTypeOK, Sano, IEnlace, Achicando, IPaso
<1>7. IDisjuntas'
  BY DEF FTypeOK, Sano, IDisjuntas
<1>8. IOcupados'
  BY DEF FTypeOK, Sano, IOcupados, EnCadena, IPaso
<1>9. IAsignar'
  BY DEF FTypeOK, Sano, IAsignar, EnCadena, IPaso
<1>10. ILista'
  BY DEF FTypeOK, Sano, ILista, IPaso
<1>11. ICamino'
  <2>1. /\ paso' = "leer" /\ arch' = f /\ nuevo' = p /\ resto' = p /\ bloque' = inicial[f]
        /\ cadena' = cadena
    OBVIOUS
  <2>2. p \in Nat /\ arch = Nadie
    BY DEF Sano, IPaso
  <2>3. Len(cadena[f]) \in Nat /\ 0 < Len(cadena[f]) /\ cadena[f][1] = inicial[f]
    BY <2>2, InicioCadena, TipoArchivo
  <2> HIDE DEF PedirLeer
  <2> QED
    BY <2>1, <2>2, <2>3 DEF ICamino
<1> QED
  BY <1>1, <1>2, <1>3, <1>4, <1>5, <1>6, <1>7, <1>8, <1>9, <1>10, <1>11 DEF Sano

(* The walk of a write begins at the first block.                          *)
LEMMA PedirEscribirInv ==
  ASSUME NEW f \in Archivos, NEW p \in Punteros, NEW v \in Valores, FTypeOK, Sano, ~danio,
      PedirEscribir(f, p, v)
  PROVE  FTypeOK' /\ (~danio' => Sano')
<1> USE FATAssumption, NadieAssumption DEF PedirEscribir, Acceder, disco, historia, Sigue, Pasos,
      BloquesFAT, EOF, SinFCB, FCBVacio, Nadie
<1>1. FTypeOK'
  BY DEF FTypeOK, Sano, IPaso
<1>2. IPaso'
  <2>1. lista' = <<>>
    BY DEF Sano, IPaso
  <2>2. paso' = "escribir" /\ arch' = f /\ tamanio'[f] > 0 /\ tamanio[f] \in Int
    BY TipoArchivo
  <2> QED
    BY <2>1, <2>2 DEF IPaso
<1>3. ISinFCB'
  BY DEF FTypeOK, Sano, ISinFCB, IPaso
<1>4. ITamanio'
  BY DEF FTypeOK, Sano, ITamanio, IPaso
<1>5. IInicio'
  BY DEF FTypeOK, Sano, IInicio, PrimerBloque, IPaso
<1>6. IEnlace'
  BY DEF FTypeOK, Sano, IEnlace, Achicando, IPaso
<1>7. IDisjuntas'
  BY DEF FTypeOK, Sano, IDisjuntas
<1>8. IOcupados'
  BY DEF FTypeOK, Sano, IOcupados, EnCadena, IPaso
<1>9. IAsignar'
  BY DEF FTypeOK, Sano, IAsignar, EnCadena, IPaso
<1>10. ILista'
  BY DEF FTypeOK, Sano, ILista, IPaso
<1>11. ICamino'
  <2>1. /\ paso' = "escribir" /\ arch' = f /\ nuevo' = p /\ resto' = p /\ bloque' = inicial[f]
        /\ cadena' = cadena
    OBVIOUS
  <2>2. p \in Nat /\ arch = Nadie
    BY DEF Sano, IPaso
  <2>3. Len(cadena[f]) \in Nat /\ 0 < Len(cadena[f]) /\ cadena[f][1] = inicial[f]
    BY <2>2, InicioCadena, TipoArchivo
  <2> HIDE DEF PedirEscribir
  <2> QED
    BY <2>1, <2>2, <2>3 DEF ICamino
<1> QED
  BY <1>1, <1>2, <1>3, <1>4, <1>5, <1>6, <1>7, <1>8, <1>9, <1>10, <1>11 DEF Sano

(* The walk goes on to the next block, or stays at EOF.                    *)
LEMMA SaltarInv ==
  ASSUME FTypeOK, Sano, ~danio, Saltar
  PROVE  FTypeOK' /\ (~danio' => Sano')
<1> USE FATAssumption, NadieAssumption DEF Saltar, disco, historia, Sigue, Pasos, BloquesFAT, EOF, SinFCB,
      FCBVacio, Nadie
<1>1. FTypeOK'
  BY DEF FTypeOK, Sano, IPaso
<1>2. IPaso'
  BY DEF FTypeOK, Sano, IPaso
<1>3. ISinFCB'
  BY DEF FTypeOK, Sano, ISinFCB, IPaso
<1>4. ITamanio'
  BY DEF FTypeOK, Sano, ITamanio, IPaso
<1>5. IInicio'
  BY DEF FTypeOK, Sano, IInicio, PrimerBloque, IPaso
<1>6. IEnlace'
  BY DEF FTypeOK, Sano, IEnlace, Achicando, IPaso
<1>7. IDisjuntas'
  BY DEF FTypeOK, Sano, IDisjuntas
<1>8. IOcupados'
  BY DEF FTypeOK, Sano, IOcupados, EnCadena, IPaso
<1>9. IAsignar'
  BY DEF FTypeOK, Sano, IAsignar, EnCadena, IPaso
<1>10. ILista'
  BY DEF FTypeOK, Sano, ILista, IPaso
<1>11. ICamino'
  <2>1. nuevo \in Nat /\ resto \in Nat /\ resto <= nuevo /\ arch \in Archivos /\ Len(cadena[arch]) \in Nat
    BY DEF FTypeOK, Sano, IPaso, ICamino
  <2> DEFINE n == nuevo - resto + 1
  <2>2. n \in Nat \ {0} /\ nuevo' - resto' + 1 = n + 1 /\ resto' <= nuevo'
    BY <2>1
  <2>3. bloque = IF n <= Len(cadena[arch]) THEN cadena[arch][n] ELSE EOF
    BY <2>1 DEF Sano, ICamino
  <2>4. bloque' = IF n + 1 <= Len(cadena[arch]) THEN cadena[arch][n + 1] ELSE EOF
    <3>1. CASE n <= Len(cadena[arch])
      <4>1. n \in 1..Len(cadena[arch])
        BY <3>1, <2>1, <2>2
      <4>2. bloque # EOF /\ bloque' = fat[cadena[arch][n]]
        BY <4>1, <3>1, <2>1, <2>3, SiguienteBloque DEF Achicando
      <4>3. /\ fat[cadena[arch][n]] = EOF <=> n = Len(cadena[arch])
            /\ n < Len(cadena[arch]) => fat[cadena[arch][n]] = cadena[arch][n + 1]
        BY <4>1, <2>1, SiguienteBloque DEF Achicando
      <4> QED
        BY <4>2, <4>3, <3>1, <2>1, <2>2
    <3>2. CASE n > Len(cadena[arch])
      BY <3>2, <2>1, <2>2, <2>3
    <3> QED
      BY <3>1, <3>2, <2>1, <2>2
  <2> QED
    BY <2>1, <2>2, <2>4 DEF ICamino
<1> QED
  BY <1>1, <1>2, <1>3, <1>4, <1>5, <1>6, <1>7, <1>8, <1>9, <1>10, <1>11 DEF Sano

(* A read leaves the disk as it was.                                       *)
LEMMA leer_archivoInv ==
  ASSUME FTypeOK, Sano, ~danio, leer_archivo
  PROVE  FTypeOK' /\ (~danio' => Sano')
<1> USE FATAssumption, NadieAssumption DEF leer_archivo, NadaEnCurso, disco, Fisico, EnElArchivo, Sigue,
      Pasos, BloquesFAT, EOF, SinFCB, FCBVacio, Nadie
<1>1. FTypeOK'
  BY DEF FTypeOK, Sano, IPaso, ICamino, Disco
<1> SUFFICES ASSUME ~danio' PROVE Sano'
  BY <1>1
<1>2. IPaso'
  BY DEF FTypeOK, Sano, IPaso
<1>3. ISinFCB'
  BY DEF FTypeOK, Sano, ISinFCB, IPaso
<1>4. ITamanio'
  BY DEF FTypeOK, Sano, ITamanio, IPaso
<1>5. IInicio'
  BY DEF FTypeOK, Sano, IInicio, PrimerBloque, IPaso
<1>6. IEnlace'
  BY DEF FTypeOK, Sano, IEnlace, Achicando, IPaso
<1>7. IDisjuntas'
  BY DEF FTypeOK, Sano, IDisjuntas
<1>8. IOcupados'
  BY DEF FTypeOK, Sano, IOcupados, EnCadena, IPaso
<1>9. IAsignar'
  BY DEF FTypeOK, Sano, IAsignar, EnCadena, IPaso
<1>10. ILista'
  BY DEF FTypeOK, Sano, ILista, IPaso
<1>11. ICamino'
  BY DEF FTypeOK, Sano, ICamino, IPaso
<1> QED
  BY <1>2, <1>3, <1>4, <1>5, <1>6, <1>7, <1>8, <1>9, <1>10, <1>11 DEF Sano

(* A write leaves the FAT and the FCBs as they were.                       *)
LEMMA escribir_archivoInv ==
  ASSUME FTypeOK, Sano, ~danio, escribir_archivo
  PROVE  FTypeOK' /\ (~danio' => Sano')
<1> USE FATAssumption, NadieAssumption DEF escribir_archivo, NadaEnCurso, historia, Fisico, EnElArchivo,
      Sigue, Pasos, BloquesFAT, EOF, SinFCB, FCBVacio, Nadie
<1>1. FTypeOK'
  BY DEF FTypeOK, Sano, IPaso, ICamino, Disco
<1> SUFFICES ASSUME ~danio' PROVE Sano'
  BY <1>1
<1>2. IPaso'
  BY DEF FTypeOK, Sano, IPaso
<1>3. ISinFCB'
  BY DEF FTypeOK, Sano, ISinFCB, IPaso
<1>4. ITamanio'
  BY DEF FTypeOK, Sano, ITamanio, IPaso
<1>5. IInicio'
  BY DEF FTypeOK, Sano, IInicio, PrimerBloque, IPaso
<1>6. IEnlace'
  BY DEF FTypeOK, Sano, IEnlace, Achicando, IPaso
<1>7. IDisjuntas'
  BY DEF FTypeOK, Sano, IDisjuntas
<1>8. IOcupados'
  BY DEF FTypeOK, Sano, IOcupados, EnCadena, IPaso
<1>9. IAsignar'
  BY DEF FTypeOK, Sano, IAsignar, EnCadena, IPaso
<1>10. ILista'
  BY DEF FTypeOK, Sano, ILista, IPaso
<1>11. ICamino'
  BY DEF FTypeOK, Sano, ICamino, IPaso
<1> QED
  BY <1>2, <1>3, <1>4, <1>5, <1>6, <1>7, <1>8, <1>9, <1>10, <1>11 DEF Sano

(* Stopping leaves the chains whole, except that of a file being shrunk.   *)
LEMMA CaidaInv ==
  ASSUME FTypeOK, Sano, ~danio, Caida
  PROVE  FTypeOK' /\ (~danio' => Sano')
<1> USE FATAssumption, NadieAssumption DEF Sigue, Pasos, BloquesFAT, EOF, SinFCB, FCBVacio, Nadie
<1> DEFINE G == /\ cadena' \in [Archivos -> Seq(BloquesFAT)] /\ perdidos' \subseteq BloquesFAT
                /\ ISinFCB' /\ ITamanio' /\ IInicio' /\ (~danio' => IEnlace') /\ IDisjuntas' /\ IOcupados'
<1> HIDE DEF G
<1> DEFINE suelto == IF paso = "enlazar" THEN {indice} ELSE {}
<1>0. /\ paso # "libre" /\ paso' = "libre" /\ arch' = Nadie /\ lista' = <<>>
      /\ tamanio' = tamanio /\ inicial' = inicial /\ fat' = fat
  BY DEF Caida, NadaEnCurso, disco
<1>e. danio' \in BOOLEAN /\ (~danio' => ~Achicando)
  BY Zenon DEF Caida, Achicando
<1>a. arch \in Archivos /\ suelto \subseteq BloquesFAT
  BY <1>0 DEF FTypeOK, Sano, IPaso, IAsignar
<1>b. /\ \A f \in Archivos : PrimerBloque(f)' = inicial[f]
      /\ \A f \in Archivos : ~(SinGuardar /\ arch = f) => PrimerBloque(f) = inicial[f]
  BY <1>0, <1>a DEF Sano, IPaso, PrimerBloque, SinGuardar
<1>c. ASSUME ~SinGuardar PROVE G
  <2>1. cadena' = cadena /\ perdidos' = perdidos \cup suelto
    BY <1>c DEF Caida
  <2>2. ISinFCB' /\ ITamanio' /\ IDisjuntas'
    BY <1>0, <2>1 DEF Sano, ISinFCB, ITamanio, IDisjuntas
  <2>3. IInicio'
    BY <1>b, <1>c, <2>1 DEF Sano, IInicio
  <2>4. ~danio' => IEnlace'
    BY <1>0, <1>e, <2>1 DEF Sano, IEnlace
  <2>5. IOcupados'
    BY <1>0, <2>1 DEF Sano, IOcupados, EnCadena
  <2> QED
    BY <1>a, <2>1, <2>2, <2>3, <2>4, <2>5 DEF FTypeOK, G
<1>d. ASSUME SinGuardar PROVE G
  <2>0. cadena[arch] \in Seq(BloquesFAT) /\ Len(cadena[arch]) \in Nat
    BY <1>a, TipoArchivo
  <2>1. /\ cadena' = [cadena EXCEPT ![arch] = <<>>]
        /\ perdidos' = perdidos \cup {cadena[arch][n] : n \in 1..Len(cadena[arch])} \cup suelto
    BY <1>d DEF Caida
  <2>2. /\ cadena' \in [Archivos -> Seq(BloquesFAT)] /\ perdidos' \subseteq BloquesFAT
        /\ \A f \in Archivos : cadena'[f] = IF f = arch THEN <<>> ELSE cadena[f]
    <3> HIDE DEF suelto
    <3>0. <<>> \in Seq(BloquesFAT) /\ cadena \in [Archivos -> Seq(BloquesFAT)]
      BY DEF FTypeOK
    <3>1. cadena' \in [Archivos -> Seq(BloquesFAT)]
      BY <2>1, <3>0
    <3>2. perdidos' \subseteq BloquesFAT
      <4>1. \A n \in 1..Len(cadena[arch]) : cadena[arch][n] \in BloquesFAT
        BY <2>0
      <4>2. ASSUME NEW b \in perdidos' PROVE b \in BloquesFAT
        <5>1. CASE b \in perdidos \cup suelto
          BY <5>1, <1>a DEF FTypeOK
        <5>2. CASE b \notin perdidos \cup suelto
          BY <5>2, <4>1, <2>1
        <5> QED
          BY <5>1, <5>2
      <4> QED
        BY <4>2
    <3>3. \A f \in Archivos : cadena'[f] = IF f = arch THEN <<>> ELSE cadena[f]
      BY <2>1 DEF FTypeOK
    <3> QED
      BY <3>1, <3>2, <3>3
  <2>3. inicial[arch] = 0 /\ tamanio[arch] <= 0 /\ Len(cadena'[arch]) = 0
    BY <1>a, <1>d, <2>2 DEF Sano, ITamanio, SinGuardar
  <2>4. ISinFCB' /\ ITamanio' /\ IDisjuntas'
    <3>1. ISinFCB'
      BY <1>0, <2>2, <2>3 DEF Sano, ISinFCB
    <3>2. ITamanio'
      BY <1>0, <1>a, <2>2, <2>3, TipoArchivo DEF Sano, ITamanio
    <3>3. \A f \in Archivos : \A n \in 1..Len(cadena'[f]) :
            n \in 1..Len(cadena[f]) /\ cadena'[f][n] = cadena[f][n]
      BY <2>2, <2>3
    <3>4. IDisjuntas'
      BY <3>3 DEF Sano, IDisjuntas
    <3> QED
      BY <3>1, <3>2, <3>4
  <2>5. IInicio'
    BY <1>b, <2>2, <2>3 DEF Sano, IInicio
  <2>6. ~danio' => IEnlace'
    <3> SUFFICES ASSUME ~danio', NEW f \in Archivos, NEW n \in 1..Len(cadena'[f])
                 PROVE  fat[cadena'[f][n]] = IF n = Len(cadena'[f]) THEN EOF ELSE cadena'[f][n + 1]
      BY <1>0 DEF IEnlace
    <3>1. f # arch
      BY <2>3
    <3>2. cadena'[f] = cadena[f]
      BY <2>2, <3>1
    <3> QED
      BY <3>2, <1>e DEF Sano, IEnlace
  <2>7. IOcupados'
    <3> SUFFICES ASSUME NEW b \in BloquesFAT, fat[b] # 0, b \notin perdidos'
                 PROVE  EnCadena(b)'
      BY <1>0 DEF IOcupados
    <3>1. EnCadena(b)
      BY <1>0, <2>1 DEF Sano, IOcupados
    <3> QED
      BY <3>1, <2>1, <2>2 DEF EnCadena
  <2> QED
    BY <2>2, <2>4, <2>5, <2>6, <2>7 DEF G
<1>g. G
  BY <1>c, <1>d
<1>1. FTypeOK'
  <2>1. cadena' \in [Archivos -> Seq(BloquesFAT)] /\ perdidos' \subseteq BloquesFAT
    BY <1>g DEF G
  <2>2. danio' \in BOOLEAN
    BY <1>e
  <2>3. /\ UNCHANGED <<bloques, leido>> /\ caidas' = caidas + 1
        /\ nuevo' = 0 /\ dato' = ValorInicial /\ resto' = 0 /\ ini' = 0 /\ bloque' = 0 /\ indice' = 0
    BY DEF Caida, NadaEnCurso, disco
  <2>4. <<>> \in Seq(BloquesFAT)
    OBVIOUS
  <2> QED
    BY <1>0, <2>1, <2>2, <2>3, <2>4 DEF FTypeOK
<1> SUFFICES ASSUME ~danio' PROVE Sano'
  BY <1>1
<1>2. IPaso'
  BY DEF FTypeOK, Sano, IPaso, Caida, NadaEnCurso, disco, SinGuardar
<1>3. ISinFCB'
  BY <1>g DEF G
<1>4. ITamanio'
  BY <1>g DEF G
<1>5. IInicio'
  BY <1>g DEF G
<1>6. IEnlace'
  BY <1>g DEF G
<1>7. IDisjuntas'
  BY <1>g DEF G
<1>8. IOcupados'
  BY <1>g DEF G
<1>9. IAsignar'
  BY DEF FTypeOK, Sano, IAsignar, EnCadena, IPaso, Caida, NadaEnCurso, disco, SinGuardar
<1>10. ILista'
  BY DEF FTypeOK, Sano, ILista, IPaso, Caida, NadaEnCurso, disco, SinGuardar
<1>11. ICamino'
  BY DEF FTypeOK, Sano, ICamino, IPaso, Caida, NadaEnCurso, disco, SinGuardar
<1> QED
  BY <1>2, <1>3, <1>4, <1>5, <1>6, <1>7, <1>8, <1>9, <1>10, <1>11 DEF Sano

-----------------------------------------------------------------------------
(* The invariant holds at first.                                           *)
LEMMA InvInicio ==
  ASSUME FInit
  PROVE  FInv
<1>1. FTypeOK
  <2>1. <<>> \in Seq(BloquesFAT)
    OBVIOUS
  <2> QED
    BY <2>1, FATAssumption DEF FInit, FTypeOK, Pasos, Disco
<1>2. \A f \in Archivos : tamanio[f] = -1 /\ inicial[f] = 0 /\ cadena[f] = <<>> /\ PrimerBloque(f) = 0
  BY DEF FInit, SinFCB, PrimerBloque
<1>3. IPaso /\ IAsignar /\ ILista /\ ICamino
  BY DEF FInit, IPaso, IAsignar, ILista, ICamino
<1>4. ISinFCB /\ ITamanio /\ IInicio /\ IEnlace /\ IDisjuntas
  BY <1>2 DEF ISinFCB, ITamanio, IInicio, IEnlace, IDisjuntas
<1>5. IOcupados
  BY FATAssumption DEF FInit, IOcupados, BloquesFAT
<1> QED
  BY <1>1, <1>3, <1>4, <1>5 DEF FInv, Sano

(* A step that ends the promise only has to keep the types.                *)
LEMMA DanioInv ==
  ASSUME FTypeOK, Danio
  PROVE  FTypeOK' /\ (~danio' => Sano')
BY DEF FTypeOK, Danio, disco, pedido, historia

(* Each request begins and goes on under the invariant.                    *)
LEMMA InvSiguiente ==
  ASSUME FInv, [FNext]_fvars
  PROVE  FInv'
<1>1. CASE UNCHANGED fvars
  BY <1>1 DEF FInv, fvars, disco, pedido, historia, FTypeOK, Sano, IPaso, ISinFCB, ITamanio, IInicio,
       PrimerBloque, IEnlace, Achicando, IDisjuntas, IOcupados, EnCadena, IAsignar, ILista, ICamino
<1>2. CASE FNext
  <2>1. FTypeOK /\ Sano /\ ~danio
    BY <1>2 DEF FInv, FNext
  <2> SUFFICES FTypeOK' /\ (~danio' => Sano')
    BY DEF FInv
  <2>2. ASSUME NEW f \in Archivos, PedidoNuevo(f) PROVE FTypeOK' /\ (~danio' => Sano')
    <3>1. CASE f_open(f)
      BY <3>1, <2>1, f_openInv
    <3>2. CASE AbrirSinTamanio(f)
      BY <3>2, <2>1, DanioInv DEF AbrirSinTamanio
    <3>3. CASE \E t \in Tamanios : TruncarIgual(f, t) \/ Agrandar(f, t) \/ Achicar(f, t)
      BY <3>3, <2>1, TruncarIgualInv, AgrandarInv, AchicarInv
    <3>4. CASE \E p \in Punteros : PedirLeer(f, p) \/ \E v \in Valores : PedirEscribir(f, p, v)
      BY <3>4, <2>1, PedirLeerInv, PedirEscribirInv
    <3> QED
      BY <2>2, <3>1, <3>2, <3>3, <3>4 DEF PedidoNuevo
  <2>3. CASE crear_archivo
    BY <2>3, <2>1, crear_archivoInv
  <2>4. CASE PasoTruncar
    <3>1. CASE UltimoSinValor \/ UltimoAvanza \/ UltimoHallado
      BY <3>1, <2>1, DanioInv, UltimoAvanzaInv, UltimoHalladoInv DEF UltimoSinValor
    <3>2. CASE AsignarOcupado \/ AsignarPrimero \/ AsignarOtro \/ Enlazar \/ AsignarFin
      BY <3>2, <2>1, AsignarOcupadoInv, AsignarPrimeroInv, AsignarOtroInv, EnlazarInv, AsignarFinInv
    <3>3. CASE ListarBloque \/ Listado \/ BorrarBloque \/ BorrarTodo \/ Borrado \/ Guardar
      BY <3>3, <2>1, ListarBloqueInv, ListadoInv, BorrarBloqueInv, DanioInv, BorradoInv, GuardarInv
         DEF BorrarTodo
    <3> QED
      BY <2>4, <3>1, <3>2, <3>3 DEF PasoTruncar
  <2>5. CASE Saltar \/ leer_archivo \/ escribir_archivo \/ Caida
    BY <2>5, <2>1, SaltarInv, leer_archivoInv, escribir_archivoInv, CaidaInv
  <2> QED
    BY <1>2, <2>2, <2>3, <2>4, <2>5 DEF FNext
<1> QED
  BY <1>1, <1>2

-----------------------------------------------------------------------------
(* The inductive invariant holds of every behaviour of the File System:    *)
(* any files, blocks, requests and stops of the program.                   *)
THEOREM FInvariante == FSpec => []FInv
<1>1. FInit => FInv
  BY InvInicio
<1>2. FInv /\ [FNext]_fvars => FInv'
  BY InvSiguiente
<1> QED
  BY <1>1, <1>2, PTL DEF FSpec

(* Every piece of state keeps its shape, and the walks of a chain stay in  *)
(* the FAT or at EOF.                                                      *)
THEOREM FTipos == FSpec => []FTypeOK
<1>1. FInv => FTypeOK
  BY DEF FInv
<1> QED
  BY <1>1, FInvariante, PTL

(* Until the promise ends, the FAT and the FCBs tell the blocks of each    *)
(* file at every step but the end of a shrink.                             *)
THEOREM CadenasEnlazadas == FSpec => []CadenaEnlazada
<1>1. FInv => CadenaEnlazada
  BY DEF FInv, Sano, IInicio, IEnlace, CadenaEnlazada
<1> QED
  BY <1>1, FInvariante, PTL

(* Until the promise ends, no block is given twice, and none is lost but   *)
(* when the program stops.                                                 *)
THEOREM BloquesSonPropios == FSpec => []BloquesPropios
<1>1. FInv => BloquesPropios
  BY DEF FInv, Sano, IDisjuntas, IOcupados, EnCadena, BloquesPropios
<1> QED
  BY <1>1, FInvariante, PTL

(* Until the promise ends (danio: running out of blocks, stopping while a  *)
(* file shrinks, and the other cases of FAT) a file has the blocks its size*)
(* says.                                                                   *)
THEOREM TamaniosCumplidos == FSpec => []TamanioCumplido
<1>1. FInv => TamanioCumplido
  BY DEF FInv, Sano, ITamanio, TamanioCumplido
<1> QED
  BY <1>1, FInvariante, PTL

(* Until the promise ends nothing reaches the partition of swap; a write   *)
(* past the end of its file does, and ends it.                             *)
THEOREM SwapQuedaIntacta == FSpec => SwapIntacta
<1>1. ASSUME FInv, [FNext]_fvars
      PROVE  [danio' \/ \A b \in 0..(CantBloquesSWAP - 1) : bloques'[b] = bloques[b]]_fvars
  <2>1. CASE UNCHANGED bloques
    BY <2>1
  <2>2. CASE escribir_archivo /\ ~danio
    <3> SUFFICES ASSUME ~danio' PROVE \A b \in 0..(CantBloquesSWAP - 1) : bloques'[b] = bloques[b]
      OBVIOUS
    <3>1. nuevo < tamanio[arch]
      BY <2>2, Zenon DEF escribir_archivo, EnElArchivo
    <3>2. FTypeOK /\ Sano /\ arch \in Archivos /\ nuevo \in Nat /\ paso = "escribir" /\ resto = 0
      BY <2>2, <1>1 DEF FInv, Sano, IPaso, FTypeOK, escribir_archivo
    <3>3. nuevo + 1 \in 1..Len(cadena[arch])
      <4>1. tamanio[arch] \in Nat /\ tamanio[arch] <= Len(cadena[arch]) /\ Len(cadena[arch]) \in Nat
        BY <3>1, <3>2, InicioCadena, TipoArchivo
      <4> QED
        BY <4>1, <3>1, <3>2
    <3>4. bloque = cadena[arch][nuevo + 1] /\ bloque \in BloquesFAT
      BY <3>2, <3>3, TipoArchivo DEF Sano, ICamino
    <3>5. Fisico \in Disco /\ Fisico >= CantBloquesSWAP
      BY <3>4, FATAssumption DEF Fisico, Disco, BloquesFAT
    <3> QED
      BY <2>2, <3>2, <3>5, FATAssumption DEF escribir_archivo, FTypeOK, Disco
  <2>3. UNCHANGED bloques \/ (escribir_archivo /\ ~danio)
    <3>1. CASE UNCHANGED fvars
      BY <3>1 DEF fvars, disco
    <3>2. ASSUME NEW f \in Archivos, PedidoNuevo(f) PROVE UNCHANGED bloques
      BY <3>2 DEF PedidoNuevo, f_open, AbrirSinTamanio, TruncarIgual, Agrandar, Achicar, Truncar, PedirLeer,
           PedirEscribir, Acceder, Danio, disco
    <3>3. CASE PasoTruncar
      BY <3>3 DEF PasoTruncar, UltimoSinValor, UltimoAvanza, UltimoHallado, AsignarOcupado, AsignarPrimero,
           AsignarOtro, Enlazar, AsignarFin, ListarBloque, Listado, BorrarBloque, BorrarTodo, Borrado,
           Guardar, Danio, disco
    <3>4. CASE crear_archivo \/ Saltar \/ leer_archivo \/ Caida
      BY <3>4 DEF crear_archivo, Saltar, leer_archivo, Caida, disco
    <3> QED
      BY <1>1, <3>1, <3>2, <3>3, <3>4 DEF FNext
  <2> QED
    BY <2>1, <2>2, <2>3
<1> QED
  BY <1>1, FInvariante, PTL DEF FSpec, SwapIntacta

-----------------------------------------------------------------------------
Creados == {f \in Archivos : tamanio[f] >= 0}
Contenidos == [f \in Archivos |-> Contenido(f)]

(* What a file holds does not change if its blocks do not.                 *)
LEMMA ContenidoIgual ==
  ASSUME FTypeOK, NEW f \in Archivos, bloques' = bloques,
         tamanio'[f] = tamanio[f] \/ (tamanio[f] <= 0 /\ tamanio'[f] <= 0 /\ tamanio'[f] \in Int),
         \A n \in 1..tamanio[f] : cadena'[f][n] = cadena[f][n]
  PROVE  Contenido(f)' = Contenido(f)
<1>1. tamanio[f] \in Int
  BY TipoArchivo
<1>2. CASE tamanio[f] <= 0 /\ tamanio'[f] <= 0 /\ tamanio'[f] \in Int
  BY <1>1, <1>2 DEF Contenido
<1>3. CASE tamanio'[f] = tamanio[f] /\ tamanio[f] > 0
  BY <1>1, <1>3 DEF Contenido
<1> QED
  BY <1>1, <1>2, <1>3

(* ... and has as many blocks as its size says.                            *)
LEMMA ContenidoLargo ==
  ASSUME FTypeOK, NEW f \in Archivos, tamanio[f] >= 0
  PROVE  /\ Len(Contenido(f)) = tamanio[f]
         /\ \A n \in 1..tamanio[f] : Contenido(f)[n] = bloques[CantBloquesSWAP + cadena[f][n]]
<1>1. tamanio[f] \in Nat
  BY TipoArchivo
<1>2. Contenido(f) = [n \in 1..tamanio[f] |-> bloques[CantBloquesSWAP + cadena[f][n]]]
  BY <1>1 DEF Contenido
<1> QED
  BY <1>1, <1>2

(* The request that is being served.                                       *)
LEMMA PedidoEnCurso ==
  ASSUME FTypeOK
  PROVE  /\ paso = "libre" <=> Pedido = Nada
         /\ paso # "libre" => /\ Pedido.op = Operacion /\ Pedido.archivo = arch
                              /\ Pedido.n = nuevo /\ Pedido.dato = dato
<1>1. Operacion \in {"f_open", "f_read", "f_write", "f_truncate"}
  BY DEF FTypeOK, Pasos, Operacion
<1>2. CASE paso = "libre"
  BY <1>2 DEF Pedido
<1>3. CASE paso # "libre"
  <2>1. Pedido = [op |-> Operacion, archivo |-> arch, n |-> nuevo, dato |-> dato]
    BY <1>3 DEF Pedido
  <2>2. Pedido.op = Operacion /\ Nada.op = "nada"
    BY <2>1 DEF Nada
  <2> QED
    BY <1>1, <1>3, <2>1, <2>2
<1> QED
  BY <1>2, <1>3

(* A request begins: nothing else is seen from outside.                    *)
LEMMA RefPide ==
  ASSUME FTypeOK, paso = "libre", UNCHANGED <<bloques, cadena, leido, danio>>,
         \A f \in Archivos : tamanio'[f] = tamanio[f] \/ (tamanio[f] < 0 /\ tamanio'[f] = FCBVacio)
  PROVE  S!SNext
<1>1. ASSUME NEW f \in Archivos PROVE Contenido(f)' = Contenido(f)
  BY ContenidoIgual, TipoArchivo DEF FCBVacio
<1>2. Contenidos' = Contenidos
  BY <1>1 DEF Contenidos
<1>3. Creados' = Creados
  BY TipoArchivo DEF Creados, FCBVacio
<1>4. Pedido = Nada
  BY PedidoEnCurso
<1> QED
  BY <1>2, <1>3, <1>4 DEF S!SNext, S!Pedir, Contenidos, Creados

(* A request goes on: nothing is seen from outside.                        *)
LEMMA RefSigue ==
  ASSUME FTypeOK, UNCHANGED <<tamanio, bloques, leido, danio, arch, nuevo, dato>>,
         paso # "libre", paso' # "libre", Operacion' = Operacion,
         \A f \in Archivos : \A n \in 1..tamanio[f] : cadena'[f][n] = cadena[f][n]
  PROVE  UNCHANGED S!svars
<1>1. ASSUME NEW f \in Archivos PROVE Contenido(f)' = Contenido(f)
  BY ContenidoIgual
<1>2. Contenidos' = Contenidos
  BY <1>1 DEF Contenidos
<1>3. Creados' = Creados
  BY DEF Creados
<1>4. Pedido' = Pedido
  BY DEF Pedido
<1> QED
  BY <1>2, <1>3, <1>4 DEF S!svars, Contenidos, Creados

(* A file is created empty.                                                *)
LEMMA RefCrear ==
  ASSUME FTypeOK, Sano, crear_archivo
  PROVE  S!SNext
<1>1. /\ paso = "crear" /\ paso' = "libre" /\ arch \in Archivos /\ tamanio[arch] = FCBVacio
      /\ tamanio' = [tamanio EXCEPT ![arch] = 0]
      /\ UNCHANGED <<bloques, cadena, leido, danio>>
  BY DEF Sano, IPaso, crear_archivo, NadaEnCurso, historia, Sigue
<1>2. \A f \in Archivos : tamanio'[f] = IF f = arch THEN 0 ELSE tamanio[f]
  BY <1>1 DEF FTypeOK
<1>3. ASSUME NEW f \in Archivos PROVE Contenido(f)' = Contenido(f)
  BY <1>1, <1>2, ContenidoIgual DEF FCBVacio
<1>4. Contenidos' = Contenidos
  BY <1>3 DEF Contenidos
<1>5. Creados' = Creados \cup {arch}
  BY <1>1, <1>2 DEF Creados
<1>6. Pedido # Nada /\ Pedido.op = "f_open" /\ Pedido.archivo = arch /\ Pedido' = Nada
  BY <1>1, PedidoEnCurso DEF Operacion, Pedido
<1> QED
  BY <1>1, <1>4, <1>5, <1>6 DEF S!SNext, S!Abrir, S!Atender, Contenidos, Creados

(* A file that is truncated keeps the blocks it still has.                 *)
LEMMA RefGuardar ==
  ASSUME FTypeOK, Sano, FTypeOK', Guardar
  PROVE  S!SNext
<1>1. /\ paso = "guardar" /\ paso' = "libre" /\ arch \in Archivos /\ tamanio[arch] >= 0 /\ nuevo \in Nat
      /\ tamanio' = [tamanio EXCEPT ![arch] = nuevo]
      /\ UNCHANGED <<bloques, leido, danio>>
  BY DEF FTypeOK, Sano, IPaso, Guardar, NadaEnCurso, Sigue
<1>2. \A f \in Archivos : tamanio'[f] = IF f = arch THEN nuevo ELSE tamanio[f]
  BY <1>1 DEF FTypeOK
<1>3. \A f \in Archivos : f # arch => cadena'[f] = cadena[f]
  BY DEF FTypeOK, Guardar
<1>4. \A n \in 1..tamanio[arch] : n <= nuevo => cadena'[arch][n] = cadena[arch][n]
  <2>1. CASE lista = <<>>
    BY <2>1 DEF Guardar
  <2>2. CASE lista # <<>>
    <3>1. /\ nuevo < tamanio[arch] /\ Len(lista) = tamanio[arch] /\ indice = tamanio[arch] - nuevo
          /\ \A n \in 1..Len(lista) : lista[n] = cadena[arch][n]
      BY <1>1, <2>2 DEF Sano, ILista
    <3>2. lista \in Seq(BloquesFAT) /\ Len(lista) \in Nat /\ tamanio[arch] \in Nat
      BY <1>1, TipoArchivo DEF FTypeOK
    <3>3. Len(lista) - indice = nuevo
      BY <1>1, <3>1, <3>2
    <3>4. cadena' = [cadena EXCEPT ![arch] = SubSeq(lista, 1, nuevo)]
      BY <2>2, <3>3 DEF Guardar
    <3>5. cadena'[arch] = SubSeq(lista, 1, nuevo)
      BY <1>1, <3>4 DEF FTypeOK
    <3>6. \A n \in 1..nuevo : SubSeq(lista, 1, nuevo)[n] = lista[n]
      BY <1>1, <3>1, <3>2
    <3> QED
      BY <1>1, <3>1, <3>2, <3>5, <3>6
  <2> QED
    BY <2>1, <2>2
<1>5. ASSUME NEW f \in Archivos, f # arch PROVE Contenido(f)' = Contenido(f)
  BY <1>1, <1>2, <1>3, <1>5, ContenidoIgual
<1>6. Creados' = Creados /\ arch \in Creados
  BY <1>1, <1>2 DEF Creados
<1>7. Pedido # Nada /\ Pedido.op = "f_truncate" /\ Pedido.archivo = arch /\ Pedido.n = nuevo /\ Pedido' =
      Nada
  BY <1>1, PedidoEnCurso DEF Operacion, Pedido
<1>8. /\ Len(Contenido(arch)) = tamanio[arch]
      /\ \A n \in 1..tamanio[arch] : Contenido(arch)[n] = bloques[CantBloquesSWAP + cadena[arch][n]]
  BY <1>1, ContenidoLargo
<1>9. /\ Len(Contenidos'[arch]) = nuevo
      /\ \A n \in 1..nuevo : Contenidos'[arch][n] = bloques[CantBloquesSWAP + cadena'[arch][n]]
  <2>1. tamanio'[arch] = nuevo
    BY <1>1, <1>2
  <2>2. Contenidos'[arch] = [n \in 1..nuevo |-> bloques[CantBloquesSWAP + cadena'[arch][n]]]
    BY <1>1, <2>1 DEF Contenidos, Contenido
  <2> QED
    BY <1>1, <2>2
<1>10. \A n \in 1..Len(Contenidos[arch]) : n <= nuevo => Contenidos'[arch][n] = Contenidos[arch][n]
  <2>1. Contenidos[arch] = Contenido(arch) /\ tamanio[arch] \in Nat
    BY <1>1, TipoArchivo DEF Contenidos
  <2> QED
    BY <1>1, <1>4, <1>8, <1>9, <2>1
<1>11. \A g \in Archivos \ {arch} : Contenidos'[g] = Contenidos[g]
  BY <1>5 DEF Contenidos
<1>12. S!Truncar
  BY <1>1, <1>6, <1>7, <1>9, <1>10, <1>11 DEF S!Truncar, S!Atender, Contenidos, Creados
<1> QED
  BY <1>1, <1>12 DEF S!SNext

(* The block that a read or a write reaches inside its file.               *)
LEMMA BloqueAccedido ==
  ASSUME FTypeOK, Sano, paso \in {"leer", "escribir"}, resto = 0, nuevo < tamanio[arch]
  PROVE  /\ arch \in Archivos /\ nuevo \in Nat /\ tamanio[arch] \in Nat
         /\ nuevo + 1 \in 1..tamanio[arch] /\ tamanio[arch] <= Len(cadena[arch])
         /\ Fisico = CantBloquesSWAP + cadena[arch][nuevo + 1]
<1>1. arch \in Archivos /\ nuevo \in Nat
  BY DEF FTypeOK, Sano, IPaso
<1>2. tamanio[arch] \in Nat /\ tamanio[arch] <= Len(cadena[arch]) /\ Len(cadena[arch]) \in Nat
  BY <1>1, InicioCadena, TipoArchivo
<1>3. bloque = cadena[arch][nuevo + 1]
  BY <1>1, <1>2 DEF Sano, ICamino
<1> QED
  BY <1>1, <1>2, <1>3 DEF Fisico

(* A read gives what the file holds.                                       *)
LEMMA RefLeer ==
  ASSUME FTypeOK, Sano, ~danio, leer_archivo, FTypeOK', ~danio'
  PROVE  S!SNext
<1>1. nuevo < tamanio[arch]
  BY Zenon DEF leer_archivo, EnElArchivo
<1>2. /\ paso = "leer" /\ resto = 0 /\ paso' = "libre" /\ leido' = bloques[Fisico]
      /\ UNCHANGED <<tamanio, bloques, cadena>>
  BY DEF leer_archivo, NadaEnCurso, disco
<1>3. /\ arch \in Archivos /\ tamanio[arch] \in Nat /\ nuevo \in Nat
      /\ nuevo + 1 \in 1..tamanio[arch] /\ Fisico = CantBloquesSWAP + cadena[arch][nuevo + 1]
  BY <1>1, <1>2, BloqueAccedido
<1>4. Contenidos' = Contenidos /\ Creados' = Creados
  BY <1>2 DEF Contenidos, Contenido, Creados
<1>5. Len(Contenidos[arch]) = tamanio[arch] /\ leido' = Contenidos[arch][nuevo + 1]
  BY <1>2, <1>3, ContenidoLargo DEF Contenidos
<1>6. Pedido # Nada /\ Pedido.op = "f_read" /\ Pedido.archivo = arch /\ Pedido.n = nuevo /\ Pedido' = Nada
  BY <1>2, PedidoEnCurso DEF Operacion, Pedido
<1>7. danio' = danio
  BY DEF FTypeOK
<1>8. S!Leer
  BY <1>1, <1>4, <1>5, <1>6 DEF S!Leer, S!Atender, Contenidos, Creados
<1> QED
  BY <1>7, <1>8 DEF S!SNext

(* A write changes one block of its file and no other.                     *)
LEMMA RefEscribir ==
  ASSUME FTypeOK, Sano, ~danio, escribir_archivo, FTypeOK', ~danio'
  PROVE  S!SNext
<1>1. nuevo < tamanio[arch]
  BY Zenon DEF escribir_archivo, EnElArchivo
<1>2. /\ paso = "escribir" /\ resto = 0 /\ paso' = "libre" /\ bloques' = [bloques EXCEPT ![Fisico] = dato]
      /\ UNCHANGED <<tamanio, cadena, leido>>
  BY DEF escribir_archivo, NadaEnCurso, historia
<1>3. /\ arch \in Archivos /\ tamanio[arch] \in Nat /\ nuevo \in Nat
      /\ nuevo + 1 \in 1..tamanio[arch] /\ tamanio[arch] <= Len(cadena[arch])
      /\ Fisico = CantBloquesSWAP + cadena[arch][nuevo + 1]
  BY <1>1, <1>2, BloqueAccedido
<1>4. ASSUME NEW f \in Archivos, tamanio[f] >= 0, NEW n \in 1..tamanio[f]
      PROVE  bloques'[CantBloquesSWAP + cadena[f][n]] =
               IF f = arch /\ n = nuevo + 1 THEN dato ELSE bloques[CantBloquesSWAP + cadena[f][n]]
  <2>1. tamanio[f] \in Nat /\ tamanio[f] <= Len(cadena[f]) /\ Len(cadena[f]) \in Nat
    BY <1>2, <1>4, InicioCadena
  <2>2. n \in 1..Len(cadena[f]) /\ nuevo + 1 \in 1..Len(cadena[arch])
    BY <1>3, <1>4, <2>1, TipoArchivo
  <2>3. cadena[f][n] \in BloquesFAT /\ cadena[arch][nuevo + 1] \in BloquesFAT
    BY <1>3, <2>2, TipoArchivo
  <2>4. cadena[f][n] = cadena[arch][nuevo + 1] <=> f = arch /\ n = nuevo + 1
    BY <1>3, <2>2 DEF Sano, IDisjuntas
  <2>5. CantBloquesSWAP + cadena[f][n] \in Disco
    BY <2>3, FATAssumption DEF Disco, BloquesFAT
  <2>6. CantBloquesSWAP + cadena[f][n] = Fisico <=> f = arch /\ n = nuevo + 1
    BY <1>3, <2>3, <2>4, FATAssumption DEF BloquesFAT
  <2> QED
    BY <1>2, <2>5, <2>6 DEF FTypeOK
<1>5. ASSUME NEW f \in Archivos, f # arch PROVE Contenido(f)' = Contenido(f)
  BY <1>2, <1>4, <1>5, TipoArchivo DEF Contenido
<1>6. Contenido(arch) = [n \in 1..tamanio[arch] |-> bloques[CantBloquesSWAP + cadena[arch][n]]]
  BY <1>3 DEF Contenido
<1>7. Contenidos'[arch] = [n \in 1..tamanio[arch] |-> bloques'[CantBloquesSWAP + cadena[arch][n]]]
  BY <1>2, <1>3 DEF Contenidos, Contenido
<1>8. Contenidos'[arch] = [Contenido(arch) EXCEPT ![nuevo + 1] = dato]
  <2>1. \A n \in 1..tamanio[arch] :
          bloques'[CantBloquesSWAP + cadena[arch][n]] =
            IF n = nuevo + 1 THEN dato ELSE bloques[CantBloquesSWAP + cadena[arch][n]]
    BY <1>3, <1>4
  <2> DEFINE c == Contenido(arch)
  <2>2. \A n \in 1..tamanio[arch] : c[n] = bloques[CantBloquesSWAP + cadena[arch][n]]
    BY <1>6
  <2>3. DOMAIN c = 1..tamanio[arch]
    BY <1>6
  <2>4. [c EXCEPT ![nuevo + 1] = dato] = [n \in 1..tamanio[arch] |-> IF n = nuevo + 1 THEN dato ELSE c[n]]
    <3> HIDE DEF c
    <3> QED
      BY <2>3
  <2> HIDE DEF c
  <2>5. [n \in 1..tamanio[arch] |-> bloques'[CantBloquesSWAP + cadena[arch][n]]] =
          [n \in 1..tamanio[arch] |-> IF n = nuevo + 1 THEN dato ELSE c[n]]
    BY <2>1, <2>2
  <2> QED
    BY <1>7, <2>4, <2>5 DEF c
<1>9. Contenidos' = [Contenidos EXCEPT ![arch][nuevo + 1] = dato]
  BY <1>3, <1>5, <1>8 DEF Contenidos
<1>10. Creados' = Creados /\ Len(Contenidos[arch]) = tamanio[arch]
  BY <1>2, <1>3, ContenidoLargo DEF Creados, Contenidos
<1>11. /\ Pedido # Nada /\ Pedido.op = "f_write" /\ Pedido.archivo = arch /\ Pedido.n = nuevo
       /\ Pedido.dato = dato /\ Pedido' = Nada
  BY <1>2, PedidoEnCurso DEF Operacion, Pedido
<1>12. danio' = danio
  BY DEF FTypeOK
<1>13. S!Escribir
  BY <1>1, <1>2, <1>9, <1>10, <1>11 DEF S!Escribir, S!Atender, Contenidos, Creados
<1> QED
  BY <1>12, <1>13 DEF S!SNext

(* When the program stops the request is lost without effect.              *)
LEMMA RefCaida ==
  ASSUME FTypeOK, Sano, ~danio, Caida, FTypeOK', ~danio'
  PROVE  S!SNext
<1>1. /\ paso # "libre" /\ paso' = "libre" /\ UNCHANGED <<tamanio, inicial, bloques, leido>>
  BY DEF Caida, NadaEnCurso, disco
<1>2. arch \in Archivos
  BY <1>1 DEF Sano, IPaso
<1>3. ASSUME NEW f \in Archivos PROVE \A n \in 1..tamanio[f] : cadena'[f][n] = cadena[f][n]
  <2>1. CASE ~SinGuardar
    BY <2>1 DEF Caida
  <2>2. CASE SinGuardar
    <3>1. f # arch => cadena'[f] = cadena[f]
      BY <2>2 DEF Caida, FTypeOK
    <3>2. f = arch => tamanio[f] <= 0 /\ tamanio[f] \in Int
      BY <2>2, TipoArchivo DEF SinGuardar, Sano, ITamanio
    <3> QED
      BY <3>1, <3>2
  <2> QED
    BY <2>1, <2>2
<1>4. ASSUME NEW f \in Archivos PROVE Contenido(f)' = Contenido(f)
  BY <1>1, <1>3, ContenidoIgual
<1>5. Contenidos' = Contenidos /\ Creados' = Creados
  BY <1>1, <1>4 DEF Contenidos, Creados
<1>6. Pedido # Nada /\ Pedido' = Nada
  BY <1>1, PedidoEnCurso DEF Pedido
<1>7. danio' = danio
  BY DEF FTypeOK
<1> QED
  BY <1>1, <1>5, <1>6, <1>7 DEF S!SNext, S!Perder, Contenidos, Creados

(* Every step of the FileSystem is a step of the promise, or none.         *)
LEMMA RefSiguiente ==
  ASSUME FInv, FInv', [FNext]_fvars
  PROVE  [S!SNext]_(S!svars)
<1>1. CASE UNCHANGED fvars
  BY <1>1 DEF fvars, disco, pedido, historia, S!svars, Contenido, Pedido, Operacion
<1>2. CASE FNext /\ danio' = TRUE
  BY <1>2 DEF S!SNext
<1>3. CASE FNext /\ danio' # TRUE
  <2>1. FTypeOK /\ Sano /\ ~danio /\ FTypeOK' /\ ~danio'
    BY <1>3 DEF FInv, FNext, FTypeOK
  <2>2. ASSUME NEW f \in Archivos, PedidoNuevo(f) PROVE S!SNext
    <3>1. CASE f_open(f)
      BY <3>1, <2>1, RefPide DEF f_open, FTypeOK, historia, Sigue, SinFCB, FCBVacio
    <3>2. CASE AbrirSinTamanio(f)
      BY <3>2, <2>1 DEF AbrirSinTamanio, Danio
    <3>3. CASE \E t \in Tamanios : TruncarIgual(f, t) \/ Agrandar(f, t) \/ Achicar(f, t)
      BY <3>3, <2>1, RefPide DEF TruncarIgual, Agrandar, Achicar, Truncar, disco, historia, Sigue
    <3>4. CASE \E p \in Punteros : PedirLeer(f, p) \/ \E v \in Valores : PedirEscribir(f, p, v)
      BY <3>4, <2>1, RefPide DEF PedirLeer, PedirEscribir, Acceder, disco, historia, Sigue
    <3> QED
      BY <2>2, <3>1, <3>2, <3>3, <3>4 DEF PedidoNuevo
  <2>3. CASE UltimoSinValor \/ BorrarTodo
    BY <2>1, <2>3 DEF UltimoSinValor, BorrarTodo, Danio
  <2>4. CASE UltimoAvanza \/ UltimoHallado \/ AsignarOcupado \/ AsignarOtro \/ ListarBloque \/ Listado
             \/ BorrarBloque \/ Borrado
    BY <2>1, <2>4, RefSigue DEF UltimoAvanza, UltimoHallado, AsignarOcupado, AsignarOtro, Asignando,
         ListarBloque, Listado, BorrarBloque, Borrado, disco, pedido, historia, Sigue, Operacion
  <2>5. CASE AsignarPrimero \/ Enlazar
    <3>1. arch \in Archivos /\ indice \in BloquesFAT
      BY <2>1, <2>5, FATAssumption DEF FTypeOK, Sano, IPaso, IAsignar, AsignarPrimero, Enlazar, Asignando,
           BloquesFAT
    <3>2. Ultimo
      BY <2>5 DEF AsignarPrimero, Enlazar
    <3>3. \A f \in Archivos : \A n \in 1..Len(cadena[f]) : cadena'[f][n] = cadena[f][n]
      BY <2>1, <3>1, <3>2, UltimoCadena
    <3>4. \A f \in Archivos : tamanio[f] >= 0 => tamanio[f] <= Len(cadena[f])
      BY <2>1 DEF Sano, ITamanio
    <3>5. \A f \in Archivos : \A n \in 1..tamanio[f] : n \in 1..Len(cadena[f])
      BY <2>1, <3>4, TipoArchivo
    <3> QED
      BY <2>1, <2>5, <3>3, <3>5, RefSigue DEF AsignarPrimero, Enlazar, Asignando, Sigue, Operacion
  <2>6. CASE AsignarFin
    <3>1. danio' = danio
      BY <2>1 DEF FTypeOK
    <3> QED
      BY <2>1, <2>6, <3>1, RefSigue DEF AsignarFin, disco, pedido, historia, Operacion
  <2>7. CASE Saltar
    BY <2>1, <2>7, RefSigue DEF Saltar, disco, historia, Sigue, Operacion
  <2>8. CASE crear_archivo \/ Guardar \/ leer_archivo \/ escribir_archivo \/ Caida
    BY <2>1, <2>8, RefCrear, RefGuardar, RefLeer, RefEscribir, RefCaida
  <2> QED
    BY <1>3, <2>2, <2>3, <2>4, <2>5, <2>6, <2>7, <2>8 DEF FNext, PasoTruncar
<1> QED
  BY <1>1, <1>2, <1>3

(* Until the promise ends (danio: see FAT) a file reads back what was last *)
(* written in each of its blocks, and a stop of the program that is not in *)
(* the middle of a shrink loses at most the request being served.          *)
THEOREM ImplementaSistemaArchivos == FSpec => ImplementaArchivos
<1>1. FInit => S!SInit
  <2> SUFFICES ASSUME FInit PROVE S!SInit
    OBVIOUS
  <2>1. \A f \in Archivos : tamanio[f] = -1
    BY DEF FInit, SinFCB
  <2>2. ASSUME NEW f \in Archivos PROVE Contenido(f) = <<>>
    <3>1. Contenido(f) = [n \in 1..0 |-> bloques[CantBloquesSWAP + cadena[f][n]]]
      BY <2>1 DEF Contenido
    <3>2. \A n \in 1..0 : bloques[CantBloquesSWAP + cadena[f][n]] \in {0}
      OBVIOUS
    <3>3. Contenido(f) \in Seq({0}) /\ Len(Contenido(f)) = 0
      BY <3>1, <3>2
    <3> QED
      BY <3>3
  <2> QED
    BY <2>1, <2>2, FATAssumption DEF FInit, S!SInit, Pedido
<1>2. FInv /\ FInv' /\ [FNext]_fvars => [S!SNext]_(S!svars)
  BY RefSiguiente
<1> QED
  BY <1>1, <1>2, FInvariante, PTL DEF FSpec, ImplementaArchivos, S!SSpec
=============================================================================
