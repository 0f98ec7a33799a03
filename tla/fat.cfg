SPECIFICATION FSpec
CONSTANTS
  f1 = f1  f2 = f2
  cero = cero  uno = uno
  Archivos = {f1, f2}
  Valores = {cero, uno}
  ValorInicial = cero
  CantBloquesFAT = 5
  CantBloquesSWAP = 2
  Tamanios = {0, 1, 2, 3}
  Punteros = {0, 1, 2, 3}
  MaxCaidas = 1
INVARIANTS
  FTypeOK
  CadenaEnlazada
  BloquesPropios
  TamanioCumplido
PROPERTIES
  SwapIntacta
  ImplementaArchivos
CHECK_DEADLOCK FALSE
