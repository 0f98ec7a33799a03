SPECIFICATION MSpec
CONSTANTS
  cero = cero  uno = uno
  MaxProcesos = 2
  Valores = {cero, uno}
  ValorInicial = cero
  CantPaginas <- DosYUna
  CantBloquesSWAP = 3
  CantMarcos = 2
  Reemplazos = {"FIFO", "LRU"}
  MaxArchivos = 1
  BloqueFD = 0
INVARIANTS
  MTypeOK
  Coherencia
  SwapPropia
  PaginasFieles
PROPERTY VictimaMasAntigua
CHECK_DEADLOCK FALSE
