SPECIFICATION MSpecJusta
CONSTANTS
  cero = cero  uno = uno
  MaxProcesos = 2
  Valores = {cero, uno}
  ValorInicial = cero
  CantPaginas <- UnaDeCada
  CantBloquesSWAP = 2
  CantMarcos = 1
  Reemplazos = {"FIFO"}
  MaxArchivos = 1
  BloqueFD = 0
PROPERTIES
  GuardarYContinuar
CHECK_DEADLOCK FALSE
