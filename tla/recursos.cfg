SPECIFICATION RSpec
CONSTANTS
  a = a  b = b  c = c
  MaxProcesos = 3
  Recs = {a, b, c}
  InstanciasIniciales <- DosYUna
INVARIANTS
  RTypeOK
  Conservacion
  NadieEsperaConInstancias
  EsperaUnica
  DeteccionExacta
PROPERTY EntregaEnOrden
CHECK_DEADLOCK FALSE
