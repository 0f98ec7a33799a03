SPECIFICATION ASpecJusta
CONSTANTS
  MaxProcesos = 4
  Archs = {f1, f2}
  f1 = f1  f2 = f2
  MatarEnEspera = FALSE
INVARIANTS
  ATypeOK
  LockCoherente
  EsperaJustificada
  TerminaSinLocks
PROPERTIES
  LocksEnOrden
  ImplementaLocks
  EsperaAtendida
CHECK_DEADLOCK FALSE
