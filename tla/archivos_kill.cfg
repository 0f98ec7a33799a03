SPECIFICATION ASpec
CONSTANTS
  MaxProcesos = 3
  Archs = {f1, f2}
  f1 = f1  f2 = f2
  MatarEnEspera = TRUE
INVARIANT TerminaSinLocks
CHECK_DEADLOCK FALSE
