SPECIFICATION PSpec
CONSTANTS
  r1 = r1  r2 = r2  h1 = h1  h2 = h2  h3 = h3
  MaxProcesos = 2
  Args = {0, 1, 2, r1, r2}
  Programa <- ProgramaFIFO
  MaxFallas = 0
  Recs = {r1}
  InstanciasIniciales <- UnaDeCada
  Algoritmos = {"FIFO"}
  GradoInicial = 2
  Grados = {2}
  Prioridad <- MismaPrioridad
  FdInterrupcion = 9
  Sueltos = {h1, h2, h3}
  MaxPausas = 0
  MaxKills = 0
  MaxCambios = 0
  MaxRechazos = 0
  MaxQuantums = 0
INVARIANTS
  PTypeOK
  UnSoloLugar
  CpuUnica
  RespuestaEmparejada
PROPERTIES
  InstruccionSiguiente
  RSpec
CHECK_DEADLOCK FALSE
