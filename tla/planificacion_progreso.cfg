SPECIFICATION PSpecJusta
CONSTANTS
  r1 = r1  r2 = r2  h1 = h1  h2 = h2  h3 = h3
  MaxProcesos = 2
  Args = {0, 1, 2, r1, r2}
  Programa <- ProgramaProgreso
  MaxFallas = 1
  Recs = {r1}
  InstanciasIniciales <- UnaDeCada
  Algoritmos = {"FIFO"}
  GradoInicial = 2
  Grados = {2}
  Prioridad <- MismaPrioridad
  FdInterrupcion = 9
  Sueltos = {h1}
  MaxPausas = 1
  MaxKills = 0
  MaxCambios = 0
  MaxRechazos = 0
  MaxQuantums = 0
PROPERTY Progreso
CHECK_DEADLOCK FALSE
