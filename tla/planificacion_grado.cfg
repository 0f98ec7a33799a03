SPECIFICATION PSpec
CONSTANTS
  r1 = r1  r2 = r2  h1 = h1  h2 = h2  h3 = h3
  MaxProcesos = 3
  Args = {0, 1, 2, r1, r2}
  Programa <- ProgramaBreve
  MaxFallas = 0
  Recs = {r1}
  InstanciasIniciales <- UnaDeCada
  Algoritmos = {"FIFO"}
  GradoInicial = 1
  Grados = {2}
  Prioridad <- MismaPrioridad
  FdInterrupcion = 9
  Sueltos = {h1, h2, h3}
  MaxPausas = 1
  MaxKills = 0
  MaxCambios = 1
  MaxRechazos = 1
  MaxQuantums = 0
INVARIANTS
  GradoRespetado
  SinDespertarPerdido
CHECK_DEADLOCK FALSE
