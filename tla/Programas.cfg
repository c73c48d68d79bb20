SPECIFICATION Spec
CONSTANTS
  Pid = {1, 2}
  CantMarcos = 3
  TamPag = 2
  Base = 2
  Hilo = {"CPU", "STDIN", "STDOUT"}
  Orden <- OrdenMC
  TamReg <- TamRegMC
  TamInt = 2
  Programas <- ProgramasMC
  Entradas = 2
  Algoritmos = {"LRU"}
  Disciplina = TRUE
INVARIANTS TypeOK TramosPropios
PROPERTIES Implementa
CHECK_DEADLOCK FALSE
