SPECIFICATION Spec
CONSTANTS
  CantPids = 3
  Recurso = {"REC1"}
  Interfaz = {"IO1"}
  Algoritmo = "RR"
  GradoInicial = 3
  Grados = {}
  EstadosMatables = {"READY", "BLOCKED", "EXIT"}
  NombresWait = {"REC1"}
  NombresSignal = {"REC1"}
  NombresIO = {}
  Disciplina = TRUE
  MaxTenencia = 1
  MaxAvisos = 1
  InstanciasIniciales <- UnaInstancia
INVARIANTS TypeOK FichaUnica ColasCoherentes ExclusionMutua SemaforoCoherente
PROPERTIES ExitFinal
CHECK_DEADLOCK FALSE
