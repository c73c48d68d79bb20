SPECIFICATION Spec
CONSTANTS
  CantPids = 3
  Recurso = {}
  Interfaz = {"IO1"}
  Algoritmo = "FIFO"
  GradoInicial = 2
  Grados = {1, 3}
  EstadosMatables = {"NO_CREADO", "NEW", "READY", "RUNNING", "BLOCKED"}
  NombresWait = {}
  NombresSignal = {}
  NombresIO = {"IO1", "NADA"}
  Disciplina = FALSE
  MaxTenencia = 1
  MaxAvisos = 1
  InstanciasIniciales <- UnaInstancia
INVARIANTS ColasCoherentes FichaUnica CantCoherente
PROPERTIES LiberarCPUDespacha IOAlQuePidio
CHECK_DEADLOCK FALSE
