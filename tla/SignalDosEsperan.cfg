SPECIFICATION Spec
CONSTANTS
  CantPids = 3
  Recurso = {"REC1"}
  Interfaz = {}
  Algoritmo = "RR"
  GradoInicial = 3
  Grados = {}
  EstadosMatables = {}
  NombresWait = {"REC1"}
  NombresSignal = {"REC1"}
  NombresIO = {}
  Disciplina = FALSE
  MaxTenencia = 1
  MaxAvisos = 1
  InstanciasIniciales <- UnaInstancia
PROPERTIES SignalDesbloquea
