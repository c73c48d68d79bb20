SPECIFICATION SpecJusta
CONSTANTS
  CantPids = 2
  Recurso = {"REC1"}
  Interfaz = {}
  Algoritmo = "VRR"
  GradoInicial = 3
  Grados = {}
  EstadosMatables = {"READY_PRIORITARIO"}
  NombresWait = {"REC1", "NADA"}
  NombresSignal = {"REC1"}
  NombresIO = {}
  Disciplina = FALSE
  MaxTenencia = 1
  MaxAvisos = 1
  InstanciasIniciales <- UnaInstancia
INVARIANTS PrioridadConResto FichaUnica
PROPERTIES RespuestaLlega
