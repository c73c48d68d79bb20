SPECIFICATION Spec
CONSTANTS
  CantPids = 3
  Respuesta = {r1, r2, r3}
INVARIANTS TypeOK UnoEnCPU ContextoPropio NadieSePierde SinOlvidados
SYMMETRY SimetriaHilos
CHECK_DEADLOCK FALSE
