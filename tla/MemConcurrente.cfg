SPECIFICATION Spec
CONSTANTS
  Pid = {p1, p2, p3}
  CantMarcos = 3
  MarcosPorByte = 2
  Tamanios = {0, 1, 4}
  BorradoConcurrente = TRUE
INVARIANTS TypeOK MarcosDisjuntos BitmapCoherente HilosCoherentes
SYMMETRY SimetriaPid
CHECK_DEADLOCK FALSE
