SPECIFICATION Spec
CONSTANTS
  Pid = {p1, p2, p3}
  CantMarcos = 4
  MarcosPorByte = 2
  Tamanios = {0, 1, 3}
  BorradoConcurrente = FALSE
INVARIANTS BitmapCoherente
PROPERTIES Implementa
SYMMETRY SimetriaPid
CHECK_DEADLOCK FALSE
