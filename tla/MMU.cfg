SPECIFICATION SpecT
CONSTANTS
  Pid = {0, 1}
  Pagina = {0, 1, 2}
  Marco = {0, 1, 2}
  tlb_size = 2
  Algoritmos = {"FIFO", "LRU"}
  MaxInstante = 5
  Disciplina = TRUE
INVARIANTS TypeOK FilasVigentes
PROPERTIES TraduccionCorrecta Implementa
CHECK_DEADLOCK FALSE
