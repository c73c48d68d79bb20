SPECIFICATION Spec
CONSTANTS
  Archivo = {a, b, c}
  CantBloques = 4
  TamBloque = 2
  Tamanios = {0, 1, 3}
  Punteros = {0, 2}
  Largos = {1}
  Cero = 0
  Dato = {0, 1}
  Ordenes = {"crear", "borrar", "agrandar", "compactar", "achicar", "escribir", "leer", "inexistente"}
  Caidas = {}
  Reinicios = FALSE
INVARIANTS BitmapCoherente
PROPERTIES Implementa
SYMMETRY SimetriaArchivo
CHECK_DEADLOCK FALSE
