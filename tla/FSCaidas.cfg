SPECIFICATION SpecJusta
CONSTANTS
  Archivo = {a, b}
  CantBloques = 3
  TamBloque = 2
  Tamanios = {1, 3}
  Punteros = {0}
  Largos = {1}
  Cero = 0
  Dato = {0, 1}
  Ordenes = {"crear", "borrar", "borrar vacio", "agrandar", "compactar", "achicar", "escribir", "inexistente"}
  Caidas = {"reposo", "reservar", "abrir", "ocupar", "guardar", "liberar", "limpiar", "quitar", "recortar",
            "sacar", "recorrer", "mudar", "mudar ocupar", "mudar escribir", "mudar liberar",
            "poner ocupar", "poner escribir"}
  Reinicios = TRUE
INVARIANTS TypeOK Reservados Disjuntos
PROPERTIES SeContesta
CHECK_DEADLOCK FALSE
