SPECIFICATION Spec
CONSTANTS
  t1 = t1  t2 = t2  v = v  w = w  x = x
  Nulo = Nulo
  Peticiones = {t1, t2}
  Filas <- MCFilas
  Extras = {x}
  Solicitudes = {}
  SinFila = "500"
  Semilla <- MCVacia
  Iniciales <- MCUno
  Ofrecidas = {"crear", "actualizar", "eliminar"}
  EliminaDirecto = TRUE
  MaxAltas = 1
SYMMETRY MCSimetria
INVARIANTS TypeOK CopiaAlDia UnaFilaPorAlta
PROPERTIES ImplementaLocal
