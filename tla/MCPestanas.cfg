SPECIFICATION Spec
CONSTANTS
  t1 = t1  t2 = t2
  Nulo = Nulo
  Colecciones = {"citas", "servicios"}
  Contenidos = {"a", "b"}
  DatosIniciales <- MCIniciales
  TopeId = 2
  Pestanas = {t1, t2}
  Pedidos <- MCTodas
SYMMETRY MCSimetria
INVARIANTS TypeOK IdsUnicos
PROPERTY AtomicaSinCruce
