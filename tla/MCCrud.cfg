\* clientes, resenas, empleados, inventario, promociones, sucursales: a PUT on a
\* missing row is a 404.
SPECIFICATION Spec
CONSTANTS
  t1 = t1  t2 = t2  t3 = t3
  v = v  w = w
  Peticiones <- MCPeticiones
  Filas <- MCFilas
  Solicitudes <- MCSolicitudes
  SinFila = "404"
  Nulo = Nulo
  MaxFilas = 1
  FallasBD = TRUE
SYMMETRY MCSimetria
INVARIANT TypeOK
PROPERTIES SinResurreccion ImplementaTabla
