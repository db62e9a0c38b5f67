CONSTANTS
  Peticiones = {p1, p2}
  p1 = p1
  p2 = p2
  Nulo = Nulo
  Solicitudes <- SolicitudesAlta
  Ids <- IdsMC
  Iniciales <- FaltaServicioMC
  Eliminables = {"servicios"}
  Disponibilidad = {"activo"}
  FallasBD = FALSE
  MaxCitas = 2
  Fechas = {"f1"}
  Horas = {"h1"}
  Estados = {"PENDIENTE", "CONFIRMADA", "COMPLETADA", "CANCELADA"}
SYMMETRY Simetria
SPECIFICATION Spec
INVARIANTS TypeOK ReferenciasConocidas
PROPERTIES ImplementaRegistro
