CONSTANTS
  Peticiones = {p1, p2}
  p1 = p1
  p2 = p2
  Nulo = Nulo
  Solicitudes <- SolicitudesCancelacion
  Ids <- IdsMC
  Iniciales <- TodasMC
  Eliminables = {"servicios"}
  Disponibilidad = {"activo"}
  FallasBD = FALSE
  MaxCitas = 1
  Fechas = {"f1"}
  Horas = {"h1"}
  Estados = {"PENDIENTE", "CONFIRMADA", "COMPLETADA", "CANCELADA"}
SPECIFICATION Spec
INVARIANTS DuenoPuedeCancelar
