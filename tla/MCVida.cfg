CONSTANTS
  Peticiones = {p1, p2}
  p1 = p1
  p2 = p2
  Nulo = Nulo
  Solicitudes <- SolicitudesCortas
  Ids <- IdsMC
  Iniciales <- TodasMC
  Eliminables = {}
  Disponibilidad = {"activo", "caido", "colgado"}
  FallasBD = TRUE
  MaxCitas = 1
  Fechas = {"f1"}
  Horas = {"h1"}
  Estados = {"PENDIENTE", "CONFIRMADA", "COMPLETADA", "CANCELADA"}
SPECIFICATION FairSpec
INVARIANTS ErrorSinEfecto
PROPERTIES RespondeSiNadieCuelga
