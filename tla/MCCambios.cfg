CONSTANTS
  Peticiones = {p1, p2}
  p1 = p1
  p2 = p2
  Nulo = Nulo
  Solicitudes <- SolicitudesCambio
  Ids <- IdsMC
  Iniciales <- TodasMC
  Eliminables = {}
  Disponibilidad = {"activo"}
  FallasBD = TRUE
  MaxCitas = 1
  Fechas = {"f1"}
  Horas = {"h1"}
  Estados = {"PENDIENTE", "CONFIRMADA", "COMPLETADA", "CANCELADA"}
SYMMETRY Simetria
SPECIFICATION Spec
INVARIANTS OkTuvoEfecto
PROPERTIES EscrituraAutorizada ImplementaRegistro
