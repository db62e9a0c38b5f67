SPECIFICATION Spec
CONSTANTS
  b1 = b1  p1 = p1  p2 = p2
  Nulo = Nulo
  Peticiones = {p1, p2}
  Navegadores = {b1}
  Solicitudes = {}
  Ids <- MCIds
  Iniciales <- MCIniciales
  Fechas <- MCFechas
  Horas = {"h1"}
  Estados = {"CONFIRMADA", "CANCELADA"}
  Usuarios <- MCSoloAdmin
  Correos = {"m1"}
  Elecciones <- MCUna
  FechaFuera = "2099-01-01"
  Codigos = {"k1"}
  CitasIniciales <- MCCitaCancelada
  Destinos = {"agendamiento", "admin"}
  EstadosAdmin = {"CONFIRMADA"}
  Restablece = TRUE
  MaxConfirmaciones = 2
INVARIANTS CopiaAlDia ChoqueSoloConCruce RespaldoFiel UnaCitaPorConfirmacion
SYMMETRY MCSimetria
