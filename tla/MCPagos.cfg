SPECIFICATION SpecJusta
CONSTANTS
  h1 = h1  h2 = h2  c1 = c1
  Nulo = Nulo
  Peticiones <- MCPeticiones
  Hilos <- MCHilos
  Solicitudes <- MCAgendar
  Ids = {1}
  Iniciales <- MCIniciales
  Fechas = {"f"}
  Horas = {"h"}
  Estados = {"CONFIRMADA", "CANCELADA"}
  EstadosPago = {"PENDIENTE", "PAGADO", "ANULADO"}
  MaxCitas = 1
  SolicitudesPago <- MCCobros
  FallasBD = TRUE
  MaxPagos = 1
INVARIANTS TypeOK PagoDeCitaExistente
PROPERTIES ImplementaPagos RespondeSiAgendaResponde
