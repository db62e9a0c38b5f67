SPECIFICATION FairSpec
CONSTANTS
  b1 = b1  p1 = p1  p2 = p2
  Nulo = Nulo
  Peticiones = {p1, p2}
  Navegadores = {b1}
  Solicitudes = {}
  Ids <- MCIds
  Iniciales <- MCIniciales
  Fechas <- MCFechas
  Horas = {"h1", "h2"}
  Estados = {"CONFIRMADA", "CANCELADA"}
  Usuarios = {}
  Correos = {"m1"}
  Elecciones <- MCTres
  FechaFuera = "2099-01-01"
  Codigos = {"k1"}
  CitasIniciales <- MCCitaActiva
  Destinos = {"inicio", "agendamiento", "mis-citas"}
  EstadosAdmin = {}
  Restablece = FALSE
  MaxConfirmaciones = 1
INVARIANTS TypeOK ExitoVerdadero
PROPERTIES TodaLlamadaTermina
