SPECIFICATION Spec
CONSTANTS
  s1 = s1  s2 = s2  ta = ta
  Nulo = Nulo
  Envios = {s1, s2}
  Pestanas = {ta}
  PestanaDe <- MCUnaPestana
  Huecos <- MCHuecos
  CitasDePrueba <- MCPrueba
  FilasBackend <- MCFilas
  MaxReservas = 4
INVARIANTS TypeOK Separadas ConfirmadaGuardada
