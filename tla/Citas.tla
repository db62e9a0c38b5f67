------------------------------- MODULE Citas --------------------------------
(***************************************************************************)
(* The data of service-agendamiento, shared by the registry it promises    *)
(* (RegistroCitas) and by its code (Agendamiento): a row of table cita, a  *)
(* request with its headers and body, and the checks that read both.       *)
(*                                                                         *)
(* Price and the transient datosX fields are left out: no guard reads them.*)
(***************************************************************************)
EXTENDS Valores

CONSTANTS
  Peticiones,     \* request slots: the requests served at the same time
  Solicitudes,    \* the requests clients may send
  Ids,            \* ids the catalogue tables can hand out
  Iniciales,      \* [Catalogos -> SUBSET Ids]: rows seeded at start
  Fechas, Horas, Estados

Catalogos == {"clientes", "barberos", "servicios"}

\* "ADMIN" stands for every rol header other than the two the code tests, or none.
Roles == {"CLIENTE", "BARBERO", "ADMIN"}

Listados == {"listar", "listarPorCliente", "listarPorBarbero", "listarPorFecha"}
Lecturas == {"verDetalle"} \cup Listados
Operaciones == {"crear", "cambiarEstado"} \cup Lecturas

Cita == [clienteId: Ids, barberoId: Ids, servicioId: Ids,
         fecha: Fechas, hora: Horas, estado: Estados]

(***************************************************************************)
(* What arrives over HTTP: headers (rol, usuarioId), path variables (id of *)
(* a cita, or clave of a list) and the body.  conId says that the body     *)
(* carries an id with no row, as barberiaApi.js does with Date.now(); no   *)
(* client of the repository posts the id of an existing row.               *)
(***************************************************************************)
Solicitud == [op: Operaciones, rol: Roles, usuarioId: Opcional(Ids),
              id: Nat, clave: Opcional(Ids),
              barberoId: Opcional(Ids), servicioId: Opcional(Ids),
              fecha: Fechas, hora: Horas, estado: Estados, conId: BOOLEAN]

Errores == {"403", "404", "500"}
Respuestas == {"200", "sinRespuesta"} \cup Errores

ASSUME CitasAssumption ==
  /\ Iniciales \in [Catalogos -> SUBSET Ids]
  /\ Solicitudes \subseteq Solicitud
  /\ "CANCELADA" \in Estados
  /\ Nulo \notin Ids /\ Nulo \notin Respuestas

-----------------------------------------------------------------------------
Referencia(c, s) == CASE s = "clientes"  -> c.clienteId
                      [] s = "barberos"  -> c.barberoId
                      [] s = "servicios" -> c.servicioId

\* The body of a POST, with the owner taken from the usuarioId header.
CitaDe(s) == [clienteId |-> s.usuarioId, barberoId |-> s.barberoId,
              servicioId |-> s.servicioId, fecha |-> s.fecha, hora |-> s.hora,
              estado |-> s.estado]

\* The row c with id i is what findById, findAll, findByClienteId, ... look for.
Coincide(s, i, c) == CASE s.op = "listar"           -> TRUE
                       [] s.op = "verDetalle"       -> i = s.id
                       [] s.op = "cambiarEstado"    -> i = s.id
                       [] s.op = "listarPorCliente" -> c.clienteId = s.clave
                       [] s.op = "listarPorBarbero" -> c.barberoId = s.clave
                       [] s.op = "listarPorFecha"   -> c.fecha = s.fecha

\* The header checks of listarPorCliente and listarPorBarbero.
PuedeListar(s) ==
  /\ s.op = "listarPorCliente" /\ s.rol = "CLIENTE" => s.clave = s.usuarioId
  /\ s.op = "listarPorBarbero" /\ s.rol = "BARBERO" => s.clave = s.usuarioId

\* The null checks of guardarCita.
SinNulos(c) == Nulo \notin {c.clienteId, c.barberoId, c.servicioId}

\* The rows of a table that a read loads, with their ids.
Leidas(s, tabla) ==
  {<<i, tabla[i]>> : i \in {j \in DOMAIN tabla : Coincide(s, j, tabla[j])}}

\* The header checks of verDetalle on the loaded cita.
PuedeVer(s, c) ==
  /\ s.rol = "CLIENTE" => c.clienteId = s.usuarioId
  /\ s.rol = "BARBERO" => c.barberoId = s.usuarioId

\* The header checks of cambiarEstado on the loaded cita.
PuedeCambiar(s, c) ==
  /\ s.rol = "CLIENTE" => c.clienteId = s.usuarioId /\ s.estado = "CANCELADA"
  /\ s.rol = "BARBERO" => c.barberoId = s.usuarioId
=============================================================================
