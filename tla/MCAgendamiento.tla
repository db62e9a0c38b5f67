--------------------------- MODULE MCAgendamiento ---------------------------
(***************************************************************************)
(* Small instances of Agendamiento for TLC.  The requests offered to each  *)
(* run are built from one template; ids are numbers as in the tables, so a *)
(* client and a barber may carry the same number.                          *)
(***************************************************************************)
EXTENDS Agendamiento, TLC

CONSTANTS p1, p2

Simetria == Permutations(Peticiones)

Plantilla == [op |-> "listar", rol |-> "ADMIN", usuarioId |-> Nulo, id |-> 0,
              clave |-> Nulo, barberoId |-> Nulo, servicioId |-> Nulo,
              fecha |-> "f1", hora |-> "h1", estado |-> "CONFIRMADA", conId |-> FALSE]

Post(cliente, barbero, servicio_) ==
  [Plantilla EXCEPT !.op = "crear", !.rol = "CLIENTE", !.usuarioId = cliente,
                    !.barberoId = barbero, !.servicioId = servicio_]

Cambio(i, rol, usuario, estado) ==
  [Plantilla EXCEPT !.op = "cambiarEstado", !.id = i, !.rol = rol,
                    !.usuarioId = usuario, !.estado = estado]

Ver(i, rol, usuario) ==
  [Plantilla EXCEPT !.op = "verDetalle", !.id = i, !.rol = rol, !.usuarioId = usuario]

Lista(op, rol, usuario, clave) ==
  [Plantilla EXCEPT !.op = op, !.rol = rol, !.usuarioId = usuario, !.clave = clave]

IdsMC == {1, 2}

\* Every row exists from the start, or the services' second does not.
TodasMC == [s \in Catalogos |-> IdsMC]
FaltaServicioMC == [s \in Catalogos |-> IF s = "servicios" THEN {1} ELSE IdsMC]

\* Bookings: accepted, of rows that come and go, incomplete, with an id
\* that has no row, of a barber; the owner's cancellation; and reads of
\* every kind, by who may and who may not.
SolicitudesAlta ==
  {Post(1, 1, 1), Post(2, 1, 2), Post(1, 1, Nulo), Post(Nulo, 1, 1),
   [Post(1, 1, 1) EXCEPT !.conId = TRUE], [Post(1, 1, 1) EXCEPT !.rol = "BARBERO"],
   Cambio(1, "CLIENTE", 1, "CANCELADA"),
   Ver(1, "CLIENTE", 2), Ver(1, "BARBERO", 2),
   Lista("listar", "ADMIN", Nulo, Nulo),
   Lista("listarPorCliente", "CLIENTE", 1, 1), Lista("listarPorBarbero", "BARBERO", 1, 2),
   Lista("listarPorFecha", "ADMIN", Nulo, Nulo)}

\* One booking against changes by its owner, a stranger, its barber, another
\* barber and staff.
SolicitudesCambio ==
  {Post(1, 1, 1),
   Cambio(1, "CLIENTE", 1, "CANCELADA"), Cambio(1, "CLIENTE", 2, "CANCELADA"),
   Cambio(1, "CLIENTE", 1, "COMPLETADA"), Cambio(1, "BARBERO", 1, "COMPLETADA"),
   Cambio(1, "BARBERO", 2, "COMPLETADA"), Cambio(1, "ADMIN", Nulo, "CONFIRMADA")}

\* One of each kind of request, for the catalogues' outages and for liveness.
SolicitudesCortas ==
  {Post(1, 1, 1), Cambio(1, "CLIENTE", 1, "CANCELADA"), Lista("listar", "ADMIN", Nulo, Nulo)}

\* A booking and its cancellation by the owner.
SolicitudesCancelacion == {Post(1, 1, 1), Cambio(1, "CLIENTE", 1, "CANCELADA")}
=============================================================================
