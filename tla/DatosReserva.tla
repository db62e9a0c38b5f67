---------------------------- MODULE DatosReserva ----------------------------
(***************************************************************************)
(* The data of the booking client (frontend/src): sessions, what the       *)
(* wizard chooses, the citas that a browser keeps, and the calls it has in *)
(* flight.  Names, prices and coupons are left out: no guard of the        *)
(* booking reads them.                                                     *)
(***************************************************************************)
EXTENDS Citas, Coleccion, FiniteSets

CONSTANTS
  Navegadores,       \* browsers, each with its localStorage and one tab
  Usuarios,          \* sessions that LoginPage may start
  Correos,           \* addresses that a visitor may type
  Elecciones,        \* what a wizard may choose
  FechaFuera,        \* '2099-01-01'
  Codigos,           \* values of codigoReserva
  CitasIniciales,    \* DATOS_INICIALES.citas
  Destinos,          \* views that the navigation bars lead to
  EstadosAdmin,      \* states that the administration panel sets
  Restablece,        \* whether the data may be reset
  MaxConfirmaciones  \* bound on the clicks on "Confirmar"

Eleccion == [servicioId: Ids, barberoId: Ids, fecha: Fechas, hora: Horas]

\* The user of a session.  One that has just registered has no id.
Usuario == [id: Opcional(Ids), rol: Roles, correo: Correos]

Vistas == {"inicio", "agendamiento", "reserva-exitosa", "reserva-fallida", "mis-citas", "admin"}

\* What manejarConfirmacionFinal puts together.
NuevaCita == [eleccion: Eleccion, clienteId: Opcional(Ids), correo: Correos]

(***************************************************************************)
(* A record of collection citas.  respaldo, limpia and reactivada are read *)
(* by the properties only: the cita of the backend that the same booking   *)
(* created, whether the booking met no other one of its browser, and       *)
(* whether it was ever taken out of CANCELADA.                             *)
(***************************************************************************)
CitaLocal == [id: Nat \ {0}, reserva: NuevaCita, estado: Estados, codigo: Codigos,
              respaldo: Opcional(Nat), limpia: BOOLEAN, reactivada: BOOLEAN]

(***************************************************************************)
(* A call in flight, in a slot that is also its slot in the registry.      *)
(* viva: the wizard that started it is still on the screen.                *)
(***************************************************************************)
FasesLlamada == {"libre", "temporizador", "enviada", "cuerpo", "abandonada"}
Llamada == [fase: FasesLlamada, nav: Opcional(Navegadores),
            tipo: Opcional({"agendar", "cambiarEstado"}),
            cita: Opcional(NuevaCita), id: Nat, estado: Opcional(Estados),
            viva: BOOLEAN, limpia: BOOLEAN]

Ninguna == [fase |-> "libre", nav |-> Nulo, tipo |-> Nulo, cita |-> Nulo, id |-> 0,
            estado |-> Nulo, viva |-> FALSE, limpia |-> FALSE]

ASSUME DatosReservaAssumption ==
  /\ Usuarios \subseteq Usuario
  /\ Elecciones \subseteq Eleccion
  /\ CitasIniciales \subseteq CitaLocal
  /\ Destinos \subseteq Vistas
  /\ EstadosAdmin \subseteq Estados
  /\ "CONFIRMADA" \in Estados
  /\ Restablece \in BOOLEAN
  /\ MaxConfirmaciones \in Nat
  /\ 1 \in Ids
  /\ Nulo \notin Usuarios /\ Nulo \notin Correos /\ Nulo \notin Navegadores

-----------------------------------------------------------------------------
MismoHueco(c, e) ==
  /\ c.reserva.eleccion.barberoId = e.barberoId
  /\ c.reserva.eleccion.fecha = e.fecha
  /\ c.reserva.eleccion.hora = e.hora
  /\ c.estado # "CANCELADA"

\* esHoraOcupada, for what the wizard has chosen and the citas that it was given.
EsHoraOcupada(lista, e) == \E c \in lista : MismoHueco(c, e)

\* x || 1
OUno(x) == IF x = Nulo THEN 1 ELSE x

\* The citas that ClientPortalPage shows.
CitasUsuario(lista, u) ==
  {c \in lista : u = Nulo \/ c.reserva.clienteId = u.id \/ c.reserva.correo = u.correo}

\* dbSimulada.actualizar with a new state.
ConEstado(lista, i, e) ==
  {IF c.id = i
   THEN [c EXCEPT !.estado = e,
                  !.reactivada = @ \/ (c.estado = "CANCELADA" /\ e # "CANCELADA")]
   ELSE c : c \in lista}

\* DATOS_INICIALES.citas takes no hour twice and says nothing of the backend.
ASSUME CitasInicialesAssumption ==
  /\ IsFiniteSet(CitasIniciales)
  /\ \A c, d \in CitasIniciales : c.id > d.id => ~MismoHueco(d, c.reserva.eleccion)
  /\ \A c \in CitasIniciales : c.respaldo = Nulo
=============================================================================
