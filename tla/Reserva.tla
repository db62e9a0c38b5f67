------------------------------ MODULE Reserva -------------------------------
(***************************************************************************)
(* The booking client: App, BookingPage, ClientPortalPage, the citas of    *)
(* the administration panel, CitasAPI and collection citas of dbSimulada,  *)
(* over service-agendamiento as RegistroCitas promises it.                 *)
(*                                                                         *)
(* An action is what the browser runs between two awaits: a handler up to  *)
(* its first await, or the continuation of an await with all that it does  *)
(* to the state of App.  A function of dbSimulada is atomic here: a        *)
(* browser has one tab (see ImplementaAlmacen of DbSimulada) and room.     *)
(***************************************************************************)
EXTENDS DatosReserva

VARIABLES
  guardadas,               \* collection citas of each browser
  app,                     \* state of App: view, user, copy of citas, last booking
  asistente,               \* state of BookingPage, or null when it is not mounted
  llamada,                 \* timers and calls in flight
  creada,                  \* the id in the body of each answer to a POST of a cita
  confirmaciones,          \* clicks on "Confirmar" so far
  citas, usados, atencion  \* service-agendamiento

Agenda == INSTANCE RegistroCitas

agenda == <<citas, usados, atencion>>
vars == <<guardadas, app, asistente, llamada, creada, confirmaciones, agenda>>

App == [vista: Vistas, usuario: Opcional(Usuarios), citas: SUBSET CitaLocal,
        confirmada: Opcional(CitaLocal)]

Asistente == [paso: 1..5, eleccion: Elecciones, correo: Opcional(Correos),
              procesando: BOOLEAN]

\* Null is not a wizard.
ASSUME ReservaAssumption == Nulo \notin Asistente

Init ==
  /\ guardadas = [b \in Navegadores |-> CitasIniciales]
  /\ app = [b \in Navegadores |-> [vista |-> "inicio", usuario |-> Nulo,
                                   citas |-> CitasIniciales, confirmada |-> Nulo]]
  /\ asistente = [b \in Navegadores |-> Nulo]
  /\ llamada = [u \in Peticiones |-> Ninguna]
  /\ creada = [u \in Peticiones |-> Nulo]
  /\ confirmaciones = 0
  /\ Agenda!Init

-----------------------------------------------------------------------------
Fase(u, f) == llamada[u].fase = f
EnVuelo(u) == llamada[u].fase \in {"temporizador", "enviada", "cuerpo"}

\* Browser b has no booking pending.
Solo(b) ==
  \A u \in Peticiones : llamada[u].nav = b /\ llamada[u].tipo = "agendar" => ~EnVuelo(u)

\* The wizard of b goes away: its timers lose the component, and run all the same.
SinVivas(b, l) ==
  [u \in Peticiones |-> IF l[u].nav = b THEN [l[u] EXCEPT !.viva = FALSE] ELSE l[u]]

\* App of b shows view v.  BookingPage is mounted when v is its view and was not:
\* with any choice, for another view may have preselected one.
Muestra(b, v, a, l) ==
  /\ app' = [app EXCEPT ![b] = [a EXCEPT !.vista = v]]
  /\ IF v = "agendamiento"
     THEN /\ IF app[b].vista = "agendamiento" THEN UNCHANGED asistente
             ELSE \E e \in Elecciones : asistente' = [asistente EXCEPT ![b] =
                    [paso |-> 1, eleccion |-> e, procesando |-> FALSE,
                     correo |-> IF a.usuario = Nulo THEN Nulo ELSE a.usuario.correo]]
          /\ llamada' = l
     ELSE asistente' = [asistente EXCEPT ![b] = Nulo] /\ llamada' = SinVivas(b, l)

\* The links that each user sees.
HayEnlace(b, v) ==
  LET u == app[b].usuario IN
  CASE v \in {"inicio", "agendamiento"} -> TRUE
    [] v = "mis-citas" -> \/ u # Nulo /\ u.rol = "CLIENTE"
                          \/ app[b].vista = "reserva-exitosa"
    [] v = "admin" -> u # Nulo /\ u.rol # "CLIENTE"
    [] OTHER -> FALSE

Navegar(b, v) ==
  /\ v # app[b].vista /\ HayEnlace(b, v)
  /\ Muestra(b, v, app[b], llamada)
  /\ UNCHANGED <<guardadas, creada, confirmaciones, agenda>>

\* onLoginExitoso.  An open wizard takes the data of the user where it has none.
IniciarSesion(b, u) ==
  /\ app[b].usuario = Nulo
  /\ app' = [app EXCEPT ![b] = [@ EXCEPT !.usuario = u]]
  /\ asistente' = [asistente EXCEPT ![b] =
       IF @ # Nulo /\ @.correo = Nulo THEN [@ EXCEPT !.correo = u.correo] ELSE @]
  /\ UNCHANGED <<guardadas, llamada, creada, confirmaciones, agenda>>

CerrarSesion(b) ==
  /\ app[b].usuario # Nulo
  /\ Muestra(b, "inicio", [app[b] EXCEPT !.usuario = Nulo], llamada)
  /\ UNCHANGED <<guardadas, creada, confirmaciones, agenda>>

-----------------------------------------------------------------------------
En(b, p) == asistente[b] # Nulo /\ asistente[b].paso = p

Cambia(b, a) ==
  /\ asistente' = [asistente EXCEPT ![b] = a]
  /\ UNCHANGED <<guardadas, app, llamada, creada, confirmaciones, agenda>>

\* A step of the wizard changes its own fields.  An hour that is taken cannot be
\* clicked, but a change of date may leave one chosen.
Elegir(b, e) ==
  LET a == asistente[b] IN
  /\ \/ En(b, 1) /\ e = [a.eleccion EXCEPT !.servicioId = e.servicioId]
     \/ En(b, 2) /\ e = [a.eleccion EXCEPT !.barberoId = e.barberoId]
     \/ En(b, 3) /\ e = [a.eleccion EXCEPT !.fecha = e.fecha]
     \/ En(b, 3) /\ e = [a.eleccion EXCEPT !.hora = e.hora] /\ ~EsHoraOcupada(app[b].citas, e)
  /\ e # a.eleccion
  /\ Cambia(b, [a EXCEPT !.eleccion = e])

\* Mutant: the hour is not checked when step 3 is left.
AvanzarSinComprobar(b) ==
  LET a == asistente[b] IN
  \/ /\ En(b, 1) \/ En(b, 2)
     /\ Cambia(b, [a EXCEPT !.paso = @ + 1])
  \/ /\ En(b, 3)
     /\ Cambia(b, [a EXCEPT !.paso = 4])
  \/ /\ En(b, 4)
     /\ \E m \in Correos : Cambia(b, [a EXCEPT !.paso = 5, !.correo = m])

\* Mutant: there is a step after the last one.
AvanzarSinTope(b) ==
  /\ \E p \in 1..5 : En(b, p)
  /\ Cambia(b, [asistente[b] EXCEPT !.paso = @ + 1, !.correo = CHOOSE m \in Correos : TRUE])

\* avanzarPaso: the hour must be free, and then the client's data complete.
Avanzar(b) ==
  LET a == asistente[b] IN
  \/ /\ En(b, 1) \/ En(b, 2)
     /\ Cambia(b, [a EXCEPT !.paso = @ + 1])
  \/ /\ En(b, 3)
     /\ ~EsHoraOcupada(app[b].citas, a.eleccion)
     /\ Cambia(b, [a EXCEPT !.paso = 4])
  \/ /\ En(b, 4)
     /\ \E m \in Correos : Cambia(b, [a EXCEPT !.paso = 5, !.correo = m])

Retroceder(b) ==
  /\ \E p \in 2..5 : En(b, p)
  /\ ~asistente[b].procesando
  /\ Cambia(b, [asistente[b] EXCEPT !.paso = @ - 1])

\* A slot is free again when its connection to the backend is.
SlotLibre(u) == Fase(u, "libre") /\ atencion[u].estadio = "libre"

\* manejarConfirmacionFinal: the booking is put together now and sent 700 ms later.
Confirmar(b, u) ==
  LET a == asistente[b]
      usr == app[b].usuario
      nueva == [eleccion |-> a.eleccion, correo |-> a.correo,
                clienteId |-> IF usr = Nulo THEN 1 ELSE usr.id]
  IN
  /\ En(b, 5) /\ ~a.procesando
  /\ SlotLibre(u)
  /\ confirmaciones < MaxConfirmaciones
  /\ confirmaciones' = confirmaciones + 1
  /\ asistente' = [asistente EXCEPT ![b] = [a EXCEPT !.procesando = TRUE]]
  /\ llamada' = [v \in Peticiones |->
       IF v = u
       THEN [fase |-> "temporizador", nav |-> b, tipo |-> "agendar", cita |-> nueva,
             id |-> 0, estado |-> Nulo, viva |-> TRUE, limpia |-> Solo(b)]
       ELSE IF llamada[v].nav = b THEN [llamada[v] EXCEPT !.limpia = FALSE] ELSE llamada[v]]
  /\ UNCHANGED <<guardadas, app, creada, agenda>>

-----------------------------------------------------------------------------
\* fetch: the request reaches the service, or never does.
Envia(u, s) == Agenda!Pedir(u, s) \/ UNCHANGED agenda

\* The body and the headers of agendar.
SolicitudDeReserva(n) ==
  [op |-> "crear", rol |-> "CLIENTE", usuarioId |-> OUno(n.clienteId), id |-> 0,
   clave |-> Nulo, barberoId |-> n.eleccion.barberoId, servicioId |-> n.eleccion.servicioId,
   fecha |-> n.eleccion.fecha, hora |-> n.eleccion.hora, estado |-> "CONFIRMADA",
   conId |-> FALSE]

\* Mutant: the timer is cleared with its wizard.
VenceSiSigueAbierto(u) ==
  LET b == llamada[u].nav IN
  /\ Fase(u, "temporizador") /\ llamada[u].viva
  /\ asistente' = [asistente EXCEPT ![b].procesando = FALSE]
  /\ llamada' = [llamada EXCEPT ![u].fase = "enviada"]
  /\ Envia(u, SolicitudDeReserva(llamada[u].cita))
  /\ UNCHANGED <<app, guardadas, creada, confirmaciones>>

\* The timer of manejarConfirmacionFinal: it frees the button of its wizard (if it is
\* still there) and only then agendar starts.
VenceTemporizador(u) ==
  LET l == llamada[u]
      b == l.nav IN
  /\ Fase(u, "temporizador")
  /\ IF l.cita.eleccion.fecha = FechaFuera
     THEN /\ Muestra(b, "reserva-fallida", app[b], [llamada EXCEPT ![u] = Ninguna])
          /\ UNCHANGED agenda
     ELSE /\ asistente' = IF l.viva THEN [asistente EXCEPT ![b].procesando = FALSE]
                          ELSE asistente
          /\ llamada' = [llamada EXCEPT ![u].fase = "enviada"]
          /\ Envia(u, SolicitudDeReserva(l.cita))
          /\ UNCHANGED app
  /\ UNCHANGED <<guardadas, creada, confirmaciones>>

\* CitasAPI.cambiarEstado for the local cita i.
PideEstado(b, i, e, rol, id, u) ==
  /\ SlotLibre(u)
  /\ llamada' = [llamada EXCEPT ![u] =
       [fase |-> "enviada", nav |-> b, tipo |-> "cambiarEstado", cita |-> Nulo,
        id |-> i, estado |-> e, viva |-> FALSE, limpia |-> FALSE]]
  /\ Envia(u, [op |-> "cambiarEstado", rol |-> rol, usuarioId |-> id, id |-> i,
               clave |-> Nulo, barberoId |-> Nulo, servicioId |-> Nulo,
               fecha |-> CHOOSE f \in Fechas : TRUE, hora |-> CHOOSE h \in Horas : TRUE,
               estado |-> e, conId |-> FALSE])
  /\ UNCHANGED <<guardadas, app, asistente, creada, confirmaciones>>

\* handleCancelarCita, from "Mis Citas".
Cancelar(b, u) ==
  LET usr == app[b].usuario IN
  /\ app[b].vista = "mis-citas"
  /\ \E c \in CitasUsuario(app[b].citas, usr) :
       /\ c.estado \in {"PENDIENTE", "CONFIRMADA"}
       /\ PideEstado(b, c.id, "CANCELADA", "CLIENTE",
                     IF usr = Nulo THEN 1 ELSE OUno(usr.id), u)

\* handleCambiarEstadoCita, from the administration panel.
CambiarEstado(b, u) ==
  LET usr == app[b].usuario IN
  /\ app[b].vista = "admin"
  /\ \E c \in app[b].citas, e \in EstadosAdmin :
       PideEstado(b, c.id, e, IF usr = Nulo THEN "ADMIN" ELSE usr.rol,
                  IF usr = Nulo THEN Nulo ELSE usr.id, u)

-----------------------------------------------------------------------------
\* The call of slot u is over for its browser; the service may still be at it.
Sin(u) ==
  [llamada EXCEPT ![u] = IF atencion[u].estadio \in {"libre", "contestada"} THEN Ninguna
                         ELSE [@ EXCEPT !.fase = "abandonada"]]

Suelta(u) ==
  IF atencion[u].estadio = "contestada"
  THEN Agenda!Terminar(u) /\ creada' = [creada EXCEPT ![u] = Nulo]
  ELSE UNCHANGED <<agenda, creada>>

\* Mutant: agendar answers what the backend created.
TerminarReservaConCreada(u, r) ==
  LET l == llamada[u]
      lista == guardadas[l.nav]
      registro(k) == [id |-> IdNuevo(lista), reserva |-> l.cita, estado |-> "CONFIRMADA",
                      codigo |-> k, respaldo |-> r, limpia |-> l.limpia,
                      reactivada |-> FALSE]
  IN
  /\ l.tipo = "agendar"
  /\ \E k \in Codigos :
       LET ahora == lista \cup {registro(k)} IN
       /\ guardadas' = [guardadas EXCEPT ![l.nav] = ahora]
       /\ Muestra(l.nav, "reserva-exitosa",
                  [app[l.nav] EXCEPT !.citas = ahora,
                     !.confirmada = [registro(k) EXCEPT !.id = IF r = Nulo THEN @ ELSE r]],
                  Sin(u))
  /\ Suelta(u)
  /\ UNCHANGED confirmaciones

\* The end of agendar and of handleReservaExitosa, whatever is on the screen by then.
TerminarReserva(u, r) ==
  LET l == llamada[u]
      lista == guardadas[l.nav]
      registro(k) == [id |-> IdNuevo(lista), reserva |-> l.cita, estado |-> "CONFIRMADA",
                      codigo |-> k, respaldo |-> r, limpia |-> l.limpia,
                      reactivada |-> FALSE]
  IN
  /\ l.tipo = "agendar"
  /\ \E k \in Codigos :
       LET ahora == lista \cup {registro(k)} IN
       /\ guardadas' = [guardadas EXCEPT ![l.nav] = ahora]
       /\ Muestra(l.nav, "reserva-exitosa",
                  [app[l.nav] EXCEPT !.citas = ahora, !.confirmada = registro(k)], Sin(u))
  /\ Suelta(u)
  /\ UNCHANGED confirmaciones

\* Mutant: the handler does not read the citas again.
TerminarCambioSinRefrescar(u) ==
  LET l == llamada[u] IN
  /\ l.tipo = "cambiarEstado"
  /\ guardadas' = [guardadas EXCEPT ![l.nav] = ConEstado(@, l.id, l.estado)]
  /\ llamada' = Sin(u)
  /\ Suelta(u)
  /\ UNCHANGED <<app, asistente, confirmaciones>>

\* The end of cambiarEstado and of its handler: the local cita changes in any case.
TerminarCambio(u) ==
  LET l == llamada[u]
      ahora == ConEstado(guardadas[l.nav], l.id, l.estado) IN
  /\ l.tipo = "cambiarEstado"
  /\ guardadas' = [guardadas EXCEPT ![l.nav] = ahora]
  /\ app' = [app EXCEPT ![l.nav].citas = ahora]
  /\ llamada' = Sin(u)
  /\ Suelta(u)
  /\ UNCHANGED <<asistente, confirmaciones>>

Recurre(u) == TerminarReserva(u, Nulo) \/ TerminarCambio(u)

\* Mutant: a call with no answer is sent again.
RechazarYRepetir(u) ==
  /\ Fase(u, "enviada")
  /\ \/ Recurre(u)
     \/ /\ atencion[u].resp = "sinRespuesta"
        /\ atencion' = [atencion EXCEPT ![u].estadio = "pendiente", ![u].resp = Nulo]
        /\ UNCHANGED <<guardadas, app, asistente, llamada, creada, confirmaciones, citas, usados>>

\* fetch rejects: no connection, a connection lost, or 2500 ms without headers.
Rechazar(u) == Fase(u, "enviada") /\ Recurre(u)

\* The service answered, with an error.
RecibirError(u) ==
  /\ Fase(u, "enviada") /\ atencion[u].resp \in Errores
  /\ Recurre(u)

\* The headers of a 200: the abort timer is cleared.  Only agendar reads the body.
RecibirOk(u) ==
  /\ Fase(u, "enviada") /\ atencion[u].resp = "200"
  /\ \/ TerminarCambio(u)
     \/ /\ llamada[u].tipo = "agendar"
        /\ llamada' = [llamada EXCEPT ![u].fase = "cuerpo"]
        /\ UNCHANGED <<guardadas, app, asistente, creada, confirmaciones, agenda>>

\* Mutant: the booking is taken for the last one of the backend.
LeerCuerpoUltima(u) == Fase(u, "cuerpo") /\ TerminarReserva(u, Len(citas))

\* res.json() resolves, or rejects.
LeerCuerpo(u) == Fase(u, "cuerpo") /\ TerminarReserva(u, creada[u])
PerderCuerpo(u) == Fase(u, "cuerpo") /\ TerminarReserva(u, Nulo)

\* handleRestablecerDatos.  What is pending will be added to other data.
RestablecerDatos(b) ==
  /\ Restablece
  /\ app[b].vista = "admin"
  /\ guardadas' = [guardadas EXCEPT ![b] = CitasIniciales]
  /\ app' = [app EXCEPT ![b].citas = CitasIniciales]
  /\ llamada' = [u \in Peticiones |-> IF llamada[u].nav = b
                                      THEN [llamada[u] EXCEPT !.limpia = FALSE] ELSE llamada[u]]
  /\ UNCHANGED <<asistente, creada, confirmaciones, agenda>>

-----------------------------------------------------------------------------
\* service-agendamiento goes on with the request of slot u, if it got there.
Atender(u) ==
  /\ \/ Agenda!Agendar(u) /\ creada' = [creada EXCEPT ![u] = Len(citas')]
     \/ /\ \/ Agenda!CambiarEstado(u)
           \/ \E r \in {"200"} \cup Errores : Agenda!Contestar(u, r)
        /\ UNCHANGED creada
  /\ UNCHANGED <<guardadas, app, asistente, llamada, confirmaciones>>

\* It is killed: every answer under way is lost.
Caida ==
  /\ \E u \in Peticiones : atencion[u].estadio \notin {"libre", "contestada"}
  /\ Agenda!Perder
  /\ UNCHANGED <<guardadas, app, asistente, llamada, creada, confirmaciones>>

\* It answers a call that nobody waits for.
Descartar(u) ==
  /\ Fase(u, "abandonada") /\ atencion[u].estadio = "contestada"
  /\ llamada' = [llamada EXCEPT ![u] = Ninguna]
  /\ Suelta(u)
  /\ UNCHANGED <<guardadas, app, asistente, confirmaciones>>

Next ==
  \/ \E b \in Navegadores :
       \/ \E v \in Destinos : Navegar(b, v)
       \/ \E usr \in Usuarios : IniciarSesion(b, usr)
       \/ \E e \in Elecciones : Elegir(b, e)
       \/ CerrarSesion(b) \/ Avanzar(b) \/ Retroceder(b) \/ RestablecerDatos(b)
       \/ \E u \in Peticiones : Confirmar(b, u) \/ Cancelar(b, u) \/ CambiarEstado(b, u)
  \/ \E u \in Peticiones :
       \/ VenceTemporizador(u) \/ Rechazar(u) \/ RecibirError(u) \/ RecibirOk(u)
       \/ LeerCuerpo(u) \/ PerderCuerpo(u) \/ Atender(u) \/ Descartar(u)
  \/ Caida

Spec == Init /\ [][Next]_vars

\* The two setTimeout of a booking expire; nothing is assumed of the network, the
\* service or the user.
Fairness == \A u \in Peticiones : WF_vars(VenceTemporizador(u)) /\ WF_vars(Rechazar(u))
FairSpec == Spec /\ Fairness

-----------------------------------------------------------------------------
\* Timers and calls carry what their handlers captured, whatever the user does later.
TypeOK ==
  /\ guardadas \in [Navegadores -> SUBSET CitaLocal]
  /\ app \in [Navegadores -> App]
  /\ asistente \in [Navegadores -> Opcional(Asistente)]
  /\ \A b \in Navegadores : asistente[b] # Nulo <=> app[b].vista = "agendamiento"
  /\ llamada \in [Peticiones -> Llamada]
  /\ creada \in [Peticiones -> Opcional(Nat)]
  /\ confirmaciones \in 0..MaxConfirmaciones

\* The citas that App hands to its pages are those that the browser keeps, although
\* calls end in any order and after their pages are gone: esHoraOcupada is never
\* asked about a stale list.
CopiaAlDia == \A b \in Navegadores : app[b].citas = guardadas[b]

Activa(c) == c.estado # "CANCELADA"

\* The hour is checked two steps before "Confirmar" and the booking is stored after
\* the timer and the call: two active citas of a browser take one hour only if the
\* later one was confirmed while another booking was pending, or met one or a reset
\* before it ended, or if the earlier one was brought back from CANCELADA.
ChoqueSoloConCruce ==
  \A b \in Navegadores : \A c, d \in guardadas[b] :
    c.id > d.id /\ Activa(c) /\ Activa(d) /\ MismoHueco(d, c.reserva.eleccion) =>
      ~c.limpia \/ d.reactivada

\* ERS_v2 RF-09: an hour taken for the barber and date cannot be chosen.
SinDobleReserva ==
  \A b \in Navegadores : \A c, d \in guardadas[b] :
    c.id > d.id /\ Activa(c) /\ ~d.reactivada => ~MismoHueco(d, c.reserva.eleccion)

\* The screen that says that a cita is booked shows one that the browser keeps, under
\* its id and code, whichever call brought the user there.
ExitoVerdadero ==
  \A b \in Navegadores : app[b].vista = "reserva-exitosa" =>
    \E c \in guardadas[b] : /\ c.id = app[b].confirmada.id
                            /\ c.codigo = app[b].confirmada.codigo
                            /\ c.reserva = app[b].confirmada.reserva

\* Row r of the backend is what reservation n asked for.
EsDe(r, n) ==
  /\ r.barberoId = n.eleccion.barberoId /\ r.servicioId = n.eleccion.servicioId
  /\ r.fecha = n.eleccion.fecha /\ r.hora = n.eleccion.hora
  /\ r.clienteId = OUno(n.clienteId)

\* What the backend made of a booking, with several in flight, is the cita it was
\* asked for, and no two bookings are taken for one.
RespaldoFiel ==
  \A b \in Navegadores : \A c \in guardadas[b] : c.respaldo # Nulo =>
    /\ c.respaldo \in DOMAIN citas
    /\ EsDe(citas[c.respaldo], c.reserva)
    /\ \A a \in Navegadores : \A d \in guardadas[a] :
         d.respaldo = c.respaldo => a = b /\ d = c

Reservando(b) ==
  {u \in Peticiones : EnVuelo(u) /\ llamada[u].nav = b /\ llamada[u].tipo = "agendar"}

\* One click makes at most one cita in the browser and one in the backend: after a
\* timeout, a lost answer or a refusal the POST is never sent again.
UnaCitaPorConfirmacion ==
  LET porLlegar == {u \in Peticiones :
                      \/ Fase(u, "temporizador")
                      \/ atencion[u].estadio = "pendiente" /\ atencion[u].sol.op = "crear"}
  IN
  /\ Len(citas) + Cardinality(porLlegar) <= confirmaciones
  /\ \A b \in Navegadores :
       Cardinality({c \in guardadas[b] : \A d \in CitasIniciales : c.id # d.id})
         + Cardinality(Reservando(b)) <= confirmaciones

\* If no body stays half read for ever, every booking and every change of state ends,
\* with the service dead or hung and with the page that started it gone.
TodaLlamadaTermina ==
  (\A u \in Peticiones : []<>~Fase(u, "cuerpo")) =>
    \A u \in Peticiones : EnVuelo(u) ~> ~EnVuelo(u)
=============================================================================
