------------------------------- MODULE Pagos --------------------------------
(***************************************************************************)
(* service-pagos over service-agendamiento.  A request is a thread that    *)
(* asks agendamiento for a cita with a blocking GET, before it stores a    *)
(* payment and again to fill the datosCita of every payment it answers.    *)
(*                                                                         *)
(* agendamiento is what it promises (RegistroCitas): thread t of pagos is  *)
(* its client in slot t of Peticiones; the other slots are the clients     *)
(* that book and cancel citas meanwhile.                                   *)
(***************************************************************************)
EXTENDS Citas, DatosPagos, FiniteSets

CONSTANTS
  FallasBD,       \* whether the database may refuse a save
  MaxCitas,       \* bound on the citas that may be booked
  MaxPagos        \* bound on the payments that may be registered

FasesPago == {"libre", "recibida", "validar", "guardar", "resuelta", "respondida"}

Hilo == [fase: FasesPago,
         sol: Opcional(SolicitudPago),
         pago: Opcional(Pago),             \* the entity in memory
         leidos: SUBSET (Nat \X Pago),     \* rows loaded, as they were
         faltan: SUBSET (Nat \X Pago),     \* those still to enrich
         resp: Opcional(RespuestasPago)]

Vacio == [fase |-> "libre", sol |-> Nulo, pago |-> Nulo, leidos |-> {}, faltan |-> {},
          resp |-> Nulo]

ASSUME PagosAssumption ==
  /\ Hilos \subseteq Peticiones
  /\ \A p \in SolicitudesPago : p.citaId # Nulo =>
       \E s \in Solicitudes : s.op = "verDetalle" /\ s.rol = "ADMIN" /\ s.id = p.citaId
  /\ FallasBD \in BOOLEAN /\ MaxCitas \in Nat /\ MaxPagos \in Nat

VARIABLES
  pagos,                    \* table pago, by id: no code deletes a payment
  hilo,                     \* the threads of service-pagos
  citas, usados, atencion   \* service-agendamiento

Agenda == INSTANCE RegistroCitas

agenda == <<citas, usados, atencion>>
vars == <<pagos, hilo, citas, usados, atencion>>

-----------------------------------------------------------------------------
Fase(t, f) == hilo[t].fase = f
Op(t) == hilo[t].sol.op
EnCurso(t) == hilo[t].fase \notin {"libre", "respondida"}

Init == pagos = <<>> /\ hilo = [t \in Hilos |-> Vacio] /\ Agenda!Init

Responder(t, r) ==
  hilo' = [hilo EXCEPT ![t] = [@ EXCEPT !.fase = "resuelta", !.pago = Nulo, !.resp = r]]

\* The request is done but for the datosCita of the rows it answers.
EntraEnriquecer(t, filas) ==
  hilo' = [hilo EXCEPT ![t] = [@ EXCEPT !.fase = "resuelta", !.leidos = filas, !.pago = Nulo,
                                        !.faltan = filas, !.resp = "200"]]

\* MaxPagos bounds the payments together with the POSTs in flight.
HayCupo ==
  Len(pagos) + Cardinality({t \in Hilos : EnCurso(t) /\ Op(t) = "registrar"}) < MaxPagos

\* A thread is free again when its connection to agendamiento is.
Recibir(t) ==
  /\ Fase(t, "libre") /\ atencion[t].estadio = "libre"
  /\ \E s \in SolicitudesPago :
       /\ s.op = "registrar" => HayCupo
       /\ hilo' = [hilo EXCEPT ![t] = [@ EXCEPT !.fase = "recibida", !.sol = s]]
  /\ UNCHANGED <<pagos, agenda>>

\* registrar, up to its first call.
Registrar(t) ==
  /\ Fase(t, "recibida") /\ Op(t) = "registrar"
  /\ IF hilo[t].sol.citaId = Nulo
     THEN Responder(t, "500")
     ELSE hilo' = [hilo EXCEPT ![t] = [@ EXCEPT !.fase = "validar",
                                                !.pago = PagoDe(hilo[t].sol)]]
  /\ UNCHANGED <<pagos, agenda>>

\* The query of a read.
Leer(t) ==
  LET d == PagosLeidos(hilo[t].sol, pagos) IN
  /\ Fase(t, "recibida") /\ Op(t) \in LecturasPago
  /\ IF Op(t) = "obtener" /\ d = {} THEN Responder(t, "404") ELSE EntraEnriquecer(t, d)
  /\ UNCHANGED <<pagos, agenda>>

\* findById of cambiarEstado and the change of the entity it loaded.
Buscar(t) ==
  LET i == hilo[t].sol.id IN
  /\ Fase(t, "recibida") /\ Op(t) = "cambiarEstado"
  /\ IF i \in DOMAIN pagos
     THEN hilo' = [hilo EXCEPT ![t] = [@ EXCEPT
                     !.fase = "guardar", !.leidos = {<<i, pagos[i]>>},
                     !.pago = [pagos[i] EXCEPT !.estado = hilo[t].sol.estado]]]
     ELSE Responder(t, "500")
  /\ UNCHANGED <<pagos, agenda>>

-----------------------------------------------------------------------------
(***************************************************************************)
(* fetchCita: GET /api/v1/citas/{id} without headers, null on any error.   *)
(* It has no timeout.                                                      *)
(***************************************************************************)
\* A list is enriched row by row, in the order of a query without ORDER BY.
Siguiente(t) == CHOOSE x \in hilo[t].faltan : TRUE
PorEnriquecer(t) == Fase(t, "resuelta") /\ hilo[t].faltan # {}

\* The cita a thread has to ask for.
CitaBuscada(t) ==
  IF Fase(t, "validar") THEN hilo[t].pago.citaId
  ELSE Siguiente(t)[2].citaId

Consulta(i) == CHOOSE s \in Solicitudes :
                 s.op = "verDetalle" /\ s.id = i /\ s.rol = "ADMIN"

Llamar(t) ==
  /\ Fase(t, "validar") \/ PorEnriquecer(t)
  /\ Agenda!Pedir(t, Consulta(CitaBuscada(t)))
  /\ UNCHANGED <<pagos, hilo>>

\* Mutant: a cita that could not be read is taken for one that exists.
SigueSinCita(t, encontrada) ==
  \/ /\ Fase(t, "validar")
     /\ hilo' = [hilo EXCEPT ![t].fase = "guardar"]
  \/ /\ PorEnriquecer(t)
     /\ hilo' = [hilo EXCEPT ![t].faltan = @ \ {Siguiente(t)}]

\* Mutant: the enrichment goes on only when its cita could be read.
SigueSoloConCita(t, encontrada) ==
  \/ /\ Fase(t, "validar")
     /\ IF encontrada THEN hilo' = [hilo EXCEPT ![t].fase = "guardar"]
                      ELSE Responder(t, "500")
  \/ /\ PorEnriquecer(t)
     /\ hilo' = IF encontrada THEN [hilo EXCEPT ![t].faltan = @ \ {Siguiente(t)}] ELSE hilo

\* What a thread does with fetchCita's result: registrar needs the cita, enriquecer
\* puts a text in its place.
Sigue(t, encontrada) ==
  \/ /\ Fase(t, "validar")
     /\ IF encontrada THEN hilo' = [hilo EXCEPT ![t].fase = "guardar"]
                      ELSE Responder(t, "500")
  \/ /\ PorEnriquecer(t)
     /\ hilo' = [hilo EXCEPT ![t].faltan = @ \ {Siguiente(t)}]

Recoger(t) ==
  /\ Sigue(t, atencion[t].resp = "200")
  /\ Agenda!Terminar(t)
  /\ UNCHANGED pagos

\* agendamiento is not there to be called.
SinConexion(t) ==
  /\ atencion[t].estadio = "libre"
  /\ Sigue(t, FALSE)
  /\ UNCHANGED <<pagos, agenda>>

\* Every row has been asked for: the answer reaches the client.
Contestar(t) ==
  /\ Fase(t, "resuelta") /\ hilo[t].faltan = {}
  /\ hilo' = [hilo EXCEPT ![t].fase = "respondida"]
  /\ UNCHANGED <<pagos, agenda>>

-----------------------------------------------------------------------------
\* save() of a new payment.
Insertar(t) ==
  /\ Fase(t, "guardar") /\ Op(t) = "registrar"
  /\ pagos' = Append(pagos, hilo[t].pago)
  /\ EntraEnriquecer(t, {<<Len(pagos) + 1, hilo[t].pago>>})
  /\ UNCHANGED agenda

\* Mutant: a save() that comes after another one of the same row is skipped.
ActualizarUnaVez(t) ==
  LET i == hilo[t].sol.id IN
  /\ Fase(t, "guardar") /\ Op(t) = "cambiarEstado"
  /\ pagos' = IF <<i, pagos[i]>> \in hilo[t].leidos
              THEN [pagos EXCEPT ![i] = hilo[t].pago] ELSE pagos
  /\ EntraEnriquecer(t, {<<i, hilo[t].pago>>})
  /\ UNCHANGED agenda

\* save() of the payment that cambiarEstado loaded: every column, and only if it
\* differs from what was loaded.
Actualizar(t) ==
  LET i == hilo[t].sol.id IN
  /\ Fase(t, "guardar") /\ Op(t) = "cambiarEstado"
  /\ pagos' = IF <<i, hilo[t].pago>> \in hilo[t].leidos THEN pagos
              ELSE [pagos EXCEPT ![i] = hilo[t].pago]
  /\ EntraEnriquecer(t, {<<i, hilo[t].pago>>})
  /\ UNCHANGED agenda

GuardarFalla(t) ==
  /\ FallasBD /\ Fase(t, "guardar")
  /\ <<hilo[t].sol.id, hilo[t].pago>> \notin hilo[t].leidos
  /\ Responder(t, "500")
  /\ UNCHANGED <<pagos, agenda>>

\* The client has its answer.
Terminar(t) ==
  /\ Fase(t, "respondida")
  /\ hilo' = [hilo EXCEPT ![t] = Vacio]
  /\ UNCHANGED <<pagos, agenda>>

\* The process is killed and started again: its threads lose their clients.
Caida ==
  /\ \E t \in Hilos : EnCurso(t)
  /\ hilo' = [t \in Hilos |->
                IF EnCurso(t) THEN [hilo[t] EXCEPT !.fase = "respondida", !.pago = Nulo,
                                       !.leidos = {}, !.faltan = {}, !.resp = "sinRespuesta"]
                ELSE hilo[t]]
  /\ UNCHANGED <<pagos, agenda>>

\* agendamiento answers a connection that a killed thread left behind.
Descartar(t) ==
  /\ ~EnCurso(t)
  /\ Agenda!Terminar(t)
  /\ UNCHANGED <<pagos, hilo>>

-----------------------------------------------------------------------------
\* What agendamiento does with the calls it has, those of pagos included.
Atender(u) ==
  \/ Agenda!Agendar(u) \/ Agenda!CambiarEstado(u) \/ Agenda!Leer(u)
  \/ \E r \in {"200"} \cup Errores : Agenda!Contestar(u, r)

\* The other clients of agendamiento.
Ajeno(u) ==
  \/ \E s \in Solicitudes :
       /\ s.op = "crear" => Len(citas) < MaxCitas
       /\ Agenda!Pedir(u, s)
  \/ Agenda!Terminar(u)

Agendamiento ==
  /\ \/ \E u \in Peticiones : Atender(u)
     \/ \E u \in Peticiones \ Hilos : Ajeno(u)
     \/ Agenda!Perder
     \/ \E s \in Catalogos : Agenda!Conocer(s)
  /\ UNCHANGED <<pagos, hilo>>

Paso(t) ==
  \/ Registrar(t) \/ Leer(t) \/ Buscar(t) \/ Llamar(t) \/ Recoger(t) \/ SinConexion(t)
  \/ Insertar(t) \/ Actualizar(t) \/ GuardarFalla(t) \/ Contestar(t)

Next ==
  \/ \E t \in Hilos : Recibir(t) \/ Paso(t) \/ Terminar(t) \/ Descartar(t)
  \/ Caida
  \/ Agendamiento

Spec == Init /\ [][Next]_vars

\* The JVM keeps running its threads.
EquidadHilos == \A t \in Hilos : WF_vars(Paso(t))

SpecJusta == Spec /\ EquidadHilos

-----------------------------------------------------------------------------
\* Stored payments are whole, and every thread holds what its phase needs.
TypeOK ==
  /\ pagos \in Seq(Pago)
  /\ hilo \in [Hilos -> Hilo]
  /\ \A t \in Hilos : Fase(t, "guardar") => hilo[t].pago \in Pago

\* Every payment names a cita that exists, although the cita is read in another
\* service and the payment stored later, with kills of both services in between.
PagoDeCitaExistente == \A i \in DOMAIN pagos : pagos[i].citaId \in DOMAIN citas

\* If agendamiento answers every call it gets, pagos answers every request:
\* fetchCita has no timeout, so this service is only as alive as the other.
RespondeSiAgendaResponde ==
  (\A t \in Hilos : atencion[t].estadio \in {"pendiente", "leida"}
                      ~> atencion[t].estadio = "contestada") =>
    (\A t \in Hilos : EnCurso(t) ~> Fase(t, "respondida"))

\* A change of state to the state it loaded writes nothing: it is done when loaded.
SinCambios(p) ==
  /\ p.fase = "guardar" /\ p.sol.op = "cambiarEstado"
  /\ <<p.sol.id, p.pago>> \in p.leidos

Estadio(p) == CASE p.fase = "libre"      -> "libre"
                [] p.fase = "respondida" -> "contestada"
                [] p.fase = "resuelta"   -> "resuelta"
                [] OTHER                 -> IF SinCambios(p) THEN "resuelta" ELSE "pendiente"

Dato(p) == IF p.fase # "libre" /\ p.sol.op \in LecturasPago THEN p.leidos ELSE {}

Visto(p) == Recibo(Estadio(p), p.sol, Dato(p), IF SinCambios(p) THEN "200" ELSE p.resp)

Libro == INSTANCE RegistroPagos WITH recibo <- [t \in Hilos |-> Visto(hilo[t])]

\* Whatever agendamiento does meanwhile, a client sees payments that are registered
\* and change atomically, and errors that changed nothing.
ImplementaPagos == Libro!Spec
=============================================================================
