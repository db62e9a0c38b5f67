---------------------------- MODULE Agendamiento ----------------------------
(***************************************************************************)
(* service-agendamiento: the appointments microservice, as concurrent HTTP *)
(* requests over one table.  A request is a thread: it reads or writes the *)
(* table in one database step and asks the three catalogue services        *)
(* (clientes, barberos, servicios) one blocking GET at a time, so other    *)
(* requests, deletions in the catalogues, outages and a kill of the        *)
(* service itself fall between any two of its steps.                       *)
(*                                                                         *)
(* The GETs that only fill the datosX fields of an answer are steps too,   *)
(* because they block; what they bring is not kept.                        *)
(***************************************************************************)
EXTENDS Citas, FiniteSets

CONSTANTS
  Eliminables,    \* catalogues whose service has a DELETE
  Disponibilidad, \* the ways a catalogue service may (not) answer
  FallasBD,       \* whether a save may be refused by the database
  MaxCitas        \* bound on the rows POSTs may insert

\* The order in which guardarCita and enriquecer call the catalogues.
Orden == <<"clientes", "barberos", "servicios">>

Fases == {"libre", "recibida", "enriquecerLeida", "autorizar", "validar",
          "guardar", "enriquecerGuardada", "respondida"}

Peticion == [fase: Fases,
             sol: Opcional(Solicitud),
             cita: Opcional(Cita),           \* the entity in memory
             leidas: SUBSET (Nat \X Cita),     \* rows loaded, as they were
             pendientes: SUBSET Nat,           \* rows still to enrich
             k: {1, 2, 3},                     \* next catalogue call
             resp: Opcional(Respuestas)]

Vacia == [fase |-> "libre", sol |-> Nulo, cita |-> Nulo, leidas |-> {},
          pendientes |-> {}, k |-> 1, resp |-> Nulo]

ASSUME EntornoAssumption ==
  /\ Eliminables \subseteq Catalogos
  /\ Disponibilidad \subseteq {"activo", "caido", "colgado"}
  /\ "activo" \in Disponibilidad
  /\ FallasBD \in BOOLEAN
  /\ MaxCitas \in Nat

VARIABLES
  citas,     \* table cita: AUTO_INCREMENT ids are positions, no row is deleted
  filas,     \* rows each catalogue service has now
  usados,    \* ids each catalogue has ever assigned (its AUTO_INCREMENT)
  servicio,  \* how each catalogue service answers now
  pet,       \* the requests in flight
  hist       \* per request: did it write, states its row has had meanwhile

entorno == <<filas, usados, servicio>>
vars == <<citas, filas, usados, servicio, pet, hist>>

-----------------------------------------------------------------------------
\* Catalogue calls: fetch() answers null on any error and waits for ever on a
\* service that accepts the call and does not answer (block() has no timeout).

Responde(s) == servicio[s] # "colgado"
Encontrado(s, i) == servicio[s] = "activo" /\ i \in filas[s]

-----------------------------------------------------------------------------
\* Bookkeeping of one request.

Fase(t, f) == pet[t].fase = f
Op(t) == pet[t].sol.op
EnCurso(t) == pet[t].fase \notin {"libre", "respondida"}

\* The thread ends: of its local state only what it answers is left.
Contestada(p, r) == [fase |-> "respondida", sol |-> p.sol, cita |-> Nulo,
                     leidas |-> p.leidas, pendientes |-> {}, k |-> 1, resp |-> r]

Responder(t, r) == pet' = [pet EXCEPT ![t] = Contestada(@, r)]

\* Mutant: the null checks are left to the database.
EntraGuardarSinNulos(t, c) ==
  pet' = [pet EXCEPT ![t] = [@ EXCEPT !.fase = "validar", !.cita = c, !.k = 1]]

\* Entry of guardarCita with entity c: the null checks precede every call.
EntraGuardarCita(t, c) ==
  IF SinNulos(c)
  THEN pet' = [pet EXCEPT ![t] = [@ EXCEPT !.fase = "validar", !.cita = c, !.k = 1]]
  ELSE Responder(t, "500")

\* The rows a query loaded go through enriquecer before anything else.
EntraEnriquecer(t) ==
  LET l == Leidas(pet[t].sol, citas) IN
  pet' = [pet EXCEPT ![t] = [@ EXCEPT !.fase = "enriquecerLeida", !.k = 1,
                                       !.leidas = l, !.pendientes = {x[1] : x \in l}]]

-----------------------------------------------------------------------------
Init ==
  /\ citas = <<>>
  /\ filas = Iniciales
  /\ usados = Iniciales
  /\ servicio = [s \in Catalogos |-> "activo"]
  /\ pet = [t \in Peticiones |-> Vacia]
  /\ hist = [t \in Peticiones |-> [escribio |-> FALSE, visto |-> {}]]

\* MaxCitas bounds the rows together with the POSTs in flight.
HayCupo ==
  Len(citas) + Cardinality({t \in Peticiones : EnCurso(t) /\ Op(t) = "crear"}) < MaxCitas

\* A request arrives: the servlet container gives it a thread.
Recibir(t) ==
  /\ Fase(t, "libre")
  /\ \E s \in Solicitudes :
       /\ s.op = "crear" => HayCupo
       /\ pet' = [pet EXCEPT ![t] = [@ EXCEPT !.fase = "recibida", !.sol = s]]
       /\ hist' = [hist EXCEPT ![t] =
                     [escribio |-> FALSE,
                      visto |-> IF s.op = "cambiarEstado" /\ s.id \in DOMAIN citas
                                THEN {citas[s.id].estado} ELSE {}]]
  /\ UNCHANGED <<citas, entorno>>

\* POST /api/v1/citas, up to the first catalogue call.
Crear(t) ==
  /\ Fase(t, "recibida") /\ Op(t) = "crear"
  /\ IF pet[t].sol.rol # "CLIENTE"
     THEN Responder(t, "403")
     ELSE EntraGuardarCita(t, CitaDe(pet[t].sol))
  /\ UNCHANGED <<citas, entorno, hist>>

\* findById of verDetalle and cambiarEstado, in obtenerCitaCompleta.
LeerCita(t) ==
  /\ Fase(t, "recibida") /\ Op(t) \in {"verDetalle", "cambiarEstado"}
  /\ IF pet[t].sol.id \in DOMAIN citas
     THEN EntraEnriquecer(t)
     ELSE Responder(t, "404")
  /\ UNCHANGED <<citas, entorno, hist>>

\* The header check and the query of the four GETs that answer a list.
Listar(t) ==
  /\ Fase(t, "recibida") /\ Op(t) \in Listados
  /\ IF PuedeListar(pet[t].sol)
     THEN EntraEnriquecer(t)
     ELSE Responder(t, "403")
  /\ UNCHANGED <<citas, entorno, hist>>

\* A list with no rows has nothing to enrich.
ListaVacia(t) ==
  /\ Fase(t, "enriquecerLeida") /\ Op(t) \in Listados /\ pet[t].pendientes = {}
  /\ Responder(t, "200")
  /\ UNCHANGED <<citas, entorno, hist>>

\* What follows the last enriquecer of a phase.
TrasEnriquecer(t) ==
  IF Fase(t, "enriquecerLeida") /\ Op(t) \notin Listados
  THEN pet' = [pet EXCEPT ![t] = [@ EXCEPT !.fase = "autorizar", !.pendientes = {}]]
  ELSE Responder(t, "200")

\* Mutant: enriquecer fails, as guardarCita does, on a catalogue that is down.
EnriquecerEstricto(t) ==
  LET p == pet[t] IN
  /\ p.fase \in {"enriquecerLeida", "enriquecerGuardada"}
  /\ p.pendientes # {}
  /\ Responde(Orden[p.k])
  /\ IF servicio[Orden[p.k]] = "caido" THEN Responder(t, "500")
     ELSE IF p.k < 3
     THEN pet' = [pet EXCEPT ![t] = [@ EXCEPT !.k = p.k + 1]]
     ELSE TrasEnriquecer(t)
  /\ UNCHANGED <<citas, entorno, hist>>

\* Mutant: the loop over the rows never leaves the first one.
EnriquecerSinAvance(t) ==
  LET p == pet[t] IN
  /\ p.fase \in {"enriquecerLeida", "enriquecerGuardada"}
  /\ p.pendientes # {}
  /\ Responde(Orden[p.k])
  /\ pet' = [pet EXCEPT ![t] = [@ EXCEPT !.k = IF p.k < 3 THEN p.k + 1 ELSE 1]]
  /\ UNCHANGED <<citas, entorno, hist>>

\* One catalogue call of enriquecer: a null answer only puts a fallback text.
Enriquecer(t) ==
  LET p == pet[t]
      i == CHOOSE j \in p.pendientes : \A l \in p.pendientes : j <= l
  IN
  /\ p.fase \in {"enriquecerLeida", "enriquecerGuardada"}
  /\ p.pendientes # {}
  /\ Responde(Orden[p.k])
  /\ IF p.k < 3
     THEN pet' = [pet EXCEPT ![t] = [@ EXCEPT !.k = p.k + 1]]
     ELSE IF p.pendientes \ {i} # {}
     THEN pet' = [pet EXCEPT ![t] = [@ EXCEPT !.k = 1, !.pendientes = p.pendientes \ {i}]]
     ELSE TrasEnriquecer(t)
  /\ UNCHANGED <<citas, entorno, hist>>

\* Mutant: a barber may see any cita.
AutorizarVerSinBarbero(t) ==
  /\ Fase(t, "autorizar") /\ Op(t) = "verDetalle"
  /\ \E l \in pet[t].leidas :
       Responder(t, IF /\ pet[t].sol.rol = "CLIENTE"
                       /\ l[2].clienteId # pet[t].sol.usuarioId THEN "403" ELSE "200")
  /\ UNCHANGED <<citas, entorno, hist>>

\* GET /api/v1/citas/{id}: who may see the cita that was loaded.
AutorizarVer(t) ==
  /\ Fase(t, "autorizar") /\ Op(t) = "verDetalle"
  /\ \E l \in pet[t].leidas :
       Responder(t, IF PuedeVer(pet[t].sol, l[2]) THEN "200" ELSE "403")
  /\ UNCHANGED <<citas, entorno, hist>>

\* Mutant: guardarCita runs before setEstado.
AutorizarCambioSinEstado(t) ==
  /\ Fase(t, "autorizar") /\ Op(t) = "cambiarEstado"
  /\ \E l \in pet[t].leidas :
       IF PuedeCambiar(pet[t].sol, l[2])
       THEN EntraGuardarCita(t, l[2])
       ELSE Responder(t, "403")
  /\ UNCHANGED <<citas, entorno, hist>>

\* Mutant: a client may cancel the cita of another.
AutorizarCambioSinDueno(t) ==
  /\ Fase(t, "autorizar") /\ Op(t) = "cambiarEstado"
  /\ \E l \in pet[t].leidas :
       IF pet[t].sol.rol = "CLIENTE" => pet[t].sol.estado = "CANCELADA"
       THEN EntraGuardarCita(t, [l[2] EXCEPT !.estado = pet[t].sol.estado])
       ELSE Responder(t, "403")
  /\ UNCHANGED <<citas, entorno, hist>>

\* POST /api/v1/citas/{id}/estado: who may change the cita that was loaded,
\* then setEstado on the entity and the whole of guardarCita.
AutorizarCambio(t) ==
  /\ Fase(t, "autorizar") /\ Op(t) = "cambiarEstado"
  /\ \E l \in pet[t].leidas :
       IF PuedeCambiar(pet[t].sol, l[2])
       THEN EntraGuardarCita(t, [l[2] EXCEPT !.estado = pet[t].sol.estado])
       ELSE Responder(t, "403")
  /\ UNCHANGED <<citas, entorno, hist>>

\* Mutant: the loop over the references stops one short.
ValidarSinServicio(t) ==
  LET p == pet[t]
      s == Orden[p.k]
  IN
  /\ p.fase = "validar"
  /\ Responde(s)
  /\ IF ~Encontrado(s, Referencia(p.cita, s))
     THEN Responder(t, "500")
     ELSE IF p.k < 2
     THEN pet' = [pet EXCEPT ![t] = [@ EXCEPT !.k = p.k + 1]]
     ELSE pet' = [pet EXCEPT ![t] = [@ EXCEPT !.fase = "guardar"]]
  /\ UNCHANGED <<citas, entorno, hist>>

\* One check of guardarCita: the reference is found, or the request fails.
Validar(t) ==
  LET p == pet[t]
      s == Orden[p.k]
  IN
  /\ p.fase = "validar"
  /\ Responde(s)
  /\ IF ~Encontrado(s, Referencia(p.cita, s))
     THEN Responder(t, "500")
     ELSE IF p.k < 3
     THEN pet' = [pet EXCEPT ![t] = [@ EXCEPT !.k = p.k + 1]]
     ELSE pet' = [pet EXCEPT ![t] = [@ EXCEPT !.fase = "guardar"]]
  /\ UNCHANGED <<citas, entorno, hist>>

\* Row i is written by t: whoever waits on row i has seen its new state.
Anotar(t, i, e) ==
  hist' = [u \in Peticiones |->
             [escribio |-> hist[u].escribio \/ u = t,
              visto |-> IF EnCurso(u) /\ Op(u) = "cambiarEstado" /\ pet[u].sol.id = i
                        THEN hist[u].visto \cup {e} ELSE hist[u].visto]]

\* save() of a new entity: an INSERT, or the failed merge of an unknown id.
Insertar(t) ==
  LET i == Len(citas) + 1 IN
  /\ Fase(t, "guardar") /\ Op(t) = "crear"
  /\ IF pet[t].sol.conId
     THEN Responder(t, "500") /\ UNCHANGED <<citas, hist>>
     ELSE /\ citas' = Append(citas, pet[t].cita)
          /\ Anotar(t, i, pet[t].cita.estado)
          /\ pet' = [pet EXCEPT ![t] = [@ EXCEPT !.fase = "enriquecerGuardada",
                                                  !.k = 1, !.pendientes = {i}]]
  /\ UNCHANGED entorno

\* save() of the loaded entity: an UPDATE of the whole row when the entity
\* differs from the row as it was loaded, and nothing otherwise.
Actualizar(t) ==
  LET i == pet[t].sol.id IN
  /\ Fase(t, "guardar") /\ Op(t) = "cambiarEstado"
  /\ IF <<i, pet[t].cita>> \in pet[t].leidas
     THEN UNCHANGED <<citas, hist>>
     ELSE /\ citas' = [citas EXCEPT ![i] = pet[t].cita]
          /\ Anotar(t, i, pet[t].cita.estado)
  /\ pet' = [pet EXCEPT ![t] = [@ EXCEPT !.fase = "enriquecerGuardada",
                                          !.k = 1, !.pendientes = {i}]]
  /\ UNCHANGED entorno

\* Mutant: the database fails once the row is written.
GuardarFallaTarde(t) ==
  LET i == pet[t].sol.id IN
  /\ FallasBD
  /\ Fase(t, "guardar") /\ Op(t) = "cambiarEstado"
  /\ citas' = [citas EXCEPT ![i] = pet[t].cita]
  /\ Anotar(t, i, pet[t].cita.estado)
  /\ Responder(t, "500")
  /\ UNCHANGED entorno

\* save() when the database refuses the statement.
GuardarFalla(t) ==
  /\ FallasBD
  /\ Fase(t, "guardar")
  /\ Responder(t, "500")
  /\ UNCHANGED <<citas, entorno, hist>>

\* The client has its answer; the slot can serve another request.
Terminar(t) ==
  /\ Fase(t, "respondida")
  /\ pet' = [pet EXCEPT ![t] = Vacia]
  /\ hist' = [hist EXCEPT ![t] = [escribio |-> FALSE, visto |-> {}]]
  /\ UNCHANGED <<citas, entorno>>

-----------------------------------------------------------------------------
\* A catalogue service goes down, hangs or comes back.
CambiarServicio(s) ==
  /\ \E d \in Disponibilidad \ {servicio[s]} : servicio' = [servicio EXCEPT ![s] = d]
  /\ UNCHANGED <<citas, filas, usados, pet, hist>>

\* POST on a catalogue: a row with an id never assigned before.
Alta(s) ==
  /\ \E i \in Ids \ usados[s] :
       /\ usados' = [usados EXCEPT ![s] = @ \cup {i}]
       /\ filas' = [filas EXCEPT ![s] = @ \cup {i}]
  /\ UNCHANGED <<citas, servicio, pet, hist>>

\* DELETE on a catalogue: nothing asks whether a cita names the row.
Baja(s) ==
  /\ s \in Eliminables
  /\ \E i \in filas[s] : filas' = [filas EXCEPT ![s] = @ \ {i}]
  /\ UNCHANGED <<citas, usados, servicio, pet, hist>>

\* The process of service-agendamiento is killed and started again: the table
\* stays, every request in flight loses its connection.
CaidaAgendamiento ==
  /\ \E t \in Peticiones : EnCurso(t)
  /\ pet' = [t \in Peticiones |->
               IF EnCurso(t) THEN Contestada(pet[t], "sinRespuesta") ELSE pet[t]]
  /\ UNCHANGED <<citas, entorno, hist>>

-----------------------------------------------------------------------------
\* The steps of the service's own code for request t.
Paso(t) ==
  \/ Crear(t) \/ LeerCita(t) \/ Listar(t) \/ ListaVacia(t) \/ Enriquecer(t)
  \/ AutorizarVer(t) \/ AutorizarCambio(t)
  \/ Validar(t) \/ Insertar(t) \/ Actualizar(t) \/ GuardarFalla(t)

Next ==
  \/ \E t \in Peticiones : Recibir(t) \/ Paso(t) \/ Terminar(t)
  \/ \E s \in Catalogos : CambiarServicio(s) \/ Alta(s) \/ Baja(s)
  \/ CaidaAgendamiento

Spec == Init /\ [][Next]_vars

\* A thread keeps running; nothing is assumed of the catalogues or the clients.
Fairness == \A t \in Peticiones : WF_vars(Paso(t))
FairSpec == Spec /\ Fairness

-----------------------------------------------------------------------------
\* The request record stays well formed at every step of the code: rows have all
\* three references, whatever the bodies that were posted.
TypeOK ==
  /\ citas \in Seq(Cita)
  /\ filas \in [Catalogos -> SUBSET Ids]
  /\ usados \in [Catalogos -> SUBSET Ids]
  /\ servicio \in [Catalogos -> Disponibilidad]
  /\ pet \in [Peticiones -> Peticion]
  /\ hist \in [Peticiones -> [escribio: BOOLEAN, visto: SUBSET Estados]]

\* Every stored cita names a client, a barber and a service that existed at some
\* time, although rows come and go while guardarCita asks for them one by one.
ReferenciasConocidas ==
  \A i \in DOMAIN citas : \A s \in Catalogos : Referencia(citas[i], s) \in usados[s]

\* An error answer means that the request wrote nothing: no failure after save()
\* (a catalogue that goes down while the answer is enriched) becomes a 500.
ErrorSinEfecto ==
  \A t \in Peticiones : pet[t].resp \in Errores => ~hist[t].escribio

\* A 200 to cambiarEstado means that the cita had the requested state at some
\* instant since the request arrived, also when other requests changed it between
\* the findById and the save() and when save() had nothing to update.
OkTuvoEfecto ==
  \A t \in Peticiones :
    pet[t].resp = "200" /\ Op(t) = "cambiarEstado" => pet[t].sol.estado \in hist[t].visto

\* Rows are never removed, and a row changes only in its state, by a request that
\* may change it as the row is when it is written and not as it was when the
\* headers were checked.
EscrituraAutorizada ==
  [][/\ Len(citas) <= Len(citas')
     /\ \A i \in DOMAIN citas :
          citas'[i] # citas[i] =>
            \E t \in Peticiones :
              /\ EnCurso(t) /\ Op(t) = "cambiarEstado" /\ pet[t].sol.id = i
              /\ PuedeCambiar(pet[t].sol, citas[i])
              /\ citas'[i] = [citas[i] EXCEPT !.estado = pet[t].sol.estado]]_vars

\* If from some time on no catalogue hangs, every request is answered: fetch()
\* has no timeout, so nothing can be said of a catalogue that never answers.
RespondeSiNadieCuelga ==
  <>[](\A s \in Catalogos : servicio[s] # "colgado") =>
    \A t \in Peticiones : EnCurso(t) ~> Fase(t, "respondida")

\* ERS_v2 RF-15: the owner of a cita may cancel it while it is PENDIENTE or
\* CONFIRMADA, so a cancellation that is answered is not refused with an error.
DuenoPuedeCancelar ==
  \A t \in Peticiones :
    (/\ pet[t].sol # Nulo /\ Op(t) = "cambiarEstado"
     /\ pet[t].sol.rol = "CLIENTE" /\ pet[t].sol.estado = "CANCELADA"
     /\ \E l \in pet[t].leidas : /\ l[2].clienteId = pet[t].sol.usuarioId
                                 /\ l[2].estado \in {"PENDIENTE", "CONFIRMADA"})
    => pet[t].resp \notin Errores

-----------------------------------------------------------------------------
\* What makes the properties above inductive.

\* A row only disappears from a catalogue after it was there, and a reference that
\* guardarCita has passed was known when it passed it.
ReferenciasVerificadas ==
  /\ \A s \in Catalogos : filas[s] \subseteq usados[s]
  /\ \A t \in Peticiones : \A j \in {1, 2, 3} :
       Fase(t, "guardar") \/ (Fase(t, "validar") /\ j < pet[t].k) =>
         Referencia(pet[t].cita, Orden[j]) \in usados[Orden[j]]

\* A request that has written is past save() and can only answer 200 or be lost.
EfectoSoloTrasGuardar ==
  \A t \in Peticiones : hist[t].escribio =>
    \/ Fase(t, "enriquecerGuardada")
    \/ Fase(t, "respondida") /\ pet[t].resp \in {"200", "sinRespuesta"}

\* Two citas that differ in nothing but their state.
MismaReserva(c, d) ==
  /\ c.clienteId = d.clienteId /\ c.barberoId = d.barberoId
  /\ c.servicioId = d.servicioId /\ c.fecha = d.fecha /\ c.hora = d.hora

\* What a thread loaded by id is still true of its row but for the state, and the
\* entity it is about to save is what its headers allowed.
CopiaFiel ==
  \A t \in Peticiones : pet[t].fase # "libre" /\ Op(t) \in {"cambiarEstado", "verDetalle"} =>
    /\ \A l \in pet[t].leidas : /\ l[1] = pet[t].sol.id /\ l[1] \in DOMAIN citas
                                /\ MismaReserva(citas[l[1]], l[2])
    /\ pet[t].fase \in {"validar", "guardar"} =>
         \E l \in pet[t].leidas : /\ PuedeCambiar(pet[t].sol, l[2])
                                  /\ MismaReserva(pet[t].cita, l[2])
                                  /\ pet[t].cita.estado = pet[t].sol.estado

\* visto holds the states of the row since the request arrived, the present one
\* and the one that was loaded among them.
VistoCompleto ==
  \A t \in Peticiones : pet[t].fase # "libre" /\ Op(t) = "cambiarEstado" =>
    /\ EnCurso(t) /\ pet[t].sol.id \in DOMAIN citas =>
         citas[pet[t].sol.id].estado \in hist[t].visto
    /\ \A l \in pet[t].leidas : l[2].estado \in hist[t].visto
    /\ Fase(t, "enriquecerGuardada") \/ (Fase(t, "respondida") /\ pet[t].resp = "200") =>
         pet[t].sol.estado \in hist[t].visto

-----------------------------------------------------------------------------
(***************************************************************************)
(* The code implements the registry.  A read is done when its query ran, a *)
(* write when its save() did; all that comes before and after is invisible.*)
(***************************************************************************)
Estadio(p) ==
  CASE p.fase = "libre"                  -> "libre"
    [] p.fase = "respondida"             -> "contestada"
    [] p.fase = "enriquecerGuardada"     -> "hecha"
    [] /\ p.fase \in {"enriquecerLeida", "autorizar"}
       /\ p.sol.op \in Lecturas          -> "leida"
    [] OTHER                             -> "pendiente"

Dato(p) == IF p.fase # "libre" /\ p.sol.op \in Lecturas THEN p.leidas ELSE {}

Visto(p) == [estadio |-> Estadio(p), sol |-> p.sol, dato |-> Dato(p), resp |-> p.resp]

Registro == INSTANCE RegistroCitas WITH atencion <- [t \in Peticiones |-> Visto(pet[t])]

\* Every behaviour of the code is one of the registry: concurrent requests,
\* outages and kills never show a client anything but one atomic effect.
ImplementaRegistro == Registro!Spec

=============================================================================
