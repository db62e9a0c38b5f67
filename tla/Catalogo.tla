------------------------------ MODULE Catalogo ------------------------------
(***************************************************************************)
(* One catalogue of the administration panel: the handlers of App, the     *)
(* functions of ServiciosAPI, BarberosAPI, SucursalesAPI or PromocionesAPI,*)
(* and the collection that the browser keeps, over a CRUD service as       *)
(* TablaAtomica promises it.  App never lists the service's rows.          *)
(***************************************************************************)
EXTENDS DatosCatalogo

VARIABLES
  local,            \* the collection in localStorage
  copia,            \* the copy in the state of App
  edicion,          \* the id of the record in the edit form, or null
  llamada,          \* the calls in flight
  altas,            \* creations so far
  tabla, atencion   \* the service

Servicio == INSTANCE TablaAtomica

servicio == <<tabla, atencion>>
vars == <<local, copia, edicion, llamada, altas, servicio>>

\* In phase "abandonada" the browser has finished and the service has not.
FasesLlamada == {"libre", "enviada", "cuerpo", "abandonada"}
Llamada == [fase: FasesLlamada, sol: Opcional(Pedido)]
Ninguna == [fase |-> "libre", sol |-> Nulo]

Init ==
  /\ local = Iniciales /\ copia = Iniciales
  /\ edicion = Nulo
  /\ llamada = [u \in Peticiones |-> Ninguna]
  /\ altas = 0
  /\ tabla = Semilla
  /\ atencion = [u \in Peticiones |-> Servicio!Libre]

-----------------------------------------------------------------------------
Fase(u, f) == llamada[u].fase = f
EnVuelo(u) == llamada[u].fase \in {"enviada", "cuerpo"}

Mostrados == {c.id : c \in copia}

\* What a form holds.
Formularios == [base: Filas, extra: Extras]

\* eliminar sends no record.
SinRegistro == CHOOSE d \in Dato : TRUE

\* What the user may ask now: a record to add, the one in the form, or one of the list.
Puede(s) ==
  CASE s.op = "crear"      -> s.id = 0 /\ s.dato \in Formularios /\ altas < MaxAltas
    [] s.op = "actualizar" -> s.id = edicion /\ s.dato \in Formularios
    [] s.op = "eliminar"   -> s.id \in Mostrados /\ s.dato = SinRegistro

Pedibles == {s \in [op: Ofrecidas, id: {0} \cup Mostrados \cup ({edicion} \ {Nulo}),
                    dato: Formularios \cup {SinRegistro}] : Puede(s)}

\* abrirEditarServicio.
AbrirEdicion ==
  /\ "actualizar" \in Ofrecidas /\ edicion = Nulo
  /\ \E i \in Mostrados : edicion' = i
  /\ UNCHANGED <<local, copia, llamada, altas, servicio>>

\* The form is sent, or closed.
Cierra(s) == edicion' = IF s.op = "actualizar" THEN Nulo ELSE edicion

CerrarEdicion ==
  /\ edicion # Nulo /\ edicion' = Nulo
  /\ UNCHANGED <<local, copia, llamada, altas, servicio>>

\* fetch: the request reaches the service, or never does.
Pedir(u, s) ==
  /\ Fase(u, "libre") /\ atencion[u].estadio = "libre"
  /\ llamada' = [llamada EXCEPT ![u] = [fase |-> "enviada", sol |-> s]]
  /\ altas' = IF s.op = "crear" THEN altas + 1 ELSE altas
  /\ Cierra(s)
  /\ \/ Servicio!Pedir(u, [op |-> s.op, id |-> s.id, datos |-> s.dato.base])
     \/ UNCHANGED servicio
  /\ UNCHANGED <<local, copia>>

\* dbSimulada changes, and App reads the collection again.
Cambia(s, d) ==
  /\ local' = Aplicado(s, d, local)
  /\ copia' = Aplicado(s, d, local)

\* handleEliminarBarbero.
EliminarDirecto ==
  /\ EliminaDirecto
  /\ \E i \in Mostrados : local' = Quita(i, local) /\ copia' = Quita(i, local)
  /\ UNCHANGED <<edicion, llamada, altas, servicio>>

\* Mutant: the handler does not read the collection again.
TerminarSinRefrescar(u, d) ==
  /\ local' = Aplicado(llamada[u].sol, d, local)
  /\ IF atencion[u].estadio = "contestada" THEN Servicio!Terminar(u) ELSE UNCHANGED servicio
  /\ llamada' = [llamada EXCEPT ![u] =
       IF atencion[u].estadio \in {"libre", "contestada"} THEN Ninguna
       ELSE [fase |-> "abandonada", sol |-> Nulo]]
  /\ UNCHANGED <<copia, edicion, altas>>

\* Mutant: a call that ends keeps what it asked.
TerminarConPedido(u, d) ==
  /\ Cambia(llamada[u].sol, d)
  /\ IF atencion[u].estadio = "contestada" THEN Servicio!Terminar(u) ELSE UNCHANGED servicio
  /\ llamada' = [llamada EXCEPT ![u].fase =
       IF atencion[u].estadio \in {"libre", "contestada"} THEN "libre" ELSE "abandonada"]
  /\ UNCHANGED <<edicion, altas>>

\* The call ends for the browser, with the same change whatever the service did.
Terminar(u, d) ==
  /\ Cambia(llamada[u].sol, d)
  /\ IF atencion[u].estadio = "contestada" THEN Servicio!Terminar(u) ELSE UNCHANGED servicio
  /\ llamada' = [llamada EXCEPT ![u] =
       IF atencion[u].estadio \in {"libre", "contestada"} THEN Ninguna
       ELSE [fase |-> "abandonada", sol |-> Nulo]]
  /\ UNCHANGED <<edicion, altas>>

\* Mutant: a call with no answer is sent again.
RecurrirYRepetir(u) ==
  /\ Fase(u, "enviada")
  /\ \/ Terminar(u, llamada[u].sol.dato)
     \/ /\ atencion[u].resp = "sinRespuesta"
        /\ atencion' = [atencion EXCEPT ![u] =
                         [@ EXCEPT !.estadio = "pendiente", !.resp = Nulo]]
        /\ UNCHANGED <<local, copia, edicion, llamada, altas, tabla>>

\* Mutant: a late answer is applied too.
DescartarAplicando(u) ==
  /\ Fase(u, "abandonada") /\ Servicio!Terminar(u)
  /\ Cambia(atencion[u].sol, Respondido([base |-> atencion[u].sol.datos, extra |-> Nulo]))
  /\ llamada' = [llamada EXCEPT ![u] = Ninguna]
  /\ UNCHANGED <<edicion, altas>>

\* fetch rejects (no connection, or 2500 ms without headers), or res.ok is false.
Recurrir(u) == Fase(u, "enviada") /\ Terminar(u, llamada[u].sol.dato)

\* res.ok: eliminar does not read the body.
RecibirOk(u) ==
  /\ Fase(u, "enviada") /\ atencion[u].estadio = "contestada"
  /\ atencion[u].resp \in {"200", "204"}
  /\ \/ llamada[u].sol.op = "eliminar" /\ Terminar(u, llamada[u].sol.dato)
     \/ /\ llamada[u].sol.op # "eliminar"
        /\ llamada' = [llamada EXCEPT ![u].fase = "cuerpo"]
        /\ UNCHANGED <<local, copia, edicion, altas, servicio>>

\* res.json() resolves: the browser keeps the answer, and crear puts an id of its own
\* over the one in it.
LeerCuerpo(u) == Fase(u, "cuerpo") /\ Terminar(u, Respondido(llamada[u].sol.dato))

\* res.json() rejects.
PerderCuerpo(u) == Fase(u, "cuerpo") /\ Terminar(u, llamada[u].sol.dato)

RestablecerDatos ==
  /\ local' = Iniciales /\ copia' = Iniciales
  /\ UNCHANGED <<edicion, llamada, altas, servicio>>

-----------------------------------------------------------------------------
Atender(u) ==
  /\ \/ Servicio!Crear(u) \/ Servicio!Actualizar(u) \/ Servicio!Eliminar(u)
     \/ Servicio!Fallar(u) \/ Servicio!Contestar(u)
  /\ UNCHANGED <<local, copia, edicion, llamada, altas>>

Caida ==
  /\ \E u \in Peticiones : atencion[u].estadio \notin {"libre", "contestada"}
  /\ Servicio!Perder
  /\ UNCHANGED <<local, copia, edicion, llamada, altas>>

\* The service answers a call that nobody waits for.
Descartar(u) ==
  /\ Fase(u, "abandonada") /\ Servicio!Terminar(u)
  /\ llamada' = [llamada EXCEPT ![u] = Ninguna]
  /\ UNCHANGED <<local, copia, edicion, altas>>

Next ==
  \/ \E u \in Peticiones, s \in Pedibles : Pedir(u, s)
  \/ \E u \in Peticiones : Recurrir(u) \/ RecibirOk(u) \/ LeerCuerpo(u) \/ PerderCuerpo(u)
                           \/ Atender(u) \/ Descartar(u)
  \/ AbrirEdicion \/ CerrarEdicion \/ EliminarDirecto \/ RestablecerDatos \/ Caida

Spec == Init /\ [][Next]_vars

-----------------------------------------------------------------------------
\* A call in flight carries what was asked, and only such a call.
TypeOK ==
  /\ local \in SUBSET Registro
  /\ edicion \in Opcional(Nat)
  /\ llamada \in [Peticiones -> Llamada]
  /\ \A u \in Peticiones : EnVuelo(u) <=> llamada[u].sol # Nulo
  /\ altas \in 0..MaxAltas

\* App shows the collection that the browser keeps, whatever the order in which the
\* calls of its handlers end.
CopiaAlDia == copia = local

\* One creation in the form makes at most one row in the service.
UnaFilaPorAlta == Len(tabla) <= Len(Semilla) + altas

\* What the user sees is a local collection that each thing asked changes exactly once:
\* a refusal, a loss or a timeout never shows, and no late answer changes it again.
Visible == INSTANCE CatalogoLocal WITH
  lista <- copia,
  pend <- [u \in Peticiones |-> IF EnVuelo(u) THEN llamada[u].sol ELSE Nulo]

ImplementaLocal == Visible!Spec
=============================================================================
