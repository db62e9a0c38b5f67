---------------------------- MODULE RecursoCrud -----------------------------
(***************************************************************************)
(* A CRUD service as its code works: a PUT and a DELETE are a SELECT and,  *)
(* later, an UPDATE or a DELETE on what the SELECT found, with no lock and *)
(* no version column, so that other requests write between the two.        *)
(*                                                                         *)
(* The seven services differ in their columns, which no guard reads, and   *)
(* in SinFila.  Spring Boot keeps one persistence context per request (the *)
(* default of spring.jpa.open-in-view, which no service changes), so save()*)
(* works on the entity that findById loaded: Hibernate compares it with    *)
(* the row as it was loaded and sends the UPDATE only when they differ,    *)
(* and a statement that finds no row is an error.                          *)
(***************************************************************************)
EXTENDS Recursos, FiniteSets

CONSTANTS
  MaxFilas,       \* bound on the rows POSTs may insert
  FallasBD        \* whether the database may refuse a statement

Fases == {"libre", "recibida", "cargada", "resuelta", "respondida"}

Peticion == [fase: Fases,
             sol: Opcional(Solicitud),
             copia: Opcional(Filas),          \* the row as findById loaded it
             dato: SUBSET (Nat \X Filas),     \* what a read answers
             resp: Opcional(Respuestas)]

Vacia == [fase |-> "libre", sol |-> Nulo, copia |-> Nulo, dato |-> {}, resp |-> Nulo]

ASSUME LimitesAssumption == MaxFilas \in Nat /\ FallasBD \in BOOLEAN

VARIABLES
  tabla,     \* the table of the service
  pet        \* the requests in flight

vars == <<tabla, pet>>

-----------------------------------------------------------------------------
Fase(t, f) == pet[t].fase = f
Op(t) == pet[t].sol.op
Id(t) == pet[t].sol.id
EnCurso(t) == pet[t].fase \notin {"libre", "respondida"}

\* The handler has returned; its answer is on its way.
Resolver(t, d, r) ==
  pet' = [pet EXCEPT ![t] = [@ EXCEPT !.fase = "resuelta", !.copia = Nulo,
                                       !.dato = d, !.resp = r]]

\* MaxFilas bounds the rows together with the POSTs in flight.
HayCupo ==
  Len(tabla) + Cardinality({t \in Peticiones : EnCurso(t) /\ Op(t) = "crear"}) < MaxFilas

Init ==
  /\ tabla = <<>>
  /\ pet = [t \in Peticiones |-> Vacia]

Recibir(t) ==
  /\ Fase(t, "libre")
  /\ \E s \in Solicitudes :
       /\ s.op = "crear" => HayCupo
       /\ pet' = [pet EXCEPT ![t] = [@ EXCEPT !.fase = "recibida", !.sol = s]]
  /\ UNCHANGED tabla

\* GET of the collection and of one row: one query.
Leer(t) ==
  LET d == Leidas(pet[t].sol, tabla) IN
  /\ Fase(t, "recibida") /\ Op(t) \in {"listar", "obtener"}
  /\ Resolver(t, d, RespuestaDeLectura(pet[t].sol, d))
  /\ UNCHANGED tabla

\* POST: save() of an entity without id is an INSERT.
Crear(t) ==
  /\ Fase(t, "recibida") /\ Op(t) = "crear"
  /\ tabla' = Append(tabla, pet[t].sol.datos)
  /\ Resolver(t, {}, "200")

\* findById of a PUT (buscarPorId, or the first line of actualizar) and of a
\* DELETE (inside deleteById, which does nothing when the row is missing).
Buscar(t) ==
  /\ Fase(t, "recibida") /\ Op(t) \in {"actualizar", "eliminar"}
  /\ IF Existe(tabla, Id(t))
     THEN pet' = [pet EXCEPT ![t] = [@ EXCEPT !.fase = "cargada", !.copia = tabla[Id(t)]]]
     ELSE Resolver(t, {}, IF Op(t) = "actualizar" THEN SinFila ELSE "204")
  /\ UNCHANGED tabla

\* Mutant: save() inserts the row again when it is gone.
ActualizarReinserta(t) ==
  /\ Fase(t, "cargada") /\ Op(t) = "actualizar"
  /\ Resolver(t, {}, "200")
  /\ tabla' = [tabla EXCEPT ![Id(t)] = pet[t].sol.datos]

\* save() of a PUT: nothing to do when the body is what was loaded; otherwise an
\* UPDATE of every column, which fails if the row has been deleted meanwhile.
Actualizar(t) ==
  /\ Fase(t, "cargada") /\ Op(t) = "actualizar"
  /\ IF pet[t].sol.datos = pet[t].copia
     THEN Resolver(t, {}, "200") /\ UNCHANGED tabla
     ELSE IF Existe(tabla, Id(t))
     THEN /\ tabla' = [tabla EXCEPT ![Id(t)] = pet[t].sol.datos]
          /\ Resolver(t, {}, "200")
     ELSE Resolver(t, {}, "500") /\ UNCHANGED tabla

\* Mutant: the DELETE of a row that changed since it was loaded is skipped.
BorrarSiIgual(t) ==
  /\ Fase(t, "cargada") /\ Op(t) = "eliminar"
  /\ Resolver(t, {}, "204")
  /\ tabla' = IF Existe(tabla, Id(t)) /\ tabla[Id(t)] = pet[t].copia
              THEN [tabla EXCEPT ![Id(t)] = Nulo] ELSE tabla

\* The DELETE of deleteById, which fails if another request has deleted the row.
Borrar(t) ==
  /\ Fase(t, "cargada") /\ Op(t) = "eliminar"
  /\ IF Existe(tabla, Id(t))
     THEN /\ tabla' = [tabla EXCEPT ![Id(t)] = Nulo]
          /\ Resolver(t, {}, "204")
     ELSE Resolver(t, {}, "500") /\ UNCHANGED tabla

\* The database refuses the statement of a write.
FallaBD(t) ==
  /\ FallasBD
  /\ \/ Fase(t, "recibida") /\ Op(t) = "crear"
     \/ Fase(t, "cargada") /\ (Op(t) = "actualizar" => pet[t].sol.datos # pet[t].copia)
  /\ Resolver(t, {}, "500")
  /\ UNCHANGED tabla

\* The answer reaches the client.
Contestar(t) ==
  /\ Fase(t, "resuelta")
  /\ pet' = [pet EXCEPT ![t] = [@ EXCEPT !.fase = "respondida"]]
  /\ UNCHANGED tabla

Terminar(t) ==
  /\ Fase(t, "respondida")
  /\ pet' = [pet EXCEPT ![t] = Vacia]
  /\ UNCHANGED tabla

\* The process is killed and started again: the requests in flight, committed or
\* not, lose their connection.
Caida ==
  /\ \E t \in Peticiones : EnCurso(t)
  /\ pet' = [t \in Peticiones |->
               IF EnCurso(t) THEN [pet[t] EXCEPT !.fase = "respondida", !.copia = Nulo,
                                                 !.dato = {}, !.resp = "sinRespuesta"]
               ELSE pet[t]]
  /\ UNCHANGED tabla

Paso(t) ==
  \/ Leer(t) \/ Crear(t) \/ Buscar(t) \/ Actualizar(t) \/ Borrar(t) \/ FallaBD(t)
  \/ Contestar(t)

Next ==
  \/ \E t \in Peticiones : Recibir(t) \/ Paso(t) \/ Terminar(t)
  \/ Caida

Spec == Init /\ [][Next]_vars

-----------------------------------------------------------------------------
\* Rows are rows and every thread holds the row its phase needs.
TypeOK ==
  /\ tabla \in Seq(Opcional(Filas))
  /\ pet \in [Peticiones -> Peticion]

\* A deleted row never comes back and an id is never given twice, although a PUT
\* that loaded the row before the DELETE saves it afterwards.
SinResurreccion ==
  [][\A i \in DOMAIN tabla : i \in DOMAIN tabla' /\ (tabla[i] = Nulo => tabla'[i] = Nulo)]_vars

\* A PUT with the body it loaded is done as soon as it has loaded it: nothing it
\* does later can be seen, so its effect must be placed there and not at save().
SinCambios(p) == p.fase = "cargada" /\ p.sol.op = "actualizar" /\ p.sol.datos = p.copia

Estadio(p) == CASE p.fase = "libre"      -> "libre"
                [] p.fase = "resuelta"   -> "resuelta"
                [] p.fase = "respondida" -> "contestada"
                [] OTHER                 -> IF SinCambios(p) THEN "resuelta" ELSE "pendiente"

Atencion(p) == Vista(Estadio(p), p.sol, p.dato, IF SinCambios(p) THEN "200" ELSE p.resp)

Tabla == INSTANCE TablaAtomica WITH atencion <- [t \in Peticiones |-> Atencion(pet[t])]

\* Concurrent PUTs and DELETEs, failures and kills never show a client anything
\* but an atomic table.
ImplementaTabla == Tabla!Spec
=============================================================================
