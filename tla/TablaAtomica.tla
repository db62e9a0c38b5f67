---------------------------- MODULE TablaAtomica ----------------------------
(***************************************************************************)
(* What a CRUD service promises: every request takes effect at one instant *)
(* between its arrival and its answer.  A write may fail with 500, or with *)
(* no answer at all; with a 500 it has changed nothing.                    *)
(***************************************************************************)
EXTENDS Recursos

VARIABLES
  tabla,     \* the rows, by id
  atencion   \* what each request has come to

vars == <<tabla, atencion>>

Libre == Vista("libre", Nulo, {}, Nulo)

Init ==
  /\ tabla = <<>>
  /\ atencion = [t \in Peticiones |-> Libre]

En(t, e) == atencion[t].estadio = e
Sol(t) == atencion[t].sol

Pedir(t, s) ==
  /\ En(t, "libre")
  /\ atencion' = [atencion EXCEPT ![t] = Vista("pendiente", s, {}, Nulo)]
  /\ UNCHANGED tabla

\* The request has its effect and its answer, at this instant.
Resuelta(t, d, r) ==
  atencion' = [atencion EXCEPT ![t] = Vista("resuelta", Sol(t), d, r)]

Leer(t) ==
  LET d == Leidas(Sol(t), tabla) IN
  /\ En(t, "pendiente") /\ Sol(t).op \in {"listar", "obtener"}
  /\ Resuelta(t, d, RespuestaDeLectura(Sol(t), d))
  /\ UNCHANGED tabla

Crear(t) ==
  /\ En(t, "pendiente") /\ Sol(t).op = "crear"
  /\ Resuelta(t, {}, "200")
  /\ tabla' = Append(tabla, Sol(t).datos)

Actualizar(t) ==
  /\ En(t, "pendiente") /\ Sol(t).op = "actualizar"
  /\ IF Existe(tabla, Sol(t).id)
     THEN /\ Resuelta(t, {}, "200")
          /\ tabla' = [tabla EXCEPT ![Sol(t).id] = Sol(t).datos]
     ELSE /\ Resuelta(t, {}, SinFila)
          /\ UNCHANGED tabla

\* Afterwards the row is not there, whether or not it was before.
Eliminar(t) ==
  /\ En(t, "pendiente") /\ Sol(t).op = "eliminar"
  /\ Resuelta(t, {}, "204")
  /\ tabla' = IF Existe(tabla, Sol(t).id) THEN [tabla EXCEPT ![Sol(t).id] = Nulo] ELSE tabla

Fallar(t) ==
  /\ En(t, "pendiente") /\ Sol(t).op \in {"crear", "actualizar", "eliminar"}
  /\ Resuelta(t, {}, "500")
  /\ UNCHANGED tabla

Contestar(t) ==
  /\ En(t, "resuelta")
  /\ atencion' = [atencion EXCEPT ![t] =
                   Vista("contestada", Sol(t), atencion[t].dato, atencion[t].resp)]
  /\ UNCHANGED tabla

\* Every request in flight loses its answer, resolved or not.
Perder ==
  /\ atencion' = [t \in Peticiones |->
                    IF atencion[t].estadio \in {"libre", "contestada"} THEN atencion[t]
                    ELSE Vista("contestada", Sol(t), {}, "sinRespuesta")]
  /\ UNCHANGED tabla

Terminar(t) ==
  /\ En(t, "contestada")
  /\ atencion' = [atencion EXCEPT ![t] = Libre]
  /\ UNCHANGED tabla

Next ==
  \/ \E t \in Peticiones :
       \/ \E s \in Solicitudes : Pedir(t, s)
       \/ Leer(t) \/ Crear(t) \/ Actualizar(t) \/ Eliminar(t) \/ Fallar(t)
       \/ Contestar(t) \/ Terminar(t)
  \/ Perder

Spec == Init /\ [][Next]_vars
=============================================================================
