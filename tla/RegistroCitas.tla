---------------------------- MODULE RegistroCitas ---------------------------
(***************************************************************************)
(* What service-agendamiento promises its clients, whatever happens inside:*)
(* a request takes effect at one instant between its arrival and its       *)
(* answer, or never; an error answer means never; a request that got no    *)
(* answer may have taken effect; a read answers the rows of one instant,   *)
(* and only to who may see them.                                           *)
(***************************************************************************)
EXTENDS Citas

VARIABLES
  citas,     \* the rows, by id
  usados,    \* ids the catalogues have assigned so far
  atencion   \* what each request has come to

Libre == [estadio |-> "libre", sol |-> Nulo, dato |-> {}, resp |-> Nulo]

vars == <<citas, usados, atencion>>

Init ==
  /\ citas = <<>>
  /\ usados = Iniciales
  /\ atencion = [t \in Peticiones |-> Libre]

En(t, e) == atencion[t].estadio = e
Sol(t) == atencion[t].sol
Pasa(t, e) == atencion' = [atencion EXCEPT ![t].estadio = e]

\* A client asks for something.
Pedir(t, s) ==
  /\ En(t, "libre")
  /\ atencion' = [atencion EXCEPT ![t] = [@ EXCEPT !.estadio = "pendiente", !.sol = s]]
  /\ UNCHANGED <<citas, usados>>

\* A client's booking enters the registry under its own id, with references
\* the catalogues know.
Agendar(t) ==
  LET c == CitaDe(Sol(t)) IN
  /\ En(t, "pendiente") /\ Sol(t).op = "crear"
  /\ Sol(t).rol = "CLIENTE" /\ ~Sol(t).conId
  /\ SinNulos(c)
  /\ \A s \in Catalogos : Referencia(c, s) \in usados[s]
  /\ citas' = Append(citas, c)
  /\ Pasa(t, "hecha")
  /\ UNCHANGED usados

\* The state of a cita changes, and nothing else of it, for who may change it.
\* (A request for the state the cita had when it was read changes nothing.)
CambiarEstado(t) ==
  LET i == Sol(t).id IN
  /\ En(t, "pendiente") /\ Sol(t).op = "cambiarEstado"
  /\ i \in DOMAIN citas
  /\ PuedeCambiar(Sol(t), citas[i])
  /\ \/ citas' = [citas EXCEPT ![i] = [@ EXCEPT !.estado = Sol(t).estado]]
     \/ citas' = citas
  /\ Pasa(t, "hecha")
  /\ UNCHANGED usados

\* A read takes the rows it asked for, all at one instant.
Leer(t) ==
  /\ En(t, "pendiente") /\ Sol(t).op \in Lecturas
  /\ Sol(t).op = "verDetalle" => Sol(t).id \in DOMAIN citas
  /\ PuedeListar(Sol(t))
  /\ atencion' = [atencion EXCEPT ![t] = [@ EXCEPT !.estadio = "leida",
                                                    !.dato = Leidas(Sol(t), citas)]]
  /\ UNCHANGED <<citas, usados>>

\* Why a request may be refused.
MotivoDe403(t) ==
  LET s == Sol(t) IN
  \/ s.op = "crear" /\ s.rol # "CLIENTE"
  \/ s.op = "cambiarEstado" /\ s.id \in DOMAIN citas /\ ~PuedeCambiar(s, citas[s.id])
  \/ s.op = "verDetalle" /\ \E x \in atencion[t].dato : ~PuedeVer(s, x[2])
  \/ ~PuedeListar(s)

MotivoDe404(t) == /\ Sol(t).op \in {"verDetalle", "cambiarEstado"}
                  /\ Sol(t).id \notin DOMAIN citas

Contestar(t, r) ==
  /\ CASE r = "200" -> \/ En(t, "hecha")
                       \/ En(t, "leida") /\ (Sol(t).op = "verDetalle" =>
                            \A x \in atencion[t].dato : PuedeVer(Sol(t), x[2]))
       [] r = "403" -> (En(t, "pendiente") \/ En(t, "leida")) /\ MotivoDe403(t)
       [] r = "404" -> En(t, "pendiente") /\ MotivoDe404(t)
       [] r = "500" -> En(t, "pendiente") /\ Sol(t).op \in {"crear", "cambiarEstado"}
  /\ atencion' = [atencion EXCEPT ![t] = [@ EXCEPT !.estadio = "contestada", !.resp = r]]
  /\ UNCHANGED <<citas, usados>>

\* Every request in flight loses its answer, done or not.
Perder ==
  /\ atencion' = [t \in Peticiones |->
                    IF atencion[t].estadio \in {"libre", "contestada"} THEN atencion[t]
                    ELSE [atencion[t] EXCEPT !.estadio = "contestada",
                                             !.resp = "sinRespuesta"]]
  /\ UNCHANGED <<citas, usados>>

Terminar(t) ==
  /\ En(t, "contestada")
  /\ atencion' = [atencion EXCEPT ![t] = Libre]
  /\ UNCHANGED <<citas, usados>>

\* A catalogue assigns a new id.
Conocer(s) ==
  /\ \E i \in Ids \ usados[s] : usados' = [usados EXCEPT ![s] = @ \cup {i}]
  /\ UNCHANGED <<citas, atencion>>

Next ==
  \/ \E t \in Peticiones :
       \/ \E s \in Solicitudes : Pedir(t, s)
       \/ Agendar(t) \/ CambiarEstado(t) \/ Leer(t)
       \/ \E r \in {"200"} \cup Errores : Contestar(t, r)
       \/ Terminar(t)
  \/ Perder
  \/ \E s \in Catalogos : Conocer(s)

Spec == Init /\ [][Next]_vars
=============================================================================
