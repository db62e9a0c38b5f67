---------------------------- MODULE RegistroPagos ---------------------------
(***************************************************************************)
(* What service-pagos promises: a payment is registered at one instant,    *)
(* for a cita that exists then; a change of state is atomic; a read answers*)
(* the payments of one instant; an error answer means that nothing changed.*)
(***************************************************************************)
EXTENDS DatosPagos

VARIABLES
  citas,     \* the citas of service-agendamiento: it only adds to them
  pagos,     \* the rows of table pago, by id
  recibo     \* what each request has come to

vars == <<citas, pagos, recibo>>

Libre == Recibo("libre", Nulo, {}, Nulo)

Init ==
  /\ citas = <<>>
  /\ pagos = <<>>
  /\ recibo = [t \in Hilos |-> Libre]

En(t, e) == recibo[t].estadio = e
Sol(t) == recibo[t].sol
Resuelta(t, d, r) == recibo' = [recibo EXCEPT ![t] = Recibo("resuelta", Sol(t), d, r)]

Pedir(t, s) ==
  /\ En(t, "libre")
  /\ recibo' = [recibo EXCEPT ![t] = Recibo("pendiente", s, {}, Nulo)]
  /\ UNCHANGED <<citas, pagos>>

Registrar(t) ==
  /\ En(t, "pendiente") /\ Sol(t).op = "registrar"
  /\ Sol(t).citaId \in DOMAIN citas
  /\ pagos' = Append(pagos, PagoDe(Sol(t)))
  /\ Resuelta(t, {}, "200")
  /\ UNCHANGED citas

CambiarEstado(t) ==
  /\ En(t, "pendiente") /\ Sol(t).op = "cambiarEstado"
  /\ Sol(t).id \in DOMAIN pagos
  /\ pagos' = [pagos EXCEPT ![Sol(t).id].estado = Sol(t).estado]
  /\ Resuelta(t, {}, "200")
  /\ UNCHANGED citas

Leer(t) ==
  LET d == PagosLeidos(Sol(t), pagos) IN
  /\ En(t, "pendiente") /\ Sol(t).op \in LecturasPago
  /\ Resuelta(t, d, IF Sol(t).op = "obtener" /\ d = {} THEN "404" ELSE "200")
  /\ UNCHANGED <<citas, pagos>>

Rechazar(t) ==
  /\ En(t, "pendiente") /\ Sol(t).op \in {"registrar", "cambiarEstado"}
  /\ Resuelta(t, {}, "500")
  /\ UNCHANGED <<citas, pagos>>

Contestar(t) ==
  /\ En(t, "resuelta")
  /\ recibo' = [recibo EXCEPT ![t] = [@ EXCEPT !.estadio = "contestada"]]
  /\ UNCHANGED <<citas, pagos>>

\* Every request in flight loses its answer, resolved or not.
Perder ==
  /\ recibo' = [t \in Hilos |->
                  IF recibo[t].estadio \in {"libre", "contestada"} THEN recibo[t]
                  ELSE Recibo("contestada", Sol(t), {}, "sinRespuesta")]
  /\ UNCHANGED <<citas, pagos>>

Terminar(t) ==
  /\ En(t, "contestada")
  /\ recibo' = [recibo EXCEPT ![t] = Libre]
  /\ UNCHANGED <<citas, pagos>>

\* service-agendamiento goes on: its citas change and grow.
OtrasCitas ==
  /\ Len(citas) <= Len(citas')
  /\ UNCHANGED <<pagos, recibo>>

Next ==
  \/ \E t \in Hilos :
       \/ \E s \in SolicitudesPago : Pedir(t, s)
       \/ Registrar(t) \/ CambiarEstado(t) \/ Leer(t) \/ Rechazar(t)
       \/ Contestar(t) \/ Terminar(t)
  \/ Perder
  \/ OtrasCitas

Spec == Init /\ [][Next]_vars
=============================================================================
