----------------------------- MODULE DatosPagos -----------------------------
(***************************************************************************)
(* The data of service-pagos: a row of table pago, a request and the       *)
(* queries.  Amount, method and date are left out: no guard reads them.    *)
(***************************************************************************)
EXTENDS Valores

CONSTANTS
  Hilos,            \* threads of service-pagos: the requests served at a time
  SolicitudesPago,  \* the requests clients may send
  EstadosPago

LecturasPago == {"obtener", "listar", "listarPorCita", "listarPorEstado"}

Pago == [citaId: Nat, estado: EstadosPago]

\* id is the path variable of a payment, citaId and estado come in the body, the
\* path or the query string.
SolicitudPago == [op: {"registrar", "cambiarEstado"} \cup LecturasPago, id: Nat,
                  citaId: Opcional(Nat), estado: Opcional(EstadosPago)]

RespuestasPago == {"200", "404", "500", "sinRespuesta"}

ASSUME DatosPagosAssumption ==
  /\ SolicitudesPago \subseteq SolicitudPago
  /\ \A s \in SolicitudesPago : s.op \in {"cambiarEstado", "listarPorEstado"} => s.estado # Nulo
  /\ "PENDIENTE" \in EstadosPago

-----------------------------------------------------------------------------
\* Mutant: a payment without state stays without it.
PagoSinEstado(s) == [citaId |-> s.citaId, estado |-> s.estado]

\* The payment that registrar stores: PENDIENTE unless the body says otherwise.
PagoDe(s) == [citaId |-> s.citaId, estado |-> IF s.estado = Nulo THEN "PENDIENTE" ELSE s.estado]

\* The row p with id i is what findById, findByCitaId, findByEstado look for.
Busca(s, i, p) == CASE s.op = "listar"          -> TRUE
                    [] s.op = "obtener"         -> i = s.id
                    [] s.op = "listarPorCita"   -> p.citaId = s.citaId
                    [] s.op = "listarPorEstado" -> p.estado = s.estado

\* The payments a read loads, with their ids.
PagosLeidos(s, tabla) ==
  {<<i, tabla[i]>> : i \in {j \in DOMAIN tabla : Busca(s, j, tabla[j])}}

\* What the client of a request can know of it.
Recibo(e, s, d, r) == [estadio |-> e, sol |-> s, dato |-> d, resp |-> r]
=============================================================================
