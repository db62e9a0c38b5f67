------------------------------ MODULE MCPagos -------------------------------
(***************************************************************************)
(* An instance of Pagos: two threads of service-pagos and one other client *)
(* of service-agendamiento, which books the cita that is paid.             *)
(***************************************************************************)
EXTENDS Pagos, TLC

CONSTANTS h1, h2, c1

MCHilos == {h1, h2}
MCPeticiones == MCHilos \cup {c1}

MCIniciales == [s \in Catalogos |-> IF s = "servicios" THEN {} ELSE {1}]

Plantilla == [op |-> "verDetalle", rol |-> "ADMIN", usuarioId |-> Nulo, id |-> 0,
              clave |-> Nulo, barberoId |-> Nulo, servicioId |-> Nulo,
              fecha |-> "f", hora |-> "h", estado |-> "CONFIRMADA", conId |-> FALSE]

\* A booking, and the reads of service-pagos.
MCAgendar ==
  {[Plantilla EXCEPT !.op = "crear", !.rol = "CLIENTE", !.usuarioId = 1,
                     !.barberoId = 1, !.servicioId = 1]}
  \cup {[Plantilla EXCEPT !.id = i] : i \in 1..MaxCitas + 1}

Cobro(op, i, cita, estado) == [op |-> op, id |-> i, citaId |-> cita, estado |-> estado]

\* A payment, two changes of its state that race, and a list that sees them.
MCCobros ==
  {Cobro("registrar", 0, 1, Nulo),
   Cobro("cambiarEstado", 1, Nulo, "PAGADO"), Cobro("cambiarEstado", 1, Nulo, "ANULADO"),
   Cobro("listarPorEstado", 0, Nulo, "PENDIENTE")}
=============================================================================
