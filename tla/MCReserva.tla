----------------------------- MODULE MCReserva ------------------------------
(***************************************************************************)
(* Instances of Reserva: one browser with two calls at a time.             *)
(***************************************************************************)
EXTENDS Reserva, TLC

CONSTANTS b1, p1, p2

MCFechas == {"f1", "2099-01-01"}

Elige(s, p, f, h) == [servicioId |-> s, barberoId |-> p, fecha |-> f, hora |-> h]
Base == Elige(1, 1, "f1", "h1")

\* One choice; two hours; two hours, and the date that is refused.
MCUna == {Base}
MCDos == {Base, Elige(1, 1, "f1", "h2")}
MCTres == MCDos \cup {Elige(1, 1, "2099-01-01", "h1")}

\* The demo session of the administrator.
MCSoloAdmin == {[id |-> 99, rol |-> "ADMIN", correo |-> "m1"]}

MCIds == {1, 2, 99}
MCIniciales == [s \in Catalogos |-> {1, 2}]

Guardada(i, e, est) ==
  [id |-> i, reserva |-> [eleccion |-> e, clienteId |-> 1, correo |-> "m1"],
   estado |-> est, codigo |-> "k1", respaldo |-> Nulo, limpia |-> TRUE, reactivada |-> FALSE]

\* The slots are alike.
MCSimetria == Permutations(Peticiones)

MCCitaCancelada == {Guardada(1, Base, "CANCELADA")}
MCCitaActiva == {Guardada(1, Base, "CONFIRMADA")}
=============================================================================
