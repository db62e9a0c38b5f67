---------------------------- MODULE DatosLegado -----------------------------
(***************************************************************************)
(* The data of the legacy web client (src/services/barberiaApi.js): citas, *)
(* all of client 1, as the browser and the backend hold them.              *)
(***************************************************************************)
EXTENDS Valores

CONSTANTS
  Envios,        \* submits of the booking form that may be in flight
  Pestanas,      \* tabs of one browser: they share its localStorage
  PestanaDe,     \* the tab of each submit
  Huecos,        \* what a form may choose: barber, date, and hour in minutes
  CitasDePrueba, \* mockAppointments
  FilasBackend,  \* rows that the backend may come to hold, put there by others
  MaxReservas    \* bound on the submits

Hueco == [barberoId: Nat, fecha: Nat, hora: 0..1439]

\* propia: the form made it, its id is the time of the submit (Date.now(): two
\* submits are more than a millisecond apart), which no other id reaches.
CitaLegada == [id: Nat, hueco: Hueco, estado: {"PENDIENTE", "CONFIRMADA", "CANCELADA"},
               propia: BOOLEAN]

ASSUME DatosLegadoAssumption ==
  /\ PestanaDe \in [Envios -> Pestanas]
  /\ Huecos \subseteq Hueco
  /\ CitasDePrueba \cup FilasBackend \subseteq CitaLegada
  /\ \A c \in CitasDePrueba \cup FilasBackend : c.propia = FALSE
  /\ MaxReservas \in Nat
  /\ Nulo \notin CitaLegada

Ids(lista) == {c.id : c \in lista}

Distancia(h, k) == IF h.hora >= k.hora THEN h.hora - k.hora ELSE k.hora - h.hora

MismoBarberoYFecha(h, k) == h.barberoId = k.barberoId /\ h.fecha = k.fecha

\* Mutant: only what begins before the candidate counts.
ConflictoHaciaAtras(h, k) ==
  MismoBarberoYFecha(h, k) /\ h.hora >= k.hora /\ h.hora - k.hora <= 40

\* hasSchedulingConflict: whatever their states.
HasSchedulingConflict(h, k) == MismoBarberoYFecha(h, k) /\ Distancia(h, k) <= 40

\* Mutant: what is kept here is not looked at.
CombinadasSoloRemotas(remotas, locales) == remotas

\* getAppointments: by id, and what is kept here wins.
Combinadas(remotas, locales) == locales \cup {r \in remotas : r.id \notin Ids(locales)}
=============================================================================
