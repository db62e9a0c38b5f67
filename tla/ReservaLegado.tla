---------------------------- MODULE ReservaLegado ---------------------------
(***************************************************************************)
(* The booking of the legacy web client: src/pages/BookingPage.jsx over    *)
(* src/services/barberiaApi.js.  A submit asks the backend for the citas   *)
(* of client 1, checks the hour against them and the list in localStorage, *)
(* stores the whole list, and posts the cita, whose failure it hides.  One *)
(* tab goes from reading the list to storing it without interruption       *)
(* (microtasks of one answer); nothing holds another tab back.  Nothing    *)
(* keeps the form from being submitted again meanwhile.                    *)
(***************************************************************************)
EXTENDS DatosLegado

VARIABLES
  guardadas,    \* barberia_local_appointments
  remotas,      \* the rows of client 1 in the backend
  reloj,        \* Date.now()
  envio,        \* each submit
  confirmadas,  \* the ids of the bookings whose page said they were made
  rehusadas     \* observer: the ids of the bookings whose write was refused

vars == <<guardadas, remotas, reloj, envio, confirmadas, rehusadas>>

FasesEnvio == {"libre", "consultando", "servida", "escribir", "publicando"}
Envio == [fase: FasesEnvio, cita: Opcional(CitaLegada), lista: SUBSET CitaLegada,
          error: BOOLEAN]

Ocioso(e) == [fase |-> "libre", cita |-> Nulo, lista |-> {}, error |-> e]
En(s, f, l) == envio' = [envio EXCEPT ![s] =
  [fase |-> f, cita |-> envio[s].cita, lista |-> l, error |-> FALSE]]

Init ==
  /\ guardadas = {}
  /\ remotas = {}
  /\ reloj = 1
  /\ envio = [s \in Envios |-> Ocioso(FALSE)]
  /\ confirmadas = {}
  /\ rehusadas = {}

\* No other submit of the tab is between its reading and its storing.
Turno(s) ==
  \A q \in Envios \ {s} : PestanaDe[q] = PestanaDe[s] => envio[q].fase # "escribir"

\* Mutant: ids of its own, below those of the tables.
IdNegativo(t) == 0 - t

\* Ids of the form: far above those of tables and mocks.
IdPropio(t) == 1000 + t

-----------------------------------------------------------------------------
\* handleSubmit with every field filled, up to the request of getAppointments.
HandleSubmit(s, h) ==
  /\ envio[s].fase = "libre" /\ Turno(s) /\ reloj <= MaxReservas
  /\ envio' = [envio EXCEPT ![s] =
       [fase |-> "consultando",
        cita |-> [id |-> IdPropio(reloj), hueco |-> h, estado |-> "PENDIENTE",
                  propia |-> TRUE],
        lista |-> {}, error |-> FALSE]]
  /\ reloj' = reloj + 1
  /\ UNCHANGED <<guardadas, remotas, confirmadas, rehusadas>>

\* fetchJson: the rows as the backend reads them, or the mocks for whatever fails.
Servir(s) ==
  /\ envio[s].fase = "consultando"
  /\ \E l \in {remotas, CitasDePrueba} : En(s, "servida", l)
  /\ UNCHANGED <<guardadas, remotas, reloj, confirmadas, rehusadas>>

\* The answer arrives: the list is read and the hour is checked.
Comprobar(s) ==
  LET existentes == Combinadas(envio[s].lista, guardadas)
      c == envio[s].cita IN
  /\ envio[s].fase = "servida" /\ Turno(s)
  /\ IF \E x \in existentes : HasSchedulingConflict(c.hueco, x.hueco)
     THEN envio' = [envio EXCEPT ![s] = Ocioso(TRUE)]
     ELSE En(s, "escribir", existentes \cup {c})
  /\ UNCHANGED <<guardadas, remotas, reloj, confirmadas, rehusadas>>

\* writeLocalAppointments, which swallows the exception of a full or blocked storage.
Escribir(s) ==
  /\ envio[s].fase = "escribir"
  /\ \/ guardadas' = envio[s].lista /\ UNCHANGED rehusadas
     \/ rehusadas' = rehusadas \cup {envio[s].cita.id} /\ UNCHANGED guardadas
  /\ En(s, "publicando", {})
  /\ UNCHANGED <<remotas, reloj, confirmadas>>

\* The POST carries an id that no table row has, which the backend refuses, or it
\* does not arrive: either way the page says that it is booked.
Publicar(s) ==
  /\ envio[s].fase = "publicando" /\ Turno(s)
  /\ confirmadas' = confirmadas \cup {envio[s].cita.id}
  /\ envio' = [envio EXCEPT ![s] = Ocioso(FALSE)]
  /\ UNCHANGED <<guardadas, remotas, reloj, rehusadas>>

\* External: others add, change and delete rows of the client in the backend.
CambiarBackend ==
  /\ \E c \in FilasBackend :
       \/ remotas' = {r \in remotas : r.id # c.id} \cup {c}
       \/ remotas' = remotas \ {c}
  /\ UNCHANGED <<guardadas, reloj, envio, confirmadas, rehusadas>>

Next ==
  \/ \E s \in Envios :
       \/ \E h \in Huecos : HandleSubmit(s, h)
       \/ Servir(s) \/ Comprobar(s) \/ Escribir(s) \/ Publicar(s)
  \/ CambiarBackend

Spec == Init /\ [][Next]_vars

-----------------------------------------------------------------------------
TypeOK ==
  /\ guardadas \subseteq CitaLegada
  /\ remotas \subseteq CitaLegada
  /\ reloj \in Nat
  /\ envio \in [Envios -> Envio]
  /\ confirmadas \cup rehusadas \subseteq Nat

ListaSeparada(lista) ==
  \A c, d \in lista :
    c.propia /\ d.propia /\ c # d /\ MismoBarberoYFecha(c.hueco, d.hueco)
      => Distancia(c.hueco, d.hueco) >= 40

\* However submits, tabs and failing writes cross, two bookings that the list keeps
\* are never with one barber on one date less than 40 minutes apart
\* (hasSchedulingConflict, against a list that may be stale when it is written).
Separadas == ListaSeparada(guardadas)

\* A booking that the page said was made (BookingPage.jsx: "Reserva confirmada") is in
\* the list, the only place where it can be, or its own write was refused: neither the
\* submits that cross it nor the refused writes of others ever take it away.
ConfirmadaGuardada == confirmadas \subseteq Ids(guardadas) \cup rehusadas
=============================================================================
