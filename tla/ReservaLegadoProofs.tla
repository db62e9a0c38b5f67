------------------------ MODULE ReservaLegadoProofs -------------------------
(***************************************************************************)
(* That two bookings of the legacy client are kept 40 minutes apart, for   *)
(* any number of tabs and submits.  The list of the browser is overwritten *)
(* whole, so what has to be invariant is each list that some submit holds: *)
(* it was separated when it was put together, and it is not mixed with     *)
(* another one when it is stored.                                          *)
(***************************************************************************)
EXTENDS ReservaLegado, TLAPS

SinPropias(lista) == \A c \in lista : c.propia = FALSE

ListasSeparadas ==
  /\ SinPropias(remotas)
  /\ \A s \in Envios :
       /\ envio[s].fase # "libre" => envio[s].cita \in CitaLegada
       /\ envio[s].fase = "servida" => SinPropias(envio[s].lista)
       /\ envio[s].fase = "escribir" => ListaSeparada(envio[s].lista)

Inv == TypeOK /\ Separadas /\ ListasSeparadas

-----------------------------------------------------------------------------
\* An hour is a number of minutes.
LEMMA HoraEntera == \A h \in Hueco : h.hora \in Int
<1>1. \A h \in Hueco : h.hora \in 0..1439
  BY DEF Hueco
<1>2. \A i \in 0..1439 : i \in Int
  OBVIOUS
<1> QED
  BY <1>1, <1>2

\* The distance between two hours does not depend on their order.
LEMMA DistanciaSimetrica ==
  ASSUME NEW h \in Hueco, NEW k \in Hueco
  PROVE  /\ Distancia(h, k) = Distancia(k, h)
         /\ HasSchedulingConflict(h, k) = HasSchedulingConflict(k, h)
<1>1. h.hora \in Int /\ k.hora \in Int
  BY HoraEntera
<1> QED
  BY <1>1 DEF Distancia, HasSchedulingConflict, MismoBarberoYFecha

\* A separated list stays so with a booking that conflicts with none of it
\* (createAppointment).
LEMMA AnadirSepara ==
  ASSUME NEW locales \in SUBSET CitaLegada, ListaSeparada(locales),
         NEW rem \in SUBSET CitaLegada, SinPropias(rem), NEW c \in CitaLegada,
         \A x \in Combinadas(rem, locales) : ~HasSchedulingConflict(c.hueco, x.hueco)
  PROVE  ListaSeparada(Combinadas(rem, locales) \cup {c})
<1> DEFINE todas == Combinadas(rem, locales)
<1>1. \A x \in todas : x \in CitaLegada /\ (x.propia => x \in locales)
  BY DEF Combinadas, SinPropias
<1>2. \A x \in CitaLegada : x.hueco \in Hueco /\ x.propia \in BOOLEAN
  BY DEF CitaLegada
<1>3. \A x \in todas : MismoBarberoYFecha(c.hueco, x.hueco) =>
        Distancia(c.hueco, x.hueco) >= 40
  <2> SUFFICES ASSUME NEW x \in todas, MismoBarberoYFecha(c.hueco, x.hueco)
               PROVE  Distancia(c.hueco, x.hueco) >= 40
    OBVIOUS
  <2>1. c.hueco.hora \in Int /\ x.hueco.hora \in Int
    BY <1>1, <1>2, HoraEntera
  <2>2. ~(Distancia(c.hueco, x.hueco) <= 40)
    BY DEF HasSchedulingConflict
  <2> QED
    BY <2>1, <2>2 DEF Distancia
<1>4. \A x \in todas : MismoBarberoYFecha(x.hueco, c.hueco) =>
        Distancia(x.hueco, c.hueco) >= 40
  BY <1>1, <1>2, <1>3, DistanciaSimetrica DEF MismoBarberoYFecha
<1> SUFFICES ASSUME NEW x \in todas \cup {c}, NEW y \in todas \cup {c},
                    x.propia, y.propia, x # y, MismoBarberoYFecha(x.hueco, y.hueco)
             PROVE  Distancia(x.hueco, y.hueco) >= 40
  BY DEF ListaSeparada
<1>5. CASE x = c
  BY <1>3, <1>5
<1>6. CASE y = c
  BY <1>4, <1>6
<1>7. CASE x # c /\ y # c
  BY <1>1, <1>7 DEF ListaSeparada
<1> QED
  BY <1>5, <1>6, <1>7

\* The page starts with an empty list.
LEMMA InitInv == Init => Inv
  BY DEF Init, Inv, TypeOK, Separadas, ListaSeparada, ListasSeparadas, SinPropias,
         Ocioso, Envio, FasesEnvio, Opcional

-----------------------------------------------------------------------------
\* handleSubmit.
LEMMA HandleSubmitInv ==
  ASSUME Inv, NEW s \in Envios, NEW h \in Huecos, HandleSubmit(s, h)
  PROVE  Inv'
<1> DEFINE c == [id |-> IdPropio(reloj), hueco |-> h, estado |-> "PENDIENTE",
                 propia |-> TRUE]
           e == [fase |-> "consultando", cita |-> c, lista |-> {}, error |-> FALSE]
<1>1. c \in CitaLegada
  BY DatosLegadoAssumption DEF CitaLegada, IdPropio, Inv, TypeOK
<1>2. e \in Envio
  BY <1>1 DEF Envio, FasesEnvio, Opcional
<1>3. e.fase = "consultando" /\ e.cita = c
  OBVIOUS
<1>4. envio' = [envio EXCEPT ![s] = e] /\ reloj' = reloj + 1
      /\ UNCHANGED <<guardadas, remotas, confirmadas, rehusadas>>
  BY DEF HandleSubmit
<1> HIDE DEF c, e
<1>5. TypeOK'
  BY <1>2, <1>4 DEF Inv, TypeOK
<1>6. ListasSeparadas'
  BY <1>1, <1>3, <1>4 DEF Inv, TypeOK, ListasSeparadas
<1> QED
  BY <1>4, <1>5, <1>6 DEF Inv, Separadas

\* A submit moves on to a phase with a list.
LEMMA EnTipo ==
  ASSUME TypeOK, NEW s \in Envios, NEW f \in FasesEnvio, NEW l \in SUBSET CitaLegada,
         En(s, f, l)
  PROVE  /\ envio' \in [Envios -> Envio]
         /\ envio'[s].fase = f /\ envio'[s].lista = l /\ envio'[s].cita = envio[s].cita
         /\ \A q \in Envios \ {s} : envio'[q] = envio[q]
<1> DEFINE e == [fase |-> f, cita |-> envio[s].cita, lista |-> l, error |-> FALSE]
<1>1. e \in Envio /\ e.fase = f /\ e.lista = l /\ e.cita = envio[s].cita
  BY DEF TypeOK, Envio
<1>2. envio' = [envio EXCEPT ![s] = e]
  BY DEF En
<1> HIDE DEF e
<1> QED
  BY <1>1, <1>2 DEF TypeOK

\* A submit is over.
LEMMA OciosoTipo ==
  ASSUME TypeOK, NEW s \in Envios, NEW b \in BOOLEAN, envio' = [envio EXCEPT ![s] = Ocioso(b)]
  PROVE  /\ envio' \in [Envios -> Envio]
         /\ envio'[s].fase = "libre"
         /\ \A q \in Envios \ {s} : envio'[q] = envio[q]
<1>1. Ocioso(b) \in Envio /\ Ocioso(b).fase = "libre"
  BY DEF Ocioso, Envio, FasesEnvio, Opcional
<1> QED
  BY <1>1 DEF TypeOK

\* fetchJson answers rows of the backend or the mocks.
LEMMA ServirInv ==
  ASSUME Inv, NEW s \in Envios, Servir(s)
  PROVE  Inv'
<1>1. PICK l \in {remotas, CitasDePrueba} : En(s, "servida", l)
  BY DEF Servir
<1>2. l \in SUBSET CitaLegada /\ SinPropias(l)
  BY DatosLegadoAssumption DEF Inv, TypeOK, ListasSeparadas, SinPropias
<1>3. UNCHANGED <<guardadas, remotas, reloj, confirmadas, rehusadas>> /\ envio[s].fase = "consultando"
  BY DEF Servir
<1>4. "servida" \in FasesEnvio
  BY DEF FasesEnvio
<1>5. /\ envio' \in [Envios -> Envio]
      /\ envio'[s].fase = "servida" /\ envio'[s].lista = l /\ envio'[s].cita = envio[s].cita
      /\ \A q \in Envios \ {s} : envio'[q] = envio[q]
  BY <1>1, <1>2, <1>4, EnTipo DEF Inv
<1>6. ListasSeparadas'
  BY <1>2, <1>3, <1>5 DEF Inv, ListasSeparadas
<1> QED
  BY <1>3, <1>5, <1>6 DEF Inv, TypeOK, Separadas

\* The check, and the list that is to be stored.
LEMMA ComprobarInv ==
  ASSUME Inv, NEW s \in Envios, Comprobar(s)
  PROVE  Inv'
<1> DEFINE rem == envio[s].lista
           c == envio[s].cita
           todas == Combinadas(rem, guardadas)
<1>1. UNCHANGED <<guardadas, remotas, reloj, confirmadas, rehusadas>> /\ envio[s].fase = "servida"
  BY DEF Comprobar
<1>2. rem \in SUBSET CitaLegada /\ c \in CitaLegada /\ SinPropias(rem)
  BY <1>1 DEF Inv, TypeOK, Envio, ListasSeparadas
<1>3. CASE \E x \in todas : HasSchedulingConflict(c.hueco, x.hueco)
  <2>1. envio' = [envio EXCEPT ![s] = Ocioso(TRUE)]
    BY <1>3 DEF Comprobar
  <2>2. /\ envio' \in [Envios -> Envio]
        /\ envio'[s].fase = "libre"
        /\ \A q \in Envios \ {s} : envio'[q] = envio[q]
    BY <2>1, OciosoTipo DEF Inv
  <2> QED
    BY <1>1, <2>2 DEF Inv, TypeOK, Separadas, ListasSeparadas
<1>4. CASE ~\E x \in todas : HasSchedulingConflict(c.hueco, x.hueco)
  <2>1. En(s, "escribir", todas \cup {c})
    BY <1>4 DEF Comprobar
  <2>2. ListaSeparada(todas \cup {c})
    BY <1>2, <1>4, AnadirSepara DEF Inv, TypeOK, Separadas
  <2>3. todas \cup {c} \in SUBSET CitaLegada /\ "escribir" \in FasesEnvio
    BY <1>2 DEF Combinadas, Inv, TypeOK, FasesEnvio
  <2>4. /\ envio' \in [Envios -> Envio]
        /\ envio'[s].fase = "escribir" /\ envio'[s].lista = todas \cup {c}
        /\ envio'[s].cita = c
        /\ \A q \in Envios \ {s} : envio'[q] = envio[q]
    BY <2>1, <2>3, EnTipo DEF Inv
  <2>5. ListasSeparadas'
    BY <1>1, <1>2, <2>2, <2>4 DEF Inv, ListasSeparadas
  <2> QED
    BY <1>1, <2>4, <2>5 DEF Inv, TypeOK, Separadas
<1> QED
  BY <1>3, <1>4

\* The write, of a list put together before.
LEMMA EscribirInv ==
  ASSUME Inv, NEW s \in Envios, Escribir(s)
  PROVE  Inv'
<1>1. /\ UNCHANGED <<remotas, reloj, confirmadas>> /\ envio[s].fase = "escribir"
      /\ guardadas' \in {guardadas, envio[s].lista} /\ En(s, "publicando", {})
  BY DEF Escribir
<1>2. guardadas' \subseteq CitaLegada /\ ListaSeparada(guardadas')
  BY <1>1 DEF Inv, TypeOK, Envio, Separadas, ListasSeparadas
<1>3. "publicando" \in FasesEnvio
  BY DEF FasesEnvio
<1>4. /\ envio' \in [Envios -> Envio]
      /\ envio'[s].fase = "publicando" /\ envio'[s].cita = envio[s].cita
      /\ \A q \in Envios \ {s} : envio'[q] = envio[q]
  BY <1>1, <1>3, EnTipo DEF Inv
<1>5. ListasSeparadas'
  BY <1>1, <1>4 DEF Inv, ListasSeparadas
<1>6. Separadas'
  BY <1>2 DEF Separadas, ListaSeparada
<1>7. rehusadas' \subseteq Nat
  <2>1. envio[s].cita.id \in Nat
    BY <1>1 DEF Inv, ListasSeparadas, CitaLegada
  <2> QED
    BY <2>1 DEF Escribir, Inv, TypeOK
<1> QED
  BY <1>1, <1>2, <1>4, <1>5, <1>6, <1>7 DEF Inv, TypeOK

\* The end of a submit that was not refused.
LEMMA PublicarInv ==
  ASSUME Inv, NEW s \in Envios, Publicar(s)
  PROVE  Inv'
<1>1. /\ envio' = [envio EXCEPT ![s] = Ocioso(FALSE)] /\ envio[s].fase = "publicando"
      /\ confirmadas' = confirmadas \cup {envio[s].cita.id}
      /\ UNCHANGED <<guardadas, remotas, reloj, rehusadas>>
  BY DEF Publicar
<1>2. envio[s].cita.id \in Nat
  BY <1>1 DEF Inv, ListasSeparadas, CitaLegada
<1>3. /\ envio' \in [Envios -> Envio]
      /\ envio'[s].fase = "libre"
      /\ \A q \in Envios \ {s} : envio'[q] = envio[q]
  BY <1>1, OciosoTipo DEF Inv
<1> QED
  BY <1>1, <1>2, <1>3 DEF Inv, TypeOK, Separadas, ListasSeparadas

\* Others change the backend: none of its rows is a booking of the form.
LEMMA CambiarBackendInv ==
  ASSUME Inv, CambiarBackend
  PROVE  Inv'
<1>1. PICK c \in FilasBackend :
        \/ remotas' = {r \in remotas : r.id # c.id} \cup {c}
        \/ remotas' = remotas \ {c}
  BY DEF CambiarBackend
<1>2. remotas' \subseteq CitaLegada /\ SinPropias(remotas')
  BY <1>1, DatosLegadoAssumption DEF Inv, TypeOK, ListasSeparadas, SinPropias
<1>3. UNCHANGED <<guardadas, reloj, envio, confirmadas, rehusadas>>
  BY DEF CambiarBackend
<1> QED
  BY <1>2, <1>3 DEF Inv, TypeOK, Separadas, ListasSeparadas, SinPropias

LEMMA NextInv ==
  ASSUME Inv, [Next]_vars
  PROVE  Inv'
<1>1. CASE UNCHANGED vars
  BY <1>1 DEF vars, Inv, TypeOK, Separadas, ListasSeparadas
<1>2. CASE CambiarBackend
  BY <1>2, CambiarBackendInv
<1>3. ASSUME NEW s \in Envios, \/ \E h \in Huecos : HandleSubmit(s, h)
                               \/ Servir(s) \/ Comprobar(s) \/ Escribir(s) \/ Publicar(s)
      PROVE  Inv'
  BY <1>3, HandleSubmitInv, ServirInv, ComprobarInv, EscribirInv, PublicarInv
<1> QED
  BY <1>1, <1>2, <1>3 DEF Next

-----------------------------------------------------------------------------
\* The state of the legacy client keeps its types.
THEOREM TiposLegado == Spec => []TypeOK
<1>1. Inv => TypeOK
  BY DEF Inv
<1> QED
  BY <1>1, InitInv, NextInv, PTL DEF Spec

\* Two bookings that the legacy client keeps for one barber and date are at least 40
\* minutes apart, for every number of tabs, submits and failing writes.
THEOREM Separacion == Spec => []Separadas
<1>1. Inv => Separadas
  BY DEF Inv
<1> QED
  BY <1>1, InitInv, NextInv, PTL DEF Spec

-----------------------------------------------------------------------------
(***************************************************************************)
(* One tab loses no booking that it confirmed, unless its own write was    *)
(* refused: the list that a submit is about to store still holds all of    *)
(* the stored one.                                                         *)
(***************************************************************************)
UnaPestana == \A s, q \in Envios : PestanaDe[s] = PestanaDe[q]

ListasAlDia ==
  \A s \in Envios :
    /\ envio[s].fase = "escribir" =>
         /\ guardadas \subseteq envio[s].lista /\ envio[s].cita \in envio[s].lista
         /\ \A q \in Envios \ {s} : envio[q].fase # "escribir"
    /\ envio[s].fase = "publicando" => envio[s].cita.id \in Ids(guardadas) \cup rehusadas

InvPestana == Inv /\ ConfirmadaGuardada /\ ListasAlDia

\* What a submit that is moved to another phase, or ends, leaves of the others.
LEMMA PasoInvPestana ==
  ASSUME UnaPestana, InvPestana, NEW s \in Envios,
         \/ \E h \in Huecos : HandleSubmit(s, h)
         \/ Servir(s) \/ Comprobar(s) \/ Escribir(s) \/ Publicar(s)
  PROVE  ConfirmadaGuardada' /\ ListasAlDia'
<1> USE DEF InvPestana, Inv
<1>1. \A q \in Envios \ {s} : envio'[q] = envio[q]
  BY DEF HandleSubmit, Servir, Comprobar, Escribir, Publicar, En, TypeOK
<1>2. \/ envio'[s].fase \in {"consultando", "servida", "libre"}
      \/ Comprobar(s) /\ envio'[s].fase = "escribir"
      \/ Escribir(s)
  BY DEF HandleSubmit, Servir, Comprobar, Publicar, En, Ocioso, TypeOK
<1>3. CASE Escribir(s)
  <2>1. /\ \/ guardadas' = envio[s].lista /\ rehusadas' = rehusadas
           \/ guardadas' = guardadas /\ rehusadas' = rehusadas \cup {envio[s].cita.id}
        /\ confirmadas' = confirmadas /\ envio[s].fase = "escribir" /\ En(s, "publicando", {})
    BY <1>3 DEF Escribir
  <2>2. /\ guardadas \subseteq guardadas' /\ rehusadas \subseteq rehusadas'
        /\ envio[s].cita \in guardadas' \/ envio[s].cita.id \in rehusadas'
        /\ \A q \in Envios \ {s} : envio[q].fase # "escribir"
    BY <2>1 DEF ListasAlDia
  <2>3. /\ Ids(guardadas) \cup rehusadas \subseteq Ids(guardadas') \cup rehusadas'
        /\ envio[s].cita.id \in Ids(guardadas') \cup rehusadas'
    BY <2>2 DEF Ids
  <2>4. "publicando" \in FasesEnvio
    BY DEF FasesEnvio
  <2>5. envio'[s].fase = "publicando" /\ envio'[s].cita = envio[s].cita
    BY <2>1, <2>4, EnTipo
  <2> QED
    BY <1>1, <2>1, <2>2, <2>3, <2>5 DEF ListasAlDia, ConfirmadaGuardada
<1>4. CASE ~Escribir(s)
  <2>1. guardadas' = guardadas /\ rehusadas' = rehusadas
    BY <1>4 DEF HandleSubmit, Servir, Comprobar, Publicar
  <2>2. ConfirmadaGuardada'
    BY <1>4, <2>1 DEF HandleSubmit, Servir, Comprobar, Publicar, ConfirmadaGuardada,
                      ListasAlDia
  <2>3. CASE envio'[s].fase \in {"consultando", "servida", "libre"}
    BY <1>1, <2>1, <2>2, <2>3 DEF ListasAlDia
  <2>4. CASE Comprobar(s) /\ envio'[s].fase = "escribir"
    <3> DEFINE nueva == Combinadas(envio[s].lista, guardadas) \cup {envio[s].cita}
    <3>1. En(s, "escribir", nueva) /\ Turno(s) /\ envio[s].fase = "servida"
      BY <2>4 DEF Comprobar, Ocioso, TypeOK
    <3>2. envio'[s].lista = nueva /\ envio'[s].cita = envio[s].cita
      BY <3>1 DEF En, TypeOK
    <3>3. guardadas \subseteq nueva /\ envio[s].cita \in nueva
      BY DEF Combinadas
    <3>4. \A q \in Envios \ {s} : envio[q].fase # "escribir"
      BY <3>1 DEF Turno, UnaPestana
    <3> QED
      BY <1>1, <2>1, <2>2, <2>4, <3>2, <3>3, <3>4 DEF ListasAlDia
  <2> QED
    BY <1>2, <1>4, <2>3, <2>4
<1> QED
  BY <1>3, <1>4

LEMMA NextInvPestana ==
  ASSUME UnaPestana, InvPestana, [Next]_vars
  PROVE  InvPestana'
<1>1. Inv'
  BY NextInv DEF InvPestana
<1>2. CASE UNCHANGED vars
  BY <1>1, <1>2 DEF vars, InvPestana, ConfirmadaGuardada, ListasAlDia
<1>3. CASE CambiarBackend
  BY <1>1, <1>3 DEF CambiarBackend, InvPestana, ConfirmadaGuardada, ListasAlDia
<1>4. ASSUME NEW s \in Envios, \/ \E h \in Huecos : HandleSubmit(s, h)
                               \/ Servir(s) \/ Comprobar(s) \/ Escribir(s) \/ Publicar(s)
      PROVE  InvPestana'
  BY <1>1, <1>4, PasoInvPestana DEF InvPestana
<1> QED
  BY <1>2, <1>3, <1>4 DEF Next

\* A booking that the legacy page confirmed is in the list of its browser, when one tab is
\* open, unless its own write was refused: for any number of submits in flight.
THEOREM ConfirmadaNoSePierde ==
  ASSUME UnaPestana
  PROVE  Spec => []ConfirmadaGuardada
<1>1. Init => InvPestana
  BY InitInv DEF Init, InvPestana, ConfirmadaGuardada, ListasAlDia, Ocioso
<1>2. InvPestana /\ [Next]_vars => InvPestana'
  BY NextInvPestana
<1>3. InvPestana => ConfirmadaGuardada
  BY DEF InvPestana
<1> QED
  BY <1>1, <1>2, <1>3, PTL DEF Spec
=============================================================================
