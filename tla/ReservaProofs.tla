---------------------------- MODULE ReservaProofs ---------------------------
(***************************************************************************)
(* What holds of the booking client for any number of browsers, users,     *)
(* choices, calls in flight and clicks, over service-agendamiento as       *)
(* RegistroCitas promises it.                                              *)
(***************************************************************************)
EXTENDS Reserva, ColeccionProofs, FiniteSetTheorems

\* The record of a request in the registry.
Ficha == [estadio: {"libre", "pendiente", "leida", "hecha", "contestada"},
          sol: Opcional(Solicitud), dato: {{}}, resp: Opcional(Respuestas)]

FichaCorrecta(a) ==
  /\ a \in Ficha
  /\ a.estadio # "libre" => a.sol \in Solicitud
  /\ a.resp # Nulo => a.estadio = "contestada"

AgendaCorrecta ==
  /\ citas \in Seq(Cita)
  /\ atencion \in [Peticiones -> Ficha]
  /\ \A u \in Peticiones : FichaCorrecta(atencion[u])

\* A call knows its browser and, by its kind, what its end will need.
LlamadaCorrecta(l) ==
  /\ l \in Llamada
  /\ l.fase = "libre" => l = Ninguna
  /\ l.fase # "libre" => /\ l.nav \in Navegadores
                         /\ \/ l.tipo = "agendar" /\ l.cita \in NuevaCita
                            \/ l.tipo = "cambiarEstado" /\ l.estado \in Estados
  /\ l.fase \in {"temporizador", "cuerpo"} => l.tipo = "agendar"
  /\ l.viva => l.nav \in Navegadores

\* A wizard that may confirm has an address.
AsistenteCorrecto(a) ==
  a # Nulo => a \in Asistente /\ (a.paso = 5 => a.correo \in Correos)

\* What TypeOK says, browser by browser and call by call, with what it rests on:
\* collections are finite (they have a next id), and a timer that will free the
\* button of its wizard has a wizard.
PantallasCorrectas ==
  /\ guardadas \in [Navegadores -> SUBSET CitaLocal]
  /\ app \in [Navegadores -> App]
  /\ asistente \in [Navegadores -> Opcional(Asistente)]
  /\ \A b \in Navegadores :
       /\ IsFiniteSet(guardadas[b])
       /\ AsistenteCorrecto(asistente[b])
       /\ asistente[b] # Nulo <=> app[b].vista = "agendamiento"

LlamadasCorrectas ==
  /\ llamada \in [Peticiones -> Llamada]
  /\ creada \in [Peticiones -> Opcional(Nat)]
  /\ confirmaciones \in 0..MaxConfirmaciones
  /\ \A u \in Peticiones : /\ LlamadaCorrecta(llamada[u])
                           /\ llamada[u].viva => asistente[llamada[u].nav] # Nulo

Tipos == AgendaCorrecta /\ PantallasCorrectas /\ LlamadasCorrectas

-----------------------------------------------------------------------------
(***************************************************************************)
(* The registry: what each of its steps does to its records and its citas. *)
(***************************************************************************)
\* All of a cita but its state.
MismaReserva(c, d) ==
  /\ c.clienteId = d.clienteId /\ c.barberoId = d.barberoId
  /\ c.servicioId = d.servicioId /\ c.fecha = d.fecha /\ c.hora = d.hora

\* No cita is lost, and of those that were there only the state may change.
CitasQuedan ==
  \A i \in DOMAIN citas : i \in DOMAIN citas' /\ MismaReserva(citas[i], citas'[i])

\* The other slots of the registry keep their records.
SoloFicha(u) == \A v \in Peticiones : v # u => atencion'[v] = atencion[v]

LEMMA FichaCambia ==
  ASSUME AgendaCorrecta, NEW u \in Peticiones, NEW a, FichaCorrecta(a),
         atencion' = [atencion EXCEPT ![u] = a], citas' \in Seq(Cita)
  PROVE  AgendaCorrecta' /\ atencion'[u] = a /\ SoloFicha(u)
BY DEF AgendaCorrecta, FichaCorrecta, SoloFicha

LEMMA PedirFicha ==
  ASSUME AgendaCorrecta, NEW u \in Peticiones, NEW s \in Solicitud, Agenda!Pedir(u, s)
  PROVE  /\ AgendaCorrecta' /\ SoloFicha(u) /\ citas' = citas
         /\ atencion[u].estadio = "libre"
         /\ atencion'[u].estadio = "pendiente" /\ atencion'[u].sol = s
<1> DEFINE a == [atencion[u] EXCEPT !.estadio = "pendiente", !.sol = s]
<1>1. /\ atencion' = [atencion EXCEPT ![u] = a] /\ citas' = citas
      /\ atencion[u].estadio = "libre"
  BY DEF Agenda!Pedir, Agenda!En
<1>2. FichaCorrecta(a) /\ a.estadio = "pendiente" /\ a.sol = s
  BY <1>1 DEF AgendaCorrecta, FichaCorrecta, Ficha, Opcional
<1> HIDE DEF a
<1>3. citas' \in Seq(Cita)
  BY <1>1 DEF AgendaCorrecta
<1> QED
  BY <1>1, <1>2, <1>3, FichaCambia

LEMMA TerminarFicha ==
  ASSUME AgendaCorrecta, NEW u \in Peticiones, Agenda!Terminar(u)
  PROVE  /\ AgendaCorrecta' /\ SoloFicha(u) /\ citas' = citas
         /\ atencion[u].estadio = "contestada" /\ atencion'[u].estadio = "libre"
<1>1. FichaCorrecta(Agenda!Libre) /\ Agenda!Libre.estadio = "libre"
  BY DEF FichaCorrecta, Ficha, Agenda!Libre, Opcional
<1>2. atencion' = [atencion EXCEPT ![u] = Agenda!Libre] /\ citas' = citas
      /\ atencion[u].estadio = "contestada" /\ citas' \in Seq(Cita)
  BY DEF Agenda!Terminar, Agenda!En, AgendaCorrecta
<1> QED
  BY <1>1, <1>2, FichaCambia

\* A booking: the new cita is the one that was asked for.
LEMMA AgendarFicha ==
  ASSUME AgendaCorrecta, NEW u \in Peticiones, Agenda!Agendar(u)
  PROVE  /\ AgendaCorrecta' /\ SoloFicha(u) /\ CitasQuedan
         /\ atencion[u].estadio = "pendiente" /\ atencion[u].sol.op = "crear"
         /\ atencion'[u].estadio = "hecha" /\ atencion'[u].sol = atencion[u].sol
         /\ Len(citas) \in Nat /\ Len(citas') = Len(citas) + 1
         /\ Len(citas') \in DOMAIN citas' /\ Len(citas') \notin DOMAIN citas
         /\ citas'[Len(citas')] = CitaDe(atencion[u].sol)
<1> DEFINE a == [atencion[u] EXCEPT !.estadio = "hecha"]
           c == CitaDe(atencion[u].sol)
<1>1. atencion[u].estadio = "pendiente" /\ atencion[u].sol.op = "crear"
  BY DEF Agenda!Agendar, Agenda!En, Agenda!Sol
<1>2. FichaCorrecta(a) /\ a.estadio = "hecha" /\ a.sol = atencion[u].sol
  BY <1>1 DEF AgendaCorrecta, FichaCorrecta, Ficha
<1>3. c \in Cita
  BY <1>1 DEF AgendaCorrecta, FichaCorrecta, Agenda!Agendar, Agenda!Sol, Agenda!SinNulos,
     Agenda!CitaDe, CitaDe, Solicitud, Opcional, Cita
<1>4. citas' = Append(citas, c) /\ citas \in Seq(Cita)
  BY DEF Agenda!Agendar, Agenda!Sol, Agenda!CitaDe, CitaDe, AgendaCorrecta
<1>5. atencion' = [atencion EXCEPT ![u] = a]
  BY DEF Agenda!Agendar, Agenda!Pasa
<1> HIDE DEF a, c
<1>6. /\ citas' \in Seq(Cita) /\ Len(citas) \in Nat /\ Len(citas') = Len(citas) + 1
      /\ DOMAIN citas = 1..Len(citas) /\ DOMAIN citas' = 1..Len(citas')
      /\ citas'[Len(citas')] = c
      /\ \A i \in DOMAIN citas : i \in DOMAIN citas' /\ citas'[i] = citas[i]
  BY <1>3, <1>4
<1>7. Len(citas') \in DOMAIN citas' /\ Len(citas') \notin DOMAIN citas /\ CitasQuedan
  BY <1>6 DEF CitasQuedan, MismaReserva
<1> QED
  BY <1>1, <1>2, <1>5, <1>6, <1>7, FichaCambia DEF c

LEMMA CambiarFicha ==
  ASSUME AgendaCorrecta, NEW u \in Peticiones, Agenda!CambiarEstado(u)
  PROVE  /\ AgendaCorrecta' /\ SoloFicha(u) /\ CitasQuedan /\ Len(citas') = Len(citas)
         /\ atencion[u].estadio = "pendiente" /\ atencion[u].sol.op = "cambiarEstado"
         /\ atencion'[u].estadio = "hecha" /\ atencion'[u].sol = atencion[u].sol
<1> DEFINE a == [atencion[u] EXCEPT !.estadio = "hecha"]
<1>1. atencion[u].estadio = "pendiente" /\ atencion[u].sol.op = "cambiarEstado"
  BY DEF Agenda!CambiarEstado, Agenda!En, Agenda!Sol
<1>2. FichaCorrecta(a) /\ a.estadio = "hecha" /\ a.sol = atencion[u].sol
  BY <1>1 DEF AgendaCorrecta, FichaCorrecta, Ficha
<1>3. citas' \in Seq(Cita) /\ CitasQuedan /\ Len(citas') = Len(citas)
  <2> DEFINE i == atencion[u].sol.id
             e == atencion[u].sol.estado
             f == citas[i]
             c == [f EXCEPT !.estado = e]
  <2>1. citas \in Seq(Cita) /\ i \in DOMAIN citas /\ f \in Cita /\ e \in Estados
    BY <1>1 DEF Agenda!CambiarEstado, Agenda!Sol, AgendaCorrecta, FichaCorrecta, Solicitud
  <2>2. citas' = [citas EXCEPT ![i] = c] \/ citas' = citas
    BY DEF Agenda!CambiarEstado, Agenda!Sol
  <2> HIDE DEF e, f
  <2>3. c \in Cita /\ MismaReserva(f, c)
    BY <2>1 DEF Cita, MismaReserva
  <2> HIDE DEF c, i
  <2>4. citas' \in Seq(Cita) /\ Len(citas') = Len(citas) /\ DOMAIN citas' = DOMAIN citas
        /\ \A j \in DOMAIN citas : citas'[j] = citas[j] \/ (j = i /\ citas'[j] = c)
    BY <2>1, <2>2, <2>3
  <2> QED
    BY <2>3, <2>4 DEF CitasQuedan, MismaReserva, f
<1>4. atencion' = [atencion EXCEPT ![u] = a]
  BY DEF Agenda!CambiarEstado, Agenda!Pasa
<1> HIDE DEF a
<1> QED
  BY <1>1, <1>2, <1>3, <1>4, FichaCambia

LEMMA ContestarFicha ==
  ASSUME AgendaCorrecta, NEW u \in Peticiones, NEW r \in {"200"} \cup Errores,
         Agenda!Contestar(u, r)
  PROVE  /\ AgendaCorrecta' /\ SoloFicha(u) /\ citas' = citas
         /\ atencion[u].estadio \in {"pendiente", "leida", "hecha"}
         /\ atencion'[u].estadio = "contestada" /\ atencion'[u].sol = atencion[u].sol
<1> DEFINE a == [atencion[u] EXCEPT !.estadio = "contestada", !.resp = r]
<1>1. /\ atencion[u].estadio \in {"pendiente", "leida", "hecha"} /\ citas' = citas
      /\ atencion' = [atencion EXCEPT ![u] = a]
  BY DEF Agenda!Contestar, Agenda!En, Errores
<1>2. r \in Opcional(Respuestas) /\ citas' \in Seq(Cita)
  BY <1>1 DEF Opcional, Respuestas, AgendaCorrecta
<1>3. FichaCorrecta(a) /\ a.estadio = "contestada" /\ a.sol = atencion[u].sol
  BY <1>1, <1>2 DEF AgendaCorrecta, FichaCorrecta, Ficha
<1> HIDE DEF a
<1> QED
  BY <1>1, <1>2, <1>3, FichaCambia

\* A kill answers nobody, and leaves free what was free.
LEMMA PerderFicha ==
  ASSUME AgendaCorrecta, Agenda!Perder
  PROVE  /\ AgendaCorrecta' /\ citas' = citas
         /\ \A u \in Peticiones :
              \/ atencion'[u] = atencion[u]
              \/ /\ atencion[u].estadio \in {"pendiente", "leida", "hecha"}
                 /\ atencion'[u].estadio = "contestada" /\ atencion'[u].sol = atencion[u].sol
<1>1. ASSUME NEW u \in Peticiones
      PROVE  /\ FichaCorrecta(atencion'[u])
             /\ \/ atencion'[u] = atencion[u]
                \/ /\ atencion[u].estadio \in {"pendiente", "leida", "hecha"}
                   /\ atencion'[u].estadio = "contestada"
                   /\ atencion'[u].sol = atencion[u].sol
  <2> DEFINE a == [atencion[u] EXCEPT !.estadio = "contestada", !.resp = "sinRespuesta"]
  <2>1. atencion'[u] = IF atencion[u].estadio \in {"libre", "contestada"} THEN atencion[u]
                       ELSE a
    BY DEF Agenda!Perder
  <2>2. FichaCorrecta(atencion[u])
    BY DEF AgendaCorrecta
  <2>3. CASE atencion[u].estadio \in {"libre", "contestada"}
    BY <2>1, <2>2, <2>3
  <2>4. CASE atencion[u].estadio \notin {"libre", "contestada"}
    <3>1. /\ FichaCorrecta(a) /\ a.sol = atencion[u].sol /\ a.estadio = "contestada"
          /\ atencion[u].estadio \in {"pendiente", "leida", "hecha"}
      BY <2>2, <2>4 DEF FichaCorrecta, Ficha, Opcional, Respuestas
    <3> QED
      BY <2>1, <2>4, <3>1
  <2> QED
    BY <2>3, <2>4
<1>2. citas' = citas /\ atencion' \in [Peticiones -> Ficha]
  <2>1. DOMAIN atencion' = Peticiones /\ citas' = citas
        /\ atencion' = [u \in Peticiones |-> atencion'[u]]
    BY DEF Agenda!Perder
  <2> QED
    BY <1>1, <2>1 DEF FichaCorrecta
<1> QED
  BY <1>1, <1>2 DEF AgendaCorrecta

-----------------------------------------------------------------------------
(***************************************************************************)
(* The steps of Next, by what they do to a browser and to its calls.       *)
(***************************************************************************)
\* What the user does without a call.
Pantalla(b) ==
  \/ \E v \in Destinos : Navegar(b, v)
  \/ \E usr \in Usuarios : IniciarSesion(b, usr)
  \/ \E e \in Elecciones : Elegir(b, e)
  \/ CerrarSesion(b) \/ Avanzar(b) \/ Retroceder(b)

\* A change of state is sent for a cita of the screen.
Pide(b, u) ==
  \E c \in app[b].citas, e \in Estados, rol \in Roles, id \in Opcional(Ids) :
    PideEstado(b, c.id, e, rol, id, u)

\* The three ways in which a call goes on.
AlCuerpo(u) ==
  /\ Fase(u, "enviada") /\ atencion[u].resp = "200" /\ llamada[u].tipo = "agendar"
  /\ llamada' = [llamada EXCEPT ![u].fase = "cuerpo"]
  /\ UNCHANGED <<guardadas, app, asistente, creada, confirmaciones, agenda>>

FinReserva(u) ==
  \/ Fase(u, "enviada") /\ TerminarReserva(u, Nulo)
  \/ Fase(u, "cuerpo") /\ \E r \in {Nulo, creada[u]} : TerminarReserva(u, r)

FinCambio(u) == Fase(u, "enviada") /\ TerminarCambio(u)

Paso ==
  \/ \E b \in Navegadores : Pantalla(b) \/ RestablecerDatos(b)
  \/ \E b \in Navegadores, u \in Peticiones : Confirmar(b, u) \/ Pide(b, u)
  \/ \E u \in Peticiones : \/ VenceTemporizador(u) \/ AlCuerpo(u) \/ FinReserva(u)
                           \/ FinCambio(u) \/ Atender(u) \/ Descartar(u)
  \/ Caida

LEMMA UsuarioConId ==
  ASSUME PantallasCorrectas, NEW b \in Navegadores, app[b].usuario # Nulo
  PROVE  app[b].usuario \in Usuario
<1>1. app[b].usuario \in Opcional(Usuarios)
  BY DEF PantallasCorrectas, App
<1> QED
  BY <1>1, DatosReservaAssumption DEF Opcional

LEMMA CancelarPide ==
  ASSUME PantallasCorrectas, NEW b \in Navegadores, NEW u \in Peticiones, Cancelar(b, u)
  PROVE  Pide(b, u)
<1> DEFINE usr == app[b].usuario
           id == IF usr = Nulo THEN 1 ELSE OUno(usr.id)
<1>1. PICK c \in CitasUsuario(app[b].citas, usr) :
        PideEstado(b, c.id, "CANCELADA", "CLIENTE", id, u)
  BY DEF Cancelar
<1>2. c \in app[b].citas
  BY DEF CitasUsuario
<1>3. id \in Opcional(Ids) /\ "CANCELADA" \in Estados /\ "CLIENTE" \in Roles
  BY UsuarioConId, CitasAssumption, DatosReservaAssumption DEF OUno, Opcional, Roles, Usuario
<1> HIDE DEF id, usr
<1> QED
  BY <1>1, <1>2, <1>3 DEF Pide

LEMMA CambiarPide ==
  ASSUME PantallasCorrectas, NEW b \in Navegadores, NEW u \in Peticiones, CambiarEstado(b, u)
  PROVE  Pide(b, u)
<1> DEFINE usr == app[b].usuario
           id == IF usr = Nulo THEN Nulo ELSE usr.id
           rol == IF usr = Nulo THEN "ADMIN" ELSE usr.rol
<1>1. PICK c \in app[b].citas, e \in EstadosAdmin : PideEstado(b, c.id, e, rol, id, u)
  BY DEF CambiarEstado
<1>2. id \in Opcional(Ids) /\ e \in Estados /\ rol \in Roles
  BY UsuarioConId, DatosReservaAssumption DEF Opcional, Roles, Usuario
<1> HIDE DEF id, usr, rol
<1> QED
  BY <1>1, <1>2 DEF Pide

LEMMA NextPaso ==
  ASSUME PantallasCorrectas, Next
  PROVE  Paso
<1>1. ASSUME NEW b \in Navegadores, NEW u \in Peticiones, Cancelar(b, u) \/ CambiarEstado(b, u)
      PROVE  Pide(b, u)
  BY <1>1, CancelarPide, CambiarPide
<1>2. ASSUME NEW u \in Peticiones,
             \/ Rechazar(u) \/ RecibirError(u) \/ RecibirOk(u)
             \/ LeerCuerpo(u) \/ PerderCuerpo(u)
      PROVE  AlCuerpo(u) \/ FinReserva(u) \/ FinCambio(u)
  BY <1>2 DEF Rechazar, RecibirError, RecibirOk, LeerCuerpo, PerderCuerpo, Recurre,
     AlCuerpo, FinReserva, FinCambio
<1> QED
  BY <1>1, <1>2 DEF Next, Paso, Pantalla

-----------------------------------------------------------------------------
(***************************************************************************)
(* Types.                                                                  *)
(***************************************************************************)
\* Call m is call l, whose wizard may have gone or which may have met another one.
Sigue(l, m) ==
  /\ m.fase = l.fase /\ m.nav = l.nav /\ m.tipo = l.tipo /\ m.cita = l.cita
  /\ m.id = l.id /\ m.estado = l.estado
  /\ m.viva => l.viva
  /\ m.limpia => l.limpia

LEMMA SigueIgual ==
  ASSUME NEW l \in Llamada
  PROVE  Sigue(l, l)
BY DEF Sigue

LEMMA NingunaCorrecta == LlamadaCorrecta(Ninguna) /\ Ninguna.fase = "libre" /\ ~Ninguna.viva
BY DEF LlamadaCorrecta, Ninguna, Llamada, FasesLlamada, Opcional

LEMMA NavDeLibre ==
  ASSUME NEW l, LlamadaCorrecta(l), l.nav \in Navegadores
  PROVE  l.fase # "libre"
BY DatosReservaAssumption DEF LlamadaCorrecta, Ninguna

LEMMA SinVivaCorrecta ==
  ASSUME NEW l, LlamadaCorrecta(l), l.nav \in Navegadores
  PROVE  LET m == [l EXCEPT !.viva = FALSE]
         IN  LlamadaCorrecta(m) /\ Sigue(l, m) /\ ~m.viva
<1>1. l.fase # "libre"
  BY NavDeLibre
<1> QED
  BY <1>1 DEF LlamadaCorrecta, Llamada, Sigue

LEMMA SinLimpiaCorrecta ==
  ASSUME NEW l, LlamadaCorrecta(l), l.nav \in Navegadores
  PROVE  LET m == [l EXCEPT !.limpia = FALSE]
         IN  LlamadaCorrecta(m) /\ Sigue(l, m) /\ ~m.limpia
<1>1. l.fase # "libre"
  BY NavDeLibre
<1> QED
  BY <1>1 DEF LlamadaCorrecta, Llamada, Sigue

LEMMA OtraFase ==
  ASSUME NEW l, LlamadaCorrecta(l), l.fase # "libre",
         NEW f \in {"enviada", "cuerpo", "abandonada"}, f = "cuerpo" => l.tipo = "agendar"
  PROVE  LET m == [l EXCEPT !.fase = f]
         IN  /\ LlamadaCorrecta(m) /\ m.fase = f /\ m.nav = l.nav /\ m.tipo = l.tipo
             /\ m.cita = l.cita /\ m.id = l.id /\ m.estado = l.estado /\ m.viva = l.viva
             /\ m.limpia = l.limpia
BY DEF LlamadaCorrecta, Llamada, FasesLlamada

\* What Muestra does: only b changes its view; its wizard stays, starts at step 1 or
\* goes away; and no call changes but for its wizard.
LEMMA MuestraTipos ==
  ASSUME PantallasCorrectas, NEW b \in Navegadores, NEW v \in Vistas, NEW a \in App,
         NEW l \in [Peticiones -> Llamada], \A u \in Peticiones : LlamadaCorrecta(l[u]),
         \A u \in Peticiones : l[u].viva => asistente[l[u].nav] # Nulo,
         Muestra(b, v, a, l)
  PROVE  /\ app' \in [Navegadores -> App]
         /\ app'[b].vista = v /\ app'[b].citas = a.citas /\ app'[b].confirmada = a.confirmada
         /\ \A c \in Navegadores : c # b => app'[c] = app[c] /\ asistente'[c] = asistente[c]
         /\ asistente' \in [Navegadores -> Opcional(Asistente)]
         /\ asistente'[b] # Nulo <=> v = "agendamiento"
         /\ asistente'[b] # Nulo => asistente'[b] = asistente[b] \/ asistente'[b].paso = 1
         /\ \A c \in Navegadores : AsistenteCorrecto(asistente'[c])
         /\ \A c \in Navegadores : asistente'[c] # Nulo <=> app'[c].vista = "agendamiento"
         /\ llamada' \in [Peticiones -> Llamada]
         /\ \A u \in Peticiones : /\ LlamadaCorrecta(llamada'[u])
                                  /\ Sigue(l[u], llamada'[u])
                                  /\ llamada'[u].viva => asistente'[llamada'[u].nav] # Nulo
<1> DEFINE x == [a EXCEPT !.vista = v]
<1>1. x \in App /\ x.vista = v /\ x.citas = a.citas /\ x.confirmada = a.confirmada
  BY DEF App
<1>2. app' = [app EXCEPT ![b] = x] /\ app \in [Navegadores -> App]
  BY DEF Muestra, PantallasCorrectas
<1> HIDE DEF x
<1>3. /\ app' \in [Navegadores -> App] /\ app'[b] = x
      /\ \A c \in Navegadores : c # b => app'[c] = app[c]
  BY <1>1, <1>2
<1>4. /\ asistente \in [Navegadores -> Opcional(Asistente)]
      /\ \A c \in Navegadores : /\ AsistenteCorrecto(asistente[c])
                                /\ asistente[c] # Nulo <=> app[c].vista = "agendamiento"
  BY DEF PantallasCorrectas
<1>5. \A u \in Peticiones : l[u].viva => l[u].nav \in Navegadores
  BY DEF LlamadaCorrecta
<1>6. CASE v = "agendamiento" /\ app[b].vista = "agendamiento"
  <2>1. asistente' = asistente /\ llamada' = l
    BY <1>6 DEF Muestra
  <2>2. \A u \in Peticiones : Sigue(l[u], l[u])
    BY SigueIgual
  <2> QED
    BY <1>1, <1>3, <1>4, <1>6, <2>1, <2>2
<1>7. CASE v = "agendamiento" /\ app[b].vista # "agendamiento"
  <2> DEFINE n(e) == [paso |-> 1, eleccion |-> e, procesando |-> FALSE,
                      correo |-> IF a.usuario = Nulo THEN Nulo ELSE a.usuario.correo]
  <2>1. PICK e \in Elecciones : asistente' = [asistente EXCEPT ![b] = n(e)]
    BY <1>7 DEF Muestra
  <2>2. a.usuario # Nulo => a.usuario.correo \in Correos
    <3>1. a.usuario \in Opcional(Usuarios)
      BY DEF App
    <3> QED
      BY <3>1, DatosReservaAssumption DEF Opcional, Usuario
  <2>3. n(e) \in Asistente /\ n(e).paso = 1
    BY <2>2 DEF Asistente, Opcional
  <2>4. llamada' = l
    BY <1>7 DEF Muestra
  <2> HIDE DEF n
  <2>5. n(e) # Nulo /\ AsistenteCorrecto(n(e))
    BY <2>3, ReservaAssumption DEF AsistenteCorrecto
  <2>6. /\ asistente'[b] = n(e) /\ \A c \in Navegadores : c # b => asistente'[c] = asistente[c]
        /\ asistente' \in [Navegadores -> Opcional(Asistente)]
    BY <1>4, <2>1, <2>3 DEF Opcional
  <2>7. \A u \in Peticiones : Sigue(l[u], l[u])
    BY SigueIgual
  <2>8. \A u \in Peticiones : l[u].viva => asistente'[l[u].nav] # Nulo
    BY <1>5, <2>5, <2>6
  <2> QED
    BY <1>1, <1>3, <1>4, <1>7, <2>3, <2>4, <2>5, <2>6, <2>7, <2>8
<1>8. CASE v # "agendamiento"
  <2>1. asistente' = [asistente EXCEPT ![b] = Nulo] /\ llamada' = SinVivas(b, l)
    BY <1>8 DEF Muestra
  <2>2. /\ asistente'[b] = Nulo /\ \A c \in Navegadores : c # b => asistente'[c] = asistente[c]
        /\ asistente' \in [Navegadores -> Opcional(Asistente)]
    BY <1>4, <2>1 DEF Opcional
  <2>3. ASSUME NEW u \in Peticiones
        PROVE  /\ LlamadaCorrecta(llamada'[u]) /\ Sigue(l[u], llamada'[u])
               /\ llamada'[u].viva => l[u].viva /\ l[u].nav # b
    <3>1. CASE l[u].nav = b
      BY <2>1, <3>1, SinVivaCorrecta DEF SinVivas
    <3>2. CASE l[u].nav # b
      BY <2>1, <3>2, SigueIgual DEF SinVivas
    <3> QED
      BY <3>1, <3>2
  <2>4. llamada' \in [Peticiones -> Llamada]
    <3>1. \A u \in Peticiones : llamada'[u] \in Llamada
      BY <2>3 DEF LlamadaCorrecta
    <3>2. llamada' = [u \in Peticiones |-> llamada'[u]]
      BY <2>1 DEF SinVivas
    <3> QED
      BY <3>1, <3>2
  <2>5. AsistenteCorrecto(Nulo)
    BY DEF AsistenteCorrecto
  <2>6. ASSUME NEW u \in Peticiones, llamada'[u].viva
        PROVE  asistente'[llamada'[u].nav] # Nulo
    <3>1. llamada'[u].nav = l[u].nav /\ l[u].viva /\ l[u].nav # b /\ l[u].nav \in Navegadores
      BY <1>5, <2>3, <2>6 DEF Sigue
    <3> QED
      BY <2>2, <3>1
  <2> QED
    BY <1>1, <1>3, <1>4, <1>8, <2>2, <2>3, <2>4, <2>5, <2>6
<1> QED
  BY <1>6, <1>7, <1>8

\* A step of the registry that answers no call and receives none.
LEMMA AgendaQuieta ==
  ASSUME AgendaCorrecta, UNCHANGED agenda
  PROVE  AgendaCorrecta' /\ citas' = citas /\ atencion' = atencion
BY DEF AgendaCorrecta, agenda

LEMMA EnviaFicha ==
  ASSUME AgendaCorrecta, NEW u \in Peticiones, NEW s \in Solicitud, Envia(u, s)
  PROVE  /\ AgendaCorrecta' /\ SoloFicha(u) /\ citas' = citas
         /\ \/ atencion' = atencion
            \/ /\ atencion[u].estadio = "libre"
               /\ atencion'[u].estadio = "pendiente" /\ atencion'[u].sol = s
<1>1. CASE Agenda!Pedir(u, s)
  BY <1>1, PedirFicha
<1>2. CASE UNCHANGED agenda
  BY <1>2, AgendaQuieta DEF SoloFicha
<1> QED
  BY <1>1, <1>2 DEF Envia

LEMMA SueltaFicha ==
  ASSUME AgendaCorrecta, creada \in [Peticiones -> Opcional(Nat)], NEW u \in Peticiones,
         Suelta(u)
  PROVE  /\ AgendaCorrecta' /\ SoloFicha(u) /\ citas' = citas
         /\ creada' \in [Peticiones -> Opcional(Nat)]
         /\ \A v \in Peticiones : v # u => creada'[v] = creada[v]
         /\ IF atencion[u].estadio = "contestada"
            THEN atencion'[u].estadio = "libre" /\ creada'[u] = Nulo
            ELSE atencion' = atencion /\ creada' = creada
<1>1. CASE atencion[u].estadio = "contestada"
  <2>1. Agenda!Terminar(u) /\ creada' = [creada EXCEPT ![u] = Nulo]
    BY <1>1 DEF Suelta
  <2> QED
    BY <1>1, <2>1, TerminarFicha DEF Opcional
<1>2. CASE atencion[u].estadio # "contestada"
  <2>1. UNCHANGED agenda /\ creada' = creada
    BY <1>2 DEF Suelta
  <2> QED
    BY <1>2, <2>1, AgendaQuieta DEF SoloFicha
<1> QED
  BY <1>1, <1>2

\* The calls of the other slots go on.
SoloLlamada(u) == \A v \in Peticiones : v # u => Sigue(llamada[v], llamada'[v])

\* One call changes, and its wizard with it.
LEMMA LlamadaCambia ==
  ASSUME LlamadasCorrectas, NEW u \in Peticiones, NEW m, LlamadaCorrecta(m),
         m.viva => asistente[m.nav] # Nulo, llamada' = [llamada EXCEPT ![u] = m]
  PROVE  /\ llamada' \in [Peticiones -> Llamada] /\ llamada'[u] = m /\ SoloLlamada(u)
         /\ \A v \in Peticiones : /\ LlamadaCorrecta(llamada'[v])
                                  /\ llamada'[v].viva => asistente[llamada'[v].nav] # Nulo
<1>1. m \in Llamada
  BY DEF LlamadaCorrecta
<1>2. \A v \in Peticiones : Sigue(llamada[v], llamada[v])
  BY SigueIgual DEF LlamadasCorrectas
<1>3. /\ llamada' \in [Peticiones -> Llamada] /\ llamada'[u] = m
      /\ \A v \in Peticiones : v # u => llamada'[v] = llamada[v]
  BY <1>1 DEF LlamadasCorrectas
<1> QED
  BY <1>2, <1>3 DEF LlamadasCorrectas, SoloLlamada

\* No call changes.
LEMMA LlamadasQuietas ==
  ASSUME LlamadasCorrectas, llamada' = llamada
  PROVE  \A u \in Peticiones : Sigue(llamada[u], llamada'[u])
BY SigueIgual DEF LlamadasCorrectas

-----------------------------------------------------------------------------
\* Wizards that stay do not move.
AsistentesSiguen ==
  \A b \in Navegadores : asistente'[b] # Nulo =>
    /\ asistente[b] # Nulo
    /\ asistente'[b].paso = asistente[b].paso
    /\ asistente'[b].eleccion = asistente[b].eleccion

\* The screen that says that a cita is booked was there, with the same cita.
ExitosSiguen ==
  \A b \in Navegadores : app'[b].vista = "reserva-exitosa" =>
    app[b].vista = "reserva-exitosa" /\ app'[b].confirmada = app[b].confirmada

CitasDeAppSiguen == \A b \in Navegadores : app'[b].citas = app[b].citas

\* A wizard that is past step 3 was, or leaves it with an hour that is free.
AsistentesAvanzan ==
  \A b \in Navegadores : asistente'[b] # Nulo /\ asistente'[b].paso >= 4 =>
    /\ asistente[b] # Nulo
    /\ asistente'[b].eleccion = asistente[b].eleccion
    /\ asistente[b].paso >= 4 \/ ~EsHoraOcupada(app[b].citas, asistente[b].eleccion)

\* What the user does without a call changes no cita and no call.
PantallaHace ==
  /\ Tipos' /\ UNCHANGED <<guardadas, creada, confirmaciones, agenda>>
  /\ \A u \in Peticiones : Sigue(llamada[u], llamada'[u])
  /\ CitasDeAppSiguen /\ ExitosSiguen /\ AsistentesAvanzan

LEMMA MuestraPantalla ==
  ASSUME Tipos, NEW b \in Navegadores, NEW v \in Vistas \ {"reserva-exitosa"},
         NEW a \in App, a.citas = app[b].citas, Muestra(b, v, a, llamada),
         UNCHANGED <<guardadas, creada, confirmaciones, agenda>>
  PROVE  PantallaHace
<1>1. /\ PantallasCorrectas /\ LlamadasCorrectas /\ llamada \in [Peticiones -> Llamada]
      /\ \A u \in Peticiones : /\ LlamadaCorrecta(llamada[u])
                               /\ llamada[u].viva => asistente[llamada[u].nav] # Nulo
  BY DEF Tipos, LlamadasCorrectas
<1>2. /\ app' \in [Navegadores -> App]
      /\ app'[b].vista = v /\ app'[b].citas = a.citas
      /\ \A c \in Navegadores : c # b => app'[c] = app[c] /\ asistente'[c] = asistente[c]
      /\ asistente' \in [Navegadores -> Opcional(Asistente)]
      /\ asistente'[b] # Nulo => asistente'[b] = asistente[b] \/ asistente'[b].paso = 1
      /\ \A c \in Navegadores : AsistenteCorrecto(asistente'[c])
      /\ \A c \in Navegadores : asistente'[c] # Nulo <=> app'[c].vista = "agendamiento"
      /\ llamada' \in [Peticiones -> Llamada]
      /\ \A u \in Peticiones : /\ LlamadaCorrecta(llamada'[u])
                               /\ Sigue(llamada[u], llamada'[u])
                               /\ llamada'[u].viva => asistente'[llamada'[u].nav] # Nulo
  BY <1>1, MuestraTipos
<1>3. PantallasCorrectas'
  BY <1>1, <1>2 DEF PantallasCorrectas
<1>4. LlamadasCorrectas'
  BY <1>1, <1>2 DEF LlamadasCorrectas
<1>5. AgendaCorrecta'
  BY AgendaQuieta DEF Tipos
<1>6. CitasDeAppSiguen /\ ExitosSiguen
  BY <1>2 DEF CitasDeAppSiguen, ExitosSiguen
<1>7. AsistentesAvanzan
  <2> SUFFICES ASSUME NEW c \in Navegadores, asistente'[c] # Nulo, asistente'[c].paso >= 4
               PROVE  asistente'[c] = asistente[c]
    BY DEF AsistentesAvanzan
  <2> QED
    BY <1>2
<1> QED
  BY <1>2, <1>3, <1>4, <1>5, <1>6, <1>7 DEF PantallaHace, Tipos

\* A step of the wizard.
LEMMA CambiaPantalla ==
  ASSUME Tipos, NEW b \in Navegadores, asistente[b] # Nulo,
         NEW a \in Asistente, AsistenteCorrecto(a), Cambia(b, a),
         a.paso >= 4 => /\ a.eleccion = asistente[b].eleccion
                        /\ \/ asistente[b].paso >= 4
                           \/ ~EsHoraOcupada(app[b].citas, asistente[b].eleccion)
  PROVE  PantallaHace
<1>1. /\ asistente' = [asistente EXCEPT ![b] = a]
      /\ UNCHANGED <<guardadas, app, llamada, creada, confirmaciones, agenda>>
  BY DEF Cambia
<1>2. a # Nulo /\ PantallasCorrectas /\ LlamadasCorrectas
  BY ReservaAssumption DEF Tipos
<1>3. /\ asistente'[b] = a /\ \A c \in Navegadores : c # b => asistente'[c] = asistente[c]
      /\ asistente' \in [Navegadores -> Opcional(Asistente)]
  BY <1>1, <1>2 DEF PantallasCorrectas, Opcional
<1>4. PantallasCorrectas'
  BY <1>1, <1>2, <1>3 DEF PantallasCorrectas
<1>5. LlamadasCorrectas'
  <2>1. \A u \in Peticiones : llamada[u].viva => asistente'[llamada[u].nav] # Nulo
    BY <1>2, <1>3 DEF LlamadasCorrectas, LlamadaCorrecta
  <2> QED
    BY <1>1, <1>2, <2>1 DEF LlamadasCorrectas
<1>6. AgendaCorrecta' /\ \A u \in Peticiones : Sigue(llamada[u], llamada'[u])
  BY <1>1, <1>2, AgendaQuieta, LlamadasQuietas DEF Tipos
<1>7. CitasDeAppSiguen /\ ExitosSiguen
  BY <1>1 DEF CitasDeAppSiguen, ExitosSiguen
<1>8. AsistentesAvanzan
  <2> SUFFICES ASSUME NEW c \in Navegadores, asistente'[c] # Nulo, asistente'[c].paso >= 4
               PROVE  /\ asistente[c] # Nulo
                      /\ asistente'[c].eleccion = asistente[c].eleccion
                      /\ \/ asistente[c].paso >= 4
                         \/ ~EsHoraOcupada(app[c].citas, asistente[c].eleccion)
    BY DEF AsistentesAvanzan
  <2> QED
    BY <1>3
<1> QED
  BY <1>1, <1>4, <1>5, <1>6, <1>7, <1>8 DEF PantallaHace, Tipos

LEMMA IniciarSesionHace ==
  ASSUME Tipos, NEW b \in Navegadores, NEW u \in Usuarios, IniciarSesion(b, u)
  PROVE  PantallaHace
<1> DEFINE x == [app[b] EXCEPT !.usuario = u]
           a == [asistente[b] EXCEPT !.correo = u.correo]
           z == IF asistente[b] # Nulo /\ asistente[b].correo = Nulo THEN a ELSE asistente[b]
<1>1. /\ PantallasCorrectas /\ LlamadasCorrectas /\ app[b] \in App /\ u.correo \in Correos
      /\ u \in Opcional(Usuarios)
  BY DatosReservaAssumption DEF Tipos, PantallasCorrectas, Usuario, Opcional
<1>2. x \in App /\ x.vista = app[b].vista /\ x.citas = app[b].citas
      /\ x.confirmada = app[b].confirmada
  BY <1>1 DEF App
<1>3. /\ app' = [app EXCEPT ![b] = x]
      /\ UNCHANGED <<guardadas, llamada, creada, confirmaciones, agenda>>
      /\ asistente' = [asistente EXCEPT ![b] = z]
  BY DEF IniciarSesion
<1>4. asistente[b] # Nulo => /\ a \in Asistente /\ a # Nulo /\ AsistenteCorrecto(a)
                             /\ a.paso = asistente[b].paso /\ a.eleccion = asistente[b].eleccion
  <2> SUFFICES ASSUME asistente[b] # Nulo
               PROVE  /\ a \in Asistente /\ AsistenteCorrecto(a)
                      /\ a.paso = asistente[b].paso /\ a.eleccion = asistente[b].eleccion
    BY ReservaAssumption
  <2> DEFINE d == asistente[b]
  <2>1. d \in Asistente
    BY <1>1 DEF PantallasCorrectas, AsistenteCorrecto
  <2> HIDE DEF d
  <2>2. LET y == [d EXCEPT !.correo = u.correo]
        IN  y \in Asistente /\ y.paso = d.paso /\ y.eleccion = d.eleccion /\ y.correo = u.correo
    BY <1>1, <2>1 DEF Asistente, Opcional
  <2> QED
    BY <1>1, <2>2 DEF d, AsistenteCorrecto
<1> HIDE DEF x, a
<1>11. /\ z \in Opcional(Asistente)
       /\ z = asistente[b] \/ (asistente[b] # Nulo /\ z = a)
  <2>1. asistente[b] \in Opcional(Asistente)
    BY <1>1 DEF PantallasCorrectas
  <2> QED
    BY <1>4, <2>1 DEF Opcional
<1> HIDE DEF z
<1>5. /\ \A c \in Navegadores : c # b => app'[c] = app[c] /\ asistente'[c] = asistente[c]
      /\ app'[b] = x /\ app' \in [Navegadores -> App]
      /\ asistente'[b] = z /\ asistente' \in [Navegadores -> Opcional(Asistente)]
  BY <1>1, <1>2, <1>3, <1>11 DEF PantallasCorrectas
<1>6. \A c \in Navegadores :
        /\ AsistenteCorrecto(asistente'[c])
        /\ asistente'[c] # Nulo <=> asistente[c] # Nulo
        /\ asistente[c] # Nulo => /\ asistente'[c].paso = asistente[c].paso
                                  /\ asistente'[c].eleccion = asistente[c].eleccion
        /\ app'[c].vista = app[c].vista /\ app'[c].citas = app[c].citas
        /\ app'[c].confirmada = app[c].confirmada
  BY <1>1, <1>2, <1>4, <1>5, <1>11 DEF PantallasCorrectas
<1>7. PantallasCorrectas'
  BY <1>1, <1>3, <1>5, <1>6 DEF PantallasCorrectas
<1>8. LlamadasCorrectas'
  BY <1>1, <1>3, <1>6 DEF LlamadasCorrectas, LlamadaCorrecta
<1>9. AgendaCorrecta' /\ \A v \in Peticiones : Sigue(llamada[v], llamada'[v])
  BY <1>1, <1>3, AgendaQuieta, LlamadasQuietas DEF Tipos
<1>10. CitasDeAppSiguen /\ ExitosSiguen /\ AsistentesAvanzan
  BY <1>6 DEF CitasDeAppSiguen, ExitosSiguen, AsistentesAvanzan
<1> QED
  BY <1>3, <1>7, <1>8, <1>9, <1>10 DEF PantallaHace, Tipos

\* The wizard of b, when it is open.
LEMMA AsistenteAbierto ==
  ASSUME Tipos, NEW b \in Navegadores, asistente[b] # Nulo
  PROVE  /\ asistente[b] \in Asistente /\ asistente[b].paso \in 1..5
         /\ asistente[b].paso = 5 => asistente[b].correo \in Correos
BY DEF Tipos, PantallasCorrectas, AsistenteCorrecto, Asistente

LEMMA OtroAsistente ==
  ASSUME NEW a \in Asistente
  PROVE  /\ \A e \in Elecciones : LET y == [a EXCEPT !.eleccion = e]
                                  IN y \in Asistente /\ y.paso = a.paso
         /\ \A p \in 1..5 : LET y == [a EXCEPT !.paso = p]
                            IN y \in Asistente /\ y.paso = p /\ y.eleccion = a.eleccion
         /\ \A m \in Correos : LET y == [a EXCEPT !.paso = 5, !.correo = m]
                               IN /\ y \in Asistente /\ y.paso = 5 /\ y.eleccion = a.eleccion
                                  /\ y.correo = m
         /\ \A p \in BOOLEAN : LET y == [a EXCEPT !.procesando = p]
                               IN /\ y \in Asistente /\ y.paso = a.paso
                                  /\ y.eleccion = a.eleccion /\ y.correo = a.correo
<1>1. \A e \in Elecciones : LET y == [a EXCEPT !.eleccion = e]
                            IN y \in Asistente /\ y.paso = a.paso
  BY DEF Asistente
<1>2. \A p \in 1..5 : LET y == [a EXCEPT !.paso = p]
                      IN y \in Asistente /\ y.paso = p /\ y.eleccion = a.eleccion
  BY DEF Asistente
<1>3. ASSUME NEW m \in Correos
      PROVE  LET y == [a EXCEPT !.paso = 5, !.correo = m]
             IN /\ y \in Asistente /\ y.paso = 5 /\ y.eleccion = a.eleccion
                /\ y.correo = m
  <2>1. m \in Opcional(Correos) /\ 5 \in 1..5
    BY DEF Opcional
  <2> QED
    BY <2>1 DEF Asistente
<1>4. \A p \in BOOLEAN : LET y == [a EXCEPT !.procesando = p]
                         IN /\ y \in Asistente /\ y.paso = a.paso
                            /\ y.eleccion = a.eleccion /\ y.correo = a.correo
  BY DEF Asistente
<1> QED
  BY <1>1, <1>2, <1>3, <1>4

LEMMA ElegirHace ==
  ASSUME Tipos, NEW b \in Navegadores, NEW e \in Elecciones, Elegir(b, e)
  PROVE  PantallaHace
<1> DEFINE a == asistente[b]
           y == [a EXCEPT !.eleccion = e]
<1>1. asistente[b] # Nulo /\ a.paso \in 1..3 /\ Cambia(b, y)
  BY DEF Elegir, En
<1>2. y \in Asistente /\ y.paso = a.paso
  BY <1>1, AsistenteAbierto, OtroAsistente
<1> HIDE DEF a, y
<1>3. AsistenteCorrecto(y) /\ ~(y.paso >= 4)
  BY <1>1, <1>2 DEF AsistenteCorrecto
<1> QED
  BY <1>1, <1>2, <1>3, CambiaPantalla

LEMMA AvanzarHace ==
  ASSUME Tipos, NEW b \in Navegadores, Avanzar(b)
  PROVE  PantallaHace
<1> DEFINE a == asistente[b]
<1>1. asistente[b] # Nulo /\ a \in Asistente
  BY AsistenteAbierto DEF Avanzar, En
<1>2. CASE a.paso \in {1, 2, 3} /\ Cambia(b, [a EXCEPT !.paso = a.paso + 1])
           /\ (a.paso = 3 => ~EsHoraOcupada(app[b].citas, a.eleccion))
  <2> DEFINE p == a.paso + 1
             y == [a EXCEPT !.paso = p]
  <2>1. p \in 1..5 /\ p < 5 /\ (p >= 4 => a.paso = 3)
    BY <1>2
  <2>2. y \in Asistente /\ y.paso = p /\ y.eleccion = a.eleccion
    BY <1>1, <2>1, OtroAsistente
  <2>3. Cambia(b, y)
    BY <1>2
  <2> HIDE DEF p, y
  <2>4. AsistenteCorrecto(y)
    BY <2>1, <2>2 DEF AsistenteCorrecto
  <2> QED
    BY <1>1, <1>2, <2>1, <2>2, <2>3, <2>4, CambiaPantalla
<1>3. CASE a.paso = 4 /\ \E m \in Correos : Cambia(b, [a EXCEPT !.paso = 5, !.correo = m])
  <2>1. PICK m \in Correos : Cambia(b, [a EXCEPT !.paso = 5, !.correo = m])
    BY <1>3
  <2> DEFINE y == [a EXCEPT !.paso = 5, !.correo = m]
  <2>2. y \in Asistente /\ y.paso = 5 /\ y.eleccion = a.eleccion /\ y.correo = m
    BY <1>1, OtroAsistente
  <2>3. Cambia(b, y)
    BY <2>1
  <2> HIDE DEF y
  <2>4. AsistenteCorrecto(y)
    BY <2>2 DEF AsistenteCorrecto
  <2> QED
    BY <1>1, <1>3, <2>2, <2>3, <2>4, CambiaPantalla
<1>4. CASE a.paso = 3 /\ ~EsHoraOcupada(app[b].citas, a.eleccion)
           /\ Cambia(b, [a EXCEPT !.paso = 4])
  <2>1. 4 = a.paso + 1
    BY <1>4
  <2> QED
    BY <1>2, <1>4, <2>1
<1>5. \/ a.paso \in {1, 2} /\ Cambia(b, [a EXCEPT !.paso = a.paso + 1])
      \/ /\ a.paso = 3 /\ ~EsHoraOcupada(app[b].citas, a.eleccion)
         /\ Cambia(b, [a EXCEPT !.paso = 4])
      \/ a.paso = 4 /\ \E m \in Correos : Cambia(b, [a EXCEPT !.paso = 5, !.correo = m])
  BY DEF Avanzar, En
<1>6. CASE a.paso \in {1, 2} /\ Cambia(b, [a EXCEPT !.paso = a.paso + 1])
  <2>1. a.paso \in {1, 2, 3} /\ a.paso # 3
    BY <1>6
  <2> QED
    BY <1>2, <1>6, <2>1
<1> HIDE DEF a
<1> QED
  BY <1>3, <1>4, <1>5, <1>6

LEMMA RetrocederHace ==
  ASSUME Tipos, NEW b \in Navegadores, Retroceder(b)
  PROVE  PantallaHace
<1> DEFINE a == asistente[b]
           p == a.paso - 1
           y == [a EXCEPT !.paso = p]
<1>1. asistente[b] # Nulo /\ a \in Asistente /\ a.paso \in 2..5 /\ Cambia(b, y)
  BY AsistenteAbierto DEF Retroceder, En
<1>2. p \in 1..4 /\ (p >= 4 => a.paso >= 4)
  BY <1>1
<1>3. y \in Asistente /\ y.paso = p /\ y.eleccion = a.eleccion
  <2>1. p \in 1..5
    BY <1>2
  <2> QED
    BY <1>1, <2>1, OtroAsistente
<1> HIDE DEF p, y
<1>4. AsistenteCorrecto(y)
  BY <1>2, <1>3 DEF AsistenteCorrecto
<1> QED
  BY <1>1, <1>2, <1>3, <1>4, CambiaPantalla

LEMMA PantallaCorrecta ==
  ASSUME Tipos, NEW b \in Navegadores, Pantalla(b)
  PROVE  PantallaHace
<1>1. app[b] \in App
  BY DEF Tipos, PantallasCorrectas
<1>2. CASE \E v \in Destinos : Navegar(b, v)
  <2>1. PICK v \in Destinos : Navegar(b, v)
    BY <1>2
  <2>2. v \in Vistas \ {"reserva-exitosa"}
    BY <2>1, DatosReservaAssumption DEF Navegar, HayEnlace, Vistas
  <2>3. /\ Muestra(b, v, app[b], llamada)
        /\ UNCHANGED <<guardadas, creada, confirmaciones, agenda>>
    BY <2>1 DEF Navegar
  <2> QED
    BY <1>1, <2>2, <2>3, MuestraPantalla
<1>3. CASE CerrarSesion(b)
  <2> DEFINE a == [app[b] EXCEPT !.usuario = Nulo]
  <2>1. a \in App /\ a.citas = app[b].citas
    BY <1>1 DEF App, Opcional
  <2>2. /\ Muestra(b, "inicio", a, llamada)
        /\ UNCHANGED <<guardadas, creada, confirmaciones, agenda>>
    BY <1>3 DEF CerrarSesion
  <2> HIDE DEF a
  <2>3. "inicio" \in Vistas \ {"reserva-exitosa"}
    BY DEF Vistas
  <2> QED
    BY <2>1, <2>2, <2>3, MuestraPantalla
<1> QED
  BY <1>2, <1>3, IniciarSesionHace, ElegirHace, AvanzarHace, RetrocederHace DEF Pantalla

-----------------------------------------------------------------------------
\* The confirmation of browser b starts the call of slot u, and every other call
\* of b has met another booking.
ConfirmarHace(b, u) ==
  LET m == llamada'[u] IN
  /\ Tipos' /\ UNCHANGED <<guardadas, app, creada, agenda>>
  /\ confirmaciones' = confirmaciones + 1
  /\ Fase(u, "libre") /\ atencion[u].estadio = "libre"
  /\ m.fase = "temporizador" /\ m.nav = b /\ m.tipo = "agendar"
  /\ m.limpia => Solo(b)
  /\ asistente[b] # Nulo /\ asistente[b].paso = 5
  /\ m.cita.eleccion = asistente[b].eleccion
  /\ SoloLlamada(u) /\ AsistentesSiguen
  /\ \A v \in Peticiones : v # u /\ llamada'[v].nav = b => ~llamada'[v].limpia

LEMMA ConfirmarCorrecta ==
  ASSUME Tipos, NEW b \in Navegadores, NEW u \in Peticiones, Confirmar(b, u)
  PROVE  ConfirmarHace(b, u)
<1> DEFINE a == asistente[b]
           usr == app[b].usuario
           n == [eleccion |-> a.eleccion, correo |-> a.correo,
                 clienteId |-> IF usr = Nulo THEN 1 ELSE usr.id]
           m == [fase |-> "temporizador", nav |-> b, tipo |-> "agendar", cita |-> n,
                 id |-> 0, estado |-> Nulo, viva |-> TRUE, limpia |-> Solo(b)]
           y == [a EXCEPT !.procesando = TRUE]
<1>1. /\ asistente[b] # Nulo /\ a.paso = 5 /\ SlotLibre(u)
      /\ confirmaciones < MaxConfirmaciones /\ confirmaciones' = confirmaciones + 1
      /\ asistente' = [asistente EXCEPT ![b] = y]
      /\ llamada' = [v \in Peticiones |-> IF v = u THEN m
           ELSE IF llamada[v].nav = b THEN [llamada[v] EXCEPT !.limpia = FALSE] ELSE llamada[v]]
      /\ UNCHANGED <<guardadas, app, creada, agenda>>
  BY DEF Confirmar, En
<1>2. /\ AgendaCorrecta /\ PantallasCorrectas /\ LlamadasCorrectas
      /\ a \in Asistente /\ a.correo \in Correos
  BY <1>1, AsistenteAbierto DEF Tipos
<1>3. y \in Asistente /\ y.paso = 5 /\ y.eleccion = a.eleccion /\ y.correo = a.correo
  BY <1>1, <1>2, OtroAsistente
<1>4. n \in NuevaCita /\ n.eleccion = a.eleccion
  <2>1. a.eleccion \in Eleccion
    BY <1>2, DatosReservaAssumption DEF Asistente
  <2>2. (IF usr = Nulo THEN 1 ELSE usr.id) \in Opcional(Ids)
    BY <1>2, UsuarioConId, DatosReservaAssumption DEF Opcional, Usuario
  <2> QED
    BY <1>2, <2>1, <2>2 DEF NuevaCita
<1> HIDE DEF n, y, a, usr
<1>5. /\ LlamadaCorrecta(m) /\ m.fase = "temporizador" /\ m.nav = b /\ m.tipo = "agendar"
      /\ m.cita = n /\ (m.limpia => Solo(b))
  <2>1. Solo(b) \in BOOLEAN
    BY DEF Solo
  <2>2. b \in Opcional(Navegadores) /\ n \in Opcional(NuevaCita) /\ Nulo \in Opcional(Estados)
        /\ "agendar" \in Opcional({"agendar", "cambiarEstado"})
    BY <1>4 DEF Opcional
  <2>3. m \in Llamada
    BY <2>1, <2>2 DEF Llamada, FasesLlamada
  <2> QED
    BY <1>4, <2>3 DEF LlamadaCorrecta
<1> HIDE DEF m
<1>6. /\ asistente'[b] = y /\ \A c \in Navegadores : c # b => asistente'[c] = asistente[c]
      /\ asistente' \in [Navegadores -> Opcional(Asistente)]
      /\ y # Nulo /\ AsistenteCorrecto(y)
  BY <1>1, <1>2, <1>3, ReservaAssumption DEF PantallasCorrectas, Opcional, AsistenteCorrecto
<1>7. PantallasCorrectas' /\ AsistentesSiguen
  BY <1>1, <1>2, <1>3, <1>6 DEF PantallasCorrectas, AsistentesSiguen, a
<1>8. ASSUME NEW v \in Peticiones, v # u
      PROVE  /\ LlamadaCorrecta(llamada'[v]) /\ Sigue(llamada[v], llamada'[v])
             /\ llamada'[v].nav = b => ~llamada'[v].limpia
  <2>1. LlamadaCorrecta(llamada[v]) /\ llamada[v] \in Llamada
    BY <1>2 DEF LlamadasCorrectas
  <2>2. CASE llamada[v].nav = b
    BY <1>1, <1>8, <2>1, <2>2, SinLimpiaCorrecta
  <2>3. CASE llamada[v].nav # b
    BY <1>1, <1>8, <2>1, <2>3, SigueIgual
  <2> QED
    BY <2>2, <2>3
<1>9. llamada'[u] = m
  BY <1>1
<1>10. LlamadasCorrectas'
  <2>1. \A v \in Peticiones : LlamadaCorrecta(llamada'[v])
    BY <1>5, <1>8, <1>9
  <2>2. llamada' \in [Peticiones -> Llamada]
    <3>1. \A v \in Peticiones : llamada'[v] \in Llamada
      BY <2>1 DEF LlamadaCorrecta
    <3>2. llamada' = [v \in Peticiones |-> llamada'[v]]
      BY <1>1
    <3> QED
      BY <3>1, <3>2
  <2>3. ASSUME NEW v \in Peticiones, llamada'[v].viva
        PROVE  asistente'[llamada'[v].nav] # Nulo
    <3>1. CASE v = u
      BY <1>5, <1>6, <1>9, <3>1
    <3>2. CASE v # u
      <4>1. /\ llamada[v].viva /\ llamada'[v].nav = llamada[v].nav
            /\ llamada[v].nav \in Navegadores /\ asistente[llamada[v].nav] # Nulo
        BY <1>2, <1>8, <2>3, <3>2 DEF Sigue, LlamadasCorrectas, LlamadaCorrecta
      <4> QED
        BY <1>6, <4>1
    <3> QED
      BY <3>1, <3>2
  <2>4. creada' \in [Peticiones -> Opcional(Nat)] /\ confirmaciones' \in 0..MaxConfirmaciones
    BY <1>1, <1>2, DatosReservaAssumption DEF LlamadasCorrectas
  <2> QED
    BY <2>1, <2>2, <2>3, <2>4 DEF LlamadasCorrectas
<1>11. AgendaCorrecta'
  BY <1>1, <1>2, AgendaQuieta
<1> QED
  BY <1>1, <1>4, <1>5, <1>7, <1>8, <1>9, <1>10, <1>11
     DEF ConfirmarHace, Tipos, SlotLibre, SoloLlamada, a

-----------------------------------------------------------------------------
LEMMA SolicitudDeReservaTipo ==
  ASSUME NEW n \in NuevaCita
  PROVE  SolicitudDeReserva(n) \in Solicitud /\ SolicitudDeReserva(n).op = "crear"
<1>1. OUno(n.clienteId) \in Opcional(Ids)
  BY DatosReservaAssumption DEF OUno, NuevaCita, Opcional
<1>2. /\ n.eleccion.barberoId \in Opcional(Ids) /\ n.eleccion.servicioId \in Opcional(Ids)
      /\ n.eleccion.fecha \in Fechas /\ n.eleccion.hora \in Horas /\ Nulo \in Opcional(Ids)
  BY DEF NuevaCita, Eleccion, Opcional
<1> QED
  BY <1>1, <1>2, DatosReservaAssumption
     DEF SolicitudDeReserva, Solicitud, Operaciones, Roles

\* The end of the timer sends the booking, which may be lost, or refuses its date.
VenceHace(u) ==
  LET l == llamada[u]
      m == llamada'[u] IN
  /\ Tipos' /\ UNCHANGED <<guardadas, creada, confirmaciones, citas>>
  /\ l.fase = "temporizador" /\ SoloLlamada(u) /\ SoloFicha(u)
  /\ AsistentesSiguen /\ ExitosSiguen /\ CitasDeAppSiguen
  /\ \/ m = Ninguna /\ UNCHANGED agenda
     \/ /\ m.fase = "enviada" /\ m.nav = l.nav /\ m.tipo = l.tipo /\ m.cita = l.cita
        /\ m.limpia = l.limpia
        /\ Envia(u, SolicitudDeReserva(l.cita))
        /\ atencion' = atencion \/ /\ atencion'[u].estadio = "pendiente"
                                   /\ atencion'[u].sol = SolicitudDeReserva(l.cita)

LEMMA VenceFuera ==
  ASSUME Tipos, NEW u \in Peticiones, VenceTemporizador(u),
         llamada[u].cita.eleccion.fecha = FechaFuera
  PROVE  VenceHace(u)
<1> DEFINE b == llamada[u].nav
           l == [llamada EXCEPT ![u] = Ninguna]
<1>1. /\ llamada[u].fase = "temporizador" /\ Muestra(b, "reserva-fallida", app[b], l)
      /\ UNCHANGED agenda /\ UNCHANGED <<guardadas, creada, confirmaciones>>
  BY DEF VenceTemporizador, Fase
<1>2. AgendaCorrecta /\ PantallasCorrectas /\ LlamadasCorrectas
  BY DEF Tipos
<1>3. b \in Navegadores /\ app[b] \in App /\ "reserva-fallida" \in Vistas
  BY <1>1, <1>2 DEF LlamadasCorrectas, LlamadaCorrecta, PantallasCorrectas, Vistas
<1>4. /\ l \in [Peticiones -> Llamada] /\ l[u] = Ninguna
      /\ \A v \in Peticiones : /\ LlamadaCorrecta(l[v])
                               /\ l[v].viva => asistente[l[v].nav] # Nulo
                               /\ v # u => l[v] = llamada[v]
  BY <1>2, NingunaCorrecta DEF LlamadasCorrectas, LlamadaCorrecta
<1> HIDE DEF b, l
<1>5. /\ app' \in [Navegadores -> App] /\ app'[b].citas = app[b].citas
      /\ app'[b].vista = "reserva-fallida"
      /\ \A c \in Navegadores : c # b => app'[c] = app[c] /\ asistente'[c] = asistente[c]
      /\ asistente' \in [Navegadores -> Opcional(Asistente)] /\ asistente'[b] = Nulo
      /\ \A c \in Navegadores : AsistenteCorrecto(asistente'[c])
      /\ \A c \in Navegadores : asistente'[c] # Nulo <=> app'[c].vista = "agendamiento"
      /\ llamada' \in [Peticiones -> Llamada]
      /\ \A v \in Peticiones : /\ LlamadaCorrecta(llamada'[v])
                               /\ Sigue(l[v], llamada'[v])
                               /\ llamada'[v].viva => asistente'[llamada'[v].nav] # Nulo
  BY <1>1, <1>2, <1>3, <1>4, MuestraTipos
<1>6. PantallasCorrectas' /\ LlamadasCorrectas' /\ AgendaCorrecta'
  BY <1>1, <1>2, <1>5, AgendaQuieta DEF PantallasCorrectas, LlamadasCorrectas
<1>7. llamada'[u] = Ninguna /\ SoloLlamada(u)
  BY <1>4, <1>5, NingunaCorrecta DEF LlamadaCorrecta, Sigue, SoloLlamada
<1>8. AsistentesSiguen /\ ExitosSiguen /\ CitasDeAppSiguen /\ SoloFicha(u)
  BY <1>1, <1>5 DEF AsistentesSiguen, ExitosSiguen, CitasDeAppSiguen, SoloFicha, agenda
<1> QED
  BY <1>1, <1>6, <1>7, <1>8 DEF VenceHace, Tipos, agenda

LEMMA VenceEnvia ==
  ASSUME Tipos, NEW u \in Peticiones, VenceTemporizador(u),
         llamada[u].cita.eleccion.fecha # FechaFuera
  PROVE  VenceHace(u)
<1> DEFINE l == llamada[u]
           b == l.nav
           s == SolicitudDeReserva(l.cita)
           a == asistente[b]
           y == [a EXCEPT !.procesando = FALSE]
           m == [l EXCEPT !.fase = "enviada"]
<1>1. /\ l.fase = "temporizador" /\ app' = app /\ Envia(u, s)
      /\ asistente' = IF l.viva THEN [asistente EXCEPT ![b] = y] ELSE asistente
      /\ llamada' = [llamada EXCEPT ![u] = m]
      /\ UNCHANGED <<guardadas, creada, confirmaciones>>
  BY DEF VenceTemporizador, Fase
<1>2. /\ AgendaCorrecta /\ PantallasCorrectas /\ LlamadasCorrectas
      /\ LlamadaCorrecta(l) /\ (l.viva => asistente[l.nav] # Nulo)
  BY DEF Tipos, LlamadasCorrectas
<1>3. b \in Navegadores /\ l.tipo = "agendar" /\ l.cita \in NuevaCita
  BY <1>1, <1>2 DEF LlamadaCorrecta
<1>4. s \in Solicitud
  BY <1>3, SolicitudDeReservaTipo
<1>5. /\ LlamadaCorrecta(m) /\ m.fase = "enviada" /\ m.nav = l.nav /\ m.tipo = l.tipo
      /\ m.cita = l.cita /\ m.viva = l.viva /\ m.limpia = l.limpia
  BY <1>1, <1>2, OtraFase
<1>6. l.viva => /\ a # Nulo /\ y \in Asistente /\ y # Nulo /\ AsistenteCorrecto(y)
                /\ y.paso = a.paso /\ y.eleccion = a.eleccion
  <2> SUFFICES ASSUME l.viva
               PROVE  /\ a # Nulo /\ y \in Asistente /\ y # Nulo /\ AsistenteCorrecto(y)
                      /\ y.paso = a.paso /\ y.eleccion = a.eleccion
    OBVIOUS
  <2>1. a # Nulo /\ a \in Asistente /\ (a.paso = 5 => a.correo \in Correos)
    BY <1>2, <1>3, AsistenteAbierto
  <2>2. y \in Asistente /\ y.paso = a.paso /\ y.eleccion = a.eleccion /\ y.correo = a.correo
    BY <2>1, OtroAsistente
  <2> HIDE DEF a, y
  <2> QED
    BY <2>1, <2>2, ReservaAssumption DEF AsistenteCorrecto
<1> HIDE DEF y, s, m
<1>7. /\ AgendaCorrecta' /\ SoloFicha(u) /\ citas' = citas
      /\ atencion' = atencion \/ (atencion'[u].estadio = "pendiente" /\ atencion'[u].sol = s)
  BY <1>1, <1>2, <1>4, EnviaFicha
<1>8. /\ llamada' \in [Peticiones -> Llamada] /\ llamada'[u] = m /\ SoloLlamada(u)
      /\ \A v \in Peticiones : /\ LlamadaCorrecta(llamada'[v])
                               /\ llamada'[v].viva => asistente[llamada'[v].nav] # Nulo
  BY <1>1, <1>2, <1>5, LlamadaCambia
<1>9. /\ asistente' \in [Navegadores -> Opcional(Asistente)]
      /\ \A c \in Navegadores :
           /\ AsistenteCorrecto(asistente'[c]) /\ (asistente'[c] # Nulo <=> asistente[c] # Nulo)
           /\ asistente[c] # Nulo => /\ asistente'[c].paso = asistente[c].paso
                                     /\ asistente'[c].eleccion = asistente[c].eleccion
  <2>1. CASE l.viva
    <3>1. /\ asistente' \in [Navegadores -> Opcional(Asistente)] /\ asistente'[b] = y
          /\ \A c \in Navegadores : c # b => asistente'[c] = asistente[c]
      BY <1>1, <1>2, <1>3, <1>6, <2>1 DEF PantallasCorrectas, Opcional
    <3> QED
      BY <1>2, <1>6, <2>1, <3>1 DEF PantallasCorrectas
  <2>2. CASE ~l.viva
    BY <1>1, <1>2, <2>2 DEF PantallasCorrectas
  <2> QED
    BY <2>1, <2>2
<1>10. PantallasCorrectas'
  BY <1>1, <1>2, <1>9 DEF PantallasCorrectas
<1>11. LlamadasCorrectas'
  <2>1. \A v \in Peticiones : llamada'[v].viva => asistente'[llamada'[v].nav] # Nulo
    BY <1>8, <1>9 DEF LlamadaCorrecta
  <2> QED
    BY <1>1, <1>2, <1>8, <2>1 DEF LlamadasCorrectas
<1>12. AsistentesSiguen /\ ExitosSiguen /\ CitasDeAppSiguen
  BY <1>1, <1>9 DEF AsistentesSiguen, ExitosSiguen, CitasDeAppSiguen
<1> QED
  BY <1>1, <1>5, <1>7, <1>8, <1>10, <1>11, <1>12 DEF VenceHace, Tipos, s

LEMMA VenceCorrecta ==
  ASSUME Tipos, NEW u \in Peticiones, VenceTemporizador(u)
  PROVE  VenceHace(u)
BY VenceFuera, VenceEnvia

-----------------------------------------------------------------------------
\* A change of state is sent, and may be lost.
PideHace(u) ==
  LET m == llamada'[u] IN
  /\ Tipos' /\ UNCHANGED <<guardadas, app, asistente, creada, confirmaciones, citas>>
  /\ Fase(u, "libre") /\ atencion[u].estadio = "libre"
  /\ m.fase = "enviada" /\ m.tipo = "cambiarEstado" /\ SoloLlamada(u) /\ SoloFicha(u)
  /\ \E s \in Solicitud : /\ s.op = "cambiarEstado" /\ Envia(u, s)
                          /\ \/ atencion' = atencion
                             \/ atencion'[u].estadio = "pendiente" /\ atencion'[u].sol = s

LEMMA PideCorrecta ==
  ASSUME Tipos, NEW b \in Navegadores, NEW u \in Peticiones, Pide(b, u)
  PROVE  PideHace(u)
<1>1. PICK c \in app[b].citas, e \in Estados, rol \in Roles, id \in Opcional(Ids) :
        PideEstado(b, c.id, e, rol, id, u)
  BY DEF Pide
<1> DEFINE f == CHOOSE x \in Fechas : TRUE
           h == CHOOSE x \in Horas : TRUE
           s == [op |-> "cambiarEstado", rol |-> rol, usuarioId |-> id, id |-> c.id,
                 clave |-> Nulo, barberoId |-> Nulo, servicioId |-> Nulo,
                 fecha |-> f, hora |-> h, estado |-> e, conId |-> FALSE]
           m == [fase |-> "enviada", nav |-> b, tipo |-> "cambiarEstado", cita |-> Nulo,
                 id |-> c.id, estado |-> e, viva |-> FALSE, limpia |-> FALSE]
<1>2. /\ SlotLibre(u) /\ llamada' = [llamada EXCEPT ![u] = m] /\ Envia(u, s)
      /\ UNCHANGED <<guardadas, app, asistente, creada, confirmaciones>>
  BY <1>1 DEF PideEstado
<1>3. AgendaCorrecta /\ PantallasCorrectas /\ LlamadasCorrectas
  BY DEF Tipos
<1>4. c.id \in Nat /\ f \in Fechas /\ h \in Horas
  <2>1. c \in CitaLocal
    BY <1>3 DEF PantallasCorrectas, App
  <2>2. c.reserva.eleccion.fecha \in Fechas /\ c.reserva.eleccion.hora \in Horas
    BY <2>1 DEF CitaLocal, NuevaCita, Eleccion
  <2> QED
    BY <2>1, <2>2 DEF CitaLocal
<1> HIDE DEF f, h
<1>5. s \in Solicitud /\ s.op = "cambiarEstado"
  BY <1>4 DEF Solicitud, Operaciones, Opcional
<1>6. LlamadaCorrecta(m) /\ m.fase = "enviada" /\ m.tipo = "cambiarEstado" /\ ~m.viva
  BY <1>4 DEF LlamadaCorrecta, Llamada, FasesLlamada, Opcional
<1> HIDE DEF s, m
<1>7. /\ AgendaCorrecta' /\ SoloFicha(u) /\ citas' = citas
      /\ atencion' = atencion \/ (atencion'[u].estadio = "pendiente" /\ atencion'[u].sol = s)
  BY <1>2, <1>3, <1>5, EnviaFicha
<1>8. /\ llamada' \in [Peticiones -> Llamada] /\ llamada'[u] = m /\ SoloLlamada(u)
      /\ \A v \in Peticiones : /\ LlamadaCorrecta(llamada'[v])
                               /\ llamada'[v].viva => asistente[llamada'[v].nav] # Nulo
  BY <1>2, <1>3, <1>6, LlamadaCambia
<1>9. PantallasCorrectas' /\ LlamadasCorrectas'
  BY <1>2, <1>3, <1>8 DEF PantallasCorrectas, LlamadasCorrectas
<1> QED
  BY <1>2, <1>5, <1>6, <1>7, <1>8, <1>9 DEF PideHace, Tipos, SlotLibre

\* The headers of a 200 arrive.
AlCuerpoHace(u) ==
  LET l == llamada[u]
      m == llamada'[u] IN
  /\ Tipos' /\ UNCHANGED <<guardadas, app, asistente, creada, confirmaciones, agenda>>
  /\ l.fase = "enviada" /\ atencion[u].estadio = "contestada" /\ SoloLlamada(u)
  /\ m.fase = "cuerpo" /\ m.nav = l.nav /\ m.tipo = l.tipo /\ l.tipo = "agendar"
  /\ m.cita = l.cita /\ m.limpia = l.limpia

LEMMA AlCuerpoCorrecta ==
  ASSUME Tipos, NEW u \in Peticiones, AlCuerpo(u)
  PROVE  AlCuerpoHace(u)
<1> DEFINE l == llamada[u]
           m == [l EXCEPT !.fase = "cuerpo"]
<1>1. /\ l.fase = "enviada" /\ atencion[u].resp = "200" /\ l.tipo = "agendar"
      /\ llamada' = [llamada EXCEPT ![u] = m]
      /\ UNCHANGED <<guardadas, app, asistente, creada, confirmaciones, agenda>>
  BY DEF AlCuerpo, Fase
<1>2. /\ AgendaCorrecta /\ PantallasCorrectas /\ LlamadasCorrectas
      /\ LlamadaCorrecta(l) /\ (l.viva => asistente[l.nav] # Nulo)
  BY DEF Tipos, LlamadasCorrectas
<1>3. atencion[u].estadio = "contestada"
  BY <1>1, <1>2, CitasAssumption DEF AgendaCorrecta, FichaCorrecta, Respuestas
<1>4. /\ LlamadaCorrecta(m) /\ m.fase = "cuerpo" /\ m.nav = l.nav /\ m.tipo = l.tipo
      /\ m.cita = l.cita /\ m.viva = l.viva /\ m.limpia = l.limpia
  BY <1>1, <1>2, OtraFase
<1> HIDE DEF m
<1>5. /\ llamada' \in [Peticiones -> Llamada] /\ llamada'[u] = m /\ SoloLlamada(u)
      /\ \A v \in Peticiones : /\ LlamadaCorrecta(llamada'[v])
                               /\ llamada'[v].viva => asistente[llamada'[v].nav] # Nulo
  BY <1>1, <1>2, <1>4, LlamadaCambia
<1>6. PantallasCorrectas' /\ LlamadasCorrectas' /\ AgendaCorrecta'
  BY <1>1, <1>2, <1>5, AgendaQuieta DEF PantallasCorrectas, LlamadasCorrectas
<1> QED
  BY <1>1, <1>3, <1>4, <1>5, <1>6 DEF AlCuerpoHace, Tipos

-----------------------------------------------------------------------------
\* The end of a call, for its browser: its slot is free if the service's is.
Acabada(u, m) ==
  IF atencion[u].estadio \in {"libre", "contestada"} THEN m = Ninguna
  ELSE m.fase = "abandonada"

FinComun(u) ==
  /\ Tipos' /\ UNCHANGED <<citas, confirmaciones>>
  /\ EnVuelo(u) /\ llamada[u].nav \in Navegadores /\ Acabada(u, llamada'[u])
  /\ SoloLlamada(u) /\ SoloFicha(u)
  /\ Suelta(u)
  /\ \A v \in Peticiones : v # u => creada'[v] = creada[v]
  /\ IF atencion[u].estadio = "contestada"
     THEN atencion'[u].estadio = "libre" /\ creada'[u] = Nulo
     ELSE atencion' = atencion /\ creada' = creada

\* The slots of the calls once that of u is over.
LEMMA SinCorrecta ==
  ASSUME LlamadasCorrectas, NEW u \in Peticiones, EnVuelo(u)
  PROVE  /\ Sin(u) \in [Peticiones -> Llamada] /\ Acabada(u, Sin(u)[u])
         /\ \A v \in Peticiones : /\ LlamadaCorrecta(Sin(u)[v])
                                  /\ Sin(u)[v].viva => asistente[Sin(u)[v].nav] # Nulo
                                  /\ v # u => Sin(u)[v] = llamada[v]
<1> DEFINE l == llamada[u]
           x == [l EXCEPT !.fase = "abandonada"]
           m == IF atencion[u].estadio \in {"libre", "contestada"} THEN Ninguna ELSE x
<1>1. l.fase # "libre" /\ LlamadaCorrecta(l) /\ (l.viva => asistente[l.nav] # Nulo)
  BY DEF EnVuelo, LlamadasCorrectas
<1>2. LlamadaCorrecta(x) /\ x.fase = "abandonada" /\ x.nav = l.nav /\ x.viva = l.viva
  BY <1>1, OtraFase
<1> HIDE DEF x
<1>3. LlamadaCorrecta(m) /\ (m.viva => asistente[m.nav] # Nulo) /\ Acabada(u, m)
  BY <1>1, <1>2, NingunaCorrecta DEF Acabada
<1>4. Sin(u) = [llamada EXCEPT ![u] = m]
  BY DEF Sin, x
<1> HIDE DEF m
<1> QED
  BY <1>3, <1>4 DEF LlamadasCorrectas, LlamadaCorrecta

\* The new record of a booking.
FinReservaHace(u) ==
  LET l == llamada[u]
      b == l.nav IN
  /\ FinComun(u)
  /\ l.tipo = "agendar" /\ asistente'[b] = Nulo
  /\ \A c \in Navegadores : c # b => app'[c] = app[c] /\ asistente'[c] = asistente[c]
  /\ app'[b].vista = "reserva-exitosa"
  /\ \E x \in CitaLocal :
       /\ guardadas' = [guardadas EXCEPT ![b] = guardadas[b] \cup {x}]
       /\ app'[b].citas = guardadas[b] \cup {x} /\ app'[b].confirmada = x
       /\ \A c \in guardadas[b] : c.id < x.id
       /\ x.reserva = l.cita /\ x.limpia = l.limpia
       /\ x.respaldo # Nulo => l.fase = "cuerpo" /\ x.respaldo = creada[u]

LEMMA FinReservaRegistra ==
  ASSUME Tipos, NEW u \in Peticiones, EnVuelo(u), NEW r \in {Nulo, creada[u]},
         r # Nulo => llamada[u].fase = "cuerpo", TerminarReserva(u, r)
  PROVE  FinReservaHace(u)
<1> DEFINE l == llamada[u]
           b == l.nav
           lista == guardadas[b]
           i == IdNuevo(lista)
           reg(k) == [id |-> i, reserva |-> l.cita, estado |-> "CONFIRMADA",
                      codigo |-> k, respaldo |-> r, limpia |-> l.limpia,
                      reactivada |-> FALSE]
<1>1. PICK k \in Codigos :
        /\ guardadas' = [guardadas EXCEPT ![b] = lista \cup {reg(k)}]
        /\ Muestra(b, "reserva-exitosa",
                   [app[b] EXCEPT !.citas = lista \cup {reg(k)}, !.confirmada = reg(k)], Sin(u))
  BY DEF TerminarReserva
<1>2. l.tipo = "agendar" /\ Suelta(u) /\ UNCHANGED confirmaciones
  BY DEF TerminarReserva
<1>3. AgendaCorrecta /\ PantallasCorrectas /\ LlamadasCorrectas /\ LlamadaCorrecta(l)
  BY DEF Tipos, LlamadasCorrectas
<1>4. b \in Navegadores /\ l.cita \in NuevaCita /\ l.limpia \in BOOLEAN
  BY <1>2, <1>3 DEF EnVuelo, LlamadaCorrecta, Llamada
<1>5. lista \in SUBSET CitaLocal /\ IsFiniteSet(lista) /\ app[b] \in App
  BY <1>3, <1>4 DEF PantallasCorrectas
<1>6. i \in Nat \ {0} /\ \A c \in lista : c.id < i
  <2>1. \A c \in lista : c.id \in Nat
    BY <1>5 DEF CitaLocal
  <2> HIDE DEF lista
  <2> QED
    BY <1>5, <2>1, IdNuevoDeFinita
<1>7. r \in Opcional(Nat)
  BY <1>3 DEF LlamadasCorrectas, Opcional
<1> DEFINE x == reg(k)
<1> HIDE DEF i, lista
<1>8. /\ x \in CitaLocal /\ x.id = i /\ x.reserva = l.cita /\ x.limpia = l.limpia
      /\ x.respaldo = r
  BY <1>4, <1>6, <1>7, DatosReservaAssumption DEF CitaLocal
<1> HIDE DEF x, reg
<1> DEFINE a == [app[b] EXCEPT !.citas = lista \cup {x}, !.confirmada = x]
<1>9. a \in App /\ a.citas = lista \cup {x} /\ a.confirmada = x
  <2>1. lista \cup {x} \in SUBSET CitaLocal /\ x \in Opcional(CitaLocal)
    BY <1>5, <1>8 DEF Opcional
  <2> QED
    BY <1>5, <2>1 DEF App
<1>10. Muestra(b, "reserva-exitosa", a, Sin(u))
  BY <1>1 DEF x
<1> HIDE DEF a
<1>11. /\ Sin(u) \in [Peticiones -> Llamada] /\ Acabada(u, Sin(u)[u])
       /\ \A v \in Peticiones : /\ LlamadaCorrecta(Sin(u)[v])
                                /\ Sin(u)[v].viva => asistente[Sin(u)[v].nav] # Nulo
                                /\ v # u => Sin(u)[v] = llamada[v]
  BY <1>3, SinCorrecta
<1>12. "reserva-exitosa" \in Vistas
  BY DEF Vistas
<1>13. /\ app' \in [Navegadores -> App]
       /\ app'[b].vista = "reserva-exitosa" /\ app'[b].citas = a.citas
       /\ app'[b].confirmada = a.confirmada
       /\ \A c \in Navegadores : c # b => app'[c] = app[c] /\ asistente'[c] = asistente[c]
       /\ asistente' \in [Navegadores -> Opcional(Asistente)] /\ asistente'[b] = Nulo
       /\ \A c \in Navegadores : AsistenteCorrecto(asistente'[c])
       /\ \A c \in Navegadores : asistente'[c] # Nulo <=> app'[c].vista = "agendamiento"
       /\ llamada' \in [Peticiones -> Llamada]
       /\ \A v \in Peticiones : /\ LlamadaCorrecta(llamada'[v])
                                /\ Sigue(Sin(u)[v], llamada'[v])
                                /\ llamada'[v].viva => asistente'[llamada'[v].nav] # Nulo
  <2> DEFINE s == Sin(u)
  <2> HIDE DEF s, b
  <2>1. /\ s \in [Peticiones -> Llamada] /\ \A v \in Peticiones : LlamadaCorrecta(s[v])
        /\ \A v \in Peticiones : s[v].viva => asistente[s[v].nav] # Nulo
        /\ Muestra(b, "reserva-exitosa", a, s)
    BY <1>10, <1>11 DEF s
  <2>2. \A v \in Peticiones : Sigue(s[v], llamada'[v])
    BY <1>3, <1>4, <1>9, <1>12, <2>1, MuestraTipos
  <2> QED
    BY <1>3, <1>4, <1>9, <1>12, <2>1, <2>2, MuestraTipos DEF s
<1>14. Acabada(u, llamada'[u]) /\ SoloLlamada(u)
  <2>1. Acabada(u, llamada'[u])
    BY <1>11, <1>13, NingunaCorrecta DEF Acabada, Sigue, LlamadaCorrecta
  <2> QED
    BY <1>11, <1>13, <2>1 DEF SoloLlamada
<1>15. /\ AgendaCorrecta' /\ SoloFicha(u) /\ citas' = citas
       /\ creada' \in [Peticiones -> Opcional(Nat)]
       /\ \A v \in Peticiones : v # u => creada'[v] = creada[v]
       /\ IF atencion[u].estadio = "contestada"
          THEN atencion'[u].estadio = "libre" /\ creada'[u] = Nulo
          ELSE atencion' = atencion /\ creada' = creada
  BY <1>2, <1>3, SueltaFicha DEF LlamadasCorrectas
<1>16. /\ guardadas' = [guardadas EXCEPT ![b] = lista \cup {x}]
       /\ guardadas' \in [Navegadores -> SUBSET CitaLocal]
       /\ \A c \in Navegadores : IsFiniteSet(guardadas'[c])
  <2>1. guardadas' = [guardadas EXCEPT ![b] = lista \cup {x}]
    BY <1>1 DEF x
  <2>2. IsFiniteSet(lista \cup {x})
    BY <1>5, FS_AddElement
  <2> QED
    BY <1>3, <1>4, <1>5, <1>8, <2>1, <2>2 DEF PantallasCorrectas
<1>17. PantallasCorrectas' /\ LlamadasCorrectas'
  BY <1>2, <1>3, <1>13, <1>15, <1>16 DEF PantallasCorrectas, LlamadasCorrectas
<1>18. FinComun(u)
  BY <1>2, <1>4, <1>14, <1>15, <1>17 DEF FinComun, Tipos
<1> QED
  BY <1>2, <1>6, <1>8, <1>9, <1>13, <1>16, <1>18 DEF FinReservaHace, lista

LEMMA FinReservaCorrecta ==
  ASSUME Tipos, NEW u \in Peticiones, FinReserva(u)
  PROVE  FinReservaHace(u)
<1>1. EnVuelo(u)
  BY DEF FinReserva, Fase, EnVuelo
<1>2. PICK r \in {Nulo, creada[u]} :
        TerminarReserva(u, r) /\ (r # Nulo => llamada[u].fase = "cuerpo")
  BY DEF FinReserva, Fase
<1> QED
  BY <1>1, <1>2, FinReservaRegistra

-----------------------------------------------------------------------------
\* What a change of state makes of one cita.
Cambiada(c, i, e) ==
  IF c.id = i
  THEN [c EXCEPT !.estado = e,
                 !.reactivada = @ \/ (c.estado = "CANCELADA" /\ e # "CANCELADA")]
  ELSE c

LEMMA CambiadaCorrecta ==
  ASSUME NEW c \in CitaLocal, NEW i, NEW e \in Estados
  PROVE  LET d == Cambiada(c, i, e) IN
         /\ d \in CitaLocal
         /\ d.id = c.id /\ d.reserva = c.reserva /\ d.codigo = c.codigo
         /\ d.respaldo = c.respaldo /\ d.limpia = c.limpia
         /\ c.reactivada => d.reactivada
         /\ d.estado # "CANCELADA" => c.estado # "CANCELADA" \/ d.reactivada
BY DEF Cambiada, CitaLocal

\* A list keeps its size at most, whatever part of it one looks at.
LEMMA ConEstadoFinita ==
  ASSUME NEW S, IsFiniteSet(S), NEW i, NEW e
  PROVE  /\ ConEstado(S, i, e) = {Cambiada(c, i, e) : c \in S}
         /\ IsFiniteSet(ConEstado(S, i, e))
         /\ Cardinality(ConEstado(S, i, e)) <= Cardinality(S)
<1> DEFINE T == ConEstado(S, i, e)
           f == [c \in S |-> Cambiada(c, i, e)]
<1>1. T = {Cambiada(c, i, e) : c \in S}
  BY DEF ConEstado, Cambiada
<1>2. f \in Surjection(S, T)
  BY <1>1 DEF Surjection
<1> HIDE DEF f, T
<1>3. IsFiniteSet(T) /\ Cardinality(T) <= Cardinality(S)
  BY <1>2, FS_Surjection
<1> QED
  BY <1>1, <1>3 DEF T

FinCambioHace(u) ==
  LET l == llamada[u]
      b == l.nav IN
  /\ FinComun(u)
  /\ l.tipo = "cambiarEstado" /\ asistente' = asistente
  /\ \A c \in Navegadores :
       app'[c].vista = app[c].vista /\ app'[c].confirmada = app[c].confirmada
  /\ \A c \in Navegadores : c # b => app'[c] = app[c] /\ guardadas'[c] = guardadas[c]
  /\ l.estado \in Estados
  /\ guardadas'[b] = ConEstado(guardadas[b], l.id, l.estado)
  /\ guardadas'[b] = {Cambiada(c, l.id, l.estado) : c \in guardadas[b]}
  /\ app'[b].citas = guardadas'[b]

LEMMA FinCambioCorrecta ==
  ASSUME Tipos, NEW u \in Peticiones, FinCambio(u)
  PROVE  FinCambioHace(u)
<1> DEFINE l == llamada[u]
           b == l.nav
           lista == guardadas[b]
           ahora == ConEstado(lista, l.id, l.estado)
<1>1. /\ l.fase = "enviada" /\ l.tipo = "cambiarEstado" /\ EnVuelo(u)
      /\ guardadas' = [guardadas EXCEPT ![b] = ahora]
      /\ app' = [app EXCEPT ![b].citas = ahora]
      /\ llamada' = Sin(u) /\ Suelta(u)
      /\ UNCHANGED <<asistente, confirmaciones>>
  BY DEF FinCambio, TerminarCambio, Fase, EnVuelo
<1>2. AgendaCorrecta /\ PantallasCorrectas /\ LlamadasCorrectas /\ LlamadaCorrecta(l)
  BY DEF Tipos, LlamadasCorrectas
<1>3. b \in Navegadores /\ l.estado \in Estados
  BY <1>1, <1>2 DEF LlamadaCorrecta
<1>4. lista \in SUBSET CitaLocal /\ IsFiniteSet(lista) /\ app[b] \in App
  BY <1>2, <1>3 DEF PantallasCorrectas
<1>5. /\ ahora = {Cambiada(c, l.id, l.estado) : c \in lista} /\ IsFiniteSet(ahora)
      /\ ahora \in SUBSET CitaLocal
  <2>1. ahora = {Cambiada(c, l.id, l.estado) : c \in lista} /\ IsFiniteSet(ahora)
    BY <1>4, ConEstadoFinita
  <2>2. \A c \in lista : Cambiada(c, l.id, l.estado) \in CitaLocal
    BY <1>3, <1>4, CambiadaCorrecta
  <2> QED
    BY <2>1, <2>2
<1> HIDE DEF ahora
<1> DEFINE a == [app[b] EXCEPT !.citas = ahora]
<1>6. /\ a \in App /\ a.citas = ahora /\ a.vista = app[b].vista
      /\ a.confirmada = app[b].confirmada /\ app' = [app EXCEPT ![b] = a]
  BY <1>1, <1>4, <1>5 DEF App
<1> HIDE DEF a
<1>7. /\ guardadas' \in [Navegadores -> SUBSET CitaLocal] /\ guardadas'[b] = ahora
      /\ \A c \in Navegadores : c # b => app'[c] = app[c] /\ guardadas'[c] = guardadas[c]
      /\ app' \in [Navegadores -> App] /\ app'[b] = a
  BY <1>1, <1>2, <1>3, <1>5, <1>6 DEF PantallasCorrectas
<1>8. PantallasCorrectas'
  <2>1. ASSUME NEW c \in Navegadores
        PROVE  /\ IsFiniteSet(guardadas'[c])
               /\ app'[c].vista = app[c].vista /\ asistente'[c] = asistente[c]
    BY <1>1, <1>2, <1>5, <1>6, <1>7 DEF PantallasCorrectas
  <2> QED
    BY <1>1, <1>2, <1>7, <2>1 DEF PantallasCorrectas
<1>9. /\ llamada' \in [Peticiones -> Llamada] /\ Acabada(u, llamada'[u])
      /\ \A v \in Peticiones : /\ LlamadaCorrecta(llamada'[v])
                               /\ llamada'[v].viva => asistente[llamada'[v].nav] # Nulo
                               /\ v # u => llamada'[v] = llamada[v]
  BY <1>1, <1>2, SinCorrecta
<1>10. SoloLlamada(u)
  BY <1>2, <1>9, SigueIgual DEF SoloLlamada, LlamadasCorrectas
<1>11. /\ AgendaCorrecta' /\ SoloFicha(u) /\ citas' = citas
       /\ creada' \in [Peticiones -> Opcional(Nat)]
       /\ \A v \in Peticiones : v # u => creada'[v] = creada[v]
       /\ IF atencion[u].estadio = "contestada"
          THEN atencion'[u].estadio = "libre" /\ creada'[u] = Nulo
          ELSE atencion' = atencion /\ creada' = creada
  BY <1>1, <1>2, SueltaFicha DEF LlamadasCorrectas
<1>12. LlamadasCorrectas'
  BY <1>1, <1>2, <1>9, <1>11 DEF LlamadasCorrectas
<1>13. FinComun(u)
  BY <1>1, <1>3, <1>8, <1>9, <1>10, <1>11, <1>12 DEF FinComun, Tipos
<1> QED
  BY <1>1, <1>3, <1>5, <1>6, <1>7, <1>13 DEF FinCambioHace, ahora

-----------------------------------------------------------------------------
\* A reset: the browser has its first citas again, and no wizard.
RestablecerHace(b) ==
  /\ Tipos' /\ UNCHANGED <<asistente, creada, confirmaciones, agenda>>
  /\ asistente[b] = Nulo
  /\ \A c \in Navegadores : c # b => app'[c] = app[c] /\ guardadas'[c] = guardadas[c]
  /\ app'[b].vista = "admin"
  /\ guardadas'[b] = CitasIniciales /\ app'[b].citas = CitasIniciales
  /\ \A v \in Peticiones : /\ Sigue(llamada[v], llamada'[v])
                           /\ llamada'[v].nav = b => ~llamada'[v].limpia

LEMMA RestablecerCorrecta ==
  ASSUME Tipos, NEW b \in Navegadores, RestablecerDatos(b)
  PROVE  RestablecerHace(b)
<1> DEFINE a == [app[b] EXCEPT !.citas = CitasIniciales]
<1>1. /\ app[b].vista = "admin"
      /\ guardadas' = [guardadas EXCEPT ![b] = CitasIniciales]
      /\ app' = [app EXCEPT ![b] = a]
      /\ llamada' = [u \in Peticiones |-> IF llamada[u].nav = b
                       THEN [llamada[u] EXCEPT !.limpia = FALSE] ELSE llamada[u]]
      /\ UNCHANGED <<asistente, creada, confirmaciones, agenda>>
  BY DEF RestablecerDatos
<1>2. AgendaCorrecta /\ PantallasCorrectas /\ LlamadasCorrectas
  BY DEF Tipos
<1>3. /\ a \in App /\ a.vista = "admin" /\ a.citas = CitasIniciales
      /\ CitasIniciales \in SUBSET CitaLocal /\ IsFiniteSet(CitasIniciales)
  BY <1>1, <1>2, DatosReservaAssumption, CitasInicialesAssumption DEF PantallasCorrectas, App
<1>4. asistente[b] = Nulo
  BY <1>1, <1>2 DEF PantallasCorrectas
<1> HIDE DEF a
<1>5. /\ guardadas' \in [Navegadores -> SUBSET CitaLocal] /\ guardadas'[b] = CitasIniciales
      /\ \A c \in Navegadores : c # b => app'[c] = app[c] /\ guardadas'[c] = guardadas[c]
      /\ app' \in [Navegadores -> App] /\ app'[b] = a
  BY <1>1, <1>2, <1>3 DEF PantallasCorrectas
<1>6. PantallasCorrectas'
  <2>1. ASSUME NEW c \in Navegadores
        PROVE  /\ IsFiniteSet(guardadas'[c])
               /\ app'[c].vista = app[c].vista /\ asistente'[c] = asistente[c]
    BY <1>1, <1>2, <1>3, <1>5 DEF PantallasCorrectas
  <2> QED
    BY <1>1, <1>2, <1>5, <2>1 DEF PantallasCorrectas
<1>7. ASSUME NEW v \in Peticiones
      PROVE  /\ LlamadaCorrecta(llamada'[v]) /\ Sigue(llamada[v], llamada'[v])
             /\ llamada'[v].nav = b => ~llamada'[v].limpia
  <2>1. LlamadaCorrecta(llamada[v]) /\ llamada[v] \in Llamada
    BY <1>2 DEF LlamadasCorrectas
  <2>2. CASE llamada[v].nav = b
    BY <1>1, <2>1, <2>2, SinLimpiaCorrecta
  <2>3. CASE llamada[v].nav # b
    BY <1>1, <2>1, <2>3, SigueIgual
  <2> QED
    BY <2>2, <2>3
<1>8. LlamadasCorrectas'
  <2>1. llamada' = [v \in Peticiones |-> llamada'[v]]
    BY <1>1
  <2>2. llamada' \in [Peticiones -> Llamada]
    <3>1. \A v \in Peticiones : llamada'[v] \in Llamada
      BY <1>7 DEF LlamadaCorrecta
    <3> QED
      BY <2>1, <3>1
  <2>3. \A v \in Peticiones : llamada'[v].viva => asistente'[llamada'[v].nav] # Nulo
    BY <1>1, <1>2, <1>7 DEF LlamadasCorrectas, Sigue
  <2> QED
    BY <1>1, <1>2, <1>7, <2>2, <2>3 DEF LlamadasCorrectas
<1> QED
  BY <1>1, <1>2, <1>3, <1>4, <1>5, <1>6, <1>7, <1>8, AgendaQuieta DEF RestablecerHace, Tipos

\* The service goes on with one request, or is killed with all of them; the browsers
\* see nothing of it.
Servicio ==
  Tipos' /\ CitasQuedan /\ UNCHANGED <<guardadas, app, asistente, llamada, confirmaciones>>

AtenderHace(u) ==
  /\ Servicio /\ SoloFicha(u)
  /\ \A v \in Peticiones : v # u => creada'[v] = creada[v]
  /\ atencion'[u].sol = atencion[u].sol
  /\ \/ /\ atencion[u].estadio = "pendiente" /\ atencion[u].sol.op = "crear"
        /\ atencion'[u].estadio = "hecha"
        /\ Len(citas) \in Nat /\ Len(citas') = Len(citas) + 1
        /\ creada'[u] = Len(citas') /\ creada'[u] \notin DOMAIN citas
        /\ creada'[u] \in DOMAIN citas' /\ citas'[creada'[u]] = CitaDe(atencion[u].sol)
     \/ /\ atencion[u].estadio = "pendiente" /\ atencion[u].sol.op = "cambiarEstado"
        /\ atencion'[u].estadio = "hecha" /\ creada' = creada /\ Len(citas') = Len(citas)
     \/ /\ atencion[u].estadio \in {"pendiente", "leida", "hecha"}
        /\ atencion'[u].estadio = "contestada" /\ creada' = creada /\ citas' = citas

\* Screens and calls that stay are right, whatever becomes of creada.
LEMMA ServicioTipos ==
  ASSUME Tipos, AgendaCorrecta', CitasQuedan,
         UNCHANGED <<guardadas, app, asistente, llamada, confirmaciones>>,
         creada' \in [Peticiones -> Opcional(Nat)]
  PROVE  Servicio
<1>1. PantallasCorrectas'
  BY DEF Tipos, PantallasCorrectas
<1>2. LlamadasCorrectas'
  BY DEF Tipos, LlamadasCorrectas
<1> QED
  BY <1>1, <1>2 DEF Servicio, Tipos

LEMMA CitasIguales ==
  ASSUME citas' = citas
  PROVE  CitasQuedan
BY DEF CitasQuedan, MismaReserva

LEMMA AtenderCorrecta ==
  ASSUME Tipos, NEW u \in Peticiones, Atender(u)
  PROVE  AtenderHace(u)
<1>1. UNCHANGED <<guardadas, app, asistente, llamada, confirmaciones>>
  BY DEF Atender
<1>2. AgendaCorrecta /\ creada \in [Peticiones -> Opcional(Nat)]
  BY DEF Tipos, LlamadasCorrectas
<1>3. CASE Agenda!Agendar(u) /\ creada' = [creada EXCEPT ![u] = Len(citas')]
  <2>1. /\ AgendaCorrecta' /\ SoloFicha(u) /\ CitasQuedan
        /\ atencion[u].estadio = "pendiente" /\ atencion[u].sol.op = "crear"
        /\ atencion'[u].estadio = "hecha" /\ atencion'[u].sol = atencion[u].sol
        /\ Len(citas) \in Nat /\ Len(citas') = Len(citas) + 1
        /\ Len(citas') \in DOMAIN citas' /\ Len(citas') \notin DOMAIN citas
        /\ citas'[Len(citas')] = CitaDe(atencion[u].sol)
    BY <1>2, <1>3, AgendarFicha
  <2>2. /\ creada' \in [Peticiones -> Opcional(Nat)] /\ creada'[u] = Len(citas')
        /\ \A v \in Peticiones : v # u => creada'[v] = creada[v]
    BY <1>2, <1>3, <2>1 DEF Opcional
  <2>3. Servicio
    BY <1>1, <2>1, <2>2, ServicioTipos
  <2> QED
    BY <2>1, <2>2, <2>3 DEF AtenderHace
<1>4. CASE Agenda!CambiarEstado(u) /\ creada' = creada
  <2>1. /\ AgendaCorrecta' /\ SoloFicha(u) /\ CitasQuedan /\ Len(citas') = Len(citas)
        /\ atencion[u].estadio = "pendiente" /\ atencion[u].sol.op = "cambiarEstado"
        /\ atencion'[u].estadio = "hecha" /\ atencion'[u].sol = atencion[u].sol
    BY <1>2, <1>4, CambiarFicha
  <2>2. Servicio
    BY <1>1, <1>2, <1>4, <2>1, ServicioTipos
  <2> QED
    BY <1>4, <2>1, <2>2 DEF AtenderHace
<1>5. CASE (\E r \in {"200"} \cup Errores : Agenda!Contestar(u, r)) /\ creada' = creada
  <2>1. /\ AgendaCorrecta' /\ SoloFicha(u) /\ citas' = citas
        /\ atencion[u].estadio \in {"pendiente", "leida", "hecha"}
        /\ atencion'[u].estadio = "contestada" /\ atencion'[u].sol = atencion[u].sol
    BY <1>2, <1>5, ContestarFicha
  <2>2. Servicio
    BY <1>1, <1>2, <1>5, <2>1, CitasIguales, ServicioTipos
  <2> QED
    BY <1>5, <2>1, <2>2 DEF AtenderHace
<1> QED
  BY <1>3, <1>4, <1>5 DEF Atender

CaidaHace ==
  /\ Servicio /\ UNCHANGED <<creada, citas>>
  /\ \A u \in Peticiones :
       \/ atencion'[u] = atencion[u]
       \/ /\ atencion[u].estadio \in {"pendiente", "leida", "hecha"}
          /\ atencion'[u].estadio = "contestada" /\ atencion'[u].sol = atencion[u].sol

LEMMA CaidaCorrecta ==
  ASSUME Tipos, Caida
  PROVE  CaidaHace
<1>1. UNCHANGED <<guardadas, app, asistente, llamada, creada, confirmaciones>> /\ Agenda!Perder
  BY DEF Caida
<1>2. AgendaCorrecta /\ creada \in [Peticiones -> Opcional(Nat)]
  BY DEF Tipos, LlamadasCorrectas
<1>3. AgendaCorrecta' /\ citas' = citas
  BY <1>1, <1>2, PerderFicha
<1>4. Servicio
  BY <1>1, <1>2, <1>3, CitasIguales, ServicioTipos
<1> QED
  BY <1>1, <1>2, <1>3, <1>4, PerderFicha DEF CaidaHace

\* An answer that nobody waits for.
DescartarHace(u) ==
  /\ Tipos' /\ UNCHANGED <<guardadas, app, asistente, confirmaciones, citas>>
  /\ Fase(u, "abandonada") /\ llamada'[u] = Ninguna /\ SoloLlamada(u) /\ SoloFicha(u)
  /\ Suelta(u)
  /\ atencion[u].estadio = "contestada" /\ atencion'[u].estadio = "libre"
  /\ creada'[u] = Nulo /\ \A v \in Peticiones : v # u => creada'[v] = creada[v]

LEMMA DescartarCorrecta ==
  ASSUME Tipos, NEW u \in Peticiones, Descartar(u)
  PROVE  DescartarHace(u)
<1>1. /\ Fase(u, "abandonada") /\ atencion[u].estadio = "contestada"
      /\ llamada' = [llamada EXCEPT ![u] = Ninguna] /\ Suelta(u)
      /\ UNCHANGED <<guardadas, app, asistente, confirmaciones>>
  BY DEF Descartar
<1>2. AgendaCorrecta /\ PantallasCorrectas /\ LlamadasCorrectas
  BY DEF Tipos
<1>3. /\ llamada' \in [Peticiones -> Llamada] /\ llamada'[u] = Ninguna /\ SoloLlamada(u)
      /\ \A v \in Peticiones : /\ LlamadaCorrecta(llamada'[v])
                               /\ llamada'[v].viva => asistente[llamada'[v].nav] # Nulo
  BY <1>1, <1>2, NingunaCorrecta, LlamadaCambia
<1>4. /\ AgendaCorrecta' /\ SoloFicha(u) /\ citas' = citas
      /\ creada' \in [Peticiones -> Opcional(Nat)]
      /\ \A v \in Peticiones : v # u => creada'[v] = creada[v]
      /\ atencion'[u].estadio = "libre" /\ creada'[u] = Nulo
  BY <1>1, <1>2, SueltaFicha DEF LlamadasCorrectas
<1>5. PantallasCorrectas' /\ LlamadasCorrectas'
  BY <1>1, <1>2, <1>3, <1>4 DEF PantallasCorrectas, LlamadasCorrectas
<1> QED
  BY <1>1, <1>3, <1>4, <1>5 DEF DescartarHace, Tipos

-----------------------------------------------------------------------------
\* What a step does, of whatever action.
Efecto ==
  \/ PantallaHace \/ CaidaHace
  \/ \E b \in Navegadores : RestablecerHace(b)
  \/ \E b \in Navegadores, u \in Peticiones : ConfirmarHace(b, u)
  \/ \E u \in Peticiones : \/ PideHace(u) \/ VenceHace(u) \/ AlCuerpoHace(u)
                           \/ FinReservaHace(u) \/ FinCambioHace(u)
                           \/ AtenderHace(u) \/ DescartarHace(u)

LEMMA NextEfecto ==
  ASSUME Tipos, Next
  PROVE  Efecto
<1>1. Paso
  BY NextPaso DEF Tipos
<1>2. ASSUME NEW b \in Navegadores, Pantalla(b)
      PROVE  Efecto
  BY <1>2, PantallaCorrecta DEF Efecto
<1>3. ASSUME NEW b \in Navegadores, RestablecerDatos(b)
      PROVE  Efecto
  BY <1>3, RestablecerCorrecta DEF Efecto
<1>4. ASSUME NEW b \in Navegadores, NEW u \in Peticiones, Confirmar(b, u)
      PROVE  Efecto
  BY <1>4, ConfirmarCorrecta DEF Efecto
<1>5. ASSUME NEW b \in Navegadores, NEW u \in Peticiones, Pide(b, u)
      PROVE  Efecto
  BY <1>5, PideCorrecta DEF Efecto
<1>6. ASSUME NEW u \in Peticiones, VenceTemporizador(u)
      PROVE  Efecto
  BY <1>6, VenceCorrecta DEF Efecto
<1>7. ASSUME NEW u \in Peticiones, AlCuerpo(u)
      PROVE  Efecto
  BY <1>7, AlCuerpoCorrecta DEF Efecto
<1>8. ASSUME NEW u \in Peticiones, FinReserva(u)
      PROVE  Efecto
  BY <1>8, FinReservaCorrecta DEF Efecto
<1>9. ASSUME NEW u \in Peticiones, FinCambio(u)
      PROVE  Efecto
  BY <1>9, FinCambioCorrecta DEF Efecto
<1>10. ASSUME NEW u \in Peticiones, Atender(u)
       PROVE  Efecto
  BY <1>10, AtenderCorrecta DEF Efecto
<1>11. ASSUME NEW u \in Peticiones, Descartar(u)
       PROVE  Efecto
  BY <1>11, DescartarCorrecta DEF Efecto
<1>12. Caida => Efecto
  BY CaidaCorrecta DEF Efecto
<1> QED
  BY <1>1, <1>2, <1>3, <1>4, <1>5, <1>6, <1>7, <1>8, <1>9, <1>10, <1>11, <1>12 DEF Paso

LEMMA InitTipos == Init => Tipos
<1> SUFFICES ASSUME Init
             PROVE  Tipos
  OBVIOUS
<1>1. AgendaCorrecta
  <2>1. FichaCorrecta(Agenda!Libre)
    BY DEF FichaCorrecta, Ficha, Agenda!Libre, Opcional
  <2>2. citas = <<>> /\ atencion = [u \in Peticiones |-> Agenda!Libre]
    BY DEF Init, Agenda!Init
  <2>3. citas \in Seq(Cita)
    BY <2>2
  <2> QED
    BY <2>1, <2>2, <2>3 DEF AgendaCorrecta, FichaCorrecta
<1>2. PantallasCorrectas
  <2> DEFINE a == [vista |-> "inicio", usuario |-> Nulo, citas |-> CitasIniciales,
                   confirmada |-> Nulo]
  <2>1. a \in App /\ a.vista = "inicio"
    BY DatosReservaAssumption DEF App, Vistas, Opcional
  <2>2. /\ guardadas = [b \in Navegadores |-> CitasIniciales]
        /\ app = [b \in Navegadores |-> a]
        /\ asistente = [b \in Navegadores |-> Nulo]
    BY DEF Init
  <2> HIDE DEF a
  <2>3. AsistenteCorrecto(Nulo) /\ Nulo \in Opcional(Asistente)
    BY DEF AsistenteCorrecto, Opcional
  <2> QED
    BY <2>1, <2>2, <2>3, DatosReservaAssumption, CitasInicialesAssumption
       DEF PantallasCorrectas
<1>3. LlamadasCorrectas
  <2>1. /\ llamada = [u \in Peticiones |-> Ninguna] /\ creada = [u \in Peticiones |-> Nulo]
        /\ confirmaciones = 0
    BY DEF Init
  <2>2. Ninguna \in Llamada /\ Nulo \in Opcional(Nat)
    BY NingunaCorrecta DEF LlamadaCorrecta, Opcional
  <2> QED
    BY <2>1, <2>2, NingunaCorrecta, DatosReservaAssumption DEF LlamadasCorrectas
<1> QED
  BY <1>1, <1>2, <1>3 DEF Tipos

\* Each effect leaves the types right, and so does a step of nobody.
LEMMA NextTipos ==
  ASSUME Tipos, [Next]_vars
  PROVE  Tipos'
<1>1. CASE Next
  <2>1. Efecto
    BY <1>1, NextEfecto
  <2> QED
    BY <2>1 DEF Efecto, PantallaHace, CaidaHace, RestablecerHace, ConfirmarHace, PideHace,
       VenceHace, AlCuerpoHace, FinReservaHace, FinCambioHace, FinComun, AtenderHace,
       DescartarHace, Servicio
<1>2. CASE UNCHANGED vars
  BY <1>2 DEF vars, agenda, Tipos, AgendaCorrecta, PantallasCorrectas, LlamadasCorrectas
<1> QED
  BY <1>1, <1>2

\* The state stays well typed: what timers and calls captured is still what the end of
\* a call needs, and a screen has a wizard just when it shows one.
THEOREM TiposReserva == Spec => []TypeOK
<1>1. Tipos => TypeOK
  BY DEF Tipos, PantallasCorrectas, LlamadasCorrectas, TypeOK
<1> QED
  BY <1>1, InitTipos, NextTipos, PTL DEF Spec

-----------------------------------------------------------------------------
(***************************************************************************)
(* What the user is shown.                                                 *)
(***************************************************************************)
\* What the end of a booking and of a change of state make of the collections.
LEMMA FinReservaGuarda ==
  ASSUME Tipos, NEW u \in Peticiones, FinReservaHace(u)
  PROVE  LET b == llamada[u].nav IN
         /\ b \in Navegadores
         /\ \A c \in Navegadores : c # b => guardadas'[c] = guardadas[c] /\ app'[c] = app[c]
         /\ app'[b].citas = guardadas'[b] /\ app'[b].confirmada \in guardadas'[b]
         /\ guardadas'[b] = guardadas[b] \cup {app'[b].confirmada}
<1>1. PICK x \in CitaLocal :
        LET b == llamada[u].nav IN
        /\ guardadas' = [guardadas EXCEPT ![b] = guardadas[b] \cup {x}]
        /\ app'[b].citas = guardadas[b] \cup {x} /\ app'[b].confirmada = x
  BY DEF FinReservaHace
<1>2. llamada[u].nav \in Navegadores
  BY DEF FinReservaHace, FinComun
<1> QED
  BY <1>1, <1>2 DEF FinReservaHace, Tipos, PantallasCorrectas

LEMMA CopiaInductiva ==
  ASSUME Tipos, CopiaAlDia, [Next]_vars
  PROVE  CopiaAlDia'
<1> SUFFICES ASSUME NEW b \in Navegadores
             PROVE  app'[b].citas = guardadas'[b]
  BY DEF CopiaAlDia
<1>1. app[b].citas = guardadas[b]
  BY DEF CopiaAlDia
<1>2. CASE UNCHANGED vars
  BY <1>1, <1>2 DEF vars
<1>3. CASE Efecto
  <2>1. CASE PantallaHace
    BY <1>1, <2>1 DEF PantallaHace, CitasDeAppSiguen
  <2>2. CASE CaidaHace \/ \E u \in Peticiones : AtenderHace(u)
    BY <1>1, <2>2 DEF CaidaHace, AtenderHace, Servicio
  <2>3. CASE \E c \in Navegadores : RestablecerHace(c)
    BY <1>1, <2>3 DEF RestablecerHace
  <2>4. CASE \E c \in Navegadores, u \in Peticiones : ConfirmarHace(c, u)
    BY <1>1, <2>4 DEF ConfirmarHace
  <2>5. CASE \E u \in Peticiones : PideHace(u) \/ AlCuerpoHace(u) \/ DescartarHace(u)
    BY <1>1, <2>5 DEF PideHace, AlCuerpoHace, DescartarHace
  <2>6. CASE \E u \in Peticiones : VenceHace(u)
    BY <1>1, <2>6 DEF VenceHace, CitasDeAppSiguen
  <2>7. CASE \E u \in Peticiones : FinReservaHace(u)
    BY <1>1, <2>7, FinReservaGuarda
  <2>8. CASE \E u \in Peticiones : FinCambioHace(u)
    BY <1>1, <2>8 DEF FinCambioHace
  <2> QED
    BY <1>3, <2>1, <2>2, <2>3, <2>4, <2>5, <2>6, <2>7, <2>8 DEF Efecto
<1> QED
  BY <1>2, <1>3, NextEfecto

LEMMA InitCopia == Init => CopiaAlDia
BY DEF Init, CopiaAlDia

\* The citas on the screen are those that the browser keeps, in whatever order calls
\* end and whatever page the user is on by then.
THEOREM CopiaSiempreAlDia == Spec => []CopiaAlDia
BY InitTipos, NextTipos, InitCopia, CopiaInductiva, PTL DEF Spec

LEMMA ExitoInductivo ==
  ASSUME Tipos, ExitoVerdadero, [Next]_vars
  PROVE  ExitoVerdadero'
<1> DEFINE Cierto(lista, x) ==
      \E c \in lista : c.id = x.id /\ c.codigo = x.codigo /\ c.reserva = x.reserva
<1> SUFFICES ASSUME NEW b \in Navegadores, app'[b].vista = "reserva-exitosa"
             PROVE  Cierto(guardadas'[b], app'[b].confirmada)
  BY DEF ExitoVerdadero
<1>1. app[b].vista = "reserva-exitosa" => Cierto(guardadas[b], app[b].confirmada)
  BY DEF ExitoVerdadero
<1> HIDE DEF Cierto
<1>2. CASE UNCHANGED vars
  BY <1>1, <1>2 DEF vars
<1>3. CASE Efecto
  <2>1. CASE PantallaHace
    BY <1>1, <2>1 DEF PantallaHace, ExitosSiguen
  <2>2. CASE CaidaHace \/ \E u \in Peticiones : AtenderHace(u)
    BY <1>1, <2>2 DEF CaidaHace, AtenderHace, Servicio
  <2>3. CASE \E c \in Navegadores : RestablecerHace(c)
    BY <1>1, <2>3 DEF RestablecerHace
  <2>4. CASE \E c \in Navegadores, u \in Peticiones : ConfirmarHace(c, u)
    BY <1>1, <2>4 DEF ConfirmarHace
  <2>5. CASE \E u \in Peticiones : PideHace(u) \/ AlCuerpoHace(u) \/ DescartarHace(u)
    BY <1>1, <2>5 DEF PideHace, AlCuerpoHace, DescartarHace
  <2>6. CASE \E u \in Peticiones : VenceHace(u)
    BY <1>1, <2>6 DEF VenceHace, ExitosSiguen
  <2>7. ASSUME NEW u \in Peticiones, FinReservaHace(u)
        PROVE  Cierto(guardadas'[b], app'[b].confirmada)
    BY <1>1, <2>7, FinReservaGuarda DEF Cierto
  <2>8. ASSUME NEW u \in Peticiones, FinCambioHace(u)
        PROVE  Cierto(guardadas'[b], app'[b].confirmada)
    <3> DEFINE l == llamada[u]
    <3>1. CASE b # l.nav
      BY <1>1, <2>8, <3>1 DEF FinCambioHace
    <3>2. CASE b = l.nav
      <4>1. /\ app'[b].vista = app[b].vista /\ app'[b].confirmada = app[b].confirmada
            /\ guardadas'[b] = {Cambiada(c, l.id, l.estado) : c \in guardadas[b]}
            /\ l.estado \in Estados
        BY <2>8, <3>2 DEF FinCambioHace
      <4>2. PICK c \in guardadas[b] : /\ c.id = app[b].confirmada.id
                                      /\ c.codigo = app[b].confirmada.codigo
                                      /\ c.reserva = app[b].confirmada.reserva
        BY <1>1, <4>1 DEF Cierto
      <4>3. c \in CitaLocal
        BY DEF Tipos, PantallasCorrectas
      <4> HIDE DEF l
      <4> DEFINE d == Cambiada(c, l.id, l.estado)
      <4>4. d \in guardadas'[b] /\ d.id = c.id /\ d.codigo = c.codigo /\ d.reserva = c.reserva
        BY <4>1, <4>3, CambiadaCorrecta
      <4> HIDE DEF d
      <4> QED
        BY <4>1, <4>2, <4>4 DEF Cierto
    <3> QED
      BY <3>1, <3>2
  <2> QED
    BY <1>3, <2>1, <2>2, <2>3, <2>4, <2>5, <2>6, <2>7, <2>8 DEF Efecto
<1> QED
  BY <1>2, <1>3, NextEfecto

LEMMA InitExito == Init => ExitoVerdadero
BY DEF Init, ExitoVerdadero

\* A screen that says that a cita is booked tells the truth, although the call that
\* brought the user there may be of a wizard long gone, and other calls end meanwhile.
THEOREM ExitosVerdaderos == Spec => []ExitoVerdadero
BY InitTipos, NextTipos, InitExito, ExitoInductivo, PTL DEF Spec

-----------------------------------------------------------------------------
(***************************************************************************)
(* Two bookings of one hour.                                               *)
(***************************************************************************)
EnCurso(u) == EnVuelo(u) /\ llamada[u].tipo = "agendar"

\* A booking in flight was, with what it captured.
Prosigue(u) ==
  EnCurso(u)' => /\ EnCurso(u)
                 /\ llamada'[u].nav = llamada[u].nav /\ llamada'[u].cita = llamada[u].cita
                 /\ llamada'[u].limpia => llamada[u].limpia

LEMMA SiguenProsiguen ==
  ASSUME NEW u, Sigue(llamada[u], llamada'[u])
  PROVE  Prosigue(u)
BY DEF Sigue, Prosigue, EnCurso, EnVuelo

LEMMA AcabadaProsigue ==
  ASSUME NEW u, Acabada(u, llamada'[u])
  PROVE  ~EnCurso(u)'
BY DEF Acabada, EnCurso, EnVuelo, Ninguna

\* Only a confirmation puts a booking in flight.
LEMMA ReservasProsiguen ==
  ASSUME Tipos, Efecto
  PROVE  \/ \E b \in Navegadores, u \in Peticiones : ConfirmarHace(b, u)
         \/ \A u \in Peticiones : Prosigue(u)
<1> DEFINE Todas == \A u \in Peticiones : Prosigue(u)
<1>1. CASE PantallaHace
  BY <1>1, SiguenProsiguen DEF PantallaHace
<1>2. CASE CaidaHace \/ \E u \in Peticiones : AtenderHace(u)
  BY <1>2 DEF CaidaHace, AtenderHace, Servicio, Prosigue, EnCurso, EnVuelo
<1>3. CASE \E c \in Navegadores : RestablecerHace(c)
  BY <1>3, SiguenProsiguen DEF RestablecerHace
<1>4. ASSUME NEW u \in Peticiones,
             PideHace(u) \/ VenceHace(u) \/ AlCuerpoHace(u) \/ DescartarHace(u)
      PROVE  Todas
  <2>1. SoloLlamada(u)
    BY <1>4 DEF PideHace, VenceHace, AlCuerpoHace, DescartarHace
  <2>2. Prosigue(u)
    <3>1. CASE PideHace(u)
      BY <3>1 DEF PideHace, Prosigue, EnCurso
    <3>2. CASE VenceHace(u) \/ AlCuerpoHace(u)
      BY <3>2 DEF VenceHace, AlCuerpoHace, Prosigue, EnCurso, EnVuelo, Ninguna
    <3>3. CASE DescartarHace(u)
      BY <3>3 DEF DescartarHace, Prosigue, EnCurso, EnVuelo, Ninguna
    <3> QED
      BY <1>4, <3>1, <3>2, <3>3
  <2> QED
    BY <2>1, <2>2, SiguenProsiguen DEF SoloLlamada
<1>5. ASSUME NEW u \in Peticiones, FinReservaHace(u) \/ FinCambioHace(u)
      PROVE  Todas
  <2>1. SoloLlamada(u) /\ Acabada(u, llamada'[u])
    BY <1>5 DEF FinReservaHace, FinCambioHace, FinComun
  <2>2. Prosigue(u)
    BY <2>1, AcabadaProsigue DEF Prosigue
  <2> QED
    BY <2>1, <2>2, SiguenProsiguen DEF SoloLlamada
<1> QED
  BY <1>1, <1>2, <1>3, <1>4, <1>5 DEF Efecto

\* A wizard never gets past step 3 with an hour that is taken.
LEMMA AsistentesSoloAvanzan ==
  ASSUME Tipos, Efecto
  PROVE  AsistentesAvanzan
<1>1. AsistentesSiguen => AsistentesAvanzan
  BY DEF AsistentesSiguen, AsistentesAvanzan
<1>2. asistente' = asistente => AsistentesSiguen
  BY DEF AsistentesSiguen
<1>3. ASSUME NEW u \in Peticiones, FinReservaHace(u)
      PROVE  AsistentesSiguen
  BY <1>3 DEF FinReservaHace, AsistentesSiguen
<1> QED
  BY <1>1, <1>2, <1>3 DEF Efecto, PantallaHace, CaidaHace, RestablecerHace, ConfirmarHace,
     PideHace, VenceHace, AlCuerpoHace, FinCambioHace, AtenderHace, DescartarHace, Servicio

\* How a collection may change.
LEMMA ColeccionesCambian ==
  ASSUME Tipos, Efecto, NEW b \in Navegadores, guardadas'[b] # guardadas[b]
  PROVE  \/ RestablecerHace(b)
         \/ \E u \in Peticiones : FinReservaHace(u) /\ llamada[u].nav = b
         \/ \E u \in Peticiones : FinCambioHace(u) /\ llamada[u].nav = b
<1>1. ASSUME NEW c \in Navegadores, RestablecerHace(c)
      PROVE  c = b
  BY <1>1 DEF RestablecerHace
<1>2. ASSUME NEW u \in Peticiones, FinReservaHace(u)
      PROVE  llamada[u].nav = b
  BY <1>2, FinReservaGuarda
<1>3. ASSUME NEW u \in Peticiones, FinCambioHace(u)
      PROVE  llamada[u].nav = b
  BY <1>3 DEF FinCambioHace
<1> QED
  BY <1>1, <1>2, <1>3 DEF Efecto, PantallaHace, CaidaHace, ConfirmarHace,
     PideHace, VenceHace, AlCuerpoHace, AtenderHace, DescartarHace, Servicio

\* Nothing of a list takes hour e, but for what was brought back from CANCELADA.
Disponible(lista, e) == \A d \in lista : MismoHueco(d, e) => d.reactivada

\* ChoqueSoloConCruce, with what keeps it: an hour that the wizard has checked stays
\* free until the booking ends, if the browser has no other booking in flight.
SinChoques ==
  \A b \in Navegadores : \A c, d \in guardadas[b] :
    c.id > d.id /\ MismoHueco(d, c.reserva.eleccion) => ~c.limpia \/ d.reactivada

HorasRevisadas ==
  \A b \in Navegadores : asistente[b] # Nulo /\ asistente[b].paso >= 4 =>
    Disponible(guardadas[b], asistente[b].eleccion)

ReservasLimpias ==
  \A u \in Peticiones : EnCurso(u) /\ llamada[u].limpia =>
    /\ Disponible(guardadas[llamada[u].nav], llamada[u].cita.eleccion)
    /\ \A v \in Peticiones : v # u /\ EnCurso(v) => llamada[v].nav # llamada[u].nav

SinCruces == SinChoques /\ HorasRevisadas /\ ReservasLimpias

LEMMA CambiadaSinHueco ==
  ASSUME NEW c \in CitaLocal, NEW i, NEW e \in Estados, NEW x,
         LET d == Cambiada(c, i, e) IN MismoHueco(d, x) /\ ~d.reactivada
  PROVE  MismoHueco(c, x) /\ ~c.reactivada
BY CambiadaCorrecta DEF MismoHueco

\* Only the end of a booking takes an hour; one of another browser leaves it free.
LEMMA SigueDisponible ==
  ASSUME Tipos, Efecto, NEW b \in Navegadores, NEW e, Disponible(guardadas[b], e),
         ~RestablecerHace(b),
         \A u \in Peticiones : FinReservaHace(u) => llamada[u].nav # b
  PROVE  Disponible(guardadas'[b], e)
<1>1. CASE guardadas'[b] = guardadas[b]
  BY <1>1
<1>2. CASE guardadas'[b] # guardadas[b]
  <2>1. PICK u \in Peticiones : FinCambioHace(u) /\ llamada[u].nav = b
    BY <1>2, ColeccionesCambian
  <2>2. /\ guardadas'[b] = {Cambiada(c, llamada[u].id, llamada[u].estado) : c \in guardadas[b]}
        /\ llamada[u].estado \in Estados /\ guardadas[b] \in SUBSET CitaLocal
    BY <2>1 DEF FinCambioHace, Tipos, PantallasCorrectas
  <2> QED
    BY <2>2, CambiadaSinHueco DEF Disponible
<1> QED
  BY <1>1, <1>2

LEMMA SinChoquesSigue ==
  ASSUME Tipos, SinCruces, Efecto
  PROVE  SinChoques'
<1> SUFFICES ASSUME NEW b \in Navegadores, NEW c \in guardadas'[b], NEW d \in guardadas'[b],
                    c.id > d.id, MismoHueco(d, c.reserva.eleccion), c.limpia
             PROVE  d.reactivada
  BY DEF SinChoques
<1>1. \A x, y \in guardadas[b] :
        x.id > y.id /\ MismoHueco(y, x.reserva.eleccion) => ~x.limpia \/ y.reactivada
  BY DEF SinCruces, SinChoques
<1>2. guardadas[b] \in SUBSET CitaLocal
  BY DEF Tipos, PantallasCorrectas
<1>3. CASE guardadas'[b] = guardadas[b]
  BY <1>1, <1>3
<1>4. CASE RestablecerHace(b)
  BY <1>4, CitasInicialesAssumption DEF RestablecerHace
<1>5. ASSUME NEW u \in Peticiones, FinReservaHace(u), llamada[u].nav = b
      PROVE  d.reactivada
  <2>1. PICK x \in CitaLocal :
          /\ guardadas' = [guardadas EXCEPT ![b] = guardadas[b] \cup {x}]
          /\ \A y \in guardadas[b] : y.id < x.id
          /\ x.reserva = llamada[u].cita /\ x.limpia = llamada[u].limpia
    BY <1>5 DEF FinReservaHace
  <2>2. guardadas'[b] = guardadas[b] \cup {x}
    BY <2>1 DEF Tipos, PantallasCorrectas
  <2>3. EnCurso(u)
    BY <1>5 DEF FinReservaHace, FinComun, EnCurso
  <2>4. CASE c = x
    <3>1. x.id \in Nat /\ d # x /\ d \in guardadas[b]
      BY <2>2, <2>4 DEF CitaLocal
    <3>2. Disponible(guardadas[b], x.reserva.eleccion)
      BY <1>5, <2>1, <2>3, <2>4 DEF SinCruces, ReservasLimpias
    <3> QED
      BY <2>4, <3>1, <3>2 DEF Disponible
  <2>5. CASE c # x
    <3>1. c \in guardadas[b] /\ c.id \in Nat /\ x.id \in Nat /\ c.id < x.id
      BY <1>2, <2>1, <2>2, <2>5 DEF CitaLocal
    <3>2. d # x
      BY <3>1
    <3> QED
      BY <1>1, <2>2, <3>1, <3>2
  <2> QED
    BY <2>4, <2>5
<1>6. ASSUME NEW u \in Peticiones, FinCambioHace(u), llamada[u].nav = b
      PROVE  d.reactivada
  <2> DEFINE i == llamada[u].id
             e == llamada[u].estado
  <2>1. /\ guardadas'[b] = {Cambiada(x, i, e) : x \in guardadas[b]}
        /\ e \in Estados
    BY <1>6 DEF FinCambioHace
  <2> HIDE DEF i, e
  <2>2. PICK x \in guardadas[b] : c = Cambiada(x, i, e)
    BY <2>1
  <2>3. PICK y \in guardadas[b] : d = Cambiada(y, i, e)
    BY <2>1
  <2>4. /\ c.id = x.id /\ c.reserva = x.reserva /\ c.limpia = x.limpia /\ d.id = y.id
        /\ y.reactivada => d.reactivada
    <3>1. x \in CitaLocal /\ y \in CitaLocal
      BY <1>2
    <3>2. c.id = x.id /\ c.reserva = x.reserva /\ c.limpia = x.limpia
      <4>1. LET z == Cambiada(x, i, e)
            IN  z.id = x.id /\ z.reserva = x.reserva /\ z.limpia = x.limpia
        BY <2>1, <3>1, CambiadaCorrecta
      <4> QED
        BY <2>2, <4>1
    <3>3. d.id = y.id /\ (y.reactivada => d.reactivada)
      BY <2>1, <2>3, <3>1, CambiadaCorrecta
    <3> QED
      BY <3>2, <3>3
  <2>5. d.reactivada \/ (MismoHueco(y, c.reserva.eleccion) /\ ~y.reactivada)
    BY <1>2, <2>1, <2>3, CambiadaSinHueco
  <2> QED
    BY <1>1, <2>4, <2>5
<1> QED
  BY <1>3, <1>4, <1>5, <1>6, ColeccionesCambian

LEMMA HorasRevisadasSiguen ==
  ASSUME Tipos, CopiaAlDia, SinCruces, Efecto
  PROVE  HorasRevisadas'
<1> SUFFICES ASSUME NEW b \in Navegadores, asistente'[b] # Nulo, asistente'[b].paso >= 4
             PROVE  Disponible(guardadas'[b], asistente'[b].eleccion)
  BY DEF HorasRevisadas
<1> DEFINE e == asistente[b].eleccion
<1>1. /\ asistente[b] # Nulo /\ asistente'[b].eleccion = e
      /\ asistente[b].paso >= 4 \/ ~EsHoraOcupada(guardadas[b], e)
  BY AsistentesSoloAvanzan DEF AsistentesAvanzan, CopiaAlDia
<1>2. Disponible(guardadas[b], e)
  BY <1>1 DEF SinCruces, HorasRevisadas, EsHoraOcupada, Disponible
<1>3. ~RestablecerHace(b)
  BY <1>1 DEF RestablecerHace
<1>4. \A u \in Peticiones : FinReservaHace(u) => llamada[u].nav # b
  BY DEF FinReservaHace
<1> QED
  BY <1>1, <1>2, <1>3, <1>4, SigueDisponible

LEMMA ReservasLimpiasSiguen ==
  ASSUME Tipos, SinCruces, Efecto
  PROVE  ReservasLimpias'
<1> SUFFICES ASSUME NEW u \in Peticiones, EnCurso(u)', llamada'[u].limpia
             PROVE  /\ Disponible(guardadas'[llamada'[u].nav], llamada'[u].cita.eleccion)
                    /\ \A v \in Peticiones :
                         v # u /\ EnCurso(v)' => llamada'[v].nav # llamada'[u].nav
  BY DEF ReservasLimpias
<1>1. CASE \A v \in Peticiones : Prosigue(v)
  <2> DEFINE b == llamada[u].nav
             e == llamada[u].cita.eleccion
  <2>1. /\ EnCurso(u) /\ llamada[u].limpia /\ llamada'[u].nav = b
        /\ llamada'[u].cita.eleccion = e
    BY <1>1 DEF Prosigue
  <2>2. /\ Disponible(guardadas[b], e)
        /\ \A v \in Peticiones : v # u /\ EnCurso(v) => llamada[v].nav # b
    BY <2>1 DEF SinCruces, ReservasLimpias
  <2>3. b \in Navegadores
    BY <2>1 DEF Tipos, LlamadasCorrectas, LlamadaCorrecta, EnCurso, EnVuelo
  <2>4. ASSUME NEW v \in Peticiones, FinReservaHace(v)
        PROVE  llamada[v].nav # b
    <3>1. EnCurso(v) /\ Acabada(v, llamada'[v])
      BY <2>4 DEF FinReservaHace, FinComun, EnCurso
    <3>2. v # u
      BY <3>1, AcabadaProsigue
    <3> QED
      BY <2>2, <3>1, <3>2
  <2>5. ~RestablecerHace(b)
    BY <2>1 DEF RestablecerHace
  <2>6. Disponible(guardadas'[b], e)
    BY <2>2, <2>3, <2>4, <2>5, SigueDisponible
  <2>7. \A v \in Peticiones : v # u /\ EnCurso(v)' => llamada'[v].nav # b
    BY <1>1, <2>2 DEF Prosigue
  <2> QED
    BY <2>1, <2>6, <2>7
<1>2. ASSUME NEW b \in Navegadores, NEW w \in Peticiones, ConfirmarHace(b, w)
      PROVE  /\ Disponible(guardadas'[llamada'[u].nav], llamada'[u].cita.eleccion)
             /\ \A v \in Peticiones :
                  v # u /\ EnCurso(v)' => llamada'[v].nav # llamada'[u].nav
  <2>1. \A v \in Peticiones : v # w => Prosigue(v)
    BY <1>2, SiguenProsiguen DEF ConfirmarHace, SoloLlamada
  <2>2. /\ llamada'[w].nav = b /\ (llamada'[w].limpia => Solo(b)) /\ guardadas' = guardadas
        /\ llamada'[w].cita.eleccion = asistente[b].eleccion
        /\ asistente[b] # Nulo /\ asistente[b].paso = 5
        /\ \A v \in Peticiones : v # w /\ llamada'[v].nav = b => ~llamada'[v].limpia
    BY <1>2 DEF ConfirmarHace
  <2>3. CASE u = w
    <3>1. Disponible(guardadas[b], asistente[b].eleccion)
      BY <2>2 DEF SinCruces, HorasRevisadas
    <3>2. \A v \in Peticiones : v # u /\ EnCurso(v)' => llamada'[v].nav # b
      BY <2>1, <2>2, <2>3 DEF Solo, Prosigue, EnCurso
    <3> QED
      BY <2>2, <2>3, <3>1, <3>2
  <2>4. CASE u # w
    <3>1. /\ EnCurso(u) /\ llamada[u].limpia /\ llamada'[u].nav = llamada[u].nav
          /\ llamada'[u].cita = llamada[u].cita /\ llamada'[u].nav # b
      BY <2>1, <2>2, <2>4 DEF Prosigue
    <3> QED
      BY <2>1, <2>2, <3>1 DEF SinCruces, ReservasLimpias, Prosigue
  <2> QED
    BY <2>3, <2>4
<1> QED
  BY <1>1, <1>2, ReservasProsiguen

LEMMA SinCrucesInductiva ==
  ASSUME Tipos, CopiaAlDia, SinCruces, [Next]_vars
  PROVE  SinCruces'
<1>1. CASE Next
  BY <1>1, NextEfecto, SinChoquesSigue, HorasRevisadasSiguen, ReservasLimpiasSiguen
     DEF SinCruces
<1>2. CASE UNCHANGED vars
  BY <1>2 DEF vars, SinCruces, SinChoques, HorasRevisadas, ReservasLimpias, Disponible,
     EnCurso, EnVuelo
<1> QED
  BY <1>1, <1>2

LEMMA InitSinCruces == Init => SinCruces
BY CitasInicialesAssumption DEF Init, SinCruces, SinChoques, HorasRevisadas,
   ReservasLimpias, EnCurso, EnVuelo, Ninguna

\* An hour is taken twice in a browser only where two of its bookings, or a booking and
\* a reset, crossed each other, or where a cancelled cita was brought back: a single
\* booking never loses the hour that the wizard checked, however late it ends.
THEOREM ChoquesSoloConCruce == Spec => []ChoqueSoloConCruce
<1>1. SinCruces => ChoqueSoloConCruce
  BY DEF SinCruces, SinChoques, ChoqueSoloConCruce
<1> QED
  BY <1>1, InitTipos, NextTipos, InitCopia, CopiaInductiva, InitSinCruces,
     SinCrucesInductiva, PTL DEF Spec

-----------------------------------------------------------------------------
(***************************************************************************)
(* The cita of the backend that a booking made.                            *)
(***************************************************************************)
LEMMA CitasSoloQuedan ==
  ASSUME Efecto
  PROVE  CitasQuedan
<1>1. citas' = citas => CitasQuedan
  BY CitasIguales
<1> QED
  BY <1>1 DEF Efecto, PantallaHace, CaidaHace, RestablecerHace, ConfirmarHace, PideHace,
     VenceHace, AlCuerpoHace, FinReservaHace, FinCambioHace, FinComun, AtenderHace,
     DescartarHace, Servicio, agenda

\* What a slot has on both sides: call l, request a, and the cita k that its answer
\* names, of the citas cs.
RanuraBien(l, a, k, cs) ==
  /\ l.fase \in {"libre", "temporizador"} => a.estadio = "libre"
  /\ l.fase = "cuerpo" => a.estadio = "contestada"
  /\ l.fase \in {"enviada", "cuerpo"} /\ l.tipo = "agendar" /\ a.estadio # "libre" =>
       a.sol = SolicitudDeReserva(l.cita)
  /\ k # Nulo =>
       /\ a.estadio \in {"hecha", "contestada"}
       /\ k \in DOMAIN cs
       /\ l.fase \in {"enviada", "cuerpo"} /\ l.tipo = "agendar" => EsDe(cs[k], l.cita)

Ranuras == \A u \in Peticiones : RanuraBien(llamada[u], atencion[u], creada[u], citas)

\* The citas that the answers name are all different, and none is taken yet for the
\* cita of a booking that ended.
Unicas ==
  /\ \A u, v \in Peticiones : creada[u] # Nulo /\ creada[v] = creada[u] => v = u
  /\ \A u \in Peticiones, b \in Navegadores : \A c \in guardadas[b] :
       c.respaldo # Nulo => c.respaldo # creada[u]

Fieles == Ranuras /\ Unicas /\ RespaldoFiel

LEMMA EsDeQueda ==
  ASSUME CitasQuedan, NEW k \in DOMAIN citas, NEW n, EsDe(citas[k], n)
  PROVE  k \in DOMAIN citas' /\ EsDe(citas'[k], n)
BY DEF CitasQuedan, MismaReserva, EsDe

LEMMA EsDeLoPedido ==
  ASSUME NEW n
  PROVE  EsDe(CitaDe(SolicitudDeReserva(n)), n)
BY DEF EsDe, CitaDe, SolicitudDeReserva

\* A slot where only the service moves on, without a booking.
LEMMA RanuraSigue ==
  ASSUME CitasQuedan, NEW l, NEW m, Sigue(l, m), NEW a, NEW z, NEW k,
         RanuraBien(l, a, k, citas),
         \/ z = a
         \/ /\ a.estadio \in {"pendiente", "leida", "hecha"}
            /\ z.estadio = "contestada" /\ z.sol = a.sol
         \/ a.estadio = "pendiente" /\ z.estadio = "hecha" /\ z.sol = a.sol
  PROVE  RanuraBien(m, z, k, citas')
<1>1. /\ m.fase = l.fase /\ m.tipo = l.tipo /\ m.cita = l.cita
      /\ a.estadio = "libre" <=> z.estadio = "libre"
      /\ a.estadio # "libre" => z.sol = a.sol
      /\ a.estadio = "contestada" => z.estadio = "contestada"
      /\ a.estadio \in {"hecha", "contestada"} => z.estadio \in {"hecha", "contestada"}
  BY DEF Sigue
<1>2. k # Nulo => /\ k \in DOMAIN citas'
                  /\ l.fase \in {"enviada", "cuerpo"} /\ l.tipo = "agendar" =>
                       EsDe(citas'[k], l.cita)
  BY EsDeQueda DEF RanuraBien, CitasQuedan
<1> QED
  BY <1>1, <1>2 DEF RanuraBien

\* A slot that is free on both sides has no answer.
LEMMA RanuraLibre ==
  ASSUME NEW m, m.fase \in {"libre", "temporizador", "abandonada"}, NEW a, a.estadio = "libre", NEW cs
  PROVE  RanuraBien(m, a, Nulo, cs)
BY DEF RanuraBien

\* The slots of the others.
LEMMA OtrasRanuras ==
  ASSUME Tipos, Ranuras, CitasQuedan, NEW u \in Peticiones, SoloLlamada(u), SoloFicha(u),
         \A v \in Peticiones : v # u => creada'[v] = creada[v],
         RanuraBien(llamada'[u], atencion'[u], creada'[u], citas')
  PROVE  Ranuras'
<1> SUFFICES ASSUME NEW v \in Peticiones, v # u
             PROVE  RanuraBien(llamada'[v], atencion'[v], creada'[v], citas')
  BY DEF Ranuras
<1> QED
  BY RanuraSigue DEF Ranuras, SoloLlamada, SoloFicha

LEMMA RanurasDeConfirmar ==
  ASSUME Tipos, Ranuras, NEW b \in Navegadores, NEW u \in Peticiones, ConfirmarHace(b, u)
  PROVE  Ranuras'
<1>1. /\ llamada'[u].fase = "temporizador" /\ atencion' = atencion /\ creada' = creada
      /\ citas' = citas /\ atencion[u].estadio = "libre" /\ SoloLlamada(u)
  BY DEF ConfirmarHace, agenda
<1>2. RanuraBien(llamada'[u], atencion'[u], creada'[u], citas')
  BY <1>1 DEF Ranuras, RanuraBien
<1> QED
  BY <1>1, <1>2, OtrasRanuras, CitasIguales DEF SoloFicha

LEMMA RanurasDePide ==
  ASSUME Tipos, Ranuras, NEW u \in Peticiones, PideHace(u)
  PROVE  Ranuras'
<1>1. /\ llamada'[u].fase = "enviada" /\ llamada'[u].tipo = "cambiarEstado"
      /\ creada' = creada /\ citas' = citas /\ atencion[u].estadio = "libre"
      /\ SoloLlamada(u) /\ SoloFicha(u)
  BY DEF PideHace
<1>2. creada[u] = Nulo
  BY <1>1 DEF Ranuras, RanuraBien
<1>3. RanuraBien(llamada'[u], atencion'[u], creada'[u], citas')
  BY <1>1, <1>2 DEF RanuraBien
<1> QED
  BY <1>1, <1>3, OtrasRanuras, CitasIguales

LEMMA RanurasDeVence ==
  ASSUME Tipos, Ranuras, NEW u \in Peticiones, VenceHace(u)
  PROVE  Ranuras'
<1> DEFINE l == llamada[u]
           m == llamada'[u]
<1>1. /\ l.fase = "temporizador" /\ creada' = creada /\ citas' = citas
      /\ SoloLlamada(u) /\ SoloFicha(u)
  BY DEF VenceHace
<1>2. atencion[u].estadio = "libre" /\ creada[u] = Nulo
  BY <1>1 DEF Ranuras, RanuraBien
<1>3. \/ m = Ninguna /\ atencion' = atencion
      \/ /\ m.fase = "enviada" /\ m.cita = l.cita
         /\ \/ atencion' = atencion
            \/ /\ atencion'[u].estadio = "pendiente"
               /\ atencion'[u].sol = SolicitudDeReserva(l.cita)
  BY DEF VenceHace, agenda
<1>4. RanuraBien(m, atencion'[u], creada'[u], citas')
  <2>1. CASE m = Ninguna /\ atencion' = atencion
    BY <1>1, <1>2, <2>1, NingunaCorrecta DEF RanuraBien
  <2>2. CASE m.fase = "enviada" /\ m.cita = l.cita
    BY <1>1, <1>2, <1>3, <2>2, NingunaCorrecta DEF RanuraBien
  <2> QED
    BY <1>3, <2>1, <2>2
<1> QED
  BY <1>1, <1>4, OtrasRanuras, CitasIguales

LEMMA RanurasDeAlCuerpo ==
  ASSUME Tipos, Ranuras, NEW u \in Peticiones, AlCuerpoHace(u)
  PROVE  Ranuras'
<1>1. /\ llamada[u].fase = "enviada" /\ atencion[u].estadio = "contestada" /\ SoloLlamada(u)
      /\ llamada'[u].fase = "cuerpo" /\ llamada'[u].tipo = llamada[u].tipo
      /\ llamada'[u].cita = llamada[u].cita
      /\ creada' = creada /\ atencion' = atencion /\ citas' = citas
  BY DEF AlCuerpoHace, agenda
<1>2. RanuraBien(llamada'[u], atencion'[u], creada'[u], citas')
  BY <1>1 DEF Ranuras, RanuraBien
<1> QED
  BY <1>1, <1>2, OtrasRanuras, CitasIguales DEF SoloFicha

LEMMA RanurasDeFin ==
  ASSUME Tipos, Ranuras, NEW u \in Peticiones, FinComun(u)
  PROVE  Ranuras'
<1>1. /\ citas' = citas /\ Acabada(u, llamada'[u]) /\ SoloLlamada(u) /\ SoloFicha(u)
      /\ \A v \in Peticiones : v # u => creada'[v] = creada[v]
      /\ IF atencion[u].estadio = "contestada"
         THEN atencion'[u].estadio = "libre" /\ creada'[u] = Nulo
         ELSE atencion' = atencion /\ creada' = creada
  BY DEF FinComun
<1>2. RanuraBien(llamada[u], atencion[u], creada[u], citas)
  BY DEF Ranuras
<1>3. RanuraBien(llamada'[u], atencion'[u], creada'[u], citas')
  <2>1. CASE atencion[u].estadio = "contestada"
    BY <1>1, <2>1, NingunaCorrecta DEF Acabada, RanuraBien
  <2>2. CASE atencion[u].estadio = "libre"
    BY <1>1, <1>2, <2>2, NingunaCorrecta DEF Acabada, RanuraBien
  <2>3. CASE atencion[u].estadio \notin {"libre", "contestada"}
    BY <1>1, <1>2, <2>3 DEF Acabada, RanuraBien
  <2> QED
    BY <2>1, <2>2, <2>3
<1> QED
  BY <1>1, <1>3, OtrasRanuras, CitasIguales

LEMMA RanurasDeAtender ==
  ASSUME Tipos, Ranuras, NEW u \in Peticiones, AtenderHace(u)
  PROVE  Ranuras'
<1> DEFINE l == llamada[u]
           a == atencion[u]
           k == creada'[u]
<1>1. /\ CitasQuedan /\ llamada' = llamada /\ SoloFicha(u) /\ atencion'[u].sol = a.sol
      /\ \A v \in Peticiones : v # u => creada'[v] = creada[v]
  BY DEF AtenderHace, Servicio
<1>2. SoloLlamada(u) /\ Sigue(l, l)
  BY <1>1, LlamadasQuietas DEF SoloLlamada, Tipos
<1>3. RanuraBien(l, a, creada[u], citas)
  BY DEF Ranuras
<1>4. CASE /\ a.estadio = "pendiente" /\ atencion'[u].estadio = "hecha"
           /\ k \in DOMAIN citas' /\ citas'[k] = CitaDe(a.sol)
  <2>1. /\ l.fase \notin {"libre", "temporizador", "cuerpo"}
        /\ l.fase = "enviada" /\ l.tipo = "agendar" => a.sol = SolicitudDeReserva(l.cita)
    BY <1>3, <1>4 DEF RanuraBien
  <2>2. l.fase = "enviada" /\ l.tipo = "agendar" => EsDe(citas'[k], l.cita)
    BY <1>4, <2>1, EsDeLoPedido
  <2>3. RanuraBien(l, atencion'[u], k, citas')
    BY <1>1, <1>4, <2>1, <2>2 DEF RanuraBien
  <2> QED
    BY <1>1, <1>2, <2>3, OtrasRanuras
<1>5. CASE /\ creada' = creada
           /\ \/ /\ a.estadio \in {"pendiente", "leida", "hecha"}
                 /\ atencion'[u].estadio = "contestada"
              \/ a.estadio = "pendiente" /\ atencion'[u].estadio = "hecha"
  <2>1. RanuraBien(l, atencion'[u], k, citas')
    BY <1>1, <1>2, <1>3, <1>5, RanuraSigue
  <2> QED
    BY <1>1, <1>2, <2>1, OtrasRanuras
<1> QED
  BY <1>4, <1>5 DEF AtenderHace

LEMMA RanurasSiguen ==
  ASSUME Tipos, Ranuras, Efecto
  PROVE  Ranuras'
<1>1. CASE PantallaHace \/ \E b \in Navegadores : RestablecerHace(b)
  <2>1. /\ \A u \in Peticiones : Sigue(llamada[u], llamada'[u])
        /\ atencion' = atencion /\ creada' = creada /\ citas' = citas
    BY <1>1 DEF PantallaHace, RestablecerHace, agenda
  <2> QED
    BY <2>1, RanuraSigue, CitasIguales DEF Ranuras
<1>2. CASE CaidaHace
  <2>1. /\ llamada' = llamada /\ creada' = creada /\ CitasQuedan
        /\ \A u \in Peticiones : Sigue(llamada[u], llamada'[u])
    BY <1>2, LlamadasQuietas DEF CaidaHace, Servicio, Tipos
  <2> SUFFICES ASSUME NEW u \in Peticiones
               PROVE  RanuraBien(llamada'[u], atencion'[u], creada'[u], citas')
    BY DEF Ranuras
  <2> QED
    BY <1>2, <2>1, RanuraSigue DEF Ranuras, CaidaHace
<1>3. ASSUME NEW u \in Peticiones, DescartarHace(u)
      PROVE  Ranuras'
  <2>1. /\ citas' = citas /\ llamada'[u] = Ninguna /\ SoloLlamada(u) /\ SoloFicha(u)
        /\ atencion'[u].estadio = "libre" /\ creada'[u] = Nulo
        /\ \A v \in Peticiones : v # u => creada'[v] = creada[v]
    BY <1>3 DEF DescartarHace
  <2>2. RanuraBien(llamada'[u], atencion'[u], creada'[u], citas')
    BY <2>1, NingunaCorrecta, RanuraLibre
  <2> QED
    BY <2>1, <2>2, OtrasRanuras, CitasIguales
<1>4. ASSUME NEW u \in Peticiones, FinReservaHace(u) \/ FinCambioHace(u)
      PROVE  Ranuras'
  BY <1>4, RanurasDeFin DEF FinReservaHace, FinCambioHace
<1> QED
  BY <1>1, <1>2, <1>3, <1>4, RanurasDeConfirmar, RanurasDePide, RanurasDeVence,
     RanurasDeAlCuerpo, RanurasDeAtender DEF Efecto

\* An answer names a new cita, or the one it named, or none any more.
LEMMA CreadasCambian ==
  ASSUME Tipos, Efecto
  PROVE  \/ \A v \in Peticiones : creada'[v] \in {creada[v], Nulo}
         \/ /\ UNCHANGED guardadas
            /\ \E u \in Peticiones :
                 /\ creada'[u] \notin DOMAIN citas
                 /\ \A v \in Peticiones : v # u => creada'[v] = creada[v]
<1> DEFINE Pocas == \A v \in Peticiones : creada'[v] \in {creada[v], Nulo}
<1>1. creada' = creada => Pocas
  OBVIOUS
<1>2. ASSUME NEW u \in Peticiones,
             FinReservaHace(u) \/ FinCambioHace(u) \/ DescartarHace(u)
      PROVE  Pocas
  BY <1>2 DEF FinReservaHace, FinCambioHace, FinComun, DescartarHace
<1>3. ASSUME NEW u \in Peticiones, AtenderHace(u), creada' # creada
      PROVE  /\ UNCHANGED guardadas
             /\ creada'[u] \notin DOMAIN citas
             /\ \A v \in Peticiones : v # u => creada'[v] = creada[v]
  BY <1>3 DEF AtenderHace, Servicio
<1> QED
  BY <1>1, <1>2, <1>3 DEF Efecto, PantallaHace, CaidaHace, RestablecerHace, ConfirmarHace,
     PideHace, VenceHace, AlCuerpoHace

\* The records of a collection that come of one another.
LEMMA CambiadasDe ==
  ASSUME Tipos, NEW u \in Peticiones, FinCambioHace(u), NEW c \in guardadas'[llamada[u].nav]
  PROVE  \E x \in guardadas[llamada[u].nav] :
           /\ c = Cambiada(x, llamada[u].id, llamada[u].estado)
           /\ c.respaldo = x.respaldo /\ c.reserva = x.reserva /\ c.id = x.id
<1>1. /\ guardadas'[llamada[u].nav] =
           {Cambiada(x, llamada[u].id, llamada[u].estado) : x \in guardadas[llamada[u].nav]}
      /\ llamada[u].estado \in Estados /\ llamada[u].nav \in Navegadores
  BY DEF FinCambioHace, FinComun
<1>2. PICK x \in guardadas[llamada[u].nav] :
        c = Cambiada(x, llamada[u].id, llamada[u].estado)
  BY <1>1
<1>3. x \in CitaLocal
  BY <1>1 DEF Tipos, PantallasCorrectas
<1>4. c.respaldo = x.respaldo /\ c.reserva = x.reserva /\ c.id = x.id
  BY <1>1, <1>2, <1>3, CambiadaCorrecta
<1> QED
  BY <1>2, <1>4

\* A record with a cita of the backend had it, or is of the booking that just ended
\* and takes the cita that its answer named.
LEMMA RespaldosVienen ==
  ASSUME Tipos, Fieles, Efecto, NEW b \in Navegadores, NEW c \in guardadas'[b],
         c.respaldo # Nulo
  PROVE  \/ \E x \in guardadas[b] : c.respaldo = x.respaldo /\ c.reserva = x.reserva
         \/ \E u \in Peticiones :
              /\ FinReservaHace(u) /\ llamada[u].nav = b /\ c = app'[b].confirmada
              /\ c.respaldo = creada[u] /\ creada'[u] = Nulo
              /\ c.respaldo \in DOMAIN citas /\ EsDe(citas[c.respaldo], c.reserva)
<1>1. CASE guardadas'[b] = guardadas[b]
  BY <1>1
<1>2. CASE RestablecerHace(b)
  BY <1>2, CitasInicialesAssumption DEF RestablecerHace
<1>3. ASSUME NEW u \in Peticiones, FinCambioHace(u), llamada[u].nav = b
      PROVE  \E x \in guardadas[b] : c.respaldo = x.respaldo /\ c.reserva = x.reserva
  BY <1>3, CambiadasDe
<1>4. ASSUME NEW u \in Peticiones, FinReservaHace(u), llamada[u].nav = b, c \notin guardadas[b]
      PROVE  /\ c = app'[b].confirmada
             /\ c.respaldo = creada[u] /\ creada'[u] = Nulo
             /\ c.respaldo \in DOMAIN citas /\ EsDe(citas[c.respaldo], c.reserva)
  <2>1. c = app'[b].confirmada
    BY <1>4, FinReservaGuarda
  <2>2. /\ llamada[u].fase = "cuerpo" /\ llamada[u].tipo = "agendar"
        /\ c.respaldo = creada[u] /\ c.reserva = llamada[u].cita
    BY <1>4, <2>1 DEF FinReservaHace
  <2>3. /\ atencion[u].estadio = "contestada" /\ creada[u] \in DOMAIN citas
        /\ EsDe(citas[creada[u]], llamada[u].cita)
    BY <2>2 DEF Fieles, Ranuras, RanuraBien
  <2>4. creada'[u] = Nulo
    BY <1>4, <2>3 DEF FinReservaHace, FinComun
  <2> QED
    BY <2>1, <2>2, <2>3, <2>4
<1> QED
  BY <1>1, <1>2, <1>3, <1>4, ColeccionesCambian

LEMMA UnicasSiguen ==
  ASSUME Tipos, Fieles, Efecto
  PROVE  Unicas'
<1>1. /\ \A u \in Peticiones : creada[u] # Nulo => creada[u] \in DOMAIN citas
      /\ \A b \in Navegadores : \A c \in guardadas[b] :
           c.respaldo # Nulo => c.respaldo \in DOMAIN citas
  BY DEF Fieles, Ranuras, RanuraBien, RespaldoFiel
<1>2. /\ \A u, v \in Peticiones : creada[u] # Nulo /\ creada[v] = creada[u] => v = u
      /\ \A u \in Peticiones, b \in Navegadores : \A c \in guardadas[b] :
           c.respaldo # Nulo => c.respaldo # creada[u]
  BY DEF Fieles, Unicas
<1>3. CASE \A v \in Peticiones : creada'[v] \in {creada[v], Nulo}
  <2>1. \A u, v \in Peticiones : creada'[u] # Nulo /\ creada'[v] = creada'[u] => v = u
    BY <1>2, <1>3
  <2>2. ASSUME NEW u \in Peticiones, NEW b \in Navegadores, NEW c \in guardadas'[b],
               c.respaldo # Nulo
        PROVE  c.respaldo # creada'[u]
    <3>1. CASE \E x \in guardadas[b] : c.respaldo = x.respaldo
      BY <1>2, <1>3, <2>2, <3>1
    <3>2. ASSUME NEW v \in Peticiones, c.respaldo = creada[v], creada'[v] = Nulo
          PROVE  c.respaldo # creada'[u]
      BY <1>2, <1>3, <2>2, <3>2
    <3> QED
      BY <2>2, <3>1, <3>2, RespaldosVienen
  <2> QED
    BY <2>1, <2>2 DEF Unicas
<1>4. CASE /\ UNCHANGED guardadas
           /\ \E u \in Peticiones : /\ creada'[u] \notin DOMAIN citas
                                    /\ \A v \in Peticiones : v # u => creada'[v] = creada[v]
  BY <1>1, <1>2, <1>4 DEF Unicas
<1> QED
  BY <1>3, <1>4, CreadasCambian

LEMMA RespaldoFielSigue ==
  ASSUME Tipos, Fieles, Efecto
  PROVE  RespaldoFiel'
<1>1. CitasQuedan
  BY CitasSoloQuedan
<1>2. \A b \in Navegadores : \A c \in guardadas[b] : c.respaldo # Nulo =>
        /\ c.respaldo \in DOMAIN citas /\ EsDe(citas[c.respaldo], c.reserva)
        /\ \A a \in Navegadores : \A d \in guardadas[a] :
             d.respaldo = c.respaldo => a = b /\ d = c
        /\ \A u \in Peticiones : c.respaldo # creada[u]
  BY DEF Fieles, RespaldoFiel, Unicas
<1> SUFFICES ASSUME NEW b \in Navegadores, NEW c \in guardadas'[b], c.respaldo # Nulo
             PROVE  /\ c.respaldo \in DOMAIN citas'
                    /\ EsDe(citas'[c.respaldo], c.reserva)
                    /\ \A a \in Navegadores : \A d \in guardadas'[a] :
                         d.respaldo = c.respaldo => a = b /\ d = c
  BY DEF RespaldoFiel
<1>3. c.respaldo \in DOMAIN citas /\ EsDe(citas[c.respaldo], c.reserva)
  BY <1>2, RespaldosVienen
<1>4. c.respaldo \in DOMAIN citas' /\ EsDe(citas'[c.respaldo], c.reserva)
  BY <1>1, <1>3, EsDeQueda
<1>5. ASSUME NEW a \in Navegadores, NEW d \in guardadas'[a], d.respaldo = c.respaldo
      PROVE  a = b /\ d = c
  <2> DEFINE Viejo(k, z) == \E x \in guardadas[k] : z.respaldo = x.respaldo
             Nuevo(k, z) == \E u \in Peticiones :
               FinReservaHace(u) /\ llamada[u].nav = k /\ z = app'[k].confirmada
               /\ z.respaldo = creada[u]
  <2>1. (Viejo(b, c) \/ Nuevo(b, c)) /\ (Viejo(a, d) \/ Nuevo(a, d))
    BY <1>5, RespaldosVienen
  <2>2. CASE Viejo(b, c) /\ Viejo(a, d)
    <3>1. a = b
      BY <1>2, <1>5, <2>2
    <3>2. ASSUME NEW x \in guardadas[b], NEW y \in guardadas[b],
                 x.respaldo = c.respaldo, y.respaldo = c.respaldo
          PROVE  x = y
      BY <1>2, <3>2
    <3>3. CASE guardadas'[b] = guardadas[b]
      BY <1>5, <3>1, <3>2, <3>3
    <3>4. CASE RestablecerHace(b)
      BY <3>4, CitasInicialesAssumption DEF RestablecerHace
    <3>5. ASSUME NEW u \in Peticiones, FinReservaHace(u), llamada[u].nav = b
          PROVE  d = c
      <4>1. \A z \in guardadas'[b] : z \in guardadas[b] \/ z = app'[b].confirmada
        BY <3>5, FinReservaGuarda
      <4>2. app'[b].confirmada.respaldo # Nulo => app'[b].confirmada.respaldo = creada[u]
        BY <3>5 DEF FinReservaHace
      <4> QED
        BY <1>2, <1>5, <2>2, <3>1, <3>2, <4>1, <4>2
    <3>6. ASSUME NEW u \in Peticiones, FinCambioHace(u), llamada[u].nav = b
          PROVE  d = c
      <4>1. PICK x \in guardadas[b] : /\ c = Cambiada(x, llamada[u].id, llamada[u].estado)
                                      /\ c.respaldo = x.respaldo
        BY <3>6, CambiadasDe
      <4>2. PICK y \in guardadas[b] : /\ d = Cambiada(y, llamada[u].id, llamada[u].estado)
                                      /\ d.respaldo = y.respaldo
        BY <3>1, <3>6, CambiadasDe
      <4> QED
        BY <1>5, <3>2, <4>1, <4>2
    <3> QED
      BY <3>1, <3>3, <3>4, <3>5, <3>6, ColeccionesCambian
  <2>3. ASSUME NEW k \in Navegadores, NEW z, NEW j \in Navegadores, NEW w,
               Viejo(k, z), Nuevo(j, w), z.respaldo = w.respaldo, z.respaldo # Nulo
        PROVE  FALSE
    BY <1>2, <2>3
  <2>4. CASE Nuevo(b, c) /\ Nuevo(a, d)
    <3>1. PICK u \in Peticiones : /\ FinReservaHace(u) /\ llamada[u].nav = b
                                  /\ c = app'[b].confirmada /\ c.respaldo = creada[u]
      BY <2>4
    <3>2. PICK v \in Peticiones : /\ FinReservaHace(v) /\ llamada[v].nav = a
                                  /\ d = app'[a].confirmada /\ d.respaldo = creada[v]
      BY <2>4
    <3>3. u = v
      BY <1>5, <3>1, <3>2 DEF Fieles, Unicas
    <3> QED
      BY <3>1, <3>2, <3>3
  <2> QED
    BY <1>5, <2>1, <2>2, <2>3, <2>4
<1> QED
  BY <1>4, <1>5

LEMMA FielesInductiva ==
  ASSUME Tipos, Fieles, [Next]_vars
  PROVE  Fieles'
<1>1. CASE Next
  BY <1>1, NextEfecto, RanurasSiguen, UnicasSiguen, RespaldoFielSigue DEF Fieles
<1>2. CASE UNCHANGED vars
  BY <1>2 DEF vars, agenda, Fieles, Ranuras, Unicas, RespaldoFiel
<1> QED
  BY <1>1, <1>2

LEMMA InitFieles == Init => Fieles
<1> SUFFICES ASSUME Init
             PROVE  Fieles
  OBVIOUS
<1>1. /\ guardadas = [b \in Navegadores |-> CitasIniciales]
      /\ llamada = [u \in Peticiones |-> Ninguna] /\ creada = [u \in Peticiones |-> Nulo]
      /\ atencion = [u \in Peticiones |-> Agenda!Libre]
  BY DEF Init, Agenda!Init
<1>2. Agenda!Libre.estadio = "libre"
  BY DEF Agenda!Libre
<1>3. Ranuras
  BY <1>1, <1>2, NingunaCorrecta DEF Ranuras, RanuraBien
<1>4. Unicas /\ RespaldoFiel
  BY <1>1, CitasInicialesAssumption DEF Unicas, RespaldoFiel
<1> QED
  BY <1>3, <1>4 DEF Fieles

\* With any number of bookings in flight, whose answers arrive in any order, late or
\* never, no booking is taken for another one: the cita of the backend that
\* a record stands for is what its user asked for, and of that record alone.
THEOREM RespaldosFieles == Spec => []RespaldoFiel
<1>1. Fieles => RespaldoFiel
  BY DEF Fieles
<1> QED
  BY <1>1, InitTipos, NextTipos, InitFieles, FielesInductiva, PTL DEF Spec

-----------------------------------------------------------------------------
(***************************************************************************)
(* One click, one cita.                                                    *)
(***************************************************************************)
\* The slots whose booking the backend may still get.
PorLlegar == {u \in Peticiones :
                \/ Fase(u, "temporizador")
                \/ atencion[u].estadio = "pendiente" /\ atencion[u].sol.op = "crear"}

\* The records of b that it did not start with.
Nuevas(b) == {c \in guardadas[b] : \A d \in CitasIniciales : c.id # d.id}

\* UnaCitaPorConfirmacion, of sets that are finite however many slots there are.
CuentaDelServicio ==
  IsFiniteSet(PorLlegar) /\ Len(citas) + Cardinality(PorLlegar) <= confirmaciones

CuentaDe(b) ==
  /\ IsFiniteSet(Reservando(b))
  /\ Cardinality(Nuevas(b)) + Cardinality(Reservando(b)) <= confirmaciones

Cuentas == CuentaDelServicio /\ \A b \in Navegadores : CuentaDe(b)

\* Slot u is not among those of PorLlegar unless it was.
LEMMA SigueSinLlegar ==
  ASSUME NEW u \in Peticiones, Sigue(llamada[u], llamada'[u]),
         atencion'[u] = atencion[u] \/ atencion'[u].estadio # "pendiente",
         u \in PorLlegar'
  PROVE  u \in PorLlegar
BY DEF PorLlegar, Sigue, Fase

LEMMA PorLlegarMengua ==
  ASSUME Tipos, Ranuras, Efecto
  PROVE  \/ /\ PorLlegar' \subseteq PorLlegar
            /\ confirmaciones' = confirmaciones /\ Len(citas') = Len(citas)
         \/ /\ \E u : PorLlegar' \subseteq PorLlegar \cup {u}
            /\ confirmaciones' = confirmaciones + 1 /\ citas' = citas
         \/ /\ \E u \in PorLlegar : PorLlegar' \subseteq PorLlegar \ {u}
            /\ confirmaciones' = confirmaciones
            /\ Len(citas) \in Nat /\ Len(citas') = Len(citas) + 1
<1> DEFINE Mengua == /\ PorLlegar' \subseteq PorLlegar
                     /\ confirmaciones' = confirmaciones /\ Len(citas') = Len(citas)
<1>1. CASE PantallaHace \/ \E b \in Navegadores : RestablecerHace(b)
  <2>1. /\ \A u \in Peticiones : Sigue(llamada[u], llamada'[u])
        /\ UNCHANGED <<atencion, confirmaciones, citas>>
    BY <1>1 DEF PantallaHace, RestablecerHace, agenda
  <2>2. \A u \in PorLlegar' : u \in Peticiones
    BY DEF PorLlegar
  <2> QED
    BY <2>1, <2>2, SigueSinLlegar
<1>2. CASE CaidaHace
  <2>1. /\ \A u \in Peticiones : Sigue(llamada[u], llamada'[u])
        /\ UNCHANGED <<confirmaciones, citas>>
    BY <1>2, LlamadasQuietas DEF CaidaHace, Servicio, Tipos
  <2>2. \A u \in Peticiones : atencion'[u] = atencion[u] \/ atencion'[u].estadio # "pendiente"
    BY <1>2 DEF CaidaHace
  <2>3. \A u \in PorLlegar' : u \in Peticiones
    BY DEF PorLlegar
  <2> QED
    BY <2>1, <2>2, <2>3, SigueSinLlegar
<1>3. ASSUME NEW u \in Peticiones, SoloLlamada(u), SoloFicha(u), NEW v \in PorLlegar', v # u
      PROVE  v \in PorLlegar
  <2>1. v \in Peticiones
    BY DEF PorLlegar
  <2> QED
    BY <1>3, <2>1, SigueSinLlegar DEF SoloLlamada, SoloFicha
<1>4. ASSUME NEW b \in Navegadores, NEW u \in Peticiones, ConfirmarHace(b, u)
      PROVE  /\ \E v : PorLlegar' \subseteq PorLlegar \cup {v}
             /\ confirmaciones' = confirmaciones + 1 /\ citas' = citas
  <2>1. /\ SoloLlamada(u) /\ SoloFicha(u) /\ citas' = citas
        /\ confirmaciones' = confirmaciones + 1
    BY <1>4 DEF ConfirmarHace, SoloFicha, agenda
  <2> QED
    BY <1>3, <2>1
<1>5. ASSUME NEW u \in Peticiones, PideHace(u)
      PROVE  Mengua
  <2>1. /\ SoloLlamada(u) /\ SoloFicha(u) /\ citas' = citas /\ confirmaciones' = confirmaciones
        /\ llamada'[u].fase = "enviada"
        /\ \/ atencion' = atencion
           \/ atencion'[u].sol.op = "cambiarEstado"
    BY <1>5 DEF PideHace
  <2>2. u \in PorLlegar' => u \in PorLlegar
    BY <2>1 DEF PorLlegar, Fase
  <2> QED
    BY <1>3, <2>1, <2>2
<1>6. ASSUME NEW u \in Peticiones, VenceHace(u)
      PROVE  Mengua
  <2>1. /\ SoloLlamada(u) /\ SoloFicha(u) /\ citas' = citas /\ confirmaciones' = confirmaciones
        /\ u \in PorLlegar
    BY <1>6 DEF VenceHace, PorLlegar, Fase
  <2> QED
    BY <1>3, <2>1
<1>7. ASSUME NEW u \in Peticiones,
             AlCuerpoHace(u) \/ FinReservaHace(u) \/ FinCambioHace(u) \/ DescartarHace(u)
      PROVE  Mengua
  <2>1. /\ SoloLlamada(u) /\ SoloFicha(u) /\ citas' = citas /\ confirmaciones' = confirmaciones
        /\ llamada'[u].fase # "temporizador"
        /\ atencion'[u] = atencion[u] \/ atencion'[u].estadio = "libre"
    BY <1>7, NingunaCorrecta DEF AlCuerpoHace, FinReservaHace, FinCambioHace, FinComun,
       DescartarHace, Acabada, SoloFicha, agenda
  <2>2. u \in PorLlegar' => u \in PorLlegar
    BY <2>1 DEF PorLlegar, Fase
  <2> QED
    BY <1>3, <2>1, <2>2
<1>8. ASSUME NEW u \in Peticiones, AtenderHace(u)
      PROVE  \/ Mengua
             \/ /\ \E v \in PorLlegar : PorLlegar' \subseteq PorLlegar \ {v}
                /\ confirmaciones' = confirmaciones
                /\ Len(citas) \in Nat /\ Len(citas') = Len(citas) + 1
  <2>1. /\ llamada' = llamada /\ confirmaciones' = confirmaciones /\ SoloFicha(u)
    BY <1>8 DEF AtenderHace, Servicio
  <2>2. SoloLlamada(u)
    BY <2>1, LlamadasQuietas DEF SoloLlamada, Tipos
  <2>3. ~Fase(u, "temporizador") /\ u \notin PorLlegar'
    <3>1. atencion[u].estadio # "libre" /\ atencion'[u].estadio # "pendiente"
      BY <1>8 DEF AtenderHace
    <3>2. llamada[u].fase # "temporizador"
      BY <3>1 DEF Ranuras, RanuraBien
    <3> QED
      BY <2>1, <3>1, <3>2 DEF PorLlegar, Fase
  <2>4. PorLlegar' \subseteq PorLlegar \ {u}
    BY <1>3, <2>1, <2>2, <2>3
  <2>5. CASE Len(citas') = Len(citas)
    BY <2>1, <2>4, <2>5
  <2>6. CASE /\ atencion[u].estadio = "pendiente" /\ atencion[u].sol.op = "crear"
             /\ Len(citas) \in Nat /\ Len(citas') = Len(citas) + 1
    BY <2>1, <2>4, <2>6 DEF PorLlegar
  <2> QED
    BY <1>8, <2>5, <2>6 DEF AtenderHace
<1> QED
  BY <1>1, <1>2, <1>4, <1>5, <1>6, <1>7, <1>8 DEF Efecto

\* A set that loses an element at least, or gains one at most.
LEMMA MenguaConjunto ==
  ASSUME NEW S, IsFiniteSet(S), NEW T \in SUBSET S
  PROVE  IsFiniteSet(T) /\ Cardinality(T) \in Nat /\ Cardinality(S) \in Nat
         /\ Cardinality(T) <= Cardinality(S)
BY FS_Subset, FS_CardinalityType

LEMMA CreceConjunto ==
  ASSUME NEW S, IsFiniteSet(S), NEW x, NEW T \in SUBSET (S \cup {x})
  PROVE  IsFiniteSet(T) /\ Cardinality(T) \in Nat /\ Cardinality(S) \in Nat
         /\ Cardinality(T) <= Cardinality(S) + 1
<1>1. IsFiniteSet(S \cup {x}) /\ Cardinality(S) \in Nat
      /\ Cardinality(S \cup {x}) <= Cardinality(S) + 1
  <2>1. Cardinality(S) \in Nat
    BY FS_CardinalityType
  <2>2. /\ IsFiniteSet(S \cup {x})
        /\ \/ Cardinality(S \cup {x}) = Cardinality(S)
           \/ Cardinality(S \cup {x}) = Cardinality(S) + 1
    BY FS_AddElement
  <2> QED
    BY <2>1, <2>2
<1>2. IsFiniteSet(T) /\ Cardinality(T) \in Nat /\ Cardinality(S \cup {x}) \in Nat
      /\ Cardinality(T) <= Cardinality(S \cup {x})
  BY <1>1, MenguaConjunto
<1> QED
  BY <1>1, <1>2

LEMMA PierdeConjunto ==
  ASSUME NEW S, IsFiniteSet(S), NEW x \in S, NEW T \in SUBSET (S \ {x})
  PROVE  IsFiniteSet(T) /\ Cardinality(T) \in Nat /\ Cardinality(S) \in Nat
         /\ Cardinality(T) + 1 <= Cardinality(S)
<1>1. IsFiniteSet(S \ {x}) /\ Cardinality(S) \in Nat
      /\ Cardinality(S \ {x}) = Cardinality(S) - 1
  BY FS_RemoveElement, FS_CardinalityType
<1>2. IsFiniteSet(T) /\ Cardinality(T) \in Nat /\ Cardinality(T) <= Cardinality(S \ {x})
  BY <1>1, MenguaConjunto
<1> QED
  BY <1>1, <1>2

LEMMA CuentaDelServicioSigue ==
  ASSUME Tipos, Ranuras, CuentaDelServicio, Efecto
  PROVE  CuentaDelServicio'
<1>1. confirmaciones \in Nat /\ Len(citas) \in Nat
  BY DEF Tipos, LlamadasCorrectas, AgendaCorrecta
<1>2. IsFiniteSet(PorLlegar) /\ Len(citas) + Cardinality(PorLlegar) <= confirmaciones
  BY DEF CuentaDelServicio
<1>3. CASE /\ PorLlegar' \subseteq PorLlegar
           /\ confirmaciones' = confirmaciones /\ Len(citas') = Len(citas)
  <2>1. /\ IsFiniteSet(PorLlegar') /\ Cardinality(PorLlegar') \in Nat
        /\ Cardinality(PorLlegar) \in Nat /\ Cardinality(PorLlegar') <= Cardinality(PorLlegar)
    BY <1>2, <1>3, MenguaConjunto
  <2> QED
    BY <1>1, <1>2, <1>3, <2>1 DEF CuentaDelServicio
<1>4. CASE /\ \E u : PorLlegar' \subseteq PorLlegar \cup {u}
           /\ confirmaciones' = confirmaciones + 1 /\ citas' = citas
  <2>1. /\ IsFiniteSet(PorLlegar') /\ Cardinality(PorLlegar') \in Nat
        /\ Cardinality(PorLlegar) \in Nat
        /\ Cardinality(PorLlegar') <= Cardinality(PorLlegar) + 1
    BY <1>2, <1>4, CreceConjunto
  <2> QED
    BY <1>1, <1>2, <1>4, <2>1 DEF CuentaDelServicio
<1>5. CASE /\ \E u \in PorLlegar : PorLlegar' \subseteq PorLlegar \ {u}
           /\ confirmaciones' = confirmaciones /\ Len(citas') = Len(citas) + 1
  <2>1. /\ IsFiniteSet(PorLlegar') /\ Cardinality(PorLlegar') \in Nat
        /\ Cardinality(PorLlegar) \in Nat
        /\ Cardinality(PorLlegar') + 1 <= Cardinality(PorLlegar)
    BY <1>2, <1>5, PierdeConjunto
  <2> QED
    BY <1>1, <1>2, <1>5, <2>1 DEF CuentaDelServicio
<1> QED
  BY <1>3, <1>4, <1>5, PorLlegarMengua

\* The bookings of b in flight, and the records that it did not start with.
LEMMA CuentaDeSigue ==
  ASSUME Tipos, Efecto, NEW b \in Navegadores, CuentaDe(b)
  PROVE  CuentaDe(b)'
<1> DEFINE R == Reservando(b)
           N == Nuevas(b)
<1>1. /\ IsFiniteSet(R) /\ Cardinality(N) + Cardinality(R) <= confirmaciones
      /\ confirmaciones \in Nat
      /\ IsFiniteSet(N) /\ Cardinality(N) \in Nat /\ Cardinality(R) \in Nat
  <2>1. IsFiniteSet(guardadas[b]) /\ N \in SUBSET guardadas[b]
    BY DEF Tipos, PantallasCorrectas, Nuevas
  <2>2. IsFiniteSet(N)
    BY <2>1, FS_Subset
  <2> QED
    BY <2>2, FS_CardinalityType DEF CuentaDe, Tipos, LlamadasCorrectas
<1>2. CuentaDe(b)' <=>
        IsFiniteSet(R') /\ Cardinality(N') + Cardinality(R') <= confirmaciones'
  BY DEF CuentaDe
<1>3. /\ \A u \in R : u \in Peticiones /\ EnCurso(u) /\ llamada[u].nav = b
      /\ \A u \in R' : u \in Peticiones /\ EnCurso(u)' /\ llamada'[u].nav = b
      /\ \A u \in Peticiones : EnCurso(u) /\ llamada[u].nav = b => u \in R
  BY DEF Reservando, EnCurso
<1>4. guardadas'[b] = guardadas[b] => N' = N
  BY DEF Nuevas
<1> HIDE DEF R, N
<1>5. CASE \E c \in Navegadores, u \in Peticiones : ConfirmarHace(c, u)
  <2>1. PICK c \in Navegadores, u \in Peticiones : ConfirmarHace(c, u)
    BY <1>5
  <2>2. /\ guardadas' = guardadas /\ confirmaciones' = confirmaciones + 1
        /\ \A v \in Peticiones : v # u => Prosigue(v)
    BY <2>1, SiguenProsiguen DEF ConfirmarHace, SoloLlamada
  <2>3. R' \subseteq R \cup {u}
    BY <1>3, <2>2 DEF Prosigue
  <2>4. IsFiniteSet(R') /\ Cardinality(R') \in Nat /\ Cardinality(R') <= Cardinality(R) + 1
    BY <1>1, <2>3, CreceConjunto
  <2> QED
    BY <1>1, <1>2, <1>4, <2>2, <2>4
<1>6. CASE ~\E c \in Navegadores, u \in Peticiones : ConfirmarHace(c, u)
  <2>1. \A u \in Peticiones : Prosigue(u)
    BY <1>6, ReservasProsiguen
  <2>2. R' \subseteq R
    BY <1>3, <2>1 DEF Prosigue
  <2>3. IsFiniteSet(R') /\ Cardinality(R') \in Nat /\ Cardinality(R') <= Cardinality(R)
    BY <1>1, <2>2, MenguaConjunto
  <2>4. confirmaciones' = confirmaciones
    BY <1>6 DEF Efecto, PantallaHace, CaidaHace, RestablecerHace, PideHace, VenceHace,
       AlCuerpoHace, FinReservaHace, FinCambioHace, FinComun, AtenderHace, DescartarHace,
       Servicio
  <2>5. CASE guardadas'[b] = guardadas[b]
    BY <1>1, <1>2, <1>4, <2>3, <2>4, <2>5
  <2>6. CASE RestablecerHace(b)
    <3>1. N' = {}
      BY <2>6 DEF RestablecerHace, Nuevas, N
    <3>2. Cardinality(N') = 0
      BY <3>1, FS_EmptySet
    <3> QED
      BY <1>1, <1>2, <2>3, <2>4, <3>2
  <2>7. ASSUME NEW u \in Peticiones, FinReservaHace(u), llamada[u].nav = b
        PROVE  CuentaDe(b)'
    <3>1. EnCurso(u) /\ ~EnCurso(u)'
      BY <2>7, AcabadaProsigue DEF FinReservaHace, FinComun, EnCurso
    <3>2. u \in R /\ R' \subseteq R \ {u}
      BY <1>3, <2>2, <2>7, <3>1
    <3>3. IsFiniteSet(R') /\ Cardinality(R') \in Nat /\ Cardinality(R') + 1 <= Cardinality(R)
      BY <1>1, <3>2, PierdeConjunto
    <3>4. N' \subseteq N \cup {app'[b].confirmada}
      BY <2>7, FinReservaGuarda DEF Nuevas, N
    <3>5. Cardinality(N') \in Nat /\ Cardinality(N') <= Cardinality(N) + 1
      BY <1>1, <3>4, CreceConjunto
    <3> QED
      BY <1>1, <1>2, <2>4, <3>3, <3>5
  <2>8. ASSUME NEW u \in Peticiones, FinCambioHace(u), llamada[u].nav = b
        PROVE  CuentaDe(b)'
    <3> DEFINE i == llamada[u].id
               e == llamada[u].estado
               T == ConEstado(N, i, e)
    <3>1. /\ T = {Cambiada(x, i, e) : x \in N}
          /\ IsFiniteSet(T) /\ Cardinality(T) <= Cardinality(N)
      BY <1>1, ConEstadoFinita
    <3>2. guardadas'[b] = {Cambiada(x, i, e) : x \in guardadas[b]}
      BY <2>8 DEF FinCambioHace
    <3>3. N' \subseteq T
      <4> SUFFICES ASSUME NEW c \in guardadas'[b], \A d \in CitasIniciales : c.id # d.id
                   PROVE  c \in T
        BY DEF Nuevas, N
      <4>1. PICK x \in guardadas[b] : c = Cambiada(x, i, e) /\ c.id = x.id
        BY <2>8, CambiadasDe
      <4>2. x \in N
        BY <4>1 DEF Nuevas, N
      <4> QED
        BY <3>1, <4>1, <4>2
    <3> HIDE DEF T
    <3>4. Cardinality(N') \in Nat /\ Cardinality(N') <= Cardinality(N)
      <4>1. /\ Cardinality(N') \in Nat /\ Cardinality(T) \in Nat
            /\ Cardinality(N') <= Cardinality(T)
        BY <3>1, <3>3, MenguaConjunto
      <4> QED
        BY <1>1, <3>1, <4>1
    <3> QED
      BY <1>1, <1>2, <2>3, <2>4, <3>4
  <2> QED
    BY <2>5, <2>6, <2>7, <2>8, ColeccionesCambian
<1> QED
  BY <1>5, <1>6

LEMMA CuentasInductiva ==
  ASSUME Tipos, Ranuras, Cuentas, [Next]_vars
  PROVE  Cuentas'
<1>1. CASE Next
  <2>1. Efecto
    BY <1>1, NextEfecto
  <2>2. CuentaDelServicio'
    BY <2>1, CuentaDelServicioSigue DEF Cuentas
  <2>3. \A b \in Navegadores : CuentaDe(b)'
    BY <2>1, CuentaDeSigue DEF Cuentas
  <2> QED
    BY <2>2, <2>3 DEF Cuentas
<1>2. CASE UNCHANGED vars
  BY <1>2 DEF vars, agenda, Cuentas, CuentaDelServicio, CuentaDe, PorLlegar, Fase, EnVuelo,
     Nuevas, Reservando
<1> QED
  BY <1>1, <1>2

LEMMA InitCuentas == Init => Cuentas
<1> SUFFICES ASSUME Init
             PROVE  Cuentas
  OBVIOUS
<1>1. /\ guardadas = [b \in Navegadores |-> CitasIniciales] /\ confirmaciones = 0
      /\ llamada = [u \in Peticiones |-> Ninguna] /\ citas = <<>>
      /\ atencion = [u \in Peticiones |-> Agenda!Libre]
  BY DEF Init, Agenda!Init
<1>2. PorLlegar = {}
  BY <1>1, NingunaCorrecta DEF PorLlegar, Fase, Agenda!Libre
<1>3. \A b \in Navegadores : Reservando(b) = {} /\ Nuevas(b) = {}
  BY <1>1, NingunaCorrecta DEF Reservando, EnVuelo, Nuevas
<1>4. Len(citas) = 0
  BY <1>1
<1>5. IsFiniteSet({}) /\ Cardinality({}) = 0
  BY FS_EmptySet
<1>6. CuentaDelServicio
  BY <1>1, <1>2, <1>4, <1>5 DEF CuentaDelServicio
<1>7. \A b \in Navegadores : CuentaDe(b)
  <2>1. ASSUME NEW b \in Navegadores
        PROVE  /\ IsFiniteSet(Reservando(b))
               /\ Cardinality(Nuevas(b)) = 0 /\ Cardinality(Reservando(b)) = 0
    BY <1>3, <1>5
  <2> QED
    BY <1>1, <2>1 DEF CuentaDe
<1> QED
  BY <1>6, <1>7 DEF Cuentas

\* However many slots, browsers and clicks there are, and however often the network or
\* the service fails, a click is worth one cita at most on either side.
THEOREM UnaCita == Spec => []UnaCitaPorConfirmacion
<1>1. Cuentas => UnaCitaPorConfirmacion
  BY DEF Cuentas, CuentaDelServicio, CuentaDe, PorLlegar, Nuevas, UnaCitaPorConfirmacion
<1>2. Fieles => Ranuras
  BY DEF Fieles
<1> QED
  BY <1>1, <1>2, InitTipos, NextTipos, InitFieles, FielesInductiva, InitCuentas,
     CuentasInductiva, PTL DEF Spec

-----------------------------------------------------------------------------
(***************************************************************************)
(* The client is one that service-agendamiento is made for: to the service *)
(* its steps are those of the registry that Agendamiento implements, with  *)
(* requests of the form that Agendamiento answers for.                     *)
(***************************************************************************)
AgendaReal == INSTANCE RegistroCitas WITH Solicitudes <- Solicitud

LEMMA EnviaPide ==
  ASSUME NEW u \in Peticiones, NEW s \in Solicitud, Envia(u, s)
  PROVE  AgendaReal!Next \/ UNCHANGED agenda
<1>1. Agenda!Pedir(u, s) => AgendaReal!Pedir(u, s)
  BY DEF Agenda!Pedir, AgendaReal!Pedir, Agenda!En, AgendaReal!En
<1> QED
  BY <1>1 DEF Envia, AgendaReal!Next

LEMMA SueltaTermina ==
  ASSUME NEW u \in Peticiones, Suelta(u)
  PROVE  AgendaReal!Next \/ UNCHANGED agenda
<1>1. Agenda!Terminar(u) => AgendaReal!Terminar(u)
  BY DEF Agenda!Terminar, AgendaReal!Terminar, Agenda!En, AgendaReal!En, Agenda!Libre,
     AgendaReal!Libre
<1> QED
  BY <1>1 DEF Suelta, AgendaReal!Next

LEMMA AtenderAtiende ==
  ASSUME NEW u \in Peticiones, Atender(u)
  PROVE  AgendaReal!Next
<1>1. Agenda!Agendar(u) => AgendaReal!Agendar(u)
  BY DEF Agenda!Agendar, AgendaReal!Agendar, Agenda!En, AgendaReal!En, Agenda!Sol,
     AgendaReal!Sol, Agenda!CitaDe, AgendaReal!CitaDe, Agenda!SinNulos, AgendaReal!SinNulos,
     Agenda!Catalogos, AgendaReal!Catalogos, Agenda!Referencia, AgendaReal!Referencia,
     Agenda!Pasa, AgendaReal!Pasa
<1>2. Agenda!CambiarEstado(u) => AgendaReal!CambiarEstado(u)
  BY DEF Agenda!CambiarEstado, AgendaReal!CambiarEstado, Agenda!En, AgendaReal!En,
     Agenda!Sol, AgendaReal!Sol, Agenda!PuedeCambiar, AgendaReal!PuedeCambiar,
     Agenda!Pasa, AgendaReal!Pasa
<1>3. ASSUME NEW r \in {"200"} \cup Errores, Agenda!Contestar(u, r)
      PROVE  AgendaReal!Contestar(u, r) /\ r \in {"200"} \cup AgendaReal!Errores
  BY <1>3 DEF Agenda!Contestar, AgendaReal!Contestar, Agenda!En, AgendaReal!En, Agenda!Sol,
     AgendaReal!Sol, Agenda!PuedeVer, AgendaReal!PuedeVer, Agenda!MotivoDe403,
     AgendaReal!MotivoDe403, Agenda!MotivoDe404, AgendaReal!MotivoDe404, Errores,
     AgendaReal!Errores, Agenda!PuedeCambiar, AgendaReal!PuedeCambiar, Agenda!PuedeListar,
     AgendaReal!PuedeListar
<1> QED
  BY <1>1, <1>2, <1>3 DEF Atender, AgendaReal!Next

\* For the service, a step of the client is one of the registry or none.
LEMMA ServicioStep ==
  ASSUME Tipos, [Next]_vars
  PROVE  [AgendaReal!Next]_(AgendaReal!vars)
<1> DEFINE Bien == AgendaReal!Next \/ UNCHANGED agenda
<1>1. CASE Next
  <2>1. Paso
    BY <1>1, NextPaso DEF Tipos
  <2>2. ASSUME NEW b \in Navegadores, Pantalla(b) \/ RestablecerDatos(b)
        PROVE  Bien
    BY <2>2, PantallaCorrecta DEF PantallaHace, RestablecerDatos
  <2>3. ASSUME NEW b \in Navegadores, NEW u \in Peticiones, Confirmar(b, u)
        PROVE  Bien
    BY <2>3 DEF Confirmar
  <2>4. ASSUME NEW b \in Navegadores, NEW u \in Peticiones, Pide(b, u)
        PROVE  Bien
    BY <2>4, PideCorrecta, EnviaPide DEF PideHace
  <2>5. ASSUME NEW u \in Peticiones, VenceTemporizador(u)
        PROVE  Bien
    <3>1. VenceHace(u) /\ llamada[u].fase = "temporizador"
      BY <2>5, VenceCorrecta DEF VenceHace
    <3>2. llamada[u].cita \in NuevaCita
      BY <3>1 DEF Tipos, LlamadasCorrectas, LlamadaCorrecta
    <3>3. SolicitudDeReserva(llamada[u].cita) \in Solicitud
      BY <3>2, SolicitudDeReservaTipo
    <3> QED
      BY <3>1, <3>3, EnviaPide DEF VenceHace
  <2>6. ASSUME NEW u \in Peticiones, AlCuerpo(u)
        PROVE  Bien
    BY <2>6 DEF AlCuerpo
  <2>7. ASSUME NEW u \in Peticiones, FinReserva(u) \/ FinCambio(u) \/ Descartar(u)
        PROVE  Bien
    BY <2>7, SueltaTermina DEF FinReserva, FinCambio, Descartar, TerminarReserva,
       TerminarCambio
  <2>8. ASSUME NEW u \in Peticiones, Atender(u)
        PROVE  Bien
    BY <2>8, AtenderAtiende
  <2>9. Caida => Bien
    BY DEF Caida, Agenda!Perder, AgendaReal!Perder, AgendaReal!Next
  <2> QED
    BY <2>1, <2>2, <2>3, <2>4, <2>5, <2>6, <2>7, <2>8, <2>9 DEF Paso, agenda, AgendaReal!vars
<1>2. CASE UNCHANGED vars
  BY <1>2 DEF vars, agenda, AgendaReal!vars
<1> QED
  BY <1>1, <1>2

LEMMA InitServicio == Init => AgendaReal!Init
BY DEF Init, Agenda!Init, AgendaReal!Init, Agenda!Libre, AgendaReal!Libre

\* Seen from the service, the clients do what RegistroCitas lets them and no more: each
\* connection asks once and waits, and every request has the form that the proof of
\* Agendamiento covers, so what holds of the clients holds over the real service.
THEOREM ClienteDelRegistro == Spec => AgendaReal!Spec
<1> QED
  BY InitTipos, NextTipos, InitServicio, ServicioStep, PTL DEF Spec, AgendaReal!Spec
=============================================================================
