----------------------------- MODULE PagosProofs ----------------------------
(***************************************************************************)
(* What holds of service-pagos for any number of threads, of other clients *)
(* of service-agendamiento and of requests: payments name citas that exist.*)
(***************************************************************************)
EXTENDS Pagos, TLAPS

\* Cita ids that requests may name.
CitasPosibles == {s.citaId : s \in SolicitudesPago} \ {Nulo}
PagoPosible == [citaId: CitasPosibles, estado: EstadosPago]

HiloPosible == [fase: FasesPago,
                sol: Opcional(SolicitudPago),
                pago: Opcional(PagoPosible),
                leidos: SUBSET (Nat \X PagoPosible),
                faltan: SUBSET (Nat \X PagoPosible),
                resp: Opcional(RespuestasPago)]

\* The record of a request in the registry.
Ficha == [estadio: {"libre", "pendiente", "leida", "hecha", "contestada"},
          sol: Opcional(Solicitud),
          dato: SUBSET (Nat \X Cita),
          resp: Opcional(Respuestas)]

FichaCorrecta(a) == a \in Ficha /\ (a.estadio # "libre" => a.sol \in Solicitud)

AgendaCorrecta ==
  /\ citas \in Seq(Cita)
  /\ atencion \in [Peticiones -> Ficha]
  /\ \A u \in Peticiones : FichaCorrecta(atencion[u])

HiloCorrecto(p) ==
  /\ p \in HiloPosible
  /\ p.fase # "libre" => p.sol \in SolicitudesPago
  /\ p.fase \in {"validar", "guardar"} => p.pago \in PagoPosible
  /\ p.fase = "validar" => p.sol.op = "registrar"

\* The slot a holds, if anything, the question whether cita i exists; and if the
\* answer is yes then it does (ids are those of the citas).
Pregunta(a, i, ids) ==
  a.estadio # "libre" =>
    /\ a.sol.op = "verDetalle" /\ a.sol.id = i /\ a.estadio # "hecha"
    /\ a.estadio = "leida" \/ (a.estadio = "contestada" /\ a.resp = "200") => i \in ids

\* What thread p knows, given its slot a, the citas and the payments.
Informado(p, a, ids, idsPago) ==
  /\ p.fase = "recibida" => a.estadio = "libre"
  /\ p.fase = "validar" => Pregunta(a, p.pago.citaId, ids)
  /\ p.fase = "guardar" => /\ p.pago.citaId \in ids
                           /\ p.sol.op = "cambiarEstado" => p.sol.id \in idsPago

PagosCorrectos ==
  /\ pagos \in Seq(PagoPosible)
  /\ hilo \in [Hilos -> HiloPosible]
  /\ \A t \in Hilos : HiloCorrecto(hilo[t])

Inductivo ==
  /\ AgendaCorrecta
  /\ PagosCorrectos
  /\ PagoDeCitaExistente
  /\ \A t \in Hilos : Informado(hilo[t], atencion[t], DOMAIN citas, DOMAIN pagos)

-----------------------------------------------------------------------------
(***************************************************************************)
(* The registry: citas are only added, and a question stays a question.    *)
(***************************************************************************)
\* A new record for slot u.
LEMMA FichaCambia ==
  ASSUME AgendaCorrecta, NEW u \in Peticiones, NEW a, FichaCorrecta(a),
         atencion' = [atencion EXCEPT ![u] = a], citas' \in Seq(Cita)
  PROVE  /\ AgendaCorrecta' /\ atencion'[u] = a
         /\ \A v \in Peticiones : v # u => atencion'[v] = atencion[v]
BY DEF AgendaCorrecta, FichaCorrecta

LEMMA PedirFicha ==
  ASSUME AgendaCorrecta, NEW u \in Peticiones, NEW s \in Solicitud, Agenda!Pedir(u, s)
  PROVE  /\ AgendaCorrecta' /\ citas' = citas
         /\ atencion'[u].estadio = "pendiente" /\ atencion'[u].sol = s
         /\ atencion[u].estadio = "libre"
         /\ \A v \in Peticiones : v # u => atencion'[v] = atencion[v]
<1> DEFINE a == [atencion[u] EXCEPT !.estadio = "pendiente", !.sol = s]
<1>1. atencion[u] \in Ficha
  BY DEF AgendaCorrecta
<1>2. FichaCorrecta(a) /\ a.estadio = "pendiente" /\ a.sol = s
  BY <1>1 DEF FichaCorrecta, Ficha, Opcional
<1>3. /\ atencion' = [atencion EXCEPT ![u] = a] /\ citas' = citas
      /\ atencion[u].estadio = "libre"
  BY DEF Agenda!Pedir, Agenda!En
<1> HIDE DEF a
<1>4. citas' \in Seq(Cita)
  BY <1>3 DEF AgendaCorrecta
<1>5. QED
  BY <1>2, <1>3, <1>4, FichaCambia

LEMMA TerminarFicha ==
  ASSUME AgendaCorrecta, NEW u \in Peticiones, Agenda!Terminar(u)
  PROVE  /\ AgendaCorrecta' /\ citas' = citas
         /\ atencion[u].estadio = "contestada" /\ atencion'[u].estadio = "libre"
         /\ \A v \in Peticiones : v # u => atencion'[v] = atencion[v]
<1>1. FichaCorrecta(Agenda!Libre) /\ Agenda!Libre.estadio = "libre"
  BY DEF FichaCorrecta, Ficha, Agenda!Libre, Opcional
<1>2. atencion' = [atencion EXCEPT ![u] = Agenda!Libre] /\ citas' = citas
      /\ atencion[u].estadio = "contestada" /\ citas' \in Seq(Cita)
  BY DEF Agenda!Terminar, Agenda!En, AgendaCorrecta
<1>3. QED
  BY <1>1, <1>2, FichaCambia

\* A booking and a change of state: neither is a question.
LEMMA AgendarSegura ==
  ASSUME AgendaCorrecta, NEW u \in Peticiones, Agenda!Agendar(u)
  PROVE  /\ AgendaCorrecta' /\ DOMAIN citas \subseteq DOMAIN citas'
         /\ atencion[u].estadio = "pendiente" /\ atencion[u].sol.op # "verDetalle"
         /\ \A v \in Peticiones : v # u => atencion'[v] = atencion[v]
<1> DEFINE a == [atencion[u] EXCEPT !.estadio = "hecha"]
           c == Agenda!CitaDe(atencion[u].sol)
<1>1. atencion[u].estadio = "pendiente" /\ atencion[u].sol.op = "crear"
  BY DEF Agenda!Agendar, Agenda!En, Agenda!Sol
<1>2. FichaCorrecta(a)
  BY <1>1 DEF AgendaCorrecta, FichaCorrecta, Ficha
<1>3. c \in Cita
  BY <1>1 DEF AgendaCorrecta, FichaCorrecta, Agenda!Agendar, Agenda!Sol, Agenda!SinNulos,
     Agenda!CitaDe, Solicitud, Opcional, Cita
<1>4. citas' = Append(citas, c) /\ citas \in Seq(Cita)
  BY DEF Agenda!Agendar, Agenda!Sol, AgendaCorrecta
<1>5. citas' \in Seq(Cita) /\ DOMAIN citas \subseteq DOMAIN citas'
  BY <1>3, <1>4
<1>6. atencion' = [atencion EXCEPT ![u] = a]
  BY DEF Agenda!Agendar, Agenda!Pasa
<1> HIDE DEF a, c
<1>7. QED
  BY <1>1, <1>2, <1>5, <1>6, FichaCambia

LEMMA CambiarSegura ==
  ASSUME AgendaCorrecta, NEW u \in Peticiones, Agenda!CambiarEstado(u)
  PROVE  /\ AgendaCorrecta' /\ DOMAIN citas \subseteq DOMAIN citas'
         /\ atencion[u].estadio = "pendiente" /\ atencion[u].sol.op # "verDetalle"
         /\ \A v \in Peticiones : v # u => atencion'[v] = atencion[v]
<1> DEFINE a == [atencion[u] EXCEPT !.estadio = "hecha"]
<1>1. atencion[u].estadio = "pendiente" /\ atencion[u].sol.op = "cambiarEstado"
  BY DEF Agenda!CambiarEstado, Agenda!En, Agenda!Sol
<1>2. FichaCorrecta(a)
  BY <1>1 DEF AgendaCorrecta, FichaCorrecta, Ficha
<1>3. citas' \in Seq(Cita) /\ DOMAIN citas \subseteq DOMAIN citas'
  <2> DEFINE i == atencion[u].sol.id
             c == [citas[i] EXCEPT !.estado = atencion[u].sol.estado]
  <2>1. citas \in Seq(Cita) /\ i \in DOMAIN citas /\ citas[i] \in Cita
        /\ atencion[u].sol.estado \in Estados
    BY <1>1 DEF Agenda!CambiarEstado, Agenda!Sol, AgendaCorrecta, FichaCorrecta, Solicitud
  <2>2. c \in Cita
    <3> DEFINE e == atencion[u].sol.estado
               f == citas[i]
    <3> HIDE DEF e, f, i
    <3>1. f \in Cita /\ e \in Estados
      BY <2>1 DEF e, f
    <3>2. [f EXCEPT !.estado = e] \in Cita
      BY <3>1 DEF Cita
    <3>3. QED
      BY <3>2 DEF e, f
  <2>3. citas' = [citas EXCEPT ![i] = c] \/ citas' = citas
    BY DEF Agenda!CambiarEstado, Agenda!Sol
  <2> HIDE DEF c, i
  <2>4. QED
    BY <2>1, <2>2, <2>3
<1>4. atencion' = [atencion EXCEPT ![u] = a]
  BY DEF Agenda!CambiarEstado, Agenda!Pasa
<1> HIDE DEF a
<1>5. QED
  BY <1>1, <1>2, <1>3, <1>4, FichaCambia

LEMMA LeerSegura ==
  ASSUME AgendaCorrecta, NEW u \in Peticiones, Agenda!Leer(u)
  PROVE  /\ AgendaCorrecta' /\ citas' = citas
         /\ atencion[u].estadio = "pendiente" /\ atencion'[u].sol = atencion[u].sol
         /\ atencion'[u].estadio = "leida"
         /\ atencion[u].sol.op = "verDetalle" => atencion[u].sol.id \in DOMAIN citas
         /\ \A v \in Peticiones : v # u => atencion'[v] = atencion[v]
<1> DEFINE d == Agenda!Leidas(atencion[u].sol, citas)
           a == [atencion[u] EXCEPT !.estadio = "leida", !.dato = d]
<1>1. atencion[u].estadio = "pendiente" /\ citas' = citas
      /\ (atencion[u].sol.op = "verDetalle" => atencion[u].sol.id \in DOMAIN citas)
  BY DEF Agenda!Leer, Agenda!En, Agenda!Sol
<1>2. citas \in Seq(Cita) /\ d \in SUBSET (Nat \X Cita)
  BY DEF AgendaCorrecta, Agenda!Leidas
<1>3. atencion' = [atencion EXCEPT ![u] = a]
  BY DEF Agenda!Leer, Agenda!Sol
<1> HIDE DEF d
<1>4. FichaCorrecta(a) /\ a.estadio = "leida" /\ a.sol = atencion[u].sol
  BY <1>1, <1>2 DEF AgendaCorrecta, FichaCorrecta, Ficha
<1> HIDE DEF a
<1>5. QED
  BY <1>1, <1>2, <1>3, <1>4, FichaCambia

LEMMA ContestarSegura ==
  ASSUME AgendaCorrecta, NEW u \in Peticiones, NEW r \in {"200"} \cup Errores,
         Agenda!Contestar(u, r)
  PROVE  /\ AgendaCorrecta' /\ citas' = citas
         /\ atencion[u].estadio # "libre" /\ atencion'[u].sol = atencion[u].sol
         /\ atencion'[u].estadio = "contestada" /\ atencion'[u].resp = r
         /\ r = "200" => atencion[u].estadio \in {"hecha", "leida"}
         /\ \A v \in Peticiones : v # u => atencion'[v] = atencion[v]
<1> DEFINE a == [atencion[u] EXCEPT !.estadio = "contestada", !.resp = r]
<1>1. /\ atencion[u].estadio # "libre" /\ citas' = citas
      /\ r = "200" => atencion[u].estadio \in {"hecha", "leida"}
      /\ atencion' = [atencion EXCEPT ![u] = a]
  BY DEF Agenda!Contestar, Agenda!En, Errores
<1>2. r \in Opcional(Respuestas) /\ citas' \in Seq(Cita)
  BY <1>1 DEF Opcional, Respuestas, AgendaCorrecta
<1>3. /\ FichaCorrecta(a) /\ a.estadio = "contestada" /\ a.resp = r
      /\ a.sol = atencion[u].sol
  BY <1>1, <1>2 DEF AgendaCorrecta, FichaCorrecta, Ficha
<1> HIDE DEF a
<1>4. QED
  BY <1>1, <1>2, <1>3, FichaCambia

LEMMA PerderSegura ==
  ASSUME AgendaCorrecta, Agenda!Perder
  PROVE  /\ AgendaCorrecta' /\ citas' = citas
         /\ \A u \in Peticiones :
              \/ atencion'[u] = atencion[u]
              \/ /\ atencion[u].estadio # "libre" /\ atencion'[u].sol = atencion[u].sol
                 /\ atencion'[u].estadio = "contestada"
                 /\ atencion'[u].resp = "sinRespuesta"
<1>1. ASSUME NEW u \in Peticiones
      PROVE  /\ FichaCorrecta(atencion'[u])
             /\ \/ atencion'[u] = atencion[u]
                \/ /\ atencion[u].estadio # "libre" /\ atencion'[u].sol = atencion[u].sol
                   /\ atencion'[u].estadio = "contestada"
                   /\ atencion'[u].resp = "sinRespuesta"
  <2> DEFINE a == [atencion[u] EXCEPT !.estadio = "contestada", !.resp = "sinRespuesta"]
  <2>1. atencion'[u] = IF atencion[u].estadio \in {"libre", "contestada"} THEN atencion[u]
                       ELSE a
    BY DEF Agenda!Perder
  <2>2. FichaCorrecta(atencion[u])
    BY DEF AgendaCorrecta
  <2>3. CASE atencion[u].estadio \in {"libre", "contestada"}
    BY <2>1, <2>2, <2>3
  <2>4. CASE atencion[u].estadio \notin {"libre", "contestada"}
    <3>1. /\ FichaCorrecta(a) /\ a.sol = atencion[u].sol /\ a.estadio = "contestada"
          /\ a.resp = "sinRespuesta"
      BY <2>2, <2>4 DEF FichaCorrecta, Ficha, Opcional, Respuestas
    <3>2. QED
      BY <2>1, <2>4, <3>1
  <2>5. QED
    BY <2>3, <2>4
<1>2. citas' = citas /\ atencion' \in [Peticiones -> Ficha]
  <2>1. DOMAIN atencion' = Peticiones /\ citas' = citas
        /\ atencion' = [u \in Peticiones |-> atencion'[u]]
    BY DEF Agenda!Perder
  <2>2. QED
    BY <1>1, <2>1 DEF FichaCorrecta
<1>3. QED
  BY <1>1, <1>2 DEF AgendaCorrecta

\* Whatever service-agendamiento does, it loses no cita, and the slot of a thread
\* keeps its question or stays free.
LEMMA AgendaSegura ==
  ASSUME AgendaCorrecta, Agendamiento
  PROVE  /\ AgendaCorrecta' /\ DOMAIN citas \subseteq DOMAIN citas'
         /\ \A t \in Hilos :
              /\ atencion[t].estadio = "libre" => atencion'[t].estadio = "libre"
              /\ \A i : Pregunta(atencion[t], i, DOMAIN citas)
                          => Pregunta(atencion'[t], i, DOMAIN citas')
<1> DEFINE Sigue1(t) ==
             /\ atencion[t].estadio = "libre" => atencion'[t].estadio = "libre"
             /\ \A i : Pregunta(atencion[t], i, DOMAIN citas)
                         => Pregunta(atencion'[t], i, DOMAIN citas')
           Bien == /\ AgendaCorrecta' /\ DOMAIN citas \subseteq DOMAIN citas'
                   /\ \A t \in Hilos : Sigue1(t)
<1>1. ASSUME NEW t, atencion'[t] = atencion[t], DOMAIN citas \subseteq DOMAIN citas'
      PROVE  Sigue1(t)
  BY <1>1 DEF Pregunta
<1>2. ASSUME NEW u \in Peticiones, Atender(u) PROVE Bien
  <2>1. CASE Agenda!Agendar(u) \/ Agenda!CambiarEstado(u)
    <3>1. /\ AgendaCorrecta' /\ DOMAIN citas \subseteq DOMAIN citas'
          /\ atencion[u].estadio = "pendiente" /\ atencion[u].sol.op # "verDetalle"
          /\ \A v \in Peticiones : v # u => atencion'[v] = atencion[v]
      BY <2>1, AgendarSegura, CambiarSegura
    <3>2. Sigue1(u)
      BY <3>1 DEF Pregunta
    <3>3. QED
      BY <3>1, <3>2, <1>1, PagosAssumption
  <2>2. CASE Agenda!Leer(u)
    <3>1. /\ AgendaCorrecta' /\ citas' = citas
          /\ atencion[u].estadio = "pendiente" /\ atencion'[u].sol = atencion[u].sol
          /\ atencion'[u].estadio = "leida"
          /\ atencion[u].sol.op = "verDetalle" => atencion[u].sol.id \in DOMAIN citas
          /\ \A v \in Peticiones : v # u => atencion'[v] = atencion[v]
      BY <2>2, LeerSegura
    <3>2. Sigue1(u)
      BY <3>1 DEF Pregunta
    <3>3. QED
      BY <3>1, <3>2, <1>1, PagosAssumption
  <2>3. ASSUME NEW r \in {"200"} \cup Errores, Agenda!Contestar(u, r) PROVE Bien
    <3>1. /\ AgendaCorrecta' /\ citas' = citas
          /\ atencion[u].estadio # "libre" /\ atencion'[u].sol = atencion[u].sol
          /\ atencion'[u].estadio = "contestada" /\ atencion'[u].resp = r
          /\ r = "200" => atencion[u].estadio \in {"hecha", "leida"}
          /\ \A v \in Peticiones : v # u => atencion'[v] = atencion[v]
      BY <2>3, ContestarSegura
    <3>2. Sigue1(u)
      BY <3>1 DEF Pregunta
    <3>3. QED
      BY <3>1, <3>2, <1>1, PagosAssumption
  <2>4. QED
    BY <1>2, <2>1, <2>2, <2>3 DEF Atender
<1>3. ASSUME NEW u \in Peticiones \ Hilos, Ajeno(u) PROVE Bien
  <2>1. /\ AgendaCorrecta' /\ citas' = citas
        /\ \A v \in Peticiones : v # u => atencion'[v] = atencion[v]
    BY <1>3, PedirFicha, TerminarFicha, CitasAssumption DEF Ajeno
  <2>2. QED
    BY <2>1, <1>1, PagosAssumption
<1>4. CASE Agenda!Perder
  <2>1. AgendaCorrecta' /\ citas' = citas
    BY <1>4, PerderSegura
  <2>2. ASSUME NEW t \in Hilos PROVE Sigue1(t)
    <3>1. t \in Peticiones
      BY PagosAssumption
    <3>2. CASE atencion'[t] = atencion[t]
      BY <3>2, <2>1, <1>1
    <3>3. CASE /\ atencion[t].estadio # "libre" /\ atencion'[t].sol = atencion[t].sol
               /\ atencion'[t].estadio = "contestada"
               /\ atencion'[t].resp = "sinRespuesta"
      BY <3>3 DEF Pregunta
    <3>4. QED
      BY <1>4, <3>1, <3>2, <3>3, PerderSegura
  <2>3. QED
    BY <2>1, <2>2
<1>5. ASSUME NEW s \in Catalogos, Agenda!Conocer(s) PROVE Bien
  <2>1. citas' = citas /\ atencion' = atencion
    BY <1>5 DEF Agenda!Conocer
  <2>2. QED
    BY <2>1, <1>1 DEF AgendaCorrecta
<1>6. QED
  BY <1>2, <1>3, <1>4, <1>5 DEF Agendamiento

-----------------------------------------------------------------------------
(***************************************************************************)
(* The threads of service-pagos.                                           *)
(***************************************************************************)
\* A request replaces the record of one thread; payments and citas only grow.
LEMMA HiloCambia ==
  ASSUME Inductivo, AgendaCorrecta', NEW t \in Hilos, NEW q, HiloCorrecto(q),
         hilo' = [hilo EXCEPT ![t] = q],
         pagos' \in Seq(PagoPosible), PagoDeCitaExistente',
         DOMAIN citas \subseteq DOMAIN citas', DOMAIN pagos \subseteq DOMAIN pagos',
         \A u \in Hilos : u # t => atencion'[u] = atencion[u],
         Informado(q, atencion'[t], DOMAIN citas', DOMAIN pagos')
  PROVE  Inductivo'
<1>1. \A u \in Hilos : hilo'[u] = IF u = t THEN q ELSE hilo[u]
  BY DEF Inductivo, PagosCorrectos
<1>2. PagosCorrectos'
  BY <1>1 DEF Inductivo, PagosCorrectos, HiloCorrecto
<1>3. ASSUME NEW u \in Hilos, u # t
      PROVE  Informado(hilo'[u], atencion'[u], DOMAIN citas', DOMAIN pagos')
  <2>1. Informado(hilo[u], atencion[u], DOMAIN citas, DOMAIN pagos)
    BY DEF Inductivo
  <2>2. hilo'[u] = hilo[u] /\ atencion'[u] = atencion[u]
    BY <1>1, <1>3
  <2>3. QED
    BY <2>1, <2>2 DEF Informado, Pregunta
<1>4. \A u \in Hilos : Informado(hilo'[u], atencion'[u], DOMAIN citas', DOMAIN pagos')
  BY <1>1, <1>3
<1>5. QED
  BY <1>2, <1>4 DEF Inductivo

\* What most steps leave alone.
LEMMA Quieto ==
  ASSUME Inductivo, UNCHANGED <<pagos, agenda>>
  PROVE  /\ AgendaCorrecta' /\ pagos' \in Seq(PagoPosible) /\ PagoDeCitaExistente'
         /\ DOMAIN citas \subseteq DOMAIN citas' /\ DOMAIN pagos \subseteq DOMAIN pagos'
         /\ atencion' = atencion /\ citas' = citas /\ pagos' = pagos
BY DEF Inductivo, AgendaCorrecta, PagosCorrectos, PagoDeCitaExistente, agenda

LEMMA RecibirSegura ==
  ASSUME Inductivo, NEW t \in Hilos, Recibir(t)
  PROVE  Inductivo'
<1>1. PICK s \in SolicitudesPago :
        hilo' = [hilo EXCEPT ![t] = [hilo[t] EXCEPT !.fase = "recibida", !.sol = s]]
  BY DEF Recibir
<1> DEFINE q == [hilo[t] EXCEPT !.fase = "recibida", !.sol = s]
<1>2. hilo[t] \in HiloPosible /\ s \in Opcional(SolicitudPago)
  BY DatosPagosAssumption DEF Inductivo, PagosCorrectos, Opcional
<1>3. HiloCorrecto(q) /\ q.fase = "recibida"
  BY <1>2 DEF HiloCorrecto, HiloPosible, FasesPago
<1>4. atencion[t].estadio = "libre" /\ UNCHANGED <<pagos, agenda>>
  BY DEF Recibir
<1> HIDE DEF q
<1>5. Informado(q, atencion[t], DOMAIN citas, DOMAIN pagos)
  BY <1>3, <1>4 DEF Informado
<1>6. hilo' = [hilo EXCEPT ![t] = q]
  BY <1>1 DEF q
<1>7. QED
  BY <1>3, <1>4, <1>5, <1>6, Quieto, HiloCambia

\* The request has its answer, with nothing written.
LEMMA ResponderSegura ==
  ASSUME Inductivo, NEW t \in Hilos, hilo[t].fase # "libre", NEW r \in RespuestasPago,
         Responder(t, r), AgendaCorrecta', citas' = citas, pagos' = pagos,
         \A u \in Hilos : u # t => atencion'[u] = atencion[u]
  PROVE  Inductivo'
<1> DEFINE q == [hilo[t] EXCEPT !.fase = "resuelta", !.pago = Nulo, !.resp = r]
<1>1. HiloCorrecto(hilo[t])
  BY DEF Inductivo, PagosCorrectos
<1>2. HiloCorrecto(q) /\ q.fase = "resuelta"
  BY <1>1 DEF HiloCorrecto, HiloPosible, Opcional, FasesPago
<1>3. hilo' = [hilo EXCEPT ![t] = q]
  BY DEF Responder
<1> HIDE DEF q
<1>4. Informado(q, atencion'[t], DOMAIN citas', DOMAIN pagos')
  BY <1>2 DEF Informado
<1>5. pagos' \in Seq(PagoPosible) /\ PagoDeCitaExistente'
  BY DEF Inductivo, PagosCorrectos, PagoDeCitaExistente
<1>6. QED
  BY <1>2, <1>3, <1>4, <1>5, HiloCambia

\* The request is done and these rows are left to enrich.
LEMMA EnriquecerSegura ==
  ASSUME Inductivo, NEW t \in Hilos, hilo[t].fase # "libre",
         NEW filas \in SUBSET (Nat \X PagoPosible), EntraEnriquecer(t, filas),
         UNCHANGED agenda, pagos' \in Seq(PagoPosible), PagoDeCitaExistente',
         DOMAIN pagos \subseteq DOMAIN pagos'
  PROVE  Inductivo'
<1> DEFINE q == [hilo[t] EXCEPT !.fase = "resuelta", !.leidos = filas, !.pago = Nulo,
                                !.faltan = filas, !.resp = "200"]
<1>1. HiloCorrecto(hilo[t])
  BY DEF Inductivo, PagosCorrectos
<1>2. HiloCorrecto(q) /\ q.fase = "resuelta"
  <2>1. "200" \in RespuestasPago
    BY DEF RespuestasPago
  <2>2. QED
    BY <1>1, <2>1 DEF HiloCorrecto, HiloPosible, Opcional, FasesPago
<1>3. hilo' = [hilo EXCEPT ![t] = q]
  BY DEF EntraEnriquecer
<1> HIDE DEF q
<1>4. Informado(q, atencion'[t], DOMAIN citas', DOMAIN pagos')
  BY <1>2 DEF Informado
<1>5. AgendaCorrecta' /\ citas' = citas /\ atencion' = atencion
  BY DEF agenda, Inductivo, AgendaCorrecta
<1>6. QED
  BY <1>2, <1>3, <1>4, <1>5, HiloCambia

\* The thread goes on with its connection free or waiting, and a new phase.
LEMMA AvanzaSegura ==
  ASSUME Inductivo, NEW t \in Hilos, NEW q, HiloCorrecto(q),
         hilo' = [hilo EXCEPT ![t] = q], UNCHANGED pagos,
         AgendaCorrecta', citas' = citas,
         \A u \in Hilos : u # t => atencion'[u] = atencion[u],
         Informado(q, atencion'[t], DOMAIN citas, DOMAIN pagos)
  PROVE  Inductivo'
<1>1. pagos' \in Seq(PagoPosible) /\ PagoDeCitaExistente'
  BY DEF Inductivo, PagosCorrectos, PagoDeCitaExistente
<1>2. QED
  BY <1>1, HiloCambia

LEMMA RegistrarSegura ==
  ASSUME Inductivo, NEW t \in Hilos, Registrar(t)
  PROVE  Inductivo'
<1>1. /\ hilo[t].fase = "recibida" /\ UNCHANGED <<pagos, agenda>>
      /\ HiloCorrecto(hilo[t]) /\ hilo[t].sol \in SolicitudesPago
      /\ atencion[t].estadio = "libre" /\ hilo[t].sol.op = "registrar"
  BY DEF Registrar, Fase, Op, Inductivo, PagosCorrectos, HiloCorrecto, Informado
<1>2. CASE hilo[t].sol.citaId = Nulo
  <2>1. Responder(t, "500") /\ "500" \in RespuestasPago
    BY <1>2 DEF Registrar, RespuestasPago
  <2>2. QED
    BY <1>1, <2>1, Quieto, ResponderSegura
<1>3. CASE hilo[t].sol.citaId # Nulo
  <2> DEFINE c == PagoDe(hilo[t].sol)
             q == [hilo[t] EXCEPT !.fase = "validar", !.pago = c]
  <2>1. c \in PagoPosible
    BY <1>1, <1>3, DatosPagosAssumption
       DEF PagoDe, PagoPosible, CitasPosibles, SolicitudPago, Opcional
  <2>2. hilo' = [hilo EXCEPT ![t] = q]
    BY <1>3 DEF Registrar
  <2> HIDE DEF c
  <2>3. HiloCorrecto(q) /\ q.fase = "validar"
    BY <1>1, <2>1 DEF HiloCorrecto, HiloPosible, Opcional, FasesPago
  <2> HIDE DEF q
  <2>4. Informado(q, atencion[t], DOMAIN citas, DOMAIN pagos)
    BY <1>1, <2>3 DEF Informado, Pregunta
  <2>5. QED
    BY <1>1, <2>2, <2>3, <2>4, Quieto, AvanzaSegura
<1>4. QED
  BY <1>2, <1>3

LEMMA ConsultarSegura ==
  ASSUME Inductivo, NEW t \in Hilos, Leer(t)
  PROVE  Inductivo'
<1> DEFINE d == PagosLeidos(hilo[t].sol, pagos)
<1>1. hilo[t].fase # "libre" /\ UNCHANGED <<pagos, agenda>>
  BY DEF Leer, Fase
<1>2. d \in SUBSET (Nat \X PagoPosible)
  BY DEF PagosLeidos, Inductivo, PagosCorrectos
<1>3. Responder(t, "404") \/ EntraEnriquecer(t, d)
  BY DEF Leer
<1>4. "404" \in RespuestasPago /\ UNCHANGED agenda
  BY <1>1 DEF RespuestasPago
<1> HIDE DEF d
<1>5. QED
  BY <1>1, <1>2, <1>3, <1>4, Quieto, ResponderSegura, EnriquecerSegura

LEMMA BuscarSegura ==
  ASSUME Inductivo, NEW t \in Hilos, Buscar(t)
  PROVE  Inductivo'
<1> DEFINE i == hilo[t].sol.id
<1>1. /\ hilo[t].fase = "recibida" /\ UNCHANGED <<pagos, agenda>>
      /\ HiloCorrecto(hilo[t]) /\ hilo[t].sol \in SolicitudesPago
      /\ hilo[t].sol.op = "cambiarEstado"
  BY DEF Buscar, Fase, Op, Inductivo, PagosCorrectos, HiloCorrecto
<1>2. CASE i \notin DOMAIN pagos
  <2>1. Responder(t, "500") /\ "500" \in RespuestasPago
    BY <1>2 DEF Buscar, RespuestasPago
  <2>2. QED
    BY <1>1, <2>1, Quieto, ResponderSegura
<1>3. CASE i \in DOMAIN pagos
  <2> DEFINE e == hilo[t].sol.estado
             f == pagos[i]
             c == [f EXCEPT !.estado = e]
             l == {<<i, f>>}
             q == [hilo[t] EXCEPT !.fase = "guardar", !.leidos = l, !.pago = c]
  <2>1. /\ f \in PagoPosible /\ f.citaId \in DOMAIN citas /\ l \in SUBSET (Nat \X PagoPosible)
        /\ e \in EstadosPago
    BY <1>1, <1>3, DatosPagosAssumption
       DEF Inductivo, PagosCorrectos, PagoDeCitaExistente, SolicitudPago, Opcional
  <2>2. hilo' = [hilo EXCEPT ![t] = q]
    BY <1>3 DEF Buscar
  <2> HIDE DEF e, f, l, i
  <2>3. c \in PagoPosible /\ c.citaId = f.citaId
    BY <2>1 DEF PagoPosible
  <2> HIDE DEF c
  <2>4. HiloCorrecto(q) /\ q.fase = "guardar" /\ q.pago = c /\ q.sol = hilo[t].sol
    BY <1>1, <2>1, <2>3 DEF HiloCorrecto, HiloPosible, Opcional, FasesPago
  <2> HIDE DEF q
  <2>5. Informado(q, atencion[t], DOMAIN citas, DOMAIN pagos)
    BY <1>3, <2>1, <2>3, <2>4 DEF Informado, i
  <2>6. QED
    BY <1>1, <2>2, <2>4, <2>5, Quieto, AvanzaSegura
<1>4. QED
  BY <1>2, <1>3

\* A thread asks for a cita that requests may name, with a request of an ADMIN.
LEMMA ConsultaPosible ==
  ASSUME Inductivo, NEW t \in Hilos, Llamar(t)
  PROVE  LET s == Consulta(CitaBuscada(t)) IN
         s \in Solicitudes /\ s.op = "verDetalle" /\ s.id = CitaBuscada(t)
<1> DEFINE i == CitaBuscada(t)
           s == Consulta(i)
<1>1. HiloCorrecto(hilo[t])
  BY DEF Inductivo, PagosCorrectos
<1>2. i \in CitasPosibles
  <2>1. CASE Fase(t, "validar")
    BY <1>1, <2>1 DEF CitaBuscada, HiloCorrecto, PagoPosible, Fase
  <2>2. CASE ~Fase(t, "validar")
    <3>1. Siguiente(t) \in hilo[t].faltan
      BY <2>2 DEF Llamar, PorEnriquecer, Siguiente
    <3>2. Siguiente(t)[2] \in PagoPosible
      BY <1>1, <3>1 DEF HiloCorrecto, HiloPosible
    <3>3. QED
      BY <2>2, <3>2 DEF CitaBuscada, PagoPosible
  <2>3. QED
    BY <2>1, <2>2
<1> HIDE DEF i
<1>3. \E x \in Solicitudes : x.op = "verDetalle" /\ x.id = i /\ x.rol = "ADMIN"
  BY <1>2, PagosAssumption DEF CitasPosibles
<1>4. s \in Solicitudes /\ s.op = "verDetalle" /\ s.id = i
  BY <1>3 DEF Consulta
<1>5. QED
  BY <1>4 DEF i

LEMMA LlamarSegura ==
  ASSUME Inductivo, NEW t \in Hilos, Llamar(t)
  PROVE  Inductivo'
<1> DEFINE i == CitaBuscada(t)
           s == Consulta(i)
<1>1. HiloCorrecto(hilo[t]) /\ t \in Peticiones
  BY PagosAssumption DEF Inductivo, PagosCorrectos
<1>3. s \in Solicitud /\ s.op = "verDetalle" /\ s.id = i
  BY ConsultaPosible, CitasAssumption
<1> HIDE DEF i
<1>4. Agenda!Pedir(t, s) /\ UNCHANGED <<pagos, hilo>>
  BY DEF Llamar, i
<1> HIDE DEF s
<1>5. /\ AgendaCorrecta' /\ citas' = citas
      /\ atencion'[t].estadio = "pendiente" /\ atencion'[t].sol = s
      /\ \A v \in Peticiones : v # t => atencion'[v] = atencion[v]
  BY <1>1, <1>3, <1>4, PedirFicha DEF Inductivo
<1>6. Informado(hilo[t], atencion'[t], DOMAIN citas, DOMAIN pagos)
  <2>1. hilo[t].fase \in {"validar", "resuelta"}
    BY DEF Llamar, Fase, PorEnriquecer
  <2>2. hilo[t].fase = "validar" => i = hilo[t].pago.citaId
    BY DEF i, CitaBuscada, Fase
  <2>3. QED
    BY <1>3, <1>5, <2>1, <2>2 DEF Informado, Pregunta
<1>7. hilo' = [hilo EXCEPT ![t] = hilo[t]]
  BY <1>4 DEF Inductivo, PagosCorrectos
<1>8. QED
  BY <1>1, <1>4, <1>5, <1>6, <1>7, AvanzaSegura, PagosAssumption

\* What a thread learns from fetchCita is true: it saves a payment only for a cita
\* that is there.
LEMMA SigueSegura ==
  ASSUME Inductivo, NEW t \in Hilos, NEW si \in BOOLEAN, Sigue(t, si), UNCHANGED pagos,
         AgendaCorrecta', citas' = citas,
         \A u \in Hilos : u # t => atencion'[u] = atencion[u],
         si /\ hilo[t].fase = "validar" => hilo[t].pago.citaId \in DOMAIN citas
  PROVE  Inductivo'
<1>1. HiloCorrecto(hilo[t]) /\ "500" \in RespuestasPago
  BY DEF Inductivo, PagosCorrectos, RespuestasPago
<1>2. CASE Fase(t, "validar") /\ si
  <2> DEFINE q == [hilo[t] EXCEPT !.fase = "guardar"]
  <2>1. hilo' = [hilo EXCEPT ![t] = q]
    BY <1>2 DEF Sigue, PorEnriquecer, Fase
  <2>2. /\ HiloCorrecto(q) /\ q.fase = "guardar" /\ q.pago = hilo[t].pago
        /\ q.sol.op = "registrar"
    BY <1>1, <1>2 DEF HiloCorrecto, HiloPosible, FasesPago, Fase
  <2> HIDE DEF q
  <2>3. Informado(q, atencion'[t], DOMAIN citas, DOMAIN pagos)
    BY <1>2, <2>2 DEF Informado, Fase
  <2>4. QED
    BY <2>1, <2>2, <2>3, AvanzaSegura
<1>3. CASE Fase(t, "validar") /\ ~si
  <2>1. Responder(t, "500") /\ hilo[t].fase # "libre"
    BY <1>3 DEF Sigue, PorEnriquecer, Fase
  <2>2. QED
    BY <1>1, <2>1, ResponderSegura
<1>4. CASE PorEnriquecer(t)
  <2> DEFINE f == hilo[t].faltan \ {Siguiente(t)}
             q == [hilo[t] EXCEPT !.faltan = f]
  <2>1. hilo' = [hilo EXCEPT ![t] = q]
    BY <1>4 DEF Sigue, PorEnriquecer, Fase
  <2>2. f \in SUBSET (Nat \X PagoPosible) /\ hilo[t].fase = "resuelta"
    BY <1>1, <1>4 DEF HiloCorrecto, HiloPosible, PorEnriquecer, Fase
  <2> HIDE DEF f
  <2>3. HiloCorrecto(q) /\ q.fase = "resuelta"
    BY <1>1, <2>2 DEF HiloCorrecto, HiloPosible
  <2> HIDE DEF q
  <2>4. Informado(q, atencion'[t], DOMAIN citas, DOMAIN pagos)
    BY <2>3 DEF Informado
  <2>5. QED
    BY <2>1, <2>3, <2>4, AvanzaSegura
<1>5. QED
  BY <1>2, <1>3, <1>4 DEF Sigue

LEMMA RecogerSegura ==
  ASSUME Inductivo, NEW t \in Hilos, Recoger(t)
  PROVE  Inductivo'
<1>1. t \in Peticiones /\ AgendaCorrecta /\ Agenda!Terminar(t) /\ UNCHANGED pagos
  BY PagosAssumption DEF Inductivo, Recoger
<1>2. /\ AgendaCorrecta' /\ citas' = citas /\ atencion[t].estadio = "contestada"
      /\ \A v \in Peticiones : v # t => atencion'[v] = atencion[v]
  BY <1>1, TerminarFicha
<1>3. hilo[t].fase = "validar" /\ atencion[t].resp = "200"
        => hilo[t].pago.citaId \in DOMAIN citas
  BY <1>2 DEF Inductivo, Informado, Pregunta
<1>4. Sigue(t, atencion[t].resp = "200")
  BY DEF Recoger
<1>5. QED
  BY <1>1, <1>2, <1>3, <1>4, SigueSegura, PagosAssumption

LEMMA SinConexionSegura ==
  ASSUME Inductivo, NEW t \in Hilos, SinConexion(t)
  PROVE  Inductivo'
BY Quieto, SigueSegura DEF SinConexion

LEMMA InsertarSegura ==
  ASSUME Inductivo, NEW t \in Hilos, Insertar(t)
  PROVE  Inductivo'
<1> DEFINE c == hilo[t].pago
           filas == {<<Len(pagos) + 1, c>>}
<1>1. /\ hilo[t].fase = "guardar" /\ c \in PagoPosible /\ c.citaId \in DOMAIN citas
      /\ pagos \in Seq(PagoPosible) /\ UNCHANGED agenda
  BY DEF Insertar, Fase, Inductivo, PagosCorrectos, HiloCorrecto, Informado
<1>2. pagos' = Append(pagos, c) /\ EntraEnriquecer(t, filas)
  BY DEF Insertar
<1> HIDE DEF c
<1>3. /\ filas \in SUBSET (Nat \X PagoPosible) /\ pagos' \in Seq(PagoPosible)
      /\ DOMAIN pagos \subseteq DOMAIN pagos'
  BY <1>1, <1>2
<1>4. PagoDeCitaExistente'
  BY <1>1, <1>2 DEF Inductivo, PagoDeCitaExistente, agenda
<1> HIDE DEF filas
<1>5. QED
  BY <1>1, <1>2, <1>3, <1>4, EnriquecerSegura

LEMMA ActualizarSegura ==
  ASSUME Inductivo, NEW t \in Hilos, Actualizar(t)
  PROVE  Inductivo'
<1> DEFINE i == hilo[t].sol.id
           c == hilo[t].pago
           filas == {<<i, c>>}
<1>1. /\ hilo[t].fase = "guardar" /\ c \in PagoPosible /\ c.citaId \in DOMAIN citas
      /\ i \in DOMAIN pagos /\ pagos \in Seq(PagoPosible) /\ UNCHANGED agenda
  BY DEF Actualizar, Fase, Op, Inductivo, PagosCorrectos, HiloCorrecto, Informado
<1>2. (pagos' = pagos \/ pagos' = [pagos EXCEPT ![i] = c]) /\ EntraEnriquecer(t, filas)
  BY DEF Actualizar
<1> HIDE DEF c, i
<1>3. /\ filas \in SUBSET (Nat \X PagoPosible) /\ pagos' \in Seq(PagoPosible)
      /\ DOMAIN pagos \subseteq DOMAIN pagos'
  BY <1>1, <1>2
<1>4. PagoDeCitaExistente'
  BY <1>1, <1>2 DEF Inductivo, PagoDeCitaExistente, agenda
<1> HIDE DEF filas
<1>5. QED
  BY <1>1, <1>2, <1>3, <1>4, EnriquecerSegura

LEMMA FinalesSeguros ==
  ASSUME Inductivo, NEW t \in Hilos, GuardarFalla(t) \/ Contestar(t) \/ Terminar(t)
  PROVE  Inductivo'
<1>1. HiloCorrecto(hilo[t]) /\ UNCHANGED <<pagos, agenda>>
  BY DEF Inductivo, PagosCorrectos, GuardarFalla, Contestar, Terminar
<1>2. CASE GuardarFalla(t)
  <2>1. Responder(t, "500") /\ hilo[t].fase # "libre" /\ "500" \in RespuestasPago
    BY <1>2 DEF GuardarFalla, Fase, RespuestasPago
  <2>2. QED
    BY <1>1, <2>1, Quieto, ResponderSegura
<1>3. CASE Contestar(t)
  <2> DEFINE q == [hilo[t] EXCEPT !.fase = "respondida"]
  <2>1. hilo' = [hilo EXCEPT ![t] = q]
    BY <1>3 DEF Contestar
  <2>2. HiloCorrecto(q) /\ q.fase = "respondida"
    BY <1>1, <1>3 DEF HiloCorrecto, HiloPosible, FasesPago, Contestar, Fase
  <2> HIDE DEF q
  <2>3. Informado(q, atencion[t], DOMAIN citas, DOMAIN pagos)
    BY <2>2 DEF Informado
  <2>4. QED
    BY <1>1, <2>1, <2>2, <2>3, Quieto, AvanzaSegura
<1>4. CASE Terminar(t)
  <2>1. hilo' = [hilo EXCEPT ![t] = Vacio]
    BY <1>4 DEF Terminar
  <2>2. HiloCorrecto(Vacio) /\ Vacio.fase = "libre"
    BY DEF HiloCorrecto, HiloPosible, FasesPago, Vacio, Opcional
  <2>3. Informado(Vacio, atencion[t], DOMAIN citas, DOMAIN pagos)
    BY <2>2 DEF Informado
  <2>4. QED
    BY <1>1, <2>1, <2>2, <2>3, Quieto, AvanzaSegura
<1>5. QED
  BY <1>2, <1>3, <1>4

LEMMA DescartarSegura ==
  ASSUME Inductivo, NEW t \in Hilos, Descartar(t)
  PROVE  Inductivo'
<1>1. /\ t \in Peticiones /\ AgendaCorrecta /\ Agenda!Terminar(t)
      /\ UNCHANGED <<pagos, hilo>> /\ HiloCorrecto(hilo[t])
      /\ hilo[t].fase \in {"libre", "respondida"}
  BY PagosAssumption DEF Inductivo, PagosCorrectos, Descartar, EnCurso
<1>2. /\ AgendaCorrecta' /\ citas' = citas
      /\ \A v \in Peticiones : v # t => atencion'[v] = atencion[v]
  BY <1>1, TerminarFicha
<1>3. Informado(hilo[t], atencion'[t], DOMAIN citas, DOMAIN pagos)
  BY <1>1 DEF Informado
<1>4. hilo' = [hilo EXCEPT ![t] = hilo[t]]
  BY <1>1 DEF Inductivo, PagosCorrectos
<1>5. QED
  BY <1>1, <1>2, <1>3, <1>4, AvanzaSegura, PagosAssumption

LEMMA CaidaSegura ==
  ASSUME Inductivo, Caida
  PROVE  Inductivo'
<1>1. UNCHANGED <<pagos, agenda>>
  BY DEF Caida
<1>2. ASSUME NEW t \in Hilos
      PROVE  /\ HiloCorrecto(hilo'[t])
             /\ Informado(hilo'[t], atencion[t], DOMAIN citas, DOMAIN pagos)
  <2> DEFINE q == [hilo[t] EXCEPT !.fase = "respondida", !.pago = Nulo, !.leidos = {},
                                  !.faltan = {}, !.resp = "sinRespuesta"]
  <2>1. hilo'[t] = IF EnCurso(t) THEN q ELSE hilo[t]
    BY DEF Caida
  <2>2. HiloCorrecto(hilo[t]) /\ Informado(hilo[t], atencion[t], DOMAIN citas, DOMAIN pagos)
    BY DEF Inductivo, PagosCorrectos
  <2>3. CASE EnCurso(t)
    <3>1. HiloCorrecto(q) /\ q.fase = "respondida"
      BY <2>2, <2>3 DEF HiloCorrecto, HiloPosible, FasesPago, Opcional, RespuestasPago, EnCurso
    <3> HIDE DEF q
    <3>2. Informado(q, atencion[t], DOMAIN citas, DOMAIN pagos)
      BY <3>1 DEF Informado
    <3>3. QED
      BY <2>1, <2>3, <3>1, <3>2
  <2>4. CASE ~EnCurso(t)
    BY <2>1, <2>2, <2>4
  <2>5. QED
    BY <2>3, <2>4
<1>3. hilo' \in [Hilos -> HiloPosible]
  <2>1. hilo' = [t \in Hilos |-> hilo'[t]]
    BY DEF Caida
  <2>2. QED
    BY <1>2, <2>1 DEF HiloCorrecto
<1>4. QED
  BY <1>1, <1>2, <1>3, Quieto DEF Inductivo, PagosCorrectos

LEMMA AgendamientoSeguro ==
  ASSUME Inductivo, Agendamiento
  PROVE  Inductivo'
<1>1. UNCHANGED <<pagos, hilo>> /\ AgendaCorrecta
  BY DEF Agendamiento, Inductivo
<1>2. AgendaCorrecta' /\ DOMAIN citas \subseteq DOMAIN citas'
  BY <1>1, AgendaSegura
<1>3. ASSUME NEW t \in Hilos
      PROVE  Informado(hilo[t], atencion'[t], DOMAIN citas', DOMAIN pagos)
  <2>1. Informado(hilo[t], atencion[t], DOMAIN citas, DOMAIN pagos)
    BY DEF Inductivo
  <2>2. /\ atencion[t].estadio = "libre" => atencion'[t].estadio = "libre"
        /\ \A i : Pregunta(atencion[t], i, DOMAIN citas)
                    => Pregunta(atencion'[t], i, DOMAIN citas')
    BY <1>1, AgendaSegura
  <2>3. QED
    BY <1>2, <2>1, <2>2 DEF Informado
<1>4. PagosCorrectos' /\ PagoDeCitaExistente'
  BY <1>1, <1>2 DEF Inductivo, PagosCorrectos, PagoDeCitaExistente
<1>5. QED
  BY <1>1, <1>2, <1>3, <1>4 DEF Inductivo

-----------------------------------------------------------------------------
LEMMA InitInductivo == Init => Inductivo
<1> SUFFICES ASSUME Init PROVE Inductivo
  OBVIOUS
<1>1. FichaCorrecta(Agenda!Libre) /\ Agenda!Libre.estadio = "libre"
  BY DEF FichaCorrecta, Ficha, Agenda!Libre, Opcional
<1>2. AgendaCorrecta
  BY <1>1 DEF Init, Agenda!Init, AgendaCorrecta, FichaCorrecta
<1>3. HiloCorrecto(Vacio) /\ Vacio.fase = "libre"
  BY DEF HiloCorrecto, HiloPosible, FasesPago, Vacio, Opcional
<1>4. PagosCorrectos /\ PagoDeCitaExistente
  BY <1>3 DEF Init, PagosCorrectos, HiloCorrecto, PagoDeCitaExistente
<1>5. \A t \in Hilos : Informado(hilo[t], atencion[t], DOMAIN citas, DOMAIN pagos)
  BY <1>3 DEF Init, Informado
<1>6. QED
  BY <1>2, <1>4, <1>5 DEF Inductivo

LEMMA NextInductivo == Inductivo /\ [Next]_vars => Inductivo'
<1> SUFFICES ASSUME Inductivo, [Next]_vars PROVE Inductivo'
  OBVIOUS
<1>1. ASSUME NEW t \in Hilos, Paso(t) PROVE Inductivo'
  BY <1>1, RegistrarSegura, ConsultarSegura, BuscarSegura, LlamarSegura, RecogerSegura,
     SinConexionSegura, InsertarSegura, ActualizarSegura, FinalesSeguros DEF Paso
<1>2. ASSUME NEW t \in Hilos, Recibir(t) \/ Terminar(t) \/ Descartar(t) PROVE Inductivo'
  BY <1>2, RecibirSegura, FinalesSeguros, DescartarSegura
<1>3. CASE UNCHANGED vars
  <2>1. UNCHANGED <<pagos, agenda>> /\ UNCHANGED hilo
    BY <1>3 DEF vars, agenda
  <2>2. QED
    BY <2>1, Quieto DEF Inductivo, PagosCorrectos
<1>4. QED
  BY <1>1, <1>2, <1>3, CaidaSegura, AgendamientoSeguro DEF Next

\* Stored payments are whole and every thread holds what its phase needs, however
\* many requests and clients there are.
THEOREM TypeCorrect == Spec => []TypeOK
<1>1. Inductivo => TypeOK
  <2> SUFFICES ASSUME Inductivo PROVE TypeOK
    OBVIOUS
  <2>1. PagoPosible \subseteq Pago
    BY DatosPagosAssumption DEF PagoPosible, CitasPosibles, Pago, SolicitudPago, Opcional
  <2>2. HiloPosible \subseteq Hilo
    BY <2>1 DEF HiloPosible, Hilo, Opcional
  <2>3. pagos \in Seq(Pago)
    BY <2>1 DEF Inductivo, PagosCorrectos
  <2>4. hilo \in [Hilos -> Hilo]
    BY <2>2 DEF Inductivo, PagosCorrectos
  <2>5. \A t \in Hilos : Fase(t, "guardar") => hilo[t].pago \in Pago
    BY <2>1 DEF Inductivo, PagosCorrectos, HiloCorrecto, Fase
  <2>6. QED
    BY <2>3, <2>4, <2>5 DEF TypeOK
<1>2. QED
  BY <1>1, InitInductivo, NextInductivo, PTL DEF Spec

\* A payment never names a cita that does not exist, although the two services
\* share nothing but one GET and either may be killed before or after it.
THEOREM PagosDeCitasExistentes == Spec => []PagoDeCitaExistente
<1>1. Inductivo => PagoDeCitaExistente
  BY DEF Inductivo
<1>2. QED
  BY <1>1, InitInductivo, NextInductivo, PTL DEF Spec

-----------------------------------------------------------------------------
(***************************************************************************)
(* The registry of payments that the clients see.                          *)
(***************************************************************************)
\* What thread p holds is what its request asks of the payments as they are: of a
\* row that others change meanwhile only the state, which p replaces.
Fiel(p, filas) ==
  /\ p.fase = "libre" => p = Vacio
  /\ p.fase \in {"recibida", "validar"} => p.leidos = {}
  /\ p.fase \in {"recibida", "validar", "guardar"} => p.resp = Nulo
  /\ p.fase = "validar" => p.pago = PagoDe(p.sol)
  /\ p.fase = "guardar" =>
       \/ p.sol.op = "registrar" /\ p.pago = PagoDe(p.sol)
       \/ /\ p.sol.op = "cambiarEstado"
          /\ p.pago = [filas[p.sol.id] EXCEPT !.estado = p.sol.estado]

Fieles == \A t \in Hilos : Fiel(hilo[t], pagos)

recibos == [t \in Hilos |-> Visto(hilo[t])]

\* The request is still to be served.
Pendiente(p) == p.fase \in {"recibida", "validar", "guardar"} /\ ~SinCambios(p)

LEMMA VistoPendiente ==
  ASSUME NEW p, NEW filas, Fiel(p, filas), Pendiente(p)
  PROVE  Visto(p) = Recibo("pendiente", p.sol, {}, Nulo)
<1>1. Dato(p) = {}
  BY DEF Fiel, Pendiente, Dato, LecturasPago
<1>2. QED
  BY <1>1 DEF Fiel, Pendiente, Visto, Estadio

LEMMA VistoSinCambios ==
  ASSUME NEW p, SinCambios(p)
  PROVE  Visto(p) = Recibo("resuelta", p.sol, {}, "200")
BY DEF Visto, Estadio, SinCambios, Dato, LecturasPago

LEMMA VistoResuelto ==
  ASSUME NEW p, p.fase = "resuelta"
  PROVE  Visto(p) = Recibo("resuelta", p.sol, Dato(p), p.resp)
BY DEF Visto, Estadio, SinCambios

LEMMA VistoRespondido ==
  ASSUME NEW p, p.fase = "respondida"
  PROVE  Visto(p) = Recibo("contestada", p.sol, Dato(p), p.resp)
BY DEF Visto, Estadio, SinCambios

LEMMA VistoVacio == Visto(Vacio) = Recibo("libre", Nulo, {}, Nulo)
BY DEF Visto, Estadio, SinCambios, Vacio, Dato

\* A step of thread t is a step of its record in the registry.
LEMMA ReciboPasa ==
  ASSUME Inductivo, NEW t \in Hilos, NEW q, hilo' = [hilo EXCEPT ![t] = q]
  PROVE  /\ recibos[t] = Visto(hilo[t])
         /\ recibos' = [recibos EXCEPT ![t] = Visto(q)]
<1>1. \A u \in Hilos : hilo'[u] = IF u = t THEN q ELSE hilo[u]
  BY DEF Inductivo, PagosCorrectos
<1>2. recibos' = [u \in Hilos |-> Visto(hilo'[u])]
  BY Zenon DEF recibos
<1>3. recibos' = [recibos EXCEPT ![t] = Visto(q)]
  <2>1. \A u \in Hilos : Visto(hilo'[u]) = IF u = t THEN Visto(q) ELSE Visto(hilo[u])
    BY <1>1
  <2>2. QED
    BY <1>2, <2>1 DEF recibos
<1>4. QED
  BY <1>3 DEF recibos

\* The other threads are served by the new rows as by the old ones.
LEMMA FielPasa ==
  ASSUME Inductivo, Fieles, NEW t \in Hilos, NEW q, hilo' = [hilo EXCEPT ![t] = q],
         Fiel(q, pagos'),
         \A i \in DOMAIN pagos : \A e :
           [pagos'[i] EXCEPT !.estado = e] = [pagos[i] EXCEPT !.estado = e]
  PROVE  Fieles'
<1>1. \A u \in Hilos : hilo'[u] = IF u = t THEN q ELSE hilo[u]
  BY DEF Inductivo, PagosCorrectos
<1>2. ASSUME NEW u \in Hilos, u # t PROVE Fiel(hilo[u], pagos')
  <2>1. Fiel(hilo[u], pagos)
    BY DEF Fieles
  <2>2. hilo[u].fase = "guardar" /\ hilo[u].sol.op = "cambiarEstado"
          => hilo[u].sol.id \in DOMAIN pagos
    BY DEF Inductivo, Informado
  <2>3. QED
    BY <2>1, <2>2 DEF Fiel
<1>3. QED
  BY <1>1, <1>2 DEF Fieles

\* A pending request is resolved.
LEMMA ResueltaImplementa ==
  ASSUME Inductivo, NEW t \in Hilos, NEW q, hilo' = [hilo EXCEPT ![t] = q],
         NEW d, NEW r, Visto(hilo[t]) = Recibo("pendiente", hilo[t].sol, {}, Nulo),
         Visto(q) = Recibo("resuelta", hilo[t].sol, d, r)
  PROVE  Libro!En(t, "pendiente") /\ Libro!Sol(t) = hilo[t].sol /\ Libro!Resuelta(t, d, r)
<1>1. recibos[t] = Recibo("pendiente", hilo[t].sol, {}, Nulo)
  BY DEF recibos
<1>2. recibos' = [recibos EXCEPT ![t] = Recibo("resuelta", hilo[t].sol, d, r)]
  BY ReciboPasa
<1>3. QED
  <2>1. recibos[t].estadio = "pendiente" /\ recibos[t].sol = hilo[t].sol
    BY <1>1 DEF Recibo
  <2>2. QED
    BY <1>2, <2>1 DEF Libro!En, Libro!Sol, Libro!Resuelta, Libro!Recibo, Recibo, recibos

\* An answer with nothing written and nothing read.
LEMMA ResponderImplementa ==
  ASSUME Inductivo, Fieles, NEW t \in Hilos, Pendiente(hilo[t]), NEW r,
         Responder(t, r), pagos' = pagos
  PROVE  /\ Fieles'
         /\ Libro!En(t, "pendiente") /\ Libro!Sol(t) = hilo[t].sol
         /\ Libro!Resuelta(t, {}, r)
<1> DEFINE q == [hilo[t] EXCEPT !.fase = "resuelta", !.pago = Nulo, !.resp = r]
<1>1. hilo[t] \in HiloPosible /\ Fiel(hilo[t], pagos)
  BY DEF Inductivo, PagosCorrectos, Fieles
<1>2. /\ q.fase = "resuelta" /\ q.sol = hilo[t].sol /\ q.leidos = hilo[t].leidos
      /\ q.resp = r
  BY <1>1 DEF HiloPosible
<1>3. hilo' = [hilo EXCEPT ![t] = q]
  BY DEF Responder
<1> HIDE DEF q
<1>4. Dato(q) = {}
  BY <1>1, <1>2 DEF Fiel, Pendiente, Dato, LecturasPago
<1>5. Visto(q) = Recibo("resuelta", hilo[t].sol, {}, r)
  BY <1>2, <1>4, VistoResuelto
<1>6. Visto(hilo[t]) = Recibo("pendiente", hilo[t].sol, {}, Nulo)
  BY <1>1, VistoPendiente
<1>7. Fieles'
  BY <1>2, <1>3, FielPasa DEF Fiel
<1>8. QED
  BY <1>3, <1>5, <1>6, <1>7, ResueltaImplementa

\* A 200 whose rows are still to enrich.
LEMMA EnriquecerImplementa ==
  ASSUME Inductivo, Fieles, NEW t \in Hilos, hilo[t].fase # "libre",
         NEW filas, EntraEnriquecer(t, filas),
         \A i \in DOMAIN pagos : \A e :
           [pagos'[i] EXCEPT !.estado = e] = [pagos[i] EXCEPT !.estado = e]
  PROVE  /\ Fieles'
         /\ \E q : /\ hilo' = [hilo EXCEPT ![t] = q]
                   /\ Visto(q) = Recibo("resuelta", hilo[t].sol,
                                   IF hilo[t].sol.op \in LecturasPago THEN filas ELSE {}, "200")
<1> DEFINE q == [hilo[t] EXCEPT !.fase = "resuelta", !.leidos = filas, !.pago = Nulo,
                                !.faltan = filas, !.resp = "200"]
<1>1. hilo[t] \in HiloPosible
  BY DEF Inductivo, PagosCorrectos
<1>2. /\ q.fase = "resuelta" /\ q.sol = hilo[t].sol /\ q.leidos = filas /\ q.resp = "200"
  BY <1>1 DEF HiloPosible
<1>3. hilo' = [hilo EXCEPT ![t] = q]
  BY DEF EntraEnriquecer
<1> HIDE DEF q
<1>4. Visto(q) = Recibo("resuelta", hilo[t].sol,
                        IF hilo[t].sol.op \in LecturasPago THEN filas ELSE {}, "200")
  BY <1>2, VistoResuelto DEF Dato
<1>5. Fieles'
  BY <1>2, <1>3, FielPasa DEF Fiel
<1>6. QED
  BY <1>3, <1>4, <1>5

\* The thread goes on and its client sees nothing.
LEMMA CalladoImplementa ==
  ASSUME Inductivo, Fieles, NEW t \in Hilos, NEW q, hilo' = [hilo EXCEPT ![t] = q],
         pagos' = pagos, Fiel(q, pagos), Visto(q) = Visto(hilo[t])
  PROVE  Fieles' /\ recibos' = recibos
<1>1. recibos' = [recibos EXCEPT ![t] = recibos[t]]
  BY ReciboPasa
<1>2. QED
  BY <1>1, FielPasa DEF recibos

LEMMA RecibirImplementa ==
  ASSUME Inductivo, Fieles, NEW t \in Hilos, Recibir(t)
  PROVE  Fieles' /\ \E s \in SolicitudesPago : Libro!Pedir(t, s)
<1>1. PICK s \in SolicitudesPago :
        hilo' = [hilo EXCEPT ![t] = [hilo[t] EXCEPT !.fase = "recibida", !.sol = s]]
  BY DEF Recibir
<1> DEFINE q == [Vacio EXCEPT !.fase = "recibida", !.sol = s]
<1>2. hilo[t] = Vacio /\ UNCHANGED <<pagos, citas>>
  BY DEF Recibir, Fieles, Fiel, Fase, agenda
<1>3. hilo' = [hilo EXCEPT ![t] = q]
  BY <1>1, <1>2
<1>4. q.fase = "recibida" /\ q.sol = s /\ q.leidos = {} /\ q.resp = Nulo
  BY DEF Vacio
<1> HIDE DEF q
<1>5. Fiel(q, pagos) /\ Pendiente(q)
  BY <1>4 DEF Fiel, Pendiente, SinCambios
<1>6. Visto(q) = Recibo("pendiente", s, {}, Nulo)
  BY <1>4, <1>5, VistoPendiente
<1>7. recibos[t].estadio = "libre"
  BY <1>2, VistoVacio DEF recibos, Recibo
<1>8. recibos' = [recibos EXCEPT ![t] = Recibo("pendiente", s, {}, Nulo)]
  BY <1>3, <1>6, ReciboPasa
<1>9. Libro!Pedir(t, s)
  BY <1>2, <1>7, <1>8 DEF Libro!Pedir, Libro!En, Libro!Recibo, Recibo, recibos
<1>10. Fieles'
  BY <1>2, <1>3, <1>5, FielPasa
<1>11. QED
  BY <1>9, <1>10

LEMMA RegistrarImplementa ==
  ASSUME Inductivo, Fieles, NEW t \in Hilos, Registrar(t)
  PROVE  Fieles' /\ (Libro!Rechazar(t) \/ recibos' = recibos)
<1>1. /\ hilo[t].fase = "recibida" /\ hilo[t].sol.op = "registrar"
      /\ UNCHANGED <<pagos, citas>> /\ hilo[t] \in HiloPosible /\ Fiel(hilo[t], pagos)
  BY DEF Registrar, Fase, Op, agenda, Inductivo, PagosCorrectos, Fieles
<1>2. Pendiente(hilo[t])
  BY <1>1 DEF Pendiente, SinCambios
<1>3. CASE hilo[t].sol.citaId = Nulo
  <2>1. Responder(t, "500")
    BY <1>3 DEF Registrar
  <2>2. QED
    BY <1>1, <1>2, <2>1, ResponderImplementa DEF Libro!Rechazar
<1>4. CASE hilo[t].sol.citaId # Nulo
  <2> DEFINE c == PagoDe(hilo[t].sol)
             q == [hilo[t] EXCEPT !.fase = "validar", !.pago = c]
  <2>1. hilo' = [hilo EXCEPT ![t] = q]
    BY <1>4 DEF Registrar
  <2> HIDE DEF c
  <2>2. /\ q.fase = "validar" /\ q.pago = c /\ q.sol = hilo[t].sol
        /\ q.leidos = hilo[t].leidos /\ q.resp = hilo[t].resp
    BY <1>1 DEF HiloPosible
  <2> HIDE DEF q
  <2>3. Fiel(q, pagos) /\ Pendiente(q)
    BY <1>1, <2>2 DEF Fiel, Pendiente, SinCambios, c
  <2>4. Visto(q) = Visto(hilo[t])
    BY <1>1, <1>2, <2>2, <2>3, VistoPendiente
  <2>5. QED
    BY <1>1, <2>1, <2>3, <2>4, CalladoImplementa
<1>5. QED
  BY <1>3, <1>4

LEMMA LeerImplementa ==
  ASSUME Inductivo, Fieles, NEW t \in Hilos, Leer(t)
  PROVE  Fieles' /\ Libro!Leer(t)
<1> DEFINE s == hilo[t].sol
           d == PagosLeidos(s, pagos)
<1>1. /\ hilo[t].fase = "recibida" /\ s.op \in LecturasPago
      /\ UNCHANGED <<pagos, citas>> /\ Fiel(hilo[t], pagos)
  BY DEF Leer, Fase, Op, agenda, Fieles
<1>2. Pendiente(hilo[t])
  BY <1>1 DEF Pendiente, SinCambios
<1>3. Libro!PagosLeidos(s, pagos) = d /\ s.op \in Libro!LecturasPago
  BY <1>1 DEF Libro!PagosLeidos, PagosLeidos, Libro!Busca, Busca, Libro!LecturasPago,
     LecturasPago
<1>4. CASE s.op = "obtener" /\ d = {}
  <2>1. Responder(t, "404")
    BY <1>4 DEF Leer, Op
  <2>2. /\ Fieles' /\ Libro!En(t, "pendiente") /\ Libro!Sol(t) = s
        /\ Libro!Resuelta(t, {}, "404")
    BY <1>1, <1>2, <2>1, ResponderImplementa
  <2>3. QED
    BY <1>1, <1>3, <1>4, <2>2 DEF Libro!Leer
<1>5. CASE ~(s.op = "obtener" /\ d = {})
  <2>1. EntraEnriquecer(t, d)
    BY <1>5 DEF Leer, Op
  <2> HIDE DEF d
  <2>2. PICK q : /\ hilo' = [hilo EXCEPT ![t] = q]
                 /\ Visto(q) = Recibo("resuelta", s, d, "200")
    BY <1>1, <2>1, EnriquecerImplementa
  <2>3. Fieles'
    BY <1>1, <2>1, EnriquecerImplementa
  <2>4. Visto(hilo[t]) = Recibo("pendiente", s, {}, Nulo)
    BY <1>1, <1>2, VistoPendiente
  <2>5. Libro!En(t, "pendiente") /\ Libro!Sol(t) = s /\ Libro!Resuelta(t, d, "200")
    BY <2>2, <2>4, ResueltaImplementa
  <2>6. QED
    BY <1>1, <1>3, <1>5, <2>3, <2>5 DEF Libro!Leer
<1>6. QED
  BY <1>4, <1>5

\* The change takes effect when the row is loaded if it changes nothing.
LEMMA BuscarImplementa ==
  ASSUME Inductivo, Fieles, NEW t \in Hilos, Buscar(t)
  PROVE  /\ Fieles'
         /\ Libro!Rechazar(t) \/ Libro!CambiarEstado(t)
              \/ (recibos' = recibos /\ UNCHANGED <<pagos, citas>>)
<1> DEFINE i == hilo[t].sol.id
           e == hilo[t].sol.estado
<1>1. /\ hilo[t].fase = "recibida" /\ hilo[t].sol.op = "cambiarEstado"
      /\ UNCHANGED <<pagos, citas>> /\ hilo[t] \in HiloPosible /\ Fiel(hilo[t], pagos)
      /\ pagos \in Seq(PagoPosible)
  BY DEF Buscar, Fase, Op, agenda, Inductivo, PagosCorrectos, Fieles
<1>2. Pendiente(hilo[t])
  BY <1>1 DEF Pendiente, SinCambios
<1>3. CASE i \notin DOMAIN pagos
  <2>1. Responder(t, "500")
    BY <1>3 DEF Buscar
  <2>2. QED
    BY <1>1, <1>2, <2>1, ResponderImplementa DEF Libro!Rechazar
<1>4. CASE i \in DOMAIN pagos
  <2> DEFINE c == [pagos[i] EXCEPT !.estado = e]
             l == {<<i, pagos[i]>>}
             q == [hilo[t] EXCEPT !.fase = "guardar", !.leidos = l, !.pago = c]
  <2>1. hilo' = [hilo EXCEPT ![t] = q]
    BY <1>4 DEF Buscar
  <2> HIDE DEF c, l
  <2>2. /\ q.fase = "guardar" /\ q.pago = c /\ q.sol = hilo[t].sol
        /\ q.leidos = l /\ q.resp = hilo[t].resp
    BY <1>1 DEF HiloPosible
  <2> HIDE DEF q
  <2>3. Fiel(q, pagos)
    BY <1>1, <2>2 DEF Fiel, c
  <2>4. Visto(hilo[t]) = Recibo("pendiente", hilo[t].sol, {}, Nulo)
    BY <1>1, <1>2, VistoPendiente
  <2>5. CASE SinCambios(q)
    <3>1. c = pagos[i]
      BY <2>2, <2>5 DEF SinCambios, l
    <3>2. pagos = [pagos EXCEPT ![i].estado = e]
      BY <1>1, <3>1 DEF c
    <3>3. Visto(q) = Recibo("resuelta", hilo[t].sol, {}, "200")
      BY <2>2, <2>5, VistoSinCambios
    <3>4. /\ Libro!En(t, "pendiente") /\ Libro!Sol(t) = hilo[t].sol
          /\ Libro!Resuelta(t, {}, "200")
      BY <2>1, <2>4, <3>3, ResueltaImplementa
    <3>5. Fieles'
      BY <1>1, <2>1, <2>3, FielPasa
    <3>6. QED
      BY <1>1, <1>4, <3>2, <3>4, <3>5 DEF Libro!CambiarEstado
  <2>6. CASE ~SinCambios(q)
    <3>1. Visto(q) = Visto(hilo[t])
      BY <2>2, <2>3, <2>4, <2>6, VistoPendiente DEF Pendiente
    <3>2. QED
      BY <1>1, <2>1, <2>3, <3>1, CalladoImplementa
  <2>7. QED
    BY <2>5, <2>6
<1>5. QED
  BY <1>3, <1>4

\* Asking agendamiento, and what follows from its answer.
LEMMA SigueImplementa ==
  ASSUME Inductivo, Fieles, NEW t \in Hilos, NEW si \in BOOLEAN, Sigue(t, si),
         UNCHANGED <<pagos, citas>>
  PROVE  Fieles' /\ (Libro!Rechazar(t) \/ recibos' = recibos)
<1>1. /\ hilo[t] \in HiloPosible /\ Fiel(hilo[t], pagos)
      /\ hilo[t].fase = "validar" => hilo[t].sol.op = "registrar"
  BY DEF Inductivo, PagosCorrectos, HiloCorrecto, Fieles
<1>2. CASE hilo[t].fase = "validar"
  <2>1. Pendiente(hilo[t])
    BY <1>2 DEF Pendiente, SinCambios
  <2>2. CASE si
    <3> DEFINE q == [hilo[t] EXCEPT !.fase = "guardar"]
    <3>1. hilo' = [hilo EXCEPT ![t] = q]
      BY <1>2, <2>2 DEF Sigue, PorEnriquecer, Fase
    <3>2. /\ q.fase = "guardar" /\ q.pago = hilo[t].pago /\ q.sol = hilo[t].sol
          /\ q.resp = hilo[t].resp
      BY <1>1 DEF HiloPosible
    <3> HIDE DEF q
    <3>3. Fiel(q, pagos) /\ Pendiente(q)
      BY <1>1, <1>2, <3>2 DEF Fiel, Pendiente, SinCambios
    <3>4. Visto(q) = Visto(hilo[t])
      BY <1>1, <2>1, <3>2, <3>3, VistoPendiente
    <3>5. QED
      BY <3>1, <3>3, <3>4, CalladoImplementa
  <2>3. CASE ~si
    <3>1. Responder(t, "500")
      BY <1>2, <2>3 DEF Sigue, PorEnriquecer, Fase
    <3>2. QED
      BY <1>1, <1>2, <2>1, <3>1, ResponderImplementa DEF Libro!Rechazar
  <2>4. QED
    BY <2>2, <2>3
<1>3. CASE hilo[t].fase # "validar"
  <2> DEFINE f == hilo[t].faltan \ {Siguiente(t)}
             q == [hilo[t] EXCEPT !.faltan = f]
  <2>1. hilo' = [hilo EXCEPT ![t] = q] /\ hilo[t].fase = "resuelta"
    BY <1>3 DEF Sigue, PorEnriquecer, Fase
  <2> HIDE DEF f
  <2>2. /\ q.fase = "resuelta" /\ q.sol = hilo[t].sol /\ q.leidos = hilo[t].leidos
        /\ q.resp = hilo[t].resp
    BY <1>1, <2>1 DEF HiloPosible
  <2> HIDE DEF q
  <2>3. Visto(q) = Visto(hilo[t])
    BY <2>1, <2>2, VistoResuelto DEF Dato
  <2>4. QED
    BY <2>1, <2>2, <2>3, CalladoImplementa DEF Fiel
<1>4. QED
  BY <1>2, <1>3

\* The cita was asked for before, in another service: it is still there.
LEMMA InsertarImplementa ==
  ASSUME Inductivo, Fieles, NEW t \in Hilos, Insertar(t)
  PROVE  Fieles' /\ Libro!Registrar(t)
<1> DEFINE s == hilo[t].sol
           c == hilo[t].pago
           filas == {<<Len(pagos) + 1, c>>}
<1>1. /\ hilo[t].fase = "guardar" /\ s.op = "registrar" /\ c = PagoDe(s)
      /\ citas' = citas /\ Fiel(hilo[t], pagos) /\ c.citaId \in DOMAIN citas
      /\ c \in PagoPosible /\ pagos \in Seq(PagoPosible)
  BY DEF Insertar, Fase, Op, agenda, Fieles, Fiel, Inductivo, Informado, PagosCorrectos,
     HiloCorrecto
<1>2. Pendiente(hilo[t])
  BY <1>1 DEF Pendiente, SinCambios
<1>3. pagos' = Append(pagos, c) /\ EntraEnriquecer(t, filas)
  BY DEF Insertar
<1>4. s.citaId \in DOMAIN citas /\ c = Libro!PagoDe(s)
  BY <1>1 DEF PagoDe, Libro!PagoDe
<1> HIDE DEF c, filas
<1>5. \A i \in DOMAIN pagos : pagos'[i] = pagos[i]
  BY <1>1, <1>3
<1>6. Fieles'
  BY <1>1, <1>3, <1>5, EnriquecerImplementa
<1>7. PICK q : /\ hilo' = [hilo EXCEPT ![t] = q]
               /\ Visto(q) = Recibo("resuelta", s, {}, "200")
  <2>1. s.op \notin LecturasPago
    BY <1>1 DEF LecturasPago
  <2>2. QED
    BY <1>1, <1>3, <1>5, <2>1, EnriquecerImplementa
<1>8. Visto(hilo[t]) = Recibo("pendiente", s, {}, Nulo)
  BY <1>1, <1>2, VistoPendiente
<1>9. Libro!En(t, "pendiente") /\ Libro!Sol(t) = s /\ Libro!Resuelta(t, {}, "200")
  BY <1>7, <1>8, ResueltaImplementa
<1>10. QED
  BY <1>1, <1>3, <1>4, <1>6, <1>9 DEF Libro!Registrar

\* What is written over another change is the state only: nothing else of a payment
\* ever changes.
LEMMA ActualizarImplementa ==
  ASSUME Inductivo, Fieles, NEW t \in Hilos, Actualizar(t)
  PROVE  /\ Fieles'
         /\ Libro!CambiarEstado(t) \/ (recibos' = recibos /\ UNCHANGED <<pagos, citas>>)
<1> DEFINE s == hilo[t].sol
           i == s.id
           e == s.estado
           c == hilo[t].pago
           filas == {<<i, c>>}
<1>1. /\ hilo[t].fase = "guardar" /\ s.op = "cambiarEstado"
      /\ citas' = citas /\ Fiel(hilo[t], pagos) /\ i \in DOMAIN pagos
      /\ pagos \in Seq(PagoPosible)
  BY DEF Actualizar, Fase, Op, agenda, Fieles, Inductivo, Informado, PagosCorrectos
<1>2. c = [pagos[i] EXCEPT !.estado = e]
  BY <1>1 DEF Fiel
<1>3. /\ pagos' = IF <<i, c>> \in hilo[t].leidos THEN pagos ELSE [pagos EXCEPT ![i] = c]
      /\ EntraEnriquecer(t, filas)
  BY DEF Actualizar
<1>4. SinCambios(hilo[t]) <=> <<i, c>> \in hilo[t].leidos
  BY <1>1 DEF SinCambios
<1>5. \A j \in DOMAIN pagos : \A x :
        [pagos'[j] EXCEPT !.estado = x] = [pagos[j] EXCEPT !.estado = x]
  <2>1. pagos[i] \in PagoPosible
    BY <1>1
  <2>2. ASSUME NEW x PROVE [c EXCEPT !.estado = x] = [pagos[i] EXCEPT !.estado = x]
    BY <1>2, <2>1 DEF PagoPosible
  <2> HIDE DEF c, i
  <2>3. \A j \in DOMAIN pagos : pagos'[j] = pagos[j] \/ (j = i /\ pagos'[j] = c)
    BY <1>1, <1>3
  <2>4. QED
    BY <2>2, <2>3
<1> HIDE DEF c, filas, e, i
<1>6. Fieles'
  BY <1>1, <1>3, <1>5, EnriquecerImplementa
<1>7. PICK q : /\ hilo' = [hilo EXCEPT ![t] = q]
               /\ Visto(q) = Recibo("resuelta", s, {}, "200")
  <2>1. s.op \notin LecturasPago
    BY <1>1 DEF LecturasPago
  <2>2. QED
    BY <1>1, <1>3, <1>5, <2>1, EnriquecerImplementa
<1>8. CASE SinCambios(hilo[t])
  <2>1. Visto(q) = Visto(hilo[t])
    BY <1>7, <1>8, VistoSinCambios
  <2>2. recibos' = [recibos EXCEPT ![t] = recibos[t]]
    BY <1>7, <2>1, ReciboPasa
  <2>3. recibos' = recibos
    BY <2>2 DEF recibos
  <2>4. QED
    BY <1>1, <1>3, <1>4, <1>6, <1>8, <2>3
<1>9. CASE ~SinCambios(hilo[t])
  <2>1. Visto(hilo[t]) = Recibo("pendiente", s, {}, Nulo)
    BY <1>1, <1>9, VistoPendiente DEF Pendiente
  <2>2. Libro!En(t, "pendiente") /\ Libro!Sol(t) = s /\ Libro!Resuelta(t, {}, "200")
    BY <1>7, <2>1, ResueltaImplementa
  <2>3. pagos' = [pagos EXCEPT ![i].estado = e]
    BY <1>1, <1>2, <1>3, <1>4, <1>9
  <2>4. QED
    BY <1>1, <1>6, <2>2, <2>3 DEF Libro!CambiarEstado, i, e
<1>10. QED
  BY <1>8, <1>9

LEMMA GuardarFallaImplementa ==
  ASSUME Inductivo, Fieles, NEW t \in Hilos, GuardarFalla(t)
  PROVE  Fieles' /\ Libro!Rechazar(t)
<1>1. /\ hilo[t].fase = "guardar" /\ <<hilo[t].sol.id, hilo[t].pago>> \notin hilo[t].leidos
      /\ UNCHANGED <<pagos, citas>> /\ Fiel(hilo[t], pagos) /\ Responder(t, "500")
  BY DEF GuardarFalla, Fase, agenda, Fieles
<1>2. Pendiente(hilo[t]) /\ hilo[t].sol.op \in {"registrar", "cambiarEstado"}
  BY <1>1 DEF Pendiente, SinCambios, Fiel
<1>3. QED
  BY <1>1, <1>2, ResponderImplementa DEF Libro!Rechazar

LEMMA ContestarImplementa ==
  ASSUME Inductivo, Fieles, NEW t \in Hilos, Contestar(t)
  PROVE  Fieles' /\ Libro!Contestar(t)
<1> DEFINE q == [hilo[t] EXCEPT !.fase = "respondida"]
           d == Dato(hilo[t])
<1>1. /\ hilo[t].fase = "resuelta" /\ UNCHANGED <<pagos, citas>>
      /\ hilo' = [hilo EXCEPT ![t] = q] /\ hilo[t] \in HiloPosible
  BY DEF Contestar, Fase, agenda, Inductivo, PagosCorrectos
<1>2. /\ q.fase = "respondida" /\ q.sol = hilo[t].sol /\ q.leidos = hilo[t].leidos
      /\ q.resp = hilo[t].resp
  BY <1>1 DEF HiloPosible
<1> HIDE DEF q
<1>3. Visto(hilo[t]) = Recibo("resuelta", hilo[t].sol, d, hilo[t].resp)
  BY <1>1, VistoResuelto
<1>4. Visto(q) = Recibo("contestada", hilo[t].sol, d, hilo[t].resp)
  BY <1>1, <1>2, VistoRespondido DEF Dato
<1> HIDE DEF d
<1>5. Visto(q) = [recibos[t] EXCEPT !.estadio = "contestada"] /\ recibos[t].estadio = "resuelta"
  BY <1>3, <1>4 DEF recibos, Recibo
<1>6. recibos' = [recibos EXCEPT ![t] = [recibos[t] EXCEPT !.estadio = "contestada"]]
  BY <1>1, <1>5, ReciboPasa
<1>7. Libro!Contestar(t)
  BY <1>1, <1>5, <1>6 DEF Libro!Contestar, Libro!En, recibos
<1>8. Fieles'
  BY <1>1, <1>2, FielPasa DEF Fiel
<1>9. QED
  BY <1>7, <1>8

LEMMA TerminarImplementa ==
  ASSUME Inductivo, Fieles, NEW t \in Hilos, Terminar(t)
  PROVE  Fieles' /\ Libro!Terminar(t)
<1>1. /\ hilo[t].fase = "respondida" /\ UNCHANGED <<pagos, citas>>
      /\ hilo' = [hilo EXCEPT ![t] = Vacio]
  BY DEF Terminar, Fase, agenda
<1>2. recibos[t].estadio = "contestada"
  BY <1>1, VistoRespondido DEF recibos, Recibo
<1>3. recibos' = [recibos EXCEPT ![t] = Libro!Libre]
  BY <1>1, VistoVacio, ReciboPasa DEF Libro!Libre, Libro!Recibo, Recibo
<1>4. Libro!Terminar(t)
  BY <1>1, <1>2, <1>3 DEF Libro!Terminar, Libro!En, recibos
<1>5. Vacio.fase = "libre"
  BY DEF Vacio
<1>6. Fieles'
  BY <1>1, <1>5, FielPasa DEF Fiel
<1>7. QED
  BY <1>4, <1>6

\* A kill takes the answers of every request in flight, and nothing else.
LEMMA CaidaImplementa ==
  ASSUME Inductivo, Fieles, Caida
  PROVE  Fieles' /\ Libro!Perder
<1> DEFINE Perdido(r) == IF r.estadio \in {"libre", "contestada"} THEN r
                         ELSE Recibo("contestada", r.sol, {}, "sinRespuesta")
<1>1. UNCHANGED <<pagos, citas>>
  BY DEF Caida, agenda
<1>2. ASSUME NEW t \in Hilos
      PROVE  Fiel(hilo'[t], pagos) /\ Visto(hilo'[t]) = Perdido(Visto(hilo[t]))
  <2> DEFINE q == [hilo[t] EXCEPT !.fase = "respondida", !.pago = Nulo, !.leidos = {},
                                  !.faltan = {}, !.resp = "sinRespuesta"]
  <2>1. hilo'[t] = IF EnCurso(t) THEN q ELSE hilo[t]
    BY DEF Caida
  <2>2. hilo[t] \in HiloPosible /\ Fiel(hilo[t], pagos)
    BY DEF Inductivo, PagosCorrectos, Fieles
  <2>3. /\ q.fase = "respondida" /\ q.sol = hilo[t].sol /\ q.leidos = {}
        /\ q.resp = "sinRespuesta"
    BY <2>2 DEF HiloPosible
  <2>4. Visto(hilo[t]).sol = hilo[t].sol
    BY DEF Visto, Recibo
  <2>5. Visto(hilo[t]).estadio \in {"libre", "contestada"} <=> ~EnCurso(t)
    BY DEF Visto, Recibo, Estadio, SinCambios, EnCurso
  <2> HIDE DEF q
  <2>6. CASE EnCurso(t)
    <3>1. Visto(q) = Recibo("contestada", hilo[t].sol, {}, "sinRespuesta")
      BY <2>3, VistoRespondido DEF Dato
    <3>2. Fiel(q, pagos)
      BY <2>3 DEF Fiel
    <3>3. QED
      BY <2>1, <2>4, <2>5, <2>6, <3>1, <3>2
  <2>7. CASE ~EnCurso(t)
    BY <2>1, <2>2, <2>5, <2>7
  <2>8. QED
    BY <2>6, <2>7
<1>3. Fieles'
  BY <1>1, <1>2 DEF Fieles
<1>4. recibos' = [t \in Hilos |-> Perdido(recibos[t])]
  <2>1. recibos' = [t \in Hilos |-> Visto(hilo'[t])]
    BY Zenon DEF recibos
  <2> HIDE DEF Perdido
  <2>2. QED
    BY <1>2, <2>1 DEF recibos
<1>5. Libro!Perder
  BY <1>1, <1>4 DEF Libro!Perder, Libro!Sol, Libro!Recibo, Recibo, recibos
<1>6. QED
  BY <1>3, <1>5

\* agendamiento works, or forgets a connection: its citas are all still there.
LEMMA AgendaImplementa ==
  ASSUME Inductivo, Fieles, UNCHANGED <<pagos, hilo>>,
         Agendamiento \/ \E t \in Hilos : Llamar(t) \/ Descartar(t)
  PROVE  Fieles' /\ Libro!OtrasCitas
<1>1. AgendaCorrecta
  BY DEF Inductivo
<1>2. AgendaCorrecta' /\ DOMAIN citas \subseteq DOMAIN citas'
  <2>1. CASE Agendamiento
    BY <1>1, <2>1, AgendaSegura
  <2>2. ASSUME NEW t \in Hilos, Llamar(t) PROVE AgendaCorrecta' /\ citas' = citas
    <3>1. Inductivo'
      BY <2>2, LlamarSegura
    <3>2. QED
      BY <2>2, <3>1 DEF Inductivo, Llamar, Agenda!Pedir
  <2>3. ASSUME NEW t \in Hilos, Descartar(t) PROVE AgendaCorrecta' /\ citas' = citas
    <3>1. Inductivo'
      BY <2>3, DescartarSegura
    <3>2. QED
      BY <2>3, <3>1 DEF Inductivo, Descartar, Agenda!Terminar
  <2>4. QED
    BY <2>1, <2>2, <2>3
<1>3. Len(citas) <= Len(citas')
  <2>1. /\ Len(citas) \in Nat /\ Len(citas') \in Nat
        /\ DOMAIN citas = 1..Len(citas) /\ DOMAIN citas' = 1..Len(citas')
    BY <1>1, <1>2 DEF AgendaCorrecta
  <2>2. Len(citas) \in 1..Len(citas') \/ Len(citas) = 0
    BY <1>2, <2>1
  <2>3. QED
    BY <2>1, <2>2
<1>4. recibos' = recibos
  BY DEF recibos
<1>5. Libro!OtrasCitas
  BY <1>3, <1>4 DEF Libro!OtrasCitas, recibos
<1>6. QED
  BY <1>5 DEF Fieles

-----------------------------------------------------------------------------
Callado == recibos' = recibos /\ UNCHANGED <<pagos, citas>>

\* Every step of a thread is a step of the registry, or shows nothing.
LEMMA PasoImplementa ==
  ASSUME Inductivo, Fieles, NEW t \in Hilos,
         Recibir(t) \/ Paso(t) \/ Terminar(t) \/ Descartar(t)
  PROVE  Fieles' /\ (Libro!Next \/ Callado)
<1>1. CASE Recibir(t)
  BY <1>1, RecibirImplementa DEF Libro!Next
<1>2. CASE Registrar(t)
  <2>1. UNCHANGED <<pagos, citas>>
    BY <1>2 DEF Registrar, agenda
  <2>2. QED
    BY <1>2, <2>1, RegistrarImplementa DEF Libro!Next, Callado
<1>3. CASE Leer(t)
  BY <1>3, LeerImplementa DEF Libro!Next
<1>4. CASE Buscar(t)
  BY <1>4, BuscarImplementa DEF Libro!Next, Callado
<1>5. CASE Llamar(t) \/ Descartar(t)
  <2>1. UNCHANGED <<pagos, hilo>>
    BY <1>5 DEF Llamar, Descartar
  <2>2. QED
    BY <1>5, <2>1, AgendaImplementa DEF Libro!Next
<1>6. CASE Recoger(t) \/ SinConexion(t)
  <2>1. UNCHANGED <<pagos, citas>>
    BY <1>6 DEF Recoger, SinConexion, Agenda!Terminar, agenda
  <2>2. PICK si \in BOOLEAN : Sigue(t, si)
    BY <1>6 DEF Recoger, SinConexion
  <2>3. QED
    BY <2>1, <2>2, SigueImplementa DEF Libro!Next, Callado
<1>7. CASE Insertar(t)
  BY <1>7, InsertarImplementa DEF Libro!Next
<1>8. CASE Actualizar(t)
  BY <1>8, ActualizarImplementa DEF Libro!Next, Callado
<1>9. CASE GuardarFalla(t)
  BY <1>9, GuardarFallaImplementa DEF Libro!Next
<1>10. CASE Contestar(t)
  BY <1>10, ContestarImplementa DEF Libro!Next
<1>11. CASE Terminar(t)
  BY <1>11, TerminarImplementa DEF Libro!Next
<1>12. QED
  BY <1>1, <1>2, <1>3, <1>4, <1>5, <1>6, <1>7, <1>8, <1>9, <1>10, <1>11 DEF Paso

\* For any number of threads and clients, kills of either service and refused saves:
\* what clients see is a registry of payments in which each request takes effect at
\* one instant, and an error is true.
THEOREM PagosImplementados == Spec => ImplementaPagos
<1>1. Init => Fieles /\ Libro!Init
  <2> SUFFICES ASSUME Init PROVE Fieles /\ Libro!Init
    OBVIOUS
  <2>1. Vacio.fase = "libre"
    BY DEF Vacio
  <2>2. Fieles
    BY <2>1 DEF Init, Fieles, Fiel
  <2>3. [t \in Hilos |-> Visto(hilo[t])] = [t \in Hilos |-> Libro!Libre]
    BY VistoVacio DEF Init, Libro!Libre, Libro!Recibo, Recibo
  <2>4. QED
    BY <2>2, <2>3 DEF Init, Agenda!Init, Libro!Init
<1>2. Inductivo /\ Fieles /\ [Next]_vars => Fieles' /\ [Libro!Next]_(Libro!vars)
  <2> SUFFICES ASSUME Inductivo, Fieles, [Next]_vars PROVE Fieles' /\ (Libro!Next \/ Callado)
    BY DEF Libro!vars, Callado, recibos
  <2>1. ASSUME NEW t \in Hilos, Recibir(t) \/ Paso(t) \/ Terminar(t) \/ Descartar(t)
        PROVE  Fieles' /\ (Libro!Next \/ Callado)
    BY <2>1, PasoImplementa
  <2>2. CASE Caida
    BY <2>2, CaidaImplementa DEF Libro!Next
  <2>3. CASE Agendamiento
    <3>1. UNCHANGED <<pagos, hilo>>
      BY <2>3 DEF Agendamiento
    <3>2. QED
      BY <2>3, <3>1, AgendaImplementa DEF Libro!Next
  <2>4. CASE UNCHANGED vars
    BY <2>4 DEF vars, Fieles, Callado, recibos
  <2>5. QED
    BY <2>1, <2>2, <2>3, <2>4 DEF Next
<1>3. QED
  BY <1>1, <1>2, InitInductivo, NextInductivo, PTL DEF Spec, ImplementaPagos, Libro!Spec

-----------------------------------------------------------------------------
\* For agendamiento, a step of a thread of pagos is a call, the end of one, or nothing.
LEMMA PasoDeCliente ==
  ASSUME Inductivo, NEW t \in Hilos,
         Recibir(t) \/ Paso(t) \/ Terminar(t) \/ Descartar(t)
  PROVE  Agenda!Next \/ UNCHANGED agenda
<1>1. t \in Peticiones
  BY PagosAssumption
<1>2. CASE Llamar(t)
  <2>1. Consulta(CitaBuscada(t)) \in Solicitudes
    BY <1>2, ConsultaPosible
  <2>2. Agenda!Pedir(t, Consulta(CitaBuscada(t)))
    BY <1>2 DEF Llamar
  <2>3. QED
    BY <1>1, <2>1, <2>2 DEF Agenda!Next
<1>3. CASE Recoger(t) \/ Descartar(t)
  BY <1>1, <1>3 DEF Recoger, Descartar, Agenda!Next
<1>4. CASE Recibir(t) \/ Registrar(t) \/ Leer(t) \/ Buscar(t) \/ SinConexion(t)
  BY <1>4 DEF Recibir, Registrar, Leer, Buscar, SinConexion
<1>5. CASE \/ Insertar(t) \/ Actualizar(t) \/ GuardarFalla(t) \/ Contestar(t) \/ Terminar(t)
  BY <1>5 DEF Insertar, Actualizar, GuardarFalla, Contestar, Terminar
<1>6. QED
  BY <1>2, <1>3, <1>4, <1>5 DEF Paso

LEMMA AgendamientoDeOtros ==
  ASSUME Agendamiento
  PROVE  Agenda!Next
<1>1. ASSUME NEW u \in Peticiones, Atender(u) PROVE Agenda!Next
  BY <1>1 DEF Atender, Agenda!Next, Errores, Agenda!Errores
<1>2. ASSUME NEW u \in Peticiones, Ajeno(u) PROVE Agenda!Next
  BY <1>2 DEF Ajeno, Agenda!Next
<1>3. ASSUME NEW s \in Catalogos, Agenda!Conocer(s) PROVE Agenda!Next
  BY <1>3 DEF Agenda!Next, Catalogos, Agenda!Catalogos
<1>4. QED
  BY <1>1, <1>2, <1>3 DEF Agendamiento, Agenda!Next

\* For agendamiento, pagos is one more client that keeps to the registry's protocol:
\* its threads ask only what a client may ask, on a connection that is free, and a kill
\* of pagos takes back nothing.  So what holds of pagos over the registry holds over the
\* service that implements it.
THEOREM PagosClienteDeAgenda == Spec => Agenda!Spec
<1>1. Init => Agenda!Init
  BY DEF Init
<1>2. Inductivo /\ [Next]_vars => [Agenda!Next]_(Agenda!vars)
  <2> SUFFICES ASSUME Inductivo, [Next]_vars PROVE Agenda!Next \/ UNCHANGED agenda
    BY DEF agenda, Agenda!vars
  <2>1. CASE Caida \/ UNCHANGED vars
    BY <2>1 DEF Caida, vars, agenda
  <2>2. QED
    BY <2>1, PasoDeCliente, AgendamientoDeOtros DEF Next
<1>3. QED
  BY <1>1, <1>2, InitInductivo, NextInductivo, PTL DEF Spec, Agenda!Spec
=============================================================================
