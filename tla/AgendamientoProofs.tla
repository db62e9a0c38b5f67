------------------------- MODULE AgendamientoProofs -------------------------
(***************************************************************************)
(* What holds of service-agendamiento for every number of requests, every  *)
(* catalogue and every set of requests.                                    *)
(***************************************************************************)
EXTENDS Agendamiento, TLAPS

\* What each phase knows of its request: it has arrived, and guardarCita works
\* on an entity without nulls.
Coherente ==
  \A t \in Peticiones :
    /\ ~Fase(t, "libre") => pet[t].sol \in Solicitud
    /\ pet[t].fase \in {"validar", "guardar"} => pet[t].cita \in Cita

Tipos == TypeOK /\ Coherente

-----------------------------------------------------------------------------
LEMMA OpcionalType ==
  ASSUME NEW S, NEW x \in S
  PROVE  x \in Opcional(S) /\ Nulo \in Opcional(S)
BY DEF Opcional

\* What a thread leaves when it ends is again a request record.
LEMMA ContestadaType ==
  ASSUME NEW p \in Peticion, NEW r \in Respuestas
  PROVE  /\ Contestada(p, r) \in Peticion
         /\ Contestada(p, r).fase = "respondida"
         /\ Contestada(p, r).sol = p.sol
         /\ Contestada(p, r).leidas = p.leidas
         /\ Contestada(p, r).resp = r
BY OpcionalType DEF Contestada, Peticion, Fases, Opcional

\* The body of a POST is a cita once its nulls are ruled out.
LEMMA CitaDeType ==
  ASSUME NEW s \in Solicitud, SinNulos(CitaDe(s))
  PROVE  CitaDe(s) \in Cita
BY DEF SinNulos, CitaDe, Solicitud, Cita, Opcional

\* A query returns rows of the table, and the ids it returns are naturals.
LEMMA LeidasType ==
  ASSUME NEW tabla \in Seq(Cita), NEW s
  PROVE  /\ Leidas(s, tabla) \in SUBSET (Nat \X Cita)
         /\ {x[1] : x \in Leidas(s, tabla)} \in SUBSET Nat
BY DEF Leidas

-----------------------------------------------------------------------------
LEMMA InitTipos == Init => Tipos
BY CitasAssumption, EntornoAssumption
   DEF Init, Tipos, TypeOK, Coherente, Fase, Vacia, Peticion, Fases, Opcional

\* Steps that change only the record of request t.
LEMMA UnaPeticion ==
  ASSUME Tipos, NEW t \in Peticiones,
         pet' \in [Peticiones -> Peticion],
         \A u \in Peticiones \ {t} : pet'[u] = pet[u],
         pet'[t].fase # "libre" => pet'[t].sol \in Solicitud,
         pet'[t].fase \in {"validar", "guardar"} => pet'[t].cita \in Cita
  PROVE  Coherente'
BY DEF Tipos, TypeOK, Coherente, Fase

LEMMA ResponderTipos ==
  ASSUME Tipos, NEW t \in Peticiones, ~Fase(t, "libre"), NEW r \in Respuestas,
         Responder(t, r)
  PROVE  pet' \in [Peticiones -> Peticion] /\ Coherente'
<1> DEFINE q == Contestada(pet[t], r)
<1>1. pet[t] \in Peticion /\ pet[t].sol \in Solicitud /\ pet \in [Peticiones -> Peticion]
  BY DEF Tipos, TypeOK, Coherente
<1>2. q \in Peticion /\ q.fase = "respondida" /\ q.sol = pet[t].sol
  BY <1>1, ContestadaType
<1>3. pet' = [pet EXCEPT ![t] = q]
  BY DEF Responder
<1> HIDE DEF q
<1>4. QED
  BY <1>1, <1>2, <1>3, UnaPeticion

LEMMA EntraGuardarTipos ==
  ASSUME Tipos, NEW t \in Peticiones, ~Fase(t, "libre"), NEW c,
         SinNulos(c) => c \in Cita,
         EntraGuardarCita(t, c)
  PROVE  pet' \in [Peticiones -> Peticion] /\ Coherente'
<1>0. pet[t].sol \in Solicitud /\ pet \in [Peticiones -> Peticion]
  BY DEF Tipos, TypeOK, Coherente
<1>1. CASE SinNulos(c)
  <2>0. pet' = [pet EXCEPT ![t] = [@ EXCEPT !.fase = "validar", !.cita = c, !.k = 1]]
    BY <1>1 DEF EntraGuardarCita
  <2>a. c \in Opcional(Cita) /\ "validar" \in Fases
    BY <1>1, OpcionalType DEF Fases
  <2>1. pet' \in [Peticiones -> Peticion]
    BY <1>0, <2>0, <2>a DEF Peticion
  <2>2. /\ \A u \in Peticiones \ {t} : pet'[u] = pet[u]
        /\ pet'[t].sol = pet[t].sol /\ pet'[t].cita = c
    BY <1>0, <1>1 DEF EntraGuardarCita, Peticion
  <2>3. QED
    BY <1>0, <1>1, <2>1, <2>2, UnaPeticion
<1>2. CASE ~SinNulos(c)
  BY <1>2, ResponderTipos DEF EntraGuardarCita, Respuestas, Errores
<1>3. QED
  BY <1>1, <1>2

LEMMA EntraEnriquecerTipos ==
  ASSUME Tipos, NEW t \in Peticiones, ~Fase(t, "libre"),
         EntraEnriquecer(t)
  PROVE  pet' \in [Peticiones -> Peticion] /\ Coherente'
<1> DEFINE l == Leidas(pet[t].sol, citas)
           P == {x[1] : x \in l}
<1>0. pet[t].sol \in Solicitud /\ pet \in [Peticiones -> Peticion] /\ citas \in Seq(Cita)
  BY DEF Tipos, TypeOK, Coherente
<1>1. l \in SUBSET (Nat \X Cita) /\ P \in SUBSET Nat
  BY <1>0, LeidasType
<1>2. pet' = [pet EXCEPT ![t] = [@ EXCEPT !.fase = "enriquecerLeida", !.k = 1,
                                           !.leidas = l, !.pendientes = P]]
  BY DEF EntraEnriquecer
<1> HIDE DEF l, P
<1>a. "enriquecerLeida" \in Fases
  BY DEF Fases
<1>3. pet' \in [Peticiones -> Peticion]
  BY <1>0, <1>1, <1>2, <1>a DEF Peticion
<1>4. /\ \A u \in Peticiones \ {t} : pet'[u] = pet[u]
      /\ pet'[t].sol = pet[t].sol /\ pet'[t].fase = "enriquecerLeida"
  BY <1>0, <1>2 DEF Peticion
<1>5. QED
  BY <1>0, <1>3, <1>4, UnaPeticion

\* Steps of a request that leave the table, the catalogues and hist alone.
LEMMA SoloPetTipos ==
  ASSUME Tipos, UNCHANGED <<citas, entorno, hist>>,
         pet' \in [Peticiones -> Peticion], Coherente'
  PROVE  Tipos'
BY DEF Tipos, TypeOK, entorno

LEMMA RecibirTipos ==
  ASSUME Tipos, NEW t \in Peticiones, Recibir(t)
  PROVE  Tipos'
<1>0. pet \in [Peticiones -> Peticion] /\ citas \in Seq(Cita)
  BY DEF Tipos, TypeOK
<1>1. PICK s \in Solicitudes :
        /\ pet' = [pet EXCEPT ![t] = [@ EXCEPT !.fase = "recibida", !.sol = s]]
        /\ hist' = [hist EXCEPT ![t] =
                      [escribio |-> FALSE,
                       visto |-> IF s.op = "cambiarEstado" /\ s.id \in DOMAIN citas
                                 THEN {citas[s.id].estado} ELSE {}]]
  BY DEF Recibir
<1>2. s \in Solicitud /\ s \in Opcional(Solicitud) /\ "recibida" \in Fases
  BY CitasAssumption, OpcionalType DEF Fases
<1>3. pet' \in [Peticiones -> Peticion]
  BY <1>0, <1>1, <1>2 DEF Peticion
<1>4. /\ \A u \in Peticiones \ {t} : pet'[u] = pet[u]
      /\ pet'[t].sol = s /\ pet'[t].fase = "recibida"
  BY <1>0, <1>1 DEF Peticion
<1>5. Coherente'
  BY <1>2, <1>3, <1>4, UnaPeticion
<1>6. hist' \in [Peticiones -> [escribio: BOOLEAN, visto: SUBSET Estados]]
  <2> DEFINE v == IF s.op = "cambiarEstado" /\ s.id \in DOMAIN citas
                  THEN {citas[s.id].estado} ELSE {}
  <2>1. v \in SUBSET Estados
    <3>1. ASSUME s.id \in DOMAIN citas PROVE citas[s.id].estado \in Estados
      <4>1. citas[s.id] \in Cita
        BY <1>0, <3>1
      <4>2. QED
        BY <4>1 DEF Cita
    <3>2. QED
      BY <3>1
  <2>2. hist' = [hist EXCEPT ![t] = [escribio |-> FALSE, visto |-> v]]
    BY <1>1
  <2> HIDE DEF v
  <2>3. QED
    BY <2>1, <2>2 DEF Tipos, TypeOK
<1>7. QED
  BY <1>3, <1>5, <1>6 DEF Recibir, Tipos, TypeOK, entorno

LEMMA CrearTipos ==
  ASSUME Tipos, NEW t \in Peticiones, Crear(t)
  PROVE  Tipos'
<1>1. ~Fase(t, "libre") /\ pet[t].sol \in Solicitud
  BY DEF Crear, Fase, Tipos, Coherente
<1>2. SinNulos(CitaDe(pet[t].sol)) => CitaDe(pet[t].sol) \in Cita
  BY <1>1, CitaDeType
<1>3. CASE pet[t].sol.rol # "CLIENTE"
  BY <1>1, <1>3, ResponderTipos, SoloPetTipos DEF Crear, Respuestas, Errores
<1>4. CASE pet[t].sol.rol = "CLIENTE"
  BY <1>1, <1>2, <1>4, EntraGuardarTipos, SoloPetTipos DEF Crear
<1>5. QED
  BY <1>3, <1>4

LEMMA LeerTipos ==
  ASSUME Tipos, NEW t \in Peticiones, LeerCita(t) \/ Listar(t) \/ ListaVacia(t)
  PROVE  Tipos'
<1>1. ~Fase(t, "libre") /\ UNCHANGED <<citas, entorno, hist>>
  BY DEF LeerCita, Listar, ListaVacia, Fase
<1>2. EntraEnriquecer(t) \/ \E r \in Respuestas : Responder(t, r)
  BY DEF LeerCita, Listar, ListaVacia, Respuestas, Errores
<1>3. QED
  BY <1>1, <1>2, EntraEnriquecerTipos, ResponderTipos, SoloPetTipos

LEMMA EnriquecerTipos ==
  ASSUME Tipos, NEW t \in Peticiones, Enriquecer(t)
  PROVE  Tipos'
<1> DEFINE p == pet[t]
           i == CHOOSE j \in p.pendientes : \A l \in p.pendientes : j <= l
           P == p.pendientes \ {i}
<1>0. /\ pet \in [Peticiones -> Peticion] /\ pet[t].sol \in Solicitud
      /\ pet[t].fase \in {"enriquecerLeida", "enriquecerGuardada"}
      /\ UNCHANGED <<citas, entorno, hist>>
  BY DEF Enriquecer, Tipos, TypeOK, Coherente, Fase
<1>1. P \in SUBSET Nat /\ {} \in SUBSET Nat /\ pet[t].k \in {1, 2, 3}
  BY <1>0 DEF Peticion
<1>2. \/ pet[t].k < 3 /\ pet' = [pet EXCEPT ![t] = [@ EXCEPT !.k = pet[t].k + 1]]
      \/ pet' = [pet EXCEPT ![t] = [@ EXCEPT !.k = 1, !.pendientes = P]]
      \/ pet' = [pet EXCEPT ![t] = [@ EXCEPT !.fase = "autorizar", !.pendientes = {}]]
      \/ Responder(t, "200")
  <2>1. CASE p.k < 3
    BY <2>1 DEF Enriquecer
  <2>2. CASE ~(p.k < 3) /\ P # {}
    BY <2>2, Zenon DEF Enriquecer
  <2>3. CASE ~(p.k < 3) /\ P = {}
    <3>1. TrasEnriquecer(t)
      BY <2>3, Zenon DEF Enriquecer
    <3>2. QED
      BY <3>1, Zenon DEF TrasEnriquecer
  <2>4. QED
    BY <2>1, <2>2, <2>3
<1> HIDE DEF P
<1>3. CASE pet[t].k < 3 /\ pet' = [pet EXCEPT ![t] = [@ EXCEPT !.k = pet[t].k + 1]]
  <2>0. pet[t].k + 1 \in {1, 2, 3}
    BY <1>1, <1>3
  <2>1. PICK k \in {1, 2, 3} : pet' = [pet EXCEPT ![t] = [@ EXCEPT !.k = k]]
    BY <1>3, <2>0
  <2>2. pet' \in [Peticiones -> Peticion] /\ pet'[t].sol = pet[t].sol
           /\ pet'[t].fase = pet[t].fase /\ \A u \in Peticiones \ {t} : pet'[u] = pet[u]
    BY <1>0, <2>1 DEF Peticion
  <2>3. QED
    BY <1>0, <2>2, UnaPeticion, SoloPetTipos
<1>4. CASE pet' = [pet EXCEPT ![t] = [@ EXCEPT !.k = 1, !.pendientes = P]]
  <2>1. pet' \in [Peticiones -> Peticion] /\ pet'[t].sol = pet[t].sol
           /\ pet'[t].fase = pet[t].fase /\ \A u \in Peticiones \ {t} : pet'[u] = pet[u]
    BY <1>0, <1>1, <1>4 DEF Peticion
  <2>2. QED
    BY <1>0, <2>1, UnaPeticion, SoloPetTipos
<1>5. CASE pet' = [pet EXCEPT ![t] = [@ EXCEPT !.fase = "autorizar", !.pendientes = {}]]
  <2>0. "autorizar" \in Fases
    BY DEF Fases
  <2>1. pet' \in [Peticiones -> Peticion] /\ pet'[t].sol = pet[t].sol
           /\ pet'[t].fase = "autorizar" /\ \A u \in Peticiones \ {t} : pet'[u] = pet[u]
    BY <1>0, <1>1, <1>5, <2>0 DEF Peticion
  <2>2. QED
    BY <1>0, <2>1, UnaPeticion, SoloPetTipos
<1>6. CASE Responder(t, "200")
  BY <1>0, <1>6, ResponderTipos, SoloPetTipos DEF Fase, Respuestas
<1>7. QED
  BY <1>2, <1>3, <1>4, <1>5, <1>6

LEMMA AutorizarTipos ==
  ASSUME Tipos, NEW t \in Peticiones, AutorizarVer(t) \/ AutorizarCambio(t)
  PROVE  Tipos'
<1>1. /\ ~Fase(t, "libre") /\ UNCHANGED <<citas, entorno, hist>>
      /\ pet[t] \in Peticion /\ pet[t].sol \in Solicitud
  BY DEF AutorizarVer, AutorizarCambio, Fase, Tipos, TypeOK, Coherente
<1>2. \/ \E r \in Respuestas : Responder(t, r)
      \/ \E l \in pet[t].leidas :
           EntraGuardarCita(t, [l[2] EXCEPT !.estado = pet[t].sol.estado])
  BY DEF AutorizarVer, AutorizarCambio, Respuestas, Errores
<1>3. ASSUME NEW l \in pet[t].leidas
      PROVE  [l[2] EXCEPT !.estado = pet[t].sol.estado] \in Cita
  BY <1>1 DEF Peticion, Cita, Solicitud
<1>4. QED
  BY <1>1, <1>2, <1>3, ResponderTipos, EntraGuardarTipos, SoloPetTipos

LEMMA ValidarTipos ==
  ASSUME Tipos, NEW t \in Peticiones, Validar(t)
  PROVE  Tipos'
<1>0. /\ pet \in [Peticiones -> Peticion] /\ pet[t].sol \in Solicitud
      /\ pet[t].fase = "validar" /\ pet[t].cita \in Cita /\ pet[t].k \in {1, 2, 3}
      /\ UNCHANGED <<citas, entorno, hist>>
  BY DEF Validar, Tipos, TypeOK, Coherente, Fase, Peticion
<1>1. CASE Responder(t, "500")
  BY <1>0, <1>1, ResponderTipos, SoloPetTipos DEF Fase, Respuestas, Errores
<1>2. CASE pet[t].k < 3 /\ pet' = [pet EXCEPT ![t] = [@ EXCEPT !.k = pet[t].k + 1]]
  <2>0. pet[t].k + 1 \in {1, 2, 3}
    BY <1>0, <1>2
  <2>1. PICK k \in {1, 2, 3} : pet' = [pet EXCEPT ![t] = [@ EXCEPT !.k = k]]
    BY <1>2, <2>0
  <2>2. /\ pet' \in [Peticiones -> Peticion]
        /\ pet'[t].sol = pet[t].sol /\ pet'[t].cita = pet[t].cita
        /\ \A u \in Peticiones \ {t} : pet'[u] = pet[u]
    BY <1>0, <2>1 DEF Peticion
  <2>3. QED
    BY <1>0, <2>2, UnaPeticion, SoloPetTipos
<1>3. CASE pet' = [pet EXCEPT ![t] = [@ EXCEPT !.fase = "guardar"]]
  <2>0. "guardar" \in Fases
    BY DEF Fases
  <2>1. /\ pet' \in [Peticiones -> Peticion]
        /\ pet'[t].sol = pet[t].sol /\ pet'[t].cita = pet[t].cita
        /\ \A u \in Peticiones \ {t} : pet'[u] = pet[u]
    BY <1>0, <1>3, <2>0 DEF Peticion
  <2>2. QED
    BY <1>0, <2>1, UnaPeticion, SoloPetTipos
<1>4. QED
  BY <1>1, <1>2, <1>3 DEF Validar

\* What a write leaves in hist is well formed.
LEMMA AnotarType ==
  ASSUME Tipos, NEW t \in Peticiones, NEW i, NEW e \in Estados, Anotar(t, i, e)
  PROVE  hist' \in [Peticiones -> [escribio: BOOLEAN, visto: SUBSET Estados]]
BY DEF Tipos, TypeOK, Anotar

\* After save() the request goes on to enrich what it saved.
LEMMA GuardadaTipos ==
  ASSUME Tipos, NEW t \in Peticiones, Fase(t, "guardar"), NEW P \in SUBSET Nat,
         pet' = [pet EXCEPT ![t] = [@ EXCEPT !.fase = "enriquecerGuardada",
                                              !.k = 1, !.pendientes = P]]
  PROVE  pet' \in [Peticiones -> Peticion] /\ Coherente'
<1>0. pet \in [Peticiones -> Peticion] /\ pet[t].sol \in Solicitud
  BY DEF Tipos, TypeOK, Coherente, Fase
<1>1. "enriquecerGuardada" \in Fases
  BY DEF Fases
<1>2. pet' \in [Peticiones -> Peticion]
  BY <1>0, <1>1 DEF Peticion
<1>3. /\ pet'[t].sol = pet[t].sol /\ pet'[t].fase = "enriquecerGuardada"
      /\ \A u \in Peticiones \ {t} : pet'[u] = pet[u]
  BY <1>0 DEF Peticion
<1>4. QED
  BY <1>0, <1>2, <1>3, UnaPeticion

LEMMA InsertarTipos ==
  ASSUME Tipos, NEW t \in Peticiones, Insertar(t)
  PROVE  Tipos'
<1>0. /\ Fase(t, "guardar") /\ ~Fase(t, "libre") /\ UNCHANGED entorno
      /\ citas \in Seq(Cita) /\ pet[t].cita \in Cita /\ pet[t].cita.estado \in Estados
  BY DEF Insertar, Fase, Tipos, TypeOK, Coherente, Cita
<1>1. CASE pet[t].sol.conId
  BY <1>0, <1>1, ResponderTipos, SoloPetTipos DEF Insertar, Respuestas, Errores
<1>2. CASE ~pet[t].sol.conId
  <2>1. citas' = Append(citas, pet[t].cita) /\ Anotar(t, Len(citas) + 1, pet[t].cita.estado)
    BY <1>2 DEF Insertar
  <2>i. {Len(citas) + 1} \in SUBSET Nat
    BY <1>0
  <2>2. pet' \in [Peticiones -> Peticion] /\ Coherente'
    BY <1>0, <1>2, <2>i, GuardadaTipos, Zenon DEF Insertar
  <2>3. citas' \in Seq(Cita)
    BY <1>0, <2>1
  <2>4. hist' \in [Peticiones -> [escribio: BOOLEAN, visto: SUBSET Estados]]
    BY <1>0, <2>1, AnotarType
  <2>5. QED
    BY <1>0, <2>2, <2>3, <2>4 DEF Tipos, TypeOK, entorno
<1>3. QED
  BY <1>1, <1>2

LEMMA ActualizarTipos ==
  ASSUME Tipos, NEW t \in Peticiones, Actualizar(t)
  PROVE  Tipos'
<1>0. /\ Fase(t, "guardar") /\ UNCHANGED entorno /\ pet[t].sol \in Solicitud
      /\ citas \in Seq(Cita) /\ pet[t].cita \in Cita /\ pet[t].cita.estado \in Estados
  BY DEF Actualizar, Fase, Tipos, TypeOK, Coherente, Cita
<1>1. {pet[t].sol.id} \in SUBSET Nat
  BY <1>0 DEF Solicitud
<1>2. pet' \in [Peticiones -> Peticion] /\ Coherente'
  BY <1>0, <1>1, GuardadaTipos, Zenon DEF Actualizar
<1>3. citas' \in Seq(Cita)
  BY <1>0 DEF Actualizar
<1>4. hist' \in [Peticiones -> [escribio: BOOLEAN, visto: SUBSET Estados]]
  BY <1>0, AnotarType DEF Actualizar, Tipos, TypeOK
<1>5. QED
  BY <1>0, <1>2, <1>3, <1>4 DEF Tipos, TypeOK, entorno

LEMMA TerminarTipos ==
  ASSUME Tipos, NEW t \in Peticiones, Terminar(t)
  PROVE  Tipos'
<1>1. Vacia \in Peticion /\ Vacia.fase = "libre"
  BY OpcionalType DEF Vacia, Peticion, Fases, Opcional
<1>2. /\ pet \in [Peticiones -> Peticion] /\ pet' = [pet EXCEPT ![t] = Vacia]
      /\ UNCHANGED <<citas, entorno>>
  BY DEF Terminar, Tipos, TypeOK
<1>3. pet' \in [Peticiones -> Peticion] /\ Coherente'
  BY <1>1, <1>2, UnaPeticion
<1>4. hist' \in [Peticiones -> [escribio: BOOLEAN, visto: SUBSET Estados]]
  BY DEF Terminar, Tipos, TypeOK
<1>5. QED
  BY <1>2, <1>3, <1>4 DEF Tipos, TypeOK, entorno

LEMMA CaidaTipos ==
  ASSUME Tipos, CaidaAgendamiento
  PROVE  Tipos'
<1>0. pet \in [Peticiones -> Peticion] /\ UNCHANGED <<citas, entorno, hist>>
  BY DEF CaidaAgendamiento, Tipos, TypeOK
<1>1. "sinRespuesta" \in Respuestas
  BY DEF Respuestas
<1>2. \A u \in Peticiones :
        \/ pet'[u] = pet[u]
        \/ EnCurso(u) /\ pet'[u] = Contestada(pet[u], "sinRespuesta")
  BY DEF CaidaAgendamiento
<1>3. \A u \in Peticiones : /\ pet'[u] \in Peticion
                            /\ pet'[u] # pet[u] => /\ pet'[u].fase = "respondida"
                                                   /\ pet'[u].sol \in Solicitud
  BY <1>0, <1>1, <1>2, ContestadaType DEF EnCurso, Tipos, Coherente, Fase
<1>4. pet' \in [Peticiones -> Peticion]
  BY <1>3 DEF CaidaAgendamiento
<1>5. Coherente'
  BY <1>3 DEF Tipos, Coherente, Fase
<1>6. QED
  BY <1>0, <1>4, <1>5, SoloPetTipos

LEMMA EntornoTipos ==
  ASSUME Tipos, NEW s \in Catalogos, CambiarServicio(s) \/ Alta(s) \/ Baja(s)
  PROVE  Tipos'
<1>1. UNCHANGED <<citas, pet, hist>>
  BY DEF CambiarServicio, Alta, Baja
<1>2. servicio' \in [Catalogos -> Disponibilidad]
  BY DEF CambiarServicio, Alta, Baja, Tipos, TypeOK
<1>3. filas' \in [Catalogos -> SUBSET Ids] /\ usados' \in [Catalogos -> SUBSET Ids]
  BY DEF CambiarServicio, Alta, Baja, Tipos, TypeOK
<1>4. QED
  BY <1>1, <1>2, <1>3 DEF Tipos, TypeOK, Coherente, Fase

LEMMA NextTipos == Tipos /\ [Next]_vars => Tipos'
<1> SUFFICES ASSUME Tipos, [Next]_vars PROVE Tipos'
  OBVIOUS
<1>1. ASSUME NEW t \in Peticiones, Paso(t) PROVE Tipos'
  <2>1. CASE GuardarFalla(t)
    BY <2>1, ResponderTipos, SoloPetTipos DEF GuardarFalla, Fase, Respuestas, Errores
  <2>2. QED
    BY <1>1, <2>1, CrearTipos, LeerTipos, EnriquecerTipos, AutorizarTipos, ValidarTipos,
       InsertarTipos, ActualizarTipos DEF Paso
<1>2. CASE UNCHANGED vars
  BY <1>2 DEF vars, Tipos, TypeOK, Coherente, Fase
<1>3. QED
  BY <1>1, <1>2, RecibirTipos, TerminarTipos, CaidaTipos, EntornoTipos DEF Next

\* Type correctness: whatever is posted, a stored cita has its three references,
\* and every thread holds the data its next step needs.
THEOREM TypeCorrect == Spec => []TypeOK
<1>1. Tipos => TypeOK
  BY DEF Tipos
<1>2. QED
  BY <1>1, InitTipos, NextTipos, PTL DEF Spec

-----------------------------------------------------------------------------
(***************************************************************************)
(* Safety: each property is carried by the strengthening that Agendamiento *)
(* states next to it.                                                      *)
(***************************************************************************)
\* The three catalogues, by their place in Orden.
LEMMA OrdenCubre ==
  /\ \A j \in {1, 2, 3} : Orden[j] \in Catalogos
  /\ \A s \in Catalogos : \E j \in {1, 2, 3} : s = Orden[j]
BY DEF Orden, Catalogos

(***************************************************************************)
(* The control skeleton of one request: everything a step of the system    *)
(* may do to it, with the data the invariants below need.                  *)
(***************************************************************************)
Recibida(u) ==
  /\ Fase(u, "libre") /\ pet'[u].fase = "recibida" /\ pet'[u].sol \in Solicitud
  /\ pet'[u].leidas = pet[u].leidas /\ pet'[u].resp = pet[u].resp

Terminada(u) == Fase(u, "respondida") /\ pet'[u] = Vacia

\* An error leaves before save(), and a change is answered 200 only after it.
Respondida(u) ==
  /\ pet'[u].fase = "respondida" /\ pet'[u].leidas = pet[u].leidas
  /\ pet'[u].resp \in Respuestas
  /\ pet'[u].resp \in Errores =>
       pet[u].fase \in {"recibida", "autorizar", "validar", "guardar"}
  /\ pet'[u].resp = "200" /\ Op(u) = "cambiarEstado" => Fase(u, "enriquecerGuardada")

Leida(u) ==
  /\ Fase(u, "recibida") /\ pet'[u].fase = "enriquecerLeida"
  /\ pet'[u].leidas = Leidas(pet[u].sol, citas) /\ pet'[u].resp = pet[u].resp

Enriquecida(u) ==
  /\ \/ pet'[u].fase = pet[u].fase /\ pet[u].fase \in {"enriquecerLeida", "enriquecerGuardada"}
     \/ pet'[u].fase = "autorizar" /\ Fase(u, "enriquecerLeida")
  /\ pet'[u].leidas = pet[u].leidas /\ pet'[u].resp = pet[u].resp

EntidadPermitida(u, c) ==
  \/ Fase(u, "recibida") /\ Op(u) = "crear" /\ pet[u].sol.rol = "CLIENTE"
     /\ c = CitaDe(pet[u].sol)
  \/ Fase(u, "autorizar") /\ Op(u) = "cambiarEstado"
     /\ \E l \in pet[u].leidas : /\ PuedeCambiar(pet[u].sol, l[2])
                                 /\ c = [l[2] EXCEPT !.estado = pet[u].sol.estado]

Aceptada(u) ==
  /\ pet'[u].fase = "validar" /\ pet'[u].k = 1
  /\ EntidadPermitida(u, pet'[u].cita) /\ SinNulos(pet'[u].cita)
  /\ pet'[u].leidas = pet[u].leidas /\ pet'[u].resp = pet[u].resp

Comprobada(u) ==
  /\ Fase(u, "validar") /\ pet'[u].cita = pet[u].cita
  /\ Encontrado(Orden[pet[u].k], Referencia(pet[u].cita, Orden[pet[u].k]))
  /\ \/ pet[u].k < 3 /\ pet'[u].fase = "validar" /\ pet'[u].k = pet[u].k + 1
     \/ pet[u].k = 3 /\ pet'[u].fase = "guardar"

Guardada(u) ==
  /\ Fase(u, "guardar") /\ pet'[u].fase = "enriquecerGuardada"
  /\ pet'[u].leidas = pet[u].leidas /\ pet'[u].resp = pet[u].resp

CambioDe(u) ==
  \/ pet'[u] = pet[u]
  \/ Recibida(u)
  \/ Terminada(u)
  \/ /\ EnCurso(u) /\ pet'[u].sol = pet[u].sol
     /\ \/ Respondida(u) \/ Leida(u) \/ Enriquecida(u) \/ Aceptada(u) \/ Guardada(u)
        \/ /\ Comprobada(u)
           /\ pet'[u].leidas = pet[u].leidas /\ pet'[u].resp = pet[u].resp

LEMMA ResponderCambio ==
  ASSUME Tipos, NEW t \in Peticiones, NEW r \in Respuestas, Responder(t, r)
  PROVE  /\ pet'[t].fase = "respondida" /\ pet'[t].resp = r
         /\ pet'[t].sol = pet[t].sol /\ pet'[t].leidas = pet[t].leidas
         /\ \A u \in Peticiones \ {t} : pet'[u] = pet[u]
BY ContestadaType DEF Responder, Tipos, TypeOK

LEMMA EntraGuardarCambio ==
  ASSUME Tipos, NEW t \in Peticiones, NEW c, EntraGuardarCita(t, c)
  PROVE  /\ \A u \in Peticiones \ {t} : pet'[u] = pet[u]
         /\ pet'[t].sol = pet[t].sol /\ pet'[t].leidas = pet[t].leidas
         /\ \/ pet'[t].fase = "respondida" /\ pet'[t].resp = "500"
            \/ /\ SinNulos(c)
               /\ pet'[t].fase = "validar" /\ pet'[t].k = 1 /\ pet'[t].cita = c
               /\ pet'[t].resp = pet[t].resp
<1>1. CASE SinNulos(c)
  <2>1. pet' = [pet EXCEPT ![t] = [@ EXCEPT !.fase = "validar", !.cita = c, !.k = 1]]
    BY <1>1 DEF EntraGuardarCita
  <2>2. pet \in [Peticiones -> Peticion]
    BY DEF Tipos, TypeOK
  <2>3. /\ \A u \in Peticiones \ {t} : pet'[u] = pet[u]
        /\ pet'[t].sol = pet[t].sol /\ pet'[t].leidas = pet[t].leidas
        /\ pet'[t].fase = "validar" /\ pet'[t].k = 1 /\ pet'[t].cita = c
        /\ pet'[t].resp = pet[t].resp
    BY <2>1, <2>2 DEF Peticion
  <2>4. QED
    BY <1>1, <2>3
<1>2. CASE ~SinNulos(c)
  BY <1>2, ResponderCambio DEF EntraGuardarCita, Respuestas, Errores
<1>3. QED
  BY <1>1, <1>2

LEMMA ValidarCambio ==
  ASSUME Tipos, NEW t \in Peticiones, Validar(t)
  PROVE  /\ \A u \in Peticiones \ {t} : pet'[u] = pet[u]
         /\ pet'[t].sol = pet[t].sol /\ pet'[t].leidas = pet[t].leidas
         /\ \/ pet'[t].fase = "respondida" /\ pet'[t].resp = "500"
            \/ Comprobada(t) /\ pet'[t].resp = pet[t].resp
<1>0. pet \in [Peticiones -> Peticion] /\ Fase(t, "validar") /\ pet[t].k \in {1, 2, 3}
  BY DEF Validar, Fase, Tipos, TypeOK, Peticion
<1>1. CASE Responder(t, "500")
  BY <1>1, ResponderCambio DEF Respuestas, Errores
<1>2. CASE ~Responder(t, "500")
  <2>1. Encontrado(Orden[pet[t].k], Referencia(pet[t].cita, Orden[pet[t].k]))
    BY <1>2 DEF Validar
  <2>2. CASE pet[t].k < 3
    <3>1. pet' = [pet EXCEPT ![t] = [@ EXCEPT !.k = pet[t].k + 1]]
      BY <1>2, <2>2 DEF Validar
    <3>2. /\ pet'[t].fase = "validar" /\ pet'[t].cita = pet[t].cita
          /\ pet'[t].k = pet[t].k + 1 /\ pet'[t].sol = pet[t].sol
          /\ pet'[t].leidas = pet[t].leidas /\ pet'[t].resp = pet[t].resp
          /\ \A u \in Peticiones \ {t} : pet'[u] = pet[u]
      BY <1>0, <3>1 DEF Peticion, Fase
    <3>3. QED
      BY <1>0, <2>1, <2>2, <3>2 DEF Comprobada
  <2>3. CASE pet[t].k = 3
    <3>1. pet' = [pet EXCEPT ![t] = [@ EXCEPT !.fase = "guardar"]]
      BY <1>2, <2>3 DEF Validar
    <3>2. /\ pet'[t].fase = "guardar" /\ pet'[t].cita = pet[t].cita
          /\ pet'[t].sol = pet[t].sol /\ pet'[t].leidas = pet[t].leidas
          /\ pet'[t].resp = pet[t].resp
          /\ \A u \in Peticiones \ {t} : pet'[u] = pet[u]
      BY <1>0, <3>1 DEF Peticion, Fase
    <3>3. QED
      BY <1>0, <2>1, <2>3, <3>2 DEF Comprobada
  <2>4. QED
    BY <1>0, <2>2, <2>3
<1>3. QED
  BY <1>1, <1>2

LEMMA EntraEnriquecerCambio ==
  ASSUME Tipos, NEW t \in Peticiones, EntraEnriquecer(t)
  PROVE  /\ \A u \in Peticiones \ {t} : pet'[u] = pet[u]
         /\ pet'[t].sol = pet[t].sol /\ pet'[t].resp = pet[t].resp
         /\ pet'[t].leidas = Leidas(pet[t].sol, citas)
         /\ pet'[t].fase = "enriquecerLeida"
<1> DEFINE l == Leidas(pet[t].sol, citas)
           P == {x[1] : x \in l}
<1>1. pet' = [pet EXCEPT ![t] = [@ EXCEPT !.fase = "enriquecerLeida", !.k = 1,
                                           !.leidas = l, !.pendientes = P]]
  BY DEF EntraEnriquecer
<1>2. pet \in [Peticiones -> Peticion]
  BY DEF Tipos, TypeOK
<1> HIDE DEF P, l
<1>3. /\ \A u \in Peticiones \ {t} : pet'[u] = pet[u]
      /\ pet'[t].sol = pet[t].sol /\ pet'[t].resp = pet[t].resp
      /\ pet'[t].leidas = l /\ pet'[t].fase = "enriquecerLeida"
  BY <1>1, <1>2 DEF Peticion
<1>4. QED
  BY <1>3 DEF l

LEMMA RecibirCambio ==
  ASSUME Tipos, NEW t \in Peticiones, Recibir(t)
  PROVE  Recibida(t) /\ \A u \in Peticiones \ {t} : pet'[u] = pet[u]
<1>1. PICK s \in Solicitudes :
        pet' = [pet EXCEPT ![t] = [@ EXCEPT !.fase = "recibida", !.sol = s]]
  BY DEF Recibir
<1>2. pet \in [Peticiones -> Peticion] /\ s \in Solicitud
  BY CitasAssumption DEF Tipos, TypeOK
<1>3. /\ \A u \in Peticiones \ {t} : pet'[u] = pet[u]
      /\ pet'[t].sol = s /\ pet'[t].resp = pet[t].resp
      /\ pet'[t].leidas = pet[t].leidas /\ pet'[t].fase = "recibida"
  BY <1>1, <1>2 DEF Peticion
<1>4. QED
  BY <1>2, <1>3 DEF Recibir, Recibida

LEMMA EnriquecerCambio ==
  ASSUME Tipos, NEW t \in Peticiones, Enriquecer(t)
  PROVE  CambioDe(t) /\ \A u \in Peticiones \ {t} : pet'[u] = pet[u]
<1>0. /\ pet \in [Peticiones -> Peticion] /\ EnCurso(t)
      /\ pet[t].fase \in {"enriquecerLeida", "enriquecerGuardada"}
  BY DEF Enriquecer, EnCurso, Tipos, TypeOK
<1>1. \/ \E k : pet' = [pet EXCEPT ![t] = [@ EXCEPT !.k = k]]
      \/ \E P : pet' = [pet EXCEPT ![t] = [@ EXCEPT !.k = 1, !.pendientes = P]]
      \/ TrasEnriquecer(t)
  BY Zenon DEF Enriquecer
<1>2. ASSUME NEW k, pet' = [pet EXCEPT ![t] = [@ EXCEPT !.k = k]]
      PROVE  CambioDe(t) /\ \A u \in Peticiones \ {t} : pet'[u] = pet[u]
  <2>1. /\ \A u \in Peticiones \ {t} : pet'[u] = pet[u]
        /\ pet'[t].sol = pet[t].sol /\ pet'[t].resp = pet[t].resp
        /\ pet'[t].leidas = pet[t].leidas /\ pet'[t].fase = pet[t].fase
    BY <1>0, <1>2 DEF Peticion
  <2>2. QED
    BY <1>0, <2>1 DEF CambioDe, Enriquecida
<1>3. ASSUME NEW P, pet' = [pet EXCEPT ![t] = [@ EXCEPT !.k = 1, !.pendientes = P]]
      PROVE  CambioDe(t) /\ \A u \in Peticiones \ {t} : pet'[u] = pet[u]
  <2>1. /\ \A u \in Peticiones \ {t} : pet'[u] = pet[u]
        /\ pet'[t].sol = pet[t].sol /\ pet'[t].resp = pet[t].resp
        /\ pet'[t].leidas = pet[t].leidas /\ pet'[t].fase = pet[t].fase
    BY <1>0, <1>3 DEF Peticion
  <2>2. QED
    BY <1>0, <2>1 DEF CambioDe, Enriquecida
<1>4. CASE TrasEnriquecer(t) /\ Fase(t, "enriquecerLeida") /\ Op(t) \notin Listados
  <2>1. pet' = [pet EXCEPT ![t] = [@ EXCEPT !.fase = "autorizar", !.pendientes = {}]]
    BY <1>4 DEF TrasEnriquecer
  <2>2. /\ \A u \in Peticiones \ {t} : pet'[u] = pet[u]
        /\ pet'[t].sol = pet[t].sol /\ pet'[t].resp = pet[t].resp
        /\ pet'[t].leidas = pet[t].leidas /\ pet'[t].fase = "autorizar"
    BY <1>0, <2>1 DEF Peticion
  <2>3. QED
    BY <1>0, <1>4, <2>2 DEF CambioDe, Enriquecida
<1>5. CASE TrasEnriquecer(t) /\ ~(Fase(t, "enriquecerLeida") /\ Op(t) \notin Listados)
  <2>1. Responder(t, "200") /\ "200" \in Respuestas /\ "200" \notin Errores
    BY <1>5 DEF TrasEnriquecer, Respuestas, Errores
  <2>2. Op(t) = "cambiarEstado" => Fase(t, "enriquecerGuardada")
    BY <1>0, <1>5 DEF Listados, Fase
  <2>3. QED
    BY <1>0, <2>1, <2>2, ResponderCambio DEF CambioDe, Respondida
<1>6. QED
  BY <1>1, <1>2, <1>3, <1>4, <1>5

LEMMA GuardadaCambio ==
  ASSUME Tipos, NEW t \in Peticiones, NEW P, Fase(t, "guardar"),
         pet' = [pet EXCEPT ![t] = [@ EXCEPT !.fase = "enriquecerGuardada",
                                              !.k = 1, !.pendientes = P]]
  PROVE  CambioDe(t) /\ \A u \in Peticiones \ {t} : pet'[u] = pet[u]
<1>1. pet \in [Peticiones -> Peticion]
  BY DEF Tipos, TypeOK
<1>2. /\ \A u \in Peticiones \ {t} : pet'[u] = pet[u]
      /\ pet'[t].sol = pet[t].sol /\ pet'[t].resp = pet[t].resp
      /\ pet'[t].leidas = pet[t].leidas /\ pet'[t].fase = "enriquecerGuardada"
  BY <1>1 DEF Peticion
<1>3. QED
  BY <1>2 DEF CambioDe, Guardada, Fase, EnCurso

LEMMA AceptarCambio ==
  ASSUME Tipos, NEW t \in Peticiones, NEW c, EntraGuardarCita(t, c),
         EntidadPermitida(t, c)
  PROVE  CambioDe(t) /\ \A u \in Peticiones \ {t} : pet'[u] = pet[u]
<1>1. EnCurso(t) /\ pet[t].fase \in {"recibida", "autorizar"}
  BY DEF EntidadPermitida, EnCurso, Fase
<1>2. "500" \in Respuestas /\ "500" # "200"
  BY DEF Respuestas, Errores
<1>3. QED
  BY <1>1, <1>2, EntraGuardarCambio DEF CambioDe, Aceptada, Respondida

\* An answer given before save(), or to a read.
LEMMA AnticipadaCambio ==
  ASSUME Tipos, NEW t \in Peticiones, NEW r \in Respuestas, Responder(t, r),
         r = "200" => Op(t) # "cambiarEstado",
         EnCurso(t),
         r \in Errores => pet[t].fase \in {"recibida", "autorizar", "validar", "guardar"}
  PROVE  CambioDe(t) /\ \A u \in Peticiones \ {t} : pet'[u] = pet[u]
<1>1. Respondida(t)
  BY ResponderCambio DEF Respondida
<1>2. QED
  BY <1>1, ResponderCambio DEF CambioDe

LEMMA Codigos == /\ {"200", "403", "404", "500"} \subseteq Respuestas
                 /\ Errores \subseteq Respuestas
                 /\ Errores = {"403", "404", "500"}
BY DEF Respuestas, Errores

LEMMA CrearCambio ==
  ASSUME Tipos, NEW t \in Peticiones, Crear(t)
  PROVE  CambioDe(t) /\ \A u \in Peticiones \ {t} : pet'[u] = pet[u]
<1>1. Fase(t, "recibida") /\ EnCurso(t) /\ Op(t) = "crear"
  BY DEF Crear, Fase, EnCurso
<1>2. CASE pet[t].sol.rol # "CLIENTE"
  <2>1. Responder(t, "403")
    BY <1>2 DEF Crear
  <2>2. QED
    BY <1>1, <2>1, AnticipadaCambio, Codigos DEF Fase
<1>3. CASE pet[t].sol.rol = "CLIENTE"
  <2>1. EntraGuardarCita(t, CitaDe(pet[t].sol))
    BY <1>3 DEF Crear
  <2>2. EntidadPermitida(t, CitaDe(pet[t].sol))
    BY <1>1, <1>3 DEF EntidadPermitida
  <2>3. QED
    BY <2>1, <2>2, AceptarCambio
<1>4. QED
  BY <1>2, <1>3

LEMMA LeerCambio ==
  ASSUME Tipos, NEW t \in Peticiones, LeerCita(t) \/ Listar(t) \/ ListaVacia(t)
  PROVE  CambioDe(t) /\ \A u \in Peticiones \ {t} : pet'[u] = pet[u]
<1>1. EnCurso(t)
  BY DEF LeerCita, Listar, ListaVacia, Fase, EnCurso
<1>2. CASE EntraEnriquecer(t) /\ Fase(t, "recibida")
  <2>1. Leida(t)
    BY <1>2, EntraEnriquecerCambio DEF Leida
  <2>2. QED
    BY <1>1, <1>2, <2>1, EntraEnriquecerCambio DEF CambioDe
<1>3. CASE Fase(t, "recibida") /\ \E r \in {"403", "404"} : Responder(t, r)
  <2>1. PICK r \in {"403", "404"} : Responder(t, r)
    BY <1>3
  <2>2. r \in Respuestas /\ r # "200" /\ pet[t].fase = "recibida"
    BY <1>3, <2>1, Codigos DEF Fase
  <2>3. QED
    BY <1>1, <2>1, <2>2, AnticipadaCambio
<1>4. CASE ListaVacia(t)
  <2>1. Responder(t, "200") /\ Op(t) # "cambiarEstado"
    BY <1>4 DEF ListaVacia, Listados
  <2>2. QED
    BY <1>1, <2>1, AnticipadaCambio, Codigos
<1>5. QED
  BY <1>2, <1>3, <1>4 DEF LeerCita, Listar

LEMMA AutorizarCambioDe ==
  ASSUME Tipos, NEW t \in Peticiones, AutorizarVer(t) \/ AutorizarCambio(t)
  PROVE  CambioDe(t) /\ \A u \in Peticiones \ {t} : pet'[u] = pet[u]
<1>1. Fase(t, "autorizar") /\ EnCurso(t)
  BY DEF AutorizarVer, AutorizarCambio, Fase, EnCurso
<1>2. CASE Responder(t, "403")
  BY <1>1, <1>2, AnticipadaCambio, Codigos DEF Fase
<1>3. CASE AutorizarVer(t) /\ Responder(t, "200")
  <2>1. Op(t) # "cambiarEstado"
    BY <1>3 DEF AutorizarVer
  <2>2. QED
    BY <1>1, <1>3, <2>1, AnticipadaCambio, Codigos
<1>4. CASE AutorizarCambio(t) /\ ~Responder(t, "403")
  <2>1. PICK l \in pet[t].leidas :
          /\ PuedeCambiar(pet[t].sol, l[2])
          /\ EntraGuardarCita(t, [l[2] EXCEPT !.estado = pet[t].sol.estado])
    BY <1>4 DEF AutorizarCambio
  <2> DEFINE c == [l[2] EXCEPT !.estado = pet[t].sol.estado]
  <2>2. EntidadPermitida(t, c)
    BY <1>1, <1>4, <2>1 DEF EntidadPermitida, AutorizarCambio
  <2>3. EntraGuardarCita(t, c)
    BY <2>1
  <2> HIDE DEF c
  <2>4. QED
    BY <2>2, <2>3, AceptarCambio
<1>5. QED
  BY <1>2, <1>3, <1>4 DEF AutorizarVer

LEMMA GuardarCambio ==
  ASSUME Tipos, NEW t \in Peticiones,
         Insertar(t) \/ Actualizar(t) \/ GuardarFalla(t)
  PROVE  CambioDe(t) /\ \A u \in Peticiones \ {t} : pet'[u] = pet[u]
<1>1. Fase(t, "guardar") /\ EnCurso(t)
  BY DEF Insertar, Actualizar, GuardarFalla, Fase, EnCurso
<1>2. CASE Responder(t, "500")
  BY <1>1, <1>2, AnticipadaCambio, Codigos DEF Fase
<1>3. CASE ~Responder(t, "500")
  <2>1. \E P : pet' = [pet EXCEPT ![t] = [@ EXCEPT !.fase = "enriquecerGuardada",
                                                    !.k = 1, !.pendientes = P]]
    BY <1>3, Zenon DEF Insertar, Actualizar, GuardarFalla
  <2>2. QED
    BY <1>1, <2>1, GuardadaCambio, Zenon
<1>4. QED
  BY <1>2, <1>3

LEMMA PasoCambio ==
  ASSUME Tipos, NEW t \in Peticiones, Paso(t)
  PROVE  CambioDe(t) /\ \A u \in Peticiones \ {t} : pet'[u] = pet[u]
<1>1. CASE Validar(t)
  <2>1. Fase(t, "validar") /\ EnCurso(t)
    BY <1>1 DEF Validar, Fase, EnCurso
  <2>2. CASE Responder(t, "500")
    BY <2>1, <2>2, AnticipadaCambio, Codigos DEF Fase
  <2>3. CASE ~Responder(t, "500")
    BY <1>1, <2>1, <2>3, ValidarCambio, Codigos DEF CambioDe, Respondida, Fase
  <2>4. QED
    BY <2>2, <2>3
<1>2. QED
  BY <1>1, CrearCambio, LeerCambio, EnriquecerCambio, AutorizarCambioDe, GuardarCambio DEF Paso

\* What any step of the system may do to request u.
LEMMA CambioDePeticion ==
  ASSUME Tipos, [Next]_vars, NEW u \in Peticiones
  PROVE  CambioDe(u)
<1>1. ASSUME NEW t \in Peticiones, Paso(t) PROVE CambioDe(u)
  BY <1>1, PasoCambio DEF CambioDe
<1>2. ASSUME NEW t \in Peticiones, Recibir(t) PROVE CambioDe(u)
  BY <1>2, RecibirCambio DEF CambioDe
<1>3. ASSUME NEW t \in Peticiones, Terminar(t) PROVE CambioDe(u)
  BY <1>3 DEF CambioDe, Terminar, Terminada, Fase, Tipos, TypeOK
<1>4. CASE CaidaAgendamiento
  <2>1. CASE EnCurso(u)
    <3>1. pet'[u] = Contestada(pet[u], "sinRespuesta")
      BY <1>4, <2>1 DEF CaidaAgendamiento
    <3>2. pet[u] \in Peticion /\ "sinRespuesta" \in Respuestas
          /\ "sinRespuesta" \notin Errores /\ "sinRespuesta" # "200"
      BY DEF Tipos, TypeOK, Respuestas, Errores
    <3>3. pet'[u].sol = pet[u].sol /\ Respondida(u)
      BY <3>1, <3>2, ContestadaType DEF Respondida
    <3>4. QED
      BY <2>1, <3>3 DEF CambioDe
  <2>2. CASE ~EnCurso(u)
    BY <1>4, <2>2 DEF CaidaAgendamiento, CambioDe
  <2>3. QED
    BY <2>1, <2>2
<1>5. CASE UNCHANGED pet
  BY <1>5 DEF CambioDe
<1>6. ASSUME NEW s \in Catalogos, CambiarServicio(s) \/ Alta(s) \/ Baja(s)
      PROVE  CambioDe(u)
  BY <1>5, <1>6 DEF CambiarServicio, Alta, Baja
<1>7. QED
  BY <1>1, <1>2, <1>3, <1>4, <1>5, <1>6 DEF Next, vars

-----------------------------------------------------------------------------
\* Every step leaves the table alone but for one save() of an entity.
Escrita(t) ==
  /\ Fase(t, "guardar")
  /\ \/ Op(t) = "crear" /\ citas' = Append(citas, pet[t].cita)
     \/ Op(t) = "cambiarEstado" /\ citas' = [citas EXCEPT ![pet[t].sol.id] = pet[t].cita]

LEMMA CambioDeTabla ==
  ASSUME [Next]_vars
  PROVE  citas' = citas \/ \E t \in Peticiones : Escrita(t)
BY DEF Next, Paso, vars, Recibir, Crear, LeerCita, Listar, ListaVacia, Enriquecer,
       AutorizarVer, AutorizarCambio, Validar, Insertar, Actualizar, GuardarFalla,
       Terminar, CambiarServicio, Alta, Baja, CaidaAgendamiento, Escrita

\* Rows of the catalogues come and go; the ids they have assigned only grow.
LEMMA CambioDeCatalogos ==
  ASSUME Tipos, [Next]_vars, NEW s \in Catalogos
  PROVE  /\ usados[s] \subseteq usados'[s]
         /\ filas[s] \subseteq usados[s] => filas'[s] \subseteq usados'[s]
<1>1. CASE UNCHANGED <<filas, usados>>
  BY <1>1
<1>2. ASSUME NEW r \in Catalogos, Alta(r) \/ Baja(r)
      PROVE  /\ usados[s] \subseteq usados'[s]
             /\ filas[s] \subseteq usados[s] => filas'[s] \subseteq usados'[s]
  BY <1>2 DEF Alta, Baja, Tipos, TypeOK
<1>3. UNCHANGED <<filas, usados>> \/ \E r \in Catalogos : Alta(r) \/ Baja(r)
  BY DEF Next, Paso, vars, entorno, Recibir, Crear, LeerCita, Listar, ListaVacia,
         Enriquecer, AutorizarVer, AutorizarCambio, Validar, Insertar, Actualizar,
         GuardarFalla, Terminar, CambiarServicio, CaidaAgendamiento
<1>4. QED
  BY <1>1, <1>2, <1>3

-----------------------------------------------------------------------------
LEMMA InitReferencias == Init => ReferenciasVerificadas /\ ReferenciasConocidas
BY DEF Init, ReferenciasVerificadas, ReferenciasConocidas, Vacia, Fase

LEMMA NextVerificadas ==
  ASSUME Tipos, ReferenciasVerificadas, [Next]_vars
  PROVE  ReferenciasVerificadas'
<1>1. \A s \in Catalogos : filas'[s] \subseteq usados'[s]
  BY CambioDeCatalogos DEF ReferenciasVerificadas
<1>2. ASSUME NEW t \in Peticiones, NEW j \in {1, 2, 3},
             pet'[t].fase = "guardar" \/ (pet'[t].fase = "validar" /\ j < pet'[t].k)
      PROVE  Referencia(pet'[t].cita, Orden[j]) \in usados'[Orden[j]]
  <2>0. Orden[j] \in Catalogos /\ pet[t].k \in {1, 2, 3}
    BY OrdenCubre DEF Tipos, TypeOK, Peticion
  <2>1. usados[Orden[j]] \subseteq usados'[Orden[j]]
    BY <2>0, CambioDeCatalogos
  <2>2. Comprobada(t) \/ pet'[t] = pet[t]
    BY <1>2, <2>0, CambioDePeticion
       DEF CambioDe, Recibida, Terminada, Vacia, Respondida, Leida, Enriquecida,
           Aceptada, Guardada
  <2>3. CASE pet'[t] = pet[t]
    BY <1>2, <2>1, <2>3 DEF ReferenciasVerificadas, Fase
  <2>4. CASE Comprobada(t) /\ j = pet[t].k
    <3>1. Referencia(pet[t].cita, Orden[j]) \in filas[Orden[j]]
      BY <2>4 DEF Comprobada, Encontrado
    <3>2. QED
      BY <2>0, <2>1, <2>4, <3>1 DEF Comprobada, ReferenciasVerificadas
  <2>5. CASE Comprobada(t) /\ j # pet[t].k
    <3>1. Fase(t, "validar") /\ j < pet[t].k /\ pet'[t].cita = pet[t].cita
      BY <1>2, <2>0, <2>5 DEF Comprobada
    <3>2. QED
      BY <2>1, <3>1 DEF ReferenciasVerificadas
  <2>6. QED
    BY <2>2, <2>3, <2>4, <2>5
<1>3. QED
  BY <1>1, <1>2 DEF ReferenciasVerificadas, Fase

LEMMA NextConocidas ==
  ASSUME Tipos, ReferenciasVerificadas, ReferenciasConocidas, [Next]_vars
  PROVE  ReferenciasConocidas'
<1>0. citas \in Seq(Cita)
  BY DEF Tipos, TypeOK
<1>1. ASSUME NEW i \in DOMAIN citas'
      PROVE  \/ i \in DOMAIN citas /\ citas'[i] = citas[i]
             \/ \E t \in Peticiones : Fase(t, "guardar") /\ citas'[i] = pet[t].cita
  <2>1. CASE citas' = citas
    BY <2>1
  <2>2. ASSUME NEW t \in Peticiones, Escrita(t)
        PROVE  \/ i \in DOMAIN citas /\ citas'[i] = citas[i]
               \/ Fase(t, "guardar") /\ citas'[i] = pet[t].cita
    <3>0. pet[t].cita \in Cita
      BY <2>2 DEF Escrita, Tipos, Coherente, Fase
    <3>1. CASE citas' = Append(citas, pet[t].cita)
      BY <1>0, <2>2, <3>0, <3>1 DEF Escrita
    <3>2. CASE citas' = [citas EXCEPT ![pet[t].sol.id] = pet[t].cita]
      BY <1>0, <2>2, <3>2 DEF Escrita
    <3>3. QED
      BY <2>2, <3>1, <3>2 DEF Escrita
  <2>3. QED
    BY <2>1, <2>2, CambioDeTabla
<1>2. ASSUME NEW i \in DOMAIN citas', NEW s \in Catalogos
      PROVE  Referencia(citas'[i], s) \in usados'[s]
  <2>1. usados[s] \subseteq usados'[s]
    BY CambioDeCatalogos
  <2>2. CASE i \in DOMAIN citas /\ citas'[i] = citas[i]
    BY <2>1, <2>2 DEF ReferenciasConocidas
  <2>3. ASSUME NEW t \in Peticiones, Fase(t, "guardar"), citas'[i] = pet[t].cita
        PROVE  Referencia(citas'[i], s) \in usados[s]
    <3>1. PICK j \in {1, 2, 3} : s = Orden[j]
      BY OrdenCubre
    <3>2. QED
      BY <2>3, <3>1 DEF ReferenciasVerificadas
  <2>4. QED
    BY <1>1, <2>1, <2>2, <2>3
<1>3. QED
  BY <1>2 DEF ReferenciasConocidas

\* However the three checks of guardarCita interleave with rows that come and go
\* in the catalogues, no cita is stored with a reference that never existed.
THEOREM ReferenciasSeguras == Spec => []ReferenciasConocidas
<1> DEFINE Inv == Tipos /\ ReferenciasVerificadas /\ ReferenciasConocidas
<1>1. Init => Inv
  BY InitTipos, InitReferencias
<1>2. Inv /\ [Next]_vars => Inv'
  BY NextTipos, NextVerificadas, NextConocidas
<1>3. Inv => ReferenciasConocidas
  OBVIOUS
<1>4. QED
  BY <1>1, <1>2, <1>3, PTL DEF Spec

-----------------------------------------------------------------------------
\* A request that is not answered has no answer yet.
SinRespuestaAun == \A t \in Peticiones : ~Fase(t, "respondida") => pet[t].resp = Nulo

LEMMA NextSinRespuesta ==
  ASSUME Tipos, SinRespuestaAun, [Next]_vars
  PROVE  SinRespuestaAun'
<1>1. ASSUME NEW t \in Peticiones, pet'[t].fase # "respondida"
      PROVE  pet'[t].resp = Nulo
  <2>1. CambioDe(t)
    BY CambioDePeticion
  <2>2. QED
    BY <1>1, <2>1 DEF SinRespuestaAun, Fase, EnCurso, CambioDe, Recibida, Terminada,
       Vacia, Respondida, Leida, Enriquecida, Aceptada, Guardada, Comprobada
<1>2. QED
  BY <1>1 DEF SinRespuestaAun, Fase

\* Only the thread that saves marks its request as having written.
LEMMA CambioDeEscribio ==
  ASSUME Tipos, [Next]_vars, NEW u \in Peticiones, hist'[u].escribio
  PROVE  Guardada(u) \/ (hist[u].escribio /\ ~Terminada(u))
<1>0. /\ pet \in [Peticiones -> Peticion] /\ citas \in Seq(Cita)
      /\ hist \in [Peticiones -> [escribio: BOOLEAN, visto: SUBSET Estados]]
  BY DEF Tipos, TypeOK
<1>a. Terminada(u) => pet[u].fase = "respondida" /\ pet'[u] # pet[u]
  BY DEF Terminada, Fase, Vacia
<1>1. ASSUME NEW t \in Peticiones, Recibir(t) PROVE hist[u].escribio /\ ~Terminada(u)
  <2>1. PICK v : hist' = [hist EXCEPT ![t] = [escribio |-> FALSE, visto |-> v]]
    BY <1>1, Zenon DEF Recibir
  <2>2. u # t /\ hist[u].escribio
    BY <1>0, <2>1
  <2>3. pet'[u] = pet[u]
    BY <1>1, <2>2, RecibirCambio
  <2>4. QED
    BY <1>a, <2>2, <2>3
<1>2. ASSUME NEW t \in Peticiones, Terminar(t) PROVE hist[u].escribio /\ ~Terminada(u)
  BY <1>0, <1>2, <1>a DEF Terminar
<1>3. ASSUME NEW t \in Peticiones, Paso(t), UNCHANGED hist
      PROVE  hist[u].escribio /\ ~Terminada(u)
  <2>1. u = t => EnCurso(u)
    BY <1>3 DEF Paso, Crear, LeerCita, Listar, ListaVacia, Enriquecer, AutorizarVer,
       AutorizarCambio, Validar, Insertar, Actualizar, GuardarFalla, Fase, EnCurso
  <2>2. QED
    BY <1>3, <1>a, <2>1, PasoCambio DEF EnCurso
<1>4. ASSUME NEW t \in Peticiones, Paso(t), ~UNCHANGED hist
      PROVE  Guardada(u) \/ (hist[u].escribio /\ ~Terminada(u))
  <2>1. /\ Fase(t, "guardar")
        /\ \E i, e : Anotar(t, i, e)
        /\ \E P : pet' = [pet EXCEPT ![t] = [@ EXCEPT !.fase = "enriquecerGuardada",
                                                       !.k = 1, !.pendientes = P]]
    BY <1>4, Zenon DEF Paso, Crear, LeerCita, Listar, ListaVacia, Enriquecer, AutorizarVer,
       AutorizarCambio, Validar, Insertar, Actualizar, GuardarFalla
  <2>2. CASE u = t
    <3>1. PICK P : pet' = [pet EXCEPT ![t] = [@ EXCEPT !.fase = "enriquecerGuardada",
                                                        !.k = 1, !.pendientes = P]]
      BY <2>1, Zenon
    <3>2. QED
      BY <1>0, <2>1, <2>2, <3>1 DEF Guardada, Peticion
  <2>3. CASE u # t
    <3>0. \E V : hist'[u] = [escribio |-> hist[u].escribio \/ u = t, visto |-> V]
      BY <2>1, Zenon DEF Anotar
    <3>1. hist[u].escribio
      <4>1. PICK V : hist'[u] = [escribio |-> hist[u].escribio \/ u = t, visto |-> V]
        BY <3>0, Zenon
      <4> DEFINE b == hist[u].escribio \/ u = t
      <4>2. hist'[u].escribio = b
        <5> HIDE DEF b
        <5>1. hist'[u] = [escribio |-> b, visto |-> V]
          BY <4>1, Zenon DEF b
        <5>2. QED
          BY <5>1
      <4>3. QED
        BY <2>3, <4>2, Zenon
    <3>2. pet'[u] = pet[u]
      BY <1>4, <2>3, PasoCambio
    <3>3. QED
      BY <1>a, <3>1, <3>2
  <2>4. QED
    BY <2>2, <2>3
<1>5. CASE CaidaAgendamiento
  BY <1>5, <1>a DEF CaidaAgendamiento, EnCurso
<1>6. CASE UNCHANGED <<pet, hist>>
  BY <1>6, <1>a
<1>7. QED
  BY <1>1, <1>2, <1>3, <1>4, <1>5, <1>6 DEF Next, vars, CambiarServicio, Alta, Baja

LEMMA NextEfecto ==
  ASSUME Tipos, EfectoSoloTrasGuardar, [Next]_vars
  PROVE  EfectoSoloTrasGuardar'
<1>1. ASSUME NEW u \in Peticiones, hist'[u].escribio
      PROVE  \/ pet'[u].fase = "enriquecerGuardada"
             \/ pet'[u].fase = "respondida" /\ pet'[u].resp \in {"200", "sinRespuesta"}
  <2>1. CASE Guardada(u)
    BY <2>1 DEF Guardada
  <2>2. CASE hist[u].escribio /\ ~Terminada(u)
    <3>1. \/ pet[u].fase = "enriquecerGuardada"
          \/ pet[u].fase = "respondida" /\ pet[u].resp \in {"200", "sinRespuesta"}
      BY <2>2 DEF EfectoSoloTrasGuardar, Fase
    <3>2. CambioDe(u)
      BY CambioDePeticion
    <3>3. \/ pet'[u] = pet[u]
          \/ Respondida(u) /\ pet[u].fase = "enriquecerGuardada"
          \/ Enriquecida(u) /\ pet[u].fase = "enriquecerGuardada"
      BY <2>2, <3>1, <3>2 DEF CambioDe, Recibida, Fase, EnCurso, Leida, Aceptada,
         EntidadPermitida, Guardada, Comprobada
    <3>4. QED
      BY <3>1, <3>3 DEF Respondida, Enriquecida, Respuestas, Fase
  <2>3. QED
    BY <1>1, <2>1, <2>2, CambioDeEscribio
<1>2. QED
  BY <1>1 DEF EfectoSoloTrasGuardar, Fase

\* No failure that follows save() reaches the client as an error: an error answer
\* means that the request changed nothing.
THEOREM ErroresSinEfecto == Spec => []ErrorSinEfecto
<1> DEFINE Inv == Tipos /\ SinRespuestaAun /\ EfectoSoloTrasGuardar
<1>1. Init => Inv
  <2>1. Init => SinRespuestaAun /\ EfectoSoloTrasGuardar
    BY DEF Init, SinRespuestaAun, EfectoSoloTrasGuardar, Vacia
  <2>2. QED
    BY <2>1, InitTipos
<1>2. Inv /\ [Next]_vars => Inv'
  BY NextTipos, NextSinRespuesta, NextEfecto
<1>3. Inv => ErrorSinEfecto
  BY CitasAssumption
     DEF ErrorSinEfecto, EfectoSoloTrasGuardar, SinRespuestaAun, Fase, Errores, Respuestas
<1>4. QED
  BY <1>1, <1>2, <1>3, PTL DEF Spec

-----------------------------------------------------------------------------
(***************************************************************************)
(* Writes: what save() leaves in the table, and what a 200 means.          *)
(***************************************************************************)
\* A thread keeps what it loaded until it ends, and has loaded nothing before.
LibreSinLeer == \A t \in Peticiones : Fase(t, "libre") => pet[t].leidas = {}

LEMMA NextLibreSinLeer ==
  ASSUME Tipos, LibreSinLeer, [Next]_vars
  PROVE  LibreSinLeer'
<1>1. ASSUME NEW t \in Peticiones, pet'[t].fase = "libre"
      PROVE  pet'[t].leidas = {}
  <2>1. CambioDe(t)
    BY CambioDePeticion
  <2>2. QED
    BY <1>1, <2>1 DEF LibreSinLeer, Fase, EnCurso, CambioDe, Recibida, Terminada,
       Vacia, Respondida, Leida, Enriquecida, Aceptada, Guardada, Comprobada
<1>2. QED
  BY <1>1 DEF LibreSinLeer, Fase

\* A row that was there is there, and is the same or the entity of a thread that
\* had passed the header checks of cambiarEstado.
LEMMA CambioDeFila ==
  ASSUME Tipos, CopiaFiel, [Next]_vars, NEW i \in DOMAIN citas
  PROVE  /\ i \in DOMAIN citas' /\ Len(citas) <= Len(citas')
         /\ \/ citas'[i] = citas[i]
            \/ \E t \in Peticiones :
                 /\ EnCurso(t) /\ Op(t) = "cambiarEstado" /\ pet[t].sol.id = i
                 /\ PuedeCambiar(pet[t].sol, citas[i])
                 /\ citas'[i] = [citas[i] EXCEPT !.estado = pet[t].sol.estado]
<1>0. citas \in Seq(Cita)
  BY DEF Tipos, TypeOK
<1>1. CASE citas' = citas
  BY <1>0, <1>1
<1>2. ASSUME NEW t \in Peticiones, Fase(t, "guardar"), Op(t) = "crear",
             citas' = Append(citas, pet[t].cita)
      PROVE  i \in DOMAIN citas' /\ Len(citas) <= Len(citas') /\ citas'[i] = citas[i]
  <2>1. pet[t].cita \in Cita
    BY <1>2 DEF Tipos, Coherente, Fase
  <2>2. QED
    BY <1>0, <1>2, <2>1
<1>3. ASSUME NEW t \in Peticiones, Fase(t, "guardar"), Op(t) = "cambiarEstado",
             citas' = [citas EXCEPT ![pet[t].sol.id] = pet[t].cita]
      PROVE  /\ i \in DOMAIN citas' /\ Len(citas) <= Len(citas')
             /\ \/ citas'[i] = citas[i]
                \/ /\ EnCurso(t) /\ pet[t].sol.id = i
                   /\ PuedeCambiar(pet[t].sol, citas[i])
                   /\ citas'[i] = [citas[i] EXCEPT !.estado = pet[t].sol.estado]
  <2>1. pet[t].cita \in Cita /\ EnCurso(t) /\ pet[t].fase # "libre"
    BY <1>3 DEF Tipos, Coherente, Fase, EnCurso
  <2>2. i \in DOMAIN citas' /\ Len(citas) <= Len(citas')
    BY <1>0, <1>3
  <2>3. CASE pet[t].sol.id # i
    BY <1>0, <1>3, <2>2, <2>3
  <2>4. CASE pet[t].sol.id = i
    <3>1. PICK l \in pet[t].leidas : /\ PuedeCambiar(pet[t].sol, l[2])
                                     /\ MismaReserva(pet[t].cita, l[2])
                                     /\ pet[t].cita.estado = pet[t].sol.estado
      BY <1>3, <2>1 DEF CopiaFiel, Fase
    <3>2. MismaReserva(citas[i], l[2])
      BY <1>3, <2>1, <2>4, <3>1 DEF CopiaFiel
    <3>3. PuedeCambiar(pet[t].sol, citas[i])
      BY <3>1, <3>2 DEF PuedeCambiar, MismaReserva
    <3>4. citas[i] \in Cita /\ citas'[i] = pet[t].cita
      BY <1>0, <1>3, <2>4
    <3>5. pet[t].cita = [citas[i] EXCEPT !.estado = pet[t].sol.estado]
      <4>1. MismaReserva(pet[t].cita, citas[i])
        BY <3>1, <3>2 DEF MismaReserva
      <4> DEFINE c == citas[i]
                 d == pet[t].cita
                 e == pet[t].sol.estado
      <4>2. c \in Cita /\ d \in Cita /\ d.estado = e /\ MismaReserva(d, c)
        BY <2>1, <3>1, <3>4, <4>1
      <4> HIDE DEF c, d, e
      <4>3. d = [c EXCEPT !.estado = e]
        BY <4>2 DEF Cita, MismaReserva
      <4>4. QED
        BY <4>3 DEF c, d, e
    <3>6. QED
      BY <2>1, <2>2, <2>4, <3>3, <3>4, <3>5
  <2>5. QED
    BY <2>3, <2>4
<1>4. QED
  BY <1>1, <1>2, <1>3, CambioDeTabla DEF Escrita

\* Whatever a step does to a row, owner, barber, service, day and hour stay.
LEMMA FilaFiel ==
  ASSUME Tipos, CopiaFiel, [Next]_vars, NEW i \in DOMAIN citas, NEW d,
         MismaReserva(citas[i], d)
  PROVE  i \in DOMAIN citas' /\ MismaReserva(citas'[i], d)
<1>1. citas[i] \in Cita
  BY DEF Tipos, TypeOK
<1>2. \/ citas'[i] = citas[i]
      \/ \E e : citas'[i] = [citas[i] EXCEPT !.estado = e]
  BY CambioDeFila, Zenon
<1>3. CASE citas'[i] = citas[i]
  BY <1>3, CambioDeFila
<1>4. ASSUME NEW e, citas'[i] = [citas[i] EXCEPT !.estado = e]
      PROVE  MismaReserva(citas'[i], d)
  BY <1>1, <1>4 DEF MismaReserva, Cita
<1>5. QED
  BY <1>2, <1>3, <1>4, CambioDeFila

LEMMA LeidasPorId ==
  ASSUME NEW s, s.op \in {"cambiarEstado", "verDetalle"}, NEW tabla, NEW l \in Leidas(s, tabla)
  PROVE  l[1] \in DOMAIN tabla /\ l[1] = s.id /\ l[2] = tabla[l[1]]
<1>1. PICK i \in DOMAIN tabla : Coincide(s, i, tabla[i]) /\ l = <<i, tabla[i]>>
  BY DEF Leidas
<1>2. i = s.id
  BY <1>1 DEF Coincide
<1>3. QED
  BY <1>1, <1>2

\* What a thread loaded stays as faithful as it was when it was loaded.
LEMMA LeidasFieles ==
  ASSUME Tipos, LibreSinLeer, CopiaFiel, [Next]_vars, NEW u \in Peticiones,
         pet'[u].fase # "libre", pet'[u].sol.op \in {"cambiarEstado", "verDetalle"},
         NEW l \in pet'[u].leidas
  PROVE  /\ l[1] = pet'[u].sol.id /\ l[1] \in DOMAIN citas'
         /\ MismaReserva(citas'[l[1]], l[2])
<1>1. CambioDe(u)
  BY CambioDePeticion
<1>2. ~Recibida(u) /\ ~Terminada(u)
  BY DEF Recibida, Terminada, Vacia, LibreSinLeer
<1>3. pet'[u].sol = pet[u].sol /\ pet[u].fase # "libre"
  BY <1>1, <1>2 DEF CambioDe, EnCurso
<1>4. pet[u].sol.op \in {"cambiarEstado", "verDetalle"}
  BY <1>3
<1>5. CASE Leida(u)
  <2>1. l \in Leidas(pet[u].sol, citas)
    BY <1>5 DEF Leida
  <2>2. l[1] \in DOMAIN citas /\ l[1] = pet[u].sol.id /\ l[2] = citas[l[1]]
    BY <1>4, <2>1, LeidasPorId
  <2>3. MismaReserva(citas[l[1]], l[2])
    BY <2>2 DEF MismaReserva
  <2>4. QED
    BY <1>3, <2>2, <2>3, FilaFiel
<1>6. CASE ~Leida(u)
  <2>1. l \in pet[u].leidas
    BY <1>1, <1>2, <1>6 DEF CambioDe, Respondida, Enriquecida, Aceptada, Guardada
  <2>2. /\ l[1] = pet[u].sol.id /\ l[1] \in DOMAIN citas
        /\ MismaReserva(citas[l[1]], l[2])
    BY <1>3, <1>4, <2>1 DEF CopiaFiel, Op
  <2>3. QED
    BY <1>3, <2>2, FilaFiel
<1>7. QED
  BY <1>5, <1>6

\* The entity a thread carries to save() is the one its headers allowed.
LEMMA EntidadFiel ==
  ASSUME Tipos, CopiaFiel, [Next]_vars, NEW u \in Peticiones,
         pet'[u].sol.op \in {"cambiarEstado", "verDetalle"}, pet'[u].fase \in {"validar", "guardar"}
  PROVE  \E l \in pet'[u].leidas : /\ PuedeCambiar(pet'[u].sol, l[2])
                                   /\ MismaReserva(pet'[u].cita, l[2])
                                   /\ pet'[u].cita.estado = pet'[u].sol.estado
<1>1. CambioDe(u)
  BY CambioDePeticion
<1>2. /\ pet'[u].sol = pet[u].sol /\ pet'[u].leidas = pet[u].leidas
      /\ pet'[u] = pet[u] \/ Aceptada(u) \/ Comprobada(u)
  BY <1>1 DEF CambioDe, Recibida, Terminada, Vacia, Respondida, Leida, Enriquecida,
     Guardada, Aceptada, Fase, EnCurso
<1>3. pet[u].sol.op \in {"cambiarEstado", "verDetalle"}
  BY <1>2
<1>4. CASE pet'[u] = pet[u] \/ Comprobada(u)
  <2>1. pet'[u].cita = pet[u].cita /\ pet[u].fase \in {"validar", "guardar"}
    BY <1>4 DEF Comprobada, Fase
  <2>2. QED
    BY <1>2, <1>3, <2>1 DEF CopiaFiel, Op
<1>5. CASE Aceptada(u)
  <2>1. PICK l \in pet[u].leidas :
          /\ PuedeCambiar(pet[u].sol, l[2])
          /\ pet'[u].cita = [l[2] EXCEPT !.estado = pet[u].sol.estado]
    BY <1>3, <1>5 DEF Aceptada, EntidadPermitida, Op
  <2>2. l[2] \in Cita
    BY DEF Tipos, TypeOK, Peticion
  <2> DEFINE c == l[2]
             e == pet[u].sol.estado
  <2>3. MismaReserva([c EXCEPT !.estado = e], c) /\ [c EXCEPT !.estado = e].estado = e
    <3>1. c \in Cita
      BY <2>2
    <3> HIDE DEF c, e
    <3>2. QED
      BY <3>1 DEF MismaReserva, Cita
  <2>4. QED
    BY <1>2, <2>1, <2>3
<1>6. QED
  BY <1>2, <1>4, <1>5

LEMMA NextCopiaFiel ==
  ASSUME Tipos, LibreSinLeer, CopiaFiel, [Next]_vars
  PROVE  CopiaFiel'
<1>1. \A u \in Peticiones :
        pet'[u].fase # "libre" /\ pet'[u].sol.op \in {"cambiarEstado", "verDetalle"} =>
          \A l \in pet'[u].leidas : /\ l[1] = pet'[u].sol.id /\ l[1] \in DOMAIN citas'
                                    /\ MismaReserva(citas'[l[1]], l[2])
  BY LeidasFieles
<1>2. \A u \in Peticiones :
        pet'[u].sol.op \in {"cambiarEstado", "verDetalle"}
          /\ pet'[u].fase \in {"validar", "guardar"} =>
          \E l \in pet'[u].leidas : /\ PuedeCambiar(pet'[u].sol, l[2])
                                    /\ MismaReserva(pet'[u].cita, l[2])
                                    /\ pet'[u].cita.estado = pet'[u].sol.estado
  BY EntidadFiel
<1>3. ASSUME NEW u \in Peticiones, pet'[u].fase # "libre",
             pet'[u].sol.op \in {"cambiarEstado", "verDetalle"}
      PROVE  /\ \A l \in pet'[u].leidas : /\ l[1] = pet'[u].sol.id /\ l[1] \in DOMAIN citas'
                                          /\ MismaReserva(citas'[l[1]], l[2])
             /\ pet'[u].fase \in {"validar", "guardar"} =>
                  \E l \in pet'[u].leidas : /\ PuedeCambiar(pet'[u].sol, l[2])
                                            /\ MismaReserva(pet'[u].cita, l[2])
                                            /\ pet'[u].cita.estado = pet'[u].sol.estado
  BY <1>1, <1>2, <1>3, Zenon
<1>4. QED
  BY <1>3, Zenon DEF CopiaFiel, Op

\* Rows are never removed, and a row changes only in its state and by a request
\* that may change it as it is when it is written: the check was made on a copy,
\* and other requests may have written the row since.
THEOREM EscriturasAutorizadas == Spec => EscrituraAutorizada
<1> DEFINE Inv == Tipos /\ LibreSinLeer /\ CopiaFiel
<1>1. Init => Inv
  <2>1. Init => LibreSinLeer /\ CopiaFiel
    BY DEF Init, LibreSinLeer, CopiaFiel, Vacia, Fase
  <2>2. QED
    BY <2>1, InitTipos
<1>2. Inv /\ [Next]_vars => Inv'
  BY NextTipos, NextLibreSinLeer, NextCopiaFiel
<1>3. Inv /\ [Next]_vars =>
        [/\ Len(citas) <= Len(citas')
         /\ \A i \in DOMAIN citas :
              citas'[i] # citas[i] =>
                \E t \in Peticiones :
                  /\ EnCurso(t) /\ Op(t) = "cambiarEstado" /\ pet[t].sol.id = i
                  /\ PuedeCambiar(pet[t].sol, citas[i])
                  /\ citas'[i] = [citas[i] EXCEPT !.estado = pet[t].sol.estado]]_vars
  <2> SUFFICES ASSUME Inv, [Next]_vars
               PROVE  /\ Len(citas) <= Len(citas')
                      /\ \A i \in DOMAIN citas :
                           citas'[i] # citas[i] =>
                             \E t \in Peticiones :
                               /\ EnCurso(t) /\ Op(t) = "cambiarEstado" /\ pet[t].sol.id = i
                               /\ PuedeCambiar(pet[t].sol, citas[i])
                               /\ citas'[i] = [citas[i] EXCEPT !.estado = pet[t].sol.estado]
    OBVIOUS
  <2>1. Len(citas) <= Len(citas')
    <3>1. citas \in Seq(Cita) /\ citas' \in Seq(Cita)
      BY NextTipos DEF Tipos, TypeOK
    <3>2. CASE citas = <<>>
      BY <3>1, <3>2
    <3>3. CASE citas # <<>>
      <4>1. 1 \in DOMAIN citas
        BY <3>1, <3>3
      <4>2. QED
        BY <4>1, CambioDeFila
    <3>4. QED
      BY <3>2, <3>3
  <2>2. QED
    BY <2>1, CambioDeFila
<1>4. QED
  BY <1>1, <1>2, <1>3, PTL DEF Spec, EscrituraAutorizada

-----------------------------------------------------------------------------
\* A write adds the new state to what every request for that row has seen.
LEMMA AnotarVisto ==
  ASSUME NEW t, NEW u \in Peticiones, NEW i, NEW e, Anotar(t, i, e)
  PROVE  /\ hist[u].visto \subseteq hist'[u].visto
         /\ EnCurso(u) /\ Op(u) = "cambiarEstado" /\ pet[u].sol.id = i => e \in hist'[u].visto
<1> DEFINE b == hist[u].escribio \/ u = t
           V == IF EnCurso(u) /\ Op(u) = "cambiarEstado" /\ pet[u].sol.id = i
                THEN hist[u].visto \cup {e} ELSE hist[u].visto
<1>1. hist'[u] = [escribio |-> b, visto |-> V]
  BY Zenon DEF Anotar
<1>2. hist'[u].visto = V
  <2> HIDE DEF b, V
  <2>1. QED
    BY <1>1
<1>3. QED
  BY <1>2

\* A step of the service writes the table and hist together, or neither; save()
\* writes nothing only when the entity is as it was loaded.
LEMMA PasoEscribe ==
  ASSUME Tipos, NEW t \in Peticiones, Paso(t)
  PROVE  \/ /\ citas' = citas /\ hist' = hist
            /\ Guardada(t) /\ Op(t) = "cambiarEstado" =>
                 <<pet[t].sol.id, pet[t].cita>> \in pet[t].leidas
         \/ /\ Fase(t, "guardar") /\ citas' = Append(citas, pet[t].cita)
            /\ Op(t) = "crear" /\ Anotar(t, Len(citas) + 1, pet[t].cita.estado)
         \/ /\ Fase(t, "guardar") /\ citas' = [citas EXCEPT ![pet[t].sol.id] = pet[t].cita]
            /\ Op(t) = "cambiarEstado" /\ Anotar(t, pet[t].sol.id, pet[t].cita.estado)
<1>1. CASE Insertar(t)
  BY <1>1 DEF Insertar
<1>2. CASE Actualizar(t)
  BY <1>2 DEF Actualizar
<1>3. CASE GuardarFalla(t)
  <2>1. pet'[t].fase = "respondida"
    BY <1>3, ResponderCambio, Codigos DEF GuardarFalla
  <2>2. QED
    BY <1>3, <2>1 DEF GuardarFalla, Guardada
<1>4. CASE ~(Insertar(t) \/ Actualizar(t) \/ GuardarFalla(t))
  <2>1. citas' = citas /\ hist' = hist /\ ~Fase(t, "guardar")
    BY <1>4 DEF Paso, Crear, LeerCita, Listar, ListaVacia, Enriquecer, AutorizarVer,
       AutorizarCambio, Validar, Fase
  <2>2. QED
    BY <2>1 DEF Guardada
<1>5. QED
  BY <1>1, <1>2, <1>3, <1>4

\* What a request has seen of its row, before and after any step but its arrival
\* and its end.
SigueViendo(u) ==
  /\ hist[u].visto \subseteq hist'[u].visto
  /\ EnCurso(u) /\ Op(u) = "cambiarEstado" /\ pet[u].sol.id \in DOMAIN citas' =>
       \/ pet[u].sol.id \in DOMAIN citas /\ citas'[pet[u].sol.id] = citas[pet[u].sol.id]
       \/ citas'[pet[u].sol.id].estado \in hist'[u].visto
  /\ Guardada(u) /\ Op(u) = "cambiarEstado" =>
       \/ <<pet[u].sol.id, pet[u].cita>> \in pet[u].leidas
       \/ pet[u].cita.estado \in hist'[u].visto

EmpiezaAVer(u) ==
  /\ Recibida(u) /\ citas' = citas
  /\ pet'[u].sol.op = "cambiarEstado" /\ pet'[u].sol.id \in DOMAIN citas =>
       citas[pet'[u].sol.id].estado \in hist'[u].visto

LEMMA PasoVisto ==
  ASSUME Tipos, NEW t \in Peticiones, Paso(t), NEW u \in Peticiones
  PROVE  SigueViendo(u)
<1>0. citas \in Seq(Cita) /\ (u # t => pet'[u] = pet[u])
  BY PasoCambio DEF Tipos, TypeOK
<1>a. Guardada(u) => u = t
  BY <1>0 DEF Guardada, Fase
<1>1. CASE /\ citas' = citas /\ hist' = hist
           /\ Guardada(t) /\ Op(t) = "cambiarEstado" =>
                <<pet[t].sol.id, pet[t].cita>> \in pet[t].leidas
  BY <1>a, <1>1 DEF SigueViendo
<1>2. CASE /\ Fase(t, "guardar") /\ citas' = Append(citas, pet[t].cita)
           /\ Op(t) = "crear" /\ Anotar(t, Len(citas) + 1, pet[t].cita.estado)
  <2>1. pet[t].cita \in Cita
    BY <1>2 DEF Tipos, Coherente, Fase
  <2>2. ~(Guardada(u) /\ Op(u) = "cambiarEstado")
    BY <1>a, <1>2
  <2>3. ASSUME NEW i \in DOMAIN citas', i \notin DOMAIN citas \/ citas'[i] # citas[i]
        PROVE  i = Len(citas) + 1 /\ citas'[i] = pet[t].cita
    BY <1>0, <1>2, <2>1, <2>3
  <2>4. QED
    BY <1>2, <2>2, <2>3, AnotarVisto DEF SigueViendo
<1>3. CASE /\ Fase(t, "guardar") /\ citas' = [citas EXCEPT ![pet[t].sol.id] = pet[t].cita]
           /\ Op(t) = "cambiarEstado" /\ Anotar(t, pet[t].sol.id, pet[t].cita.estado)
  <2>1. ASSUME NEW i \in DOMAIN citas', i \notin DOMAIN citas \/ citas'[i] # citas[i]
        PROVE  i = pet[t].sol.id /\ citas'[i] = pet[t].cita
    BY <1>0, <1>3, <2>1
  <2>2. Guardada(u) => pet[u].cita.estado \in hist'[u].visto
    BY <1>a, <1>3, AnotarVisto DEF Guardada, Fase, EnCurso
  <2>3. QED
    BY <1>3, <2>1, <2>2, AnotarVisto DEF SigueViendo
<1>4. QED
  BY <1>1, <1>2, <1>3, PasoEscribe

LEMMA CambioDeVisto ==
  ASSUME Tipos, [Next]_vars, NEW u \in Peticiones
  PROVE  Terminada(u) \/ EmpiezaAVer(u) \/ (SigueViendo(u) /\ ~Recibida(u))
<1>0. /\ pet \in [Peticiones -> Peticion] /\ citas \in Seq(Cita)
      /\ hist \in [Peticiones -> [escribio: BOOLEAN, visto: SUBSET Estados]]
  BY DEF Tipos, TypeOK
<1>1. ASSUME pet'[u] = pet[u], hist'[u] = hist[u], citas' = citas
      PROVE  SigueViendo(u) /\ ~Recibida(u)
  BY <1>1 DEF SigueViendo, Recibida, Guardada, Fase
<1>2. ASSUME NEW t \in Peticiones, Recibir(t) PROVE EmpiezaAVer(u) \/ (SigueViendo(u) /\ ~Recibida(u))
  <2>1. PICK s \in Solicitudes :
          /\ pet' = [pet EXCEPT ![t] = [@ EXCEPT !.fase = "recibida", !.sol = s]]
          /\ hist' = [hist EXCEPT ![t] =
                        [escribio |-> FALSE,
                         visto |-> IF s.op = "cambiarEstado" /\ s.id \in DOMAIN citas
                                   THEN {citas[s.id].estado} ELSE {}]]
    BY <1>2 DEF Recibir
  <2>2. CASE u = t
    <3> DEFINE v == IF s.op = "cambiarEstado" /\ s.id \in DOMAIN citas
                    THEN {citas[s.id].estado} ELSE {}
    <3>1. hist' = [hist EXCEPT ![t] = [escribio |-> FALSE, visto |-> v]]
      BY <2>1
    <3>2. hist'[u].visto = v
      <4> HIDE DEF v
      <4>1. QED
        BY <1>0, <2>2, <3>1
    <3>3. pet'[u].sol = s
      BY <1>0, <2>1, <2>2 DEF Peticion
    <3>4. Recibida(u) /\ citas' = citas
      BY <1>2, <2>2, RecibirCambio DEF Recibir
    <3>5. QED
      BY <3>2, <3>3, <3>4 DEF EmpiezaAVer
  <2>3. CASE u # t
    <3>1. hist'[u] = hist[u] /\ pet'[u] = pet[u] /\ citas' = citas
      BY <1>0, <1>2, <2>1, <2>3, RecibirCambio DEF Recibir
    <3>2. QED
      BY <1>1, <3>1
  <2>4. QED
    BY <2>2, <2>3
<1>3. ASSUME NEW t \in Peticiones, Terminar(t) PROVE Terminada(u) \/ (SigueViendo(u) /\ ~Recibida(u))
  <2>1. CASE u = t
    BY <1>0, <1>3, <2>1 DEF Terminar, Terminada, Fase
  <2>2. CASE u # t
    <3>1. hist'[u] = hist[u] /\ pet'[u] = pet[u] /\ citas' = citas
      BY <1>0, <1>3, <2>2 DEF Terminar
    <3>2. QED
      BY <1>1, <3>1
  <2>3. QED
    BY <2>1, <2>2
<1>4. ASSUME NEW t \in Peticiones, Paso(t) PROVE SigueViendo(u) /\ ~Recibida(u)
  <2>1. ~Recibida(u)
    <3>1. CASE u # t
      BY <1>4, <3>1, PasoCambio DEF Recibida, Fase
    <3>2. CASE u = t
      BY <1>4, <3>2 DEF Recibida, Paso, Crear, LeerCita, Listar, ListaVacia, Enriquecer,
         AutorizarVer, AutorizarCambio, Validar, Insertar, Actualizar, GuardarFalla, Fase
    <3>3. QED
      BY <3>1, <3>2
  <2>2. QED
    BY <1>4, <2>1, PasoVisto
<1>5. CASE CaidaAgendamiento
  <2>1. citas' = citas /\ hist' = hist
    BY <1>5 DEF CaidaAgendamiento
  <2>2. pet'[u] = pet[u] \/ pet'[u].fase = "respondida"
    BY <1>5 DEF CaidaAgendamiento, Contestada
  <2>3. QED
    BY <1>1, <2>1, <2>2 DEF SigueViendo, Recibida, Guardada
<1>6. CASE UNCHANGED <<citas, pet, hist>>
  BY <1>1, <1>6
<1>7. QED
  BY <1>2, <1>3, <1>4, <1>5, <1>6 DEF Next, vars, CambiarServicio, Alta, Baja

LEMMA VistoCompletoDe ==
  ASSUME Tipos, LibreSinLeer, CopiaFiel, VistoCompleto, [Next]_vars, NEW u \in Peticiones,
         pet'[u].fase # "libre", pet'[u].sol.op = "cambiarEstado"
  PROVE  /\ pet'[u].fase # "respondida" /\ pet'[u].sol.id \in DOMAIN citas' =>
              citas'[pet'[u].sol.id].estado \in hist'[u].visto
         /\ \A l \in pet'[u].leidas : l[2].estado \in hist'[u].visto
         /\ \/ pet'[u].fase = "enriquecerGuardada"
            \/ pet'[u].fase = "respondida" /\ pet'[u].resp = "200"
            => pet'[u].sol.estado \in hist'[u].visto
<1>1. CASE EmpiezaAVer(u)
  BY <1>1 DEF EmpiezaAVer, Recibida, LibreSinLeer
<1>2. CASE SigueViendo(u) /\ ~Recibida(u) /\ ~Terminada(u)
  <2>1. /\ pet'[u].sol = pet[u].sol /\ pet[u].fase # "libre" /\ CambioDe(u)
        /\ pet'[u].fase # "respondida" => EnCurso(u)
    BY <1>2, CambioDePeticion DEF CambioDe, EnCurso
  <2>2. Op(u) = "cambiarEstado"
    BY <2>1 DEF Op
  <2>3. pet'[u].fase # "respondida" /\ pet'[u].sol.id \in DOMAIN citas' =>
          citas'[pet'[u].sol.id].estado \in hist'[u].visto
    BY <1>2, <2>1, <2>2 DEF SigueViendo, VistoCompleto
  <2>4. ASSUME NEW l \in pet'[u].leidas PROVE l[2].estado \in hist'[u].visto
    <3>1. CASE Leida(u)
      <4>1. l \in Leidas(pet[u].sol, citas) /\ pet[u].sol.op = "cambiarEstado" /\ EnCurso(u)
        BY <2>2, <2>4, <3>1 DEF Leida, Op, Fase, EnCurso
      <4>2. l[1] \in DOMAIN citas /\ l[1] = pet[u].sol.id /\ l[2] = citas[l[1]]
        BY <4>1, LeidasPorId
      <4>3. QED
        BY <1>2, <2>1, <2>2, <4>1, <4>2 DEF VistoCompleto, SigueViendo
    <3>2. CASE ~Leida(u)
      <4>1. l \in pet[u].leidas
        BY <1>2, <2>1, <2>4, <3>2 DEF CambioDe, Respondida, Enriquecida, Aceptada, Guardada
      <4>2. QED
        BY <1>2, <2>1, <2>2, <4>1 DEF VistoCompleto, SigueViendo
    <3>3. QED
      BY <3>1, <3>2
  <2>5. ASSUME \/ pet'[u].fase = "enriquecerGuardada"
               \/ pet'[u].fase = "respondida" /\ pet'[u].resp = "200"
        PROVE  pet[u].sol.estado \in hist'[u].visto
    <3>1. CASE Guardada(u)
      <4>1. pet[u].cita.estado = pet[u].sol.estado
        BY <2>1, <2>2, <3>1 DEF Guardada, CopiaFiel, Fase
      <4>2. pet[u].cita.estado \in hist'[u].visto
        <5>1. CASE <<pet[u].sol.id, pet[u].cita>> \in pet[u].leidas
          <6>1. <<pet[u].sol.id, pet[u].cita>>[2].estado \in hist[u].visto
            BY <2>1, <2>2, <5>1 DEF VistoCompleto
          <6>2. QED
            BY <1>2, <6>1 DEF SigueViendo
        <5>2. QED
          BY <1>2, <2>2, <3>1, <5>1 DEF SigueViendo
      <4>3. QED
        BY <4>1, <4>2
    <3>2. CASE ~Guardada(u)
      <4>1. Fase(u, "enriquecerGuardada") \/ (Fase(u, "respondida") /\ pet[u].resp = "200")
        BY <1>2, <2>1, <2>2, <2>5, <3>2 DEF CambioDe, Respondida, Enriquecida, Leida,
           Aceptada, Comprobada, Fase
      <4>2. QED
        BY <1>2, <2>1, <2>2, <4>1 DEF VistoCompleto, SigueViendo
    <3>3. QED
      BY <3>1, <3>2
  <2>6. QED
    BY <2>1, <2>3, <2>4, <2>5
<1>3. ~Terminada(u)
  BY DEF Terminada, Vacia
<1>4. QED
  BY <1>1, <1>2, <1>3, CambioDeVisto

LEMMA NextVistoCompleto ==
  ASSUME Tipos, LibreSinLeer, CopiaFiel, VistoCompleto, [Next]_vars
  PROVE  VistoCompleto'
<1>1. ASSUME NEW u \in Peticiones, pet'[u].fase # "libre", pet'[u].sol.op = "cambiarEstado"
      PROVE  /\ pet'[u].fase # "respondida" /\ pet'[u].sol.id \in DOMAIN citas' =>
                  citas'[pet'[u].sol.id].estado \in hist'[u].visto
             /\ \A l \in pet'[u].leidas : l[2].estado \in hist'[u].visto
             /\ \/ pet'[u].fase = "enriquecerGuardada"
                \/ pet'[u].fase = "respondida" /\ pet'[u].resp = "200"
                => pet'[u].sol.estado \in hist'[u].visto
  BY <1>1, VistoCompletoDe
<1>2. QED
  BY <1>1 DEF VistoCompleto, Op, Fase, EnCurso

\* A 200 to cambiarEstado is true of some instant since the request arrived,
\* whatever other requests did to the row between its findById and its save().
THEOREM OkConEfecto == Spec => []OkTuvoEfecto
<1> DEFINE Inv == Tipos /\ LibreSinLeer /\ CopiaFiel /\ SinRespuestaAun /\ VistoCompleto
<1>1. Init => Inv
  <2>1. Init => LibreSinLeer /\ CopiaFiel /\ SinRespuestaAun /\ VistoCompleto
    BY DEF Init, LibreSinLeer, CopiaFiel, SinRespuestaAun, VistoCompleto, Vacia, Fase
  <2>2. QED
    BY <2>1, InitTipos
<1>2. Inv /\ [Next]_vars => Inv'
  BY NextTipos, NextLibreSinLeer, NextCopiaFiel, NextSinRespuesta, NextVistoCompleto
<1>3. Inv => OkTuvoEfecto
  BY CitasAssumption
     DEF OkTuvoEfecto, VistoCompleto, SinRespuestaAun, Fase, Respuestas
<1>4. QED
  BY <1>1, <1>2, <1>3, PTL DEF Spec

-----------------------------------------------------------------------------
(***************************************************************************)
(* The registry that clients see.                                          *)
(***************************************************************************)
\* What a request has when its step becomes one of the registry: nothing loaded
\* before its query, one row at most by id, and the entity its body asked for.
SinLeerAun ==
  \A t \in Peticiones : pet[t].fase \in {"libre", "recibida"} => pet[t].leidas = {}

UnaLeida ==
  \A t \in Peticiones : pet[t].fase # "libre" /\ Op(t) = "verDetalle" =>
    \A x, y \in pet[t].leidas : x = y

EntidadPedida ==
  \A t \in Peticiones : pet[t].fase \in {"validar", "guardar"} =>
    \/ Op(t) = "cambiarEstado"
    \/ /\ Op(t) = "crear" /\ pet[t].sol.rol = "CLIENTE"
       /\ pet[t].cita = CitaDe(pet[t].sol) /\ SinNulos(pet[t].cita)

Implementable ==
  /\ Tipos /\ SinRespuestaAun /\ LibreSinLeer /\ CopiaFiel /\ ReferenciasVerificadas
  /\ SinLeerAun /\ UnaLeida /\ EntidadPedida

LEMMA NextSinLeerAun ==
  ASSUME Tipos, SinLeerAun, [Next]_vars
  PROVE  SinLeerAun'
<1>1. ASSUME NEW t \in Peticiones, pet'[t].fase \in {"libre", "recibida"}
      PROVE  pet'[t].leidas = {}
  <2>1. CambioDe(t)
    BY CambioDePeticion
  <2>2. QED
    BY <1>1, <2>1 DEF SinLeerAun, Fase, EnCurso, CambioDe, Recibida, Terminada,
       Vacia, Respondida, Leida, Enriquecida, Aceptada, Guardada, Comprobada
<1>2. QED
  BY <1>1 DEF SinLeerAun

LEMMA NextUnaLeida ==
  ASSUME Tipos, LibreSinLeer, UnaLeida, [Next]_vars
  PROVE  UnaLeida'
<1>1. ASSUME NEW t \in Peticiones, pet'[t].fase # "libre", pet'[t].sol.op = "verDetalle",
             NEW x \in pet'[t].leidas, NEW y \in pet'[t].leidas
      PROVE  x = y
  <2>1. CambioDe(t)
    BY CambioDePeticion
  <2>2. ~Recibida(t) /\ ~Terminada(t)
    BY <1>1 DEF Recibida, Terminada, Vacia, LibreSinLeer
  <2>3. pet'[t].sol = pet[t].sol /\ pet[t].fase # "libre"
    BY <1>1, <2>1, <2>2 DEF CambioDe, EnCurso
  <2>4. CASE Leida(t)
    <3>1. x \in Leidas(pet[t].sol, citas) /\ y \in Leidas(pet[t].sol, citas)
      BY <1>1, <2>4 DEF Leida
    <3>2. PICK i \in DOMAIN citas : Coincide(pet[t].sol, i, citas[i]) /\ x = <<i, citas[i]>>
      BY <3>1 DEF Leidas
    <3>3. PICK j \in DOMAIN citas : Coincide(pet[t].sol, j, citas[j]) /\ y = <<j, citas[j]>>
      BY <3>1 DEF Leidas
    <3>4. i = pet[t].sol.id /\ j = pet[t].sol.id
      BY <1>1, <2>3, <3>2, <3>3 DEF Coincide
    <3>5. QED
      BY <3>2, <3>3, <3>4
  <2>5. CASE ~Leida(t)
    <3>1. x \in pet[t].leidas /\ y \in pet[t].leidas
      BY <1>1, <2>1, <2>2, <2>5 DEF CambioDe, Respondida, Enriquecida, Aceptada, Guardada
    <3>2. QED
      BY <1>1, <2>3, <3>1 DEF UnaLeida, Op
  <2>6. QED
    BY <2>4, <2>5
<1>2. QED
  BY <1>1 DEF UnaLeida, Op

LEMMA NextEntidadPedida ==
  ASSUME Tipos, EntidadPedida, [Next]_vars
  PROVE  EntidadPedida'
<1>1. ASSUME NEW t \in Peticiones, pet'[t].fase \in {"validar", "guardar"}
      PROVE  \/ pet'[t].sol.op = "cambiarEstado"
             \/ /\ pet'[t].sol.op = "crear" /\ pet'[t].sol.rol = "CLIENTE"
                /\ pet'[t].cita = CitaDe(pet'[t].sol) /\ SinNulos(pet'[t].cita)
  <2>1. CambioDe(t)
    BY CambioDePeticion
  <2>2. \/ pet'[t] = pet[t]
        \/ pet'[t].sol = pet[t].sol /\ (Aceptada(t) \/ Comprobada(t))
    BY <1>1, <2>1 DEF CambioDe, Recibida, Terminada, Vacia, Respondida, Leida, Enriquecida,
       Guardada
  <2>3. CASE pet'[t] = pet[t]
    BY <1>1, <2>3 DEF EntidadPedida, Op
  <2>4. CASE pet'[t].sol = pet[t].sol /\ Aceptada(t)
    BY <2>4 DEF Aceptada, EntidadPermitida, Op
  <2>5. CASE pet'[t].sol = pet[t].sol /\ Comprobada(t)
    <3>1. pet[t].fase = "validar" /\ pet'[t].cita = pet[t].cita
      BY <2>5 DEF Comprobada, Fase
    <3>2. QED
      BY <2>5, <3>1 DEF EntidadPedida, Op
  <2>6. QED
    BY <2>2, <2>3, <2>4, <2>5
<1>2. QED
  BY <1>1 DEF EntidadPedida, Op

vistos == [t \in Peticiones |-> Visto(pet[t])]

\* A step of request t is a step of its record in the registry.
LEMMA VistoPasa ==
  ASSUME NEW t \in Peticiones, \A u \in Peticiones \ {t} : pet'[u] = pet[u]
  PROVE  vistos' = [vistos EXCEPT ![t] = Visto(pet'[t])]
<1>1. vistos' = [u \in Peticiones |-> Visto(pet'[u])]
  BY Zenon DEF vistos
<1>2. \A u \in Peticiones : Visto(pet'[u]) = IF u = t THEN Visto(pet'[t]) ELSE Visto(pet[u])
  OBVIOUS
<1>3. QED
  BY <1>1, <1>2 DEF vistos

\* A record of the registry whose stage and one more field change.
ConRespuesta(v, e, x) == [v EXCEPT !.estadio = e, !.resp = x]
ConSolicitud(v, e, x) == [v EXCEPT !.estadio = e, !.sol = x]
ConDato(v, e, x) == [v EXCEPT !.estadio = e, !.dato = x]

LEMMA VistoConRespuesta ==
  ASSUME NEW p, NEW q, NEW e, NEW x, Estadio(q) = e, q.sol = p.sol, Dato(q) = Dato(p), q.resp = x
  PROVE  Visto(q) = ConRespuesta(Visto(p), e, x)
<1>1. [Visto(p) EXCEPT !.estadio = e, !.resp = x]
        = [[Visto(p) EXCEPT !.estadio = e] EXCEPT !.resp = x]
  OBVIOUS
<1>2. [Visto(p) EXCEPT !.estadio = e]
        = [estadio |-> e, sol |-> p.sol, dato |-> Dato(p), resp |-> p.resp]
  BY DEF Visto
<1>3. [[estadio |-> e, sol |-> p.sol, dato |-> Dato(p), resp |-> p.resp] EXCEPT !.resp = x]
        = [estadio |-> e, sol |-> p.sol, dato |-> Dato(p), resp |-> x]
  OBVIOUS
<1>4. QED
  BY <1>1, <1>2, <1>3 DEF Visto, ConRespuesta

LEMMA VistoConSolicitud ==
  ASSUME NEW p, NEW q, NEW e, NEW x, Estadio(q) = e, q.sol = x, Dato(q) = Dato(p), q.resp = p.resp
  PROVE  Visto(q) = ConSolicitud(Visto(p), e, x)
<1>1. [Visto(p) EXCEPT !.estadio = e, !.sol = x]
        = [[Visto(p) EXCEPT !.estadio = e] EXCEPT !.sol = x]
  OBVIOUS
<1>2. [Visto(p) EXCEPT !.estadio = e]
        = [estadio |-> e, sol |-> p.sol, dato |-> Dato(p), resp |-> p.resp]
  BY DEF Visto
<1>3. [[estadio |-> e, sol |-> p.sol, dato |-> Dato(p), resp |-> p.resp] EXCEPT !.sol = x]
        = [estadio |-> e, sol |-> x, dato |-> Dato(p), resp |-> p.resp]
  OBVIOUS
<1>4. QED
  BY <1>1, <1>2, <1>3 DEF Visto, ConSolicitud

LEMMA VistoConDato ==
  ASSUME NEW p, NEW q, NEW e, NEW x, Estadio(q) = e, q.sol = p.sol, Dato(q) = x, q.resp = p.resp
  PROVE  Visto(q) = ConDato(Visto(p), e, x)
<1>1. [Visto(p) EXCEPT !.estadio = e, !.dato = x]
        = [[Visto(p) EXCEPT !.estadio = e] EXCEPT !.dato = x]
  OBVIOUS
<1>2. [Visto(p) EXCEPT !.estadio = e]
        = [estadio |-> e, sol |-> p.sol, dato |-> Dato(p), resp |-> p.resp]
  BY DEF Visto
<1>3. [[estadio |-> e, sol |-> p.sol, dato |-> Dato(p), resp |-> p.resp] EXCEPT !.dato = x]
        = [estadio |-> e, sol |-> p.sol, dato |-> x, resp |-> p.resp]
  OBVIOUS
<1>4. QED
  BY <1>1, <1>2, <1>3 DEF Visto, ConDato

LEMMA VistoCallado ==
  ASSUME NEW t \in Peticiones, \A u \in Peticiones \ {t} : pet'[u] = pet[u],
         Visto(pet'[t]) = Visto(pet[t])
  PROVE  vistos' = vistos
BY VistoPasa DEF vistos

LEMMA EnRegistro ==
  ASSUME NEW t \in Peticiones
  PROVE  /\ \A e : Registro!En(t, e) <=> Estadio(pet[t]) = e
         /\ Registro!Sol(t) = pet[t].sol
         /\ vistos[t] = Visto(pet[t]) /\ vistos[t].dato = Dato(pet[t])
BY DEF Registro!En, Registro!Sol, vistos, Visto

\* The request is still to be served.
Pendiente(t) == Estadio(pet[t]) = "pendiente"

LEMMA VistoPendiente ==
  ASSUME Implementable, NEW t \in Peticiones, Pendiente(t)
  PROVE  Visto(pet[t]) = [estadio |-> "pendiente", sol |-> pet[t].sol, dato |-> {},
                          resp |-> Nulo]
<1>1. pet[t].fase # "respondida"
  BY DEF Pendiente, Estadio
<1>2. pet[t].resp = Nulo
  BY <1>1 DEF Implementable, SinRespuestaAun, Fase
<1>3. Dato(pet[t]) = {}
  <2>1. pet[t].fase \in Fases
    BY DEF Implementable, Tipos, TypeOK, Peticion
  <2>2. CASE pet[t].fase \in {"libre", "recibida"}
    BY <2>2 DEF Implementable, SinLeerAun, Dato
  <2>3. CASE pet[t].fase \in {"validar", "guardar"}
    BY <2>3 DEF Implementable, EntidadPedida, Op, Dato, Lecturas, Listados
  <2>4. CASE pet[t].fase \in {"enriquecerLeida", "autorizar", "enriquecerGuardada"}
    BY <2>4 DEF Pendiente, Estadio, Dato
  <2>5. QED
    BY <1>1, <2>1, <2>2, <2>3, <2>4 DEF Fases
<1>4. QED
  BY <1>2, <1>3 DEF Visto, Pendiente

\* A request ends with answer r.
Termina(t, r) ==
  /\ \A u \in Peticiones \ {t} : pet'[u] = pet[u]
  /\ pet'[t].fase = "respondida" /\ pet'[t].resp = r
  /\ pet'[t].sol = pet[t].sol /\ pet'[t].leidas = pet[t].leidas

LEMMA TerminaVisto ==
  ASSUME NEW t \in Peticiones, NEW r, Termina(t, r), pet[t].fase # "libre"
  PROVE  vistos' = [vistos EXCEPT ![t] = ConRespuesta(vistos[t], "contestada", r)]
<1>1. Visto(pet'[t]) = ConRespuesta(Visto(pet[t]), "contestada", r)
  <2>1. Estadio(pet'[t]) = "contestada" /\ Dato(pet'[t]) = Dato(pet[t])
    BY DEF Estadio, Dato, Termina
  <2>2. QED
    BY <2>1, VistoConRespuesta DEF Termina
<1>2. QED
  BY <1>1, VistoPasa, EnRegistro DEF Termina

\* A refusal, and an answer to what is done or read.
LEMMA RechazoImplementa ==
  ASSUME NEW t \in Peticiones, NEW r \in {"403", "404", "500"}, Termina(t, r),
         UNCHANGED <<citas, usados>>, pet[t].fase # "libre",
         r = "403" => (Estadio(pet[t]) \in {"pendiente", "leida"} /\ Registro!MotivoDe403(t)),
         r = "404" => (Pendiente(t) /\ Registro!MotivoDe404(t)),
         r = "500" => (Pendiente(t) /\ Op(t) \in {"crear", "cambiarEstado"})
  PROVE  Registro!Contestar(t, r)
<1>1. vistos' = [vistos EXCEPT ![t] = ConRespuesta(vistos[t], "contestada", r)]
  BY TerminaVisto
<1>2. CASE r = "403"
  BY <1>1, <1>2, EnRegistro DEF Registro!Contestar, ConRespuesta, vistos
<1>3. CASE r = "404"
  BY <1>1, <1>3, EnRegistro DEF Registro!Contestar, ConRespuesta, vistos, Pendiente
<1>4. CASE r = "500"
  BY <1>1, <1>4, EnRegistro DEF Registro!Contestar, ConRespuesta, vistos, Pendiente, Op
<1>5. QED
  BY <1>2, <1>3, <1>4

LEMMA ExitoImplementa ==
  ASSUME NEW t \in Peticiones, Termina(t, "200"),
         UNCHANGED <<citas, usados>>, pet[t].fase # "libre",
         \/ Estadio(pet[t]) = "hecha"
         \/ /\ Estadio(pet[t]) = "leida"
            /\ Op(t) = "verDetalle" =>
                 \A x \in Dato(pet[t]) : Registro!PuedeVer(pet[t].sol, x[2])
  PROVE  Registro!Contestar(t, "200")
<1>1. vistos' = [vistos EXCEPT ![t] = ConRespuesta(vistos[t], "contestada", "200")]
  BY TerminaVisto
<1>2. QED
  BY <1>1, EnRegistro DEF Registro!Contestar, ConRespuesta, vistos, Op

LEMMA RecibirImplementa ==
  ASSUME Implementable, NEW t \in Peticiones, Recibir(t)
  PROVE  \E s \in Solicitudes : Registro!Pedir(t, s)
<1>1. PICK s \in Solicitudes :
        pet' = [pet EXCEPT ![t] = [@ EXCEPT !.fase = "recibida", !.sol = s]]
  BY DEF Recibir
<1>2. /\ pet[t] \in Peticion /\ pet \in [Peticiones -> Peticion]
      /\ pet[t].fase = "libre" /\ pet[t].leidas = {} /\ pet[t].resp = Nulo
      /\ UNCHANGED <<citas, usados>>
  BY DEF Recibir, Fase, entorno, Implementable, Tipos, TypeOK, SinLeerAun, SinRespuestaAun
<1>3. /\ \A u \in Peticiones \ {t} : pet'[u] = pet[u]
      /\ pet'[t].fase = "recibida" /\ pet'[t].sol = s
      /\ pet'[t].leidas = {} /\ pet'[t].resp = Nulo
  BY <1>1, <1>2 DEF Peticion
<1>4. Estadio(pet[t]) = "libre" /\ Dato(pet[t]) = {}
  BY <1>2 DEF Estadio, Dato
<1>5. Estadio(pet'[t]) = "pendiente" /\ Dato(pet'[t]) = {}
  BY <1>3 DEF Estadio, Dato
<1>6. Visto(pet'[t]) = ConSolicitud(vistos[t], "pendiente", s)
  <2>1. Dato(pet'[t]) = Dato(pet[t]) /\ pet'[t].resp = pet[t].resp
    BY <1>2, <1>3, <1>4, <1>5
  <2>2. Visto(pet'[t]) = ConSolicitud(Visto(pet[t]), "pendiente", s)
    BY <1>3, <1>5, <2>1, VistoConSolicitud
  <2>3. QED
    BY <2>2, EnRegistro
<1>7. vistos' = [vistos EXCEPT ![t] = ConSolicitud(vistos[t], "pendiente", s)]
  BY <1>3, <1>6, VistoPasa
<1>8. Registro!Pedir(t, s)
  BY <1>2, <1>4, <1>7, EnRegistro DEF Registro!Pedir, ConSolicitud, vistos
<1>9. QED
  BY <1>8

\* An entity that guardarCita takes: the client sees nothing, or the 500 of a null.
LEMMA AceptarImplementa ==
  ASSUME Implementable, NEW t \in Peticiones, Pendiente(t),
         Op(t) \in {"crear", "cambiarEstado"}, pet[t].fase # "libre",
         NEW c, EntraGuardarCita(t, c), UNCHANGED <<citas, usados>>
  PROVE  Registro!Contestar(t, "500") \/ vistos' = vistos
<1>1. Implementable => Tipos
  BY DEF Implementable
<1>2. CASE pet'[t].fase = "respondida" /\ pet'[t].resp = "500"
  <2>1. Termina(t, "500")
    BY <1>1, <1>2, EntraGuardarCambio DEF Termina
  <2>2. QED
    BY <2>1, RechazoImplementa
<1>3. CASE pet'[t].fase = "validar" /\ pet'[t].resp = pet[t].resp
  <2>1. /\ \A u \in Peticiones \ {t} : pet'[u] = pet[u]
        /\ pet'[t].sol = pet[t].sol
    BY <1>1, EntraGuardarCambio
  <2>2. Estadio(pet'[t]) = "pendiente" /\ Dato(pet'[t]) = {}
    BY <1>3, <2>1 DEF Estadio, Dato, Op, Lecturas, Listados
  <2>3. Visto(pet'[t]) = Visto(pet[t])
    BY <1>3, <2>1, <2>2, VistoPendiente DEF Visto
  <2>4. QED
    BY <2>1, <2>3, VistoCallado
<1>4. QED
  BY <1>1, <1>2, <1>3, EntraGuardarCambio

LEMMA CrearImplementa ==
  ASSUME Implementable, NEW t \in Peticiones, Crear(t)
  PROVE  Registro!Contestar(t, "403") \/ Registro!Contestar(t, "500") \/ vistos' = vistos
<1>1. /\ Tipos /\ pet[t].fase = "recibida" /\ Op(t) = "crear"
      /\ UNCHANGED <<citas, usados>> /\ Pendiente(t)
  BY DEF Implementable, Crear, Fase, entorno, Pendiente, Estadio
<1>2. CASE pet[t].sol.rol # "CLIENTE"
  <2>1. Termina(t, "403")
    BY <1>1, <1>2, ResponderCambio, Codigos DEF Crear, Termina
  <2>2. Registro!MotivoDe403(t)
    BY <1>1, <1>2, EnRegistro DEF Registro!MotivoDe403, Op
  <2>3. QED
    BY <1>1, <2>1, <2>2, RechazoImplementa DEF Pendiente
<1>3. CASE pet[t].sol.rol = "CLIENTE"
  BY <1>1, <1>3, AceptarImplementa DEF Crear
<1>4. QED
  BY <1>2, <1>3

\* A query runs: a read is done with it, a change has only begun.
LEMMA ConsultarImplementa ==
  ASSUME Implementable, NEW t \in Peticiones, EntraEnriquecer(t), Fase(t, "recibida"),
         UNCHANGED <<citas, usados>>, Op(t) \in Lecturas \cup {"cambiarEstado"},
         Op(t) = "verDetalle" => pet[t].sol.id \in DOMAIN citas,
         Op(t) \in Lecturas => PuedeListar(pet[t].sol)
  PROVE  Registro!Leer(t) \/ vistos' = vistos
<1> DEFINE d == Leidas(pet[t].sol, citas)
<1>1. Tipos /\ Pendiente(t)
  BY DEF Implementable, Pendiente, Estadio, Fase
<1>2. /\ \A u \in Peticiones \ {t} : pet'[u] = pet[u]
      /\ pet'[t].sol = pet[t].sol /\ pet'[t].resp = pet[t].resp
      /\ pet'[t].leidas = d /\ pet'[t].fase = "enriquecerLeida"
  BY <1>1, EntraEnriquecerCambio
<1>3. Visto(pet[t]) = [estadio |-> "pendiente", sol |-> pet[t].sol, dato |-> {},
                       resp |-> Nulo]
  BY <1>1, VistoPendiente
<1>4. pet[t].resp = Nulo
  BY <1>3 DEF Visto
<1>5. CASE Op(t) = "cambiarEstado"
  <2>1. Estadio(pet'[t]) = "pendiente" /\ Dato(pet'[t]) = {}
    BY <1>2, <1>5 DEF Estadio, Dato, Op, Lecturas, Listados
  <2>2. Visto(pet'[t]) = Visto(pet[t])
    BY <1>2, <1>3, <1>4, <2>1 DEF Visto
  <2>3. QED
    BY <1>2, <2>2, VistoCallado
<1>6. CASE Op(t) \in Lecturas
  <2> HIDE DEF d
  <2>1. Estadio(pet'[t]) = "leida" /\ Dato(pet'[t]) = d
    BY <1>2, <1>6 DEF Estadio, Dato, Op
  <2>2. Visto(pet'[t]) = ConDato(vistos[t], "leida", d)
    BY <1>2, <2>1, EnRegistro, VistoConDato
  <2>3. vistos' = [vistos EXCEPT ![t] = ConDato(vistos[t], "leida", d)]
    BY <1>2, <2>2, VistoPasa
  <2>4. /\ Registro!Leidas(pet[t].sol, citas) = d /\ Op(t) \in Registro!Lecturas
        /\ Registro!PuedeListar(pet[t].sol)
    BY <1>6 DEF Registro!Leidas, Leidas, Registro!Coincide, Coincide, Registro!Lecturas,
       Lecturas, Registro!Listados, Listados, Registro!PuedeListar, PuedeListar, d
  <2>5. QED
    BY <1>1, <2>3, <2>4, EnRegistro DEF Registro!Leer, ConDato, Pendiente, Op, vistos
<1>7. QED
  BY <1>5, <1>6

LEMMA LeerCitaImplementa ==
  ASSUME Implementable, NEW t \in Peticiones, LeerCita(t)
  PROVE  Registro!Leer(t) \/ Registro!Contestar(t, "404") \/ vistos' = vistos
<1>1. /\ Tipos /\ Fase(t, "recibida") /\ Op(t) \in {"verDetalle", "cambiarEstado"}
      /\ UNCHANGED <<citas, usados>> /\ Pendiente(t)
  BY DEF Implementable, LeerCita, Fase, entorno, Pendiente, Estadio
<1>2. CASE pet[t].sol.id \in DOMAIN citas
  <2>1. PuedeListar(pet[t].sol) /\ Op(t) \in Lecturas \cup {"cambiarEstado"}
    BY <1>1 DEF PuedeListar, Op, Lecturas
  <2>2. QED
    BY <1>1, <1>2, <2>1, ConsultarImplementa DEF LeerCita
<1>3. CASE pet[t].sol.id \notin DOMAIN citas
  <2>1. Termina(t, "404")
    BY <1>1, <1>3, ResponderCambio, Codigos DEF LeerCita, Termina
  <2>2. Registro!MotivoDe404(t)
    BY <1>1, <1>3, EnRegistro DEF Registro!MotivoDe404, Op
  <2>3. QED
    BY <1>1, <2>1, <2>2, RechazoImplementa DEF Fase
<1>4. QED
  BY <1>2, <1>3

LEMMA ListarImplementa ==
  ASSUME Implementable, NEW t \in Peticiones, Listar(t) \/ ListaVacia(t)
  PROVE  \/ Registro!Leer(t) \/ vistos' = vistos
         \/ Registro!Contestar(t, "403") \/ Registro!Contestar(t, "200")
<1>1. /\ Tipos /\ UNCHANGED <<citas, usados>> /\ Op(t) \in Listados
      /\ Op(t) \in Lecturas /\ Op(t) # "verDetalle"
  BY DEF Implementable, Listar, ListaVacia, entorno, Lecturas, Listados
<1>2. CASE Listar(t) /\ PuedeListar(pet[t].sol)
  BY <1>1, <1>2, ConsultarImplementa DEF Listar
<1>3. CASE Listar(t) /\ ~PuedeListar(pet[t].sol)
  <2>1. Termina(t, "403") /\ Pendiente(t) /\ pet[t].fase # "libre"
    BY <1>1, <1>3, ResponderCambio, Codigos DEF Listar, Termina, Pendiente, Estadio, Fase
  <2>2. Registro!MotivoDe403(t)
    BY <1>3, EnRegistro DEF Registro!MotivoDe403, Registro!PuedeListar, PuedeListar
  <2>3. QED
    BY <1>1, <2>1, <2>2, RechazoImplementa DEF Pendiente
<1>4. CASE ListaVacia(t)
  <2>1. Termina(t, "200") /\ Estadio(pet[t]) = "leida" /\ pet[t].fase # "libre"
    BY <1>1, <1>4, ResponderCambio, Codigos DEF ListaVacia, Termina, Estadio, Fase, Op
  <2>2. QED
    BY <1>1, <2>1, ExitoImplementa
<1>5. QED
  BY <1>2, <1>3, <1>4

\* A call of enriquecer: the last one for a read, or for what was saved, answers it.
LEMMA EnriquecerImplementa ==
  ASSUME Implementable, NEW t \in Peticiones, Enriquecer(t)
  PROVE  Registro!Contestar(t, "200") \/ vistos' = vistos
<1>0. /\ Tipos /\ pet \in [Peticiones -> Peticion] /\ UNCHANGED <<citas, usados>>
      /\ pet[t].fase \in {"enriquecerLeida", "enriquecerGuardada"}
  BY DEF Enriquecer, entorno, Implementable, Tipos, TypeOK
<1>1. \/ \E k : pet' = [pet EXCEPT ![t] = [@ EXCEPT !.k = k]]
      \/ \E P : pet' = [pet EXCEPT ![t] = [@ EXCEPT !.k = 1, !.pendientes = P]]
      \/ TrasEnriquecer(t)
  BY Zenon DEF Enriquecer
<1>2. ASSUME \A u \in Peticiones \ {t} : pet'[u] = pet[u],
             pet'[t].sol = pet[t].sol, pet'[t].resp = pet[t].resp,
             pet'[t].leidas = pet[t].leidas,
             \/ pet'[t].fase = pet[t].fase
             \/ Fase(t, "enriquecerLeida") /\ pet'[t].fase = "autorizar"
      PROVE  vistos' = vistos
  <2>1. Estadio(pet'[t]) = Estadio(pet[t]) /\ Dato(pet'[t]) = Dato(pet[t])
    BY <1>0, <1>2 DEF Estadio, Dato, Fase
  <2>2. Visto(pet'[t]) = Visto(pet[t])
    BY <1>2, <2>1 DEF Visto
  <2>3. QED
    BY <1>2, <2>2, VistoCallado
<1>3. ASSUME NEW k, pet' = [pet EXCEPT ![t] = [@ EXCEPT !.k = k]]
      PROVE  vistos' = vistos
  <2>1. /\ \A u \in Peticiones \ {t} : pet'[u] = pet[u]
        /\ pet'[t].sol = pet[t].sol /\ pet'[t].resp = pet[t].resp
        /\ pet'[t].leidas = pet[t].leidas /\ pet'[t].fase = pet[t].fase
    BY <1>0, <1>3 DEF Peticion
  <2>2. QED
    BY <1>2, <2>1
<1>4. ASSUME NEW P, pet' = [pet EXCEPT ![t] = [@ EXCEPT !.k = 1, !.pendientes = P]]
      PROVE  vistos' = vistos
  <2>1. /\ \A u \in Peticiones \ {t} : pet'[u] = pet[u]
        /\ pet'[t].sol = pet[t].sol /\ pet'[t].resp = pet[t].resp
        /\ pet'[t].leidas = pet[t].leidas /\ pet'[t].fase = pet[t].fase
    BY <1>0, <1>4 DEF Peticion
  <2>2. QED
    BY <1>2, <2>1
<1>5. CASE TrasEnriquecer(t) /\ Fase(t, "enriquecerLeida") /\ Op(t) \notin Listados
  <2>1. pet' = [pet EXCEPT ![t] = [@ EXCEPT !.fase = "autorizar", !.pendientes = {}]]
    BY <1>5 DEF TrasEnriquecer
  <2>2. /\ \A u \in Peticiones \ {t} : pet'[u] = pet[u]
        /\ pet'[t].sol = pet[t].sol /\ pet'[t].resp = pet[t].resp
        /\ pet'[t].leidas = pet[t].leidas /\ pet'[t].fase = "autorizar"
    BY <1>0, <2>1 DEF Peticion
  <2>3. QED
    BY <1>2, <1>5, <2>2
<1>6. CASE TrasEnriquecer(t) /\ ~(Fase(t, "enriquecerLeida") /\ Op(t) \notin Listados)
  <2>1. Responder(t, "200")
    BY <1>6 DEF TrasEnriquecer
  <2>2. Termina(t, "200")
    BY <1>0, <2>1, ResponderCambio, Codigos DEF Termina
  <2>3. CASE Fase(t, "enriquecerGuardada")
    BY <1>0, <2>2, <2>3, ExitoImplementa DEF Estadio, Fase
  <2>4. CASE Fase(t, "enriquecerLeida")
    <3>1. Op(t) \in Lecturas /\ Op(t) # "verDetalle"
      BY <1>6, <2>4 DEF Lecturas, Listados
    <3>2. Estadio(pet[t]) = "leida"
      BY <2>4, <3>1 DEF Estadio, Fase, Op
    <3>3. QED
      BY <1>0, <2>2, <3>1, <3>2, ExitoImplementa
  <2>5. QED
    BY <1>0, <2>3, <2>4 DEF Fase
<1>7. QED
  BY <1>1, <1>3, <1>4, <1>5, <1>6

\* The header checks of verDetalle are those of the one row that was loaded.
LEMMA AutorizarVerImplementa ==
  ASSUME Implementable, NEW t \in Peticiones, AutorizarVer(t)
  PROVE  Registro!Contestar(t, "200") \/ Registro!Contestar(t, "403")
<1>1. /\ Tipos /\ UnaLeida /\ UNCHANGED <<citas, usados>>
      /\ pet[t].fase = "autorizar" /\ Op(t) = "verDetalle"
  BY DEF AutorizarVer, Fase, entorno, Implementable
<1>2. Estadio(pet[t]) = "leida" /\ Dato(pet[t]) = pet[t].leidas
  BY <1>1 DEF Estadio, Dato, Op, Lecturas
<1>3. PICK l \in pet[t].leidas :
        Responder(t, IF PuedeVer(pet[t].sol, l[2]) THEN "200" ELSE "403")
  BY DEF AutorizarVer
<1>4. Registro!PuedeVer(pet[t].sol, l[2]) <=> PuedeVer(pet[t].sol, l[2])
  BY DEF Registro!PuedeVer, PuedeVer
<1>5. CASE PuedeVer(pet[t].sol, l[2])
  <2>1. Termina(t, "200")
    BY <1>1, <1>3, <1>5, ResponderCambio, Codigos DEF Termina
  <2>2. \A x \in Dato(pet[t]) : Registro!PuedeVer(pet[t].sol, x[2])
    BY <1>1, <1>2, <1>3, <1>4, <1>5 DEF UnaLeida
  <2>3. QED
    BY <1>1, <1>2, <2>1, <2>2, ExitoImplementa
<1>6. CASE ~PuedeVer(pet[t].sol, l[2])
  <2>1. Termina(t, "403")
    BY <1>1, <1>3, <1>6, ResponderCambio, Codigos DEF Termina
  <2>2. Registro!MotivoDe403(t)
    BY <1>1, <1>2, <1>3, <1>4, <1>6, EnRegistro DEF Registro!MotivoDe403, Op, vistos
  <2>3. QED
    BY <1>1, <1>2, <2>1, <2>2, RechazoImplementa
<1>7. QED
  BY <1>5, <1>6

\* Who may change the copy may change the row, and the other way round.
LEMMA AutorizarCambioImplementa ==
  ASSUME Implementable, NEW t \in Peticiones, AutorizarCambio(t)
  PROVE  Registro!Contestar(t, "403") \/ Registro!Contestar(t, "500") \/ vistos' = vistos
<1>1. /\ Tipos /\ UNCHANGED <<citas, usados>> /\ CopiaFiel
      /\ pet[t].fase = "autorizar" /\ Op(t) = "cambiarEstado"
  BY DEF AutorizarCambio, Fase, entorno, Implementable
<1>2. Pendiente(t)
  BY <1>1 DEF Pendiente, Estadio, Op, Lecturas, Listados
<1>3. PICK l \in pet[t].leidas :
        IF PuedeCambiar(pet[t].sol, l[2])
        THEN EntraGuardarCita(t, [l[2] EXCEPT !.estado = pet[t].sol.estado])
        ELSE Responder(t, "403")
  BY DEF AutorizarCambio
<1>4. CASE PuedeCambiar(pet[t].sol, l[2])
  BY <1>1, <1>2, <1>3, <1>4, AceptarImplementa
<1>5. CASE ~PuedeCambiar(pet[t].sol, l[2])
  <2>1. Termina(t, "403")
    BY <1>1, <1>3, <1>5, ResponderCambio, Codigos DEF Termina
  <2>2. /\ l[1] = pet[t].sol.id /\ l[1] \in DOMAIN citas
        /\ MismaReserva(citas[l[1]], l[2])
    BY <1>1, <1>3 DEF CopiaFiel
  <2>3. ~Registro!PuedeCambiar(pet[t].sol, citas[pet[t].sol.id])
    BY <1>5, <2>2 DEF Registro!PuedeCambiar, PuedeCambiar, MismaReserva
  <2>4. Registro!MotivoDe403(t)
    BY <1>1, <2>2, <2>3, EnRegistro DEF Registro!MotivoDe403, Op
  <2>5. QED
    BY <1>1, <1>2, <2>1, <2>4, RechazoImplementa DEF Pendiente
<1>6. QED
  BY <1>4, <1>5

LEMMA ValidarImplementa ==
  ASSUME Implementable, NEW t \in Peticiones, Validar(t) \/ GuardarFalla(t)
  PROVE  Registro!Contestar(t, "500") \/ vistos' = vistos
<1>1. /\ Tipos /\ UNCHANGED <<citas, usados>> /\ EntidadPedida
      /\ pet[t].fase \in {"validar", "guardar"}
  BY DEF Validar, GuardarFalla, Fase, entorno, Implementable
<1>2. Op(t) \in {"crear", "cambiarEstado"} /\ Pendiente(t)
  BY <1>1 DEF EntidadPedida, Pendiente, Estadio
<1>3. CASE Termina(t, "500")
  BY <1>1, <1>2, <1>3, RechazoImplementa
<1>4. CASE GuardarFalla(t)
  BY <1>1, <1>3, <1>4, ResponderCambio, Codigos DEF GuardarFalla, Termina
<1>5. CASE Validar(t) /\ ~Termina(t, "500")
  <2>1. /\ \A u \in Peticiones \ {t} : pet'[u] = pet[u]
        /\ pet'[t].sol = pet[t].sol /\ pet'[t].resp = pet[t].resp
        /\ pet'[t].fase \in {"validar", "guardar"}
    BY <1>1, <1>5, ValidarCambio DEF Termina, Comprobada
  <2>2. Estadio(pet'[t]) = "pendiente" /\ Dato(pet'[t]) = {}
    BY <1>2, <2>1 DEF Estadio, Dato, Op, Lecturas, Listados
  <2>3. Visto(pet'[t]) = Visto(pet[t])
    BY <1>2, <2>1, <2>2, VistoPendiente DEF Visto
  <2>4. QED
    BY <2>1, <2>3, VistoCallado
<1>6. QED
  BY <1>4, <1>5, <1>3

\* After save(), in the registry.
LEMMA GuardadaVisto ==
  ASSUME Tipos, NEW t \in Peticiones, NEW P, Pendiente(t), Fase(t, "guardar"),
         Op(t) \in {"crear", "cambiarEstado"},
         pet' = [pet EXCEPT ![t] = [@ EXCEPT !.fase = "enriquecerGuardada",
                                              !.k = 1, !.pendientes = P]]
  PROVE  vistos' = [vistos EXCEPT ![t].estadio = "hecha"]
<1>1. pet \in [Peticiones -> Peticion]
  BY DEF Tipos, TypeOK
<1>2. /\ \A u \in Peticiones \ {t} : pet'[u] = pet[u]
      /\ pet'[t].sol = pet[t].sol /\ pet'[t].resp = pet[t].resp
      /\ pet'[t].leidas = pet[t].leidas /\ pet'[t].fase = "enriquecerGuardada"
  BY <1>1 DEF Peticion
<1>3. Estadio(pet'[t]) = "hecha" /\ Dato(pet'[t]) = Dato(pet[t])
  BY <1>2 DEF Estadio, Dato, Fase
<1>4. Visto(pet'[t]) = [Visto(pet[t]) EXCEPT !.estadio = "hecha"]
  BY <1>2, <1>3 DEF Visto
<1>5. QED
  BY <1>2, <1>4, VistoPasa, EnRegistro

\* A booking is stored with the references that were found one by one.
LEMMA InsertarImplementa ==
  ASSUME Implementable, NEW t \in Peticiones, Insertar(t)
  PROVE  Registro!Agendar(t) \/ Registro!Contestar(t, "500")
<1> DEFINE c == pet[t].cita
<1>1. /\ Tipos /\ UNCHANGED usados /\ Fase(t, "guardar") /\ Op(t) = "crear"
      /\ pet[t].sol.rol = "CLIENTE" /\ c = CitaDe(pet[t].sol) /\ SinNulos(c)
  BY DEF Insertar, Fase, entorno, Implementable, EntidadPedida
<1>2. Pendiente(t)
  BY <1>1 DEF Pendiente, Estadio, Fase
<1>3. CASE pet[t].sol.conId
  <2>1. Termina(t, "500") /\ UNCHANGED <<citas, usados>>
    BY <1>1, <1>3, ResponderCambio, Codigos DEF Insertar, Termina
  <2>2. QED
    BY <1>1, <1>2, <2>1, RechazoImplementa DEF Fase
<1>4. CASE ~pet[t].sol.conId
  <2>1. citas' = Append(citas, c)
    BY <1>4 DEF Insertar
  <2>2. vistos' = [vistos EXCEPT ![t].estadio = "hecha"]
    BY <1>1, <1>2, <1>4, GuardadaVisto, Zenon DEF Insertar
  <2>3. \A s \in Catalogos : Referencia(c, s) \in usados[s]
    <3>1. TAKE s \in Catalogos
    <3>2. PICK j \in {1, 2, 3} : s = Orden[j]
      BY OrdenCubre
    <3>3. QED
      BY <1>1, <3>2 DEF Implementable, ReferenciasVerificadas
  <2>4. /\ Registro!CitaDe(pet[t].sol) = c /\ Registro!SinNulos(c)
        /\ \A s \in Registro!Catalogos : Registro!Referencia(c, s) \in usados[s]
    BY <1>1, <2>3 DEF Registro!CitaDe, CitaDe, Registro!SinNulos, SinNulos,
       Registro!Catalogos, Catalogos, Registro!Referencia, Referencia
  <2> HIDE DEF c
  <2>5. QED
    BY <1>1, <1>2, <1>4, <2>1, <2>2, <2>4, EnRegistro
       DEF Registro!Agendar, Registro!Pasa, vistos, Pendiente, Op
<1>5. QED
  BY <1>3, <1>4

\* What is written is the row as it is with another state, or nothing.
LEMMA ActualizarImplementa ==
  ASSUME Implementable, NEW t \in Peticiones, Actualizar(t)
  PROVE  Registro!CambiarEstado(t)
<1> DEFINE i == pet[t].sol.id
           e == pet[t].sol.estado
           c == pet[t].cita
<1>1. /\ Tipos /\ UNCHANGED usados /\ Fase(t, "guardar") /\ Op(t) = "cambiarEstado"
      /\ CopiaFiel /\ pet[t].fase # "libre" /\ citas \in Seq(Cita) /\ c \in Cita
  BY DEF Actualizar, Fase, entorno, Implementable, Tipos, TypeOK, Coherente
<1>2. Pendiente(t)
  BY <1>1 DEF Pendiente, Estadio, Fase
<1>3. vistos' = [vistos EXCEPT ![t].estadio = "hecha"]
  BY <1>1, <1>2, GuardadaVisto, Zenon DEF Actualizar
<1>4. PICK l \in pet[t].leidas : /\ PuedeCambiar(pet[t].sol, l[2])
                                 /\ MismaReserva(c, l[2]) /\ c.estado = e
  BY <1>1 DEF CopiaFiel, Fase
<1>5. i \in DOMAIN citas /\ MismaReserva(citas[i], l[2])
  BY <1>1, <1>4 DEF CopiaFiel
<1>6. c = [citas[i] EXCEPT !.estado = e]
  <2>1. citas[i] \in Cita
    BY <1>1, <1>5
  <2>2. MismaReserva(citas[i], c)
    BY <1>4, <1>5 DEF MismaReserva
  <2> HIDE DEF i, e, c
  <2>3. QED
    BY <1>1, <1>4, <2>1, <2>2 DEF MismaReserva, Cita
<1>7. Registro!PuedeCambiar(pet[t].sol, citas[i])
  BY <1>4, <1>5 DEF Registro!PuedeCambiar, PuedeCambiar, MismaReserva
<1>8. citas' = citas \/ citas' = [citas EXCEPT ![i] = c]
  BY DEF Actualizar
<1>9. citas' = citas \/ citas' = [citas EXCEPT ![i] = [citas[i] EXCEPT !.estado = e]]
  BY <1>6, <1>8
<1> HIDE DEF c
<1>10. QED
  BY <1>1, <1>2, <1>3, <1>5, <1>7, <1>9, EnRegistro
     DEF Registro!CambiarEstado, Registro!Pasa, vistos, Pendiente, Op

LEMMA TerminarImplementa ==
  ASSUME Implementable, NEW t \in Peticiones, Terminar(t)
  PROVE  Registro!Terminar(t)
<1>1. /\ UNCHANGED <<citas, usados>> /\ pet[t].fase = "respondida"
      /\ pet' = [pet EXCEPT ![t] = Vacia] /\ pet \in [Peticiones -> Peticion]
  BY DEF Terminar, Fase, entorno, Implementable, Tipos, TypeOK
<1>2. Estadio(pet[t]) = "contestada" /\ Visto(Vacia) = Registro!Libre
  BY <1>1 DEF Estadio, Visto, Dato, Vacia, Registro!Libre
<1>3. (\A u \in Peticiones \ {t} : pet'[u] = pet[u]) /\ pet'[t] = Vacia
  BY <1>1
<1>4. vistos' = [vistos EXCEPT ![t] = Registro!Libre]
  BY <1>2, <1>3, VistoPasa
<1>5. QED
  BY <1>1, <1>2, <1>4, EnRegistro DEF Registro!Terminar, vistos

\* A kill takes the answers of every request in flight, and no row.
LEMMA CaidaImplementa ==
  ASSUME Implementable, CaidaAgendamiento
  PROVE  Registro!Perder
<1> DEFINE Perdido(v) == IF v.estadio \in {"libre", "contestada"} THEN v
                         ELSE [v EXCEPT !.estadio = "contestada", !.resp = "sinRespuesta"]
<1>1. UNCHANGED <<citas, usados>>
  BY DEF CaidaAgendamiento, entorno
<1>2. ASSUME NEW t \in Peticiones
      PROVE  Visto(pet'[t]) = Perdido(vistos[t])
  <2> DEFINE q == Contestada(pet[t], "sinRespuesta")
  <2>1. pet'[t] = IF EnCurso(t) THEN q ELSE pet[t]
    BY DEF CaidaAgendamiento
  <2>2. vistos[t] = Visto(pet[t]) /\ vistos[t].estadio = Estadio(pet[t])
    BY EnRegistro DEF Visto
  <2>3. vistos[t].estadio \in {"libre", "contestada"} <=> ~EnCurso(t)
    BY <2>2 DEF Estadio, EnCurso
  <2>4. CASE EnCurso(t)
    <3>1. /\ q.fase = "respondida" /\ q.sol = pet[t].sol /\ q.leidas = pet[t].leidas
          /\ q.resp = "sinRespuesta"
      BY DEF Contestada
    <3> HIDE DEF q
    <3>2. Estadio(q) = "contestada" /\ Dato(q) = Dato(pet[t])
      BY <2>4, <3>1 DEF Estadio, Dato, EnCurso
    <3>3. Visto(q) = ConRespuesta(Visto(pet[t]), "contestada", "sinRespuesta")
      BY <3>1, <3>2, VistoConRespuesta
    <3>4. QED
      BY <2>1, <2>2, <2>3, <2>4, <3>3 DEF ConRespuesta
  <2>5. CASE ~EnCurso(t)
    BY <2>1, <2>2, <2>3, <2>5
  <2>6. QED
    BY <2>4, <2>5
<1>3. vistos' = [t \in Peticiones |-> Perdido(vistos[t])]
  <2>1. vistos' = [t \in Peticiones |-> Visto(pet'[t])]
    BY Zenon DEF vistos
  <2> HIDE DEF Perdido
  <2>2. QED
    BY <1>2, <2>1
<1>4. QED
  BY <1>1, <1>3 DEF Registro!Perder, vistos

-----------------------------------------------------------------------------
LEMMA PasoImplementa ==
  ASSUME Implementable, NEW t \in Peticiones, Recibir(t) \/ Paso(t) \/ Terminar(t)
  PROVE  Registro!Next \/ (vistos' = vistos /\ UNCHANGED <<citas, usados>>)
<1>1. Insertar(t) \/ Actualizar(t) \/ UNCHANGED <<citas, usados>>
  BY DEF Paso, Recibir, Terminar, Crear, LeerCita, Listar, ListaVacia, Enriquecer,
         AutorizarVer, AutorizarCambio, Validar, GuardarFalla, entorno
<1>2. {"200", "403", "404", "500"} \subseteq {"200"} \cup Registro!Errores
  BY DEF Registro!Errores
<1>3. \/ \E s \in Solicitudes : Registro!Pedir(t, s)
      \/ Registro!Agendar(t) \/ Registro!CambiarEstado(t) \/ Registro!Leer(t)
      \/ \E r \in {"200", "403", "404", "500"} : Registro!Contestar(t, r)
      \/ Registro!Terminar(t)
      \/ vistos' = vistos /\ UNCHANGED <<citas, usados>>
  BY <1>1, RecibirImplementa, CrearImplementa, LeerCitaImplementa, ListarImplementa,
     EnriquecerImplementa, AutorizarVerImplementa, AutorizarCambioImplementa,
     ValidarImplementa, InsertarImplementa, ActualizarImplementa, TerminarImplementa
     DEF Paso
<1>4. QED
  BY <1>2, <1>3 DEF Registro!Next

LEMMA EntornoImplementa ==
  ASSUME NEW s \in Catalogos, CambiarServicio(s) \/ Alta(s) \/ Baja(s)
  PROVE  Registro!Next \/ (vistos' = vistos /\ UNCHANGED <<citas, usados>>)
<1>1. vistos' = vistos /\ citas' = citas
  BY DEF CambiarServicio, Alta, Baja, vistos
<1>2. CASE Alta(s)
  <2>1. \E i \in Ids \ usados[s] : usados' = [usados EXCEPT ![s] = @ \cup {i}]
    BY <1>2 DEF Alta
  <2>2. Registro!Conocer(s)
    BY <1>1, <2>1 DEF Registro!Conocer, vistos
  <2>3. QED
    BY <2>2 DEF Registro!Next, Registro!Catalogos, Catalogos
<1>3. CASE CambiarServicio(s) \/ Baja(s)
  BY <1>1, <1>3 DEF CambiarServicio, Baja
<1>4. QED
  BY <1>2, <1>3

\* For any number of requests, users and catalogues that come, go and hang: clients
\* see a registry in which each request takes effect at one instant or never.
THEOREM RegistroImplementado == Spec => ImplementaRegistro
<1>1. Init => Implementable /\ Registro!Init
  <2> SUFFICES ASSUME Init PROVE Implementable /\ Registro!Init
    OBVIOUS
  <2>1. Vacia.fase = "libre" /\ Vacia.leidas = {} /\ Vacia.resp = Nulo
    BY DEF Vacia
  <2>2. /\ SinRespuestaAun /\ LibreSinLeer /\ CopiaFiel /\ SinLeerAun /\ UnaLeida
        /\ EntidadPedida
    BY <2>1 DEF Init, SinRespuestaAun, LibreSinLeer, CopiaFiel, SinLeerAun, UnaLeida,
       EntidadPedida, Fase
  <2>3. Visto(Vacia) = Registro!Libre
    BY DEF Estadio, Visto, Dato, Vacia, Registro!Libre
  <2>4. [t \in Peticiones |-> Visto(pet[t])] = [t \in Peticiones |-> Registro!Libre]
    BY <2>3 DEF Init
  <2>5. QED
    BY <2>2, <2>4, InitTipos, InitReferencias DEF Init, Implementable, Registro!Init
<1>2. Implementable /\ [Next]_vars => Implementable'
  BY NextTipos, NextSinRespuesta, NextLibreSinLeer, NextCopiaFiel, NextVerificadas,
     NextSinLeerAun, NextUnaLeida, NextEntidadPedida DEF Implementable
<1>3. Implementable /\ [Next]_vars => [Registro!Next]_(Registro!vars)
  <2> SUFFICES ASSUME Implementable, [Next]_vars
               PROVE  Registro!Next \/ (vistos' = vistos /\ UNCHANGED <<citas, usados>>)
    BY DEF Registro!vars, vistos
  <2>1. CASE CaidaAgendamiento
    BY <2>1, CaidaImplementa DEF Registro!Next
  <2>2. CASE UNCHANGED vars
    BY <2>2 DEF vars, vistos
  <2>3. QED
    BY <2>1, <2>2, PasoImplementa, EntornoImplementa DEF Next
<1>4. QED
  BY <1>1, <1>2, <1>3, PTL DEF Spec, ImplementaRegistro, Registro!Spec

=============================================================================
