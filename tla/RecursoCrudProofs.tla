------------------------- MODULE RecursoCrudProofs --------------------------
(***************************************************************************)
(* What holds of every CRUD service, for any number of requests and rows:  *)
(* deleted rows stay deleted, and the code implements the atomic table.    *)
(***************************************************************************)
EXTENDS RecursoCrud, TLAPS

\* What each phase knows of its request.
Coherente ==
  \A t \in Peticiones :
    /\ ~Fase(t, "libre") => pet[t].sol \in Solicitud
    /\ Fase(t, "libre") => pet[t] = Vacia
    /\ Fase(t, "cargada") => pet[t].copia \in Filas /\ Op(t) \in {"actualizar", "eliminar"}
    /\ pet[t].fase \in {"recibida", "cargada"} => pet[t].dato = {} /\ pet[t].resp = Nulo

Tipos == TypeOK /\ Coherente

\* What a step may leave in the record of a request.
Correcta(p) ==
  /\ p \in Peticion
  /\ p.fase # "libre" => p.sol \in Solicitud
  /\ p.fase = "libre" => p = Vacia
  /\ p.fase = "cargada" => p.copia \in Filas /\ p.sol.op \in {"actualizar", "eliminar"}
  /\ p.fase \in {"recibida", "cargada"} => p.dato = {} /\ p.resp = Nulo

LEMMA TiposCorrectas ==
  Tipos <=> /\ tabla \in Seq(Opcional(Filas))
            /\ pet \in [Peticiones -> Peticion]
            /\ \A t \in Peticiones : Correcta(pet[t])
BY DEF Tipos, TypeOK, Coherente, Correcta, Fase, Op

\* A step of request t leaves the others as they are.
LEMMA UnaPeticion ==
  ASSUME Tipos, NEW t \in Peticiones, NEW q, Correcta(q), pet' = [pet EXCEPT ![t] = q],
         tabla' \in Seq(Opcional(Filas))
  PROVE  Tipos'
<1>1. pet \in [Peticiones -> Peticion] /\ \A u \in Peticiones : Correcta(pet[u])
  BY TiposCorrectas
<1>2. pet' \in [Peticiones -> Peticion] /\ \A u \in Peticiones : Correcta(pet'[u])
  BY <1>1 DEF Correcta
<1>3. QED
  BY <1>2 DEF Tipos, TypeOK, Coherente, Correcta, Fase, Op

-----------------------------------------------------------------------------
(***************************************************************************)
(* The records a step leaves behind, as values.                            *)
(***************************************************************************)
Pedida(p, s) == [p EXCEPT !.fase = "recibida", !.sol = s]
Cargada(p, c) == [p EXCEPT !.fase = "cargada", !.copia = c]
Resuelta(p, d, r) == [p EXCEPT !.fase = "resuelta", !.copia = Nulo, !.dato = d, !.resp = r]
Contestada(p) == [p EXCEPT !.fase = "respondida"]
Perdida(p) == [p EXCEPT !.fase = "respondida", !.copia = Nulo, !.dato = {},
                        !.resp = "sinRespuesta"]

LEMMA ResueltaCorrecta ==
  ASSUME NEW p, Correcta(p), p.fase # "libre",
         NEW d \in SUBSET (Nat \X Filas), NEW r \in Respuestas
  PROVE  /\ Correcta(Resuelta(p, d, r)) /\ Resuelta(p, d, r).fase = "resuelta"
         /\ Resuelta(p, d, r).sol = p.sol /\ Resuelta(p, d, r).dato = d
         /\ Resuelta(p, d, r).resp = r
BY DEF Correcta, Resuelta, Peticion, Fases, Opcional

LEMMA PedidaCorrecta ==
  ASSUME NEW p, Correcta(p), p.fase = "libre", NEW s \in Solicitud
  PROVE  /\ Correcta(Pedida(p, s)) /\ Pedida(p, s).fase = "recibida"
         /\ Pedida(p, s).sol = s /\ Pedida(p, s).dato = {} /\ Pedida(p, s).resp = Nulo
<1>1. p \in Peticion /\ p.dato = {} /\ p.resp = Nulo
  BY DEF Correcta, Vacia
<1>2. QED
  BY <1>1 DEF Correcta, Pedida, Peticion, Fases, Opcional

LEMMA CargadaCorrecta ==
  ASSUME NEW p, Correcta(p), p.fase = "recibida", p.sol.op \in {"actualizar", "eliminar"},
         NEW c \in Filas
  PROVE  /\ Correcta(Cargada(p, c)) /\ Cargada(p, c).fase = "cargada"
         /\ Cargada(p, c).sol = p.sol /\ Cargada(p, c).copia = c
         /\ Cargada(p, c).dato = {} /\ Cargada(p, c).resp = Nulo
BY DEF Correcta, Cargada, Peticion, Fases, Opcional

LEMMA ContestadaCorrecta ==
  ASSUME NEW p, Correcta(p), p.fase = "resuelta"
  PROVE  /\ Correcta(Contestada(p)) /\ Contestada(p).fase = "respondida"
         /\ Contestada(p).sol = p.sol /\ Contestada(p).dato = p.dato
         /\ Contestada(p).resp = p.resp
BY DEF Correcta, Contestada, Peticion, Fases, Opcional

LEMMA PerdidaCorrecta ==
  ASSUME NEW p, Correcta(p), p.fase # "libre"
  PROVE  /\ Correcta(Perdida(p)) /\ Perdida(p).fase = "respondida"
         /\ Perdida(p).sol = p.sol /\ Perdida(p).dato = {}
         /\ Perdida(p).resp = "sinRespuesta"
BY DEF Correcta, Perdida, Peticion, Fases, Opcional, Respuestas

LEMMA VaciaCorrecta == Correcta(Vacia)
BY DEF Correcta, Vacia, Peticion, Fases, Opcional

\* A query brings rows with their ids.
LEMMA LeidasType ==
  ASSUME NEW tab \in Seq(Opcional(Filas)), NEW s
  PROVE  Leidas(s, tab) \in SUBSET (Nat \X Filas) /\ RespuestaDeLectura(s, Leidas(s, tab)) \in Respuestas
BY DEF Leidas, Opcional, RespuestaDeLectura, Respuestas

-----------------------------------------------------------------------------
(***************************************************************************)
(* Every step replaces the record of one request, but a kill.              *)
(***************************************************************************)
PasaA(t, q) == pet' = [pet EXCEPT ![t] = q] /\ Correcta(q)

LEMMA ResolverPasa ==
  ASSUME Tipos, NEW t \in Peticiones, ~Fase(t, "libre"), NEW d \in SUBSET (Nat \X Filas),
         NEW r \in Respuestas, Resolver(t, d, r)
  PROVE  PasaA(t, Resuelta(pet[t], d, r))
<1>1. Correcta(pet[t])
  BY TiposCorrectas
<1>2. Correcta(Resuelta(pet[t], d, r))
  BY <1>1, ResueltaCorrecta DEF Fase
<1>3. pet' = [pet EXCEPT ![t] = Resuelta(pet[t], d, r)]
  BY Zenon DEF Resolver, Resuelta
<1>4. QED
  BY <1>2, <1>3 DEF PasaA

LEMMA Codigos == {"200", "204", "404", "500", "sinRespuesta", SinFila} \subseteq Respuestas
BY RecursosAssumption DEF Respuestas

LEMMA RecibirPasa ==
  ASSUME Tipos, NEW t \in Peticiones, Recibir(t)
  PROVE  \E s \in Solicitudes : PasaA(t, Pedida(pet[t], s))
<1>1. PICK s \in Solicitudes : pet' = [pet EXCEPT ![t] = Pedida(pet[t], s)]
  BY DEF Recibir, Pedida
<1>2. Correcta(Pedida(pet[t], s))
  BY TiposCorrectas, RecursosAssumption, PedidaCorrecta DEF Recibir, Fase
<1>3. QED
  BY <1>1, <1>2 DEF PasaA

LEMMA LeerPasa ==
  ASSUME Tipos, NEW t \in Peticiones, Leer(t)
  PROVE  LET d == Leidas(pet[t].sol, tabla) IN
         PasaA(t, Resuelta(pet[t], d, RespuestaDeLectura(pet[t].sol, d)))
<1>1. tabla \in Seq(Opcional(Filas)) /\ ~Fase(t, "libre")
  BY DEF Leer, Fase, Tipos, TypeOK
<1>2. QED
  BY <1>1, LeidasType, ResolverPasa DEF Leer

\* A step of a PUT or a DELETE either finds its row, or ends its request.
LEMMA BuscarPasa ==
  ASSUME Tipos, NEW t \in Peticiones, Buscar(t)
  PROVE  IF Existe(tabla, Id(t))
         THEN tabla[Id(t)] \in Filas /\ PasaA(t, Cargada(pet[t], tabla[Id(t)]))
         ELSE PasaA(t, Resuelta(pet[t], {}, IF Op(t) = "actualizar" THEN SinFila ELSE "204"))
<1>1. CASE Existe(tabla, Id(t))
  <2>1. tabla[Id(t)] \in Filas
    BY <1>1 DEF Existe, Tipos, TypeOK, Opcional
  <2>2. pet' = [pet EXCEPT ![t] = Cargada(pet[t], tabla[Id(t)])]
    BY <1>1 DEF Buscar, Cargada
  <2>3. Correcta(Cargada(pet[t], tabla[Id(t)]))
    BY <2>1, TiposCorrectas, CargadaCorrecta DEF Buscar, Fase, Op
  <2>4. QED
    BY <1>1, <2>1, <2>2, <2>3 DEF PasaA
<1>2. CASE ~Existe(tabla, Id(t))
  BY <1>2, ResolverPasa, Codigos DEF Buscar, Fase
<1>3. QED
  BY <1>1, <1>2

LEMMA EscribirPasa ==
  ASSUME Tipos, NEW t \in Peticiones,
         Crear(t) \/ Actualizar(t) \/ Borrar(t) \/ FallaBD(t)
  PROVE  \E r \in {"200", "204", "500"} : PasaA(t, Resuelta(pet[t], {}, r))
<1>1. ~Fase(t, "libre") /\ \E r \in {"200", "204", "500"} : Resolver(t, {}, r)
  BY DEF Crear, Actualizar, Borrar, FallaBD, Fase
<1>2. QED
  BY <1>1, ResolverPasa, Codigos

LEMMA ContestarPasa ==
  ASSUME Tipos, NEW t \in Peticiones, Contestar(t)
  PROVE  PasaA(t, Contestada(pet[t]))
<1>1. Correcta(Contestada(pet[t]))
  BY TiposCorrectas, ContestadaCorrecta DEF Contestar, Fase
<1>2. QED
  BY <1>1 DEF Contestar, Contestada, PasaA

LEMMA TerminarPasa ==
  ASSUME Tipos, NEW t \in Peticiones, Terminar(t)
  PROVE  PasaA(t, Vacia)
BY VaciaCorrecta DEF Terminar, PasaA

\* What a step may do to the table.
LEMMA CambioDeTabla ==
  ASSUME Tipos, [Next]_vars
  PROVE  \/ tabla' = tabla
         \/ \E d \in Filas : tabla' = Append(tabla, d)
         \/ \E i \in DOMAIN tabla, d \in Opcional(Filas) :
              Existe(tabla, i) /\ tabla' = [tabla EXCEPT ![i] = d]
<1>1. ASSUME NEW t \in Peticiones, Crear(t) \/ Actualizar(t) \/ Borrar(t)
      PROVE  \/ tabla' = tabla
             \/ \E d \in Filas : tabla' = Append(tabla, d)
             \/ \E i \in DOMAIN tabla, d \in Opcional(Filas) :
                  Existe(tabla, i) /\ tabla' = [tabla EXCEPT ![i] = d]
  <2>1. pet[t].sol.datos \in Filas
    BY <1>1 DEF Crear, Actualizar, Borrar, Fase, Tipos, Coherente, Solicitud
  <2>2. pet[t].sol.datos \in Opcional(Filas) /\ Nulo \in Opcional(Filas)
    BY <2>1 DEF Opcional
  <2>3. QED
    BY <1>1, <2>1, <2>2 DEF Crear, Actualizar, Borrar, Existe
<1>2. QED
  BY <1>1 DEF Next, Paso, vars, Recibir, Leer, Buscar, FallaBD, Contestar, Terminar, Caida

LEMMA InitTipos == Init => Tipos
<1>1. Vacia \in Peticion
  BY DEF Vacia, Peticion, Fases, Opcional
<1>2. QED
  BY <1>1 DEF Init, Tipos, TypeOK, Coherente, Vacia, Fase

LEMMA NextTipos == Tipos /\ [Next]_vars => Tipos'
<1> SUFFICES ASSUME Tipos, [Next]_vars PROVE Tipos'
  OBVIOUS
<1>1. tabla' \in Seq(Opcional(Filas))
  <2>1. tabla \in Seq(Opcional(Filas)) /\ Filas \subseteq Opcional(Filas)
    BY DEF Tipos, TypeOK, Opcional
  <2>2. QED
    BY <2>1, CambioDeTabla
<1>2. ASSUME NEW t \in Peticiones, NEW q, PasaA(t, q) PROVE Tipos'
  BY <1>1, <1>2, UnaPeticion DEF PasaA
<1>3. CASE Caida
  <2>1. \A u \in Peticiones : Correcta(pet[u])
    BY TiposCorrectas
  <2>2. pet' = [u \in Peticiones |-> IF EnCurso(u) THEN Perdida(pet[u]) ELSE pet[u]]
    BY <1>3 DEF Caida, Perdida
  <2>3. \A u \in Peticiones : Correcta(pet'[u])
    BY <2>1, <2>2, PerdidaCorrecta DEF EnCurso
  <2>4. pet' \in [Peticiones -> Peticion]
    BY <2>2, <2>3 DEF Correcta
  <2>5. QED
    BY <1>1, <2>3, <2>4 DEF Tipos, TypeOK, Coherente, Correcta, Fase, Op
<1>4. CASE UNCHANGED vars
  BY <1>4 DEF vars, Tipos, TypeOK, Coherente, Fase, Op
<1>5. QED
  BY <1>2, <1>3, <1>4, RecibirPasa, LeerPasa, BuscarPasa, EscribirPasa, ContestarPasa,
     TerminarPasa DEF Next, Paso

\* Every thread holds the row its phase needs, and a deleted row is never loaded.
THEOREM TypeCorrect == Spec => []TypeOK
<1>1. Tipos => TypeOK
  BY DEF Tipos
<1>2. QED
  BY <1>1, InitTipos, NextTipos, PTL DEF Spec

\* A row that is gone stays gone and no id is given twice, however PUTs that
\* loaded the row before the DELETE end after it.
THEOREM BajasDefinitivas == Spec => SinResurreccion
<1>1. Tipos /\ [Next]_vars =>
        [\A i \in DOMAIN tabla : i \in DOMAIN tabla' /\ (tabla[i] = Nulo => tabla'[i] = Nulo)]_vars
  <2> SUFFICES ASSUME Tipos, [Next]_vars, NEW i \in DOMAIN tabla
               PROVE  i \in DOMAIN tabla' /\ (tabla[i] = Nulo => tabla'[i] = Nulo)
    OBVIOUS
  <2>1. tabla \in Seq(Opcional(Filas))
    BY DEF Tipos, TypeOK
  <2>2. QED
    BY <2>1, CambioDeTabla DEF Existe
<1>2. QED
  BY <1>1, InitTipos, NextTipos, PTL DEF Spec, SinResurreccion
-----------------------------------------------------------------------------
(***************************************************************************)
(* The code implements the atomic table.  First, what the table shows of   *)
(* each record a step leaves behind.                                       *)
(***************************************************************************)
LEMMA AtencionLibre ==
  ASSUME NEW p, Correcta(p), p.fase = "libre"
  PROVE  p = Vacia /\ Atencion(p) = Tabla!Libre
BY DEF Correcta, Atencion, Estadio, SinCambios, Vacia, Tabla!Libre, Tabla!Vista, Vista

\* The record is still to be served.
Pendiente(p) == p.fase \in {"recibida", "cargada"} /\ ~SinCambios(p)

LEMMA AtencionPendiente ==
  ASSUME NEW p, Correcta(p), Pendiente(p)
  PROVE  Atencion(p) = Vista("pendiente", p.sol, {}, Nulo)
BY DEF Atencion, Estadio, Pendiente, Correcta

LEMMA AtencionSinCambios ==
  ASSUME NEW p, Correcta(p), SinCambios(p)
  PROVE  Atencion(p) = Vista("resuelta", p.sol, {}, "200")
BY DEF Atencion, Estadio, SinCambios, Correcta

LEMMA AtencionResuelta ==
  ASSUME NEW p, Correcta(p), p.fase = "resuelta"
  PROVE  Atencion(p) = Vista("resuelta", p.sol, p.dato, p.resp)
BY DEF Atencion, Estadio, SinCambios

LEMMA AtencionContestada ==
  ASSUME NEW p, Correcta(p), p.fase = "respondida"
  PROVE  Atencion(p) = Vista("contestada", p.sol, p.dato, p.resp)
BY DEF Atencion, Estadio, SinCambios

\* Only requests that are free or answered look so.
LEMMA AtencionEnCurso ==
  ASSUME NEW p, Correcta(p)
  PROVE  Atencion(p).estadio \in {"libre", "contestada"} <=> p.fase \in {"libre", "respondida"}
BY DEF Atencion, Estadio, SinCambios, Vista

\* A step of request t is a step of its record in the table.
at == [u \in Peticiones |-> Atencion(pet[u])]

LEMMA AtencionPasa ==
  ASSUME Tipos, NEW t \in Peticiones, NEW q, PasaA(t, q)
  PROVE  at' = [at EXCEPT ![t] = Atencion(q)]
<1>1. \A u \in Peticiones : pet'[u] = IF u = t THEN q ELSE pet[u]
  BY DEF PasaA, Tipos, TypeOK
<1>2. at' = [u \in Peticiones |-> Atencion(pet'[u])]
  BY Zenon DEF at
<1>3. QED
  BY <1>1, <1>2, Zenon DEF at

\* A request that is served now, in the table.
LEMMA ResueltaImplementa ==
  ASSUME Tipos, NEW t \in Peticiones, Pendiente(pet[t]),
         NEW d \in SUBSET (Nat \X Filas), NEW r \in Respuestas,
         PasaA(t, Resuelta(pet[t], d, r))
  PROVE  Tabla!En(t, "pendiente") /\ Tabla!Sol(t) = pet[t].sol /\ Tabla!Resuelta(t, d, r)
<1>1. Correcta(pet[t]) /\ pet[t].fase # "libre"
  BY TiposCorrectas DEF Pendiente
<1>2. at[t] = Vista("pendiente", pet[t].sol, {}, Nulo)
  BY <1>1, AtencionPendiente DEF at
<1>3. at[t].estadio = "pendiente" /\ at[t].sol = pet[t].sol
  BY <1>2 DEF Vista
<1>4. at' = [at EXCEPT ![t] = Vista("resuelta", pet[t].sol, d, r)]
  BY <1>1, AtencionPasa, ResueltaCorrecta, AtencionResuelta
<1>5. QED
  BY <1>3, <1>4 DEF Tabla!En, Tabla!Sol, Tabla!Resuelta, Tabla!Vista, Vista, at

LEMMA RecibirImplementa ==
  ASSUME Tipos, NEW t \in Peticiones, Recibir(t)
  PROVE  \E s \in Solicitudes : Tabla!Pedir(t, s)
<1>1. PICK s \in Solicitudes : PasaA(t, Pedida(pet[t], s))
  BY RecibirPasa
<1>2. Correcta(pet[t]) /\ pet[t].fase = "libre" /\ s \in Solicitud /\ tabla' = tabla
  BY RecursosAssumption, TiposCorrectas DEF Recibir, Fase
<1>3. at[t].estadio = "libre"
  BY <1>2, AtencionLibre DEF at, Tabla!Libre, Tabla!Vista
<1>4. Atencion(Pedida(pet[t], s)) = Vista("pendiente", s, {}, Nulo)
  <2>1. Pendiente(Pedida(pet[t], s)) /\ Pedida(pet[t], s).sol = s
    BY <1>2, PedidaCorrecta DEF Pendiente, SinCambios
  <2>2. QED
    BY <2>1, <1>2, PedidaCorrecta, AtencionPendiente
<1>5. at' = [at EXCEPT ![t] = Vista("pendiente", s, {}, Nulo)]
  BY <1>1, <1>4, AtencionPasa
<1>6. Tabla!Pedir(t, s)
  BY <1>2, <1>3, <1>5 DEF Tabla!Pedir, Tabla!En, Tabla!Vista, Vista, at
<1>7. QED
  BY <1>6

LEMMA LeerImplementa ==
  ASSUME Tipos, NEW t \in Peticiones, Leer(t)
  PROVE  Tabla!Leer(t)
<1> DEFINE d == Leidas(pet[t].sol, tabla)
           r == RespuestaDeLectura(pet[t].sol, d)
<1>1. /\ d \in SUBSET (Nat \X Filas) /\ r \in Respuestas
      /\ PasaA(t, Resuelta(pet[t], d, r)) /\ Pendiente(pet[t])
      /\ pet[t].sol.op \in {"listar", "obtener"} /\ tabla' = tabla
  BY LeidasType, LeerPasa DEF Leer, Fase, Op, Pendiente, SinCambios, Tipos, TypeOK
<1>2. Tabla!En(t, "pendiente") /\ Tabla!Sol(t) = pet[t].sol /\ Tabla!Resuelta(t, d, r)
  BY <1>1, ResueltaImplementa
<1>3. Tabla!Leidas(pet[t].sol, tabla) = d /\ Tabla!RespuestaDeLectura(pet[t].sol, d) = r
  BY DEF Tabla!Leidas, Leidas, Tabla!RespuestaDeLectura, RespuestaDeLectura
<1>4. QED
  BY <1>1, <1>2, <1>3 DEF Tabla!Leer

\* A write that ends with an answer, in the table.
LEMMA EscrituraImplementa ==
  ASSUME Tipos, NEW t \in Peticiones, Pendiente(pet[t]), NEW r \in Respuestas,
         Resolver(t, {}, r)
  PROVE  Tabla!En(t, "pendiente") /\ Tabla!Sol(t) = pet[t].sol /\ Tabla!Resuelta(t, {}, r)
<1>1. ~Fase(t, "libre") /\ {} \in SUBSET (Nat \X Filas)
  BY DEF Pendiente, Fase
<1>2. PasaA(t, Resuelta(pet[t], {}, r))
  BY <1>1, ResolverPasa
<1>3. QED
  BY <1>1, <1>2, ResueltaImplementa

LEMMA CrearImplementa ==
  ASSUME Tipos, NEW t \in Peticiones, Crear(t)
  PROVE  Tabla!Crear(t)
<1>1. Pendiente(pet[t]) /\ "200" \in Respuestas
  BY Codigos DEF Crear, Pendiente, Fase, Op, SinCambios
<1>2. QED
  BY <1>1, EscrituraImplementa DEF Crear, Op, Tabla!Crear

LEMMA FalloImplementa ==
  ASSUME Tipos, NEW t \in Peticiones, Pendiente(pet[t]), Resolver(t, {}, "500"),
         Op(t) \in {"crear", "actualizar", "eliminar"}, tabla' = tabla
  PROVE  Tabla!Fallar(t)
BY EscrituraImplementa, Codigos DEF Op, Tabla!Fallar

\* The SELECT of a PUT or a DELETE: nothing yet, unless it settles the request.
LEMMA BuscarImplementa ==
  ASSUME Tipos, NEW t \in Peticiones, Buscar(t)
  PROVE  Tabla!Actualizar(t) \/ Tabla!Eliminar(t) \/ (tabla' = tabla /\ at' = at)
<1> DEFINE q == Cargada(pet[t], tabla[Id(t)])
<1>1. /\ Pendiente(pet[t]) /\ Correcta(pet[t]) /\ tabla' = tabla
      /\ pet[t].fase = "recibida" /\ Op(t) \in {"actualizar", "eliminar"}
      /\ at[t] = Vista("pendiente", pet[t].sol, {}, Nulo)
  BY TiposCorrectas, AtencionPendiente DEF Buscar, Fase, Op, Pendiente, SinCambios, at
<1>2. ASSUME Existe(tabla, Id(t))
      PROVE  /\ at' = [at EXCEPT ![t] = Atencion(q)] /\ Correcta(q)
             /\ q.fase = "cargada" /\ q.sol = pet[t].sol /\ q.copia = tabla[Id(t)]
  BY <1>1, <1>2, BuscarPasa, AtencionPasa, CargadaCorrecta DEF PasaA, Op
<1>3. CASE Existe(tabla, Id(t)) /\ SinCambios(q)
  <2>1. at' = [at EXCEPT ![t] = Vista("resuelta", pet[t].sol, {}, "200")]
    BY <1>2, <1>3, AtencionSinCambios
  <2>2. pet[t].sol.op = "actualizar" /\ tabla[Id(t)] = pet[t].sol.datos
    BY <1>2, <1>3 DEF SinCambios
  <2>3. tabla = [tabla EXCEPT ![Id(t)] = pet[t].sol.datos]
    BY <2>2 DEF Tipos, TypeOK
  <2>4. at[t].estadio = "pendiente" /\ at[t].sol = pet[t].sol
    BY <1>1 DEF Vista
  <2>5. Tabla!En(t, "pendiente") /\ Tabla!Sol(t) = pet[t].sol /\ Tabla!Resuelta(t, {}, "200")
    BY <2>1, <2>4 DEF Tabla!En, Tabla!Sol, Tabla!Resuelta, Tabla!Vista, Vista, at
  <2>6. QED
    BY <1>1, <1>3, <2>2, <2>3, <2>5 DEF Tabla!Actualizar, Tabla!Existe, Existe, Id
<1>4. CASE Existe(tabla, Id(t)) /\ ~SinCambios(q)
  <2>1. Atencion(q) = at[t]
    BY <1>1, <1>2, <1>4, AtencionPendiente DEF Pendiente
  <2>2. QED
    BY <1>1, <1>2, <1>4, <2>1 DEF at
<1>5. CASE ~Existe(tabla, Id(t))
  <2>1. CASE Op(t) = "actualizar"
    <3>1. Resolver(t, {}, SinFila)
      BY <1>5, <2>1 DEF Buscar
    <3>2. QED
      BY <1>1, <1>5, <2>1, <3>1, EscrituraImplementa, Codigos
         DEF Tabla!Actualizar, Tabla!Existe, Existe, Id, Op
  <2>2. CASE Op(t) = "eliminar"
    <3>1. Resolver(t, {}, "204")
      BY <1>5, <2>2 DEF Buscar
    <3>2. QED
      BY <1>1, <1>5, <2>2, <3>1, EscrituraImplementa, Codigos
         DEF Tabla!Eliminar, Tabla!Existe, Existe, Id, Op
  <2>3. QED
    BY <1>1, <2>1, <2>2
<1>6. QED
  BY <1>3, <1>4, <1>5

LEMMA ActualizarImplementa ==
  ASSUME Tipos, NEW t \in Peticiones, Actualizar(t)
  PROVE  Tabla!Actualizar(t) \/ Tabla!Fallar(t) \/ (tabla' = tabla /\ at' = at)
<1>1. Correcta(pet[t]) /\ pet[t].fase = "cargada" /\ Op(t) = "actualizar"
  BY TiposCorrectas DEF Actualizar, Fase
<1>2. CASE SinCambios(pet[t])
  <2>1. Resolver(t, {}, "200") /\ tabla' = tabla
    BY <1>2 DEF Actualizar, SinCambios
  <2>2. PasaA(t, Resuelta(pet[t], {}, "200"))
    BY <1>1, <2>1, ResolverPasa, Codigos DEF Fase
  <2>3. at' = [at EXCEPT ![t] = Vista("resuelta", pet[t].sol, {}, "200")]
    BY <1>1, <2>2, AtencionPasa, ResueltaCorrecta, AtencionResuelta, Codigos
  <2>4. at[t] = Vista("resuelta", pet[t].sol, {}, "200")
    BY <1>1, <1>2, AtencionSinCambios DEF at
  <2>5. QED
    BY <2>1, <2>3, <2>4 DEF at
<1>3. CASE ~SinCambios(pet[t])
  <2>1. Pendiente(pet[t]) /\ pet[t].sol.datos # pet[t].copia
    BY <1>1, <1>3 DEF Pendiente, SinCambios, Op
  <2>2. CASE Existe(tabla, Id(t))
    <3>1. Resolver(t, {}, "200") /\ tabla' = [tabla EXCEPT ![Id(t)] = pet[t].sol.datos]
      BY <2>1, <2>2 DEF Actualizar
    <3>2. QED
      BY <1>1, <2>1, <2>2, <3>1, EscrituraImplementa, Codigos
         DEF Tabla!Actualizar, Tabla!Existe, Existe, Id, Op
  <2>3. CASE ~Existe(tabla, Id(t))
    BY <1>1, <2>1, <2>3, FalloImplementa DEF Actualizar
  <2>4. QED
    BY <2>2, <2>3
<1>4. QED
  BY <1>2, <1>3

LEMMA BorrarImplementa ==
  ASSUME Tipos, NEW t \in Peticiones, Borrar(t)
  PROVE  Tabla!Eliminar(t) \/ Tabla!Fallar(t)
<1>1. Pendiente(pet[t]) /\ Op(t) = "eliminar"
  BY DEF Borrar, Pendiente, Fase, Op, SinCambios
<1>2. CASE Existe(tabla, Id(t))
  BY <1>1, <1>2, EscrituraImplementa, Codigos
     DEF Borrar, Tabla!Eliminar, Tabla!Existe, Existe, Id, Op
<1>3. CASE ~Existe(tabla, Id(t))
  BY <1>1, <1>3, FalloImplementa DEF Borrar
<1>4. QED
  BY <1>2, <1>3

LEMMA FallaImplementa ==
  ASSUME Tipos, NEW t \in Peticiones, FallaBD(t)
  PROVE  Tabla!Fallar(t)
<1>1. Pendiente(pet[t]) /\ Op(t) \in {"crear", "actualizar", "eliminar"}
  BY DEF FallaBD, Pendiente, Fase, Op, SinCambios, Tipos, Coherente
<1>2. QED
  BY <1>1, FalloImplementa DEF FallaBD

LEMMA ContestarImplementa ==
  ASSUME Tipos, NEW t \in Peticiones, Contestar(t)
  PROVE  Tabla!Contestar(t)
<1>1. Correcta(pet[t]) /\ pet[t].fase = "resuelta" /\ tabla' = tabla
  BY TiposCorrectas DEF Contestar, Fase
<1>2. at[t] = Vista("resuelta", pet[t].sol, pet[t].dato, pet[t].resp)
  BY <1>1, AtencionResuelta DEF at
<1>3. at' = [at EXCEPT ![t] = Vista("contestada", pet[t].sol, pet[t].dato, pet[t].resp)]
  BY <1>1, ContestarPasa, AtencionPasa, ContestadaCorrecta, AtencionContestada
<1>4. /\ at[t].estadio = "resuelta" /\ at[t].sol = pet[t].sol
      /\ at[t].dato = pet[t].dato /\ at[t].resp = pet[t].resp
  BY <1>2 DEF Vista
<1>5. QED
  BY <1>1, <1>3, <1>4 DEF Tabla!Contestar, Tabla!En, Tabla!Sol, Tabla!Vista, Vista, at

LEMMA TerminarImplementa ==
  ASSUME Tipos, NEW t \in Peticiones, Terminar(t)
  PROVE  Tabla!Terminar(t)
<1>1. Correcta(pet[t]) /\ pet[t].fase = "respondida" /\ tabla' = tabla
  BY TiposCorrectas DEF Terminar, Fase
<1>2. at[t].estadio = "contestada"
  BY <1>1, AtencionContestada DEF at, Vista
<1>3. at' = [at EXCEPT ![t] = Tabla!Libre]
  BY TerminarPasa, AtencionPasa, VaciaCorrecta, AtencionLibre DEF Vacia
<1>4. QED
  BY <1>1, <1>2, <1>3 DEF Tabla!Terminar, Tabla!En, at

LEMMA CaidaImplementa ==
  ASSUME Tipos, Caida
  PROVE  Tabla!Perder
<1>1. \A u \in Peticiones : Correcta(pet[u])
  BY TiposCorrectas
<1>2. ASSUME NEW u \in Peticiones
      PROVE  Atencion(pet'[u]) =
               IF at[u].estadio \in {"libre", "contestada"} THEN at[u]
               ELSE Vista("contestada", at[u].sol, {}, "sinRespuesta")
  <2>1. at[u] = Atencion(pet[u]) /\ at[u].sol = pet[u].sol
    BY DEF at, Atencion, Vista
  <2>2. pet'[u] = IF EnCurso(u) THEN Perdida(pet[u]) ELSE pet[u]
    BY DEF Caida, Perdida
  <2>3. at[u].estadio \in {"libre", "contestada"} <=> ~EnCurso(u)
    BY <1>1, <2>1, AtencionEnCurso DEF EnCurso
  <2>4. CASE ~EnCurso(u)
    BY <2>1, <2>2, <2>3, <2>4
  <2>5. CASE EnCurso(u)
    <3>1. Correcta(Perdida(pet[u])) /\ Perdida(pet[u]).fase = "respondida"
          /\ Perdida(pet[u]).sol = pet[u].sol /\ Perdida(pet[u]).dato = {}
          /\ Perdida(pet[u]).resp = "sinRespuesta"
      BY <1>1, <2>5, PerdidaCorrecta DEF EnCurso
    <3>2. QED
      BY <2>1, <2>2, <2>3, <2>5, <3>1, AtencionContestada
  <2>6. QED
    BY <2>4, <2>5
<1>3. at' = [u \in Peticiones |-> Atencion(pet'[u])] /\ tabla' = tabla
  BY Zenon DEF at, Caida
<1>4. at' = [u \in Peticiones |->
               IF at[u].estadio \in {"libre", "contestada"} THEN at[u]
               ELSE Vista("contestada", at[u].sol, {}, "sinRespuesta")]
  BY <1>2, <1>3
<1>5. QED
  BY <1>3, <1>4 DEF Tabla!Perder, Tabla!Sol, Tabla!Vista, Vista, at

\* Whatever PUTs and DELETEs do to one another, and whatever fails, a client sees
\* an atomic table.
THEOREM TablaImplementada == Spec => ImplementaTabla
<1>1. Init => Tabla!Init
  <2>1. Atencion(Vacia) = Tabla!Libre
    BY VaciaCorrecta, AtencionLibre DEF Vacia
  <2>2. QED
    BY <2>1 DEF Init, Tabla!Init
<1>2. Tipos /\ [Next]_vars => [Tabla!Next]_(Tabla!vars)
  <2> SUFFICES ASSUME Tipos, [Next]_vars PROVE Tabla!Next \/ (tabla' = tabla /\ at' = at)
    BY DEF Tabla!vars, at
  <2>1. ASSUME NEW t \in Peticiones, Recibir(t) \/ Paso(t) \/ Terminar(t)
        PROVE  Tabla!Next \/ (tabla' = tabla /\ at' = at)
    BY <2>1, RecibirImplementa, LeerImplementa, CrearImplementa, BuscarImplementa,
       ActualizarImplementa, BorrarImplementa, FallaImplementa, ContestarImplementa,
       TerminarImplementa, Zenon DEF Paso, Tabla!Next
  <2>2. CASE Caida
    BY <2>2, CaidaImplementa DEF Tabla!Next
  <2>3. CASE UNCHANGED vars
    BY <2>3 DEF vars, at
  <2>4. QED
    BY <2>1, <2>2, <2>3 DEF Next
<1>3. QED
  BY <1>1, <1>2, InitTipos, NextTipos, PTL DEF Spec, ImplementaTabla, Tabla!Spec
=============================================================================
