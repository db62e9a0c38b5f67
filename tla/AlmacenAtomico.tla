--------------------------- MODULE AlmacenAtomico ---------------------------
(***************************************************************************)
(* What dbSimulada.js promises its callers: named collections with atomic  *)
(* operations.  A write may be lost (localStorage full or blocked: the     *)
(* code logs it and answers all the same) but never done in part.          *)
(***************************************************************************)
EXTENDS DatosLocales

VARIABLES
  colecciones,   \* what the browser keeps
  resp           \* the last answer to each tab

vars == <<colecciones, resp>>

Init ==
  /\ colecciones = DatosIniciales
  /\ resp = [p \in Pestanas |-> Nulo]

Responde(p, r) == resp' = [resp EXCEPT ![p] = r]

\* The collection of s becomes c, or the write is lost.
Guarda(s, c) ==
  \/ colecciones' = [colecciones EXCEPT ![s.col] = c]
  \/ UNCHANGED colecciones

Consultar(p, s) ==
  /\ s.op \in {"obtenerTodos", "obtenerPorId"}
  /\ Responde(p, Lectura(s, colecciones))
  /\ UNCHANGED colecciones

\* A new record has an id that no record of its collection has.
Crear(p, s) ==
  /\ s.op = "crear"
  /\ \E i \in (1..TopeId) \ Ids(colecciones[s.col]) :
       LET r == [id |-> i, dato |-> s.dato] IN
       /\ Responde(p, Resultado(s, "si", {r}))
       /\ Guarda(s, colecciones[s.col] \cup {r})

\* Only the record with that id changes, and it keeps its id.
Actualizar(p, s) ==
  LET c == colecciones[s.col]
      r == [id |-> s.id, dato |-> s.dato] IN
  /\ s.op = "actualizar" /\ s.id \in Ids(c)
  /\ Responde(p, Resultado(s, "si", {r}))
  /\ Guarda(s, (c \ ConId(c, s.id)) \cup {r})

Eliminar(p, s) ==
  LET c == colecciones[s.col] IN
  /\ s.op = "eliminar" /\ s.id \in Ids(c)
  /\ Responde(p, Resultado(s, "si", {}))
  /\ Guarda(s, c \ ConId(c, s.id))

NoEncontrar(p, s) ==
  /\ s.op \in {"actualizar", "eliminar"} /\ s.id \notin Ids(colecciones[s.col])
  /\ Responde(p, Resultado(s, "no", {}))
  /\ UNCHANGED colecciones

\* The only write whose failure its caller sees.
Restablecer(p, s) ==
  /\ s.op = "restablecerDatos"
  /\ \/ colecciones' = DatosIniciales /\ Responde(p, Resultado(s, "si", {}))
     \/ UNCHANGED colecciones /\ Responde(p, Resultado(s, "lanza", {}))

Next ==
  \E p \in Pestanas, s \in Pedidos :
    \/ Consultar(p, s) \/ Crear(p, s) \/ Actualizar(p, s) \/ Eliminar(p, s)
    \/ NoEncontrar(p, s) \/ Restablecer(p, s)

Spec == Init /\ [][Next]_vars
=============================================================================
