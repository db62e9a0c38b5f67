---------------------------- MODULE DatosLocales ----------------------------
(***************************************************************************)
(* The data of frontend/src/data/dbSimulada.js: one document with every    *)
(* collection, kept under one key of localStorage, and what its functions  *)
(* are asked.  A collection is the set of its records: nothing reads their *)
(* order except findIndex, which takes one record of an id.  A collection  *)
(* that the document lacks behaves as an empty one.                        *)
(***************************************************************************)
EXTENDS Valores

CONSTANTS
  Pestanas,        \* tabs of one browser: they share its localStorage
  Colecciones,
  Contenidos,      \* what a record says, its id apart
  DatosIniciales,  \* DATOS_INICIALES
  Pedidos,         \* the calls that the tabs make
  TopeId           \* bound of the ids given (the code has none)

Registro == [id: Nat \ {0}, dato: Contenidos]
Documento == [Colecciones -> SUBSET Registro]

Ids(c) == {r.id : r \in c}
ConId(c, i) == {r \in c : r.id = i}

\* No two records of a collection have the same id.
IdsDistintos(d) ==
  \A c \in Colecciones : \A r, q \in d[c] : r.id = q.id => r = q

Escrituras == {"crear", "actualizar", "eliminar"}
Operaciones == {"obtenerTodos", "obtenerPorId", "restablecerDatos"} \cup Escrituras

\* idPropio is the id that the item of crear, or the changes of actualizar, carry:
\* api.js passes what the backend answered.
Pedido == [op: Operaciones, col: Colecciones, id: Nat, dato: Contenidos,
           idPropio: Opcional(Nat)]

\* A null or false result is "no"; "lanza" is an exception that reaches the caller.
Resultado(s, e, f) == [pedido |-> s, exito |-> e, filas |-> f]
Resultados == [pedido: Pedidos, exito: {"si", "no", "lanza"}, filas: SUBSET Registro]

ASSUME DatosLocalesAssumption ==
  /\ DatosIniciales \in Documento
  /\ IdsDistintos(DatosIniciales)
  /\ Pedidos \subseteq Pedido
  /\ TopeId \in Nat
  /\ \A c \in Colecciones : Ids(DatosIniciales[c]) \subseteq 1..TopeId
  /\ Nulo \notin Documento

\* What a read answers, given the document.
Lectura(s, d) ==
  LET f == IF s.op = "obtenerTodos" THEN d[s.col] ELSE ConId(d[s.col], s.id) IN
  Resultado(s, IF s.op = "obtenerPorId" /\ f = {} THEN "no" ELSE "si", f)
=============================================================================
