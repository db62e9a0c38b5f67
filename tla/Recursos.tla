------------------------------ MODULE Recursos ------------------------------
(***************************************************************************)
(* The data of the CRUD services (clientes, servicios, resenas, empleados, *)
(* inventario, promociones, sucursales): one table of rows and the five    *)
(* requests that their controllers serve.                                  *)
(***************************************************************************)
EXTENDS Valores

CONSTANTS
  Peticiones,     \* request slots: the requests served at the same time
  Filas,          \* contents of a row, its id apart
  Solicitudes,    \* the requests clients may send
  SinFila         \* the answer to a PUT on a missing row: "404" or "500"

Operaciones == {"listar", "obtener", "crear", "actualizar", "eliminar"}

\* id is the path variable, datos the body.
Solicitud == [op: Operaciones, id: Nat, datos: Filas]

Respuestas == {"200", "204", "404", "500", "sinRespuesta"}

ASSUME RecursosAssumption ==
  /\ Solicitudes \subseteq Solicitud
  /\ SinFila \in {"404", "500"}
  /\ Nulo \notin Filas /\ Nulo \notin Respuestas

-----------------------------------------------------------------------------
\* A table is the sequence of the rows ever inserted, by their AUTO_INCREMENT
\* ids: Nulo where the row has been deleted.
Existe(tabla, i) == i \in DOMAIN tabla /\ tabla[i] # Nulo

\* Mutant: the queries bring deleted rows too.
LeidasConBorradas(s, tabla) ==
  {<<i, tabla[i]>> : i \in {j \in DOMAIN tabla : s.op = "obtener" => j = s.id}}

\* What findAll and findById bring: ids with the contents of their rows.
Leidas(s, tabla) ==
  {<<i, tabla[i]>> : i \in {j \in DOMAIN tabla :
                              tabla[j] # Nulo /\ (s.op = "obtener" => j = s.id)}}

\* obtener answers 404 when findById brings nothing.
RespuestaDeLectura(s, leidas) ==
  IF s.op = "obtener" /\ leidas = {} THEN "404" ELSE "200"

\* What the client of a request can know of it.
Vista(e, s, d, r) == [estadio |-> e, sol |-> s, dato |-> d, resp |-> r]
=============================================================================
