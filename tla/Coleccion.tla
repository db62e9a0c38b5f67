------------------------------ MODULE Coleccion -----------------------------
(***************************************************************************)
(* A collection of dbSimulada.js as its callers see it: a set of records   *)
(* with an id (DbSimulada shows that one tab sees it so).                  *)
(***************************************************************************)
EXTENDS Integers

\* crear: the next id.
IdNuevo(lista) ==
  LET ids == {c.id : c \in lista} \cup {0} IN
  1 + (CHOOSE m \in ids : \A i \in ids : i <= m)
=============================================================================
