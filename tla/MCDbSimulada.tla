---------------------------- MODULE MCDbSimulada ----------------------------
(***************************************************************************)
(* An instance of DbSimulada: two tabs over two collections.               *)
(***************************************************************************)
EXTENDS DbSimulada, TLC

CONSTANTS t1, t2

\* One collection starts with a record, the other empty.
MCIniciales == [c \in Colecciones |-> IF c = "citas" THEN {} ELSE {[id |-> 1, dato |-> "a"]}]

Llamada(op, c, i, x, otro) ==
  [op |-> op, col |-> c, id |-> i, dato |-> x, idPropio |-> otro]

\* Creations, one of them with an id of the backend in its item; changes that carry
\* another id, of a record that may be gone; a deletion, a reset, and reads.
MCTodas ==
  {Llamada("crear", "citas", 0, "a", Nulo), Llamada("crear", "servicios", 0, "a", 1),
   Llamada("actualizar", "servicios", 1, "b", 2), Llamada("eliminar", "servicios", 1, "a", Nulo),
   Llamada("restablecerDatos", "citas", 0, "a", Nulo),
   Llamada("obtenerTodos", "citas", 0, "a", Nulo),
   Llamada("obtenerPorId", "servicios", 1, "a", Nulo)}

\* The tabs are alike.
MCSimetria == Permutations(Pestanas)
=============================================================================
