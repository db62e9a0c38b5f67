---------------------------- MODULE MCRecursoCrud ---------------------------
(***************************************************************************)
(* An instance of RecursoCrud: three requests at a time, every kind of     *)
(* request on every id, one id past the table included.                    *)
(***************************************************************************)
EXTENDS RecursoCrud, TLC

CONSTANTS t1, t2, t3, v, w

MCPeticiones == {t1, t2, t3}
MCFilas == {v, w}

\* Bodies only matter to POST and PUT.
MCSolicitudes ==
  {s \in [op: Operaciones, id: 1..MaxFilas + 1, datos: MCFilas] :
     /\ s.op \in {"crear", "listar"} => s.id = 1
     /\ s.op \in {"listar", "obtener", "eliminar"} => s.datos = v
     /\ s.op = "crear" => s.datos = v}

MCSimetria == Permutations(Peticiones)
=============================================================================
