----------------------------- MODULE MCCatalogo -----------------------------
(***************************************************************************)
(* Instances of Catalogo: two calls at a time.  As in the repository's own *)
(* initial data, the browser starts with other records than the service.   *)
(***************************************************************************)
EXTENDS Catalogo, TLC

CONSTANTS t1, t2, v, w, x

MCFilas == {v, w}
MCVacia == <<>>
MCUno == {[id |-> 1, dato |-> [base |-> w, extra |-> Nulo]]}
MCSimetria == Permutations(Peticiones)
=============================================================================
