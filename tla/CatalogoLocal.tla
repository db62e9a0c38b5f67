---------------------------- MODULE CatalogoLocal ---------------------------
(***************************************************************************)
(* What the panel shows its user: a collection that each thing asked       *)
(* changes once, at some later instant, with or without a backend.         *)
(***************************************************************************)
EXTENDS DatosCatalogo

VARIABLES
  lista,   \* the collection, as it is kept and shown
  pend     \* what has been asked and has not been seen yet

vars == <<lista, pend>>

Init ==
  /\ lista = Iniciales
  /\ pend = [u \in Peticiones |-> Nulo]

Pedir(u) ==
  /\ pend[u] = Nulo
  /\ pend'[u] \in Pedido
  /\ pend' = [pend EXCEPT ![u] = pend'[u]]
  /\ UNCHANGED lista

\* With all the fields that were sent, or those that the service gave back.
Aplicar(u) ==
  /\ pend[u] # Nulo
  /\ \E d \in {pend[u].dato, Respondido(pend[u].dato)} : lista' = Aplicado(pend[u], d, lista)
  /\ pend' = [pend EXCEPT ![u] = Nulo]

\* What App deletes on dbSimulada alone is gone at once.
Directo ==
  /\ EliminaDirecto
  /\ \E i \in {c.id : c \in lista} : lista' = Quita(i, lista)
  /\ UNCHANGED pend

Restablecer ==
  /\ lista' = Iniciales
  /\ UNCHANGED pend

Next ==
  \/ \E u \in Peticiones : Pedir(u) \/ Aplicar(u)
  \/ Directo \/ Restablecer

Spec == Init /\ [][Next]_vars
=============================================================================
