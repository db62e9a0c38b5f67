---------------------------- MODULE DatosCatalogo ---------------------------
(***************************************************************************)
(* The data of the catalogues that the administration panel keeps          *)
(* (servicios, barberos, sucursales, promociones): one collection of the   *)
(* browser over one CRUD service.                                          *)
(***************************************************************************)
EXTENDS Recursos, Coleccion

CONSTANTS
  Extras,          \* fields of a record that the entity of the service lacks
  Semilla,         \* the rows of the service's table at the start
  Iniciales,       \* the collection in DATOS_INICIALES
  Ofrecidas,       \* the operations that ask the service
  EliminaDirecto,  \* whether App deletes on dbSimulada without asking the service
  MaxAltas         \* bound on the creations

\* base: the fields that the service's entity has too.  An absent extra is null.
Dato == [base: Filas, extra: Opcional(Extras)]
Registro == [id: Nat \ {0}, dato: Dato]

\* What a handler of App is asked, with what the form has.
Pedido == [op: {"crear", "actualizar", "eliminar"}, id: Nat, dato: Dato]

ASSUME DatosCatalogoAssumption ==
  /\ Semilla \in Seq(Filas)
  /\ Iniciales \subseteq Registro
  /\ Iniciales # {} => \E c \in Iniciales : \A d \in Iniciales : d.id <= c.id
  /\ Ofrecidas \subseteq {"crear", "actualizar", "eliminar"}
  /\ EliminaDirecto \in BOOLEAN
  /\ MaxAltas \in Nat
  /\ Nulo \notin Pedido /\ Nulo \notin Extras

\* eliminar on the collection.
Quita(i, lista) == {c \in lista : c.id # i}

\* actualizar: the changes over the fields that the record had.
Mezcla(viejo, d) == [base |-> d.base, extra |-> IF d.extra = Nulo THEN viejo.extra ELSE d.extra]

Reemplaza(i, d, lista) ==
  {IF c.id = i THEN [id |-> i, dato |-> Mezcla(c.dato, d)] ELSE c : c \in lista}

\* The collection after dbSimulada.crear, actualizar or eliminar with record d.
Aplicado(s, d, lista) ==
  CASE s.op = "crear"      -> lista \cup {[id |-> IdNuevo(lista), dato |-> d]}
    [] s.op = "actualizar" -> Reemplaza(s.id, d, lista)
    [] s.op = "eliminar"   -> Quita(s.id, lista)

\* The record that the service answers for d: its entity has no more fields.
Respondido(d) == [base |-> d.base, extra |-> Nulo]
=============================================================================
