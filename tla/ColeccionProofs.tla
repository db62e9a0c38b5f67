--------------------------- MODULE ColeccionProofs --------------------------
(***************************************************************************)
(* The id that crear gives, for every collection whose ids have a bound:   *)
(* the largest one exists, so the next one is a number that no record has. *)
(***************************************************************************)
EXTENDS Coleccion, FiniteSetTheorems, WellFoundedInduction, TLAPS

\* A set of naturals that has an element has a least one.
LEMMA MinimoExiste ==
  ASSUME NEW T \in SUBSET Nat, T # {}
  PROVE  \E x \in T : \A y \in T : x <= y
<1> DEFINE R == OpToRel(<, Nat)
<1>1. IsWellFoundedOn(R, Nat)
  BY NatLessThanWellFounded
<1>2. \A y, x \in Nat : y < x => <<y, x>> \in R
  BY DEF OpToRel
<1> HIDE DEF R
<1>3. \A x, y \in T : <<y, x>> \notin R => x <= y
  BY <1>2
<1>4. \E x \in T : \A y \in T : <<y, x>> \notin R
  BY <1>1, WFMin
<1> QED
  BY <1>3, <1>4

\* The reduce of crear: the largest of a bounded set of ids, or 0.
LEMMA MaximoExiste ==
  ASSUME NEW S \in SUBSET Nat, NEW n \in Nat, \A i \in S : i <= n
  PROVE  \E m \in S \cup {0} : \A i \in S : i <= m
<1> DEFINE Cotas == {k \in Nat : \A i \in S : i <= k}
<1>1. Cotas \in SUBSET Nat /\ n \in Cotas
  OBVIOUS
<1>2. PICK x \in Cotas : \A y \in Cotas : x <= y
  BY <1>1, MinimoExiste
<1>3. CASE x \in S \cup {0}
  BY <1>2, <1>3
<1>4. CASE x \notin S \cup {0}
  <2>1. x - 1 \in Nat /\ \A i \in S : i <= x - 1
    BY <1>2, <1>4
  <2>2. x - 1 \in Cotas
    BY <2>1
  <2> QED
    BY <1>2, <2>2
<1> QED
  BY <1>3, <1>4

\* The id that crear gives to a new record (dbSimulada.js) is larger than every other.
THEOREM IdNuevoEsFresco ==
  ASSUME NEW lista, \A c \in lista : c.id \in Nat,
         NEW n \in Nat, \A c \in lista : c.id <= n
  PROVE  /\ IdNuevo(lista) \in Nat \ {0}
         /\ \A c \in lista : c.id < IdNuevo(lista)
         /\ IdNuevo(lista) <= n + 1
<1> DEFINE ids == {c.id : c \in lista}
           P(m) == \A i \in ids \cup {0} : i <= m
<1>0. ids \in SUBSET Nat /\ \A i \in ids : i <= n
  OBVIOUS
<1>1. \E m \in ids \cup {0} : P(m)
  <2>1. PICK m \in ids \cup {0} : \A i \in ids : i <= m
    <3> HIDE DEF ids
    <3> QED
      BY <1>0, MaximoExiste
  <2> QED
    BY <1>0, <2>1
<1> DEFINE mayor == CHOOSE m \in ids \cup {0} : P(m)
<1>2. mayor \in ids \cup {0} /\ P(mayor)
  BY <1>1
<1>3. IdNuevo(lista) = 1 + mayor
  BY DEF IdNuevo
<1> HIDE DEF mayor
<1>4. mayor \in Nat /\ mayor <= n
  BY <1>0, <1>2
<1>5. \A c \in lista : c.id <= mayor
  BY <1>2
<1> QED
  BY <1>3, <1>4, <1>5

\* A finite set of naturals has a bound.
LEMMA FinitoAcotado ==
  ASSUME NEW S \in SUBSET Nat, IsFiniteSet(S)
  PROVE  \E n \in Nat : \A i \in S : i <= n
<1> DEFINE Acotado(T) == \E n \in Nat : \A i \in T : i <= n
           Malos == {T \in SUBSET Nat : IsFiniteSet(T) /\ ~Acotado(T)}
           Tallas == {Cardinality(T) : T \in Malos}
<1>1. SUFFICES ASSUME ~Acotado(S) PROVE FALSE
  OBVIOUS
<1>2. Tallas \in SUBSET Nat
  BY FS_CardinalityType
<1>3. Cardinality(S) \in Tallas
  BY <1>1
<1> HIDE DEF Tallas
<1>4. PICK k \in Tallas : \A j \in Tallas : k <= j
  BY <1>2, <1>3, MinimoExiste
<1>5. PICK T \in Malos : Cardinality(T) = k
  BY <1>4 DEF Tallas
<1>6. T \in SUBSET Nat /\ IsFiniteSet(T) /\ ~Acotado(T)
  BY <1>5
<1>7. PICK x \in T : TRUE
  <2>1. T # {}
    BY <1>6
  <2> QED
    BY <2>1
<1>8. IsFiniteSet(T \ {x}) /\ Cardinality(T \ {x}) = Cardinality(T) - 1
  BY <1>6, <1>7, FS_RemoveElement
<1>9. k \in Nat /\ ~(k <= k - 1)
  BY <1>2
<1>10. T \ {x} \notin Malos
  BY <1>4, <1>5, <1>8, <1>9 DEF Tallas
<1>11. PICK n \in Nat : \A i \in T \ {x} : i <= n
  BY <1>6, <1>8, <1>10
<1>12. x \in Nat /\ n + x \in Nat /\ \A i \in T : i <= n + x
  BY <1>6, <1>7, <1>11
<1> QED
  BY <1>6, <1>12

\* The next id of a finite collection.
LEMMA IdNuevoDeFinita ==
  ASSUME NEW lista, IsFiniteSet(lista), \A c \in lista : c.id \in Nat
  PROVE  IdNuevo(lista) \in Nat \ {0} /\ \A c \in lista : c.id < IdNuevo(lista)
<1> DEFINE ids == {c.id : c \in lista}
           f == [c \in lista |-> c.id]
<1>1. f \in Surjection(lista, ids)
  BY DEF Surjection
<1>2. IsFiniteSet(ids) /\ ids \in SUBSET Nat
  BY <1>1, FS_Surjection
<1> HIDE DEF f
<1>3. PICK n \in Nat : \A i \in ids : i <= n
  <2> HIDE DEF ids
  <2> QED
    BY <1>2, FinitoAcotado
<1>4. \A c \in lista : c.id <= n
  BY <1>3
<1> QED
  BY <1>4, IdNuevoEsFresco
=============================================================================
