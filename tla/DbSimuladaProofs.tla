-------------------------- MODULE DbSimuladaProofs --------------------------
(***************************************************************************)
(* dbSimulada.js, for any number of tabs and of calls: no document ever    *)
(* has two records with one id; a call under which no other tab stores is  *)
(* one operation of an atomic store; and with one tab, the module is that  *)
(* store, which its callers take it for.                                   *)
(***************************************************************************)
EXTENDS DbSimulada, ColeccionProofs

\* One collection, as every write leaves it.  Its ids need a bound for the largest to
\* exist: without one the reduce of crear would mean nothing.
ColeccionBien(c) ==
  /\ c \in SUBSET Registro
  /\ \A r, q \in c : r.id = q.id => r = q
  /\ \E n \in Nat : \A r \in c : r.id <= n

DocumentoBien(d) ==
  /\ d \in Documento
  /\ \A c \in Colecciones : ColeccionBien(d[c])

Inv ==
  /\ TypeOK
  /\ guardado # Nulo => DocumentoBien(guardado)
  /\ \A p \in Pestanas :
       /\ Fase(p, "persistir") => DocumentoBien(pestana[p].copia)
                                  /\ pestana[p].resultado \in Resultados
       /\ Fase(p, "sembrar") => pestana[p].pedido \in Pedidos

-----------------------------------------------------------------------------
\* A record has a positive id.
LEMMA IdDeRegistro == \A r \in Registro : r.id \in Nat /\ r.id # 0 /\ r.dato \in Contenidos
  BY DEF Registro

LEMMA CamposDePedido ==
  \A s \in Pedidos : s.op \in Operaciones /\ s.col \in Colecciones /\ s.id \in Nat
                     /\ s.dato \in Contenidos
  BY DatosLocalesAssumption DEF Pedido

\* The reduce of crear finds the largest id, or 0.
LEMMA MaxIdDeEs ==
  ASSUME NEW c, ColeccionBien(c)
  PROVE  /\ MaxIdDe(c) \in Nat
         /\ \A r \in c : r.id <= MaxIdDe(c)
<1> DEFINE ids == Ids(c)
           P(m) == \A i \in ids : i <= m
<1>1. PICK n \in Nat : \A r \in c : r.id <= n
  BY DEF ColeccionBien
<1>2. ids \in SUBSET Nat /\ \A i \in ids : i <= n
  BY <1>1, IdDeRegistro DEF Ids, ColeccionBien
<1>3. \A r \in c : r.id \in ids
  BY DEF Ids
<1>4. MaxIdDe(c) = CHOOSE m \in ids \cup {0} : P(m)
  BY DEF MaxIdDe
<1> HIDE DEF ids
<1>5. \E m \in ids \cup {0} : P(m)
  BY <1>1, <1>2, MaximoExiste
<1>6. MaxIdDe(c) \in ids \cup {0} /\ \A i \in ids : i <= MaxIdDe(c)
  BY <1>4, <1>5
<1>7. MaxIdDe(c) \in Nat
  <2>1. \A i \in ids \cup {0} : i \in Nat
    BY <1>2
  <2> QED
    BY <1>6, <2>1
<1>8. \A r \in c : r.id <= MaxIdDe(c)
  BY <1>3, <1>6
<1> QED
  BY <1>7, <1>8

\* findIndex finds the only record with that id.
LEMMA PrimeroEsUnico ==
  ASSUME NEW c, ColeccionBien(c), NEW i \in Ids(c)
  PROVE  Primero(c, i) \in c /\ Primero(c, i).id = i /\ ConId(c, i) = {Primero(c, i)}
<1>1. \E r \in c : r.id = i
  BY DEF Ids
<1>2. Primero(c, i) \in c /\ Primero(c, i).id = i
  BY <1>1 DEF Primero
<1> QED
  BY <1>2 DEF ConId, ColeccionBien

\* crear, actualizar and eliminar keep a collection well formed, whatever id the item
\* or the changes carry.
LEMMA EscrituraBien ==
  ASSUME NEW s \in Pedidos, NEW d, DocumentoBien(d), Escribe(s, d)
  PROVE  ColeccionBien(Coleccion(s, d[s.col]))
<1> DEFINE c == d[s.col]
<1>1. ColeccionBien(c) /\ s.dato \in Contenidos /\ s.id \in Nat
  BY CamposDePedido DEF DocumentoBien
<1>2. \A r \in c : r \in Registro /\ r.id \in Nat /\ r.id # 0
  BY <1>1, IdDeRegistro DEF ColeccionBien
<1>3. PICK n \in Nat : \A r \in c : r.id <= n
  BY <1>1 DEF ColeccionBien
<1>4. s.op = "crear" \/ (s.op \in {"actualizar", "eliminar"} /\ s.id \in Ids(c))
  BY DEF Escribe
<1> HIDE DEF c
<1>5. CASE s.op = "crear"
  <2> DEFINE r == RegistroNuevo(s, c)
  <2>1. r.id = MaxIdDe(c) + 1 /\ r = [id |-> MaxIdDe(c) + 1, dato |-> s.dato]
    BY DEF RegistroNuevo
  <2>2. MaxIdDe(c) \in Nat /\ \A q \in c : q.id <= MaxIdDe(c)
    BY <1>1, MaxIdDeEs
  <2>3. r \in Registro
    BY <1>1, <2>1, <2>2 DEF Registro
  <2>4. Coleccion(s, c) = c \cup {r}
    BY <1>5 DEF Coleccion
  <2> HIDE DEF r
  <2>5. \A q \in c : q.id < r.id
    BY <1>2, <2>1, <2>2
  <2>6. \A a, b \in c \cup {r} : a.id = b.id => a = b
    BY <1>1, <1>2, <2>5 DEF ColeccionBien
  <2>7. \A a \in c \cup {r} : a.id <= r.id /\ r.id \in Nat
    BY <1>2, <2>1, <2>2, <2>5
  <2> QED
    BY <1>2, <2>3, <2>4, <2>6, <2>7 DEF ColeccionBien, c
<1>6. CASE s.op = "actualizar"
  <2> DEFINE v == Primero(c, s.id)
             r == Cambiado(s)
  <2>1. v \in c /\ v.id = s.id
    BY <1>1, <1>4, <1>6, PrimeroEsUnico
  <2>2. r = [id |-> s.id, dato |-> s.dato] /\ r.id = s.id
    BY DEF Cambiado
  <2>3. r \in Registro
    BY <1>1, <1>2, <2>1, <2>2 DEF Registro
  <2>4. Coleccion(s, c) = (c \ {v}) \cup {r}
    BY <1>6 DEF Coleccion
  <2> HIDE DEF r, v
  <2>5. \A a, b \in (c \ {v}) \cup {r} : a.id = b.id => a = b
    BY <1>1, <2>1, <2>2 DEF ColeccionBien
  <2>6. \A a \in (c \ {v}) \cup {r} : a.id <= n
    BY <1>3, <2>1, <2>2
  <2> QED
    BY <1>2, <2>3, <2>4, <2>5, <2>6 DEF ColeccionBien, c
<1>7. CASE s.op = "eliminar"
  <2>1. Coleccion(s, c) = c \ ConId(c, s.id)
    BY <1>7 DEF Coleccion
  <2> QED
    BY <1>1, <2>1 DEF ColeccionBien, ConId, c
<1> QED
  BY <1>4, <1>5, <1>6, <1>7

\* The records that a call answers are records.
LEMMA HechoTipo ==
  ASSUME NEW s \in Pedidos, NEW d, DocumentoBien(d), Escribe(s, d)
  PROVE  Hecho(s, d[s.col]) \in Resultados
<1>1. ColeccionBien(d[s.col]) /\ s.dato \in Contenidos /\ s.id \in Nat
  BY CamposDePedido DEF DocumentoBien
<1>2. CASE s.op = "crear"
  <2>1. MaxIdDe(d[s.col]) \in Nat
    BY <1>1, MaxIdDeEs
  <2>2. RegistroNuevo(s, d[s.col]) \in Registro
    BY <1>1, <2>1 DEF RegistroNuevo, Registro
  <2> QED
    BY <1>2, <2>2 DEF Hecho, Resultado, Resultados
<1>3. CASE s.op = "actualizar"
  <2>1. s.id \in Ids(d[s.col])
    BY <1>3 DEF Escribe
  <2>2. s.id # 0
    BY <1>1, <2>1, IdDeRegistro DEF Ids, ColeccionBien
  <2>3. Cambiado(s) \in Registro
    BY <1>1, <2>2 DEF Cambiado, Registro
  <2> QED
    BY <1>3, <2>3 DEF Hecho, Resultado, Resultados
<1>4. CASE s.op = "eliminar"
  BY <1>4 DEF Hecho, Resultado, Resultados
<1> QED
  BY <1>2, <1>3, <1>4 DEF Escribe

LEMMA LecturaTipo ==
  ASSUME NEW s \in Pedidos, NEW d \in Documento
  PROVE  Lectura(s, d) \in Resultados
<1>1. d[s.col] \in SUBSET Registro
  BY CamposDePedido DEF Documento
<1>2. ConId(d[s.col], s.id) \in SUBSET Registro
  BY <1>1 DEF ConId
<1> QED
  BY <1>1, <1>2 DEF Lectura, Resultado, Resultados

\* The initial document.
LEMMA InicialesBien == DocumentoBien(DatosIniciales)
<1> SUFFICES ASSUME NEW c \in Colecciones
             PROVE  ColeccionBien(DatosIniciales[c])
  BY DatosLocalesAssumption DEF DocumentoBien
<1>1. DatosIniciales[c] \in SUBSET Registro
  BY DatosLocalesAssumption DEF Documento
<1>2. \A r, q \in DatosIniciales[c] : r.id = q.id => r = q
  BY DatosLocalesAssumption DEF IdsDistintos
<1>3. \A r \in DatosIniciales[c] : r.id <= TopeId
  BY DatosLocalesAssumption DEF Ids
<1> QED
  BY <1>1, <1>2, <1>3, DatosLocalesAssumption DEF ColeccionBien

-----------------------------------------------------------------------------
\* A tab is idle, with an answer or none.
LEMMA OciosaTipo ==
  ASSUME NEW r \in Opcional(Resultados)
  PROVE  Ociosa(r) \in Pestana /\ Ociosa(r).fase = "libre"
BY DEF Ociosa, Pestana, Fases, Opcional

\* A call that goes on with a document leaves the other tabs as they were.
LEMMA SigueConInv ==
  ASSUME Inv, NEW p \in Pestanas, NEW s \in Pedidos, NEW d, DocumentoBien(d),
         SigueCon(p, s, d), guardado' = Nulo \/ DocumentoBien(guardado'),
         abierto' \in BOOLEAN, cruzadas' \subseteq Pestanas
  PROVE  Inv'
<1> DEFINE copia == [d EXCEPT ![s.col] = Coleccion(s, d[s.col])]
           llena == [fase |-> "persistir", pedido |-> s, copia |-> copia,
                     resultado |-> Hecho(s, d[s.col]), resp |-> pestana[p].resp]
           r == IF s.op \in {"obtenerTodos", "obtenerPorId"} THEN Lectura(s, d)
                ELSE Resultado(s, "no", {})
<1>1. pestana[p] \in Pestana /\ pestana[p].resp \in Opcional(Resultados)
  BY DEF Inv, TypeOK, Pestana
<1>2. PICK t \in Pestana :
        /\ pestana' = [pestana EXCEPT ![p] = t]
        /\ t.fase \in {"libre", "persistir"}
        /\ t.fase = "persistir" => DocumentoBien(t.copia) /\ t.resultado \in Resultados
  <2>1. CASE Escribe(s, d)
    <3>1. ColeccionBien(Coleccion(s, d[s.col]))
      BY <2>1, EscrituraBien
    <3>2. copia \in Documento /\ \A c \in Colecciones :
            copia[c] = IF c = s.col THEN Coleccion(s, d[s.col]) ELSE d[c]
      BY <3>1, CamposDePedido DEF DocumentoBien, Documento, ColeccionBien
    <3>3. DocumentoBien(copia)
      BY <3>1, <3>2 DEF DocumentoBien
    <3>4. Hecho(s, d[s.col]) \in Resultados
      BY <2>1, HechoTipo
    <3>5. pestana' = [pestana EXCEPT ![p] = llena]
      BY <2>1 DEF SigueCon
    <3> HIDE DEF copia
    <3>6. llena \in Pestana /\ llena.fase = "persistir" /\ llena.copia = copia
          /\ llena.resultado = Hecho(s, d[s.col])
      BY <1>1, <3>2, <3>4 DEF Pestana, Fases, Opcional
    <3> HIDE DEF llena
    <3> QED
      BY <3>3, <3>4, <3>5, <3>6
  <2>2. CASE ~Escribe(s, d)
    <3>1. r \in Opcional(Resultados)
      BY LecturaTipo DEF Resultado, Resultados, DocumentoBien, Opcional
    <3>2. pestana' = [pestana EXCEPT ![p] = Ociosa(r)]
      BY <2>2 DEF SigueCon
    <3> HIDE DEF r
    <3>3. Ociosa(r) \in Pestana /\ Ociosa(r).fase = "libre"
      BY <3>1, OciosaTipo
    <3> QED
      BY <3>2, <3>3
  <2> QED
    BY <2>1, <2>2
<1>3. pestana' \in [Pestanas -> Pestana]
      /\ \A q \in Pestanas : pestana'[q] = IF q = p THEN t ELSE pestana[q]
  BY <1>2 DEF Inv, TypeOK
<1>4. guardado' \in Opcional(Documento)
  BY DEF DocumentoBien, Opcional
<1>5. \A q \in Pestanas :
        /\ Fase(q, "persistir")' => DocumentoBien(pestana'[q].copia)
                                    /\ pestana'[q].resultado \in Resultados
        /\ Fase(q, "sembrar")' => pestana'[q].pedido \in Pedidos
  BY <1>2, <1>3 DEF Inv, Fase
<1> QED
  BY <1>3, <1>4, <1>5 DEF Inv, TypeOK, DocumentoBien, Fase

\* A tab that answers, with a document stored or not.
LEMMA RespondeInv ==
  ASSUME Inv, NEW p \in Pestanas, NEW r \in Opcional(Resultados),
         pestana' = [pestana EXCEPT ![p] = Ociosa(r)],
         guardado' = guardado \/ DocumentoBien(guardado'), abierto' = abierto,
         cruzadas' \subseteq Pestanas
  PROVE  Inv'
<1>1. Ociosa(r) \in Pestana /\ Ociosa(r).fase = "libre"
  BY OciosaTipo
<1>2. pestana' \in [Pestanas -> Pestana]
      /\ \A q \in Pestanas : pestana'[q] = IF q = p THEN Ociosa(r) ELSE pestana[q]
  BY <1>1 DEF Inv, TypeOK
<1>3. guardado' \in Opcional(Documento) /\ abierto' \in BOOLEAN
      /\ (guardado' # Nulo => DocumentoBien(guardado'))
  BY DEF Inv, TypeOK, DocumentoBien, Opcional
<1>4. \A q \in Pestanas :
        /\ Fase(q, "persistir")' => DocumentoBien(pestana'[q].copia)
                                    /\ pestana'[q].resultado \in Resultados
        /\ Fase(q, "sembrar")' => pestana'[q].pedido \in Pedidos
  BY <1>1, <1>2 DEF Inv, Fase
<1> QED
  BY <1>2, <1>3, <1>4 DEF Inv, TypeOK, DocumentoBien, Fase

LEMMA InitInv == Init => Inv
<1> SUFFICES ASSUME Init PROVE Inv
  OBVIOUS
<1>1. Nulo \in Opcional(Resultados)
  BY DEF Opcional
<1>2. Ociosa(Nulo) \in Pestana /\ Ociosa(Nulo).fase = "libre"
  BY <1>1, OciosaTipo
<1>3. \A p \in Pestanas : pestana[p] = Ociosa(Nulo)
  BY DEF Init
<1>4. TypeOK
  BY <1>2, DatosLocalesAssumption DEF Init, TypeOK, Opcional
<1> QED
  BY <1>2, <1>3, <1>4, InicialesBien DEF Init, Inv, Fase

LEMMA NextInv ==
  ASSUME Inv, [Next]_vars
  PROVE  Inv'
<1>1. CASE UNCHANGED vars
  BY <1>1 DEF vars, Inv, TypeOK, Fase, DocumentoBien
<1>2. ASSUME NEW p \in Pestanas, NEW s \in Pedidos, Cargar(p, s)
      PROVE  Inv'
  <2> DEFINE d == IF abierto THEN guardado ELSE DatosIniciales
  <2>1. DocumentoBien(d) /\ SigueCon(p, s, d) /\ guardado' = guardado /\ abierto' = abierto
    BY <1>2, InicialesBien DEF Cargar, Inv
  <2>2. (guardado' = Nulo \/ DocumentoBien(guardado')) /\ abierto' \in BOOLEAN
    BY <2>1 DEF Inv, TypeOK
  <2>3. cruzadas' \subseteq Pestanas
    BY <1>2 DEF Cargar, Inv, TypeOK
  <2> QED
    BY <2>1, <2>2, <2>3, SigueConInv
<1>3. ASSUME NEW p \in Pestanas, NEW s \in Pedidos, NoHayDatos(p, s)
      PROVE  Inv'
  <2> DEFINE t == [fase |-> "sembrar", pedido |-> s, copia |-> Nulo, resultado |-> Nulo,
                   resp |-> pestana[p].resp]
  <2>1. pestana' = [pestana EXCEPT ![p] = t] /\ UNCHANGED <<guardado, abierto>>
        /\ cruzadas' \subseteq Pestanas
    BY <1>3 DEF NoHayDatos, Inv, TypeOK
  <2>2. pestana[p].resp \in Opcional(Resultados)
    BY DEF Inv, TypeOK, Pestana
  <2>3. t \in Pestana /\ t.fase = "sembrar" /\ t.pedido = s
    BY <2>2 DEF Pestana, Fases, Opcional
  <2> HIDE DEF t
  <2>4. pestana' \in [Pestanas -> Pestana]
        /\ \A q \in Pestanas : pestana'[q] = IF q = p THEN t ELSE pestana[q]
    BY <2>1, <2>3 DEF Inv, TypeOK
  <2> QED
    BY <2>1, <2>3, <2>4 DEF Inv, TypeOK, Fase, DocumentoBien
<1>4. ASSUME NEW p \in Pestanas, NEW s \in Pedidos, Restablecer(p, s)
      PROVE  Inv'
  <2>1. PICK e \in {"si", "lanza"} : pestana' = [pestana EXCEPT ![p] = Ociosa(Resultado(s, e, {}))]
    BY <1>4 DEF Restablecer
  <2>2. Resultado(s, e, {}) \in Opcional(Resultados)
    BY DEF Resultado, Resultados, Opcional
  <2>3. (guardado' = guardado \/ DocumentoBien(guardado')) /\ abierto' = abierto
    BY <1>4, InicialesBien DEF Restablecer, Guarda
  <2>4. cruzadas' \subseteq Pestanas
    BY <1>4 DEF Restablecer, Guarda, Inv, TypeOK
  <2> QED
    BY <2>1, <2>2, <2>3, <2>4, RespondeInv
<1>5. ASSUME NEW p \in Pestanas, Sembrar(p)
      PROVE  Inv'
  <2>1. pestana[p].pedido \in Pedidos /\ SigueCon(p, pestana[p].pedido, DatosIniciales)
    BY <1>5 DEF Sembrar, Inv
  <2>2. (guardado' = Nulo \/ DocumentoBien(guardado')) /\ abierto' \in BOOLEAN
    BY <1>5, InicialesBien DEF Sembrar, SetItem, Guarda, Inv, TypeOK
  <2>3. cruzadas' \subseteq Pestanas
    BY <1>5 DEF Sembrar, SetItem, Guarda, Inv, TypeOK
  <2> QED
    BY <2>1, <2>2, <2>3, InicialesBien, SigueConInv
<1>6. ASSUME NEW p \in Pestanas, Persistir(p)
      PROVE  Inv'
  <2>1. /\ pestana' = [pestana EXCEPT ![p] = Ociosa(pestana[p].resultado)]
        /\ guardado' \in {guardado, pestana[p].copia} /\ abierto' = abierto
        /\ DocumentoBien(pestana[p].copia) /\ pestana[p].resultado \in Resultados
    BY <1>6 DEF Persistir, SetItem, Guarda, Inv
  <2>2. pestana[p].resultado \in Opcional(Resultados)
        /\ (guardado' = guardado \/ DocumentoBien(guardado'))
    BY <2>1 DEF Opcional
  <2>3. cruzadas' \subseteq Pestanas
    BY <1>6 DEF Persistir, SetItem, Guarda, Inv, TypeOK
  <2> QED
    BY <2>1, <2>2, <2>3, RespondeInv
<1> QED
  BY <1>1, <1>2, <1>3, <1>4, <1>5, <1>6 DEF Next

-----------------------------------------------------------------------------
\* The document and the tabs keep their types.
THEOREM TiposDb == Spec => []TypeOK
<1>1. Inv => TypeOK
  BY DEF Inv
<1> QED
  BY <1>1, InitInv, NextInv, PTL DEF Spec

\* No document, stored or about to be, has two records with one id in a collection,
\* however many tabs cross and whatever ids their callers hand in (crear, actualizar).
THEOREM IdsSiempreUnicos == Spec => []IdsUnicos
<1>1. Inv => IdsUnicos
  BY DEF Inv, IdsUnicos, IdsDistintos, DocumentoBien, ColeccionBien
<1> QED
  BY <1>1, InitInv, NextInv, PTL DEF Spec

-----------------------------------------------------------------------------
(***************************************************************************)
(* Unless another tab stores, nothing comes between the reading of a call  *)
(* and its writing: the copy it is about to store is what AlmacenAtomico   *)
(* makes of the collections at that instant.                               *)
(***************************************************************************)
UnaPestana == \A p, q \in Pestanas : p = q

\* What a call reads.
Visto == IF abierto /\ guardado # Nulo THEN guardado ELSE DatosIniciales

Respuestas == [p \in Pestanas |-> pestana[p].resp]

Cabe(s, d) == s.op = "crear" => MaxIdDe(d[s.col]) < TopeId

CopiaFiel(p) ==
  LET s == pestana[p].pedido IN
  /\ s \in Pedidos /\ Escribe(s, Visto) /\ Cabe(s, Visto)
  /\ pestana[p].copia = [Visto EXCEPT ![s.col] = Coleccion(s, Visto[s.col])]
  /\ pestana[p].resultado = Hecho(s, Visto[s.col])

\* What tab p has in hand is what it would have if it read now.
AlDia(p) ==
  /\ Fase(p, "persistir") => CopiaFiel(p)
  /\ Fase(p, "sembrar") => Visto = DatosIniciales

InvPestana ==
  /\ Inv
  /\ \A p \in Pestanas :
       /\ p \notin cruzadas => AlDia(p)
       /\ Fase(p, "sembrar") => /\ Cabe(pestana[p].pedido, DatosIniciales)
                                /\ pestana[p].pedido.op # "restablecerDatos"

\* Both modules speak of the same data.
LEMMA MismosDatos ==
  /\ \A c : Almacen!Ids(c) = Ids(c)
  /\ \A c, i : Almacen!ConId(c, i) = ConId(c, i)
  /\ \A s, e, f : Almacen!Resultado(s, e, f) = Resultado(s, e, f)
  /\ \A s, d : Almacen!Lectura(s, d) = Lectura(s, d)
  BY DEF Almacen!Ids, Ids, Almacen!ConId, ConId, Almacen!Resultado, Resultado,
         Almacen!Lectura, Lectura

\* What a call reads is a document.
LEMMA VistoBien == ASSUME Inv PROVE DocumentoBien(Visto)
  BY InicialesBien DEF Inv, Visto

\* Room was made for the document that the call reads, whichever it is.
LEMMA CupoCabe ==
  ASSUME Inv, NEW s, HayCupo(s)
  PROVE  Cabe(s, Visto) /\ Cabe(s, DatosIniciales)
<1>1. DatosIniciales # Nulo
  BY DatosLocalesAssumption
<1> QED
  BY <1>1 DEF HayCupo, Cabe, Visto

\* A tab answers: the abstract store answers the same.
LEMMA RespondeAbstracto ==
  ASSUME Inv, NEW p \in Pestanas, NEW r, pestana' = [pestana EXCEPT ![p] = Ociosa(r)]
  PROVE  Respuestas' = [Respuestas EXCEPT ![p] = r]
<1>1. pestana \in [Pestanas -> Pestana] /\ Ociosa(r).resp = r
  BY DEF Inv, TypeOK, Ociosa
<1>2. \A q \in Pestanas : pestana'[q].resp = IF q = p THEN r ELSE pestana[q].resp
  BY <1>1
<1>3. Respuestas' = [q \in Pestanas |-> pestana'[q].resp]
  BY DEF Respuestas
<1> QED
  BY <1>2, <1>3 DEF Respuestas

\* A call that goes on with what it would read now is up to date.
LEMMA SigueConAlDia ==
  ASSUME Inv, NEW p \in Pestanas, NEW s \in Pedidos, NEW d, SigueCon(p, s, d),
         Visto' = d, Cabe(s, d)
  PROVE  AlDia(p)' /\ ~Fase(p, "sembrar")' /\ \A q \in Pestanas \ {p} : pestana'[q] = pestana[q]
<1>0. pestana \in [Pestanas -> Pestana]
  BY DEF Inv, TypeOK
<1>1. CASE Escribe(s, d)
  <2> DEFINE t == [fase |-> "persistir", pedido |-> s,
                   copia |-> [d EXCEPT ![s.col] = Coleccion(s, d[s.col])],
                   resultado |-> Hecho(s, d[s.col]), resp |-> pestana[p].resp]
  <2>1. pestana' = [pestana EXCEPT ![p] = t]
    BY <1>1 DEF SigueCon
  <2>2. t.fase = "persistir" /\ t.pedido = s
        /\ t.copia = [d EXCEPT ![s.col] = Coleccion(s, d[s.col])]
        /\ t.resultado = Hecho(s, d[s.col])
    OBVIOUS
  <2> HIDE DEF t
  <2>3. pestana'[p] = t /\ \A q \in Pestanas \ {p} : pestana'[q] = pestana[q]
    BY <1>0, <2>1
  <2>4. CopiaFiel(p)'
    BY <1>1, <2>2, <2>3 DEF CopiaFiel, Cabe
  <2> QED
    BY <2>2, <2>3, <2>4 DEF AlDia, Fase
<1>2. CASE ~Escribe(s, d)
  <2>1. PICK r : pestana' = [pestana EXCEPT ![p] = Ociosa(r)]
    BY <1>2 DEF SigueCon
  <2>2. pestana'[p].fase = "libre" /\ \A q \in Pestanas \ {p} : pestana'[q] = pestana[q]
    BY <1>0, <2>1 DEF Ociosa
  <2> QED
    BY <2>2 DEF AlDia, Fase
<1> QED
  BY <1>1, <1>2

\* A call goes on with what it read: the store sees nothing yet, or an answer.
LEMMA SigueConAbstracto ==
  ASSUME Inv, NEW p \in Pestanas, NEW s \in Pedidos, s.op # "restablecerDatos",
         SigueCon(p, s, Visto), Visto' = Visto
  PROVE  Almacen!Next \/ UNCHANGED <<Visto, Respuestas>>
<1>1. CASE Escribe(s, Visto)
  <2> DEFINE d == Visto
             t == [fase |-> "persistir", pedido |-> s,
                   copia |-> [d EXCEPT ![s.col] = Coleccion(s, d[s.col])],
                   resultado |-> Hecho(s, d[s.col]), resp |-> pestana[p].resp]
  <2>1. pestana' = [pestana EXCEPT ![p] = t]
    BY <1>1 DEF SigueCon
  <2>2. t.resp = pestana[p].resp
    OBVIOUS
  <2> HIDE DEF t
  <2>3. \A q \in Pestanas : pestana'[q].resp = pestana[q].resp
    BY <2>1, <2>2 DEF Inv, TypeOK
  <2> QED
    BY <2>3 DEF Respuestas
<1>2. CASE ~Escribe(s, Visto)
  <2> DEFINE r == IF s.op \in {"obtenerTodos", "obtenerPorId"} THEN Lectura(s, Visto)
                  ELSE Resultado(s, "no", {})
  <2>1. pestana' = [pestana EXCEPT ![p] = Ociosa(r)]
    BY <1>2 DEF SigueCon
  <2>2. Respuestas' = [Respuestas EXCEPT ![p] = r]
    BY <2>1, RespondeAbstracto
  <2>3. CASE s.op \in {"obtenerTodos", "obtenerPorId"}
    <3>1. r = Lectura(s, Visto)
      BY <2>3
    <3>2. Almacen!Consultar(p, s)
      BY <2>2, <2>3, <3>1, MismosDatos
        DEF Almacen!Consultar, Almacen!Responde, Respuestas, Visto
    <3> QED
      BY <3>2 DEF Almacen!Next
  <2>4. CASE s.op \notin {"obtenerTodos", "obtenerPorId"}
    <3>1. r = Resultado(s, "no", {})
      BY <2>4
    <3>2. s.op \in {"actualizar", "eliminar"} /\ s.id \notin Ids(Visto[s.col])
      BY <1>2, <2>4, CamposDePedido DEF Operaciones, Escrituras, Escribe
    <3>3. Almacen!NoEncontrar(p, s)
      BY <2>2, <3>1, <3>2, MismosDatos
        DEF Almacen!NoEncontrar, Almacen!Responde, Respuestas, Visto
    <3> QED
      BY <3>3 DEF Almacen!Next
  <2> QED
    BY <2>3, <2>4
<1> QED
  BY <1>1, <1>2

\* A write that nothing crossed, stored or lost, is an operation of the store.
LEMMA PersistirAbstracto ==
  ASSUME InvPestana, NEW p \in Pestanas, p \notin cruzadas, Persistir(p)
  PROVE  Almacen!Next
<1>0. CopiaFiel(p)
  BY DEF Persistir, InvPestana, AlDia
<1>1. PICK s \in Pedidos : s = pestana[p].pedido
  BY <1>0 DEF CopiaFiel
<1> DEFINE c == Visto[s.col]
           n == Coleccion(s, c)
<1>10. /\ Escribe(s, Visto) /\ Cabe(s, Visto)
      /\ pestana[p].copia = [Visto EXCEPT ![s.col] = n]
      /\ pestana[p].resultado = Hecho(s, c)
  BY <1>0, <1>1 DEF CopiaFiel
<1>2. DocumentoBien(Visto) /\ ColeccionBien(c) /\ s.dato \in Contenidos /\ s.id \in Nat
  BY VistoBien, CamposDePedido DEF InvPestana, DocumentoBien
<1>3. Respuestas' = [Respuestas EXCEPT ![p] = Hecho(s, c)]
  BY <1>10, RespondeAbstracto DEF Persistir, InvPestana
<1>4. pestana[p].copia # Nulo
  BY DatosLocalesAssumption DEF Persistir, InvPestana, Inv, DocumentoBien
<1>5. Visto' = [Visto EXCEPT ![s.col] = n] \/ Visto' = Visto
  BY <1>10, <1>4 DEF Persistir, SetItem, Guarda, Visto
<1> HIDE DEF c
<1>7. CASE s.op = "crear"
  <2> DEFINE i == MaxIdDe(c) + 1
             r == [id |-> i, dato |-> s.dato]
  <2>1. MaxIdDe(c) \in Nat /\ \A q \in c : q.id <= MaxIdDe(c)
    BY <1>2, MaxIdDeEs
  <2>2. MaxIdDe(c) < TopeId
    BY <1>10, <1>7 DEF Cabe, c
  <2>3. \A q \in c : q.id \in Nat
    BY <1>2, IdDeRegistro DEF ColeccionBien
  <2>4. i \in 1..TopeId /\ i \notin Ids(c)
    BY <2>1, <2>2, <2>3, DatosLocalesAssumption DEF Ids
  <2>5. Hecho(s, c) = Resultado(s, "si", {r}) /\ n = c \cup {r}
    BY <1>7 DEF Hecho, Coleccion, RegistroNuevo
  <2> HIDE DEF i
  <2>6. /\ Respuestas' = [Respuestas EXCEPT ![p] = Resultado(s, "si", {r})]
        /\ Visto' = [Visto EXCEPT ![s.col] = c \cup {r}] \/ Visto' = Visto
    BY <1>3, <1>5, <2>5
  <2>7. Almacen!Crear(p, s)
    BY <1>7, <2>4, <2>6, MismosDatos
      DEF Almacen!Crear, Almacen!Responde, Almacen!Guarda, c, Visto, Respuestas
  <2> QED
    BY <2>7 DEF Almacen!Next
<1>8. CASE s.op = "actualizar"
  <2>1. s.id \in Ids(c)
    BY <1>10, <1>8 DEF Escribe, c
  <2>2. ConId(c, s.id) = {Primero(c, s.id)}
    BY <1>2, <2>1, PrimeroEsUnico
  <2>3. n = (c \ ConId(c, s.id)) \cup {[id |-> s.id, dato |-> s.dato]}
        /\ Hecho(s, c) = Resultado(s, "si", {[id |-> s.id, dato |-> s.dato]})
    BY <1>8, <2>2 DEF Coleccion, Hecho, Cambiado
  <2>4. Almacen!Actualizar(p, s)
    BY <1>3, <1>5, <1>8, <2>1, <2>3, MismosDatos
      DEF Almacen!Actualizar, Almacen!Responde, Almacen!Guarda, c, Visto, Respuestas
  <2> QED
    BY <2>4 DEF Almacen!Next
<1>9. CASE s.op = "eliminar"
  <2>1. s.id \in Ids(c)
    BY <1>10, <1>9 DEF Escribe, c
  <2>2. n = c \ ConId(c, s.id) /\ Hecho(s, c) = Resultado(s, "si", {})
    BY <1>9 DEF Coleccion, Hecho
  <2>3. Almacen!Eliminar(p, s)
    BY <1>3, <1>5, <1>9, <2>1, <2>2, MismosDatos
      DEF Almacen!Eliminar, Almacen!Responde, Almacen!Guarda, c, Visto, Respuestas
  <2> QED
    BY <2>3 DEF Almacen!Next
<1> QED
  BY <1>10, <1>7, <1>8, <1>9 DEF Escribe

\* A step of tab p leaves the others as they were: it stores nothing, or those that are
\* in a call are now crossed.
LEMMA LasDemas ==
  ASSUME InvPestana, NEW p \in Pestanas, abierto' = abierto,
         \A q \in Pestanas \ {p} : pestana'[q] = pestana[q],
         \/ guardado' = guardado /\ cruzadas \ {p} \subseteq cruzadas'
         \/ Guarda(p, guardado'),
         p \notin cruzadas' => AlDia(p)', ~Fase(p, "sembrar")', Inv'
  PROVE  InvPestana'
<1> SUFFICES ASSUME NEW q \in Pestanas, q # p
             PROVE  /\ q \notin cruzadas' => AlDia(q)'
                    /\ Fase(q, "sembrar")' => /\ Cabe(pestana[q].pedido, DatosIniciales)'
                                              /\ pestana'[q].pedido.op # "restablecerDatos"
  BY DEF InvPestana
<1>1. pestana'[q] = pestana[q]
  OBVIOUS
<1>2. Fase(q, "sembrar")' => /\ Cabe(pestana[q].pedido, DatosIniciales)'
                            /\ pestana'[q].pedido.op # "restablecerDatos"
  BY <1>1 DEF InvPestana, Fase, Cabe
<1>3. CASE guardado' = guardado /\ cruzadas \ {p} \subseteq cruzadas'
  <2>1. Visto' = Visto
    BY <1>3 DEF Visto
  <2> QED
    BY <1>1, <1>2, <1>3, <2>1 DEF InvPestana, AlDia, Fase, CopiaFiel, Cabe
<1>4. CASE Guarda(p, guardado')
  <2>1. q \notin cruzadas' => Fase(q, "libre")
    BY <1>4 DEF Guarda
  <2> QED
    BY <1>1, <1>2, <2>1 DEF AlDia, Fase
<1> QED
  BY <1>3, <1>4

\* A tab that answers is idle: it has nothing to keep up to date.
LEMMA OciosaAlDia ==
  ASSUME Inv, NEW p \in Pestanas, NEW r, pestana' = [pestana EXCEPT ![p] = Ociosa(r)]
  PROVE  AlDia(p)' /\ ~Fase(p, "sembrar")' /\ \A q \in Pestanas \ {p} : pestana'[q] = pestana[q]
<1>1. pestana'[p].fase = "libre" /\ \A q \in Pestanas \ {p} : pestana'[q] = pestana[q]
  BY DEF Inv, TypeOK, Ociosa
<1> QED
  BY <1>1 DEF AlDia, Fase

\* The step of a call that another tab has crossed.
LEMMA PasoCruzado ==
  ASSUME NEW p \in cruzadas, ~Fase(p, "libre"), pestana'[p].fase # pestana[p].fase
  PROVE  Cruce
BY DEF Cruce

LEMMA PasoAlmacen ==
  ASSUME InvPestana, [Next]_vars
  PROVE  InvPestana' /\ (Almacen!Next \/ Cruce \/ UNCHANGED <<Visto, Respuestas>>)
<1>0. Inv /\ Inv'
  BY NextInv DEF InvPestana
<1>1. CASE UNCHANGED vars
  BY <1>0, <1>1 DEF vars, InvPestana, AlDia, Fase, CopiaFiel, Cabe, Visto, Respuestas
<1>2. ASSUME NEW p \in Pestanas, NEW s \in Pedidos, Cargar(p, s)
      PROVE  InvPestana' /\ (Almacen!Next \/ UNCHANGED <<Visto, Respuestas>>)
  <2>1. /\ SigueCon(p, s, Visto) /\ Visto' = Visto /\ s.op # "restablecerDatos" /\ HayCupo(s)
        /\ UNCHANGED <<guardado, abierto>> /\ cruzadas \ {p} \subseteq cruzadas'
    BY <1>2 DEF Cargar, Visto
  <2>2. Cabe(s, Visto)
    BY <1>0, <2>1, CupoCabe
  <2>3. AlDia(p)' /\ ~Fase(p, "sembrar")' /\ \A q \in Pestanas \ {p} : pestana'[q] = pestana[q]
    BY <1>0, <2>1, <2>2, SigueConAlDia
  <2> QED
    BY <1>0, <2>1, <2>3, LasDemas, SigueConAbstracto
<1>3. ASSUME NEW p \in Pestanas, NEW s \in Pedidos, NoHayDatos(p, s)
      PROVE  InvPestana' /\ UNCHANGED <<Visto, Respuestas>>
  <2> DEFINE t == [fase |-> "sembrar", pedido |-> s, copia |-> Nulo, resultado |-> Nulo,
                   resp |-> pestana[p].resp]
  <2>1. /\ pestana' = [pestana EXCEPT ![p] = t] /\ HayCupo(s) /\ s.op # "restablecerDatos"
        /\ Visto = DatosIniciales /\ Visto' = Visto
        /\ UNCHANGED <<guardado, abierto>> /\ cruzadas' = cruzadas \ {p}
    BY <1>3 DEF NoHayDatos, Visto
  <2>2. t.fase = "sembrar" /\ t.pedido = s /\ t.resp = pestana[p].resp
    OBVIOUS
  <2> HIDE DEF t
  <2>3. pestana'[p] = t /\ \A q \in Pestanas \ {p} : pestana'[q] = pestana[q]
    BY <1>0, <2>1 DEF Inv, TypeOK
  <2>4. \A q \in Pestanas : pestana'[q].resp = pestana[q].resp
    BY <2>2, <2>3
  <2>5. Cabe(s, DatosIniciales)
    BY <1>0, <2>1, CupoCabe
  <2>6. AlDia(p)' /\ Cabe(pestana[p].pedido, DatosIniciales)'
        /\ pestana'[p].pedido.op # "restablecerDatos"
    BY <2>1, <2>2, <2>3, <2>5 DEF AlDia, Fase, Cabe
  <2>7. \A q \in Pestanas \ {p} :
          /\ q \notin cruzadas' => AlDia(q)'
          /\ Fase(q, "sembrar")' => /\ Cabe(pestana[q].pedido, DatosIniciales)'
                                    /\ pestana'[q].pedido.op # "restablecerDatos"
    BY <2>1, <2>3 DEF InvPestana, AlDia, Fase, CopiaFiel, Cabe
  <2> QED
    BY <1>0, <2>1, <2>4, <2>6, <2>7 DEF InvPestana, Respuestas
<1>4. ASSUME NEW p \in Pestanas, NEW s \in Pedidos, Restablecer(p, s)
      PROVE  InvPestana' /\ Almacen!Next
  <2>1. PICK e \in {"si", "lanza"} :
          /\ pestana' = [pestana EXCEPT ![p] = Ociosa(Resultado(s, e, {}))]
          /\ IF e = "si" THEN Visto' = DatosIniciales ELSE Visto' = Visto
    BY <1>4 DEF Restablecer, Guarda, Visto
  <2>2. Respuestas' = [Respuestas EXCEPT ![p] = Resultado(s, e, {})]
    BY <1>0, <2>1, RespondeAbstracto
  <2>3. Almacen!Restablecer(p, s)
    BY <1>4, <2>1, <2>2, MismosDatos
      DEF Almacen!Restablecer, Restablecer, Visto, Almacen!Responde, Respuestas
  <2>4. /\ abierto' = abierto
        /\ (guardado' = guardado /\ cruzadas \ {p} \subseteq cruzadas') \/ Guarda(p, guardado')
    BY <1>4 DEF Restablecer, Guarda
  <2>5. AlDia(p)' /\ ~Fase(p, "sembrar")' /\ \A q \in Pestanas \ {p} : pestana'[q] = pestana[q]
    BY <1>0, <2>1, OciosaAlDia
  <2>6. InvPestana'
    BY <1>0, <2>4, <2>5, LasDemas
  <2> QED
    BY <2>3, <2>6 DEF Almacen!Next
<1>5. ASSUME NEW p \in Pestanas, Sembrar(p)
      PROVE  InvPestana' /\ (Almacen!Next \/ Cruce \/ UNCHANGED <<Visto, Respuestas>>)
  <2> DEFINE s == pestana[p].pedido
  <2>1. s \in Pedidos /\ Cabe(s, DatosIniciales) /\ s.op # "restablecerDatos"
        /\ SigueCon(p, s, DatosIniciales) /\ Fase(p, "sembrar") /\ abierto' = abierto
    BY <1>5 DEF Sembrar, InvPestana, Inv
  <2>2. \/ guardado' = guardado /\ cruzadas' = cruzadas
        \/ Guarda(p, guardado') /\ Visto' = DatosIniciales
    BY <1>5 DEF Sembrar, SetItem, Guarda, Visto
  <2> HIDE DEF s
  <2>3. ~Fase(p, "sembrar")' /\ \A q \in Pestanas \ {p} : pestana'[q] = pestana[q]
    <3>1. PICK t : pestana' = [pestana EXCEPT ![p] = t] /\ t.fase \in {"libre", "persistir"}
      <4>1. CASE Escribe(s, DatosIniciales)
        <5> DEFINE t == [fase |-> "persistir", pedido |-> s,
                         copia |-> [DatosIniciales EXCEPT
                                      ![s.col] = Coleccion(s, DatosIniciales[s.col])],
                         resultado |-> Hecho(s, DatosIniciales[s.col]),
                         resp |-> pestana[p].resp]
        <5>1. pestana' = [pestana EXCEPT ![p] = t]
          BY <2>1, <4>1 DEF SigueCon
        <5>2. t.fase = "persistir"
          OBVIOUS
        <5> QED
          BY <5>1, <5>2
      <4>2. CASE ~Escribe(s, DatosIniciales)
        <5>1. PICK r : pestana' = [pestana EXCEPT ![p] = Ociosa(r)]
          BY <2>1, <4>2 DEF SigueCon
        <5>2. Ociosa(r).fase = "libre"
          BY DEF Ociosa
        <5> QED
          BY <5>1, <5>2
      <4> QED
        BY <4>1, <4>2
    <3> QED
      BY <1>0, <3>1 DEF Inv, TypeOK, Fase
  <2>4. p \notin cruzadas' => AlDia(p)'
    <3>1. p \notin cruzadas' => Visto' = DatosIniciales
      BY <2>1, <2>2 DEF InvPestana, AlDia, Visto
    <3> QED
      BY <1>0, <2>1, <3>1, SigueConAlDia
  <2>5. InvPestana'
    BY <1>0, <2>1, <2>2, <2>3, <2>4, LasDemas
  <2>6. CASE p \in cruzadas
    <3>1. ~Fase(p, "libre") /\ pestana'[p].fase # pestana[p].fase
      BY <2>1, <2>3 DEF Fase
    <3> QED
      BY <2>5, <2>6, <3>1, PasoCruzado
  <2>7. CASE p \notin cruzadas
    <3>1. Visto = DatosIniciales
      BY <2>1, <2>7 DEF InvPestana, AlDia
    <3>2. Visto' = Visto
      BY <2>1, <2>2, <3>1 DEF Visto
    <3> QED
      BY <1>0, <2>1, <2>5, <3>1, <3>2, SigueConAbstracto
  <2> QED
    BY <2>6, <2>7
<1>6. ASSUME NEW p \in Pestanas, Persistir(p)
      PROVE  InvPestana' /\ (Almacen!Next \/ Cruce)
  <2>1. /\ pestana' = [pestana EXCEPT ![p] = Ociosa(pestana[p].resultado)]
        /\ abierto' = abierto /\ Fase(p, "persistir")
        /\ (guardado' = guardado /\ cruzadas \ {p} \subseteq cruzadas') \/ Guarda(p, guardado')
    BY <1>6 DEF Persistir, SetItem, Guarda
  <2>2. AlDia(p)' /\ ~Fase(p, "sembrar")' /\ \A q \in Pestanas \ {p} : pestana'[q] = pestana[q]
    BY <1>0, <2>1, OciosaAlDia
  <2>3. InvPestana'
    BY <1>0, <2>1, <2>2, LasDemas
  <2>4. CASE p \in cruzadas
    <3>1. ~Fase(p, "libre") /\ pestana'[p].fase # pestana[p].fase
      BY <1>0, <2>1 DEF Fase, Ociosa, Inv, TypeOK
    <3> QED
      BY <2>3, <2>4, <3>1, PasoCruzado
  <2>5. CASE p \notin cruzadas
    BY <1>6, <2>3, <2>5, PersistirAbstracto
  <2> QED
    BY <2>4, <2>5
<1> QED
  BY <1>1, <1>2, <1>3, <1>4, <1>5, <1>6 DEF Next

LEMMA InitAlmacen == Init => InvPestana /\ Almacen!Init
<1> SUFFICES ASSUME Init PROVE InvPestana /\ Almacen!Init
  OBVIOUS
<1>1. \A p \in Pestanas : pestana[p] = Ociosa(Nulo) /\ pestana[p].fase = "libre"
                           /\ pestana[p].resp = Nulo
  BY DEF Init, Ociosa
<1> QED
  BY <1>1, InitInv DEF Init, InvPestana, AlDia, Fase, Almacen!Init

\* For any tabs, collections, calls, losses and blocked storage: a call of dbSimulada
\* under which no other tab stores is one operation of an atomic store, and whatever else
\* happens to what is stored or answered is the step of a call that another tab crossed.
THEOREM AtomicaSiNoSeCruza == Spec => AtomicaSinCruce
<1>1. InvPestana /\ [Next]_vars => InvPestana' /\ [Almacen!Next \/ Cruce]_(Almacen!vars)
  BY PasoAlmacen DEF Almacen!vars, Visto, Respuestas
<1> QED
  BY <1>1, InitAlmacen, PTL DEF Spec, AtomicaSinCruce

\* With one tab nothing crosses: dbSimulada is an atomic store, which is what Reserva and
\* Catalogo assume of it.
THEOREM UnaPestanaEsAlmacen ==
  ASSUME UnaPestana
  PROVE  Spec => ImplementaAlmacen
<1> DEFINE SinCruce == InvPestana /\ cruzadas = {}
<1>1. Init => SinCruce /\ Almacen!Init
  BY InitAlmacen DEF Init
<1>2. SinCruce /\ [Next]_vars => SinCruce' /\ [Almacen!Next]_(Almacen!vars)
  <2> SUFFICES ASSUME SinCruce, [Next]_vars
               PROVE  SinCruce' /\ [Almacen!Next]_(Almacen!vars)
    OBVIOUS
  <2>1. cruzadas' = {}
    BY DEF Next, vars, Cargar, NoHayDatos, Sembrar, Persistir, Restablecer, SetItem, Guarda,
           UnaPestana
  <2>2. ~Cruce
    BY DEF Cruce
  <2> QED
    BY <2>1, <2>2, PasoAlmacen DEF Almacen!vars, Visto, Respuestas
<1> QED
  BY <1>1, <1>2, PTL DEF Spec, ImplementaAlmacen, Almacen!Spec
=============================================================================
