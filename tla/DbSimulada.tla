----------------------------- MODULE DbSimulada -----------------------------
(***************************************************************************)
(* frontend/src/data/dbSimulada.js.  Every function reads the whole        *)
(* document, and a write changes its copy and stores the whole of it.  One *)
(* tab runs a function without interruption, but nothing locks the storage *)
(* between the getItem and the setItem of one tab against another tab.     *)
(***************************************************************************)
EXTENDS DatosLocales

VARIABLES
  guardado,   \* the item of localStorage: a document, or null
  abierto,    \* whether the browser lets the page use localStorage
  pestana,    \* what each tab is doing
  cruzadas    \* observer: the tabs under whose call another tab has stored

vars == <<guardado, abierto, pestana, cruzadas>>

Fases == {"libre", "sembrar", "persistir"}
Pestana == [fase: Fases, pedido: Opcional(Pedidos), copia: Opcional(Documento),
            resultado: Opcional(Resultados), resp: Opcional(Resultados)]

Ociosa(r) == [fase |-> "libre", pedido |-> Nulo, copia |-> Nulo, resultado |-> Nulo,
              resp |-> r]

Init ==
  /\ guardado \in {Nulo, DatosIniciales}
  /\ abierto \in BOOLEAN
  /\ pestana = [p \in Pestanas |-> Ociosa(Nulo)]
  /\ cruzadas = {}

-----------------------------------------------------------------------------
\* reduce((max, el) => el.id > max ? el.id : max, 0)
MaxIdDe(c) == CHOOSE m \in Ids(c) \cup {0} : \A i \in Ids(c) : i <= m

\* Mutant: crear keeps the id of the item it is given.
RegistroConIdPropio(s, c) ==
  [id |-> IF s.idPropio = Nulo THEN MaxIdDe(c) + 1 ELSE s.idPropio, dato |-> s.dato]

\* Mutant: the next id is the largest one.
RegistroConMaximo(s, c) == [id |-> MaxIdDe(c), dato |-> s.dato]

\* The record that crear adds: the item, with the next id over its own.
RegistroNuevo(s, c) == [id |-> MaxIdDe(c) + 1, dato |-> s.dato]

\* findIndex
Primero(c, i) == CHOOSE r \in c : r.id = i

\* The record that actualizar leaves: the changes over its fields (Contenidos are the
\* fields that changes carry), under the id it had.
Cambiado(s) == [id |-> s.id, dato |-> s.dato]

\* Mutant: eliminar keeps the records with that id.
CompruebaAlReves(s, c) ==
  CASE s.op = "crear"      -> c \cup {RegistroNuevo(s, c)}
    [] s.op = "actualizar" -> (c \ {Primero(c, s.id)}) \cup {Cambiado(s)}
    [] s.op = "eliminar"   -> ConId(c, s.id)

\* The collection as a write leaves it.
Coleccion(s, c) ==
  CASE s.op = "crear"      -> c \cup {RegistroNuevo(s, c)}
    [] s.op = "actualizar" -> (c \ {Primero(c, s.id)}) \cup {Cambiado(s)}
    [] s.op = "eliminar"   -> c \ ConId(c, s.id)

Escribe(s, d) ==
  \/ s.op = "crear"
  \/ s.op \in {"actualizar", "eliminar"} /\ s.id \in Ids(d[s.col])

\* What a write answers when there is something to write.
Hecho(s, c) ==
  Resultado(s, "si", CASE s.op = "crear"      -> {RegistroNuevo(s, c)}
                       [] s.op = "actualizar" -> {Cambiado(s)}
                       [] s.op = "eliminar"   -> {})

\* The call s of tab p goes on with document d in hand: it answers, or it is
\* about to store its copy.
SigueCon(p, s, d) ==
  pestana' = [pestana EXCEPT ![p] =
    IF Escribe(s, d)
    THEN [fase |-> "persistir", pedido |-> s,
          copia |-> [d EXCEPT ![s.col] = Coleccion(s, d[s.col])],
          resultado |-> Hecho(s, d[s.col]), resp |-> pestana[p].resp]
    ELSE Ociosa(IF s.op \in {"obtenerTodos", "obtenerPorId"} THEN Lectura(s, d)
                ELSE Resultado(s, "no", {}))]

Fase(p, f) == pestana[p].fase = f

\* Room for one more id, for each tab that may be giving one (bound TopeId).
HayCupo(s) ==
  s.op = "crear" =>
    \A d \in {guardado, DatosIniciales} \ {Nulo} : MaxIdDe(d[s.col]) < TopeId

\* cargarBaseDatos finds a document, or an exception: then the initial data.
Cargar(p, s) ==
  /\ Fase(p, "libre") /\ s.op # "restablecerDatos" /\ HayCupo(s)
  /\ abierto => guardado # Nulo
  /\ SigueCon(p, s, IF abierto THEN guardado ELSE DatosIniciales)
  /\ cruzadas' = cruzadas \ {p}
  /\ UNCHANGED <<guardado, abierto>>

\* cargarBaseDatos finds nothing: it is about to store the initial data.
NoHayDatos(p, s) ==
  /\ Fase(p, "libre") /\ s.op # "restablecerDatos" /\ HayCupo(s)
  /\ abierto /\ guardado = Nulo
  /\ pestana' = [pestana EXCEPT ![p] =
       [fase |-> "sembrar", pedido |-> s, copia |-> Nulo, resultado |-> Nulo,
        resp |-> pestana[p].resp]]
  /\ cruzadas' = cruzadas \ {p}
  /\ UNCHANGED <<guardado, abierto>>

\* Tab p stores d.
Guarda(p, d) ==
  /\ abierto /\ guardado' = d
  /\ cruzadas' = {q \in Pestanas \ {p} : ~Fase(q, "libre")}

\* setItem stores, or throws: blocked, or no room.
SetItem(p, d) == Guarda(p, d) \/ UNCHANGED <<guardado, cruzadas>>

Sembrar(p) ==
  /\ Fase(p, "sembrar")
  /\ SetItem(p, DatosIniciales)
  /\ SigueCon(p, pestana[p].pedido, DatosIniciales)
  /\ UNCHANGED abierto

\* persistirBaseDatos swallows the exception: the answer is the same.
Persistir(p) ==
  /\ Fase(p, "persistir")
  /\ SetItem(p, pestana[p].copia)
  /\ pestana' = [pestana EXCEPT ![p] = Ociosa(pestana[p].resultado)]
  /\ UNCHANGED abierto

\* restablecerDatos does not catch it.
Restablecer(p, s) ==
  /\ Fase(p, "libre") /\ s.op = "restablecerDatos"
  /\ \/ /\ Guarda(p, DatosIniciales)
        /\ pestana' = [pestana EXCEPT ![p] = Ociosa(Resultado(s, "si", {}))]
     \/ /\ UNCHANGED <<guardado, cruzadas>>
        /\ pestana' = [pestana EXCEPT ![p] = Ociosa(Resultado(s, "lanza", {}))]
  /\ UNCHANGED abierto

Next ==
  \E p \in Pestanas :
    \/ \E s \in Pedidos : Cargar(p, s) \/ NoHayDatos(p, s) \/ Restablecer(p, s)
    \/ Sembrar(p) \/ Persistir(p)

Spec == Init /\ [][Next]_vars

-----------------------------------------------------------------------------
\* Documents hold records, and a tab between its two steps holds its copy.
TypeOK ==
  /\ guardado \in Opcional(Documento)
  /\ abierto \in BOOLEAN
  /\ pestana \in [Pestanas -> Pestana]
  /\ cruzadas \subseteq Pestanas

\* However the tabs cross, and whatever is lost, no document ever has two records
\* with one id: findIndex and filter would then reach different ones.
IdsUnicos ==
  /\ guardado # Nulo => IdsDistintos(guardado)
  /\ \A p \in Pestanas : Fase(p, "persistir") => IdsDistintos(pestana[p].copia)

\* The store that the callers of dbSimulada take it for.
Almacen == INSTANCE AlmacenAtomico WITH
  colecciones <- IF abierto /\ guardado # Nulo THEN guardado ELSE DatosIniciales,
  resp <- [p \in Pestanas |-> pestana[p].resp]

\* A call goes on although another tab has stored since it began.
Cruce == \E p \in cruzadas : ~Fase(p, "libre") /\ pestana'[p] # pestana[p]

\* The exact strength of read-change-write without a lock: whatever is refused or lost,
\* a call under which no other tab has stored is one operation of an atomic store, and
\* only the end of another kind of call may undo what was stored or answer of the past.
AtomicaSinCruce == Almacen!Init /\ [][Almacen!Next \/ Cruce]_(Almacen!vars)

\* With one tab no call is crossed, and dbSimulada is that store.
ImplementaAlmacen == Almacen!Spec
=============================================================================
