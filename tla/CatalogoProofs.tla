--------------------------- MODULE CatalogoProofs ---------------------------
(***************************************************************************)
(* The catalogues of the panel, for any number of calls, records and       *)
(* creations: App shows the collection that the browser keeps, and that    *)
(* collection behaves as CatalogoLocal says, whatever the service, the     *)
(* network and the timeouts do.                                            *)
(***************************************************************************)
EXTENDS Catalogo, ColeccionProofs, FiniteSetTheorems

\* A collection whose largest id exists, so that crear has a next one.
Bien(lista) ==
  /\ lista \in SUBSET Registro
  /\ \E n \in Nat : \A c \in lista : c.id <= n

Inv == TypeOK /\ CopiaAlDia /\ Bien(local)

-----------------------------------------------------------------------------
LEMMA CamposDeRegistro ==
  \A c \in Registro : c.id \in Nat /\ c.id # 0 /\ c.dato \in Dato
  BY DEF Registro

LEMMA CamposDeDato ==
  \A d \in Dato : d.base \in Filas /\ d.extra \in Opcional(Extras)
  BY DEF Dato

LEMMA RespondidoTipo == \A d \in Dato : Respondido(d) \in Dato
  BY DEF Respondido, Dato, Opcional

\* crear, actualizar and eliminar of dbSimulada leave a collection well formed.
LEMMA AplicadoBien ==
  ASSUME NEW lista, Bien(lista), NEW s \in Pedido, NEW d \in Dato
  PROVE  Bien(Aplicado(s, d, lista))
<1>1. PICK n \in Nat : \A c \in lista : c.id <= n
  BY DEF Bien
<1>2. \A c \in lista : c \in Registro /\ c.id \in Nat /\ c.id # 0 /\ c.dato \in Dato
  BY CamposDeRegistro DEF Bien
<1>3. CASE s.op = "crear"
  <2> DEFINE i == IdNuevo(lista)
             r == [id |-> i, dato |-> d]
  <2>1. i \in Nat \ {0} /\ i <= n + 1
    BY <1>1, <1>2, IdNuevoEsFresco
  <2>2. Aplicado(s, d, lista) = lista \cup {r}
    BY <1>3 DEF Aplicado
  <2> HIDE DEF i
  <2>3. r \in Registro /\ r.id = i
    BY <2>1 DEF Registro
  <2>4. \A c \in lista \cup {r} : c \in Registro /\ c.id <= n + 1
    BY <1>1, <1>2, <2>1, <2>3
  <2> QED
    BY <2>2, <2>4 DEF Bien
<1>4. CASE s.op = "actualizar"
  <2> DEFINE nuevo(c) == IF c.id = s.id THEN [id |-> s.id, dato |-> Mezcla(c.dato, d)] ELSE c
  <2>1. Aplicado(s, d, lista) = {nuevo(c) : c \in lista}
    BY <1>4 DEF Aplicado, Reemplaza
  <2>2. ASSUME NEW c \in lista
        PROVE  nuevo(c) \in Registro /\ nuevo(c).id = c.id
    <3>1. Mezcla(c.dato, d) \in Dato
      BY <1>2, CamposDeDato DEF Mezcla, Dato
    <3> QED
      BY <1>2, <3>1 DEF Registro
  <2> HIDE DEF nuevo
  <2>3. \A c \in {nuevo(x) : x \in lista} : c \in Registro /\ c.id <= n
    BY <1>1, <2>2
  <2> QED
    BY <2>1, <2>3 DEF Bien
<1>5. CASE s.op = "eliminar"
  BY <1>1, <1>2, <1>5 DEF Aplicado, Quita, Bien
<1> QED
  BY <1>3, <1>4, <1>5 DEF Pedido

LEMMA InicialesBien == Bien(Iniciales)
<1>1. CASE Iniciales = {}
  BY <1>1 DEF Bien
<1>2. CASE Iniciales # {}
  <2>1. PICK c \in Iniciales : \A d \in Iniciales : d.id <= c.id
    BY <1>2, DatosCatalogoAssumption
  <2>2. c.id \in Nat
    BY DatosCatalogoAssumption, CamposDeRegistro
  <2> QED
    BY <2>1, <2>2, DatosCatalogoAssumption DEF Bien
<1> QED
  BY <1>1, <1>2

\* Both modules speak of the same data.
LEMMA MismosDatos ==
  /\ Visible!Pedido = Pedido
  /\ \A d : Visible!Respondido(d) = Respondido(d)
  /\ \A s, d, lista : Visible!Aplicado(s, d, lista) = Aplicado(s, d, lista)
  /\ \A i, lista : Visible!Quita(i, lista) = Quita(i, lista)
<1>1. Visible!Pedido = Pedido
  BY DEF Visible!Pedido, Pedido, Visible!Dato, Dato, Visible!Opcional, Opcional
<1>2. \A i, lista : Visible!Quita(i, lista) = Quita(i, lista)
  BY DEF Visible!Quita, Quita
<1>3. \A i, d, lista : Visible!Reemplaza(i, d, lista) = Reemplaza(i, d, lista)
  BY DEF Visible!Reemplaza, Reemplaza, Visible!Mezcla, Mezcla
<1>4. \A lista : Visible!IdNuevo(lista) = IdNuevo(lista)
  BY DEF Visible!IdNuevo, IdNuevo
<1>5. \A s, d, lista : Visible!Aplicado(s, d, lista) = Aplicado(s, d, lista)
  BY <1>2, <1>3, <1>4 DEF Visible!Aplicado, Aplicado
<1>6. \A d : Visible!Respondido(d) = Respondido(d)
  BY DEF Visible!Respondido, Respondido
<1> QED
  BY <1>1, <1>2, <1>5, <1>6

\* What the panel may be asked is a request.
LEMMA PedibleEsPedido ==
  ASSUME Inv, NEW s \in Pedibles
  PROVE  s \in Pedido
<1>1. Mostrados \subseteq Nat
  BY CamposDeRegistro DEF Mostrados, Inv, CopiaAlDia, Bien
<1>2. \A i \in {0} \cup Mostrados \cup ({edicion} \ {Nulo}) : i \in Nat
  BY <1>1 DEF Inv, TypeOK, Opcional
<1>3. Formularios \subseteq Dato
  BY DEF Formularios, Dato, Opcional
<1>4. s.dato \in Dato
  <2>1. CASE s.dato \in Formularios
    BY <1>3, <2>1
  <2>2. CASE s.dato \notin Formularios
    <3>1. s.id \in Mostrados /\ s.dato = SinRegistro
      BY <2>2, DatosCatalogoAssumption DEF Pedibles, Puede
    <3>2. \E d \in Dato : TRUE
      BY <3>1, CamposDeRegistro DEF Mostrados, Inv, CopiaAlDia, Bien
    <3> QED
      BY <3>1, <3>2 DEF SinRegistro
  <2> QED
    BY <2>1, <2>2
<1>5. s.op \in {"crear", "actualizar", "eliminar"} /\ s.id \in Nat
  BY <1>2, DatosCatalogoAssumption DEF Pedibles
<1>6. s = [op |-> s.op, id |-> s.id, dato |-> s.dato]
  BY DEF Pedibles
<1> QED
  BY <1>4, <1>5, <1>6 DEF Pedido

\* A call of slot u is in the phase f with what it asked, or with nothing.
LEMMA LlamadaTipo ==
  ASSUME NEW f \in FasesLlamada, NEW s \in Opcional(Pedido)
  PROVE  /\ [fase |-> f, sol |-> s] \in Llamada
         /\ [fase |-> f, sol |-> s].fase = f /\ [fase |-> f, sol |-> s].sol = s
  BY DEF Llamada

\* What an action does to the slot of one call.
LEMMA SlotCambia ==
  ASSUME Inv, NEW u \in Peticiones, NEW f \in FasesLlamada, NEW s \in Opcional(Pedido),
         llamada' = [llamada EXCEPT ![u] = [fase |-> f, sol |-> s]],
         f \in {"enviada", "cuerpo"} <=> s # Nulo
  PROVE  /\ llamada' \in [Peticiones -> Llamada]
         /\ llamada'[u].fase = f /\ llamada'[u].sol = s
         /\ \A v \in Peticiones \ {u} : llamada'[v] = llamada[v]
         /\ \A v \in Peticiones : EnVuelo(v)' <=> llamada'[v].sol # Nulo
<1> DEFINE r == [fase |-> f, sol |-> s]
<1>1. r \in Llamada /\ r.fase = f /\ r.sol = s
  BY LlamadaTipo
<1> HIDE DEF r
<1>2. llamada' = [llamada EXCEPT ![u] = r] /\ llamada \in [Peticiones -> Llamada]
  BY DEF r, Inv, TypeOK
<1>3. /\ llamada' \in [Peticiones -> Llamada]
      /\ llamada'[u] = r
      /\ \A v \in Peticiones \ {u} : llamada'[v] = llamada[v]
  BY <1>1, <1>2
<1> QED
  BY <1>1, <1>3 DEF Inv, TypeOK, EnVuelo

\* What the user has asked and does not see yet.
Pendientes == [u \in Peticiones |-> IF EnVuelo(u) THEN llamada[u].sol ELSE Nulo]

-----------------------------------------------------------------------------
\* The forms and buttons of the panel.
LEMMA PedirPaso ==
  ASSUME Inv, NEW u \in Peticiones, NEW s \in Pedibles, Pedir(u, s)
  PROVE  Inv' /\ Visible!Next
<1>1. s \in Pedido /\ s # Nulo /\ "enviada" \in FasesLlamada /\ s \in Opcional(Pedido)
  BY PedibleEsPedido, DatosCatalogoAssumption DEF FasesLlamada, Opcional
<1>2. llamada' = [llamada EXCEPT ![u] = [fase |-> "enviada", sol |-> s]]
      /\ local' = local /\ copia' = copia /\ llamada[u].fase = "libre"
  BY DEF Pedir, Fase
<1>3. /\ llamada' \in [Peticiones -> Llamada]
      /\ llamada'[u].fase = "enviada" /\ llamada'[u].sol = s
      /\ \A v \in Peticiones \ {u} : llamada'[v] = llamada[v]
      /\ \A v \in Peticiones : EnVuelo(v)' <=> llamada'[v].sol # Nulo
  BY <1>1, <1>2, SlotCambia
<1>4. altas' \in 0..MaxAltas /\ edicion' \in Opcional(Nat)
  <2>1. s.op = "crear" => altas < MaxAltas
    BY DEF Pedibles, Puede
  <2>2. altas' = IF s.op = "crear" THEN altas + 1 ELSE altas
    BY DEF Pedir
  <2>3. edicion' \in {Nulo, edicion}
    BY DEF Pedir, Cierra
  <2> QED
    BY <2>1, <2>2, <2>3, DatosCatalogoAssumption DEF Inv, TypeOK, Opcional
<1>5. Inv'
  BY <1>2, <1>3, <1>4 DEF Inv, TypeOK, CopiaAlDia, Bien
<1>6. \A v \in Peticiones : Pendientes'[v] = IF v = u THEN s ELSE Pendientes[v]
  BY <1>3 DEF Pendientes, EnVuelo
<1>7. Pendientes' = [Pendientes EXCEPT ![u] = s] /\ Pendientes'[u] = s
  BY <1>6 DEF Pendientes
<1>8. Pendientes[u] = Nulo
  BY <1>2 DEF Pendientes, EnVuelo
<1>9. Pendientes'[u] \in Visible!Pedido
        /\ Pendientes' = [Pendientes EXCEPT ![u] = Pendientes'[u]]
  <2>1. Visible!Pedido = Pedido
    BY MismosDatos
  <2>2. s \in Visible!Pedido
    BY <1>1, <2>1
  <2>3. Pendientes'[u] = s
    BY <1>7
  <2>4. Pendientes' = [Pendientes EXCEPT ![u] = s]
    BY <1>7
  <2> QED
    BY <2>2, <2>3, <2>4
<1>10. Visible!Pedir(u)
  BY <1>2, <1>8, <1>9 DEF Visible!Pedir, Pendientes
<1> QED
  BY <1>5, <1>10 DEF Visible!Next

\* However a call ends, it changes the collection once.
LEMMA TerminarPaso ==
  ASSUME Inv, NEW u \in Peticiones, EnVuelo(u),
         NEW d \in {llamada[u].sol.dato, Respondido(llamada[u].sol.dato)}, Terminar(u, d)
  PROVE  Inv' /\ Visible!Next
<1>1. PICK s \in Pedido : s = llamada[u].sol
  BY DEF Inv, TypeOK, Llamada, Opcional
<1>2. s.dato \in Dato /\ d \in Dato /\ d \in {s.dato, Respondido(s.dato)} /\ s # Nulo
  BY <1>1, RespondidoTipo, DatosCatalogoAssumption DEF Pedido
<1>3. local' = Aplicado(s, d, local) /\ copia' = Aplicado(s, d, local)
      /\ edicion' = edicion /\ altas' = altas
  BY <1>1 DEF Terminar, Cambia
<1>4. PICK f \in {"libre", "abandonada"} :
        llamada' = [llamada EXCEPT ![u] = [fase |-> f, sol |-> Nulo]]
  BY DEF Terminar, Ninguna
<1>5. f \in FasesLlamada /\ f \notin {"enviada", "cuerpo"} /\ Nulo \in Opcional(Pedido)
  BY DEF FasesLlamada, Opcional
<1>6. /\ llamada' \in [Peticiones -> Llamada]
      /\ llamada'[u].fase = f /\ llamada'[u].sol = Nulo
      /\ \A v \in Peticiones \ {u} : llamada'[v] = llamada[v]
      /\ \A v \in Peticiones : EnVuelo(v)' <=> llamada'[v].sol # Nulo
  BY <1>4, <1>5, SlotCambia
<1>7. Bien(local')
  BY <1>2, <1>3, AplicadoBien DEF Inv
<1>8. Inv'
  BY <1>3, <1>6, <1>7 DEF Inv, TypeOK, CopiaAlDia, Bien
<1>9. \A v \in Peticiones : Pendientes'[v] = IF v = u THEN Nulo ELSE Pendientes[v]
  BY <1>6 DEF Pendientes, EnVuelo
<1>10. Pendientes' = [Pendientes EXCEPT ![u] = Nulo] /\ Pendientes[u] = s
  BY <1>1, <1>9 DEF Pendientes
<1>11. copia' = Aplicado(s, d, copia)
  BY <1>3 DEF Inv, CopiaAlDia
<1>12. Visible!Aplicar(u)
  BY <1>2, <1>10, <1>11, MismosDatos DEF Visible!Aplicar, Pendientes
<1> QED
  BY <1>8, <1>12 DEF Visible!Next

\* The body of an answer is being read: nothing that the user sees.
LEMMA CuerpoPaso ==
  ASSUME Inv, NEW u \in Peticiones, Fase(u, "enviada"),
         llamada' = [llamada EXCEPT ![u].fase = "cuerpo"],
         UNCHANGED <<local, copia, edicion, altas>>
  PROVE  Inv' /\ UNCHANGED <<copia, Pendientes>>
<1>1. llamada[u] \in Llamada /\ llamada[u].sol # Nulo
  BY DEF Inv, TypeOK, EnVuelo, Fase
<1>2. PICK s \in Opcional(Pedido) : s = llamada[u].sol
  BY <1>1 DEF Llamada
<1>3. llamada' = [llamada EXCEPT ![u] = [fase |-> "cuerpo", sol |-> s]]
  <2>1. [llamada[u] EXCEPT !.fase = "cuerpo"] = [fase |-> "cuerpo", sol |-> s]
    BY <1>1, <1>2 DEF Llamada
  <2> QED
    BY <2>1
<1>4. "cuerpo" \in FasesLlamada /\ s # Nulo
  BY <1>1, <1>2 DEF FasesLlamada
<1>5. /\ llamada' \in [Peticiones -> Llamada]
      /\ llamada'[u].fase = "cuerpo" /\ llamada'[u].sol = s
      /\ \A v \in Peticiones \ {u} : llamada'[v] = llamada[v]
      /\ \A v \in Peticiones : EnVuelo(v)' <=> llamada'[v].sol # Nulo
  BY <1>3, <1>4, SlotCambia
<1>6. Inv'
  BY <1>5 DEF Inv, TypeOK, CopiaAlDia, Bien
<1>7. \A v \in Peticiones : Pendientes'[v] = Pendientes[v]
  BY <1>2, <1>5 DEF Pendientes, EnVuelo, Fase
<1> QED
  BY <1>6, <1>7 DEF Pendientes

\* A late answer frees its slot: nothing that the user sees.
LEMMA DescartarPaso ==
  ASSUME Inv, NEW u \in Peticiones, Descartar(u)
  PROVE  Inv' /\ UNCHANGED <<copia, Pendientes>>
<1>1. llamada' = [llamada EXCEPT ![u] = [fase |-> "libre", sol |-> Nulo]]
      /\ UNCHANGED <<local, copia, edicion, altas>> /\ llamada[u].fase = "abandonada"
  BY DEF Descartar, Fase, Ninguna
<1>2. "libre" \in FasesLlamada /\ Nulo \in Opcional(Pedido)
  BY DEF FasesLlamada, Opcional
<1>3. /\ llamada' \in [Peticiones -> Llamada]
      /\ llamada'[u].fase = "libre"
      /\ \A v \in Peticiones \ {u} : llamada'[v] = llamada[v]
      /\ \A v \in Peticiones : EnVuelo(v)' <=> llamada'[v].sol # Nulo
  BY <1>1, <1>2, SlotCambia
<1>4. Inv'
  BY <1>1, <1>3 DEF Inv, TypeOK, CopiaAlDia, Bien
<1>5. \A v \in Peticiones : Pendientes'[v] = Pendientes[v]
  BY <1>1, <1>3 DEF Pendientes, EnVuelo
<1> QED
  BY <1>1, <1>4, <1>5 DEF Pendientes

\* A deletion without the service, or a reset.
LEMMA DirectoPaso ==
  ASSUME Inv, EliminarDirecto \/ RestablecerDatos
  PROVE  Inv' /\ Visible!Next
<1>1. UNCHANGED <<llamada, edicion, altas>> /\ copia' = local' /\ Bien(local')
  <2>1. CASE EliminarDirecto
    BY <2>1 DEF EliminarDirecto, Quita, Inv, Bien
  <2>2. CASE RestablecerDatos
    BY <2>2, InicialesBien DEF RestablecerDatos
  <2> QED
    BY <2>1, <2>2
<1>2. Inv'
  BY <1>1 DEF Inv, TypeOK, CopiaAlDia, Bien, EnVuelo
<1>3. Pendientes' = Pendientes
  BY <1>1 DEF Pendientes, EnVuelo
<1>4. Visible!Directo \/ Visible!Restablecer
  BY <1>3 DEF EliminarDirecto, RestablecerDatos, Visible!Directo, Visible!Restablecer,
              Mostrados, Visible!Quita, Quita, Inv, CopiaAlDia, Pendientes
<1> QED
  BY <1>2, <1>4 DEF Visible!Next

LEMMA PasoVisible ==
  ASSUME Inv, [Next]_vars
  PROVE  Inv' /\ (Visible!Next \/ UNCHANGED <<copia, Pendientes>>)
<1>1. CASE UNCHANGED <<local, copia, edicion, llamada, altas>>
  BY <1>1 DEF Inv, TypeOK, CopiaAlDia, Bien, EnVuelo, Pendientes
<1>2. CASE UNCHANGED <<local, copia, llamada, altas>> /\ edicion' \in Opcional(Nat)
  BY <1>2 DEF Inv, TypeOK, CopiaAlDia, Bien, EnVuelo, Pendientes
<1>3. ASSUME NEW u \in Peticiones, NEW s \in Pedibles, Pedir(u, s)
      PROVE  Inv' /\ Visible!Next
  BY <1>3, PedirPaso
<1>4. ASSUME NEW u \in Peticiones, Recurrir(u) \/ LeerCuerpo(u) \/ PerderCuerpo(u)
      PROVE  Inv' /\ Visible!Next
  BY <1>4, TerminarPaso DEF Recurrir, LeerCuerpo, PerderCuerpo, Fase, EnVuelo
<1>5. ASSUME NEW u \in Peticiones, RecibirOk(u)
      PROVE  Inv' /\ (Visible!Next \/ UNCHANGED <<copia, Pendientes>>)
  <2>1. CASE Terminar(u, llamada[u].sol.dato)
    BY <1>5, <2>1, TerminarPaso DEF RecibirOk, Fase, EnVuelo
  <2>2. CASE ~Terminar(u, llamada[u].sol.dato)
    BY <1>5, <2>2, CuerpoPaso DEF RecibirOk
  <2> QED
    BY <2>1, <2>2
<1>6. ASSUME NEW u \in Peticiones, Atender(u)
      PROVE  UNCHANGED <<local, copia, edicion, llamada, altas>>
  BY <1>6 DEF Atender
<1>7. ASSUME NEW u \in Peticiones, Descartar(u)
      PROVE  Inv' /\ UNCHANGED <<copia, Pendientes>>
  BY <1>7, DescartarPaso
<1>8. CASE AbrirEdicion
  <2>1. UNCHANGED <<local, copia, llamada, altas>> /\ edicion' \in Mostrados
    BY <1>8 DEF AbrirEdicion
  <2>2. edicion' \in Opcional(Nat)
    BY <2>1, CamposDeRegistro DEF Mostrados, Inv, CopiaAlDia, Bien, Opcional
  <2> QED
    BY <1>2, <2>1, <2>2
<1>9. CASE CerrarEdicion
  BY <1>2, <1>9 DEF CerrarEdicion, Opcional
<1>10. CASE EliminarDirecto \/ RestablecerDatos
  BY <1>10, DirectoPaso
<1>11. CASE Caida
  BY <1>1, <1>11 DEF Caida
<1>12. CASE UNCHANGED vars
  BY <1>1, <1>12 DEF vars
<1> QED
  BY <1>1, <1>3, <1>4, <1>5, <1>6, <1>7, <1>8, <1>9, <1>10, <1>11, <1>12 DEF Next

LEMMA InitPaso == Init => Inv /\ Visible!Init
<1> SUFFICES ASSUME Init PROVE Inv /\ Visible!Init
  OBVIOUS
<1>1. "libre" \in FasesLlamada /\ Nulo \in Opcional(Pedido)
  BY DEF FasesLlamada, Opcional
<1>2. Ninguna \in Llamada /\ Ninguna.fase = "libre" /\ Ninguna.sol = Nulo
  BY <1>1, LlamadaTipo DEF Ninguna
<1>3. \A u \in Peticiones : llamada[u] = Ninguna
  BY DEF Init
<1>4. TypeOK
  BY <1>2, <1>3, InicialesBien, DatosCatalogoAssumption DEF Init, TypeOK, EnVuelo, Bien, Opcional
<1>5. Inv
  BY <1>4, InicialesBien DEF Init, Inv, CopiaAlDia
<1>6. Visible!Init
  BY <1>2, <1>3 DEF Init, Visible!Init, EnVuelo
<1> QED
  BY <1>5, <1>6

-----------------------------------------------------------------------------
\* The copy that App shows is what the browser keeps, for every order in which the calls
\* of its handlers end.
THEOREM CopiaSiempreAlDia == Spec => []CopiaAlDia
<1>1. Inv /\ [Next]_vars => Inv'
  BY PasoVisible
<1>2. Inv => CopiaAlDia
  BY DEF Inv
<1> QED
  BY <1>1, <1>2, InitPaso, PTL DEF Spec

\* A call in flight carries what was asked, and no other does.
THEOREM TiposCatalogo == Spec => []TypeOK
<1>1. Inv /\ [Next]_vars => Inv'
  BY PasoVisible
<1>2. Inv => TypeOK
  BY DEF Inv
<1> QED
  BY <1>1, <1>2, InitPaso, PTL DEF Spec

\* What the user of the panel sees is a local collection that each thing asked changes
\* exactly once, for any number of calls in flight and whatever becomes of them.
THEOREM CatalogoImplementaLocal == Spec => ImplementaLocal
<1>1. Inv /\ [Next]_vars => Inv' /\ [Visible!Next]_Visible!vars
  BY PasoVisible DEF Visible!vars, Pendientes
<1> QED
  BY <1>1, InitPaso, PTL DEF Spec, ImplementaLocal, Visible!Spec

-----------------------------------------------------------------------------
(***************************************************************************)
(* One row at most for each creation: the rows, and the creations that the *)
(* service has received and not yet served, are no more than those the     *)
(* panel sent.                                                             *)
(***************************************************************************)
SolicitudServicio == [op: {"crear", "actualizar", "eliminar"}, id: Nat, datos: Filas]

VistaServicio == [estadio: {"libre", "pendiente", "resuelta", "contestada"},
                  sol: Opcional(SolicitudServicio), dato: {{}}, resp: Opcional(Respuestas)]

Alta(v) == v.estadio = "pendiente" /\ v.sol.op = "crear"

PorServir == {u \in Peticiones : Alta(atencion[u])}

InvAltas ==
  /\ tabla \in Seq(Filas \cup {Nulo})
  /\ atencion \in [Peticiones -> VistaServicio]
  /\ \A u \in Peticiones : atencion[u].estadio = "pendiente" => atencion[u].sol \in SolicitudServicio
  /\ IsFiniteSet(PorServir)
  /\ Len(tabla) + Cardinality(PorServir) <= Len(Semilla) + altas

Atencion(e, s, r) == [estadio |-> e, sol |-> s, dato |-> {}, resp |-> r]

LEMMA AtencionTipo ==
  ASSUME NEW e \in {"libre", "pendiente", "resuelta", "contestada"},
         NEW s \in Opcional(SolicitudServicio), NEW r \in Opcional(Respuestas)
  PROVE  /\ Atencion(e, s, r) \in VistaServicio
         /\ Atencion(e, s, r).estadio = e /\ Atencion(e, s, r).sol = s
  BY DEF Atencion, VistaServicio

\* The service moves one request on, and perhaps its table.
LEMMA SirveUna ==
  ASSUME Inv, InvAltas, NEW u \in Peticiones, NEW v \in VistaServicio,
         atencion' = [atencion EXCEPT ![u] = v],
         v.estadio = "pendiente" => v.sol \in SolicitudServicio,
         tabla' \in Seq(Filas \cup {Nulo}), altas \in Nat, altas' \in Nat,
         \/ Len(tabla') = Len(tabla) /\ altas' = altas + 1
         \/ Len(tabla') = Len(tabla) /\ altas' = altas /\ ~Alta(v)
         \/ Len(tabla') = Len(tabla) + 1 /\ altas' = altas /\ ~Alta(v) /\ u \in PorServir
  PROVE  InvAltas'
<1>1. /\ atencion' \in [Peticiones -> VistaServicio] /\ atencion'[u] = v
      /\ \A w \in Peticiones \ {u} : atencion'[w] = atencion[w]
  BY DEF InvAltas
<1>2. PorServir' = IF Alta(v) THEN PorServir \cup {u} ELSE PorServir \ {u}
  BY <1>1 DEF PorServir
<1>3. IsFiniteSet(PorServir) /\ Cardinality(PorServir) \in Nat
  BY FS_CardinalityType DEF InvAltas
<1>4. /\ IsFiniteSet(PorServir \cup {u})
      /\ Cardinality(PorServir \cup {u}) = IF u \in PorServir THEN Cardinality(PorServir)
                                            ELSE Cardinality(PorServir) + 1
  BY <1>3, FS_AddElement
<1>5. /\ IsFiniteSet(PorServir \ {u})
      /\ Cardinality(PorServir \ {u}) = IF u \in PorServir THEN Cardinality(PorServir) - 1
                                         ELSE Cardinality(PorServir)
  BY <1>3, FS_RemoveElement
<1>6. Len(tabla) \in Nat /\ Len(tabla') \in Nat /\ Len(Semilla) \in Nat
      /\ Len(tabla) + Cardinality(PorServir) <= Len(Semilla) + altas
  BY DatosCatalogoAssumption DEF InvAltas
<1>7. IsFiniteSet(PorServir')
  BY <1>2, <1>4, <1>5
<1>8. Len(tabla') + Cardinality(PorServir') <= Len(Semilla) + altas'
  <2>1. CASE Alta(v)
    <3>1. PorServir' = PorServir \cup {u}
      BY <1>2, <2>1
    <3>2. Cardinality(PorServir') <= Cardinality(PorServir) + 1
      BY <1>3, <1>4, <3>1
    <3>3. altas' = altas + 1 /\ Len(tabla') = Len(tabla)
      BY <2>1
    <3>4. Cardinality(PorServir') \in Nat
      BY <1>7, FS_CardinalityType
    <3> QED
      BY <1>3, <1>6, <3>2, <3>3, <3>4
  <2>2. CASE ~Alta(v)
    <3>1. PorServir' = PorServir \ {u}
      BY <1>2, <2>2
    <3>2. Cardinality(PorServir') = IF u \in PorServir THEN Cardinality(PorServir) - 1
                                    ELSE Cardinality(PorServir)
      BY <1>5, <3>1
    <3> QED
      BY <1>3, <1>6, <3>2
  <2> QED
    BY <2>1, <2>2
<1>9. \A w \in Peticiones : atencion'[w].estadio = "pendiente"
                                 => atencion'[w].sol \in SolicitudServicio
  BY <1>1 DEF InvAltas
<1> QED
  BY <1>1, <1>7, <1>8, <1>9 DEF InvAltas

\* Nothing of the service or of the count changes.
LEMMA SinServir ==
  ASSUME InvAltas, UNCHANGED <<tabla, atencion, altas>>
  PROVE  InvAltas'
<1>1. PorServir' = PorServir
  BY DEF PorServir
<1> QED
  BY <1>1 DEF InvAltas

\* The panel sends a request, which may not arrive.
LEMMA PedirAltas ==
  ASSUME Inv, InvAltas, NEW u \in Peticiones, NEW s \in Pedibles, Pedir(u, s)
  PROVE  InvAltas'
<1>1. s \in Pedido /\ s.dato.base \in Filas
  BY PedibleEsPedido, CamposDeDato DEF Pedido
<1>2. altas \in Nat /\ altas' \in Nat /\ altas' = (IF s.op = "crear" THEN altas + 1 ELSE altas)
  BY DatosCatalogoAssumption DEF Inv, TypeOK, Pedir
<1>3. CASE UNCHANGED servicio
  <2>1. PorServir' = PorServir /\ UNCHANGED <<tabla, atencion>>
    BY <1>3 DEF PorServir, Alta, servicio
  <2>2. Cardinality(PorServir) \in Nat /\ Len(tabla) \in Nat /\ Len(Semilla) \in Nat
    BY FS_CardinalityType, DatosCatalogoAssumption DEF InvAltas
  <2> QED
    BY <1>2, <2>1, <2>2 DEF InvAltas
<1>4. CASE ~UNCHANGED servicio
  <2> DEFINE q == [op |-> s.op, id |-> s.id, datos |-> s.dato.base]
             v == Atencion("pendiente", q, Nulo)
  <2>1. atencion[u].estadio = "libre" /\ atencion' = [atencion EXCEPT ![u] = v] /\ tabla' = tabla
    BY <1>4 DEF Pedir, Servicio!Pedir, Servicio!En, Servicio!Vista, Atencion
  <2>2. q \in SolicitudServicio /\ q.op = s.op
    BY <1>1 DEF Pedido, SolicitudServicio
  <2> HIDE DEF q
  <2>3. q \in Opcional(SolicitudServicio) /\ Nulo \in Opcional(Respuestas)
    BY <2>2 DEF Opcional
  <2>4. v \in VistaServicio /\ v.estadio = "pendiente" /\ v.sol = q
    BY <2>3, AtencionTipo
  <2> HIDE DEF v
  <2>5. Len(tabla') = Len(tabla) /\ ((altas' = altas + 1) \/ (altas' = altas /\ ~Alta(v)))
    <3>1. Alta(v) <=> s.op = "crear"
      BY <2>2, <2>4 DEF Alta
    <3>2. tabla' = tabla
      BY <2>1
    <3> QED
      BY <1>2, <3>1, <3>2
  <2>6. tabla' \in Seq(Filas \cup {Nulo}) /\ Len(tabla) \in Nat
    BY <2>1 DEF InvAltas
  <2> QED
    BY <1>2, <2>1, <2>2, <2>4, <2>5, <2>6, SirveUna
<1> QED
  BY <1>3, <1>4

\* A slot of the service is free again.
LEMMA LiberaAltas ==
  ASSUME Inv, InvAltas, NEW u \in Peticiones, altas' = altas,
         Servicio!Terminar(u) \/ UNCHANGED servicio
  PROVE  InvAltas'
<1>1. CASE UNCHANGED servicio
  BY <1>1, SinServir DEF servicio
<1>2. CASE Servicio!Terminar(u)
  <2> DEFINE v == Atencion("libre", Nulo, Nulo)
  <2>1. atencion[u].estadio = "contestada" /\ atencion' = [atencion EXCEPT ![u] = v]
        /\ tabla' = tabla
    BY <1>2 DEF Servicio!Terminar, Servicio!En, Servicio!Libre, Servicio!Vista, Atencion
  <2>2. v \in VistaServicio /\ v.estadio = "libre"
    BY AtencionTipo DEF Opcional
  <2> HIDE DEF v
  <2>3. Len(tabla') = Len(tabla) /\ ~Alta(v)
    BY <2>1, <2>2 DEF Alta
  <2>4. tabla' \in Seq(Filas \cup {Nulo}) /\ Len(tabla) \in Nat /\ altas \in Nat
    BY <2>1, DatosCatalogoAssumption DEF InvAltas, Inv, TypeOK
  <2> QED
    BY <2>1, <2>2, <2>3, <2>4, SirveUna
<1> QED
  BY <1>1, <1>2

\* The service serves a request, or answers one: only a creation adds a row.
LEMMA AtenderAltas ==
  ASSUME Inv, InvAltas, NEW u \in Peticiones, Atender(u)
  PROVE  InvAltas'
<1> DEFINE q == atencion[u].sol
<1>1. altas \in Nat /\ altas' = altas /\ Len(tabla) \in Nat
  BY DatosCatalogoAssumption DEF InvAltas, Inv, TypeOK, Atender
<1>2. PICK w \in Opcional(SolicitudServicio) : w = q
  BY DEF InvAltas, VistaServicio
<1>3. {"200", "204", "404", "500"} \subseteq Opcional(Respuestas)
      /\ SinFila \in Opcional(Respuestas)
      /\ atencion[u].resp \in Opcional(Respuestas) /\ atencion[u].dato = {}
  BY RecursosAssumption DEF Opcional, Respuestas, InvAltas, VistaServicio
<1>4. PICK e \in {"resuelta", "contestada"}, r \in Opcional(Respuestas) :
        /\ atencion' = [atencion EXCEPT ![u] = Atencion(e, w, r)]
        /\ \/ tabla' = tabla
           \/ /\ atencion[u].estadio = "pendiente" /\ w.op = "crear"
              /\ tabla' = Append(tabla, w.datos)
           \/ /\ atencion[u].estadio = "pendiente" /\ w.op # "crear"
              /\ \E i \in DOMAIN tabla, x \in {Nulo, w.datos} : tabla' = [tabla EXCEPT ![i] = x]
  <2>1. CASE Servicio!Crear(u)
    BY <1>2, <1>3, <2>1 DEF Servicio!Crear, Servicio!En, Servicio!Sol, Servicio!Resuelta,
                            Servicio!Vista, Atencion
  <2>2. CASE Servicio!Actualizar(u)
    <3>1. CASE Servicio!Existe(tabla, q.id)
      BY <1>2, <1>3, <2>2, <3>1
         DEF Servicio!Actualizar, Servicio!En, Servicio!Sol, Servicio!Resuelta,
             Servicio!Vista, Servicio!Existe, Atencion
    <3>2. CASE ~Servicio!Existe(tabla, q.id)
      BY <1>2, <1>3, <2>2, <3>2
         DEF Servicio!Actualizar, Servicio!En, Servicio!Sol, Servicio!Resuelta,
             Servicio!Vista, Atencion
    <3> QED
      BY <3>1, <3>2
  <2>3. CASE Servicio!Eliminar(u)
    <3>1. CASE Servicio!Existe(tabla, q.id)
      BY <1>2, <1>3, <2>3, <3>1
         DEF Servicio!Eliminar, Servicio!En, Servicio!Sol, Servicio!Resuelta,
             Servicio!Vista, Servicio!Existe, Atencion
    <3>2. CASE ~Servicio!Existe(tabla, q.id)
      BY <1>2, <1>3, <2>3, <3>2
         DEF Servicio!Eliminar, Servicio!En, Servicio!Sol, Servicio!Resuelta,
             Servicio!Vista, Atencion
    <3> QED
      BY <3>1, <3>2
  <2>4. CASE Servicio!Fallar(u)
    BY <1>2, <1>3, <2>4 DEF Servicio!Fallar, Servicio!Sol, Servicio!Resuelta, Servicio!Vista,
                            Atencion
  <2>5. CASE Servicio!Contestar(u)
    BY <1>2, <1>3, <2>5 DEF Servicio!Contestar, Servicio!Sol, Servicio!Vista, Atencion
  <2> QED
    BY <2>1, <2>2, <2>3, <2>4, <2>5 DEF Atender
<1>5. atencion[u].estadio = "pendiente" => w \in SolicitudServicio
  BY <1>2 DEF InvAltas
<1>6. tabla' \in Seq(Filas \cup {Nulo})
      /\ Len(tabla') = IF u \in PorServir /\ tabla' # tabla THEN Len(tabla) + 1 ELSE Len(tabla)
  <2>1. CASE tabla' = tabla
    BY <2>1 DEF InvAltas
  <2>2. CASE /\ atencion[u].estadio = "pendiente" /\ w.op = "crear"
             /\ tabla' = Append(tabla, w.datos)
    <3>1. u \in PorServir /\ w.datos \in Filas
      BY <1>2, <1>5, <2>2 DEF PorServir, Alta, SolicitudServicio
    <3>2. tabla' \in Seq(Filas \cup {Nulo}) /\ Len(tabla') = Len(tabla) + 1
      BY <2>2, <3>1 DEF InvAltas
    <3> QED
      BY <1>1, <3>1, <3>2
  <2>3. CASE /\ atencion[u].estadio = "pendiente" /\ w.op # "crear"
             /\ \E i \in DOMAIN tabla, x \in {Nulo, w.datos} : tabla' = [tabla EXCEPT ![i] = x]
    <3>1. u \notin PorServir /\ w.datos \in Filas
      BY <1>2, <1>5, <2>3 DEF PorServir, Alta, SolicitudServicio
    <3>2. PICK i \in DOMAIN tabla, x \in Filas \cup {Nulo} : tabla' = [tabla EXCEPT ![i] = x]
      BY <2>3, <3>1
    <3>3. tabla' \in Seq(Filas \cup {Nulo}) /\ Len(tabla') = Len(tabla)
      BY <3>2 DEF InvAltas
    <3> QED
      BY <3>1, <3>3
  <2> QED
    BY <1>4, <2>1, <2>2, <2>3
<1> DEFINE v == Atencion(e, w, r)
<1>7. v \in VistaServicio /\ v.estadio = e
  BY AtencionTipo
<1>8. atencion' = [atencion EXCEPT ![u] = v] /\ v.estadio # "pendiente"
  BY <1>4, <1>7
<1> HIDE DEF v
<1>9. ~Alta(v)
  BY <1>8 DEF Alta
<1>10. \/ Len(tabla') = Len(tabla) /\ altas' = altas /\ ~Alta(v)
       \/ Len(tabla') = Len(tabla) + 1 /\ altas' = altas /\ ~Alta(v) /\ u \in PorServir
  BY <1>1, <1>6, <1>9
<1> QED
  BY <1>1, <1>6, <1>7, <1>8, <1>10, SirveUna

\* The service falls: what it had not served, it never will.
LEMMA CaidaAltas ==
  ASSUME Inv, InvAltas, Caida
  PROVE  InvAltas'
<1>1. tabla' = tabla /\ altas' = altas
  BY DEF Caida, Servicio!Perder
<1>2. \A u \in Peticiones :
        atencion'[u] = IF atencion[u].estadio \in {"libre", "contestada"} THEN atencion[u]
                       ELSE Atencion("contestada", atencion[u].sol, "sinRespuesta")
  BY DEF Caida, Servicio!Perder, Servicio!Sol, Servicio!Vista, Atencion
<1>3. ASSUME NEW u \in Peticiones
      PROVE  atencion'[u] \in VistaServicio /\ atencion'[u].estadio # "pendiente"
  <2>1. CASE atencion[u].estadio \in {"libre", "contestada"}
    BY <1>2, <2>1 DEF InvAltas
  <2>2. CASE atencion[u].estadio \notin {"libre", "contestada"}
    <3>1. atencion[u].sol \in Opcional(SolicitudServicio) /\ "sinRespuesta" \in Opcional(Respuestas)
      BY DEF InvAltas, VistaServicio, Opcional, Respuestas
    <3>2. PICK w \in Opcional(SolicitudServicio) : w = atencion[u].sol
      BY <3>1
    <3>3. Atencion("contestada", w, "sinRespuesta") \in VistaServicio
          /\ Atencion("contestada", w, "sinRespuesta").estadio = "contestada"
      BY <3>1, AtencionTipo
    <3> QED
      BY <1>2, <2>2, <3>2, <3>3
  <2> QED
    BY <2>1, <2>2
<1>4. atencion' = [u \in Peticiones |-> atencion'[u]]
  BY DEF Caida, Servicio!Perder
<1>5. atencion' \in [Peticiones -> VistaServicio]
  BY <1>3, <1>4
<1>6. PorServir' = {}
  BY <1>3 DEF PorServir, Alta
<1>7. Cardinality(PorServir) \in Nat /\ Len(tabla) \in Nat /\ Len(Semilla) \in Nat
  BY FS_CardinalityType, DatosCatalogoAssumption DEF InvAltas
<1>8. altas \in Nat
  BY DatosCatalogoAssumption DEF Inv, TypeOK
<1>9. IsFiniteSet(PorServir') /\ Cardinality(PorServir') = 0
  BY <1>6, FS_EmptySet
<1> QED
  BY <1>1, <1>3, <1>5, <1>7, <1>8, <1>9 DEF InvAltas

LEMMA NextAltas ==
  ASSUME Inv, InvAltas, [Next]_vars
  PROVE  InvAltas'
<1>1. CASE UNCHANGED <<tabla, atencion, altas>>
  BY <1>1, SinServir
<1>2. ASSUME NEW u \in Peticiones, NEW s \in Pedibles, Pedir(u, s)
      PROVE  InvAltas'
  BY <1>2, PedirAltas
<1>3. ASSUME NEW u \in Peticiones,
             Recurrir(u) \/ RecibirOk(u) \/ LeerCuerpo(u) \/ PerderCuerpo(u) \/ Descartar(u)
      PROVE  InvAltas'
  <2>1. altas' = altas /\ (Servicio!Terminar(u) \/ UNCHANGED servicio)
    BY <1>3 DEF Recurrir, RecibirOk, LeerCuerpo, PerderCuerpo, Descartar, Terminar
  <2> QED
    BY <2>1, LiberaAltas
<1>4. ASSUME NEW u \in Peticiones, Atender(u)
      PROVE  InvAltas'
  BY <1>4, AtenderAltas
<1>5. CASE AbrirEdicion \/ CerrarEdicion \/ EliminarDirecto \/ RestablecerDatos \/ UNCHANGED vars
  BY <1>1, <1>5 DEF AbrirEdicion, CerrarEdicion, EliminarDirecto, RestablecerDatos, vars, servicio
<1>6. CASE Caida
  BY <1>6, CaidaAltas
<1> QED
  BY <1>2, <1>3, <1>4, <1>5, <1>6 DEF Next

\* One creation in the form of the panel makes at most one row in the service, for any
\* number of calls: after a timeout, a lost answer or a refusal it is never sent again.
THEOREM UnaFilaSiempre == Spec => []UnaFilaPorAlta
<1>1. Init => Inv /\ InvAltas
  <2> SUFFICES ASSUME Init PROVE InvAltas
    BY InitPaso
  <2>1. tabla = Semilla /\ altas = 0
        /\ atencion = [u \in Peticiones |-> Atencion("libre", Nulo, Nulo)]
    BY DEF Init, Servicio!Libre, Servicio!Vista, Atencion
  <2>2. Nulo \in Opcional(SolicitudServicio) /\ Nulo \in Opcional(Respuestas)
    BY DEF Opcional
  <2>3. Atencion("libre", Nulo, Nulo) \in VistaServicio
        /\ Atencion("libre", Nulo, Nulo).estadio = "libre"
    BY <2>2, AtencionTipo
  <2>4. PorServir = {}
    BY <2>1, <2>3 DEF PorServir, Alta
  <2>5. IsFiniteSet(PorServir) /\ Cardinality(PorServir) = 0
    BY <2>4, FS_EmptySet
  <2>6. tabla \in Seq(Filas \cup {Nulo}) /\ Len(Semilla) \in Nat
    BY <2>1, DatosCatalogoAssumption
  <2> QED
    BY <2>1, <2>3, <2>5, <2>6 DEF InvAltas
<1>2. Inv /\ InvAltas /\ [Next]_vars => Inv' /\ InvAltas'
  BY PasoVisible, NextAltas
<1>3. Inv /\ InvAltas => UnaFilaPorAlta
  <2> SUFFICES ASSUME Inv, InvAltas PROVE UnaFilaPorAlta
    OBVIOUS
  <2>1. Cardinality(PorServir) \in Nat /\ Len(tabla) \in Nat /\ Len(Semilla) \in Nat
        /\ altas \in Nat
    BY FS_CardinalityType, DatosCatalogoAssumption DEF InvAltas, Inv, TypeOK
  <2> QED
    BY <2>1 DEF InvAltas, UnaFilaPorAlta
<1> QED
  BY <1>1, <1>2, <1>3, PTL DEF Spec

-----------------------------------------------------------------------------
(***************************************************************************)
(* The service under the panel.  Here any request may be sent; RecursoCrud *)
(* is proved to be this table.                                             *)
(***************************************************************************)
TablaReal == INSTANCE TablaAtomica WITH Solicitudes <- Solicitud

LEMMA PedirServicio ==
  ASSUME Inv, NEW u \in Peticiones, NEW s \in Pedibles, Pedir(u, s)
  PROVE  [TablaReal!Next]_servicio
<1>1. s \in Pedido /\ s.dato.base \in Filas
  BY PedibleEsPedido, CamposDeDato DEF Pedido
<1>2. [op |-> s.op, id |-> s.id, datos |-> s.dato.base] \in TablaReal!Solicitud
  BY <1>1 DEF Pedido, TablaReal!Solicitud, TablaReal!Operaciones
<1>3. CASE UNCHANGED servicio
  BY <1>3
<1>4. CASE ~UNCHANGED servicio
  <2>1. TablaReal!Pedir(u, [op |-> s.op, id |-> s.id, datos |-> s.dato.base])
    BY <1>4 DEF Pedir, Servicio!Pedir, Servicio!En, Servicio!Vista, TablaReal!Pedir,
                TablaReal!En, TablaReal!Vista
  <2> QED
    BY <1>2, <2>1 DEF TablaReal!Next, Solicitud, TablaReal!Solicitud, Operaciones,
                      TablaReal!Operaciones
<1> QED
  BY <1>3, <1>4

\* The end of a call takes the answer that is there, if any.
LEMMA TerminarServicio ==
  ASSUME NEW u \in Peticiones, Servicio!Terminar(u) \/ UNCHANGED servicio
  PROVE  [TablaReal!Next]_servicio
BY DEF Servicio!Terminar, Servicio!En, Servicio!Libre, Servicio!Vista, TablaReal!Next,
       TablaReal!Terminar, TablaReal!En, TablaReal!Libre, TablaReal!Vista

LEMMA AtenderServicio ==
  ASSUME NEW u \in Peticiones, Atender(u)
  PROVE  TablaReal!Next
<1>1. CASE Servicio!Crear(u)
  BY <1>1 DEF Servicio!Crear, Servicio!En, Servicio!Sol, Servicio!Resuelta, Servicio!Vista,
              TablaReal!Next, TablaReal!Crear, TablaReal!En, TablaReal!Sol,
              TablaReal!Resuelta, TablaReal!Vista
<1>2. CASE Servicio!Actualizar(u)
  BY <1>2 DEF Servicio!Actualizar, Servicio!En, Servicio!Sol, Servicio!Resuelta,
              Servicio!Vista, Servicio!Existe, TablaReal!Next, TablaReal!Actualizar,
              TablaReal!En, TablaReal!Sol, TablaReal!Resuelta, TablaReal!Vista,
              TablaReal!Existe
<1>3. CASE Servicio!Eliminar(u)
  BY <1>3 DEF Servicio!Eliminar, Servicio!En, Servicio!Sol, Servicio!Resuelta,
              Servicio!Vista, Servicio!Existe, TablaReal!Next, TablaReal!Eliminar,
              TablaReal!En, TablaReal!Sol, TablaReal!Resuelta, TablaReal!Vista,
              TablaReal!Existe
<1>4. CASE Servicio!Fallar(u)
  BY <1>4 DEF Servicio!Fallar, Servicio!En, Servicio!Sol, Servicio!Resuelta, Servicio!Vista,
              TablaReal!Next, TablaReal!Fallar, TablaReal!En, TablaReal!Sol,
              TablaReal!Resuelta, TablaReal!Vista
<1>5. CASE Servicio!Contestar(u)
  BY <1>5 DEF Servicio!Contestar, Servicio!En, Servicio!Sol, Servicio!Vista,
              TablaReal!Next, TablaReal!Contestar, TablaReal!En, TablaReal!Sol,
              TablaReal!Vista
<1> QED
  BY <1>1, <1>2, <1>3, <1>4, <1>5 DEF Atender

LEMMA PasoDelServicio ==
  ASSUME Inv, [Next]_vars
  PROVE  [TablaReal!Next]_servicio
<1>1. ASSUME NEW u \in Peticiones, NEW s \in Pedibles, Pedir(u, s)
      PROVE  [TablaReal!Next]_servicio
  BY <1>1, PedirServicio
<1>2. ASSUME NEW u \in Peticiones, NEW d, Terminar(u, d)
      PROVE  [TablaReal!Next]_servicio
  BY <1>2, TerminarServicio DEF Terminar
<1>3. ASSUME NEW u \in Peticiones,
             Recurrir(u) \/ RecibirOk(u) \/ LeerCuerpo(u) \/ PerderCuerpo(u)
      PROVE  [TablaReal!Next]_servicio
  BY <1>2, <1>3 DEF Recurrir, RecibirOk, LeerCuerpo, PerderCuerpo
<1>4. ASSUME NEW u \in Peticiones, Atender(u)
      PROVE  [TablaReal!Next]_servicio
  BY <1>4, AtenderServicio
<1>5. ASSUME NEW u \in Peticiones, Descartar(u)
      PROVE  [TablaReal!Next]_servicio
  BY <1>5, TerminarServicio DEF Descartar
<1>6. CASE Caida
  BY <1>6 DEF Caida, Servicio!Perder, Servicio!Sol, Servicio!Vista, TablaReal!Next,
              TablaReal!Perder, TablaReal!Sol, TablaReal!Vista
<1>7. CASE AbrirEdicion \/ CerrarEdicion \/ EliminarDirecto \/ RestablecerDatos
           \/ UNCHANGED vars
  BY <1>7 DEF AbrirEdicion, CerrarEdicion, EliminarDirecto, RestablecerDatos, vars
<1> QED
  BY <1>1, <1>3, <1>4, <1>5, <1>6, <1>7 DEF Next

\* Seen from the service, the panel sends requests of the form that the proof of
\* RecursoCrud covers and waits for each one, whatever the browser does meanwhile: it
\* takes only an answer that is there, and never moves the table itself.
THEOREM PanelDelServicio == Spec => [][TablaReal!Next]_servicio
<1>1. Inv /\ [Next]_vars => Inv' /\ [TablaReal!Next]_servicio
  BY PasoVisible, PasoDelServicio
<1> QED
  BY <1>1, InitPaso, PTL DEF Spec
=============================================================================
