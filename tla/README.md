# Formal models of the Barbería Norte appointment system

TLA+ models of this repository, their TLC instances and TLAPS proofs. The names
of the code are kept: `guardarCita`, `enriquecer`, `cambiarEstado`, `citas`.

## 1. The system

Spring Boot microservices, each with its own MySQL/MariaDB schema, behind an API
gateway; two React clients. `apache-maven-3.9.6/` and `mariadb-10.11.2-winx64/`
are vendored.

| Component | State | Operations | Talks to |
|---|---|---|---|
| service-agendamiento | table `cita` | create, read one, four lists, change state | clientes, barberos, servicios (blocking GETs) |
| service-pagos | table `pago` | register, read, lists, change state | agendamiento (blocking GET) |
| service-clientes | `cliente`, `ficha_cliente`, `tipo_cliente` | CRUD, login | – |
| service-servicios | `servicio` | CRUD | – |
| service-barberos | `barbero`, `especialidad` | create, read, login (no update or delete) | – |
| resenas, empleados, inventario, promociones, sucursales | one table each | the same CRUD five times | – |
| api-gateway | none | routes by path | all services |
| `frontend/src/data/dbSimulada.js` | one JSON document in `localStorage` | CRUD on its collections, reset | every tab of the browser |
| `frontend/src/services/api.js` | a connectivity flag | each call: gateway with a 2500 ms abort, else dbSimulada | gateway, dbSimulada |
| `frontend/src/App.jsx`, `pages/` | copies of the collections, user, booking wizard | navigation, booking, cancellation, administration | api.js, dbSimulada |
| `src/services/barberiaApi.js` (first client) | bookings in `localStorage` | conflict check, booking, merged list | gateway |
| start/stop scripts | processes | fixed-delay start, forced kill of every `java` | – |

What is hard in it:

* **Concurrency.** A request of service-agendamiento makes up to nine blocking
  HTTP calls and one to two database steps, with no lock, version column or
  enclosing transaction; other requests, catalogue deletions and kills fall
  between any two of them. `localStorage` is shared by tabs that read and write
  the whole document.
* **Failure.** Catalogues go down or hang; saves fail; `detener_proyecto.bat`
  kills every process. api.js answers every failure from the local copy, so the
  two stores may part.
* **Ordering and timeouts.** The client aborts after 2500 ms what the backend
  goes on doing; a registration is not awaited; the wizard confirms 700 ms after
  the click with the data of the click.
* **Stale data.** `cambiarEstado` writes the whole row it loaded before its
  calls; the wizard checks the hour against a copy.

What makes each component correct:

* agendamiento: references that existed, one atomic effect per request or none,
  authorised writes, errors without effect, an answer when nobody hangs;
* pagos: a payment names a cita that existed; changes of state are atomic;
* CRUD services: each implements an atomic table; an id is never given twice;
* dbSimulada: each call that no other tab crosses is one operation of an atomic map,
  and ids are unique whatever crosses;
* api.js and the wizard: an hour is taken twice only by bookings that cross; the
  success screen shows a booking that is kept; one click makes at most one cita
  on each side; every call ends;
* the panel: what the user asked is done once in the collection that is shown,
  whatever the service answers;
* legacy client: no two bookings of one barber within 40 minutes, and none lost.

## 2. Modules

| Module | What it is |
|---|---|
| `Citas` | Data of service-agendamiento: rows, requests, header and null checks, queries. |
| `RegistroCitas` | What it promises: an atomic registry of citas. |
| `Agendamiento` | What its code does, one action per step between two blocking calls. |
| `MCAgendamiento` | Requests and catalogues of the TLC instances. |
| `AgendamientoProofs` | Types, safety and the refinement, for every value of the constants. |
| `Valores` | Java's null, shared by all. |
| `Recursos` | Data of the CRUD services: one table, five requests, queries. |
| `TablaAtomica` | What they promise: a table with atomic requests. |
| `RecursoCrud` | What their code does: find, then save or delete. |
| `MCRecursoCrud` | Its TLC instances. |
| `RecursoCrudProofs` | Type correctness, final deletions, and the refinement, for every value of the constants. |
| `DatosPagos` | Data of service-pagos. |
| `RegistroPagos` | What it promises: a book of payments of citas that exist. |
| `Pagos` | What its code does, composed with `RegistroCitas` for the citas it asks for. |
| `MCPagos` | Its TLC instances. |
| `PagosProofs` | Types, payments only of citas that exist, and both refinements, for every value of the constants. |
| `Coleccion`, `ColeccionProofs` | The next id of a local collection, and the proof that it is fresh. |
| `DatosLocales` | Data of dbSimulada: records, documents, calls, answers. |
| `AlmacenAtomico` | What dbSimulada promises a call that no other tab crosses: an atomic store that may lose a write. |
| `DbSimulada` | What its code does: read the document, change the copy, store the copy. |
| `MCDbSimulada`, `DbSimuladaProofs` | Its TLC instance; types, unique ids and the refinement. |
| `DatosReserva` | Data of the booking client: sessions, choices, local citas, calls in flight. |
| `Reserva` | App, the wizard, "Mis Citas", the citas of the panel and CitasAPI, over `RegistroCitas`. |
| `MCReserva`, `ReservaProofs` | Its TLC instances; every safety property of it, for every value of the constants. |
| `DatosCatalogo`, `CatalogoLocal` | Data of a catalogue of the panel, and what the panel promises its user. |
| `Catalogo` | The handlers of the panel and the writes of api.js, over `TablaAtomica`. |
| `MCCatalogo`, `CatalogoProofs` | Its TLC instance; every property of it, for every value of the constants. |
| `DatosLegado`, `ReservaLegado` | Data and booking of the legacy client. |
| `MCReservaLegado`, `ReservaLegadoProofs` | Its TLC instance; types, separation, and confirmed bookings that stay. |

How they compose:

    MCReserva - Reserva - RegistroCitas (promised by) Agendamiento
    MCPagos   - Pagos   - RegistroCitas
    MCCatalogo- Catalogo- TablaAtomica  (promised by) RecursoCrud
    Catalogo (implements) CatalogoLocal
    DbSimulada (implements with one tab, and but for crossed calls with more) AlmacenAtomico
    RecursoCrud (implements) TablaAtomica; Pagos (implements) RegistroPagos

Both sides of the first three lines are proved (section 4): the server implements the
abstract module, and the client takes no step that the abstract module lacks.

### Agendamiento

State: `citas` is table `cita` (ids are positions: `AUTO_INCREMENT` never reuses
one and no code deletes a row); `filas`, `usados` and `servicio` are what can be
observed of the three catalogues (rows now, ids ever assigned, whether they
answer); `pet` holds each request: its phase, the entity in memory, the rows it
loaded, the next catalogue call, the answer. `hist` is an observer of the
properties only: whether the request has written and which states its row has
had since it arrived.

| Action | Code |
|---|---|
| `Crear`, `LeerCita`, `Listar`, `ListaVacia` | `CitaController` handlers up to their first catalogue call |
| `Enriquecer` (one call), `TrasEnriquecer` | `AgendamientoService.enriquecer` |
| `AutorizarVer`, `AutorizarCambio` | the header checks of `verDetalle` and `cambiarEstado` on the loaded cita |
| `EntraGuardarCita`, `Validar` (one call) | null checks and lookups of `guardarCita` |
| `Insertar`, `Actualizar`, `GuardarFalla` | `citaRepository.save` |
| `CambiarServicio`, `Alta`, `Baja` | the catalogues as their callers see them |
| `CaidaAgendamiento` | the forced stop of `detener_proyecto.bat` |

Points where the library decides, taken from how the code uses it:

* `save` of an entity without id is an INSERT; with an id that has no row (the
  legacy client posts `Date.now()`) it fails, and the answer is 500;
* `save` of an entity loaded in the same request writes every column, and only
  if the entity differs from the row as it was loaded (Hibernate compares with
  its snapshot, not with the table): `Actualizar` skips the write when the pair
  is still in `leidas`;
* an uncaught `RuntimeException` is a 500; a catalogue error, whatever it is,
  is the null of `fetch`;
* a list is enriched row by row; the order of its query (no ORDER BY) is any.

Left out of the data: price, times of day as such, the `datosX` texts (they never
reach a guard), and bodies that post the id of an existing row (no client of the
repository does).

### RecursoCrud

resenas, empleados, inventario, promociones and sucursales are one handler with
five sets of columns; clientes has the same one; servicios differs in that a PUT
on a missing row is a 500 (`SinFila`). `tabla` is the table by id, `Nulo` where a
row was deleted; `pet` the requests in flight, with the row each has loaded.

| Action | Code |
|---|---|
| `Leer`, `Crear` | `listar`, `obtener`, `crear`: one statement |
| `Buscar` | `buscarPorId` of a PUT, the first line of `ServicioService.actualizar`, the SELECT inside `deleteById` |
| `Actualizar` | `save` of the PUT |
| `Borrar` | the DELETE of `deleteById` |
| `FallaBD`, `Contestar`, `Caida` | a refused statement, the answer, the forced stop |

What decides here is the library (Spring Boot 3.5, Hibernate 6.6), and the model
says it in its actions: `spring.jpa.open-in-view` is left at its default, so one
persistence context spans the request and `save` merges into the entity that
`findById` loaded; the UPDATE is sent only if it differs from that; an UPDATE or
DELETE that finds no row is an exception (500); `deleteById` of a missing row
does nothing (204). Not in this module: login, ficha and tipos of clientes, and a
POST whose body names the id of an existing row, which `save` would merge into it:
the panel and the registration, the only clients that create rows, post forms that
have no id.

### Pagos

`pagos` is table `pago`, `hilo` the threads of service-pagos; `citas`, `usados`
and `atencion` are the state of `RegistroCitas`. A thread is the client of the
registry in its own slot: `Llamar` is the request of `fetchCita`, `Recoger` its
answer (a 200 or else null), `SinConexion` a call that fails at once. Other slots
are clients that book and cancel. Because `Agendamiento` implements
`RegistroCitas`, what holds here holds over the real service.

| Action | Code |
|---|---|
| `Registrar`, `Insertar` | `PagoService.registrar` before its call and from `save` on |
| `Leer` | `obtener`, `listar`, `listarPorCita`, `listarPorEstado` |
| `Buscar`, `Actualizar`, `GuardarFalla` | `cambiarEstado` |
| `Llamar`, `Recoger`, `SinConexion`, `Sigue` | `fetchCita`, and what `registrar` and `enriquecer` do with its result |
| `Contestar`, `Caida`, `Descartar` | the answer, the forced stop, and the connection it leaves behind |
| `Agendamiento` | service-agendamiento and its other clients |

A slot takes a new request only when its connection is free again; a killed
process would open another one, which is another slot. A POST whose body names the id
of an existing payment, which `save` would merge into it, is left out: no client of
the repository calls service-pagos, and a registration is a body without id.

### DbSimulada

`guardado` is the item of `localStorage` (a document or null), `abierto` whether
the browser lets the page use the storage, `pestana` what each tab is doing: the
call, the changed copy it is about to store, and the last answer. The only
interruption of a function is between its `getItem` and its `setItem`, and only
by another tab. `cruzadas` is an observer that only the properties read: the tabs in a
call under which another tab has stored.

| Action | Code |
|---|---|
| `Cargar` | `cargarBaseDatos`, then the whole function up to `persistirBaseDatos` |
| `NoHayDatos`, `Sembrar` | `cargarBaseDatos` on an empty storage |
| `Persistir` | `persistirBaseDatos`, which swallows what `setItem` throws |
| `Restablecer` | `restablecerDatos`, which does not |

A collection is a set of records: `findIndex` and `filter` see an order only if
two records share an id, which `IdsUnicos` excludes. `TopeId` bounds the ids.

### Reserva

`guardadas` is collection `citas` of each browser, `app` the state of `App` (view,
user, copy of the citas, last booking), `asistente` the state of `BookingPage`,
null when it is not mounted, `llamada` each timer or call in flight with what its
handler captured; `citas`, `usados` and `atencion` are `RegistroCitas`. A slot of
`llamada` is the same slot of the registry. `creada` is the id in the body of an
answer. `limpia` (the booking met no other one of its browser, and no reset),
`reactivada` and `respaldo` are observers that only the properties read.

| Action | Code |
|---|---|
| `Navegar`, `IniciarSesion`, `CerrarSesion` | `navegar`, `onLoginExitoso`, `onCerrarSesion` of App |
| `Elegir`, `Avanzar`, `Retroceder`, `Confirmar` | the five steps of `BookingPage` |
| `VenceTemporizador` | the 700 ms `setTimeout`: it frees the button and only then calls `agendar`; it runs although the page is gone |
| `Cancelar`, `CambiarEstado`, `RestablecerDatos` | handlers of "Mis Citas" and of the panel |
| `Rechazar` | `fetch` fails, or 2500 ms pass: the local cita is stored all the same |
| `RecibirError`, `RecibirOk` | the headers arrive, and with them the abort timer is cleared |
| `LeerCuerpo`, `PerderCuerpo` | `res.json()` |
| `Atender`, `Caida`, `Descartar` | the registry goes on, is killed, or answers a call that nobody waits for |

`Envia` lets a request not arrive at all: the repository's gateway has no CORS
configuration, so a browser on another origin may never see an answer, and no
assumption is made of the network. The functions of dbSimulada are atomic here (one
tab: `ImplementaAlmacen`), with room in the storage. Coupons and prices are left
out: no guard reads them.

### Catalogo

One catalogue of the panel: `local` the collection kept, `copia` the one shown,
`edicion` the record in the form, `llamada` the calls in flight, `tabla` and
`atencion` the service. `Pedir` is the request of `crear`, `actualizar` or
`eliminar`; `Recurrir`, `RecibirOk`, `LeerCuerpo` and `PerderCuerpo` are the ways
it ends, each of which changes the local collection and reads it again
(`Terminar`). `EliminarDirecto` is `handleEliminarBarbero`, which asks nobody. A
record has fields that the service's entity lacks (`extra`): an answer comes back
without them, and `actualizar` keeps those that the record had.

### ReservaLegado

`guardadas` is `barberia_local_appointments`, `remotas` what the backend has of
client 1 (changed by others: `CambiarBackend`), `envio` each submit. `HandleSubmit`,
`Servir`, `Comprobar`, `Escribir` and `Publicar` are `createAppointment` between its
awaits. `Turno` is the one thread of a tab: from the answer to the stored list
there is no await that another submit of the tab can use. Any write may be refused,
and the exception is swallowed: `rehusadas` is an observer of the bookings to which
that happened. The POST changes nothing: the `id` it carries is refused, or is lost,
and both are hidden.

## 3. Properties and runs

| Run | Bounds | Shows |
|---|---|---|
| `altas` | 2 requests, 2 ids per catalogue, 2 citas, deletions in servicios, reads of every kind | `TypeOK`, `ReferenciasConocidas`, `ImplementaRegistro` while rows come and go |
| `cambios` | 2 requests, 1 cita, 7 requests of 5 kinds of user, refused saves | `OkTuvoEfecto`, `EscrituraAutorizada`, `ImplementaRegistro` |
| `vida` | 2 requests, catalogues that go down or hang, refused saves | `ErrorSinEfecto`, `RespondeSiNadieCuelga` |
| `cancelacion` | 2 requests, 1 cita, deleted services | `DuenoPuedeCancelar` fails |
| `crud` | 3 requests, 1 row, 2 contents, ids 1 and 2, refused statements | `TypeOK`, `SinResurreccion`, `ImplementaTabla` |
| `pagos` | 2 threads, 1 other client, 1 cita, 1 payment, 3 states, refused saves | `TypeOK`, `PagoDeCitaExistente`, `ImplementaPagos`, `RespondeSiAgendaResponde` |
| `pestanas` | 2 tabs (symmetric), 2 collections, ids to 2, 7 calls, blocked or refusing storage | `TypeOK`, `IdsUnicos`, `AtomicaSinCruce` |
| `reservas` | 1 browser, 2 calls, 1 stored cita and 1 click, 3 choices (one refused) | `TypeOK`, `ExitoVerdadero`, `TodaLlamadaTermina` |
| `panel` | 1 browser, 2 calls, 1 cancelled cita and 2 clicks, reset | `CopiaAlDia`, `ChoqueSoloConCruce`, `RespaldoFiel`, `UnaCitaPorConfirmacion` |
| `doble_reserva` | 1 browser, 2 clicks, 2 hours | `SinDobleReserva` fails |
| `catalogo` | 2 calls, 2 contents, 1 extra field, 1 creation, deletions that ask nobody, PUT on a missing row is 500 | `TypeOK`, `CopiaAlDia`, `UnaFilaPorAlta`, `ImplementaLocal` |
| `legado` | 1 tab, 2 submits, 4 bookings, hours 10, 20, 30, 40 and 60 minutes apart, refused writes | `TypeOK`, `Separadas`, `ConfirmadaGuardada` |

The runs of service-agendamiento, CRUD and pagos allow kills, and so do those of the
clients, through `Caida`. `MaxCitas`, `MaxFilas` and `MaxPagos` bound the rows
together with the requests in flight that may add one; `MaxConfirmaciones`,
`MaxAltas` and `MaxReservas` the clicks; `TopeId` the ids.

Two requests are enough for every race of service-agendamiento: a request shares
with the others only the table, each database step is atomic, and what a request
has loaded can be made stale by one other request as well as by many. Two ids let
one reference be missing and two users differ; one day and one hour suffice
because no guard of the service reads them except the equality of
`listarPorFecha`. Two calls of a browser are enough for the same reason: what a call
captured can be made stale by another one, and its end changes only the local
collection and the screen. Several browsers meet only in the registry, where one
slot is like another. Two tabs of dbSimulada are enough as well: the copy of a call is
made stale by one other tab. The seven calls are a creation in the empty and in the
seeded collection, a change and a deletion of the seeded record (which may be gone), a
read of each kind and the reset.
Several tabs of the legacy client are left to `Separacion`, which holds for any
number; a booking that one of them confirmed may be lost (RF-17 below).

* `ReferenciasConocidas`: a stored cita names rows that existed at some time. (Not
  rows that exist now: the catalogues may delete them, and the code means the
  fallback texts for that.)
* `ErrorSinEfecto`: no failure after `save` becomes an error answer.
* `OkTuvoEfecto`: a 200 to a change of state is true at some instant of the
  request, also when `save` found nothing to write.
* `EscrituraAutorizada`: a row changes only in its state and by a request that may
  change the row as it is at that moment. It holds although the check is made on
  an old copy because owner and barber of a cita never change.
* `ImplementaRegistro`: refinement of `RegistroCitas` under the mapping at the end
  of `Agendamiento`; a read takes effect when its query runs, a write at its
  `save`.
* `RespondeSiNadieCuelga`: the only fairness is weak fairness of each request's
  own steps, which is that the JVM keeps running its threads. Nothing is assumed
  of the catalogues: the property is conditional on none being hung for ever.
* `SinResurreccion`: a PUT that loaded a row before its DELETE does not bring it
  back, and no id is given twice.
* `ImplementaTabla`: refinement of `TablaAtomica`. A PUT takes effect at its `save`
  unless its body is what it loaded: then nothing is written and it took effect
  when it loaded the row. Three requests let a PUT lose its row to a DELETE while
  a third one reads.
* `PagoDeCitaExistente`: it needs that citas are never removed and that null is
  never taken for a cita, over two services that may be killed at any step.
* `ImplementaPagos`: refinement of `RegistroPagos`: the cita of a payment exists at
  the instant of its `save`, not only when it was asked for; an error changed
  nothing; a list is of one instant.
* `RespondeSiAgendaResponde`: weak fairness of the threads of pagos, nothing of
  agendamiento: that its calls are answered is the premise (what
  `RespondeSiNadieCuelga` gives for the real service).
* `IdsUnicos`: no document has two records with one id. It holds with several tabs
  because a tab stores the whole of what it read: documents are replaced, never
  mixed. (For the same reason a record that another tab stored may be lost.)
* `AtomicaSinCruce`: the exact strength of a read, change and write without a lock. A
  call under which no other tab stores is one operation of `AlmacenAtomico`: it takes
  effect at its `setItem`, or never if that throws, and its answer is the same either
  way. Only the end of a call that another tab has crossed may be anything else, and
  then it may undo what that tab stored. `ImplementaAlmacen` is the plain refinement,
  which holds with one tab and is a theorem only.
* `ChoqueSoloConCruce`: the exact strength of the wizard's check. Two active citas
  of a browser share barber, day and hour only if the later one was confirmed while
  another booking was pending, or met one or a reset before it ended, or if the
  earlier one was brought back from CANCELADA by the panel, which checks nothing. A
  booking that ended while the later one was still being chosen is no excuse: its end
  takes the user out of that wizard.
* `ExitoVerdadero`, `CopiaAlDia`: what `App` shows is what is kept, although calls
  end in any order and after their pages are gone.
* `RespaldoFiel`: what a booking took from the body of its answer is the row that
  its own POST created, also when another call had left the slot before.
* `UnaCitaPorConfirmacion`, `UnaFilaPorAlta`: nothing is sent twice. After a timeout
  the service may still create the row, which then exists on both sides.
* `TodaLlamadaTermina`: weak fairness of the two `setTimeout` of a booking (the
  700 ms timer and the abort). Nothing is assumed of the network, the service or
  the user; the premise is that no body stays half read, because the abort timer
  is cleared with the headers.
* `ImplementaLocal`: refinement of `CatalogoLocal`: each request changes the shown
  collection exactly once, and a late answer never changes it again.
* `Separadas`, `ConfirmadaGuardada`: the check of a submit and the store of its list
  have no await in between that another submit of its tab could use. A write that is
  refused costs its own booking, which the page confirms all the same, and no other.

Each property of the passing runs comes with a mutant of the code (the
definitions whose comment starts with "Mutant"), which breaks it under the same
configuration.

### Where code and documents disagree

Two disagreements are runs:

* `cancelacion`: ERS_v2 RF-15 lets a client cancel a PENDIENTE or CONFIRMADA cita,
  but `cambiarEstado` goes through `guardarCita`, whose lookups fail once the
  service of the cita has been deleted, and the answer is 500.
* `doble_reserva`: ERS_v2 RF-09 forbids to choose an hour that is taken. The hour is
  checked when step 3 is left. The button is free again before `agendar` starts,
  so a second wizard can pass step 3 while the first booking is in flight, and
  both are stored as CONFIRMADA.

Others are behaviours of the models that no run singles out:

* `crear` of dbSimulada replaces the id that the service gave
  (`api.js:95` says that it synchronises), and later changes use the local id on
  both sides, so a cancellation may reach another cita of the backend (RF-15). In the
  model `Cancelar` and `CambiarEstado` ask the backend with the local id; no property
  is stated of it, for none that holds would say what the documents say.
* `agendar`, `cambiarEstado` and the writes of the panel take the fallback also
  when a service that runs refuses (RF-18 gives it for services that do not run).
* An accepted PUT merges the answer of the service, not the form, into the local
  record: the fields that the entity lacks keep their old values (`api.js:112`).
* `fetchConTimeout` does not limit the body of an answer (`api.js:32`).
* A client who has just registered has no id (`App.jsx:328`): two of them share
  their citas in "Mis Citas".
* `CIT-XXXX` is drawn among 9000 numbers and compared with none (RF-12).
* Two tabs that write at once keep only what the later one stored (RF-17;
  `barberiaApi.js:112` for the legacy client).
* The legacy client refuses a difference of exactly 40 minutes, and hours of
  cancelled citas (`barberiaApi.js:107` words it otherwise).

## 4. Proofs

For every number of requests, every set of ids, every set of requests and every
initial catalogue, from the assumptions `CitasAssumption` and `EntornoAssumption`
(the sets are what their names say; `Nulo` is not an id nor an answer):

* `TypeCorrect`: `Spec => []TypeOK`. `TypeOK` is not inductive: the entity of a
  request may be null. `Coherente` adds what each phase knows: a request that is
  not free has a `sol`, and one in `validar` or `guardar` an entity without nulls.
* `ReferenciasSeguras`: `Spec => []ReferenciasConocidas`. The inductive part is
  `ReferenciasVerificadas`: present rows were assigned, and the references passed
  so far (all of them in `guardar`) were assigned. A row that disappears leaves
  its id in `usados`, which only grows.
* `ErroresSinEfecto`: `Spec => []ErrorSinEfecto`, through
  `EfectoSoloTrasGuardar` (a request that wrote is past `save` and answers 200 or
  is lost) and `SinRespuestaAun`.
* `EscriturasAutorizadas`: `Spec => EscrituraAutorizada`, through `CopiaFiel`: what
  a thread loaded by id differs from its row at most in the state, because every
  write is of an entity of which the same is true, and the entity on its way to
  `save` is the one the headers allowed. The check on the old copy is therefore
  a check on the row.
* `OkConEfecto`: `Spec => []OkTuvoEfecto`, through `VistoCompleto`: the observer
  has the present state of the row, the one the request loaded and, past `save`,
  the one it asked for. When `save` skips the write, the requested state is the
  loaded one.

* `RegistroImplementado`: `Spec => ImplementaRegistro`. `Implementable` adds to
  `CopiaFiel`, `SinRespuestaAun` and `ReferenciasVerificadas` what makes the mapping
  exact: nothing is loaded before the query of a request (`SinLeerAun`), a read by
  id holds one row (`UnaLeida`), and the entity on its way to `save` is the one its
  body asked for (`EntidadPedida`). There is one lemma per action: which step of
  `RegistroCitas` it is, or that it is none. `save` is `Agendar` or `CambiarEstado`
  (which leaves the row alone when `save` found nothing to write), a query is
  `Leer`, what ends a request is `Contestar` with its status, a kill is `Perder`,
  and the calls to the catalogues are stutters. `RegistroCitas` is what `Pagos` and
  `Reserva` are composed with.

`AgendamientoProofs` first proves the control skeleton `CambioDe` of one
request (what any step of the system may do to it), so each invariant is proved
over six kinds of change and not over sixteen actions.

`RecursoCrudProofs`, for any number of requests and any contents, from
`RecursosAssumption` and `LimitesAssumption`:

* `TypeCorrect`: `Spec => []TypeOK`, with `Coherente` (a request that loaded a row
  holds it, and only PUTs and DELETEs do). Each action is first shown to replace
  one record by a correct one (`PasaA`).
* `BajasDefinitivas`: `Spec => SinResurreccion`, from what a step may do to the
  table (`CambioDeTabla`): append, or change a row that is there.
* `TablaImplementada`: `Spec => ImplementaTabla`, one lemma per action: which step
  of `TablaAtomica` it is, or that it is none. `Buscar` is a step of the table
  when the PUT has nothing to change or the row is missing; `Actualizar` is a
  stutter in the first case.

`PagosProofs`, for any number of threads, of other clients of agendamiento and of
requests, from `CitasAssumption`, `DatosPagosAssumption` and `PagosAssumption`:

* `TypeCorrect`: `Spec => []TypeOK`, and
* `PagosDeCitasExistentes`: `Spec => []PagoDeCitaExistente`.

Neither is inductive: `save` may insert whatever the thread holds. `Inductivo`
adds `AgendaCorrecta` (the records of the registry are whole) and `Informado`, what
a thread knows: in `validar`, its slot of the registry is free or holds its
question, and a yes means that the cita exists; in `guardar`, it exists. What was
learnt stays true because citas are only added. `AgendaSegura` shows that no step
of `RegistroCitas`, of any client, turns a question into anything else, and a
kill of pagos leaves a question that is answered to nobody (`Descartar`) before a
new thread has that slot.

* `PagosImplementados`: `Spec => ImplementaPagos`. To `Inductivo` it adds `Fieles`:
  what a thread holds is what its request asks of the payments as they are (of a
  row, others change only the state, which this thread replaces). `Buscar` is the
  step of the abstract registry when there is nothing to change, `save` is that
  step otherwise, and whatever goes on in agendamiento, the questions of pagos
  included, only adds citas (`OtrasCitas`).

* `PagosClienteDeAgenda`: `Spec` implies the specification of `RegistroCitas`: pagos, its
  kills and the other clients do nothing that the registry does not admit. With
  `RegistroImplementado`, what is proved of payments holds over the real service.

`ReservaProofs`, for any number of browsers, users, choices, calls in flight and
clicks, from `DatosReservaAssumption`, `CitasInicialesAssumption` (the seed of
dbSimulada is finite, takes no hour twice and names no cita of the backend) and
`ReservaAssumption`. One lemma per action says what it does to the slots, to the
screens and to the local citas (`Efecto`), and the invariants are proved over those
effects:

* `TiposReserva`, `CopiaSiempreAlDia`, `ExitosVerdaderos`. `TypeOK` is not inductive: a
  booking that ends needs a cita, a change of state a state, a timer that will free
  the button of a wizard that wizard, and `crear` a next id. `Tipos` adds that each
  kind of call holds what its end needs, that collections are finite, and that the
  cita of the success screen is stored.
* `ChoquesSoloConCruce`: `Spec => []ChoqueSoloConCruce`. `SinCruces` adds what links the
  check to the store three events later: an hour that a wizard has checked stays
  free in the stored citas while the wizard is open (`HorasRevisadas`: the end of any
  booking of that browser closes the wizard), and stays free until a clean booking
  ends, which is the only one of its browser in flight (`ReservasLimpias`).
* `RespaldosFieles`: `Spec => []RespaldoFiel`. `Fieles` adds that the question in a slot
  of the registry is the one its call asked, also after an earlier call left the
  slot to be discarded (`Ranuras`), and that the ids in the answers in flight differ
  from one another and from those already taken (`Unicas`).
* `UnaCita`: `Spec => []UnaCitaPorConfirmacion`. `Cuentas` counts on both sides: rows and
  creations that may still arrive, and new local citas and bookings in flight, are
  each no more than the clicks. It needs `Ranuras`: a POST is served once because
  its slot is the one of the call that sent it.
* `ClienteDelRegistro`: `Spec` implies the specification of `RegistroCitas` for requests
  of any form: whatever the browsers, the network and the aborts do, the service sees
  clients that ask once and wait.

`DbSimuladaProofs`, for any number of tabs, collections and calls, any initial
document and any failing write:

* `TiposDb` and `IdsSiempreUnicos`. Neither is inductive: a tab may store any copy.
  `DocumentoBien` (collections of whole records with distinct ids, bounded by
  `TopeId`) is asked of what is stored and of the copy of every tab.
  `ColeccionProofs` gives the next id: a finite, bounded set of ids has a largest
  one, and the next is above it.
* `AtomicaSiNoSeCruza`: `Spec => AtomicaSinCruce`. `InvPestana` adds `AlDia`: between
  its two steps, the copy of a tab that is not in `cruzadas` is the stored document
  with this call's change, and its answer the one that an atomic store gives. Another
  tab makes that false only by storing, which puts every tab in a call in `cruzadas`
  (`LasDemas`).
* `UnaPestanaEsAlmacen`: `Spec => ImplementaAlmacen` when there is one tab: `cruzadas`
  stays empty, so every step is one of the atomic store. This is what `Reserva` and
  `Catalogo` assume of dbSimulada.

`CatalogoProofs`, for any number of calls, rows and fields, over `TablaAtomica`:

* `TiposCatalogo`, `CopiaSiempreAlDia`, with `Bien` (ids that are bounded and
  distinct, so that there is always a next one) of the collection;
* `UnaFilaSiempre`: `Spec => []UnaFilaPorAlta`. Rows and creations that the service
  has received and not served, together, are at most the seed plus the clicks
  (`InvAltas`): a request is received once, and serving it moves it from one term
  to the other;
* `CatalogoImplementaLocal`: `Spec => ImplementaLocal`: the end of a call, in
  whichever of its four ways, is one `Aplicar`, and what the service does is a
  stutter;
* `PanelDelServicio`: every step of the panel is a step of `TablaAtomica` or leaves the
  service alone (only the steps: this table starts with the rows of the seed).

`ReservaLegadoProofs`, for any number of tabs and submits:

* `TiposLegado`, `Separacion`: the list that a submit is about to store is separated
  as well (`ListasSeparadas`), for it was checked against all that it holds. No
  assumption on the tabs or the storage: a stale list that overwrites another one
  is separated too.
* `ConfirmadaNoSePierde`: with one tab. The list about to be stored contains the stored
  one (`ListasAlDia`), because `Turno` lets no other submit of the tab store in
  between; a refused write leaves the stored one as it was.

`ImplementaLocal`, `ImplementaTabla` and the other refinements are of safety only.

Only model-checked: liveness (`RespondeSiNadieCuelga`, `RespondeSiAgendaResponde`,
`TodaLlamadaTermina`), which rests on fairness and ENABLED, out of the prover's reach;
and the two disagreements, which are counterexamples. Every other property of every
run is a theorem.

## 5. Not modelled, and the plan

Not modelled for good: rendering, forms and styles; the gateway (stateless
routing); the vendored Maven and MariaDB, by far the largest part of the
repository, whose headers no code of the system includes; SQL seeds beyond the
initial catalogue rows; the list functions of `api.js`, which no page calls, and
its connectivity flag, which no call reads; a second click on the button of the
legacy form is a second submit, which `ReservaLegado` has.

Left for later:

1. `Cuentas`: what clientes and barberos add to CRUD: login by correo and password
   (which fails when two accounts share both), ficha one-to-one, and the
   especialidad lookup of barberos, which expects an object where the panel sends
   a text.
2. The panel and the wizard over one dbSimulada with several tabs: `Reserva` and
   `Catalogo` take its functions as atomic.
3. Theorems: that `Reserva`, `Catalogo` and `Pagos` over the detailed modules, as one
   specification each, satisfy what is proved of them over the abstract ones. Today
   that follows from two theorems read together.
