# Master of Files: specification and proofs

TLA+ modules, model-checking runs and machine-checked proofs for the distributed
query system of this repository: a **Master** that schedules queries, **Workers** that
interpret them, a **Storage** that keeps the files, and one **Query Control** per query.
Names follow the C source (`cola_queries`, `query_en_worker`, `sem_queries`, ...).

## 1. The system

```
Query Control --QUERY_REQUEST--> Master --WORKER_ASSIGN_QUERY--> Worker --STORAGE_*--> Storage
      ^                            |  ^                             |
      |---QUERY_RESPONSE_*---------|  |--READ/END/ERROR/PC_UPDATE---|     (dispatch connection)
                                   |------DESALOJO/DESCONECTADO---->|     (interruption connection)
```

| component | source | state | operations | hard part |
|---|---|---|---|---|
| Master | `master/src/master.c` | `cola_queries`, `query_en_worker`, `lista_workers`, `cantidadWorkers`, `sem_queries`, a `t_query` per query, a `t_worker` per Worker | arrival, aging, preemption, assignment, the cases of `atender_Worker`, two kinds of disconnection | three threads per query and two per Worker share lists under five mutexes; a query moves between lists in two critical sections; fields are read without a lock |
| Worker, interpreter | `worker/src/worker.c`, `query_interpreter.c` | the Pcb, the pc of the interpreter, the file position, `hay_interrupcion`, `query_desconectado`, `error_storage` | receive an assignment, fetch, decode, execute, look at the interruption; the interruption thread | flags that outlive the query they were raised for |
| Packets | `utils/src/paquete.c`, `conexion.c` | unread packets | `enviar_paquete`, `recibir_paquete` | a peer that is gone: lost packets, NULL, SIGPIPE |
| Worker memory | `worker/src/memoria.c` | page tables, frames, `lru_list`, CLOCK-M bits | find, load, evict, write back, flush | write-back against Storage, stale pages |
| Storage, files | `storage/src/operaciones.c` | blocks, hard links, bitmap, metadata, hash index | create, truncate, tag, read, write, flush, commit, delete | copy on write and deduplication through link counts, several steps that may fail in the middle |
| Storage, locks | `operaciones.c`, `servidorMultihilo.c` | `dict_locks_files`, `mutex_bitmap` | one thread per Worker | life cycle of a mutex that is destroyed while others may wait for it |
| Query Control | `query_control/src/query_control.c` | one connection | ask, log answers, end | may be closed at any time |

What makes each one correct:

* **Master.** A query is in one place; as many wake-ups as waiting queries; a Worker has
  one query; one final answer per Query Control; it survives; every query is answered.
* **Interpreter.** However a query is interrupted, each of its lines runs once, in order;
  END means that all of them did; nothing runs after the final answer.
* **Packets.** Order within a connection and none between connections.
* **Memory.** What a query reads is what was last written, whatever was evicted between; page
  tables, frames and the bits and lists of the replacement agree.
* **Storage.** A request takes effect at once or not at all, on its own file:tag only, although
  file:tags share blocks; a linked block is not free in the bitmap; BLOCKS names what is linked;
  two operations on one file:tag exclude each other and none waits forever.

## 2. Modules

| module | what it is |
|---|---|
| `Red` | the two connections of each Worker with the Master, as queues of packets |
| `Planificador` | the Master: every thread, one action per critical section or visible access |
| `Interprete` | a Worker: its two threads, Storage reduced to its possible answers |
| `Despacho` | both joined: `Spec`, the fairness, and every property of the scheduling |
| `CicloQuery` | abstract: the life of a query, from its arrival to its one answer |
| `DespachoCiclo` | the refinement mapping from `Despacho` to `CicloQuery` |
| `DespachoTurnos` | proofs: the types of `Despacho`, where a query is, who has it, the order of its lines, its one answer |
| `DespachoEnPie` | proofs: the watchers, the count of `sem_queries`, the Master survives, `Despacho` implements `CicloQuery` |
| `MemoriaPrueba` | proofs: page tables, frames, and the order of LRU |
| `BloquesPrueba` | proofs: types of `Bloques`, the exclusion of the file:tags, block 0; where nothing is deleted, BLOCKS is faithful |
| `BloquesOcupados` | proofs: a linked block is marked used, where TAG is kept apart from what frees blocks |
| `BloquesArchivos` | proofs: what a thread writes in, and the hashes, in the same behaviours with one page per FLUSH |
| `BloquesVista` | proofs: `Bloques` implements `ArchivosFS` in those behaviours |
| `CandadosPrueba` | proofs: types, the dictionary, and mutual exclusion |
| `Memoria` | the pages of each Worker and the instructions that go through them |
| `MemoriaPlana` | abstract: file:tags as flat sequences of bytes |
| `Bloques` | the file system of Storage: blocks, hard links, bitmap, metadata, hashes, threads |
| `ArchivosFS` | abstract: file:tags as sequences of contents, each request atomic |
| `Candados` | the mutexes of the file:tags, created and destroyed |
| `MCDespacho`, `MCMemoria`, `MCBloques`, `MCCandados` | values of the constants for TLC |

```
CicloQuery <== DespachoCiclo -- Despacho -- Planificador, Interprete -- Red
MemoriaPlana <== Memoria -- ArchivosFS <== Bloques        Candados (the locks of Bloques)
```

`<==` is "is implemented by". `Planificador` and `Interprete` both extend `Red` and share nothing
else; `Despacho` is their interleaving: a step of one leaves the variables of the other unchanged.
`Memoria` has the Storage that `ArchivosFS` promises (it instantiates its operators), and
`Bloques` is shown to keep that promise, so the two compose; where `Bloques` does not
keep it, section 3 says so. Each module of proofs extends the one before it:

```
Despacho -- DespachoTurnos -- DespachoEnPie
Bloques -- BloquesPrueba -- BloquesOcupados -- BloquesArchivos -- BloquesVista
Memoria -- MemoriaPrueba      Candados -- CandadosPrueba
```

### How state and actions correspond to the code

`hilo[t][q]` is the program counter of a thread of query `q`: `"alta"` is `atender_Query`,
`"timer"` is `atender_timer_query`, `"vigia"` is `atender_desconexion_query`. `hiloWorker[w]`
is the thread in `atender_Worker` / `comenzar_a_ejecutar` (their mutual recursion is a loop)
and `enMano[w]` its local `query`; `vigiaWorker[w]` is `atender_desconexion_worker`. `info[q]`
holds the fields of the `t_query`; `estado` is `"BASURA"` until it is assigned, because the
watcher starts before (master.c:235-239). `finales[q]` and `hechas[q]` are history: the
final answers a Query Control received and the lines of a query that were executed.

An action ends where another thread can see the difference: at an unlock, at a semaphore
operation, at a send, or at an unlocked access of a field that another thread uses. So
`Encolar` and `Publicar` are two actions, `RecibirPC`, `Reencolar` and `PublicarDesalojada`
three. Two accesses are merged only where nobody can tell: removing a query from
`query_en_worker` with the assignment of its `estado`, registering it with sending it (the
answer cannot come before), `sem_post` of `timer_query` with the one of `sem_queries`.

The twelve `WORKER_ERROR_*` cases of `atender_Worker` have the same control and differ in
wording and in whether they close the socket of the Query Control (630, 680, 730, 855): they
are one action with that choice.

Deaths of the Master are the action `Caer`: a NULL `t_worker` in `realizar_desalojo`, a NULL
`t_query` in READ_RESULT or QUERY_DESCONECTADO, SIGPIPE from a second send to a Query Control
that left or to a Worker that died and whose sockets its watcher has not closed (the packet may
also be lost, while the reset is on its way), a join on a timer thread that was never created, or
a `t_query` used after `free`. The last two are undefined behaviour: the other actions stay
enabled, so that both outcomes are explored. The unassigned `fin` of `decode` and the unassigned
name freed after a missing file are choices of the same kind.

A watcher looks at its Query Control at any time after the arrival. In `VigiasLentas` are the
queries whose watcher may do so after the final answer, when the Query Control has closed by
itself (`TerminarQC`); those of `QCsQueSeVan` close before (`IrseQC`).

In `Bloques`, `pc[h]` is the point at which the thread of a Worker is inside an operation of
`operaciones.c`; a step ends at each access to the bitmap, to the links or the content of a block,
to the index of hashes, and at each save of a file. `nodo[b]` is the inode that
`physical_blocks/block<b>.dat` names, `logico[f][p]` the one that a logical block links, so
that `Enlaces` is `st_nlink`, physical name included; `fopen "wb"` on a name that is gone makes an
inode. `bitmap` is the one in memory, `bitmapDisco` the file; `Caer` is a crash and a restart
with FRESH_START=FALSE. In `Candados`, `dict` is `dict_locks_files`, `a` and `b` the pointers an
operation looked up and has not released yet, and malloc may return an address that was freed.
In `Memoria`, `tablas`, `marcos`, `arena`, `lru_list`, `bitR`, `bitM` and `puntero` are those of
`memoria.c`, per Worker, each with its own number of frames and algorithm; `Desalojar` is
`aplicar_lru` or `aplicar_clock_m` with its flush. `usos` and `borrado` are history.

### Abstractions

* A query is its id; its path is the constant `Programa`, `SinArchivo` says which files
  cannot be opened. Comments and blank lines of a file, which `fetch` skips, do not count.
* Storage is what an instruction reports: nothing, a READ_RESULT, or an error when
  `PuedeFallar`. COMMIT may report two errors because it goes on after a rejected flush.
* Each Worker connects once and each Query Control asks once. Descriptors are not reused; a
  garbage descriptor is no connection. The loss of the connection with Storage is not
  told from success, as in `rtas_storage`.
* `chequeador_desalojo` takes the priority as an argument; the model reads it at the check.
* Instructions whose parameters are incomplete beyond the first blank, and CREATE without
  any, make the Worker dereference NULL: not modelled.
* A Worker that dies with an interruption unread resets that connection, and the `recv` of its
  watcher fails instead of returning 0: the thread ends unnoticed. That is a watcher that never
  takes its next step, and no fairness excludes it where it matters: the one run with deaths and
  fair watchers, `caida_callada`, is FIFO, and no interruption is sent there.
* A Query Control outside `QCsQueSeVan` and `VigiasLentas` keeps its connection open.
* A freed `t_query` that is only read to be logged is not told from one that was not freed.
* The Master is not restarted and keeps nothing on disk, so there is no recovery of it.
* `Bloques`: sizes are whole blocks (a TRUNCATE that is not is refused before it changes
  anything). `Vacio` stands for NULs and for a file of no bytes. A page is one value: a write
  replaces it all, as the Worker sends it. BLOCKS and the index of hashes are saved in one step at the
  end of the deduplication, which holds the mutex of both. `persistir_bitmap` is one step although
  `fopen "wb"` truncates first. WRITE_BLOCK is served by Storage and sent by no Worker of this
  repository; it is modelled as the others. A Worker leaves only between operations.
* `Bloques` takes the mutex of a file:tag to exclude, and TAG to take its two at once;
  `Candados` shows when the first is true, and models the order of the second. The count of
  Workers in Storage is only logged.
* `Candados`: an operation that stops early behaves as `UNO`; locking a mutex that was freed may
  succeed without excluding anybody, or block.
* `Memoria`: a request to Storage and its answer are one step, because the thread of the Worker
  waits for it and nothing of its memory moves meanwhile; the order of the pages in one FLUSH is
  not observable. Storage is never out of space there. The first loop of `aplicar_clock_m`, for a free
  frame, never finds one, since it is called with none. A Worker has at least one frame. A
  Worker that dies takes its memory with it, unmodelled: what it did not flush is lost. Addresses and
  sizes that `atoi` reads as negative numbers are left out.
* `Bloques`: the inodes are numbered up to `NNodos`; `Copiar` does not take one more than that.
* The alphabet: page contents, bytes and file:tags are model values.

## 3. Runs

`CHECK_DEADLOCK FALSE` in `Despacho` because a server with nothing left to do waits forever,
which is where every behaviour ends: every query arrives once, and there is no other bound. In
`Bloques` and `Candados` it is because `MaxPedidos` bounds the requests. `Memoria` runs with no
bound but the sizes: its behaviours go on forever and deadlock is checked.

| run | instance | properties | distinct states |
|---|---|---|---|
| `fifo` | FIFO, 3 queries, 2 Workers, fair; one late watcher | `TypeOK` `NuncaCae` `TokensConservados` `TodaQueryTermina` | 112 thousand |
| `prioridades` | PRIORIDADES, 2 urgent queries and one that is not, 2 Workers | `UnSoloLugar` `TokensConservados` `AsignacionExclusiva` `NuncaCae` `InstruccionesEnOrden` | 880 thousand |
| `errores` | rejected and incomplete instructions, a missing file; 3 queries, 1 Worker | `RespuestaUnica` `NadaTrasElFinal` | 1.6 million |
| `caidas` | 2 queries, both of 2 Workers may die | `TokensConservados` `InstruccionesEnOrden` | 1.8 million |
| `desconexiones` | 2 queries, 1 leaves, the Worker may die | `UnSoloLugar` `InstruccionesEnOrden` | 2.1 million |
| `aging_termina` | PRIORIDADES with aging, 2 queries, fair | `ExitoCompleto` `TodaQueryTermina` `ImplementaCicloJusto` | 6 thousand |
| `bloques_sanas` | 2 threads, 3 file:tags of up to 2 pages, 4 blocks, 4 requests of one of 3 mixes | `TypeOK` `EnlazadoOcupado` `MetadataFiel` `ImplementaArchivos` | 736 thousand |
| `bloques_cero` | every operation, or every one but DELETE, also on initial_file:BASE, 3 blocks, 4 requests, 1 crash | `BloqueCeroPresente` `BloqueCeroIntacto` | 2.0 million |
| `candados_turnos` | 3 threads, 3 requests: TAG between 3 file:tags, or everything on 2; fair | `TypeOK` `ExclusionHastaBorrar` `DiccionarioVivo` `TodosTerminan` | 372 thousand |
| `memoria_reemplazo` | LRU with 2 frames and CLOCK-M with 3, pages of 2 bytes, one of 3 mixes | `TypeOK` `QuedanLasUltimas` `MarcosConsistentes` `BitsFieles` `ImplementaPlana` | 680 thousand |

What each shows:

* `fifo`: a query that waits is never without a Worker thread coming for it, and a watcher that
  looks late takes no token, list entry or answer of others.
* `prioridades`: preemption neither duplicates nor loses a query or a wake-up, never gives a Worker
  two, resumes each query exactly where it stopped, and does not kill the Master.
* `errores`: one final answer, nothing executed after it. `caidas`: the thread of a dead Worker
  returns its token; no line runs twice. `desconexiones`: the watcher of a query races each of
  its moves.
* `aging_termina`: seen from outside the Master, all that happens to a query is one step of its life
  in `CicloQuery` or none, and the fair threads of the Master and the Worker give each step of that
  life its fairness (`ImplementaCicloJusto`).
* `bloques_sanas`: copy on write, deduplication and the sharing of blocks by TAG do not show.
  An operation in progress is seen before or after its effect (`EstadoVisto`, `PaginaVista`...).
* `bloques_cero`: block 0, which every new page links, is never lost, even in the cases in which
  other blocks are (below), and nothing is written in it where nothing is deleted.
* `candados_turnos`: `strcmp` orders the two mutexes of TAG, so no cycle of waits forms.
* `memoria_reemplazo`: eviction in the middle of an instruction, write-back and reload are
  invisible to a query that stays in its Worker.

**Bounds.** A preemption needs a victim, a rival and a Worker; two preemptions of one query need a
third; a query that migrates needs a second Worker. Four requests are enough to fill the four
blocks, to free one and take it again under another name, to commit two equal contents from two
threads, and to write both sides of a TAG. Three frames are the fewest in which CLOCK-M tells its
three searches apart with the pointer in the middle; two file:tags of two pages do not fit in
them. A cycle of waits of any length shows with three TAGs.
A variable `mezcla`, which never changes, picks the kind of requests of a behaviour: a run
of several mixes is several runs in one. Mixes are kept apart where one operation breaks
what another relies on, as the table of disagreements says.

**Symmetry** permutes the Workers, the queries that priority and program do not tell apart,
threads, or file:tags, in runs without liveness where nothing distinguishes them.

### Disagreements

Two runs show the code against what its comments or tests say:

| run | property | what happens |
|---|---|---|
| `caida_callada` | `CaidaAvisada` | a death seen between the check (`master.c:1279`) and the registration (1304) of an assignment is told to nobody |
| `memoria_desalojo` | `DesalojoGuarda` | a query that is preempted flushes nothing, against the comment of `query_interpreter.c:705`, and is resumed in another Worker without what it wrote |

`Despacho_vida` is a further instance, outside the regular runs, in which the fairness of
`CicloQuery` fails but `ImplementaCiclo`, which leaves it out, holds: 2 queries with rejected and
unknown instructions on 2 Workers, 219 thousand states. The second error of a COMMIT ends a thread
of the Master; what still happens to a query is a step of its life. It is answered once, runs
nothing afterwards, and resumes on either Worker where it was put back.

Each of the following configurations is a further instance, outside the regular runs, in which TLC
finds the property violated by what the code does:

| configuration | property | what happens |
|---|---|---|
| `Despacho_sin_archivo` | `TodaQueryTermina` | `WORKER_ERROR_QUERY_NO_ENCONTRADA` has no case in the Master, although `protocolo.h:22` names its answer: the Query Control waits forever and the Worker is lost |
| `Despacho_incompleta` | `ExitoCompleto` | `fin` unassigned: a malformed line may be announced as a successful end |
| `Despacho_interrupcion_vieja` | `SoloSeVaLaDesconectada` | the packet QUERY_DESCONECTADO names no query and drops whichever runs when it is read |
| `Despacho_doble_error` | `TodaQueryTermina` | the second error of a COMMIT ends the thread of a Worker that is alive |
| `Bloques_dedup_tag` | `EnlazadoOcupado` | the deduplication of a COMMIT frees a block that a TAG still links (`operaciones.c:1311`) |
| `Bloques_hash_viejo` | `CommitConserva` | the index of hashes still names a block deleted and reused: COMMIT links a page to another content (1260) |
| `Bloques_flush_parcial` | `CommitConserva` | a FLUSH of two pages that fails in one leaves BLOCKS as before for the other, and COMMIT deduplicates by it (1842) |
| `Bloques_caida` | `CommitedEstable` | after a crash before the bitmap is saved, the block of a COMMITED page is given to another file:tag (1908) |
| `Bloques_copia` | `CopiaSiCompartido` | `st_nlink` counts the physical name, so a page nobody shares is copied all the same (1704, 934) and the old block stays used |
| `Bloques_truncar_tag` | `EnlazadoOcupado` | two TRUNCATEs of file:tags that share a block both see the last link; the second clears the bit after the block was given out again (347) |
| `Bloques_delete_dedup` | `MetadataFiel` | DELETE removes a block that a COMMIT linked after DELETE looked at its links (2015) |
| `Bloques_cero_escrito` | `CeroSinEscribir` | a COMMIT moves the link of a page from block 0 to another block, a DELETE removes the physical name of that one (2017), and Storage stops before BLOCKS is saved: the page is the only link of its inode, so a FLUSH writes it in place (1704), in block 0, which BLOCKS still names |
| `Candados_tag_mismo` | `TodosTerminan` | TAG onto itself locks one mutex twice (456) |
| `Candados_delete` | `Exclusion` | a mutex is destroyed while another thread is about to lock it, and a third gets a new one (2117) |
| `Memoria_commited` | `LeeLoCommited` | a WRITE on a COMMITED file:tag is accepted by the memory of the Worker and read back (`query_interpreter.c:604`) |
| `Memoria_achicar` | `LeeDentro` | pages past the end of a shrunk file:tag are still read from memory (`memoria.c:18`) |

What the properties say is next to each in its module. Some do not hold in every instance;
the runs leave out the events that break them, and the hazards in `PROJECT.json` say why:

| property | fails once | because |
|---|---|---|
| `TokensConservados` | a Query Control leaves before its answer | `sem_trywait` takes a token whether or not the query was queued (master.c:468) |
| `AsignacionExclusiva` | Storage rejects an instruction | ERROR and PC_UPDATE of one query send the thread of its Worker to `comenzar_a_ejecutar` twice (master.c:773-800) |
| `RespuestaUnica`, `NadaTrasElFinal` | a Worker dies | the packet already read when the death is seen is handled after WORKER_DESCONECTADO, or between the search of the query and the send of that answer (master.c:147, 160) |
| `NuncaCae` | a Query Control leaves before its answer, a Worker dies, or a watcher is late under PRIORIDADES | SIGPIPE, from a Query Control or a Worker that is gone; the entry that stays in `query_en_worker`; a join on a timer thread that is not there, or a `t_query` freed while another thread posts its semaphore |
| `ImplementaCiclo` | a Query Control leaves before its answer, a Worker dies, or an instruction lacks its parameters | the query is dropped, answered twice, or announced as ended |
| `ImplementaCicloJusto` | any of these, or Storage rejects an instruction, or a file does not exist | a query may never be answered |
| `EnlazadoOcupado`, `MetadataFiel`, `ImplementaArchivos` | DELETE or TAG meets COMMIT, a shared block is freed from two sides, a FLUSH of two pages fails in one, Storage crashes | the configurations above |
| `ExclusionHastaBorrar` says no more once | a DELETE destroyed a mutex | `Candados_delete` |
| `ImplementaPlana` | a query changes Worker, another Worker writes, or the file:tag shrinks or is deleted | no page is invalidated and none is flushed on preemption |

`MemoriaPlana` lets what was written on a COMMITED file:tag be forgotten at any time (`Perder`):
the code accepts such writes and loses them when the page leaves.

### Fairness

`Despacho!SpecJusta` gives weak fairness to each thread of the Master and of the Workers: a thread
whose next step stays enabled takes it, as the system scheduler does, and a mutex or a
`sem_wait` delays it only while it is taken. Weak fairness is enough because a Worker thread that
competes for `sem_queries` may lose, and the property asks only that the query is served by
somebody. Nothing is fair about arriving, leaving, dying, or `Caer`. `Candados!SpecJusta` does the
same for the threads of Storage; no Worker is obliged to send requests. With `MaxPedidos`
requests nobody can be overtaken forever, so `TodosTerminan` is about cycles of waits and not
about the fairness of `pthread_mutex_lock`. `CicloQuery!SpecJusta` is what `Despacho` implements.

## 4. Proofs

Each theorem holds for every value of the constants: no bound on queries, Workers, programs,
priorities, threads, frames, pages, blocks, requests or crashes. The only assumptions are the
ASSUMEs of the modules, which TLC evaluates on every run: types of the constants, and
that NULL (`Ninguna`, `Nulo`, `Nadie`, `Libre`) is none of the values it stands against
(`RedAssumption`, `PlanificadorAssumption`, `InterpreteAssumption`, `MemoriaAssumption`,
`InstruccionesAssumption`, `LibreAssumption`, `BloquesAssumption`, `PedidosAssumption`,
`CandadosAssumption`).

Some theorems have a hypothesis on the behaviour, as `SinCaidas => RespuestaUnica`. It is a formula
on states that once false stays so, and it is there because without it the code does not do
what the property says: the row of section 3 or the run in the last column shows it.

| theorem | says | under | without it |
|---|---|---|---|
| `TipoCorrecto` | `TypeOK` of `Despacho` | | |
| `LugarUnico` | `UnSoloLugar` | | |
| `LineasEnOrden` | `InstruccionesEnOrden` | | |
| `FinVerdadero` | `ExitoCompleto` | no line lacks all its parameters (`SinIncompletas`) | `Despacho_incompleta` |
| `UnaRespuesta` | `RespuestaUnica` | no Worker died (`SinCaidas`) | `ResponderCaida` answers and leaves the query where it is; a packet already read answers again, or has answered since `AvisarCaida` found the query |
| `NadaDespues` | `NadaTrasElFinal` | no Worker dies | that packet may also queue the query again |
| `UnaPorWorker` | `AsignacionExclusiva` | Storage rejects nothing (`~PuedeFallar`) | ERROR and PC_UPDATE of one query free its Worker twice |
| `TokensEnOrden` | `TokensConservados` | no Query Control was seen to leave unanswered, nor any at all if a Worker died (`SalidasSanas`) | `sem_trywait` takes a token whether or not the query was queued |
| `SigueEnPie` | `NuncaCae` | no Worker died, no Query Control left before its answer and, under PRIORIDADES, no watcher saw one leave (`SinBajas`) | each of the three is needed: see `NuncaCae` in the last table of section 3 |
| `CicloCumplido` | `ImplementaCiclo`, the refinement but for the fairness | no Worker dies, no Query Control leaves before its answer (`SinPerdidas`), and `SinIncompletas` | as `UnaRespuesta` and `FinVerdadero`; a query that is dropped as disconnected is not answered |
| `TipoMemoria` | `TypeOK` of `Memoria` | | |
| `MarcosSiempreConsistentes` | `MarcosConsistentes` | | |
| `BitsSiempreFieles` | `BitsFieles` | | |
| `SalenLasMasViejas` | `QuedanLasUltimas` | | |
| `TipoBloques` | `TypeOK` of `Bloques` | | |
| `BloqueCeroNuncaFalta` | `BloqueCeroPresente` | | |
| `BloqueCeroNuncaEscrito` | `BloqueCeroIntacto`, which speaks of behaviours without DELETE | | `Bloques_cero_escrito` |
| `MetadataSiempreFiel` | `MetadataFiel` | no DELETE, one page per FLUSH, no crash yet (`Supuestos`) | `Bloques_delete_dedup`, `Bloques_flush_parcial`, `Bloques_caida` |
| `EnlazadoSiempreOcupado` | `EnlazadoOcupado` | no DELETE, no crash yet, and either no TAG, or neither COMMIT nor a TRUNCATE to fewer than `MaxPaginas` pages (`Apartadas`) | `Bloques_dedup_tag`, `Bloques_truncar_tag`, `Bloques_caida` |
| `ArchivosCumplidos` | `ImplementaArchivos`: `Bloques` implements `ArchivosFS` | `Supuestos` and `Apartadas` (`SinTropiezos`) | `Bloques_hash_viejo`, `Bloques_flush_parcial`, `Bloques_caida`, `Bloques_dedup_tag`, `Bloques_truncar_tag` |
| `TipoCandados` | `TypeOK` of `Candados` | | |
| `DiccionarioSano` | `DiccionarioVivo` | | |
| `ExclusionMutua` | `ExclusionHastaBorrar`, which speaks until the first DELETE | | `Candados_delete` |

### The scheduling

* **`TypeOK`** is inductive, thanks to the two conjuncts that relate a program counter with a local
  variable: a thread between taking a query and giving it away holds one, and a Worker in its
  cycle has one. `Marco` and the lemmas on `Avanza`, `Sigue`, `Responder` and
  `EnviarInterrupcion` carry what the actions share.
* **`UnSoloLugar`** is inductive with `TypeOK`. The two lists alone are not: `Reencolar` would need
  to know that the query it adds is in neither, so it speaks also of the query in the hands of
  each Worker thread, and of those not queued yet. `CadaUnaEnUnLugar` restates it query by query.
* **`InvOrden`** follows a query after the Master gives it away (`Turno`): its assignment is in a
  connection, or an interpreter is at it, or the answer that closes it is on its way back; at
  most one of these, and none while it waits. Wherever it is, the pc that goes with it is the
  number of its lines that were executed (`EnSuLinea`). The delicate part is `Ordenadas`: a COMMIT
  may send two ERRORs, and a preemption may add a PC_UPDATE of the query that was rejected, so the
  packets of a query are not one; but nothing follows PC_UPDATE. `FinFiel` adds that QUERY_END is
  only sent when no line is left, and `InvFinal` that an answered query is in nobody's hands,
  which is why a second answer is discarded: `query_en_worker` no longer has it.
* **`Exclusiva`** is the same without rejections: who is at a query, or closed it, is the Worker
  that `info[q].worker` names, and the thread of that Worker does not take another while it has it.
* **`InvTokens`** counts. Each action that moves a query or a thread between the terms of
  `TokensConservados` changes two of them by one; the cardinalities are finite because the
  sets grow by one element at a time. The balance is broken only by the watcher, so
  `InvVigias` says that one past its `recv` saw its Query Control gone, and `InvExit` that an
  answered query stays in EXIT while no Worker dies, so that the watcher of an answered query finds
  neither RUNNING nor READY and takes nothing.
* **`InvEnPie`** says why each look-up of the Master finds what it looks for. Whoever is being
  served, or is named by an assigned query, is in `lista_workers` (`Listados`), because only a
  death takes a Worker out of it. Whoever is going to interrupt holds the query of such a Worker,
  and only under PRIORIDADES (`Apuntan`). Nobody is told QUERY_DESCONECTADO and no interruption is
  sent because of a departure (`Callada`, `SinInterrumpir`). Two parts need no hypothesis:
  `InvLecturas`, that a READ_RESULT precedes in its connection whatever closes its query, which
  stays assigned meanwhile; and `InvLibre`, that a thread holds no `t_query` outside the moves between
  the lists. An answered query is in nobody's hands (`InvFinal`), so nothing is sent to
  a Query Control that closed nor any field read of a `t_query` that was freed. Rejected
  instructions are included: the second of two ERRORs finds no entry and sends nothing.

* **`PasoDeCiclo`** maps each step to one of `CicloQuery` or to none. `PasosDeVida` first sets apart the
  steps that are none of any query's life (`Aparte`), so that only the arrival, what the Master
  reads and what the interpreters do are looked at one by one. `VidaDe` depends on packets that
  are on their way, so two more invariants are needed. `InvVoces`: a query is not told to end in two
  ways, because who tells its end (`VozNueva`) is at it, and then nothing was said of it. And
  `InvAtendidas`: when the Master reads that end the query is still assigned, or was answered, so the
  end is not lost; it leaves `query_en_worker` only when it is answered or when PC_UPDATE is read
  (`SalirDeWorker`), after which nothing else of it is on its way. That a query whose end was told
  may still be in an interpreter, which abandons it in silence, is why `VidaDe` looks at the packets first.

### The memory of the Workers

**`InvMemoria`** is `TypeOK` with the facts that make an eviction safe: table and frames are inverse
of each other (`EntradasYMarcos`), the list of LRU has each loaded page once and in the order of
its last uses (`ListaOrdenada`), the modified bit of a frame is that of the entry of its page
(`BitFiel`), and an instruction has not gone past its bytes (`CursoOK`). One lemma per thing done
to a page: found, loaded, written, dropped, released after a failure. CLOCK-M needs
that some frame is chosen in one of its three searches, that is, that a non-empty set of numbers has
a least one (`Minimo`): it is proved from the well-foundedness of the inclusion of finite sets, since
the induction theorem of the naturals cannot be used.

### Storage

* **`InvBloques`** relates each thread with the request it serves (`OpOK`) and with the counter it
  checked some steps before (`CursoOK`): that the counter still indexes BLOCKS rests on nobody else
  having the mutex (`Exclusivos`). `BaseOK` is inductive with it: only DELETE removes physical
  names, only of blocks of the file:tag it deletes, and `initial_file:BASE` is refused before.
* **`InvIntacto`**: until the first DELETE `block<b>.dat` is inode `b` and every linked inode has
  that name too. So a page that a FLUSH writes in place has one more link than its own and is not
  in block 0, and no pending write is for block 0 (`PendSano`). It survives crashes, which lose
  only the bitmap.
* **`InvFiel`** says for each point of each operation how the links of its file:tag differ from its
  BLOCKS (`ObraTruncar`, `ObraTag`, `ObraEscritura`, `ObraDedup`): a TRUNCATE has already
  linked or unlinked up to its counter, a FLUSH has one block in `pend`, a deduplication has the
  new list in memory. At the end of the operation the difference is none.
* **`InvOcupado`** shows that each block which a page keeps (`Guarda`: it links it, or BLOCKS names it
  or is going to), a thread has for itself (`Reclama`: it took it off the bitmap, or is about to
  give it back) or the index of hashes names (`Publicado`) is in the bitmap (`Marcados`); the goal
  is the first part of the first case. That is not inductive alone: a step that gives a block
  back must know that nobody else has it. Without TAG a block has one owner, a page or a thread,
  from the search that takes it to the step that clears its bit (`Unicos`, `Propios`). What ends that
  is the index: a COMMIT makes a page link the block of another, so a published block may have several
  pages, but only of COMMITED file:tags or already passed by a COMMIT (`Cerrados`), and those nobody
  gives back. So no links need be counted. With TAG, and without what frees blocks, `Marcados`
  needs none of this.
* **`InvArchivos`** adds what the steps of `Bloques` need to be steps of `ArchivosFS`, or none. What a
  thread writes in (`Toma`: the copy of a page, or the page of a pending write) is kept by nobody else
  (`Ajenos`, from `InvOcupado`; where there is TAG, `Nuevos`), so the pages of the other file:tags
  hold what they held and the index of hashes stays true (`HashOK`): the block that a COMMIT links
  a page to has its content (`DedupOK`), and so has the copy of a page (`CopiaOK`). `EscrituraOK` says
  what is left of a write, `EstadoOK` what the operation found, `CarpetaOK` that a directory without
  metadata belongs to a CREATE or a TAG in progress.
* **`VistaSigue`** maps each step. What is seen of a file:tag depends only on the thread that has it
  (`VistaBien`), so a step leaves the others as they were (`LoAjeno`) and one lemma per action
  looks at its own: most show nothing (`Mudo`), because a page without its link is seen through
  BLOCKS, whose block nobody writes in meanwhile. The steps that take effect are the one
  that saves the metadata (CREATE, a TRUNCATE that grows, FLUSH and WRITE_BLOCK), the start of
  a TRUNCATE that does not grow, the last link of TAG, the save of ESTADO in COMMIT, and READ.
* **`InvCandados`**: a pointer of a thread is set exactly while the code has it (`Recorrido`); until a
  mutex is destroyed it is the one of the dictionary for its file:tag (`Vigentes`), and a thread in its
  section holds it (`Tenencia`). Exclusion follows because no two file:tags have one mutex, which is
  `DiccionarioVivo`; that part stays true after a DELETE, when malloc returns an old address.

### Only model-checked

* `EnlazadoOcupado` in behaviours with DELETE, the second of the three mixes of `bloques_sanas`: a
  DELETE frees a block after unlinking its pages one by one, so `Guarda` needs its progress too, and a
  block of a COMMITED file:tag may be given back, which `Cerrados` excludes.
* `ImplementaArchivos` in the same behaviours, for the same reasons.
* The refinement `ImplementaPlana`, and the fairness in `ImplementaCicloJusto`.
* Liveness under fairness and ENABLED are beyond the prover: `TodaQueryTermina`, `TodosTerminan`,
  `CaidaAvisada`, and the fairness of `CicloQuery`. So is what a recursive definition computes for
  every input.

## 5. Plan

Done: the scheduling with its faults, the memory of the Workers, the file system and the
locks of Storage, an abstract specification for each but the locks, and proofs of every
invariant of the runs and of the refinements of `CicloQuery` and `ArchivosFS`. Next, in this order:

1. `EnlazadoOcupado` and `ImplementaArchivos` with DELETE, where nothing is shared.
2. The steps of `Memoria` map to steps of `MemoriaPlana`, from `InvMemoria`.

## 6. Not modelled

* Configuration and logging: no state that another part changes later. Algorithms, sizes and
  aging are constants.
* The byte layout of packets and of `bitmap.bin`, the superblock, and a crash in the
  middle of formatting: `Bloques` starts from a formatted file system.
* The texts Query Control prints, and the functions that free everything when a process ends.
* The loss of the connection between a Worker and Storage, which `rtas_storage` takes for success.
* The composition of all four modules in one state space: out of TLC's reach. They meet at
  `ArchivosFS`, and at what an instruction reports in `Interprete`.
