----------------------------- MODULE Planificador -----------------------------
(***************************************************************************)
(* The Master (master/src/master.c): the ready list cola_queries, the list *)
(* query_en_worker, the semaphore sem_queries and the threads that share   *)
(* them.  Per query: atender_Query (hiloQuery), atender_timer_query        *)
(* (hiloTimer) and atender_desconexion_query (vigiaQuery).  Per Worker:    *)
(* atender_Worker / comenzar_a_ejecutar (hiloWorker) and                   *)
(* atender_desconexion_worker (vigiaWorker).  One action is one region     *)
(* under a lock, or one unlocked access that another thread can observe.   *)
(***************************************************************************)
EXTENDS Red, SequencesExt

CONSTANTS
    Algoritmo,          \* ALGORITMO_PLANIFICACION: "FIFO" or "PRIORIDADES"
    TiempoAging,        \* TRUE iff TIEMPO_AGING # 0
    PrioridadInicial,   \* the priority each Query Control asks for
    QCsQueSeVan,        \* the Query Controls that may disconnect on their own
    VigiasLentas        \* the queries whose watcher may look late, not just at once

ASSUME PlanificadorAssumption ==
    /\ Algoritmo \in {"FIFO", "PRIORIDADES"}
    /\ TiempoAging \in BOOLEAN
    /\ PrioridadInicial \in [Queries -> Nat]
    /\ QCsQueSeVan \subseteq Queries /\ VigiasLentas \subseteq Queries

VARIABLES
    cola_queries,       \* the READY queries, oldest first
    query_en_worker,    \* the queries handed to a Worker
    sem_queries,        \* the value of the semaphore the Worker threads wait on
    lista_workers,      \* the Workers with a t_worker in the list
    cantidadWorkers,    \* the multiprogramming level
    info,               \* info[q]: the fields of the t_query of q
    semTimer,           \* semTimer[q]: the semaphore timer_query of q
    semDesconexion,     \* semDesconexion[w]: the semaphore desconexion_worker
    desconection,       \* desconection[w]: w was seen dead, its sockets closed
    interrupcionLista,  \* interrupcionLista[w]: socket_interruption was assigned
    conexion,           \* conexion[q]: the connection with the Query Control
    finales,            \* finales[q]: the final responses its Query Control got
    hilo,               \* hilo[t][q]: where the thread of kind t of q is
    objetivo,           \* objetivo[t][q]: the Worker that thread will interrupt
    hiloWorker,         \* hiloWorker[w]: where the thread serving w is
    enMano,             \* enMano[w]: its local variable query
    vigiaWorker,        \* vigiaWorker[w]: where atender_desconexion_worker is
    avisada,            \* avisada[w]: its local variable query
    master              \* "caido" once the process died of a signal

listas == <<cola_queries, query_en_worker>>
deWorkers == <<lista_workers, cantidadWorkers, semDesconexion, desconection,
               interrupcionLista, vigiaWorker, avisada>>
deQueries == <<info, semTimer, hilo, objetivo>>
haciaQC == <<conexion, finales>>
atencion == <<hiloWorker, enMano>>

master_vars == <<listas, sem_queries, deWorkers, deQueries, haciaQC, atencion, master>>

\* The three threads of a query: atender_Query, atender_timer_query and
\* atender_desconexion_query.
Hilos == {"alta", "timer", "vigia"}

Prioridades == Algoritmo = "PRIORIDADES"

-------------------------------------------------------------------------------
\* The lists of so-commons.

En(x, s) == \E i \in 1..Len(s) : s[i] = x

\* The position at which list_find / list_remove_by_condition stop for x.
EsPrimero(s, i, x) == s[i] = x /\ \A j \in 1..(i - 1) : s[j] # x

\* eliminar_por_id(lista, x) found x; lista is left as nueva.
EliminarPorId(lista, x, nueva) ==
    \E i \in 1..Len(lista) : EsPrimero(lista, i, x) /\ nueva = RemoveAt(lista, i)

\* i is where obtener_menor_prioridad finds the query it takes out of s.
MenorPrioridad(s, i) ==
    /\ \A j \in 1..Len(s) : info[s[i]].prioridad <= info[s[j]].prioridad
    /\ \A j \in 1..(i - 1) : info[s[i]].prioridad < info[s[j]].prioridad

\* i is where list_get_maximum(s, _max_prioridad) ends: the first greatest.
MaxPrioridad(s, i) ==
    /\ \A j \in 1..Len(s) : info[s[j]].prioridad <= info[s[i]].prioridad
    /\ \A j \in 1..(i - 1) : info[s[j]].prioridad < info[s[i]].prioridad

\* i is where obtener_query_por_id_worker(query_en_worker, w) stops.
EsDelWorker(s, i, w) ==
    /\ info[s[i]].worker = w
    /\ \A j \in 1..(i - 1) : info[s[j]].worker # w

-------------------------------------------------------------------------------
\* Sending to a Query Control.  A peer that left answers the first packet with a
\* reset; the next send raises SIGPIPE, which nobody handles (see CaeSigpipe).

Enviar(q) == /\ conexion[q] # "reset"
             /\ conexion' = [conexion EXCEPT ![q] = IF @ = "fin" THEN "reset" ELSE @]

Recibido(q, r) == finales' = IF conexion[q] = "abierta"
                             THEN [finales EXCEPT ![q] = Append(@, r)] ELSE finales

\* Four of the twelve error cases also close the socket of the Query Control.
EnviarYCerrar(q) == /\ conexion[q] # "reset"
                    /\ conexion' = [conexion EXCEPT ![q] = "cerrada"]

-------------------------------------------------------------------------------
PlanificadorInit ==
    /\ cola_queries = <<>> /\ query_en_worker = <<>> /\ sem_queries = 0
    /\ lista_workers = {} /\ cantidadWorkers = 0
    /\ info = [q \in Queries |-> [estado |-> "BASURA", prioridad |-> 0, pc |-> 0,
                                  worker |-> Ninguna, alive |-> FALSE]]
    /\ semTimer = [q \in Queries |-> 0]
    /\ semDesconexion = [w \in Workers |-> 0]
    /\ desconection = [w \in Workers |-> FALSE]
    /\ interrupcionLista = [w \in Workers |-> FALSE]
    /\ conexion = [q \in Queries |-> "abierta"]
    /\ finales = [q \in Queries |-> <<>>]
    /\ hilo = [t \in Hilos |-> [q \in Queries |-> "no"]]
    /\ objetivo = [t \in Hilos |-> [q \in Queries |-> Ninguna]]
    /\ hiloWorker = [w \in Workers |-> "no"]
    /\ vigiaWorker = [w \in Workers |-> "no"]
    /\ avisada = [w \in Workers |-> Ninguna]
    /\ enMano = [w \in Workers |-> Ninguna]
    /\ master = "vivo"

-------------------------------------------------------------------------------
(* atender_Query: one thread per Query Control *)

Avanza(t, q, paso) == hilo' = [hilo EXCEPT ![t][q] = paso]

\* The t_query is allocated and its watcher started before socket and estado are
\* assigned.  A watcher that looks at once finds nothing and ends.
CrearQuery(q) ==
    /\ hilo["alta"][q] = "no"
    /\ info' = [info EXCEPT ![q].alive = TRUE, ![q].prioridad = PrioridadInicial[q]]
    /\ hilo' = [hilo EXCEPT !["alta"][q] = "socket",
                            !["vigia"][q] = IF q \in VigiasLentas THEN "mirar" ELSE "fin"]
    /\ UNCHANGED <<listas, sem_queries, deWorkers, semTimer, objetivo, haciaQC, atencion, master, red>>

AsignarSocket(q) ==
    /\ hilo["alta"][q] = "socket"
    /\ Avanza("alta", q, "estado")
    /\ UNCHANGED <<listas, sem_queries, deWorkers, info, semTimer, objetivo, haciaQC, atencion, master, red>>

AsignarEstado(q) ==
    /\ hilo["alta"][q] = "estado"
    /\ info' = [info EXCEPT ![q].estado = "READY", ![q].pc = 0]
    /\ Avanza("alta", q, "encolar")
    /\ UNCHANGED <<listas, sem_queries, deWorkers, semTimer, objetivo, haciaQC, atencion, master, red>>

Encolar(q) ==
    /\ hilo["alta"][q] = "encolar"
    /\ cola_queries' = Append(cola_queries, q)
    /\ Avanza("alta", q, IF Prioridades THEN "timer" ELSE "publicar")
    /\ UNCHANGED <<query_en_worker, sem_queries, deWorkers, info, semTimer, objetivo,
                   haciaQC, atencion, master, red>>

CrearTimer(q) ==
    /\ hilo["alta"][q] = "timer"
    /\ semTimer' = [semTimer EXCEPT ![q] = 0]
    /\ hilo' = [hilo EXCEPT !["alta"][q] = "chequear", !["timer"][q] = "dormir"]
    /\ UNCHANGED <<listas, sem_queries, deWorkers, info, objetivo, haciaQC, atencion, master, red>>

\* Mutant: sem_queries as a binary semaphore.
PublicarBinario(q) ==
    /\ hilo["alta"][q] = "publicar"
    /\ sem_queries' = 1
    /\ Avanza("alta", q, "fin")
    /\ UNCHANGED <<listas, deWorkers, info, semTimer, objetivo, haciaQC, atencion, master, red>>

Publicar(q) ==
    /\ hilo["alta"][q] = "publicar"
    /\ sem_queries' = sem_queries + 1
    /\ Avanza("alta", q, "fin")
    /\ UNCHANGED <<listas, deWorkers, info, semTimer, objetivo, haciaQC, atencion, master, red>>

-------------------------------------------------------------------------------
(* chequeador_desalojo and realizar_desalojo, called by two threads of q *)

\* The decision, under mutexQueryEnWorker and mutexCantWorkers: with as many
\* assigned queries as Workers, interrupt the Worker w of the one that yields.
DebeDesalojar(q, w) ==
    /\ Len(query_en_worker) = cantidadWorkers
    /\ \E i \in 1..Len(query_en_worker) :
          /\ MaxPrioridad(query_en_worker, i)
          /\ info[q].prioridad < info[query_en_worker[i]].prioridad
          /\ w = info[query_en_worker[i]].worker

Despues(t) == CASE t = "alta" -> "publicar" [] t = "timer" -> "releer" [] t = "vigia" -> "lista"

Chequear(t, q) ==
    /\ hilo[t][q] = "chequear"
    /\ \/ \E w \in Workers \cup {Ninguna} :
             /\ DebeDesalojar(q, w)
             /\ objetivo' = [objetivo EXCEPT ![t][q] = w]
             /\ Avanza(t, q, "desalojar")
       \/ /\ ~ \E w \in Workers \cup {Ninguna} : DebeDesalojar(q, w)
          /\ Avanza(t, q, Despues(t))
          /\ UNCHANGED objetivo
    /\ UNCHANGED <<listas, sem_queries, deWorkers, info, semTimer, haciaQC, atencion, master, red>>

\* The packet, under mutexListaWorkers.  It is lost when socket_interruption was
\* not assigned yet or was closed.  For a Worker out of the list: CaeDesalojo; for one
\* that died: CaeInterrumpir.
Desalojar(t, q) ==
    LET w == objetivo[t][q]
        codigo == IF t = "vigia" THEN "QUERY_DESCONECTADO" ELSE "DESALOJO"
    IN
    /\ hilo[t][q] = "desalojar"
    /\ w \in lista_workers
    /\ IF interrupcionLista[w] /\ ~desconection[w]
       THEN EnviarInterrupcion(w, codigo) ELSE UNCHANGED interrupcion
    /\ objetivo' = [objetivo EXCEPT ![t][q] = Ninguna]
    /\ Avanza(t, q, Despues(t))
    /\ UNCHANGED <<listas, sem_queries, deWorkers, info, semTimer, haciaQC, atencion, master,
                   proceso, despacho, respuesta>>

-------------------------------------------------------------------------------
(* atender_timer_query: aging, one thread per query under PRIORIDADES *)

Envejece(q) == info[q].alive /\ info[q].estado = "READY" /\ info[q].prioridad > 0 /\ TiempoAging

\* What the loop does at its end with the alive and es_ready it read.
SiguienteTimer(q) ==
    CASE ~info[q].alive                                            -> "fin"
      [] info[q].alive /\ (info[q].estado # "READY" \/ ~TiempoAging) -> "parado"
      [] OTHER                                                     -> "dormir"

Envejecer(q) ==
    /\ hilo["timer"][q] = "dormir"
    /\ \/ /\ Envejece(q)
          /\ info' = [info EXCEPT ![q].prioridad = @ - 1]
          /\ Avanza("timer", q, "chequear")
       \/ /\ ~Envejece(q)
          /\ Avanza("timer", q, SiguienteTimer(q))
          /\ UNCHANGED info
    /\ UNCHANGED <<listas, sem_queries, deWorkers, semTimer, objetivo, haciaQC, atencion, master, red>>

Releer(q) ==
    /\ hilo["timer"][q] = "releer"
    /\ Avanza("timer", q, SiguienteTimer(q))
    /\ UNCHANGED <<listas, sem_queries, deWorkers, info, semTimer, objetivo, haciaQC, atencion, master, red>>

DespertarTimer(q) ==
    /\ hilo["timer"][q] = "parado" /\ semTimer[q] > 0
    /\ semTimer' = [semTimer EXCEPT ![q] = @ - 1]
    /\ Avanza("timer", q, "dormir")
    /\ UNCHANGED <<listas, sem_queries, deWorkers, info, objetivo, haciaQC, atencion, master, red>>

-------------------------------------------------------------------------------
(* atender_desconexion_query: one recv(MSG_DONTWAIT) per query, and no more *)

\* recv on the descriptor: -1 while the peer is there, before the descriptor was
\* assigned (garbage is taken to be no connection) and after it was closed.
MirarSinNovedad(q) ==
    /\ hilo["vigia"][q] = "mirar"
    /\ conexion[q] \in {"abierta", "cerrada"} \/ hilo["alta"][q] = "socket"
    /\ Avanza("vigia", q, "fin")
    /\ UNCHANGED <<listas, sem_queries, deWorkers, info, semTimer, objetivo, haciaQC, atencion, master, red>>

MirarDesconexion(q) ==
    /\ hilo["vigia"][q] = "mirar"
    /\ conexion[q] \in {"fin", "reset"} /\ hilo["alta"][q] # "socket"
    /\ info' = [info EXCEPT ![q].alive = FALSE]
    /\ conexion' = [conexion EXCEPT ![q] = "cerrada"]
    /\ Avanza("vigia", q, "corriendo")
    /\ UNCHANGED <<listas, sem_queries, deWorkers, semTimer, objetivo, finales, atencion, master, red>>

\* estado is read without a lock; before AsignarEstado it holds any value.
Lee(q, e) == info[q].estado \in {e, "BASURA"}
NoLee(q, e) == info[q].estado # e

VigiaCorriendo(q) ==
    /\ hilo["vigia"][q] = "corriendo"
    /\ \/ /\ Lee(q, "RUNNING")
          /\ objetivo' = [objetivo EXCEPT !["vigia"][q] = info[q].worker]
          /\ Avanza("vigia", q, "desalojar")
       \/ /\ NoLee(q, "RUNNING")
          /\ Avanza("vigia", q, "lista")
          /\ UNCHANGED objetivo
    /\ UNCHANGED <<listas, sem_queries, deWorkers, info, semTimer, haciaQC, atencion, master, red>>

VigiaLista(q) ==
    /\ hilo["vigia"][q] = "lista"
    /\ \/ Lee(q, "READY") /\ Avanza("vigia", q, "quitar")
       \/ NoLee(q, "READY") /\ Avanza("vigia", q, "salir")
    /\ UNCHANGED <<listas, sem_queries, deWorkers, info, semTimer, objetivo, haciaQC, atencion, master, red>>

VigiaQuitar(q) ==
    /\ hilo["vigia"][q] = "quitar"
    /\ \/ EliminarPorId(cola_queries, q, cola_queries')
       \/ ~En(q, cola_queries) /\ UNCHANGED cola_queries
    /\ Avanza("vigia", q, "robar")
    /\ UNCHANGED <<query_en_worker, sem_queries, deWorkers, info, semTimer, objetivo,
                   haciaQC, atencion, master, red>>

\* sem_trywait(&sem_queries), whether or not the query was in the list.
VigiaRobar(q) ==
    /\ hilo["vigia"][q] = "robar"
    /\ sem_queries' = IF sem_queries > 0 THEN sem_queries - 1 ELSE 0
    /\ Avanza("vigia", q, "salir")
    /\ UNCHANGED <<listas, deWorkers, info, semTimer, objetivo, haciaQC, atencion, master, red>>

\* Without a timer thread yet, the post and the join act on garbage: see CaeSinTimer.
VigiaSalir(q) ==
    /\ hilo["vigia"][q] = "salir"
    /\ info' = [info EXCEPT ![q].estado = "EXIT"]
    /\ \/ /\ Prioridades /\ hilo["timer"][q] # "no"
          /\ semTimer' = [semTimer EXCEPT ![q] = @ + 1]
          /\ Avanza("vigia", q, "join")
       \/ /\ ~Prioridades \/ hilo["timer"][q] = "no"
          /\ Avanza("vigia", q, "fin")
          /\ UNCHANGED semTimer
    /\ UNCHANGED <<listas, sem_queries, deWorkers, objetivo, haciaQC, atencion, master, red>>

VigiaJoin(q) ==
    /\ hilo["vigia"][q] = "join" /\ hilo["timer"][q] = "fin"
    /\ Avanza("vigia", q, "fin")
    /\ UNCHANGED <<listas, sem_queries, deWorkers, info, semTimer, objetivo, haciaQC, atencion, master, red>>

\* The watcher ended after its recv returned 0: the t_query was freed.
Liberada(q) == hilo["vigia"][q] = "fin" /\ ~info[q].alive /\ hilo["alta"][q] # "no"

-------------------------------------------------------------------------------
(* atender_Worker and comenzar_a_ejecutar: one thread per Worker *)

Sigue(w, paso) == hiloWorker' = [hiloWorker EXCEPT ![w] = paso]

\* case WORKER_ID: the Worker is counted, listed, and released to go on.
IdentificarWorker(w) ==
    /\ hiloWorker[w] = "no" /\ proceso[w] = "ausente"
    /\ proceso' = [proceso EXCEPT ![w] = "identificado"]
    /\ cantidadWorkers' = cantidadWorkers + 1
    /\ lista_workers' = lista_workers \cup {w}
    /\ Sigue(w, "esperar")
    /\ UNCHANGED <<listas, sem_queries, semDesconexion, desconection, interrupcionLista, vigiaWorker,
                   avisada, deQueries, haciaQC, enMano, master, despacho, respuesta, interrupcion>>

\* atender_worker_interrupt: the second connection arrives; its watcher starts.
AtenderInterrupcion(w) ==
    /\ proceso[w] = "identificado" /\ w \in lista_workers
    /\ proceso' = [proceso EXCEPT ![w] = "conectado"]
    /\ interrupcionLista' = [interrupcionLista EXCEPT ![w] = TRUE]
    /\ vigiaWorker' = [vigiaWorker EXCEPT ![w] = "escuchar"]
    /\ UNCHANGED <<listas, sem_queries, lista_workers, cantidadWorkers, semDesconexion, desconection,
                   avisada, deQueries, haciaQC, atencion, master, despacho, respuesta, interrupcion>>

\* Mutant: sem_queries decremented without waiting for it.
EsperarQuerySinGuarda(w) ==
    /\ hiloWorker[w] = "esperar"
    /\ sem_queries' = sem_queries - 1
    /\ Sigue(w, "validar")
    /\ UNCHANGED <<listas, deWorkers, deQueries, haciaQC, enMano, master, red>>

EsperarQuery(w) ==
    /\ hiloWorker[w] = "esperar" /\ sem_queries > 0
    /\ sem_queries' = sem_queries - 1
    /\ Sigue(w, "validar")
    /\ UNCHANGED <<listas, deWorkers, deQueries, haciaQC, enMano, master, red>>

\* Mutant: a Worker that is gone keeps the token it took.
ValidarWorkerSinDevolver(w) ==
    /\ hiloWorker[w] = "validar"
    /\ IF w \in lista_workers /\ ~desconection[w]
       THEN Sigue(w, "tomar") /\ UNCHANGED semDesconexion
       ELSE /\ Sigue(w, "fin")
            /\ semDesconexion' = IF w \in lista_workers
                                 THEN [semDesconexion EXCEPT ![w] = @ + 1] ELSE semDesconexion
    /\ UNCHANGED <<listas, sem_queries, lista_workers, cantidadWorkers, desconection,
                   interrupcionLista, vigiaWorker, avisada, deQueries, haciaQC, enMano, master, red>>

\* Is the Worker still there?  If not, give the token back, tell its watcher, end.
ValidarWorker(w) ==
    /\ hiloWorker[w] = "validar"
    /\ IF w \in lista_workers /\ ~desconection[w]
       THEN Sigue(w, "tomar") /\ UNCHANGED <<sem_queries, semDesconexion>>
       ELSE /\ Sigue(w, "fin")
            /\ sem_queries' = sem_queries + 1
            /\ semDesconexion' = IF w \in lista_workers
                                 THEN [semDesconexion EXCEPT ![w] = @ + 1] ELSE semDesconexion
    /\ UNCHANGED <<listas, lista_workers, cantidadWorkers, desconection, interrupcionLista,
                   vigiaWorker, avisada, deQueries, haciaQC, enMano, master, red>>

\* i is the position the algorithm picks.
Elegida(i) == IF Algoritmo = "FIFO" THEN i = 1 ELSE MenorPrioridad(cola_queries, i)

\* Mutant: the query is read from cola_queries and left in it.
TomarQuerySinSacar(w) ==
    /\ hiloWorker[w] = "tomar"
    /\ \/ /\ cola_queries = <<>>
          /\ Sigue(w, "esperar")
          /\ UNCHANGED enMano
       \/ \E i \in 1..Len(cola_queries) :
             /\ Elegida(i)
             /\ enMano' = [enMano EXCEPT ![w] = cola_queries[i]]
             /\ Sigue(w, "marcar")
    /\ UNCHANGED <<listas, sem_queries, deWorkers, deQueries, haciaQC, master, red>>

TomarQuery(w) ==
    /\ hiloWorker[w] = "tomar"
    /\ \/ /\ cola_queries = <<>>
          /\ Sigue(w, "esperar")
          /\ UNCHANGED <<cola_queries, enMano>>
       \/ \E i \in 1..Len(cola_queries) :
             /\ Elegida(i)
             /\ enMano' = [enMano EXCEPT ![w] = cola_queries[i]]
             /\ cola_queries' = RemoveAt(cola_queries, i)
             /\ Sigue(w, "marcar")
    /\ UNCHANGED <<query_en_worker, sem_queries, deWorkers, deQueries, haciaQC, master, red>>

MarcarRunning(w) ==
    /\ hiloWorker[w] = "marcar"
    /\ info' = [info EXCEPT ![enMano[w]].estado = "RUNNING"]
    /\ Sigue(w, "registrar")
    /\ UNCHANGED <<listas, sem_queries, deWorkers, semTimer, hilo, objetivo, haciaQC, enMano, master, red>>

\* Mutant: idWorker of the query is not assigned.
RegistrarSinWorker(w) ==
    LET q == enMano[w] IN
    /\ hiloWorker[w] = "registrar"
    /\ query_en_worker' = Append(query_en_worker, q)
    /\ IF desconection[w] THEN UNCHANGED despacho
       ELSE EnviarDespacho(w, [query |-> q, pc |-> info[q].pc])
    /\ enMano' = [enMano EXCEPT ![w] = Ninguna]
    /\ Sigue(w, "leer")
    /\ UNCHANGED <<cola_queries, sem_queries, deWorkers, deQueries, haciaQC, master,
                   proceso, respuesta, interrupcion>>

\* The query joins query_en_worker and enviar_query_a_worker sends it; whether the
\* send failed is only logged.
RegistrarYEnviar(w) ==
    LET q == enMano[w] IN
    /\ hiloWorker[w] = "registrar"
    /\ info' = [info EXCEPT ![q].worker = w]
    /\ query_en_worker' = Append(query_en_worker, q)
    /\ IF desconection[w] THEN UNCHANGED despacho
       ELSE EnviarDespacho(w, [query |-> q, pc |-> info[q].pc])
    /\ enMano' = [enMano EXCEPT ![w] = Ninguna]
    /\ Sigue(w, "leer")
    /\ UNCHANGED <<cola_queries, sem_queries, deWorkers, semTimer, hilo, objetivo, haciaQC, master,
                   proceso, respuesta, interrupcion>>

-------------------------------------------------------------------------------
(* atender_Worker: what the thread of w reads from its connection *)

\* recibir_paquete: the oldest packet is the one in hand until its case is over,
\* even if the Worker is seen dead meanwhile.
RecibirPaquete(w) ==
    /\ hiloWorker[w] = "leer" /\ ~desconection[w] /\ respuesta[w] # <<>>
    /\ Sigue(w, "atender")
    /\ UNCHANGED <<listas, sem_queries, deWorkers, deQueries, haciaQC, enMano, master, red>>

Recibe(w, op) == hiloWorker[w] = "atender" /\ Llega(w, op)

\* case WORKER_READ_RESULT
RecibirRead(w) ==
    LET m == Head(respuesta[w]) IN
    /\ Recibe(w, "READ_RESULT") /\ En(m.query, query_en_worker)
    /\ info' = [info EXCEPT ![m.query].pc = m.pc]
    /\ Enviar(m.query)
    /\ Consumir(w)
    /\ Sigue(w, "leer")
    /\ UNCHANGED <<listas, sem_queries, deWorkers, semTimer, hilo, objetivo, finales, enMano, master,
                   proceso, despacho, interrupcion>>

\* case WORKER_QUERY_END and query_completado_con_exito
RecibirEnd(w) ==
    LET m == Head(respuesta[w]) IN
    /\ Recibe(w, "QUERY_END")
    /\ EliminarPorId(query_en_worker, m.query, query_en_worker')
    /\ info' = [info EXCEPT ![m.query].estado = "EXIT"]
    /\ Enviar(m.query) /\ Recibido(m.query, "END")
    /\ Consumir(w)
    /\ Sigue(w, "esperar")
    /\ UNCHANGED <<cola_queries, sem_queries, deWorkers, semTimer, hilo, objetivo, enMano, master,
                   proceso, despacho, interrupcion>>

\* Mutant: the query in error stays in query_en_worker.
RecibirErrorSinSacar(w) ==
    LET m == Head(respuesta[w]) IN
    /\ Recibe(w, "ERROR") /\ En(m.query, query_en_worker)
    /\ info' = [info EXCEPT ![m.query].estado = "EXIT"]
    /\ Enviar(m.query) \/ EnviarYCerrar(m.query)
    /\ Recibido(m.query, "ERROR")
    /\ Consumir(w)
    /\ Sigue(w, "esperar")
    /\ UNCHANGED <<listas, sem_queries, deWorkers, semTimer, hilo, objetivo, enMano, master,
                   proceso, despacho, interrupcion>>

\* the twelve cases WORKER_ERROR_*
RecibirError(w) ==
    LET m == Head(respuesta[w]) IN
    /\ Recibe(w, "ERROR")
    /\ EliminarPorId(query_en_worker, m.query, query_en_worker')
    /\ info' = [info EXCEPT ![m.query].estado = "EXIT"]
    /\ Enviar(m.query) \/ EnviarYCerrar(m.query)
    /\ Recibido(m.query, "ERROR")
    /\ Consumir(w)
    /\ Sigue(w, "esperar")
    /\ UNCHANGED <<cola_queries, sem_queries, deWorkers, semTimer, hilo, objetivo, enMano, master,
                   proceso, despacho, interrupcion>>

\* The same cases when the query is not assigned any more, and the default case:
\* the switch is left and the thread of this Worker ends.
AbandonarWorker(w) ==
    LET m == Head(respuesta[w]) IN
    /\ \/ (Recibe(w, "QUERY_END") \/ Recibe(w, "ERROR")) /\ ~En(m.query, query_en_worker)
       \/ Recibe(w, "ERROR_QUERY_NO_ENCONTRADA")
    /\ Consumir(w)
    /\ Sigue(w, "fin")
    /\ UNCHANGED <<listas, sem_queries, deWorkers, deQueries, haciaQC, enMano, master,
                   proceso, despacho, interrupcion>>

\* Mutant: the preempted query stays in query_en_worker.
RecibirPCSinSacar(w) ==
    LET m == Head(respuesta[w]) IN
    /\ Recibe(w, "PC_UPDATE") /\ En(m.query, query_en_worker)
    /\ info' = [info EXCEPT ![m.query].estado = "READY", ![m.query].pc = m.pc]
    /\ enMano' = [enMano EXCEPT ![w] = m.query]
    /\ Sigue(w, "reencolar")
    /\ Consumir(w)
    /\ UNCHANGED <<listas, sem_queries, deWorkers, semTimer, hilo, objetivo, haciaQC, master,
                   proceso, despacho, interrupcion>>

\* case WORKER_PC_UPDATE: READY again, to be queued; or nothing to queue.
RecibirPC(w) ==
    LET m == Head(respuesta[w]) IN
    /\ Recibe(w, "PC_UPDATE")
    /\ \/ /\ EliminarPorId(query_en_worker, m.query, query_en_worker')
          /\ info' = [info EXCEPT ![m.query].estado = "READY", ![m.query].pc = m.pc]
          /\ enMano' = [enMano EXCEPT ![w] = m.query]
          /\ Sigue(w, "reencolar")
       \/ /\ ~En(m.query, query_en_worker)
          /\ Sigue(w, "esperar")
          /\ UNCHANGED <<query_en_worker, info, enMano>>
    /\ Consumir(w)
    /\ UNCHANGED <<cola_queries, sem_queries, deWorkers, semTimer, hilo, objetivo, haciaQC, master,
                   proceso, despacho, interrupcion>>

Reencolar(w) ==
    /\ hiloWorker[w] = "reencolar"
    /\ cola_queries' = Append(cola_queries, enMano[w])
    /\ Sigue(w, "publicar")
    /\ UNCHANGED <<query_en_worker, sem_queries, deWorkers, deQueries, haciaQC, enMano, master, red>>

\* Mutant: the preempted query is queued without a sem_post.
PublicarSinToken(w) ==
    /\ hiloWorker[w] = "publicar"
    /\ semTimer' = IF Prioridades THEN [semTimer EXCEPT ![enMano[w]] = @ + 1] ELSE semTimer
    /\ enMano' = [enMano EXCEPT ![w] = Ninguna]
    /\ Sigue(w, "esperar")
    /\ UNCHANGED <<listas, sem_queries, deWorkers, info, hilo, objetivo, haciaQC, master, red>>

PublicarDesalojada(w) ==
    /\ hiloWorker[w] = "publicar"
    /\ semTimer' = IF Prioridades THEN [semTimer EXCEPT ![enMano[w]] = @ + 1] ELSE semTimer
    /\ sem_queries' = sem_queries + 1
    /\ enMano' = [enMano EXCEPT ![w] = Ninguna]
    /\ Sigue(w, "esperar")
    /\ UNCHANGED <<listas, deWorkers, info, hilo, objetivo, haciaQC, master, red>>

\* case WORKER_QUERY_DESCONECTADO
RecibirDesconectado(w) ==
    LET m == Head(respuesta[w]) IN
    /\ Recibe(w, "QUERY_DESCONECTADO")
    /\ EliminarPorId(query_en_worker, m.query, query_en_worker')
    /\ info' = [info EXCEPT ![m.query].estado = "EXIT"]
    /\ Consumir(w)
    /\ Sigue(w, "esperar")
    /\ UNCHANGED <<cola_queries, sem_queries, deWorkers, semTimer, hilo, objetivo, haciaQC, enMano,
                   master, proceso, despacho, interrupcion>>

\* recibir_paquete returned NULL.  The t_worker is in the list: only a thread that
\* ends posts the semaphore that RetirarWorker waits for.
Nulo(w) == /\ hiloWorker[w] = "leer" /\ proceso[w] = "muerto"
           /\ respuesta[w] = <<>> \/ desconection[w]

RecibirNulo(w) ==
    /\ Nulo(w) /\ w \in lista_workers
    /\ semDesconexion' = [semDesconexion EXCEPT ![w] = @ + 1]
    /\ Sigue(w, "fin")
    /\ UNCHANGED <<listas, sem_queries, lista_workers, cantidadWorkers, desconection, interrupcionLista,
                   vigiaWorker, avisada, deQueries, haciaQC, enMano, master, red>>

-------------------------------------------------------------------------------
(* atender_desconexion_worker: blocked in recv on the interruption socket *)

DetectarCaida(w) ==
    /\ vigiaWorker[w] = "escuchar" /\ proceso[w] = "muerto"
    /\ desconection' = [desconection EXCEPT ![w] = TRUE]
    /\ vigiaWorker' = [vigiaWorker EXCEPT ![w] = "descontar"]
    /\ UNCHANGED <<listas, sem_queries, lista_workers, cantidadWorkers, semDesconexion,
                   interrupcionLista, avisada, deQueries, haciaQC, atencion, master, red>>

DescontarWorker(w) ==
    /\ vigiaWorker[w] = "descontar"
    /\ cantidadWorkers' = cantidadWorkers - 1
    /\ vigiaWorker' = [vigiaWorker EXCEPT ![w] = "buscar"]
    /\ UNCHANGED <<listas, sem_queries, lista_workers, semDesconexion, desconection,
                   interrupcionLista, avisada, deQueries, haciaQC, atencion, master, red>>

\* The first query assigned to w is given up, but stays in query_en_worker.
AvisarCaida(w) ==
    /\ vigiaWorker[w] = "buscar"
    /\ \/ \E i \in 1..Len(query_en_worker) :
             /\ EsDelWorker(query_en_worker, i, w)
             /\ info' = [info EXCEPT ![query_en_worker[i]].estado = "EXIT"]
             /\ avisada' = [avisada EXCEPT ![w] = query_en_worker[i]]
             /\ vigiaWorker' = [vigiaWorker EXCEPT ![w] = "avisar"]
       \/ /\ \A i \in 1..Len(query_en_worker) : info[query_en_worker[i]].worker # w
          /\ vigiaWorker' = [vigiaWorker EXCEPT ![w] = "esperar"]
          /\ UNCHANGED <<info, avisada>>
    /\ UNCHANGED <<listas, sem_queries, lista_workers, cantidadWorkers, semDesconexion, desconection,
                   interrupcionLista, semTimer, hilo, objetivo, haciaQC, atencion, master, red>>

\* Its Query Control is told after the unlock, whatever became of it meanwhile.
ResponderCaida(w) ==
    /\ vigiaWorker[w] = "avisar"
    /\ Enviar(avisada[w]) /\ Recibido(avisada[w], "WORKER_DESCONECTADO")
    /\ avisada' = [avisada EXCEPT ![w] = Ninguna]
    /\ vigiaWorker' = [vigiaWorker EXCEPT ![w] = "esperar"]
    /\ UNCHANGED <<listas, sem_queries, lista_workers, cantidadWorkers, semDesconexion, desconection,
                   interrupcionLista, deQueries, atencion, master, red>>

RetirarWorker(w) ==
    /\ vigiaWorker[w] = "esperar" /\ semDesconexion[w] > 0
    /\ semDesconexion' = [semDesconexion EXCEPT ![w] = @ - 1]
    /\ lista_workers' = lista_workers \ {w}
    /\ vigiaWorker' = [vigiaWorker EXCEPT ![w] = "fin"]
    /\ UNCHANGED <<listas, sem_queries, cantidadWorkers, desconection, interrupcionLista, avisada, deQueries,
                   haciaQC, atencion, master, red>>

-------------------------------------------------------------------------------
(* The ends of the Master: a NULL t_worker or t_query is dereferenced, a send
   raises SIGPIPE, or freed memory that a thread still uses is taken to be fatal
   (it may also go unnoticed: the other actions stay enabled). *)

CaeDesalojo(t, q) == hilo[t][q] = "desalojar" /\ objetivo[t][q] \notin lista_workers

CaeInterrumpir(t, q) ==
    LET w == objetivo[t][q] IN
    /\ hilo[t][q] = "desalojar" /\ w \in lista_workers
    /\ interrupcionLista[w] /\ ~desconection[w] /\ Reseteada(w, interrupcion)

CaeSinTimer(q) == hilo["vigia"][q] = "salir" /\ Prioridades /\ hilo["timer"][q] = "no"

CaeSinQuery(w) == /\ Recibe(w, "READ_RESULT") \/ Recibe(w, "QUERY_DESCONECTADO")
                  /\ ~En(Head(respuesta[w]).query, query_en_worker)

CaeSigpipe(w) ==
    \/ /\ Recibe(w, "READ_RESULT") \/ Recibe(w, "QUERY_END") \/ Recibe(w, "ERROR")
       /\ En(Head(respuesta[w]).query, query_en_worker)
       /\ conexion[Head(respuesta[w]).query] = "reset"
    \/ vigiaWorker[w] = "avisar" /\ conexion[avisada[w]] = "reset"
    \/ hiloWorker[w] = "registrar" /\ ~desconection[w] /\ Reseteada(w, despacho)

CaeLiberada(q) ==
    /\ Liberada(q)
    /\ \/ En(q, cola_queries) \/ En(q, query_en_worker)
       \/ \E w \in Workers : enMano[w] = q \/ (vigiaWorker[w] = "avisar" /\ avisada[w] = q)
       \/ hilo["alta"][q] \notin {"desalojar", "publicar", "fin"}

Caer ==
    /\ \/ \E q \in Queries : CaeSinTimer(q) \/ CaeLiberada(q)
       \/ \E q \in Queries, t \in Hilos : CaeDesalojo(t, q) \/ CaeInterrumpir(t, q)
       \/ \E w \in Workers : CaeSinQuery(w) \/ CaeSigpipe(w)
    /\ master' = "caido"
    /\ UNCHANGED <<listas, sem_queries, deWorkers, deQueries, haciaQC, atencion, red>>

-------------------------------------------------------------------------------
\* The steps of each thread.

HiloAlta(q) == \/ AsignarSocket(q) \/ AsignarEstado(q) \/ Encolar(q)
               \/ CrearTimer(q) \/ Chequear("alta", q) \/ Desalojar("alta", q) \/ Publicar(q)

HiloTimer(q) == \/ Envejecer(q) \/ Chequear("timer", q) \/ Desalojar("timer", q)
                \/ Releer(q) \/ DespertarTimer(q)

HiloVigia(q) == \/ MirarSinNovedad(q) \/ MirarDesconexion(q) \/ VigiaCorriendo(q)
                \/ Desalojar("vigia", q) \/ VigiaLista(q) \/ VigiaQuitar(q) \/ VigiaRobar(q)
                \/ VigiaSalir(q) \/ VigiaJoin(q)

HiloWorker(w) == \/ EsperarQuery(w) \/ ValidarWorker(w) \/ TomarQuery(w)
                 \/ MarcarRunning(w) \/ RegistrarYEnviar(w) \/ RecibirPaquete(w)
                 \/ RecibirRead(w) \/ RecibirEnd(w)
                 \/ RecibirError(w) \/ AbandonarWorker(w) \/ RecibirPC(w) \/ Reencolar(w)
                 \/ PublicarDesalojada(w) \/ RecibirDesconectado(w) \/ RecibirNulo(w)

HiloVigiaWorker(w) == \/ AtenderInterrupcion(w) \/ DetectarCaida(w) \/ DescontarWorker(w)
                      \/ AvisarCaida(w) \/ ResponderCaida(w) \/ RetirarWorker(w)

\* CrearQuery and IdentificarWorker wait for somebody to connect.
PlanificadorNext ==
    /\ master = "vivo"
    /\ \/ \E q \in Queries : CrearQuery(q) \/ HiloAlta(q) \/ HiloTimer(q) \/ HiloVigia(q)
       \/ \E w \in Workers : IdentificarWorker(w) \/ HiloWorker(w) \/ HiloVigiaWorker(w)
       \/ Caer

\* The Query Control of q is closed by its user.
IrseQC(q) ==
    /\ q \in QCsQueSeVan /\ conexion[q] = "abierta" /\ hilo["alta"][q] # "no"
    /\ conexion' = [conexion EXCEPT ![q] = "fin"]
    /\ UNCHANGED <<listas, sem_queries, deWorkers, deQueries, finales, atencion, master, red>>

\* procesar_respuestas_master: a READ is shown and the next answer waited for; any other
\* one is final, and main closes the connection.
TerminarQC(q) ==
    /\ finales[q] # <<>> /\ conexion[q] = "abierta"
    /\ conexion' = [conexion EXCEPT ![q] = "fin"]
    /\ UNCHANGED <<listas, sem_queries, deWorkers, deQueries, finales, atencion, master, red>>

-------------------------------------------------------------------------------
PasosAlta == {"no", "socket", "estado", "encolar", "timer", "chequear", "desalojar", "publicar", "fin"}
PasosTimer == {"no", "dormir", "chequear", "desalojar", "releer", "parado", "fin"}
PasosVigia == {"no", "mirar", "corriendo", "desalojar", "lista", "quitar", "robar", "salir", "join", "fin"}
Pasos == PasosAlta \cup PasosTimer \cup PasosVigia
PasosWorker == {"no", "esperar", "validar", "tomar", "marcar", "registrar", "leer", "atender",
                "reencolar", "publicar", "fin"}

Info == [estado : {"BASURA", "READY", "RUNNING", "EXIT"}, prioridad : Nat, pc : Nat,
         worker : Workers \cup {Ninguna}, alive : BOOLEAN]

ListasOK ==
    /\ cola_queries \in Seq(Queries) /\ query_en_worker \in Seq(Queries)
    /\ sem_queries \in Nat

DeWorkersOK ==
    /\ lista_workers \subseteq Workers /\ cantidadWorkers \in Int
    /\ semDesconexion \in [Workers -> Nat]
    /\ desconection \in [Workers -> BOOLEAN] /\ interrupcionLista \in [Workers -> BOOLEAN]
    /\ vigiaWorker \in [Workers -> {"no", "escuchar", "descontar", "buscar", "avisar",
                                 "esperar", "fin"}]
    /\ avisada \in [Workers -> Queries \cup {Ninguna}]
    /\ \A w \in Workers : vigiaWorker[w] = "avisar" => avisada[w] # Ninguna

DeQueriesOK ==
    /\ info \in [Queries -> Info]
    /\ semTimer \in [Queries -> Nat]
    /\ hilo \in [Hilos -> [Queries -> Pasos]]
    /\ objetivo \in [Hilos -> [Queries -> Workers \cup {Ninguna}]]

HaciaQCOK ==
    /\ conexion \in [Queries -> {"abierta", "fin", "reset", "cerrada"}]
    /\ finales \in [Queries -> Seq({"END", "ERROR", "WORKER_DESCONECTADO"})]

AtencionOK ==
    /\ hiloWorker \in [Workers -> PasosWorker]
    /\ enMano \in [Workers -> Queries \cup {Ninguna}]
    /\ \A w \in Workers : hiloWorker[w] \in {"marcar", "registrar", "reencolar", "publicar"}
                              => enMano[w] # Ninguna

PlanificadorTypeOK ==
    ListasOK /\ DeWorkersOK /\ DeQueriesOK /\ HaciaQCOK /\ AtencionOK /\ master \in {"vivo", "caido"}
===============================================================================
