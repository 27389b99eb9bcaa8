------------------------------- MODULE Despacho -------------------------------
(***************************************************************************)
(* The Master (Planificador) and the Workers (Interprete) joined by their  *)
(* connections (Red): a query arrives, waits, is assigned, runs, may be    *)
(* preempted and resumed elsewhere, and its Query Control is answered.     *)
(***************************************************************************)
EXTENDS Planificador, Interprete

vars == <<red, master_vars, worker_vars>>

Init == RedInit /\ PlanificadorInit /\ InterpreteInit

Next == \/ PlanificadorNext /\ UNCHANGED worker_vars
        \/ (\E q \in Queries : IrseQC(q) \/ TerminarQC(q)) /\ UNCHANGED worker_vars
        \/ InterpreteNext /\ UNCHANGED master_vars

Spec == Init /\ [][Next]_vars

\* Every thread that can go on does.  Nothing obliges a Query Control or a Worker to
\* come, to leave or to die, nor the Master to fall.
DelMaster(A) == master = "vivo" /\ A /\ UNCHANGED worker_vars

Equidad ==
    /\ \A q \in Queries : /\ WF_vars(DelMaster(HiloAlta(q)))
                          /\ WF_vars(DelMaster(HiloTimer(q)))
                          /\ WF_vars(DelMaster(HiloVigia(q)))
    /\ \A w \in Workers : /\ WF_vars(DelMaster(HiloWorker(w)))
                          /\ WF_vars(DelMaster(HiloVigiaWorker(w)))
                          /\ WF_vars(HiloEjecutar(w) /\ UNCHANGED master_vars)
                          /\ WF_vars(HiloInterrupciones(w) /\ UNCHANGED master_vars)

SpecJusta == Spec /\ Equidad

TypeOK == RedTypeOK /\ PlanificadorTypeOK /\ InterpreteTypeOK

-------------------------------------------------------------------------------
\* hiloWorker[w] took enMano[w] from one list and did not put it in the other yet.
EnLaMano(w) == hiloWorker[w] \in {"marcar", "registrar", "reencolar"}

SinRepetidos(s) == \A i, j \in 1..Len(s) : s[i] = s[j] => i = j

SinEncolar(q) == hilo["alta"][q] \in {"no", "socket", "estado", "encolar"}

\* A query is in at most one place at a time: once in cola_queries, once in
\* query_en_worker or in the hands of one Worker thread; and in none before
\* atender_Query queues it.  The moves take two critical sections each.
UnSoloLugar ==
    /\ SinRepetidos(cola_queries)
    /\ SinRepetidos(query_en_worker)
    /\ \A q \in Queries : ~(En(q, cola_queries) /\ En(q, query_en_worker))
    /\ \A w \in Workers : EnLaMano(w) => /\ ~En(enMano[w], cola_queries)
                                         /\ ~En(enMano[w], query_en_worker)
                                         /\ ~SinEncolar(enMano[w])
    /\ \A v, w \in Workers : EnLaMano(v) /\ EnLaMano(w) /\ enMano[v] = enMano[w] => v = w
    /\ \A q \in Queries : SinEncolar(q) => ~En(q, cola_queries) /\ ~En(q, query_en_worker)

\* sem_queries counts the READY queries nobody is coming for: its value plus the
\* Worker threads past sem_wait is the length of cola_queries less the queries
\* queued but not announced.  So no wakeup is lost and none finds the list empty.
SinPublicar == {q \in Queries : hilo["alta"][q] \in {"timer", "chequear", "desalojar", "publicar"}}
EnPublicar == {w \in Workers : hiloWorker[w] = "publicar"}
EnCamino == {w \in Workers : hiloWorker[w] \in {"validar", "tomar"}}

TokensConservados ==
    sem_queries + Cardinality(EnCamino)
        = Len(cola_queries) - Cardinality(SinPublicar) - Cardinality(EnPublicar)

\* No two queries are assigned to one Worker at a time.
AsignacionExclusiva ==
    \A i, j \in 1..Len(query_en_worker) :
        info[query_en_worker[i]].worker = info[query_en_worker[j]].worker => i = j

\* However often a query is preempted, and by whichever Worker it is resumed, its
\* lines are executed from the first on, each exactly once; the pc the Master keeps
\* for a waiting query is where it goes on.
InstruccionesEnOrden ==
    /\ \A q \in Queries : \A i \in 1..Len(hechas[q]) : hechas[q][i] = i
    /\ \A q \in Queries : En(q, cola_queries) => info[q].pc = Len(hechas[q])

\* A Query Control gets at most one final response.
RespuestaUnica == \A q \in Queries : Len(finales[q]) <= 1

\* A Query Control that is told "END" had every line of its file executed.
ExitoCompleto ==
    \A q \in Queries : En("END", finales[q]) => Len(hechas[q]) = Len(Programa[q])

\* Once its Query Control got a final response, no line of the query is executed.
NadaTrasElFinal == [][\A q \in Queries : finales[q] # <<>> => hechas'[q] = hechas[q]]_vars

\* The Master survives.
NuncaCae == master = "vivo"

\* A Worker drops a query as disconnected only when its Query Control left.
SoloSeVaLaDesconectada ==
    \A w \in Workers : \A i \in 1..Len(respuesta[w]) :
        respuesta[w][i].op = "QUERY_DESCONECTADO" => conexion[respuesta[w][i].query] # "abierta"

\* The query assigned to a Worker that the Master saw die is answered.
CaidaAvisada ==
    \A q \in Queries, w \in Workers :
        (En(q, query_en_worker) /\ info[q].worker = w /\ desconection[w]) ~> finales[q] # <<>>

\* Every query whose Query Control stays is answered, once a Worker that stays is there.
TodaQueryTermina ==
    \A q \in Queries \ QCsQueSeVan :
        (hilo["alta"][q] # "no" /\ \E w \in Workers \ PuedenCaer : Vivo(w)) ~> finales[q] # <<>>
===============================================================================
