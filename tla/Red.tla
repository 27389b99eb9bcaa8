--------------------------------- MODULE Red ---------------------------------
(***************************************************************************)
(* The TCP connections between the Master and the Workers, as              *)
(* utils/src/paquete.c uses them: enviar_paquete appends one whole packet, *)
(* recibir_paquete takes the oldest one (MSG_WAITALL) or returns NULL once *)
(* the peer is gone.  Each Worker opens two connections to the Master: the *)
(* dispatch one (assignments down, results up) and the interruption one.   *)
(* Nothing orders the packets of one connection against those of another.  *)
(* A packet for a dead Worker stays unread: it was answered with a reset.  *)
(***************************************************************************)
EXTENDS Integers, Sequences

CONSTANTS
    Queries,    \* the queries (one Query Control each), named by their id
    Workers,    \* the Workers, named by their id; each one connects once
    Ninguna     \* "no query" or "no worker": NULL, or a field never assigned

ASSUME RedAssumption == Ninguna \notin Queries \cup Workers

VARIABLES
    proceso,        \* proceso[w]: how far the Worker process w has got
    despacho,       \* despacho[w]: dispatch packets Master -> Worker, unread
    respuesta,      \* respuesta[w]: dispatch packets Worker -> Master, unread
    interrupcion    \* interrupcion[w]: interruption packets Master -> Worker

red == <<proceso, despacho, respuesta, interrupcion>>

\* Before its WORKER_ID is sent, between that and the second connect, running
\* its two threads, or dead: the system closed both of its connections.
EstadosProceso == {"ausente", "identificado", "conectado", "muerto"}

\* WORKER_ASSIGN_QUERY; the path and the priority are data of the query.
Asignacion == [query : Queries, pc : Nat]

\* WORKER_DESALOJO and WORKER_QUERY_DESCONECTADO, Master -> Worker.
Interrupciones == {"DESALOJO", "QUERY_DESCONECTADO"}

\* Worker -> Master.  ERROR stands for every WORKER_ERROR_* that the Master has
\* a case for: those twelve cases differ in the wording of the reply, and in
\* whether the socket of the Query Control is closed after it.
Operaciones == {"READ_RESULT", "QUERY_END", "ERROR", "PC_UPDATE",
                "QUERY_DESCONECTADO", "ERROR_QUERY_NO_ENCONTRADA"}

Mensaje == [op : Operaciones, query : Queries, pc : Nat]

Vivo(w) == proceso[w] \in {"identificado", "conectado"}

RedTypeOK ==
    /\ proceso \in [Workers -> EstadosProceso]
    /\ despacho \in [Workers -> Seq(Asignacion)]
    /\ respuesta \in [Workers -> Seq(Mensaje)]
    /\ interrupcion \in [Workers -> Seq(Interrupciones)]

RedInit ==
    /\ proceso = [w \in Workers |-> "ausente"]
    /\ despacho = [w \in Workers |-> <<>>]
    /\ respuesta = [w \in Workers |-> <<>>]
    /\ interrupcion = [w \in Workers |-> <<>>]

\* A packet was sent on this connection of w after w died.  The next send raises SIGPIPE,
\* which nobody handles, or is lost too if the reset is still on its way.
Reseteada(w, conexionDe) == proceso[w] = "muerto" /\ conexionDe[w] # <<>>

\* enviar_paquete on the dispatch connection of w.
EnviarDespacho(w, a) ==
    despacho' = IF Reseteada(w, despacho) THEN despacho
                ELSE [despacho EXCEPT ![w] = Append(@, a)]

\* enviar_paquete on the interruption connection of w.
EnviarInterrupcion(w, codigo) ==
    interrupcion' = IF Reseteada(w, interrupcion) THEN interrupcion
                    ELSE [interrupcion EXCEPT ![w] = Append(@, codigo)]

\* recibir_paquete on the dispatch connection, at the Master.
Llega(w, op) == respuesta[w] # <<>> /\ Head(respuesta[w]).op = op

Consumir(w) == respuesta' = [respuesta EXCEPT ![w] = Tail(@)]
==============================================================================
