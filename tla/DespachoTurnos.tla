---------------------------- MODULE DespachoTurnos ----------------------------
(***************************************************************************)
(* The types of Despacho, where a query is, and who has it.                *)
(*                                                                         *)
(* The Master moves a query between cola_queries, query_en_worker and the  *)
(* threads of the Workers in separate critical sections, and no            *)
(* interleaving of them makes it two or queues it twice.  With the types   *)
(* UnSoloLugar is inductive as it stands, because it also speaks of the    *)
(* query a thread holds between two critical sections.                     *)
(*                                                                         *)
(* Once the Master gave a query away, its assignment is in a connection,   *)
(* an interpreter is at it, or the answer that closes it is on its way     *)
(* back: at most one of these at a time, and none while the query waits,   *)
(* whatever is preempted, rejected or dies.  From it follow the order of   *)
(* the lines, what END means, that a Query Control is answered once, and   *)
(* that a Worker has one query.                                            *)
(***************************************************************************)
EXTENDS Despacho, SequenceTheorems, TLAPS

-------------------------------------------------------------------------------
(* The types *)

\* Init establishes the types.
LEMMA TipoInicial == Init => TypeOK
  BY RedAssumption, PlanificadorAssumption, InterpreteAssumption
  DEF Init, RedInit, PlanificadorInit, InterpreteInit, TypeOK, RedTypeOK, PlanificadorTypeOK,
      ListasOK, DeWorkersOK, DeQueriesOK, HaciaQCOK, AtencionOK, InterpreteTypeOK,
      EstadosProceso, Info, Hilos, Pasos, PasosAlta, PasosTimer, PasosVigia, PasosWorker, Pcb

\* A part of the type invariant whose variables do not change is kept.
LEMMA Marco ==
  /\ RedTypeOK /\ UNCHANGED red => RedTypeOK'
  /\ ListasOK /\ UNCHANGED <<listas, sem_queries>> => ListasOK'
  /\ DeWorkersOK /\ UNCHANGED deWorkers => DeWorkersOK'
  /\ DeQueriesOK /\ UNCHANGED deQueries => DeQueriesOK'
  /\ HaciaQCOK /\ UNCHANGED haciaQC => HaciaQCOK'
  /\ AtencionOK /\ UNCHANGED atencion => AtencionOK'
  /\ InterpreteTypeOK /\ UNCHANGED worker_vars => InterpreteTypeOK'
<1>1. RedTypeOK /\ UNCHANGED red => RedTypeOK'
  BY DEF RedTypeOK, red
<1>2. ListasOK /\ UNCHANGED <<listas, sem_queries>> => ListasOK'
  BY DEF ListasOK, listas
<1>3. DeWorkersOK /\ UNCHANGED deWorkers => DeWorkersOK'
  BY DEF DeWorkersOK, deWorkers
<1>4. DeQueriesOK /\ UNCHANGED deQueries => DeQueriesOK'
  BY DEF DeQueriesOK, deQueries
<1>5. HaciaQCOK /\ UNCHANGED haciaQC => HaciaQCOK'
  BY DEF HaciaQCOK, haciaQC
<1>6. AtencionOK /\ UNCHANGED atencion => AtencionOK'
  BY DEF AtencionOK, atencion
<1>7. InterpreteTypeOK /\ UNCHANGED worker_vars => InterpreteTypeOK'
  BY DEF InterpreteTypeOK, worker_vars
<1> QED BY <1>1, <1>2, <1>3, <1>4, <1>5, <1>6, <1>7

\* A thread of a query goes to another of its steps.
LEMMA AvanzaTipo ==
  ASSUME DeQueriesOK, NEW t \in Hilos, NEW q \in Queries, NEW paso \in Pasos, Avanza(t, q, paso)
  PROVE  hilo' \in [Hilos -> [Queries -> Pasos]]
  BY DEF Avanza, DeQueriesOK

\* The thread of a Worker goes to a step at which it needs no query.
LEMMA SigueTipo ==
  ASSUME AtencionOK, NEW w \in Workers, UNCHANGED enMano,
         NEW paso \in {"no", "esperar", "validar", "tomar", "leer", "atender", "fin"}, Sigue(w, paso)
  PROVE  AtencionOK'
  BY DEF Sigue, AtencionOK, PasosWorker

\* enviar_paquete sends what the connection carries.
LEMMA EnviarInterrupcionTipo ==
  ASSUME RedTypeOK, NEW w \in Workers, NEW codigo \in Interrupciones,
         EnviarInterrupcion(w, codigo)
  PROVE  interrupcion' \in [Workers -> Seq(Interrupciones)]
<1>1. Append(interrupcion[w], codigo) \in Seq(Interrupciones)
  BY DEF RedTypeOK
<1> QED BY <1>1 DEF EnviarInterrupcion, RedTypeOK

\* The same for the connection that carries the assignments.
LEMMA EnviarDespachoTipo ==
  ASSUME RedTypeOK, NEW w \in Workers, NEW a \in Asignacion, EnviarDespacho(w, a)
  PROVE  despacho' \in [Workers -> Seq(Asignacion)]
<1>1. Append(despacho[w], a) \in Seq(Asignacion)
  BY DEF RedTypeOK
<1> QED BY <1>1 DEF EnviarDespacho, RedTypeOK

\* The changes of the fields of a query.
LEMMA InfoTipo ==
  ASSUME info \in [Queries -> Info], NEW q \in Queries, NEW n \in Nat
  PROVE  /\ [info EXCEPT ![q].alive = TRUE, ![q].prioridad = n] \in [Queries -> Info]
         /\ \A e \in {"RUNNING", "EXIT"} : [info EXCEPT ![q].estado = e] \in [Queries -> Info]
         /\ [info EXCEPT ![q].estado = "READY", ![q].pc = n] \in [Queries -> Info]
         /\ [info EXCEPT ![q].pc = n] \in [Queries -> Info]
         /\ [info EXCEPT ![q].prioridad = n] \in [Queries -> Info]
         /\ \A w \in Workers : [info EXCEPT ![q].worker = w] \in [Queries -> Info]
<1> DEFINE R == Info
<1>1. ASSUME NEW i \in R PROVE [info EXCEPT ![q] = i] \in [Queries -> R]
  BY <1>1
<1>2. info[q] \in Info
  OBVIOUS
<1>3. [info EXCEPT ![q].alive = TRUE, ![q].prioridad = n]
        = [info EXCEPT ![q] = [info[q] EXCEPT !.alive = TRUE, !.prioridad = n]]
  OBVIOUS
<1>4. [info EXCEPT ![q].estado = "READY", ![q].pc = n]
        = [info EXCEPT ![q] = [info[q] EXCEPT !.estado = "READY", !.pc = n]]
  OBVIOUS
<1>5. /\ [info[q] EXCEPT !.alive = TRUE, !.prioridad = n] \in Info
      /\ [info[q] EXCEPT !.estado = "READY", !.pc = n] \in Info
  BY <1>2 DEF Info
<1>6. /\ \A e \in {"RUNNING", "EXIT"} : [info[q] EXCEPT !.estado = e] \in Info
      /\ [info[q] EXCEPT !.pc = n] \in Info
      /\ [info[q] EXCEPT !.prioridad = n] \in Info
      /\ \A w \in Workers : [info[q] EXCEPT !.worker = w] \in Info
  BY <1>2 DEF Info
<1> QED BY <1>1, <1>3, <1>4, <1>5, <1>6

\* chequeador_desalojo and realizar_desalojo, whichever thread calls them.
LEMMA ChequearTipo ==
  ASSUME TypeOK, NEW t \in Hilos, NEW q \in Queries, Chequear(t, q), UNCHANGED worker_vars
  PROVE  TypeOK'
<1>1. objetivo' \in [Hilos -> [Queries -> Workers \cup {Ninguna}]]
  <2>1. CASE UNCHANGED objetivo
    BY <2>1 DEF TypeOK, PlanificadorTypeOK, DeQueriesOK
  <2>2. ASSUME NEW w \in Workers \cup {Ninguna}, objetivo' = [objetivo EXCEPT ![t][q] = w]
        PROVE  objetivo' \in [Hilos -> [Queries -> Workers \cup {Ninguna}]]
    BY <2>2 DEF TypeOK, PlanificadorTypeOK, DeQueriesOK
  <2> QED BY <2>1, <2>2 DEF Chequear
<1>2. hilo' \in [Hilos -> [Queries -> Pasos]]
  <2>1. "desalojar" \in Pasos /\ Despues(t) \in Pasos
    BY DEF Despues, Pasos, PasosAlta, PasosTimer, PasosVigia, Hilos
  <2> QED BY <2>1, AvanzaTipo DEF Chequear, TypeOK, PlanificadorTypeOK
<1> QED BY <1>1, <1>2, Marco DEF Chequear, TypeOK, PlanificadorTypeOK, DeQueriesOK

\* The interruption of the chosen Worker is sent, or there is nobody to send it to.
LEMMA DesalojarTipo ==
  ASSUME TypeOK, NEW t \in Hilos, NEW q \in Queries, Desalojar(t, q), UNCHANGED worker_vars
  PROVE  TypeOK'
<1>1. objetivo' \in [Hilos -> [Queries -> Workers \cup {Ninguna}]]
  BY DEF Desalojar, TypeOK, PlanificadorTypeOK, DeQueriesOK
<1>2. hilo' \in [Hilos -> [Queries -> Pasos]]
  <2>1. Despues(t) \in Pasos
    BY DEF Despues, Pasos, PasosAlta, PasosTimer, PasosVigia, Hilos
  <2> QED BY <2>1, AvanzaTipo DEF Desalojar, TypeOK, PlanificadorTypeOK
<1>3. RedTypeOK'
  <2> DEFINE w == objetivo[t][q]
             codigo == IF t = "vigia" THEN "QUERY_DESCONECTADO" ELSE "DESALOJO"
  <2>1. w \in Workers /\ codigo \in Interrupciones
    BY DEF Desalojar, Interrupciones, TypeOK, PlanificadorTypeOK, DeWorkersOK
  <2>2. EnviarInterrupcion(w, codigo) \/ UNCHANGED interrupcion
    BY DEF Desalojar
  <2> HIDE DEF w, codigo
  <2>3. interrupcion' \in [Workers -> Seq(Interrupciones)]
    <3>1. CASE UNCHANGED interrupcion
      BY <3>1 DEF TypeOK, RedTypeOK
    <3>2. CASE EnviarInterrupcion(w, codigo)
      BY <3>2, <2>1, EnviarInterrupcionTipo DEF TypeOK
    <3> QED BY <3>1, <3>2, <2>2
  <2> QED BY <2>3 DEF Desalojar, TypeOK, RedTypeOK
<1> QED BY <1>1, <1>2, <1>3, Marco DEF Desalojar, TypeOK, PlanificadorTypeOK, DeQueriesOK

\* atender_Query, from the new query to its publication.
LEMMA TipoAlta ==
  ASSUME TypeOK, NEW q \in Queries, CrearQuery(q) \/ HiloAlta(q), UNCHANGED worker_vars
  PROVE  TypeOK'
<1> USE DEF TypeOK, PlanificadorTypeOK
<1>1. CASE CrearQuery(q)
  <2>1. info' \in [Queries -> Info]
    BY <1>1, InfoTipo, PlanificadorAssumption DEF CrearQuery, DeQueriesOK
  <2>2. hilo' \in [Hilos -> [Queries -> Pasos]]
    BY <1>1 DEF CrearQuery, DeQueriesOK, Pasos, PasosAlta, PasosTimer, PasosVigia, Hilos
  <2> QED BY <1>1, <2>1, <2>2, Marco DEF CrearQuery, DeQueriesOK
<1>2. CASE AsignarSocket(q)
  <2>1. hilo' \in [Hilos -> [Queries -> Pasos]]
    BY <1>2, AvanzaTipo DEF AsignarSocket, Pasos, PasosAlta, Hilos
  <2> QED BY <1>2, <2>1, Marco DEF AsignarSocket, DeQueriesOK
<1>3. CASE AsignarEstado(q)
  <2>1. info' \in [Queries -> Info]
    BY <1>3, InfoTipo DEF AsignarEstado, DeQueriesOK
  <2>2. hilo' \in [Hilos -> [Queries -> Pasos]]
    BY <1>3, AvanzaTipo DEF AsignarEstado, Pasos, PasosAlta, Hilos
  <2> QED BY <1>3, <2>1, <2>2, Marco DEF AsignarEstado, DeQueriesOK
<1>4. CASE Encolar(q)
  <2>1. ListasOK'
    BY <1>4 DEF Encolar, ListasOK
  <2>2. hilo' \in [Hilos -> [Queries -> Pasos]]
    BY <1>4, AvanzaTipo DEF Encolar, Pasos, PasosAlta, Hilos
  <2> QED BY <1>4, <2>1, <2>2, Marco DEF Encolar, DeQueriesOK
<1>5. CASE CrearTimer(q)
  <2>1. hilo' \in [Hilos -> [Queries -> Pasos]]
    BY <1>5 DEF CrearTimer, DeQueriesOK, Pasos, PasosAlta, PasosTimer, Hilos
  <2>2. semTimer' \in [Queries -> Nat]
    BY <1>5 DEF CrearTimer, DeQueriesOK
  <2> QED BY <1>5, <2>1, <2>2, Marco DEF CrearTimer, DeQueriesOK
<1>6. CASE Chequear("alta", q)
  BY <1>6, ChequearTipo DEF Hilos
<1>7. CASE Desalojar("alta", q)
  BY <1>7, DesalojarTipo DEF Hilos
<1>8. CASE Publicar(q)
  <2>1. ListasOK'
    BY <1>8 DEF Publicar, ListasOK, listas
  <2>2. hilo' \in [Hilos -> [Queries -> Pasos]]
    BY <1>8, AvanzaTipo DEF Publicar, Pasos, PasosAlta, Hilos
  <2> QED BY <1>8, <2>1, <2>2, Marco DEF Publicar, DeQueriesOK
<1> QED BY <1>1, <1>2, <1>3, <1>4, <1>5, <1>6, <1>7, <1>8 DEF HiloAlta

\* The thread of the aging keeps the types.
LEMMA TipoTimer ==
  ASSUME TypeOK, NEW q \in Queries, HiloTimer(q), UNCHANGED worker_vars
  PROVE  TypeOK'
<1> USE DEF TypeOK, PlanificadorTypeOK
<1>1. "timer" \in Hilos /\ {"dormir", "chequear", "parado", "fin"} \subseteq Pasos
  BY DEF Hilos, Pasos, PasosTimer
<1>2. SiguienteTimer(q) \in Pasos
  BY <1>1 DEF SiguienteTimer
<1>3. CASE Envejecer(q)
  <2>1. info' \in [Queries -> Info]
    <3>1. CASE UNCHANGED info
      BY <3>1 DEF DeQueriesOK
    <3>2. CASE Envejece(q) /\ info' = [info EXCEPT ![q].prioridad = @ - 1]
      <4>1. info[q].prioridad \in Nat /\ info[q].prioridad > 0
        BY <3>2 DEF Envejece, DeQueriesOK, Info
      <4>2. info[q].prioridad - 1 \in Nat
        BY <4>1
      <4>3. info' = [info EXCEPT ![q].prioridad = info[q].prioridad - 1]
        BY <3>2
      <4> QED BY <4>2, <4>3, InfoTipo DEF DeQueriesOK
    <3> QED BY <1>3, <3>1, <3>2 DEF Envejecer
  <2>2. hilo' \in [Hilos -> [Queries -> Pasos]]
    BY <1>1, <1>2, <1>3, AvanzaTipo DEF Envejecer
  <2> QED BY <1>3, <2>1, <2>2, Marco DEF Envejecer, DeQueriesOK
<1>4. CASE Chequear("timer", q)
  BY <1>1, <1>4, ChequearTipo
<1>5. CASE Desalojar("timer", q)
  BY <1>1, <1>5, DesalojarTipo
<1>6. CASE Releer(q)
  <2>1. hilo' \in [Hilos -> [Queries -> Pasos]]
    BY <1>1, <1>2, <1>6, AvanzaTipo DEF Releer
  <2> QED BY <1>6, <2>1, Marco DEF Releer, DeQueriesOK
<1>7. CASE DespertarTimer(q)
  <2>1. hilo' \in [Hilos -> [Queries -> Pasos]]
    BY <1>1, <1>7, AvanzaTipo DEF DespertarTimer
  <2>2. semTimer' \in [Queries -> Nat]
    BY <1>7 DEF DespertarTimer, DeQueriesOK
  <2> QED BY <1>7, <2>1, <2>2, Marco DEF DespertarTimer, DeQueriesOK
<1> QED BY <1>3, <1>4, <1>5, <1>6, <1>7 DEF HiloTimer

\* list_remove_by_condition leaves a list of the same kind.
LEMMA RemoveAtTipo ==
  ASSUME NEW S, NEW s \in Seq(S), NEW i \in 1..Len(s)
  PROVE  RemoveAt(s, i) \in Seq(S)
<1>1. SubSeq(s, 1, i - 1) \in Seq(S) /\ SubSeq(s, i + 1, Len(s)) \in Seq(S)
  BY SubSeqProperties
<1> QED BY <1>1, ConcatProperties DEF RemoveAt

\* eliminar_por_id leaves a list of queries.
LEMMA EliminarTipo ==
  ASSUME NEW s \in Seq(Queries), NEW q, NEW t, EliminarPorId(s, q, t)
  PROVE  t \in Seq(Queries)
  BY RemoveAtTipo DEF EliminarPorId

\* The thread that watches the Query Control keeps the types.
LEMMA TipoVigia ==
  ASSUME TypeOK, NEW q \in Queries, HiloVigia(q), UNCHANGED worker_vars
  PROVE  TypeOK'
<1> USE DEF TypeOK, PlanificadorTypeOK
<1>1. /\ "vigia" \in Hilos
      /\ {"corriendo", "desalojar", "lista", "quitar", "robar", "salir", "join", "fin"} \subseteq Pasos
  BY DEF Hilos, Pasos, PasosVigia
<1>2. CASE MirarSinNovedad(q)
  <2>1. hilo' \in [Hilos -> [Queries -> Pasos]]
    BY <1>1, <1>2, AvanzaTipo DEF MirarSinNovedad
  <2> QED BY <1>2, <2>1, Marco DEF MirarSinNovedad, DeQueriesOK
<1>3. CASE MirarDesconexion(q)
  <2>1. info' \in [Queries -> Info]
    BY <1>3 DEF MirarDesconexion, DeQueriesOK, Info
  <2>2. hilo' \in [Hilos -> [Queries -> Pasos]]
    BY <1>1, <1>3, AvanzaTipo DEF MirarDesconexion
  <2>3. HaciaQCOK'
    BY <1>3 DEF MirarDesconexion, HaciaQCOK
  <2> QED BY <1>3, <2>1, <2>2, <2>3, Marco DEF MirarDesconexion, DeQueriesOK
<1>4. CASE VigiaCorriendo(q)
  <2>1. hilo' \in [Hilos -> [Queries -> Pasos]]
    BY <1>1, <1>4, AvanzaTipo DEF VigiaCorriendo
  <2>2. objetivo' \in [Hilos -> [Queries -> Workers \cup {Ninguna}]]
    <3>1. info[q].worker \in Workers \cup {Ninguna}
      BY DEF DeQueriesOK, Info
    <3>2. CASE UNCHANGED objetivo
      BY <3>2 DEF DeQueriesOK
    <3>3. CASE objetivo' = [objetivo EXCEPT !["vigia"][q] = info[q].worker]
      BY <1>1, <3>1, <3>3 DEF DeQueriesOK
    <3> QED BY <1>4, <3>2, <3>3 DEF VigiaCorriendo
  <2> QED BY <1>4, <2>1, <2>2, Marco DEF VigiaCorriendo, DeQueriesOK
<1>5. CASE Desalojar("vigia", q)
  BY <1>1, <1>5, DesalojarTipo
<1>6. CASE VigiaLista(q)
  <2>1. hilo' \in [Hilos -> [Queries -> Pasos]]
    BY <1>1, <1>6, AvanzaTipo DEF VigiaLista
  <2> QED BY <1>6, <2>1, Marco DEF VigiaLista, DeQueriesOK
<1>7. CASE VigiaQuitar(q)
  <2>1. hilo' \in [Hilos -> [Queries -> Pasos]]
    BY <1>1, <1>7, AvanzaTipo DEF VigiaQuitar
  <2>2. ListasOK'
    BY <1>7, EliminarTipo DEF VigiaQuitar, ListasOK
  <2> QED BY <1>7, <2>1, <2>2, Marco DEF VigiaQuitar, DeQueriesOK
<1>8. CASE VigiaRobar(q)
  <2>1. hilo' \in [Hilos -> [Queries -> Pasos]]
    BY <1>1, <1>8, AvanzaTipo DEF VigiaRobar
  <2>2. ListasOK'
    BY <1>8 DEF VigiaRobar, ListasOK, listas
  <2> QED BY <1>8, <2>1, <2>2, Marco DEF VigiaRobar, DeQueriesOK
<1>9. CASE VigiaSalir(q)
  <2>1. hilo' \in [Hilos -> [Queries -> Pasos]]
    BY <1>1, <1>9, AvanzaTipo DEF VigiaSalir
  <2>2. info' \in [Queries -> Info]
    BY <1>9 DEF VigiaSalir, DeQueriesOK, Info
  <2>3. semTimer' \in [Queries -> Nat]
    BY <1>9 DEF VigiaSalir, DeQueriesOK
  <2> QED BY <1>9, <2>1, <2>2, <2>3, Marco DEF VigiaSalir, DeQueriesOK
<1>10. CASE VigiaJoin(q)
  <2>1. hilo' \in [Hilos -> [Queries -> Pasos]]
    BY <1>1, <1>10, AvanzaTipo DEF VigiaJoin
  <2> QED BY <1>10, <2>1, Marco DEF VigiaJoin, DeQueriesOK
<1> QED
  BY <1>2, <1>3, <1>4, <1>5, <1>6, <1>7, <1>8, <1>9, <1>10 DEF HiloVigia

\* What comes in and goes out between the Master and the Query Controls.
LEMMA EnviarTipo ==
  ASSUME HaciaQCOK, NEW q \in Queries, Enviar(q) \/ EnviarYCerrar(q)
  PROVE  conexion' \in [Queries -> {"abierta", "fin", "reset", "cerrada"}]
  BY DEF HaciaQCOK, Enviar, EnviarYCerrar

\* A Query Control gets a final answer.
LEMMA RecibidoTipo ==
  ASSUME HaciaQCOK, NEW q \in Queries, NEW r \in {"END", "ERROR", "WORKER_DESCONECTADO"},
         Recibido(q, r)
  PROVE  finales' \in [Queries -> Seq({"END", "ERROR", "WORKER_DESCONECTADO"})]
<1>1. Append(finales[q], r) \in Seq({"END", "ERROR", "WORKER_DESCONECTADO"})
  BY DEF HaciaQCOK
<1> QED BY <1>1 DEF HaciaQCOK, Recibido

\* The Master takes the oldest packet of w, which is a Mensaje.
LEMMA ConsumirTipo ==
  ASSUME RedTypeOK, NEW w \in Workers, NEW op, Llega(w, op)
  PROVE  /\ Head(respuesta[w]) \in Mensaje
         /\ Consumir(w) /\ UNCHANGED <<proceso, despacho, interrupcion>> => RedTypeOK'
<1>1. respuesta[w] \in Seq(Mensaje) /\ respuesta[w] # <<>>
  BY DEF RedTypeOK, Llega
<1>2. Head(respuesta[w]) \in Mensaje /\ Tail(respuesta[w]) \in Seq(Mensaje)
  BY <1>1, HeadTailProperties
<1> QED BY <1>2 DEF RedTypeOK, Consumir

\* The thread of a Worker, up to the dispatch of a query.
LEMMA TipoAtencion ==
  ASSUME TypeOK, NEW w \in Workers, UNCHANGED worker_vars,
         \/ EsperarQuery(w) \/ ValidarWorker(w) \/ TomarQuery(w) \/ RecibirPaquete(w)
         \/ MarcarRunning(w) \/ RegistrarYEnviar(w) \/ Reencolar(w) \/ PublicarDesalojada(w)
  PROVE  TypeOK'
<1> USE DEF TypeOK, PlanificadorTypeOK
<1>1. CASE EsperarQuery(w)
  <2>1. ListasOK'
    BY <1>1 DEF EsperarQuery, ListasOK, listas
  <2>2. AtencionOK'
    BY <1>1, SigueTipo DEF EsperarQuery
  <2> QED BY <1>1, <2>1, <2>2, Marco DEF EsperarQuery
<1>2. CASE ValidarWorker(w)
  <2>1. ListasOK'
    BY <1>2 DEF ValidarWorker, ListasOK, listas
  <2>2. DeWorkersOK'
    BY <1>2 DEF ValidarWorker, DeWorkersOK
  <2>3. AtencionOK'
    BY <1>2, SigueTipo DEF ValidarWorker
  <2> QED BY <1>2, <2>1, <2>2, <2>3, Marco DEF ValidarWorker
<1>3. CASE TomarQuery(w)
  <2>1. CASE cola_queries = <<>> /\ Sigue(w, "esperar") /\ UNCHANGED <<cola_queries, enMano>>
    <3>1. AtencionOK'
      BY <2>1, SigueTipo
    <3> QED BY <1>3, <2>1, <3>1, Marco DEF TomarQuery, listas
  <2>2. ASSUME NEW i \in 1..Len(cola_queries),
               enMano' = [enMano EXCEPT ![w] = cola_queries[i]],
               cola_queries' = RemoveAt(cola_queries, i),
               Sigue(w, "marcar")
        PROVE  TypeOK'
    <3>1. cola_queries[i] \in Queries /\ cola_queries[i] # Ninguna
      BY <2>2, RedAssumption DEF ListasOK
    <3>2. AtencionOK'
      BY <2>2, <3>1 DEF AtencionOK, Sigue, PasosWorker
    <3>3. ListasOK'
      BY <1>3, <2>2, RemoveAtTipo DEF TomarQuery, ListasOK
    <3> QED BY <1>3, <3>2, <3>3, Marco DEF TomarQuery
  <2> QED BY <1>3, <2>1, <2>2 DEF TomarQuery
<1>4. CASE MarcarRunning(w)
  <2>1. enMano[w] \in Queries
    BY <1>4 DEF MarcarRunning, AtencionOK
  <2>2. DeQueriesOK'
    BY <1>4, <2>1, InfoTipo DEF MarcarRunning, DeQueriesOK
  <2>3. AtencionOK'
    BY <1>4 DEF MarcarRunning, AtencionOK, Sigue, PasosWorker
  <2> QED BY <1>4, <2>2, <2>3, Marco DEF MarcarRunning
<1>5. CASE RegistrarYEnviar(w)
  <2>1. enMano[w] \in Queries
    BY <1>5 DEF RegistrarYEnviar, AtencionOK
  <2>2. DeQueriesOK'
    BY <1>5, <2>1, InfoTipo DEF RegistrarYEnviar, DeQueriesOK
  <2>3. ListasOK'
    BY <1>5, <2>1 DEF RegistrarYEnviar, ListasOK
  <2>4. AtencionOK'
    BY <1>5 DEF RegistrarYEnviar, AtencionOK, Sigue, PasosWorker
  <2>5. RedTypeOK'
    <3>1. [query |-> enMano[w], pc |-> info[enMano[w]].pc] \in Asignacion
      BY <2>1 DEF Asignacion, DeQueriesOK, Info
    <3>2. despacho' \in [Workers -> Seq(Asignacion)]
      BY <1>5, <3>1, EnviarDespachoTipo DEF RegistrarYEnviar, RedTypeOK
    <3> QED BY <1>5, <3>2 DEF RegistrarYEnviar, RedTypeOK
  <2> QED BY <1>5, <2>2, <2>3, <2>4, <2>5, Marco DEF RegistrarYEnviar
<1>6. CASE Reencolar(w)
  <2>1. enMano[w] \in Queries
    BY <1>6 DEF Reencolar, AtencionOK
  <2>2. ListasOK'
    BY <1>6, <2>1 DEF Reencolar, ListasOK
  <2>3. AtencionOK'
    BY <1>6 DEF Reencolar, AtencionOK, Sigue, PasosWorker
  <2> QED BY <1>6, <2>2, <2>3, Marco DEF Reencolar
<1>7. CASE PublicarDesalojada(w)
  <2>1. DeQueriesOK'
    <3>0. enMano[w] \in Queries
      BY <1>7 DEF PublicarDesalojada, AtencionOK
    <3>1. semTimer' \in [Queries -> Nat]
      BY <1>7, <3>0 DEF PublicarDesalojada, DeQueriesOK
    <3> QED BY <1>7, <3>1 DEF PublicarDesalojada, DeQueriesOK
  <2>2. ListasOK'
    BY <1>7 DEF PublicarDesalojada, ListasOK, listas
  <2>3. AtencionOK'
    BY <1>7 DEF PublicarDesalojada, AtencionOK, Sigue, PasosWorker
  <2> QED BY <1>7, <2>1, <2>2, <2>3, Marco DEF PublicarDesalojada
<1>8. CASE RecibirPaquete(w)
  <2>1. AtencionOK'
    BY <1>8, SigueTipo DEF RecibirPaquete
  <2> QED BY <1>8, <2>1, Marco DEF RecibirPaquete
<1> QED BY <1>1, <1>2, <1>3, <1>4, <1>5, <1>6, <1>7, <1>8

\* The thread of a Worker, with each of the answers it may read.
LEMMA TipoRecepcion ==
  ASSUME TypeOK, NEW w \in Workers, UNCHANGED worker_vars,
         \/ RecibirRead(w) \/ RecibirEnd(w) \/ RecibirError(w) \/ AbandonarWorker(w)
         \/ RecibirPC(w) \/ RecibirDesconectado(w)
  PROVE  TypeOK'
<1> DEFINE m == Head(respuesta[w])
<1> USE DEF TypeOK, PlanificadorTypeOK
<1>1. m \in Mensaje /\ RedTypeOK'
  <2>1. \E op : Llega(w, op)
    BY DEF RecibirRead, RecibirEnd, RecibirError, AbandonarWorker, RecibirPC, RecibirDesconectado, Recibe
  <2>2. Consumir(w) /\ UNCHANGED <<proceso, despacho, interrupcion>>
    BY DEF RecibirRead, RecibirEnd, RecibirError, AbandonarWorker, RecibirPC, RecibirDesconectado
  <2> QED BY <2>1, <2>2, ConsumirTipo
<1>2. m.query \in Queries /\ m.pc \in Nat
  BY <1>1 DEF Mensaje
<1> HIDE DEF m
<1>3. CASE RecibirRead(w)
  <2>1. DeQueriesOK'
    BY <1>2, <1>3, InfoTipo DEF RecibirRead, DeQueriesOK, m
  <2>2. HaciaQCOK'
    BY <1>2, <1>3, EnviarTipo DEF RecibirRead, HaciaQCOK, m
  <2>3. AtencionOK'
    BY <1>3, SigueTipo DEF RecibirRead
  <2> QED BY <1>1, <1>3, <2>1, <2>2, <2>3, Marco DEF RecibirRead
<1>4. CASE RecibirEnd(w)
  <2>1. DeQueriesOK'
    BY <1>2, <1>4, InfoTipo DEF RecibirEnd, DeQueriesOK, m
  <2>2. HaciaQCOK'
    BY <1>2, <1>4, EnviarTipo, RecibidoTipo DEF RecibirEnd, HaciaQCOK, m
  <2>3. ListasOK'
    BY <1>4, EliminarTipo DEF RecibirEnd, ListasOK
  <2>4. AtencionOK'
    BY <1>4, SigueTipo DEF RecibirEnd
  <2> QED BY <1>1, <1>4, <2>1, <2>2, <2>3, <2>4, Marco DEF RecibirEnd
<1>5. CASE RecibirError(w)
  <2>1. DeQueriesOK'
    BY <1>2, <1>5, InfoTipo DEF RecibirError, DeQueriesOK, m
  <2>2. HaciaQCOK'
    BY <1>2, <1>5, EnviarTipo, RecibidoTipo DEF RecibirError, HaciaQCOK, m
  <2>3. ListasOK'
    BY <1>5, EliminarTipo DEF RecibirError, ListasOK
  <2>4. AtencionOK'
    BY <1>5, SigueTipo DEF RecibirError
  <2> QED BY <1>1, <1>5, <2>1, <2>2, <2>3, <2>4, Marco DEF RecibirError
<1>6. CASE AbandonarWorker(w)
  <2>1. AtencionOK'
    BY <1>6, SigueTipo DEF AbandonarWorker
  <2> QED BY <1>1, <1>6, <2>1, Marco DEF AbandonarWorker
<1>7. CASE RecibirPC(w)
  <2>1. CASE /\ EliminarPorId(query_en_worker, m.query, query_en_worker')
             /\ info' = [info EXCEPT ![m.query].estado = "READY", ![m.query].pc = m.pc]
             /\ enMano' = [enMano EXCEPT ![w] = m.query]
             /\ Sigue(w, "reencolar")
    <3>0. UNCHANGED <<semTimer, hilo, objetivo>>
      BY <1>7 DEF RecibirPC
    <3>1. DeQueriesOK'
      BY <1>2, <2>1, <3>0, InfoTipo DEF DeQueriesOK
    <3>2. ListasOK'
      BY <1>7, <2>1, EliminarTipo DEF RecibirPC, ListasOK
    <3>3. AtencionOK'
      <4>1. m.query # Ninguna
        BY <1>2, RedAssumption
      <4> QED BY <1>2, <2>1, <4>1 DEF Sigue, AtencionOK, PasosWorker
    <3> QED BY <1>1, <1>7, <3>1, <3>2, <3>3, Marco DEF RecibirPC
  <2>2. CASE Sigue(w, "esperar") /\ UNCHANGED <<query_en_worker, info, enMano>>
    <3>1. AtencionOK'
      BY <2>2, SigueTipo
    <3> QED BY <1>1, <1>7, <2>2, <3>1, Marco DEF RecibirPC, listas, deQueries
  <2> QED BY <1>7, <2>1, <2>2 DEF RecibirPC, m
<1>8. CASE RecibirDesconectado(w)
  <2>1. DeQueriesOK'
    BY <1>2, <1>8, InfoTipo DEF RecibirDesconectado, DeQueriesOK, m
  <2>2. ListasOK'
    BY <1>8, EliminarTipo DEF RecibirDesconectado, ListasOK
  <2>3. AtencionOK'
    BY <1>8, SigueTipo DEF RecibirDesconectado
  <2> QED BY <1>1, <1>8, <2>1, <2>2, <2>3, Marco DEF RecibirDesconectado
<1> QED BY <1>3, <1>4, <1>5, <1>6, <1>7, <1>8

\* A Worker arrives, or is given up.
LEMMA TipoVidaWorker ==
  ASSUME TypeOK, NEW w \in Workers, UNCHANGED worker_vars,
         IdentificarWorker(w) \/ RecibirNulo(w) \/ HiloVigiaWorker(w)
  PROVE  TypeOK'
<1> USE DEF TypeOK, PlanificadorTypeOK
<1>1. CASE IdentificarWorker(w)
  <2>1. RedTypeOK'
    BY <1>1 DEF IdentificarWorker, RedTypeOK, EstadosProceso
  <2>2. DeWorkersOK'
    BY <1>1 DEF IdentificarWorker, DeWorkersOK
  <2>3. AtencionOK'
    BY <1>1, SigueTipo DEF IdentificarWorker
  <2> QED BY <1>1, <2>1, <2>2, <2>3, Marco DEF IdentificarWorker
<1>2. CASE RecibirNulo(w)
  <2>1. DeWorkersOK'
    BY <1>2 DEF RecibirNulo, DeWorkersOK
  <2>2. AtencionOK'
    BY <1>2, SigueTipo DEF RecibirNulo
  <2> QED BY <1>2, <2>1, <2>2, Marco DEF RecibirNulo
<1>3. CASE AtenderInterrupcion(w)
  <2>1. RedTypeOK'
    BY <1>3 DEF AtenderInterrupcion, RedTypeOK, EstadosProceso
  <2>2. DeWorkersOK'
    BY <1>3 DEF AtenderInterrupcion, DeWorkersOK
  <2> QED BY <1>3, <2>1, <2>2, Marco DEF AtenderInterrupcion
<1>4. CASE DetectarCaida(w)
  <2>1. DeWorkersOK'
    BY <1>4 DEF DetectarCaida, DeWorkersOK
  <2> QED BY <1>4, <2>1, Marco DEF DetectarCaida
<1>5. CASE AvisarCaida(w)
  <2>1. UNCHANGED <<semTimer, hilo, objetivo>>
    BY <1>5 DEF AvisarCaida
  <2>2. ASSUME NEW q \in Queries,
               info' = [info EXCEPT ![q].estado = "EXIT"],
               avisada' = [avisada EXCEPT ![w] = q],
               vigiaWorker' = [vigiaWorker EXCEPT ![w] = "avisar"]
        PROVE  DeQueriesOK' /\ DeWorkersOK'
    <3>1. DeQueriesOK'
      BY <2>1, <2>2, InfoTipo DEF DeQueriesOK
    <3>2. DeWorkersOK'
      BY <1>5, <2>2, RedAssumption DEF AvisarCaida, DeWorkersOK
    <3> QED BY <3>1, <3>2
  <2>3. CASE UNCHANGED <<info, avisada>> /\ vigiaWorker' = [vigiaWorker EXCEPT ![w] = "esperar"]
    <3>1. DeWorkersOK'
      BY <1>5, <2>3 DEF AvisarCaida, DeWorkersOK
    <3> QED BY <1>5, <2>1, <2>3, <3>1, Marco DEF AvisarCaida, deQueries
  <2>4. \A i \in 1..Len(query_en_worker) : query_en_worker[i] \in Queries
    BY DEF ListasOK
  <2> QED BY <1>5, <2>2, <2>3, <2>4, Marco DEF AvisarCaida
<1>6. CASE RetirarWorker(w)
  <2>1. DeWorkersOK'
    BY <1>6 DEF RetirarWorker, DeWorkersOK
  <2> QED BY <1>6, <2>1, Marco DEF RetirarWorker
<1>7. CASE DescontarWorker(w)
  <2>1. DeWorkersOK'
    BY <1>7 DEF DescontarWorker, DeWorkersOK
  <2> QED BY <1>7, <2>1, Marco DEF DescontarWorker
<1>8. CASE ResponderCaida(w)
  <2>1. DeWorkersOK'
    BY <1>8 DEF ResponderCaida, DeWorkersOK
  <2>2. avisada[w] \in Queries
    BY <1>8 DEF ResponderCaida, DeWorkersOK
  <2>3. HaciaQCOK'
    BY <1>8, <2>2, EnviarTipo, RecibidoTipo DEF ResponderCaida, HaciaQCOK
  <2> QED BY <1>8, <2>1, <2>3, Marco DEF ResponderCaida
<1> QED BY <1>1, <1>2, <1>3, <1>4, <1>5, <1>6, <1>7, <1>8 DEF HiloVigiaWorker

\* The fall of the Master keeps the types.
LEMMA TipoCaer ==
  ASSUME TypeOK, Caer, UNCHANGED worker_vars
  PROVE  TypeOK'
  BY Marco DEF Caer, TypeOK, PlanificadorTypeOK

\* A Query Control leaves.
LEMMA TipoIrseQC ==
  ASSUME TypeOK, NEW q \in Queries, IrseQC(q), UNCHANGED worker_vars
  PROVE  TypeOK'
<1>1. HaciaQCOK'
  BY DEF TypeOK, PlanificadorTypeOK, IrseQC, HaciaQCOK
<1> QED BY <1>1, Marco DEF TypeOK, PlanificadorTypeOK, IrseQC

\* A Query Control got its final response.
LEMMA TipoTerminarQC ==
  ASSUME TypeOK, NEW q \in Queries, TerminarQC(q), UNCHANGED worker_vars
  PROVE  TypeOK'
<1>1. HaciaQCOK'
  BY DEF TypeOK, PlanificadorTypeOK, TerminarQC, HaciaQCOK
<1> QED BY <1>1, Marco DEF TypeOK, PlanificadorTypeOK, TerminarQC

\* The results an instruction may have.
LEMMA PaquetesTipo ==
  /\ <<>> \in Seq(Operaciones) /\ <<"READ_RESULT">> \in Seq(Operaciones)
  /\ <<"ERROR">> \in Seq(Operaciones) /\ <<"ERROR", "ERROR">> \in Seq(Operaciones)
  /\ <<"PC_UPDATE">> \in Seq(Operaciones) /\ <<"QUERY_DESCONECTADO">> \in Seq(Operaciones)
<1>1. {"READ_RESULT", "ERROR", "PC_UPDATE", "QUERY_DESCONECTADO"} \subseteq Operaciones
  BY DEF Operaciones
<1> QED BY <1>1

\* The Worker answers with packets that the Master has cases for.
LEMMA ResponderTipo ==
  ASSUME TypeOK, NEW w \in Workers, ejec[w].query # Ninguna,
         NEW ops \in Seq(Operaciones), NEW pc \in Nat, Responder(w, ops, pc)
  PROVE  respuesta' \in [Workers -> Seq(Mensaje)]
<1> DEFINE f == [i \in 1..Len(ops) |-> [op |-> ops[i], query |-> ejec[w].query, pc |-> pc]]
<1>1. ejec[w].query \in Queries
  BY DEF TypeOK, InterpreteTypeOK, Pcb
<1>2. \A i \in 1..Len(ops) : [op |-> ops[i], query |-> ejec[w].query, pc |-> pc] \in Mensaje
  BY <1>1 DEF Mensaje
<1>3. f \in Seq(Mensaje)
  <2>1. Len(ops) \in Nat
    OBVIOUS
  <2>2. f \in [1..Len(ops) -> Mensaje]
    BY <1>2
  <2> HIDE DEF f
  <2> QED BY <2>1, <2>2
<1> HIDE DEF f
<1>4. respuesta[w] \o f \in Seq(Mensaje)
  BY <1>3, ConcatProperties DEF TypeOK, RedTypeOK
<1>5. respuesta' = [respuesta EXCEPT ![w] = respuesta[w] \o f]
  BY DEF Responder, f
<1> QED BY <1>4, <1>5 DEF TypeOK, RedTypeOK

\* What decoding an instruction does to the interpreter.
LEMMA DecodificaTipo ==
  ASSUME TypeOK, NEW w \in Workers, NEW i, Decodifica(w, i)
  PROVE  /\ ejec' \in [Workers -> Pcb]
         /\ ejec'[w].pc \in Nat /\ Fetch(ejec[w]) \in Nat
         /\ ejec[w].query # Ninguna
         /\ \A v \in Workers : ejec'[v].query = ejec[v].query
<1>1. ejec[w] \in Pcb /\ ejec[w].pc + 1 \in Nat
  BY DEF TypeOK, InterpreteTypeOK, Pcb
<1>2. Fetch(ejec[w]) \in Nat
  BY <1>1 DEF Fetch, Pcb
<1>3. ejec' = [ejec EXCEPT ![w].pc = ejec[w].pc + 1, ![w].linea = Fetch(ejec[w])]
  BY DEF Decodifica
<1>4. ejec' \in [Workers -> Pcb] /\ \A v \in Workers : ejec'[v].query = ejec[v].query
  <2>1. ejec \in [Workers -> Pcb]
    BY DEF TypeOK, InterpreteTypeOK
  <2> QED BY <1>1, <1>2, <1>3, <2>1 DEF Pcb
<1>5. ejec'[w].pc \in Nat
  BY <1>4 DEF Pcb
<1>6. ejec[w].query # Ninguna
  BY DEF Decodifica, Corre, TypeOK, InterpreteTypeOK
<1> QED BY <1>2, <1>4, <1>5, <1>6

\* The interpreter goes to another of its phases.
LEMMA PasaTipo ==
  ASSUME InterpreteTypeOK, NEW w \in Workers, NEW f \in {"recibir", "liberar", "ciclo", "chequear"},
         Pasa(w, f), f \in {"ciclo", "chequear"} => ejec[w].query # Ninguna,
         \A v \in Workers : ejec'[v].query = ejec[v].query
  PROVE  /\ fase' \in [Workers -> {"recibir", "liberar", "ciclo", "chequear"}]
         /\ \A v \in Workers : fase'[v] \in {"ciclo", "chequear"} => ejec'[v].query # Ninguna
  BY DEF InterpreteTypeOK, Pasa

\* A Worker dies, and its sockets with it.
LEMMA MorirTipo ==
  ASSUME RedTypeOK, NEW w \in Workers, Morir(w), UNCHANGED respuesta
  PROVE  RedTypeOK'
  BY DEF RedTypeOK, Morir, EstadosProceso

\* The thread of the Worker that executes the queries keeps the types.
LEMMA TipoEjecutar ==
  ASSUME TypeOK, NEW w \in Workers, HiloEjecutar(w), UNCHANGED master_vars
  PROVE  TypeOK'
<1>1. PlanificadorTypeOK'
  BY Marco DEF TypeOK, PlanificadorTypeOK, master_vars
<1> DEFINE Fases == /\ fase' \in [Workers -> {"recibir", "liberar", "ciclo", "chequear"}]
                    /\ \A v \in Workers : fase'[v] \in {"ciclo", "chequear"} => ejec'[v].query # Ninguna
<1>2. CASE RecibirPath(w)
  <2> DEFINE a == Head(despacho[w])
  <2>1. a \in Asignacion /\ Tail(despacho[w]) \in Seq(Asignacion)
    BY <1>2, HeadTailProperties DEF RecibirPath, TypeOK, RedTypeOK
  <2>2. a.query \in Queries /\ a.pc \in Nat /\ a.query # Ninguna
    BY <2>1, RedAssumption DEF Asignacion
  <2>3. ejec' = [ejec EXCEPT ![w] = [query |-> a.query, pcb |-> a.pc, pc |-> a.pc, linea |-> 0]]
    BY <1>2 DEF RecibirPath
  <2> HIDE DEF a
  <2>4. ejec' \in [Workers -> Pcb]
    BY <2>2, <2>3 DEF Pcb, TypeOK, InterpreteTypeOK
  <2>5. Fases
    BY <1>2, <2>2, <2>3 DEF RecibirPath, Pasa, TypeOK, InterpreteTypeOK
  <2>6. RedTypeOK'
    BY <1>2, <2>1 DEF RecibirPath, TypeOK, RedTypeOK
  <2> QED BY <1>1, <1>2, <2>4, <2>5, <2>6 DEF RecibirPath, TypeOK, InterpreteTypeOK
<1>3. CASE RecibirSinArchivo(w)
  <2> DEFINE a == Head(despacho[w])
             m == [op |-> "ERROR_QUERY_NO_ENCONTRADA", query |-> a.query, pc |-> 0]
  <2>1. a \in Asignacion /\ Tail(despacho[w]) \in Seq(Asignacion)
    BY <1>3, HeadTailProperties DEF RecibirSinArchivo, TypeOK, RedTypeOK
  <2>2. m \in Mensaje
    BY <2>1 DEF Asignacion, Mensaje, Operaciones
  <2>3. respuesta' = [respuesta EXCEPT ![w] = Append(respuesta[w], m)]
    BY <1>3 DEF RecibirSinArchivo
  <2> HIDE DEF m
  <2>4. respuesta' \in [Workers -> Seq(Mensaje)]
    BY <2>2, <2>3 DEF TypeOK, RedTypeOK
  <2>5. RedTypeOK'
    BY <1>3, <2>1, <2>4 DEF RecibirSinArchivo, TypeOK, RedTypeOK
  <2>6. Fases
    BY <1>3, PasaTipo DEF RecibirSinArchivo, TypeOK
  <2> QED BY <1>1, <1>3, <2>5, <2>6 DEF RecibirSinArchivo, TypeOK, InterpreteTypeOK
<1>4. CASE LiberarNombre(w)
  <2>1. RedTypeOK'
    BY <1>4, MorirTipo, Marco DEF LiberarNombre, TypeOK
  <2>2. Fases
    BY <1>4, PasaTipo DEF LiberarNombre, TypeOK, InterpreteTypeOK
  <2> QED BY <1>1, <1>4, <2>1, <2>2 DEF LiberarNombre, TypeOK, InterpreteTypeOK
<1>5. CASE AbandonarCiclo(w)
  <2>1. Fases
    BY <1>5, PasaTipo DEF AbandonarCiclo, TypeOK
  <2>2. error_storage' \in [Workers -> BOOLEAN]
    BY <1>5 DEF AbandonarCiclo, TypeOK, InterpreteTypeOK
  <2> QED BY <1>1, <1>5, <2>1, <2>2, Marco DEF AbandonarCiclo, TypeOK, InterpreteTypeOK
<1>6. CASE Terminar(w)
  <2>1. PICK i \in {"END", "DESCONOCIDA", "INCOMPLETA"}, op \in {"QUERY_END", "ERROR"} :
           Decodifica(w, i) /\ Responder(w, <<op>>, 0)
    BY <1>6 DEF Terminar
  <2>2. respuesta' \in [Workers -> Seq(Mensaje)]
    <3>1. <<op>> \in Seq(Operaciones)
      BY DEF Operaciones
    <3> QED BY <2>1, <3>1, DecodificaTipo, ResponderTipo
  <2>3. Fases
    BY <1>6, <2>1, DecodificaTipo, PasaTipo DEF Terminar, TypeOK
  <2>4. RedTypeOK'
    BY <1>6, <2>2 DEF Terminar, TypeOK, RedTypeOK
  <2>5. ejec' \in [Workers -> Pcb]
    BY <2>1, DecodificaTipo
  <2> QED BY <1>1, <1>6, <2>3, <2>4, <2>5 DEF Terminar, TypeOK, InterpreteTypeOK
<1>7. ASSUME NEW i \in {"STORAGE", "READ", "COMMIT"}, Ejecutar(w, i)
      PROVE  TypeOK'
  <2>1. Decodifica(w, i)
    BY <1>7 DEF Ejecutar
  <2>2. respuesta' \in [Workers -> Seq(Mensaje)]
    <3>1. Exito(i) \in Seq(Operaciones) /\ \A f \in Fallos(i) : f \in Seq(Operaciones)
      BY PaquetesTipo DEF Exito, Fallos
    <3> QED BY <1>7, <2>1, <3>1, DecodificaTipo, ResponderTipo DEF Ejecutar
  <2>3. Fases
    BY <1>7, <2>1, DecodificaTipo, PasaTipo DEF Ejecutar, TypeOK
  <2>4. RedTypeOK'
    BY <1>7, <2>2 DEF Ejecutar, TypeOK, RedTypeOK
  <2>5. ejec' \in [Workers -> Pcb] /\ ejec[w].query \in Queries /\ Fetch(ejec[w]) \in Nat
    BY <2>1, DecodificaTipo DEF TypeOK, InterpreteTypeOK, Pcb
  <2>6. hechas' \in [Queries -> Seq(Nat)]
    BY <1>7, <2>5 DEF Ejecutar, TypeOK, InterpreteTypeOK
  <2>7. error_storage' \in [Workers -> BOOLEAN]
    BY <1>7 DEF Ejecutar, TypeOK, InterpreteTypeOK
  <2> QED BY <1>1, <1>7, <2>3, <2>4, <2>5, <2>6, <2>7 DEF Ejecutar, TypeOK, InterpreteTypeOK
<1>8. CASE ChequearInterrupcion(w)
  <2>1. ejec[w].query # Ninguna /\ ejec[w].pc \in Nat
    BY <1>8 DEF ChequearInterrupcion, Corre, TypeOK, InterpreteTypeOK, Pcb
  <2>2. respuesta' \in [Workers -> Seq(Mensaje)]
    <3>1. CASE UNCHANGED respuesta
      BY <3>1 DEF TypeOK, RedTypeOK
    <3>2. ASSUME NEW ops \in {<<"QUERY_DESCONECTADO">>, <<"PC_UPDATE">>}, Responder(w, ops, ejec[w].pc)
          PROVE  respuesta' \in [Workers -> Seq(Mensaje)]
      <4>1. ops \in Seq(Operaciones)
        BY PaquetesTipo
      <4> QED BY <2>1, <3>2, <4>1, ResponderTipo
    <3> QED BY <1>8, <3>1, <3>2 DEF ChequearInterrupcion
  <2>3. Fases
    BY <1>8, <2>1, PasaTipo DEF ChequearInterrupcion, TypeOK
  <2>4. RedTypeOK'
    BY <1>8, <2>2 DEF ChequearInterrupcion, TypeOK, RedTypeOK
  <2>5. hay_interrupcion' \in [Workers -> BOOLEAN]
    BY <1>8 DEF ChequearInterrupcion, TypeOK, InterpreteTypeOK
  <2> QED BY <1>1, <1>8, <2>3, <2>4, <2>5 DEF ChequearInterrupcion, TypeOK, InterpreteTypeOK
<1> QED BY <1>2, <1>3, <1>4, <1>5, <1>6, <1>7, <1>8 DEF HiloEjecutar

\* The thread of the Worker that reads interruptions, and its death, keep the types.
LEMMA TipoInterrupciones ==
  ASSUME TypeOK, NEW w \in Workers, HiloInterrupciones(w) \/ MorirWorker(w), UNCHANGED master_vars
  PROVE  TypeOK'
<1>1. PlanificadorTypeOK'
  BY Marco DEF TypeOK, PlanificadorTypeOK, master_vars
<1>2. CASE LeerInterrupcion(w)
  <2>1. Tail(interrupcion[w]) \in Seq(Interrupciones)
    BY <1>2, HeadTailProperties DEF LeerInterrupcion, TypeOK, RedTypeOK
  <2>2. RedTypeOK'
    BY <1>2, <2>1 DEF LeerInterrupcion, TypeOK, RedTypeOK
  <2>3. InterpreteTypeOK'
    BY <1>2 DEF LeerInterrupcion, TypeOK, InterpreteTypeOK
  <2> QED BY <1>1, <2>2, <2>3 DEF TypeOK
<1>3. CASE MarcarInterrupcion(w)
  <2>1. InterpreteTypeOK'
    BY <1>3 DEF MarcarInterrupcion, TypeOK, InterpreteTypeOK
  <2> QED BY <1>1, <1>3, <2>1, Marco DEF MarcarInterrupcion, TypeOK
<1>4. CASE MorirWorker(w)
  BY <1>1, <1>4, MorirTipo, Marco DEF MorirWorker, TypeOK
<1> QED BY <1>2, <1>3, <1>4 DEF HiloInterrupciones

\* Whatever the programs, the algorithm, and who dies or leaves, every field of the
\* Master and of the Workers stays of its type: sem_queries and the timer and
\* desconexion semaphores are never taken below zero, and a thread of atender_Worker
\* that handles a query holds one.
THEOREM TipoCorrecto == Spec => []TypeOK
<1>1. TypeOK /\ [Next]_vars => TypeOK'
  <2> SUFFICES ASSUME TypeOK, [Next]_vars PROVE TypeOK'
    OBVIOUS
  <2>1. CASE UNCHANGED vars
    BY <2>1, Marco DEF TypeOK, PlanificadorTypeOK, vars, master_vars
  <2>2. CASE PlanificadorNext /\ UNCHANGED worker_vars
    <3>1. ASSUME NEW q \in Queries, CrearQuery(q) \/ HiloAlta(q) \/ HiloTimer(q) \/ HiloVigia(q)
          PROVE  TypeOK'
      BY <2>2, <3>1, TipoAlta, TipoTimer, TipoVigia
    <3>2. ASSUME NEW w \in Workers, IdentificarWorker(w) \/ HiloWorker(w) \/ HiloVigiaWorker(w)
          PROVE  TypeOK'
      BY <2>2, <3>2, TipoAtencion, TipoRecepcion, TipoVidaWorker DEF HiloWorker
    <3> QED BY <2>2, <3>1, <3>2, TipoCaer DEF PlanificadorNext
  <2>3. CASE (\E q \in Queries : IrseQC(q) \/ TerminarQC(q)) /\ UNCHANGED worker_vars
    BY <2>3, TipoIrseQC, TipoTerminarQC
  <2>4. CASE InterpreteNext /\ UNCHANGED master_vars
    BY <2>4, TipoEjecutar, TipoInterrupciones DEF InterpreteNext
  <2> QED BY <2>1, <2>2, <2>3, <2>4 DEF Next
<1> QED BY TipoInicial, <1>1, PTL DEF Spec

-------------------------------------------------------------------------------
(* The lists *)

\* list_add
LEMMA Agregar ==
  ASSUME NEW s \in Seq(Queries), NEW x \in Queries
  PROVE  /\ \A y : En(y, Append(s, x)) <=> (En(y, s) \/ y = x)
         /\ SinRepetidos(s) /\ ~En(x, s) => SinRepetidos(Append(s, x))
<1> DEFINE r == Append(s, x)
<1>1. Len(r) = Len(s) + 1 /\ r[Len(s) + 1] = x /\ \A i \in 1..Len(s) : r[i] = s[i]
  BY AppendProperties
<1> HIDE DEF r
<1>2. ASSUME NEW y, En(y, r) PROVE En(y, s) \/ y = x
  BY <1>1, <1>2 DEF En
<1>3. ASSUME NEW y, En(y, s) \/ y = x PROVE En(y, r)
  <2>1. Len(s) \in Nat
    OBVIOUS
  <2> QED BY <1>1, <1>3, <2>1 DEF En
<1>4. ASSUME SinRepetidos(s), ~En(x, s) PROVE SinRepetidos(r)
  <2>1. Len(s) \in Nat
    OBVIOUS
  <2> QED BY <1>1, <1>4, <2>1 DEF SinRepetidos, En
<1> QED BY <1>2, <1>3, <1>4 DEF r

\* list_remove, by position: the elements after it move one place.
LEMMA RemoveAtElementos ==
  ASSUME NEW s \in Seq(Queries), NEW i \in 1..Len(s)
  PROVE  /\ Len(RemoveAt(s, i)) = Len(s) - 1
         /\ \A j \in 1..(Len(s) - 1) : RemoveAt(s, i)[j] = IF j < i THEN s[j] ELSE s[j + 1]
<1> DEFINE a == SubSeq(s, 1, i - 1)
           b == SubSeq(s, i + 1, Len(s))
<1>1. a \in Seq(Queries) /\ Len(a) = i - 1 /\ \A j \in 1..(i - 1) : a[j] = s[j]
  BY SubSeqProperties
<1>2. b \in Seq(Queries) /\ Len(b) = Len(s) - i /\ \A j \in 1..(Len(s) - i) : b[j] = s[i + j]
  BY SubSeqProperties
<1>3. RemoveAt(s, i) = a \o b
  BY DEF RemoveAt
<1> HIDE DEF a, b
<1>4. Len(a \o b) = Len(s) - 1
  BY <1>1, <1>2
<1>5. ASSUME NEW j \in 1..(Len(s) - 1)
      PROVE  (a \o b)[j] = IF j < i THEN s[j] ELSE s[j + 1]
  BY <1>1, <1>2
<1> QED BY <1>3, <1>4, <1>5

\* From a list without repetitions, all of the removed query goes.
LEMMA Quitar ==
  ASSUME NEW s \in Seq(Queries), NEW i \in 1..Len(s), SinRepetidos(s)
  PROVE  /\ SinRepetidos(RemoveAt(s, i))
         /\ \A y : En(y, RemoveAt(s, i)) <=> (En(y, s) /\ y # s[i])
<1> DEFINE r == RemoveAt(s, i)
<1>1. /\ Len(r) = Len(s) - 1
      /\ \A j \in 1..(Len(s) - 1) : r[j] = IF j < i THEN s[j] ELSE s[j + 1]
  BY RemoveAtElementos
<1> HIDE DEF r
<1>2. SinRepetidos(r)
  <2> DEFINE pos(j) == IF j < i THEN j ELSE j + 1
  <2>1. Len(s) \in Nat /\ i \in Nat
    OBVIOUS
  <2>2. ASSUME NEW j \in 1..(Len(s) - 1) PROVE pos(j) \in 1..Len(s) /\ r[j] = s[pos(j)]
    <3>1. r[j] = IF j < i THEN s[j] ELSE s[j + 1]
      BY <1>1
    <3>2. CASE j < i
      BY <2>1, <3>1, <3>2
    <3>3. CASE ~(j < i)
      BY <2>1, <3>1, <3>3
    <3> QED BY <3>2, <3>3
  <2>3. ASSUME NEW j \in 1..(Len(s) - 1), NEW k \in 1..(Len(s) - 1), pos(j) = pos(k) PROVE j = k
    BY <2>1, <2>3
  <2> HIDE DEF pos
  <2>4. ASSUME NEW j \in 1..Len(r), NEW k \in 1..Len(r), r[j] = r[k] PROVE j = k
    <3>1. j \in 1..(Len(s) - 1) /\ k \in 1..(Len(s) - 1)
      BY <1>1
    <3>2. pos(j) \in 1..Len(s) /\ pos(k) \in 1..Len(s) /\ s[pos(j)] = s[pos(k)]
      BY <2>2, <2>4, <3>1
    <3>3. pos(j) = pos(k)
      BY <3>2 DEF SinRepetidos
    <3> QED BY <2>3, <3>1, <3>3
  <2> QED BY <2>4 DEF SinRepetidos
<1>3. ASSUME NEW y, En(y, r) PROVE En(y, s) /\ y # s[i]
  BY <1>1, <1>3 DEF En, SinRepetidos
<1>4. ASSUME NEW y, En(y, s), y # s[i] PROVE En(y, r)
  <2>1. PICK k \in 1..Len(s) : s[k] = y
    BY <1>4 DEF En
  <2>2. CASE k < i
    BY <1>1, <2>1, <2>2 DEF En
  <2>3. CASE k > i
    <3>1. k - 1 \in 1..Len(r) /\ r[k - 1] = s[k]
      BY <1>1, <2>3
    <3> QED BY <2>1, <3>1 DEF En
  <2> QED BY <1>4, <2>1, <2>2, <2>3
<1> QED BY <1>2, <1>3, <1>4 DEF r

\* eliminar_por_id
LEMMA Eliminar ==
  ASSUME NEW s \in Seq(Queries), NEW x, NEW t, EliminarPorId(s, x, t), SinRepetidos(s)
  PROVE  /\ En(x, s) /\ SinRepetidos(t)
         /\ \A y : En(y, t) <=> (En(y, s) /\ y # x)
<1>1. PICK i \in 1..Len(s) : s[i] = x /\ t = RemoveAt(s, i)
  BY DEF EliminarPorId, EsPrimero
<1>2. En(x, s)
  BY <1>1 DEF En
<1> QED BY <1>1, <1>2, Quitar

-------------------------------------------------------------------------------
(* The moves *)

\* A query in the hands of a thread is a query.
LEMMA EnManoEsQuery ==
  ASSUME TypeOK
  PROVE  \A w \in Workers : EnLaMano(w) => enMano[w] \in Queries
  BY DEF TypeOK, PlanificadorTypeOK, AtencionOK, EnLaMano

\* A step that moves no query: no list changes, no thread takes one in its hands, and
\* no atender_Query goes back before its queueing.
LEMMA SinMover ==
  ASSUME TypeOK, UnSoloLugar, UNCHANGED listas,
         \A q \in Queries : SinEncolar(q)' => SinEncolar(q),
         \A w \in Workers : EnLaMano(w)' => EnLaMano(w) /\ enMano'[w] = enMano[w]
  PROVE  UnSoloLugar'
<1>1. \A w \in Workers : EnLaMano(w)' => /\ EnLaMano(w) /\ enMano'[w] = enMano[w]
                                         /\ enMano[w] \in Queries
  BY EnManoEsQuery
<1>2. UNCHANGED <<cola_queries, query_en_worker>>
  BY DEF listas
<1>3. SinRepetidos(cola_queries)' /\ SinRepetidos(query_en_worker)'
  BY <1>2 DEF UnSoloLugar
<1>4. \A q \in Queries : ~(En(q, cola_queries)' /\ En(q, query_en_worker)')
  BY <1>2 DEF UnSoloLugar
<1>5. \A w \in Workers : EnLaMano(w)' => /\ ~En(enMano[w], cola_queries)'
                                         /\ ~En(enMano[w], query_en_worker)'
                                         /\ ~SinEncolar(enMano[w])'
  <2> SUFFICES ASSUME NEW w \in Workers, EnLaMano(w)'
               PROVE  /\ ~En(enMano[w], cola_queries)'
                      /\ ~En(enMano[w], query_en_worker)'
                      /\ ~SinEncolar(enMano[w])'
    OBVIOUS
  <2>1. EnLaMano(w) /\ enMano'[w] = enMano[w] /\ enMano[w] \in Queries
    BY <1>1
  <2>2. ~En(enMano[w], cola_queries) /\ ~En(enMano[w], query_en_worker) /\ ~SinEncolar(enMano[w])
    BY <2>1 DEF UnSoloLugar
  <2>3. ~SinEncolar(enMano[w])'
    BY <2>1, <2>2 DEF SinEncolar
  <2> QED BY <1>2, <2>1, <2>2, <2>3
<1>6. \A v, w \in Workers : EnLaMano(v)' /\ EnLaMano(w)' /\ enMano'[v] = enMano'[w] => v = w
  BY <1>1 DEF UnSoloLugar
<1>7. \A q \in Queries : SinEncolar(q)' => ~En(q, cola_queries)' /\ ~En(q, query_en_worker)'
  BY <1>2 DEF UnSoloLugar
<1> QED BY <1>3, <1>4, <1>5, <1>6, <1>7 DEF UnSoloLugar

\* A step that moves x and nothing else keeps UnSoloLugar if x ends in one place.
EnUnLugar(x) ==
  /\ ~(En(x, cola_queries) /\ En(x, query_en_worker))
  /\ \A w \in Workers : EnLaMano(w) /\ enMano[w] = x => /\ ~En(x, cola_queries)
                                                        /\ ~En(x, query_en_worker)
                                                        /\ ~SinEncolar(x)
  /\ \A v, w \in Workers : EnLaMano(v) /\ EnLaMano(w) /\ enMano[v] = x /\ enMano[w] = x => v = w
  /\ SinEncolar(x) => ~En(x, cola_queries) /\ ~En(x, query_en_worker)

\* The part of the invariant that is about one query.
LEMMA CadaUnaEnUnLugar ==
  ASSUME UnSoloLugar, NEW q \in Queries
  PROVE  EnUnLugar(q)
  BY DEF UnSoloLugar, EnUnLugar

\* A step that touches the place of one query keeps the others where they were.
LEMMA Mover ==
  ASSUME TypeOK, TypeOK', UnSoloLugar, NEW x \in Queries,
         SinRepetidos(cola_queries)', SinRepetidos(query_en_worker)',
         \A y \in Queries : y # x => /\ En(y, cola_queries)' => En(y, cola_queries)
                                     /\ En(y, query_en_worker)' => En(y, query_en_worker)
                                     /\ SinEncolar(y)' <=> SinEncolar(y),
         \A w \in Workers : EnLaMano(w)' /\ enMano'[w] # x => EnLaMano(w) /\ enMano'[w] = enMano[w],
         EnUnLugar(x)'
  PROVE  UnSoloLugar'
<1>1. ASSUME NEW y \in Queries, y # x PROVE EnUnLugar(y)'
  <2>1. EnUnLugar(y)
    BY CadaUnaEnUnLugar
  <2>2. ~(En(y, cola_queries)' /\ En(y, query_en_worker)')
    BY <1>1, <2>1 DEF EnUnLugar
  <2>3. \A w \in Workers : EnLaMano(w)' /\ enMano'[w] = y => /\ ~En(y, cola_queries)'
                                                             /\ ~En(y, query_en_worker)'
                                                             /\ ~SinEncolar(y)'
    BY <1>1, <2>1 DEF EnUnLugar
  <2>4. \A v, w \in Workers : EnLaMano(v)' /\ EnLaMano(w)' /\ enMano'[v] = y /\ enMano'[w] = y => v = w
    BY <1>1, <2>1 DEF EnUnLugar
  <2>5. SinEncolar(y)' => ~En(y, cola_queries)' /\ ~En(y, query_en_worker)'
    BY <1>1, <2>1 DEF EnUnLugar
  <2> QED BY <2>2, <2>3, <2>4, <2>5 DEF EnUnLugar
<1>2. \A q \in Queries : EnUnLugar(q)'
  BY <1>1
<1>3. \A w \in Workers : EnLaMano(w)' => enMano'[w] \in Queries
  BY DEF TypeOK, PlanificadorTypeOK, AtencionOK, EnLaMano
<1> QED BY <1>2, <1>3 DEF UnSoloLugar, EnUnLugar

-------------------------------------------------------------------------------
(* The steps that move no query *)

\* The timer and the watcher of a query are not its atender_Query, and that one
\* leaves its first steps only by Encolar.
LEMMA AvanzaEncolar ==
  ASSUME TypeOK, NEW t \in Hilos, NEW q \in Queries, NEW paso, Avanza(t, q, paso),
         \/ t # "alta"
         \/ SinEncolar(q)
         \/ paso \notin {"no", "socket", "estado", "encolar"}
  PROVE  \A y \in Queries : SinEncolar(y)' => SinEncolar(y)
  BY DEF Avanza, SinEncolar, TypeOK, PlanificadorTypeOK, DeQueriesOK, Hilos

\* A step of a thread of a query that leaves the lists alone.
LEMMA QuietaQuery ==
  ASSUME TypeOK, UnSoloLugar, NEW t \in Hilos, NEW q \in Queries, NEW paso, Avanza(t, q, paso),
         UNCHANGED <<listas, atencion>>,
         \/ t # "alta"
         \/ SinEncolar(q)
         \/ paso \notin {"no", "socket", "estado", "encolar"}
  PROVE  UnSoloLugar'
<1>1. \A y \in Queries : SinEncolar(y)' => SinEncolar(y)
  BY AvanzaEncolar
<1>2. \A w \in Workers : EnLaMano(w)' => EnLaMano(w) /\ enMano'[w] = enMano[w]
  BY DEF EnLaMano, atencion
<1> QED BY <1>1, <1>2, SinMover

\* atender_Query moves its query nowhere before and after Encolar.
LEMMA LugarAlta ==
  ASSUME TypeOK, UnSoloLugar, NEW q \in Queries,
         \/ CrearQuery(q) \/ AsignarSocket(q) \/ AsignarEstado(q) \/ CrearTimer(q)
         \/ Chequear("alta", q) \/ Desalojar("alta", q) \/ Publicar(q)
  PROVE  UnSoloLugar'
<1>1. "alta" \in Hilos
  BY DEF Hilos
<1>2. UNCHANGED <<listas, atencion>>
  BY DEF CrearQuery, AsignarSocket, AsignarEstado, CrearTimer, Chequear, Desalojar, Publicar
<1>3. CASE CrearQuery(q) \/ CrearTimer(q)
  <2>1. \A y \in Queries : SinEncolar(y)' => SinEncolar(y)
    BY <1>3 DEF CrearQuery, CrearTimer, SinEncolar, TypeOK, PlanificadorTypeOK, DeQueriesOK, Hilos
  <2>2. \A w \in Workers : EnLaMano(w)' => EnLaMano(w) /\ enMano'[w] = enMano[w]
    BY <1>2 DEF EnLaMano, atencion
  <2> QED BY <1>2, <2>1, <2>2, SinMover
<1>4. CASE AsignarSocket(q) \/ AsignarEstado(q)
  BY <1>1, <1>2, <1>4, QuietaQuery DEF AsignarSocket, AsignarEstado, SinEncolar
<1>5. CASE Chequear("alta", q) \/ Desalojar("alta", q) \/ Publicar(q)
  BY <1>1, <1>2, <1>5, QuietaQuery DEF Chequear, Desalojar, Publicar, Despues
<1> QED BY <1>3, <1>4, <1>5

\* The aging changes priorities, never places.
LEMMA LugarTimer ==
  ASSUME TypeOK, UnSoloLugar, NEW q \in Queries, HiloTimer(q)
  PROVE  UnSoloLugar'
<1>1. "timer" \in Hilos
  BY DEF Hilos
<1>2. \E paso : Avanza("timer", q, paso)
  BY DEF HiloTimer, Envejecer, Chequear, Desalojar, Releer, DespertarTimer
<1>3. UNCHANGED <<listas, atencion>>
  BY DEF HiloTimer, Envejecer, Chequear, Desalojar, Releer, DespertarTimer
<1> QED BY <1>1, <1>2, <1>3, QuietaQuery

\* The watcher of a Query Control leaves the lists alone but in VigiaQuitar.
LEMMA LugarVigia ==
  ASSUME TypeOK, UnSoloLugar, NEW q \in Queries,
         \/ MirarSinNovedad(q) \/ MirarDesconexion(q) \/ VigiaCorriendo(q) \/ Desalojar("vigia", q)
         \/ VigiaLista(q) \/ VigiaRobar(q) \/ VigiaSalir(q) \/ VigiaJoin(q)
  PROVE  UnSoloLugar'
<1>1. "vigia" \in Hilos
  BY DEF Hilos
<1>2. \E paso : Avanza("vigia", q, paso)
  BY DEF MirarSinNovedad, MirarDesconexion, VigiaCorriendo, Desalojar, VigiaLista, VigiaRobar,
         VigiaSalir, VigiaJoin
<1>3. UNCHANGED <<listas, atencion>>
  BY DEF MirarSinNovedad, MirarDesconexion, VigiaCorriendo, Desalojar, VigiaLista, VigiaRobar,
         VigiaSalir, VigiaJoin
<1> QED BY <1>1, <1>2, <1>3, QuietaQuery

\* The same for the thread of a Worker: no list changes, and the step it goes to is
\* either one without a query in its hands or one with the query it already had.
LEMMA QuietaWorker ==
  ASSUME TypeOK, UnSoloLugar, NEW w \in Workers, NEW paso, Sigue(w, paso),
         UNCHANGED <<listas, hilo>>,
         \A v \in Workers : v # w => enMano'[v] = enMano[v],
         \/ paso \notin {"marcar", "registrar", "reencolar"}
         \/ EnLaMano(w) /\ UNCHANGED enMano
  PROVE  UnSoloLugar'
<1>1. \A v \in Workers : EnLaMano(v)' => EnLaMano(v) /\ enMano'[v] = enMano[v]
  BY DEF EnLaMano, Sigue, TypeOK, PlanificadorTypeOK, AtencionOK
<1>2. \A y \in Queries : SinEncolar(y)' => SinEncolar(y)
  BY DEF SinEncolar
<1> QED BY <1>1, <1>2, SinMover DEF listas

\* The steps of the thread of a Worker that move no query.
LEMMA LugarAtencion ==
  ASSUME TypeOK, UnSoloLugar, NEW w \in Workers,
         \/ IdentificarWorker(w) \/ EsperarQuery(w) \/ ValidarWorker(w)
         \/ MarcarRunning(w) \/ RecibirPaquete(w) \/ RecibirRead(w) \/ AbandonarWorker(w) \/ PublicarDesalojada(w) \/ RecibirNulo(w)
  PROVE  UnSoloLugar'
<1>1. CASE MarcarRunning(w)
  BY <1>1, QuietaWorker DEF MarcarRunning, EnLaMano
<1>2. CASE PublicarDesalojada(w)
  <2>1. \A v \in Workers : v # w => enMano'[v] = enMano[v]
    BY <1>2 DEF PublicarDesalojada, TypeOK, PlanificadorTypeOK, AtencionOK
  <2> QED BY <1>2, <2>1, QuietaWorker DEF PublicarDesalojada
<1>3. CASE \/ IdentificarWorker(w) \/ EsperarQuery(w) \/ ValidarWorker(w)
         \/ RecibirPaquete(w) \/ RecibirRead(w) \/ AbandonarWorker(w) \/ RecibirNulo(w)
  <2>1. UNCHANGED <<listas, hilo, enMano>>
    BY <1>3 DEF IdentificarWorker, EsperarQuery, ValidarWorker, RecibirPaquete, RecibirRead,
                AbandonarWorker, RecibirNulo, deQueries
  <2>2. \E paso \in {"esperar", "validar", "tomar", "leer", "atender", "fin"} : Sigue(w, paso)
    BY <1>3 DEF IdentificarWorker, EsperarQuery, ValidarWorker, RecibirPaquete, RecibirRead,
                AbandonarWorker, RecibirNulo
  <2> QED BY <2>1, <2>2, QuietaWorker
<1> QED BY <1>1, <1>2, <1>3

\* Steps that touch neither the lists, nor the threads of the Workers, nor hilo.
LEMMA Ajena ==
  ASSUME TypeOK, UnSoloLugar, UNCHANGED <<listas, hilo, atencion>>
  PROVE  UnSoloLugar'
<1>1. \A v \in Workers : EnLaMano(v)' => EnLaMano(v) /\ enMano'[v] = enMano[v]
  BY DEF EnLaMano, atencion
<1>2. \A y \in Queries : SinEncolar(y)' => SinEncolar(y)
  BY DEF SinEncolar
<1> QED BY <1>1, <1>2, SinMover DEF listas

-------------------------------------------------------------------------------
(* The steps that move one *)

\* atender_Query queues it: it was nowhere.
LEMMA LugarEncolar ==
  ASSUME TypeOK, TypeOK', UnSoloLugar, NEW q \in Queries, Encolar(q)
  PROVE  UnSoloLugar'
<1>1. SinEncolar(q) /\ EnUnLugar(q)
  BY CadaUnaEnUnLugar DEF Encolar, SinEncolar
<1>2. \A w \in Workers : EnLaMano(w) => enMano[w] # q
  BY <1>1 DEF UnSoloLugar
<1>3. UNCHANGED <<query_en_worker, hiloWorker, enMano>>
  BY DEF Encolar, atencion
<1>4. \A y : En(y, cola_queries)' <=> (En(y, cola_queries) \/ y = q)
  BY Agregar DEF Encolar, TypeOK, PlanificadorTypeOK, ListasOK
<1>5. SinRepetidos(cola_queries)' /\ SinRepetidos(query_en_worker)'
  <2>1. ~En(q, cola_queries)
    BY <1>1 DEF EnUnLugar
  <2> QED BY <1>3, <2>1, Agregar DEF Encolar, UnSoloLugar, TypeOK, PlanificadorTypeOK, ListasOK
<1>6. ~SinEncolar(q)' /\ \A y \in Queries : y # q => (SinEncolar(y)' <=> SinEncolar(y))
  BY DEF Encolar, Avanza, SinEncolar, TypeOK, PlanificadorTypeOK, DeQueriesOK, Hilos
<1>7. \A w \in Workers : EnLaMano(w)' <=> EnLaMano(w)
  BY <1>3 DEF EnLaMano
<1>8. EnUnLugar(q)'
  BY <1>1, <1>2, <1>3, <1>6, <1>7 DEF EnUnLugar
<1> QED BY <1>3, <1>4, <1>5, <1>6, <1>7, <1>8, Mover

\* atender_desconexion_query takes it out of cola_queries, if it is there.
LEMMA LugarQuitar ==
  ASSUME TypeOK, TypeOK', UnSoloLugar, NEW q \in Queries, VigiaQuitar(q)
  PROVE  UnSoloLugar'
<1>1. UNCHANGED <<query_en_worker, hiloWorker, enMano>>
  BY DEF VigiaQuitar, atencion
<1>2. SinRepetidos(cola_queries)' /\ \A y : En(y, cola_queries)' => En(y, cola_queries)
  BY Eliminar DEF VigiaQuitar, UnSoloLugar, TypeOK, PlanificadorTypeOK, ListasOK
<1>3. \A y \in Queries : SinEncolar(y)' <=> SinEncolar(y)
  BY DEF VigiaQuitar, Avanza, SinEncolar, TypeOK, PlanificadorTypeOK, DeQueriesOK, Hilos
<1>4. \A w \in Workers : EnLaMano(w)' <=> EnLaMano(w)
  BY <1>1 DEF EnLaMano
<1>5. EnUnLugar(q)'
  <2>1. EnUnLugar(q)
    BY CadaUnaEnUnLugar
  <2> QED BY <1>1, <1>2, <1>3, <1>4, <2>1 DEF EnUnLugar
<1> QED BY <1>1, <1>2, <1>3, <1>4, <1>5, Mover DEF UnSoloLugar

\* comenzar_a_ejecutar takes it out of cola_queries.
LEMMA LugarTomar ==
  ASSUME TypeOK, TypeOK', UnSoloLugar, NEW w \in Workers, TomarQuery(w)
  PROVE  UnSoloLugar'
<1>1. CASE cola_queries = <<>> /\ Sigue(w, "esperar") /\ UNCHANGED <<cola_queries, enMano>>
  BY <1>1, QuietaWorker DEF TomarQuery, listas, deQueries
<1>2. ASSUME NEW i \in 1..Len(cola_queries),
             enMano' = [enMano EXCEPT ![w] = cola_queries[i]],
             cola_queries' = RemoveAt(cola_queries, i),
             Sigue(w, "marcar")
      PROVE  UnSoloLugar'
  <2>1. PICK q \in Queries : q = cola_queries[i] /\ En(q, cola_queries)
    BY <1>2 DEF En, TypeOK, PlanificadorTypeOK, ListasOK
  <2>2. UNCHANGED <<query_en_worker, hilo>>
    BY DEF TomarQuery, deQueries
  <2>3. SinRepetidos(cola_queries)' /\ \A y : En(y, cola_queries)' <=> (En(y, cola_queries) /\ y # q)
    BY <1>2, <2>1, Quitar DEF UnSoloLugar, TypeOK, PlanificadorTypeOK, ListasOK
  <2>4. /\ enMano'[w] = q
        /\ \A v \in Workers : v # w => enMano'[v] = enMano[v] /\ (EnLaMano(v)' <=> EnLaMano(v))
    BY <1>2, <2>1 DEF EnLaMano, Sigue, TypeOK, PlanificadorTypeOK, AtencionOK
  <2>5. \A y \in Queries : SinEncolar(y)' <=> SinEncolar(y)
    BY <2>2 DEF SinEncolar
  <2>6. EnUnLugar(q) /\ ~SinEncolar(q) /\ ~En(q, query_en_worker)
        /\ \A v \in Workers : EnLaMano(v) => enMano[v] # q
    BY <2>1, CadaUnaEnUnLugar DEF EnUnLugar
  <2>7. EnUnLugar(q)'
    BY <2>1, <2>2, <2>3, <2>4, <2>5, <2>6 DEF EnUnLugar
  <2> QED BY <2>1, <2>2, <2>3, <2>4, <2>5, <2>7, Mover DEF UnSoloLugar
<1> QED BY <1>1, <1>2 DEF TomarQuery

\* comenzar_a_ejecutar puts it in query_en_worker.
LEMMA LugarRegistrar ==
  ASSUME TypeOK, TypeOK', UnSoloLugar, NEW w \in Workers, RegistrarYEnviar(w)
  PROVE  UnSoloLugar'
<1>1. EnLaMano(w) /\ ~EnLaMano(w)'
  BY DEF RegistrarYEnviar, EnLaMano, Sigue, TypeOK, PlanificadorTypeOK, AtencionOK
<1>q. PICK q \in Queries : q = enMano[w]
  BY <1>1, EnManoEsQuery
<1>2. \A v \in Workers : v # w => enMano'[v] = enMano[v] /\ (EnLaMano(v)' <=> EnLaMano(v))
  BY DEF RegistrarYEnviar, EnLaMano, Sigue, TypeOK, PlanificadorTypeOK, AtencionOK
<1>3. UNCHANGED <<cola_queries, hilo>>
  BY DEF RegistrarYEnviar
<1>4. /\ ~En(q, cola_queries) /\ ~En(q, query_en_worker) /\ ~SinEncolar(q)
      /\ \A v \in Workers : v # w /\ EnLaMano(v) => enMano[v] # q
  BY <1>q, <1>1 DEF UnSoloLugar
<1>5. query_en_worker' = Append(query_en_worker, q)
  BY <1>q DEF RegistrarYEnviar
<1>6. SinRepetidos(query_en_worker)'
      /\ \A y : En(y, query_en_worker)' <=> (En(y, query_en_worker) \/ y = q)
  BY <1>1, <1>4, <1>5, Agregar DEF UnSoloLugar, TypeOK, PlanificadorTypeOK, ListasOK
<1>7. \A y \in Queries : SinEncolar(y)' <=> SinEncolar(y)
  BY <1>3 DEF SinEncolar
<1>8. EnUnLugar(q)'
  BY <1>1, <1>2, <1>3, <1>4, <1>6, <1>7 DEF EnUnLugar
<1> QED BY <1>1, <1>2, <1>3, <1>6, <1>7, <1>8, Mover DEF UnSoloLugar

\* The preempted query goes back to cola_queries.
LEMMA LugarReencolar ==
  ASSUME TypeOK, TypeOK', UnSoloLugar, NEW w \in Workers, Reencolar(w)
  PROVE  UnSoloLugar'
<1>1. EnLaMano(w) /\ ~EnLaMano(w)'
  BY DEF Reencolar, EnLaMano, Sigue, TypeOK, PlanificadorTypeOK, AtencionOK
<1>q. PICK q \in Queries : q = enMano[w]
  BY <1>1, EnManoEsQuery
<1>2. \A v \in Workers : v # w => enMano'[v] = enMano[v] /\ (EnLaMano(v)' <=> EnLaMano(v))
  BY DEF Reencolar, EnLaMano, Sigue, TypeOK, PlanificadorTypeOK, AtencionOK
<1>3. UNCHANGED <<query_en_worker, hilo>>
  BY DEF Reencolar, deQueries
<1>4. /\ ~En(q, cola_queries) /\ ~En(q, query_en_worker) /\ ~SinEncolar(q)
      /\ \A v \in Workers : v # w /\ EnLaMano(v) => enMano[v] # q
  BY <1>q, <1>1 DEF UnSoloLugar
<1>5. cola_queries' = Append(cola_queries, q)
  BY <1>q DEF Reencolar
<1>6. SinRepetidos(cola_queries)' /\ \A y : En(y, cola_queries)' <=> (En(y, cola_queries) \/ y = q)
  BY <1>1, <1>4, <1>5, Agregar DEF UnSoloLugar, TypeOK, PlanificadorTypeOK, ListasOK
<1>7. \A y \in Queries : SinEncolar(y)' <=> SinEncolar(y)
  BY <1>3 DEF SinEncolar
<1>8. EnUnLugar(q)'
  BY <1>1, <1>2, <1>3, <1>4, <1>6, <1>7 DEF EnUnLugar
<1> QED BY <1>1, <1>2, <1>3, <1>6, <1>7, <1>8, Mover DEF UnSoloLugar

\* The query of an answer leaves query_en_worker: its end, its error, or its Query
\* Control is gone.
LEMMA LugarFinal ==
  ASSUME TypeOK, TypeOK', UnSoloLugar, NEW w \in Workers,
         RecibirEnd(w) \/ RecibirError(w) \/ RecibirDesconectado(w)
  PROVE  UnSoloLugar'
<1>1. PICK q \in Queries : EliminarPorId(query_en_worker, q, query_en_worker')
  <2>1. \E op : Llega(w, op)
    BY DEF RecibirEnd, RecibirError, RecibirDesconectado, Recibe
  <2>2. Head(respuesta[w]).query \in Queries
    BY <2>1, ConsumirTipo DEF TypeOK, Mensaje
  <2> QED BY <2>2 DEF RecibirEnd, RecibirError, RecibirDesconectado
<1>2. Sigue(w, "esperar") /\ UNCHANGED <<cola_queries, hilo, enMano>>
  BY DEF RecibirEnd, RecibirError, RecibirDesconectado
<1>3. SinRepetidos(query_en_worker)'
      /\ \A y : En(y, query_en_worker)' => En(y, query_en_worker)
  BY <1>1, Eliminar DEF UnSoloLugar, TypeOK, PlanificadorTypeOK, ListasOK
<1>4. \A y \in Queries : SinEncolar(y)' <=> SinEncolar(y)
  BY <1>2 DEF SinEncolar
<1>5. \A v \in Workers : EnLaMano(v)' => EnLaMano(v)
  BY <1>2 DEF EnLaMano, Sigue, TypeOK, PlanificadorTypeOK, AtencionOK
<1>6. EnUnLugar(q)'
  <2>1. EnUnLugar(q)
    BY CadaUnaEnUnLugar
  <2> QED BY <1>2, <1>3, <1>4, <1>5, <2>1 DEF EnUnLugar
<1> QED BY <1>2, <1>3, <1>4, <1>5, <1>6, Mover DEF UnSoloLugar

\* The preempted query goes from query_en_worker to the hands of the thread.
LEMMA LugarPC ==
  ASSUME TypeOK, TypeOK', UnSoloLugar, NEW w \in Workers, RecibirPC(w)
  PROVE  UnSoloLugar'
<1>1. Head(respuesta[w]).query \in Queries
  <2>1. Llega(w, "PC_UPDATE")
    BY DEF RecibirPC, Recibe
  <2> QED BY <2>1, ConsumirTipo DEF TypeOK, Mensaje
<1>2. UNCHANGED <<cola_queries, hilo>>
  BY DEF RecibirPC
<1>3. CASE Sigue(w, "esperar") /\ UNCHANGED <<query_en_worker, enMano>>
  BY <1>2, <1>3, QuietaWorker DEF listas
<1>4. ASSUME NEW q \in Queries,
             EliminarPorId(query_en_worker, q, query_en_worker'),
             enMano' = [enMano EXCEPT ![w] = q],
             Sigue(w, "reencolar")
      PROVE  UnSoloLugar'
  <2>1. En(q, query_en_worker) /\ SinRepetidos(query_en_worker)'
        /\ \A y : En(y, query_en_worker)' <=> (En(y, query_en_worker) /\ y # q)
    BY <1>4, Eliminar DEF UnSoloLugar, TypeOK, PlanificadorTypeOK, ListasOK
  <2>2. /\ enMano'[w] = q
        /\ \A v \in Workers : v # w => enMano'[v] = enMano[v] /\ (EnLaMano(v)' <=> EnLaMano(v))
    BY <1>4 DEF EnLaMano, Sigue, TypeOK, PlanificadorTypeOK, AtencionOK
  <2>3. \A y \in Queries : SinEncolar(y)' <=> SinEncolar(y)
    BY <1>2 DEF SinEncolar
  <2>4. ~SinEncolar(q) /\ ~En(q, cola_queries) /\ \A v \in Workers : EnLaMano(v) => enMano[v] # q
    BY <2>1, CadaUnaEnUnLugar DEF EnUnLugar
  <2>5. EnUnLugar(q)'
    BY <1>2, <2>1, <2>2, <2>3, <2>4 DEF EnUnLugar
  <2> QED BY <1>2, <2>1, <2>2, <2>3, <2>5, Mover DEF UnSoloLugar
<1> QED BY <1>1, <1>3, <1>4 DEF RecibirPC

\* However the threads of the Master interleave, and whoever dies or leaves, a query
\* is in one of its lists, once, or in the hands of one thread, or in neither.
THEOREM LugarUnico == Spec => []UnSoloLugar
<1>1. Init => UnSoloLugar
  BY DEF Init, PlanificadorInit, UnSoloLugar, SinRepetidos, En, EnLaMano
<1>2. TypeOK /\ TypeOK' /\ UnSoloLugar /\ [Next]_vars => UnSoloLugar'
  <2> SUFFICES ASSUME TypeOK, TypeOK', UnSoloLugar, [Next]_vars PROVE UnSoloLugar'
    OBVIOUS
  <2>1. CASE UNCHANGED vars
    BY <2>1, Ajena DEF vars, master_vars, deQueries
  <2>2. ASSUME NEW q \in Queries, CrearQuery(q) \/ HiloAlta(q) \/ HiloTimer(q) \/ HiloVigia(q)
        PROVE  UnSoloLugar'
    BY <2>2, LugarAlta, LugarEncolar, LugarTimer, LugarVigia, LugarQuitar DEF HiloAlta, HiloVigia
  <2>3. ASSUME NEW w \in Workers, IdentificarWorker(w) \/ HiloWorker(w)
        PROVE  UnSoloLugar'
    <3> QED BY <2>3, LugarAtencion, LugarTomar, LugarRegistrar, LugarReencolar, LugarFinal, LugarPC
         DEF HiloWorker
  <2>4. ASSUME NEW w \in Workers, HiloVigiaWorker(w) PROVE UnSoloLugar'
    <3>1. UNCHANGED <<listas, hilo, atencion>>
      BY <2>4 DEF HiloVigiaWorker, AtenderInterrupcion, DetectarCaida, DescontarWorker, AvisarCaida,
                  ResponderCaida, RetirarWorker, deQueries
    <3> QED BY <3>1, Ajena
  <2>5. CASE Caer
    BY <2>5, Ajena DEF Caer, deQueries
  <2>6. CASE \E q \in Queries : IrseQC(q) \/ TerminarQC(q)
    BY <2>6, Ajena DEF IrseQC, TerminarQC, deQueries
  <2>7. CASE UNCHANGED master_vars
    BY <2>7, Ajena DEF master_vars, deQueries
  <2> QED BY <2>1, <2>2, <2>3, <2>4, <2>5, <2>6, <2>7 DEF Next, PlanificadorNext
<1> QED BY <1>1, <1>2, TipoCorrecto, PTL DEF Spec


-------------------------------------------------------------------------------
(* The invariant *)

\* The answers with which a Worker is done with a query, for now or for good.
Cierres == {"QUERY_END", "ERROR", "PC_UPDATE", "QUERY_DESCONECTADO"}

\* An unread packet assigns q to w; the interpreter of w is at q; w sent op of q.
Asignada(w, q) == \E a \in ToSet(despacho[w]) : a.query = q
Trabaja(w, q) == fase[w] \in {"ciclo", "chequear"} /\ ejec[w].query = q
Dijo(w, op, q) == \E m \in ToSet(respuesta[w]) : m.query = q /\ m.op = op
Cerrada(w, q) == \E op \in Cierres : Dijo(w, op, q)

EnMano(q) == \E w \in Workers : EnLaMano(w) /\ enMano[w] = q

\* The Master has q and no Worker was given it since it has it.
EnEspera(q) == SinEncolar(q) \/ En(q, cola_queries) \/ EnMano(q)

\* At most one Worker has q, in one form.  A Worker whose last instruction was rejected
\* may still be at q after it sent ERROR, but then it executes nothing more of it.
Turno(q) ==
    /\ \A v, w \in Workers : /\ Asignada(v, q) /\ Asignada(w, q) => v = w
                             /\ Trabaja(v, q) /\ Trabaja(w, q) => v = w
                             /\ Asignada(v, q) => ~Trabaja(w, q) /\ ~Cerrada(w, q)
    /\ \A v, w \in Workers : \A op \in Cierres :
          /\ Trabaja(v, q) /\ Dijo(w, op, q) => v = w /\ error_storage[w] /\ op = "ERROR"
          /\ Dijo(v, "PC_UPDATE", q) /\ Dijo(w, op, q) => v = w
    /\ EnEspera(q) => \A w \in Workers : ~Asignada(w, q) /\ ~Trabaja(w, q) /\ ~Cerrada(w, q)
    /\ \A w \in Workers : Asignada(w, q) \/ (Trabaja(w, q) /\ ~error_storage[w])
                              => En(q, query_en_worker)

\* No query is twice in one connection, and what closes it comes last but for the
\* rejections that made its Worker close it.
SinRepetirQuery(s) == \A i, j \in 1..Len(s) : s[i].query = s[j].query => i = j

CierreUltimo(s) == \A i, j \in 1..Len(s) :
    s[i].op = "PC_UPDATE" /\ s[j].op \in Cierres /\ s[j].query = s[i].query
        => i = j \/ (j < i /\ s[j].op = "ERROR")

Ordenadas == \A w \in Workers : SinRepetirQuery(despacho[w]) /\ CierreUltimo(respuesta[w])

\* The interpreter is n lines into its file, opened at line pcb.
Adelantado(e, n) == /\ e.pcb <= e.pc /\ e.pc = n
                    /\ e.linea = IF e.pcb # 0 /\ e.pc = e.pcb THEN 0 ELSE e.pc

\* Wherever q is, the pc that goes with it is the number of its lines that were executed:
\* in the Master, and in its Worker or on the way to it or back.
PcEspera(q) == /\ SinEncolar(q) => hechas[q] = <<>>
               /\ hilo["alta"][q] = "encolar" => info[q].pc = 0
               /\ En(q, cola_queries) \/ EnMano(q) => info[q].pc = Len(hechas[q])

PcEnWorker(q) == \A w \in Workers :
    /\ \A a \in ToSet(despacho[w]) : a.query = q => a.pc = Len(hechas[q])
    /\ Trabaja(w, q) => Adelantado(ejec[w], Len(hechas[q]))
    /\ \A m \in ToSet(respuesta[w]) : m.query = q /\ m.op = "PC_UPDATE" => m.pc = Len(hechas[q])

EnSuLinea(q) == /\ PcEspera(q) /\ PcEnWorker(q)
                /\ \A i \in 1..Len(hechas[q]) : hechas[q][i] = i

EnTurno(q) == Turno(q) /\ EnSuLinea(q)

InvOrden == TypeOK /\ UnSoloLugar /\ Ordenadas /\ \A q \in Queries : EnTurno(q)

\* END is sent after the last line, and its query is then given to nobody.
SinIncompletas == \A q \in Queries : "INCOMPLETA" \notin ToSet(Programa[q])
Agotada(q) == Len(hechas[q]) = Len(Programa[q])
Fuera(q) == ~EnEspera(q) /\ ~En(q, query_en_worker)

FinFiel(q) ==
    /\ Len(hechas[q]) <= Len(Programa[q])
    /\ \A w \in Workers : Dijo(w, "QUERY_END", q) => Agotada(q)
    /\ En("END", finales[q]) => Agotada(q) /\ Fuera(q)
InvFinFiel == SinIncompletas => \A q \in Queries : FinFiel(q)

\* While no Worker died.
SinCaidas == \A w \in Workers : proceso[w] # "muerto"

VigiaFiel == \A w \in Workers :
    vigiaWorker[w] \in {"descontar", "buscar", "avisar", "esperar", "fin"} => proceso[w] = "muerto"
UnFinal(q) == finales[q] # <<>> => Fuera(q) /\ Len(finales[q]) = 1

\* While Storage rejects nothing.
Ocupa(w, q) == En(q, query_en_worker) /\ info[q].worker = w

UnCierre(s) == \A i, j \in 1..Len(s) :
    s[i].op \in Cierres /\ s[j].op \in Cierres /\ s[i].query = s[j].query => i = j

Exclusiva ==
    /\ \A w \in Workers : ~error_storage[w] /\ UnCierre(respuesta[w])
    /\ \A w \in Workers, q \in Queries : Ocupa(w, q) => hiloWorker[w] \in {"leer", "atender", "fin"}
    /\ \A q \in Queries : En(q, query_en_worker) => info[q].worker \in Workers
    /\ \A w \in Workers, p, q \in Queries : Ocupa(w, p) /\ Ocupa(w, q) => p = q
    /\ \A w \in Workers, q \in Queries :
          Asignada(w, q) \/ Trabaja(w, q) \/ Cerrada(w, q) => Ocupa(w, q)

-------------------------------------------------------------------------------
(* The connections *)

\* recibir_paquete takes the oldest packet.
LEMMA SinElPrimero ==
  ASSUME NEW S, NEW s \in Seq(S), s # <<>>
  PROVE  /\ Head(s) \in ToSet(s) /\ Tail(s) \in Seq(S)
         /\ \A x : x \in ToSet(s) <=> (x = Head(s) \/ x \in ToSet(Tail(s)))
         /\ SinRepetirQuery(s) => /\ SinRepetirQuery(Tail(s))
                                  /\ \A a \in ToSet(Tail(s)) : a.query # Head(s).query
         /\ CierreUltimo(s) =>
              /\ CierreUltimo(Tail(s))
              /\ Head(s).op = "PC_UPDATE" =>
                   \A m \in ToSet(Tail(s)) : m.op \in Cierres => m.query # Head(s).query
         /\ UnCierre(s) =>
              /\ UnCierre(Tail(s))
              /\ Head(s).op \in Cierres =>
                   \A m \in ToSet(Tail(s)) : m.op \in Cierres => m.query # Head(s).query
<1> DEFINE r == Tail(s)
<1>1. /\ Len(s) \in Nat \ {0} /\ Len(r) = Len(s) - 1 /\ r \in Seq(S)
      /\ \A i \in 1..Len(r) : i + 1 \in 1..Len(s) /\ r[i] = s[i + 1]
      /\ DOMAIN s = 1..Len(s) /\ DOMAIN r = 1..Len(r)
      /\ Head(s) = s[1] /\ 1 \in 1..Len(s)
  OBVIOUS
<1> HIDE DEF r
<1>2. \A i \in 1..Len(s) : i = 1 \/ (i - 1 \in 1..Len(r) /\ s[i] = r[i - 1])
  <2> TAKE i \in 1..Len(s)
  <2>1. i # 1 => i - 1 \in 1..Len(r) /\ (i - 1) + 1 = i
    BY <1>1
  <2> QED BY <1>1, <2>1
<1>3. \A x : x \in ToSet(s) <=> (x = Head(s) \/ x \in ToSet(r))
  BY <1>1, <1>2, SMTT(30) DEF ToSet
<1>4. \A m \in ToSet(r) : \E i \in 1..Len(r) : m = r[i]
  BY <1>1 DEF ToSet
<1>5. SinRepetirQuery(s) => /\ SinRepetirQuery(r)
                            /\ \A a \in ToSet(r) : a.query # Head(s).query
  <2> SUFFICES ASSUME SinRepetirQuery(s)
               PROVE  SinRepetirQuery(r) /\ \A a \in ToSet(r) : a.query # Head(s).query
    OBVIOUS
  <2>1. SinRepetirQuery(r)
    BY <1>1 DEF SinRepetirQuery
  <2>2. \A i \in 1..Len(r) : r[i].query # Head(s).query
    BY <1>1 DEF SinRepetirQuery
  <2> QED BY <1>4, <2>1, <2>2
<1>6. CierreUltimo(s) =>
        /\ CierreUltimo(r)
        /\ Head(s).op = "PC_UPDATE" => \A m \in ToSet(r) : m.op \in Cierres => m.query # Head(s).query
  <2> SUFFICES ASSUME CierreUltimo(s)
               PROVE  /\ CierreUltimo(r)
                      /\ Head(s).op = "PC_UPDATE" =>
                           \A m \in ToSet(r) : m.op \in Cierres => m.query # Head(s).query
    OBVIOUS
  <2>1. CierreUltimo(r)
    <3> SUFFICES ASSUME NEW i \in 1..Len(r), NEW j \in 1..Len(r),
                        r[i].op = "PC_UPDATE", r[j].op \in Cierres, r[j].query = r[i].query
                 PROVE  i = j \/ (j < i /\ r[j].op = "ERROR")
      BY DEF CierreUltimo
    <3>1. i + 1 = j + 1 \/ (j + 1 < i + 1 /\ s[j + 1].op = "ERROR")
      BY <1>1 DEF CierreUltimo
    <3> QED BY <1>1, <3>1
  <2>2. ASSUME Head(s).op = "PC_UPDATE", NEW i \in 1..Len(r), r[i].op \in Cierres
        PROVE  r[i].query # Head(s).query
    BY <1>1, <2>2 DEF CierreUltimo
  <2> QED BY <1>4, <2>1, <2>2
<1>7. UnCierre(s) =>
        /\ UnCierre(r)
        /\ Head(s).op \in Cierres => \A m \in ToSet(r) : m.op \in Cierres => m.query # Head(s).query
  <2> SUFFICES ASSUME UnCierre(s)
               PROVE  /\ UnCierre(r)
                      /\ Head(s).op \in Cierres =>
                           \A m \in ToSet(r) : m.op \in Cierres => m.query # Head(s).query
    OBVIOUS
  <2>1. UnCierre(r)
    <3> SUFFICES ASSUME NEW i \in 1..Len(r), NEW j \in 1..Len(r),
                        r[i].op \in Cierres, r[j].op \in Cierres, r[i].query = r[j].query
                 PROVE  i = j
      BY DEF UnCierre
    <3>1. i + 1 = j + 1
      BY <1>1, SMTT(30) DEF UnCierre
    <3> QED BY <3>1
  <2>2. ASSUME Head(s).op \in Cierres, NEW i \in 1..Len(r), r[i].op \in Cierres
        PROVE  r[i].query # Head(s).query
    BY <1>1, <2>2 DEF UnCierre
  <2> QED BY <1>4, <2>1, <2>2
<1> QED BY <1>1, <1>3, <1>5, <1>6, <1>7 DEF r, ToSet

\* enviar_paquete puts one more at the end.
LEMMA ConUnoMas ==
  ASSUME NEW S, NEW s \in Seq(S), NEW m \in S
  PROVE  /\ Append(s, m) \in Seq(S)
         /\ \A x : x \in ToSet(Append(s, m)) <=> (x \in ToSet(s) \/ x = m)
         /\ SinRepetirQuery(s) /\ (\A x \in ToSet(s) : x.query # m.query)
               => SinRepetirQuery(Append(s, m))
         /\ CierreUltimo(s) /\ (\/ m.op \notin Cierres
                                \/ \A x \in ToSet(s) : x.query = m.query /\ x.op \in Cierres
                                                          => x.op = "ERROR")
               => CierreUltimo(Append(s, m))
         /\ UnCierre(s) /\ (\/ m.op \notin Cierres
                            \/ \A x \in ToSet(s) : x.op \in Cierres => x.query # m.query)
               => UnCierre(Append(s, m))
<1> DEFINE r == Append(s, m)
<1>1. /\ Len(s) \in Nat /\ Len(r) = Len(s) + 1 /\ r \in Seq(S)
      /\ \A i \in 1..Len(s) : i \in 1..Len(r) /\ r[i] = s[i]
      /\ r[Len(s) + 1] = m /\ Len(s) + 1 \in 1..Len(r)
      /\ DOMAIN s = 1..Len(s) /\ DOMAIN r = 1..Len(r)
  BY AppendProperties
<1> HIDE DEF r
<1>2. \A i \in 1..Len(r) : \/ i = Len(s) + 1 /\ r[i] = m
                           \/ i \in 1..Len(s) /\ r[i] = s[i] /\ s[i] \in ToSet(s) /\ i < Len(s) + 1
  BY <1>1 DEF ToSet
<1>3. \A x : x \in ToSet(r) <=> (x \in ToSet(s) \/ x = m)
  BY <1>1, <1>2 DEF ToSet
<1>4. SinRepetirQuery(s) /\ (\A x \in ToSet(s) : x.query # m.query) => SinRepetirQuery(r)
  BY <1>2 DEF SinRepetirQuery
<1>5. ASSUME CierreUltimo(s), \/ m.op \notin Cierres
                              \/ \A x \in ToSet(s) : x.query = m.query /\ x.op \in Cierres
                                                        => x.op = "ERROR"
      PROVE  CierreUltimo(r)
  <2> SUFFICES ASSUME NEW i \in 1..Len(r), NEW j \in 1..Len(r),
                      r[i].op = "PC_UPDATE", r[j].op \in Cierres, r[j].query = r[i].query
               PROVE  i = j \/ (j < i /\ r[j].op = "ERROR")
    BY DEF CierreUltimo
  <2>1. CASE i \in 1..Len(s) /\ j \in 1..Len(s)
    BY <1>1, <1>5, <2>1 DEF CierreUltimo
  <2>2. CASE i = Len(s) + 1 /\ j \in 1..Len(s)
    <3>1. m.op \in Cierres
      BY <1>1, <2>2 DEF Cierres
    <3> QED BY <1>1, <1>2, <1>5, <2>2, <3>1
  <2>3. CASE i \in 1..Len(s) /\ j = Len(s) + 1
    <3>1. s[i] \in ToSet(s) /\ s[i].op = "PC_UPDATE" /\ s[i].query = m.query /\ m.op \in Cierres
      BY <1>1, <1>2, <2>3
    <3> QED BY <1>5, <3>1 DEF Cierres
  <2> QED BY <1>2, <2>1, <2>2, <2>3
<1>6. UnCierre(s) /\ (\/ m.op \notin Cierres
                      \/ \A x \in ToSet(s) : x.op \in Cierres => x.query # m.query)
        => UnCierre(r)
  BY <1>2 DEF UnCierre
<1> QED BY <1>1, <1>3, <1>4, <1>5, <1>6 DEF r
\* The packets of one instruction, put at the end.
LEMMA ConVarios ==
  ASSUME NEW S, NEW s \in Seq(S), NEW f \in Seq(S)
  PROVE  /\ s \o f \in Seq(S)
         /\ \A x : x \in ToSet(s \o f) <=> (x \in ToSet(s) \/ x \in ToSet(f))
         /\ CierreUltimo(s) /\ (\A m \in ToSet(f) :
                  /\ m.op # "PC_UPDATE"
                  /\ \A x \in ToSet(s) : x.op = "PC_UPDATE" => x.query # m.query)
               => CierreUltimo(s \o f)
         /\ UnCierre(s) /\ (\A m \in ToSet(f) : m.op \notin Cierres) => UnCierre(s \o f)
<1> DEFINE r == s \o f
<1>1. /\ r \in Seq(S) /\ Len(s) \in Nat /\ Len(f) \in Nat /\ Len(r) = Len(s) + Len(f)
      /\ \A i \in 1..Len(r) : r[i] = IF i <= Len(s) THEN s[i] ELSE f[i - Len(s)]
      /\ DOMAIN s = 1..Len(s) /\ DOMAIN f = 1..Len(f) /\ DOMAIN r = 1..Len(r)
  BY ConcatProperties
<1> HIDE DEF r
<1>2. \A i \in 1..Len(r) : \/ i \in 1..Len(s) /\ r[i] = s[i] /\ s[i] \in ToSet(s)
                           \/ i > Len(s) /\ r[i] = f[i - Len(s)] /\ r[i] \in ToSet(f)
  <2> TAKE i \in 1..Len(r)
  <2>1. CASE i <= Len(s)
    BY <1>1, <2>1, SMTT(30) DEF ToSet
  <2>2. CASE i > Len(s)
    <3>1. i - Len(s) \in 1..Len(f)
      BY <1>1, <2>2
    <3> QED BY <1>1, <2>2, <3>1 DEF ToSet
  <2> QED BY <1>1, <2>1, <2>2
<1>3. \A x : x \in ToSet(r) <=> (x \in ToSet(s) \/ x \in ToSet(f))
  <2>1. ASSUME NEW x, x \in ToSet(s) PROVE x \in ToSet(r)
    BY <1>1, <2>1 DEF ToSet
  <2>2. ASSUME NEW x, x \in ToSet(f) PROVE x \in ToSet(r)
    <3>1. PICK i \in 1..Len(f) : x = f[i]
      BY <1>1, <2>2 DEF ToSet
    <3>2. i + Len(s) \in 1..Len(r) /\ r[i + Len(s)] = x
      BY <1>1, <3>1, SMTT(30)
    <3> QED BY <1>1, <3>2 DEF ToSet
  <2>3. ASSUME NEW x, x \in ToSet(r) PROVE x \in ToSet(s) \/ x \in ToSet(f)
    BY <1>1, <1>2, <2>3 DEF ToSet
  <2> QED BY <2>1, <2>2, <2>3
<1>4. ASSUME CierreUltimo(s), \A m \in ToSet(f) :
                  /\ m.op # "PC_UPDATE"
                  /\ \A x \in ToSet(s) : x.op = "PC_UPDATE" => x.query # m.query
      PROVE  CierreUltimo(r)
  BY <1>2, <1>4, SMTT(30) DEF CierreUltimo
<1>5. UnCierre(s) /\ (\A m \in ToSet(f) : m.op \notin Cierres) => UnCierre(r)
  BY <1>2 DEF UnCierre
<1> QED BY <1>1, <1>3, <1>4, <1>5 DEF r

-------------------------------------------------------------------------------
(* What a step leaves alone *)

\* No Worker and no connection has anything of q that it had not before.
SinTocar(q) ==
    /\ hechas'[q] = hechas[q]
    /\ \A w \in Workers :
          /\ \A a \in ToSet(despacho'[w]) : a.query = q => a \in ToSet(despacho[w])
          /\ \A m \in ToSet(respuesta'[w]) :
                m.query = q /\ m.op \in Cierres => m \in ToSet(respuesta[w])
          /\ Trabaja(w, q)' => /\ Trabaja(w, q) /\ ejec'[w] = ejec[w]
                               /\ error_storage'[w] <=> error_storage[w]

\* q does not come to wait, and if it waits, then with the pc it waited with.
MismaEspera(q) ==
    /\ SinEncolar(q)' => SinEncolar(q)
    /\ hilo'["alta"][q] = "encolar" => info'[q].pc = 0
    /\ En(q, cola_queries)' \/ EnMano(q)' => /\ En(q, cola_queries) \/ EnMano(q)
                                             /\ info'[q].pc = info[q].pc

\* Nothing of q is outside the lists of the Master.
SinNada(q) == \A w \in Workers : ~Asignada(w, q) /\ ~Trabaja(w, q) /\ ~Cerrada(w, q)

\* What follows for the parts of Turno.
LEMMA NadaNuevo ==
  ASSUME NEW q, SinTocar(q), NEW w \in Workers
  PROVE  /\ Asignada(w, q)' => Asignada(w, q)
         /\ Trabaja(w, q)' => Trabaja(w, q) /\ (error_storage'[w] <=> error_storage[w])
         /\ \A op \in Cierres : Dijo(w, op, q)' => Dijo(w, op, q)
         /\ Cerrada(w, q)' => Cerrada(w, q)
<1>1. Asignada(w, q)' => Asignada(w, q)
  BY DEF SinTocar, Asignada
<1>2. Trabaja(w, q)' => Trabaja(w, q) /\ (error_storage'[w] <=> error_storage[w])
  BY DEF SinTocar
<1>3. \A op \in Cierres : Dijo(w, op, q)' => Dijo(w, op, q)
  BY DEF SinTocar, Dijo
<1>4. Cerrada(w, q)' => Cerrada(w, q)
  BY <1>3 DEF Cerrada
<1> QED BY <1>1, <1>2, <1>3, <1>4

\* A step that brings nothing of q and does not make it wait keeps its turn.
LEMMA TurnoMenor ==
  ASSUME NEW q, Turno(q), SinTocar(q), EnEspera(q)' => EnEspera(q),
         \A w \in Workers : Asignada(w, q)' \/ (Trabaja(w, q)' /\ ~error_storage'[w])
                                => En(q, query_en_worker)'
  PROVE  Turno(q)'
<1>1. "PC_UPDATE" \in Cierres
  BY DEF Cierres
<1>2. \A v, w \in Workers : /\ Asignada(v, q)' /\ Asignada(w, q)' => v = w
                            /\ Trabaja(v, q)' /\ Trabaja(w, q)' => v = w
                            /\ Asignada(v, q)' => ~Trabaja(w, q)' /\ ~Cerrada(w, q)'
  BY NadaNuevo DEF Turno
<1>3. \A v, w \in Workers : \A op \in Cierres :
        /\ Trabaja(v, q)' /\ Dijo(w, op, q)' => v = w /\ error_storage'[w] /\ op = "ERROR"
        /\ Dijo(v, "PC_UPDATE", q)' /\ Dijo(w, op, q)' => v = w
  BY <1>1, NadaNuevo DEF Turno
<1>4. EnEspera(q)' => \A w \in Workers : ~Asignada(w, q)' /\ ~Trabaja(w, q)' /\ ~Cerrada(w, q)'
  BY NadaNuevo DEF Turno
<1> QED BY <1>2, <1>3, <1>4 DEF Turno

\* A query of which nothing is out has its turn, wherever it waits.
LEMMA TurnoSinNada ==
  ASSUME NEW q, SinNada(q)'
  PROVE  Turno(q)'
<1>1. \A w \in Workers : \A op \in Cierres : ~Dijo(w, op, q)'
  BY DEF SinNada, Cerrada
<1> QED BY <1>1 DEF SinNada, Turno, Cierres

LEMMA PcMenor ==
  ASSUME NEW q, EnSuLinea(q), SinTocar(q), PcEspera(q)'
  PROVE  EnSuLinea(q)'
<1>1. "PC_UPDATE" \in Cierres
  BY DEF Cierres
<1>2. PcEnWorker(q)'
  BY <1>1 DEF EnSuLinea, PcEnWorker, SinTocar
<1> QED BY <1>2 DEF EnSuLinea, SinTocar

LEMMA EsperaMenor ==
  ASSUME NEW q, PcEspera(q), MismaEspera(q), hechas'[q] = hechas[q]
  PROVE  PcEspera(q)' /\ (EnEspera(q)' => EnEspera(q))
  BY DEF PcEspera, MismaEspera, EnEspera

\* The query keeps its turn, and if it was given back to nobody, it stays so.
Conserva(q) == EnTurno(q)' /\ (Fuera(q) => Fuera(q)')

\* The step of another query.
LEMMA Quieta ==
  ASSUME NEW q, EnTurno(q), SinTocar(q), MismaEspera(q),
         En(q, query_en_worker)' <=> En(q, query_en_worker)
  PROVE  Conserva(q)
<1>1. PcEspera(q)' /\ (EnEspera(q)' => EnEspera(q))
  BY EsperaMenor DEF EnTurno, EnSuLinea, SinTocar
<1>2. \A w \in Workers : Asignada(w, q)' \/ (Trabaja(w, q)' /\ ~error_storage'[w])
                             => En(q, query_en_worker)'
  BY NadaNuevo DEF EnTurno, Turno
<1>3. EnTurno(q)'
  BY <1>1, <1>2, TurnoMenor, PcMenor DEF EnTurno
<1> QED BY <1>1, <1>3 DEF Fuera, Conserva

LEMMA RedQuieta ==
  ASSUME UNCHANGED <<despacho, respuesta, worker_vars>>
  PROVE  /\ Ordenadas => Ordenadas'
         /\ \A q : SinTocar(q)
<1>1. UNCHANGED <<fase, ejec, error_storage, hechas>>
  BY DEF worker_vars
<1>2. \A q : SinTocar(q)
  BY <1>1 DEF SinTocar, Trabaja
<1> QED BY <1>2 DEF Ordenadas

\* The Master takes the oldest packet of w.
LEMMA Consumida ==
  ASSUME TypeOK, Ordenadas, NEW w \in Workers, NEW op, Llega(w, op), Consumir(w),
         UNCHANGED <<despacho, worker_vars>>
  PROVE  /\ Ordenadas'
         /\ \A q : SinTocar(q)
         /\ Head(respuesta[w]) \in ToSet(respuesta[w]) /\ Head(respuesta[w]).op = op
         /\ Head(respuesta[w]).query \in Queries
         /\ op = "PC_UPDATE" => \A m \in ToSet(respuesta'[w]) :
                                   m.op \in Cierres => m.query # Head(respuesta[w]).query
         /\ UnCierre(respuesta[w]) =>
              /\ UnCierre(respuesta'[w])
              /\ op \in Cierres => \A m \in ToSet(respuesta'[w]) :
                                      m.op \in Cierres => m.query # Head(respuesta[w]).query
         /\ \A v \in Workers : v # w => respuesta'[v] = respuesta[v]
         /\ respuesta'[w] = Tail(respuesta[w])
<1>1. respuesta[w] \in Seq(Mensaje) /\ respuesta[w] # <<>> /\ Head(respuesta[w]).op = op
  BY DEF TypeOK, RedTypeOK, Llega
<1>2. /\ respuesta'[w] = Tail(respuesta[w])
      /\ \A v \in Workers : v # w => respuesta'[v] = respuesta[v]
  BY DEF TypeOK, RedTypeOK, Consumir
<1>3. Head(respuesta[w]) \in ToSet(respuesta[w])
      /\ \A m \in ToSet(respuesta'[w]) : m \in ToSet(respuesta[w])
  BY <1>1, <1>2, SinElPrimero
<1>4. Ordenadas'
  BY <1>1, <1>2, SinElPrimero DEF Ordenadas
<1>5. \A v \in Workers : \A m \in ToSet(respuesta'[v]) : m \in ToSet(respuesta[v])
  BY <1>2, <1>3
<1>6. UNCHANGED <<fase, ejec, error_storage, hechas>>
  BY DEF worker_vars
<1>7. \A q : SinTocar(q)
  BY <1>5, <1>6 DEF SinTocar, Trabaja
<1>8. op = "PC_UPDATE" => \A m \in ToSet(respuesta'[w]) :
                             m.op \in Cierres => m.query # Head(respuesta[w]).query
  BY <1>1, <1>2, SinElPrimero DEF Ordenadas
<1>9. UnCierre(respuesta[w]) =>
        /\ UnCierre(respuesta'[w])
        /\ op \in Cierres => \A m \in ToSet(respuesta'[w]) :
                                m.op \in Cierres => m.query # Head(respuesta[w]).query
  BY <1>1, <1>2, SinElPrimero
<1>10. Head(respuesta[w]).query \in Queries
  <2>1. Head(respuesta[w]) \in Mensaje
    BY ConsumirTipo DEF TypeOK
  <2> QED BY <2>1 DEF Mensaje
<1> QED BY <1>1, <1>2, <1>3, <1>4, <1>7, <1>8, <1>9, <1>10

-------------------------------------------------------------------------------
(* The steps of the Master *)

\* A step of the Master that assigns nothing and takes no packet.
LEMMA MasterQuieto ==
  ASSUME InvOrden, UNCHANGED <<despacho, respuesta, worker_vars>>,
         \A q \in Queries : MismaEspera(q) /\ (En(q, query_en_worker)' <=> En(q, query_en_worker))
  PROVE  Ordenadas' /\ \A q \in Queries : Conserva(q)
  BY RedQuieta, Quieta DEF InvOrden

\* If the lists and the threads of the Workers stay as they are, so does who waits.
LEMMA ListasQuietas ==
  ASSUME UNCHANGED <<listas, atencion>>, NEW q \in Queries,
         SinEncolar(q)' => SinEncolar(q),
         info'[q].pc = info[q].pc \/ SinEncolar(q),
         hilo'["alta"][q] = "encolar" => info'[q].pc = 0,
         UnSoloLugar
  PROVE  MismaEspera(q) /\ (En(q, query_en_worker)' <=> En(q, query_en_worker))
<1>1. (En(q, cola_queries)' <=> En(q, cola_queries)) /\ (EnMano(q)' <=> EnMano(q))
  BY DEF listas, atencion, EnMano, EnLaMano
<1>2. SinEncolar(q) => ~En(q, cola_queries) /\ ~EnMano(q)
  BY DEF UnSoloLugar, EnMano
<1> QED BY <1>1, <1>2 DEF MismaEspera, listas

\* atender_Query before and after it queues the query, atender_timer_query, and
\* atender_desconexion_query but where it takes it out of cola_queries.
LEMMA TurnoDeQuery ==
  ASSUME InvOrden, NEW q \in Queries, UNCHANGED worker_vars,
         \/ CrearQuery(q) \/ AsignarSocket(q) \/ AsignarEstado(q) \/ CrearTimer(q)
         \/ Chequear("alta", q) \/ Desalojar("alta", q) \/ Publicar(q)
         \/ HiloTimer(q)
         \/ MirarSinNovedad(q) \/ MirarDesconexion(q) \/ VigiaCorriendo(q) \/ Desalojar("vigia", q)
         \/ VigiaLista(q) \/ VigiaRobar(q) \/ VigiaSalir(q) \/ VigiaJoin(q)
  PROVE  Ordenadas' /\ \A p \in Queries : Conserva(p)
<1>1. UNCHANGED <<listas, atencion, despacho, respuesta>>
  BY DEF CrearQuery, AsignarSocket, AsignarEstado, CrearTimer, Chequear, Desalojar, Publicar,
         HiloTimer, Envejecer, Releer, DespertarTimer, MirarSinNovedad, MirarDesconexion,
         VigiaCorriendo, VigiaLista, VigiaRobar, VigiaSalir, VigiaJoin, red
<1>2. TypeOK /\ UnSoloLugar /\ hilo \in [Hilos -> [Queries -> Pasos]] /\ info \in [Queries -> Info]
      /\ \A p \in Queries : PcEspera(p)
  BY DEF InvOrden, TypeOK, PlanificadorTypeOK, DeQueriesOK, EnTurno, EnSuLinea
<1>3. CASE AsignarEstado(q)
  <2>1. /\ \A p \in Queries : p # q => info'[p] = info[p] /\ hilo'["alta"][p] = hilo["alta"][p]
        /\ info'[q].pc = 0 /\ SinEncolar(q)
        /\ \A p \in Queries : SinEncolar(p)' => SinEncolar(p)
    BY <1>2, <1>3 DEF AsignarEstado, Avanza, SinEncolar, Hilos, Info
  <2>2. \A p \in Queries : MismaEspera(p) /\ (En(p, query_en_worker)' <=> En(p, query_en_worker))
    BY <1>1, <1>2, <2>1, ListasQuietas DEF PcEspera
  <2> QED BY <1>1, <2>2, MasterQuieto
<1>4. CASE ~AsignarEstado(q)
  <2>1. \A p \in Queries : info'[p].pc = info[p].pc
    BY <1>2, <1>4
    DEF CrearQuery, AsignarSocket, CrearTimer, Chequear, Desalojar, Publicar,
         HiloTimer, Envejecer, Releer, DespertarTimer, MirarSinNovedad, MirarDesconexion,
         VigiaCorriendo, VigiaLista, VigiaRobar, VigiaSalir, VigiaJoin, Info
  <2>2. \A p \in Queries : /\ SinEncolar(p)' => SinEncolar(p)
                           /\ hilo'["alta"][p] = "encolar" => hilo["alta"][p] = "encolar"
    <3>1. CASE CrearQuery(q) \/ CrearTimer(q)
      BY <1>2, <3>1 DEF CrearQuery, CrearTimer, SinEncolar, Hilos
    <3>2. CASE AsignarSocket(q)
      BY <1>2, <3>2 DEF AsignarSocket, Avanza, SinEncolar, Hilos
    <3>3. CASE ~(CrearQuery(q) \/ CrearTimer(q) \/ AsignarSocket(q))
      <4>1. PICK t \in Hilos, paso \in Pasos :
               Avanza(t, q, paso)
               /\ (t = "alta" => paso \in {"desalojar", "publicar", "fin"})
        BY <1>4, <3>3
        DEF Chequear, Desalojar, Publicar, Despues,
            HiloTimer, Envejecer, Releer, DespertarTimer, MirarSinNovedad, MirarDesconexion,
            VigiaCorriendo, VigiaLista, VigiaRobar, VigiaSalir, VigiaJoin, Hilos, SiguienteTimer,
            Pasos, PasosAlta, PasosTimer, PasosVigia
      <4> QED BY <1>2, <4>1 DEF Avanza, SinEncolar, Hilos
    <3> QED BY <3>1, <3>2, <3>3
  <2>3. \A p \in Queries : MismaEspera(p) /\ (En(p, query_en_worker)' <=> En(p, query_en_worker))
    BY <1>1, <1>2, <2>1, <2>2, ListasQuietas DEF PcEspera
  <2> QED BY <1>1, <2>3, MasterQuieto
<1> QED BY <1>3, <1>4
\* The query goes from its thread to cola_queries, with no line of it executed.
LEMMA TurnoEncolar ==
  ASSUME InvOrden, NEW q \in Queries, UNCHANGED worker_vars, Encolar(q)
  PROVE  Ordenadas' /\ \A p \in Queries : Conserva(p)
<1>1. UNCHANGED <<query_en_worker, info, atencion, red>> /\ hilo["alta"][q] = "encolar"
  BY DEF Encolar
<1>2. UNCHANGED <<despacho, respuesta, hiloWorker, enMano, hechas>>
  BY <1>1 DEF red, atencion, worker_vars
<1>3. /\ ~SinEncolar(q)' /\ hilo'["alta"][q] # "encolar"
      /\ \A p \in Queries : p # q => hilo'["alta"][p] = hilo["alta"][p]
  BY DEF InvOrden, TypeOK, PlanificadorTypeOK, DeQueriesOK, Encolar, Avanza, SinEncolar, Hilos
<1>4. \A p \in Queries : En(p, cola_queries)' <=> (En(p, cola_queries) \/ p = q)
  BY Agregar DEF Encolar, InvOrden, TypeOK, PlanificadorTypeOK, ListasOK
<1>5. \A p \in Queries : EnMano(p)' <=> EnMano(p)
  BY <1>2 DEF EnMano, EnLaMano
<1>6. Ordenadas' /\ \A p \in Queries : SinTocar(p)
  BY <1>2, RedQuieta DEF InvOrden
<1>7. ASSUME NEW p \in Queries, p # q PROVE Conserva(p)
  <2>1. MismaEspera(p)
    BY <1>1, <1>3, <1>4, <1>5, <1>7 DEF MismaEspera, SinEncolar, InvOrden, EnTurno, EnSuLinea, PcEspera
  <2> QED BY <1>1, <1>6, <2>1, Quieta DEF InvOrden
<1>8. Conserva(q)
  <2>1. SinEncolar(q) /\ hechas[q] = <<>> /\ info[q].pc = 0 /\ EnTurno(q)
    BY <1>1 DEF SinEncolar, InvOrden, EnTurno, EnSuLinea, PcEspera
  <2>2. PcEspera(q)'
    BY <1>1, <1>2, <1>3, <2>1 DEF PcEspera
  <2>3. EnEspera(q) /\ SinNada(q)
    BY <2>1 DEF EnEspera, EnTurno, Turno, SinNada
  <2>4. SinNada(q)'
    BY <1>6, <2>3, NadaNuevo DEF SinNada
  <2>5. EnTurno(q)'
    BY <1>6, <2>1, <2>2, <2>4, TurnoSinNada, PcMenor DEF EnTurno
  <2> QED BY <2>3, <2>5 DEF Conserva, Fuera
<1> QED BY <1>6, <1>7, <1>8

\* A thread that only takes from the list, or from it into its hands.
LEMMA TurnoDeLista ==
  ASSUME InvOrden, UNCHANGED worker_vars,
         \/ \E q \in Queries : VigiaQuitar(q)
         \/ \E w \in Workers : TomarQuery(w) \/ Reencolar(w)
  PROVE  Ordenadas' /\ \A p \in Queries : Conserva(p)
<1>1. UNCHANGED <<query_en_worker, info, despacho, respuesta>>
  BY DEF VigiaQuitar, TomarQuery, Reencolar, red, deQueries
<1>2. \A p \in Queries : hilo'["alta"][p] = hilo["alta"][p]
  BY DEF VigiaQuitar, TomarQuery, Reencolar, Avanza, deQueries, Hilos,
         InvOrden, TypeOK, PlanificadorTypeOK, DeQueriesOK
<1>3. \A p \in Queries : En(p, cola_queries)' \/ EnMano(p)' => En(p, cola_queries) \/ EnMano(p)
  <2>1. ASSUME NEW q \in Queries, VigiaQuitar(q), NEW p \in Queries, En(p, cola_queries)' \/ EnMano(p)'
        PROVE  En(p, cola_queries) \/ EnMano(p)
    <3>1. En(p, cola_queries)' => En(p, cola_queries)
      BY <2>1, Eliminar DEF VigiaQuitar, InvOrden, UnSoloLugar, TypeOK, PlanificadorTypeOK, ListasOK
    <3>2. EnMano(p)' => EnMano(p)
      BY <2>1 DEF VigiaQuitar, atencion, EnMano, EnLaMano
    <3> QED BY <2>1, <3>1, <3>2
  <2>2. ASSUME NEW w \in Workers, TomarQuery(w), NEW p \in Queries, En(p, cola_queries)' \/ EnMano(p)'
        PROVE  En(p, cola_queries) \/ EnMano(p)
    <3>1. CASE UNCHANGED <<cola_queries, enMano>> /\ Sigue(w, "esperar")
      BY <2>2, <3>1 DEF EnMano, EnLaMano, Sigue, InvOrden, TypeOK, PlanificadorTypeOK, AtencionOK
    <3>2. ASSUME NEW i \in 1..Len(cola_queries),
                 enMano' = [enMano EXCEPT ![w] = cola_queries[i]],
                 cola_queries' = RemoveAt(cola_queries, i), Sigue(w, "marcar")
          PROVE  En(p, cola_queries) \/ EnMano(p)
      <4>1. En(p, cola_queries)' => En(p, cola_queries)
        BY <3>2, Quitar DEF InvOrden, UnSoloLugar, TypeOK, PlanificadorTypeOK, ListasOK
      <4>2. EnMano(p)' => EnMano(p) \/ p = cola_queries[i]
        BY <3>2 DEF EnMano, EnLaMano, Sigue, InvOrden, TypeOK, PlanificadorTypeOK, AtencionOK
      <4> QED BY <2>2, <4>1, <4>2 DEF En
    <3> QED BY <2>2, <3>1, <3>2 DEF TomarQuery
  <2>3. ASSUME NEW w \in Workers, Reencolar(w), NEW p \in Queries, En(p, cola_queries)' \/ EnMano(p)'
        PROVE  En(p, cola_queries) \/ EnMano(p)
    <3>1. EnLaMano(w) /\ enMano[w] \in Queries
      BY <2>3, EnManoEsQuery DEF InvOrden, Reencolar, EnLaMano
    <3>2. En(p, cola_queries)' => En(p, cola_queries) \/ p = enMano[w]
      BY <2>3, <3>1, Agregar DEF Reencolar, InvOrden, TypeOK, PlanificadorTypeOK, ListasOK
    <3>3. EnMano(p)' => EnMano(p)
      BY <2>3 DEF Reencolar, EnMano, EnLaMano, Sigue, InvOrden, TypeOK, PlanificadorTypeOK, AtencionOK
    <3> QED BY <2>3, <3>1, <3>2, <3>3 DEF EnMano
  <2> QED BY <2>1, <2>2, <2>3
<1>4. \A p \in Queries : MismaEspera(p)
  BY <1>1, <1>2, <1>3 DEF MismaEspera, SinEncolar, InvOrden, EnTurno, EnSuLinea, PcEspera
<1> QED BY <1>1, <1>4, MasterQuieto

\* The thread of a Worker, where the lists and what it has in its hands stay.
LEMMA TurnoAtencion ==
  ASSUME InvOrden, NEW w \in Workers, UNCHANGED worker_vars,
         \/ IdentificarWorker(w) \/ EsperarQuery(w) \/ ValidarWorker(w) \/ MarcarRunning(w)
         \/ RecibirPaquete(w) \/ PublicarDesalojada(w) \/ RecibirNulo(w) \/ HiloVigiaWorker(w)
  PROVE  Ordenadas' /\ \A p \in Queries : Conserva(p)
<1>1. UNCHANGED <<listas, hilo, despacho, respuesta>>
  BY DEF IdentificarWorker, EsperarQuery, ValidarWorker, MarcarRunning, RecibirPaquete,
         PublicarDesalojada, RecibirNulo, HiloVigiaWorker, AtenderInterrupcion, DetectarCaida,
         DescontarWorker, AvisarCaida, ResponderCaida, RetirarWorker, red, deQueries
<1>2. \A p \in Queries : info'[p].pc = info[p].pc
  <2>1. \/ UNCHANGED info
        \/ \E q : info' = [info EXCEPT ![q].estado = "RUNNING"]
        \/ \E q : info' = [info EXCEPT ![q].estado = "EXIT"]
    BY DEF IdentificarWorker, EsperarQuery, ValidarWorker, MarcarRunning, RecibirPaquete,
           PublicarDesalojada, RecibirNulo, HiloVigiaWorker, AtenderInterrupcion, DetectarCaida,
           DescontarWorker, AvisarCaida, ResponderCaida, RetirarWorker, deQueries
  <2>2. info \in [Queries -> Info]
    BY DEF InvOrden, TypeOK, PlanificadorTypeOK, DeQueriesOK
  <2> QED BY <2>1, <2>2 DEF Info
<1>3. \A v \in Workers : EnLaMano(v)' => EnLaMano(v) /\ enMano'[v] = enMano[v]
  BY DEF IdentificarWorker, EsperarQuery, ValidarWorker, MarcarRunning, RecibirPaquete,
         PublicarDesalojada, RecibirNulo, HiloVigiaWorker, AtenderInterrupcion, DetectarCaida,
         DescontarWorker, AvisarCaida, ResponderCaida, RetirarWorker, atencion, EnLaMano, Sigue,
         InvOrden, TypeOK, PlanificadorTypeOK, AtencionOK
<1>4. \A p \in Queries : EnMano(p)' => EnMano(p)
  BY <1>3 DEF EnMano
<1>5. \A p \in Queries : MismaEspera(p)
  BY <1>1, <1>2, <1>4 DEF MismaEspera, SinEncolar, listas, InvOrden, EnTurno, EnSuLinea, PcEspera
<1> QED BY <1>1, <1>5, MasterQuieto DEF listas
\* The thread of a Worker took a packet that says nothing new of where a query is: an
\* answer of a READ, or one that makes it stop attending.
LEMMA TurnoRespuesta ==
  ASSUME InvOrden, NEW w \in Workers, UNCHANGED worker_vars, RecibirRead(w) \/ AbandonarWorker(w)
  PROVE  Ordenadas' /\ \A p \in Queries : Conserva(p)
<1>1. UNCHANGED <<listas, hilo, enMano, despacho>> /\ Consumir(w) /\ \E op : Llega(w, op)
  BY DEF RecibirRead, AbandonarWorker, Recibe, deQueries
<1>2. Ordenadas' /\ (\A q : SinTocar(q))
  BY <1>1, Consumida DEF InvOrden
<1>3. \A p \in Queries : info'[p].pc = info[p].pc \/ En(p, query_en_worker)
  BY DEF RecibirRead, AbandonarWorker, deQueries, InvOrden, TypeOK, PlanificadorTypeOK, DeQueriesOK, Info
<1>4. \A v \in Workers : EnLaMano(v)' => EnLaMano(v)
  BY DEF RecibirRead, AbandonarWorker, EnLaMano, Sigue, InvOrden, TypeOK, PlanificadorTypeOK, AtencionOK
<1>5. ASSUME NEW p \in Queries PROVE MismaEspera(p) /\ (En(p, query_en_worker)' <=> En(p, query_en_worker))
  <2>1. EnMano(p)' => EnMano(p)
    BY <1>1, <1>4 DEF EnMano
  <2>2. En(p, query_en_worker) => ~En(p, cola_queries) /\ ~EnMano(p) /\ ~SinEncolar(p)
    BY DEF InvOrden, UnSoloLugar, EnMano
  <2>3. hilo["alta"][p] = "encolar" => SinEncolar(p) /\ info[p].pc = 0
    BY DEF SinEncolar, InvOrden, EnTurno, EnSuLinea, PcEspera
  <2> QED BY <1>1, <1>3, <2>1, <2>2, <2>3 DEF MismaEspera, SinEncolar, listas
<1> QED BY <1>2, <1>5, Quieta DEF InvOrden

\* The query of an answer that closes it leaves query_en_worker.  Its Worker is not at
\* it any more, unless Storage rejected its last instruction.
LEMMA TurnoFinal ==
  ASSUME InvOrden, NEW w \in Workers, UNCHANGED worker_vars,
         RecibirEnd(w) \/ RecibirError(w) \/ RecibirDesconectado(w)
  PROVE  /\ Ordenadas' /\ \A p \in Queries : Conserva(p)
         /\ \A x \in Queries : x = Head(respuesta[w]).query => ~Fuera(x) /\ Fuera(x)'
<1>x. PICK x : x = Head(respuesta[w]).query
  OBVIOUS
<1>1. PICK op \in {"QUERY_END", "ERROR", "QUERY_DESCONECTADO"} : Llega(w, op)
  BY DEF RecibirEnd, RecibirError, RecibirDesconectado, Recibe
<1>2. /\ UNCHANGED <<cola_queries, hilo, enMano, despacho>> /\ Consumir(w) /\ Sigue(w, "esperar")
      /\ EliminarPorId(query_en_worker, x, query_en_worker')
  BY <1>x DEF RecibirEnd, RecibirError, RecibirDesconectado
<1>3. /\ Ordenadas' /\ (\A q : SinTocar(q))
      /\ Head(respuesta[w]) \in ToSet(respuesta[w]) /\ Head(respuesta[w]).op = op
      /\ x \in Queries
  BY <1>x, <1>1, <1>2, Consumida DEF InvOrden
<1>4. Dijo(w, op, x) /\ op \in Cierres
  BY <1>x, <1>3 DEF Dijo, Cierres
<1>5. \A p \in Queries : info'[p].pc = info[p].pc
  BY <1>x DEF RecibirEnd, RecibirError, RecibirDesconectado,
         InvOrden, TypeOK, PlanificadorTypeOK, DeQueriesOK, Info
<1>6. En(x, query_en_worker) /\ \A p \in Queries : En(p, query_en_worker)' <=> (En(p, query_en_worker) /\ p # x)
  BY <1>2, Eliminar DEF InvOrden, UnSoloLugar, TypeOK, PlanificadorTypeOK, ListasOK
<1>7. ASSUME NEW p \in Queries PROVE MismaEspera(p)
  <2>1. EnMano(p)' => EnMano(p)
    BY <1>2 DEF EnMano, EnLaMano, Sigue, InvOrden, TypeOK, PlanificadorTypeOK, AtencionOK
  <2> QED BY <1>2, <1>5, <2>1 DEF MismaEspera, SinEncolar, InvOrden, EnTurno, EnSuLinea, PcEspera
<1>8. ASSUME NEW p \in Queries, p # x PROVE Conserva(p)
  BY <1>3, <1>6, <1>7, <1>8, Quieta DEF InvOrden
<1>9. Conserva(x) /\ ~Fuera(x) /\ Fuera(x)'
  <2>1. EnTurno(x) /\ MismaEspera(x) /\ SinTocar(x)
    BY <1>3, <1>7 DEF InvOrden
  <2>2. \A v \in Workers : ~Asignada(v, x) /\ (Trabaja(v, x) => error_storage[v])
    BY <1>4, <2>1 DEF EnTurno, Turno, Cerrada
  <2>3. \A v \in Workers : ~Asignada(v, x)' /\ (Trabaja(v, x)' => error_storage'[v])
    BY <2>1, <2>2, NadaNuevo
  <2>4. PcEspera(x)' /\ (EnEspera(x)' => EnEspera(x))
    BY <2>1, EsperaMenor DEF EnTurno, EnSuLinea, SinTocar
  <2>5. EnTurno(x)'
    BY <2>1, <2>3, <2>4, TurnoMenor, PcMenor DEF EnTurno
  <2>6. ~EnEspera(x)
    BY <1>4, <2>1 DEF EnTurno, Turno, Cerrada
  <2>7. ~Fuera(x) /\ Fuera(x)'
    BY <1>3, <1>6, <2>4, <2>6 DEF Fuera
  <2> QED BY <2>5, <2>7 DEF Conserva
<1> QED BY <1>x, <1>3, <1>8, <1>9

\* The preempted query: its PC_UPDATE was all there was of it, so it goes back to wait
\* with nobody at it, and with the pc of its next line.
LEMMA TurnoPC ==
  ASSUME InvOrden, NEW w \in Workers, UNCHANGED worker_vars, RecibirPC(w)
  PROVE  Ordenadas' /\ \A p \in Queries : Conserva(p)
<1>x. PICK x, n : x = Head(respuesta[w]).query /\ n = Head(respuesta[w]).pc
  OBVIOUS
<1>1. Llega(w, "PC_UPDATE") /\ Consumir(w) /\ UNCHANGED <<cola_queries, hilo, despacho>>
  BY DEF RecibirPC, Recibe
<1>2. /\ Ordenadas' /\ (\A q : SinTocar(q))
      /\ Head(respuesta[w]) \in ToSet(respuesta[w]) /\ Head(respuesta[w]).op = "PC_UPDATE"
      /\ x \in Queries
      /\ \A m \in ToSet(respuesta'[w]) : m.op \in Cierres => m.query # x
  BY <1>x, <1>1, Consumida DEF InvOrden
<1>3. Dijo(w, "PC_UPDATE", x) /\ n = Len(hechas[x])
  BY <1>x, <1>2 DEF Dijo, InvOrden, EnTurno, EnSuLinea, PcEnWorker
<1>4. CASE Sigue(w, "esperar") /\ UNCHANGED <<query_en_worker, info, enMano>>
  <2>1. \A p \in Queries : EnMano(p)' => EnMano(p)
    BY <1>4 DEF EnMano, EnLaMano, Sigue, InvOrden, TypeOK, PlanificadorTypeOK, AtencionOK
  <2>2. \A p \in Queries : MismaEspera(p)
    BY <1>1, <1>4, <2>1 DEF MismaEspera, SinEncolar, InvOrden, EnTurno, EnSuLinea, PcEspera
  <2> QED BY <1>2, <1>4, <2>2, Quieta DEF InvOrden
<1>5. ASSUME EliminarPorId(query_en_worker, x, query_en_worker'),
             info' = [info EXCEPT ![x].estado = "READY", ![x].pc = n],
             enMano' = [enMano EXCEPT ![w] = x],
             Sigue(w, "reencolar")
      PROVE  Ordenadas' /\ \A p \in Queries : Conserva(p)
  <2>1. /\ En(x, query_en_worker)
        /\ \A p \in Queries : En(p, query_en_worker)' <=> (En(p, query_en_worker) /\ p # x)
    BY <1>5, Eliminar DEF InvOrden, UnSoloLugar, TypeOK, PlanificadorTypeOK, ListasOK
  <2>2. ~SinEncolar(x) /\ ~En(x, cola_queries)
    BY <2>1, <1>2 DEF InvOrden, UnSoloLugar
  <2>3. \A p \in Queries : info'[p].pc = IF p = x THEN n ELSE info[p].pc
    BY <1>2, <1>5 DEF InvOrden, TypeOK, PlanificadorTypeOK, DeQueriesOK, Info
  <2>4. ASSUME NEW p \in Queries, p # x PROVE Conserva(p)
    <3>1. EnMano(p)' => EnMano(p)
      BY <1>5, <2>4 DEF EnMano, EnLaMano, Sigue, InvOrden, TypeOK, PlanificadorTypeOK, AtencionOK
    <3>2. MismaEspera(p)
      BY <1>1, <2>3, <2>4, <3>1 DEF MismaEspera, SinEncolar, InvOrden, EnTurno, EnSuLinea, PcEspera
    <3> QED BY <1>2, <2>1, <2>4, <3>2, Quieta DEF InvOrden
  <2>5. SinNada(x)'
    <3>1. Turno(x) /\ "PC_UPDATE" \in Cierres
      BY <1>2 DEF InvOrden, EnTurno, Cierres
    <3>2. \A v \in Workers : ~Asignada(v, x) /\ ~Trabaja(v, x) /\ (Cerrada(v, x) => v = w)
      BY <1>3, <3>1 DEF Turno, Cerrada
    <3>3. \A v \in Workers : ~Asignada(v, x)' /\ ~Trabaja(v, x)' /\ (Cerrada(v, x)' => v = w)
      BY <1>2, <3>2, NadaNuevo
    <3>4. ~Cerrada(w, x)'
      BY <1>2 DEF Cerrada, Dijo
    <3> QED BY <3>3, <3>4 DEF SinNada
  <2>6. PcEspera(x)'
    <3>1. hechas'[x] = hechas[x]
      BY <1>2 DEF SinTocar
    <3> QED BY <1>1, <1>2, <1>3, <2>2, <2>3, <3>1 DEF PcEspera, SinEncolar
  <2>7. EnTurno(x)'
    BY <1>2, <2>5, <2>6, TurnoSinNada, PcMenor DEF EnTurno, InvOrden
  <2>8. Conserva(x)
    BY <2>1, <2>7 DEF Conserva, Fuera
  <2> QED BY <1>2, <2>4, <2>8
<1> QED BY <1>x, <1>4, <1>5 DEF RecibirPC
\* The query goes from the hands of the thread to the Worker, if that is still there,
\* with the pc that the Master kept for it; nobody else had anything of it.
LEMMA TurnoRegistrar ==
  ASSUME InvOrden, UnSoloLugar', NEW w \in Workers, UNCHANGED worker_vars, RegistrarYEnviar(w)
  PROVE  Ordenadas' /\ \A p \in Queries : Conserva(p)
<1>1. PICK x \in Queries : x = enMano[w] /\ EnMano(x)
  BY EnManoEsQuery DEF InvOrden, RegistrarYEnviar, EnLaMano, EnMano
<1>2. PICK n : n = info[x].pc
  OBVIOUS
<1>3. n = Len(hechas[x]) /\ n \in Nat
  BY <1>1, <1>2 DEF InvOrden, EnTurno, EnSuLinea, PcEspera, TypeOK, PlanificadorTypeOK, DeQueriesOK, Info
<1>4. SinNada(x) /\ EnTurno(x)
  BY <1>1 DEF InvOrden, EnTurno, Turno, EnEspera, SinNada
<1>5. UNCHANGED <<cola_queries, hilo, respuesta, fase, ejec, error_storage, hechas>>
  BY DEF RegistrarYEnviar, worker_vars
<1>6. query_en_worker' = Append(query_en_worker, x)
  BY <1>1 DEF RegistrarYEnviar
<1>7. \A p \in Queries : En(p, query_en_worker)' <=> (En(p, query_en_worker) \/ p = x)
  BY <1>6, Agregar DEF InvOrden, TypeOK, PlanificadorTypeOK, ListasOK
<1>8. \A p \in Queries : info'[p].pc = info[p].pc
  BY DEF RegistrarYEnviar, InvOrden, TypeOK, PlanificadorTypeOK, DeQueriesOK, Info
<1>9. \A p \in Queries : EnMano(p)' => EnMano(p)
  BY DEF RegistrarYEnviar, EnMano, EnLaMano, Sigue, InvOrden, TypeOK, PlanificadorTypeOK, AtencionOK
<1>10. PICK a : a = [query |-> x, pc |-> n]
  OBVIOUS
<1>11. a \in Asignacion /\ a.query = x /\ a.pc = n
  BY <1>3, <1>10 DEF Asignacion
<1>12. despacho \in [Workers -> Seq(Asignacion)]
  BY DEF InvOrden, TypeOK, RedTypeOK
<1>13. \/ UNCHANGED despacho
       \/ despacho' = [despacho EXCEPT ![w] = Append(despacho[w], a)]
  BY <1>1, <1>2, <1>10 DEF RegistrarYEnviar, EnviarDespacho
<1>14. \A v \in Workers : \A b \in ToSet(despacho'[v]) : b \in ToSet(despacho[v]) \/ (v = w /\ b = a)
  BY <1>11, <1>12, <1>13, ConUnoMas
<1>15. Ordenadas'
  <2>1. \A b \in ToSet(despacho[w]) : b.query # a.query
    BY <1>4, <1>11 DEF SinNada, Asignada
  <2>2. \A v \in Workers : SinRepetirQuery(despacho'[v])
    <3>1. SinRepetirQuery(Append(despacho[w], a)) /\ \A v \in Workers : SinRepetirQuery(despacho[v])
      BY <1>11, <1>12, <2>1, ConUnoMas DEF InvOrden, Ordenadas
    <3>2. \A v \in Workers : despacho'[v] = despacho[v] \/ (v = w /\ despacho'[v] = Append(despacho[w], a))
      BY <1>12, <1>13
    <3> QED BY <3>1, <3>2
  <2> QED BY <1>5, <2>2 DEF InvOrden, Ordenadas
<1>16. ASSUME NEW p \in Queries, p # x PROVE Conserva(p)
  <2>1. SinTocar(p)
    BY <1>5, <1>11, <1>14, <1>16 DEF SinTocar, Trabaja
  <2>2. MismaEspera(p)
    BY <1>5, <1>8, <1>9 DEF MismaEspera, SinEncolar, InvOrden, EnTurno, EnSuLinea, PcEspera
  <2> QED BY <1>7, <1>16, <2>1, <2>2, Quieta DEF InvOrden
<1>17. Conserva(x)
  <2>1. En(x, query_en_worker)' /\ ~EnEspera(x)'
    BY <1>7 DEF UnSoloLugar, EnEspera, EnMano
  <2>2. \A v \in Workers : /\ ~Trabaja(v, x)' /\ ~Cerrada(v, x)'
                           /\ \A op \in Cierres : ~Dijo(v, op, x)'
                           /\ Asignada(v, x)' => v = w
    <3>1. \A v \in Workers : ~Trabaja(v, x)' /\ ~Cerrada(v, x)'
      BY <1>4, <1>5 DEF SinNada, Trabaja, Cerrada, Dijo
    <3>2. \A v \in Workers : \A op \in Cierres : ~Dijo(v, op, x)'
      BY <3>1 DEF Cerrada
    <3>3. \A v \in Workers : Asignada(v, x)' => v = w
      BY <1>4, <1>14 DEF SinNada, Asignada
    <3> QED BY <3>1, <3>2, <3>3
  <2>3. Turno(x)'
    BY <2>1, <2>2 DEF Turno, Cierres
  <2>4. PcEspera(x)'
    BY <2>1, <1>8, <1>5, <1>4 DEF PcEspera, EnEspera, SinEncolar, EnTurno, EnSuLinea
  <2>5. PcEnWorker(x)'
    <3>1. \A v \in Workers : \A b \in ToSet(despacho'[v]) : b.query = x => b.pc = Len(hechas'[x])
      BY <1>3, <1>4, <1>5, <1>11, <1>14 DEF SinNada, Asignada
    <3>2. \A v \in Workers : \A m \in ToSet(respuesta'[v]) : m.query = x /\ m.op = "PC_UPDATE"
                                                                 => m.pc = Len(hechas'[x])
      BY <2>2 DEF Dijo, Cierres
    <3> QED BY <2>2, <3>1, <3>2 DEF PcEnWorker
  <2>6. \A i \in 1..Len(hechas'[x]) : hechas'[x][i] = i
    BY <1>4, <1>5 DEF EnTurno, EnSuLinea
  <2>7. EnTurno(x)' /\ ~Fuera(x)
    BY <1>1, <2>3, <2>4, <2>5, <2>6 DEF EnTurno, EnSuLinea, Fuera, EnEspera
  <2> QED BY <2>7 DEF Conserva
<1> QED BY <1>15, <1>16, <1>17
-------------------------------------------------------------------------------
(* The steps of the Workers *)

\* The Master does nothing: who waits, waits.
LEMMA EsperaDelMaster ==
  ASSUME InvOrden, UNCHANGED master_vars, NEW q \in Queries
  PROVE  /\ MismaEspera(q)
         /\ En(q, query_en_worker)' <=> En(q, query_en_worker)
         /\ EnEspera(q)' <=> EnEspera(q)
<1>1. UNCHANGED <<cola_queries, query_en_worker, hiloWorker, enMano, hilo, info>>
  BY DEF master_vars, listas, atencion, deQueries
<1>2. EnMano(q)' <=> EnMano(q)
  BY <1>1 DEF EnMano, EnLaMano
<1>3. hilo["alta"][q] = "encolar" => info[q].pc = 0
  BY DEF InvOrden, EnTurno, EnSuLinea, PcEspera
<1> QED BY <1>1, <1>2, <1>3 DEF MismaEspera, EnEspera, SinEncolar

\* The query that an interpreter goes on with is nowhere else.
LEMMA Trabajando ==
  ASSUME InvOrden, NEW w \in Workers, NEW q \in Queries, Trabaja(w, q)
  PROVE  /\ ~EnEspera(q)
         /\ \A v \in Workers : ~Asignada(v, q) /\ (Trabaja(v, q) => v = w)
         /\ \A v \in Workers : \A op \in Cierres :
               Dijo(v, op, q) => v = w /\ error_storage[w] /\ op = "ERROR"
         /\ ~error_storage[w] => En(q, query_en_worker)
         /\ Adelantado(ejec[w], Len(hechas[q]))
<1>1. Turno(q) /\ EnSuLinea(q)
  BY DEF InvOrden, EnTurno
<1>2. ~EnEspera(q)
  BY <1>1 DEF Turno
<1>3. \A v \in Workers : ~Asignada(v, q) /\ (Trabaja(v, q) => v = w)
  BY <1>1 DEF Turno
<1>4. \A v \in Workers : \A op \in Cierres :
         Dijo(v, op, q) => v = w /\ error_storage[w] /\ op = "ERROR"
  BY <1>1 DEF Turno
<1>5. ~error_storage[w] => En(q, query_en_worker)
  BY <1>1 DEF Turno
<1>6. Adelantado(ejec[w], Len(hechas[q]))
  BY <1>1 DEF EnSuLinea, PcEnWorker
<1> QED BY <1>2, <1>3, <1>4, <1>5, <1>6

\* A Worker that is at a query is at one of the queries.
LEMMA SuQuery ==
  ASSUME TypeOK, NEW w \in Workers, fase[w] \in {"ciclo", "chequear"}
  PROVE  ejec[w].query \in Queries /\ Trabaja(w, ejec[w].query)
  BY DEF TypeOK, InterpreteTypeOK, Pcb, Trabaja

\* The steps that send nothing that closes a query, and start none.
LEMMA TurnoSinCambio ==
  ASSUME InvOrden, NEW w \in Workers, UNCHANGED master_vars,
         \/ RecibirSinArchivo(w) \/ LiberarNombre(w) \/ AbandonarCiclo(w)
         \/ ChequearInterrupcion(w) /\ ~hay_interrupcion[w]
         \/ HiloInterrupciones(w) \/ MorirWorker(w)
  PROVE  /\ Ordenadas' /\ \A q \in Queries : Conserva(q) /\ SinTocar(q)
         /\ \A v \in Workers : UnCierre(respuesta[v]) => UnCierre(respuesta'[v])
<1>0. TypeOK /\ Ordenadas
  BY DEF InvOrden
<1>1. UNCHANGED <<ejec, hechas>>
  BY DEF RecibirSinArchivo, LiberarNombre, AbandonarCiclo, ChequearInterrupcion,
         HiloInterrupciones, LeerInterrupcion, MarcarInterrupcion, MorirWorker, worker_vars
<1>2. \A v \in Workers : fase'[v] \in {"ciclo", "chequear"}
                            => fase[v] \in {"ciclo", "chequear"} /\ error_storage'[v] = error_storage[v]
  BY <1>0 DEF RecibirSinArchivo, LiberarNombre, AbandonarCiclo, ChequearInterrupcion, Pasa, Corre,
         HiloInterrupciones, LeerInterrupcion, MarcarInterrupcion, MorirWorker, worker_vars,
         TypeOK, InterpreteTypeOK
<1>3. ASSUME NEW v \in Workers
      PROVE  SinRepetirQuery(despacho'[v]) /\ \A a \in ToSet(despacho'[v]) : a \in ToSet(despacho[v])
  <2>1. despacho \in [Workers -> Seq(Asignacion)] /\ SinRepetirQuery(despacho[v])
    BY <1>0 DEF TypeOK, RedTypeOK, Ordenadas
  <2>2. \/ despacho'[v] = despacho[v] \/ despacho'[v] = <<>>
        \/ v = w /\ despacho[w] # <<>> /\ despacho'[w] = Tail(despacho[w])
    BY <2>1 DEF RecibirSinArchivo, LiberarNombre, AbandonarCiclo, ChequearInterrupcion,
         HiloInterrupciones, LeerInterrupcion, MarcarInterrupcion, MorirWorker, Morir, red
  <2>3. SinRepetirQuery(<<>>) /\ ToSet(<<>>) = {}
    BY DEF SinRepetirQuery, ToSet
  <2> QED BY <2>1, <2>2, <2>3, SinElPrimero
<1>4. ASSUME NEW v \in Workers
      PROVE  /\ CierreUltimo(respuesta'[v])
             /\ UnCierre(respuesta[v]) => UnCierre(respuesta'[v])
             /\ \A m \in ToSet(respuesta'[v]) : m.op \in Cierres => m \in ToSet(respuesta[v])
  <2>1. respuesta \in [Workers -> Seq(Mensaje)] /\ CierreUltimo(respuesta[v])
    BY <1>0 DEF TypeOK, RedTypeOK, Ordenadas
  <2>2. CASE UNCHANGED respuesta
    BY <2>1, <2>2
  <2>3. CASE RecibirSinArchivo(w)
    <3>1. PICK m : m = [op |-> "ERROR_QUERY_NO_ENCONTRADA", query |-> Head(despacho[w]).query, pc |-> 0]
      OBVIOUS
    <3>2. Head(despacho[w]) \in Asignacion
      BY <1>0, <2>3 DEF RecibirSinArchivo, TypeOK, RedTypeOK
    <3>3. m \in Mensaje /\ m.op \notin Cierres
      BY <3>1, <3>2 DEF Mensaje, Asignacion, Operaciones, Cierres
    <3>4. respuesta' = [respuesta EXCEPT ![w] = Append(respuesta[w], m)]
      BY <2>3, <3>1 DEF RecibirSinArchivo
    <3>5. /\ CierreUltimo(Append(respuesta[w], m))
          /\ UnCierre(respuesta[w]) => UnCierre(Append(respuesta[w], m))
          /\ \A x \in ToSet(Append(respuesta[w], m)) : x.op \in Cierres => x \in ToSet(respuesta[w])
      BY <1>0, <2>1, <3>3, ConUnoMas DEF Ordenadas
    <3> QED BY <2>1, <3>4, <3>5
  <2> QED BY <2>2, <2>3
      DEF LiberarNombre, AbandonarCiclo, ChequearInterrupcion,
          HiloInterrupciones, LeerInterrupcion, MarcarInterrupcion, MorirWorker, Morir, red
<1>5. ASSUME NEW q \in Queries PROVE SinTocar(q)
  BY <1>1, <1>2, <1>3, <1>4 DEF SinTocar, Trabaja
<1> QED BY <1>3, <1>4, <1>5, EsperaDelMaster, Quieta DEF InvOrden, Ordenadas

\* The assignment that was in the connection is now in the interpreter, at the line after
\* the ones executed.
LEMMA TurnoPath ==
  ASSUME InvOrden, NEW w \in Workers, UNCHANGED master_vars, RecibirPath(w)
  PROVE  Ordenadas' /\ \A q \in Queries : Conserva(q)
<1>1. PICK a : a = Head(despacho[w])
  OBVIOUS
<1>2. despacho \in [Workers -> Seq(Asignacion)] /\ despacho[w] # <<>> /\ Ordenadas
  BY DEF InvOrden, TypeOK, RedTypeOK, RecibirPath
<1>3. /\ a \in Asignacion /\ a.query \in Queries /\ a.pc \in Nat
      /\ a \in ToSet(despacho[w])
  <2>1. a \in Asignacion
    BY <1>1, <1>2
  <2>2. a \in ToSet(despacho[w])
    BY <1>1, <1>2, SinElPrimero
  <2> QED BY <2>1, <2>2 DEF Asignacion
<1>4. PICK x \in Queries : x = a.query
  BY <1>3
<1>5. /\ despacho'[w] = Tail(despacho[w])
      /\ \A v \in Workers : v # w => despacho'[v] = despacho[v]
  BY <1>2 DEF RecibirPath
<1>6. /\ \A v \in Workers : \A b \in ToSet(despacho'[v]) : b \in ToSet(despacho[v])
      /\ \A b \in ToSet(despacho'[w]) : b.query # x
  BY <1>1, <1>2, <1>4, <1>5, SinElPrimero DEF Ordenadas
<1>7. Ordenadas'
  <2>1. SinRepetirQuery(Tail(despacho[w])) /\ \A v \in Workers : SinRepetirQuery(despacho[v])
    BY <1>2, SinElPrimero DEF Ordenadas
  <2>2. \A v \in Workers : SinRepetirQuery(despacho'[v])
    BY <1>5, <2>1
  <2>3. UNCHANGED respuesta
    BY DEF RecibirPath
  <2> QED BY <1>2, <2>2, <2>3 DEF Ordenadas
<1>8. /\ UNCHANGED <<respuesta, error_storage, hechas>>
      /\ \A v \in Workers : v # w => fase'[v] = fase[v] /\ ejec'[v] = ejec[v]
      /\ ejec'[w].query = x /\ ejec'[w].pc = a.pc /\ ejec'[w].pcb = a.pc /\ ejec'[w].linea = 0
      /\ fase[w] = "recibir" /\ fase'[w] = "ciclo"
  BY <1>1, <1>4 DEF RecibirPath, Pasa, Corre, InvOrden, TypeOK, InterpreteTypeOK
<1>9. ASSUME NEW q \in Queries, q # x PROVE Conserva(q)
  <2>1. SinTocar(q)
    BY <1>6, <1>8, <1>9 DEF SinTocar, Trabaja
  <2> QED BY <2>1, EsperaDelMaster, Quieta DEF InvOrden
<1>10. Conserva(x)
  <2>1. Asignada(w, x) /\ EnTurno(x) /\ a.pc = Len(hechas[x])
    BY <1>3, <1>4 DEF Asignada, InvOrden, EnTurno, EnSuLinea, PcEnWorker
  <2>2. /\ En(x, query_en_worker) /\ ~EnEspera(x)
        /\ \A v \in Workers : /\ Asignada(v, x) => v = w
                              /\ ~Trabaja(v, x) /\ ~Cerrada(v, x)
    BY <2>1 DEF EnTurno, Turno
  <2>3. En(x, query_en_worker)' /\ ~EnEspera(x)'
    BY <2>2, EsperaDelMaster
  <2>4. \A v \in Workers : ~Asignada(v, x)'
    BY <1>6, <2>2 DEF Asignada
  <2>5. \A v \in Workers : ~Cerrada(v, x)' /\ \A op \in Cierres : ~Dijo(v, op, x)'
    BY <1>8, <2>2 DEF Cerrada, Dijo
  <2>6. \A v \in Workers : Trabaja(v, x)' => v = w
    BY <1>8, <2>2 DEF Trabaja
  <2>7. Turno(x)'
    BY <2>3, <2>4, <2>5, <2>6 DEF Turno, Cierres
  <2>8. Adelantado(ejec'[w], Len(hechas'[x]))
    BY <1>3, <1>8, <2>1 DEF Adelantado
  <2>9. PcEnWorker(x)'
    BY <2>4, <2>5, <2>6, <2>8 DEF PcEnWorker, Asignada, Dijo, Cierres
  <2>10. PcEspera(x)'
    BY <1>8, <2>1, EsperaDelMaster, EsperaMenor DEF EnTurno, EnSuLinea
  <2>11. EnTurno(x)' /\ ~Fuera(x)
    BY <1>8, <2>1, <2>2, <2>7, <2>9, <2>10 DEF EnTurno, EnSuLinea, Fuera
  <2> QED BY <2>11 DEF Conserva
<1> QED BY <1>7, <1>9, <1>10
\* enviar_paquete of one answer.
LEMMA ResponderUno ==
  ASSUME TypeOK, NEW w \in Workers, ejec[w].query \in Queries,
         NEW op \in Operaciones, NEW pc \in Nat, Responder(w, <<op>>, pc)
  PROVE  \E m \in Mensaje : /\ m.op = op /\ m.query = ejec[w].query /\ m.pc = pc
                            /\ respuesta' = [respuesta EXCEPT ![w] = Append(respuesta[w], m)]
<1> DEFINE m == [op |-> op, query |-> ejec[w].query, pc |-> pc]
           f == [i \in 1..Len(<<op>>) |-> [op |-> <<op>>[i], query |-> ejec[w].query, pc |-> pc]]
<1>1. m \in Mensaje /\ m.op = op /\ m.query = ejec[w].query /\ m.pc = pc
  BY DEF Mensaje
<1>2. f = <<m>>
  OBVIOUS
<1>3. respuesta' = [respuesta EXCEPT ![w] = respuesta[w] \o f]
  BY DEF Responder
<1> HIDE DEF m, f
<1>4. respuesta[w] \o <<m>> = Append(respuesta[w], m)
  BY <1>1, AppendIsConcat DEF TypeOK, RedTypeOK
<1> QED BY <1>1, <1>2, <1>3, <1>4

\* And of the answers of one instruction.
LEMMA ResponderVarios ==
  ASSUME TypeOK, NEW w \in Workers, ejec[w].query \in Queries,
         NEW ops \in Seq(Operaciones), NEW pc \in Nat, Responder(w, ops, pc)
  PROVE  \E f \in Seq(Mensaje) :
            /\ respuesta' = [respuesta EXCEPT ![w] = respuesta[w] \o f]
            /\ \A m \in ToSet(f) : m.query = ejec[w].query /\ \E i \in 1..Len(ops) : m.op = ops[i]
            /\ \A i \in 1..Len(ops) : \E m \in ToSet(f) : m.op = ops[i]
<1> DEFINE f == [i \in 1..Len(ops) |-> [op |-> ops[i], query |-> ejec[w].query, pc |-> pc]]
<1>1. \A i \in 1..Len(ops) : [op |-> ops[i], query |-> ejec[w].query, pc |-> pc] \in Mensaje
  BY DEF Mensaje
<1>2. f \in Seq(Mensaje) /\ DOMAIN f = 1..Len(ops)
  <2>1. Len(ops) \in Nat /\ f \in [1..Len(ops) -> Mensaje]
    BY <1>1
  <2> HIDE DEF f
  <2> QED BY <2>1
<1>3. \A i \in 1..Len(ops) : f[i].query = ejec[w].query /\ f[i].op = ops[i]
  OBVIOUS
<1>4. respuesta' = [respuesta EXCEPT ![w] = respuesta[w] \o f]
  BY DEF Responder
<1> HIDE DEF f
<1>5. /\ \A m \in ToSet(f) : m.query = ejec[w].query /\ \E i \in 1..Len(ops) : m.op = ops[i]
      /\ \A i \in 1..Len(ops) : \E m \in ToSet(f) : m.op = ops[i]
  BY <1>2, <1>3 DEF ToSet
<1> QED BY <1>2, <1>4, <1>5

\* The Worker closes the query it is at, and waits for another.
LEMMA TurnoCierre ==
  ASSUME InvOrden, NEW w \in Workers, NEW x \in Queries, UNCHANGED <<master_vars, despacho, hechas>>,
         Trabaja(w, x), fase'[w] = "recibir",
         NEW m \in Mensaje, m.query = x, m.op \in Cierres,
         m.op = "PC_UPDATE" => m.pc = Len(hechas[x]),
         respuesta' = [respuesta EXCEPT ![w] = Append(respuesta[w], m)],
         \A v \in Workers : v # w => /\ fase'[v] = fase[v] /\ ejec'[v] = ejec[v]
                                     /\ error_storage'[v] = error_storage[v]
  PROVE  Ordenadas' /\ \A q \in Queries : Conserva(q)
<1>1. /\ ~EnEspera(x)
      /\ \A v \in Workers : ~Asignada(v, x) /\ (Trabaja(v, x) => v = w)
      /\ \A v \in Workers : \A op \in Cierres : Dijo(v, op, x) => v = w /\ op = "ERROR"
  BY Trabajando
<1>2. /\ respuesta[w] \in Seq(Mensaje) /\ respuesta'[w] = Append(respuesta[w], m)
      /\ \A v \in Workers : v # w => respuesta'[v] = respuesta[v]
  BY DEF InvOrden, TypeOK, RedTypeOK
<1>3. \A y \in ToSet(respuesta[w]) : y.query = x /\ y.op \in Cierres => y.op = "ERROR"
  BY <1>1 DEF Dijo
<1>4. Ordenadas'
  <2>1. CierreUltimo(Append(respuesta[w], m))
    BY <1>2, <1>3, ConUnoMas DEF InvOrden, Ordenadas
  <2> QED BY <1>2, <2>1 DEF InvOrden, Ordenadas
<1>5. \A v \in Workers : \A y \in ToSet(respuesta'[v]) : y \in ToSet(respuesta[v]) \/ (v = w /\ y = m)
  BY <1>2, ConUnoMas
<1>6. ASSUME NEW q \in Queries, q # x PROVE Conserva(q)
  <2>1. SinTocar(q)
    BY <1>5, <1>6 DEF SinTocar, Trabaja
  <2> QED BY <2>1, EsperaDelMaster, Quieta DEF InvOrden
<1>7. Conserva(x)
  <2>1. \A v \in Workers : ~Asignada(v, x)' /\ ~Trabaja(v, x)'
    BY <1>1 DEF Asignada, Trabaja
  <2>2. \A v \in Workers : \A op \in Cierres : Dijo(v, op, x)' => v = w
    BY <1>1, <1>5 DEF Dijo
  <2>3. ~EnEspera(x)'
    BY <1>1, EsperaDelMaster
  <2>4. Turno(x)'
    BY <2>1, <2>2, <2>3 DEF Turno, Cierres
  <2>5. PcEnWorker(x)'
    BY <1>5, <2>1 DEF PcEnWorker, Asignada, InvOrden, EnTurno, EnSuLinea
  <2>6. PcEspera(x)'
    BY EsperaDelMaster, EsperaMenor DEF InvOrden, EnTurno, EnSuLinea
  <2>7. EnTurno(x)'
    BY <2>4, <2>5, <2>6 DEF EnTurno, EnSuLinea, InvOrden
  <2> QED BY <2>7, EsperaDelMaster DEF Conserva, Fuera
<1> QED BY <1>4, <1>6, <1>7
\* Before fetch, the interpreter of a Worker is at a query, and nothing was rejected.
LEMMA Decodificada ==
  ASSUME TypeOK, NEW w \in Workers, NEW i, Decodifica(w, i)
  PROVE  /\ ejec[w].query \in Queries /\ Trabaja(w, ejec[w].query) /\ ~error_storage[w]
         /\ \A v \in Workers : v # w => ejec'[v] = ejec[v]
  BY SuQuery DEF Decodifica, Corre, TypeOK, InterpreteTypeOK

LEMMA TurnoTerminar ==
  ASSUME InvOrden, NEW w \in Workers, UNCHANGED master_vars, Terminar(w)
  PROVE  Ordenadas' /\ \A q \in Queries : Conserva(q)
<1>1. TypeOK
  BY DEF InvOrden
<1>2. PICK i \in {"END", "DESCONOCIDA", "INCOMPLETA"}, op \in {"QUERY_END", "ERROR"} :
         Decodifica(w, i) /\ Responder(w, <<op>>, 0)
  BY DEF Terminar
<1>3. PICK x \in Queries : x = ejec[w].query /\ Trabaja(w, x)
  BY <1>1, <1>2, Decodificada
<1>4. op \in Operaciones /\ op \in Cierres /\ op # "PC_UPDATE" /\ 0 \in Nat
  BY DEF Operaciones, Cierres
<1>5. PICK m \in Mensaje : /\ m.op = op /\ m.query = x
                           /\ respuesta' = [respuesta EXCEPT ![w] = Append(respuesta[w], m)]
  BY <1>1, <1>2, <1>3, <1>4, ResponderUno
<1>6. /\ fase'[w] = "recibir" /\ UNCHANGED <<despacho, hechas>>
      /\ \A v \in Workers : v # w => /\ fase'[v] = fase[v] /\ ejec'[v] = ejec[v]
                                     /\ error_storage'[v] = error_storage[v]
  BY <1>1, <1>2, Decodificada DEF Terminar, Pasa, TypeOK, InterpreteTypeOK
<1> QED BY <1>3, <1>4, <1>5, <1>6, TurnoCierre

\* The interrupted cycle reports the lines executed, whatever it did before.
LEMMA TurnoInterrumpida ==
  ASSUME InvOrden, NEW w \in Workers, UNCHANGED master_vars, ChequearInterrupcion(w),
         hay_interrupcion[w]
  PROVE  Ordenadas' /\ \A q \in Queries : Conserva(q)
<1>1. TypeOK /\ fase[w] = "chequear"
  BY DEF InvOrden, ChequearInterrupcion, Corre
<1>2. PICK x \in Queries : x = ejec[w].query /\ Trabaja(w, x)
  BY <1>1, SuQuery
<1>3. ejec[w].pc = Len(hechas[x]) /\ ejec[w].pc \in Nat
  BY <1>1, <1>2, Trabajando DEF Adelantado, TypeOK, InterpreteTypeOK, Pcb
<1>4. PICK op \in {"QUERY_DESCONECTADO", "PC_UPDATE"} : Responder(w, <<op>>, ejec[w].pc)
  BY DEF ChequearInterrupcion
<1>5. op \in Operaciones /\ op \in Cierres
  BY DEF Operaciones, Cierres
<1>6. PICK m \in Mensaje : /\ m.op = op /\ m.query = x /\ m.pc = Len(hechas[x])
                           /\ respuesta' = [respuesta EXCEPT ![w] = Append(respuesta[w], m)]
  BY <1>1, <1>2, <1>3, <1>4, <1>5, ResponderUno
<1>7. /\ fase'[w] = "recibir" /\ UNCHANGED <<despacho, hechas>>
      /\ \A v \in Workers : v # w => /\ fase'[v] = fase[v] /\ ejec'[v] = ejec[v]
                                     /\ error_storage'[v] = error_storage[v]
  BY <1>1 DEF ChequearInterrupcion, Pasa, TypeOK, InterpreteTypeOK
<1> QED BY <1>2, <1>5, <1>6, <1>7, TurnoCierre

\* The line that is executed is the one after those that were.
LEMMA LineaSiguiente ==
  ASSUME NEW e \in Pcb, NEW n \in Nat, Adelantado(e, n)
  PROVE  Fetch(e) = n + 1
  BY DEF Pcb, Adelantado, Fetch

LEMMA AdelantadaUnaMas ==
  ASSUME NEW e \in Pcb, NEW f \in Pcb, NEW n \in Nat, Adelantado(e, n),
         f.pcb = e.pcb, f.pc = e.pc + 1, f.linea = n + 1
  PROVE  Adelantado(f, n + 1)
  BY DEF Pcb, Adelantado

\* An instruction is executed: the query was its Worker's turn, and stays its turn.
LEMMA TurnoEjecutar ==
  ASSUME InvOrden, NEW w \in Workers, UNCHANGED master_vars,
         NEW i \in {"STORAGE", "READ", "COMMIT"}, Ejecutar(w, i)
  PROVE  Ordenadas' /\ \A q \in Queries : Conserva(q)
<1>1. TypeOK /\ Decodifica(w, i)
  BY DEF InvOrden, Ejecutar
<1>2. PICK x \in Queries : x = ejec[w].query /\ Trabaja(w, x) /\ ~error_storage[w]
  BY <1>1, Decodificada
<1>3. PICK n \in Nat : n = Len(hechas[x])
  BY <1>1 DEF TypeOK, InterpreteTypeOK
<1>4. /\ ~EnEspera(x) /\ En(x, query_en_worker) /\ Adelantado(ejec[w], n)
      /\ \A v \in Workers : ~Asignada(v, x) /\ (Trabaja(v, x) => v = w)
      /\ \A v \in Workers : \A op \in Cierres : ~Dijo(v, op, x)
  BY <1>2, <1>3, Trabajando
<1>5. Fetch(ejec[w]) = n + 1 /\ ejec[w] \in Pcb /\ ejec'[w] \in Pcb
  BY <1>1, <1>4, LineaSiguiente, DecodificaTipo DEF TypeOK, InterpreteTypeOK
<1>6. Adelantado(ejec'[w], n + 1) /\ ejec'[w].query = x /\ ejec'[w].pc \in Nat
  <2>1. ejec' = [ejec EXCEPT ![w].pc = ejec[w].pc + 1, ![w].linea = Fetch(ejec[w])]
    BY <1>1 DEF Decodifica
  <2>2. ejec'[w].pcb = ejec[w].pcb /\ ejec'[w].pc = ejec[w].pc + 1 /\ ejec'[w].linea = n + 1
        /\ ejec'[w].query = ejec[w].query
    BY <1>1, <1>5, <2>1 DEF TypeOK, InterpreteTypeOK, Pcb
  <2>3. Adelantado(ejec'[w], n + 1)
    BY <1>4, <1>5, <2>2, AdelantadaUnaMas
  <2> QED BY <1>2, <1>5, <2>2, <2>3 DEF Pcb
<1>7. hechas'[x] = Append(hechas[x], n + 1) /\ \A q \in Queries : q # x => hechas'[q] = hechas[q]
  BY <1>1, <1>2, <1>5 DEF Ejecutar, TypeOK, InterpreteTypeOK
<1>8. Len(hechas'[x]) = n + 1 /\ \A k \in 1..Len(hechas'[x]) : hechas'[x][k] = k
  <2>1. hechas[x] \in Seq(Nat) /\ \A k \in 1..n : hechas[x][k] = k
    BY <1>1, <1>3 DEF InvOrden, EnTurno, EnSuLinea, TypeOK, InterpreteTypeOK
  <2> QED BY <1>3, <1>7, <2>1, AppendProperties
<1>9. PICK ops \in Seq(Operaciones) :
         /\ Responder(w, ops, ejec'[w].pc)
         /\ \A k \in 1..Len(ops) : ops[k] \in {"READ_RESULT", "ERROR"}
         /\ error_storage'[w] \/ ops = <<>> \/ ops = <<"READ_RESULT">>
  <2>1. Exito(i) \in {<<>>, <<"READ_RESULT">>} /\ Fallos(i) \subseteq {<<"ERROR">>, <<"ERROR", "ERROR">>}
    BY DEF Exito, Fallos
  <2>2. CASE Responder(w, Exito(i), ejec'[w].pc)
    <3>1. \A k \in 1..Len(Exito(i)) : Exito(i)[k] \in {"READ_RESULT", "ERROR"}
      BY <2>1
    <3> QED BY <2>1, <2>2, <3>1, PaquetesTipo
  <2>3. ASSUME NEW f \in Fallos(i), Responder(w, f, ejec'[w].pc),
               error_storage' = [error_storage EXCEPT ![w] = TRUE]
        PROVE  \E ops \in Seq(Operaciones) :
                 /\ Responder(w, ops, ejec'[w].pc)
                 /\ \A k \in 1..Len(ops) : ops[k] \in {"READ_RESULT", "ERROR"}
                 /\ error_storage'[w] \/ ops = <<>> \/ ops = <<"READ_RESULT">>
    <3>1. \A k \in 1..Len(f) : f[k] \in {"READ_RESULT", "ERROR"}
      BY <2>1
    <3>2. error_storage'[w]
      BY <1>1, <2>3 DEF TypeOK, InterpreteTypeOK
    <3> QED BY <2>1, <2>3, <3>1, <3>2, PaquetesTipo
  <2> QED BY <2>2, <2>3 DEF Ejecutar
<1>10. PICK f \in Seq(Mensaje) :
          /\ respuesta' = [respuesta EXCEPT ![w] = respuesta[w] \o f]
          /\ \A m \in ToSet(f) : m.query = x /\ \E k \in 1..Len(ops) : m.op = ops[k]
  BY <1>1, <1>2, <1>6, <1>9, ResponderVarios, SMTT(30)
<1>11. \A m \in ToSet(f) : m.query = x /\ m.op \in {"READ_RESULT", "ERROR"}
                           /\ (m.op = "ERROR" => error_storage'[w])
  <2>1. ASSUME ~error_storage'[w], NEW k \in 1..Len(ops) PROVE ops[k] # "ERROR"
    BY <1>9, <2>1
  <2> QED BY <1>9, <1>10, <2>1
<1>12. /\ respuesta[w] \in Seq(Mensaje) /\ respuesta'[w] = respuesta[w] \o f
       /\ \A v \in Workers : v # w => respuesta'[v] = respuesta[v]
  BY <1>1, <1>10 DEF TypeOK, RedTypeOK
<1>13. \A v \in Workers : \A y \in ToSet(respuesta'[v]) :
          y \in ToSet(respuesta[v]) \/ (v = w /\ y \in ToSet(f))
  BY <1>12, ConVarios
<1>14. Ordenadas'
  <2>1. \A y \in ToSet(respuesta[w]) : y.op = "PC_UPDATE" => y.query # x
    BY <1>4 DEF Dijo, Cierres
  <2>2. CierreUltimo(respuesta[w] \o f)
    BY <1>11, <1>12, <2>1, ConVarios DEF InvOrden, Ordenadas
  <2>3. UNCHANGED despacho
    BY DEF Ejecutar
  <2> QED BY <1>12, <2>2, <2>3 DEF InvOrden, Ordenadas
<1>15. /\ UNCHANGED despacho /\ fase'[w] = "chequear"
       /\ \A v \in Workers : v # w => /\ fase'[v] = fase[v] /\ ejec'[v] = ejec[v]
                                      /\ error_storage'[v] = error_storage[v]
  BY <1>1, Decodificada DEF Ejecutar, Pasa, TypeOK, InterpreteTypeOK
<1>16. ASSUME NEW q \in Queries, q # x PROVE Conserva(q)
  <2>1. SinTocar(q)
    BY <1>6, <1>7, <1>11, <1>13, <1>15, <1>16 DEF SinTocar, Trabaja
  <2> QED BY <2>1, EsperaDelMaster, Quieta DEF InvOrden
<1>17. Conserva(x)
  <2>1. \A v \in Workers : ~Asignada(v, x)' /\ (Trabaja(v, x)' => v = w)
    BY <1>4, <1>15 DEF Asignada, Trabaja
  <2>2. \A v \in Workers : \A op \in Cierres :
           Dijo(v, op, x)' => v = w /\ op = "ERROR" /\ error_storage'[w]
    <3>1. ASSUME NEW v \in Workers, NEW op \in Cierres, Dijo(v, op, x)'
          PROVE  v = w /\ op = "ERROR" /\ error_storage'[w]
      <4>1. PICK m \in ToSet(respuesta'[v]) : m.query = x /\ m.op = op
        BY <3>1 DEF Dijo
      <4>2. m \notin ToSet(respuesta[v])
        BY <1>4, <4>1 DEF Dijo
      <4>3. v = w /\ m \in ToSet(f) /\ op # "READ_RESULT"
        BY <1>13, <4>1, <4>2 DEF Cierres
      <4> QED BY <1>11, <4>1, <4>3
    <3> QED BY <3>1
  <2>3. En(x, query_en_worker)' /\ ~EnEspera(x)'
    BY <1>4, EsperaDelMaster
  <2>4. Turno(x)'
    BY <2>1, <2>2, <2>3 DEF Turno, Cierres
  <2>5. PcEnWorker(x)'
    <3>1. \A v \in Workers : \A m \in ToSet(respuesta'[v]) : m.query = x => m.op # "PC_UPDATE"
      BY <2>2 DEF Dijo, Cierres
    <3> QED BY <1>6, <1>8, <2>1, <3>1 DEF PcEnWorker, Asignada
  <2>6. PcEspera(x)'
    <3>1. ~En(x, cola_queries)' /\ ~EnMano(x)' /\ ~SinEncolar(x)'
      BY <2>3 DEF EnEspera
    <3> QED BY <3>1 DEF PcEspera, SinEncolar
  <2>7. EnTurno(x)' /\ ~Fuera(x)
    BY <1>4, <1>8, <2>4, <2>5, <2>6 DEF EnTurno, EnSuLinea, Fuera
  <2> QED BY <2>7 DEF Conserva
<1> QED BY <1>14, <1>16, <1>17
-------------------------------------------------------------------------------
(* The order of the lines *)

LEMMA OrdenInicial == Init => InvOrden
<1> SUFFICES ASSUME Init PROVE InvOrden
  OBVIOUS
<1>1. \A w \in Workers : /\ despacho[w] = <<>> /\ respuesta[w] = <<>> /\ fase[w] = "recibir"
                         /\ hiloWorker[w] = "no"
  BY DEF Init, RedInit, PlanificadorInit, InterpreteInit
<1>2. cola_queries = <<>> /\ query_en_worker = <<>> /\ hechas = [q \in Queries |-> <<>>]
      /\ \A q \in Queries : hilo["alta"][q] = "no"
  BY DEF Init, PlanificadorInit, InterpreteInit, Hilos
<1>3. UnSoloLugar
  BY <1>1, <1>2 DEF UnSoloLugar, SinRepetidos, En, EnLaMano
<1>4. ToSet(<<>>) = {}
  BY DEF ToSet
<1>5. Ordenadas
  BY <1>1 DEF Ordenadas, SinRepetirQuery, CierreUltimo
<1>6. \A q \in Queries : EnTurno(q)
  <2> TAKE q \in Queries
  <2>1. \A w \in Workers : ~Asignada(w, q) /\ ~Trabaja(w, q) /\ ~Cerrada(w, q) /\ ~EnLaMano(w)
                           /\ \A op \in Cierres : ~Dijo(w, op, q)
    BY <1>1, <1>4 DEF Asignada, Trabaja, Cerrada, Dijo, EnLaMano
  <2>2. Turno(q)
    BY <2>1 DEF Turno, Cierres
  <2>3. EnSuLinea(q)
    BY <1>1, <1>2, <1>4, <2>1 DEF EnSuLinea, PcEspera, PcEnWorker, EnMano, En
  <2> QED BY <2>2, <2>3 DEF EnTurno
<1> QED BY <1>3, <1>5, <1>6, TipoInicial DEF InvOrden

\* Every step keeps it, once it is known that it keeps the types and the places.
LEMMA OrdenSigue ==
  ASSUME InvOrden, TypeOK', UnSoloLugar', [Next]_vars
  PROVE  InvOrden' /\ \A q \in Queries : Fuera(q) => Fuera(q)'
<1> DEFINE Sigue1 == Ordenadas' /\ \A q \in Queries : Conserva(q)
<1>1. ASSUME NEW q \in Queries, CrearQuery(q) \/ HiloAlta(q) \/ HiloTimer(q) \/ HiloVigia(q),
             UNCHANGED worker_vars
      PROVE  Sigue1
  BY <1>1, TurnoDeQuery, TurnoEncolar, TurnoDeLista DEF HiloAlta, HiloVigia
<1>2. ASSUME NEW w \in Workers, IdentificarWorker(w) \/ HiloWorker(w) \/ HiloVigiaWorker(w),
             UNCHANGED worker_vars
      PROVE  Sigue1
  BY <1>2, TurnoAtencion, TurnoDeLista, TurnoRegistrar, TurnoRespuesta, TurnoFinal, TurnoPC DEF HiloWorker
<1>3. ASSUME UNCHANGED <<listas, atencion, hilo, info, despacho, respuesta, worker_vars>> PROVE Sigue1
  <2>1. ASSUME NEW p \in Queries
        PROVE  MismaEspera(p) /\ (En(p, query_en_worker)' <=> En(p, query_en_worker))
    BY <1>3, ListasQuietas DEF SinEncolar, InvOrden, EnTurno, EnSuLinea, PcEspera
  <2> QED BY <1>3, <2>1, MasterQuieto
<1>4. ASSUME \/ Caer /\ UNCHANGED worker_vars
             \/ (\E q \in Queries : IrseQC(q) \/ TerminarQC(q)) /\ UNCHANGED worker_vars
             \/ UNCHANGED vars
      PROVE  Sigue1
  <2>1. UNCHANGED <<listas, atencion, hilo, info, despacho, respuesta, worker_vars>>
    BY <1>4 DEF Caer, IrseQC, TerminarQC, vars, master_vars, deQueries, red
  <2> QED BY <1>3, <2>1
<1>5. ASSUME NEW w \in Workers, HiloEjecutar(w) \/ HiloInterrupciones(w) \/ MorirWorker(w),
             UNCHANGED master_vars
      PROVE  Sigue1
  BY <1>5, TurnoSinCambio, TurnoPath, TurnoTerminar, TurnoInterrumpida, TurnoEjecutar DEF HiloEjecutar
<1> HIDE DEF Sigue1
<1>6. Sigue1
  BY <1>1, <1>2, <1>4, <1>5 DEF Next, PlanificadorNext, InterpreteNext
<1> QED BY <1>6 DEF InvOrden, Sigue1, Conserva

LEMMA OrdenSiempre == Spec => []InvOrden
<1>1. TypeOK' /\ UnSoloLugar' /\ InvOrden /\ [Next]_vars => InvOrden'
  BY OrdenSigue
<1> QED BY <1>1, OrdenInicial, TipoCorrecto, LugarUnico, PTL DEF Spec

\* Whoever is preempted, rejected, disconnected or dead, the lines of a query are executed
\* from the first on, each once, and one that waits goes on where it was left.
THEOREM LineasEnOrden == Spec => []InstruccionesEnOrden
<1>1. InvOrden => InstruccionesEnOrden
  BY DEF InvOrden, EnTurno, EnSuLinea, PcEspera, InstruccionesEnOrden
<1> QED BY <1>1, OrdenSiempre, PTL
-------------------------------------------------------------------------------
(* What the Query Control is told *)

\* A line is executed only of a query that is in query_en_worker and of which nothing
\* that closes it was said; and it is a line of its file.
LEMMA LineaNueva ==
  ASSUME InvOrden, [Next]_vars, NEW q \in Queries, hechas'[q] # hechas[q]
  PROVE  /\ ~Fuera(q) /\ \A v \in Workers : \A op \in Cierres : ~Dijo(v, op, q)
         /\ Len(hechas'[q]) = Len(hechas[q]) + 1 /\ Len(hechas'[q]) <= Len(Programa[q])
<1>1. PICK w \in Workers, i \in {"STORAGE", "READ", "COMMIT"} : Ejecutar(w, i) /\ q = ejec[w].query
  <2>1. \E w \in Workers : HiloEjecutar(w)
    BY DEF Next, vars, worker_vars, InterpreteNext, HiloInterrupciones, LeerInterrupcion,
           MarcarInterrupcion, MorirWorker
  <2>2. \E w \in Workers : \E i \in {"STORAGE", "READ", "COMMIT"} : Ejecutar(w, i)
    BY <2>1 DEF HiloEjecutar, RecibirPath, RecibirSinArchivo, LiberarNombre, AbandonarCiclo, Terminar,
                ChequearInterrupcion
  <2> QED BY <2>2 DEF Ejecutar, InvOrden, TypeOK, InterpreteTypeOK
<1>2. TypeOK /\ Decodifica(w, i)
  BY <1>1 DEF InvOrden, Ejecutar
<1>3. Trabaja(w, q) /\ ~error_storage[w]
  BY <1>1, <1>2, Decodificada
<1>4. PICK n \in Nat : n = Len(hechas[q])
  BY <1>2 DEF TypeOK, InterpreteTypeOK
<1>5. /\ En(q, query_en_worker) /\ Adelantado(ejec[w], n)
      /\ \A v \in Workers : \A op \in Cierres : ~Dijo(v, op, q)
  BY <1>3, <1>4, Trabajando
<1>6. Fetch(ejec[w]) = n + 1
  BY <1>2, <1>5, LineaSiguiente DEF TypeOK, InterpreteTypeOK
<1>7. n + 1 <= Len(Programa[q])
  <2>1. InstruccionEn(q, n + 1) # "END"
    BY <1>1, <1>2, <1>6 DEF Decodifica
  <2>2. Programa[q] \in Seq(Instrucciones)
    BY InterpreteAssumption
  <2> QED BY <2>1, <2>2 DEF InstruccionEn
<1>8. hechas'[q] = Append(hechas[q], n + 1) /\ hechas[q] \in Seq(Nat)
  BY <1>1, <1>2, <1>6 DEF Ejecutar, TypeOK, InterpreteTypeOK
<1> QED BY <1>4, <1>5, <1>7, <1>8 DEF Fuera

\* The Master only takes packets from the connections that bring the answers.
LEMMA MasterEscucha ==
  ASSUME PlanificadorNext \/ \E q \in Queries : IrseQC(q) \/ TerminarQC(q)
  PROVE  UNCHANGED respuesta \/ \E w \in Workers : respuesta[w] # <<>> /\ Consumir(w)
<1>1. ASSUME NEW q \in Queries, CrearQuery(q) \/ HiloAlta(q) \/ IrseQC(q) \/ TerminarQC(q)
      PROVE  UNCHANGED respuesta
  BY <1>1 DEF CrearQuery, HiloAlta, AsignarSocket, AsignarEstado, Encolar, CrearTimer,
              Chequear, Desalojar, Publicar, IrseQC, TerminarQC, red
<1>2. ASSUME NEW q \in Queries, HiloTimer(q) \/ HiloVigia(q)
      PROVE  UNCHANGED respuesta
  BY <1>2 DEF HiloTimer, Envejecer, Chequear, Desalojar, Releer, DespertarTimer, HiloVigia,
              MirarSinNovedad, MirarDesconexion, VigiaCorriendo, VigiaLista, VigiaQuitar, VigiaRobar,
              VigiaSalir, VigiaJoin, red
<1>3. ASSUME NEW w \in Workers, IdentificarWorker(w) \/ HiloVigiaWorker(w)
      PROVE  UNCHANGED respuesta
  BY <1>3 DEF IdentificarWorker, HiloVigiaWorker, AtenderInterrupcion, DetectarCaida, DescontarWorker,
              AvisarCaida, ResponderCaida, RetirarWorker, red
<1>4. ASSUME NEW w \in Workers, HiloWorker(w)
      PROVE  UNCHANGED respuesta \/ (respuesta[w] # <<>> /\ Consumir(w))
  BY <1>4 DEF HiloWorker, EsperarQuery, ValidarWorker, TomarQuery, MarcarRunning, RegistrarYEnviar,
              RecibirPaquete, RecibirRead, RecibirEnd, RecibirError, AbandonarWorker, RecibirPC,
              Reencolar, PublicarDesalojada, RecibirDesconectado, RecibirNulo, Recibe, Llega, red
<1>5. CASE Caer
  BY <1>5 DEF Caer, red
<1> QED BY <1>1, <1>2, <1>3, <1>4, <1>5 DEF PlanificadorNext

\* QUERY_END is sent by an interpreter past the last line of its file, or at a line
\* without parameters.
LEMMA FinDicho ==
  ASSUME InvOrden, [Next]_vars, NEW v \in Workers, NEW q \in Queries,
         Dijo(v, "QUERY_END", q)', ~Dijo(v, "QUERY_END", q)
  PROVE  /\ hechas'[q] = hechas[q]
         /\ Len(hechas[q]) >= Len(Programa[q]) \/ "INCOMPLETA" \in ToSet(Programa[q])
<1>1. TypeOK /\ respuesta \in [Workers -> Seq(Mensaje)]
  BY DEF InvOrden, TypeOK, RedTypeOK
<1>2. PICK m : m \in ToSet(respuesta'[v]) /\ m.query = q /\ m.op = "QUERY_END" /\ m \notin ToSet(respuesta[v])
  BY DEF Dijo
<1>3. ~ \E w \in Workers : respuesta[w] # <<>> /\ Consumir(w)
  <2>1. ASSUME NEW w \in Workers, respuesta[w] # <<>>, respuesta' = [respuesta EXCEPT ![w] = Tail(respuesta[w])]
        PROVE  FALSE
    <3>1. respuesta'[v] = respuesta[v] \/ (v = w /\ respuesta'[v] = Tail(respuesta[v]))
      BY <1>1, <2>1
    <3> QED BY <1>1, <1>2, <2>1, <3>1, SinElPrimero
  <2> QED BY <2>1 DEF Consumir
<1>4. respuesta' # respuesta
  BY <1>2
<1>5. PICK w \in Workers : HiloEjecutar(w)
  <2>1. ~ (PlanificadorNext \/ \E p \in Queries : IrseQC(p) \/ TerminarQC(p))
    BY <1>3, <1>4, MasterEscucha
  <2> QED BY <1>4, <2>1 DEF Next, vars, red, InterpreteNext, HiloInterrupciones, LeerInterrupcion,
                            MarcarInterrupcion, MorirWorker
<1>6. v = w /\ \A x \in Workers : x # w => respuesta'[x] = respuesta[x]
  BY <1>1, <1>2, <1>5 DEF HiloEjecutar, RecibirPath, RecibirSinArchivo, LiberarNombre, AbandonarCiclo,
        Terminar, Ejecutar, ChequearInterrupcion, Responder, Morir, red
<1>7. ASSUME NEW y \in Mensaje, y.op # "QUERY_END", respuesta' = [respuesta EXCEPT ![w] = Append(respuesta[w], y)]
      PROVE  FALSE
  <2>1. respuesta'[w] = Append(respuesta[w], y)
    BY <1>1, <1>7
  <2> QED BY <1>1, <1>2, <1>6, <1>7, <2>1, ConUnoMas
<1>8. Terminar(w)
  <2>1. ~RecibirSinArchivo(w)
    <3> SUFFICES ASSUME RecibirSinArchivo(w) PROVE FALSE
      OBVIOUS
    <3>1. PICK y : y = [op |-> "ERROR_QUERY_NO_ENCONTRADA", query |-> Head(despacho[w]).query, pc |-> 0]
      OBVIOUS
    <3>2. Head(despacho[w]) \in Asignacion
      BY <1>1 DEF RecibirSinArchivo, TypeOK, RedTypeOK
    <3>3. y \in Mensaje /\ y.op # "QUERY_END"
      BY <3>1, <3>2 DEF Mensaje, Asignacion, Operaciones
    <3>4. respuesta' = [respuesta EXCEPT ![w] = Append(respuesta[w], y)]
      BY <3>1 DEF RecibirSinArchivo
    <3> QED BY <1>7, <3>3, <3>4
  <2>2. ~ChequearInterrupcion(w)
    <3> SUFFICES ASSUME ChequearInterrupcion(w) PROVE FALSE
      OBVIOUS
    <3>1. PICK op \in {"QUERY_DESCONECTADO", "PC_UPDATE"} : Responder(w, <<op>>, ejec[w].pc)
      BY <1>4 DEF ChequearInterrupcion
    <3>2. ejec[w].query \in Queries /\ ejec[w].pc \in Nat /\ op \in Operaciones
      BY <1>1, SuQuery DEF ChequearInterrupcion, Corre, Operaciones, TypeOK, InterpreteTypeOK, Pcb
    <3>3. PICK y \in Mensaje : /\ y.op = op
                               /\ respuesta' = [respuesta EXCEPT ![w] = Append(respuesta[w], y)]
      BY <1>1, <3>1, <3>2, ResponderUno
    <3> QED BY <1>7, <3>3
  <2>3. ASSUME NEW i \in {"STORAGE", "READ", "COMMIT"}, Ejecutar(w, i) PROVE FALSE
    <3>1. Decodifica(w, i)
      BY <2>3 DEF Ejecutar
    <3>2. ejec[w].query \in Queries /\ ejec'[w].pc \in Nat
      BY <1>1, <3>1, Decodificada, DecodificaTipo
    <3>3. PICK ops \in Seq(Operaciones) :
             Responder(w, ops, ejec'[w].pc) /\ \A k \in 1..Len(ops) : ops[k] # "QUERY_END"
      <4>1. Exito(i) \in Seq(Operaciones) /\ \A k \in 1..Len(Exito(i)) : Exito(i)[k] # "QUERY_END"
        BY PaquetesTipo DEF Exito
      <4>2. \A f \in Fallos(i) : f \in Seq(Operaciones) /\ \A k \in 1..Len(f) : f[k] # "QUERY_END"
        <5>1. Fallos(i) \subseteq {<<"ERROR">>, <<"ERROR", "ERROR">>}
          BY DEF Fallos
        <5>2. /\ \A k \in 1..Len(<<"ERROR">>) : <<"ERROR">>[k] # "QUERY_END"
              /\ \A k \in 1..Len(<<"ERROR", "ERROR">>) : <<"ERROR", "ERROR">>[k] # "QUERY_END"
          OBVIOUS
        <5> QED BY <5>1, <5>2, PaquetesTipo
      <4> QED BY <2>3, <4>1, <4>2 DEF Ejecutar
    <3>4. PICK f \in Seq(Mensaje) :
             /\ respuesta' = [respuesta EXCEPT ![w] = respuesta[w] \o f]
             /\ \A y \in ToSet(f) : y.query = ejec[w].query /\ \E k \in 1..Len(ops) : y.op = ops[k]
             /\ \A k \in 1..Len(ops) : \E y \in ToSet(f) : y.op = ops[k]
      <4>1. ejec'[w].pc \in Nat /\ ops \in Seq(Operaciones) /\ Responder(w, ops, ejec'[w].pc)
        BY <3>2, <3>3
      <4> QED BY <1>1, <3>2, <4>1, ResponderVarios
    <3>5. respuesta'[w] = respuesta[w] \o f /\ m \notin ToSet(f)
      BY <1>1, <1>2, <3>3, <3>4
    <3> QED BY <1>1, <1>2, <1>6, <3>5, ConVarios
  <2> QED BY <1>4, <1>5, <2>1, <2>2, <2>3
      DEF HiloEjecutar, RecibirPath, LiberarNombre, AbandonarCiclo, Morir, red
<1>9. PICK i \in {"END", "DESCONOCIDA", "INCOMPLETA"}, op \in {"QUERY_END", "ERROR"} :
         /\ Decodifica(w, i) /\ Responder(w, <<op>>, 0)
         /\ op = "QUERY_END" => i \in {"END", "INCOMPLETA"}
  BY <1>8 DEF Terminar
<1>10. ejec[w].query \in Queries /\ Trabaja(w, ejec[w].query)
  BY <1>1, <1>9, Decodificada
<1>11. PICK y \in Mensaje : /\ y.op = op /\ y.query = ejec[w].query
                            /\ respuesta' = [respuesta EXCEPT ![w] = Append(respuesta[w], y)]
  <2>1. op \in Operaciones /\ 0 \in Nat
    BY DEF Operaciones
  <2>2. \E y \in Mensaje : /\ y.op = op /\ y.query = ejec[w].query /\ y.pc = 0
                           /\ respuesta' = [respuesta EXCEPT ![w] = Append(respuesta[w], y)]
    BY <1>1, <1>9, <1>10, <2>1, ResponderUno
  <2> QED BY <2>2
<1>12. m = y
  <2>1. respuesta'[w] = Append(respuesta[w], y)
    BY <1>1, <1>11
  <2> QED BY <1>1, <1>2, <1>6, <2>1, ConUnoMas
<1>13. PICK n \in Nat : n = Len(hechas[q])
  BY <1>1 DEF TypeOK, InterpreteTypeOK
<1>14. Fetch(ejec[w]) = n + 1 /\ i = InstruccionEn(q, n + 1) /\ i \in {"END", "INCOMPLETA"}
  <2>1. Adelantado(ejec[w], n)
    BY <1>2, <1>10, <1>11, <1>12, <1>13, Trabajando
  <2>2. Fetch(ejec[w]) = n + 1
    BY <1>1, <2>1, LineaSiguiente DEF TypeOK, InterpreteTypeOK
  <2> QED BY <1>2, <1>9, <1>11, <1>12, <2>2 DEF Decodifica
<1>15. Programa[q] \in Seq(Instrucciones)
  BY InterpreteAssumption
<1>16. n >= Len(Programa[q]) \/ "INCOMPLETA" \in ToSet(Programa[q])
  BY <1>14, <1>15 DEF InstruccionEn, ToSet, Instrucciones
<1> QED BY <1>8, <1>13, <1>16 DEF Terminar
\* Three steps give a Query Control its final response.
LEMMA QuienContesta ==
  ASSUME [Next]_vars, finales' # finales
  PROVE  /\ UNCHANGED worker_vars
         /\ \E w \in Workers : RecibirEnd(w) \/ RecibirError(w) \/ ResponderCaida(w)
<1>1. ~ UNCHANGED haciaQC
  BY DEF haciaQC
<1>2. ASSUME NEW q \in Queries, CrearQuery(q) \/ HiloAlta(q) \/ IrseQC(q) \/ TerminarQC(q)
      PROVE  UNCHANGED finales
  BY <1>2 DEF CrearQuery, HiloAlta, AsignarSocket, AsignarEstado, Encolar, CrearTimer,
              Chequear, Desalojar, Publicar, IrseQC, TerminarQC, haciaQC
<1>3. ASSUME NEW q \in Queries, HiloTimer(q) \/ HiloVigia(q)
      PROVE  UNCHANGED finales
  BY <1>3 DEF HiloTimer, Envejecer, Chequear, Desalojar, Releer, DespertarTimer, HiloVigia,
              MirarSinNovedad, MirarDesconexion, VigiaCorriendo, VigiaLista, VigiaQuitar, VigiaRobar,
              VigiaSalir, VigiaJoin, haciaQC
<1>4. ASSUME NEW w \in Workers, IdentificarWorker(w) \/ HiloVigiaWorker(w)
      PROVE  UNCHANGED finales \/ ResponderCaida(w)
  BY <1>4 DEF IdentificarWorker, HiloVigiaWorker, AtenderInterrupcion, DetectarCaida, DescontarWorker,
              AvisarCaida, RetirarWorker, haciaQC
<1>5. ASSUME NEW w \in Workers, HiloWorker(w)
      PROVE  UNCHANGED finales \/ RecibirEnd(w) \/ RecibirError(w)
  BY <1>5 DEF HiloWorker, EsperarQuery, ValidarWorker, TomarQuery, MarcarRunning, RegistrarYEnviar,
              RecibirPaquete, RecibirRead, AbandonarWorker, RecibirPC,
              Reencolar, PublicarDesalojada, RecibirDesconectado, RecibirNulo, haciaQC
<1>6. ~Caer /\ ~ UNCHANGED <<master_vars>>
  BY <1>1 DEF Caer, master_vars
<1> QED BY <1>2, <1>3, <1>4, <1>5, <1>6 DEF Next, PlanificadorNext, vars

\* One more response.
LEMMA UnaMas ==
  ASSUME NEW S, NEW s \in Seq(S), NEW r \in S
  PROVE  /\ Append(s, r) # <<>> /\ (s = <<>> => Len(Append(s, r)) = 1)
         /\ \A x : En(x, Append(s, r)) => En(x, s) \/ x = r
<1> DEFINE t == Append(s, r)
<1>1. Len(s) \in Nat /\ Len(t) = Len(s) + 1 /\ t[Len(s) + 1] = r /\ \A i \in 1..Len(s) : t[i] = s[i]
  BY AppendProperties
<1>2. t # <<>> /\ (s = <<>> => Len(t) = 1)
  BY <1>1
<1> HIDE DEF t
<1>3. ASSUME NEW x, En(x, t) PROVE En(x, s) \/ x = r
  BY <1>1, <1>3 DEF En
<1> QED BY <1>2, <1>3 DEF t

\* The final response of a query that was with a Worker: it is with nobody afterwards, and
\* END was said by the Worker.  The other is for the query of a Worker that died.
LEMMA FinalNuevo ==
  ASSUME InvOrden, [Next]_vars, NEW q \in Queries, finales'[q] # finales[q]
  PROVE  \E r \in {"END", "ERROR", "WORKER_DESCONECTADO"} :
            /\ finales'[q] = Append(finales[q], r)
            /\ \/ ~Fuera(q) /\ Fuera(q)' /\ (r = "END" => \E w \in Workers : Dijo(w, "QUERY_END", q))
               \/ r = "WORKER_DESCONECTADO" /\ \E w \in Workers : vigiaWorker[w] = "avisar"
<1>1. finales' # finales /\ TypeOK
  BY DEF InvOrden
<1>2. PICK w \in Workers : RecibirEnd(w) \/ RecibirError(w) \/ ResponderCaida(w)
  BY <1>1, QuienContesta
<1>3. UNCHANGED worker_vars
  BY <1>1, QuienContesta
<1>4. finales \in [Queries -> Seq({"END", "ERROR", "WORKER_DESCONECTADO"})]
  BY <1>1 DEF TypeOK, PlanificadorTypeOK, HaciaQCOK
<1>5. ASSUME NEW x, NEW r, Recibido(x, r) PROVE q = x /\ finales'[q] = Append(finales[q], r)
  BY <1>4, <1>5 DEF Recibido
<1>6. CASE RecibirEnd(w)
  <2>1. q = Head(respuesta[w]).query /\ finales'[q] = Append(finales[q], "END")
    BY <1>5, <1>6 DEF RecibirEnd
  <2>2. ~Fuera(q) /\ Fuera(q)'
    BY <1>3, <1>6, <2>1, TurnoFinal
  <2>3. Dijo(w, "QUERY_END", q)
    BY <1>1, <1>3, <1>6, <2>1, Consumida DEF RecibirEnd, Recibe, Dijo, InvOrden
  <2> QED BY <2>1, <2>2, <2>3
<1>7. CASE RecibirError(w)
  <2>1. q = Head(respuesta[w]).query /\ finales'[q] = Append(finales[q], "ERROR")
    BY <1>5, <1>7 DEF RecibirError
  <2>2. ~Fuera(q) /\ Fuera(q)'
    BY <1>3, <1>7, <2>1, TurnoFinal
  <2> QED BY <2>1, <2>2
<1>8. CASE ResponderCaida(w)
  BY <1>5, <1>8 DEF ResponderCaida
<1> QED BY <1>2, <1>6, <1>7, <1>8

LEMMA FinFielSigue ==
  ASSUME InvOrden, [Next]_vars, SinIncompletas, NEW q \in Queries, FinFiel(q),
         Fuera(q) => Fuera(q)'
  PROVE  FinFiel(q)'
<1>1. Len(hechas[q]) \in Nat /\ Len(Programa[q]) \in Nat
  BY InterpreteAssumption DEF InvOrden, TypeOK, InterpreteTypeOK
<1>2. Len(hechas'[q]) <= Len(Programa[q])
  BY <1>1, LineaNueva DEF FinFiel
<1>3. ASSUME NEW w \in Workers, Dijo(w, "QUERY_END", q)' PROVE Agotada(q)'
  <2>1. CASE Dijo(w, "QUERY_END", q)
    <3>1. hechas'[q] = hechas[q]
      BY <2>1, LineaNueva DEF Cierres
    <3> QED BY <2>1, <3>1 DEF FinFiel, Agotada
  <2>2. CASE ~Dijo(w, "QUERY_END", q)
    <3>1. hechas'[q] = hechas[q] /\ Len(hechas[q]) >= Len(Programa[q])
      BY <1>3, <2>2, FinDicho DEF SinIncompletas
    <3> QED BY <1>1, <3>1 DEF FinFiel, Agotada
  <2> QED BY <2>1, <2>2
<1>4. ASSUME En("END", finales[q])' PROVE Agotada(q)' /\ Fuera(q)'
  <2>1. CASE En("END", finales[q])
    <3>1. Agotada(q) /\ Fuera(q) /\ hechas'[q] = hechas[q]
      BY <2>1, LineaNueva DEF FinFiel
    <3> QED BY <3>1 DEF Agotada
  <2>2. CASE ~En("END", finales[q])
    <3>1. PICK r \in {"END", "ERROR", "WORKER_DESCONECTADO"} :
            /\ finales'[q] = Append(finales[q], r)
            /\ \/ ~Fuera(q) /\ Fuera(q)' /\ (r = "END" => \E w \in Workers : Dijo(w, "QUERY_END", q))
               \/ r = "WORKER_DESCONECTADO" /\ \E w \in Workers : vigiaWorker[w] = "avisar"
      BY <1>4, <2>2, FinalNuevo
    <3>2. finales[q] \in Seq({"END", "ERROR", "WORKER_DESCONECTADO"})
      BY DEF InvOrden, TypeOK, PlanificadorTypeOK, HaciaQCOK
    <3>3. r = "END"
      BY <1>4, <2>2, <3>1, <3>2, UnaMas
    <3>4. PICK w \in Workers : Dijo(w, "QUERY_END", q)
      BY <3>1, <3>3
    <3>5. hechas'[q] = hechas[q] /\ Agotada(q)
      BY <3>4, LineaNueva DEF FinFiel, Cierres
    <3> QED BY <3>1, <3>3, <3>5 DEF Agotada
  <2> QED BY <2>1, <2>2
<1> QED BY <1>2, <1>3, <1>4 DEF FinFiel

LEMMA FinFielSiempre == Spec => []InvFinFiel
<1>1. Init => InvFinFiel
  <2> SUFFICES ASSUME Init, NEW q \in Queries PROVE FinFiel(q)
    BY DEF InvFinFiel
  <2>1. hechas[q] = <<>>
    BY DEF Init, InterpreteInit
  <2>2. finales[q] = <<>>
    BY DEF Init, PlanificadorInit
  <2>3. Programa[q] \in Seq(Instrucciones)
    BY InterpreteAssumption
  <2>4. \A w \in Workers : respuesta[w] = <<>>
    BY DEF Init, RedInit
  <2>5. ToSet(<<>>) = {} /\ ~En("END", <<>>) /\ Len(<<>>) = 0
    BY DEF ToSet, En
  <2>6. Len(hechas[q]) <= Len(Programa[q])
    BY <2>1, <2>3, <2>5
  <2> QED BY <2>2, <2>4, <2>5, <2>6 DEF FinFiel, Dijo
<1>2. InvOrden /\ TypeOK' /\ UnSoloLugar' /\ InvFinFiel /\ [Next]_vars => InvFinFiel'
  BY OrdenSigue, FinFielSigue DEF InvFinFiel, SinIncompletas
<1> QED BY <1>1, <1>2, OrdenSiempre, TipoCorrecto, LugarUnico, PTL DEF Spec

\* A Query Control is told END only when every line of its file was executed, provided the
\* file has no instruction without its parameters (the Worker takes garbage for its end).
THEOREM FinVerdadero == Spec => [](SinIncompletas => ExitoCompleto)
<1>1. InvFinFiel => (SinIncompletas => ExitoCompleto)
  BY DEF InvFinFiel, FinFiel, Agotada, ExitoCompleto
<1> QED BY <1>1, FinFielSiempre, PTL

\* Dead Workers stay dead, and a watcher ends its wait only for a dead Worker.
LEMMA VigiaFielSigue ==
  ASSUME TypeOK, [Next]_vars, VigiaFiel
  PROVE  VigiaFiel' /\ (SinCaidas' => SinCaidas)
<1> DEFINE Tras(w) == /\ proceso[w] = "muerto" => proceso'[w] = "muerto"
                      /\ vigiaWorker'[w] \in {"descontar", "buscar", "avisar", "esperar", "fin"}
                            => \/ vigiaWorker[w] \in {"descontar", "buscar", "avisar", "esperar", "fin"}
                               \/ proceso[w] = "muerto"
<1>1. ASSUME UNCHANGED <<proceso, vigiaWorker>>, NEW w \in Workers PROVE Tras(w)
  BY <1>1
<1>2. ASSUME NEW q \in Queries, CrearQuery(q) \/ HiloAlta(q) \/ IrseQC(q) \/ TerminarQC(q)
      PROVE  UNCHANGED <<proceso, vigiaWorker>>
  BY <1>2 DEF CrearQuery, HiloAlta, AsignarSocket, AsignarEstado, Encolar, CrearTimer,
              Chequear, Desalojar, Publicar, IrseQC, TerminarQC, red, deWorkers
<1>3. ASSUME NEW q \in Queries, HiloTimer(q) \/ HiloVigia(q)
      PROVE  UNCHANGED <<proceso, vigiaWorker>>
  BY <1>3 DEF HiloTimer, Envejecer, Chequear, Desalojar, Releer, DespertarTimer, HiloVigia,
              MirarSinNovedad, MirarDesconexion, VigiaCorriendo, VigiaLista, VigiaQuitar, VigiaRobar,
              VigiaSalir, VigiaJoin, red, deWorkers
<1>4. ASSUME NEW v \in Workers, IdentificarWorker(v) \/ HiloVigiaWorker(v), NEW w \in Workers
      PROVE  Tras(w)
  <2>1. proceso \in [Workers -> EstadosProceso]
    BY DEF TypeOK, RedTypeOK
  <2>2. vigiaWorker \in [Workers -> {"no", "escuchar", "descontar", "buscar", "avisar",
                                        "esperar", "fin"}]
    BY DEF TypeOK, PlanificadorTypeOK, DeWorkersOK
  <2> QED BY <1>4, <2>1, <2>2
        DEF IdentificarWorker, HiloVigiaWorker, AtenderInterrupcion, DetectarCaida, DescontarWorker,
            AvisarCaida, ResponderCaida, RetirarWorker, red
<1>5. ASSUME NEW v \in Workers, HiloWorker(v)
      PROVE  UNCHANGED <<proceso, vigiaWorker>>
  BY <1>5 DEF HiloWorker, EsperarQuery, ValidarWorker, TomarQuery, MarcarRunning, RegistrarYEnviar,
              RecibirPaquete, RecibirRead, RecibirEnd, RecibirError, AbandonarWorker, RecibirPC,
              Reencolar, PublicarDesalojada, RecibirDesconectado, RecibirNulo, red, deWorkers
<1>6. ASSUME NEW v \in Workers, HiloEjecutar(v) \/ HiloInterrupciones(v) \/ MorirWorker(v),
             UNCHANGED master_vars, NEW w \in Workers
      PROVE  Tras(w)
  <2>1. proceso \in [Workers -> EstadosProceso] /\ vigiaWorker' = vigiaWorker
    BY <1>6 DEF TypeOK, RedTypeOK, master_vars, deWorkers
  <2>2. UNCHANGED proceso \/ Morir(v)
    BY <1>6 DEF HiloEjecutar, RecibirPath, RecibirSinArchivo, LiberarNombre, AbandonarCiclo, Terminar,
                Ejecutar, ChequearInterrupcion, HiloInterrupciones, LeerInterrupcion,
                MarcarInterrupcion, MorirWorker, red
  <2> QED BY <2>1, <2>2 DEF Morir
<1>7. ASSUME Caer \/ UNCHANGED vars PROVE UNCHANGED <<proceso, vigiaWorker>>
  BY <1>7 DEF Caer, vars, master_vars, red, deWorkers
<1>8. \A w \in Workers : Tras(w)
  <2> HIDE DEF Tras
  <2> QED BY <1>1, <1>2, <1>3, <1>4, <1>5, <1>6, <1>7 DEF Next, PlanificadorNext, InterpreteNext
<1> QED BY <1>8 DEF VigiaFiel, SinCaidas

\* Until a Worker dies, only what a Worker said closes a query, and it is then with nobody.
LEMMA UnFinalSigue ==
  ASSUME InvOrden, [Next]_vars, VigiaFiel, SinCaidas, NEW q \in Queries, UnFinal(q),
         Fuera(q) => Fuera(q)'
  PROVE  UnFinal(q)'
<1>1. CASE finales'[q] = finales[q]
  BY <1>1 DEF UnFinal
<1>2. CASE finales'[q] # finales[q]
  <2>1. PICK r \in {"END", "ERROR", "WORKER_DESCONECTADO"} :
            /\ finales'[q] = Append(finales[q], r)
            /\ \/ ~Fuera(q) /\ Fuera(q)' /\ (r = "END" => \E w \in Workers : Dijo(w, "QUERY_END", q))
               \/ r = "WORKER_DESCONECTADO" /\ \E w \in Workers : vigiaWorker[w] = "avisar"
    BY <1>2, FinalNuevo
  <2>2. ~Fuera(q) /\ Fuera(q)'
    BY <2>1 DEF VigiaFiel, SinCaidas
  <2>3. finales[q] = <<>>
    BY <2>2 DEF UnFinal
  <2>4. finales[q] \in Seq({"END", "ERROR", "WORKER_DESCONECTADO"})
    BY DEF InvOrden, TypeOK, PlanificadorTypeOK, HaciaQCOK
  <2>5. Len(finales'[q]) = 1
    BY <2>1, <2>3, <2>4, UnaMas
  <2> QED BY <2>2, <2>5 DEF UnFinal
<1> QED BY <1>1, <1>2

InvFinal == VigiaFiel /\ (SinCaidas => \A q \in Queries : UnFinal(q))

LEMMA FinalSiempre == Spec => []InvFinal
<1>1. Init => InvFinal
  <2>1. Init => \A w \in Workers : vigiaWorker[w] = "no"
    BY DEF Init, PlanificadorInit
  <2>2. Init => \A q \in Queries : finales[q] = <<>>
    BY DEF Init, PlanificadorInit
  <2> QED BY <2>1, <2>2 DEF InvFinal, VigiaFiel, UnFinal
<1>2. InvOrden /\ TypeOK' /\ UnSoloLugar' /\ InvFinal /\ [Next]_vars => InvFinal'
  <2> SUFFICES ASSUME InvOrden, TypeOK', UnSoloLugar', InvFinal, [Next]_vars PROVE InvFinal'
    OBVIOUS
  <2>1. VigiaFiel' /\ (SinCaidas' => SinCaidas)
    BY VigiaFielSigue DEF InvFinal, InvOrden
  <2>2. \A q \in Queries : Fuera(q) => Fuera(q)'
    BY OrdenSigue
  <2>3. SinCaidas => \A q \in Queries : UnFinal(q)'
    BY <2>2, UnFinalSigue DEF InvFinal
  <2> QED BY <2>1, <2>3 DEF InvFinal
<1> QED BY <1>1, <1>2, OrdenSiempre, TipoCorrecto, LugarUnico, PTL DEF Spec

\* While no Worker died, a Query Control gets at most one final response.  The Master
\* answers for a dead Worker without taking its query back, and may so answer twice.
THEOREM UnaRespuesta == Spec => [](SinCaidas => RespuestaUnica)
<1>1. InvFinal /\ TypeOK => (SinCaidas => RespuestaUnica)
  <2> SUFFICES ASSUME InvFinal, TypeOK, SinCaidas, NEW q \in Queries PROVE Len(finales[q]) <= 1
    BY DEF RespuestaUnica
  <2>1. CASE finales[q] # <<>>
    <3>1. Len(finales[q]) = 1
      BY <2>1 DEF InvFinal, UnFinal
    <3> QED BY <3>1
  <2>2. CASE finales[q] = <<>>
    BY <2>2
  <2> QED BY <2>1, <2>2
<1> QED BY <1>1, FinalSiempre, TipoCorrecto, PTL

\* While no Worker died, no line of a query is executed after its final response.
THEOREM NadaDespues == Spec /\ []SinCaidas => NadaTrasElFinal
<1>1. InvOrden /\ InvFinal /\ SinCaidas /\ [Next]_vars
        => [\A q \in Queries : finales[q] # <<>> => hechas'[q] = hechas[q]]_vars
  BY LineaNueva DEF InvFinal, UnFinal
<1> QED BY <1>1, FinalSiempre, OrdenSiempre, PTL DEF Spec, NadaTrasElFinal
-------------------------------------------------------------------------------
(* A Worker has one query *)

DelWorker(w, q) == Asignada(w, q) \/ Trabaja(w, q) \/ Cerrada(w, q)

\* The parts of Exclusiva, one by one.
LEMMA ExclusivaSigue ==
  ASSUME Exclusiva,
         \A w \in Workers : ~error_storage'[w] /\ UnCierre(respuesta'[w]),
         \A w \in Workers, q \in Queries :
            Ocupa(w, q)' => Ocupa(w, q) /\ hiloWorker'[w] \in {"leer", "atender", "fin"},
         \A q \in Queries : En(q, query_en_worker)' => info'[q].worker \in Workers,
         \A w \in Workers, q \in Queries : DelWorker(w, q)' => Ocupa(w, q)'
  PROVE  Exclusiva'
<1>1. \A w \in Workers, q \in Queries : Asignada(w, q)' \/ Trabaja(w, q)' \/ Cerrada(w, q)' => Ocupa(w, q)'
  BY DEF DelWorker
<1>2. \A w \in Workers, p, q \in Queries : Ocupa(w, p)' /\ Ocupa(w, q)' => p = q
  BY DEF Exclusiva
<1> QED BY <1>1, <1>2 DEF Exclusiva

\* A step of the Master that neither assigns a query nor takes one back.
LEMMA ExclusivaQuieta ==
  ASSUME InvOrden, Exclusiva, UNCHANGED <<query_en_worker, worker_vars>>,
         \A q : SinTocar(q),
         \A w \in Workers : UnCierre(respuesta'[w]),
         \A q \in Queries : info'[q].worker = info[q].worker,
         \A w \in Workers : \/ hiloWorker'[w] = hiloWorker[w]
                            \/ hiloWorker[w] \notin {"leer", "atender", "fin"}
                            \/ hiloWorker'[w] \in {"leer", "atender", "fin"}
  PROVE  Exclusiva'
<1>1. \A q : En(q, query_en_worker)' <=> En(q, query_en_worker)
  OBVIOUS
<1>2. \A w \in Workers, q \in Queries : Ocupa(w, q)' <=> Ocupa(w, q)
  BY <1>1 DEF Ocupa
<1>3. \A w \in Workers, q \in Queries : DelWorker(w, q)' => Ocupa(w, q)'
  BY <1>2, NadaNuevo DEF DelWorker, Exclusiva
<1>4. \A w \in Workers : ~error_storage'[w]
  BY DEF Exclusiva, worker_vars
<1>5. \A q \in Queries : En(q, query_en_worker)' => info'[q].worker \in Workers
  BY <1>1 DEF Exclusiva
<1>6. \A w \in Workers, q \in Queries :
         Ocupa(w, q)' => Ocupa(w, q) /\ hiloWorker'[w] \in {"leer", "atender", "fin"}
  BY <1>2 DEF Exclusiva
<1> QED BY <1>3, <1>4, <1>5, <1>6, ExclusivaSigue

LEMMA ExclusivaDeQuery ==
  ASSUME InvOrden, Exclusiva, UNCHANGED worker_vars, NEW q \in Queries,
         CrearQuery(q) \/ HiloAlta(q) \/ HiloTimer(q) \/ HiloVigia(q)
  PROVE  Exclusiva'
<1>1. UNCHANGED <<query_en_worker, despacho, respuesta, hiloWorker>>
  <2>1. CASE CrearQuery(q) \/ HiloAlta(q)
    BY <2>1 DEF CrearQuery, HiloAlta, AsignarSocket, AsignarEstado, Encolar, CrearTimer,
                Chequear, Desalojar, Publicar, listas, atencion, red
  <2>2. CASE HiloTimer(q)
    BY <2>2 DEF HiloTimer, Envejecer, Chequear, Desalojar, Releer, DespertarTimer,
                listas, atencion, red
  <2>3. CASE HiloVigia(q)
    BY <2>3 DEF HiloVigia, MirarSinNovedad, MirarDesconexion, VigiaCorriendo, Desalojar, VigiaLista,
                VigiaQuitar, VigiaRobar, VigiaSalir, VigiaJoin, listas, atencion, red
  <2> QED BY <2>1, <2>2, <2>3
<1>2. \A p \in Queries : info'[p].worker = info[p].worker
  <2>1. info \in [Queries -> Info]
    BY DEF InvOrden, TypeOK, PlanificadorTypeOK, DeQueriesOK
  <2>2. CASE CrearQuery(q) \/ HiloAlta(q)
    <3>1. CASE CrearQuery(q)
      BY <2>1, <3>1 DEF CrearQuery, Info
    <3>2. CASE AsignarEstado(q)
      BY <2>1, <3>2 DEF AsignarEstado, Info
    <3>3. CASE HiloAlta(q) /\ ~AsignarEstado(q)
      BY <3>3 DEF HiloAlta, AsignarSocket, Encolar, CrearTimer, Chequear, Desalojar, Publicar
    <3> QED BY <2>2, <3>1, <3>2, <3>3
  <2>3. CASE HiloTimer(q)
    BY <2>1, <2>3 DEF HiloTimer, Envejecer, Chequear, Desalojar, Releer, DespertarTimer, Info
  <2>4. CASE HiloVigia(q)
    BY <2>1, <2>4 DEF HiloVigia, MirarSinNovedad, MirarDesconexion, VigiaCorriendo, Desalojar, VigiaLista,
                VigiaQuitar, VigiaRobar, VigiaSalir, VigiaJoin, Info
  <2> QED BY <2>2, <2>3, <2>4
<1>3. (\A p : SinTocar(p)) /\ \A w \in Workers : UnCierre(respuesta'[w])
  BY <1>1, RedQuieta DEF Exclusiva
<1> QED BY <1>1, <1>2, <1>3, ExclusivaQuieta

\* The thread of a Worker that is not being answered, and the watcher of its connection.
LEMMA ExclusivaDeAtencion ==
  ASSUME InvOrden, Exclusiva, UNCHANGED worker_vars, NEW w \in Workers,
         \/ IdentificarWorker(w) \/ HiloVigiaWorker(w)
         \/ EsperarQuery(w) \/ ValidarWorker(w) \/ TomarQuery(w) \/ MarcarRunning(w)
         \/ RecibirPaquete(w) \/ Reencolar(w) \/ PublicarDesalojada(w) \/ RecibirNulo(w)
  PROVE  Exclusiva'
<1> DEFINE Tranquilo(v) == \/ hiloWorker'[v] = hiloWorker[v]
                           \/ hiloWorker[v] \notin {"leer", "atender", "fin"}
                           \/ hiloWorker'[v] \in {"leer", "atender", "fin"}
<1>1. UNCHANGED <<query_en_worker, despacho, respuesta>>
  BY DEF IdentificarWorker, HiloVigiaWorker, AtenderInterrupcion, DetectarCaida, DescontarWorker,
         AvisarCaida, ResponderCaida, RetirarWorker, EsperarQuery, ValidarWorker, TomarQuery, MarcarRunning,
         RecibirPaquete, Reencolar, PublicarDesalojada, RecibirNulo, listas, red
<1>2. \A p \in Queries : info'[p].worker = info[p].worker
  <2>1. info \in [Queries -> Info]
    BY DEF InvOrden, TypeOK, PlanificadorTypeOK, DeQueriesOK
  <2>2. \/ UNCHANGED info
        \/ \E q : info' = [info EXCEPT ![q].estado = "RUNNING"]
        \/ \E q : info' = [info EXCEPT ![q].estado = "EXIT"]
    <3>1. CASE HiloVigiaWorker(w)
      BY <3>1 DEF HiloVigiaWorker, AtenderInterrupcion, DetectarCaida, DescontarWorker,
                  AvisarCaida, ResponderCaida, RetirarWorker, deQueries
    <3>2. CASE MarcarRunning(w)
      BY <3>2 DEF MarcarRunning
    <3>3. CASE ~HiloVigiaWorker(w) /\ ~MarcarRunning(w)
      BY <3>3 DEF IdentificarWorker, EsperarQuery, ValidarWorker, TomarQuery, RecibirPaquete,
                  Reencolar, PublicarDesalojada, RecibirNulo, deQueries
    <3> QED BY <3>1, <3>2, <3>3
  <2> QED BY <2>1, <2>2 DEF Info
<1>3. \A v \in Workers : Tranquilo(v)
  <2>1. hiloWorker \in [Workers -> PasosWorker]
    BY DEF InvOrden, TypeOK, PlanificadorTypeOK, AtencionOK
  <2>2. ASSUME HiloVigiaWorker(w) PROVE UNCHANGED hiloWorker
    BY <2>2 DEF HiloVigiaWorker, AtenderInterrupcion, DetectarCaida, DescontarWorker,
                AvisarCaida, ResponderCaida, RetirarWorker, atencion
  <2>3. ASSUME ~HiloVigiaWorker(w)
        PROVE  \E paso : /\ Sigue(w, paso)
                         /\ \/ hiloWorker[w] \notin {"leer", "atender", "fin"}
                            \/ paso \in {"leer", "atender", "fin"}
    BY <2>3 DEF IdentificarWorker, EsperarQuery, ValidarWorker, TomarQuery, MarcarRunning,
                RecibirPaquete, Reencolar, PublicarDesalojada, RecibirNulo, Nulo
  <2> QED BY <2>1, <2>2, <2>3 DEF Sigue
<1>4. (\A p : SinTocar(p)) /\ \A v \in Workers : UnCierre(respuesta'[v])
  BY <1>1, RedQuieta DEF Exclusiva
<1> QED BY <1>1, <1>2, <1>3, <1>4, ExclusivaQuieta

\* The answer of a READ, and the one about a file that is not there.  Any other answer is
\* of a query that is in query_en_worker.
LEMMA ExclusivaDeRespuesta ==
  ASSUME InvOrden, Exclusiva, UNCHANGED worker_vars, NEW w \in Workers,
         RecibirRead(w) \/ AbandonarWorker(w)
  PROVE  Exclusiva'
<1>1. UNCHANGED <<query_en_worker, despacho>> /\ Consumir(w) /\ \E op : Llega(w, op)
  BY DEF RecibirRead, AbandonarWorker, Recibe, listas
<1>2. (\A q : SinTocar(q)) /\ \A v \in Workers : UnCierre(respuesta'[v])
  BY <1>1, Consumida DEF InvOrden, Exclusiva
<1>3. \A p \in Queries : info'[p].worker = info[p].worker
  BY DEF RecibirRead, AbandonarWorker, deQueries, InvOrden, TypeOK, PlanificadorTypeOK, DeQueriesOK, Info
<1>4. \A v \in Workers : hiloWorker'[v] = hiloWorker[v] \/ hiloWorker'[v] \in {"leer", "atender", "fin"}
  BY DEF RecibirRead, AbandonarWorker, Sigue, InvOrden, TypeOK, PlanificadorTypeOK, AtencionOK
<1> QED BY <1>1, <1>2, <1>3, <1>4, ExclusivaQuieta
\* The query whose answer closes it is the one its Worker has, and nothing else of it is out.
LEMMA ExclusivaCerrada ==
  ASSUME InvOrden, Exclusiva, UNCHANGED <<worker_vars, despacho>>, NEW w \in Workers,
         NEW op \in Cierres, Llega(w, op), Consumir(w),
         NEW x, x = Head(respuesta[w]).query
  PROVE  /\ x \in Queries /\ Ocupa(w, x) /\ (\A q : SinTocar(q))
         /\ \A v \in Workers : ~DelWorker(v, x)' /\ UnCierre(respuesta'[v])
<1>1. /\ \A q : SinTocar(q)
      /\ Head(respuesta[w]) \in ToSet(respuesta[w]) /\ Head(respuesta[w]).op = op
      /\ x \in Queries
      /\ \A v \in Workers : UnCierre(respuesta'[v])
      /\ \A m \in ToSet(respuesta'[w]) : m.op \in Cierres => m.query # x
  BY Consumida DEF InvOrden, Exclusiva
<1>2. Dijo(w, op, x) /\ Cerrada(w, x)
  BY <1>1 DEF Dijo, Cerrada
<1>3. Ocupa(w, x)
  BY <1>1, <1>2 DEF Exclusiva
<1>4. ASSUME NEW v \in Workers, DelWorker(v, x)' PROVE FALSE
  <2>1. DelWorker(v, x)
    BY <1>1, <1>4, NadaNuevo DEF DelWorker
  <2>2. Ocupa(v, x)
    BY <1>1, <2>1 DEF DelWorker, Exclusiva
  <2>3. v = w
    BY <1>3, <2>2 DEF Ocupa
  <2>4. ~Asignada(w, x) /\ ~Trabaja(w, x)
    BY <1>1, <1>2 DEF InvOrden, EnTurno, Turno, Exclusiva
  <2>5. ~Cerrada(w, x)'
    BY <1>1 DEF Cerrada, Dijo
  <2> QED BY <1>1, <1>4, <2>3, <2>4, <2>5, NadaNuevo DEF DelWorker
<1> QED BY <1>1, <1>3, <1>4

LEMMA ExclusivaDeCierre ==
  ASSUME InvOrden, Exclusiva, UNCHANGED worker_vars, NEW w \in Workers,
         RecibirEnd(w) \/ RecibirError(w) \/ RecibirDesconectado(w) \/ RecibirPC(w)
  PROVE  Exclusiva'
<1>1. PICK op \in Cierres : Llega(w, op)
  BY DEF RecibirEnd, RecibirError, RecibirDesconectado, RecibirPC, Recibe, Cierres
<1>2. PICK x : x = Head(respuesta[w]).query
  OBVIOUS
<1>3. Consumir(w) /\ UNCHANGED despacho
  BY DEF RecibirEnd, RecibirError, RecibirDesconectado, RecibirPC
<1>4. /\ x \in Queries /\ Ocupa(w, x) /\ (\A q : SinTocar(q))
      /\ \A v \in Workers : ~DelWorker(v, x)' /\ UnCierre(respuesta'[v])
  BY <1>1, <1>2, <1>3, ExclusivaCerrada
<1>5. EliminarPorId(query_en_worker, x, query_en_worker')
  BY <1>2, <1>4 DEF RecibirEnd, RecibirError, RecibirDesconectado, RecibirPC, Ocupa
<1>6. \A q : En(q, query_en_worker)' <=> (En(q, query_en_worker) /\ q # x)
  BY <1>5, Eliminar DEF InvOrden, UnSoloLugar, TypeOK, PlanificadorTypeOK, ListasOK
<1>7. \A q \in Queries : info'[q].worker = info[q].worker
  <2>1. \E y, n : \/ info' = [info EXCEPT ![y].estado = "EXIT"]
                  \/ info' = [info EXCEPT ![y].estado = "READY", ![y].pc = n]
                  \/ UNCHANGED info
    BY DEF RecibirEnd, RecibirError, RecibirDesconectado, RecibirPC
  <2>2. info \in [Queries -> Info]
    BY DEF InvOrden, TypeOK, PlanificadorTypeOK, DeQueriesOK
  <2> QED BY <2>1, <2>2 DEF Info
<1>8. \A v \in Workers, q \in Queries : Ocupa(v, q)' <=> (Ocupa(v, q) /\ q # x)
  BY <1>6, <1>7 DEF Ocupa
<1>9. \A v \in Workers, q \in Queries : DelWorker(v, q)' => Ocupa(v, q)'
  <2> TAKE v \in Workers, q \in Queries
  <2>1. DelWorker(v, q)' => DelWorker(v, q)
    BY <1>4, NadaNuevo DEF DelWorker
  <2>2. DelWorker(v, q) => Ocupa(v, q)
    BY DEF DelWorker, Exclusiva
  <2> QED BY <1>4, <1>8, <2>1, <2>2
<1>10. \A v \in Workers : v # w => hiloWorker'[v] = hiloWorker[v]
  BY DEF RecibirEnd, RecibirError, RecibirDesconectado, RecibirPC, Sigue,
         InvOrden, TypeOK, PlanificadorTypeOK, AtencionOK
<1>11. ASSUME NEW v \in Workers, NEW q \in Queries, Ocupa(v, q)'
       PROVE  Ocupa(v, q) /\ hiloWorker'[v] \in {"leer", "atender", "fin"}
  <2>1. Ocupa(v, q) /\ q # x
    BY <1>8, <1>11
  <2>2. v # w
    BY <1>4, <2>1 DEF Exclusiva
  <2> QED BY <1>10, <2>1, <2>2 DEF Exclusiva
<1>12. \A v \in Workers : ~error_storage'[v]
  BY DEF Exclusiva, worker_vars
<1>13. \A q \in Queries : En(q, query_en_worker)' => info'[q].worker \in Workers
  BY <1>6, <1>7 DEF Exclusiva
<1> QED BY <1>4, <1>9, <1>11, <1>12, <1>13, ExclusivaSigue

\* The thread of w has nothing assigned when it takes a query.
LEMMA ExclusivaDeRegistrar ==
  ASSUME InvOrden, Exclusiva, UNCHANGED worker_vars, NEW w \in Workers, RegistrarYEnviar(w)
  PROVE  Exclusiva'
<1>1. PICK x \in Queries : x = enMano[w] /\ EnMano(x)
  BY EnManoEsQuery DEF InvOrden, RegistrarYEnviar, EnLaMano, EnMano
<1>2. SinNada(x) /\ ~En(x, query_en_worker)
  BY <1>1 DEF InvOrden, EnTurno, Turno, EnEspera, SinNada, UnSoloLugar, EnMano
<1>3. UNCHANGED <<respuesta, fase, ejec, error_storage>>
  BY DEF RegistrarYEnviar, worker_vars
<1>4. query_en_worker' = Append(query_en_worker, x)
  BY <1>1 DEF RegistrarYEnviar
<1>5. \A p \in Queries : En(p, query_en_worker)' <=> (En(p, query_en_worker) \/ p = x)
  BY <1>4, Agregar DEF InvOrden, TypeOK, PlanificadorTypeOK, ListasOK
<1>6. \A p \in Queries : info'[p].worker = IF p = x THEN w ELSE info[p].worker
  BY <1>1 DEF RegistrarYEnviar, InvOrden, TypeOK, PlanificadorTypeOK, DeQueriesOK, Info
<1>7. \A v \in Workers, p \in Queries :
         Ocupa(v, p)' <=> ((Ocupa(v, p) /\ p # x) \/ (v = w /\ p = x))
  BY <1>5, <1>6 DEF Ocupa
<1>8. \A p \in Queries : ~Ocupa(w, p)
  BY DEF RegistrarYEnviar, Exclusiva
<1>9. PICK n : n = info[x].pc
  OBVIOUS
<1>10. PICK a : a = [query |-> x, pc |-> n]
  OBVIOUS
<1>11. a \in Asignacion /\ a.query = x
  BY <1>9, <1>10 DEF Asignacion, InvOrden, TypeOK, PlanificadorTypeOK, DeQueriesOK, Info
<1>12. despacho \in [Workers -> Seq(Asignacion)]
  BY DEF InvOrden, TypeOK, RedTypeOK
<1>13. \/ UNCHANGED despacho
       \/ despacho' = [despacho EXCEPT ![w] = Append(despacho[w], a)]
  BY <1>1, <1>9, <1>10 DEF RegistrarYEnviar, EnviarDespacho
<1>14. \A v \in Workers : \A b \in ToSet(despacho'[v]) : b \in ToSet(despacho[v]) \/ (v = w /\ b = a)
  BY <1>11, <1>12, <1>13, ConUnoMas
<1>15. ASSUME NEW v \in Workers, NEW q \in Queries
       PROVE  DelWorker(v, q)' => DelWorker(v, q) \/ (v = w /\ q = x)
  <2>1. Asignada(v, q)' => Asignada(v, q) \/ (v = w /\ q = x)
    BY <1>11, <1>14 DEF Asignada
  <2>2. (Trabaja(v, q)' <=> Trabaja(v, q)) /\ (Cerrada(v, q)' <=> Cerrada(v, q))
    BY <1>3 DEF Trabaja, Cerrada, Dijo
  <2> QED BY <2>1, <2>2 DEF DelWorker
<1>16. \A v \in Workers, q \in Queries : DelWorker(v, q)' => Ocupa(v, q)'
  <2>1. \A v \in Workers, q \in Queries : DelWorker(v, q) => Ocupa(v, q) /\ q # x
    BY <1>2 DEF DelWorker, Exclusiva, SinNada
  <2> QED BY <1>7, <1>15, <2>1
<1>17. \A v \in Workers : ~error_storage'[v] /\ UnCierre(respuesta'[v])
  BY <1>3 DEF Exclusiva
<1>18. \A q \in Queries : En(q, query_en_worker)' => info'[q].worker \in Workers
  BY <1>5, <1>6 DEF Exclusiva
<1>19. \A v \in Workers, q \in Queries : Ocupa(v, q)' => hiloWorker'[v] \in {"leer", "atender", "fin"}
  <2>1. \A v \in Workers : hiloWorker'[v] = IF v = w THEN "leer" ELSE hiloWorker[v]
    BY DEF RegistrarYEnviar, Sigue, InvOrden, TypeOK, PlanificadorTypeOK, AtencionOK
  <2> QED BY <1>7, <2>1 DEF Exclusiva
<1>20. \A v \in Workers, p, q \in Queries : Ocupa(v, p)' /\ Ocupa(v, q)' => p = q
  BY <1>7, <1>8 DEF Exclusiva
<1> QED BY <1>16, <1>17, <1>18, <1>19, <1>20 DEF Exclusiva, DelWorker
\* A step of a Worker: what it has of a query, it had.
LEMMA ExclusivaDeWorker ==
  ASSUME Exclusiva, UNCHANGED master_vars,
         \A v \in Workers : ~error_storage'[v] /\ UnCierre(respuesta'[v]),
         \A v \in Workers, q \in Queries : DelWorker(v, q)' => DelWorker(v, q)
  PROVE  Exclusiva'
<1>1. UNCHANGED <<query_en_worker, info, hiloWorker>>
  BY DEF master_vars, listas, deQueries, atencion
<1>2. \A v \in Workers, q \in Queries : Ocupa(v, q)' <=> Ocupa(v, q)
  BY <1>1 DEF Ocupa
<1>3. \A v \in Workers, q \in Queries : DelWorker(v, q)' => Ocupa(v, q)'
  BY <1>2 DEF DelWorker, Exclusiva
<1>4. \A v \in Workers, q \in Queries :
         Ocupa(v, q)' => Ocupa(v, q) /\ hiloWorker'[v] \in {"leer", "atender", "fin"}
  BY <1>1, <1>2 DEF Exclusiva
<1>5. \A q \in Queries : En(q, query_en_worker)' => info'[q].worker \in Workers
  BY <1>1 DEF Exclusiva
<1> QED BY <1>3, <1>4, <1>5, ExclusivaSigue

LEMMA ExclusivaSinCambio ==
  ASSUME InvOrden, Exclusiva, NEW w \in Workers, UNCHANGED master_vars,
         \/ RecibirSinArchivo(w) \/ LiberarNombre(w) \/ AbandonarCiclo(w)
         \/ ChequearInterrupcion(w) /\ ~hay_interrupcion[w]
         \/ HiloInterrupciones(w) \/ MorirWorker(w)
  PROVE  Exclusiva'
<1>1. (\A q \in Queries : SinTocar(q)) /\ \A v \in Workers : UnCierre(respuesta'[v])
  BY TurnoSinCambio DEF Exclusiva
<1>2. \A v \in Workers : ~error_storage'[v]
  <2>1. UNCHANGED error_storage \/ AbandonarCiclo(w)
    BY DEF RecibirSinArchivo, LiberarNombre, ChequearInterrupcion, HiloInterrupciones,
           LeerInterrupcion, MarcarInterrupcion, MorirWorker, worker_vars
  <2> QED BY <2>1 DEF AbandonarCiclo, Exclusiva
<1> QED BY <1>1, <1>2, ExclusivaDeWorker, NadaNuevo DEF DelWorker

LEMMA ExclusivaDePath ==
  ASSUME InvOrden, Exclusiva, NEW w \in Workers, UNCHANGED master_vars, RecibirPath(w)
  PROVE  Exclusiva'
<1>1. PICK a : a = Head(despacho[w])
  OBVIOUS
<1>2. despacho \in [Workers -> Seq(Asignacion)] /\ despacho[w] # <<>>
  BY DEF InvOrden, TypeOK, RedTypeOK, RecibirPath
<1>3. /\ a \in ToSet(despacho[w]) /\ \A b \in ToSet(Tail(despacho[w])) : b \in ToSet(despacho[w])
      /\ despacho' = [despacho EXCEPT ![w] = Tail(despacho[w])]
  BY <1>1, <1>2, SinElPrimero DEF RecibirPath
<1>4. \A v \in Workers : \A b \in ToSet(despacho'[v]) : b \in ToSet(despacho[v])
  BY <1>2, <1>3
<1>5. /\ UNCHANGED <<respuesta, error_storage>>
      /\ \A v \in Workers : v # w => fase'[v] = fase[v] /\ ejec'[v] = ejec[v]
      /\ ejec'[w].query = a.query
  BY <1>1 DEF RecibirPath, Pasa, InvOrden, TypeOK, InterpreteTypeOK
<1>6. ASSUME NEW v \in Workers, NEW q \in Queries, DelWorker(v, q)' PROVE DelWorker(v, q)
  <2>1. Asignada(v, q)' => Asignada(v, q)
    BY <1>4 DEF Asignada
  <2>2. Trabaja(v, q)' => Trabaja(v, q) \/ Asignada(v, q)
    BY <1>3, <1>5 DEF Trabaja, Asignada
  <2>3. Cerrada(v, q)' => Cerrada(v, q)
    BY <1>5 DEF Cerrada, Dijo
  <2> QED BY <1>6, <2>1, <2>2, <2>3 DEF DelWorker
<1>7. \A v \in Workers : ~error_storage'[v] /\ UnCierre(respuesta'[v])
  BY <1>5 DEF Exclusiva
<1> QED BY <1>6, <1>7, ExclusivaDeWorker

\* What closes a query is said by the Worker that is at it, which said nothing before.
LEMMA ExclusivaDeFin ==
  ASSUME InvOrden, Exclusiva, NEW w \in Workers, UNCHANGED <<master_vars, despacho, error_storage>>,
         NEW x \in Queries, Trabaja(w, x), fase'[w] = "recibir",
         NEW m \in Mensaje, m.query = x,
         respuesta' = [respuesta EXCEPT ![w] = Append(respuesta[w], m)],
         \A v \in Workers : v # w => fase'[v] = fase[v] /\ ejec'[v] = ejec[v]
  PROVE  Exclusiva'
<1>1. \A op \in Cierres : ~Dijo(w, op, x)
  BY Trabajando DEF Exclusiva
<1>2. /\ respuesta[w] \in Seq(Mensaje) /\ respuesta'[w] = Append(respuesta[w], m)
      /\ \A v \in Workers : v # w => respuesta'[v] = respuesta[v]
  BY DEF InvOrden, TypeOK, RedTypeOK
<1>3. \A y \in ToSet(respuesta[w]) : y.op \in Cierres => y.query # m.query
  BY <1>1 DEF Dijo
<1>4. \A v \in Workers : ~error_storage'[v] /\ UnCierre(respuesta'[v])
  <2>1. UnCierre(Append(respuesta[w], m))
    BY <1>2, <1>3, ConUnoMas DEF Exclusiva
  <2> QED BY <1>2, <2>1 DEF Exclusiva
<1>5. \A v \in Workers : \A y \in ToSet(respuesta'[v]) : y \in ToSet(respuesta[v]) \/ (v = w /\ y = m)
  BY <1>2, ConUnoMas
<1>6. ASSUME NEW v \in Workers, NEW q \in Queries, DelWorker(v, q)' PROVE DelWorker(v, q)
  <2>1. Asignada(v, q)' => Asignada(v, q)
    BY DEF Asignada
  <2>2. Trabaja(v, q)' => Trabaja(v, q)
    BY DEF Trabaja
  <2>3. Cerrada(v, q)' => Cerrada(v, q) \/ (v = w /\ q = x)
    BY <1>5 DEF Cerrada, Dijo
  <2> QED BY <1>6, <2>1, <2>2, <2>3 DEF DelWorker
<1> QED BY <1>4, <1>6, ExclusivaDeWorker

LEMMA ExclusivaDeTerminar ==
  ASSUME InvOrden, Exclusiva, NEW w \in Workers, UNCHANGED master_vars,
         Terminar(w) \/ (ChequearInterrupcion(w) /\ hay_interrupcion[w])
  PROVE  Exclusiva'
<1>1. TypeOK
  BY DEF InvOrden
<1>2. PICK op \in {"QUERY_END", "ERROR", "QUERY_DESCONECTADO", "PC_UPDATE"}, n \in Nat :
         Responder(w, <<op>>, n)
  <2>1. 0 \in Nat /\ ejec[w].pc \in Nat
    BY <1>1 DEF TypeOK, InterpreteTypeOK, Pcb
  <2> QED BY <2>1 DEF Terminar, ChequearInterrupcion
<1>3. PICK x \in Queries : x = ejec[w].query /\ Trabaja(w, x)
  <2>1. fase[w] \in {"ciclo", "chequear"}
    BY DEF Terminar, Decodifica, ChequearInterrupcion, Corre
  <2> QED BY <1>1, <2>1, SuQuery
<1>4. op \in Operaciones
  BY DEF Operaciones
<1>5. PICK m \in Mensaje : m.query = x /\ respuesta' = [respuesta EXCEPT ![w] = Append(respuesta[w], m)]
  BY <1>1, <1>2, <1>3, <1>4, ResponderUno
<1>6. /\ fase'[w] = "recibir" /\ UNCHANGED <<despacho, error_storage>>
      /\ \A v \in Workers : v # w => fase'[v] = fase[v] /\ ejec'[v] = ejec[v]
  BY <1>1, Decodificada DEF Terminar, ChequearInterrupcion, Pasa, TypeOK, InterpreteTypeOK
<1> QED BY <1>3, <1>5, <1>6, ExclusivaDeFin

LEMMA ExclusivaDeEjecutar ==
  ASSUME InvOrden, Exclusiva, ~PuedeFallar, NEW w \in Workers, UNCHANGED master_vars,
         NEW i \in {"STORAGE", "READ", "COMMIT"}, Ejecutar(w, i)
  PROVE  Exclusiva'
<1>1. TypeOK /\ Decodifica(w, i)
  BY DEF InvOrden, Ejecutar
<1>2. PICK x \in Queries : x = ejec[w].query /\ Trabaja(w, x)
  BY <1>1, Decodificada
<1>3. /\ Responder(w, Exito(i), ejec'[w].pc) /\ UNCHANGED <<despacho, error_storage>>
      /\ fase'[w] = "chequear" /\ \A v \in Workers : v # w => fase'[v] = fase[v]
  BY <1>1 DEF Ejecutar, Pasa, TypeOK, InterpreteTypeOK
<1>4. ejec'[w].pc \in Nat /\ ejec'[w].query = x
      /\ \A v \in Workers : v # w => ejec'[v] = ejec[v]
  <2>1. ejec' = [ejec EXCEPT ![w].pc = ejec[w].pc + 1, ![w].linea = Fetch(ejec[w])]
    BY <1>1 DEF Decodifica
  <2>2. ejec'[w].query = ejec[w].query
    BY <1>1, <2>1 DEF TypeOK, InterpreteTypeOK, Pcb
  <2> QED BY <1>1, <1>2, <2>2, Decodificada, DecodificaTipo
<1>5. PICK ops \in Seq(Operaciones) : /\ Responder(w, ops, ejec'[w].pc)
                                      /\ \A k \in 1..Len(ops) : ops[k] = "READ_RESULT"
  <2>1. Exito(i) \in Seq(Operaciones)
    BY PaquetesTipo DEF Exito
  <2>2. \A k \in 1..Len(Exito(i)) : Exito(i)[k] = "READ_RESULT"
    BY DEF Exito
  <2> QED BY <1>3, <2>1, <2>2
<1>6. PICK f \in Seq(Mensaje) :
         /\ respuesta' = [respuesta EXCEPT ![w] = respuesta[w] \o f]
         /\ \A m \in ToSet(f) : m.query = ejec[w].query /\ \E k \in 1..Len(ops) : m.op = ops[k]
  BY <1>1, <1>2, <1>4, <1>5, ResponderVarios
<1>7. \A m \in ToSet(f) : m.op \notin Cierres
  BY <1>5, <1>6 DEF Cierres
<1>8. /\ respuesta[w] \in Seq(Mensaje) /\ respuesta'[w] = respuesta[w] \o f
      /\ \A v \in Workers : v # w => respuesta'[v] = respuesta[v]
  BY <1>1, <1>6 DEF TypeOK, RedTypeOK
<1>9. \A v \in Workers : \A y \in ToSet(respuesta'[v]) : y \in ToSet(respuesta[v]) \/ y.op \notin Cierres
  BY <1>7, <1>8, ConVarios
<1>10. \A v \in Workers : ~error_storage'[v] /\ UnCierre(respuesta'[v])
  <2>1. UnCierre(respuesta[w] \o f)
    BY <1>7, <1>8, ConVarios DEF Exclusiva
  <2>2. \A v \in Workers : ~error_storage'[v]
    BY <1>3 DEF Exclusiva
  <2> QED BY <1>8, <2>1, <2>2 DEF Exclusiva
<1>11. ASSUME NEW v \in Workers, NEW q \in Queries, DelWorker(v, q)' PROVE DelWorker(v, q)
  <2>1. Asignada(v, q)' => Asignada(v, q)
    BY <1>3 DEF Asignada
  <2>2. Trabaja(v, q)' => Trabaja(v, q)
    BY <1>2, <1>3, <1>4 DEF Trabaja
  <2>3. Cerrada(v, q)' => Cerrada(v, q)
    BY <1>9 DEF Cerrada, Dijo
  <2> QED BY <1>11, <2>1, <2>2, <2>3 DEF DelWorker
<1> QED BY <1>10, <1>11, ExclusivaDeWorker

LEMMA ExclusivaInicial == Init => Exclusiva
<1> SUFFICES ASSUME Init PROVE Exclusiva
  OBVIOUS
<1>1. \A w \in Workers : /\ despacho[w] = <<>> /\ respuesta[w] = <<>> /\ fase[w] = "recibir"
                         /\ error_storage[w] = FALSE
  BY DEF Init, RedInit, InterpreteInit
<1>2. query_en_worker = <<>>
  BY DEF Init, PlanificadorInit
<1>3. ToSet(<<>>) = {} /\ (\A q : ~En(q, <<>>)) /\ UnCierre(<<>>)
  BY DEF ToSet, En, UnCierre
<1>4. \A w \in Workers, q \in Queries : ~Ocupa(w, q) /\ ~Asignada(w, q) /\ ~Trabaja(w, q) /\ ~Cerrada(w, q)
  BY <1>1, <1>2, <1>3 DEF Ocupa, Asignada, Trabaja, Cerrada, Dijo
<1>5. \A w \in Workers : ~error_storage[w] /\ UnCierre(respuesta[w])
  BY <1>1, <1>3
<1>6. \A q \in Queries : ~En(q, query_en_worker)
  BY <1>2, <1>3
<1> QED BY <1>4, <1>5, <1>6 DEF Exclusiva

\* Unless Storage rejects an operation, a Worker is assigned one query at a time: while it
\* has one, the thread that attends it waits for its answer.
THEOREM UnaPorWorker == Spec => [](~PuedeFallar => AsignacionExclusiva)
<1> DEFINE Inv == ~PuedeFallar => Exclusiva
<1>1. Init => Inv
  BY ExclusivaInicial
<1>2. InvOrden /\ Inv /\ [Next]_vars => Inv'
  <2> SUFFICES ASSUME InvOrden, ~PuedeFallar, Exclusiva, [Next]_vars PROVE Exclusiva'
    OBVIOUS
  <2>1. ASSUME NEW q \in Queries, CrearQuery(q) \/ HiloAlta(q) \/ HiloTimer(q) \/ HiloVigia(q),
               UNCHANGED worker_vars
        PROVE  Exclusiva'
    BY <2>1, ExclusivaDeQuery
  <2>2. ASSUME NEW w \in Workers, IdentificarWorker(w) \/ HiloWorker(w) \/ HiloVigiaWorker(w),
               UNCHANGED worker_vars
        PROVE  Exclusiva'
    BY <2>2, ExclusivaDeAtencion, ExclusivaDeRespuesta, ExclusivaDeCierre, ExclusivaDeRegistrar
       DEF HiloWorker
  <2>3. ASSUME UNCHANGED <<listas, atencion, info, despacho, respuesta, worker_vars>> PROVE Exclusiva'
    BY <2>3, RedQuieta, ExclusivaQuieta DEF listas, atencion, Exclusiva
  <2>4. ASSUME \/ Caer /\ UNCHANGED worker_vars
               \/ (\E q \in Queries : IrseQC(q) \/ TerminarQC(q)) /\ UNCHANGED worker_vars
               \/ UNCHANGED vars
        PROVE  Exclusiva'
    <3>1. UNCHANGED <<listas, atencion, info, despacho, respuesta, worker_vars>>
      BY <2>4 DEF Caer, IrseQC, TerminarQC, vars, master_vars, deQueries, red
    <3> QED BY <2>3, <3>1
  <2>5. ASSUME NEW w \in Workers, HiloEjecutar(w) \/ HiloInterrupciones(w) \/ MorirWorker(w),
               UNCHANGED master_vars
        PROVE  Exclusiva'
    BY <2>5, ExclusivaSinCambio, ExclusivaDePath, ExclusivaDeTerminar, ExclusivaDeEjecutar
       DEF HiloEjecutar
  <2> QED BY <2>1, <2>2, <2>4, <2>5 DEF Next, PlanificadorNext, InterpreteNext
<1>3. InvOrden /\ Inv => (~PuedeFallar => AsignacionExclusiva)
  <2> SUFFICES ASSUME InvOrden, Exclusiva,
                      NEW i \in 1..Len(query_en_worker), NEW j \in 1..Len(query_en_worker),
                      info[query_en_worker[i]].worker = info[query_en_worker[j]].worker
               PROVE  i = j
    BY DEF AsignacionExclusiva
  <2>1. PICK p, q : p = query_en_worker[i] /\ q = query_en_worker[j]
    OBVIOUS
  <2>2. p \in Queries /\ q \in Queries
    BY <2>1 DEF InvOrden, TypeOK, PlanificadorTypeOK, ListasOK
  <2>3. En(p, query_en_worker) /\ En(q, query_en_worker)
    BY <2>1 DEF En
  <2>4. p = q
    BY <2>1, <2>2, <2>3 DEF Exclusiva, Ocupa
  <2> QED BY <2>1, <2>4 DEF InvOrden, UnSoloLugar, SinRepetidos
<1> HIDE DEF Inv
<1> QED BY <1>1, <1>2, <1>3, OrdenSiempre, PTL DEF Spec
===============================================================================
