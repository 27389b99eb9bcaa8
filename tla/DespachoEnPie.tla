---------------------------- MODULE DespachoEnPie ----------------------------
(***************************************************************************)
(* sem_queries, the survival of the Master and the life that each query    *)
(* has for its Query Control, proved.                                      *)
(*                                                                         *)
(* The value of sem_queries and the Worker threads that passed sem_wait    *)
(* are as many as the queries announced and still in cola_queries.  The    *)
(* one step that breaks the balance is the sem_trywait of                  *)
(* atender_desconexion_query, so the argument is first about when a        *)
(* watcher can get there: only for a query that was not answered before    *)
(* its Query Control left, as long as an answered query stays in EXIT,     *)
(* which it does while no Worker dies.                                     *)
(*                                                                         *)
(* The Master survives the behaviours in which no Worker dies and no Query *)
(* Control leaves before its answer.  A thread of the Master that looks    *)
(* for a query or a Worker in a list uses what it finds without asking     *)
(* whether it found it, so the argument is about what is in the lists: a   *)
(* READ_RESULT is read while its query is assigned, and a Worker that will *)
(* be interrupted is in lista_workers.                                     *)
(*                                                                         *)
(* Despacho implements CicloQuery but for the fairness: each step of a     *)
(* thread of the Master or of a Worker is for the Query Control one step   *)
(* of the life of one query, or none.  The point that the types and the    *)
(* turns do not give is that the answer that closes a query is not lost:   *)
(* when the Master reads it the query is still assigned, or was answered   *)
(* already.                                                                *)
(***************************************************************************)
EXTENDS DespachoTurnos, DespachoCiclo, FiniteSetTheorems

\* The watcher of q saw its Query Control gone.
Vista(q) == hilo["alta"][q] # "no" /\ ~info[q].alive

\* Only Query Controls that were answered were seen to leave, and no Worker died if any.
SalidasSanas == /\ \A q \in Queries : Vista(q) => finales[q] # <<>>
                /\ SinCaidas \/ \A q \in Queries : ~Vista(q)

\* A watcher past its recv saw its Query Control gone, and closed its socket.
Vigia(q) == /\ hilo["alta"][q] = "no" => hilo["vigia"][q] = "no"
            /\ hilo["vigia"][q] \notin {"no", "mirar", "fin"} => Vista(q)
            /\ Vista(q) => conexion[q] = "cerrada"
InvVigias == \A q \in Queries : Vigia(q)

\* The query of a final response is in EXIT for good.
EnExit(q) == finales[q] # <<>> => info[q].estado = "EXIT"
InvExit == SinCaidas => \A q \in Queries : EnExit(q)

\* No watcher is about to take a query or a token.
SinRobos == \A q \in Queries : hilo["vigia"][q] \notin {"quitar", "robar"}
Contables == IsFiniteSet(EnCamino) /\ IsFiniteSet(SinPublicar) /\ IsFiniteSet(EnPublicar)
InvTokens == SalidasSanas => SinRobos /\ Contables /\ TokensConservados
-------------------------------------------------------------------------------
(* The watchers *)

\* What a step does to a query whose watcher it does not bring to an end of its own.
Sano(q) ==
    /\ hilo'["alta"][q] = "no" <=> hilo["alta"][q] = "no"
    /\ \/ hilo'["vigia"][q] = hilo["vigia"][q]
       \/ hilo["vigia"][q] # "no" /\ hilo'["vigia"][q] = "fin"
       \/ hilo["vigia"][q] \notin {"no", "mirar", "fin"}
    /\ info'[q].alive = info[q].alive
    /\ conexion[q] = "cerrada" => conexion'[q] = "cerrada"

LEMMA VigiaSana ==
  ASSUME NEW q, Vigia(q), Sano(q)
  PROVE  Vigia(q)' /\ (Vista(q) => Vista(q)')
BY DEF Vigia, Vista, Sano

LEMMA SanosDeAlta ==
  ASSUME TypeOK, NEW x \in Queries, HiloAlta(x), NEW q \in Queries
  PROVE  Sano(q)
<1>1. hilo \in [Hilos -> [Queries -> Pasos]] /\ info \in [Queries -> Info]
  BY DEF TypeOK, PlanificadorTypeOK, DeQueriesOK
<1>2. UNCHANGED conexion
  BY DEF HiloAlta, AsignarSocket, AsignarEstado, Encolar, CrearTimer, Chequear, Desalojar, Publicar,
         haciaQC
<1>3. info'[q].alive = info[q].alive
  <2>1. CASE AsignarEstado(x)
    BY <1>1, <2>1 DEF AsignarEstado, Info
  <2>2. CASE ~AsignarEstado(x)
    BY <2>2 DEF HiloAlta, AsignarSocket, Encolar, CrearTimer, Chequear, Desalojar, Publicar
  <2> QED BY <2>1, <2>2
<1>4. CASE CrearTimer(x)
  BY <1>1, <1>2, <1>3, <1>4 DEF CrearTimer, Sano, Hilos
<1>5. CASE ~CrearTimer(x)
  <2>1. hilo["alta"][x] # "no" /\ \E p : p # "no" /\ Avanza("alta", x, p)
    BY <1>5 DEF HiloAlta, AsignarSocket, AsignarEstado, Encolar, Chequear, Desalojar, Publicar, Despues
  <2> QED
    BY <1>1, <1>2, <1>3, <2>1 DEF Avanza, Sano, Hilos
<1> QED BY <1>4, <1>5

LEMMA SanosDeTimer ==
  ASSUME TypeOK, NEW x \in Queries, HiloTimer(x), NEW q \in Queries
  PROVE  Sano(q)
<1>1. hilo \in [Hilos -> [Queries -> Pasos]] /\ info \in [Queries -> Info]
  BY DEF TypeOK, PlanificadorTypeOK, DeQueriesOK
<1>2. UNCHANGED conexion
  BY DEF HiloTimer, Envejecer, Chequear, Desalojar, Releer, DespertarTimer, haciaQC
<1>3. info'[q].alive = info[q].alive
  BY <1>1 DEF HiloTimer, Envejecer, Chequear, Desalojar, Releer, DespertarTimer, Info
<1>4. \E p : Avanza("timer", x, p)
  BY DEF HiloTimer, Envejecer, Chequear, Desalojar, Releer, DespertarTimer
<1> QED BY <1>1, <1>2, <1>3, <1>4 DEF Avanza, Sano, Hilos

\* The watcher itself, but for the moment at which it sees its Query Control gone.
LEMMA SanosDeVigia ==
  ASSUME TypeOK, NEW x \in Queries, HiloVigia(x), ~MirarDesconexion(x), NEW q \in Queries
  PROVE  Sano(q)
<1>1. hilo \in [Hilos -> [Queries -> Pasos]] /\ info \in [Queries -> Info]
  BY DEF TypeOK, PlanificadorTypeOK, DeQueriesOK
<1>2. UNCHANGED conexion
  BY DEF HiloVigia, MirarSinNovedad, VigiaCorriendo, Desalojar, VigiaLista, VigiaQuitar, VigiaRobar,
         VigiaSalir, VigiaJoin, haciaQC
<1>3. info'[q].alive = info[q].alive
  BY <1>1 DEF HiloVigia, MirarSinNovedad, VigiaCorriendo, Desalojar, VigiaLista, VigiaQuitar,
              VigiaRobar, VigiaSalir, VigiaJoin, Info
<1>4. \E p : /\ Avanza("vigia", x, p)
             /\ \/ hilo["vigia"][x] = "mirar" /\ p = "fin"
                \/ hilo["vigia"][x] \notin {"no", "mirar", "fin"}
  BY DEF HiloVigia, MirarSinNovedad, VigiaCorriendo, Desalojar, VigiaLista, VigiaQuitar,
         VigiaRobar, VigiaSalir, VigiaJoin
<1> QED BY <1>1, <1>2, <1>3, <1>4 DEF Avanza, Sano, Hilos

LEMMA SanosDeWorker ==
  ASSUME TypeOK, NEW w \in Workers, IdentificarWorker(w) \/ HiloWorker(w) \/ HiloVigiaWorker(w),
         NEW q \in Queries
  PROVE  Sano(q)
<1>1. /\ hilo \in [Hilos -> [Queries -> Pasos]] /\ info \in [Queries -> Info]
      /\ conexion \in [Queries -> {"abierta", "fin", "reset", "cerrada"}]
  BY DEF TypeOK, PlanificadorTypeOK, DeQueriesOK, HaciaQCOK
<1>2. CASE IdentificarWorker(w) \/ HiloVigiaWorker(w)
  <2>1. UNCHANGED hilo /\ (UNCHANGED conexion \/ \E x : Enviar(x))
    BY <1>2 DEF IdentificarWorker, HiloVigiaWorker, AtenderInterrupcion, DetectarCaida,
                DescontarWorker, AvisarCaida, ResponderCaida, RetirarWorker, deQueries, haciaQC
  <2>2. info'[q].alive = info[q].alive
    <3>1. UNCHANGED info \/ \E x : info' = [info EXCEPT ![x].estado = "EXIT"]
      BY <1>2 DEF IdentificarWorker, HiloVigiaWorker, AtenderInterrupcion, DetectarCaida,
                  DescontarWorker, AvisarCaida, ResponderCaida, RetirarWorker, deQueries
    <3> QED BY <1>1, <3>1 DEF Info
  <2> QED BY <1>1, <2>1, <2>2 DEF Sano, Enviar
<1>3. CASE HiloWorker(w)
  <2>1. UNCHANGED hilo
    BY <1>3 DEF HiloWorker, EsperarQuery, ValidarWorker, TomarQuery, MarcarRunning, RegistrarYEnviar,
                RecibirPaquete, RecibirRead, RecibirEnd, RecibirError, AbandonarWorker, RecibirPC,
                Reencolar, PublicarDesalojada, RecibirDesconectado, RecibirNulo, deQueries
  <2>2. UNCHANGED conexion \/ \E x : Enviar(x) \/ EnviarYCerrar(x)
    BY <1>3 DEF HiloWorker, EsperarQuery, ValidarWorker, TomarQuery, MarcarRunning, RegistrarYEnviar,
                RecibirPaquete, RecibirRead, RecibirEnd, RecibirError, AbandonarWorker, RecibirPC,
                Reencolar, PublicarDesalojada, RecibirDesconectado, RecibirNulo, haciaQC
  <2>3. info'[q].alive = info[q].alive
    <3>1. CASE \/ EsperarQuery(w) \/ ValidarWorker(w) \/ TomarQuery(w) \/ RecibirPaquete(w)
               \/ AbandonarWorker(w) \/ Reencolar(w) \/ PublicarDesalojada(w) \/ RecibirNulo(w)
      BY <3>1 DEF EsperarQuery, ValidarWorker, TomarQuery, RecibirPaquete, AbandonarWorker, Reencolar,
                  PublicarDesalojada, RecibirNulo, deQueries
    <3>2. CASE MarcarRunning(w) \/ RegistrarYEnviar(w)
      BY <1>1, <3>2 DEF MarcarRunning, RegistrarYEnviar, Info
    <3>3. CASE RecibirRead(w) \/ RecibirEnd(w) \/ RecibirError(w) \/ RecibirDesconectado(w)
      BY <1>1, <3>3 DEF RecibirRead, RecibirEnd, RecibirError, RecibirDesconectado, Info
    <3>4. CASE RecibirPC(w)
      BY <1>1, <3>4 DEF RecibirPC, Info
    <3> QED BY <1>3, <3>1, <3>2, <3>3, <3>4 DEF HiloWorker
  <2>4. conexion[q] = "cerrada" => conexion'[q] = "cerrada"
    BY <1>1, <2>2 DEF Enviar, EnviarYCerrar
  <2> QED BY <2>1, <2>3, <2>4 DEF Sano
<1> QED BY <1>2, <1>3

LEMMA VigiaSigue ==
  ASSUME TypeOK, [Next]_vars, InvVigias, NEW q \in Queries
  PROVE  Vigia(q)' /\ (Vista(q) => Vista(q)')
<1>1. /\ hilo \in [Hilos -> [Queries -> Pasos]] /\ info \in [Queries -> Info] /\ Vigia(q)
      /\ conexion \in [Queries -> {"abierta", "fin", "reset", "cerrada"}]
  BY DEF TypeOK, PlanificadorTypeOK, DeQueriesOK, HaciaQCOK, InvVigias
<1>2. ASSUME NEW x \in Queries, CrearQuery(x)
      PROVE  Vigia(q)' /\ (Vista(q) => Vista(q)')
  <2>1. CASE x # q
    <3>1. Sano(q)
      BY <1>1, <1>2, <2>1 DEF CrearQuery, Sano, Hilos, haciaQC, Info
    <3> QED BY <1>1, <3>1, VigiaSana
  <2>2. CASE x = q
    <3>1. info'[q].alive /\ ~Vista(q)
      BY <1>1, <1>2, <2>2 DEF CrearQuery, Info, Vista
    <3>2. hilo'["vigia"][q] \in {"mirar", "fin"} /\ hilo'["alta"][q] = "socket"
      BY <1>1, <1>2, <2>2 DEF CrearQuery, Hilos
    <3> QED BY <3>1, <3>2 DEF Vigia, Vista
  <2> QED BY <2>1, <2>2
<1>3. ASSUME NEW x \in Queries, MirarDesconexion(x)
      PROVE  Vigia(q)' /\ (Vista(q) => Vista(q)')
  <2>1. CASE x # q
    <3>1. Sano(q)
      BY <1>1, <1>3, <2>1 DEF MirarDesconexion, Avanza, Sano, Hilos, Info
    <3> QED BY <1>1, <3>1, VigiaSana
  <2>2. CASE x = q
    <3>1. ~info'[q].alive /\ conexion'[q] = "cerrada"
      BY <1>1, <1>3, <2>2 DEF MirarDesconexion, Info
    <3>2. hilo'["vigia"][q] = "corriendo" /\ hilo'["alta"][q] = hilo["alta"][q]
      BY <1>1, <1>3, <2>2 DEF MirarDesconexion, Avanza, Hilos
    <3>3. hilo["alta"][q] # "no"
      BY <1>1, <1>3, <2>2 DEF MirarDesconexion, Vigia
    <3> QED BY <3>1, <3>2, <3>3 DEF Vigia, Vista
  <2> QED BY <2>1, <2>2
<1>4. CASE \/ UNCHANGED vars \/ UNCHANGED master_vars \/ Caer
           \/ \E x \in Queries : IrseQC(x) \/ TerminarQC(x)
  <2>1. UNCHANGED <<hilo, info>>
    BY <1>4 DEF vars, master_vars, Caer, IrseQC, TerminarQC, deQueries
  <2>2. conexion[q] = "cerrada" => conexion'[q] = "cerrada"
    BY <1>1, <1>4 DEF vars, master_vars, Caer, IrseQC, TerminarQC, haciaQC
  <2>3. Sano(q)
    BY <2>1, <2>2 DEF Sano
  <2> QED BY <1>1, <2>3, VigiaSana
<1>5. CASE \/ \E x \in Queries : HiloAlta(x) \/ HiloTimer(x) \/ (HiloVigia(x) /\ ~MirarDesconexion(x))
           \/ \E w \in Workers : IdentificarWorker(w) \/ HiloWorker(w) \/ HiloVigiaWorker(w)
  <2>1. Sano(q)
    BY <1>5, SanosDeAlta, SanosDeTimer, SanosDeVigia, SanosDeWorker
  <2> QED BY <1>1, <2>1, VigiaSana
<1> QED BY <1>2, <1>3, <1>4, <1>5 DEF Next, PlanificadorNext

LEMMA VigiasSiempre == Spec => []InvVigias
<1>1. Init => InvVigias
  <2> SUFFICES ASSUME Init, NEW q \in Queries PROVE Vigia(q)
    BY DEF InvVigias
  <2>1. hilo["alta"][q] = "no" /\ hilo["vigia"][q] = "no"
    BY DEF Init, PlanificadorInit, Hilos
  <2> QED BY <2>1 DEF Vigia, Vista
<1>2. TypeOK /\ InvVigias /\ [Next]_vars => InvVigias'
  BY VigiaSigue DEF InvVigias
<1> QED BY <1>1, <1>2, TipoCorrecto, PTL DEF Spec
-------------------------------------------------------------------------------
(* An answered query *)

\* A final response is sent to a Query Control that is there.  Whoever sends it leaves the
\* query in EXIT, unless a Worker died: its watcher did so before.
LEMMA ExitAlContestar ==
  ASSUME TypeOK, [Next]_vars, NEW q \in Queries, finales'[q] # finales[q]
  PROVE  conexion[q] = "abierta" /\ (VigiaFiel /\ SinCaidas => info'[q].estado = "EXIT")
<1>1. finales' # finales
  OBVIOUS
<1>2. PICK w \in Workers : RecibirEnd(w) \/ RecibirError(w) \/ ResponderCaida(w)
  BY <1>1, QuienContesta
<1>3. PICK x, r : Recibido(x, r) /\ (info' = [info EXCEPT ![x].estado = "EXIT"] \/ ResponderCaida(w))
  BY <1>1, <1>2 DEF RecibirEnd, RecibirError, ResponderCaida, haciaQC
<1>4. finales \in [Queries -> Seq({"END", "ERROR", "WORKER_DESCONECTADO"})] /\ info \in [Queries -> Info]
  BY DEF TypeOK, PlanificadorTypeOK, HaciaQCOK, DeQueriesOK
<1>5. x = q /\ conexion[q] = "abierta"
  BY <1>3, <1>4 DEF Recibido
<1>6. VigiaFiel /\ SinCaidas => ~ResponderCaida(w)
  BY DEF ResponderCaida, VigiaFiel, SinCaidas
<1> QED BY <1>3, <1>4, <1>5, <1>6 DEF Info

\* Only a query that somebody has changes to another state than EXIT.
EstadoSano(q) == info'[q].estado \in {info[q].estado, "EXIT"} \/ ~Fuera(q)

LEMMA EstadoQuieto ==
  ASSUME TypeOK, [Next]_vars, NEW q \in Queries
  PROVE  EstadoSano(q)
<1>1. info \in [Queries -> Info] /\ hilo \in [Hilos -> [Queries -> Pasos]]
  BY DEF TypeOK, PlanificadorTypeOK, DeQueriesOK
<1>2. ASSUME NEW x \in Queries, AsignarEstado(x) PROVE EstadoSano(q)
  <2>1. CASE x # q
    BY <1>1, <1>2, <2>1 DEF AsignarEstado, EstadoSano
  <2>2. CASE x = q
    BY <1>2, <2>2 DEF AsignarEstado, EstadoSano, Fuera, EnEspera, SinEncolar
  <2> QED BY <2>1, <2>2
<1>3. ASSUME NEW x \in Queries,
             CrearQuery(x) \/ (HiloAlta(x) /\ ~AsignarEstado(x)) \/ HiloTimer(x) \/ HiloVigia(x)
      PROVE  EstadoSano(q)
  <2>1. CASE CrearQuery(x)
    BY <1>1, <2>1 DEF CrearQuery, EstadoSano, Info
  <2>2. CASE HiloAlta(x) /\ ~AsignarEstado(x)
    BY <2>2 DEF HiloAlta, AsignarSocket, Encolar, CrearTimer, Chequear, Desalojar, Publicar, EstadoSano
  <2>3. CASE HiloTimer(x)
    BY <1>1, <2>3 DEF HiloTimer, Envejecer, Chequear, Desalojar, Releer, DespertarTimer, EstadoSano, Info
  <2>4. CASE HiloVigia(x)
    <3>1. CASE MirarDesconexion(x)
      BY <1>1, <3>1 DEF MirarDesconexion, EstadoSano, Info
    <3>2. CASE VigiaSalir(x)
      BY <1>1, <3>2 DEF VigiaSalir, EstadoSano, Info
    <3>3. CASE ~MirarDesconexion(x) /\ ~VigiaSalir(x)
      BY <2>4, <3>3 DEF HiloVigia, MirarSinNovedad, VigiaCorriendo, Desalojar, VigiaLista,
                        VigiaQuitar, VigiaRobar, VigiaJoin, EstadoSano
    <3> QED BY <3>1, <3>2, <3>3
  <2> QED BY <1>3, <2>1, <2>2, <2>3, <2>4
<1>4. ASSUME NEW w \in Workers, MarcarRunning(w) PROVE EstadoSano(q)
  <2>1. CASE enMano[w] # q
    BY <1>1, <1>4, <2>1 DEF MarcarRunning, EstadoSano, Info
  <2>2. CASE enMano[w] = q
    BY <1>4, <2>2 DEF MarcarRunning, EstadoSano, Fuera, EnEspera, EnMano, EnLaMano
  <2> QED BY <2>1, <2>2
<1>5. ASSUME NEW w \in Workers, RecibirPC(w) PROVE EstadoSano(q)
  <2>1. CASE UNCHANGED info
    BY <2>1 DEF EstadoSano
  <2>2. CASE ~UNCHANGED info
    <3>1. PICK x, n : /\ EliminarPorId(query_en_worker, x, query_en_worker')
                      /\ info' = [info EXCEPT ![x].estado = "READY", ![x].pc = n]
      BY <1>5, <2>2 DEF RecibirPC
    <3>2. CASE x # q
      BY <1>1, <3>1, <3>2 DEF EstadoSano
    <3>3. CASE x = q
      BY <3>1, <3>3 DEF EliminarPorId, EsPrimero, En, EstadoSano, Fuera
    <3> QED BY <3>2, <3>3
  <2> QED BY <2>1, <2>2
<1>6. ASSUME NEW w \in Workers, IdentificarWorker(w) \/ HiloVigiaWorker(w) PROVE EstadoSano(q)
  <2>1. UNCHANGED info \/ \E x : info' = [info EXCEPT ![x].estado = "EXIT"]
    BY <1>6 DEF IdentificarWorker, HiloVigiaWorker, AtenderInterrupcion, DetectarCaida,
                DescontarWorker, AvisarCaida, ResponderCaida, RetirarWorker, deQueries
  <2> QED BY <1>1, <2>1 DEF EstadoSano, Info
<1>7. ASSUME NEW w \in Workers, HiloWorker(w), ~MarcarRunning(w), ~RecibirPC(w) PROVE EstadoSano(q)
  <2>1. CASE \/ EsperarQuery(w) \/ ValidarWorker(w) \/ TomarQuery(w) \/ RecibirPaquete(w)
             \/ AbandonarWorker(w) \/ Reencolar(w) \/ PublicarDesalojada(w) \/ RecibirNulo(w)
    BY <2>1 DEF EsperarQuery, ValidarWorker, TomarQuery, RecibirPaquete, AbandonarWorker, Reencolar,
                PublicarDesalojada, RecibirNulo, deQueries, EstadoSano
  <2>2. CASE RegistrarYEnviar(w) \/ RecibirRead(w)
    <3>1. \E x, v : \/ info' = [info EXCEPT ![x].worker = v]
                    \/ info' = [info EXCEPT ![x].pc = v]
      BY <2>2 DEF RegistrarYEnviar, RecibirRead
    <3> QED BY <1>1, <3>1 DEF EstadoSano, Info
  <2>3. CASE RecibirEnd(w) \/ RecibirError(w) \/ RecibirDesconectado(w)
    <3>1. \E x : info' = [info EXCEPT ![x].estado = "EXIT"]
      BY <2>3 DEF RecibirEnd, RecibirError, RecibirDesconectado
    <3> QED BY <1>1, <3>1 DEF EstadoSano, Info
  <2> QED BY <1>7, <2>1, <2>2, <2>3 DEF HiloWorker
<1>8. CASE \/ UNCHANGED vars \/ UNCHANGED master_vars \/ Caer
           \/ \E x \in Queries : IrseQC(x) \/ TerminarQC(x)
  BY <1>8 DEF vars, master_vars, Caer, IrseQC, TerminarQC, deQueries, EstadoSano
<1> QED BY <1>2, <1>3, <1>4, <1>5, <1>6, <1>7, <1>8 DEF Next, PlanificadorNext

LEMMA ExitSiempre == Spec => []InvExit
<1>1. Init => InvExit
  BY DEF Init, PlanificadorInit, InvExit, EnExit
<1>2. TypeOK /\ InvFinal /\ InvExit /\ [Next]_vars => InvExit'
  <2> SUFFICES ASSUME TypeOK, InvFinal, InvExit, [Next]_vars, SinCaidas', NEW q \in Queries
               PROVE  EnExit(q)'
    BY DEF InvExit
  <2>1. SinCaidas
    BY VigiaFielSigue DEF InvFinal
  <2>2. CASE finales'[q] # finales[q]
    BY <2>1, <2>2, ExitAlContestar DEF EnExit, InvFinal
  <2>3. CASE finales'[q] = finales[q]
    <3>1. finales[q] # <<>> => Fuera(q) /\ info[q].estado = "EXIT"
      BY <2>1 DEF InvFinal, UnFinal, InvExit, EnExit
    <3>2. EstadoSano(q)
      BY EstadoQuieto
    <3> QED BY <2>3, <3>1, <3>2 DEF EnExit, EstadoSano
  <2> QED BY <2>2, <2>3
<1> QED BY <1>1, <1>2, FinalSiempre, TipoCorrecto, PTL DEF Spec

\* Once a Query Control was seen to leave without its answer, it is never answered.
LEMMA SanasAntes ==
  ASSUME TypeOK, InvVigias, InvFinal, [Next]_vars, SalidasSanas'
  PROVE  SalidasSanas
<1>1. ASSUME NEW q \in Queries, Vista(q) PROVE finales[q] # <<>>
  <2>1. finales'[q] # <<>>
    BY <1>1, VigiaSigue DEF SalidasSanas
  <2>2. conexion[q] = "cerrada"
    BY <1>1 DEF InvVigias, Vigia
  <2>3. finales'[q] = finales[q]
    BY <2>2, ExitAlContestar
  <2> QED BY <2>1, <2>3
<1>2. SinCaidas' => SinCaidas
  BY VigiaFielSigue DEF InvFinal
<1>3. (\A q \in Queries : ~Vista(q)') => \A q \in Queries : ~Vista(q)
  BY VigiaSigue
<1> QED BY <1>1, <1>2, <1>3 DEF SalidasSanas
-------------------------------------------------------------------------------
(* The balance *)

\* A watcher that goes for its query in cola_queries finds that it was not answered.
LEMMA SinRobosSigue ==
  ASSUME TypeOK, [Next]_vars, InvVigias, InvExit, SalidasSanas, SinRobos
  PROVE  SinRobos'
<1> DEFINE Libre(q) == \/ hilo'["vigia"][q] = hilo["vigia"][q]
                       \/ hilo'["vigia"][q] \notin {"quitar", "robar"}
<1>1. hilo \in [Hilos -> [Queries -> Pasos]]
  BY DEF TypeOK, PlanificadorTypeOK, DeQueriesOK
<1>2. ASSUME UNCHANGED hilo \/ \E x \in Queries : \E p : Avanza("alta", x, p) \/ Avanza("timer", x, p),
             NEW q \in Queries
      PROVE  Libre(q)
  BY <1>1, <1>2 DEF Avanza, Hilos
<1>3. ASSUME NEW x \in Queries, NEW p, p \notin {"quitar", "robar"}, Avanza("vigia", x, p),
             NEW q \in Queries
      PROVE  Libre(q)
  BY <1>1, <1>3 DEF Avanza, Hilos
<1>4. ASSUME NEW x \in Queries, HiloVigia(x)
      PROVE  \E p : p \notin {"quitar", "robar"} /\ Avanza("vigia", x, p)
  <2>1. CASE VigiaLista(x)
    <3>1. Vista(x)
      BY <2>1 DEF VigiaLista, InvVigias, Vigia
    <3>2. info[x].estado = "EXIT"
      BY <3>1 DEF SalidasSanas, InvExit, EnExit
    <3> QED BY <2>1, <3>2 DEF VigiaLista, Lee
  <2>2. ~VigiaQuitar(x) /\ ~VigiaRobar(x)
    BY DEF SinRobos, VigiaQuitar, VigiaRobar
  <2>3. CASE Desalojar("vigia", x)
    BY <2>3 DEF Desalojar, Despues
  <2>4. CASE MirarSinNovedad(x) \/ MirarDesconexion(x) \/ VigiaCorriendo(x) \/ VigiaSalir(x) \/ VigiaJoin(x)
    BY <2>4 DEF MirarSinNovedad, MirarDesconexion, VigiaCorriendo, VigiaSalir, VigiaJoin
  <2> QED BY <1>4, <2>1, <2>2, <2>3, <2>4 DEF HiloVigia
<1>5. ASSUME NEW x \in Queries, CrearQuery(x), NEW q \in Queries PROVE Libre(q)
  BY <1>1, <1>5 DEF CrearQuery, Hilos
<1>6. ASSUME NEW x \in Queries, HiloAlta(x), NEW q \in Queries PROVE Libre(q)
  <2>1. CASE CrearTimer(x)
    BY <1>1, <2>1 DEF CrearTimer, Hilos
  <2>2. CASE ~CrearTimer(x)
    <3>1. \E p : Avanza("alta", x, p)
      BY <1>6, <2>2 DEF HiloAlta, AsignarSocket, AsignarEstado, Encolar, Chequear, Desalojar, Publicar
    <3> QED BY <1>2, <3>1
  <2> QED BY <2>1, <2>2
<1>7. ASSUME NEW x \in Queries, HiloTimer(x), NEW q \in Queries PROVE Libre(q)
  <2>1. \E p : Avanza("timer", x, p)
    BY <1>7 DEF HiloTimer, Envejecer, Chequear, Desalojar, Releer, DespertarTimer
  <2> QED BY <1>2, <2>1
<1>8. ASSUME NEW w \in Workers, IdentificarWorker(w) \/ HiloWorker(w) \/ HiloVigiaWorker(w)
      PROVE  UNCHANGED hilo
  <2>1. CASE IdentificarWorker(w) \/ HiloVigiaWorker(w)
    BY <2>1 DEF IdentificarWorker, HiloVigiaWorker, AtenderInterrupcion, DetectarCaida,
                DescontarWorker, AvisarCaida, ResponderCaida, RetirarWorker, deQueries
  <2>2. CASE HiloWorker(w)
    BY <2>2 DEF HiloWorker, EsperarQuery, ValidarWorker, TomarQuery, MarcarRunning, RegistrarYEnviar,
                RecibirPaquete, RecibirRead, RecibirEnd, RecibirError, AbandonarWorker, RecibirPC,
                Reencolar, PublicarDesalojada, RecibirDesconectado, RecibirNulo, deQueries
  <2> QED BY <1>8, <2>1, <2>2
<1>9. ASSUME \/ UNCHANGED vars \/ UNCHANGED master_vars \/ Caer
             \/ \E x \in Queries : IrseQC(x) \/ TerminarQC(x)
      PROVE  UNCHANGED hilo
  BY <1>9 DEF vars, master_vars, Caer, IrseQC, TerminarQC, deQueries
<1>10. \A q \in Queries : Libre(q)
  <2> HIDE DEF Libre
  <2> QED BY <1>2, <1>3, <1>4, <1>5, <1>6, <1>7, <1>8, <1>9 DEF Next, PlanificadorNext
<1> QED BY <1>10 DEF SinRobos

\* Where the three sets go when one thread moves.
LEMMA SigueCuenta ==
  ASSUME TypeOK, NEW w \in Workers, NEW paso, Sigue(w, paso)
  PROVE  /\ EnCamino' = IF paso \in {"validar", "tomar"} THEN EnCamino \cup {w} ELSE EnCamino \ {w}
         /\ EnPublicar' = IF paso = "publicar" THEN EnPublicar \cup {w} ELSE EnPublicar \ {w}
<1>1. hiloWorker \in [Workers -> PasosWorker]
  BY DEF TypeOK, PlanificadorTypeOK, AtencionOK
<1> QED BY <1>1 DEF Sigue, EnCamino, EnPublicar

ConToken == {"timer", "chequear", "desalojar", "publicar"}

LEMMA AvanzaCuenta ==
  ASSUME TypeOK, NEW q \in Queries, NEW paso, Avanza("alta", q, paso)
  PROVE  SinPublicar' = IF paso \in ConToken THEN SinPublicar \cup {q} ELSE SinPublicar \ {q}
<1>1. hilo \in [Hilos -> [Queries -> Pasos]]
  BY DEF TypeOK, PlanificadorTypeOK, DeQueriesOK
<1> QED BY <1>1 DEF Avanza, SinPublicar, ConToken, Hilos

LEMMA CuentaQuieta ==
  ASSUME Contables, TokensConservados, UNCHANGED <<cola_queries, sem_queries>>,
         EnCamino' = EnCamino, SinPublicar' = SinPublicar, EnPublicar' = EnPublicar
  PROVE  Contables' /\ TokensConservados'
BY DEF Contables, TokensConservados

\* One more of them, or one less.
LEMMA Cuantos ==
  ASSUME NEW S, IsFiniteSet(S), NEW x
  PROVE  /\ Cardinality(S) \in Nat
         /\ IsFiniteSet(S \cup {x}) /\ IsFiniteSet(S \ {x})
         /\ x \notin S => Cardinality(S \cup {x}) = Cardinality(S) + 1
         /\ x \in S => Cardinality(S \ {x}) = Cardinality(S) - 1
BY FS_AddElement, FS_RemoveElement, FS_CardinalityType

\* atender_Query
LEMMA CuentaAlta ==
  ASSUME TypeOK, Contables, TokensConservados, NEW q \in Queries, HiloAlta(q)
  PROVE  Contables' /\ TokensConservados'
<1>1. UNCHANGED hiloWorker
  BY DEF HiloAlta, AsignarSocket, AsignarEstado, Encolar, CrearTimer, Chequear, Desalojar, Publicar,
         atencion
<1>2. EnCamino' = EnCamino /\ EnPublicar' = EnPublicar
  BY <1>1 DEF EnCamino, EnPublicar
<1>3. hilo \in [Hilos -> [Queries -> Pasos]] /\ sem_queries \in Nat /\ cola_queries \in Seq(Queries)
  BY DEF TypeOK, PlanificadorTypeOK, DeQueriesOK, ListasOK
<1>4. /\ Cardinality(EnCamino) \in Nat /\ Cardinality(SinPublicar) \in Nat
      /\ Cardinality(EnPublicar) \in Nat
  BY FS_CardinalityType DEF Contables
<1>5. CASE Encolar(q)
  <2>1. \E paso \in ConToken : Avanza("alta", q, paso)
    BY <1>5 DEF Encolar, ConToken
  <2>2. SinPublicar' = SinPublicar \cup {q} /\ q \notin SinPublicar
    BY <1>5, <2>1, AvanzaCuenta DEF Encolar, SinPublicar
  <2>3. IsFiniteSet(SinPublicar') /\ Cardinality(SinPublicar') = Cardinality(SinPublicar) + 1
    BY <2>2, Cuantos DEF Contables
  <2>4. Len(cola_queries') = Len(cola_queries) + 1 /\ sem_queries' = sem_queries
    BY <1>3, <1>5 DEF Encolar
  <2> QED BY <1>2, <1>3, <1>4, <2>3, <2>4 DEF Contables, TokensConservados
<1>6. CASE Publicar(q)
  <2>1. Avanza("alta", q, "fin") /\ "fin" \notin ConToken /\ q \in SinPublicar
    BY <1>6 DEF Publicar, ConToken, SinPublicar
  <2>2. SinPublicar' = SinPublicar \ {q}
    BY <2>1, AvanzaCuenta
  <2>3. IsFiniteSet(SinPublicar') /\ Cardinality(SinPublicar') = Cardinality(SinPublicar) - 1
    BY <2>1, <2>2, Cuantos DEF Contables
  <2>4. cola_queries' = cola_queries /\ sem_queries' = sem_queries + 1
    BY <1>6 DEF Publicar, listas
  <2> QED BY <1>2, <1>3, <1>4, <2>3, <2>4, SMTT(30) DEF Contables, TokensConservados
<1>7. CASE CrearTimer(q)
  <2>1. SinPublicar' = SinPublicar
    BY <1>3, <1>7 DEF CrearTimer, SinPublicar, Hilos
  <2> QED BY <1>2, <1>7, <2>1, CuentaQuieta DEF CrearTimer, listas
<1>8. CASE AsignarSocket(q) \/ AsignarEstado(q)
  <2>1. q \notin SinPublicar /\ \E p : p \notin ConToken /\ Avanza("alta", q, p)
    BY <1>8 DEF AsignarSocket, AsignarEstado, SinPublicar, ConToken
  <2>2. SinPublicar' = SinPublicar
    BY <2>1, AvanzaCuenta
  <2> QED BY <1>2, <1>8, <2>2, CuentaQuieta DEF AsignarSocket, AsignarEstado, listas
<1>9. CASE Chequear("alta", q) \/ Desalojar("alta", q)
  <2>1. q \in SinPublicar /\ \E p \in ConToken : Avanza("alta", q, p)
    BY <1>9 DEF Chequear, Desalojar, Despues, SinPublicar, ConToken
  <2>2. SinPublicar' = SinPublicar
    BY <2>1, AvanzaCuenta
  <2> QED BY <1>2, <1>9, <2>2, CuentaQuieta DEF Chequear, Desalojar, listas
<1> QED BY <1>5, <1>6, <1>7, <1>8, <1>9 DEF HiloAlta

\* The other threads of a query, while no watcher takes it out.
LEMMA CuentaQuery ==
  ASSUME TypeOK, Contables, TokensConservados, SinRobos, NEW q \in Queries,
         CrearQuery(q) \/ HiloTimer(q) \/ HiloVigia(q)
  PROVE  Contables' /\ TokensConservados'
<1>1. hilo \in [Hilos -> [Queries -> Pasos]]
  BY DEF TypeOK, PlanificadorTypeOK, DeQueriesOK
<1>2. ~VigiaQuitar(q) /\ ~VigiaRobar(q)
  BY DEF SinRobos, VigiaQuitar, VigiaRobar
<1>3. UNCHANGED <<cola_queries, sem_queries, hiloWorker>>
  <2>1. CASE CrearQuery(q) \/ HiloTimer(q)
    BY <2>1 DEF CrearQuery, HiloTimer, Envejecer, Chequear, Desalojar, Releer, DespertarTimer, listas, atencion
  <2>2. CASE HiloVigia(q)
    BY <1>2, <2>2 DEF HiloVigia, MirarSinNovedad, MirarDesconexion, VigiaCorriendo, Desalojar, VigiaLista,
                VigiaSalir, VigiaJoin, listas, atencion
  <2> QED BY <2>1, <2>2
<1>4. SinPublicar' = SinPublicar
  <2>1. CASE CrearQuery(q)
    BY <1>1, <2>1 DEF CrearQuery, SinPublicar, Hilos
  <2>2. CASE HiloTimer(q)
    <3>1. \E p : Avanza("timer", q, p)
      BY <2>2 DEF HiloTimer, Envejecer, Chequear, Desalojar, Releer, DespertarTimer
    <3> QED BY <1>1, <3>1 DEF Avanza, SinPublicar, Hilos
  <2>3. CASE HiloVigia(q)
    <3>1. \E p : Avanza("vigia", q, p)
      BY <1>2, <2>3 DEF HiloVigia, MirarSinNovedad, MirarDesconexion, VigiaCorriendo, Desalojar, VigiaLista,
                  VigiaSalir, VigiaJoin
    <3> QED BY <1>1, <3>1 DEF Avanza, SinPublicar, Hilos
  <2> QED BY <2>1, <2>2, <2>3
<1>5. EnCamino' = EnCamino /\ EnPublicar' = EnPublicar
  BY <1>3 DEF EnCamino, EnPublicar
<1> QED BY <1>3, <1>4, <1>5, CuentaQuieta

\* The thread of a Worker: each token it takes is for one query.
LEMMA CuentaWorker ==
  ASSUME TypeOK, Contables, TokensConservados, NEW w \in Workers, HiloWorker(w) \/ IdentificarWorker(w)
  PROVE  Contables' /\ TokensConservados'
<1>1. UNCHANGED hilo
  BY DEF HiloWorker, IdentificarWorker, EsperarQuery, ValidarWorker, TomarQuery, MarcarRunning, RegistrarYEnviar,
         RecibirPaquete, RecibirRead, RecibirEnd, RecibirError, AbandonarWorker, RecibirPC,
         Reencolar, PublicarDesalojada, RecibirDesconectado, RecibirNulo, deQueries
<1>2. SinPublicar' = SinPublicar
  BY <1>1 DEF SinPublicar
<1>3. sem_queries \in Nat /\ cola_queries \in Seq(Queries)
  BY DEF TypeOK, PlanificadorTypeOK, ListasOK
<1>4. /\ Cardinality(EnCamino) \in Nat /\ Cardinality(SinPublicar) \in Nat
      /\ Cardinality(EnPublicar) \in Nat
  BY FS_CardinalityType DEF Contables
<1>5. ASSUME NEW p, Sigue(w, p), p \notin {"validar", "tomar", "publicar"},
             hiloWorker[w] \notin {"validar", "tomar", "publicar"}
      PROVE  EnCamino' = EnCamino /\ EnPublicar' = EnPublicar
  <2>1. w \notin EnCamino /\ w \notin EnPublicar
    BY <1>5 DEF EnCamino, EnPublicar
  <2> QED BY <1>5, <2>1, SigueCuenta
<1>6. CASE EsperarQuery(w)
  <2>1. EnCamino' = EnCamino \cup {w} /\ EnPublicar' = EnPublicar \ {w}
    BY <1>6, SigueCuenta DEF EsperarQuery
  <2>2. w \notin EnCamino /\ w \notin EnPublicar
    BY <1>6 DEF EsperarQuery, EnCamino, EnPublicar
  <2>3. /\ IsFiniteSet(EnCamino') /\ Cardinality(EnCamino') = Cardinality(EnCamino) + 1
        /\ EnPublicar' = EnPublicar
    BY <2>1, <2>2, Cuantos DEF Contables
  <2>4. cola_queries' = cola_queries /\ sem_queries' = sem_queries - 1
    BY <1>6 DEF EsperarQuery, listas
  <2> QED BY <1>2, <1>3, <1>4, <2>3, <2>4 DEF Contables, TokensConservados
<1>7. CASE ValidarWorker(w)
  <2>1. w \in EnCamino /\ w \notin EnPublicar /\ cola_queries' = cola_queries
    BY <1>7 DEF ValidarWorker, EnCamino, EnPublicar, listas
  <2>2. CASE Sigue(w, "tomar") /\ UNCHANGED sem_queries
    <3>1. EnCamino' = EnCamino \cup {w} /\ EnPublicar' = EnPublicar \ {w}
      BY <2>2, SigueCuenta
    <3>2. EnCamino' = EnCamino /\ EnPublicar' = EnPublicar
      BY <2>1, <3>1
    <3> QED BY <1>2, <2>1, <2>2, <3>2, CuentaQuieta
  <2>3. CASE Sigue(w, "fin") /\ sem_queries' = sem_queries + 1
    <3>1. EnCamino' = EnCamino \ {w} /\ EnPublicar' = EnPublicar \ {w}
      BY <2>3, SigueCuenta
    <3>2. /\ IsFiniteSet(EnCamino') /\ Cardinality(EnCamino') = Cardinality(EnCamino) - 1
          /\ EnPublicar' = EnPublicar
      BY <2>1, <3>1, Cuantos DEF Contables
    <3> QED BY <1>2, <1>3, <1>4, <2>1, <2>3, <3>2 DEF Contables, TokensConservados
  <2> QED BY <1>7, <2>2, <2>3 DEF ValidarWorker
<1>8. CASE TomarQuery(w)
  <2>1. w \in EnCamino /\ w \notin EnPublicar /\ sem_queries' = sem_queries
    BY <1>8 DEF TomarQuery, EnCamino, EnPublicar
  <2>2. Cardinality(EnCamino) >= 1
    BY <1>4, <2>1, FS_EmptySet DEF Contables
  <2>3. cola_queries # <<>>
    BY <1>3, <1>4, <2>2 DEF TokensConservados
  <2>4. PICK i \in 1..Len(cola_queries) : cola_queries' = RemoveAt(cola_queries, i) /\ Sigue(w, "marcar")
    BY <1>8, <2>3 DEF TomarQuery
  <2>5. EnCamino' = EnCamino \ {w} /\ EnPublicar' = EnPublicar \ {w}
    BY <2>4, SigueCuenta
  <2>6. /\ IsFiniteSet(EnCamino') /\ Cardinality(EnCamino') = Cardinality(EnCamino) - 1
        /\ EnPublicar' = EnPublicar
    BY <2>1, <2>5, Cuantos DEF Contables
  <2>7. Len(cola_queries') = Len(cola_queries) - 1
    BY <1>3, <2>4, RemoveAtElementos
  <2> QED BY <1>2, <1>3, <1>4, <2>1, <2>6, <2>7, SMTT(30) DEF Contables, TokensConservados
<1>9. CASE Reencolar(w)
  <2>1. w \notin EnCamino /\ w \notin EnPublicar /\ sem_queries' = sem_queries
    BY <1>9 DEF Reencolar, EnCamino, EnPublicar
  <2>2. EnCamino' = EnCamino \ {w} /\ EnPublicar' = EnPublicar \cup {w}
    BY <1>9, SigueCuenta DEF Reencolar
  <2>3. /\ IsFiniteSet(EnPublicar') /\ Cardinality(EnPublicar') = Cardinality(EnPublicar) + 1
        /\ EnCamino' = EnCamino
    BY <2>1, <2>2, Cuantos DEF Contables
  <2>4. enMano[w] \in Queries
    BY <1>9, EnManoEsQuery DEF Reencolar, EnLaMano
  <2>5. Len(cola_queries') = Len(cola_queries) + 1
    BY <1>3, <1>9, <2>4 DEF Reencolar
  <2> QED BY <1>2, <1>3, <1>4, <2>1, <2>3, <2>5 DEF Contables, TokensConservados
<1>10. CASE PublicarDesalojada(w)
  <2>1. w \notin EnCamino /\ w \in EnPublicar /\ sem_queries' = sem_queries + 1 /\ cola_queries' = cola_queries
    BY <1>10 DEF PublicarDesalojada, EnCamino, EnPublicar, listas
  <2>2. EnCamino' = EnCamino \ {w} /\ EnPublicar' = EnPublicar \ {w}
    BY <1>10, SigueCuenta DEF PublicarDesalojada
  <2>3. /\ IsFiniteSet(EnPublicar') /\ Cardinality(EnPublicar') = Cardinality(EnPublicar) - 1
        /\ EnCamino' = EnCamino
    BY <2>1, <2>2, Cuantos DEF Contables
  <2> QED BY <1>2, <1>3, <1>4, <2>1, <2>3 DEF Contables, TokensConservados
<1>11. CASE \/ IdentificarWorker(w) \/ MarcarRunning(w) \/ RegistrarYEnviar(w) \/ RecibirPaquete(w)
            \/ RecibirRead(w) \/ RecibirEnd(w) \/ RecibirError(w) \/ AbandonarWorker(w) \/ RecibirPC(w)
            \/ RecibirDesconectado(w) \/ RecibirNulo(w)
  <2>1. UNCHANGED <<cola_queries, sem_queries>>
    BY <1>11 DEF IdentificarWorker, MarcarRunning, RegistrarYEnviar, RecibirPaquete, RecibirRead, RecibirEnd,
                 RecibirError, AbandonarWorker, RecibirPC, RecibirDesconectado, RecibirNulo, listas
  <2>2. hiloWorker[w] \notin {"validar", "tomar", "publicar"}
    BY <1>11 DEF IdentificarWorker, MarcarRunning, RegistrarYEnviar, RecibirPaquete, RecibirRead, RecibirEnd,
                 RecibirError, AbandonarWorker, RecibirPC, RecibirDesconectado, RecibirNulo, Recibe, Nulo
  <2>3. \E p : p \notin {"validar", "tomar", "publicar"} /\ Sigue(w, p)
    BY <1>11 DEF IdentificarWorker, MarcarRunning, RegistrarYEnviar, RecibirPaquete, RecibirRead, RecibirEnd,
                 RecibirError, AbandonarWorker, RecibirPC, RecibirDesconectado, RecibirNulo
  <2> QED BY <1>2, <1>5, <2>1, <2>2, <2>3, CuentaQuieta
<1> QED BY <1>6, <1>7, <1>8, <1>9, <1>10, <1>11 DEF HiloWorker

LEMMA CuentaSigue ==
  ASSUME TypeOK, [Next]_vars, Contables, TokensConservados, SinRobos
  PROVE  Contables' /\ TokensConservados'
<1>1. ASSUME UNCHANGED <<cola_queries, sem_queries, hilo, hiloWorker>>
      PROVE  Contables' /\ TokensConservados'
  BY <1>1, CuentaQuieta DEF EnCamino, EnPublicar, SinPublicar
<1>2. CASE \/ UNCHANGED vars \/ UNCHANGED master_vars \/ Caer
           \/ \E x \in Queries : IrseQC(x) \/ TerminarQC(x)
  BY <1>1, <1>2 DEF vars, master_vars, Caer, IrseQC, TerminarQC, deQueries, listas, atencion
<1>3. ASSUME NEW w \in Workers, HiloVigiaWorker(w) PROVE Contables' /\ TokensConservados'
  BY <1>1, <1>3 DEF HiloVigiaWorker, AtenderInterrupcion, DetectarCaida, DescontarWorker, AvisarCaida,
                    ResponderCaida, RetirarWorker, deQueries, listas, atencion
<1> QED BY <1>2, <1>3, CuentaAlta, CuentaQuery, CuentaWorker DEF Next, PlanificadorNext

\* sem_queries announces each query of cola_queries once: a thread that passed sem_wait finds
\* one, and none waits there unannounced, whatever is preempted, rejected, or dies
\* (atender_Query, comenzar_a_ejecutar, the cases of atender_Worker).  It stops being so when a
\* watcher takes a token for a Query Control that left without its answer.
THEOREM TokensEnOrden == Spec => [](SalidasSanas => TokensConservados)
<1>1. Init => InvTokens
  <2> SUFFICES ASSUME Init PROVE SinRobos /\ Contables /\ TokensConservados
    BY DEF InvTokens
  <2>1. /\ \A t \in Hilos : \A q \in Queries : hilo[t][q] = "no"
        /\ \A w \in Workers : hiloWorker[w] = "no"
        /\ cola_queries = <<>> /\ sem_queries = 0
    BY DEF Init, PlanificadorInit
  <2>2. EnCamino = {} /\ SinPublicar = {} /\ EnPublicar = {} /\ SinRobos
    BY <2>1 DEF EnCamino, SinPublicar, EnPublicar, SinRobos, Hilos
  <2> QED BY <2>1, <2>2, FS_EmptySet DEF Contables, TokensConservados
<1>2. TypeOK /\ InvVigias /\ InvFinal /\ InvExit /\ InvTokens /\ [Next]_vars => InvTokens'
  <2> SUFFICES ASSUME TypeOK, InvVigias, InvFinal, InvExit, InvTokens, [Next]_vars, SalidasSanas'
               PROVE  SinRobos' /\ Contables' /\ TokensConservados'
    BY DEF InvTokens
  <2>1. SalidasSanas
    BY SanasAntes
  <2>2. SinRobos /\ Contables /\ TokensConservados
    BY <2>1 DEF InvTokens
  <2> QED BY <2>1, <2>2, SinRobosSigue, CuentaSigue
<1>3. InvTokens => (SalidasSanas => TokensConservados)
  BY DEF InvTokens
<1> QED BY <1>1, <1>2, <1>3, TipoCorrecto, VigiasSiempre, FinalSiempre, ExitSiempre, PTL DEF Spec

-------------------------------------------------------------------------------
(* What the Master looks for is there *)

\* The results of the READs of a query precede what closes it in the connection of its Worker.
LeidasAntes(s) == \A i, j \in 1..Len(s) :
    s[i].op = "READ_RESULT" /\ s[j].op \in Cierres /\ s[i].query = s[j].query => i < j

\* While a READ_RESULT of q is unread q is assigned, and only its sender has it.
Lectura(q) == \A w \in Workers : Dijo(w, "READ_RESULT", q) =>
    /\ En(q, query_en_worker)
    /\ \A v \in Workers : ~Asignada(v, q) /\ (Trabaja(v, q) \/ Cerrada(v, q) => v = w)

InvLecturas == /\ \A w \in Workers : LeidasAntes(respuesta[w])
               /\ \A q \in Queries : Lectura(q)

-------------------------------------------------------------------------------
(* The connections *)

LEMMA LeidasMenos ==
  ASSUME NEW s \in Seq(Mensaje), s # <<>>, LeidasAntes(s)
  PROVE  /\ LeidasAntes(Tail(s))
         /\ Head(s).op \in Cierres =>
              \A m \in ToSet(Tail(s)) : m.op = "READ_RESULT" => m.query # Head(s).query
<1>1. Len(Tail(s)) = Len(s) - 1 /\ \A i \in 1..Len(Tail(s)) : Tail(s)[i] = s[i + 1]
  OBVIOUS
<1>2. Len(s) \in Nat /\ Head(s) = s[1] /\ 1 \in 1..Len(s)
  OBVIOUS
<1>3. LeidasAntes(Tail(s))
  BY <1>1, <1>2 DEF LeidasAntes
<1>4. ASSUME Head(s).op \in Cierres, NEW m \in ToSet(Tail(s)), m.op = "READ_RESULT"
      PROVE  m.query # Head(s).query
  <2>1. PICK i \in 1..Len(Tail(s)) : m = Tail(s)[i]
    BY <1>1 DEF ToSet
  <2>2. i + 1 \in 1..Len(s) /\ m = s[i + 1] /\ ~(i + 1 < 1)
    BY <1>1, <1>2, <2>1
  <2> QED BY <1>2, <1>4, <2>2 DEF LeidasAntes
<1> QED BY <1>3, <1>4

LEMMA LeidasMas ==
  ASSUME NEW s \in Seq(Mensaje), NEW f \in Seq(Mensaje), LeidasAntes(s),
         \/ \A m \in ToSet(f) : m.op # "READ_RESULT"
         \/ \A m \in ToSet(f) : /\ m.op \notin Cierres
                                /\ \A x \in ToSet(s) : x.op \in Cierres => x.query # m.query
  PROVE  LeidasAntes(s \o f)
<1> DEFINE r == s \o f
<1>1. /\ Len(r) = Len(s) + Len(f) /\ Len(s) \in Nat /\ Len(f) \in Nat
      /\ \A i \in 1..Len(s) : r[i] = s[i]
      /\ \A i \in 1..Len(f) : r[Len(s) + i] = f[i]
  OBVIOUS
<1>2. ASSUME NEW i \in 1..Len(r), ~(i \in 1..Len(s))
      PROVE  i > Len(s) /\ r[i] \in ToSet(f)
  <2>1. i - Len(s) \in 1..Len(f) /\ r[i] = f[i - Len(s)]
    BY <1>1, <1>2
  <2> QED BY <1>2, <2>1 DEF ToSet
<1>3. \A i \in 1..Len(s) : r[i] \in ToSet(s)
  BY <1>1 DEF ToSet
<1>4. ASSUME NEW i \in 1..Len(r), NEW j \in 1..Len(r), r[i].op = "READ_RESULT", r[j].op \in Cierres,
             r[i].query = r[j].query
      PROVE  i < j
  <2>1. CASE i \in 1..Len(s) /\ j \in 1..Len(s)
    <3>1. r[i] = s[i] /\ r[j] = s[j]
      BY <1>1, <2>1
    <3> QED BY <1>4, <2>1, <3>1 DEF LeidasAntes
  <2>2. CASE i \in 1..Len(s) /\ ~(j \in 1..Len(s))
    BY <1>1, <1>2, <2>2
  <2>3. CASE ~(i \in 1..Len(s))
    <3>1. r[i] \in ToSet(f) /\ r[i].op = "READ_RESULT"
      BY <1>2, <1>4, <2>3
    <3>2. \A m \in ToSet(f) : /\ m.op \notin Cierres
                              /\ \A x \in ToSet(s) : x.op \in Cierres => x.query # m.query
      BY <3>1
    <3>3. ~(j \in 1..Len(s))
      BY <1>3, <1>4, <3>1, <3>2
    <3> QED BY <1>2, <1>4, <3>2, <3>3
  <2> QED BY <2>1, <2>2, <2>3
<1> HIDE DEF r
<1>5. LeidasAntes(r)
  BY <1>4 DEF LeidasAntes
<1> QED BY <1>5 DEF r

-------------------------------------------------------------------------------
(* The results of READ *)

\* No Worker and no connection has anything of q that it had not before, a READ_RESULT included.
SinNovedad(q) == \A w \in Workers :
    /\ Asignada(w, q)' => Asignada(w, q)
    /\ Trabaja(w, q)' => Trabaja(w, q)
    /\ \A op \in Cierres \cup {"READ_RESULT"} : Dijo(w, op, q)' => Dijo(w, op, q)

LEMMA LecturaMenor ==
  ASSUME NEW q, Lectura(q), SinNovedad(q), En(q, query_en_worker) => En(q, query_en_worker)'
  PROVE  Lectura(q)'
BY DEF Lectura, SinNovedad, Cerrada

LEMMA LecturasQuietas ==
  ASSUME InvLecturas, UNCHANGED <<despacho, respuesta, worker_vars>>,
         \A q \in Queries : En(q, query_en_worker) => En(q, query_en_worker)'
  PROVE  InvLecturas'
<1>1. \A q \in Queries : SinNovedad(q)
  BY DEF SinNovedad, Asignada, Trabaja, Dijo, worker_vars
<1> QED BY <1>1, LecturaMenor DEF InvLecturas

\* The oldest packet of a connection was taken.
LEMMA LecturaConsumida ==
  ASSUME TypeOK, InvLecturas, NEW w \in Workers, respuesta[w] # <<>>, Consumir(w),
         UNCHANGED <<despacho, worker_vars>>, NEW x, x = Head(respuesta[w]).query
  PROVE  /\ \A v \in Workers : LeidasAntes(respuesta'[v])
         /\ \A q : SinNovedad(q)
         /\ Head(respuesta[w]).op \in Cierres =>
              \A v \in Workers : ~Dijo(v, "READ_RESULT", x)'
<1>1. respuesta \in [Workers -> Seq(Mensaje)] /\ respuesta[w] \in Seq(Mensaje)
  BY DEF TypeOK, RedTypeOK
<1>2. respuesta'[w] = Tail(respuesta[w]) /\ \A v \in Workers : v # w => respuesta'[v] = respuesta[v]
  BY <1>1 DEF Consumir
<1>3. /\ Head(respuesta[w]) \in ToSet(respuesta[w]) /\ Head(respuesta[w]) \in Mensaje
      /\ \A m : m \in ToSet(respuesta'[w]) => m \in ToSet(respuesta[w])
  BY <1>1, <1>2, SinElPrimero
<1>4. \A v \in Workers : \A m : m \in ToSet(respuesta'[v]) => m \in ToSet(respuesta[v])
  BY <1>2, <1>3
<1>5. \A q : SinNovedad(q)
  BY <1>4 DEF SinNovedad, Asignada, Trabaja, Dijo, worker_vars
<1>6. \A v \in Workers : LeidasAntes(respuesta'[v])
  BY <1>1, <1>2, LeidasMenos DEF InvLecturas
<1>7. ASSUME Head(respuesta[w]).op \in Cierres, NEW v \in Workers, Dijo(v, "READ_RESULT", x)'
      PROVE  FALSE
  <2>1. x \in Queries /\ Cerrada(w, x)
    BY <1>3, <1>7 DEF Mensaje, Cerrada, Dijo
  <2>2. PICK m \in ToSet(respuesta'[v]) : m.query = x /\ m.op = "READ_RESULT"
    BY <1>7 DEF Dijo
  <2>3. Dijo(v, "READ_RESULT", x)
    BY <1>4, <2>2 DEF Dijo
  <2>4. v = w
    BY <2>1, <2>3 DEF InvLecturas, Lectura
  <2> QED BY <1>1, <1>2, <1>7, <2>2, <2>4, LeidasMenos DEF InvLecturas
<1> QED BY <1>5, <1>6, <1>7

LEMMA LecturasDeAtencion ==
  ASSUME InvOrden, InvLecturas, NEW w \in Workers, HiloWorker(w), UNCHANGED worker_vars
  PROVE  InvLecturas'
<1>1. TypeOK /\ UnSoloLugar
  BY DEF InvOrden
<1>2. query_en_worker \in Seq(Queries) /\ SinRepetidos(query_en_worker)
  BY <1>1 DEF TypeOK, PlanificadorTypeOK, ListasOK, UnSoloLugar
<1>3. CASE \/ EsperarQuery(w) \/ ValidarWorker(w) \/ TomarQuery(w) \/ MarcarRunning(w)
           \/ RecibirPaquete(w) \/ Reencolar(w) \/ PublicarDesalojada(w) \/ RecibirNulo(w)
  <2>1. UNCHANGED <<despacho, respuesta, query_en_worker>>
    BY <1>3 DEF EsperarQuery, ValidarWorker, TomarQuery, MarcarRunning, RecibirPaquete, Reencolar,
                PublicarDesalojada, RecibirNulo, listas, red
  <2> QED BY <2>1, LecturasQuietas
<1>4. CASE RecibirRead(w) \/ AbandonarWorker(w)
  <2>1. UNCHANGED <<despacho, query_en_worker>> /\ Consumir(w) /\ respuesta[w] # <<>>
    BY <1>4 DEF RecibirRead, AbandonarWorker, Recibe, Llega, listas
  <2>2. (\A v \in Workers : LeidasAntes(respuesta'[v])) /\ \A q : SinNovedad(q)
    BY <1>1, <2>1, LecturaConsumida
  <2> QED BY <2>1, <2>2, LecturaMenor DEF InvLecturas
<1>5. CASE RecibirEnd(w) \/ RecibirError(w) \/ RecibirDesconectado(w) \/ RecibirPC(w)
  <2>0. PICK x : x = Head(respuesta[w]).query
    OBVIOUS
  <2>1. /\ UNCHANGED despacho /\ Consumir(w) /\ respuesta[w] # <<>>
        /\ Head(respuesta[w]).op \in Cierres
    BY <1>5 DEF RecibirEnd, RecibirError, RecibirDesconectado, RecibirPC, Recibe, Llega, Cierres
  <2>2. /\ \A v \in Workers : LeidasAntes(respuesta'[v])
        /\ \A q : SinNovedad(q)
        /\ \A v \in Workers : ~Dijo(v, "READ_RESULT", x)'
    BY <1>1, <2>0, <2>1, LecturaConsumida
  <2>3. EliminarPorId(query_en_worker, x, query_en_worker') \/ UNCHANGED query_en_worker
    BY <1>5, <2>0 DEF RecibirEnd, RecibirError, RecibirDesconectado, RecibirPC
  <2>4. \A q : q # x /\ En(q, query_en_worker) => En(q, query_en_worker)'
    BY <1>2, <2>3, Eliminar
  <2>5. ASSUME NEW q \in Queries PROVE Lectura(q)'
    <3>1. CASE q = x
      BY <2>2, <3>1 DEF Lectura
    <3>2. CASE q # x
      BY <2>2, <2>4, <3>2, LecturaMenor DEF InvLecturas
    <3> QED BY <3>1, <3>2
  <2> QED BY <2>2, <2>5 DEF InvLecturas
<1>6. CASE RegistrarYEnviar(w)
  <2>1. PICK x : x = enMano[w]
    OBVIOUS
  <2>2. x \in Queries /\ ~En(x, query_en_worker)
    BY <1>1, <1>6, <2>1, EnManoEsQuery DEF RegistrarYEnviar, EnLaMano, UnSoloLugar
  <2>3. /\ query_en_worker' = Append(query_en_worker, x) /\ UNCHANGED respuesta
        /\ UNCHANGED despacho \/ EnviarDespacho(w, [query |-> x, pc |-> info[x].pc])
    BY <1>6, <2>1 DEF RegistrarYEnviar
  <2>4. \A q \in Queries : En(q, query_en_worker) => En(q, query_en_worker)'
    BY <1>2, <2>2, <2>3, Agregar
  <2>5. ASSUME NEW q \in Queries, q # x PROVE SinNovedad(q)
    <3>1. ASSUME NEW v \in Workers, Asignada(v, q)' PROVE Asignada(v, q)
      <4>1. CASE UNCHANGED despacho
        BY <3>1, <4>1 DEF Asignada
      <4>2. CASE ~UNCHANGED despacho
        <5>1. despacho' = [despacho EXCEPT ![w] = Append(despacho[w], [query |-> x, pc |-> info[x].pc])]
          BY <2>3, <4>2 DEF EnviarDespacho
        <5>2. [query |-> x, pc |-> info[x].pc] \in Asignacion
          BY <1>1, <2>2 DEF Asignacion, TypeOK, PlanificadorTypeOK, DeQueriesOK, Info
        <5>3. despacho \in [Workers -> Seq(Asignacion)]
          BY <1>1 DEF TypeOK, RedTypeOK
        <5>4. \A a : a \in ToSet(despacho'[v]) =>
                 a \in ToSet(despacho[v]) \/ a = [query |-> x, pc |-> info[x].pc]
          BY <5>1, <5>2, <5>3, ConUnoMas
        <5>5. PICK a \in ToSet(despacho'[v]) : a.query = q
          BY <3>1 DEF Asignada
        <5>6. a \in ToSet(despacho[v])
          BY <2>5, <5>4, <5>5
        <5> QED BY <5>5, <5>6 DEF Asignada
      <4> QED BY <4>1, <4>2
    <3> QED BY <2>3, <3>1 DEF SinNovedad, Trabaja, Dijo, worker_vars
  <2>6. ASSUME NEW v \in Workers PROVE ~Dijo(v, "READ_RESULT", x)'
    BY <2>2, <2>3 DEF InvLecturas, Lectura, Dijo
  <2>7. ASSUME NEW q \in Queries PROVE Lectura(q)'
    <3>1. CASE q = x
      BY <2>6, <3>1 DEF Lectura
    <3>2. CASE q # x
      BY <2>4, <2>5, <3>2, LecturaMenor DEF InvLecturas
    <3> QED BY <3>1, <3>2
  <2> QED BY <2>3, <2>7 DEF InvLecturas
<1> QED BY <1>3, <1>4, <1>5, <1>6 DEF HiloWorker

\* A Worker reports something of the query it is at.
LEMMA LecturasDeRespuesta ==
  ASSUME InvOrden, InvLecturas, NEW w \in Workers, NEW x \in Queries, Trabaja(w, x),
         UNCHANGED <<master_vars, despacho>>, NEW f \in Seq(Mensaje),
         respuesta' = [respuesta EXCEPT ![w] = respuesta[w] \o f],
         \A m \in ToSet(f) : m.query = x,
         \/ \A m \in ToSet(f) : m.op # "READ_RESULT"
         \/ ~error_storage[w] /\ \A m \in ToSet(f) : m.op \notin Cierres,
         \A v \in Workers : \A q \in Queries : Trabaja(v, q)' => Trabaja(v, q)
  PROVE  InvLecturas'
<1>1. respuesta \in [Workers -> Seq(Mensaje)] /\ respuesta[w] \in Seq(Mensaje)
  BY DEF InvOrden, TypeOK, RedTypeOK
<1>2. /\ \A v \in Workers : v # w => respuesta'[v] = respuesta[v]
      /\ respuesta'[w] = respuesta[w] \o f
      /\ \A m : m \in ToSet(respuesta'[w]) <=> (m \in ToSet(respuesta[w]) \/ m \in ToSet(f))
  BY <1>1, ConVarios
<1>3. UNCHANGED query_en_worker
  BY DEF master_vars, listas
<1>4. /\ \A v \in Workers : ~Asignada(v, x) /\ (Trabaja(v, x) => v = w)
      /\ \A v \in Workers : \A op \in Cierres : Dijo(v, op, x) => v = w /\ error_storage[w]
      /\ ~error_storage[w] => En(x, query_en_worker)
  BY Trabajando
<1>5. \A v \in Workers : LeidasAntes(respuesta'[v])
  <2>1. ASSUME ~error_storage[w], NEW m \in ToSet(respuesta[w]), m.op \in Cierres PROVE m.query # x
    BY <1>4, <2>1 DEF Dijo
  <2>2. LeidasAntes(respuesta[w] \o f)
    BY <1>1, <2>1, LeidasMas DEF InvLecturas
  <2> QED BY <1>2, <2>2 DEF InvLecturas
<1>6. \A v \in Workers : \A q \in Queries : Asignada(v, q)' => Asignada(v, q)
  BY DEF Asignada
<1>7. ASSUME NEW q \in Queries, q # x PROVE Lectura(q)'
  <2>1. ASSUME NEW v \in Workers, NEW m \in ToSet(respuesta'[v]), m.query = q
        PROVE  m \in ToSet(respuesta[v])
    BY <1>2, <1>7, <2>1
  <2>2. SinNovedad(q)
    BY <1>6, <2>1 DEF SinNovedad, Dijo
  <2> QED BY <1>3, <2>2, LecturaMenor DEF InvLecturas
<1>8. ASSUME NEW v \in Workers, Dijo(v, "READ_RESULT", x)'
      PROVE  v = w /\ En(x, query_en_worker)
  <2>1. PICK m \in ToSet(respuesta'[v]) : m.query = x /\ m.op = "READ_RESULT"
    BY <1>8 DEF Dijo
  <2>2. CASE m \in ToSet(respuesta[v])
    <3>1. Dijo(v, "READ_RESULT", x)
      BY <2>1, <2>2 DEF Dijo
    <3> QED BY <3>1 DEF InvLecturas, Lectura
  <2>3. CASE m \notin ToSet(respuesta[v])
    <3>1. v = w /\ m \in ToSet(f)
      BY <1>2, <2>1, <2>3
    <3> QED BY <1>4, <2>1, <3>1
  <2> QED BY <2>2, <2>3
<1>9. ASSUME NEW v \in Workers, Cerrada(v, x)' PROVE v = w
  <2>1. PICK op \in Cierres : Dijo(v, op, x)'
    BY <1>9 DEF Cerrada
  <2>2. CASE v # w
    <3>1. Dijo(v, op, x)
      BY <1>2, <2>1, <2>2 DEF Dijo
    <3> QED BY <1>4, <3>1
  <2> QED BY <2>2
<1>10. Lectura(x)'
  BY <1>3, <1>4, <1>6, <1>8, <1>9 DEF Lectura
<1> QED BY <1>5, <1>7, <1>10 DEF InvLecturas
\* The steps of a Worker.
LEMMA LecturasDeWorker ==
  ASSUME InvOrden, InvLecturas, NEW w \in Workers, UNCHANGED master_vars,
         HiloEjecutar(w) \/ HiloInterrupciones(w) \/ MorirWorker(w)
  PROVE  InvLecturas'
<1>1. TypeOK
  BY DEF InvOrden
<1>2. /\ respuesta \in [Workers -> Seq(Mensaje)] /\ despacho \in [Workers -> Seq(Asignacion)]
      /\ fase \in [Workers -> {"recibir", "liberar", "ciclo", "chequear"}] /\ ejec \in [Workers -> Pcb]
  BY <1>1 DEF TypeOK, RedTypeOK, InterpreteTypeOK
<1>3. UNCHANGED query_en_worker
  BY DEF master_vars, listas
<1>4. CASE LiberarNombre(w) \/ AbandonarCiclo(w) \/ HiloInterrupciones(w) \/ MorirWorker(w)
           \/ (ChequearInterrupcion(w) /\ ~hay_interrupcion[w])
  <2>1. UNCHANGED respuesta /\ UNCHANGED ejec
    BY <1>4 DEF LiberarNombre, AbandonarCiclo, HiloInterrupciones, LeerInterrupcion, MarcarInterrupcion,
                MorirWorker, ChequearInterrupcion, red, worker_vars
  <2>2. UNCHANGED despacho \/ despacho' = [despacho EXCEPT ![w] = <<>>]
    BY <1>4 DEF LiberarNombre, AbandonarCiclo, HiloInterrupciones, LeerInterrupcion, MarcarInterrupcion,
                MorirWorker, Morir, ChequearInterrupcion, red
  <2>3. \A v \in Workers : fase'[v] \in {"ciclo", "chequear"} => fase[v] \in {"ciclo", "chequear"}
    <3>1. \/ UNCHANGED fase
          \/ fase' = [fase EXCEPT ![w] = "recibir"]
          \/ fase[w] = "chequear" /\ fase' = [fase EXCEPT ![w] = "ciclo"]
      BY <1>4 DEF LiberarNombre, AbandonarCiclo, HiloInterrupciones, LeerInterrupcion, MarcarInterrupcion,
                  MorirWorker, ChequearInterrupcion, Pasa, Corre, worker_vars
    <3> QED BY <1>2, <3>1
  <2>4. \A v \in Workers : \A a : a \in ToSet(despacho'[v]) => a \in ToSet(despacho[v])
    <3>1. ToSet(<<>>) = {}
      BY DEF ToSet
    <3> QED BY <1>2, <2>2, <3>1
  <2>5. \A q : SinNovedad(q)
    BY <2>1, <2>3, <2>4 DEF SinNovedad, Asignada, Trabaja, Dijo
  <2> QED BY <1>3, <2>1, <2>5, LecturaMenor DEF InvLecturas
<1>5. CASE RecibirPath(w) \/ RecibirSinArchivo(w)
  <2>1. PICK x : x = Head(despacho[w]).query
    OBVIOUS
  <2>2. /\ despacho[w] # <<>> /\ despacho' = [despacho EXCEPT ![w] = Tail(@)]
        /\ Asignada(w, x)
    <3>1. despacho[w] # <<>> /\ despacho' = [despacho EXCEPT ![w] = Tail(@)]
      BY <1>5 DEF RecibirPath, RecibirSinArchivo
    <3>2. Head(despacho[w]) \in ToSet(despacho[w])
      BY <1>2, <3>1, SinElPrimero
    <3> QED BY <2>1, <3>1, <3>2 DEF Asignada
  <2>3. \A v \in Workers : \A a : a \in ToSet(despacho'[v]) => a \in ToSet(despacho[v])
    BY <1>2, <2>2, SinElPrimero
  <2>4. \A v \in Workers : ~Dijo(v, "READ_RESULT", x)
    <3>1. x \in Queries
      <4>1. Head(despacho[w]) \in Asignacion
        BY <1>2, <2>2
      <4> QED BY <2>1, <4>1 DEF Asignacion
    <3> QED BY <2>2, <3>1 DEF InvLecturas, Lectura
  <2>5. CASE RecibirPath(w)
    <3>1. UNCHANGED respuesta
      BY <2>5 DEF RecibirPath
    <3>2. \A v \in Workers : v # w => fase'[v] = fase[v] /\ ejec'[v] = ejec[v]
      BY <1>2, <2>5 DEF RecibirPath, Pasa
    <3>3. ejec'[w].query = x
      BY <1>2, <2>1, <2>5 DEF RecibirPath
    <3>4. ASSUME NEW q \in Queries PROVE Lectura(q)'
      <4>1. CASE q = x
        BY <2>4, <3>1, <4>1 DEF Lectura, Dijo
      <4>2. CASE q # x
        <5>1. SinNovedad(q)
          BY <2>3, <3>1, <3>2, <3>3, <4>2 DEF SinNovedad, Asignada, Trabaja, Dijo
        <5> QED BY <1>3, <5>1, LecturaMenor DEF InvLecturas
      <4> QED BY <4>1, <4>2
    <3> QED BY <3>1, <3>4 DEF InvLecturas
  <2>6. CASE RecibirSinArchivo(w)
    <3>1. PICK m : /\ m = [op |-> "ERROR_QUERY_NO_ENCONTRADA", query |-> Head(despacho[w]).query, pc |-> 0]
                   /\ respuesta' = [respuesta EXCEPT ![w] = Append(respuesta[w], m)]
      BY <2>6 DEF RecibirSinArchivo
    <3>2. m \in Mensaje /\ m.op \notin Cierres \cup {"READ_RESULT"}
      <4>1. Head(despacho[w]) \in Asignacion
        BY <1>2, <2>2
      <4> QED BY <3>1, <4>1 DEF Asignacion, Mensaje, Operaciones, Cierres
    <3>3. /\ <<m>> \in Seq(Mensaje) /\ ToSet(<<m>>) = {m}
          /\ Append(respuesta[w], m) = respuesta[w] \o <<m>>
      BY <1>2, <3>2 DEF ToSet
    <3>4. LeidasAntes(respuesta[w] \o <<m>>)
      BY <1>2, <3>2, <3>3, LeidasMas DEF InvLecturas
    <3>5. \A v \in Workers : LeidasAntes(respuesta'[v])
      BY <1>2, <3>1, <3>3, <3>4 DEF InvLecturas
    <3>6. \A v \in Workers : \A y : y \in ToSet(respuesta'[v]) => y \in ToSet(respuesta[v]) \/ y = m
      BY <1>2, <3>1, <3>2, ConUnoMas
    <3>7. \A v \in Workers : \A q : Trabaja(v, q)' => Trabaja(v, q)
      BY <1>2, <2>6 DEF RecibirSinArchivo, Pasa, Trabaja
    <3>8. \A q : SinNovedad(q)
      BY <2>3, <3>2, <3>6, <3>7 DEF SinNovedad, Asignada, Dijo
    <3> QED BY <1>3, <3>5, <3>8, LecturaMenor DEF InvLecturas
  <2> QED BY <1>5, <2>5, <2>6
<1>6. ASSUME fase[w] \in {"ciclo", "chequear"}, NEW ops \in Seq(Operaciones), NEW pc \in Nat,
             Responder(w, ops, pc), UNCHANGED despacho,
             \A v \in Workers : ejec'[v].query = ejec[v].query,
             \E p : Pasa(w, p),
             \/ \A i \in 1..Len(ops) : ops[i] # "READ_RESULT"
             \/ ~error_storage[w] /\ \A i \in 1..Len(ops) : ops[i] \notin Cierres
      PROVE  InvLecturas'
  <2>1. PICK x \in Queries : x = ejec[w].query /\ Trabaja(w, x)
    BY <1>1, <1>6, SuQuery
  <2>2. PICK f \in Seq(Mensaje) :
            /\ respuesta' = [respuesta EXCEPT ![w] = respuesta[w] \o f]
            /\ \A m \in ToSet(f) : m.query = ejec[w].query /\ \E i \in 1..Len(ops) : m.op = ops[i]
    BY <1>1, <1>6, <2>1, ResponderVarios
  <2>3. \A v \in Workers : fase'[v] \in {"ciclo", "chequear"} => fase[v] \in {"ciclo", "chequear"}
    BY <1>2, <1>6 DEF Pasa
  <2>4. \A v \in Workers : \A q \in Queries : Trabaja(v, q)' => Trabaja(v, q)
    BY <1>6, <2>3 DEF Trabaja
  <2>5. \A m \in ToSet(f) : m.query = x
    BY <2>1, <2>2
  <2>6. \/ \A m \in ToSet(f) : m.op # "READ_RESULT"
        \/ ~error_storage[w] /\ \A m \in ToSet(f) : m.op \notin Cierres
    BY <1>6, <2>2
  <2> QED BY <1>6, <2>1, <2>2, <2>4, <2>5, <2>6, LecturasDeRespuesta
<1>7. CASE Terminar(w)
  <2>1. \E op \in {"QUERY_END", "ERROR"} : Responder(w, <<op>>, 0)
    BY <1>7 DEF Terminar
  <2>2. PICK op \in {"QUERY_END", "ERROR"} : Responder(w, <<op>>, 0)
    BY <2>1
  <2>3. /\ <<op>> \in Seq(Operaciones) /\ \A i \in 1..Len(<<op>>) : <<op>>[i] # "READ_RESULT"
        /\ 0 \in Nat
    BY DEF Operaciones
  <2>4. PICK i : Decodifica(w, i)
    BY <1>7 DEF Terminar
  <2>5. fase[w] = "ciclo" /\ \A v \in Workers : ejec'[v].query = ejec[v].query
    BY <1>1, <2>4, DecodificaTipo DEF Decodifica, Corre
  <2>6. UNCHANGED despacho /\ Pasa(w, "recibir")
    BY <1>7 DEF Terminar
  <2> QED BY <1>6, <2>2, <2>3, <2>5, <2>6
<1>8. CASE ChequearInterrupcion(w) /\ hay_interrupcion[w]
  <2>1. PICK ops : /\ ops = IF query_desconectado[w] THEN <<"QUERY_DESCONECTADO">> ELSE <<"PC_UPDATE">>
                   /\ Responder(w, ops, ejec[w].pc)
    BY <1>8 DEF ChequearInterrupcion
  <2>2. ops \in Seq(Operaciones) /\ \A i \in 1..Len(ops) : ops[i] # "READ_RESULT"
    <3>1. ops = <<"QUERY_DESCONECTADO">> \/ ops = <<"PC_UPDATE">>
      BY <2>1
    <3>2. ops \in Seq(Operaciones)
      BY <3>1, PaquetesTipo
    <3>3. \A i \in 1..Len(ops) : ops[i] # "READ_RESULT"
      BY <3>1
    <3> QED BY <3>2, <3>3
  <2>3. ejec[w].pc \in Nat
    BY <1>2 DEF Pcb
  <2>4. fase[w] = "chequear" /\ UNCHANGED <<despacho, ejec>> /\ Pasa(w, "recibir")
    BY <1>8 DEF ChequearInterrupcion, Corre
  <2> QED BY <1>6, <2>1, <2>2, <2>3, <2>4
<1>9. ASSUME NEW i \in {"STORAGE", "READ", "COMMIT"}, Ejecutar(w, i) PROVE InvLecturas'
  <2>1. /\ Decodifica(w, i) /\ UNCHANGED despacho /\ Pasa(w, "chequear")
    BY <1>9 DEF Ejecutar
  <2>2. /\ fase[w] = "ciclo" /\ ~error_storage[w] /\ ejec'[w].pc \in Nat
        /\ \A v \in Workers : ejec'[v].query = ejec[v].query
    BY <1>1, <2>1, DecodificaTipo DEF Decodifica, Corre
  <2>3. \/ Responder(w, Exito(i), ejec'[w].pc)
        \/ \E f \in Fallos(i) : Responder(w, f, ejec'[w].pc)
    BY <1>9 DEF Ejecutar
  <2>4. CASE Responder(w, Exito(i), ejec'[w].pc)
    <3>1. Exito(i) \in Seq(Operaciones) /\ \A k \in 1..Len(Exito(i)) : Exito(i)[k] \notin Cierres
      BY PaquetesTipo DEF Exito, Cierres
    <3>2. PICK ops \in Seq(Operaciones) : ops = Exito(i) /\ \A k \in 1..Len(ops) : ops[k] \notin Cierres
      BY <3>1
    <3>3. PICK n \in Nat : n = ejec'[w].pc
      BY <2>2
    <3> QED BY <1>6, <2>1, <2>2, <2>4, <3>2, <3>3
  <2>5. ASSUME NEW f \in Fallos(i), Responder(w, f, ejec'[w].pc) PROVE InvLecturas'
    <3>1. f \in Seq(Operaciones) /\ \A k \in 1..Len(f) : f[k] # "READ_RESULT"
      <4>1. f = <<"ERROR">> \/ f = <<"ERROR", "ERROR">>
        BY DEF Fallos
      <4>2. f \in Seq(Operaciones)
        BY <4>1, PaquetesTipo
      <4>3. \A k \in 1..Len(f) : f[k] # "READ_RESULT"
        BY <4>1
      <4> QED BY <4>2, <4>3
    <3>2. PICK n \in Nat : n = ejec'[w].pc
      BY <2>2
    <3> QED BY <1>6, <2>1, <2>2, <2>5, <3>1, <3>2
  <2> QED BY <2>3, <2>4, <2>5
<1> QED BY <1>4, <1>5, <1>7, <1>8, <1>9 DEF HiloEjecutar

\* When the Master reads a READ_RESULT its query is in query_en_worker, whoever is preempted,
\* rejected, disconnected or dead: the case uses the query it finds without asking.
LEMMA LecturasSiempre == Spec => []InvLecturas
<1>1. Init => InvLecturas
  <2> SUFFICES ASSUME Init PROVE \A w \in Workers : respuesta[w] = <<>>
    <3>1. LeidasAntes(<<>>) /\ ToSet(<<>>) = {}
      BY DEF LeidasAntes, ToSet
    <3> QED BY <3>1 DEF InvLecturas, Lectura, Dijo
  <2> QED BY DEF Init, RedInit
<1>2. InvOrden /\ InvLecturas /\ [Next]_vars => InvLecturas'
  <2> SUFFICES ASSUME InvOrden, InvLecturas, [Next]_vars PROVE InvLecturas'
    OBVIOUS
  <2>1. query_en_worker \in Seq(Queries)
    BY DEF InvOrden, TypeOK, PlanificadorTypeOK, ListasOK
  <2>2. ASSUME NEW q \in Queries, CrearQuery(q) \/ HiloAlta(q) \/ HiloTimer(q) \/ HiloVigia(q),
               UNCHANGED worker_vars
        PROVE  InvLecturas'
    <3>1. CASE CrearQuery(q) \/ HiloAlta(q)
      <4>1. UNCHANGED <<despacho, respuesta, query_en_worker>>
        BY <3>1 DEF CrearQuery, HiloAlta, AsignarSocket, AsignarEstado, Encolar, CrearTimer, Chequear,
                    Desalojar, Publicar, listas, red
      <4> QED BY <2>2, <4>1, LecturasQuietas
    <3>2. CASE HiloTimer(q)
      <4>1. UNCHANGED <<despacho, respuesta, query_en_worker>>
        BY <3>2 DEF HiloTimer, Envejecer, Chequear, Desalojar, Releer, DespertarTimer, listas, red
      <4> QED BY <2>2, <4>1, LecturasQuietas
    <3>3. CASE HiloVigia(q)
      <4>1. UNCHANGED <<despacho, respuesta, query_en_worker>>
        BY <3>3 DEF HiloVigia, MirarSinNovedad, MirarDesconexion, VigiaCorriendo, Desalojar, VigiaLista,
                    VigiaQuitar, VigiaRobar, VigiaSalir, VigiaJoin, listas, red
      <4> QED BY <2>2, <4>1, LecturasQuietas
    <3> QED BY <2>2, <3>1, <3>2, <3>3
  <2>3. ASSUME NEW w \in Workers, IdentificarWorker(w) \/ HiloVigiaWorker(w), UNCHANGED worker_vars
        PROVE  InvLecturas'
    <3>1. UNCHANGED <<despacho, respuesta, query_en_worker>>
      BY <2>3 DEF IdentificarWorker, HiloVigiaWorker, AtenderInterrupcion, DetectarCaida,
                  DescontarWorker, AvisarCaida, ResponderCaida, RetirarWorker, listas, red
    <3> QED BY <2>3, <3>1, LecturasQuietas
  <2>4. CASE \/ UNCHANGED vars \/ (Caer /\ UNCHANGED worker_vars)
             \/ (\E x \in Queries : IrseQC(x) \/ TerminarQC(x)) /\ UNCHANGED worker_vars
    <3>1. UNCHANGED <<despacho, respuesta, query_en_worker, worker_vars>>
      BY <2>4 DEF vars, master_vars, Caer, IrseQC, TerminarQC, listas, red
    <3> QED BY <3>1, LecturasQuietas
  <2>5. CASE InterpreteNext /\ UNCHANGED master_vars
    BY <2>5, LecturasDeWorker DEF InterpreteNext
  <2> QED BY <2>2, <2>3, <2>4, <2>5, LecturasDeAtencion DEF Next, PlanificadorNext
<1> QED BY <1>1, <1>2, OrdenSiempre, PTL DEF Spec
-------------------------------------------------------------------------------
(* The Workers and the threads of the Master that look for one *)

\* No Worker died and no Query Control left before its answer.
SinPerdidas == SinCaidas /\ \A q \in Queries : conexion[q] = "abierta" \/ finales[q] # <<>>

\* Nor, under PRIORIDADES, did a watcher see one leave: an answered query may still be in
\* use by its other threads.
SinBajas == SinPerdidas /\ (Prioridades => \A q \in Queries : ~Vista(q))

\* The variable query of a Worker thread is NULL but for the moves between the lists.
Libre(w) == enMano[w] # Ninguna => hiloWorker[w] \in {"marcar", "registrar", "reencolar", "publicar"}
InvLibre == \A w \in Workers : Libre(w)

\* Whoever is served, or has a query assigned, is in lista_workers.
Listados == /\ \A w \in Workers : hiloWorker[w] # "no" => w \in lista_workers
            /\ \A q \in Queries : En(q, query_en_worker) => info[q].worker \in lista_workers

\* A thread that will interrupt a Worker finds it, and it preempts for a higher priority.
Apunta(t, q) == hilo[t][q] = "desalojar" => t # "vigia" /\ Prioridades /\ objetivo[t][q] \in lista_workers
SinTimer(q) == ~Prioridades => /\ hilo["alta"][q] \notin {"timer", "chequear", "desalojar"}
                               /\ hilo["timer"][q] = "no"
Apuntan(q) == hilo["alta"][q] \in PasosAlta /\ SinTimer(q) /\ \A t \in Hilos : Apunta(t, q)

\* No answer of w is op.
Muda(w, op) == \A m \in ToSet(respuesta[w]) : m.op # op

\* No Worker is told that a query left, and without priorities it is told nothing.
Callada(w) == /\ "QUERY_DESCONECTADO" \notin ToSet(interrupcion[w]) /\ ~query_desconectado[w]
              /\ Muda(w, "QUERY_DESCONECTADO")
SinInterrumpir(w) == ~Prioridades => /\ interrupcion[w] = <<>> /\ hiloInterrupcion[w] = "leer"
                                     /\ ~hay_interrupcion[w] /\ Muda(w, "PC_UPDATE")
                                     /\ hiloWorker[w] \notin {"reencolar", "publicar"}

EnRegla == /\ Listados
           /\ \A q \in Queries : Apuntan(q)
           /\ \A w \in Workers : Callada(w) /\ SinInterrumpir(w)
InvEnRegla == SinPerdidas => EnRegla
InvEnPie == SinBajas => NuncaCae

LEMMA ConexionAbierta ==
  ASSUME TypeOK, [Next]_vars, NEW q \in Queries, conexion'[q] = "abierta"
  PROVE  conexion[q] = "abierta"
<1>1. conexion \in [Queries -> {"abierta", "fin", "reset", "cerrada"}]
  BY DEF TypeOK, PlanificadorTypeOK, HaciaQCOK
<1>2. ASSUME NEW x \in Queries, CrearQuery(x) \/ HiloAlta(x) \/ HiloTimer(x)
      PROVE  UNCHANGED conexion
  BY <1>2 DEF CrearQuery, HiloAlta, AsignarSocket, AsignarEstado, Encolar, CrearTimer,
              Chequear, Desalojar, Publicar, HiloTimer, Envejecer, Releer, DespertarTimer, haciaQC
<1>3. ASSUME NEW x \in Queries, HiloVigia(x) \/ IrseQC(x) \/ TerminarQC(x)
      PROVE  UNCHANGED conexion \/ \E c \in {"fin", "cerrada"} : conexion' = [conexion EXCEPT ![x] = c]
  BY <1>3 DEF HiloVigia, MirarSinNovedad, MirarDesconexion, VigiaCorriendo, Desalojar, VigiaLista,
              VigiaQuitar, VigiaRobar, VigiaSalir, VigiaJoin, IrseQC, TerminarQC, haciaQC
<1>4. ASSUME NEW w \in Workers, IdentificarWorker(w) \/ HiloWorker(w) \/ HiloVigiaWorker(w)
      PROVE  UNCHANGED conexion \/ \E x : Enviar(x) \/ EnviarYCerrar(x)
  <2>1. CASE HiloWorker(w)
    BY <2>1 DEF HiloWorker, EsperarQuery, ValidarWorker, TomarQuery, MarcarRunning, RegistrarYEnviar,
                RecibirPaquete, RecibirRead, RecibirEnd, RecibirError, AbandonarWorker, RecibirPC,
                Reencolar, PublicarDesalojada, RecibirDesconectado, RecibirNulo, haciaQC
  <2>2. CASE IdentificarWorker(w) \/ HiloVigiaWorker(w)
    BY <2>2 DEF IdentificarWorker, HiloVigiaWorker, AtenderInterrupcion, DetectarCaida,
                DescontarWorker, AvisarCaida, ResponderCaida, RetirarWorker, haciaQC
  <2> QED BY <1>4, <2>1, <2>2
<1>5. CASE Caer \/ UNCHANGED master_vars \/ UNCHANGED vars
  BY <1>5 DEF Caer, vars, master_vars, haciaQC
<1>6. ASSUME NEW x, NEW c \in {"fin", "cerrada"}, conexion' = [conexion EXCEPT ![x] = c]
      PROVE  conexion[q] = "abierta"
  BY <1>1, <1>6
<1>7. ASSUME NEW x, Enviar(x) \/ EnviarYCerrar(x) PROVE conexion[q] = "abierta"
  BY <1>1, <1>7 DEF Enviar, EnviarYCerrar
<1>8. ASSUME UNCHANGED conexion PROVE conexion[q] = "abierta"
  BY <1>8
<1> QED BY <1>2, <1>3, <1>4, <1>5, <1>6, <1>7, <1>8 DEF Next, PlanificadorNext

\* Nothing undoes a departure.
LEMMA PerdidasAntes ==
  ASSUME TypeOK, VigiaFiel, [Next]_vars, SinPerdidas'
  PROVE  SinPerdidas
<1>1. SinCaidas
  BY VigiaFielSigue DEF SinPerdidas
<1>2. ASSUME NEW q \in Queries PROVE conexion[q] = "abierta" \/ finales[q] # <<>>
  <2>1. conexion'[q] = "abierta" \/ finales'[q] # <<>>
    BY DEF SinPerdidas
  <2>2. CASE conexion'[q] = "abierta"
    BY <2>2, ConexionAbierta
  <2>3. CASE finales'[q] # <<>> /\ finales'[q] = finales[q]
    BY <2>3
  <2>4. CASE finales'[q] # finales[q]
    BY <2>4, ExitAlContestar
  <2> QED BY <2>1, <2>2, <2>3, <2>4
<1> QED BY <1>1, <1>2 DEF SinPerdidas

LEMMA BajasAntes ==
  ASSUME TypeOK, VigiaFiel, InvVigias, [Next]_vars, SinBajas'
  PROVE  SinBajas
<1>1. Prioridades => \A q \in Queries : ~Vista(q)
  <2>1. \A q \in Queries : Vista(q) => Vista(q)'
    BY VigiaSigue
  <2>2. Prioridades => \A q \in Queries : ~(Vista(q)')
    BY DEF SinBajas, Prioridades
  <2> QED BY <2>1, <2>2
<1> QED BY <1>1, PerdidasAntes DEF SinBajas

LEMMA LibresSiguen == TypeOK /\ InvLibre /\ [Next]_vars => InvLibre'
<1> SUFFICES ASSUME TypeOK, InvLibre, [Next]_vars, NEW w \in Workers PROVE Libre(w)'
  BY DEF InvLibre
<1>1. /\ hiloWorker \in [Workers -> PasosWorker] /\ enMano \in [Workers -> Queries \cup {Ninguna}]
      /\ Libre(w)
  BY DEF TypeOK, PlanificadorTypeOK, AtencionOK, InvLibre
<1>2. CASE \/ \E x \in Queries : CrearQuery(x) \/ HiloAlta(x) \/ HiloTimer(x)
           \/ \E x \in Queries : HiloVigia(x) \/ IrseQC(x) \/ TerminarQC(x)
           \/ Caer \/ UNCHANGED master_vars \/ UNCHANGED vars
  <2>1. ASSUME NEW x \in Queries, CrearQuery(x) \/ HiloAlta(x) \/ HiloTimer(x) PROVE UNCHANGED atencion
    BY <2>1 DEF CrearQuery, HiloAlta, AsignarSocket, AsignarEstado, Encolar, CrearTimer,
                Chequear, Desalojar, Publicar, HiloTimer, Envejecer, Releer, DespertarTimer
  <2>2. ASSUME NEW x \in Queries, HiloVigia(x) \/ IrseQC(x) \/ TerminarQC(x) PROVE UNCHANGED atencion
    BY <2>2 DEF HiloVigia, MirarSinNovedad, MirarDesconexion, VigiaCorriendo, Desalojar, VigiaLista,
                VigiaQuitar, VigiaRobar, VigiaSalir, VigiaJoin, IrseQC, TerminarQC
  <2>3. UNCHANGED atencion
    BY <1>2, <2>1, <2>2 DEF Caer, vars, master_vars
  <2> QED BY <1>1, <2>3 DEF Libre, atencion
<1>3. ASSUME NEW v \in Workers, IdentificarWorker(v) \/ HiloVigiaWorker(v) PROVE Libre(w)'
  <2>1. UNCHANGED enMano
    BY <1>3 DEF IdentificarWorker, HiloVigiaWorker, AtenderInterrupcion, DetectarCaida,
                DescontarWorker, AvisarCaida, ResponderCaida, RetirarWorker, atencion
  <2>2. hiloWorker'[w] = hiloWorker[w] \/ hiloWorker[w] = "no"
    BY <1>1, <1>3 DEF IdentificarWorker, HiloVigiaWorker, AtenderInterrupcion, DetectarCaida,
                      DescontarWorker, AvisarCaida, ResponderCaida, RetirarWorker, atencion, Sigue
  <2> QED BY <1>1, <2>1, <2>2 DEF Libre
<1>4. ASSUME NEW v \in Workers, HiloWorker(v) PROVE Libre(w)'
  <2>1. CASE MarcarRunning(v) \/ Reencolar(v)
    BY <1>1, <2>1 DEF MarcarRunning, Reencolar, Sigue, Libre
  <2>2. CASE RegistrarYEnviar(v) \/ PublicarDesalojada(v)
    BY <1>1, <2>2 DEF RegistrarYEnviar, PublicarDesalojada, Sigue, Libre
  <2>3. CASE TomarQuery(v) \/ RecibirPC(v)
    BY <1>1, <2>3 DEF TomarQuery, RecibirPC, Sigue, Recibe, Libre
  <2>4. CASE EsperarQuery(v) \/ ValidarWorker(v) \/ RecibirPaquete(v) \/ RecibirNulo(v)
    BY <1>1, <2>4 DEF EsperarQuery, ValidarWorker, RecibirPaquete, RecibirNulo, Nulo, Sigue, Libre
  <2>5. CASE RecibirRead(v) \/ RecibirEnd(v) \/ RecibirError(v) \/ AbandonarWorker(v) \/ RecibirDesconectado(v)
    BY <1>1, <2>5 DEF RecibirRead, RecibirEnd, RecibirError, AbandonarWorker, RecibirDesconectado,
                      Recibe, Sigue, Libre
  <2> QED BY <1>4, <2>1, <2>2, <2>3, <2>4, <2>5 DEF HiloWorker
<1> QED BY <1>2, <1>3, <1>4 DEF Next, PlanificadorNext

LEMMA LibresSiempre == Spec => []InvLibre
<1>1. Init => InvLibre
  BY DEF Init, PlanificadorInit, InvLibre, Libre
<1> QED BY <1>1, LibresSiguen, TipoCorrecto, PTL DEF Spec

\* While no Worker dies none leaves lista_workers, and who is served is there.
LEMMA ListaCrece ==
  ASSUME TypeOK, VigiaFiel, SinCaidas, [Next]_vars, NEW w \in Workers
  PROVE  /\ lista_workers \subseteq lista_workers'
         /\ hiloWorker'[w] # "no" => hiloWorker[w] # "no" \/ w \in lista_workers'
<1>1. hiloWorker \in [Workers -> PasosWorker]
  BY DEF TypeOK, PlanificadorTypeOK, AtencionOK
<1>2. ASSUME NEW x \in Queries, CrearQuery(x) \/ HiloAlta(x) \/ HiloTimer(x)
      PROVE  UNCHANGED <<lista_workers, hiloWorker>>
  BY <1>2 DEF CrearQuery, HiloAlta, AsignarSocket, AsignarEstado, Encolar, CrearTimer, Chequear,
              Desalojar, Publicar, HiloTimer, Envejecer, Releer, DespertarTimer, deWorkers, atencion
<1>3. ASSUME NEW x \in Queries, HiloVigia(x) \/ IrseQC(x) \/ TerminarQC(x)
      PROVE  UNCHANGED <<lista_workers, hiloWorker>>
  BY <1>3 DEF HiloVigia, MirarSinNovedad, MirarDesconexion, VigiaCorriendo, Desalojar, VigiaLista,
              VigiaQuitar, VigiaRobar, VigiaSalir, VigiaJoin, IrseQC, TerminarQC, deWorkers, atencion
<1>4. CASE Caer \/ UNCHANGED master_vars \/ UNCHANGED vars
  BY <1>4 DEF Caer, vars, master_vars, deWorkers, atencion
<1>5. ASSUME NEW v \in Workers, IdentificarWorker(v)
      PROVE  /\ lista_workers \subseteq lista_workers'
             /\ hiloWorker'[w] # "no" => hiloWorker[w] # "no" \/ w \in lista_workers'
  BY <1>1, <1>5 DEF IdentificarWorker, Sigue
<1>6. ASSUME NEW v \in Workers, HiloVigiaWorker(v)
      PROVE  UNCHANGED <<lista_workers, hiloWorker>>
  BY <1>6 DEF HiloVigiaWorker, AtenderInterrupcion, DetectarCaida, DescontarWorker, AvisarCaida,
              ResponderCaida, RetirarWorker, VigiaFiel, SinCaidas, atencion
<1>7. ASSUME NEW v \in Workers, HiloWorker(v)
      PROVE  UNCHANGED lista_workers /\ \E p : Sigue(v, p) /\ hiloWorker[v] # "no"
  BY <1>7 DEF HiloWorker, EsperarQuery, ValidarWorker, TomarQuery, MarcarRunning, RegistrarYEnviar,
              RecibirPaquete, RecibirRead, RecibirEnd, RecibirError, AbandonarWorker, RecibirPC,
              Reencolar, PublicarDesalojada, RecibirDesconectado, RecibirNulo, Nulo, Recibe, deWorkers
<1>8. ASSUME NEW v \in Workers, HiloWorker(v) PROVE hiloWorker'[w] # "no" => hiloWorker[w] # "no"
  BY <1>1, <1>7, <1>8 DEF Sigue
<1> QED BY <1>2, <1>3, <1>4, <1>5, <1>6, <1>7, <1>8 DEF Next, PlanificadorNext
\* A field of a t_query other than idWorker is assigned.
CambiaOtro(x, y) == \/ info' = [info EXCEPT ![x].estado = y]
                    \/ info' = [info EXCEPT ![x].pc = y]
                    \/ info' = [info EXCEPT ![x].prioridad = y]
                    \/ info' = [info EXCEPT ![x].alive = y]
                    \/ info' = [info EXCEPT ![x].alive = TRUE, ![x].prioridad = y]
                    \/ info' = [info EXCEPT ![x].estado = "READY", ![x].pc = y]

LEMMA MismoWorker ==
  ASSUME info \in [Queries -> Info], NEW q \in Queries, NEW x, NEW y, CambiaOtro(x, y)
  PROVE  info'[q].worker = info[q].worker
<1>1. CASE x # q
  BY <1>1 DEF CambiaOtro
<1>2. CASE x = q
  BY <1>2 DEF CambiaOtro, Info
<1> QED BY <1>1, <1>2

\* idWorker is assigned when the query joins query_en_worker, and only then.
LEMMA AsignadaAntes ==
  ASSUME TypeOK, UnSoloLugar, [Next]_vars, NEW q \in Queries, En(q, query_en_worker)',
         ~(En(q, query_en_worker) /\ info'[q].worker = info[q].worker)
  PROVE  \E w \in Workers : hiloWorker[w] # "no" /\ info'[q].worker = w
<1>1. /\ info \in [Queries -> Info] /\ query_en_worker \in Seq(Queries) /\ SinRepetidos(query_en_worker)
  BY DEF TypeOK, PlanificadorTypeOK, DeQueriesOK, ListasOK, UnSoloLugar
<1>2. ASSUME NEW x, NEW y, CambiaOtro(x, y) PROVE info'[q].worker = info[q].worker
  BY <1>1, <1>2, MismoWorker
<1>3. ASSUME NEW x \in Queries, CrearQuery(x) \/ HiloAlta(x)
      PROVE  UNCHANGED query_en_worker /\ info'[q].worker = info[q].worker
  <2>1. UNCHANGED query_en_worker
    BY <1>3 DEF CrearQuery, HiloAlta, AsignarSocket, AsignarEstado, Encolar, CrearTimer,
                Chequear, Desalojar, Publicar, listas
  <2>2. UNCHANGED info \/ \E y : CambiaOtro(x, y)
    BY <1>3 DEF CrearQuery, HiloAlta, AsignarSocket, AsignarEstado, Encolar, CrearTimer,
                Chequear, Desalojar, Publicar, CambiaOtro
  <2> QED BY <1>2, <2>1, <2>2
<1>4. ASSUME NEW x \in Queries, HiloTimer(x) \/ HiloVigia(x)
      PROVE  UNCHANGED query_en_worker /\ info'[q].worker = info[q].worker
  <2>1. UNCHANGED query_en_worker
    BY <1>4 DEF HiloTimer, Envejecer, Chequear, Desalojar, Releer, DespertarTimer, HiloVigia,
                MirarSinNovedad, MirarDesconexion, VigiaCorriendo, VigiaLista,
                VigiaQuitar, VigiaRobar, VigiaSalir, VigiaJoin, listas
  <2>2. UNCHANGED info \/ \E y : CambiaOtro(x, y)
    <3>1. CASE HiloTimer(x)
      BY <3>1 DEF HiloTimer, Envejecer, Chequear, Desalojar, Releer, DespertarTimer, CambiaOtro
    <3>2. CASE HiloVigia(x)
      BY <3>2 DEF HiloVigia, MirarSinNovedad, MirarDesconexion, VigiaCorriendo, Desalojar, VigiaLista,
                  VigiaQuitar, VigiaRobar, VigiaSalir, VigiaJoin, CambiaOtro
    <3> QED BY <1>4, <3>1, <3>2
  <2> QED BY <1>2, <2>1, <2>2
<1>5. ASSUME \/ \E x \in Queries : IrseQC(x) \/ TerminarQC(x)
             \/ Caer \/ UNCHANGED master_vars \/ UNCHANGED vars
      PROVE  UNCHANGED query_en_worker /\ info'[q].worker = info[q].worker
  BY <1>5 DEF IrseQC, TerminarQC, Caer, vars, master_vars, listas, deQueries
<1>6. ASSUME NEW w \in Workers, IdentificarWorker(w) \/ HiloVigiaWorker(w)
      PROVE  UNCHANGED query_en_worker /\ info'[q].worker = info[q].worker
  <2>1. UNCHANGED query_en_worker
    BY <1>6 DEF IdentificarWorker, HiloVigiaWorker, AtenderInterrupcion, DetectarCaida, DescontarWorker,
                AvisarCaida, ResponderCaida, RetirarWorker, listas
  <2>2. UNCHANGED info \/ \E x, y : CambiaOtro(x, y)
    BY <1>6 DEF IdentificarWorker, HiloVigiaWorker, AtenderInterrupcion, DetectarCaida, DescontarWorker,
                AvisarCaida, ResponderCaida, RetirarWorker, deQueries, CambiaOtro
  <2> QED BY <1>2, <2>1, <2>2
<1>7. ASSUME NEW w \in Workers, HiloWorker(w), ~RegistrarYEnviar(w)
      PROVE  En(q, query_en_worker) /\ info'[q].worker = info[q].worker
  <2>1. UNCHANGED query_en_worker \/ \E x : EliminarPorId(query_en_worker, x, query_en_worker')
    BY <1>7 DEF HiloWorker, EsperarQuery, ValidarWorker, TomarQuery, MarcarRunning, RecibirPaquete,
                RecibirRead, RecibirEnd, RecibirError, AbandonarWorker, RecibirPC,
                Reencolar, PublicarDesalojada, RecibirDesconectado, RecibirNulo, listas
  <2>2. UNCHANGED info \/ \E x, y : CambiaOtro(x, y)
    BY <1>7 DEF HiloWorker, EsperarQuery, ValidarWorker, TomarQuery, MarcarRunning, RecibirPaquete,
                RecibirRead, RecibirEnd, RecibirError, AbandonarWorker, RecibirPC,
                Reencolar, PublicarDesalojada, RecibirDesconectado, RecibirNulo, deQueries, CambiaOtro
  <2>3. En(q, query_en_worker)
    BY <1>1, <2>1, Eliminar
  <2> QED BY <1>2, <2>2, <2>3
<1>8. ASSUME NEW w \in Workers, RegistrarYEnviar(w)
      PROVE  hiloWorker[w] # "no" /\ info'[q].worker = w
  <2>1. PICK x : x = enMano[w]
    OBVIOUS
  <2>2. x \in Queries
    BY <1>8, <2>1, EnManoEsQuery DEF RegistrarYEnviar, EnLaMano
  <2>3. info' = [info EXCEPT ![x].worker = w] /\ query_en_worker' = Append(query_en_worker, x)
    BY <1>8, <2>1 DEF RegistrarYEnviar
  <2>4. En(q, query_en_worker) \/ q = x
    BY <1>1, <2>2, <2>3, Agregar
  <2>5. q # x => info'[q] = info[q]
    BY <1>1, <2>3
  <2>6. q = x
    BY <2>4, <2>5
  <2>7. info'[q].worker = w
    BY <1>1, <2>3, <2>6 DEF Info
  <2> QED BY <1>8, <2>7 DEF RegistrarYEnviar
<1> QED BY <1>3, <1>4, <1>5, <1>6, <1>7, <1>8 DEF Next, PlanificadorNext

LEMMA ListadosSiguen ==
  ASSUME TypeOK, UnSoloLugar, VigiaFiel, SinCaidas, Listados, [Next]_vars
  PROVE  Listados'
<1>1. /\ lista_workers \subseteq lista_workers'
      /\ \A w \in Workers : hiloWorker'[w] # "no" => hiloWorker[w] # "no" \/ w \in lista_workers'
  <2>1. \A w \in Workers : /\ lista_workers \subseteq lista_workers'
                           /\ hiloWorker'[w] # "no" => hiloWorker[w] # "no" \/ w \in lista_workers'
    BY ListaCrece
  <2>2. CASE Workers = {}
    BY <2>2 DEF TypeOK, PlanificadorTypeOK, DeWorkersOK
  <2> QED BY <2>1, <2>2
<1>2. ASSUME NEW q \in Queries, En(q, query_en_worker)' PROVE info'[q].worker \in lista_workers'
  <2>1. CASE En(q, query_en_worker) /\ info'[q].worker = info[q].worker
    BY <1>1, <2>1 DEF Listados
  <2>2. CASE ~(En(q, query_en_worker) /\ info'[q].worker = info[q].worker)
    <3>1. \E w \in Workers : hiloWorker[w] # "no" /\ info'[q].worker = w
      BY <1>2, <2>2, AsignadaAntes
    <3> QED BY <1>1, <3>1 DEF Listados
  <2> QED BY <2>1, <2>2
<1> QED BY <1>1, <1>2 DEF Listados
\* A thread of a query goes to paso.
LEMMA ApuntanAlAvanzar ==
  ASSUME TypeOK, \A q \in Queries : Apuntan(q), NEW x \in Queries, NEW t \in Hilos, NEW paso,
         Avanza(t, x, paso), UNCHANGED lista_workers,
         \/ UNCHANGED objetivo
         \/ \E o \in Workers \cup {Ninguna} : objetivo' = [objetivo EXCEPT ![t][x] = o],
         paso = "desalojar" => t # "vigia" /\ Prioridades /\ objetivo'[t][x] \in lista_workers,
         Prioridades \/ (t = "alta" /\ paso \notin {"timer", "chequear", "desalojar"}) \/ t = "vigia",
         t = "alta" => paso \in PasosAlta,
         NEW q \in Queries
  PROVE  Apuntan(q)'
<1>1. /\ hilo \in [Hilos -> [Queries -> Pasos]]
      /\ objetivo \in [Hilos -> [Queries -> Workers \cup {Ninguna}]]
  BY DEF TypeOK, PlanificadorTypeOK, DeQueriesOK
<1>2. \A s \in Hilos : s # t \/ q # x => hilo'[s][q] = hilo[s][q] /\ objetivo'[s][q] = objetivo[s][q]
  BY <1>1 DEF Avanza
<1>3. hilo'[t][x] = paso
  BY <1>1 DEF Avanza
<1>4. SinTimer(q)'
  <2>1. SUFFICES ASSUME ~Prioridades
                 PROVE  /\ hilo'["alta"][q] \notin {"timer", "chequear", "desalojar"}
                        /\ hilo'["timer"][q] = "no"
    BY DEF SinTimer, Prioridades
  <2>2. /\ hilo["alta"][q] \notin {"timer", "chequear", "desalojar"} /\ hilo["timer"][q] = "no"
    BY <2>1 DEF Apuntan, SinTimer
  <2> QED BY <1>2, <1>3, <2>1, <2>2 DEF Hilos
<1>5. ASSUME NEW s \in Hilos PROVE Apunta(s, q)'
  <2>1. CASE s # t \/ q # x
    <3>1. Apunta(s, q)
      BY DEF Apuntan
    <3> QED BY <1>2, <2>1, <3>1 DEF Apunta, Prioridades
  <2>2. CASE s = t /\ q = x
    BY <1>3, <2>2 DEF Apunta, Prioridades
  <2> QED BY <2>1, <2>2
<1>6. hilo'["alta"][q] \in PasosAlta
  BY <1>2, <1>3 DEF Apuntan, Hilos
<1> QED BY <1>4, <1>5, <1>6 DEF Apuntan

\* Nothing happens to the threads of the queries.
LEMMA ApuntanQuietos ==
  ASSUME \A q \in Queries : Apuntan(q), UNCHANGED <<hilo, objetivo>>,
         lista_workers \subseteq lista_workers', NEW q \in Queries
  PROVE  Apuntan(q)'
<1>1. SinTimer(q)'
  BY DEF Apuntan, SinTimer, Prioridades
<1>2. \A t \in Hilos : Apunta(t, q)'
  BY DEF Apuntan, Apunta, Prioridades
<1>3. hilo'["alta"][q] \in PasosAlta
  BY DEF Apuntan
<1> QED BY <1>1, <1>2, <1>3 DEF Apuntan

\* chequeador_desalojo picks the Worker of an assigned query; realizar_desalojo finds it.
LEMMA ApuntanAlDesalojar ==
  ASSUME TypeOK, Listados, \A p \in Queries : Apuntan(p), NEW x \in Queries,
         NEW t \in {"alta", "timer"}, Chequear(t, x) \/ Desalojar(t, x), NEW q \in Queries
  PROVE  Apuntan(q)'
<1>1. t \in Hilos /\ t # "vigia" /\ Despues(t) # "desalojar" /\ UNCHANGED lista_workers
      /\ Despues(t) \notin {"timer", "chequear"}
      /\ "desalojar" \in PasosAlta /\ (t = "alta" => Despues(t) \in PasosAlta)
  BY DEF Hilos, Despues, Chequear, Desalojar, deWorkers, PasosAlta
<1>2. Prioridades
  <2>1. SinTimer(x)
    BY DEF Apuntan
  <2> QED BY <2>1 DEF SinTimer, Chequear, Desalojar
<1>3. /\ objetivo \in [Hilos -> [Queries -> Workers \cup {Ninguna}]] /\ query_en_worker \in Seq(Queries)
  BY DEF TypeOK, PlanificadorTypeOK, DeQueriesOK, ListasOK
<1>4. CASE \E w \in Workers \cup {Ninguna} :
              /\ DebeDesalojar(x, w)
              /\ objetivo' = [objetivo EXCEPT ![t][x] = w]
              /\ Avanza(t, x, "desalojar")
  <2>1. PICK w \in Workers \cup {Ninguna} : /\ DebeDesalojar(x, w)
                                            /\ objetivo' = [objetivo EXCEPT ![t][x] = w]
                                            /\ Avanza(t, x, "desalojar")
    BY <1>4
  <2>2. PICK i \in 1..Len(query_en_worker) : w = info[query_en_worker[i]].worker
    BY <2>1 DEF DebeDesalojar
  <2>3. query_en_worker[i] \in Queries /\ En(query_en_worker[i], query_en_worker)
    BY <1>3, <2>2 DEF En
  <2>4. w \in lista_workers
    BY <2>2, <2>3 DEF Listados
  <2>5. objetivo'[t][x] \in lista_workers
    BY <1>1, <1>3, <2>1, <2>4
  <2> QED BY <1>1, <1>2, <2>1, <2>5, ApuntanAlAvanzar
<1>5. CASE Avanza(t, x, Despues(t)) /\ UNCHANGED objetivo
  BY <1>1, <1>2, <1>5, ApuntanAlAvanzar
<1>6. CASE Desalojar(t, x)
  <2>1. Avanza(t, x, Despues(t)) /\ objetivo' = [objetivo EXCEPT ![t][x] = Ninguna]
    BY <1>6 DEF Desalojar
  <2> QED BY <1>1, <1>2, <2>1, ApuntanAlAvanzar
<1> QED BY <1>4, <1>5, <1>6 DEF Chequear

\* The watcher of an answered query finds it in EXIT, and interrupts nobody.
LEMMA ApuntanDeVigia ==
  ASSUME TypeOK, SinPerdidas, InvVigias, InvExit, \A p \in Queries : Apuntan(p), NEW x \in Queries,
         HiloVigia(x), NEW q \in Queries
  PROVE  Apuntan(q)'
<1>1. UNCHANGED lista_workers /\ "vigia" \in Hilos
  BY DEF HiloVigia, MirarSinNovedad, MirarDesconexion, VigiaCorriendo, Desalojar, VigiaLista,
         VigiaQuitar, VigiaRobar, VigiaSalir, VigiaJoin, deWorkers, Hilos
<1>2. ~Desalojar("vigia", x)
  <2>1. Apunta("vigia", x)
    BY <1>1 DEF Apuntan
  <2> QED BY <2>1 DEF Apunta, Desalojar
<1>3. PICK paso : /\ Avanza("vigia", x, paso)
                  /\ paso # "desalojar" /\ UNCHANGED objetivo
  <2>1. CASE VigiaCorriendo(x)
    <3>1. Vista(x) /\ conexion[x] = "cerrada"
      BY <2>1 DEF VigiaCorriendo, InvVigias, Vigia
    <3>2. finales[x] # <<>>
      BY <3>1 DEF SinPerdidas
    <3>3. info[x].estado = "EXIT"
      BY <3>2 DEF InvExit, EnExit, SinPerdidas
    <3> QED BY <2>1, <3>3 DEF VigiaCorriendo, Lee
  <2>2. CASE ~VigiaCorriendo(x)
    BY <1>2, <2>2 DEF HiloVigia, MirarSinNovedad, MirarDesconexion, VigiaLista,
                      VigiaQuitar, VigiaRobar, VigiaSalir, VigiaJoin
  <2> QED BY <2>1, <2>2
<1> QED BY <1>1, <1>3, ApuntanAlAvanzar
LEMMA ApuntanSiguen ==
  ASSUME TypeOK, SinPerdidas, VigiaFiel, InvVigias, InvExit, Listados, \A p \in Queries : Apuntan(p),
         [Next]_vars, NEW q \in Queries
  PROVE  Apuntan(q)'
<1>1. /\ hilo \in [Hilos -> [Queries -> Pasos]]
      /\ objetivo \in [Hilos -> [Queries -> Workers \cup {Ninguna}]]
  BY DEF TypeOK, PlanificadorTypeOK, DeQueriesOK
<1>2. ASSUME NEW x \in Queries, CrearQuery(x) PROVE Apuntan(q)'
  <2>1. UNCHANGED <<objetivo, lista_workers>>
    BY <1>2 DEF CrearQuery, deWorkers
  <2>2. /\ hilo'["alta"][q] \in {hilo["alta"][q], "socket"} /\ hilo'["timer"][q] = hilo["timer"][q]
        /\ hilo'["vigia"][q] \in {hilo["vigia"][q], "mirar", "fin"}
    BY <1>1, <1>2 DEF CrearQuery, Hilos
  <2>3. SinTimer(q)'
    BY <2>2 DEF Apuntan, SinTimer, Prioridades
  <2>4. ASSUME NEW t \in Hilos PROVE Apunta(t, q)'
    <3>1. hilo'[t][q] = "desalojar" => hilo[t][q] = "desalojar"
      BY <2>2 DEF Hilos
    <3>2. Apunta(t, q)
      BY DEF Apuntan
    <3> QED BY <2>1, <3>1, <3>2 DEF Apunta, Prioridades
  <2>5. hilo'["alta"][q] \in PasosAlta
    BY <2>2 DEF Apuntan, PasosAlta
  <2> QED BY <2>3, <2>4, <2>5 DEF Apuntan
<1>3. ASSUME NEW x \in Queries, HiloAlta(x) PROVE Apuntan(q)'
  <2>1. CASE Chequear("alta", x) \/ Desalojar("alta", x)
    BY <2>1, ApuntanAlDesalojar
  <2>2. CASE CrearTimer(x)
    <3>1. /\ UNCHANGED <<objetivo, lista_workers>> /\ hilo["alta"][x] = "timer"
          /\ hilo' = [hilo EXCEPT !["alta"][x] = "chequear", !["timer"][x] = "dormir"]
      BY <2>2 DEF CrearTimer, deWorkers
    <3>2. Prioridades
      BY <3>1 DEF Apuntan, SinTimer
    <3>3. \A t \in Hilos : hilo'[t][q] = "desalojar" => hilo[t][q] = "desalojar"
      BY <1>1, <3>1 DEF Hilos
    <3>4. \A t \in Hilos : Apunta(t, q)'
      BY <3>1, <3>3 DEF Apuntan, Apunta, Prioridades
    <3>5. SinTimer(q)'
      BY <3>2 DEF SinTimer, Prioridades
    <3>6. hilo'["alta"][q] \in {hilo["alta"][q], "chequear"}
      BY <1>1, <3>1 DEF Hilos
    <3>7. hilo'["alta"][q] \in PasosAlta
      BY <3>6 DEF Apuntan, PasosAlta
    <3> QED BY <3>4, <3>5, <3>7 DEF Apuntan
  <2>3. CASE AsignarSocket(x) \/ AsignarEstado(x) \/ Encolar(x) \/ Publicar(x)
    <3>1. PICK paso : /\ Avanza("alta", x, paso) /\ UNCHANGED <<objetivo, lista_workers>>
                      /\ paso # "desalojar"
                      /\ Prioridades \/ paso \notin {"timer", "chequear", "desalojar"}
                      /\ paso \in PasosAlta
      BY <2>3 DEF AsignarSocket, AsignarEstado, Encolar, Publicar, deWorkers, PasosAlta
    <3>2. "alta" \in Hilos
      BY DEF Hilos
    <3> QED BY <3>1, <3>2, ApuntanAlAvanzar
  <2> QED BY <1>3, <2>1, <2>2, <2>3 DEF HiloAlta
<1>4. ASSUME NEW x \in Queries, HiloTimer(x) PROVE Apuntan(q)'
  <2>1. CASE Chequear("timer", x) \/ Desalojar("timer", x)
    BY <2>1, ApuntanAlDesalojar
  <2>2. CASE Envejecer(x) \/ Releer(x) \/ DespertarTimer(x)
    <3>1. PICK paso : /\ Avanza("timer", x, paso) /\ UNCHANGED <<objetivo, lista_workers>>
                      /\ paso # "desalojar" /\ hilo["timer"][x] # "no"
      BY <2>2 DEF Envejecer, Releer, DespertarTimer, SiguienteTimer, deWorkers
    <3>2. Prioridades /\ "timer" \in Hilos
      BY <3>1 DEF Hilos, Apuntan, SinTimer
    <3> QED BY <3>1, <3>2, ApuntanAlAvanzar
  <2> QED BY <1>4, <2>1, <2>2 DEF HiloTimer
<1>5. ASSUME NEW x \in Queries, HiloVigia(x) PROVE Apuntan(q)'
  BY <1>5, ApuntanDeVigia
<1>6. CASE \/ \E w \in Workers : IdentificarWorker(w) \/ HiloVigiaWorker(w) \/ HiloWorker(w)
           \/ \E x \in Queries : IrseQC(x) \/ TerminarQC(x)
           \/ Caer \/ UNCHANGED master_vars \/ UNCHANGED vars
  <2>1. ASSUME NEW w \in Workers, HiloWorker(w) PROVE UNCHANGED <<hilo, objetivo>>
    BY <2>1 DEF HiloWorker, EsperarQuery, ValidarWorker, TomarQuery, MarcarRunning, RegistrarYEnviar,
                RecibirPaquete, RecibirRead, RecibirEnd, RecibirError, AbandonarWorker, RecibirPC,
                Reencolar, PublicarDesalojada, RecibirDesconectado, RecibirNulo, deQueries
  <2>2. UNCHANGED <<hilo, objetivo>>
    BY <1>6, <2>1 DEF IdentificarWorker, HiloVigiaWorker, AtenderInterrupcion, DetectarCaida,
                DescontarWorker, AvisarCaida, ResponderCaida, RetirarWorker, IrseQC, TerminarQC, Caer, vars,
                master_vars, deQueries
  <2>3. lista_workers \subseteq lista_workers'
    <3>1. \A w \in Workers : lista_workers \subseteq lista_workers'
      BY ListaCrece DEF SinPerdidas
    <3> QED BY <3>1 DEF TypeOK, PlanificadorTypeOK, DeWorkersOK
  <2> QED BY <2>2, <2>3, ApuntanQuietos
<1> QED BY <1>2, <1>3, <1>4, <1>5, <1>6 DEF Next, PlanificadorNext, InterpreteNext

-------------------------------------------------------------------------------
(* What the Workers are told and say *)

\* A Worker says that a query left or was preempted only when it finds itself interrupted.
LEMMA MudaSigue ==
  ASSUME TypeOK, [Next]_vars, NEW w \in Workers, NEW op \in {"QUERY_DESCONECTADO", "PC_UPDATE"},
         Muda(w, op), IF op = "PC_UPDATE" THEN ~hay_interrupcion[w] ELSE ~query_desconectado[w]
  PROVE  Muda(w, op)'
<1>1. respuesta \in [Workers -> Seq(Mensaje)] /\ despacho \in [Workers -> Seq(Asignacion)]
  BY DEF TypeOK, RedTypeOK
<1>2. CASE \/ \E x \in Queries : CrearQuery(x) \/ HiloAlta(x) \/ HiloTimer(x) \/ HiloVigia(x)
           \/ \E x \in Queries : IrseQC(x) \/ TerminarQC(x)
           \/ \E v \in Workers : IdentificarWorker(v) \/ HiloVigiaWorker(v)
           \/ Caer \/ UNCHANGED vars
  <2>1. ASSUME NEW x \in Queries, CrearQuery(x) \/ HiloAlta(x) \/ HiloTimer(x) PROVE UNCHANGED respuesta
    BY <2>1 DEF CrearQuery, HiloAlta, AsignarSocket, AsignarEstado, Encolar, CrearTimer, Chequear,
                Desalojar, Publicar, HiloTimer, Envejecer, Releer, DespertarTimer, red
  <2>2. ASSUME NEW x \in Queries, HiloVigia(x) PROVE UNCHANGED respuesta
    BY <2>2 DEF HiloVigia, MirarSinNovedad, MirarDesconexion, VigiaCorriendo, Desalojar, VigiaLista,
                VigiaQuitar, VigiaRobar, VigiaSalir, VigiaJoin, red
  <2>3. UNCHANGED respuesta
    BY <1>2, <2>1, <2>2 DEF IdentificarWorker, HiloVigiaWorker, AtenderInterrupcion, DetectarCaida,
                DescontarWorker, AvisarCaida, ResponderCaida, RetirarWorker, IrseQC, TerminarQC, Caer, vars, red
  <2> QED BY <2>3 DEF Muda
<1>3. ASSUME NEW v \in Workers, HiloWorker(v) PROVE Muda(w, op)'
  <2>1. UNCHANGED respuesta \/ (Consumir(v) /\ respuesta[v] # <<>>)
    BY <1>3 DEF HiloWorker, EsperarQuery, ValidarWorker, TomarQuery, MarcarRunning, RegistrarYEnviar,
                RecibirPaquete, RecibirRead, RecibirEnd, RecibirError, AbandonarWorker, RecibirPC,
                Reencolar, PublicarDesalojada, RecibirDesconectado, RecibirNulo, Recibe, Llega, red
  <2>2. \A m : m \in ToSet(respuesta'[w]) => m \in ToSet(respuesta[w])
    BY <1>1, <2>1, SinElPrimero DEF Consumir
  <2> QED BY <2>2 DEF Muda
<1>4. ASSUME NEW v \in Workers, fase[v] \in {"ciclo", "chequear"},
             NEW ops \in Seq(Operaciones), NEW n \in Nat, Responder(v, ops, n),
             v = w => \A i \in 1..Len(ops) : ops[i] # op
      PROVE  Muda(w, op)'
  <2>1. ejec[v].query \in Queries
    BY <1>4, SuQuery
  <2>2. PICK f \in Seq(Mensaje) :
            /\ respuesta' = [respuesta EXCEPT ![v] = respuesta[v] \o f]
            /\ \A m \in ToSet(f) : m.query = ejec[v].query /\ \E i \in 1..Len(ops) : m.op = ops[i]
    BY <1>4, <2>1, ResponderVarios
  <2>3. \A m : m \in ToSet(respuesta'[w]) => m \in ToSet(respuesta[w]) \/ (v = w /\ m \in ToSet(f))
    BY <1>1, <2>2, ConVarios
  <2> QED BY <1>4, <2>2, <2>3 DEF Muda
<1>5. ASSUME NEW v \in Workers, HiloEjecutar(v) PROVE Muda(w, op)'
  <2>1. CASE RecibirPath(v) \/ LiberarNombre(v) \/ AbandonarCiclo(v)
    <3>1. UNCHANGED respuesta
      BY <2>1 DEF RecibirPath, LiberarNombre, AbandonarCiclo, red
    <3> QED BY <3>1 DEF Muda
  <2>2. CASE RecibirSinArchivo(v)
    <3>1. PICK m : /\ m = [op |-> "ERROR_QUERY_NO_ENCONTRADA", query |-> Head(despacho[v]).query, pc |-> 0]
                   /\ respuesta' = [respuesta EXCEPT ![v] = Append(respuesta[v], m)]
      BY <2>2 DEF RecibirSinArchivo
    <3>2. m \in Mensaje /\ m.op # op
      <4>1. Head(despacho[v]) \in Asignacion
        BY <1>1, <2>2 DEF RecibirSinArchivo
      <4> QED BY <3>1, <4>1 DEF Asignacion, Mensaje, Operaciones
    <3>3. \A y : y \in ToSet(respuesta'[w]) => y \in ToSet(respuesta[w]) \/ y = m
      BY <1>1, <3>1, <3>2, ConUnoMas
    <3> QED BY <3>2, <3>3 DEF Muda
  <2>3. CASE Terminar(v)
    <3>1. PICK p \in {"QUERY_END", "ERROR"} : Responder(v, <<p>>, 0)
      BY <2>3 DEF Terminar
    <3>2. <<p>> \in Seq(Operaciones) /\ \A i \in 1..Len(<<p>>) : <<p>>[i] # op
      BY DEF Operaciones
    <3>3. fase[v] = "ciclo" /\ 0 \in Nat
      BY <2>3 DEF Terminar, Decodifica, Corre
    <3> QED BY <1>4, <3>1, <3>2, <3>3
  <2>4. CASE ChequearInterrupcion(v) /\ hay_interrupcion[v]
    <3>1. PICK ops : /\ ops = IF query_desconectado[v] THEN <<"QUERY_DESCONECTADO">> ELSE <<"PC_UPDATE">>
                     /\ Responder(v, ops, ejec[v].pc)
      BY <2>4 DEF ChequearInterrupcion
    <3>2. ops = <<"QUERY_DESCONECTADO">> \/ ops = <<"PC_UPDATE">>
      BY <3>1
    <3>3. ops \in Seq(Operaciones)
      BY <3>2, PaquetesTipo
    <3>4. v = w => \A i \in 1..Len(ops) : ops[i] # op
      <4>1. CASE op = "PC_UPDATE"
        BY <2>4, <4>1
      <4>2. CASE op = "QUERY_DESCONECTADO" /\ v = w
        <5>1. ops = <<"PC_UPDATE">>
          BY <3>1, <4>2
        <5> QED BY <4>2, <5>1
      <4> QED BY <4>1, <4>2
    <3>5. fase[v] = "chequear" /\ ejec[v].pc \in Nat
      BY <2>4 DEF ChequearInterrupcion, Corre, TypeOK, InterpreteTypeOK, Pcb
    <3> QED BY <1>4, <3>1, <3>3, <3>4, <3>5
  <2>5. CASE ChequearInterrupcion(v) /\ ~hay_interrupcion[v]
    BY <2>5 DEF ChequearInterrupcion, Muda
  <2>6. ASSUME NEW i \in {"STORAGE", "READ", "COMMIT"}, Ejecutar(v, i) PROVE Muda(w, op)'
    <3>1. Decodifica(v, i) /\ \E ops \in {Exito(i)} \cup Fallos(i) : Responder(v, ops, ejec'[v].pc)
      BY <2>6 DEF Ejecutar
    <3>2. PICK ops \in {Exito(i)} \cup Fallos(i) : Responder(v, ops, ejec'[v].pc)
      BY <3>1
    <3>3. PICK n \in Nat : n = ejec'[v].pc
      BY <3>1, DecodificaTipo
    <3>4. fase[v] = "ciclo"
      BY <3>1 DEF Decodifica, Corre
    <3>5. \/ ops = <<>> \/ ops = <<"READ_RESULT">> \/ ops = <<"ERROR">> \/ ops = <<"ERROR", "ERROR">>
      BY DEF Exito, Fallos
    <3>6. ops \in Seq(Operaciones)
      BY <3>5, PaquetesTipo
    <3>7. \A k \in 1..Len(ops) : ops[k] # op
      BY <3>5
    <3> QED BY <1>4, <3>2, <3>3, <3>4, <3>6, <3>7
  <2> QED BY <1>5, <2>1, <2>2, <2>3, <2>4, <2>5, <2>6 DEF HiloEjecutar
<1>6. ASSUME NEW v \in Workers, HiloInterrupciones(v) \/ MorirWorker(v) PROVE Muda(w, op)'
  <2>1. UNCHANGED respuesta
    BY <1>6 DEF HiloInterrupciones, LeerInterrupcion, MarcarInterrupcion, MorirWorker, red
  <2> QED BY <2>1 DEF Muda
<1> QED BY <1>2, <1>3, <1>5, <1>6 DEF Next, PlanificadorNext, InterpreteNext
\* Who is interrupted is told to yield, under PRIORIDADES.
LEMMA InterrupcionNueva ==
  ASSUME TypeOK, \A q \in Queries : Apuntan(q), [Next]_vars, NEW w \in Workers
  PROVE  /\ interrupcion'[w] # <<>> => interrupcion[w] # <<>> \/ Prioridades
         /\ "QUERY_DESCONECTADO" \in ToSet(interrupcion'[w])
               => "QUERY_DESCONECTADO" \in ToSet(interrupcion[w])
<1> DEFINE SinAvisos == /\ interrupcion'[w] # <<>> => interrupcion[w] # <<>> \/ Prioridades
                        /\ "QUERY_DESCONECTADO" \in ToSet(interrupcion'[w])
                              => "QUERY_DESCONECTADO" \in ToSet(interrupcion[w])
<1>1. interrupcion \in [Workers -> Seq(Interrupciones)]
  BY DEF TypeOK, RedTypeOK
<1>2. ASSUME UNCHANGED interrupcion PROVE SinAvisos
  BY <1>2
<1>3. ASSUME NEW x \in Queries, NEW t \in Hilos, Desalojar(t, x) PROVE SinAvisos
  <2>1. t # "vigia" /\ Prioridades
    BY <1>3 DEF Desalojar, Apuntan, Apunta
  <2>2. PICK v : UNCHANGED interrupcion \/ interrupcion' = [interrupcion EXCEPT ![v] = Append(@, "DESALOJO")]
    BY <1>3, <2>1 DEF Desalojar, EnviarInterrupcion
  <2>3. CASE interrupcion' = [interrupcion EXCEPT ![v] = Append(@, "DESALOJO")] /\ v = w
    <3>1. interrupcion'[w] = Append(interrupcion[w], "DESALOJO")
      BY <1>1, <2>3
    <3>2. interrupcion[w] \in Seq(Interrupciones) /\ "DESALOJO" \in Interrupciones
      BY <1>1 DEF Interrupciones
    <3>3. \A y : y \in ToSet(interrupcion'[w]) => y \in ToSet(interrupcion[w]) \/ y = "DESALOJO"
      BY <3>1, <3>2, ConUnoMas
    <3> QED BY <2>1, <3>3
  <2>4. CASE interrupcion' = [interrupcion EXCEPT ![v] = Append(@, "DESALOJO")] /\ v # w
    <3>1. interrupcion'[w] = interrupcion[w]
      BY <1>1, <2>4
    <3> QED BY <3>1
  <2> QED BY <1>2, <2>2, <2>3, <2>4
<1>4. ASSUME NEW v \in Workers, LeerInterrupcion(v) PROVE SinAvisos
  <2>1. CASE v = w
    <3>1. interrupcion[w] \in Seq(Interrupciones) /\ interrupcion[w] # <<>>
      BY <1>1, <1>4, <2>1 DEF LeerInterrupcion
    <3>2. interrupcion'[w] = Tail(interrupcion[w])
      BY <1>1, <1>4, <2>1 DEF LeerInterrupcion
    <3>3. \A y : y \in ToSet(interrupcion'[w]) => y \in ToSet(interrupcion[w])
      BY <3>1, <3>2, SinElPrimero
    <3> QED BY <3>1, <3>3
  <2>2. CASE v # w
    <3>1. interrupcion'[w] = interrupcion[w]
      BY <1>1, <1>4, <2>2 DEF LeerInterrupcion
    <3> QED BY <3>1
  <2> QED BY <2>1, <2>2
<1>5. ASSUME NEW v \in Workers, Morir(v) PROVE SinAvisos
  <2>1. CASE v = w
    <3>1. interrupcion'[w] = <<>> /\ ToSet(<<>>) = {}
      BY <1>1, <1>5, <2>1 DEF Morir, ToSet
    <3> QED BY <3>1
  <2>2. CASE v # w
    <3>1. interrupcion'[w] = interrupcion[w]
      BY <1>1, <1>5, <2>2 DEF Morir
    <3> QED BY <3>1
  <2> QED BY <2>1, <2>2
<1>6. ASSUME NEW x \in Queries, CrearQuery(x) \/ HiloAlta(x) \/ HiloTimer(x) \/ HiloVigia(x)
      PROVE  UNCHANGED interrupcion \/ \E t \in Hilos : Desalojar(t, x)
  <2>1. CASE CrearQuery(x) \/ HiloAlta(x)
    BY <2>1 DEF CrearQuery, HiloAlta, AsignarSocket, AsignarEstado, Encolar, CrearTimer, Chequear,
                Publicar, red, Hilos
  <2>2. CASE HiloTimer(x)
    BY <2>2 DEF HiloTimer, Envejecer, Chequear, Releer, DespertarTimer, red, Hilos
  <2>3. CASE HiloVigia(x)
    BY <2>3 DEF HiloVigia, MirarSinNovedad, MirarDesconexion, VigiaCorriendo, VigiaLista,
                VigiaQuitar, VigiaRobar, VigiaSalir, VigiaJoin, red, Hilos
  <2> QED BY <1>6, <2>1, <2>2, <2>3
<1>7. ASSUME NEW v \in Workers, IdentificarWorker(v) \/ HiloVigiaWorker(v) \/ HiloWorker(v)
      PROVE  UNCHANGED interrupcion
  <2>1. CASE HiloWorker(v)
    BY <2>1 DEF HiloWorker, EsperarQuery, ValidarWorker, TomarQuery, MarcarRunning, RegistrarYEnviar,
                RecibirPaquete, RecibirRead, RecibirEnd, RecibirError, AbandonarWorker, RecibirPC,
                Reencolar, PublicarDesalojada, RecibirDesconectado, RecibirNulo, red
  <2>2. CASE IdentificarWorker(v) \/ HiloVigiaWorker(v)
    BY <2>2 DEF IdentificarWorker, HiloVigiaWorker, AtenderInterrupcion, DetectarCaida,
                DescontarWorker, AvisarCaida, ResponderCaida, RetirarWorker, red
  <2> QED BY <1>7, <2>1, <2>2
<1>8. ASSUME NEW v \in Workers, HiloEjecutar(v) \/ HiloInterrupciones(v) \/ MorirWorker(v)
      PROVE  UNCHANGED interrupcion \/ LeerInterrupcion(v) \/ Morir(v)
  BY <1>8 DEF HiloEjecutar, RecibirPath, RecibirSinArchivo, LiberarNombre, AbandonarCiclo, Terminar,
              Ejecutar, ChequearInterrupcion, HiloInterrupciones, MarcarInterrupcion, MorirWorker, red
<1>9. ASSUME \/ \E x \in Queries : IrseQC(x) \/ TerminarQC(x)
             \/ Caer \/ UNCHANGED vars
      PROVE  UNCHANGED interrupcion
  BY <1>9 DEF IrseQC, TerminarQC, Caer, vars, red
<1> HIDE DEF SinAvisos
<1>10. SinAvisos
  BY <1>2, <1>3, <1>4, <1>5, <1>6, <1>7, <1>8, <1>9 DEF Next, PlanificadorNext, InterpreteNext
<1> QED BY <1>10 DEF SinAvisos

\* The flags of a Worker are raised by hilo_atender_interrupcion only.
LEMMA MarcaNueva ==
  ASSUME TypeOK, [Next]_vars, NEW w \in Workers
  PROVE  /\ query_desconectado'[w] => \/ query_desconectado[w]
                                      \/ "QUERY_DESCONECTADO" \in ToSet(interrupcion[w])
         /\ hiloInterrupcion'[w] # "leer" => hiloInterrupcion[w] # "leer" \/ interrupcion[w] # <<>>
         /\ hay_interrupcion'[w] => hay_interrupcion[w] \/ hiloInterrupcion[w] # "leer"
<1> DEFINE Baja == /\ query_desconectado'[w] => \/ query_desconectado[w]
                                                \/ "QUERY_DESCONECTADO" \in ToSet(interrupcion[w])
                   /\ hiloInterrupcion'[w] # "leer" => hiloInterrupcion[w] # "leer" \/ interrupcion[w] # <<>>
                   /\ hay_interrupcion'[w] => hay_interrupcion[w] \/ hiloInterrupcion[w] # "leer"
<1>1. /\ hay_interrupcion \in [Workers -> BOOLEAN] /\ query_desconectado \in [Workers -> BOOLEAN]
      /\ hiloInterrupcion \in [Workers -> {"leer", "marcar"}] /\ interrupcion \in [Workers -> Seq(Interrupciones)]
  BY DEF TypeOK, RedTypeOK, InterpreteTypeOK
<1>2. ASSUME UNCHANGED <<query_desconectado, hiloInterrupcion, hay_interrupcion>> PROVE Baja
  BY <1>2
<1>3. ASSUME NEW v \in Workers, LeerInterrupcion(v) PROVE Baja
  <2>1. UNCHANGED hay_interrupcion
    BY <1>3 DEF LeerInterrupcion
  <2>2. CASE v = w
    <3>1. interrupcion[w] \in Seq(Interrupciones) /\ interrupcion[w] # <<>>
      BY <1>1, <1>3, <2>2 DEF LeerInterrupcion
    <3>2. Head(interrupcion[w]) \in ToSet(interrupcion[w])
      BY <3>1, SinElPrimero
    <3>3. query_desconectado'[w] = (Head(interrupcion[w]) = "QUERY_DESCONECTADO")
      BY <1>1, <1>3, <2>2 DEF LeerInterrupcion
    <3> QED BY <2>1, <3>1, <3>2, <3>3
  <2>3. CASE v # w
    BY <1>1, <1>3, <2>1, <2>3 DEF LeerInterrupcion
  <2> QED BY <2>2, <2>3
<1>4. ASSUME NEW v \in Workers, MarcarInterrupcion(v) PROVE Baja
  <2>1. UNCHANGED query_desconectado
    BY <1>4 DEF MarcarInterrupcion
  <2>2. CASE v = w
    BY <1>1, <1>4, <2>1, <2>2 DEF MarcarInterrupcion
  <2>3. CASE v # w
    BY <1>1, <1>4, <2>1, <2>3 DEF MarcarInterrupcion
  <2> QED BY <2>2, <2>3
<1>5. ASSUME NEW v \in Workers, ChequearInterrupcion(v) PROVE Baja
  <2>1. UNCHANGED <<query_desconectado, hiloInterrupcion>>
    BY <1>5 DEF ChequearInterrupcion
  <2>2. hay_interrupcion'[w] => hay_interrupcion[w]
    BY <1>1, <1>5 DEF ChequearInterrupcion
  <2> QED BY <2>1, <2>2
<1>6. ASSUME NEW v \in Workers, HiloEjecutar(v) \/ HiloInterrupciones(v) \/ MorirWorker(v)
      PROVE  \/ UNCHANGED <<query_desconectado, hiloInterrupcion, hay_interrupcion>>
             \/ LeerInterrupcion(v) \/ MarcarInterrupcion(v) \/ ChequearInterrupcion(v)
  BY <1>6 DEF HiloEjecutar, RecibirPath, RecibirSinArchivo, LiberarNombre, AbandonarCiclo, Terminar,
              Ejecutar, HiloInterrupciones, MorirWorker, worker_vars
<1>7. ASSUME UNCHANGED worker_vars \/ UNCHANGED vars
      PROVE  UNCHANGED <<query_desconectado, hiloInterrupcion, hay_interrupcion>>
  BY <1>7 DEF worker_vars, vars
<1> HIDE DEF Baja
<1>8. Baja
  BY <1>2, <1>3, <1>4, <1>5, <1>6, <1>7 DEF Next, InterpreteNext
<1> QED BY <1>8 DEF Baja
\* A query comes back to cola_queries only after a PC_UPDATE.
LEMMA VuelveConPC ==
  ASSUME TypeOK, [Next]_vars, NEW w \in Workers, Muda(w, "PC_UPDATE"),
         hiloWorker[w] \notin {"reencolar", "publicar"}
  PROVE  hiloWorker'[w] \notin {"reencolar", "publicar"}
<1>1. hiloWorker \in [Workers -> PasosWorker] /\ respuesta \in [Workers -> Seq(Mensaje)]
  BY DEF TypeOK, PlanificadorTypeOK, AtencionOK, RedTypeOK
<1>2. ASSUME NEW x \in Queries, CrearQuery(x) \/ HiloAlta(x) \/ HiloTimer(x) PROVE UNCHANGED hiloWorker
  BY <1>2 DEF CrearQuery, HiloAlta, AsignarSocket, AsignarEstado, Encolar, CrearTimer, Chequear,
              Desalojar, Publicar, HiloTimer, Envejecer, Releer, DespertarTimer, atencion
<1>3. ASSUME NEW x \in Queries, HiloVigia(x) \/ IrseQC(x) \/ TerminarQC(x) PROVE UNCHANGED hiloWorker
  BY <1>3 DEF HiloVigia, MirarSinNovedad, MirarDesconexion, VigiaCorriendo, Desalojar, VigiaLista,
              VigiaQuitar, VigiaRobar, VigiaSalir, VigiaJoin, IrseQC, TerminarQC, atencion
<1>4. ASSUME Caer \/ UNCHANGED master_vars \/ UNCHANGED vars PROVE UNCHANGED hiloWorker
  BY <1>4 DEF Caer, vars, master_vars, atencion
<1>5. ASSUME NEW v \in Workers, IdentificarWorker(v) \/ HiloVigiaWorker(v)
      PROVE  UNCHANGED hiloWorker \/ Sigue(v, "esperar")
  BY <1>5 DEF IdentificarWorker, HiloVigiaWorker, AtenderInterrupcion, DetectarCaida, DescontarWorker,
              AvisarCaida, ResponderCaida, RetirarWorker, atencion
<1>6. ASSUME NEW v \in Workers, HiloWorker(v)
      PROVE  \E p : Sigue(v, p) /\ (v = w => p \notin {"reencolar", "publicar"})
  <2>1. CASE EsperarQuery(v) \/ ValidarWorker(v) \/ TomarQuery(v) \/ MarcarRunning(v)
             \/ RegistrarYEnviar(v) \/ RecibirPaquete(v) \/ RecibirNulo(v)
    BY <2>1 DEF EsperarQuery, ValidarWorker, TomarQuery, MarcarRunning, RegistrarYEnviar,
                RecibirPaquete, RecibirNulo
  <2>2. CASE RecibirRead(v) \/ RecibirEnd(v) \/ RecibirError(v) \/ AbandonarWorker(v) \/ RecibirDesconectado(v)
    BY <2>2 DEF RecibirRead, RecibirEnd, RecibirError, AbandonarWorker, RecibirDesconectado
  <2>3. CASE Reencolar(v) \/ PublicarDesalojada(v)
    BY <2>3 DEF Reencolar, PublicarDesalojada
  <2>4. CASE RecibirPC(v)
    <3>1. v # w
      <4>1. SUFFICES ASSUME v = w PROVE FALSE
        OBVIOUS
      <4>2. respuesta[w] \in Seq(Mensaje) /\ respuesta[w] # <<>> /\ Head(respuesta[w]).op = "PC_UPDATE"
        BY <1>1, <2>4, <4>1 DEF RecibirPC, Recibe, Llega
      <4>3. Head(respuesta[w]) \in ToSet(respuesta[w])
        BY <4>2, SinElPrimero
      <4> QED BY <4>2, <4>3 DEF Muda
    <3> QED BY <2>4, <3>1 DEF RecibirPC
  <2> QED BY <1>6, <2>1, <2>2, <2>3, <2>4 DEF HiloWorker
<1>7. ASSUME NEW v \in Workers, HiloWorker(v) PROVE hiloWorker'[w] \notin {"reencolar", "publicar"}
  BY <1>1, <1>6, <1>7 DEF Sigue
<1>8. ASSUME NEW v \in Workers, Sigue(v, "esperar") PROVE hiloWorker'[w] \notin {"reencolar", "publicar"}
  BY <1>1, <1>8 DEF Sigue
<1> QED BY <1>2, <1>3, <1>4, <1>5, <1>7, <1>8 DEF Next, PlanificadorNext

LEMMA CalladasSiguen ==
  ASSUME TypeOK, [Next]_vars, \A q \in Queries : Apuntan(q), NEW w \in Workers,
         Callada(w), SinInterrumpir(w)
  PROVE  Callada(w)' /\ SinInterrumpir(w)'
<1>1. /\ interrupcion'[w] # <<>> => interrupcion[w] # <<>> \/ Prioridades
      /\ "QUERY_DESCONECTADO" \in ToSet(interrupcion'[w])
            => "QUERY_DESCONECTADO" \in ToSet(interrupcion[w])
  BY InterrupcionNueva
<1>2. /\ query_desconectado'[w] => \/ query_desconectado[w]
                                   \/ "QUERY_DESCONECTADO" \in ToSet(interrupcion[w])
      /\ hiloInterrupcion'[w] # "leer" => hiloInterrupcion[w] # "leer" \/ interrupcion[w] # <<>>
      /\ hay_interrupcion'[w] => hay_interrupcion[w] \/ hiloInterrupcion[w] # "leer"
  BY MarcaNueva
<1>3. Callada(w)'
  <2>1. Muda(w, "QUERY_DESCONECTADO")'
    BY MudaSigue DEF Callada
  <2> QED BY <1>1, <1>2, <2>1 DEF Callada
<1>4. ASSUME ~Prioridades
      PROVE  /\ interrupcion'[w] = <<>> /\ hiloInterrupcion'[w] = "leer"
             /\ ~hay_interrupcion'[w] /\ Muda(w, "PC_UPDATE")'
             /\ hiloWorker'[w] \notin {"reencolar", "publicar"}
  <2>1. /\ interrupcion[w] = <<>> /\ hiloInterrupcion[w] = "leer" /\ ~hay_interrupcion[w]
        /\ Muda(w, "PC_UPDATE") /\ hiloWorker[w] \notin {"reencolar", "publicar"}
    BY <1>4 DEF SinInterrumpir
  <2>2. Muda(w, "PC_UPDATE")'
    BY <2>1, MudaSigue
  <2>3. hiloWorker'[w] \notin {"reencolar", "publicar"}
    BY <2>1, VuelveConPC
  <2> QED BY <1>1, <1>2, <1>4, <2>1, <2>2, <2>3
<1> QED BY <1>3, <1>4 DEF SinInterrumpir, Prioridades

-------------------------------------------------------------------------------
(* The ends of the Master *)

\* A query whose Query Control left was answered, and nobody has it.
LEMMA RespondidaFuera ==
  ASSUME SinPerdidas, InvFinal, InvVigias, NEW q \in Queries, conexion[q] # "abierta" \/ Vista(q)
  PROVE  Fuera(q)
<1>1. conexion[q] # "abierta"
  BY DEF InvVigias, Vigia
<1>2. finales[q] # <<>>
  BY <1>1 DEF SinPerdidas
<1> QED BY <1>2 DEF SinPerdidas, InvFinal, UnFinal

LEMMA NoCae ==
  ASSUME TypeOK, SinBajas, InvFinal, InvVigias, InvLibre, InvLecturas, EnRegla
  PROVE  ~Caer
<1>1. \A q \in Queries : conexion[q] # "abierta" \/ Vista(q) => Fuera(q)
  BY RespondidaFuera DEF SinBajas
<1>2. /\ respuesta \in [Workers -> Seq(Mensaje)] /\ query_en_worker \in Seq(Queries)
  BY DEF TypeOK, RedTypeOK, PlanificadorTypeOK, ListasOK
<1>3. ASSUME NEW q \in Queries, NEW t \in Hilos, CaeDesalojo(t, q) PROVE FALSE
  BY <1>3 DEF CaeDesalojo, EnRegla, Apuntan, Apunta
<1>4. ASSUME NEW q \in Queries, CaeSinTimer(q) PROVE FALSE
  <2>1. Vista(q) /\ Prioridades
    BY <1>4 DEF CaeSinTimer, InvVigias, Vigia
  <2> QED BY <2>1 DEF SinBajas
<1>5. ASSUME NEW q \in Queries, CaeLiberada(q) PROVE FALSE
  <2>1. Vista(q)
    BY <1>5 DEF CaeLiberada, Liberada, Vista
  <2>2. Fuera(q) /\ ~Prioridades
    BY <1>1, <2>1 DEF SinBajas
  <2>3. ~En(q, cola_queries) /\ ~En(q, query_en_worker) /\ ~SinEncolar(q) /\ ~EnMano(q)
    BY <2>2 DEF Fuera, EnEspera
  <2>4. ASSUME NEW w \in Workers, enMano[w] = q PROVE FALSE
    <3>1. q # Ninguna
      BY RedAssumption
    <3>2. hiloWorker[w] \in {"marcar", "registrar", "reencolar", "publicar"}
      BY <2>4, <3>1 DEF InvLibre, Libre
    <3>3. hiloWorker[w] \notin {"reencolar", "publicar"}
      BY <2>2 DEF EnRegla, SinInterrumpir
    <3> QED BY <2>3, <2>4, <3>2, <3>3 DEF EnMano, EnLaMano
  <2>5. hilo["alta"][q] \in {"desalojar", "publicar", "fin"}
    <3>1. hilo["alta"][q] \notin {"timer", "chequear", "desalojar"}
      BY <2>2 DEF EnRegla, Apuntan, SinTimer
    <3>2. hilo["alta"][q] \in PasosAlta
      BY DEF EnRegla, Apuntan
    <3> QED BY <2>3, <3>1, <3>2 DEF PasosAlta, SinEncolar
  <2>6. \A w \in Workers : vigiaWorker[w] # "avisar"
    BY DEF InvFinal, VigiaFiel, SinBajas, SinPerdidas, SinCaidas
  <2> QED BY <1>5, <2>3, <2>4, <2>5, <2>6 DEF CaeLiberada
<1>6. ASSUME NEW w \in Workers, NEW op, Llega(w, op)
      PROVE  Head(respuesta[w]) \in ToSet(respuesta[w]) /\ Head(respuesta[w]).op = op
             /\ Head(respuesta[w]).query \in Queries
  <2>1. respuesta[w] \in Seq(Mensaje) /\ respuesta[w] # <<>> /\ Head(respuesta[w]).op = op
    BY <1>2, <1>6 DEF Llega
  <2>2. Head(respuesta[w]) \in ToSet(respuesta[w]) /\ Head(respuesta[w]) \in Mensaje
    BY <2>1, SinElPrimero
  <2> QED BY <2>1, <2>2 DEF Mensaje
<1>7. ASSUME NEW w \in Workers, CaeSinQuery(w) PROVE FALSE
  <2>1. CASE Recibe(w, "READ_RESULT")
    <3>1. /\ Head(respuesta[w]) \in ToSet(respuesta[w]) /\ Head(respuesta[w]).op = "READ_RESULT"
          /\ Head(respuesta[w]).query \in Queries
      BY <1>6, <2>1 DEF Recibe
    <3>2. Dijo(w, "READ_RESULT", Head(respuesta[w]).query)
      BY <3>1 DEF Dijo
    <3>3. En(Head(respuesta[w]).query, query_en_worker)
      BY <3>1, <3>2 DEF InvLecturas, Lectura
    <3> QED BY <1>7, <3>3 DEF CaeSinQuery
  <2>2. CASE Recibe(w, "QUERY_DESCONECTADO")
    <3>1. /\ Head(respuesta[w]) \in ToSet(respuesta[w]) /\ Head(respuesta[w]).op = "QUERY_DESCONECTADO"
      BY <1>6, <2>2 DEF Recibe
    <3> QED BY <3>1 DEF EnRegla, Callada, Muda
  <2> QED BY <1>7, <2>1, <2>2 DEF CaeSinQuery
<1>8. ASSUME NEW w \in Workers, CaeSigpipe(w) PROVE FALSE
  <2>1. vigiaWorker[w] # "avisar" /\ ~Reseteada(w, despacho)
    BY DEF InvFinal, VigiaFiel, SinBajas, SinPerdidas, SinCaidas, Reseteada
  <2>2. PICK op : Recibe(w, op) /\ En(Head(respuesta[w]).query, query_en_worker)
                  /\ conexion[Head(respuesta[w]).query] = "reset"
    BY <1>8, <2>1 DEF CaeSigpipe
  <2>3. Head(respuesta[w]).query \in Queries
    BY <1>6, <2>2 DEF Recibe
  <2> QED BY <1>1, <2>2, <2>3 DEF Fuera
<1>9. ASSUME NEW q \in Queries, NEW t \in Hilos, CaeInterrumpir(t, q) PROVE FALSE
  <2>1. objetivo[t][q] \in Workers
    BY <1>9 DEF CaeInterrumpir, TypeOK, PlanificadorTypeOK, DeWorkersOK
  <2> QED BY <1>9, <2>1 DEF CaeInterrumpir, Reseteada, SinBajas, SinPerdidas, SinCaidas
<1> QED BY <1>3, <1>4, <1>5, <1>7, <1>8, <1>9 DEF Caer
LEMMA EnReglaInicial == Init => EnRegla
<1> SUFFICES ASSUME Init PROVE EnRegla
  OBVIOUS
<1>1. Listados
  <2>1. \A w \in Workers : hiloWorker[w] = "no"
    BY DEF Init, PlanificadorInit
  <2>2. query_en_worker = <<>>
    BY DEF Init, PlanificadorInit
  <2>3. \A q : ~En(q, query_en_worker)
    BY <2>2 DEF En
  <2> QED BY <2>1, <2>3 DEF Listados
<1>2. ASSUME NEW q \in Queries PROVE Apuntan(q)
  <2>1. \A t \in Hilos : hilo[t][q] = "no"
    BY DEF Init, PlanificadorInit
  <2> QED BY <2>1 DEF Apuntan, SinTimer, Apunta, Hilos, PasosAlta
<1>3. ASSUME NEW w \in Workers PROVE Callada(w) /\ SinInterrumpir(w)
  <2>1. /\ interrupcion[w] = <<>> /\ respuesta[w] = <<>> /\ hiloWorker[w] = "no"
        /\ hiloInterrupcion[w] = "leer" /\ ~hay_interrupcion[w] /\ ~query_desconectado[w]
    BY DEF Init, RedInit, PlanificadorInit, InterpreteInit
  <2>2. ToSet(<<>>) = {}
    BY DEF ToSet
  <2> QED BY <2>1, <2>2 DEF Callada, SinInterrumpir, Muda
<1> QED BY <1>1, <1>2, <1>3 DEF EnRegla

LEMMA EnReglaSiempre == Spec => []InvEnRegla
<1>1. Init => InvEnRegla
  BY EnReglaInicial DEF InvEnRegla
<1>2. TypeOK /\ UnSoloLugar /\ InvFinal /\ InvVigias /\ InvExit /\ InvEnRegla /\ [Next]_vars => InvEnRegla'
  <2> SUFFICES ASSUME TypeOK, UnSoloLugar, InvFinal, InvVigias, InvExit, InvEnRegla, [Next]_vars,
                      SinPerdidas'
               PROVE  EnRegla'
    BY DEF InvEnRegla
  <2>1. SinPerdidas /\ SinCaidas /\ VigiaFiel
    BY PerdidasAntes DEF SinPerdidas, InvFinal
  <2>2. /\ Listados /\ \A q \in Queries : Apuntan(q)
        /\ \A w \in Workers : Callada(w) /\ SinInterrumpir(w)
    BY <2>1 DEF InvEnRegla, EnRegla
  <2>3. Listados'
    BY <2>1, <2>2, ListadosSiguen
  <2>4. \A q \in Queries : Apuntan(q)'
    BY <2>1, <2>2, ApuntanSiguen
  <2>5. \A w \in Workers : Callada(w)' /\ SinInterrumpir(w)'
    BY <2>2, CalladasSiguen
  <2> QED BY <2>3, <2>4, <2>5 DEF EnRegla
<1> QED BY <1>1, <1>2, TipoCorrecto, LugarUnico, FinalSiempre, VigiasSiempre, ExitSiempre, PTL DEF Spec

LEMMA EnPieSigue ==
  ASSUME TypeOK, InvFinal, InvVigias, InvLibre, InvLecturas, InvEnRegla, InvEnPie, [Next]_vars, SinBajas'
  PROVE  NuncaCae'
<1>1. ~Caer
  BY BajasAntes, NoCae DEF InvFinal, SinBajas, InvEnRegla
<1>2. ASSUME NEW x \in Queries, CrearQuery(x) \/ HiloAlta(x) \/ HiloTimer(x) PROVE UNCHANGED master
  BY <1>2 DEF CrearQuery, HiloAlta, AsignarSocket, AsignarEstado, Encolar, CrearTimer, Chequear,
              Desalojar, Publicar, HiloTimer, Envejecer, Releer, DespertarTimer
<1>3. ASSUME NEW x \in Queries, HiloVigia(x) \/ IrseQC(x) \/ TerminarQC(x) PROVE UNCHANGED master
  BY <1>3 DEF HiloVigia, MirarSinNovedad, MirarDesconexion, VigiaCorriendo, Desalojar, VigiaLista,
              VigiaQuitar, VigiaRobar, VigiaSalir, VigiaJoin, IrseQC, TerminarQC
<1>4. ASSUME NEW w \in Workers, IdentificarWorker(w) \/ HiloWorker(w) \/ HiloVigiaWorker(w)
      PROVE  UNCHANGED master
  <2>1. CASE HiloWorker(w)
    BY <2>1 DEF HiloWorker, EsperarQuery, ValidarWorker, TomarQuery, MarcarRunning, RegistrarYEnviar,
                RecibirPaquete, RecibirRead, RecibirEnd, RecibirError, AbandonarWorker, RecibirPC,
                Reencolar, PublicarDesalojada, RecibirDesconectado, RecibirNulo
  <2>2. CASE IdentificarWorker(w) \/ HiloVigiaWorker(w)
    BY <2>2 DEF IdentificarWorker, HiloVigiaWorker, AtenderInterrupcion, DetectarCaida,
                DescontarWorker, AvisarCaida, ResponderCaida, RetirarWorker
  <2> QED BY <1>4, <2>1, <2>2
<1>5. UNCHANGED master_vars \/ UNCHANGED vars => UNCHANGED master
  BY DEF master_vars, vars
<1>6. UNCHANGED master
  BY <1>1, <1>2, <1>3, <1>4, <1>5 DEF Next, PlanificadorNext
<1> QED BY <1>6, BajasAntes DEF InvFinal, InvEnPie, NuncaCae

\* While no Worker dies and no Query Control leaves before its answer (and, under
\* PRIORIDADES, no watcher sees one leave at all), the Master survives: no thread
\* dereferences a query or a Worker it did not find, none writes to a Query Control that
\* is gone, and none uses a t_query after its watcher freed it.
THEOREM SigueEnPie == Spec => [](SinBajas => NuncaCae)
<1>1. Init => InvEnPie
  BY DEF Init, PlanificadorInit, InvEnPie, NuncaCae
<1>2. /\ TypeOK /\ InvFinal /\ InvVigias /\ InvLibre /\ InvLecturas /\ InvEnRegla
      /\ InvEnPie /\ [Next]_vars
      => InvEnPie'
  BY EnPieSigue DEF InvEnPie
<1>3. InvEnPie => (SinBajas => NuncaCae)
  BY DEF InvEnPie
<1> QED BY <1>1, <1>2, <1>3, TipoCorrecto, FinalSiempre, VigiasSiempre, LibresSiempre, LecturasSiempre,
           EnReglaSiempre, PTL DEF Spec

-------------------------------------------------------------------------------
(* Each step is for the Query Control one step of the life of one query, or none. *)

\* The packets that tell the end of a query.
Fines == {"QUERY_END", "ERROR"}

\* A query does not end in two ways.
UnaVoz(q) == ~(Dicho(q, "QUERY_END") /\ Dicho(q, "ERROR"))
InvVoces == \A q \in Queries : UnaVoz(q)

\* The end of a query that is on its way to the Master finds it assigned, or is a second one.
Atendida(q) == \A op \in Fines : Dicho(q, op) => En(q, query_en_worker) \/ finales[q] # <<>>
InvAtendidas == SinPerdidas => \A q \in Queries : Atendida(q)

-------------------------------------------------------------------------------
(* The mapping *)

\* A step that is none of q's for its Query Control: after the answer nothing is.
Igual(q) == /\ finales'[q] = finales[q]
            /\ finales[q] = <<>> => /\ \A op \in Fines : Dicho(q, op)' <=> Dicho(q, op)
                                    /\ EnInterprete(q)' <=> EnInterprete(q)
                                    /\ hilo'["alta"][q] = "no" <=> hilo["alta"][q] = "no"

LEMMA VidaIgual ==
  ASSUME NEW q, Igual(q)
  PROVE  VidaDe(q)' = VidaDe(q) /\ ResultadoDe(q)' = ResultadoDe(q)
<1>1. CASE finales[q] # <<>>
  BY <1>1 DEF Igual, VidaDe, ResultadoDe
<1>2. CASE finales[q] = <<>>
  <2>1. /\ Dicho(q, "QUERY_END")' <=> Dicho(q, "QUERY_END")
        /\ Dicho(q, "ERROR")' <=> Dicho(q, "ERROR")
    BY <1>2 DEF Igual, Fines
  <2> QED BY <1>2, <2>1 DEF Igual, VidaDe, ResultadoDe
<1> QED BY <1>1, <1>2

LEMMA CicloQuieto ==
  ASSUME UNCHANGED <<hechas, finales>>,
         \A q \in Queries : VidaDe(q)' = VidaDe(q) /\ ResultadoDe(q)' = ResultadoDe(q),
         (\E w \in Workers : Vivo(w))' <=> \E w \in Workers : Vivo(w)
  PROVE  UNCHANGED Ciclo!vars
<1>1. (\E w \in Workers : Vivo(w))' = \E w \in Workers : Vivo(w)
  OBVIOUS
<1> QED BY <1>1 DEF Ciclo!vars

\* The life of x goes on to v, and no other query's.
LEMMA VidaPasa ==
  ASSUME NEW x \in Queries, NEW v, VidaDe(x)' = v, \A q \in Queries \ {x} : VidaDe(q)' = VidaDe(q)
  PROVE  Ciclo!Pasa(x, v)
BY DEF Ciclo!Pasa

LEMMA ResultadoPasa ==
  ASSUME NEW x \in Queries, NEW v, ResultadoDe(x)' = v,
         \A q \in Queries \ {x} : ResultadoDe(q)' = ResultadoDe(q)
  PROVE  [q \in Queries |-> ResultadoDe(q)]' = [[q \in Queries |-> ResultadoDe(q)] EXCEPT ![x] = v]
OBVIOUS

LEMMA DichoEs ==
  ASSUME TypeOK, TypeOK', NEW q, NEW op
  PROVE  /\ Dicho(q, op) <=> \E w \in Workers : Dijo(w, op, q)
         /\ Dicho(q, op)' <=> \E w \in Workers : Dijo(w, op, q)'
<1>1. \A w \in Workers : respuesta[w] \in Seq(Mensaje) /\ respuesta'[w] \in Seq(Mensaje)
  BY DEF TypeOK, RedTypeOK
<1>2. ASSUME NEW s \in Seq(Mensaje)
      PROVE  (\E m \in ToSet(s) : m.query = q /\ m.op = op)
                <=> \E i \in 1..Len(s) : s[i].query = q /\ s[i].op = op
  <2>1. \A m : m \in ToSet(s) <=> \E i \in 1..Len(s) : m = s[i]
    BY DEF ToSet
  <2> QED BY <2>1
<1> QED BY <1>1, <1>2 DEF Dicho, Dijo

\* The same of the state alone.
LEMMA DichoAhora ==
  ASSUME TypeOK, NEW q, NEW op, Dicho(q, op)
  PROVE  \E w \in Workers : Dijo(w, op, q)
<1>1. PICK w \in Workers : \E i \in 1..Len(respuesta[w]) :
                              respuesta[w][i].query = q /\ respuesta[w][i].op = op
  BY DEF Dicho
<1>2. respuesta[w] \in Seq(Mensaje)
  BY DEF TypeOK, RedTypeOK
<1> QED BY <1>1, <1>2 DEF Dijo, ToSet

\* The oldest packet of the connection of w is taken.
LEMMA DichoMenos ==
  ASSUME TypeOK, TypeOK', NEW w \in Workers, respuesta[w] # <<>>, Consumir(w), NEW q, NEW op
  PROVE  /\ Dicho(q, op)' => Dicho(q, op)
         /\ Dicho(q, op) => \/ Dicho(q, op)'
                            \/ q = Head(respuesta[w]).query /\ op = Head(respuesta[w]).op
<1>1. respuesta \in [Workers -> Seq(Mensaje)] /\ respuesta[w] \in Seq(Mensaje)
  BY DEF TypeOK, RedTypeOK
<1>2. respuesta'[w] = Tail(respuesta[w]) /\ \A v \in Workers : v # w => respuesta'[v] = respuesta[v]
  BY <1>1 DEF Consumir
<1>3. \A m : m \in ToSet(respuesta[w]) <=> (m = Head(respuesta[w]) \/ m \in ToSet(respuesta'[w]))
  BY <1>1, <1>2, SinElPrimero
<1>4. \A v \in Workers : Dijo(v, op, q)' => Dijo(v, op, q)
  BY <1>2, <1>3 DEF Dijo
<1>5. \A v \in Workers : Dijo(v, op, q) =>
         Dijo(v, op, q)' \/ (q = Head(respuesta[w]).query /\ op = Head(respuesta[w]).op)
  BY <1>2, <1>3 DEF Dijo
<1> QED BY <1>4, <1>5, DichoEs

\* w answers ops for the query it is at.
LEMMA DichoMas ==
  ASSUME TypeOK, TypeOK', NEW w \in Workers, ejec[w].query \in Queries,
         NEW ops \in Seq(Operaciones), NEW pc \in Nat, Responder(w, ops, pc), NEW q, NEW op
  PROVE  Dicho(q, op)' <=> Dicho(q, op) \/ (q = ejec[w].query /\ \E k \in 1..Len(ops) : ops[k] = op)
<1>1. respuesta \in [Workers -> Seq(Mensaje)] /\ respuesta[w] \in Seq(Mensaje)
  BY DEF TypeOK, RedTypeOK
<1>2. PICK f \in Seq(Mensaje) :
         /\ respuesta' = [respuesta EXCEPT ![w] = respuesta[w] \o f]
         /\ \A m \in ToSet(f) : m.query = ejec[w].query /\ \E i \in 1..Len(ops) : m.op = ops[i]
         /\ \A i \in 1..Len(ops) : \E m \in ToSet(f) : m.op = ops[i]
  BY ResponderVarios
<1>3. /\ respuesta'[w] = respuesta[w] \o f
      /\ \A v \in Workers : v # w => respuesta'[v] = respuesta[v]
  BY <1>1, <1>2
<1>4. \A m : m \in ToSet(respuesta'[w]) <=> (m \in ToSet(respuesta[w]) \/ m \in ToSet(f))
  BY <1>1, <1>2, <1>3, ConVarios
<1>5. (\E m \in ToSet(f) : m.query = q /\ m.op = op)
         <=> q = ejec[w].query /\ \E k \in 1..Len(ops) : ops[k] = op
  BY <1>2
<1>6. Dijo(w, op, q)' <=> Dijo(w, op, q) \/ \E m \in ToSet(f) : m.query = q /\ m.op = op
  BY <1>4 DEF Dijo
<1>7. \A v \in Workers : v # w => (Dijo(v, op, q)' <=> Dijo(v, op, q))
  BY <1>3 DEF Dijo
<1> QED BY <1>5, <1>6, <1>7, DichoEs

-------------------------------------------------------------------------------
(* What the steps of a Worker say *)

\* The cycle ends with one word on the query.
LEMMA VozAlTerminar ==
  ASSUME TypeOK, TypeOK', NEW w \in Workers, Terminar(w)
  PROVE  /\ ejec[w].query \in Queries /\ Trabaja(w, ejec[w].query) /\ ~error_storage[w]
         /\ \E i \in {"END", "DESCONOCIDA", "INCOMPLETA"}, fin \in Fines :
               /\ Decodifica(w, i)
               /\ fin = "QUERY_END" => i \in {"END", "INCOMPLETA"}
               /\ fin = "ERROR" => i \in {"DESCONOCIDA", "INCOMPLETA"}
               /\ \A q, op : Dicho(q, op)' <=> Dicho(q, op) \/ (q = ejec[w].query /\ op = fin)
<1>1. PICK i \in {"END", "DESCONOCIDA", "INCOMPLETA"}, fin \in Fines :
         /\ Decodifica(w, i) /\ Responder(w, <<fin>>, 0)
         /\ fin = "QUERY_END" => i \in {"END", "INCOMPLETA"}
         /\ fin = "ERROR" => i \in {"DESCONOCIDA", "INCOMPLETA"}
  BY DEF Terminar, Fines
<1>2. ejec[w].query \in Queries /\ Trabaja(w, ejec[w].query) /\ ~error_storage[w]
  BY <1>1, Decodificada
<1>3. <<fin>> \in Seq(Operaciones) /\ 0 \in Nat
  BY DEF Fines, Operaciones
<1>4. \A q, op : Dicho(q, op)' <=>
         Dicho(q, op) \/ (q = ejec[w].query /\ \E k \in 1..Len(<<fin>>) : <<fin>>[k] = op)
  BY <1>1, <1>2, <1>3, DichoMas
<1>5. \A op : (\E k \in 1..Len(<<fin>>) : <<fin>>[k] = op) <=> op = fin
  OBVIOUS
<1> QED BY <1>1, <1>2, <1>4, <1>5

\* An instruction that is rejected says ERROR of the query; one that is not, nothing.
LEMMA VozAlEjecutar ==
  ASSUME TypeOK, TypeOK', NEW w \in Workers, NEW i \in {"STORAGE", "READ", "COMMIT"}, Ejecutar(w, i)
  PROVE  /\ ejec[w].query \in Queries /\ Trabaja(w, ejec[w].query) /\ ~error_storage[w]
         /\ \/ \A q : \A op \in Fines : Dicho(q, op)' <=> Dicho(q, op)
            \/ \A q : \A op \in Fines :
                  Dicho(q, op)' <=> Dicho(q, op) \/ (q = ejec[w].query /\ op = "ERROR")
<1>1. Decodifica(w, i)
  BY DEF Ejecutar
<1>2. ejec[w].query \in Queries /\ Trabaja(w, ejec[w].query) /\ ~error_storage[w]
  BY <1>1, Decodificada
<1>3. ejec'[w].pc \in Nat
  BY <1>1, DecodificaTipo
<1>4. ASSUME NEW f \in {<<>>, <<"READ_RESULT">>}, Responder(w, f, ejec'[w].pc)
      PROVE  \A q : \A op \in Fines : Dicho(q, op)' <=> Dicho(q, op)
  <2>1. f \in Seq(Operaciones)
    BY PaquetesTipo
  <2>2. \A q, op : Dicho(q, op)' <=>
           Dicho(q, op) \/ (q = ejec[w].query /\ \E k \in 1..Len(f) : f[k] = op)
    BY <1>2, <1>3, <1>4, <2>1, DichoMas
  <2>3. \A k \in 1..Len(f) : f[k] \notin Fines
    BY DEF Fines
  <2> QED BY <2>2, <2>3
<1>5. ASSUME NEW f \in {<<"ERROR">>, <<"ERROR", "ERROR">>}, Responder(w, f, ejec'[w].pc)
      PROVE  \A q : \A op \in Fines :
                Dicho(q, op)' <=> Dicho(q, op) \/ (q = ejec[w].query /\ op = "ERROR")
  <2>1. f \in Seq(Operaciones)
    BY PaquetesTipo
  <2>2. \A q, op : Dicho(q, op)' <=>
           Dicho(q, op) \/ (q = ejec[w].query /\ \E k \in 1..Len(f) : f[k] = op)
    BY <1>2, <1>3, <1>5, <2>1, DichoMas
  <2>3. 1 \in 1..Len(f) /\ \A k \in 1..Len(f) : f[k] = "ERROR"
    OBVIOUS
  <2> QED BY <2>2, <2>3
<1> QED BY <1>2, <1>4, <1>5 DEF Ejecutar, Exito, Fallos

\* The other steps of the thread that executes say no end.
LEMMA SinVoz ==
  ASSUME TypeOK, TypeOK', NEW w \in Workers,
         \/ RecibirPath(w) \/ RecibirSinArchivo(w) \/ LiberarNombre(w) \/ AbandonarCiclo(w)
         \/ ChequearInterrupcion(w)
  PROVE  \A q : \A op \in Fines : Dicho(q, op)' <=> Dicho(q, op)
<1>1. respuesta \in [Workers -> Seq(Mensaje)]
  BY DEF TypeOK, RedTypeOK
<1>2. CASE UNCHANGED respuesta
  BY <1>2 DEF Dicho
<1>3. CASE RecibirSinArchivo(w)
  <2>1. PICK m : m = [op |-> "ERROR_QUERY_NO_ENCONTRADA", query |-> Head(despacho[w]).query, pc |-> 0]
    OBVIOUS
  <2>2. Head(despacho[w]) \in Asignacion
    BY <1>3 DEF RecibirSinArchivo, TypeOK, RedTypeOK
  <2>3. m \in Mensaje /\ m.op \notin Fines
    BY <2>1, <2>2 DEF Mensaje, Asignacion, Operaciones, Fines
  <2>4. respuesta'[w] = Append(respuesta[w], m) /\ \A v \in Workers : v # w => respuesta'[v] = respuesta[v]
    BY <1>1, <1>3, <2>1 DEF RecibirSinArchivo
  <2>5. \A x : x \in ToSet(respuesta'[w]) <=> (x \in ToSet(respuesta[w]) \/ x = m)
    BY <1>1, <2>3, <2>4, ConUnoMas
  <2>6. ASSUME NEW q, NEW op \in Fines, NEW v \in Workers PROVE Dijo(v, op, q)' <=> Dijo(v, op, q)
    BY <2>3, <2>4, <2>5 DEF Dijo
  <2> QED BY <2>6, DichoEs
<1>4. CASE ChequearInterrupcion(w) /\ hay_interrupcion[w]
  <2>1. PICK op1 \in {"QUERY_DESCONECTADO", "PC_UPDATE"} : Responder(w, <<op1>>, ejec[w].pc)
    BY <1>4 DEF ChequearInterrupcion
  <2>2. ejec[w].query \in Queries /\ ejec[w].pc \in Nat /\ <<op1>> \in Seq(Operaciones)
    BY <1>4, SuQuery DEF ChequearInterrupcion, Corre, Operaciones, TypeOK, InterpreteTypeOK, Pcb
  <2>3. \A q, op : Dicho(q, op)' <=>
           Dicho(q, op) \/ (q = ejec[w].query /\ \E k \in 1..Len(<<op1>>) : <<op1>>[k] = op)
    BY <2>1, <2>2, DichoMas
  <2>4. \A k \in 1..Len(<<op1>>) : <<op1>>[k] \notin Fines
    BY DEF Fines
  <2> QED BY <2>3, <2>4
<1> QED BY <1>2, <1>3, <1>4
        DEF RecibirPath, LiberarNombre, AbandonarCiclo, ChequearInterrupcion, Morir, red

-------------------------------------------------------------------------------
(* The ends that are on their way *)

\* The end of a query is told by the Worker that is at it, which said nothing before.
LEMMA VozNueva ==
  ASSUME InvOrden, TypeOK', [Next]_vars, NEW q \in Queries, NEW op \in Fines,
         Dicho(q, op)', ~Dicho(q, op)
  PROVE  /\ UNCHANGED master_vars /\ En(q, query_en_worker)
         /\ \A o \in Fines : ~Dicho(q, o) /\ (Dicho(q, o)' => o = op)
<1>1. TypeOK
  BY DEF InvOrden
<1>2. respuesta' # respuesta
  BY DEF Dicho
<1>3. PICK w \in Workers : HiloEjecutar(w) /\ UNCHANGED master_vars
  <2>1. ~ (PlanificadorNext \/ \E p \in Queries : IrseQC(p) \/ TerminarQC(p))
    <3> SUFFICES ASSUME PlanificadorNext \/ \E p \in Queries : IrseQC(p) \/ TerminarQC(p) PROVE FALSE
      OBVIOUS
    <3>1. PICK w \in Workers : respuesta[w] # <<>> /\ Consumir(w)
      BY <1>2, MasterEscucha
    <3> QED BY <1>1, <3>1, DichoMenos
  <2> QED BY <1>2, <2>1 DEF Next, vars, red, InterpreteNext, HiloInterrupciones, LeerInterrupcion,
                            MarcarInterrupcion, MorirWorker
<1>4. Terminar(w) \/ \E i \in {"STORAGE", "READ", "COMMIT"} : Ejecutar(w, i)
  BY <1>1, <1>3, SinVoz DEF HiloEjecutar
<1>5. ASSUME Trabaja(w, q), ~error_storage[w]
      PROVE  En(q, query_en_worker) /\ \A o \in Fines : ~Dicho(q, o)
  <2>1. En(q, query_en_worker) /\ \A v \in Workers : \A o \in Cierres : ~Dijo(v, o, q)
    BY <1>5, Trabajando
  <2> QED BY <1>1, <2>1, DichoEs DEF Fines, Cierres
<1>6. CASE Terminar(w)
  <2>1. PICK fin \in Fines :
           \A y, o : Dicho(y, o)' <=> Dicho(y, o) \/ (y = ejec[w].query /\ o = fin)
    BY <1>1, <1>6, VozAlTerminar
  <2>2. q = ejec[w].query /\ op = fin
    BY <2>1
  <2>3. Trabaja(w, q) /\ ~error_storage[w]
    BY <1>1, <1>6, <2>2, VozAlTerminar
  <2> QED BY <1>3, <1>5, <2>1, <2>2, <2>3
<1>7. ASSUME NEW i \in {"STORAGE", "READ", "COMMIT"}, Ejecutar(w, i)
      PROVE  /\ UNCHANGED master_vars /\ En(q, query_en_worker)
             /\ \A o \in Fines : ~Dicho(q, o) /\ (Dicho(q, o)' => o = op)
  <2>1. \A y : \A o \in Fines :
           Dicho(y, o)' <=> Dicho(y, o) \/ (y = ejec[w].query /\ o = "ERROR")
    BY <1>1, <1>7, VozAlEjecutar
  <2>2. q = ejec[w].query /\ op = "ERROR"
    BY <2>1
  <2>3. Trabaja(w, q) /\ ~error_storage[w]
    BY <1>1, <1>7, <2>2, VozAlEjecutar
  <2> QED BY <1>3, <1>5, <2>1, <2>2, <2>3
<1> QED BY <1>4, <1>6, <1>7

LEMMA VocesSiempre == Spec => []InvVoces
<1>1. Init => InvVoces
  <2> SUFFICES ASSUME Init PROVE InvVoces
    OBVIOUS
  <2>1. \A w \in Workers : respuesta[w] = <<>>
    BY DEF Init, RedInit
  <2> QED BY <2>1 DEF InvVoces, UnaVoz, Dicho
<1>2. InvOrden /\ TypeOK' /\ [Next]_vars /\ InvVoces => InvVoces'
  <2> SUFFICES ASSUME InvOrden, TypeOK', [Next]_vars, NEW q \in Queries, UnaVoz(q) PROVE UnaVoz(q)'
    BY DEF InvVoces
  <2>1. "QUERY_END" \in Fines /\ "ERROR" \in Fines
    BY DEF Fines
  <2> QED BY <2>1, VozNueva DEF UnaVoz
<1> QED BY <1>1, <1>2, OrdenSiempre, TipoCorrecto, PTL DEF Spec

-------------------------------------------------------------------------------
(* The steps apart *)

MismaAlta == \A q \in Queries : hilo'["alta"][q] = "no" <=> hilo["alta"][q] = "no"

\* Nothing happens to the life of a query.
Aparte == /\ UNCHANGED <<finales, respuesta, fase, ejec, hechas>> /\ MismaAlta
          /\ \A w \in Workers : Vivo(w)' <=> Vivo(w)
          /\ \A q \in Queries : En(q, query_en_worker) => En(q, query_en_worker)'

LEMMA ApartesDeQuery ==
  ASSUME TypeOK, UNCHANGED worker_vars, NEW x \in Queries,
         HiloAlta(x) \/ HiloTimer(x) \/ HiloVigia(x) \/ IrseQC(x) \/ TerminarQC(x)
  PROVE  Aparte
<1>1. CASE HiloAlta(x)
  <2>1. UNCHANGED <<finales, respuesta, proceso, query_en_worker>>
    BY <1>1 DEF HiloAlta, AsignarSocket, AsignarEstado, Encolar, CrearTimer, Chequear, Desalojar,
                Publicar, listas, haciaQC, red
  <2>2. MismaAlta
    BY <1>1, SanosDeAlta DEF MismaAlta, Sano
  <2> QED BY <2>1, <2>2 DEF Aparte, Vivo, worker_vars
<1>2. CASE HiloTimer(x)
  <2>1. UNCHANGED <<finales, respuesta, proceso, query_en_worker>>
    BY <1>2 DEF HiloTimer, Envejecer, Chequear, Desalojar, Releer, DespertarTimer, listas, haciaQC, red
  <2>2. MismaAlta
    BY <1>2, SanosDeTimer DEF MismaAlta, Sano
  <2> QED BY <2>1, <2>2 DEF Aparte, Vivo, worker_vars
<1>3. CASE HiloVigia(x)
  <2>1. UNCHANGED <<finales, respuesta, proceso, query_en_worker>>
    BY <1>3 DEF HiloVigia, MirarSinNovedad, MirarDesconexion, VigiaCorriendo, Desalojar, VigiaLista,
                VigiaQuitar, VigiaRobar, VigiaSalir, VigiaJoin, listas, haciaQC, red
  <2>2. MismaAlta
    <3>1. CASE MirarDesconexion(x)
      <4>1. hilo \in [Hilos -> [Queries -> Pasos]]
        BY DEF TypeOK, PlanificadorTypeOK, DeQueriesOK
      <4> QED BY <3>1, <4>1 DEF MirarDesconexion, Avanza, MismaAlta, Hilos
    <3>2. CASE ~MirarDesconexion(x)
      BY <1>3, <3>2, SanosDeVigia DEF MismaAlta, Sano
    <3> QED BY <3>1, <3>2
  <2> QED BY <2>1, <2>2 DEF Aparte, Vivo, worker_vars
<1>4. CASE IrseQC(x) \/ TerminarQC(x)
  BY <1>4 DEF IrseQC, TerminarQC, Aparte, MismaAlta, Vivo, worker_vars, listas, deQueries, red
<1> QED BY <1>1, <1>2, <1>3, <1>4

LEMMA ApartesDeWorker ==
  ASSUME TypeOK, UNCHANGED worker_vars, NEW w \in Workers,
         \/ EsperarQuery(w) \/ ValidarWorker(w) \/ TomarQuery(w) \/ MarcarRunning(w)
         \/ RegistrarYEnviar(w) \/ RecibirPaquete(w) \/ Reencolar(w) \/ PublicarDesalojada(w)
         \/ RecibirNulo(w) \/ AtenderInterrupcion(w) \/ DetectarCaida(w) \/ DescontarWorker(w)
         \/ RetirarWorker(w)
  PROVE  Aparte
<1>1. UNCHANGED <<finales, respuesta>>
  BY DEF EsperarQuery, ValidarWorker, TomarQuery, MarcarRunning, RegistrarYEnviar, RecibirPaquete,
         Reencolar, PublicarDesalojada, RecibirNulo, AtenderInterrupcion, DetectarCaida,
         DescontarWorker, RetirarWorker, haciaQC, red
<1>2. MismaAlta
  BY SanosDeWorker DEF MismaAlta, Sano, HiloWorker, HiloVigiaWorker
<1>3. \A v \in Workers : Vivo(v)' <=> Vivo(v)
  <2>1. CASE AtenderInterrupcion(w)
    BY <2>1 DEF AtenderInterrupcion, Vivo, TypeOK, RedTypeOK
  <2>2. CASE ~AtenderInterrupcion(w)
    <3>1. UNCHANGED proceso
      BY <2>2 DEF EsperarQuery, ValidarWorker, TomarQuery, MarcarRunning, RegistrarYEnviar,
                  RecibirPaquete, Reencolar, PublicarDesalojada, RecibirNulo, DetectarCaida,
                  DescontarWorker, RetirarWorker, red
    <3> QED BY <3>1 DEF Vivo
  <2> QED BY <2>1, <2>2
<1>4. \A q \in Queries : En(q, query_en_worker) => En(q, query_en_worker)'
  <2>1. CASE RegistrarYEnviar(w)
    <3>1. enMano[w] \in Queries /\ query_en_worker' = Append(query_en_worker, enMano[w])
      BY <2>1, EnManoEsQuery DEF RegistrarYEnviar, EnLaMano
    <3>2. query_en_worker \in Seq(Queries)
      BY DEF TypeOK, PlanificadorTypeOK, ListasOK
    <3> QED BY <3>1, <3>2, Agregar
  <2>2. CASE ~RegistrarYEnviar(w)
    BY <2>2 DEF EsperarQuery, ValidarWorker, TomarQuery, MarcarRunning, RecibirPaquete,
                Reencolar, PublicarDesalojada, RecibirNulo, AtenderInterrupcion, DetectarCaida,
                DescontarWorker, RetirarWorker, listas
  <2> QED BY <2>1, <2>2
<1> QED BY <1>1, <1>2, <1>3, <1>4 DEF Aparte, worker_vars

\* What the Master reads from a Worker.
Recepcion(w) == \/ RecibirRead(w) \/ RecibirEnd(w) \/ RecibirError(w) \/ AbandonarWorker(w)
                \/ RecibirPC(w) \/ RecibirDesconectado(w)

\* The steps of the system, as the life of a query tells them apart.
LEMMA PasosDeVida ==
  ASSUME TypeOK, [Next]_vars
  PROVE  \/ Aparte
         \/ /\ UNCHANGED worker_vars
            /\ \/ \E q \in Queries : CrearQuery(q)
               \/ \E w \in Workers : \/ IdentificarWorker(w) \/ AvisarCaida(w) \/ ResponderCaida(w)
                                     \/ Recepcion(w)
         \/ /\ UNCHANGED master_vars
            /\ \E w \in Workers : HiloEjecutar(w) \/ MorirWorker(w)
<1>1. CASE PlanificadorNext /\ UNCHANGED worker_vars
  <2>1. CASE Caer
    BY <1>1, <2>1 DEF Caer, Aparte, MismaAlta, Vivo, worker_vars, listas, deQueries, haciaQC, red
  <2> QED BY <1>1, <2>1, ApartesDeQuery, ApartesDeWorker
          DEF PlanificadorNext, HiloWorker, HiloVigiaWorker, Recepcion
<1>2. CASE (\E q \in Queries : IrseQC(q) \/ TerminarQC(q)) /\ UNCHANGED worker_vars
  BY <1>2, ApartesDeQuery
<1>3. CASE InterpreteNext /\ UNCHANGED master_vars
  <2>1. ASSUME NEW w \in Workers, HiloInterrupciones(w) PROVE Aparte
    BY <1>3, <2>1 DEF HiloInterrupciones, LeerInterrupcion, MarcarInterrupcion, Aparte, MismaAlta, Vivo,
                      master_vars, listas, deQueries, haciaQC, red
  <2> QED BY <1>3, <2>1 DEF InterpreteNext
<1>4. CASE UNCHANGED vars
  BY <1>4 DEF vars, Aparte, MismaAlta, Vivo, master_vars, worker_vars, listas, deQueries, haciaQC, red
<1> QED BY <1>1, <1>2, <1>3, <1>4 DEF Next

-------------------------------------------------------------------------------
(* The end that is on its way finds its query *)

LEMMA RespuestaQueda ==
  ASSUME InvOrden, [Next]_vars, NEW q \in Queries, finales[q] # <<>>
  PROVE  finales'[q] # <<>>
<1>1. finales[q] \in Seq({"END", "ERROR", "WORKER_DESCONECTADO"})
  BY DEF InvOrden, TypeOK, PlanificadorTypeOK, HaciaQCOK
<1>2. CASE finales'[q] # finales[q]
  <2>1. PICK r \in {"END", "ERROR", "WORKER_DESCONECTADO"} : finales'[q] = Append(finales[q], r)
    BY <1>2, FinalNuevo
  <2> QED BY <1>1, <2>1, UnaMas
<1> QED BY <1>2

\* A query leaves query_en_worker when it is answered, or preempted, and then nothing else
\* of it is on its way.
LEMMA SalirDeWorker ==
  ASSUME InvOrden, InvOrden', [Next]_vars, SinPerdidas, EnRegla, NEW q \in Queries,
         En(q, query_en_worker), ~En(q, query_en_worker)'
  PROVE  finales'[q] # <<>> \/ \A op \in Fines : ~Dicho(q, op)'
<1>1. TypeOK /\ TypeOK' /\ SinRepetidos(query_en_worker) /\ query_en_worker \in Seq(Queries)
  BY DEF InvOrden, UnSoloLugar, TypeOK, PlanificadorTypeOK, ListasOK
<1>2. ~Aparte /\ query_en_worker' # query_en_worker
  BY DEF Aparte
<1>3. PICK w \in Workers : Recepcion(w)
  <2>1. ASSUME NEW x \in Queries, CrearQuery(x) PROVE FALSE
    BY <1>2, <2>1 DEF CrearQuery, listas
  <2>2. ASSUME NEW w \in Workers, IdentificarWorker(w) \/ AvisarCaida(w) \/ ResponderCaida(w)
        PROVE  FALSE
    BY <1>2, <2>2 DEF IdentificarWorker, AvisarCaida, ResponderCaida, listas
  <2> QED BY <1>1, <1>2, <2>1, <2>2, PasosDeVida DEF master_vars, listas
<1>4. PICK x : x = Head(respuesta[w]).query
  OBVIOUS
<1>5. ASSUME EliminarPorId(query_en_worker, x, query_en_worker') PROVE x = q
  BY <1>1, <1>5, Eliminar
<1>6. CASE RecibirRead(w) \/ AbandonarWorker(w)
  BY <1>2, <1>6 DEF RecibirRead, AbandonarWorker, listas
<1>7. CASE RecibirEnd(w) \/ RecibirError(w)
  <2>1. PICK r \in {"END", "ERROR", "WORKER_DESCONECTADO"} : Recibido(q, r)
    BY <1>4, <1>5, <1>7 DEF RecibirEnd, RecibirError
  <2>2. CASE finales[q] # <<>>
    BY <2>2, RespuestaQueda
  <2>3. CASE finales[q] = <<>>
    <3>1. conexion[q] = "abierta"
      BY <2>3 DEF SinPerdidas
    <3>2. finales \in [Queries -> Seq({"END", "ERROR", "WORKER_DESCONECTADO"})]
      BY <1>1 DEF TypeOK, PlanificadorTypeOK, HaciaQCOK
    <3>3. finales'[q] = Append(finales[q], r)
      BY <2>1, <3>1, <3>2 DEF Recibido
    <3>4. finales[q] \in Seq({"END", "ERROR", "WORKER_DESCONECTADO"})
      BY <3>2
    <3> QED BY <3>3, <3>4, UnaMas
  <2> QED BY <2>2, <2>3
<1>8. CASE RecibirPC(w)
  <2>1. x = q /\ enMano' = [enMano EXCEPT ![w] = q] /\ Sigue(w, "reencolar")
    BY <1>2, <1>4, <1>5, <1>8 DEF RecibirPC
  <2>2. EnEspera(q)'
    BY <1>1, <2>1 DEF Sigue, EnEspera, EnMano, EnLaMano, TypeOK, PlanificadorTypeOK, AtencionOK
  <2>3. Turno(q)'
    BY DEF InvOrden, EnTurno
  <2>4. \A v \in Workers : ~Cerrada(v, q)'
    BY <2>2, <2>3 DEF Turno
  <2>5. \A v \in Workers : \A op \in Fines : ~Dijo(v, op, q)'
    BY <2>4 DEF Cerrada, Fines, Cierres
  <2> QED BY <1>1, <2>5, DichoEs
<1>9. CASE RecibirDesconectado(w)
  <2>1. /\ respuesta[w] \in Seq(Mensaje) /\ respuesta[w] # <<>>
        /\ Head(respuesta[w]).op = "QUERY_DESCONECTADO"
    BY <1>1, <1>9 DEF RecibirDesconectado, Recibe, Llega, TypeOK, RedTypeOK
  <2>2. Head(respuesta[w]) \in ToSet(respuesta[w])
    BY <2>1, SinElPrimero
  <2> QED BY <2>1, <2>2 DEF EnRegla, Callada, Muda
<1> QED BY <1>3, <1>6, <1>7, <1>8, <1>9 DEF Recepcion

LEMMA AtendidasSiguen ==
  ASSUME InvOrden, InvOrden', InvFinal, InvEnRegla, InvAtendidas, [Next]_vars, SinPerdidas',
         NEW q \in Queries
  PROVE  Atendida(q)'
<1>1. SinPerdidas /\ EnRegla /\ Atendida(q) /\ TypeOK'
  BY PerdidasAntes DEF InvOrden, InvFinal, InvEnRegla, InvAtendidas
<1>2. ASSUME NEW op \in Fines, Dicho(q, op)' PROVE En(q, query_en_worker)' \/ finales'[q] # <<>>
  <2>1. CASE Dicho(q, op)
    <3>1. CASE finales[q] # <<>>
      BY <3>1, RespuestaQueda
    <3>2. CASE En(q, query_en_worker)
      BY <1>1, <1>2, <3>2, SalirDeWorker
    <3> QED BY <1>1, <2>1, <3>1, <3>2 DEF Atendida
  <2>2. CASE ~Dicho(q, op)
    <3>1. En(q, query_en_worker) /\ UNCHANGED master_vars
      BY <1>1, <1>2, <2>2, VozNueva
    <3> QED BY <3>1 DEF master_vars, listas
  <2> QED BY <2>1, <2>2
<1> QED BY <1>2 DEF Atendida

LEMMA AtendidasSiempre == Spec => []InvAtendidas
<1>1. Init => InvAtendidas
  <2> SUFFICES ASSUME Init PROVE InvAtendidas
    OBVIOUS
  <2>1. \A w \in Workers : respuesta[w] = <<>>
    BY DEF Init, RedInit
  <2> QED BY <2>1 DEF InvAtendidas, Atendida, Dicho
<1>2. InvOrden /\ InvOrden' /\ InvFinal /\ InvEnRegla /\ InvAtendidas /\ [Next]_vars => InvAtendidas'
  BY AtendidasSiguen DEF InvAtendidas
<1> QED BY <1>1, <1>2, OrdenSiempre, FinalSiempre, EnReglaSiempre, PTL DEF Spec

-------------------------------------------------------------------------------
(* The steps of the Master, in the life of a query *)

\* A query that is answered is with nobody; one that waits to be queued was not.
LEMMA SinRespuesta ==
  ASSUME InvFinal, SinPerdidas, NEW q \in Queries, EnEspera(q) \/ En(q, query_en_worker)
  PROVE  finales[q] = <<>>
BY DEF InvFinal, UnFinal, Fuera, SinPerdidas

LEMMA VidaAparte ==
  ASSUME Aparte
  PROVE  UNCHANGED Ciclo!vars
<1>1. \A q \in Queries : Igual(q)
  BY DEF Aparte, MismaAlta, Igual, Dicho, EnInterprete
<1>2. \A q \in Queries : VidaDe(q)' = VidaDe(q) /\ ResultadoDe(q)' = ResultadoDe(q)
  BY <1>1, VidaIgual
<1> QED BY <1>2, CicloQuieto DEF Aparte

LEMMA VidaAlLlegar ==
  ASSUME InvOrden, InvFinal, SinPerdidas, UNCHANGED worker_vars, NEW x \in Queries, CrearQuery(x)
  PROVE  Ciclo!Llegar(x)
<1>1. /\ UNCHANGED <<finales, respuesta, proceso, fase, ejec, hechas>>
      /\ hilo["alta"][x] = "no" /\ hilo'["alta"][x] # "no"
      /\ \A q \in Queries : q # x => hilo'["alta"][q] = hilo["alta"][q]
  <2>1. hilo \in [Hilos -> [Queries -> Pasos]]
    BY DEF InvOrden, TypeOK, PlanificadorTypeOK, DeQueriesOK
  <2> QED BY <2>1 DEF CrearQuery, Hilos, worker_vars, haciaQC, red
<1>2. EnEspera(x)
  BY <1>1 DEF EnEspera, SinEncolar
<1>3. finales[x] = <<>> /\ \A w \in Workers : ~Trabaja(w, x) /\ ~Cerrada(w, x)
  BY <1>2, SinRespuesta DEF InvOrden, EnTurno, Turno
<1>4. ~EnInterprete(x) /\ ~Dicho(x, "QUERY_END") /\ ~Dicho(x, "ERROR")
  <2>1. Dicho(x, "QUERY_END") => \E w \in Workers : Dijo(w, "QUERY_END", x)
    BY <1>1, DichoAhora DEF InvOrden
  <2>2. Dicho(x, "ERROR") => \E w \in Workers : Dijo(w, "ERROR", x)
    BY <1>1, DichoAhora DEF InvOrden
  <2> QED BY <1>3, <2>1, <2>2 DEF EnInterprete, Trabaja, Cerrada, Cierres
<1>5. VidaDe(x) = "no" /\ VidaDe(x)' = "espera" /\ ResultadoDe(x)' = ResultadoDe(x)
  <2>1. ~EnInterprete(x)' /\ ~Dicho(x, "QUERY_END")' /\ ~Dicho(x, "ERROR")'
    BY <1>1, <1>4 DEF EnInterprete, Dicho
  <2> QED BY <1>1, <1>3, <1>4, <2>1 DEF VidaDe, ResultadoDe
<1>6. \A q \in Queries \ {x} : Igual(q)
  BY <1>1 DEF Igual, Dicho, EnInterprete
<1>7. \A q \in Queries \ {x} : VidaDe(q)' = VidaDe(q) /\ ResultadoDe(q)' = ResultadoDe(q)
  BY <1>6, VidaIgual
<1>8. Ciclo!Pasa(x, "espera")
  BY <1>5, <1>7, VidaPasa
<1>9. (\E w \in Workers : Vivo(w))' = \E w \in Workers : Vivo(w)
  BY <1>1 DEF Vivo
<1> QED BY <1>1, <1>5, <1>7, <1>8, <1>9 DEF Ciclo!Llegar

LEMMA VidaAlIdentificar ==
  ASSUME TypeOK, UNCHANGED worker_vars, NEW w \in Workers, IdentificarWorker(w)
  PROVE  Ciclo!Cambiar \/ UNCHANGED Ciclo!vars
<1>1. /\ UNCHANGED <<finales, respuesta, hilo, fase, ejec, hechas>>
      /\ Vivo(w)' /\ \A v \in Workers : Vivo(v) => Vivo(v)'
  BY DEF IdentificarWorker, haciaQC, deQueries, worker_vars, Vivo, TypeOK, RedTypeOK
<1>2. \A q \in Queries : Igual(q)
  BY <1>1 DEF Igual, Dicho, EnInterprete
<1>3. \A q \in Queries : VidaDe(q)' = VidaDe(q) /\ ResultadoDe(q)' = ResultadoDe(q)
  BY <1>2, VidaIgual
<1>4. CASE \E v \in Workers : Vivo(v)
  BY <1>1, <1>3, <1>4, CicloQuieto
<1>5. CASE ~ \E v \in Workers : Vivo(v)
  <2>1. (\E v \in Workers : Vivo(v))' = ~ \E v \in Workers : Vivo(v)
    BY <1>1, <1>5
  <2> QED BY <1>1, <1>3, <2>1 DEF Ciclo!Cambiar
<1> QED BY <1>4, <1>5

\* The Master answers the Query Control of x what a Worker said of it.
LEMMA VidaAlResponder ==
  ASSUME InvOrden, TypeOK', InvFinal, InvVoces, SinPerdidas, UNCHANGED <<worker_vars, proceso, hilo>>,
         NEW w \in Workers, NEW op \in Fines, Llega(w, op), Consumir(w),
         NEW x \in Queries, x = Head(respuesta[w]).query, En(x, query_en_worker),
         Recibido(x, IF op = "ERROR" THEN "ERROR" ELSE "END")
  PROVE  Ciclo!Responder(x)
<1> DEFINE r == IF op = "ERROR" THEN "ERROR" ELSE "END"
<1>1. TypeOK /\ UnaVoz(x) /\ finales[x] = <<>> /\ conexion[x] = "abierta"
  BY SinRespuesta DEF InvOrden, InvVoces, SinPerdidas
<1>2. finales' = [finales EXCEPT ![x] = <<r>>]
  <2>1. finales' = [finales EXCEPT ![x] = Append(finales[x], r)]
    BY <1>1 DEF Recibido
  <2>2. Append(<<>>, r) = <<r>>
    OBVIOUS
  <2> QED BY <1>1, <2>1, <2>2
<1>3. finales'[x] = <<r>> /\ \A q \in Queries \ {x} : finales'[q] = finales[q]
  BY <1>1, <1>2 DEF TypeOK, PlanificadorTypeOK, HaciaQCOK
<1>4. respuesta[w] \in Seq(Mensaje) /\ respuesta[w] # <<>> /\ Head(respuesta[w]).op = op
  BY <1>1 DEF Llega, TypeOK, RedTypeOK
<1>5. Dicho(x, op)
  <2>1. 1 \in 1..Len(respuesta[w]) /\ Head(respuesta[w]) = respuesta[w][1]
    BY <1>4
  <2> QED BY <1>4, <2>1 DEF Dicho
<1>6. VidaDe(x) = "dicha" /\ ResultadoDe(x) = r
  BY <1>1, <1>5 DEF VidaDe, ResultadoDe, UnaVoz, Fines
<1>7. VidaDe(x)' = "respondida" /\ ResultadoDe(x)' = r
  <2>1. <<r>> # <<>> /\ Head(<<r>>) = r
    OBVIOUS
  <2> QED BY <1>3, <2>1 DEF VidaDe, ResultadoDe
<1>8. \A q \in Queries \ {x} : Igual(q)
  <2>1. \A q \in Queries \ {x} : \A o \in Fines : Dicho(q, o)' <=> Dicho(q, o)
    BY <1>1, <1>4, DichoMenos
  <2> QED BY <1>3, <2>1 DEF Igual, EnInterprete, worker_vars
<1>9. \A q \in Queries \ {x} : VidaDe(q)' = VidaDe(q) /\ ResultadoDe(q)' = ResultadoDe(q)
  BY <1>8, VidaIgual
<1>10. Ciclo!Pasa(x, "respondida")
  BY <1>7, <1>9, VidaPasa
<1>11. (\E v \in Workers : Vivo(v))' = \E v \in Workers : Vivo(v)
  BY DEF Vivo
<1> HIDE DEF r
<1> QED BY <1>2, <1>6, <1>7, <1>9, <1>10, <1>11 DEF Ciclo!Responder, worker_vars

LEMMA VidaAlRecibir ==
  ASSUME InvOrden, TypeOK', InvFinal, InvVoces, InvAtendidas, SinPerdidas, UNCHANGED worker_vars,
         NEW w \in Workers, Recepcion(w)
  PROVE  (\E x \in Queries : Ciclo!Responder(x)) \/ UNCHANGED Ciclo!vars
<1>1. TypeOK /\ respuesta[w] \in Seq(Mensaje) /\ respuesta[w] # <<>> /\ Consumir(w)
  BY DEF InvOrden, TypeOK, RedTypeOK, Recepcion, RecibirRead, RecibirEnd, RecibirError, AbandonarWorker,
         RecibirPC, RecibirDesconectado, Recibe, Llega
<1>2. UNCHANGED <<hilo, proceso>>
  BY DEF Recepcion, RecibirRead, RecibirEnd, RecibirError, AbandonarWorker, RecibirPC,
         RecibirDesconectado, deQueries
<1>3. PICK x \in Queries : x = Head(respuesta[w]).query
  <2>1. Head(respuesta[w]) \in Mensaje
    BY <1>1
  <2> QED BY <2>1 DEF Mensaje
<1>4. CASE RecibirEnd(w) \/ RecibirError(w)
  <2>1. PICK op \in Fines :
           /\ Llega(w, op) /\ Recibido(x, IF op = "ERROR" THEN "ERROR" ELSE "END")
           /\ EliminarPorId(query_en_worker, x, query_en_worker')
    BY <1>3, <1>4 DEF RecibirEnd, RecibirError, Recibe, Fines
  <2>2. En(x, query_en_worker)
    BY <2>1, Eliminar DEF InvOrden, UnSoloLugar, TypeOK, PlanificadorTypeOK, ListasOK
  <2>3. Ciclo!Responder(x)
    BY <1>1, <1>2, <1>3, <2>1, <2>2, VidaAlResponder
  <2> QED BY <2>3
<1>5. CASE RecibirRead(w) \/ AbandonarWorker(w) \/ RecibirPC(w) \/ RecibirDesconectado(w)
  <2>1. UNCHANGED finales
    BY <1>5 DEF RecibirRead, AbandonarWorker, RecibirPC, RecibirDesconectado, haciaQC
  <2>2. \/ Head(respuesta[w]).op \notin Fines
        \/ Head(respuesta[w]).op \in Fines /\ ~En(x, query_en_worker)
    BY <1>3, <1>5 DEF RecibirRead, AbandonarWorker, RecibirPC, RecibirDesconectado, Recibe, Llega, Fines
  <2>3. ASSUME NEW q \in Queries PROVE Igual(q)
    <3>1. ASSUME finales[q] = <<>>, NEW op \in Fines PROVE Dicho(q, op)' <=> Dicho(q, op)
      <4>1. ASSUME Dicho(q, op), q = x, op = Head(respuesta[w]).op PROVE FALSE
        BY <2>2, <3>1, <4>1 DEF InvAtendidas, Atendida
      <4> QED BY <1>1, <1>3, <4>1, DichoMenos
    <3> QED BY <1>2, <2>1, <3>1 DEF Igual, EnInterprete, worker_vars
  <2>4. \A q \in Queries : VidaDe(q)' = VidaDe(q) /\ ResultadoDe(q)' = ResultadoDe(q)
    BY <2>3, VidaIgual
  <2> QED BY <1>2, <2>1, <2>4, CicloQuieto DEF Vivo, worker_vars
<1> QED BY <1>4, <1>5 DEF Recepcion

-------------------------------------------------------------------------------
(* The steps of a Worker, in the life of a query *)

\* The query that an interpreter is at runs, unless its end is known.
LEMMA Corriendo ==
  ASSUME InvOrden, InvFinal, SinPerdidas, NEW w \in Workers, NEW x \in Queries, Trabaja(w, x)
  PROVE  /\ EnInterprete(x) /\ hilo["alta"][x] # "no"
         /\ ~error_storage[w] => /\ finales[x] = <<>>
                                 /\ \A op \in Fines : ~Dicho(x, op)
                                 /\ VidaDe(x) = "corre" /\ ResultadoDe(x) = "ninguno"
<1>1. EnInterprete(x)
  BY DEF EnInterprete, Trabaja
<1>2. hilo["alta"][x] # "no"
  BY Trabajando DEF EnEspera, SinEncolar
<1>3. ASSUME ~error_storage[w]
      PROVE  finales[x] = <<>> /\ \A op \in Fines : ~Dicho(x, op)
  <2>1. En(x, query_en_worker) /\ \A v \in Workers : \A op \in Cierres : ~Dijo(v, op, x)
    BY <1>3, Trabajando
  <2>2. ASSUME NEW op \in Fines, Dicho(x, op) PROVE FALSE
    BY <2>1, <2>2, DichoAhora DEF InvOrden, Fines, Cierres
  <2> QED BY <2>1, <2>2, SinRespuesta
<1>4. ASSUME ~error_storage[w] PROVE VidaDe(x) = "corre" /\ ResultadoDe(x) = "ninguno"
  BY <1>1, <1>3, <1>4 DEF VidaDe, ResultadoDe, Fines
<1> QED BY <1>1, <1>2, <1>3, <1>4

\* The interpreter of w stays at its query or leaves it, and no other one moves.
LEMMA InterpretesAjenos ==
  ASSUME TypeOK, NEW w \in Workers, NEW x, x = ejec[w].query, NEW f, Pasa(w, f),
         \A v \in Workers : v # w => ejec'[v] = ejec[v],
         fase[w] \in {"ciclo", "chequear"}, f \notin {"ciclo", "chequear"} \/ ejec'[w].query = x
  PROVE  /\ \A q : q # x => (EnInterprete(q)' <=> EnInterprete(q))
         /\ f \in {"ciclo", "chequear"} => EnInterprete(x)'
<1>1. fase'[w] = f /\ \A v \in Workers : v # w => fase'[v] = fase[v]
  BY DEF Pasa, TypeOK, InterpreteTypeOK
<1> QED BY <1>1 DEF EnInterprete

\* The cycle is left without a word on the query: it waits again, unless its end is known.
LEMMA VidaAlDejar ==
  ASSUME InvOrden, InvFinal, SinPerdidas, NEW w \in Workers, fase[w] \in {"ciclo", "chequear"},
         Pasa(w, "recibir"), UNCHANGED <<ejec, finales, hilo, hechas, proceso>>,
         \A q : \A op \in Fines : Dicho(q, op)' <=> Dicho(q, op)
  PROVE  (\E x \in Queries : Ciclo!Desalojar(x)) \/ UNCHANGED Ciclo!vars
<1>1. TypeOK
  BY DEF InvOrden
<1>2. PICK x \in Queries : x = ejec[w].query /\ Trabaja(w, x)
  BY <1>1, SuQuery
<1>3. EnInterprete(x) /\ hilo["alta"][x] # "no" /\ ~EnInterprete(x)'
  <2>1. fase'[w] = "recibir" /\ \A v \in Workers : v # w => ~Trabaja(v, x) /\ fase'[v] = fase[v]
    BY <1>1, <1>2, Trabajando DEF Pasa, TypeOK, InterpreteTypeOK
  <2> QED BY <1>2, <2>1, Corriendo DEF EnInterprete, Trabaja
<1>4. \A q \in Queries \ {x} : Igual(q)
  BY <1>1, <1>2, InterpretesAjenos DEF Igual
<1>5. \A q \in Queries \ {x} : VidaDe(q)' = VidaDe(q) /\ ResultadoDe(q)' = ResultadoDe(q)
  BY <1>4, VidaIgual
<1>6. (\E v \in Workers : Vivo(v))' = \E v \in Workers : Vivo(v)
  BY DEF Vivo
<1>7. /\ Dicho(x, "QUERY_END")' <=> Dicho(x, "QUERY_END")
      /\ Dicho(x, "ERROR")' <=> Dicho(x, "ERROR")
  BY DEF Fines
<1>8. ResultadoDe(x)' = ResultadoDe(x)
  BY <1>7 DEF ResultadoDe
<1>9. CASE finales[x] # <<>> \/ Dicho(x, "QUERY_END") \/ Dicho(x, "ERROR")
  <2>1. VidaDe(x)' = VidaDe(x)
    BY <1>7, <1>9 DEF VidaDe
  <2> QED BY <1>5, <1>6, <1>8, <2>1, CicloQuieto
<1>10. CASE ~(finales[x] # <<>> \/ Dicho(x, "QUERY_END") \/ Dicho(x, "ERROR"))
  <2>1. VidaDe(x) = "corre" /\ VidaDe(x)' = "espera"
    BY <1>3, <1>7, <1>10 DEF VidaDe
  <2>2. Ciclo!Pasa(x, "espera")
    BY <1>5, <2>1, VidaPasa
  <2>3. Ciclo!Desalojar(x)
    BY <1>5, <1>6, <1>8, <2>1, <2>2 DEF Ciclo!Desalojar
  <2> QED BY <2>3
<1> QED BY <1>9, <1>10

LEMMA VidaAlTomar ==
  ASSUME InvOrden, TypeOK', InvFinal, SinPerdidas, UNCHANGED master_vars, NEW w \in Workers, RecibirPath(w)
  PROVE  \E x \in Queries : Ciclo!Tomar(x)
<1>1. TypeOK
  BY DEF InvOrden
<1>2. PICK a : a = Head(despacho[w])
  OBVIOUS
<1>3. a \in ToSet(despacho[w]) /\ a \in Asignacion
  <2>1. despacho[w] \in Seq(Asignacion) /\ despacho[w] # <<>>
    BY <1>1 DEF RecibirPath, TypeOK, RedTypeOK
  <2> QED BY <1>2, <2>1, SinElPrimero
<1>4. PICK x \in Queries : x = a.query
  BY <1>3 DEF Asignacion
<1>5. Asignada(w, x)
  BY <1>3, <1>4 DEF Asignada
<1>6. /\ En(x, query_en_worker) /\ ~EnEspera(x)
      /\ \A v \in Workers : ~Trabaja(v, x) /\ ~Cerrada(v, x)
  BY <1>5 DEF InvOrden, EnTurno, Turno
<1>7. finales[x] = <<>> /\ ~EnInterprete(x) /\ \A op \in Fines : ~Dicho(x, op)
  <2>1. ASSUME NEW op \in Fines, Dicho(x, op) PROVE FALSE
    BY <1>1, <1>6, <2>1, DichoAhora DEF Fines, Cierres, Cerrada
  <2> QED BY <1>6, <2>1, SinRespuesta DEF EnInterprete, Trabaja
<1>8. hilo["alta"][x] # "no"
  BY <1>6 DEF EnEspera, SinEncolar
<1>9. VidaDe(x) = "espera" /\ ResultadoDe(x) = "ninguno"
  BY <1>7, <1>8 DEF VidaDe, ResultadoDe, Fines
<1>10. /\ fase[w] = "recibir" /\ fase'[w] = "ciclo" /\ ejec'[w].query = x
       /\ \A v \in Workers : v # w => fase'[v] = fase[v] /\ ejec'[v] = ejec[v]
  BY <1>1, <1>2, <1>4 DEF RecibirPath, Corre, Pasa, TypeOK, InterpreteTypeOK
<1>11. /\ EnInterprete(x)'
       /\ \A q \in Queries : q # x => (EnInterprete(q)' <=> EnInterprete(q))
  BY <1>10 DEF EnInterprete
<1>12. \A q : \A op \in Fines : Dicho(q, op)' <=> Dicho(q, op)
  BY <1>1, SinVoz
<1>13. UNCHANGED <<finales, hilo, hechas, proceso>>
  BY DEF RecibirPath, master_vars, haciaQC, deQueries
<1>14. VidaDe(x)' = "corre" /\ ResultadoDe(x)' = "ninguno"
  <2>1. ~Dicho(x, "QUERY_END")' /\ ~Dicho(x, "ERROR")'
    BY <1>7, <1>12 DEF Fines
  <2> QED BY <1>7, <1>11, <1>13, <2>1 DEF VidaDe, ResultadoDe
<1>15. \A q \in Queries \ {x} : Igual(q)
  BY <1>11, <1>12, <1>13 DEF Igual
<1>16. \A q \in Queries \ {x} : VidaDe(q)' = VidaDe(q) /\ ResultadoDe(q)' = ResultadoDe(q)
  BY <1>15, VidaIgual
<1>17. Ciclo!Pasa(x, "corre")
  BY <1>14, <1>16, VidaPasa
<1>18. Vivo(w) /\ (\E v \in Workers : Vivo(v))' = \E v \in Workers : Vivo(v)
  BY <1>13 DEF RecibirPath, Corre, Vivo
<1> QED BY <1>9, <1>13, <1>14, <1>16, <1>17, <1>18 DEF Ciclo!Tomar

\* The Worker tells the end of the query it is at.
LEMMA VidaDicha ==
  ASSUME InvOrden, InvFinal, SinPerdidas, NEW w \in Workers, NEW x \in Queries, x = ejec[w].query,
         Trabaja(w, x), ~error_storage[w], NEW f, Pasa(w, f), ejec'[w].query = x,
         \A v \in Workers : v # w => ejec'[v] = ejec[v],
         UNCHANGED <<finales, hilo, proceso>>, NEW fin \in Fines,
         \A q : \A op \in Fines : Dicho(q, op)' <=> Dicho(q, op) \/ (q = x /\ op = fin)
  PROVE  /\ VidaDe(x) = "corre" /\ Ciclo!Pasa(x, "dicha")
         /\ [q \in Queries |-> ResultadoDe(q)]'
               = [[q \in Queries |-> ResultadoDe(q)] EXCEPT
                     ![x] = IF fin = "ERROR" THEN "ERROR" ELSE "END"]
         /\ (\E v \in Workers : Vivo(v))' = \E v \in Workers : Vivo(v)
<1>1. VidaDe(x) = "corre" /\ finales[x] = <<>> /\ \A op \in Fines : ~Dicho(x, op)
  BY Corriendo
<1>2. /\ Dicho(x, "QUERY_END")' <=> fin = "QUERY_END"
      /\ Dicho(x, "ERROR")' <=> fin = "ERROR"
      /\ fin \in {"QUERY_END", "ERROR"}
  BY <1>1 DEF Fines
<1>3. VidaDe(x)' = "dicha" /\ ResultadoDe(x)' = IF fin = "ERROR" THEN "ERROR" ELSE "END"
  BY <1>1, <1>2 DEF VidaDe, ResultadoDe
<1>4. \A q : q # x => (EnInterprete(q)' <=> EnInterprete(q))
  BY InterpretesAjenos DEF InvOrden, Trabaja
<1>5. \A q \in Queries \ {x} : Igual(q)
  BY <1>4 DEF Igual
<1>6. \A q \in Queries \ {x} : VidaDe(q)' = VidaDe(q) /\ ResultadoDe(q)' = ResultadoDe(q)
  BY <1>5, VidaIgual
<1>7. (\E v \in Workers : Vivo(v))' = \E v \in Workers : Vivo(v)
  BY DEF Vivo
<1> QED BY <1>1, <1>3, <1>6, <1>7, VidaPasa, ResultadoPasa

\* The line that an interpreter is about to execute is the first one that was not.
LEMMA LineaQueSigue ==
  ASSUME InvOrden, NEW w \in Workers, NEW i, Decodifica(w, i), NEW x, x = ejec[w].query
  PROVE  /\ x \in Queries /\ Len(hechas[x]) \in Nat /\ Fetch(ejec[w]) = Len(hechas[x]) + 1
         /\ i = InstruccionEn(x, Len(hechas[x]) + 1) /\ ejec'[w].query = x
<1>1. TypeOK
  BY DEF InvOrden
<1>2. x \in Queries /\ Trabaja(w, x)
  BY <1>1, Decodificada
<1>3. Len(hechas[x]) \in Nat
  BY <1>1, <1>2 DEF TypeOK, InterpreteTypeOK
<1>4. Adelantado(ejec[w], Len(hechas[x]))
  BY <1>2, Trabajando
<1>5. Fetch(ejec[w]) = Len(hechas[x]) + 1
  BY <1>1, <1>3, <1>4, LineaSiguiente DEF TypeOK, InterpreteTypeOK
<1>6. ejec'[w].query = x
  BY <1>1, DecodificaTipo
<1> QED BY <1>2, <1>3, <1>5, <1>6 DEF Decodifica

LEMMA VidaAlTerminar ==
  ASSUME InvOrden, TypeOK', InvFinal, InvFinFiel, SinPerdidas, SinIncompletas, UNCHANGED master_vars,
         NEW w \in Workers, Terminar(w)
  PROVE  \E x \in Queries : Ciclo!Acabar(x) \/ Ciclo!Fallar(x)
<1>1. TypeOK
  BY DEF InvOrden
<1>2. PICK x \in Queries : x = ejec[w].query /\ Trabaja(w, x) /\ ~error_storage[w]
  BY <1>1, VozAlTerminar
<1>3. PICK i \in {"END", "DESCONOCIDA", "INCOMPLETA"}, fin \in Fines :
         /\ Decodifica(w, i)
         /\ fin = "QUERY_END" => i \in {"END", "INCOMPLETA"}
         /\ fin = "ERROR" => i \in {"DESCONOCIDA", "INCOMPLETA"}
         /\ \A q, op : Dicho(q, op)' <=> Dicho(q, op) \/ (q = x /\ op = fin)
  BY <1>1, <1>2, VozAlTerminar
<1>4. /\ Len(hechas[x]) \in Nat /\ i = InstruccionEn(x, Len(hechas[x]) + 1) /\ ejec'[w].query = x
  BY <1>2, <1>3, LineaQueSigue
<1>5. /\ Pasa(w, "recibir") /\ UNCHANGED <<finales, hilo, proceso, hechas>>
      /\ \A v \in Workers : v # w => ejec'[v] = ejec[v]
  BY <1>1, <1>3, Decodificada DEF Terminar, master_vars, haciaQC, deQueries
<1>6. /\ VidaDe(x) = "corre" /\ Ciclo!Pasa(x, "dicha")
      /\ [q \in Queries |-> ResultadoDe(q)]'
            = [[q \in Queries |-> ResultadoDe(q)] EXCEPT ![x] = IF fin = "ERROR" THEN "ERROR" ELSE "END"]
      /\ (\E v \in Workers : Vivo(v))' = \E v \in Workers : Vivo(v)
  BY <1>2, <1>3, <1>4, <1>5, VidaDicha
<1>7. /\ Programa[x] \in Seq(Instrucciones) /\ Len(hechas[x]) <= Len(Programa[x])
      /\ "INCOMPLETA" \notin ToSet(Programa[x])
  BY InterpreteAssumption DEF InvFinFiel, FinFiel, SinIncompletas
<1>8. IF fin = "ERROR" THEN Len(hechas[x]) < Len(Programa[x]) ELSE Len(hechas[x]) = Len(Programa[x])
  <2>1. \A k \in 1..Len(Programa[x]) : Programa[x][k] # "END" /\ Programa[x][k] # "INCOMPLETA"
    BY <1>7 DEF Instrucciones, ToSet
  <2> QED BY <1>3, <1>4, <1>7, <2>1 DEF InstruccionEn, Fines
<1>9. CASE fin = "ERROR"
  <2>1. Ciclo!Fallar(x)
    BY <1>5, <1>6, <1>8, <1>9 DEF Ciclo!Fallar
  <2> QED BY <2>1
<1>10. CASE fin # "ERROR"
  <2>1. Ciclo!Acabar(x)
    BY <1>5, <1>6, <1>8, <1>10 DEF Ciclo!Acabar
  <2> QED BY <2>1
<1> QED BY <1>9, <1>10

LEMMA VidaAlEjecutar ==
  ASSUME InvOrden, TypeOK', InvFinal, SinPerdidas, UNCHANGED master_vars, NEW w \in Workers,
         NEW i \in {"STORAGE", "READ", "COMMIT"}, Ejecutar(w, i)
  PROVE  \E x \in Queries : Ciclo!Ejecutar(x) \/ Ciclo!Fallar(x)
<1>1. TypeOK /\ Decodifica(w, i)
  BY DEF InvOrden, Ejecutar
<1>2. PICK x \in Queries : x = ejec[w].query /\ Trabaja(w, x) /\ ~error_storage[w]
  BY <1>1, VozAlEjecutar
<1>3. /\ Len(hechas[x]) \in Nat /\ Fetch(ejec[w]) = Len(hechas[x]) + 1
      /\ i = InstruccionEn(x, Len(hechas[x]) + 1) /\ ejec'[w].query = x
  BY <1>1, <1>2, LineaQueSigue
<1>4. /\ Pasa(w, "chequear") /\ UNCHANGED <<finales, hilo, proceso>>
      /\ hechas' = Ciclo!Avanzada(x)
      /\ \A v \in Workers : v # w => ejec'[v] = ejec[v]
  BY <1>1, <1>2, <1>3, Decodificada DEF Ejecutar, Ciclo!Avanzada, master_vars, haciaQC, deQueries
<1>5. Len(hechas[x]) < Len(Programa[x])
  <2>1. Len(Programa[x]) \in Nat
    BY InterpreteAssumption
  <2> QED BY <1>3, <2>1 DEF InstruccionEn
<1>6. CASE \A q : \A op \in Fines : Dicho(q, op)' <=> Dicho(q, op)
  <2>1. VidaDe(x) = "corre" /\ EnInterprete(x)
    BY <1>2, Corriendo
  <2>2. EnInterprete(x)' /\ \A q : q # x => (EnInterprete(q)' <=> EnInterprete(q))
    BY <1>1, <1>2, <1>3, <1>4, InterpretesAjenos DEF Trabaja
  <2>3. \A q \in Queries : Igual(q)
    BY <1>4, <1>6, <2>1, <2>2 DEF Igual
  <2>4. \A q \in Queries : VidaDe(q)' = VidaDe(q) /\ ResultadoDe(q)' = ResultadoDe(q)
    BY <2>3, VidaIgual
  <2>5. (\E v \in Workers : Vivo(v))' = \E v \in Workers : Vivo(v)
    BY <1>4 DEF Vivo
  <2>6. Ciclo!Ejecutar(x)
    BY <1>4, <1>5, <2>1, <2>4, <2>5 DEF Ciclo!Ejecutar
  <2> QED BY <2>6
<1>7. CASE \A q : \A op \in Fines : Dicho(q, op)' <=> Dicho(q, op) \/ (q = x /\ op = "ERROR")
  <2>1. "ERROR" \in Fines
    BY DEF Fines
  <2>2. /\ VidaDe(x) = "corre" /\ Ciclo!Pasa(x, "dicha")
        /\ [q \in Queries |-> ResultadoDe(q)]'
              = [[q \in Queries |-> ResultadoDe(q)] EXCEPT ![x] = "ERROR"]
        /\ (\E v \in Workers : Vivo(v))' = \E v \in Workers : Vivo(v)
    BY <1>2, <1>3, <1>4, <1>7, <2>1, VidaDicha
  <2>3. Ciclo!Fallar(x)
    BY <1>4, <1>5, <2>2 DEF Ciclo!Fallar
  <2> QED BY <2>3
<1> QED BY <1>1, <1>2, <1>6, <1>7, VozAlEjecutar

\* The step that checks for interruptions goes on with the next line, or leaves the cycle.
LEMMA VidaAlChequear ==
  ASSUME InvOrden, TypeOK', InvFinal, SinPerdidas, UNCHANGED master_vars,
         NEW w \in Workers, ChequearInterrupcion(w)
  PROVE  (\E x \in Queries : Ciclo!Desalojar(x)) \/ UNCHANGED Ciclo!vars
<1>1. TypeOK /\ \A q : \A op \in Fines : Dicho(q, op)' <=> Dicho(q, op)
  BY SinVoz DEF InvOrden
<1>2. UNCHANGED <<ejec, finales, hilo, hechas, proceso>> /\ fase[w] = "chequear"
  BY DEF ChequearInterrupcion, Corre, master_vars, haciaQC, deQueries
<1>3. CASE hay_interrupcion[w]
  <2>1. Pasa(w, "recibir")
    BY <1>3 DEF ChequearInterrupcion
  <2> QED BY <1>1, <1>2, <2>1, VidaAlDejar
<1>4. CASE ~hay_interrupcion[w]
  <2>1. Pasa(w, "ciclo")
    BY <1>4 DEF ChequearInterrupcion
  <2>2. PICK x : x = ejec[w].query
    OBVIOUS
  <2>3. /\ EnInterprete(x)' /\ EnInterprete(x)
        /\ \A q : q # x => (EnInterprete(q)' <=> EnInterprete(q))
    BY <1>1, <1>2, <2>1, <2>2, InterpretesAjenos DEF EnInterprete
  <2>4. \A q \in Queries : Igual(q)
    BY <1>1, <1>2, <2>3 DEF Igual
  <2>5. \A q \in Queries : VidaDe(q)' = VidaDe(q) /\ ResultadoDe(q)' = ResultadoDe(q)
    BY <2>4, VidaIgual
  <2> QED BY <1>2, <2>5, CicloQuieto DEF Vivo
<1> QED BY <1>3, <1>4

\* A file that cannot be opened is a word on no query that ends it.
LEMMA VidaSinArchivo ==
  ASSUME TypeOK, TypeOK', UNCHANGED <<master_vars, proceso>>, NEW w \in Workers,
         RecibirSinArchivo(w) \/ LiberarNombre(w)
  PROVE  UNCHANGED Ciclo!vars
<1>1. \A q : \A op \in Fines : Dicho(q, op)' <=> Dicho(q, op)
  BY SinVoz
<1>2. UNCHANGED <<ejec, finales, hilo, hechas>>
  BY DEF RecibirSinArchivo, LiberarNombre, master_vars, haciaQC, deQueries
<1>3. \A q : EnInterprete(q)' <=> EnInterprete(q)
  <2>1. fase[w] \in {"recibir", "liberar"} /\ fase'[w] \in {"recibir", "liberar"}
    BY DEF RecibirSinArchivo, LiberarNombre, Corre, Pasa, TypeOK, InterpreteTypeOK
  <2>2. \A v \in Workers : v # w => fase'[v] = fase[v]
    BY DEF RecibirSinArchivo, LiberarNombre, Pasa, TypeOK, InterpreteTypeOK
  <2> QED BY <1>2, <2>1, <2>2 DEF EnInterprete
<1>4. \A q \in Queries : Igual(q)
  BY <1>1, <1>2, <1>3 DEF Igual
<1>5. \A q \in Queries : VidaDe(q)' = VidaDe(q) /\ ResultadoDe(q)' = ResultadoDe(q)
  BY <1>4, VidaIgual
<1> QED BY <1>2, <1>5, CicloQuieto DEF Vivo

LEMMA VidaEnWorker ==
  ASSUME InvOrden, TypeOK', InvFinal, InvFinFiel, SinPerdidas, SinIncompletas, UNCHANGED master_vars,
         NEW w \in Workers, HiloEjecutar(w), SinCaidas'
  PROVE  [Ciclo!Next]_(Ciclo!vars)
<1>1. TypeOK
  BY DEF InvOrden
<1>2. CASE RecibirPath(w)
  BY <1>2, VidaAlTomar DEF Ciclo!Next
<1>3. CASE RecibirSinArchivo(w) \/ LiberarNombre(w)
  <2>1. ~Morir(w)
    BY <1>1 DEF Morir, SinCaidas, TypeOK, RedTypeOK
  <2>2. UNCHANGED proceso
    BY <1>3, <2>1 DEF RecibirSinArchivo, LiberarNombre, red
  <2> QED BY <1>1, <1>3, <2>2, VidaSinArchivo
<1>4. CASE AbandonarCiclo(w)
  <2>1. \A q : \A op \in Fines : Dicho(q, op)' <=> Dicho(q, op)
    BY <1>1, <1>4, SinVoz
  <2>2. /\ fase[w] \in {"ciclo", "chequear"} /\ Pasa(w, "recibir")
        /\ UNCHANGED <<ejec, finales, hilo, hechas, proceso>>
    BY <1>4 DEF AbandonarCiclo, Corre, red, master_vars, haciaQC, deQueries
  <2> QED BY <2>1, <2>2, VidaAlDejar DEF Ciclo!Next
<1>5. CASE Terminar(w)
  BY <1>5, VidaAlTerminar DEF Ciclo!Next
<1>6. ASSUME NEW i \in {"STORAGE", "READ", "COMMIT"}, Ejecutar(w, i) PROVE [Ciclo!Next]_(Ciclo!vars)
  BY <1>6, VidaAlEjecutar DEF Ciclo!Next
<1>7. CASE ChequearInterrupcion(w)
  BY <1>7, VidaAlChequear DEF Ciclo!Next
<1> QED BY <1>2, <1>3, <1>4, <1>5, <1>6, <1>7 DEF HiloEjecutar

-------------------------------------------------------------------------------
(* The refinement *)

LEMMA PasoDeCiclo ==
  ASSUME InvOrden, TypeOK', InvFinal, InvVoces, InvAtendidas, InvFinFiel, SinPerdidas, SinPerdidas',
         SinIncompletas, [Next]_vars
  PROVE  [Ciclo!Next]_(Ciclo!vars)
<1>1. TypeOK /\ SinCaidas /\ SinCaidas' /\ VigiaFiel
  BY DEF InvOrden, SinPerdidas, InvFinal
<1>2. CASE Aparte
  BY <1>2, VidaAparte
<1>3. ASSUME UNCHANGED worker_vars, NEW x \in Queries, CrearQuery(x) PROVE Ciclo!Next
  BY <1>3, VidaAlLlegar DEF Ciclo!Next
<1>4. ASSUME UNCHANGED worker_vars, NEW w \in Workers, IdentificarWorker(w)
      PROVE  [Ciclo!Next]_(Ciclo!vars)
  BY <1>1, <1>4, VidaAlIdentificar DEF Ciclo!Next
<1>5. ASSUME NEW w \in Workers, AvisarCaida(w) \/ ResponderCaida(w) PROVE FALSE
  BY <1>1, <1>5 DEF AvisarCaida, ResponderCaida, VigiaFiel, SinCaidas
<1>6. ASSUME UNCHANGED worker_vars, NEW w \in Workers, Recepcion(w) PROVE [Ciclo!Next]_(Ciclo!vars)
  BY <1>6, VidaAlRecibir DEF Ciclo!Next
<1>7. ASSUME UNCHANGED master_vars, NEW w \in Workers, HiloEjecutar(w)
      PROVE  [Ciclo!Next]_(Ciclo!vars)
  BY <1>1, <1>7, VidaEnWorker
<1>8. ASSUME NEW w \in Workers, MorirWorker(w) PROVE FALSE
  BY <1>1, <1>8 DEF MorirWorker, Morir, SinCaidas, TypeOK, RedTypeOK
<1> QED BY <1>1, <1>2, <1>3, <1>4, <1>5, <1>6, <1>7, <1>8, PasosDeVida

LEMMA CicloInicial == Init => Ciclo!Init
<1> SUFFICES ASSUME Init PROVE Ciclo!Init
  OBVIOUS
<1>1. /\ \A w \in Workers : respuesta[w] = <<>> /\ fase[w] = "recibir" /\ ~Vivo(w)
      /\ \A q \in Queries : finales[q] = <<>> /\ hilo["alta"][q] = "no"
      /\ hechas = [q \in Queries |-> <<>>] /\ finales = [q \in Queries |-> <<>>]
  BY DEF Init, RedInit, PlanificadorInit, InterpreteInit, Vivo, Hilos
<1>2. \A q, op : ~Dicho(q, op) /\ ~EnInterprete(q)
  BY <1>1 DEF Dicho, EnInterprete
<1>3. \A q \in Queries : VidaDe(q) = "no" /\ ResultadoDe(q) = "ninguno"
  BY <1>1, <1>2 DEF VidaDe, ResultadoDe
<1>4. (\E w \in Workers : Vivo(w)) = FALSE
  BY <1>1
<1> QED BY <1>1, <1>3, <1>4 DEF Ciclo!Init

\* While no Worker dies and no Query Control leaves before it is answered, whatever the
\* scheduler does to a query (queues, preempts, ages, resends) is, for its Query Control, a
\* query run from its first line to its last, put back to wait only between two lines, and
\* answered once with what happened.  Query files have no line without its parameters.
THEOREM CicloCumplido == ASSUME SinIncompletas PROVE Spec /\ []SinPerdidas => ImplementaCiclo
<1>1. /\ InvOrden /\ TypeOK' /\ InvFinal /\ InvVoces /\ InvAtendidas /\ InvFinFiel
      /\ SinPerdidas /\ SinPerdidas' /\ [Next]_vars
      => [Ciclo!Next]_(Ciclo!vars)
  BY PasoDeCiclo
<1> QED BY <1>1, CicloInicial, OrdenSiempre, TipoCorrecto, FinalSiempre, VocesSiempre,
           AtendidasSiempre, FinFielSiempre, PTL DEF Spec, ImplementaCiclo, Ciclo!Spec
===============================================================================
