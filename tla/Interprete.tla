------------------------------ MODULE Interprete ------------------------------
(***************************************************************************)
(* A Worker process (worker/src/worker.c, query_interpreter.c): the thread *)
(* ejecutar_query, which receives an assignment and runs the query line by *)
(* line until it ends, fails or is interrupted, and the thread             *)
(* hilo_atender_interrupcion, which raises the flags that the first thread *)
(* looks at after every instruction.  Storage is its answer: each          *)
(* instruction may succeed or be rejected.                                 *)
(***************************************************************************)
EXTENDS Red

CONSTANTS
    Programa,       \* Programa[q]: the instructions in the file of q, before END
    SinArchivo,     \* the queries whose file cannot be opened
    PuedeFallar,    \* may Storage reject an instruction?
    PuedenCaer      \* the Workers that may die

\* STORAGE: CREATE, TRUNCATE, WRITE, TAG, FLUSH, DELETE and a READ of no bytes.
\* DESCONOCIDA: no such instruction.  INCOMPLETA: TRUNCATE, WRITE, READ, TAG, COMMIT,
\* FLUSH or DELETE without parameters.
Instrucciones == {"STORAGE", "READ", "COMMIT", "DESCONOCIDA", "INCOMPLETA"}

ASSUME InterpreteAssumption ==
    /\ Programa \in [Queries -> Seq(Instrucciones)]
    /\ SinArchivo \subseteq Queries
    /\ PuedeFallar \in BOOLEAN
    /\ PuedenCaer \subseteq Workers

VARIABLES
    fase,               \* fase[w]: where ejecutar_query of w is
    ejec,               \* ejec[w]: its Pcb, the interpreter's pc, the file position
    hay_interrupcion,   \* hay_interrupcion[w], read under mutex_interrupt
    query_desconectado, \* query_desconectado[w], written under no lock
    error_storage,      \* error_storage[w]: the last instruction was rejected
    hiloInterrupcion,   \* hiloInterrupcion[w]: where hilo_atender_interrupcion is
    hechas              \* hechas[q]: history, the lines of q executed anywhere

worker_vars == <<fase, ejec, hay_interrupcion, query_desconectado, error_storage,
                 hiloInterrupcion, hechas>>

InterpreteInit ==
    /\ fase = [w \in Workers |-> "recibir"]
    /\ ejec = [w \in Workers |-> [query |-> Ninguna, pcb |-> 0, pc |-> 0, linea |-> 0]]
    /\ hay_interrupcion = [w \in Workers |-> FALSE]
    /\ query_desconectado = [w \in Workers |-> FALSE]
    /\ error_storage = [w \in Workers |-> FALSE]
    /\ hiloInterrupcion = [w \in Workers |-> "leer"]
    /\ hechas = [q \in Queries |-> <<>>]

-------------------------------------------------------------------------------
Corre(w, f) == proceso[w] = "conectado" /\ fase[w] = f

Pasa(w, f) == fase' = [fase EXCEPT ![w] = f]

\* The result packets of one instruction, in order.
Responder(w, ops, pc) ==
    respuesta' = [respuesta EXCEPT ![w] =
        @ \o [i \in 1..Len(ops) |-> [op |-> ops[i], query |-> ejec[w].query, pc |-> pc]]]

Morir(w) ==
    /\ proceso' = [proceso EXCEPT ![w] = "muerto"]
    /\ despacho' = [despacho EXCEPT ![w] = <<>>]
    /\ interrupcion' = [interrupcion EXCEPT ![w] = <<>>]

\* recibir_path_de_query opened the file: it is read from its first line.
RecibirPath(w) ==
    /\ Corre(w, "recibir") /\ despacho[w] # <<>> /\ Head(despacho[w]).query \notin SinArchivo
    /\ LET a == Head(despacho[w]) IN
       ejec' = [ejec EXCEPT ![w] = [query |-> a.query, pcb |-> a.pc, pc |-> a.pc, linea |-> 0]]
    /\ despacho' = [despacho EXCEPT ![w] = Tail(@)]
    /\ Pasa(w, "ciclo")
    /\ UNCHANGED <<proceso, respuesta, interrupcion, hay_interrupcion, query_desconectado,
                   error_storage, hiloInterrupcion, hechas>>

\* error_path_not_found; then a name that nobody assigned is freed.
RecibirSinArchivo(w) ==
    /\ Corre(w, "recibir") /\ despacho[w] # <<>> /\ Head(despacho[w]).query \in SinArchivo
    /\ respuesta' = [respuesta EXCEPT ![w] = Append(@,
           [op |-> "ERROR_QUERY_NO_ENCONTRADA", query |-> Head(despacho[w]).query, pc |-> 0])]
    /\ despacho' = [despacho EXCEPT ![w] = Tail(@)]
    /\ Pasa(w, "liberar")
    /\ UNCHANGED <<proceso, interrupcion, ejec, hay_interrupcion, query_desconectado,
                   error_storage, hiloInterrupcion, hechas>>

\* free of a value left over in the heap: unnoticed, or the process aborts.
LiberarNombre(w) ==
    /\ Corre(w, "liberar")
    /\ \/ (Pasa(w, "recibir") /\ UNCHANGED red)
       \/ (Morir(w) /\ UNCHANGED <<fase, respuesta>>)
    /\ UNCHANGED <<ejec, hay_interrupcion, query_desconectado, error_storage,
                   hiloInterrupcion, hechas>>

-------------------------------------------------------------------------------
(* query_interpreter_ciclo *)

\* Mutant: a resumed query is read from its first line.
FetchSinAvanzar(e) == e.linea + 1

\* fetch: a file opened for a pc # 0 is first advanced by that many lines.
Fetch(e) == IF e.pcb # 0 /\ e.pc = e.pcb THEN e.linea + e.pcb + 1 ELSE e.linea + 1

\* Past the last line of the file fetch returns "END".
InstruccionEn(q, linea) == IF linea > Len(Programa[q]) THEN "END" ELSE Programa[q][linea]

\* The storage flag of an earlier instruction, of this query or of the one before
\* it, ends the cycle without a word to the Master.
AbandonarCiclo(w) ==
    /\ Corre(w, "ciclo") /\ error_storage[w]
    /\ error_storage' = [error_storage EXCEPT ![w] = FALSE]
    /\ Pasa(w, "recibir")
    /\ UNCHANGED <<red, ejec, hay_interrupcion, query_desconectado, hiloInterrupcion, hechas>>

\* fetch and decode found instruction i; the interpreter's pc is already past it.
Decodifica(w, i) ==
    /\ Corre(w, "ciclo") /\ ~error_storage[w]
    /\ i = InstruccionEn(ejec[w].query, Fetch(ejec[w]))
    /\ ejec' = [ejec EXCEPT ![w].pc = @ + 1, ![w].linea = Fetch(ejec[w])]

\* The cycle ends with one message.  For INCOMPLETA, decode leaves the flag fin of
\* the t_decode unassigned: it is taken for an END when it happens to be true.
Terminar(w) ==
    /\ \/ Decodifica(w, "END") /\ Responder(w, <<"QUERY_END">>, 0)
       \/ Decodifica(w, "DESCONOCIDA") /\ Responder(w, <<"ERROR">>, 0)
       \/ /\ Decodifica(w, "INCOMPLETA")
          /\ \E op \in {"ERROR", "QUERY_END"} : Responder(w, <<op>>, 0)
    /\ Pasa(w, "recibir")
    /\ UNCHANGED <<proceso, despacho, interrupcion, hay_interrupcion, query_desconectado,
                   error_storage, hiloInterrupcion, hechas>>

\* What instruction i reports when nothing fails.
Exito(i) == IF i = "READ" THEN <<"READ_RESULT">> ELSE <<>>

\* What it may report when Storage rejects it: executeCommit goes on to commit after
\* a rejected flush, and each of the two reports its own error.
Fallos(i) == IF i = "COMMIT" THEN {<<"ERROR">>, <<"ERROR", "ERROR">>} ELSE {<<"ERROR">>}

\* Mutant: a rejected instruction is reported but does not raise error_storage.
EjecutarSinMarca(w, i) ==
    /\ Decodifica(w, i)
    /\ \/ Responder(w, Exito(i), ejec'[w].pc)
       \/ PuedeFallar /\ \E f \in Fallos(i) : Responder(w, f, ejec'[w].pc)
    /\ hechas' = [hechas EXCEPT ![ejec[w].query] = Append(@, Fetch(ejec[w]))]
    /\ Pasa(w, "chequear")
    /\ UNCHANGED <<proceso, despacho, interrupcion, hay_interrupcion, query_desconectado,
                   error_storage, hiloInterrupcion>>

Ejecutar(w, i) ==
    /\ Decodifica(w, i)
    /\ \/ Responder(w, Exito(i), ejec'[w].pc) /\ UNCHANGED error_storage
       \/ /\ PuedeFallar
          /\ \E f \in Fallos(i) : Responder(w, f, ejec'[w].pc)
          /\ error_storage' = [error_storage EXCEPT ![w] = TRUE]
    /\ hechas' = [hechas EXCEPT ![ejec[w].query] = Append(@, Fetch(ejec[w]))]
    /\ Pasa(w, "chequear")
    /\ UNCHANGED <<proceso, despacho, interrupcion, hay_interrupcion, query_desconectado,
                   hiloInterrupcion>>

\* Mutant: the interrupted cycle reports the pc and goes on.
ChequearSinSalir(w) ==
    /\ Corre(w, "chequear")
    /\ IF hay_interrupcion[w]
       THEN /\ Responder(w, IF query_desconectado[w] THEN <<"QUERY_DESCONECTADO">>
                                                     ELSE <<"PC_UPDATE">>, ejec[w].pc)
            /\ hay_interrupcion' = [hay_interrupcion EXCEPT ![w] = FALSE]
       ELSE UNCHANGED <<respuesta, hay_interrupcion>>
    /\ Pasa(w, "ciclo")
    /\ UNCHANGED <<proceso, despacho, interrupcion, ejec, query_desconectado, error_storage,
                   hiloInterrupcion, hechas>>

\* Mutant: the pc reported is that of the instruction after the next one.
ChequearPasandose(w) ==
    /\ Corre(w, "chequear")
    /\ IF hay_interrupcion[w]
       THEN /\ Responder(w, IF query_desconectado[w] THEN <<"QUERY_DESCONECTADO">>
                                                     ELSE <<"PC_UPDATE">>, ejec[w].pc + 1)
            /\ hay_interrupcion' = [hay_interrupcion EXCEPT ![w] = FALSE]
            /\ Pasa(w, "recibir")
       ELSE Pasa(w, "ciclo") /\ UNCHANGED <<respuesta, hay_interrupcion>>
    /\ UNCHANGED <<proceso, despacho, interrupcion, ejec, query_desconectado, error_storage,
                   hiloInterrupcion, hechas>>

\* checkInterrupt and interrupt_envio_a_master, after every instruction.
ChequearInterrupcion(w) ==
    /\ Corre(w, "chequear")
    /\ IF hay_interrupcion[w]
       THEN /\ Responder(w, IF query_desconectado[w] THEN <<"QUERY_DESCONECTADO">>
                                                     ELSE <<"PC_UPDATE">>, ejec[w].pc)
            /\ hay_interrupcion' = [hay_interrupcion EXCEPT ![w] = FALSE]
            /\ Pasa(w, "recibir")
       ELSE Pasa(w, "ciclo") /\ UNCHANGED <<respuesta, hay_interrupcion>>
    /\ UNCHANGED <<proceso, despacho, interrupcion, ejec, query_desconectado, error_storage,
                   hiloInterrupcion, hechas>>

-------------------------------------------------------------------------------
(* hilo_atender_interrupcion *)

LeerInterrupcion(w) ==
    /\ proceso[w] = "conectado" /\ hiloInterrupcion[w] = "leer" /\ interrupcion[w] # <<>>
    /\ query_desconectado' = [query_desconectado EXCEPT ![w] =
                                  Head(interrupcion[w]) = "QUERY_DESCONECTADO"]
    /\ interrupcion' = [interrupcion EXCEPT ![w] = Tail(@)]
    /\ hiloInterrupcion' = [hiloInterrupcion EXCEPT ![w] = "marcar"]
    /\ UNCHANGED <<proceso, despacho, respuesta, fase, ejec, hay_interrupcion, error_storage, hechas>>

MarcarInterrupcion(w) ==
    /\ proceso[w] = "conectado" /\ hiloInterrupcion[w] = "marcar"
    /\ hay_interrupcion' = [hay_interrupcion EXCEPT ![w] = TRUE]
    /\ hiloInterrupcion' = [hiloInterrupcion EXCEPT ![w] = "leer"]
    /\ UNCHANGED <<red, fase, ejec, query_desconectado, error_storage, hechas>>

\* The process dies: what it had not read is lost, what it sent is not.
MorirWorker(w) ==
    /\ w \in PuedenCaer /\ Vivo(w)
    /\ Morir(w)
    /\ UNCHANGED <<respuesta, worker_vars>>

-------------------------------------------------------------------------------
HiloEjecutar(w) == \/ RecibirPath(w) \/ RecibirSinArchivo(w) \/ LiberarNombre(w)
                   \/ AbandonarCiclo(w) \/ Terminar(w)
                   \/ \E i \in {"STORAGE", "READ", "COMMIT"} : Ejecutar(w, i)
                   \/ ChequearInterrupcion(w)

HiloInterrupciones(w) == LeerInterrupcion(w) \/ MarcarInterrupcion(w)

InterpreteNext ==
    \E w \in Workers : HiloEjecutar(w) \/ HiloInterrupciones(w) \/ MorirWorker(w)

Pcb == [query : Queries \cup {Ninguna}, pcb : Nat, pc : Nat, linea : Nat]

InterpreteTypeOK ==
    /\ fase \in [Workers -> {"recibir", "liberar", "ciclo", "chequear"}]
    /\ ejec \in [Workers -> Pcb]
    /\ \A w \in Workers : fase[w] \in {"ciclo", "chequear"} => ejec[w].query # Ninguna
    /\ hay_interrupcion \in [Workers -> BOOLEAN]
    /\ query_desconectado \in [Workers -> BOOLEAN]
    /\ error_storage \in [Workers -> BOOLEAN]
    /\ hiloInterrupcion \in [Workers -> {"leer", "marcar"}]
    /\ hechas \in [Queries -> Seq(Nat)]
===============================================================================
