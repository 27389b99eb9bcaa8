----------------------------- MODULE DespachoCiclo -----------------------------
(***************************************************************************)
(* Despacho implements CicloQuery: what the Master, the Workers and their  *)
(* connections do to a query, with preemption and aging, is for its Query  *)
(* Control a query that is run line after line and answered once.          *)
(***************************************************************************)
EXTENDS Despacho

\* A packet that tells the end of q is unread, or in the hands of the Master.
Dicho(q, op) == \E w \in Workers : \E i \in 1..Len(respuesta[w]) :
                    respuesta[w][i].query = q /\ respuesta[w][i].op = op

EnInterprete(q) == \E w \in Workers : ejec[w].query = q /\ fase[w] \in {"ciclo", "chequear"}

VidaDe(q) == IF finales[q] # <<>> THEN "respondida"
             ELSE IF Dicho(q, "QUERY_END") \/ Dicho(q, "ERROR") THEN "dicha"
             ELSE IF EnInterprete(q) THEN "corre"
             ELSE IF hilo["alta"][q] = "no" THEN "no" ELSE "espera"

ResultadoDe(q) == IF finales[q] # <<>> THEN Head(finales[q])
                  ELSE IF Dicho(q, "QUERY_END") THEN "END"
                  ELSE IF Dicho(q, "ERROR") THEN "ERROR" ELSE "ninguno"

Ciclo == INSTANCE CicloQuery WITH
    vida <- [q \in Queries |-> VidaDe(q)],
    resultado <- [q \in Queries |-> ResultadoDe(q)],
    atiende <- \E w \in Workers : Vivo(w)

\* Each query is run by somebody line after line, put back to wait at most between two
\* lines, and answered once, END if all its lines were executed.
ImplementaCiclo == Ciclo!Spec

\* The same, and it goes on to its answer.
ImplementaCicloJusto == Ciclo!SpecJusta
================================================================================
