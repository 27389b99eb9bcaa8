------------------------------ MODULE CicloQuery ------------------------------
(***************************************************************************)
(* The life of a query as its Query Control could follow it: it arrives,   *)
(* waits, is run by somebody line after line, may be put back to wait, and *)
(* is answered once.  No Worker, list, priority or packet is here: Despacho*)
(* implements it while Query Controls stay and Workers live.               *)
(***************************************************************************)
EXTENDS Naturals, Sequences

CONSTANTS
    Queries,
    Programa    \* Programa[q]: the lines of q

VARIABLES
    vida,       \* "no", "espera", "corre", "dicha" (its end is known) or "respondida"
    resultado,  \* resultado[q]: "END" or "ERROR" once it is known, "ninguno" before
    hechas,     \* hechas[q]: the lines of q that were executed
    finales,    \* finales[q]: the final responses its Query Control got
    atiende     \* whether there is a Worker

vars == <<vida, resultado, hechas, finales, atiende>>

Init ==
    /\ vida = [q \in Queries |-> "no"]
    /\ resultado = [q \in Queries |-> "ninguno"]
    /\ hechas = [q \in Queries |-> <<>>]
    /\ finales = [q \in Queries |-> <<>>]
    /\ atiende = FALSE

\* Workers come and go.
Cambiar == atiende' = ~atiende /\ UNCHANGED <<vida, resultado, hechas, finales>>

Pasa(q, v) == vida' = [vida EXCEPT ![q] = v]

\* The next line of q.
Avanzada(q) == [hechas EXCEPT ![q] = Append(@, Len(@) + 1)]

Llegar(q) == /\ vida[q] = "no" /\ Pasa(q, "espera")
             /\ UNCHANGED <<resultado, hechas, finales, atiende>>

Tomar(q) == /\ vida[q] = "espera" /\ atiende /\ Pasa(q, "corre")
            /\ UNCHANGED <<resultado, hechas, finales, atiende>>

Ejecutar(q) == /\ vida[q] = "corre" /\ Len(hechas[q]) < Len(Programa[q])
               /\ hechas' = Avanzada(q)
               /\ UNCHANGED <<vida, resultado, finales, atiende>>

Desalojar(q) == /\ vida[q] = "corre" /\ Pasa(q, "espera")
                /\ UNCHANGED <<resultado, hechas, finales, atiende>>

\* The last line was executed; or a line, executed or not even that, was wrong.
Acabar(q) == /\ vida[q] = "corre" /\ Len(hechas[q]) = Len(Programa[q])
             /\ Pasa(q, "dicha") /\ resultado' = [resultado EXCEPT ![q] = "END"]
             /\ UNCHANGED <<hechas, finales, atiende>>

Fallar(q) == /\ vida[q] = "corre" /\ Len(hechas[q]) < Len(Programa[q])
             /\ Pasa(q, "dicha") /\ resultado' = [resultado EXCEPT ![q] = "ERROR"]
             /\ hechas' \in {hechas, Avanzada(q)}
             /\ UNCHANGED <<finales, atiende>>

Responder(q) == /\ vida[q] = "dicha" /\ Pasa(q, "respondida")
                /\ finales' = [finales EXCEPT ![q] = <<resultado[q]>>]
                /\ UNCHANGED <<resultado, hechas, atiende>>

\* Its Worker died.
Perder(q) == /\ vida[q] \in {"espera", "corre"} /\ Pasa(q, "respondida")
             /\ resultado' = [resultado EXCEPT ![q] = "WORKER_DESCONECTADO"]
             /\ finales' = [finales EXCEPT ![q] = <<"WORKER_DESCONECTADO">>]
             /\ UNCHANGED <<hechas, atiende>>

Next == Cambiar \/ \E q \in Queries :
    \/ Llegar(q) \/ Tomar(q) \/ Ejecutar(q) \/ Desalojar(q) \/ Acabar(q) \/ Fallar(q) \/ Responder(q)
    \/ Perder(q)

Spec == Init /\ [][Next]_vars

\* A query that waits is taken, one that runs gets on, and an end that is known is told.
SpecJusta == Spec /\ \A q \in Queries : /\ WF_vars(Tomar(q))
                                        /\ WF_vars(Ejecutar(q) \/ Acabar(q))
                                        /\ WF_vars(Responder(q))
===============================================================================
