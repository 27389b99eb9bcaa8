------------------------------ MODULE MCDespacho ------------------------------
(***************************************************************************)
(* Small instances of Despacho for TLC: two or three queries, one or two   *)
(* Workers, programs of at most two lines.  What ends a behaviour is that  *)
(* every query arrives once, so no other bound is needed.                  *)
(***************************************************************************)
EXTENDS DespachoCiclo

CONSTANTS q1, q2, q3, w1, w2

\* Priorities: 0 is the most urgent.
PrioridadIgual == [q \in Queries |-> 0]
PrioridadDispar == [q \in Queries |-> CASE q = q1 -> 2 [] q = q2 -> 1 [] OTHER -> 0]
PrioridadAltaBaja == [q \in Queries |-> IF q = q1 THEN 1 ELSE 0]

\* Programs.
UnaLinea == [q \in Queries |-> <<"STORAGE">>]
SinLecturas == [q \in Queries |-> IF q = q1 THEN <<"STORAGE", "STORAGE">> ELSE <<"STORAGE">>]
DosLineas == [q \in Queries |-> IF q = q1 THEN <<"READ", "STORAGE">> ELSE <<"STORAGE">>]
ConCommit == [q \in Queries |-> IF q = q1 THEN <<"READ", "COMMIT">> ELSE <<"STORAGE">>]
Erroneas == [q \in Queries |-> IF q = q1 THEN <<"STORAGE", "DESCONOCIDA">> ELSE <<"READ", "COMMIT">>]
Fallidas == [q \in Queries |-> CASE q = q1 -> <<"STORAGE", "INCOMPLETA">>
                                 [] q = q2 -> <<"READ", "COMMIT">>
                                 [] OTHER -> <<"STORAGE">>]
Incompletas == [q \in Queries |-> <<"STORAGE", "INCOMPLETA">>]

\* The Workers are interchangeable wherever all of them may die or none may.
WorkersIguales == Permutations(Workers)
\* So are the queries that PrioridadAltaBaja and DosLineas do not single out.
Iguales == Permutations(Workers) \cup Permutations(Queries \ {q1})
===============================================================================
