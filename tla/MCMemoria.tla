------------------------------- MODULE MCMemoria -------------------------------
(***************************************************************************)
(* Small instances of Memoria for TLC: two or three frames of two bytes,   *)
(* file:tags of one or two pages, so that pages do not fit all at once.    *)
(***************************************************************************)
EXTENDS Memoria, TLC

CONSTANTS base, f1, f2, copia, z, a, b, w1, w2, q1, q2

\* WRITE and READ that cover part of a page, one page, and the end of one and the start
\* of the next; the last of each may fall out of limits.
Escribir1(f) == {[op |-> "WRITE", f |-> f, dir |-> 1, bytes |-> <<a, b>>],
                 [op |-> "WRITE", f |-> f, dir |-> 0, bytes |-> <<b>>]}
Leer1(f) == {[op |-> "READ", f |-> f, dir |-> 0, n |-> 1], [op |-> "READ", f |-> f, dir |-> 1, n |-> 2]}
Solo(op, f) == {[op |-> op, f |-> f]}
Truncar1(f, n) == {[op |-> "TRUNCATE", f |-> f, n |-> n]}

\* Two file:tags whose pages do not fit.
InstrDos == Escribir1(f1) \cup Leer1(f1) \cup Leer1(f2) \cup Truncar1(f1, 2) \cup Truncar1(f2, 2)
            \cup Solo("FLUSH", f1) \cup Solo("COMMIT", f1)
\* A copy of what was flushed.
InstrTag == Escribir1(f1) \cup Leer1(f1) \cup Leer1(copia) \cup Truncar1(f1, 2)
            \cup {[op |-> "TAG", f |-> f1, d |-> copia]} \cup Solo("COMMIT", copia) \cup Solo("FLUSH", copia)
\* Everything on one file:tag, shrunk and deleted too, by a query that changes Worker.
InstrTodas == {[op |-> "WRITE", f |-> f1, dir |-> 1, bytes |-> <<a, b>>],
               [op |-> "READ", f |-> f1, dir |-> 0, n |-> 3]}
              \cup Truncar1(f1, 1) \cup Truncar1(f1, 2) \cup Solo("DELETE", f1)
              \cup Solo("CREATE", f1) \cup Solo("FLUSH", f1) \cup Solo("COMMIT", f1)
MezclasTodas == {[instr |-> InstrDos, mudan |-> FALSE], [instr |-> InstrTag, mudan |-> FALSE],
                 [instr |-> InstrTodas, mudan |-> TRUE]}

MezclaAchicar == {[instr |-> Escribir1(f1) \cup Leer1(f1) \cup Truncar1(f1, 0), mudan |-> FALSE]}
InstrCommit == Escribir1(f1) \cup Leer1(f1) \cup Solo("COMMIT", f1)
MezclaCommit == {[instr |-> InstrCommit, mudan |-> FALSE]}
MezclaMuda == {[instr |-> InstrCommit, mudan |-> TRUE]}

\* One Worker of each kind.
UnoDeCada == [w \in Workers |-> IF w = w1 THEN "LRU" ELSE "CLOCK-M"]
MarcosDeCada == [w \in Workers |-> IF w = w1 THEN 2 ELSE 3]
================================================================================
