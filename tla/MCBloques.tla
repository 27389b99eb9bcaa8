------------------------------- MODULE MCBloques -------------------------------
(***************************************************************************)
(* Small instances of Bloques for TLC: two threads, two file:tags besides  *)
(* initial_file:BASE, and a third one that only a TAG makes, of one or two *)
(* pages, and three or four blocks.                                        *)
(*                                                                         *)
(* Mixes are kept apart where one operation breaks what another relies on: *)
(* the mixes of MezclasSanas do not, those of the disagreements do.        *)
(***************************************************************************)
EXTENDS Bloques, TLC

CONSTANTS base, f1, f2, f3, x1, x2, cero, vacio, h1, h2

Mios == Archivos \ {base, f3}

Truncar1(fs, ns) == {[op |-> "TRUNCATE", f |-> f, n |-> n] : f \in fs, n \in ns}
Leer1(fs, ps) == {[op |-> "READ", f |-> f, p |-> p] : f \in fs, p \in ps}
Escribir1(op, fs, ps, cs) == {[op |-> op, f |-> f, paginas |-> <<<<p, c>>>>] :
                                f \in fs, p \in ps, c \in cs}
Solo(op, fs) == {[op |-> op, f |-> f] : f \in fs}
Tag1(os, ds) == {p \in {[op |-> "TAG", f |-> o, d |-> d] : o \in os, d \in ds} : p.f # p.d}
Flush1(fs, cs) == Escribir1("FLUSH", fs, {0}, cs)

\* COMMIT and what it deduplicates; blocks are not freed.
PedidosCommit == Truncar1(Mios, {0, 2}) \cup Leer1(Mios, {0, 1})
                 \cup Escribir1("FLUSH", Mios, {0, 1}, {x1, cero}) \cup Solo("COMMIT", Mios)
\* Blocks are freed and taken again; nothing is committed.
PedidosDelete == Solo("CREATE", Mios) \cup Truncar1(Mios, {0, 2}) \cup Leer1(Mios, {0})
                 \cup Solo("DELETE", Mios)
                 \cup Flush1(Mios, {x1}) \cup Escribir1("WRITE", Mios, {1}, {x1})
\* Blocks are shared by TAG, then written on either side.
PedidosTag == Truncar1({f1, f2}, {2}) \cup Leer1({f1, f3}, {0}) \cup Tag1({f1, f2}, {f3})
              \cup Tag1({f3}, {f1}) \cup Solo("CREATE", {f3}) \cup Escribir1("FLUSH", {f1, f3}, {0, 1}, {x1, x2})
MezclasSanas == {PedidosCommit, PedidosDelete, PedidosTag}

\* Every operation, and initial_file:BASE among its files.
PedidosTodos == Solo("CREATE", Mios) \cup Truncar1(Mios, {0, 2}) \cup Leer1(Mios, {0})
    \cup Solo("DELETE", Mios) \cup Flush1(Mios, {x1, cero}) \cup Escribir1("WRITE", Mios, {1}, {x1})
    \cup Solo("COMMIT", Mios) \cup Tag1(Mios, Mios)
    \cup {[op |-> o, f |-> base] : o \in {"CREATE", "COMMIT", "DELETE"}}
    \cup {[op |-> "TRUNCATE", f |-> base, n |-> 0], [op |-> "READ", f |-> base, p |-> 0],
          [op |-> "FLUSH", f |-> base, paginas |-> <<<<0, x1>>>>]} \cup Tag1({base}, Mios)
MezclaTodo == {{p \in PedidosTodos : p.op # "DELETE"},
               {p \in PedidosTodos : p.op \notin {"CREATE", "READ", "WRITE"}}}

\* What leads to each of the disagreements.
Todas == Archivos \ {base}
MezclaDedupTag == {Flush1(Todas, {x1}) \cup Tag1(Todas, Todas) \cup Solo("COMMIT", Todas)}
MezclaHash == {Flush1(Todas, {x1, x2}) \cup Solo("COMMIT", Todas) \cup Solo("DELETE", Todas)}
MezclaParcial == {Flush1(Todas, {x1, cero}) \cup Solo("COMMIT", Todas)
                  \cup {[op |-> "FLUSH", f |-> f, paginas |-> <<<<0, x1>>, <<1, x1>>>>] : f \in Todas}}
MezclaCaida == {Flush1(Todas, {x1, x2}) \cup Solo("COMMIT", Todas)}
MezclaCopia == {Flush1(Todas, {x1}) \cup Leer1(Todas, {0})}
MezclaTruncarTag == {Flush1(Todas, {x1}) \cup Tag1(Todas, Todas) \cup Truncar1(Todas, {0, 1})}
MezclaDeleteDedup == {Flush1(Todas, {x1}) \cup Solo("COMMIT", Todas) \cup Solo("DELETE", Todas)}
MezclaCeroEscrito == {Flush1(Todas, {cero, x1}) \cup Solo("COMMIT", Todas) \cup Solo("DELETE", Todas)}

Simetria == Permutations(Hilos) \cup Permutations(Mios)
SimetriaHilos == Permutations(Hilos)
===============================================================================
