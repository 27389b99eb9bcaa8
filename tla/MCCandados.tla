------------------------------ MODULE MCCandados ------------------------------
(***************************************************************************)
(* Small instances of Candados for TLC: three threads, three file:tags and *)
(* as many addresses as pointers can be alive.                             *)
(***************************************************************************)
EXTENDS Candados, TLC

CONSTANTS h1, h2, h3, k1, k2, k3, d1, d2, d3, d4

OrdenClaves == [k \in Claves |-> CASE k = k1 -> 1 [] k = k2 -> 2 [] OTHER -> 3]

Op(o, ks) == {[op |-> o, f |-> k] : k \in ks}
Tags(ks) == {[op |-> "TAG", f |-> j, d |-> k] : j \in ks, k \in ks}
TagsDistintos(ks) == {p \in Tags(ks) : p.f # p.d}

\* TAG between three file:tags in every direction; every operation on two of them.
MezclasSinMismo == {TagsDistintos({k1, k2, k3}),
                    Op("UNO", {k1, k2}) \cup Op("DELETE", {k1, k2}) \cup TagsDistintos({k1, k2})}
MezclaTagMismo == {Op("UNO", Claves) \cup Tags(Claves)}
MezclaDelete == {Op("UNO", Claves) \cup Op("DELETE", Claves) \cup TagsDistintos(Claves)}
===============================================================================
