----------------------------- MODULE MemoriaPlana -----------------------------
(***************************************************************************)
(* What the queries of one Worker may count on when nobody else uses their *)
(* file:tags: each is a sequence of bytes, WRITE and READ run from the     *)
(* first byte of the request to the last, fail at the end of the file:tag  *)
(* and nowhere before, and what was written is what is read.  Pages,       *)
(* frames and replacement do not show, but in when the writes get to       *)
(* Storage: whole at a FLUSH, or at any time.  Memoria implements it.      *)
(***************************************************************************)
EXTENDS Naturals, Sequences

CONSTANTS
    Archivos,       \* file:tags
    ByteCero,       \* what a file:tag holds where nobody wrote
    TamPagina,      \* bytes of a page
    Instrucciones,  \* what queries may do
    Ninguna,        \* no instruction
    YaCreados       \* file:tags of one page that exist at the start

VARIABLES
    estado,     \* "ausente", "WORK_IN_PROGRESS" or "COMMITED"
    duradero,   \* the bytes Storage holds
    visto,      \* the bytes the queries see
    curso,      \* the instruction in progress
    hecho,      \* the bytes of it that were read or written
    buffer,     \* those that were read
    error       \* whether the last one failed

vars == <<estado, duradero, visto, curso, hecho, buffer, error>>
archivos == <<estado, duradero, visto>>

Ceros(n) == [i \in 1..n |-> ByteCero]

Init ==
    /\ estado = [f \in Archivos |-> IF f \in YaCreados THEN "WORK_IN_PROGRESS" ELSE "ausente"]
    /\ duradero = [f \in Archivos |-> IF f \in YaCreados THEN Ceros(TamPagina) ELSE <<>>]
    /\ visto = duradero
    /\ curso = Ninguna /\ hecho = 0 /\ buffer = <<>> /\ error = FALSE

Accesos == {"READ", "WRITE"}
Total(i) == IF i.op = "WRITE" THEN Len(i.bytes) ELSE i.n
EnLimite(i, k) == i.dir + k <= Len(visto[i.f])

Empezar == /\ curso = Ninguna
           /\ \E i \in Instrucciones : curso' = i
           /\ hecho' = 0 /\ buffer' = <<>> /\ error' = FALSE
           /\ UNCHANGED archivos

\* The next k bytes.
Escribir(k) == LET i == curso IN
    /\ i # Ninguna /\ i.op = "WRITE" /\ hecho + k <= Total(i) /\ EnLimite(i, hecho + k)
    /\ visto' = [visto EXCEPT ![i.f] = [j \in DOMAIN @ |->
                    IF j - i.dir \in hecho + 1 .. hecho + k THEN i.bytes[j - i.dir] ELSE @[j]]]
    /\ hecho' = hecho + k
    /\ UNCHANGED <<estado, duradero, curso, buffer, error>>

Leer(k) == LET i == curso IN
    /\ i # Ninguna /\ i.op = "READ" /\ hecho + k <= Total(i) /\ EnLimite(i, hecho + k)
    /\ buffer' = buffer \o [j \in 1..k |-> visto[i.f][i.dir + hecho + j]]
    /\ hecho' = hecho + k
    /\ UNCHANGED <<archivos, curso, error>>

Fin == /\ curso # Ninguna /\ curso.op \in Accesos /\ hecho = Total(curso)
       /\ curso' = Ninguna
       /\ UNCHANGED <<archivos, hecho, buffer, error>>

\* Only for want of bytes.
FueraDeLimite == /\ curso # Ninguna /\ curso.op \in Accesos /\ ~EnLimite(curso, Total(curso))
                 /\ curso' = Ninguna /\ error' = TRUE
                 /\ UNCHANGED <<archivos, hecho, buffer>>

\* All that was written on f gets to Storage, unasked or by its FLUSH or COMMIT.
Bajar(f) == /\ estado[f] = "WORK_IN_PROGRESS"
            /\ duradero' = [duradero EXCEPT ![f] = visto[f]]
            /\ UNCHANGED <<estado, visto, curso, hecho, buffer, error>>

\* What was written on a COMMITED file:tag may be forgotten.
Perder(f) == /\ estado[f] = "COMMITED"
             /\ \E s \in SUBSET DOMAIN visto[f] :
                    visto' = [visto EXCEPT ![f] = [j \in DOMAIN @ |->
                                  IF j \in s THEN duradero[f][j] ELSE @[j]]]
             /\ UNCHANGED <<estado, duradero, curso, hecho, buffer, error>>

Poner(f, e, b, v) == /\ estado' = [estado EXCEPT ![f] = e]
                     /\ duradero' = [duradero EXCEPT ![f] = b]
                     /\ visto' = [visto EXCEPT ![f] = v]

Crecido(s, n) == [j \in 1..n * TamPagina |-> IF j <= Len(s) THEN s[j] ELSE ByteCero]

\* FLUSH leaves nothing of a file:tag in progress to be written; COMMIT neither.  TAG
\* takes what got to Storage.
Hacer ==
    /\ curso # Ninguna /\ curso.op \notin Accesos
    /\ LET i == curso
           f == i.f IN
       \/ i.op = "CREATE" /\ estado[f] = "ausente" /\ Poner(f, "WORK_IN_PROGRESS", <<>>, <<>>)
       \/ /\ i.op = "TRUNCATE" /\ estado[f] = "WORK_IN_PROGRESS"
          /\ Poner(f, estado[f], Crecido(duradero[f], i.n), Crecido(visto[f], i.n))
       \/ /\ i.op = "TAG" /\ estado[f] # "ausente" /\ estado[i.d] = "ausente"
          /\ Poner(i.d, "WORK_IN_PROGRESS", duradero[f], duradero[f])
       \/ i.op = "FLUSH" /\ estado[f] = "WORK_IN_PROGRESS"
          /\ Poner(f, estado[f], visto[f], visto[f])
       \/ i.op = "COMMIT" /\ estado[f] = "WORK_IN_PROGRESS" /\ duradero[f] = visto[f]
          /\ Poner(f, "COMMITED", visto[f], visto[f])
       \/ i.op = "COMMIT" /\ estado[f] = "COMMITED" /\ UNCHANGED archivos
    /\ curso' = Ninguna
    /\ UNCHANGED <<hecho, buffer, error>>

\* COMMIT flushes first, and says so when that is refused.
Avisar == /\ curso # Ninguna /\ curso.op = "COMMIT" /\ estado[curso.f] # "WORK_IN_PROGRESS"
          /\ error' = TRUE
          /\ UNCHANGED <<archivos, curso, hecho, buffer>>

Rechazar ==
    /\ curso # Ninguna
    /\ LET f == curso.f IN
       \/ curso.op = "CREATE" /\ estado[f] # "ausente"
       \/ curso.op \in {"TRUNCATE", "FLUSH"} /\ estado[f] # "WORK_IN_PROGRESS"
       \/ curso.op = "TAG" /\ (estado[f] = "ausente" \/ estado[curso.d] # "ausente")
       \/ curso.op = "COMMIT" /\ estado[f] = "ausente"
    /\ curso' = Ninguna /\ error' = TRUE
    /\ UNCHANGED <<archivos, hecho, buffer>>

Next == \/ Empezar \/ (\E k \in 1..TamPagina : Escribir(k) \/ Leer(k)) \/ Fin \/ FueraDeLimite
        \/ (\E f \in Archivos : Bajar(f) \/ Perder(f)) \/ Hacer \/ Avisar \/ Rechazar

Spec == Init /\ [][Next]_vars
===============================================================================
