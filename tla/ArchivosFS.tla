------------------------------ MODULE ArchivosFS ------------------------------
(***************************************************************************)
(* What Storage promises its Workers, without blocks, links or locks: a    *)
(* file:tag is a sequence of page contents and a state, each request takes *)
(* effect at one instant between its arrival and its answer, an answer OK  *)
(* means all of it and an answer ERROR nothing.  Bloques implements it.    *)
(***************************************************************************)
EXTENDS Naturals, Sequences

CONSTANTS
    Hilos,      \* the threads of Storage, one per connected Worker
    Archivos,   \* the file:tags that requests name
    Base,       \* initial_file:BASE
    Cero,       \* what block 0 holds
    Vacio,      \* what a block holds that nobody has written; also "nothing read"
    Pedidos,    \* the requests Workers may send
    YaCreados   \* the file:tags that exist at the start, as pages of block 0

VARIABLES
    estado,     \* "ausente", "WORK_IN_PROGRESS" or "COMMITED"
    contenido,  \* contenido[f]: what its pages hold
    fase,       \* of each thread: "libre", "pedida", "ok" or "error"
    pedido,     \* the request in hand
    leido       \* the block its last READ answered

SinPedido == [op |-> "NINGUNO", f |-> Base]

vars == <<estado, contenido, fase, pedido, leido>>

Init ==
    /\ estado = [f \in Archivos |-> CASE f = Base -> "COMMITED"
                                      [] f \in YaCreados -> "WORK_IN_PROGRESS"
                                      [] OTHER -> "ausente"]
    /\ contenido = [f \in Archivos |-> IF f \in YaCreados THEN <<Cero>> ELSE <<>>]
    /\ fase = [h \in Hilos |-> "libre"]
    /\ pedido = [h \in Hilos |-> SinPedido]
    /\ leido = [h \in Hilos |-> Vacio]

Existe(f) == estado[f] # "ausente"
Editable(f) == f # Base /\ estado[f] = "WORK_IN_PROGRESS"
Dentro(f, paginas) == \A i \in DOMAIN paginas : paginas[i][1] < Len(contenido[f])

\* The requests that must be granted.  A write may also be refused for want of space.
Valido(p) ==
    CASE p.op = "CREATE" -> ~Existe(p.f)
      [] p.op = "TRUNCATE" -> Editable(p.f)
      [] p.op = "TAG" -> p.f # Base /\ Existe(p.f) /\ ~Existe(p.d)
      [] p.op = "READ" -> Existe(p.f) /\ p.p < Len(contenido[p.f])
      [] p.op \in {"FLUSH", "WRITE"} -> Editable(p.f) /\ Dentro(p.f, p.paginas)
      [] p.op = "COMMIT" -> p.f # Base /\ Existe(p.f)
      [] p.op = "DELETE" -> p.f # Base /\ Existe(p.f)

Escritos(s, paginas) ==
    [i \in DOMAIN s |->
        IF \E j \in DOMAIN paginas : paginas[j][1] = i - 1
        THEN paginas[CHOOSE j \in DOMAIN paginas : paginas[j][1] = i - 1][2] ELSE s[i]]

Poner(p, e, c) == /\ estado' = [estado EXCEPT ![p] = e]
                  /\ contenido' = [contenido EXCEPT ![p] = c]

\* What a granted request does to the file:tags.
Efecto(p) ==
    CASE p.op = "CREATE" -> Poner(p.f, "WORK_IN_PROGRESS", <<>>)
      [] p.op = "TRUNCATE" ->
            Poner(p.f, estado[p.f], [i \in 1..p.n |->
                IF i <= Len(contenido[p.f]) THEN contenido[p.f][i] ELSE Cero])
      [] p.op = "TAG" -> Poner(p.d, "WORK_IN_PROGRESS", contenido[p.f])
      [] p.op = "READ" -> UNCHANGED <<estado, contenido>>
      [] p.op \in {"FLUSH", "WRITE"} ->
            Poner(p.f, estado[p.f], Escritos(contenido[p.f], p.paginas))
      [] p.op = "COMMIT" -> Poner(p.f, "COMMITED", contenido[p.f])
      [] p.op = "DELETE" -> Poner(p.f, "ausente", <<>>)

Pedir(h) == /\ fase[h] = "libre"
            /\ \E p \in Pedidos : pedido' = [pedido EXCEPT ![h] = p]
            /\ fase' = [fase EXCEPT ![h] = "pedida"]
            /\ UNCHANGED <<estado, contenido, leido>>

Hacer(h) == /\ fase[h] = "pedida" /\ Valido(pedido[h])
            /\ Efecto(pedido[h])
            /\ leido' = IF pedido[h].op = "READ"
                        THEN [leido EXCEPT ![h] = contenido[pedido[h].f][pedido[h].p + 1]]
                        ELSE leido
            /\ fase' = [fase EXCEPT ![h] = "ok"]
            /\ UNCHANGED pedido

Rechazar(h) == /\ fase[h] = "pedida"
               /\ ~Valido(pedido[h]) \/ pedido[h].op \in {"FLUSH", "WRITE"}
               /\ fase' = [fase EXCEPT ![h] = "error"]
               /\ UNCHANGED <<estado, contenido, pedido, leido>>

Responder(h) == /\ fase[h] \in {"ok", "error"}
                /\ fase' = [fase EXCEPT ![h] = "libre"]
                /\ pedido' = [pedido EXCEPT ![h] = SinPedido]
                /\ UNCHANGED <<estado, contenido, leido>>

Next == \E h \in Hilos : Pedir(h) \/ Hacer(h) \/ Rechazar(h) \/ Responder(h)

Spec == Init /\ [][Next]_vars
===============================================================================
