------------------------------- MODULE Bloques -------------------------------
(***************************************************************************)
(* The file system of Storage (storage/src/operaciones.c): physical blocks *)
(* and the hard links of the file:tags to them, the metadata of each       *)
(* file:tag, the index of hashes and the bitmap, in memory and on disk,    *)
(* under one thread per Worker (servidorMultihilo.c).                      *)
(*                                                                         *)
(* An operation is cut where another thread, or a crash, can see it: at    *)
(* each access to the bitmap, to the links or the contents of a block, to  *)
(* the index, and at each save of a file.  What it reads of its own        *)
(* file:tag, whose mutex it holds, is read where it is used.               *)
(*                                                                         *)
(* The mutex of a file:tag is taken to exclude: Candados shows when it     *)
(* does.  TAG takes its two at once (their order is there too).            *)
(***************************************************************************)
EXTENDS Naturals, Sequences, FiniteSets

CONSTANTS
    Hilos,      \* the threads that serve the Workers (rutina_operaciones)
    Archivos,   \* file:tags
    Base,       \* initial_file:BASE
    Cero,       \* the content of block 0
    Vacio,      \* a block nobody wrote, or that fopen "wb" left empty
    Contenidos, \* what a page may hold
    NBloques,   \* physical blocks: tamanio_filesystem / tamanio_bloque
    MaxPaginas, \* bound: pages of a file:tag
    NNodos,     \* bound: inodes; more than NBloques, for those that lost their physical name
    Mezclas,    \* sets of requests: the Workers of a behaviour send those of one of them
    YaCreados,  \* file:tags that exist at the start with one page never written
    MaxPedidos, \* bound: requests served
    MaxCaidas,  \* bound: crashes of Storage
    Nadie       \* no inode, no block

ASSUME BloquesAssumption ==
    /\ NBloques \in Nat \ {0} /\ NNodos \in Nat /\ NNodos >= NBloques
    /\ MaxPaginas \in Nat \ {0} /\ MaxPedidos \in Nat /\ MaxCaidas \in Nat
    /\ {Cero, Vacio} \subseteq Contenidos
    /\ IsFiniteSet(Archivos) /\ Base \in Archivos /\ YaCreados \subseteq Archivos \ {Base}
    /\ Nadie \notin Nat

ASSUME PedidosAssumption ==
    \A p \in UNION Mezclas :
        /\ p.op \in {"CREATE", "TRUNCATE", "TAG", "READ", "FLUSH", "WRITE", "COMMIT", "DELETE"}
        /\ p.f \in Archivos
        /\ p.op = "TAG" => p.d \in Archivos
        /\ p.op = "TRUNCATE" => p.n \in 0..MaxPaginas
        /\ p.op = "READ" => p.p \in Nat
        /\ p.op \in {"FLUSH", "WRITE"} => p.paginas \in Seq(Nat \X Contenidos)

Bloque == 0..NBloques - 1
Nodo == 0..NNodos - 1
Pagina == 0..MaxPaginas - 1

VARIABLES
    mezcla,     \* the requests of this behaviour
    meta,       \* metadata.config of each file:tag: ESTADO, TAMANIO (in blocks), BLOCKS
    logico,     \* logico[f][p]: the inode that logical block p of f links
    nodo,       \* nodo[b]: the inode that physical_blocks/block<b>.dat names
    dato,       \* dato[n]: the content of inode n
    indice,     \* blocks_hash_index.config: content -> block
    bitmap,     \* storage->bitmap: the blocks marked used
    bitmapDisco,\* bitmap.bin
    pc,         \* the point each thread is at
    pedido,     \* the request it serves
    ok,         \* its result so far (todas_exitosas)
    leido,      \* the block its last READ answered
    loc,        \* the locals of the operation
    pedidos,    \* requests served (bound)
    caidas      \* crashes (bound)

disco == <<meta, logico, nodo, dato, indice, bitmapDisco>>
entorno == <<mezcla, pedidos, caidas>>
vars == <<disco, bitmap, pc, pedido, ok, leido, loc, entorno>>

\* "carpeta": the directory exists, its metadata.config does not.
Estados == {"ausente", "carpeta", "WORK_IN_PROGRESS", "COMMITED"}
SinMeta == [estado |-> "ausente", tam |-> 0, blocks |-> <<>>]
SinPedido == [op |-> "NINGUNO", f |-> Base]
SinIndice == [c \in Contenidos |-> Nadie]
\* pag: the page or the index in turn; cola: pages to write, still to be prepared; pend:
\* escrituras_pendientes, as <<page, block, content>>; nuevo: nuevo_bloque_fisico;
\* lista: nuevos_bloques_str; idx: the index as loaded; modif: se_modifico_metadata.
SinLocales == [pag |-> 0, cola |-> <<>>, pend |-> <<>>, nuevo |-> 0, lista |-> <<>>,
               idx |-> SinIndice, modif |-> FALSE]

\* A formatted file system (formatear_fs, crear_initial_file) after a Worker created
\* YaCreados and truncated them to one page.
Init ==
    /\ mezcla \in Mezclas
    /\ meta = [f \in Archivos |->
          CASE f = Base -> [estado |-> "COMMITED", tam |-> 0, blocks |-> <<0>>]
            [] f \in YaCreados -> [estado |-> "WORK_IN_PROGRESS", tam |-> 1, blocks |-> <<0>>]
            [] OTHER -> SinMeta]
    /\ logico = [f \in Archivos |-> [p \in Pagina |->
                    IF p = 0 /\ f \in YaCreados \cup {Base} THEN 0 ELSE Nadie]]
    /\ nodo = [b \in Bloque |-> b]
    /\ dato = [n \in Nodo |-> IF n = 0 THEN Cero ELSE Vacio]
    /\ indice = SinIndice
    /\ bitmap = {0} /\ bitmapDisco = {0}
    /\ pc = [h \in Hilos |-> "libre"]
    /\ pedido = [h \in Hilos |-> SinPedido]
    /\ ok = [h \in Hilos |-> TRUE]
    /\ leido = [h \in Hilos |-> Vacio]
    /\ loc = [h \in Hilos |-> SinLocales]
    /\ pedidos = 0 /\ caidas = 0

-------------------------------------------------------------------------------
\* st_nlink of an inode: its logical links, and its name in physical_blocks.
Enlaces(n) == Cardinality({x \in Archivos \X Pagina : logico[x[1]][x[2]] = n})
              + Cardinality({b \in Bloque : nodo[b] = n})

\* Mutant: the bitmap is searched one bit too far.
LibresDeMas == {b \in 1..NBloques : b \notin bitmap}

\* The lowest free block but 0, which is that of initial_file.
Libres == {b \in Bloque \ {0} : b \notin bitmap}
PrimerLibre == CHOOSE b \in Libres : \A c \in Libres : b <= c

\* fopen(block<b>.dat, "wb") creates the file when its name is gone.
NodosUsados == {n \in Nodo : Enlaces(n) > 0}
NodoNuevo == CHOOSE n \in Nodo \ NodosUsados : \A m \in Nodo \ NodosUsados : n <= m
NodoParaEscribir(b) == IF nodo[b] = Nadie THEN NodoNuevo ELSE nodo[b]

Commited(f) == meta[f].estado = "COMMITED"
ConMetadata(f) == meta[f].estado \in {"WORK_IN_PROGRESS", "COMMITED"}
Legible(f, p) == p < meta[f].tam /\ p < Len(meta[f].blocks) /\ logico[f][p] # Nadie

\* DELETE and TAG refuse initial_file:BASE before they look for any mutex.
SinCandado(p) == p.op \in {"DELETE", "TAG"} /\ p.f = Base
Nombrados(p) == IF p.op = "TAG" THEN {p.f, p.d} ELSE {p.f}
Tiene(h) == IF pc[h] \in {"libre", "entrar"} \/ SinCandado(pedido[h]) THEN {}
            ELSE Nombrados(pedido[h])

Tomable(f) == \A g \in Hilos : f \notin Tiene(g)

\* mutex_hash_index is held while evitar_duplicidad runs.
PasosDedup == {"dedup_pag", "dedup_link", "dedup_bit", "dedup_persistir"}
HashLibre == \A g \in Hilos : pc[g] \notin PasosDedup

Ir(h, paso, l) == /\ pc' = [pc EXCEPT ![h] = paso]
                  /\ loc' = [loc EXCEPT ![h] = l]
                  /\ UNCHANGED <<pedido, entorno>>
Resultado(h, r) == /\ Ir(h, "responder", SinLocales)
                   /\ ok' = [ok EXCEPT ![h] = r]
Falla(h) == Resultado(h, FALSE) /\ UNCHANGED <<disco, bitmap, leido>>

\* The thread gets past the mutexes of the request, of kind op.
Empieza(h, op) == /\ pc[h] = "entrar" /\ pedido[h].op = op
                  /\ ~SinCandado(pedido[h]) => \A f \in Nombrados(pedido[h]) : Tomable(f)

PonerMeta(f, m) == /\ meta' = [meta EXCEPT ![f] = m]
                   /\ UNCHANGED <<logico, nodo, dato, indice, bitmapDisco, bitmap, leido>>
Enlazar(f, p, n) == /\ logico' = [logico EXCEPT ![f][p] = n]
                    /\ UNCHANGED <<meta, nodo, dato, indice, bitmapDisco, bitmap, leido>>

\* Mutant: the bit is computed and not set.
PonerBitmapNada(s) == UNCHANGED <<bitmap, disco, leido>>

PonerBitmap(s) == bitmap' = s /\ UNCHANGED <<disco, leido>>
PersistirBitmap == /\ bitmapDisco' = bitmap
                   /\ UNCHANGED <<meta, logico, nodo, dato, indice, bitmap, leido>>

-------------------------------------------------------------------------------
(* Requests: rutina_operaciones. *)

Pedir(h) ==
    /\ pc[h] = "libre" /\ pedidos < MaxPedidos
    /\ \E p \in mezcla : pedido' = [pedido EXCEPT ![h] = p]
    /\ pedidos' = pedidos + 1
    /\ pc' = [pc EXCEPT ![h] = "entrar"]
    /\ UNCHANGED <<mezcla, disco, bitmap, ok, leido, loc, caidas>>

\* The mutexes are released, the operation returns and its answer is sent.
Responder(h) ==
    /\ pc[h] = "responder"
    /\ pc' = [pc EXCEPT ![h] = "libre"]
    /\ pedido' = [pedido EXCEPT ![h] = SinPedido]
    /\ ok' = [ok EXCEPT ![h] = TRUE]
    /\ UNCHANGED <<disco, bitmap, leido, loc, entorno>>

-------------------------------------------------------------------------------
(* CREATE: crear_file. *)

Crear(h) == LET f == pedido[h].f IN
    /\ Empieza(h, "CREATE")
    /\ IF meta[f].estado # "ausente" THEN Falla(h)
       ELSE /\ PonerMeta(f, [SinMeta EXCEPT !.estado = "carpeta"])
            /\ Ir(h, "crear_meta", SinLocales) /\ UNCHANGED ok

CrearMeta(h) ==
    /\ pc[h] = "crear_meta"
    /\ PonerMeta(pedido[h].f, [SinMeta EXCEPT !.estado = "WORK_IN_PROGRESS"])
    /\ Resultado(h, TRUE)

-------------------------------------------------------------------------------
(* TRUNCATE: truncar_file. *)

Truncar(h) == LET f == pedido[h].f
                  n == pedido[h].n
                  t == meta[f].tam IN
    /\ Empieza(h, "TRUNCATE")
    /\ IF f = Base \/ meta[f].estado # "WORK_IN_PROGRESS" THEN Falla(h)
       ELSE /\ \/ n > t /\ Ir(h, "trunc_crecer", [SinLocales EXCEPT !.pag = t])
               \/ n < t /\ Ir(h, "trunc_bajar", [SinLocales EXCEPT !.pag = t - 1])
               \/ n = t /\ Ir(h, "trunc_meta", SinLocales)
            /\ UNCHANGED <<disco, bitmap, ok, leido>>

\* A new page links block 0; link() fails when its file is there already.
TruncCrecer(h) == LET f == pedido[h].f
                      p == loc[h].pag IN
    /\ pc[h] = "trunc_crecer"
    /\ IF logico[f][p] # Nadie \/ nodo[0] = Nadie THEN Falla(h)
       ELSE /\ Enlazar(f, p, nodo[0])
            /\ Ir(h, IF p + 1 = pedido[h].n THEN "trunc_meta" ELSE "trunc_crecer",
                  [loc[h] EXCEPT !.pag = p + 1])
            /\ UNCHANGED ok

TruncBajar(h) ==
    /\ pc[h] = "trunc_bajar"
    /\ Enlazar(pedido[h].f, loc[h].pag, Nadie)
    /\ Ir(h, "trunc_stat", loc[h]) /\ UNCHANGED ok

TruncSigue(h) == IF loc[h].pag = pedido[h].n THEN Ir(h, "trunc_meta", loc[h])
                 ELSE Ir(h, "trunc_bajar", [loc[h] EXCEPT !.pag = @ - 1])

BloqueDe(f, p) == IF p < Len(meta[f].blocks) THEN meta[f].blocks[p + 1] ELSE 0

\* stat() of the physical block: is its name the only link left?
TruncStat(h) == LET b == BloqueDe(pedido[h].f, loc[h].pag) IN
    /\ pc[h] = "trunc_stat"
    /\ IF nodo[b] # Nadie /\ Enlaces(nodo[b]) = 1 THEN Ir(h, "trunc_liberar", loc[h])
       ELSE TruncSigue(h)
    /\ UNCHANGED <<disco, bitmap, ok, leido>>

\* marcar_bloque_libre
TruncLiberar(h) ==
    /\ pc[h] = "trunc_liberar"
    /\ PonerBitmap(bitmap \ {BloqueDe(pedido[h].f, loc[h].pag)})
    /\ TruncSigue(h) /\ UNCHANGED ok

TruncMeta(h) == LET f == pedido[h].f
                    n == pedido[h].n IN
    /\ pc[h] = "trunc_meta"
    /\ PonerMeta(f, [meta[f] EXCEPT !.tam = n,
                                    !.blocks = [i \in 1..n |-> BloqueDe(f, i - 1)]])
    /\ Resultado(h, TRUE)

-------------------------------------------------------------------------------
(* TAG: tag_file. *)

Tag(h) == LET o == pedido[h].f
              d == pedido[h].d IN
    /\ Empieza(h, "TAG")
    /\ IF o = Base \/ meta[o].estado = "ausente" \/ meta[d].estado # "ausente" THEN Falla(h)
       ELSE /\ PonerMeta(d, [SinMeta EXCEPT !.estado = "carpeta"])
            /\ IF ConMetadata(o) THEN Ir(h, "tag_meta", SinLocales) /\ UNCHANGED ok
               ELSE Resultado(h, FALSE)

TagMeta(h) ==
    /\ pc[h] = "tag_meta"
    /\ PonerMeta(pedido[h].d, [meta[pedido[h].f] EXCEPT !.estado = "WORK_IN_PROGRESS"])
    /\ Ir(h, "tag_link", SinLocales) /\ UNCHANGED ok

TagLink(h) == LET p == loc[h].pag IN
    /\ pc[h] = "tag_link"
    /\ Enlazar(pedido[h].d, p, logico[pedido[h].f][p])
    /\ IF p + 1 = MaxPaginas THEN Resultado(h, TRUE)
       ELSE Ir(h, "tag_link", [loc[h] EXCEPT !.pag = p + 1]) /\ UNCHANGED ok

-------------------------------------------------------------------------------
(* READ: leer_bloque reads through the logical link. *)

Leer(h) == LET f == pedido[h].f
               p == pedido[h].p IN
    /\ Empieza(h, "READ")
    /\ IF ~ConMetadata(f) \/ ~Legible(f, p) THEN Falla(h)
       ELSE /\ leido' = [leido EXCEPT ![h] = dato[logico[f][p]]]
            /\ Resultado(h, TRUE) /\ UNCHANGED <<disco, bitmap>>
-------------------------------------------------------------------------------
(* FLUSH (flush_archivo) and WRITE_BLOCK (escribir_bloque): each page goes to a   *)
(* block of its own (copy on write), then the contents are written.  WRITE_BLOCK  *)
(* takes one page, and its bitmap is not saved.                                   *)

Escribir(h, op) == LET f == pedido[h].f IN
    /\ Empieza(h, op)
    /\ IF f = Base \/ meta[f].estado # "WORK_IN_PROGRESS" THEN Falla(h)
       ELSE /\ Ir(h, "pagina", [SinLocales EXCEPT !.cola = pedido[h].paginas])
            /\ UNCHANGED <<disco, bitmap, ok, leido>>

Flush(h) == Escribir(h, "FLUSH")
EscribirBloque(h) == Escribir(h, "WRITE")

EnCurso(h) == Head(loc[h].cola)

\* Mutant: a page that cannot be written does not fail the request.
SaltearSinAvisar(h) == /\ Ir(h, "pagina", [loc[h] EXCEPT !.cola = Tail(@), !.nuevo = 0])
                       /\ UNCHANGED ok

Saltear(h) == /\ Ir(h, "pagina", [loc[h] EXCEPT !.cola = Tail(@), !.nuevo = 0])
              /\ ok' = [ok EXCEPT ![h] = FALSE]
ConPendiente(h, b) == [loc[h] EXCEPT !.cola = Tail(@), !.nuevo = 0,
                                     !.pend = Append(@, <<EnCurso(h)[1], b, EnCurso(h)[2]>>)]

\* Mutant: every page is written in place.
UnicoSiempre(n) == TRUE

\* st_nlink == 1: nobody else links the inode.
Unico(n) == Enlaces(n) = 1

\* A page is out of range, or its block is written in place, or a free block is reserved
\* for it, or none is left.
PrepararPagina(h) == LET f == pedido[h].f
                         p == EnCurso(h)[1] IN
    /\ pc[h] = "pagina" /\ loc[h].cola # <<>>
    /\ \/ /\ ~Legible(f, p)
          /\ Saltear(h) /\ UNCHANGED <<disco, bitmap, leido>>
       \/ /\ Legible(f, p) /\ Unico(logico[f][p])
          /\ Ir(h, "pagina", ConPendiente(h, BloqueDe(f, p)))
          /\ UNCHANGED <<disco, bitmap, ok, leido>>
       \/ /\ Legible(f, p) /\ ~Unico(logico[f][p]) /\ Libres = {}
          /\ Saltear(h) /\ UNCHANGED <<disco, bitmap, leido>>
       \/ /\ Legible(f, p) /\ ~Unico(logico[f][p]) /\ Libres # {}
          /\ PonerBitmap(bitmap \cup {PrimerLibre})
          /\ Ir(h, "copiar", [loc[h] EXCEPT !.nuevo = PrimerLibre]) /\ UNCHANGED ok

\* fopen "rb" of the old block and "wb" of the new one, by their physical names.
Copiar(h) == LET b == BloqueDe(pedido[h].f, EnCurso(h)[1])
                 c == loc[h].nuevo
                 n == NodoParaEscribir(c) IN
    /\ pc[h] = "copiar"
    /\ nodo[c] = Nadie => NodosUsados # Nodo
    /\ nodo' = [nodo EXCEPT ![c] = n]
    /\ dato' = [dato EXCEPT ![n] = IF nodo[b] \in {Nadie, n} THEN Vacio ELSE dato[nodo[b]]]
    /\ UNCHANGED <<meta, logico, indice, bitmapDisco, leido>>
    /\ IF nodo[b] = Nadie THEN Saltear(h) /\ bitmap' = bitmap \ {c}
       ELSE Ir(h, "desenlazar", loc[h]) /\ UNCHANGED <<bitmap, ok>>

Desenlazar(h) ==
    /\ pc[h] = "desenlazar"
    /\ Enlazar(pedido[h].f, EnCurso(h)[1], Nadie)
    /\ Ir(h, "enlazar", loc[h]) /\ UNCHANGED ok

\* When link() fails the old block is linked back and the new one freed.
Reenlazar(h) == LET f == pedido[h].f
                    p == EnCurso(h)[1]
                    c == loc[h].nuevo IN
    /\ pc[h] = "enlazar"
    /\ IF nodo[c] # Nadie
       THEN Enlazar(f, p, nodo[c]) /\ Ir(h, "pagina", ConPendiente(h, c)) /\ UNCHANGED ok
       ELSE /\ logico' = [logico EXCEPT ![f][p] = nodo[BloqueDe(f, p)]]
            /\ bitmap' = bitmap \ {c}
            /\ Saltear(h) /\ UNCHANGED <<meta, nodo, dato, indice, bitmapDisco, leido>>

\* BLOCKS is saved only when every page went well.
PendienteDe(h, p) == {i \in DOMAIN loc[h].pend : loc[h].pend[i][1] = p}

\* Mutant: BLOCKS keeps the blocks of before the copy.
GuardarBlocksNunca(h) == /\ pc[h] = "pagina" /\ loc[h].cola = <<>>
                         /\ Ir(h, "escribir", loc[h])
                         /\ UNCHANGED <<disco, bitmap, ok, leido>>

GuardarBlocks(h) == LET f == pedido[h].f IN
    /\ pc[h] = "pagina" /\ loc[h].cola = <<>>
    /\ PonerMeta(f, IF ok[h]
          THEN [meta[f] EXCEPT !.blocks = [i \in DOMAIN @ |->
                  IF PendienteDe(h, i - 1) = {} THEN @[i]
                  ELSE loc[h].pend[CHOOSE j \in PendienteDe(h, i - 1) : TRUE][2]]]
          ELSE meta[f])
    /\ Ir(h, "escribir", loc[h]) /\ UNCHANGED ok

\* The pending contents are written, by physical name, whatever became of the rest.
EscribirPendiente(h) == LET e == Head(loc[h].pend) IN
    /\ pc[h] = "escribir" /\ loc[h].pend # <<>>
    /\ dato' = IF nodo[e[2]] = Nadie THEN dato ELSE [dato EXCEPT ![nodo[e[2]]] = e[3]]
    /\ ok' = [ok EXCEPT ![h] = @ /\ nodo[e[2]] # Nadie]
    /\ Ir(h, "escribir", [loc[h] EXCEPT !.pend = Tail(@)])
    /\ UNCHANGED <<meta, logico, nodo, indice, bitmapDisco, bitmap, leido>>

TerminarEscritura(h) ==
    /\ pc[h] = "escribir" /\ loc[h].pend = <<>>
    /\ Resultado(h, ok[h])
    /\ IF ok[h] /\ pedido[h].op = "FLUSH" THEN PersistirBitmap
       ELSE UNCHANGED <<disco, bitmap, leido>>

-------------------------------------------------------------------------------
(* COMMIT: realizar_commit, after evitar_duplicidad. *)

Commit(h) == LET f == pedido[h].f
                 m == meta[f] IN
    /\ Empieza(h, "COMMIT")
    /\ \/ (f = Base \/ ~ConMetadata(f)) /\ Falla(h)
       \/ /\ f # Base /\ Commited(f)
          /\ Resultado(h, TRUE) /\ UNCHANGED <<disco, bitmap, leido>>
       \/ /\ m.estado = "WORK_IN_PROGRESS" /\ HashLibre
          /\ IF m.blocks = <<>> THEN Ir(h, "commit_estado", SinLocales)
             ELSE Ir(h, "dedup_pag", [SinLocales EXCEPT !.lista = m.blocks, !.idx = indice])
          /\ UNCHANGED <<disco, bitmap, ok, leido>>

DedupSigue(h, l) == Ir(h, "dedup_pag", [l EXCEPT !.pag = @ + 1])

\* What the index says of the content of block b; a block without its file is let be.
Indexado(h, b) == IF nodo[b] = Nadie THEN b ELSE loc[h].idx[dato[nodo[b]]]

\* A page whose content is in the index under another block loses its link; one whose
\* content is new goes into the index.
DedupPag(h) == LET f == pedido[h].f
                   p == loc[h].pag
                   b == meta[f].blocks[p + 1]
                   e == Indexado(h, b) IN
    /\ pc[h] = "dedup_pag" /\ p < Len(meta[f].blocks)
    /\ \/ e = b /\ DedupSigue(h, loc[h]) /\ UNCHANGED <<disco, bitmap, leido>>
       \/ /\ e = Nadie
          /\ DedupSigue(h, [loc[h] EXCEPT !.idx[dato[nodo[b]]] = b])
          /\ UNCHANGED <<disco, bitmap, leido>>
       \/ /\ e \notin {Nadie, b} /\ logico[f][p] = Nadie
          /\ DedupSigue(h, [loc[h] EXCEPT !.modif = TRUE]) /\ UNCHANGED <<disco, bitmap, leido>>
       \/ /\ e \notin {Nadie, b} /\ logico[f][p] # Nadie
          /\ Enlazar(f, p, Nadie)
          /\ Ir(h, "dedup_link", [loc[h] EXCEPT !.lista[p + 1] = e, !.modif = TRUE])
    /\ UNCHANGED ok

DedupLink(h) == LET f == pedido[h].f
                    p == loc[h].pag
                    b == meta[f].blocks[p + 1]
                    e == loc[h].lista[p + 1] IN
    /\ pc[h] = "dedup_link"
    /\ IF nodo[e] # Nadie THEN Enlazar(f, p, nodo[e]) /\ Ir(h, "dedup_bit", loc[h])
       ELSE /\ Enlazar(f, p, nodo[b])
            /\ DedupSigue(h, [loc[h] EXCEPT !.lista[p + 1] = b, !.modif = FALSE])
    /\ UNCHANGED ok

DedupBit(h) ==
    /\ pc[h] = "dedup_bit"
    /\ PonerBitmap(bitmap \ {meta[pedido[h].f].blocks[loc[h].pag + 1]})
    /\ Ir(h, "dedup_persistir", loc[h]) /\ UNCHANGED ok

DedupPersistir(h) ==
    /\ pc[h] = "dedup_persistir"
    /\ PersistirBitmap /\ DedupSigue(h, loc[h]) /\ UNCHANGED ok

\* BLOCKS, if it changed, and the index are saved; the mutex of the index is released.
DedupGuardar(h) == LET f == pedido[h].f IN
    /\ pc[h] = "dedup_pag" /\ loc[h].pag = Len(meta[f].blocks)
    /\ meta' = [meta EXCEPT ![f].blocks = IF loc[h].modif THEN loc[h].lista ELSE @]
    /\ indice' = loc[h].idx
    /\ Ir(h, "commit_estado", SinLocales)
    /\ UNCHANGED <<logico, nodo, dato, bitmapDisco, bitmap, ok, leido>>

CommitEstado(h) ==
    /\ pc[h] = "commit_estado"
    /\ PonerMeta(pedido[h].f, [meta[pedido[h].f] EXCEPT !.estado = "COMMITED"])
    /\ Ir(h, "commit_persistir", SinLocales) /\ UNCHANGED ok

CommitPersistir(h) ==
    /\ pc[h] = "commit_persistir"
    /\ PersistirBitmap /\ Resultado(h, TRUE)

-------------------------------------------------------------------------------
(* DELETE: eliminar_file_tag.  COMMITED is no obstacle. *)

Eliminar(h) == LET f == pedido[h].f IN
    /\ Empieza(h, "DELETE")
    /\ IF f = Base \/ ~ConMetadata(f) THEN Falla(h)
       ELSE /\ Ir(h, "del_unlink", SinLocales)
            /\ UNCHANGED <<disco, bitmap, ok, leido>>

\* First every logical block of BLOCKS is unlinked, then the physical ones are looked at.
DelSigue(h, paso, fin) ==
    IF loc[h].pag + 1 < Len(meta[pedido[h].f].blocks)
    THEN Ir(h, paso, [loc[h] EXCEPT !.pag = @ + 1]) ELSE Ir(h, fin, SinLocales)

DelUnlink(h) == LET f == pedido[h].f IN
    /\ pc[h] = "del_unlink"
    /\ IF meta[f].blocks = <<>>
       THEN Ir(h, "del_persistir", SinLocales) /\ UNCHANGED <<disco, bitmap, leido>>
       ELSE Enlazar(f, loc[h].pag, Nadie) /\ DelSigue(h, "del_unlink", "del_stat")
    /\ UNCHANGED ok

DelBloque(h) == meta[pedido[h].f].blocks[loc[h].pag + 1]

\* The bit of a block without a file is cleared only below bitmap->size, which is in bytes.
BytesBitmap == (NBloques + 7) \div 8

\* Mutant: the physical name is not counted among the links.
DelStatDeMas(h) == LET b == DelBloque(h) IN
    /\ pc[h] = "del_stat"
    /\ IF nodo[b] # Nadie /\ Enlaces(nodo[b]) <= 2 THEN Ir(h, "del_fisico", loc[h])
       ELSE IF nodo[b] = Nadie /\ b < BytesBitmap THEN Ir(h, "del_bit", loc[h])
       ELSE DelSigue(h, "del_stat", "del_persistir")
    /\ UNCHANGED <<disco, bitmap, ok, leido>>

DelStat(h) == LET b == DelBloque(h) IN
    /\ pc[h] = "del_stat"
    /\ IF nodo[b] # Nadie /\ Enlaces(nodo[b]) <= 1 THEN Ir(h, "del_fisico", loc[h])
       ELSE IF nodo[b] = Nadie /\ b < BytesBitmap THEN Ir(h, "del_bit", loc[h])
       ELSE DelSigue(h, "del_stat", "del_persistir")
    /\ UNCHANGED <<disco, bitmap, ok, leido>>

DelFisico(h) ==
    /\ pc[h] = "del_fisico"
    /\ nodo' = [nodo EXCEPT ![DelBloque(h)] = Nadie]
    /\ Ir(h, "del_bit", loc[h])
    /\ UNCHANGED <<meta, logico, dato, indice, bitmapDisco, bitmap, ok, leido>>

DelBit(h) ==
    /\ pc[h] = "del_bit"
    /\ PonerBitmap(bitmap \ {DelBloque(h)})
    /\ DelSigue(h, "del_stat", "del_persistir") /\ UNCHANGED ok

DelPersistir(h) ==
    /\ pc[h] = "del_persistir"
    /\ PersistirBitmap /\ Ir(h, "del_rm", SinLocales) /\ UNCHANGED ok

\* rm_rf of the directory takes what logical blocks are left.
DelRm(h) == LET f == pedido[h].f IN
    /\ pc[h] = "del_rm"
    /\ meta' = [meta EXCEPT ![f] = SinMeta]
    /\ logico' = [logico EXCEPT ![f] = [p \in Pagina |-> Nadie]]
    /\ Resultado(h, TRUE)
    /\ UNCHANGED <<nodo, dato, indice, bitmapDisco, bitmap, leido>>

-------------------------------------------------------------------------------
(* Storage stops at any point and starts again with FRESH_START=FALSE             *)
(* (inicializar_file_system): the bitmap is the one on disk, the threads and the  *)
(* mutexes are new.                                                               *)
Caer ==
    /\ caidas < MaxCaidas
    /\ caidas' = caidas + 1
    /\ bitmap' = bitmapDisco
    /\ pc' = [h \in Hilos |-> "libre"]
    /\ pedido' = [h \in Hilos |-> SinPedido]
    /\ ok' = [h \in Hilos |-> TRUE]
    /\ loc' = [h \in Hilos |-> SinLocales]
    /\ UNCHANGED <<mezcla, disco, leido, pedidos>>

Operacion(h) ==
    \/ Crear(h) \/ CrearMeta(h)
    \/ Truncar(h) \/ TruncCrecer(h) \/ TruncBajar(h) \/ TruncStat(h) \/ TruncLiberar(h)
    \/ TruncMeta(h)
    \/ Tag(h) \/ TagMeta(h) \/ TagLink(h)
    \/ Leer(h)
    \/ Flush(h) \/ EscribirBloque(h) \/ PrepararPagina(h) \/ Copiar(h) \/ Desenlazar(h)
    \/ Reenlazar(h) \/ GuardarBlocks(h) \/ EscribirPendiente(h) \/ TerminarEscritura(h)
    \/ Commit(h) \/ DedupPag(h) \/ DedupLink(h) \/ DedupBit(h) \/ DedupPersistir(h)
    \/ DedupGuardar(h) \/ CommitEstado(h) \/ CommitPersistir(h)
    \/ Eliminar(h) \/ DelUnlink(h) \/ DelStat(h) \/ DelFisico(h) \/ DelBit(h)
    \/ DelPersistir(h) \/ DelRm(h)

Next == (\E h \in Hilos : Pedir(h) \/ Operacion(h) \/ Responder(h)) \/ Caer

Spec == Init /\ [][Next]_vars

-------------------------------------------------------------------------------
Pasos == {"libre", "entrar", "responder", "crear_meta", "trunc_crecer", "trunc_bajar",
          "trunc_stat", "trunc_liberar", "trunc_meta", "tag_meta", "tag_link", "pagina",
          "copiar", "desenlazar", "enlazar", "escribir", "commit_estado", "commit_persistir",
          "del_unlink", "del_stat", "del_fisico", "del_bit", "del_persistir", "del_rm"}
         \cup PasosDedup

Locales == [pag : Nat, cola : Seq(Nat \X Contenidos), pend : Seq(Pagina \X Bloque \X Contenidos),
            nuevo : Bloque, lista : Seq(Bloque), idx : [Contenidos -> Bloque \cup {Nadie}],
            modif : BOOLEAN]

TypeOK ==
    /\ mezcla \in Mezclas
    /\ pc \in [Hilos -> Pasos]
    /\ loc \in [Hilos -> Locales]
    /\ meta \in [Archivos -> [estado : Estados, tam : 0..MaxPaginas, blocks : Seq(Bloque)]]
    /\ logico \in [Archivos -> [Pagina -> Nodo \cup {Nadie}]]
    /\ nodo \in [Bloque -> Nodo \cup {Nadie}]
    /\ dato \in [Nodo -> Contenidos]
    /\ indice \in [Contenidos -> Bloque \cup {Nadie}]
    /\ bitmap \subseteq Bloque /\ bitmapDisco \subseteq Bloque
    /\ \A h \in Hilos : pedido[h] \in mezcla \cup {SinPedido}
    /\ ok \in [Hilos -> BOOLEAN]
    /\ leido \in [Hilos -> Contenidos]

-------------------------------------------------------------------------------
(* What a file:tag looks like to whoever takes its mutex: operations in progress  *)
(* are seen before or after their effect, never in the middle.                    *)

Borrando(f) == \E h \in Hilos : /\ pedido[h].f = f
                                /\ pc[h] \in {"del_unlink", "del_stat", "del_fisico", "del_bit",
                                              "del_persistir", "del_rm"}
Armando(f) == \E h \in Hilos : pc[h] \in {"tag_meta", "tag_link"} /\ pedido[h].d = f
Achicando(h) == \/ pc[h] \in {"trunc_bajar", "trunc_stat", "trunc_liberar"}
                \/ pc[h] = "trunc_meta" /\ pedido[h].n <= meta[pedido[h].f].tam
Escribiendo(h) == pc[h] = "escribir" /\ ok[h]

EstadoVisto(f) == IF ~ConMetadata(f) \/ Borrando(f) \/ Armando(f) THEN "ausente"
                  ELSE meta[f].estado

LargoVisto(f) == IF \E h \in Hilos : Achicando(h) /\ pedido[h].f = f
                 THEN pedido[CHOOSE h \in Hilos : Achicando(h) /\ pedido[h].f = f].n
                 ELSE meta[f].tam

PaginaVista(f, p) ==
    LET quien == {h \in Hilos : Escribiendo(h) /\ pedido[h].f = f /\ PendienteDe(h, p) # {}}
        h == CHOOSE g \in quien : TRUE
        n == IF logico[f][p] # Nadie THEN logico[f][p] ELSE nodo[BloqueDe(f, p)] IN
    CASE quien # {} -> loc[h].pend[CHOOSE i \in PendienteDe(h, p) : TRUE][3]
      [] quien = {} /\ n # Nadie -> dato[n]
      [] OTHER -> Vacio

Fase(h) == CASE pc[h] = "libre" -> "libre"
             [] pc[h] = "responder" -> IF ok[h] THEN "ok" ELSE "error"
             [] \/ Achicando(h) \/ Escribiendo(h) \/ pc[h] = "commit_persistir"
                \/ pc[h] \notin {"libre", "entrar", "responder"} /\ pedido[h].op = "DELETE" -> "ok"
             [] OTHER -> "pedida"

Abs == INSTANCE ArchivosFS WITH
    Pedidos <- UNION Mezclas,
    estado <- [f \in Archivos |-> EstadoVisto(f)],
    contenido <- [f \in Archivos |-> IF EstadoVisto(f) = "ausente" THEN <<>>
                                     ELSE [i \in 1..LargoVisto(f) |-> PaginaVista(f, i - 1)]],
    fase <- [h \in Hilos |-> Fase(h)]

\* Every request takes effect at one instant, wholly or not at all, on its own
\* file:tag only, and a READ answers what that file:tag holds at that instant.
ImplementaArchivos == Abs!Spec

\* A block that a logical block links is marked used: nobody can reserve it.
EnlazadoOcupado ==
    \A f \in Archivos, p \in Pagina, b \in Bloque \ {0} :
        logico[f][p] # Nadie /\ logico[f][p] = nodo[b] => b \in bitmap

\* Block 0, on which every new page rests, is never lost: whatever operations, concurrent or
\* cut by a crash, have done to the others, it keeps its name and the link of initial_file.
BloqueCeroPresente == nodo[0] = 0 /\ logico[Base][0] = 0

\* And it is never written, as long as no file:tag is deleted: copy on write sends each page
\* to a block of its own.
SinDelete == \A p \in mezcla : p.op # "DELETE"
BloqueCeroIntacto == SinDelete => dato[nodo[0]] = Cero

\* With DELETE it may be: a page that a COMMIT linked to a block whose physical name a DELETE
\* removed afterwards is the only link of its inode, and is written in place, in the block
\* that BLOCKS still names if Storage stopped before it was saved.
CeroSinEscribir == dato[nodo[0]] = Cero

\* While nobody holds its mutex, BLOCKS of a file:tag names the blocks it links.
MetadataFiel ==
    \A f \in Archivos : Tomable(f) /\ ConMetadata(f) =>
        \A p \in Pagina : logico[f][p] = IF p < Len(meta[f].blocks)
                                         THEN nodo[meta[f].blocks[p + 1]] ELSE Nadie

\* The deduplication of a COMMIT replaces a block by one with the same content.
CommitConserva ==
    [][\A h \in Hilos : pc[h] \in PasosDedup =>
          \A p \in 0..meta[pedido[h].f].tam - 1 :
              PaginaVista(pedido[h].f, p)' = PaginaVista(pedido[h].f, p)]_vars

\* What a COMMITED file:tag holds does not change while it exists.
CommitedEstable ==
    [][\A f \in Archivos : EstadoVisto(f) = "COMMITED" /\ EstadoVisto(f)' = "COMMITED" =>
          \A p \in 0..meta[f].tam - 1 : PaginaVista(f, p)' = PaginaVista(f, p)]_vars

\* A page is copied to another block only if some other page links its block.
CopiaSiCompartido ==
    [][\A h \in Hilos : pc[h] = "pagina" /\ pc'[h] = "copiar" =>
          \E f \in Archivos, p \in Pagina :
              /\ <<f, p>> # <<pedido[h].f, EnCurso(h)[1]>>
              /\ logico[f][p] = logico[pedido[h].f][EnCurso(h)[1]]]_vars
===============================================================================
