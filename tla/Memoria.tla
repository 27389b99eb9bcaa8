------------------------------- MODULE Memoria -------------------------------
(***************************************************************************)
(* The internal memory of a Worker (worker/src/memoria.c) and the          *)
(* instructions that go through it (query_interpreter.c): pages of         *)
(* file:tags in frames, replaced by LRU or CLOCK-M and written back to     *)
(* Storage when they leave, on FLUSH or before COMMIT.                     *)
(*                                                                         *)
(* One thread of the Worker uses its memory, so a step ends at each        *)
(* request to Storage and at each page of a READ or WRITE.  Storage is     *)
(* ArchivosFS: a request and its answer are one step, for nothing of the   *)
(* Worker moves between them.  A query may be interrupted between two      *)
(* instructions and go on in another Worker.                               *)
(***************************************************************************)
EXTENDS Naturals, Sequences, FiniteSets

CONSTANTS
    Workers,
    Queries,
    Archivos,       \* file:tags
    Base,           \* initial_file:BASE
    Bytes,          \* what a byte may be
    ByteCero,       \* the byte of a block nobody wrote
    TamPagina,      \* bytes of a page: BLOCK_SIZE
    NMarcos,        \* frames of each Worker: TAM_MEMORIA / BLOCK_SIZE
    Algoritmo,      \* ALGORITMO_REEMPLAZO of each Worker: "LRU" or "CLOCK-M"
    MaxPaginas,     \* bound: pages of a file:tag
    Mezclas,        \* what the queries of a behaviour may do: instr, and whether they mudan
    YaCreados,      \* file:tags of one page that exist at the start
    Ninguna,        \* no instruction
    Libre           \* a frame without a page

ASSUME MemoriaAssumption ==
    /\ TamPagina \in Nat \ {0} /\ MaxPaginas \in Nat \ {0}
    /\ NMarcos \in [Workers -> Nat \ {0}]
    /\ Algoritmo \in [Workers -> {"LRU", "CLOCK-M"}]
    /\ \A mz \in Mezclas : mz.mudan \in BOOLEAN /\ Ninguna \notin mz.instr
    /\ ByteCero \in Bytes /\ Base \in Archivos /\ YaCreados \subseteq Archivos \ {Base}

\* Offsets and sizes that are not negative; a TRUNCATE within the bound.
ASSUME InstruccionesAssumption ==
    \A mz \in Mezclas : \A i \in mz.instr :
        /\ i.op \in {"CREATE", "TRUNCATE", "WRITE", "READ", "TAG", "COMMIT", "FLUSH", "DELETE"}
        /\ i.f \in Archivos
        /\ i.op \in {"READ", "WRITE"} => i.dir \in Nat
        /\ i.op = "READ" => i.n \in Nat
        /\ i.op = "WRITE" => i.bytes \in Seq(Bytes)
        /\ i.op = "TRUNCATE" => i.n \in 0..MaxPaginas
        /\ i.op = "TAG" => i.d \in Archivos

Marcos(w) == 0..NMarcos[w] - 1
Claves == Archivos \X (0..MaxPaginas - 1)
Instrucciones == UNION {mz.instr : mz \in Mezclas}
ASSUME LibreAssumption == Libre \notin Claves

VARIABLES
    mezcla,             \* what the queries of this behaviour may do
    estado, contenido,  \* Storage: the state of each file:tag and its pages
    tablas,     \* tablas_paginas: tablas[w][<<f, p>>] = marco and modificada
    marcos,     \* marcos[w][m]: the page of entrada_pagina, or Libre
    arena,      \* memory_arena, by frames
    lru_list,   \* pages, the least recently used first
    bitR, bitM, \* bits_referencia and bits_modificados of clock_m
    puntero,    \* clock_m->puntero
    curso,      \* the instruction in progress
    hecho,      \* bytes_procesados
    buffer,     \* buffer_total
    error,      \* error_storage
    donde,      \* donde[q]: the Worker that runs query q
    usos        \* history, for LRU: pages by their last use

storage == <<estado, contenido>>
paginas == <<tablas, marcos, arena, lru_list, bitR, bitM, puntero, usos>>
instruccion == <<curso, hecho, buffer, error>>
queries == <<mezcla, donde>>
vars == <<storage, paginas, instruccion, queries>>

PaginaCero == [i \in 1..TamPagina |-> ByteCero]

Storage == INSTANCE ArchivosFS WITH
    Hilos <- Workers, Pedidos <- Instrucciones, Cero <- PaginaCero, Vacio <- PaginaCero,
    fase <- "ninguna", pedido <- Ninguna, leido <- Ninguna

Init ==
    /\ mezcla \in Mezclas
    /\ estado = [f \in Archivos |-> CASE f = Base -> "COMMITED"
                                      [] f \in YaCreados -> "WORK_IN_PROGRESS"
                                      [] OTHER -> "ausente"]
    /\ contenido = [f \in Archivos |-> IF f \in YaCreados THEN <<PaginaCero>> ELSE <<>>]
    /\ tablas = [w \in Workers |-> <<>>]
    /\ marcos = [w \in Workers |-> [m \in Marcos(w) |-> Libre]]
    /\ arena = [w \in Workers |-> [m \in Marcos(w) |-> PaginaCero]]
    /\ lru_list = [w \in Workers |-> <<>>]
    /\ bitR = [w \in Workers |-> [m \in Marcos(w) |-> FALSE]]
    /\ bitM = [w \in Workers |-> [m \in Marcos(w) |-> FALSE]]
    /\ puntero = [w \in Workers |-> 0]
    /\ curso = [w \in Workers |-> Ninguna]
    /\ hecho = [w \in Workers |-> 0]
    /\ buffer = [w \in Workers |-> <<>>]
    /\ error = [w \in Workers |-> FALSE]
    /\ donde \in {d \in [Queries -> Workers] : \A p, q \in Queries : p # q => d[p] # d[q]}
    /\ usos = [w \in Workers |-> <<>>]

-------------------------------------------------------------------------------
\* list_remove_element: the element goes and those behind it move up.
Sin(s, x) ==
    IF \A i \in DOMAIN s : s[i] # x THEN s
    ELSE LET n == CHOOSE i \in DOMAIN s : s[i] = x IN
         [i \in 1..Len(s) - 1 |-> IF i < n THEN s[i] ELSE s[i + 1]]
AlFinal(s, x) == Append(Sin(s, x), x)

Cargadas(w) == DOMAIN tablas[w]
Libres(w) == {m \in Marcos(w) : marcos[w][m] = Libre}

\* encontrar_marco_libre
MarcoLibre(w) == CHOOSE m \in Libres(w) : \A n \in Libres(w) : m <= n

Modificadas(w, f) == {k \in Cargadas(w) : k[1] = f /\ tablas[w][k].modificada}
Limpia(w, ks) == [k \in Cargadas(w) |-> [tablas[w][k] EXCEPT !.modificada = @ /\ k \notin ks]]

\* Mutant: the flush leaves the bits of CLOCK-M as they are.
BitsSinLimpiar(w, ks) == bitM[w]

BitsLimpios(w, ks) == [m \in Marcos(w) |-> bitM[w][m] /\ marcos[w][m] \notin ks]

EnFila(s) == CHOOSE q \in [1..Cardinality(s) -> s] : {q[i] : i \in DOMAIN q} = s

\* flush_paginas_modificadas: the packet; the modified bits are cleared when it is built.
PedidoFlush(w, f) == LET ks == EnFila(Modificadas(w, f)) IN
    [op |-> "FLUSH", f |-> f,
     paginas |-> [i \in DOMAIN ks |-> <<ks[i][2], arena[w][tablas[w][ks[i]].marco]>>]]

Aceptado(p) == Storage!Valido(p)
Servir(p) == IF Aceptado(p) THEN Storage!Efecto(p) ELSE UNCHANGED storage

-------------------------------------------------------------------------------
(* Replacement. *)

\* CLOCK-M looks from puntero on: for a page neither used nor modified; then for one
\* modified and not used, taking the bit of use from those it passes; then both again.
Vuelta(w, m) == (m + NMarcos[w] - puntero[w]) % NMarcos[w]
PrimeroDesde(w, s) == CHOOSE m \in s : \A n \in s : Vuelta(w, m) <= Vuelta(w, n)

SinUso(w) == {m \in Marcos(w) : ~bitR[w][m]}
SinCambios(w) == {m \in Marcos(w) : ~bitM[w][m]}

VictimaClock(w) ==
    CASE SinUso(w) \cap SinCambios(w) # {} -> PrimeroDesde(w, SinUso(w) \cap SinCambios(w))
      [] SinUso(w) # {} /\ SinUso(w) \cap SinCambios(w) = {} -> PrimeroDesde(w, SinUso(w))
      [] SinUso(w) = {} /\ SinCambios(w) # {} -> PrimeroDesde(w, SinCambios(w))
      [] OTHER -> puntero[w]

UsoTrasBuscar(w) == [m \in Marcos(w) |->
    /\ bitR[w][m]
    /\ \/ SinUso(w) \cap SinCambios(w) # {}
       \/ SinUso(w) # {} /\ Vuelta(w, m) > Vuelta(w, VictimaClock(w))]

Victima(w) == IF Algoritmo[w] = "LRU" THEN Head(lru_list[w]) ELSE marcos[w][VictimaClock(w)]

\* Mutant: the victim is dropped without looking at its modified bit.
BajadasNinguna(w, k) == {}

\* All the modified pages of the victim's file:tag are flushed, if the victim is one.
Bajadas(w, k) == IF tablas[w][k].modificada THEN Modificadas(w, k[1]) ELSE {}

\* Mutant: the frame of the victim is freed and its entry forgotten in the table.
SinEntradaOlvidada(tabla, k) == tabla

SinEntrada(tabla, k) == [j \in DOMAIN tabla \ {k} |-> tabla[j]]

\* Mutant: the pointer runs past the last frame.
SiguienteSinVuelta(w, m) == m + 1

Siguiente(w, m) == (m + 1) % NMarcos[w]

\* aplicar_lru, aplicar_clock_m.  The answer to the flush is taken from the socket and
\* not looked at.
Desalojar(w) ==
    LET k == Victima(w)
        m == tablas[w][k].marco
        ks == Bajadas(w, k) IN
    /\ IF ks # {} THEN Servir(PedidoFlush(w, k[1])) ELSE UNCHANGED storage
    /\ tablas' = [tablas EXCEPT ![w] = SinEntrada(Limpia(w, ks), k)]
    /\ marcos' = [marcos EXCEPT ![w][m] = Libre]
    /\ IF Algoritmo[w] = "LRU"
       THEN lru_list' = [lru_list EXCEPT ![w] = Tail(@)] /\ UNCHANGED <<bitR, bitM, puntero>>
       ELSE /\ bitR' = [bitR EXCEPT ![w] = [UsoTrasBuscar(w) EXCEPT ![m] = FALSE]]
            /\ bitM' = [bitM EXCEPT ![w] = [BitsLimpios(w, ks) EXCEPT ![m] = FALSE]]
            /\ puntero' = [puntero EXCEPT ![w] = Siguiente(w, m)]
            /\ UNCHANGED lru_list
    /\ UNCHANGED <<arena, usos, instruccion, queries>>

-------------------------------------------------------------------------------
(* READ and WRITE: acceder_memoria, one page at a time. *)

Accesos == {"READ", "WRITE"}
Accede(w) == curso[w] # Ninguna /\ curso[w].op \in Accesos

Total(i) == IF i.op = "WRITE" THEN Len(i.bytes) ELSE i.n

\* Mutant: the offset in the first page is used in those that follow.
DesdeSiempreIgual(w) == curso[w].dir % TamPagina

Desde(w) == (curso[w].dir + hecho[w]) % TamPagina

Tramo(w) == IF Desde(w) + Total(curso[w]) - hecho[w] > TamPagina THEN TamPagina - Desde(w)
            ELSE Total(curso[w]) - hecho[w]
Clave(w) == <<curso[w].f, (curso[w].dir + hecho[w]) \div TamPagina>>
Falta(w) == Accede(w) /\ hecho[w] < Total(curso[w]) /\ Clave(w) \notin Cargadas(w)

Acabar(w, e) == /\ curso' = [curso EXCEPT ![w] = Ninguna]
                /\ error' = [error EXCEPT ![w] = @ \/ e]
                /\ UNCHANGED <<hecho, buffer, queries>>

\* cargar_pagina with no frame free.
HacerLugar(w) == Falta(w) /\ Libres(w) = {} /\ Desalojar(w)

\* Mutant: the list keeps the order in which pages were loaded.
TocarPorCarga(w, k) ==
    IF Algoritmo[w] = "LRU"
    THEN /\ lru_list' = IF k \in Cargadas(w) THEN lru_list
                        ELSE [lru_list EXCEPT ![w] = Append(@, k)]
         /\ usos' = [usos EXCEPT ![w] = AlFinal(@, k)]
    ELSE UNCHANGED <<lru_list, usos>>

\* The page goes to the end of the list of LRU.
Tocar(w, k) == IF Algoritmo[w] = "LRU"
               THEN /\ lru_list' = [lru_list EXCEPT ![w] = AlFinal(@, k)]
                    /\ usos' = [usos EXCEPT ![w] = AlFinal(@, k)]
               ELSE UNCHANGED <<lru_list, usos>>

\* cargar_pagina once a frame is free: the page is asked for before it is registered,
\* so that a refusal leaves the frame free, and ends the instruction.
Cargar(w) == LET k == Clave(w)
                 m == MarcoLibre(w)
                 p == [op |-> "READ", f |-> k[1], p |-> k[2]] IN
    /\ Falta(w) /\ Libres(w) # {}
    /\ IF ~Aceptado(p) THEN Acabar(w, TRUE) /\ UNCHANGED paginas
       ELSE /\ arena' = [arena EXCEPT ![w][m] = contenido[k[1]][k[2] + 1]]
            /\ marcos' = [marcos EXCEPT ![w][m] = k]
            /\ tablas' = [tablas EXCEPT ![w] = [j \in Cargadas(w) \cup {k} |->
                  IF j = k THEN [marco |-> m, modificada |-> FALSE] ELSE tablas[w][j]]]
            /\ Tocar(w, k)
            /\ IF Algoritmo[w] = "LRU" THEN UNCHANGED <<bitR, bitM>>
               ELSE bitR' = [bitR EXCEPT ![w][m] = TRUE] /\ bitM' = [bitM EXCEPT ![w][m] = FALSE]
            /\ UNCHANGED <<puntero, instruccion, queries>>
    /\ UNCHANGED storage

\* buscar_pagina finds the page; its bytes are copied.
Acceder(w) == LET i == curso[w]
                  k == Clave(w)
                  m == tablas[w][k].marco
                  t == Tramo(w) IN
    /\ Accede(w) /\ hecho[w] < Total(i) /\ k \in Cargadas(w)
    /\ Tocar(w, k)
    /\ bitR' = IF Algoritmo[w] = "LRU" THEN bitR ELSE [bitR EXCEPT ![w][m] = TRUE]
    /\ IF i.op = "WRITE"
       THEN /\ tablas' = [tablas EXCEPT ![w][k].modificada = TRUE]
            /\ bitM' = IF Algoritmo[w] = "LRU" THEN bitM ELSE [bitM EXCEPT ![w][m] = TRUE]
            /\ arena' = [arena EXCEPT ![w][m] = [j \in 1..TamPagina |->
                  IF j - Desde(w) \in 1..t THEN i.bytes[hecho[w] + j - Desde(w)] ELSE @[j]]]
            /\ UNCHANGED buffer
       ELSE /\ buffer' = [buffer EXCEPT ![w] = @ \o SubSeq(arena[w][m], Desde(w) + 1, Desde(w) + t)]
            /\ UNCHANGED <<tablas, bitM, arena>>
    /\ hecho' = [hecho EXCEPT ![w] = @ + t]
    /\ UNCHANGED <<storage, marcos, puntero, curso, error, queries>>

TerminarAcceso(w) == /\ Accede(w) /\ hecho[w] = Total(curso[w])
                     /\ Acabar(w, FALSE)
                     /\ UNCHANGED <<storage, paginas>>

-------------------------------------------------------------------------------
(* The other instructions. *)

\* An instruction starts; error_storage was of the query before.
Empezar(w) == /\ curso[w] = Ninguna /\ \E q \in Queries : donde[q] = w
              /\ \E i \in mezcla.instr : curso' = [curso EXCEPT ![w] = i]
              /\ hecho' = [hecho EXCEPT ![w] = 0]
              /\ buffer' = [buffer EXCEPT ![w] = <<>>]
              /\ error' = [error EXCEPT ![w] = FALSE]
              /\ UNCHANGED <<storage, paginas, queries>>

\* CREATE, TRUNCATE, TAG and DELETE go to Storage and leave the pages as they are.
Pedir(w) == LET i == curso[w] IN
    /\ i # Ninguna /\ i.op \in {"CREATE", "TRUNCATE", "TAG", "DELETE"}
    /\ Servir(i) /\ Acabar(w, ~Aceptado(i))
    /\ UNCHANGED paginas

Vaciar(w, f) == LET p == PedidoFlush(w, f)
                    ks == Modificadas(w, f) IN
    /\ Servir(p)
    /\ tablas' = [tablas EXCEPT ![w] = Limpia(w, ks)]
    /\ bitM' = IF Algoritmo[w] = "LRU" THEN bitM ELSE [bitM EXCEPT ![w] = BitsLimpios(w, ks)]
    /\ UNCHANGED <<marcos, arena, lru_list, bitR, puntero, usos>>

\* executeFlush
Flush(w) == LET f == curso[w].f IN
    /\ curso[w] # Ninguna /\ curso[w].op = "FLUSH"
    /\ Vaciar(w, f) /\ Acabar(w, ~Aceptado(PedidoFlush(w, f)))

\* executeCommit: executeFlush, and the request whatever it answered.
FlushAntesDeCommit(w) == LET f == curso[w].f IN
    /\ curso[w] # Ninguna /\ curso[w].op = "COMMIT" /\ hecho[w] = 0
    /\ Vaciar(w, f)
    /\ hecho' = [hecho EXCEPT ![w] = 1]
    /\ error' = [error EXCEPT ![w] = ~Aceptado(PedidoFlush(w, f))]
    /\ UNCHANGED <<curso, buffer, queries>>

Commit(w) ==
    /\ curso[w] # Ninguna /\ curso[w].op = "COMMIT" /\ hecho[w] = 1
    /\ Servir(curso[w])
    /\ curso' = [curso EXCEPT ![w] = Ninguna] /\ hecho' = [hecho EXCEPT ![w] = 0]
    /\ error' = [error EXCEPT ![w] = @ \/ ~Aceptado(curso[w])]
    /\ UNCHANGED <<paginas, buffer, queries>>

\* interrupt_envio_a_master, and the query goes on in a Worker that runs none.
Mudar(q, w) == /\ mezcla.mudan /\ curso[donde[q]] = Ninguna /\ \A p \in Queries : donde[p] # w
               /\ donde' = [donde EXCEPT ![q] = w]
               /\ UNCHANGED <<mezcla, storage, paginas, instruccion>>

Next == \E w \in Workers :
    \/ Empezar(w) \/ HacerLugar(w) \/ Cargar(w) \/ Acceder(w) \/ TerminarAcceso(w)
    \/ Pedir(w) \/ Flush(w) \/ FlushAntesDeCommit(w) \/ Commit(w)
    \/ \E q \in Queries : Mudar(q, w)

Spec == Init /\ [][Next]_vars

-------------------------------------------------------------------------------
Pagina == [1..TamPagina -> Bytes]

TypeOK ==
    /\ mezcla \in Mezclas
    /\ estado \in [Archivos -> {"ausente", "WORK_IN_PROGRESS", "COMMITED"}]
    /\ contenido \in [Archivos -> Seq(Pagina)]
    /\ donde \in [Queries -> Workers]
    /\ \A w \in Workers :
        /\ Cargadas(w) \subseteq Claves
        /\ tablas[w] \in [Cargadas(w) -> [marco : Marcos(w), modificada : BOOLEAN]]
        /\ marcos[w] \in [Marcos(w) -> Claves \cup {Libre}]
        /\ arena[w] \in [Marcos(w) -> Pagina]
        /\ lru_list[w] \in Seq(Claves) /\ usos[w] \in Seq(Claves)
        /\ bitR[w] \in [Marcos(w) -> BOOLEAN] /\ bitM[w] \in [Marcos(w) -> BOOLEAN]
        /\ puntero[w] \in Marcos(w)
        /\ curso[w] \in mezcla.instr \cup {Ninguna}
        /\ hecho[w] \in Nat /\ buffer[w] \in Seq(Bytes) /\ error[w] \in BOOLEAN

\* Page tables, frames and the list of LRU tell the same story: an entry and its frame
\* point at each other, a frame without an entry is free, and each page that is loaded
\* is in the list once.
MarcosConsistentes == \A w \in Workers :
    /\ \A k \in Cargadas(w) : marcos[w][tablas[w][k].marco] = k
    /\ \A m \in Marcos(w) : marcos[w][m] # Libre =>
          marcos[w][m] \in Cargadas(w) /\ tablas[w][marcos[w][m]].marco = m
    /\ Algoritmo[w] = "LRU" =>
          /\ {lru_list[w][i] : i \in DOMAIN lru_list[w]} = Cargadas(w)
          /\ Len(lru_list[w]) = Cardinality(Cargadas(w))

\* CLOCK-M keeps the modified bit of a page twice, by frame and in its entry: the one
\* that chooses victims agrees with the one that decides what is written back.
BitsFieles == \A w \in Workers : Algoritmo[w] = "CLOCK-M" => \A m \in Marcos(w) :
    bitM[w][m] = (marcos[w][m] # Libre /\ tablas[w][marcos[w][m]].modificada)

\* LRU keeps the pages used last: none that was dropped was used after one that stays.
\* (A load that Storage refuses leaves its frame free, not another page in it.)
Lugar(w, k) == CHOOSE i \in DOMAIN usos[w] : usos[w][i] = k
QuedanLasUltimas == \A w \in Workers : Algoritmo[w] = "LRU" =>
    \A i \in DOMAIN usos[w] : usos[w][i] \notin Cargadas(w) =>
        \A k \in Cargadas(w) : i < Lugar(w, k)

-------------------------------------------------------------------------------
(* What the queries of Worker w see: the page it has, or what Storage would send.  *)

PaginaVista(w, k) == IF k \in Cargadas(w) THEN arena[w][tablas[w][k].marco]
                     ELSE contenido[k[1]][k[2] + 1]
EnBytes(s) == [j \in 1..Len(s) * TamPagina |->
                  s[((j - 1) \div TamPagina) + 1][((j - 1) % TamPagina) + 1]]
BytesDuraderos(f) == EnBytes(contenido[f])
BytesVistos(w, f) == EnBytes([i \in DOMAIN contenido[f] |-> PaginaVista(w, <<f, i - 1>>)])

ElWorker == donde[CHOOSE q \in Queries : TRUE]

Plana == INSTANCE MemoriaPlana WITH
    Archivos <- Archivos \ {Base},
    estado <- [f \in Archivos \ {Base} |-> estado[f]],
    duradero <- [f \in Archivos \ {Base} |-> BytesDuraderos(f)],
    visto <- [f \in Archivos \ {Base} |-> BytesVistos(ElWorker, f)],
    curso <- curso[ElWorker],
    hecho <- IF curso[ElWorker] # Ninguna /\ ~Accede(ElWorker) THEN 0 ELSE hecho[ElWorker],
    buffer <- buffer[ElWorker],
    error <- error[ElWorker]

\* While queries stay in their Worker and nothing shrinks, they see flat files, where
\* they read what they wrote and fail only out of limits, whatever is evicted, flushed or
\* refused.
ImplementaPlana == /\ ~mezcla.mudan => Plana!Init
                   /\ [][~mezcla.mudan => Plana!Next]_(Plana!vars)

\* A query that is interrupted and goes on in another Worker finds there what it left.
DesalojoGuarda ==
    [][\A q \in Queries, f \in Archivos : donde'[q] # donde[q] =>
          BytesVistos(donde'[q], f) = BytesVistos(donde[q], f)]_vars

\* What is read from a COMMITED file:tag is what Storage keeps of it.
LeeLoCommited ==
    [][\A w \in Workers : buffer'[w] # buffer[w] /\ Accede(w) /\ estado[curso[w].f] = "COMMITED" =>
          buffer'[w] = buffer[w] \o SubSeq(BytesDuraderos(curso[w].f),
              curso[w].dir + hecho[w] + 1, curso[w].dir + hecho'[w])]_vars

\* A READ that takes bytes takes them from inside its file:tag.
LeeDentro ==
    [][\A w \in Workers : buffer'[w] # buffer[w] /\ Accede(w) =>
          curso[w].dir + hecho'[w] <= Len(contenido[curso[w].f]) * TamPagina]_vars
===============================================================================
