--------------------------- MODULE BloquesArchivos ----------------------------
(***************************************************************************)
(* What the threads of Storage may write in and what they may read, for    *)
(* every number of threads, file:tags and blocks, as long as Storage has not*)
(* crashed, each FLUSH brings one page, there is no DELETE, and TAG is kept*)
(* apart from what frees blocks (Apartadas).                               *)
(*                                                                         *)
(* No thread writes where another page is seen: what it writes in (Toma) is*)
(* a block that it took off the bitmap, and that nobody else names until the*)
(* request is over (Ajenos).  Hence the index of hashes stays true of the  *)
(* contents (HashOK), and the block that a COMMIT or a copy on write puts in*)
(* a page holds what the page held.                                        *)
(***************************************************************************)
EXTENDS BloquesOcupados

Copia(h) == pc[h] \in {"copiar", "desenlazar", "enlazar"}

\* The thread has block b to write in it: the copy of a page, or a page that is to be written.
Toma(h, b) ==
    \/ Copia(h) /\ b = loc[h].nuevo
    \/ EnEscritura(h) /\ \E i \in DOMAIN loc[h].pend : loc[h].pend[i][2] = b

\* What a thread writes in is kept by nobody else.
Ajenos ==
    \A h \in Hilos, b \in Comun : Toma(h, b) =>
        /\ ~Publicado(b)
        /\ \A f \in Archivos, p \in Pagina : Guarda(f, p, b) => f = pedido[h].f /\ ~Copia(h)
        /\ \A g \in Hilos : Toma(g, b) => g = h
        /\ \A g \in Hilos \ {h} : ~Reclama(g, b)

\* The same where nothing is freed.
Nombra(f, p, b) == logico[f][p] = b \/ (p < Len(meta[f].blocks) /\ meta[f].blocks[p + 1] = b)
Nuevos ==
    \A h \in Hilos, b \in Comun : Toma(h, b) =>
        /\ \A f \in Archivos, p \in Pagina : Nombra(f, p, b) => f = pedido[h].f /\ ~Copia(h)
        /\ \A g \in Hilos : Toma(g, b) => g = h

\* A directory without metadata is that of a CREATE or a TAG in progress.
CarpetaOK ==
    \A f \in Archivos : meta[f].estado = "carpeta" =>
        \E h \in Hilos : \/ pc[h] = "crear_meta" /\ pedido[h].f = f
                         \/ pc[h] = "tag_meta" /\ pedido[h].d = f

\* The state that an operation found its file:tag in; one that shrinks it found more pages.
EstadoOK(h) ==
    /\ EnTruncate(h) \/ EnEscritura(h) => meta[pedido[h].f].estado = "WORK_IN_PROGRESS"
    /\ EnCommit(h) \/ EnTag(h) => ConMetadata(pedido[h].f)
    /\ pc[h] = "tag_link" => meta[pedido[h].d].estado = "WORK_IN_PROGRESS"
    /\ pc[h] \in {"trunc_bajar", "trunc_stat", "trunc_liberar"} =>
          pedido[h].n <= meta[pedido[h].f].tam

\* What is left of a write is the request.
EscrituraOK(h) == LET f == pedido[h].f
                      e == loc[h].pend
                      s == pedido[h].paginas IN
    /\ EnEscritura(h) /\ pc[h] # "escribir" /\ loc[h].cola # <<>> => loc[h].cola = s
    /\ EnEscritura(h) /\ e # <<>> => Len(e) = 1 /\ Len(s) = 1 /\ s[1] = <<e[1][1], e[1][3]>>
    /\ pc[h] = "pagina" /\ loc[h].cola = <<>> /\ e = <<>> /\ ok[h] => s = <<>>
    /\ pc[h] = "escribir" /\ e # <<>> =>
          ok[h] /\ e[1][1] < Len(meta[f].blocks) /\ logico[f][e[1][1]] = e[1][2]
    /\ EnEscritura(h) /\ e # <<>> => \A q \in Pagina : logico[f][q] = e[1][2] => q = e[1][1]

\* The copy of a page has its content.
CopiaOK(h) == pc[h] \in {"desenlazar", "enlazar"} =>
                 dato[loc[h].nuevo] = dato[BloqueDe(pedido[h].f, EnCurso(h)[1])]

\* The index names blocks by their content, and a COMMIT links a page to one with its content.
HashOK == \A c \in Contenidos : indice[c] # Nadie => dato[indice[c]] = c
DedupOK(h) ==
    /\ EnDedup(h) => \A c \in Contenidos : loc[h].idx[c] # Nadie => dato[loc[h].idx[c]] = c
    /\ pc[h] = "dedup_link" => dato[loc[h].lista[loc[h].pag + 1]]
                               = dato[meta[pedido[h].f].blocks[loc[h].pag + 1]]

ArchivosOK == /\ CarpetaOK /\ HashOK /\ (NadaSeLibera => Nuevos /\ indice = SinIndice)
              /\ \A h \in Hilos : EstadoOK(h) /\ EscrituraOK(h) /\ CopiaOK(h) /\ DedupOK(h)
SinTropiezos == Supuestos /\ Apartadas
\* The pages of initial_file:BASE are never written, nor anything else of its metadata.
BaseVacia == meta[Base].tam = 0
Sano == InvIntacto /\ Intacto /\ FielOK /\ OcupadoOK /\ SinTropiezos /\ BaseVacia /\ ArchivosOK
-------------------------------------------------------------------------------
LEMMA DeSano ==
  ASSUME Sano
  PROVE  /\ InvBloques /\ Intacto /\ FielOK /\ OcupadoOK /\ CursosOK /\ Marcados /\ ArchivosOK
         /\ SinDelete /\ DeAUna /\ Apartadas /\ (SinTag \/ NadaSeLibera)
         /\ SinTag => Unicos /\ Propios /\ Cerrados
BY DEF Sano, InvIntacto, SinTropiezos, Supuestos, Apartadas, OcupadoOK, DuenosOK

\* Without what frees blocks no thread is at a COMMIT or gives up a page.
LEMMA NadaSeDeja ==
  ASSUME Sano, NadaSeLibera, NEW h \in Hilos
  PROVE  ~EnCommit(h) /\ ~EnDedup(h) /\ ~Achica(h) /\ \A p \in Pagina : ~Deja(h, p)
<1>1. InvBloques /\ CursosOK
  BY DeSano
<1>2. ~EnCommit(h) /\ ~EnDedup(h)
  BY <1>1, EnElCommit DEF NadaSeLibera, EnDedup, EnCommit
<1>3. EnTruncate(h) => pedido[h].n = MaxPaginas /\ loc[h].pag \in Nat
  <2> SUFFICES ASSUME EnTruncate(h) PROVE pedido[h].n = MaxPaginas /\ loc[h].pag \in Nat
    OBVIOUS
  <2>1. pedido[h].op = "TRUNCATE" /\ pedido[h] \in mezcla /\ loc[h].pag \in Nat
    BY <1>1, EnElTruncate, DelPedido
  <2> QED
    BY <2>1 DEF NadaSeLibera
<1>4. ~Achica(h)
  <2> SUFFICES ASSUME Achica(h) PROVE FALSE
    OBVIOUS
  <2>1. EnTruncate(h) /\ loc[h].pag \in Pagina /\ pedido[h].n <= loc[h].pag
    BY <1>1, EnMedioDelTruncate, DeSano DEF Achica, EnTruncate
  <2> QED
    BY <1>3, <2>1, BloquesAssumption DEF Pagina
<1>5. ASSUME NEW p \in Pagina PROVE ~Deja(h, p)
  <2>1. pc[h] = "trunc_meta" => ~(p >= pedido[h].n)
    BY <1>3, BloquesAssumption DEF EnTruncate, Pagina
  <2> QED
    BY <1>2, <1>4, <2>1 DEF Deja, Achica
<1> QED
  BY <1>2, <1>4, <1>5

\* A block that a thread writes in is in its hands as a reservation or kept by its page.
LEMMA TomaEs ==
  ASSUME Sano, NEW h \in Hilos, NEW b, Toma(h, b)
  PROVE  /\ EnEscritura(h) /\ pedido[h].f \in Archivos
         /\ \/ Copia(h) /\ b = loc[h].nuevo /\ Reclama(h, b)
            \/ /\ ~Copia(h)
               /\ \E p \in Pagina : Guarda(pedido[h].f, p, b) /\ Nombra(pedido[h].f, p, b)
<1>1. InvBloques /\ FielOK /\ ArchivosOK
  BY DeSano
<1>2. EnEscritura(h)
  BY DEF Toma, Copia, EnEscritura
<1>3. pedido[h].f \in Archivos /\ loc[h] \in Locales /\ loc[h].pend \in Seq(Pagina \X Bloque \X Contenidos)
  BY <1>1, <1>2, EnLaEscritura, CamposDe
<1>4. Copia(h) => loc[h].pend = <<>>
  <2>1. Copia(h) => loc[h].cola # <<>>
    BY <1>1, DelHilo DEF CursoOK, Copia
  <2> QED
    BY <1>1, <2>1, FielEnCurso DEF Copia
<1>5. CASE Copia(h)
  <2>1. b = loc[h].nuevo
    BY <1>4, <1>5 DEF Toma
  <2> QED
    BY <1>2, <1>3, <1>5, <2>1 DEF Reclama, Copia
<1>6. CASE ~Copia(h)
  <2>1. PICK i \in DOMAIN loc[h].pend : loc[h].pend[i][2] = b
    BY <1>6 DEF Toma
  <2>2. loc[h].pend[i] \in Pagina \X Bloque \X Contenidos /\ loc[h].pend # <<>>
    BY <1>3, <2>1
  <2>3. loc[h].pend[i][1] \in Pagina
    BY <2>2
  <2>4. Len(loc[h].pend) = 1 /\ i = 1
    <3>1. Len(loc[h].pend) = 1
      BY <1>1, <1>2, <2>2 DEF ArchivosOK, EscrituraOK
    <3> QED
      BY <1>3, <2>1, <3>1
  <2>5. CASE pc[h] = "escribir"
    <3>1. logico[pedido[h].f][loc[h].pend[i][1]] = b
      BY <1>1, <2>1, <2>2, <2>4, <2>5 DEF ArchivosOK, EscrituraOK
    <3> QED
      BY <1>2, <1>3, <1>6, <2>3, <3>1 DEF Guarda, Nombra
  <2>6. CASE pc[h] # "escribir"
    <3>1. Pone(h, loc[h].pend[i][1], b)
      BY <1>2, <2>1, <2>6 DEF Pone, PendienteDe
    <3>2. logico[pedido[h].f][loc[h].pend[i][1]] = b
      <4> DEFINE B == meta[pedido[h].f].blocks
      <4>1. pc[h] = "pagina" /\ ObraEscritura(h)
        BY <1>1, <1>2, <1>6, <2>6 DEF EnEscritura, Copia, FielOK, ObraOK
      <4>2. logico[pedido[h].f] = Salvo(B, loc[h].pend[1][1], loc[h].pend[1][2])
        BY <2>2, <4>1 DEF ObraEscritura
      <4> QED
        BY <2>1, <2>3, <2>4, <4>2 DEF Salvo, Completos, Links
    <3> QED
      BY <1>2, <1>3, <1>6, <2>3, <3>1, <3>2 DEF Guarda, Nombra
  <2> QED
    BY <2>5, <2>6
<1> QED
  BY <1>5, <1>6

LEMMA AjenosSinTag ==
  ASSUME Sano, SinTag
  PROVE  Ajenos
<1> SUFFICES ASSUME NEW h \in Hilos, NEW b \in Comun, Toma(h, b)
             PROVE  /\ ~Publicado(b)
                    /\ \A f \in Archivos, p \in Pagina : Guarda(f, p, b) => f = pedido[h].f /\ ~Copia(h)
                    /\ \A g \in Hilos : Toma(g, b) => g = h
                    /\ \A g \in Hilos \ {h} : ~Reclama(g, b)
  BY DEF Ajenos
<1> DEFINE f0 == pedido[h].f
<1>1. InvBloques /\ Unicos /\ Propios /\ Cerrados /\ ArchivosOK
  BY DeSano
<1>2. EnEscritura(h) /\ f0 \in Archivos
  BY TomaEs
<1>3. CASE Reclama(h, b)
  <2>1. ~Publicado(b) /\ \A f \in Archivos, p \in Pagina : ~Guarda(f, p, b)
    BY <1>1, <1>3 DEF Propios
  <2>2. \A g \in Hilos : Reclama(g, b) => g = h
    BY <1>1, <1>3 DEF Propios
  <2>3. \A g \in Hilos : Toma(g, b) => Reclama(g, b)
    BY <2>1, TomaEs
  <2> QED
    BY <2>1, <2>2, <2>3
<1>4. CASE ~Reclama(h, b)
  <2>1. ~Copia(h)
    BY <1>4, TomaEs
  <2>2. PICK p \in Pagina : Guarda(f0, p, b)
    BY <1>4, TomaEs
  <2>3. Suyos(h) /\ ~SinCandado(pedido[h]) /\ Adentro(h)
    BY <1>1, <1>2, EnLaEscritura
  <2>4. \A g \in Hilos \ {h} : pedido[g].f = f0 => ~Adentro(g)
    BY <1>1, <2>3, NadieMas, ElSuyo
  <2>5. ~Exenta(f0, p)
    <3>1. ~Commited(f0)
      BY <1>1, <1>2 DEF ArchivosOK, EstadoOK, Commited
    <3>2. ~Exime(h, p)
      BY <1>2 DEF Exime, EnEscritura, EnDedup, PasosDedup
    <3> QED
      BY <2>4, <3>1, <3>2, SoloAdentro DEF Exenta
  <2>6. ~Publicado(b)
    BY <1>1, <1>2, <2>2, <2>5 DEF Cerrados
  <2>7. \A f \in Archivos, q \in Pagina : Guarda(f, q, b) => f = f0
    BY <1>1, <1>2, <2>2, <2>6 DEF Unicos
  <2>8. \A g \in Hilos : ~Reclama(g, b)
    BY <1>1, <1>2, <2>2 DEF Propios
  <2>9. ASSUME NEW g \in Hilos, Toma(g, b) PROVE g = h
    <3>1. EnEscritura(g) /\ pedido[g].f = f0
      BY <2>7, <2>8, <2>9, TomaEs
    <3> QED
      BY <2>4, <3>1 DEF EnEscritura, Adentro
  <2> QED
    BY <2>1, <2>6, <2>7, <2>8, <2>9
<1> QED
  BY <1>3, <1>4

LEMMA AjenosConTag ==
  ASSUME Sano, NadaSeLibera
  PROVE  Ajenos
<1> SUFFICES ASSUME NEW h \in Hilos, NEW b \in Comun, Toma(h, b)
             PROVE  /\ ~Publicado(b)
                    /\ \A f \in Archivos, p \in Pagina : Guarda(f, p, b) => f = pedido[h].f /\ ~Copia(h)
                    /\ \A g \in Hilos : Toma(g, b) => g = h
                    /\ \A g \in Hilos \ {h} : ~Reclama(g, b)
  BY DEF Ajenos
<1>1. Nuevos /\ indice = SinIndice
  BY DeSano DEF ArchivosOK
<1>2. \A g \in Hilos : Toma(g, b) => g = h
  BY <1>1 DEF Nuevos
<1>3. ~Publicado(b)
  BY <1>1, NadaSeDeja, BloquesAssumption DEF Publicado, Publica, SinIndice, Comun, Bloque
<1>4. ASSUME NEW f \in Archivos, NEW p \in Pagina, Guarda(f, p, b) PROVE f = pedido[h].f /\ ~Copia(h)
  <2>1. CASE Nombra(f, p, b)
    BY <1>1, <2>1 DEF Nuevos
  <2>2. CASE \E g \in Hilos : pedido[g].f = f /\ Pone(g, p, b)
    <3>1. PICK g \in Hilos : pedido[g].f = f /\ Pone(g, p, b)
      BY <2>2
    <3>2. Toma(g, b)
      BY <3>1, NadaSeDeja DEF Pone, Toma, PendienteDe
    <3>3. g = h
      BY <1>2, <3>2
    <3>4. ~Copia(h)
      <4>1. loc[h].pend # <<>>
        BY <3>1, <3>3, NadaSeDeja DEF Pone, PendienteDe
      <4>2. Copia(h) => loc[h].cola # <<>>
        BY DeSano, DelHilo DEF CursoOK, Copia
      <4> QED
        BY <4>1, <4>2, DeSano, FielEnCurso DEF Copia
    <3> QED
      BY <3>1, <3>3, <3>4
  <2> QED
    BY <1>4, <2>1, <2>2 DEF Guarda, Nombra
<1>5. ASSUME NEW g \in Hilos \ {h} PROVE ~Reclama(g, b)
  <2> SUFFICES ASSUME Reclama(g, b) PROVE FALSE
    OBVIOUS
  <2>1. Copia(g) /\ b = loc[g].nuevo
    BY NadaSeDeja DEF Reclama, Copia, Achica, EnDedup, PasosDedup
  <2> QED
    BY <1>2, <2>1 DEF Toma
<1> QED
  BY <1>2, <1>3, <1>4, <1>5

LEMMA AjenosVale == Sano => Ajenos
BY DeSano, AjenosSinTag, AjenosConTag
-------------------------------------------------------------------------------
(* What a step of h leaves as it was. *)

\* A step of h on the file:tags of its request, whose mutexes it has.
EnLoPedido(h) ==
    /\ Suyos(h) /\ ~SinCandado(pedido[h]) /\ pc[h] # "libre"
    /\ \E paso, l : Ir(h, paso, l)
    /\ \A g \in Hilos \ {h} : ok'[g] = ok[g] /\ leido'[g] = leido[g]
    /\ \A f \in Archivos \ Nombrados(pedido[h]) : meta'[f] = meta[f] /\ logico'[f] = logico[f]

\* It writes only in a block that it took.
Escribe(h) == \A n \in Nodo : dato'[n] # dato[n] => n \in Comun /\ Toma(h, n)

LEMMA OtrosHilos ==
  ASSUME InvBloques, NEW h \in Hilos, EnLoPedido(h)
  PROVE  /\ pedido' = pedido /\ UNCHANGED entorno
         /\ \A g \in Hilos \ {h} :
               /\ pc'[g] = pc[g] /\ loc'[g] = loc[g] /\ ok'[g] = ok[g]
               /\ Adentro(g) => /\ pedido[g].f \in Archivos \ Nombrados(pedido[h])
                                /\ meta'[pedido[g].f] = meta[pedido[g].f]
                                /\ logico'[pedido[g].f] = logico[pedido[g].f]
                                /\ EnTag(g) => /\ pedido[g].d \in Archivos \ Nombrados(pedido[h])
                                               /\ meta'[pedido[g].d] = meta[pedido[g].d]
                                               /\ logico'[pedido[g].d] = logico[pedido[g].d]
<1>1. PICK paso, l : Ir(h, paso, l)
  BY DEF EnLoPedido
<1>2. /\ pedido' = pedido /\ UNCHANGED entorno
      /\ \A g \in Hilos \ {h} : pc'[g] = pc[g] /\ loc'[g] = loc[g] /\ ok'[g] = ok[g]
  <2>1. pedido' = pedido /\ UNCHANGED entorno
    BY <1>1 DEF Ir
  <2>2. \A g \in Hilos \ {h} : pc'[g] = pc[g] /\ loc'[g] = loc[g]
    BY <1>1, DelHilo, EfectoDeIr
  <2> QED
    BY <2>1, <2>2 DEF EnLoPedido
<1>3. ASSUME NEW g \in Hilos \ {h}, Adentro(g)
      PROVE  /\ pedido[g].f \in Archivos \ Nombrados(pedido[h])
             /\ EnTag(g) => pedido[g].d \in Archivos \ Nombrados(pedido[h])
  <2>1. pc[g] \notin {"libre", "entrar"} /\ pedido[g].f # Base
    BY <1>3, DelHilo DEF Adentro, OpOK
  <2>2. Tiene(g) = Nombrados(pedido[g]) /\ pedido[g].f \in Archivos
    BY <2>1, DelPedido DEF Tiene
  <2>3. EnTag(g) => pedido[g].d \in Archivos /\ pedido[g].d \in Nombrados(pedido[g])
    BY <2>1, DelPedido, DelHilo DEF OpOK
  <2> QED
    BY <2>2, <2>3, ElSuyo DEF Suyos, EnLoPedido
<1> QED
  BY <1>2, <1>3 DEF EnLoPedido

\* What the others rely on is not written.
LEMMA NoSeEscribe ==
  ASSUME Sano, NEW h \in Hilos, Escribe(h)
  PROVE  /\ dato'[0] = dato[0]
         /\ \A b \in Bloque : Publicado(b) => dato'[b] = dato[b]
         /\ \A g \in Hilos \ {h}, b \in Bloque : Reclama(g, b) => dato'[b] = dato[b]
         /\ \A f \in Archivos \ {pedido[h].f}, p \in Pagina, b \in Bloque :
               Guarda(f, p, b) => dato'[b] = dato[b]
<1>1. Ajenos
  BY AjenosVale
<1>2. \A b \in Bloque : b \in Nodo
  BY BloquesAssumption DEF Bloque, Nodo
<1>3. 0 \in Nodo /\ 0 \notin Comun
  BY BloquesAssumption DEF Nodo, Comun
<1> QED
  BY <1>1, <1>2, <1>3 DEF Ajenos, Escribe

\* A file:tag in the hands of h is without metadata only if h left it so.
LEMMA SinCarpeta ==
  ASSUME Sano, NEW h \in Hilos, Suyos(h), ~SinCandado(pedido[h]),
         NEW f \in Nombrados(pedido[h]), f \in Archivos,
         meta[f].estado = "carpeta"
  PROVE  pc[h] = "crear_meta" \/ pc[h] = "tag_meta"
<1>1. InvBloques /\ CarpetaOK
  BY DeSano DEF ArchivosOK
<1>2. PICK g \in Hilos : \/ pc[g] = "crear_meta" /\ pedido[g].f = f
                         \/ pc[g] = "tag_meta" /\ pedido[g].d = f
  BY <1>1 DEF CarpetaOK
<1>3. f \in Tiene(g)
  <2>1. Adentro(g) /\ pedido[g].f # Base /\ (pc[g] = "tag_meta" => pedido[g].op = "TAG")
    BY <1>1, <1>2, DelHilo DEF Adentro, OpOK, EnTag
  <2> QED
    BY <1>2, <2>1 DEF Tiene, Adentro, Nombrados, SinCandado
<1> QED
  BY <1>2, <1>3 DEF Suyos

\* The others are where they were.
LEMMA OtroArchivosOK ==
  ASSUME Sano, NEW h \in Hilos, EnLoPedido(h), Escribe(h), NEW g \in Hilos \ {h}
  PROVE  EstadoOK(g)' /\ EscrituraOK(g)' /\ CopiaOK(g)' /\ DedupOK(g)'
<1>1. /\ InvBloques /\ Intacto /\ FielOK /\ CursosOK
      /\ EstadoOK(g) /\ EscrituraOK(g) /\ CopiaOK(g) /\ DedupOK(g)
  BY DeSano DEF ArchivosOK
<1>2. /\ pc'[g] = pc[g] /\ loc'[g] = loc[g] /\ ok'[g] = ok[g] /\ pedido'[g] = pedido[g]
      /\ Adentro(g) => /\ pedido[g].f \in Archivos \ {pedido[h].f}
                       /\ meta'[pedido[g].f] = meta[pedido[g].f]
                       /\ logico'[pedido[g].f] = logico[pedido[g].f]
                       /\ EnTag(g) => meta'[pedido[g].d] = meta[pedido[g].d]
  <2>1. pedido' = pedido /\ pedido[h].f \in Nombrados(pedido[h])
    BY <1>1, OtrosHilos, ElSuyo
  <2> QED
    BY <1>1, <2>1, OtrosHilos
<1>3. CASE ~Adentro(g)
  <2>1. /\ ~EnTruncate(g)' /\ ~EnEscritura(g)' /\ ~EnCommit(g)' /\ ~EnTag(g)' /\ ~EnDedup(g)'
        /\ pc'[g] \notin {"tag_link", "pagina", "escribir", "desenlazar", "enlazar", "dedup_link"}
    BY <1>2, <1>3 DEF Adentro, EnTruncate, EnEscritura, EnCommit, EnTag, EnDedup, PasosDedup
  <2> QED
    BY <2>1 DEF EnTruncate, EstadoOK, EscrituraOK, CopiaOK, DedupOK
<1>4. CASE Adentro(g)
  <2>1. EstadoOK(g)'
    <3>1. /\ EnTruncate(g)' = EnTruncate(g) /\ EnEscritura(g)' = EnEscritura(g)
          /\ EnCommit(g)' = EnCommit(g) /\ EnTag(g)' = EnTag(g)
      BY <1>2 DEF EnTruncate, EnEscritura, EnCommit, EnTag
    <3>2. meta'[pedido'[g].f] = meta[pedido[g].f]
      BY <1>2, <1>4
    <3>3. pc[g] = "tag_link" => meta'[pedido'[g].d] = meta[pedido[g].d]
      BY <1>2, <1>4 DEF EnTag
    <3> QED
      BY <1>1, <1>2, <3>1, <3>2, <3>3 DEF EstadoOK, ConMetadata
  <2>2. EscrituraOK(g)'
    <3>1. EnEscritura(g)' <=> EnEscritura(g)
      BY <1>2 DEF EnEscritura
    <3> QED
      BY <1>1, <1>2, <1>4, <3>1 DEF EscrituraOK
  <2>3. CopiaOK(g)'
    <3> SUFFICES ASSUME pc[g] \in {"desenlazar", "enlazar"}
                 PROVE  dato'[loc[g].nuevo] = dato'[BloqueDe(pedido[g].f, EnCurso(g)[1])']
      BY <1>2 DEF CopiaOK, EnCurso
    <3> DEFINE f == pedido[g].f
               p == EnCurso(g)[1]
    <3>1. EnCurso(g)' = EnCurso(g) /\ BloqueDe(f, p)' = BloqueDe(f, p)
      BY <1>2, <1>4 DEF EnCurso, BloqueDe
    <3>2. /\ loc[g] \in Locales /\ loc[g].nuevo \in Bloque /\ p \in Pagina /\ ObraEscritura(g) /\ EnEscritura(g)
          /\ meta[f].blocks \in Seq(Bloque) /\ DiscoOK
      <4>1. loc[g] \in Locales /\ CursoOK(g)
        BY <1>1, DelHilo
      <4>2. loc[g].nuevo \in Bloque /\ loc[g].cola # <<>> /\ p \in Pagina
        BY <4>1, CamposDe DEF CursoOK
      <4> QED
        BY <1>1, <4>1, <4>2, FielEnCurso
    <3>3. p < Len(meta[f].blocks) /\ BloqueDe(f, p) = meta[f].blocks[p + 1] /\ BloqueDe(f, p) \in Bloque
      <4>1. p < Len(meta[f].blocks) /\ p \in Nat
        BY <3>2 DEF ObraEscritura, Pagina
      <4> QED
        BY <1>2, <1>4, <3>2, <4>1, BloqueDeEs DEF BloqueDe
    <3>4. Guarda(f, p, BloqueDe(f, p))
      <4>1. ~Deja(g, p)
        BY DEF Deja, EnDedup, PasosDedup
      <4>2. \A k \in Hilos \ {g} : pedido[k].f = f => ~Adentro(k)
        BY <1>1, <3>2, EnLaEscritura, NadieMas, ElSuyo
      <4>3. \A k \in Hilos : pedido[k].f = f => ~Deja(k, p)
        BY <4>1, <4>2, SoloAdentro
      <4> QED
        BY <3>3, <4>3 DEF Guarda
    <3>5. dato'[BloqueDe(f, p)] = dato[BloqueDe(f, p)]
      BY <1>2, <1>4, <3>2, <3>3, <3>4, NoSeEscribe
    <3>6. dato'[loc[g].nuevo] = dato[loc[g].nuevo]
      BY <3>2, NoSeEscribe DEF Reclama
    <3>7. dato[loc[g].nuevo] = dato[BloqueDe(f, p)]
      BY <1>1 DEF CopiaOK
    <3> QED
      BY <3>1, <3>5, <3>6, <3>7
  <2>4. DedupOK(g)'
    <3> SUFFICES ASSUME EnDedup(g) PROVE DedupOK(g)'
      BY <1>2 DEF DedupOK, EnDedup, PasosDedup
    <3> DEFINE B == meta[pedido[g].f].blocks
               k == loc[g].pag
    <3>1. EnDedup(g)' /\ loc[g] \in Locales /\ loc[g].idx \in [Contenidos -> Bloque \cup {Nadie}]
      BY <1>1, <1>2, DelHilo, CamposDe DEF EnDedup
    <3>2. ASSUME NEW c \in Contenidos, loc[g].idx[c] # Nadie PROVE dato'[loc[g].idx[c]] = c
      <4>1. Publicado(loc[g].idx[c]) /\ loc[g].idx[c] \in Bloque
        BY <3>1, <3>2 DEF Publicado, Publica
      <4> QED
        BY <1>1, <3>2, <4>1, NoSeEscribe DEF DedupOK
    <3>3. ASSUME pc[g] = "dedup_link" PROVE dato'[loc[g].lista[k + 1]] = dato'[B[k + 1]]
      <4>1. loc[g].lista[k + 1] \in Bloque /\ B[k + 1] \in Bloque /\ k < Len(B)
        <5>1. /\ loc[g].lista \in Seq(Bloque) /\ B \in Seq(Bloque) /\ Len(loc[g].lista) = Len(B)
              /\ k + 1 \in 1..Len(B) /\ k < Len(B)
          BY <1>1, <3>3, EnMedioDelDedup, DeSano
        <5> QED
          BY <5>1
      <4>2. Publicado(loc[g].lista[k + 1])
        <5>1. PasoOK(g)
          BY <1>1 DEF CursosOK
        <5> QED
          BY <3>3, <5>1 DEF PasoOK, ListaOK, Publicado
      <4>3. Reclama(g, B[k + 1])
        BY <3>3, <4>1 DEF Reclama, BloqueDe
      <4> QED
        BY <1>1, <3>3, <4>1, <4>2, <4>3, NoSeEscribe DEF DedupOK
    <3> QED
      BY <1>2, <1>4, <3>1, <3>2, <3>3 DEF DedupOK
  <2> QED
    BY <2>1, <2>2, <2>3, <2>4
<1> QED
  BY <1>3, <1>4

\* Where nothing is freed: what h takes is free or its own, and what a file:tag comes to name
\* is block 0, a block that h took, or one that the origin of a TAG names.
NombraDeAntes(h) ==
    /\ \A b \in Comun : Toma(h, b)' => Toma(h, b) \/ (b \notin bitmap /\ Copia(h)')
    /\ \A b \in Comun : Toma(h, b)' /\ Copia(h)' => b \notin bitmap \/ Copia(h)
    /\ \A f \in Archivos, p \in Pagina, b \in Comun : Nombra(f, p, b)' =>
          \/ Nombra(f, p, b)
          \/ f = pedido[h].f /\ Toma(h, b) /\ ~Copia(h)'
          \/ \E q \in Pagina : EnTag(h) /\ Nombra(pedido[h].f, q, b)

LEMMA NuevosPaso ==
  ASSUME Sano, NEW h \in Hilos, EnLoPedido(h), NadaSeLibera, NombraDeAntes(h)
  PROVE  Nuevos'
<1>1. InvBloques /\ Nuevos /\ Marcados
  BY DeSano DEF ArchivosOK
<1>2. /\ pedido' = pedido
      /\ \A g \in Hilos \ {h} : pc'[g] = pc[g] /\ loc'[g] = loc[g]
  BY <1>1, OtrosHilos
<1>3. \A g \in Hilos \ {h} : (Copia(g)' <=> Copia(g)) /\ \A b : Toma(g, b)' <=> Toma(g, b)
  <2>1. \A g \in Hilos \ {h} : (Copia(g)' <=> Copia(g)) /\ (EnEscritura(g)' <=> EnEscritura(g))
    BY <1>2 DEF Copia, EnEscritura
  <2> QED
    BY <1>2, <2>1 DEF Toma
\* A free block is in nobody's hands.
<1>4. ASSUME NEW b \in Comun, b \notin bitmap
      PROVE  /\ \A f \in Archivos, p \in Pagina : ~Nombra(f, p, b)
             /\ \A g \in Hilos : ~Toma(g, b)
  <2>1. /\ \A f \in Archivos, p \in Pagina : ~Guarda(f, p, b)
        /\ \A g \in Hilos : ~Reclama(g, b)
    BY <1>1, <1>4 DEF Marcados
  <2>2. \A f \in Archivos, p \in Pagina : Nombra(f, p, b) => Guarda(f, p, b)
    BY NadaSeDeja DEF Nombra, Guarda
  <2> QED
    BY <2>1, <2>2, TomaEs
<1>5. ASSUME NEW g \in Hilos, NEW b \in Comun, EnTag(h), Toma(g, b)
      PROVE  \A q \in Pagina : ~Nombra(pedido[h].f, q, b)
  <2>1. EnEscritura(g) /\ g # h
    BY <1>5, TomaEs DEF EnTag, EnEscritura
  <2>2. pedido[g].f \notin Nombrados(pedido[h])
    BY <1>1, <2>1, OtrosHilos DEF Adentro, EnEscritura
  <2>3. pedido[h].f \in Archivos /\ pedido[g].f # pedido[h].f
    BY <1>1, <1>5, <2>2, EnElTag, ElSuyo
  <2> QED
    BY <1>1, <1>5, <2>3 DEF Nuevos
<1>6. ASSUME NEW g \in Hilos, NEW b \in Comun, Toma(g, b)'
      PROVE  Toma(g, b) \/ (g = h /\ b \notin bitmap /\ Copia(h)')
  BY <1>3, <1>6 DEF NombraDeAntes
<1>7. ASSUME NEW g \in Hilos, NEW b \in Comun, Toma(g, b)', NEW f \in Archivos, NEW p \in Pagina,
             Nombra(f, p, b)'
      PROVE  f = pedido[g].f /\ ~Copia(g)'
  <2>1. CASE Toma(g, b)
    <3>1. CASE Nombra(f, p, b)
      <4>1. f = pedido[g].f /\ ~Copia(g)
        BY <1>1, <2>1, <3>1 DEF Nuevos
      <4>2. g = h => ~Copia(h)' \/ b \notin bitmap
        BY <1>7, <4>1 DEF NombraDeAntes
      <4> QED
        BY <1>3, <1>4, <2>1, <4>1, <4>2
    <3>2. CASE f = pedido[h].f /\ Toma(h, b) /\ ~Copia(h)'
      <4>1. g = h
        BY <1>1, <2>1, <3>2 DEF Nuevos
      <4> QED
        BY <3>2, <4>1
    <3>3. CASE \E q \in Pagina : EnTag(h) /\ Nombra(pedido[h].f, q, b)
      BY <1>5, <2>1, <3>3
    <3> QED
      BY <1>7, <3>1, <3>2, <3>3 DEF NombraDeAntes
  <2>2. CASE ~Toma(g, b)
    <3>1. g = h /\ b \notin bitmap /\ Copia(h)'
      BY <1>6, <1>7, <2>2
    <3>2. ~EnTag(h)
      <4> SUFFICES ASSUME EnTag(h) PROVE FALSE
        OBVIOUS
      <4>1. \E q \in Pagina : Nombra(pedido[h].f, q, b)
        BY <1>4, <1>7, <3>1 DEF NombraDeAntes
      <4>2. pedido[h].f \in Archivos
        BY <1>1, EnElTag
      <4> QED
        BY <1>4, <3>1, <4>1, <4>2
    <3> QED
      BY <1>4, <1>7, <3>1, <3>2 DEF NombraDeAntes
  <2> QED
    BY <2>1, <2>2
<1>8. ASSUME NEW g \in Hilos, NEW k \in Hilos, NEW b \in Comun, Toma(g, b)', Toma(k, b)'
      PROVE  k = g
  <2>1. CASE Toma(g, b) /\ Toma(k, b)
    BY <1>1, <2>1 DEF Nuevos
  <2>2. CASE ~(Toma(g, b) /\ Toma(k, b))
    <3>1. b \notin bitmap
      BY <1>6, <1>8, <2>2
    <3> QED
      BY <1>4, <1>6, <1>8, <3>1
  <2> QED
    BY <2>1, <2>2
<1> QED
  BY <1>2, <1>7, <1>8 DEF Nuevos

\* h leaves a directory without metadata only to write them next.
CarpetaPaso(h) ==
    \A f \in Nombrados(pedido[h]) : f \in Archivos /\ meta'[f].estado = "carpeta" =>
        \/ pc'[h] = "crear_meta" /\ pedido[h].f = f
        \/ pc'[h] = "tag_meta" /\ pedido[h].d = f

\* What is left to show of a step.
LEMMA ArchivosPaso ==
  ASSUME Sano, NEW h \in Hilos, EnLoPedido(h), Escribe(h), NadaSeLibera => NombraDeAntes(h),
         CarpetaPaso(h),
         indice' = indice \/ (EnDedup(h) /\ HashOK'),
         EstadoOK(h)', EscrituraOK(h)', CopiaOK(h)', DedupOK(h)'
  PROVE  ArchivosOK'
<1>1. InvBloques /\ Intacto /\ ArchivosOK
  BY DeSano
<1>2. /\ pedido' = pedido /\ mezcla' = mezcla
      /\ \A g \in Hilos \ {h} : pc'[g] = pc[g] /\ loc'[g] = loc[g]
  BY <1>1, OtrosHilos DEF entorno
<1>3. CarpetaOK'
  <2> SUFFICES ASSUME NEW f \in Archivos, meta'[f].estado = "carpeta"
               PROVE  \E g \in Hilos : \/ pc'[g] = "crear_meta" /\ pedido'[g].f = f
                                       \/ pc'[g] = "tag_meta" /\ pedido'[g].d = f
    BY DEF CarpetaOK
  <2>1. CASE f \in Nombrados(pedido[h])
    BY <1>2, <2>1 DEF CarpetaPaso
  <2>2. CASE f \notin Nombrados(pedido[h])
    <3>1. meta[f].estado = "carpeta"
      BY <2>2 DEF EnLoPedido
    <3>2. PICK g \in Hilos : \/ pc[g] = "crear_meta" /\ pedido[g].f = f
                             \/ pc[g] = "tag_meta" /\ pedido[g].d = f
      BY <1>1, <3>1 DEF ArchivosOK, CarpetaOK
    <3>3. g # h
      <4>1. pc[h] = "tag_meta" => pedido[h].op = "TAG"
        BY <1>1, EnElTag DEF EnTag
      <4> QED
        BY <2>2, <3>2, <4>1 DEF Nombrados
    <3> QED
      BY <1>2, <3>2, <3>3
  <2> QED
    BY <2>1, <2>2
<1>4. HashOK'
  <2> SUFFICES ASSUME indice' = indice, NEW c \in Contenidos, indice[c] # Nadie
               PROVE  dato'[indice[c]] = c
    BY DEF HashOK
  <2>1. indice[c] \in Bloque /\ Publicado(indice[c])
    BY <1>1, DelHilo DEF DiscoOK, Publicado
  <2> QED
    BY <1>1, <2>1, NoSeEscribe DEF ArchivosOK, HashOK
<1>5. NadaSeLibera' => Nuevos' /\ indice' = SinIndice
  <2> SUFFICES ASSUME NadaSeLibera PROVE Nuevos' /\ indice' = SinIndice
    BY <1>2 DEF NadaSeLibera
  <2>1. indice' = SinIndice
    BY <1>1, NadaSeDeja DEF ArchivosOK
  <2> QED
    BY <2>1, NuevosPaso
<1>6. \A g \in Hilos : EstadoOK(g)' /\ EscrituraOK(g)' /\ CopiaOK(g)' /\ DedupOK(g)'
  BY OtroArchivosOK
<1>7. SinIndice' = SinIndice
  BY DEF SinIndice
<1> QED
  BY <1>3, <1>4, <1>5, <1>6, <1>7 DEF ArchivosOK
-------------------------------------------------------------------------------
(* Each operation works on the file:tags of its request.                          *)

LEMMA Trabaja ==
  ASSUME InvBloques, NEW h \in Hilos, Suyos(h), ~SinCandado(pedido[h]), pc[h] # "libre",
         NEW paso, NEW l, Ir(h, paso, l),
         \A g \in Hilos \ {h} : ok'[g] = ok[g] /\ leido'[g] = leido[g],
         \/ UNCHANGED <<meta, logico>>
         \/ \E f \in Nombrados(pedido[h]) : \E m : meta' = [meta EXCEPT ![f] = m] /\ logico' = logico
         \/ \E f \in Nombrados(pedido[h]) : \E p, n : logico' = [logico EXCEPT ![f][p] = n] /\ meta' = meta
  PROVE  EnLoPedido(h)
<1>1. \A f \in Archivos \ Nombrados(pedido[h]) : meta'[f] = meta[f] /\ logico'[f] = logico[f]
  <2>1. meta \in [Archivos -> Metas] /\ logico \in [Archivos -> [Pagina -> Enlace]]
    BY DEF InvBloques, DiscoOK
  <2> QED
    BY <2>1
<1> QED
  BY <1>1 DEF EnLoPedido

LEMMA TrabajaFalla ==
  ASSUME InvBloques, NEW h \in Hilos, Suyos(h), ~SinCandado(pedido[h]), pc[h] # "libre", Falla(h)
  PROVE  EnLoPedido(h) /\ dato' = dato
<1>1. Ir(h, "responder", SinLocales) /\ UNCHANGED <<meta, logico, dato, leido>>
      /\ \A g \in Hilos \ {h} : ok'[g] = ok[g] /\ leido'[g] = leido[g]
  BY DelHilo DEF Falla, Resultado, disco, HilosOK
<1> QED
  BY <1>1, Trabaja

LEMMA TrabajaCorto ==
  ASSUME InvBloques, NEW h \in Hilos, ~SinCandado(pedido[h]),
         \/ Crear(h) \/ CrearMeta(h) \/ Truncar(h) \/ TruncMeta(h) \/ Tag(h) \/ TagMeta(h) \/ Leer(h)
         \/ Flush(h) \/ EscribirBloque(h) \/ Commit(h) \/ CommitEstado(h) \/ CommitPersistir(h)
  PROVE  EnLoPedido(h) /\ dato' = dato
<1> DEFINE f == pedido[h].f
<1>1. /\ pc[h] # "libre" /\ Suyos(h) /\ HilosOK /\ DiscoOK /\ f \in Nombrados(pedido[h])
      /\ pc[h] \in {"entrar", "crear_meta", "trunc_meta", "tag_meta", "commit_estado", "commit_persistir"}
  <2>1. \/ \E op : Empieza(h, op)
        \/ pc[h] \in {"crear_meta", "trunc_meta", "tag_meta", "commit_estado", "commit_persistir"}
    BY DEF Crear, CrearMeta, Truncar, TruncMeta, Tag, TagMeta, Leer, Flush, EscribirBloque, Escribir,
       Commit, CommitEstado, CommitPersistir
  <2> QED
    BY <2>1, SuyosAlEntrar, SuyosAdentro, DelHilo, ElSuyo DEF Empieza
<1>2. CASE Falla(h)
  BY <1>1, <1>2, TrabajaFalla
<1>3. ok \in [Hilos -> BOOLEAN] /\ leido \in [Hilos -> Contenidos]
  BY <1>1 DEF HilosOK, DiscoOK
<1>4. CASE Crear(h) /\ ~Falla(h)
  <2>1. \E m : PonerMeta(f, m) /\ Ir(h, "crear_meta", SinLocales) /\ ok' = ok
    BY <1>4 DEF Crear
  <2> QED
    BY <1>1, <2>1, Trabaja DEF PonerMeta
<1>5. CASE CrearMeta(h) \/ TruncMeta(h)
  <2>1. (\E m : PonerMeta(f, m)) /\ Resultado(h, TRUE)
    BY <1>5 DEF CrearMeta, TruncMeta
  <2> QED
    BY <1>1, <1>3, <2>1, Trabaja DEF PonerMeta, Resultado
<1>6. CASE Truncar(h) /\ ~Falla(h)
  <2>1. UNCHANGED <<disco, ok, leido>> /\ \E paso, l : Ir(h, paso, l)
    BY <1>6 DEF Truncar
  <2> QED
    BY <1>1, <2>1, Trabaja DEF disco
<1>7. CASE Tag(h) /\ ~Falla(h)
  <2>1. pedido[h].d \in Nombrados(pedido[h])
    BY <1>7 DEF Tag, Empieza, Nombrados
  <2>2. PICK m, paso : /\ PonerMeta(pedido[h].d, m) /\ Ir(h, paso, SinLocales)
                       /\ ok' = ok \/ ok' = [ok EXCEPT ![h] = FALSE]
    BY <1>7 DEF Tag, Resultado
  <2>3. meta' = [meta EXCEPT ![pedido[h].d] = m] /\ UNCHANGED <<logico, dato, leido>>
    BY <2>2 DEF PonerMeta
  <2> QED
    BY <1>1, <1>3, <2>1, <2>2, <2>3, Trabaja
<1>8. CASE TagMeta(h)
  <2>1. pedido[h].d \in Nombrados(pedido[h])
    BY <1>8, EnElTag DEF TagMeta, EnTag
  <2>2. PICK m : PonerMeta(pedido[h].d, m) /\ Ir(h, "tag_link", SinLocales) /\ ok' = ok
    BY <1>8 DEF TagMeta
  <2>3. meta' = [meta EXCEPT ![pedido[h].d] = m] /\ UNCHANGED <<logico, dato, leido>>
    BY <2>2 DEF PonerMeta
  <2> QED
    BY <1>1, <2>1, <2>2, <2>3, Trabaja
<1>9. CASE Leer(h) /\ ~Falla(h)
  <2>1. /\ Resultado(h, TRUE) /\ UNCHANGED <<disco, bitmap>>
        /\ leido' = [leido EXCEPT ![h] = dato[logico[f][pedido[h].p]]]
    BY <1>9 DEF Leer
  <2> QED
    BY <1>1, <1>3, <2>1, Trabaja DEF disco, Resultado
<1>10. CASE (Flush(h) \/ EscribirBloque(h)) /\ ~Falla(h)
  <2>1. UNCHANGED <<disco, ok, leido>> /\ \E paso, l : Ir(h, paso, l)
    BY <1>10 DEF Flush, EscribirBloque, Escribir
  <2> QED
    BY <1>1, <2>1, Trabaja DEF disco
<1>11. CASE Commit(h) /\ ~Falla(h)
  <2>1. UNCHANGED <<disco, leido>> /\ (\E paso, l : Ir(h, paso, l)) /\ (ok' = ok \/ ok' = [ok EXCEPT ![h] = TRUE])
    BY <1>11 DEF Commit, Resultado
  <2> QED
    BY <1>1, <1>3, <2>1, Trabaja DEF disco
<1>12. CASE CommitEstado(h)
  <2>1. \E m : PonerMeta(f, m) /\ Ir(h, "commit_persistir", SinLocales) /\ ok' = ok
    BY <1>12 DEF CommitEstado
  <2> QED
    BY <1>1, <2>1, Trabaja DEF PonerMeta
<1>13. CASE CommitPersistir(h)
  BY <1>1, <1>3, <1>13, Trabaja DEF CommitPersistir, PersistirBitmap, Resultado
<1> QED
  BY <1>2, <1>4, <1>5, <1>6, <1>7, <1>8, <1>9, <1>10, <1>11, <1>12, <1>13

LEMMA TrabajaEnCurso ==
  ASSUME InvBloques, Intacto, NEW h \in Hilos,
         \/ TruncCrecer(h) \/ TruncBajar(h) \/ TruncStat(h) \/ TruncLiberar(h) \/ TagLink(h)
         \/ PrepararPagina(h) \/ Desenlazar(h) \/ Reenlazar(h) \/ GuardarBlocks(h)
         \/ TerminarEscritura(h)
         \/ DedupPag(h) \/ DedupLink(h) \/ DedupBit(h) \/ DedupPersistir(h) \/ DedupGuardar(h)
  PROVE  EnLoPedido(h) /\ dato' = dato
<1> DEFINE f == pedido[h].f
<1>1. Adentro(h)
  BY DEF Adentro, TruncCrecer, TruncBajar, TruncStat, TruncLiberar, TagLink, PrepararPagina, Desenlazar,
     Reenlazar, GuardarBlocks, TerminarEscritura, DedupPag, DedupLink, DedupBit, DedupPersistir, DedupGuardar
<1>2. /\ pc[h] # "libre" /\ Suyos(h) /\ HilosOK /\ DiscoOK /\ f \in Nombrados(pedido[h])
      /\ ~SinCandado(pedido[h]) /\ f \in Archivos
  BY <1>1, SuyosAdentro, DelHilo, DelPedido, ElSuyo DEF Adentro, OpOK
<1>3. /\ ok \in [Hilos -> BOOLEAN] /\ leido \in [Hilos -> Contenidos]
      /\ meta \in [Archivos -> Metas] /\ logico \in [Archivos -> [Pagina -> Enlace]]
  BY <1>2 DEF HilosOK, DiscoOK
<1>4. CASE Falla(h)
  BY <1>2, <1>4, TrabajaFalla
<1>5. CASE (TruncCrecer(h) /\ ~Falla(h)) \/ TruncBajar(h)
  <2>1. PICK p, n, paso, l : Enlazar(f, p, n) /\ Ir(h, paso, l) /\ ok' = ok
    BY <1>5 DEF TruncCrecer, TruncBajar
  <2> QED
    BY <1>2, <2>1, Trabaja DEF Enlazar
<1>6. CASE TruncStat(h) \/ TruncLiberar(h)
  <2>1. (\E paso, l : Ir(h, paso, l)) /\ UNCHANGED <<meta, logico, dato, ok, leido>>
    BY <1>6 DEF TruncStat, TruncLiberar, TruncSigue, PonerBitmap, disco
  <2> QED
    BY <1>2, <2>1, Trabaja
<1>7. CASE TagLink(h)
  <2>1. pedido[h].d \in Nombrados(pedido[h])
    BY <1>7, EnElTag DEF TagLink, EnTag
  <2>2. PICK n, paso, l : /\ Enlazar(pedido[h].d, loc[h].pag, n) /\ Ir(h, paso, l)
                          /\ ok' = ok \/ ok' = [ok EXCEPT ![h] = TRUE]
    BY <1>7 DEF TagLink, Resultado
  <2> QED
    BY <1>2, <1>3, <2>1, <2>2, Trabaja DEF Enlazar
<1>8. CASE PrepararPagina(h)
  <2>1. /\ \E paso, l : Ir(h, paso, l)
        /\ UNCHANGED <<meta, logico, dato, leido>> /\ (ok' = ok \/ ok' = [ok EXCEPT ![h] = FALSE])
    BY <1>8 DEF PrepararPagina, Saltear, PonerBitmap, disco
  <2> QED
    BY <1>2, <1>3, <2>1, Trabaja
<1>9. CASE Desenlazar(h) \/ Reenlazar(h)
  <2>1. PICK p, n, paso, l : /\ logico' = [logico EXCEPT ![f][p] = n] /\ Ir(h, paso, l)
                             /\ UNCHANGED <<meta, dato, leido>>
                             /\ ok' = ok \/ ok' = [ok EXCEPT ![h] = FALSE]
    BY <1>9 DEF Desenlazar, Reenlazar, Saltear, Enlazar
  <2> QED
    BY <1>2, <1>3, <2>1, Trabaja
<1>10. CASE GuardarBlocks(h)
  <2>1. PICK m : PonerMeta(f, m) /\ Ir(h, "escribir", loc[h]) /\ ok' = ok
    BY <1>10 DEF GuardarBlocks
  <2>2. meta' = [meta EXCEPT ![f] = m] /\ UNCHANGED <<logico, dato, leido>>
    BY <2>1 DEF PonerMeta
  <2> QED
    BY <1>2, <2>1, <2>2, Trabaja
<1>11. CASE TerminarEscritura(h)
  BY <1>2, <1>3, <1>11, Trabaja DEF TerminarEscritura, PersistirBitmap, Resultado, disco
<1>12. CASE DedupPag(h)
  <2>1. PICK paso, l : Ir(h, paso, l)
    BY <1>12 DEF DedupPag, DedupSigue
  <2>2. /\ UNCHANGED <<dato, leido, ok, meta>>
        /\ logico' = logico \/ logico' = [logico EXCEPT ![f][loc[h].pag] = Nadie]
    BY <1>12 DEF DedupPag, Enlazar, disco
  <2> QED
    BY <1>2, <1>3, <2>1, <2>2, Trabaja
<1>13. CASE DedupLink(h)
  <2>1. PICK p, n, paso, l : Enlazar(f, p, n) /\ Ir(h, paso, l) /\ ok' = ok
    BY <1>13 DEF DedupLink, DedupSigue
  <2> QED
    BY <1>2, <2>1, Trabaja DEF Enlazar
<1>14. CASE DedupBit(h) \/ DedupPersistir(h)
  <2>1. (\E paso, l : Ir(h, paso, l)) /\ UNCHANGED <<meta, logico, dato, ok, leido>>
    BY <1>14 DEF DedupBit, DedupPersistir, DedupSigue, PonerBitmap, PersistirBitmap, disco
  <2> QED
    BY <1>2, <2>1, Trabaja
<1>15. CASE DedupGuardar(h)
  <2>1. \A x : [meta EXCEPT ![f].blocks = x] = [meta EXCEPT ![f] = [meta[f] EXCEPT !.blocks = x]]
    BY <1>2, <1>3
  <2>2. /\ \E m : meta' = [meta EXCEPT ![f] = m]
        /\ UNCHANGED <<logico, dato, ok, leido>> /\ Ir(h, "commit_estado", SinLocales)
    BY <1>15, <2>1 DEF DedupGuardar
  <2> QED
    BY <1>2, <2>2, Trabaja
<1> QED
  BY <1>4, <1>5, <1>6, <1>7, <1>8, <1>9, <1>10, <1>11, <1>12, <1>13, <1>14, <1>15

\* The two that write: the copy of a page, and a pending page.
LEMMA LaCopia ==
  ASSUME Sano, NEW h \in Hilos, Copiar(h)
  PROVE  LET b == BloqueDe(pedido[h].f, EnCurso(h)[1])
             c == loc[h].nuevo IN
         /\ EnLoPedido(h) /\ Escribe(h) /\ Ir(h, "desenlazar", loc[h])
         /\ UNCHANGED <<meta, logico, nodo, indice, bitmap, leido, ok>>
         /\ c \in Comun /\ b \in Bloque /\ b # c
         /\ dato' = [dato EXCEPT ![c] = dato[b]]
<1> DEFINE f == pedido[h].f
           p == EnCurso(h)[1]
           b == BloqueDe(f, p)
           c == loc[h].nuevo
<1>1. InvBloques /\ Intacto /\ FielOK
  BY DeSano
<1>2. /\ c \in Bloque \ {0} /\ Ir(h, "desenlazar", loc[h])
      /\ UNCHANGED <<meta, logico, nodo, indice, bitmap, leido, ok>>
  BY <1>1, CopiaEnSuNodo
<1>3. /\ pc[h] = "copiar" /\ EnEscritura(h) /\ f \in Archivos /\ DiscoOK /\ CursoOK(h) /\ loc[h].cola # <<>>
      /\ ~SinCandado(pedido[h]) /\ Suyos(h) /\ pc[h] # "libre"
  <2>1. pc[h] = "copiar" /\ EnEscritura(h)
    BY DEF Copiar, EnEscritura
  <2> QED
    BY <1>1, <2>1, EnLaEscritura DEF CursoOK
<1>4. p \in Pagina /\ p \in Nat /\ p < Len(meta[f].blocks) /\ b = meta[f].blocks[p + 1] /\ b \in Bloque
  <2>1. p \in Pagina /\ p \in Nat
    BY <1>3 DEF CursoOK, Pagina
  <2>2. p < Len(meta[f].blocks)
    BY <1>1, <1>3, FielEnCurso DEF ObraEscritura
  <2> QED
    BY <1>3, <2>1, <2>2, BloqueDeEs DEF BloqueDe
<1>5. Toma(h, c) /\ Copia(h) /\ c \in Comun
  BY <1>2, <1>3 DEF Toma, Copia, Comun
<1>6. b # c
  <2>1. ~Deja(h, p)
    BY <1>3 DEF Deja, EnDedup, PasosDedup
  <2>2. \A g \in Hilos \ {h} : pedido[g].f = f => ~Adentro(g)
    BY <1>1, <1>3, NadieMas, ElSuyo
  <2>3. \A g \in Hilos : pedido[g].f = f => ~Deja(g, p)
    BY <2>1, <2>2, SoloAdentro
  <2>4. Guarda(f, p, b)
    BY <1>4, <2>3 DEF Guarda
  <2> QED
    BY <1>3, <1>4, <1>5, <2>4, AjenosVale DEF Ajenos
<1>7. nodo[c] = c /\ nodo[b] = b /\ c # Nadie /\ b # Nadie
  <2>1. \A x \in Bloque : nodo[x] = x /\ x # Nadie
    BY <1>1, BloquesAssumption DEF Intacto, Bloque
  <2> QED
    BY <1>2, <1>4, <2>1
<1>8. dato' = [dato EXCEPT ![c] = dato[b]]
  BY <1>6, <1>7 DEF Copiar, NodoParaEscribir
<1>9. Escribe(h)
  BY <1>3, <1>5, <1>8 DEF Escribe, DiscoOK
<1>10. EnLoPedido(h)
  BY <1>1, <1>2, <1>3, Trabaja
<1> QED
  BY <1>2, <1>4, <1>5, <1>6, <1>8, <1>9, <1>10

LEMMA LaPendiente ==
  ASSUME Sano, NEW h \in Hilos, EscribirPendiente(h)
  PROVE  LET e == loc[h].pend[1] IN
         /\ EnLoPedido(h) /\ Escribe(h) /\ Ir(h, "escribir", [loc[h] EXCEPT !.pend = <<>>])
         /\ UNCHANGED <<meta, logico, nodo, indice, bitmap, leido, ok>>
         /\ pc[h] = "escribir" /\ ok[h] /\ Len(loc[h].pend) = 1 /\ e \in Pagina \X Bloque \X Contenidos
         /\ e[2] \in Comun /\ e[1] < Len(meta[pedido[h].f].blocks) /\ logico[pedido[h].f][e[1]] = e[2]
         /\ dato' = [dato EXCEPT ![e[2]] = e[3]]
<1> DEFINE e == loc[h].pend[1]
<1>1. InvBloques /\ Intacto /\ EscrituraOK(h)
  BY DeSano DEF ArchivosOK
<1>2. pc[h] = "escribir" /\ loc[h].pend # <<>> /\ EnEscritura(h)
  BY DEF EscribirPendiente, EnEscritura
<1>3. /\ loc[h] \in Locales /\ loc[h].pend \in Seq(Pagina \X Bloque \X Contenidos) /\ DiscoOK
      /\ ok \in [Hilos -> BOOLEAN] /\ ~SinCandado(pedido[h]) /\ Suyos(h) /\ pc[h] # "libre"
  BY <1>1, <1>2, EnLaEscritura, CamposDe
<1>4. /\ Len(loc[h].pend) = 1 /\ ok[h] /\ e[1] < Len(meta[pedido[h].f].blocks)
      /\ logico[pedido[h].f][e[1]] = e[2]
  BY <1>1, <1>2 DEF EscrituraOK
<1>5. e \in Pagina \X Bloque \X Contenidos /\ Head(loc[h].pend) = e /\ Tail(loc[h].pend) = <<>>
      /\ 1 \in DOMAIN loc[h].pend
  <2>1. 1 \in DOMAIN loc[h].pend /\ e \in Pagina \X Bloque \X Contenidos /\ Head(loc[h].pend) = e
    BY <1>3, <1>4
  <2>2. Tail(loc[h].pend) \in Seq(Pagina \X Bloque \X Contenidos) /\ Len(Tail(loc[h].pend)) = 0
    BY <1>2, <1>3, <1>4
  <2>3. Tail(loc[h].pend) = <<>>
    BY <2>2, EmptySeq
  <2> QED
    BY <2>1, <2>3
<1>6. e[2] \in Comun /\ nodo[e[2]] = e[2] /\ e[2] # Nadie
  <2>1. e[2] \in Bloque
    BY <1>5
  <2>2. e[2] # 0
    BY <1>1, <1>5 DEF Intacto, PendSano
  <2> QED
    BY <1>1, <2>1, <2>2, BloquesAssumption DEF Intacto, Comun, Bloque
<1>7. Toma(h, e[2])
  BY <1>2, <1>5 DEF Toma
<1>8. /\ dato' = [dato EXCEPT ![e[2]] = e[3]]
      /\ ok' = [ok EXCEPT ![h] = ok[h] /\ TRUE]
      /\ UNCHANGED <<meta, logico, nodo, indice, bitmap, leido>>
      /\ Ir(h, "escribir", [loc[h] EXCEPT !.pend = <<>>])
  BY <1>5, <1>6 DEF EscribirPendiente
<1>9. ok' = ok
  BY <1>3, <1>4, <1>8
<1>10. Escribe(h)
  BY <1>3, <1>6, <1>7, <1>8 DEF Escribe, DiscoOK
<1>11. EnLoPedido(h)
  BY <1>1, <1>3, <1>8, <1>9, Trabaja
<1> QED
  BY <1>2, <1>4, <1>5, <1>6, <1>8, <1>9, <1>10, <1>11
-------------------------------------------------------------------------------
(* Each operation preserves it. *)

NombraIgual == \A f \in Archivos, p \in Pagina, b \in Comun : Nombra(f, p, b)' => Nombra(f, p, b)

LEMMA CarpetaQuieta ==
  ASSUME Sano, NEW h \in Hilos, Suyos(h), ~SinCandado(pedido[h]), pc[h] \notin {"crear_meta", "tag_meta"},
         \A f \in Nombrados(pedido[h]) : f \in Archivos =>
             meta'[f].estado = meta[f].estado \/ meta'[f].estado # "carpeta"
  PROVE  CarpetaPaso(h)
BY SinCarpeta DEF CarpetaPaso

LEMMA EstadoSigue ==
  ASSUME Sano, NEW h \in Hilos, pedido' = pedido, ~EnTag(h)',
         meta'[pedido[h].f].estado = meta[pedido[h].f].estado,
         EnTruncate(h)' => EnTruncate(h), EnEscritura(h)' => EnEscritura(h), EnCommit(h)' => EnCommit(h),
         Achica(h)' => Achica(h) /\ meta'[pedido[h].f].tam = meta[pedido[h].f].tam
  PROVE  EstadoOK(h)'
<1>1. EstadoOK(h)
  BY DeSano DEF ArchivosOK
<1>2. pc'[h] # "tag_link"
  BY DEF EnTag
<1> QED
  BY <1>1, <1>2 DEF EstadoOK, ConMetadata, Achica

\* Outside of a write and of the deduplication of a COMMIT.
LEMMA ArchivosFuera ==
  ASSUME Sano, NEW h \in Hilos, EnLoPedido(h), dato' = dato, indice' = indice,
         ~EnEscritura(h)', ~EnDedup(h)', CarpetaPaso(h), EstadoOK(h)',
         NadaSeLibera => \A f \in Archivos, p \in Pagina, b \in Comun : Nombra(f, p, b)' =>
             Nombra(f, p, b) \/ \E q \in Pagina : EnTag(h) /\ Nombra(pedido[h].f, q, b)
  PROVE  ArchivosOK'
<1>1. EscrituraOK(h)' /\ CopiaOK(h)' /\ DedupOK(h)'
  BY DEF EscrituraOK, CopiaOK, DedupOK, EnEscritura, EnDedup, PasosDedup
<1>2. \A b : ~Toma(h, b)'
  BY DEF Toma, Copia, EnEscritura
<1>3. NadaSeLibera => NombraDeAntes(h)
  BY <1>2 DEF NombraDeAntes
<1>4. Escribe(h)
  BY DEF Escribe
<1> QED
  BY <1>1, <1>3, <1>4, ArchivosPaso

\* A step that changes neither links nor metadata, outside of a write and of the deduplication.
LEMMA ArchivosQuieto ==
  ASSUME Sano, NEW h \in Hilos, EnLoPedido(h), UNCHANGED <<meta, logico, dato, indice>>,
         ~EnEscritura(h)', ~EnDedup(h)', pc[h] \notin {"crear_meta", "tag_meta"}, EstadoOK(h)'
  PROVE  ArchivosOK'
<1>1. CarpetaPaso(h)
  BY CarpetaQuieta DEF EnLoPedido
<1>2. NombraIgual
  BY DEF NombraIgual, Nombra
<1> QED
  BY <1>1, <1>2, ArchivosFuera DEF NombraIgual

LEMMA AlResponder ==
  ASSUME InvBloques, NEW h \in Hilos, NEW r, Resultado(h, r)
  PROVE  /\ pc'[h] = "responder" /\ loc'[h] = SinLocales /\ pedido' = pedido
         /\ ~EnEscritura(h)' /\ ~EnDedup(h)' /\ EstadoOK(h)'
<1>1. pc'[h] = "responder" /\ loc'[h] = SinLocales /\ pedido' = pedido
  BY DelHilo, EfectoDeIr DEF Resultado
<1>2. ~EnTruncate(h)' /\ ~EnEscritura(h)' /\ ~EnDedup(h)' /\ ~EnCommit(h)' /\ ~EnTag(h)' /\ pc'[h] # "tag_link"
  BY <1>1 DEF EnTruncate, EnEscritura, EnDedup, EnCommit, EnTag, PasosDedup
<1> QED
  BY <1>1, <1>2 DEF EstadoOK

LEMMA ArchivosFalla ==
  ASSUME Sano, NEW h \in Hilos, ~SinCandado(pedido[h]), EnLoPedido(h), Falla(h),
         pc[h] \notin {"crear_meta", "tag_meta"}
  PROVE  ArchivosOK'
<1>1. Resultado(h, FALSE) /\ UNCHANGED <<meta, logico, dato, indice>>
  BY DEF Falla, disco
<1> QED
  BY <1>1, DeSano, AlResponder, ArchivosQuieto

\* What a file:tag names after a save of its metadata, or a link.
LEMMA NombraMeta ==
  ASSUME InvBloques, NEW f \in Archivos, NEW m, meta' = [meta EXCEPT ![f] = m], logico' = logico
  PROVE  \A g \in Archivos, p \in Pagina, b \in Comun : Nombra(g, p, b)' =>
             Nombra(g, p, b) \/ (g = f /\ p < Len(m.blocks) /\ m.blocks[p + 1] = b)
<1>1. meta \in [Archivos -> Metas]
  BY DEF InvBloques, DiscoOK
<1>2. meta'[f] = m /\ \A g \in Archivos \ {f} : meta'[g] = meta[g]
  BY <1>1
<1> QED
  BY <1>2 DEF Nombra

LEMMA NombraEnlace ==
  ASSUME InvBloques, NEW f \in Archivos, NEW k, NEW n, logico' = [logico EXCEPT ![f][k] = n], meta' = meta
  PROVE  \A g \in Archivos, p \in Pagina, b \in Comun : Nombra(g, p, b)' =>
             Nombra(g, p, b) \/ (g = f /\ p = k /\ n = b)
<1>1. logico \in [Archivos -> [Pagina -> Enlace]]
  BY DEF InvBloques, DiscoOK
<1>2. /\ \A g \in Archivos \ {f} : logico'[g] = logico[g]
      /\ \A p \in Pagina : logico'[f][p] = IF p = k THEN n ELSE logico[f][p]
  BY <1>1
<1> QED
  BY <1>2 DEF Nombra

LEMMA ArchivosCrear ==
  ASSUME Sano, NEW h \in Hilos, Crear(h) \/ CrearMeta(h)
  PROVE  ArchivosOK'
<1> DEFINE f == pedido[h].f
<1>1. InvBloques /\ (CrearMeta(h) => pc[h] = "crear_meta") /\ (Crear(h) => pc[h] = "entrar")
  BY DeSano DEF Crear, CrearMeta, Empieza
<1>2. pc[h] # "libre" /\ pedido[h].op = "CREATE"
  BY <1>1, DelHilo DEF Crear, CrearMeta, Empieza, OpOK
<1>3. ~SinCandado(pedido[h]) /\ Nombrados(pedido[h]) = {f} /\ f \in Archivos
  BY <1>1, <1>2, DelPedido DEF SinCandado, Nombrados
<1>4. EnLoPedido(h) /\ dato' = dato
  BY <1>1, <1>3, TrabajaCorto
<1>5. CASE Falla(h) /\ Crear(h)
  BY <1>1, <1>3, <1>4, <1>5, ArchivosFalla
<1>6. CASE ~(Falla(h) /\ Crear(h))
  <2>1. PICK e \in {"carpeta", "WORK_IN_PROGRESS"} :
              /\ PonerMeta(f, [SinMeta EXCEPT !.estado = e])
              /\ \/ e = "carpeta" /\ Ir(h, "crear_meta", SinLocales)
                 \/ e = "WORK_IN_PROGRESS" /\ Resultado(h, TRUE)
    BY <1>6 DEF Crear, CrearMeta
  <2> DEFINE m == [SinMeta EXCEPT !.estado = e]
  <2>2. m.estado = e /\ m.blocks = <<>> /\ Len(m.blocks) = 0
    BY DEF SinMeta
  <2>3. meta' = [meta EXCEPT ![f] = m] /\ logico' = logico /\ indice' = indice
    BY <2>1 DEF PonerMeta
  <2> HIDE DEF m
  <2>4. meta'[f].estado = e
    BY <1>1, <1>3, <2>2, <2>3 DEF InvBloques, DiscoOK
  <2>5. /\ pc'[h] = IF e = "carpeta" THEN "crear_meta" ELSE "responder"
        /\ pedido' = pedido
    BY <1>1, <2>1, DelHilo, EfectoDeIr DEF Resultado
  <2>6. /\ ~EnEscritura(h)' /\ ~EnDedup(h)' /\ EstadoOK(h)'
    BY <2>5 DEF EnEscritura, EnDedup, EstadoOK, EnTruncate, EnCommit, EnTag, PasosDedup
  <2>7. CarpetaPaso(h)
    BY <1>3, <2>4, <2>5 DEF CarpetaPaso
  <2>8. \A p \in Pagina : ~(p < Len(m.blocks))
    BY <2>2 DEF Pagina
  <2>9. NombraIgual
    BY <1>1, <1>3, <2>3, <2>8, NombraMeta DEF NombraIgual
  <2> QED
    BY <1>4, <2>3, <2>6, <2>7, <2>9, ArchivosFuera DEF NombraIgual
<1> QED
  BY <1>5, <1>6

LEMMA ArchivosLeer ==
  ASSUME Sano, NEW h \in Hilos, Leer(h) \/ TerminarEscritura(h) \/ CommitPersistir(h)
  PROVE  ArchivosOK'
<1>1. InvBloques /\ pc[h] \in {"entrar", "escribir", "commit_persistir"}
      /\ (Leer(h) => pc[h] = "entrar" /\ pedido[h].op = "READ")
  BY DeSano DEF Leer, TerminarEscritura, CommitPersistir, Empieza
<1>2. ~SinCandado(pedido[h])
  <2>1. CASE Leer(h)
    BY <1>1, <2>1 DEF SinCandado
  <2>2. CASE ~Leer(h)
    <3>1. Adentro(h) /\ pc[h] # "libre"
      BY <1>1, <2>2 DEF Adentro, TerminarEscritura, CommitPersistir
    <3> QED
      BY <1>1, <3>1, DelHilo, DelPedido DEF OpOK
  <2> QED
    BY <2>1, <2>2
<1>3. EnLoPedido(h) /\ dato' = dato
  BY <1>1, <1>2, DeSano, TrabajaCorto, TrabajaEnCurso
<1>4. UNCHANGED <<meta, logico, indice>> /\ \E r : Resultado(h, r)
  BY DEF Leer, TerminarEscritura, CommitPersistir, Falla, PersistirBitmap, disco
<1> QED
  BY <1>1, <1>3, <1>4, AlResponder, ArchivosQuieto

\* TRUNCATE
LEMMA ArchivosTruncar ==
  ASSUME Sano, NEW h \in Hilos, Truncar(h)
  PROVE  ArchivosOK'
<1> DEFINE f == pedido[h].f
<1>1. InvBloques /\ pc[h] = "entrar" /\ ~SinCandado(pedido[h])
  BY DeSano DEF Truncar, Empieza, SinCandado
<1>2. EnLoPedido(h) /\ dato' = dato
  BY <1>1, TrabajaCorto
<1>3. CASE Falla(h)
  BY <1>1, <1>2, <1>3, ArchivosFalla
<1>4. CASE ~Falla(h)
  <2>1. /\ meta[f].estado = "WORK_IN_PROGRESS" /\ UNCHANGED <<meta, logico, dato, indice>>
        /\ \E paso \in {"trunc_crecer", "trunc_bajar", "trunc_meta"} : \E l :
              Ir(h, paso, l) /\ (paso = "trunc_bajar" => pedido[h].n < meta[f].tam)
    BY <1>4 DEF Truncar, disco
  <2>2. /\ pc'[h] \in {"trunc_crecer", "trunc_bajar", "trunc_meta"} /\ pedido' = pedido
        /\ pc'[h] = "trunc_bajar" => pedido[h].n <= meta[f].tam
    <3>1. /\ pc'[h] \in {"trunc_crecer", "trunc_bajar", "trunc_meta"} /\ pedido' = pedido
          /\ pc'[h] = "trunc_bajar" => pedido[h].n < meta[f].tam
      BY <1>1, <2>1, DelHilo, EfectoDeIr
    <3>2. pedido[h].n \in Nat /\ meta[f].tam \in Nat
      <4>1. pedido[h].n \in 0..MaxPaginas /\ f \in Archivos
        BY <1>1, DelPedido DEF Truncar, Empieza
      <4> QED
        BY <1>1, <4>1, DelHilo, SonMetas DEF DiscoOK
    <3> QED
      BY <3>1, <3>2
  <2>3. ~EnEscritura(h)' /\ ~EnDedup(h)' /\ EstadoOK(h)'
    BY <2>1, <2>2 DEF EnEscritura, EnDedup, EstadoOK, EnTruncate, EnCommit, EnTag, PasosDedup
  <2> QED
    BY <1>1, <1>2, <2>1, <2>3, ArchivosQuieto
<1> QED
  BY <1>3, <1>4

LEMMA SigueTruncando ==
  ASSUME Sano, NEW h \in Hilos, EnTruncate(h), pedido' = pedido,
         pc'[h] \in {"trunc_crecer", "trunc_bajar", "trunc_stat", "trunc_liberar", "trunc_meta"},
         meta' = meta, Achica(h)' => Achica(h)
  PROVE  ~EnEscritura(h)' /\ ~EnDedup(h)' /\ EstadoOK(h)'
<1>1. ~EnEscritura(h)' /\ ~EnDedup(h)' /\ ~EnCommit(h)' /\ ~EnTag(h)'
  BY DEF EnEscritura, EnDedup, EnCommit, EnTag, PasosDedup
<1> QED
  BY <1>1, EstadoSigue

LEMMA ArchivosTruncCrecer ==
  ASSUME Sano, NEW h \in Hilos, TruncCrecer(h)
  PROVE  ArchivosOK'
<1> DEFINE f == pedido[h].f
<1>1. InvBloques /\ Intacto /\ pc[h] = "trunc_crecer" /\ EnTruncate(h)
  BY DeSano DEF TruncCrecer, EnTruncate
<1>2. EnLoPedido(h) /\ dato' = dato /\ f \in Archivos /\ ~SinCandado(pedido[h]) /\ Suyos(h)
  BY <1>1, TrabajaEnCurso, EnElTruncate DEF EnLoPedido
<1>3. CASE Falla(h)
  BY <1>1, <1>2, <1>3, ArchivosFalla
<1>4. CASE ~Falla(h)
  <2>1. /\ Enlazar(f, loc[h].pag, nodo[0]) /\ \E l : Ir(h, "trunc_meta", l) \/ Ir(h, "trunc_crecer", l)
    BY <1>4 DEF TruncCrecer
  <2>2. pc'[h] \in {"trunc_crecer", "trunc_meta"} /\ pedido' = pedido
    BY <1>1, <2>1, DelHilo, EfectoDeIr
  <2>3. meta' = meta /\ indice' = indice /\ logico' = [logico EXCEPT ![f][loc[h].pag] = nodo[0]]
    BY <2>1 DEF Enlazar
  <2>4. nodo[0] \notin Comun
    BY <1>1, BloquesAssumption DEF Intacto, Bloque, Comun
  <2>5. NombraIgual
    <3>1. \A g \in Archivos, p \in Pagina, b \in Comun : Nombra(g, p, b)' =>
              Nombra(g, p, b) \/ (g = f /\ p = loc[h].pag /\ nodo[0] = b)
      BY <1>1, <1>2, <2>3, NombraEnlace
    <3> QED
      BY <2>4, <3>1 DEF NombraIgual
  <2>6. CarpetaPaso(h)
    BY <1>1, <1>2, <2>3, CarpetaQuieta
  <2> QED
    BY <1>1, <1>2, <2>2, <2>3, <2>5, <2>6, SigueTruncando, ArchivosFuera DEF NombraIgual, Achica
<1> QED
  BY <1>3, <1>4

LEMMA ArchivosTruncBajar ==
  ASSUME Sano, NEW h \in Hilos, TruncBajar(h) \/ TruncStat(h) \/ TruncLiberar(h)
  PROVE  ArchivosOK'
<1>1. InvBloques /\ Intacto /\ Achica(h) /\ EnTruncate(h)
      /\ pc[h] \in {"trunc_bajar", "trunc_stat", "trunc_liberar"}
  BY DeSano DEF TruncBajar, TruncStat, TruncLiberar, EnTruncate, Achica
<1>2. EnLoPedido(h) /\ dato' = dato /\ ~SinCandado(pedido[h]) /\ Suyos(h)
  BY <1>1, TrabajaEnCurso DEF EnLoPedido
<1>3. ~NadaSeLibera
  BY <1>1, NadaSeDeja
<1>4. /\ meta' = meta /\ indice' = indice
      /\ \E paso \in {"trunc_bajar", "trunc_stat", "trunc_liberar", "trunc_meta"} : \E l : Ir(h, paso, l)
  BY DEF TruncBajar, TruncStat, TruncLiberar, TruncSigue, Enlazar, PonerBitmap, disco
<1>5. /\ pc'[h] \in {"trunc_bajar", "trunc_stat", "trunc_liberar", "trunc_meta"} /\ pedido' = pedido
  BY <1>1, <1>4, DelHilo, EfectoDeIr
<1>6. CarpetaPaso(h)
  BY <1>1, <1>2, <1>4, CarpetaQuieta
<1> QED
  BY <1>1, <1>2, <1>3, <1>4, <1>5, <1>6, SigueTruncando, ArchivosFuera

LEMMA ArchivosTruncMeta ==
  ASSUME Sano, NEW h \in Hilos, TruncMeta(h)
  PROVE  ArchivosOK'
<1> DEFINE f == pedido[h].f
           n == pedido[h].n
           S == [i \in 1..n |-> BloqueDe(f, i - 1)]
           m == [meta[f] EXCEPT !.tam = n, !.blocks = S]
<1>1. InvBloques /\ pc[h] = "trunc_meta" /\ EnTruncate(h)
  BY DeSano DEF TruncMeta, EnTruncate
<1>2. f \in Archivos /\ ~SinCandado(pedido[h]) /\ meta \in [Archivos -> Metas] /\ meta[f] \in Metas
      /\ n \in Nat /\ Nombrados(pedido[h]) = {f}
  BY <1>1, EnElTruncate, DelHilo, DelPedido DEF DiscoOK, Nombrados
<1>3. EnLoPedido(h) /\ dato' = dato /\ Suyos(h)
  BY <1>1, <1>2, TrabajaCorto DEF EnLoPedido
<1>4. PonerMeta(f, m) /\ Resultado(h, TRUE)
  BY DEF TruncMeta
<1>5. m.blocks = S /\ m.estado = meta[f].estado
  BY <1>2 DEF Metas
<1>6. meta' = [meta EXCEPT ![f] = m] /\ logico' = logico /\ indice' = indice
  BY <1>4 DEF PonerMeta
<1>7. \A p \in Pagina : p < Len(S) => S[p + 1] = BloqueDe(f, p)
  <2>1. Len(S) = n
    BY <1>2
  <2>2. \A p \in Pagina : p < n => p + 1 \in 1..n /\ (p + 1) - 1 = p
    BY <1>2 DEF Pagina
  <2> QED
    BY <2>1, <2>2
<1> HIDE DEF S, m
<1>8. NombraIgual
  <2> SUFFICES ASSUME NEW g \in Archivos, NEW p \in Pagina, NEW b \in Comun, Nombra(g, p, b)'
               PROVE  Nombra(g, p, b)
    BY DEF NombraIgual
  <2>1. Nombra(g, p, b) \/ (g = f /\ p < Len(m.blocks) /\ m.blocks[p + 1] = b)
    BY <1>1, <1>2, <1>6, NombraMeta
  <2>2. b # 0
    BY DEF Comun
  <2>3. CASE f = g /\ p < Len(S) /\ S[p + 1] = b
    BY <1>7, <2>2, <2>3 DEF Nombra, BloqueDe
  <2> QED
    BY <1>5, <2>1, <2>3
<1>9. CarpetaPaso(h)
  <2>1. meta'[f].estado = meta[f].estado
    BY <1>2, <1>5, <1>6
  <2> QED
    BY <1>1, <1>2, <1>3, <2>1, CarpetaQuieta
<1> QED
  BY <1>1, <1>3, <1>4, <1>6, <1>8, <1>9, AlResponder, ArchivosFuera DEF NombraIgual

\* TAG
LEMMA ArchivosTag ==
  ASSUME Sano, NEW h \in Hilos, Tag(h), ~SinCandado(pedido[h])
  PROVE  ArchivosOK'
<1> DEFINE o == pedido[h].f
           d == pedido[h].d
           m == [SinMeta EXCEPT !.estado = "carpeta"]
<1>1. InvBloques /\ pc[h] = "entrar" /\ pedido[h].op = "TAG"
  BY DeSano DEF Tag, Empieza
<1>2. EnLoPedido(h) /\ dato' = dato /\ Suyos(h)
  BY <1>1, TrabajaCorto DEF EnLoPedido
<1>3. Nombrados(pedido[h]) = {o, d} /\ o \in Archivos /\ d \in Archivos /\ meta \in [Archivos -> Metas]
  BY <1>1, DelPedido, DelHilo DEF Nombrados, DiscoOK
<1>4. CASE Falla(h)
  BY <1>1, <1>2, <1>4, ArchivosFalla
<1>5. CASE ~Falla(h)
  <2>1. /\ meta[o].estado # "ausente" /\ meta[d].estado = "ausente" /\ PonerMeta(d, m)
    BY <1>5 DEF Tag
  <2>2. meta[o].estado # "carpeta"
    BY <1>1, <1>2, <1>3, SinCarpeta
  <2>3. ConMetadata(o)
    <3>1. meta[o].estado \in Estados
      BY <1>3 DEF Metas
    <3> QED
      BY <2>1, <2>2, <3>1 DEF Estados, ConMetadata
  <2>4. Ir(h, "tag_meta", SinLocales)
    BY <1>5, <2>3 DEF Tag
  <2>5. pc'[h] = "tag_meta" /\ pedido' = pedido
    BY <1>1, <2>4, DelHilo, EfectoDeIr
  <2>6. m.blocks = <<>> /\ Len(m.blocks) = 0 /\ meta' = [meta EXCEPT ![d] = m] /\ logico' = logico
        /\ indice' = indice
    BY <2>1 DEF PonerMeta, SinMeta
  <2> HIDE DEF m
  <2>7. meta'[o] = meta[o]
    BY <1>3, <2>1, <2>6
  <2>8. CarpetaPaso(h)
    BY <1>3, <2>2, <2>5, <2>7 DEF CarpetaPaso
  <2>9. ~EnEscritura(h)' /\ ~EnDedup(h)' /\ EstadoOK(h)'
    BY <2>3, <2>5, <2>7 DEF EnEscritura, EnDedup, EstadoOK, EnTruncate, EnCommit, EnTag, PasosDedup, ConMetadata
  <2>10. NombraIgual
    <3>1. \A p \in Pagina : ~(p < Len(m.blocks))
      BY <2>6 DEF Pagina
    <3> QED
      BY <1>1, <1>3, <2>6, <3>1, NombraMeta DEF NombraIgual
  <2> QED
    BY <1>2, <2>6, <2>8, <2>9, <2>10, ArchivosFuera DEF NombraIgual
<1> QED
  BY <1>4, <1>5

LEMMA ArchivosTagMeta ==
  ASSUME Sano, NEW h \in Hilos, TagMeta(h)
  PROVE  ArchivosOK'
<1> DEFINE o == pedido[h].f
           d == pedido[h].d
           m == [meta[o] EXCEPT !.estado = "WORK_IN_PROGRESS"]
<1>1. InvBloques /\ FielOK /\ pc[h] = "tag_meta" /\ EnTag(h) /\ EstadoOK(h)
  BY DeSano DEF TagMeta, EnTag, ArchivosOK
<1>2. /\ o \in Archivos /\ d \in Archivos /\ o # d /\ Nombrados(pedido[h]) = {o, d} /\ ~SinCandado(pedido[h])
      /\ meta \in [Archivos -> Metas]
  BY <1>1, FielEnElTag
<1>3. EnLoPedido(h) /\ dato' = dato
  BY <1>1, <1>2, TrabajaCorto
<1>4. PonerMeta(d, m) /\ Ir(h, "tag_link", SinLocales)
  BY DEF TagMeta
<1>5. pc'[h] = "tag_link" /\ pedido' = pedido
  BY <1>1, <1>4, DelHilo, EfectoDeIr
<1>6. m.blocks = meta[o].blocks /\ m.estado = "WORK_IN_PROGRESS"
  BY <1>2 DEF Metas
<1>7. meta' = [meta EXCEPT ![d] = m] /\ logico' = logico /\ indice' = indice
  BY <1>4 DEF PonerMeta
<1> HIDE DEF m
<1>8. meta'[d] = m /\ meta'[o] = meta[o] /\ ConMetadata(o)
  BY <1>1, <1>2, <1>7 DEF EstadoOK
<1>9. CarpetaPaso(h)
  BY <1>2, <1>6, <1>8 DEF CarpetaPaso, ConMetadata
<1>10. ~EnEscritura(h)' /\ ~EnDedup(h)' /\ EstadoOK(h)'
  BY <1>5, <1>6, <1>8 DEF EnEscritura, EnDedup, EstadoOK, EnTruncate, EnCommit, EnTag, PasosDedup, ConMetadata
<1>11. ASSUME NEW f \in Archivos, NEW p \in Pagina, NEW b \in Comun, Nombra(f, p, b)'
       PROVE  Nombra(f, p, b) \/ \E q \in Pagina : EnTag(h) /\ Nombra(o, q, b)
  BY <1>1, <1>2, <1>6, <1>7, <1>11, NombraMeta DEF Nombra
<1> QED
  BY <1>3, <1>7, <1>9, <1>10, <1>11, ArchivosFuera

LEMMA ArchivosTagLink ==
  ASSUME Sano, NEW h \in Hilos, TagLink(h)
  PROVE  ArchivosOK'
<1> DEFINE o == pedido[h].f
           d == pedido[h].d
           k == loc[h].pag
<1>1. InvBloques /\ FielOK /\ Intacto /\ pc[h] = "tag_link" /\ EnTag(h) /\ EstadoOK(h)
  BY DeSano DEF TagLink, EnTag, ArchivosOK
<1>2. /\ o \in Archivos /\ d \in Archivos /\ o # d /\ Nombrados(pedido[h]) = {o, d} /\ ~SinCandado(pedido[h])
      /\ Suyos(h)
  BY <1>1, FielEnElTag
<1>3. EnLoPedido(h) /\ dato' = dato
  BY <1>1, TrabajaEnCurso
<1>4. Enlazar(d, k, logico[o][k]) /\ \E l : Ir(h, "responder", l) \/ Ir(h, "tag_link", l)
  BY DEF TagLink, Resultado
<1>5. pc'[h] \in {"responder", "tag_link"} /\ pedido' = pedido
  BY <1>1, <1>4, DelHilo, EfectoDeIr
<1>6. logico' = [logico EXCEPT ![d][k] = logico[o][k]] /\ meta' = meta /\ indice' = indice
  BY <1>4 DEF Enlazar
<1>7. CarpetaPaso(h)
  BY <1>1, <1>2, <1>6, CarpetaQuieta
<1>8. ~EnEscritura(h)' /\ ~EnDedup(h)' /\ EstadoOK(h)'
  BY <1>1, <1>5, <1>6 DEF EnEscritura, EnDedup, EstadoOK, EnTruncate, EnCommit, EnTag, PasosDedup, ConMetadata
<1>9. ASSUME NEW f \in Archivos, NEW p \in Pagina, NEW b \in Comun, Nombra(f, p, b)'
      PROVE  Nombra(f, p, b) \/ \E q \in Pagina : EnTag(h) /\ Nombra(o, q, b)
  <2>1. Nombra(f, p, b) \/ (p = k /\ logico[o][k] = b)
    <3>1. InvBloques /\ d \in Archivos /\ logico' = [logico EXCEPT ![d][k] = logico[o][k]] /\ meta' = meta
      BY <1>1, <1>2, <1>6
    <3> QED
      BY <1>9, <3>1, NombraEnlace
  <2>2. p = k /\ logico[o][k] = b => Nombra(o, p, b)
    BY DEF Nombra
  <2> QED
    BY <1>1, <2>1, <2>2
<1> QED
  BY <1>3, <1>6, <1>7, <1>8, <1>9, ArchivosFuera

\* FLUSH and WRITE_BLOCK
LEMMA ArchivosEscribiendo ==
  ASSUME Sano, NEW h \in Hilos, EnLoPedido(h), Escribe(h), EnEscritura(h), EnEscritura(h)',
         meta'[pedido[h].f].estado = meta[pedido[h].f].estado, indice' = indice,
         EscrituraOK(h)', CopiaOK(h)', NadaSeLibera => NombraDeAntes(h)
  PROVE  ArchivosOK'
<1>1. /\ pc[h] \notin {"crear_meta", "tag_meta"} /\ InvBloques
      /\ ~EnTag(h)' /\ ~EnTruncate(h)' /\ ~EnCommit(h)' /\ ~EnDedup(h)' /\ ~Achica(h)'
  BY DeSano DEF EnEscritura, EnTag, EnTruncate, EnCommit, EnDedup, PasosDedup, Achica
<1>2. pedido' = pedido /\ Nombrados(pedido[h]) = {pedido[h].f}
  BY <1>1, OtrosHilos, EnLaEscritura DEF Nombrados
<1>3. CarpetaPaso(h)
  BY <1>1, <1>2, CarpetaQuieta DEF EnLoPedido
<1>4. EstadoOK(h)' /\ DedupOK(h)'
  BY <1>1, <1>2, EstadoSigue DEF DedupOK, EnDedup, PasosDedup
<1> QED
  BY <1>3, <1>4, ArchivosPaso

LEMMA ArchivosEscribir ==
  ASSUME Sano, NEW h \in Hilos, Flush(h) \/ EscribirBloque(h)
  PROVE  ArchivosOK'
<1> DEFINE f == pedido[h].f
           l == [SinLocales EXCEPT !.cola = pedido[h].paginas]
<1>1. InvBloques /\ pc[h] = "entrar" /\ pedido[h].op \in {"FLUSH", "WRITE"}
  BY DeSano DEF Flush, EscribirBloque, Escribir, Empieza
<1>2. ~SinCandado(pedido[h])
  BY <1>1 DEF SinCandado
<1>3. EnLoPedido(h) /\ dato' = dato
  BY <1>1, <1>2, TrabajaCorto
<1>4. CASE Falla(h)
  BY <1>1, <1>2, <1>3, <1>4, ArchivosFalla
<1>5. CASE ~Falla(h)
  <2>1. /\ meta[f].estado = "WORK_IN_PROGRESS" /\ Ir(h, "pagina", l)
        /\ UNCHANGED <<meta, logico, indice>>
    BY <1>5 DEF Flush, EscribirBloque, Escribir, disco
  <2>2. l.cola = pedido[h].paginas /\ l.pend = <<>>
    BY DEF SinLocales
  <2>3. pc'[h] = "pagina" /\ loc'[h] = l /\ pedido' = pedido
    BY <1>1, <2>1, DelHilo, EfectoDeIr
  <2> HIDE DEF l
  <2>4. EscrituraOK(h)'
    BY <2>2, <2>3 DEF EscrituraOK
  <2>5. EstadoOK(h)' /\ CopiaOK(h)' /\ DedupOK(h)'
    BY <2>1, <2>3 DEF EstadoOK, EnTruncate, EnCommit, EnTag, CopiaOK, DedupOK, EnDedup, PasosDedup
  <2>6. \A b : ~Toma(h, b)'
    BY <2>2, <2>3 DEF Toma, Copia
  <2>7. NombraDeAntes(h)
    BY <2>1, <2>6 DEF NombraDeAntes, Nombra
  <2>8. CarpetaPaso(h)
    BY <1>1, <1>2, <1>3, <2>1, CarpetaQuieta DEF EnLoPedido
  <2>9. Escribe(h)
    BY <1>3 DEF Escribe
  <2> QED
    BY <1>3, <2>1, <2>4, <2>5, <2>7, <2>8, <2>9, ArchivosPaso
<1> QED
  BY <1>4, <1>5

LEMMA ArchivosPrepararPagina ==
  ASSUME Sano, NEW h \in Hilos, PrepararPagina(h)
  PROVE  ArchivosOK'
<1> DEFINE f == pedido[h].f
           p == EnCurso(h)[1]
           l == [loc[h] EXCEPT !.nuevo = PrimerLibre]
           k == [loc[h] EXCEPT !.cola = Tail(loc[h].cola), !.nuevo = 0]
<1>1. InvBloques /\ Intacto /\ FielOK /\ EscrituraOK(h) /\ pc[h] = "pagina" /\ loc[h].cola # <<>>
  BY DeSano DEF PrepararPagina, ArchivosOK
<1>2. /\ f \in Archivos /\ p \in Nat /\ DiscoOK /\ loc[h] \in Locales /\ loc[h].pend = <<>>
      /\ Tail(loc[h].cola) = <<>> /\ EnEscritura(h)
  BY <1>1, FielEnCurso
<1>3. EnLoPedido(h) /\ dato' = dato /\ Escribe(h)
  BY <1>1, TrabajaEnCurso DEF Escribe
<1>4. meta' = meta /\ logico' = logico /\ indice' = indice
  BY DEF PrepararPagina, PonerBitmap, disco
<1>5. Legible(f, p) => ~Unico(logico[f][p])
  BY <1>1, <1>2, LegibleEs, NuncaUnico DEF Legible
<1>6. NombraIgual
  BY <1>4 DEF NombraIgual, Nombra
<1>7. CASE Saltear(h)
  <2>1. Ir(h, "pagina", k) /\ ok' = [ok EXCEPT ![h] = FALSE]
    BY <1>7 DEF Saltear
  <2>2. k.cola = <<>> /\ k.pend = <<>>
    BY <1>2 DEF Locales
  <2>3. pc'[h] = "pagina" /\ loc'[h] = k /\ pedido' = pedido
    BY <1>1, <2>1, DelHilo, EfectoDeIr
  <2> HIDE DEF k
  <2>4. ok'[h] = FALSE
    BY <1>1, <2>1, DelHilo DEF HilosOK
  <2>5. EscrituraOK(h)' /\ CopiaOK(h)' /\ EnEscritura(h)'
    BY <2>2, <2>3, <2>4 DEF EscrituraOK, CopiaOK, EnEscritura
  <2>6. \A b : ~Toma(h, b)'
    BY <2>2, <2>3 DEF Toma, Copia
  <2>7. NombraDeAntes(h)
    BY <1>6, <2>6 DEF NombraDeAntes, NombraIgual
  <2> QED
    BY <1>2, <1>3, <1>4, <2>5, <2>7, ArchivosEscribiendo
<1>8. CASE Libres # {} /\ Ir(h, "copiar", l) /\ ok' = ok
  <2>1. l.cola = loc[h].cola /\ l.pend = <<>> /\ l.nuevo = PrimerLibre
    BY <1>2 DEF Locales
  <2>2. pc'[h] = "copiar" /\ loc'[h] = l /\ pedido' = pedido
    BY <1>1, <1>8, DelHilo, EfectoDeIr
  <2> HIDE DEF l
  <2>3. EscrituraOK(h)' /\ CopiaOK(h)' /\ EnEscritura(h)'
    <3>1. EnEscritura(h)' /\ CopiaOK(h)'
      BY <2>2 DEF EnEscritura, CopiaOK
    <3>2. loc[h].cola = pedido[h].paginas
      BY <1>1, <1>2 DEF EscrituraOK
    <3>3. EscrituraOK(h)'
      BY <1>1, <2>1, <2>2, <3>2 DEF EscrituraOK
    <3> QED
      BY <3>1, <3>3
  <2>4. PrimerLibre \notin bitmap
    BY <1>8, PrimerLibreEs DEF Libres
  <2>5. \A b : Toma(h, b)' => b = PrimerLibre
    BY <2>1, <2>2 DEF Toma, Copia
  <2>6. Copia(h)'
    BY <2>2 DEF Copia
  <2>7. NombraDeAntes(h)
    BY <1>6, <2>4, <2>5, <2>6 DEF NombraDeAntes, NombraIgual
  <2> QED
    BY <1>2, <1>3, <1>4, <2>3, <2>7, ArchivosEscribiendo
<1> QED
  BY <1>5, <1>7, <1>8 DEF PrepararPagina

LEMMA ArchivosCopiar ==
  ASSUME Sano, NEW h \in Hilos, Copiar(h)
  PROVE  ArchivosOK'
<1> DEFINE f == pedido[h].f
           b == BloqueDe(f, EnCurso(h)[1])
           c == loc[h].nuevo
<1>1. /\ EnLoPedido(h) /\ Escribe(h) /\ Ir(h, "desenlazar", loc[h])
      /\ UNCHANGED <<meta, logico, indice, ok>>
      /\ c \in Comun /\ b \in Bloque /\ b # c /\ dato' = [dato EXCEPT ![c] = dato[b]]
  BY LaCopia
<1>2. InvBloques /\ EscrituraOK(h) /\ pc[h] = "copiar"
  BY DeSano DEF Copiar, ArchivosOK
<1>3. EnEscritura(h) /\ DiscoOK
  BY <1>2, DelHilo DEF EnEscritura
<1>4. pc'[h] = "desenlazar" /\ loc'[h] = loc[h] /\ pedido' = pedido
  BY <1>1, <1>2, DelHilo, EfectoDeIr
<1>5. EscrituraOK(h)' /\ EnEscritura(h)'
  BY <1>1, <1>2, <1>3, <1>4 DEF EscrituraOK, EnEscritura
<1>6. CopiaOK(h)'
  <2>1. EnCurso(h)' = EnCurso(h) /\ BloqueDe(f, EnCurso(h)[1])' = b
    BY <1>1, <1>4 DEF EnCurso, BloqueDe
  <2>2. dato'[c] = dato[b] /\ dato'[b] = dato[b]
    <3>1. c \in Nodo /\ b \in Nodo /\ dato \in [Nodo -> Contenidos]
      BY <1>1, <1>3, BloquesAssumption DEF Comun, Bloque, Nodo, DiscoOK
    <3> HIDE DEF b, c
    <3> QED
      BY <1>1, <3>1
  <2> QED
    BY <1>4, <2>1, <2>2 DEF CopiaOK
<1>7. NombraDeAntes(h)
  <2>1. \A x : Toma(h, x)' <=> Toma(h, x)
    BY <1>2, <1>3, <1>4, <1>5 DEF Toma, Copia
  <2>2. Copia(h)
    BY <1>2 DEF Copia
  <2>3. NombraIgual
    BY <1>1 DEF NombraIgual, Nombra
  <2> QED
    BY <2>1, <2>2, <2>3 DEF NombraDeAntes, NombraIgual
<1> QED
  BY <1>1, <1>3, <1>5, <1>6, <1>7, ArchivosEscribiendo

LEMMA ArchivosDesenlazar ==
  ASSUME Sano, NEW h \in Hilos, Desenlazar(h)
  PROVE  ArchivosOK'
<1> DEFINE f == pedido[h].f
           p == EnCurso(h)[1]
<1>1. InvBloques /\ Intacto /\ EscrituraOK(h) /\ CopiaOK(h) /\ pc[h] = "desenlazar"
      /\ EnEscritura(h) /\ f \in Archivos /\ loc[h].pend = <<>>
  <2>1. /\ InvBloques /\ Intacto /\ EscrituraOK(h) /\ CopiaOK(h) /\ pc[h] = "desenlazar"
        /\ EnEscritura(h) /\ FielOK
    BY DeSano DEF Desenlazar, ArchivosOK, EnEscritura
  <2>2. f \in Archivos /\ loc[h].cola # <<>>
    BY <2>1, EnLaEscritura DEF CursoOK
  <2> QED
    BY <2>1, <2>2, FielEnCurso
<1>2. EnLoPedido(h) /\ dato' = dato /\ Escribe(h)
  BY <1>1, TrabajaEnCurso DEF Escribe
<1>3. /\ logico' = [logico EXCEPT ![f][p] = Nadie] /\ UNCHANGED <<meta, indice, ok>>
      /\ Ir(h, "enlazar", loc[h])
  BY DEF Desenlazar, Enlazar
<1>4. pc'[h] = "enlazar" /\ loc'[h] = loc[h] /\ pedido' = pedido /\ EnCurso(h)' = EnCurso(h)
      /\ BloqueDe(f, p)' = BloqueDe(f, p)
  <2>1. pc'[h] = "enlazar" /\ loc'[h] = loc[h] /\ pedido' = pedido
    BY <1>1, <1>3, DelHilo, EfectoDeIr
  <2>2. EnCurso(h)' = EnCurso(h)
    BY <2>1 DEF EnCurso
  <2> QED
    BY <1>3, <2>1, <2>2 DEF BloqueDe
<1>5. EscrituraOK(h)' /\ EnEscritura(h)'
  BY <1>1, <1>3, <1>4 DEF EscrituraOK, EnEscritura
<1>6. CopiaOK(h)'
  BY <1>1, <1>2, <1>4 DEF CopiaOK
<1>7. NombraDeAntes(h)
  <2>1. \A x : Toma(h, x)' <=> Toma(h, x)
    BY <1>1, <1>4, <1>5 DEF Toma, Copia
  <2>2. Copia(h)
    BY <1>1 DEF Copia
  <2>3. \A g \in Archivos, q \in Pagina, b \in Comun : Nombra(g, q, b)' =>
            Nombra(g, q, b) \/ (g = f /\ q = p /\ Nadie = b)
    <3>1. InvBloques /\ f \in Archivos /\ logico' = [logico EXCEPT ![f][p] = Nadie] /\ meta' = meta
      BY <1>1, <1>3
    <3> HIDE DEF f, p
    <3> QED
      BY <3>1, NombraEnlace
  <2> QED
    BY <2>1, <2>2, <2>3, ComunNoEsNadie DEF NombraDeAntes
<1> QED
  BY <1>1, <1>2, <1>3, <1>5, <1>6, <1>7, ArchivosEscribiendo

LEMMA ArchivosReenlazar ==
  ASSUME Sano, NEW h \in Hilos, Reenlazar(h)
  PROVE  ArchivosOK'
<1> DEFINE f == pedido[h].f
           p == EnCurso(h)[1]
           c == loc[h].nuevo
           x == EnCurso(h)[2]
           e == <<p, c, x>>
           l == ConPendiente(h, c)
           s == pedido[h].paginas
<1>1. InvBloques /\ Intacto /\ FielOK /\ EscrituraOK(h) /\ pc[h] = "enlazar" /\ loc[h].cola # <<>>
  <2>1. InvBloques /\ Intacto /\ FielOK /\ EscrituraOK(h) /\ pc[h] = "enlazar"
    BY DeSano DEF Reenlazar, ArchivosOK
  <2> QED
    BY <2>1, DelHilo DEF CursoOK
<1>2. /\ f \in Archivos /\ loc[h] \in Locales /\ loc[h].pend = <<>> /\ Tail(loc[h].cola) = <<>>
      /\ EnEscritura(h) /\ ObraEscritura(h)
  BY <1>1, FielEnCurso
<1>3. EnLoPedido(h) /\ dato' = dato /\ Escribe(h)
  BY <1>1, TrabajaEnCurso DEF Escribe
<1>4. nodo[c] = c /\ c # Nadie
  BY <1>1, <1>2, CamposDe, BloquesAssumption, SMTT(30) DEF Intacto, Bloque
<1>5. /\ logico' = [logico EXCEPT ![f][p] = c] /\ UNCHANGED <<meta, indice, ok>> /\ Ir(h, "pagina", l)
  BY <1>4 DEF Reenlazar, Enlazar
<1>6. pc'[h] = "pagina" /\ loc'[h] = l /\ pedido' = pedido
  BY <1>1, <1>5, DelHilo, EfectoDeIr
<1>7. l.cola = <<>> /\ l.pend = <<e>>
  <2>1. l.cola = Tail(loc[h].cola) /\ l.pend = Append(loc[h].pend, e)
    BY <1>2 DEF ConPendiente, Locales
  <2> QED
    BY <1>2, <2>1
<1>8. Len(<<e>>) = 1 /\ <<e>> # <<>> /\ <<e>>[1] = e /\ e[1] = p /\ e[2] = c /\ e[3] = x /\ DOMAIN <<e>> = {1}
  OBVIOUS
<1>9. Len(s) = 1 /\ s[1] = <<p, x>>
  <2>1. loc[h].cola = s /\ Len(loc[h].cola) = 1
    BY <1>1, <1>2 DEF EscrituraOK, ObraEscritura
  <2>2. loc[h].cola \in Seq(Nat \X Contenidos)
    BY <1>2, CamposDe
  <2>3. Head(loc[h].cola) = loc[h].cola[1] /\ loc[h].cola[1] \in Nat \X Contenidos
    BY <2>1, <2>2
  <2>4. EnCurso(h) \in Nat \X Contenidos /\ EnCurso(h) = s[1]
    BY <2>1, <2>3 DEF EnCurso
  <2>5. EnCurso(h) = <<p, x>>
    BY <2>4
  <2> QED
    BY <2>1, <2>4, <2>5
<1> HIDE DEF e, l, s
<1>10. EscrituraOK(h)' /\ EnEscritura(h)' /\ CopiaOK(h)'
  <2>1. EnEscritura(h)' /\ CopiaOK(h)'
    BY <1>6 DEF EnEscritura, CopiaOK
  <2>2. \A q \in Pagina : logico'[f][q] = c => q = p
    <3>1. Toma(h, c) /\ Copia(h) /\ c \in Comun
      BY <1>1, <1>2, DelHilo, CamposDe DEF Toma, Copia, CursoOK, Comun
    <3>2. \A q \in Pagina : logico[f][q] # c
      BY <1>2, <3>1, AjenosVale DEF Ajenos, Guarda
    <3>3. \A q \in Pagina : q # p => logico'[f][q] = logico[f][q]
      BY <1>1, <1>2, <1>5, DelHilo DEF DiscoOK
    <3> QED
      BY <3>2, <3>3
  <2>3. EscrituraOK(h)'
    BY <1>6, <1>7, <1>8, <1>9, <2>2 DEF EscrituraOK, s
  <2> QED
    BY <2>1, <2>3
<1>11. NombraDeAntes(h)
  <2>1. \A b : Toma(h, b)' => b = c
    BY <1>6, <1>7, <1>8 DEF Toma, Copia
  <2>2. Toma(h, c) /\ ~Copia(h)'
    BY <1>1, <1>6 DEF Toma, Copia
  <2>3. \A g \in Archivos, q \in Pagina, b \in Comun : Nombra(g, q, b)' =>
            Nombra(g, q, b) \/ (g = f /\ q = p /\ c = b)
    <3>1. InvBloques /\ f \in Archivos /\ logico' = [logico EXCEPT ![f][p] = c] /\ meta' = meta
      BY <1>1, <1>2, <1>5
    <3> HIDE DEF f, p, c
    <3> QED
      BY <3>1, NombraEnlace
  <2> QED
    BY <2>1, <2>2, <2>3 DEF NombraDeAntes
<1> QED
  BY <1>2, <1>3, <1>5, <1>10, <1>11, ArchivosEscribiendo

LEMMA ArchivosGuardarBlocks ==
  ASSUME Sano, NEW h \in Hilos, GuardarBlocks(h)
  PROVE  ArchivosOK'
<1> DEFINE f == pedido[h].f
           B == meta[f].blocks
           e == loc[h].pend
           S == Guardados(h, B)
           m == IF ok[h] THEN [meta[f] EXCEPT !.blocks = S] ELSE meta[f]
<1>1. InvBloques /\ FielOK /\ EscrituraOK(h) /\ pc[h] = "pagina" /\ loc[h].cola = <<>> /\ EnEscritura(h)
  BY DeSano DEF GuardarBlocks, ArchivosOK, EnEscritura
<1>2. EnLoPedido(h) /\ dato' = dato /\ Escribe(h)
  BY <1>1, DeSano, TrabajaEnCurso DEF Escribe
<1>3. /\ Ir(h, "escribir", loc[h]) /\ UNCHANGED <<logico, indice, ok>>
      /\ meta' = [meta EXCEPT ![f] = m]
  BY DEF GuardarBlocks, PonerMeta, Guardados
<1>4. /\ f \in Archivos /\ meta \in [Archivos -> Metas] /\ meta[f] \in Metas /\ B \in Seq(Bloque)
      /\ e \in Seq(Pagina \X Bloque \X Contenidos) /\ Len(B) \in Nat
  BY <1>1, EnLaEscritura, CamposDe, DelArchivo
<1>5. e # <<>> => Len(e) = 1 /\ ok[h] /\ e[1][1] < Len(B) /\ logico[f] = Salvo(B, e[1][1], e[1][2])
  BY <1>1 DEF FielOK, ObraOK, ObraEscritura
<1>6. Len(e) <= 1
  <2>1. Len(<<>>) = 0 /\ 0 <= 1 /\ 1 <= 1
    OBVIOUS
  <2> QED
    BY <1>5, <2>1
<1>7. /\ e = <<>> => S = B
      /\ e # <<>> => S = [B EXCEPT ![e[1][1] + 1] = e[1][2]]
  BY <1>4, <1>6, BlocksGuardados
<1> HIDE DEF S
<1>8. m.estado = meta[f].estado /\ m.blocks = IF e = <<>> THEN B ELSE [B EXCEPT ![e[1][1] + 1] = e[1][2]]
  BY <1>4, <1>5, <1>7 DEF Metas
<1>9. meta'[f] = m
  BY <1>3, <1>4
<1> HIDE DEF m
<1>10. pc'[h] = "escribir" /\ loc'[h] = loc[h] /\ pedido' = pedido
  BY <1>1, <1>3, DelHilo, EfectoDeIr
<1>11. e # <<>> => /\ e[1][1] \in Pagina /\ e[1][2] \in Bloque /\ Len(m.blocks) = Len(B)
                   /\ logico[f][e[1][1]] = e[1][2]
                   /\ \A q \in Pagina : q < Len(B) => m.blocks[q + 1] = IF q = e[1][1] THEN e[1][2] ELSE B[q + 1]
  <2> SUFFICES ASSUME e # <<>>
               PROVE  /\ e[1][1] \in Pagina /\ e[1][2] \in Bloque /\ Len(m.blocks) = Len(B)
                      /\ logico[f][e[1][1]] = e[1][2]
                      /\ \A q \in Pagina : q < Len(B) => m.blocks[q + 1] = IF q = e[1][1] THEN e[1][2] ELSE B[q + 1]
    OBVIOUS
  <2>1. e[1] \in Pagina \X Bloque \X Contenidos
    BY <1>4, <1>5
  <2>2. e[1][1] \in Pagina /\ e[1][2] \in Bloque
    BY <2>1
  <2>3. logico[f][e[1][1]] = e[1][2]
    BY <1>5, <2>2 DEF Salvo, Completos, Links
  <2>4. m.blocks = Puesto(B, e[1][1] + 1, e[1][2])
    BY <1>8 DEF Puesto
  <2>5. e[1][1] \in Nat /\ e[1][1] < Len(B)
    BY <1>5, <2>2, BloquesAssumption DEF Pagina
  <2>6. /\ Len(m.blocks) = Len(B)
        /\ \A q \in Pagina : q < Len(B) => m.blocks[q + 1] = IF q = e[1][1] THEN e[1][2] ELSE B[q + 1]
    <3>1. \A y : \A k \in Nat : k < Len(B) =>
              /\ Len(Puesto(B, k + 1, y)) = Len(B)
              /\ \A q \in Pagina : q < Len(B) => Puesto(B, k + 1, y)[q + 1] = IF q = k THEN y ELSE B[q + 1]
      BY <1>4, PuestoEs
    <3> QED
      BY <2>4, <2>5, <3>1
  <2> QED
    BY <2>2, <2>3, <2>6
<1>12. EscrituraOK(h)' /\ EnEscritura(h)' /\ CopiaOK(h)'
  <2>1. EnEscritura(h)' /\ CopiaOK(h)'
    BY <1>10 DEF EnEscritura, CopiaOK
  <2>2. EscrituraOK(h)'
    BY <1>1, <1>3, <1>5, <1>9, <1>10, <1>11 DEF EscrituraOK
  <2> QED
    BY <2>1, <2>2
<1>13. NombraDeAntes(h)
  <2>1. \A b : Toma(h, b)' <=> Toma(h, b)
    BY <1>1, <1>10, <1>12 DEF Toma, Copia
  <2>2. ~Copia(h)'
    BY <1>10 DEF Copia
  <2>3. e # <<>> => Toma(h, e[1][2])
    BY <1>1, <1>4, <1>5 DEF Toma
  <2>4. \A g \in Archivos, q \in Pagina, b \in Comun : Nombra(g, q, b)' =>
            Nombra(g, q, b) \/ (g = f /\ q < Len(m.blocks) /\ m.blocks[q + 1] = b)
    <3>1. InvBloques /\ f \in Archivos /\ meta' = [meta EXCEPT ![f] = m] /\ logico' = logico
      BY <1>1, <1>3, <1>4
    <3> QED
      BY <3>1, NombraMeta
  <2>5. \A q \in Pagina, b \in Comun : q < Len(m.blocks) /\ m.blocks[q + 1] = b => Nombra(f, q, b) \/ Toma(h, b)
    BY <1>8, <1>11, <2>3 DEF Nombra
  <2> QED
    BY <2>1, <2>2, <2>4, <2>5 DEF NombraDeAntes
<1> QED
  BY <1>1, <1>2, <1>3, <1>8, <1>9, <1>12, <1>13, ArchivosEscribiendo

LEMMA ArchivosEscribirPendiente ==
  ASSUME Sano, NEW h \in Hilos, EscribirPendiente(h)
  PROVE  ArchivosOK'
<1> DEFINE l == [loc[h] EXCEPT !.pend = <<>>]
<1>1. /\ EnLoPedido(h) /\ Escribe(h) /\ Ir(h, "escribir", l)
      /\ UNCHANGED <<meta, logico, indice>> /\ pc[h] = "escribir"
  BY LaPendiente
<1>2. InvBloques /\ EnEscritura(h)
  BY <1>1, DeSano DEF EnEscritura
<1>3. pc'[h] = "escribir" /\ loc'[h] = l /\ pedido' = pedido
  BY <1>1, <1>2, DelHilo, EfectoDeIr
<1>4. l.pend = <<>>
  BY <1>2, DelHilo DEF Locales
<1> HIDE DEF l
<1>5. EscrituraOK(h)' /\ EnEscritura(h)' /\ CopiaOK(h)'
  BY <1>3, <1>4 DEF EscrituraOK, CopiaOK, EnEscritura
<1>6. NombraDeAntes(h)
  <2>1. \A b : ~Toma(h, b)'
    BY <1>3, <1>4 DEF Toma, Copia
  <2>2. NombraIgual
    BY <1>1 DEF NombraIgual, Nombra
  <2> QED
    BY <2>1, <2>2 DEF NombraDeAntes, NombraIgual
<1> QED
  BY <1>1, <1>2, <1>5, <1>6, ArchivosEscribiendo
\* COMMIT
LEMMA ArchivosDedup ==
  ASSUME Sano, NEW h \in Hilos, EnLoPedido(h), pedido[h].op = "COMMIT", pedido[h] \in mezcla,
         pc[h] \notin {"crear_meta", "tag_meta"}, ConMetadata(pedido[h].f),
         UNCHANGED <<meta, dato, indice>>, pc'[h] \in PasosDedup, NEW l, loc'[h] = l,
         \A c \in Contenidos : l.idx[c] # Nadie => dato[l.idx[c]] = c,
         pc'[h] = "dedup_link" => dato[l.lista[l.pag + 1]] = dato[meta[pedido[h].f].blocks[l.pag + 1]]
  PROVE  ArchivosOK'
<1>1. pedido' = pedido /\ ~NadaSeLibera /\ Escribe(h)
  BY DeSano, OtrosHilos DEF NadaSeLibera, Escribe
<1>2. CarpetaPaso(h)
  BY CarpetaQuieta DEF EnLoPedido
<1>3. ~EnTruncate(h)' /\ ~EnEscritura(h)' /\ ~EnTag(h)' /\ pc'[h] \notin {"tag_link", "desenlazar", "enlazar"}
  BY DEF EnTruncate, EnEscritura, EnTag, PasosDedup
<1>4. EstadoOK(h)' /\ EscrituraOK(h)' /\ CopiaOK(h)'
  <2>1. EstadoOK(h)'
    BY <1>1, <1>3 DEF EstadoOK, ConMetadata, EnTruncate
  <2>2. EscrituraOK(h)'
    BY <1>3 DEF EscrituraOK, EnEscritura
  <2>3. CopiaOK(h)'
    BY <1>3 DEF CopiaOK
  <2> QED
    BY <2>1, <2>2, <2>3
<1>5. DedupOK(h)'
  BY <1>1 DEF DedupOK
<1> QED
  BY <1>1, <1>2, <1>4, <1>5, ArchivosPaso

LEMMA ArchivosCommit ==
  ASSUME Sano, NEW h \in Hilos, Commit(h)
  PROVE  ArchivosOK'
<1> DEFINE f == pedido[h].f
           l == [SinLocales EXCEPT !.lista = meta[f].blocks, !.idx = indice]
<1>1. InvBloques /\ pc[h] = "entrar" /\ pedido[h].op = "COMMIT" /\ ~SinCandado(pedido[h]) /\ HashOK
  BY DeSano DEF Commit, Empieza, SinCandado, ArchivosOK
<1>2. EnLoPedido(h) /\ dato' = dato
  BY <1>1, TrabajaCorto
<1>3. UNCHANGED <<meta, logico, indice>>
  BY DEF Commit, Falla, disco
<1>4. pedido[h] \in mezcla
  BY <1>1, DelHilo DEF OpOK
<1>5. CASE \E r : Resultado(h, r)
  BY <1>1, <1>2, <1>3, <1>5, AlResponder, ArchivosQuieto
<1>6. CASE Ir(h, "commit_estado", SinLocales) /\ meta[f].estado = "WORK_IN_PROGRESS"
  <2>1. pc'[h] = "commit_estado" /\ pedido' = pedido
    BY <1>1, <1>6, DelHilo, EfectoDeIr
  <2>2. ~EnEscritura(h)' /\ ~EnDedup(h)' /\ EstadoOK(h)'
    BY <1>3, <1>6, <2>1 DEF EnEscritura, EnDedup, EstadoOK, EnTruncate, EnCommit, EnTag, PasosDedup, ConMetadata
  <2> QED
    BY <1>1, <1>2, <1>3, <2>2, ArchivosQuieto
<1>7. CASE Ir(h, "dedup_pag", l) /\ meta[f].estado = "WORK_IN_PROGRESS"
  <2>1. pc'[h] = "dedup_pag" /\ loc'[h] = l /\ pc'[h] \in PasosDedup
    BY <1>1, <1>7, DelHilo, EfectoDeIr DEF PasosDedup
  <2>2. l.idx = indice
    BY DEF SinLocales
  <2> HIDE DEF l
  <2>3. \A c \in Contenidos : l.idx[c] # Nadie => dato[l.idx[c]] = c
    BY <1>1, <2>2 DEF HashOK
  <2>4. ConMetadata(f)
    BY <1>7 DEF ConMetadata
  <2> QED
    BY <1>1, <1>2, <1>3, <1>4, <2>1, <2>3, <2>4, ArchivosDedup
<1> QED
  BY <1>5, <1>6, <1>7 DEF Commit, Falla

\* Inside the deduplication.
LEMMA EnPlenoDedup ==
  ASSUME Sano, NEW h \in Hilos, EnDedup(h)
  PROVE  /\ InvBloques /\ Intacto /\ OcupadoOK /\ Apartadas /\ DedupOK(h)
         /\ pedido[h].op = "COMMIT" /\ pedido[h] \in mezcla /\ ConMetadata(pedido[h].f)
         /\ pc[h] \notin {"crear_meta", "tag_meta"} /\ loc[h] \in Locales /\ DiscoOK
<1>1. EnCommit(h) /\ InvBloques /\ Intacto /\ OcupadoOK /\ Apartadas /\ DedupOK(h) /\ EstadoOK(h)
  BY DeSano DEF EnDedup, EnCommit, ArchivosOK
<1>2. pedido[h].op = "COMMIT" /\ pedido[h] \in mezcla /\ loc[h] \in Locales /\ DiscoOK
  BY <1>1, EnElCommit
<1>3. pc[h] \notin {"crear_meta", "tag_meta"}
  BY DEF EnDedup, PasosDedup
<1> QED
  BY <1>1, <1>2, <1>3 DEF EstadoOK

\* A step inside of it that leaves the index as it was loaded.
LEMMA ArchivosDedupSigue ==
  ASSUME Sano, NEW h \in Hilos, EnDedup(h), EnLoPedido(h), UNCHANGED <<meta, dato, indice>>,
         NEW paso \in PasosDedup \ {"dedup_link"}, NEW l, Ir(h, paso, l), l.idx = loc[h].idx
  PROVE  ArchivosOK'
<1>1. /\ InvBloques /\ DedupOK(h) /\ pedido[h].op = "COMMIT" /\ pedido[h] \in mezcla
      /\ ConMetadata(pedido[h].f) /\ pc[h] \notin {"crear_meta", "tag_meta"}
  BY EnPlenoDedup
<1>2. pc'[h] = paso /\ loc'[h] = l
  BY <1>1, DelHilo, EfectoDeIr
<1> QED
  BY <1>1, <1>2, ArchivosDedup DEF DedupOK

LEMMA ArchivosDedupPag ==
  ASSUME Sano, NEW h \in Hilos, DedupPag(h)
  PROVE  ArchivosOK'
<1> DEFINE f == pedido[h].f
           p == loc[h].pag
           b == meta[f].blocks[p + 1]
           e == Indexado(h, b)
<1>1. pc[h] = "dedup_pag" /\ p < Len(meta[f].blocks) /\ EnDedup(h)
  BY DEF DedupPag, EnDedup, PasosDedup
<1>2. /\ InvBloques /\ Intacto /\ OcupadoOK /\ Apartadas /\ DedupOK(h) /\ pedido[h].op = "COMMIT"
      /\ pedido[h] \in mezcla /\ ConMetadata(f) /\ pc[h] \notin {"crear_meta", "tag_meta"}
      /\ loc[h] \in Locales /\ DiscoOK
  BY <1>1, EnPlenoDedup
<1>3. /\ p \in Pagina /\ b \in Bloque /\ nodo[b] = b /\ dato[b] \in Contenidos
      /\ e = loc[h].idx[dato[b]] /\ p < Len(loc[h].lista)
  BY <1>1, <1>2, LaDeTurno
<1>4. EnLoPedido(h) /\ UNCHANGED <<meta, dato, indice>>
  <2>1. EnLoPedido(h) /\ dato' = dato
    BY <1>2, TrabajaEnCurso
  <2> QED
    BY <2>1 DEF DedupPag, Enlazar, disco
<1>5. /\ loc[h].idx \in [Contenidos -> Bloque \cup {Nadie}] /\ loc[h].lista \in Seq(Bloque) /\ p \in Nat
      /\ "dedup_pag" \in PasosDedup \ {"dedup_link"} /\ "dedup_link" \in PasosDedup
  BY <1>1, <1>2, EnMedioDelDedup DEF PasosDedup
<1>6. CASE DedupSigue(h, loc[h])
  <2>1. PICK k : Ir(h, "dedup_pag", k) /\ k.idx = loc[h].idx
    BY <1>2, <1>6, SigueEs
  <2> QED
    BY <1>1, <1>4, <1>5, <2>1, ArchivosDedupSigue
<1>7. CASE DedupSigue(h, [loc[h] EXCEPT !.modif = TRUE])
  <2> DEFINE l == [loc[h] EXCEPT !.modif = TRUE]
  <2>1. l \in Locales /\ l.idx = loc[h].idx
    BY <1>2, ConModif DEF Locales
  <2>2. DedupSigue(h, l)
    BY <1>7
  <2> HIDE DEF l
  <2>3. PICK k : Ir(h, "dedup_pag", k) /\ k.idx = l.idx
    BY <2>1, <2>2, SigueEs
  <2> QED
    BY <1>1, <1>4, <1>5, <2>1, <2>3, ArchivosDedupSigue
<1>8. CASE e = Nadie /\ DedupSigue(h, [loc[h] EXCEPT !.idx[dato[nodo[b]]] = b])
  <2> DEFINE c == dato[b]
             l == PoneIndice(loc[h], c, b)
  <2>0. dato[b] = c
    OBVIOUS
  <2> HIDE DEF b, c
  <2>1. l \in Locales
    BY <1>2, <1>3, ConIndice
  <2>2. l.idx = [loc[h].idx EXCEPT ![c] = b]
    BY <1>2 DEF PoneIndice, Locales
  <2>3. DedupSigue(h, l)
    BY <1>3, <1>8, <2>0 DEF PoneIndice
  <2> HIDE DEF l
  <2>4. PICK k : Ir(h, "dedup_pag", k) /\ k.idx = l.idx
    BY <2>1, <2>3, SigueEs
  <2>5. pc'[h] = "dedup_pag" /\ loc'[h] = k
    BY <1>2, <2>4, DelHilo, EfectoDeIr
  <2>6. \A d \in Contenidos : k.idx[d] # Nadie => dato[k.idx[d]] = d
    <3>1. \A d \in Contenidos : k.idx[d] = IF d = c THEN b ELSE loc[h].idx[d]
      BY <1>5, <2>2, <2>4
    <3> QED
      BY <1>1, <1>2, <2>0, <3>1 DEF DedupOK
  <2> QED
    BY <1>2, <1>4, <1>5, <2>5, <2>6, ArchivosDedup
<1>9. CASE e \notin {Nadie, b} /\ Ir(h, "dedup_link", [loc[h] EXCEPT !.lista[p + 1] = e, !.modif = TRUE])
  <2> DEFINE k == Cambia(loc[h], p + 1, e)
  <2>1. Ir(h, "dedup_link", k)
    BY <1>9 DEF Cambia
  <2>2. k.lista = Puesto(loc[h].lista, p + 1, e) /\ k.pag = p /\ k.idx = loc[h].idx
    <3> HIDE DEF e
    <3> QED
      BY <1>2 DEF Cambia, Puesto, Locales
  <2>3. k.lista[p + 1] = e
    <3> HIDE DEF k, e
    <3>1. loc[h].lista \in Seq(Bloque) /\ p \in Nat /\ p < Len(loc[h].lista)
      BY <1>3, <1>5
    <3>2. \A q \in Pagina : q < Len(loc[h].lista) => k.lista[q + 1] = IF q = p THEN e ELSE loc[h].lista[q + 1]
      BY <2>2, <3>1, PuestoEs
    <3> QED
      BY <1>3, <3>2
  <2>4. dato[e] = dato[b]
    BY <1>1, <1>2, <1>3, <1>9 DEF DedupOK
  <2>5. pc'[h] = "dedup_link" /\ loc'[h] = k
    <3> HIDE DEF k
    <3> QED
      BY <1>2, <2>1, DelHilo, EfectoDeIr
  <2>6. \A c \in Contenidos : k.idx[c] # Nadie => dato[k.idx[c]] = c
    <3> HIDE DEF k
    <3> QED
      BY <1>1, <1>2, <2>2 DEF DedupOK
  <2>7. dato[k.lista[k.pag + 1]] = dato[meta[f].blocks[k.pag + 1]]
    <3>1. b = meta[f].blocks[p + 1]
      OBVIOUS
    <3> HIDE DEF k, e, b
    <3> QED
      BY <2>2, <2>3, <2>4, <3>1
  <2>8. /\ EnLoPedido(h) /\ UNCHANGED <<meta, dato, indice>> /\ pedido[h].op = "COMMIT"
        /\ pedido[h] \in mezcla /\ pc[h] \notin {"crear_meta", "tag_meta"} /\ ConMetadata(pedido[h].f)
        /\ pc'[h] \in PasosDedup
    BY <1>2, <1>4, <1>5, <2>5
  <2> HIDE DEF k
  <2> QED
    BY <2>5, <2>6, <2>7, <2>8, ArchivosDedup
<1> QED
  BY <1>6, <1>7, <1>8, <1>9 DEF DedupPag

LEMMA ArchivosDedupResto ==
  ASSUME Sano, NEW h \in Hilos, DedupLink(h) \/ DedupBit(h) \/ DedupPersistir(h)
  PROVE  ArchivosOK'
<1> DEFINE e == loc[h].lista[loc[h].pag + 1]
<1>1. EnDedup(h)
  BY DEF DedupLink, DedupBit, DedupPersistir, EnDedup, PasosDedup
<1>2. InvBloques /\ Intacto /\ loc[h] \in Locales /\ OcupadoOK /\ Apartadas
  BY <1>1, EnPlenoDedup
<1>3. EnLoPedido(h) /\ UNCHANGED <<meta, dato, indice>>
  <2>1. EnLoPedido(h) /\ dato' = dato
    BY <1>2, TrabajaEnCurso
  <2> QED
    BY <2>1 DEF DedupLink, DedupBit, DedupPersistir, Enlazar, PonerBitmap, PersistirBitmap, disco
<1>4. PICK paso \in PasosDedup \ {"dedup_link"} : \E l : Ir(h, paso, l) /\ l.idx = loc[h].idx
  <2>1. CASE DedupLink(h)
    <3>1. e \in Bloque
      <4>1. loc[h].lista \in Seq(Bloque) /\ loc[h].pag + 1 \in 1..Len(loc[h].lista)
        BY <1>1, <1>2, <2>1, EnMedioDelDedup DEF DedupLink
      <4> QED
        BY <4>1
    <3>2. nodo[e] # Nadie
      BY <1>2, <3>1, BloquesAssumption DEF Intacto, Bloque
    <3> QED
      BY <2>1, <3>2 DEF DedupLink, PasosDedup
  <2>2. CASE DedupBit(h)
    BY <2>2 DEF DedupBit, PasosDedup
  <2>3. CASE DedupPersistir(h)
    <3>1. \E k : Ir(h, "dedup_pag", k) /\ k.idx = loc[h].idx
      BY <1>2, <2>3, SigueEs DEF DedupPersistir
    <3> QED
      BY <3>1 DEF PasosDedup
  <2> QED
    BY <2>1, <2>2, <2>3
<1> QED
  BY <1>1, <1>3, <1>4, ArchivosDedupSigue

LEMMA ArchivosDedupGuardar ==
  ASSUME Sano, NEW h \in Hilos, DedupGuardar(h)
  PROVE  ArchivosOK'
<1> DEFINE f == pedido[h].f
<1>1. /\ pc[h] = "dedup_pag" /\ EnDedup(h) /\ Ir(h, "commit_estado", SinLocales) /\ indice' = loc[h].idx
  BY DEF DedupGuardar, EnDedup, PasosDedup
<1>2. /\ InvBloques /\ Intacto /\ DedupOK(h) /\ ConMetadata(f) /\ DiscoOK /\ f \in Archivos
      /\ meta \in [Archivos -> Metas] /\ pc[h] \notin {"crear_meta", "tag_meta"}
  BY <1>1, EnPlenoDedup, EnMedioDelDedup DEF DiscoOK
<1>3. EnLoPedido(h) /\ dato' = dato /\ Escribe(h)
  BY <1>2, TrabajaEnCurso DEF Escribe
<1>4. meta'[f].estado = meta[f].estado /\ \A g \in Archivos \ {f} : meta'[g] = meta[g]
  BY <1>2 DEF DedupGuardar, Metas
<1>5. pc'[h] = "commit_estado" /\ pedido' = pedido
  BY <1>1, <1>2, DelHilo, EfectoDeIr
<1>6. ~NadaSeLibera
  BY <1>1, NadaSeDeja
<1>7. CarpetaPaso(h)
  <2>1. \A g \in Nombrados(pedido[h]) : g \in Archivos => meta'[g].estado = meta[g].estado
    BY <1>4
  <2> QED
    BY <1>2, <1>3, <2>1, CarpetaQuieta DEF EnLoPedido
<1>8. HashOK'
  BY <1>1, <1>2, <1>3 DEF HashOK, DedupOK
<1>9. ~EnTruncate(h)' /\ ~EnEscritura(h)' /\ ~EnTag(h)' /\ ~EnDedup(h)'
      /\ pc'[h] \notin {"tag_link", "desenlazar", "enlazar", "dedup_link"}
  BY <1>5 DEF EnTruncate, EnEscritura, EnTag, EnDedup, PasosDedup
<1>10. EstadoOK(h)'
  BY <1>2, <1>4, <1>5, <1>9 DEF EstadoOK, ConMetadata
<1>11. EscrituraOK(h)' /\ CopiaOK(h)' /\ DedupOK(h)'
  <2>1. EscrituraOK(h)'
    BY <1>9 DEF EscrituraOK, EnEscritura
  <2> QED
    BY <1>9, <2>1 DEF CopiaOK, DedupOK
<1> QED
  BY <1>1, <1>3, <1>6, <1>7, <1>8, <1>10, <1>11, ArchivosPaso

LEMMA ArchivosCommitEstado ==
  ASSUME Sano, NEW h \in Hilos, CommitEstado(h)
  PROVE  ArchivosOK'
<1> DEFINE f == pedido[h].f
           m == [meta[f] EXCEPT !.estado = "COMMITED"]
<1>1. /\ pc[h] = "commit_estado" /\ EnCommit(h) /\ InvBloques /\ Ir(h, "commit_persistir", SinLocales)
      /\ PonerMeta(f, m)
  BY DeSano DEF CommitEstado, EnCommit
<1>2. f \in Archivos /\ ~SinCandado(pedido[h]) /\ DiscoOK /\ Suyos(h) /\ Nombrados(pedido[h]) = {f}
      /\ meta \in [Archivos -> Metas]
  BY <1>1, EnElCommit DEF DiscoOK, Nombrados
<1>3. EnLoPedido(h) /\ dato' = dato
  BY <1>1, <1>2, TrabajaCorto
<1>4. meta'[f].estado = "COMMITED" /\ indice' = indice
  BY <1>1, <1>2 DEF PonerMeta, Metas
<1>5. pc'[h] = "commit_persistir" /\ pedido' = pedido
  BY <1>1, DelHilo, EfectoDeIr
<1>6. ~NadaSeLibera
  BY <1>1, NadaSeDeja
<1>7. CarpetaPaso(h)
  BY <1>2, <1>4 DEF CarpetaPaso
<1>8. ~EnEscritura(h)' /\ ~EnDedup(h)' /\ EstadoOK(h)'
  BY <1>4, <1>5 DEF EnEscritura, EnDedup, EstadoOK, EnTruncate, EnCommit, EnTag, PasosDedup, ConMetadata
<1> QED
  BY <1>3, <1>4, <1>6, <1>7, <1>8, ArchivosFuera
-------------------------------------------------------------------------------
(* And so does every other step. *)

\* Nothing changes but threads outside of any operation.
LEMMA ArchivosAparte ==
  ASSUME ArchivosOK, UNCHANGED <<meta, logico, dato, indice, mezcla>>,
         \A g \in Hilos : \/ pc'[g] = pc[g] /\ loc'[g] = loc[g] /\ ok'[g] = ok[g] /\ pedido'[g] = pedido[g]
                          \/ ~Adentro(g) /\ ~Adentro(g)'
  PROVE  ArchivosOK'
<1>1. ASSUME NEW g \in Hilos, ~Adentro(g)' PROVE EstadoOK(g)' /\ EscrituraOK(g)' /\ CopiaOK(g)' /\ DedupOK(g)'
  <2>1. /\ ~EnTruncate(g)' /\ ~EnEscritura(g)' /\ ~EnCommit(g)' /\ ~EnTag(g)' /\ ~EnDedup(g)'
        /\ pc'[g] \notin {"tag_link", "pagina", "escribir", "desenlazar", "enlazar", "dedup_link"}
    BY <1>1 DEF Adentro, EnTruncate, EnEscritura, EnCommit, EnTag, EnDedup, PasosDedup
  <2> QED
    BY <2>1 DEF EnTruncate, EstadoOK, EscrituraOK, CopiaOK, DedupOK
<1>2. ASSUME NEW g \in Hilos, pc'[g] = pc[g], loc'[g] = loc[g], ok'[g] = ok[g], pedido'[g] = pedido[g]
      PROVE  EstadoOK(g)' /\ EscrituraOK(g)' /\ CopiaOK(g)' /\ DedupOK(g)'
  <2>1. EstadoOK(g) /\ EscrituraOK(g) /\ CopiaOK(g) /\ DedupOK(g)
    BY DEF ArchivosOK
  <2>2. EstadoOK(g)'
    <3>1. /\ EnTruncate(g)' = EnTruncate(g) /\ EnEscritura(g)' = EnEscritura(g)
          /\ EnCommit(g)' = EnCommit(g) /\ EnTag(g)' = EnTag(g)
      BY <1>2 DEF EnTruncate, EnEscritura, EnCommit, EnTag
    <3> QED
      BY <1>2, <2>1, <3>1 DEF EstadoOK, ConMetadata
  <2>3. EscrituraOK(g)'
    BY <1>2, <2>1 DEF EscrituraOK, EnEscritura
  <2>4. CopiaOK(g)'
    BY <1>2, <2>1 DEF CopiaOK, EnCurso, BloqueDe
  <2>5. DedupOK(g)'
    BY <1>2, <2>1 DEF DedupOK, EnDedup
  <2> QED
    BY <2>2, <2>3, <2>4, <2>5
<1>3. ASSUME NEW g \in Hilos, NEW b, Toma(g, b)'
      PROVE  Toma(g, b) /\ pedido'[g] = pedido[g] /\ (Copia(g)' <=> Copia(g))
  <2>1. Adentro(g)'
    BY <1>3 DEF Toma, Copia, Adentro, EnEscritura
  <2>2. pc'[g] = pc[g] /\ loc'[g] = loc[g] /\ pedido'[g] = pedido[g]
    BY <2>1
  <2> QED
    BY <1>3, <2>2 DEF Toma, Copia, EnEscritura
<1>4. NadaSeLibera' => Nuevos' /\ indice' = SinIndice'
  <2> SUFFICES ASSUME NadaSeLibera' PROVE Nuevos' /\ indice' = SinIndice'
    OBVIOUS
  <2>1. Nuevos /\ indice = SinIndice /\ SinIndice' = SinIndice /\ Comun' = Comun
    BY DEF NadaSeLibera, ArchivosOK, SinIndice, Comun
  <2>2. \A f, p, b : Nombra(f, p, b)' <=> Nombra(f, p, b)
    BY DEF Nombra
  <2> QED
    BY <1>3, <2>1, <2>2 DEF Nuevos
<1>5. CarpetaOK'
  <2> SUFFICES ASSUME NEW f \in Archivos, meta[f].estado = "carpeta"
               PROVE  \E g \in Hilos : \/ pc'[g] = "crear_meta" /\ pedido'[g].f = f
                                       \/ pc'[g] = "tag_meta" /\ pedido'[g].d = f
    BY DEF CarpetaOK
  <2>1. PICK g \in Hilos : \/ pc[g] = "crear_meta" /\ pedido[g].f = f
                           \/ pc[g] = "tag_meta" /\ pedido[g].d = f
    BY DEF ArchivosOK, CarpetaOK
  <2>2. Adentro(g)
    BY <2>1 DEF Adentro
  <2> QED
    BY <2>1, <2>2
<1>6. HashOK'
  BY DEF ArchivosOK, HashOK
<1>7. \A g \in Hilos : EstadoOK(g)' /\ EscrituraOK(g)' /\ CopiaOK(g)' /\ DedupOK(g)'
  BY <1>1, <1>2
<1> QED
  BY <1>4, <1>5, <1>6, <1>7 DEF ArchivosOK

LEMMA ArchivosPedir ==
  ASSUME InvBloques, ArchivosOK, NEW h \in Hilos, Pedir(h) \/ Responder(h)
  PROVE  ArchivosOK'
<1>1. HilosOK
  BY DEF InvBloques
<1>2. /\ UNCHANGED <<meta, logico, dato, indice, mezcla>>
      /\ pc'[h] \in {"libre", "entrar"} /\ pc[h] \in {"libre", "responder"}
  BY <1>1 DEF Pedir, Responder, disco, entorno, HilosOK
<1>3. \A g \in Hilos \ {h} : pc'[g] = pc[g] /\ loc'[g] = loc[g] /\ ok'[g] = ok[g] /\ pedido'[g] = pedido[g]
  BY <1>1 DEF Pedir, Responder, HilosOK
<1> QED
  BY <1>2, <1>3, ArchivosAparte DEF Adentro

\* A TAG of initial_file:BASE is refused.
LEMMA ArchivosTagBase ==
  ASSUME InvBloques, ArchivosOK, NEW h \in Hilos, Tag(h), SinCandado(pedido[h])
  PROVE  ArchivosOK'
<1>1. Falla(h) /\ pc[h] = "entrar"
  BY DEF Tag, Empieza, SinCandado
<1>2. /\ UNCHANGED <<meta, logico, dato, indice>> /\ Ir(h, "responder", SinLocales)
      /\ ok' = [ok EXCEPT ![h] = FALSE]
  BY <1>1 DEF Falla, Resultado, disco
<1>3. /\ pc'[h] = "responder" /\ pedido' = pedido /\ mezcla' = mezcla
      /\ \A g \in Hilos \ {h} : pc'[g] = pc[g] /\ loc'[g] = loc[g] /\ ok'[g] = ok[g]
  BY <1>2, DelHilo, EfectoDeIr DEF HilosOK
<1> QED
  BY <1>1, <1>2, <1>3, ArchivosAparte DEF Adentro

LEMMA ArchivosOperacion ==
  ASSUME Sano, NEW h \in Hilos, Operacion(h)
  PROVE  ArchivosOK'
<1>1. InvBloques /\ SinDelete /\ ArchivosOK
  BY DeSano
<1>2. ~(\/ Eliminar(h) \/ DelUnlink(h) \/ DelStat(h) \/ DelFisico(h) \/ DelBit(h)
        \/ DelPersistir(h) \/ DelRm(h))
  BY <1>1, SinOperacionDelete
<1>3. CASE Crear(h) \/ CrearMeta(h) \/ Leer(h) \/ Tag(h) \/ TagMeta(h) \/ TagLink(h)
  BY <1>1, <1>3, ArchivosCrear, ArchivosLeer, ArchivosTag, ArchivosTagBase, ArchivosTagMeta, ArchivosTagLink
<1>4. CASE Truncar(h) \/ TruncCrecer(h) \/ TruncBajar(h) \/ TruncStat(h) \/ TruncLiberar(h)
           \/ TruncMeta(h)
  BY <1>4, ArchivosTruncar, ArchivosTruncCrecer, ArchivosTruncBajar, ArchivosTruncMeta
<1>5. CASE \/ Flush(h) \/ EscribirBloque(h) \/ PrepararPagina(h) \/ Copiar(h) \/ Desenlazar(h)
           \/ Reenlazar(h) \/ GuardarBlocks(h) \/ EscribirPendiente(h) \/ TerminarEscritura(h)
  BY <1>5, ArchivosEscribir, ArchivosPrepararPagina, ArchivosCopiar, ArchivosDesenlazar,
     ArchivosReenlazar, ArchivosGuardarBlocks, ArchivosEscribirPendiente, ArchivosLeer
<1>6. CASE \/ Commit(h) \/ DedupPag(h) \/ DedupLink(h) \/ DedupBit(h) \/ DedupPersistir(h)
           \/ DedupGuardar(h) \/ CommitEstado(h) \/ CommitPersistir(h)
  BY <1>6, ArchivosCommit, ArchivosDedupPag, ArchivosDedupResto, ArchivosDedupGuardar,
     ArchivosCommitEstado, ArchivosLeer
<1> QED
  BY <1>2, <1>3, <1>4, <1>5, <1>6 DEF Operacion

LEMMA ArchivosAlInicio == Init => ArchivosOK
<1> SUFFICES ASSUME Init PROVE ArchivosOK
  OBVIOUS
<1>1. ASSUME NEW h \in Hilos
      PROVE  /\ EstadoOK(h) /\ EscrituraOK(h) /\ CopiaOK(h) /\ DedupOK(h)
             /\ \A b : ~Toma(h, b)
  <2>1. pc[h] = "libre"
    BY DEF Init
  <2>2. ~EnTruncate(h) /\ ~EnEscritura(h) /\ ~EnCommit(h) /\ ~EnTag(h) /\ ~EnDedup(h) /\ ~Copia(h)
    BY <2>1 DEF EnTruncate, EnEscritura, EnCommit, EnTag, EnDedup, PasosDedup, Copia
  <2> QED
    BY <2>1, <2>2 DEF EstadoOK, EscrituraOK, CopiaOK, DedupOK, Toma
<1>2. Nuevos
  BY <1>1 DEF Nuevos
<1>3. CarpetaOK
  BY DEF Init, CarpetaOK, SinMeta
<1>4. indice = SinIndice /\ HashOK
  BY DEF Init, HashOK, SinIndice
<1> QED
  BY <1>1, <1>2, <1>3, <1>4 DEF ArchivosOK

\* No operation names initial_file:BASE but to refuse it or to read it.
LEMMA BaseQuieta ==
  ASSUME InvBloques, NEW h \in Hilos, Operacion(h)
  PROVE  meta'[Base] = meta[Base]
<1>1. HilosOK /\ DiscoOK /\ BaseOK /\ OpOK(h)
  BY DelHilo
<1>2. \A f \in Archivos \ {Base} : \A m : PonerMeta(f, m) => meta'[Base] = meta[Base]
  BY <1>1 DEF PonerMeta, DiscoOK
<1>3. meta[Base].estado = "COMMITED"
  BY <1>1 DEF BaseOK
<1>4. CASE Adentro(h)
  <2>1. pedido[h].f \in Archivos \ {Base} /\ (EnTag(h) => pedido[h].d \in Archivos \ {Base})
    BY <1>1, <1>4, DelPedido DEF OpOK, Adentro, EnTag
  <2>2. CASE CrearMeta(h) \/ TruncMeta(h) \/ GuardarBlocks(h) \/ CommitEstado(h)
    BY <1>2, <2>1, <2>2 DEF CrearMeta, TruncMeta, GuardarBlocks, CommitEstado
  <2>3. CASE TagMeta(h)
    BY <1>2, <2>1, <2>3 DEF TagMeta, EnTag
  <2>4. CASE DedupGuardar(h) \/ DelRm(h)
    <3>1. Base \in Archivos /\ meta \in [Archivos -> Metas]
      BY <1>1, BloquesAssumption DEF DiscoOK
    <3>2. \/ meta' = [meta EXCEPT ![pedido[h].f] = SinMeta]
          \/ \E B : meta' = [meta EXCEPT ![pedido[h].f].blocks = B]
      BY <2>4 DEF DedupGuardar, DelRm
    <3> QED
      BY <2>1, <3>1, <3>2
  <2>5. CASE \/ TruncCrecer(h) \/ TruncBajar(h) \/ TruncStat(h) \/ TruncLiberar(h) \/ TagLink(h)
             \/ PrepararPagina(h) \/ Copiar(h) \/ Desenlazar(h) \/ Reenlazar(h)
             \/ EscribirPendiente(h) \/ TerminarEscritura(h) \/ DedupPag(h) \/ DedupLink(h)
             \/ DedupBit(h) \/ DedupPersistir(h) \/ CommitPersistir(h)
             \/ DelUnlink(h) \/ DelStat(h) \/ DelFisico(h) \/ DelBit(h) \/ DelPersistir(h)
    BY <2>5 DEF TruncCrecer, TruncBajar, TruncStat, TruncLiberar, TagLink, PrepararPagina, Copiar,
       Desenlazar, Reenlazar, EscribirPendiente, TerminarEscritura, DedupPag, DedupLink, DedupBit,
       DedupPersistir, CommitPersistir, DelUnlink, DelStat, DelFisico, DelBit, DelPersistir,
       Enlazar, PonerBitmap, PersistirBitmap, Falla, disco
  <2>6. CASE \/ Crear(h) \/ Truncar(h) \/ Tag(h) \/ Leer(h) \/ Flush(h) \/ EscribirBloque(h)
             \/ Commit(h) \/ Eliminar(h)
    BY <1>4, <2>6 DEF Crear, Truncar, Tag, Leer, Flush, EscribirBloque, Escribir, Commit, Eliminar,
       Empieza, Adentro
  <2> QED
    BY <2>2, <2>3, <2>4, <2>5, <2>6 DEF Operacion
<1>5. CASE ~Adentro(h)
  <2>1. CASE Crear(h)
    <3>1. pc[h] # "libre"
      BY <2>1 DEF Crear, Empieza
    <3>2. pedido[h].f \in Archivos
      BY <3>1, DelPedido
    <3>3. CASE meta[pedido[h].f].estado # "ausente"
      BY <2>1, <3>3 DEF Crear, Falla, disco
    <3>4. CASE meta[pedido[h].f].estado = "ausente"
      <4>1. PonerMeta(pedido[h].f, [SinMeta EXCEPT !.estado = "carpeta"]) /\ pedido[h].f # Base
        BY <1>3, <2>1, <3>4 DEF Crear
      <4> QED
        BY <1>2, <3>2, <4>1
    <3> QED
      BY <3>3, <3>4
  <2>2. CASE Tag(h)
    <3>1. pc[h] # "libre" /\ pedido[h].op = "TAG"
      BY <2>2 DEF Tag, Empieza
    <3>2. pedido[h].d \in Archivos
      BY <3>1, DelPedido
    <3>3. Falla(h) \/ (meta[pedido[h].d].estado = "ausente"
                        /\ PonerMeta(pedido[h].d, [SinMeta EXCEPT !.estado = "carpeta"]))
      BY <2>2 DEF Tag
    <3> QED
      BY <1>2, <1>3, <3>2, <3>3 DEF Falla, disco
  <2>3. CASE \/ Truncar(h) \/ Leer(h) \/ Flush(h) \/ EscribirBloque(h) \/ Commit(h) \/ Eliminar(h)
    BY <2>3 DEF Truncar, Leer, Flush, EscribirBloque, Escribir, Commit, Eliminar, Falla, disco
  <2>4. CASE ~(\/ Crear(h) \/ Truncar(h) \/ Tag(h) \/ Leer(h) \/ Flush(h) \/ EscribirBloque(h)
               \/ Commit(h) \/ Eliminar(h))
    <3>1. Adentro(h)
      BY <2>4 DEF Operacion, Adentro, CrearMeta, TruncMeta, GuardarBlocks, CommitEstado, TagMeta,
         DedupGuardar, DelRm, TruncCrecer, TruncBajar, TruncStat, TruncLiberar, TagLink,
         PrepararPagina, Copiar, Desenlazar, Reenlazar, EscribirPendiente, TerminarEscritura,
         DedupPag, DedupLink, DedupBit, DedupPersistir, CommitPersistir, DelUnlink, DelStat,
         DelFisico, DelBit, DelPersistir
    <3> QED
      BY <1>5, <3>1
  <2> QED
    BY <2>1, <2>2, <2>3, <2>4
<1> QED
  BY <1>4, <1>5

InvArchivos == InvFiel /\ InvOcupado /\ BaseVacia /\ (SinTropiezos => ArchivosOK)

\* All that the steps rely on.
LEMMA EstaSano == InvArchivos /\ SinTropiezos => Sano
BY DEF InvArchivos, InvFiel, InvOcupado, InvIntacto, SinTropiezos, Supuestos, Sano

\* The requests and the crashes that there have been are those of the hypotheses all along.
LEMMA TropiezosDeAntes ==
  ASSUME InvArchivos, [Next]_vars, SinTropiezos'
  PROVE  SinTropiezos /\ ~Caer
<1>1. caidas \in Nat
  BY DEF InvArchivos, InvFiel
<1>2. ~Caer
  <2> SUFFICES ASSUME Caer PROVE FALSE
    OBVIOUS
  <2>1. caidas' = caidas + 1
    BY DEF Caer
  <2> QED
    BY <1>1, <2>1 DEF SinTropiezos, Supuestos
<1>3. mezcla' = mezcla /\ caidas' = caidas
  <2>1. ASSUME NEW h \in Hilos, Operacion(h) PROVE UNCHANGED entorno
    BY <2>1, EntornoIgual
  <2> QED
    BY <1>2, <2>1 DEF Next, Pedir, Responder, vars, entorno
<1> QED
  BY <1>2, <1>3 DEF SinTropiezos, Supuestos, Apartadas, SinDelete, DeAUna, SinTag, NadaSeLibera

LEMMA ArchivosSigue == InvArchivos /\ [Next]_vars => InvArchivos'
<1> SUFFICES ASSUME InvArchivos, [Next]_vars PROVE InvArchivos'
  OBVIOUS
<1>1. InvFiel' /\ InvOcupado' /\ BaseVacia'
  <2>1. InvBloques
    BY DEF InvArchivos, InvFiel, InvIntacto
  <2>2. \/ \E h \in Hilos : Operacion(h)
        \/ UNCHANGED meta
    BY DEF Next, Pedir, Responder, Caer, vars, disco
  <2>3. meta'[Base] = meta[Base]
    BY <2>1, <2>2, BaseQuieta
  <2> QED
    BY <2>3, FielSigue, OcupadoSigue DEF InvArchivos, BaseVacia
<1>2. ASSUME SinTropiezos' PROVE ArchivosOK'
  <2>1. Sano /\ ~Caer
    BY <1>2, TropiezosDeAntes, EstaSano
  <2>2. InvBloques /\ ArchivosOK
    BY <2>1, DeSano
  <2>3. CASE \E h \in Hilos : Operacion(h)
    BY <2>1, <2>3, ArchivosOperacion
  <2>4. CASE \E h \in Hilos : Pedir(h) \/ Responder(h)
    BY <2>2, <2>4, ArchivosPedir
  <2>5. CASE UNCHANGED vars
    <3>1. UNCHANGED <<meta, logico, dato, indice, mezcla, pc, loc, ok, pedido>>
      BY <2>5 DEF vars, disco, entorno
    <3> QED
      BY <2>2, <3>1, ArchivosAparte
  <2> QED
    BY <2>1, <2>3, <2>4, <2>5 DEF Next
<1> QED
  BY <1>1, <1>2 DEF InvArchivos

\* The inductive invariant holds in every state that Storage reaches.
THEOREM ArchivosSiempre == Spec => []InvArchivos
<1>1. Init => InvArchivos
  <2>1. Init => InvIntacto /\ caidas \in Nat
    BY BloquesAlInicio, IntactoAlInicio DEF InvIntacto, Init
  <2>2. Init => BaseVacia
    BY BloquesAssumption DEF Init, BaseVacia
  <2> QED
    BY <2>1, <2>2, FielAlInicio, OcupadoAlInicio, ArchivosAlInicio DEF InvArchivos, InvFiel, InvOcupado
<1>2. InvArchivos /\ [Next]_vars => InvArchivos'
  BY ArchivosSigue
<1> QED
  BY <1>1, <1>2, PTL DEF Spec
===============================================================================
