--------------------------- MODULE BloquesOcupados ---------------------------
(***************************************************************************)
(* A block that a page links is marked used, for every number of threads,  *)
(* file:tags and blocks, as long as TAG, after which two file:tags link    *)
(* one block, is kept apart from what frees the blocks of one of them:     *)
(* COMMIT, which deduplicates them, and a TRUNCATE to fewer pages.         *)
(*                                                                         *)
(* Without TAG a block belongs to one page, from the copy that takes it    *)
(* off the bitmap to the step that gives it back, and what gives it back   *)
(* (Reclama) finds it out of every other hand.  What ends that is the      *)
(* index of hashes: a block it names (Publicado) may be linked by any page *)
(* of a COMMITED file:tag, and is never given back.                        *)
(***************************************************************************)
EXTENDS BloquesPrueba

SinTag == \A p \in mezcla : p.op # "TAG"
NadaSeLibera == \A p \in mezcla : p.op # "COMMIT" /\ (p.op = "TRUNCATE" => p.n = MaxPaginas)
Apartadas == SinDelete /\ caidas = 0 /\ (SinTag \/ NadaSeLibera)

\* Every block but that of initial_file.
Comun == Bloque \ {0}
Achica(h) == pc[h] \in {"trunc_bajar", "trunc_stat", "trunc_liberar"}
EnDedup(h) == pc[h] \in PasosDedup

\* The thread has taken the entry p of BLOCKS off its page, though BLOCKS is not saved yet.
Deja(h, p) ==
    \/ pc[h] = "trunc_bajar" /\ p > loc[h].pag
    \/ pc[h] \in {"trunc_stat", "trunc_liberar"} /\ p >= loc[h].pag
    \/ pc[h] = "trunc_meta" /\ p >= pedido[h].n
    \/ EnDedup(h)
\* The thread is going to save b as the entry p of BLOCKS.
Pone(h, p, b) ==
    \/ EnDedup(h) /\ p < Len(loc[h].lista) /\ loc[h].lista[p + 1] = b
    \/ /\ EnEscritura(h) /\ pc[h] # "escribir"
       /\ \E i \in PendienteDe(h, p) : loc[h].pend[i][2] = b
\* Page p of f keeps block b: it links it, or BLOCKS names it or is going to.
Guarda(f, p, b) ==
    \/ logico[f][p] = b
    \/ /\ p < Len(meta[f].blocks) /\ meta[f].blocks[p + 1] = b
       /\ \A h \in Hilos : pedido[h].f = f => ~Deja(h, p)
    \/ \E h \in Hilos : pedido[h].f = f /\ Pone(h, p, b)

\* The thread has b for itself: a free block it took, or one it is about to give back.
Reclama(h, b) ==
    \/ pc[h] \in {"copiar", "desenlazar", "enlazar"} /\ b = loc[h].nuevo
    \/ pc[h] \in {"trunc_stat", "trunc_liberar"} /\ b = BloqueDe(pedido[h].f, loc[h].pag)
    \/ pc[h] \in {"dedup_link", "dedup_bit"} /\ b = BloqueDe(pedido[h].f, loc[h].pag)

\* The index of hashes names b, on disk or as a COMMIT has it loaded.
Publica(h, b) == EnDedup(h) /\ \E c \in Contenidos : loc[h].idx[c] = b
Publicado(b) == (\E c \in Contenidos : indice[c] = b) \/ \E h \in Hilos : Publica(h, b)

\* The pages that may keep a published block: those of a COMMITED file:tag, and those that a
\* COMMIT has been through.
Exime(h, p) ==
    \/ pc[h] = "commit_estado"
    \/ EnDedup(h) /\ (p < loc[h].pag \/ (p = loc[h].pag /\ pc[h] # "dedup_pag"))
Exenta(f, p) == Commited(f) \/ \E h \in Hilos : pedido[h].f = f /\ Exime(h, p)

Marcados ==
    \A b \in Comun \ bitmap :
        /\ \A f \in Archivos, p \in Pagina : ~Guarda(f, p, b)
        /\ \A h \in Hilos : ~Reclama(h, b)
        /\ ~Publicado(b)
Unicos ==
    \A b \in Comun, f, g \in Archivos, p, q \in Pagina :
        Guarda(f, p, b) /\ Guarda(g, q, b) /\ ~Publicado(b) => f = g /\ p = q
Propios ==
    \A b \in Comun, h \in Hilos : Reclama(h, b) =>
        /\ ~Publicado(b)
        /\ \A f \in Archivos, p \in Pagina : ~Guarda(f, p, b)
        /\ \A g \in Hilos : Reclama(g, b) => g = h
Cerrados ==
    \A b \in Comun, f \in Archivos, p \in Pagina :
        Guarda(f, p, b) /\ Publicado(b) => Exenta(f, p)

\* What a COMMIT has loaded: the entries of BLOCKS it has still to see, and all of the index.
ListaOK(h) ==
    LET B == meta[pedido[h].f].blocks IN
    /\ \A p \in Pagina : /\ p < Len(B)
                         /\ p > loc[h].pag \/ (p = loc[h].pag /\ pc[h] = "dedup_pag")
                         => loc[h].lista[p + 1] = B[p + 1]
    /\ ~loc[h].modif => loc[h].lista = B
    /\ \A c \in Contenidos : indice[c] # Nadie => loc[h].idx[c] = indice[c]
    /\ pc[h] = "dedup_link" => Publica(h, loc[h].lista[loc[h].pag + 1])
PasoOK(h) ==
    /\ pc[h] = "crear_meta" \/ EnTruncate(h) \/ EnDedup(h) => ~Commited(pedido[h].f)
    /\ Achica(h) => loc[h].pag \in Pagina
    /\ EnDedup(h) => ListaOK(h)
UnSoloDedup == \A g, h \in Hilos : EnDedup(g) /\ EnDedup(h) => g = h
LargosOK == \A f \in Archivos : Len(meta[f].blocks) <= MaxPaginas

CursosOK == LargosOK /\ UnSoloDedup /\ \A h \in Hilos : PasoOK(h)
DuenosOK == Marcados /\ (SinTag => Unicos /\ Propios /\ Cerrados)
OcupadoOK == CursosOK /\ DuenosOK
InvOcupado == InvIntacto /\ caidas \in Nat /\ (Apartadas => OcupadoOK)
-------------------------------------------------------------------------------
(* A step of a thread, seen from its own file:tag. *)

\* The same, for the file:tag of a thread that has its mutex.
Propia(h, p, b) ==
    LET f == pedido[h].f IN
    \/ logico[f][p] = b
    \/ p < Len(meta[f].blocks) /\ meta[f].blocks[p + 1] = b /\ ~Deja(h, p)
    \/ Pone(h, p, b)
ExentaPropia(h, p) == Commited(pedido[h].f) \/ Exime(h, p)

LEMMA SoloAdentro ==
  ASSUME NEW h \in Hilos, ~Adentro(h)
  PROVE  /\ \A p : ~Deja(h, p) /\ ~Exime(h, p)
         /\ \A p, b : ~Pone(h, p, b)
         /\ \A b : ~Reclama(h, b) /\ ~Publica(h, b)
BY DEF Adentro, Deja, Exime, Pone, Reclama, Publica, EnDedup, EnEscritura, PasosDedup

\* The other threads inside an operation are on other file:tags.
LEMMA NadieMas ==
  ASSUME InvBloques, NEW h \in Hilos, Suyos(h), ~SinCandado(pedido[h]), NEW g \in Hilos \ {h},
         pedido[g].f \in Nombrados(pedido[h])
  PROVE  ~Adentro(g)
<1> SUFFICES ASSUME Adentro(g) PROVE FALSE
  OBVIOUS
<1>1. pc[g] \notin {"libre", "entrar"} /\ pedido[g].f # Base
  BY DelHilo DEF Adentro, OpOK
<1>2. Tiene(g) = Nombrados(pedido[g])
  BY <1>1, DelPedido DEF Tiene
<1>3. pedido[g].f \in Tiene(g)
  BY <1>2 DEF Nombrados
<1> QED
  BY <1>3 DEF Suyos

LEMMA ElSuyo == \A h \in Hilos : pedido[h].f \in Nombrados(pedido[h])
BY DEF Nombrados

\* What a thread does not touch.
LEMMA OtroHilo ==
  ASSUME NEW h \in Hilos, pc'[h] = pc[h], loc'[h] = loc[h], pedido'[h] = pedido[h]
  PROVE  /\ \A p : (Deja(h, p)' <=> Deja(h, p)) /\ (Exime(h, p)' <=> Exime(h, p))
         /\ \A p, b : Pone(h, p, b)' <=> Pone(h, p, b)
         /\ \A b : Publica(h, b)' <=> Publica(h, b)
         /\ EnDedup(h)' <=> EnDedup(h)
<1>1. EnDedup(h)' <=> EnDedup(h)
  BY DEF EnDedup
<1>2. EnEscritura(h)' <=> EnEscritura(h)
  BY DEF EnEscritura
<1>3. ASSUME NEW p PROVE Deja(h, p)' <=> Deja(h, p)
  BY <1>1 DEF Deja
<1>4. ASSUME NEW p PROVE Exime(h, p)' <=> Exime(h, p)
  BY <1>1 DEF Exime
<1>5. ASSUME NEW p, NEW b PROVE Pone(h, p, b)' <=> Pone(h, p, b)
  BY <1>1, <1>2 DEF Pone, PendienteDe
<1>6. ASSUME NEW b PROVE Publica(h, b)' <=> Publica(h, b)
  BY <1>1 DEF Publica
<1> QED
  BY <1>1, <1>3, <1>4, <1>5, <1>6

LEMMA OtroReclamo ==
  ASSUME NEW h \in Hilos, pc'[h] = pc[h], loc'[h] = loc[h], pedido'[h] = pedido[h],
         Adentro(h) => meta'[pedido[h].f] = meta[pedido[h].f]
  PROVE  \A b : Reclama(h, b)' <=> Reclama(h, b)
<1>1. CASE ~Adentro(h)
  <2>1. ~Adentro(h)'
    BY <1>1 DEF Adentro
  <2> QED
    BY <1>1, <2>1 DEF Adentro, Reclama
<1>2. CASE Adentro(h)
  <2>1. \A p : BloqueDe(pedido[h].f, p)' = BloqueDe(pedido[h].f, p)
    BY <1>2 DEF BloqueDe
  <2> QED
    BY <2>1, <1>2 DEF Reclama, BloqueDe
<1> QED
  BY <1>1, <1>2

\* A step of a thread changes what its own file:tag keeps, and nothing of others.
LEMMA Vista ==
  ASSUME InvBloques, NEW h \in Hilos, Suyos(h), ~SinCandado(pedido[h]), NEW paso, NEW l,
         Ir(h, paso, l),
         \A f \in Archivos \ {pedido[h].f} : meta'[f] = meta[f] /\ logico'[f] = logico[f]
  PROVE  /\ \A f \in Archivos \ {pedido[h].f} : \A p, b : Guarda(f, p, b)' <=> Guarda(f, p, b)
         /\ \A f \in Archivos \ {pedido[h].f} : \A p : Exenta(f, p)' <=> Exenta(f, p)
         /\ \A f \in {pedido[h].f} : \A p, b : /\ Guarda(f, p, b) <=> Propia(h, p, b)
                                               /\ Guarda(f, p, b)' <=> Propia(h, p, b)'
         /\ \A f \in {pedido[h].f} : \A p : /\ Exenta(f, p) <=> ExentaPropia(h, p)
                                            /\ Exenta(f, p)' <=> ExentaPropia(h, p)'
         /\ \A g \in Hilos \ {h} : \A b : /\ Reclama(g, b)' <=> Reclama(g, b)
                                          /\ Publica(g, b)' <=> Publica(g, b)
         /\ pedido' = pedido
<1> DEFINE f0 == pedido[h].f
<1>1. /\ pc'[h] = paso /\ loc'[h] = l /\ pedido' = pedido
      /\ \A g \in Hilos \ {h} : pc'[g] = pc[g] /\ loc'[g] = loc[g]
  BY DelHilo, EfectoDeIr
<1>2. ASSUME NEW g \in Hilos \ {h}
      PROVE  /\ \A p : (Deja(g, p)' <=> Deja(g, p)) /\ (Exime(g, p)' <=> Exime(g, p))
             /\ \A p, b : Pone(g, p, b)' <=> Pone(g, p, b)
             /\ \A b : Publica(g, b)' <=> Publica(g, b)
  BY <1>1, OtroHilo
<1>3. ASSUME NEW g \in Hilos \ {h}, pedido[g].f = f0
      PROVE  /\ \A p : ~Deja(g, p) /\ ~Exime(g, p)
             /\ \A p, b : ~Pone(g, p, b)
  BY <1>3, ElSuyo, NadieMas, SoloAdentro
<1>4. ASSUME NEW f \in Archivos \ {f0}, NEW p
      PROVE  /\ \A b : Guarda(f, p, b)' <=> Guarda(f, p, b)
             /\ Exenta(f, p)' <=> Exenta(f, p)
  <2>1. \A g \in Hilos : pedido[g].f = f => g \in Hilos \ {h}
    OBVIOUS
  <2>2. meta'[f] = meta[f] /\ logico'[f] = logico[f]
    OBVIOUS
  <2>3. ASSUME NEW b PROVE Guarda(f, p, b)' <=> Guarda(f, p, b)
    BY <1>1, <1>2, <2>1, <2>2 DEF Guarda
  <2>4. Exenta(f, p)' <=> Exenta(f, p)
    BY <1>1, <1>2, <2>1, <2>2 DEF Exenta, Commited
  <2> QED
    BY <2>3, <2>4
<1>5. ASSUME NEW f \in {f0}, NEW p
      PROVE  /\ \A b : Guarda(f, p, b) <=> Propia(h, p, b)
             /\ Exenta(f, p) <=> ExentaPropia(h, p)
  BY <1>3 DEF Guarda, Propia, Exenta, ExentaPropia
<1>6. ASSUME NEW f \in {f0}, NEW p
      PROVE  /\ \A b : Guarda(f, p, b)' <=> Propia(h, p, b)'
             /\ Exenta(f, p)' <=> ExentaPropia(h, p)'
  <2>1. ASSUME NEW g \in Hilos \ {h}, pedido[g].f = f0
        PROVE  ~Deja(g, p)' /\ ~Exime(g, p)' /\ \A b : ~Pone(g, p, b)'
    BY <1>2, <1>3, <2>1
  <2>2. ASSUME NEW b PROVE Guarda(f, p, b)' <=> Propia(h, p, b)'
    BY <1>1, <2>1 DEF Guarda, Propia
  <2>3. Exenta(f, p)' <=> ExentaPropia(h, p)'
    BY <1>1, <2>1 DEF Exenta, ExentaPropia
  <2> QED
    BY <2>2, <2>3
<1>7. ASSUME NEW g \in Hilos \ {h} PROVE \A b : Reclama(g, b)' <=> Reclama(g, b)
  <2>1. Adentro(g) => pedido[g].f \in Archivos \ {f0}
    BY ElSuyo, NadieMas, DelPedido DEF Adentro
  <2> QED
    BY <1>1, <2>1, OtroReclamo
<1> QED
  BY <1>1, <1>2, <1>4, <1>5, <1>6, <1>7, Zenon
-------------------------------------------------------------------------------
(* What is left to show of a step. *)

\* A step of h that changes no file:tag but its own, whose mutex it has.
EnLoSuyo(h) ==
    /\ Suyos(h) /\ ~SinCandado(pedido[h]) /\ pedido[h].f \in Archivos
    /\ \E paso, l : Ir(h, paso, l)
    /\ \A f \in Archivos \ {pedido[h].f} : meta'[f] = meta[f] /\ logico'[f] = logico[f]

\* Vista, as the lemmas below take it.
LEMMA VistaPropia ==
  ASSUME InvBloques, NEW h \in Hilos, EnLoSuyo(h)
  PROVE  /\ \A f \in Archivos \ {pedido[h].f} : \A p, b : Guarda(f, p, b)' <=> Guarda(f, p, b)
         /\ \A f \in Archivos \ {pedido[h].f} : \A p : Exenta(f, p)' <=> Exenta(f, p)
         /\ \A f \in {pedido[h].f} : \A p, b : /\ Guarda(f, p, b) <=> Propia(h, p, b)
                                               /\ Guarda(f, p, b)' <=> Propia(h, p, b)'
         /\ \A f \in {pedido[h].f} : \A p : /\ Exenta(f, p) <=> ExentaPropia(h, p)
                                            /\ Exenta(f, p)' <=> ExentaPropia(h, p)'
         /\ \A g \in Hilos \ {h} : \A b : /\ Reclama(g, b)' <=> Reclama(g, b)
                                          /\ Publica(g, b)' <=> Publica(g, b)
         /\ pedido' = pedido /\ mezcla' = mezcla /\ pedido[h].f \in Archivos
<1>1. /\ Suyos(h) /\ ~SinCandado(pedido[h]) /\ pedido[h].f \in Archivos
      /\ \A f \in Archivos \ {pedido[h].f} : meta'[f] = meta[f] /\ logico'[f] = logico[f]
  BY DEF EnLoSuyo
<1>2. PICK paso, l : Ir(h, paso, l)
  BY DEF EnLoSuyo
<1>3. mezcla' = mezcla
  BY <1>2 DEF Ir, entorno
<1> QED
  BY <1>1, <1>2, <1>3, Vista, Zenon

LEMMA OtroPaso ==
  ASSUME NEW g \in Hilos, PasoOK(g), pc'[g] = pc[g], loc'[g] = loc[g], pedido'[g] = pedido[g],
         Adentro(g) => meta'[pedido[g].f] = meta[pedido[g].f], EnDedup(g) => indice' = indice
  PROVE  PasoOK(g)'
<1>1. CASE ~Adentro(g)
  <2>1. ~Adentro(g)'
    BY <1>1 DEF Adentro
  <2> QED
    BY <2>1 DEF PasoOK, Adentro, EnTruncate, EnDedup, PasosDedup, Achica
<1>2. CASE Adentro(g)
  <2>1. EnDedup(g) => ListaOK(g)'
    <3> SUFFICES ASSUME EnDedup(g) PROVE ListaOK(g)'
      OBVIOUS
    <3>1. ListaOK(g)
      BY DEF PasoOK
    <3>2. \A b : Publica(g, b)' <=> Publica(g, b)
      BY OtroHilo
    <3> QED
      BY <1>2, <3>1, <3>2 DEF ListaOK
  <2>2. EnDedup(g)' <=> EnDedup(g)
    BY DEF EnDedup
  <2> QED
    BY <1>2, <2>1, <2>2 DEF PasoOK, EnTruncate, Achica, Commited
<1> QED
  BY <1>1, <1>2

LEMMA CursosPaso ==
  ASSUME InvBloques, CursosOK, NEW h \in Hilos, Suyos(h), ~SinCandado(pedido[h]),
         NEW paso, NEW l, Ir(h, paso, l), PasoOK(h)',
         \A f \in Archivos : \/ meta'[f] = meta[f]
                             \/ f \in Nombrados(pedido[h]) /\ Len(meta'[f].blocks) <= MaxPaginas,
         indice' = indice \/ EnDedup(h), EnDedup(h)' => EnDedup(h) \/ HashLibre
  PROVE  CursosOK'
<1>1. /\ pedido' = pedido /\ mezcla' = mezcla
      /\ \A g \in Hilos \ {h} : pc'[g] = pc[g] /\ loc'[g] = loc[g]
  BY DelHilo, EfectoDeIr
<1>2. \A g \in Hilos \ {h} : EnDedup(g)' <=> EnDedup(g)
  BY <1>1 DEF EnDedup
<1>3. LargosOK'
  BY DEF CursosOK, LargosOK
<1>4. UnSoloDedup'
  <2>1. \A g \in Hilos \ {h} : EnDedup(g) => ~EnDedup(h)'
    BY DEF CursosOK, UnSoloDedup, HashLibre, EnDedup
  <2> QED
    BY <1>2, <2>1 DEF CursosOK, UnSoloDedup
<1>5. ASSUME NEW g \in Hilos \ {h} PROVE PasoOK(g)'
  <2>1. Adentro(g) => pedido[g].f \in Archivos \ Nombrados(pedido[h])
    BY NadieMas, DelPedido DEF Adentro
  <2>2. EnDedup(g) => indice' = indice
    BY DEF CursosOK, UnSoloDedup
  <2> QED
    BY <1>1, <2>1, <2>2, OtroPaso DEF CursosOK
<1> QED
  BY <1>3, <1>4, <1>5 DEF CursosOK

LEMMA PublicadoIgual ==
  ASSUME InvBloques, NEW h \in Hilos, EnLoSuyo(h), indice' = indice,
         EnDedup(h)' <=> EnDedup(h), EnDedup(h) => loc'[h].idx = loc[h].idx
  PROVE  \A b : Publicado(b)' <=> Publicado(b)
<1>1. \A g \in Hilos \ {h} : \A b : Publica(g, b)' <=> Publica(g, b)
  BY VistaPropia
<1>2. \A b : Publica(h, b)' <=> Publica(h, b)
  BY DEF Publica
<1> QED
  BY <1>1, <1>2 DEF Publicado

\* The step gives no page, and no thread, a block it did not have.
LEMMA DuenosQuietos ==
  ASSUME InvBloques, DuenosOK, NEW h \in Hilos, EnLoSuyo(h),
         \A p \in Pagina, b \in Comun : Propia(h, p, b)' => Propia(h, p, b),
         \A b \in Comun : Reclama(h, b)' => Reclama(h, b),
         \A b \in Comun : Publicado(b)' <=> Publicado(b),
         \A p \in Pagina : ExentaPropia(h, p) => ExentaPropia(h, p)',
         bitmap \subseteq bitmap'
  PROVE  DuenosOK'
<1> DEFINE f0 == pedido[h].f
<1>1. /\ \A f \in Archivos, p \in Pagina, b \in Comun : Guarda(f, p, b)' => Guarda(f, p, b)
      /\ \A f \in Archivos, p \in Pagina : Exenta(f, p) => Exenta(f, p)'
      /\ \A g \in Hilos, b \in Comun : Reclama(g, b)' => Reclama(g, b)
  BY VistaPropia
<1>2. SinTag' <=> SinTag
  BY VistaPropia DEF SinTag
<1>3. Marcados'
  BY <1>1 DEF DuenosOK, Marcados, Comun
<1>4. ASSUME SinTag PROVE Unicos' /\ Propios' /\ Cerrados'
  <2>1. Unicos /\ Propios /\ Cerrados
    BY <1>4 DEF DuenosOK
  <2>2. Unicos'
    BY <1>1, <2>1 DEF Unicos, Comun
  <2>3. Propios'
    BY <1>1, <2>1 DEF Propios, Comun
  <2>4. Cerrados'
    BY <1>1, <2>1 DEF Cerrados, Comun
  <2> QED
    BY <2>2, <2>3, <2>4
<1> QED
  BY <1>2, <1>3, <1>4 DEF DuenosOK

\* The thread gives back the block it had for itself.
LEMMA DuenosLibera ==
  ASSUME InvBloques, DuenosOK, SinTag, NEW h \in Hilos, EnLoSuyo(h), NEW x, Reclama(h, x),
         \A b : ~Reclama(h, b)', bitmap' = bitmap \ {x},
         \A p \in Pagina, b \in Comun : Propia(h, p, b)' => Propia(h, p, b),
         \A b \in Comun : Publicado(b)' <=> Publicado(b),
         \A p \in Pagina : ExentaPropia(h, p) => ExentaPropia(h, p)'
  PROVE  DuenosOK'
<1>1. /\ \A f \in Archivos, p \in Pagina, b \in Comun : Guarda(f, p, b)' => Guarda(f, p, b)
      /\ \A f \in Archivos, p \in Pagina : Exenta(f, p) => Exenta(f, p)'
      /\ \A g \in Hilos \ {h}, b \in Comun : Reclama(g, b)' => Reclama(g, b)
  BY VistaPropia
<1>2. Unicos /\ Propios /\ Cerrados /\ Marcados
  BY DEF DuenosOK
<1>3. Marcados'
  <2>1. x \in Comun => /\ ~Publicado(x)
                       /\ \A f \in Archivos, p \in Pagina : ~Guarda(f, p, x)
                       /\ \A g \in Hilos : Reclama(g, x) => g = h
    BY <1>2 DEF Propios
  <2> SUFFICES ASSUME NEW b \in Comun, b \notin bitmap'
               PROVE  /\ \A f \in Archivos, p \in Pagina : ~Guarda(f, p, b)'
                      /\ \A g \in Hilos : ~Reclama(g, b)'
                      /\ ~Publicado(b)'
    BY DEF Marcados, Comun
  <2>2. b \notin bitmap \/ b = x
    OBVIOUS
  <2>3. CASE b = x
    BY <1>1, <2>1, <2>3
  <2>4. CASE b \notin bitmap
    BY <1>1, <1>2, <2>4 DEF Marcados
  <2> QED
    BY <2>2, <2>3, <2>4
<1>4. Unicos'
  BY <1>1, <1>2 DEF Unicos, Comun
<1>5. Propios'
  BY <1>1, <1>2 DEF Propios, Comun
<1>6. Cerrados'
  BY <1>1, <1>2 DEF Cerrados, Comun
<1> QED
  BY <1>3, <1>4, <1>5, <1>6 DEF DuenosOK

\* The thread takes a free block.
LEMMA DuenosReserva ==
  ASSUME InvBloques, DuenosOK, NEW h \in Hilos, EnLoSuyo(h), NEW x \in Comun \ bitmap,
         \A b \in Comun : Reclama(h, b)' => b = x, bitmap' = bitmap \cup {x},
         \A p \in Pagina, b \in Comun : Propia(h, p, b)' => Propia(h, p, b),
         \A b \in Comun : Publicado(b)' <=> Publicado(b),
         \A p \in Pagina : ExentaPropia(h, p) => ExentaPropia(h, p)'
  PROVE  DuenosOK'
<1>1. /\ \A f \in Archivos, p \in Pagina, b \in Comun : Guarda(f, p, b)' => Guarda(f, p, b)
      /\ \A f \in Archivos, p \in Pagina : Exenta(f, p) => Exenta(f, p)'
      /\ \A g \in Hilos \ {h}, b \in Comun : Reclama(g, b)' => Reclama(g, b)
  BY VistaPropia
<1>2. SinTag' <=> SinTag
  BY VistaPropia DEF SinTag
<1>3. Marcados /\ /\ \A f \in Archivos, p \in Pagina : ~Guarda(f, p, x)
                  /\ \A g \in Hilos : ~Reclama(g, x)
                  /\ ~Publicado(x)
  BY DEF DuenosOK, Marcados
<1>4. Marcados'
  BY <1>1, <1>3 DEF Marcados, Comun
<1>5. ASSUME SinTag PROVE Unicos' /\ Propios' /\ Cerrados'
  <2>1. Unicos /\ Propios /\ Cerrados
    BY <1>5 DEF DuenosOK
  <2>2. Unicos'
    BY <1>1, <2>1 DEF Unicos, Comun
  <2>3. Propios'
    BY <1>1, <1>3, <2>1 DEF Propios, Comun
  <2>4. Cerrados'
    BY <1>1, <2>1 DEF Cerrados, Comun
  <2> QED
    BY <2>2, <2>3, <2>4
<1> QED
  BY <1>2, <1>4, <1>5 DEF DuenosOK

\* The block of a page passes to the thread, which is going to give it back.
LEMMA DuenosEntrega ==
  ASSUME InvBloques, DuenosOK, SinTag, NEW h \in Hilos, EnLoSuyo(h), NEW p0 \in Pagina, NEW x,
         x \in Comun => Propia(h, p0, x), ~ExentaPropia(h, p0),
         \A b \in Comun : Reclama(h, b)' => b = x, bitmap' = bitmap,
         \A p \in Pagina, b \in Comun : Propia(h, p, b)' =>
             \/ Propia(h, p, b) /\ ~(p = p0 /\ b = x)
             \/ Publicado(b) /\ ExentaPropia(h, p)',
         \A b \in Comun : Publicado(b)' <=> Publicado(b),
         \A p \in Pagina : ExentaPropia(h, p) => ExentaPropia(h, p)'
  PROVE  DuenosOK'
<1> DEFINE f0 == pedido[h].f
<1>1. /\ \A f \in Archivos, p \in Pagina, b \in Comun : Guarda(f, p, b)' =>
             \/ Guarda(f, p, b) /\ ~(f = f0 /\ p = p0 /\ b = x)
             \/ Publicado(b) /\ Exenta(f, p)'
      /\ \A f \in Archivos, p \in Pagina : Exenta(f, p) => Exenta(f, p)'
      /\ \A g \in Hilos \ {h}, b \in Comun : Reclama(g, b)' => Reclama(g, b)
      /\ f0 \in Archivos /\ (x \in Comun => Guarda(f0, p0, x)) /\ ~Exenta(f0, p0)
  BY VistaPropia
<1>2. Unicos /\ Propios /\ Cerrados /\ Marcados
  BY DEF DuenosOK
<1>3. x \in Comun => ~Publicado(x) /\ x \in bitmap /\ \A g \in Hilos : ~Reclama(g, x)
  BY <1>1, <1>2 DEF Cerrados, Marcados, Propios
<1>4. x \in Comun => \A f \in Archivos, p \in Pagina : ~Guarda(f, p, x)'
  BY <1>1, <1>2, <1>3 DEF Unicos
<1>5. Marcados'
  BY <1>1, <1>2, <1>3 DEF Marcados, Comun
<1>6. Unicos'
  BY <1>1, <1>2 DEF Unicos, Comun
<1>7. Propios'
  <2> SUFFICES ASSUME NEW b \in Comun, NEW g \in Hilos, Reclama(g, b)'
               PROVE  /\ ~Publicado(b)'
                      /\ \A f \in Archivos, p \in Pagina : ~Guarda(f, p, b)'
                      /\ \A k \in Hilos : Reclama(k, b)' => k = g
    BY DEF Propios, Comun
  <2>1. CASE g = h
    <3>1. b = x
      BY <2>1
    <3> QED
      BY <1>1, <1>3, <1>4, <2>1, <3>1
  <2>2. CASE g # h
    <3>1. Reclama(g, b) /\ b # x
      BY <1>1, <1>3, <2>2
    <3>2. /\ ~Publicado(b)
          /\ \A f \in Archivos, p \in Pagina : ~Guarda(f, p, b)
          /\ \A k \in Hilos : Reclama(k, b) => k = g
      BY <1>2, <3>1 DEF Propios
    <3> QED
      BY <1>1, <3>1, <3>2
  <2> QED
    BY <2>1, <2>2
<1>8. Cerrados'
  BY <1>1, <1>2 DEF Cerrados, Comun
<1> QED
  BY <1>5, <1>6, <1>7, <1>8 DEF DuenosOK

\* The thread links to a page the block it had for itself.
LEMMA DuenosToma ==
  ASSUME InvBloques, DuenosOK, NEW h \in Hilos, EnLoSuyo(h), NEW p0 \in Pagina, NEW x,
         Reclama(h, x), \A b : ~Reclama(h, b)', bitmap' = bitmap,
         \A p \in Pagina, b \in Comun : Propia(h, p, b)' => Propia(h, p, b) \/ (p = p0 /\ b = x),
         \A b \in Comun : Publicado(b)' <=> Publicado(b),
         \A p \in Pagina : ExentaPropia(h, p) => ExentaPropia(h, p)'
  PROVE  DuenosOK'
<1> DEFINE f0 == pedido[h].f
<1>1. /\ \A f \in Archivos, p \in Pagina, b \in Comun : Guarda(f, p, b)' =>
             Guarda(f, p, b) \/ (f = f0 /\ p = p0 /\ b = x)
      /\ \A f \in Archivos, p \in Pagina : Exenta(f, p) => Exenta(f, p)'
      /\ \A g \in Hilos, b \in Comun : Reclama(g, b)' => g # h /\ Reclama(g, b)
  BY VistaPropia
<1>2. SinTag' <=> SinTag
  BY VistaPropia DEF SinTag
<1>3. Marcados /\ (x \in Comun => x \in bitmap)
  BY DEF DuenosOK, Marcados
<1>4. Marcados'
  BY <1>1, <1>3 DEF Marcados, Comun
<1>5. ASSUME SinTag PROVE Unicos' /\ Propios' /\ Cerrados'
  <2>1. Unicos /\ Propios /\ Cerrados
    BY <1>5 DEF DuenosOK
  <2>2. x \in Comun => /\ ~Publicado(x)
                       /\ \A f \in Archivos, p \in Pagina : ~Guarda(f, p, x)
                       /\ \A g \in Hilos : Reclama(g, x) => g = h
    BY <2>1 DEF Propios
  <2>3. Unicos'
    BY <1>1, <2>1, <2>2 DEF Unicos, Comun
  <2>4. Propios'
    BY <1>1, <2>1, <2>2 DEF Propios, Comun
  <2>5. Cerrados'
    BY <1>1, <2>1, <2>2 DEF Cerrados, Comun
  <2> QED
    BY <2>3, <2>4, <2>5
<1> QED
  BY <1>2, <1>4, <1>5 DEF DuenosOK

\* A COMMIT puts the block of a page in the index.
LEMMA DuenosPublica ==
  ASSUME InvBloques, DuenosOK, SinTag, NEW h \in Hilos, EnLoSuyo(h), NEW p0 \in Pagina, NEW x,
         x \in Comun => Propia(h, p0, x), ExentaPropia(h, p0)', bitmap' = bitmap,
         \A b \in Comun : Reclama(h, b)' => Reclama(h, b),
         \A p \in Pagina, b \in Comun : Propia(h, p, b)' => Propia(h, p, b),
         \A b \in Comun : Publicado(b) => Publicado(b)',
         \A b \in Comun : Publicado(b)' => Publicado(b) \/ b = x,
         \A p \in Pagina : ExentaPropia(h, p) => ExentaPropia(h, p)'
  PROVE  DuenosOK'
<1> DEFINE f0 == pedido[h].f
<1>1. /\ \A f \in Archivos, p \in Pagina, b \in Comun : Guarda(f, p, b)' => Guarda(f, p, b)
      /\ \A f \in Archivos, p \in Pagina : Exenta(f, p) => Exenta(f, p)'
      /\ \A g \in Hilos, b \in Comun : Reclama(g, b)' => Reclama(g, b)
      /\ f0 \in Archivos /\ (x \in Comun => Guarda(f0, p0, x)) /\ \A f \in {f0} : Exenta(f, p0)'
  BY VistaPropia
<1>2. Unicos /\ Propios /\ Cerrados /\ Marcados
  BY DEF DuenosOK
<1>3. x \in Comun => x \in bitmap /\ \A g \in Hilos : ~Reclama(g, x)
  BY <1>1, <1>2 DEF Marcados, Propios
<1>4. Marcados'
  BY <1>1, <1>2, <1>3 DEF Marcados, Comun
<1>5. Unicos'
  BY <1>1, <1>2 DEF Unicos, Comun
<1>6. Propios'
  BY <1>1, <1>2, <1>3 DEF Propios, Comun
<1>7. Cerrados'
  BY <1>1, <1>2 DEF Cerrados, Unicos, Comun
<1> QED
  BY <1>4, <1>5, <1>6, <1>7 DEF DuenosOK

-------------------------------------------------------------------------------
LEMMA SuyoAdentro ==
  ASSUME InvBloques, NEW h \in Hilos, Adentro(h), NEW paso, NEW l, Ir(h, paso, l),
         \A f \in Archivos \ {pedido[h].f} : meta'[f] = meta[f] /\ logico'[f] = logico[f]
  PROVE  EnLoSuyo(h)
<1>1. pedido[h].f # Base /\ pc[h] \notin {"libre", "entrar"}
  BY DelHilo DEF OpOK, Adentro
<1> QED
  BY <1>1, SuyosAdentro, DelPedido DEF EnLoSuyo

LEMMA SuyoAlEntrar ==
  ASSUME InvBloques, NEW h \in Hilos, NEW op, Empieza(h, op), pedido[h].f # Base,
         NEW paso, NEW l, Ir(h, paso, l),
         \A f \in Archivos \ {pedido[h].f} : meta'[f] = meta[f] /\ logico'[f] = logico[f]
  PROVE  EnLoSuyo(h)
<1>1. pc[h] = "entrar"
  BY DEF Empieza
<1> QED
  BY <1>1, SuyosAlEntrar, DelPedido DEF EnLoSuyo

LEMMA CursosSuyos ==
  ASSUME InvBloques, CursosOK, NEW h \in Hilos, EnLoSuyo(h), PasoOK(h)',
         meta'[pedido[h].f] = meta[pedido[h].f] \/ Len(meta'[pedido[h].f].blocks) <= MaxPaginas,
         indice' = indice \/ EnDedup(h), EnDedup(h)' => EnDedup(h) \/ HashLibre
  PROVE  CursosOK'
<1>1. PICK paso, l : Ir(h, paso, l)
  BY DEF EnLoSuyo
<1>2. /\ Suyos(h) /\ ~SinCandado(pedido[h]) /\ pedido[h].f \in Archivos
      /\ \A f \in Archivos \ {pedido[h].f} : meta'[f] = meta[f]
  BY DEF EnLoSuyo
<1>3. \A f \in Archivos : \/ meta'[f] = meta[f]
                          \/ f \in Nombrados(pedido[h]) /\ Len(meta'[f].blocks) <= MaxPaginas
  BY <1>2, ElSuyo
<1> QED
  BY <1>1, <1>2, <1>3, CursosPaso

\* A step that is no part of a deduplication and gives no page, and no thread, a block.
LEMMA OcupadoQuieto ==
  ASSUME InvBloques, OcupadoOK, NEW h \in Hilos, EnLoSuyo(h), ~EnDedup(h), ~EnDedup(h)', PasoOK(h)',
         meta'[pedido[h].f] = meta[pedido[h].f] \/ Len(meta'[pedido[h].f].blocks) <= MaxPaginas,
         indice' = indice, bitmap' = bitmap,
         \A p \in Pagina, b \in Comun : Propia(h, p, b)' => Propia(h, p, b),
         \A b \in Comun : Reclama(h, b)' => Reclama(h, b),
         \A p \in Pagina : ExentaPropia(h, p) => ExentaPropia(h, p)'
  PROVE  OcupadoOK'
<1>1. CursosOK'
  BY CursosSuyos DEF OcupadoOK
<1>2. \A b : Publicado(b)' <=> Publicado(b)
  BY PublicadoIgual
<1>3. DuenosOK'
  BY <1>2, DuenosQuietos DEF OcupadoOK
<1> QED
  BY <1>1, <1>3 DEF OcupadoOK

\* A step of a thread that is inside no operation, nor gets into one.
LEMMA OcupadoFuera ==
  ASSUME OcupadoOK, NEW h \in Hilos, ~Adentro(h), ~Adentro(h)',
         UNCHANGED <<meta, logico, indice, bitmap, mezcla>>,
         \A g \in Hilos \ {h} : pc'[g] = pc[g] /\ loc'[g] = loc[g] /\ pedido'[g] = pedido[g]
  PROVE  OcupadoOK'
<1>1. ASSUME NEW g \in Hilos
      PROVE  /\ EnDedup(g)' <=> EnDedup(g)
             /\ \A p : /\ pedido'[g].f = pedido[g].f \/ (~Deja(g, p) /\ ~Exime(g, p))
                       /\ Deja(g, p)' <=> Deja(g, p)
                       /\ Exime(g, p)' <=> Exime(g, p)
             /\ \A p, b : /\ pedido'[g].f = pedido[g].f \/ ~Pone(g, p, b)
                          /\ Pone(g, p, b)' <=> Pone(g, p, b)
             /\ \A b : (Reclama(g, b)' <=> Reclama(g, b)) /\ (Publica(g, b)' <=> Publica(g, b))
  <2>1. CASE g # h
    BY <2>1, OtroHilo, OtroReclamo
  <2>2. CASE g = h
    <3>1. /\ \A p : ~Deja(h, p)' /\ ~Exime(h, p)'
          /\ \A p, b : ~Pone(h, p, b)'
          /\ \A b : ~Reclama(h, b)' /\ ~Publica(h, b)'
          /\ ~EnDedup(h)' /\ ~EnDedup(h)
      BY DEF Adentro, Deja, Exime, Pone, Reclama, Publica, EnDedup, EnEscritura, PasosDedup
    <3> QED
      BY <2>2, <3>1, SoloAdentro
  <2> QED
    BY <2>1, <2>2
<1>2. /\ \A f \in Archivos, p \in Pagina, b \in Comun : Guarda(f, p, b)' <=> Guarda(f, p, b)
      /\ \A f \in Archivos, p \in Pagina : Exenta(f, p)' <=> Exenta(f, p)
  <2>1. ASSUME NEW f \in Archivos, NEW p \in Pagina, NEW b \in Comun
        PROVE  Guarda(f, p, b)' <=> Guarda(f, p, b)
    BY <1>1 DEF Guarda
  <2>2. ASSUME NEW f \in Archivos, NEW p \in Pagina PROVE Exenta(f, p)' <=> Exenta(f, p)
    BY <1>1 DEF Exenta, Commited
  <2> QED
    BY <2>1, <2>2
<1>3. \A b : Publicado(b)' <=> Publicado(b)
  BY <1>1 DEF Publicado
<1>4. DuenosOK'
  <2>1. (SinTag' <=> SinTag) /\ Comun' = Comun
    BY DEF SinTag, Comun
  <2>2. Marcados'
    BY <1>1, <1>2, <1>3 DEF OcupadoOK, DuenosOK, Marcados, Comun
  <2>3. ASSUME SinTag PROVE Unicos' /\ Propios' /\ Cerrados'
    <3>1. Unicos /\ Propios /\ Cerrados
      BY <2>3 DEF OcupadoOK, DuenosOK
    <3>2. Unicos'
      BY <1>2, <1>3, <3>1 DEF Unicos, Comun
    <3>3. Propios'
      BY <1>1, <1>2, <1>3, <3>1 DEF Propios, Comun
    <3>4. Cerrados'
      BY <1>2, <1>3, <3>1 DEF Cerrados, Comun
    <3> QED
      BY <3>2, <3>3, <3>4
  <2> QED
    BY <2>1, <2>2, <2>3 DEF DuenosOK
<1>5. CursosOK'
  <2>1. \A g \in Hilos \ {h} : PasoOK(g)'
    BY OtroPaso DEF OcupadoOK, CursosOK
  <2>2. PasoOK(h)'
    BY DEF PasoOK, Adentro, EnTruncate, EnDedup, PasosDedup, Achica
  <2>3. UnSoloDedup' /\ LargosOK'
    BY <1>1 DEF OcupadoOK, CursosOK, UnSoloDedup, LargosOK
  <2> QED
    BY <2>1, <2>2, <2>3 DEF CursosOK
<1> QED
  BY <1>4, <1>5 DEF OcupadoOK

LEMMA OcupadoFalla ==
  ASSUME InvBloques, OcupadoOK, NEW h \in Hilos, ~Adentro(h), NEW r, Resultado(h, r),
         UNCHANGED <<disco, bitmap>>
  PROVE  OcupadoOK'
<1>1. Ir(h, "responder", SinLocales)
  BY DEF Resultado
<1>2. pc'[h] = "responder"
  BY <1>1, DelHilo, EfectoDeIr
<1>3. ~Adentro(h)'
  BY <1>2 DEF Adentro
<1>4. /\ pedido' = pedido /\ mezcla' = mezcla
      /\ \A g \in Hilos \ {h} : pc'[g] = pc[g] /\ loc'[g] = loc[g]
  BY <1>1, DelHilo, EfectoDeIr
<1> QED
  BY <1>3, <1>4, OcupadoFuera DEF disco

\* The threads that clear bits, or publish blocks, do it without TAG.
LEMMA SinTagEnMedio ==
  ASSUME InvBloques, Apartadas, NEW h \in Hilos, EnCommit(h) \/ (Achica(h) /\ loc[h].pag \in Pagina)
  PROVE  SinTag
<1> SUFFICES ASSUME NadaSeLibera PROVE FALSE
  BY DEF Apartadas
<1>1. CASE EnCommit(h)
  BY <1>1, EnElCommit DEF NadaSeLibera
<1>2. CASE Achica(h) /\ loc[h].pag \in Pagina
  <2>1. EnTruncate(h)
    BY <1>2 DEF Achica, EnTruncate
  <2>2. pedido[h].op = "TRUNCATE" /\ pedido[h] \in mezcla /\ pedido[h].n <= loc[h].pag
    BY <1>2, <2>1, EnElTruncate, DelPedido, DelHilo DEF CursoOK, Achica
  <2>3. pedido[h].n = MaxPaginas
    BY <2>2 DEF NadaSeLibera
  <2> QED
    BY <1>2, <2>2, <2>3, BloquesAssumption DEF Pagina
<1> QED
  BY <1>1, <1>2

-------------------------------------------------------------------------------
(* The points where a thread has no block in its hands. *)

Neutros == {"libre", "entrar", "responder", "crear_meta", "trunc_crecer", "tag_meta", "tag_link",
            "escribir", "commit_persistir"}
\* The file:tag links b, or its BLOCKS names it.
Suya(h, p, b) ==
    LET f == pedido[h].f IN
    logico[f][p] = b \/ (p < Len(meta[f].blocks) /\ meta[f].blocks[p + 1] = b)

LEMMA Neutro ==
  ASSUME NEW h \in Hilos, pc[h] \in Neutros
  PROVE  /\ ~EnDedup(h) /\ \A b : ~Reclama(h, b)
         /\ \A p : ExentaPropia(h, p) <=> Commited(pedido[h].f)
         /\ \A p, b : Propia(h, p, b) <=> Suya(h, p, b)
<1>1. /\ ~EnDedup(h) /\ \A b : ~Reclama(h, b)
      /\ \A p : ~Deja(h, p) /\ ~Exime(h, p)
      /\ \A p, b : ~Pone(h, p, b)
  BY DEF Neutros, Deja, Exime, Pone, Reclama, EnDedup, EnEscritura, PasosDedup
<1> QED
  BY <1>1 DEF ExentaPropia, Propia, Suya

LEMMA NeutroLuego ==
  ASSUME NEW h \in Hilos, pc'[h] \in Neutros
  PROVE  /\ ~EnDedup(h)' /\ \A b : ~Reclama(h, b)'
         /\ \A p : ExentaPropia(h, p)' <=> meta'[pedido'[h].f].estado = "COMMITED"
         /\ \A p, b : Propia(h, p, b)' <=> Suya(h, p, b)'
         /\ pc'[h] \notin {"crear_meta", "trunc_crecer"} => PasoOK(h)'
<1>1. /\ ~EnDedup(h)' /\ \A b : ~Reclama(h, b)'
      /\ \A p : ~Deja(h, p)' /\ ~Exime(h, p)'
      /\ \A p, b : ~Pone(h, p, b)'
  BY DEF Neutros, Deja, Exime, Pone, Reclama, EnDedup, EnEscritura, PasosDedup
<1>2. pc'[h] \notin {"crear_meta", "trunc_crecer"} => PasoOK(h)'
  BY <1>1 DEF PasoOK, EnTruncate, Achica, Neutros
<1> QED
  BY <1>1, <1>2 DEF ExentaPropia, Propia, Suya, Commited

\* From one of them to another, the file:tag loses links and no more.
LEMMA OcupadoNeutro ==
  ASSUME InvBloques, OcupadoOK, NEW h \in Hilos, EnLoSuyo(h), pc[h] \in Neutros, pc'[h] \in Neutros,
         PasoOK(h)', indice' = indice, bitmap' = bitmap,
         meta'[pedido[h].f] = meta[pedido[h].f] \/ Len(meta'[pedido[h].f].blocks) <= MaxPaginas,
         Commited(pedido[h].f) => meta'[pedido[h].f].estado = "COMMITED",
         \A p \in Pagina, b \in Comun : Suya(h, p, b)' => Suya(h, p, b)
  PROVE  OcupadoOK'
<1>1. pedido' = pedido
  BY VistaPropia
<1>2. /\ \A p \in Pagina, b \in Comun : Propia(h, p, b)' => Propia(h, p, b)
      /\ \A b \in Comun : Reclama(h, b)' => Reclama(h, b)
      /\ \A p \in Pagina : ExentaPropia(h, p) => ExentaPropia(h, p)'
      /\ ~EnDedup(h) /\ ~EnDedup(h)'
  BY <1>1, Neutro, NeutroLuego
<1> QED
  BY <1>2, OcupadoQuieto

-------------------------------------------------------------------------------
(* CREATE and READ *)

LEMMA OcupadoCrear ==
  ASSUME InvBloques, OcupadoOK, NEW h \in Hilos, Crear(h) \/ CrearMeta(h)
  PROVE  OcupadoOK'
<1> DEFINE f == pedido[h].f
<1>1. CASE Falla(h) /\ Crear(h)
  BY <1>1, OcupadoFalla DEF Falla, Crear, Empieza, Adentro
<1>2. ASSUME NEW e \in {"carpeta", "WORK_IN_PROGRESS"}, NEW paso \in {"crear_meta", "responder"},
             PonerMeta(f, [SinMeta EXCEPT !.estado = e]), Ir(h, paso, SinLocales), EnLoSuyo(h),
             pc[h] \in Neutros, ~Commited(f)
      PROVE  OcupadoOK'
  <2>1. /\ pc'[h] = paso /\ pedido' = pedido /\ f \in Archivos /\ meta \in [Archivos -> Metas]
    BY <1>2, DelHilo, EfectoDeIr DEF EnLoSuyo, DiscoOK
  <2>2. /\ meta'[f] = [SinMeta EXCEPT !.estado = e]
        /\ logico' = logico /\ indice' = indice /\ bitmap' = bitmap
    BY <1>2, <2>1 DEF PonerMeta
  <2>3. meta'[f].blocks = <<>> /\ meta'[f].estado = e /\ Len(<<>>) = 0
    BY <2>2 DEF SinMeta
  <2>4. \A p \in Pagina : ~(p < 0)
    BY DEF Pagina
  <2>5. PasoOK(h)'
    BY <1>2, <2>1, <2>3 DEF PasoOK, EnTruncate, EnDedup, Achica, PasosDedup, Commited
  <2>6. \A p \in Pagina, b \in Comun : Suya(h, p, b)' => Suya(h, p, b)
    BY <2>1, <2>2, <2>3, <2>4 DEF Suya
  <2>7. pc'[h] \in Neutros /\ Len(meta'[f].blocks) <= MaxPaginas
    BY <2>1, <2>3, BloquesAssumption DEF Neutros
  <2>8. Commited(f) => meta'[f].estado = "COMMITED"
    BY <1>2
  <2> QED
    BY <1>2, <2>2, <2>5, <2>6, <2>7, <2>8, OcupadoNeutro
<1>3. CASE Crear(h) /\ ~Falla(h)
  <2>1. /\ PonerMeta(f, [SinMeta EXCEPT !.estado = "carpeta"]) /\ Ir(h, "crear_meta", SinLocales)
        /\ Empieza(h, "CREATE") /\ pc[h] = "entrar" /\ meta[f].estado = "ausente"
    BY <1>3 DEF Crear, Empieza
  <2>2. f # Base
    BY <2>1, DelHilo DEF BaseOK
  <2>3. EnLoSuyo(h)
    BY <2>1, <2>2, SuyoAlEntrar, DelHilo DEF PonerMeta, DiscoOK
  <2> QED
    BY <1>2, <2>1, <2>3 DEF Neutros, Commited
<1>4. CASE CrearMeta(h)
  <2>1. /\ PonerMeta(f, [SinMeta EXCEPT !.estado = "WORK_IN_PROGRESS"]) /\ Ir(h, "responder", SinLocales)
        /\ pc[h] = "crear_meta"
    BY <1>4 DEF CrearMeta, Resultado
  <2>2. EnLoSuyo(h)
    BY <2>1, SuyoAdentro, DelHilo DEF PonerMeta, DiscoOK, Adentro
  <2>3. ~Commited(f)
    BY <2>1 DEF OcupadoOK, CursosOK, PasoOK
  <2> QED
    BY <1>2, <2>1, <2>2, <2>3 DEF Neutros
<1> QED
  BY <1>1, <1>3, <1>4

LEMMA OcupadoLeer ==
  ASSUME InvBloques, OcupadoOK, NEW h \in Hilos, Leer(h)
  PROVE  OcupadoOK'
<1>1. ~Adentro(h) /\ \E r : Resultado(h, r) /\ UNCHANGED <<disco, bitmap>>
  BY DEF Leer, Empieza, Adentro, Falla
<1> QED
  BY <1>1, OcupadoFalla

-------------------------------------------------------------------------------
(* TRUNCATE *)

LEMMA EfectoDeEnlazar ==
  ASSUME DiscoOK, NEW f \in Archivos, NEW p, NEW n, Enlazar(f, p, n)
  PROVE  /\ \A g \in Archivos \ {f} : logico'[g] = logico[g]
         /\ \A q \in Pagina : logico'[f][q] = IF q = p THEN n ELSE logico[f][q]
         /\ UNCHANGED <<meta, indice, bitmap>>
BY DEF DiscoOK, Enlazar

PuntosTrunc == {"trunc_bajar", "trunc_stat", "trunc_liberar", "trunc_meta"}

\* A thread in TRUNCATE may have dropped pages and blocks, and has none to put.
LEMMA SinPoner ==
  ASSUME NEW h \in Hilos, pc[h] \in PuntosTrunc \cup Neutros
  PROVE  /\ ~EnDedup(h)
         /\ \A p : ExentaPropia(h, p) <=> Commited(pedido[h].f)
         /\ \A p, b : ~Pone(h, p, b)
BY DEF PuntosTrunc, Neutros, Exime, Pone, EnDedup, EnEscritura, PasosDedup, ExentaPropia

LEMMA SinPonerLuego ==
  ASSUME NEW h \in Hilos, pc'[h] \in PuntosTrunc \cup Neutros
  PROVE  /\ ~EnDedup(h)'
         /\ \A p : ExentaPropia(h, p)' <=> meta'[pedido'[h].f].estado = "COMMITED"
         /\ \A p, b : ~Pone(h, p, b)'
         /\ /\ meta'[pedido'[h].f].estado # "COMMITED"
            /\ pc'[h] \in {"trunc_bajar", "trunc_stat", "trunc_liberar"} => loc'[h].pag \in Pagina
            => PasoOK(h)'
<1>1. /\ ~EnDedup(h)'
      /\ \A p : ~Exime(h, p)'
      /\ \A p, b : ~Pone(h, p, b)'
  BY DEF PuntosTrunc, Neutros, Exime, Pone, EnDedup, EnEscritura, PasosDedup
<1> QED
  BY <1>1 DEF PasoOK, Achica, ExentaPropia, Commited

\* A step of TRUNCATE that frees no bit, and takes no page off its block.
LEMMA OcupadoTrunc ==
  ASSUME InvBloques, OcupadoOK, NEW h \in Hilos, EnLoSuyo(h),
         pc[h] \in PuntosTrunc \cup Neutros, pc'[h] \in PuntosTrunc \cup Neutros,
         pc'[h] \in {"trunc_bajar", "trunc_stat", "trunc_liberar"} => loc'[h].pag \in Pagina,
         ~Commited(pedido[h].f), indice' = indice, bitmap' = bitmap,
         \/ meta'[pedido[h].f] = meta[pedido[h].f]
         \/ /\ Len(meta'[pedido[h].f].blocks) <= MaxPaginas
            /\ meta'[pedido[h].f].estado = meta[pedido[h].f].estado,
         \A p \in Pagina, b \in Comun : Propia(h, p, b)' => Propia(h, p, b),
         \A b \in Comun : Reclama(h, b)' => Reclama(h, b)
  PROVE  OcupadoOK'
<1>1. pedido' = pedido
  BY VistaPropia
<1>2. meta'[pedido[h].f].estado # "COMMITED"
  BY DEF Commited
<1>3. PasoOK(h)' /\ ~EnDedup(h) /\ ~EnDedup(h)'
  BY <1>1, <1>2, SinPoner, SinPonerLuego
<1>4. \A p \in Pagina : ExentaPropia(h, p) => ExentaPropia(h, p)'
  BY SinPoner
<1> QED
  BY <1>3, <1>4, OcupadoQuieto

LEMMA OcupadoTruncar ==
  ASSUME InvBloques, OcupadoOK, NEW h \in Hilos, Truncar(h)
  PROVE  OcupadoOK'
<1> DEFINE f == pedido[h].f
           n == pedido[h].n
           t == meta[f].tam
<1>1. CASE Falla(h)
  BY <1>1, OcupadoFalla DEF Falla, Truncar, Empieza, Adentro
<1>2. CASE ~Falla(h)
  <2>1. /\ Empieza(h, "TRUNCATE") /\ pc[h] = "entrar" /\ f # Base /\ meta[f].estado = "WORK_IN_PROGRESS"
        /\ UNCHANGED <<disco, bitmap>> /\ pedido[h].op = "TRUNCATE"
        /\ \/ Ir(h, "trunc_crecer", [SinLocales EXCEPT !.pag = t])
           \/ n < t /\ Ir(h, "trunc_bajar", [SinLocales EXCEPT !.pag = t - 1])
           \/ Ir(h, "trunc_meta", SinLocales)
    BY <1>2 DEF Truncar, Empieza
  <2>2. f \in Archivos /\ n \in 0..MaxPaginas /\ t \in 0..MaxPaginas
    BY <2>1, DelPedido, DelHilo, SonMetas DEF DiscoOK
  <2>3. PICK paso \in {"trunc_crecer", "trunc_bajar", "trunc_meta"}, l \in {[SinLocales EXCEPT !.pag = t],
             [SinLocales EXCEPT !.pag = t - 1], SinLocales} :
             Ir(h, paso, l) /\ (paso = "trunc_bajar" => l.pag \in Pagina)
    <3>1. n < t => t - 1 \in Pagina
      BY <2>2, BloquesAssumption DEF Pagina
    <3>2. [SinLocales EXCEPT !.pag = t - 1].pag = t - 1
      BY DEF SinLocales
    <3> QED
      BY <2>1, <3>1, <3>2
  <2>4. pc'[h] = paso /\ loc'[h] = l /\ pedido' = pedido
    BY <2>3, DelHilo, EfectoDeIr
  <2>5. UNCHANGED <<meta, logico, indice, bitmap>>
    BY <2>1 DEF disco
  <2>6. EnLoSuyo(h)
    BY <2>1, <2>3, <2>5, SuyoAlEntrar
  <2>7. pc[h] \in Neutros /\ pc'[h] \in PuntosTrunc \cup Neutros
    BY <2>1, <2>4 DEF Neutros, PuntosTrunc
  <2>8. \A p \in Pagina, b \in Comun : Propia(h, p, b)' => Propia(h, p, b)
    <3>1. \A p, b : Propia(h, p, b) <=> Suya(h, p, b)
      BY <2>7, Neutro
    <3>2. \A p, b : ~Pone(h, p, b)'
      BY <2>7, SinPonerLuego
    <3> QED
      BY <2>4, <2>5, <3>1, <3>2 DEF Propia, Suya
  <2>9. \A b \in Comun : Reclama(h, b)' => Reclama(h, b)
    BY <2>4 DEF Reclama
  <2>10. ~Commited(f)
    BY <2>1 DEF Commited
  <2> QED
    BY <2>3, <2>4, <2>5, <2>6, <2>7, <2>8, <2>9, <2>10, OcupadoTrunc
<1> QED
  BY <1>1, <1>2

LEMMA EnMedioDelTruncate ==
  ASSUME InvBloques, OcupadoOK, NEW h \in Hilos, EnTruncate(h)
  PROVE  /\ pedido[h].f \in Archivos /\ Adentro(h) /\ DiscoOK /\ ~Commited(pedido[h].f)
         /\ Achica(h) => loc[h].pag \in Pagina /\ pedido[h].n <= loc[h].pag
         /\ loc[h].pag \in Nat /\ pedido[h].n \in 0..MaxPaginas /\ pedido[h].n \in Nat
         /\ loc[h] \in Locales
<1>1. PasoOK(h)
  BY DEF OcupadoOK, CursosOK
<1>2. Achica(h) => pedido[h].n <= loc[h].pag
  BY DelHilo DEF CursoOK, Achica
<1> QED
  BY <1>1, <1>2, EnElTruncate, DelHilo DEF PasoOK

LEMMA OcupadoTruncCrecer ==
  ASSUME InvBloques, Intacto, OcupadoOK, NEW h \in Hilos, TruncCrecer(h)
  PROVE  OcupadoOK'
<1> DEFINE f == pedido[h].f
<1>1. pc[h] = "trunc_crecer" /\ EnTruncate(h) /\ pc[h] \in Neutros
  BY DEF TruncCrecer, EnTruncate, Neutros
<1>2. f \in Archivos /\ Adentro(h) /\ DiscoOK /\ ~Commited(f)
  BY <1>1, EnMedioDelTruncate
<1>3. PICK paso \in {"responder", "trunc_crecer", "trunc_meta"}, 
         l \in {SinLocales, [loc[h] EXCEPT !.pag = loc[h].pag + 1]} : Ir(h, paso, l)
  BY DEF TruncCrecer, Falla, Resultado
<1>4. /\ UNCHANGED <<meta, indice, bitmap>>
      /\ \A g \in Archivos \ {f} : logico'[g] = logico[g]
      /\ \A q \in Pagina : logico'[f][q] \in {logico[f][q], 0}
  <2>1. CASE Falla(h)
    BY <2>1 DEF Falla, disco
  <2>2. CASE Enlazar(f, loc[h].pag, nodo[0])
    <3>1. nodo[0] = 0
      BY BloquesAssumption DEF Intacto, Bloque
    <3> QED
      BY <1>2, <2>2, <3>1, EfectoDeEnlazar
  <2> QED
    BY <2>1, <2>2 DEF TruncCrecer
<1>5. pc'[h] = paso /\ loc'[h] = l /\ pedido' = pedido
  BY <1>3, DelHilo, EfectoDeIr
<1>6. EnLoSuyo(h)
  BY <1>2, <1>3, <1>4, SuyoAdentro
<1>7. pc'[h] \in PuntosTrunc \cup Neutros
  BY <1>5 DEF Neutros, PuntosTrunc
<1>8. \A p \in Pagina, b \in Comun : Propia(h, p, b)' => Propia(h, p, b)
  <2>1. \A p, b : Propia(h, p, b) <=> Suya(h, p, b)
    BY <1>1, Neutro
  <2>2. \A p, b : ~Pone(h, p, b)'
    BY <1>7, SinPonerLuego
  <2> QED
    BY <1>4, <1>5, <2>1, <2>2 DEF Propia, Suya, Comun
<1>9. \A b \in Comun : Reclama(h, b)' => Reclama(h, b)
  BY <1>5 DEF Reclama
<1> QED
  BY <1>1, <1>2, <1>4, <1>5, <1>6, <1>7, <1>8, <1>9, OcupadoTrunc

LEMMA OcupadoTruncBajar ==
  ASSUME InvBloques, Apartadas, OcupadoOK, NEW h \in Hilos, TruncBajar(h)
  PROVE  OcupadoOK'
<1> DEFINE f == pedido[h].f
           k == loc[h].pag
           x == BloqueDe(f, k)
<1>1. /\ pc[h] = "trunc_bajar" /\ EnTruncate(h) /\ Achica(h) /\ pc[h] \in PuntosTrunc
      /\ Enlazar(f, k, Nadie) /\ Ir(h, "trunc_stat", loc[h])
  BY DEF TruncBajar, EnTruncate, Achica, PuntosTrunc
<1>2. f \in Archivos /\ Adentro(h) /\ DiscoOK /\ ~Commited(f) /\ k \in Pagina
  BY <1>1, EnMedioDelTruncate
<1>3. /\ \A g \in Archivos \ {f} : logico'[g] = logico[g]
      /\ \A q \in Pagina : logico'[f][q] = IF q = k THEN Nadie ELSE logico[f][q]
      /\ UNCHANGED <<meta, indice, bitmap>>
  BY <1>1, <1>2, EfectoDeEnlazar
<1>4. pc'[h] = "trunc_stat" /\ loc'[h] = loc[h] /\ pedido' = pedido
  BY <1>1, DelHilo, EfectoDeIr
<1>5. EnLoSuyo(h) /\ SinTag
  BY <1>1, <1>2, <1>3, SuyoAdentro, SinTagEnMedio
<1>6. pc'[h] \in PuntosTrunc
  BY <1>4 DEF PuntosTrunc
<1>7. \A q \in Pagina : q \in Nat /\ k \in Nat
  BY <1>2 DEF Pagina
<1>8. x \in Comun => Propia(h, k, x)
  <2>1. ~Deja(h, k)
    BY <1>1, <1>2, <1>7 DEF Deja, EnDedup, PasosDedup
  <2>2. x # 0 => k < Len(meta[f].blocks) /\ meta[f].blocks[k + 1] = x
    BY DEF BloqueDe
  <2> QED
    BY <2>1, <2>2 DEF Propia, Comun
<1>9. \A b \in Comun : Reclama(h, b)' => b = x
  <2>1. BloqueDe(f, k)' = x
    BY <1>3, <1>4 DEF BloqueDe
  <2> QED
    BY <1>4, <2>1 DEF Reclama, BloqueDe
<1>10. \A p \in Pagina, b \in Comun : Propia(h, p, b)' => Propia(h, p, b) /\ ~(p = k /\ b = x)
  <2>1. \A p, b : ~Pone(h, p, b) /\ ~Pone(h, p, b)'
    BY <1>1, <1>6, SinPoner, SinPonerLuego
  <2>2. \A p \in Pagina : /\ Deja(h, p)' <=> p >= k
                          /\ Deja(h, p) <=> p > k
    BY <1>1, <1>4 DEF Deja, EnDedup, PasosDedup
  <2>3. \A b \in Comun : b # Nadie
    BY BloquesAssumption DEF Comun, Bloque
  <2> QED
    BY <1>3, <1>4, <1>7, <2>1, <2>2, <2>3 DEF Propia
<1>11. \A p : ~ExentaPropia(h, p)
  BY <1>1, <1>2, SinPoner
<1>12. /\ ~EnDedup(h) /\ ~EnDedup(h)' /\ PasoOK(h)'
  BY <1>1, <1>2, <1>3, <1>4, <1>6, SinPoner, SinPonerLuego DEF Commited
<1>13. \A b \in Comun : Publicado(b)' <=> Publicado(b)
  BY <1>3, <1>5, <1>12, PublicadoIgual
<1>14. DuenosOK'
  BY <1>2, <1>3, <1>5, <1>8, <1>9, <1>10, <1>11, <1>13, DuenosEntrega DEF OcupadoOK
<1> QED
  BY <1>3, <1>5, <1>12, <1>14, CursosSuyos DEF OcupadoOK

\* TRUNCATE goes on to the page below, or to save BLOCKS.
LEMMA OcupadoTruncSigue ==
  ASSUME InvBloques, OcupadoOK, NEW h \in Hilos, pc[h] \in {"trunc_stat", "trunc_liberar"},
         TruncSigue(h), UNCHANGED <<meta, logico>>
  PROVE  /\ EnLoSuyo(h) /\ pc'[h] \in {"trunc_bajar", "trunc_meta"} /\ loc'[h].pag \in Pagina
         /\ \A p \in Pagina, b \in Comun : Propia(h, p, b)' => Propia(h, p, b)
         /\ \A b : ~Reclama(h, b)'
<1> DEFINE n == pedido[h].n
           k == loc[h].pag
<1>1. EnTruncate(h) /\ Achica(h)
  BY DEF EnTruncate, Achica
<1>2. Adentro(h) /\ k \in Pagina /\ n <= k /\ n \in Nat /\ k \in Nat /\ loc[h] \in Locales
  BY <1>1, EnMedioDelTruncate
<1>3. PICK paso \in {"trunc_bajar", "trunc_meta"}, l \in Locales :
          /\ Ir(h, paso, l) /\ (paso = "trunc_meta" => k = n)
          /\ l.pag \in Pagina /\ (paso = "trunc_bajar" => l.pag = k - 1)
  <2>1. CASE k = n
    BY <1>2, <2>1 DEF TruncSigue
  <2>2. CASE k # n
    <3>1. k - 1 \in Nat /\ k - 1 \in Pagina
      BY <1>2, <2>2, BloquesAssumption DEF Pagina
    <3>2. [loc[h] EXCEPT !.pag = k - 1] \in Locales /\ [loc[h] EXCEPT !.pag = k - 1].pag = k - 1
      BY <1>2, <3>1, ConPag
    <3> QED
      BY <2>2, <3>1, <3>2 DEF TruncSigue
  <2> QED
    BY <2>1, <2>2
<1>4. pc'[h] = paso /\ loc'[h] = l /\ pedido' = pedido
  BY <1>3, DelHilo, EfectoDeIr
<1>5. EnLoSuyo(h)
  BY <1>2, <1>3, SuyoAdentro
<1>6. \A p \in Pagina : Deja(h, p)' <=> Deja(h, p)
  <2> SUFFICES ASSUME NEW p \in Pagina PROVE Deja(h, p)' <=> Deja(h, p)
    OBVIOUS
  <2>1. p \in Nat /\ (p > k - 1 <=> p >= k)
    BY <1>2 DEF Pagina
  <2>2. Deja(h, p) <=> p >= k
    BY DEF Deja, EnDedup, PasosDedup
  <2>3. CASE paso = "trunc_meta"
    BY <1>3, <1>4, <2>2, <2>3 DEF Deja, EnDedup, PasosDedup
  <2>4. CASE paso = "trunc_bajar"
    BY <1>3, <1>4, <2>1, <2>2, <2>4 DEF Deja, EnDedup, PasosDedup
  <2> QED
    BY <2>3, <2>4
<1>7. \A p, b : ~Pone(h, p, b)'
  BY <1>4, SinPonerLuego DEF PuntosTrunc
<1>8. \A p \in Pagina, b \in Comun : Propia(h, p, b)' => Propia(h, p, b)
  BY <1>4, <1>6, <1>7 DEF Propia
<1>9. \A b : ~Reclama(h, b)'
  BY <1>4 DEF Reclama
<1> QED
  BY <1>3, <1>4, <1>5, <1>8, <1>9

LEMMA OcupadoTruncStat ==
  ASSUME InvBloques, OcupadoOK, NEW h \in Hilos, TruncStat(h)
  PROVE  OcupadoOK'
<1>1. /\ pc[h] = "trunc_stat" /\ EnTruncate(h) /\ Achica(h) /\ pc[h] \in PuntosTrunc
      /\ UNCHANGED <<meta, logico, indice, bitmap>>
  BY DEF TruncStat, EnTruncate, Achica, PuntosTrunc, disco
<1>2. Adentro(h) /\ ~Commited(pedido[h].f) /\ loc[h].pag \in Pagina
  BY <1>1, EnMedioDelTruncate
<1>3. CASE TruncSigue(h)
  <2>1. /\ EnLoSuyo(h) /\ pc'[h] \in {"trunc_bajar", "trunc_meta"} /\ loc'[h].pag \in Pagina
        /\ \A p \in Pagina, b \in Comun : Propia(h, p, b)' => Propia(h, p, b)
        /\ \A b : ~Reclama(h, b)'
    BY <1>1, <1>3, OcupadoTruncSigue
  <2>2. pc'[h] \in PuntosTrunc
    BY <2>1 DEF PuntosTrunc
  <2> QED
    BY <1>1, <1>2, <2>1, <2>2, OcupadoTrunc
<1>4. CASE Ir(h, "trunc_liberar", loc[h])
  <2>1. pc'[h] = "trunc_liberar" /\ loc'[h] = loc[h] /\ pedido' = pedido
    BY <1>4, DelHilo, EfectoDeIr
  <2>2. EnLoSuyo(h)
    BY <1>1, <1>2, <1>4, SuyoAdentro
  <2>3. pc'[h] \in PuntosTrunc
    BY <2>1 DEF PuntosTrunc
  <2>4. \A p, b : ~Pone(h, p, b)'
    BY <2>3, SinPonerLuego
  <2>5. \A p \in Pagina, b \in Comun : Propia(h, p, b)' => Propia(h, p, b)
    BY <1>1, <2>1, <2>4 DEF Propia, Deja, EnDedup, PasosDedup
  <2>6. \A b \in Comun : Reclama(h, b)' => Reclama(h, b)
    BY <1>1, <2>1 DEF Reclama, BloqueDe
  <2> QED
    BY <1>1, <1>2, <2>1, <2>2, <2>3, <2>5, <2>6, OcupadoTrunc
<1> QED
  BY <1>3, <1>4 DEF TruncStat

LEMMA OcupadoTruncLiberar ==
  ASSUME InvBloques, Apartadas, OcupadoOK, NEW h \in Hilos, TruncLiberar(h)
  PROVE  OcupadoOK'
<1> DEFINE x == BloqueDe(pedido[h].f, loc[h].pag)
<1>1. /\ pc[h] = "trunc_liberar" /\ EnTruncate(h) /\ Achica(h) /\ pc[h] \in PuntosTrunc
      /\ UNCHANGED <<meta, logico, indice>> /\ bitmap' = bitmap \ {x} /\ TruncSigue(h)
  BY DEF TruncLiberar, EnTruncate, Achica, PuntosTrunc, PonerBitmap, disco
<1>2. ~Commited(pedido[h].f) /\ loc[h].pag \in Pagina
  BY <1>1, EnMedioDelTruncate
<1>3. /\ EnLoSuyo(h) /\ pc'[h] \in {"trunc_bajar", "trunc_meta"} /\ loc'[h].pag \in Pagina
      /\ \A p \in Pagina, b \in Comun : Propia(h, p, b)' => Propia(h, p, b)
      /\ \A b : ~Reclama(h, b)'
  BY <1>1, OcupadoTruncSigue
<1>4. pc'[h] \in PuntosTrunc /\ pedido' = pedido
  BY <1>3, VistaPropia DEF PuntosTrunc
<1>5. SinTag /\ Reclama(h, x)
  BY <1>1, <1>2, SinTagEnMedio DEF Reclama
<1>6. ~EnDedup(h) /\ ~EnDedup(h)' /\ PasoOK(h)' /\ \A p : ~ExentaPropia(h, p)
  BY <1>1, <1>2, <1>3, <1>4, SinPoner, SinPonerLuego DEF Commited
<1>7. \A b \in Comun : Publicado(b)' <=> Publicado(b)
  BY <1>1, <1>3, <1>6, PublicadoIgual
<1>8. DuenosOK'
  BY <1>1, <1>3, <1>5, <1>6, <1>7, DuenosLibera DEF OcupadoOK
<1> QED
  BY <1>1, <1>3, <1>6, <1>8, CursosSuyos DEF OcupadoOK

LEMMA OcupadoTruncMeta ==
  ASSUME InvBloques, OcupadoOK, NEW h \in Hilos, TruncMeta(h)
  PROVE  OcupadoOK'
<1> DEFINE f == pedido[h].f
           n == pedido[h].n
           s == [i \in 1..n |-> BloqueDe(f, i - 1)]
<1>1. /\ pc[h] = "trunc_meta" /\ EnTruncate(h) /\ pc[h] \in PuntosTrunc
      /\ meta' = [meta EXCEPT ![f] = [meta[f] EXCEPT !.tam = n, !.blocks = s]]
      /\ UNCHANGED <<logico, indice, bitmap>> /\ Ir(h, "responder", SinLocales)
  BY DEF TruncMeta, EnTruncate, PuntosTrunc, PonerMeta, Resultado
<1>2. f \in Archivos /\ Adentro(h) /\ DiscoOK /\ ~Commited(f) /\ n \in 0..MaxPaginas /\ n \in Nat
  BY <1>1, EnMedioDelTruncate
<1>3. meta[f] \in Metas /\ meta \in [Archivos -> Metas]
  BY <1>2 DEF DiscoOK
<1>4. /\ meta'[f].blocks = s /\ meta'[f].estado = meta[f].estado
      /\ \A g \in Archivos \ {f} : meta'[g] = meta[g]
  <2> HIDE DEF s
  <2> QED
    BY <1>1, <1>2, <1>3 DEF Metas
<1>5. pc'[h] = "responder" /\ pedido' = pedido
  BY <1>1, DelHilo, EfectoDeIr
<1>6. EnLoSuyo(h)
  BY <1>1, <1>2, <1>4, SuyoAdentro
<1>7. Len(s) = n /\ \A p \in Pagina : p < n => s[p + 1] = BloqueDe(f, p)
  <2>1. \A p \in Pagina : p < n => p + 1 \in 1..n /\ (p + 1) - 1 = p
    BY <1>2 DEF Pagina
  <2>2. s \in Seq(Bloque)
    BY <1>2, BloqueDeEs
  <2> QED
    BY <1>2, <2>1, <2>2
<1>8. pc'[h] \in Neutros
  BY <1>5 DEF Neutros
<1>9. \A p \in Pagina, b \in Comun : Propia(h, p, b)' => Propia(h, p, b)
  <2> SUFFICES ASSUME NEW p \in Pagina, NEW b \in Comun, Suya(h, p, b)' PROVE Propia(h, p, b)
    BY <1>8, NeutroLuego
  <2>1. logico[f][p] = b \/ (p < n /\ BloqueDe(f, p) = b)
    <3> HIDE DEF s
    <3>1. logico[f][p] = b \/ (p < Len(s) /\ s[p + 1] = b)
      BY <1>1, <1>4, <1>5 DEF Suya
    <3> QED
      BY <1>7, <3>1
  <2>2. CASE p < n /\ BloqueDe(f, p) = b
    <3>1. ~Deja(h, p)
      BY <1>1, <1>2, <2>2 DEF Deja, EnDedup, PasosDedup, Pagina
    <3> QED
      BY <2>2, <3>1 DEF Propia, BloqueDe, Comun
  <2> QED
    BY <2>1, <2>2 DEF Propia
<1>10. \A b \in Comun : Reclama(h, b)' => Reclama(h, b)
  BY <1>5 DEF Reclama
<1>11. pc'[h] \notin {"trunc_bajar", "trunc_stat", "trunc_liberar"} /\ n <= MaxPaginas
  BY <1>2, <1>5
<1> QED
  BY <1>1, <1>2, <1>4, <1>6, <1>7, <1>8, <1>9, <1>10, <1>11, OcupadoTrunc

-------------------------------------------------------------------------------
(* FLUSH and WRITE_BLOCK *)

PuntosEscritura == {"pagina", "copiar", "desenlazar", "enlazar"}

\* A thread that writes keeps, for each page, the block it is going to name in BLOCKS.
LEMMA SinDejar ==
  ASSUME NEW h \in Hilos, pc[h] \in PuntosEscritura \cup Neutros
  PROVE  /\ ~EnDedup(h)
         /\ \A p : ExentaPropia(h, p) <=> Commited(pedido[h].f)
         /\ \A p, b : Propia(h, p, b) <=> Suya(h, p, b) \/ Pone(h, p, b)
         /\ pc[h] \in PuntosEscritura =>
               \A p, b : Pone(h, p, b) <=> \E i \in PendienteDe(h, p) : loc[h].pend[i][2] = b
<1>1. ~EnDedup(h) /\ \A p : ~Deja(h, p) /\ ~Exime(h, p)
  BY DEF PuntosEscritura, Neutros, Exime, Deja, EnDedup, PasosDedup
<1> QED
  BY <1>1 DEF ExentaPropia, Propia, Suya, Pone, EnEscritura, PuntosEscritura

LEMMA SinDejarLuego ==
  ASSUME NEW h \in Hilos, pc'[h] \in PuntosEscritura \cup Neutros, pedido' = pedido
  PROVE  /\ ~EnDedup(h)'
         /\ \A p : ExentaPropia(h, p)' <=> meta'[pedido[h].f].estado = "COMMITED"
         /\ \A p, b : Propia(h, p, b)' <=> Suya(h, p, b)' \/ Pone(h, p, b)'
         /\ pc'[h] \in PuntosEscritura =>
               \A p, b : Pone(h, p, b)' <=>
                   \E i \in DOMAIN loc'[h].pend : loc'[h].pend[i][1] = p /\ loc'[h].pend[i][2] = b
         /\ pc'[h] \in Neutros => \A p, b : ~Pone(h, p, b)'
         /\ pc'[h] \notin {"crear_meta", "trunc_crecer"} => PasoOK(h)'
<1>1. ~EnDedup(h)' /\ \A p : ~Deja(h, p)' /\ ~Exime(h, p)'
  BY DEF PuntosEscritura, Neutros, Exime, Deja, EnDedup, PasosDedup
<1>2. pc'[h] \in Neutros => \A p, b : ~Pone(h, p, b)'
  BY <1>1 DEF Pone, EnEscritura, Neutros
<1>3. pc'[h] \notin {"crear_meta", "trunc_crecer"} => PasoOK(h)'
  BY <1>1 DEF PasoOK, EnTruncate, Achica, PuntosEscritura, Neutros
<1>4. pc'[h] \in PuntosEscritura =>
          \A p, b : Pone(h, p, b)' <=>
              \E i \in DOMAIN loc'[h].pend : loc'[h].pend[i][1] = p /\ loc'[h].pend[i][2] = b
  BY <1>1 DEF Pone, EnEscritura, PuntosEscritura, PendienteDe
<1>5. /\ \A p : ExentaPropia(h, p)' <=> meta'[pedido[h].f].estado = "COMMITED"
      /\ \A p, b : Propia(h, p, b)' <=> Suya(h, p, b)' \/ Pone(h, p, b)'
  BY <1>1 DEF ExentaPropia, Propia, Suya, Commited
<1> QED
  BY <1>1, <1>2, <1>3, <1>4, <1>5

\* Inside a FLUSH or WRITE_BLOCK.
LEMMA EnMedioDeEscribir ==
  ASSUME InvBloques, NEW h \in Hilos, pc[h] \in PuntosEscritura \cup {"escribir"}
  PROVE  /\ pedido[h].f \in Archivos /\ DiscoOK /\ Adentro(h) /\ loc[h] \in Locales
         /\ loc[h].pend \in Seq(Pagina \X Bloque \X Contenidos)
         /\ pc[h] \in PuntosEscritura \cup Neutros
         /\ pc[h] \in {"copiar", "desenlazar", "enlazar"} => EnCurso(h)[1] \in Pagina
<1>1. EnEscritura(h)
  BY DEF EnEscritura, PuntosEscritura
<1>2. pc[h] \in PuntosEscritura \cup Neutros
  BY DEF Neutros
<1> QED
  BY <1>1, <1>2, EnLaEscritura, CamposDe DEF CursoOK

\* A step of a write that takes no block.
LEMMA OcupadoEscritura ==
  ASSUME InvBloques, OcupadoOK, NEW h \in Hilos, pc[h] \in PuntosEscritura \cup {"escribir"},
         NEW paso \in PuntosEscritura \cup {"escribir", "responder"}, NEW l, Ir(h, paso, l),
         UNCHANGED <<indice, bitmap>>,
         \A f \in Archivos \ {pedido[h].f} : meta'[f] = meta[f] /\ logico'[f] = logico[f],
         meta'[pedido[h].f] = meta[pedido[h].f] \/ Len(meta'[pedido[h].f].blocks) <= MaxPaginas,
         meta'[pedido[h].f].estado = meta[pedido[h].f].estado,
         \A p \in Pagina, b \in Comun : Suya(h, p, b)' => Suya(h, p, b) \/ Pone(h, p, b),
         paso \in PuntosEscritura => pc[h] \in PuntosEscritura /\ l.pend = loc[h].pend,
         \A b : Reclama(h, b)' => Reclama(h, b)
  PROVE  OcupadoOK'
<1>1. pc'[h] = paso /\ loc'[h] = l /\ pedido' = pedido
  BY DelHilo, EfectoDeIr
<1>2. Adentro(h) /\ pc[h] \in PuntosEscritura \cup Neutros
  BY EnMedioDeEscribir
<1>3. EnLoSuyo(h)
  BY <1>2, SuyoAdentro
<1>4. pc'[h] \in PuntosEscritura \cup Neutros /\ (pc'[h] \in PuntosEscritura \/ pc'[h] \in Neutros)
      /\ pc'[h] \notin {"crear_meta", "trunc_crecer"}
  BY <1>1 DEF Neutros, PuntosEscritura
<1>5. \A p, b : Pone(h, p, b)' => Pone(h, p, b)
  <2>1. CASE pc'[h] \in Neutros
    BY <1>1, <1>4, <2>1, SinDejarLuego
  <2>2. CASE pc'[h] \in PuntosEscritura
    <3>1. \A p, b : Pone(h, p, b)' <=>
              \E i \in DOMAIN l.pend : l.pend[i][1] = p /\ l.pend[i][2] = b
      BY <1>1, <1>4, <2>2, SinDejarLuego
    <3>2. \A p, b : Pone(h, p, b) <=> \E i \in PendienteDe(h, p) : loc[h].pend[i][2] = b
      BY <1>1, <1>2, <2>2, SinDejar
    <3> QED
      BY <1>1, <2>2, <3>1, <3>2 DEF PendienteDe
  <2> QED
    BY <1>4, <2>1, <2>2
<1>6. \A p \in Pagina, b \in Comun : Propia(h, p, b)' => Propia(h, p, b)
  BY <1>1, <1>2, <1>4, <1>5, SinDejar, SinDejarLuego
<1>7. \A p \in Pagina : ExentaPropia(h, p) => ExentaPropia(h, p)'
  BY <1>1, <1>2, <1>4, SinDejar, SinDejarLuego DEF Commited
<1>8. ~EnDedup(h) /\ ~EnDedup(h)' /\ PasoOK(h)'
  BY <1>1, <1>2, <1>4, SinDejar, SinDejarLuego
<1> QED
  BY <1>3, <1>6, <1>7, <1>8, OcupadoQuieto

LEMMA OcupadoEscribir ==
  ASSUME InvBloques, OcupadoOK, NEW h \in Hilos, Flush(h) \/ EscribirBloque(h)
  PROVE  OcupadoOK'
<1> DEFINE f == pedido[h].f
           l == [SinLocales EXCEPT !.cola = pedido[h].paginas]
<1>1. PICK op : Escribir(h, op)
  BY DEF Flush, EscribirBloque
<1>2. CASE Falla(h)
  BY <1>1, <1>2, OcupadoFalla DEF Falla, Escribir, Empieza, Adentro
<1>3. CASE ~Falla(h)
  <2>1. /\ Empieza(h, op) /\ pc[h] = "entrar" /\ f # Base /\ UNCHANGED <<disco, bitmap>>
        /\ Ir(h, "pagina", l)
    BY <1>1, <1>3 DEF Escribir, Empieza
  <2>2. pc'[h] = "pagina" /\ loc'[h] = l /\ pedido' = pedido /\ UNCHANGED <<meta, logico, indice, bitmap>>
    BY <2>1, DelHilo, EfectoDeIr DEF disco
  <2>3. l.pend = <<>>
    BY DEF SinLocales
  <2>4. EnLoSuyo(h)
    BY <2>1, <2>2, SuyoAlEntrar
  <2>5. pc[h] \in Neutros /\ pc'[h] \in PuntosEscritura
    BY <2>1, <2>2 DEF Neutros, PuntosEscritura
  <2> HIDE DEF l
  <2>6. \A p, b : ~Pone(h, p, b)'
    BY <2>2, <2>3, <2>5, SinDejarLuego
  <2>7. \A p \in Pagina, b \in Comun : Propia(h, p, b)' => Propia(h, p, b)
    <3>1. \A p, b : Suya(h, p, b)' <=> Suya(h, p, b)
      BY <2>2 DEF Suya
    <3> QED
      BY <2>2, <2>5, <2>6, <3>1, Neutro, SinDejarLuego
  <2>8. \A p \in Pagina : ExentaPropia(h, p) => ExentaPropia(h, p)'
    BY <2>2, <2>5, Neutro, SinDejarLuego DEF Commited
  <2>9. ~EnDedup(h) /\ ~EnDedup(h)' /\ PasoOK(h)'
    BY <2>2, <2>5, Neutro, SinDejarLuego
  <2>10. \A b \in Comun : Reclama(h, b)' => Reclama(h, b)
    BY <2>2 DEF Reclama
  <2> QED
    BY <2>2, <2>4, <2>7, <2>8, <2>9, <2>10, OcupadoQuieto
<1> QED
  BY <1>2, <1>3

LEMMA OcupadoPrepararPagina ==
  ASSUME InvBloques, Intacto, OcupadoOK, NEW h \in Hilos, PrepararPagina(h)
  PROVE  OcupadoOK'
<1> DEFINE f == pedido[h].f
           p == EnCurso(h)[1]
           l == [loc[h] EXCEPT !.nuevo = PrimerLibre]
<1>1. pc[h] = "pagina" /\ loc[h].cola # <<>> /\ pc[h] \in PuntosEscritura
  BY DEF PrepararPagina, PuntosEscritura
<1>2. f \in Archivos /\ DiscoOK /\ Adentro(h) /\ loc[h] \in Locales /\ p \in Nat
  BY <1>1, EnMedioDeEscribir, EnCursoEs
<1>3. Legible(f, p) => ~Unico(logico[f][p])
  BY <1>2, LegibleEs, NuncaUnico DEF Legible
<1>4. UNCHANGED <<meta, logico, indice>>
  BY DEF PrepararPagina, PonerBitmap, disco
<1>5. CASE Saltear(h) /\ UNCHANGED bitmap
  <2>1. /\ Ir(h, "pagina", [loc[h] EXCEPT !.cola = Tail(loc[h].cola), !.nuevo = 0])
        /\ [loc[h] EXCEPT !.cola = Tail(loc[h].cola), !.nuevo = 0].pend = loc[h].pend
    BY <1>2, <1>5 DEF Saltear, Locales
  <2>2. pc'[h] = "pagina" /\ pedido' = pedido
    BY <2>1, DelHilo, EfectoDeIr
  <2>3. /\ \A b : Reclama(h, b)' => Reclama(h, b)
        /\ \A q, b : Suya(h, q, b)' <=> Suya(h, q, b)
    BY <1>4, <2>2 DEF Reclama, Suya
  <2> QED
    BY <1>1, <1>4, <1>5, <2>1, <2>3, OcupadoEscritura
<1>6. CASE Libres # {} /\ Ir(h, "copiar", l) /\ bitmap' = bitmap \cup {PrimerLibre}
  <2>1. PrimerLibre \in Comun \ bitmap /\ PrimerLibre \in Bloque
    BY <1>6, PrimerLibreEs DEF Libres, Comun
  <2>2. pc'[h] = "copiar" /\ loc'[h] = l /\ pedido' = pedido
    BY <1>6, DelHilo, EfectoDeIr
  <2>3. l.pend = loc[h].pend /\ l.nuevo = PrimerLibre
    BY <1>2 DEF Locales
  <2> HIDE DEF l
  <2>4. EnLoSuyo(h) /\ pc'[h] \in PuntosEscritura
    BY <1>2, <1>4, <1>6, <2>2, SuyoAdentro DEF PuntosEscritura
  <2>5. \A b \in Comun : Reclama(h, b)' => b = PrimerLibre
    BY <2>2, <2>3 DEF Reclama
  <2>6. \A q, b : /\ Suya(h, q, b)' <=> Suya(h, q, b)
                  /\ Pone(h, q, b)' <=> Pone(h, q, b)
    <3>1. \A q, b : Suya(h, q, b)' <=> Suya(h, q, b)
      BY <1>4, <2>2 DEF Suya
    <3>2. \A q, b : Pone(h, q, b)' <=> Pone(h, q, b)
      BY <1>1, <2>2, <2>3, <2>4, SinDejar, SinDejarLuego DEF PendienteDe
    <3> QED
      BY <3>1, <3>2
  <2>7. /\ \A q, b : Propia(h, q, b)' => Propia(h, q, b)
        /\ \A q : ExentaPropia(h, q) => ExentaPropia(h, q)'
        /\ ~EnDedup(h) /\ ~EnDedup(h)' /\ PasoOK(h)'
    <3>1. \A q, b : Propia(h, q, b)' => Propia(h, q, b)
      BY <1>1, <2>2, <2>4, <2>6, SinDejar, SinDejarLuego
    <3>2. \A q : ExentaPropia(h, q) => ExentaPropia(h, q)'
      BY <1>1, <1>4, <2>2, <2>4, SinDejar, SinDejarLuego DEF Commited
    <3>3. ~EnDedup(h) /\ ~EnDedup(h)' /\ PasoOK(h)'
      BY <1>1, <2>2, <2>4, SinDejar, SinDejarLuego
    <3> QED
      BY <3>1, <3>2, <3>3
  <2>8. \A b \in Comun : Publicado(b)' <=> Publicado(b)
    BY <1>4, <2>4, <2>7, PublicadoIgual
  <2>9. DuenosOK'
    BY <1>6, <2>1, <2>4, <2>5, <2>7, <2>8, DuenosReserva DEF OcupadoOK
  <2> QED
    BY <1>4, <2>4, <2>7, <2>9, CursosSuyos DEF OcupadoOK
<1> QED
  BY <1>3, <1>5, <1>6 DEF PrepararPagina, PonerBitmap

LEMMA OcupadoCopiar ==
  ASSUME InvBloques, Intacto, OcupadoOK, NEW h \in Hilos, Copiar(h)
  PROVE  OcupadoOK'
<1>1. pc[h] = "copiar" /\ pc[h] \in PuntosEscritura
  BY DEF Copiar, PuntosEscritura
<1>2. UNCHANGED <<meta, logico, indice, bitmap>> /\ Ir(h, "desenlazar", loc[h])
  BY CopiaEnSuNodo
<1>3. pc'[h] = "desenlazar" /\ loc'[h] = loc[h] /\ pedido' = pedido
  BY <1>2, DelHilo, EfectoDeIr
<1>4. /\ \A b : Reclama(h, b)' => Reclama(h, b)
      /\ \A q, b : Suya(h, q, b)' <=> Suya(h, q, b)
  BY <1>1, <1>2, <1>3 DEF Reclama, Suya
<1>5. "desenlazar" \in PuntosEscritura
  BY DEF PuntosEscritura
<1> QED
  BY <1>1, <1>2, <1>4, <1>5, OcupadoEscritura

LEMMA OcupadoDesenlazar ==
  ASSUME InvBloques, OcupadoOK, NEW h \in Hilos, Desenlazar(h)
  PROVE  OcupadoOK'
<1> DEFINE f == pedido[h].f
           p == EnCurso(h)[1]
<1>1. /\ pc[h] = "desenlazar" /\ pc[h] \in PuntosEscritura
      /\ Enlazar(f, p, Nadie) /\ Ir(h, "enlazar", loc[h])
  BY DEF Desenlazar, PuntosEscritura
<1>2. f \in Archivos /\ DiscoOK
  BY <1>1, EnMedioDeEscribir
<1>3. /\ \A g \in Archivos \ {f} : logico'[g] = logico[g]
      /\ \A q \in Pagina : logico'[f][q] = IF q = p THEN Nadie ELSE logico[f][q]
      /\ UNCHANGED <<meta, indice, bitmap>>
  BY <1>1, <1>2, EfectoDeEnlazar
<1>4. pc'[h] = "enlazar" /\ loc'[h] = loc[h] /\ pedido' = pedido
  BY <1>1, DelHilo, EfectoDeIr
<1>5. \A b \in Comun : b # Nadie
  BY BloquesAssumption DEF Comun, Bloque
<1>6. /\ \A b : Reclama(h, b)' => Reclama(h, b)
      /\ \A q \in Pagina, b \in Comun : Suya(h, q, b)' => Suya(h, q, b)
  BY <1>1, <1>3, <1>4, <1>5 DEF Reclama, Suya
<1>7. "enlazar" \in PuntosEscritura
  BY DEF PuntosEscritura
<1> QED
  BY <1>1, <1>3, <1>6, <1>7, OcupadoEscritura

LEMMA OcupadoReenlazar ==
  ASSUME InvBloques, Intacto, OcupadoOK, NEW h \in Hilos, Reenlazar(h)
  PROVE  OcupadoOK'
<1> DEFINE f == pedido[h].f
           p == EnCurso(h)[1]
           c == loc[h].nuevo
           l == ConPendiente(h, c)
           e == <<p, c, EnCurso(h)[2]>>
<1>1. pc[h] = "enlazar" /\ pc[h] \in PuntosEscritura
  BY DEF Reenlazar, PuntosEscritura
<1>2. /\ f \in Archivos /\ DiscoOK /\ Adentro(h) /\ loc[h] \in Locales /\ p \in Pagina /\ c \in Bloque
      /\ loc[h].pend \in Seq(Pagina \X Bloque \X Contenidos)
  BY <1>1, EnMedioDeEscribir, CamposDe
<1>3. nodo[c] = c /\ c # Nadie
  BY <1>2, BloquesAssumption DEF Intacto, Bloque
<1>4. Enlazar(f, p, c) /\ Ir(h, "pagina", l)
  BY <1>3 DEF Reenlazar
<1>5. /\ \A g \in Archivos \ {f} : logico'[g] = logico[g]
      /\ \A q \in Pagina : logico'[f][q] = IF q = p THEN c ELSE logico[f][q]
      /\ UNCHANGED <<meta, indice, bitmap>>
  BY <1>2, <1>4, EfectoDeEnlazar
<1>6. pc'[h] = "pagina" /\ loc'[h] = l /\ pedido' = pedido
  BY <1>4, DelHilo, EfectoDeIr
<1>7. l.pend = Append(loc[h].pend, e)
  BY <1>2 DEF ConPendiente, Locales
<1>8. \A i \in DOMAIN l.pend : l.pend[i] = e \/ (i \in DOMAIN loc[h].pend /\ l.pend[i] = loc[h].pend[i])
  BY <1>2, <1>7
<1>9. e[1] = p /\ e[2] = c
  OBVIOUS
<1> HIDE DEF l, e
<1>10. EnLoSuyo(h) /\ pc'[h] \in PuntosEscritura
  BY <1>2, <1>4, <1>5, <1>6, SuyoAdentro DEF PuntosEscritura
<1>11. \A q, b : Pone(h, q, b)' => Pone(h, q, b) \/ (q = p /\ b = c)
  BY <1>1, <1>6, <1>8, <1>9, <1>10, SinDejar, SinDejarLuego DEF PendienteDe
<1>12. \A q \in Pagina, b \in Comun : Suya(h, q, b)' => Suya(h, q, b) \/ (q = p /\ b = c)
  BY <1>5, <1>6 DEF Suya
<1>13. \A q \in Pagina, b \in Comun : Propia(h, q, b)' => Propia(h, q, b) \/ (q = p /\ b = c)
  BY <1>1, <1>6, <1>10, <1>11, <1>12, SinDejar, SinDejarLuego
<1>14. \A q : ExentaPropia(h, q) => ExentaPropia(h, q)'
  BY <1>1, <1>5, <1>6, <1>10, SinDejar, SinDejarLuego DEF Commited
<1>15. ~EnDedup(h) /\ ~EnDedup(h)' /\ PasoOK(h)'
  BY <1>1, <1>6, <1>10, SinDejar, SinDejarLuego
<1>16. Reclama(h, c) /\ \A b : ~Reclama(h, b)'
  BY <1>1, <1>6 DEF Reclama
<1>17. \A b \in Comun : Publicado(b)' <=> Publicado(b)
  BY <1>5, <1>10, <1>15, PublicadoIgual
<1>18. DuenosOK'
  BY <1>2, <1>5, <1>10, <1>13, <1>14, <1>16, <1>17, DuenosToma DEF OcupadoOK
<1> QED
  BY <1>5, <1>10, <1>15, <1>18, CursosSuyos DEF OcupadoOK

LEMMA OcupadoGuardarBlocks ==
  ASSUME InvBloques, OcupadoOK, NEW h \in Hilos, GuardarBlocks(h)
  PROVE  OcupadoOK'
<1> DEFINE f == pedido[h].f
           B == meta[f].blocks
           S == Guardados(h, B)
<1>1. /\ pc[h] = "pagina" /\ pc[h] \in PuntosEscritura /\ Ir(h, "escribir", loc[h])
      /\ UNCHANGED <<logico, indice, bitmap>>
      /\ meta' = [meta EXCEPT ![f] = IF ok[h] THEN [meta[f] EXCEPT !.blocks = S] ELSE meta[f]]
  BY DEF GuardarBlocks, PonerMeta, Guardados, PuntosEscritura
<1>2. f \in Archivos /\ DiscoOK
  BY <1>1, EnMedioDeEscribir
<1>3. meta \in [Archivos -> Metas] /\ meta[f] \in Metas /\ B \in Seq(Bloque) /\ Len(B) \in Nat
  BY <1>2, SonMetas DEF DiscoOK
<1>4. DOMAIN S = 1..Len(B)
  BY <1>3 DEF Guardados
<1>5. \A p \in Pagina : p < Len(B) => S[p + 1] = B[p + 1] \/ Pone(h, p, S[p + 1])
  <2> SUFFICES ASSUME NEW p \in Pagina, p < Len(B), S[p + 1] # B[p + 1] PROVE Pone(h, p, S[p + 1])
    OBVIOUS
  <2>1. p + 1 \in DOMAIN B /\ (p + 1) - 1 = p
    BY <1>3 DEF Pagina
  <2> DEFINE j == CHOOSE i \in PendienteDe(h, p) : TRUE
  <2>2. S[p + 1] = IF PendienteDe(h, p) = {} THEN B[p + 1] ELSE loc[h].pend[j][2]
    BY <2>1 DEF Guardados
  <2>3. j \in PendienteDe(h, p) /\ S[p + 1] = loc[h].pend[j][2]
    BY <2>2
  <2> QED
    BY <1>1, <2>3, SinDejar
<1>6. /\ meta'[f].estado = meta[f].estado
      /\ meta'[f] = meta[f] \/ meta'[f].blocks = S
      /\ \A g \in Archivos \ {f} : meta'[g] = meta[g]
  <2> HIDE DEF S
  <2> QED
    BY <1>1, <1>2, <1>3 DEF Metas
<1>7. pc'[h] = "escribir" /\ pedido' = pedido
  BY <1>1, DelHilo, EfectoDeIr
<1>8. Len(S) = Len(B) /\ Len(B) <= MaxPaginas
  <2>1. Len(S) = Len(B)
    BY <1>3, <1>4
  <2> QED
    BY <1>2, <2>1 DEF OcupadoOK, CursosOK, LargosOK
<1> HIDE DEF S
<1>9. \A p \in Pagina, b \in Comun : Suya(h, p, b)' => Suya(h, p, b) \/ Pone(h, p, b)
  <2> SUFFICES ASSUME NEW p \in Pagina, NEW b \in Comun, Suya(h, p, b)'
               PROVE  Suya(h, p, b) \/ Pone(h, p, b)
    OBVIOUS
  <2>1. CASE meta'[f] = meta[f]
    BY <1>1, <1>7, <2>1 DEF Suya
  <2>2. CASE meta'[f].blocks = S
    BY <1>1, <1>5, <1>7, <1>8, <2>2 DEF Suya
  <2> QED
    BY <1>6, <2>1, <2>2
<1>10. \A b : ~Reclama(h, b)'
  BY <1>7 DEF Reclama
<1>11. "escribir" \notin PuntosEscritura
  BY DEF PuntosEscritura
<1> QED
  BY <1>1, <1>6, <1>8, <1>9, <1>10, <1>11, OcupadoEscritura

LEMMA OcupadoEscribirPendiente ==
  ASSUME InvBloques, OcupadoOK, NEW h \in Hilos, EscribirPendiente(h) \/ TerminarEscritura(h)
  PROVE  OcupadoOK'
<1>1. pc[h] = "escribir" /\ UNCHANGED <<meta, logico, indice, bitmap>>
  BY DEF EscribirPendiente, TerminarEscritura, PersistirBitmap, disco
<1>2. PICK paso \in {"escribir", "responder"}, l \in {[loc[h] EXCEPT !.pend = Tail(@)], SinLocales} :
          Ir(h, paso, l)
  BY DEF EscribirPendiente, TerminarEscritura, Resultado
<1>3. pc'[h] = paso /\ pedido' = pedido
  BY <1>2, DelHilo, EfectoDeIr
<1>4. /\ \A b : Reclama(h, b)' => Reclama(h, b)
      /\ \A q, b : Suya(h, q, b)' <=> Suya(h, q, b)
  BY <1>1, <1>3 DEF Reclama, Suya
<1>5. paso \notin PuntosEscritura
  BY DEF PuntosEscritura
<1> QED
  BY <1>1, <1>2, <1>4, <1>5, OcupadoEscritura

-------------------------------------------------------------------------------
(* COMMIT *)

LEMMA OcupadoCommit ==
  ASSUME InvBloques, OcupadoOK, NEW h \in Hilos, Commit(h)
  PROVE  OcupadoOK'
<1> DEFINE f == pedido[h].f
           m == meta[f]
           B == meta[f].blocks
           l == [SinLocales EXCEPT !.lista = B, !.idx = indice]
<1>1. pc[h] = "entrar" /\ UNCHANGED <<disco, bitmap>> /\ pc[h] \in Neutros /\ Empieza(h, "COMMIT")
  BY DEF Commit, Empieza, Falla, Neutros
<1>2. UNCHANGED <<meta, logico, indice, bitmap>>
  BY <1>1 DEF disco
<1>3. CASE \E r : Resultado(h, r)
  BY <1>1, <1>3, OcupadoFalla DEF Adentro
<1>4. ASSUME NEW paso \in {"commit_estado", "dedup_pag"}, NEW k, Ir(h, paso, k),
             ~Commited(f), f # Base
      PROVE  /\ pc'[h] = paso /\ loc'[h] = k /\ pedido' = pedido /\ EnLoSuyo(h)
             /\ (\A p \in Pagina : ~ExentaPropia(h, p)) /\ (\A b : ~Reclama(h, b)')
             /\ \A p, b : Propia(h, p, b) <=> Suya(h, p, b)
  <2>1. pc'[h] = paso /\ loc'[h] = k /\ pedido' = pedido
    BY <1>4, DelHilo, EfectoDeIr
  <2>2. EnLoSuyo(h)
    BY <1>1, <1>2, <1>4, SuyoAlEntrar
  <2>3. \A b : ~Reclama(h, b)'
    BY <2>1 DEF Reclama
  <2> QED
    BY <1>1, <1>4, <2>1, <2>2, <2>3, Neutro
<1>5. CASE Ir(h, "commit_estado", SinLocales) /\ ~Commited(f) /\ f # Base
  <2>1. pc'[h] = "commit_estado" /\ pedido' = pedido /\ EnLoSuyo(h)
        /\ (\A p \in Pagina : ~ExentaPropia(h, p)) /\ (\A b : ~Reclama(h, b)')
        /\ \A p, b : Propia(h, p, b) <=> Suya(h, p, b)
    BY <1>4, <1>5
  <2>2. ~EnDedup(h) /\ ~EnDedup(h)' /\ PasoOK(h)' /\ \A p, b : ~Pone(h, p, b)'
    BY <1>1, <2>1 DEF PasoOK, EnTruncate, EnDedup, EnEscritura, Achica, PasosDedup, Pone
  <2>3. \A p \in Pagina, b \in Comun : Propia(h, p, b)' => Propia(h, p, b)
    BY <1>2, <2>1, <2>2 DEF Propia, Suya
  <2> QED
    BY <1>2, <2>1, <2>2, <2>3, OcupadoQuieto
<1>6. CASE Ir(h, "dedup_pag", l) /\ ~Commited(f) /\ f # Base /\ HashLibre
  <2>1. pc'[h] = "dedup_pag" /\ loc'[h] = l /\ pedido' = pedido /\ EnLoSuyo(h)
        /\ (\A p \in Pagina : ~ExentaPropia(h, p)) /\ (\A b : ~Reclama(h, b)')
        /\ \A p, b : Propia(h, p, b) <=> Suya(h, p, b)
    BY <1>4, <1>6
  <2>2. l.lista = B /\ l.idx = indice /\ l.pag = 0
    BY DEF SinLocales
  <2> HIDE DEF l
  <2>3. PasoOK(h)' /\ EnDedup(h)' /\ ~EnDedup(h)
    <3>1. ListaOK(h)'
      BY <1>2, <2>1, <2>2 DEF ListaOK
    <3> QED
      BY <1>1, <1>2, <1>6, <2>1, <3>1 DEF PasoOK, EnDedup, PasosDedup, Commited, Achica
  <2>4. \A p \in Pagina, b \in Comun : Propia(h, p, b)' => Propia(h, p, b)
    BY <1>2, <2>1, <2>2, <2>3 DEF Propia, Suya, Deja, Pone, EnEscritura
  <2>5. \A b : Publicado(b)' <=> Publicado(b)
    <3>1. \A b : Publica(h, b)' <=> \E c \in Contenidos : indice[c] = b
      BY <2>1, <2>2, <2>3 DEF Publica
    <3>2. \A b : ~Publica(h, b)
      BY <2>3 DEF Publica
    <3>3. \A g \in Hilos \ {h} : \A b : Publica(g, b)' <=> Publica(g, b)
      BY <2>1, VistaPropia
    <3> QED
      BY <1>2, <3>1, <3>2, <3>3 DEF Publicado
  <2>6. DuenosOK'
    BY <1>2, <2>1, <2>4, <2>5, DuenosQuietos DEF OcupadoOK
  <2> QED
    BY <1>2, <1>6, <2>1, <2>3, <2>6, CursosSuyos DEF OcupadoOK
<1>7. ~Commited(f) /\ m.estado = "WORK_IN_PROGRESS" => f # Base
  BY DEF InvBloques, BaseOK, Commited
<1>8. \/ Falla(h) \/ Resultado(h, TRUE)
      \/ /\ m.estado = "WORK_IN_PROGRESS" /\ HashLibre
         /\ Ir(h, "commit_estado", SinLocales) \/ Ir(h, "dedup_pag", l)
  BY DEF Commit
<1>9. CASE Falla(h) \/ Resultado(h, TRUE)
  BY <1>3, <1>9 DEF Falla
<1>10. CASE m.estado = "WORK_IN_PROGRESS" /\ HashLibre
  <2>1. ~Commited(f) /\ f # Base
    BY <1>7, <1>10 DEF Commited
  <2> QED
    BY <1>5, <1>6, <1>8, <1>9, <1>10, <2>1
<1> QED
  BY <1>8, <1>9, <1>10

\* Inside the deduplication.
LEMMA EnMedioDelDedup ==
  ASSUME InvBloques, OcupadoOK, Apartadas, NEW h \in Hilos, EnDedup(h)
  PROVE  LET f == pedido[h].f
             B == meta[f].blocks IN
         /\ f \in Archivos /\ DiscoOK /\ Adentro(h) /\ loc[h] \in Locales /\ SinTag
         /\ ~Commited(f) /\ ListaOK(h) /\ B \in Seq(Bloque) /\ Len(B) \in Nat /\ Len(B) <= MaxPaginas
         /\ loc[h].lista \in Seq(Bloque) /\ Len(loc[h].lista) = Len(B)
         /\ loc[h].pag \in Nat /\ loc[h].idx \in [Contenidos -> Bloque \cup {Nadie}]
         /\ loc[h].pag < Len(B) => loc[h].pag \in Pagina /\ loc[h].pag + 1 \in 1..Len(B)
         /\ pc[h] # "dedup_pag" => loc[h].pag < Len(B)
<1> DEFINE B == meta[pedido[h].f].blocks
<1>1. EnCommit(h)
  BY DEF EnCommit, EnDedup
<1>2. /\ pedido[h].f \in Archivos /\ DiscoOK /\ Adentro(h) /\ loc[h] \in Locales /\ CursoOK(h)
      /\ B \in Seq(Bloque) /\ Len(B) \in Nat
  BY <1>1, EnElCommit DEF Largo
<1>3. ~Commited(pedido[h].f) /\ ListaOK(h) /\ Len(B) <= MaxPaginas
  BY <1>2 DEF OcupadoOK, CursosOK, PasoOK, LargosOK
<1>4. /\ Len(loc[h].lista) = Len(B) /\ (pc[h] # "dedup_pag" => loc[h].pag < Len(B))
  BY <1>2 DEF CursoOK, EnDedup, Largo
<1>5. loc[h].pag \in Nat /\ loc[h].lista \in Seq(Bloque) /\ loc[h].idx \in [Contenidos -> Bloque \cup {Nadie}]
  BY <1>2, CamposDe
<1>6. loc[h].pag < Len(B) => loc[h].pag \in Pagina /\ loc[h].pag + 1 \in 1..Len(B)
  <2>1. \A i, n \in Nat : i < n /\ n <= MaxPaginas => i \in Pagina /\ i + 1 \in 1..n
    BY BloquesAssumption DEF Pagina
  <2> QED
    BY <1>2, <1>3, <1>5, <2>1
<1> QED
  BY <1>1, <1>2, <1>3, <1>4, <1>5, <1>6, SinTagEnMedio

\* What a COMMIT keeps is what it links and what it is going to save in BLOCKS.
LEMMA EnDedupEs ==
  ASSUME NEW h \in Hilos, EnDedup(h)
  PROVE  /\ \A p, b : Propia(h, p, b) <=>
               \/ logico[pedido[h].f][p] = b
               \/ p < Len(loc[h].lista) /\ loc[h].lista[p + 1] = b
         /\ \A p : ExentaPropia(h, p) <=>
               \/ Commited(pedido[h].f) \/ p < loc[h].pag
               \/ p = loc[h].pag /\ pc[h] # "dedup_pag"
<1>1. ~EnEscritura(h) /\ pc[h] # "commit_estado" /\ \A p : Deja(h, p)
  BY DEF EnDedup, PasosDedup, EnEscritura, Deja
<1> QED
  BY <1>1 DEF Propia, Pone, ExentaPropia, Exime

LEMMA EnDedupLuego ==
  ASSUME NEW h \in Hilos, pc'[h] \in PasosDedup, pedido' = pedido
  PROVE  /\ EnDedup(h)'
         /\ \A p, b : Propia(h, p, b)' <=>
               \/ logico'[pedido[h].f][p] = b
               \/ p < Len(loc'[h].lista) /\ loc'[h].lista[p + 1] = b
         /\ \A p : ExentaPropia(h, p)' <=>
               \/ meta'[pedido[h].f].estado = "COMMITED" \/ p < loc'[h].pag
               \/ p = loc'[h].pag /\ pc'[h] # "dedup_pag"
         /\ ListaOK(h)' /\ meta'[pedido[h].f].estado # "COMMITED" => PasoOK(h)'
<1>1. /\ EnDedup(h)' /\ ~EnEscritura(h)' /\ pc'[h] # "commit_estado"
      /\ \A p : Deja(h, p)'
  BY DEF EnDedup, PasosDedup, EnEscritura, Deja
<1>2. ListaOK(h)' /\ meta'[pedido[h].f].estado # "COMMITED" => PasoOK(h)'
  BY DEF PasoOK, Achica, Commited, PasosDedup
<1> QED
  BY <1>1, <1>2 DEF Propia, Pone, ExentaPropia, Exime, Commited

\* A step inside the deduplication, past the page it is at, or on with it.
LEMMA DedupAvanza ==
  ASSUME InvBloques, OcupadoOK, Apartadas, NEW h \in Hilos, EnDedup(h),
         NEW paso \in PasosDedup, NEW l, Ir(h, paso, l), UNCHANGED <<meta, indice>>,
         \A f \in Archivos \ {pedido[h].f} : logico'[f] = logico[f],
         \/ paso = "dedup_pag" /\ l.pag = loc[h].pag + 1
         \/ paso # "dedup_pag" /\ l.pag = loc[h].pag,
         \A p \in Pagina : p < Len(loc[h].lista) /\ p > loc[h].pag => l.lista[p + 1] = loc[h].lista[p + 1],
         ~l.modif => ~loc[h].modif /\ l.lista = loc[h].lista,
         \A c \in Contenidos : loc[h].idx[c] # Nadie => l.idx[c] = loc[h].idx[c],
         paso = "dedup_link" => \E c \in Contenidos : l.idx[c] = l.lista[l.pag + 1]
  PROVE  /\ EnLoSuyo(h) /\ CursosOK' /\ pc'[h] = paso /\ loc'[h] = l /\ pedido' = pedido
         /\ EnDedup(h)' /\ \A p \in Pagina : ExentaPropia(h, p) => ExentaPropia(h, p)'
         /\ l.idx = loc[h].idx => \A b : Publicado(b)' <=> Publicado(b)
<1> DEFINE f == pedido[h].f
           B == meta[f].blocks
<1>1. /\ f \in Archivos /\ Adentro(h) /\ ListaOK(h) /\ ~Commited(f) /\ loc[h].pag \in Nat
      /\ Len(loc[h].lista) = Len(B)
  BY EnMedioDelDedup
<1>2. pc'[h] = paso /\ loc'[h] = l /\ pedido' = pedido
  BY DelHilo, EfectoDeIr
<1>3. EnLoSuyo(h)
  BY <1>1, SuyoAdentro
<1>4. EnDedup(h)'
  BY <1>2 DEF EnDedup
<1>5. \A p \in Pagina : p \in Nat
  BY DEF Pagina
<1>6. ListaOK(h)'
  <2>1. \A p \in Pagina : p < Len(B) /\ (p > l.pag \/ (p = l.pag /\ paso = "dedup_pag"))
            => l.lista[p + 1] = B[p + 1]
    <3>1. \A p \in Pagina : p > l.pag \/ (p = l.pag /\ paso = "dedup_pag") => p > loc[h].pag
      BY <1>1, <1>5
    <3> QED
      BY <1>1, <3>1 DEF ListaOK
  <2>2. ~l.modif => l.lista = B
    BY <1>1 DEF ListaOK
  <2>3. \A c \in Contenidos : indice[c] # Nadie => l.idx[c] = indice[c]
    BY <1>1 DEF ListaOK
  <2>4. paso = "dedup_link" => Publica(h, l.lista[l.pag + 1])'
    BY <1>2, <1>4 DEF Publica
  <2> QED
    BY <1>2, <2>1, <2>2, <2>3, <2>4 DEF ListaOK
<1>7. PasoOK(h)'
  BY <1>1, <1>2, <1>6, EnDedupLuego DEF Commited
<1>8. CursosOK'
  BY <1>3, <1>7, CursosSuyos DEF OcupadoOK
<1>9. \A p \in Pagina : ExentaPropia(h, p) => ExentaPropia(h, p)'
  BY <1>1, <1>2, <1>5, EnDedupEs, EnDedupLuego
<1>10. l.idx = loc[h].idx => \A b : Publicado(b)' <=> Publicado(b)
  BY <1>2, <1>3, <1>4, PublicadoIgual
<1> QED
  BY <1>2, <1>3, <1>4, <1>8, <1>9, <1>10

\* A step of the deduplication that takes no block off its page, and frees none.
LEMMA OcupadoDedupQuieto ==
  ASSUME InvBloques, OcupadoOK, Apartadas, NEW h \in Hilos, EnDedup(h),
         NEW paso \in PasosDedup \ {"dedup_link"}, NEW l, Ir(h, paso, l), UNCHANGED <<meta, indice, bitmap>>,
         \A f \in Archivos \ {pedido[h].f} : logico'[f] = logico[f],
         \A p \in Pagina, b \in Comun : logico'[pedido[h].f][p] = b => Propia(h, p, b),
         \/ paso = "dedup_pag" /\ l.pag = loc[h].pag + 1
         \/ paso # "dedup_pag" /\ l.pag = loc[h].pag,
         l.lista = loc[h].lista, ~l.modif => ~loc[h].modif, l.idx = loc[h].idx,
         \A b : Reclama(h, b)' => Reclama(h, b)
  PROVE  OcupadoOK'
<1>1. /\ EnLoSuyo(h) /\ CursosOK' /\ pc'[h] = paso /\ loc'[h] = l /\ pedido' = pedido
      /\ EnDedup(h)' /\ \A p \in Pagina : ExentaPropia(h, p) => ExentaPropia(h, p)'
      /\ \A b : Publicado(b)' <=> Publicado(b)
  BY DedupAvanza
<1>2. \A p \in Pagina, b \in Comun : Propia(h, p, b)' => Propia(h, p, b)
  BY <1>1, EnDedupEs, EnDedupLuego
<1>3. DuenosOK'
  BY <1>1, <1>2, DuenosQuietos DEF OcupadoOK
<1> QED
  BY <1>1, <1>3 DEF OcupadoOK

\* The block of the page in turn is still in the list.
LEMMA LaDeTurno ==
  ASSUME InvBloques, OcupadoOK, Apartadas, Intacto, NEW h \in Hilos, pc[h] = "dedup_pag",
         loc[h].pag < Len(meta[pedido[h].f].blocks)
  PROVE  LET p == loc[h].pag
             b == meta[pedido[h].f].blocks[p + 1] IN
         /\ EnDedup(h) /\ p \in Pagina /\ b \in Bloque /\ p < Len(loc[h].lista) /\ loc[h].lista[p + 1] = b
         /\ nodo[b] = b /\ dato[b] \in Contenidos /\ Indexado(h, b) = loc[h].idx[dato[b]]
         /\ Propia(h, p, b) /\ ~ExentaPropia(h, p)
<1> DEFINE p == loc[h].pag
           b == meta[pedido[h].f].blocks[p + 1]
<1>1. EnDedup(h)
  BY DEF EnDedup, PasosDedup
<1>2. /\ p \in Pagina /\ p + 1 \in 1..Len(meta[pedido[h].f].blocks) /\ ListaOK(h) /\ p \in Nat
      /\ meta[pedido[h].f].blocks \in Seq(Bloque) /\ p < Len(loc[h].lista) /\ ~Commited(pedido[h].f) /\ DiscoOK
  BY <1>1, EnMedioDelDedup
<1>3. b \in Bloque
  BY <1>2
<1>4. loc[h].lista[p + 1] = b
  BY <1>2 DEF ListaOK
<1>5. nodo[b] = b /\ b # Nadie /\ b \in Nodo
  <2>1. Nadie \notin Bloque /\ Bloque \subseteq Nodo
    BY BloquesAssumption DEF Bloque, Nodo
  <2> QED
    BY <1>3, <2>1 DEF Intacto
<1>6. dato[b] \in Contenidos /\ Indexado(h, b) = loc[h].idx[dato[b]]
  BY <1>2, <1>5 DEF DiscoOK, Indexado
<1>7. Propia(h, p, b) /\ ~ExentaPropia(h, p)
  BY <1>1, <1>2, <1>4, EnDedupEs
<1> QED
  BY <1>1, <1>2, <1>3, <1>4, <1>5, <1>6, <1>7

\* On to the next page.
LEMMA SigueEs ==
  ASSUME NEW h \in Hilos, NEW l \in Locales, DedupSigue(h, l)
  PROVE  \E k : /\ Ir(h, "dedup_pag", k) /\ k.pag = l.pag + 1
                /\ k.lista = l.lista /\ k.modif = l.modif /\ k.idx = l.idx
<1> DEFINE k == [l EXCEPT !.pag = l.pag + 1]
<1>1. k.pag = l.pag + 1 /\ k.lista = l.lista /\ k.modif = l.modif /\ k.idx = l.idx
  BY DEF Locales
<1>2. Ir(h, "dedup_pag", k)
  BY DEF DedupSigue
<1> HIDE DEF k
<1> QED
  BY <1>1, <1>2

LEMMA SinReclamo == ASSUME NEW h \in Hilos, pc'[h] = "dedup_pag" PROVE \A b : ~Reclama(h, b)'
BY DEF Reclama

\* The pages a COMMIT goes past: the index has its block already, or the page has no link to lose.
LEMMA OcupadoDedupPasa ==
  ASSUME InvBloques, OcupadoOK, Apartadas, NEW h \in Hilos, EnDedup(h), UNCHANGED <<disco, bitmap>>,
         NEW l \in Locales, DedupSigue(h, l), l.pag = loc[h].pag, l.lista = loc[h].lista,
         ~l.modif => ~loc[h].modif, l.idx = loc[h].idx
  PROVE  OcupadoOK'
<1>1. PICK k : /\ Ir(h, "dedup_pag", k) /\ k.pag = l.pag + 1
               /\ k.lista = l.lista /\ k.modif = l.modif /\ k.idx = l.idx
  BY SigueEs
<1>2. pc'[h] = "dedup_pag" /\ \A b : ~Reclama(h, b)'
  BY <1>1, DelHilo, EfectoDeIr, SinReclamo
<1>3. "dedup_pag" \in PasosDedup \ {"dedup_link"}
  BY DEF PasosDedup
<1>4. UNCHANGED <<meta, indice, bitmap, logico>>
  BY DEF disco
<1>5. \A p \in Pagina, b \in Comun : logico'[pedido[h].f][p] = b => Propia(h, p, b)
  BY <1>4, EnDedupEs
<1> QED
  BY <1>1, <1>2, <1>3, <1>4, <1>5, OcupadoDedupQuieto

\* A page whose content was not in the index puts its block there.
LEMMA OcupadoDedupIndice ==
  ASSUME InvBloques, OcupadoOK, Apartadas, NEW h \in Hilos, EnDedup(h), UNCHANGED <<disco, bitmap>>,
         NEW p \in Pagina, p = loc[h].pag, NEW b, Propia(h, p, b), NEW c \in Contenidos,
         loc[h].idx[c] = Nadie, loc[h].idx \in [Contenidos -> Bloque \cup {Nadie}],
         NEW k, Ir(h, "dedup_pag", k), k.pag = p + 1, k.lista = loc[h].lista,
         k.modif = loc[h].modif, k.idx = [loc[h].idx EXCEPT ![c] = b]
  PROVE  OcupadoOK'
<1>1. "dedup_pag" \in PasosDedup /\ UNCHANGED <<meta, indice, bitmap, logico>>
  BY DEF PasosDedup, disco
<1>2. \A d \in Contenidos : k.idx[d] = IF d = c THEN b ELSE loc[h].idx[d]
  OBVIOUS
<1>3. /\ EnLoSuyo(h) /\ CursosOK' /\ pc'[h] = "dedup_pag" /\ loc'[h] = k /\ pedido' = pedido
      /\ EnDedup(h)' /\ \A q \in Pagina : ExentaPropia(h, q) => ExentaPropia(h, q)'
  BY <1>1, <1>2, DedupAvanza
<1>4. ExentaPropia(h, p)'
  <2>1. p < k.pag
    BY DEF Pagina
  <2> QED
    BY <1>3, <2>1, EnDedupLuego DEF PasosDedup
<1>5. \A q \in Pagina, x \in Comun : Propia(h, q, x)' => Propia(h, q, x)
  BY <1>1, <1>3, EnDedupEs, EnDedupLuego
<1>6. \A x : ~Reclama(h, x)'
  BY <1>3, SinReclamo
<1>7. /\ \A x \in Comun : Publica(h, x) => Publica(h, x)'
      /\ \A x \in Comun : Publica(h, x)' => Publica(h, x) \/ x = b
  BY <1>2, <1>3, BloquesAssumption DEF Publica, Comun, Bloque
<1>8. /\ \A x \in Comun : Publicado(x) => Publicado(x)'
      /\ \A x \in Comun : Publicado(x)' => Publicado(x) \/ x = b
  <2>1. \A g \in Hilos \ {h} : \A x : Publica(g, x)' <=> Publica(g, x)
    BY <1>3, VistaPropia
  <2> QED
    BY <1>1, <1>7, <2>1 DEF Publicado
<1>9. DuenosOK'
  <2>1. SinTag /\ DuenosOK
    BY EnMedioDelDedup DEF OcupadoOK
  <2> QED
    BY <1>1, <1>3, <1>4, <1>5, <1>6, <1>8, <2>1, DuenosPublica
<1> QED
  BY <1>3, <1>9 DEF OcupadoOK

LEMMA PuestoEs ==
  ASSUME NEW S \in Seq(Bloque), NEW p \in Nat, p < Len(S), NEW e
  PROVE  /\ Len(Puesto(S, p + 1, e)) = Len(S)
         /\ \A q \in Pagina : q < Len(S) => Puesto(S, p + 1, e)[q + 1] = IF q = p THEN e ELSE S[q + 1]
<1>1. p + 1 \in DOMAIN S /\ DOMAIN Puesto(S, p + 1, e) = DOMAIN S
  BY DEF Puesto
<1>2. \A q \in Pagina : q < Len(S) => q + 1 \in DOMAIN S /\ (q + 1 = p + 1 <=> q = p)
  BY DEF Pagina
<1>3. \A i \in DOMAIN S : Puesto(S, p + 1, e)[i] = IF i = p + 1 THEN e ELSE S[i]
  BY <1>1 DEF Puesto
<1>4. Len(Puesto(S, p + 1, e)) = Len(S)
  BY <1>1 DEF Puesto
<1> QED
  BY <1>2, <1>3, <1>4

LEMMA ComunNoEsNadie == \A x \in Comun : x # Nadie
BY BloquesAssumption DEF Comun, Bloque

\* A page whose content is in the index, under block e, loses its link to block b.
Suelta(h, p, b, e, k) ==
    LET f == pedido[h].f
        S == loc[h].lista IN
    /\ EnDedup(h) /\ pc[h] = "dedup_pag" /\ Ir(h, "dedup_link", k)
    /\ p \in Pagina /\ p = loc[h].pag /\ p < Len(S)
    /\ b = BloqueDe(f, p) /\ Propia(h, p, b) /\ ~ExentaPropia(h, p)
    /\ e # b /\ \E c \in Contenidos : loc[h].idx[c] = e
    /\ \A g \in Archivos \ {f} : logico'[g] = logico[g]
    /\ \A q \in Pagina : logico'[f][q] = IF q = p THEN Nadie ELSE logico[f][q]
    /\ UNCHANGED <<meta, indice, bitmap>>
    /\ k.pag = p /\ k.modif = TRUE /\ k.idx = loc[h].idx /\ Len(k.lista) = Len(S)
    /\ \A q \in Pagina : q < Len(S) => k.lista[q + 1] = IF q = p THEN e ELSE S[q + 1]

LEMMA OcupadoDedupSuelta ==
  ASSUME InvBloques, OcupadoOK, Apartadas, NEW h \in Hilos,
         NEW p, NEW b, NEW e, NEW k, Suelta(h, p, b, e, k)
  PROVE  OcupadoOK'
<1> DEFINE f == pedido[h].f
           S == loc[h].lista
<1> USE DEF Suelta
<1>1. /\ SinTag /\ \A q \in Pagina : q < Len(S) /\ q > p => k.lista[q + 1] = S[q + 1]
  BY EnMedioDelDedup DEF Pagina
<1>2. \E c \in Contenidos : k.idx[c] = k.lista[k.pag + 1]
  OBVIOUS
<1>3. "dedup_link" \in PasosDedup
  BY DEF PasosDedup
<1>4. /\ EnLoSuyo(h) /\ CursosOK' /\ pc'[h] = "dedup_link" /\ loc'[h] = k /\ pedido' = pedido
      /\ EnDedup(h)' /\ \A q \in Pagina : ExentaPropia(h, q) => ExentaPropia(h, q)'
      /\ \A x : Publicado(x)' <=> Publicado(x)
  BY <1>1, <1>2, <1>3, DedupAvanza
<1>5. \A x \in Comun : Reclama(h, x)' => x = b
  BY <1>4 DEF Reclama, BloqueDe
<1>6. ExentaPropia(h, p)' /\ Publicado(e)
  BY <1>3, <1>4, EnDedupLuego DEF Publicado, Publica
<1>7. \A q \in Pagina, x \in Comun : Propia(h, q, x)' =>
          \/ Propia(h, q, x) /\ ~(q = p /\ x = b)
          \/ Publicado(x) /\ ExentaPropia(h, q)'
  <2> SUFFICES ASSUME NEW q \in Pagina, NEW x \in Comun, Propia(h, q, x)'
               PROVE  \/ Propia(h, q, x) /\ ~(q = p /\ x = b)
                      \/ Publicado(x) /\ ExentaPropia(h, q)'
    OBVIOUS
  <2>1. \/ logico'[f][q] = x
        \/ q < Len(S) /\ k.lista[q + 1] = x
    BY <1>3, <1>4, EnDedupLuego
  <2>2. CASE q = p
    <3>1. x = e
      BY <2>1, <2>2, ComunNoEsNadie
    <3> QED
      BY <1>6, <2>2, <3>1
  <2>3. CASE q # p
    <3>1. logico[f][q] = x \/ (q < Len(S) /\ S[q + 1] = x)
      BY <2>1, <2>3
    <3> QED
      BY <2>3, <3>1, EnDedupEs
  <2> QED
    BY <2>2, <2>3
<1>8. DuenosOK'
  <2>1. /\ DuenosOK /\ SinTag /\ EnLoSuyo(h) /\ bitmap' = bitmap
        /\ b \in Comun => Propia(h, p, b)
        /\ \A x \in Comun : Publicado(x)' <=> Publicado(x)
    BY <1>1, <1>4 DEF OcupadoOK
  <2> QED
    BY <1>4, <1>5, <1>7, <2>1, DuenosEntrega
<1> QED
  BY <1>4, <1>8 DEF OcupadoOK

LEMMA OcupadoDedupPag ==
  ASSUME InvBloques, Intacto, OcupadoOK, Apartadas, NEW h \in Hilos, DedupPag(h)
  PROVE  OcupadoOK'
<1> DEFINE f == pedido[h].f
           p == loc[h].pag
           b == meta[f].blocks[p + 1]
           e == Indexado(h, b)
<1>1. pc[h] = "dedup_pag" /\ p < Len(meta[f].blocks)
  BY DEF DedupPag
<1>2. /\ EnDedup(h) /\ p \in Pagina /\ b \in Bloque /\ nodo[b] = b /\ dato[b] \in Contenidos
      /\ e = loc[h].idx[dato[b]] /\ Propia(h, p, b) /\ ~ExentaPropia(h, p)
  BY <1>1, LaDeTurno
<1>3. loc[h] \in Locales /\ loc[h].idx \in [Contenidos -> Bloque \cup {Nadie}]
  BY <1>2, EnMedioDelDedup
<1>4. CASE DedupSigue(h, loc[h]) /\ UNCHANGED <<disco, bitmap, leido>>
  BY <1>2, <1>3, <1>4, OcupadoDedupPasa
<1>5. CASE DedupSigue(h, [loc[h] EXCEPT !.modif = TRUE]) /\ UNCHANGED <<disco, bitmap, leido>>
  <2> DEFINE l == [loc[h] EXCEPT !.modif = TRUE]
  <2>1. /\ l \in Locales /\ l.pag = loc[h].pag /\ l.lista = loc[h].lista /\ l.modif = TRUE
        /\ l.idx = loc[h].idx
    BY <1>3, ConModif DEF Locales
  <2>2. DedupSigue(h, l)
    BY <1>5
  <2> HIDE DEF l
  <2> QED
    BY <1>2, <1>5, <2>1, <2>2, OcupadoDedupPasa
<1>6. CASE /\ e = Nadie /\ DedupSigue(h, [loc[h] EXCEPT !.idx[dato[nodo[b]]] = b])
           /\ UNCHANGED <<disco, bitmap, leido>>
  <2> DEFINE c == dato[b]
             l == PoneIndice(loc[h], c, b)
  <2> HIDE DEF b, c
  <2>1. /\ l \in Locales /\ l.pag = loc[h].pag /\ l.lista = loc[h].lista
    BY <1>2, <1>3, ConIndice
  <2>2. l.modif = loc[h].modif /\ l.idx = [loc[h].idx EXCEPT ![c] = b]
    BY <1>3 DEF PoneIndice, Locales
  <2>3. DedupSigue(h, l)
    BY <1>2, <1>6 DEF PoneIndice, c
  <2> HIDE DEF l
  <2>4. PICK k : /\ Ir(h, "dedup_pag", k) /\ k.pag = l.pag + 1
                 /\ k.lista = l.lista /\ k.modif = l.modif /\ k.idx = l.idx
    BY <2>1, <2>3, SigueEs
  <2>5. c \in Contenidos /\ loc[h].idx[c] = Nadie
    BY <1>2, <1>6 DEF c
  <2> QED
    BY <1>2, <1>3, <1>6, <2>1, <2>2, <2>4, <2>5, OcupadoDedupIndice
<1>7. CASE /\ e \notin {Nadie, b} /\ Enlazar(f, p, Nadie)
           /\ Ir(h, "dedup_link", [loc[h] EXCEPT !.lista[p + 1] = e, !.modif = TRUE])
  <2> DEFINE k == Cambia(loc[h], p + 1, e)
  <2>1. Ir(h, "dedup_link", k)
    BY <1>7 DEF Cambia
  <2>2. k.lista = Puesto(loc[h].lista, p + 1, e) /\ k.pag = p /\ k.modif = TRUE /\ k.idx = loc[h].idx
    <3> HIDE DEF e
    <3> QED
      BY <1>3 DEF Cambia, Puesto, Locales
  <2>3. /\ f \in Archivos /\ DiscoOK /\ loc[h].lista \in Seq(Bloque) /\ p \in Nat /\ p < Len(loc[h].lista)
    BY <1>1, <1>2, EnMedioDelDedup
  <2>4. /\ Len(k.lista) = Len(loc[h].lista)
        /\ \A q \in Pagina : q < Len(loc[h].lista) =>
               k.lista[q + 1] = IF q = p THEN e ELSE loc[h].lista[q + 1]
    <3> HIDE DEF k, e
    <3> QED
      BY <2>2, <2>3, PuestoEs
  <2>5. b = BloqueDe(f, p) /\ \E c \in Contenidos : loc[h].idx[c] = e
    BY <1>1, <1>2 DEF BloqueDe
  <2>6. /\ \A g \in Archivos \ {f} : logico'[g] = logico[g]
        /\ \A q \in Pagina : logico'[f][q] = IF q = p THEN Nadie ELSE logico[f][q]
        /\ UNCHANGED <<meta, indice, bitmap>>
    BY <1>7, <2>3, EfectoDeEnlazar
  <2>7. /\ p = loc[h].pag /\ p \in Pagina /\ p < Len(loc[h].lista) /\ e # b
        /\ EnDedup(h) /\ pc[h] = "dedup_pag" /\ Propia(h, p, b) /\ ~ExentaPropia(h, p)
        /\ k.pag = p /\ k.modif = TRUE /\ k.idx = loc[h].idx
    BY <1>1, <1>2, <1>7, <2>2, <2>3
  <2> HIDE DEF k, e, b, p
  <2> QED
    <3>1. Suelta(h, p, b, e, k)
      BY <2>1, <2>4, <2>5, <2>6, <2>7 DEF Suelta
    <3> QED
      BY <3>1, OcupadoDedupSuelta
<1> QED
  BY <1>4, <1>5, <1>6, <1>7 DEF DedupPag

\* The page is linked to the block the index has for its content.
LEMMA OcupadoDedupLink ==
  ASSUME InvBloques, Intacto, OcupadoOK, Apartadas, NEW h \in Hilos, DedupLink(h)
  PROVE  OcupadoOK'
<1> DEFINE f == pedido[h].f
           p == loc[h].pag
           S == loc[h].lista
           e == S[p + 1]
<1>1. pc[h] = "dedup_link" /\ EnDedup(h)
  BY DEF DedupLink, EnDedup, PasosDedup
<1>2. /\ f \in Archivos /\ DiscoOK /\ S \in Seq(Bloque) /\ p \in Pagina /\ p + 1 \in 1..Len(S) /\ p < Len(S)
  BY <1>1, EnMedioDelDedup
<1>3. e \in Bloque
  BY <1>2
<1>4. nodo[e] = e /\ e # Nadie
  BY <1>3, BloquesAssumption DEF Intacto, Bloque
<1>5. Enlazar(f, p, e) /\ Ir(h, "dedup_bit", loc[h])
  BY <1>4 DEF DedupLink
<1>6. /\ \A g \in Archivos \ {f} : logico'[g] = logico[g]
      /\ \A q \in Pagina : logico'[f][q] = IF q = p THEN e ELSE logico[f][q]
      /\ UNCHANGED <<meta, indice, bitmap>>
  BY <1>2, <1>5, EfectoDeEnlazar
<1>7. pc'[h] = "dedup_bit" /\ loc'[h] = loc[h] /\ pedido' = pedido
  BY <1>5, DelHilo, EfectoDeIr
<1>8. \A b : Reclama(h, b)' => Reclama(h, b)
  BY <1>1, <1>6, <1>7 DEF Reclama, BloqueDe
<1>9. \A q \in Pagina, b \in Comun : logico'[f][q] = b => Propia(h, q, b)
  BY <1>1, <1>2, <1>6, EnDedupEs
<1>10. "dedup_bit" \in PasosDedup \ {"dedup_link"} /\ "dedup_bit" # "dedup_pag"
  BY DEF PasosDedup
<1> QED
  BY <1>1, <1>5, <1>6, <1>8, <1>9, <1>10, OcupadoDedupQuieto

\* The block the page was linked to is free.
LEMMA OcupadoDedupBit ==
  ASSUME InvBloques, OcupadoOK, Apartadas, NEW h \in Hilos, DedupBit(h)
  PROVE  OcupadoOK'
<1> DEFINE f == pedido[h].f
           b == meta[f].blocks[loc[h].pag + 1]
<1>1. /\ pc[h] = "dedup_bit" /\ EnDedup(h) /\ Ir(h, "dedup_persistir", loc[h])
      /\ UNCHANGED <<meta, indice, logico>> /\ bitmap' = bitmap \ {b}
  BY DEF DedupBit, EnDedup, PasosDedup, PonerBitmap, disco
<1>2. SinTag /\ loc[h].pag < Len(meta[f].blocks)
  BY <1>1, EnMedioDelDedup
<1>3. "dedup_persistir" \in PasosDedup \ {"dedup_link", "dedup_pag"}
  BY DEF PasosDedup
<1>4. /\ EnLoSuyo(h) /\ CursosOK' /\ pc'[h] = "dedup_persistir" /\ loc'[h] = loc[h] /\ pedido' = pedido
      /\ EnDedup(h)' /\ \A p \in Pagina : ExentaPropia(h, p) => ExentaPropia(h, p)'
      /\ \A x : Publicado(x)' <=> Publicado(x)
  BY <1>1, <1>3, DedupAvanza
<1>5. Reclama(h, b) /\ \A x : ~Reclama(h, x)'
  BY <1>1, <1>2, <1>4 DEF Reclama, BloqueDe
<1>6. \A p \in Pagina, x \in Comun : Propia(h, p, x)' => Propia(h, p, x)
  BY <1>1, <1>3, <1>4, EnDedupEs, EnDedupLuego
<1> HIDE DEF b
<1>7. DuenosOK'
  BY <1>1, <1>2, <1>4, <1>5, <1>6, DuenosLibera DEF OcupadoOK
<1> QED
  BY <1>4, <1>7 DEF OcupadoOK

LEMMA OcupadoDedupPersistir ==
  ASSUME InvBloques, OcupadoOK, Apartadas, NEW h \in Hilos, DedupPersistir(h)
  PROVE  OcupadoOK'
<1>1. /\ EnDedup(h) /\ DedupSigue(h, loc[h]) /\ UNCHANGED <<meta, indice, logico, bitmap>>
  BY DEF DedupPersistir, EnDedup, PasosDedup, PersistirBitmap
<1>2. loc[h] \in Locales
  BY <1>1, EnMedioDelDedup
<1>3. PICK k : /\ Ir(h, "dedup_pag", k) /\ k.pag = loc[h].pag + 1
               /\ k.lista = loc[h].lista /\ k.modif = loc[h].modif /\ k.idx = loc[h].idx
  BY <1>1, <1>2, SigueEs
<1>4. pc'[h] = "dedup_pag" /\ \A b : ~Reclama(h, b)'
  BY <1>3, DelHilo, EfectoDeIr, SinReclamo
<1>5. "dedup_pag" \in PasosDedup \ {"dedup_link"}
  BY DEF PasosDedup
<1>6. \A p \in Pagina, b \in Comun : logico'[pedido[h].f][p] = b => Propia(h, p, b)
  BY <1>1, EnDedupEs
<1> QED
  BY <1>1, <1>3, <1>4, <1>5, <1>6, OcupadoDedupQuieto

\* BLOCKS and the index are saved, with what the deduplication leaves in them.
LEMMA OcupadoDedupGuardar ==
  ASSUME InvBloques, OcupadoOK, Apartadas, NEW h \in Hilos, DedupGuardar(h)
  PROVE  OcupadoOK'
<1> DEFINE f == pedido[h].f
           B == meta[f].blocks
           S == loc[h].lista
<1>1. /\ pc[h] = "dedup_pag" /\ EnDedup(h) /\ Ir(h, "commit_estado", SinLocales)
      /\ UNCHANGED <<logico, bitmap>> /\ indice' = loc[h].idx
      /\ meta' = [meta EXCEPT ![f].blocks = IF loc[h].modif THEN S ELSE B]
  BY DEF DedupGuardar, EnDedup, PasosDedup
<1>2. /\ f \in Archivos /\ DiscoOK /\ Adentro(h) /\ ~Commited(f) /\ ListaOK(h)
      /\ Len(S) = Len(B) /\ Len(B) <= MaxPaginas
  BY <1>1, EnMedioDelDedup
<1>3. meta \in [Archivos -> Metas] /\ meta[f] \in Metas
  BY <1>2, SonMetas DEF DiscoOK
<1>4. ~loc[h].modif => S = B
  BY <1>2 DEF ListaOK
<1>5. /\ meta'[f].blocks = S /\ meta'[f].estado = meta[f].estado
      /\ \A g \in Archivos \ {f} : meta'[g] = meta[g]
  BY <1>1, <1>2, <1>3, <1>4 DEF Metas
<1>6. pc'[h] = "commit_estado" /\ pedido' = pedido
  BY <1>1, DelHilo, EfectoDeIr
<1>7. EnLoSuyo(h)
  BY <1>1, <1>2, <1>5, SuyoAdentro
<1>8. /\ ~EnDedup(h)' /\ ~EnEscritura(h)' /\ \A p : ~Deja(h, p)' /\ Exime(h, p)'
  BY <1>6 DEF EnDedup, PasosDedup, EnEscritura, Deja, Exime
<1>9. PasoOK(h)'
  BY <1>6, <1>8 DEF PasoOK, EnTruncate, Achica
<1>10. CursosOK'
  BY <1>1, <1>2, <1>5, <1>7, <1>8, <1>9, CursosSuyos DEF OcupadoOK
<1>11. \A p \in Pagina, b \in Comun : Propia(h, p, b)' => Propia(h, p, b)
  <2> SUFFICES ASSUME NEW p \in Pagina, NEW b \in Comun, Propia(h, p, b)' PROVE Propia(h, p, b)
    OBVIOUS
  <2>1. logico'[f][p] = b \/ (p < Len(S) /\ S[p + 1] = b)
    BY <1>5, <1>6, <1>8 DEF Propia, Pone
  <2> QED
    BY <1>1, <2>1, EnDedupEs
<1>12. (\A b : ~Reclama(h, b)') /\ \A p \in Pagina : ExentaPropia(h, p)'
  BY <1>6, <1>8 DEF Reclama, ExentaPropia
<1>13. \A b \in Comun : Publicado(b)' <=> Publicado(b)
  <2> SUFFICES ASSUME NEW b \in Comun PROVE Publicado(b)' <=> Publicado(b)
    OBVIOUS
  <2>1. \A g \in Hilos \ {h} : Publica(g, b)' <=> Publica(g, b)
    BY <1>7, VistaPropia
  <2>2. ~Publica(h, b)' /\ (Publica(h, b) <=> \E c \in Contenidos : indice'[c] = b)
    BY <1>1, <1>8 DEF Publica
  <2>3. (\E c \in Contenidos : indice[c] = b) => Publica(h, b)
    BY <1>1, <1>2, BloquesAssumption DEF ListaOK, Publica, Comun, Bloque
  <2> QED
    BY <2>1, <2>2, <2>3 DEF Publicado
<1>14. DuenosOK'
  BY <1>1, <1>7, <1>11, <1>12, <1>13, DuenosQuietos DEF OcupadoOK
<1> QED
  BY <1>10, <1>14 DEF OcupadoOK

\* ESTADO becomes COMMITED: the pages may keep blocks of the index from now on.
LEMMA OcupadoCommitEstado ==
  ASSUME InvBloques, OcupadoOK, NEW h \in Hilos, CommitEstado(h)
  PROVE  OcupadoOK'
<1> DEFINE f == pedido[h].f
<1>1. /\ pc[h] = "commit_estado" /\ Ir(h, "commit_persistir", SinLocales)
      /\ UNCHANGED <<logico, bitmap, indice>>
      /\ meta' = [meta EXCEPT ![f] = [meta[f] EXCEPT !.estado = "COMMITED"]]
  BY DEF CommitEstado, PonerMeta
<1>2. Adentro(h) /\ EnCommit(h)
  BY <1>1 DEF Adentro, EnCommit
<1>3. f \in Archivos /\ DiscoOK
  BY <1>2, EnElCommit
<1>4. meta \in [Archivos -> Metas] /\ meta[f] \in Metas
  BY <1>3, SonMetas DEF DiscoOK
<1>5. /\ meta'[f].blocks = meta[f].blocks /\ meta'[f].estado = "COMMITED"
      /\ \A g \in Archivos \ {f} : meta'[g] = meta[g]
  BY <1>1, <1>3, <1>4 DEF Metas
<1>6. pc'[h] = "commit_persistir" /\ pedido' = pedido
  BY <1>1, DelHilo, EfectoDeIr
<1>7. EnLoSuyo(h)
  BY <1>1, <1>2, <1>5, SuyoAdentro
<1>8. /\ ~EnDedup(h) /\ ~EnDedup(h)' /\ ~EnEscritura(h) /\ ~EnEscritura(h)'
      /\ \A p : ~Deja(h, p) /\ ~Deja(h, p)'
      /\ \A b : ~Reclama(h, b)'
  BY <1>1, <1>6 DEF EnDedup, PasosDedup, EnEscritura, Deja, Reclama
<1>9. PasoOK(h)'
  BY <1>6, <1>8 DEF PasoOK, EnTruncate, Achica
<1>10. \A p \in Pagina : ExentaPropia(h, p)'
  BY <1>5, <1>6 DEF ExentaPropia, Commited
<1>11. \A p \in Pagina, b \in Comun : Propia(h, p, b)' => Propia(h, p, b)
  BY <1>1, <1>5, <1>6, <1>8 DEF Propia, Pone
<1>12. Len(meta'[f].blocks) <= MaxPaginas
  BY <1>3, <1>5 DEF OcupadoOK, CursosOK, LargosOK
<1> QED
  BY <1>1, <1>7, <1>8, <1>9, <1>10, <1>11, <1>12, OcupadoQuieto

-------------------------------------------------------------------------------
(* TAG: the blocks of a file:tag become those of two. *)

EnElTagOEntrando(h) == pc[h] = "entrar" \/ EnTag(h)

LEMMA MarcadosTag ==
  ASSUME InvBloques, OcupadoOK, NEW h \in Hilos, pc[h] # "libre", pedido[h].op = "TAG",
         pedido[h].f \in Archivos, pedido[h].d \in Archivos, Suyos(h), ~SinCandado(pedido[h]),
         EnElTagOEntrando(h), NEW paso \in {"tag_meta", "tag_link", "responder"}, NEW l, Ir(h, paso, l),
         \A f \in Archivos \ {pedido[h].d} : meta'[f] = meta[f] /\ logico'[f] = logico[f],
         indice' = indice, bitmap' = bitmap, Len(meta'[pedido[h].d].blocks) <= MaxPaginas,
         \A p \in Pagina, b \in Comun :
             \/ logico'[pedido[h].d][p] = b
             \/ p < Len(meta'[pedido[h].d].blocks) /\ meta'[pedido[h].d].blocks[p + 1] = b
             => Guarda(pedido[h].d, p, b) \/ Guarda(pedido[h].f, p, b)
  PROVE  OcupadoOK'
<1> DEFINE o == pedido[h].f
           d == pedido[h].d
<1>1. /\ pc'[h] = paso /\ pedido' = pedido /\ mezcla' = mezcla
      /\ \A g \in Hilos \ {h} : pc'[g] = pc[g] /\ loc'[g] = loc[g] /\ pedido'[g] = pedido[g]
  BY DelHilo, EfectoDeIr
<1>2. /\ ~EnDedup(h) /\ \A p : ~Deja(h, p)
      /\ ~EnDedup(h)' /\ \A p : ~Exime(h, p)'
      /\ \A b : ~Reclama(h, b)' /\ ~Publica(h, b) /\ ~Publica(h, b)'
      /\ \A p, b : ~Pone(h, p, b)'
      /\ PasoOK(h)'
  BY <1>1 DEF EnElTagOEntrando, EnTag, EnDedup, PasosDedup, Deja, Exime, Reclama, Publica, Pone,
     EnEscritura, PasoOK, EnTruncate, Achica
<1>3. ASSUME NEW g \in Hilos \ {h}
      PROVE  /\ \A p : Deja(g, p)' <=> Deja(g, p)
             /\ \A p, b : Pone(g, p, b)' <=> Pone(g, p, b)
             /\ \A b : (Publica(g, b)' <=> Publica(g, b)) /\ (Reclama(g, b)' <=> Reclama(g, b))
  <2>1. Adentro(g) => pedido[g].f \in Archivos \ Nombrados(pedido[h])
    BY NadieMas, DelPedido DEF Adentro
  <2>2. Adentro(g) => meta'[pedido[g].f] = meta[pedido[g].f]
    BY <2>1 DEF Nombrados
  <2> QED
    BY <1>1, <2>2, OtroHilo, OtroReclamo
<1>4. ASSUME NEW f \in Archivos, NEW p \in Pagina, NEW b \in Comun, Guarda(f, p, b)'
      PROVE  \E g \in Archivos : Guarda(g, p, b)
  <2>1. CASE \E g \in Hilos : pedido[g].f = f /\ Pone(g, p, b)'
    <3>1. \E g \in Hilos : pedido[g].f = f /\ Pone(g, p, b)
      BY <1>2, <1>3, <2>1
    <3> QED
      BY <3>1 DEF Guarda
  <2>2. CASE /\ ~\E g \in Hilos : pedido[g].f = f /\ Pone(g, p, b)'
             /\ f # d
    <3>1. meta'[f] = meta[f] /\ logico'[f] = logico[f]
      BY <2>2
    <3>2. (\A g \in Hilos : pedido[g].f = f => ~Deja(g, p)') => \A g \in Hilos : pedido[g].f = f => ~Deja(g, p)
      BY <1>2, <1>3
    <3>3. Guarda(f, p, b)
      BY <1>1, <1>4, <2>2, <3>1, <3>2 DEF Guarda
    <3> QED
      BY <3>3
  <2>3. CASE /\ ~\E g \in Hilos : pedido[g].f = f /\ Pone(g, p, b)'
             /\ f = d
    <3>1. \/ logico'[d][p] = b
          \/ p < Len(meta'[d].blocks) /\ meta'[d].blocks[p + 1] = b
      BY <1>1, <1>4, <2>3 DEF Guarda
    <3> QED
      BY <3>1
  <2> QED
    BY <2>1, <2>2, <2>3
<1>5. Marcados'
  <2>1. \A b \in Comun : Publicado(b)' <=> Publicado(b)
    BY <1>2, <1>3 DEF Publicado
  <2>2. \A g \in Hilos, b \in Comun : Reclama(g, b)' => Reclama(g, b)
    BY <1>2, <1>3
  <2>3. Marcados
    BY DEF OcupadoOK, DuenosOK
  <2> QED
    BY <1>4, <2>1, <2>2, <2>3 DEF Marcados, Comun
<1>6. ~SinTag'
  <2>1. pedido[h] \in mezcla
    BY DelPedido
  <2> QED
    BY <1>1, <2>1 DEF SinTag
<1>7. CursosOK'
  <2>1. \A f \in Archivos : \/ meta'[f] = meta[f]
                            \/ f \in Nombrados(pedido[h]) /\ Len(meta'[f].blocks) <= MaxPaginas
    BY DEF Nombrados
  <2> QED
    BY <1>2, <2>1, CursosPaso DEF OcupadoOK
<1> QED
  BY <1>5, <1>6, <1>7 DEF OcupadoOK, DuenosOK

LEMMA OcupadoTag ==
  ASSUME InvBloques, OcupadoOK, NEW h \in Hilos, Tag(h)
  PROVE  OcupadoOK'
<1> DEFINE o == pedido[h].f
           d == pedido[h].d
<1>1. Empieza(h, "TAG") /\ ~Adentro(h) /\ pc[h] = "entrar" /\ pedido[h].op = "TAG"
  BY DEF Tag, Empieza, Adentro
<1>2. CASE Falla(h)
  BY <1>1, <1>2, OcupadoFalla DEF Falla
<1>3. CASE ~Falla(h)
  <2>1. /\ o # Base /\ PonerMeta(d, [SinMeta EXCEPT !.estado = "carpeta"])
        /\ Ir(h, "tag_meta", SinLocales) \/ Resultado(h, FALSE)
    BY <1>3 DEF Tag
  <2>2. o \in Archivos /\ d \in Archivos /\ ~SinCandado(pedido[h]) /\ Suyos(h) /\ meta \in [Archivos -> Metas]
    BY <1>1, <2>1, DelPedido, SuyosAlEntrar, DelHilo DEF DiscoOK
  <2>3. /\ meta'[d].blocks = <<>> /\ Len(<<>>) = 0
        /\ \A f \in Archivos \ {d} : meta'[f] = meta[f]
        /\ logico' = logico /\ indice' = indice /\ bitmap' = bitmap
    BY <2>1, <2>2 DEF PonerMeta, SinMeta
  <2>4. \A p \in Pagina, b \in Comun :
            logico'[d][p] = b \/ (p < Len(meta'[d].blocks) /\ meta'[d].blocks[p + 1] = b)
            => Guarda(d, p, b)
    BY <2>3 DEF Guarda, Pagina
  <2>5. PICK paso \in {"tag_meta", "tag_link", "responder"} : Ir(h, paso, SinLocales)
    BY <2>1 DEF Resultado
  <2>6. Len(meta'[d].blocks) <= MaxPaginas
    BY <2>3, BloquesAssumption
  <2> QED
    BY <1>1, <2>2, <2>3, <2>4, <2>5, <2>6, MarcadosTag DEF EnElTagOEntrando
<1> QED
  BY <1>2, <1>3

\* What the BLOCKS of the original name, the original keeps: no other thread is on it.
LEMMA GuardaElOrigen ==
  ASSUME InvBloques, NEW h \in Hilos, EnTag(h), NEW p, NEW b, p < Len(meta[pedido[h].f].blocks),
         meta[pedido[h].f].blocks[p + 1] = b
  PROVE  Guarda(pedido[h].f, p, b)
<1>1. Suyos(h) /\ ~SinCandado(pedido[h])
  BY EnElTag
<1>2. \A g \in Hilos \ {h} : pedido[g].f = pedido[h].f => ~Deja(g, p)
  BY <1>1, ElSuyo, NadieMas, SoloAdentro
<1>3. ~Deja(h, p)
  BY DEF EnTag, Deja, EnDedup, PasosDedup
<1> QED
  BY <1>2, <1>3 DEF Guarda

LEMMA OcupadoTagMeta ==
  ASSUME InvBloques, OcupadoOK, NEW h \in Hilos, TagMeta(h)
  PROVE  OcupadoOK'
<1> DEFINE o == pedido[h].f
           d == pedido[h].d
<1>1. /\ EnTag(h) /\ Ir(h, "tag_link", SinLocales)
      /\ PonerMeta(d, [meta[o] EXCEPT !.estado = "WORK_IN_PROGRESS"])
  BY DEF TagMeta, EnTag
<1>2. /\ o \in Archivos /\ d \in Archivos /\ ~SinCandado(pedido[h]) /\ Suyos(h)
      /\ pedido[h].op = "TAG" /\ pc[h] # "libre" /\ meta \in [Archivos -> Metas]
  BY <1>1, EnElTag DEF DiscoOK
<1>3. /\ meta'[d].blocks = meta[o].blocks
      /\ \A f \in Archivos \ {d} : meta'[f] = meta[f]
      /\ logico' = logico /\ indice' = indice /\ bitmap' = bitmap
  BY <1>1, <1>2 DEF PonerMeta, Metas
<1>4. ASSUME NEW p \in Pagina, NEW b \in Comun,
             logico'[d][p] = b \/ (p < Len(meta'[d].blocks) /\ meta'[d].blocks[p + 1] = b)
      PROVE  Guarda(d, p, b) \/ Guarda(o, p, b)
  <2>1. CASE logico[d][p] = b
    BY <2>1 DEF Guarda
  <2>2. CASE p < Len(meta[o].blocks) /\ meta[o].blocks[p + 1] = b
    BY <1>1, <2>2, GuardaElOrigen
  <2> QED
    BY <1>3, <1>4, <2>1, <2>2
<1>5. Len(meta'[d].blocks) <= MaxPaginas
  BY <1>2, <1>3 DEF OcupadoOK, CursosOK, LargosOK
<1> QED
  BY <1>1, <1>2, <1>3, <1>4, <1>5, MarcadosTag DEF EnElTagOEntrando

LEMMA OcupadoTagLink ==
  ASSUME InvBloques, OcupadoOK, NEW h \in Hilos, TagLink(h)
  PROVE  OcupadoOK'
<1> DEFINE o == pedido[h].f
           d == pedido[h].d
           q == loc[h].pag
<1>1. /\ EnTag(h) /\ Enlazar(d, q, logico[o][q])
      /\ \/ Ir(h, "responder", SinLocales)
         \/ Ir(h, "tag_link", [loc[h] EXCEPT !.pag = q + 1])
  BY DEF TagLink, EnTag, Resultado
<1>2. /\ o \in Archivos /\ d \in Archivos /\ ~SinCandado(pedido[h]) /\ Suyos(h)
      /\ pedido[h].op = "TAG" /\ pc[h] # "libre" /\ DiscoOK
  BY <1>1, EnElTag
<1>3. /\ \A f \in Archivos \ {d} : logico'[f] = logico[f]
      /\ \A p \in Pagina : logico'[d][p] = IF p = q THEN logico[o][q] ELSE logico[d][p]
      /\ UNCHANGED <<meta, indice, bitmap>>
  BY <1>1, <1>2, EfectoDeEnlazar
<1>4. ASSUME NEW p \in Pagina, NEW b \in Comun,
             logico'[d][p] = b \/ (p < Len(meta'[d].blocks) /\ meta'[d].blocks[p + 1] = b)
      PROVE  Guarda(d, p, b) \/ Guarda(o, p, b)
  <2>1. CASE logico'[d][p] = b
    BY <1>3, <2>1 DEF Guarda
  <2>2. CASE p < Len(meta[d].blocks) /\ meta[d].blocks[p + 1] = b
    <3>1. d \in Nombrados(pedido[h])
      BY <1>2 DEF Nombrados
    <3>2. \A g \in Hilos \ {h} : pedido[g].f = d => ~Deja(g, p)
      BY <1>2, <3>1, NadieMas, SoloAdentro
    <3>3. ~Deja(h, p)
      BY <1>1 DEF EnTag, Deja, EnDedup, PasosDedup
    <3> QED
      BY <2>2, <3>2, <3>3 DEF Guarda
  <2> QED
    BY <1>3, <1>4, <2>1, <2>2
<1>5. Len(meta'[d].blocks) <= MaxPaginas
  BY <1>2, <1>3 DEF OcupadoOK, CursosOK, LargosOK
<1>6. PICK paso \in {"tag_meta", "tag_link", "responder"},
           l \in {SinLocales, [loc[h] EXCEPT !.pag = q + 1]} : Ir(h, paso, l)
  BY <1>1
<1> QED
  BY <1>1, <1>2, <1>3, <1>4, <1>5, <1>6, MarcadosTag DEF EnElTagOEntrando

-------------------------------------------------------------------------------
LEMMA OcupadoCommitPersistir ==
  ASSUME InvBloques, OcupadoOK, NEW h \in Hilos, CommitPersistir(h)
  PROVE  OcupadoOK'
<1>1. /\ pc[h] = "commit_persistir" /\ Ir(h, "responder", SinLocales)
      /\ UNCHANGED <<meta, logico, indice, bitmap>>
  BY DEF CommitPersistir, PersistirBitmap, Resultado
<1>2. pc'[h] = "responder" /\ pedido' = pedido
  BY <1>1, DelHilo, EfectoDeIr
<1>3. EnLoSuyo(h) /\ pc[h] \in Neutros /\ pc'[h] \in Neutros
  BY <1>1, <1>2, SuyoAdentro DEF Adentro, Neutros
<1>4. PasoOK(h)'
  BY <1>2, <1>3, NeutroLuego
<1>5. \A p \in Pagina, b \in Comun : Suya(h, p, b)' => Suya(h, p, b)
  BY <1>1, <1>2 DEF Suya
<1>6. Commited(pedido[h].f) => meta'[pedido[h].f].estado = "COMMITED"
  BY <1>1 DEF Commited
<1> QED
  BY <1>1, <1>3, <1>4, <1>5, <1>6, OcupadoNeutro

LEMMA OcupadoOperacion ==
  ASSUME InvIntacto, Intacto, Apartadas, OcupadoOK, NEW h \in Hilos, Operacion(h)
  PROVE  OcupadoOK'
<1>1. InvBloques /\ SinDelete
  BY DEF InvIntacto, Apartadas
<1>2. ~(\/ Eliminar(h) \/ DelUnlink(h) \/ DelStat(h) \/ DelFisico(h) \/ DelBit(h)
        \/ DelPersistir(h) \/ DelRm(h))
  BY <1>1, SinOperacionDelete
<1>3. CASE Crear(h) \/ CrearMeta(h) \/ Leer(h) \/ Tag(h) \/ TagMeta(h) \/ TagLink(h)
  BY <1>1, <1>3, OcupadoCrear, OcupadoLeer, OcupadoTag, OcupadoTagMeta, OcupadoTagLink
<1>4. CASE Truncar(h) \/ TruncCrecer(h) \/ TruncBajar(h) \/ TruncStat(h) \/ TruncLiberar(h)
           \/ TruncMeta(h)
  BY <1>1, <1>4, OcupadoTruncar, OcupadoTruncCrecer, OcupadoTruncBajar, OcupadoTruncStat,
     OcupadoTruncLiberar, OcupadoTruncMeta
<1>5. CASE \/ Flush(h) \/ EscribirBloque(h) \/ PrepararPagina(h) \/ Copiar(h) \/ Desenlazar(h)
           \/ Reenlazar(h) \/ GuardarBlocks(h) \/ EscribirPendiente(h) \/ TerminarEscritura(h)
  BY <1>1, <1>5, OcupadoEscribir, OcupadoPrepararPagina, OcupadoCopiar, OcupadoDesenlazar,
     OcupadoReenlazar, OcupadoGuardarBlocks, OcupadoEscribirPendiente
<1>6. CASE \/ Commit(h) \/ DedupPag(h) \/ DedupLink(h) \/ DedupBit(h) \/ DedupPersistir(h)
           \/ DedupGuardar(h) \/ CommitEstado(h) \/ CommitPersistir(h)
  BY <1>1, <1>6, OcupadoCommit, OcupadoDedupPag, OcupadoDedupLink, OcupadoDedupBit,
     OcupadoDedupPersistir, OcupadoDedupGuardar, OcupadoCommitEstado, OcupadoCommitPersistir
<1> QED
  BY <1>2, <1>3, <1>4, <1>5, <1>6 DEF Operacion

\* A request that arrives, or is answered, is not inside any operation.
LEMMA OcupadoPedir ==
  ASSUME InvBloques, OcupadoOK, NEW h \in Hilos, Pedir(h) \/ Responder(h)
  PROVE  OcupadoOK'
<1>1. HilosOK
  BY DEF InvBloques
<1>2. /\ UNCHANGED <<meta, logico, indice, bitmap, mezcla>>
      /\ pc'[h] \in {"libre", "entrar"} /\ pc[h] \in {"libre", "responder"}
  BY <1>1 DEF Pedir, Responder, disco, entorno, HilosOK
<1>3. \A g \in Hilos \ {h} : pc'[g] = pc[g] /\ loc'[g] = loc[g] /\ pedido'[g] = pedido[g]
  BY <1>1 DEF Pedir, Responder, HilosOK
<1> QED
  BY <1>2, <1>3, OcupadoFuera DEF Adentro

LEMMA OcupadoAlInicio == Init => OcupadoOK
<1> SUFFICES ASSUME Init PROVE OcupadoOK
  OBVIOUS
<1>1. ASSUME NEW h \in Hilos
      PROVE  /\ ~EnDedup(h) /\ \A b : ~Reclama(h, b) /\ ~Publica(h, b)
             /\ \A p, b : ~Pone(h, p, b)
             /\ PasoOK(h)
  <2>1. pc[h] = "libre"
    BY DEF Init
  <2> QED
    BY <2>1 DEF EnDedup, PasosDedup, Reclama, Publica, Pone, EnEscritura, PasoOK, EnTruncate, Achica
<1>2. ASSUME NEW f \in Archivos
      PROVE  /\ Len(meta[f].blocks) <= MaxPaginas
             /\ \A p \in Pagina : logico[f][p] \in {0, Nadie}
             /\ \A p \in Pagina : p < Len(meta[f].blocks) => meta[f].blocks[p + 1] = 0
  <2>1. meta[f].blocks \in {<<0>>, <<>>}
    BY DEF Init, SinMeta
  <2>2. Len(<<0>>) = 1 /\ Len(<<>>) = 0 /\ <<0>>[1] = 0 /\ \A p \in Pagina : p \in Nat
    BY DEF Pagina
  <2>3. Len(meta[f].blocks) <= MaxPaginas
    <3>1. Len(meta[f].blocks) = 0 \/ Len(meta[f].blocks) = 1
      BY <2>1, <2>2
    <3>2. 0 <= MaxPaginas /\ 1 <= MaxPaginas
      BY BloquesAssumption
    <3> QED
      BY <3>1, <3>2
  <2>4. \A p \in Pagina : p < Len(meta[f].blocks) => meta[f].blocks[p + 1] = 0
    BY <2>1, <2>2
  <2>5. \A p \in Pagina : logico[f][p] \in {0, Nadie}
    BY DEF Init
  <2> QED
    BY <2>3, <2>4, <2>5
<1>3. \A b \in Comun : b # 0 /\ b # Nadie
  BY BloquesAssumption DEF Comun, Bloque
<1>4. \A f \in Archivos, p \in Pagina, b \in Comun : ~Guarda(f, p, b)
  BY <1>1, <1>2, <1>3 DEF Guarda
<1>5. \A b \in Comun : ~Publicado(b)
  BY <1>1, <1>3 DEF Publicado, Init, SinIndice
<1>6. Marcados /\ Unicos /\ Propios /\ Cerrados
  BY <1>1, <1>4, <1>5 DEF Marcados, Unicos, Propios, Cerrados
<1>7. CursosOK
  BY <1>1, <1>2 DEF CursosOK, LargosOK, UnSoloDedup
<1> QED
  BY <1>6, <1>7 DEF OcupadoOK, DuenosOK

LEMMA OcupadoIgual == OcupadoOK /\ UNCHANGED vars => OcupadoOK'
<1> SUFFICES ASSUME OcupadoOK, UNCHANGED vars PROVE OcupadoOK'
  OBVIOUS
<1>1. UNCHANGED <<mezcla, meta, logico, indice, bitmap, pc, pedido, loc>>
  BY DEF vars, disco, entorno
<1>2. ASSUME NEW h \in Hilos
      PROVE  /\ EnDedup(h)' <=> EnDedup(h)
             /\ \A p : (Deja(h, p)' <=> Deja(h, p)) /\ (Exime(h, p)' <=> Exime(h, p))
             /\ \A p, b : Pone(h, p, b)' <=> Pone(h, p, b)
             /\ \A b : (Publica(h, b)' <=> Publica(h, b)) /\ (Reclama(h, b)' <=> Reclama(h, b))
             /\ PasoOK(h) => PasoOK(h)'
  BY <1>1, OtroHilo, OtroReclamo, OtroPaso
<1>3. /\ \A f \in Archivos, p \in Pagina, b \in Comun : Guarda(f, p, b)' <=> Guarda(f, p, b)
      /\ \A f \in Archivos, p \in Pagina : Exenta(f, p)' <=> Exenta(f, p)
      /\ \A b : Publicado(b)' <=> Publicado(b)
  <2>1. ASSUME NEW f \in Archivos, NEW p \in Pagina, NEW b \in Comun
        PROVE  Guarda(f, p, b)' <=> Guarda(f, p, b)
    BY <1>1, <1>2 DEF Guarda
  <2>2. \A f \in Archivos, p \in Pagina : Exenta(f, p)' <=> Exenta(f, p)
    BY <1>1, <1>2 DEF Exenta, Commited
  <2>3. \A b : Publicado(b)' <=> Publicado(b)
    BY <1>1, <1>2 DEF Publicado
  <2>4. Comun' = Comun
    BY DEF Comun
  <2> QED
    BY <2>1, <2>2, <2>3, <2>4
<1>4. CursosOK'
  BY <1>1, <1>2 DEF OcupadoOK, CursosOK, LargosOK, UnSoloDedup
<1>5. Marcados'
  BY <1>1, <1>2, <1>3 DEF OcupadoOK, DuenosOK, Marcados, Comun
<1>6. ASSUME SinTag PROVE Unicos' /\ Propios' /\ Cerrados'
  BY <1>2, <1>3, <1>6 DEF OcupadoOK, DuenosOK, Unicos, Propios, Cerrados, Comun
<1> QED
  BY <1>1, <1>4, <1>5, <1>6 DEF OcupadoOK, DuenosOK, SinTag

LEMMA OcupadoSigue == InvOcupado /\ [Next]_vars => InvOcupado'
<1> SUFFICES ASSUME InvOcupado, [Next]_vars PROVE InvOcupado'
  OBVIOUS
<1>1. InvIntacto /\ InvIntacto' /\ InvBloques
  BY IntactoPaso DEF InvOcupado, InvIntacto
<1>2. caidas' \in Nat /\ (Apartadas' => Apartadas /\ ~Caer)
  <2>1. ASSUME NEW h \in Hilos, Operacion(h) PROVE UNCHANGED entorno
    BY <2>1, EntornoIgual
  <2>2. CASE Caer
    <3>1. caidas \in Nat /\ caidas' = caidas + 1
      BY <2>2 DEF Caer, InvOcupado
    <3> QED
      BY <3>1 DEF Apartadas
  <2>3. CASE ~Caer
    <3>1. mezcla' = mezcla /\ caidas' = caidas
      BY <2>1, <2>3 DEF Next, Pedir, Responder, vars, entorno
    <3> QED
      BY <2>3, <3>1 DEF InvOcupado, Apartadas, SinDelete, SinTag, NadaSeLibera
  <2> QED
    BY <2>2, <2>3
<1>3. ASSUME Apartadas, ~Caer PROVE OcupadoOK'
  <2>1. OcupadoOK /\ Intacto
    BY <1>3 DEF InvOcupado, InvIntacto, Apartadas
  <2>2. CASE \E h \in Hilos : Operacion(h)
    BY <1>1, <1>3, <2>1, <2>2, OcupadoOperacion
  <2>3. CASE \E h \in Hilos : Pedir(h) \/ Responder(h)
    BY <1>1, <2>1, <2>3, OcupadoPedir
  <2>4. CASE UNCHANGED vars
    BY <2>1, <2>4, OcupadoIgual
  <2> QED
    BY <1>3, <2>2, <2>3, <2>4 DEF Next
<1> QED
  BY <1>1, <1>2, <1>3 DEF InvOcupado

\* The inductive invariant holds in every state that Storage reaches.
THEOREM OcupadoSiempre == Spec => []InvOcupado
<1>1. Init => InvOcupado
  <2>1. Init => InvIntacto
    BY BloquesAlInicio, IntactoAlInicio DEF InvIntacto
  <2>2. Init => caidas \in Nat
    BY DEF Init
  <2> QED
    BY <2>1, <2>2, OcupadoAlInicio DEF InvOcupado
<1>2. InvOcupado /\ [Next]_vars => InvOcupado'
  BY OcupadoSigue
<1> QED
  BY <1>1, <1>2, PTL DEF Spec

\* A block that a page links is marked used, whatever CREATE, TRUNCATE, FLUSH, WRITE and COMMIT
\* run at once: no thread can reserve it for another page, as long as there is no DELETE, Storage
\* has not crashed, and TAG is not mixed with what frees the blocks of one file:tag alone, that is
\* COMMIT and a TRUNCATE to fewer pages (reservar_bloque, truncar_file, evitar_duplicidad).
THEOREM EnlazadoSiempreOcupado == Spec => [](Apartadas => EnlazadoOcupado)
<1>1. InvOcupado => (Apartadas => EnlazadoOcupado)
  <2> SUFFICES ASSUME InvOcupado, Apartadas, NEW f \in Archivos, NEW p \in Pagina,
                      NEW b \in Bloque \ {0}, logico[f][p] = nodo[b]
               PROVE  b \in bitmap
    BY DEF EnlazadoOcupado
  <2>1. Marcados /\ Intacto
    BY DEF InvOcupado, InvIntacto, Apartadas, OcupadoOK, DuenosOK
  <2>2. logico[f][p] = b /\ b \in Comun
    BY <2>1 DEF Intacto, Comun
  <2>3. Guarda(f, p, b)
    BY <2>2 DEF Guarda
  <2> QED
    BY <2>1, <2>2, <2>3 DEF Marcados
<1> QED
  BY <1>1, OcupadoSiempre, PTL
================================================================================
