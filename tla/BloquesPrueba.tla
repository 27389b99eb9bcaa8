---------------------------- MODULE BloquesPrueba -----------------------------
(***************************************************************************)
(* What holds of the file system of Storage whatever its threads do, for   *)
(* every number of threads, file:tags, blocks and crashes: every variable  *)
(* keeps its type, and block 0 keeps its name and the link of              *)
(* initial_file:BASE.                                                      *)
(*                                                                         *)
(* A thread inside an operation indexes BLOCKS of its file:tag with a      *)
(* counter that it checked some steps before (CursoOK).  That the index is *)
(* still good rests on the exclusion of the mutexes (Exclusivos), and on   *)
(* what kind of request the thread is serving (OpOK).                      *)
(*                                                                         *)
(* While no file:tag is deleted more holds: block 0 is never written, and  *)
(* BLOCKS of a file:tag names the blocks it links whenever nobody holds    *)
(* its mutex.  A physical name is removed by DELETE only, so until the     *)
(* first DELETE block<b>.dat names inode b, every linked inode has a name  *)
(* too, and a FLUSH or WRITE_BLOCK never finds the page it writes the only *)
(* link of its inode: it copies it, to a block that is not block 0.        *)
(***************************************************************************)
EXTENDS Bloques, FiniteSetTheorems, SequenceTheorems, TLAPS

EnTruncate(h) == pc[h] \in {"trunc_crecer", "trunc_bajar", "trunc_stat", "trunc_liberar", "trunc_meta"}
EnTag(h) == pc[h] \in {"tag_meta", "tag_link"}
EnEscritura(h) == pc[h] \in {"pagina", "copiar", "desenlazar", "enlazar", "escribir"}
EnCommit(h) == pc[h] \in PasosDedup \cup {"commit_estado", "commit_persistir"}
EnDelete(h) == pc[h] \in {"del_unlink", "del_stat", "del_fisico", "del_bit", "del_persistir", "del_rm"}
Adentro(h) == pc[h] \notin {"libre", "entrar", "responder"}

\* The request that a thread serves is the one its point belongs to.
OpOK(h) ==
    /\ pc[h] # "libre" => pedido[h] \in mezcla
    /\ Adentro(h) => pedido[h].f # Base
    /\ pc[h] = "crear_meta" => pedido[h].op = "CREATE"
    /\ EnTruncate(h) => pedido[h].op = "TRUNCATE"
    /\ EnTag(h) => pedido[h].op = "TAG" /\ pedido[h].d # Base
    /\ EnEscritura(h) => pedido[h].op \in {"FLUSH", "WRITE"}
    /\ EnCommit(h) => pedido[h].op = "COMMIT"
    /\ EnDelete(h) => pedido[h].op = "DELETE"

\* The counters of an operation are within what they count.
Largo(h) == Len(meta[pedido[h].f].blocks)
CursoOK(h) ==
    /\ pc[h] = "trunc_crecer" => loc[h].pag < pedido[h].n
    /\ pc[h] \in {"trunc_bajar", "trunc_stat", "trunc_liberar"} => pedido[h].n <= loc[h].pag
    /\ pc[h] = "tag_link" => loc[h].pag < MaxPaginas
    /\ pc[h] \in {"copiar", "desenlazar", "enlazar"} =>
          loc[h].cola # <<>> /\ EnCurso(h)[1] \in Pagina /\ loc[h].nuevo # 0
    /\ pc[h] \in PasosDedup => Len(loc[h].lista) = Largo(h)
    /\ pc[h] = "dedup_pag" => loc[h].pag <= Largo(h)
    /\ pc[h] \in PasosDedup \ {"dedup_pag"} => loc[h].pag < Largo(h)
    /\ pc[h] = "del_unlink" => meta[pedido[h].f].blocks = <<>> \/ loc[h].pag < Largo(h)
    /\ pc[h] \in {"del_stat", "del_fisico", "del_bit"} => loc[h].pag < Largo(h)
    /\ pc[h] = "del_fisico" => DelBloque(h) # 0

HilosOK ==
    /\ mezcla \in Mezclas
    /\ pc \in [Hilos -> Pasos]
    /\ loc \in [Hilos -> Locales]
    /\ ok \in [Hilos -> BOOLEAN]
    /\ pedido \in [Hilos -> mezcla \cup {SinPedido}]

Metas == [estado : Estados, tam : 0..MaxPaginas, blocks : Seq(Bloque)]
Enlace == Nodo \cup {Nadie}

DiscoOK ==
    /\ meta \in [Archivos -> Metas]
    /\ logico \in [Archivos -> [Pagina -> Enlace]]
    /\ nodo \in [Bloque -> Enlace]
    /\ dato \in [Nodo -> Contenidos]
    /\ indice \in [Contenidos -> Bloque \cup {Nadie}]
    /\ bitmap \subseteq Bloque /\ bitmapDisco \subseteq Bloque
    /\ leido \in [Hilos -> Contenidos]

BaseOK == meta[Base].estado = "COMMITED" /\ BloqueCeroPresente

\* No two threads hold the mutex of one file:tag.
Exclusivos == \A g \in Hilos : \A h \in Hilos \ {g} : Tiene(g) \cap Tiene(h) = {}

InvBloques ==
    /\ HilosOK /\ DiscoOK /\ BaseOK /\ Exclusivos
    /\ \A h \in Hilos : OpOK(h) /\ CursoOK(h)

-------------------------------------------------------------------------------
(* The steps of a thread, whatever they are. *)

\* The mutexes of the request, if it needs any, are not in other hands.
Suyos(h) == SinCandado(pedido[h])
            \/ \A g \in Hilos \ {h} : Tiene(g) \cap Nombrados(pedido[h]) = {}

LEMMA SuyosAdentro ==
  ASSUME InvBloques, NEW h \in Hilos, pc[h] \notin {"libre", "entrar"}
  PROVE  Suyos(h)
<1>1. ~SinCandado(pedido[h]) => Tiene(h) = Nombrados(pedido[h])
  BY DEF Tiene
<1>2. \A g \in Hilos \ {h} : h \in Hilos \ {g} /\ Tiene(g) \cap Tiene(h) = {}
  BY DEF InvBloques, Exclusivos
<1> QED
  BY <1>1, <1>2 DEF Suyos

LEMMA SuyosAlEntrar ==
  ASSUME InvBloques, NEW h \in Hilos, NEW op, Empieza(h, op)
  PROVE  Suyos(h)
<1>1. ~SinCandado(pedido[h]) => \A f \in Nombrados(pedido[h]) : \A g \in Hilos : f \notin Tiene(g)
  BY DEF Empieza, Tomable
<1> QED
  BY <1>1 DEF Suyos

LEMMA EfectoDeIr ==
  ASSUME HilosOK, NEW h \in Hilos, NEW paso, NEW l, Ir(h, paso, l)
  PROVE  /\ pc'[h] = paso /\ loc'[h] = l /\ pedido' = pedido /\ mezcla' = mezcla
         /\ \A g \in Hilos \ {h} : pc'[g] = pc[g] /\ loc'[g] = loc[g]
         /\ paso \in Pasos => pc' \in [Hilos -> Pasos]
         /\ l \in Locales => loc' \in [Hilos -> Locales]
BY DEF HilosOK, Ir, entorno

\* A step of h leaves alone the file:tags that other threads hold, so what holds of
\* those threads still does, and they still exclude each other.
LEMMA OtrosIgual ==
  ASSUME InvBloques, NEW h \in Hilos, Suyos(h),
         NEW g \in Hilos \ {h}, pc'[g] = pc[g], loc'[g] = loc[g], pedido' = pedido, mezcla' = mezcla,
         \A f \in Tiene(g) : meta'[f] = meta[f]
  PROVE  OpOK(g)' /\ CursoOK(g)' /\ Tiene(g)' = Tiene(g)
<1>1. Tiene(g)' = Tiene(g)
  BY DEF Tiene, SinCandado, Nombrados
<1>2. OpOK(g) /\ CursoOK(g)
  BY DEF InvBloques
<1>3. OpOK(g)'
  BY <1>2 DEF OpOK, Adentro, EnTruncate, EnTag, EnEscritura, EnCommit, EnDelete
<1>4. Adentro(g) => meta'[pedido[g].f] = meta[pedido[g].f]
  <2>1. Adentro(g) => pedido[g].f \in Tiene(g)
    BY <1>2 DEF OpOK, Adentro, Tiene, SinCandado, Nombrados
  <2> QED
    BY <2>1
<1>5. CursoOK(g)'
  <2>1. CASE Adentro(g)
    BY <1>2, <1>4, <2>1 DEF CursoOK, Largo, DelBloque, EnCurso
  <2>2. CASE ~Adentro(g)
    BY <1>2, <2>2 DEF CursoOK, Adentro, PasosDedup, EnCurso
  <2> QED
    BY <2>1, <2>2
<1> QED
  BY <1>1, <1>3, <1>5

LEMMA SiguenExclusivos ==
  ASSUME InvBloques, NEW h \in Hilos, Suyos(h), pedido' = pedido,
         \A g \in Hilos \ {h} : Tiene(g)' = Tiene(g)
  PROVE  Exclusivos'
<1>1. Tiene(h)' \subseteq Nombrados(pedido[h]) /\ (SinCandado(pedido[h]) => Tiene(h)' = {})
  BY DEF Tiene, SinCandado, Nombrados
<1>2. \A g \in Hilos \ {h} : Tiene(g)' \cap Tiene(h)' = {}
  BY <1>1 DEF Suyos
<1>3. ASSUME NEW a \in Hilos, NEW b \in Hilos \ {a} PROVE Tiene(a)' \cap Tiene(b)' = {}
  <2>1. CASE a = h
    BY <1>2, <2>1
  <2>2. CASE b = h
    BY <1>2, <2>2
  <2>3. CASE a # h /\ b # h
    <3>1. Tiene(a) \cap Tiene(b) = {}
      BY DEF InvBloques, Exclusivos
    <3> QED
      BY <2>3, <3>1
  <2> QED
    BY <2>1, <2>2, <2>3
<1> QED
  BY <1>3 DEF Exclusivos

\* What is left to show of a step of h: its own point and the disk.
LEMMA Paso ==
  ASSUME InvBloques, NEW h \in Hilos, Suyos(h),
         NEW paso \in Pasos, NEW l \in Locales, Ir(h, paso, l),
         DiscoOK', BaseOK', ok' \in [Hilos -> BOOLEAN],
         \A f \in Archivos \ Nombrados(pedido[h]) : meta'[f] = meta[f],
         SinCandado(pedido[h]) => meta' = meta,
         OpOK(h)', CursoOK(h)'
  PROVE  InvBloques'
<1>1. HilosOK /\ \A g \in Hilos : OpOK(g)
  BY DEF InvBloques
<1>2. /\ pc' \in [Hilos -> Pasos] /\ loc' \in [Hilos -> Locales] /\ pedido' = pedido /\ mezcla' = mezcla
      /\ \A g \in Hilos \ {h} : pc'[g] = pc[g] /\ loc'[g] = loc[g]
  BY <1>1, EfectoDeIr
<1>3. HilosOK'
  BY <1>1, <1>2 DEF HilosOK
<1>4. ASSUME NEW g \in Hilos \ {h} PROVE OpOK(g)' /\ CursoOK(g)' /\ Tiene(g)' = Tiene(g)
  <2>1. Tiene(g) \subseteq Archivos
    <3>1. pedido[g].f \in Archivos /\ (pedido[g].op = "TAG" => pedido[g].d \in Archivos)
      BY <1>1, PedidosAssumption, BloquesAssumption DEF HilosOK, SinPedido
    <3> QED
      BY <3>1 DEF Tiene, Nombrados
  <2>2. \A f \in Tiene(g) : meta'[f] = meta[f]
    BY <2>1 DEF Suyos
  <2> QED
    BY <1>2, <2>2, OtrosIgual
<1>5. Exclusivos'
  BY <1>2, <1>4, SiguenExclusivos
<1> QED
  BY <1>3, <1>4, <1>5 DEF InvBloques
-------------------------------------------------------------------------------
(* What the steps do to the disk. *)

LEMMA DiscoIgual ==
  ASSUME DiscoOK, BaseOK, UNCHANGED <<disco, bitmap, leido>>
  PROVE  DiscoOK' /\ BaseOK' /\ meta' = meta
BY DEF disco, DiscoOK, BaseOK, BloqueCeroPresente

LEMMA DiscoEnlazar ==
  ASSUME DiscoOK, BaseOK, NEW f \in Archivos \ {Base}, NEW p, NEW n \in Enlace, Enlazar(f, p, n)
  PROVE  DiscoOK' /\ BaseOK' /\ meta' = meta
<1>1. logico' \in [Archivos -> [Pagina -> Enlace]] /\ logico'[Base] = logico[Base]
  BY BloquesAssumption DEF DiscoOK, Enlazar
<1> QED
  BY <1>1 DEF DiscoOK, BaseOK, BloqueCeroPresente, Enlazar

LEMMA DiscoMeta ==
  ASSUME DiscoOK, BaseOK, NEW f \in Archivos \ {Base}, NEW m \in Metas, PonerMeta(f, m)
  PROVE  /\ DiscoOK' /\ BaseOK'
         /\ meta'[f] = m /\ \A g \in Archivos \ {f} : meta'[g] = meta[g]
<1>1. /\ meta' \in [Archivos -> Metas] /\ meta'[Base] = meta[Base]
      /\ meta'[f] = m /\ \A g \in Archivos \ {f} : meta'[g] = meta[g]
  BY BloquesAssumption DEF DiscoOK, PonerMeta
<1> QED
  BY <1>1 DEF DiscoOK, BaseOK, BloqueCeroPresente, PonerMeta

LEMMA DiscoBitmap ==
  ASSUME DiscoOK, BaseOK, NEW s \in SUBSET Bloque, PonerBitmap(s)
  PROVE  DiscoOK' /\ BaseOK' /\ meta' = meta
BY DEF DiscoOK, BaseOK, BloqueCeroPresente, PonerBitmap, disco

LEMMA DiscoPersistir ==
  ASSUME DiscoOK, BaseOK, PersistirBitmap
  PROVE  DiscoOK' /\ BaseOK' /\ meta' = meta
BY DEF DiscoOK, BaseOK, BloqueCeroPresente, PersistirBitmap

-------------------------------------------------------------------------------
(* The locals of an operation. *)

LEMMA Iniciales == SinLocales \in Locales
<1>1. 0 \in Bloque /\ SinIndice \in [Contenidos -> Bloque \cup {Nadie}]
  BY BloquesAssumption DEF Bloque, SinIndice
<1>2. <<>> \in Seq(Nat \X Contenidos) /\ <<>> \in Seq(Pagina \X Bloque \X Contenidos)
      /\ <<>> \in Seq(Bloque)
  OBVIOUS
<1> QED
  BY <1>1, <1>2 DEF SinLocales, Locales

LEMMA CamposDe ==
  ASSUME NEW l \in Locales
  PROVE  /\ l.pag \in Nat /\ l.cola \in Seq(Nat \X Contenidos)
         /\ l.pend \in Seq(Pagina \X Bloque \X Contenidos)
         /\ l.nuevo \in Bloque /\ l.lista \in Seq(Bloque)
         /\ l.idx \in [Contenidos -> Bloque \cup {Nadie}] /\ l.modif \in BOOLEAN
BY DEF Locales

LEMMA ConPag ==
  ASSUME NEW l \in Locales, NEW n \in Nat
  PROVE  /\ [l EXCEPT !.pag = n] \in Locales /\ [l EXCEPT !.pag = n].pag = n
         /\ [l EXCEPT !.pag = n].lista = l.lista /\ [l EXCEPT !.pag = n].cola = l.cola
         /\ [l EXCEPT !.pag = n].pend = l.pend
BY DEF Locales

LEMMA ConCola ==
  ASSUME NEW l \in Locales, NEW c \in Seq(Nat \X Contenidos)
  PROVE  [l EXCEPT !.cola = c] \in Locales
BY DEF Locales

LEMMA ConColaYNuevo ==
  ASSUME NEW l \in Locales, NEW c \in Seq(Nat \X Contenidos), NEW n \in Bloque
  PROVE  [l EXCEPT !.cola = c, !.nuevo = n] \in Locales
BY DEF Locales

LEMMA ConPend ==
  ASSUME NEW l \in Locales, NEW q \in Seq(Pagina \X Bloque \X Contenidos)
  PROVE  [l EXCEPT !.pend = q] \in Locales
BY DEF Locales

LEMMA ConNuevo ==
  ASSUME NEW l \in Locales, NEW n \in Bloque
  PROVE  /\ [l EXCEPT !.nuevo = n] \in Locales /\ [l EXCEPT !.nuevo = n].nuevo = n
         /\ [l EXCEPT !.nuevo = n].cola = l.cola
BY DEF Locales

-------------------------------------------------------------------------------
(* The end of an operation. *)

LEMMA PasoResultado ==
  ASSUME InvBloques, NEW h \in Hilos, Suyos(h), pc[h] # "libre", NEW r \in BOOLEAN, Resultado(h, r),
         DiscoOK', BaseOK',
         \A f \in Archivos \ Nombrados(pedido[h]) : meta'[f] = meta[f],
         SinCandado(pedido[h]) => meta' = meta
  PROVE  InvBloques'
<1>1. HilosOK /\ OpOK(h) /\ Ir(h, "responder", SinLocales) /\ ok' \in [Hilos -> BOOLEAN]
  BY DEF InvBloques, HilosOK, Resultado
<1>2. pc'[h] = "responder" /\ pedido' = pedido /\ mezcla' = mezcla
  BY <1>1, EfectoDeIr
<1>3. OpOK(h)' /\ CursoOK(h)' /\ "responder" \in Pasos
  BY <1>1, <1>2 DEF OpOK, CursoOK, Adentro, EnTruncate, EnTag, EnEscritura, EnCommit, EnDelete,
     PasosDedup, Pasos
<1> QED
  BY <1>1, <1>3, Iniciales, Paso

LEMMA PasoFalla ==
  ASSUME InvBloques, NEW h \in Hilos, Suyos(h), pc[h] # "libre", Falla(h)
  PROVE  InvBloques'
<1>1. DiscoOK' /\ BaseOK' /\ meta' = meta
  BY DiscoIgual DEF InvBloques, Falla
<1> QED
  BY <1>1, PasoResultado DEF Falla
-------------------------------------------------------------------------------
LEMMA DelPedido ==
  ASSUME InvBloques, NEW h \in Hilos, pc[h] # "libre"
  PROVE  LET p == pedido[h] IN
         /\ p \in mezcla /\ p.f \in Archivos /\ p.f \in Nombrados(p)
         /\ p.op \in {"CREATE", "TRUNCATE", "TAG", "READ", "FLUSH", "WRITE", "COMMIT", "DELETE"}
         /\ p.op = "TAG" => p.d \in Archivos /\ p.d \in Nombrados(p)
         /\ p.op = "TRUNCATE" => p.n \in 0..MaxPaginas
         /\ p.op = "READ" => p.p \in Nat
         /\ p.op \in {"FLUSH", "WRITE"} => p.paginas \in Seq(Nat \X Contenidos)
         /\ p.f # Base => ~SinCandado(p)
<1>1. pedido[h] \in mezcla /\ mezcla \in Mezclas
  BY DEF InvBloques, OpOK, HilosOK
<1>2. pedido[h] \in UNION Mezclas
  BY <1>1
<1> QED
  BY <1>1, <1>2, PedidosAssumption DEF Nombrados, SinCandado

LEMMA DelHilo ==
  ASSUME InvBloques, NEW h \in Hilos
  PROVE  /\ HilosOK /\ DiscoOK /\ BaseOK /\ OpOK(h) /\ CursoOK(h)
         /\ loc[h] \in Locales /\ ok[h] \in BOOLEAN
         /\ \A r \in BOOLEAN : [ok EXCEPT ![h] = r] \in [Hilos -> BOOLEAN]
BY DEF InvBloques, HilosOK

\* A step of a thread that is inside an operation on a file:tag that is not initial_file:BASE.
LEMMA PasoAdentro ==
  ASSUME InvBloques, NEW h \in Hilos, Adentro(h),
         NEW paso \in Pasos, NEW l \in Locales, Ir(h, paso, l),
         DiscoOK', BaseOK', ok' \in [Hilos -> BOOLEAN],
         \A f \in Archivos \ Nombrados(pedido[h]) : meta'[f] = meta[f],
         OpOK(h)', CursoOK(h)'
  PROVE  InvBloques'
<1>1. Suyos(h) /\ pedido[h].f # Base /\ pc[h] # "libre"
  BY SuyosAdentro DEF InvBloques, OpOK, Adentro
<1>2. ~SinCandado(pedido[h])
  BY <1>1, DelPedido
<1> QED
  BY <1>1, <1>2, Paso

LEMMA PasoAdentroSinDisco ==
  ASSUME InvBloques, NEW h \in Hilos, Adentro(h),
         NEW paso \in Pasos, NEW l \in Locales, Ir(h, paso, l),
         UNCHANGED <<disco, bitmap, leido>>, ok' \in [Hilos -> BOOLEAN],
         OpOK(h)', CursoOK(h)'
  PROVE  InvBloques'
<1>1. DiscoOK' /\ BaseOK' /\ meta' = meta
  BY DelHilo, DiscoIgual
<1> QED
  BY <1>1, PasoAdentro

\* A thread that starts an operation on a file:tag that is not initial_file:BASE.
LEMMA PasoEntrar ==
  ASSUME InvBloques, NEW h \in Hilos, NEW op, Empieza(h, op), pedido[h].f # Base,
         NEW paso \in Pasos, NEW l \in Locales, Ir(h, paso, l),
         DiscoOK', BaseOK', ok' \in [Hilos -> BOOLEAN],
         \A f \in Archivos \ Nombrados(pedido[h]) : meta'[f] = meta[f],
         OpOK(h)', CursoOK(h)'
  PROVE  InvBloques'
<1>1. Suyos(h) /\ ~SinCandado(pedido[h])
  BY SuyosAlEntrar, DelPedido DEF Empieza
<1> QED
  BY <1>1, Paso

LEMMA PasoEntrarSinDisco ==
  ASSUME InvBloques, NEW h \in Hilos, NEW op, Empieza(h, op), pedido[h].f # Base,
         NEW paso \in Pasos, NEW l \in Locales, Ir(h, paso, l),
         UNCHANGED <<disco, bitmap, leido>>, ok' \in [Hilos -> BOOLEAN],
         OpOK(h)', CursoOK(h)'
  PROVE  InvBloques'
<1>1. DiscoOK' /\ BaseOK' /\ meta' = meta
  BY DelHilo, DiscoIgual
<1> QED
  BY <1>1, PasoEntrar

LEMMA FallaAlEntrar ==
  ASSUME InvBloques, NEW h \in Hilos, NEW op, Empieza(h, op), Falla(h)
  PROVE  InvBloques'
<1>1. Suyos(h) /\ pc[h] # "libre"
  BY SuyosAlEntrar DEF Empieza
<1> QED
  BY <1>1, PasoFalla

LEMMA SonMetas ==
  /\ SinMeta \in Metas /\ \A e \in Estados : [SinMeta EXCEPT !.estado = e] \in Metas
  /\ \A m \in Metas : \A e \in Estados : [m EXCEPT !.estado = e] \in Metas
  /\ \A m \in Metas : /\ m.estado \in Estados /\ m.tam \in 0..MaxPaginas /\ m.tam \in Nat
                      /\ m.blocks \in Seq(Bloque) /\ Len(m.blocks) \in Nat
  /\ \A m \in Metas : \A e \in Estados : [m EXCEPT !.estado = e].blocks = m.blocks
<1>1. <<>> \in Seq(Bloque) /\ 0 \in 0..MaxPaginas
  BY BloquesAssumption
<1>2. \A n \in 0..MaxPaginas : n \in Nat
  BY BloquesAssumption
<1>3. "ausente" \in Estados /\ SinMeta \in Metas
  BY <1>1 DEF SinMeta, Metas, Estados
<1> QED
  BY <1>2, <1>3 DEF Metas

-------------------------------------------------------------------------------
LEMMA TipoCrear ==
  ASSUME InvBloques, NEW h \in Hilos, Crear(h) \/ CrearMeta(h)
  PROVE  InvBloques'
<1>1. pc[h] # "libre" /\ pedido[h].f \in Archivos /\ pedido[h].f \in Nombrados(pedido[h])
  BY DelPedido DEF Crear, Empieza, CrearMeta
<1>2. /\ HilosOK /\ DiscoOK /\ BaseOK /\ OpOK(h) /\ CursoOK(h) /\ ok \in [Hilos -> BOOLEAN]
  BY DelHilo DEF HilosOK
<1>3. {"carpeta", "WORK_IN_PROGRESS"} \subseteq Estados
  BY DEF Estados
<1>4. CASE Crear(h)
  <2>1. Empieza(h, "CREATE")
    BY <1>4 DEF Crear
  <2>2. CASE meta[pedido[h].f].estado # "ausente"
    BY <1>4, <2>1, <2>2, FallaAlEntrar DEF Crear
  <2>3. CASE meta[pedido[h].f].estado = "ausente"
    <3>1. /\ PonerMeta(pedido[h].f, [SinMeta EXCEPT !.estado = "carpeta"])
          /\ Ir(h, "crear_meta", SinLocales) /\ ok' = ok
      BY <1>4, <2>3 DEF Crear
    <3>2. pedido[h].f # Base
      BY <1>2, <2>3 DEF BaseOK
    <3>3. DiscoOK' /\ BaseOK' /\ \A g \in Archivos \ {pedido[h].f} : meta'[g] = meta[g]
      BY <1>1, <1>2, <1>3, <3>1, <3>2, SonMetas, DiscoMeta
    <3>4. pc'[h] = "crear_meta" /\ pedido' = pedido /\ mezcla' = mezcla
      BY <1>2, <3>1, EfectoDeIr
    <3>5. OpOK(h)' /\ CursoOK(h)' /\ "crear_meta" \in Pasos
      BY <1>2, <2>1, <3>2, <3>4 DEF OpOK, CursoOK, Adentro, EnTruncate, EnTag, EnEscritura,
         EnCommit, EnDelete, PasosDedup, Pasos, Empieza
    <3> QED
      BY <1>1, <1>2, <2>1, <3>1, <3>2, <3>3, <3>5, Iniciales, PasoEntrar
  <2> QED
    BY <2>2, <2>3
<1>5. CASE CrearMeta(h)
  <2>1. /\ pc[h] = "crear_meta" /\ Resultado(h, TRUE)
        /\ PonerMeta(pedido[h].f, [SinMeta EXCEPT !.estado = "WORK_IN_PROGRESS"])
    BY <1>5 DEF CrearMeta
  <2>2. pedido[h].f # Base /\ Suyos(h) /\ ~SinCandado(pedido[h])
    BY <1>1, <1>2, <2>1, SuyosAdentro, DelPedido DEF OpOK, Adentro
  <2>3. DiscoOK' /\ BaseOK' /\ \A g \in Archivos \ {pedido[h].f} : meta'[g] = meta[g]
    BY <1>1, <1>2, <1>3, <2>1, <2>2, SonMetas, DiscoMeta
  <2> QED
    BY <1>1, <2>1, <2>2, <2>3, PasoResultado
<1> QED
  BY <1>4, <1>5

LEMMA TipoLeer ==
  ASSUME InvBloques, NEW h \in Hilos, Leer(h)
  PROVE  InvBloques'
<1> DEFINE f == pedido[h].f
           p == pedido[h].p
<1>1. Empieza(h, "READ") /\ pc[h] = "entrar" /\ Suyos(h) /\ pedido[h].op = "READ"
  BY SuyosAlEntrar DEF Leer, Empieza
<1>2. CASE ~ConMetadata(f) \/ ~Legible(f, p)
  BY <1>1, <1>2, FallaAlEntrar DEF Leer
<1>3. CASE ConMetadata(f) /\ Legible(f, p)
  <2>1. leido' = [leido EXCEPT ![h] = dato[logico[f][p]]] /\ Resultado(h, TRUE)
        /\ UNCHANGED <<disco, bitmap>>
    BY <1>3 DEF Leer
  <2>2. f \in Archivos /\ p \in Nat
    BY <1>1, DelPedido
  <2>3. DiscoOK /\ BaseOK
    BY DelHilo
  <2>4. meta[f].tam \in 0..MaxPaginas
    BY <2>2, <2>3, SonMetas DEF DiscoOK
  <2>5. p \in Pagina
    BY <1>3, <2>2, <2>4, BloquesAssumption DEF Legible, Pagina
  <2>6. dato[logico[f][p]] \in Contenidos
    BY <1>3, <2>2, <2>3, <2>5 DEF DiscoOK, Legible, Enlace
  <2>7. DiscoOK' /\ BaseOK' /\ meta' = meta
    BY <2>1, <2>3, <2>6 DEF DiscoOK, BaseOK, BloqueCeroPresente, disco
  <2> QED
    BY <1>1, <2>1, <2>7, PasoResultado
<1> QED
  BY <1>2, <1>3
-------------------------------------------------------------------------------
LEMMA BloqueDeEs ==
  ASSUME DiscoOK, NEW f \in Archivos, NEW p \in Nat
  PROVE  BloqueDe(f, p) \in Bloque
<1>1. meta[f].blocks \in Seq(Bloque) /\ 0 \in Bloque
  BY SonMetas, BloquesAssumption DEF DiscoOK, Bloque
<1> QED
  BY <1>1 DEF BloqueDe

\* The steps of TRUNCATE that only move its counter.
LEMMA PasoTrunc ==
  ASSUME InvBloques, NEW h \in Hilos, pedido[h].op = "TRUNCATE", pedido[h].f # Base,
         pc[h] # "libre", NEW paso, NEW l \in Locales, Ir(h, paso, l),
         \/ paso = "trunc_crecer" /\ l.pag < pedido[h].n
         \/ paso \in {"trunc_bajar", "trunc_stat", "trunc_liberar"} /\ pedido[h].n <= l.pag
         \/ paso = "trunc_meta"
  PROVE  OpOK(h)' /\ CursoOK(h)' /\ paso \in Pasos
<1>1. HilosOK /\ pedido[h] \in mezcla
  BY DelHilo, DelPedido
<1>2. pc'[h] = paso /\ loc'[h] = l /\ pedido' = pedido /\ mezcla' = mezcla
  BY <1>1, EfectoDeIr
<1>3. paso \in {"trunc_crecer", "trunc_bajar", "trunc_stat", "trunc_liberar", "trunc_meta"}
  OBVIOUS
<1>4. OpOK(h)'
  BY <1>1, <1>2, <1>3 DEF OpOK, Adentro, EnTruncate, EnTag, EnEscritura, EnCommit, EnDelete, PasosDedup
<1>5. CursoOK(h)'
  BY <1>2, <1>3 DEF CursoOK, PasosDedup
<1> QED
  BY <1>3, <1>4, <1>5 DEF Pasos

LEMMA TipoTruncar ==
  ASSUME InvBloques, NEW h \in Hilos, Truncar(h)
  PROVE  InvBloques'
<1> DEFINE f == pedido[h].f
           n == pedido[h].n
           t == meta[f].tam
<1>1. Empieza(h, "TRUNCATE") /\ pc[h] # "libre" /\ pedido[h].op = "TRUNCATE"
  BY DEF Truncar, Empieza
<1>2. f \in Archivos /\ n \in 0..MaxPaginas /\ n \in Nat
  BY <1>1, DelPedido, BloquesAssumption
<1>3. CASE f = Base \/ meta[f].estado # "WORK_IN_PROGRESS"
  BY <1>1, <1>3, FallaAlEntrar DEF Truncar
<1>4. CASE f # Base /\ meta[f].estado = "WORK_IN_PROGRESS"
  <2>1. t \in Nat
    BY <1>2, DelHilo, SonMetas DEF DiscoOK
  <2>2. UNCHANGED <<disco, bitmap, ok, leido>>
    BY <1>4 DEF Truncar
  <2>3. \/ n > t /\ Ir(h, "trunc_crecer", [SinLocales EXCEPT !.pag = t])
        \/ n < t /\ Ir(h, "trunc_bajar", [SinLocales EXCEPT !.pag = t - 1])
        \/ n = t /\ Ir(h, "trunc_meta", SinLocales)
    BY <1>4 DEF Truncar
  <2>4. ok' \in [Hilos -> BOOLEAN]
    BY <2>2, DelHilo DEF HilosOK
  <2>5. CASE n > t /\ Ir(h, "trunc_crecer", [SinLocales EXCEPT !.pag = t])
    <3>1. [SinLocales EXCEPT !.pag = t] \in Locales /\ [SinLocales EXCEPT !.pag = t].pag = t
      BY <2>1, Iniciales, ConPag
    <3> QED
      BY <1>1, <1>2, <1>4, <2>1, <2>2, <2>4, <2>5, <3>1, PasoTrunc, PasoEntrarSinDisco
  <2>6. CASE n < t /\ Ir(h, "trunc_bajar", [SinLocales EXCEPT !.pag = t - 1])
    <3>1. t - 1 \in Nat /\ n <= t - 1
      BY <1>2, <2>1, <2>6
    <3>2. [SinLocales EXCEPT !.pag = t - 1] \in Locales /\ [SinLocales EXCEPT !.pag = t - 1].pag = t - 1
      BY <3>1, Iniciales, ConPag
    <3> QED
      BY <1>1, <1>4, <2>2, <2>4, <2>6, <3>1, <3>2, PasoTrunc, PasoEntrarSinDisco
  <2>7. CASE n = t /\ Ir(h, "trunc_meta", SinLocales)
    BY <1>1, <1>4, <2>2, <2>4, <2>7, Iniciales, PasoTrunc, PasoEntrarSinDisco
  <2> QED
    BY <2>3, <2>5, <2>6, <2>7
<1> QED
  BY <1>3, <1>4

LEMMA EnElTruncate ==
  ASSUME InvBloques, NEW h \in Hilos, EnTruncate(h)
  PROVE  /\ pedido[h].op = "TRUNCATE" /\ pedido[h].f \in Archivos \ {Base} /\ pc[h] # "libre"
         /\ pedido[h].n \in Nat /\ pedido[h].n \in 0..MaxPaginas /\ loc[h].pag \in Nat
         /\ Adentro(h) /\ pedido[h].f \in Nombrados(pedido[h])
<1>1. Adentro(h) /\ pc[h] # "libre"
  BY DEF Adentro, EnTruncate
<1>2. pedido[h].op = "TRUNCATE" /\ pedido[h].f # Base
  BY <1>1, DelHilo DEF OpOK
<1>3. loc[h].pag \in Nat
  BY DelHilo, CamposDe
<1> QED
  BY <1>1, <1>2, <1>3, DelPedido, BloquesAssumption

LEMMA TipoTruncCrecer ==
  ASSUME InvBloques, NEW h \in Hilos, TruncCrecer(h)
  PROVE  InvBloques'
<1> DEFINE f == pedido[h].f
           p == loc[h].pag
           paso == IF p + 1 = pedido[h].n THEN "trunc_meta" ELSE "trunc_crecer"
           l == [loc[h] EXCEPT !.pag = p + 1]
<1>1. pc[h] = "trunc_crecer" /\ EnTruncate(h)
  BY DEF TruncCrecer, EnTruncate
<1>2. CASE logico[f][p] # Nadie \/ nodo[0] = Nadie
  BY <1>1, <1>2, EnElTruncate, SuyosAdentro, PasoFalla DEF TruncCrecer
<1>3. CASE ~(logico[f][p] # Nadie \/ nodo[0] = Nadie)
  <2>1. Enlazar(f, p, nodo[0]) /\ Ir(h, paso, l) /\ ok' = ok
    BY <1>3 DEF TruncCrecer
  <2>2. l \in Locales /\ l.pag = p + 1 /\ p \in Nat /\ p < pedido[h].n /\ pedido[h].n \in Nat
    BY <1>1, EnElTruncate, DelHilo, ConPag DEF CursoOK
  <2>3. nodo[0] \in Enlace
    BY DelHilo, BloquesAssumption DEF DiscoOK, Bloque
  <2>4. DiscoOK' /\ BaseOK' /\ meta' = meta
    BY <1>1, <2>1, <2>3, EnElTruncate, DelHilo, DiscoEnlazar
  <2>5. OpOK(h)' /\ CursoOK(h)' /\ paso \in Pasos
    <3>1. \/ paso = "trunc_crecer" /\ l.pag < pedido[h].n
          \/ paso = "trunc_meta"
      BY <2>2
    <3> HIDE DEF l, paso
    <3> QED
      BY <1>1, <2>1, <2>2, <3>1, EnElTruncate, PasoTrunc
  <2>6. ok' \in [Hilos -> BOOLEAN]
    BY <2>1, DelHilo DEF HilosOK
  <2> HIDE DEF l, paso
  <2> QED
    BY <1>1, <2>1, <2>2, <2>4, <2>5, <2>6, EnElTruncate, PasoAdentro
<1> QED
  BY <1>2, <1>3

\* Where TruncSigue goes, having changed nothing but the bitmap.
LEMMA PasoTruncSigue ==
  ASSUME InvBloques, NEW h \in Hilos, pc[h] \in {"trunc_stat", "trunc_liberar"}, TruncSigue(h),
         DiscoOK', BaseOK', meta' = meta, ok' = ok
  PROVE  InvBloques'
<1>1. EnTruncate(h) /\ pedido[h].n <= loc[h].pag /\ loc[h] \in Locales /\ ok' \in [Hilos -> BOOLEAN]
  BY DelHilo DEF EnTruncate, CursoOK, HilosOK
<1>2. CASE loc[h].pag = pedido[h].n
  <2>1. Ir(h, "trunc_meta", loc[h])
    BY <1>2 DEF TruncSigue
  <2> QED
    BY <1>1, <2>1, EnElTruncate, PasoTrunc, PasoAdentro
<1>3. CASE loc[h].pag # pedido[h].n
  <2>1. Ir(h, "trunc_bajar", [loc[h] EXCEPT !.pag = loc[h].pag - 1])
    BY <1>3 DEF TruncSigue
  <2>2. loc[h].pag - 1 \in Nat /\ pedido[h].n <= loc[h].pag - 1
    BY <1>1, <1>3, EnElTruncate
  <2>3. /\ [loc[h] EXCEPT !.pag = loc[h].pag - 1] \in Locales
        /\ [loc[h] EXCEPT !.pag = loc[h].pag - 1].pag = loc[h].pag - 1
    BY <1>1, <2>2, ConPag
  <2> QED
    BY <1>1, <2>1, <2>2, <2>3, EnElTruncate, PasoTrunc, PasoAdentro
<1> QED
  BY <1>2, <1>3

LEMMA TipoTruncBajar ==
  ASSUME InvBloques, NEW h \in Hilos, TruncBajar(h) \/ TruncStat(h) \/ TruncLiberar(h)
  PROVE  InvBloques'
<1>1. /\ EnTruncate(h) /\ pedido[h].n <= loc[h].pag /\ loc[h] \in Locales
      /\ ok \in [Hilos -> BOOLEAN] /\ DiscoOK /\ BaseOK
  BY DelHilo DEF EnTruncate, CursoOK, HilosOK, TruncBajar, TruncStat, TruncLiberar
<1>2. CASE TruncBajar(h)
  <2>1. Enlazar(pedido[h].f, loc[h].pag, Nadie) /\ Ir(h, "trunc_stat", loc[h]) /\ ok' = ok
    BY <1>2 DEF TruncBajar
  <2>2. DiscoOK' /\ BaseOK' /\ meta' = meta
    BY <1>1, <2>1, EnElTruncate, DiscoEnlazar DEF Enlace
  <2> QED
    BY <1>1, <2>1, <2>2, EnElTruncate, PasoTrunc, PasoAdentro
<1>3. CASE TruncStat(h)
  <2>1. pc[h] = "trunc_stat" /\ UNCHANGED <<disco, bitmap, leido>> /\ ok' = ok
        /\ (Ir(h, "trunc_liberar", loc[h]) \/ TruncSigue(h))
    BY <1>3 DEF TruncStat
  <2>2. DiscoOK' /\ BaseOK' /\ meta' = meta
    BY <1>1, <2>1, DiscoIgual
  <2>3. CASE Ir(h, "trunc_liberar", loc[h])
    BY <1>1, <2>1, <2>2, <2>3, EnElTruncate, PasoTrunc, PasoAdentro
  <2> QED
    BY <2>1, <2>2, <2>3, PasoTruncSigue
<1>4. CASE TruncLiberar(h)
  <2>1. pc[h] = "trunc_liberar" /\ ok' = ok /\ TruncSigue(h)
        /\ PonerBitmap(bitmap \ {BloqueDe(pedido[h].f, loc[h].pag)})
    BY <1>4 DEF TruncLiberar
  <2>2. bitmap \ {BloqueDe(pedido[h].f, loc[h].pag)} \in SUBSET Bloque
    BY <1>1 DEF DiscoOK
  <2>3. DiscoOK' /\ BaseOK' /\ meta' = meta
    BY <1>1, <2>1, <2>2, DiscoBitmap
  <2> QED
    BY <2>1, <2>3, PasoTruncSigue
<1> QED
  BY <1>2, <1>3, <1>4

LEMMA TipoTruncMeta ==
  ASSUME InvBloques, NEW h \in Hilos, TruncMeta(h)
  PROVE  InvBloques'
<1> DEFINE f == pedido[h].f
           n == pedido[h].n
           b == [i \in 1..n |-> BloqueDe(f, i - 1)]
           m == [meta[f] EXCEPT !.tam = n, !.blocks = b]
<1>1. EnTruncate(h) /\ DiscoOK /\ BaseOK
  BY DelHilo DEF TruncMeta, EnTruncate
<1>2. PonerMeta(f, m) /\ Resultado(h, TRUE)
  BY DEF TruncMeta
<1>3. b \in Seq(Bloque)
  <2>1. \A i \in 1..n : BloqueDe(f, i - 1) \in Bloque
    BY <1>1, EnElTruncate, BloqueDeEs
  <2> QED
    BY <1>1, <2>1, EnElTruncate
<1>4. m \in Metas
  <2> HIDE DEF b
  <2> QED
    BY <1>1, <1>3, EnElTruncate DEF DiscoOK, Metas
<1>5. DiscoOK' /\ BaseOK' /\ \A g \in Archivos \ {f} : meta'[g] = meta[g]
  <2> HIDE DEF m
  <2> QED
    BY <1>1, <1>2, <1>4, EnElTruncate, DiscoMeta
<1>6. pc[h] # "libre" /\ Suyos(h) /\ ~SinCandado(pedido[h])
  BY <1>1, EnElTruncate, DelPedido, SuyosAdentro DEF TruncMeta
<1> QED
  BY <1>1, <1>2, <1>5, <1>6, EnElTruncate, PasoResultado
-------------------------------------------------------------------------------
LEMMA TipoTag ==
  ASSUME InvBloques, NEW h \in Hilos, Tag(h)
  PROVE  InvBloques'
<1> DEFINE o == pedido[h].f
           d == pedido[h].d
<1>1. /\ Empieza(h, "TAG") /\ pc[h] = "entrar" /\ pedido[h].op = "TAG"
      /\ DiscoOK /\ BaseOK /\ OpOK(h) /\ ok \in [Hilos -> BOOLEAN]
  BY DelHilo DEF Tag, Empieza, HilosOK
<1>2. /\ o \in Archivos /\ d \in Archivos /\ d \in Nombrados(pedido[h]) /\ pc[h] # "libre"
  BY <1>1, DelPedido
<1>3. CASE o = Base \/ meta[o].estado = "ausente" \/ meta[d].estado # "ausente"
  BY <1>1, <1>3, FallaAlEntrar DEF Tag
<1>4. CASE ~(o = Base \/ meta[o].estado = "ausente" \/ meta[d].estado # "ausente")
  <2>1. /\ PonerMeta(d, [SinMeta EXCEPT !.estado = "carpeta"])
        /\ IF ConMetadata(o) THEN Ir(h, "tag_meta", SinLocales) /\ ok' = ok
           ELSE Resultado(h, FALSE)
    BY <1>4 DEF Tag
  <2>2. d # Base /\ o # Base
    BY <1>1, <1>4 DEF BaseOK
  <2>3. DiscoOK' /\ BaseOK' /\ \A g \in Archivos \ {d} : meta'[g] = meta[g]
    BY <1>1, <1>2, <2>1, <2>2, SonMetas, DiscoMeta DEF Estados
  <2>4. CASE ConMetadata(o)
    <3>1. pc'[h] = "tag_meta" /\ pedido' = pedido /\ mezcla' = mezcla
      BY <2>1, <2>4, DelHilo, EfectoDeIr
    <3>2. OpOK(h)' /\ CursoOK(h)' /\ "tag_meta" \in Pasos
      BY <1>1, <2>2, <3>1 DEF OpOK, CursoOK, Adentro, EnTruncate, EnTag, EnEscritura,
         EnCommit, EnDelete, PasosDedup, Pasos
    <3> QED
      BY <1>1, <1>2, <2>1, <2>2, <2>3, <2>4, <3>2, Iniciales, PasoEntrar
  <2>5. CASE ~ConMetadata(o)
    BY <1>1, <1>2, <2>1, <2>2, <2>3, <2>5, SuyosAlEntrar, DelPedido, PasoResultado
  <2> QED
    BY <2>4, <2>5
<1> QED
  BY <1>3, <1>4

LEMMA EnElTag ==
  ASSUME InvBloques, NEW h \in Hilos, EnTag(h)
  PROVE  /\ pedido[h].op = "TAG" /\ pedido[h].f \in Archivos \ {Base} /\ pedido[h].d \in Archivos \ {Base}
         /\ pedido[h].d \in Nombrados(pedido[h]) /\ pc[h] # "libre" /\ pedido[h] \in mezcla
         /\ Adentro(h) /\ Suyos(h) /\ ~SinCandado(pedido[h]) /\ loc[h].pag \in Nat
         /\ DiscoOK /\ BaseOK /\ OpOK(h) /\ HilosOK /\ loc[h] \in Locales
<1>1. Adentro(h) /\ pc[h] # "libre" /\ Suyos(h)
  BY SuyosAdentro DEF Adentro, EnTag
<1>2. pedido[h].op = "TAG" /\ pedido[h].f # Base /\ pedido[h].d # Base
  BY <1>1, DelHilo DEF OpOK
<1>3. loc[h].pag \in Nat
  BY DelHilo, CamposDe
<1> QED
  BY <1>1, <1>2, <1>3, DelPedido, DelHilo

LEMMA TipoTagSigue ==
  ASSUME InvBloques, NEW h \in Hilos, TagMeta(h) \/ TagLink(h)
  PROVE  InvBloques'
<1> DEFINE o == pedido[h].f
           d == pedido[h].d
           p == loc[h].pag
<1>1. EnTag(h) /\ ok \in [Hilos -> BOOLEAN]
  BY DelHilo DEF TagMeta, TagLink, EnTag, HilosOK
<1>2. ASSUME NEW l \in Locales, l.pag < MaxPaginas, Ir(h, "tag_link", l)
      PROVE  OpOK(h)' /\ CursoOK(h)' /\ "tag_link" \in Pasos
  <2>1. pc'[h] = "tag_link" /\ pedido' = pedido /\ mezcla' = mezcla /\ loc'[h] = l
    BY <1>2, DelHilo, EfectoDeIr
  <2>2. OpOK(h)' /\ "tag_link" \in Pasos
    BY <1>1, <2>1, EnElTag DEF OpOK, Adentro, EnTruncate, EnTag, EnEscritura,
       EnCommit, EnDelete, PasosDedup, Pasos
  <2>3. CursoOK(h)'
    BY <1>2, <2>1 DEF CursoOK, PasosDedup
  <2> QED
    BY <2>2, <2>3
<1>3. CASE TagMeta(h)
  <2>1. /\ PonerMeta(d, [meta[o] EXCEPT !.estado = "WORK_IN_PROGRESS"])
        /\ Ir(h, "tag_link", SinLocales) /\ ok' = ok
    BY <1>3 DEF TagMeta
  <2>2. [meta[o] EXCEPT !.estado = "WORK_IN_PROGRESS"] \in Metas
    BY <1>1, EnElTag, SonMetas DEF DiscoOK, Estados
  <2>3. DiscoOK' /\ BaseOK' /\ \A g \in Archivos \ {d} : meta'[g] = meta[g]
    BY <1>1, <2>1, <2>2, EnElTag, DiscoMeta
  <2>4. SinLocales.pag < MaxPaginas
    BY BloquesAssumption DEF SinLocales
  <2>5. OpOK(h)' /\ CursoOK(h)' /\ "tag_link" \in Pasos
    BY <1>2, <2>1, <2>4, Iniciales
  <2> QED
    BY <1>1, <2>1, <2>3, <2>5, Iniciales, EnElTag, PasoAdentro
<1>4. CASE TagLink(h)
  <2>1. Enlazar(d, p, logico[o][p]) /\ pc[h] = "tag_link"
    BY <1>4 DEF TagLink
  <2>2. p \in Pagina /\ p < MaxPaginas
    BY <1>1, <2>1, EnElTag, DelHilo, BloquesAssumption DEF CursoOK, Pagina
  <2>3. logico[o][p] \in Enlace
    BY <1>1, <2>2, EnElTag DEF DiscoOK
  <2>4. DiscoOK' /\ BaseOK' /\ meta' = meta
    BY <1>1, <2>1, <2>3, EnElTag, DiscoEnlazar
  <2>5. CASE p + 1 = MaxPaginas
    <3>1. Resultado(h, TRUE)
      BY <1>4, <2>5 DEF TagLink
    <3> QED
      BY <1>1, <2>4, <3>1, EnElTag, PasoResultado
  <2>6. CASE p + 1 # MaxPaginas
    <3>1. Ir(h, "tag_link", [loc[h] EXCEPT !.pag = p + 1]) /\ ok' = ok
      BY <1>4, <2>6 DEF TagLink
    <3>2. p + 1 < MaxPaginas /\ p + 1 \in Nat
      BY <1>1, <2>2, <2>6, EnElTag, BloquesAssumption
    <3>3. [loc[h] EXCEPT !.pag = p + 1] \in Locales /\ [loc[h] EXCEPT !.pag = p + 1].pag = p + 1
      BY <1>1, <3>2, EnElTag, ConPag
    <3>4. OpOK(h)' /\ CursoOK(h)' /\ "tag_link" \in Pasos
      BY <1>2, <3>1, <3>2, <3>3
    <3> QED
      BY <1>1, <2>4, <3>1, <3>3, <3>4, EnElTag, PasoAdentro
  <2> QED
    BY <2>5, <2>6
<1> QED
  BY <1>3, <1>4
-------------------------------------------------------------------------------
(* The least free block, and the least free inode, exist. *)

LEMMA Minimo ==
  ASSUME NEW A \in SUBSET Nat, A # {}
  PROVE  \E n \in A : \A m \in A : n <= m
<1> DEFINE T == {1..n : n \in A}
<1>1. T \subseteq FiniteSubsetsOf(Nat)
  <2>1. \A n \in Nat : IsFiniteSet(1..n) /\ 1..n \subseteq Nat
    BY FS_Interval
  <2> QED
    BY <2>1 DEF FiniteSubsetsOf
<1>2. T # {}
  OBVIOUS
<1>3. IsWellFoundedOn(StrictSubsetOrdering(Nat), FiniteSubsetsOf(Nat))
  BY FS_StrictSubsetOrderingWellFounded
<1> HIDE DEF T
<1>4. PICK x \in T : \A y \in T : ~(<<y, x>> \in StrictSubsetOrdering(Nat))
  BY <1>1, <1>2, <1>3, WFMin
<1>5. PICK n \in A : x = 1..n
  BY DEF T
<1>6. ASSUME NEW m \in A, m < n PROVE FALSE
  <2>1. 1..m \subseteq 1..n /\ 1..m \subseteq Nat /\ 1..n \subseteq Nat
    BY <1>6
  <2>2. n \in 1..n /\ n \notin 1..m
    BY <1>6
  <2>3. <<1..m, x>> \in StrictSubsetOrdering(Nat)
    BY <2>1, <2>2, <1>5 DEF StrictSubsetOrdering
  <2> QED
    BY <1>4, <2>3 DEF T
<1> QED
  BY <1>6

LEMMA PrimerLibreEs ==
  ASSUME Libres # {}
  PROVE  PrimerLibre \in Libres /\ PrimerLibre \in Bloque /\ PrimerLibre # 0
<1>1. Libres \in SUBSET Nat /\ Libres \subseteq Bloque \ {0}
  BY BloquesAssumption DEF Libres, Bloque
<1>2. \E b \in Libres : \A c \in Libres : b <= c
  BY <1>1, Minimo
<1>3. PrimerLibre \in Libres
  BY <1>2 DEF PrimerLibre
<1> QED
  BY <1>1, <1>3

LEMMA NodoParaEscribirEs ==
  ASSUME nodo \in [Bloque -> Enlace], NEW b \in Bloque, nodo[b] = Nadie => NodosUsados # Nodo
  PROVE  NodoParaEscribir(b) \in Nodo
<1>1. CASE nodo[b] # Nadie
  BY <1>1 DEF NodoParaEscribir, Enlace
<1>2. CASE nodo[b] = Nadie
  <2>1. Nodo \ NodosUsados \in SUBSET Nat /\ Nodo \ NodosUsados # {}
    BY <1>2, BloquesAssumption DEF NodosUsados, Nodo
  <2>2. \E n \in Nodo \ NodosUsados : \A m \in Nodo \ NodosUsados : n <= m
    BY <2>1, Minimo
  <2>3. NodoNuevo \in Nodo
    BY <2>2 DEF NodoNuevo
  <2> QED
    BY <1>2, <2>3 DEF NodoParaEscribir
<1> QED
  BY <1>1, <1>2

-------------------------------------------------------------------------------
LEMMA PasoEscritura ==
  ASSUME InvBloques, NEW h \in Hilos, pedido[h].op \in {"FLUSH", "WRITE"}, pedido[h].f # Base,
         pc[h] # "libre", NEW paso, NEW l \in Locales, Ir(h, paso, l),
         \/ paso \in {"pagina", "escribir"}
         \/ /\ paso \in {"copiar", "desenlazar", "enlazar"}
            /\ l.cola # <<>> /\ Head(l.cola)[1] \in Pagina /\ l.nuevo # 0
  PROVE  OpOK(h)' /\ CursoOK(h)' /\ paso \in Pasos
<1>1. HilosOK /\ pedido[h] \in mezcla
  BY DelHilo, DelPedido
<1>2. pc'[h] = paso /\ loc'[h] = l /\ pedido' = pedido /\ mezcla' = mezcla
  BY <1>1, EfectoDeIr
<1>3. paso \in {"pagina", "copiar", "desenlazar", "enlazar", "escribir"}
  OBVIOUS
<1>4. OpOK(h)'
  BY <1>1, <1>2, <1>3 DEF OpOK, Adentro, EnTruncate, EnTag, EnEscritura, EnCommit, EnDelete, PasosDedup
<1>5. CursoOK(h)'
  BY <1>2, <1>3 DEF CursoOK, PasosDedup, EnCurso
<1> QED
  BY <1>3, <1>4, <1>5 DEF Pasos

LEMMA EnLaEscritura ==
  ASSUME InvBloques, NEW h \in Hilos, EnEscritura(h)
  PROVE  /\ pedido[h].op \in {"FLUSH", "WRITE"} /\ pedido[h].f \in Archivos \ {Base}
         /\ pc[h] # "libre" /\ Adentro(h) /\ Suyos(h) /\ ~SinCandado(pedido[h])
         /\ DiscoOK /\ BaseOK /\ CursoOK(h) /\ loc[h] \in Locales /\ ok[h] \in BOOLEAN
         /\ ok \in [Hilos -> BOOLEAN]
<1>1. Adentro(h) /\ pc[h] # "libre" /\ Suyos(h)
  BY SuyosAdentro DEF Adentro, EnEscritura
<1>2. pedido[h].op \in {"FLUSH", "WRITE"} /\ pedido[h].f # Base
  BY <1>1, DelHilo DEF OpOK
<1> QED
  BY <1>1, <1>2, DelPedido, DelHilo DEF HilosOK

LEMMA EnCursoEs ==
  ASSUME NEW h \in Hilos, loc[h] \in Locales, loc[h].cola # <<>>
  PROVE  /\ EnCurso(h)[1] \in Nat /\ EnCurso(h)[2] \in Contenidos
         /\ Tail(loc[h].cola) \in Seq(Nat \X Contenidos)
<1>1. loc[h].cola \in Seq(Nat \X Contenidos)
  BY CamposDe
<1>2. Head(loc[h].cola) \in Nat \X Contenidos /\ Tail(loc[h].cola) \in Seq(Nat \X Contenidos)
  BY <1>1
<1> QED
  BY <1>2 DEF EnCurso

LEMMA TipoEscribir ==
  ASSUME InvBloques, NEW h \in Hilos, Flush(h) \/ EscribirBloque(h)
  PROVE  InvBloques'
<1> DEFINE f == pedido[h].f
           l == [SinLocales EXCEPT !.cola = pedido[h].paginas]
<1>1. PICK op \in {"FLUSH", "WRITE"} : Escribir(h, op)
  BY DEF Flush, EscribirBloque
<1>2. Empieza(h, op) /\ pc[h] # "libre" /\ pedido[h].op \in {"FLUSH", "WRITE"}
  BY <1>1 DEF Escribir, Empieza
<1>3. CASE f = Base \/ meta[f].estado # "WORK_IN_PROGRESS"
  BY <1>1, <1>2, <1>3, FallaAlEntrar DEF Escribir
<1>4. CASE ~(f = Base \/ meta[f].estado # "WORK_IN_PROGRESS")
  <2>1. Ir(h, "pagina", l) /\ UNCHANGED <<disco, bitmap, ok, leido>>
    BY <1>1, <1>4 DEF Escribir
  <2>2. l \in Locales
    <3>1. pedido[h].paginas \in Seq(Nat \X Contenidos)
      BY <1>2, DelPedido
    <3>2. \A c \in Seq(Nat \X Contenidos) : [SinLocales EXCEPT !.cola = c] \in Locales
      BY Iniciales, ConCola
    <3> QED
      BY <3>1, <3>2
  <2>3. ok' \in [Hilos -> BOOLEAN]
    BY <2>1, DelHilo DEF HilosOK
  <2> HIDE DEF l
  <2> QED
    BY <1>2, <1>4, <2>1, <2>2, <2>3, PasoEscritura, PasoEntrarSinDisco
<1> QED
  BY <1>3, <1>4

\* Saltear drops the page in turn.
LEMMA PasoSaltear ==
  ASSUME InvBloques, NEW h \in Hilos, EnEscritura(h), loc[h].cola # <<>>, Saltear(h),
         DiscoOK', BaseOK', meta' = meta
  PROVE  InvBloques'
<1> DEFINE l == [loc[h] EXCEPT !.cola = Tail(@), !.nuevo = 0]
<1>1. Ir(h, "pagina", l) /\ ok' \in [Hilos -> BOOLEAN]
  BY DelHilo DEF Saltear
<1>2. l \in Locales
  <2>1. loc[h] \in Locales /\ Tail(loc[h].cola) \in Seq(Nat \X Contenidos) /\ 0 \in Bloque
    BY EnLaEscritura, EnCursoEs, BloquesAssumption DEF Bloque
  <2> QED
    BY <2>1, ConColaYNuevo
<1> HIDE DEF l
<1> QED
  BY <1>1, <1>2, EnLaEscritura, PasoEscritura, PasoAdentro

LEMMA ConPendienteEs ==
  ASSUME NEW h \in Hilos, loc[h] \in Locales, loc[h].cola # <<>>,
         EnCurso(h)[1] \in Pagina, NEW b \in Bloque
  PROVE  ConPendiente(h, b) \in Locales
<1>1. loc[h].pend \in Seq(Pagina \X Bloque \X Contenidos) /\ EnCurso(h)[2] \in Contenidos
      /\ Tail(loc[h].cola) \in Seq(Nat \X Contenidos)
  BY EnCursoEs, CamposDe
<1>2. Append(loc[h].pend, <<EnCurso(h)[1], b, EnCurso(h)[2]>>) \in Seq(Pagina \X Bloque \X Contenidos)
  BY <1>1
<1>3. 0 \in Bloque
  BY BloquesAssumption DEF Bloque
<1>4. [loc[h] EXCEPT !.cola = Tail(@), !.nuevo = 0] \in Locales
  BY <1>1, <1>3, ConColaYNuevo
<1>5. ConPendiente(h, b) = [[loc[h] EXCEPT !.cola = Tail(@), !.nuevo = 0] EXCEPT
                               !.pend = Append(loc[h].pend, <<EnCurso(h)[1], b, EnCurso(h)[2]>>)]
  BY DEF ConPendiente, Locales
<1> QED
  BY <1>2, <1>4, <1>5, ConPend

LEMMA LegibleEs ==
  ASSUME DiscoOK, NEW f \in Archivos, NEW p \in Nat, Legible(f, p)
  PROVE  p \in Pagina /\ logico[f][p] \in Nodo /\ p < Len(meta[f].blocks)
<1>1. meta[f].tam \in 0..MaxPaginas
  BY SonMetas DEF DiscoOK
<1>2. p \in Pagina
  BY <1>1, BloquesAssumption DEF Legible, Pagina
<1> QED
  BY <1>2 DEF DiscoOK, Legible, Enlace
LEMMA TipoPrepararPagina ==
  ASSUME InvBloques, NEW h \in Hilos, PrepararPagina(h)
  PROVE  InvBloques'
<1> DEFINE f == pedido[h].f
           p == EnCurso(h)[1]
<1>1. EnEscritura(h) /\ loc[h].cola # <<>>
  BY DEF PrepararPagina, EnEscritura
<1>2. DiscoOK /\ BaseOK /\ loc[h] \in Locales /\ f \in Archivos /\ p \in Nat /\ ok \in [Hilos -> BOOLEAN]
  BY <1>1, EnLaEscritura, EnCursoEs
<1>3. CASE Saltear(h) /\ UNCHANGED <<disco, bitmap, leido>>
  BY <1>1, <1>2, <1>3, DiscoIgual, PasoSaltear
<1>4. CASE /\ Legible(f, p) /\ Ir(h, "pagina", ConPendiente(h, BloqueDe(f, p)))
           /\ UNCHANGED <<disco, bitmap, ok, leido>>
  <2>1. ConPendiente(h, BloqueDe(f, p)) \in Locales
    BY <1>1, <1>2, <1>4, LegibleEs, BloqueDeEs, ConPendienteEs
  <2> QED
    BY <1>1, <1>2, <1>4, <2>1, EnLaEscritura, PasoEscritura, PasoAdentroSinDisco
<1>5. CASE /\ Legible(f, p) /\ Libres # {} /\ PonerBitmap(bitmap \cup {PrimerLibre}) /\ ok' = ok
           /\ Ir(h, "copiar", [loc[h] EXCEPT !.nuevo = PrimerLibre])
  <2>1. PrimerLibre \in Bloque /\ PrimerLibre # 0
    BY <1>5, PrimerLibreEs
  <2>2. bitmap \cup {PrimerLibre} \in SUBSET Bloque
    BY <1>2, <2>1 DEF DiscoOK
  <2>3. DiscoOK' /\ BaseOK' /\ meta' = meta
    BY <1>2, <1>5, <2>2, DiscoBitmap
  <2>4. /\ [loc[h] EXCEPT !.nuevo = PrimerLibre] \in Locales
        /\ [loc[h] EXCEPT !.nuevo = PrimerLibre].nuevo # 0
        /\ [loc[h] EXCEPT !.nuevo = PrimerLibre].cola = loc[h].cola
    BY <1>2, <2>1, ConNuevo
  <2>5. Head(loc[h].cola)[1] \in Pagina
    BY <1>2, <1>5, LegibleEs DEF EnCurso
  <2> QED
    BY <1>1, <1>2, <1>5, <2>3, <2>4, <2>5, EnLaEscritura, PasoEscritura, PasoAdentro
<1> QED
  BY <1>3, <1>4, <1>5 DEF PrepararPagina

LEMMA TipoCopiar ==
  ASSUME InvBloques, NEW h \in Hilos, Copiar(h)
  PROVE  InvBloques'
<1> DEFINE b == BloqueDe(pedido[h].f, EnCurso(h)[1])
           c == loc[h].nuevo
           n == NodoParaEscribir(c)
           x == IF nodo[b] \in {Nadie, n} THEN Vacio ELSE dato[nodo[b]]
<1>1. EnEscritura(h) /\ pc[h] = "copiar"
  BY DEF Copiar, EnEscritura
<1>2. /\ DiscoOK /\ BaseOK /\ loc[h] \in Locales /\ ok \in [Hilos -> BOOLEAN]
      /\ loc[h].cola # <<>> /\ Head(loc[h].cola)[1] \in Pagina
      /\ c # 0 /\ c \in Bloque /\ pedido[h].f \in Archivos
  BY <1>1, EnLaEscritura, CamposDe DEF CursoOK, EnCurso
<1>3. b \in Bloque
  BY <1>2, EnCursoEs, BloqueDeEs
<1>4. /\ nodo' = [nodo EXCEPT ![c] = n] /\ dato' = [dato EXCEPT ![n] = x]
      /\ UNCHANGED <<meta, logico, indice, bitmapDisco, leido>>
      /\ \/ Saltear(h) /\ bitmap' = bitmap \ {c}
         \/ Ir(h, "desenlazar", loc[h]) /\ UNCHANGED <<bitmap, ok>>
      /\ nodo[c] = Nadie => NodosUsados # Nodo
  BY DEF Copiar
<1>5. n \in Nodo
  BY <1>2, <1>4, NodoParaEscribirEs DEF DiscoOK
<1>6. x \in Contenidos
  BY <1>2, <1>3, BloquesAssumption DEF DiscoOK, Enlace
<1>7. nodo' \in [Bloque -> Enlace] /\ nodo'[0] = nodo[0] /\ dato' \in [Nodo -> Contenidos]
  <2> HIDE DEF n, x, c
  <2> QED
    BY <1>2, <1>4, <1>5, <1>6 DEF DiscoOK, Enlace
<1>8. DiscoOK' /\ BaseOK' /\ meta' = meta
  <2>1. bitmap' \subseteq Bloque
    BY <1>2, <1>4 DEF DiscoOK
  <2> QED
    BY <1>2, <1>4, <1>7, <2>1 DEF DiscoOK, BaseOK, BloqueCeroPresente
<1>9. CASE Saltear(h)
  BY <1>1, <1>2, <1>8, <1>9, PasoSaltear
<1>10. CASE Ir(h, "desenlazar", loc[h]) /\ ok' = ok
  BY <1>1, <1>2, <1>8, <1>10, EnLaEscritura, PasoEscritura, PasoAdentro
<1> QED
  BY <1>4, <1>9, <1>10

LEMMA TipoReenlazar ==
  ASSUME InvBloques, NEW h \in Hilos, Desenlazar(h) \/ Reenlazar(h)
  PROVE  InvBloques'
<1> DEFINE f == pedido[h].f
           p == EnCurso(h)[1]
           c == loc[h].nuevo
<1>1. EnEscritura(h) /\ pc[h] \in {"desenlazar", "enlazar"}
  BY DEF Desenlazar, Reenlazar, EnEscritura
<1>2. /\ DiscoOK /\ BaseOK /\ loc[h] \in Locales /\ ok \in [Hilos -> BOOLEAN]
      /\ loc[h].cola # <<>> /\ Head(loc[h].cola)[1] \in Pagina
      /\ c # 0 /\ c \in Bloque /\ f \in Archivos \ {Base}
  BY <1>1, EnLaEscritura, CamposDe DEF CursoOK, EnCurso
<1>3. p \in Nat /\ Nadie \in Enlace
  BY <1>2, EnCursoEs DEF Enlace
<1>4. CASE Desenlazar(h)
  <2>1. Enlazar(f, p, Nadie) /\ Ir(h, "enlazar", loc[h]) /\ ok' = ok
    BY <1>4 DEF Desenlazar
  <2>2. DiscoOK' /\ BaseOK' /\ meta' = meta
    BY <1>2, <1>3, <2>1, DiscoEnlazar
  <2> QED
    BY <1>1, <1>2, <2>1, <2>2, EnLaEscritura, PasoEscritura, PasoAdentro
<1>5. CASE Reenlazar(h) /\ nodo[c] # Nadie
  <2>1. Enlazar(f, p, nodo[c]) /\ Ir(h, "pagina", ConPendiente(h, c)) /\ ok' = ok
    BY <1>5 DEF Reenlazar
  <2>2. nodo[c] \in Enlace
    BY <1>2 DEF DiscoOK
  <2>3. DiscoOK' /\ BaseOK' /\ meta' = meta
    BY <1>2, <2>1, <2>2, DiscoEnlazar
  <2>4. ConPendiente(h, c) \in Locales
    BY <1>2, ConPendienteEs DEF EnCurso
  <2> QED
    BY <1>1, <1>2, <2>1, <2>3, <2>4, EnLaEscritura, PasoEscritura, PasoAdentro
<1>6. CASE Reenlazar(h) /\ nodo[c] = Nadie
  <2>1. /\ logico' = [logico EXCEPT ![f][p] = nodo[BloqueDe(f, p)]]
        /\ bitmap' = bitmap \ {c} /\ Saltear(h)
        /\ UNCHANGED <<meta, nodo, dato, indice, bitmapDisco, leido>>
    BY <1>6 DEF Reenlazar
  <2>2. nodo[BloqueDe(f, p)] \in Enlace
    BY <1>2, <1>3, BloqueDeEs DEF DiscoOK
  <2>3. logico' \in [Archivos -> [Pagina -> Enlace]] /\ logico'[Base] = logico[Base]
    BY <1>2, <2>1, <2>2, BloquesAssumption DEF DiscoOK
  <2>4. DiscoOK' /\ BaseOK' /\ meta' = meta
    BY <1>2, <2>1, <2>3 DEF DiscoOK, BaseOK, BloqueCeroPresente
  <2> QED
    BY <1>1, <1>2, <2>1, <2>4, PasoSaltear
<1> QED
  BY <1>4, <1>5, <1>6
LEMMA TipoGuardarBlocks ==
  ASSUME InvBloques, NEW h \in Hilos, GuardarBlocks(h)
  PROVE  InvBloques'
<1> DEFINE f == pedido[h].f
           b(i) == IF PendienteDe(h, i - 1) = {} THEN meta[f].blocks[i]
                   ELSE loc[h].pend[CHOOSE j \in PendienteDe(h, i - 1) : TRUE][2]
           s == [i \in DOMAIN meta[f].blocks |-> b(i)]
           m == IF ok[h] THEN [meta[f] EXCEPT !.blocks = s] ELSE meta[f]
<1>1. EnEscritura(h) /\ PonerMeta(f, m) /\ Ir(h, "escribir", loc[h]) /\ ok' = ok
  BY DEF GuardarBlocks, EnEscritura
<1>2. /\ DiscoOK /\ BaseOK /\ loc[h] \in Locales /\ ok \in [Hilos -> BOOLEAN]
      /\ f \in Archivos \ {Base} /\ f \in Nombrados(pedido[h])
  BY <1>1, EnLaEscritura, DelPedido
<1>3. meta[f] \in Metas /\ meta[f].blocks \in Seq(Bloque)
  BY <1>2, SonMetas DEF DiscoOK
<1>4. s \in Seq(Bloque)
  <2>1. loc[h].pend \in Seq(Pagina \X Bloque \X Contenidos)
    BY <1>2, CamposDe
  <2>2. \A j \in DOMAIN loc[h].pend : loc[h].pend[j][2] \in Bloque
    BY <2>1
  <2>3. \A i : PendienteDe(h, i) # {} => (CHOOSE j \in PendienteDe(h, i) : TRUE) \in DOMAIN loc[h].pend
    BY DEF PendienteDe
  <2>4. \A i \in DOMAIN meta[f].blocks : b(i) \in Bloque
    BY <1>3, <2>2, <2>3
  <2> HIDE DEF b
  <2> QED
    BY <1>3, <2>4
<1>5. m \in Metas
  <2> HIDE DEF s
  <2>1. [meta[f] EXCEPT !.blocks = s] \in Metas
    BY <1>3, <1>4 DEF Metas
  <2> QED
    BY <1>3, <2>1
<1>6. DiscoOK' /\ BaseOK' /\ \A g \in Archivos \ {f} : meta'[g] = meta[g]
  <2> HIDE DEF m
  <2> QED
    BY <1>1, <1>2, <1>5, DiscoMeta
<1> QED
  BY <1>1, <1>2, <1>6, EnLaEscritura, PasoEscritura, PasoAdentro

LEMMA TipoEscribirPendiente ==
  ASSUME InvBloques, NEW h \in Hilos, EscribirPendiente(h)
  PROVE  InvBloques'
<1> DEFINE e == Head(loc[h].pend)
           l == [loc[h] EXCEPT !.pend = Tail(@)]
<1>1. EnEscritura(h) /\ loc[h].pend # <<>> /\ Ir(h, "escribir", l)
  BY DEF EscribirPendiente, EnEscritura
<1>2. /\ dato' = IF nodo[e[2]] = Nadie THEN dato ELSE [dato EXCEPT ![nodo[e[2]]] = e[3]]
      /\ UNCHANGED <<meta, logico, nodo, indice, bitmapDisco, bitmap, leido>>
  BY DEF EscribirPendiente
<1>3. DiscoOK /\ BaseOK /\ loc[h] \in Locales
  BY <1>1, EnLaEscritura
<1>4. ok' \in [Hilos -> BOOLEAN]
  <2>1. ok' = [ok EXCEPT ![h] = ok[h] /\ nodo[e[2]] # Nadie]
    BY DEF EscribirPendiente
  <2>2. (ok[h] /\ nodo[e[2]] # Nadie) \in BOOLEAN
    OBVIOUS
  <2> QED
    BY <2>1, <2>2, DelHilo
<1>5. e \in Pagina \X Bloque \X Contenidos /\ Tail(loc[h].pend) \in Seq(Pagina \X Bloque \X Contenidos)
  <2>1. loc[h].pend \in Seq(Pagina \X Bloque \X Contenidos)
    BY <1>3, CamposDe
  <2> QED
    BY <1>1, <2>1
<1>6. e[2] \in Bloque /\ e[3] \in Contenidos
  BY <1>5
<1>7. dato' \in [Nodo -> Contenidos]
  <2> HIDE DEF e
  <2> QED
    BY <1>2, <1>3, <1>6 DEF DiscoOK
<1>8. DiscoOK' /\ BaseOK' /\ meta' = meta
  BY <1>2, <1>3, <1>7 DEF DiscoOK, BaseOK, BloqueCeroPresente
<1>9. l \in Locales
  BY <1>3, <1>5, ConPend
<1> HIDE DEF l
<1> QED
  BY <1>1, <1>4, <1>8, <1>9, EnLaEscritura, PasoEscritura, PasoAdentro

LEMMA TipoTerminarEscritura ==
  ASSUME InvBloques, NEW h \in Hilos, TerminarEscritura(h)
  PROVE  InvBloques'
<1>1. /\ EnEscritura(h) /\ Resultado(h, ok[h])
      /\ PersistirBitmap \/ UNCHANGED <<disco, bitmap, leido>>
  BY DEF TerminarEscritura, EnEscritura
<1>2. DiscoOK' /\ BaseOK' /\ meta' = meta
  BY <1>1, EnLaEscritura, DiscoIgual, DiscoPersistir
<1> QED
  BY <1>1, <1>2, EnLaEscritura, PasoResultado

-------------------------------------------------------------------------------
LEMMA EnElCommit ==
  ASSUME InvBloques, NEW h \in Hilos, EnCommit(h)
  PROVE  /\ pedido[h].op = "COMMIT" /\ pedido[h].f \in Archivos \ {Base} /\ pedido[h] \in mezcla
         /\ pedido[h].f \in Nombrados(pedido[h])
         /\ pc[h] # "libre" /\ Adentro(h) /\ Suyos(h) /\ ~SinCandado(pedido[h])
         /\ HilosOK /\ DiscoOK /\ BaseOK /\ CursoOK(h) /\ loc[h] \in Locales
         /\ ok \in [Hilos -> BOOLEAN]
         /\ meta[pedido[h].f].blocks \in Seq(Bloque) /\ Largo(h) \in Nat
<1>1. Adentro(h) /\ pc[h] # "libre" /\ Suyos(h)
  BY SuyosAdentro DEF Adentro, EnCommit, PasosDedup
<1>2. pedido[h].op = "COMMIT" /\ pedido[h].f # Base
  BY <1>1, DelHilo DEF OpOK
<1>3. pedido[h].f \in Archivos
  BY <1>1, DelPedido
<1>4. meta[pedido[h].f].blocks \in Seq(Bloque) /\ Largo(h) \in Nat
  BY <1>3, DelHilo, SonMetas DEF DiscoOK, Largo
<1> QED
  BY <1>1, <1>2, <1>3, <1>4, DelPedido, DelHilo DEF HilosOK

LEMMA PasoCommit ==
  ASSUME InvBloques, NEW h \in Hilos, pedido[h].op = "COMMIT", pedido[h].f # Base,
         pc[h] # "libre", NEW paso, NEW l \in Locales, Ir(h, paso, l),
         \/ paso \in {"commit_estado", "commit_persistir"}
         \/ /\ paso \in PasosDedup /\ meta'[pedido[h].f].blocks = meta[pedido[h].f].blocks
            /\ Len(l.lista) = Largo(h)
            /\ l.pag < Largo(h) \/ (paso = "dedup_pag" /\ l.pag <= Largo(h))
  PROVE  OpOK(h)' /\ CursoOK(h)' /\ paso \in Pasos
<1>1. HilosOK /\ pedido[h] \in mezcla
  BY DelHilo, DelPedido
<1>2. pc'[h] = paso /\ loc'[h] = l /\ pedido' = pedido /\ mezcla' = mezcla
  BY <1>1, EfectoDeIr
<1>3. paso \in PasosDedup \cup {"commit_estado", "commit_persistir"}
  OBVIOUS
<1>4. OpOK(h)'
  BY <1>1, <1>2, <1>3 DEF OpOK, Adentro, EnTruncate, EnTag, EnEscritura, EnCommit, EnDelete, PasosDedup
<1>5. CursoOK(h)'
  <2>1. CASE paso \in {"commit_estado", "commit_persistir"}
    BY <1>2, <2>1 DEF CursoOK, PasosDedup
  <2>2. CASE paso \in PasosDedup
    <3>1. Largo(h)' = Largo(h) /\ paso \in {"dedup_pag", "dedup_link", "dedup_bit", "dedup_persistir"}
      BY <1>2, <2>2 DEF Largo, PasosDedup
    <3>2. l.pag < Largo(h) => l.pag <= Largo(h)
      <4>1. l.pag \in Nat /\ Largo(h) \in Nat
        BY DelPedido, DelHilo, SonMetas, CamposDe DEF DiscoOK, Largo
      <4> QED
        BY <4>1
    <3> QED
      BY <1>2, <2>2, <3>1, <3>2 DEF CursoOK, PasosDedup
  <2> QED
    BY <1>3, <2>1, <2>2
<1> QED
  BY <1>3, <1>4, <1>5 DEF Pasos
PoneLista(l, k, e, b) == [l EXCEPT !.lista[k] = e, !.modif = b]

LEMMA ConLista ==
  ASSUME NEW l \in Locales, NEW k \in 1..Len(l.lista), NEW e \in Bloque, NEW b \in BOOLEAN
  PROVE  /\ PoneLista(l, k, e, b) \in Locales /\ PoneLista(l, k, e, b).pag = l.pag
         /\ Len(PoneLista(l, k, e, b).lista) = Len(l.lista)
<1> DEFINE s == [l.lista EXCEPT ![k] = e]
           x == [l EXCEPT !.lista[k] = e, !.modif = b]
<1>1. l.lista \in Seq(Bloque)
  BY CamposDe
<1>2. s \in Seq(Bloque) /\ Len(s) = Len(l.lista)
  BY <1>1, ExceptSeq
<1>3. x = [[l EXCEPT !.lista = s] EXCEPT !.modif = b]
  BY DEF Locales
<1>4. x.lista = s /\ x.pag = l.pag
  BY DEF Locales
<1>5. x \in Locales
  <2> HIDE DEF s, x
  <2>1. [l EXCEPT !.lista = s] \in Locales
    BY <1>2 DEF Locales
  <2> QED
    BY <1>3, <2>1 DEF Locales
<1> QED
  BY <1>2, <1>4, <1>5 DEF PoneLista

PoneIndice(l, c, b) == [l EXCEPT !.idx[c] = b]

LEMMA ConIndice ==
  ASSUME NEW l \in Locales, NEW c, NEW b \in Bloque
  PROVE  /\ PoneIndice(l, c, b) \in Locales
         /\ PoneIndice(l, c, b).pag = l.pag /\ PoneIndice(l, c, b).lista = l.lista
<1> DEFINE i == [l.idx EXCEPT ![c] = b]
<1>1. i \in [Contenidos -> Bloque \cup {Nadie}]
  BY CamposDe
<1>2. [l EXCEPT !.idx = i] \in Locales
  <2> HIDE DEF i
  <2> QED
    BY <1>1 DEF Locales
<1> QED
  BY <1>2 DEF Locales, PoneIndice

LEMMA ConModif ==
  ASSUME NEW l \in Locales
  PROVE  /\ [l EXCEPT !.modif = TRUE] \in Locales
         /\ [l EXCEPT !.modif = TRUE].pag = l.pag /\ [l EXCEPT !.modif = TRUE].lista = l.lista
BY DEF Locales

\* The deduplication goes on to the next page.
LEMMA PasoDedupSigue ==
  ASSUME InvBloques, NEW h \in Hilos, EnCommit(h), NEW l \in Locales, DedupSigue(h, l),
         loc[h].pag < Largo(h), l.pag = loc[h].pag, Len(l.lista) = Largo(h),
         DiscoOK', BaseOK', meta' = meta, ok' = ok
  PROVE  InvBloques'
<1> DEFINE x == [l EXCEPT !.pag = @ + 1]
<1>1. Ir(h, "dedup_pag", x)
  BY DEF DedupSigue
<1>2. l.pag \in Nat /\ l.pag + 1 \in Nat /\ l.pag + 1 <= Largo(h)
  <2>1. l.pag \in Nat /\ Largo(h) \in Nat
    BY EnElCommit, CamposDe
  <2> QED
    BY <2>1
<1>3. x \in Locales /\ x.pag = l.pag + 1 /\ x.lista = l.lista
  BY <1>2, ConPag
<1> HIDE DEF x
<1>4. OpOK(h)' /\ CursoOK(h)' /\ "dedup_pag" \in Pasos
  BY <1>1, <1>2, <1>3, EnElCommit, PasoCommit DEF PasosDedup
<1> QED
  BY <1>1, <1>3, <1>4, EnElCommit, PasoAdentro

LEMMA TipoCommit ==
  ASSUME InvBloques, NEW h \in Hilos, Commit(h)
  PROVE  InvBloques'
<1> DEFINE f == pedido[h].f
           l == [SinLocales EXCEPT !.lista = meta[f].blocks, !.idx = indice]
<1>1. /\ Empieza(h, "COMMIT") /\ pc[h] # "libre" /\ pedido[h].op = "COMMIT" /\ Suyos(h)
      /\ DiscoOK /\ BaseOK
  BY SuyosAlEntrar, DelHilo DEF Commit, Empieza
<1>2. f \in Archivos
  BY <1>1, DelPedido
<1>3. CASE Falla(h)
  BY <1>1, <1>3, FallaAlEntrar
<1>4. CASE Resultado(h, TRUE) /\ UNCHANGED <<disco, bitmap, leido>>
  BY <1>1, <1>4, DiscoIgual, PasoResultado
<1>5. CASE /\ meta[f].estado = "WORK_IN_PROGRESS" /\ f # Base
           /\ IF meta[f].blocks = <<>> THEN Ir(h, "commit_estado", SinLocales)
              ELSE Ir(h, "dedup_pag", l)
           /\ UNCHANGED <<disco, bitmap, ok, leido>>
  <2>1. ok' \in [Hilos -> BOOLEAN] /\ meta' = meta
    BY <1>5, DelHilo DEF HilosOK, disco
  <2>2. CASE meta[f].blocks = <<>>
    BY <1>1, <1>5, <2>1, <2>2, Iniciales, PasoCommit, PasoEntrarSinDisco
  <2>3. CASE meta[f].blocks # <<>>
    <3>1. meta[f].blocks \in Seq(Bloque) /\ Len(meta[f].blocks) \in Nat
      BY <1>1, <1>2, SonMetas DEF DiscoOK
    <3>2. l \in Locales
      <4>1. [SinLocales EXCEPT !.lista = meta[f].blocks] \in Locales
        BY <3>1, Iniciales DEF Locales
      <4>2. indice \in [Contenidos -> Bloque \cup {Nadie}]
        BY <1>1 DEF DiscoOK
      <4>3. l = [[SinLocales EXCEPT !.lista = meta[f].blocks] EXCEPT !.idx = indice]
        BY DEF SinLocales
      <4> HIDE DEF l
      <4> QED
        BY <4>1, <4>2, <4>3 DEF Locales
    <3>3. l.lista = meta[f].blocks /\ l.pag = 0
      BY DEF SinLocales
    <3>4. Ir(h, "dedup_pag", l)
      BY <1>5, <2>3
    <3>5. 0 <= Largo(h) /\ Len(l.lista) = Largo(h)
      BY <3>1, <3>3 DEF Largo
    <3> HIDE DEF l
    <3>6. OpOK(h)' /\ CursoOK(h)' /\ "dedup_pag" \in Pasos
      BY <1>1, <1>5, <2>1, <3>2, <3>3, <3>4, <3>5, PasoCommit DEF PasosDedup
    <3> QED
      BY <1>1, <1>5, <2>1, <3>2, <3>4, <3>6, PasoEntrarSinDisco
  <2> QED
    BY <2>2, <2>3
<1>6. meta[f].estado = "WORK_IN_PROGRESS" => ConMetadata(f)
  BY DEF ConMetadata
<1> QED
  <2>1. CASE f = Base
    BY <1>1, <1>3, <2>1 DEF Commit, BaseOK
  <2>2. CASE f # Base
    BY <1>3, <1>4, <1>5, <2>2 DEF Commit
  <2> QED
    BY <2>1, <2>2

LEMMA TipoDedupPag ==
  ASSUME InvBloques, NEW h \in Hilos, DedupPag(h)
  PROVE  InvBloques'
<1> DEFINE f == pedido[h].f
           p == loc[h].pag
           b == meta[f].blocks[p + 1]
           e == Indexado(h, b)
           l == [loc[h] EXCEPT !.lista[p + 1] = e, !.modif = TRUE]
<1>1. EnCommit(h) /\ pc[h] = "dedup_pag" /\ p < Largo(h) /\ ok' = ok
  BY DEF DedupPag, EnCommit, PasosDedup, Largo
<1>2. /\ DiscoOK /\ BaseOK /\ loc[h] \in Locales /\ Len(loc[h].lista) = Largo(h)
      /\ p \in Nat /\ Largo(h) \in Nat
  BY <1>1, EnElCommit, CamposDe DEF CursoOK, PasosDedup
<1>3. b \in Bloque
  BY <1>1, <1>2, EnElCommit DEF Largo
<1>4. e \in Bloque \cup {Nadie}
  <2>1. loc[h].idx \in [Contenidos -> Bloque \cup {Nadie}]
    BY <1>2, CamposDe
  <2>2. nodo[b] # Nadie => dato[nodo[b]] \in Contenidos
    BY <1>2, <1>3 DEF DiscoOK, Enlace
  <2> QED
    BY <1>3, <2>1, <2>2 DEF Indexado
<1>5. CASE \E x \in Locales : /\ DedupSigue(h, x) /\ UNCHANGED <<disco, bitmap, leido>>
                              /\ x.pag = p /\ Len(x.lista) = Largo(h)
  <2>1. DiscoOK' /\ BaseOK' /\ meta' = meta
    BY <1>2, <1>5, DiscoIgual
  <2> QED
    BY <1>1, <1>5, <2>1, PasoDedupSigue
<1>6. CASE e \notin {Nadie, b} /\ Enlazar(f, p, Nadie) /\ Ir(h, "dedup_link", l)
  <2>1. e \in Bloque /\ p + 1 \in 1..Len(loc[h].lista) /\ TRUE \in BOOLEAN
    <3>1. p + 1 \in 1..Largo(h)
      BY <1>1, <1>2
    <3> QED
      BY <1>2, <1>4, <1>6, <3>1
  <2> HIDE DEF e
  <2>2. l \in Locales /\ l.pag = p /\ Len(l.lista) = Largo(h)
    <3>1. l = PoneLista(loc[h], p + 1, e, TRUE)
      BY DEF PoneLista
    <3> HIDE DEF l
    <3> QED
      BY <1>2, <2>1, <3>1, ConLista
  <2>3. DiscoOK' /\ BaseOK' /\ meta' = meta
    BY <1>1, <1>2, <1>6, EnElCommit, DiscoEnlazar DEF Enlace
  <2> HIDE DEF l
  <2>4. Ir(h, "dedup_link", l) /\ "dedup_link" \in PasosDedup /\ l.pag < Largo(h)
        /\ meta'[pedido[h].f].blocks = meta[pedido[h].f].blocks
    BY <1>1, <1>6, <2>2, <2>3 DEF PasosDedup
  <2>5. OpOK(h)' /\ CursoOK(h)' /\ "dedup_link" \in Pasos
    <3>1. pedido[h].op = "COMMIT" /\ pedido[h].f # Base /\ pc[h] # "libre"
      BY <1>1, EnElCommit
    <3> HIDE DEF p, b, f
    <3> QED
      BY <2>2, <2>4, <3>1, PasoCommit DEF PasosDedup
  <2> QED
    BY <1>1, <2>2, <2>3, <2>4, <2>5, EnElCommit, PasoAdentro
<1>7. /\ loc[h].pag = p
      /\ [loc[h] EXCEPT !.idx[dato[nodo[b]]] = b] \in Locales
      /\ [loc[h] EXCEPT !.idx[dato[nodo[b]]] = b].pag = p
      /\ [loc[h] EXCEPT !.idx[dato[nodo[b]]] = b].lista = loc[h].lista
      /\ [loc[h] EXCEPT !.modif = TRUE] \in Locales
      /\ [loc[h] EXCEPT !.modif = TRUE].pag = p
      /\ [loc[h] EXCEPT !.modif = TRUE].lista = loc[h].lista
  <2> HIDE DEF b
  <2>1. /\ [loc[h] EXCEPT !.modif = TRUE] \in Locales
        /\ [loc[h] EXCEPT !.modif = TRUE].pag = p
        /\ [loc[h] EXCEPT !.modif = TRUE].lista = loc[h].lista
    BY <1>2, ConModif
  <2>2. ASSUME NEW c
        PROVE  /\ PoneIndice(loc[h], c, b) \in Locales
               /\ PoneIndice(loc[h], c, b).pag = p
               /\ PoneIndice(loc[h], c, b).lista = loc[h].lista
    BY <1>2, <1>3, ConIndice
  <2>3. [loc[h] EXCEPT !.idx[dato[nodo[b]]] = b] = PoneIndice(loc[h], dato[nodo[b]], b)
    BY DEF PoneIndice
  <2> QED
    BY <2>1, <2>2, <2>3
<1>8. \/ /\ \/ DedupSigue(h, loc[h])
            \/ DedupSigue(h, [loc[h] EXCEPT !.idx[dato[nodo[b]]] = b])
            \/ DedupSigue(h, [loc[h] EXCEPT !.modif = TRUE])
         /\ UNCHANGED <<disco, bitmap, leido>>
      \/ e \notin {Nadie, b} /\ Enlazar(f, p, Nadie) /\ Ir(h, "dedup_link", l)
  BY DEF DedupPag
<1> HIDE DEF b, e, l, f
<1> QED
  BY <1>2, <1>5, <1>6, <1>7, <1>8
LEMMA TipoDedupLink ==
  ASSUME InvBloques, NEW h \in Hilos, DedupLink(h)
  PROVE  InvBloques'
<1> DEFINE f == pedido[h].f
           p == loc[h].pag
           b == meta[f].blocks[p + 1]
           e == loc[h].lista[p + 1]
           l == [loc[h] EXCEPT !.lista[p + 1] = b, !.modif = FALSE]
<1>1. EnCommit(h) /\ pc[h] = "dedup_link" /\ ok' = ok
  BY DEF DedupLink, EnCommit, PasosDedup
<1>2. /\ DiscoOK /\ BaseOK /\ loc[h] \in Locales /\ Len(loc[h].lista) = Largo(h)
      /\ p \in Nat /\ Largo(h) \in Nat /\ p < Largo(h) /\ f \in Archivos \ {Base}
      /\ loc[h].lista \in Seq(Bloque) /\ meta[f].blocks \in Seq(Bloque)
  BY <1>1, EnElCommit, CamposDe DEF CursoOK, PasosDedup
<1>3. b \in Bloque /\ e \in Bloque /\ p + 1 \in 1..Len(loc[h].lista)
  <2>1. p + 1 \in 1..Largo(h)
    BY <1>2
  <2>2. p + 1 \in DOMAIN loc[h].lista /\ p + 1 \in DOMAIN meta[f].blocks
    BY <1>2, <2>1 DEF Largo
  <2> QED
    BY <1>2, <2>1, <2>2
<1>4. nodo[e] \in Enlace /\ nodo[b] \in Enlace
  BY <1>2, <1>3 DEF DiscoOK
<1>5. \/ Enlazar(f, p, nodo[e]) /\ Ir(h, "dedup_bit", loc[h])
      \/ Enlazar(f, p, nodo[b]) /\ DedupSigue(h, l)
  BY DEF DedupLink
<1>6. DiscoOK' /\ BaseOK' /\ meta' = meta
  BY <1>2, <1>4, <1>5, DiscoEnlazar
<1>7. CASE Ir(h, "dedup_bit", loc[h])
  <2>1. pedido[h].op = "COMMIT" /\ pedido[h].f # Base /\ pc[h] # "libre" /\ ok' \in [Hilos -> BOOLEAN]
    BY <1>1, EnElCommit
  <2>2. OpOK(h)' /\ CursoOK(h)' /\ "dedup_bit" \in Pasos
    BY <1>2, <1>6, <1>7, <2>1, PasoCommit DEF PasosDedup
  <2> QED
    BY <1>1, <1>2, <1>6, <1>7, <2>1, <2>2, EnElCommit, PasoAdentro
<1>8. CASE DedupSigue(h, l)
  <2> HIDE DEF b
  <2>1. FALSE \in BOOLEAN
    OBVIOUS
  <2>2. l \in Locales /\ l.pag = p /\ Len(l.lista) = Largo(h)
    <3>1. l = PoneLista(loc[h], p + 1, b, FALSE)
      BY DEF PoneLista
    <3> HIDE DEF l
    <3> QED
      BY <1>2, <1>3, <2>1, <3>1, ConLista
  <2> HIDE DEF l
  <2> QED
    BY <1>1, <1>2, <1>6, <1>8, <2>2, PasoDedupSigue
<1> QED
  BY <1>5, <1>7, <1>8

LEMMA TipoDedupBit ==
  ASSUME InvBloques, NEW h \in Hilos, DedupBit(h) \/ DedupPersistir(h)
  PROVE  InvBloques'
<1>1. EnCommit(h) /\ pc[h] \in {"dedup_bit", "dedup_persistir"} /\ ok' = ok
  BY DEF DedupBit, DedupPersistir, EnCommit, PasosDedup
<1>2. /\ DiscoOK /\ BaseOK /\ loc[h] \in Locales /\ ok' \in [Hilos -> BOOLEAN]
      /\ Len(loc[h].lista) = Largo(h) /\ loc[h].pag < Largo(h)
  BY <1>1, EnElCommit DEF CursoOK, PasosDedup
<1>3. CASE DedupBit(h)
  <2>1. PICK x : PonerBitmap(bitmap \ x)
    BY <1>3 DEF DedupBit
  <2>2. bitmap \ x \in SUBSET Bloque /\ Ir(h, "dedup_persistir", loc[h])
    BY <1>2, <1>3 DEF DiscoOK, DedupBit
  <2>3. DiscoOK' /\ BaseOK' /\ meta' = meta
    BY <1>2, <2>1, <2>2, DiscoBitmap
  <2>4. pedido[h].op = "COMMIT" /\ pedido[h].f # Base /\ pc[h] # "libre"
    BY <1>1, EnElCommit
  <2>5. OpOK(h)' /\ CursoOK(h)' /\ "dedup_persistir" \in Pasos
    BY <1>2, <2>2, <2>3, <2>4, PasoCommit DEF PasosDedup
  <2> QED
    BY <1>1, <1>2, <2>2, <2>3, <2>5, EnElCommit, PasoAdentro
<1>4. CASE DedupPersistir(h)
  <2>1. PersistirBitmap /\ DedupSigue(h, loc[h])
    BY <1>4 DEF DedupPersistir
  <2>2. DiscoOK' /\ BaseOK' /\ meta' = meta
    BY <1>2, <2>1, DiscoPersistir
  <2> QED
    BY <1>1, <1>2, <2>1, <2>2, PasoDedupSigue
<1> QED
  BY <1>3, <1>4

LEMMA TipoDedupGuardar ==
  ASSUME InvBloques, NEW h \in Hilos, DedupGuardar(h)
  PROVE  InvBloques'
<1> DEFINE f == pedido[h].f
           s == IF loc[h].modif THEN loc[h].lista ELSE meta[f].blocks
<1>1. /\ EnCommit(h) /\ ok' = ok /\ Ir(h, "commit_estado", SinLocales)
      /\ meta' = [meta EXCEPT ![f].blocks = s] /\ indice' = loc[h].idx
      /\ UNCHANGED <<logico, nodo, dato, bitmapDisco, bitmap, leido>>
  BY DEF DedupGuardar, EnCommit, PasosDedup
<1>2. /\ DiscoOK /\ BaseOK /\ loc[h] \in Locales /\ ok' \in [Hilos -> BOOLEAN]
      /\ f \in Archivos \ {Base} /\ pedido[h].op = "COMMIT" /\ pc[h] # "libre"
      /\ meta[f] \in Metas /\ meta[f].blocks \in Seq(Bloque)
  BY <1>1, EnElCommit DEF DiscoOK
<1>3. loc[h].idx \in [Contenidos -> Bloque \cup {Nadie}] /\ s \in Seq(Bloque)
  BY <1>2, CamposDe
<1>4. /\ meta' \in [Archivos -> Metas] /\ meta'[Base] = meta[Base]
      /\ \A g \in Archivos \ {f} : meta'[g] = meta[g]
  <2> HIDE DEF s
  <2>1. [meta[f] EXCEPT !.blocks = s] \in Metas
    BY <1>2, <1>3 DEF Metas
  <2>2. meta' = [meta EXCEPT ![f] = [meta[f] EXCEPT !.blocks = s]]
    BY <1>1
  <2> HIDE DEF f
  <2> QED
    BY <1>2, <2>1, <2>2, BloquesAssumption DEF DiscoOK
<1>5. DiscoOK' /\ BaseOK'
  BY <1>1, <1>2, <1>3, <1>4 DEF DiscoOK, BaseOK, BloqueCeroPresente
<1>6. OpOK(h)' /\ CursoOK(h)' /\ "commit_estado" \in Pasos
  BY <1>1, <1>2, Iniciales, PasoCommit
<1> QED
  BY <1>1, <1>2, <1>4, <1>5, <1>6, Iniciales, EnElCommit, PasoAdentro

LEMMA TipoCommitEstado ==
  ASSUME InvBloques, NEW h \in Hilos, CommitEstado(h) \/ CommitPersistir(h)
  PROVE  InvBloques'
<1> DEFINE f == pedido[h].f
           m == [meta[f] EXCEPT !.estado = "COMMITED"]
<1>1. EnCommit(h)
  BY DEF CommitEstado, CommitPersistir, EnCommit
<1>2. CASE CommitEstado(h)
  <2>1. PonerMeta(f, m) /\ Ir(h, "commit_persistir", SinLocales) /\ ok' = ok
    BY <1>2 DEF CommitEstado
  <2>2. m \in Metas
    BY <1>1, EnElCommit, SonMetas DEF DiscoOK, Estados
  <2>3. DiscoOK' /\ BaseOK' /\ \A g \in Archivos \ {f} : meta'[g] = meta[g]
    <3> HIDE DEF m
    <3> QED
      BY <1>1, <2>1, <2>2, EnElCommit, DiscoMeta
  <2>4. OpOK(h)' /\ CursoOK(h)' /\ "commit_persistir" \in Pasos /\ ok' \in [Hilos -> BOOLEAN]
    BY <1>1, <2>1, EnElCommit, Iniciales, PasoCommit
  <2> QED
    BY <1>1, <2>1, <2>3, <2>4, EnElCommit, Iniciales, PasoAdentro
<1>3. CASE CommitPersistir(h)
  <2>1. PersistirBitmap /\ Resultado(h, TRUE)
    BY <1>3 DEF CommitPersistir
  <2>2. DiscoOK' /\ BaseOK' /\ meta' = meta
    BY <1>1, <2>1, EnElCommit, DiscoPersistir
  <2> QED
    BY <1>1, <2>1, <2>2, EnElCommit, PasoResultado
<1> QED
  BY <1>2, <1>3
-------------------------------------------------------------------------------
(* The links of an inode. *)

Logicos(n) == {x \in Archivos \X Pagina : logico[x[1]][x[2]] = n}
Fisicos(n) == {b \in Bloque : nodo[b] = n}

LEMMA EnlacesFinitos ==
  ASSUME NEW n
  PROVE  /\ Enlaces(n) = Cardinality(Logicos(n)) + Cardinality(Fisicos(n))
         /\ Cardinality(Logicos(n)) \in Nat /\ Cardinality(Fisicos(n)) \in Nat
         /\ Logicos(n) # {} => Cardinality(Logicos(n)) > 0
         /\ Fisicos(n) # {} => Cardinality(Fisicos(n)) > 0
<1>1. IsFiniteSet(Archivos) /\ IsFiniteSet(Pagina) /\ IsFiniteSet(Bloque)
  BY BloquesAssumption, FS_Interval DEF Pagina, Bloque
<1>2. IsFiniteSet(Archivos \X Pagina)
  BY <1>1, FS_Product
<1>3. IsFiniteSet(Logicos(n)) /\ IsFiniteSet(Fisicos(n))
  BY <1>1, <1>2, FS_Subset DEF Logicos, Fisicos
<1>4. Cardinality(Logicos(n)) \in Nat /\ Cardinality(Fisicos(n)) \in Nat
  BY <1>3, FS_CardinalityType
<1>5. (Cardinality(Logicos(n)) = 0 => Logicos(n) = {}) /\ (Cardinality(Fisicos(n)) = 0 => Fisicos(n) = {})
  BY <1>3, FS_EmptySet
<1>6. Enlaces(n) = Cardinality(Logicos(n)) + Cardinality(Fisicos(n))
  BY DEF Enlaces, Logicos, Fisicos
<1> QED
  BY <1>4, <1>5, <1>6

LEMMA DosEnlaces ==
  ASSUME NEW n, NEW f \in Archivos, NEW p \in Pagina, logico[f][p] = n, NEW b \in Bloque, nodo[b] = n
  PROVE  Enlaces(n) >= 2
<1>1. Logicos(n) # {} /\ Fisicos(n) # {}
  <2>1. <<f, p>> \in Logicos(n)
    BY DEF Logicos
  <2>2. b \in Fisicos(n)
    BY DEF Fisicos
  <2> QED
    BY <2>1, <2>2
<1> QED
  BY <1>1, EnlacesFinitos

-------------------------------------------------------------------------------
LEMMA EnElDelete ==
  ASSUME InvBloques, NEW h \in Hilos, EnDelete(h)
  PROVE  /\ pedido[h].op = "DELETE" /\ pedido[h].f \in Archivos \ {Base} /\ pedido[h] \in mezcla
         /\ pedido[h].f \in Nombrados(pedido[h])
         /\ pc[h] # "libre" /\ Adentro(h) /\ Suyos(h) /\ ~SinCandado(pedido[h])
         /\ HilosOK /\ DiscoOK /\ BaseOK /\ CursoOK(h) /\ loc[h] \in Locales
         /\ ok \in [Hilos -> BOOLEAN]
         /\ loc[h].pag \in Nat /\ meta[pedido[h].f].blocks \in Seq(Bloque) /\ Largo(h) \in Nat
<1>1. Adentro(h) /\ pc[h] # "libre" /\ Suyos(h)
  BY SuyosAdentro DEF Adentro, EnDelete
<1>2. pedido[h].op = "DELETE" /\ pedido[h].f # Base
  BY <1>1, DelHilo DEF OpOK
<1>3. pedido[h].f \in Archivos
  BY <1>1, DelPedido
<1>4. meta[pedido[h].f].blocks \in Seq(Bloque) /\ Largo(h) \in Nat /\ loc[h].pag \in Nat
  BY <1>3, DelHilo, SonMetas, CamposDe DEF DiscoOK, Largo
<1> QED
  BY <1>1, <1>2, <1>3, <1>4, DelPedido, DelHilo DEF HilosOK

LEMMA PasoDelete ==
  ASSUME InvBloques, NEW h \in Hilos, pedido[h].op = "DELETE", pedido[h].f # Base,
         pc[h] # "libre", NEW paso, NEW l \in Locales, Ir(h, paso, l),
         meta'[pedido[h].f].blocks = meta[pedido[h].f].blocks,
         \/ paso \in {"del_persistir", "del_rm"}
         \/ paso = "del_unlink" /\ (meta[pedido[h].f].blocks = <<>> \/ l.pag < Largo(h))
         \/ paso \in {"del_stat", "del_bit"} /\ l.pag < Largo(h)
         \/ paso = "del_fisico" /\ l.pag < Largo(h) /\ l.pag = loc[h].pag /\ DelBloque(h) # 0
  PROVE  OpOK(h)' /\ CursoOK(h)' /\ paso \in Pasos
<1>1. HilosOK /\ pedido[h] \in mezcla
  BY DelHilo, DelPedido
<1>2. pc'[h] = paso /\ loc'[h] = l /\ pedido' = pedido /\ mezcla' = mezcla
  BY <1>1, EfectoDeIr
<1>3. paso \in {"del_unlink", "del_stat", "del_fisico", "del_bit", "del_persistir", "del_rm"}
  OBVIOUS
<1>4. OpOK(h)'
  BY <1>1, <1>2, <1>3 DEF OpOK, Adentro, EnTruncate, EnTag, EnEscritura, EnCommit, EnDelete, PasosDedup
<1>5. Largo(h)' = Largo(h)
  BY <1>2 DEF Largo
<1>6. l.pag = loc[h].pag => DelBloque(h)' = DelBloque(h)
  BY <1>2 DEF DelBloque
<1>7. CursoOK(h)'
  BY <1>2, <1>3, <1>5, <1>6 DEF CursoOK, PasosDedup
<1> QED
  BY <1>3, <1>4, <1>7 DEF Pasos

\* The pages of a DELETE one by one: a step that goes on with the next, or to the next phase.
LEMMA PasoDelSigue ==
  ASSUME InvBloques, NEW h \in Hilos, EnDelete(h), loc[h].pag < Largo(h),
         NEW paso \in {"del_unlink", "del_stat"}, NEW fin \in {"del_stat", "del_persistir"},
         DelSigue(h, paso, fin), DiscoOK', BaseOK', meta' = meta, ok' = ok
  PROVE  InvBloques'
<1> DEFINE l == [loc[h] EXCEPT !.pag = @ + 1]
<1>1. pedido[h].op = "DELETE" /\ pedido[h].f # Base /\ pc[h] # "libre" /\ loc[h] \in Locales
      /\ loc[h].pag \in Nat /\ Largo(h) \in Nat /\ Adentro(h) /\ ok' \in [Hilos -> BOOLEAN]
  BY EnElDelete
<1>2. \/ Ir(h, paso, l) /\ loc[h].pag + 1 < Largo(h)
      \/ Ir(h, fin, SinLocales)
  BY DEF DelSigue, Largo
<1>3. CASE Ir(h, paso, l) /\ loc[h].pag + 1 < Largo(h)
  <2>1. loc[h].pag + 1 \in Nat
    BY <1>1
  <2>2. l \in Locales /\ l.pag = loc[h].pag + 1
    BY <1>1, <2>1, ConPag
  <2> HIDE DEF l
  <2>3. OpOK(h)' /\ CursoOK(h)' /\ paso \in Pasos
    BY <1>1, <1>3, <2>2, PasoDelete
  <2> QED
    BY <1>1, <1>3, <2>2, <2>3, PasoAdentro
<1>4. CASE Ir(h, fin, SinLocales)
  <2>1. SinLocales \in Locales /\ SinLocales.pag < Largo(h)
    BY <1>1, Iniciales DEF SinLocales
  <2>2. OpOK(h)' /\ CursoOK(h)' /\ fin \in Pasos
    BY <1>1, <1>4, <2>1, PasoDelete
  <2> QED
    BY <1>1, <1>4, <2>1, <2>2, PasoAdentro
<1> QED
  BY <1>2, <1>3, <1>4

LEMMA TipoEliminar ==
  ASSUME InvBloques, NEW h \in Hilos, Eliminar(h) \/ DelUnlink(h)
  PROVE  InvBloques'
<1> DEFINE f == pedido[h].f
<1>1. DiscoOK /\ BaseOK /\ \A p \in Nat : f \in Archivos => meta[f].blocks \in Seq(Bloque)
  BY DelHilo, SonMetas DEF DiscoOK
<1>2. CASE Eliminar(h)
  <2>1. Empieza(h, "DELETE") /\ pc[h] # "libre" /\ pedido[h].op = "DELETE"
    BY <1>2 DEF Eliminar, Empieza
  <2>2. CASE Falla(h)
    BY <2>1, <2>2, FallaAlEntrar
  <2>3. CASE f # Base /\ Ir(h, "del_unlink", SinLocales) /\ UNCHANGED <<disco, bitmap, ok, leido>>
    <3>1. f \in Archivos
      BY <2>1, DelPedido
    <3>2. meta[f].blocks = <<>> \/ SinLocales.pag < Largo(h)
      <4>1. meta[f].blocks \in Seq(Bloque)
        BY <1>1, <3>1, SonMetas DEF DiscoOK
      <4> QED
        BY <4>1 DEF Largo, SinLocales
    <3>3. meta' = meta /\ ok' \in [Hilos -> BOOLEAN]
      BY <2>3, DelHilo DEF disco, HilosOK
    <3>4. OpOK(h)' /\ CursoOK(h)' /\ "del_unlink" \in Pasos
      BY <2>1, <2>3, <3>2, <3>3, Iniciales, PasoDelete
    <3> QED
      BY <2>1, <2>3, <3>3, <3>4, Iniciales, PasoEntrarSinDisco
  <2> QED
    BY <1>2, <2>2, <2>3 DEF Eliminar
<1>3. CASE DelUnlink(h)
  <2>1. EnDelete(h) /\ pc[h] = "del_unlink" /\ ok' = ok
    BY <1>3 DEF DelUnlink, EnDelete
  <2>2. CASE meta[f].blocks = <<>>
    <3>1. Ir(h, "del_persistir", SinLocales) /\ UNCHANGED <<disco, bitmap, leido>>
      BY <1>3, <2>2 DEF DelUnlink
    <3>2. meta' = meta /\ ok' \in [Hilos -> BOOLEAN]
      BY <2>1, <3>1, DelHilo DEF disco, HilosOK
    <3>3. OpOK(h)' /\ CursoOK(h)' /\ "del_persistir" \in Pasos
      BY <2>1, <3>1, <3>2, EnElDelete, Iniciales, PasoDelete
    <3> QED
      BY <2>1, <3>1, <3>2, <3>3, EnElDelete, Iniciales, PasoAdentroSinDisco
  <2>3. CASE meta[f].blocks # <<>>
    <3>1. Enlazar(f, loc[h].pag, Nadie) /\ DelSigue(h, "del_unlink", "del_stat")
      BY <1>3, <2>3 DEF DelUnlink
    <3>2. loc[h].pag < Largo(h)
      BY <2>1, <2>3, EnElDelete DEF CursoOK
    <3>3. DiscoOK' /\ BaseOK' /\ meta' = meta
      BY <1>1, <2>1, <3>1, EnElDelete, DiscoEnlazar DEF Enlace
    <3> QED
      BY <2>1, <3>1, <3>2, <3>3, PasoDelSigue
  <2> QED
    BY <2>2, <2>3
<1> QED
  BY <1>2, <1>3

LEMMA TipoDelStat ==
  ASSUME InvBloques, NEW h \in Hilos, DelStat(h) \/ DelFisico(h) \/ DelBit(h)
  PROVE  InvBloques'
<1> DEFINE b == DelBloque(h)
<1>1. EnDelete(h) /\ ok' = ok
  BY DEF DelStat, DelFisico, DelBit, EnDelete
<1>2. /\ DiscoOK /\ BaseOK /\ loc[h] \in Locales /\ ok' \in [Hilos -> BOOLEAN]
      /\ pedido[h].op = "DELETE" /\ pedido[h].f # Base /\ pc[h] # "libre" /\ Adentro(h)
  BY <1>1, EnElDelete
<1>3. loc[h].pag < Largo(h)
  BY <1>1, EnElDelete DEF DelStat, DelFisico, DelBit, CursoOK
<1>4. b \in Bloque
  <2>1. loc[h].pag + 1 \in DOMAIN meta[pedido[h].f].blocks
    BY <1>1, <1>3, EnElDelete DEF Largo
  <2> QED
    BY <1>1, <2>1, EnElDelete DEF DelBloque
<1>5. CASE DelStat(h)
  <2>1. DiscoOK' /\ BaseOK' /\ meta' = meta
    BY <1>2, <1>5, DiscoIgual DEF DelStat
  <2>2. CASE nodo[b] # Nadie /\ Enlaces(nodo[b]) <= 1
    <3>1. b # 0
      <4>1. Base \in Archivos /\ 0 \in Pagina /\ 0 \in Bloque
        BY BloquesAssumption DEF Pagina, Bloque
      <4>2. Enlaces(0) >= 2 /\ nodo[0] = 0
        BY <1>2, <4>1, DosEnlaces DEF BaseOK, BloqueCeroPresente
      <4>3. Enlaces(0) \in Nat
        BY EnlacesFinitos
      <4> QED
        BY <2>2, <4>2, <4>3
    <3>2. Ir(h, "del_fisico", loc[h])
      BY <1>5, <2>2 DEF DelStat
    <3>3. OpOK(h)' /\ CursoOK(h)' /\ "del_fisico" \in Pasos
      BY <1>2, <1>3, <2>1, <3>1, <3>2, PasoDelete
    <3> QED
      BY <1>2, <2>1, <3>2, <3>3, PasoAdentro
  <2>3. CASE Ir(h, "del_bit", loc[h])
    <3>1. OpOK(h)' /\ CursoOK(h)' /\ "del_bit" \in Pasos
      BY <1>2, <1>3, <2>1, <2>3, PasoDelete
    <3> QED
      BY <1>2, <2>1, <2>3, <3>1, PasoAdentro
  <2>4. CASE DelSigue(h, "del_stat", "del_persistir")
    BY <1>1, <1>3, <2>1, <2>4, PasoDelSigue
  <2> QED
    BY <1>5, <2>2, <2>3, <2>4 DEF DelStat
<1>6. CASE DelFisico(h)
  <2>1. /\ b # 0 /\ nodo' = [nodo EXCEPT ![b] = Nadie] /\ Ir(h, "del_bit", loc[h])
        /\ UNCHANGED <<meta, logico, dato, indice, bitmapDisco, bitmap, leido>>
    BY <1>1, <1>6, EnElDelete DEF DelFisico, CursoOK
  <2>2. nodo' \in [Bloque -> Enlace] /\ nodo'[0] = nodo[0]
    BY <1>2, <1>4, <2>1 DEF DiscoOK, Enlace
  <2>3. DiscoOK' /\ BaseOK' /\ meta' = meta
    BY <1>2, <2>1, <2>2 DEF DiscoOK, BaseOK, BloqueCeroPresente
  <2>4. OpOK(h)' /\ CursoOK(h)' /\ "del_bit" \in Pasos
    BY <1>2, <1>3, <2>1, <2>3, PasoDelete
  <2> QED
    BY <1>2, <2>1, <2>3, <2>4, PasoAdentro
<1>7. CASE DelBit(h)
  <2>1. PonerBitmap(bitmap \ {b}) /\ DelSigue(h, "del_stat", "del_persistir")
    BY <1>7 DEF DelBit
  <2>2. bitmap \ {b} \in SUBSET Bloque
    BY <1>2 DEF DiscoOK
  <2>3. DiscoOK' /\ BaseOK' /\ meta' = meta
    BY <1>2, <2>1, <2>2, DiscoBitmap
  <2> QED
    BY <1>1, <1>3, <2>1, <2>3, PasoDelSigue
<1> QED
  BY <1>5, <1>6, <1>7

LEMMA TipoDelRm ==
  ASSUME InvBloques, NEW h \in Hilos, DelPersistir(h) \/ DelRm(h)
  PROVE  InvBloques'
<1> DEFINE f == pedido[h].f
<1>1. EnDelete(h)
  BY DEF DelPersistir, DelRm, EnDelete
<1>2. DiscoOK /\ BaseOK /\ ok \in [Hilos -> BOOLEAN] /\ f \in Archivos \ {Base}
  BY <1>1, EnElDelete
<1>3. CASE DelPersistir(h)
  <2>1. PersistirBitmap /\ Ir(h, "del_rm", SinLocales) /\ ok' = ok
    BY <1>3 DEF DelPersistir
  <2>2. DiscoOK' /\ BaseOK' /\ meta' = meta
    BY <1>2, <2>1, DiscoPersistir
  <2>3. OpOK(h)' /\ CursoOK(h)' /\ "del_rm" \in Pasos
    BY <1>1, <2>1, <2>2, EnElDelete, Iniciales, PasoDelete
  <2> QED
    BY <1>1, <1>2, <2>1, <2>2, <2>3, EnElDelete, Iniciales, PasoAdentro
<1>4. CASE DelRm(h)
  <2>1. /\ meta' = [meta EXCEPT ![f] = SinMeta]
        /\ logico' = [logico EXCEPT ![f] = [p \in Pagina |-> Nadie]]
        /\ Resultado(h, TRUE)
        /\ UNCHANGED <<nodo, dato, indice, bitmapDisco, bitmap, leido>>
    BY <1>4 DEF DelRm
  <2>2. /\ meta' \in [Archivos -> Metas] /\ meta'[Base] = meta[Base]
        /\ \A g \in Archivos \ {f} : meta'[g] = meta[g]
    BY <1>2, <2>1, SonMetas, BloquesAssumption DEF DiscoOK
  <2>3. logico' \in [Archivos -> [Pagina -> Enlace]] /\ logico'[Base] = logico[Base]
    BY <1>2, <2>1, BloquesAssumption DEF DiscoOK, Enlace
  <2>4. DiscoOK' /\ BaseOK'
    BY <1>2, <2>1, <2>2, <2>3 DEF DiscoOK, BaseOK, BloqueCeroPresente
  <2>5. /\ f \in Nombrados(pedido[h]) /\ Suyos(h) /\ ~SinCandado(pedido[h]) /\ pc[h] # "libre"
        /\ TRUE \in BOOLEAN
    BY <1>1, EnElDelete
  <2>6. \A g \in Archivos \ Nombrados(pedido[h]) : meta'[g] = meta[g]
    BY <2>2, <2>5
  <2> HIDE DEF f
  <2> QED
    BY <2>1, <2>4, <2>5, <2>6, PasoResultado
<1> QED
  BY <1>3, <1>4
-------------------------------------------------------------------------------
LEMMA TipoOperacion ==
  ASSUME InvBloques, NEW h \in Hilos, Operacion(h)
  PROVE  InvBloques'
<1>1. CASE Crear(h) \/ CrearMeta(h) \/ Leer(h)
  BY <1>1, TipoCrear, TipoLeer
<1>2. CASE Truncar(h) \/ TruncCrecer(h) \/ TruncBajar(h) \/ TruncStat(h) \/ TruncLiberar(h)
           \/ TruncMeta(h)
  BY <1>2, TipoTruncar, TipoTruncCrecer, TipoTruncBajar, TipoTruncMeta
<1>3. CASE Tag(h) \/ TagMeta(h) \/ TagLink(h)
  BY <1>3, TipoTag, TipoTagSigue
<1>4. CASE \/ Flush(h) \/ EscribirBloque(h) \/ PrepararPagina(h) \/ Copiar(h) \/ Desenlazar(h)
           \/ Reenlazar(h) \/ GuardarBlocks(h) \/ EscribirPendiente(h) \/ TerminarEscritura(h)
  BY <1>4, TipoEscribir, TipoPrepararPagina, TipoCopiar, TipoReenlazar, TipoGuardarBlocks,
     TipoEscribirPendiente, TipoTerminarEscritura DEF Flush, EscribirBloque
<1>5. CASE \/ Commit(h) \/ DedupPag(h) \/ DedupLink(h) \/ DedupBit(h) \/ DedupPersistir(h)
           \/ DedupGuardar(h) \/ CommitEstado(h) \/ CommitPersistir(h)
  BY <1>5, TipoCommit, TipoDedupPag, TipoDedupLink, TipoDedupBit, TipoDedupGuardar,
     TipoCommitEstado
<1>6. CASE \/ Eliminar(h) \/ DelUnlink(h) \/ DelStat(h) \/ DelFisico(h) \/ DelBit(h)
           \/ DelPersistir(h) \/ DelRm(h)
  BY <1>6, TipoEliminar, TipoDelStat, TipoDelRm
<1> QED
  BY <1>1, <1>2, <1>3, <1>4, <1>5, <1>6 DEF Operacion

\* A thread that takes a request, or answers one, holds no mutex before or after.
LEMMA TipoPedir ==
  ASSUME InvBloques, NEW h \in Hilos, Pedir(h) \/ Responder(h)
  PROVE  InvBloques'
<1>1. HilosOK /\ DiscoOK /\ BaseOK /\ Exclusivos
  BY DEF InvBloques
<1>2. /\ DiscoOK' /\ BaseOK' /\ meta' = meta /\ loc' = loc /\ mezcla' = mezcla
  BY <1>1 DEF Pedir, Responder, disco, entorno, DiscoOK, BaseOK, BloqueCeroPresente
<1>3. \E paso \in {"libre", "entrar"}, p \in mezcla \cup {SinPedido} :
        /\ pc' = [pc EXCEPT ![h] = paso] /\ pedido' = [pedido EXCEPT ![h] = p]
        /\ paso = "entrar" => p \in mezcla
  BY DEF Pedir, Responder
<1>4. ok' \in [Hilos -> BOOLEAN]
  BY <1>1 DEF Pedir, Responder, HilosOK
<1>5. PICK paso \in {"libre", "entrar"}, p \in mezcla \cup {SinPedido} :
        /\ pc' = [pc EXCEPT ![h] = paso] /\ pedido' = [pedido EXCEPT ![h] = p]
        /\ paso = "entrar" => p \in mezcla
  BY <1>3
<1>6. paso \in Pasos
  BY <1>5 DEF Pasos
<1>7. HilosOK'
  BY <1>1, <1>2, <1>4, <1>5, <1>6 DEF HilosOK
<1>8. /\ pc'[h] = paso /\ pedido'[h] = p
      /\ \A g \in Hilos \ {h} : pc'[g] = pc[g] /\ pedido'[g] = pedido[g]
  BY <1>1, <1>5 DEF HilosOK
<1>9. Tiene(h)' = {}
  BY <1>5, <1>8 DEF Tiene
<1>10. \A g \in Hilos \ {h} : Tiene(g)' = Tiene(g)
  BY <1>8 DEF Tiene, SinCandado, Nombrados
<1>11. Exclusivos'
  BY <1>1, <1>9, <1>10 DEF Exclusivos
<1>12. OpOK(h)' /\ CursoOK(h)'
  BY <1>2, <1>5, <1>8 DEF OpOK, CursoOK, Adentro, EnTruncate, EnTag, EnEscritura, EnCommit,
     EnDelete, PasosDedup
<1>13. ASSUME NEW g \in Hilos \ {h} PROVE OpOK(g)' /\ CursoOK(g)'
  <2>1. OpOK(g) /\ CursoOK(g)
    BY DEF InvBloques
  <2>2. OpOK(g)'
    BY <1>2, <1>8, <2>1 DEF OpOK, Adentro, EnTruncate, EnTag, EnEscritura, EnCommit, EnDelete
  <2>3. CursoOK(g)'
    BY <1>2, <1>8, <2>1 DEF CursoOK, Largo, DelBloque, EnCurso
  <2> QED
    BY <2>2, <2>3
<1> QED
  BY <1>2, <1>7, <1>11, <1>12, <1>13 DEF InvBloques

\* Threads that are all idle fulfil what a thread must.
LEMMA TodosLibres ==
  ASSUME \A h \in Hilos : pc[h] = "libre"
  PROVE  Exclusivos /\ \A h \in Hilos : OpOK(h) /\ CursoOK(h)
BY DEF Exclusivos, Tiene, OpOK, CursoOK, Adentro, EnTruncate, EnTag, EnEscritura, EnCommit,
   EnDelete, PasosDedup

LEMMA TipoCaer ==
  ASSUME InvBloques, Caer
  PROVE  InvBloques'
<1>1. HilosOK'
  <2>1. "libre" \in Pasos
    BY DEF Pasos
  <2> QED
    BY <2>1, Iniciales DEF InvBloques, HilosOK, Caer
<1>2. DiscoOK' /\ BaseOK'
  BY DEF InvBloques, DiscoOK, BaseOK, BloqueCeroPresente, Caer, disco
<1>3. \A h \in Hilos : pc'[h] = "libre"
  BY DEF Caer
<1>4. Exclusivos' /\ \A h \in Hilos : OpOK(h)' /\ CursoOK(h)'
  BY <1>3 DEF Exclusivos, Tiene, OpOK, CursoOK, Adentro, EnTruncate, EnTag, EnEscritura,
     EnCommit, EnDelete, PasosDedup
<1> QED
  BY <1>1, <1>2, <1>4 DEF InvBloques

LEMMA BloquesAlInicio == Init => InvBloques
<1> SUFFICES ASSUME Init PROVE InvBloques
  OBVIOUS
<1>1. HilosOK
  <2>1. "libre" \in Pasos
    BY DEF Pasos
  <2> QED
    BY <2>1, Iniciales DEF Init, HilosOK
<1>2. 0 \in Bloque /\ 0 \in Nodo /\ 0 \in Pagina /\ Bloque \subseteq Nodo
  BY BloquesAssumption DEF Bloque, Nodo, Pagina
<1>3. meta \in [Archivos -> Metas]
  <2>1. 0 \in 0..MaxPaginas /\ 1 \in 0..MaxPaginas /\ <<0>> \in Seq(Bloque)
    BY <1>2, BloquesAssumption
  <2>2. /\ [estado |-> "COMMITED", tam |-> 0, blocks |-> <<0>>] \in Metas
        /\ [estado |-> "WORK_IN_PROGRESS", tam |-> 1, blocks |-> <<0>>] \in Metas
    BY <2>1 DEF Metas, Estados
  <2>3. \A f \in Archivos : meta[f] \in Metas
    BY <2>2, SonMetas DEF Init
  <2>4. meta = [f \in Archivos |-> meta[f]]
    BY DEF Init
  <2> QED
    BY <2>3, <2>4
<1>4. logico \in [Archivos -> [Pagina -> Enlace]]
  BY <1>2 DEF Init, Enlace
<1>5. nodo \in [Bloque -> Enlace] /\ nodo[0] = 0
  BY <1>2 DEF Init, Enlace
<1>6. dato \in [Nodo -> Contenidos] /\ indice \in [Contenidos -> Bloque \cup {Nadie}]
  BY BloquesAssumption DEF Init, SinIndice
<1>7. leido \in [Hilos -> Contenidos]
  BY BloquesAssumption DEF Init
<1>8. DiscoOK
  BY <1>2, <1>3, <1>4, <1>5, <1>6, <1>7 DEF Init, DiscoOK
<1>9. BaseOK
  BY <1>2, <1>5, BloquesAssumption DEF Init, BaseOK, BloqueCeroPresente
<1>10. \A h \in Hilos : pc[h] = "libre"
  BY DEF Init
<1> QED
  BY <1>1, <1>8, <1>9, <1>10, TodosLibres DEF InvBloques

LEMMA BloquesPaso == InvBloques /\ [Next]_vars => InvBloques'
<1> SUFFICES ASSUME InvBloques, [Next]_vars PROVE InvBloques'
  OBVIOUS
<1>1. CASE \E h \in Hilos : Pedir(h) \/ Operacion(h) \/ Responder(h)
  BY <1>1, TipoPedir, TipoOperacion
<1>2. CASE Caer
  BY <1>2, TipoCaer
<1>3. CASE UNCHANGED vars
  <2>1. /\ HilosOK' /\ DiscoOK' /\ BaseOK'
    BY <1>3 DEF InvBloques, HilosOK, DiscoOK, BaseOK, BloqueCeroPresente, vars, disco, entorno
  <2>2. Exclusivos'
    BY <1>3 DEF InvBloques, Exclusivos, Tiene, SinCandado, Nombrados, vars, disco, entorno
  <2>3. ASSUME NEW h \in Hilos PROVE OpOK(h)' /\ CursoOK(h)'
    <3>1. OpOK(h) /\ CursoOK(h)
      BY DEF InvBloques
    <3>2. OpOK(h)'
      BY <1>3, <3>1 DEF OpOK, Adentro, EnTruncate, EnTag, EnEscritura, EnCommit, EnDelete,
         vars, disco, entorno
    <3>3. CursoOK(h)'
      BY <1>3, <3>1 DEF CursoOK, Largo, DelBloque, EnCurso, vars, disco, entorno
    <3> QED
      BY <3>2, <3>3
  <2> QED
    BY <2>1, <2>2, <2>3 DEF InvBloques
<1> QED
  BY <1>1, <1>2, <1>3 DEF Next

\* The inductive invariant holds in every state the program reaches.
THEOREM BloquesSiempre == Spec => []InvBloques
<1> QED
  BY BloquesAlInicio, BloquesPaso, PTL DEF Spec

\* Every variable of the file system keeps its type: no operation indexes BLOCKS, the bitmap
\* or the logical blocks outside what they hold, whatever other threads and crashes do.
THEOREM TipoBloques == Spec => []TypeOK
<1>1. InvBloques => TypeOK
  BY DEF InvBloques, HilosOK, DiscoOK, TypeOK, Metas, Enlace
<1> QED
  BY <1>1, BloquesSiempre, PTL

\* Block 0, which every new page links (truncar_file), is never lost: no DELETE, TRUNCATE or
\* COMMIT removes its physical name or the link that initial_file:BASE has to it.
THEOREM BloqueCeroNuncaFalta == Spec => []BloqueCeroPresente
<1>1. InvBloques => BloqueCeroPresente
  BY DEF InvBloques, BaseOK
<1> QED
  BY <1>1, BloquesSiempre, PTL

-------------------------------------------------------------------------------
(* While no file:tag is deleted.                                                *)

\* No pending write goes to block 0.
PendSano(s) == \A i \in DOMAIN s : s[i][2] # 0

\* Every physical name is in its place, and block 0 as it was formatted.
Intacto ==
    /\ \A b \in Bloque : nodo[b] = b
    /\ \A f \in Archivos, p \in Pagina : logico[f][p] \in Bloque \cup {Nadie}
    /\ dato[0] = Cero
    /\ \A h \in Hilos : PendSano(loc[h].pend)

InvIntacto == InvBloques /\ (SinDelete => Intacto)

-------------------------------------------------------------------------------
LEMMA SinHilosEnDelete ==
  ASSUME InvBloques, SinDelete, NEW h \in Hilos
  PROVE  ~EnDelete(h)
BY EnElDelete DEF SinDelete

\* A step that changes neither links nor contents.
LEMMA IntactoQuieto ==
  ASSUME InvBloques, Intacto, NEW h \in Hilos, NEW paso, NEW l, Ir(h, paso, l), PendSano(l.pend),
         UNCHANGED <<logico, nodo, dato>>
  PROVE  Intacto'
<1>1. loc'[h] = l /\ \A g \in Hilos \ {h} : loc'[g] = loc[g]
  BY DelHilo, EfectoDeIr
<1>2. \A g \in Hilos : PendSano(loc'[g].pend)
  BY <1>1 DEF Intacto
<1> QED
  BY <1>2 DEF Intacto, PendSano

LEMMA IntactoEnlazar ==
  ASSUME InvBloques, Intacto, NEW h \in Hilos, NEW paso, NEW l, Ir(h, paso, l), PendSano(l.pend),
         NEW f, NEW p, NEW n \in Bloque \cup {Nadie},
         logico' = [logico EXCEPT ![f][p] = n], UNCHANGED <<nodo, dato>>
  PROVE  Intacto'
<1>1. loc'[h] = l /\ \A g \in Hilos \ {h} : loc'[g] = loc[g]
  BY DelHilo, EfectoDeIr
<1>2. \A g \in Hilos : PendSano(loc'[g].pend)
  BY <1>1 DEF Intacto
<1>3. logico \in [Archivos -> [Pagina -> Enlace]]
  BY DelHilo DEF DiscoOK
<1>4. \A g \in Archivos, q \in Pagina : logico'[g][q] \in Bloque \cup {Nadie}
  BY <1>3 DEF Intacto
<1> QED
  BY <1>2, <1>4 DEF Intacto, PendSano

\* Block b is not block 0, so its inode may be written.
LEMMA IntactoEscribir ==
  ASSUME InvBloques, Intacto, NEW h \in Hilos, NEW paso, NEW l, Ir(h, paso, l), PendSano(l.pend),
         NEW b \in Bloque \ {0}, NEW c, dato' = [dato EXCEPT ![b] = c], UNCHANGED <<logico, nodo>>
  PROVE  Intacto'
<1>1. loc'[h] = l /\ \A g \in Hilos \ {h} : loc'[g] = loc[g]
  BY DelHilo, EfectoDeIr
<1>2. \A g \in Hilos : PendSano(loc'[g].pend)
  BY <1>1 DEF Intacto
<1>3. dato'[0] = dato[0]
  BY DelHilo DEF DiscoOK
<1> QED
  BY <1>2, <1>3 DEF Intacto, PendSano

LEMMA PendSanoInicial == PendSano(SinLocales.pend)
BY DEF PendSano, SinLocales

\* What the steps of an operation leave of the pending writes.
LEMMA PendDe ==
  ASSUME InvBloques, NEW h \in Hilos
  PROVE  /\ \A n : [loc[h] EXCEPT !.pag = n].pend = loc[h].pend
         /\ \A n : [loc[h] EXCEPT !.nuevo = n].pend = loc[h].pend
         /\ \A c : [loc[h] EXCEPT !.cola = c, !.nuevo = 0].pend = loc[h].pend
         /\ \A s, m : [loc[h] EXCEPT !.lista = s, !.modif = m].pend = loc[h].pend
         /\ \A m : [loc[h] EXCEPT !.modif = m].pend = loc[h].pend
         /\ \A x : [loc[h] EXCEPT !.idx = x].pend = loc[h].pend
BY DelHilo DEF Locales

-------------------------------------------------------------------------------
LEMMA IntactoBreves ==
  ASSUME InvBloques, Intacto, NEW h \in Hilos,
         Crear(h) \/ CrearMeta(h) \/ Leer(h) \/ Truncar(h) \/ TruncMeta(h) \/ Tag(h) \/ TagMeta(h)
         \/ CommitEstado(h) \/ CommitPersistir(h) \/ TerminarEscritura(h)
  PROVE  Intacto'
<1>1. UNCHANGED <<logico, nodo, dato>>
  BY DEF Crear, CrearMeta, Leer, Truncar, TruncMeta, Tag, TagMeta, CommitEstado, CommitPersistir,
     TerminarEscritura, Falla, PonerMeta, PersistirBitmap, disco
<1>2. \A n : PendSano([SinLocales EXCEPT !.pag = n].pend)
  BY DEF PendSano, SinLocales
<1>3. \A r : Resultado(h, r) => Ir(h, "responder", SinLocales)
  BY DEF Resultado
<1>4. Falla(h) => Ir(h, "responder", SinLocales)
  BY DEF Falla, Resultado
<1>5. CASE \E paso : Ir(h, paso, SinLocales)
  BY <1>1, <1>5, PendSanoInicial, IntactoQuieto
<1>6. CASE \E paso, n : Ir(h, paso, [SinLocales EXCEPT !.pag = n])
  BY <1>1, <1>2, <1>6, IntactoQuieto
<1>7. CASE Truncar(h)
  <2>1. \/ Falla(h)
        \/ Ir(h, "trunc_crecer", [SinLocales EXCEPT !.pag = meta[pedido[h].f].tam])
        \/ Ir(h, "trunc_bajar", [SinLocales EXCEPT !.pag = meta[pedido[h].f].tam - 1])
        \/ Ir(h, "trunc_meta", SinLocales)
    BY <1>7 DEF Truncar
  <2> QED
    BY <1>4, <1>5, <1>6, <2>1
<1>8. CASE ~Truncar(h)
  <2>1. \E paso : Ir(h, paso, SinLocales)
    BY <1>3, <1>4, <1>8 DEF Crear, CrearMeta, Leer, TruncMeta, Tag, TagMeta, CommitEstado,
       CommitPersistir, TerminarEscritura
  <2> QED
    BY <1>5, <2>1
<1> QED
  BY <1>7, <1>8
LEMMA IntactoTruncar ==
  ASSUME InvBloques, Intacto, NEW h \in Hilos,
         TruncCrecer(h) \/ TruncBajar(h) \/ TruncStat(h) \/ TruncLiberar(h)
  PROVE  Intacto'
<1>1. PendSano(loc[h].pend) /\ \A n : PendSano([loc[h] EXCEPT !.pag = n].pend)
  BY PendDe DEF Intacto
<1>2. CASE TruncCrecer(h)
  <2>1. CASE Falla(h)
    BY <2>1, PendSanoInicial, IntactoQuieto DEF Falla, Resultado, disco
  <2>2. CASE ~Falla(h)
    <3>1. /\ Enlazar(pedido[h].f, loc[h].pag, nodo[0])
          /\ \E paso : Ir(h, paso, [loc[h] EXCEPT !.pag = loc[h].pag + 1])
      BY <1>2, <2>2 DEF TruncCrecer
    <3>2. nodo[0] \in Bloque \cup {Nadie}
      BY BloquesAssumption DEF Intacto, Bloque
    <3> QED
      BY <1>1, <3>1, <3>2, IntactoEnlazar DEF Enlazar
  <2> QED
    BY <2>1, <2>2
<1>3. CASE TruncBajar(h)
  <2>1. Enlazar(pedido[h].f, loc[h].pag, Nadie) /\ Ir(h, "trunc_stat", loc[h])
    BY <1>3 DEF TruncBajar
  <2> QED
    BY <1>1, <2>1, IntactoEnlazar DEF Enlazar
<1>4. CASE TruncStat(h) \/ TruncLiberar(h)
  <2>1. UNCHANGED <<logico, nodo, dato>>
    BY <1>4 DEF TruncStat, TruncLiberar, PonerBitmap, disco
  <2>2. \/ \E paso : Ir(h, paso, loc[h])
        \/ \E paso : Ir(h, paso, [loc[h] EXCEPT !.pag = loc[h].pag - 1])
    BY <1>4 DEF TruncStat, TruncLiberar, TruncSigue
  <2> QED
    BY <1>1, <2>1, <2>2, IntactoQuieto
<1> QED
  BY <1>2, <1>3, <1>4

LEMMA IntactoTagLink ==
  ASSUME InvBloques, Intacto, NEW h \in Hilos, TagLink(h)
  PROVE  Intacto'
<1>1. /\ Enlazar(pedido[h].d, loc[h].pag, logico[pedido[h].f][loc[h].pag])
      /\ \/ \E paso : Ir(h, paso, SinLocales)
         \/ \E paso : Ir(h, paso, [loc[h] EXCEPT !.pag = loc[h].pag + 1])
  BY DEF TagLink, Resultado
<1>2. logico[pedido[h].f][loc[h].pag] \in Bloque \cup {Nadie}
  <2>1. EnTag(h) /\ pc[h] = "tag_link"
    BY DEF TagLink, EnTag
  <2>2. pedido[h].f \in Archivos
    BY <2>1, DelPedido
  <2>3. loc[h].pag \in Pagina
    BY <2>1, DelHilo, CamposDe, BloquesAssumption DEF CursoOK, Pagina
  <2> QED
    BY <2>2, <2>3 DEF Intacto
<1>3. PendSano(loc[h].pend) /\ \A n : PendSano([loc[h] EXCEPT !.pag = n].pend)
  BY PendDe DEF Intacto
<1> QED
  BY <1>1, <1>2, <1>3, PendSanoInicial, IntactoEnlazar DEF Enlazar

-------------------------------------------------------------------------------
(* FLUSH and WRITE_BLOCK *)

LEMMA PendSanoTail ==
  ASSUME NEW s \in Seq(Pagina \X Bloque \X Contenidos), PendSano(s), s # <<>>
  PROVE  PendSano(Tail(s)) /\ Head(s)[2] \in Bloque \ {0}
<1>1. Tail(s) \in Seq(Pagina \X Bloque \X Contenidos) /\ Len(Tail(s)) = Len(s) - 1
      /\ \A i \in 1..Len(Tail(s)) : Tail(s)[i] = s[i + 1]
  BY HeadTailProperties
<1>2. 1 \in DOMAIN s /\ Head(s) = s[1] /\ s[1] \in Pagina \X Bloque \X Contenidos
  BY ElementOfSeq
<1>3. Len(s) \in Nat /\ DOMAIN s = 1..Len(s) /\ DOMAIN Tail(s) = 1..Len(Tail(s))
  BY <1>1
<1>4. \A i \in 1..Len(Tail(s)) : i + 1 \in DOMAIN s
  BY <1>1, <1>3
<1> QED
  BY <1>1, <1>2, <1>3, <1>4 DEF PendSano

LEMMA PendSanoMas ==
  ASSUME NEW s \in Seq(Pagina \X Bloque \X Contenidos), PendSano(s),
         NEW p \in Pagina, NEW b \in Bloque \ {0}, NEW c \in Contenidos
  PROVE  PendSano(Append(s, <<p, b, c>>))
<1>1. <<p, b, c>> \in Pagina \X Bloque \X Contenidos
  OBVIOUS
<1>2. /\ Append(s, <<p, b, c>>) \in Seq(Pagina \X Bloque \X Contenidos)
      /\ Len(Append(s, <<p, b, c>>)) = Len(s) + 1
      /\ \A i \in 1..Len(s) : Append(s, <<p, b, c>>)[i] = s[i]
      /\ Append(s, <<p, b, c>>)[Len(s) + 1] = <<p, b, c>>
  BY <1>1, AppendProperties
<1> QED
  BY <1>2 DEF PendSano

\* Without DELETE, every linked inode has its physical name: no page is written in place.
LEMMA NuncaUnico ==
  ASSUME Intacto, NEW f \in Archivos, NEW p \in Pagina, logico[f][p] # Nadie
  PROVE  ~Unico(logico[f][p])
<1>1. logico[f][p] \in Bloque /\ nodo[logico[f][p]] = logico[f][p]
  BY DEF Intacto
<1>2. Enlaces(logico[f][p]) >= 2
  BY <1>1, DosEnlaces
<1> QED
  BY <1>2 DEF Unico
\* A block with its name in place is copied over the inode of the new block.
LEMMA CopiaEnSuNodo ==
  ASSUME InvBloques, Intacto, NEW h \in Hilos, Copiar(h)
  PROVE  /\ loc[h].nuevo \in Bloque \ {0}
         /\ \E c : dato' = [dato EXCEPT ![loc[h].nuevo] = c]
         /\ UNCHANGED <<meta, logico, nodo, indice, bitmapDisco, leido, bitmap, ok>>
         /\ Ir(h, "desenlazar", loc[h])
<1> DEFINE b == BloqueDe(pedido[h].f, EnCurso(h)[1])
           c == loc[h].nuevo
<1>1. EnEscritura(h) /\ pc[h] = "copiar"
  BY DEF Copiar, EnEscritura
<1>2. DiscoOK /\ CursoOK(h) /\ loc[h] \in Locales /\ pedido[h].f \in Archivos
  BY <1>1, EnLaEscritura
<1>3. c \in Bloque \ {0} /\ EnCurso(h)[1] \in Nat
  BY <1>1, <1>2, CamposDe, BloquesAssumption DEF CursoOK, Pagina
<1>4. b \in Bloque
  BY <1>2, <1>3, BloqueDeEs
<1>5. nodo[b] = b /\ nodo[c] = c /\ b # Nadie /\ c # Nadie
  BY <1>3, <1>4, BloquesAssumption DEF Intacto, Bloque
<1>6. NodoParaEscribir(c) = c
  BY <1>5 DEF NodoParaEscribir
<1>7. /\ nodo' = [nodo EXCEPT ![c] = c]
      /\ dato' = [dato EXCEPT ![c] = IF nodo[b] \in {Nadie, c} THEN Vacio ELSE dato[nodo[b]]]
      /\ UNCHANGED <<meta, logico, indice, bitmapDisco, leido, bitmap, ok>>
      /\ Ir(h, "desenlazar", loc[h])
  BY <1>5, <1>6 DEF Copiar
<1>8. nodo' = nodo
  BY <1>3, <1>5, <1>7, <1>2 DEF DiscoOK
<1> QED
  BY <1>3, <1>7, <1>8

LEMMA IntactoEscritura ==
  ASSUME InvBloques, Intacto, NEW h \in Hilos,
         \/ Flush(h) \/ EscribirBloque(h) \/ PrepararPagina(h) \/ Copiar(h) \/ Desenlazar(h)
         \/ Reenlazar(h) \/ GuardarBlocks(h)
  PROVE  Intacto'
<1> DEFINE f == pedido[h].f
           p == EnCurso(h)[1]
<1>1. PendSano(loc[h].pend) /\ loc[h] \in Locales /\ loc[h].pend \in Seq(Pagina \X Bloque \X Contenidos)
  BY DelHilo, CamposDe DEF Intacto
<1>2. CASE Flush(h) \/ EscribirBloque(h)
  <2>1. /\ UNCHANGED <<logico, nodo, dato>>
        /\ \/ Ir(h, "responder", SinLocales)
           \/ Ir(h, "pagina", [SinLocales EXCEPT !.cola = pedido[h].paginas])
    BY <1>2 DEF Flush, EscribirBloque, Escribir, Falla, Resultado, disco
  <2>2. PendSano([SinLocales EXCEPT !.cola = pedido[h].paginas].pend)
    BY DEF PendSano, SinLocales
  <2> QED
    BY <2>1, <2>2, PendSanoInicial, IntactoQuieto
<1>3. ASSUME Saltear(h) PROVE \E l : Ir(h, "pagina", l) /\ PendSano(l.pend)
  <2>1. Ir(h, "pagina", [loc[h] EXCEPT !.cola = Tail(loc[h].cola), !.nuevo = 0])
    BY <1>3 DEF Saltear
  <2> QED
    BY <1>1, <2>1, PendDe
<1>4. ASSUME NEW b \in Bloque \ {0}, p \in Pagina, loc[h].cola # <<>>
      PROVE  PendSano(ConPendiente(h, b).pend)
  <2>1. EnCurso(h)[2] \in Contenidos
    BY <1>1, <1>4, EnCursoEs
  <2>2. ConPendiente(h, b).pend = Append(loc[h].pend, <<p, b, EnCurso(h)[2]>>)
    BY <1>1 DEF ConPendiente, Locales
  <2> QED
    BY <1>1, <1>4, <2>1, <2>2, PendSanoMas
<1>5. CASE PrepararPagina(h)
  <2>1. UNCHANGED <<logico, nodo, dato>>
    BY <1>5 DEF PrepararPagina, PonerBitmap, disco
  <2>2. EnEscritura(h) /\ loc[h].cola # <<>>
    BY <1>5 DEF PrepararPagina, EnEscritura
  <2>3. f \in Archivos /\ p \in Nat /\ DiscoOK
    BY <1>1, <2>2, EnLaEscritura, EnCursoEs
  <2>4. Legible(f, p) => ~Unico(logico[f][p])
    BY <2>3, LegibleEs, NuncaUnico DEF Legible
  <2>5. CASE Saltear(h)
    BY <1>3, <2>1, <2>5, IntactoQuieto
  <2>6. CASE Ir(h, "copiar", [loc[h] EXCEPT !.nuevo = PrimerLibre])
    BY <1>1, <2>1, <2>6, PendDe, IntactoQuieto
  <2> QED
    BY <1>5, <2>4, <2>5, <2>6 DEF PrepararPagina
<1>6. CASE Copiar(h)
  BY <1>1, <1>6, CopiaEnSuNodo, IntactoEscribir
<1>7. CASE Desenlazar(h)
  <2>1. Enlazar(f, p, Nadie) /\ Ir(h, "enlazar", loc[h])
    BY <1>7 DEF Desenlazar
  <2> QED
    BY <1>1, <2>1, IntactoEnlazar DEF Enlazar
<1>8. CASE Reenlazar(h)
  <2>1. EnEscritura(h) /\ pc[h] = "enlazar"
    BY <1>8 DEF Reenlazar, EnEscritura
  <2>2. loc[h].cola # <<>> /\ p \in Pagina /\ loc[h].nuevo \in Bloque \ {0}
    BY <1>1, <2>1, EnLaEscritura, CamposDe DEF CursoOK
  <2>3. nodo[loc[h].nuevo] = loc[h].nuevo /\ loc[h].nuevo # Nadie
    BY <2>2, BloquesAssumption DEF Intacto, Bloque
  <2>4. Enlazar(f, p, loc[h].nuevo) /\ Ir(h, "pagina", ConPendiente(h, loc[h].nuevo))
    BY <1>8, <2>3 DEF Reenlazar
  <2> QED
    BY <1>4, <2>2, <2>4, IntactoEnlazar DEF Enlazar
<1>9. CASE GuardarBlocks(h)
  <2>1. UNCHANGED <<logico, nodo, dato>> /\ Ir(h, "escribir", loc[h])
    BY <1>9 DEF GuardarBlocks, PonerMeta
  <2> QED
    BY <1>1, <2>1, IntactoQuieto
<1> QED
  BY <1>2, <1>5, <1>6, <1>7, <1>8, <1>9

LEMMA IntactoEscribirPendiente ==
  ASSUME InvBloques, Intacto, NEW h \in Hilos, EscribirPendiente(h)
  PROVE  Intacto'
<1> DEFINE e == Head(loc[h].pend)
<1>1. loc[h] \in Locales /\ PendSano(loc[h].pend) /\ loc[h].pend \in Seq(Pagina \X Bloque \X Contenidos)
  BY DelHilo, CamposDe DEF Intacto
<1>2. PendSano(Tail(loc[h].pend)) /\ e[2] \in Bloque \ {0}
  BY <1>1, PendSanoTail DEF EscribirPendiente
<1>3. nodo[e[2]] = e[2] /\ e[2] # Nadie
  BY <1>2, BloquesAssumption DEF Intacto, Bloque
<1>4. /\ dato' = [dato EXCEPT ![e[2]] = e[3]] /\ UNCHANGED <<logico, nodo>>
      /\ Ir(h, "escribir", [loc[h] EXCEPT !.pend = Tail(loc[h].pend)])
  BY <1>3 DEF EscribirPendiente
<1>5. PendSano([loc[h] EXCEPT !.pend = Tail(loc[h].pend)].pend)
  BY <1>1, <1>2 DEF Locales
<1> HIDE DEF e
<1> QED
  BY <1>2, <1>4, <1>5, IntactoEscribir
-------------------------------------------------------------------------------
(* COMMIT *)

LEMMA IntactoCommit ==
  ASSUME InvBloques, Intacto, NEW h \in Hilos,
         Commit(h) \/ DedupBit(h) \/ DedupPersistir(h) \/ DedupGuardar(h)
  PROVE  Intacto'
<1>1. UNCHANGED <<logico, nodo, dato>>
  BY DEF Commit, DedupBit, DedupPersistir, DedupGuardar, Falla, PonerBitmap, PersistirBitmap, disco
<1>2. \/ \E paso : Ir(h, paso, SinLocales)
      \/ \E s, x : Ir(h, "dedup_pag", [SinLocales EXCEPT !.lista = s, !.idx = x])
      \/ \E paso : Ir(h, paso, loc[h])
      \/ \E n : Ir(h, "dedup_pag", [loc[h] EXCEPT !.pag = n])
  BY DEF Commit, DedupBit, DedupPersistir, DedupGuardar, Falla, Resultado, DedupSigue
<1>3. /\ \A s, x : PendSano([SinLocales EXCEPT !.lista = s, !.idx = x].pend)
      /\ PendSano(loc[h].pend) /\ \A n : PendSano([loc[h] EXCEPT !.pag = n].pend)
  BY PendDe DEF Intacto, PendSano, SinLocales
<1> QED
  BY <1>1, <1>2, <1>3, PendSanoInicial, IntactoQuieto

LEMMA IntactoDedup ==
  ASSUME InvBloques, Intacto, NEW h \in Hilos, DedupPag(h) \/ DedupLink(h)
  PROVE  Intacto'
<1> DEFINE f == pedido[h].f
           p == loc[h].pag
<1>1. EnCommit(h) /\ PendSano(loc[h].pend) /\ loc[h] \in Locales
  BY DelHilo DEF Intacto, DedupPag, DedupLink, EnCommit, PasosDedup
<1>2. CASE DedupPag(h)
  <2>1. \/ /\ UNCHANGED <<logico, nodo, dato>>
           /\ \/ DedupSigue(h, loc[h])
              \/ \E c, b : DedupSigue(h, [loc[h] EXCEPT !.idx[c] = b])
              \/ DedupSigue(h, [loc[h] EXCEPT !.modif = TRUE])
        \/ /\ Enlazar(f, p, Nadie)
           /\ \E e : Ir(h, "dedup_link", [loc[h] EXCEPT !.lista[p + 1] = e, !.modif = TRUE])
    BY <1>2 DEF DedupPag, disco
  <2>2. /\ PendSano([loc[h] EXCEPT !.pag = @ + 1].pend)
        /\ \A c, b : PendSano([[loc[h] EXCEPT !.idx[c] = b] EXCEPT !.pag = @ + 1].pend)
        /\ PendSano([[loc[h] EXCEPT !.modif = TRUE] EXCEPT !.pag = @ + 1].pend)
        /\ \A e : PendSano([loc[h] EXCEPT !.lista[p + 1] = e, !.modif = TRUE].pend)
    BY <1>1 DEF Locales
  <2>3. ASSUME UNCHANGED <<logico, nodo, dato>>,
               \/ DedupSigue(h, loc[h])
               \/ \E c, b : DedupSigue(h, [loc[h] EXCEPT !.idx[c] = b])
               \/ DedupSigue(h, [loc[h] EXCEPT !.modif = TRUE])
        PROVE  Intacto'
    BY <2>2, <2>3, IntactoQuieto DEF DedupSigue
  <2>4. ASSUME Enlazar(f, p, Nadie),
               \E e : Ir(h, "dedup_link", [loc[h] EXCEPT !.lista[p + 1] = e, !.modif = TRUE])
        PROVE  Intacto'
    BY <2>2, <2>4, IntactoEnlazar DEF Enlazar
  <2> QED
    BY <2>1, <2>3, <2>4
<1>3. CASE DedupLink(h)
  <2>1. pc[h] = "dedup_link"
    BY <1>3 DEF DedupLink
  <2>2. /\ CursoOK(h) /\ meta[f].blocks \in Seq(Bloque) /\ loc[h].lista \in Seq(Bloque)
        /\ p \in Nat
    BY <1>1, EnElCommit, CamposDe
  <2>3. p < Len(meta[f].blocks) /\ Len(loc[h].lista) = Len(meta[f].blocks)
    BY <2>1, <2>2 DEF CursoOK, Largo, PasosDedup
  <2>4. p + 1 \in 1..Len(meta[f].blocks)
    BY <2>2, <2>3
  <2>5. meta[f].blocks[p + 1] \in Bloque /\ loc[h].lista[p + 1] \in Bloque
    BY <2>2, <2>3, <2>4
  <2>6. nodo[loc[h].lista[p + 1]] = loc[h].lista[p + 1] /\ loc[h].lista[p + 1] # Nadie
    BY <2>5, BloquesAssumption DEF Intacto, Bloque
  <2>7. Enlazar(f, p, loc[h].lista[p + 1]) /\ Ir(h, "dedup_bit", loc[h])
    BY <1>3, <2>6 DEF DedupLink
  <2> QED
    BY <1>1, <2>5, <2>7, IntactoEnlazar DEF Enlazar
<1> QED
  BY <1>2, <1>3

-------------------------------------------------------------------------------
LEMMA SinOperacionDelete ==
  ASSUME InvBloques, SinDelete, NEW h \in Hilos
  PROVE  ~(\/ Eliminar(h) \/ DelUnlink(h) \/ DelStat(h) \/ DelFisico(h) \/ DelBit(h)
           \/ DelPersistir(h) \/ DelRm(h))
<1>1. ~EnDelete(h)
  BY SinHilosEnDelete
<1>2. ~Eliminar(h)
  <2>1. Eliminar(h) => pc[h] # "libre" /\ pedido[h].op = "DELETE"
    BY DEF Eliminar, Empieza
  <2> QED
    BY <2>1, DelPedido DEF SinDelete
<1> QED
  BY <1>1, <1>2 DEF EnDelete, DelUnlink, DelStat, DelFisico, DelBit, DelPersistir, DelRm

LEMMA IntactoOperacion ==
  ASSUME InvBloques, SinDelete, Intacto, NEW h \in Hilos, Operacion(h)
  PROVE  Intacto'
<1>1. ~(\/ Eliminar(h) \/ DelUnlink(h) \/ DelStat(h) \/ DelFisico(h) \/ DelBit(h)
        \/ DelPersistir(h) \/ DelRm(h))
  BY SinOperacionDelete
<1>2. CASE \/ Crear(h) \/ CrearMeta(h) \/ Leer(h) \/ Truncar(h) \/ TruncMeta(h) \/ Tag(h) \/ TagMeta(h)
           \/ CommitEstado(h) \/ CommitPersistir(h) \/ TerminarEscritura(h)
  BY <1>2, IntactoBreves
<1>3. CASE TruncCrecer(h) \/ TruncBajar(h) \/ TruncStat(h) \/ TruncLiberar(h) \/ TagLink(h)
  BY <1>3, IntactoTruncar, IntactoTagLink
<1>4. CASE \/ Flush(h) \/ EscribirBloque(h) \/ PrepararPagina(h) \/ Copiar(h) \/ Desenlazar(h)
           \/ Reenlazar(h) \/ GuardarBlocks(h) \/ EscribirPendiente(h)
  BY <1>4, IntactoEscritura, IntactoEscribirPendiente
<1>5. CASE \/ Commit(h) \/ DedupBit(h) \/ DedupPersistir(h) \/ DedupGuardar(h) \/ DedupPag(h)
           \/ DedupLink(h)
  BY <1>5, IntactoCommit, IntactoDedup
<1> QED
  BY <1>1, <1>2, <1>3, <1>4, <1>5 DEF Operacion

LEMMA EntornoIgual ==
  ASSUME NEW h \in Hilos, Operacion(h)
  PROVE  UNCHANGED entorno
<1>1. \A paso, l : Ir(h, paso, l) => UNCHANGED entorno
  BY DEF Ir
<1>2. (\E r : Resultado(h, r)) \/ Falla(h) \/ Saltear(h) => UNCHANGED entorno
  BY <1>1 DEF Resultado, Falla, Saltear
<1>3. TruncSigue(h) \/ (\E l : DedupSigue(h, l)) \/ (\E a, b : DelSigue(h, a, b)) => UNCHANGED entorno
  BY <1>1 DEF TruncSigue, DedupSigue, DelSigue
<1>4. CASE Crear(h) \/ CrearMeta(h) \/ Leer(h) \/ Tag(h) \/ TagMeta(h) \/ TagLink(h)
  BY <1>1, <1>2, <1>4 DEF Crear, CrearMeta, Leer, Tag, TagMeta, TagLink
<1>5. CASE Truncar(h) \/ TruncCrecer(h) \/ TruncBajar(h) \/ TruncStat(h) \/ TruncLiberar(h)
           \/ TruncMeta(h)
  BY <1>1, <1>2, <1>3, <1>5 DEF Truncar, TruncCrecer, TruncBajar, TruncStat, TruncLiberar, TruncMeta
<1>6. CASE \/ Flush(h) \/ EscribirBloque(h) \/ PrepararPagina(h) \/ Copiar(h) \/ Desenlazar(h)
           \/ Reenlazar(h) \/ GuardarBlocks(h) \/ EscribirPendiente(h) \/ TerminarEscritura(h)
  BY <1>1, <1>2, <1>6 DEF Flush, EscribirBloque, Escribir, PrepararPagina, Copiar, Desenlazar,
     Reenlazar, GuardarBlocks, EscribirPendiente, TerminarEscritura
<1>7. CASE \/ Commit(h) \/ DedupPag(h) \/ DedupLink(h) \/ DedupBit(h) \/ DedupPersistir(h)
           \/ DedupGuardar(h) \/ CommitEstado(h) \/ CommitPersistir(h)
  BY <1>1, <1>2, <1>3, <1>7 DEF Commit, DedupPag, DedupLink, DedupBit, DedupPersistir,
     DedupGuardar, CommitEstado, CommitPersistir
<1>8. CASE \/ Eliminar(h) \/ DelUnlink(h) \/ DelStat(h) \/ DelFisico(h) \/ DelBit(h)
           \/ DelPersistir(h) \/ DelRm(h)
  BY <1>1, <1>2, <1>3, <1>8 DEF Eliminar, DelUnlink, DelStat, DelFisico, DelBit, DelPersistir, DelRm
<1> QED
  BY <1>4, <1>5, <1>6, <1>7, <1>8 DEF Operacion

LEMMA IntactoAlInicio == Init => Intacto
<1> SUFFICES ASSUME Init PROVE Intacto
  OBVIOUS
<1>1. 0 \in Bloque /\ 0 \in Nodo
  BY BloquesAssumption DEF Bloque, Nodo
<1>2. \A f \in Archivos, p \in Pagina : logico[f][p] \in Bloque \cup {Nadie}
  BY <1>1 DEF Init
<1> QED
  BY <1>1, <1>2, PendSanoInicial DEF Init, Intacto

LEMMA IntactoPaso == InvIntacto /\ [Next]_vars => InvIntacto'
<1> SUFFICES ASSUME InvIntacto, [Next]_vars PROVE InvIntacto'
  OBVIOUS
<1>1. InvBloques /\ InvBloques'
  BY BloquesPaso DEF InvIntacto
<1>2. mezcla' = mezcla
  <2>1. ASSUME NEW h \in Hilos, Operacion(h) PROVE mezcla' = mezcla
    BY <2>1, EntornoIgual DEF entorno
  <2> QED
    BY <2>1 DEF Next, Pedir, Responder, Caer, vars, entorno
<1>3. SinDelete' => SinDelete
  BY <1>2 DEF SinDelete
<1>4. ASSUME SinDelete PROVE Intacto'
  <2>1. Intacto
    BY <1>4 DEF InvIntacto
  <2>2. CASE \E h \in Hilos : Operacion(h)
    BY <1>1, <1>4, <2>1, <2>2, IntactoOperacion
  <2>3. CASE \E h \in Hilos : Pedir(h) \/ Responder(h)
    BY <2>1, <2>3 DEF Intacto, PendSano, Pedir, Responder, disco, entorno
  <2>4. CASE Caer
    BY <2>1, <2>4, PendSanoInicial DEF Intacto, PendSano, Caer, disco
  <2>5. CASE UNCHANGED vars
    BY <2>1, <2>5 DEF Intacto, PendSano, vars, disco
  <2> QED
    BY <2>2, <2>3, <2>4, <2>5 DEF Next
<1> QED
  BY <1>1, <1>3, <1>4 DEF InvIntacto

\* Every physical name stays where it was formatted until the first DELETE.
THEOREM IntactoSiempre == Spec => []InvIntacto
<1>1. Init => InvIntacto
  BY BloquesAlInicio, IntactoAlInicio DEF InvIntacto
<1> QED
  BY <1>1, IntactoPaso, PTL DEF Spec

\* Block 0 is never written while no file:tag is deleted: a FLUSH or WRITE_BLOCK of a page that
\* links it copies it first, whatever other threads and crashes do (escribir_bloque).
THEOREM BloqueCeroNuncaEscrito == Spec => []BloqueCeroIntacto
<1>1. InvIntacto => BloqueCeroIntacto
  BY BloquesAssumption DEF InvIntacto, Intacto, BloqueCeroIntacto, Bloque
<1> QED
  BY <1>1, IntactoSiempre, PTL
-------------------------------------------------------------------------------
(***************************************************************************)
(* BLOCKS names the links.  As long as Storage has not crashed and a FLUSH *)
(* brings one page, each operation that moves a link moves BLOCKS too      *)
(* before it releases the mutex; it stops halfway when Storage crashes,    *)
(* and when a FLUSH of several pages finds no free block for one after it  *)
(* moved another.  What lies between the two (EnObra) is followed step by  *)
(* step; that it ends well needs that no physical name is ever missing     *)
(* (Intacto) and that the pages TRUNCATE adds have no link (ArchivoOK).    *)
(***************************************************************************)
DeAUna == \A p \in mezcla : p.op \in {"FLUSH", "WRITE"} => Len(p.paginas) <= 1

\* The links of a file:tag to the first k blocks of B, block 0 for those that B lacks.
Links(B, k) == [p \in Pagina |-> IF p < k THEN (IF p < Len(B) THEN B[p + 1] ELSE 0) ELSE Nadie]
Completos(B) == Links(B, Len(B))
\* The same, but for the link of page p.
Salvo(B, p, n) == [Completos(B) EXCEPT ![p] = n]
Fiel(f) == logico[f] = Completos(meta[f].blocks)

\* h is between a change of the links of f and that of BLOCKS.
EnObra(h, f) ==
    \/ /\ pedido[h].f = f
       /\ \/ EnTruncate(h) \/ pc[h] \in PasosDedup \cup {"enlazar"}
          \/ pc[h] = "pagina" /\ loc[h].pend # <<>>
    \/ pc[h] = "tag_link" /\ pedido[h].d = f

ObraCrear(h) == pc[h] = "crear_meta" => ~ConMetadata(pedido[h].f)

ObraTag(h) == LET f == pedido[h].f
                  d == pedido[h].d IN
    /\ EnTag(h) => f # d
    /\ pc[h] = "tag_meta" => ~ConMetadata(d)
    /\ pc[h] = "tag_link" =>
          /\ meta[d].blocks = meta[f].blocks
          /\ logico[d] = [p \in Pagina |-> IF p < loc[h].pag THEN logico[f][p] ELSE Nadie]

ObraTruncar(h) == LET f == pedido[h].f
                      B == meta[f].blocks IN
    /\ EnTruncate(h) => ConMetadata(f)
    /\ pc[h] = "trunc_crecer" => Len(B) <= loc[h].pag /\ logico[f] = Links(B, loc[h].pag)
    /\ pc[h] = "trunc_bajar" => loc[h].pag \in Pagina /\ logico[f] = Links(B, loc[h].pag + 1)
    /\ pc[h] \in {"trunc_stat", "trunc_liberar"} =>
          loc[h].pag \in Pagina /\ logico[f] = Links(B, loc[h].pag)
    /\ pc[h] = "trunc_meta" => logico[f] = Links(B, pedido[h].n)

\* One page is written: it is in cola, or in pend when it has its block, or skipped.
ObraEscritura(h) == LET f == pedido[h].f
                        B == meta[f].blocks
                        c == loc[h].cola
                        e == loc[h].pend IN
    /\ pc[h] \in {"pagina", "copiar", "desenlazar", "enlazar"} =>
          /\ c # <<>> => Len(c) = 1 /\ e = <<>> /\ ok[h]
          /\ e # <<>> => /\ Len(e) = 1 /\ ok[h] /\ e[1][1] < Len(B)
                         /\ logico[f] = Salvo(B, e[1][1], e[1][2])
    /\ pc[h] \in {"copiar", "desenlazar", "enlazar"} => EnCurso(h)[1] < Len(B)
    /\ pc[h] = "enlazar" => logico[f] = Salvo(B, EnCurso(h)[1], Nadie)

ObraDedup(h) == LET f == pedido[h].f
                    S == loc[h].lista IN
    pc[h] \in PasosDedup =>
        /\ ~loc[h].modif => pc[h] = "dedup_pag" /\ S = meta[f].blocks
        /\ logico[f] = IF pc[h] = "dedup_link" THEN Salvo(S, loc[h].pag, Nadie)
                       ELSE Completos(S)

ObraOK(h) ==
    /\ pc[h] \in {"libre", "entrar"} => ok[h]
    /\ ObraCrear(h) /\ ObraTag(h) /\ ObraTruncar(h) /\ ObraEscritura(h) /\ ObraDedup(h)

ArchivoOK(f) == /\ f # Base => Len(meta[f].blocks) = meta[f].tam
                /\ ~ConMetadata(f) => meta[f].blocks = <<>>

FielOK == /\ \A f \in Archivos : ArchivoOK(f) /\ (Fiel(f) \/ \E h \in Hilos : EnObra(h, f))
          /\ \A h \in Hilos : ObraOK(h)

Supuestos == SinDelete /\ DeAUna /\ caidas = 0
InvFiel == InvIntacto /\ caidas \in Nat /\ (Supuestos => FielOK)
-------------------------------------------------------------------------------
(* The steps of a thread, whatever they are. *)

LEMMA TieneLaObra ==
  ASSUME InvBloques, NEW h \in Hilos, NEW f, EnObra(h, f)
  PROVE  f \in Tiene(h) /\ f \in Nombrados(pedido[h]) /\ Adentro(h) /\ f \in Archivos /\ f # Base
<1>1. Adentro(h) /\ pc[h] # "libre"
  BY DEF EnObra, Adentro, EnTruncate, PasosDedup
<1>2. OpOK(h) /\ pedido[h].f # Base
  BY <1>1, DelHilo DEF OpOK
<1>3. f \in Nombrados(pedido[h]) /\ f \in Archivos /\ f # Base
  <2>1. CASE pedido[h].f = f
    BY <1>1, <1>2, <2>1, DelPedido
  <2>2. CASE pc[h] = "tag_link" /\ pedido[h].d = f
    <3>1. pedido[h].op = "TAG" /\ pedido[h].d # Base
      BY <1>2, <2>2 DEF OpOK, EnTag
    <3> QED
      BY <1>1, <2>2, <3>1, DelPedido
  <2> QED
    BY <2>1, <2>2 DEF EnObra
<1> QED
  BY <1>1, <1>2, <1>3 DEF Tiene, SinCandado, Adentro

LEMMA ObraDe ==
  ASSUME NEW h \in Hilos, pc'[h] \notin {"libre", "entrar"},
         pc'[h] = "crear_meta" => ObraCrear(h)', EnTag(h)' => ObraTag(h)',
         EnTruncate(h)' => ObraTruncar(h)', EnEscritura(h)' => ObraEscritura(h)',
         pc'[h] \in PasosDedup => ObraDedup(h)'
  PROVE  ObraOK(h)'
<1>1. ObraCrear(h)' /\ ObraDedup(h)'
  BY DEF ObraCrear, ObraDedup
<1>2. ObraTag(h)'
  BY DEF ObraTag, EnTag
<1>3. ObraTruncar(h)'
  BY DEF ObraTruncar, EnTruncate
<1>4. ObraEscritura(h)'
  BY DEF ObraEscritura, EnEscritura
<1> QED
  BY <1>1, <1>2, <1>3, <1>4 DEF ObraOK

\* What a thread has under way depends on nothing but its locals and the file:tags it holds.
LEMMA ObraIgual ==
  ASSUME NEW h \in Hilos, ObraOK(h), pc'[h] = pc[h], loc'[h] = loc[h], pedido'[h] = pedido[h],
         ok'[h] = ok[h],
         Adentro(h) => /\ meta'[pedido[h].f] = meta[pedido[h].f]
                       /\ logico'[pedido[h].f] = logico[pedido[h].f]
                       /\ EnTag(h) => /\ meta'[pedido[h].d] = meta[pedido[h].d]
                                      /\ logico'[pedido[h].d] = logico[pedido[h].d]
  PROVE  ObraOK(h)' /\ \A f : EnObra(h, f)' <=> EnObra(h, f)
<1>1. ASSUME NEW f PROVE EnObra(h, f)' <=> EnObra(h, f)
  <2>1. EnTruncate(h)' <=> EnTruncate(h)
    BY DEF EnTruncate
  <2> QED
    BY <2>1, Zenon DEF EnObra
<1>2. pc'[h] \in {"libre", "entrar"} => ok'[h]
  BY Zenon DEF ObraOK
<1>3. CASE ~Adentro(h)
  <2>1. ObraCrear(h)' /\ ObraTag(h)' /\ ObraTruncar(h)' /\ ObraEscritura(h)' /\ ObraDedup(h)'
    BY <1>3 DEF ObraCrear, ObraTag, ObraTruncar, ObraEscritura, ObraDedup, Adentro, EnTag,
       EnTruncate, PasosDedup
  <2> QED
    BY <1>1, <1>2, <2>1 DEF ObraOK
<1>4. CASE Adentro(h)
  <2>1. ObraCrear(h)' /\ ObraTag(h)'
    BY <1>4 DEF ObraOK, ObraCrear, ObraTag, EnTag, ConMetadata
  <2>2. ObraTruncar(h)'
    BY <1>4 DEF ObraOK, ObraTruncar, EnTruncate, ConMetadata
  <2>3. ObraEscritura(h)'
    <3>1. ObraEscritura(h) /\ EnCurso(h)' = EnCurso(h)
      BY DEF ObraOK, EnCurso
    <3> QED
      BY <1>4, <3>1 DEF ObraEscritura
  <2>4. ObraDedup(h)'
    BY <1>4 DEF ObraOK, ObraDedup
  <2> QED
    BY <1>1, <1>2, <2>1, <2>2, <2>3, <2>4 DEF ObraOK
<1> QED
  BY <1>3, <1>4

\* A step that changes neither BLOCKS nor links.
LEMMA FielQuieto ==
  ASSUME InvBloques, FielOK, NEW h \in Hilos, NEW paso, NEW l, Ir(h, paso, l),
         \A g \in Hilos \ {h} : ok'[g] = ok[g], meta' = meta, logico' = logico,
         \A f \in Archivos : EnObra(h, f) => EnObra(h, f)' \/ Fiel(f), ObraOK(h)'
  PROVE  FielOK'
<1>1. \A g \in Hilos \ {h} : pc'[g] = pc[g] /\ loc'[g] = loc[g] /\ pedido'[g] = pedido[g]
  BY DelHilo, EfectoDeIr
<1>2. ASSUME NEW g \in Hilos \ {h} PROVE ObraOK(g)' /\ \A f : EnObra(g, f)' <=> EnObra(g, f)
  BY <1>1, ObraIgual DEF FielOK
<1>3. ASSUME NEW f \in Archivos PROVE ArchivoOK(f)' /\ (Fiel(f)' \/ \E g \in Hilos : EnObra(g, f)')
  <2>1. ArchivoOK(f) /\ (Fiel(f) \/ \E g \in Hilos : EnObra(g, f))
    BY DEF FielOK
  <2>2. ArchivoOK(f)' /\ Fiel(f)' = Fiel(f)
    BY <2>1 DEF ArchivoOK, Fiel, ConMetadata
  <2> QED
    BY <1>2, <2>1, <2>2
<1> QED
  BY <1>2, <1>3 DEF FielOK

\* A step that changes only the file:tags of its request, whose mutexes the thread holds.
LEMMA FielPaso ==
  ASSUME InvBloques, FielOK, NEW h \in Hilos, Suyos(h), ~SinCandado(pedido[h]),
         NEW paso, NEW l, Ir(h, paso, l), \A g \in Hilos \ {h} : ok'[g] = ok[g],
         \A f \in Archivos \ Nombrados(pedido[h]) : meta'[f] = meta[f] /\ logico'[f] = logico[f],
         \A f \in Nombrados(pedido[h]) : ArchivoOK(f)' /\ (Fiel(f)' \/ EnObra(h, f)'),
         ObraOK(h)'
  PROVE  FielOK'
<1>1. \A g \in Hilos \ {h} : pc'[g] = pc[g] /\ loc'[g] = loc[g] /\ pedido'[g] = pedido[g]
  BY DelHilo, EfectoDeIr
<1>2. ASSUME NEW g \in Hilos \ {h} PROVE ObraOK(g)' /\ \A f : EnObra(g, f)' <=> EnObra(g, f)
  <2>1. ASSUME Adentro(g)
        PROVE  /\ pedido[g].f \in Archivos \ Nombrados(pedido[h])
               /\ EnTag(g) => pedido[g].d \in Archivos \ Nombrados(pedido[h])
    <3>1. pc[g] \notin {"libre", "entrar"} /\ pedido[g].f # Base
      BY <2>1, DelHilo DEF Adentro, OpOK
    <3>2. Tiene(g) = Nombrados(pedido[g]) /\ pedido[g].f \in Nombrados(pedido[g]) /\ pedido[g].f \in Archivos
      BY <3>1, DelPedido DEF Tiene
    <3>3. EnTag(g) => pedido[g].d \in Archivos /\ pedido[g].d \in Nombrados(pedido[g])
      BY <3>1, DelPedido, DelHilo DEF OpOK
    <3>4. Tiene(g) \cap Nombrados(pedido[h]) = {}
      BY DEF Suyos
    <3> QED
      BY <3>2, <3>3, <3>4
  <2> QED
    BY <1>1, <2>1, ObraIgual DEF FielOK
<1>3. ASSUME NEW f \in Archivos PROVE ArchivoOK(f)' /\ (Fiel(f)' \/ \E g \in Hilos : EnObra(g, f)')
  <2>1. CASE f \in Nombrados(pedido[h])
    BY <2>1
  <2>2. CASE f \notin Nombrados(pedido[h])
    <3>1. ArchivoOK(f) /\ (Fiel(f) \/ \E g \in Hilos : EnObra(g, f))
      BY DEF FielOK
    <3>2. ArchivoOK(f)' /\ Fiel(f)' = Fiel(f)
      BY <2>2, <3>1 DEF ArchivoOK, Fiel, ConMetadata
    <3>3. ~EnObra(h, f)
      BY <2>2, TieneLaObra
    <3> QED
      BY <1>2, <3>1, <3>2, <3>3
  <2> QED
    BY <2>1, <2>2
<1> QED
  BY <1>2, <1>3 DEF FielOK
\* The file:tags of a request whose mutexes its thread has are as BLOCKS says, but for
\* what the thread itself has under way.
LEMMA FielEnManos ==
  ASSUME InvBloques, FielOK, NEW h \in Hilos, Suyos(h), ~SinCandado(pedido[h]),
         NEW f \in Archivos, f \in Nombrados(pedido[h]), ~EnObra(h, f)
  PROVE  Fiel(f)
<1>1. \A g \in Hilos \ {h} : f \notin Tiene(g)
  BY DEF Suyos
<1>2. \A g \in Hilos \ {h} : ~EnObra(g, f)
  BY <1>1, TieneLaObra
<1> QED
  BY <1>2 DEF FielOK

LEMMA SinObra ==
  ASSUME InvBloques, NEW h \in Hilos, ~Adentro(h)
  PROVE  \A f : ~EnObra(h, f)
BY TieneLaObra

\* The types of what a request names.
LEMMA DelArchivo ==
  ASSUME InvBloques, FielOK, NEW f \in Archivos
  PROVE  /\ meta \in [Archivos -> Metas] /\ logico \in [Archivos -> [Pagina -> Enlace]]
         /\ meta[f] \in Metas /\ meta[f].blocks \in Seq(Bloque) /\ Len(meta[f].blocks) \in Nat
         /\ logico[f] \in [Pagina -> Enlace] /\ meta[f].tam \in 0..MaxPaginas
         /\ ArchivoOK(f)
         /\ f # Base => Len(meta[f].blocks) = meta[f].tam /\ meta[f].tam <= MaxPaginas
<1>1. DiscoOK
  BY DEF InvBloques
<1>2. meta[f] \in Metas /\ logico[f] \in [Pagina -> Enlace]
  BY <1>1 DEF DiscoOK
<1>3. meta[f].blocks \in Seq(Bloque) /\ Len(meta[f].blocks) \in Nat /\ meta[f].tam \in 0..MaxPaginas
  BY <1>2, SonMetas
<1>4. ArchivoOK(f)
  BY DEF FielOK
<1> QED
  BY <1>1, <1>2, <1>3, <1>4, BloquesAssumption DEF ArchivoOK, DiscoOK

-------------------------------------------------------------------------------
(* The links to the first blocks of a sequence. *)

LEMMA LinksMas ==
  ASSUME NEW B \in Seq(Bloque), NEW k \in Pagina, Len(B) <= k
  PROVE  [Links(B, k) EXCEPT ![k] = 0] = Links(B, k + 1) /\ Links(B, k)[k] = Nadie
<1>1. Len(B) \in Nat /\ k \in Nat /\ Pagina \subseteq Nat
  BY BloquesAssumption DEF Pagina
<1>2. \A p \in Pagina : [Links(B, k) EXCEPT ![k] = 0][p] = Links(B, k + 1)[p]
  BY <1>1 DEF Links
<1>3. [Links(B, k) EXCEPT ![k] = 0] = Links(B, k + 1)
  BY <1>2 DEF Links
<1>4. Links(B, k)[k] = Nadie
  BY <1>1 DEF Links
<1> QED
  BY <1>3, <1>4

LEMMA LinksMenos ==
  ASSUME NEW B \in Seq(Bloque), NEW k \in Pagina
  PROVE  [Links(B, k + 1) EXCEPT ![k] = Nadie] = Links(B, k)
<1>1. k \in Nat /\ Pagina \subseteq Nat
  BY BloquesAssumption DEF Pagina
<1>2. \A p \in Pagina : [Links(B, k + 1) EXCEPT ![k] = Nadie][p] = Links(B, k)[p]
  BY <1>1 DEF Links
<1> QED
  BY <1>2 DEF Links

\* BLOCKS as truncar_file saves it names what it linked.
LEMMA LinksTruncados ==
  ASSUME NEW B \in Seq(Bloque), NEW n \in Nat, NEW S,
         S = [i \in 1..n |-> IF i - 1 < Len(B) THEN B[i - 1 + 1] ELSE 0]
  PROVE  Completos(S) = Links(B, n) /\ Len(S) = n
<1>1. Len(S) = n
  OBVIOUS
<1>2. Pagina \subseteq Nat /\ Len(B) \in Nat
  BY BloquesAssumption DEF Pagina
<1>3. \A p \in Pagina : p < n => S[p + 1] = IF p < Len(B) THEN B[p + 1] ELSE 0
  BY <1>2
<1>4. \A p \in Pagina : Links(S, n)[p] = Links(B, n)[p]
  BY <1>1, <1>2, <1>3 DEF Links
<1> QED
  BY <1>1, <1>4 DEF Completos, Links

\* A page that goes to another block.
LEMMA LinksSalvo ==
  ASSUME NEW B \in Seq(Bloque), NEW p \in Pagina, p < Len(B), NEW x \in Bloque
  PROVE  /\ [B EXCEPT ![p + 1] = x] \in Seq(Bloque) /\ Len([B EXCEPT ![p + 1] = x]) = Len(B)
         /\ Completos([B EXCEPT ![p + 1] = x]) = Salvo(B, p, x)
         /\ Salvo([B EXCEPT ![p + 1] = x], p, Nadie) = Salvo(B, p, Nadie)
<1> DEFINE S == [B EXCEPT ![p + 1] = x]
<1>1. Pagina \subseteq Nat /\ p \in Nat /\ Len(B) \in Nat /\ p + 1 \in 1..Len(B)
  BY BloquesAssumption DEF Pagina
<1>2. S \in Seq(Bloque) /\ Len(S) = Len(B) /\ \A i \in 1..Len(B) : S[i] = IF i = p + 1 THEN x ELSE B[i]
  BY <1>1, ExceptSeq
<1>3. \A q \in Pagina : q < Len(B) => q + 1 \in 1..Len(B)
  BY <1>1
<1> HIDE DEF S
<1>4. \A q \in Pagina : Completos(S)[q] = Salvo(B, p, x)[q]
  BY <1>1, <1>2, <1>3 DEF Completos, Links, Salvo
<1>5. \A q \in Pagina : Salvo(S, p, Nadie)[q] = Salvo(B, p, Nadie)[q]
  BY <1>1, <1>2, <1>3 DEF Completos, Links, Salvo
<1>6. Completos(S) = Salvo(B, p, x) /\ Salvo(S, p, Nadie) = Salvo(B, p, Nadie)
  BY <1>4, <1>5 DEF Completos, Links, Salvo
<1> QED
  BY <1>2, <1>6 DEF S

LEMMA SalvoDeNuevo ==
  ASSUME NEW B, NEW p \in Pagina
  PROVE  /\ \A x, y : [Salvo(B, p, x) EXCEPT ![p] = y] = Salvo(B, p, y)
         /\ [Completos(B) EXCEPT ![p] = Nadie] = Salvo(B, p, Nadie)
BY DEF Completos, Links, Salvo

LEMMA SalvoCompleto ==
  ASSUME NEW B \in Seq(Bloque), NEW p \in Pagina, p < Len(B)
  PROVE  Salvo(B, p, B[p + 1]) = Completos(B)
<1>1. Len(B) \in Nat /\ p \in Nat
  BY BloquesAssumption DEF Pagina
<1>2. \A q \in Pagina : Salvo(B, p, B[p + 1])[q] = Completos(B)[q]
  BY <1>1 DEF Completos, Links, Salvo
<1> QED
  BY <1>2 DEF Completos, Links, Salvo
-------------------------------------------------------------------------------
(* The ends of an operation. *)

\* Where nothing is under way.
LEMMA ObraTranquila ==
  ASSUME NEW h \in Hilos, pc'[h] \in {"responder", "escribir", "commit_estado", "commit_persistir"}
  PROVE  ObraOK(h)'
BY ObraDe DEF ObraEscritura, EnTag, EnTruncate, EnEscritura, PasosDedup

LEMMA ObraAlFinal ==
  ASSUME InvBloques, NEW h \in Hilos, NEW r, Resultado(h, r)
  PROVE  /\ Ir(h, "responder", SinLocales) /\ ObraOK(h)'
         /\ \A g \in Hilos \ {h} : ok'[g] = ok[g]
<1>1. Ir(h, "responder", SinLocales) /\ ok' = [ok EXCEPT ![h] = r]
  BY DEF Resultado
<1>2. ObraOK(h)'
  BY <1>1, DelHilo, EfectoDeIr, ObraTranquila
<1> QED
  BY <1>1, <1>2, DelHilo DEF HilosOK

LEMMA FielResultado ==
  ASSUME InvBloques, FielOK, NEW h \in Hilos, NEW r, Resultado(h, r), meta' = meta, logico' = logico,
         \A f \in Archivos : EnObra(h, f) => Fiel(f)
  PROVE  FielOK'
BY ObraAlFinal, FielQuieto

LEMMA FielFalla ==
  ASSUME InvBloques, FielOK, NEW h \in Hilos, ~Adentro(h), Falla(h)
  PROVE  FielOK'
BY SinObra, FielResultado DEF Falla, disco

LEMMA FielCrear ==
  ASSUME InvBloques, FielOK, NEW h \in Hilos, Crear(h) \/ CrearMeta(h)
  PROVE  FielOK'
<1> DEFINE f == pedido[h].f
           e == meta'[f].estado
<1>1. pc[h] \in {"entrar", "crear_meta"} /\ pedido[h].op = "CREATE" /\ (\A g : ~EnObra(h, g)) /\ Suyos(h)
  <2>1. pc[h] \in {"entrar", "crear_meta"} /\ pedido[h].op = "CREATE" /\ Suyos(h)
    BY SuyosAlEntrar, SuyosAdentro, DelHilo DEF Crear, Empieza, CrearMeta, OpOK
  <2> QED
    BY <2>1 DEF EnObra, EnTruncate, PasosDedup
<1>2. f \in Archivos /\ Nombrados(pedido[h]) = {f} /\ ~SinCandado(pedido[h])
  BY <1>1, DelPedido DEF Nombrados, SinCandado
<1>3. CASE Falla(h)
  BY <1>1, <1>3, FielResultado DEF Falla, disco
<1>4. CASE ~Falla(h)
  <2>1. Fiel(f) /\ ~ConMetadata(f) /\ meta[f].blocks = <<>> /\ meta \in [Archivos -> Metas]
    <3>1. ~ConMetadata(f)
      BY <1>4, DelHilo DEF Crear, CrearMeta, ConMetadata, FielOK, ObraOK, ObraCrear
    <3> QED
      BY <1>1, <1>2, <3>1, FielEnManos, DelArchivo DEF ArchivoOK
  <2>2. /\ \E x \in Estados : meta' = [meta EXCEPT ![f] = [SinMeta EXCEPT !.estado = x]]
        /\ logico' = logico
    BY <1>4 DEF Crear, CrearMeta, PonerMeta, Estados
  <2>3. /\ meta'[f].blocks = <<>> /\ meta'[f].tam = 0
        /\ \A g \in Archivos \ {f} : meta'[g] = meta[g]
    BY <1>2, <2>1, <2>2 DEF SinMeta
  <2>4. ASSUME NEW g \in Nombrados(pedido[h]) PROVE Fiel(g)' /\ ArchivoOK(g)'
    <3>1. g = f /\ meta'[g].blocks = <<>> /\ meta'[g].tam = 0 /\ logico'[g] = logico[g]
      BY <1>2, <2>2, <2>3
    <3>2. Len(<<>>) = 0
      OBVIOUS
    <3> QED
      BY <2>1, <3>1, <3>2 DEF Fiel, ArchivoOK
  <2>5. /\ \E paso : Ir(h, paso, SinLocales)
        /\ ObraOK(h)' /\ \A g \in Hilos \ {h} : ok'[g] = ok[g]
    <3>1. CASE CrearMeta(h)
      BY <3>1, ObraAlFinal DEF CrearMeta
    <3>2. CASE Crear(h)
      <4>1. /\ Ir(h, "crear_meta", SinLocales) /\ ok' = ok
            /\ meta' = [meta EXCEPT ![f] = [SinMeta EXCEPT !.estado = "carpeta"]]
        BY <1>4, <3>2 DEF Crear, PonerMeta
      <4>2. pc'[h] = "crear_meta" /\ pedido' = pedido
        BY <4>1, DelHilo, EfectoDeIr
      <4>3. meta'[f].estado = "carpeta"
        BY <1>2, <2>1, <4>1 DEF SinMeta
      <4>4. ObraCrear(h)'
        BY <4>2, <4>3 DEF ObraCrear, ConMetadata
      <4> QED
        BY <4>1, <4>2, <4>4, ObraDe DEF EnTag, EnTruncate, EnEscritura, PasosDedup
    <3> QED
      BY <3>1, <3>2
  <2> QED
    BY <1>1, <1>2, <2>2, <2>3, <2>4, <2>5, FielPaso
<1> QED
  BY <1>3, <1>4

LEMMA FielLeer ==
  ASSUME InvBloques, FielOK, NEW h \in Hilos, Leer(h)
  PROVE  FielOK'
<1>1. ~Adentro(h)
  BY DEF Leer, Empieza, Adentro
<1>2. \E r : Resultado(h, r)
  BY DEF Leer, Falla
<1>3. meta' = meta /\ logico' = logico
  BY DEF Leer, Falla, disco
<1> QED
  BY <1>1, <1>2, <1>3, SinObra, FielResultado
-------------------------------------------------------------------------------
(* TRUNCATE *)

LEMMA ObraDelTruncate ==
  ASSUME NEW h \in Hilos, EnTruncate(h)', ObraTruncar(h)'
  PROVE  ObraOK(h)' /\ \A f : pedido'[h].f = f => EnObra(h, f)'
<1>1. pc'[h] \in {"trunc_crecer", "trunc_bajar", "trunc_stat", "trunc_liberar", "trunc_meta"}
  BY DEF EnTruncate
<1>2. ~EnTag(h)' /\ ~EnEscritura(h)' /\ pc'[h] \notin PasosDedup
  BY <1>1 DEF EnTag, EnEscritura, PasosDedup
<1>3. ObraOK(h)'
  BY <1>1, <1>2, ObraDe
<1> QED
  BY <1>3 DEF EnObra

LEMMA FielTruncar ==
  ASSUME InvBloques, FielOK, NEW h \in Hilos, Truncar(h)
  PROVE  FielOK'
<1> DEFINE f == pedido[h].f
           n == pedido[h].n
           t == meta[f].tam
           B == meta[f].blocks
<1>1. Empieza(h, "TRUNCATE") /\ ~Adentro(h) /\ pc[h] # "libre" /\ pedido[h].op = "TRUNCATE"
  BY DEF Truncar, Empieza, Adentro
<1>2. CASE Falla(h)
  BY <1>1, <1>2, FielFalla
<1>3. CASE ~Falla(h)
  <2>1. /\ f # Base /\ meta[f].estado = "WORK_IN_PROGRESS" /\ UNCHANGED <<disco, ok>>
        /\ \/ n > t /\ Ir(h, "trunc_crecer", [SinLocales EXCEPT !.pag = t])
           \/ n < t /\ Ir(h, "trunc_bajar", [SinLocales EXCEPT !.pag = t - 1])
           \/ n = t /\ Ir(h, "trunc_meta", SinLocales)
    BY <1>3 DEF Truncar
  <2>2. f \in Archivos /\ f \in Nombrados(pedido[h]) /\ ~SinCandado(pedido[h]) /\ Suyos(h)
        /\ n \in 0..MaxPaginas
    BY <1>1, <2>1, DelPedido, SuyosAlEntrar
  <2>3. /\ Len(B) = t /\ t \in 0..MaxPaginas /\ B \in Seq(Bloque) /\ Fiel(f)
    BY <1>1, <2>1, <2>2, DelArchivo, SinObra, FielEnManos
  <2>4. logico[f] = Links(B, t)
    BY <2>3 DEF Fiel, Completos
  <2>5. n \in Nat /\ t \in Nat /\ (n < t => t - 1 \in Pagina /\ t - 1 + 1 = t)
    BY <2>2, <2>3, BloquesAssumption DEF Pagina
  <2>6. meta' = meta /\ logico' = logico /\ ok' = ok /\ ConMetadata(f)
    BY <2>1 DEF disco, ConMetadata
  <2>7. PICK paso, l :
           /\ Ir(h, paso, l)
           /\ \/ paso = "trunc_crecer" /\ l.pag = t
              \/ paso = "trunc_bajar" /\ l.pag = t - 1 /\ n < t
              \/ paso = "trunc_meta" /\ n = t
    <3>1. \A k : [SinLocales EXCEPT !.pag = k].pag = k
      BY DEF SinLocales
    <3> QED
      BY <2>1, <3>1, ZenonT(40)
  <2>8. pc'[h] = paso /\ loc'[h] = l /\ pedido' = pedido
    BY <2>7, DelHilo, EfectoDeIr
  <2>10. ObraTruncar(h)' /\ EnTruncate(h)'
    <3>1. EnTruncate(h)'
      BY <2>7, <2>8 DEF EnTruncate
    <3>2. ConMetadata(f)' /\ meta'[pedido'[h].f].blocks = B /\ logico'[pedido'[h].f] = Links(B, t)
      BY <2>4, <2>6, <2>8 DEF ConMetadata
    <3> QED
      BY <2>3, <2>5, <2>7, <2>8, <3>1, <3>2 DEF ObraTruncar
  <2> QED
    BY <1>1, <2>6, <2>7, <2>10, SinObra, ObraDelTruncate, FielQuieto
<1> QED
  BY <1>2, <1>3
\* A thread inside an operation that names one file:tag and is not DELETE.
LEMMA FielEnElTruncate ==
  ASSUME InvBloques, FielOK, NEW h \in Hilos, EnTruncate(h)
  PROVE  LET f == pedido[h].f IN
         /\ f \in Archivos \ {Base} /\ Nombrados(pedido[h]) = {f} /\ ~SinCandado(pedido[h])
         /\ Suyos(h) /\ Adentro(h) /\ loc[h] \in Locales /\ loc[h].pag \in Nat
         /\ ObraTruncar(h) /\ ConMetadata(f) /\ CursoOK(h)
         /\ meta[f].blocks \in Seq(Bloque) /\ pedido[h].n \in 0..MaxPaginas /\ pedido[h].n \in Nat
         /\ meta \in [Archivos -> Metas] /\ logico \in [Archivos -> [Pagina -> Enlace]]
         /\ ArchivoOK(f) /\ Len(meta[f].blocks) = meta[f].tam
<1>1. Adentro(h) /\ pedido[h].op = "TRUNCATE" /\ pedido[h].f \in Archivos \ {Base} /\ loc[h].pag \in Nat
      /\ pc[h] # "libre" /\ pedido[h].n \in 0..MaxPaginas /\ pedido[h].n \in Nat
  BY EnElTruncate
<1>2. Suyos(h) /\ loc[h] \in Locales /\ CursoOK(h)
  BY <1>1, SuyosAdentro, DelHilo DEF Adentro
<1>3. ObraTruncar(h) /\ ConMetadata(pedido[h].f)
  BY DEF FielOK, ObraOK, ObraTruncar
<1> QED
  BY <1>1, <1>2, <1>3, DelArchivo DEF Nombrados, SinCandado

\* A step of TRUNCATE that changes one link.
LEMMA FielTruncarEnlace ==
  ASSUME InvBloques, FielOK, NEW h \in Hilos, EnTruncate(h), NEW n \in Enlace,
         Enlazar(pedido[h].f, loc[h].pag, n), NEW paso, NEW l, Ir(h, paso, l), ok' = ok,
         EnTruncate(h)', ObraTruncar(h)'
  PROVE  FielOK'
<1> DEFINE f == pedido[h].f
<1>1. /\ f \in Archivos \ {Base} /\ Nombrados(pedido[h]) = {f} /\ ~SinCandado(pedido[h])
      /\ Suyos(h) /\ logico \in [Archivos -> [Pagina -> Enlace]] /\ ArchivoOK(f)
  BY FielEnElTruncate
<1>2. pedido' = pedido /\ meta' = meta /\ \A g \in Archivos \ {f} : logico'[g] = logico[g]
  BY <1>1, DelHilo, EfectoDeIr DEF Enlazar
<1>3. ASSUME NEW g \in Nombrados(pedido[h]) PROVE ArchivoOK(g)' /\ EnObra(h, g)'
  <2>1. g = f
    BY <1>1
  <2> QED
    BY <1>1, <1>2, <2>1, ObraDelTruncate DEF ArchivoOK, ConMetadata
<1> QED
  BY <1>1, <1>2, <1>3, ObraDelTruncate, FielPaso

LEMMA FielTruncCrecer ==
  ASSUME InvIntacto, Intacto, FielOK, NEW h \in Hilos, TruncCrecer(h)
  PROVE  FielOK'
<1> DEFINE f == pedido[h].f
           p == loc[h].pag
           n == pedido[h].n
           B == meta[f].blocks
           paso == IF p + 1 = n THEN "trunc_meta" ELSE "trunc_crecer"
<1>1. InvBloques /\ EnTruncate(h) /\ pc[h] = "trunc_crecer"
  BY DEF InvIntacto, TruncCrecer, EnTruncate
<1>2. /\ f \in Archivos /\ B \in Seq(Bloque) /\ p \in Nat /\ n \in 0..MaxPaginas /\ n \in Nat
      /\ p < n /\ Len(B) <= p /\ logico[f] = Links(B, p) /\ ConMetadata(f) /\ loc[h] \in Locales
      /\ logico \in [Archivos -> [Pagina -> Enlace]]
  BY <1>1, FielEnElTruncate DEF CursoOK, ObraTruncar
<1>3. p \in Pagina
  BY <1>2, BloquesAssumption DEF Pagina
<1>4. logico[f][p] = Nadie /\ [Links(B, p) EXCEPT ![p] = 0] = Links(B, p + 1)
  BY <1>2, <1>3, LinksMas
<1>5. nodo[0] = 0 /\ 0 # Nadie /\ 0 \in Enlace
  BY BloquesAssumption DEF Intacto, Bloque, Enlace, Nodo
<1>6. Enlazar(f, p, 0) /\ Ir(h, paso, [loc[h] EXCEPT !.pag = p + 1]) /\ ok' = ok
  BY <1>4, <1>5 DEF TruncCrecer
<1>7. /\ pc'[h] = paso /\ loc'[h].pag = p + 1 /\ pedido' = pedido /\ meta' = meta
      /\ logico'[f] = Links(B, p + 1)
  <2>1. /\ pc'[h] = paso /\ loc'[h] = [loc[h] EXCEPT !.pag = p + 1] /\ pedido' = pedido
    BY <1>1, <1>6, DelHilo, EfectoDeIr
  <2>2. [loc[h] EXCEPT !.pag = p + 1].pag = p + 1
    BY <1>2, ConPag
  <2>3. meta' = meta /\ logico'[f] = [logico[f] EXCEPT ![p] = 0]
    BY <1>2, <1>6 DEF Enlazar
  <2> QED
    BY <1>2, <1>4, <2>1, <2>2, <2>3
<1>8. EnTruncate(h)' /\ ConMetadata(pedido[h].f)'
  <2>1. paso \in {"trunc_crecer", "trunc_meta"}
    OBVIOUS
  <2> QED
    BY <1>2, <1>7, <2>1 DEF EnTruncate, ConMetadata
<1>9. ObraTruncar(h)'
  <2>1. Len(B) <= p + 1 /\ p + 1 <= n
    BY <1>2, SMTT(30)
  <2>2. meta'[pedido'[h].f].blocks = B /\ pedido'[h].n = n /\ logico'[pedido'[h].f] = Links(B, p + 1)
    BY <1>7
  <2> QED
    BY <1>7, <1>8, <2>1, <2>2 DEF ObraTruncar
<1> HIDE DEF paso
<1> QED
  BY <1>1, <1>5, <1>6, <1>8, <1>9, FielTruncarEnlace
\* What is linked after TruncSigue has moved on from page pag, whose link is gone.
LEMMA ObraTruncSigue ==
  ASSUME InvBloques, FielOK, NEW h \in Hilos, pc[h] \in {"trunc_stat", "trunc_liberar"},
         TruncSigue(h), meta' = meta, logico' = logico
  PROVE  /\ EnTruncate(h)' /\ ObraTruncar(h)' /\ \E paso, l : Ir(h, paso, l)
<1> DEFINE f == pedido[h].f
           p == loc[h].pag
           n == pedido[h].n
           B == meta[f].blocks
<1>1. EnTruncate(h)
  BY DEF EnTruncate
<1>2. /\ p \in Nat /\ n \in Nat /\ n <= p /\ p \in Pagina /\ logico[f] = Links(B, p) /\ ConMetadata(f)
      /\ loc[h] \in Locales
  BY <1>1, FielEnElTruncate DEF CursoOK, ObraTruncar
<1>3. CASE p = n
  <2>1. Ir(h, "trunc_meta", loc[h])
    BY <1>3 DEF TruncSigue
  <2>2. pc'[h] = "trunc_meta" /\ pedido' = pedido
    BY <2>1, DelHilo, EfectoDeIr
  <2> QED
    BY <1>2, <1>3, <2>1, <2>2 DEF EnTruncate, ObraTruncar, ConMetadata
<1>4. CASE p # n
  <2>1. Ir(h, "trunc_bajar", [loc[h] EXCEPT !.pag = p - 1])
    BY <1>4 DEF TruncSigue
  <2>2. p - 1 \in Nat /\ p - 1 \in Pagina /\ p - 1 + 1 = p
    BY <1>2, <1>4, BloquesAssumption DEF Pagina
  <2>3. pc'[h] = "trunc_bajar" /\ pedido' = pedido /\ loc'[h] = [loc[h] EXCEPT !.pag = p - 1]
    BY <2>1, DelHilo, EfectoDeIr
  <2>4. loc'[h].pag = p - 1
    BY <1>2, <2>2, <2>3, ConPag
  <2>5. loc'[h].pag \in Pagina /\ loc'[h].pag + 1 = p
    BY <2>2, <2>4
  <2> QED
    BY <1>2, <2>1, <2>3, <2>5 DEF EnTruncate, ObraTruncar, ConMetadata
<1> QED
  BY <1>3, <1>4

LEMMA FielTruncBajar ==
  ASSUME InvBloques, FielOK, NEW h \in Hilos, TruncBajar(h) \/ TruncStat(h) \/ TruncLiberar(h)
  PROVE  FielOK'
<1> DEFINE f == pedido[h].f
           p == loc[h].pag
           B == meta[f].blocks
<1>1. EnTruncate(h) /\ ok' = ok
  BY DEF EnTruncate, TruncBajar, TruncStat, TruncLiberar
<1>2. /\ f \in Archivos /\ B \in Seq(Bloque) /\ ObraTruncar(h) /\ ConMetadata(f)
      /\ loc[h] \in Locales /\ logico \in [Archivos -> [Pagina -> Enlace]]
  BY <1>1, FielEnElTruncate
<1>3. CASE TruncBajar(h)
  <2>1. Enlazar(f, p, Nadie) /\ Ir(h, "trunc_stat", loc[h]) /\ pc[h] = "trunc_bajar"
    BY <1>3 DEF TruncBajar
  <2>2. p \in Pagina /\ logico[f] = Links(B, p + 1)
    BY <1>2, <2>1 DEF ObraTruncar
  <2>3. pc'[h] = "trunc_stat" /\ loc'[h] = loc[h] /\ pedido' = pedido
    BY <2>1, DelHilo, EfectoDeIr
  <2>4. meta' = meta /\ logico'[f] = Links(B, p)
    BY <1>2, <2>1, <2>2, LinksMenos DEF Enlazar
  <2>5. EnTruncate(h)' /\ ObraTruncar(h)'
    BY <1>2, <2>2, <2>3, <2>4 DEF EnTruncate, ObraTruncar, ConMetadata
  <2> QED
    BY <1>1, <2>1, <2>5, FielTruncarEnlace DEF Enlace
<1>4. CASE TruncStat(h) \/ TruncLiberar(h)
  <2>1. /\ pc[h] \in {"trunc_stat", "trunc_liberar"} /\ meta' = meta /\ logico' = logico
        /\ \/ TruncSigue(h)
           \/ pc[h] = "trunc_stat" /\ Ir(h, "trunc_liberar", loc[h])
    BY <1>4 DEF TruncStat, TruncLiberar, PonerBitmap, disco
  <2>2. EnTruncate(h)' /\ ObraTruncar(h)' /\ \E paso, l : Ir(h, paso, l)
    <3>1. CASE TruncSigue(h)
      BY <2>1, <3>1, ObraTruncSigue
    <3>2. CASE pc[h] = "trunc_stat" /\ Ir(h, "trunc_liberar", loc[h])
      <4>1. pc'[h] = "trunc_liberar" /\ loc'[h] = loc[h] /\ pedido' = pedido
        BY <3>2, DelHilo, EfectoDeIr
      <4> QED
        BY <1>2, <2>1, <3>2, <4>1 DEF EnTruncate, ObraTruncar, ConMetadata
    <3> QED
      BY <2>1, <3>1, <3>2
  <2>3. \A g : EnObra(h, g) => EnObra(h, g)'
    <3>1. pedido' = pedido /\ pc[h] # "tag_link"
      BY <2>1, <2>2, DelHilo, EfectoDeIr
    <3> QED
      BY <2>2, <3>1, ObraDelTruncate DEF EnObra
  <2> QED
    BY <1>1, <2>1, <2>2, <2>3, ObraDelTruncate, FielQuieto
<1> QED
  BY <1>3, <1>4

LEMMA FielTruncMeta ==
  ASSUME InvBloques, FielOK, NEW h \in Hilos, TruncMeta(h)
  PROVE  FielOK'
<1> DEFINE f == pedido[h].f
           n == pedido[h].n
           B == meta[f].blocks
           S == [i \in 1..n |-> BloqueDe(f, i - 1)]
<1>1. EnTruncate(h) /\ pc[h] = "trunc_meta" /\ Resultado(h, TRUE)
      /\ PonerMeta(f, [meta[f] EXCEPT !.tam = n, !.blocks = S])
  BY DEF TruncMeta, EnTruncate
<1>2. /\ f \in Archivos /\ Nombrados(pedido[h]) = {f} /\ ~SinCandado(pedido[h]) /\ Suyos(h)
      /\ B \in Seq(Bloque) /\ logico[f] = Links(B, n) /\ ConMetadata(f) /\ n \in Nat
      /\ meta \in [Archivos -> Metas]
  BY <1>1, FielEnElTruncate DEF ObraTruncar
<1>3. Completos(S) = Links(B, n) /\ Len(S) = n
  BY <1>2, LinksTruncados DEF BloqueDe
<1>4. /\ meta'[f].blocks = S /\ meta'[f].tam = n /\ meta'[f].estado = meta[f].estado
      /\ \A g \in Archivos \ {f} : meta'[g] = meta[g]
      /\ logico' = logico
  BY <1>1, <1>2 DEF PonerMeta, Metas
<1> HIDE DEF S
<1>5. ASSUME NEW g \in Nombrados(pedido[h]) PROVE ArchivoOK(g)' /\ Fiel(g)'
  <2>1. g = f
    BY <1>2
  <2> QED
    BY <1>2, <1>3, <1>4, <2>1 DEF ArchivoOK, Fiel, ConMetadata
<1> QED
  BY <1>1, <1>2, <1>4, <1>5, ObraAlFinal, FielPaso
-------------------------------------------------------------------------------
(* TAG *)

LEMMA FielTag ==
  ASSUME InvBloques, FielOK, NEW h \in Hilos, Tag(h)
  PROVE  FielOK'
<1> DEFINE o == pedido[h].f
           d == pedido[h].d
<1>1. Empieza(h, "TAG") /\ ~Adentro(h) /\ pc[h] # "libre" /\ pedido[h].op = "TAG"
  BY DEF Tag, Empieza, Adentro
<1>2. CASE Falla(h)
  BY <1>1, <1>2, FielFalla
<1>3. CASE ~Falla(h)
  <2>1. /\ o # Base /\ meta[o].estado # "ausente" /\ meta[d].estado = "ausente" /\ o # d
        /\ PonerMeta(d, [SinMeta EXCEPT !.estado = "carpeta"])
        /\ \/ Ir(h, "tag_meta", SinLocales) /\ ok' = ok
           \/ Resultado(h, FALSE)
    BY <1>3 DEF Tag
  <2>2. /\ o \in Archivos /\ d \in Archivos /\ Nombrados(pedido[h]) = {o, d} /\ ~SinCandado(pedido[h])
        /\ Suyos(h)
    BY <1>1, <2>1, DelPedido, SuyosAlEntrar DEF Nombrados
  <2>3. Fiel(o) /\ Fiel(d) /\ ArchivoOK(o) /\ ArchivoOK(d) /\ meta \in [Archivos -> Metas]
    BY <1>1, <2>2, SinObra, FielEnManos, DelArchivo
  <2>4. meta[d].blocks = <<>>
    BY <2>1, <2>3 DEF ArchivoOK, ConMetadata
  <2>5. /\ meta'[d].blocks = <<>> /\ meta'[d].tam = 0 /\ meta'[d].estado = "carpeta"
        /\ \A g \in Archivos \ {d} : meta'[g] = meta[g]
        /\ logico' = logico /\ Len(<<>>) = 0
    BY <2>1, <2>2, <2>3 DEF PonerMeta, SinMeta
  <2>6. ASSUME NEW g \in Nombrados(pedido[h]) PROVE ArchivoOK(g)' /\ Fiel(g)'
    <3>1. CASE g = d
      BY <2>3, <2>4, <2>5, <3>1 DEF ArchivoOK, Fiel
    <3>2. CASE g = o
      BY <2>1, <2>2, <2>3, <2>5, <3>2 DEF ArchivoOK, Fiel, ConMetadata
    <3> QED
      BY <2>2, <3>1, <3>2
  <2>7. /\ \E paso : Ir(h, paso, SinLocales)
        /\ ObraOK(h)' /\ \A g \in Hilos \ {h} : ok'[g] = ok[g]
    <3>1. CASE Resultado(h, FALSE)
      BY <3>1, ObraAlFinal
    <3>2. CASE Ir(h, "tag_meta", SinLocales) /\ ok' = ok
      <4>1. pc'[h] = "tag_meta" /\ pedido' = pedido
        BY <3>2, DelHilo, EfectoDeIr
      <4>2. ObraTag(h)'
        BY <2>1, <2>5, <4>1 DEF ObraTag, ConMetadata
      <4> QED
        BY <3>2, <4>1, <4>2, ObraDe DEF EnTruncate, EnEscritura, PasosDedup
    <3> QED
      BY <2>1, <3>1, <3>2
  <2> QED
    BY <2>2, <2>5, <2>6, <2>7, FielPaso
<1> QED
  BY <1>2, <1>3

LEMMA FielEnElTag ==
  ASSUME InvBloques, FielOK, NEW h \in Hilos, EnTag(h)
  PROVE  LET o == pedido[h].f
             d == pedido[h].d IN
         /\ o \in Archivos \ {Base} /\ d \in Archivos \ {Base} /\ o # d
         /\ Nombrados(pedido[h]) = {o, d} /\ ~SinCandado(pedido[h]) /\ Suyos(h)
         /\ Fiel(o) /\ ArchivoOK(o) /\ ArchivoOK(d) /\ ObraTag(h) /\ CursoOK(h)
         /\ (pc[h] = "tag_meta" => Fiel(d) /\ meta[d].blocks = <<>>)
         /\ loc[h] \in Locales /\ loc[h].pag \in Nat
         /\ meta \in [Archivos -> Metas] /\ logico \in [Archivos -> [Pagina -> Enlace]]
<1>1. Adentro(h) /\ pc[h] # "libre" /\ Suyos(h)
  BY SuyosAdentro DEF Adentro, EnTag
<1>2. /\ pedido[h].op = "TAG" /\ pedido[h].f # Base /\ pedido[h].d # Base /\ loc[h] \in Locales
      /\ CursoOK(h)
  BY <1>1, DelHilo DEF OpOK
<1>3. ObraTag(h) /\ pedido[h].f # pedido[h].d
  BY DEF FielOK, ObraOK, ObraTag
<1>4. /\ ~EnObra(h, pedido[h].f) /\ (pc[h] = "tag_meta" => ~EnObra(h, pedido[h].d))
  BY <1>3 DEF EnTag, EnObra, EnTruncate, PasosDedup
<1>5. /\ pedido[h].f \in Archivos /\ pedido[h].d \in Archivos /\ ~SinCandado(pedido[h])
      /\ Nombrados(pedido[h]) = {pedido[h].f, pedido[h].d} /\ loc[h].pag \in Nat
  BY <1>1, <1>2, DelPedido, CamposDe DEF Nombrados
<1>6. /\ Fiel(pedido[h].f) /\ ArchivoOK(pedido[h].f) /\ ArchivoOK(pedido[h].d)
      /\ (pc[h] = "tag_meta" => Fiel(pedido[h].d))
  BY <1>1, <1>4, <1>5, FielEnManos, DelArchivo
<1>7. pc[h] = "tag_meta" => meta[pedido[h].d].blocks = <<>>
  BY <1>3, <1>6 DEF ObraTag, ArchivoOK
<1> QED
  BY <1>1, <1>2, <1>3, <1>5, <1>6, <1>7, DelArchivo

LEMMA FielTagMeta ==
  ASSUME InvBloques, FielOK, NEW h \in Hilos, TagMeta(h)
  PROVE  FielOK'
<1> DEFINE o == pedido[h].f
           d == pedido[h].d
<1>1. /\ EnTag(h) /\ pc[h] = "tag_meta" /\ ok' = ok /\ Ir(h, "tag_link", SinLocales)
      /\ PonerMeta(d, [meta[o] EXCEPT !.estado = "WORK_IN_PROGRESS"])
  BY DEF TagMeta, EnTag
<1>2. /\ o \in Archivos \ {Base} /\ d \in Archivos \ {Base} /\ o # d
      /\ Nombrados(pedido[h]) = {o, d} /\ ~SinCandado(pedido[h]) /\ Suyos(h)
      /\ Fiel(o) /\ ArchivoOK(o) /\ Fiel(d) /\ meta[d].blocks = <<>>
      /\ meta \in [Archivos -> Metas] /\ logico \in [Archivos -> [Pagina -> Enlace]]
  BY <1>1, FielEnElTag
<1>3. /\ meta'[d].blocks = meta[o].blocks /\ meta'[d].tam = meta[o].tam
      /\ meta'[d].estado = "WORK_IN_PROGRESS"
      /\ \A g \in Archivos \ {d} : meta'[g] = meta[g]
      /\ logico' = logico
  BY <1>1, <1>2 DEF PonerMeta, Metas
<1>4. pc'[h] = "tag_link" /\ pedido' = pedido /\ loc'[h].pag = 0
  BY <1>1, DelHilo, EfectoDeIr DEF SinLocales
<1>5. logico[d] = [p \in Pagina |-> IF p < 0 THEN logico[o][p] ELSE Nadie]
  <2>1. Len(<<>>) = 0 /\ \A p \in Pagina : ~(p < 0)
    BY BloquesAssumption DEF Pagina
  <2>2. logico[d] = Links(<<>>, 0)
    BY <1>2, <2>1 DEF Fiel, Completos
  <2> QED
    BY <2>1, <2>2 DEF Links
<1>6. ObraTag(h)'
  BY <1>2, <1>3, <1>4, <1>5 DEF ObraTag
<1>7. ObraOK(h)'
  BY <1>4, <1>6, ObraDe DEF EnTruncate, EnEscritura, PasosDedup
<1>8. ASSUME NEW g \in Nombrados(pedido[h]) PROVE ArchivoOK(g)' /\ (Fiel(g)' \/ EnObra(h, g)')
  <2>1. CASE g = o
    BY <1>2, <1>3, <2>1 DEF ArchivoOK, Fiel, ConMetadata
  <2>2. CASE g = d
    BY <1>2, <1>3, <1>4, <2>2 DEF ArchivoOK, ConMetadata, EnObra
  <2> QED
    BY <1>2, <2>1, <2>2
<1> QED
  BY <1>1, <1>2, <1>3, <1>7, <1>8, FielPaso
LEMMA FielTagLink ==
  ASSUME InvBloques, FielOK, NEW h \in Hilos, TagLink(h)
  PROVE  FielOK'
<1> DEFINE o == pedido[h].f
           d == pedido[h].d
           p == loc[h].pag
           Hasta(k) == [q \in Pagina |-> IF q < k THEN logico[o][q] ELSE Nadie]
<1>1. /\ EnTag(h) /\ pc[h] = "tag_link" /\ Enlazar(d, p, logico[o][p])
      /\ \/ p + 1 = MaxPaginas /\ Resultado(h, TRUE)
         \/ p + 1 # MaxPaginas /\ Ir(h, "tag_link", [loc[h] EXCEPT !.pag = p + 1]) /\ ok' = ok
  BY DEF TagLink, EnTag
<1>2. /\ o \in Archivos \ {Base} /\ d \in Archivos \ {Base} /\ o # d
      /\ Nombrados(pedido[h]) = {o, d} /\ ~SinCandado(pedido[h]) /\ Suyos(h)
      /\ Fiel(o) /\ ArchivoOK(o) /\ ArchivoOK(d) /\ loc[h] \in Locales /\ p \in Nat
      /\ logico \in [Archivos -> [Pagina -> Enlace]]
      /\ p < MaxPaginas /\ meta[d].blocks = meta[o].blocks /\ logico[d] = Hasta(p)
  BY <1>1, FielEnElTag DEF CursoOK, ObraTag
<1>3. p \in Pagina /\ Pagina \subseteq Nat
  BY <1>2, BloquesAssumption DEF Pagina
<1>4. /\ meta' = meta /\ logico'[d] = [Hasta(p) EXCEPT ![p] = logico[o][p]]
      /\ \A g \in Archivos \ {d} : logico'[g] = logico[g]
  BY <1>1, <1>2 DEF Enlazar
<1>5. logico'[d] = Hasta(p + 1)
  <2>1. \A q \in Pagina : [Hasta(p) EXCEPT ![p] = logico[o][p]][q] = Hasta(p + 1)[q]
    BY <1>2, <1>3
  <2>2. [Hasta(p) EXCEPT ![p] = logico[o][p]] = Hasta(p + 1)
    BY <2>1
  <2> QED
    BY <1>4, <2>2
<1>6. pedido' = pedido /\ \A g \in Hilos \ {h} : ok'[g] = ok[g]
  BY <1>1, DelHilo, EfectoDeIr, ObraAlFinal
<1>7. ArchivoOK(o)' /\ Fiel(o)' /\ ArchivoOK(d)'
  BY <1>2, <1>4, <1>6 DEF ArchivoOK, Fiel, ConMetadata
<1>8. CASE p + 1 = MaxPaginas
  <2>1. \A q \in Pagina : q < p + 1
    BY <1>2, <1>8, BloquesAssumption DEF Pagina
  <2>2. Hasta(p + 1) = logico[o]
    BY <1>2, <2>1
  <2>3. Fiel(d)'
    BY <1>2, <1>4, <1>5, <1>6, <2>2 DEF Fiel
  <2>4. ASSUME NEW g \in Nombrados(pedido[h]) PROVE ArchivoOK(g)' /\ Fiel(g)'
    BY <1>2, <1>6, <1>7, <2>3
  <2> QED
    BY <1>1, <1>2, <1>4, <1>6, <1>8, <2>4, ObraAlFinal, FielPaso
<1>9. CASE p + 1 # MaxPaginas
  <2>1. pc'[h] = "tag_link" /\ loc'[h] = [loc[h] EXCEPT !.pag = p + 1]
    <3>1. Ir(h, "tag_link", [loc[h] EXCEPT !.pag = p + 1])
      BY <1>1, <1>9
    <3> QED
      BY <3>1, DelHilo, EfectoDeIr
  <2>2. loc'[h].pag = p + 1
    BY <1>2, <2>1, ConPag
  <2>3. logico'[o] = logico[o] /\ meta'[o] = meta[o] /\ meta'[d] = meta[d]
    BY <1>2, <1>4
  <2>4. ObraTag(h)'
    BY <1>2, <1>5, <1>6, <2>1, <2>2, <2>3 DEF ObraTag
  <2>5. ObraOK(h)'
    BY <2>1, <2>4, ObraDe DEF EnTruncate, EnEscritura, PasosDedup
  <2>6. EnObra(h, d)'
    BY <1>6, <2>1 DEF EnObra
  <2>7. ASSUME NEW g \in Nombrados(pedido[h]) PROVE ArchivoOK(g)' /\ (Fiel(g)' \/ EnObra(h, g)')
    BY <1>2, <1>6, <1>7, <2>6
  <2> QED
    BY <1>1, <1>2, <1>4, <1>6, <1>9, <2>5, <2>7, FielPaso
<1> QED
  BY <1>8, <1>9

-------------------------------------------------------------------------------
(* FLUSH and WRITE_BLOCK *)

LEMMA ObraDeLaEscritura ==
  ASSUME NEW h \in Hilos, pc'[h] \in {"pagina", "copiar", "desenlazar", "enlazar"}, ObraEscritura(h)'
  PROVE  ObraOK(h)'
<1>1. ~EnTag(h)' /\ ~EnTruncate(h)' /\ pc'[h] \notin PasosDedup
  BY DEF EnTag, EnTruncate, PasosDedup
<1> QED
  BY <1>1, ObraDe

LEMMA UnaSola ==
  ASSUME NEW T, NEW s \in Seq(T), Len(s) <= 1, s # <<>>
  PROVE  Len(s) = 1
<1>1. Len(s) \in Nat \ {0}
  BY EmptySeq
<1>2. \A n \in Nat \ {0} : n <= 1 => n = 1
  OBVIOUS
<1> QED
  BY <1>1, <1>2, Zenon

LEMMA FielEscribir ==
  ASSUME InvBloques, FielOK, DeAUna, NEW h \in Hilos, Flush(h) \/ EscribirBloque(h)
  PROVE  FielOK'
<1>1. PICK op \in {"FLUSH", "WRITE"} : Escribir(h, op)
  BY DEF Flush, EscribirBloque
<1>2. ~Adentro(h) /\ pc[h] = "entrar" /\ pedido[h].op \in {"FLUSH", "WRITE"}
  BY <1>1 DEF Escribir, Empieza, Adentro
<1>3. CASE Falla(h)
  BY <1>2, <1>3, FielFalla
<1>4. CASE ~Falla(h)
  <2>1. /\ Ir(h, "pagina", [SinLocales EXCEPT !.cola = pedido[h].paginas])
        /\ meta' = meta /\ logico' = logico /\ ok' = ok
    BY <1>1, <1>4 DEF Escribir, disco
  <2>2. /\ pc'[h] = "pagina" /\ loc'[h].cola = pedido[h].paginas /\ loc'[h].pend = <<>>
    BY <2>1, DelHilo, EfectoDeIr DEF SinLocales
  <2>3. pedido[h] \in mezcla /\ pedido[h].paginas \in Seq(Nat \X Contenidos)
    BY <1>2, DelPedido
  <2>4. pedido[h].paginas # <<>> => Len(pedido[h].paginas) = 1
    <3>1. Len(pedido[h].paginas) <= 1
      BY <1>2, <2>3 DEF DeAUna
    <3> QED
      BY <2>3, <3>1, UnaSola
  <2>5. ok'[h]
    <3>1. ok[h]
      BY <1>2 DEF FielOK, ObraOK
    <3> QED
      BY <2>1, <3>1
  <2>6. ObraEscritura(h)'
    BY <2>2, <2>4, <2>5 DEF ObraEscritura
  <2> QED
    BY <1>2, <2>1, <2>2, <2>6, SinObra, ObraDeLaEscritura, FielQuieto
<1> QED
  BY <1>3, <1>4

\* A thread with a page still to write.
LEMMA FielEnCurso ==
  ASSUME InvBloques, FielOK, NEW h \in Hilos, pc[h] \in {"pagina", "copiar", "desenlazar", "enlazar"},
         loc[h].cola # <<>>
  PROVE  LET f == pedido[h].f IN
         /\ f \in Archivos \ {Base} /\ Nombrados(pedido[h]) = {f} /\ ~SinCandado(pedido[h]) /\ Suyos(h)
         /\ EnEscritura(h) /\ loc[h] \in Locales /\ EnCurso(h)[1] \in Nat /\ DiscoOK /\ CursoOK(h)
         /\ loc[h].pend = <<>> /\ Tail(loc[h].cola) = <<>> /\ ok[h] = TRUE /\ ArchivoOK(f)
         /\ ObraEscritura(h) /\ (pc[h] # "enlazar" => Fiel(f) /\ \A g : ~EnObra(h, g))
         /\ meta[f].blocks \in Seq(Bloque) /\ logico \in [Archivos -> [Pagina -> Enlace]]
<1>1. EnEscritura(h)
  BY DEF EnEscritura
<1>2. /\ pedido[h].op \in {"FLUSH", "WRITE"} /\ pedido[h].f \in Archivos \ {Base}
      /\ pc[h] # "libre" /\ Suyos(h) /\ ~SinCandado(pedido[h])
      /\ DiscoOK /\ CursoOK(h) /\ loc[h] \in Locales /\ ok[h] \in BOOLEAN
  BY <1>1, EnLaEscritura
<1>3. Nombrados(pedido[h]) = {pedido[h].f} /\ EnCurso(h)[1] \in Nat
      /\ loc[h].cola \in Seq(Nat \X Contenidos)
  BY <1>2, EnCursoEs, CamposDe DEF Nombrados
<1>4. ObraEscritura(h)
  BY DEF FielOK, ObraOK
<1>5. loc[h].pend = <<>> /\ Len(loc[h].cola) = 1 /\ ok[h]
  BY <1>4 DEF ObraEscritura
<1>6. Tail(loc[h].cola) = <<>>
  <2>1. Tail(loc[h].cola) \in Seq(Nat \X Contenidos) /\ Len(Tail(loc[h].cola)) = 0
    BY <1>3, <1>5, HeadTailProperties
  <2> QED
    BY <2>1, EmptySeq
<1>7. pc[h] # "enlazar" => \A g : ~EnObra(h, g)
  BY <1>5 DEF EnObra, EnTruncate, PasosDedup
<1>8. pc[h] # "enlazar" => Fiel(pedido[h].f)
  BY <1>2, <1>3, <1>7, FielEnManos
<1>9. ok[h] = TRUE
  BY <1>2, <1>5
<1> QED
  BY <1>1, <1>2, <1>3, <1>4, <1>5, <1>6, <1>7, <1>8, <1>9, DelArchivo
\* A page that is skipped, or goes on to have its block copied.
LEMMA FielPrepararPagina ==
  ASSUME InvBloques, Intacto, FielOK, NEW h \in Hilos, PrepararPagina(h)
  PROVE  FielOK'
<1> DEFINE f == pedido[h].f
           p == EnCurso(h)[1]
           B == meta[f].blocks
<1>1. pc[h] = "pagina" /\ loc[h].cola # <<>>
  BY DEF PrepararPagina
<1>2. /\ f \in Archivos /\ p \in Nat /\ DiscoOK /\ loc[h] \in Locales /\ loc[h].pend = <<>>
      /\ Tail(loc[h].cola) = <<>> /\ ok[h] = TRUE /\ ObraEscritura(h) /\ (\A g : ~EnObra(h, g))
  BY <1>1, FielEnCurso
<1>3. meta' = meta /\ logico' = logico
  BY DEF PrepararPagina, PonerBitmap, disco
<1>4. Legible(f, p) => ~Unico(logico[f][p])
  BY <1>2, LegibleEs, NuncaUnico DEF Legible
<1>5. CASE Saltear(h)
  <2>1. Ir(h, "pagina", [loc[h] EXCEPT !.cola = Tail(loc[h].cola), !.nuevo = 0])
        /\ ok' = [ok EXCEPT ![h] = FALSE]
    BY <1>5 DEF Saltear
  <2>2. pc'[h] = "pagina" /\ loc'[h] = [loc[h] EXCEPT !.cola = Tail(loc[h].cola), !.nuevo = 0]
    BY <2>1, DelHilo, EfectoDeIr
  <2>3. loc'[h].cola = <<>> /\ loc'[h].pend = <<>>
    BY <1>2, <2>2 DEF Locales
  <2>4. ObraEscritura(h)'
    BY <2>2, <2>3 DEF ObraEscritura
  <2>5. \A g \in Hilos \ {h} : ok'[g] = ok[g]
    BY <2>1, DelHilo DEF HilosOK
  <2> QED
    BY <1>2, <1>3, <2>1, <2>2, <2>4, <2>5, ObraDeLaEscritura, FielQuieto
<1>6. CASE Legible(f, p) /\ Ir(h, "copiar", [loc[h] EXCEPT !.nuevo = PrimerLibre]) /\ ok' = ok
  <2>1. pc'[h] = "copiar" /\ loc'[h] = [loc[h] EXCEPT !.nuevo = PrimerLibre] /\ pedido' = pedido
    BY <1>6, DelHilo, EfectoDeIr
  <2>2. loc'[h].cola = loc[h].cola /\ loc'[h].pend = loc[h].pend
    BY <1>2, <2>1 DEF Locales
  <2>3. p < Len(B) /\ EnCurso(h)' = EnCurso(h)
    BY <1>2, <1>6, <2>2, LegibleEs DEF EnCurso
  <2>4. Len(loc[h].cola) = 1
    BY <1>1, <1>2 DEF ObraEscritura
  <2>5. ObraEscritura(h)'
    BY <1>2, <1>3, <1>6, <2>1, <2>2, <2>3, <2>4 DEF ObraEscritura
  <2> QED
    BY <1>2, <1>3, <1>6, <2>1, <2>5, ObraDeLaEscritura, FielQuieto
<1> QED
  BY <1>4, <1>5, <1>6 DEF PrepararPagina

LEMMA FielCopiar ==
  ASSUME InvBloques, Intacto, FielOK, NEW h \in Hilos, Copiar(h)
  PROVE  FielOK'
<1>1. pc[h] = "copiar" /\ loc[h].cola # <<>>
  BY DelHilo DEF Copiar, CursoOK
<1>2. /\ loc[h].pend = <<>> /\ ok[h] = TRUE /\ ObraEscritura(h) /\ (\A g : ~EnObra(h, g))
  BY <1>1, FielEnCurso
<1>3. Ir(h, "desenlazar", loc[h]) /\ meta' = meta /\ logico' = logico /\ ok' = ok
  BY CopiaEnSuNodo
<1>4. pc'[h] = "desenlazar" /\ loc'[h] = loc[h] /\ pedido' = pedido
  BY <1>3, DelHilo, EfectoDeIr
<1>5. EnCurso(h)' = EnCurso(h)
  BY <1>4 DEF EnCurso
<1>6. ObraEscritura(h)'
  BY <1>1, <1>2, <1>3, <1>4, <1>5 DEF ObraEscritura
<1> QED
  BY <1>2, <1>3, <1>4, <1>6, ObraDeLaEscritura, FielQuieto

LEMMA FielDesenlazar ==
  ASSUME InvBloques, Intacto, FielOK, NEW h \in Hilos, Desenlazar(h)
  PROVE  FielOK'
<1> DEFINE f == pedido[h].f
           p == EnCurso(h)[1]
           B == meta[f].blocks
<1>1. pc[h] = "desenlazar" /\ loc[h].cola # <<>> /\ p \in Pagina
  BY DelHilo DEF Desenlazar, CursoOK
<1>2. /\ f \in Archivos /\ Nombrados(pedido[h]) = {f} /\ ~SinCandado(pedido[h]) /\ Suyos(h)
      /\ loc[h].pend = <<>> /\ ok[h] = TRUE /\ ObraEscritura(h) /\ Fiel(f) /\ ArchivoOK(f)
      /\ logico \in [Archivos -> [Pagina -> Enlace]]
  BY <1>1, FielEnCurso
<1>3. Ir(h, "enlazar", loc[h]) /\ Enlazar(f, p, Nadie) /\ ok' = ok
  BY DEF Desenlazar
<1>4. pc'[h] = "enlazar" /\ loc'[h] = loc[h] /\ pedido' = pedido /\ EnCurso(h)' = EnCurso(h)
  BY <1>3, DelHilo, EfectoDeIr DEF EnCurso
<1>5. /\ meta' = meta /\ logico'[f] = Salvo(B, p, Nadie)
      /\ \A g \in Archivos \ {f} : logico'[g] = logico[g]
  BY <1>1, <1>2, <1>3, SalvoDeNuevo DEF Enlazar, Fiel
<1>6. ObraEscritura(h)'
  BY <1>1, <1>2, <1>3, <1>4, <1>5 DEF ObraEscritura
<1>7. ASSUME NEW g \in Nombrados(pedido[h]) PROVE ArchivoOK(g)' /\ EnObra(h, g)'
  BY <1>2, <1>4, <1>5 DEF ArchivoOK, ConMetadata, EnObra
<1> QED
  BY <1>2, <1>3, <1>4, <1>5, <1>6, <1>7, ObraDeLaEscritura, FielPaso

LEMMA FielReenlazar ==
  ASSUME InvBloques, Intacto, FielOK, NEW h \in Hilos, Reenlazar(h)
  PROVE  FielOK'
<1> DEFINE f == pedido[h].f
           p == EnCurso(h)[1]
           B == meta[f].blocks
           c == loc[h].nuevo
           e == <<p, c, EnCurso(h)[2]>>
<1>1. pc[h] = "enlazar" /\ loc[h].cola # <<>> /\ p \in Pagina
  BY DelHilo DEF Reenlazar, CursoOK
<1>2. /\ f \in Archivos /\ Nombrados(pedido[h]) = {f} /\ ~SinCandado(pedido[h]) /\ Suyos(h)
      /\ loc[h] \in Locales /\ loc[h].pend = <<>> /\ Tail(loc[h].cola) = <<>> /\ ok[h] = TRUE
      /\ ObraEscritura(h) /\ ArchivoOK(f) /\ logico \in [Archivos -> [Pagina -> Enlace]]
  BY <1>1, FielEnCurso
<1>3. nodo[c] = c /\ c # Nadie
  BY <1>2, CamposDe, BloquesAssumption, SMTT(30) DEF Intacto, Bloque
<1>4. Enlazar(f, p, c) /\ Ir(h, "pagina", ConPendiente(h, c)) /\ ok' = ok
  BY <1>3 DEF Reenlazar
<1>5. pc'[h] = "pagina" /\ loc'[h] = ConPendiente(h, c) /\ pedido' = pedido
  BY <1>4, DelHilo, EfectoDeIr
<1>6. loc'[h].cola = <<>> /\ loc'[h].pend = <<e>>
  <2>1. loc'[h].cola = Tail(loc[h].cola) /\ loc'[h].pend = Append(loc[h].pend, e)
    BY <1>2, <1>5 DEF ConPendiente, Locales
  <2> QED
    BY <1>2, <2>1
<1>7. p < Len(B) /\ logico[f] = Salvo(B, p, Nadie)
  BY <1>1, <1>2 DEF ObraEscritura
<1>8. /\ meta' = meta /\ logico'[f] = Salvo(B, p, c)
      /\ \A g \in Archivos \ {f} : logico'[g] = logico[g]
  BY <1>1, <1>2, <1>4, <1>7, SalvoDeNuevo DEF Enlazar
<1>9. /\ Len(<<e>>) = 1 /\ <<e>> # <<>> /\ <<e>>[1] = e /\ e[1] = p /\ e[2] = c
  OBVIOUS
<1> HIDE DEF e
<1>10. ObraEscritura(h)'
  BY <1>2, <1>4, <1>5, <1>6, <1>7, <1>8, <1>9 DEF ObraEscritura
<1>11. ASSUME NEW g \in Nombrados(pedido[h]) PROVE ArchivoOK(g)' /\ EnObra(h, g)'
  BY <1>2, <1>5, <1>6, <1>8, <1>9 DEF ArchivoOK, ConMetadata, EnObra
<1> QED
  BY <1>2, <1>4, <1>5, <1>8, <1>10, <1>11, ObraDeLaEscritura, FielPaso
\* BLOCKS as GuardarBlocks leaves it: the page that was written, if any, names its block.
Guardados(h, B) == [i \in DOMAIN B |-> IF PendienteDe(h, i - 1) = {} THEN B[i]
                                       ELSE loc[h].pend[CHOOSE j \in PendienteDe(h, i - 1) : TRUE][2]]

LEMMA BlocksGuardados ==
  ASSUME NEW h \in Hilos, NEW B \in Seq(Bloque), loc[h].pend \in Seq(Pagina \X Bloque \X Contenidos),
         Len(loc[h].pend) <= 1
  PROVE  LET e == loc[h].pend IN
         /\ e = <<>> => Guardados(h, B) = B
         /\ e # <<>> => Guardados(h, B) = [B EXCEPT ![e[1][1] + 1] = e[1][2]]
<1> DEFINE e == loc[h].pend
<1>1. CASE e = <<>>
  <2>1. \A p : PendienteDe(h, p) = {}
    BY <1>1 DEF PendienteDe
  <2> QED
    BY <1>1, <2>1 DEF Guardados
<1>2. CASE e # <<>>
  <2> DEFINE S == Guardados(h, B)
             k == e[1][1]
             x == e[1][2]
  <2>1. Len(e) = 1 /\ DOMAIN e = {1} /\ e[1][1] \in Nat
    <3>1. Len(e) = 1
      BY <1>2, UnaSola
    <3> QED
      BY <3>1, BloquesAssumption DEF Pagina
  <2>2. \A p : PendienteDe(h, p) = IF p = k THEN {1} ELSE {}
    BY <2>1 DEF PendienteDe
  <2>3. ASSUME NEW i \in DOMAIN B PROVE S[i] = IF i = k + 1 THEN x ELSE B[i]
    <3>1. S[i] = IF PendienteDe(h, i - 1) = {} THEN B[i]
                 ELSE e[CHOOSE j \in PendienteDe(h, i - 1) : TRUE][2]
      BY DEF Guardados
    <3>2. (CHOOSE j \in {1} : TRUE) = 1
      OBVIOUS
    <3>3. i - 1 = k <=> i = k + 1
      BY <2>1
    <3>4. CASE i - 1 = k
      <4>1. PendienteDe(h, i - 1) = {1}
        BY <2>2, <3>4
      <4>2. e[CHOOSE j \in PendienteDe(h, i - 1) : TRUE][2] = x
        BY <3>2, <4>1
      <4> QED
        BY <3>1, <3>3, <3>4, <4>1, <4>2
    <3>5. CASE i - 1 # k
      <4>1. PendienteDe(h, i - 1) = {}
        BY <2>2, <3>5
      <4> QED
        BY <3>1, <3>3, <3>5, <4>1
    <3> QED
      BY <3>4, <3>5
  <2>6. \A i \in DOMAIN B : S[i] = [B EXCEPT ![k + 1] = x][i]
    <3> HIDE DEF S, x, k
    <3> QED
      BY <2>3
  <2>7. S = [B EXCEPT ![k + 1] = x]
    <3>1. S = [i \in DOMAIN B |-> S[i]]
      BY DEF Guardados
    <3> HIDE DEF S, x, k
    <3> QED
      BY <2>6, <3>1
  <2> QED
    BY <1>2, <2>7
<1> QED
  BY <1>1, <1>2

LEMMA FielGuardarBlocks ==
  ASSUME InvBloques, FielOK, NEW h \in Hilos, GuardarBlocks(h)
  PROVE  FielOK'
<1> DEFINE f == pedido[h].f
           B == meta[f].blocks
           e == loc[h].pend
           S == Guardados(h, B)
<1>1. EnEscritura(h) /\ pc[h] = "pagina" /\ Ir(h, "escribir", loc[h]) /\ ok' = ok /\ logico' = logico
      /\ meta' = [meta EXCEPT ![f] = IF ok[h] THEN [meta[f] EXCEPT !.blocks = S] ELSE meta[f]]
  BY DEF GuardarBlocks, PonerMeta, EnEscritura, Guardados
<1>2. /\ f \in Archivos \ {Base} /\ Suyos(h) /\ ~SinCandado(pedido[h]) /\ loc[h] \in Locales
      /\ pedido[h].op \in {"FLUSH", "WRITE"} /\ pc[h] # "libre"
  BY <1>1, EnLaEscritura
<1>3. Nombrados(pedido[h]) = {f} /\ e \in Seq(Pagina \X Bloque \X Contenidos)
  BY <1>2, CamposDe DEF Nombrados
<1>4. /\ meta \in [Archivos -> Metas] /\ meta[f] \in Metas /\ B \in Seq(Bloque) /\ ArchivoOK(f)
      /\ Len(B) = meta[f].tam
  BY <1>2, DelArchivo
<1>5. e # <<>> => Len(e) = 1 /\ ok[h] /\ e[1][1] < Len(B) /\ logico[f] = Salvo(B, e[1][1], e[1][2])
  BY <1>1 DEF FielOK, ObraOK, ObraEscritura
<1>6. Len(e) <= 1
  <2>1. Len(<<>>) = 0 /\ 0 <= 1 /\ 1 <= 1
    OBVIOUS
  <2> QED
    BY <1>5, <2>1
<1>7. /\ e = <<>> => S = B
      /\ e # <<>> => S = [B EXCEPT ![e[1][1] + 1] = e[1][2]]
  BY <1>3, <1>4, <1>6, BlocksGuardados
<1> HIDE DEF S
<1>8. /\ meta'[f].tam = meta[f].tam /\ meta'[f].estado = meta[f].estado
      /\ meta'[f].blocks = IF ok[h] THEN S ELSE B
      /\ \A g \in Archivos \ {f} : meta'[g] = meta[g]
  BY <1>1, <1>2, <1>4 DEF Metas
<1>9. meta'[f].blocks = IF e = <<>> THEN B ELSE [B EXCEPT ![e[1][1] + 1] = e[1][2]]
  BY <1>5, <1>7, <1>8
<1>10. Len(meta'[f].blocks) = Len(B) /\ logico[f] = Completos(meta'[f].blocks)
  <2>1. CASE e = <<>>
    <3>1. ~EnObra(h, f)
      BY <1>1, <2>1 DEF EnObra, EnTruncate, PasosDedup
    <3>2. Fiel(f)
      BY <1>2, <1>3, <3>1, FielEnManos
    <3> QED
      BY <1>9, <2>1, <3>2 DEF Fiel
  <2>2. CASE e # <<>>
    <3>1. e[1] \in Pagina \X Bloque \X Contenidos
      BY <1>3, <1>5, <2>2
    <3>2. e[1][1] \in Pagina /\ e[1][2] \in Bloque
      BY <3>1
    <3> QED
      BY <1>4, <1>5, <1>9, <2>2, <3>2, LinksSalvo
  <2> QED
    BY <2>1, <2>2
<1>11. B = <<>> => meta'[f].blocks = <<>>
  <2>1. B = <<>> => e = <<>>
    <3>1. SUFFICES ASSUME B = <<>>, e # <<>> PROVE FALSE
      OBVIOUS
    <3>2. e[1] \in Pagina \X Bloque \X Contenidos
      BY <1>3, <1>5, <3>1
    <3>3. e[1][1] \in Nat /\ Len(B) = 0
      BY <3>1, <3>2, BloquesAssumption DEF Pagina
    <3> QED
      BY <1>5, <3>1, <3>3
  <2> QED
    BY <1>9, <2>1
<1>12. ASSUME NEW g \in Nombrados(pedido[h]) PROVE ArchivoOK(g)' /\ Fiel(g)'
  <2>1. g = f
    BY <1>3
  <2> QED
    BY <1>1, <1>4, <1>8, <1>10, <1>11, <2>1 DEF ArchivoOK, ConMetadata, Fiel
<1>13. pc'[h] = "escribir"
  BY <1>1, DelHilo, EfectoDeIr
<1> QED
  BY <1>1, <1>2, <1>3, <1>8, <1>12, <1>13, ObraTranquila, FielPaso

LEMMA FielEscribirPendiente ==
  ASSUME InvBloques, FielOK, NEW h \in Hilos, EscribirPendiente(h) \/ TerminarEscritura(h)
  PROVE  FielOK'
<1>1. \A f : ~EnObra(h, f)
  BY DEF EscribirPendiente, TerminarEscritura, EnObra, EnTruncate, PasosDedup
<1>2. meta' = meta /\ logico' = logico
  BY DEF EscribirPendiente, TerminarEscritura, PersistirBitmap, disco
<1>3. CASE EscribirPendiente(h)
  <2>1. Ir(h, "escribir", [loc[h] EXCEPT !.pend = Tail(@)])
    BY <1>3 DEF EscribirPendiente
  <2>2. pc'[h] = "escribir"
    BY <2>1, DelHilo, EfectoDeIr
  <2>3. \A g \in Hilos \ {h} : ok'[g] = ok[g]
    BY <1>3, DelHilo DEF EscribirPendiente, HilosOK
  <2> QED
    BY <1>1, <1>2, <2>1, <2>2, <2>3, ObraTranquila, FielQuieto
<1>4. CASE TerminarEscritura(h)
  <2>1. Resultado(h, ok[h])
    BY <1>4 DEF TerminarEscritura
  <2> QED
    BY <1>1, <1>2, <2>1, FielResultado
<1> QED
  BY <1>3, <1>4
-------------------------------------------------------------------------------
(* COMMIT *)

LEMMA ObraDelDedup ==
  ASSUME NEW h \in Hilos, pc'[h] \in PasosDedup, ObraDedup(h)'
  PROVE  ObraOK(h)' /\ \A f : pedido'[h].f = f => EnObra(h, f)'
<1>1. ~EnTag(h)' /\ ~EnTruncate(h)' /\ ~EnEscritura(h)' /\ pc'[h] \notin {"libre", "entrar", "crear_meta"}
  BY DEF EnTag, EnTruncate, EnEscritura, PasosDedup
<1>2. ObraOK(h)'
  BY <1>1, ObraDe
<1> QED
  BY <1>2 DEF EnObra

LEMMA FielCommit ==
  ASSUME InvBloques, FielOK, NEW h \in Hilos, Commit(h)
  PROVE  FielOK'
<1> DEFINE f == pedido[h].f
           B == meta[f].blocks
           l == [SinLocales EXCEPT !.lista = B, !.idx = indice]
<1>1. Empieza(h, "COMMIT") /\ ~Adentro(h) /\ pc[h] # "libre" /\ pedido[h].op = "COMMIT"
  BY DEF Commit, Empieza, Adentro
<1>2. \A g : ~EnObra(h, g)
  BY <1>1, SinObra
<1>3. CASE Falla(h)
  BY <1>1, <1>3, FielFalla
<1>4. CASE Resultado(h, TRUE) /\ UNCHANGED <<disco, bitmap, leido>>
  BY <1>2, <1>4, FielResultado DEF disco
<1>5. CASE /\ meta[f].estado = "WORK_IN_PROGRESS"
           /\ \/ B = <<>> /\ Ir(h, "commit_estado", SinLocales)
              \/ B # <<>> /\ Ir(h, "dedup_pag", l)
           /\ UNCHANGED <<disco, ok>>
  <2>1. meta' = meta /\ logico' = logico /\ ok' = ok
    BY <1>5 DEF disco
  <2>2. CASE Ir(h, "commit_estado", SinLocales)
    <3>1. pc'[h] = "commit_estado"
      BY <2>2, DelHilo, EfectoDeIr
    <3> QED
      BY <1>2, <2>1, <2>2, <3>1, ObraTranquila, FielQuieto
  <2>3. CASE Ir(h, "dedup_pag", l)
    <3>1. pc'[h] = "dedup_pag" /\ loc'[h] = l /\ pedido' = pedido
      BY <2>3, DelHilo, EfectoDeIr
    <3>2. l.lista = B
      BY DEF SinLocales
    <3>3. f \in Archivos /\ f \in Nombrados(pedido[h]) /\ ~SinCandado(pedido[h]) /\ Suyos(h)
      BY <1>1, DelPedido, SuyosAlEntrar DEF SinCandado
    <3>4. logico[f] = Completos(B)
      BY <1>2, <3>3, FielEnManos DEF Fiel
    <3> HIDE DEF l
    <3>5. ObraDedup(h)'
      BY <2>1, <3>1, <3>2, <3>4 DEF ObraDedup
    <3> QED
      BY <1>2, <2>1, <2>3, <3>1, <3>5, ObraDelDedup, FielQuieto DEF PasosDedup
  <2> QED
    BY <1>5, <2>2, <2>3
<1> QED
  BY <1>3, <1>4, <1>5 DEF Commit

\* A thread that deduplicates a file:tag.
LEMMA FielEnElDedup ==
  ASSUME InvBloques, FielOK, NEW h \in Hilos, pc[h] \in PasosDedup
  PROVE  LET f == pedido[h].f IN
         /\ f \in Archivos \ {Base} /\ Nombrados(pedido[h]) = {f} /\ ~SinCandado(pedido[h]) /\ Suyos(h)
         /\ EnCommit(h) /\ loc[h] \in Locales /\ loc[h].pag \in Nat /\ loc[h].lista \in Seq(Bloque)
         /\ Len(loc[h].lista) = Largo(h) /\ Largo(h) \in Nat /\ Largo(h) = meta[f].tam
         /\ (loc[h].pag < Largo(h) => loc[h].pag \in Pagina /\ loc[h].pag + 1 \in 1..Largo(h))
         /\ meta \in [Archivos -> Metas] /\ logico \in [Archivos -> [Pagina -> Enlace]]
         /\ meta[f] \in Metas /\ meta[f].blocks \in Seq(Bloque)
         /\ ArchivoOK(f) /\ ObraDedup(h) /\ CursoOK(h)
<1>1. EnCommit(h)
  BY DEF EnCommit
<1>2. /\ pedido[h].op = "COMMIT" /\ pedido[h].f \in Archivos \ {Base} /\ Suyos(h)
      /\ ~SinCandado(pedido[h]) /\ CursoOK(h) /\ loc[h] \in Locales /\ Largo(h) \in Nat
  BY <1>1, EnElCommit
<1>3. Nombrados(pedido[h]) = {pedido[h].f} /\ Len(loc[h].lista) = Largo(h)
      /\ loc[h].pag \in Nat /\ loc[h].lista \in Seq(Bloque)
  BY <1>2, CamposDe DEF Nombrados, CursoOK
<1>4. ObraDedup(h)
  BY DEF FielOK, ObraOK
<1>5. Largo(h) = meta[pedido[h].f].tam /\ Largo(h) <= MaxPaginas
  BY <1>2, DelArchivo DEF Largo
<1>6. loc[h].pag < Largo(h) => loc[h].pag \in Pagina /\ loc[h].pag + 1 \in 1..Largo(h)
  BY <1>2, <1>3, <1>5, BloquesAssumption DEF Pagina
<1> QED
  BY <1>1, <1>2, <1>3, <1>4, <1>5, <1>6, DelArchivo

\* A step of the deduplication that neither moves a link nor forgets that it moved one.
LEMMA FielDedupQuieto ==
  ASSUME InvBloques, FielOK, NEW h \in Hilos, pc[h] \in PasosDedup, pc[h] # "dedup_link",
         NEW paso \in PasosDedup, paso # "dedup_link", NEW l, Ir(h, paso, l), l.lista = loc[h].lista,
         l.modif = loc[h].modif \/ l.modif = TRUE, ~l.modif => paso = "dedup_pag",
         ok' = ok, meta' = meta, logico' = logico
  PROVE  FielOK'
<1>1. ObraDedup(h)
  BY FielEnElDedup
<1>2. pc'[h] = paso /\ loc'[h] = l /\ pedido' = pedido
  BY DelHilo, EfectoDeIr
<1>3. ~l.modif => ~loc[h].modif
  OBVIOUS
<1>4. ObraDedup(h)'
  BY <1>1, <1>2, <1>3 DEF ObraDedup
<1>5. \A f : EnObra(h, f) => EnObra(h, f)'
  BY <1>2, <1>4, ObraDelDedup DEF EnObra, PasosDedup
<1> QED
  BY <1>2, <1>4, <1>5, ObraDelDedup, FielQuieto

\* A step of the deduplication that moves the link of a page.
LEMMA FielDedupEnlace ==
  ASSUME InvBloques, FielOK, NEW h \in Hilos, pc[h] \in PasosDedup,
         NEW paso \in PasosDedup, NEW l, Ir(h, paso, l), ok' = ok, meta' = meta,
         \A f \in Archivos \ {pedido[h].f} : logico'[f] = logico[f], ObraDedup(h)'
  PROVE  FielOK'
<1> DEFINE f == pedido[h].f
<1>1. /\ Nombrados(pedido[h]) = {f} /\ ~SinCandado(pedido[h]) /\ Suyos(h) /\ ArchivoOK(f)
  BY FielEnElDedup
<1>2. pc'[h] \in PasosDedup /\ pedido' = pedido
  BY DelHilo, EfectoDeIr
<1>3. ASSUME NEW g \in Nombrados(pedido[h]) PROVE ArchivoOK(g)' /\ EnObra(h, g)'
  <2>1. g = f
    BY <1>1
  <2> QED
    BY <1>1, <1>2, <2>1, ObraDelDedup DEF ArchivoOK, ConMetadata
<1> QED
  BY <1>1, <1>2, <1>3, ObraDelDedup, FielPaso

Cambia(l, k, e) == [l EXCEPT !.lista[k] = e, !.modif = TRUE]
Puesto(s, k, e) == [s EXCEPT ![k] = e]

LEMMA CamposDeCambia ==
  ASSUME NEW l \in Locales, NEW k, NEW e
  PROVE  /\ Cambia(l, k, e).lista = Puesto(l.lista, k, e)
         /\ Cambia(l, k, e).pag = l.pag /\ Cambia(l, k, e).modif = TRUE
BY DEF Cambia, Puesto, Locales

LEMMA FielDedupPag ==
  ASSUME InvBloques, FielOK, NEW h \in Hilos, DedupPag(h)
  PROVE  FielOK'
<1> DEFINE f == pedido[h].f
           p == loc[h].pag
           S == loc[h].lista
           b == meta[f].blocks[p + 1]
           e == Indexado(h, b)
<1>1. pc[h] = "dedup_pag" /\ pc[h] \in PasosDedup /\ p < Largo(h) /\ ok' = ok
  BY DEF DedupPag, PasosDedup, Largo
<1>2. /\ f \in Archivos /\ loc[h] \in Locales /\ ObraDedup(h) /\ S \in Seq(Bloque)
      /\ Len(S) = Largo(h) /\ p \in Pagina /\ p + 1 \in 1..Largo(h) /\ b \in Bloque
      /\ logico \in [Archivos -> [Pagina -> Enlace]] /\ EnCommit(h)
  BY <1>1, FielEnElDedup DEF Largo
<1>3. CASE /\ UNCHANGED <<disco, bitmap, leido>>
           /\ \/ DedupSigue(h, loc[h])
              \/ DedupSigue(h, [loc[h] EXCEPT !.idx[dato[nodo[b]]] = b])
              \/ DedupSigue(h, [loc[h] EXCEPT !.modif = TRUE])
  <2>1. PICK l : /\ DedupSigue(h, l) /\ l \in Locales /\ l.lista = S
                 /\ l.modif = loc[h].modif \/ l.modif = TRUE
    <3> HIDE DEF b
    <3>1. /\ [loc[h] EXCEPT !.modif = TRUE] \in Locales
          /\ [loc[h] EXCEPT !.modif = TRUE].lista = S /\ [loc[h] EXCEPT !.modif = TRUE].modif = TRUE
      BY <1>2, ConModif DEF Locales
    <3>2. ASSUME NEW c
          PROVE  /\ PoneIndice(loc[h], c, b) \in Locales
                 /\ PoneIndice(loc[h], c, b).lista = S
                 /\ PoneIndice(loc[h], c, b).modif = loc[h].modif
      <4>1. PoneIndice(loc[h], c, b) \in Locales /\ PoneIndice(loc[h], c, b).lista = S
        BY <1>2, ConIndice
      <4> QED
        BY <1>2, <4>1 DEF PoneIndice, Locales
    <3>3. [loc[h] EXCEPT !.idx[dato[nodo[b]]] = b] = PoneIndice(loc[h], dato[nodo[b]], b)
      BY DEF PoneIndice
    <3> QED
      BY <1>2, <1>3, <3>1, <3>2, <3>3
  <2>2. Ir(h, "dedup_pag", [l EXCEPT !.pag = l.pag + 1])
    BY <2>1 DEF DedupSigue
  <2>3. /\ [l EXCEPT !.pag = l.pag + 1].lista = l.lista
        /\ [l EXCEPT !.pag = l.pag + 1].modif = l.modif
    BY <2>1 DEF Locales
  <2>4. meta' = meta /\ logico' = logico
    BY <1>3 DEF disco
  <2> QED
    BY <1>1, <2>1, <2>2, <2>3, <2>4, FielDedupQuieto
<1>4. CASE /\ e \notin {Nadie, b} /\ Enlazar(f, p, Nadie)
           /\ Ir(h, "dedup_link", [loc[h] EXCEPT !.lista[p + 1] = e, !.modif = TRUE])
  <2>1. e \in Bloque
    <3>1. loc[h].idx \in [Contenidos -> Bloque \cup {Nadie}]
      BY <1>2, CamposDe
    <3>2. nodo[b] # Nadie => dato[nodo[b]] \in Contenidos
      BY <1>2, DelHilo DEF DiscoOK, Enlace
    <3> QED
      BY <1>2, <1>4, <3>1, <3>2 DEF Indexado
  <2> HIDE DEF e, b
  <2> DEFINE l == Cambia(loc[h], p + 1, e)
             T == Puesto(S, p + 1, e)
  <2>2. Ir(h, "dedup_link", l)
    BY <1>4 DEF Cambia
  <2>3. l.lista = T /\ l.pag = p /\ l.modif = TRUE
    <3>1. loc[h] \in Locales
      BY <1>2
    <3> HIDE DEF S, p
    <3>2. \A k, x : /\ Cambia(loc[h], k, x).lista = Puesto(loc[h].lista, k, x)
                    /\ Cambia(loc[h], k, x).pag = loc[h].pag /\ Cambia(loc[h], k, x).modif = TRUE
      BY <3>1, CamposDeCambia
    <3> QED
      BY <3>2, Zenon DEF S, p
  <2> HIDE DEF l, T
  <2>4. pc'[h] = "dedup_link" /\ loc'[h] = l /\ pedido' = pedido
    BY <2>2, DelHilo, EfectoDeIr
  <2>5. Salvo(T, p, Nadie) = Salvo(S, p, Nadie)
    BY <1>1, <1>2, <2>1, LinksSalvo DEF T, Puesto
  <2>6. logico[f] = Completos(S)
    BY <1>1, <1>2 DEF ObraDedup
  <2>7. /\ meta' = meta /\ logico'[f] = Salvo(S, p, Nadie)
        /\ \A g \in Archivos \ {f} : logico'[g] = logico[g]
    BY <1>2, <1>4, <2>6, SalvoDeNuevo DEF Enlazar
  <2>8. ObraDedup(h)'
    BY <2>3, <2>4, <2>5, <2>7 DEF ObraDedup
  <2> QED
    BY <1>1, <2>2, <2>7, <2>8, FielDedupEnlace DEF PasosDedup
<1> QED
  BY <1>3, <1>4 DEF DedupPag

LEMMA FielDedupLink ==
  ASSUME InvBloques, Intacto, FielOK, NEW h \in Hilos, DedupLink(h)
  PROVE  FielOK'
<1> DEFINE f == pedido[h].f
           p == loc[h].pag
           S == loc[h].lista
           e == S[p + 1]
<1>1. pc[h] = "dedup_link" /\ pc[h] \in PasosDedup /\ ok' = ok
  BY DEF DedupLink, PasosDedup
<1>2. /\ f \in Archivos /\ ObraDedup(h) /\ S \in Seq(Bloque) /\ Len(S) = Largo(h)
      /\ logico \in [Archivos -> [Pagina -> Enlace]] /\ CursoOK(h)
  BY <1>1, FielEnElDedup
<1>3. p < Largo(h)
  BY <1>1, <1>2 DEF CursoOK
<1>4. p \in Pagina /\ p + 1 \in 1..Len(S) /\ p < Len(S)
  BY <1>1, <1>2, <1>3, FielEnElDedup
<1>5. e \in Bloque
  BY <1>2, <1>4
<1>6. nodo[e] = e /\ e # Nadie
  BY <1>5, BloquesAssumption DEF Intacto, Bloque
<1>7. Enlazar(f, p, e) /\ Ir(h, "dedup_bit", loc[h])
  BY <1>6 DEF DedupLink
<1>8. pc'[h] = "dedup_bit" /\ loc'[h] = loc[h] /\ pedido' = pedido
  BY <1>7, DelHilo, EfectoDeIr
<1>9. logico[f] = Salvo(S, p, Nadie) /\ loc[h].modif
  BY <1>1, <1>2 DEF ObraDedup
<1>10. /\ meta' = meta /\ logico'[f] = Salvo(S, p, e)
       /\ \A g \in Archivos \ {f} : logico'[g] = logico[g]
  BY <1>2, <1>4, <1>7, <1>9, SalvoDeNuevo DEF Enlazar
<1>11. Salvo(S, p, e) = Completos(S)
  BY <1>2, <1>4, SalvoCompleto
<1>12. ObraDedup(h)'
  BY <1>8, <1>9, <1>10, <1>11 DEF ObraDedup
<1> QED
  BY <1>1, <1>7, <1>10, <1>12, FielDedupEnlace DEF PasosDedup

LEMMA FielDedupBit ==
  ASSUME InvBloques, FielOK, NEW h \in Hilos, DedupBit(h) \/ DedupPersistir(h)
  PROVE  FielOK'
<1>1. /\ pc[h] \in {"dedup_bit", "dedup_persistir"} /\ pc[h] \in PasosDedup /\ ok' = ok
      /\ meta' = meta /\ logico' = logico
  BY DEF DedupBit, DedupPersistir, PasosDedup, PonerBitmap, PersistirBitmap, disco
<1>2. loc[h] \in Locales /\ ObraDedup(h)
  BY <1>1, FielEnElDedup
<1>3. loc[h].modif
  BY <1>1, <1>2 DEF ObraDedup
<1>4. PICK paso, l : /\ Ir(h, paso, l) /\ paso \in PasosDedup /\ paso # "dedup_link"
                     /\ l.lista = loc[h].lista /\ l.modif = loc[h].modif
  <2>1. CASE Ir(h, "dedup_persistir", loc[h])
    BY <2>1 DEF PasosDedup
  <2>2. CASE DedupSigue(h, loc[h])
    <3>1. /\ [loc[h] EXCEPT !.pag = loc[h].pag + 1].lista = loc[h].lista
          /\ [loc[h] EXCEPT !.pag = loc[h].pag + 1].modif = loc[h].modif
      BY <1>2 DEF Locales
    <3>2. Ir(h, "dedup_pag", [loc[h] EXCEPT !.pag = loc[h].pag + 1])
      BY <2>2 DEF DedupSigue
    <3> QED
      BY <3>1, <3>2 DEF PasosDedup
  <2> QED
    BY <2>1, <2>2 DEF DedupBit, DedupPersistir
<1> QED
  BY <1>1, <1>3, <1>4, FielDedupQuieto

LEMMA FielDedupGuardar ==
  ASSUME InvBloques, FielOK, NEW h \in Hilos, DedupGuardar(h)
  PROVE  FielOK'
<1> DEFINE f == pedido[h].f
           B == meta[f].blocks
           S == loc[h].lista
<1>1. /\ pc[h] = "dedup_pag" /\ pc[h] \in PasosDedup /\ Ir(h, "commit_estado", SinLocales)
      /\ ok' = ok /\ logico' = logico
      /\ meta' = [meta EXCEPT ![f].blocks = IF loc[h].modif THEN S ELSE B]
  BY DEF DedupGuardar, PasosDedup
<1>2. /\ f \in Archivos /\ Nombrados(pedido[h]) = {f} /\ ~SinCandado(pedido[h]) /\ Suyos(h)
      /\ ObraDedup(h) /\ S \in Seq(Bloque) /\ Len(S) = Largo(h) /\ Largo(h) = meta[f].tam
      /\ meta \in [Archivos -> Metas] /\ meta[f] \in Metas /\ ArchivoOK(f)
  BY <1>1, FielEnElDedup
<1>3. logico[f] = Completos(S) /\ (~loc[h].modif => S = B)
  BY <1>1, <1>2 DEF ObraDedup
<1>4. meta' = [meta EXCEPT ![f].blocks = S]
  BY <1>1, <1>3
<1>5. /\ meta'[f].blocks = S /\ meta'[f].tam = meta[f].tam /\ meta'[f].estado = meta[f].estado
      /\ \A g \in Archivos \ {f} : meta'[g] = meta[g]
  BY <1>2, <1>4 DEF Metas
<1>6. B = <<>> => S = <<>>
  <2>1. B = <<>> => Len(S) = 0
    BY <1>2 DEF Largo
  <2> QED
    BY <1>2, <2>1, EmptySeq
<1>7. ASSUME NEW g \in Nombrados(pedido[h]) PROVE ArchivoOK(g)' /\ Fiel(g)'
  <2>1. g = f
    BY <1>2
  <2> QED
    BY <1>1, <1>2, <1>3, <1>5, <1>6, <2>1 DEF ArchivoOK, ConMetadata, Fiel
<1>8. pc'[h] = "commit_estado"
  BY <1>1, DelHilo, EfectoDeIr
<1> QED
  BY <1>1, <1>2, <1>5, <1>7, <1>8, ObraTranquila, FielPaso

LEMMA FielCommitEstado ==
  ASSUME InvBloques, FielOK, NEW h \in Hilos, CommitEstado(h) \/ CommitPersistir(h)
  PROVE  FielOK'
<1> DEFINE f == pedido[h].f
<1>1. EnCommit(h) /\ \A g : ~EnObra(h, g)
  BY DEF CommitEstado, CommitPersistir, EnCommit, EnObra, EnTruncate, PasosDedup
<1>2. /\ f \in Archivos \ {Base} /\ Nombrados(pedido[h]) = {f} /\ ~SinCandado(pedido[h]) /\ Suyos(h)
  BY <1>1, EnElCommit DEF Nombrados
<1>3. CASE CommitEstado(h)
  <2>1. /\ Ir(h, "commit_persistir", SinLocales) /\ ok' = ok /\ logico' = logico
        /\ meta' = [meta EXCEPT ![f] = [meta[f] EXCEPT !.estado = "COMMITED"]]
    BY <1>3 DEF CommitEstado, PonerMeta
  <2>2. meta \in [Archivos -> Metas] /\ meta[f] \in Metas /\ ArchivoOK(f) /\ Fiel(f)
    BY <1>1, <1>2, DelArchivo, FielEnManos
  <2>3. /\ meta'[f].blocks = meta[f].blocks /\ meta'[f].tam = meta[f].tam
        /\ meta'[f].estado = "COMMITED"
        /\ \A g \in Archivos \ {f} : meta'[g] = meta[g]
    BY <1>2, <2>1, <2>2 DEF Metas
  <2>4. ASSUME NEW g \in Nombrados(pedido[h]) PROVE ArchivoOK(g)' /\ Fiel(g)'
    <3>1. g = f
      BY <1>2
    <3> QED
      BY <2>1, <2>2, <2>3, <3>1 DEF ArchivoOK, ConMetadata, Fiel
  <2>5. pc'[h] = "commit_persistir"
    BY <2>1, DelHilo, EfectoDeIr
  <2> QED
    BY <1>2, <2>1, <2>3, <2>4, <2>5, ObraTranquila, FielPaso
<1>4. CASE CommitPersistir(h)
  <2>1. Resultado(h, TRUE) /\ meta' = meta /\ logico' = logico
    BY <1>4 DEF CommitPersistir, PersistirBitmap
  <2> QED
    BY <1>1, <2>1, FielResultado
<1> QED
  BY <1>3, <1>4
-------------------------------------------------------------------------------
LEMMA FielOperacion ==
  ASSUME InvIntacto, Intacto, Supuestos, FielOK, NEW h \in Hilos, Operacion(h)
  PROVE  FielOK'
<1>1. InvBloques /\ SinDelete /\ DeAUna
  BY DEF InvIntacto, Supuestos
<1>2. ~(\/ Eliminar(h) \/ DelUnlink(h) \/ DelStat(h) \/ DelFisico(h) \/ DelBit(h)
        \/ DelPersistir(h) \/ DelRm(h))
  BY <1>1, SinOperacionDelete
<1>3. CASE Crear(h) \/ CrearMeta(h) \/ Leer(h) \/ Tag(h) \/ TagMeta(h) \/ TagLink(h)
  BY <1>1, <1>3, FielCrear, FielLeer, FielTag, FielTagMeta, FielTagLink
<1>4. CASE Truncar(h) \/ TruncCrecer(h) \/ TruncBajar(h) \/ TruncStat(h) \/ TruncLiberar(h)
           \/ TruncMeta(h)
  BY <1>1, <1>4, FielTruncar, FielTruncCrecer, FielTruncBajar, FielTruncMeta
<1>5. CASE \/ Flush(h) \/ EscribirBloque(h) \/ PrepararPagina(h) \/ Copiar(h) \/ Desenlazar(h)
           \/ Reenlazar(h) \/ GuardarBlocks(h) \/ EscribirPendiente(h) \/ TerminarEscritura(h)
  BY <1>1, <1>5, FielEscribir, FielPrepararPagina, FielCopiar, FielDesenlazar, FielReenlazar,
     FielGuardarBlocks, FielEscribirPendiente
<1>6. CASE \/ Commit(h) \/ DedupPag(h) \/ DedupLink(h) \/ DedupBit(h) \/ DedupPersistir(h)
           \/ DedupGuardar(h) \/ CommitEstado(h) \/ CommitPersistir(h)
  BY <1>1, <1>6, FielCommit, FielDedupPag, FielDedupLink, FielDedupBit, FielDedupGuardar,
     FielCommitEstado
<1> QED
  BY <1>2, <1>3, <1>4, <1>5, <1>6 DEF Operacion

\* A request that arrives, or is answered, is not inside any operation.
LEMMA FielPedir ==
  ASSUME InvBloques, FielOK, NEW h \in Hilos, Pedir(h) \/ Responder(h)
  PROVE  FielOK'
<1>1. /\ meta' = meta /\ logico' = logico
      /\ pc'[h] \in {"libre", "entrar"} /\ pc[h] \in {"libre", "responder"} /\ ok'[h]
  <2>1. HilosOK /\ ObraOK(h)
    BY DEF InvBloques, FielOK
  <2> QED
    BY <2>1 DEF Pedir, Responder, disco, HilosOK, ObraOK
<1>2. \A g \in Hilos \ {h} : /\ pc'[g] = pc[g] /\ loc'[g] = loc[g] /\ pedido'[g] = pedido[g]
                             /\ ok'[g] = ok[g]
  BY DelHilo DEF Pedir, Responder, HilosOK
<1>3. ASSUME NEW g \in Hilos \ {h} PROVE ObraOK(g)' /\ \A f : EnObra(g, f)' <=> EnObra(g, f)
  BY <1>1, <1>2, ObraIgual DEF FielOK
<1>4. (\A f : ~EnObra(h, f)) /\ ObraOK(h)'
  <2>1. \A f : ~EnObra(h, f)
    BY <1>1 DEF EnObra, EnTruncate, PasosDedup
  <2>2. ObraOK(h)'
    BY <1>1 DEF ObraOK, ObraCrear, ObraTag, ObraTruncar, ObraEscritura, ObraDedup, EnTag,
       EnTruncate, PasosDedup
  <2> QED
    BY <2>1, <2>2
<1>5. ASSUME NEW f \in Archivos PROVE ArchivoOK(f)' /\ (Fiel(f)' \/ \E g \in Hilos : EnObra(g, f)')
  <2>1. ArchivoOK(f) /\ (Fiel(f) \/ \E g \in Hilos : EnObra(g, f))
    BY DEF FielOK
  <2>2. ArchivoOK(f)' /\ Fiel(f)' = Fiel(f)
    BY <1>1, <2>1 DEF ArchivoOK, Fiel, ConMetadata
  <2> QED
    BY <1>3, <1>4, <2>1, <2>2
<1> QED
  BY <1>3, <1>4, <1>5 DEF FielOK

LEMMA FielAlInicio == Init => FielOK
<1> SUFFICES ASSUME Init PROVE FielOK
  OBVIOUS
<1>1. ASSUME NEW h \in Hilos PROVE ObraOK(h)
  BY DEF Init, ObraOK, ObraCrear, ObraTag, ObraTruncar, ObraEscritura, ObraDedup, EnTag,
     EnTruncate, PasosDedup
<1>2. Len(<<>>) = 0 /\ Len(<<0>>) = 1 /\ <<0>>[1] = 0
  OBVIOUS
<1>3. \A p \in Pagina : p \in Nat /\ ~(p < 0) /\ (p < 1 <=> p = 0)
  BY BloquesAssumption DEF Pagina
<1>4. ASSUME NEW f \in Archivos PROVE ArchivoOK(f) /\ Fiel(f)
  <2>1. logico[f] = [p \in Pagina |-> IF p = 0 /\ f \in YaCreados \cup {Base} THEN 0 ELSE Nadie]
    BY DEF Init
  <2>2. CASE f \in YaCreados \cup {Base}
    <3>1. /\ meta[f].blocks = <<0>> /\ ConMetadata(f) /\ (f # Base => meta[f].tam = 1)
      BY <2>2, BloquesAssumption DEF Init, ConMetadata
    <3>2. Completos(<<0>>) = [p \in Pagina |-> IF p = 0 THEN 0 ELSE Nadie]
      <4>1. \A p \in Pagina : Completos(<<0>>)[p] = IF p = 0 THEN 0 ELSE Nadie
        BY <1>2, <1>3 DEF Completos, Links
      <4> QED
        BY <4>1 DEF Completos, Links
    <3>3. logico[f] = Completos(<<0>>)
      BY <2>1, <2>2, <3>2
    <3> QED
      BY <1>2, <3>1, <3>3 DEF ArchivoOK, Fiel
  <2>3. CASE f \notin YaCreados \cup {Base}
    <3>1. meta[f].blocks = <<>> /\ meta[f].tam = 0
      BY <2>3 DEF Init, SinMeta
    <3>2. Completos(<<>>) = [p \in Pagina |-> Nadie]
      BY <1>2, <1>3 DEF Completos, Links
    <3>3. logico[f] = Completos(<<>>)
      BY <2>1, <2>3, <3>2
    <3> QED
      BY <1>2, <3>1, <3>3 DEF ArchivoOK, Fiel
  <2> QED
    BY <2>2, <2>3
<1> QED
  BY <1>1, <1>4 DEF FielOK

LEMMA FielSigue == InvFiel /\ [Next]_vars => InvFiel'
<1> SUFFICES ASSUME InvFiel, [Next]_vars PROVE InvFiel'
  OBVIOUS
<1>1. InvIntacto /\ InvIntacto' /\ InvBloques
  BY IntactoPaso DEF InvFiel, InvIntacto
<1>2. caidas' \in Nat /\ (Supuestos' => Supuestos /\ ~Caer)
  <2>1. ASSUME NEW h \in Hilos, Operacion(h) PROVE UNCHANGED entorno
    BY <2>1, EntornoIgual
  <2>2. CASE Caer
    <3>1. caidas \in Nat /\ caidas' = caidas + 1
      BY <2>2 DEF Caer, InvFiel
    <3> QED
      BY <3>1 DEF Supuestos
  <2>3. CASE ~Caer
    <3>1. mezcla' = mezcla /\ caidas' = caidas
      BY <2>1, <2>3 DEF Next, Pedir, Responder, vars, entorno
    <3> QED
      BY <2>3, <3>1 DEF InvFiel, Supuestos, SinDelete, DeAUna
  <2> QED
    BY <2>2, <2>3
<1>3. ASSUME Supuestos, ~Caer PROVE FielOK'
  <2>1. FielOK /\ Intacto
    BY <1>3 DEF InvFiel, InvIntacto, Supuestos
  <2>2. CASE \E h \in Hilos : Operacion(h)
    BY <1>1, <1>3, <2>1, <2>2, FielOperacion
  <2>3. CASE \E h \in Hilos : Pedir(h) \/ Responder(h)
    BY <1>1, <2>1, <2>3, FielPedir
  <2>4. CASE UNCHANGED vars
    <3>1. \A f \in Archivos : (ArchivoOK(f) <=> ArchivoOK(f)') /\ (Fiel(f) <=> Fiel(f)')
      BY <2>4 DEF ArchivoOK, Fiel, ConMetadata, vars, disco, entorno
    <3>2. \A h \in Hilos, f \in Archivos : EnObra(h, f) <=> EnObra(h, f)'
      BY <2>4 DEF EnObra, EnTruncate, vars, entorno
    <3>3. \A h \in Hilos : ObraOK(h)'
      <4> SUFFICES ASSUME NEW h \in Hilos PROVE ObraOK(h)'
        OBVIOUS
      <4>1. ObraCrear(h)' /\ ObraTag(h)' /\ ObraDedup(h)'
        BY <2>1, <2>4 DEF FielOK, ObraOK, ObraCrear, ObraTag, ObraDedup, EnTag, ConMetadata, vars, disco, entorno
      <4>2. ObraTruncar(h)'
        BY <2>1, <2>4 DEF FielOK, ObraOK, ObraTruncar, EnTruncate, ConMetadata, vars, disco, entorno
      <4>3. ObraEscritura(h)'
        BY <2>1, <2>4 DEF FielOK, ObraOK, ObraEscritura, EnCurso, vars, disco, entorno
      <4> QED
        BY <2>1, <2>4, <4>1, <4>2, <4>3 DEF FielOK, ObraOK, vars, entorno
    <3> QED
      BY <2>1, <3>1, <3>2, <3>3 DEF FielOK
  <2> QED
    BY <1>3, <2>2, <2>3, <2>4 DEF Next
<1> QED
  BY <1>1, <1>2, <1>3 DEF InvFiel

\* The inductive invariant holds in every state that Storage reaches.
THEOREM FielSiempre == Spec => []InvFiel
<1>1. Init => InvFiel
  <2>1. Init => InvIntacto
    BY BloquesAlInicio, IntactoAlInicio DEF InvIntacto
  <2>2. Init => caidas \in Nat
    BY DEF Init
  <2> QED
    BY <2>1, <2>2, FielAlInicio DEF InvFiel
<1>2. InvFiel /\ [Next]_vars => InvFiel'
  BY FielSigue
<1> QED
  BY <1>1, <1>2, PTL DEF Spec

\* While nobody holds the mutex of a file:tag its BLOCKS names the blocks it links, whatever
\* operations run at once on the others, as long as there is no DELETE, each FLUSH brings
\* one page and Storage has not crashed (truncar_file, escribir_bloque, evitar_duplicidad).
THEOREM MetadataSiempreFiel == Spec => [](Supuestos => MetadataFiel)
<1>1. InvFiel => (Supuestos => MetadataFiel)
  <2> SUFFICES ASSUME InvFiel, Supuestos, NEW f \in Archivos, Tomable(f)
               PROVE  \A p \in Pagina : logico[f][p] = IF p < Len(meta[f].blocks)
                                                       THEN nodo[meta[f].blocks[p + 1]] ELSE Nadie
    BY DEF MetadataFiel
  <2>1. InvBloques /\ Intacto /\ FielOK
    BY DEF InvFiel, InvIntacto, Supuestos
  <2>2. Fiel(f)
    <3>1. \A h \in Hilos : ~EnObra(h, f)
      BY <2>1, TieneLaObra DEF Tomable
    <3> QED
      BY <2>1, <3>1 DEF FielOK
  <2>3. meta[f].blocks \in Seq(Bloque) /\ Len(meta[f].blocks) \in Nat
    BY <2>1, DelArchivo
  <2>4. ASSUME NEW p \in Pagina
        PROVE  logico[f][p] = IF p < Len(meta[f].blocks) THEN nodo[meta[f].blocks[p + 1]] ELSE Nadie
    <3>1. logico[f][p] = IF p < Len(meta[f].blocks) THEN meta[f].blocks[p + 1] ELSE Nadie
      BY <2>2 DEF Fiel, Completos, Links
    <3>2. p < Len(meta[f].blocks) => meta[f].blocks[p + 1] \in Bloque
      BY <2>3, BloquesAssumption DEF Pagina
    <3>3. \A b \in Bloque : nodo[b] = b
      BY <2>1 DEF Intacto
    <3> QED
      BY <3>1, <3>2, <3>3
  <2> QED
    BY <2>4
<1> QED
  BY <1>1, FielSiempre, PTL
===============================================================================
