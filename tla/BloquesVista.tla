----------------------------- MODULE BloquesVista -----------------------------
(***************************************************************************)
(* Bloques implements ArchivosFS, for every number of threads, file:tags   *)
(* and blocks: each request takes effect at one instant, wholly or not at  *)
(* all, on its own file:tag only.  It does in the behaviours of            *)
(* BloquesArchivos (SinTropiezos).                                         *)
(*                                                                         *)
(* By what a thread writes in (Toma) and what the pages name, what is seen *)
(* of a file:tag is changed only by the thread that has its mutex, and by  *)
(* that one only in the step where the request takes effect.               *)
(***************************************************************************)
EXTENDS BloquesArchivos

(* What is seen of a file:tag depends on nobody but the thread that has it.       *)

Atiende(h, f) == Adentro(h) /\ f \in Nombrados(pedido[h])
Solo(h, f) == \A g \in Hilos \ {h} : ~Atiende(g, f)

Contenido(f) == IF EstadoVisto(f) = "ausente" THEN <<>>
                ELSE [i \in 1..LargoVisto(f) |-> PaginaVista(f, i - 1)]

\* The same for the thread h, when no other has f.
EstadoMio(h, f) == IF ~ConMetadata(f) \/ (EnTag(h) /\ pedido[h].d = f) THEN "ausente"
                   ELSE meta[f].estado
LargoMio(h, f) == IF Achicando(h) /\ pedido[h].f = f THEN pedido[h].n ELSE meta[f].tam
NodoVisto(f, p) == IF logico[f][p] # Nadie THEN logico[f][p] ELSE BloqueDe(f, p)
PaginaMia(h, f, p) == IF Escribiendo(h) /\ pedido[h].f = f /\ PendienteDe(h, p) # {}
                      THEN loc[h].pend[1][3] ELSE dato[NodoVisto(f, p)]
ContenidoMio(h, f) == IF EstadoMio(h, f) = "ausente" THEN <<>>
                      ELSE [i \in 1..LargoMio(h, f) |-> PaginaMia(h, f, i - 1)]

\* Nobody deletes.
LEMMA NadieBorra ==
  ASSUME Sano, NEW h \in Hilos
  PROVE  pedido[h].op # "DELETE" /\ ~EnDelete(h)
<1>1. InvBloques /\ SinDelete /\ HilosOK
  BY DeSano DEF InvBloques
<1>2. pedido[h].op # "DELETE"
  <2>1. pedido[h] \in mezcla \/ pedido[h] = SinPedido
    BY <1>1 DEF HilosOK
  <2> QED
    BY <1>1, <2>1 DEF SinDelete, SinPedido
<1>3. EnDelete(h) => pedido[h].op = "DELETE"
  BY <1>1, EnElDelete
<1> QED
  BY <1>2, <1>3

\* A file:tag is in the hands of one thread at most.
LEMMA AtiendeUno ==
  ASSUME InvBloques, NEW f, NEW g \in Hilos, Atiende(g, f)
  PROVE  f \in Tiene(g) /\ Solo(g, f)
<1>1. \A h \in Hilos : Atiende(h, f) => f \in Tiene(h)
  <2> SUFFICES ASSUME NEW h \in Hilos, Atiende(h, f) PROVE f \in Tiene(h)
    OBVIOUS
  <2>1. pedido[h].f # Base /\ pc[h] # "libre" /\ OpOK(h)
    BY DelHilo DEF Atiende, Adentro, OpOK
  <2> QED
    BY <2>1 DEF Tiene, Atiende, Adentro, SinCandado
<1>2. Exclusivos
  BY DEF InvBloques
<1> QED
  BY <1>1, <1>2 DEF Solo, Exclusivos

LEMMA SoloMio ==
  ASSUME InvBloques, NEW h \in Hilos, Suyos(h), ~SinCandado(pedido[h])
  PROVE  \A f \in Nombrados(pedido[h]) : Solo(h, f)
BY AtiendeUno DEF Solo, Suyos

LEMMA EstadoVistoEs ==
  ASSUME Sano, NEW h \in Hilos, NEW f \in Archivos, Solo(h, f)
  PROVE  EstadoVisto(f) = EstadoMio(h, f)
<1>1. ~Borrando(f)
  BY NadieBorra DEF Borrando, EnDelete
<1>2. Armando(f) <=> EnTag(h) /\ pedido[h].d = f
  <2>1. ASSUME NEW g \in Hilos, EnTag(g), pedido[g].d = f PROVE g = h
    <3>1. Atiende(g, f)
      BY <2>1, EnElTag, DeSano DEF Atiende
    <3> QED
      BY <3>1 DEF Solo
  <2> QED
    BY <2>1 DEF Armando, EnTag
<1> QED
  BY <1>1, <1>2 DEF EstadoVisto, EstadoMio

\* A thread whose request has taken effect already.
LEMMA QuienHizo ==
  ASSUME InvBloques, NEW g \in Hilos, Achicando(g) \/ Escribiendo(g)
  PROVE  /\ Atiende(g, pedido[g].f)
         /\ Achicando(g) => EnTruncate(g)
         /\ Escribiendo(g) => EnEscritura(g)
<1>1. Achicando(g) => EnTruncate(g)
  BY DEF Achicando, EnTruncate
<1>2. Escribiendo(g) => EnEscritura(g)
  BY DEF Escribiendo, EnEscritura
<1> QED
  BY <1>1, <1>2, ElSuyo DEF Atiende, Adentro, EnTruncate, EnEscritura

LEMMA LargoVistoEs ==
  ASSUME Sano, NEW h \in Hilos, NEW f \in Archivos, Solo(h, f)
  PROVE  LargoVisto(f) = LargoMio(h, f) /\ LargoMio(h, f) \in 0..MaxPaginas
<1>1. InvBloques
  BY DeSano
<1>2. \A g \in Hilos : Achicando(g) /\ pedido[g].f = f => g = h
  BY <1>1, QuienHizo DEF Solo
<1>3. CASE Achicando(h) /\ pedido[h].f = f
  <2>1. (CHOOSE g \in Hilos : Achicando(g) /\ pedido[g].f = f) = h
    BY <1>2, <1>3
  <2>2. pedido[h].n \in 0..MaxPaginas
    BY <1>1, <1>3, QuienHizo, EnElTruncate
  <2> QED
    BY <1>3, <2>1, <2>2 DEF LargoVisto, LargoMio
<1>4. CASE ~(Achicando(h) /\ pedido[h].f = f)
  <2>1. ~\E g \in Hilos : Achicando(g) /\ pedido[g].f = f
    BY <1>2, <1>4
  <2>2. meta[f].tam \in 0..MaxPaginas
    BY <1>1, DeSano, DelArchivo
  <2> QED
    BY <1>4, <2>1, <2>2 DEF LargoVisto, LargoMio
<1> QED
  BY <1>3, <1>4

\* The inode that a page shows is a block.
LEMMA NodoVistoEs ==
  ASSUME Sano, NEW f \in Archivos, NEW p \in Pagina
  PROVE  NodoVisto(f, p) \in Bloque /\ NodoVisto(f, p) \in Nodo
<1>1. DiscoOK /\ Intacto /\ p \in Nat
  BY DeSano DEF InvBloques, Pagina
<1>2. NodoVisto(f, p) \in Bloque
  BY <1>1, BloqueDeEs DEF NodoVisto, Intacto
<1> QED
  BY <1>2, BloquesAssumption DEF Bloque, Nodo

LEMMA PaginaVistaEs ==
  ASSUME Sano, NEW h \in Hilos, NEW f \in Archivos, Solo(h, f), NEW p \in Pagina
  PROVE  PaginaVista(f, p) = PaginaMia(h, f, p)
<1> DEFINE quien == {g \in Hilos : Escribiendo(g) /\ pedido[g].f = f /\ PendienteDe(g, p) # {}}
           n == IF logico[f][p] # Nadie THEN logico[f][p] ELSE nodo[BloqueDe(f, p)]
<1>1. InvBloques /\ Intacto /\ DiscoOK /\ p \in Nat
  BY DeSano DEF InvBloques, Pagina
<1>2. \A g \in Hilos : Escribiendo(g) /\ pedido[g].f = f => g = h
  BY <1>1, QuienHizo DEF Solo
<1>3. n = NodoVisto(f, p) /\ n # Nadie
  <2>1. BloqueDe(f, p) \in Bloque
    BY <1>1, BloqueDeEs
  <2>2. nodo[BloqueDe(f, p)] = BloqueDe(f, p)
    BY <1>1, <2>1 DEF Intacto
  <2>3. Nadie \notin Bloque
    BY BloquesAssumption DEF Bloque
  <2> QED
    BY <2>1, <2>2, <2>3 DEF NodoVisto
<1>4. CASE Escribiendo(h) /\ pedido[h].f = f /\ PendienteDe(h, p) # {}
  <2>1. quien = {h}
    BY <1>2, <1>4
  <2>2. PendienteDe(h, p) = {1}
    <3>1. EnEscritura(h) /\ loc[h].pend \in Seq(Pagina \X Bloque \X Contenidos)
      BY <1>1, <1>4, QuienHizo, EnLaEscritura, CamposDe
    <3>2. loc[h].pend # <<>>
      BY <1>4 DEF PendienteDe
    <3>3. Len(loc[h].pend) = 1
      BY <3>1, <3>2, DeSano DEF ArchivosOK, EscrituraOK
    <3>4. DOMAIN loc[h].pend = {1}
      BY <3>1, <3>3
    <3> QED
      BY <1>4, <3>4 DEF PendienteDe
  <2>3. (CHOOSE g \in quien : TRUE) = h /\ (CHOOSE i \in PendienteDe(h, p) : TRUE) = 1
    BY <2>1, <2>2
  <2> HIDE DEF quien
  <2>4. PaginaVista(f, p) = loc[h].pend[1][3]
    BY <2>1, <2>3 DEF PaginaVista, quien
  <2> QED
    BY <1>4, <2>4 DEF PaginaMia
<1>5. CASE ~(Escribiendo(h) /\ pedido[h].f = f /\ PendienteDe(h, p) # {})
  <2>1. quien = {}
    BY <1>2, <1>5
  <2> HIDE DEF quien, n
  <2>2. PaginaVista(f, p) = dato[n]
    BY <1>3, <2>1 DEF PaginaVista, quien, n
  <2> QED
    BY <1>3, <1>5, <2>2 DEF PaginaMia
<1> QED
  BY <1>4, <1>5

VistaBien == \A h \in Hilos, f \in Archivos : Solo(h, f) =>
                 EstadoVisto(f) = EstadoMio(h, f) /\ Contenido(f) = ContenidoMio(h, f)

LEMMA VistaMia == Sano => VistaBien
<1> SUFFICES ASSUME Sano, NEW h \in Hilos, NEW f \in Archivos, Solo(h, f)
             PROVE  EstadoVisto(f) = EstadoMio(h, f) /\ Contenido(f) = ContenidoMio(h, f)
  BY DEF VistaBien
<1>1. EstadoVisto(f) = EstadoMio(h, f)
  BY EstadoVistoEs
<1>2. LargoVisto(f) = LargoMio(h, f) /\ LargoMio(h, f) \in 0..MaxPaginas
  BY LargoVistoEs
<1>3. \A i \in 1..LargoMio(h, f) : PaginaVista(f, i - 1) = PaginaMia(h, f, i - 1)
  <2>1. \A i \in 1..LargoMio(h, f) : i - 1 \in Pagina
    BY <1>2, BloquesAssumption DEF Pagina
  <2> QED
    BY <2>1, PaginaVistaEs
<1> QED
  BY <1>1, <1>2, <1>3 DEF Contenido, ContenidoMio

LEMMA VistaMiaLuego == Sano' => VistaBien'
BY VistaMia, PTL

-------------------------------------------------------------------------------
(* What a step leaves as it was, and what its answer is.                          *)

Igual(f) == EstadoVisto(f)' = EstadoVisto(f) /\ Contenido(f)' = Contenido(f)

\* What a page shows is block 0, or kept by the page, or given up by a COMMIT that is about to
\* link the page to another block.
LEMMA VistoGuardado ==
  ASSUME Sano, NEW g \in Hilos, NEW f \in Archivos, Solo(g, f), NEW p \in Pagina, p < LargoMio(g, f)
  PROVE  LET n == NodoVisto(f, p) IN
         \/ n = 0
         \/ Guarda(f, p, n)
         \/ \E k \in Hilos : pedido[k].f = f /\ pc[k] = "dedup_link" /\ Reclama(k, n)
<1> DEFINE n == NodoVisto(f, p)
           B == meta[f].blocks
<1>1. InvBloques /\ FielOK /\ OcupadoOK /\ p \in Nat /\ B \in Seq(Bloque) /\ Len(B) \in Nat
  BY DeSano, DelArchivo DEF Pagina
<1> SUFFICES ASSUME logico[f][p] = Nadie, p < Len(B), ~Guarda(f, p, n)
             PROVE  \E k \in Hilos : pedido[k].f = f /\ pc[k] = "dedup_link" /\ Reclama(k, n)
  BY <1>1 DEF NodoVisto, BloqueDe, Guarda
<1>2. n = B[p + 1] /\ n = BloqueDe(f, p)
  BY DEF NodoVisto, BloqueDe
<1>3. PICK k \in Hilos : pedido[k].f = f /\ Deja(k, p)
  BY <1>2 DEF Guarda
<1>4. k = g /\ Adentro(k)
  <2>1. Adentro(k)
    BY <1>3, SoloAdentro
  <2> QED
    BY <1>3, <2>1, ElSuyo DEF Solo, Atiende
<1>5. EnDedup(k)
  <2> SUFFICES ASSUME ~EnDedup(k) PROVE FALSE
    OBVIOUS
  <2>1. EnTruncate(k)
    BY <1>3 DEF Deja, EnTruncate
  <2>2. /\ Achica(k) => pedido[k].n <= loc[k].pag
        /\ loc[k].pag \in Nat /\ pedido[k].n \in Nat
    BY <1>1, <2>1, EnMedioDelTruncate
  <2>3. f # Base /\ Len(B) = meta[f].tam
    BY <1>1, <1>3, <2>1, FielEnElTruncate
  <2>4. CASE Achica(k)
    <3>1. Achicando(k)
      BY <2>4 DEF Achica, Achicando
    <3>2. p < pedido[k].n
      BY <1>3, <1>4, <3>1 DEF LargoMio
    <3> QED
      BY <1>1, <1>3, <2>2, <2>4, <3>2 DEF Deja, Achica, EnDedup
  <2>5. CASE ~Achica(k)
    <3>1. pc[k] = "trunc_meta" /\ p >= pedido[k].n
      BY <1>3, <2>5 DEF Deja, Achica
    <3>2. CASE Achicando(k)
      BY <1>1, <1>3, <1>4, <2>2, <3>1, <3>2 DEF LargoMio
    <3>3. CASE ~Achicando(k)
      <4>1. ~(pedido[k].n <= meta[f].tam)
        BY <1>3, <3>1, <3>3 DEF Achicando
      <4> QED
        BY <1>1, <2>2, <2>3, <3>1, <4>1
    <3> QED
      BY <3>2, <3>3
  <2> QED
    BY <2>4, <2>5
<1>6. ObraDedup(k) /\ loc[k].lista \in Seq(Bloque) /\ Len(loc[k].lista) = Len(B) /\ loc[k].pag \in Nat
  BY <1>1, <1>3, <1>5, FielEnElDedup DEF EnDedup, Largo
<1>7. Completos(loc[k].lista)[p] # Nadie
  <2>1. loc[k].lista[p + 1] \in Bloque /\ Nadie \notin Bloque
    <3>1. p + 1 \in 1..Len(loc[k].lista)
      BY <1>1, <1>6
    <3>2. loc[k].lista[p + 1] \in Bloque
      BY <1>6, <3>1
    <3> QED
      BY <3>2, BloquesAssumption DEF Bloque
  <2> QED
    BY <1>1, <1>6, <2>1 DEF Completos, Links
<1>8. pc[k] = "dedup_link" /\ p = loc[k].pag
  <2>1. logico[f] = IF pc[k] = "dedup_link" THEN Salvo(loc[k].lista, loc[k].pag, Nadie)
                    ELSE Completos(loc[k].lista)
    BY <1>3, <1>5, <1>6 DEF ObraDedup, EnDedup
  <2>2. pc[k] = "dedup_link"
    BY <1>7, <2>1
  <2>3. p # loc[k].pag => Salvo(loc[k].lista, loc[k].pag, Nadie)[p] = Completos(loc[k].lista)[p]
    BY DEF Salvo, Completos, Links
  <2> QED
    BY <1>7, <2>1, <2>2, <2>3
<1> QED
  BY <1>2, <1>3, <1>8 DEF Reclama

\* A thread that writes leaves what the file:tags of the others show.
LEMMA VistoIntacto ==
  ASSUME Sano, NEW h \in Hilos, Escribe(h), NEW g \in Hilos,
         NEW f \in Archivos \ {pedido[h].f}, Solo(g, f), NEW p \in Pagina, p < LargoMio(g, f)
  PROVE  dato'[NodoVisto(f, p)] = dato[NodoVisto(f, p)]
<1> DEFINE n == NodoVisto(f, p)
<1>1. n \in Bloque
  BY NodoVistoEs
<1>2. \/ n = 0
      \/ Guarda(f, p, n)
      \/ \E k \in Hilos : pedido[k].f = f /\ pc[k] = "dedup_link" /\ Reclama(k, n)
  BY VistoGuardado
<1> HIDE DEF n
<1>3. ASSUME n = 0 PROVE dato'[n] = dato[n]
  BY <1>3, NoSeEscribe
<1>4. ASSUME Guarda(f, p, n) PROVE dato'[n] = dato[n]
  BY <1>1, <1>4, NoSeEscribe
<1>5. ASSUME \E k \in Hilos : pedido[k].f = f /\ pc[k] = "dedup_link" /\ Reclama(k, n)
      PROVE  dato'[n] = dato[n]
  <2>1. PICK k \in Hilos : pedido[k].f = f /\ Reclama(k, n)
    BY <1>5
  <2>2. k \in Hilos \ {h}
    BY <2>1
  <2> QED
    BY <1>1, <2>1, <2>2, NoSeEscribe
<1>6. dato'[n] = dato[n]
  BY <1>2, <1>3, <1>4, <1>5
<1> QED
  BY <1>6 DEF n

\* A file:tag is seen as before when nothing of it changes, nor the thread that has it.
LEMMA VistaIgual ==
  ASSUME Sano, Sano', NEW g \in Hilos, NEW f \in Archivos, Solo(g, f), Solo(g, f)',
         meta'[f] = meta[f], logico'[f] = logico[f],
         \/ pc'[g] = pc[g] /\ loc'[g] = loc[g] /\ ok'[g] = ok[g] /\ pedido'[g] = pedido[g]
         \/ ~Atiende(g, f) /\ ~Atiende(g, f)',
         \A p \in Pagina : p < LargoMio(g, f) => dato'[NodoVisto(f, p)] = dato[NodoVisto(f, p)]
  PROVE  Igual(f)
<1>1. /\ EstadoVisto(f) = EstadoMio(g, f) /\ Contenido(f) = ContenidoMio(g, f)
      /\ EstadoVisto(f)' = EstadoMio(g, f)' /\ Contenido(f)' = ContenidoMio(g, f)'
  BY VistaMia, VistaMiaLuego DEF VistaBien
<1>2. InvBloques /\ InvBloques' /\ LargoMio(g, f) \in 0..MaxPaginas
  BY LargoVistoEs DEF Sano, InvIntacto
<1>3. ~Atiende(g, f) => ~(EnTag(g) /\ pedido[g].d = f) /\ ~(Achicando(g) /\ pedido[g].f = f)
                        /\ ~(Escribiendo(g) /\ pedido[g].f = f)
  BY <1>2, QuienHizo, EnElTag DEF Atiende
<1>4. ~Atiende(g, f)' => ~(EnTag(g)' /\ pedido'[g].d = f) /\ ~(Achicando(g)' /\ pedido'[g].f = f)
                         /\ ~(Escribiendo(g)' /\ pedido'[g].f = f)
  <2>1. ASSUME EnTag(g)', pedido'[g].d = f PROVE Atiende(g, f)'
    <3>1. OpOK(g)'
      BY <1>2 DEF InvBloques
    <3> QED
      BY <2>1, <3>1 DEF Atiende, Adentro, Nombrados, OpOK, EnTag
  <2>2. ASSUME Achicando(g)' \/ Escribiendo(g)', pedido'[g].f = f PROVE Atiende(g, f)'
    BY <2>2 DEF Atiende, Adentro, Nombrados, Achicando, Escribiendo
  <2> QED
    BY <2>1, <2>2
<1>5. EstadoMio(g, f)' = EstadoMio(g, f)
  BY <1>3, <1>4 DEF EstadoMio, ConMetadata, EnTag
<1>6. LargoMio(g, f)' = LargoMio(g, f)
  BY <1>3, <1>4 DEF LargoMio, Achicando
<1>7. \A p \in Pagina : NodoVisto(f, p)' = NodoVisto(f, p)
  BY DEF NodoVisto, BloqueDe
<1>8. \A p \in Pagina : p < LargoMio(g, f) => PaginaMia(g, f, p)' = PaginaMia(g, f, p)
  BY <1>3, <1>4, <1>7 DEF PaginaMia, Escribiendo, PendienteDe
<1>9. \A i \in 1..LargoMio(g, f) : PaginaMia(g, f, i - 1)' = PaginaMia(g, f, i - 1)
  <2>1. \A i \in 1..LargoMio(g, f) : i - 1 \in Pagina /\ i - 1 < LargoMio(g, f)
    BY <1>2, BloquesAssumption DEF Pagina
  <2> QED
    BY <1>8, <2>1
<1>10. ContenidoMio(g, f)' = ContenidoMio(g, f)
  BY <1>5, <1>6, <1>9 DEF ContenidoMio
<1> QED
  BY <1>1, <1>5, <1>10 DEF Igual

LEMMA MiaIgual ==
  ASSUME Sano, Sano', NEW h \in Hilos, NEW f \in Archivos, Solo(h, f), Solo(h, f)',
         EstadoMio(h, f)' = EstadoMio(h, f),
         EstadoMio(h, f) # "ausente" =>
             /\ LargoMio(h, f)' = LargoMio(h, f)
             /\ \A p \in Pagina : p < LargoMio(h, f) => PaginaMia(h, f, p)' = PaginaMia(h, f, p)
  PROVE  Igual(f)
<1>1. /\ EstadoVisto(f) = EstadoMio(h, f) /\ Contenido(f) = ContenidoMio(h, f)
      /\ EstadoVisto(f)' = EstadoMio(h, f)' /\ Contenido(f)' = ContenidoMio(h, f)'
  BY VistaMia, VistaMiaLuego DEF VistaBien
<1>2. CASE EstadoMio(h, f) = "ausente"
  BY <1>1, <1>2 DEF Igual, ContenidoMio
<1>3. CASE EstadoMio(h, f) # "ausente"
  <2>1. LargoMio(h, f) \in 0..MaxPaginas
    BY LargoVistoEs
  <2>2. \A i \in 1..LargoMio(h, f) : i - 1 \in Pagina /\ i - 1 < LargoMio(h, f)
    BY <2>1, BloquesAssumption DEF Pagina
  <2>3. \A i \in 1..LargoMio(h, f) : PaginaMia(h, f, i - 1)' = PaginaMia(h, f, i - 1)
    BY <1>3, <2>2
  <2> QED
    BY <1>1, <1>3, <2>3 DEF Igual, ContenidoMio
<1> QED
  BY <1>2, <1>3

LEMMA FaseEs ==
  ASSUME Sano, NEW h \in Hilos
  PROVE  Fase(h) = IF pc[h] = "libre" THEN "libre"
                   ELSE IF pc[h] = "responder" THEN (IF ok[h] THEN "ok" ELSE "error")
                   ELSE IF Achicando(h) \/ Escribiendo(h) \/ pc[h] = "commit_persistir" THEN "ok"
                   ELSE "pedida"
<1>1. pedido[h].op # "DELETE"
  BY NadieBorra
<1>2. pc[h] \in {"libre", "responder"} => ~Achicando(h) /\ ~Escribiendo(h) /\ pc[h] # "commit_persistir"
  BY DEF Achicando, Escribiendo
<1>3. CASE pc[h] = "libre"
  BY <1>1, <1>2, <1>3 DEF Fase
<1>4. CASE pc[h] = "responder"
  BY <1>1, <1>2, <1>4 DEF Fase
<1>5. CASE pc[h] \notin {"libre", "responder"}
  BY <1>1, <1>5 DEF Fase
<1> QED
  BY <1>3, <1>4, <1>5

FaseBien == \A h \in Hilos :
    Fase(h) = IF pc[h] = "libre" THEN "libre"
              ELSE IF pc[h] = "responder" THEN (IF ok[h] THEN "ok" ELSE "error")
              ELSE IF Achicando(h) \/ Escribiendo(h) \/ pc[h] = "commit_persistir" THEN "ok"
              ELSE "pedida"
LEMMA FaseVista == Sano => FaseBien
BY FaseEs DEF FaseBien
LEMMA FaseLuego == Sano' => FaseBien'
BY FaseVista, PTL

\* What a step of h leaves as it was.
LEMMA LoAjeno ==
  ASSUME Sano, Sano', NEW h \in Hilos, EnLoPedido(h), Escribe(h)
  PROVE  /\ \A f \in Archivos \ Nombrados(pedido[h]) : Igual(f)
         /\ \A f \in Archivos \cap Nombrados(pedido[h]) : Solo(h, f) /\ Solo(h, f)'
         /\ \A g \in Hilos \ {h} : Fase(g)' = Fase(g)
         /\ pedido' = pedido
<1>1. InvBloques /\ Suyos(h) /\ ~SinCandado(pedido[h]) /\ pedido[h].f \in Nombrados(pedido[h])
  BY DeSano, ElSuyo DEF EnLoPedido
<1>2. /\ pedido' = pedido
      /\ \A g \in Hilos \ {h} :
            /\ pc'[g] = pc[g] /\ loc'[g] = loc[g] /\ ok'[g] = ok[g] /\ pedido'[g] = pedido[g]
            /\ Adentro(g) => meta'[pedido[g].f] = meta[pedido[g].f]
  BY <1>1, OtrosHilos
<1>3. \A g \in Hilos \ {h} : \A f : Atiende(g, f)' <=> Atiende(g, f)
  BY <1>2 DEF Atiende, Adentro
<1>4. \A f \in Nombrados(pedido[h]) : Solo(h, f) /\ Solo(h, f)'
  BY <1>1, <1>3, SoloMio DEF Solo
<1>5. ASSUME NEW f \in Archivos \ Nombrados(pedido[h]) PROVE Igual(f)
  <2>1. ~Atiende(h, f) /\ ~Atiende(h, f)'
    BY <1>2 DEF Atiende
  <2>2. PICK g \in Hilos : Solo(g, f)
    <3>1. CASE \E g \in Hilos : Atiende(g, f)
      BY <1>1, <3>1, AtiendeUno
    <3>2. CASE ~\E g \in Hilos : Atiende(g, f)
      BY <3>2 DEF Solo
    <3> QED
      BY <3>1, <3>2
  <2>3. Solo(g, f)'
    BY <1>3, <2>1, <2>2 DEF Solo
  <2>4. meta'[f] = meta[f] /\ logico'[f] = logico[f]
    BY DEF EnLoPedido
  <2>5. \A p \in Pagina : p < LargoMio(g, f) => dato'[NodoVisto(f, p)] = dato[NodoVisto(f, p)]
    BY <1>1, <2>2, VistoIntacto
  <2>6. \/ pc'[g] = pc[g] /\ loc'[g] = loc[g] /\ ok'[g] = ok[g] /\ pedido'[g] = pedido[g]
        \/ ~Atiende(g, f) /\ ~Atiende(g, f)'
    BY <1>2, <2>1
  <2> QED
    BY <2>2, <2>3, <2>4, <2>5, <2>6, VistaIgual
<1>6. ASSUME NEW g \in Hilos \ {h} PROVE Fase(g)' = Fase(g)
  <2>1. Achicando(g)' = Achicando(g)
    BY <1>2, <1>6 DEF Achicando, Adentro
  <2>2. Escribiendo(g)' = Escribiendo(g)
    BY <1>2, <1>6 DEF Escribiendo
  <2> QED
    BY <1>2, <1>6, <2>1, <2>2, FaseVista, FaseLuego DEF FaseBien
<1> QED
  BY <1>2, <1>4, <1>5, <1>6

\* The steps that are seen by nobody.
LEMMA PasoMudo ==
  ASSUME \A f \in Archivos : Igual(f), \A g \in Hilos : Fase(g)' = Fase(g),
         pedido' = pedido, leido' = leido
  PROVE  UNCHANGED Abs!vars
<1>1. [f \in Archivos |-> EstadoVisto(f)]' = [f \in Archivos |-> EstadoVisto(f)]
  BY DEF Igual
<1>2. [f \in Archivos |-> Contenido(f)]' = [f \in Archivos |-> Contenido(f)]
  BY DEF Igual
<1>3. [h \in Hilos |-> Fase(h)]' = [h \in Hilos |-> Fase(h)]
  OBVIOUS
<1> QED
  BY <1>1, <1>2, <1>3 DEF Abs!vars, Contenido

LEMMA PasoPone ==
  ASSUME NEW f \in Archivos, NEW e, NEW c, EstadoVisto(f)' = e, Contenido(f)' = c,
         \A g \in Archivos \ {f} : Igual(g)
  PROVE  Abs!Poner(f, e, c)
<1>1. [g \in Archivos |-> EstadoVisto(g)]' = [[g \in Archivos |-> EstadoVisto(g)] EXCEPT ![f] = e]
  BY DEF Igual
<1>2. [g \in Archivos |-> Contenido(g)]' = [[g \in Archivos |-> Contenido(g)] EXCEPT ![f] = c]
  BY DEF Igual
<1> QED
  BY <1>1, <1>2 DEF Abs!Poner, Contenido

LEMMA PasoHecho ==
  ASSUME NEW h \in Hilos, NEW p, p = pedido[h], p.f \in Archivos,
         Fase(h) = "pedida", Fase(h)' = "ok", \A g \in Hilos \ {h} : Fase(g)' = Fase(g),
         pedido' = pedido, Abs!Valido(p), Abs!Efecto(p),
         \/ p.op # "READ" /\ leido' = leido
         \/ p.op = "READ" /\ leido' = [leido EXCEPT ![h] = Contenido(p.f)[p.p + 1]]
  PROVE  Abs!Hacer(h)
<1>1. [g \in Hilos |-> Fase(g)]' = [[g \in Hilos |-> Fase(g)] EXCEPT ![h] = "ok"]
  OBVIOUS
<1>2. [g \in Hilos |-> Fase(g)][h] = "pedida"
  OBVIOUS
<1>3. leido' = IF p.op = "READ" THEN [leido EXCEPT ![h] = Contenido(p.f)[p.p + 1]] ELSE leido
  OBVIOUS
<1>4. p.op = "READ" => [f \in Archivos |-> Contenido(f)][p.f] = Contenido(p.f)
  OBVIOUS
<1>5. leido' = IF pedido[h].op = "READ"
               THEN [leido EXCEPT ![h] = [f \in Archivos |-> Contenido(f)][pedido[h].f][pedido[h].p + 1]]
               ELSE leido
  BY <1>3, <1>4
<1>6. Abs!Valido(pedido[h]) /\ Abs!Efecto(pedido[h])
  OBVIOUS
<1> QED
  BY <1>1, <1>2, <1>5, <1>6 DEF Abs!Hacer, Contenido

LEMMA PasoRechazado ==
  ASSUME NEW h \in Hilos, NEW p, p = pedido[h],
         Fase(h) = "pedida", Fase(h)' = "error", \A g \in Hilos \ {h} : Fase(g)' = Fase(g),
         pedido' = pedido, leido' = leido, \A f \in Archivos : Igual(f),
         ~Abs!Valido(p) \/ p.op \in {"FLUSH", "WRITE"}
  PROVE  Abs!Rechazar(h)
<1>1. [g \in Hilos |-> Fase(g)]' = [[g \in Hilos |-> Fase(g)] EXCEPT ![h] = "error"]
  OBVIOUS
<1>2. [g \in Hilos |-> Fase(g)][h] = "pedida"
  OBVIOUS
<1>3. [f \in Archivos |-> EstadoVisto(f)]' = [f \in Archivos |-> EstadoVisto(f)]
  BY DEF Igual
<1>4. [f \in Archivos |-> Contenido(f)]' = [f \in Archivos |-> Contenido(f)]
  BY DEF Igual
<1> QED
  BY <1>1, <1>2, <1>3, <1>4 DEF Abs!Rechazar, Contenido

\* What each request asks for, said of what is seen.
LEMMA ValidoEs ==
  ASSUME NEW p, NEW f \in Archivos, p.f = f
  PROVE  /\ p.op = "CREATE" => (Abs!Valido(p) <=> EstadoVisto(f) = "ausente")
         /\ p.op = "TRUNCATE" => (Abs!Valido(p) <=> f # Base /\ EstadoVisto(f) = "WORK_IN_PROGRESS")
         /\ p.op = "TAG" => \A d \in Archivos : p.d = d =>
               (Abs!Valido(p) <=> f # Base /\ EstadoVisto(f) # "ausente" /\ EstadoVisto(d) = "ausente")
         /\ p.op = "READ" =>
               (Abs!Valido(p) <=> EstadoVisto(f) # "ausente" /\ p.p < Len(Contenido(f)))
         /\ p.op \in {"FLUSH", "WRITE"} =>
               (Abs!Valido(p) <=> /\ f # Base /\ EstadoVisto(f) = "WORK_IN_PROGRESS"
                                  /\ \A i \in DOMAIN p.paginas : p.paginas[i][1] < Len(Contenido(f)))
         /\ p.op = "COMMIT" => (Abs!Valido(p) <=> f # Base /\ EstadoVisto(f) # "ausente")
<1>1. [g \in Archivos |-> EstadoVisto(g)][f] = EstadoVisto(f)
  OBVIOUS
<1>2. [g \in Archivos |-> Contenido(g)][f] = Contenido(f)
  OBVIOUS
<1>3. p.op = "CREATE" => (Abs!Valido(p) <=> EstadoVisto(f) = "ausente")
  BY <1>1 DEF Abs!Valido, Abs!Existe
<1>4. p.op = "TRUNCATE" => (Abs!Valido(p) <=> f # Base /\ EstadoVisto(f) = "WORK_IN_PROGRESS")
  BY <1>1 DEF Abs!Valido, Abs!Editable
<1>5. ASSUME p.op = "TAG", NEW d \in Archivos, p.d = d
      PROVE  Abs!Valido(p) <=> f # Base /\ EstadoVisto(f) # "ausente" /\ EstadoVisto(d) = "ausente"
  BY <1>5 DEF Abs!Valido, Abs!Existe
<1>6. p.op = "READ" => (Abs!Valido(p) <=> EstadoVisto(f) # "ausente" /\ p.p < Len(Contenido(f)))
  BY <1>1, <1>2 DEF Abs!Valido, Abs!Existe, Contenido
<1>7. p.op \in {"FLUSH", "WRITE"} =>
         (Abs!Valido(p) <=> /\ f # Base /\ EstadoVisto(f) = "WORK_IN_PROGRESS"
                            /\ \A i \in DOMAIN p.paginas : p.paginas[i][1] < Len(Contenido(f)))
  BY <1>1, <1>2 DEF Abs!Valido, Abs!Editable, Abs!Dentro, Contenido
<1>8. p.op = "COMMIT" => (Abs!Valido(p) <=> f # Base /\ EstadoVisto(f) # "ausente")
  BY <1>1 DEF Abs!Valido, Abs!Existe
<1> QED
  BY <1>3, <1>4, <1>5, <1>6, <1>7, <1>8

\* A thread that neither writes its pages, nor shrinks its file:tag, nor makes a new one.
Callado(h) == ~EnTag(h) /\ ~Achicando(h) /\ ~Escribiendo(h)

CalladoBien == \A h \in Hilos, f \in Archivos : Callado(h) /\ Solo(h, f) =>
    LET e == IF ConMetadata(f) THEN meta[f].estado ELSE "ausente"
        t == meta[f].tam IN
    /\ EstadoVisto(f) = e
    /\ EstadoMio(h, f) = e /\ LargoMio(h, f) = t /\ t \in 0..MaxPaginas
    /\ \A p \in Pagina : PaginaMia(h, f, p) = dato[NodoVisto(f, p)]
    /\ e = "ausente" => Contenido(f) = <<>>
    /\ e # "ausente" => /\ Contenido(f) = [i \in 1..t |-> dato[NodoVisto(f, i - 1)]]
                        /\ Len(Contenido(f)) = t

LEMMA CalladoVista == Sano => CalladoBien
<1> SUFFICES ASSUME Sano, NEW h \in Hilos, NEW f \in Archivos, Callado(h), Solo(h, f)
             PROVE  LET e == IF ConMetadata(f) THEN meta[f].estado ELSE "ausente"
                        t == meta[f].tam IN
                    /\ EstadoVisto(f) = e
                    /\ EstadoMio(h, f) = e /\ LargoMio(h, f) = t /\ t \in 0..MaxPaginas
                    /\ \A p \in Pagina : PaginaMia(h, f, p) = dato[NodoVisto(f, p)]
                    /\ e = "ausente" => Contenido(f) = <<>>
                    /\ e # "ausente" => /\ Contenido(f) = [i \in 1..t |-> dato[NodoVisto(f, i - 1)]]
                                        /\ Len(Contenido(f)) = t
  BY DEF CalladoBien
<1> DEFINE e == IF ConMetadata(f) THEN meta[f].estado ELSE "ausente"
           t == meta[f].tam
<1>1. EstadoVisto(f) = EstadoMio(h, f) /\ Contenido(f) = ContenidoMio(h, f)
  BY VistaMia DEF VistaBien
<1>2. EstadoMio(h, f) = e /\ LargoMio(h, f) = t
  BY DEF EstadoMio, LargoMio, Callado
<1>3. \A p \in Pagina : PaginaMia(h, f, p) = dato[NodoVisto(f, p)]
  BY DEF PaginaMia, Callado
<1>4. t \in 0..MaxPaginas
  BY <1>2, LargoVistoEs
<1>5. \A i \in 1..t : i - 1 \in Pagina
  BY <1>4, BloquesAssumption DEF Pagina
<1> HIDE DEF e, t
<1>6. e = "ausente" => Contenido(f) = <<>>
  BY <1>1, <1>2 DEF ContenidoMio
<1>7. e # "ausente" => Contenido(f) = [i \in 1..t |-> dato[NodoVisto(f, i - 1)]]
  BY <1>1, <1>2, <1>3, <1>5 DEF ContenidoMio
<1>8. e # "ausente" => Len(Contenido(f)) = t
  BY <1>4, <1>7
<1> QED
  BY <1>1, <1>2, <1>3, <1>4, <1>6, <1>7, <1>8 DEF e, t

LEMMA CalladoLuego == Sano' => CalladoBien'
BY CalladoVista, PTL

\* Such a thread leaves its file:tag as it was when no page shows something else.
LEMMA CalladoIgual ==
  ASSUME Sano, Sano', NEW h \in Hilos, Callado(h), Callado(h)',
         NEW f \in Archivos, Solo(h, f), Solo(h, f)',
         meta'[f].estado = meta[f].estado \/ (~ConMetadata(f) /\ ~ConMetadata(f)'),
         ConMetadata(f) => /\ meta'[f].tam = meta[f].tam
                           /\ \A p \in Pagina : p < meta[f].tam =>
                                 dato'[NodoVisto(f, p)'] = dato[NodoVisto(f, p)]
  PROVE  Igual(f)
<1>1. EstadoMio(h, f)' = EstadoMio(h, f)
  BY DEF EstadoMio, Callado, ConMetadata
<1>2. EstadoMio(h, f) # "ausente" => ConMetadata(f)
  BY DEF EstadoMio
<1>3. LargoMio(h, f) = meta[f].tam /\ LargoMio(h, f)' = meta'[f].tam
  BY DEF LargoMio, Callado
<1>4. \A p \in Pagina : /\ PaginaMia(h, f, p) = dato[NodoVisto(f, p)]
                        /\ PaginaMia(h, f, p)' = dato'[NodoVisto(f, p)']
  BY DEF PaginaMia, Callado
<1> QED
  BY <1>1, <1>2, <1>3, <1>4, MiaIgual

\* The step is seen by nobody.
LEMMA Mudo ==
  ASSUME Sano, Sano', NEW h \in Hilos, EnLoPedido(h), Escribe(h), Fase(h)' = Fase(h),
         leido' = leido, \A f \in Archivos \cap Nombrados(pedido[h]) : Igual(f)
  PROVE  [Abs!Next]_(Abs!vars)
<1>1. \A f \in Archivos : Igual(f)
  BY LoAjeno
<1>2. \A g \in Hilos : Fase(g)' = Fase(g)
  BY LoAjeno
<1> QED
  BY <1>1, <1>2, LoAjeno, PasoMudo

\* The request is refused.
LEMMA Rehusado ==
  ASSUME Sano, Sano', NEW h \in Hilos, EnLoPedido(h), Escribe(h),
         Fase(h) = "pedida", Fase(h)' = "error", leido' = leido,
         \A f \in Archivos \cap Nombrados(pedido[h]) : Igual(f),
         ~Abs!Valido(pedido[h]) \/ pedido[h].op \in {"FLUSH", "WRITE"}
  PROVE  [Abs!Next]_(Abs!vars)
<1>1. \A f \in Archivos : Igual(f)
  BY LoAjeno
<1>2. Abs!Rechazar(h)
  BY <1>1, LoAjeno, PasoRechazado
<1> QED
  BY <1>2 DEF Abs!Next

\* And the request is granted.
LEMMA Concedido ==
  ASSUME Sano, Sano', NEW h \in Hilos, EnLoPedido(h), Escribe(h), pedido[h].f \in Archivos,
         Fase(h) = "pedida", Fase(h)' = "ok", Abs!Valido(pedido[h]), Abs!Efecto(pedido[h]),
         \/ pedido[h].op # "READ" /\ leido' = leido
         \/ /\ pedido[h].op = "READ"
            /\ leido' = [leido EXCEPT ![h] = Contenido(pedido[h].f)[pedido[h].p + 1]]
  PROVE  [Abs!Next]_(Abs!vars)
<1>1. Abs!Hacer(h)
  BY LoAjeno, PasoHecho
<1> QED
  BY <1>1 DEF Abs!Next

-------------------------------------------------------------------------------
(* Each step is one of ArchivosFS or is seen by nobody: CREATE, READ.             *)

\* A thread inside an operation has its file:tag for itself.
LEMMA EnMedio ==
  ASSUME Sano, NEW h \in Hilos, Adentro(h)
  PROVE  /\ InvBloques /\ Suyos(h) /\ ~SinCandado(pedido[h]) /\ pc[h] # "libre"
         /\ pedido[h].f \in Archivos \ {Base} /\ pedido[h].f \in Nombrados(pedido[h])
         /\ pedido[h].op # "TAG" => Nombrados(pedido[h]) = {pedido[h].f}
         /\ \A f \in Nombrados(pedido[h]) : Solo(h, f)
<1>1. InvBloques /\ pc[h] \notin {"libre", "entrar"}
  BY DeSano DEF Adentro
<1>2. Suyos(h) /\ pedido[h].f \in Archivos /\ pedido[h].f # Base
  BY <1>1, SuyosAdentro, DelPedido, DelHilo DEF OpOK
<1>3. ~SinCandado(pedido[h])
  BY <1>2 DEF SinCandado
<1> QED
  BY <1>1, <1>2, <1>3, SoloMio, ElSuyo DEF Nombrados

\* And one that has just taken the mutexes sees what is there.
LEMMA AlEntrar ==
  ASSUME Sano, NEW h \in Hilos, NEW op, Empieza(h, op), ~SinCandado(pedido[h])
  PROVE  /\ InvBloques /\ Suyos(h) /\ pc[h] = "entrar" /\ pedido[h].op = op /\ Callado(h)
         /\ Fase(h) = "pedida" /\ pedido[h].f \in Archivos /\ pedido[h].f \in Nombrados(pedido[h])
         /\ op # "TAG" => Nombrados(pedido[h]) = {pedido[h].f}
         /\ \A f \in Archivos \cap Nombrados(pedido[h]) :
               /\ Solo(h, f) /\ EstadoVisto(f) = meta[f].estado
               /\ meta[f].estado \in {"ausente", "WORK_IN_PROGRESS", "COMMITED"}
<1>1. InvBloques /\ pc[h] = "entrar" /\ pedido[h].op = op /\ Suyos(h)
  BY DeSano, SuyosAlEntrar DEF Empieza
<1>2. Callado(h) /\ Fase(h) = "pedida"
  <2>1. Callado(h)
    BY <1>1 DEF Callado, EnTag, Achicando, Escribiendo
  <2> QED
    BY <1>1, <2>1, FaseEs DEF Callado
<1>3. pedido[h].f \in Archivos /\ pedido[h].f \in Nombrados(pedido[h])
  BY <1>1, DelPedido
<1>4. ASSUME NEW f \in Archivos \cap Nombrados(pedido[h])
      PROVE  /\ Solo(h, f) /\ EstadoVisto(f) = meta[f].estado
             /\ meta[f].estado \in {"ausente", "WORK_IN_PROGRESS", "COMMITED"}
  <2>1. Solo(h, f)
    BY <1>1, SoloMio
  <2>2. meta[f].estado # "carpeta"
    BY <1>1, SinCarpeta
  <2>3. meta[f].estado \in Estados
    BY <1>1, SonMetas DEF InvBloques, DiscoOK
  <2>4. EstadoVisto(f) = IF ConMetadata(f) THEN meta[f].estado ELSE "ausente"
    BY <1>2, <2>1, CalladoVista DEF CalladoBien
  <2> QED
    BY <2>1, <2>2, <2>3, <2>4 DEF Estados, ConMetadata
<1> QED
  BY <1>1, <1>2, <1>3, <1>4 DEF Nombrados

LEMMA AlTerminar ==
  ASSUME Sano, Sano', NEW h \in Hilos, NEW r \in BOOLEAN, Resultado(h, r)
  PROVE  pc'[h] = "responder" /\ Callado(h)' /\ Fase(h)' = IF r THEN "ok" ELSE "error"
<1>1. pc'[h] = "responder"
  BY DeSano, AlResponder
<1>2. ok'[h] = r
  BY DeSano DEF Resultado, InvBloques, HilosOK
<1>3. Callado(h)'
  BY <1>1 DEF Callado, EnTag, Achicando, Escribiendo
<1> QED
  BY <1>1, <1>2, <1>3, FaseLuego DEF FaseBien

LEMMA AlSeguir ==
  ASSUME Sano', NEW h \in Hilos, Callado(h)', pc'[h] \notin {"libre", "responder", "commit_persistir"}
  PROVE  Fase(h)' = "pedida"
BY FaseLuego DEF FaseBien, Callado

\* A thread that changes nothing.
LEMMA NadaCambia ==
  ASSUME Sano, Sano', NEW h \in Hilos, EnLoPedido(h), UNCHANGED <<meta, logico, dato>>,
         Callado(h), Callado(h)'
  PROVE  Escribe(h) /\ \A f \in Archivos \cap Nombrados(pedido[h]) : Igual(f)
<1>1. Escribe(h)
  BY DEF Escribe
<1>2. ASSUME NEW f \in Archivos \cap Nombrados(pedido[h]) PROVE Igual(f)
  <2>1. Solo(h, f) /\ Solo(h, f)'
    BY <1>1, LoAjeno
  <2>2. \A p \in Pagina : NodoVisto(f, p)' = NodoVisto(f, p)
    BY DEF NodoVisto, BloqueDe
  <2> QED
    BY <2>1, <2>2, CalladoIgual
<1> QED
  BY <1>1, <1>2

LEMMA AlFallar ==
  ASSUME Sano, Sano', NEW h \in Hilos, EnLoPedido(h), Fase(h) = "pedida", Callado(h), Falla(h),
         ~Abs!Valido(pedido[h]) \/ pedido[h].op \in {"FLUSH", "WRITE"}
  PROVE  [Abs!Next]_(Abs!vars)
<1>1. UNCHANGED <<meta, logico, dato, leido>> /\ Resultado(h, FALSE)
  BY DEF Falla, disco
<1>2. Callado(h)' /\ Fase(h)' = "error"
  BY <1>1, AlTerminar
<1> QED
  BY <1>1, <1>2, NadaCambia, Rehusado

LEMMA VistaCrear ==
  ASSUME Sano, Sano', NEW h \in Hilos, Crear(h)
  PROVE  [Abs!Next]_(Abs!vars)
<1> DEFINE p == pedido[h]
<1>1. Empieza(h, "CREATE") /\ ~SinCandado(pedido[h])
  BY DEF Crear, Empieza, SinCandado
<1>2. PICK f \in Archivos : f = p.f
  BY <1>1, AlEntrar
<1>3. /\ InvBloques /\ Callado(h) /\ Fase(h) = "pedida" /\ p.op = "CREATE"
      /\ Nombrados(p) = {f} /\ EstadoVisto(f) = meta[f].estado
  BY <1>1, <1>2, AlEntrar
<1>4. EnLoPedido(h) /\ dato' = dato
  BY <1>1, <1>3, TrabajaCorto
<1>5. CASE meta[f].estado # "ausente"
  <2>1. Falla(h)
    BY <1>2, <1>5 DEF Crear
  <2>2. ~Abs!Valido(pedido[h])
    BY <1>2, <1>5, <1>3, ValidoEs
  <2> QED
    BY <1>4, <1>3, <2>1, <2>2, AlFallar
<1>6. CASE meta[f].estado = "ausente"
  <2>1. PonerMeta(f, [SinMeta EXCEPT !.estado = "carpeta"]) /\ Ir(h, "crear_meta", SinLocales)
    BY <1>2, <1>6 DEF Crear
  <2>2. pc'[h] = "crear_meta"
    BY <1>3, <2>1, DelHilo, EfectoDeIr
  <2>3. Callado(h)'
    BY <2>2 DEF Callado, EnTag, Achicando, Escribiendo
  <2>4. Fase(h)' = "pedida" /\ Escribe(h) /\ leido' = leido
    BY <1>4, <2>1, <2>2, <2>3, AlSeguir DEF Escribe, PonerMeta
  <2>5. ~ConMetadata(f) /\ ~ConMetadata(f)'
    <3>1. meta'[f] = [SinMeta EXCEPT !.estado = "carpeta"]
      BY <1>3, <2>1 DEF PonerMeta, InvBloques, DiscoOK
    <3> QED
      BY <1>6, <3>1 DEF ConMetadata, SinMeta
  <2>6. Solo(h, f) /\ Solo(h, f)'
    BY <1>4, <1>3, <2>4, LoAjeno
  <2>7. Igual(f)
    BY <1>3, <2>3, <2>5, <2>6, CalladoIgual
  <2> QED
    BY <1>4, <1>3, <2>4, <2>7, Mudo
<1> QED
  BY <1>5, <1>6

LEMMA VistaCrearMeta ==
  ASSUME Sano, Sano', NEW h \in Hilos, CrearMeta(h)
  PROVE  [Abs!Next]_(Abs!vars)
<1> DEFINE p == pedido[h]
<1>1. pc[h] = "crear_meta" /\ Adentro(h)
  BY DEF CrearMeta, Adentro
<1>2. PICK f \in Archivos : f = p.f /\ f # Base
  BY <1>1, EnMedio
<1>3. p.op = "CREATE" /\ Nombrados(p) = {f} /\ Solo(h, f) /\ InvBloques
  BY <1>1, <1>2, EnMedio, DelHilo DEF OpOK
<1>4. EnLoPedido(h) /\ dato' = dato
  BY <1>1, <1>3, EnMedio, TrabajaCorto
<1>5. Resultado(h, TRUE) /\ PonerMeta(f, [SinMeta EXCEPT !.estado = "WORK_IN_PROGRESS"])
  BY <1>2 DEF CrearMeta
<1>6. Callado(h)' /\ Fase(h)' = "ok" /\ Escribe(h) /\ leido' = leido
  BY <1>4, <1>5, AlTerminar DEF Escribe, PonerMeta
<1>7. Callado(h) /\ Fase(h) = "pedida"
  <2>1. Callado(h)
    BY <1>1 DEF Callado, EnTag, Achicando, Escribiendo
  <2> QED
    BY <1>1, <2>1, FaseEs DEF Callado
<1>8. Solo(h, f)'
  BY <1>3, <1>4, <1>6, LoAjeno
<1>9. EstadoVisto(f) = "ausente"
  <2>1. ~ConMetadata(f)
    BY <1>1, <1>2, DeSano DEF FielOK, ObraOK, ObraCrear
  <2> QED
    BY <1>3, <1>7, <2>1, CalladoVista DEF CalladoBien
<1>10. EstadoVisto(f)' = "WORK_IN_PROGRESS" /\ Contenido(f)' = <<>>
  <2>1. meta'[f] = [SinMeta EXCEPT !.estado = "WORK_IN_PROGRESS"]
    BY <1>3, <1>5 DEF PonerMeta, InvBloques, DiscoOK
  <2>2. meta'[f].estado = "WORK_IN_PROGRESS" /\ meta'[f].tam = 0 /\ ConMetadata(f)'
    BY <2>1 DEF SinMeta, ConMetadata
  <2>3. EstadoVisto(f)' = "WORK_IN_PROGRESS"
    BY <1>6, <1>8, <2>2, CalladoLuego DEF CalladoBien
  <2>4. Contenido(f)' = [i \in 1..0 |-> dato'[NodoVisto(f, i - 1)']]
    BY <1>6, <1>8, <2>2, CalladoLuego DEF CalladoBien
  <2>5. 1..0 = {}
    OBVIOUS
  <2>6. Contenido(f)' = <<>>
    BY <2>4, <2>5
  <2> QED
    BY <2>3, <2>6
<1>11. Abs!Poner(f, "WORK_IN_PROGRESS", <<>>)
  BY <1>3, <1>4, <1>6, <1>10, LoAjeno, PasoPone
<1>12. Abs!Valido(p) /\ Abs!Efecto(p)
  <2>1. Abs!Valido(p)
    BY <1>2, <1>3, <1>9, ValidoEs
  <2>2. Abs!Efecto(p)
    BY <1>2, <1>3, <1>11 DEF Abs!Efecto
  <2> QED
    BY <2>1, <2>2
<1> QED
  BY <1>2, <1>3, <1>4, <1>6, <1>7, <1>12, Concedido

\* What a granted request does, said of what is seen.
LEMMA EfectoTruncate ==
  ASSUME NEW p, NEW f \in Archivos, p.f = f, p.op = "TRUNCATE", NEW e, e = EstadoVisto(f),
         NEW s, s = Contenido(f), NEW c, c = [i \in 1..p.n |-> IF i <= Len(s) THEN s[i] ELSE Cero],
         Abs!Poner(f, e, c)
  PROVE  Abs!Efecto(p)
<1>1. [g \in Archivos |-> EstadoVisto(g)][f] = e /\ [g \in Archivos |-> Contenido(g)][f] = s
  OBVIOUS
<1>2. [i \in 1..p.n |-> IF i <= Len([g \in Archivos |-> Contenido(g)][p.f])
                        THEN [g \in Archivos |-> Contenido(g)][p.f][i] ELSE Cero] = c
  BY <1>1
<1>3. Abs!Poner(p.f, [g \in Archivos |-> EstadoVisto(g)][p.f],
                [i \in 1..p.n |-> IF i <= Len([g \in Archivos |-> Contenido(g)][p.f])
                                  THEN [g \in Archivos |-> Contenido(g)][p.f][i] ELSE Cero])
  BY <1>1, <1>2
<1> QED
  BY <1>3 DEF Abs!Efecto, Contenido

LEMMA EfectoTag ==
  ASSUME NEW p, NEW f \in Archivos, p.f = f, NEW d \in Archivos, p.d = d, p.op = "TAG",
         NEW c, c = Contenido(f), Abs!Poner(d, "WORK_IN_PROGRESS", c)
  PROVE  Abs!Efecto(p)
<1>1. [g \in Archivos |-> Contenido(g)][f] = c
  OBVIOUS
<1> QED
  BY <1>1 DEF Abs!Efecto, Contenido

LEMMA EfectoEscritura ==
  ASSUME NEW p, NEW f \in Archivos, p.f = f, p.op \in {"FLUSH", "WRITE"}, NEW e, e = EstadoVisto(f),
         NEW s, s = Contenido(f), NEW c, c = Abs!Escritos(s, p.paginas), Abs!Poner(f, e, c)
  PROVE  Abs!Efecto(p)
<1>1. [g \in Archivos |-> EstadoVisto(g)][f] = e /\ [g \in Archivos |-> Contenido(g)][f] = s
  OBVIOUS
<1>2. Abs!Poner(p.f, [g \in Archivos |-> EstadoVisto(g)][p.f],
                Abs!Escritos([g \in Archivos |-> Contenido(g)][p.f], p.paginas))
  BY <1>1
<1>3. CASE p.op = "FLUSH"
  BY <1>2, <1>3 DEF Abs!Efecto, Contenido
<1>4. CASE p.op = "WRITE"
  BY <1>2, <1>4 DEF Abs!Efecto, Contenido
<1> QED
  BY <1>3, <1>4

LEMMA EfectoCommit ==
  ASSUME NEW p, NEW f \in Archivos, p.f = f, p.op = "COMMIT", NEW c, c = Contenido(f),
         Abs!Poner(f, "COMMITED", c)
  PROVE  Abs!Efecto(p)
<1>1. [g \in Archivos |-> Contenido(g)][f] = c
  OBVIOUS
<1> QED
  BY <1>1 DEF Abs!Efecto, Contenido

LEMMA EfectoRead ==
  ASSUME NEW p, p.op = "READ", \A f \in Archivos : Igual(f)
  PROVE  Abs!Efecto(p)
<1>1. [f \in Archivos |-> EstadoVisto(f)]' = [f \in Archivos |-> EstadoVisto(f)]
  BY DEF Igual
<1>2. [f \in Archivos |-> Contenido(f)]' = [f \in Archivos |-> Contenido(f)]
  BY DEF Igual
<1> QED
  BY <1>1, <1>2 DEF Abs!Efecto, Contenido

\* The pages of a file:tag that nobody is working on are there to be read.
LEMMA TodoLegible ==
  ASSUME Sano, NEW h \in Hilos, Suyos(h), ~SinCandado(pedido[h]), NEW f \in Archivos,
         f \in Nombrados(pedido[h]), ~EnObra(h, f), NEW p \in Nat, p < meta[f].tam
  PROVE  /\ Legible(f, p) /\ p \in Pagina /\ f # Base /\ Len(meta[f].blocks) = meta[f].tam
         /\ logico[f][p] = meta[f].blocks[p + 1] /\ NodoVisto(f, p) = logico[f][p]
<1> DEFINE B == meta[f].blocks
<1>1. f # Base
  BY DEF Sano, BaseVacia
<1>2. /\ B \in Seq(Bloque) /\ Len(B) = meta[f].tam /\ meta[f].tam \in 0..MaxPaginas
      /\ logico[f] = Completos(B)
  BY <1>1, DeSano, DelArchivo, FielEnManos DEF Fiel
<1>3. p \in Pagina
  BY <1>2, BloquesAssumption DEF Pagina
<1>4. B[p + 1] \in Bloque /\ Nadie \notin Bloque
  <2>1. p + 1 \in 1..Len(B)
    BY <1>2
  <2>2. B[p + 1] \in Bloque
    BY <1>2, <2>1
  <2> QED
    BY <2>2, BloquesAssumption DEF Bloque
<1>5. logico[f][p] = B[p + 1]
  BY <1>2, <1>3, <1>4 DEF Completos, Links
<1> QED
  BY <1>1, <1>2, <1>3, <1>4, <1>5 DEF Legible, NodoVisto

LEMMA VistaLeer ==
  ASSUME Sano, Sano', NEW h \in Hilos, Leer(h)
  PROVE  [Abs!Next]_(Abs!vars)
<1> DEFINE p == pedido[h]
           k == p.p
<1>1. Empieza(h, "READ") /\ ~SinCandado(pedido[h])
  BY DEF Leer, Empieza, SinCandado
<1>2. PICK f \in Archivos : f = p.f
  BY <1>1, AlEntrar
<1>3. /\ InvBloques /\ Callado(h) /\ Fase(h) = "pedida" /\ p.op = "READ" /\ Suyos(h) /\ pc[h] = "entrar"
      /\ Nombrados(p) = {f} /\ EstadoVisto(f) = meta[f].estado /\ Solo(h, f)
      /\ meta[f].estado \in {"ausente", "WORK_IN_PROGRESS", "COMMITED"}
  BY <1>1, <1>2, AlEntrar
<1>4. EnLoPedido(h) /\ dato' = dato /\ k \in Nat /\ ~EnObra(h, f)
  BY <1>1, <1>3, TrabajaCorto, DelPedido, SinObra DEF Adentro
<1>5. Abs!Valido(p) <=> EstadoVisto(f) # "ausente" /\ k < Len(Contenido(f))
  BY <1>2, <1>3, ValidoEs
<1>6. ConMetadata(f) => Len(Contenido(f)) = meta[f].tam /\ meta[f].tam \in Nat
                        /\ Contenido(f) = [i \in 1..meta[f].tam |-> dato[NodoVisto(f, i - 1)]]
  BY <1>3, CalladoVista DEF CalladoBien, ConMetadata
<1>7. CASE ~ConMetadata(f) \/ ~Legible(f, k)
  <2>1. Falla(h)
    BY <1>2, <1>7 DEF Leer
  <2>2. ~Abs!Valido(p)
    <3>1. CASE ~ConMetadata(f)
      BY <1>3, <1>5, <3>1 DEF ConMetadata
    <3>2. CASE ConMetadata(f) /\ ~Legible(f, k)
      <4>1. ~(k < meta[f].tam)
        BY <1>1, <1>3, <1>4, <3>2, TodoLegible
      <4> QED
        BY <1>5, <1>6, <3>2, <4>1
    <3> QED
      BY <1>7, <3>1, <3>2
  <2> QED
    BY <1>3, <1>4, <2>1, <2>2, AlFallar
<1>8. CASE ConMetadata(f) /\ Legible(f, k)
  <2>1. /\ leido' = [leido EXCEPT ![h] = dato[logico[f][k]]]
        /\ Resultado(h, TRUE) /\ UNCHANGED <<meta, logico, dato>>
    BY <1>2, <1>8 DEF Leer, disco
  <2>2. Callado(h)' /\ Fase(h)' = "ok"
    BY <2>1, AlTerminar
  <2>3. Escribe(h) /\ \A g \in Archivos : Igual(g)
    BY <1>3, <1>4, <2>1, <2>2, NadaCambia, LoAjeno
  <2>4. Abs!Valido(p)
    BY <1>5, <1>6, <1>8, <1>3 DEF Legible, ConMetadata
  <2>5. Abs!Efecto(p)
    BY <1>3, <2>3, EfectoRead
  <2>6. Contenido(f)[k + 1] = dato[logico[f][k]]
    <3>1. k + 1 \in 1..meta[f].tam /\ (k + 1) - 1 = k
      BY <1>4, <1>6, <1>8 DEF Legible
    <3>2. Contenido(f)[k + 1] = dato[NodoVisto(f, k)]
      BY <1>6, <1>8, <3>1
    <3> QED
      BY <1>8, <3>2 DEF NodoVisto, Legible
  <2> QED
    BY <1>2, <1>3, <1>4, <2>1, <2>2, <2>3, <2>4, <2>5, <2>6, Concedido
<1> QED
  BY <1>7, <1>8

-------------------------------------------------------------------------------
(* TRUNCATE takes effect when it starts, if the file:tag does not grow, and when  *)
(* it saves the metadata if it does.                                              *)

\* The first k pages of f, as its links show them.
Muestra(f, k) == [i \in 1..k |-> dato[NodoVisto(f, i - 1)]]

TruncBien == \A h \in Hilos, f \in Archivos : EnTruncate(h) /\ pedido[h].f = f /\ Solo(h, f) =>
    LET k == IF Achicando(h) THEN pedido[h].n ELSE meta[f].tam IN
    /\ EstadoVisto(f) = "WORK_IN_PROGRESS" /\ Contenido(f) = Muestra(f, k)
    /\ k \in 0..MaxPaginas /\ (~Achicando(h) => Callado(h))
    /\ Fase(h) = IF Achicando(h) THEN "ok" ELSE "pedida"

LEMMA TruncVista == Sano => TruncBien
<1> SUFFICES ASSUME Sano, NEW h \in Hilos, NEW f \in Archivos, EnTruncate(h), pedido[h].f = f, Solo(h, f)
             PROVE  LET k == IF Achicando(h) THEN pedido[h].n ELSE meta[f].tam IN
                    /\ EstadoVisto(f) = "WORK_IN_PROGRESS" /\ Contenido(f) = Muestra(f, k)
                    /\ k \in 0..MaxPaginas /\ (~Achicando(h) => Callado(h))
                    /\ Fase(h) = IF Achicando(h) THEN "ok" ELSE "pedida"
  BY DEF TruncBien
<1> DEFINE k == IF Achicando(h) THEN pedido[h].n ELSE meta[f].tam
<1>1. EstadoVisto(f) = EstadoMio(h, f) /\ Contenido(f) = ContenidoMio(h, f)
  BY VistaMia DEF VistaBien
<1>2. ~EnTag(h) /\ ~Escribiendo(h) /\ pc[h] \notin {"libre", "responder", "commit_persistir"}
  BY DEF EnTruncate, EnTag, Escribiendo
<1>3. meta[f].estado = "WORK_IN_PROGRESS"
  BY DeSano DEF ArchivosOK, EstadoOK
<1>4. EstadoMio(h, f) = "WORK_IN_PROGRESS"
  BY <1>2, <1>3 DEF EstadoMio, ConMetadata
<1>5. LargoMio(h, f) = k /\ k \in 0..MaxPaginas
  BY LargoVistoEs DEF LargoMio
<1>6. \A i \in 1..k : PaginaMia(h, f, i - 1) = dato[NodoVisto(f, i - 1)]
  BY <1>2 DEF PaginaMia
<1>7. ~Achicando(h) => Callado(h)
  BY <1>2 DEF Callado
<1>8. Fase(h) = IF Achicando(h) THEN "ok" ELSE "pedida"
  BY <1>2, FaseEs
<1> HIDE DEF k
<1>9. ContenidoMio(h, f) = Muestra(f, k)
  BY <1>4, <1>5, <1>6 DEF ContenidoMio, Muestra
<1> QED
  BY <1>1, <1>4, <1>5, <1>7, <1>8, <1>9 DEF k

LEMMA TruncLuego == Sano' => TruncBien'
BY TruncVista, PTL

LEMMA VistaTruncar ==
  ASSUME Sano, Sano', NEW h \in Hilos, Truncar(h)
  PROVE  [Abs!Next]_(Abs!vars)
<1> DEFINE p == pedido[h]
<1>1. Empieza(h, "TRUNCATE") /\ ~SinCandado(pedido[h])
  BY DEF Truncar, Empieza, SinCandado
<1>2. PICK f \in Archivos : f = p.f
  BY <1>1, AlEntrar
<1>3. /\ InvBloques /\ Callado(h) /\ Fase(h) = "pedida" /\ p.op = "TRUNCATE" /\ Solo(h, f) /\ pc[h] # "libre"
      /\ Nombrados(p) = {f} /\ EstadoVisto(f) = meta[f].estado
  BY <1>1, <1>2, AlEntrar
<1>4. EnLoPedido(h) /\ dato' = dato
  BY <1>1, <1>3, TrabajaCorto
<1>5. Abs!Valido(p) <=> f # Base /\ meta[f].estado = "WORK_IN_PROGRESS"
  BY <1>2, <1>3, ValidoEs
<1>6. CASE f = Base \/ meta[f].estado # "WORK_IN_PROGRESS"
  <2>1. Falla(h)
    BY <1>2, <1>6 DEF Truncar
  <2> QED
    BY <1>3, <1>4, <1>5, <1>6, <2>1, AlFallar
<1>7. CASE f # Base /\ meta[f].estado = "WORK_IN_PROGRESS"
  <2> DEFINE t == meta[f].tam
  <2>1. /\ UNCHANGED <<meta, logico, dato, leido>>
        /\ \/ p.n > t /\ \E l : Ir(h, "trunc_crecer", l)
           \/ p.n <= t /\ \E l : Ir(h, "trunc_bajar", l) \/ (Ir(h, "trunc_meta", l) /\ p.n = t)
    <3>1. p.n \in Nat /\ t \in Nat
      <4>1. p.n \in 0..MaxPaginas
        BY <1>3, DelPedido
      <4> QED
        BY <1>3, <4>1, SonMetas DEF InvBloques, DiscoOK
    <3> QED
      BY <1>2, <1>7, <3>1 DEF Truncar, disco
  <2>2. PICK n : n = p.n
    OBVIOUS
  <2>3. pedido' = pedido
    BY <1>3, <2>1, DelHilo, EfectoDeIr
  <2>4. CASE p.n > t
    <3>1. pc'[h] = "trunc_crecer"
      <4>1. p.n \in Nat /\ t \in Nat
        <5>1. p.n \in 0..MaxPaginas
          BY <1>3, DelPedido
        <5> QED
          BY <1>3, <5>1, SonMetas DEF InvBloques, DiscoOK
      <4>2. \E l : Ir(h, "trunc_crecer", l)
        BY <2>1, <2>4, <4>1
      <4> QED
        BY <1>3, <4>2, DelHilo, EfectoDeIr
    <3>2. Callado(h)' /\ Fase(h)' = "pedida"
      <4>1. Callado(h)'
        BY <3>1 DEF Callado, EnTag, Achicando, Escribiendo
      <4> QED
        BY <3>1, <4>1, AlSeguir
    <3> QED
      BY <1>3, <1>4, <2>1, <3>2, NadaCambia, Mudo
  <2>5. CASE ~(p.n > t)
    <3>1. pc'[h] \in {"trunc_bajar", "trunc_meta"} /\ (pc'[h] = "trunc_meta" => p.n = t) /\ p.n <= t
      <4>1. p.n <= t /\ \E l : Ir(h, "trunc_bajar", l) \/ (Ir(h, "trunc_meta", l) /\ p.n = t)
        BY <2>1, <2>5
      <4> QED
        BY <1>3, <4>1, DelHilo, EfectoDeIr
    <3>2. EnTruncate(h)' /\ Achicando(h)'
      <4>1. pc'[h] = "trunc_meta" => pedido'[h].n <= meta'[pedido'[h].f].tam
        BY <1>2, <2>1, <2>3, <3>1
      <4> QED
        BY <3>1, <4>1 DEF EnTruncate, Achicando
    <3>3. Escribe(h)
      BY <1>4 DEF Escribe
    <3>4. Solo(h, f)'
      BY <1>3, <1>4, <3>3, LoAjeno
    <3>5. /\ EstadoVisto(f)' = "WORK_IN_PROGRESS" /\ Contenido(f)' = Muestra(f, n)' /\ Fase(h)' = "ok"
          /\ n \in 0..MaxPaginas
      BY <1>2, <2>2, <2>3, <3>2, <3>4, TruncLuego DEF TruncBien
    <3>6. Muestra(f, n)' = [i \in 1..n |-> dato[NodoVisto(f, i - 1)]]
      BY <2>1 DEF Muestra, NodoVisto, BloqueDe
    <3>7. /\ Contenido(f) = [i \in 1..t |-> dato[NodoVisto(f, i - 1)]] /\ Len(Contenido(f)) = t
          /\ t \in 0..MaxPaginas
      BY <1>3, <1>7, CalladoVista DEF CalladoBien, ConMetadata
    <3>8. PICK s, c : s = Contenido(f) /\ c = [i \in 1..n |-> IF i <= Len(s) THEN s[i] ELSE Cero]
      OBVIOUS
    <3>9. Contenido(f)' = c
      <4>1. \A i \in 1..n : i <= Len(s) /\ i \in 1..t
        BY <2>2, <3>1, <3>5, <3>7, <3>8
      <4>2. \A i \in 1..n : s[i] = dato[NodoVisto(f, i - 1)]
        BY <3>7, <3>8, <4>1
      <4>3. c = [i \in 1..n |-> dato[NodoVisto(f, i - 1)]]
        BY <3>8, <4>1, <4>2
      <4> QED
        BY <3>5, <3>6, <4>3
    <3>10. Abs!Poner(f, "WORK_IN_PROGRESS", c)
      BY <1>3, <1>4, <3>3, <3>5, <3>9, LoAjeno, PasoPone
    <3>11. Abs!Efecto(p)
      BY <1>2, <1>3, <1>7, <2>2, <3>8, <3>10, EfectoTruncate
    <3> QED
      BY <1>2, <1>3, <1>4, <1>5, <1>7, <2>1, <3>3, <3>5, <3>11, Concedido
  <2> QED
    BY <2>4, <2>5
<1> QED
  BY <1>6, <1>7

\* A thread in TRUNCATE has its file:tag for itself.
LEMMA TruncateEs ==
  ASSUME Sano, NEW h \in Hilos, EnTruncate(h), NEW f, f = pedido[h].f
  PROVE  /\ InvBloques /\ Intacto /\ f \in Archivos \ {Base} /\ Nombrados(pedido[h]) = {f} /\ Suyos(h)
         /\ ~SinCandado(pedido[h]) /\ Solo(h, f) /\ pc[h] # "libre" /\ pedido[h].op = "TRUNCATE"
         /\ pedido[h].n \in Nat /\ pedido[h].n \in 0..MaxPaginas /\ loc[h].pag \in Nat
         /\ meta[f].estado = "WORK_IN_PROGRESS" /\ ObraTruncar(h) /\ CursoOK(h)
         /\ meta[f].blocks \in Seq(Bloque) /\ Len(meta[f].blocks) = meta[f].tam /\ meta[f].tam \in 0..MaxPaginas
<1>1. InvBloques /\ FielOK /\ Intacto /\ f \in Archivos /\ Adentro(h) /\ pc[h] # "libre"
  BY DeSano, FielEnElTruncate DEF EnTruncate
<1>2. /\ f # Base /\ Nombrados(pedido[h]) = {f} /\ Suyos(h) /\ ~SinCandado(pedido[h]) /\ ObraTruncar(h)
      /\ CursoOK(h) /\ meta[f].blocks \in Seq(Bloque) /\ Len(meta[f].blocks) = meta[f].tam
      /\ pedido[h].n \in Nat /\ pedido[h].n \in 0..MaxPaginas /\ loc[h].pag \in Nat
  BY <1>1, FielEnElTruncate
<1>3. Solo(h, f) /\ pedido[h].op = "TRUNCATE"
  BY <1>1, <1>2, SoloMio, EnElTruncate
<1>4. meta[f].tam \in 0..MaxPaginas
  BY <1>1, DelArchivo
<1>5. meta[f].estado = "WORK_IN_PROGRESS"
  BY DeSano DEF ArchivosOK, EstadoOK
<1> QED
  BY <1>1, <1>2, <1>3, <1>4, <1>5

LEMMA VistaTruncCrecer ==
  ASSUME Sano, Sano', NEW h \in Hilos, TruncCrecer(h)
  PROVE  [Abs!Next]_(Abs!vars)
<1> DEFINE p == pedido[h]
<1>1. pc[h] = "trunc_crecer" /\ EnTruncate(h)
  BY DEF TruncCrecer, EnTruncate
<1>2. PICK f : f = p.f
  OBVIOUS
<1>3. /\ InvBloques /\ Intacto /\ f \in Archivos /\ Nombrados(p) = {f} /\ Solo(h, f)
      /\ p.n \in Nat /\ loc[h].pag \in Nat /\ ObraTruncar(h) /\ CursoOK(h)
      /\ meta[f].blocks \in Seq(Bloque) /\ Len(meta[f].blocks) = meta[f].tam /\ meta[f].tam \in 0..MaxPaginas
  BY <1>1, <1>2, TruncateEs
<1>4. EnLoPedido(h) /\ dato' = dato
  BY <1>3, TrabajaEnCurso
<1>5. PICK q : q = loc[h].pag
  OBVIOUS
<1>6. q < p.n /\ meta[f].tam <= q /\ q \in Pagina /\ logico[f] = Links(meta[f].blocks, q)
  <2>1. q < p.n /\ meta[f].tam <= q /\ logico[f] = Links(meta[f].blocks, q)
    BY <1>1, <1>2, <1>3, <1>5 DEF CursoOK, ObraTruncar
  <2>2. p.n \in 0..MaxPaginas
    BY <1>1, <1>2, TruncateEs
  <2> QED
    BY <1>3, <1>5, <2>1, <2>2, BloquesAssumption DEF Pagina
<1>7. logico[f][q] = Nadie /\ nodo[0] = 0 /\ 0 # Nadie
  <2>1. logico[f][q] = Nadie
    BY <1>3, <1>6, LinksMas
  <2>2. nodo[0] = 0 /\ 0 # Nadie
    BY <1>3, BloquesAssumption DEF Intacto, Bloque
  <2> QED
    BY <2>1, <2>2
<1>8. Enlazar(f, q, 0) /\ \E l : Ir(h, "trunc_meta", l) \/ Ir(h, "trunc_crecer", l)
  BY <1>2, <1>5, <1>7 DEF TruncCrecer
<1>9. pc'[h] \in {"trunc_crecer", "trunc_meta"} /\ pedido' = pedido /\ meta' = meta /\ leido' = leido
  BY <1>3, <1>8, DelHilo, EfectoDeIr DEF Enlazar
<1>10. ~Achicando(h) /\ ~Achicando(h)'
  <2>1. ~(p.n <= meta[f].tam)
    BY <1>3, <1>5, <1>6
  <2> QED
    BY <1>1, <1>2, <1>9, <2>1 DEF Achicando
<1>11. Callado(h)' /\ Fase(h)' = "pedida"
  <2>1. Callado(h)'
    BY <1>9, <1>10 DEF Callado, EnTag, Escribiendo
  <2> QED
    BY <1>9, <2>1, AlSeguir
<1>12. Callado(h) /\ Fase(h) = "pedida"
  BY <1>1, <1>2, <1>3, <1>10, TruncVista DEF TruncBien
<1>13. Escribe(h)
  BY <1>4 DEF Escribe
<1>14. Solo(h, f)'
  BY <1>3, <1>4, <1>13, LoAjeno
<1>15. Igual(f)
  <2>1. \A k \in Pagina : k < meta[f].tam => NodoVisto(f, k)' = NodoVisto(f, k)
    <3>1. \A k \in Pagina : k < meta[f].tam => logico'[f][k] = logico[f][k]
      <4>1. \A k \in Pagina : k < meta[f].tam => k # q
        BY <1>3, <1>5, <1>6 DEF Pagina
      <4> QED
        BY <1>3, <1>8, <4>1, EfectoDeEnlazar DEF InvBloques
    <3> QED
      BY <1>9, <3>1 DEF NodoVisto, BloqueDe
  <2> QED
    BY <1>3, <1>4, <1>9, <1>11, <1>12, <1>14, <2>1, CalladoIgual
<1> QED
  BY <1>3, <1>4, <1>9, <1>11, <1>12, <1>13, <1>15, Mudo

\* While it shrinks, what is left of the file:tag is what it was.
LEMMA VistaTruncBajar ==
  ASSUME Sano, Sano', NEW h \in Hilos, TruncBajar(h) \/ TruncStat(h) \/ TruncLiberar(h)
  PROVE  [Abs!Next]_(Abs!vars)
<1> DEFINE p == pedido[h]
<1>1. pc[h] \in {"trunc_bajar", "trunc_stat", "trunc_liberar"} /\ EnTruncate(h) /\ Achicando(h)
  BY DEF TruncBajar, TruncStat, TruncLiberar, EnTruncate, Achicando
<1>2. PICK f, n : f = p.f /\ n = p.n
  OBVIOUS
<1>3. /\ InvBloques /\ Intacto /\ f \in Archivos /\ Nombrados(p) = {f} /\ Solo(h, f)
      /\ n \in Nat /\ loc[h].pag \in Nat /\ n <= loc[h].pag
      /\ n <= meta[f].tam
  <2>1. n <= loc[h].pag
    BY <1>1, <1>2, TruncateEs DEF CursoOK
  <2>2. n <= meta[f].tam
    BY <1>1, <1>2, DeSano DEF ArchivosOK, EstadoOK
  <2> QED
    BY <1>1, <1>2, <2>1, <2>2, TruncateEs
<1>4. EnLoPedido(h) /\ dato' = dato
  BY <1>3, TrabajaEnCurso
<1>5. /\ meta' = meta /\ leido' = leido
      /\ \E paso \in {"trunc_bajar", "trunc_stat", "trunc_liberar", "trunc_meta"} : \E l : Ir(h, paso, l)
  BY DEF TruncBajar, TruncStat, TruncLiberar, TruncSigue, Enlazar, PonerBitmap, disco
<1>6. /\ pc'[h] \in {"trunc_bajar", "trunc_stat", "trunc_liberar", "trunc_meta"} /\ pedido' = pedido
  BY <1>3, <1>5, DelHilo, EfectoDeIr
<1>7. EnTruncate(h)' /\ Achicando(h)'
  <2>1. pedido'[h].n <= meta'[pedido'[h].f].tam
    BY <1>2, <1>3, <1>5, <1>6
  <2> QED
    BY <1>6, <2>1 DEF EnTruncate, Achicando
<1>8. Escribe(h)
  BY <1>4 DEF Escribe
<1>9. Solo(h, f)'
  BY <1>3, <1>4, <1>8, LoAjeno
<1>10. Fase(h) = "ok" /\ Contenido(f) = Muestra(f, n) /\ EstadoVisto(f) = "WORK_IN_PROGRESS"
  BY <1>1, <1>2, <1>3, TruncVista DEF TruncBien
<1>11. Fase(h)' = "ok" /\ Contenido(f)' = Muestra(f, n)' /\ EstadoVisto(f)' = "WORK_IN_PROGRESS"
  BY <1>2, <1>3, <1>6, <1>7, <1>9, TruncLuego DEF TruncBien
<1>12. \A i \in 1..n : NodoVisto(f, i - 1)' = NodoVisto(f, i - 1)
  <2>1. \A i \in 1..n : i - 1 \in Pagina /\ i - 1 # loc[h].pag
    <3>1. n \in 0..MaxPaginas
      BY <1>1, <1>2, TruncateEs
    <3> QED
      BY <1>3, <3>1, BloquesAssumption DEF Pagina
  <2>2. \A i \in 1..n : logico'[f][i - 1] = logico[f][i - 1]
    <3>1. CASE TruncBajar(h)
      <4>1. Enlazar(f, loc[h].pag, Nadie)
        BY <1>2, <3>1 DEF TruncBajar
      <4> QED
        BY <1>3, <2>1, <4>1, EfectoDeEnlazar DEF InvBloques
    <3>2. CASE TruncStat(h) \/ TruncLiberar(h)
      BY <3>2 DEF TruncStat, TruncLiberar, PonerBitmap, disco
    <3> QED
      BY <3>1, <3>2
  <2> QED
    BY <1>5, <2>2 DEF NodoVisto, BloqueDe
<1>13. Igual(f)
  <2>1. Muestra(f, n)' = Muestra(f, n)
    BY <1>4, <1>12 DEF Muestra
  <2> QED
    BY <1>10, <1>11, <2>1 DEF Igual
<1> QED
  BY <1>3, <1>4, <1>5, <1>8, <1>10, <1>11, <1>13, Mudo

LEMMA VistaTruncMeta ==
  ASSUME Sano, Sano', NEW h \in Hilos, TruncMeta(h)
  PROVE  [Abs!Next]_(Abs!vars)
<1> DEFINE p == pedido[h]
<1>1. pc[h] = "trunc_meta" /\ EnTruncate(h)
  BY DEF TruncMeta, EnTruncate
<1>2. PICK f, n, t, B : f = p.f /\ n = p.n /\ t = meta[f].tam /\ B = meta[f].blocks
  OBVIOUS
<1>3. /\ InvBloques /\ Intacto /\ f \in Archivos \ {Base} /\ Nombrados(p) = {f} /\ Solo(h, f)
      /\ n \in Nat /\ n \in 0..MaxPaginas /\ logico[f] = Links(B, n) /\ B \in Seq(Bloque) /\ Len(B) = t
      /\ t \in 0..MaxPaginas /\ ~SinCandado(p) /\ p.op = "TRUNCATE" /\ meta[f].estado = "WORK_IN_PROGRESS"
  BY <1>1, <1>2, TruncateEs DEF ObraTruncar
<1>4. EnLoPedido(h) /\ dato' = dato
  BY <1>3, TrabajaCorto
<1>5. /\ PonerMeta(f, [meta[f] EXCEPT !.tam = n, !.blocks = [i \in 1..n |-> BloqueDe(f, i - 1)]])
      /\ Resultado(h, TRUE)
  BY <1>2 DEF TruncMeta
<1>6. meta'[f].tam = n /\ meta'[f].estado = "WORK_IN_PROGRESS" /\ logico' = logico /\ leido' = leido
  <2>1. meta \in [Archivos -> Metas] /\ meta[f] \in Metas
    BY <1>3 DEF InvBloques, DiscoOK
  <2> QED
    BY <1>3, <1>5, <2>1 DEF PonerMeta, Metas
<1>7. Callado(h)' /\ Fase(h)' = "ok"
  BY <1>5, AlTerminar
<1>8. Escribe(h)
  BY <1>4 DEF Escribe
<1>9. Solo(h, f)'
  BY <1>3, <1>4, <1>8, LoAjeno
\* What its pages link.
<1>10. \A i \in 1..n : /\ NodoVisto(f, i - 1) = IF i <= t THEN B[i] ELSE 0
                       /\ NodoVisto(f, i - 1)' = NodoVisto(f, i - 1)
  <2> SUFFICES ASSUME NEW i \in 1..n
               PROVE  /\ NodoVisto(f, i - 1) = IF i <= t THEN B[i] ELSE 0
                      /\ NodoVisto(f, i - 1)' = NodoVisto(f, i - 1)
    OBVIOUS
  <2>1. i - 1 \in Pagina /\ i - 1 < n /\ (i - 1 < t <=> i <= t) /\ (i - 1) + 1 = i
    BY <1>3, BloquesAssumption DEF Pagina
  <2>2. logico[f][i - 1] = IF i <= t THEN B[i] ELSE 0
    BY <1>3, <2>1 DEF Links
  <2>3. logico[f][i - 1] # Nadie
    <3>1. i <= t => B[i] \in Bloque
      BY <1>3
    <3> QED
      BY <2>2, <3>1, BloquesAssumption DEF Bloque
  <2> QED
    BY <1>6, <2>2, <2>3 DEF NodoVisto
<1>11. /\ EstadoVisto(f)' = "WORK_IN_PROGRESS"
       /\ Contenido(f)' = [i \in 1..n |-> dato[NodoVisto(f, i - 1)]]
  <2>1. /\ EstadoVisto(f)' = "WORK_IN_PROGRESS"
        /\ Contenido(f)' = [i \in 1..meta'[f].tam |-> dato'[NodoVisto(f, i - 1)']]
    BY <1>3, <1>6, <1>7, <1>9, CalladoLuego DEF CalladoBien, ConMetadata
  <2> QED
    BY <1>4, <1>6, <1>10, <2>1
<1>12. EstadoVisto(f) = "WORK_IN_PROGRESS"
       /\ Contenido(f) = Muestra(f, IF Achicando(h) THEN n ELSE t)
       /\ (~Achicando(h) => Callado(h)) /\ Fase(h) = IF Achicando(h) THEN "ok" ELSE "pedida"
  BY <1>1, <1>2, <1>3, TruncVista DEF TruncBien
<1>13. Achicando(h) <=> n <= t
  BY <1>1, <1>2 DEF Achicando
<1>14. CASE n <= t
  <2>1. Igual(f)
    BY <1>11, <1>12, <1>13, <1>14 DEF Muestra, Igual
  <2> QED
    BY <1>3, <1>4, <1>6, <1>7, <1>8, <1>12, <1>13, <1>14, <2>1, Mudo
<1>15. CASE ~(n <= t)
  <2>1. Contenido(f) = [i \in 1..t |-> dato[NodoVisto(f, i - 1)]]
    BY <1>12, <1>13, <1>15 DEF Muestra
  <2>2. PICK s, c : s = Contenido(f) /\ c = [i \in 1..n |-> IF i <= Len(s) THEN s[i] ELSE Cero]
    OBVIOUS
  <2>3. Contenido(f)' = c
    <3>1. Len(s) = t
      BY <1>3, <2>1, <2>2
    <3>2. \A i \in 1..n : i <= t => s[i] = dato[NodoVisto(f, i - 1)]
      BY <1>3, <2>1, <2>2
    <3>3. \A i \in 1..n : ~(i <= t) => dato[NodoVisto(f, i - 1)] = Cero
      BY <1>3, <1>10 DEF Intacto
    <3>4. c = [i \in 1..n |-> dato[NodoVisto(f, i - 1)]]
      BY <2>2, <3>1, <3>2, <3>3
    <3> QED
      BY <1>11, <3>4
  <2>4. Abs!Poner(f, "WORK_IN_PROGRESS", c)
    BY <1>3, <1>4, <1>8, <1>11, <2>3, LoAjeno, PasoPone
  <2>5. Abs!Efecto(p)
    BY <1>2, <1>3, <1>12, <2>2, <2>4, EfectoTruncate
  <2>6. Abs!Valido(p)
    BY <1>2, <1>3, <1>12, ValidoEs
  <2> QED
    BY <1>2, <1>3, <1>4, <1>6, <1>7, <1>8, <1>12, <1>13, <1>15, <2>5, <2>6, Concedido
<1> QED
  BY <1>14, <1>15

-------------------------------------------------------------------------------
(* TAG takes effect with the last link of the new file:tag. *)

TagBien == \A h \in Hilos, o, d \in Archivos : EnTag(h) /\ pedido[h].f = o /\ pedido[h].d = d =>
    /\ EstadoVisto(d) = "ausente" /\ Contenido(d) = <<>> /\ Fase(h) = "pedida"
    /\ EstadoVisto(o) = meta[o].estado /\ meta[o].estado # "ausente"
    /\ meta[o].tam \in 0..MaxPaginas /\ Contenido(o) = Muestra(o, meta[o].tam)

LEMMA TagVista == Sano => TagBien
<1> SUFFICES ASSUME Sano, NEW h \in Hilos, NEW o \in Archivos, NEW d \in Archivos,
                    EnTag(h), pedido[h].f = o, pedido[h].d = d
             PROVE  /\ EstadoVisto(d) = "ausente" /\ Contenido(d) = <<>> /\ Fase(h) = "pedida"
                    /\ EstadoVisto(o) = meta[o].estado /\ meta[o].estado # "ausente"
                    /\ meta[o].tam \in 0..MaxPaginas /\ Contenido(o) = Muestra(o, meta[o].tam)
  BY DEF TagBien
<1>1. /\ InvBloques /\ FielOK /\ Adentro(h) /\ ~Achicando(h) /\ ~Escribiendo(h)
      /\ pc[h] \notin {"libre", "responder", "commit_persistir"}
  BY DeSano DEF EnTag, Adentro, Achicando, Escribiendo
<1>2. o # d /\ Solo(h, o) /\ Solo(h, d)
  BY <1>1, FielEnElTag, SoloMio
<1>3. Fase(h) = "pedida"
  BY <1>1, FaseEs
<1>4. EstadoVisto(d) = "ausente"
  BY <1>2, EstadoVistoEs DEF EstadoMio
<1>5. Contenido(d) = <<>>
  BY <1>4 DEF Contenido
<1>6. ConMetadata(o)
  BY DeSano DEF ArchivosOK, EstadoOK
<1>7. EstadoMio(h, o) = meta[o].estado /\ meta[o].estado # "ausente"
  BY <1>2, <1>6 DEF EstadoMio, ConMetadata
<1>8. LargoMio(h, o) = meta[o].tam /\ LargoMio(h, o) \in 0..MaxPaginas
  BY <1>1, <1>2, LargoVistoEs DEF LargoMio
<1>9. \A p : PaginaMia(h, o, p) = dato[NodoVisto(o, p)]
  BY <1>1 DEF PaginaMia
<1>10. EstadoVisto(o) = EstadoMio(h, o) /\ Contenido(o) = ContenidoMio(h, o)
  BY <1>2, VistaMia DEF VistaBien
<1>11. ContenidoMio(h, o) = Muestra(o, meta[o].tam)
  BY <1>7, <1>8, <1>9 DEF ContenidoMio, Muestra
<1> QED
  BY <1>3, <1>4, <1>5, <1>7, <1>8, <1>10, <1>11

LEMMA TagLuego == Sano' => TagBien'
BY TagVista, PTL

LEMMA MuestraIgual ==
  ASSUME NEW f, NEW k, dato' = dato, meta'[f] = meta[f], logico'[f] = logico[f]
  PROVE  Muestra(f, k)' = Muestra(f, k)
BY DEF Muestra, NodoVisto, BloqueDe

LEMMA VistaTag ==
  ASSUME Sano, Sano', NEW h \in Hilos, Tag(h), ~SinCandado(pedido[h])
  PROVE  [Abs!Next]_(Abs!vars)
<1> DEFINE p == pedido[h]
<1>1. Empieza(h, "TAG")
  BY DEF Tag
<1>2. p.f \in Archivos /\ p.d \in Archivos /\ p.f # Base
  <2>1. InvBloques /\ pc[h] # "libre" /\ p.op = "TAG"
    BY <1>1, DeSano DEF Empieza
  <2> QED
    BY <2>1, DelPedido DEF SinCandado
<1>3. PICK o \in Archivos, d \in Archivos : o = p.f /\ d = p.d
  BY <1>2
<1>4. /\ InvBloques /\ Callado(h) /\ Fase(h) = "pedida" /\ p.op = "TAG" /\ pc[h] # "libre"
      /\ Solo(h, o) /\ EstadoVisto(o) = meta[o].estado
      /\ Solo(h, d) /\ EstadoVisto(d) = meta[d].estado
      /\ meta[o].estado \in {"ausente", "WORK_IN_PROGRESS", "COMMITED"} /\ Nombrados(p) = {o, d}
  <2>1. p.op = "TAG" /\ Nombrados(p) = {o, d}
    BY <1>1, <1>3 DEF Empieza, Nombrados
  <2> QED
    BY <1>1, <2>1, AlEntrar
<1>5. EnLoPedido(h) /\ dato' = dato
  BY <1>4, TrabajaCorto
<1>6. Abs!Valido(p) <=> o # Base /\ EstadoVisto(o) # "ausente" /\ EstadoVisto(d) = "ausente"
  BY <1>3, <1>4, ValidoEs
<1>7. CASE meta[o].estado = "ausente" \/ meta[d].estado # "ausente"
  <2>1. Falla(h)
    BY <1>3, <1>7 DEF Tag
  <2> QED
    BY <1>4, <1>5, <1>6, <1>7, <2>1, AlFallar
<1>8. CASE meta[o].estado # "ausente" /\ meta[d].estado = "ausente"
  <2>1. PonerMeta(d, [SinMeta EXCEPT !.estado = "carpeta"]) /\ Ir(h, "tag_meta", SinLocales)
    BY <1>2, <1>3, <1>4, <1>8 DEF Tag, ConMetadata
  <2>2. pc'[h] = "tag_meta" /\ pedido' = pedido /\ EnTag(h)'
    BY <1>4, <2>1, DelHilo, EfectoDeIr DEF EnTag
  <2>3. Fase(h)' = "pedida"
    BY <1>3, <2>2, TagLuego DEF TagBien
  <2>4. Escribe(h) /\ leido' = leido
    BY <1>5, <2>1 DEF Escribe, PonerMeta
  <2>5. meta'[o] = meta[o] /\ logico' = logico
    BY <1>8, <2>1 DEF PonerMeta
  <2>6. Igual(d)
    <3>1. EstadoVisto(d) = "ausente" /\ EstadoVisto(d)' = "ausente"
      BY <1>3, <1>4, <1>8, <2>2, TagLuego DEF TagBien
    <3> QED
      BY <3>1 DEF Igual, Contenido
  <2>7. PICK k : k = meta[o].tam
    OBVIOUS
  <2>8. Igual(o)
    <3>1. EstadoVisto(o)' = meta[o].estado /\ Contenido(o)' = Muestra(o, k)'
      BY <1>3, <2>2, <2>5, <2>7, TagLuego DEF TagBien
    <3>2. Contenido(o) = Muestra(o, k)
      BY <1>4, <1>8, <2>7, CalladoVista DEF CalladoBien, ConMetadata, Muestra
    <3> QED
      BY <1>4, <1>5, <2>5, <3>1, <3>2, MuestraIgual DEF Igual
  <2> QED
    BY <1>4, <1>5, <2>3, <2>4, <2>6, <2>8, Mudo
<1> QED
  BY <1>7, <1>8

\* A thread in TAG has both its file:tags for itself.
LEMMA TagEs ==
  ASSUME Sano, NEW h \in Hilos, EnTag(h), NEW o, NEW d, o = pedido[h].f, d = pedido[h].d
  PROVE  /\ InvBloques /\ Intacto /\ DiscoOK /\ o \in Archivos \ {Base} /\ d \in Archivos \ {Base} /\ o # d
         /\ Nombrados(pedido[h]) = {o, d} /\ ~SinCandado(pedido[h]) /\ pc[h] # "libre"
         /\ pedido[h].op = "TAG" /\ loc[h].pag \in Nat /\ ObraTag(h) /\ CursoOK(h)
         /\ Len(meta[o].blocks) = meta[o].tam /\ Len(meta[d].blocks) = meta[d].tam
<1>1. InvBloques /\ FielOK /\ Intacto /\ DiscoOK
  BY DeSano DEF InvBloques
<1> QED
  BY <1>1, FielEnElTag, EnElTag DEF ArchivoOK

\* A step of TAG that is not its last changes nothing that is seen.
LEMMA TagSigue ==
  ASSUME Sano, Sano', NEW h \in Hilos, EnTag(h), EnTag(h)', EnLoPedido(h), dato' = dato,
         leido' = leido, meta'[pedido[h].f] = meta[pedido[h].f], logico'[pedido[h].f] = logico[pedido[h].f]
  PROVE  [Abs!Next]_(Abs!vars)
<1>1. PICK o, d : o = pedido[h].f /\ d = pedido[h].d
  OBVIOUS
<1>2. o \in Archivos /\ d \in Archivos /\ Nombrados(pedido[h]) = {o, d}
  BY <1>1, TagEs
<1>3. Escribe(h)
  BY DEF Escribe
<1>4. pedido' = pedido
  BY <1>3, LoAjeno
<1>5. PICK k : k = meta[o].tam
  OBVIOUS
<1>6. /\ EstadoVisto(d) = "ausente" /\ EstadoVisto(d)' = "ausente" /\ Fase(h)' = Fase(h)
      /\ EstadoVisto(o)' = EstadoVisto(o) /\ Contenido(o) = Muestra(o, k) /\ Contenido(o)' = Muestra(o, k)'
  BY <1>1, <1>2, <1>4, <1>5, TagVista, TagLuego DEF TagBien
<1>7. Igual(d)
  BY <1>6 DEF Igual, Contenido
<1>8. Igual(o)
  BY <1>1, <1>6, MuestraIgual DEF Igual
<1> QED
  BY <1>2, <1>3, <1>6, <1>7, <1>8, Mudo

LEMMA VistaTagMeta ==
  ASSUME Sano, Sano', NEW h \in Hilos, TagMeta(h)
  PROVE  [Abs!Next]_(Abs!vars)
<1> DEFINE o == pedido[h].f
           d == pedido[h].d
<1>1. EnTag(h)
  BY DEF TagMeta, EnTag
<1>2. InvBloques /\ o # d /\ ~SinCandado(pedido[h])
  BY <1>1, TagEs
<1>3. EnLoPedido(h) /\ dato' = dato
  BY <1>2, TrabajaCorto
<1>4. PonerMeta(d, [meta[o] EXCEPT !.estado = "WORK_IN_PROGRESS"]) /\ Ir(h, "tag_link", SinLocales)
  BY DEF TagMeta
<1>5. EnTag(h)'
  BY <1>2, <1>4, DelHilo, EfectoDeIr DEF EnTag
<1>6. leido' = leido /\ logico' = logico /\ meta'[o] = meta[o]
  BY <1>2, <1>4 DEF PonerMeta
<1> QED
  BY <1>1, <1>3, <1>5, <1>6, TagSigue

LEMMA VistaTagLink ==
  ASSUME Sano, Sano', NEW h \in Hilos, TagLink(h)
  PROVE  [Abs!Next]_(Abs!vars)
<1>1. pc[h] = "tag_link" /\ EnTag(h)
  BY DEF TagLink, EnTag
<1>2. PICK o, d, q : o = pedido[h].f /\ d = pedido[h].d /\ q = loc[h].pag
  OBVIOUS
<1>3. /\ InvBloques /\ Intacto /\ DiscoOK /\ o \in Archivos \ {Base} /\ d \in Archivos \ {Base} /\ o # d
      /\ Nombrados(pedido[h]) = {o, d} /\ pedido[h].op = "TAG" /\ q \in Nat /\ q < MaxPaginas
      /\ meta[d].blocks = meta[o].blocks /\ meta[d].tam = meta[o].tam
      /\ logico[d] = [p \in Pagina |-> IF p < q THEN logico[o][p] ELSE Nadie]
  BY <1>1, <1>2, TagEs DEF ObraTag, CursoOK
<1>4. EnLoPedido(h) /\ dato' = dato
  BY <1>3, TrabajaEnCurso
<1>5. Enlazar(d, q, logico[o][q])
  BY <1>2 DEF TagLink
<1>6. meta' = meta /\ leido' = leido /\ logico'[o] = logico[o]
  BY <1>3, <1>5, EfectoDeEnlazar DEF Enlazar
<1>7. CASE q + 1 # MaxPaginas
  <2>1. EnTag(h)'
    <3>1. \E l : Ir(h, "tag_link", l)
      BY <1>2, <1>7 DEF TagLink
    <3> QED
      BY <1>3, <3>1, DelHilo, EfectoDeIr DEF EnTag
  <2> QED
    BY <1>1, <1>2, <1>4, <1>6, <2>1, TagSigue
<1>8. CASE q + 1 = MaxPaginas
  <2>1. Resultado(h, TRUE)
    BY <1>2, <1>8 DEF TagLink
  <2>2. Callado(h)' /\ Fase(h)' = "ok"
    BY <2>1, AlTerminar
  <2>3. Escribe(h)
    BY <1>4 DEF Escribe
  <2>4. Solo(h, o)' /\ Solo(h, d)'
    BY <1>3, <1>4, <2>3, LoAjeno
  <2>5. PICK k : k = meta[o].tam
    OBVIOUS
  <2>6. /\ EstadoVisto(d) = "ausente" /\ Fase(h) = "pedida" /\ EstadoVisto(o) = meta[o].estado
        /\ meta[o].estado # "ausente" /\ k \in 0..MaxPaginas /\ Contenido(o) = Muestra(o, k)
    BY <1>1, <1>2, <1>3, <2>5, TagVista DEF TagBien
  <2>7. meta[d].estado = "WORK_IN_PROGRESS" /\ ConMetadata(o)
    BY <1>1, <1>2, DeSano DEF ArchivosOK, EstadoOK
  <2>8. EstadoVisto(o)' = meta[o].estado /\ Contenido(o)' = Muestra(o, k)'
    <3>1. ConMetadata(o)' /\ meta'[o].tam = k /\ meta'[o].estado = meta[o].estado
      BY <1>6, <2>5, <2>7 DEF ConMetadata
    <3> QED
      BY <1>3, <2>2, <2>4, <2>6, <3>1, CalladoLuego DEF CalladoBien, Muestra
  <2>9. Igual(o)
    BY <1>4, <1>6, <2>6, <2>8, MuestraIgual DEF Igual
  <2>10. EstadoVisto(d)' = "WORK_IN_PROGRESS" /\ Contenido(d)' = Muestra(d, k)'
    <3>1. ConMetadata(d)' /\ meta'[d].tam = k /\ meta'[d].estado = "WORK_IN_PROGRESS"
      BY <1>3, <1>6, <2>5, <2>7 DEF ConMetadata
    <3> QED
      BY <1>3, <2>2, <2>4, <3>1, CalladoLuego DEF CalladoBien, Muestra
  <2>11. Muestra(d, k)' = Contenido(o)
    <3>1. \A i \in 1..k : i - 1 \in Pagina
      BY <2>6, BloquesAssumption DEF Pagina
    <3>2. \A p \in Pagina : logico'[d][p] = logico[o][p]
      <4>1. \A p \in Pagina : p # q => p < q
        BY <1>3, <1>8, BloquesAssumption DEF Pagina
      <4> QED
        BY <1>3, <1>5, <4>1, EfectoDeEnlazar
    <3>3. \A i \in 1..k : NodoVisto(d, i - 1)' = NodoVisto(o, i - 1)
      <4>1. meta'[d].blocks = meta[o].blocks
        BY <1>3, <1>6
      <4> QED
        BY <3>1, <3>2, <4>1 DEF NodoVisto, BloqueDe
    <3> QED
      BY <1>4, <2>6, <3>3 DEF Muestra
  <2>12. PICK c : c = Contenido(o)
    OBVIOUS
  <2>13. Abs!Poner(d, "WORK_IN_PROGRESS", c)
    <3>1. \A g \in Archivos \ {d} : Igual(g)
      BY <1>3, <1>4, <2>3, <2>9, LoAjeno
    <3> QED
      BY <1>3, <2>10, <2>11, <2>12, <3>1, PasoPone
  <2>14. Abs!Efecto(pedido[h])
    BY <1>2, <1>3, <2>12, <2>13, EfectoTag
  <2>15. Abs!Valido(pedido[h])
    BY <1>2, <1>3, <2>6, ValidoEs
  <2> QED
    BY <1>2, <1>3, <1>4, <1>6, <2>2, <2>3, <2>6, <2>14, <2>15, Concedido
<1> QED
  BY <1>7, <1>8

-------------------------------------------------------------------------------
(* FLUSH and WRITE_BLOCK take effect when BLOCKS is saved, and are refused at the *)
(* end.                                                                           *)

\* A thread that writes has its file:tag for itself.
LEMMA EscrituraEs ==
  ASSUME Sano, NEW h \in Hilos, EnEscritura(h), NEW f, f = pedido[h].f
  PROVE  /\ InvBloques /\ Intacto /\ FielOK /\ DiscoOK /\ f \in Archivos \ {Base} /\ Nombrados(pedido[h]) = {f}
         /\ Suyos(h) /\ ~SinCandado(pedido[h]) /\ Solo(h, f) /\ pc[h] # "libre"
         /\ pedido[h].op \in {"FLUSH", "WRITE"} /\ meta[f].estado = "WORK_IN_PROGRESS" /\ ConMetadata(f)
         /\ loc[h] \in Locales /\ CursoOK(h) /\ EscrituraOK(h) /\ CopiaOK(h) /\ ObraEscritura(h)
         /\ meta[f].blocks \in Seq(Bloque) /\ Len(meta[f].blocks) = meta[f].tam /\ meta[f].tam \in 0..MaxPaginas
         /\ ~Escribiendo(h) => Callado(h)
         /\ Fase(h) = IF Escribiendo(h) THEN "ok" ELSE "pedida"
<1>1. InvBloques /\ Intacto /\ FielOK
  BY DeSano
<1>2. /\ DiscoOK /\ f \in Archivos \ {Base} /\ Suyos(h) /\ ~SinCandado(pedido[h]) /\ pc[h] # "libre"
      /\ pedido[h].op \in {"FLUSH", "WRITE"} /\ CursoOK(h) /\ loc[h] \in Locales
  BY <1>1, EnLaEscritura
<1>3. Nombrados(pedido[h]) = {f}
  BY <1>2 DEF Nombrados
<1>4. Solo(h, f)
  BY <1>1, <1>2, <1>3, SoloMio
<1>5. meta[f].estado = "WORK_IN_PROGRESS" /\ EscrituraOK(h) /\ CopiaOK(h)
  BY DeSano DEF ArchivosOK, EstadoOK
<1>6. ObraEscritura(h)
  BY <1>1 DEF FielOK, ObraOK
<1>7. meta[f].blocks \in Seq(Bloque) /\ Len(meta[f].blocks) = meta[f].tam /\ meta[f].tam \in 0..MaxPaginas
  BY <1>1, <1>2, DelArchivo
<1>8. ~EnTag(h) /\ ~Achicando(h) /\ pc[h] \notin {"libre", "responder", "commit_persistir"}
  BY DEF EnEscritura, EnTag, Achicando
<1>9. (~Escribiendo(h) => Callado(h)) /\ Fase(h) = IF Escribiendo(h) THEN "ok" ELSE "pedida"
  BY <1>8, FaseEs DEF Callado
<1> QED
  BY <1>1, <1>2, <1>3, <1>4, <1>5, <1>6, <1>7, <1>9 DEF ConMetadata

\* A step of a write that no page shows.
LEMMA EscrituraSigue ==
  ASSUME Sano, Sano', NEW h \in Hilos, EnEscritura(h), EnEscritura(h)', ~Escribiendo(h), ~Escribiendo(h)',
         EnLoPedido(h), Escribe(h), leido' = leido, meta' = meta, NEW f, f = pedido[h].f,
         \A q \in Pagina : q < meta[f].tam => dato'[NodoVisto(f, q)'] = dato[NodoVisto(f, q)]
  PROVE  [Abs!Next]_(Abs!vars)
<1>1. /\ f \in Archivos /\ Nombrados(pedido[h]) = {f} /\ Solo(h, f) /\ Callado(h) /\ Fase(h) = "pedida"
  BY EscrituraEs
<1>2. pc'[h] \notin {"libre", "responder", "commit_persistir"} /\ ~EnTag(h)' /\ ~Achicando(h)'
  BY DEF EnEscritura, EnTag, Achicando
<1>3. Callado(h)' /\ Fase(h)' = "pedida"
  <2>1. Callado(h)'
    BY <1>2 DEF Callado
  <2> QED
    BY <1>2, <2>1, AlSeguir
<1>4. Solo(h, f)'
  BY <1>1, LoAjeno
<1>5. Igual(f)
  BY <1>1, <1>3, <1>4, CalladoIgual
<1> QED
  BY <1>1, <1>3, <1>5, Mudo

LEMMA VistaEscribir ==
  ASSUME Sano, Sano', NEW h \in Hilos, NEW op \in {"FLUSH", "WRITE"}, Escribir(h, op),
         Flush(h) \/ EscribirBloque(h)
  PROVE  [Abs!Next]_(Abs!vars)
<1> DEFINE p == pedido[h]
<1>1. Empieza(h, op) /\ ~SinCandado(pedido[h])
  BY DEF Escribir, Empieza, SinCandado
<1>2. PICK f \in Archivos : f = p.f
  BY <1>1, AlEntrar
<1>3. /\ InvBloques /\ Callado(h) /\ Fase(h) = "pedida" /\ p.op = op
      /\ Nombrados(p) = {f} /\ EstadoVisto(f) = meta[f].estado
  BY <1>1, <1>2, AlEntrar
<1>4. EnLoPedido(h) /\ dato' = dato
  BY <1>1, <1>3, TrabajaCorto
<1>5. CASE Falla(h)
  BY <1>3, <1>4, <1>5, AlFallar
<1>6. CASE ~Falla(h)
  <2>1. UNCHANGED <<meta, logico, dato, leido>> /\ \E l : Ir(h, "pagina", l)
    BY <1>6 DEF Escribir, disco
  <2>2. pc'[h] = "pagina"
    BY <1>3, <2>1, DelHilo, EfectoDeIr
  <2>3. Callado(h)'
    BY <2>2 DEF Callado, EnTag, Achicando, Escribiendo
  <2>4. Fase(h)' = "pedida"
    BY <2>2, <2>3, AlSeguir
  <2> QED
    BY <1>3, <1>4, <2>1, <2>3, <2>4, NadaCambia, Mudo
<1> QED
  BY <1>5, <1>6

LEMMA VistaPrepararPagina ==
  ASSUME Sano, Sano', NEW h \in Hilos, PrepararPagina(h)
  PROVE  [Abs!Next]_(Abs!vars)
<1>1. pc[h] = "pagina" /\ EnEscritura(h) /\ ~Escribiendo(h)
  BY DEF PrepararPagina, EnEscritura, Escribiendo
<1>2. PICK f : f = pedido[h].f
  OBVIOUS
<1>3. InvBloques /\ Intacto
  BY <1>1, <1>2, EscrituraEs
<1>4. EnLoPedido(h) /\ dato' = dato
  BY <1>3, TrabajaEnCurso
<1>5. /\ UNCHANGED <<meta, logico, leido>>
      /\ \E paso \in {"pagina", "copiar"} : \E l : Ir(h, paso, l)
  BY DEF PrepararPagina, Saltear, PonerBitmap, disco
<1>6. pc'[h] \in {"pagina", "copiar"}
  BY <1>3, <1>5, DelHilo, EfectoDeIr
<1>7. EnEscritura(h)' /\ ~Escribiendo(h)'
  BY <1>6 DEF EnEscritura, Escribiendo
<1>8. \A q \in Pagina : dato'[NodoVisto(f, q)'] = dato[NodoVisto(f, q)]
  BY <1>4, <1>5 DEF NodoVisto, BloqueDe
<1>9. Escribe(h)
  BY <1>4 DEF Escribe
<1> QED
  BY <1>1, <1>2, <1>4, <1>5, <1>7, <1>8, <1>9, EscrituraSigue

\* No page shows the block that its copy is made in.
LEMMA VistaCopiar ==
  ASSUME Sano, Sano', NEW h \in Hilos, Copiar(h)
  PROVE  [Abs!Next]_(Abs!vars)
<1>1. pc[h] = "copiar" /\ EnEscritura(h) /\ ~Escribiendo(h) /\ Copia(h)
  BY DEF Copiar, EnEscritura, Escribiendo, Copia
<1>2. PICK f, c, b : f = pedido[h].f /\ c = loc[h].nuevo /\ b = BloqueDe(pedido[h].f, EnCurso(h)[1])
  OBVIOUS
<1>3. /\ EnLoPedido(h) /\ Escribe(h) /\ Ir(h, "desenlazar", loc[h])
      /\ UNCHANGED <<meta, logico, leido>> /\ c \in Comun /\ dato' = [dato EXCEPT ![c] = dato[b]]
  BY <1>2, LaCopia
<1>4. /\ InvBloques /\ f \in Archivos /\ f \in Nombrados(pedido[h]) /\ Suyos(h) /\ ~SinCandado(pedido[h])
      /\ DiscoOK /\ meta[f].tam \in 0..MaxPaginas
  BY <1>1, <1>2, EscrituraEs
<1>5. pc'[h] = "desenlazar"
  BY <1>3, <1>4, DelHilo, EfectoDeIr
<1>6. EnEscritura(h)' /\ ~Escribiendo(h)'
  BY <1>5 DEF EnEscritura, Escribiendo
<1>7. ~EnObra(h, f)
  BY <1>1 DEF EnObra, EnTruncate, PasosDedup
<1>8. \A q \in Pagina : q < meta[f].tam => dato'[NodoVisto(f, q)'] = dato[NodoVisto(f, q)]
  <2> SUFFICES ASSUME NEW q \in Pagina, q < meta[f].tam
               PROVE  dato'[NodoVisto(f, q)'] = dato[NodoVisto(f, q)]
    OBVIOUS
  <2>1. NodoVisto(f, q)' = NodoVisto(f, q)
    BY <1>3 DEF NodoVisto, BloqueDe
  <2>2. q \in Nat
    BY BloquesAssumption DEF Pagina
  <2>3. NodoVisto(f, q) = logico[f][q]
    BY <1>4, <1>7, <2>2, TodoLegible
  <2>4. Toma(h, c)
    BY <1>1, <1>2 DEF Toma
  <2>5. ~Guarda(f, q, c)
    BY <1>1, <1>3, <1>4, <2>4, AjenosVale DEF Ajenos
  <2>6. NodoVisto(f, q) # c
    BY <2>3, <2>5 DEF Guarda
  <2> QED
    BY <1>3, <1>4, <2>1, <2>6, NodoVistoEs DEF DiscoOK
<1> QED
  BY <1>1, <1>2, <1>3, <1>6, <1>8, EscrituraSigue

\* A page without its link shows the block that BLOCKS names, which is its own until the save.
LEMMA VistaDesenlazar ==
  ASSUME Sano, Sano', NEW h \in Hilos, Desenlazar(h)
  PROVE  [Abs!Next]_(Abs!vars)
<1>1. pc[h] = "desenlazar" /\ EnEscritura(h) /\ ~Escribiendo(h)
  BY DEF Desenlazar, EnEscritura, Escribiendo
<1>2. PICK f, p : f = pedido[h].f /\ p = EnCurso(h)[1]
  OBVIOUS
<1>3. /\ InvBloques /\ Intacto /\ f \in Archivos /\ f \in Nombrados(pedido[h]) /\ Suyos(h) /\ ~SinCandado(pedido[h])
      /\ DiscoOK /\ meta[f].tam \in 0..MaxPaginas
  BY <1>1, <1>2, EscrituraEs
<1>4. EnLoPedido(h) /\ dato' = dato
  BY <1>3, TrabajaEnCurso
<1>5. Enlazar(f, p, Nadie) /\ Ir(h, "enlazar", loc[h]) /\ meta' = meta /\ leido' = leido
  BY <1>2 DEF Desenlazar, Enlazar
<1>6. pc'[h] = "enlazar"
  BY <1>3, <1>5, DelHilo, EfectoDeIr
<1>7. EnEscritura(h)' /\ ~Escribiendo(h)'
  BY <1>6 DEF EnEscritura, Escribiendo
<1>8. ~EnObra(h, f)
  BY <1>1 DEF EnObra, EnTruncate, PasosDedup
<1>9. \A q \in Pagina : q < meta[f].tam => NodoVisto(f, q)' = NodoVisto(f, q)
  <2> SUFFICES ASSUME NEW q \in Pagina, q < meta[f].tam
               PROVE  NodoVisto(f, q)' = NodoVisto(f, q)
    OBVIOUS
  <2>1. q \in Nat
    BY BloquesAssumption DEF Pagina
  <2>2. /\ logico[f][q] = meta[f].blocks[q + 1] /\ NodoVisto(f, q) = logico[f][q]
        /\ Len(meta[f].blocks) = meta[f].tam
    BY <1>3, <1>8, <2>1, TodoLegible
  <2>3. NodoVisto(f, q) = BloqueDe(f, q)
    BY <2>2 DEF BloqueDe
  <2>4. BloqueDe(f, q)' = BloqueDe(f, q)
    BY <1>5 DEF BloqueDe
  <2>5. logico'[f][q] = Nadie \/ logico'[f][q] = logico[f][q]
    BY <1>3, <1>5, EfectoDeEnlazar
  <2> QED
    BY <2>2, <2>3, <2>4, <2>5 DEF NodoVisto
<1>10. Escribe(h)
  BY <1>4 DEF Escribe
<1> QED
  BY <1>1, <1>2, <1>4, <1>5, <1>7, <1>9, <1>10, EscrituraSigue

\* The copy holds what the page held.
LEMMA VistaReenlazar ==
  ASSUME Sano, Sano', NEW h \in Hilos, Reenlazar(h)
  PROVE  [Abs!Next]_(Abs!vars)
<1>1. pc[h] = "enlazar" /\ EnEscritura(h) /\ ~Escribiendo(h)
  BY DEF Reenlazar, EnEscritura, Escribiendo
<1>2. PICK f, p, c : f = pedido[h].f /\ p = EnCurso(h)[1] /\ c = loc[h].nuevo
  OBVIOUS
<1>3. /\ InvBloques /\ Intacto /\ FielOK /\ f \in Archivos /\ DiscoOK /\ meta[f].tam \in 0..MaxPaginas
      /\ loc[h] \in Locales /\ CopiaOK(h) /\ ObraEscritura(h) /\ CursoOK(h)
  BY <1>1, <1>2, EscrituraEs
<1>4. EnLoPedido(h) /\ dato' = dato
  BY <1>3, TrabajaEnCurso
<1>5. nodo[c] = c /\ c # Nadie
  BY <1>2, <1>3, CamposDe, BloquesAssumption, SMTT(30) DEF Intacto, Bloque
<1>6. Enlazar(f, p, c) /\ (\E l : Ir(h, "pagina", l)) /\ meta' = meta /\ leido' = leido
  BY <1>2, <1>5 DEF Reenlazar, Enlazar
<1>7. pc'[h] = "pagina"
  BY <1>3, <1>6, DelHilo, EfectoDeIr
<1>8. EnEscritura(h)' /\ ~Escribiendo(h)'
  BY <1>7 DEF EnEscritura, Escribiendo
<1>9. logico[f] = Salvo(meta[f].blocks, p, Nadie) /\ dato[c] = dato[BloqueDe(f, p)]
  BY <1>1, <1>2, <1>3 DEF ObraEscritura, CopiaOK
<1>10. \A q \in Pagina : q < meta[f].tam => dato'[NodoVisto(f, q)'] = dato[NodoVisto(f, q)]
  <2> SUFFICES ASSUME NEW q \in Pagina
               PROVE  dato'[NodoVisto(f, q)'] = dato[NodoVisto(f, q)]
    OBVIOUS
  <2>1. logico'[f][q] = IF q = p THEN c ELSE logico[f][q]
    BY <1>3, <1>6, EfectoDeEnlazar
  <2>2. BloqueDe(f, q)' = BloqueDe(f, q)
    BY <1>6 DEF BloqueDe
  <2>3. CASE q = p
    <3>1. logico[f][q] = Nadie
      BY <1>9, <2>3 DEF Salvo, Completos, Links
    <3> QED
      BY <1>4, <1>5, <1>9, <2>1, <2>3, <3>1 DEF NodoVisto
  <2>4. CASE q # p
    BY <1>4, <2>1, <2>2, <2>4 DEF NodoVisto
  <2> QED
    BY <2>3, <2>4
<1>11. Escribe(h)
  BY <1>4 DEF Escribe
<1> QED
  BY <1>1, <1>2, <1>4, <1>6, <1>8, <1>10, <1>11, EscrituraSigue

\* While the pending page is written, the file:tag is seen as it will be.
EscrBien == \A h \in Hilos, f \in Archivos : Escribiendo(h) /\ pedido[h].f = f /\ Solo(h, f) =>
    LET e == loc[h].pend IN
    /\ EstadoVisto(f) = "WORK_IN_PROGRESS" /\ Fase(h) = "ok"
    /\ Contenido(f) = [i \in 1..meta[f].tam |->
           IF e # <<>> /\ e[1][1] = i - 1 THEN e[1][3] ELSE dato[NodoVisto(f, i - 1)]]

LEMMA EscrVista == Sano => EscrBien
<1> SUFFICES ASSUME Sano, NEW h \in Hilos, NEW f \in Archivos, Escribiendo(h), pedido[h].f = f, Solo(h, f)
             PROVE  LET e == loc[h].pend IN
                    /\ EstadoVisto(f) = "WORK_IN_PROGRESS" /\ Fase(h) = "ok"
                    /\ Contenido(f) = [i \in 1..meta[f].tam |->
                           IF e # <<>> /\ e[1][1] = i - 1 THEN e[1][3] ELSE dato[NodoVisto(f, i - 1)]]
  BY DEF EscrBien
<1> DEFINE e == loc[h].pend
<1>1. pc[h] = "escribir" /\ EnEscritura(h)
  BY DEF Escribiendo, EnEscritura
<1>2. Fase(h) = "ok" /\ meta[f].estado = "WORK_IN_PROGRESS" /\ EscrituraOK(h)
  BY <1>1, EscrituraEs
<1>3. EstadoVisto(f) = EstadoMio(h, f) /\ Contenido(f) = ContenidoMio(h, f)
  BY VistaMia DEF VistaBien
<1>4. EstadoMio(h, f) = "WORK_IN_PROGRESS" /\ LargoMio(h, f) = meta[f].tam
  BY <1>1, <1>2 DEF EstadoMio, ConMetadata, EnTag, LargoMio, Achicando
<1>5. e # <<>> => Len(e) = 1
  BY <1>1, <1>2 DEF EscrituraOK
<1>6. \A q : PendienteDe(h, q) # {} <=> e # <<>> /\ e[1][1] = q
  <2>1. e \in Seq(Pagina \X Bloque \X Contenidos)
    BY <1>1, EscrituraEs, CamposDe
  <2>2. CASE e = <<>>
    <3>1. DOMAIN <<>> = {}
      OBVIOUS
    <3> QED
      BY <2>2, <3>1 DEF PendienteDe
  <2>3. CASE e # <<>>
    <3>1. DOMAIN e = {1}
      BY <1>5, <2>1, <2>3
    <3> QED
      BY <2>3, <3>1 DEF PendienteDe
  <2> QED
    BY <2>2, <2>3
<1>7. \A i \in 1..meta[f].tam : PaginaMia(h, f, i - 1) =
          IF e # <<>> /\ e[1][1] = i - 1 THEN e[1][3] ELSE dato[NodoVisto(f, i - 1)]
  BY <1>6 DEF PaginaMia
<1> HIDE DEF e
<1>8. ContenidoMio(h, f) = [i \in 1..meta[f].tam |->
           IF e # <<>> /\ e[1][1] = i - 1 THEN e[1][3] ELSE dato[NodoVisto(f, i - 1)]]
  BY <1>4, <1>7 DEF ContenidoMio
<1> QED
  BY <1>2, <1>3, <1>4, <1>8 DEF e

LEMMA EscrLuego == Sano' => EscrBien'
BY EscrVista, PTL

\* What a write of at most one page does.
LEMMA EscritosEs ==
  ASSUME NEW s, NEW w
  PROVE  /\ w = <<>> => Abs!Escritos(s, w) = [i \in DOMAIN s |-> s[i]]
         /\ \A q, x : DOMAIN w = {1} /\ w[1] = <<q, x>> =>
               Abs!Escritos(s, w) = [i \in DOMAIN s |-> IF q = i - 1 THEN x ELSE s[i]]
<1>1. ASSUME w = <<>>
      PROVE  Abs!Escritos(s, w) = [i \in DOMAIN s |-> s[i]]
  <2>1. DOMAIN <<>> = {}
    OBVIOUS
  <2> QED
    BY <1>1, <2>1 DEF Abs!Escritos
<1>2. ASSUME NEW q, NEW x, DOMAIN w = {1}, w[1] = <<q, x>>
      PROVE  Abs!Escritos(s, w) = [i \in DOMAIN s |-> IF q = i - 1 THEN x ELSE s[i]]
  <2>1. w[1][1] = q /\ w[1][2] = x
    BY <1>2
  <2>2. \A i : (\E j \in DOMAIN w : w[j][1] = i - 1) <=> q = i - 1
    BY <1>2, <2>1
  <2>3. \A i : q = i - 1 => w[CHOOSE j \in DOMAIN w : w[j][1] = i - 1][2] = x
    <3> SUFFICES ASSUME NEW i, q = i - 1
                 PROVE  w[CHOOSE j \in DOMAIN w : w[j][1] = i - 1][2] = x
      OBVIOUS
    <3>1. \E j \in DOMAIN w : w[j][1] = i - 1
      BY <2>2
    <3>2. (CHOOSE j \in DOMAIN w : w[j][1] = i - 1) = 1
      BY <1>2, <3>1
    <3> QED
      BY <2>1, <3>2
  <2> QED
    BY <2>2, <2>3 DEF Abs!Escritos
<1> QED
  BY <1>1, <1>2

LEMMA VistaGuardarBlocks ==
  ASSUME Sano, Sano', NEW h \in Hilos, GuardarBlocks(h)
  PROVE  [Abs!Next]_(Abs!vars)
<1> DEFINE p == pedido[h]
<1>1. pc[h] = "pagina" /\ loc[h].cola = <<>> /\ EnEscritura(h) /\ ~Escribiendo(h)
  BY DEF GuardarBlocks, EnEscritura, Escribiendo
<1>2. PICK f, B, e, w : f = p.f /\ B = meta[p.f].blocks /\ e = loc[h].pend /\ w = p.paginas
  OBVIOUS
<1>3. /\ InvBloques /\ Intacto /\ FielOK /\ DiscoOK /\ f \in Archivos \ {Base} /\ Nombrados(p) = {f}
      /\ Solo(h, f) /\ p.op \in {"FLUSH", "WRITE"} /\ meta[f].estado = "WORK_IN_PROGRESS" /\ ConMetadata(f)
      /\ loc[h] \in Locales /\ EscrituraOK(h) /\ ObraEscritura(h)
      /\ B \in Seq(Bloque) /\ Len(B) = meta[f].tam /\ meta[f].tam \in 0..MaxPaginas
      /\ Callado(h) /\ Fase(h) = "pedida"
  BY <1>1, <1>2, EscrituraEs
<1>4. EnLoPedido(h) /\ dato' = dato /\ Escribe(h)
  BY <1>3, TrabajaEnCurso DEF Escribe
<1>5. PICK t : t = meta[f].tam
  OBVIOUS
<1>6. /\ Ir(h, "escribir", loc[h]) /\ UNCHANGED <<logico, ok, leido>>
      /\ meta' = [meta EXCEPT ![f] = IF ok[h] THEN [meta[f] EXCEPT !.blocks = Guardados(h, B)] ELSE meta[f]]
  BY <1>2 DEF GuardarBlocks, PonerMeta, Guardados
<1>7. pc'[h] = "escribir" /\ loc'[h] = loc[h] /\ pedido' = pedido
  BY <1>3, <1>6, DelHilo, EfectoDeIr
<1>8. CASE ~ok[h]
  <2>1. meta' = meta
    BY <1>3, <1>6, <1>8 DEF DiscoOK
  <2>2. EnEscritura(h)' /\ ~Escribiendo(h)'
    BY <1>6, <1>7, <1>8 DEF EnEscritura, Escribiendo
  <2>3. \A q \in Pagina : dato'[NodoVisto(f, q)'] = dato[NodoVisto(f, q)]
    BY <1>4, <1>6, <2>1 DEF NodoVisto, BloqueDe
  <2> QED
    BY <1>1, <1>2, <1>4, <1>6, <2>1, <2>2, <2>3, EscrituraSigue
<1>9. CASE ok[h]
  <2>1. Escribiendo(h)'
    BY <1>6, <1>7, <1>9 DEF Escribiendo
  <2>2. Solo(h, f)'
    BY <1>3, <1>4, LoAjeno
  <2>3. meta'[f].tam = t /\ meta'[f].blocks = Guardados(h, B)
    <3>1. meta \in [Archivos -> Metas] /\ meta[f] \in Metas
      BY <1>3 DEF DiscoOK
    <3>2. meta'[f] = [meta[f] EXCEPT !.blocks = Guardados(h, B)]
      BY <1>3, <1>6, <1>9, <3>1
    <3> QED
      BY <1>5, <3>1, <3>2 DEF Metas
  <2>4. /\ EstadoVisto(f)' = "WORK_IN_PROGRESS" /\ Fase(h)' = "ok"
        /\ Contenido(f)' = [i \in 1..t |->
               IF e # <<>> /\ e[1][1] = i - 1 THEN e[1][3] ELSE dato[NodoVisto(f, i - 1)']]
    <3>1. pedido'[h].f = f /\ loc'[h].pend = e
      BY <1>2, <1>7
    <3>2. /\ EstadoVisto(f)' = "WORK_IN_PROGRESS" /\ Fase(h)' = "ok"
          /\ Contenido(f)' = [i \in 1..meta'[f].tam |->
                 IF loc'[h].pend # <<>> /\ loc'[h].pend[1][1] = i - 1 THEN loc'[h].pend[1][3]
                 ELSE dato'[NodoVisto(f, i - 1)']]
      BY <1>3, <2>1, <2>2, <3>1, EscrLuego DEF EscrBien
    <3> QED
      BY <1>4, <2>3, <3>1, <3>2
  <2>5. /\ EstadoVisto(f) = "WORK_IN_PROGRESS" /\ Len(Contenido(f)) = t
        /\ Contenido(f) = [i \in 1..t |-> dato[NodoVisto(f, i - 1)]]
    BY <1>3, <1>5, CalladoVista DEF CalladoBien
  <2>6. /\ e = <<>> => w = <<>>
        /\ e # <<>> => /\ Len(e) = 1 /\ e[1][1] < Len(B) /\ logico[f] = Salvo(B, e[1][1], e[1][2])
                       /\ Len(w) = 1 /\ w[1] = <<e[1][1], e[1][3]>>
    BY <1>1, <1>2, <1>3, <1>9 DEF EscrituraOK, ObraEscritura
  <2>7. /\ e = <<>> => Guardados(h, B) = B
        /\ e # <<>> => Guardados(h, B) = [B EXCEPT ![e[1][1] + 1] = e[1][2]]
    <3>1. e \in Seq(Pagina \X Bloque \X Contenidos)
      BY <1>2, <1>3, CamposDe
    <3>2. Len(e) <= 1
      <4>1. Len(<<>>) = 0 /\ 0 <= 1 /\ 1 <= 1
        OBVIOUS
      <4> QED
        BY <2>6, <4>1
    <3> QED
      BY <1>2, <1>3, <3>1, <3>2, BlocksGuardados
\* The other pages show what they did.
  <2>8. \A i \in 1..t : ~(e # <<>> /\ e[1][1] = i - 1) => NodoVisto(f, i - 1)' = NodoVisto(f, i - 1)
    <3> SUFFICES ASSUME NEW i \in 1..t, ~(e # <<>> /\ e[1][1] = i - 1)
                 PROVE  NodoVisto(f, i - 1)' = NodoVisto(f, i - 1)
      OBVIOUS
    <3>1. logico'[f][i - 1] = logico[f][i - 1]
      BY <1>6
    <3>2. CASE e = <<>>
      BY <1>2, <1>3, <2>3, <2>7, <3>1, <3>2 DEF NodoVisto, BloqueDe
    <3>3. CASE e # <<>>
      <4>1. i - 1 \in Pagina /\ i - 1 < Len(B) /\ (i - 1) + 1 = i
        BY <1>3, <1>5, BloquesAssumption DEF Pagina
      <4>2. logico[f][i - 1] = B[i]
        BY <2>6, <3>3, <4>1 DEF Salvo, Completos, Links
      <4>3. B[i] # Nadie
        BY <1>3, <1>5, BloquesAssumption DEF Bloque
      <4> QED
        BY <3>1, <4>2, <4>3 DEF NodoVisto
    <3> QED
      BY <3>2, <3>3
  <2>9. PICK s, c : s = Contenido(f) /\ c = Abs!Escritos(s, w)
    OBVIOUS
  <2>10. c = [i \in 1..t |-> IF e # <<>> /\ e[1][1] = i - 1 THEN e[1][3] ELSE dato[NodoVisto(f, i - 1)]]
    <3>1. DOMAIN s = 1..t /\ \A i \in 1..t : s[i] = dato[NodoVisto(f, i - 1)]
      BY <2>5, <2>9
    <3>2. CASE e = <<>>
      <4>1. c = [i \in DOMAIN s |-> s[i]]
        BY <2>6, <2>9, <3>2, EscritosEs
      <4> QED
        BY <3>1, <3>2, <4>1
    <3>3. CASE e # <<>>
      <4>1. w \in Seq(Nat \X Contenidos)
        BY <1>1, <1>2, <1>3, DelPedido
      <4>2. DOMAIN w = {1}
        BY <2>6, <3>3, <4>1
      <4>3. c = [i \in DOMAIN s |-> IF e[1][1] = i - 1 THEN e[1][3] ELSE s[i]]
        BY <2>6, <2>9, <3>3, <4>2, EscritosEs
      <4> QED
        BY <3>1, <3>3, <4>3
    <3> QED
      BY <3>2, <3>3
  <2>11. Contenido(f)' = c
    BY <2>4, <2>8, <2>10
  <2>12. Abs!Poner(f, "WORK_IN_PROGRESS", c)
    BY <1>3, <1>4, <2>4, <2>11, LoAjeno, PasoPone
  <2>13. Abs!Efecto(p)
    BY <1>2, <1>3, <2>5, <2>9, <2>12, EfectoEscritura
  <2>14. Abs!Valido(p)
    <3>1. \A i \in DOMAIN w : w[i][1] < Len(Contenido(f))
      <4>1. CASE e = <<>>
        <5>1. DOMAIN <<>> = {}
          OBVIOUS
        <5> QED
          BY <2>6, <4>1, <5>1
      <4>2. CASE e # <<>>
        <5>1. w \in Seq(Nat \X Contenidos)
          BY <1>1, <1>2, <1>3, DelPedido
        <5>2. DOMAIN w = {1} /\ w[1][1] = e[1][1]
          BY <2>6, <4>2, <5>1
        <5> QED
          BY <1>3, <1>5, <2>5, <2>6, <4>2, <5>2
      <4> QED
        BY <4>1, <4>2
    <3> QED
      BY <1>2, <1>3, <2>5, <3>1, ValidoEs
  <2> QED
    BY <1>2, <1>3, <1>4, <1>6, <2>4, <2>13, <2>14, Concedido
<1> QED
  BY <1>8, <1>9

\* The page that is written was seen with its new content already.
LEMMA VistaEscribirPendiente ==
  ASSUME Sano, Sano', NEW h \in Hilos, EscribirPendiente(h)
  PROVE  [Abs!Next]_(Abs!vars)
<1>1. PICK f, e, k, n, x : f = pedido[h].f /\ e = loc[h].pend /\ k = e[1][1] /\ n = e[1][2] /\ x = e[1][3]
  OBVIOUS
<1>2. /\ EnLoPedido(h) /\ Escribe(h) /\ Ir(h, "escribir", [loc[h] EXCEPT !.pend = <<>>])
      /\ UNCHANGED <<meta, logico, leido, ok>>
      /\ pc[h] = "escribir" /\ ok[h] /\ Len(e) = 1 /\ e[1] \in Pagina \X Bloque \X Contenidos
      /\ n \in Comun /\ k < Len(meta[f].blocks) /\ logico[f][k] = n
      /\ dato' = [dato EXCEPT ![n] = x]
  BY <1>1, LaPendiente
<1>3. EnEscritura(h) /\ Escribiendo(h)
  BY <1>2 DEF EnEscritura, Escribiendo
<1>4. /\ InvBloques /\ DiscoOK /\ f \in Archivos /\ Nombrados(pedido[h]) = {f} /\ f \in Nombrados(pedido[h])
      /\ Suyos(h) /\ ~SinCandado(pedido[h]) /\ Solo(h, f) /\ EscrituraOK(h) /\ loc[h] \in Locales
      /\ meta[f].tam \in 0..MaxPaginas
  <2>1. f = pedido[h].f
    BY <1>1
  <2>2. /\ InvBloques /\ DiscoOK /\ f \in Archivos /\ Nombrados(pedido[h]) = {f}
        /\ Suyos(h) /\ ~SinCandado(pedido[h]) /\ Solo(h, f) /\ EscrituraOK(h) /\ loc[h] \in Locales
        /\ meta[f].tam \in 0..MaxPaginas
    BY <1>3, <2>1, EscrituraEs
  <2> QED
    BY <2>2
<1>5. PICK t : t = meta[f].tam
  OBVIOUS
<1>6. e # <<>> /\ \A q \in Pagina : logico[f][q] = n => q = k
  <2>1. e # <<>>
    <3>1. Len(<<>>) = 0
      OBVIOUS
    <3> QED
      BY <1>2, <3>1
  <2> QED
    BY <1>1, <1>3, <1>4, <2>1 DEF EscrituraOK
<1>7. pc'[h] = "escribir" /\ pedido' = pedido /\ loc'[h].pend = <<>>
  <2>1. PICK l : l = [loc[h] EXCEPT !.pend = <<>>]
    OBVIOUS
  <2>2. l.pend = <<>>
    BY <1>4, <2>1 DEF Locales
  <2>3. Ir(h, "escribir", l)
    BY <1>2, <2>1
  <2> QED
    BY <1>4, <2>2, <2>3, DelHilo, EfectoDeIr
<1>8. Escribiendo(h)'
  BY <1>2, <1>7 DEF Escribiendo
<1>9. Solo(h, f)'
  BY <1>2, <1>4, LoAjeno
<1>10. /\ EstadoVisto(f) = "WORK_IN_PROGRESS" /\ Fase(h) = "ok"
       /\ Contenido(f) = [i \in 1..t |-> IF k = i - 1 THEN x ELSE dato[NodoVisto(f, i - 1)]]
  <2>1. /\ EstadoVisto(f) = "WORK_IN_PROGRESS" /\ Fase(h) = "ok"
        /\ Contenido(f) = [i \in 1..t |->
               IF e # <<>> /\ e[1][1] = i - 1 THEN e[1][3] ELSE dato[NodoVisto(f, i - 1)]]
    BY <1>1, <1>3, <1>4, <1>5, EscrVista DEF EscrBien
  <2> QED
    BY <1>1, <1>6, <2>1
<1>11. /\ EstadoVisto(f)' = "WORK_IN_PROGRESS" /\ Fase(h)' = "ok"
       /\ Contenido(f)' = [i \in 1..t |-> dato'[NodoVisto(f, i - 1)]]
  <2>1. pedido'[h].f = f /\ meta'[f].tam = t
    BY <1>1, <1>2, <1>5, <1>7
  <2>2. /\ EstadoVisto(f)' = "WORK_IN_PROGRESS" /\ Fase(h)' = "ok"
        /\ Contenido(f)' = [i \in 1..meta'[f].tam |->
               IF loc'[h].pend # <<>> /\ loc'[h].pend[1][1] = i - 1 THEN loc'[h].pend[1][3]
               ELSE dato'[NodoVisto(f, i - 1)']]
    BY <1>4, <1>8, <1>9, <2>1, EscrLuego DEF EscrBien
  <2>3. \A q : NodoVisto(f, q)' = NodoVisto(f, q)
    BY <1>2 DEF NodoVisto, BloqueDe
  <2> QED
    BY <1>7, <2>1, <2>2, <2>3
<1>12. \A i \in 1..t : dato'[NodoVisto(f, i - 1)] = IF k = i - 1 THEN x ELSE dato[NodoVisto(f, i - 1)]
  <2> SUFFICES ASSUME NEW i \in 1..t
               PROVE  dato'[NodoVisto(f, i - 1)] = IF k = i - 1 THEN x ELSE dato[NodoVisto(f, i - 1)]
    OBVIOUS
  <2>1. PICK q : q = i - 1
    OBVIOUS
  <2>2. q \in Nat /\ q < meta[f].tam
    BY <1>4, <1>5, <2>1, BloquesAssumption
  <2>3. ~EnObra(h, f)
    BY <1>2 DEF EnObra, EnTruncate, PasosDedup
  <2>4. NodoVisto(f, q) = logico[f][q] /\ q \in Pagina
    BY <1>4, <2>2, <2>3, TodoLegible
  <2>5. NodoVisto(f, q) \in Nodo
    BY <1>4, <2>4, NodoVistoEs
  <2>6. NodoVisto(f, q) = n <=> k = q
    BY <1>2, <1>6, <2>4
  <2>7. dato'[NodoVisto(f, q)] = IF NodoVisto(f, q) = n THEN x ELSE dato[NodoVisto(f, q)]
    BY <1>2, <1>4, <2>5 DEF DiscoOK
  <2> QED
    BY <2>1, <2>6, <2>7
<1>13. Igual(f)
  BY <1>10, <1>11, <1>12 DEF Igual
<1> QED
  BY <1>2, <1>4, <1>10, <1>11, <1>13, Mudo

LEMMA VistaTerminarEscritura ==
  ASSUME Sano, Sano', NEW h \in Hilos, TerminarEscritura(h)
  PROVE  [Abs!Next]_(Abs!vars)
<1>1. pc[h] = "escribir" /\ loc[h].pend = <<>> /\ EnEscritura(h) /\ (Escribiendo(h) <=> ok[h])
  BY DEF TerminarEscritura, EnEscritura, Escribiendo
<1>2. PICK f, r : f = pedido[h].f /\ r = ok[h]
  OBVIOUS
<1>3. /\ InvBloques /\ Intacto /\ f \in Archivos /\ Nombrados(pedido[h]) = {f} /\ Solo(h, f)
      /\ pedido[h].op \in {"FLUSH", "WRITE"} /\ ConMetadata(f) /\ meta[f].estado = "WORK_IN_PROGRESS"
      /\ (~r => Callado(h)) /\ Fase(h) = IF r THEN "ok" ELSE "pedida"
  BY <1>1, <1>2, EscrituraEs
<1>4. EnLoPedido(h) /\ dato' = dato /\ Escribe(h)
  BY <1>3, TrabajaEnCurso DEF Escribe
<1>5. Resultado(h, r) /\ UNCHANGED <<meta, logico, leido>> /\ r \in BOOLEAN
  BY <1>2, <1>3, DelHilo DEF TerminarEscritura, PersistirBitmap, disco
<1>6. Callado(h)' /\ Fase(h)' = IF r THEN "ok" ELSE "error"
  BY <1>5, AlTerminar
<1>7. CASE r
  <2>1. Solo(h, f)'
    BY <1>3, <1>4, LoAjeno
  <2>2. PICK t : t = meta[f].tam
    OBVIOUS
  <2>3. /\ EstadoVisto(f) = "WORK_IN_PROGRESS"
        /\ Contenido(f) = [i \in 1..t |-> dato[NodoVisto(f, i - 1)]]
    <3>1. /\ EstadoVisto(f) = "WORK_IN_PROGRESS"
          /\ Contenido(f) = [i \in 1..meta[f].tam |->
                 IF loc[h].pend # <<>> /\ loc[h].pend[1][1] = i - 1 THEN loc[h].pend[1][3]
                 ELSE dato[NodoVisto(f, i - 1)]]
      BY <1>1, <1>2, <1>3, <1>7, EscrVista DEF EscrBien
    <3> QED
      BY <1>1, <2>2, <3>1
  <2>4. /\ EstadoVisto(f)' = "WORK_IN_PROGRESS"
        /\ Contenido(f)' = [i \in 1..meta'[f].tam |-> dato'[NodoVisto(f, i - 1)']]
    BY <1>3, <1>5, <1>6, <2>1, CalladoLuego DEF CalladoBien, ConMetadata
  <2>5. \A q : NodoVisto(f, q)' = NodoVisto(f, q)
    BY <1>5 DEF NodoVisto, BloqueDe
  <2>6. Igual(f)
    BY <1>4, <1>5, <2>2, <2>3, <2>4, <2>5 DEF Igual
  <2> QED
    BY <1>3, <1>4, <1>5, <1>6, <1>7, <2>6, Mudo
<1>8. CASE ~r
  <2>1. \A g \in Archivos \cap Nombrados(pedido[h]) : Igual(g)
    BY <1>3, <1>4, <1>5, <1>6, <1>8, NadaCambia
  <2> QED
    BY <1>3, <1>4, <1>5, <1>6, <1>8, <2>1, Rehusado
<1> QED
  BY <1>7, <1>8

-------------------------------------------------------------------------------
(* COMMIT takes effect when ESTADO is saved: the deduplication is seen by nobody. *)

\* A thread in COMMIT has its file:tag for itself.
LEMMA CommitEs ==
  ASSUME Sano, NEW h \in Hilos, EnCommit(h), NEW f, f = pedido[h].f
  PROVE  /\ InvBloques /\ Intacto /\ FielOK /\ DiscoOK /\ f \in Archivos \ {Base} /\ Nombrados(pedido[h]) = {f}
         /\ Suyos(h) /\ ~SinCandado(pedido[h]) /\ Solo(h, f) /\ pc[h] # "libre"
         /\ pedido[h].op = "COMMIT" /\ ConMetadata(f) /\ loc[h] \in Locales /\ Callado(h)
         /\ meta[f].blocks \in Seq(Bloque) /\ Len(meta[f].blocks) = meta[f].tam /\ meta[f].tam \in 0..MaxPaginas
         /\ Fase(h) = IF pc[h] = "commit_persistir" THEN "ok" ELSE "pedida"
<1>1. InvBloques /\ Intacto /\ FielOK
  BY DeSano
<1>2. /\ DiscoOK /\ f \in Archivos \ {Base} /\ Suyos(h) /\ ~SinCandado(pedido[h]) /\ pc[h] # "libre"
      /\ pedido[h].op = "COMMIT" /\ loc[h] \in Locales
  BY <1>1, EnElCommit
<1>3. Nombrados(pedido[h]) = {f}
  BY <1>2 DEF Nombrados
<1>4. Solo(h, f)
  BY <1>1, <1>2, <1>3, SoloMio
<1>5. ConMetadata(f)
  BY DeSano DEF ArchivosOK, EstadoOK
<1>6. meta[f].blocks \in Seq(Bloque) /\ Len(meta[f].blocks) = meta[f].tam /\ meta[f].tam \in 0..MaxPaginas
  BY <1>1, <1>2, DelArchivo
<1>7. ~EnTag(h) /\ ~Achicando(h) /\ ~Escribiendo(h) /\ pc[h] \notin {"libre", "responder"}
  BY DEF EnCommit, PasosDedup, EnTag, Achicando, Escribiendo
<1>8. Callado(h) /\ Fase(h) = IF pc[h] = "commit_persistir" THEN "ok" ELSE "pedida"
  BY <1>7, FaseEs DEF Callado
<1> QED
  BY <1>1, <1>2, <1>3, <1>4, <1>5, <1>6, <1>8

\* A step of a COMMIT that no page shows.
LEMMA CommitSigue ==
  ASSUME Sano, Sano', NEW h \in Hilos, EnCommit(h), EnCommit(h)',
         pc[h] # "commit_persistir", pc'[h] # "commit_persistir",
         EnLoPedido(h), dato' = dato, leido' = leido, NEW f, f = pedido[h].f,
         meta'[f].estado = meta[f].estado, meta'[f].tam = meta[f].tam,
         \A q \in Pagina : q < meta[f].tam => dato[NodoVisto(f, q)'] = dato[NodoVisto(f, q)]
  PROVE  [Abs!Next]_(Abs!vars)
<1>1. /\ f \in Archivos /\ Nombrados(pedido[h]) = {f} /\ Solo(h, f) /\ Callado(h) /\ Fase(h) = "pedida"
  BY CommitEs
<1>2. pc'[h] \notin {"libre", "responder"} /\ ~EnTag(h)' /\ ~Achicando(h)' /\ ~Escribiendo(h)'
  BY DEF EnCommit, PasosDedup, EnTag, Achicando, Escribiendo
<1>3. Callado(h)' /\ Fase(h)' = "pedida"
  <2>1. Callado(h)'
    BY <1>2 DEF Callado
  <2> QED
    BY <1>2, <2>1, AlSeguir
<1>4. Escribe(h)
  BY DEF Escribe
<1>5. Solo(h, f)'
  BY <1>1, <1>4, LoAjeno
<1>6. Igual(f)
  BY <1>1, <1>3, <1>5, CalladoIgual
<1> QED
  BY <1>1, <1>3, <1>4, <1>6, Mudo

LEMMA VistaCommit ==
  ASSUME Sano, Sano', NEW h \in Hilos, Commit(h)
  PROVE  [Abs!Next]_(Abs!vars)
<1> DEFINE p == pedido[h]
<1>1. Empieza(h, "COMMIT") /\ ~SinCandado(pedido[h])
  BY DEF Commit, Empieza, SinCandado
<1>2. PICK f \in Archivos : f = p.f
  BY <1>1, AlEntrar
<1>3. /\ InvBloques /\ Callado(h) /\ Fase(h) = "pedida" /\ p.op = "COMMIT"
      /\ Nombrados(p) = {f} /\ EstadoVisto(f) = meta[f].estado
      /\ meta[f].estado \in {"ausente", "WORK_IN_PROGRESS", "COMMITED"}
  BY <1>1, <1>2, AlEntrar
<1>4. EnLoPedido(h) /\ dato' = dato
  BY <1>1, <1>3, TrabajaCorto
<1>5. Abs!Valido(p) <=> f # Base /\ EstadoVisto(f) # "ausente"
  BY <1>2, <1>3, ValidoEs
<1>6. CASE (f = Base \/ ~ConMetadata(f)) /\ Falla(h)
  <2>1. ~Abs!Valido(pedido[h])
    BY <1>3, <1>5, <1>6 DEF ConMetadata
  <2> QED
    BY <1>3, <1>4, <1>6, <2>1, AlFallar
<1>7. CASE f # Base /\ Commited(f) /\ Resultado(h, TRUE) /\ UNCHANGED <<disco, bitmap, leido>>
  <2>1. UNCHANGED <<meta, logico, dato, leido>>
    BY <1>7 DEF disco
  <2>2. Callado(h)' /\ Fase(h)' = "ok"
    BY <1>7, AlTerminar
  <2>3. Escribe(h) /\ Igual(f)
    BY <1>3, <1>4, <2>1, <2>2, NadaCambia
  <2>4. PICK c : c = Contenido(f)
    OBVIOUS
  <2>5. EstadoVisto(f)' = "COMMITED" /\ Contenido(f)' = c
    BY <1>3, <1>7, <2>3, <2>4 DEF Igual, Commited
  <2>6. Abs!Poner(f, "COMMITED", c)
    BY <1>3, <1>4, <2>3, <2>5, LoAjeno, PasoPone
  <2>7. Abs!Efecto(p)
    BY <1>2, <1>3, <2>4, <2>6, EfectoCommit
  <2>8. Abs!Valido(p)
    BY <1>3, <1>5, <1>7 DEF Commited
  <2> QED
    BY <1>2, <1>3, <1>4, <2>1, <2>2, <2>3, <2>7, <2>8, Concedido
<1>8. CASE /\ UNCHANGED <<disco, bitmap, ok, leido>>
           /\ \E paso \in {"commit_estado", "dedup_pag"} : \E l : Ir(h, paso, l)
  <2>1. UNCHANGED <<meta, logico, dato, leido>>
    BY <1>8 DEF disco
  <2>2. pc'[h] \in {"commit_estado", "dedup_pag"}
    BY <1>3, <1>8, DelHilo, EfectoDeIr
  <2>3. Callado(h)'
    BY <2>2 DEF Callado, EnTag, Achicando, Escribiendo
  <2>4. Fase(h)' = "pedida"
    BY <2>2, <2>3, AlSeguir
  <2> QED
    BY <1>3, <1>4, <2>1, <2>3, <2>4, NadaCambia, Mudo
<1> QED
  BY <1>2, <1>6, <1>7, <1>8 DEF Commit

LEMMA EsDedupPag ==
  ASSUME NEW h \in Hilos, DedupPag(h), NEW f, f = pedido[h].f, NEW p, p = loc[h].pag
  PROVE  /\ pc[h] = "dedup_pag" /\ p < Len(meta[f].blocks) /\ meta' = meta /\ leido' = leido
         /\ logico' = logico \/ Enlazar(f, p, Nadie)
         /\ \E paso \in {"dedup_pag", "dedup_link"} : \E l : Ir(h, paso, l)
<1> DEFINE e == Indexado(h, meta[f].blocks[p + 1])
           l1 == [loc[h] EXCEPT !.idx[dato[nodo[meta[f].blocks[p + 1]]]] = meta[f].blocks[p + 1]]
           l2 == [loc[h] EXCEPT !.modif = TRUE]
           l3 == [loc[h] EXCEPT !.lista[p + 1] = e, !.modif = TRUE]
<1>1. /\ pc[h] = "dedup_pag" /\ p < Len(meta[f].blocks)
      /\ \/ \E l \in {loc[h], l1, l2} : DedupSigue(h, l) /\ UNCHANGED <<disco, bitmap, leido>>
         \/ Enlazar(f, p, Nadie) /\ Ir(h, "dedup_link", l3)
  BY Zenon DEF DedupPag
<1> HIDE DEF l1, l2, l3, e
<1>2. CASE \E l \in {loc[h], l1, l2} : DedupSigue(h, l) /\ UNCHANGED <<disco, bitmap, leido>>
  <2>1. PICK l : DedupSigue(h, l)
    BY <1>2
  <2>2. PICK k : Ir(h, "dedup_pag", k)
    BY <2>1 DEF DedupSigue
  <2>3. UNCHANGED <<meta, logico, leido>>
    BY <1>2 DEF disco
  <2> QED
    BY <1>1, <2>2, <2>3
<1>3. CASE Enlazar(f, p, Nadie) /\ Ir(h, "dedup_link", l3)
  <2>1. UNCHANGED <<meta, leido>>
    BY <1>3 DEF Enlazar
  <2> QED
    BY <1>1, <1>3, <2>1
<1> QED
  BY <1>1, <1>2, <1>3

\* A page that loses its link shows the block that BLOCKS names.
LEMMA VistaDedupPag ==
  ASSUME Sano, Sano', NEW h \in Hilos, DedupPag(h)
  PROVE  [Abs!Next]_(Abs!vars)
<1>1. pc[h] = "dedup_pag" /\ EnDedup(h) /\ EnCommit(h)
  BY EsDedupPag DEF EnDedup, EnCommit, PasosDedup
<1>2. PICK f, p : f = pedido[h].f /\ p = loc[h].pag
  OBVIOUS
<1>3. /\ InvBloques /\ Intacto /\ FielOK /\ DiscoOK /\ f \in Archivos /\ meta[f].tam \in 0..MaxPaginas
      /\ Len(meta[f].blocks) = meta[f].tam
  BY <1>1, <1>2, CommitEs
<1>4. EnLoPedido(h) /\ dato' = dato
  BY <1>3, TrabajaEnCurso
<1>5. /\ p < Len(meta[f].blocks) /\ meta' = meta /\ leido' = leido
      /\ logico' = logico \/ Enlazar(f, p, Nadie)
      /\ \E paso \in {"dedup_pag", "dedup_link"} : \E l : Ir(h, paso, l)
  BY <1>2, EsDedupPag
<1>6. pc'[h] \in {"dedup_pag", "dedup_link"}
  BY <1>3, <1>5, DelHilo, EfectoDeIr
<1>7. EnCommit(h)'
  BY <1>6 DEF EnCommit, PasosDedup
<1>8. logico[f] = Completos(loc[h].lista) /\ loc[h].lista[p + 1] = meta[f].blocks[p + 1]
      /\ p < Len(loc[h].lista) /\ p \in Pagina
  <2>1. logico[f] = Completos(loc[h].lista)
    BY <1>1, <1>2, <1>3 DEF FielOK, ObraOK, ObraDedup, PasosDedup
  <2>2. /\ InvBloques /\ OcupadoOK /\ Apartadas /\ Intacto
        /\ pc[h] = "dedup_pag" /\ loc[h].pag < Len(meta[pedido[h].f].blocks)
    BY <1>1, <1>2, <1>3, <1>5, DeSano
  <2>3. /\ loc[h].pag \in Pagina /\ loc[h].pag < Len(loc[h].lista)
        /\ loc[h].lista[loc[h].pag + 1] = meta[pedido[h].f].blocks[loc[h].pag + 1]
    BY <2>2, LaDeTurno, Zenon
  <2> QED
    BY <1>2, <2>1, <2>3
<1>9. \A q \in Pagina : NodoVisto(f, q)' = NodoVisto(f, q)
  <2> SUFFICES ASSUME NEW q \in Pagina
               PROVE  NodoVisto(f, q)' = NodoVisto(f, q)
    OBVIOUS
  <2>1. BloqueDe(f, q)' = BloqueDe(f, q)
    BY <1>5 DEF BloqueDe
  <2>2. CASE logico' = logico
    BY <2>1, <2>2 DEF NodoVisto
  <2>3. CASE Enlazar(f, p, Nadie)
    <3>1. logico'[f][q] = IF q = p THEN Nadie ELSE logico[f][q]
      BY <1>3, <2>3, EfectoDeEnlazar
    <3>2. logico[f][p] = meta[f].blocks[p + 1] /\ BloqueDe(f, p) = meta[f].blocks[p + 1]
      BY <1>5, <1>8 DEF Completos, Links, BloqueDe
    <3> QED
      BY <2>1, <3>1, <3>2 DEF NodoVisto
  <2> QED
    BY <1>5, <2>2, <2>3
<1> QED
  BY <1>1, <1>2, <1>4, <1>5, <1>6, <1>7, <1>9, CommitSigue

\* The block that the page is linked to has the same content.
LEMMA VistaDedupLink ==
  ASSUME Sano, Sano', NEW h \in Hilos, DedupLink(h)
  PROVE  [Abs!Next]_(Abs!vars)
<1>1. pc[h] = "dedup_link" /\ EnDedup(h) /\ EnCommit(h)
  BY DEF DedupLink, EnDedup, EnCommit, PasosDedup
<1>2. PICK f, p, e : f = pedido[h].f /\ p = loc[h].pag /\ e = loc[h].lista[loc[h].pag + 1]
  OBVIOUS
<1>3. /\ InvBloques /\ Intacto /\ FielOK /\ DiscoOK /\ f \in Archivos /\ meta[f].tam \in 0..MaxPaginas
      /\ Len(meta[f].blocks) = meta[f].tam
  BY <1>1, <1>2, CommitEs
<1>4. EnLoPedido(h) /\ dato' = dato
  BY <1>3, TrabajaEnCurso
<1>5. e \in Bloque /\ p < Len(meta[f].blocks)
  <2>1. /\ loc[h].lista \in Seq(Bloque) /\ loc[h].pag + 1 \in 1..Len(loc[h].lista)
        /\ loc[h].pag < Len(meta[pedido[h].f].blocks)
    BY <1>1, <1>3, DeSano, EnMedioDelDedup
  <2> QED
    BY <1>2, <2>1
<1>6. nodo[e] = e /\ e # Nadie
  BY <1>3, <1>5, BloquesAssumption DEF Intacto, Bloque
<1>7. Enlazar(f, p, e) /\ Ir(h, "dedup_bit", loc[h]) /\ meta' = meta /\ leido' = leido
  BY <1>2, <1>6 DEF DedupLink, Enlazar
<1>8. pc'[h] = "dedup_bit"
  BY <1>3, <1>7, DelHilo, EfectoDeIr
<1>9. EnCommit(h)'
  BY <1>8 DEF EnCommit, PasosDedup
<1>10. logico[f] = Salvo(loc[h].lista, p, Nadie) /\ dato[e] = dato[meta[f].blocks[p + 1]]
  <2>1. DedupOK(h)
    BY DeSano DEF ArchivosOK
  <2> QED
    BY <1>1, <1>2, <1>3, <2>1 DEF FielOK, ObraOK, ObraDedup, DedupOK, PasosDedup
<1>11. \A q \in Pagina : dato[NodoVisto(f, q)'] = dato[NodoVisto(f, q)]
  <2> SUFFICES ASSUME NEW q \in Pagina
               PROVE  dato[NodoVisto(f, q)'] = dato[NodoVisto(f, q)]
    OBVIOUS
  <2>1. BloqueDe(f, q)' = BloqueDe(f, q)
    BY <1>7 DEF BloqueDe
  <2>2. logico'[f][q] = IF q = p THEN e ELSE logico[f][q]
    BY <1>3, <1>7, EfectoDeEnlazar
  <2>3. CASE q = p
    <3>1. logico[f][q] = Nadie
      BY <1>10, <2>3 DEF Salvo, Completos, Links
    <3>2. BloqueDe(f, q) = meta[f].blocks[p + 1]
      BY <1>5, <2>3 DEF BloqueDe
    <3> QED
      BY <1>6, <1>10, <2>2, <2>3, <3>1, <3>2 DEF NodoVisto
  <2>4. CASE q # p
    BY <2>1, <2>2, <2>4 DEF NodoVisto
  <2> QED
    BY <2>3, <2>4
<1> QED
  BY <1>1, <1>2, <1>4, <1>7, <1>8, <1>9, <1>11, CommitSigue

LEMMA VistaDedupBit ==
  ASSUME Sano, Sano', NEW h \in Hilos, DedupBit(h) \/ DedupPersistir(h)
  PROVE  [Abs!Next]_(Abs!vars)
<1>1. pc[h] \in {"dedup_bit", "dedup_persistir"} /\ EnCommit(h)
  BY DEF DedupBit, DedupPersistir, EnCommit, PasosDedup
<1>2. PICK f : f = pedido[h].f
  OBVIOUS
<1>3. InvBloques /\ Intacto
  BY <1>1, <1>2, CommitEs
<1>4. EnLoPedido(h) /\ dato' = dato
  BY <1>3, TrabajaEnCurso
<1>5. /\ UNCHANGED <<meta, logico, leido>>
      /\ \E paso \in {"dedup_pag", "dedup_persistir"} : \E l : Ir(h, paso, l)
  BY DEF DedupBit, DedupPersistir, DedupSigue, PonerBitmap, PersistirBitmap, disco
<1>6. pc'[h] \in {"dedup_pag", "dedup_persistir"}
  BY <1>3, <1>5, DelHilo, EfectoDeIr
<1>7. EnCommit(h)'
  BY <1>6 DEF EnCommit, PasosDedup
<1>8. \A q \in Pagina : NodoVisto(f, q)' = NodoVisto(f, q)
  BY <1>5 DEF NodoVisto, BloqueDe
<1> QED
  BY <1>1, <1>2, <1>4, <1>5, <1>6, <1>7, <1>8, CommitSigue

\* By the time BLOCKS is saved, every page has the link that it names.
LEMMA VistaDedupGuardar ==
  ASSUME Sano, Sano', NEW h \in Hilos, DedupGuardar(h)
  PROVE  [Abs!Next]_(Abs!vars)
<1>1. pc[h] = "dedup_pag" /\ EnDedup(h) /\ EnCommit(h)
  BY DEF DedupGuardar, EnDedup, EnCommit, PasosDedup
<1>2. PICK f, S : f = pedido[h].f /\ S = loc[h].lista
  OBVIOUS
<1>3. /\ InvBloques /\ Intacto /\ FielOK /\ DiscoOK /\ f \in Archivos /\ meta[f].tam \in 0..MaxPaginas
      /\ Len(meta[f].blocks) = meta[f].tam
  BY <1>1, <1>2, CommitEs
<1>4. EnLoPedido(h) /\ dato' = dato
  BY <1>3, TrabajaEnCurso
<1>5. Ir(h, "commit_estado", SinLocales) /\ logico' = logico /\ leido' = leido
  BY DEF DedupGuardar
<1>6. meta'[f].estado = meta[f].estado /\ meta'[f].tam = meta[f].tam
  <2>1. meta \in [Archivos -> Metas] /\ meta[f] \in Metas
    BY <1>3 DEF DiscoOK
  <2> QED
    BY <1>2, <2>1 DEF DedupGuardar, Metas
<1>7. pc'[h] = "commit_estado"
  BY <1>3, <1>5, DelHilo, EfectoDeIr
<1>8. EnCommit(h)'
  BY <1>7 DEF EnCommit
<1>9. logico[f] = Completos(S) /\ S \in Seq(Bloque) /\ Len(S) = meta[f].tam
  <2>1. logico[f] = Completos(S)
    BY <1>1, <1>2, <1>3 DEF FielOK, ObraOK, ObraDedup, PasosDedup
  <2>2. loc[h].lista \in Seq(Bloque) /\ Len(loc[h].lista) = Len(meta[pedido[h].f].blocks)
    BY <1>1, <1>3, DeSano, EnMedioDelDedup
  <2> QED
    BY <1>2, <1>3, <2>1, <2>2
<1>10. \A q \in Pagina : q < meta[f].tam => NodoVisto(f, q)' = NodoVisto(f, q)
  <2> SUFFICES ASSUME NEW q \in Pagina, q < meta[f].tam
               PROVE  NodoVisto(f, q)' = NodoVisto(f, q)
    OBVIOUS
  <2>1. q + 1 \in 1..Len(S)
    BY <1>3, <1>9, BloquesAssumption DEF Pagina
  <2>2. S[q + 1] \in Bloque
    BY <1>9, <2>1
  <2>3. logico[f][q] = S[q + 1]
    BY <1>9 DEF Completos, Links
  <2>4. logico[f][q] # Nadie
    BY <2>2, <2>3, BloquesAssumption DEF Bloque
  <2> QED
    BY <1>5, <2>4 DEF NodoVisto
<1> QED
  BY <1>1, <1>2, <1>4, <1>5, <1>6, <1>7, <1>8, <1>10, CommitSigue

LEMMA VistaCommitEstado ==
  ASSUME Sano, Sano', NEW h \in Hilos, CommitEstado(h)
  PROVE  [Abs!Next]_(Abs!vars)
<1> DEFINE p == pedido[h]
<1>1. pc[h] = "commit_estado" /\ EnCommit(h)
  BY DEF CommitEstado, EnCommit
<1>2. PICK f, t : f = p.f /\ t = meta[f].tam
  OBVIOUS
<1>3. /\ InvBloques /\ DiscoOK /\ f \in Archivos \ {Base} /\ Nombrados(p) = {f} /\ Solo(h, f) /\ Callado(h)
      /\ p.op = "COMMIT" /\ ConMetadata(f) /\ ~SinCandado(p) /\ Fase(h) = "pedida"
  BY <1>1, <1>2, CommitEs
<1>4. EnLoPedido(h) /\ dato' = dato /\ Escribe(h)
  BY <1>3, TrabajaCorto DEF Escribe
<1>5. /\ PonerMeta(f, [meta[f] EXCEPT !.estado = "COMMITED"]) /\ Ir(h, "commit_persistir", SinLocales)
  BY <1>2 DEF CommitEstado
<1>6. /\ meta'[f].estado = "COMMITED" /\ meta'[f].tam = t /\ meta'[f].blocks = meta[f].blocks
      /\ logico' = logico /\ leido' = leido
  <2>1. meta \in [Archivos -> Metas] /\ meta[f] \in Metas
    BY <1>3 DEF DiscoOK
  <2>2. meta'[f] = [meta[f] EXCEPT !.estado = "COMMITED"] /\ logico' = logico /\ leido' = leido
    BY <1>3, <1>5, <2>1 DEF PonerMeta
  <2>3. /\ [meta[f] EXCEPT !.estado = "COMMITED"].estado = "COMMITED"
        /\ [meta[f] EXCEPT !.estado = "COMMITED"].tam = meta[f].tam
        /\ [meta[f] EXCEPT !.estado = "COMMITED"].blocks = meta[f].blocks
    BY <2>1 DEF Metas
  <2> QED
    BY <1>2, <2>2, <2>3
<1>7. pc'[h] = "commit_persistir"
  BY <1>3, <1>5, DelHilo, EfectoDeIr
<1>8. EnCommit(h)' /\ pedido' = pedido
  BY <1>3, <1>4, <1>7, OtrosHilos DEF EnCommit
<1>9. Callado(h)' /\ Fase(h)' = "ok"
  <2>1. Callado(h)'
    BY <1>7 DEF Callado, EnTag, Achicando, Escribiendo
  <2>2. Fase(h)' = "ok"
    BY <1>7, FaseLuego DEF FaseBien
  <2> QED
    BY <2>1, <2>2
<1>10. Solo(h, f)'
  BY <1>3, <1>4, LoAjeno
<1>11. \A q : NodoVisto(f, q)' = NodoVisto(f, q)
  BY <1>6 DEF NodoVisto, BloqueDe
<1>12. PICK c : c = [i \in 1..t |-> dato[NodoVisto(f, i - 1)]]
  OBVIOUS
<1>13. Contenido(f) = c /\ EstadoVisto(f) # "ausente"
  BY <1>2, <1>3, <1>12, CalladoVista DEF CalladoBien, ConMetadata
<1>14. Contenido(f)' = c /\ EstadoVisto(f)' = "COMMITED"
  <2>1. /\ EstadoVisto(f)' = "COMMITED"
        /\ Contenido(f)' = [i \in 1..meta'[f].tam |-> dato'[NodoVisto(f, i - 1)']]
    BY <1>3, <1>6, <1>9, <1>10, CalladoLuego DEF CalladoBien, ConMetadata
  <2> QED
    BY <1>4, <1>6, <1>11, <1>12, <2>1
<1>15. Abs!Poner(f, "COMMITED", c)
  BY <1>3, <1>4, <1>14, LoAjeno, PasoPone
<1>16. Abs!Efecto(p) /\ Abs!Valido(p)
  <2>1. Abs!Efecto(p)
    BY <1>2, <1>3, <1>13, <1>15, EfectoCommit
  <2>2. Abs!Valido(p)
    BY <1>2, <1>3, <1>13, ValidoEs
  <2> QED
    BY <2>1, <2>2
<1> QED
  BY <1>2, <1>3, <1>4, <1>6, <1>9, <1>16, Concedido

LEMMA VistaCommitPersistir ==
  ASSUME Sano, Sano', NEW h \in Hilos, CommitPersistir(h)
  PROVE  [Abs!Next]_(Abs!vars)
<1>1. pc[h] = "commit_persistir" /\ EnCommit(h)
  BY DEF CommitPersistir, EnCommit
<1>2. PICK f : f = pedido[h].f
  OBVIOUS
<1>3. InvBloques /\ ~SinCandado(pedido[h]) /\ Callado(h) /\ Fase(h) = "ok"
  BY <1>1, <1>2, CommitEs
<1>4. EnLoPedido(h) /\ dato' = dato
  BY <1>3, TrabajaCorto
<1>5. Resultado(h, TRUE) /\ UNCHANGED <<meta, logico, leido>>
  BY DEF CommitPersistir, PersistirBitmap
<1>6. Callado(h)' /\ Fase(h)' = "ok"
  BY <1>5, AlTerminar
<1> QED
  BY <1>3, <1>4, <1>5, <1>6, NadaCambia, Mudo

-------------------------------------------------------------------------------
(* A request arrives, an answer leaves, a TAG of initial_file:BASE is refused.    *)

\* Nothing changes but threads outside of any operation.
LEMMA VistaAparte ==
  ASSUME Sano, Sano', NEW h \in Hilos, UNCHANGED <<meta, logico, dato>>, ~Adentro(h), ~Adentro(h)',
         \A g \in Hilos \ {h} : pc'[g] = pc[g] /\ loc'[g] = loc[g] /\ ok'[g] = ok[g] /\ pedido'[g] = pedido[g]
  PROVE  /\ \A f \in Archivos : Igual(f)
         /\ \A g \in Hilos \ {h} : Fase(g)' = Fase(g)
<1>1. InvBloques
  BY DeSano
<1>2. \A f : ~Atiende(h, f) /\ ~Atiende(h, f)'
  BY DEF Atiende
<1>3. \A g \in Hilos : \A f : Atiende(g, f)' <=> Atiende(g, f)
  BY <1>2 DEF Atiende, Adentro
<1>4. ASSUME NEW f \in Archivos PROVE Igual(f)
  <2>1. PICK g \in Hilos : Solo(g, f)
    <3>1. CASE \E g \in Hilos : Atiende(g, f)
      BY <1>1, <3>1, AtiendeUno
    <3>2. CASE ~\E g \in Hilos : Atiende(g, f)
      BY <3>2 DEF Solo
    <3> QED
      BY <3>1, <3>2
  <2>2. Solo(g, f)'
    BY <1>3, <2>1 DEF Solo
  <2>3. \/ pc'[g] = pc[g] /\ loc'[g] = loc[g] /\ ok'[g] = ok[g] /\ pedido'[g] = pedido[g]
        \/ ~Atiende(g, f) /\ ~Atiende(g, f)'
    BY <1>2
  <2> QED
    BY <2>1, <2>2, <2>3, VistaIgual
<1>5. ASSUME NEW g \in Hilos \ {h} PROVE Fase(g)' = Fase(g)
  <2>1. Achicando(g)' = Achicando(g)
    BY DEF Achicando
  <2>2. Escribiendo(g)' = Escribiendo(g)
    BY DEF Escribiendo
  <2> QED
    BY <2>1, <2>2, FaseVista, FaseLuego DEF FaseBien
<1> QED
  BY <1>4, <1>5

LEMMA PasoPedido ==
  ASSUME NEW h \in Hilos, NEW p \in UNION Mezclas, pedido' = [pedido EXCEPT ![h] = p], leido' = leido,
         Fase(h) = "libre", Fase(h)' = "pedida", \A g \in Hilos \ {h} : Fase(g)' = Fase(g),
         \A f \in Archivos : Igual(f)
  PROVE  Abs!Pedir(h)
<1>1. [g \in Hilos |-> Fase(g)]' = [[g \in Hilos |-> Fase(g)] EXCEPT ![h] = "pedida"]
  OBVIOUS
<1>2. [g \in Hilos |-> Fase(g)][h] = "libre"
  OBVIOUS
<1>3. [f \in Archivos |-> EstadoVisto(f)]' = [f \in Archivos |-> EstadoVisto(f)]
  BY DEF Igual
<1>4. [f \in Archivos |-> Contenido(f)]' = [f \in Archivos |-> Contenido(f)]
  BY DEF Igual
<1> QED
  BY <1>1, <1>2, <1>3, <1>4 DEF Abs!Pedir, Contenido

LEMMA PasoRespondido ==
  ASSUME NEW h \in Hilos, pedido' = [pedido EXCEPT ![h] = SinPedido], leido' = leido,
         Fase(h) \in {"ok", "error"}, Fase(h)' = "libre", \A g \in Hilos \ {h} : Fase(g)' = Fase(g),
         \A f \in Archivos : Igual(f)
  PROVE  Abs!Responder(h)
<1>1. [g \in Hilos |-> Fase(g)]' = [[g \in Hilos |-> Fase(g)] EXCEPT ![h] = "libre"]
  OBVIOUS
<1>2. [g \in Hilos |-> Fase(g)][h] \in {"ok", "error"}
  OBVIOUS
<1>3. [f \in Archivos |-> EstadoVisto(f)]' = [f \in Archivos |-> EstadoVisto(f)]
  BY DEF Igual
<1>4. [f \in Archivos |-> Contenido(f)]' = [f \in Archivos |-> Contenido(f)]
  BY DEF Igual
<1>5. Abs!SinPedido = SinPedido
  BY DEF Abs!SinPedido, SinPedido
<1> QED
  BY <1>1, <1>2, <1>3, <1>4, <1>5 DEF Abs!Responder, Contenido

LEMMA VistaPedir ==
  ASSUME Sano, Sano', NEW h \in Hilos, Pedir(h)
  PROVE  [Abs!Next]_(Abs!vars)
<1>1. HilosOK /\ mezcla \subseteq UNION Mezclas
  BY DeSano DEF InvBloques, HilosOK
<1>2. PICK p \in UNION Mezclas : pedido' = [pedido EXCEPT ![h] = p]
  BY <1>1 DEF Pedir
<1>3. UNCHANGED <<meta, logico, dato, leido, ok, loc>> /\ pc[h] = "libre" /\ pc' = [pc EXCEPT ![h] = "entrar"]
  BY DEF Pedir, disco
<1>4. pc'[h] = "entrar" /\ \A g \in Hilos \ {h} : pc'[g] = pc[g] /\ pedido'[g] = pedido[g]
  BY <1>1, <1>2, <1>3 DEF HilosOK
<1>5. ~Adentro(h) /\ ~Adentro(h)' /\ Callado(h)'
  BY <1>3, <1>4 DEF Adentro, Callado, EnTag, Achicando, Escribiendo
<1>6. Fase(h) = "libre" /\ Fase(h)' = "pedida"
  BY <1>3, <1>4, <1>5, FaseEs, AlSeguir
<1>7. (\A f \in Archivos : Igual(f)) /\ \A g \in Hilos \ {h} : Fase(g)' = Fase(g)
  BY <1>3, <1>4, <1>5, VistaAparte
<1>8. Abs!Pedir(h)
  BY <1>2, <1>3, <1>6, <1>7, PasoPedido
<1> QED
  BY <1>8 DEF Abs!Next

LEMMA VistaResponder ==
  ASSUME Sano, Sano', NEW h \in Hilos, Responder(h)
  PROVE  [Abs!Next]_(Abs!vars)
<1>1. HilosOK
  BY DeSano DEF InvBloques
<1>2. /\ UNCHANGED <<meta, logico, dato, leido, loc>> /\ pc[h] = "responder"
      /\ pc' = [pc EXCEPT ![h] = "libre"] /\ pedido' = [pedido EXCEPT ![h] = SinPedido]
      /\ ok' = [ok EXCEPT ![h] = TRUE]
  BY DEF Responder, disco
<1>3. /\ pc'[h] = "libre"
      /\ \A g \in Hilos \ {h} : pc'[g] = pc[g] /\ pedido'[g] = pedido[g] /\ ok'[g] = ok[g]
  BY <1>1, <1>2 DEF HilosOK
<1>4. ~Adentro(h) /\ ~Adentro(h)'
  BY <1>2, <1>3 DEF Adentro
<1>5. Fase(h) \in {"ok", "error"} /\ Fase(h)' = "libre"
  BY <1>2, <1>3, FaseVista, FaseLuego DEF FaseBien
<1>6. (\A f \in Archivos : Igual(f)) /\ \A g \in Hilos \ {h} : Fase(g)' = Fase(g)
  BY <1>2, <1>3, <1>4, VistaAparte
<1>7. Abs!Responder(h)
  BY <1>2, <1>5, <1>6, PasoRespondido
<1> QED
  BY <1>7 DEF Abs!Next

LEMMA VistaTagBase ==
  ASSUME Sano, Sano', NEW h \in Hilos, Tag(h), SinCandado(pedido[h])
  PROVE  [Abs!Next]_(Abs!vars)
<1>1. Falla(h) /\ pc[h] = "entrar" /\ pedido[h].op = "TAG" /\ pedido[h].f = Base
  BY DEF Tag, Empieza, SinCandado
<1>2. /\ UNCHANGED <<meta, logico, dato, leido>> /\ Resultado(h, FALSE) /\ Ir(h, "responder", SinLocales)
      /\ ok' = [ok EXCEPT ![h] = FALSE]
  BY <1>1 DEF Falla, Resultado, disco
<1>3. InvBloques /\ HilosOK
  BY DeSano DEF InvBloques
<1>4. /\ pc'[h] = "responder" /\ pedido' = pedido
      /\ \A g \in Hilos \ {h} : pc'[g] = pc[g] /\ loc'[g] = loc[g] /\ ok'[g] = ok[g]
  BY <1>2, <1>3, EfectoDeIr DEF HilosOK
<1>5. ~Adentro(h) /\ ~Adentro(h)'
  BY <1>1, <1>4 DEF Adentro
<1>6. Fase(h) = "pedida" /\ Fase(h)' = "error"
  <2>1. ~Achicando(h) /\ ~Escribiendo(h)
    BY <1>1 DEF Achicando, Escribiendo
  <2> QED
    BY <1>1, <1>2, <2>1, FaseEs, AlTerminar
<1>7. (\A f \in Archivos : Igual(f)) /\ \A g \in Hilos \ {h} : Fase(g)' = Fase(g)
  BY <1>2, <1>4, <1>5, VistaAparte
<1>8. ~Abs!Valido(pedido[h])
  <2>1. pedido[h].d \in Archivos /\ Base \in Archivos
    BY <1>1, <1>3, DelPedido, BloquesAssumption
  <2> QED
    BY <1>1, <2>1, ValidoEs
<1>9. Abs!Rechazar(h)
  BY <1>2, <1>4, <1>6, <1>7, <1>8, PasoRechazado
<1> QED
  BY <1>9 DEF Abs!Next

-------------------------------------------------------------------------------
(* Every step. *)

LEMMA VistaOperacion ==
  ASSUME Sano, Sano', NEW h \in Hilos, Operacion(h)
  PROVE  [Abs!Next]_(Abs!vars)
<1>1. InvBloques /\ SinDelete
  BY DeSano
<1>2. ~(\/ Eliminar(h) \/ DelUnlink(h) \/ DelStat(h) \/ DelFisico(h) \/ DelBit(h)
        \/ DelPersistir(h) \/ DelRm(h))
  BY <1>1, SinOperacionDelete
<1>3. CASE Crear(h) \/ CrearMeta(h) \/ Leer(h) \/ Tag(h) \/ TagMeta(h) \/ TagLink(h)
  BY <1>3, VistaCrear, VistaCrearMeta, VistaLeer, VistaTag, VistaTagBase, VistaTagMeta, VistaTagLink
<1>4. CASE Truncar(h) \/ TruncCrecer(h) \/ TruncBajar(h) \/ TruncStat(h) \/ TruncLiberar(h)
           \/ TruncMeta(h)
  BY <1>4, VistaTruncar, VistaTruncCrecer, VistaTruncBajar, VistaTruncMeta
<1>5. CASE Flush(h) \/ EscribirBloque(h)
  <2>1. \E op \in {"FLUSH", "WRITE"} : Escribir(h, op)
    BY <1>5 DEF Flush, EscribirBloque
  <2> QED
    BY <1>5, <2>1, VistaEscribir
<1>6. CASE \/ PrepararPagina(h) \/ Copiar(h) \/ Desenlazar(h) \/ Reenlazar(h) \/ GuardarBlocks(h)
           \/ EscribirPendiente(h) \/ TerminarEscritura(h)
  BY <1>6, VistaPrepararPagina, VistaCopiar, VistaDesenlazar, VistaReenlazar, VistaGuardarBlocks,
     VistaEscribirPendiente, VistaTerminarEscritura
<1>7. CASE \/ Commit(h) \/ DedupPag(h) \/ DedupLink(h) \/ DedupBit(h) \/ DedupPersistir(h)
           \/ DedupGuardar(h) \/ CommitEstado(h) \/ CommitPersistir(h)
  BY <1>7, VistaCommit, VistaDedupPag, VistaDedupLink, VistaDedupBit, VistaDedupGuardar,
     VistaCommitEstado, VistaCommitPersistir
<1> QED
  BY <1>2, <1>3, <1>4, <1>5, <1>6, <1>7 DEF Operacion

LEMMA VistaQuieta ==
  ASSUME UNCHANGED vars
  PROVE  UNCHANGED Abs!vars
<1>1. UNCHANGED <<meta, logico, nodo, dato, pc, pedido, ok, loc, leido>>
  BY DEF vars, disco
<1>2. ASSUME NEW f \in Archivos PROVE Igual(f)
  <2>1. EstadoVisto(f)' = EstadoVisto(f)
    BY <1>1 DEF EstadoVisto, ConMetadata, Borrando, Armando
  <2>2. LargoVisto(f)' = LargoVisto(f)
    BY <1>1 DEF LargoVisto, Achicando
  <2>3. \A p : PaginaVista(f, p)' = PaginaVista(f, p)
    BY <1>1 DEF PaginaVista, Escribiendo, PendienteDe, BloqueDe
  <2> QED
    BY <2>1, <2>2, <2>3 DEF Igual, Contenido
<1>3. \A g \in Hilos : Fase(g)' = Fase(g)
  BY <1>1 DEF Fase, Achicando, Escribiendo
<1> QED
  BY <1>1, <1>2, <1>3, PasoMudo

\* Every step is one of ArchivosFS or is seen by nobody.
LEMMA VistaSigue ==
  InvArchivos /\ InvArchivos' /\ SinTropiezos /\ SinTropiezos' /\ [Next]_vars => [Abs!Next]_(Abs!vars)
<1> SUFFICES ASSUME InvArchivos, InvArchivos', SinTropiezos, SinTropiezos', [Next]_vars
             PROVE  [Abs!Next]_(Abs!vars)
  OBVIOUS
<1>1. Sano /\ ~Caer
  BY EstaSano, TropiezosDeAntes
<1>2. Sano'
  BY DEF InvArchivos, InvFiel, InvOcupado, InvIntacto, SinTropiezos, Supuestos, Sano
<1>3. CASE \E h \in Hilos : Pedir(h) \/ Operacion(h) \/ Responder(h)
  BY <1>1, <1>2, <1>3, VistaPedir, VistaOperacion, VistaResponder
<1>4. CASE UNCHANGED vars
  BY <1>4, VistaQuieta
<1> QED
  BY <1>1, <1>3, <1>4 DEF Next

\* The formatted file system is the one ArchivosFS starts with.
LEMMA VistaInicial == Init => Abs!Init
<1> SUFFICES ASSUME Init PROVE Abs!Init
  OBVIOUS
<1>1. \A h \in Hilos : pc[h] = "libre"
  BY DEF Init
<1>2. \A h \in Hilos : ~Achicando(h) /\ ~Escribiendo(h) /\ Fase(h) = "libre"
  <2> SUFFICES ASSUME NEW h \in Hilos PROVE ~Achicando(h) /\ ~Escribiendo(h) /\ Fase(h) = "libre"
    OBVIOUS
  <2>1. ~Achicando(h) /\ ~Escribiendo(h)
    BY <1>1 DEF Achicando, Escribiendo
  <2> QED
    BY <1>1, <2>1 DEF Fase
<1>3. ASSUME NEW f \in Archivos
      PROVE  /\ EstadoVisto(f) = meta[f].estado /\ LargoVisto(f) = meta[f].tam
             /\ logico[f][0] # Nadie => PaginaVista(f, 0) = dato[logico[f][0]]
  <2>1. ~Borrando(f) /\ ~Armando(f)
    BY <1>1 DEF Borrando, Armando
  <2>2. meta[f].estado \in {"ausente", "WORK_IN_PROGRESS", "COMMITED"}
    BY DEF Init, SinMeta
  <2>3. EstadoVisto(f) = meta[f].estado
    BY <2>1, <2>2 DEF EstadoVisto, ConMetadata
  <2>4. LargoVisto(f) = meta[f].tam
    BY <1>2 DEF LargoVisto
  <2>5. {h \in Hilos : Escribiendo(h) /\ pedido[h].f = f /\ PendienteDe(h, 0) # {}} = {}
    BY <1>2
  <2>6. logico[f][0] # Nadie => PaginaVista(f, 0) = dato[logico[f][0]]
    BY <2>5 DEF PaginaVista
  <2> QED
    BY <2>3, <2>4, <2>6
<1>4. [f \in Archivos |-> EstadoVisto(f)] = [f \in Archivos |-> CASE f = Base -> "COMMITED"
                                               [] f \in YaCreados -> "WORK_IN_PROGRESS"
                                               [] OTHER -> "ausente"]
  BY <1>3, BloquesAssumption DEF Init, SinMeta
<1>5. ASSUME NEW f \in Archivos PROVE Contenido(f) = IF f \in YaCreados THEN <<Cero>> ELSE <<>>
  <2>1. CASE f \in YaCreados
    <3>1. f # Base /\ 0 \in Pagina /\ 0 \in Nodo
      BY <2>1, BloquesAssumption DEF Pagina, Nodo
    <3>2. meta[f].estado = "WORK_IN_PROGRESS" /\ meta[f].tam = 1 /\ logico[f][0] = 0 /\ dato[0] = Cero
      BY <2>1, <3>1 DEF Init
    <3>3. EstadoVisto(f) # "ausente" /\ LargoVisto(f) = 1 /\ PaginaVista(f, 0) = Cero
      BY <1>3, <3>2, BloquesAssumption
    <3>4. Contenido(f) = [i \in 1..1 |-> PaginaVista(f, i - 1)]
      BY <3>3 DEF Contenido
    <3>5. \A i \in 1..1 : PaginaVista(f, i - 1) = Cero
      <4>1. \A i \in 1..1 : i - 1 = 0
        OBVIOUS
      <4> QED
        BY <3>3, <4>1
    <3>6. Contenido(f) = [i \in 1..1 |-> Cero]
      BY <3>4, <3>5
    <3>7. [i \in 1..1 |-> Cero] = <<Cero>>
      OBVIOUS
    <3> QED
      BY <2>1, <3>6, <3>7
  <2>2. CASE f = Base
    <3>1. f \notin YaCreados
      BY <2>2, BloquesAssumption
    <3>2. meta[f] = [estado |-> "COMMITED", tam |-> 0, blocks |-> <<0>>]
      BY <2>2, <3>1 DEF Init
    <3>3. Contenido(f) = [i \in 1..0 |-> PaginaVista(f, i - 1)]
      BY <1>3, <3>2 DEF Contenido
    <3>4. Contenido(f) = <<>>
      BY <3>3
    <3> QED
      BY <3>1, <3>4
  <2>3. CASE f \notin YaCreados /\ f # Base
    <3>1. meta[f].estado = "ausente"
      BY <2>3 DEF Init, SinMeta
    <3> QED
      BY <1>3, <2>3, <3>1 DEF Contenido
  <2> QED
    BY <2>1, <2>2, <2>3
<1>6. [f \in Archivos |-> Contenido(f)] = [f \in Archivos |-> IF f \in YaCreados THEN <<Cero>> ELSE <<>>]
  BY <1>5
<1>7. [h \in Hilos |-> Fase(h)] = [h \in Hilos |-> "libre"]
  BY <1>2
<1>8. pedido = [h \in Hilos |-> Abs!SinPedido] /\ leido = [h \in Hilos |-> Vacio]
  BY DEF Init, SinPedido, Abs!SinPedido
<1> QED
  BY <1>4, <1>6, <1>7, <1>8 DEF Abs!Init, Contenido

-------------------------------------------------------------------------------
\* Storage keeps what it promises its Workers: every request but DELETE takes effect at one
\* instant, wholly or not at all, on its own file:tag only, and a READ answers what that file:tag
\* holds then; as long as it does not crash, no write carries two pages and TAG is not mixed with
\* what frees blocks (TRUNCATE and COMMIT), which would spoil what another file:tag shows.
THEOREM ArchivosCumplidos == Spec /\ []SinTropiezos => ImplementaArchivos
<1>1. InvArchivos /\ SinTropiezos /\ [Next]_vars /\ InvArchivos' /\ SinTropiezos' => [Abs!Next]_(Abs!vars)
  BY VistaSigue
<1> QED
  BY <1>1, VistaInicial, ArchivosSiempre, PTL DEF Spec, ImplementaArchivos, Abs!Spec
=============================================================================
