---------------------------- MODULE MemoriaPrueba ----------------------------
(***************************************************************************)
(* Proofs about Memoria: its page tables, frames and list of LRU agree     *)
(* whatever is loaded, evicted, flushed or refused, for any number of      *)
(* Workers, queries, frames, file:tags and pages.                          *)
(***************************************************************************)
EXTENDS Memoria, FiniteSetTheorems, SequenceTheorems, TLAPS

-------------------------------------------------------------------------------
(* The least of a set of numbers, and the least in a round of frames. *)

LEMMA Minimo ==
  ASSUME NEW A \in SUBSET Nat, A # {}
  PROVE  \E n \in A : \A m \in A : n <= m
<1> DEFINE T == {1..n : n \in A}
<1>1. T \subseteq FiniteSubsetsOf(Nat)
  <2>1. \A n \in Nat : IsFiniteSet(1..n) /\ 1..n \subseteq Nat
    BY FS_Interval
  <2> QED
    BY <2>1 DEF FiniteSubsetsOf
<1>2. T # {}
  OBVIOUS
<1>3. IsWellFoundedOn(StrictSubsetOrdering(Nat), FiniteSubsetsOf(Nat))
  BY FS_StrictSubsetOrderingWellFounded
<1> HIDE DEF T
<1>4. PICK x \in T : \A y \in T : ~(<<y, x>> \in StrictSubsetOrdering(Nat))
  BY <1>1, <1>2, <1>3, WFMin
<1>5. PICK n \in A : x = 1..n
  BY DEF T
<1>6. ASSUME NEW m \in A, m < n PROVE FALSE
  <2>1. 1..m \subseteq 1..n /\ 1..m \subseteq Nat /\ 1..n \subseteq Nat
    BY <1>6
  <2>2. n \in 1..n /\ n \notin 1..m
    BY <1>6
  <2>3. <<1..m, x>> \in StrictSubsetOrdering(Nat)
    BY <2>1, <2>2, <1>5 DEF StrictSubsetOrdering
  <2> QED
    BY <1>4, <2>3 DEF T
<1> QED
  BY <1>6

LEMMA MarcoLibreEs ==
  ASSUME NEW w \in Workers, NMarcos[w] \in Nat, Libres(w) # {}
  PROVE  MarcoLibre(w) \in Libres(w)
<1>1. Libres(w) \in SUBSET Nat
  BY DEF Libres, Marcos
<1>2. \E m \in Libres(w) : \A n \in Libres(w) : m <= n
  BY <1>1, Minimo
<1> QED
  BY <1>2 DEF MarcoLibre

LEMMA VueltaEs ==
  ASSUME NEW w \in Workers, NMarcos[w] \in Nat \ {0}, puntero[w] \in Marcos(w),
         NEW m \in Marcos(w)
  PROVE  Vuelta(w, m) \in Nat
<1>1. \A x \in Int, n \in Nat \ {0} : x % n \in Nat
  OBVIOUS
<1>2. m + NMarcos[w] - puntero[w] \in Int
  BY DEF Marcos
<1> QED
  BY <1>1, <1>2 DEF Vuelta

LEMMA PrimeroDesdeEs ==
  ASSUME NEW w \in Workers, NMarcos[w] \in Nat \ {0}, puntero[w] \in Marcos(w),
         NEW s \in SUBSET Marcos(w), s # {}
  PROVE  PrimeroDesde(w, s) \in s
<1> DEFINE V == {Vuelta(w, m) : m \in s}
<1>1. V \in SUBSET Nat /\ V # {}
  BY VueltaEs
<1>2. PICK v \in V : \A u \in V : v <= u
  <2> HIDE DEF V
  <2> QED
    BY <1>1, Minimo
<1>3. \E m \in s : \A n \in s : Vuelta(w, m) <= Vuelta(w, n)
  BY <1>2
<1> QED
  BY <1>3 DEF PrimeroDesde

LEMMA VictimaClockEs ==
  ASSUME NEW w \in Workers, NMarcos[w] \in Nat \ {0}, puntero[w] \in Marcos(w)
  PROVE  VictimaClock(w) \in Marcos(w)
<1>1. SinUso(w) \in SUBSET Marcos(w) /\ SinCambios(w) \in SUBSET Marcos(w)
  BY DEF SinUso, SinCambios
<1> QED
  BY <1>1, PrimeroDesdeEs DEF VictimaClock

-------------------------------------------------------------------------------
(* Lists without repetitions: the list of LRU and the history of uses. *)

Elementos(s) == {s[i] : i \in DOMAIN s}
SinRepetir(s) == \A i, j \in DOMAIN s : s[i] = s[j] => i = j

\* y is before z in s.
Antes(s, y, z) == \E i, j \in DOMAIN s : i < j /\ s[i] = y /\ s[j] = z

LEMMA SinEs ==
  ASSUME NEW S, NEW s \in Seq(S), SinRepetir(s), NEW x
  PROVE  /\ Sin(s, x) \in Seq(S)
         /\ SinRepetir(Sin(s, x))
         /\ Elementos(Sin(s, x)) = Elementos(s) \ {x}
         /\ \A y, z : Antes(Sin(s, x), y, z) <=> Antes(s, y, z) /\ y # x /\ z # x
<1>1. CASE \A i \in DOMAIN s : s[i] # x
  BY <1>1 DEF Sin, Elementos, Antes
<1>2. CASE ~\A i \in DOMAIN s : s[i] # x
  <2> DEFINE n == CHOOSE i \in DOMAIN s : s[i] = x
             t == [i \in 1..Len(s) - 1 |-> IF i < n THEN s[i] ELSE s[i + 1]]
  <2>1. n \in 1..Len(s) /\ s[n] = x /\ Len(s) \in Nat /\ DOMAIN s = 1..Len(s)
    BY <1>2, LenProperties
  <2>2. Sin(s, x) = t
    BY <1>2 DEF Sin
  <2> HIDE DEF n
  <2>3. \A i \in 1..Len(s) : s[i] \in S
    BY ElementOfSeq
  <2>4. t \in Seq(S) /\ DOMAIN t = 1..Len(s) - 1
    BY <2>1, <2>3
  <2>5. \A i \in DOMAIN t : \E j \in DOMAIN s : t[i] = s[j] /\ j # n /\ j = (IF i < n THEN i ELSE i + 1)
    BY <2>1, <2>4
  <2>6. \A j \in DOMAIN s : j # n => \E i \in DOMAIN t : t[i] = s[j] /\ i = (IF j < n THEN j ELSE j - 1)
    BY <2>1, <2>4
  <2> HIDE DEF t
  <2>7. SinRepetir(t)
    BY <2>1, <2>4, <2>5 DEF SinRepetir
  <2>8. Elementos(t) = Elementos(s) \ {x}
    BY <2>1, <2>5, <2>6 DEF Elementos, SinRepetir
  <2>9. ASSUME NEW y, NEW z PROVE Antes(t, y, z) <=> Antes(s, y, z) /\ y # x /\ z # x
    <3>1. ASSUME Antes(t, y, z) PROVE Antes(s, y, z) /\ y # x /\ z # x
      BY <3>1, <2>1, <2>4, <2>5 DEF Antes, SinRepetir
    <3>2. ASSUME Antes(s, y, z), y # x, z # x PROVE Antes(t, y, z)
      BY <3>2, <2>1, <2>4, <2>6, SMTT(30) DEF Antes
    <3> QED
      BY <3>1, <3>2
  <2> QED
    BY <2>2, <2>4, <2>7, <2>8, <2>9
<1> QED
  BY <1>1, <1>2

LEMMA AlFinalEs ==
  ASSUME NEW S, NEW s \in Seq(S), SinRepetir(s), NEW x \in S
  PROVE  /\ AlFinal(s, x) \in Seq(S)
         /\ SinRepetir(AlFinal(s, x))
         /\ Elementos(AlFinal(s, x)) = Elementos(s) \cup {x}
         /\ \A y, z : Antes(AlFinal(s, x), y, z) <=>
                \/ Antes(s, y, z) /\ y # x /\ z # x
                \/ z = x /\ y \in Elementos(s) \ {x}
<1> DEFINE t == Sin(s, x)
           u == Append(t, x)
<1>1. /\ t \in Seq(S) /\ SinRepetir(t) /\ Elementos(t) = Elementos(s) \ {x}
      /\ \A y, z : Antes(t, y, z) <=> Antes(s, y, z) /\ y # x /\ z # x
  BY SinEs
<1>2. AlFinal(s, x) = u
  BY DEF AlFinal
<1> HIDE DEF t
<1>3. Len(t) \in Nat /\ DOMAIN t = 1..Len(t)
  BY <1>1, LenProperties
<1>4. /\ u \in Seq(S) /\ DOMAIN u = 1..Len(t) + 1 /\ u[Len(t) + 1] = x
      /\ \A i \in 1..Len(t) : u[i] = t[i]
  BY <1>1, AppendProperties, LenProperties
<1>5. \A i \in 1..Len(t) : t[i] # x
  BY <1>1, <1>3 DEF Elementos
<1> HIDE DEF u
<1>6. SinRepetir(u)
  BY <1>1, <1>3, <1>4, <1>5 DEF SinRepetir
<1>7. Elementos(u) = Elementos(s) \cup {x}
  <2>1. Elementos(u) = Elementos(t) \cup {x}
    BY <1>3, <1>4 DEF Elementos
  <2> QED
    BY <1>1, <2>1
<1>8. ASSUME NEW y, NEW z
      PROVE  Antes(u, y, z) <=> Antes(t, y, z) \/ (z = x /\ y \in Elementos(t))
  <2>1. ASSUME Antes(u, y, z) PROVE Antes(t, y, z) \/ (z = x /\ y \in Elementos(t))
    BY <2>1, <1>3, <1>4 DEF Antes, Elementos
  <2>2. ASSUME Antes(t, y, z) PROVE Antes(u, y, z)
    BY <2>2, <1>3, <1>4 DEF Antes
  <2>3. ASSUME z = x, y \in Elementos(t) PROVE Antes(u, y, z)
    BY <2>3, <1>3, <1>4 DEF Antes, Elementos
  <2> QED
    BY <2>1, <2>2, <2>3
<1> QED
  BY <1>1, <1>2, <1>4, <1>6, <1>7, <1>8

LEMMA TailEs ==
  ASSUME NEW S, NEW s \in Seq(S), SinRepetir(s), s # <<>>
  PROVE  /\ Head(s) \in Elementos(s)
         /\ Tail(s) \in Seq(S)
         /\ SinRepetir(Tail(s))
         /\ Elementos(Tail(s)) = Elementos(s) \ {Head(s)}
         /\ \A y, z : Antes(Tail(s), y, z) => Antes(s, y, z)
         /\ \A z \in Elementos(s) \ {Head(s)} : Antes(s, Head(s), z)
<1> DEFINE t == Tail(s)
<1>1. /\ Len(s) \in Nat \ {0} /\ DOMAIN s = 1..Len(s) /\ Head(s) = s[1]
      /\ t \in Seq(S) /\ DOMAIN t = 1..Len(s) - 1 /\ \A i \in DOMAIN t : t[i] = s[i + 1]
  BY HeadTailProperties, LenProperties, EmptySeq
<1> HIDE DEF t
<1>2. /\ SinRepetir(t)
      /\ \A y, z : Antes(t, y, z) => Antes(s, y, z)
  <2>1. SinRepetir(t)
    BY <1>1 DEF SinRepetir
  <2>2. ASSUME NEW y, NEW z, NEW i \in DOMAIN t, NEW j \in DOMAIN t,
               i < j, t[i] = y, t[j] = z
        PROVE  Antes(s, y, z)
    <3>1. i + 1 \in DOMAIN s /\ j + 1 \in DOMAIN s /\ i + 1 < j + 1 /\ s[i + 1] = y /\ s[j + 1] = z
      BY <1>1, <2>2
    <3> QED
      BY <3>1 DEF Antes
  <2> QED
    BY <2>1, <2>2 DEF Antes
<1>3. Elementos(t) = Elementos(s) \ {s[1]}
  <2>1. \A j \in DOMAIN s : j # 1 => j - 1 \in DOMAIN t /\ t[j - 1] = s[j]
    BY <1>1
  <2>2. \A i \in DOMAIN t : i + 1 \in DOMAIN s /\ t[i] = s[i + 1] /\ s[i + 1] # s[1]
    BY <1>1 DEF SinRepetir
  <2> QED
    BY <2>1, <2>2 DEF Elementos
<1>4. \A z \in Elementos(s) \ {s[1]} : Antes(s, s[1], z)
  BY <1>1 DEF Elementos, Antes
<1>5. s[1] \in Elementos(s)
  BY <1>1 DEF Elementos
<1> QED
  BY <1>1, <1>2, <1>3, <1>4, <1>5 DEF t

LEMMA CuantosEs ==
  ASSUME NEW S, NEW s \in Seq(S), SinRepetir(s)
  PROVE  Len(s) = Cardinality(Elementos(s))
<1>1. Len(s) \in Nat /\ DOMAIN s = 1..Len(s) /\ s \in [1..Len(s) -> Elementos(s)]
  BY LenProperties DEF Elementos
<1>2. s \in Bijection(1..Len(s), Elementos(s))
  BY <1>1 DEF SinRepetir, Elementos, Bijection, Injection, Surjection, IsInjective
<1> QED
  BY <1>1, <1>2, FS_CountingElements DEF ExistsBijection

-------------------------------------------------------------------------------
(* The invariant. *)

DominiosOK ==
    /\ DOMAIN tablas = Workers /\ DOMAIN marcos = Workers /\ DOMAIN arena = Workers
    /\ DOMAIN lru_list = Workers /\ DOMAIN usos = Workers
    /\ DOMAIN bitR = Workers /\ DOMAIN bitM = Workers /\ DOMAIN puntero = Workers
    /\ DOMAIN curso = Workers /\ DOMAIN hecho = Workers
    /\ DOMAIN buffer = Workers /\ DOMAIN error = Workers

\* What TypeOK says of the pages of a Worker, but for their bytes.
DeTabla(w) ==
    /\ Cargadas(w) \subseteq Claves
    /\ tablas[w] \in [Cargadas(w) -> [marco : Marcos(w), modificada : BOOLEAN]]
    /\ marcos[w] \in [Marcos(w) -> Claves \cup {Libre}]
DeListas(w) == lru_list[w] \in Seq(Claves) /\ usos[w] \in Seq(Claves)
DeBits(w) ==
    /\ bitR[w] \in [Marcos(w) -> BOOLEAN] /\ bitM[w] \in [Marcos(w) -> BOOLEAN]
    /\ puntero[w] \in Marcos(w)

\* Entries and frames point at each other.
EntradasYMarcos(w) ==
    /\ \A k \in Cargadas(w) : marcos[w][tablas[w][k].marco] = k
    /\ \A m \in Marcos(w) : marcos[w][m] # Libre =>
          marcos[w][m] \in Cargadas(w) /\ tablas[w][marcos[w][m]].marco = m

\* The list of LRU has the pages that are loaded, once each, in the order of their last
\* use, and all of them were used after those that left.
ListaOrdenada(w) == Algoritmo[w] = "LRU" =>
    /\ SinRepetir(lru_list[w]) /\ Elementos(lru_list[w]) = Cargadas(w)
    /\ SinRepetir(usos[w]) /\ Cargadas(w) \subseteq Elementos(usos[w])
    /\ \A y, z \in Cargadas(w) : Antes(lru_list[w], y, z) => Antes(usos[w], y, z)
    /\ \A y \in Elementos(usos[w]) \ Cargadas(w), z \in Cargadas(w) : Antes(usos[w], y, z)

BitFiel(w) == Algoritmo[w] = "CLOCK-M" => \A m \in Marcos(w) :
    bitM[w][m] = (marcos[w][m] # Libre /\ tablas[w][marcos[w][m]].modificada)

PaginasOK(w) ==
    DeTabla(w) /\ DeListas(w) /\ DeBits(w) /\ EntradasYMarcos(w) /\ ListaOrdenada(w) /\ BitFiel(w)

\* Storage keeps no file:tag longer than the bound.
StorageOK ==
    /\ estado \in [Archivos -> {"ausente", "WORK_IN_PROGRESS", "COMMITED"}]
    /\ contenido \in [Archivos -> Seq(Pagina)]
    /\ \A f \in Archivos : Len(contenido[f]) <= MaxPaginas

\* The bytes of the frames, and the instruction of a Worker, that has not done more of it
\* than there is.
CursoOK(w) ==
    /\ arena[w] \in [Marcos(w) -> Pagina]
    /\ curso[w] \in mezcla.instr \cup {Ninguna}
    /\ hecho[w] \in Nat /\ buffer[w] \in Seq(Bytes) /\ error[w] \in BOOLEAN
    /\ Accede(w) => hecho[w] <= Total(curso[w])

InvMemoria ==
    /\ mezcla \in Mezclas /\ donde \in [Queries -> Workers]
    /\ DominiosOK /\ StorageOK
    /\ \A w \in Workers : PaginasOK(w) /\ CursoOK(w)

-------------------------------------------------------------------------------
(* What each action does to the pages of its Worker. *)

LEMMA HayMarcos ==
  ASSUME NEW w \in Workers
  PROVE  /\ NMarcos[w] \in Nat \ {0} /\ Algoritmo[w] \in {"LRU", "CLOCK-M"}
         /\ 0 \in Marcos(w)
BY MemoriaAssumption DEF Marcos

LEMMA ClavesNoLibres == \A k \in Claves : k # Libre
BY LibreAssumption

LEMMA LimpiaEs ==
  ASSUME NEW w \in Workers, DeTabla(w), NEW ks
  PROVE  /\ DOMAIN Limpia(w, ks) = Cargadas(w)
         /\ Limpia(w, ks) \in [Cargadas(w) -> [marco : Marcos(w), modificada : BOOLEAN]]
         /\ \A k \in Cargadas(w) :
               /\ Limpia(w, ks)[k].marco = tablas[w][k].marco
               /\ Limpia(w, ks)[k].modificada = (tablas[w][k].modificada /\ k \notin ks)
<1>1. \A k \in Cargadas(w) : tablas[w][k] \in [marco : Marcos(w), modificada : BOOLEAN]
  BY DEF DeTabla
<1>2. ASSUME NEW k \in Cargadas(w)
      PROVE  /\ Limpia(w, ks)[k] \in [marco : Marcos(w), modificada : BOOLEAN]
             /\ Limpia(w, ks)[k].marco = tablas[w][k].marco
             /\ Limpia(w, ks)[k].modificada = (tablas[w][k].modificada /\ k \notin ks)
  <2>1. Limpia(w, ks)[k] = [tablas[w][k] EXCEPT !.modificada = @ /\ k \notin ks]
    BY DEF Limpia
  <2>2. (tablas[w][k].modificada /\ k \notin ks) \in BOOLEAN
    OBVIOUS
  <2> QED
    BY <1>1, <2>1, <2>2
<1>3. DOMAIN Limpia(w, ks) = Cargadas(w) /\ Limpia(w, ks) = [k \in Cargadas(w) |-> Limpia(w, ks)[k]]
  BY DEF Limpia
<1> QED
  BY <1>2, <1>3

LEMMA VictimaEs ==
  ASSUME NEW w \in Workers, PaginasOK(w), Libres(w) = {}
  PROVE  /\ Victima(w) \in Cargadas(w)
         /\ Algoritmo[w] = "LRU" => lru_list[w] # <<>> /\ Victima(w) = Head(lru_list[w])
         /\ tablas[w][Victima(w)].marco \in Marcos(w)
<1> USE DEF PaginasOK
<1>1. \A m \in Marcos(w) : marcos[w][m] # Libre
  BY DEF Libres
<1>2. \A m \in Marcos(w) : marcos[w][m] \in Cargadas(w)
  BY <1>1 DEF EntradasYMarcos
<1>3. CASE Algoritmo[w] = "LRU"
  <2>1. Cargadas(w) # {}
    BY <1>2, HayMarcos
  <2>2. lru_list[w] # <<>>
    BY <1>3, <2>1 DEF ListaOrdenada, Elementos
  <2>3. Head(lru_list[w]) \in Cargadas(w)
    BY <1>3, <2>2, TailEs DEF ListaOrdenada, DeListas
  <2> QED
    BY <1>3, <2>2, <2>3 DEF Victima, DeTabla
<1>4. CASE Algoritmo[w] = "CLOCK-M"
  <2>1. VictimaClock(w) \in Marcos(w)
    BY HayMarcos, VictimaClockEs DEF DeBits
  <2> QED
    BY <1>2, <1>4, <2>1 DEF Victima, DeTabla
<1> QED
  BY <1>3, <1>4, HayMarcos

\* The page that leaves, its frame and its place in the list go together.
LEMMA DesalojarPaginas ==
  ASSUME NEW w \in Workers, DominiosOK, PaginasOK(w), Libres(w) = {}, Desalojar(w)
  PROVE  PaginasOK(w)'
<1> DEFINE k == Victima(w)
           m == tablas[w][k].marco
           ks == Bajadas(w, k)
<1> USE DEF PaginasOK
<1>1. /\ k \in Cargadas(w) /\ m \in Marcos(w)
      /\ Algoritmo[w] = "LRU" => lru_list[w] # <<>> /\ k = Head(lru_list[w])
  BY VictimaEs
<1>2. tablas'[w] = SinEntrada(Limpia(w, ks), k) /\ marcos'[w] = [marcos[w] EXCEPT ![m] = Libre]
  BY DEF Desalojar, DominiosOK
<1>3. usos' = usos /\ Marcos(w)' = Marcos(w)
  BY DEF Desalojar, Marcos
<1>4. /\ Algoritmo[w] = "LRU" =>
          /\ lru_list'[w] = Tail(lru_list[w]) /\ bitR' = bitR /\ bitM' = bitM /\ puntero' = puntero
      /\ Algoritmo[w] # "LRU" =>
          /\ bitR'[w] = [UsoTrasBuscar(w) EXCEPT ![m] = FALSE]
          /\ bitM'[w] = [BitsLimpios(w, ks) EXCEPT ![m] = FALSE]
          /\ puntero'[w] = Siguiente(w, m) /\ lru_list' = lru_list
  BY DEF Desalojar, DominiosOK
<1> HIDE DEF k, m, ks
<1>5. /\ Cargadas(w)' = Cargadas(w) \ {k}
      /\ \A j \in Cargadas(w) \ {k} :
            /\ tablas'[w][j].marco = tablas[w][j].marco
            /\ tablas'[w][j].modificada = (tablas[w][j].modificada /\ j \notin ks)
            /\ tablas'[w][j] \in [marco : Marcos(w), modificada : BOOLEAN]
      /\ tablas'[w] = [j \in Cargadas(w) \ {k} |-> tablas'[w][j]]
  <2>1. tablas'[w] = [j \in Cargadas(w) \ {k} |-> Limpia(w, ks)[j]]
    BY <1>2, LimpiaEs DEF SinEntrada
  <2>2. Cargadas(w)' = Cargadas(w) \ {k}
    BY <2>1 DEF Cargadas
  <2>3. \A j \in Cargadas(w) \ {k} : tablas'[w][j] = Limpia(w, ks)[j]
    BY <2>1
  <2> QED
    BY <2>1, <2>2, <2>3, LimpiaEs
<1>6. DeTabla(w)'
  BY <1>1, <1>2, <1>3, <1>5 DEF DeTabla, Cargadas
<1>7. EntradasYMarcos(w)'
  <2>1. ASSUME NEW j \in Cargadas(w)' PROVE marcos'[w][tablas'[w][j].marco] = j
    BY <1>1, <1>2, <1>5 DEF EntradasYMarcos, DeTabla, m
  <2>2. ASSUME NEW n \in Marcos(w), marcos'[w][n] # Libre
        PROVE  marcos'[w][n] \in Cargadas(w)' /\ tablas'[w][marcos'[w][n]].marco = n
    <3>1. n # m /\ marcos'[w][n] = marcos[w][n] /\ marcos[w][n] # k
      BY <1>1, <1>2, <2>2 DEF EntradasYMarcos, DeTabla, m
    <3> QED
      BY <1>5, <2>2, <3>1 DEF EntradasYMarcos
  <2> QED
    BY <1>3, <2>1, <2>2 DEF EntradasYMarcos
<1>8. CASE Algoritmo[w] = "LRU"
  <2> DEFINE l == lru_list[w]
  <2>1. /\ Tail(l) \in Seq(Claves) /\ SinRepetir(Tail(l)) /\ Elementos(Tail(l)) = Cargadas(w) \ {k}
        /\ \A y, z : Antes(Tail(l), y, z) => Antes(l, y, z)
        /\ \A z \in Cargadas(w) \ {k} : Antes(l, k, z)
    BY <1>1, <1>8, TailEs DEF ListaOrdenada, DeListas
  <2>2. DeListas(w)' /\ DeBits(w)' /\ BitFiel(w)'
    BY <1>3, <1>4, <1>8, <2>1 DEF DeListas, DeBits, BitFiel
  <2>3. ListaOrdenada(w)'
    BY <1>1, <1>3, <1>4, <1>5, <1>8, <2>1 DEF ListaOrdenada
  <2> QED
    BY <1>6, <1>7, <2>2, <2>3
<1>9. CASE Algoritmo[w] # "LRU"
  <2>1. ListaOrdenada(w)' /\ DeListas(w)'
    BY <1>3, <1>4, <1>9 DEF ListaOrdenada, DeListas
  <2>2. puntero'[w] \in Marcos(w)
    <3>1. \A x \in Nat, n \in Nat \ {0} : x % n \in 0..n - 1
      OBVIOUS
    <3>2. m + 1 \in Nat
      BY <1>1 DEF Marcos
    <3>3. (m + 1) % NMarcos[w] \in 0..NMarcos[w] - 1
      BY <3>1, <3>2, HayMarcos
    <3> QED
      BY <1>4, <1>9, <3>3 DEF Siguiente, Marcos
  <2>3. bitR'[w] \in [Marcos(w) -> BOOLEAN]
    BY <1>4, <1>9, Zenon DEF UsoTrasBuscar
  <2>4. bitM'[w] \in [Marcos(w) -> BOOLEAN]
    BY <1>4, <1>9, Zenon DEF BitsLimpios
  <2>5. BitFiel(w)'
    <3>1. ASSUME NEW n \in Marcos(w), Algoritmo[w] = "CLOCK-M"
          PROVE  bitM'[w][n] = (marcos'[w][n] # Libre /\ tablas'[w][marcos'[w][n]].modificada)
      <4>1. CASE n = m
        BY <1>1, <1>2, <1>4, <1>9, <4>1 DEF BitsLimpios, DeTabla
      <4>2. CASE n # m
        <5>1. bitM'[w][n] = (bitM[w][n] /\ marcos[w][n] \notin ks) /\ marcos'[w][n] = marcos[w][n]
          BY <1>2, <1>4, <1>9, <4>2 DEF BitsLimpios, DeTabla
        <5>2. bitM[w][n] = (marcos[w][n] # Libre /\ tablas[w][marcos[w][n]].modificada)
          BY <3>1 DEF BitFiel
        <5>3. CASE marcos[w][n] = Libre
          BY <5>1, <5>2, <5>3
        <5>4. CASE marcos[w][n] # Libre
          <6>1. marcos[w][n] \in Cargadas(w) \ {k}
            BY <4>2, <5>4 DEF EntradasYMarcos, m
          <6> QED
            BY <1>5, <5>1, <5>2, <5>4, <6>1
        <5> QED
          BY <5>3, <5>4
      <4> QED
        BY <4>1, <4>2
    <3> QED
      BY <1>3, <3>1 DEF BitFiel
  <2> QED
    BY <1>3, <1>6, <1>7, <2>1, <2>2, <2>3, <2>4, <2>5 DEF DeBits
<1> QED
  BY <1>8, <1>9

\* A page that is used goes to the end of the list and of the history.
LEMMA TocarOrdena ==
  ASSUME NEW w \in Workers, DominiosOK, PaginasOK(w), NEW k \in Claves, Tocar(w, k),
         Cargadas(w)' = Cargadas(w) \cup {k}
  PROVE  DeListas(w)' /\ ListaOrdenada(w)'
<1> USE DEF PaginasOK
<1>1. CASE Algoritmo[w] # "LRU"
  BY <1>1 DEF Tocar, DeListas, ListaOrdenada
<1>2. CASE Algoritmo[w] = "LRU"
  <2> DEFINE l == lru_list[w]
             u == usos[w]
             C == Cargadas(w)
  <2>1. lru_list'[w] = AlFinal(l, k) /\ usos'[w] = AlFinal(u, k)
    BY <1>2 DEF Tocar, DominiosOK
  <2>2. /\ SinRepetir(l) /\ Elementos(l) = C /\ SinRepetir(u) /\ C \subseteq Elementos(u)
        /\ \A y, z \in C : Antes(l, y, z) => Antes(u, y, z)
        /\ \A y \in Elementos(u) \ C, z \in C : Antes(u, y, z)
    BY <1>2 DEF ListaOrdenada
  <2>3. /\ AlFinal(l, k) \in Seq(Claves) /\ SinRepetir(AlFinal(l, k))
        /\ Elementos(AlFinal(l, k)) = Elementos(l) \cup {k}
        /\ \A y, z : Antes(AlFinal(l, k), y, z) <=>
                \/ Antes(l, y, z) /\ y # k /\ z # k
                \/ z = k /\ y \in Elementos(l) \ {k}
    BY <2>2, AlFinalEs DEF DeListas
  <2>4. /\ AlFinal(u, k) \in Seq(Claves) /\ SinRepetir(AlFinal(u, k))
        /\ Elementos(AlFinal(u, k)) = Elementos(u) \cup {k}
        /\ \A y, z : Antes(AlFinal(u, k), y, z) <=>
                \/ Antes(u, y, z) /\ y # k /\ z # k
                \/ z = k /\ y \in Elementos(u) \ {k}
    BY <2>2, AlFinalEs DEF DeListas
  <2> HIDE DEF l, u, C
  <2>5. \A y, z \in C \cup {k} : Antes(AlFinal(l, k), y, z) => Antes(AlFinal(u, k), y, z)
    BY <2>2, <2>3, <2>4
  <2>6. \A y \in Elementos(AlFinal(u, k)) \ (C \cup {k}), z \in C \cup {k} :
          Antes(AlFinal(u, k), y, z)
    BY <2>2, <2>4
  <2> QED
    BY <2>1, <2>2, <2>3, <2>4, <2>5, <2>6 DEF DeListas, ListaOrdenada, C
<1> QED
  BY <1>1, <1>2

\* A page that is loaded takes a free frame.
LEMMA CargarPaginas ==
  ASSUME NEW w \in Workers, DominiosOK, PaginasOK(w), Cargar(w),
         Aceptado([op |-> "READ", f |-> Clave(w)[1], p |-> Clave(w)[2]]) => Clave(w) \in Claves
  PROVE  PaginasOK(w)'
<1> DEFINE k == Clave(w)
           m == MarcoLibre(w)
<1> USE DEF PaginasOK
<1>1. CASE UNCHANGED paginas
  BY <1>1 DEF paginas, DeTabla, DeListas, DeBits, EntradasYMarcos, ListaOrdenada, BitFiel,
              Cargadas, Marcos
<1>2. CASE Aceptado([op |-> "READ", f |-> k[1], p |-> k[2]])
  <2>1. k \in Claves /\ k \notin Cargadas(w) /\ m \in Marcos(w) /\ marcos[w][m] = Libre
    BY <1>2, MarcoLibreEs, HayMarcos DEF Cargar, Falta, Libres
  <2>2. /\ marcos' = [marcos EXCEPT ![w][m] = k]
        /\ tablas' = [tablas EXCEPT ![w] = [j \in Cargadas(w) \cup {k} |->
               IF j = k THEN [marco |-> m, modificada |-> FALSE] ELSE tablas[w][j]]]
        /\ Tocar(w, k) /\ puntero' = puntero
        /\ IF Algoritmo[w] = "LRU" THEN UNCHANGED <<bitR, bitM>>
           ELSE bitR' = [bitR EXCEPT ![w][m] = TRUE] /\ bitM' = [bitM EXCEPT ![w][m] = FALSE]
    BY <1>2 DEF Cargar
  <2>3. /\ marcos'[w] = [marcos[w] EXCEPT ![m] = k]
        /\ tablas'[w] = [j \in Cargadas(w) \cup {k} |->
               IF j = k THEN [marco |-> m, modificada |-> FALSE] ELSE tablas[w][j]]
    BY <2>2 DEF DominiosOK
  <2> HIDE DEF k, m
  <2>4. /\ Cargadas(w)' = Cargadas(w) \cup {k} /\ Marcos(w)' = Marcos(w)
        /\ tablas'[w][k] = [marco |-> m, modificada |-> FALSE]
        /\ \A j \in Cargadas(w) : tablas'[w][j] = tablas[w][j]
    BY <2>1, <2>3 DEF Cargadas, Marcos
  <2>5. marcos'[w][m] = k /\ \A n \in Marcos(w) : n # m => marcos'[w][n] = marcos[w][n]
    BY <2>1, <2>3 DEF DeTabla
  <2>6. DeTabla(w)'
    <3>0. [marco |-> m, modificada |-> FALSE] \in [marco : Marcos(w), modificada : BOOLEAN]
      BY <2>1
    <3>1. \A j \in Cargadas(w) \cup {k} : tablas'[w][j] \in [marco : Marcos(w), modificada : BOOLEAN]
      BY <2>4, <3>0 DEF DeTabla
    <3>2. tablas'[w] \in [Cargadas(w) \cup {k} -> [marco : Marcos(w), modificada : BOOLEAN]]
      BY <2>3, <3>1
    <3>3. marcos'[w] \in [Marcos(w) -> Claves \cup {Libre}]
      BY <2>1, <2>3 DEF DeTabla
    <3> QED
      BY <2>1, <2>4, <3>2, <3>3 DEF DeTabla
  <2>7. EntradasYMarcos(w)'
    <3>1. \A j \in Cargadas(w) : tablas[w][j].marco \in Marcos(w) /\ tablas[w][j].marco # m
      BY <2>1, ClavesNoLibres DEF EntradasYMarcos, DeTabla
    <3>2. \A j \in Cargadas(w)' : marcos'[w][tablas'[w][j].marco] = j
      BY <2>4, <2>5, <3>1 DEF EntradasYMarcos
    <3>3. \A n \in Marcos(w) : marcos'[w][n] # Libre =>
              marcos'[w][n] \in Cargadas(w)' /\ tablas'[w][marcos'[w][n]].marco = n
      BY <2>4, <2>5 DEF EntradasYMarcos
    <3> QED
      BY <2>4, <3>2, <3>3 DEF EntradasYMarcos
  <2>8. DeListas(w)' /\ ListaOrdenada(w)'
    BY <2>1, <2>2, <2>4, TocarOrdena
  <2>9. CASE Algoritmo[w] = "LRU"
    <3>1. DeBits(w)'
      BY <2>2, <2>4, <2>9 DEF DeBits
    <3>2. BitFiel(w)'
      BY <2>9 DEF BitFiel
    <3> QED
      BY <2>6, <2>7, <2>8, <3>1, <3>2
  <2>10. CASE Algoritmo[w] # "LRU"
    <3>1. bitR'[w] = [bitR[w] EXCEPT ![m] = TRUE] /\ bitM'[w] = [bitM[w] EXCEPT ![m] = FALSE]
      BY <2>2, <2>10 DEF DominiosOK
    <3>2. DeBits(w)'
      BY <2>1, <2>2, <2>4, <3>1 DEF DeBits
    <3>3. ASSUME NEW n \in Marcos(w), Algoritmo[w] = "CLOCK-M"
          PROVE  bitM'[w][n] = (marcos'[w][n] # Libre /\ tablas'[w][marcos'[w][n]].modificada)
      <4>1. CASE n = m
        <5>1. bitM'[w][m] = FALSE
          BY <2>1, <3>1 DEF DeBits
        <5>2. ~tablas'[w][marcos'[w][m]].modificada
          BY <2>4, <2>5
        <5> QED
          BY <4>1, <5>1, <5>2
      <4>2. CASE n # m
        <5>1. bitM'[w][n] = bitM[w][n] /\ marcos'[w][n] = marcos[w][n]
          BY <2>5, <3>1, <4>2 DEF DeBits
        <5>2. marcos[w][n] # Libre => tablas'[w][marcos[w][n]] = tablas[w][marcos[w][n]]
          BY <2>4 DEF EntradasYMarcos
        <5> QED
          BY <3>3, <5>1, <5>2 DEF BitFiel
      <4> QED
        BY <4>1, <4>2
    <3> QED
      BY <2>4, <2>6, <2>7, <2>8, <3>2, <3>3 DEF BitFiel
  <2> QED
    BY <2>9, <2>10
<1> QED
  BY <1>1, <1>2 DEF Cargar

\* A page that is read or written is the one used last, and a write marks it in both bits.
LEMMA AccederPaginas ==
  ASSUME NEW w \in Workers, DominiosOK, PaginasOK(w), Acceder(w)
  PROVE  PaginasOK(w)'
<1> DEFINE k == Clave(w)
           m == tablas[w][k].marco
<1> USE DEF PaginasOK
<1>1. /\ k \in Cargadas(w) /\ k \in Claves /\ m \in Marcos(w) /\ marcos[w][m] = k
      /\ tablas[w][k] \in [marco : Marcos(w), modificada : BOOLEAN]
  BY DEF Acceder, DeTabla, EntradasYMarcos
<1>2. /\ Tocar(w, k) /\ marcos' = marcos /\ puntero' = puntero /\ Marcos(w)' = Marcos(w)
      /\ bitR' = IF Algoritmo[w] = "LRU" THEN bitR ELSE [bitR EXCEPT ![w][m] = TRUE]
      /\ \/ UNCHANGED <<tablas, bitM>>
         \/ /\ tablas' = [tablas EXCEPT ![w][k].modificada = TRUE]
            /\ bitM' = IF Algoritmo[w] = "LRU" THEN bitM ELSE [bitM EXCEPT ![w][m] = TRUE]
  BY DEF Acceder, Marcos
<1>3. bitR'[w] \in [Marcos(w) -> BOOLEAN]
  BY <1>2, Zenon DEF DeBits, DominiosOK
<1> HIDE DEF k, m
<1>4. CASE UNCHANGED <<tablas, bitM>>
  <2>1. Cargadas(w)' = Cargadas(w) \cup {k}
    BY <1>1, <1>4 DEF Cargadas
  <2>2. DeListas(w)' /\ ListaOrdenada(w)'
    BY <1>1, <1>2, <2>1, TocarOrdena
  <2>3. DeTabla(w)' /\ EntradasYMarcos(w)' /\ BitFiel(w)'
    BY <1>2, <1>4 DEF DeTabla, EntradasYMarcos, BitFiel, Cargadas
  <2>4. DeBits(w)'
    BY <1>2, <1>3, <1>4 DEF DeBits
  <2> QED
    BY <2>2, <2>3, <2>4
<1>5. CASE /\ tablas' = [tablas EXCEPT ![w][k].modificada = TRUE]
           /\ bitM' = IF Algoritmo[w] = "LRU" THEN bitM ELSE [bitM EXCEPT ![w][m] = TRUE]
  <2>1. tablas'[w] = [tablas[w] EXCEPT ![k] = [tablas[w][k] EXCEPT !.modificada = TRUE]]
    BY <1>5 DEF DominiosOK
  <2>2. /\ Cargadas(w)' = Cargadas(w)
        /\ tablas'[w][k] = [tablas[w][k] EXCEPT !.modificada = TRUE]
        /\ \A j \in Cargadas(w) : j # k => tablas'[w][j] = tablas[w][j]
    BY <1>1, <2>1 DEF Cargadas
  <2>3. tablas'[w][k].marco = m /\ tablas'[w][k].modificada = TRUE
    BY <1>1, <2>2 DEF m
  <2>4. tablas'[w] \in [Cargadas(w) -> [marco : Marcos(w), modificada : BOOLEAN]]
    BY <1>1, <2>1, ZenonT(40) DEF DeTabla
  <2>5. DeTabla(w)'
    BY <1>2, <2>2, <2>4 DEF DeTabla
  <2>6. \A j \in Cargadas(w) : tablas'[w][j].marco = tablas[w][j].marco
    BY <2>2, <2>3 DEF m
  <2>7. EntradasYMarcos(w)'
    BY <1>2, <2>2, <2>6 DEF EntradasYMarcos
  <2>8. DeListas(w)' /\ ListaOrdenada(w)'
    <3>1. Cargadas(w)' = Cargadas(w) \cup {k}
      BY <1>1, <2>2
    <3> QED
      BY <1>1, <1>2, <3>1, TocarOrdena
  <2>9. DeBits(w)'
    <3>1. bitM'[w] \in [Marcos(w) -> BOOLEAN]
      BY <1>5, Zenon DEF DeBits, DominiosOK
    <3> QED
      BY <1>2, <1>3, <3>1 DEF DeBits
  <2>10. BitFiel(w)'
    <3> SUFFICES ASSUME NEW n \in Marcos(w), Algoritmo[w] = "CLOCK-M"
                 PROVE  bitM'[w][n] = (marcos[w][n] # Libre /\ tablas'[w][marcos[w][n]].modificada)
      BY <1>2 DEF BitFiel
    <3>1. bitM'[w] = [bitM[w] EXCEPT ![m] = TRUE]
      BY <1>5 DEF DominiosOK
    <3>2. CASE n = m
      <4>1. bitM'[w][m] = TRUE
        BY <1>1, <3>1 DEF DeBits
      <4> QED
        BY <1>1, <2>3, <3>2, <4>1, ClavesNoLibres
    <3>3. CASE n # m
      <4>1. bitM'[w][n] = bitM[w][n]
        BY <3>1, <3>3 DEF DeBits
      <4>2. marcos[w][n] # Libre => marcos[w][n] \in Cargadas(w) /\ marcos[w][n] # k
        BY <3>3 DEF EntradasYMarcos, m
      <4> QED
        BY <2>2, <4>1, <4>2 DEF BitFiel
    <3> QED
      BY <3>2, <3>3
  <2> QED
    BY <2>5, <2>7, <2>8, <2>9, <2>10
<1> QED
  BY <1>2, <1>4, <1>5

\* A flush cleans both bits of the same pages.
LEMMA VaciarPaginas ==
  ASSUME NEW w \in Workers, DominiosOK, PaginasOK(w), NEW f, Vaciar(w, f)
  PROVE  PaginasOK(w)'
<1> DEFINE ks == Modificadas(w, f)
<1> USE DEF PaginasOK
<1>1. /\ tablas'[w] = Limpia(w, ks)
      /\ bitM' = IF Algoritmo[w] = "LRU" THEN bitM ELSE [bitM EXCEPT ![w] = BitsLimpios(w, ks)]
      /\ UNCHANGED <<marcos, lru_list, bitR, puntero, usos>> /\ Marcos(w)' = Marcos(w)
  BY DEF Vaciar, DominiosOK, Marcos
<1> HIDE DEF ks
<1>2. /\ Cargadas(w)' = Cargadas(w)
      /\ tablas'[w] \in [Cargadas(w) -> [marco : Marcos(w), modificada : BOOLEAN]]
      /\ \A k \in Cargadas(w) :
            /\ tablas'[w][k].marco = tablas[w][k].marco
            /\ tablas'[w][k].modificada = (tablas[w][k].modificada /\ k \notin ks)
  <2>1. DOMAIN tablas'[w] = Cargadas(w)
    BY <1>1, LimpiaEs
  <2> QED
    BY <1>1, <2>1, LimpiaEs DEF Cargadas
<1>3. DeTabla(w)' /\ DeListas(w)'
  BY <1>1, <1>2 DEF DeTabla, DeListas
<1>4. EntradasYMarcos(w)' /\ ListaOrdenada(w)'
  BY <1>1, <1>2 DEF EntradasYMarcos, ListaOrdenada
<1>5. DeBits(w)'
  <2>1. bitM'[w] \in [Marcos(w) -> BOOLEAN]
    BY <1>1, Zenon DEF DeBits, DominiosOK, BitsLimpios
  <2> QED
    BY <1>1, <2>1 DEF DeBits
<1>6. BitFiel(w)'
  <2> SUFFICES ASSUME NEW n \in Marcos(w), Algoritmo[w] = "CLOCK-M"
               PROVE  bitM'[w][n] = (marcos[w][n] # Libre /\ tablas'[w][marcos[w][n]].modificada)
    BY <1>1 DEF BitFiel
  <2>1. bitM'[w][n] = (bitM[w][n] /\ marcos[w][n] \notin ks)
    BY <1>1 DEF DominiosOK, BitsLimpios
  <2>2. marcos[w][n] # Libre => marcos[w][n] \in Cargadas(w)
    BY DEF EntradasYMarcos
  <2> QED
    BY <1>2, <2>1, <2>2 DEF BitFiel
<1> QED
  BY <1>3, <1>4, <1>5, <1>6

-------------------------------------------------------------------------------
(* Storage, and the requests that get to it. *)

PedidoOK(p) ==
    /\ p.op \in {"CREATE", "TRUNCATE", "READ", "TAG", "COMMIT", "FLUSH", "DELETE"}
    /\ p.f \in Archivos
    /\ p.op = "TRUNCATE" => p.n \in 0..MaxPaginas
    /\ p.op = "TAG" => p.d \in Archivos
    /\ p.op = "FLUSH" => \A i \in DOMAIN p.paginas : p.paginas[i][2] \in Pagina

LEMMA CeroEsPagina == PaginaCero \in Pagina
BY MemoriaAssumption DEF PaginaCero, Pagina

LEMMA EsSecuencia ==
  ASSUME NEW S, NEW n \in Nat, NEW t \in [1..n -> S]
  PROVE  t \in Seq(S) /\ Len(t) = n
<1>1. t \in Seq(S)
  BY SeqDef
<1> QED
  BY <1>1, LenProperties

LEMMA PonerOK ==
  ASSUME StorageOK, NEW f \in Archivos, NEW e \in {"ausente", "WORK_IN_PROGRESS", "COMMITED"},
         NEW c \in Seq(Pagina), Len(c) <= MaxPaginas, Storage!Poner(f, e, c)
  PROVE  StorageOK'
BY DEF Storage!Poner, StorageOK

LEMMA EscritosOK ==
  ASSUME NEW s \in Seq(Pagina), NEW ps, \A i \in DOMAIN ps : ps[i][2] \in Pagina
  PROVE  Storage!Escritos(s, ps) \in Seq(Pagina) /\ Len(Storage!Escritos(s, ps)) = Len(s)
<1> DEFINE t == Storage!Escritos(s, ps)
<1>1. Len(s) \in Nat /\ DOMAIN s = 1..Len(s) /\ \A i \in 1..Len(s) : s[i] \in Pagina
  BY LenProperties, ElementOfSeq
<1>2. \A i \in 1..Len(s) :
        (\E j \in DOMAIN ps : ps[j][1] = i - 1) =>
            (CHOOSE j \in DOMAIN ps : ps[j][1] = i - 1) \in DOMAIN ps
  OBVIOUS
<1>3. t = [i \in 1..Len(s) |->
             IF \E j \in DOMAIN ps : ps[j][1] = i - 1
             THEN ps[CHOOSE j \in DOMAIN ps : ps[j][1] = i - 1][2] ELSE s[i]]
  BY <1>1 DEF Storage!Escritos
<1>4. \A i \in 1..Len(s) : t[i] \in Pagina
  BY <1>1, <1>2, <1>3
<1>5. t = [i \in 1..Len(s) |-> t[i]]
  BY <1>3
<1> HIDE DEF t
<1>6. t \in [1..Len(s) -> Pagina]
  BY <1>4, <1>5
<1> QED
  BY <1>1, <1>6, EsSecuencia DEF t

LEMMA ServirOK ==
  ASSUME StorageOK, NEW p, PedidoOK(p), Servir(p)
  PROVE  StorageOK'
<1>1. CASE ~Aceptado(p)
  BY <1>1 DEF Servir, storage, StorageOK
<1>2. CASE Storage!Efecto(p)
  <2>0. /\ contenido[p.f] \in Seq(Pagina) /\ Len(contenido[p.f]) <= MaxPaginas
        /\ estado[p.f] \in {"ausente", "WORK_IN_PROGRESS", "COMMITED"}
        /\ <<>> \in Seq(Pagina) /\ Len(<<>>) <= MaxPaginas
    BY MemoriaAssumption DEF StorageOK, PedidoOK
  <2>1. CASE p.op = "CREATE"
    <3>1. Storage!Poner(p.f, "WORK_IN_PROGRESS", <<>>)
      BY <1>2, <2>1 DEF Storage!Efecto
    <3> QED
      BY <2>0, <3>1, PonerOK DEF PedidoOK
  <2>2. CASE p.op = "TRUNCATE"
    <3> DEFINE c == [i \in 1..p.n |->
                        IF i <= Len(contenido[p.f]) THEN contenido[p.f][i] ELSE PaginaCero]
    <3>1. Storage!Poner(p.f, estado[p.f], c)
      BY <1>2, <2>2 DEF Storage!Efecto
    <3>2. p.n \in Nat /\ p.n <= MaxPaginas
      BY <2>2, MemoriaAssumption DEF PedidoOK
    <3>3. \A i \in 1..p.n : c[i] \in Pagina
      BY <2>0, <3>2, CeroEsPagina, ElementOfSeq, LenProperties
    <3> HIDE DEF c
    <3>4. c \in [1..p.n -> Pagina]
      BY <3>3 DEF c
    <3>5. c \in Seq(Pagina) /\ Len(c) = p.n
      BY <3>2, <3>4, EsSecuencia
    <3> QED
      BY <2>0, <3>1, <3>2, <3>5, PonerOK DEF PedidoOK
  <2>3. CASE p.op = "READ"
    BY <1>2, <2>3 DEF Storage!Efecto, StorageOK
  <2>4. CASE p.op = "TAG"
    <3>1. Storage!Poner(p.d, "WORK_IN_PROGRESS", contenido[p.f])
      BY <1>2, <2>4 DEF Storage!Efecto
    <3> QED
      BY <2>0, <2>4, <3>1, PonerOK DEF PedidoOK
  <2>5. CASE p.op = "FLUSH"
    <3>1. Storage!Poner(p.f, estado[p.f], Storage!Escritos(contenido[p.f], p.paginas))
      BY <1>2, <2>5 DEF Storage!Efecto
    <3> QED
      BY <2>0, <2>5, <3>1, EscritosOK, PonerOK DEF PedidoOK
  <2>6. CASE p.op = "COMMIT"
    <3>1. Storage!Poner(p.f, "COMMITED", contenido[p.f])
      BY <1>2, <2>6 DEF Storage!Efecto
    <3> QED
      BY <2>0, <3>1, PonerOK DEF PedidoOK
  <2>7. CASE p.op = "DELETE"
    <3>1. Storage!Poner(p.f, "ausente", <<>>)
      BY <1>2, <2>7 DEF Storage!Efecto
    <3> QED
      BY <2>0, <3>1, PonerOK DEF PedidoOK
  <2> QED
    BY <2>1, <2>2, <2>3, <2>4, <2>5, <2>6, <2>7 DEF PedidoOK
<1> QED
  BY <1>1, <1>2 DEF Servir

\* A Worker has no more pages than frames.
LEMMA CargadasFinitas ==
  ASSUME NEW w \in Workers, PaginasOK(w)
  PROVE  IsFiniteSet(Cargadas(w))
<1> DEFINE f == [k \in Cargadas(w) |-> tablas[w][k].marco]
<1>1. \A k \in Cargadas(w) : f[k] \in Marcos(w) /\ marcos[w][f[k]] = k
  BY DEF PaginasOK, DeTabla, EntradasYMarcos
<1>2. f \in [Cargadas(w) -> Marcos(w)]
  BY <1>1
<1> HIDE DEF f
<1>3. f \in Injection(Cargadas(w), Marcos(w))
  BY <1>1, <1>2 DEF Injection, IsInjective
<1>4. IsFiniteSet(Marcos(w))
  BY HayMarcos, FS_Interval DEF Marcos
<1> QED
  BY <1>3, <1>4, FS_Injection

LEMMA EnFilaEs ==
  ASSUME NEW s, IsFiniteSet(s)
  PROVE  /\ EnFila(s) \in [1..Cardinality(s) -> s]
         /\ Elementos(EnFila(s)) = s
<1>1. PICK q \in Bijection(1..Cardinality(s), s) : TRUE
  BY FS_CardinalityType DEF ExistsBijection
<1>2. q \in [1..Cardinality(s) -> s] /\ {q[i] : i \in DOMAIN q} = s
  BY <1>1 DEF Bijection, Injection, Surjection
<1> QED
  BY <1>2 DEF EnFila, Elementos

LEMMA FlushOK ==
  ASSUME NEW w \in Workers, PaginasOK(w), CursoOK(w), NEW f \in Archivos
  PROVE  PedidoOK(PedidoFlush(w, f))
<1> DEFINE ks == EnFila(Modificadas(w, f))
           p == PedidoFlush(w, f)
<1>1. IsFiniteSet(Modificadas(w, f)) /\ Modificadas(w, f) \subseteq Cargadas(w)
  BY CargadasFinitas, FS_Subset DEF Modificadas
<1>2. \A i \in DOMAIN ks : ks[i] \in Cargadas(w)
  BY <1>1, EnFilaEs
<1>3. \A i \in DOMAIN ks : arena[w][tablas[w][ks[i]].marco] \in Pagina
  BY <1>2 DEF PaginasOK, DeTabla, CursoOK
<1>4. /\ p.op = "FLUSH" /\ p.f = f
      /\ p.paginas = [i \in DOMAIN ks |-> <<ks[i][2], arena[w][tablas[w][ks[i]].marco]>>]
  BY DEF PedidoFlush
<1> HIDE DEF ks, p
<1>5. \A i \in DOMAIN p.paginas : p.paginas[i][2] \in Pagina
  BY <1>3, <1>4
<1> QED
  BY <1>4, <1>5 DEF PedidoOK, p

-------------------------------------------------------------------------------
(* The instruction of a Worker and the bytes of its frames. *)

LEMMA InstruccionEs ==
  ASSUME mezcla \in Mezclas, NEW i \in mezcla.instr
  PROVE  /\ i # Ninguna /\ i.f \in Archivos
         /\ i.op \in {"CREATE", "TRUNCATE", "WRITE", "READ", "TAG", "COMMIT", "FLUSH", "DELETE"}
         /\ i.op \in {"READ", "WRITE"} => i.dir \in Nat /\ Total(i) \in Nat
         /\ i.op = "WRITE" => i.bytes \in Seq(Bytes)
         /\ i.op \in {"CREATE", "TRUNCATE", "TAG", "COMMIT", "DELETE"} => PedidoOK(i)
<1>1. i # Ninguna
  BY MemoriaAssumption
<1>2. /\ i.op \in {"CREATE", "TRUNCATE", "WRITE", "READ", "TAG", "COMMIT", "FLUSH", "DELETE"}
      /\ i.f \in Archivos
      /\ i.op \in {"READ", "WRITE"} => i.dir \in Nat
      /\ i.op = "READ" => i.n \in Nat
      /\ i.op = "WRITE" => i.bytes \in Seq(Bytes)
      /\ i.op = "TRUNCATE" => i.n \in 0..MaxPaginas
      /\ i.op = "TAG" => i.d \in Archivos
  BY InstruccionesAssumption
<1>3. i.op \in {"READ", "WRITE"} => Total(i) \in Nat
  BY <1>2, LenProperties DEF Total
<1> QED
  BY <1>1, <1>2, <1>3 DEF PedidoOK

\* The bytes of a step are inside one page and inside what is left.
LEMMA TramoEs ==
  ASSUME mezcla \in Mezclas, NEW w \in Workers, CursoOK(w), Accede(w), hecho[w] < Total(curso[w])
  PROVE  /\ Desde(w) \in 0..TamPagina - 1 /\ Tramo(w) \in Nat \ {0}
         /\ Desde(w) + Tramo(w) <= TamPagina
         /\ hecho[w] + Tramo(w) <= Total(curso[w])
<1>1. /\ curso[w] \in mezcla.instr /\ curso[w].dir \in Nat /\ Total(curso[w]) \in Nat
      /\ hecho[w] \in Nat
  BY InstruccionEs DEF CursoOK, Accede, Accesos
<1>2. \A x \in Nat, n \in Nat \ {0} : x % n \in 0..n - 1
  OBVIOUS
<1>3. curso[w].dir + hecho[w] \in Nat /\ TamPagina \in Nat \ {0}
  BY <1>1, MemoriaAssumption
<1>4. Desde(w) \in 0..TamPagina - 1
  BY <1>2, <1>3 DEF Desde
<1> QED
  BY <1>1, <1>3, <1>4 DEF Tramo

LEMMA ClaveEs ==
  ASSUME mezcla \in Mezclas, StorageOK, NEW w \in Workers, CursoOK(w), Accede(w),
         Aceptado([op |-> "READ", f |-> Clave(w)[1], p |-> Clave(w)[2]])
  PROVE  Clave(w) \in Claves /\ contenido[Clave(w)[1]][Clave(w)[2] + 1] \in Pagina
<1> DEFINE f == curso[w].f
           n == (curso[w].dir + hecho[w]) \div TamPagina
<1>1. f \in Archivos /\ curso[w].dir + hecho[w] \in Nat /\ TamPagina \in Nat \ {0}
  BY InstruccionEs, MemoriaAssumption DEF CursoOK, Accede, Accesos
<1>2. \A x \in Nat, t \in Nat \ {0} : x \div t \in Nat
  OBVIOUS
<1>3. n \in Nat
  BY <1>1, <1>2
<1>4. Clave(w) = <<f, n>>
  BY DEF Clave
<1> HIDE DEF f, n
<1>5. n < Len(contenido[f])
  BY <1>4 DEF Aceptado, Storage!Valido
<1>6. Len(contenido[f]) \in Nat /\ Len(contenido[f]) <= MaxPaginas /\ MaxPaginas \in Nat
  BY <1>1, MemoriaAssumption, LenProperties DEF StorageOK
<1>7. n \in 0..MaxPaginas - 1 /\ n + 1 \in 1..Len(contenido[f])
  BY <1>3, <1>5, <1>6
<1> QED
  BY <1>1, <1>4, <1>7, ElementOfSeq DEF Claves, StorageOK

\* Of the actions that do no more than an instruction's course.
LEMMA CursoSigue ==
  ASSUME mezcla \in Mezclas, DominiosOK, NEW w \in Workers, CursoOK(w), PaginasOK(w),
         UNCHANGED mezcla, arena'[w] \in [Marcos(w) -> Pagina],
         curso'[w] \in {curso[w], Ninguna}, hecho'[w] \in Nat,
         curso'[w] = curso[w] /\ Accede(w) => hecho'[w] <= Total(curso[w]),
         buffer'[w] \in Seq(Bytes), error'[w] \in BOOLEAN
  PROVE  CursoOK(w)'
<1>1. Marcos(w)' = Marcos(w) /\ mezcla.instr' = mezcla.instr
  BY DEF Marcos
<1>2. Accede(w)' => curso'[w] = curso[w] /\ Accede(w)
  BY DEF Accede
<1> QED
  BY <1>1, <1>2 DEF CursoOK

LEMMA AcabarCurso ==
  ASSUME mezcla \in Mezclas, DominiosOK, NEW w \in Workers, CursoOK(w), PaginasOK(w),
         UNCHANGED arena, NEW e, Acabar(w, e)
  PROVE  CursoOK(w)'
<1>1. /\ curso'[w] = Ninguna /\ error'[w] = (error[w] \/ e)
      /\ hecho' = hecho /\ buffer' = buffer /\ mezcla' = mezcla
  BY DEF Acabar, DominiosOK, queries
<1>2. error'[w] \in BOOLEAN
  BY <1>1
<1>3. curso'[w] # curso[w] \/ ~Accede(w)
  BY <1>1 DEF Accede
<1> QED
  BY <1>1, <1>2, <1>3, CursoSigue DEF CursoOK

LEMMA AccederCurso ==
  ASSUME mezcla \in Mezclas, DominiosOK, NEW w \in Workers, CursoOK(w), PaginasOK(w), Acceder(w)
  PROVE  CursoOK(w)'
<1> DEFINE i == curso[w]
           m == tablas[w][Clave(w)].marco
           t == Tramo(w)
           d == Desde(w)
<1>1. /\ d \in 0..TamPagina - 1 /\ t \in Nat \ {0} /\ d + t <= TamPagina
      /\ hecho[w] + t <= Total(i) /\ TamPagina \in Nat \ {0}
  BY TramoEs, MemoriaAssumption DEF Acceder
<1>2. /\ i \in mezcla.instr /\ i.op \in {"READ", "WRITE"} /\ Total(i) \in Nat /\ hecho[w] \in Nat
      /\ i.op = "WRITE" => i.bytes \in Seq(Bytes) /\ Total(i) = Len(i.bytes)
  BY InstruccionEs DEF Acceder, CursoOK, Accede, Accesos, Total
<1>3. m \in Marcos(w) /\ arena[w][m] \in Pagina
  BY DEF Acceder, PaginasOK, DeTabla, CursoOK
<1>4. /\ hecho'[w] = hecho[w] + t /\ UNCHANGED <<curso, error, mezcla>>
      /\ IF i.op = "WRITE"
         THEN /\ arena' = [arena EXCEPT ![w][m] = [j \in 1..TamPagina |->
                     IF j - d \in 1..t THEN i.bytes[hecho[w] + j - d] ELSE @[j]]]
              /\ UNCHANGED buffer
         ELSE /\ buffer'[w] = buffer[w] \o SubSeq(arena[w][m], d + 1, d + t)
              /\ UNCHANGED arena
  BY DEF Acceder, DominiosOK, queries
<1> HIDE DEF i, m, t, d
<1>5. arena'[w] \in [Marcos(w) -> Pagina]
  <2>1. CASE i.op # "WRITE"
    BY <1>4, <2>1 DEF CursoOK
  <2>2. CASE i.op = "WRITE"
    <3> DEFINE nueva == [j \in 1..TamPagina |->
                     IF j - d \in 1..t THEN i.bytes[hecho[w] + j - d] ELSE arena[w][m][j]]
    <3>1. arena'[w] = [arena[w] EXCEPT ![m] = nueva]
      BY <1>4, <2>2 DEF DominiosOK
    <3>2. ASSUME NEW j \in 1..TamPagina
          PROVE  (IF j - d \in 1..t THEN i.bytes[hecho[w] + j - d] ELSE arena[w][m][j]) \in Bytes
      <4>1. CASE j - d \in 1..t
        <5>1. hecho[w] + j - d \in 1..Len(i.bytes)
          BY <1>1, <1>2, <2>2, <4>1, SMTT(30)
        <5> QED
          BY <1>2, <2>2, <4>1, <5>1, ElementOfSeq
      <4>2. CASE j - d \notin 1..t
        BY <1>3, <4>2 DEF Pagina
      <4> QED
        BY <4>1, <4>2
    <3>3. nueva \in Pagina
      BY <3>2 DEF Pagina
    <3> HIDE DEF nueva
    <3> QED
      BY <3>1, <3>3 DEF CursoOK
  <2> QED
    BY <2>1, <2>2
<1>6. buffer'[w] \in Seq(Bytes)
  <2>1. CASE i.op = "WRITE"
    BY <1>4, <2>1 DEF CursoOK
  <2>2. CASE i.op # "WRITE"
    <3>1. \A j \in d + 1 .. d + t : arena[w][m][j] \in Bytes
      BY <1>1, <1>3 DEF Pagina
    <3>2. d + 1 \in Int /\ d + t \in Int
      BY <1>1
    <3>3. SubSeq(arena[w][m], d + 1, d + t) \in Seq(Bytes)
      BY <3>1, <3>2, SubSeqProperties
    <3> QED
      BY <1>4, <2>2, <3>3, ConcatProperties DEF CursoOK
  <2> QED
    BY <2>1, <2>2
<1>7. hecho'[w] \in Nat /\ hecho'[w] <= Total(curso[w])
  BY <1>1, <1>2, <1>4 DEF i
<1> QED
  BY <1>4, <1>5, <1>6, <1>7, CursoSigue DEF CursoOK

-------------------------------------------------------------------------------
(* The steps of a Worker leave the others as they were. *)

Quieto(v) ==
    /\ tablas'[v] = tablas[v] /\ marcos'[v] = marcos[v] /\ arena'[v] = arena[v]
    /\ lru_list'[v] = lru_list[v] /\ usos'[v] = usos[v]
    /\ bitR'[v] = bitR[v] /\ bitM'[v] = bitM[v] /\ puntero'[v] = puntero[v]
    /\ curso'[v] = curso[v] /\ hecho'[v] = hecho[v]
    /\ buffer'[v] = buffer[v] /\ error'[v] = error[v]

LEMMA QuietoOK ==
  ASSUME NEW v \in Workers, PaginasOK(v), CursoOK(v), UNCHANGED mezcla, Quieto(v)
  PROVE  PaginasOK(v)' /\ CursoOK(v)'
<1> USE DEF Quieto
<1>1. Cargadas(v)' = Cargadas(v) /\ Marcos(v)' = Marcos(v)
  BY DEF Cargadas, Marcos
<1>2. DeTabla(v)' /\ DeListas(v)' /\ DeBits(v)'
  BY <1>1 DEF PaginasOK, DeTabla, DeListas, DeBits
<1>3. EntradasYMarcos(v)'
  BY <1>1 DEF PaginasOK, EntradasYMarcos
<1>4. ListaOrdenada(v)'
  BY <1>1 DEF PaginasOK, ListaOrdenada
<1>5. BitFiel(v)'
  BY <1>1 DEF PaginasOK, BitFiel
<1>6. CursoOK(v)'
  BY <1>1 DEF CursoOK, Accede
<1> QED
  BY <1>2, <1>3, <1>4, <1>5, <1>6 DEF PaginasOK

Paso(w) == Empezar(w) \/ HacerLugar(w) \/ Cargar(w) \/ Acceder(w) \/ TerminarAcceso(w)
           \/ Pedir(w) \/ Flush(w) \/ FlushAntesDeCommit(w) \/ Commit(w)

LEMMA Ajenos ==
  ASSUME DominiosOK, NEW w \in Workers, Paso(w)
  PROVE  DominiosOK' /\ UNCHANGED queries /\ \A v \in Workers \ {w} : Quieto(v)
<1> USE DEF DominiosOK, Quieto, paginas, instruccion
<1>1. CASE Empezar(w)
  BY <1>1 DEF Empezar
<1>2. CASE HacerLugar(w)
  BY <1>2 DEF HacerLugar, Desalojar
<1>3. CASE Cargar(w)
  BY <1>3 DEF Cargar, Tocar, Acabar
<1>4. CASE Acceder(w)
  BY <1>4 DEF Acceder, Tocar
<1>5. CASE TerminarAcceso(w)
  BY <1>5 DEF TerminarAcceso, Acabar
<1>6. CASE Pedir(w)
  BY <1>6 DEF Pedir, Acabar
<1>7. CASE Flush(w)
  BY <1>7 DEF Flush, Vaciar, Acabar
<1>8. CASE FlushAntesDeCommit(w)
  BY <1>8 DEF FlushAntesDeCommit, Vaciar
<1>9. CASE Commit(w)
  BY <1>9 DEF Commit
<1> QED
  BY <1>1, <1>2, <1>3, <1>4, <1>5, <1>6, <1>7, <1>8, <1>9 DEF Paso

-------------------------------------------------------------------------------
(* Each action keeps what the invariant says of Storage and of its Worker. *)

Bien(w) == StorageOK /\ PaginasOK(w) /\ CursoOK(w)

LEMMA PaginasQuietas ==
  ASSUME NEW w \in Workers, PaginasOK(w), UNCHANGED paginas
  PROVE  PaginasOK(w)' /\ arena' = arena /\ (CursoOK(w) => arena'[w] \in [Marcos(w) -> Pagina])
<1>1. Cargadas(w)' = Cargadas(w) /\ Marcos(w)' = Marcos(w)
  BY DEF Cargadas, Marcos, paginas
<1> QED
  BY <1>1 DEF paginas, PaginasOK, DeTabla, DeListas, DeBits, EntradasYMarcos, ListaOrdenada,
              BitFiel, CursoOK

LEMMA StorageQuieto == StorageOK /\ UNCHANGED storage => StorageOK'
BY DEF StorageOK, storage

LEMMA EmpezarBien ==
  ASSUME mezcla \in Mezclas, DominiosOK, NEW w \in Workers, Bien(w), Empezar(w)
  PROVE  Bien(w)'
<1>1. StorageOK' /\ PaginasOK(w)' /\ arena' = arena
  BY StorageQuieto, PaginasQuietas DEF Bien, Empezar
<1>2. PICK i \in mezcla.instr : curso' = [curso EXCEPT ![w] = i]
  BY DEF Empezar
<1>3. /\ curso'[w] = i /\ hecho'[w] = 0 /\ buffer'[w] = <<>> /\ error'[w] = FALSE /\ mezcla' = mezcla
      /\ Marcos(w)' = Marcos(w)
  BY <1>2 DEF Empezar, DominiosOK, queries, Marcos
<1>4. Accede(w)' => hecho'[w] <= Total(i)
  BY <1>3, InstruccionEs DEF Accede, Accesos
<1>5. arena'[w] \in [Marcos(w)' -> Pagina] /\ error'[w] \in BOOLEAN /\ buffer'[w] \in Seq(Bytes)
  BY <1>1, <1>3, EmptySeq DEF Bien, CursoOK
<1>6. CursoOK(w)'
  BY <1>3, <1>4, <1>5 DEF CursoOK
<1> QED
  BY <1>1, <1>6 DEF Bien

LEMMA HacerLugarBien ==
  ASSUME mezcla \in Mezclas, DominiosOK, NEW w \in Workers, Bien(w), HacerLugar(w)
  PROVE  Bien(w)'
<1> DEFINE k == Victima(w)
<1>1. PaginasOK(w)'
  BY DesalojarPaginas DEF Bien, HacerLugar
<1>2. CursoOK(w)'
  <2>1. UNCHANGED <<arena, instruccion, mezcla>> /\ Marcos(w)' = Marcos(w)
    BY DEF HacerLugar, Desalojar, queries, Marcos
  <2> QED
    BY <2>1 DEF instruccion, Bien, CursoOK, Accede
<1>3. StorageOK'
  <2>1. k[1] \in Archivos
    BY VictimaEs DEF HacerLugar, Bien, PaginasOK, DeTabla, Claves
  <2>2. Servir(PedidoFlush(w, k[1])) \/ UNCHANGED storage
    BY DEF HacerLugar, Desalojar
  <2> QED
    BY <2>1, <2>2, FlushOK, ServirOK, StorageQuieto DEF Bien
<1> QED
  BY <1>1, <1>2, <1>3 DEF Bien

LEMMA CargarBien ==
  ASSUME mezcla \in Mezclas, DominiosOK, NEW w \in Workers, Bien(w), Cargar(w)
  PROVE  Bien(w)'
<1> DEFINE k == Clave(w)
           m == MarcoLibre(w)
           p == [op |-> "READ", f |-> k[1], p |-> k[2]]
<1>1. Accede(w) /\ (Aceptado(p) => k \in Claves /\ contenido[k[1]][k[2] + 1] \in Pagina)
  BY ClaveEs DEF Cargar, Falta, Bien
<1>2. StorageOK' /\ PaginasOK(w)'
  BY <1>1, CargarPaginas, StorageQuieto DEF Bien, Cargar
<1>3. CASE ~Aceptado(p)
  <2>1. Acabar(w, TRUE) /\ UNCHANGED arena
    BY <1>3 DEF Cargar, paginas
  <2> QED
    BY <1>2, <2>1, AcabarCurso DEF Bien
<1>4. CASE Aceptado(p)
  <2>1. /\ arena' = [arena EXCEPT ![w][m] = contenido[k[1]][k[2] + 1]]
        /\ UNCHANGED <<instruccion, mezcla>>
    BY <1>4 DEF Cargar, queries
  <2>2. arena'[w] = [arena[w] EXCEPT ![m] = contenido[k[1]][k[2] + 1]]
    BY <2>1 DEF DominiosOK
  <2>3. arena'[w] \in [Marcos(w) -> Pagina]
    BY <1>1, <1>4, <2>2 DEF Bien, CursoOK
  <2> QED
    BY <1>2, <2>1, <2>3, CursoSigue DEF instruccion, Bien, CursoOK
<1> QED
  BY <1>3, <1>4

LEMMA AccederBien ==
  ASSUME mezcla \in Mezclas, DominiosOK, NEW w \in Workers, Bien(w),
         Acceder(w) \/ TerminarAcceso(w)
  PROVE  Bien(w)'
<1>1. CASE Acceder(w)
  BY <1>1, AccederPaginas, AccederCurso, StorageQuieto DEF Bien, Acceder
<1>2. CASE TerminarAcceso(w)
  BY <1>2, PaginasQuietas, AcabarCurso, StorageQuieto DEF Bien, TerminarAcceso
<1> QED
  BY <1>1, <1>2

LEMMA PedirBien ==
  ASSUME mezcla \in Mezclas, DominiosOK, NEW w \in Workers, Bien(w), Pedir(w) \/ Commit(w)
  PROVE  Bien(w)'
<1>1. curso[w] \in mezcla.instr /\ PedidoOK(curso[w]) /\ Servir(curso[w]) /\ UNCHANGED paginas
  BY InstruccionEs DEF Bien, CursoOK, Pedir, Commit
<1>2. StorageOK' /\ PaginasOK(w)' /\ arena' = arena
  BY <1>1, ServirOK, PaginasQuietas DEF Bien
<1>3. CASE Pedir(w)
  BY <1>2, <1>3, AcabarCurso DEF Bien, Pedir
<1>4. CASE Commit(w)
  <2>1. /\ curso'[w] = Ninguna /\ hecho'[w] = 0 /\ buffer' = buffer /\ mezcla' = mezcla
        /\ error'[w] = (error[w] \/ ~Aceptado(curso[w])) /\ curso[w] # Ninguna
    BY <1>4 DEF Commit, DominiosOK, queries
  <2>2. error'[w] \in BOOLEAN
    BY <2>1
  <2>3. /\ CursoOK(w) /\ PaginasOK(w) /\ arena'[w] \in [Marcos(w) -> Pagina]
        /\ buffer'[w] \in Seq(Bytes) /\ hecho'[w] \in Nat
    BY <1>2, <2>1 DEF Bien, CursoOK
  <2>4. CursoOK(w)'
    BY <2>1, <2>2, <2>3, CursoSigue
  <2> QED
    BY <1>2, <2>4 DEF Bien
<1> QED
  BY <1>3, <1>4

LEMMA FlushBien ==
  ASSUME mezcla \in Mezclas, DominiosOK, NEW w \in Workers, Bien(w),
         Flush(w) \/ FlushAntesDeCommit(w)
  PROVE  Bien(w)'
<1> DEFINE f == curso[w].f
<1>1. curso[w] \in mezcla.instr /\ f \in Archivos /\ ~Accede(w) /\ Vaciar(w, f)
  BY InstruccionEs DEF Bien, CursoOK, Flush, FlushAntesDeCommit, Accede, Accesos
<1>2. PaginasOK(w)' /\ arena' = arena
  BY <1>1, VaciarPaginas DEF Bien, Vaciar
<1>3. StorageOK'
  BY <1>1, FlushOK, ServirOK DEF Bien, Vaciar
<1>4. CASE Flush(w)
  BY <1>2, <1>3, <1>4, AcabarCurso DEF Bien, Flush
<1>5. CASE FlushAntesDeCommit(w)
  <2>1. /\ curso' = curso /\ hecho'[w] = 1 /\ buffer' = buffer /\ mezcla' = mezcla
        /\ error'[w] = ~Aceptado(PedidoFlush(w, f))
    BY <1>5 DEF FlushAntesDeCommit, DominiosOK, queries
  <2>2. error'[w] \in BOOLEAN
    BY <2>1
  <2>3. /\ CursoOK(w) /\ PaginasOK(w) /\ arena'[w] \in [Marcos(w) -> Pagina]
        /\ buffer'[w] \in Seq(Bytes) /\ hecho'[w] \in Nat
    BY <1>2, <2>1 DEF Bien, CursoOK
  <2>4. CursoOK(w)'
    BY <1>1, <2>1, <2>2, <2>3, CursoSigue
  <2> QED
    BY <1>2, <1>3, <2>4 DEF Bien
<1> QED
  BY <1>4, <1>5

-------------------------------------------------------------------------------
LEMMA InvInicial == Init => InvMemoria
<1> SUFFICES ASSUME Init PROVE InvMemoria
  OBVIOUS
<1>1. mezcla \in Mezclas /\ donde \in [Queries -> Workers] /\ DominiosOK
  BY DEF Init, DominiosOK
<1>2. StorageOK
  <2>1. /\ <<PaginaCero>> \in Seq(Pagina) /\ Len(<<PaginaCero>>) = 1
        /\ <<>> \in Seq(Pagina) /\ Len(<<>>) = 0 /\ MaxPaginas \in Nat \ {0}
    BY CeroEsPagina, MemoriaAssumption
  <2>2. estado \in [Archivos -> {"ausente", "WORK_IN_PROGRESS", "COMMITED"}]
    BY DEF Init
  <2>3. contenido = [f \in Archivos |-> IF f \in YaCreados THEN <<PaginaCero>> ELSE <<>>]
    BY DEF Init
  <2>4. \A f \in Archivos : contenido[f] \in {<<PaginaCero>>, <<>>}
    BY <2>3
  <2>5. contenido \in [Archivos -> Seq(Pagina)]
    <3> DEFINE inicial(f) == IF f \in YaCreados THEN <<PaginaCero>> ELSE <<>>
    <3>1. \A f \in Archivos : inicial(f) \in Seq(Pagina)
      BY <2>1
    <3>2. contenido = [f \in Archivos |-> inicial(f)]
      BY <2>3
    <3> HIDE DEF inicial
    <3> QED
      BY <3>1, <3>2
  <2>6. \A f \in Archivos : Len(contenido[f]) \in {0, 1}
    BY <2>1, <2>4
  <2>7. \A n \in {0, 1} : n =< MaxPaginas
    BY <2>1
  <2>8. \A f \in Archivos : Len(contenido[f]) <= MaxPaginas
    BY <2>6, <2>7
  <2> QED
    BY <2>2, <2>5, <2>8 DEF StorageOK
<1>3. ASSUME NEW w \in Workers PROVE PaginasOK(w) /\ CursoOK(w)
  <2>1. /\ tablas[w] = <<>> /\ marcos[w] = [m \in Marcos(w) |-> Libre]
        /\ arena[w] = [m \in Marcos(w) |-> PaginaCero]
        /\ lru_list[w] = <<>> /\ usos[w] = <<>>
        /\ bitR[w] = [m \in Marcos(w) |-> FALSE] /\ bitM[w] = [m \in Marcos(w) |-> FALSE]
        /\ puntero[w] = 0 /\ curso[w] = Ninguna /\ hecho[w] = 0 /\ buffer[w] = <<>>
        /\ error[w] = FALSE
    BY DEF Init
  <2>2. Cargadas(w) = {} /\ DOMAIN lru_list[w] = {} /\ DOMAIN usos[w] = {}
    BY <2>1 DEF Cargadas
  <2>3. DeTabla(w)
    <3>1. tablas[w] \in [{} -> [marco : Marcos(w), modificada : BOOLEAN]]
      BY <2>1, <2>2 DEF Cargadas
    <3> QED
      BY <2>1, <2>2, <3>1 DEF DeTabla
  <2>4. DeListas(w) /\ EntradasYMarcos(w)
    BY <2>1, <2>2, EmptySeq DEF DeListas, EntradasYMarcos
  <2>5. ListaOrdenada(w)
    BY <2>2 DEF ListaOrdenada, SinRepetir, Elementos
  <2>6. DeBits(w)
    <3>1. \A m \in Marcos(w) : bitR[w][m] \in BOOLEAN /\ bitM[w][m] \in BOOLEAN
      BY <2>1
    <3> QED
      BY <2>1, <3>1, HayMarcos DEF DeBits
  <2>7. BitFiel(w)
    BY <2>1 DEF BitFiel
  <2>8. error[w] \in BOOLEAN /\ buffer[w] \in Seq(Bytes) /\ arena[w] \in [Marcos(w) -> Pagina]
    BY <2>1, EmptySeq, CeroEsPagina
  <2>9. CursoOK(w)
    BY <2>1, <2>8 DEF CursoOK, Accede
  <2> QED
    BY <2>3, <2>4, <2>5, <2>6, <2>7, <2>9 DEF PaginasOK
<1> QED
  BY <1>1, <1>2, <1>3 DEF InvMemoria

LEMMA InvPaso == InvMemoria /\ [Next]_vars => InvMemoria'
<1> SUFFICES ASSUME InvMemoria, [Next]_vars PROVE InvMemoria'
  OBVIOUS
<1>1. ASSUME UNCHANGED <<mezcla, storage, paginas, instruccion>>,
             donde' \in [Queries -> Workers]
      PROVE  InvMemoria'
  <2>1. StorageOK'
    BY <1>1, StorageQuieto DEF InvMemoria
  <2>2. DominiosOK' /\ \A v \in Workers : Quieto(v)
    BY <1>1 DEF paginas, instruccion, DominiosOK, Quieto, InvMemoria
  <2> QED
    BY <1>1, <2>1, <2>2, QuietoOK DEF InvMemoria
<1>2. CASE UNCHANGED vars
  BY <1>1, <1>2 DEF vars, queries, InvMemoria
<1>3. ASSUME NEW w \in Workers, NEW q \in Queries, Mudar(q, w) PROVE InvMemoria'
  <2>1. donde' \in [Queries -> Workers]
    BY <1>3 DEF Mudar, InvMemoria
  <2> QED
    BY <1>1, <1>3, <2>1 DEF Mudar
<1>4. ASSUME NEW w \in Workers, Paso(w) PROVE InvMemoria'
  <2>1. mezcla \in Mezclas /\ DominiosOK /\ Bien(w)
    BY DEF InvMemoria, Bien
  <2>2. Bien(w)'
    BY <1>4, <2>1, EmpezarBien, HacerLugarBien, CargarBien, AccederBien, PedirBien, FlushBien
    DEF Paso
  <2>3. DominiosOK' /\ UNCHANGED queries /\ \A v \in Workers \ {w} : Quieto(v)
    BY <1>4, <2>1, Ajenos
  <2>4. \A v \in Workers \ {w} : PaginasOK(v)' /\ CursoOK(v)'
    BY <2>3, QuietoOK DEF queries, InvMemoria
  <2> QED
    BY <2>2, <2>3, <2>4 DEF Bien, queries, InvMemoria
<1> QED
  BY <1>2, <1>3, <1>4 DEF Next, Paso

LEMMA InvSiempre == Spec => []InvMemoria
BY InvInicial, InvPaso, PTL DEF Spec

\* Types: the pages a Worker has are inside their file:tag, a buffer has the bytes of its
\* instruction and no more, Storage gets whole pages.
THEOREM TipoMemoria == Spec => []TypeOK
<1>1. InvMemoria => TypeOK
  BY DEF InvMemoria, TypeOK, StorageOK, PaginasOK, DeTabla, DeListas, DeBits, CursoOK
<1> QED
  BY <1>1, InvSiempre, PTL

\* The page tables, the frames and the list of LRU of a Worker describe the same pages at
\* every moment, an eviction or a refused load included.
THEOREM MarcosSiempreConsistentes == Spec => []MarcosConsistentes
<1>1. ASSUME InvMemoria, NEW w \in Workers, Algoritmo[w] = "LRU"
      PROVE  /\ {lru_list[w][i] : i \in DOMAIN lru_list[w]} = Cargadas(w)
             /\ Len(lru_list[w]) = Cardinality(Cargadas(w))
  <2>1. lru_list[w] \in Seq(Claves) /\ SinRepetir(lru_list[w]) /\ Elementos(lru_list[w]) = Cargadas(w)
    BY <1>1 DEF InvMemoria, PaginasOK, DeListas, ListaOrdenada
  <2> QED
    BY <2>1, CuantosEs DEF Elementos
<1>2. InvMemoria => MarcosConsistentes
  BY <1>1 DEF InvMemoria, PaginasOK, EntradasYMarcos, MarcosConsistentes
<1> QED
  BY <1>2, InvSiempre, PTL

\* The bit by which CLOCK-M chooses a victim is the one by which the victim is written back.
THEOREM BitsSiempreFieles == Spec => []BitsFieles
<1>1. InvMemoria => BitsFieles
  BY DEF InvMemoria, PaginasOK, BitFiel, BitsFieles
<1> QED
  BY <1>1, InvSiempre, PTL

\* LRU is LRU: whatever is dropped was used before everything that stays.
THEOREM SalenLasMasViejas == Spec => []QuedanLasUltimas
<1>1. ASSUME InvMemoria, NEW w \in Workers, Algoritmo[w] = "LRU", NEW i \in DOMAIN usos[w],
             usos[w][i] \notin Cargadas(w), NEW k \in Cargadas(w)
      PROVE  i < Lugar(w, k)
  <2> DEFINE u == usos[w]
  <2>1. /\ u \in Seq(Claves) /\ SinRepetir(u) /\ k \in Elementos(u)
        /\ Antes(u, u[i], k)
    BY <1>1 DEF InvMemoria, PaginasOK, DeListas, ListaOrdenada, Elementos
  <2>2. PICK a, b \in DOMAIN u : a < b /\ u[a] = u[i] /\ u[b] = k
    BY <2>1 DEF Antes
  <2>3. Lugar(w, k) \in DOMAIN u /\ u[Lugar(w, k)] = k
    BY <2>1 DEF Elementos, Lugar
  <2> QED
    BY <2>1, <2>2, <2>3 DEF SinRepetir
<1>2. InvMemoria => QuedanLasUltimas
  BY <1>1 DEF QuedanLasUltimas
<1> QED
  BY <1>2, InvSiempre, PTL
===============================================================================
