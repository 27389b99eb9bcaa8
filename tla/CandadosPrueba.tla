---------------------------- MODULE CandadosPrueba ----------------------------
(***************************************************************************)
(* Proofs about Candados: types, the dictionary of live mutexes, and       *)
(* mutual exclusion on a file:tag up to the first DELETE, for any number   *)
(* of threads, file:tags, addresses and requests.                          *)
(***************************************************************************)
EXTENDS Candados, TLAPS

\* The points at which a thread has looked its first mutex up and not given it back.
ConCandado == {"obtener_b", "trabar", "trabar_b", "seccion"}

\* What a thread has gone through: it serves a request, and a and b are set exactly while
\* the code between lookup and unlock has them.
Recorrido(h) ==
    /\ pc[h] # "libre" => pedido[h] \in mezcla
    /\ a[h] # Nulo <=> pc[h] \in ConCandado
    /\ b[h] # Nulo => pedido[h].op = "TAG" /\ pc[h] \in {"trabar", "trabar_b", "seccion"}
    /\ pc[h] \in {"obtener_b", "trabar_b"} => pedido[h].op = "TAG"
    /\ pc[h] \in {"trabar", "trabar_b"} /\ pedido[h].op = "TAG" => b[h] # Nulo

\* The pointers a thread has are still those of the dictionary.
Vigentes(h) ==
    /\ a[h] # Nulo => a[h] = dict[Primera(pedido[h])]
    /\ b[h] # Nulo => b[h] = dict[Segunda(pedido[h])]

\* A thread is written in the mutex of each file:tag it works on, and has both only when
\* they are two.
Tenencia(h) ==
    /\ \A k \in EnPoder(h) : mutex[dict[k]] = h
    /\ pc[h] = "seccion" /\ b[h] # Nulo => Primera(pedido[h]) # Segunda(pedido[h])

InvCandados ==
    /\ TypeOK
    /\ DiccionarioVivo
    /\ \A h \in Hilos : Recorrido(h)
    /\ ~borrado => \A h \in Hilos : Vigentes(h) /\ Tenencia(h)

\* What every step needs to know of the requests.
LEMMA ClavesDelPedido ==
  ASSUME TypeOK, NEW h \in Hilos, pedido[h] \in mezcla
  PROVE  /\ pedido[h].op \in {"UNO", "DELETE", "TAG"}
         /\ pedido[h].f \in Claves
         /\ Primera(pedido[h]) \in Claves
         /\ pedido[h].op = "TAG" => Segunda(pedido[h]) \in Claves
<1>1. mezcla \in Mezclas
  BY DEF TypeOK
<1>2. \A p \in mezcla : /\ p.op \in {"UNO", "DELETE", "TAG"}
                        /\ p.f \in Claves
                        /\ p.op = "TAG" => p.d \in Claves
  BY <1>1, CandadosAssumption
<1> QED
  BY <1>2 DEF Primera, Segunda

-------------------------------------------------------------------------------
LEMMA TipoInicial == Init => TypeOK
<1> SUFFICES ASSUME Init PROVE TypeOK
  OBVIOUS
<1>1. pedidos \in 0..MaxPedidos
  BY CandadosAssumption DEF Init
<1>2. borrado \in BOOLEAN
  BY DEF Init
<1> QED
  BY <1>1, <1>2 DEF Init, TypeOK

LEMMA TipoCandado ==
  ASSUME TypeOK, NEW k, NEW d \in Direcciones, ObtenerCandado(k, d)
  PROVE  /\ dict' \in [Claves -> Direcciones \cup {Nulo}]
         /\ mutex' \in [Direcciones -> Hilos \cup {"libre", "nada"}]
BY DEF TypeOK, ObtenerCandado

LEMMA TipoPaso == TypeOK /\ [Next]_vars => TypeOK'
<1> SUFFICES ASSUME TypeOK, [Next]_vars PROVE TypeOK'
  OBVIOUS
<1> USE DEF Ir, entorno
<1>1. CASE UNCHANGED vars
  BY <1>1 DEF vars, TypeOK
<1>2. ASSUME NEW h \in Hilos, Pedir(h) PROVE TypeOK'
  BY <1>2, CandadosAssumption DEF Pedir, TypeOK
<1>3. ASSUME NEW h \in Hilos, Obtener(h) PROVE TypeOK'
  <2>1. PICK d \in Direcciones : /\ ObtenerCandado(Primera(pedido[h]), d)
                                 /\ a' = [a EXCEPT ![h] = d]
    BY <1>3 DEF Obtener
  <2> QED
    BY <1>3, <2>1, TipoCandado DEF Obtener, TypeOK
<1>4. ASSUME NEW h \in Hilos, ObtenerB(h) PROVE TypeOK'
  <2>1. PICK d \in Direcciones : /\ ObtenerCandado(Segunda(pedido[h]), d)
                                 /\ b' = [b EXCEPT ![h] = d]
    BY <1>4 DEF ObtenerB
  <2> QED
    BY <1>4, <2>1, TipoCandado DEF ObtenerB, TypeOK
<1>5. ASSUME NEW h \in Hilos, Trabar(h) PROVE TypeOK'
  BY <1>5 DEF Trabar, Lock, TypeOK
<1>6. ASSUME NEW h \in Hilos, TrabarB(h) PROVE TypeOK'
  BY <1>6 DEF TrabarB, Lock, TypeOK
<1>7. ASSUME NEW h \in Hilos, SoltarB(h) PROVE TypeOK'
  BY <1>7 DEF SoltarB, Unlock, TypeOK
<1>8. ASSUME NEW h \in Hilos, Soltar(h) PROVE TypeOK'
  BY <1>8 DEF Soltar, Unlock, Terminar, TypeOK
<1>9. ASSUME NEW h \in Hilos, Quitar(h) PROVE TypeOK'
  BY <1>9 DEF Quitar, Terminar, TypeOK
<1> QED
  BY <1>1, <1>2, <1>3, <1>4, <1>5, <1>6, <1>7, <1>8, <1>9 DEF Next, Hilo

\* The variables keep their types: a thread's pointers are addresses or NULL, and a mutex
\* is held by a thread, free or destroyed.
THEOREM TipoCandados == Spec => []TypeOK
BY TipoInicial, TipoPaso, PTL DEF Spec

-------------------------------------------------------------------------------
\* A new pointer is one nobody has: malloc does not return what is alive.
LEMMA CandadoVivo ==
  ASSUME TypeOK, DiccionarioVivo, NEW k \in Claves, NEW d \in Direcciones,
         ObtenerCandado(k, d)
  PROVE  /\ DiccionarioVivo'
         /\ dict'[k] = d
         /\ \A j \in Claves : dict[j] # Nulo => dict'[j] = dict[j]
         /\ \A j \in Claves : dict[j] # Nulo => mutex'[dict[j]] = mutex[dict[j]]
BY CandadosAssumption DEF TypeOK, DiccionarioVivo, ObtenerCandado

\* Locking and unlocking neither destroy a mutex nor bring one back.
LEMMA CandadosTocados ==
  ASSUME TypeOK, DiccionarioVivo, UNCHANGED dict, NEW h \in Hilos, NEW d,
         Lock(h, d) \/ mutex' = Unlock(mutex, d)
  PROVE  DiccionarioVivo'
BY CandadosAssumption DEF TypeOK, DiccionarioVivo, Lock, Unlock

LEMMA DiccionarioPaso ==
  TypeOK /\ DiccionarioVivo /\ (\A h \in Hilos : Recorrido(h)) /\ [Next]_vars => DiccionarioVivo'
<1> SUFFICES ASSUME TypeOK, DiccionarioVivo, \A h \in Hilos : Recorrido(h), [Next]_vars
             PROVE  DiccionarioVivo'
  OBVIOUS
<1>1. CASE UNCHANGED <<dict, mutex>>
  BY <1>1 DEF DiccionarioVivo
<1>2. ASSUME NEW h \in Hilos, Obtener(h) PROVE DiccionarioVivo'
  BY <1>2, ClavesDelPedido, CandadoVivo DEF Obtener, Recorrido
<1>3. ASSUME NEW h \in Hilos, ObtenerB(h) PROVE DiccionarioVivo'
  BY <1>3, ClavesDelPedido, CandadoVivo DEF ObtenerB, Recorrido
<1>4. ASSUME NEW h \in Hilos, Trabar(h) \/ TrabarB(h) \/ SoltarB(h) \/ Soltar(h)
      PROVE  DiccionarioVivo'
  BY <1>4, CandadosTocados DEF Trabar, TrabarB, SoltarB, Soltar
<1>5. ASSUME NEW h \in Hilos, Quitar(h) PROVE DiccionarioVivo'
  <2>1. pedido[h].f \in Claves
    BY <1>5, ClavesDelPedido DEF Quitar, Recorrido
  <2> QED
    BY <1>5, <2>1, CandadosAssumption DEF Quitar, DiccionarioVivo, TypeOK
<1> QED
  BY <1>1, <1>2, <1>3, <1>4, <1>5 DEF Next, Hilo, vars, Pedir

-------------------------------------------------------------------------------
\* A step of one thread leaves the others where they were.
LEMMA Ajenos ==
  ASSUME TypeOK, NEW h \in Hilos, Pedir(h) \/ Hilo(h), NEW g \in Hilos, g # h
  PROVE  /\ pc'[g] = pc[g] /\ pedido'[g] = pedido[g]
         /\ a'[g] = a[g] /\ b'[g] = b[g] /\ mezcla' = mezcla
BY DEF TypeOK, Hilo, Pedir, Obtener, ObtenerB, Trabar, TrabarB, SoltarB, Soltar, Quitar, Ir,
       Terminar, entorno

LEMMA RecorridoPropio ==
  ASSUME TypeOK, NEW h \in Hilos, Recorrido(h), Pedir(h) \/ Hilo(h)
  PROVE  Recorrido(h)'
<1> USE CandadosAssumption DEF TypeOK, Recorrido, ConCandado, Ir, entorno
<1>1. CASE Pedir(h)
  BY <1>1 DEF Pedir
<1>2. CASE Obtener(h)
  <2>1. pedido[h].op # "TAG" => pedido[h].op \in {"UNO", "DELETE"}
    BY <1>2, ClavesDelPedido DEF Obtener
  <2> QED
    BY <1>2, <2>1 DEF Obtener
<1>3. CASE ObtenerB(h)
  BY <1>3 DEF ObtenerB
<1>4. CASE Trabar(h)
  BY <1>4 DEF Trabar
<1>5. CASE TrabarB(h)
  BY <1>5 DEF TrabarB
<1>6. CASE SoltarB(h)
  BY <1>6 DEF SoltarB
<1>7. CASE Soltar(h)
  BY <1>7 DEF Soltar, Terminar
<1>8. CASE Quitar(h)
  BY <1>8 DEF Quitar, Terminar
<1> QED
  BY <1>1, <1>2, <1>3, <1>4, <1>5, <1>6, <1>7, <1>8 DEF Hilo

LEMMA RecorridoPaso ==
  TypeOK /\ (\A h \in Hilos : Recorrido(h)) /\ [Next]_vars => \A h \in Hilos : Recorrido(h)'
<1> SUFFICES ASSUME TypeOK, \A h \in Hilos : Recorrido(h), [Next]_vars, NEW g \in Hilos
             PROVE  Recorrido(g)'
  OBVIOUS
<1>1. CASE UNCHANGED vars
  BY <1>1 DEF vars, entorno, Recorrido
<1>2. ASSUME NEW h \in Hilos, Pedir(h) \/ Hilo(h) PROVE Recorrido(g)'
  <2>1. CASE g = h
    BY <1>2, <2>1, RecorridoPropio
  <2>2. CASE g # h
    BY <1>2, <2>2, Ajenos DEF Recorrido
  <2> QED
    BY <2>1, <2>2
<1> QED
  BY <1>1, <1>2 DEF Next

-------------------------------------------------------------------------------
\* The part of the invariant that a DELETE ends.
Excluyente == \A h \in Hilos : Vigentes(h) /\ Tenencia(h)

\* What a thread has in its power is of the dictionary, so its mutex is alive.
LEMMA EnPoderTiene ==
  ASSUME TypeOK, NEW h \in Hilos, Recorrido(h), Vigentes(h), NEW k \in EnPoder(h)
  PROVE  k \in Claves /\ dict[k] # Nulo
<1>1. pc[h] \in {"trabar_b", "seccion"} /\ a[h] # Nulo /\ pedido[h] \in mezcla
  BY DEF EnPoder, Recorrido, ConCandado
<1>2. CASE k = Primera(pedido[h])
  BY <1>1, <1>2, ClavesDelPedido DEF Vigentes
<1>3. CASE k = Segunda(pedido[h]) /\ b[h] # Nulo
  BY <1>1, <1>3, ClavesDelPedido DEF Vigentes, Recorrido
<1> QED
  BY <1>1, <1>2, <1>3 DEF EnPoder

\* Looking a mutex up moves no other: who has one keeps it.
LEMMA ObtenerNoQuita ==
  ASSUME TypeOK, DiccionarioVivo, NEW g \in Hilos, Recorrido(g), Vigentes(g), Tenencia(g),
         NEW k \in Claves, NEW d \in Direcciones, ObtenerCandado(k, d),
         pc'[g] = pc[g], pedido'[g] = pedido[g], a'[g] = a[g], b'[g] = b[g]
  PROVE  Vigentes(g)' /\ Tenencia(g)'
<1>1. EnPoder(g)' = EnPoder(g)
  BY DEF EnPoder
<1>2. \A j \in EnPoder(g) : dict'[j] = dict[j] /\ mutex'[dict[j]] = mutex[dict[j]]
  BY EnPoderTiene, CandadoVivo
<1>3. Tenencia(g)'
  BY <1>1, <1>2 DEF Tenencia
<1>4. a[g] # Nulo => Primera(pedido[g]) \in Claves
  BY ClavesDelPedido DEF Recorrido, ConCandado
<1>5. b[g] # Nulo => Segunda(pedido[g]) \in Claves
  BY ClavesDelPedido DEF Recorrido
<1> QED
  BY <1>3, <1>4, <1>5, CandadoVivo DEF Vigentes

\* A step that changes one mutex takes it from nobody else, if nobody else had it.
LEMMA OtroCandado ==
  ASSUME TypeOK, NEW g \in Hilos, Vigentes(g), Tenencia(g), UNCHANGED dict,
         NEW d, NEW v, mutex[d] # g, mutex' = [mutex EXCEPT ![d] = v],
         \A k \in EnPoder(g) : k \in Claves /\ dict[k] # Nulo,
         pc'[g] = pc[g], pedido'[g] = pedido[g], a'[g] = a[g], b'[g] = b[g]
  PROVE  Vigentes(g)' /\ Tenencia(g)'
<1>1. EnPoder(g)' = EnPoder(g)
  BY DEF EnPoder
<1>2. \A k \in EnPoder(g) : mutex'[dict[k]] = mutex[dict[k]]
  BY DEF Tenencia, TypeOK
<1> QED
  BY <1>1, <1>2 DEF Vigentes, Tenencia

LEMMA PedirExcluye ==
  ASSUME InvCandados, Excluyente, NEW h \in Hilos, Pedir(h)
  PROVE  Excluyente'
<1> SUFFICES ASSUME NEW g \in Hilos PROVE Vigentes(g)' /\ Tenencia(g)'
  BY DEF Excluyente
<1>1. CASE g = h
  BY <1>1 DEF Pedir, Ir, InvCandados, TypeOK, Recorrido, ConCandado, Vigentes, Tenencia, EnPoder
<1>2. CASE g # h
  <2>1. EnPoder(g)' = EnPoder(g)
    BY <1>2, Ajenos DEF InvCandados, EnPoder
  <2> QED
    BY <1>2, <2>1, Ajenos, ZenonT(40) DEF InvCandados, Pedir, Excluyente, Vigentes, Tenencia
<1> QED
  BY <1>1, <1>2

LEMMA ObtenerExcluye ==
  ASSUME InvCandados, Excluyente, NEW h \in Hilos, Obtener(h) \/ ObtenerB(h)
  PROVE  Excluyente'
<1> SUFFICES ASSUME NEW g \in Hilos PROVE Vigentes(g)' /\ Tenencia(g)'
  BY DEF Excluyente
<1>1. pedido[h] \in mezcla /\ pc'[h] \notin {"trabar_b", "seccion"} /\ pedido' = pedido
  BY DEF Obtener, ObtenerB, Ir, InvCandados, TypeOK, Recorrido
<1>2. PICK k \in Claves, d \in Direcciones :
        /\ ObtenerCandado(k, d)
        /\ \/ Obtener(h) /\ k = Primera(pedido[h]) /\ a' = [a EXCEPT ![h] = d] /\ b' = b
           \/ ObtenerB(h) /\ k = Segunda(pedido[h]) /\ b' = [b EXCEPT ![h] = d] /\ a' = a
  BY <1>1, ClavesDelPedido DEF Obtener, ObtenerB, InvCandados, Recorrido
<1>3. CASE g # h
  BY <1>2, <1>3, ObtenerNoQuita, Ajenos DEF InvCandados, Excluyente, Hilo
<1>4. CASE g = h
  <2>1. Tenencia(h)'
    BY <1>1 DEF Tenencia, EnPoder
  <2>2. dict'[k] = d /\ \A j \in Claves : dict[j] # Nulo => dict'[j] = dict[j]
    BY <1>2, CandadoVivo DEF InvCandados
  <2>3. CASE Obtener(h)
    <3>1. a'[h] = d /\ k = Primera(pedido[h]) /\ b'[h] = Nulo
      BY <1>2, <2>3 DEF Obtener, ObtenerB, InvCandados, TypeOK, Recorrido
    <3> QED
      BY <1>1, <1>4, <2>1, <2>2, <3>1 DEF Vigentes
  <2>4. CASE ObtenerB(h)
    <3>1. b'[h] = d /\ k = Segunda(pedido[h]) /\ a'[h] = a[h]
      BY <1>2, <2>4 DEF Obtener, ObtenerB, InvCandados, TypeOK
    <3>2. Primera(pedido[h]) \in Claves
      BY <1>1, ClavesDelPedido DEF InvCandados
    <3> QED
      BY <1>1, <1>4, <2>1, <2>2, <3>1, <3>2 DEF Vigentes, Excluyente
  <2> QED
    BY <1>4, <2>3, <2>4
<1> QED
  BY <1>3, <1>4

\* A lock step waits for a free mutex: what it waits for is alive.
LEMMA TrabarExcluye ==
  ASSUME InvCandados, Excluyente, NEW h \in Hilos, Trabar(h)
  PROVE  Excluyente'
<1> SUFFICES ASSUME NEW g \in Hilos PROVE Vigentes(g)' /\ Tenencia(g)'
  BY DEF Excluyente
<1>1. a[h] # Nulo /\ a[h] = dict[Primera(pedido[h])] /\ Primera(pedido[h]) \in Claves
  BY ClavesDelPedido DEF Trabar, InvCandados, Recorrido, ConCandado, Excluyente, Vigentes
<1>2. mutex[a[h]] = "libre" /\ mutex' = [mutex EXCEPT ![a[h]] = h] /\ a[h] \in Direcciones
  BY <1>1 DEF Trabar, Lock, InvCandados, DiccionarioVivo, TypeOK
<1>3. CASE g # h
  <2>1. \A k \in EnPoder(g) : k \in Claves /\ dict[k] # Nulo
    BY EnPoderTiene DEF InvCandados, Excluyente
  <2>2. TypeOK /\ Vigentes(g) /\ Tenencia(g) /\ UNCHANGED dict /\ mutex[a[h]] # g
    BY <1>2, <1>3, CandadosAssumption DEF InvCandados, Excluyente, Trabar
  <2>3. pc'[g] = pc[g] /\ pedido'[g] = pedido[g] /\ a'[g] = a[g] /\ b'[g] = b[g]
    BY <1>3, Ajenos DEF InvCandados, Hilo
  <2> QED
    BY <1>2, <2>1, <2>2, <2>3, OtroCandado
<1>4. CASE g = h
  <2>1. a' = a /\ b' = b /\ pedido' = pedido /\ dict' = dict /\ mutex'[a[h]] = h
    BY <1>2 DEF Trabar, InvCandados, TypeOK
  <2>2. Vigentes(h)'
    BY <2>1 DEF Vigentes, Excluyente
  <2>3. pc'[h] = "seccion" => b[h] = Nulo
    BY DEF Trabar, Ir, InvCandados, TypeOK, Recorrido
  <2>4. EnPoder(h)' \subseteq {Primera(pedido[h])}
    BY <2>1, <2>3 DEF Trabar, Ir, InvCandados, TypeOK, EnPoder
  <2> QED
    BY <1>1, <1>4, <2>1, <2>2, <2>3, <2>4 DEF Tenencia
<1> QED
  BY <1>3, <1>4

\* The second mutex is not the first one: a thread does not get past one it holds.
LEMMA TrabarBExcluye ==
  ASSUME InvCandados, Excluyente, NEW h \in Hilos, TrabarB(h)
  PROVE  Excluyente'
<1> SUFFICES ASSUME NEW g \in Hilos PROVE Vigentes(g)' /\ Tenencia(g)'
  BY DEF Excluyente
<1>1. /\ b[h] # Nulo /\ b[h] = dict[Segunda(pedido[h])] /\ Segunda(pedido[h]) \in Claves
      /\ mutex[dict[Primera(pedido[h])]] = h
  BY ClavesDelPedido
  DEF TrabarB, InvCandados, Recorrido, Excluyente, Vigentes, Tenencia, EnPoder
<1>2. mutex[b[h]] = "libre" /\ mutex' = [mutex EXCEPT ![b[h]] = h] /\ b[h] \in Direcciones
  BY <1>1 DEF TrabarB, Lock, InvCandados, DiccionarioVivo, TypeOK
<1>3. CASE g # h
  <2>1. \A k \in EnPoder(g) : k \in Claves /\ dict[k] # Nulo
    BY EnPoderTiene DEF InvCandados, Excluyente
  <2>2. TypeOK /\ Vigentes(g) /\ Tenencia(g) /\ UNCHANGED dict /\ mutex[b[h]] # g
    BY <1>2, <1>3, CandadosAssumption DEF InvCandados, Excluyente, TrabarB
  <2>3. pc'[g] = pc[g] /\ pedido'[g] = pedido[g] /\ a'[g] = a[g] /\ b'[g] = b[g]
    BY <1>3, Ajenos DEF InvCandados, Hilo
  <2> QED
    BY <1>2, <2>1, <2>2, <2>3, OtroCandado
<1>4. CASE g = h
  <2>1. a' = a /\ b' = b /\ pedido' = pedido /\ dict' = dict /\ mutex'[b[h]] = h
    BY <1>2 DEF TrabarB, InvCandados, TypeOK
  <2>2. Vigentes(h)'
    BY <2>1 DEF Vigentes, Excluyente
  <2>3. dict[Primera(pedido[h])] # b[h]
    BY <1>1, <1>2, CandadosAssumption
  <2>4. mutex'[dict[Primera(pedido[h])]] = h
    BY <1>1, <1>2, <2>3 DEF InvCandados, TypeOK
  <2>5. EnPoder(h)' \subseteq {Primera(pedido[h]), Segunda(pedido[h])}
    BY <2>1 DEF TrabarB, Ir, InvCandados, TypeOK, EnPoder
  <2> QED
    BY <1>1, <1>4, <2>1, <2>2, <2>3, <2>4, <2>5 DEF Tenencia
<1> QED
  BY <1>3, <1>4

\* An unlock gives back a mutex of its own.
LEMMA SoltarBExcluye ==
  ASSUME InvCandados, Excluyente, NEW h \in Hilos, SoltarB(h)
  PROVE  Excluyente'
<1> SUFFICES ASSUME NEW g \in Hilos PROVE Vigentes(g)' /\ Tenencia(g)'
  BY DEF Excluyente
<1>1. /\ b[h] = dict[Segunda(pedido[h])] /\ mutex[b[h]] = h
      /\ Primera(pedido[h]) # Segunda(pedido[h])
      /\ Primera(pedido[h]) \in Claves /\ Segunda(pedido[h]) \in Claves
      /\ mutex[dict[Primera(pedido[h])]] = h
  BY ClavesDelPedido DEF SoltarB, InvCandados, Recorrido, Excluyente, Vigentes, Tenencia, EnPoder
<1>2. mutex' = [mutex EXCEPT ![b[h]] = "libre"]
  BY <1>1, CandadosAssumption DEF SoltarB, Unlock
<1>3. CASE g # h
  <2>1. \A k \in EnPoder(g) : k \in Claves /\ dict[k] # Nulo
    BY EnPoderTiene DEF InvCandados, Excluyente
  <2>2. TypeOK /\ Vigentes(g) /\ Tenencia(g) /\ UNCHANGED dict /\ mutex[b[h]] # g
    BY <1>1, <1>2, <1>3 DEF InvCandados, Excluyente, SoltarB
  <2>3. pc'[g] = pc[g] /\ pedido'[g] = pedido[g] /\ a'[g] = a[g] /\ b'[g] = b[g]
    BY <1>3, Ajenos DEF InvCandados, Hilo
  <2> QED
    BY <1>2, <2>1, <2>2, <2>3, OtroCandado
<1>4. CASE g = h
  <2>1. a' = a /\ b'[h] = Nulo /\ pedido' = pedido /\ dict' = dict /\ pc' = pc
    BY DEF SoltarB, InvCandados, TypeOK
  <2>2. dict[Primera(pedido[h])] # b[h]
    BY <1>1 DEF SoltarB, InvCandados, DiccionarioVivo
  <2>3. mutex'[dict[Primera(pedido[h])]] = h
    BY <1>1, <1>2, <2>2 DEF InvCandados, TypeOK
  <2>4. EnPoder(h)' = {Primera(pedido[h])}
    BY <2>1 DEF SoltarB, EnPoder
  <2> QED
    BY <1>4, <2>1, <2>3, <2>4 DEF Vigentes, Tenencia, Excluyente
<1> QED
  BY <1>3, <1>4

LEMMA SoltarExcluye ==
  ASSUME InvCandados, Excluyente, NEW h \in Hilos, Soltar(h)
  PROVE  Excluyente'
<1> SUFFICES ASSUME NEW g \in Hilos PROVE Vigentes(g)' /\ Tenencia(g)'
  BY DEF Excluyente
<1>1. a[h] = dict[Primera(pedido[h])] /\ mutex[a[h]] = h
  BY DEF Soltar, InvCandados, Recorrido, ConCandado, Excluyente, Vigentes, Tenencia, EnPoder
<1>2. mutex' = [mutex EXCEPT ![a[h]] = "libre"]
  BY <1>1, CandadosAssumption DEF Soltar, Unlock
<1>3. CASE g # h
  <2>1. \A k \in EnPoder(g) : k \in Claves /\ dict[k] # Nulo
    BY EnPoderTiene DEF InvCandados, Excluyente
  <2>2. TypeOK /\ Vigentes(g) /\ Tenencia(g) /\ UNCHANGED dict /\ mutex[a[h]] # g
    BY <1>1, <1>2, <1>3 DEF InvCandados, Excluyente, Soltar
  <2>3. pc'[g] = pc[g] /\ pedido'[g] = pedido[g] /\ a'[g] = a[g] /\ b'[g] = b[g]
    BY <1>3, Ajenos DEF InvCandados, Hilo
  <2> QED
    BY <1>2, <2>1, <2>2, <2>3, OtroCandado
<1>4. CASE g = h
  <2>1. a'[h] = Nulo /\ b'[h] = Nulo /\ pc'[h] \in {"quitar", "libre"}
    BY DEF Soltar, Terminar, Ir, InvCandados, TypeOK
  <2>2. EnPoder(h)' = {}
    BY <2>1 DEF EnPoder
  <2> QED
    BY <1>4, <2>1, <2>2 DEF Vigentes, Tenencia
<1> QED
  BY <1>3, <1>4

-------------------------------------------------------------------------------
LEMMA InvInicial == Init => InvCandados
<1> SUFFICES ASSUME Init PROVE InvCandados
  OBVIOUS
<1>1. TypeOK
  BY TipoInicial
<1>2. DiccionarioVivo
  BY DEF Init, DiccionarioVivo
<1>3. ASSUME NEW h \in Hilos PROVE Recorrido(h) /\ Vigentes(h) /\ Tenencia(h)
  <2>1. pc[h] = "libre" /\ a[h] = Nulo /\ b[h] = Nulo
    BY DEF Init
  <2> QED
    BY <2>1 DEF Recorrido, ConCandado, Vigentes, Tenencia, EnPoder
<1> QED
  BY <1>1, <1>2, <1>3 DEF InvCandados

LEMMA InvPaso == InvCandados /\ [Next]_vars => InvCandados'
<1> SUFFICES ASSUME InvCandados, [Next]_vars PROVE InvCandados'
  OBVIOUS
<1>1. TypeOK' /\ DiccionarioVivo' /\ \A h \in Hilos : Recorrido(h)'
  BY TipoPaso, DiccionarioPaso, RecorridoPaso DEF InvCandados
<1>2. ASSUME ~borrado' PROVE Excluyente'
  <2>1. CASE UNCHANGED vars
    BY <1>2, <2>1
    DEF vars, entorno, InvCandados, Excluyente, Vigentes, Tenencia, EnPoder
  <2>2. ASSUME NEW h \in Hilos, Pedir(h) \/ Hilo(h) PROVE Excluyente'
    <3>1. ~Quitar(h) /\ Excluyente
      BY <1>2, <2>2 DEF Quitar, InvCandados, Excluyente, Hilo, Pedir, Obtener, ObtenerB, Trabar,
                        TrabarB, SoltarB, Soltar
    <3> QED
      BY <2>2, <3>1, PedirExcluye, ObtenerExcluye, TrabarExcluye, TrabarBExcluye,
         SoltarBExcluye, SoltarExcluye DEF Hilo
  <2> QED
    BY <2>1, <2>2 DEF Next
<1> QED
  BY <1>1, <1>2 DEF InvCandados, Excluyente

LEMMA InvSiempre == Spec => []InvCandados
BY InvInicial, InvPaso, PTL DEF Spec

\* The dictionary of get_or_create_file_mutex and remove_file_mutex hands out no mutex that
\* was destroyed, nor one for two file:tags, whatever the threads ask for and whatever
\* malloc returns.
THEOREM DiccionarioSano == Spec => []DiccionarioVivo
<1>1. InvCandados => DiccionarioVivo
  BY DEF InvCandados
<1> QED
  BY <1>1, InvSiempre, PTL

\* Until the first DELETE destroys a mutex, two threads never work on one file:tag: a TAG
\* onto itself only stops its own thread.
THEOREM ExclusionMutua == Spec => []ExclusionHastaBorrar
<1>1. InvCandados => ExclusionHastaBorrar
  <2> SUFFICES ASSUME InvCandados, ~borrado, NEW g \in Hilos, NEW h \in Hilos,
                      NEW k \in EnPoder(g) \cap EnPoder(h)
               PROVE  g = h
    BY DEF ExclusionHastaBorrar, Exclusion
  <2> QED
    BY DEF InvCandados, Tenencia
<1> QED
  BY <1>1, InvSiempre, PTL
===============================================================================
