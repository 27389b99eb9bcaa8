------------------------------- MODULE Candados -------------------------------
(***************************************************************************)
(* The mutexes of the file:tags in Storage: a dictionary of pointers that  *)
(* grows with the first operation on a file:tag (get_or_create_file_mutex) *)
(* and shrinks with its DELETE (remove_file_mutex).  An operation looks    *)
(* its mutex up, and only then locks it.  TAG locks two.                   *)
(*                                                                         *)
(* Both functions are one critical section of mutex_dict_locks, so one     *)
(* step.  What an operation does between lock and unlock is Bloques.       *)
(***************************************************************************)
EXTENDS Naturals, Sequences

CONSTANTS
    Hilos,       \* the threads that serve the Workers
    Claves,      \* the keys "<file>:<tag>"
    Orden,       \* Orden[k]: place of k in the order of strcmp
    Direcciones, \* what malloc may return for a mutex
    Mezclas,     \* sets of requests, of which a behaviour takes one: UNO locks one
                 \* file:tag, DELETE too, TAG locks two
    MaxPedidos,  \* bound: requests served
    Nulo         \* NULL

ASSUME CandadosAssumption ==
    /\ Orden \in [Claves -> Nat]
    /\ \A j, k \in Claves : Orden[j] = Orden[k] => j = k
    /\ Nulo \notin Direcciones
    /\ Hilos \cap {"libre", "nada"} = {}
    /\ MaxPedidos \in Nat
    /\ \A mz \in Mezclas : \A p \in mz :
            /\ p.op \in {"UNO", "DELETE", "TAG"}
            /\ p.f \in Claves
            /\ p.op = "TAG" => p.d \in Claves

VARIABLES
    mezcla,     \* the requests of this behaviour
    dict,       \* dict_locks_files
    mutex,      \* mutex[d]: the thread that holds it, "libre", or "nada" when freed
    pc,         \* the point each thread is at
    pedido,     \* the request it serves
    a, b,       \* the pointers it got: mutex_a and mutex_b (file_mutex is a)
    pedidos,    \* requests served (bound)
    borrado     \* history: some mutex was destroyed

entorno == <<mezcla, pedidos>>
vars == <<dict, mutex, pc, pedido, a, b, entorno, borrado>>

SinPedido == [op |-> "NINGUNO"]

Init ==
    /\ mezcla \in Mezclas
    /\ dict = [k \in Claves |-> Nulo]
    /\ mutex = [d \in Direcciones |-> "nada"]
    /\ pc = [h \in Hilos |-> "libre"]
    /\ pedido = [h \in Hilos |-> SinPedido]
    /\ a = [h \in Hilos |-> Nulo]
    /\ b = [h \in Hilos |-> Nulo]
    /\ pedidos = 0
    /\ borrado = FALSE

\* Mutant: TAG locks the origin, then the destination.
PrimeraSinOrden(p) == p.f

\* tag_file takes the lesser of its two names first.
Primera(p) == IF p.op # "TAG" THEN p.f
              ELSE IF Orden[p.f] < Orden[p.d] THEN p.f ELSE p.d
Segunda(p) == IF Primera(p) = p.f THEN p.d ELSE p.f

Ir(h, paso) == pc' = [pc EXCEPT ![h] = paso]

\* get_or_create_file_mutex; malloc may return an address that was freed.
ObtenerCandado(k, d) ==
    \/ dict[k] = d /\ UNCHANGED <<dict, mutex>>
    \/ /\ dict[k] = Nulo /\ mutex[d] = "nada"
       /\ dict' = [dict EXCEPT ![k] = d]
       /\ mutex' = [mutex EXCEPT ![d] = "libre"]

Pedir(h) == /\ pc[h] = "libre" /\ pedidos < MaxPedidos
            /\ \E p \in mezcla : pedido' = [pedido EXCEPT ![h] = p]
            /\ pedidos' = pedidos + 1
            /\ Ir(h, "obtener")
            /\ UNCHANGED <<mezcla, dict, mutex, a, b, borrado>>

Obtener(h) == /\ pc[h] = "obtener"
              /\ \E d \in Direcciones : /\ ObtenerCandado(Primera(pedido[h]), d)
                                        /\ a' = [a EXCEPT ![h] = d]
              /\ Ir(h, IF pedido[h].op = "TAG" THEN "obtener_b" ELSE "trabar")
              /\ UNCHANGED <<pedido, b, entorno, borrado>>

ObtenerB(h) == /\ pc[h] = "obtener_b"
               /\ \E d \in Direcciones : /\ ObtenerCandado(Segunda(pedido[h]), d)
                                         /\ b' = [b EXCEPT ![h] = d]
               /\ Ir(h, "trabar")
               /\ UNCHANGED <<pedido, a, entorno, borrado>>

\* Mutant: nobody waits.
LockSinEsperar(h, d) == mutex' = [mutex EXCEPT ![d] = h]

\* pthread_mutex_lock.  On a mutex already freed it may succeed, leaving no trace
\* another thread relies on, or block.
Lock(h, d) == \/ mutex[d] = "libre" /\ mutex' = [mutex EXCEPT ![d] = h]
              \/ mutex[d] = "nada" /\ UNCHANGED mutex

Trabar(h) == /\ pc[h] = "trabar"
             /\ Lock(h, a[h])
             /\ Ir(h, IF pedido[h].op = "TAG" THEN "trabar_b" ELSE "seccion")
             /\ UNCHANGED <<dict, pedido, a, b, entorno, borrado>>

TrabarB(h) == /\ pc[h] = "trabar_b"
              /\ Lock(h, b[h])
              /\ Ir(h, "seccion")
              /\ UNCHANGED <<dict, pedido, a, b, entorno, borrado>>

\* Mutant: the mutex is left with no state.
UnlockNulo(m, d) == [m EXCEPT ![d] = Nulo]

\* pthread_mutex_unlock does not look who holds a mutex of the default type.
Unlock(m, d) == IF m[d] = "nada" THEN m ELSE [m EXCEPT ![d] = "libre"]

\* The operation has done its work: mutex_b is released, then mutex_a.
SoltarB(h) == /\ pc[h] = "seccion" /\ pedido[h].op = "TAG" /\ b[h] # Nulo
              /\ mutex' = Unlock(mutex, b[h])
              /\ b' = [b EXCEPT ![h] = Nulo]
              /\ UNCHANGED <<dict, pc, pedido, a, entorno, borrado>>

Terminar(h) == Ir(h, "libre") /\ pedido' = [pedido EXCEPT ![h] = SinPedido]

Soltar(h) == /\ pc[h] = "seccion" /\ b[h] = Nulo
             /\ mutex' = Unlock(mutex, a[h])
             /\ a' = [a EXCEPT ![h] = Nulo]
             /\ IF pedido[h].op = "DELETE" THEN Ir(h, "quitar") /\ UNCHANGED pedido
                ELSE Terminar(h)
             /\ UNCHANGED <<dict, b, entorno, borrado>>

\* Mutant: the mutex is freed and its key stays in the dictionary.
QuitarSinSacar(h) == LET k == pedido[h].f IN
    /\ pc[h] = "quitar"
    /\ mutex' = IF dict[k] = Nulo THEN mutex ELSE [mutex EXCEPT ![dict[k]] = "nada"]
    /\ borrado' = TRUE
    /\ Terminar(h)
    /\ UNCHANGED <<dict, a, b, entorno>>

\* remove_file_mutex, once the file:tag is unlocked: whoever holds it or waits for it.
Quitar(h) == LET k == pedido[h].f IN
    /\ pc[h] = "quitar"
    /\ dict' = [dict EXCEPT ![k] = Nulo]
    /\ mutex' = IF dict[k] = Nulo THEN mutex ELSE [mutex EXCEPT ![dict[k]] = "nada"]
    /\ borrado' = TRUE
    /\ Terminar(h)
    /\ UNCHANGED <<a, b, entorno>>

Hilo(h) == Obtener(h) \/ ObtenerB(h) \/ Trabar(h) \/ TrabarB(h) \/ SoltarB(h) \/ Soltar(h)
           \/ Quitar(h)

Next == \E h \in Hilos : Pedir(h) \/ Hilo(h)

Spec == Init /\ [][Next]_vars

\* A thread that can go on does.  Nothing obliges a Worker to ask.
SpecJusta == Spec /\ \A h \in Hilos : WF_vars(Hilo(h))

-------------------------------------------------------------------------------
TypeOK ==
    /\ mezcla \in Mezclas /\ borrado \in BOOLEAN
    /\ dict \in [Claves -> Direcciones \cup {Nulo}]
    /\ mutex \in [Direcciones -> Hilos \cup {"libre", "nada"}]
    /\ pc \in [Hilos -> {"libre", "obtener", "obtener_b", "trabar", "trabar_b", "seccion",
                         "quitar"}]
    /\ pedido \in [Hilos -> mezcla \cup {SinPedido}]
    /\ a \in [Hilos -> Direcciones \cup {Nulo}] /\ b \in [Hilos -> Direcciones \cup {Nulo}]
    /\ pedidos \in 0..MaxPedidos

\* The file:tags a thread works on, or holds while it waits for the second.
EnPoder(h) ==
    CASE pc[h] = "trabar_b" -> {Primera(pedido[h])}
      [] pc[h] = "seccion" -> IF b[h] # Nulo THEN {Primera(pedido[h]), Segunda(pedido[h])}
                              ELSE {Primera(pedido[h])}
      [] OTHER -> {}

\* No two threads work on one file:tag at a time.
Exclusion == \A g, h \in Hilos : g # h => EnPoder(g) \cap EnPoder(h) = {}

\* The same while no DELETE has destroyed a mutex, whatever is created, tagged or about to
\* be deleted meanwhile.
ExclusionHastaBorrar == ~borrado => Exclusion

\* The dictionary never hands out a mutex that was destroyed, nor one mutex for two
\* file:tags.
DiccionarioVivo ==
    \A k \in Claves : dict[k] # Nulo =>
        /\ mutex[dict[k]] # "nada"
        /\ \A j \in Claves : dict[j] = dict[k] => j = k

\* Every request is served in the end, unless a DELETE destroys a mutex meanwhile: no
\* threads wait on each other, in whatever directions they TAG.
TodosTerminan ==
    \A h \in Hilos : (pc[h] = "obtener" /\ ~borrado) ~> (pc[h] = "libre" \/ borrado)
===============================================================================
