SPECIFICATION Spec
CONSTANTS
    h1 = h1
    h2 = h2
    base = base
    f1 = f1
    f2 = f2
    f3 = f3
    x1 = x1
    x2 = x2
    cero = cero
    vacio = vacio
    Nadie = Nadie
    Hilos = {h1, h2}
    Archivos = {base, f1, f2}
    Base = base
    Cero = cero
    Vacio = vacio
    Contenidos = {cero, vacio, x1}
    NBloques = 4
    NNodos = 4
    MaxPaginas = 1
    Mezclas <- MezclaDeleteDedup
    YaCreados = {f1, f2}
    MaxPedidos = 5
    MaxCaidas = 0
CHECK_DEADLOCK FALSE
INVARIANTS
    MetadataFiel
