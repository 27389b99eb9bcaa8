SPECIFICATION Spec
CONSTANTS
    base = base
    f1 = f1
    f2 = f2
    copia = copia
    z = z
    a = a
    b = b
    w1 = w1
    w2 = w2
    q1 = q1
    q2 = q2
    Ninguna = Ninguna
    Libre = Libre
    Workers = {w1, w2}
    Queries = {q1}
    Archivos = {base, f1, f2, copia}
    Base = base
    Bytes = {z, a, b}
    ByteCero = z
    TamPagina = 2
    NMarcos <- MarcosDeCada
    Algoritmo <- UnoDeCada
    MaxPaginas = 2
    Mezclas <- MezclasTodas
    YaCreados = {f1, f2}
INVARIANTS
    TypeOK
    QuedanLasUltimas
    MarcosConsistentes
    BitsFieles
PROPERTIES
    ImplementaPlana
