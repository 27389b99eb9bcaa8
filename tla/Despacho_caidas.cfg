SPECIFICATION Spec
CONSTANTS
    q1 = q1
    q2 = q2
    q3 = q3
    w1 = w1
    w2 = w2
    Ninguna = Ninguna
    Queries = {q1, q2}
    Workers = {w1, w2}
    Algoritmo = "PRIORIDADES"
    TiempoAging = FALSE
    PrioridadInicial <- PrioridadAltaBaja
    QCsQueSeVan = {}
    VigiasLentas = {}
    Programa <- SinLecturas
    SinArchivo = {}
    PuedeFallar = FALSE
    PuedenCaer = {w1, w2}
CHECK_DEADLOCK FALSE
SYMMETRY WorkersIguales
INVARIANTS
    TokensConservados
    InstruccionesEnOrden
