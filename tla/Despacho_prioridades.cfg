SPECIFICATION Spec
CONSTANTS
    q1 = q1
    q2 = q2
    q3 = q3
    w1 = w1
    w2 = w2
    Ninguna = Ninguna
    Queries = {q1, q2, q3}
    Workers = {w1, w2}
    Algoritmo = "PRIORIDADES"
    TiempoAging = FALSE
    PrioridadInicial <- PrioridadAltaBaja
    QCsQueSeVan = {}
    VigiasLentas = {}
    Programa <- UnaLinea
    SinArchivo = {}
    PuedeFallar = FALSE
    PuedenCaer = {}
CHECK_DEADLOCK FALSE
SYMMETRY Iguales
INVARIANTS
    UnSoloLugar
    TokensConservados
    AsignacionExclusiva
    NuncaCae
    InstruccionesEnOrden
