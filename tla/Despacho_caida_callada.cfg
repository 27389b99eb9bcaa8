SPECIFICATION SpecJusta
CONSTANTS
    q1 = q1
    q2 = q2
    q3 = q3
    w1 = w1
    w2 = w2
    Ninguna = Ninguna
    Queries = {q1, q2}
    Workers = {w1, w2}
    Algoritmo = "FIFO"
    TiempoAging = FALSE
    PrioridadInicial <- PrioridadIgual
    QCsQueSeVan = {}
    VigiasLentas = {}
    Programa <- DosLineas
    SinArchivo = {}
    PuedeFallar = FALSE
    PuedenCaer = {w1}
CHECK_DEADLOCK FALSE
PROPERTIES
    CaidaAvisada
