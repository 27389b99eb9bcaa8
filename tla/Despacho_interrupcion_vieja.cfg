SPECIFICATION Spec
CONSTANTS
    q1 = q1
    q2 = q2
    q3 = q3
    w1 = w1
    w2 = w2
    Ninguna = Ninguna
    Queries = {q1, q2}
    Workers = {w1}
    Algoritmo = "FIFO"
    TiempoAging = FALSE
    PrioridadInicial <- PrioridadIgual
    QCsQueSeVan = {q1}
    VigiasLentas = {q1}
    Programa <- DosLineas
    SinArchivo = {}
    PuedeFallar = FALSE
    PuedenCaer = {}
CHECK_DEADLOCK FALSE
INVARIANTS
    SoloSeVaLaDesconectada
