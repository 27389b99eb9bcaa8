SPECIFICATION SpecJusta
CONSTANTS
    q1 = q1
    q2 = q2
    q3 = q3
    w1 = w1
    w2 = w2
    Ninguna = Ninguna
    Queries = {q1, q2, q3}
    Workers = {w1, w2}
    Algoritmo = "FIFO"
    TiempoAging = FALSE
    PrioridadInicial <- PrioridadIgual
    QCsQueSeVan = {}
    VigiasLentas = {q1}
    Programa <- UnaLinea
    SinArchivo = {}
    PuedeFallar = FALSE
    PuedenCaer = {}
CHECK_DEADLOCK FALSE
INVARIANTS
    TypeOK
    NuncaCae
    TokensConservados
PROPERTIES
    TodaQueryTermina
