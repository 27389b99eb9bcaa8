SPECIFICATION SpecJusta
CONSTANTS
    q1 = q1
    q2 = q2
    q3 = q3
    w1 = w1
    w2 = w2
    Ninguna = Ninguna
    Queries = {q1, q2}
    Workers = {w1}
    Algoritmo = "PRIORIDADES"
    TiempoAging = TRUE
    PrioridadInicial <- PrioridadAltaBaja
    QCsQueSeVan = {}
    VigiasLentas = {}
    Programa <- DosLineas
    SinArchivo = {}
    PuedeFallar = FALSE
    PuedenCaer = {}
CHECK_DEADLOCK FALSE
INVARIANTS
    ExitoCompleto
PROPERTIES
    TodaQueryTermina
    ImplementaCicloJusto
