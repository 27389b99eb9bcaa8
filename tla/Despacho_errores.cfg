SPECIFICATION Spec
CONSTANTS
    q1 = q1
    q2 = q2
    q3 = q3
    w1 = w1
    w2 = w2
    Ninguna = Ninguna
    Queries = {q1, q2, q3}
    Workers = {w1}
    Algoritmo = "PRIORIDADES"
    TiempoAging = FALSE
    PrioridadInicial <- PrioridadDispar
    QCsQueSeVan = {}
    VigiasLentas = {}
    Programa <- Fallidas
    SinArchivo = {q3}
    PuedeFallar = TRUE
    PuedenCaer = {}
CHECK_DEADLOCK FALSE
INVARIANTS
    RespuestaUnica
PROPERTIES
    NadaTrasElFinal
