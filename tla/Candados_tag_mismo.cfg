SPECIFICATION SpecJusta
CONSTANTS
    h1 = h1
    h2 = h2
    h3 = h3
    k1 = k1
    k2 = k2
    k3 = k3
    d1 = d1
    d2 = d2
    d3 = d3
    d4 = d4
    Nulo = Nulo
    Hilos = {h1, h2}
    Claves = {k1, k2}
    Direcciones = {d1, d2}
    Orden <- OrdenClaves
    Mezclas <- MezclaTagMismo
    MaxPedidos = 2
CHECK_DEADLOCK FALSE
PROPERTIES
    TodosTerminan
