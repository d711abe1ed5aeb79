SPECIFICATION Spec
CONSTANTS
    Nobody = Nobody
    Creator = Nobody
    a = a  b = b  c = c
    Callers = {a, b, c}
    Length = 1
    MaxFailures = 1
SYMMETRY Interchangeable
INVARIANTS TypeOK MoneyFirst UnpaidWorkStops
PROPERTY GuardsHold
