SPECIFICATION Spec
CONSTANTS
    Nobody = Nobody
    Creator = Nobody
    a = a  b = b  c = c
    Callers = {a, b, c}
    Length = 1
    MaxFailures = 0
SYMMETRY Interchangeable
PROPERTY FinishedJobsStay
