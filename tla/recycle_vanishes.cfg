SPECIFICATION Spec
CONSTANTS
    i1 = i1
    i2 = i2
    w1 = w1
    Item = {i1, i2}
    Worker = {w1}
    Misnamed = FALSE

PROPERTY StaysInBin
