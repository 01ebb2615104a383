SPECIFICATION Spec
SYMMETRY Symmetry
CONSTANTS
    Invocations = {a, b}
    Keys = {1, 2}
    Bastion = TRUE
    None = None
    a = a
    b = b
INVARIANTS
    Exclusive
