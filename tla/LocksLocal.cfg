SPECIFICATION Spec
CONSTANTS
    Invocations = {a, b}
    Keys = {1, 2}
    Bastion = FALSE
    None = None
    a = a
    b = b
PROPERTIES
    AtomicSpec
