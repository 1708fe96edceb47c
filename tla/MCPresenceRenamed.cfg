SPECIFICATION Spec
CONSTANTS
    a = a
    b = b
    Names = {a, b}
    Pairs = {"default", "agent"}
    DefaultPair = "default"
    MaxTurns = 4
SYMMETRY EitherName
PROPERTY RenamedIsRefused
CHECK_DEADLOCK FALSE
