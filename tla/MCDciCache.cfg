SPECIFICATION Spec
CONSTANTS
    Keys = {"plain", "set"}
    SetKeys = {"set"}
    None = None
    Blocks <- TwoBranches
    Elements = {x, y}
INVARIANT
    TypeOK
PROPERTY
    ImplementsBlockMap
