SPECIFICATION Spec
CONSTANTS
    Calls = {1, 2, 3}
    None = None
INVARIANT OnlySafeShared
PROPERTY AllAnswered
