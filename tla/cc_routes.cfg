CONSTANTS
    MaxRoutes = 3
    Billed = {1, 3}
SPECIFICATION Spec
INVARIANT TriedOneByOne
CHECK_DEADLOCK FALSE
