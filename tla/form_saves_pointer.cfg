SPECIFICATION Spec
SYMMETRY Symmetry
CONSTANTS
    Request = {r1, r2}
    Free = Free
    MaxPk = 3
    Nowait = TRUE
    Jobs = {"edit"}
INVARIANT PointerIsCurrent
