SPECIFICATION Spec
SYMMETRY Symmetry
CONSTANTS
    Request = {r1, r2}
    Free = Free
    MaxPk = 4
    Nowait = TRUE
    Jobs = {"edit", "view", "mark", "fix"}
INVARIANTS
    LatestIsCurrent
    BackLinks
PROPERTIES
    FixMovesForward
