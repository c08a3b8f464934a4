SPECIFICATION DialogSpec
CONSTANTS
    ed = ed
    ann = ann
    adm = adm
    NoUser = NoUser
    Group <- OfficeGroup
    PhaseOrder <- OfficePhaseOrder
    Declared <- OfficeDeclared
    User <- MCUser
    Username <- MCUsername
    Impersonator <- MCImpersonator
    Membership <- AdminsMembership
    MaxStates = 3
    Unstable = {}
    Deletable = {}
    Pages = {"django", "sebastian"}
    Slow = {ann}
INVARIANTS
    DialogTypeOK
    SuspendedIsHeld
    TakenWithReason
    RepostRefused
