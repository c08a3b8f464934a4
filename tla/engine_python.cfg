SPECIFICATION Spec
CONSTANTS
    ed = ed
    ann = ann
    adm = adm
    NoUser = NoUser
    Group <- MCGroup
    PhaseOrder <- MCPhaseOrder
    Declared <- MCDeclared
    User <- MCUser
    Username <- MCUsername
    Impersonator <- MCImpersonator
    Membership <- MCMembership
    MaxStates = 3
    Unstable = {ann}
    Deletable = {adm}
INVARIANTS
    TypeOK
    PhaseMovesByHolder
    SuspendedFrozen
    AdminCanRecover
    EditorCanReclaim
    FreeCanBeTaken
    OfferedIsAllowed
    RejectIsAllowed
PROPERTIES
    OwnerLetsGo
