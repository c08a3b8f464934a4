SPECIFICATION Spec
CONSTANTS
    ed = ed
    ann = ann
    adm = adm
    NoUser = NoUser
    Group <- MCGroup
    PhaseOrder <- MCPhaseOrder
    Declared <- MCDeclared
    User <- MCUser
    Username <- MCUsername
    Impersonator <- MCImpersonator
    Membership <- MCMembership
    MaxStates = 3
    Unstable = {}
    Deletable = {}
PROPERTY HandOversReachEditors
