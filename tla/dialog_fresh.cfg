SPECIFICATION DialogSpec
CONSTANTS
    ed = ed
    ann = ann
    adm = adm
    NoUser = NoUser
    Group <- MCGroup
    PhaseOrder <- MCPhaseOrder
    Declared <- MCDeclared
    User <- MCUser
    Username <- MCUsername
    Impersonator <- MCImpersonator
    Membership <- MCMembership
    MaxStates = 6
    Pages = {"django"}
    Slow = {}
    Unstable = {}
    Deletable = {}
PROPERTIES
    HandOversReachEditors
    StrictReleaseHonoured
    LabelsTell
