SPECIFICATION DialogSpec
CONSTANTS
    ed = ed
    ann = ann
    adm = adm
    NoUser = NoUser
    Group <- OfficeGroup
    PhaseOrder <- OfficePhaseOrder
    Declared <- OfficeDeclared
    User <- MCUser
    Username <- MCUsername
    Impersonator <- MCImpersonator
    Membership <- OfficeMembership
    MaxStates = 5
    Pages = {"sebastian"}
    Slow = {}
    Unstable = {}
    Deletable = {}
PROPERTY StrictReleaseHonoured
