SPECIFICATION Spec
CONSTANTS
    PhaseName = {"draft", "done"}
    Handler = {"validate"}
    Text = {"preface"}
    PhaseKey = {"caption", "edit"}
    TransitionKey = {"groups"}
    PatchKeys = {"caption"}
    Value = {0, 1}
    Absent = 0
    Versions <- MCVersions
    MaxNumber = 3
    MaxEdits = 2
    MaxEntries = 3
CHECK_DEADLOCK FALSE
INVARIANTS
    CheckedIsReleased
    RecordedIsLogged
PROPERTIES
    VersionsRise
