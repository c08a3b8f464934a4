SPECIFICATION Spec
CONSTANTS
    Symbol = {s1, s2}
    Word <- MCWord
    Blank = ""
    StopWord = {"get"}
    Stem <- MCStem
    Begins <- MCBegins
    Texts <- MCTexts
CHECK_DEADLOCK FALSE
INVARIANT FindsWhatItSays
