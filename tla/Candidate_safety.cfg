CONSTANTS
    Pins = {"2.1.220"}
    Words = {"latest", "stable"}
    ImageRefs = {"debian"}
    Names = {"db", "log", "dns", "dev"}
    Keys = {"TERM"}
    Unset = ""
    Docs <- AllDocs
    Saved <- Edited
    Texts <- Dockerfiles
    FileStates <- AllFiles
    Moving <- AllMoving
    Artifacts = {"", "with"}
    Corefiled = {"with"}
    MaxRuns = 2
    MaxMoves = 2
SPECIFICATION Spec
INVARIANTS RefusedForCause InputsRecorded ExtensionAgreed RefreshesItsOwn
PROPERTIES PullsOnlyMoved
CHECK_DEADLOCK FALSE
