CONSTANTS
    Pins = {"2.1.220"}
    Words = {"latest", "stable"}
    ImageRefs = {"debian"}
    Names = {"db", "log", "dns", "dev"}
    Keys = {"TERM"}
    Unset = ""
    Docs <- RefreshDocs
    Saved <- RefreshDocs
    Texts <- Dockerfiles
    FileStates <- FixedFiles
    Moving <- Lagging
    Artifacts = {""}
    Corefiled = {}
    MaxRuns = 3
    MaxMoves = 2
SPECIFICATION Spec
INVARIANTS RebuildRefreshes
CHECK_DEADLOCK FALSE
