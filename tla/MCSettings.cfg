SPECIFICATION Spec
CONSTANTS
    Values <- MCValues
    Empty = ""
    OldVersion = "old"
    Missing = "missing"
    Defaults <- WithPassword
    OldValues <- OldFirmware
    Commands <- OpenNetwork
    Garbage <- AnyGarbage
INVARIANTS
    VersionMeansTexts
PROPERTIES
    LoadedSurvive
