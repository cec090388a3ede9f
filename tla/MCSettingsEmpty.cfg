SPECIFICATION Spec
CONSTANTS
    Values <- MCValues
    Empty = ""
    OldVersion = "old"
    Missing = "missing"
    Defaults <- WithoutPassword
    OldValues <- OldFirmware
    Commands <- OtherName
    Garbage <- NoGarbage
PROPERTIES
    SavedSurvive
