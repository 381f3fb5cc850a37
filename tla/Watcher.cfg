SPECIFICATION Spec
CONSTANTS
    Settings = {s0, s1}
    FilesAtStart = {0, 1}
    MaxBuilds = 2
    MaxDeletes = 1
    MaxConfigEdits = 2
    LowerCase = TRUE
    Worlds = {"rough", "calm"}
CHECK_DEADLOCK FALSE
INVARIANT
    TypeOK
    RecordsAgree
PROPERTY
    BuildsNoticed
    EnabledConverges
