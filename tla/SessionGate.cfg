SPECIFICATION Spec
CONSTANTS
    Plugins = {p1, p2}
    MaxStates = 2
INVARIANTS
    TypeOK
    NoReloadDuringConstruction
    CountedButForHandoff
    CallbacksMapped
    EventsMatchMissions
PROPERTIES
    GateProgress
    EventsKeepPromise
