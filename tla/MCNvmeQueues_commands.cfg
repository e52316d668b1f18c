\* Rings of four entries that wrap, identifiers that are used again.
SPECIFICATION Spec
CONSTANTS
    AdminEntries = 7
    IoEntries = 4
    MaxID = 4
    FirstIDs = {3, 65535}
    MaxRequest = 2
    Depth = 3
    MaxIO = 5
INVARIANTS OnePlace PhaseInStep
PROPERTIES TakenInOrder IsChannel
