SPECIFICATION Spec
CHECK_DEADLOCK FALSE
CONSTANTS
    Ids = {1, 2, 3, 4}
    Loops <- MCLoop
    Sockets = {s1, s2}
    MaxFaults = 2
    MaxEdits = 2
    Parts <- MCParts
    MaxChanges = 2
    Lists <- MCLists
    MaxActs = 3
    MaxErrors = 1
    Dialogs <- MCDialogs
    MaxTurns = 2
    MaxMishaps = 1
    Grids <- AllGrids
    MaxMoves = 3
    MaxTrouble = 1
    Machines <- MCMachines
    MaxEntries = 3
    MaxSlips = 1
INVARIANTS
    TypeOK
    OneSocket
    ConnectedIsAccepted
    NeverGivesUp
    LoopsKept
    SameVersionSameConfig
    
    HashTellsView
    RowsAsAsked
    ChoiceKept
    SpinnerEnds
    SavesAsMeant
    TypedStays
    WaitsForSave
    InputStays
    SavedAsTyped
    SpinsForAnswer
    
PROPERTIES
    Follows
    Replicates
    KeepsUp
    ClosesWhenSaved
    EndsUpShowing
