\* Boards with and without a button and a battery, and both idle times
SPECIFICATION FairSpec
CONSTANTS
    Boards <- MCBoards
    IdleMins = {0, 1}
    DeepMins = {0, 4}
    WakeSecs = {0, 3}
    BatEvery = 3
    IdleCap = 1
    AsleepCap = 4
INVARIANTS
    LosesNothing
    NoOversleep
PROPERTIES
    KeepsPromise
    PressesAreSpent
    DueSleepComes
