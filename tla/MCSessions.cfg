\* Vim and one other task that opens files, three descriptors
SPECIFICATION SessionsSpec
CONSTANTS
    web = web
    NFds = 3
    Others = {web}
    Kinds = {"timer", "rest"}
    Sources = {"console", "keyboard"}
    None = None
    MaxFrames = 4
    DepthMax = 1
    Ids = {1, 2}
    Word = 16
    Header = 2
    Room = 10
    Budget = 5
    NoBlock = NoBlock
    MaxSegs = 3
    CwdMax = 10
    MaxLen = 4
INVARIANTS
    NothingLeft
    NoStrayStart
    HeapAccounts
    ConsoleIsUsable
    PathsAreKept
    StartsAfresh
    ComesBack
PROPERTIES
    ClosesOnlyVims
    ClosesItsOwn
