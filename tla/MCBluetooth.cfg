\* Two keyboards, Vim and the power task; a list of two and a queue of two
SPECIFICATION AllSpec
CONSTANTS
    vim = vim
    power = power
    Kbds = {k1, k2}
    Takers = {vim, power}
    Ops <- MCOps
    None = None
    MaxKbd = 2
    QueueCap = 2
INVARIANTS
    NoDanglingDev
    NeverWaitsAlone
    DoesWhatItSays
PROPERTIES
    QuietAsleep
