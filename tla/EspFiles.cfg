\* Vim's task and the web server's, a directory of two files, two volumes
SPECIFICATION Spec
CONSTANTS
    vim = vim
    web = web
    fatA = fatA
    fatB = fatB
    sdA = sdA
    sdB = sdB
    fatAA = fatAA
    Tasks = {vim, web}
    Calls <- MCCalls
    Paths = {fatA, fatB, sdA, sdB}
    Entry <- MCEntry
    Volume <- MCVolume
    Trees <- MCTrees
    Dests = {fatA}
    Data = {d1, d2, d3}
    Firsts <- MCFirsts
    None = None
    Cut = Cut
    Torn = Torn
INVARIANTS
    DataKept
    NoCutFile
SYMMETRY MCSymmetry
