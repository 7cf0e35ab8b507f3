\* One task, and a path spelled in two ways
SPECIFICATION Spec
CONSTANTS
    vim = vim
    web = web
    fatA = fatA
    fatB = fatB
    sdA = sdA
    sdB = sdB
    fatAA = fatAA
    Tasks = {vim}
    Calls <- MCCaller
    Paths = {fatA, fatAA, fatB, sdA}
    Entry <- MCEntry
    Volume <- MCVolume
    Trees <- MCSpelled
    Dests = {fatA}
    Data = {d1, d2, d3}
    Firsts <- MCFirsts
    None = None
    Cut = Cut
    Torn = Torn
PROPERTIES
    CopyKeepsSource
