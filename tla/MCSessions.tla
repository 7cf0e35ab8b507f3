------------------------------ MODULE MCSessions ------------------------------
(***************************************************************************)
(* What Vim's task stands on: sessions and the supervisor, the heap, the     *)
(* console, paths, and Python with the values that go to and fro.  One run    *)
(* takes them in turn: part, chosen at the start, says which one moves.       *)
(***************************************************************************)
EXTENDS VimSession

CONSTANTS MaxFrames, DepthMax, Ids, Word, Header, Room, Budget, NoBlock, MaxSegs, CwdMax, MaxLen

VARIABLES
    part,
    blocks, used, budget, lowered,                                              \* VimHeap
    display, vim, serial, extra, ready, mirror, off, saved, spins, long, unsaved,   \* VimConsole
    cwd,                                                                        \* VimPaths
    session, sessionKnown, started, depth, sink, trylevel, stack, objs, owner, broken,  \* EspPy
    place, val                                                                  \* EspPyValues

Heap == INSTANCE VimHeap

ASSUME HeapIsSized == Heap!HeapAssumption

Console == INSTANCE VimConsole WITH shown <- spins
Directories == INSTANCE VimPaths

ASSUME PathsHaveRoom == Directories!PathsAssumption

Py == INSTANCE EspPy
Values == INSTANCE EspPyValues

heapVars == <<blocks, used, budget, lowered>>
consoleVars == <<display, vim, serial, extra, ready, mirror, off, saved, spins, long, unsaved>>
pyVars == <<session, sessionKnown, started, depth, sink, trylevel, stack, objs, owner, broken>>
valueVars == <<place, val>>
others == <<heapVars, consoleVars, cwd, pyVars, valueVars>>
allVars == <<part, vars, others>>

SessionsInit ==
    /\ part \in {"session", "heap", "console", "paths", "py", "values"}
    /\ Init /\ Heap!Init /\ Console!Init /\ Directories!Init /\ Py!Init /\ Values!Init
    /\ part = "session" \/ real = [f \in Fds |-> None]
    /\ part = "console" \/ ~display
    /\ part = "values" \/ val = Values!Of("special", "none")

Moves(who) == part = who /\ UNCHANGED part

SessionsNext ==
    \/ Moves("session") /\ Next /\ UNCHANGED others
    \/ Moves("heap") /\ Heap!Next /\ UNCHANGED <<vars, consoleVars, cwd, pyVars, valueVars>>
    \/ Moves("console") /\ Console!Next /\ UNCHANGED <<vars, heapVars, cwd, pyVars, valueVars>>
    \/ Moves("paths") /\ Directories!Next
        /\ UNCHANGED <<vars, heapVars, consoleVars, pyVars, valueVars>>
    \/ Moves("py") /\ Py!Next /\ UNCHANGED <<vars, heapVars, consoleVars, cwd, valueVars>>
    \/ Moves("values") /\ Values!Next /\ UNCHANGED <<vars, heapVars, consoleVars, cwd, pyVars>>

SessionsSpec == SessionsInit /\ [][SessionsNext]_allVars

-----------------------------------------------------------------------------
(* Of VimHeap: what is counted is what Vim holds, within the budget.        *)
HeapAccounts == part = "heap" => Heap!HeapAccounts

(* Of VimConsole: the output goes where it was asked to, and Vim waits with a
   clean screen.                                                            *)
ConsoleIsUsable == Console!ConsoleIsUsable

(* Of VimPaths: a call reaches the file its path means.                     *)
PathsAreKept == part = "paths" => Directories!PathsAreKept

(* Of EspPy: a new session's Python has nothing in progress.                *)
StartsAfresh == Py!StartsAfresh

(* Of EspPy: Python closes no other task's file.                            *)
ClosesItsOwn ==
    [][Moves("py") /\ Py!Python => \A f \in Fds : owner[f] = "other" => owner'[f] = "other"]_pyVars

(* Of EspPyValues: a value that Python got comes back as it was.            *)
ComesBack == part = "values" => Values!ComesBack
=============================================================================
