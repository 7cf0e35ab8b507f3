-------------------------- MODULE MCSessions_proofs --------------------------
(***************************************************************************)
(* What a session leaves, and what the next one finds: VimSession for any    *)
(* number of descriptors and of other tasks, then the console, Python, paths *)
(* and the heap as parts of MCSessions.                                     *)
(*                                                                         *)
(* The table of what Vim owns is read once, when a session begins, and is   *)
(* then stale until it is zeroed: Vim's files are closed and other tasks    *)
(* may have their descriptors.  IInv says what the table means at each      *)
(* step of any task, and which of them the supervisor can be at.            *)
(***************************************************************************)
EXTENDS MCSessions, FiniteSetTheorems, SequenceTheorems, WellFoundedInduction, TLAPS

(* What the table says of a descriptor is so, but behind the scan.          *)
OwnedIsVims ==
    \A f \in owned : real[f] = "vim" \/ (phase \in {"fds", "reset"} /\ f < scan)

(* Vim's are in the table, but within open() and close().                   *)
VimsAreOwned ==
    \A f \in Fds : real[f] = "vim" =>
        f \in owned \/ (pc["vim"] \in {"remember", "close"} /\ fd["vim"] = f)

(* Within them, the descriptor is the task's own.                           *)
HasItsOwn ==
    \A t \in Tasks :
        /\ pc[t] \in {"remember", "forget", "close"} => fd[t] \in Fds /\ real[fd[t]] = t
        /\ pc[t] = "close" => fd[t] \notin owned

(* Vim's task opens and closes during its session only.                     *)
IdleBetween == (phase # "run" => pc["vim"] = "idle") /\ (phase = "run" => sessionTask = "vim")

(* None of Vim's is behind the scan.                                        *)
Scanned ==
    /\ phase \in {"fds", "reset"} => \A f \in Fds : f < scan => real[f] # "vim"
    /\ phase = "reset" => scan = NFds
    /\ phase \in {"reset", "mine"} => held = {}
    /\ phase = "mine" => \A f \in Fds : real[f] # "vim"

(* Where the supervisor is, given where Vim's task is.                      *)
Supervised ==
    /\ pcS = "create" => phase \in {"none", "deleted"} /\ ~notified
    /\ pcS = "notified" =>
         IF notified THEN phase \in {"exit", "deleted"}
         ELSE phase \in {"begin", "fds", "reset", "mine", "run"}
    /\ pcS = "deleted" => phase \in {"exit", "deleted"} /\ ~notified
    /\ pcS \in {"flush", "drain", "prompt", "key"} => phase = "deleted" /\ ~notified

Files == OwnedIsVims /\ VimsAreOwned /\ HasItsOwn /\ IdleBetween /\ Scanned
IInv == TypeOK /\ Files /\ Supervised

LEMMA InitIInv == Init => IInv
<1> SUFFICES ASSUME Init PROVE IInv
  OBVIOUS
<1>1. /\ NFds \in Nat /\ None \notin Tasks /\ "vim" \in Tasks /\ "vim" \notin Others
      /\ None # "vim"
  BY SessionAssumption DEF Tasks
<1>2. \A f \in Fds : real[f] # "vim"
  BY <1>1 DEF Init
<1>3. TypeOK
  <2>1. real \in [Fds -> Tasks \cup {None}] /\ known \subseteq Fds /\ owned \subseteq known
    BY DEF Init, Tasks
  <2>2. pc \in [Tasks -> {"idle", "open", "remember", "forget", "close"}]
    BY DEF Init
  <2>3. fd \in [Tasks -> Fds \cup {None}]
    BY DEF Init
  <2>4. scan \in 0 .. NFds
    BY <1>1 DEF Init
  <2>5. /\ sessionTask \in {None, "vim"} /\ held \subseteq Kinds
        /\ keys \subseteq Sources /\ stray \subseteq Sources
        /\ notified \in BOOLEAN /\ shown \in BOOLEAN
    BY DEF Init
  <2>6. phase = "none" /\ pcS = "create"
    BY DEF Init
  <2> QED BY <2>1, <2>2, <2>3, <2>4, <2>5, <2>6 DEF TypeOK
<1>4. Files
  BY <1>1, <1>2
  DEF Init, Files, OwnedIsVims, VimsAreOwned, HasItsOwn, IdleBetween, Scanned
<1>5. Supervised
  BY DEF Init, Supervised
<1> QED BY <1>3, <1>4, <1>5 DEF IInv

(* Every step keeps the types. *)
LEMMA KeepsTypes == TypeOK /\ HasItsOwn /\ [Next]_vars => TypeOK'
<1> SUFFICES ASSUME TypeOK, HasItsOwn, [Next]_vars PROVE TypeOK'
  OBVIOUS
<1>0. NFds \in Nat
  BY SessionAssumption
<1> USE <1>0 DEF TypeOK, HasItsOwn, tracked, files, vimTask, supervisor, typed, Goes, Then, Does
<1>1. ASSUME NEW t \in Tasks, CallOpen(t) PROVE TypeOK'
  BY <1>1 DEF CallOpen
<1>2. ASSUME NEW t \in Tasks, NEW f \in Fds, CallClose(t, f) PROVE TypeOK'
  BY <1>2 DEF CallClose
<1>3. ASSUME NEW t \in Tasks, RealOpen(t) PROVE TypeOK'
  BY <1>3 DEF RealOpen
<1>4. ASSUME NEW t \in Tasks, Remember(t) PROVE TypeOK'
  BY <1>4 DEF Remember
<1>5. ASSUME NEW t \in Tasks, Forget(t) PROVE TypeOK'
  BY <1>5 DEF Forget
<1>6. ASSUME NEW t \in Tasks, RealClose(t) PROVE TypeOK'
  BY <1>6 DEF RealClose
<1>7. ASSUME NEW k \in Kinds, Hold(k) \/ LetGo(k) PROVE TypeOK'
  BY <1>7 DEF Hold, LetGo
<1>8. CASE ReadKeys BY <1>8 DEF ReadKeys
<1>9. CASE Exit BY <1>9 DEF Exit
<1>10. CASE VimTaskStep
  <2>1. CASE BeginTimer BY <2>1 DEF BeginTimer
  <2>2. CASE BeginFds BY <2>2 DEF BeginFds, Fds
  <2>3. CASE BeginRest \/ Zero \/ Mine \/ Deleted BY <2>3 DEF BeginRest, Zero, Mine, Deleted
  <2> QED BY <1>10, <2>1, <2>2, <2>3 DEF VimTaskStep
<1>11. CASE SupervisorStep
  BY <1>11 DEF SupervisorStep, Take, Reap, Flush, Prompt, Key, Create, Step, After
<1>12. ASSUME NEW s \in Sources, Type(s) PROVE TypeOK'
  BY <1>12 DEF Type
<1>13. CASE UNCHANGED vars BY <1>13 DEF vars
<1> QED
  BY <1>1, <1>2, <1>3, <1>4, <1>5, <1>6, <1>7, <1>8, <1>9, <1>10, <1>11, <1>12, <1>13
  DEF Next, FileStep

(* Files of any task are opened and closed under the table's rules. *)
LEMMA KeepsFiles == IInv /\ [Next]_vars => Files'
<1> SUFFICES ASSUME IInv, [Next]_vars PROVE Files'
  OBVIOUS
<1>0. /\ NFds \in Nat /\ None \notin Tasks /\ None \notin Nat /\ "vim" \in Tasks
      /\ \A f \in Fds : f \in Nat
  BY SessionAssumption DEF Tasks, Fds
<1> USE DEF IInv, TypeOK, Files, OwnedIsVims, VimsAreOwned, HasItsOwn, IdleBetween, Scanned,
            tracked, files, vimTask, supervisor, typed, Goes, Then, Does
<1>1. ASSUME NEW t \in Tasks, CallOpen(t) PROVE Files'
  BY <1>0, <1>1 DEF CallOpen, Runs
<1>2. ASSUME NEW t \in Tasks, NEW f \in Fds, CallClose(t, f) PROVE Files'
  BY <1>0, <1>2 DEF CallClose, Runs
<1>3. ASSUME NEW t \in Tasks, RealOpen(t) PROVE Files'
  BY <1>0, <1>3 DEF RealOpen
<1>4. ASSUME NEW t \in Tasks, Remember(t) PROVE Files'
  BY <1>0, <1>4 DEF Remember, OpenedByVim
<1>5. ASSUME NEW t \in Tasks, Forget(t) PROVE Files'
  BY <1>0, <1>5 DEF Forget
<1>6. ASSUME NEW t \in Tasks, RealClose(t) PROVE Files'
  BY <1>0, <1>6 DEF RealClose
<1>7. ASSUME NEW k \in Kinds, Hold(k) \/ LetGo(k) PROVE Files'
  BY <1>0, <1>7 DEF Hold, LetGo
<1>8. CASE ReadKeys BY <1>8 DEF ReadKeys
<1>9. CASE Exit BY <1>0, <1>9 DEF Exit
<1>10. CASE VimTaskStep
  <2>1. CASE BeginTimer BY <1>0, <2>1 DEF BeginTimer
  <2>2. CASE BeginFds BY <1>0, <2>2 DEF BeginFds
  <2>3. CASE BeginRest BY <1>0, <2>3 DEF BeginRest
  <2>4. CASE Zero BY <1>0, <2>4 DEF Zero, Fds
  <2>5. CASE Mine BY <1>0, <2>5 DEF Mine
  <2>6. CASE Deleted BY <1>0, <2>6 DEF Deleted
  <2> QED BY <1>10, <2>1, <2>2, <2>3, <2>4, <2>5, <2>6 DEF VimTaskStep
<1>11. CASE SupervisorStep
  BY <1>0, <1>11 DEF SupervisorStep, Take, Reap, Flush, Prompt, Key, Create, Step, After, Supervised
<1>12. ASSUME NEW s \in Sources, Type(s) PROVE Files'
  BY <1>12 DEF Type
<1>13. CASE UNCHANGED vars BY <1>13 DEF vars
<1> QED
  BY <1>1, <1>2, <1>3, <1>4, <1>5, <1>6, <1>7, <1>8, <1>9, <1>10, <1>11, <1>12, <1>13
  DEF Next, FileStep

(* The handshake of a session's end. *)
LEMMA KeepsSupervised == IInv /\ [Next]_vars => Supervised'
<1> SUFFICES ASSUME IInv, [Next]_vars PROVE Supervised'
  OBVIOUS
<1> USE DEF IInv, TypeOK, Supervised, tracked, files, vimTask, supervisor, typed
<1>1. ASSUME NEW t \in Tasks, CallOpen(t) \/ FileStep(t) \/ (\E f \in Fds : CallClose(t, f))
      PROVE Supervised'
  BY <1>1 DEF CallOpen, CallClose, FileStep, RealOpen, Remember, Forget, RealClose
<1>2. ASSUME NEW k \in Kinds, Hold(k) \/ LetGo(k) PROVE Supervised'
  BY <1>2 DEF Hold, LetGo
<1>3. CASE ReadKeys BY <1>3 DEF ReadKeys
<1>4. CASE Exit BY <1>4 DEF Exit
<1>5. CASE VimTaskStep
  BY <1>5 DEF VimTaskStep, BeginTimer, BeginFds, BeginRest, Zero, Mine, Deleted
<1>6. CASE SupervisorStep
  BY <1>6 DEF SupervisorStep, Take, Reap, Flush, Prompt, Key, Create, Step, After
<1>7. ASSUME NEW s \in Sources, Type(s) PROVE Supervised'
  BY <1>7 DEF Type
<1>8. CASE UNCHANGED vars BY <1>8 DEF vars
<1> QED BY <1>1, <1>2, <1>3, <1>4, <1>5, <1>6, <1>7, <1>8 DEF Next

LEMMA NextIInv == IInv /\ [Next]_vars => IInv'
BY KeepsTypes, KeepsFiles, KeepsSupervised DEF IInv, Files

LEMMA Invariance == Spec => []IInv
BY InitIInv, NextIInv, PTL DEF Spec

(* Every variable keeps its type, and a file Vim owns is known. *)
THEOREM TypeCorrect == Spec => []TypeOK
BY Invariance, PTL DEF IInv

(* However sessions and other tasks' files come and go, a session begins    *)
(* with nothing of the last one's.                                          *)
THEOREM NothingIsLeft == Spec => []NothingLeft
<1>1. IInv => NothingLeft
  BY SessionAssumption DEF IInv, TypeOK, Files, Scanned, NothingLeft, Fds
<1> QED BY Invariance, <1>1, PTL

(* Nobody else's descriptor is closed as one begins. *)
THEOREM OthersKeepTheirs == Spec => ClosesOnlyVims
<1>1. IInv => [BeginFds => \A f \in Fds : real[f] \in Others => real'[f] = real[f]]_vars
  BY SessionAssumption DEF IInv, TypeOK, Files, OwnedIsVims, BeginFds, Fds
<1> QED BY Invariance, <1>1, PTL DEF ClosesOnlyVims

(* No task is created on the stack of one that still runs. *)
THEOREM StackFree == Spec => StackIsFree
<1>1. IInv => [Create => phase \in {"none", "deleted"}]_vars
  BY DEF IInv, Supervised, Create, Step
<1> QED BY Invariance, <1>1, PTL DEF StackIsFree

-----------------------------------------------------------------------------
(* The keys of the session before *)

(* By the prompt, both sources are emptied, of which there are no others.   *)
StrayIsGone ==
    /\ pcS = "drain" => stray \subseteq {"keyboard"}
    /\ pcS \in {"prompt", "key", "create"} => stray = {}

LEMMA KeepsStray == TypeOK /\ StrayIsGone /\ [Next]_vars => StrayIsGone'
<1> SUFFICES ASSUME TypeOK, StrayIsGone, [Next]_vars PROVE StrayIsGone'
  OBVIOUS
<1>0. Sources \subseteq {"console", "keyboard"} /\ stray \subseteq Sources
  BY SessionAssumption DEF TypeOK
<1> USE DEF StrayIsGone, tracked, files, vimTask, supervisor, typed
<1>1. CASE UNCHANGED <<supervisor, typed>> BY <1>1
<1>2. ASSUME NEW t \in Tasks, CallOpen(t) \/ FileStep(t) \/ (\E f \in Fds : CallClose(t, f))
      PROVE StrayIsGone'
  BY <1>1, <1>2 DEF CallOpen, CallClose, FileStep, RealOpen, Remember, Forget, RealClose
<1>3. ASSUME NEW k \in Kinds, Hold(k) \/ LetGo(k) PROVE StrayIsGone'
  BY <1>1, <1>3 DEF Hold, LetGo
<1>4. CASE ReadKeys BY <1>4 DEF ReadKeys
<1>5. CASE Exit BY <1>5 DEF Exit
<1>6. CASE VimTaskStep
  BY <1>1, <1>6 DEF VimTaskStep, BeginTimer, BeginFds, BeginRest, Zero, Mine, Deleted
<1>7. CASE SupervisorStep
  BY <1>0, <1>7 DEF SupervisorStep, Take, Reap, Flush, Prompt, Key, Create, Step, After
<1>8. ASSUME NEW s \in Sources, Type(s) PROVE StrayIsGone'
  BY <1>8 DEF Type
<1>9. CASE UNCHANGED vars BY <1>1, <1>9 DEF vars
<1> QED BY <1>2, <1>3, <1>4, <1>5, <1>6, <1>7, <1>8, <1>9 DEF Next

(* No key typed before the session had ended starts the next one. *)
THEOREM NoStrayKey == Spec => []NoStrayStart
<1>1. Init => StrayIsGone
  BY DEF Init, StrayIsGone
<1>2. Spec => []StrayIsGone
  BY <1>1, TypeCorrect, KeepsStray, PTL DEF Spec
<1>3. StrayIsGone => NoStrayStart
  BY DEF StrayIsGone, NoStrayStart
<1> QED BY <1>2, <1>3, PTL

-----------------------------------------------------------------------------
(* The parts of MCSessions *)

(* What is proved of VimSession's own Spec is so of the system's. *)
THEOREM SessionAlone == SessionsSpec => Spec
<1>1. SessionsInit => Init
  BY DEF SessionsInit
<1>2. [SessionsNext]_allVars => [Next]_vars
  BY DEF SessionsNext, allVars, vars
<1> QED BY <1>1, <1>2, PTL DEF SessionsSpec, Spec

-----------------------------------------------------------------------------
(* The console *)

(* Vim reads only where select() told of a key, and a key that was told of  *)
(* stays until it is read: so no read() waits.                              *)
ConsoleInv ==
    /\ display \in BOOLEAN
    /\ serial \in BOOLEAN
    /\ extra \in BOOLEAN
    /\ ready \in BOOLEAN
    /\ mirror \in BOOLEAN
    /\ off \in BOOLEAN
    /\ saved \in BOOLEAN
    /\ spins \in BOOLEAN
    /\ long \in BOOLEAN
    /\ unsaved \in BOOLEAN
    /\ vim \in {"gone", "works", "waits"}
    /\ vim # "gone" /\ off => mirror
    /\ vim # "gone" /\ mirror /\ ~unsaved => off = ~saved
    /\ vim = "waits" => ~spins
    /\ vim # "gone" /\ ready => serial \/ extra

LEMMA InitConsole == Console!Init => ConsoleInv
BY DEF Console!Init, ConsoleInv

LEMMA KeepsConsole == ConsoleInv /\ [Console!Next]_consoleVars => ConsoleInv'
<1> SUFFICES ASSUME ConsoleInv, [Console!Next]_consoleVars PROVE ConsoleInv'
  OBVIOUS
<1> USE DEF ConsoleInv, Console!keys, Console!output, Console!spinner
<1>1. CASE Console!Begin BY <1>1 DEF Console!Begin, Console!Load
<1>2. CASE Console!Poll BY <1>2 DEF Console!Poll
<1>3. CASE Console!Wait BY <1>3 DEF Console!Wait
<1>4. CASE Console!WaitDone BY <1>4 DEF Console!WaitDone
<1>5. CASE Console!BusyAfter BY <1>5 DEF Console!BusyAfter
<1>6. CASE Console!Read BY <1>6 DEF Console!Read, Console!Save
<1>7. CASE Console!Quit BY <1>7 DEF Console!Quit
<1>8. CASE Console!TypeKey BY <1>8 DEF Console!TypeKey
<1>9. CASE Console!Restart BY <1>9 DEF Console!Restart
<1>10. ASSUME NEW on \in BOOLEAN, Console!SetOutput(on) PROVE ConsoleInv'
  BY <1>10 DEF Console!SetOutput, Console!Save
<1>11. CASE UNCHANGED consoleVars BY <1>11 DEF consoleVars
<1> QED
  BY <1>1, <1>2, <1>3, <1>4, <1>5, <1>6, <1>7, <1>8, <1>9, <1>10, <1>11 DEF Console!Next

(* The output goes where it was asked to, there is always a screen, and Vim  *)
(* never waits in a read() or under its spinner.                            *)
THEOREM UsableConsole == SessionsSpec => []ConsoleIsUsable
<1>1. SessionsInit => ConsoleInv
  BY InitConsole DEF SessionsInit
<1>2. [SessionsNext]_allVars => [Console!Next]_consoleVars
  BY DEF SessionsNext, allVars, others, consoleVars
<1>3. ConsoleInv => ConsoleIsUsable
  BY DEF ConsoleInv, ConsoleIsUsable, Console!ConsoleIsUsable
<1> QED BY <1>1, <1>2, <1>3, KeepsConsole, PTL DEF SessionsSpec

-----------------------------------------------------------------------------
(* Python *)

Frame == [kind : {"py", "vim"}, prev : Nat]

IsLast(n, S) == IF S = {} THEN n = 0 ELSE n \in S /\ \A j \in S : j <= n

(* A call of a session's is on a stack of its own, made after the session    *)
(* was noticed, and Python's is of an interpreter that has been started.     *)
Calls ==
    /\ ~session => stack = <<>>
    /\ stack # <<>> => sessionKnown
    /\ session /\ ~sessionKnown => sink = 0 /\ trylevel = 0 /\ ~broken
    /\ Py!Frames("py") # {} => started

(* No call is unaccounted for, and while no traceback raised none is counted *)
(* that is over; each run() would restore the sink of the one it is in.      *)
Counted ==
    session /\ sessionKnown =>
        /\ depth >= Cardinality(Py!Frames("py")) /\ trylevel >= Cardinality(Py!Frames("vim"))
        /\ ~broken =>
            /\ depth = Cardinality(Py!Frames("py")) /\ trylevel = Cardinality(Py!Frames("vim"))
            /\ IsLast(sink, Py!Frames("py"))
            /\ \A i \in Py!Frames("py") :
                 IsLast(stack[i].prev, {j \in Py!Frames("py") : j < i})

(* The descriptors of an interpreter of this session are Vim's.              *)
ObjsAreVims == session /\ sessionKnown /\ started => \A f \in objs : owner[f] = "vim"

PyTypes ==
    /\ session \in BOOLEAN
    /\ sessionKnown \in BOOLEAN
    /\ started \in BOOLEAN
    /\ broken \in BOOLEAN
    /\ depth \in Nat /\ sink \in Nat /\ trylevel \in Nat
    /\ stack \in Seq(Frame)
    /\ objs \subseteq Fds
    /\ owner \in [Fds -> {"free", "vim", "other"}]

PyInv == PyTypes /\ Calls /\ Counted /\ ObjsAreVims

LEMMA FramesAreFinite ==
    ASSUME stack \in Seq(Frame), NEW kind
    PROVE  /\ Py!Frames(kind) \subseteq 1 .. Len(stack)
           /\ IsFiniteSet(Py!Frames(kind)) /\ Cardinality(Py!Frames(kind)) \in Nat
<1>1. Py!Frames(kind) \in SUBSET (1 .. Len(stack)) /\ Len(stack) \in Int
  BY DEF Py!Frames
<1>2. IsFiniteSet(1 .. Len(stack))
  BY <1>1, FS_Interval
<1>3. IsFiniteSet(Py!Frames(kind))
  BY <1>1, <1>2, FS_Subset
<1> QED BY <1>1, <1>3, FS_CardinalityType

(* A call made. *)
LEMMA Pushed ==
    ASSUME stack \in Seq(Frame), NEW e \in Frame, stack' = Append(stack, e)
    PROVE  /\ stack' \in Seq(Frame) /\ stack' # <<>>
           /\ Len(stack) \in Nat /\ Len(stack') = Len(stack) + 1
           /\ \A i \in 1 .. Len(stack) : stack'[i] = stack[i]
           /\ stack'[Len(stack')] = e
           /\ Py!Frames(e.kind)' = Py!Frames(e.kind) \cup {Len(stack')}
           /\ Cardinality(Py!Frames(e.kind)') = Cardinality(Py!Frames(e.kind)) + 1
           /\ \A kind \in {"py", "vim"} \ {e.kind} : Py!Frames(kind)' = Py!Frames(kind)
<1>1. /\ stack' \in Seq(Frame) /\ stack' # <<>>
      /\ Len(stack) \in Nat /\ Len(stack') = Len(stack) + 1
      /\ \A i \in 1 .. Len(stack) : stack'[i] = stack[i]
      /\ stack'[Len(stack')] = e
  OBVIOUS
<1>2. Py!Frames(e.kind)' = Py!Frames(e.kind) \cup {Len(stack')}
  BY <1>1 DEF Py!Frames
<1>3. \A kind \in {"py", "vim"} \ {e.kind} : Py!Frames(kind)' = Py!Frames(kind)
  BY <1>1 DEF Py!Frames
<1>4. IsFiniteSet(Py!Frames(e.kind)) /\ Len(stack') \notin Py!Frames(e.kind)
  BY <1>1, FramesAreFinite
<1>5. Cardinality(Py!Frames(e.kind)') = Cardinality(Py!Frames(e.kind)) + 1
  BY <1>2, <1>4, FS_AddElement
<1> QED BY <1>1, <1>2, <1>3, <1>5

(* A call over. *)
LEMMA PoppedOne ==
    ASSUME stack \in Seq(Frame), stack # <<>>, stack' = Py!Popped,
           NEW top \in {"py", "vim"}, stack[Len(stack)].kind = top
    PROVE  /\ stack' \in Seq(Frame) /\ Len(stack) \in Nat \ {0}
           /\ \A i \in 1 .. Len(stack) - 1 : stack'[i] = stack[i]
           /\ stack[Len(stack)] \in Frame
           /\ Len(stack) \in Py!Frames(top)
           /\ Py!Frames(top)' = Py!Frames(top) \ {Len(stack)}
           /\ Cardinality(Py!Frames(top)') \in Nat
           /\ Cardinality(Py!Frames(top)') = Cardinality(Py!Frames(top)) - 1
           /\ \A kind \in {"py", "vim"} \ {top} : Py!Frames(kind)' = Py!Frames(kind)
<1>1. /\ stack' \in Seq(Frame) /\ Len(stack) \in Nat \ {0}
      /\ Len(stack') = Len(stack) - 1
      /\ \A i \in 1 .. Len(stack) - 1 : stack'[i] = stack[i]
      /\ stack[Len(stack)] \in Frame
  <2>1. Len(stack) \in Nat \ {0} /\ stack[Len(stack)] \in Frame
    OBVIOUS
  <2>2. stack' = SubSeq(stack, 1, Len(stack) - 1) /\ Len(stack) - 1 \in 0 .. Len(stack)
    BY <2>1 DEF Py!Popped
  <2>3. \A i \in 1 .. Len(stack) - 1 : stack[i] \in Frame
    BY <2>1
  <2> DEFINE n == Len(stack) - 1
  <2>4. n \in Nat
    BY <2>1
  <2> HIDE DEF n
  <2>5. \A i \in 1 .. n : stack[i] \in Frame
    BY <2>3 DEF n
  <2>6. /\ SubSeq(stack, 1, n) \in Seq(Frame)
        /\ Len(SubSeq(stack, 1, n)) = IF 1 <= n THEN n - 1 + 1 ELSE 0
        /\ \A i \in 1 .. n - 1 + 1 : SubSeq(stack, 1, n)[i] = stack[1 + i - 1]
    BY <2>4, <2>5, SubSeqProperties
  <2>7. stack' = SubSeq(stack, 1, n)
    BY <2>2 DEF n
  <2>8. Len(stack') = n /\ \A i \in 1 .. n : stack'[i] = stack[i]
    BY <2>4, <2>6, <2>7
  <2> QED BY <2>1, <2>6, <2>7, <2>8 DEF n
<1>3. Len(stack) \in Py!Frames(top) /\ Py!Frames(top)' = Py!Frames(top) \ {Len(stack)}
  BY <1>1 DEF Py!Frames
<1>4. \A kind \in {"py", "vim"} \ {top} : Py!Frames(kind)' = Py!Frames(kind)
  BY <1>1 DEF Py!Frames
<1>5. /\ Cardinality(Py!Frames(top)') \in Nat
      /\ Cardinality(Py!Frames(top)') = Cardinality(Py!Frames(top)) - 1
  <2>1. IsFiniteSet(Py!Frames(top))
    BY FramesAreFinite
  <2> QED BY <1>3, <2>1, FS_RemoveElement, FS_CardinalityType
<1> QED BY <1>1, <1>3, <1>4, <1>5

(* Calls that are jumped over. *)
LEMMA CutShort ==
    ASSUME stack \in Seq(Frame), NEW n \in 1 .. Len(stack), stack' = SubSeq(stack, 1, n)
    PROVE  /\ stack' \in Seq(Frame) /\ stack' # <<>>
           /\ \A kind \in {"py", "vim"} :
                /\ Py!Frames(kind)' \subseteq Py!Frames(kind)
                /\ Cardinality(Py!Frames(kind)') \in Nat
                /\ Cardinality(Py!Frames(kind)') \in Nat
             /\ Cardinality(Py!Frames(kind)') <= Cardinality(Py!Frames(kind))
<1>1. /\ stack' \in Seq(Frame) /\ stack' # <<>>
      /\ Len(stack') = n /\ \A i \in 1 .. n : stack'[i] = stack[i]
  OBVIOUS
<1>2. ASSUME NEW kind
      PROVE  /\ Py!Frames(kind)' \subseteq Py!Frames(kind)
             /\ Cardinality(Py!Frames(kind)') \in Nat
             /\ Cardinality(Py!Frames(kind)') <= Cardinality(Py!Frames(kind))
  <2>1. Py!Frames(kind)' \in SUBSET Py!Frames(kind)
    BY <1>1 DEF Py!Frames
  <2>2. IsFiniteSet(Py!Frames(kind))
    BY FramesAreFinite
  <2> QED BY <2>1, <2>2, FS_Subset, FS_CardinalityType
<1> QED BY <1>1, <1>2

LEMMA LastIsLast ==
    ASSUME NEW S \in SUBSET Nat, NEW n \in Nat, IsLast(n, S), S # {}
    PROVE  n = Py!Last(S)
<1>1. \A m \in S : (\A j \in S : j <= m) => m = n
  BY DEF IsLast
<1> QED BY <1>1 DEF IsLast, Py!Last

(* Before a session's first call none is in progress. *)
LEMMA NoCallsYet ==
    ASSUME stack = <<>>, NEW kind
    PROVE  Py!Frames(kind) = {} /\ Cardinality(Py!Frames(kind)) = 0
<1>1. Py!Frames(kind) = {}
  BY DEF Py!Frames
<1> QED BY <1>1, FS_EmptySet

(* What the session's first call finds, or a later one. *)
LEMMA Noticed ==
    ASSUME PyInv, session
    PROVE  LET was == Py!NewSession IN
           /\ was[1] \in BOOLEAN
           /\ was[2] \in Nat
           /\ was = <<was[1], was[2]>>
           /\ Py!Frames("py") # {} => was[1]
           /\ was[2] >= Cardinality(Py!Frames("py"))
           /\ ~broken => was[2] = Cardinality(Py!Frames("py"))
           /\ trylevel >= Cardinality(Py!Frames("vim"))
           /\ ~broken => trylevel = Cardinality(Py!Frames("vim"))
           /\ ~broken => IsLast(sink, Py!Frames("py"))
           /\ ~broken => \A i \in Py!Frames("py") :
                 IsLast(stack[i].prev, {j \in Py!Frames("py") : j < i})
           /\ was[1] => \A f \in objs : owner[f] = "vim"
<1> USE DEF PyInv, PyTypes
<1>1. CASE sessionKnown
  <2>1. Py!NewSession = <<started, depth>>
    BY <1>1 DEF Py!NewSession
  <2> QED BY <1>1, <2>1 DEF Calls, Counted, ObjsAreVims
<1>2. CASE ~sessionKnown
  <2>1. Py!NewSession = <<FALSE, 0>>
    BY <1>2 DEF Py!NewSession
  <2>2. stack = <<>> /\ sink = 0 /\ trylevel = 0
    BY <1>2 DEF Calls
  <2>3. \A kind : Py!Frames(kind) = {} /\ Cardinality(Py!Frames(kind)) = 0
    BY <2>2, NoCallsYet
  <2> QED BY <2>1, <2>2, <2>3 DEF IsLast
<1> QED BY <1>1, <1>2

(* Only a run() of Python changes who holds what, and only Vim's calls it. *)
LEMMA KeepsPyRun == PyInv /\ Py!Run => PyInv'
<1> SUFFICES ASSUME PyInv, Py!Run PROVE PyInv'
  OBVIOUS
<1> DEFINE was == Py!NewSession
           under == IF was[1] THEN was[2] ELSE 0
           e == [kind |-> "py", prev |-> sink]
<1>1. /\ was[1] \in BOOLEAN
      /\ was[2] \in Nat
      /\ Py!Frames("py") # {} => was[1]
      /\ was[2] >= Cardinality(Py!Frames("py"))
      /\ ~broken => was[2] = Cardinality(Py!Frames("py"))
      /\ trylevel >= Cardinality(Py!Frames("vim"))
      /\ ~broken => trylevel = Cardinality(Py!Frames("vim"))
      /\ ~broken => IsLast(sink, Py!Frames("py"))
      /\ ~broken => \A i \in Py!Frames("py") :
            IsLast(stack[i].prev, {j \in Py!Frames("py") : j < i})
      /\ was[1] => \A f \in objs : owner[f] = "vim"
      /\ session
  BY Noticed DEF Py!Run, Py!FromVim, Py!Top
<1>2. Py!Frames("py") = {} => Cardinality(Py!Frames("py")) = 0
  BY FS_EmptySet
<1>3. stack \in Seq(Frame) /\ sink \in Nat /\ trylevel \in Nat /\ e \in Frame
  BY DEF PyInv, PyTypes, Frame
<1>4. Cardinality(Py!Frames("py")) \in Nat /\ Cardinality(Py!Frames("vim")) \in Nat
  BY <1>3, FramesAreFinite
<1> HIDE DEF was, e
<1>5. /\ under \in Nat
      /\ under >= Cardinality(Py!Frames("py"))
      /\ ~broken => under = Cardinality(Py!Frames("py"))
  BY <1>1, <1>2, <1>4
<1> HIDE DEF under
<1>6. /\ session' /\ session' = session /\ sessionKnown' /\ sessionKnown' = TRUE
      /\ trylevel' = trylevel /\ owner' = owner
      /\ objs' = IF was[1] THEN objs ELSE {}
      /\ broken' => broken
      /\ broken' = broken
  BY <1>1 DEF Py!Run, was
<1>7. objs' \subseteq Fds /\ owner' \in [Fds -> {"free", "vim", "other"}]
  BY <1>6 DEF PyInv, PyTypes
<1>8. \A f \in objs' : owner'[f] = "vim"
  BY <1>1, <1>6
<1>9. CASE stack' = Append(stack, e) /\ sink' = Len(stack') /\ started' = TRUE /\ depth' = under + 1
  <2>1. /\ stack' \in Seq(Frame) /\ stack' # <<>>
        /\ Len(stack) \in Nat /\ Len(stack') = Len(stack) + 1
        /\ \A i \in 1 .. Len(stack) : stack'[i] = stack[i]
        /\ stack'[Len(stack')] = e
        /\ Py!Frames("py")' = Py!Frames("py") \cup {Len(stack')}
        /\ Cardinality(Py!Frames("py")') = Cardinality(Py!Frames("py")) + 1
        /\ Py!Frames("vim")' = Py!Frames("vim")
    BY <1>3, <1>9, Pushed DEF e
  <2>2. Py!Frames("py") \subseteq 1 .. Len(stack)
    BY <1>3, FramesAreFinite
  <2>3. PyTypes'
    BY <1>3, <1>5, <1>6, <1>7, <1>9, <2>1 DEF PyInv, PyTypes
  <2>4. Calls'
    BY <1>6, <1>9 DEF Calls
  <2>5. ~broken => IsLast(sink', Py!Frames("py")')
    BY <1>9, <2>1, <2>2 DEF IsLast
  <2>6. ASSUME ~broken, NEW i \in Py!Frames("py")'
        PROVE  IsLast(stack'[i].prev, {j \in Py!Frames("py")' : j < i})
    <3>1. CASE i \in Py!Frames("py")
      <4>1. {j \in Py!Frames("py")' : j < i} = {j \in Py!Frames("py") : j < i}
        BY <2>1, <2>2, <3>1
      <4> QED BY <1>1, <2>1, <2>2, <2>6, <3>1, <4>1
    <3>2. CASE i = Len(stack')
      <4>1. {j \in Py!Frames("py")' : j < i} = Py!Frames("py")
        BY <2>1, <2>2, <3>2
      <4>2. stack'[i].prev = sink
        BY <2>1, <3>2 DEF e
      <4>3. IsLast(sink, Py!Frames("py"))
        BY <1>1, <2>6
      <4> QED BY <4>1, <4>2, <4>3, Zenon
    <3> QED BY <2>1, <2>6, <3>1, <3>2
  <2>7. Counted'
    <3>1. /\ depth' >= Cardinality(Py!Frames("py"))'
          /\ trylevel' >= Cardinality(Py!Frames("vim"))'
          /\ ~broken => depth' = Cardinality(Py!Frames("py"))'
          /\ ~broken => trylevel' = Cardinality(Py!Frames("vim"))'
      BY <1>1, <1>4, <1>5, <1>6, <1>9, <2>1
    <3> QED BY <1>6, <2>5, <2>6, <3>1, Zenon DEF Counted
  <2> QED BY <1>8, <2>3, <2>4, <2>7 DEF PyInv, ObjsAreVims
<1>10. CASE started' \in {was[1], TRUE} /\ depth' = under /\ UNCHANGED <<stack, sink>>
  <2>1. Py!Frames("py")' = Py!Frames("py") /\ Py!Frames("vim")' = Py!Frames("vim")
    BY <1>10 DEF Py!Frames
  <2>2. started' \in BOOLEAN /\ (was[1] => started')
    BY <1>1, <1>10
  <2>3. PyTypes'
    BY <1>3, <1>5, <1>6, <1>7, <1>10, <2>2 DEF PyInv, PyTypes
  <2>4. Calls'
    BY <1>1, <1>6, <2>1, <2>2 DEF Calls
  <2>5. Counted'
    BY <1>1, <1>5, <1>6, <1>10, <2>1 DEF Counted
  <2> QED BY <1>8, <2>3, <2>4, <2>5 DEF PyInv, ObjsAreVims
<1> QED BY <1>9, <1>10 DEF Py!Run, was, under, e

(* EspPy counts as FiniteSets does, of which it has an instance of its own. *)
LEMMA SameCount == \A S : Py!Cardinality(S) = Cardinality(S)
BY Zenon DEF Cardinality, Py!Cardinality

(* Of some numbers, none above N, one is the last. *)
LEMMA HasLast ==
    ASSUME NEW N \in Nat, NEW S \in SUBSET (1 .. N), S # {}
    PROVE  \E i \in S : \A j \in S : j <= i
<1> DEFINE R == OpToRel(<, Nat)
           T == {N - i : i \in S}
<1>1. \A x, y \in Nat : x < y => <<x, y>> \in R
  BY DEF OpToRel
<1>2. T \subseteq Nat /\ \A i \in S : N - i \in T
  OBVIOUS
<1>3. T # {}
  OBVIOUS
<1> HIDE DEF R
<1>4. \E x \in T : \A y \in T : ~ (<<y, x>> \in R)
  <2>1. IsWellFoundedOn(R, Nat)
    BY NatLessThanWellFounded DEF R
  <2> HIDE DEF T
  <2> QED BY <1>2, <1>3, <2>1, WFMin
<1>5. PICK i \in S : \A y \in T : ~(<<y, N - i>> \in R)
  BY <1>4
<1>6. ASSUME NEW j \in S PROVE j <= i
  <2>1. N - j \in T /\ N - j \in Nat /\ N - i \in Nat
    OBVIOUS
  <2>2. ~(N - j < N - i)
    BY <1>1, <1>5, <2>1
  <2> QED BY <2>1, <2>2
<1> QED BY <1>6

LEMMA KeepsPyHostCall == PyInv /\ Py!HostCall => PyInv'
<1> SUFFICES ASSUME PyInv, Py!HostCall PROVE PyInv'
  OBVIOUS
<1> DEFINE e == [kind |-> "vim", prev |-> 0]
<1>1. /\ session /\ stack # <<>> /\ sessionKnown
      /\ UNCHANGED <<session, started, depth, sessionKnown, sink, objs, owner, broken>>
      /\ stack' = Append(stack, e) /\ trylevel' = trylevel + 1
  BY DEF Py!HostCall, Py!Top, Py!interp, Py!files, PyInv, Calls
<1>2. stack \in Seq(Frame) /\ trylevel \in Nat /\ e \in Frame
  BY DEF PyInv, PyTypes, Frame
<1> HIDE DEF e
<1>3. /\ stack' \in Seq(Frame) /\ stack' # <<>>
      /\ Len(stack) \in Nat /\ Len(stack') = Len(stack) + 1
      /\ \A i \in 1 .. Len(stack) : stack'[i] = stack[i]
      /\ Cardinality(Py!Frames("vim")') = Cardinality(Py!Frames("vim")) + 1
      /\ Py!Frames("py")' = Py!Frames("py")
  BY <1>1, <1>2, Pushed DEF e
<1>4. Py!Frames("py") \subseteq 1 .. Len(stack) /\ Cardinality(Py!Frames("vim")) \in Nat
  BY <1>2, FramesAreFinite
<1>5. PyTypes'
  BY <1>1, <1>2, <1>3 DEF PyInv, PyTypes
<1>6. Calls'
  BY <1>1, <1>3 DEF PyInv, Calls
<1>7. trylevel' >= Cardinality(Py!Frames("vim")')
  BY <1>1, <1>2, <1>3, <1>4 DEF PyInv, Counted
<1>8. ~broken => trylevel' = Cardinality(Py!Frames("vim")')
  BY <1>1, <1>2, <1>3, <1>4 DEF PyInv, Counted
<1>9. \A i \in Py!Frames("py") : stack'[i] = stack[i]
  BY <1>3, <1>4
<1>10. Counted'
  BY <1>1, <1>3, <1>7, <1>8, <1>9, Zenon DEF PyInv, Counted
<1> QED BY <1>1, <1>5, <1>6, <1>10 DEF PyInv, ObjsAreVims

LEMMA KeepsPyHostReturn == PyInv /\ Py!HostReturn => PyInv'
<1> SUFFICES ASSUME PyInv, Py!HostReturn PROVE PyInv'
  OBVIOUS
<1>1. /\ session /\ stack # <<>> /\ sessionKnown /\ stack[Len(stack)].kind = "vim"
      /\ UNCHANGED <<session, started, depth, sessionKnown, sink, objs, owner, broken>>
      /\ stack' = Py!Popped /\ trylevel' = trylevel - 1
  BY DEF Py!HostReturn, Py!Top, Py!interp, Py!files, PyInv, Calls
<1>2. stack \in Seq(Frame) /\ trylevel \in Nat
  BY DEF PyInv, PyTypes
<1>3. /\ stack' \in Seq(Frame) /\ Len(stack) \in Nat \ {0}
      /\ \A i \in 1 .. Len(stack) - 1 : stack'[i] = stack[i]
      /\ Len(stack) \in Py!Frames("vim")
      /\ Cardinality(Py!Frames("vim")') \in Nat
      /\ Cardinality(Py!Frames("vim")') = Cardinality(Py!Frames("vim")) - 1
      /\ Py!Frames("py")' = Py!Frames("py")
  BY <1>1, <1>2, PoppedOne
<1>4. Py!Frames("py") \subseteq 1 .. Len(stack) /\ Len(stack) \notin Py!Frames("py")
  BY <1>1, <1>2, FramesAreFinite DEF Py!Frames
<1>5. /\ Cardinality(Py!Frames("vim")) \in Nat
      /\ Cardinality(Py!Frames("vim")') \in Nat
  BY <1>2, <1>3, FramesAreFinite
<1>6. /\ trylevel' \in Nat
      /\ trylevel' >= Cardinality(Py!Frames("vim")')
      /\ ~broken => trylevel' = Cardinality(Py!Frames("vim")')
  BY <1>1, <1>2, <1>3, <1>5 DEF PyInv, Counted
<1>7. PyTypes'
  BY <1>1, <1>3, <1>6 DEF PyInv, PyTypes
<1>8. Calls'
  BY <1>1, <1>3 DEF PyInv, Calls
<1>9. \A i \in Py!Frames("py") : stack'[i] = stack[i]
  BY <1>3, <1>4
<1>10. Counted'
  BY <1>1, <1>3, <1>6, <1>9, Zenon DEF PyInv, Counted
<1> QED BY <1>1, <1>7, <1>8, <1>10 DEF PyInv, ObjsAreVims

(* run() ends: the sink is again that of the run() it was called under. *)
LEMMA KeepsPyEnd == PyInv /\ Py!End => PyInv'
<1> SUFFICES ASSUME PyInv, Py!End PROVE PyInv'
  OBVIOUS
<1>1. /\ session /\ stack # <<>> /\ sessionKnown /\ stack[Len(stack)].kind = "py"
      /\ UNCHANGED <<session, started, sessionKnown, trylevel, objs, owner, broken>>
      /\ stack' = Py!Popped /\ depth' = depth - 1 /\ sink' = stack[Len(stack)].prev
  BY DEF Py!End, Py!Top, Py!files, PyInv, Calls
<1>2. stack \in Seq(Frame) /\ depth \in Nat
  BY DEF PyInv, PyTypes
<1>3. /\ stack' \in Seq(Frame) /\ Len(stack) \in Nat \ {0}
      /\ \A i \in 1 .. Len(stack) - 1 : stack'[i] = stack[i]
      /\ stack[Len(stack)] \in Frame
      /\ Len(stack) \in Py!Frames("py")
      /\ Py!Frames("py")' = Py!Frames("py") \ {Len(stack)}
      /\ Cardinality(Py!Frames("py")') \in Nat
      /\ Cardinality(Py!Frames("py")') = Cardinality(Py!Frames("py")) - 1
      /\ Py!Frames("vim")' = Py!Frames("vim")
  BY <1>1, <1>2, PoppedOne
<1>4. Py!Frames("py") \subseteq 1 .. Len(stack)
  BY <1>2, FramesAreFinite
<1>5. /\ Cardinality(Py!Frames("py")) \in Nat
      /\ Cardinality(Py!Frames("py")') \in Nat
  BY <1>2, <1>3, FramesAreFinite
<1>6. /\ depth' \in Nat
      /\ depth' >= Cardinality(Py!Frames("py")')
      /\ ~broken => depth' = Cardinality(Py!Frames("py")')
  BY <1>1, <1>2, <1>3, <1>5 DEF PyInv, Counted
<1>7. sink' \in Nat
  BY <1>1, <1>3 DEF Frame
<1>8. PyTypes'
  BY <1>1, <1>3, <1>6, <1>7 DEF PyInv, PyTypes
<1>9. Calls'
  BY <1>1, <1>3 DEF PyInv, Calls
<1>10. ~broken => IsLast(sink', Py!Frames("py")')
  <2>1. {j \in Py!Frames("py") : j < Len(stack)} = Py!Frames("py")'
    BY <1>3, <1>4
  <2>2. ~broken => IsLast(stack[Len(stack)].prev, {j \in Py!Frames("py") : j < Len(stack)})
    BY <1>1, <1>3, Zenon DEF PyInv, Counted
  <2> QED BY <1>1, <2>1, <2>2, Zenon
<1>11. ASSUME ~broken, NEW i \in Py!Frames("py")'
       PROVE  IsLast(stack'[i].prev, {j \in Py!Frames("py")' : j < i})
  <2>1. i \in Py!Frames("py") /\ i # Len(stack) /\ stack'[i] = stack[i]
    BY <1>3, <1>4
  <2>2. {j \in Py!Frames("py")' : j < i} = {j \in Py!Frames("py") : j < i}
    BY <1>3, <1>4, <2>1
  <2>3. IsLast(stack[i].prev, {j \in Py!Frames("py") : j < i})
    BY <1>1, <1>11, <2>1, Zenon DEF PyInv, Counted
  <2> QED BY <2>1, <2>2, <2>3, Zenon
<1>12. Counted'
  BY <1>1, <1>3, <1>6, <1>10, <1>11, Zenon DEF PyInv, Counted
<1> QED BY <1>1, <1>8, <1>9, <1>12 DEF PyInv, ObjsAreVims

(* A traceback that raises leaves the counts too high, for this session. *)
LEMMA KeepsPyRaise == PyInv /\ Py!TracebackRaises => PyInv'
<1> SUFFICES ASSUME PyInv, Py!TracebackRaises PROVE PyInv'
  OBVIOUS
<1> DEFINE below == Py!Frames("py") \ {Len(stack)}
           n == Py!Last(below)
<1>1. /\ session /\ stack # <<>> /\ sessionKnown /\ stack[Len(stack)].kind = "py"
      /\ Cardinality(Py!Frames("py")) > 1
      /\ UNCHANGED <<session, started, depth, sessionKnown, sink, trylevel, objs, owner>>
      /\ stack' = SubSeq(stack, 1, n) /\ broken' = TRUE
  BY SameCount DEF Py!TracebackRaises, Py!Top, Py!interp, Py!vimState, Py!files, PyInv, Calls
<1>2. stack \in Seq(Frame)
  BY DEF PyInv, PyTypes
<1>3. /\ Py!Frames("py") \subseteq 1 .. Len(stack) /\ IsFiniteSet(Py!Frames("py"))
      /\ Cardinality(Py!Frames("py")) \in Nat /\ Len(stack) \in Nat
  BY <1>2, FramesAreFinite
<1>4. IsFiniteSet(below) /\ below # {}
  <2>1. /\ IsFiniteSet(below)
        /\ Cardinality(below) = IF Len(stack) \in Py!Frames("py")
                                THEN Cardinality(Py!Frames("py")) - 1
                                ELSE Cardinality(Py!Frames("py"))
    BY <1>3, FS_RemoveElement
  <2>2. Cardinality(below) # 0
    BY <1>1, <1>3, <2>1
  <2> QED BY <2>1, <2>2, FS_EmptySet
<1>5. n \in 1 .. Len(stack)
  <2>1. \E i \in below : \A j \in below : j <= i
    BY <1>3, <1>4, HasLast
  <2>2. n \in below
    BY <2>1 DEF Py!Last
  <2> QED BY <1>3, <2>2
<1> HIDE DEF n
<1>6. /\ stack' \in Seq(Frame) /\ stack' # <<>>
      /\ \A kind \in {"py", "vim"} :
           /\ Py!Frames(kind)' \subseteq Py!Frames(kind)
           /\ Cardinality(Py!Frames(kind)') \in Nat
           /\ Cardinality(Py!Frames(kind)') <= Cardinality(Py!Frames(kind))
  BY <1>1, <1>2, <1>5, CutShort
<1>7. \A kind \in {"py", "vim"} :
        Cardinality(Py!Frames(kind)) \in Nat /\ Cardinality(Py!Frames(kind)') \in Nat
  BY <1>2, <1>6, FramesAreFinite
<1>8. PyTypes'
  BY <1>1, <1>6 DEF PyInv, PyTypes
<1>9. Calls'
  BY <1>1, <1>6 DEF PyInv, Calls
<1>10. /\ depth' >= Cardinality(Py!Frames("py")')
       /\ trylevel' >= Cardinality(Py!Frames("vim")')
  BY <1>1, <1>6, <1>7 DEF PyInv, PyTypes, Counted
<1>11. Counted'
  BY <1>1, <1>10 DEF Counted
<1> QED BY <1>1, <1>8, <1>9, <1>11 DEF PyInv, ObjsAreVims

(* The interpreter is taken down from outside Python only. *)
LEMMA KeepsPyReset == PyInv /\ Py!Reset => PyInv'
<1> SUFFICES ASSUME PyInv, Py!Reset PROVE PyInv'
  OBVIOUS
<1> DEFINE was == Py!NewSession
<1>1. /\ was[1] \in BOOLEAN
      /\ was[2] \in Nat
      /\ Py!Frames("py") # {} => was[1]
      /\ was[2] >= Cardinality(Py!Frames("py"))
      /\ ~broken => was[2] = Cardinality(Py!Frames("py"))
      /\ trylevel >= Cardinality(Py!Frames("vim"))
      /\ ~broken => trylevel = Cardinality(Py!Frames("vim"))
      /\ ~broken => IsLast(sink, Py!Frames("py"))
      /\ ~broken => \A i \in Py!Frames("py") :
            IsLast(stack[i].prev, {j \in Py!Frames("py") : j < i})
      /\ was[1] => \A f \in objs : owner[f] = "vim"
      /\ session
  BY Noticed DEF Py!Reset, Py!FromVim, Py!Top
<1>2. /\ session' = session /\ sessionKnown' /\ sessionKnown' = TRUE
      /\ UNCHANGED <<sink, trylevel, stack, broken>>
      /\ depth' = was[2]
  BY <1>1 DEF Py!Reset
<1>3. Py!Frames("py")' = Py!Frames("py") /\ Py!Frames("vim")' = Py!Frames("vim")
  BY <1>2 DEF Py!Frames
<1>4. stack \in Seq(Frame)
  BY DEF PyInv, PyTypes
<1>5. /\ IsFiniteSet(Py!Frames("py"))
      /\ Cardinality(Py!Frames("py")) \in Nat
  BY <1>4, FramesAreFinite
<1>6. Counted'
  BY <1>1, <1>2, <1>3, Zenon DEF Counted
<1> HIDE DEF was
<1>7. CASE was[2] > 0 \/ ~was[1]
  <2>1. started' = was[1] /\ UNCHANGED <<objs, owner>>
    BY <1>7 DEF Py!Reset, Py!files, was
  <2>2. PyTypes'
    BY <1>1, <1>2, <2>1 DEF PyInv, PyTypes
  <2>3. Calls'
    BY <1>1, <1>2, <1>3, <2>1 DEF PyInv, Calls
  <2>4. ObjsAreVims'
    BY <1>1, <2>1 DEF ObjsAreVims
  <2> QED BY <1>6, <2>2, <2>3, <2>4 DEF PyInv
<1>8. CASE ~(was[2] > 0 \/ ~was[1])
  <2>1. /\ started' = FALSE /\ objs' = {}
        /\ owner' = [f \in Fds |-> IF f \in objs THEN "free" ELSE owner[f]]
    BY <1>8 DEF Py!Reset, was
  <2>2. PyTypes'
    BY <1>1, <1>2, <2>1 DEF PyInv, PyTypes
  <2>3. Py!Frames("py") = {}
    BY <1>1, <1>5, <1>8, FS_EmptySet
  <2>4. Calls'
    BY <1>2, <1>3, <2>3 DEF PyInv, Calls
  <2>5. ObjsAreVims'
    BY <2>1 DEF ObjsAreVims
  <2> QED BY <1>6, <2>2, <2>4, <2>5 DEF PyInv
<1> QED BY <1>7, <1>8

(* What is not about a call keeps the counts. *)
LEMMA KeepsPyFiles ==
    ASSUME PyInv, NEW f \in Fds, Py!Open(f) \/ Py!Close(f) \/ Py!Other(f)
    PROVE  PyInv'
<1>1. UNCHANGED <<session, started, depth, sessionKnown, sink, trylevel, stack, broken>>
  BY DEF Py!Open, Py!Close, Py!Other, Py!interp, Py!vimState
<1>2. Py!Frames("py")' = Py!Frames("py") /\ Py!Frames("vim")' = Py!Frames("vim")
  BY <1>1 DEF Py!Frames
<1>3. PyTypes'
  BY <1>1 DEF PyInv, PyTypes, Py!Open, Py!Close, Py!Other
<1>4. Calls'
  BY <1>1, <1>2 DEF PyInv, Calls
<1>5. Counted'
  BY <1>1, <1>2, Zenon DEF PyInv, Counted
<1>6. ObjsAreVims'
  BY <1>1 DEF PyInv, PyTypes, ObjsAreVims, Py!Open, Py!Close, Py!Other
<1> QED BY <1>3, <1>4, <1>5, <1>6 DEF PyInv

(* A session's end and the next one's begin, and the device's restart. *)
LEMMA KeepsPySession == PyInv /\ (Py!Quit \/ Py!Begin \/ Py!Abort) => PyInv'
<1> SUFFICES ASSUME PyInv, Py!Quit \/ Py!Begin \/ Py!Abort PROVE PyInv'
  OBVIOUS
<1>1. /\ stack' = <<>> /\ (session' => ~sessionKnown')
      /\ session' => sink' = 0 /\ trylevel' = 0 /\ ~broken'
  BY DEF PyInv, Calls, Py!Quit, Py!Begin, Py!Abort
<1>2. Py!Frames("py")' = {}
  BY <1>1 DEF Py!Frames
<1>3. PyTypes'
  <2>1. <<>> \in Seq(Frame)
    OBVIOUS
  <2> USE <1>1, <2>1
  <2>2. CASE Py!Quit
    BY <2>2 DEF PyInv, PyTypes, Py!Quit, Py!interp, Py!vimState, Py!files
  <2>3. CASE Py!Begin
    BY <2>3 DEF PyInv, PyTypes, Py!Begin, Py!interp
  <2>4. CASE Py!Abort
    BY <2>4 DEF PyInv, PyTypes, Py!Abort
  <2> QED BY <2>2, <2>3, <2>4
<1> QED BY <1>1, <1>2, <1>3 DEF PyInv, Calls, Counted, ObjsAreVims

LEMMA KeepsPy == PyInv /\ [Py!Next]_pyVars => PyInv'
<1> SUFFICES ASSUME PyInv, [Py!Next]_pyVars PROVE PyInv'
  OBVIOUS
<1>1. CASE UNCHANGED pyVars
  BY <1>1 DEF pyVars, PyInv, PyTypes, Calls, Counted, ObjsAreVims, Py!Frames
<1>2. CASE Py!Python
  BY <1>2, KeepsPyRun, KeepsPyHostCall, KeepsPyHostReturn, KeepsPyEnd, KeepsPyRaise,
     KeepsPyReset, KeepsPyFiles DEF Py!Python
<1> QED BY <1>1, <1>2, KeepsPyFiles, KeepsPySession DEF Py!Next

LEMMA PyInvariance == SessionsSpec => []PyInv
<1>1. SessionsInit => PyInv
  <2> SUFFICES ASSUME Py!Init PROVE PyInv
    BY DEF SessionsInit
  <2>1. Py!Frames("py") = {}
    BY DEF Py!Init, Py!Frames
  <2>2. PyTypes
    <3>1. <<>> \in Seq(Frame)
      OBVIOUS
    <3> QED BY <3>1 DEF Py!Init, PyTypes
  <2> QED BY <2>1, <2>2 DEF Py!Init, PyInv, Calls, Counted, ObjsAreVims
<1>2. [SessionsNext]_allVars => [Py!Next]_pyVars
  BY DEF SessionsNext, allVars, others, pyVars
<1> QED BY <1>1, <1>2, KeepsPy, PTL DEF SessionsSpec

(* Whatever the last session was in the midst of, the next one's Python has  *)
(* as many calls in progress as it counts, and prints where the innermost    *)
(* run() wants it, for as long as no traceback raises.                      *)
THEOREM FreshPython == SessionsSpec => []StartsAfresh
<1>1. PyInv => StartsAfresh
  <2> SUFFICES ASSUME PyInv, ~broken, session, sessionKnown
               PROVE  /\ depth = Py!Cardinality(Py!Frames("py"))
                      /\ trylevel = Py!Cardinality(Py!Frames("vim"))
                      /\ sink = IF Py!Frames("py") = {} THEN 0 ELSE Py!Last(Py!Frames("py"))
    BY DEF StartsAfresh, Py!StartsAfresh, Py!InProgress
  <2>1. /\ depth = Cardinality(Py!Frames("py")) /\ trylevel = Cardinality(Py!Frames("vim"))
        /\ IsLast(sink, Py!Frames("py"))
    BY DEF PyInv, Counted
  <2>2. Py!Frames("py") \in SUBSET Nat /\ sink \in Nat
    BY FramesAreFinite DEF PyInv, PyTypes
  <2>3. CASE Py!Frames("py") = {}
    BY <2>1, <2>3, SameCount DEF IsLast
  <2>4. CASE Py!Frames("py") # {}
    BY <2>1, <2>2, <2>4, LastIsLast, SameCount
  <2> QED BY <2>3, <2>4
<1> QED BY <1>1, PyInvariance, PTL

(* Python closes no other task's file, though its interpreter outlives the   *)
(* session that opened its files.                                           *)
THEOREM ClosesOnlyItsOwn == SessionsSpec => ClosesItsOwn
<1>1. PyInv => [Moves("py") /\ Py!Python =>
                  \A f \in Fds : owner[f] = "other" => owner'[f] = "other"]_pyVars
  <2> SUFFICES ASSUME PyInv, Py!Python, NEW f \in Fds, owner[f] = "other"
               PROVE  owner'[f] = "other"
    BY DEF Moves
  <2>1. owner \in [Fds -> {"free", "vim", "other"}]
    BY DEF PyInv, PyTypes
  <2>2. CASE owner' = owner
    BY <2>2
  <2>3. CASE Py!Reset
    <3>1. Py!NewSession[1] => \A g \in objs : owner[g] = "vim"
      BY <2>3, Noticed DEF Py!Reset, Py!FromVim, Py!Top
    <3> QED BY <2>1, <2>2, <2>3, <3>1 DEF Py!Reset, Py!files
  <2>4. ASSUME NEW g \in Fds, Py!Open(g) PROVE owner'[f] = "other"
    BY <2>1, <2>4 DEF Py!Open
  <2>5. ASSUME NEW g \in Fds, Py!Close(g) PROVE owner'[f] = "other"
    <3>1. owner[g] = "vim"
      BY <2>5 DEF Py!Close, Py!Top, PyInv, Calls, ObjsAreVims, Py!Frames, PyTypes
    <3> QED BY <2>1, <2>5, <3>1 DEF Py!Close
  <2>6. CASE Py!Run \/ Py!HostCall \/ Py!HostReturn \/ Py!End \/ Py!TracebackRaises
    <3>1. owner' = owner
      BY <2>6 DEF Py!Run, Py!HostCall, Py!HostReturn, Py!End, Py!TracebackRaises, Py!files
    <3> QED BY <2>2, <3>1
  <2> QED BY <2>3, <2>4, <2>5, <2>6 DEF Py!Python
<1> QED BY <1>1, PyInvariance, PTL DEF ClosesItsOwn

-----------------------------------------------------------------------------
(* Folds, of sums over sets and of steps along sequences.  That there is one,
   whose values do not depend on more than what is folded, is proved once for
   the three that matter here: kind says which.                              *)

Pick(s) == CHOOSE x \in s : TRUE
Greatest(s) == CHOOSE x \in s : \A y \in s : x >= y

(* What Walk() and Normalise() of VimPaths do with one segment.              *)
Walked(at, t) ==
    CASE t \in {"", "."} -> at
      [] t = ".." -> IF at = <<>> THEN at ELSE Directories!Front(at)
      [] OTHER -> Append(at, t)
Kept(at, t) ==
    CASE t \in {"", "."} -> at
      [] t = ".." -> IF at = <<>> THEN at ELSE Directories!Front(at)
      [] OTHER -> IF Len(at) < MaxSegs THEN Append(at, t) ELSE at

Base(kind) == IF kind = "sum" THEN 0 ELSE <<>>
Chosen(kind, s) == IF kind = "sum" THEN Pick(s) ELSE Greatest(s)
Folded(kind, at, x) ==
    IF kind = "sum" THEN x.size + at ELSE IF kind = "walk" THEN Walked(at, x) ELSE Kept(at, x)

(* g is, on the sets of D, the fold of what q has for their elements.        *)
IsFold(kind, q, D, g) ==
    g = [s \in D |-> IF s = {} THEN Base(kind)
                     ELSE Folded(kind, g[s \ {Chosen(kind, s)}], q[Chosen(kind, s)])]

FoldOver(kind, q, S, g) == IsFold(kind, q, SUBSET S, g)

Foldable(kind, S) == IsFiniteSet(S) /\ \A s \in (SUBSET S) \ {{}} : Chosen(kind, s) \in s

Alike(kind, q, r, S) == \A x \in S : \A at : Folded(kind, at, q[x]) = Folded(kind, at, r[x])

(* Every set of naturals that is not empty has a least.                     *)
LEMMA LeastOfNaturals ==
    ASSUME NEW S \in SUBSET Nat, S # {}
    PROVE  \E s \in S : \A t \in S : s <= t
<1>1. PICK s \in S : \A t \in S : ~ (<<t, s>> \in OpToRel(<, Nat))
  BY NatLessThanWellFounded, WFMin
<1>2. ASSUME NEW t \in S PROVE s <= t
  <2>1. t \in Nat /\ s \in Nat
    OBVIOUS
  <2>2. ~ (t < s)
    BY <1>1, <2>1 DEF OpToRel
  <2>. QED BY <2>1, <2>2
<1>. QED BY <1>2

(* Some sets of finite ones: one of them has none of them with one element   *)
(* less.                                                                     *)
LEMMA LeastOfSets ==
    ASSUME NEW S, IsFiniteSet(S), NEW Bad \in SUBSET (SUBSET S), Bad # {}
    PROVE  \E s \in Bad : \A x \in s : s \ {x} \notin Bad
<1>. DEFINE sizes == {n \in Nat : \E s \in Bad : Cardinality(s) = n}
<1>1. \A s \in Bad : IsFiniteSet(s) /\ Cardinality(s) \in Nat
  BY FS_Subset, FS_CardinalityType
<1>2. sizes \in SUBSET Nat /\ sizes # {}
  BY <1>1
<1>3. PICK n \in sizes : \A m \in sizes : n <= m
  <2>. HIDE DEF sizes
  <2>. QED BY <1>2, LeastOfNaturals
<1>4. PICK s \in Bad : Cardinality(s) = n
  BY <1>3
<1>5. ASSUME NEW x \in s, s \ {x} \in Bad PROVE FALSE
  <2>1. Cardinality(s \ {x}) = Cardinality(s) - 1
    BY <1>1, FS_RemoveElement
  <2>2. Cardinality(s \ {x}) \in sizes
    BY <1>1, <1>5
  <2>3. n <= Cardinality(s \ {x}) /\ n \in Nat
    BY <1>3, <2>2
  <2>. QED BY <1>4, <2>1, <2>3
<1>. QED BY <1>5

(* There is such a fold: of the sets of a size, from that of the smaller.   *)
LEMMA FoldExists ==
    ASSUME NEW kind, NEW q, NEW S, Foldable(kind, S)
    PROVE  \E g : FoldOver(kind, q, S, g)
<1>. DEFINE Upto(n) == {s \in SUBSET S : Cardinality(s) <= n}
            bad == {n \in Nat : ~ \E g : IsFold(kind, q, Upto(n), g)}
<1>1. IsFiniteSet(S) /\ \A s \in SUBSET S : IsFiniteSet(s) /\ Cardinality(s) \in Nat
  BY FS_Subset, FS_CardinalityType DEF Foldable
<1>2. ASSUME bad # {} PROVE FALSE
  <2>1. bad \in SUBSET Nat
    OBVIOUS
  <2>2. PICK n \in bad : \A m \in bad : n <= m
    <3>. HIDE DEF bad
    <3>. QED BY <1>2, <2>1, LeastOfNaturals
  <2>3. n \in Nat /\ ~ \E g : IsFold(kind, q, Upto(n), g)
    BY <2>2
  <2>4. PICK h : n # 0 => IsFold(kind, q, Upto(n - 1), h)
    <3>1. CASE n = 0
      BY <3>1
    <3>2. CASE n # 0
      <4>1. n - 1 \in Nat /\ ~ (n <= n - 1)
        BY <2>3, <3>2
      <4>2. n - 1 \notin bad
        BY <2>2, <4>1, Zenon
      <4>. QED BY <4>1, <4>2, Zenon
    <3>. QED BY <3>1, <3>2
  <2>. DEFINE less(s) == s \ {Chosen(kind, s)}
              G(f) == [s \in Upto(n) |-> IF s = {} THEN Base(kind)
                                         ELSE Folded(kind, f[less(s)], q[Chosen(kind, s)])]
              g == G(h)
  <2>5. ASSUME NEW s \in Upto(n), s # {}
        PROVE  n # 0 /\ less(s) \in Upto(n - 1) /\ less(s) \in Upto(n)
    <3>1. Chosen(kind, s) \in s
      BY <2>5 DEF Foldable
    <3>2. Cardinality(less(s)) = Cardinality(s) - 1
      BY <1>1, <3>1, FS_RemoveElement
    <3>. QED BY <1>1, <2>3, <3>2
  <2>6. ASSUME n # 0, NEW s \in Upto(n - 1) PROVE g[s] = h[s]
    <3>1. s \in Upto(n)
      BY <1>1, <2>3
    <3>2. g[s] = IF s = {} THEN Base(kind) ELSE Folded(kind, h[less(s)], q[Chosen(kind, s)])
      BY <3>1
    <3>3. h[s] = IF s = {} THEN Base(kind) ELSE Folded(kind, h[less(s)], q[Chosen(kind, s)])
      <4>. HIDE DEF Upto
      <4>. QED BY <2>4, <2>6, Zenon DEF IsFold
    <3>. QED BY <3>2, <3>3, Zenon
  <2>7. IsFold(kind, q, Upto(n), g)
    <3>1. ASSUME NEW s \in Upto(n)
          PROVE  (IF s = {} THEN Base(kind) ELSE Folded(kind, h[less(s)], q[Chosen(kind, s)]))
               = (IF s = {} THEN Base(kind) ELSE Folded(kind, g[less(s)], q[Chosen(kind, s)]))
      <4>. HIDE DEF g, Upto
      <4>. QED BY <2>5, <2>6
    <3>2. G(h) = G(g)
      <4>. HIDE DEF g, Upto, less
      <4>. QED BY <3>1, Zenon
    <3>. QED BY <3>2, Zenon DEF IsFold
  <2>. QED BY <2>3, <2>7
<1>3. Upto(Cardinality(S)) = SUBSET S
  BY <1>1, FS_Subset
<1>. QED BY <1>1, <1>2, <1>3 DEF FoldOver

(* What it is on a set is a matter of that set's elements.                  *)
LEMMA FoldsAgree ==
    ASSUME NEW kind, NEW q, NEW r, NEW S, NEW T, Foldable(kind, S),
           NEW g, FoldOver(kind, q, S, g), NEW h, FoldOver(kind, r, T, h),
           NEW U \in (SUBSET S) \cap (SUBSET T), Alike(kind, q, r, U)
    PROVE  g[U] = h[U]
<1>. DEFINE bad == {s \in SUBSET U : g[s] # h[s]}
<1>1. ASSUME bad # {} PROVE FALSE
  <2>1. IsFiniteSet(U) /\ bad \in SUBSET (SUBSET U)
    BY FS_Subset DEF Foldable
  <2>2. PICK s \in bad : \A x \in s : s \ {x} \notin bad
    <3>. HIDE DEF bad
    <3>. QED BY <1>1, <2>1, LeastOfSets
  <2>3. s \in SUBSET S /\ s \in SUBSET T /\ g[s] # h[s]
    BY <2>2
  <2>4. g[s] = IF s = {} THEN Base(kind) ELSE Folded(kind, g[s \ {Chosen(kind, s)}], q[Chosen(kind, s)])
    BY <2>3, Zenon DEF FoldOver, IsFold
  <2>5. h[s] = IF s = {} THEN Base(kind) ELSE Folded(kind, h[s \ {Chosen(kind, s)}], r[Chosen(kind, s)])
    BY <2>3, Zenon DEF FoldOver, IsFold
  <2>6. s # {}
    BY <2>3, <2>4, <2>5, Zenon
  <2>7. Chosen(kind, s) \in s
    BY <2>3, <2>6, Zenon DEF Foldable
  <2>8. g[s \ {Chosen(kind, s)}] = h[s \ {Chosen(kind, s)}]
    BY <2>2, <2>7
  <2>9. Chosen(kind, s) \in U
    BY <2>2, <2>7
  <2>10. \A at : Folded(kind, at, q[Chosen(kind, s)]) = Folded(kind, at, r[Chosen(kind, s)])
    BY <2>9, Zenon DEF Alike
  <2>. QED BY <2>3, <2>4, <2>5, <2>6, <2>8, <2>10, Zenon
<1>. QED BY <1>1

-----------------------------------------------------------------------------
(* VimPaths: ".." at a name takes it away, in Walk() as in Normalise().      *)

Names == {"a", "b"}
UpFrom(at) == IF at = <<>> THEN at ELSE Directories!Front(at)
AlongPath == {"walk", "keep"}

IsWalk(q, D, g) ==
    g = [s \in D |-> IF s = {} THEN <<>> ELSE Walked(g[s \ {Greatest(s)}], q[Greatest(s)])]
IsKept(q, D, g) ==
    g = [s \in D |-> IF s = {} THEN <<>> ELSE Kept(g[s \ {Greatest(s)}], q[Greatest(s)])]
KeptOf(q) == (CHOOSE g : IsKept(q, SUBSET DOMAIN q, g))[DOMAIN q]

(* Naturals up to some, one after the other.                                *)
LEMMA OneByOne ==
    ASSUME NEW N \in Nat, NEW G, 0 \in G, \A n \in 0 .. N : n \in G /\ n < N => n + 1 \in G
    PROVE  \A n \in 0 .. N : n \in G
<1>. DEFINE bad == {n \in 0 .. N : n \notin G}
<1>1. ASSUME bad # {} PROVE FALSE
  <2>1. bad \in SUBSET Nat
    OBVIOUS
  <2>2. PICK n \in bad : \A m \in bad : n <= m
    <3>. HIDE DEF bad
    <3>. QED BY <1>1, <2>1, LeastOfNaturals
  <2>3. n # 0 /\ n - 1 \in 0 .. N /\ n - 1 < N /\ (n - 1) + 1 = n /\ ~ (n <= n - 1)
    BY <2>2
  <2>4. n - 1 \notin bad
    BY <2>2, <2>3
  <2>. QED BY <2>2, <2>3, <2>4
<1>. QED BY <1>1

LEMMA GreatestIs ==
    ASSUME NEW N \in Nat, NEW s \in SUBSET (1 .. N), s # {}
    PROVE  Greatest(s) \in s /\ \A y \in s : Greatest(s) >= y
<1>. DEFINE below == {m \in Nat : \E x \in s : x = N - m}
<1>1. below \in SUBSET Nat /\ below # {}
  <2>1. PICK x \in s : TRUE
    OBVIOUS
  <2>2. N - x \in Nat /\ x = N - (N - x)
    BY <2>1
  <2>3. N - x \in below
    BY <2>1, <2>2
  <2>. QED BY <2>3
<1>2. PICK m \in below : \A k \in below : m <= k
  <2>. HIDE DEF below
  <2>. QED BY <1>1, LeastOfNaturals
<1>3. PICK x \in s : x = N - m
  BY <1>2
<1>4. ASSUME NEW y \in s PROVE x >= y
  <2>1. N - y \in Nat /\ y = N - (N - y) /\ x \in 1 .. N /\ y \in 1 .. N /\ m \in Nat
    BY <1>2, <1>3
  <2>2. N - y \in below
    BY <2>1
  <2>3. m <= N - y
    BY <1>2, <2>2
  <2>. QED BY <1>3, <2>1, <2>3
<1>. QED BY <1>3, <1>4, Zenon DEF Greatest

LEMMA AlongIsFoldable ==
    ASSUME NEW kind \in AlongPath, NEW N \in Nat
    PROVE  /\ Foldable(kind, 1 .. N) /\ Base(kind) = <<>>
           /\ \A s : Chosen(kind, s) = Greatest(s)
<1>1. kind # "sum"
  BY DEF AlongPath
<1>2. IsFiniteSet(1 .. N)
  BY FS_Interval
<1>3. \A s \in (SUBSET (1 .. N)) \ {{}} : Greatest(s) \in s
  BY GreatestIs
<1>. QED BY <1>1, <1>2, <1>3, Zenon DEF Foldable, Chosen, Base

LEMMA WalksAreFolds ==
    ASSUME NEW q, NEW D, NEW g
    PROVE  /\ IsWalk(q, D, g) <=> IsFold("walk", q, D, g)
           /\ IsKept(q, D, g) <=> IsFold("keep", q, D, g)
<1>1. \A s : Chosen("walk", s) = Greatest(s) /\ Chosen("keep", s) = Greatest(s)
  BY Zenon DEF Chosen
<1>2. Base("walk") = <<>> /\ Base("keep") = <<>>
  BY Zenon DEF Base
<1>3. \A at, t : Folded("walk", at, t) = Walked(at, t) /\ Folded("keep", at, t) = Kept(at, t)
  BY Zenon DEF Folded
<1>4. [s \in D |-> IF s = {} THEN <<>> ELSE Walked(g[s \ {Greatest(s)}], q[Greatest(s)])]
    = [s \in D |-> IF s = {} THEN Base("walk")
                   ELSE Folded("walk", g[s \ {Chosen("walk", s)}], q[Chosen("walk", s)])]
  BY <1>1, <1>2, <1>3, Zenon
<1>5. [s \in D |-> IF s = {} THEN <<>> ELSE Kept(g[s \ {Greatest(s)}], q[Greatest(s)])]
    = [s \in D |-> IF s = {} THEN Base("keep")
                   ELSE Folded("keep", g[s \ {Chosen("keep", s)}], q[Chosen("keep", s)])]
  BY <1>1, <1>2, <1>3, Zenon
<1>. QED BY <1>4, <1>5, Zenon DEF IsWalk, IsKept, IsFold

LEMMA OneSegment ==
    ASSUME NEW kind \in AlongPath, NEW q, NEW N \in Nat, NEW g, FoldOver(kind, q, 1 .. N, g)
    PROVE  /\ g[1 .. 0] = <<>>
           /\ \A n \in 0 .. N : n < N => g[1 .. n + 1] = Folded(kind, g[1 .. n], q[n + 1])
<1>1. \A s \in SUBSET (1 .. N) :
        g[s] = IF s = {} THEN <<>> ELSE Folded(kind, g[s \ {Greatest(s)}], q[Greatest(s)])
  BY AlongIsFoldable, Zenon DEF FoldOver, IsFold
<1>2. 1 .. 0 = {} /\ 1 .. 0 \in SUBSET (1 .. N)
  OBVIOUS
<1>3. ASSUME NEW n \in 0 .. N, n < N PROVE g[1 .. n + 1] = Folded(kind, g[1 .. n], q[n + 1])
  <2>1. 1 .. n + 1 \in SUBSET (1 .. N) /\ 1 .. n + 1 # {} /\ n + 1 \in 1 .. n + 1
    <3>1. n \in Nat /\ n + 1 <= N
      BY <1>3
    <3>2. \A i \in 1 .. n + 1 : i \in 1 .. N
      BY <3>1
    <3>3. n + 1 \in 1 .. n + 1
      BY <3>1
    <3>. QED BY <3>2, <3>3
  <2>2. Greatest(1 .. n + 1) \in 1 .. n + 1 /\ Greatest(1 .. n + 1) >= n + 1
    BY <2>1, GreatestIs
  <2>3. Greatest(1 .. n + 1) = n + 1
    BY <2>2
  <2>4. (1 .. n + 1) \ {n + 1} = 1 .. n
    OBVIOUS
  <2>. QED BY <1>1, <2>1, <2>3, <2>4, Zenon
<1>. QED BY <1>1, <1>2, <1>3, Zenon

(* Walk() and Normalise() of the first segments are the first of the folds.  *)
LEMMA WalkIs ==
    ASSUME NEW S, NEW q \in Seq(S), NEW g, FoldOver("walk", q, 1 .. Len(q), g),
           NEW n \in 0 .. Len(q)
    PROVE  Directories!Walk(SubSeq(q, 1, n)) = g[1 .. n]
<1>. DEFINE u == SubSeq(q, 1, n)
            h == CHOOSE f : IsWalk(u, SUBSET DOMAIN u, f)
<1>1. n \in Nat /\ Len(q) \in Nat /\ 1 .. n \subseteq 1 .. Len(q) /\ "walk" \in AlongPath
  BY LenProperties DEF AlongPath
<1>2. DOMAIN u = 1 .. n /\ \A i \in 1 .. n : u[i] = q[i]
  BY <1>1
<1>3. Directories!Walk(u) = h[DOMAIN u]
  BY Zenon DEF Directories!Walk, Directories!FoldLeft, Directories!MapThenFoldSet, Directories!Max,
               IsWalk, Greatest, Walked
<1>. HIDE DEF u
<1>4. \E f : FoldOver("walk", u, DOMAIN u, f)
  BY <1>1, <1>2, AlongIsFoldable, FoldExists
<1>5. FoldOver("walk", u, 1 .. n, h)
  BY <1>2, <1>4, WalksAreFolds, Zenon DEF FoldOver
<1>. HIDE DEF h
<1>6. Alike("walk", q, u, 1 .. n)
  BY <1>2, Zenon DEF Alike
<1>7. Foldable("walk", 1 .. Len(q)) /\ 1 .. n \in (SUBSET (1 .. Len(q))) \cap (SUBSET (1 .. n))
  BY <1>1, AlongIsFoldable
<1>8. g[1 .. n] = h[1 .. n]
  BY <1>5, <1>6, <1>7, FoldsAgree
<1>. QED BY <1>2, <1>3, <1>8, Zenon DEF u

(* ... the whole of one for Normalise().                                     *)
LEMMA KeptIs ==
    ASSUME NEW S, NEW q \in Seq(S), NEW g, FoldOver("keep", q, 1 .. Len(q), g)
    PROVE  KeptOf(q) = g[1 .. Len(q)]
<1>. DEFINE h == CHOOSE f : IsKept(q, SUBSET DOMAIN q, f)
<1>1. Len(q) \in Nat /\ DOMAIN q = 1 .. Len(q) /\ "keep" \in AlongPath
  BY LenProperties DEF AlongPath
<1>2. KeptOf(q) = h[DOMAIN q]
  BY Zenon DEF KeptOf
<1>3. IsKept(q, SUBSET DOMAIN q, g)
  BY <1>1, WalksAreFolds, Zenon DEF FoldOver
<1>4. FoldOver("keep", q, 1 .. Len(q), h)
  BY <1>1, <1>3, WalksAreFolds, Zenon DEF FoldOver
<1>. HIDE DEF h
<1>5. Alike("keep", q, q, 1 .. Len(q))
  BY Zenon DEF Alike
<1>6. Foldable("keep", 1 .. Len(q)) /\ 1 .. Len(q) \in (SUBSET (1 .. Len(q))) \cap (SUBSET (1 .. Len(q)))
  BY <1>1, AlongIsFoldable
<1>7. g[1 .. Len(q)] = h[1 .. Len(q)]
  BY <1>4, <1>5, <1>6, FoldsAgree
<1>. QED BY <1>1, <1>2, <1>7, Zenon

(* What one segment does.                                                   *)
LEMMA SegmentIs ==
    ASSUME NEW at, NEW t \in Directories!Segments
    PROVE  \/ Folded("walk", at, t) = at /\ Folded("keep", at, t) = at
           \/ Folded("walk", at, t) = UpFrom(at) /\ Folded("keep", at, t) = UpFrom(at)
           \/ /\ t \in Names /\ Folded("walk", at, t) = Append(at, t)
              /\ Folded("keep", at, t) = IF Len(at) < MaxSegs THEN Append(at, t) ELSE at
<1>1. Folded("walk", at, t) = Walked(at, t) /\ Folded("keep", at, t) = Kept(at, t)
  BY Zenon DEF Folded
<1>2. CASE t \in {"", "."}
  BY <1>1, <1>2, Zenon DEF Walked, Kept
<1>3. CASE t = ".."
  <2>1. t \notin {"", "."}
    BY <1>3, Zenon
  <2>2. Walked(at, t) = UpFrom(at)
    BY <1>3, <2>1, Zenon DEF Walked, UpFrom
  <2>3. Kept(at, t) = UpFrom(at)
    BY <1>3, <2>1, Zenon DEF Kept, UpFrom
  <2>. QED BY <1>1, <2>2, <2>3, Zenon
<1>4. CASE t \in Names
  <2>1. t \notin {"", "."} /\ t # ".."
    BY <1>4, Zenon DEF Names
  <2>2. Walked(at, t) = Append(at, t)
    BY <2>1, Zenon DEF Walked
  <2>3. Kept(at, t) = IF Len(at) < MaxSegs THEN Append(at, t) ELSE at
    BY <2>1, Zenon DEF Kept
  <2>. QED BY <1>1, <1>4, <2>2, <2>3, Zenon
<1>. QED BY <1>2, <1>3, <1>4, Zenon DEF Directories!Segments, Names

LEMMA NamesOnly ==
    ASSUME NEW kind \in AlongPath, NEW at \in Seq(Names), NEW t \in Directories!Segments
    PROVE  Folded(kind, at, t) \in Seq(Names)
<1>1. UpFrom(at) \in Seq(Names)
  <2>1. CASE at = <<>>
    BY <2>1 DEF UpFrom
  <2>2. CASE at # <<>>
    <3>1. UpFrom(at) = SubSeq(at, 1, Len(at) - 1)
      BY <2>2 DEF UpFrom, Directories!Front
    <3>2. Len(at) \in Nat /\ \A i \in 1 .. Len(at) - 1 : at[i] \in Names
      BY ElementOfSeq
    <3>. QED BY <3>1, <3>2, SubSeqProperties
  <2>. QED BY <2>1, <2>2
<1>2. t \in Names => Append(at, t) \in Seq(Names)
  OBVIOUS
<1>3. kind = "walk" \/ kind = "keep"
  BY DEF AlongPath
<1>. QED BY <1>1, <1>2, <1>3, SegmentIs, Zenon

LEMMA PathsAreOfNames ==
    ASSUME NEW kind \in AlongPath, NEW q \in Seq(Directories!Segments),
           NEW g, FoldOver(kind, q, 1 .. Len(q), g)
    PROVE  \A n \in 0 .. Len(q) : g[1 .. n] \in Seq(Names)
<1>. DEFINE G == {n \in 0 .. Len(q) : g[1 .. n] \in Seq(Names)}
<1>1. Len(q) \in Nat
  OBVIOUS
<1>2. 0 \in G
  <2>1. g[1 .. 0] = <<>> /\ <<>> \in Seq(Names) /\ 0 \in 0 .. Len(q)
    BY <1>1, OneSegment
  <2>. QED BY <2>1, Zenon
<1>3. ASSUME NEW n \in 0 .. Len(q), n \in G, n < Len(q) PROVE n + 1 \in G
  <2>1. g[1 .. n + 1] = Folded(kind, g[1 .. n], q[n + 1])
    BY <1>1, <1>3, OneSegment
  <2>2. q[n + 1] \in Directories!Segments
    BY <1>1, <1>3, ElementOfSeq
  <2>3. g[1 .. n + 1] \in Seq(Names)
    BY <1>3, <2>1, <2>2, NamesOnly
  <2>. QED BY <1>1, <1>3, <2>3
<1>. HIDE DEF G
<1>4. \A n \in 0 .. Len(q) : n \in G
  BY <1>1, <1>2, <1>3, OneByOne
<1>. QED BY <1>4 DEF G

(* Where what a path means never needs more than MaxSegs, nothing is left out. *)
LEMMA NothingIsLeftOut ==
    ASSUME MaxSegs \in Nat, NEW q \in Seq(Directories!Segments), NEW g, NEW h,
           FoldOver("walk", q, 1 .. Len(q), g), FoldOver("keep", q, 1 .. Len(q), h),
           \A n \in 1 .. Len(q) : Len(g[1 .. n]) <= MaxSegs
    PROVE  h[1 .. Len(q)] = g[1 .. Len(q)]
<1>. DEFINE G == {n \in 0 .. Len(q) : h[1 .. n] = g[1 .. n]}
<1>1. Len(q) \in Nat /\ "walk" \in AlongPath /\ "keep" \in AlongPath
  BY DEF AlongPath
<1>2. 0 \in G
  <2>1. g[1 .. 0] = <<>> /\ h[1 .. 0] = <<>>
    BY <1>1, OneSegment
  <2>. QED BY <1>1, <2>1
<1>3. ASSUME NEW n \in 0 .. Len(q), n \in G, n < Len(q) PROVE n + 1 \in G
  <2>. DEFINE at == g[1 .. n]
              t == q[n + 1]
  <2>1. g[1 .. n + 1] = Folded("walk", at, t) /\ h[1 .. n + 1] = Folded("keep", at, t)
    BY <1>1, <1>3, OneSegment
  <2>2. t \in Directories!Segments /\ at \in Seq(Names)
    BY <1>1, <1>3, ElementOfSeq, PathsAreOfNames
  <2>3. n + 1 \in 1 .. Len(q) /\ n + 1 \in 0 .. Len(q)
    BY <1>1, <1>3
  <2>4. Len(Folded("walk", at, t)) <= MaxSegs
    BY <2>1, <2>3
  <2>. HIDE DEF at, t
  <2>5. ASSUME t \in Names, Folded("walk", at, t) = Append(at, t) PROVE Len(at) < MaxSegs
    <3>1. Len(Append(at, t)) = Len(at) + 1 /\ Len(at) \in Nat
      BY <2>2, <2>5
    <3>. QED BY <2>4, <2>5, <3>1
  <2>6. Folded("keep", at, t) = Folded("walk", at, t)
    <3>1. \/ Folded("walk", at, t) = at /\ Folded("keep", at, t) = at
          \/ Folded("walk", at, t) = UpFrom(at) /\ Folded("keep", at, t) = UpFrom(at)
          \/ /\ t \in Names /\ Folded("walk", at, t) = Append(at, t)
             /\ Folded("keep", at, t) = IF Len(at) < MaxSegs THEN Append(at, t) ELSE at
      BY <2>2, SegmentIs, Zenon
    <3>2. CASE t \in Names /\ Folded("walk", at, t) = Append(at, t)
                /\ Folded("keep", at, t) = IF Len(at) < MaxSegs THEN Append(at, t) ELSE at
      <4>1. Len(at) < MaxSegs
        BY <2>5, <3>2
      <4>. QED BY <3>2, <4>1, Zenon
    <3>3. CASE Folded("walk", at, t) = at /\ Folded("keep", at, t) = at
      BY <3>3, Zenon
    <3>4. CASE Folded("walk", at, t) = UpFrom(at) /\ Folded("keep", at, t) = UpFrom(at)
      BY <3>4, Zenon
    <3>. QED BY <3>1, <3>2, <3>3, <3>4, Zenon
  <2>. QED BY <2>1, <2>3, <2>6
<1>. HIDE DEF G
<1>4. \A n \in 0 .. Len(q) : n \in G
  BY <1>1, <1>2, <1>3, OneByOne
<1>. QED BY <1>1, <1>4 DEF G

LEMMA WalkOfOne == \A e : Directories!Walk(<<e>>) = Folded("walk", <<>>, e)
<1>. SUFFICES ASSUME NEW e PROVE Directories!Walk(<<e>>) = Folded("walk", <<>>, e)
  OBVIOUS
<1>1. PICK u \in Seq({e}) : u = <<e>> /\ Len(u) = 1 /\ u[1] = e
  <2>1. <<e>> \in Seq({e}) /\ Len(<<e>>) = 1 /\ <<e>>[1] = e
    OBVIOUS
  <2>. QED BY <2>1, Zenon
<1>2. PICK m \in Nat : m = Len(u)
  BY <1>1
<1>3. "walk" \in AlongPath /\ m \in 0 .. Len(u) /\ 0 \in 0 .. m /\ 0 < m /\ 0 + 1 = m /\ m = 1
  BY <1>1, <1>2 DEF AlongPath
<1>4. PICK g : FoldOver("walk", u, 1 .. m, g)
  BY <1>3, AlongIsFoldable, FoldExists
<1>5. SubSeq(u, 1, m) = u
  BY <1>2, SubSeqFull
<1>6. Directories!Walk(SubSeq(u, 1, m)) = g[1 .. m]
  <2>1. FoldOver("walk", u, 1 .. Len(u), g)
    BY <1>2, <1>4, Zenon
  <2>. QED BY <1>3, <2>1, WalkIs
<1>7. g[1 .. 0] = <<>> /\ g[1 .. 0 + 1] = Folded("walk", g[1 .. 0], u[0 + 1])
  <2>3. "walk" \in AlongPath
    BY <1>3
  <2>1. g[1 .. 0] = <<>>
    BY <1>4, <2>3, OneSegment
  <2>2. \A n \in 0 .. m : n < m => g[1 .. n + 1] = Folded("walk", g[1 .. n], u[n + 1])
    BY <1>4, <2>3, OneSegment
  <2>. QED BY <1>3, <2>1, <2>2, Zenon
<1>8. g[1 .. m] = Folded("walk", <<>>, u[1])
  BY <1>3, <1>7, Zenon
<1>. QED BY <1>1, <1>5, <1>6, <1>8, Zenon

(* Of names, a path means itself.                                           *)
LEMMA NamesAreMeant == ASSUME NEW q \in Seq(Names) PROVE Directories!Walk(q) = q
<1>1. Len(q) \in Nat /\ "walk" \in AlongPath /\ SubSeq(q, 1, Len(q)) = q /\ Len(q) \in 0 .. Len(q)
  BY SubSeqFull DEF AlongPath
<1>2. PICK g : FoldOver("walk", q, 1 .. Len(q), g)
  BY <1>1, AlongIsFoldable, FoldExists
<1>. DEFINE G == {n \in 0 .. Len(q) : g[1 .. n] = SubSeq(q, 1, n)}
<1>3. 0 \in G
  <2>1. g[1 .. 0] = <<>>
    BY <1>1, <1>2, OneSegment, Zenon
  <2>3. 0 \in 0 .. Len(q)
    BY <1>1
  <2>2. SubSeq(q, 1, 0) = <<>>
    BY SubSeqEmpty
  <2>. QED BY <2>1, <2>2, <2>3, Zenon
<1>4. ASSUME NEW n \in 0 .. Len(q), n \in G, n < Len(q) PROVE n + 1 \in G
  <2>1. g[1 .. n + 1] = Folded("walk", SubSeq(q, 1, n), q[n + 1])
    <3>1. g[1 .. n] = SubSeq(q, 1, n)
      BY <1>4
    <3>2. g[1 .. n + 1] = Folded("walk", g[1 .. n], q[n + 1])
      BY <1>1, <1>2, <1>4, OneSegment
    <3>. QED BY <3>1, <3>2, Zenon
  <2>2. n + 1 \in 0 .. Len(q) /\ n + 1 \in 1 .. Len(q) /\ q[n + 1] \in Names
    BY <1>1, <1>4, ElementOfSeq
  <2>3. Folded("walk", SubSeq(q, 1, n), q[n + 1]) = Append(SubSeq(q, 1, n), q[n + 1])
    <3>1. q[n + 1] \notin {"", "."} /\ q[n + 1] # ".."
      BY <2>2, Zenon DEF Names
    <3>. QED BY <3>1, Zenon DEF Folded, Walked
  <2>4. Append(SubSeq(q, 1, n), q[n + 1]) = SubSeq(q, 1, n + 1)
    BY <1>1, <1>4
  <2>. QED BY <2>1, <2>2, <2>3, <2>4
<1>. HIDE DEF G
<1>5. \A n \in 0 .. Len(q) : n \in G
  BY <1>1, <1>3, <1>4, OneByOne
<1>6. g[1 .. Len(q)] = SubSeq(q, 1, Len(q))
  BY <1>1, <1>5 DEF G
<1>. QED BY <1>1, <1>2, <1>6, WalkIs

(* esp_normalise() takes as many of the segments kept as there is room for.  *)
WithRoom(kept) == {n \in 0 .. Len(kept) : Directories!Chars(SubSeq(kept, 1, n)) + 1 < CwdMax}
Most(S) == CHOOSE n \in S : \A k \in S : k <= n
NoName == <<"">>

LEMMA NormaliseIs ==
    ASSUME NEW q
    PROVE  Directories!Normalise(q) =
             IF Most(WithRoom(KeptOf(q))) = 0 THEN NoName
             ELSE SubSeq(KeptOf(q), 1, Most(WithRoom(KeptOf(q))))
  BY Zenon DEF Directories!Normalise, Directories!FoldLeft, Directories!MapThenFoldSet, Directories!Max,
               KeptOf, IsKept, Kept, Greatest, WithRoom, Most, NoName

LEMMA PathsHave == MaxSegs \in Nat /\ MaxLen \in Nat /\ CwdMax \in Nat /\ CwdMax > 1
  BY PathsHaveRoom DEF Directories!PathsAssumption

LEMMA KeptIsOfNames == ASSUME NEW q \in Seq(Directories!Segments) PROVE KeptOf(q) \in Seq(Names)
<1>1. Len(q) \in Nat /\ "keep" \in AlongPath /\ Len(q) \in 0 .. Len(q)
  BY DEF AlongPath
<1>2. PICK g : FoldOver("keep", q, 1 .. Len(q), g)
  BY <1>1, AlongIsFoldable, FoldExists
<1>3. KeptOf(q) = g[1 .. Len(q)]
  BY <1>2, KeptIs
<1>. QED BY <1>1, <1>2, <1>3, PathsAreOfNames

(* A path of nothing has no characters.                                     *)
Wider(n, t) == n + 1 + (IF t = ".." THEN 2 ELSE IF t = "" THEN 0 ELSE 1)
IsWidth(q, D, g) == g = [s \in D |-> IF s = {} THEN 0 ELSE Wider(g[s \ {Greatest(s)}], q[Greatest(s)])]

LEMMA NoCharsOfNothing == Directories!Chars(<<>>) = 0
<1>. DEFINE q == <<>>
            h == CHOOSE g : IsWidth(q, SUBSET DOMAIN q, g)
            z == [s \in SUBSET DOMAIN q |-> 0]
<1>1. Directories!Chars(q) = h[DOMAIN q]
  BY Zenon DEF Directories!Chars, Directories!FoldLeft, Directories!MapThenFoldSet, Directories!Max,
               IsWidth, Greatest, Wider
<1>2. DOMAIN q = {}
  OBVIOUS
<1>. HIDE DEF q
<1>3. \A s \in SUBSET DOMAIN q : s = {}
  BY <1>2
<1>4. z = [s \in SUBSET DOMAIN q |-> IF s = {} THEN 0 ELSE Wider(z[s \ {Greatest(s)}], q[Greatest(s)])]
  <2>. HIDE DEF z
  <2>1. z = [s \in SUBSET DOMAIN q |-> 0]
    BY DEF z
  <2>. QED BY <1>3, <2>1, Zenon
<1>5. IsWidth(q, SUBSET DOMAIN q, h)
  BY <1>4, Zenon DEF IsWidth
<1>6. h[DOMAIN q] = 0
  <2>. HIDE DEF h
  <2>. QED BY <1>2, <1>3, <1>5, Zenon DEF IsWidth
<1>. QED BY <1>1, <1>6 DEF q

LEMMA SomeFit ==
    ASSUME NEW q \in Seq(Names)
    PROVE  Most(WithRoom(q)) \in WithRoom(q) /\ \A k \in WithRoom(q) : k <= Most(WithRoom(q))
<1>1. Len(q) \in Nat
  OBVIOUS
<1>2. 0 \in WithRoom(q)
  <2>1. SubSeq(q, 1, 0) = <<>>
    BY SubSeqEmpty
  <2>2. 0 \in 0 .. Len(q) /\ 0 + 1 < CwdMax
    BY <1>1, PathsHave
  <2>3. Directories!Chars(SubSeq(q, 1, 0)) + 1 < CwdMax
    BY <2>1, <2>2, NoCharsOfNothing, Zenon
  <2>. QED BY <2>2, <2>3, Zenon DEF WithRoom
<1>3. WithRoom(q) \in SUBSET (0 .. Len(q))
  BY Zenon DEF WithRoom
<1>. DEFINE S == WithRoom(q)
            from == {m \in Nat : \E x \in S : x = Len(q) - m}
<1>. HIDE DEF S
<1>4. S \in SUBSET (0 .. Len(q)) /\ 0 \in S
  BY <1>2, <1>3 DEF S
<1>5. from \in SUBSET Nat /\ from # {}
  <2>1. Len(q) \in Nat /\ 0 = Len(q) - Len(q)
    BY <1>1
  <2>. QED BY <1>4, <2>1
<1>6. PICK m \in from : \A k \in from : m <= k
  <2>. HIDE DEF from
  <2>. QED BY <1>5, LeastOfNaturals
<1>7. PICK x \in S : x = Len(q) - m
  BY <1>6
<1>8. ASSUME NEW y \in S PROVE y <= x
  <2>1. Len(q) - y \in Nat /\ y = Len(q) - (Len(q) - y) /\ y \in Nat /\ x \in Nat /\ m \in Nat
    BY <1>1, <1>4, <1>6, <1>7
  <2>2. Len(q) - y \in from
    BY <2>1
  <2>3. m <= Len(q) - y
    BY <1>6, <2>2
  <2>. QED BY <1>1, <1>7, <2>1, <2>3
<1>. QED BY <1>7, <1>8, Zenon DEF Most, S

LEMMA NormaliseIsTyped ==
    ASSUME NEW q \in Seq(Directories!Segments)
    PROVE  Directories!Normalise(q) \in Seq(Directories!Segments)
<1>1. PICK k \in Seq(Names) : k = KeptOf(q)
  BY KeptIsOfNames
<1>2. PICK n : n = Most(WithRoom(k)) /\ n \in WithRoom(k)
  BY SomeFit
<1>3. n \in 0 .. Len(k)
  BY <1>2, Zenon DEF WithRoom
<1>4. SubSeq(k, 1, n) \in Seq(Names)
  <2>1. n \in Int /\ \A i \in 1 .. n : k[i] \in Names
    BY <1>3, ElementOfSeq
  <2>. QED BY <2>1, SubSeqProperties
<1>5. Names \subseteq Directories!Segments /\ "" \in Directories!Segments
  BY Zenon DEF Names, Directories!Segments
<1>6. NoName \in Seq(Directories!Segments)
  <2>1. PICK e \in Directories!Segments : e = ""
    BY <1>5, Zenon
  <2>2. <<e>> \in Seq(Directories!Segments)
    OBVIOUS
  <2>. QED BY <2>1, <2>2, Zenon DEF NoName
<1>7. SubSeq(k, 1, n) \in Seq(Directories!Segments)
  BY <1>4, <1>5, SeqMonotonic
<1>. QED BY <1>1, <1>2, <1>6, <1>7, NormaliseIs, Zenon

(* Where there is room, what is normalised means what it did.               *)
LEMMA NormaliseKeeps ==
    ASSUME NEW q \in Seq(Directories!Segments),
           \A n \in 1 .. Len(q) : Len(Directories!Walk(SubSeq(q, 1, n))) <= MaxSegs,
           Directories!Chars(Directories!Walk(q)) + 1 < CwdMax
    PROVE  Directories!Walk(Directories!Normalise(q)) = Directories!Walk(q)
<1>1. Len(q) \in Nat /\ "walk" \in AlongPath /\ "keep" \in AlongPath /\ Len(q) \in 0 .. Len(q)
  BY DEF AlongPath
<1>2. PICK g : FoldOver("walk", q, 1 .. Len(q), g)
  BY <1>1, AlongIsFoldable, FoldExists
<1>3. PICK h : FoldOver("keep", q, 1 .. Len(q), h)
  BY <1>1, AlongIsFoldable, FoldExists
<1>4. \A n \in 0 .. Len(q) : Directories!Walk(SubSeq(q, 1, n)) = g[1 .. n]
  BY <1>2, WalkIs
<1>5. Directories!Walk(q) = g[1 .. Len(q)]
  <2>1. SubSeq(q, 1, Len(q)) = q
    BY SubSeqFull
  <2>. QED BY <1>1, <1>4, <2>1
<1>6. \A n \in 1 .. Len(q) : Len(g[1 .. n]) <= MaxSegs
  <2>1. \A n \in 1 .. Len(q) : n \in 0 .. Len(q)
    BY <1>1
  <2>. QED BY <1>4, <2>1, Zenon
<1>7. h[1 .. Len(q)] = g[1 .. Len(q)]
  BY <1>2, <1>3, <1>6, NothingIsLeftOut, PathsHave
<1>8. KeptOf(q) = Directories!Walk(q)
  BY <1>3, <1>5, <1>7, KeptIs
<1>9. PICK k \in Seq(Names) : k = KeptOf(q)
  BY KeptIsOfNames
<1>10. Most(WithRoom(k)) = Len(k)
  <2>1. SubSeq(k, 1, Len(k)) = k /\ Len(k) \in 0 .. Len(k)
    BY SubSeqFull
  <2>2. Len(k) \in WithRoom(k)
    BY <1>8, <1>9, <2>1, Zenon DEF WithRoom
  <2>3. Most(WithRoom(k)) \in 0 .. Len(k) /\ Len(k) <= Most(WithRoom(k))
    <3>1. Most(WithRoom(k)) \in WithRoom(k) /\ Len(k) <= Most(WithRoom(k))
      BY <2>2, SomeFit
    <3>. QED BY <3>1, Zenon DEF WithRoom
  <2>. QED BY <2>3
<1>11. CASE Len(k) = 0
  <2>1. Directories!Normalise(q) = NoName /\ k = <<>>
    <3>1. k = <<>>
      BY <1>11
    <3>. QED BY <1>9, <1>10, <1>11, <3>1, NormaliseIs, Zenon
  <2>2. Directories!Walk(NoName) = <<>>
    <3>1. Directories!Walk(<<"">>) = Folded("walk", <<>>, "")
      BY WalkOfOne, Zenon
    <3>2. Folded("walk", <<>>, "") = <<>>
      BY Zenon DEF Folded, Walked
    <3>. QED BY <3>1, <3>2, Zenon DEF NoName
  <2>. QED BY <1>8, <1>9, <2>1, <2>2, Zenon
<1>12. CASE Len(k) # 0
  <2>1. Directories!Normalise(q) = SubSeq(k, 1, Len(k))
    BY <1>9, <1>10, <1>12, NormaliseIs, Zenon
  <2>2. SubSeq(k, 1, Len(k)) = k /\ Directories!Walk(k) = k
    BY SubSeqFull, NamesAreMeant
  <2>. QED BY <1>8, <1>9, <2>1, <2>2, Zenon
<1>. QED BY <1>11, <1>12

-----------------------------------------------------------------------------
CwdIsPath == cwd \in Seq(Directories!Segments)

LEMMA PathsAre ==
    ASSUME NEW p \in Directories!Paths
    PROVE  p.segs \in Seq(Directories!Segments) /\ (p.abs = TRUE \/ p.abs = FALSE)
<1>5. PICK s \in UNION {[1 .. n -> Directories!Segments] : n \in 1 .. MaxLen} :
        p = Directories!Absolute(s) \/ p = Directories!Relative(s)
  BY Zenon DEF Directories!Paths
<1>1. PICK n \in 1 .. MaxLen : s \in [1 .. n -> Directories!Segments]
  BY Zenon
<1>2. s \in Seq(Directories!Segments)
  <2>1. n \in Nat
    BY <1>1, PathsHave
  <2>. QED BY <1>1, <2>1
<1>3. p.segs = s
  BY <1>5 DEF Directories!Absolute, Directories!Relative
<1>4. p.abs = TRUE \/ p.abs = FALSE
  BY <1>5 DEF Directories!Absolute, Directories!Relative
<1>. QED BY <1>2, <1>3, <1>4

LEMMA AbsoluteIs ==
    \A s : Directories!Absolute(s).abs = TRUE /\ Directories!Absolute(s).segs = s
  BY DEF Directories!Absolute

(* What a path is resolved to is itself or an absolute one, normalised.     *)
LEMMA ResolvedIs ==
    ASSUME CwdIsPath, NEW p \in Directories!Paths
    PROVE  LET whole == IF p.abs THEN p.segs ELSE cwd \o p.segs IN
           /\ whole \in Seq(Directories!Segments)
           /\ \/ Directories!Resolve(p) = p
              \/ Directories!Resolve(p) = Directories!Absolute(Directories!Normalise(whole))
<1>1. CASE p.abs
  BY <1>1, PathsAre, Zenon DEF Directories!Resolve
<1>2. CASE ~p.abs
  <2>1. cwd \o p.segs \in Seq(Directories!Segments)
    BY PathsAre, ConcatProperties DEF CwdIsPath
  <2>. QED BY <1>2, <2>1, Zenon DEF Directories!Resolve
<1>. QED BY <1>1, <1>2

LEMMA CwdStaysPath == CwdIsPath /\ [Directories!Next]_cwd => CwdIsPath'
<1>. SUFFICES ASSUME CwdIsPath, Directories!Next PROVE CwdIsPath'
  BY DEF CwdIsPath
<1>1. PICK p \in Directories!Paths : cwd' = Directories!Resolve(p).segs
  BY Zenon DEF Directories!Next, Directories!Chdir
<1>2. CASE Directories!Resolve(p) = p
  BY <1>1, <1>2, PathsAre DEF CwdIsPath
<1>3. ASSUME NEW q \in Seq(Directories!Segments),
             Directories!Resolve(p) = Directories!Absolute(Directories!Normalise(q))
      PROVE  CwdIsPath'
  BY <1>1, <1>3, AbsoluteIs, NormaliseIsTyped DEF CwdIsPath
<1>. QED BY <1>2, <1>3, ResolvedIs

LEMMA CwdBegins == Directories!Init => CwdIsPath
<1>1. PICK e \in Directories!Segments : e = "a"
  BY Zenon DEF Directories!Segments
<1>2. <<e>> \in Seq(Directories!Segments)
  OBVIOUS
<1>. QED BY <1>1, <1>2, Zenon DEF Directories!Init, CwdIsPath

(* Wherever a session's working directory has gone, a path-taking call       *)
(* reaches what its path means, or fails, for paths of any length and arrays *)
(* of any size, as long as the arrays have room for what is meant            *)
(* (esp_resolve(), esp_normalise()).                                         *)
THEOREM CallsReachTheirFile == SessionsSpec => []PathsAreKept
<1>1. SessionsInit => CwdIsPath
  BY CwdBegins DEF SessionsInit
<1>2. [SessionsNext]_allVars => [Directories!Next]_cwd
  BY DEF SessionsNext, allVars, others, Moves
<1>3. CwdIsPath /\ [SessionsNext]_allVars => CwdIsPath'
  BY <1>2, CwdStaysPath
<1>4. ASSUME CwdIsPath, NEW p \in Directories!Paths, Directories!Modest(p) PROVE Directories!Reaches(p)
  <2>. DEFINE whole == IF p.abs THEN p.segs ELSE cwd \o p.segs
  <2>1. /\ whole \in Seq(Directories!Segments)
        /\ \/ Directories!Resolve(p) = p
           \/ Directories!Resolve(p) = Directories!Absolute(Directories!Normalise(whole))
    BY <1>4, ResolvedIs, Zenon
  <2>2. Directories!Means(p) = Directories!Walk(whole)
    BY Zenon DEF Directories!Means
  <2>3. /\ \A n \in 1 .. Len(whole) : Len(Directories!Walk(SubSeq(whole, 1, n))) <= MaxSegs
        /\ Directories!Chars(Directories!Walk(whole)) + 1 < CwdMax
    BY <1>4, Zenon DEF Directories!Modest
  <2>4. PICK q \in Seq(Directories!Segments) : q = whole
    BY <2>1, Zenon
  <2>5. Directories!Walk(Directories!Normalise(q)) = Directories!Walk(q)
    BY <2>3, <2>4, NormaliseKeeps
  <2>6. CASE Directories!Resolve(p) = Directories!Absolute(Directories!Normalise(whole))
    BY <2>2, <2>4, <2>5, <2>6, AbsoluteIs, Zenon DEF Directories!Reaches
  <2>7. CASE Directories!Resolve(p) = p
    BY <2>2, <2>7, PathsAre, Zenon DEF Directories!Reaches
  <2>. QED BY <2>1, <2>6, <2>7
<1>5. CwdIsPath => PathsAreKept
  BY <1>4, Zenon DEF PathsAreKept, Directories!PathsAreKept
<1>. QED BY <1>1, <1>3, <1>5, PTL DEF SessionsSpec

-----------------------------------------------------------------------------
(* VimHeap: sums of sizes.  MapThenSumSet takes a set's elements as CHOOSE   *)
(* gives them; these lemmas are what makes its sum that of the set.          *)

(* g is, on the subsets of S, the sum of the sizes in b.                    *)
IsSum(b, S, g) ==
    g = [s \in SUBSET S |-> IF s = {} THEN 0 ELSE b[Pick(s)].size + g[s \ {Pick(s)}]]

SumOf(b, S) == (CHOOSE g : IsSum(b, S, g))[S]

AreSized(b, S) == \A x \in S : b[x].size \in Nat

SameSizes(b, c, S) == \A x \in S : b[x].size = c[x].size

LEMMA TotalIs == ASSUME NEW S PROVE Heap!Total(S) = SumOf(blocks, S)
  BY Zenon DEF Heap!Total, Heap!MapThenSumSet, Heap!MapThenFoldSet, SumOf, IsSum, Pick

LEMMA Picked == ASSUME NEW s, s # {} PROVE Pick(s) \in s
  BY DEF Pick

LEMMA SumsAreFolds ==
    ASSUME NEW b, NEW S
    PROVE  /\ \A g : IsSum(b, S, g) <=> FoldOver("sum", b, S, g)
           /\ IsFiniteSet(S) => Foldable("sum", S)
<1>1. \A s : Chosen("sum", s) = Pick(s)
  BY Zenon DEF Chosen
<1>2. ASSUME NEW g PROVE IsSum(b, S, g) <=> FoldOver("sum", b, S, g)
  <2>1. Base("sum") = 0 /\ \A at, x : Folded("sum", at, x) = x.size + at
    BY Zenon DEF Base, Folded
  <2>2. [s \in SUBSET S |-> IF s = {} THEN 0 ELSE b[Pick(s)].size + g[s \ {Pick(s)}]]
      = [s \in SUBSET S |-> IF s = {} THEN Base("sum")
                            ELSE Folded("sum", g[s \ {Chosen("sum", s)}], b[Chosen("sum", s)])]
    BY <1>1, <2>1, Zenon
  <2>. QED BY <2>2, Zenon DEF IsSum, FoldOver, IsFold
<1>3. \A s : s # {} => Pick(s) \in s
  BY Picked
<1>. QED BY <1>1, <1>2, <1>3, Zenon DEF Foldable

LEMMA SumExists ==
    ASSUME NEW b, NEW S, IsFiniteSet(S)
    PROVE  \E g : IsSum(b, S, g)
  BY SumsAreFolds, FoldExists

(* What it is on a set is a matter of that set's sizes.                     *)
LEMMA SumsAgree ==
    ASSUME NEW b, NEW c, NEW S, NEW T, IsFiniteSet(S),
           NEW g, IsSum(b, S, g), NEW h, IsSum(c, T, h),
           NEW U \in (SUBSET S) \cap (SUBSET T)
    PROVE  SameSizes(b, c, U) => g[U] = h[U]
<1>1. ASSUME SameSizes(b, c, U) PROVE Alike("sum", b, c, U)
  BY <1>1, Zenon DEF SameSizes, Alike, Folded
<1>. QED BY <1>1, SumsAreFolds, FoldsAgree

LEMMA SumIs ==
    ASSUME NEW b, NEW S, IsFiniteSet(S), NEW g, IsSum(b, S, g), NEW U \in SUBSET S
    PROVE  SumOf(b, U) = g[U]
<1>1. IsFiniteSet(U)
  BY FS_Subset
<1>. DEFINE h == CHOOSE h : IsSum(b, U, h)
<1>2. IsSum(b, U, h)
  BY <1>1, SumExists
<1>3. SumOf(b, U) = h[U]
  BY Zenon DEF SumOf
<1>. HIDE DEF h
<1>4. h[U] = g[U]
  <2>1. U \in (SUBSET S) \cap (SUBSET U)
    OBVIOUS
  <2>2. SameSizes(b, b, U)
    BY DEF SameSizes
  <2>. QED BY <1>1, <1>2, <2>1, <2>2, SumsAgree
<1>. QED BY <1>3, <1>4

LEMMA SumStays ==
    ASSUME NEW b, NEW c, NEW S, IsFiniteSet(S), SameSizes(b, c, S)
    PROVE  SumOf(b, S) = SumOf(c, S)
<1>1. PICK g : IsSum(b, S, g)
  BY SumExists
<1>2. PICK h : IsSum(c, S, h)
  BY SumExists
<1>3. S \in (SUBSET S) \cap (SUBSET S) /\ S \in SUBSET S
  OBVIOUS
<1>4. g[S] = h[S]
  BY <1>1, <1>2, <1>3, SumsAgree
<1>. QED BY <1>1, <1>2, <1>3, <1>4, SumIs

LEMMA SumOfNone == ASSUME NEW b PROVE SumOf(b, {}) = 0
<1>1. PICK g : IsSum(b, {}, g)
  BY SumExists, FS_EmptySet
<1>2. g[{}] = 0
  BY <1>1 DEF IsSum
<1>3. {} \in SUBSET {} /\ IsFiniteSet({})
  BY FS_EmptySet
<1>. QED BY <1>1, <1>2, <1>3, SumIs

LEMMA SumIsNat ==
    ASSUME NEW b, NEW S, IsFiniteSet(S), AreSized(b, S)
    PROVE  SumOf(b, S) \in Nat
<1>1. PICK g : IsSum(b, S, g)
  BY SumExists
<1>. DEFINE bad == {s \in SUBSET S : g[s] \notin Nat}
<1>2. ASSUME bad # {} PROVE FALSE
  <2>1. bad \in SUBSET (SUBSET S)
    OBVIOUS
  <2>2. PICK s \in bad : \A x \in s : s \ {x} \notin bad
    <3>. HIDE DEF bad
    <3>. QED BY <1>2, <2>1, LeastOfSets
  <2>3. g[s] = IF s = {} THEN 0 ELSE b[Pick(s)].size + g[s \ {Pick(s)}]
    BY <1>1, <2>2, Zenon DEF IsSum
  <2>4. s # {} => Pick(s) \in s
    BY Picked
  <2>5. s # {} => b[Pick(s)].size \in Nat /\ g[s \ {Pick(s)}] \in Nat
    BY <2>2, <2>4 DEF AreSized
  <2>. QED BY <2>2, <2>3, <2>5
<1>. QED BY <1>1, <1>2, SumIs

(* Whichever element is taken first.                                        *)
LEMMA SumLess ==
    ASSUME NEW b, NEW S, IsFiniteSet(S), AreSized(b, S), NEW i \in S
    PROVE  SumOf(b, S) = b[i].size + SumOf(b, S \ {i})
<1>1. PICK g : IsSum(b, S, g)
  BY SumExists
<1>. DEFINE bad == {s \in SUBSET S : \E x \in s : g[s] # b[x].size + g[s \ {x}]}
<1>2. \A s \in SUBSET S : g[s] \in Nat
  <2>1. ASSUME NEW s \in SUBSET S PROVE g[s] \in Nat
    <3>1. IsFiniteSet(s) /\ AreSized(b, s)
      BY FS_Subset DEF AreSized
    <3>2. SumOf(b, s) \in Nat
      BY <3>1, SumIsNat
    <3>. QED BY <1>1, <3>2, SumIs
  <2>. QED BY <2>1
<1>3. ASSUME bad # {} PROVE FALSE
  <2>1. bad \in SUBSET (SUBSET S)
    OBVIOUS
  <2>2. PICK s \in bad : \A x \in s : s \ {x} \notin bad
    <3>. HIDE DEF bad
    <3>. QED BY <1>3, <2>1, LeastOfSets
  <2>3. PICK x \in s : g[s] # b[x].size + g[s \ {x}]
    BY <2>2
  <2>4. PICK y : y = Pick(s)
    OBVIOUS
  <2>5. y \in s /\ g[s] = b[y].size + g[s \ {y}]
    <3>1. s \in SUBSET S /\ s # {}
      BY <2>2, <2>3
    <3>2. g[s] = IF s = {} THEN 0 ELSE b[Pick(s)].size + g[s \ {Pick(s)}]
      BY <1>1, <3>1, Zenon DEF IsSum
    <3>. QED BY <2>4, <3>1, <3>2, Picked
  <2>6. y # x
    BY <2>3, <2>5
  <2>7. g[s \ {y}] = b[x].size + g[(s \ {y}) \ {x}]
    BY <2>2, <2>5, <2>6
  <2>8. g[s \ {x}] = b[y].size + g[(s \ {x}) \ {y}]
    BY <2>2, <2>5, <2>6
  <2>9. (s \ {x}) \ {y} = (s \ {y}) \ {x}
    OBVIOUS
  <2>10. /\ b[x].size \in Nat /\ b[y].size \in Nat
         /\ g[(s \ {y}) \ {x}] \in Nat
    BY <1>2, <2>2, <2>5 DEF AreSized
  <2>11. PICK m \in Nat, n \in Nat, r \in Nat :
           m = b[x].size /\ n = b[y].size /\ r = g[(s \ {y}) \ {x}]
    BY <2>10
  <2>12. g[s] = n + (m + r) /\ g[s \ {x}] = n + r
    BY <2>5, <2>7, <2>8, <2>9, <2>11, Zenon
  <2>13. n + (m + r) = m + (n + r)
    BY <2>11
  <2>. QED BY <2>3, <2>11, <2>12, <2>13, Zenon
<1>4. g[S] = b[i].size + g[S \ {i}]
  BY <1>3
<1>. QED BY <1>1, <1>4, SumIs

LEMMA SumMore ==
    ASSUME NEW b, NEW S, IsFiniteSet(S), NEW i, i \notin S,
           AreSized(b, S \cup {i})
    PROVE  SumOf(b, S \cup {i}) = b[i].size + SumOf(b, S)
<1>1. /\ IsFiniteSet(S \cup {i}) /\ (S \cup {i}) \ {i} = S
      /\ i \in S \cup {i}
  BY FS_AddElement
<1>. QED BY <1>1, SumLess

-----------------------------------------------------------------------------
(* Of the blocks in b: those of Vim's, those of others, and their bytes.     *)
Block == [ours : BOOLEAN, size : Nat, asked : Nat]
AreBlocks(b) == b \in [Ids -> Block \cup {NoBlock}]
Vims(b) == {i \in Ids : b[i] # NoBlock /\ b[i].ours = TRUE}
Aliens(b) == {i \in Ids : b[i] # NoBlock /\ b[i].ours = FALSE}
Held(b) == SumOf(b, Vims(b))
Heads(b) == Header * Cardinality(Vims(b))
Lent(b) == SumOf(b, Aliens(b))

LEMMA HeapIs ==
    /\ IsFiniteSet(Ids) /\ NoBlock \notin Block
    /\ Word \in Nat /\ Header \in Nat /\ Room \in Nat /\ Budget \in Nat
    /\ Header < Word /\ Room < Word - Header /\ Budget < Word
<1>1. Heap!IsFiniteSet(Ids) = IsFiniteSet(Ids)
  BY DEF Heap!IsFiniteSet, IsFiniteSet
<1>. QED BY <1>1, HeapIsSized DEF Heap!HeapAssumption, Block

LEMMA SizesAre ==
    ASSUME NEW b, AreBlocks(b)
    PROVE  /\ IsFiniteSet(Vims(b)) /\ IsFiniteSet(Aliens(b))
           /\ Vims(b) \subseteq Ids /\ Aliens(b) \subseteq Ids
           /\ AreSized(b, Vims(b)) /\ AreSized(b, Aliens(b))
           /\ \A i \in Vims(b) \cup Aliens(b) : b[i].size \in Nat /\ b[i].asked \in Nat
           /\ \A i \in Vims(b) : i \notin Aliens(b)
<1>1. Vims(b) \in SUBSET Ids /\ Aliens(b) \in SUBSET Ids
  BY DEF Vims, Aliens
<1>2. IsFiniteSet(Vims(b)) /\ IsFiniteSet(Aliens(b))
  BY <1>1, HeapIs, FS_Subset
<1>3. ASSUME NEW i \in Ids, b[i] # NoBlock PROVE b[i].size \in Nat /\ b[i].asked \in Nat
  BY <1>3 DEF AreBlocks, Block
<1>. QED BY <1>1, <1>2, <1>3 DEF Vims, Aliens, AreSized

LEMMA HeldIsNat ==
    ASSUME NEW b, AreBlocks(b)
    PROVE  Held(b) \in Nat /\ Lent(b) \in Nat /\ Cardinality(Vims(b)) \in Nat /\ Heads(b) \in Nat
<1>1. Held(b) \in Nat /\ Lent(b) \in Nat
  BY SizesAre, SumIsNat DEF Held, Lent
<1>2. Cardinality(Vims(b)) \in Nat
  BY SizesAre, FS_CardinalityType
<1>. QED BY <1>1, <1>2, HeapIs DEF Heads

IsPut(b, c, i, ours, n, a) == c = [b EXCEPT ![i] = [ours |-> ours, size |-> n, asked |-> a]]

LEMMA HeldIs == \A b : Held(b) = SumOf(b, Vims(b)) /\ Lent(b) = SumOf(b, Aliens(b))
  BY DEF Held, Lent

(* A block that is not Vim's becomes one.                                   *)
LEMMA Allocated ==
    ASSUME NEW b, AreBlocks(b), NEW i \in Ids, i \notin Vims(b), NEW n \in Nat, NEW a \in Nat,
           NEW c, IsPut(b, c, i, TRUE, n, a)
    PROVE  /\ AreBlocks(c) /\ Vims(c) = Vims(b) \cup {i}
           /\ Held(c) = Held(b) + n /\ Heads(c) = Heads(b) + Header /\ Lent(c) <= Lent(b)
<1>1. AreBlocks(c)
  BY DEF AreBlocks, Block, IsPut
<1>2. /\ c[i].size = n /\ c[i].ours = TRUE /\ c[i] # NoBlock
      /\ \A j \in Ids : j # i => c[j] = b[j]
  <2>1. c[i] = [ours |-> TRUE, size |-> n, asked |-> a] /\ \A j \in Ids : j # i => c[j] = b[j]
    BY DEF AreBlocks, IsPut
  <2>2. [ours |-> TRUE, size |-> n, asked |-> a] \in Block
    BY DEF Block
  <2>3. c[i] # NoBlock
    BY <2>1, <2>2, HeapIs, Zenon
  <2>. QED BY <2>1, <2>3
<1>3. Vims(c) = Vims(b) \cup {i}
  BY <1>2 DEF Vims
<1>4. Aliens(c) = Aliens(b) \ {i}
  BY <1>2 DEF Aliens
<1>5. SameSizes(c, b, Vims(b)) /\ SameSizes(c, b, Aliens(c))
  BY <1>2, <1>4, SizesAre DEF SameSizes
<1>6. Held(c) = Held(b) + n
  <2>1. SumOf(c, Vims(b) \cup {i}) = c[i].size + SumOf(c, Vims(b))
    <3>1. AreSized(c, Vims(b) \cup {i})
      BY <1>1, <1>3, SizesAre
    <3>. QED BY <3>1, SizesAre, SumMore
  <2>2. SumOf(c, Vims(b)) = SumOf(b, Vims(b))
    BY <1>5, SizesAre, SumStays
  <2>3. Held(c) = n + Held(b)
    BY HeldIs, <1>2, <1>3, <2>1, <2>2, Zenon
  <2>. QED BY <2>3, HeldIsNat
<1>7. Heads(c) = Heads(b) + Header
  <2>1. Cardinality(Vims(c)) = Cardinality(Vims(b)) + 1
    BY <1>3, SizesAre, FS_AddElement
  <2>. QED BY <2>1, HeapIs, HeldIsNat DEF Heads
<1>8. Lent(c) <= Lent(b)
  <2>1. Lent(c) = SumOf(b, Aliens(b) \ {i})
    <3>1. IsFiniteSet(Aliens(c)) /\ Lent(c) = SumOf(c, Aliens(c))
      BY <1>1, SizesAre, HeldIs
    <3>2. SumOf(c, Aliens(c)) = SumOf(b, Aliens(c))
      BY <1>5, <3>1, SumStays
    <3>. QED BY <1>4, <3>1, <3>2, Zenon
  <2>2. CASE i \in Aliens(b)
    <3>1. Lent(b) = b[i].size + SumOf(b, Aliens(b) \ {i})
      BY HeldIs, <2>2, SizesAre, SumLess
    <3>2. b[i].size \in Nat /\ Lent(b) \in Nat /\ SumOf(b, Aliens(b) \ {i}) \in Nat
      BY <1>1, <2>1, <2>2, SizesAre, HeldIsNat
    <3>. QED BY <2>1, <3>1, <3>2
  <2>3. CASE i \notin Aliens(b)
    <3>1. Aliens(b) \ {i} = Aliens(b)
      BY <2>3
    <3>. QED BY HeldIs, <2>1, <3>1, HeldIsNat
  <2>. QED BY <2>2, <2>3
<1>. QED BY <1>1, <1>3, <1>6, <1>7, <1>8

(* One of Vim's is resized.                                                 *)
LEMMA Resized ==
    ASSUME NEW b, AreBlocks(b), NEW i \in Vims(b), NEW n \in Nat,
           NEW c, IsPut(b, c, i, TRUE, n, n)
    PROVE  /\ AreBlocks(c) /\ Vims(c) = Vims(b) /\ b[i].size \in Nat /\ b[i].size <= Held(b)
           /\ Held(c) = Held(b) - b[i].size + n /\ Heads(c) = Heads(b) /\ Lent(c) = Lent(b)
<1>1. AreBlocks(c) /\ i \in Ids
  BY SizesAre DEF AreBlocks, Block, IsPut
<1>2. /\ c[i].size = n /\ c[i].ours = TRUE /\ c[i] # NoBlock
      /\ \A j \in Ids : j # i => c[j] = b[j]
  <2>1. c[i] = [ours |-> TRUE, size |-> n, asked |-> n] /\ \A j \in Ids : j # i => c[j] = b[j]
    BY <1>1 DEF AreBlocks, IsPut
  <2>2. [ours |-> TRUE, size |-> n, asked |-> n] \in Block
    BY DEF Block
  <2>3. c[i] # NoBlock
    BY <2>1, <2>2, HeapIs, Zenon
  <2>. QED BY <2>1, <2>3
<1>3. Vims(c) = Vims(b)
  BY <1>1, <1>2 DEF Vims
<1>4. Aliens(c) = Aliens(b)
  BY <1>1, <1>2, SizesAre DEF Aliens
<1>5. SameSizes(c, b, Vims(b) \ {i}) /\ SameSizes(c, b, Aliens(c))
  BY <1>2, <1>4, SizesAre DEF SameSizes
<1>6. IsFiniteSet(Vims(b) \ {i})
  BY SizesAre, FS_RemoveElement
<1>7. Held(b) = b[i].size + SumOf(b, Vims(b) \ {i})
  BY HeldIs, SizesAre, SumLess
<1>8. Held(c) = n + SumOf(b, Vims(b) \ {i})
  <2>1. Held(c) = c[i].size + SumOf(c, Vims(b) \ {i})
    <3>1. SumOf(c, Vims(c)) = c[i].size + SumOf(c, Vims(c) \ {i})
      <4>1. IsFiniteSet(Vims(c)) /\ i \in Vims(c) /\ AreSized(c, Vims(c))
        BY <1>1, <1>3, SizesAre
      <4>. QED BY <4>1, SumLess
    <3>. QED BY <1>3, <3>1, HeldIs, Zenon
  <2>. QED BY <1>2, <1>5, <1>6, <2>1, SumStays
<1>9. b[i].size \in Nat /\ SumOf(b, Vims(b) \ {i}) \in Nat
  <2>1. AreSized(b, Vims(b) \ {i})
    BY SizesAre DEF AreSized
  <2>. QED BY <1>6, <2>1, SizesAre, SumIsNat
<1>10. Lent(c) = Lent(b)
  BY HeldIs, <1>1, <1>4, <1>5, SizesAre, SumStays
<1>. QED BY <1>1, <1>3, <1>7, <1>8, <1>9, <1>10 DEF Heads

(* A block is gone, whose ever it was.                                      *)
LEMMA Freed ==
    ASSUME NEW b, AreBlocks(b), NEW i \in Ids, NEW c, c = [b EXCEPT ![i] = NoBlock]
    PROVE  /\ AreBlocks(c) /\ Vims(c) = Vims(b) \ {i} /\ Heads(c) <= Heads(b)
           /\ i \in Vims(b) => Held(b) = b[i].size + Held(c) /\ b[i].size \in Nat
           /\ i \notin Vims(b) => Held(c) = Held(b)
           /\ Lent(c) <= Lent(b)
<1>1. AreBlocks(c)
  BY DEF AreBlocks
<1>2. c[i] = NoBlock /\ \A j \in Ids : j # i => c[j] = b[j]
  BY DEF AreBlocks
<1>3. Vims(c) = Vims(b) \ {i} /\ Aliens(c) = Aliens(b) \ {i}
  BY <1>2 DEF Vims, Aliens
<1>4. SameSizes(c, b, Vims(c)) /\ SameSizes(c, b, Aliens(c))
  BY <1>2, <1>3, SizesAre DEF SameSizes
<1>5. Held(c) = SumOf(b, Vims(b) \ {i}) /\ Lent(c) = SumOf(b, Aliens(b) \ {i})
  <2>1. IsFiniteSet(Vims(c)) /\ IsFiniteSet(Aliens(c))
    BY <1>1, SizesAre
  <2>2. SumOf(c, Vims(c)) = SumOf(b, Vims(c)) /\ SumOf(c, Aliens(c)) = SumOf(b, Aliens(c))
    BY <1>4, <2>1, SumStays
  <2>. QED BY <1>3, <2>2, HeldIs, Zenon
<1>6. i \in Vims(b) => Held(b) = b[i].size + Held(c) /\ b[i].size \in Nat
  BY HeldIs, <1>5, SizesAre, SumLess
<1>7. ASSUME i \notin Vims(b) PROVE Held(c) = Held(b)
  <2>1. Vims(b) \ {i} = Vims(b)
    BY <1>7
  <2>. QED BY HeldIs, <1>5, <2>1
<1>8. Lent(c) <= Lent(b)
  <2>1. CASE i \in Aliens(b)
    <3>1. Lent(b) = b[i].size + Lent(c) /\ b[i].size \in Nat
      BY HeldIs, <1>5, <2>1, SizesAre, SumLess
    <3>. QED BY <1>1, <3>1, HeldIsNat
  <2>2. CASE i \notin Aliens(b)
    <3>1. Aliens(b) \ {i} = Aliens(b)
      BY <2>2
    <3>. QED BY HeldIs, <1>5, <3>1, HeldIsNat
  <2>. QED BY <2>1, <2>2
<1>9. Heads(c) <= Heads(b)
  <2>1. Cardinality(Vims(c)) <= Cardinality(Vims(b))
    BY <1>3, SizesAre, FS_Subset
  <2>2. PICK m \in Nat, n \in Nat : m = Cardinality(Vims(c)) /\ n = Cardinality(Vims(b)) /\ m <= n
    BY <1>1, <2>1, HeldIsNat
  <2>3. Header * m <= Header * n
    BY <2>2, HeapIs
  <2>. QED BY <2>2, <2>3 DEF Heads
<1>. QED BY <1>1, <1>3, <1>6, <1>7, <1>8, <1>9

(* Somebody else allocates one.                                             *)
LEMMA IsLent ==
    ASSUME NEW b, AreBlocks(b), NEW i \in Ids, b[i] = NoBlock, NEW n \in Nat,
           NEW c, IsPut(b, c, i, FALSE, n, n)
    PROVE  /\ AreBlocks(c) /\ Vims(c) = Vims(b)
           /\ Held(c) = Held(b) /\ Heads(c) = Heads(b) /\ Lent(c) = Lent(b) + n
<1>1. AreBlocks(c)
  BY DEF AreBlocks, Block, IsPut
<1>2. /\ c[i].size = n /\ c[i].ours = FALSE /\ c[i] # NoBlock
      /\ \A j \in Ids : j # i => c[j] = b[j]
  <2>1. c[i] = [ours |-> FALSE, size |-> n, asked |-> n] /\ \A j \in Ids : j # i => c[j] = b[j]
    BY DEF AreBlocks, IsPut
  <2>2. [ours |-> FALSE, size |-> n, asked |-> n] \in Block
    BY DEF Block
  <2>3. c[i] # NoBlock
    BY <2>1, <2>2, HeapIs, Zenon
  <2>. QED BY <2>1, <2>3
<1>3. Vims(c) = Vims(b) /\ i \notin Vims(b)
  BY <1>2 DEF Vims
<1>4. Aliens(c) = Aliens(b) \cup {i} /\ i \notin Aliens(b)
  BY <1>2 DEF Aliens
<1>5. SameSizes(c, b, Vims(b)) /\ SameSizes(c, b, Aliens(b))
  BY <1>2, <1>3, <1>4, SizesAre DEF SameSizes
<1>6. Held(c) = Held(b)
  BY HeldIs, <1>3, <1>5, SizesAre, SumStays
<1>7. Lent(c) = Lent(b) + n
  <2>1. SumOf(c, Aliens(b) \cup {i}) = c[i].size + SumOf(c, Aliens(b))
    BY <1>1, <1>4, SizesAre, SumMore
  <2>2. SumOf(c, Aliens(b)) = SumOf(b, Aliens(b))
    BY <1>5, SizesAre, SumStays
  <2>3. Lent(c) = n + Lent(b)
    BY HeldIs, <1>2, <1>4, <2>1, <2>2, Zenon
  <2>. QED BY <2>3, HeldIsNat
<1>. QED BY <1>1, <1>3, <1>6, <1>7 DEF Heads

(* All of Vim's are gone.                                                   *)
LEMMA Released ==
    ASSUME NEW b, AreBlocks(b),
           NEW c, c = [i \in Ids |-> IF i \in Vims(b) THEN NoBlock ELSE b[i]]
    PROVE  /\ AreBlocks(c) /\ Vims(c) = {} /\ Held(c) = 0 /\ Heads(c) = 0 /\ Lent(c) = Lent(b)
<1>1. AreBlocks(c)
  BY DEF AreBlocks
<1>2. \A j \in Ids : c[j] = IF j \in Vims(b) THEN NoBlock ELSE b[j]
  OBVIOUS
<1>3. Vims(c) = {}
  BY <1>2 DEF Vims
<1>4. Aliens(c) = Aliens(b)
  BY <1>2, SizesAre DEF Aliens
<1>5. SameSizes(c, b, Aliens(b))
  BY <1>2, SizesAre DEF SameSizes
<1>6. Lent(c) = Lent(b)
  BY HeldIs, <1>4, <1>5, SizesAre, SumStays
<1>. QED BY <1>1, <1>3, <1>6, SumOfNone, FS_EmptySet, HeapIs DEF Held, Heads

(* Sizes do not wrap: what is held fits in memory, which is short of size_t. *)
LEMMA Unwrapped == ASSUME NEW n \in Nat, n <= Room PROVE n % Word = n
<1>1. Word \in Nat /\ n < Word /\ Word > 0
  BY HeapIs
<1>2. n % Word \in 0 .. Word - 1 /\ n = Word * (n \div Word) + (n % Word) /\ n \div Word \in Int
  BY <1>1
<1>. QED BY <1>1

(* What is counted is held, and it fits, with headers and others' blocks.    *)
Fitting(b, u) == AreBlocks(b) /\ u = Held(b) /\ Held(b) + Heads(b) + Lent(b) <= Room
LongEnough(b) == \A i \in Vims(b) : b[i].asked <= b[i].size
Budgeted(u, n, low) == n \in Nat /\ (Budget # 0 => n # 0) /\ (n # 0 /\ ~low => u <= n)

HeapInv == Fitting(blocks, used) /\ LongEnough(blocks) /\ Budgeted(used, budget, lowered)

LEMMA HeapOf ==
    /\ Heap!Of(TRUE) = Vims(blocks) /\ Heap!Of(FALSE) = Aliens(blocks)
    /\ Heap!Total(Heap!Of(TRUE)) = Held(blocks) /\ Heap!Total(Heap!Of(FALSE)) = Lent(blocks)
<1>1. Heap!Of(TRUE) = Vims(blocks) /\ Heap!Of(FALSE) = Aliens(blocks)
  BY DEF Heap!Of, Vims, Aliens
<1>. QED BY <1>1, TotalIs DEF Held, Lent

LEMMA HeapFits ==
    ASSUME NEW n
    PROVE  Heap!Fits(n) <=> Held(blocks) + Heads(blocks) + Lent(blocks) + n <= Room
<1>1. Heap!Cardinality(Vims(blocks)) = Cardinality(Vims(blocks))
  BY Zenon DEF Heap!Cardinality, Cardinality
<1>. QED BY <1>1, HeapOf DEF Heap!Fits, Heads

(* esp_vim_malloc(), and where it is called by others.                      *)
LEMMA AllocateKeeps ==
    ASSUME HeapInv, NEW i \in Ids, i \notin Vims(blocks), NEW n \in Nat, n < Word, NEW a \in Nat, a <= n,
           Heap!Allocate(i, n, a)
    PROVE  HeapInv'
<1>1. CASE UNCHANGED <<blocks, used>>
  BY <1>1 DEF Heap!Allocate, HeapInv, Fitting, LongEnough, Budgeted
<1>2. CASE ~Heap!Refused(n) /\ Heap!Fits(n + Header) /\ Heap!Link(i, n, a, used)
  <2>1. /\ blocks' = [blocks EXCEPT ![i] = [ours |-> TRUE, size |-> n, asked |-> a]]
        /\ used' = (used + n) % Word /\ UNCHANGED <<budget, lowered>>
    BY <1>2 DEF Heap!Allocate, Heap!Link
  <2>2. /\ AreBlocks(blocks') /\ Vims(blocks') = Vims(blocks) \cup {i}
        /\ Held(blocks') = Held(blocks) + n /\ Heads(blocks') = Heads(blocks) + Header
        /\ Lent(blocks') <= Lent(blocks)
    <3>1. AreBlocks(blocks)
      BY DEF HeapInv, Fitting
    <3>2. IsPut(blocks, blocks', i, TRUE, n, a)
      BY <2>1 DEF IsPut
    <3>. QED BY <3>1, <3>2, Allocated
  <2>3. Held(blocks) + Heads(blocks) + Lent(blocks) + (n + Header) <= Room
    BY <1>2, HeapFits
  <2>4. /\ Held(blocks) \in Nat /\ Heads(blocks) \in Nat /\ Lent(blocks) \in Nat
        /\ Lent(blocks') \in Nat
    BY <2>2, HeldIsNat DEF HeapInv, Fitting
  <2>5. used' = used + n /\ (used + n) % Word = used + n
    BY <2>1, <2>3, <2>4, Unwrapped, HeapIs DEF HeapInv, Fitting
  <2>6. Fitting(blocks, used)'
    BY <2>2, <2>3, <2>4, <2>5, HeapIs DEF HeapInv, Fitting
  <2>7. LongEnough(blocks')
    BY <2>1, <2>2, SizesAre DEF HeapInv, LongEnough, Fitting, AreBlocks
  <2>8. Budgeted(used, budget, lowered)'
    BY <1>2, <2>1, <2>5 DEF HeapInv, Budgeted, Heap!Refused, Heap!OverBudget
  <2>. QED BY <2>6, <2>7, <2>8 DEF HeapInv
<1>. QED BY <1>1, <1>2 DEF Heap!Allocate

LEMMA FreeKeeps ==
    ASSUME HeapInv, NEW i \in Ids, Heap!Free(i)
    PROVE  HeapInv'
<1>1. blocks' = [blocks EXCEPT ![i] = NoBlock] /\ blocks[i] # NoBlock /\ UNCHANGED <<budget, lowered>>
  BY DEF Heap!Free
<1>2. used' = IF i \in Vims(blocks) THEN (used - blocks[i].size) % Word ELSE used
  BY <1>1 DEF Heap!Free, Vims, HeapInv, Fitting, AreBlocks, Block
<1>3. /\ AreBlocks(blocks') /\ Vims(blocks') = Vims(blocks) \ {i}
      /\ Heads(blocks') <= Heads(blocks) /\ Lent(blocks') <= Lent(blocks)
      /\ i \in Vims(blocks) => Held(blocks) = blocks[i].size + Held(blocks') /\ blocks[i].size \in Nat
      /\ i \notin Vims(blocks) => Held(blocks') = Held(blocks)
  BY <1>1, Freed DEF HeapInv, Fitting
<1>4. /\ Held(blocks) \in Nat /\ Heads(blocks) \in Nat /\ Lent(blocks) \in Nat
      /\ Held(blocks') \in Nat /\ Heads(blocks') \in Nat /\ Lent(blocks') \in Nat
  BY <1>3, HeldIsNat DEF HeapInv, Fitting
<1>5. Held(blocks') <= Held(blocks) /\ Held(blocks) <= Room
  BY <1>3, <1>4, HeapIs DEF HeapInv, Fitting
<1>6. used' = Held(blocks')
  BY <1>2, <1>3, <1>4, <1>5, Unwrapped, HeapIs DEF HeapInv, Fitting
<1>7. Fitting(blocks, used)'
  BY <1>3, <1>4, <1>5, <1>6, HeapIs DEF HeapInv, Fitting
<1>8. LongEnough(blocks')
  BY <1>1, <1>3, SizesAre DEF HeapInv, LongEnough, Fitting, AreBlocks
<1>9. Budgeted(used, budget, lowered)'
  BY <1>1, <1>4, <1>5, <1>6 DEF HeapInv, Fitting, Budgeted
<1>. QED BY <1>7, <1>8, <1>9 DEF HeapInv

LEMMA ReallocKeeps ==
    ASSUME HeapInv, NEW i \in Ids, NEW n \in Nat, n < Word, Heap!Realloc(i, n)
    PROVE  HeapInv'
<1>1. CASE n = 0
  BY <1>1, FreeKeeps DEF Heap!Realloc
<1>2. CASE n # 0 /\ i \notin Vims(blocks)
  <2>1. Heap!Allocate(i, n, n)
    BY <1>2 DEF Heap!Realloc, Vims, HeapInv, Fitting, AreBlocks, Block
  <2>. QED BY <1>2, <2>1, AllocateKeeps
<1>3. CASE n # 0 /\ i \in Vims(blocks) /\ UNCHANGED <<blocks, used>>
  BY <1>3 DEF Heap!Realloc, Heap!Allocate, Vims, HeapInv, Fitting, LongEnough, Budgeted
<1>4. CASE n # 0 /\ i \in Vims(blocks) /\ ~UNCHANGED <<blocks, used>>
  <2>. DEFINE old == blocks[i].size
  <2>1. /\ ~(n > old /\ Heap!OverBudget(n - old)) /\ (n <= old \/ Heap!Fits(n - old))
        /\ Heap!Link(i, n, n, used - old) /\ UNCHANGED <<budget, lowered>>
    BY <1>4 DEF Heap!Realloc, Vims
  <2>2. /\ blocks' = [blocks EXCEPT ![i] = [ours |-> TRUE, size |-> n, asked |-> n]]
        /\ used' = (used - old + n) % Word
    BY <2>1 DEF Heap!Link
  <2>3. /\ AreBlocks(blocks') /\ Vims(blocks') = Vims(blocks) /\ old \in Nat /\ old <= Held(blocks)
        /\ Held(blocks') = Held(blocks) - old + n /\ Heads(blocks') = Heads(blocks)
        /\ Lent(blocks') = Lent(blocks)
    <3>1. AreBlocks(blocks)
      BY DEF HeapInv, Fitting
    <3>2. IsPut(blocks, blocks', i, TRUE, n, n)
      BY <2>2 DEF IsPut
    <3>3. i \in Vims(blocks)
      BY <1>4
    <3>. QED BY <3>1, <3>2, <3>3, Resized
  <2>. HIDE DEF old
  <2>4. /\ Held(blocks) \in Nat /\ Heads(blocks) \in Nat /\ Lent(blocks) \in Nat
        /\ Held(blocks') \in Nat
    BY <2>3, HeldIsNat DEF HeapInv, Fitting
  <2>5. n <= old \/ Held(blocks) + Heads(blocks) + Lent(blocks) + (n - old) <= Room
    BY <2>1, HeapFits
  <2>6. Held(blocks') + Heads(blocks') + Lent(blocks') <= Room
    BY <2>3, <2>4, <2>5, HeapIs DEF HeapInv, Fitting
  <2>7. used' = Held(blocks')
    BY <2>2, <2>3, <2>4, <2>6, Unwrapped, HeapIs DEF HeapInv, Fitting
  <2>8. Fitting(blocks, used)'
    BY <2>3, <2>6, <2>7 DEF Fitting
  <2>9. LongEnough(blocks')
    BY <2>2, <2>3, SizesAre DEF HeapInv, LongEnough, Fitting, AreBlocks
  <2>10. Budgeted(used, budget, lowered)'
    <3>1. n > old => used + (n - old) = Held(blocks') /\ (used + (n - old)) % Word = Held(blocks')
      BY <2>3, <2>4, <2>6, Unwrapped, HeapIs DEF HeapInv, Fitting
    <3>. QED BY <2>1, <2>3, <2>4, <2>7, <3>1 DEF HeapInv, Fitting, Budgeted, Heap!OverBudget
  <2>. QED BY <2>8, <2>9, <2>10 DEF HeapInv
<1>. QED BY <1>1, <1>2, <1>3, <1>4

LEMMA ForeignKeeps ==
    ASSUME HeapInv, NEW i \in Ids, NEW n \in Nat, Heap!Foreign(i, n)
    PROVE  HeapInv'
<1>1. /\ blocks' = [blocks EXCEPT ![i] = [ours |-> FALSE, size |-> n, asked |-> n]]
      /\ blocks[i] = NoBlock /\ UNCHANGED <<used, budget, lowered>>
  BY DEF Heap!Foreign
<1>2. /\ AreBlocks(blocks') /\ Vims(blocks') = Vims(blocks) /\ Held(blocks') = Held(blocks)
      /\ Heads(blocks') = Heads(blocks) /\ Lent(blocks') = Lent(blocks) + n
  <2>1. AreBlocks(blocks)
    BY DEF HeapInv, Fitting
  <2>2. IsPut(blocks, blocks', i, FALSE, n, n)
    BY <1>1 DEF IsPut
  <2>3. blocks[i] = NoBlock
    BY <1>1
  <2>. QED BY <2>1, <2>2, <2>3, IsLent
<1>3. Held(blocks) + Heads(blocks) + Lent(blocks) + n <= Room
  BY HeapFits DEF Heap!Foreign
<1>4. Held(blocks) \in Nat /\ Heads(blocks) \in Nat /\ Lent(blocks) \in Nat
  BY HeldIsNat DEF HeapInv, Fitting
<1>5. Fitting(blocks, used)'
  BY <1>1, <1>2, <1>3, <1>4, HeapIs DEF HeapInv, Fitting
<1>6. LongEnough(blocks')
  BY <1>1, <1>2, SizesAre DEF HeapInv, LongEnough, Fitting, AreBlocks, Vims
<1>7. Budgeted(used, budget, lowered)'
  BY <1>1 DEF HeapInv, Budgeted
<1>. QED BY <1>5, <1>6, <1>7 DEF HeapInv

LEMMA NewSessionKeeps == HeapInv /\ Heap!NewSession => HeapInv'
<1>. SUFFICES ASSUME HeapInv, Heap!NewSession PROVE HeapInv'
  OBVIOUS
<1>1. /\ blocks' = [i \in Ids |-> IF i \in Vims(blocks) THEN NoBlock ELSE blocks[i]]
      /\ used' = 0 /\ budget' = Budget /\ lowered' = FALSE
  BY HeapOf DEF Heap!NewSession
<1>2. /\ AreBlocks(blocks') /\ Vims(blocks') = {} /\ Held(blocks') = 0 /\ Heads(blocks') = 0
      /\ Lent(blocks') = Lent(blocks)
  BY <1>1, Released DEF HeapInv, Fitting
<1>3. Held(blocks) \in Nat /\ Heads(blocks) \in Nat /\ Lent(blocks) \in Nat
  BY HeldIsNat DEF HeapInv, Fitting
<1>. QED BY <1>1, <1>2, <1>3, HeapIs DEF HeapInv, Fitting, LongEnough, Budgeted

LEMMA HeapHolds == HeapInv /\ [Heap!Next]_heapVars => HeapInv'
<1>. SUFFICES ASSUME HeapInv, [Heap!Next]_heapVars PROVE HeapInv'
  OBVIOUS
<1>1. CASE UNCHANGED heapVars
  BY <1>1 DEF heapVars, HeapInv, Fitting, LongEnough, Budgeted
<1>2. CASE Heap!NewSession
  BY <1>2, NewSessionKeeps
<1>3. ASSUME NEW d \in Heap!Deltas, Heap!Adjust(d) PROVE HeapInv'
  <2>1. UNCHANGED <<blocks, used>>
    BY <1>3 DEF Heap!Adjust
  <2>2. /\ budget' = IF budget = 0 THEN 0 ELSE IF 0 - d >= budget THEN 1 ELSE budget + d
        /\ lowered' = (lowered \/ budget' < budget) /\ d \in Int
    BY <1>3 DEF Heap!Adjust, Heap!Deltas
  <2>3. budget' \in Nat /\ (Budget # 0 => budget' # 0) /\ (budget' # 0 => budget # 0)
    BY <2>2 DEF HeapInv, Budgeted
  <2>4. ~lowered' => ~lowered /\ budget' >= budget
    <3>1. budget \in Nat /\ budget' \in Nat
      BY <2>3, Zenon DEF HeapInv, Budgeted
    <3>2. ~lowered' => ~lowered /\ ~(budget' < budget)
      BY <2>2, Zenon
    <3>. QED BY <3>1, <3>2
  <2>5. used \in Nat
    BY HeldIsNat DEF HeapInv, Fitting
  <2>6. Budgeted(used, budget, lowered)'
    BY <2>1, <2>3, <2>4, <2>5 DEF HeapInv, Budgeted
  <2>. QED BY <2>1, <2>6 DEF HeapInv, Fitting, LongEnough
<1>4. ASSUME NEW i \in Ids, Heap!Free(i) PROVE HeapInv'
  BY <1>4, FreeKeeps
<1>5. \A n \in Heap!Sizes : n \in Nat /\ n < Word
  BY HeapIs DEF Heap!Sizes, Heap!MaxSize
<1>6. ASSUME NEW i \in Ids, NEW n \in Heap!Sizes, Heap!Malloc(i, n) PROVE HeapInv'
  <2>1. i \notin Vims(blocks) /\ Heap!Allocate(i, n, n)
    BY <1>6 DEF Heap!Malloc, Vims
  <2>. QED BY <1>5, <2>1, AllocateKeeps
<1>7. ASSUME NEW i \in Ids, NEW n \in Heap!Sizes, Heap!Realloc(i, n) PROVE HeapInv'
  BY <1>5, <1>7, ReallocKeeps
<1>8. ASSUME NEW i \in Ids, NEW n \in Heap!Sizes, Heap!Foreign(i, n) PROVE HeapInv'
  BY <1>5, <1>8, ForeignKeeps
<1>9. ASSUME NEW i \in Ids, NEW n \in Heap!Sizes, NEW s \in Heap!Sizes, Heap!Calloc(i, n, s)
      PROVE  HeapInv'
  <2>1. PICK m : m = n * s
    OBVIOUS
  <2>2. /\ i \notin Vims(blocks) /\ m <= Word - 1 /\ Heap!Allocate(i, m % Word, m)
    BY <1>9, <2>1 DEF Heap!Calloc, Heap!MaxSize, Vims
  <2>3. m \in Nat
    BY <1>5, <2>1
  <2>4. m % Word = m /\ m < Word
    BY <2>2, <2>3, HeapIs
  <2>. QED BY <2>2, <2>3, <2>4, AllocateKeeps
<1>. QED BY <1>1, <1>2, <1>3, <1>4, <1>6, <1>7, <1>8, <1>9 DEF Heap!Next

LEMMA HeapBegins == Heap!Init => HeapInv
<1>. SUFFICES ASSUME Heap!Init PROVE HeapInv
  OBVIOUS
<1>1. AreBlocks(blocks) /\ Vims(blocks) = {} /\ Aliens(blocks) = {}
  BY DEF Heap!Init, AreBlocks, Vims, Aliens
<1>2. Held(blocks) = 0 /\ Heads(blocks) = 0 /\ Lent(blocks) = 0
  BY <1>1, SumOfNone, FS_EmptySet, HeapIs DEF Held, Heads, Lent
<1>. QED BY <1>1, <1>2, HeapIs DEF Heap!Init, HeapInv, Fitting, LongEnough, Budgeted

(* What is counted is what Vim holds, in blocks as long as was asked for and *)
(* within the session's budget, for any sizes, pointers and width of size_t, *)
(* whatever blocks of others come and go between (esp_vim_malloc(),          *)
(* esp_vim_realloc(), esp_vim_free()).                                      *)
THEOREM HeapIsAccountedFor == SessionsSpec => []HeapAccounts
<1>1. SessionsInit => HeapInv
  BY HeapBegins DEF SessionsInit
<1>2. [SessionsNext]_allVars => [Heap!Next]_heapVars
  BY DEF SessionsNext, allVars, others, heapVars, Moves
<1>3. HeapInv /\ [SessionsNext]_allVars => HeapInv'
  BY <1>2, HeapHolds
<1>4. HeapInv => HeapAccounts
  BY HeapOf DEF HeapAccounts, Heap!HeapAccounts, HeapInv, Fitting, LongEnough, Budgeted
<1>. QED BY <1>1, <1>3, <1>4, PTL DEF SessionsSpec

-----------------------------------------------------------------------------
(* Values (EspPyValues): to_py() and from_py() go into a value's items, so    *)
(* does what they do.  Values here are atoms, what holds atoms (Flat), and    *)
(* what holds one of those (Deep).                                          *)
VimAtoms == Values!Same \cup {Values!Of("special", "none"), Values!Of("special", "null"),
    Values!Of("number", 1), Values!Of("string", "utf8"), Values!Of("string", "raw"),
    Values!Of("blob", "raw"), Values!Of("funcref", 0)}
PyAtoms == Values!Same \cup {Values!Of("None", 0), Values!Of("int", 1), Values!Of("str", "utf8"),
    Values!Of("str", "nul"), Values!Of("bytes", "raw"), Values!Of("object", 0)}

Few(A) == {<<>>} \cup {<<a>> : a \in A} \cup {<<a, b>> : a, b \in A}
Dict(a) == Values!Of("dict", [key \in {"a"} |-> a])
Flat(A) == {Values!Of(k, s) : k \in {"list", "tuple"}, s \in Few(A)} \cup {Dict(a) : a \in A}
Deep(A) == {Values!Of(k, <<x>>) : k \in {"list", "tuple"}, x \in Flat(A)}

Atoms == VimAtoms \cup PyAtoms
Flats == Flat(VimAtoms) \cup Flat(PyAtoms)
Deeps == Deep(VimAtoms) \cup Deep(PyAtoms)

(* A value is of one of the three.                                          *)
LEMMA ValuesAre ==
    /\ Values!VimValues = VimAtoms \cup Flat(VimAtoms) \cup Deep(VimAtoms)
    /\ Values!PyValues = PyAtoms \cup Flat(PyAtoms) \cup Deep(PyAtoms)
    /\ Values!AnyValue = Atoms \cup Flats \cup Deeps
<1>1. ASSUME NEW A PROVE Values!Nested(A) = A \cup Flat(A) \cup Deep(A)
  BY DEF Values!Nested, Flat, Deep, Few, Dict
<1>2. Values!VimValues = Values!Nested(VimAtoms) /\ Values!PyValues = Values!Nested(PyAtoms)
  BY Zenon DEF Values!VimValues, Values!PyValues, VimAtoms, PyAtoms
<1> QED BY <1>1, <1>2, Zenon DEF Values!AnyValue, Atoms, Flats, Deeps

(* What a value holds is of the kind before.                                *)
LEMMA AtomsHoldNothing == \A x \in Atoms : ~Values!Holds(x)
  BY DEF Atoms, VimAtoms, PyAtoms, Values!Same, Values!Of, Values!Holds

LEMMA FlatsHold ==
    ASSUME NEW A, NEW x \in Flat(A)
    PROVE  Values!Holds(x) /\ \A i \in DOMAIN x.v : x.v[i] \in A
  BY DEF Flat, Few, Dict, Values!Of, Values!Holds

LEMMA DeepsHold ==
    ASSUME NEW A, NEW x \in Deep(A)
    PROVE  Values!Holds(x) /\ \A i \in DOMAIN x.v : x.v[i] \in Flat(A)
  BY DEF Deep, Values!Of, Values!Holds

(* A value with each of its items converted stays flat, or deep.             *)
Each(f, x) == Values!Of(x.kind, [i \in DOMAIN x.v |-> f[x.v[i]]])

LEMMA EachOfFlat ==
    ASSUME NEW A, NEW B, NEW f, NEW x \in Flat(A), \A i \in DOMAIN x.v : f[x.v[i]] \in B
    PROVE  Each(f, x) \in Flat(B)
<1>1. CASE \E a \in A : x = Dict(a)
  <2>1. PICK a \in A : x = Dict(a)
    BY <1>1
  <2>2. x.kind = "dict" /\ x.v = [key \in {"a"} |-> a]
    BY <2>1 DEF Values!Of, Dict
  <2>3. [i \in DOMAIN x.v |-> f[x.v[i]]] = [key \in {"a"} |-> f[a]]
    BY <2>2
  <2>4. Each(f, x) = Dict(f[a])
    BY <2>2, <2>3, Zenon DEF Each, Dict
  <2>5. \A b \in B : Dict(b) \in Flat(B)
    BY DEF Flat
  <2>6. f[a] \in B
    BY <2>2
  <2> QED BY <2>4, <2>5, <2>6, Zenon
<1>2. ASSUME NEW k \in {"list", "tuple"}, NEW s \in Few(A), x = Values!Of(k, s)
      PROVE  Each(f, x) \in Flat(B)
  <2>1. x.kind = k /\ x.v = s
    BY <1>2 DEF Values!Of
  <2>2. [i \in DOMAIN s |-> f[s[i]]] \in Few(B)
    <3>4. \A i \in DOMAIN s : f[s[i]] \in B
      BY <2>1
    <3>1. CASE s = <<>>
      BY <3>1 DEF Few
    <3>2. CASE \E a \in A : s = <<a>>
      <4>1. PICK a \in A : s = <<a>>
        BY <3>2
      <4>2. [i \in DOMAIN s |-> f[s[i]]] = <<f[a]>>
        BY <4>1
      <4>3. f[a] \in B
        BY <3>4, <4>1
      <4> QED BY <4>2, <4>3 DEF Few
    <3>3. CASE \E a, b \in A : s = <<a, b>>
      <4>1. PICK a \in A, b \in A : s = <<a, b>>
        BY <3>3
      <4>2. [i \in DOMAIN s |-> f[s[i]]] = <<f[a], f[b]>>
        BY <4>1
      <4>3. f[a] \in B /\ f[b] \in B
        BY <3>4, <4>1
      <4> QED BY <4>2, <4>3 DEF Few
    <3> QED BY <3>1, <3>2, <3>3 DEF Few
  <2> QED BY <2>1, <2>2 DEF Flat, Each
<1> QED BY <1>1, <1>2 DEF Flat

LEMMA EachOfDeep ==
    ASSUME NEW A, NEW B, NEW f, NEW x \in Deep(A), \A i \in DOMAIN x.v : f[x.v[i]] \in Flat(B)
    PROVE  Each(f, x) \in Deep(B)
<1>1. PICK k \in {"list", "tuple"}, y \in Flat(A) : x = Values!Of(k, <<y>>)
  BY DEF Deep
<1>2. x.kind = k /\ x.v = <<y>>
  BY <1>1 DEF Values!Of
<1>3. [i \in DOMAIN x.v |-> f[x.v[i]]] = <<f[y]>>
  BY <1>2
<1> QED BY <1>2, <1>3 DEF Deep, Each

(* One level of to_py(), of from_py() and of partsOf: of the items, what f says. *)
PyOf(f, x) == IF Values!Holds(x) THEN Each(f, x) ELSE Values!AtomToPy(x)
VimOf(f, x) == IF Values!Holds(x) THEN Each(f, x) ELSE Values!AtomFromPy(x)
PartsOf(f, x) ==
    {x} \cup IF Values!Holds(x) THEN UNION {f[x.v[i]] : i \in DOMAIN x.v} ELSE {}

Body(w, f, x) == IF w = "py" THEN PyOf(f, x) ELSE IF w = "vim" THEN VimOf(f, x) ELSE PartsOf(f, x)
Once(w, f) == [x \in Values!AnyValue |-> Body(w, f, x)]

(* Functions that agree on the items of a value do on the value.             *)
Agree(f, g, x) == Values!Holds(x) => \A i \in DOMAIN x.v : f[x.v[i]] = g[x.v[i]]

LEMMA BodyNeeds ==
    ASSUME NEW w, NEW f, NEW g, NEW x, Agree(f, g, x)
    PROVE  Body(w, f, x) = Body(w, g, x)
<1>1. CASE ~Values!Holds(x)
  <2>1. PyOf(f, x) = PyOf(g, x)
    BY <1>1, Zenon DEF PyOf
  <2>2. VimOf(f, x) = VimOf(g, x)
    BY <1>1, Zenon DEF VimOf
  <2>3. PartsOf(f, x) = PartsOf(g, x)
    BY <1>1, Zenon DEF PartsOf
  <2> QED BY <2>1, <2>2, <2>3, Zenon DEF Body
<1>2. CASE Values!Holds(x)
  <2>1. \A i \in DOMAIN x.v : f[x.v[i]] = g[x.v[i]]
    BY <1>2, Zenon DEF Agree
  <2>2. [i \in DOMAIN x.v |-> f[x.v[i]]] = [i \in DOMAIN x.v |-> g[x.v[i]]]
    BY <2>1
  <2>3. {f[x.v[i]] : i \in DOMAIN x.v} = {g[x.v[i]] : i \in DOMAIN x.v}
    BY <2>1, Zenon
  <2>4. Each(f, x) = Each(g, x)
    BY <2>2, Zenon DEF Each
  <2>5. PyOf(f, x) = PyOf(g, x)
    BY <2>4, Zenon DEF PyOf
  <2>6. VimOf(f, x) = VimOf(g, x)
    BY <2>4, Zenon DEF VimOf
  <2>7. PartsOf(f, x) = PartsOf(g, x)
    BY <2>3, Zenon DEF PartsOf
  <2> QED BY <2>5, <2>6, <2>7, Zenon DEF Body
<1> QED BY <1>1, <1>2

LEMMA OnceIs ==
    ASSUME NEW w, NEW f, NEW x \in Values!AnyValue
    PROVE  Once(w, f)[x] = Body(w, f, x)
  BY Zenon DEF Once

LEMMA AgreeOnParts ==
    ASSUME NEW f, NEW g
    PROVE  /\ \A x \in Atoms : Agree(f, g, x)
           /\ (\A x \in Atoms : f[x] = g[x]) => \A x \in Flats : Agree(f, g, x)
           /\ (\A x \in Flats : f[x] = g[x]) => \A x \in Deeps : Agree(f, g, x)
<1>1. \A x \in Atoms : Agree(f, g, x)
  BY AtomsHoldNothing, Zenon DEF Agree
<1>2. ASSUME \A x \in Atoms : f[x] = g[x], NEW x \in Flats PROVE Agree(f, g, x)
  <2>1. \A i \in DOMAIN x.v : x.v[i] \in Atoms
    BY FlatsHold, Zenon DEF Flats, Atoms
  <2> QED BY <1>2, <2>1, Zenon DEF Agree
<1>3. ASSUME \A x \in Flats : f[x] = g[x], NEW x \in Deeps PROVE Agree(f, g, x)
  <2>1. \A i \in DOMAIN x.v : x.v[i] \in Flats
    BY DeepsHold, Zenon DEF Flats, Deeps
  <2> QED BY <1>3, <2>1, Zenon DEF Agree
<1> QED BY <1>1, <1>2, <1>3, Zenon

(* Values have three levels: the fourth function that takes one level more    *)
(* is the third, so what each of the three converts by exists.               *)
LEMMA Settles == ASSUME NEW w PROVE \E f : f = Once(w, f)
<1> DEFINE f0 == [x \in Values!AnyValue |-> x]
           f1 == Once(w, f0)
           f2 == Once(w, f1)
           f3 == Once(w, f2)
           f4 == Once(w, f3)
<1>1. \A x \in Atoms : Body(w, f0, x) = Body(w, f1, x) /\ Body(w, f1, x) = Body(w, f2, x)
                       /\ Body(w, f2, x) = Body(w, f3, x)
  BY AgreeOnParts, BodyNeeds, Zenon
<1>2. \A x \in Atoms : f1[x] = f2[x] /\ f2[x] = f3[x]
  <2>1. ASSUME NEW x \in Atoms PROVE f1[x] = f2[x] /\ f2[x] = f3[x]
    <3>1. x \in Values!AnyValue
      BY ValuesAre, Zenon
    <3>2. f1[x] = Body(w, f0, x) /\ f2[x] = Body(w, f1, x) /\ f3[x] = Body(w, f2, x)
      BY <3>1, OnceIs, Zenon
    <3> QED BY <1>1, <3>2, Zenon
  <2> QED BY <2>1, Zenon
<1> HIDE DEF f1, f2, f3, f4
<1>3. \A x \in Flats : Body(w, f1, x) = Body(w, f2, x) /\ Body(w, f2, x) = Body(w, f3, x)
  BY <1>2, AgreeOnParts, BodyNeeds, Zenon
<1>4. \A x \in Flats : f2[x] = f3[x]
  BY <1>3, OnceIs, ValuesAre, Zenon DEF f2, f3
<1>5. \A x \in Deeps : Body(w, f2, x) = Body(w, f3, x)
  BY <1>4, AgreeOnParts, BodyNeeds, Zenon
<1>6. \A x \in Values!AnyValue : Body(w, f2, x) = Body(w, f3, x)
  BY <1>1, <1>3, <1>5, ValuesAre, Zenon DEF f1, f2, f3
<1>7. f3 = f4
  BY <1>6, Zenon DEF f3, f4, Once
<1> QED BY <1>7, Zenon DEF f4

(* toPy, fromPy and partsOf are what their definitions say.                  *)
LEMMA ToPyIs == ASSUME NEW x \in Values!AnyValue PROVE Values!toPy[x] = PyOf(Values!toPy, x)
<1>1. \A f : Once("py", f) = [u \in Values!AnyValue |-> PyOf(f, u)]
  BY DEF Once, Body
<1>4. \E f : f = [u \in Values!AnyValue |-> PyOf(f, u)]
  <2>1. PICK f : f = Once("py", f)
    BY Settles, Zenon
  <2>2. f = [u \in Values!AnyValue |-> PyOf(f, u)]
    BY <1>1, <2>1, Zenon
  <2> QED BY <2>2, Zenon
<1>5. Values!toPy = CHOOSE f : f = [u \in Values!AnyValue |-> PyOf(f, u)]
  BY DEF Values!toPy, PyOf, Each
<1>2. Values!toPy = Once("py", Values!toPy)
  BY <1>1, <1>4, <1>5, Zenon
<1> QED BY <1>2, OnceIs, Zenon DEF Body

LEMMA FromPyIs == ASSUME NEW x \in Values!AnyValue PROVE Values!fromPy[x] = VimOf(Values!fromPy, x)
<1>1. \A f : Once("vim", f) = [u \in Values!AnyValue |-> VimOf(f, u)]
  BY DEF Once, Body
<1>4. \E f : f = [u \in Values!AnyValue |-> VimOf(f, u)]
  <2>1. PICK f : f = Once("vim", f)
    BY Settles, Zenon
  <2>2. f = [u \in Values!AnyValue |-> VimOf(f, u)]
    BY <1>1, <2>1, Zenon
  <2> QED BY <2>2, Zenon
<1>5. Values!fromPy = CHOOSE f : f = [u \in Values!AnyValue |-> VimOf(f, u)]
  BY DEF Values!fromPy, VimOf, Each
<1>2. Values!fromPy = Once("vim", Values!fromPy)
  BY <1>1, <1>4, <1>5, Zenon
<1>3. Body("vim", Values!fromPy, x) = VimOf(Values!fromPy, x)
  BY DEF Body
<1> QED BY <1>2, <1>3, OnceIs, Zenon

LEMMA PartsAre ==
    ASSUME NEW x \in Values!AnyValue
    PROVE  Values!partsOf[x] = PartsOf(Values!partsOf, x)
<1>1. Values!partsOf = CHOOSE f : f = Once("parts", f)
  BY Zenon DEF Values!partsOf, Once, Body, PartsOf
<1>2. Values!partsOf = Once("parts", Values!partsOf)
  BY <1>1, Settles, Zenon
<1>3. Body("parts", Values!partsOf, x) = PartsOf(Values!partsOf, x)
  BY DEF Body
<1> QED BY <1>2, <1>3, OnceIs, Zenon

(* What only one of them has.                                               *)
RawOnes == {Values!Of("special", "null"), Values!Of("string", "raw"), Values!Of("funcref", 0)}
Objects == {Values!Of("object", 0)}
There(x) == Values!toPy[x]
Back(x) == Values!fromPy[x]

(* What holds an item that has one of these has it too.                      *)
LEMMA ItemsAreParts ==
    ASSUME NEW x \in Values!AnyValue, NEW what, ~Values!Contains(x, what)
    PROVE  /\ x \notin what
           /\ Values!Holds(x) => \A i \in DOMAIN x.v : ~Values!Contains(x.v[i], what)
<1>1. Values!partsOf[x] = PartsOf(Values!partsOf, x)
  BY PartsAre
<1>2. x \in Values!partsOf[x]
  BY <1>1 DEF PartsOf
<1>3. ASSUME Values!Holds(x), NEW i \in DOMAIN x.v
      PROVE  Values!partsOf[x.v[i]] \subseteq Values!partsOf[x]
  BY <1>1, <1>3, Zenon DEF PartsOf
<1> QED BY <1>2, <1>3, Zenon DEF Values!Contains

(* A value x of V that goes to P and comes back is one of V, and the same, or  *)
(* what Python has of it is the same from then on.                          *)
Travels(x, V, P) ==
    /\ There(x) \in P /\ Back(There(x)) \in V /\ There(Back(There(x))) = There(x)
    /\ ~Values!Contains(x, RawOnes) => Back(There(x)) = x

(* An atom does, kind by kind.                                              *)
LEMMA AtomsTravel ==
    /\ \A x \in VimAtoms : Travels(x, VimAtoms, PyAtoms)
    /\ \A x \in PyAtoms : x \notin Objects => Back(x) \in VimAtoms
<1>1. \A x \in Atoms : There(x) = Values!AtomToPy(x) /\ Back(x) = Values!AtomFromPy(x)
  BY ToPyIs, FromPyIs, AtomsHoldNothing, ValuesAre, Zenon DEF There, Back, PyOf, VimOf
<1>2. \A x \in VimAtoms : Values!AtomToPy(x) \in PyAtoms \ Objects
  BY DEF VimAtoms, PyAtoms, Values!Same, Values!AtomToPy, Values!Of, Objects
<1>3. \A x \in PyAtoms : x \notin Objects => Values!AtomFromPy(x) \in VimAtoms
  BY DEF VimAtoms, PyAtoms, Values!Same, Values!AtomFromPy, Values!Of, Values!Cut, Objects
<1>4. \A x \in VimAtoms : x \notin RawOnes => Values!AtomFromPy(Values!AtomToPy(x)) = x
  BY DEF VimAtoms, Values!Same, Values!AtomToPy, Values!AtomFromPy, Values!Of, Values!Cut, RawOnes
<1>5. \A x \in RawOnes : Values!AtomToPy(Values!AtomFromPy(Values!AtomToPy(x))) = Values!AtomToPy(x)
  <2>1. Values!AtomToPy(Values!Of("string", "raw")) = Values!Of("bytes", "raw")
    BY DEF Values!AtomToPy, Values!Of
  <2>2. Values!AtomFromPy(Values!Of("bytes", "raw")) = Values!Of("blob", "raw")
    BY DEF Values!AtomFromPy, Values!Of
  <2>3. Values!AtomToPy(Values!Of("blob", "raw")) = Values!Of("bytes", "raw")
    BY DEF Values!AtomToPy, Values!Of
  <2>4. Values!AtomToPy(Values!Of("funcref", 0)) = Values!Of("str", "utf8")
    BY DEF Values!AtomToPy, Values!Of
  <2>5. Values!AtomFromPy(Values!Of("str", "utf8")) = Values!Of("string", "utf8")
    BY DEF Values!AtomFromPy, Values!Of, Values!Cut
  <2>6. Values!AtomToPy(Values!Of("string", "utf8")) = Values!Of("str", "utf8")
    BY DEF Values!AtomToPy, Values!Of
  <2>7. Values!AtomToPy(Values!Of("special", "null")) = Values!Of("None", 0)
    BY DEF Values!AtomToPy, Values!Of
  <2>8. Values!AtomFromPy(Values!Of("None", 0)) = Values!Of("special", "none")
    BY DEF Values!AtomFromPy, Values!Of
  <2>9. Values!AtomToPy(Values!Of("special", "none")) = Values!Of("None", 0)
    BY DEF Values!AtomToPy, Values!Of
  <2> QED BY <2>1, <2>2, <2>3, <2>4, <2>5, <2>6, <2>7, <2>8, <2>9, Zenon DEF RawOnes
<1>6. \A x \in VimAtoms : Values!Contains(x, RawOnes) \/ x \notin RawOnes
  BY ItemsAreParts, ValuesAre, Zenon DEF Atoms
<1>7. \A x \in VimAtoms : /\ Values!AtomToPy(x) \in Atoms
                         /\ Values!AtomFromPy(Values!AtomToPy(x)) \in VimAtoms
  BY <1>2, <1>3, Zenon DEF Atoms
<1>8. \A x \in VimAtoms : /\ There(x) = Values!AtomToPy(x)
                         /\ Back(There(x)) = Values!AtomFromPy(Values!AtomToPy(x))
                         /\ There(Back(There(x))) =
                              Values!AtomToPy(Values!AtomFromPy(Values!AtomToPy(x)))
  BY <1>1, <1>7, Zenon DEF Atoms
<1>9. \A x \in VimAtoms : Travels(x, VimAtoms, PyAtoms)
  BY <1>2, <1>4, <1>5, <1>6, <1>7, <1>8, Zenon DEF Travels
<1> QED BY <1>1, <1>3, <1>9, Zenon DEF Atoms

(* What holds others is its kind and its items.                             *)
LEMMA HoldersAre ==
    ASSUME NEW A, NEW x \in Flat(A) \cup Deep(A)
    PROVE  x = Values!Of(x.kind, x.v) /\ x.v = [i \in DOMAIN x.v |-> x.v[i]]
<1>1. CASE x \in Deep(A)
  BY <1>1 DEF Deep, Values!Of
<1>2. CASE \E a \in A : x = Dict(a)
  BY <1>2 DEF Dict, Values!Of
<1>3. CASE \E k \in {"list", "tuple"}, s \in Few(A) : x = Values!Of(k, s)
  <2>1. PICK k \in {"list", "tuple"}, s \in Few(A) : x = Values!Of(k, s)
    BY <1>3
  <2>2. x.kind = k /\ x.v = s
    BY <2>1 DEF Values!Of
  <2>3. CASE s = <<>>
    BY <2>1, <2>2, <2>3
  <2>4. CASE \E a \in A : s = <<a>>
    BY <2>1, <2>2, <2>4
  <2>5. CASE \E a, b \in A : s = <<a, b>>
    BY <2>1, <2>2, <2>5
  <2> QED BY <2>3, <2>4, <2>5 DEF Few
<1> QED BY <1>1, <1>2, <1>3 DEF Flat

(* If all that it holds goes and comes, a value does.                        *)
LEMMA HoldersTravel ==
    ASSUME NEW x \in Values!AnyValue, NEW V, NEW P, NEW W, NEW Q,
           Values!Holds(x), x = Values!Of(x.kind, x.v), x.v = [i \in DOMAIN x.v |-> x.v[i]],
           \A i \in DOMAIN x.v : Travels(x.v[i], W, Q),
           There(x) \in P, Back(There(x)) \in V,
           P \subseteq Values!AnyValue, V \subseteq Values!AnyValue
    PROVE  Travels(x, V, P)
<1>1. \A f, z : Each(f, z).kind = z.kind /\ Each(f, z).v = [i \in DOMAIN z.v |-> f[z.v[i]]]
                /\ (Values!Holds(Each(f, z)) <=> Values!Holds(z))
  BY DEF Each, Values!Of, Values!Holds
<1>2. There(x) = Each(Values!toPy, x)
  BY ToPyIs, Zenon DEF There, PyOf
<1>3. Back(There(x)) = Each(Values!fromPy, There(x))
  BY <1>1, <1>2, FromPyIs, Zenon DEF Back, VimOf
<1>4. There(Back(There(x))) = Each(Values!toPy, Back(There(x)))
  <2>1. Back(There(x)) \in Values!AnyValue
    OBVIOUS
  <2>2. Values!Holds(Back(There(x)))
    BY <1>1, <1>2, <1>3, Zenon
  <2>3. Values!toPy[Back(There(x))] = PyOf(Values!toPy, Back(There(x)))
    BY <2>1, ToPyIs, Zenon
  <2> QED BY <2>2, <2>3, Zenon DEF There, PyOf
<1>5. There(x).kind = x.kind /\ There(x).v = [i \in DOMAIN x.v |-> There(x.v[i])]
  BY <1>1, <1>2 DEF There
<1>6. Back(There(x)).kind = x.kind /\ Back(There(x)).v = [i \in DOMAIN x.v |-> Back(There(x.v[i]))]
  BY <1>1, <1>3, <1>5 DEF Back
<1>7. There(Back(There(x))) = Values!Of(x.kind, [i \in DOMAIN x.v |-> There(Back(There(x.v[i])))])
  BY <1>4, <1>6 DEF Each, There
<1>8. There(x) = Values!Of(x.kind, [i \in DOMAIN x.v |-> There(x.v[i])])
  BY <1>2 DEF Each, There
<1>9. There(Back(There(x))) = There(x)
  <2>1. [i \in DOMAIN x.v |-> There(Back(There(x.v[i])))] = [i \in DOMAIN x.v |-> There(x.v[i])]
    BY DEF Travels
  <2> QED BY <1>7, <1>8, <2>1, Zenon
<1>10. ASSUME ~Values!Contains(x, RawOnes) PROVE Back(There(x)) = x
  <2>1. \A i \in DOMAIN x.v : Back(There(x.v[i])) = x.v[i]
    BY <1>10, ItemsAreParts, Zenon DEF Travels
  <2>2. [i \in DOMAIN x.v |-> Back(There(x.v[i]))] = [i \in DOMAIN x.v |-> x.v[i]]
    BY <2>1, Zenon
  <2>3. Back(There(x)) = Values!Of(x.kind, [i \in DOMAIN x.v |-> Back(There(x.v[i]))])
    BY <1>3, <1>5 DEF Each, Back
  <2> QED BY <2>2, <2>3, Zenon
<1> QED BY <1>9, <1>10, Zenon DEF Travels

(* So what holds atoms does, and what holds such.                           *)
LEMMA FlatsTravel == \A x \in Flat(VimAtoms) : Travels(x, Flat(VimAtoms), Flat(PyAtoms))
<1> SUFFICES ASSUME NEW x \in Flat(VimAtoms) PROVE Travels(x, Flat(VimAtoms), Flat(PyAtoms))
  OBVIOUS
<1>1. /\ x \in Values!AnyValue
      /\ Flat(VimAtoms) \subseteq Values!AnyValue /\ Flat(PyAtoms) \subseteq Values!AnyValue
  BY ValuesAre, Zenon DEF Flats
<1>2. Values!Holds(x) /\ \A i \in DOMAIN x.v : x.v[i] \in VimAtoms
  BY FlatsHold
<1>3. \A i \in DOMAIN x.v : Travels(x.v[i], VimAtoms, PyAtoms)
  BY <1>2, AtomsTravel, Zenon
<1>4. There(x) = Each(Values!toPy, x)
  BY <1>1, <1>2, ToPyIs, Zenon DEF There, PyOf
<1>5. There(x) \in Flat(PyAtoms)
  <2>1. \A i \in DOMAIN x.v : Values!toPy[x.v[i]] \in PyAtoms
    BY <1>3, Zenon DEF Travels, There
  <2> QED BY <1>4, <2>1, EachOfFlat, Zenon
<1>6. There(x).v = [i \in DOMAIN x.v |-> There(x.v[i])]
  BY <1>4 DEF Each, Values!Of, There
<1>7. Back(There(x)) \in Flat(VimAtoms)
  <2>1. \A i \in DOMAIN There(x).v : Values!fromPy[There(x).v[i]] \in VimAtoms
    BY <1>3, <1>6 DEF Travels, Back
  <2>2. Values!Holds(There(x)) /\ There(x) \in Values!AnyValue
    BY <1>1, <1>5, FlatsHold, Zenon
  <2>3. Back(There(x)) = Each(Values!fromPy, There(x))
    BY <2>2, FromPyIs, Zenon DEF Back, VimOf
  <2> QED BY <1>5, <2>1, <2>3, EachOfFlat, Zenon
<1>8. x = Values!Of(x.kind, x.v) /\ x.v = [i \in DOMAIN x.v |-> x.v[i]]
  <2>1. x \in Flat(VimAtoms) \cup Deep(VimAtoms)
    OBVIOUS
  <2> QED BY <2>1, HoldersAre, Zenon
<1> QED BY <1>1, <1>2, <1>3, <1>5, <1>7, <1>8, HoldersTravel, Zenon

LEMMA DeepsTravel == \A x \in Deep(VimAtoms) : Travels(x, Deep(VimAtoms), Deep(PyAtoms))
<1> SUFFICES ASSUME NEW x \in Deep(VimAtoms) PROVE Travels(x, Deep(VimAtoms), Deep(PyAtoms))
  OBVIOUS
<1>1. /\ x \in Values!AnyValue
      /\ Deep(VimAtoms) \subseteq Values!AnyValue /\ Deep(PyAtoms) \subseteq Values!AnyValue
  BY ValuesAre, Zenon DEF Deeps
<1>2. Values!Holds(x) /\ \A i \in DOMAIN x.v : x.v[i] \in Flat(VimAtoms)
  BY DeepsHold
<1>3. \A i \in DOMAIN x.v : Travels(x.v[i], Flat(VimAtoms), Flat(PyAtoms))
  BY <1>2, FlatsTravel, Zenon
<1>4. There(x) = Each(Values!toPy, x)
  BY <1>1, <1>2, ToPyIs, Zenon DEF There, PyOf
<1>5. There(x) \in Deep(PyAtoms)
  <2>1. \A i \in DOMAIN x.v : Values!toPy[x.v[i]] \in Flat(PyAtoms)
    BY <1>3, Zenon DEF Travels, There
  <2> QED BY <1>4, <2>1, EachOfDeep, Zenon
<1>6. There(x).v = [i \in DOMAIN x.v |-> There(x.v[i])]
  BY <1>4 DEF Each, Values!Of, There
<1>7. Back(There(x)) \in Deep(VimAtoms)
  <2>1. \A i \in DOMAIN There(x).v : Values!fromPy[There(x).v[i]] \in Flat(VimAtoms)
    BY <1>3, <1>6 DEF Travels, Back
  <2>2. Values!Holds(There(x)) /\ There(x) \in Values!AnyValue
    BY <1>1, <1>5, DeepsHold, Zenon
  <2>3. Back(There(x)) = Each(Values!fromPy, There(x))
    BY <2>2, FromPyIs, Zenon DEF Back, VimOf
  <2> QED BY <1>5, <2>1, <2>3, EachOfDeep, Zenon
<1>8. x = Values!Of(x.kind, x.v) /\ x.v = [i \in DOMAIN x.v |-> x.v[i]]
  <2>1. x \in Flat(VimAtoms) \cup Deep(VimAtoms)
    OBVIOUS
  <2> QED BY <2>1, HoldersAre, Zenon
<1> QED BY <1>1, <1>2, <1>3, <1>5, <1>7, <1>8, HoldersTravel, Zenon

(* What Vim is given of Python's is one of Vim's values.                     *)
LEMMA VimGets ==
    ASSUME NEW x \in Values!PyValues, ~Values!Contains(x, Objects)
    PROVE  Back(x) \in Values!VimValues
<1>1. x \in Values!AnyValue
  BY Zenon DEF Values!AnyValue
<1>2. \A z \in Values!AnyValue : ~Values!Contains(z, Objects) => z \notin Objects
  BY ItemsAreParts, Zenon
<1>3. \A z \in Flat(PyAtoms) : ~Values!Contains(z, Objects) => Back(z) \in Flat(VimAtoms)
  <2> SUFFICES ASSUME NEW z \in Flat(PyAtoms), ~Values!Contains(z, Objects)
      PROVE  Back(z) \in Flat(VimAtoms)
    OBVIOUS
  <2>1. z \in Values!AnyValue /\ Values!Holds(z) /\ \A i \in DOMAIN z.v : z.v[i] \in PyAtoms
    BY ValuesAre, FlatsHold, Zenon DEF Flats
  <2>2. \A i \in DOMAIN z.v : z.v[i] \notin Objects
    BY <1>2, <2>1, ItemsAreParts, ValuesAre, Zenon DEF Atoms
  <2>3. \A i \in DOMAIN z.v : Values!fromPy[z.v[i]] \in VimAtoms
    BY <2>1, <2>2, AtomsTravel, Zenon DEF Back
  <2>4. Back(z) = Each(Values!fromPy, z)
    BY <2>1, FromPyIs, Zenon DEF Back, VimOf
  <2> QED BY <2>3, <2>4, EachOfFlat, Zenon
<1>4. CASE x \in PyAtoms
  BY <1>1, <1>2, <1>4, AtomsTravel, ValuesAre, Zenon
<1>5. CASE x \in Flat(PyAtoms)
  BY <1>3, <1>5, ValuesAre, Zenon
<1>6. CASE x \in Deep(PyAtoms)
  <2>1. Values!Holds(x) /\ \A i \in DOMAIN x.v : x.v[i] \in Flat(PyAtoms)
    BY <1>6, DeepsHold
  <2>2. \A i \in DOMAIN x.v : Values!fromPy[x.v[i]] \in Flat(VimAtoms)
    BY <1>1, <1>3, <2>1, ItemsAreParts, Zenon DEF Back
  <2>3. Back(x) = Each(Values!fromPy, x)
    BY <1>1, <2>1, FromPyIs, Zenon DEF Back, VimOf
  <2>4. Back(x) \in Deep(VimAtoms)
    BY <1>6, <2>2, <2>3, EachOfDeep, Zenon
  <2> QED BY <2>4, ValuesAre, Zenon
<1> QED BY <1>4, <1>5, <1>6, ValuesAre, Zenon

(* In Vim there are values of Vim's, in Python of Python's.                  *)
ValueInv ==
    /\ place \in {"vim", "python"}
    /\ place = "vim" => val \in Values!VimValues
    /\ place = "python" => val \in Values!PyValues

LEMMA ValuesTravel ==
    ASSUME NEW x \in Values!VimValues
    PROVE  /\ There(x) \in Values!PyValues /\ There(Back(There(x))) = There(x)
           /\ ~Values!Contains(x, RawOnes) => Back(There(x)) = x
  BY AtomsTravel, FlatsTravel, DeepsTravel, ValuesAre, Zenon DEF Travels

(* What is handed over is of the other's kind; the rest makes its own.        *)
LEMMA ValueSteps == ASSUME ValueInv, [Values!Next]_<<place, val>> PROVE ValueInv'
<1>1. CASE Values!Eval
  BY <1>1, ValuesTravel DEF Values!Eval, Values!ToPy, There, ValueInv
<1>2. ASSUME place = "python", ~Values!Contains(val, Objects), Values!Back
      PROVE  ValueInv'
  BY <1>2, VimGets DEF Values!Back, Values!FromPy, Back, ValueInv
<1>3. CASE Values!Call
  BY <1>2, <1>3 DEF Values!Call, Values!HeldAt, Objects
<1>4. CASE Values!Result
  BY <1>2, <1>4 DEF Values!Result, Values!Held, Values!HeldAt, Objects
<1>5. CASE Values!Work
  BY <1>5 DEF Values!Work, ValueInv
<1>6. CASE Values!Refused
  BY <1>6 DEF Values!Refused, ValueInv
<1>7. CASE UNCHANGED <<place, val>>
  BY <1>7 DEF ValueInv
<1> QED BY <1>1, <1>3, <1>4, <1>5, <1>6, <1>7 DEF Values!Next

(* A value of Vim's that is handed to Python comes back as it was, in lists,  *)
(* tuples and dictionaries too, unless it has v:null in it, a String that is  *)
(* not UTF-8 or a Funcref: that changes once and stays (to_py(), from_py()). *)
THEOREM ValuesComeBack == SessionsSpec => []ComesBack
<1>1. SessionsInit => ValueInv
  BY DEF SessionsInit, Values!Init, ValueInv
<1>2. ValueInv /\ [SessionsNext]_allVars => ValueInv'
  <2>1. [SessionsNext]_allVars => [Values!Next]_<<place, val>>
    BY DEF SessionsNext, allVars, others, valueVars, Moves
  <2> QED BY <2>1, ValueSteps
<1>3. ValueInv => ComesBack
  <2> SUFFICES ASSUME ValueInv, place = "vim"
      PROVE  /\ There(Back(There(val))) = There(val)
             /\ Values!Contains(val, RawOnes) \/ Back(There(val)) = val
    BY Zenon DEF ComesBack, Values!ComesBack, Values!ToPy, Values!FromPy, There, Back, RawOnes
  <2> QED BY ValuesTravel DEF ValueInv
<1> QED BY <1>1, <1>2, <1>3, PTL DEF SessionsSpec
=============================================================================
