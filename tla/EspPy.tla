--------------------------------- MODULE EspPy ---------------------------------
(***************************************************************************)
(* MicroPython in Vim: micropython/port/esp_py.c, called from and calling    *)
(* vim/api/esp_api_py.c, all on Vim's task.  Python code calls Vim, whose     *)
(* commands may run Python again; an exception jumps back to the innermost    *)
(* nlr_push().  The interpreter and its heap outlive a session of Vim.       *)
(***************************************************************************)
EXTENDS Naturals, Sequences, FiniteSets

CONSTANTS
    Fds,        \* descriptors of the VFS
    MaxFrames   \* bound: how deep the calls nest, and the counts of them grow

VARIABLES
    session,    \* Vim's task is there
    sessionKnown,   \* s_session_known
    started, depth, \* s_started, s_depth
    sink,       \* s_sink: the frame it is in, or 0
    trylevel,
    stack,      \* the C stack: "py" of run(), with the sink it found, "vim" of a host call
    objs,       \* the descriptors of the interpreter's file objects
    owner,      \* whose each descriptor is
    broken      \* history: an exception jumped over Vim's frames in this session

interp == <<started, depth>>
vimState == <<sessionKnown, sink, trylevel>>
files == <<objs, owner>>
vars == <<session, interp, vimState, stack, files, broken>>

Frames(kind) == {i \in 1..Len(stack) : stack[i].kind = kind}
Top(kind) == session /\ stack # <<>> /\ stack[Len(stack)].kind = kind
FromVim == session /\ (stack = <<>> \/ Top("vim"))
Popped == SubSeq(stack, 1, Len(stack) - 1)
Last(set) == CHOOSE i \in set : \A j \in set : j <= i

-----------------------------------------------------------------------------
(* esp_py_*() *)

(* Mistake: what was in progress stays so. *)
NewSessionAsItWas == IF sessionKnown THEN <<started, depth>> ELSE <<FALSE, depth>>

(* session_check(), esp_py_new_session(): what is left of the last session's
   interpreter is dropped, not deinitialised.                               *)
NewSession == IF sessionKnown THEN <<started, depth>> ELSE <<FALSE, 0>>

(* esp_py_exec(), esp_py_eval(), esp_py_complete(): start(), esp_py_start(),
   and run().  No memory, or no stack: nothing is run.                      *)
Run ==
    LET was == NewSession
        under == IF was[1] THEN was[2] ELSE 0
    IN
    /\ FromVim /\ Len(stack) < MaxFrames /\ under < MaxFrames /\ sessionKnown' = TRUE
    /\ objs' = IF was[1] THEN objs ELSE {}
    /\ \/ /\ stack' = Append(stack, [kind |-> "py", prev |-> sink]) /\ sink' = Len(stack')
          /\ started' = TRUE /\ depth' = under + 1
       \/ /\ started' \in {was[1], TRUE} /\ depth' = under /\ UNCHANGED <<stack, sink>>
    /\ UNCHANGED <<session, trylevel, owner, broken>>

(* vim.command(), vim.eval(), vim.call(), input(): try_start() ...          *)
HostCall ==
    /\ Top("py") /\ Len(stack) < MaxFrames /\ trylevel < MaxFrames
    /\ stack' = Append(stack, [kind |-> "vim", prev |-> 0]) /\ trylevel' = trylevel + 1
    /\ UNCHANGED <<session, interp, sessionKnown, sink, files, broken>>

(* ... and try_end(): a result, or an exception in Python.                  *)
HostReturn ==
    /\ Top("vim") /\ stack' = Popped /\ trylevel' = trylevel - 1
    /\ UNCHANGED <<session, interp, sessionKnown, sink, files, broken>>

(* run()'s end, sink_end(): by itself, by SystemExit, or by an exception
   whose traceback is made.                                                 *)
End ==
    /\ Top("py") /\ stack' = Popped /\ depth' = depth - 1 /\ sink' = stack[Len(stack)].prev
    /\ UNCHANGED <<session, started, sessionKnown, trylevel, files, broken>>

(* traceback() allocates, and calls an exception's own methods, after the
   handler is popped: what it raises goes to the one of the run() below, past
   Vim's frames in between ...                                              *)
TracebackRaises ==
    /\ Top("py") /\ Cardinality(Frames("py")) > 1
    /\ stack' = SubSeq(stack, 1, Last(Frames("py") \ {Len(stack)})) /\ broken' = TRUE
    /\ UNCHANGED <<session, interp, vimState, files>>

(* ... or, with none, to nlr_jump_fail(): abort(), and the device restarts.  *)
Abort ==
    /\ Top("py") /\ Cardinality(Frames("py")) = 1
    /\ session' = FALSE /\ sessionKnown' = FALSE /\ started' = FALSE /\ depth' = 0
    /\ sink' = 0 /\ trylevel' = 0 /\ stack' = <<>> /\ objs' = {}
    /\ owner' = [f \in Fds |-> "free"] /\ broken' = FALSE

(* Mistake: the session is not looked at. *)
ResetUnchecked ==
    /\ FromVim /\ UNCHANGED <<session, sink, trylevel, stack, broken, sessionKnown>>
    /\ IF depth > 0 \/ ~started THEN UNCHANGED <<interp, files>>
       ELSE /\ started' = FALSE /\ depth' = depth /\ objs' = {}
            /\ owner' = [f \in Fds |-> IF f \in objs THEN "free" ELSE owner[f]]

(* f_esp_py_reset(), esp_py_reset(): not from inside Python; the finalisers
   close what is open.                                                      *)
Reset ==
    LET was == NewSession IN
    /\ FromVim /\ sessionKnown' = TRUE
    /\ IF was[2] > 0 \/ ~was[1]
       THEN started' = was[1] /\ depth' = was[2] /\ UNCHANGED files
       ELSE /\ started' = FALSE /\ depth' = was[2] /\ objs' = {}
            /\ owner' = [f \in Fds |-> IF f \in objs THEN "free" ELSE owner[f]]
    /\ UNCHANGED <<session, sink, trylevel, stack, broken>>

(* Python opens and closes a file, or the collector does.                   *)
Open(f) ==
    /\ Top("py") /\ owner[f] = "free"
    /\ owner' = [owner EXCEPT ![f] = "vim"] /\ objs' = objs \cup {f}
    /\ UNCHANGED <<session, interp, vimState, stack, broken>>

Close(f) ==
    /\ Top("py") /\ f \in objs
    /\ owner' = [owner EXCEPT ![f] = "free"] /\ objs' = objs \ {f}
    /\ UNCHANGED <<session, interp, vimState, stack, broken>>

-----------------------------------------------------------------------------
(* The sessions, and the other tasks (VimSession) *)

(* Vim's task is deleted, at its prompt or in a command Python gave.        *)
Quit ==
    /\ FromVim /\ session' = FALSE /\ stack' = <<>>
    /\ UNCHANGED <<interp, vimState, files, broken>>

(* esp_vim_session_begin(): what Vim's task had open is closed, and its
   globals are as after power-on; esp_py.c's are not.                       *)
Begin ==
    /\ ~session /\ session' = TRUE
    /\ owner' = [f \in Fds |-> IF owner[f] = "vim" THEN "free" ELSE owner[f]]
    /\ sessionKnown' = FALSE /\ sink' = 0 /\ trylevel' = 0 /\ broken' = FALSE
    /\ UNCHANGED <<interp, stack, objs>>

Other(f) ==
    /\ \/ owner[f] = "free" /\ owner' = [owner EXCEPT ![f] = "other"]
       \/ owner[f] = "other" /\ owner' = [owner EXCEPT ![f] = "free"]
    /\ UNCHANGED <<session, interp, vimState, stack, objs, broken>>

Init ==
    /\ session = FALSE /\ sessionKnown = FALSE /\ started = FALSE /\ depth = 0
    /\ sink = 0 /\ trylevel = 0 /\ stack = <<>> /\ objs = {}
    /\ owner = [f \in Fds |-> "free"] /\ broken = FALSE

Python == Run \/ HostCall \/ HostReturn \/ End \/ TracebackRaises \/ Reset
          \/ \E f \in Fds : Open(f) \/ Close(f)

Next == Python \/ Abort \/ Quit \/ Begin \/ \E f \in Fds : Other(f)

Spec == Init /\ [][Next]_vars

-----------------------------------------------------------------------------
(* Nothing of another task is closed by Python: neither by the finalisers of
   an interpreter whose session is over, whose descriptors "may be someone
   else's by now" (esp_py_new_session()).                                   *)
ClosesItsOwn == [][Python => \A f \in Fds : owner[f] = "other" => owner'[f] = "other"]_vars

(* s_depth counts the "esp_py_exec()s in progress", and with it Vim's
   trylevel and the sink are those of the calls there are.                  *)
InProgress ==
    session /\ sessionKnown =>
        /\ depth = Cardinality(Frames("py")) /\ trylevel = Cardinality(Frames("vim"))
        /\ sink = IF Frames("py") = {} THEN 0 ELSE Last(Frames("py"))

(* That is so from the first call of every session, whatever the last one was
   in the midst of, for as long as no traceback raises.                      *)
StartsAfresh == broken \/ InProgress
=============================================================================
