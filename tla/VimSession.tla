----------------------------- MODULE VimSession -----------------------------
(***************************************************************************)
(* One session of Vim after another: vim/port/esp_shims.c's tracking of     *)
(* what Vim has open, its esp_vim_session_begin(), and the supervisor's     *)
(* loop of src/esp-vim/main/esp_vim_main.c.                                 *)
(*                                                                         *)
(* A session ends by deleting Vim's task; nothing unwinds.  The next one's  *)
(* task, on the same stack, gives back what the last one held -- while      *)
(* other tasks open and close files through the same wrappers, of the same  *)
(* descriptors.                                                             *)
(***************************************************************************)
EXTENDS Integers

CONSTANTS
    NFds,       \* ESP_FD_TRACK: as many as the VFS has
    Others,     \* the other tasks that open files
    Kinds,      \* what else a session holds: its timer, directories, blocks
    Sources,    \* where keys come from: the console, the keyboards' queue
    None        \* no task, no descriptor

ASSUME SessionAssumption ==
    /\ NFds \in Nat /\ None \notin Others \cup {"vim"} \cup Nat /\ "vim" \notin Others
    /\ Sources \subseteq {"console", "keyboard"}

Fds   == 0 .. NFds - 1
Tasks == Others \cup {"vim"}

VARIABLES
    real,       \* whose each descriptor is, in the VFS
    known,      \* s_fd_known
    owned,      \* s_fd_owned
    sessionTask,    \* s_session_task: the handle is the same in every session
    held,       \* what else Vim holds: of Kinds
    pc,         \* of each task, where in open() or close() it is
    fd,         \* ... and the descriptor
    phase,      \* of Vim's task
    scan,       \* the descriptor esp_vim_session_begin() is at
    \* the supervisor
    pcS,        \* its step
    notified,   \* its task notification
    keys,       \* the sources with a key waiting
    \* history, read by no action
    shown,      \* the prompt is shown
    stray       \* the sources whose key was typed before the session had ended

tracked == <<known, owned, sessionTask>>
files   == <<real, pc, fd>>
vimTask == <<held, phase, scan>>
supervisor == <<pcS, notified, shown>>
typed   == <<keys, stray>>
vars == <<tracked, files, vimTask, supervisor, typed>>

-----------------------------------------------------------------------------
(* open(), fopen(), close(), fclose() *)

(* Mistake: closed first, and forgotten afterwards. *)
ThenCloseFirst == [calls |-> "open", open |-> "remember", remember |-> "idle",
                   ends |-> "close", close |-> "forget", forget |-> "idle"]

(* A descriptor is remembered once open, and forgotten before it is closed. *)
Then == [calls |-> "open", open |-> "remember", remember |-> "idle",
         ends |-> "forget", forget |-> "close", close |-> "idle"]

Runs(t) == t = "vim" => phase = "run"
Goes(t, step) == pc' = [pc EXCEPT ![t] = Then[step]]
Does(t, step) == pc[t] = step /\ Goes(t, step)

CallOpen(t) ==
    /\ Runs(t) /\ pc[t] = "idle" /\ Goes(t, "calls")
    /\ UNCHANGED <<tracked, real, fd, vimTask, supervisor, typed>>

CallClose(t, f) ==
    /\ Runs(t) /\ pc[t] = "idle" /\ real[f] = t
    /\ Goes(t, "ends") /\ fd' = [fd EXCEPT ![t] = f]
    /\ UNCHANGED <<tracked, real, vimTask, supervisor, typed>>

(* The VFS gives the lowest descriptor that is free, if one is.             *)
RealOpen(t) ==
    /\ pc[t] = "open"
    /\ \/ \E f \in Fds :
            /\ real[f] = None /\ \A g \in 0 .. f - 1 : real[g] # None
            /\ real' = [real EXCEPT ![f] = t] /\ fd' = [fd EXCEPT ![t] = f]
            /\ Goes(t, "open")
       \/ /\ \A f \in Fds : real[f] # None
          /\ pc' = [pc EXCEPT ![t] = "idle"] /\ UNCHANGED <<real, fd>>
    /\ UNCHANGED <<tracked, vimTask, supervisor, typed>>

(* Mistake: every file taken for Vim's. *)
OpenedByVimAlways(t) == sessionTask # None

OpenedByVim(t) == sessionTask = t

(* fd_remember() *)
Remember(t) ==
    /\ Does(t, "remember")
    /\ known' = known \cup {fd[t]}
    /\ owned' = IF OpenedByVim(t) THEN owned \cup {fd[t]} ELSE owned \ {fd[t]}
    /\ UNCHANGED <<sessionTask, real, fd, vimTask, supervisor, typed>>

(* fd_forget() *)
Forget(t) ==
    /\ Does(t, "forget")
    /\ known' = known \ {fd[t]} /\ owned' = owned \ {fd[t]}
    /\ UNCHANGED <<sessionTask, real, fd, vimTask, supervisor, typed>>

RealClose(t) ==
    /\ Does(t, "close")
    /\ real' = [real EXCEPT ![fd[t]] = None]
    /\ UNCHANGED <<tracked, fd, vimTask, supervisor, typed>>

FileStep(t) == RealOpen(t) \/ Remember(t) \/ Forget(t) \/ RealClose(t)

-----------------------------------------------------------------------------
(* A session *)

(* Vim sets its timer, opens a directory, allocates: whatever it holds.     *)
Hold(k) ==
    /\ phase = "run" /\ pc["vim"] = "idle" /\ held' = held \cup {k}
    /\ UNCHANGED <<tracked, files, phase, scan, supervisor, typed>>

LetGo(k) ==
    /\ phase = "run" /\ pc["vim"] = "idle" /\ held' = held \ {k}
    /\ UNCHANGED <<tracked, files, phase, scan, supervisor, typed>>

(* Vim, and the prompt between sessions, take the keys that wait.           *)
ReadKeys ==
    /\ phase = "run" /\ keys' = {} /\ stray' = {}
    /\ UNCHANGED <<tracked, files, vimTask, supervisor>>

(* esp_vim_session_exit(): tells the supervisor ...                         *)
Exit ==
    /\ phase = "run" /\ pc["vim"] = "idle" /\ phase' = "exit" /\ notified' = TRUE
    /\ UNCHANGED <<tracked, files, held, scan, pcS, shown, typed>>

(* ... and deletes its task.                                                *)
Deleted ==
    /\ phase = "exit" /\ phase' = "deleted"
    /\ UNCHANGED <<tracked, files, held, scan, supervisor, typed>>

(* esp_vim_session_begin(): the timer, then each descriptor ...             *)
BeginTimer ==
    /\ phase = "begin" /\ phase' = "fds" /\ scan' = 0 /\ held' = held \ {"timer"}
    /\ UNCHANGED <<tracked, files, supervisor, typed>>

BeginFds ==
    /\ phase = "fds" /\ scan < NFds /\ scan' = scan + 1
    /\ real' = IF scan \in known /\ scan \in owned THEN [real EXCEPT ![scan] = None] ELSE real
    /\ UNCHANGED <<tracked, pc, fd, held, phase, supervisor, typed>>

(* ... the directories and the blocks ...                                   *)
BeginRest ==
    /\ phase = "fds" /\ scan = NFds /\ phase' = "reset" /\ held' = {}
    /\ UNCHANGED <<tracked, files, scan, supervisor, typed>>

(* ... and every global as after power-on, those of the tracking included.  *)
Zero ==
    /\ phase = "reset" /\ phase' = "mine"
    /\ known' = {} /\ owned' = {} /\ sessionTask' = None
    /\ UNCHANGED <<files, held, scan, supervisor, typed>>

Mine ==
    /\ phase = "mine" /\ phase' = "run" /\ sessionTask' = "vim"
    /\ UNCHANGED <<known, owned, files, held, scan, supervisor, typed>>

VimTaskStep == BeginTimer \/ BeginFds \/ BeginRest \/ Zero \/ Mine \/ Deleted

-----------------------------------------------------------------------------
(* The supervisor *)

(* Mistake: the keyboards' queue not emptied. *)
AfterNoDrain == [create |-> "notified", notified |-> "deleted", deleted |-> "flush",
                 flush |-> "prompt", drain |-> "prompt", prompt |-> "key", key |-> "create"]

(* The loop of app_main(), from a session's creation to the next one's.     *)
After == [create |-> "notified", notified |-> "deleted", deleted |-> "flush",
          flush |-> "drain", drain |-> "prompt", prompt |-> "key", key |-> "create"]

Step(s) == pcS = s /\ pcS' = After[s]

Take ==
    /\ Step("notified") /\ notified /\ notified' = FALSE
    /\ UNCHANGED <<tracked, files, vimTask, shown, typed>>

(* Its stack and its TCB are about to be used again.                        *)
Reap ==
    /\ Step("deleted") /\ phase = "deleted"
    /\ UNCHANGED <<tracked, files, vimTask, notified, shown, typed>>

(* between_sessions(): what was typed while quitting goes ...               *)
Flush(s, source) ==
    /\ Step(s) /\ keys' = keys \ {source} /\ stray' = stray \ {source}
    /\ UNCHANGED <<tracked, files, vimTask, notified, shown>>

Prompt ==
    /\ Step("prompt") /\ shown' = TRUE
    /\ UNCHANGED <<tracked, files, vimTask, notified, typed>>

(* ... and a key typed from now on starts the next session.                 *)
Key(source) ==
    /\ Step("key") /\ source \in keys
    /\ keys' = keys \ {source} /\ stray' = stray \ {source} /\ shown' = FALSE
    /\ UNCHANGED <<tracked, files, vimTask, notified>>

Create ==
    /\ Step("create")
    /\ phase' = "begin"
    /\ UNCHANGED <<tracked, files, held, scan, notified, shown, typed>>

SupervisorStep ==
    \/ Take \/ Reap \/ Flush("flush", "console") \/ Flush("drain", "keyboard")
    \/ Prompt \/ (\E s \in Sources : Key(s)) \/ Create

Type(source) ==
    /\ keys' = keys \cup {source}
    /\ stray' = IF pcS \in {"notified", "deleted"} THEN stray \cup {source}
                ELSE stray
    /\ UNCHANGED <<tracked, files, vimTask, supervisor>>

-----------------------------------------------------------------------------
(* Boot: other tasks may have files open before the first session.          *)
Init ==
    /\ real \in [Fds -> Others \cup {None}] /\ known = {f \in Fds : real[f] # None}
    /\ owned = {} /\ sessionTask = None /\ held = {}
    /\ pc = [t \in Tasks |-> "idle"] /\ fd = [t \in Tasks |-> None]
    /\ phase = "none" /\ scan = 0 /\ pcS = "create" /\ notified = FALSE
    /\ keys = {} /\ shown = FALSE /\ stray = {}

Next ==
    \/ \E t \in Tasks : CallOpen(t) \/ FileStep(t) \/ \E f \in Fds : CallClose(t, f)
    \/ (\E k \in Kinds : Hold(k) \/ LetGo(k)) \/ ReadKeys \/ Exit
    \/ VimTaskStep \/ SupervisorStep
    \/ \E s \in Sources : Type(s)

Spec == Init /\ [][Next]_vars

-----------------------------------------------------------------------------
(* Properties *)

(* Every variable holds a value of its kind, and a file Vim owns is known.  *)
TypeOK ==
    /\ real \in [Fds -> Tasks \cup {None}] /\ known \subseteq Fds /\ owned \subseteq known
    /\ sessionTask \in {None, "vim"} /\ held \subseteq Kinds
    /\ fd \in [Tasks -> Fds \cup {None}]
    /\ pc \in [Tasks -> {"idle", "open", "remember", "forget", "close"}] /\ scan \in 0 .. NFds
    /\ phase \in {"none", "begin", "fds", "reset", "mine", "run", "exit", "deleted"}
    /\ pcS \in {"create", "notified", "deleted", "flush", "drain", "prompt", "key"}
    /\ notified \in BOOLEAN /\ shown \in BOOLEAN /\ keys \subseteq Sources /\ stray \subseteq Sources

(* "Never close what Vim did not open" (esp_shims.c:1643): beginning a      *)
(* session closes nobody else's file, though descriptors go from task to    *)
(* task and the table that says whose they are has no lock.                 *)
ClosesOnlyVims ==
    [][BeginFds => \A f \in Fds : real[f] \in Others => real'[f] = real[f]]_vars

(* A session starts with nothing of the last one's: no descriptor, timer,   *)
(* directory or block is lost to those that follow.                         *)
NothingLeft == phase \in {"reset", "mine"} => held = {} /\ \A f \in Fds : real[f] # "vim"

(* A new task is never put on the stack of one that still runs.             *)
StackIsFree == [][Create => phase \in {"none", "deleted"}]_vars

(* A key typed while quitting starts no session.                            *)
NoStrayStart == pcS = "key" => stray = {}
=============================================================================
