------------------------------ MODULE EspFiles ------------------------------
(***************************************************************************)
(* File operations: components/esp_fs/esp_fs.c, and the transfers that       *)
(* write a ".part" and rename it: uploads (esp_web.c), downloads (esp_net.c)*)
(* and gets (esp_ssh.c).                                                    *)
(*                                                                         *)
(* Vim's task and the web server's each run one operation at a time.  Copy, *)
(* move and delete hold esp_fs's lock; an upload only at its end, a         *)
(* download or a get never.  The board may lose its power at any step.      *)
(*                                                                         *)
(* The volumes are FAT: no rename onto a name that exists, a file removed   *)
(* or truncated under another's hands, names told apart without case -- so  *)
(* Entry[n] is the directory entry of path n.  A directory is the set of    *)
(* its files, each with where it goes.                                      *)
(***************************************************************************)
EXTENDS FiniteSets, Naturals

CONSTANTS
    Tasks,      \* the tasks that run operations
    Calls,      \* Calls[t] \subseteq {"copy", "move", "delete", "upload", "get"}
    Paths,      \* the paths
    Entry,      \* Entry[n]: the directory entry of path n
    Volume,     \* Volume[e]: the file system of entry e
    Trees,      \* what is copied, moved or deleted: sets of <<from, to>>
    Dests,      \* the paths uploads and downloads go to
    Data,       \* the contents of files
    Firsts,     \* what the entries may hold at first
    None, Cut, Torn \* no file; one being written; one cut by a reset or a clash

Entries == {Entry[n] : n \in Paths}

ASSUME FilesAssumption ==
    /\ Calls \in [Tasks -> SUBSET {"copy", "move", "delete", "upload", "get"}]
    /\ Trees \subseteq SUBSET (Paths \X Paths) /\ {} \notin Trees /\ Dests \subseteq Paths
    /\ Firsts \subseteq [Entries -> Data \cup {None}]
    /\ {None, Cut, Torn} \cap Data = {} /\ None # Cut /\ None # Torn /\ Cut # Torn
    /\ None \notin Tasks \cup Entries \cup {"copy", "move", "delete", "upload", "get"}

VARIABLES
    file,       \* what each entry holds
    part,       \* ... and its ".part"
    lock,       \* s_lock's holder
    pc,         \* of each task
    op,         \* ... and its operation
    writes,     \* the entry whose .part the task has open, not taken from it since
    \* history, read by no action
    kept        \* the contents somebody still counts on

disk == <<file, part>>
vars == <<disk, lock, pc, op, writes, kept>>

NoOp == [call |-> None, pairs |-> {}, left |-> {}, to |-> None, data |-> None,
         overwrite |-> FALSE, clash |-> FALSE]

-----------------------------------------------------------------------------
Goes(t, where) == pc' = [pc EXCEPT ![t] = where]
Ends(t) == Goes(t, "idle") /\ op' = [op EXCEPT ![t] = NoOp]

(* The paths are checked, and the operation begins.                         *)
Of(o) == {Entry[p[1]] : p \in o.pairs} \cup {Entry[p[2]] : p \in o.pairs} \cup ({o.to} \ {None})
Transfers == {"upload", "get"}

(* Two operations meet that no lock keeps apart: nothing is promised of     *)
(* what either has under its hands.                                         *)
Meets(o, u) ==
    /\ op[u].call # None /\ (o.call \in Transfers \/ op[u].call \in Transfers)
    /\ Of(o) \cap Of(op[u]) # {}

Start(t, o) ==
    LET met  == {u \in Tasks \ {t} : Meets(o, u)}
        hurt == IF met = {} THEN {} ELSE Of(o) \cup UNION {Of(op[u]) : u \in met}
    IN  /\ op' = [u \in Tasks |->
                    IF u = t THEN [o EXCEPT !.clash = met # {}]
                    ELSE IF u \in met THEN [op[u] EXCEPT !.clash = TRUE] ELSE op[u]]
        /\ kept' = kept \ ({file[e] : e \in hurt} \cup {part[e] : e \in hurt}
                             \cup {op[u].data : u \in met})
        /\ UNCHANGED <<disk, lock, writes>>

(* within(): {inner} is {outer}, spelled alike.                             *)
Within(inner, outer) == inner = outer

CallTree(t, c, tree, ow) ==
    /\ pc[t] = "idle" /\ c \in Calls[t] \cap {"copy", "move", "delete"}
    /\ c # "delete" => \A p \in tree : ~Within(p[2], p[1])
    /\ Start(t, [NoOp EXCEPT !.call = c, !.pairs = tree, !.left = tree, !.overwrite = ow])
    /\ Goes(t, "lock")

InUse == {file[e] : e \in Entries} \cup {part[e] : e \in Entries} \cup {op[t].data : t \in Tasks}

(* An upload, a download or a get of content nobody has yet.                *)
CallTransfer(t, c, n, ow, d) ==
    /\ pc[t] = "idle" /\ c \in Calls[t] \cap Transfers /\ d \in Data \ InUse
    /\ Start(t, [NoOp EXCEPT !.call = c, !.to = Entry[n], !.data = d, !.overwrite = ow])
    /\ Goes(t, IF c = "upload" THEN "check" ELSE "open")

-----------------------------------------------------------------------------
(* copy_or_move(), esp_fs_delete(), under the lock *)

(* Mistake: the lock not waited for. *)
LockAnyway(t) ==
    /\ pc[t] \in {"lock", "finish"} /\ lock' = t
    /\ Goes(t, IF pc[t] = "finish" THEN "remove" ELSE
              CASE op[t].call = "delete" -> "delete"
                [] op[t].call = "copy"   -> "copy"
                [] OTHER -> IF \A p \in op[t].pairs : Volume[Entry[p[1]]] = Volume[Entry[p[2]]]
                            THEN "stat" ELSE "copy")
    /\ UNCHANGED <<disk, op, writes, kept>>

(* A move within one volume is a rename.                                    *)
Lock(t) ==
    /\ pc[t] \in {"lock", "finish"} /\ lock = None /\ lock' = t
    /\ Goes(t, IF pc[t] = "finish" THEN "remove" ELSE
              CASE op[t].call = "delete" -> "delete"
                [] op[t].call = "copy"   -> "copy"
                [] OTHER -> IF \A p \in op[t].pairs : Volume[Entry[p[1]]] = Volume[Entry[p[2]]]
                            THEN "stat" ELSE "copy")
    /\ UNCHANGED <<disk, op, writes, kept>>

Unlock(t) ==
    /\ pc[t] = "unlock" /\ lock' = None /\ Ends(t)
    /\ UNCHANGED <<disk, writes, kept>>

Targets(t) == {Entry[p[2]] : p \in op[t].pairs}
Sources(t) == {Entry[p[1]] : p \in op[t].pairs}

(* The target that exists, if it may be overwritten and is a file, is       *)
(* removed ...                                                              *)
Stat(t) ==
    /\ pc[t] = "stat"
    /\ LET there == {e \in Targets(t) : file[e] # None} IN
       IF there = {} THEN Goes(t, "rename") /\ UNCHANGED <<file, kept>>
       ELSE IF op[t].overwrite /\ Cardinality(op[t].pairs) = 1
       THEN /\ Goes(t, "rename")
            /\ file' = [e \in Entries |-> IF e \in there THEN None ELSE file[e]]
            /\ kept' = kept \ {file[e] : e \in there \ Sources(t)}
       ELSE Goes(t, "unlock") /\ UNCHANGED <<file, kept>>
    /\ UNCHANGED <<part, lock, op, writes>>

(* ... and the source renamed: not onto a name that exists.                 *)
Rename(t) ==
    /\ pc[t] = "rename" /\ Goes(t, "unlock")
    /\ IF (\A e \in Targets(t) : file[e] = None) /\ (\E e \in Sources(t) : file[e] # None)
       THEN file' = [e \in Entries |->
                       IF e \in Sources(t) THEN None
                       ELSE IF e \in Targets(t)
                       THEN file[Entry[(CHOOSE p \in op[t].pairs : Entry[p[2]] = e)[1]]]
                       ELSE file[e]]
       ELSE UNCHANGED file
    /\ UNCHANGED <<part, lock, op, writes, kept>>

(* copy_file() begins: the source and the truncated, or new, copy are open. *)
CopyOpen(t, p) ==
    /\ pc[t] = "copy" /\ p \in op[t].left
    /\ LET src == Entry[p[1]]  dst == Entry[p[2]] IN
       IF file[src] = None \/ (file[dst] # None /\ ~op[t].overwrite)
       THEN Goes(t, "unlock") /\ UNCHANGED <<file, op, kept>>
       ELSE /\ Goes(t, "copying")
            /\ op' = [op EXCEPT ![t].to = dst, ![t].data = file[src],
                                ![t].left = op[t].left \ {p}]
            /\ file' = [file EXCEPT ![dst] = Cut]
            /\ kept' = IF src = dst THEN kept ELSE kept \ {file[dst]}
    /\ UNCHANGED <<part, lock, writes>>

(* What a copy comes to: the content, had the source been let alone.        *)
Bad(t) == IF op[t].clash THEN Torn ELSE Cut
Copied(t) == IF \E e \in Sources(t) : file[e] = op[t].data THEN op[t].data ELSE Bad(t)

CopyDone(t) ==
    /\ pc[t] = "copying" /\ Goes(t, "copy")
    /\ file' = IF file[op[t].to] = None THEN file ELSE [file EXCEPT ![op[t].to] = Copied(t)]
    /\ op' = [op EXCEPT ![t].to = None, ![t].data = None]
    /\ UNCHANGED <<part, lock, writes, kept>>

(* Mistake: a failed copy left as it is. *)
CopyFailsKeeps(t) ==
    /\ pc[t] = "copying" /\ Goes(t, "unlock")
    /\ op' = [op EXCEPT ![t].to = None, ![t].data = None]
    /\ UNCHANGED <<disk, lock, writes, kept>>

(* A read or a write fails, or it is interrupted: the copy is removed.      *)
CopyFails(t) ==
    /\ pc[t] = "copying" /\ Goes(t, "unlock")
    /\ file' = [file EXCEPT ![op[t].to] = None]
    /\ op' = [op EXCEPT ![t].to = None, ![t].data = None]
    /\ UNCHANGED <<part, lock, writes, kept>>

(* All copied: a move then deletes.                                         *)
AllCopied(t) ==
    /\ pc[t] = "copy" /\ op[t].left = {}
    /\ Goes(t, IF op[t].call = "move" THEN "delete" ELSE "unlock")
    /\ op' = [op EXCEPT ![t].left = op[t].pairs]
    /\ UNCHANGED <<disk, lock, writes, kept>>

(* delete_tree(): one file after the other, until interrupted.              *)
Delete(t, p) ==
    /\ pc[t] = "delete" /\ p \in op[t].left
    /\ LET e == Entry[p[1]] IN
       IF file[e] = None THEN Goes(t, "unlock") /\ UNCHANGED <<file, op, kept>>
       ELSE /\ file' = [file EXCEPT ![e] = None]
            /\ kept' = IF op[t].call = "delete" THEN kept \ {file[e]} ELSE kept
            /\ op' = [op EXCEPT ![t].left = op[t].left \ {p}]
            /\ pc' = pc \/ Goes(t, "unlock")
    /\ UNCHANGED <<part, lock, writes>>

AllDeleted(t) ==
    /\ pc[t] = "delete" /\ op[t].left = {} /\ Goes(t, "unlock")
    /\ UNCHANGED <<disk, lock, op, writes, kept>>

-----------------------------------------------------------------------------
(* esp_fs_create_part(), the data, esp_fs_finish_part() *)

Check(t) ==
    /\ pc[t] = "check"
    /\ IF file[op[t].to] # None /\ ~op[t].overwrite THEN Ends(t) ELSE Goes(t, "open") /\ UNCHANGED op
    /\ UNCHANGED <<disk, lock, writes, kept>>

(* The .part of {e} is truncated, removed or renamed: it is no longer the   *)
(* one another task writes.                                                 *)
Taken(e) == [t \in Tasks |-> IF writes[t] = e THEN None ELSE writes[t]]

Open(t) ==
    /\ pc[t] = "open" /\ Goes(t, "data")
    /\ part' = [part EXCEPT ![op[t].to] = Cut]
    /\ writes' = [Taken(op[t].to) EXCEPT ![t] = op[t].to]
    /\ kept' = kept \ {part[op[t].to]}
    /\ UNCHANGED <<file, lock, op>>

(* All of it written and closed, or not.                                    *)
Written(t) ==
    /\ pc[t] = "data" /\ Goes(t, IF op[t].call = "upload" THEN "finish" ELSE "remove")
    /\ part' = IF writes[t] # None THEN [part EXCEPT ![op[t].to] = op[t].data]
               ELSE IF part[op[t].to] = None THEN part
               ELSE [part EXCEPT ![op[t].to] = Bad(t)]
    /\ writes' = [writes EXCEPT ![t] = None]
    /\ UNCHANGED <<file, lock, op, kept>>

Fails(t) ==
    /\ pc[t] = "data" /\ Goes(t, "drop")
    /\ writes' = [writes EXCEPT ![t] = None]
    /\ UNCHANGED <<disk, lock, op, kept>>

(* The file it replaces goes ...                                            *)
Remove(t) ==
    /\ pc[t] = "remove" /\ Goes(t, "replace")
    /\ file' = [file EXCEPT ![op[t].to] = None]
    /\ kept' = (kept \ {file[op[t].to]}) \cup (IF op[t].clash THEN {} ELSE {op[t].data})
    /\ UNCHANGED <<part, lock, op, writes>>

(* ... and the .part takes its name.                                        *)
Replace(t) ==
    /\ pc[t] = "replace"
    /\ LET e == op[t].to  done == file[e] = None /\ part[e] # None IN
       /\ file' = IF done THEN [file EXCEPT ![e] = IF part[e] = Cut THEN Bad(t) ELSE part[e]] ELSE file
       /\ part' = IF done THEN [part EXCEPT ![e] = None] ELSE part
       /\ writes' = IF done THEN Taken(e) ELSE writes
       /\ lock' = IF op[t].call = "upload" THEN None ELSE lock
       /\ IF done THEN Ends(t) ELSE Goes(t, "drop") /\ UNCHANGED op
    /\ UNCHANGED kept

Drop(t) ==
    /\ pc[t] = "drop" /\ Ends(t)
    /\ part' = [part EXCEPT ![op[t].to] = None] /\ writes' = Taken(op[t].to)
    /\ UNCHANGED <<file, lock, kept>>

-----------------------------------------------------------------------------
(* A reset, or the power gone: what was being written is cut for good.      *)
AfterReset(c) == IF c = Cut THEN Torn ELSE c

Reset ==
    /\ file' = [e \in Entries |-> AfterReset(file[e])]
    /\ part' = [e \in Entries |-> AfterReset(part[e])]
    /\ lock' = None /\ pc' = [t \in Tasks |-> "idle"] /\ op' = [t \in Tasks |-> NoOp]
    /\ writes' = [t \in Tasks |-> None]
    /\ UNCHANGED kept

Init ==
    /\ file \in Firsts /\ part = [e \in Entries |-> None] /\ lock = None
    /\ pc = [t \in Tasks |-> "idle"] /\ op = [t \in Tasks |-> NoOp]
    /\ writes = [t \in Tasks |-> None]
    /\ kept = {file[e] : e \in Entries} \ {None}

TaskStep(t) ==
    \/ Lock(t) \/ Unlock(t) \/ Stat(t) \/ Rename(t)
    \/ (\E p \in op[t].left : CopyOpen(t, p) \/ Delete(t, p))
    \/ CopyDone(t) \/ CopyFails(t) \/ AllCopied(t) \/ AllDeleted(t)
    \/ Check(t) \/ Open(t) \/ Written(t) \/ Fails(t) \/ Remove(t) \/ Replace(t) \/ Drop(t)

Next ==
    \/ \E t \in Tasks :
         \/ TaskStep(t)
         \/ \E ow \in BOOLEAN :
              \/ \E c \in Calls[t], tree \in Trees : CallTree(t, c, tree, ow)
              \/ \E c \in Calls[t], n \in Dests, d \in Data : CallTransfer(t, c, n, ow, d)
    \/ Reset

Spec == Init /\ [][Next]_vars

-----------------------------------------------------------------------------
(* Properties *)

(* Nothing is lost that nobody asked to lose.  Until its owner deletes or   *)
(* overwrites it, a content is whole on a volume: through copies and moves  *)
(* that fail half way, by two tasks, and through a reset at any step, where *)
(* of an upload the old file or the new is there, if only as its .part (and *)
(* that until the next transfer to the same path).                          *)
DataKept == \A d \in kept : \E e \in Entries : file[e] = d \/ part[e] = d

(* PHASE6.md:93-94: operations "never leave a truncated copy behind", and   *)
(* esp_fs.h:101: "A failed upload never leaves a truncated file."  A file    *)
(* is cut only while it is being copied -- but for a reset meanwhile.       *)
NoCutFile ==
    \A e \in Entries : file[e] = Cut => \E t \in Tasks : pc[t] = "copying" /\ op[t].to = e

(* PHASE6.md:91: "A directory can't be copied or moved into itself."  What  *)
(* is copied is still there.                                                *)
CopyKeepsSource ==
    [][\A t \in Tasks : pc[t] = "copy" /\ pc'[t] = "copying" =>
         \A e \in Sources(t) : file'[e] = file[e]]_vars
=============================================================================
