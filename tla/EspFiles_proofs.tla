--------------------------- MODULE EspFiles_proofs ---------------------------
(***************************************************************************)
(* What file operations leave on the disk.  NoCutFile is so for any number  *)
(* of tasks, DataKept for the two there are: Vim's and the web server's.     *)
(*                                                                         *)
(* Neither is inductive.  A copy or a transfer that nobody met is whole      *)
(* because nobody else touches what it has under its hands (Inv); what is    *)
(* kept is on the disk because, of two operations that meet, nothing that    *)
(* either has under its hands is (Keeping).                                 *)
(***************************************************************************)
EXTENDS EspFiles, TLAPS

(* No file of what is copied or moved goes where another goes, or came from: *)
(* so it is but where FAT takes two names for one (the run EspFilesCase).    *)
Apart ==
    \A tree \in Trees : \A p, q \in tree :
        Entry[p[2]] # Entry[q[1]] /\ (Entry[p[2]] = Entry[q[2]] => p = q)

TwoTasks == \A t, u, v \in Tasks : t = u \/ u = v \/ t = v

TreeCalls == {"copy", "move", "delete"}
Held      == {"stat", "rename", "copy", "copying", "delete", "unlock"}
Transfer  == {"check", "open", "data", "finish", "remove", "replace", "drop"}
Contents  == Data \cup {None, Cut, Torn}

Ops == [call : TreeCalls \cup Transfers \cup {None}, pairs : SUBSET (Paths \X Paths),
        left : SUBSET (Paths \X Paths), to : Entries \cup {None}, data : Contents,
        overwrite : BOOLEAN, clash : BOOLEAN]

(* An operation is what its task's place in the code says.                   *)
OpOK(t) ==
    /\ pc[t] = "idle" => op[t] = NoOp
    /\ pc[t] \in Held \cup {"lock"} =>
         op[t].call \in TreeCalls /\ op[t].pairs \in Trees /\ op[t].left \subseteq op[t].pairs
    /\ pc[t] = "lock" => op[t].left = op[t].pairs
    /\ pc[t] \in {"stat", "rename"} => op[t].call = "move"
    /\ pc[t] = "delete" => op[t].call \in {"move", "delete"}
    /\ pc[t] \in (Held \ {"copying"}) \cup {"lock"} => op[t].to = None /\ op[t].data = None
    /\ pc[t] = "copying" => op[t].to \in {Entry[p[2]] : p \in op[t].pairs \ op[t].left}
    /\ pc[t] \in Transfer =>
         /\ op[t].call \in Transfers /\ op[t].pairs = {} /\ op[t].left = {}
         /\ op[t].to \in Entries /\ op[t].data \in Data
    /\ pc[t] \in {"check", "finish"} => op[t].call = "upload"

TypeOK ==
    /\ file \in [Entries -> Contents] /\ part \in [Entries -> Contents]
    /\ pc \in [Tasks -> Held \cup Transfer \cup {"idle", "lock"}]
    /\ op \in [Tasks -> Ops]
    /\ writes \in [Tasks -> Entries \cup {None}]
    /\ kept \subseteq Data
    /\ \A t \in Tasks : OpOK(t)

(* The lock keeps copies, moves and deletions, and an upload's end, apart.   *)
Alone ==
    \A t \in Tasks :
        pc[t] \in Held \/ (pc[t] \in {"remove", "replace"} /\ op[t].call = "upload") => lock = t

(* Two operations that no lock keeps apart, on one entry.                    *)
Meet(t, u) ==
    /\ t # u /\ op[t].call # None /\ op[u].call # None
    /\ op[t].call \in Transfers \/ op[u].call \in Transfers
    /\ Of(op[t]) \cap Of(op[u]) # {}

Met == \A t, u \in Tasks : Meet(t, u) => op[t].clash /\ op[u].clash

(* A transfer that met nobody has its .part to itself.                       *)
PartIsOwn ==
    \A t \in Tasks : ~op[t].clash =>
        /\ pc[t] = "data" => writes[t] = op[t].to
        /\ pc[t] \in {"data", "drop"} => part[op[t].to] = Cut
        /\ pc[t] \in {"finish", "remove", "replace"} => part[op[t].to] = op[t].data
        /\ pc[t] = "replace" => file[op[t].to] = None

(* ... and a copy its source.                                                *)
SourceIsThere ==
    \A t \in Tasks : pc[t] = "copying" =>
        /\ op[t].data \notin {None, Cut}
        /\ ~op[t].clash => \E p \in op[t].pairs \ op[t].left :
                              Entry[p[2]] = op[t].to /\ file[Entry[p[1]]] = op[t].data

Inv == TypeOK /\ Alone /\ Met /\ PartIsOwn /\ SourceIsThere /\ NoCutFile

-----------------------------------------------------------------------------
(* Of what operations that meet have under their hands, nothing is kept.     *)
NothingPromised ==
    /\ \A t, u \in Tasks : Meet(t, u) => \A e \in Of(op[t]) : file[e] \notin kept
    /\ \A t \in Tasks : op[t].call \in Transfers /\ op[t].clash =>
         part[op[t].to] \notin kept /\ op[t].data \notin kept

(* What a transfer that met nobody brings is nowhere else.                   *)
Fresh ==
    \A t \in Tasks : op[t].call \in Transfers /\ ~op[t].clash =>
        /\ \A e \in Entries : file[e] # op[t].data /\ (part[e] = op[t].data => e = op[t].to)
        /\ \A u \in Tasks \ {t} : op[u].data # op[t].data

(* The copy that is made covers nothing that is kept, and is of its source,  *)
(* or that is not kept.                                                     *)
CopyingKept ==
    \A t \in Tasks : pc[t] = "copying" =>
        /\ file[op[t].to] \notin kept
        /\ \A p \in op[t].pairs \ op[t].left : Entry[p[2]] = op[t].to =>
             \/ file[Entry[p[1]]] \notin kept
             \/ file[Entry[p[1]]] = op[t].data /\ file[op[t].to] = Cut

(* Before a move deletes, what is kept is at both ends.                      *)
AtBothEnds ==
    \A t \in Tasks : pc[t] \in {"copy", "copying", "delete"} /\ op[t].call = "move" =>
        \A p \in op[t].pairs :
            /\ pc[t] # "delete" => p \notin op[t].left
            /\ pc[t] = "copying" => Entry[p[2]] # op[t].to
            /\ file[Entry[p[1]]] \in kept
            => file[Entry[p[2]]] = file[Entry[p[1]]]

Keeping == NothingPromised /\ Fresh /\ CopyingKept /\ AtBothEnds /\ DataKept
IInv == Inv /\ Keeping

-----------------------------------------------------------------------------
(* What a step leaves alone *)

(* The other tasks are where they were, at what they were.                   *)
OthersStay(t) == \A u \in Tasks \ {t} : pc'[u] = pc[u] /\ op'[u] = op[u]

(* A task's operation is over, or it is the one that it was.                 *)
Over(t) == pc'[t] = "idle" /\ op'[t] = NoOp
SameOp(t) ==
    /\ op'[t].call = op[t].call /\ op'[t].pairs = op[t].pairs /\ op'[t].clash = op[t].clash
    /\ Of(op'[t]) = Of(op[t])

(* Every step of a task at once: what it does to its place and its operation.*)
Control(t) ==
    /\ OthersStay(t) /\ (Over(t) \/ SameOp(t))
    /\ pc' \in [Tasks -> Held \cup Transfer \cup {"idle", "lock"}] /\ op' \in [Tasks -> Ops]
    /\ OpOK(t)'

LEMMA NoOpIs ==
    /\ NoOp \in Ops /\ NoOp.call = None /\ NoOp.to = None /\ NoOp.data = None
    /\ NoOp.pairs = {} /\ NoOp.left = {} /\ NoOp.clash = FALSE /\ NoOp.overwrite = FALSE
    /\ Of(NoOp) = {}
<1>1. /\ NoOp \in Ops /\ NoOp.call = None /\ NoOp.to = None /\ NoOp.data = None
      /\ NoOp.pairs = {} /\ NoOp.left = {} /\ NoOp.clash = FALSE /\ NoOp.overwrite = FALSE
  BY DEF NoOp, Ops, Contents
<1> QED BY <1>1 DEF Of

(* Steps that leave a task's operation as it is. *)
LEMMA ControlOnly ==
    ASSUME TypeOK, NEW t \in Tasks,
           Unlock(t) \/ Lock(t) \/ Stat(t) \/ Rename(t) \/ AllDeleted(t) \/ Check(t)
           \/ Open(t) \/ Written(t) \/ Fails(t) \/ Remove(t) \/ Replace(t) \/ Drop(t)
    PROVE  Control(t)
<1> USE DEF TypeOK, Control, OthersStay, Over, SameOp, OpOK, Goes, Ends, Held, Transfer, TreeCalls
<1>0. NoOp \in Ops /\ op[t] \in Ops
  BY NoOpIs
<1>1. CASE Unlock(t) BY <1>0, <1>1 DEF Unlock
<1>2. CASE Lock(t) BY <1>0, <1>2 DEF Lock, Transfers
<1>3. CASE Stat(t) BY <1>0, <1>3 DEF Stat
<1>4. CASE Rename(t) BY <1>0, <1>4 DEF Rename
<1>5. CASE AllDeleted(t) BY <1>0, <1>5 DEF AllDeleted
<1>6. CASE Check(t) BY <1>0, <1>6 DEF Check
<1>7. CASE Open(t) BY <1>0, <1>7 DEF Open
<1>8. CASE Written(t) BY <1>0, <1>8 DEF Written
<1>9. CASE Fails(t) BY <1>0, <1>9 DEF Fails
<1>10. CASE Remove(t) BY <1>0, <1>10 DEF Remove
<1>11. CASE Replace(t) BY <1>0, <1>11 DEF Replace
<1>12. CASE Drop(t) BY <1>0, <1>12 DEF Drop
<1> QED BY <1>1, <1>2, <1>3, <1>4, <1>5, <1>6, <1>7, <1>8, <1>9, <1>10, <1>11, <1>12

(* Copies and deletions take their pairs one by one. *)
LEMMA ControlTree ==
    ASSUME TypeOK, NEW t \in Tasks,
           (\E p \in op[t].left : CopyOpen(t, p) \/ Delete(t, p))
           \/ CopyDone(t) \/ CopyFails(t) \/ AllCopied(t)
    PROVE  Control(t)
<1>0. /\ op[t] \in Ops /\ op \in [Tasks -> Ops]
      /\ pc \in [Tasks -> Held \cup Transfer \cup {"idle", "lock"}]
      /\ OpOK(t)
  BY DEF TypeOK
<1>1. ASSUME NEW p \in op[t].left, CopyOpen(t, p) PROVE Control(t)
  <2>1. /\ pc[t] = "copy" /\ op[t].call \in TreeCalls /\ op[t].pairs \in Trees
        /\ op[t].left \subseteq op[t].pairs /\ op[t].to = None /\ op[t].data = None
        /\ p \in op[t].pairs /\ p \in Paths \X Paths
    BY <1>0, <1>1, FilesAssumption DEF CopyOpen, OpOK, Held
  <2>2. Entry[p[1]] \in Entries /\ Entry[p[2]] \in Entries
    BY <2>1 DEF Entries
  <2>3. CASE pc' = [pc EXCEPT ![t] = "unlock"] /\ op' = op
    BY <1>0, <2>1, <2>3 DEF Control, OthersStay, SameOp, OpOK, Held, Transfer
  <2>4. CASE /\ pc' = [pc EXCEPT ![t] = "copying"]
             /\ op' = [op EXCEPT ![t].to = Entry[p[2]], ![t].data = file[Entry[p[1]]],
                                 ![t].left = op[t].left \ {p}]
    <3>1. file[Entry[p[1]]] \in Contents
      BY <2>2 DEF TypeOK
    <3>2. /\ op' \in [Tasks -> Ops] /\ \A u \in Tasks \ {t} : op'[u] = op[u]
          /\ op'[t].call = op[t].call /\ op'[t].pairs = op[t].pairs
          /\ op'[t].clash = op[t].clash /\ op'[t].left = op[t].left \ {p}
          /\ op'[t].to = Entry[p[2]] /\ op'[t].data = file[Entry[p[1]]]
      BY <1>0, <2>2, <2>4, <3>1 DEF Ops
    <3>3. Entry[p[2]] \in {Entry[q[2]] : q \in op[t].pairs} /\ Entry[p[2]] # None
      BY <2>1, <2>2, FilesAssumption
    <3>4. Of(op'[t]) = Of(op[t])
      BY <2>1, <3>2, <3>3 DEF Of
    <3>5. p \in op'[t].pairs \ op'[t].left
      BY <2>1, <3>2
    <3>6. OpOK(t)'
      BY <1>0, <2>1, <2>4, <3>2, <3>5 DEF OpOK, Held, Transfer
    <3>7. pc' \in [Tasks -> Held \cup Transfer \cup {"idle", "lock"}]
          /\ \A u \in Tasks \ {t} : pc'[u] = pc[u]
      BY <1>0, <2>4 DEF Held
    <3> QED BY <3>2, <3>4, <3>6, <3>7 DEF Control, OthersStay, SameOp
  <2> QED BY <1>1, <2>3, <2>4 DEF CopyOpen, Goes
<1>2. ASSUME NEW p \in op[t].left, Delete(t, p) PROVE Control(t)
  <2>1. /\ pc[t] = "delete" /\ op[t].call \in TreeCalls /\ op[t].pairs \in Trees
        /\ op[t].left \subseteq op[t].pairs /\ op[t].to = None /\ op[t].data = None
    BY <1>0, <1>2 DEF Delete, OpOK, Held
  <2>2. pc' = pc \/ pc' = [pc EXCEPT ![t] = "unlock"]
    BY <1>2 DEF Delete, Goes
  <2>3. op' = op \/ op' = [op EXCEPT ![t].left = op[t].left \ {p}]
    BY <1>2 DEF Delete
  <2>4. /\ op' \in [Tasks -> Ops] /\ \A u \in Tasks \ {t} : op'[u] = op[u]
        /\ op'[t].call = op[t].call /\ op'[t].pairs = op[t].pairs
        /\ op'[t].clash = op[t].clash /\ op'[t].left \subseteq op[t].left
        /\ op'[t].to = None /\ op'[t].data = None
    BY <1>0, <2>1, <2>3 DEF Ops
  <2>5. Of(op'[t]) = Of(op[t])
    BY <2>1, <2>4 DEF Of
  <2>6. OpOK(t)'
    BY <1>0, <2>1, <2>2, <2>4 DEF OpOK, Held, Transfer
  <2> QED BY <1>0, <2>2, <2>4, <2>5, <2>6 DEF Control, OthersStay, SameOp, Held
<1>3. CASE CopyDone(t) \/ CopyFails(t)
  <2>1. /\ pc[t] = "copying" /\ op[t].call \in TreeCalls /\ op[t].pairs \in Trees
        /\ op[t].left \subseteq op[t].pairs
        /\ op[t].to \in {Entry[p[2]] : p \in op[t].pairs}
    BY <1>0, <1>3 DEF CopyDone, CopyFails, OpOK, Held
  <2>2. pc' = [pc EXCEPT ![t] = "copy"] \/ pc' = [pc EXCEPT ![t] = "unlock"]
    BY <1>3 DEF CopyDone, CopyFails, Goes
  <2>3. op' = [op EXCEPT ![t].to = None, ![t].data = None]
    BY <1>3 DEF CopyDone, CopyFails
  <2>4. /\ op' \in [Tasks -> Ops] /\ \A u \in Tasks \ {t} : op'[u] = op[u]
        /\ op'[t].call = op[t].call /\ op'[t].pairs = op[t].pairs
        /\ op'[t].clash = op[t].clash /\ op'[t].left = op[t].left
        /\ op'[t].to = None /\ op'[t].data = None
    BY <1>0, <2>3 DEF Ops, Contents
  <2>5. Of(op'[t]) = Of(op[t])
    BY <2>1, <2>4 DEF Of
  <2>6. OpOK(t)'
    BY <1>0, <2>1, <2>2, <2>4 DEF OpOK, Held, Transfer
  <2> QED BY <1>0, <2>2, <2>4, <2>5, <2>6 DEF Control, OthersStay, SameOp, Held
<1>4. CASE AllCopied(t)
  <2>1. /\ pc[t] = "copy" /\ op[t].call \in TreeCalls /\ op[t].pairs \in Trees
        /\ op[t].to = None /\ op[t].data = None
    BY <1>0, <1>4 DEF AllCopied, OpOK, Held
  <2>2. \/ pc' = [pc EXCEPT ![t] = "delete"] /\ op[t].call = "move"
        \/ pc' = [pc EXCEPT ![t] = "unlock"]
    BY <1>4 DEF AllCopied, Goes
  <2>3. op' = [op EXCEPT ![t].left = op[t].pairs]
    BY <1>4 DEF AllCopied
  <2>4. /\ op' \in [Tasks -> Ops] /\ \A u \in Tasks \ {t} : op'[u] = op[u]
        /\ op'[t].call = op[t].call /\ op'[t].pairs = op[t].pairs
        /\ op'[t].clash = op[t].clash /\ op'[t].left = op[t].pairs
        /\ op'[t].to = None /\ op'[t].data = None
    BY <1>0, <2>1, <2>3 DEF Ops
  <2>5. Of(op'[t]) = Of(op[t])
    BY <2>1, <2>4 DEF Of
  <2>6. OpOK(t)'
    BY <1>0, <2>1, <2>2, <2>4 DEF OpOK, Held, Transfer
  <2> QED BY <1>0, <2>2, <2>4, <2>5, <2>6 DEF Control, OthersStay, SameOp, Held
<1> QED BY <1>1, <1>2, <1>3, <1>4

LEMMA TaskControl ==
    ASSUME TypeOK, NEW t \in Tasks, TaskStep(t)
    PROVE  Control(t)
BY ControlOnly, ControlTree DEF TaskStep

(* What a step does to the disk, it does to what its operation is about; and *)
(* to files only under the lock, or at a transfer's end.                     *)
Touches(t) ==
    /\ \A e \in Entries \ Of(op[t]) : file'[e] = file[e] /\ part'[e] = part[e]
    /\ \A u \in Tasks \ {t} : writes'[u] # writes[u] => writes[u] \in Of(op[t])
    /\ op[t].call \notin Transfers => part' = part /\ writes' = writes
    /\ file' = file \/ pc[t] \in Held \/ op[t].call \in Transfers

DiskOK ==
    /\ file \in [Entries -> Contents] /\ part \in [Entries -> Contents]
    /\ writes \in [Tasks -> Entries \cup {None}] /\ kept \subseteq Data

LEMMA EntriesOf ==
    ASSUME TypeOK, NEW t \in Tasks
    PROVE  /\ Sources(t) \subseteq Of(op[t]) /\ Targets(t) \subseteq Of(op[t])
           /\ \A p \in op[t].pairs : Entry[p[1]] \in Sources(t) /\ Entry[p[2]] \in Targets(t)
           /\ Sources(t) \subseteq Entries /\ Targets(t) \subseteq Entries
           /\ op[t].to # None => op[t].to \in Of(op[t])
           /\ pc[t] \in Transfer => op[t].to \in Entries /\ op[t].to \in Of(op[t])
           /\ pc[t] = "copying" => op[t].to \in Targets(t) /\ op[t].to \in Entries
<1>1. op[t] \in Ops /\ OpOK(t) /\ None \notin Entries
  BY FilesAssumption DEF TypeOK
<1>2. \A p \in op[t].pairs : Entry[p[1]] \in Entries /\ Entry[p[2]] \in Entries
  <2>1. op[t].pairs \subseteq Paths \X Paths
    BY <1>1 DEF Ops
  <2> QED BY <2>1 DEF Entries
<1> QED BY <1>1, <1>2 DEF Of, Sources, Targets, OpOK

LEMMA TransferTouches ==
    ASSUME TypeOK, NEW t \in Tasks,
           Open(t) \/ Written(t) \/ Fails(t) \/ Remove(t) \/ Replace(t) \/ Drop(t)
    PROVE  Touches(t) /\ DiskOK'
<1>1. /\ file \in [Entries -> Contents] /\ part \in [Entries -> Contents]
      /\ writes \in [Tasks -> Entries \cup {None}] /\ kept \subseteq Data
  BY DEF TypeOK
<1>2. pc[t] \in Transfer
  BY DEF Open, Written, Fails, Remove, Replace, Drop, Transfer
<1>3. /\ op[t].to \in Entries /\ op[t].to \in Of(op[t])
      /\ op[t].call \in Transfers /\ op[t].data \in Data
  BY <1>2, EntriesOf DEF TypeOK, OpOK
<1>4. {None, Cut, Torn} \subseteq Contents /\ Data \subseteq Contents /\ Bad(t) \in Contents
  BY DEF Contents, Bad
<1>5. /\ Taken(op[t].to) \in [Tasks -> Entries \cup {None}]
      /\ \A u \in Tasks : Taken(op[t].to)[u] # writes[u] => writes[u] = op[t].to
  BY <1>1 DEF Taken
<1> USE <1>1, <1>3, <1>4, <1>5 DEF Touches, DiskOK
<1>6. CASE Open(t) BY <1>6 DEF Open
<1>7. CASE Written(t) BY <1>7 DEF Written
<1>8. CASE Fails(t) BY <1>8 DEF Fails, disk
<1>9. CASE Remove(t) BY <1>9 DEF Remove
<1>10. CASE Replace(t) BY <1>10 DEF Replace
<1>11. CASE Drop(t) BY <1>11 DEF Drop
<1> QED BY <1>6, <1>7, <1>8, <1>9, <1>10, <1>11

LEMMA TreeTouches ==
    ASSUME TypeOK, NEW t \in Tasks,
           (\E p \in op[t].left : CopyOpen(t, p) \/ Delete(t, p))
           \/ CopyDone(t) \/ CopyFails(t) \/ Stat(t) \/ Rename(t)
    PROVE  Touches(t) /\ DiskOK'
<1>1. /\ file \in [Entries -> Contents] /\ part \in [Entries -> Contents]
      /\ writes \in [Tasks -> Entries \cup {None}] /\ kept \subseteq Data
  BY DEF TypeOK
<1>2. pc[t] \in Held
  BY DEF CopyOpen, Delete, CopyDone, CopyFails, Stat, Rename, Held
<1>3. /\ Sources(t) \subseteq Of(op[t]) /\ Targets(t) \subseteq Of(op[t])
      /\ \A p \in op[t].pairs : Entry[p[1]] \in Sources(t) /\ Entry[p[2]] \in Targets(t)
      /\ Sources(t) \subseteq Entries /\ Targets(t) \subseteq Entries
      /\ op[t].left \subseteq op[t].pairs
      /\ pc[t] = "copying" => op[t].to \in Targets(t) /\ op[t].to \in Entries
      /\ op[t].data \in Contents
  BY <1>2, EntriesOf DEF TypeOK, OpOK, Ops
<1>4. /\ None \in Contents /\ Cut \in Contents /\ Bad(t) \in Contents
      /\ Copied(t) \in Contents
  BY <1>3 DEF Contents, Bad, Copied
<1>5. part' = part /\ writes' = writes
  BY DEF CopyOpen, Delete, CopyDone, CopyFails, Stat, Rename
<1>6. kept' \subseteq Data
  BY <1>1 DEF CopyOpen, Delete, CopyDone, CopyFails, Stat, Rename
<1>7. ASSUME file' \in [Entries -> Contents],
             \A e \in Entries \ Of(op[t]) : file'[e] = file[e]
      PROVE  Touches(t) /\ DiskOK'
  BY <1>1, <1>2, <1>5, <1>6, <1>7 DEF Touches, DiskOK
<1> USE <1>1, <1>3, <1>4, <1>7
<1>8. ASSUME NEW p \in op[t].left, CopyOpen(t, p) PROVE Touches(t) /\ DiskOK'
  <2>1. file' = file \/ file' = [file EXCEPT ![Entry[p[2]]] = Cut]
    BY <1>8 DEF CopyOpen
  <2>2. Entry[p[2]] \in Entries /\ Entry[p[2]] \in Of(op[t])
    BY <1>8
  <2> QED BY <2>1, <2>2
<1>9. ASSUME NEW p \in op[t].left, Delete(t, p) PROVE Touches(t) /\ DiskOK'
  BY <1>9 DEF Delete
<1>10. CASE CopyDone(t) BY <1>10 DEF CopyDone
<1>11. CASE CopyFails(t) BY <1>11 DEF CopyFails
<1>12. CASE Stat(t) BY <1>12 DEF Stat
<1>13. CASE Rename(t)
  <2>1. \A e \in Targets(t) : \E p \in op[t].pairs : Entry[p[2]] = e
    BY DEF Targets
  <2>2. \A e \in Targets(t) :
          Entry[(CHOOSE p \in op[t].pairs : Entry[p[2]] = e)[1]] \in Sources(t)
    BY <2>1
  <2> QED BY <1>13, <2>2 DEF Rename
<1> QED BY <1>8, <1>9, <1>10, <1>11, <1>12, <1>13

LEMMA TaskTouches ==
    ASSUME TypeOK, NEW t \in Tasks, TaskStep(t)
    PROVE  Touches(t) /\ DiskOK'
<1>1. CASE Lock(t) \/ Unlock(t) \/ AllCopied(t) \/ AllDeleted(t) \/ Check(t)
  BY <1>1 DEF Lock, Unlock, AllCopied, AllDeleted, Check, disk, Touches, DiskOK, TypeOK
<1> QED BY <1>1, TransferTouches, TreeTouches DEF TaskStep

(* So it keeps the types. *)
LEMMA TaskTypes ==
    ASSUME TypeOK, NEW t \in Tasks, TaskStep(t)
    PROVE  TypeOK'
<1>1. ASSUME NEW u \in Tasks \ {t} PROVE OpOK(u)'
  <2>1. pc'[u] = pc[u] /\ op'[u] = op[u] /\ OpOK(u)
    BY <1>1, TaskControl DEF Control, OthersStay, TypeOK
  <2> QED BY <2>1 DEF OpOK
<1> QED BY <1>1, TaskControl, TaskTouches DEF Control, DiskOK, TypeOK

-----------------------------------------------------------------------------
(* An operation begins *)

(* Of the other operations only the clash may change, and of those it meets   *)
(* it does, with what that means for what is kept.                          *)
Begins(t) ==
    /\ pc[t] = "idle" /\ pc'[t] \in {"lock", "check", "open"}
    /\ \A u \in Tasks \ {t} :
         /\ pc'[u] = pc[u] /\ op'[u].call = op[u].call /\ op'[u].pairs = op[u].pairs
         /\ op'[u].left = op[u].left /\ op'[u].to = op[u].to /\ op'[u].data = op[u].data
         /\ op[u].clash => op'[u].clash
         /\ Of(op'[u]) = Of(op[u])
         /\ Meet(t, u)' =>
              /\ op'[u].clash /\ op'[t].clash
              /\ \A e \in Of(op'[t]) \cup Of(op[u]) : file[e] \notin kept' /\ part[e] \notin kept'
              /\ op[u].data \notin kept'
         /\ ~Meet(t, u)' => op'[u] = op[u]
    /\ op'[t].clash => \E u \in Tasks \ {t} : Meet(t, u)'
    /\ IF op'[t].call \in Transfers
       THEN op'[t].data \in Data \ InUse /\ op'[t].to \in Entries
       ELSE op'[t].data = None
    /\ kept' \subseteq kept
    /\ file' = file /\ part' = part /\ lock' = lock /\ writes' = writes

LEMMA StartBegins ==
    ASSUME TypeOK, NEW t \in Tasks, NEW o \in Ops, NEW where \in {"lock", "check", "open"},
           pc[t] = "idle", Start(t, o), pc' = [pc EXCEPT ![t] = where],
           o.call # None, o.call \in Transfers => o.data \in Data \ InUse /\ o.to \in Entries,
           where = "lock" => /\ o.call \in TreeCalls /\ o.pairs \in Trees
                             /\ o.left = o.pairs /\ o.to = None /\ o.data = None,
           where # "lock" => /\ o.call \in Transfers /\ o.pairs = {} /\ o.left = {}
                             /\ where = "check" => o.call = "upload"
    PROVE  Begins(t) /\ TypeOK'
<1> DEFINE met == {u \in Tasks \ {t} : Meets(o, u)}
<1>1. /\ op' = [u \in Tasks |->
                    IF u = t THEN [o EXCEPT !.clash = met # {}]
                    ELSE IF u \in met THEN [op[u] EXCEPT !.clash = TRUE] ELSE op[u]]
      /\ file' = file /\ part' = part /\ lock' = lock /\ writes' = writes
  BY DEF Start, disk
<1>2. /\ kept' \subseteq kept
      /\ \A u \in met :
           /\ \A e \in Of(o) \cup Of(op[u]) : file[e] \notin kept' /\ part[e] \notin kept'
           /\ op[u].data \notin kept'
  BY DEF Start
<1>3. op \in [Tasks -> Ops]
  BY DEF TypeOK
<1>4. /\ op'[t] \in Ops /\ op'[t].call = o.call /\ op'[t].pairs = o.pairs
      /\ op'[t].left = o.left /\ op'[t].to = o.to /\ op'[t].data = o.data
      /\ op'[t].clash = (met # {})
  BY <1>1 DEF Ops
<1>5. ASSUME NEW u \in Tasks \ {t}
      PROVE  /\ op'[u] \in Ops /\ op'[u].call = op[u].call /\ op'[u].pairs = op[u].pairs
             /\ op'[u].left = op[u].left /\ op'[u].to = op[u].to /\ op'[u].data = op[u].data
             /\ (op[u].clash => op'[u].clash)
             /\ (u \in met => op'[u].clash)
             /\ (u \notin met => op'[u] = op[u])
  BY <1>1, <1>3, <1>5 DEF Ops
<1>6. Of(op'[t]) = Of(o) /\ \A u \in Tasks \ {t} : Of(op'[u]) = Of(op[u])
  BY <1>4, <1>5 DEF Of
<1>7. \A u \in Tasks \ {t} : Meet(t, u)' <=> u \in met
  BY <1>4, <1>5, <1>6 DEF Meet, Meets
<1>8. \A u \in Tasks \ {t} : pc'[u] = pc[u]
  BY DEF TypeOK
<1>9. pc'[t] = where /\ pc' \in [Tasks -> Held \cup Transfer \cup {"idle", "lock"}]
  BY DEF TypeOK, Transfer
<1> HIDE DEF met
<1>10. Begins(t)
  <2>1. ASSUME NEW u \in Tasks \ {t}
        PROVE  /\ pc'[u] = pc[u] /\ op'[u].call = op[u].call /\ op'[u].pairs = op[u].pairs
               /\ op'[u].left = op[u].left /\ op'[u].to = op[u].to /\ op'[u].data = op[u].data
               /\ op[u].clash => op'[u].clash
               /\ Of(op'[u]) = Of(op[u])
               /\ Meet(t, u)' =>
                    /\ op'[u].clash /\ op'[t].clash
                    /\ \A e \in Of(op'[t]) \cup Of(op[u]) :
                         file[e] \notin kept' /\ part[e] \notin kept'
                    /\ op[u].data \notin kept'
               /\ ~Meet(t, u)' => op'[u] = op[u]
    BY <1>2, <1>4, <1>5, <1>6, <1>7, <1>8
  <2>2. IF op'[t].call \in Transfers
        THEN op'[t].data \in Data \ InUse /\ op'[t].to \in Entries
        ELSE op'[t].data = None
    BY <1>4
  <2>3. op'[t].clash => \E u \in Tasks \ {t} : Meet(t, u)'
    BY <1>4, <1>7 DEF met
  <2> QED BY <1>1, <1>2, <1>9, <2>1, <2>2, <2>3 DEF Begins
<1>11. OpOK(t)'
  BY <1>4, <1>9, FilesAssumption DEF OpOK, Held, Transfer, TreeCalls, Transfers
<1>12. ASSUME NEW u \in Tasks \ {t} PROVE OpOK(u)'
  <2>1. OpOK(u) /\ (pc[u] = "idle" => u \notin met)
    BY <1>7, NoOpIs DEF TypeOK, OpOK, Meets, met
  <2> QED BY <1>5, <1>8, <2>1 DEF OpOK
<1>13. op' \in [Tasks -> Ops]
  BY <1>1, <1>4, <1>5
<1> QED BY <1>1, <1>2, <1>9, <1>10, <1>11, <1>12, <1>13 DEF TypeOK

LEMMA CallBegins ==
    ASSUME TypeOK, NEW t \in Tasks, NEW ow \in BOOLEAN,
           \/ \E c \in Calls[t], tree \in Trees : CallTree(t, c, tree, ow)
           \/ \E c \in Calls[t], n \in Dests, d \in Data : CallTransfer(t, c, n, ow, d)
    PROVE  Begins(t) /\ TypeOK'
<1>1. ASSUME NEW c \in Calls[t], NEW tree \in Trees, CallTree(t, c, tree, ow)
      PROVE  Begins(t) /\ TypeOK'
  <2> DEFINE o == [NoOp EXCEPT !.call = c, !.pairs = tree, !.left = tree, !.overwrite = ow]
  <2>1. tree \subseteq Paths \X Paths /\ c \in TreeCalls
    BY <1>1, FilesAssumption DEF CallTree, TreeCalls
  <2>2. /\ o \in Ops /\ o.call = c /\ o.pairs = tree /\ o.left = tree
        /\ o.to = None /\ o.data = None
    BY <2>1, NoOpIs DEF Ops
  <2>3. Start(t, o) /\ pc[t] = "idle" /\ pc' = [pc EXCEPT ![t] = "lock"]
    BY <1>1 DEF CallTree, Goes
  <2>4. c # None /\ c \notin Transfers
    BY <2>1, FilesAssumption DEF TreeCalls, Transfers
  <2> HIDE DEF o
  <2> QED BY <2>1, <2>2, <2>3, <2>4, StartBegins
<1>2. ASSUME NEW c \in Calls[t], NEW n \in Dests, NEW d \in Data, CallTransfer(t, c, n, ow, d)
      PROVE  Begins(t) /\ TypeOK'
  <2> DEFINE o == [NoOp EXCEPT !.call = c, !.to = Entry[n], !.data = d, !.overwrite = ow]
             where == IF c = "upload" THEN "check" ELSE "open"
  <2>1. n \in Paths /\ Entry[n] \in Entries /\ c \in Transfers /\ d \in Data \ InUse
    BY <1>2, FilesAssumption DEF CallTransfer, Entries
  <2>2. /\ o \in Ops /\ o.call = c /\ o.pairs = {} /\ o.left = {}
        /\ o.to = Entry[n] /\ o.data = d
    BY <2>1, NoOpIs DEF Ops, Contents
  <2>3. Start(t, o) /\ pc[t] = "idle" /\ pc' = [pc EXCEPT ![t] = where]
    BY <1>2 DEF CallTransfer, Goes
  <2>4. where \in {"lock", "check", "open"} /\ where # "lock" /\ c # None
        /\ (where = "check" => c = "upload")
    BY <2>1, FilesAssumption DEF Transfers
  <2> HIDE DEF o, where
  <2> QED BY <2>1, <2>2, <2>3, <2>4, StartBegins
<1> QED BY <1>1, <1>2

-----------------------------------------------------------------------------
(* Inv is kept *)

LEMMA MeetSymmetric == \A t, u \in Tasks : Meet(t, u) => Meet(u, t)
BY DEF Meet

(* Operations that are over, or about what they were, meet no others.        *)
LEMMA KeepsMet ==
    ASSUME TypeOK, Met, NEW t \in Tasks, Control(t)
    PROVE  Met' /\ \A u, v \in Tasks : Meet(u, v)' => Meet(u, v)
<1>1. \A u \in Tasks : (op'[u] = NoOp \/ SameOp(u))
  BY DEF Control, OthersStay, Over, SameOp
<1>2. \A u, v \in Tasks : Meet(u, v)' => Meet(u, v) /\ SameOp(u) /\ SameOp(v)
  BY <1>1, NoOpIs DEF Meet, SameOp
<1> QED BY <1>2 DEF Met, SameOp

LEMMA KeepsAlone ==
    ASSUME TypeOK, Alone, NEW t \in Tasks, TaskStep(t), Control(t)
    PROVE  Alone'
<1> USE DEF TypeOK, Alone, Goes, Ends, Held
<1>0. \A u \in Tasks \ {t} : pc'[u] = pc[u] /\ op'[u] = op[u]
  BY DEF Control, OthersStay
<1>1. CASE Lock(t)
  <2>1. op' = op /\ lock = None /\ lock' = t /\ None \notin Tasks
    BY <1>1, FilesAssumption DEF Lock
  <2>2. ASSUME NEW u \in Tasks \ {t}
        PROVE  ~(pc'[u] \in Held \/ (pc'[u] \in {"remove", "replace"} /\ op'[u].call = "upload"))
    BY <1>0, <2>1
  <2> QED BY <2>1, <2>2
<1>2. CASE Unlock(t)
  <2>1. lock = t /\ pc'[t] = "idle"
    BY <1>2 DEF Unlock
  <2> QED BY <1>0, <2>1
<1>3. CASE Replace(t)
  <2>1. pc'[t] \in {"idle", "drop"} /\ (lock' = lock \/ (op[t].call = "upload" /\ lock = t))
    BY <1>3 DEF Replace
  <2> QED BY <1>0, <2>1
<1>4. CASE lock' = lock /\ (pc'[t] \in Held => pc[t] \in Held)
           /\ (pc'[t] \in {"remove", "replace"} /\ op'[t].call = "upload"
               => pc[t] \in {"remove", "replace"} /\ op[t].call = "upload")
  BY <1>0, <1>4
<1>5. CASE Written(t) \/ Remove(t) \/ Check(t) \/ Open(t) \/ Fails(t) \/ Drop(t)
  BY <1>4, <1>5 DEF Written, Remove, Check, Open, Fails, Drop
<1>6. CASE \/ Stat(t) \/ Rename(t) \/ (\E p \in op[t].left : CopyOpen(t, p) \/ Delete(t, p))
           \/ CopyDone(t) \/ CopyFails(t) \/ AllCopied(t) \/ AllDeleted(t)
  <2>1. pc[t] \in Held /\ lock' = lock
    BY <1>6 DEF Stat, Rename, CopyOpen, Delete, CopyDone, CopyFails, AllCopied, AllDeleted, disk
  <2>2. pc'[t] \notin {"remove", "replace"}
    BY <1>6 DEF Stat, Rename, CopyOpen, Delete, CopyDone, CopyFails, AllCopied, AllDeleted
  <2> QED BY <1>4, <2>1, <2>2
<1> QED BY <1>1, <1>2, <1>3, <1>5, <1>6 DEF TaskStep

(* A transfer that met nobody: its own steps, and all others'.               *)
PartOwned(t) ==
    ~op[t].clash =>
        /\ pc[t] = "data" => writes[t] = op[t].to
        /\ pc[t] \in {"data", "drop"} => part[op[t].to] = Cut
        /\ pc[t] \in {"finish", "remove", "replace"} => part[op[t].to] = op[t].data
        /\ pc[t] = "replace" => file[op[t].to] = None

LEMMA Untouched ==
    ASSUME TypeOK, Met, NEW t \in Tasks, NEW u \in Tasks \ {t}, Touches(t),
           ~op[u].clash, op[u].call \in Transfers \/ op[t].call \in Transfers,
           op[u].call # None, op[t].call # None
    PROVE  /\ Of(op[u]) \cap Of(op[t]) = {}
           /\ \A e \in Of(op[u]) \cap Entries : file'[e] = file[e] /\ part'[e] = part[e]
<1>1. ~Meet(u, t)
  BY DEF Met
<1>2. Of(op[u]) \cap Of(op[t]) = {}
  BY <1>1 DEF Meet
<1> QED BY <1>2 DEF Touches

LEMMA CallOf ==
    ASSUME TypeOK, NEW t \in Tasks
    PROVE  /\ TaskStep(t) => op[t].call # None
           /\ pc[t] \in Transfer => op[t].call \in Transfers /\ op[t].call # None
           /\ pc[t] \in Held => op[t].call \in TreeCalls /\ op[t].call # None
           /\ pc[t] = "idle" <=> op[t].call = None
<1>1. None \notin Transfers /\ None \notin TreeCalls
  BY FilesAssumption DEF Transfers, TreeCalls
<1>2. OpOK(t) /\ pc[t] \in Held \cup Transfer \cup {"idle", "lock"}
  BY DEF TypeOK
<1>3. pc[t] \in Transfer => op[t].call \in Transfers
  BY <1>2 DEF OpOK
<1>4. pc[t] \in Held \cup {"lock"} => op[t].call \in TreeCalls
  BY <1>2 DEF OpOK
<1>5. pc[t] = "idle" => op[t].call = None
  BY <1>2, NoOpIs DEF OpOK
<1>6. TaskStep(t) => pc[t] # "idle"
  BY DEF TaskStep, Lock, Unlock, Stat, Rename, CopyOpen, Delete, CopyDone, CopyFails, AllCopied,
     AllDeleted, Check, Open, Written, Fails, Remove, Replace, Drop
<1> QED BY <1>1, <1>2, <1>3, <1>4, <1>5, <1>6

LEMMA KeepsPartIsOwn ==
    ASSUME TypeOK, Met, PartIsOwn, NEW t \in Tasks, TaskStep(t), Control(t), Touches(t)
    PROVE  PartIsOwn'
<1>1. ASSUME NEW u \in Tasks \ {t} PROVE PartOwned(u)'
  <2>1. pc'[u] = pc[u] /\ op'[u] = op[u] /\ PartOwned(u)
    BY DEF Control, OthersStay, PartIsOwn, PartOwned
  <2>2. CASE ~op[u].clash /\ pc[u] \in Transfer
    <3>1. /\ op[u].to \in Entries /\ op[u].to \in Of(op[u])
          /\ op[u].call \in Transfers /\ op[u].call # None /\ op[t].call # None
      BY <2>2, EntriesOf, CallOf
    <3>2. /\ op[u].to \notin Of(op[t])
          /\ file'[op[u].to] = file[op[u].to] /\ part'[op[u].to] = part[op[u].to]
      BY <2>2, <3>1, Untouched
    <3>3. writes[u] = op[u].to => writes'[u] = writes[u]
      BY <3>2 DEF Touches
    <3> QED BY <2>1, <3>2, <3>3 DEF PartOwned
  <2>3. CASE op[u].clash \/ pc[u] \notin Transfer
    BY <2>1, <2>3 DEF PartOwned, Transfer
  <2> QED BY <2>2, <2>3
<1>2. PartOwned(t)'
  <2>1. PartOwned(t)
    BY DEF PartIsOwn, PartOwned
  <2>2. /\ file \in [Entries -> Contents] /\ part \in [Entries -> Contents]
        /\ writes \in [Tasks -> Entries \cup {None}] /\ pc \in [Tasks -> Held \cup Transfer \cup {"idle", "lock"}]
    BY DEF TypeOK
  <2>3. pc[t] \in Transfer => op[t].to \in Entries /\ op[t].to # None
    BY EntriesOf, FilesAssumption
  <2> USE <2>1, <2>2, <2>3 DEF PartOwned, Goes, Ends, Transfer
  <2>4. CASE Open(t) BY <2>4 DEF Open, Taken
  <2>5. CASE Written(t) BY <2>5 DEF Written
  <2>6. CASE Fails(t) BY <2>6 DEF Fails, disk
  <2>7. CASE Remove(t) BY <2>7 DEF Remove
  <2>8. CASE Replace(t)
    <3>1. CASE op[t].clash
      BY <2>8, <3>1, NoOpIs DEF Replace
    <3>2. CASE ~op[t].clash
      <4>1. part[op[t].to] = op[t].data /\ op[t].data # None /\ file[op[t].to] = None
        BY <2>8, <3>2, FilesAssumption DEF Replace, TypeOK, OpOK
      <4> QED BY <2>8, <4>1 DEF Replace
    <3> QED BY <3>1, <3>2
  <2>9. CASE Drop(t) \/ Unlock(t) BY <2>9 DEF Drop, Unlock
  <2>10. CASE Check(t) BY <2>10 DEF Check
  <2>11. CASE Lock(t) BY <2>11 DEF Lock, disk
  <2>12. CASE \/ Stat(t) \/ Rename(t) \/ (\E p \in op[t].left : CopyOpen(t, p) \/ Delete(t, p))
              \/ CopyDone(t) \/ CopyFails(t) \/ AllCopied(t) \/ AllDeleted(t)
    BY <2>12 DEF Stat, Rename, CopyOpen, Delete, CopyDone, CopyFails, AllCopied, AllDeleted
  <2> QED BY <2>4, <2>5, <2>6, <2>7, <2>8, <2>9, <2>10, <2>11, <2>12 DEF TaskStep
<1> QED BY <1>1, <1>2 DEF PartIsOwn, PartOwned

(* Nobody touches a copy's source but those it met: no other copies, and the *)
(* transfers are not about it.                                              *)
LEMMA KeepsSourceIsThere ==
    ASSUME Apart, Inv, NEW t \in Tasks, TaskStep(t), Control(t), Touches(t), TypeOK'
    PROVE  SourceIsThere'
<1>0. TypeOK /\ Met /\ Alone /\ SourceIsThere /\ NoCutFile
  BY DEF Inv
<1>1. ASSUME NEW u \in Tasks \ {t}, pc'[u] = "copying"
      PROVE  /\ op'[u].data \notin {None, Cut}
             /\ ~op'[u].clash => \E p \in op'[u].pairs \ op'[u].left :
                              Entry[p[2]] = op'[u].to /\ file'[Entry[p[1]]] = op'[u].data
  <2>1. pc[u] = "copying" /\ op'[u] = op[u]
    BY <1>1 DEF Control, OthersStay
  <2>2. op[u].data \notin {None, Cut}
    BY <1>0, <2>1 DEF SourceIsThere
  <2>3. ASSUME ~op[u].clash
        PROVE  \E p \in op[u].pairs \ op[u].left :
                  Entry[p[2]] = op[u].to /\ file'[Entry[p[1]]] = op[u].data
    <3>1. PICK p \in op[u].pairs \ op[u].left :
             Entry[p[2]] = op[u].to /\ file[Entry[p[1]]] = op[u].data
      BY <1>0, <2>1, <2>3 DEF SourceIsThere
    <3>2. Entry[p[1]] \in Of(op[u]) \cap Entries
      BY <1>0, <3>1, EntriesOf
    <3>3. CASE op[t].call \in Transfers
      <4>1. op[u].call # None /\ op[t].call # None
        BY <1>0, <2>1, CallOf DEF Held
      <4> QED BY <1>0, <2>3, <3>1, <3>2, <3>3, <4>1, Untouched
    <3>4. CASE op[t].call \notin Transfers
      <4>1. pc[t] \notin Held
        BY <1>0, <2>1 DEF Alone, Held
      <4> QED BY <3>1, <3>4, <4>1 DEF Touches
    <3> QED BY <3>3, <3>4
  <2> QED BY <2>1, <2>2, <2>3
<1>2. ASSUME pc'[t] = "copying"
      PROVE  /\ op'[t].data \notin {None, Cut}
             /\ \E p \in op'[t].pairs \ op'[t].left :
                    Entry[p[2]] = op'[t].to /\ file'[Entry[p[1]]] = op'[t].data
  <2>1. PICK p \in op[t].left : CopyOpen(t, p)
    <3>1. t \in DOMAIN pc
      BY <1>0 DEF TypeOK
    <3> QED
      BY <1>2, <3>1 DEF TaskStep, Lock, Unlock, Stat, Rename, Delete, CopyDone, CopyFails, AllCopied,
         AllDeleted, Check, Open, Written, Fails, Remove, Replace, Drop, Goes, Ends
  <2>2. pc[t] = "copy" /\ op[t] \in Ops /\ op \in [Tasks -> Ops]
        /\ file \in [Entries -> Contents] /\ pc \in [Tasks -> Held \cup Transfer \cup {"idle", "lock"}]
    BY <1>0, <2>1 DEF CopyOpen, TypeOK
  <2>3. op[t].left \subseteq op[t].pairs /\ op[t].pairs \in Trees /\ lock = t
    BY <1>0, <2>2 DEF TypeOK, OpOK, Alone, Held
  <2>4. /\ Entry[p[1]] \in Entries /\ Entry[p[2]] \in Entries /\ Entry[p[1]] # Entry[p[2]]
    BY <1>0, <2>3, EntriesOf DEF Apart
  <2>5. /\ file[Entry[p[1]]] # None
        /\ op' = [op EXCEPT ![t].to = Entry[p[2]], ![t].data = file[Entry[p[1]]],
                            ![t].left = op[t].left \ {p}]
        /\ file' = [file EXCEPT ![Entry[p[2]]] = Cut]
    BY <1>2, <2>1, <2>2 DEF CopyOpen, Goes
  <2>6. /\ op'[t].pairs = op[t].pairs /\ op'[t].left = op[t].left \ {p}
        /\ op'[t].to = Entry[p[2]] /\ op'[t].data = file[Entry[p[1]]]
    BY <2>2, <2>5 DEF Ops
  <2>7. file[Entry[p[1]]] # Cut
    <3>1. ASSUME NEW u \in Tasks, pc[u] = "copying" PROVE FALSE
      BY <1>0, <2>2, <2>3, <3>1 DEF Alone, Held
    <3> QED BY <1>0, <2>4, <3>1 DEF NoCutFile
  <2>8. file'[Entry[p[1]]] = file[Entry[p[1]]]
    BY <2>2, <2>4, <2>5
  <2>9. p \in op'[t].pairs \ op'[t].left
    BY <2>3, <2>6
  <2> QED BY <2>5, <2>6, <2>7, <2>8, <2>9
<1> QED BY <1>1, <1>2 DEF SourceIsThere

LEMMA KeepsNoCutFile ==
    ASSUME Inv, NEW t \in Tasks, TaskStep(t), Control(t), Touches(t)
    PROVE  NoCutFile'
<1>0. /\ TypeOK /\ Met /\ Alone /\ PartIsOwn /\ SourceIsThere /\ NoCutFile
      /\ file \in [Entries -> Contents]
      /\ pc \in [Tasks -> Held \cup Transfer \cup {"idle", "lock"}]
      /\ op \in [Tasks -> Ops]
      /\ None # Cut /\ Torn # Cut /\ Cut \notin Data
  BY FilesAssumption DEF Inv, TypeOK
<1> SUFFICES ASSUME NEW e \in Entries, file'[e] = Cut
             PROVE  \E u \in Tasks : pc'[u] = "copying" /\ op'[u].to = e
  BY DEF NoCutFile
<1>1. ASSUME file[e] = Cut, ~CopyDone(t), ~CopyFails(t)
      PROVE  \E u \in Tasks : pc'[u] = "copying" /\ op'[u].to = e
  <2>1. PICK u \in Tasks : pc[u] = "copying" /\ op[u].to = e
    BY <1>0, <1>1 DEF NoCutFile
  <2>2. CASE u # t
    BY <2>1, <2>2 DEF Control, OthersStay
  <2>3. CASE u = t
    BY <1>1, <2>1, <2>3 DEF TaskStep, Lock, Unlock, Stat, Rename, CopyOpen, Delete, AllCopied,
         AllDeleted, Check, Open, Written, Fails, Remove, Replace, Drop
  <2> QED BY <2>2, <2>3
<1>2. CASE CopyFails(t) \/ CopyDone(t)
  <2>1. pc[t] = "copying" /\ op[t].to \in Entries
    BY <1>0, <1>2, EntriesOf DEF CopyFails, CopyDone
  <2>2. \A u \in Tasks : pc[u] = "copying" => u = t
    BY <1>0, <2>1 DEF Alone, Held
  <2>3. file[e] = Cut => e = op[t].to
    BY <1>0, <2>2 DEF NoCutFile
  <2>4. CASE CopyFails(t)
    BY <1>0, <2>1, <2>3, <2>4 DEF CopyFails
  <2>5. CASE CopyDone(t)
    <3>1. Copied(t) # Cut
      <4>1. CASE op[t].clash
        BY <1>0, <2>1, <4>1 DEF SourceIsThere, Copied, Bad
      <4>2. CASE ~op[t].clash
        <5>1. PICK p \in op[t].pairs \ op[t].left : file[Entry[p[1]]] = op[t].data
          BY <1>0, <2>1, <4>2 DEF SourceIsThere
        <5>2. Entry[p[1]] \in Sources(t)
          BY <5>1 DEF Sources
        <5> QED BY <1>0, <2>1, <5>1, <5>2 DEF SourceIsThere, Copied
      <4> QED BY <4>1, <4>2
    <3> QED BY <1>0, <2>1, <2>3, <2>5, <3>1 DEF CopyDone
  <2> QED BY <1>2, <2>4, <2>5
<1>3. ASSUME NEW p \in op[t].left, CopyOpen(t, p), file[e] # Cut
      PROVE  \E u \in Tasks : pc'[u] = "copying" /\ op'[u].to = e
  <2>1. /\ pc' = [pc EXCEPT ![t] = "copying"]
        /\ op' = [op EXCEPT ![t].to = Entry[p[2]], ![t].data = file[Entry[p[1]]],
                            ![t].left = op[t].left \ {p}]
        /\ e = Entry[p[2]]
    BY <1>0, <1>3 DEF CopyOpen, Goes
  <2>2. op'[t].to = Entry[p[2]]
    BY <1>0, <2>1 DEF Ops
  <2> QED BY <1>0, <2>1, <2>2
<1>4. CASE Rename(t)
  <2>1. \A u \in Tasks : pc[u] # "copying"
    BY <1>0, <1>4 DEF Rename, Alone, Held
  <2>2. \A f \in Entries : file[f] # Cut
    BY <1>0, <2>1 DEF NoCutFile
  <2>3. \A f \in Targets(t) :
          Entry[(CHOOSE p \in op[t].pairs : Entry[p[2]] = f)[1]] \in Entries
    <3>1. \A f \in Targets(t) : \E p \in op[t].pairs : Entry[p[2]] = f
      BY DEF Targets
    <3>2. \A p \in op[t].pairs : Entry[p[1]] \in Entries
      BY <1>0, EntriesOf
    <3> QED BY <3>1, <3>2
  <2> QED BY <1>0, <1>4, <2>2, <2>3 DEF Rename
<1>5. CASE Replace(t) /\ file[e] # Cut
  <2>1. /\ e = op[t].to
        /\ Cut = IF part[e] = Cut THEN Bad(t) ELSE part[e]
    BY <1>0, <1>5 DEF Replace
  <2>2. Bad(t) = Cut /\ part[e] = Cut
    BY <2>1
  <2>3. ~op[t].clash
    BY <1>0, <2>2 DEF Bad
  <2>4. part[e] = op[t].data /\ op[t].data \in Data
    BY <1>0, <1>5, <2>1, <2>3 DEF PartIsOwn, Replace, TypeOK, OpOK, Transfer
  <2> QED BY <1>0, <2>2, <2>4
<1>6. CASE Stat(t) \/ Remove(t) \/ (\E p \in op[t].left : Delete(t, p))
  <2>1. file[e] = Cut
    BY <1>0, <1>6 DEF Stat, Remove, Delete
  <2>2. ~CopyDone(t) /\ ~CopyFails(t)
    BY <1>6 DEF Stat, Remove, Delete, CopyDone, CopyFails
  <2> QED BY <1>1, <2>1, <2>2
<1>7. CASE file' = file /\ ~CopyDone(t) /\ ~CopyFails(t)
  BY <1>1, <1>7
<1>8. CASE Lock(t) \/ Unlock(t) \/ AllCopied(t) \/ AllDeleted(t) \/ Check(t)
           \/ Open(t) \/ Written(t) \/ Fails(t) \/ Drop(t)
  <2>1. file' = file
    BY <1>8 DEF Lock, Unlock, AllCopied, AllDeleted, Check, Open, Written, Fails, Drop, disk
  <2> QED BY <1>2, <1>7, <2>1
<1>9. ASSUME file[e] = Cut PROVE \E u \in Tasks : pc'[u] = "copying" /\ op'[u].to = e
  BY <1>1, <1>2, <1>9
<1> QED BY <1>2, <1>3, <1>4, <1>5, <1>6, <1>8, <1>9 DEF TaskStep

LEMMA BeginKeeps ==
    ASSUME Inv, NEW t \in Tasks, Begins(t), TypeOK'
    PROVE  Inv'
<1>0. TypeOK /\ Met /\ Alone /\ PartIsOwn /\ SourceIsThere /\ NoCutFile
  BY DEF Inv
<1>1. \A u \in Tasks \ {t} : pc'[u] = pc[u] /\ op'[u].call = op[u].call
  BY DEF Begins
<1>2. pc[t] = "idle" /\ pc'[t] \in {"lock", "check", "open"}
  BY DEF Begins
<1>3. Alone'
  BY <1>0, <1>1, <1>2 DEF Alone, Held, Begins
<1>4. Met'
  <2> SUFFICES ASSUME NEW u \in Tasks, NEW v \in Tasks, Meet(u, v)'
               PROVE  op'[u].clash /\ op'[v].clash
    BY DEF Met
  <2>1. CASE u = t
    BY <2>1 DEF Begins, Meet
  <2>2. CASE v = t
    <3>1. Meet(t, u)' /\ u # t
      BY <2>2 DEF Meet
    <3> QED BY <2>2, <3>1 DEF Begins
  <2>3. CASE u # t /\ v # t
    <3>1. Meet(u, v)
      BY <1>1, <2>3 DEF Begins, Meet
    <3> QED BY <1>0, <2>3, <3>1 DEF Begins, Met
  <2> QED BY <2>1, <2>2, <2>3
<1>5. PartIsOwn'
  <2>1. ASSUME NEW u \in Tasks \ {t} PROVE PartOwned(u)'
    BY <1>0 DEF Begins, PartIsOwn, PartOwned
  <2>2. PartOwned(t)'
    BY <1>2 DEF PartOwned
  <2> QED BY <2>1, <2>2 DEF PartIsOwn, PartOwned
<1>6. SourceIsThere'
  BY <1>0, <1>2 DEF Begins, SourceIsThere
<1>7. NoCutFile'
  BY <1>0, <1>2 DEF Begins, NoCutFile
<1> QED BY <1>3, <1>4, <1>5, <1>6, <1>7 DEF Inv

LEMMA ResetTypes == TypeOK /\ Reset => TypeOK'
<1> SUFFICES ASSUME TypeOK, Reset PROVE TypeOK'
  OBVIOUS
<1>1. \A c \in Contents : AfterReset(c) \in Contents
  BY DEF AfterReset, Contents
<1>2. file' \in [Entries -> Contents] /\ part' \in [Entries -> Contents]
  BY <1>1 DEF TypeOK, Reset
<1>3. \A t \in Tasks : OpOK(t)'
  BY DEF Reset, OpOK, Held, Transfer
<1> QED BY <1>2, <1>3, NoOpIs DEF TypeOK, Reset

(* Nothing is in progress then, and what was cut is known to be.             *)
LEMMA ResetKeeps == Inv /\ Reset => Inv'
<1> SUFFICES ASSUME Inv, Reset PROVE Inv'
  OBVIOUS
<1>1. \A t \in Tasks : pc'[t] = "idle" /\ op'[t] = NoOp
  BY DEF Reset
<1>2. TypeOK'
  BY ResetTypes DEF Inv
<1>3. Alone' /\ PartIsOwn' /\ SourceIsThere'
  BY <1>1 DEF Alone, Held, PartIsOwn, SourceIsThere
<1>4. Met'
  BY <1>1, NoOpIs DEF Met, Meet
<1>5. NoCutFile'
  BY FilesAssumption DEF NoCutFile, Reset, AfterReset
<1> QED BY <1>2, <1>3, <1>4, <1>5 DEF Inv

LEMMA TaskKeeps ==
    ASSUME Apart, Inv, NEW t \in Tasks, TaskStep(t)
    PROVE  Inv'
BY TaskControl, TaskTouches, TaskTypes, KeepsMet, KeepsAlone, KeepsPartIsOwn,
   KeepsSourceIsThere, KeepsNoCutFile DEF Inv

LEMMA InitInv == Init => Inv
<1> SUFFICES ASSUME Init PROVE Inv
  OBVIOUS
<1>1. /\ file \in [Entries -> Data \cup {None}] /\ part = [e \in Entries |-> None]
      /\ \A t \in Tasks : pc[t] = "idle" /\ op[t] = NoOp
  BY FilesAssumption DEF Init
<1>2. TypeOK
  <2>1. \A t \in Tasks : OpOK(t)
    BY <1>1 DEF OpOK, Held, Transfer
  <2>2. kept \subseteq Data
    BY <1>1 DEF Init
  <2> QED BY <1>1, <2>1, <2>2, NoOpIs DEF Init, TypeOK, Contents
<1>3. Alone /\ PartIsOwn /\ SourceIsThere
  BY <1>1 DEF Alone, Held, PartIsOwn, SourceIsThere
<1>4. Met
  BY <1>1, NoOpIs DEF Met, Meet
<1>5. NoCutFile
  BY <1>1, FilesAssumption DEF NoCutFile
<1> QED BY <1>2, <1>3, <1>4, <1>5 DEF Inv

LEMMA NextInv == ASSUME Apart PROVE Inv /\ [Next]_vars => Inv'
<1> SUFFICES ASSUME Inv, [Next]_vars PROVE Inv'
  OBVIOUS
<1>1. ASSUME NEW t \in Tasks, NEW ow \in BOOLEAN,
             \/ \E c \in Calls[t], tree \in Trees : CallTree(t, c, tree, ow)
             \/ \E c \in Calls[t], n \in Dests, d \in Data : CallTransfer(t, c, n, ow, d)
      PROVE  Inv'
  <2>1. Begins(t) /\ TypeOK'
    BY <1>1, CallBegins DEF Inv
  <2> QED BY <2>1, BeginKeeps
<1>2. CASE UNCHANGED vars
  BY <1>2 DEF vars, disk, Inv, TypeOK, OpOK, Alone, Met, Meet, PartIsOwn, SourceIsThere, NoCutFile
<1> QED BY <1>1, <1>2, TaskKeeps, ResetKeeps DEF Next

LEMMA Invariance == ASSUME Apart PROVE Spec => []Inv
<1>1. Inv /\ [Next]_vars => Inv'
  BY NextInv
<1> QED BY <1>1, InitInv, PTL DEF Spec

(* Every variable keeps its type, and an operation is what its task is at.   *)
THEOREM FilesAreTyped == ASSUME Apart PROVE Spec => []TypeOK
<1>1. Inv => TypeOK
  BY DEF Inv
<1> QED BY <1>1, Invariance, PTL

(* No copy and no upload is left cut short, however many tasks copy, move,    *)
(* delete, upload and download the same files, and fail half way.            *)
THEOREM NothingCutShort == ASSUME Apart PROVE Spec => []NoCutFile
<1>1. Inv => NoCutFile
  BY DEF Inv
<1> QED BY <1>1, Invariance, PTL

-----------------------------------------------------------------------------
(* Keeping is kept *)

(* Where contents go: from source to target under the lock, from a .part to  *)
(* its file, from a transfer to its .part; and what becomes kept is what a   *)
(* transfer that met nobody is about to put in place.                       *)
Carries(t) ==
    /\ \A e \in Entries :
         \/ file'[e] \in {file[e], None, Cut, Torn}
         \/ pc[t] \in Held /\ e \in Of(op[t]) /\ \E s \in Sources(t) : file'[e] = file[s]
         \/ op[t].call \in Transfers /\ e = op[t].to /\ file'[e] = part[e] /\ Over(t)
    /\ \A e \in Entries :
         \/ part'[e] \in {part[e], None, Cut, Torn}
         \/ op[t].call \in Transfers /\ e = op[t].to /\ part'[e] = op[t].data
    /\ \/ kept' \subseteq kept
       \/ /\ op[t].call \in Transfers /\ ~op[t].clash
          /\ kept' \subseteq kept \cup {op[t].data} /\ part' = part
    /\ \/ Over(t) \/ op'[t].data \in {op[t].data, None}
       \/ \E e \in Entries : op'[t].data = file[e]
    /\ op[t].call \in Transfers => Over(t) \/ op'[t] = op[t]

LEMMA TransferCarries ==
    ASSUME TypeOK, NEW t \in Tasks,
           Open(t) \/ Written(t) \/ Fails(t) \/ Remove(t) \/ Replace(t) \/ Drop(t)
    PROVE  Carries(t)
<1>1. /\ file \in [Entries -> Contents] /\ part \in [Entries -> Contents]
      /\ op \in [Tasks -> Ops] /\ pc \in [Tasks -> Held \cup Transfer \cup {"idle", "lock"}]
  BY DEF TypeOK
<1>2. pc[t] \in Transfer
  BY DEF Open, Written, Fails, Remove, Replace, Drop, Transfer
<1>3. op[t].to \in Entries /\ op[t].call \in Transfers
  BY <1>2, EntriesOf DEF TypeOK, OpOK
<1>4. Bad(t) \in {Cut, Torn}
  BY DEF Bad
<1> USE <1>1, <1>3, <1>4 DEF Carries, Ends, Goes, Over
<1>5. CASE Open(t) BY <1>5 DEF Open
<1>6. CASE Written(t) BY <1>6 DEF Written
<1>7. CASE Fails(t) BY <1>7 DEF Fails, disk
<1>8. CASE Remove(t) BY <1>8 DEF Remove
<1>9. CASE Replace(t)
  <2>1. UNCHANGED kept
    BY <1>9 DEF Replace
  <2>2. CASE file[op[t].to] = None /\ part[op[t].to] # None
    <3>1. /\ Over(t)
          /\ part' = [part EXCEPT ![op[t].to] = None]
          /\ file' = [file EXCEPT ![op[t].to] = IF part[op[t].to] = Cut THEN Bad(t)
                                               ELSE part[op[t].to]]
      BY <1>9, <2>2 DEF Replace
    <3> QED BY <2>1, <3>1
  <2>3. CASE ~(file[op[t].to] = None /\ part[op[t].to] # None)
    <3>1. file' = file /\ part' = part /\ op' = op
      BY <1>9, <2>3 DEF Replace
    <3> QED BY <2>1, <3>1
  <2> QED BY <2>2, <2>3
<1>10. CASE Drop(t) BY <1>10 DEF Drop
<1> QED BY <1>5, <1>6, <1>7, <1>8, <1>9, <1>10

LEMMA TreeCarries ==
    ASSUME TypeOK, NEW t \in Tasks,
           (\E p \in op[t].left : CopyOpen(t, p) \/ Delete(t, p))
           \/ CopyDone(t) \/ CopyFails(t) \/ Stat(t) \/ Rename(t)
    PROVE  Carries(t)
<1>1. /\ file \in [Entries -> Contents] /\ op \in [Tasks -> Ops]
  BY DEF TypeOK
<1>2. pc[t] \in Held
  BY DEF CopyOpen, Delete, CopyDone, CopyFails, Stat, Rename, Held
<1>3. /\ Sources(t) \subseteq Of(op[t]) /\ Targets(t) \subseteq Of(op[t])
      /\ \A p \in op[t].pairs : Entry[p[1]] \in Sources(t) /\ Entry[p[2]] \in Targets(t)
      /\ Sources(t) \subseteq Entries /\ Targets(t) \subseteq Entries
      /\ op[t].left \subseteq op[t].pairs
      /\ pc[t] = "copying" => op[t].to \in Targets(t) /\ op[t].to \in Entries
  BY <1>2, EntriesOf DEF TypeOK, OpOK, Ops
<1>4. part' = part /\ kept' \subseteq kept
  BY DEF CopyOpen, Delete, CopyDone, CopyFails, Stat, Rename
<1>5. op[t].call \notin Transfers
  BY <1>2, CallOf DEF TreeCalls, Transfers
<1>6. ASSUME \A e \in Entries :
                \/ file'[e] \in {file[e], None, Cut, Torn}
                \/ e \in Of(op[t]) /\ \E s \in Sources(t) : file'[e] = file[s],
             \/ op'[t].data \in {op[t].data, None}
             \/ \E e \in Entries : op'[t].data = file[e]
      PROVE  Carries(t)
  BY <1>2, <1>4, <1>5, <1>6 DEF Carries
<1>7. ASSUME NEW p \in op[t].left, CopyOpen(t, p) PROVE Carries(t)
  <2>1. file' = file \/ file' = [file EXCEPT ![Entry[p[2]]] = Cut]
    BY <1>7 DEF CopyOpen
  <2>2. op' = op \/ op' = [op EXCEPT ![t].to = Entry[p[2]], ![t].data = file[Entry[p[1]]],
                                ![t].left = op[t].left \ {p}]
    BY <1>7 DEF CopyOpen
  <2>3. op'[t].data = op[t].data \/ op'[t].data = file[Entry[p[1]]]
    BY <1>1, <2>2 DEF Ops
  <2>4. Entry[p[1]] \in Entries /\ Entry[p[2]] \in Entries
    BY <1>3
  <2> QED BY <1>1, <1>6, <2>1, <2>3, <2>4
<1>8. ASSUME NEW p \in op[t].left, Delete(t, p) PROVE Carries(t)
  <2>1. op' = op \/ op' = [op EXCEPT ![t].left = op[t].left \ {p}]
    BY <1>8 DEF Delete
  <2>2. op'[t].data = op[t].data
    BY <1>1, <2>1 DEF Ops
  <2>3. file' = file \/ file' = [file EXCEPT ![Entry[p[1]]] = None]
    BY <1>8 DEF Delete
  <2> QED BY <1>1, <1>6, <2>2, <2>3
<1>9. CASE CopyDone(t) \/ CopyFails(t)
  <2>1. op'[t].data = None
    BY <1>1, <1>9 DEF CopyDone, CopyFails, Ops
  <2>2. \/ file' = file \/ file' = [file EXCEPT ![op[t].to] = None]
        \/ file' = [file EXCEPT ![op[t].to] = Copied(t)]
    BY <1>9 DEF CopyDone, CopyFails
  <2>3. Copied(t) \in {Cut, Torn} \/ \E s \in Sources(t) : Copied(t) = file[s]
    BY DEF Copied, Bad
  <2>4. op[t].to \in Entries /\ op[t].to \in Of(op[t])
    BY <1>3, <1>9 DEF CopyDone, CopyFails
  <2> QED BY <1>1, <1>6, <2>1, <2>2, <2>3, <2>4
<1>10. CASE Stat(t)
  BY <1>1, <1>6, <1>10 DEF Stat
<1>11. CASE Rename(t)
  <2>1. \A e \in Targets(t) : \E p \in op[t].pairs : Entry[p[2]] = e
    BY DEF Targets
  <2>2. \A e \in Targets(t) :
          Entry[(CHOOSE p \in op[t].pairs : Entry[p[2]] = e)[1]] \in Sources(t)
    BY <1>3, <2>1
  <2>3. op' = op
    BY <1>11 DEF Rename
  <2> QED BY <1>1, <1>3, <1>6, <1>11, <2>2, <2>3 DEF Rename
<1> QED BY <1>7, <1>8, <1>9, <1>10, <1>11

LEMMA TaskCarries ==
    ASSUME TypeOK, NEW t \in Tasks, TaskStep(t)
    PROVE  Carries(t)
<1>1. op \in [Tasks -> Ops]
  BY DEF TypeOK
<1>2. CASE Lock(t) \/ AllDeleted(t)
  BY <1>2 DEF Lock, AllDeleted, disk, Carries
<1>3. CASE Unlock(t)
  BY <1>1, <1>3 DEF Unlock, Ends, Goes, disk, Carries, Over, TypeOK
<1>4. CASE Check(t)
  BY <1>1, <1>4 DEF Check, Ends, Goes, disk, Carries, Over, TypeOK
<1>5. CASE AllCopied(t)
  <2>1. op'[t].data = op[t].data
    BY <1>1, <1>5 DEF AllCopied, Ops
  <2>2. op[t].call \notin Transfers
    BY <1>5, CallOf DEF AllCopied, Held, TreeCalls, Transfers
  <2> QED BY <1>5, <2>1, <2>2 DEF AllCopied, disk, Carries
<1> QED BY <1>2, <1>3, <1>4, <1>5, TransferCarries, TreeCarries DEF TaskStep

(* What a step may make of the contents that are not kept. *)
LEMMA Marks == {None, Cut, Torn} \cap Data = {}
BY FilesAssumption

LEMMA ToOf ==
    ASSUME TypeOK, NEW t \in Tasks, op[t].call \in Transfers
    PROVE  op[t].to \in Entries /\ op[t].to \in Of(op[t]) /\ op[t].data \in Data /\ pc[t] \in Transfer
<1>1. op[t].call \notin TreeCalls /\ op[t].call # None
  BY FilesAssumption DEF TreeCalls, Transfers
<1>2. pc[t] \in Transfer
  BY <1>1, NoOpIs DEF TypeOK, OpOK
<1> QED BY <1>2, EntriesOf DEF TypeOK, OpOK

(* Two transfers to one entry have met. *)
LEMMA SameTo ==
    ASSUME TypeOK, Met, NEW t \in Tasks, NEW u \in Tasks, t # u,
           op[t].call \in Transfers, op[u].call \in Transfers, op[t].to = op[u].to
    PROVE  Meet(t, u) /\ op[t].clash /\ op[u].clash
<1>1. Meet(t, u)
  BY ToOf, FilesAssumption DEF Meet, Transfers
<1> QED BY <1>1 DEF Met

(* While two that met go on, what is kept goes nowhere near them. *)
LEMMA MeetStep ==
    ASSUME IInv, NEW t \in Tasks, NEW u \in Tasks, Meet(t, u), Touches(t), Carries(t)
    PROVE  kept' \subseteq kept /\ \A e \in Of(op[t]) \cup Of(op[u]) :
                                        e \in Entries => file'[e] \notin kept'
<1>0. /\ TypeOK /\ Met /\ kept \subseteq Data
      /\ \A e \in Of(op[t]) \cup Of(op[u]) : file[e] \notin kept
      /\ op[t].clash /\ op[u].clash
  BY MeetSymmetric DEF IInv, Inv, Keeping, NothingPromised, Met, TypeOK
<1>1. kept' \subseteq kept
  BY <1>0 DEF Carries
<1>2. ASSUME NEW e \in Of(op[t]) \cup Of(op[u]), e \in Entries PROVE file'[e] \notin kept
  <2>1. CASE file'[e] \in {file[e], None, Cut, Torn}
    BY <1>0, <1>2, <2>1, Marks
  <2>2. ASSUME NEW s \in Sources(t), file'[e] = file[s] PROVE file'[e] \notin kept
    BY <1>0, <2>2, EntriesOf
  <2>3. CASE op[t].call \in Transfers /\ e = op[t].to /\ file'[e] = part[e]
    BY <1>0, <2>3 DEF IInv, Keeping, NothingPromised
  <2> QED BY <1>2, <2>1, <2>2, <2>3 DEF Carries
<1> QED BY <1>1, <1>2

LEMMA KeepsPromise ==
    ASSUME TwoTasks, IInv, NEW t \in Tasks, Control(t), Touches(t), Carries(t)
    PROVE  NothingPromised'
<1>0. /\ TypeOK /\ Met /\ NothingPromised /\ Fresh /\ kept \subseteq Data
  BY DEF IInv, Inv, Keeping, TypeOK
<1>1. ASSUME NEW u \in Tasks, NEW v \in Tasks, Meet(u, v)', NEW e \in Of(op'[u])
      PROVE  file'[e] \notin kept'
  <2>1. Meet(u, v) /\ Meet(v, u)
    BY <1>0, <1>1, KeepsMet, MeetSymmetric
  <2>2. t = u \/ t = v
    BY <2>1 DEF TwoTasks, Meet
  <2>3. Of(op'[u]) = Of(op[u])
    BY <1>1, NoOpIs DEF Control, OthersStay, Over, SameOp, Meet
  <2>4. e \in Entries
    <3>1. op[u] \in Ops /\ Of(op[u]) = Sources(u) \cup Targets(u) \cup ({op[u].to} \ {None})
      BY <1>0 DEF TypeOK, Of, Sources, Targets
    <3> QED BY <1>0, <1>1, <2>3, <3>1, EntriesOf DEF Ops
  <2> QED BY <2>1, <2>2, <2>3, <2>4, <1>1, MeetStep
<1>2. ASSUME NEW u \in Tasks, op'[u].call \in Transfers, op'[u].clash
      PROVE  part'[op'[u].to] \notin kept' /\ op'[u].data \notin kept'
  <2>1. op'[u].call # None
    BY <1>2, FilesAssumption DEF Transfers
  <2>2. op'[u] = op[u]
    BY <1>2, <2>1, NoOpIs DEF Control, OthersStay, Over, SameOp, Carries
  <2>3. /\ op[u].call \in Transfers /\ op[u].clash
        /\ part[op[u].to] \notin kept /\ op[u].data \notin kept
        /\ op[u].to \in Entries /\ op[u].data \in Data
    BY <1>0, <1>2, <2>2, ToOf DEF NothingPromised
  <2>4. CASE kept' \subseteq kept
    <3>1. CASE part'[op[u].to] \in {part[op[u].to], None, Cut, Torn}
      BY <1>0, <2>2, <2>3, <2>4, <3>1, Marks
    <3>2. CASE op[t].call \in Transfers /\ op[u].to = op[t].to /\ part'[op[u].to] = op[t].data
      <4>1. op[t].clash
        BY <1>0, <2>3, <3>2, SameTo
      <4> QED BY <1>0, <2>2, <2>3, <2>4, <3>2, <4>1 DEF NothingPromised
    <3> QED BY <2>3, <3>1, <3>2 DEF Carries
  <2>5. CASE /\ op[t].call \in Transfers /\ ~op[t].clash
             /\ kept' \subseteq kept \cup {op[t].data} /\ part' = part
    <3>1. t # u /\ op[u].data # op[t].data
      BY <1>0, <2>3, <2>5 DEF Fresh
    <3>2. part[op[u].to] # op[t].data
      BY <1>0, <2>3, <2>5, <3>1, SameTo DEF Fresh
    <3> QED BY <2>2, <2>3, <2>5, <3>1, <3>2
  <2> QED BY <2>4, <2>5 DEF Carries
<1> QED BY <1>1, <1>2 DEF NothingPromised

LEMMA KeepsFresh ==
    ASSUME IInv, NEW t \in Tasks, Control(t), Carries(t)
    PROVE  Fresh'
<1>0. /\ TypeOK /\ Met /\ Fresh
  BY DEF IInv, Inv, Keeping
<1> SUFFICES ASSUME NEW u \in Tasks, op'[u].call \in Transfers, ~op'[u].clash
             PROVE  /\ \A e \in Entries : file'[e] # op'[u].data
                                           /\ (part'[e] = op'[u].data => e = op'[u].to)
                    /\ \A v \in Tasks \ {u} : op'[v].data # op'[u].data
  BY DEF Fresh
<1>1. op'[u].call # None
  BY FilesAssumption DEF Transfers
<1>2. op'[u] = op[u] /\ (u = t => ~Over(t))
  BY <1>1, NoOpIs DEF Control, OthersStay, Over, SameOp, Carries
<1>3. /\ op[u].call \in Transfers /\ ~op[u].clash /\ op[u].data \in Data
      /\ \A e \in Entries : file[e] # op[u].data /\ (part[e] = op[u].data => e = op[u].to)
      /\ \A v \in Tasks \ {u} : op[v].data # op[u].data
  BY <1>0, <1>2, ToOf DEF Fresh
<1>4. ASSUME NEW e \in Entries PROVE file'[e] # op[u].data
  <2>1. CASE file'[e] \in {file[e], None, Cut, Torn}
    BY <1>3, <2>1, Marks
  <2>2. ASSUME NEW s \in Sources(t), file'[e] = file[s] PROVE file'[e] # op[u].data
    BY <1>0, <1>3, <2>2, EntriesOf
  <2>3. CASE op[t].call \in Transfers /\ e = op[t].to /\ file'[e] = part[e] /\ Over(t)
    BY <1>0, <1>2, <1>3, <2>3, SameTo
  <2> QED BY <2>1, <2>2, <2>3 DEF Carries
<1>5. ASSUME NEW e \in Entries, part'[e] = op[u].data PROVE e = op[u].to
  <2>1. CASE part'[e] \in {part[e], None, Cut, Torn}
    BY <1>3, <1>5, <2>1, Marks
  <2>2. CASE op[t].call \in Transfers /\ e = op[t].to /\ part'[e] = op[t].data
    BY <1>3, <1>5, <2>2
  <2> QED BY <2>1, <2>2 DEF Carries
<1>6. ASSUME NEW v \in Tasks \ {u} PROVE op'[v].data # op[u].data
  <2>1. CASE v # t
    BY <1>3, <2>1 DEF Control, OthersStay
  <2>2. CASE v = t
    <3>1. op'[t].data \in {op[t].data, None} \/ \E e \in Entries : op'[t].data = file[e]
      BY NoOpIs DEF Carries, Over
    <3> QED BY <1>3, <1>6, <2>2, <3>1, Marks
  <2> QED BY <2>1, <2>2
<1> QED BY <1>2, <1>4, <1>5, <1>6

(* Another's copy or move finds what it has under its hands as it was, or it *)
(* is not kept any more.                                                    *)
LEMMA OthersFiles ==
    ASSUME IInv, NEW t \in Tasks, NEW u \in Tasks \ {t}, Control(t), Touches(t), Carries(t),
           pc[u] \in Held, NEW e \in Of(op[u]), e \in Entries
    PROVE  /\ file'[e] \in kept' => file'[e] = file[e] /\ file[e] \in kept
           /\ pc[t] \in Held => FALSE
           /\ \A f \in Of(op[u]) : f \in Entries /\ file'[e] \in kept' => file'[f] = file[f]
<1>0. /\ TypeOK /\ Met /\ Fresh /\ Alone
  BY DEF IInv, Inv, Keeping
<1>1. pc[t] \notin Held
  BY <1>0 DEF Alone
<1>2. op[u].call # None
  BY <1>0, CallOf
<1>3. CASE Meet(t, u)
  <2>1. file'[e] \notin kept'
    BY <1>3, MeetStep
  <2> QED BY <1>1, <2>1
<1>4. CASE ~Meet(t, u) /\ op[t].call \in Transfers
  <2>1. Of(op[t]) \cap Of(op[u]) = {}
    BY <1>2, <1>4, FilesAssumption DEF Meet, Transfers
  <2>2. \A f \in Of(op[u]) : f \in Entries => file'[f] = file[f]
    BY <2>1 DEF Touches
  <2>3. kept' \subseteq kept \/ (kept' \subseteq kept \cup {op[t].data} /\ file[e] # op[t].data)
    BY <1>0 DEF Carries, Fresh
  <2> QED BY <1>1, <2>2, <2>3
<1>5. CASE op[t].call \notin Transfers
  <2>1. file' = file /\ kept' \subseteq kept
    BY <1>1, <1>5 DEF Touches, Carries
  <2> QED BY <1>1, <2>1
<1> QED BY <1>3, <1>4, <1>5

LEMMA KeepsCopying ==
    ASSUME Apart, IInv, NEW t \in Tasks, TaskStep(t), Control(t), Touches(t), Carries(t), TypeOK'
    PROVE  CopyingKept'
<1>0. /\ TypeOK /\ Alone /\ CopyingKept /\ kept \subseteq Data /\ kept' \subseteq Data
  BY DEF IInv, Inv, Keeping, TypeOK
<1>1. ASSUME NEW u \in Tasks \ {t}, pc'[u] = "copying"
      PROVE  /\ file'[op'[u].to] \notin kept'
             /\ \A p \in op'[u].pairs \ op'[u].left : Entry[p[2]] = op'[u].to =>
                  \/ file'[Entry[p[1]]] \notin kept'
                  \/ file'[Entry[p[1]]] = op'[u].data /\ file'[op'[u].to] = Cut
  <2>1. pc[u] = "copying" /\ op'[u] = op[u] /\ pc[u] \in Held
    BY <1>1 DEF Control, OthersStay, Held
  <2>2. /\ file[op[u].to] \notin kept
        /\ \A p \in op[u].pairs \ op[u].left : Entry[p[2]] = op[u].to =>
             \/ file[Entry[p[1]]] \notin kept
             \/ file[Entry[p[1]]] = op[u].data /\ file[op[u].to] = Cut
    BY <1>0, <2>1 DEF CopyingKept
  <2>3. op[u].to \in Of(op[u]) /\ op[u].to \in Entries
    BY <1>0, <2>1, EntriesOf
  <2>4. file'[op[u].to] \notin kept'
    BY <2>1, <2>2, <2>3, OthersFiles
  <2>5. ASSUME NEW p \in op[u].pairs \ op[u].left, Entry[p[2]] = op[u].to,
               file'[Entry[p[1]]] \in kept'
        PROVE  file'[Entry[p[1]]] = op[u].data /\ file'[op[u].to] = Cut
    <3>1. Entry[p[1]] \in Of(op[u]) /\ Entry[p[1]] \in Entries
      BY <1>0, <2>5, EntriesOf
    <3>2. /\ file'[Entry[p[1]]] = file[Entry[p[1]]] /\ file[Entry[p[1]]] \in kept
          /\ file'[op[u].to] = file[op[u].to]
      BY <2>1, <2>3, <2>5, <3>1, OthersFiles
    <3> QED BY <2>2, <2>5, <3>2
  <2> QED BY <2>1, <2>4, <2>5
<1>2. ASSUME pc'[t] = "copying"
      PROVE  /\ file'[op'[t].to] \notin kept'
             /\ \A p \in op'[t].pairs \ op'[t].left : Entry[p[2]] = op'[t].to =>
                  file'[Entry[p[1]]] = op'[t].data /\ file'[op'[t].to] = Cut
  <2>1. PICK p \in op[t].left : CopyOpen(t, p)
    <3>1. t \in DOMAIN pc
      BY <1>0 DEF TypeOK
    <3> QED
      BY <1>2, <3>1 DEF TaskStep, Lock, Unlock, Stat, Rename, Delete, CopyDone, CopyFails, AllCopied,
         AllDeleted, Check, Open, Written, Fails, Remove, Replace, Drop, Goes, Ends
  <2>2. pc[t] = "copy" /\ op \in [Tasks -> Ops]
        /\ file \in [Entries -> Contents] /\ pc \in [Tasks -> Held \cup Transfer \cup {"idle", "lock"}]
    BY <1>0, <2>1 DEF CopyOpen, TypeOK
  <2>3. op[t].left \subseteq op[t].pairs /\ op[t].pairs \in Trees
    BY <1>0, <2>2 DEF TypeOK, OpOK, Held
  <2>4. /\ Entry[p[1]] \in Entries /\ Entry[p[2]] \in Entries /\ Entry[p[1]] # Entry[p[2]]
        /\ \A q \in op[t].pairs : Entry[q[2]] = Entry[p[2]] => q = p
    BY <1>0, <2>3, EntriesOf DEF Apart
  <2>5. /\ op' = [op EXCEPT ![t].to = Entry[p[2]], ![t].data = file[Entry[p[1]]],
                            ![t].left = op[t].left \ {p}]
        /\ file' = [file EXCEPT ![Entry[p[2]]] = Cut]
    BY <1>2, <2>1, <2>2 DEF CopyOpen, Goes
  <2>6. /\ op'[t].pairs = op[t].pairs
        /\ op'[t].to = Entry[p[2]] /\ op'[t].data = file[Entry[p[1]]]
    BY <2>2, <2>5 DEF Ops
  <2>7. file'[Entry[p[1]]] = file[Entry[p[1]]] /\ file'[Entry[p[2]]] = Cut
    BY <2>2, <2>4, <2>5
  <2> QED BY <1>0, <2>4, <2>6, <2>7, Marks
<1> QED BY <1>1, <1>2 DEF CopyingKept

(* A move's files, of which the source may be deleted. *)
Both(t) ==
    pc[t] \in {"copy", "copying", "delete"} /\ op[t].call = "move" =>
        \A p \in op[t].pairs :
            /\ pc[t] # "delete" => p \notin op[t].left
            /\ pc[t] = "copying" => Entry[p[2]] # op[t].to
            /\ file[Entry[p[1]]] \in kept
            => file[Entry[p[2]]] = file[Entry[p[1]]]

LEMMA OthersBoth ==
    ASSUME IInv, NEW t \in Tasks, NEW u \in Tasks \ {t}, Control(t), Touches(t), Carries(t)
    PROVE  Both(u)'
<1>0. TypeOK /\ Both(u) /\ pc'[u] = pc[u] /\ op'[u] = op[u]
  BY DEF IInv, Inv, Keeping, AtBothEnds, Both, Control, OthersStay
<1> SUFFICES ASSUME pc[u] \in {"copy", "copying", "delete"}, op[u].call = "move",
                    NEW p \in op[u].pairs,
                    pc[u] # "delete" => p \notin op[u].left,
                    pc[u] = "copying" => Entry[p[2]] # op[u].to,
                    file'[Entry[p[1]]] \in kept'
             PROVE  file'[Entry[p[2]]] = file'[Entry[p[1]]]
  BY <1>0 DEF Both
<1>1. /\ Entry[p[1]] \in Of(op[u]) /\ Entry[p[1]] \in Entries
      /\ Entry[p[2]] \in Of(op[u]) /\ Entry[p[2]] \in Entries /\ pc[u] \in Held
  BY <1>0, EntriesOf DEF Held
<1>2. /\ file'[Entry[p[1]]] = file[Entry[p[1]]] /\ file[Entry[p[1]]] \in kept
      /\ file'[Entry[p[2]]] = file[Entry[p[2]]]
  BY <1>1, OthersFiles
<1> QED BY <1>0, <1>2 DEF Both

LEMMA OwnBoth ==
    ASSUME Apart, IInv, NEW t \in Tasks, TaskStep(t), Control(t), TypeOK'
    PROVE  Both(t)'
<1>0. /\ TypeOK /\ Both(t) /\ CopyingKept /\ OpOK(t) /\ None \notin Data /\ Cut \notin Data
      /\ kept \subseteq Data /\ kept' \subseteq Data
      /\ op \in [Tasks -> Ops] /\ file \in [Entries -> Contents]
      /\ pc \in [Tasks -> Held \cup Transfer \cup {"idle", "lock"}]
  BY Marks DEF IInv, Inv, Keeping, AtBothEnds, Both, TypeOK
<1>1. \A p \in op[t].pairs : Entry[p[1]] \in Entries /\ Entry[p[2]] \in Entries
  BY <1>0, EntriesOf
<1>2. pc[t] \in Held => \A p, q \in op[t].pairs :
        Entry[p[2]] # Entry[q[1]] /\ (Entry[p[2]] = Entry[q[2]] => p = q)
  BY <1>0 DEF OpOK, Apart
<1>3. CASE Lock(t)
  <2>1. op' = op /\ (pc'[t] \in {"copy", "copying", "delete"} /\ op[t].call = "move" => pc'[t] = "copy" /\ pc[t] = "lock")
    BY <1>0, <1>3 DEF Lock, Goes
  <2>2. pc[t] = "lock" => op[t].left = op[t].pairs
    BY <1>0 DEF OpOK
  <2> QED BY <2>1, <2>2 DEF Both
<1>4. ASSUME NEW p \in op[t].left, CopyOpen(t, p) PROVE Both(t)'
  <2>1. CASE pc'[t] = "unlock"
    BY <2>1 DEF Both
  <2>2. CASE pc'[t] # "unlock"
    <3>1. /\ op' = [op EXCEPT ![t].to = Entry[p[2]], ![t].data = file[Entry[p[1]]],
                              ![t].left = op[t].left \ {p}]
          /\ file' = [file EXCEPT ![Entry[p[2]]] = Cut]
          /\ kept' \subseteq kept /\ pc[t] = "copy" /\ pc'[t] = "copying"
      BY <1>0, <1>4, <2>2 DEF CopyOpen, Goes
    <3>2. /\ op'[t].pairs = op[t].pairs /\ op'[t].left = op[t].left \ {p}
          /\ op'[t].to = Entry[p[2]] /\ op'[t].call = op[t].call
      BY <1>0, <3>1 DEF Ops
    <3>3. p \in op[t].pairs
      BY <1>0, <3>1 DEF OpOK, Held
    <3>4. ASSUME NEW q \in op[t].pairs, q \notin op[t].left \ {p}, Entry[q[2]] # Entry[p[2]]
          PROVE  /\ q \notin op[t].left
                 /\ file'[Entry[q[1]]] = file[Entry[q[1]]]
                 /\ file'[Entry[q[2]]] = file[Entry[q[2]]]
      BY <1>0, <1>1, <1>2, <3>1, <3>3, <3>4 DEF Held
    <3> QED BY <1>0, <3>1, <3>2, <3>4 DEF Both
  <2> QED BY <2>1, <2>2
<1>5. CASE CopyDone(t)
  <2>1. /\ pc[t] = "copying" /\ pc'[t] = "copy" /\ kept' = kept
        /\ op' = [op EXCEPT ![t].to = None, ![t].data = None]
        /\ file' = IF file[op[t].to] = None THEN file ELSE [file EXCEPT ![op[t].to] = Copied(t)]
    BY <1>0, <1>5 DEF CopyDone, Goes
  <2>2. op'[t].pairs = op[t].pairs /\ op'[t].left = op[t].left /\ op'[t].call = op[t].call
    BY <1>0, <2>1 DEF Ops
  <2>3. ASSUME NEW q \in op[t].pairs, q \notin op[t].left, op[t].call = "move",
               file'[Entry[q[1]]] \in kept
        PROVE  file'[Entry[q[2]]] = file'[Entry[q[1]]]
    <3>1. op[t].to \in Entries /\ op[t].to \in {Entry[p[2]] : p \in op[t].pairs \ op[t].left}
      BY <1>0, <2>1, EntriesOf DEF OpOK
    <3>2. Entry[q[1]] # op[t].to /\ file'[Entry[q[1]]] = file[Entry[q[1]]]
      BY <1>0, <1>1, <1>2, <2>1, <2>3, <3>1 DEF Held
    <3>3. CASE Entry[q[2]] # op[t].to
      BY <1>0, <1>1, <2>1, <2>3, <3>1, <3>2, <3>3 DEF Both
    <3>4. CASE Entry[q[2]] = op[t].to
      <4>1. file[Entry[q[1]]] = op[t].data /\ file[op[t].to] = Cut
        BY <1>0, <2>1, <2>3, <3>2, <3>4 DEF CopyingKept
      <4>2. Entry[q[1]] \in Sources(t)
        BY <1>0, EntriesOf
      <4>3. Copied(t) = op[t].data
        BY <4>1, <4>2 DEF Copied
      <4> QED BY <1>0, <2>1, <3>1, <3>2, <3>4, <4>1, <4>3, FilesAssumption
    <3> QED BY <3>3, <3>4
  <2> QED BY <2>1, <2>2, <2>3 DEF Both
<1>6. CASE AllCopied(t)
  <2>1. /\ pc[t] = "copy" /\ op[t].left = {} /\ file' = file /\ kept' = kept
        /\ op' = [op EXCEPT ![t].left = op[t].pairs]
        /\ pc'[t] \in {"delete", "unlock"}
    BY <1>0, <1>6 DEF AllCopied, Goes, disk
  <2>2. op'[t].pairs = op[t].pairs /\ op'[t].call = op[t].call
    BY <1>0, <2>1 DEF Ops
  <2> QED BY <1>0, <2>1, <2>2 DEF Both
<1>7. ASSUME NEW p \in op[t].left, Delete(t, p) PROVE Both(t)'
  <2>1. pc[t] = "delete" /\ op[t].left \subseteq op[t].pairs /\ kept' \subseteq kept
    BY <1>0, <1>7 DEF Delete, OpOK, Held
  <2>2. op' = op \/ op' = [op EXCEPT ![t].left = op[t].left \ {p}]
    BY <1>7 DEF Delete
  <2>3. op'[t].pairs = op[t].pairs /\ op'[t].call = op[t].call
    BY <1>0, <2>2 DEF Ops
  <2>4. file' = file \/ file' = [file EXCEPT ![Entry[p[1]]] = None]
    BY <1>7 DEF Delete
  <2>5. pc'[t] \in {"delete", "unlock"}
    BY <1>0, <1>7, <2>1 DEF Delete, Goes
  <2>6. ASSUME NEW q \in op[t].pairs, op[t].call = "move", file'[Entry[q[1]]] \in kept
        PROVE  file'[Entry[q[2]]] = file'[Entry[q[1]]]
    <3>1. file'[Entry[q[1]]] = file[Entry[q[1]]]
      BY <1>0, <1>1, <2>1, <2>4, <2>6
    <3>2. file'[Entry[q[2]]] = file[Entry[q[2]]]
      BY <1>0, <1>1, <1>2, <2>1, <2>4, <2>6 DEF Held
    <3> QED BY <1>0, <2>1, <2>6, <3>1, <3>2 DEF Both
  <2> QED BY <2>1, <2>3, <2>5, <2>6 DEF Both
<1>8. CASE pc'[t] \notin {"copy", "copying", "delete"}
  BY <1>8 DEF Both
<1>9. CASE \/ Unlock(t) \/ Stat(t) \/ Rename(t) \/ CopyFails(t) \/ AllDeleted(t) \/ Check(t)
           \/ Open(t) \/ Written(t) \/ Fails(t) \/ Remove(t) \/ Replace(t) \/ Drop(t)
  BY <1>0, <1>8, <1>9 DEF Unlock, Stat, Rename, CopyFails, AllDeleted, Check, Open, Written, Fails,
     Remove, Replace, Drop, Goes, Ends
<1> QED BY <1>3, <1>4, <1>5, <1>6, <1>7, <1>9 DEF TaskStep

(* What is kept stays: copies, moves and deletions. *)
LEMMA TreeData ==
    ASSUME Apart, IInv, NEW t \in Tasks,
           (\E p \in op[t].left : CopyOpen(t, p) \/ Delete(t, p))
           \/ CopyDone(t) \/ CopyFails(t) \/ Stat(t) \/ Rename(t)
    PROVE  DataKept'
<1>0. /\ TypeOK /\ Both(t) /\ CopyingKept /\ DataKept /\ OpOK(t) /\ kept \subseteq Data
      /\ None \notin Data /\ Cut \notin Data /\ file \in [Entries -> Contents]
  BY Marks DEF IInv, Inv, Keeping, AtBothEnds, Both, TypeOK
<1>1. pc[t] \in Held
  BY DEF CopyOpen, Delete, CopyDone, CopyFails, Stat, Rename, Held
<1>2. /\ op[t].left \subseteq op[t].pairs
      /\ \A p, q \in op[t].pairs :
           Entry[p[2]] # Entry[q[1]] /\ (Entry[p[2]] = Entry[q[2]] => p = q)
      /\ \A p \in op[t].pairs : Entry[p[1]] \in Entries /\ Entry[p[2]] \in Entries
      /\ pc[t] = "copying" => op[t].to \in Entries
  BY <1>0, <1>1, EntriesOf DEF OpOK, Apart
<1>3. Targets(t) \cap Sources(t) = {} /\ Targets(t) \subseteq Entries
  BY <1>0, <1>2, EntriesOf DEF Targets, Sources
<1>4. part' = part /\ kept' \subseteq kept
  BY DEF CopyOpen, Delete, CopyDone, CopyFails, Stat, Rename
<1> SUFFICES ASSUME NEW d \in kept' PROVE \E e \in Entries : file'[e] = d \/ part'[e] = d
  BY DEF DataKept
<1>5. d \in Data /\ d # None /\ \E e \in Entries : file[e] = d \/ part[e] = d
  BY <1>0, <1>4 DEF DataKept
<1>6. CASE \E e \in Entries : part[e] = d
  BY <1>4, <1>6
<1> SUFFICES ASSUME NEW e \in Entries, file[e] = d PROVE \E f \in Entries : file'[f] = d
  BY <1>5, <1>6
<1>7. ASSUME NEW p \in op[t].left, CopyOpen(t, p) PROVE \E f \in Entries : file'[f] = d
  <2>1. Entry[p[2]] # Entry[p[1]]
    BY <1>2
  <2>2. e # Entry[p[2]] \/ file' = file
    BY <1>7, <2>1 DEF CopyOpen
  <2>3. file'[e] = file[e]
    BY <1>0, <1>7, <2>2 DEF CopyOpen
  <2> QED BY <2>3
<1>8. ASSUME NEW p \in op[t].left, Delete(t, p) PROVE \E f \in Entries : file'[f] = d
  <2>1. pc[t] = "delete" /\ op[t].call \in {"move", "delete"} /\ p \in op[t].pairs
    BY <1>0, <1>2, <1>8 DEF Delete, OpOK
  <2>2. file' = file \/ file' = [file EXCEPT ![Entry[p[1]]] = None]
    BY <1>8 DEF Delete
  <2>3. CASE e # Entry[p[1]] \/ file' = file
    BY <1>0, <2>2, <2>3
  <2>4. CASE e = Entry[p[1]] /\ op[t].call = "move"
    <3>1. file[Entry[p[2]]] = d /\ Entry[p[2]] # Entry[p[1]]
      BY <1>0, <1>2, <1>4, <2>1, <2>4 DEF Both
    <3> QED BY <1>0, <1>2, <2>1, <2>2, <3>1
  <2>5. CASE e = Entry[p[1]] /\ op[t].call = "delete" /\ file' # file
    BY <1>8, <2>5 DEF Delete
  <2> QED BY <2>1, <2>3, <2>4, <2>5
<1>9. CASE CopyDone(t) \/ CopyFails(t)
  <2>1. pc[t] = "copying" /\ e # op[t].to
    BY <1>0, <1>4, <1>9 DEF CopyDone, CopyFails, CopyingKept
  <2>2. file'[e] = file[e]
    BY <1>0, <1>9, <2>1 DEF CopyDone, CopyFails
  <2> QED BY <2>2
<1>10. CASE Stat(t)
  BY <1>0, <1>3, <1>10 DEF Stat
<1>11. CASE Rename(t)
  <2>1. CASE file' = file
    BY <2>1
  <2>2. CASE file' # file
    <3>1. /\ \A f \in Targets(t) : file[f] = None
          /\ file' = [f \in Entries |->
                       IF f \in Sources(t) THEN None
                       ELSE IF f \in Targets(t)
                       THEN file[Entry[(CHOOSE p \in op[t].pairs : Entry[p[2]] = f)[1]]]
                       ELSE file[f]]
      BY <1>11, <2>2 DEF Rename
    <3>2. CASE e \notin Sources(t)
      BY <1>5, <3>1, <3>2
    <3>3. CASE e \in Sources(t)
      <4>1. PICK p \in op[t].pairs : Entry[p[1]] = e
        BY <3>3 DEF Sources
      <4>2. Entry[p[2]] \in Targets(t) /\ Entry[p[2]] \in Entries /\ Entry[p[2]] \notin Sources(t)
        BY <1>2, <1>3 DEF Targets
      <4>3. (CHOOSE q \in op[t].pairs : Entry[q[2]] = Entry[p[2]]) = p
        BY <1>2
      <4> QED BY <3>1, <4>1, <4>2, <4>3
    <3> QED BY <3>2, <3>3
  <2> QED BY <2>1, <2>2
<1> QED BY <1>7, <1>8, <1>9, <1>10, <1>11

(* ... and transfers. *)
LEMMA TransferData ==
    ASSUME IInv, NEW t \in Tasks,
           Open(t) \/ Written(t) \/ Fails(t) \/ Remove(t) \/ Replace(t) \/ Drop(t)
    PROVE  DataKept'
<1>0. /\ TypeOK /\ NothingPromised /\ PartIsOwn /\ DataKept /\ OpOK(t) /\ kept \subseteq Data
      /\ None \notin Data /\ Cut \notin Data
      /\ file \in [Entries -> Contents] /\ part \in [Entries -> Contents]
  BY Marks DEF IInv, Inv, Keeping, TypeOK
<1>1. pc[t] \in Transfer
  BY DEF Open, Written, Fails, Remove, Replace, Drop, Transfer
<1>2. op[t].call \in Transfers /\ op[t].to \in Entries /\ op[t].data \in Data
  BY <1>0, <1>1, EntriesOf DEF OpOK
<1>3. op[t].clash => part[op[t].to] \notin kept /\ op[t].data \notin kept
  BY <1>0, <1>2 DEF NothingPromised
<1> DEFINE to == op[t].to
<1> SUFFICES ASSUME NEW d \in kept' PROVE \E e \in Entries : file'[e] = d \/ part'[e] = d
  BY DEF DataKept
<1>4. d \in kept => d \in Data /\ d # None /\ d # Cut /\ \E e \in Entries : file[e] = d \/ part[e] = d
  BY <1>0 DEF DataKept
<1>5. CASE Open(t)
  <2>1. d \in kept /\ d # part[to] /\ file' = file /\ part' = [part EXCEPT ![to] = Cut]
    BY <1>5 DEF Open
  <2> QED BY <1>0, <1>4, <2>1
<1>6. CASE Written(t) \/ Drop(t)
  <2>1. /\ kept' = kept /\ file' = file /\ pc[t] \in {"data", "drop"}
        /\ \A e \in Entries \ {to} : part'[e] = part[e]
    BY <1>0, <1>6 DEF Written, Drop
  <2>2. part[to] \notin kept
    BY <1>0, <1>3, <2>1 DEF PartIsOwn
  <2> QED BY <1>4, <2>1, <2>2
<1>7. CASE Fails(t)
  BY <1>4, <1>7 DEF Fails, disk
<1>8. CASE Remove(t)
  <2>1. /\ file' = [file EXCEPT ![to] = None] /\ part' = part /\ pc[t] = "remove"
        /\ (d \in kept /\ d # file[to]) \/ (~op[t].clash /\ d = op[t].data)
    BY <1>8 DEF Remove
  <2>2. CASE d \in kept /\ d # file[to]
    BY <1>0, <1>4, <2>1, <2>2
  <2>3. CASE ~op[t].clash /\ d = op[t].data
    <3>1. part[to] = d
      BY <1>0, <2>1, <2>3 DEF PartIsOwn
    <3> QED BY <1>2, <2>1, <3>1
  <2> QED BY <2>1, <2>2, <2>3
<1>9. CASE Replace(t)
  <2>1. kept' = kept
    BY <1>9 DEF Replace
  <2>2. PICK e \in Entries : file[e] = d \/ part[e] = d
    BY <1>4, <2>1
  <2>3. CASE file' = file /\ part' = part
    BY <2>2, <2>3
  <2>4. CASE ~(file' = file /\ part' = part)
    <3>1. /\ file[to] = None
          /\ file' = [file EXCEPT ![to] = IF part[to] = Cut THEN Bad(t) ELSE part[to]]
          /\ part' = [part EXCEPT ![to] = None]
      BY <1>9, <2>4 DEF Replace
    <3>2. CASE e # to
      BY <1>0, <2>2, <3>1, <3>2
    <3>3. CASE e = to
      <4>1. part[to] = d /\ d # Cut
        BY <1>4, <2>1, <2>2, <3>1, <3>3
      <4>2. file'[to] = d
        BY <1>0, <1>2, <3>1, <4>1
      <4> QED BY <1>2, <4>2
    <3> QED BY <3>2, <3>3
  <2> QED BY <2>3, <2>4
<1> QED BY <1>5, <1>6, <1>7, <1>8, <1>9

LEMMA KeepsData ==
    ASSUME Apart, IInv, NEW t \in Tasks, TaskStep(t)
    PROVE  DataKept'
<1>1. CASE Lock(t) \/ Unlock(t) \/ AllCopied(t) \/ AllDeleted(t) \/ Check(t)
  <2>1. file' = file /\ part' = part /\ kept' = kept
    BY <1>1 DEF Lock, Unlock, AllCopied, AllDeleted, Check, disk
  <2> QED BY <2>1 DEF IInv, Keeping, DataKept
<1> QED BY <1>1, TreeData, TransferData DEF TaskStep

LEMMA TaskKeepsKeeping ==
    ASSUME Apart, TwoTasks, IInv, NEW t \in Tasks, TaskStep(t)
    PROVE  Keeping'
<1>1. TypeOK /\ Control(t) /\ Touches(t) /\ Carries(t) /\ TypeOK'
  BY TaskControl, TaskTouches, TaskCarries, TaskTypes DEF IInv, Inv
<1>2. NothingPromised'
  BY <1>1, KeepsPromise
<1>3. Fresh'
  BY <1>1, KeepsFresh
<1>4. CopyingKept'
  BY <1>1, KeepsCopying
<1>5. \A u \in Tasks : Both(u)'
  BY <1>1, OthersBoth, OwnBoth
<1>6. DataKept'
  BY KeepsData
<1> QED BY <1>2, <1>3, <1>4, <1>5, <1>6 DEF Keeping, AtBothEnds, Both

(* An operation begins: with what is nowhere else, and of what it meets      *)
(* nothing is kept any more.                                                *)
LEMMA BeginsKeeping ==
    ASSUME IInv, NEW t \in Tasks, Begins(t), TypeOK'
    PROVE  Keeping'
<1>0. /\ TypeOK /\ NothingPromised /\ Fresh /\ CopyingKept /\ DataKept
      /\ \A u \in Tasks : Both(u)
      /\ kept' \subseteq kept /\ file' = file /\ part' = part
  BY DEF IInv, Inv, Keeping, Begins, AtBothEnds, Both
<1>1. ASSUME NEW u \in Tasks \ {t}
      PROVE  /\ pc'[u] = pc[u] /\ op'[u].call = op[u].call /\ op'[u].pairs = op[u].pairs
             /\ op'[u].left = op[u].left /\ op'[u].to = op[u].to /\ op'[u].data = op[u].data
             /\ op[u].clash => op'[u].clash
             /\ Of(op'[u]) = Of(op[u])
             /\ Meet(t, u)' =>
                  /\ \A e \in Of(op'[t]) \cup Of(op[u]) :
                       file[e] \notin kept' /\ part[e] \notin kept'
                  /\ op[u].data \notin kept'
             /\ ~Meet(t, u)' => op'[u] = op[u]
  BY DEF Begins
<1>2. pc'[t] \notin {"copy", "copying", "delete"}
  BY DEF Begins
<1>3. DataKept'
  BY <1>0 DEF DataKept
<1>4. op'[t].call \in Transfers =>
        op'[t].data \in Data \ InUse /\ op'[t].to \in Entries /\ op'[t].to \in Of(op'[t])
  BY FilesAssumption DEF Begins, Of
<1>5. CopyingKept'
  <2>1. ASSUME NEW u \in Tasks, pc'[u] = "copying"
        PROVE  /\ pc[u] = "copying" /\ op'[u].to = op[u].to /\ op'[u].data = op[u].data
               /\ op'[u].pairs = op[u].pairs /\ op'[u].left = op[u].left
    BY <1>1, <1>2, <2>1
  <2> QED BY <1>0, <2>1 DEF CopyingKept
<1>6. ASSUME NEW u \in Tasks PROVE Both(u)'
  BY <1>0, <1>1, <1>2 DEF Both
<1>7. ASSUME NEW u \in Tasks, NEW v \in Tasks, Meet(u, v)', NEW e \in Of(op'[u])
      PROVE  file[e] \notin kept'
  <2>1. CASE u = t
    BY <1>1, <1>7, <2>1 DEF Meet
  <2>2. CASE v = t /\ u # t
    <3>1. Meet(t, u)'
      BY <1>7, <2>2 DEF Meet
    <3> QED BY <1>1, <1>7, <2>2, <3>1
  <2>3. CASE u # t /\ v # t
    <3>1. Meet(u, v) /\ Of(op'[u]) = Of(op[u])
      BY <1>1, <1>7, <2>3 DEF Meet
    <3> QED BY <1>0, <1>7, <3>1 DEF NothingPromised
  <2> QED BY <2>1, <2>2, <2>3
<1>8. ASSUME NEW u \in Tasks, op'[u].call \in Transfers, op'[u].clash
      PROVE  part[op'[u].to] \notin kept' /\ op'[u].data \notin kept'
  <2>1. CASE u = t
    <3>1. PICK v \in Tasks \ {t} : Meet(t, v)'
      BY <1>8, <2>1 DEF Begins
    <3>2. op'[t].data \notin kept
      BY <1>0, <1>4, <1>8, <2>1 DEF DataKept, InUse
    <3> QED BY <1>0, <1>1, <1>4, <1>8, <2>1, <3>1, <3>2
  <2>2. CASE u # t /\ Meet(t, u)'
    <3>1. op[u].to \in Of(op[u])
      BY <1>0, <1>1, <1>8, <2>2, ToOf
    <3> QED BY <1>1, <2>2, <3>1
  <2>3. CASE u # t /\ ~Meet(t, u)'
    BY <1>0, <1>1, <1>8, <2>3 DEF NothingPromised
  <2> QED BY <2>1, <2>2, <2>3
<1>9. ASSUME NEW u \in Tasks, op'[u].call \in Transfers, ~op'[u].clash
      PROVE  /\ \A e \in Entries : file[e] # op'[u].data
                                     /\ (part[e] = op'[u].data => e = op'[u].to)
             /\ \A v \in Tasks \ {u} : op'[v].data # op'[u].data
  <2>1. CASE u = t
    BY <1>1, <1>4, <1>9, <2>1 DEF InUse
  <2>2. CASE u # t
    <3>1. /\ op[u].call \in Transfers /\ ~op[u].clash /\ op[u].data \in Data
          /\ op'[u].data = op[u].data /\ op'[u].to = op[u].to
      BY <1>0, <1>1, <1>9, <2>2, ToOf
    <3>2. op'[t].data # op[u].data
      BY <1>4, <3>1, Marks DEF Begins, InUse
    <3>3. ASSUME NEW v \in Tasks \ {u} PROVE op'[v].data # op[u].data
      BY <1>0, <1>1, <3>1, <3>2 DEF Fresh
    <3> QED BY <1>0, <3>1, <3>3 DEF Fresh
  <2> QED BY <2>1, <2>2
<1>10. NothingPromised'
  BY <1>0, <1>7, <1>8 DEF NothingPromised
<1>11. Fresh'
  BY <1>0, <1>9 DEF Fresh
<1> QED BY <1>3, <1>5, <1>6, <1>10, <1>11 DEF Keeping, AtBothEnds, Both

(* With nothing going on, there is only the disk.                            *)
LEMMA IdleKeeping ==
    ASSUME \A t \in Tasks : pc[t] = "idle" /\ op[t] = NoOp, DataKept
    PROVE  Keeping
<1>1. \A t \in Tasks : pc[t] = "idle" /\ op[t].call \notin Transfers /\ op[t].call = None
  BY NoOpIs, FilesAssumption DEF Transfers
<1> QED
  BY <1>1 DEF Keeping, NothingPromised, Fresh, CopyingKept, AtBothEnds, Meet

LEMMA InitKeeping == Init => Keeping
<1> SUFFICES ASSUME Init PROVE Keeping
  OBVIOUS
<1>1. DataKept
  BY DEF Init, DataKept
<1>2. \A t \in Tasks : pc[t] = "idle" /\ op[t] = NoOp
  BY DEF Init
<1> QED BY <1>1, <1>2, IdleKeeping

(* A reset ends what went on; what is kept is none of what it cuts.          *)
LEMMA ResetKeeping == IInv /\ Reset => Keeping'
<1> SUFFICES ASSUME IInv, Reset PROVE Keeping'
  OBVIOUS
<1>1. DataKept /\ kept \subseteq Data /\ kept' = kept
  BY DEF IInv, Inv, Keeping, TypeOK, Reset
<1>2. DataKept'
  BY <1>1, Marks DEF DataKept, Reset, AfterReset
<1>3. \A t \in Tasks : pc'[t] = "idle" /\ op'[t].call \notin Transfers /\ op'[t].call = None
  BY NoOpIs, FilesAssumption DEF Reset, Transfers
<1> QED
  BY <1>2, <1>3 DEF Keeping, NothingPromised, Fresh, CopyingKept, AtBothEnds, Meet

LEMMA NextKeeping == ASSUME Apart, TwoTasks PROVE IInv /\ [Next]_vars => IInv'
<1> SUFFICES ASSUME IInv, [Next]_vars PROVE Keeping'
  BY NextInv DEF IInv
<1>1. ASSUME NEW t \in Tasks, NEW ow \in BOOLEAN,
             \/ \E c \in Calls[t], tree \in Trees : CallTree(t, c, tree, ow)
             \/ \E c \in Calls[t], n \in Dests, d \in Data : CallTransfer(t, c, n, ow, d)
      PROVE  Keeping'
  BY <1>1, CallBegins, BeginsKeeping DEF IInv, Inv
<1>2. CASE UNCHANGED vars
  BY <1>2 DEF vars, disk, IInv, Keeping, NothingPromised, Meet, Fresh, CopyingKept, AtBothEnds,
     DataKept
<1> QED BY <1>1, <1>2, TaskKeepsKeeping, ResetKeeping DEF Next

(* Of Vim's task and the web server's, whatever they do at once and wherever *)
(* the power fails, neither loses a file that nobody deleted or replaced     *)
(* (copy_or_move(), esp_fs_delete(), esp_fs_finish_part()).                  *)
THEOREM KeptOnTheDisk == ASSUME Apart, TwoTasks PROVE Spec => []DataKept
<1>1. Init => IInv
  BY InitInv, InitKeeping DEF IInv
<1>2. IInv /\ [Next]_vars => IInv'
  BY NextKeeping
<1>3. IInv => DataKept
  BY DEF IInv, Keeping
<1> QED BY <1>1, <1>2, <1>3, PTL DEF Spec

(* What a copy reads is not what it truncates (copy_file()), where names that *)
(* differ are files that differ: the guard compares names, so that without    *)
(* Apart two spellings of one name are enough to lose the source.             *)
THEOREM SourcesStay == ASSUME Apart PROVE Spec => CopyKeepsSource
<1>1. Inv /\ [Next]_vars => [\A t \in Tasks : pc[t] = "copy" /\ pc'[t] = "copying" =>
                                 \A e \in Sources(t) : file'[e] = file[e]]_vars
  <2> SUFFICES ASSUME Inv, Next, NEW t \in Tasks, pc[t] = "copy", pc'[t] = "copying",
                      NEW e \in Sources(t)
               PROVE  file'[e] = file[e]
    OBVIOUS
  <2>0. /\ TypeOK /\ file \in [Entries -> Contents]
        /\ pc \in [Tasks -> Held \cup Transfer \cup {"idle", "lock"}]
    BY DEF Inv, TypeOK
  <2>1. ASSUME NEW u \in Tasks, TaskStep(u) PROVE u = t
    BY <2>0, <2>1, TaskControl DEF Control, OthersStay
  <2>2. ASSUME NEW u \in Tasks, Begins(u) PROVE FALSE
    BY <2>2 DEF Begins
  <2>3. ~Reset
    BY DEF Reset
  <2>4. TaskStep(t)
    BY <2>0, <2>1, <2>2, <2>3, CallBegins DEF Next
  <2>5. PICK p \in op[t].left : CopyOpen(t, p)
    BY <2>0, <2>4 DEF TaskStep, Lock, Unlock, Stat, Rename, Delete, CopyDone, CopyFails, AllCopied,
       AllDeleted, Check, Open, Written, Fails, Remove, Replace, Drop, Goes, Ends
  <2>6. /\ op[t].left \subseteq op[t].pairs /\ op[t].pairs \in Trees
    BY <2>0 DEF TypeOK, OpOK, Held
  <2>7. Entry[p[2]] # e
    BY <2>6 DEF Apart, Sources
  <2>8. file' = [file EXCEPT ![Entry[p[2]]] = Cut]
    BY <2>0, <2>5 DEF CopyOpen, Goes
  <2> QED BY <2>0, <2>7, <2>8, EntriesOf
<1> QED BY <1>1, Invariance, PTL DEF CopyKeepsSource, Spec
=============================================================================
