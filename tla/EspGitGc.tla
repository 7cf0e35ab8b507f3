------------------------------ MODULE EspGitGc ------------------------------
(***************************************************************************)
(* Garbage collection of a repository on the FAT card:                      *)
(* esp_git/esp_git.c's esp_git_gc(), over patch 0001's p_rename().          *)
(*                                                                         *)
(* Everything reachable goes into one new pack, then the loose objects it   *)
(* holds and the older packs it covers are deleted, file by file.  The      *)
(* power can go between any two files.                                      *)
(***************************************************************************)
EXTENDS Naturals, FiniteSets

CONSTANTS
    Objects,    \* commits, trees, blobs
    Hashes,     \* tell packs of the same objects apart
    MaxPacks,   \* bound: packs on the card, in parts or whole
    None        \* no pack

Packs == [objs : SUBSET Objects, hash : Hashes]

ASSUME GcAssumption == None \notin Packs /\ Hashes # {} /\ MaxPacks \in Nat

VARIABLES
    loose,      \* objects/xx/: one file each
    idx, pack,  \* objects/pack/: the packs whose .idx, whose .pack is there
    keep,       \* and those with a .keep
    tmp,        \* packs written whole, under a temporary name
    refs,       \* the objects reachable from refs/* and HEAD
    had,        \* every object the repository ever held
    unread,     \* of them, what went in packs that were deleted unread
    pc,         \* the step esp_git_gc() is at
    new,        \* its new pack
    entries,    \* what its walk of objects/xx/ has yet to read
    older,      \* what its walk of objects/pack/ has yet to read
    cur         \* the old pack it is deleting

card == <<loose, idx, pack, keep, tmp>>
vars == <<loose, idx, pack, keep, tmp, refs, had, unread, pc, new, entries, older, cur>>

\* The objects of some packs.
Held(ps) == UNION {p.objs : p \in ps}

\* What libgit2 can read: loose, or in a pack that has both its files.
Readable == loose \cup Held(idx \cap pack)

OnCard == Readable \cup Held(tmp)

Room(p) == Cardinality(idx \cup pack \cup tmp \cup {p}) <= MaxPacks

Init ==
    /\ loose = {} /\ idx = {} /\ pack = {} /\ keep = {} /\ tmp = {}
    /\ refs = {} /\ had = {} /\ unread = {}
    /\ pc = "idle" /\ new = None /\ entries = {} /\ older = {} /\ cur = None

----------------------------------------------------------------------------
(* What the other commands do to a repository, between two collections:     *)
(* all of it on Vim's task.                                                 *)

\* git add, commit, merge: libgit2 writes an object it does not have.
AddLoose(o) ==
    /\ pc = "idle" /\ o \notin Readable
    /\ loose' = loose \cup {o} /\ had' = had \cup {o} /\ unread' = unread \ {o}
    /\ UNCHANGED <<idx, pack, keep, tmp, refs, pc, new, entries, older, cur>>

\* clone, fetch, pull: a pack from another machine.
Fetch(p) ==
    /\ pc = "idle" /\ p.objs # {} /\ p \notin idx \cup pack /\ Room(p)
    /\ idx' = idx \cup {p} /\ pack' = pack \cup {p}
    /\ had' = had \cup p.objs /\ unread' = unread \ p.objs
    /\ UNCHANGED <<loose, keep, tmp, refs, pc, new, entries, older, cur>>

\* commit, reset, branch, checkout, pull.
Point(r) ==
    /\ pc = "idle" /\ r \subseteq Readable
    /\ refs' = r
    /\ UNCHANGED <<card, had, unread, pc, new, entries, older, cur>>

\* Somebody asks for a pack to be kept.
Keep(p) ==
    /\ pc = "idle" /\ p \in idx \cap pack
    /\ keep' = keep \cup {p}
    /\ UNCHANGED <<loose, idx, pack, tmp, refs, had, unread, pc, new, entries, older, cur>>

Use ==
    \/ \E o \in Objects : AddLoose(o)
    \/ \E p \in Packs : Fetch(p)
    \/ \E r \in SUBSET Objects : Point(r)
    \/ \E p \in Packs : Keep(p)

----------------------------------------------------------------------------
(* The new pack.  libgit2 writes it whole under a temporary name, then      *)
(* renames its index and it.  The name is a hash: collecting twice may well *)
(* give one that is there already.  Nothing reachable: nothing to do; an    *)
(* object missing, or the repository unreadable: an error, and nothing      *)
(* done.                                                                    *)
Start(h) ==
    LET p == [objs |-> refs, hash |-> h] IN
    /\ pc = "idle" /\ refs # {} /\ refs \subseteq Readable /\ Room(p)
    /\ tmp' = tmp \cup {p} /\ new' = p /\ pc' = "idx"
    /\ UNCHANGED <<loose, idx, pack, keep, refs, had, unread, entries, older, cur>>

\* p_rename() of the index: FAT refuses an existing target, which is removed
\* first.
RenameIdx ==
    /\ pc = "idx"
    /\ IF new \in idx THEN idx' = idx \ {new} /\ pc' = pc
                      ELSE idx' = idx \cup {new} /\ pc' = "pack"
    /\ UNCHANGED <<loose, pack, keep, tmp, refs, had, unread, new, entries, older, cur>>

\* And of the pack.
RenamePack ==
    /\ pc = "pack"
    /\ IF new \in pack
       THEN pack' = pack \ {new} /\ UNCHANGED <<tmp, pc>>
       ELSE pack' = pack \cup {new} /\ tmp' = tmp \ {new} /\ pc' = "open"
    /\ UNCHANGED <<loose, idx, keep, refs, had, unread, new, entries, older, cur>>

\* The target cannot be removed: it is open.  git_packbuilder_write() fails,
\* and libgit2 removes its temporary file.
WriteFails ==
    /\ \/ pc = "idx" /\ new \in idx
       \/ pc = "pack" /\ new \in pack
    /\ tmp' = tmp \ {new} /\ pc' = "idle" /\ new' = None
    /\ UNCHANGED <<loose, idx, pack, keep, refs, had, unread, entries, older, cur>>

----------------------------------------------------------------------------
(* The repository closed, the new pack is opened alone: what the deletions  *)
(* ask is whether an object is in it.                                       *)

\* pack_odb(), then opendir() of each of objects/xx/; or it cannot be read.
OpenNew ==
    /\ pc = "open"
    /\ \/ pc' = "loose" /\ entries' = loose /\ UNCHANGED new
       \/ pc' = "idle" /\ new' = None /\ UNCHANGED entries
    /\ UNCHANGED <<card, refs, had, unread, older, cur>>

\* One loose object: deleted if the new pack holds it.  unlink() may fail.
VisitLoose(o) ==
    /\ pc = "loose" /\ o \in entries
    /\ entries' = entries \ {o}
    /\ \/ o \in new.objs /\ loose' = loose \ {o}
       \/ UNCHANGED loose
    /\ UNCHANGED <<idx, pack, keep, tmp, refs, had, unread, pc, new, older, cur>>

\* opendir() of objects/pack/.
OpenPacks ==
    /\ pc = "loose" /\ entries = {}
    /\ pc' = "older" /\ older' = idx
    /\ UNCHANGED <<card, refs, had, unread, new, entries, cur>>

\* Mistake: one object of the old pack in the new one is enough.
RedundantIfOne(p, read) ==
    p # new /\ p \notin keep /\ p \in pack /\ (read => p.objs \cap new.objs # {})

\* Whether the walk deletes an old pack: not the new one, not one to keep,
\* and none of its objects was found not to be in the new one.  If its index
\* cannot be read none is: git_odb_foreach() fails, and nobody looks.
Redundant(p, read) ==
    p # new /\ p \notin keep /\ p \in pack /\ (read => p.objs \subseteq new.objs)

VisitOlder(p) ==
    /\ pc = "older" /\ p \in older
    /\ older' = older \ {p}
    /\ \E read \in BOOLEAN :
         IF Redundant(p, read)
         THEN /\ pc' = "unlink" /\ cur' = p /\ (idx' = idx \ {p} \/ idx' = idx)
              /\ unread' = IF read THEN unread ELSE unread \cup (p.objs \ new.objs)
         ELSE UNCHANGED <<pc, cur, idx, unread>>
    /\ UNCHANGED <<loose, pack, keep, tmp, refs, had, new, entries>>

\* The .pack after the .idx.
UnlinkPack ==
    /\ pc = "unlink"
    /\ pack' = pack \ {cur} \/ pack' = pack
    /\ pc' = "older" /\ cur' = None
    /\ UNCHANGED <<loose, idx, keep, tmp, refs, had, unread, new, entries, older>>

Done ==
    /\ pc = "older" /\ older = {}
    /\ pc' = "idle" /\ new' = None
    /\ UNCHANGED <<card, refs, had, unread, entries, older, cur>>

\* The power goes: what is on the card stays.
Reset ==
    /\ pc # "idle"
    /\ pc' = "idle" /\ new' = None /\ entries' = {} /\ older' = {} /\ cur' = None
    /\ UNCHANGED <<card, refs, had, unread>>

Collect ==
    \/ \E h \in Hashes : Start(h)
    \/ RenameIdx \/ RenamePack \/ WriteFails
    \/ OpenNew
    \/ \E o \in Objects : VisitLoose(o)
    \/ OpenPacks
    \/ \E p \in Packs : VisitOlder(p)
    \/ UnlinkPack
    \/ Done

Next == Use \/ Collect \/ Reset

Spec == Init /\ [][Next]_vars

----------------------------------------------------------------------------
(* Properties                                                              *)

(* The type of the state, and where the collector's variables have values.  *)
TypeOK ==
    /\ loose \subseteq Objects /\ refs \subseteq Objects /\ had \subseteq Objects
    /\ unread \subseteq Objects
    /\ idx \subseteq Packs /\ pack \subseteq Packs /\ keep \subseteq Packs /\ tmp \subseteq Packs
    /\ pc \in {"idle", "idx", "pack", "open", "loose", "older", "unlink"}
    /\ new \in Packs \cup {None} /\ (new = None <=> pc = "idle")
    /\ cur \in Packs \cup {None} /\ (cur # None <=> pc = "unlink")
    /\ entries \subseteq Objects /\ (entries # {} => pc = "loose")
    /\ older \subseteq Packs /\ (older # {} => pc \in {"older", "unlink"})

(* Wherever the power goes, every object the repository ever held is on the *)
(* card: in a file libgit2 reads or, if a pack of the new one's name was    *)
(* being replaced, whole in a temporary file.  All but those of an old pack  *)
(* whose index could not be read when it was compared: it goes unread.      *)
NothingLost == had \subseteq OnCard \cup unread

(* The deletions hide nothing, even for a moment: what libgit2 could read   *)
(* it can still read after every step but the removal, in p_rename(), of a  *)
(* pack or an index of the new one's name, and of an old pack gone unread.   *)
DeletesOnlyCopies ==
    [][Readable \subseteq Readable' \cup unread' \/ (pc \in {"idx", "pack"} /\ pc' = pc)]_vars

(* A pack somebody asked to keep is not deleted, covered or not, nor is a   *)
(* loose object that nothing refers to: esp_git.h:59-60.                    *)
LeavesTheRest ==
    [][/\ loose \ loose' \subseteq refs
       /\ \A p \in keep : pc \in {"older", "unlink"} =>
            (p \in idx => p \in idx') /\ (p \in pack => p \in pack')]_vars
=============================================================================
