-------------------------------- MODULE EspGit --------------------------------
(***************************************************************************)
(* vim/api/esp_api_git.c: what the git commands do to a repository.  The     *)
(* working tree is one file; a commit is its content and what it descends    *)
(* from.  libgit2 does the work, and a command that makes several calls of    *)
(* it may be cut off between two, by an error or by the power.               *)
(***************************************************************************)
EXTENDS Naturals, Sequences, FiniteSets

CONSTANTS
    Branches,
    Contents,       \* of the file; "none": it is not there
    MaxCommits      \* bound: commits there are

VARIABLES
    commits,        \* each with what it descends from, itself included, and its tree
    tip, track, server, \* of each branch: here, refs/remotes/origin, there; 0 is none
    head,           \* the branch HEAD names, "none" when it is detached ...
    detached,       \* ... at this commit
    index, work,    \* the file
    conflicts,      \* in the index
    merge,          \* MERGE_HEAD
    rest            \* what a command has still to do

local == <<commits, tip, track, head, detached, index, work, conflicts, merge>>
vars == <<local, server, rest>>

Markers == "<<<<"   \* a file with conflict markers
Done == [what |-> "nothing", to |-> 0]
Idle == rest.what = "nothing"

HeadCommit == IF head = "none" THEN detached ELSE tip[head]
Tree(c) == IF c = 0 THEN "none" ELSE commits[c].tree
From(c) == IF c = 0 THEN {} ELSE commits[c].from
HeadTree == Tree(HeadCommit)

NewCommit(parents, t) ==
    Append(commits, [tree |-> t, from |-> (UNION {From(p) : p \in parents}) \cup {Len(commits) + 1}])

-----------------------------------------------------------------------------
(* esp_git_add(), esp_git_reset(), esp_git_restore() *)

Add ==
    /\ Idle /\ index' = work /\ conflicts' = FALSE
    /\ UNCHANGED <<commits, tip, track, server, head, detached, work, merge, rest>>

Reset ==
    /\ Idle /\ index' = HeadTree /\ conflicts' = FALSE
    /\ UNCHANGED <<commits, tip, track, server, head, detached, work, merge, rest>>

Restore ==
    /\ Idle /\ ~conflicts /\ work' = index
    /\ UNCHANGED <<commits, tip, track, server, head, detached, index, conflicts, merge, rest>>

(* The user edits the file.                                                 *)
Edit(t) ==
    /\ Idle /\ work' = t
    /\ UNCHANGED <<commits, tip, track, server, head, detached, index, conflicts, merge, rest>>

(* A commit of the index on HEAD; that of a merge has two parents.          *)
CommitTo(theirs) ==
    LET parents == {HeadCommit, theirs} \ {0} IN
    /\ Len(commits) < MaxCommits /\ commits' = NewCommit(parents, index')
    /\ IF head = "none" THEN detached' = Len(commits') /\ UNCHANGED tip
       ELSE tip' = [tip EXCEPT ![head] = Len(commits')] /\ UNCHANGED detached
    /\ rest' = IF theirs = 0 THEN Done ELSE [what |-> "cleanup", to |-> 0]

(* esp_git_commit(): a merge's too, whose state is then cleaned up.         *)
Commit ==
    /\ Idle /\ ~conflicts /\ (merge = 0 => HeadCommit = 0 \/ index # HeadTree)
    /\ UNCHANGED index /\ CommitTo(merge)
    /\ UNCHANGED <<track, server, head, work, conflicts, merge>>

Cleanup ==
    /\ rest.what = "cleanup" /\ rest' = Done /\ merge' = 0
    /\ UNCHANGED <<commits, tip, track, server, head, detached, index, work, conflicts>>

-----------------------------------------------------------------------------
(* Checkouts *)

(* Mistake: whatever is in the working tree. *)
SafeForced(t) == ~conflicts /\ work' = t

(* git_checkout_tree() with GIT_CHECKOUT_SAFE, from HEAD's tree: a file that
   changes must not have been changed here.                                 *)
Safe(t) ==
    /\ ~conflicts
    /\ \/ t = HeadTree /\ UNCHANGED work
       \/ t # HeadTree /\ work \in {HeadTree, t} /\ work' = t

CheckoutTree(t) == Safe(t) /\ index' = IF t = HeadTree THEN index ELSE t

(* esp_git_checkout(): of a branch here, or of one there, which is made here
   first; or of a commit.  Then HEAD is set.                                *)
Checkout(b) ==
    /\ Idle /\ (tip[b] # 0 \/ track[b] # 0)
    /\ LET at == IF tip[b] = 0 THEN track[b] ELSE tip[b] IN
        /\ tip' = [tip EXCEPT ![b] = at]
        /\ \/ CheckoutTree(Tree(at)) /\ rest' = [what |-> "head", to |-> b]
           \/ UNCHANGED <<work, index, rest>>
    /\ UNCHANGED <<commits, track, server, head, detached, conflicts, merge>>

SetHead ==
    /\ rest.what = "head" /\ rest' = Done /\ head' = rest.to /\ detached' = 0
    /\ UNCHANGED <<commits, tip, track, server, index, work, conflicts, merge>>

Detach(c) ==
    /\ Idle /\ CheckoutTree(Tree(c)) /\ head' = "none" /\ detached' = c
    /\ UNCHANGED <<commits, tip, track, server, conflicts, merge, rest>>

(* esp_git_branch()                                                         *)
Branch(b) ==
    /\ Idle
    /\ \/ tip[b] = 0 /\ tip' = [tip EXCEPT ![b] = HeadCommit]
       \/ b # head /\ tip' = [tip EXCEPT ![b] = 0]
    /\ UNCHANGED <<commits, track, server, head, detached, index, work, conflicts, merge, rest>>

-----------------------------------------------------------------------------
(* esp_git_fetch(), esp_git_pull(), esp_git_push() *)

Fetched == [b \in Branches |-> IF server[b] = 0 THEN track[b] ELSE server[b]]

Fetch ==
    /\ Idle /\ track' = Fetched
    /\ UNCHANGED <<commits, tip, server, head, detached, index, work, conflicts, merge, rest>>

Theirs == Fetched[head]
Pulls == Idle /\ head # "none" /\ track' = Fetched /\ Theirs # 0

UpToDate == Theirs \in From(HeadCommit)

(* Mistake: whenever there is something new. *)
FastForwardsAlways == ~UpToDate

FastForwards == ~UpToDate /\ HeadCommit \in From(Theirs) \cup {0}

(* The tree is checked out, then the branch is moved to it.                 *)
PullForward ==
    /\ Pulls /\ FastForwards
    /\ CheckoutTree(Tree(Theirs)) /\ rest' = [what |-> "move", to |-> Theirs]
    /\ UNCHANGED <<commits, tip, server, head, detached, conflicts, merge>>

Move ==
    /\ rest.what = "move" /\ rest' = Done /\ tip' = [tip EXCEPT ![head] = rest.to]
    /\ UNCHANGED <<commits, track, server, head, detached, index, work, conflicts, merge>>

(* The merge's result: of three contents, the one that was changed.         *)
Newest(set) == CHOOSE c \in set : \A x \in set : x <= c
Base == LET common == From(HeadCommit) \cap From(Theirs)
        IN IF common = {} THEN "none" ELSE Tree(Newest(common))
Merged ==
    CASE Tree(Theirs) \in {HeadTree, Base} -> HeadTree
      [] HeadTree = Base -> Tree(Theirs)
      [] OTHER -> Markers

(* git_merge(): nothing that it changes may be changed here.  What merges is
   committed at once, if it is known who commits.                           *)
PullMerge ==
    /\ Pulls /\ ~UpToDate /\ ~FastForwards /\ merge' = Theirs
    /\ Merged = HeadTree \/ {work, index} = {HeadTree}
    /\ work' = IF Merged = HeadTree THEN work ELSE Merged
    /\ IF Merged = Markers
       THEN conflicts' = TRUE /\ UNCHANGED <<commits, tip, detached, index, rest>>
       ELSE /\ index' = IF Merged = HeadTree THEN index ELSE Merged
            /\ UNCHANGED conflicts
            /\ \/ ~conflicts /\ CommitTo(Theirs)
               \/ UNCHANGED <<commits, tip, detached, rest>>
    /\ UNCHANGED <<server, head>>

(* Refused by the server unless it descends from what is there; an answer may
   be lost.                                                                 *)
Push ==
    /\ Idle /\ head # "none" /\ tip[head] # 0 /\ server[head] \in From(tip[head]) \cup {0}
    /\ server' = [server EXCEPT ![head] = tip[head]]
    /\ track' \in {track, [track EXCEPT ![head] = tip[head]]}
    /\ UNCHANGED <<commits, tip, head, detached, index, work, conflicts, merge, rest>>

(* Somebody else pushes a commit.                                           *)
Other(b, t) ==
    /\ Len(commits) < MaxCommits
    /\ commits' = NewCommit({server[b]} \ {0}, t) /\ server' = [server EXCEPT ![b] = Len(commits')]
    /\ UNCHANGED <<tip, track, head, detached, index, work, conflicts, merge, rest>>

(* An error or the power ends a command where it is.                        *)
Stop == ~Idle /\ rest' = Done /\ UNCHANGED <<local, server>>

(* esp_git_init(), or a clone of what somebody has.                         *)
Init ==
    \E b \in Branches, cloned \in BOOLEAN :
        LET there == [x \in Branches |-> IF x = b /\ cloned THEN 1 ELSE 0]
            t == IF cloned THEN CHOOSE x \in Contents : x # "none" ELSE "none" IN
        /\ commits = IF cloned THEN <<[tree |-> t, from |-> {1}]>> ELSE <<>>
        /\ tip = there /\ track = there /\ server = there /\ head = b /\ detached = 0
        /\ index = t /\ work = t /\ conflicts = FALSE /\ merge = 0 /\ rest = Done

Next ==
    \/ Add \/ Reset \/ Restore \/ Commit \/ Cleanup \/ SetHead \/ Fetch \/ PullForward \/ Move
    \/ PullMerge \/ Push \/ Stop
    \/ \E b \in Branches : Checkout(b) \/ Branch(b) \/ \E t \in Contents : Other(b, t)
    \/ \E t \in Contents : Edit(t)
    \/ \E c \in UNION {From(tip[b]) : b \in Branches} : Detach(c)

Spec == Init /\ [][Next]_vars

-----------------------------------------------------------------------------
(* What is nowhere but in the working tree goes by the user's hand alone, at
   whatever point a pull or a checkout fails ("Refuses to overwrite local
   changes", f_esp_git_checkout()).                                         *)
KeepsWork ==
    work' # work =>
        \/ \E c \in 1..Len(commits) : commits[c].tree = work
        \/ work = "none" \/ Restore \/ \E t \in Contents : Edit(t)

(* A branch only grows: a pull drops no commit that was made here.          *)
GrowsBranches ==
    \A b \in Branches : tip[b] # 0 /\ tip'[b] # 0 => tip[b] \in commits'[tip'[b]].from
=============================================================================
