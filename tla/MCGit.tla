------------------------------- MODULE MCGit -------------------------------
(***************************************************************************)
(* A repository that is collected, what the git commands do to its branches, *)
(* and how they log in.  They share no variable, so one run takes them in     *)
(* turn: part, chosen at the start, says which one moves.                    *)
(***************************************************************************)
EXTENDS EspGitGc, Sequences, TLC

CONSTANTS
    Branches, Contents, MaxCommits,     \* EspGit
    Ports, Keys                         \* EspGitAuth

(* Of EspGit: what is cloned has some file.                                 *)
ASSUME GitAssumption == \E x \in Contents : x # "none"

VARIABLES
    part,
    commits, tip, track, there, head, detached, index, work, conflicts, merge, rest,    \* EspGit
    url, stored, known, server, step, tries, err, sent, refused                    \* EspGitAuth

Git == INSTANCE EspGit WITH server <- there
Auth == INSTANCE EspGitAuth

gitVars == <<commits, tip, track, there, head, detached, index, work, conflicts, merge, rest>>
authVars == <<url, stored, known, server, step, tries, err, sent, refused>>
allVars == <<part, vars, gitVars, authVars>>

MCSymmetry == Permutations(Objects) \cup Permutations(Hashes)

(* Either two branches or as many commits as there may be.                  *)
MCFewer == Cardinality({b \in Branches : tip[b] # 0 \/ there[b] # 0}) + Len(commits) <= MaxCommits + 1

AllInit ==
    /\ part \in {"git", "auth", "gc"}
    /\ Init /\ Git!Init /\ Auth!Init
    /\ part = "git" \/ (head = (CHOOSE b \in Branches : TRUE) /\ commits = <<>>)
    /\ part = "auth" \/ server = [key |-> CHOOSE k \in Keys : TRUE, asks |-> {}, takes |-> {}]

Moves(who) == part = who /\ UNCHANGED part

AllNext ==
    \/ Moves("gc") /\ Next /\ UNCHANGED <<gitVars, authVars>>
    \/ Moves("git") /\ Git!Next /\ UNCHANGED <<vars, authVars>>
    \/ Moves("auth") /\ Auth!Next /\ UNCHANGED <<vars, gitVars>>

AllSpec == AllInit /\ [][AllNext]_allVars

-----------------------------------------------------------------------------
(* Of EspGitAuth: the key and the token go to a known server, and not again
   once refused.                                                            *)
SecretsAreKept == Auth!SecretsAreKept

(* Of EspGit: what is only in the working tree goes by the user's hand.     *)
WorkIsKept == [][Moves("git") => Git!KeepsWork]_gitVars

(* Of EspGit: a branch only grows.                                          *)
BranchesOnlyGrow == [][Moves("git") => Git!GrowsBranches]_gitVars
=============================================================================
