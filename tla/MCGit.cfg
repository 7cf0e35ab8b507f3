\* Two objects, packs of the same ones under two names, three packs at a time;
\* two branches, as many commits; one server at its port or another
SPECIFICATION AllSpec
CONSTANTS
    o1 = o1
    o2 = o2
    h1 = h1
    h2 = h2
    Objects = {o1, o2}
    Hashes = {h1, h2}
    MaxPacks = 3
    None = None
    Branches = {"main", "side"}
    Contents = {"a", "b"}
    MaxCommits = 3
    Ports = {22, 2222}
    Keys = {"k1", "k2"}
SYMMETRY MCSymmetry
CONSTRAINT MCFewer
INVARIANTS
    NothingLost
    SecretsAreKept
PROPERTIES
    WorkIsKept
    BranchesOnlyGrow
