\* Every path a URL can have that is a home or a root, and others
SPECIFICATION Spec
CONSTANTS
    Hosts = {"h1"}
    Keys = {"k1"}
    None = None
INVARIANTS
    RefusesHome
CHECK_DEADLOCK FALSE
