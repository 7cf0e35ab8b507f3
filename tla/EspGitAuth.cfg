\* One server, at its port or another
SPECIFICATION Spec
CONSTANTS
    Ports = {22, 2222}
    Keys = {"k1", "k2"}
INVARIANTS
    FailsOnlyIfRefused
