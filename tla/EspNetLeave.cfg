\* Leaving while the event loop rejoins
SPECIFICATION Spec
CONSTANTS
    Nets = {home}
    None = None
    MaxEvents = 2
INVARIANTS
    OffUntilConnect
