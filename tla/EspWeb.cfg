\* A browser that saves settings, sessions of Vim that end while the server runs
SPECIFICATION Spec
CONSTANTS
    Browsers = {"b1"}
    Passwords = {"p1"}
    Settings = {"s1", "s2"}
    MaxSessions = 1
    MaxCert = 1
    None = None
PROPERTIES
    SavedIsApplied
CHECK_DEADLOCK FALSE
