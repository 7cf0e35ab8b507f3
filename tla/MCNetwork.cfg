\* Four tasks at WiFi, every flag they share, and restarts; two hosts; two
\* browsers, passwords and settings; two callers of the clock; a century
SPECIFICATION AllSpec
CONSTANTS
    Nets = {home, cafe}
    None = None
    MaxEvents = 2
    Hosts = {"h1", "h2"}
    Keys = {"k1", "k2"}
    Browsers = {"b1", "b2"}
    Passwords = {"p1", "p2"}
    Settings = {"s1", "s2"}
    MaxSessions = 2
    MaxCert = 2
    Callers = {"vim", "web"}
    FirstYear = 2025
    LastYear = 2124
INVARIANTS
    ForgottenAfterRestart
    JoinsWhatWasAsked
    SessionIsWhoItSays
    SettingsReachVim
    RunsAsSet
    RtcKeepsTheDate
PROPERTIES
    KeepsReconnecting
CHECK_DEADLOCK FALSE
