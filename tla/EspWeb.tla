-------------------------------- MODULE EspWeb --------------------------------
(***************************************************************************)
(* esp_web/esp_web.c with autoload/esp/web.vim: the web interface.  The      *)
(* server's task takes one request at a time; Vim's task starts and stops    *)
(* it, sets the password, and once a second looks for settings the browser   *)
(* saved.  A session of Vim may end while the server runs on.                *)
(***************************************************************************)
EXTENDS Naturals, Sequences, SequencesExt

CONSTANTS
    Browsers,       \* each with the cookie of its last login
    Passwords, Settings,
    MaxSessions,    \* MAX_SESSIONS
    MaxCert,        \* how many certificates are made
    None

VARIABLES
    pw,             \* NVS: the password
    cert, key,      \* NVS: which certificate, and which key
    stored,         \* NVS: the settings
    changed,        \* s_settings_changed
    sessions,       \* s_sessions, the one idle longest first
    wait,           \* s_next_login_us is still to come
    running,        \* s_server
    req,            \* the request the server is at
    vim             \* Vim's task: where it is, s:timer, the settings it applied

vars == <<pw, cert, key, stored, changed, sessions, wait, running, req, vim>>
nvs == <<pw, cert, key, stored>>

-----------------------------------------------------------------------------
(* Sessions *)

Held(c) == {i \in 1..Len(sessions) : sessions[i].of = c}
Without(c) == SelectSeq(sessions, LAMBDA s : s.of # c)
Fresh(c) == \E i \in Held(c) : ~sessions[i].stale
Logged(c) == [of |-> c, stale |-> FALSE]

(* h_login(): a free slot, else the one idle longest.  The browser's own last
   session stays in its slot, with no cookie for it any more.               *)
WithLogin(c) ==
    LET left == [i \in 1..Len(sessions) |->
                    IF sessions[i].of = c THEN [sessions[i] EXCEPT !.of = None] ELSE sessions[i]]
    IN Append(IF Len(left) = MaxSessions THEN Tail(left) ELSE left, Logged(c))

(* require_session(), session_of(): refreshed, or cleared if it was idle for
   an hour.                                                                 *)
Gate(c) == sessions' = IF Fresh(c) THEN Append(Without(c), Logged(c)) ELSE Without(c)

-----------------------------------------------------------------------------
(* The server's task: one request after the other *)

Free == running /\ req = None

(* h_login(): refused while the last failures are waited for.               *)
Login(c, p) ==
    /\ Free /\ ~wait
    /\ req' = [at |-> "login", of |-> c, with |-> p]
    /\ UNCHANGED <<nvs, changed, sessions, wait, running, vim>>

(* password_ok(): slow, and by what NVS has when it is read.                *)
CheckPassword ==
    /\ req # None /\ req.at = "login"
    /\ IF req.with = pw THEN req' = [req EXCEPT !.at = "open"] /\ UNCHANGED wait
       ELSE req' = None /\ wait' = TRUE
    /\ UNCHANGED <<nvs, changed, sessions, running, vim>>

OpenSession ==
    /\ req # None /\ req.at = "open"
    /\ sessions' = WithLogin(req.of) /\ wait' = FALSE /\ req' = None
    /\ UNCHANGED <<nvs, changed, running, vim>>

(* h_logout()                                                               *)
Logout(c) ==
    /\ Free /\ sessions' = Without(c)
    /\ UNCHANGED <<nvs, changed, wait, running, req, vim>>

(* h_list(), h_download(), h_upload(), h_mkdir(), h_delete(), h_move(), h_time(),
   h_status(), h_session(): for a session; what they do is EspFiles, EspTime. *)
Request(c) ==
    /\ Free /\ Gate(c)
    /\ UNCHANGED <<nvs, changed, wait, running, req, vim>>

(* h_settings(), POST: the settings are stored, then Vim's task is told.    *)
PostSettings(c, s) ==
    /\ Free /\ Gate(c)
    /\ req' = IF Fresh(c) THEN [at |-> "put", of |-> c, with |-> s] ELSE req
    /\ UNCHANGED <<nvs, changed, wait, running, vim>>

PutSettings ==
    /\ req # None /\ req.at = "put"
    /\ \/ stored' = req.with /\ req' = [req EXCEPT !.at = "flag"]
       \/ UNCHANGED stored /\ req' = None
    /\ UNCHANGED <<pw, cert, key, changed, sessions, wait, running, vim>>

FlagSettings ==
    /\ req # None /\ req.at = "flag"
    /\ changed' = TRUE /\ req' = None
    /\ UNCHANGED <<nvs, sessions, wait, running, vim>>

-----------------------------------------------------------------------------
(* Vim's task *)

At(place) == vim.at = place
Goes(place) == vim' = [vim EXCEPT !.at = place]

(* esp_web_set_password(): stored, then every session is cleared.           *)
SetPassword(p) ==
    /\ At("ready") /\ pw' = p /\ Goes("clear")
    /\ UNCHANGED <<cert, key, stored, changed, sessions, wait, running, req>>

ClearSessions ==
    /\ At("clear") /\ sessions' = <<>> /\ Goes("ready")
    /\ UNCHANGED <<nvs, changed, wait, running, req>>

(* esp#web#Start(), esp_web_start(), load_cert(): not while it runs.  What
   cannot be read, for want of memory too, is made anew: first one, then the
   other is stored, and either may fail.                                    *)
Start ==
    /\ At("ready") /\ ~running /\ pw # None
    /\ \/ cert # 0 /\ key # 0 /\ Goes("serve") /\ UNCHANGED cert
       \/ cert < MaxCert /\ cert' = cert + 1 /\ Goes("key")
       \/ UNCHANGED <<vim, cert>>
    /\ UNCHANGED <<pw, key, stored, changed, sessions, wait, running, req>>

StoreKey ==
    /\ At("key")
    /\ \/ key' = cert /\ Goes("serve")
       \/ UNCHANGED key /\ Goes("ready")
    /\ UNCHANGED <<pw, cert, stored, changed, sessions, wait, running, req>>

(* httpd_ssl_start(), then s:timer                                          *)
Serve ==
    /\ At("serve")
    /\ \/ running' = TRUE /\ vim' = [vim EXCEPT !.at = "ready", !.timer = TRUE]
       \/ UNCHANGED running /\ Goes("ready")
    /\ UNCHANGED <<nvs, changed, sessions, wait, req>>

(* esp#web#Stop(), esp_web_stop(): when the server's task has done with its
   request.                                                                 *)
Stop ==
    /\ At("ready") /\ req = None
    /\ running' = FALSE /\ sessions' = <<>> /\ vim' = [vim EXCEPT !.timer = FALSE]
    /\ UNCHANGED <<nvs, changed, wait, req>>

(* s:Tick(), esp_web_settings_changed(), esp#web#ApplySettings()             *)
Tick ==
    /\ At("ready") /\ vim.timer /\ changed
    /\ changed' = FALSE /\ Goes("apply")
    /\ UNCHANGED <<nvs, sessions, wait, running, req>>

(* esp_settings()                                                           *)
Apply ==
    /\ At("apply")
    /\ vim' = [vim EXCEPT !.at = "ready", !.applied = stored]
    /\ UNCHANGED <<nvs, changed, sessions, wait, running, req>>

(* Mistake: a session begins with Vim's own settings. *)
BeginUnapplied ==
    /\ At("down") /\ Goes("ready")
    /\ UNCHANGED <<nvs, changed, sessions, wait, running, req>>

(* A session of Vim ends, its timers with it; the next applies, at VimEnter,
   what is stored.                                                          *)
Quit ==
    /\ At("ready") /\ vim' = [vim EXCEPT !.at = "down", !.timer = FALSE]
    /\ UNCHANGED <<nvs, changed, sessions, wait, running, req>>

Begin ==
    /\ At("down") /\ vim' = [vim EXCEPT !.at = "ready", !.applied = stored]
    /\ UNCHANGED <<nvs, changed, sessions, wait, running, req>>

-----------------------------------------------------------------------------
(* Time passes: the back-off is over, or an hour since every session's use.  *)
Pass ==
    /\ wait' = FALSE
    /\ sessions' \in {sessions, [i \in 1..Len(sessions) |-> [sessions[i] EXCEPT !.stale = TRUE]]}
    /\ UNCHANGED <<nvs, changed, running, req, vim>>

(* The device restarts: only NVS stays.                                     *)
Reset ==
    /\ running' = FALSE /\ sessions' = <<>> /\ changed' = FALSE /\ wait' = FALSE
    /\ req' = None /\ vim' = [vim EXCEPT !.at = "down", !.timer = FALSE]
    /\ UNCHANGED nvs

Init ==
    /\ pw = None /\ cert = 0 /\ key = 0 /\ stored \in Settings /\ changed = FALSE
    /\ sessions = <<>> /\ wait = FALSE /\ running = FALSE /\ req = None
    /\ vim = [at |-> "down", timer |-> FALSE, applied |-> stored]

Server ==
    \/ CheckPassword \/ OpenSession \/ PutSettings \/ FlagSettings
    \/ \E c \in Browsers :
        \/ \E p \in Passwords : Login(c, p)
        \/ Logout(c) \/ Request(c)
        \/ \E s \in Settings : PostSettings(c, s)

Vim ==
    \/ \E p \in Passwords : SetPassword(p)
    \/ ClearSessions \/ Start \/ StoreKey \/ Serve \/ Stop \/ Tick \/ Apply \/ Quit \/ Begin

Next == Server \/ Vim \/ Pass \/ Reset

Spec ==
    /\ Init /\ [][Next]_vars
    /\ WF_vars(Tick) /\ WF_vars(Apply)
    /\ WF_vars(PutSettings) /\ WF_vars(FlagSettings)

-----------------------------------------------------------------------------
(* s_settings_changed is set once they are stored and cleared before they are
   read: with no word on its way, Vim has what is stored.                   *)
SettingsReachVim ==
    (At("ready") /\ vim.timer /\ ~changed /\ (req = None \/ req.at # "flag"))
        => vim.applied = stored

(* "While the server runs, a once-a-second timer ... applies settings the
   browser saved" (web.vim)                                                 *)
SavedIsApplied ==
    (running /\ vim.at # "down" /\ vim.applied # stored)
        ~> (vim.applied = stored \/ vim.at = "down" \/ ~running)
=============================================================================
