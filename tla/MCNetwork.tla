------------------------------ MODULE MCNetwork ------------------------------
(***************************************************************************)
(* WiFi, and what the network is for: SFTP and SCP, the web interface, the   *)
(* clock, and the dates its chip keeps.  They share no variable, so one run  *)
(* takes them in turn: part, chosen at the start, says which one moves.      *)
(***************************************************************************)
EXTENDS EspNet

CONSTANTS
    Hosts, Keys,                                            \* EspSsh
    Browsers, Passwords, Settings, MaxSessions, MaxCert,    \* EspWeb
    Callers,                                                \* EspTime
    FirstYear, LastYear                                     \* EspCalendar

(* What EspSsh and EspWeb take None for: no key, no request.                *)
Requests == [at : {"login", "open", "put", "flag"}, of : Browsers, with : Passwords \cup Settings]
ASSUME NetworkAssumption == None \notin Keys /\ None \notin Requests

VARIABLES
    part,
    server, known, sess, name, file, gone, accepted,                            \* EspSsh
    pw, cert, key, saved, changed, sessions, wait, serving, req, vim,           \* EspWeb
    clock, source, rtc, ntp, running, pc, was, answering, pending, failed,      \* EspTime
    y, m, d, days, chip                                                         \* EspCalendar

Ssh == INSTANCE EspSsh
Web == INSTANCE EspWeb WITH running <- serving, stored <- saved
Time == INSTANCE EspTime
Calendar == INSTANCE EspCalendar

(* The dates are ones a chip can keep, or gives as ones not to be believed. *)
ASSUME DatesAreKept == Calendar!CalendarAssumption

sshVars == <<server, known, sess, name, file, gone, accepted>>
webVars == <<pw, cert, key, saved, changed, sessions, wait, serving, req, vim>>
timeVars == <<clock, source, rtc, ntp, running, pc, was, answering, pending, failed>>
calendarVars == <<y, m, d, days, chip>>
services == <<sshVars, webVars, timeVars, calendarVars>>
allVars == <<part, vars, services>>

AllInit ==
    /\ part \in {"wifi", "ssh", "web", "time", "calendar"}
    /\ Init /\ Ssh!Init /\ Web!Init /\ Time!Init /\ Calendar!Init
    /\ part = "wifi" \/ (stored = None /\ ~configured)
    /\ part = "ssh" \/ server = [h \in Hosts |-> CHOOSE k \in Keys : TRUE]
    /\ part = "web" \/ saved = CHOOSE s \in Settings : TRUE
    /\ part = "calendar" \/ y = FirstYear

Moves(who) == part = who /\ UNCHANGED part

AllNext ==
    \/ Moves("wifi") /\ Next /\ UNCHANGED services
    \/ Moves("ssh") /\ Ssh!Next /\ UNCHANGED <<vars, webVars, timeVars, calendarVars>>
    \/ Moves("web") /\ Web!Next /\ UNCHANGED <<vars, sshVars, timeVars, calendarVars>>
    \/ Moves("time") /\ Time!Next /\ UNCHANGED <<vars, sshVars, webVars, calendarVars>>
    \/ Moves("calendar") /\ Calendar!Next /\ UNCHANGED <<vars, sshVars, webVars, timeVars>>

(* EspNet's fairness, of the run that is its own.                           *)
AllSpec ==
    /\ AllInit /\ [][AllNext]_allVars
    /\ WF_vars(Moves("wifi") /\ EventStep)
    /\ WF_vars(Moves("wifi") /\ VimStep)
    /\ WF_vars(Moves("wifi") /\ StartStep)

-----------------------------------------------------------------------------
(* Of EspSsh: the session that calls go through is the one of the host they
   name, by a key the user accepted.                                        *)
SessionIsWhoItSays == part = "ssh" => Ssh!SessionIsWhoItSays

(* Of EspWeb: with no word on its way, Vim has the settings that are stored. *)
SettingsReachVim == part = "web" => Web!SettingsReachVim

(* Of EspTime: the client runs if NTP is on, and not if it is off.          *)
RunsAsSet == part = "time" => Time!RunsAsSet

(* Of EspCalendar: the chip gives the day it was written, or one that is not
   believed.                                                                *)
RtcKeepsTheDate == part = "calendar" => Calendar!RtcKeepsTheDate
=============================================================================
