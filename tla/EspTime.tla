-------------------------------- MODULE EspTime --------------------------------
(***************************************************************************)
(* esp_time/esp_time.c: the clock and who sets it.  Vim's task and the web  *)
(* server's set it by hand, turn NTP on and off, and ask it once; its       *)
(* answers come on lwIP's task, and the timer task writes them to the RTC   *)
(* chip, which has the time after a power loss.  s_lock is held by one call  *)
(* at a time, but not while it waits for an answer.                         *)
(***************************************************************************)
CONSTANT Callers    \* the tasks that call: Vim's, the web server's

VARIABLES
    clock,      \* whose time the system has: "none", "rtc", "manual" or "ntp"
    source,     \* s_source: "", "rtc", "manual", "ntp"
    rtc,        \* whose time the chip has
    ntp,        \* s_ntp, and what NVS has of it
    running,    \* s_sntp_running
    pc, was,    \* each caller's place, and what it read of s_ntp or running
    answering,  \* lwIP has set the clock, and is about to call on_sync()
    pending,    \* rtc_write_now() is queued for the timer task
    failed      \* history: a start of the client failed

clocks == <<clock, source, rtc>>
client == <<ntp, running, failed>>
answer == <<answering, pending>>
vars == <<clocks, client, pc, was, answer>>

Goes(t, from, to) == pc[t] = from /\ pc' = [pc EXCEPT ![t] = to]

(* sntp_start(), sntp_stop()                                                *)
Start == running' \in {TRUE, running} /\ failed' = (failed \/ ~running')
Stop == running' = FALSE /\ UNCHANGED failed

-----------------------------------------------------------------------------
(* esp_time_set(), esp_time_set_local(): the clock, ... *)

SetClock(t) ==
    /\ Goes(t, "idle", "clock set") /\ clock' = "manual"
    /\ UNCHANGED <<source, rtc, client, was, answer>>

(* ... where it came from, ...                                              *)
SetSource(t) ==
    /\ Goes(t, "clock set", "source set") /\ source' = "manual"
    /\ UNCHANGED <<clock, rtc, client, was, answer>>

(* ... and the chip, which may not answer.                                  *)
SetRtc(t) ==
    /\ Goes(t, "source set", "idle") /\ rtc' \in {"manual", rtc}
    /\ UNCHANGED <<clock, source, client, was, answer>>

(* A new server alone: esp_time_status() for what NTP is now ...            *)
ReadNtp(t) ==
    /\ Goes(t, "idle", "server") /\ was' = [was EXCEPT ![t] = ntp]
    /\ UNCHANGED <<clocks, client, answer>>

(* ... and esp_time_set_ntp(), which starts the client again for it; or NTP
   turned on or off.                                                        *)
SetNtp(t) ==
    \E on \in BOOLEAN, from \in {"idle", "server"} :
        /\ Goes(t, from, "idle") /\ (from = "server" => on = was[t])
        /\ ntp' = on
        /\ IF on THEN IF from = "server" THEN running' \in BOOLEAN /\ failed' = (failed \/ ~running')
                      ELSE Start
           ELSE Stop
        /\ UNCHANGED <<clocks, was, answer>>

(* esp_time_sync() asks again, or starts the client ...                     *)
Ask(t) ==
    /\ Goes(t, "idle", "sync") /\ was' = [was EXCEPT ![t] = running]
    /\ Start
    /\ UNCHANGED <<clocks, ntp, answer>>

(* Mistake: NTP is not looked at again. *)
EndSyncAsItWas(t) ==
    /\ Goes(t, "sync", "idle")
    /\ IF ~was[t] THEN Stop ELSE UNCHANGED <<running, failed>>
    /\ UNCHANGED <<clocks, ntp, was, answer>>

(* ... and stops it, answered or not, if NTP is off by then.                *)
EndSync(t) ==
    /\ Goes(t, "sync", "idle")
    /\ IF ~was[t] /\ ~ntp THEN Stop ELSE UNCHANGED <<running, failed>>
    /\ UNCHANGED <<clocks, ntp, was, answer>>

Call(t) == \/ SetClock(t) \/ SetSource(t) \/ SetRtc(t) \/ ReadNtp(t) \/ SetNtp(t)
           \/ Ask(t) \/ EndSync(t)

-----------------------------------------------------------------------------
(* An answer: lwIP sets the clock, then calls back. *)

Answer ==
    /\ running /\ ~answering /\ answering' = TRUE /\ clock' = "ntp"
    /\ UNCHANGED <<source, rtc, client, pc, was, pending>>

(* on_sync()                                                                *)
OnSync ==
    /\ answering /\ answering' = FALSE /\ source' = "ntp" /\ pending' = TRUE
    /\ UNCHANGED <<clock, rtc, client, pc, was>>

(* rtc_write_now()                                                          *)
WriteRtc ==
    /\ pending /\ pending' = FALSE /\ rtc' \in {clock, rtc}
    /\ UNCHANGED <<clock, source, client, pc, was, answering>>

-----------------------------------------------------------------------------
(* esp_time_init(), after a power loss or another reset, which the clock and
   s_source survive; the chip may have lost its time as well.               *)
Boot ==
    \E lost \in {{}, {"clock"}, {"clock", "rtc"}} :
        /\ rtc' = IF "rtc" \in lost THEN "none" ELSE rtc
        /\ IF "clock" \in lost \/ clock = "none"
           THEN LET kept == IF rtc' = "none" THEN "none" ELSE "rtc" IN
                clock' = kept /\ source' = IF kept = "none" THEN "" ELSE "rtc"
           ELSE UNCHANGED <<clock, source>>
        /\ running' \in IF ntp THEN BOOLEAN ELSE {FALSE}
        /\ failed' = (ntp /\ ~running') /\ ntp' = ntp
        /\ pc' = [t \in Callers |-> "idle"] /\ was' = [t \in Callers |-> FALSE]
        /\ answering' = FALSE /\ pending' = FALSE

Init ==
    /\ clock = "none" /\ source = "" /\ rtc = "none" /\ ntp = TRUE
    /\ running = TRUE /\ failed = FALSE
    /\ pc = [t \in Callers |-> "idle"] /\ was = [t \in Callers |-> FALSE]
    /\ answering = FALSE /\ pending = FALSE

Next == Answer \/ OnSync \/ WriteRtc \/ Boot \/ \E t \in Callers : Call(t)

Spec == Init /\ [][Next]_vars

-----------------------------------------------------------------------------
TypeOK ==
    /\ {clock, rtc} \subseteq {"none", "rtc", "manual", "ntp"}
    /\ source \in {"", "rtc", "manual", "ntp"}
    /\ {ntp, running, answering, pending, failed} \subseteq BOOLEAN
    /\ pc \in [Callers -> {"idle", "clock set", "source set", "server", "sync"}]
    /\ was \in [Callers -> BOOLEAN]

(* Once no one waits for an answer, the client runs if NTP is on and not if
   it is off, however the calls of two tasks were interleaved: a sync that
   had to start it stops it only if NTP is still off then.                  *)
RunsAsSet ==
    (\A t \in Callers : pc[t] # "sync") =>
        (running => ntp) /\ (ntp /\ ~failed => running)
=============================================================================
