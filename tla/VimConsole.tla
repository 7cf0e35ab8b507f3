------------------------------ MODULE VimConsole ------------------------------
(***************************************************************************)
(* The console as Vim's task sees it: vim/port/esp_shims.c's select(),       *)
(* read() and write(), vim/port/esp_busy.c's spinner, and how vim_task() of   *)
(* main/esp_vim_main.c sets them up.  Keys come from the serial port and,     *)
(* through the extra input, from the keyboards; the output goes to the        *)
(* serial port and, through the mirror, to the display.                      *)
(***************************************************************************)

VARIABLES
    display,    \* esp_display_active(), for as long as the device is on
    vim,        \* Vim's task: "gone", "works", "waits", or "stuck" in a read()
    serial, extra,  \* keys are pending there
    ready,      \* the last select() told of a key
    mirror,     \* s_output_mirror is set
    off,        \* s_console_off
    saved,      \* NVS: con_out
    shown,      \* s_shown: the spinner covers a cell
    long,       \* it is BUSY_AFTER_US since s_idle_end, and that is not 0
    unsaved     \* history: NVS did not take the last change

keys == <<serial, extra>>
output == <<mirror, off, saved, unsaved>>
spinner == <<shown, long>>
vars == <<display, vim, keys, ready, output, spinner>>

(* console_output_save()                                                    *)
Save(on) == saved' \in {on, saved} /\ unsaved' = (saved' # on)

(* Mistake: loaded before there is a mirror. *)
LoadFirst == off' = FALSE

(* esp_vim_console_output_load(), after the mirror.                         *)
Load == off' = (mirror' /\ ~saved)

(* vim_task(): everything of the port is as after power-on, then set up.    *)
Begin ==
    /\ vim = "gone" /\ vim' = "works" /\ ready' = FALSE
    /\ mirror' = display /\ Load
    /\ shown' = FALSE /\ long' = FALSE
    /\ UNCHANGED <<display, keys, saved, unsaved>>

(* select() with no time to wait: esp_vim_busy_poll(), and what is pending. *)
Poll ==
    /\ vim = "works" /\ ready' = (serial \/ extra) /\ shown' \in {shown, shown \/ long}
    /\ UNCHANGED <<display, vim, keys, output, long>>

(* select() with time: esp_vim_busy_idle() ...                              *)
Wait ==
    /\ vim = "works" /\ vim' = "waits" /\ ready' = FALSE
    /\ shown' = FALSE /\ long' = FALSE
    /\ UNCHANGED <<display, keys, output>>

(* ... until a key, of which select_with_extra() looks for the keyboards' in
   between, or the time is over; esp_vim_busy_wait_done().                  *)
WaitDone ==
    /\ vim = "waits" /\ vim' = "works"
    /\ ready' \in {FALSE, serial \/ extra}
    /\ UNCHANGED <<display, keys, output, spinner>>

BusyAfter ==
    /\ vim = "works" /\ long' = TRUE
    /\ UNCHANGED <<display, vim, keys, ready, output, shown>>

(* read(): the keyboards' keys first; one from the serial port switches its
   output on again.                                                         *)
Read ==
    /\ vim = "works" /\ ready /\ ready' = FALSE
    /\ IF extra THEN extra' = FALSE /\ UNCHANGED <<vim, serial, output>>
       ELSE IF ~serial THEN vim' = "stuck" /\ UNCHANGED <<serial, extra, output>>
       ELSE /\ serial' = FALSE /\ UNCHANGED <<vim, extra, mirror>>
            /\ IF off THEN off' = FALSE /\ Save(TRUE) ELSE UNCHANGED <<off, saved, unsaved>>
    /\ UNCHANGED <<display, spinner>>

(* esp_vim_set_console_output(): not off where the serial port is the only
   screen.                                                                  *)
SetOutput(on) ==
    /\ vim = "works" /\ (on \/ mirror) /\ off' = ~on /\ Save(on)
    /\ UNCHANGED <<display, vim, keys, ready, mirror, spinner>>

(* The session ends; what was typed meanwhile is flushed (VimSession).      *)
Quit ==
    /\ vim = "works" /\ vim' = "gone" /\ serial' = FALSE /\ extra' = FALSE
    /\ UNCHANGED <<display, ready, output, spinner>>

TypeKey ==
    /\ \/ serial' = TRUE /\ UNCHANGED extra
       \/ extra' = TRUE /\ UNCHANGED serial
    /\ UNCHANGED <<display, vim, ready, output, spinner>>

(* The device restarts, and its panel may not answer this time.             *)
Restart ==
    /\ display' \in BOOLEAN /\ vim' = "gone" /\ serial' = FALSE /\ extra' = FALSE
    /\ ready' = FALSE /\ mirror' = FALSE /\ off' = FALSE /\ shown' = FALSE /\ long' = FALSE
    /\ UNCHANGED <<saved, unsaved>>

Init ==
    /\ display \in BOOLEAN /\ vim = "gone" /\ serial = FALSE /\ extra = FALSE /\ ready = FALSE
    /\ mirror = FALSE /\ off = FALSE /\ saved = TRUE /\ unsaved = FALSE
    /\ shown = FALSE /\ long = FALSE

Next ==
    \/ Begin \/ Poll \/ Wait \/ WaitDone \/ BusyAfter \/ Read \/ Quit \/ TypeKey \/ Restart
    \/ \E on \in BOOLEAN : SetOutput(on)

Spec == Init /\ [][Next]_vars

-----------------------------------------------------------------------------
(* There is always a screen, and it is the one that was asked for, in this
   session and the next (":EspConsole off", esp_shims.c:844-850); Vim waits
   with no spinner over its text, and never in a read().                    *)
ConsoleIsUsable ==
    /\ vim # "gone" /\ off => mirror
    /\ vim # "gone" /\ mirror /\ ~unsaved => off = ~saved
    /\ vim = "waits" => ~shown
    /\ vim # "stuck"
=============================================================================
