----------------------------- MODULE EspDisplay -----------------------------
(***************************************************************************)
(* esp_display/esp_display.c: the terminal on the panel.                    *)
(*                                                                         *)
(* Vim's task writes to a stream and asks for a font or for the picture to  *)
(* be turned over; the pairing screen's task puts an overlay over the       *)
(* terminal; the power task puts the panel to rest.  All of them leave a    *)
(* request in a variable for the display task, which looks at each in turn  *)
(* every 100 ms.  The panel is what each row of the grid shows: "current",   *)
(* what libvterm has there, in the font and the way up that are in use;     *)
(* "old", the terminal as it was; or something else.                        *)
(***************************************************************************)
EXTENDS Integers

CONSTANTS
    NRows,      \* rows of the grid; the badge is in the last one
    None        \* no sleep

Rows == 1 .. NRows

VARIABLES
    stream,     \* s_stream: the rows of what waits in it
    dirty,      \* s_dirty_lo, s_dirty_hi: the rows damaged
    panel,      \* what each row shows
    flipReq, fontReq, sleepReq,     \* s_flip_req and s_font_req, set or not; s_sleep_req
    fontDone, sleepDone, resume,    \* the binary semaphores
    overlay, repaint, parked,       \* s_overlay, s_repaint, s_parked
    lit,        \* the backlight
    locked,     \* s_panel_locked, by the display task while it turns the picture
    pcD, req,   \* the display task's place, the sleep it has taken
    pcV,        \* Vim's task: "run", or "font" inside esp_display_set_font()
    pcO,        \* the pairing screen's: "none", "up", "ending"
    pcP         \* the power task's: "awake", the sleep it asks for, "asleep", "off"

requests == <<flipReq, fontReq, sleepReq, fontDone, sleepDone, resume>>
flags == <<overlay, repaint, parked>>
display == <<dirty, pcD, req>>
callers == <<pcV, pcO, pcP>>
vars == <<stream, panel, requests, flags, lit, locked, display, callers>>

-----------------------------------------------------------------------------
(* Drawing *)

(* on_damage(): these rows are to be drawn again.                           *)
Damage(rows) == dirty' = dirty \cup rows

(* What they show is no longer what it should be.                           *)
Outdated(rows) ==
    [r \in Rows |-> IF r \in rows /\ panel[r] = "current" THEN "old" ELSE panel[r]]

(* paint_damage(): the damaged rows, as they are now.                       *)
Paint(rows) == [r \in Rows |-> IF r \in rows THEN "current" ELSE panel[r]]

Everywhere(picture) == [r \in Rows |-> picture]

-----------------------------------------------------------------------------
(* display_task() *)

Goes(place) == pcD' = place
At(place) == pcD = place

(* All that waits in the stream, so that a burst is painted once.           *)
Receive ==
    /\ At("receive") /\ Goes("flip") /\ stream' = {} /\ Damage(stream)
    /\ panel' = Outdated(stream)
    /\ UNCHANGED <<requests, flags, lit, locked, req, callers>>

(* apply_flip(), if it was asked for.                                       *)
ApplyFlip ==
    /\ At("flip") /\ Goes(IF flipReq THEN "flipped" ELSE "font")
    /\ locked' = flipReq /\ panel' = IF flipReq THEN Outdated(Rows) ELSE panel
    /\ UNCHANGED <<stream, dirty, requests, flags, lit, req, callers>>

(* Only then is it no longer asked for: what Vim asked meanwhile is lost.   *)
Flipped ==
    /\ At("flipped") /\ Goes("font") /\ flipReq' = FALSE /\ locked' = FALSE
    /\ repaint' = TRUE
    /\ UNCHANGED <<stream, dirty, panel, fontReq, sleepReq, fontDone, sleepDone, resume,
                   overlay, parked, lit, req, callers>>

(* use_font(): another grid, and what was damaged is forgotten, for all of
   it is to be painted.                                                     *)
UseFont ==
    /\ At("font") /\ Goes("sleep") /\ fontReq' = FALSE
    /\ fontDone' = (fontDone \/ fontReq) /\ repaint' = (repaint \/ fontReq)
    /\ IF fontReq THEN dirty' = {} /\ panel' = Outdated(Rows) ELSE UNCHANGED <<dirty, panel>>
    /\ UNCHANGED <<stream, flipReq, sleepReq, sleepDone, resume, overlay, parked, lit,
                   locked, req, callers>>

TakeSleep ==
    /\ At("sleep") /\ Goes(IF sleepReq = None THEN "look" ELSE "rest")
    /\ req' = sleepReq /\ sleepReq' = None
    /\ UNCHANGED <<stream, dirty, panel, flipReq, fontReq, fontDone, sleepDone, resume,
                   flags, lit, locked, callers>>

(* go_to_sleep() up to its telling the caller: what is damaged, the badge in
   the corner or the sleep screen, the backlight off.                       *)
Rest ==
    /\ At("rest") /\ Goes(IF req = "deep" THEN "stopped" ELSE "parked")
    /\ panel' = IF req = "deep" THEN Everywhere("sleep screen")
                ELSE IF overlay THEN panel
                ELSE [Paint(dirty) EXCEPT ![NRows] = "badge"]
    /\ dirty' = IF overlay THEN dirty ELSE {}
    /\ lit' = FALSE /\ parked' = TRUE /\ sleepDone' = TRUE
    /\ UNCHANGED <<stream, flipReq, fontReq, sleepReq, fontDone, resume, overlay, repaint,
                   locked, req, callers>>

(* Mistake: the badge stays. *)
ResumeUnpainted ==
    /\ At("parked") /\ resume /\ Goes("look") /\ resume' = FALSE
    /\ parked' = FALSE /\ lit' = TRUE /\ req' = None
    /\ UNCHANGED <<stream, dirty, panel, flipReq, fontReq, sleepReq, fontDone, sleepDone,
                   overlay, repaint, locked, callers>>

(* ... and from esp_display_wake() on.                                      *)
Resume ==
    /\ At("parked") /\ resume /\ Goes("look") /\ resume' = FALSE
    /\ parked' = FALSE /\ lit' = TRUE /\ repaint' = TRUE /\ req' = None
    /\ UNCHANGED <<stream, dirty, panel, flipReq, fontReq, sleepReq, fontDone, sleepDone,
                   overlay, locked, callers>>

(* The overlay is looked for before the panel's lock is taken.              *)
Look ==
    /\ At("look") /\ Goes(IF overlay THEN "receive" ELSE "paint")
    /\ UNCHANGED <<stream, dirty, panel, requests, flags, lit, locked, req, callers>>

PaintTerminal ==
    /\ At("paint") /\ Goes("receive") /\ repaint' = FALSE /\ dirty' = {}
    /\ panel' = Paint(IF repaint THEN Rows ELSE dirty)
    /\ UNCHANGED <<stream, requests, overlay, parked, lit, locked, req, callers>>

DisplayTask == \/ Receive \/ ApplyFlip \/ Flipped \/ UseFont \/ TakeSleep
               \/ Rest \/ Resume \/ Look \/ PaintTerminal

-----------------------------------------------------------------------------
(* Vim's task *)

(* esp_display_write()                                                      *)
Write(r) ==
    /\ pcV = "run" /\ stream' = stream \cup {r}
    /\ UNCHANGED <<display, panel, requests, flags, lit, locked, callers>>

(* esp_display_set_flip()                                                   *)
SetFlip ==
    /\ pcV = "run" /\ flipReq' = TRUE
    /\ UNCHANGED <<stream, display, panel, fontReq, sleepReq, fontDone, sleepDone,
                   resume, flags, lit, locked, callers>>

(* esp_display_set_font() asks ...                                          *)
SetFont ==
    /\ pcV = "run" /\ fontDone' = FALSE /\ fontReq' = TRUE /\ pcV' = "font"
    /\ UNCHANGED <<stream, display, panel, flipReq, sleepReq, sleepDone, resume, flags,
                   lit, locked, pcO, pcP>>

(* ... and waits for it, or for two seconds: the display task is at rest.   *)
FontSet ==
    /\ pcV = "font" /\ (fontDone \/ parked)
    /\ fontDone' = FALSE /\ pcV' = "run"
    /\ UNCHANGED <<stream, display, panel, flipReq, fontReq, sleepReq, sleepDone, resume,
                   flags, lit, locked, pcO, pcP>>

Vim == SetFlip \/ SetFont \/ FontSet \/ \E r \in Rows : Write(r)

-----------------------------------------------------------------------------
(* The pairing screen's task *)

(* esp_display_overlay_begin()                                              *)
OverlayBegin ==
    /\ pcO = "none" /\ ~locked /\ pcO' = "up" /\ overlay' = TRUE /\ panel' = Everywhere("overlay")
    /\ UNCHANGED <<stream, display, requests, repaint, parked, lit, locked, pcV,
                   pcP>>

(* esp_display_overlay_text(), esp_display_overlay_clear()                  *)
OverlayDraw(r) ==
    /\ pcO = "up" /\ ~locked /\ panel' = [panel EXCEPT ![r] = "overlay"]
    /\ UNCHANGED <<stream, display, requests, flags, lit, locked, callers>>

(* esp_display_overlay_end(), which takes no lock.                          *)
OverlayEnd ==
    /\ pcO = "up" /\ pcO' = "ending" /\ repaint' = TRUE
    /\ UNCHANGED <<stream, display, panel, requests, overlay, parked, lit, locked, pcV,
                   pcP>>

OverlayEnded ==
    /\ pcO = "ending" /\ pcO' = "none" /\ overlay' = FALSE
    /\ UNCHANGED <<stream, display, panel, requests, repaint, parked, lit, locked, pcV,
                   pcP>>

Pairing == \/ OverlayBegin \/ OverlayEnd \/ OverlayEnded
           \/ \E r \in Rows : OverlayDraw(r)

-----------------------------------------------------------------------------
(* The power task *)

(* Mistake: a display at rest already is not woken to take the request. *)
AskSleepParked(kind) ==
    /\ pcP = "awake" \/ (pcP = "asleep" /\ kind = "deep")
    /\ pcP' = kind /\ sleepDone' = FALSE /\ sleepReq' = kind
    /\ UNCHANGED <<stream, display, panel, flipReq, fontReq, fontDone, resume, flags,
                   lit, locked, pcV, pcO>>

(* esp_display_sleep(): from a light sleep to a deep one as well.           *)
AskSleep(kind) ==
    /\ pcP = "awake" \/ (pcP = "asleep" /\ kind = "deep")
    /\ pcP' = kind /\ sleepDone' = FALSE /\ sleepReq' = kind
    /\ resume' = (resume \/ parked)
    /\ UNCHANGED <<stream, display, panel, flipReq, fontReq, fontDone, flags, lit,
                   locked, pcV, pcO>>

Asleep ==
    /\ pcP \in {"light", "deep"} /\ sleepDone /\ sleepDone' = FALSE
    /\ pcP' = IF pcP = "deep" THEN "off" ELSE "asleep"
    /\ UNCHANGED <<stream, display, panel, flipReq, fontReq, sleepReq, fontDone, resume,
                   flags, lit, locked, pcV, pcO>>

(* esp_display_wake()                                                       *)
Wake ==
    /\ pcP = "asleep" /\ pcP' = "awake" /\ resume' = TRUE
    /\ UNCHANGED <<stream, display, panel, flipReq, fontReq, sleepReq, fontDone,
                   sleepDone, flags, lit, locked, pcV, pcO>>

Power == Asleep \/ Wake \/ \E kind \in {"light", "deep"} : AskSleep(kind)

(* esp_display_init(): the pins let go, the panel set up as NVS has it,
   cleared, and the blank screen painted once.                              *)
Init ==
    /\ stream = {} /\ dirty = {} /\ panel = Everywhere("current")
    /\ flipReq = FALSE /\ fontReq = FALSE /\ sleepReq = None
    /\ fontDone = FALSE /\ sleepDone = FALSE /\ resume = FALSE
    /\ overlay = FALSE /\ repaint = FALSE /\ parked = FALSE
    /\ lit = TRUE /\ locked = FALSE /\ pcD = "receive" /\ req = None
    /\ pcV = "run" /\ pcO = "none" /\ pcP = "awake"

(* A deep sleep ends with a start from scratch.                             *)
Boot ==
    /\ pcP = "off"
    /\ stream' = {} /\ dirty' = {} /\ panel' = Everywhere("current")
    /\ flipReq' = FALSE /\ fontReq' = FALSE /\ sleepReq' = None
    /\ fontDone' = FALSE /\ sleepDone' = FALSE /\ resume' = FALSE
    /\ overlay' = FALSE /\ repaint' = FALSE /\ parked' = FALSE
    /\ lit' = TRUE /\ locked' = FALSE /\ pcD' = "receive" /\ req' = None
    /\ pcV' = "run" /\ pcO' = "none" /\ pcP' = "awake"

Next == DisplayTask \/ Vim \/ Pairing \/ Power \/ Boot

(* The display task looks at everything every 100 ms, and the chip starts
   again.                                                                   *)
Fairness == WF_vars(DisplayTask) /\ WF_vars(Asleep) /\ WF_vars(Boot)

Spec == Init /\ [][Next]_vars /\ Fairness

-----------------------------------------------------------------------------
Settled ==
    /\ pcD = "receive" /\ stream = {} /\ dirty = {} /\ ~repaint /\ ~overlay
    /\ ~flipReq /\ ~fontReq /\ sleepReq = None

(* Nothing is left behind on the panel -- no badge, no overlay, no row in
   the last font or the wrong way up -- once the display task has nothing
   more to do: it knows of every row that it must draw again.               *)
ShowsTheTerminal == Settled => panel = Everywhere("current")

(* A sleep that is asked for comes, a deep one after a light one too, though
   the display task waits then; and the display is not left at rest, its
   backlight off, once it was woken.                                        *)
RestsAndReturns ==
    /\ []<>(pcP \notin {"light", "deep"})
    /\ []<>(lit \/ pcP # "awake")
=============================================================================
