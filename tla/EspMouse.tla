------------------------------- MODULE EspMouse -------------------------------
(***************************************************************************)
(* A finger on the panel as a mouse: touch_task() of esp_touch/esp_touch.c, *)
(* and esp_display_touch() of esp_display.c, while Vim asks for a mouse and *)
(* the pairing screen has not taken the handler.  What Vim is told goes into *)
(* the keyboards' queue, which has room for it or has not (esp_kbd_push()).  *)
(***************************************************************************)
CONSTANT None       \* no handler

VARIABLES
    pcT,        \* the touch task: "wait", "touching"
    handler,    \* s_handler: "terminal", "pairing", None while it is changed
    mouse,      \* s_mouse: Vim asks for reports
    gesture,    \* s_gesture
    \* history
    held,       \* what Vim takes the button for
    dropped,    \* the last release was, and Vim took the button for pressed
    disturbed   \* the handler or the mode changed in the middle of a touch

button == <<held, dropped>>
fingers == <<pcT, gesture, button>>
routes == <<handler, mouse>>
vars == <<fingers, routes, disturbed>>

-----------------------------------------------------------------------------
(* esp_display_touch() *)

Heard == handler = "terminal" /\ mouse
Gesture(g) == gesture' = g

(* mouse(): a report that finds no room, or not enough, is not Vim's.  A tap
   is a press and a release.                                                *)
Press   == held' \in {held, TRUE} /\ UNCHANGED dropped
Release == held' \in {FALSE, held} /\ dropped' = held'
Tap     == held' \in BOOLEAN /\ dropped' = held'

(* Where the reports do not go to Vim nothing is sent; without a mouse the
   gesture is forgotten as well.                                            *)
Unheard ==
    /\ Gesture(IF handler = "terminal" THEN "idle" ELSE gesture) /\ UNCHANGED button

Down ==
    /\ pcT = "wait" /\ pcT' = "touching"
    /\ IF Heard THEN Gesture("pending") /\ UNCHANGED button ELSE Unheard
    /\ UNCHANGED <<routes, disturbed>>

(* A touch not yet decided that is held, or moves sideways, becomes a drag,
   which presses the button; up or down at once, a turn of the wheel.       *)
Move ==
    /\ pcT = "touching" /\ pcT' = pcT
    /\ IF ~Heard THEN Unheard
       ELSE \/ Gesture(gesture) /\ UNCHANGED button
            \/ gesture = "pending" /\ Gesture("drag") /\ Press
            \/ gesture = "pending" /\ Gesture("scroll") /\ UNCHANGED button
    /\ UNCHANGED <<routes, disturbed>>

(* Mistake: a drag is not let go. *)
UpUnreleased ==
    /\ pcT = "touching" /\ pcT' = "wait"
    /\ IF ~Heard THEN Unheard
       ELSE Gesture("idle") /\ IF gesture = "pending" THEN Tap ELSE UNCHANGED button
    /\ disturbed' = (disturbed /\ held') /\ UNCHANGED routes

(* A tap, or the end of a drag or of a turn of the wheel.                   *)
Up ==
    /\ pcT = "touching" /\ pcT' = "wait"
    /\ IF ~Heard THEN Unheard
       ELSE /\ Gesture("idle")
            /\ CASE gesture = "pending" -> Tap
                 [] gesture = "drag" -> Release
                 [] OTHER -> UNCHANGED button
    /\ disturbed' = (disturbed /\ held') /\ UNCHANGED routes

(* esp_touch_set_handler(): nobody's for a moment.                          *)
SetHandler ==
    /\ handler' \in IF handler = None THEN {"pairing", "terminal"} ELSE {None}
    /\ disturbed' = (disturbed \/ pcT = "touching" \/ held)
    /\ UNCHANGED <<fingers, mouse>>

(* on_settermprop(): Vim asks for the mouse, or no longer.                  *)
SetMouse ==
    /\ mouse' = ~mouse /\ disturbed' = (disturbed \/ pcT = "touching" \/ held)
    /\ UNCHANGED <<fingers, handler>>

Init ==
    /\ pcT = "wait" /\ gesture = "idle" /\ held = FALSE
    /\ handler = "terminal" /\ mouse = FALSE
    /\ dropped = FALSE /\ disturbed = FALSE

Next == Down \/ Move \/ Up \/ SetHandler \/ SetMouse

Spec == Init /\ [][Next]_vars

-----------------------------------------------------------------------------
(* A button that Vim was told is pressed is released when the finger goes,
   unless the queue had no room for the release, or the touch was taken from
   it in the middle.                                                        *)
PressIsReleased == pcT = "wait" /\ held => disturbed \/ dropped
=============================================================================
