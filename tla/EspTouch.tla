------------------------------- MODULE EspTouch -------------------------------
(***************************************************************************)
(* How a touch is turned to the picture: esp_touch/esp_touch.c's turn, the  *)
(* board's or the user's, and the picture's own turn on the panel.          *)
(***************************************************************************)
EXTENDS EspGeometry

CONSTANTS
    Width, Height,  \* the picture: Height is a multiple of 4, Width of 2
    Fonts,          \* [width, height, maxCols]
    None            \* nothing saved

VARIABLES
    rot,        \* how the board's panel is mounted
    follows,    \* the axes its controller reverses
    flip,       \* s_flip
    ready,      \* s_ready: the controller answered
    turn, kept  \* s_turn; NVS's, if any

vars == <<rot, follows, flip, ready, turn, kept>>

(* follow_reversal() of the Kconfig's turn.                                 *)
boardTurn == FollowReversal({"swap", "my"}, follows)

(* esp_touch_set_turn(): in use at once; its keeping may fail.              *)
SetTurn(t) ==
    /\ ready /\ turn' = t /\ kept' \in {t, kept}
    /\ UNCHANGED <<rot, follows, flip, ready>>

(* esp_touch_reset_turn(): a failure to forget it is not told.              *)
ResetTurn ==
    /\ ready /\ turn' = boardTurn /\ kept' \in {None, kept}
    /\ UNCHANGED <<rot, follows, flip, ready>>

SetFlip ==
    /\ flip' = ~flip /\ UNCHANGED <<rot, follows, ready, turn, kept>>

(* load_turn(): the saved turn, else the board's.                           *)
Load == IF kept = None THEN boardTurn ELSE kept

Init ==
    /\ rot \in {0, 90, 180, 270} /\ follows \in SUBSET {"driver", "sensor", "x2y"}
    /\ flip = FALSE /\ kept = None /\ ready = FALSE /\ turn = {}

(* esp_touch_init(): the controller looked for at either address, what its
   configuration says followed, the turn loaded; or no touch at all.        *)
Boot ==
    /\ \/ ready' = TRUE /\ turn' = Load
       \/ ready' = FALSE /\ turn' = {}
    /\ UNCHANGED <<rot, follows, flip, kept>>

Next == ResetTurn \/ SetFlip \/ Boot \/ \E t \in Turns : SetTurn(t)

Spec == Init /\ [][Next]_vars

-----------------------------------------------------------------------------
(* Panels of one board whose controllers reverse their axes differently are
   touched alike, as long as the user has set no turn.                      *)
PanelsAgree ==
    ready /\ kept = None /\ turn = boardTurn =>
        \A p \in Points(Height, Width) :
            Turned(turn, Width, Height, Reported(follows, Height, Width, p)) =
                Turned({"swap", "my"}, Width, Height, p)

(* What is flushed is what was drawn: the rectangle of the panel is the
   pixels drawn turned, and no two pixels share a bit of the frame buffer.  *)
NothingElseIsDrawn ==
    /\ \A a, b \in Points(Width, Height) :
        a[1] <= b[1] /\ a[2] <= b[2] =>
            RectToNative(rot, Width, Height, a, b) =
                {ToNative(rot, Width, Height, p) : p \in (a[1] .. b[1]) \X (a[2] .. b[2])}
    /\ \A p, q \in Points(Width, Height) :
        FbBit(flip, Width, Height, p) = FbBit(flip, Width, Height, q) => p = q

(* On the panel that is drawn turned, what is drawn at a place of the panel
   is what a touch there is taken for, any way up; and a pixel of a cell is
   taken for the cell.                                                      *)
SeenIsTouched ==
    \A p \in Points(Width, Height) :
        LET native == ToNative(Rotation(rot, flip), Width, Height, p)
        IN /\ Unflip(flip, Width, Height, ToLogical(rot, Width, Height, native)) = p
           /\ \A f \in Fonts : LET g == GridOf(f, Width, Height) IN
                \A row \in 0 .. g.rows - 1, col \in 0 .. g.cols - 1 :
                    p \in CellPixels(g, row, col) => CellAt(g, p) = <<row + 1, col + 1>>

(* A touch is where the finger is (esp_board_rotate.h, esp_touch.c's turns,
   esp_display.c's flip and cells), whatever the panel, its turn and the font. *)
TouchIsWhereItIsDrawn == SeenIsTouched /\ NothingElseIsDrawn /\ PanelsAgree
=============================================================================
