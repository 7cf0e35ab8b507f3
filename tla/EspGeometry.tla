----------------------------- MODULE EspGeometry -----------------------------
(***************************************************************************)
(* Where a pixel of the picture is on the panel, and where a touch of the   *)
(* panel is on the picture: esp_board/include/esp_board_rotate.h, the       *)
(* drawing of esp_display.c and the turns of esp_touch.c, as functions.     *)
(* A point is <<x, y>>; a picture is w by h.                                *)
(***************************************************************************)
EXTENDS Integers

Points(w, h) == (0 .. w - 1) \X (0 .. h - 1)
Mirror(n, on, v) == IF on THEN n - 1 - v ELSE v
Within(n, v) == IF v < 0 THEN 0 ELSE IF v >= n THEN n - 1 ELSE v

(* esp_board_rot_to_native()                                                *)
ToNative(rot, w, h, p) ==
    CASE rot = 90  -> <<h - 1 - p[2], p[1]>>
      [] rot = 180 -> <<w - 1 - p[1], h - 1 - p[2]>>
      [] rot = 270 -> <<p[2], w - 1 - p[1]>>
      [] OTHER     -> p

(* esp_board_rot_to_logical()                                               *)
ToLogical(rot, w, h, n) ==
    CASE rot = 90  -> <<n[2], h - 1 - n[1]>>
      [] rot = 180 -> <<w - 1 - n[1], h - 1 - n[2]>>
      [] rot = 270 -> <<w - 1 - n[2], n[1]>>
      [] OTHER     -> n

(* esp_board_rot_rect(): the corners a and b of a rectangle, b within it.   *)
RectToNative(rot, w, h, a, b) ==
    LET na == ToNative(rot, w, h, a)
        nb == ToNative(rot, w, h, b)
        Side(i) == IF na[i] < nb[i] THEN na[i] .. nb[i] ELSE nb[i] .. na[i]
    IN Side(1) \X Side(2)

(* rotation(): the configured turn, and upside down.                        *)
Rotation(rot, flip) == (rot + (IF flip THEN 180 ELSE 0)) % 360

(* fb_set(): the byte and the bit of a pixel of the monochrome panel, whose
   own picture is portrait, four pixels across and two down to a byte.      *)
FbBit(flip, w, h, p) ==
    LET q == <<Mirror(w, flip, p[1]), Mirror(h, flip, p[2])>>
        n == IF w > h THEN <<h - 1 - q[2], q[1]>> ELSE q
        across == IF w > h THEN h ELSE w
    IN <<(n[2] \div 2) * (across \div 4) + n[1] \div 4, 2 * (n[1] % 4) + (n[2] % 2)>>

(* unflip()                                                                 *)
Unflip(flip, w, h, p) == <<Mirror(w, flip, p[1]), Mirror(h, flip, p[2])>>

-----------------------------------------------------------------------------
(* use_font(), font_cols(): the grid a font gives, centred.                 *)

GridOf(f, w, h) ==
    LET fit == w \div f.width
        cols == IF f.maxCols # 0 /\ fit > f.maxCols THEN f.maxCols ELSE fit
        rows == h \div f.height
    IN [cols |-> cols, rows |-> rows, width |-> f.width, height |-> f.height,
        x0 |-> (w - cols * f.width) \div 2, y0 |-> (h - rows * f.height) \div 2]

(* paint_cells(): the pixels of a cell, counted from 0.                     *)
CellPixels(g, row, col) ==
    (g.x0 + col * g.width .. g.x0 + (col + 1) * g.width - 1) \X
    (g.y0 + row * g.height .. g.y0 + (row + 1) * g.height - 1)

(* Mistake: the margins forgotten. *)
CellAtNoMargin(g, p) == <<p[2] \div g.height + 1, p[1] \div g.width + 1>>

(* cell_at(): the nearest cell, counted from 1.                             *)
CellAt(g, p) ==
    <<Within(g.rows, (p[2] - g.y0) \div g.height) + 1,
      Within(g.cols, (p[1] - g.x0) \div g.width) + 1>>

-----------------------------------------------------------------------------
(* A turn is the set of its bits: "swap", "mx", "my".                       *)

Turns == SUBSET {"swap", "mx", "my"}
Toggle(s, b) == IF b \in s THEN s \ {b} ELSE s \cup {b}

(* read_point(): a point of the controller's, turned to the screen, w by h.
   (The scale of a controller that counts in steps of its own is left out.) *)
Turned(t, w, h, p) ==
    LET s == IF "swap" \in t THEN <<p[2], p[1]>> ELSE p
    IN <<Within(w, Mirror(w, "mx" \in t, s[1])), Within(h, Mirror(h, "my" \in t, s[2]))>>

(* follow_reversal(): the board's turn for a panel that reverses d of its
   axes otherwise than the one the turn was made for.                       *)
FollowReversal(t, d) ==
    LET first == IF "swap" \in t THEN "my" ELSE "mx"
        second == IF "swap" \in t THEN "mx" ELSE "my"
        driver == IF "driver" \in d THEN Toggle(t, first) ELSE t
        sensor == IF "sensor" \in d THEN Toggle(driver, second) ELSE driver
    IN IF "x2y" \in d THEN Toggle(sensor, "swap") ELSE sensor

(* What such a panel reports, whose own size is w by h, where the other
   reports p.                                                               *)
Reported(d, w, h, p) ==
    LET q == <<Mirror(w, "driver" \in d, p[1]), Mirror(h, "sensor" \in d, p[2])>>
    IN IF "x2y" \in d THEN <<q[2], q[1]>> ELSE q
=============================================================================
