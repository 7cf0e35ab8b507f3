------------------------------ MODULE EspPairUi ------------------------------
(***************************************************************************)
(* esp_pairui/esp_pairui.c: the screen that comes up over the terminal when *)
(* there is no keyboard.  Three tasks: the one that draws, which takes taps *)
(* and finished scans from one queue; the touch task, which puts the taps   *)
(* there; the scanner, which puts the scans there.  What a tap means is     *)
(* found out when it is taken, from the list as it is then; what the user   *)
(* reads, the list as it was last drawn.                                    *)
(***************************************************************************)
EXTENDS Integers, Sequences, SequencesExt

CONSTANTS
    Kbds,       \* Bluetooth keyboards
    MaxKbd,     \* MAX_KBD
    QueueCap,   \* the queue's 8
    None        \* no keyboard, and what nobody is promised

VARIABLES
    list, sel,  \* s_kbd with s_bonded and s_away; s_sel, 0 for none
    drawn,      \* what the button says: draw_list() draws it last
    at,         \* the task: "loop", or what it has yet to do before it is there again
    queue,      \* s_taps
    scanning,   \* s_scan_wanted
    shown, dismissed,
    busy,       \* the call to esp_ble_kbd it is in: pairing or unpairing
    bonds,      \* esp_ble's
    keyboard,   \* one is connected, or on a wire
    place,      \* the touch task: where a finger went down, or Nowhere
    wrong       \* history: a button did something else than it said

screen == <<list, sel>>
status == <<shown, dismissed>>
radio == <<bonds, keyboard>>
vars == <<screen, drawn, at, scanning, queue, status, busy, radio, place, wrong>>

Rows == 1 .. Len(list)

-----------------------------------------------------------------------------
(* The list *)

Entry(k, bonded, away) == [kbd |-> k, bonded |-> bonded, away |-> away]
Listed(l) == {l[i].kbd : i \in 1 .. Len(l)}

(* add_bonds(): those found that are paired marked, the others that are
   paired put at the end, while there is room, in any order esp_ble has.    *)
WithBonds(fs, order) ==
    LET marked == [i \in 1 .. Len(fs) |-> Entry(fs[i], fs[i] \in bonds, FALSE)]
        away == SelectSeq(order, LAMBDA k : k \notin Listed(marked))
        room == MaxKbd - Len(fs)
    IN marked \o [i \in 1 .. (IF Len(away) < room THEN Len(away) ELSE room) |->
                    Entry(away[i], TRUE, TRUE)]

At(l, k) == IF k \in Listed(l) THEN CHOOSE i \in 1 .. Len(l) : l[i].kbd = k ELSE 0

(* draw_list()'s button: what it says, and to whom.                         *)
Button(l, s) ==
    IF s = 0 THEN <<"none", None>>
    ELSE <<IF l[s].bonded THEN "unpair" ELSE "pair", l[s].kbd>>

(* show_found(): the selection is kept, if it is still there.               *)
ShowFound(fs) ==
    \E order \in SetToSeqs(bonds) : LET l == WithBonds(fs, order) IN
        list' = l /\ sel' = IF sel = 0 THEN 0 ELSE At(l, list[sel].kbd)

(* What a scan finds, and s_found has until the next: whatever is in range, by
   strength, which is anything at any time.                                 *)
InRange == {fs \in UNION {SetToSeqs(near) : near \in SUBSET Kbds} : Len(fs) <= MaxKbd}

-----------------------------------------------------------------------------
(* pairui_task() *)

(* It waits in xQueueReceive(), and looks at the keyboards in between.      *)
Waits == at = "loop" /\ busy = None

(* The screen comes up: the paired ones at once; the queue emptied, the
   touch handler taken.                                                     *)
Show ==
    /\ Waits /\ ~shown /\ ~dismissed /\ ~keyboard
    /\ \E order \in SetToSeqs(bonds) : list' = WithBonds(<< >>, order)
    /\ sel' = 0 /\ shown' = TRUE /\ queue' = << >> /\ at' = "begin"
    /\ UNCHANGED <<drawn, scanning, dismissed, busy, radio, place, wrong>>

(* draw_all(); Bluetooth runs, so the scanner goes on ...                   *)
Begin ==
    /\ at = "begin" /\ at' = "loop" /\ scanning' = TRUE /\ drawn' = Button(list, sel)
    /\ UNCHANGED <<screen, queue, status, busy, radio, place, wrong>>

(* ... or not: the first scan of all is made here, which starts it.         *)
BeginHere ==
    /\ at = "begin" /\ at' = "first" /\ drawn' = Button(list, sel)
    /\ UNCHANGED <<screen, scanning, queue, status, busy, radio, place, wrong>>

ScanHere ==
    /\ at = "first"
    /\ \/ at' = "loop" /\ scanning' = TRUE /\ UNCHANGED screen          \* it failed
       \/ at' = "found" /\ UNCHANGED scanning /\ \E fs \in InRange : ShowFound(fs)
    /\ UNCHANGED <<drawn, queue, status, busy, radio, place, wrong>>

(* A keyboard has come: the terminal is given back.                         *)
Hide ==
    /\ Waits /\ keyboard /\ (shown \/ dismissed)
    /\ shown' = FALSE /\ dismissed' = FALSE /\ scanning' = FALSE
    /\ UNCHANGED <<screen, drawn, at, queue, busy, radio, place, wrong>>

Taken(ev) == Waits /\ shown /\ queue # << >> /\ Head(queue) = ev /\ queue' = Tail(queue)

Event(kind, row, meant) == [kind |-> kind, row |-> row, meant |-> meant]
Scanned == Event("scanned", 0, None)

TakeScan ==
    /\ Taken(Scanned) /\ at' = "scanned"
    /\ UNCHANGED <<screen, drawn, scanning, status, busy, radio, place, wrong>>

ShowScan ==
    /\ at = "scanned" /\ at' = "draw" /\ \E fs \in InRange : ShowFound(fs)
    /\ UNCHANGED <<drawn, scanning, queue, status, busy, radio, place, wrong>>

(* draw_list(), after which the first scan's screen is scanned for, too.    *)
DrawList ==
    /\ at \in {"draw", "found"} /\ at' = "loop" /\ drawn' = Button(list, sel)
    /\ scanning' = (scanning \/ at = "found")
    /\ UNCHANGED <<screen, queue, status, busy, radio, place, wrong>>

(* tap(), on a row of the list as it is by now ...                          *)
TapRow ==
    /\ \E r \in 1 .. MaxKbd :
        /\ Taken(Event("row", r, None))
        /\ IF r \in Rows THEN sel' = r /\ at' = "draw" ELSE UNCHANGED <<sel, at>>
    /\ UNCHANGED <<list, drawn, scanning, status, busy, radio, place, wrong>>

(* ... "Not now" ...                                                        *)
TapClose ==
    /\ Taken(Event("close", 0, None))
    /\ dismissed' = TRUE /\ shown' = FALSE /\ scanning' = FALSE
    /\ UNCHANGED <<screen, drawn, at, busy, radio, place, wrong>>

(* ... "Pair" or "Unpair", to the one selected: seconds in esp_ble.         *)
TapButton ==
    /\ \E meant \in ({"none", "pair", "unpair"} \X (Kbds \cup {None})) \cup {None} :
        /\ Taken(Event("button", 0, meant))
        /\ busy' = IF sel = 0 THEN None ELSE Button(list, sel)
        /\ wrong' = (wrong \/ meant \notin {None, Button(list, sel)})
    /\ UNCHANGED <<screen, drawn, at, scanning, status, radio, place>>

(* Paired, which the list learns from the next scan, or not.                *)
PairDone(ok) ==
    /\ busy # None /\ busy[1] = "pair" /\ busy' = None
    /\ bonds' = IF ok THEN bonds \cup {busy[2]} ELSE bonds
    /\ keyboard' = (keyboard \/ ok)
    /\ UNCHANGED <<screen, drawn, at, scanning, queue, status, place, wrong>>

Forgotten ==
    /\ bonds' = bonds \ {busy[2]}
    /\ list' = IF list[sel].away THEN RemoveAt(list, sel)
               ELSE [list EXCEPT ![sel].bonded = FALSE]

(* Mistake: the next in the list is selected, and not drawn. *)
UnpairDoneStaysSelected(ok) ==
    /\ busy # None /\ busy[1] = "unpair" /\ busy' = None
    /\ IF ok THEN Forgotten /\ sel' = (IF sel \in 1 .. Len(list') THEN sel ELSE 0)
       ELSE UNCHANGED <<bonds, screen>>
    /\ UNCHANGED <<drawn, at, scanning, queue, status, keyboard, place, wrong>>

(* Forgotten: off the list if it is away, else there to be paired again.    *)
UnpairDone(ok) ==
    /\ busy # None /\ busy[1] = "unpair" /\ busy' = None
    /\ IF ok THEN Forgotten /\ sel' = 0 /\ at' = "draw" ELSE UNCHANGED <<bonds, screen, at>>
    /\ UNCHANGED <<drawn, scanning, queue, status, keyboard, place, wrong>>

Task == \/ Show \/ Begin \/ BeginHere \/ ScanHere \/ Hide
        \/ TakeScan \/ ShowScan \/ DrawList \/ TapRow \/ TapClose \/ TapButton
        \/ \E ok \in BOOLEAN : PairDone(ok) \/ UnpairDone(ok)

-----------------------------------------------------------------------------
(* The others *)

(* xQueueSend(), waiting for no room.                                       *)
Post(ev) == queue' = IF Len(queue) < QueueCap THEN Append(queue, ev) ELSE queue

(* on_touch().  What a user means by the button is what it says, when the task
   waits with nothing in the queue, as the finger goes down and as it comes up.
   (A finger that went down before the screen came up is taken for where the
   one before it did, wherever that was.)                                   *)
Promised == IF shown /\ Waits /\ queue = << >> THEN drawn ELSE None
Nowhere == Event("row", 0, None)

Down ==
    /\ place = Nowhere
    /\ \/ \E r \in 1 .. MaxKbd : place' = Event("row", r, None)
       \/ place' = Event("close", 0, None)
       \/ place' = Event("button", 0, Promised)
    /\ UNCHANGED <<screen, drawn, at, scanning, queue, status, busy, radio, wrong>>

(* A tap, of where it went down, or the finger is too far from there.       *)
Up ==
    /\ place # Nowhere /\ place' = Nowhere
    /\ \/ UNCHANGED queue
       \/ shown /\ Post([place EXCEPT !.meant = IF @ = Promised THEN @ ELSE None])
    /\ UNCHANGED <<screen, drawn, at, scanning, status, busy, radio, wrong>>

(* scanner_task(): a scan that ends after the screen has gone is dropped.   *)
Scan ==
    /\ scanning /\ Post(Scanned)
    /\ UNCHANGED <<screen, drawn, at, scanning, status, busy, radio, place, wrong>>

(* A keyboard connects or goes, by itself.                                  *)
Connect ==
    /\ keyboard' = ~keyboard
    /\ UNCHANGED <<screen, drawn, at, scanning, queue, status, busy, bonds, place, wrong>>

Init ==
    /\ list = << >> /\ sel = 0 /\ drawn = Button(<< >>, 0) /\ at = "loop" /\ queue = << >>
    /\ scanning = FALSE /\ shown = FALSE /\ dismissed = FALSE
    /\ busy = None /\ bonds \in SUBSET Kbds /\ keyboard = FALSE
    /\ place = Nowhere /\ wrong = FALSE

Next == Task \/ Down \/ Up \/ Scan \/ Connect

Spec == Init /\ [][Next]_vars

-----------------------------------------------------------------------------
(* A keyboard is paired or unpaired by whoever touched a button that said so
   of that keyboard, while the task waited and nothing was in its queue: what
   is acted on is what was drawn, by whichever of the scans, taps and calls
   the list came to be as it is.  (A tap that is posted while the task draws,
   or behind a scan, is of a list that the user has not seen: it is taken of
   the list as it is then, and the code promises nothing.)                  *)
DoesWhatItSays == ~wrong
=============================================================================
