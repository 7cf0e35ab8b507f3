------------------------------ MODULE MCConsole ------------------------------
(***************************************************************************)
(* The console.  Its keys: how a keyboard's reports are read, what becomes of *)
(* them, and where they come from, the built-in keyboards of three boards and *)
(* USB's.  Its screen: the display task with its callers, the finger as a     *)
(* mouse, and the turns of touch and picture.  They share no variable, so    *)
(* one run takes them in turn: device, chosen at the start, says which one   *)
(* moves, and the others stay as they begin.                                *)
(***************************************************************************)
EXTENDS EspKbd, Sequences, TLC

CONSTANTS
    letter, cursor, lock, boot, bitmap, usb,    \* EspKbd: a letter of one byte, a cursor
                                            \* key of three, Caps Lock of none
    MaxReports, MaxFields, MaxKeys, StackDepth, MaxDescr,   \* EspHid
    MaxEvents, MaxLost, MaxFingers,         \* EspKeys
    UsbKbds, UsbSlots, MaxFound,            \* EspUsbKbd
    NRows,                                  \* EspDisplay
    Width, Height, Fonts                    \* EspTouch

MCBytes  == letter :> 1 @@ cursor :> 3 @@ lock :> 0
MCKeysIn == boot :> {letter, cursor} @@ bitmap :> {cursor} @@ usb :> {lock}
MCBle    == {boot, bitmap}
MCBoards == {MCBle, {usb}}
TwoFonts == {[width |-> 2, height |-> 3, maxCols |-> 0],
             [width |-> 1, height |-> 2, maxCols |-> 4]}

(* Of EspUsbKbd: hid_slot[] is an array, and NULL is nobody's device.  Of
   EspTouch: a frame buffer's rows are of whole bytes, and fonts not empty.  *)
ASSUME ConsoleAssumption ==
    /\ None \notin UsbKbds /\ UsbSlots \subseteq Nat
    /\ Width \in Nat \ {0} /\ Height \in Nat \ {0}
    /\ (IF Width > Height THEN Height ELSE Width) % 4 = 0
    /\ Fonts \subseteq [width : Nat \ {0}, height : Nat \ {0}, maxCols : Nat]

(* Of EspHid: a decoded report has room for the keys of every field that is
   kept, and for the boot layout's six; no number and no report is no value. *)
Decoded == [mods : SUBSET Nat, keys : Seq(Nat), hasMods : BOOLEAN, rollover : BOOLEAN]
ASSUME HidAssumption ==
    /\ MaxDescr \in Nat /\ 16 * MaxDescr < 65536
    /\ MaxFields \in Nat \ {0} /\ MaxKeys \in Nat /\ 3 * MaxFields <= MaxKeys /\ MaxKeys >= 6
    /\ MaxReports \in Nat /\ MaxReports >= 2 /\ StackDepth \in Nat \ {0}
    /\ None \notin Nat /\ None \notin Decoded

VARIABLES
    device,
    descr, style, mode,                                                         \* EspHid
    press, modsHeld, latched, symHeld, symLatched, caps, shifts, tap, last, said, present,
    matrix, raw, keyQueue, down, missed,                                        \* EspKeys
    plugged, gone, usbFound, handle, started, pc, slot, usbSaid, any, seen, wired,  \* EspUsbKbd
    stream, dirty, panel, flipReq, fontReq, sleepReq, fontDone, sleepDone, resume, overlay,
    repaint, parked, lit, locked, pcD, req, pcV, pcO, pcP,                          \* EspDisplay
    rot, follows, flip, ready, turn, kept,                                      \* EspTouch
    pcM, handler, mouse, gesture, pressed, dropped, disturbed                   \* EspMouse

Hid == INSTANCE EspHid WITH Unset <- None
Keyboard(Board) == INSTANCE EspKeys WITH held <- modsHeld, newest <- last, queue <- keyQueue
Usb == INSTANCE EspUsbKbd WITH Kbds <- UsbKbds, Slots <- UsbSlots, said <- usbSaid, found <- usbFound
Display == INSTANCE EspDisplay
Touch == INSTANCE EspTouch
Mouse == INSTANCE EspMouse WITH pcT <- pcM, held <- pressed

hidVars == <<descr, style, mode>>
keysVars == <<press, modsHeld, latched, symHeld, symLatched, caps, shifts, tap, last, said,
              present, matrix, raw, keyQueue, down, missed>>
usbVars == <<plugged, gone, usbFound, handle, started, pc, slot, usbSaid, any, seen, wired>>
displayVars == <<stream, dirty, panel, flipReq, fontReq, sleepReq, fontDone, sleepDone, resume,
                 overlay, repaint, parked, lit, locked, pcD, req, pcV, pcO, pcP>>
touchVars == <<rot, follows, flip, ready, turn, kept>>
mouseVars == <<pcM, handler, mouse, gesture, pressed, dropped, disturbed>>
inputs == <<vars, hidVars, keysVars, usbVars>>
screen == <<displayVars, touchVars, mouseVars>>
allVars == <<device, inputs, screen>>

(* Bounds: the maps of one style are read with all that can be held, those of
   the other with what arrays leave to bitmaps; the board is turned, and its
   turn followed, for the touches only.                                     *)
AllInit ==
    /\ device \in {"kbd", "hid", "tab5", "cardputer", "tdeck", "usb", "display", "touch", "mouse"}
    /\ Init /\ Hid!Init /\ Usb!Init /\ Display!Init /\ Touch!Init /\ Mouse!Init
    /\ CASE device = "tab5" -> Keyboard("tab5")!Init
         [] device = "cardputer" -> Keyboard("cardputer")!Init
         [] OTHER -> Keyboard("tdeck")!Init
    /\ style.push <=> mode = "rest"
    /\ device = "hid" \/ ~style.push
    /\ device = "touch" \/ (rot = 0 /\ follows = {})

Moves(who) == device = who /\ UNCHANGED device

BuiltIn ==
    \/ Moves("tab5") /\ Keyboard("tab5")!Next
    \/ Moves("cardputer") /\ Keyboard("cardputer")!Next
    \/ Moves("tdeck") /\ Keyboard("tdeck")!Next

AllNext ==
    \/ Moves("kbd") /\ Next /\ UNCHANGED <<hidVars, keysVars, usbVars, screen>>
    \/ Moves("hid") /\ Hid!Next /\ UNCHANGED <<vars, keysVars, usbVars, screen>>
    \/ BuiltIn /\ UNCHANGED <<vars, hidVars, usbVars, screen>>
    \/ Moves("usb") /\ Usb!Next /\ UNCHANGED <<vars, hidVars, keysVars, screen>>
    \/ Moves("display") /\ Display!Next /\ UNCHANGED <<inputs, touchVars, mouseVars>>
    \/ Moves("touch") /\ Touch!Next /\ UNCHANGED <<inputs, displayVars, mouseVars>>
    \/ Moves("mouse") /\ Mouse!Next /\ UNCHANGED <<inputs, displayVars, touchVars>>

(* The fairness of EspKbd and of EspDisplay, each of the run that is its own. *)
AllSpec ==
    /\ AllInit /\ [][AllNext]_allVars
    /\ WF_vars(Moves("kbd") /\ TimerStep)
    /\ WF_vars(Moves("kbd") /\ InputStep)
    /\ WF_displayVars(Moves("display") /\ Display!DisplayTask)
    /\ WF_displayVars(Moves("display") /\ Display!Asleep)
    /\ WF_displayVars(Moves("display") /\ Display!Boot)

-----------------------------------------------------------------------------
(* Of EspHid: what is read from a report is what the keyboard says is held. *)
ReportsAreRead == device = "hid" => Hid!ReportsAreRead

(* Of EspKeys and EspUsbKbd: with every finger off, no key of a built-in
   keyboard is held but one whose last event was lost; none of a USB keyboard
   that was unplugged.                                                      *)
NothingSticks ==
    /\ device = "tab5" => Keyboard("tab5")!NothingSticks
    /\ device = "cardputer" => Keyboard("cardputer")!NothingSticks
    /\ device = "tdeck" => Keyboard("tdeck")!NothingSticks
    /\ device = "usb" => Usb!UsbLetsGo

(* Of EspDisplay: nothing is left behind on the panel once the display task
   has nothing more to do.                                                  *)
ShowsTheTerminal == device = "display" => Display!ShowsTheTerminal

(* Of EspDisplay: a sleep that is asked for comes, and the light comes back. *)
RestsAndReturns == Display!RestsAndReturns

(* Of EspTouch: a touch is taken for the place it is drawn at.              *)
TouchIsWhereItIsDrawn == device = "touch" => Touch!TouchIsWhereItIsDrawn

(* Of EspMouse: a press is released, unless the queue had no room for the
   release or the touch was taken away.                                     *)
PressIsReleased == device = "mouse" => Mouse!PressIsReleased
=============================================================================
