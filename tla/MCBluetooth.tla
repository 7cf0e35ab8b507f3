----------------------------- MODULE MCBluetooth -----------------------------
(***************************************************************************)
(* Bluetooth keyboards: Vim's task with everything it calls, the power task  *)
(* and the reconnect task; and the screen that pairs one where there is no   *)
(* keyboard.  They share no variable (a screen in esp_ble is busy until it    *)
(* returns), so one run takes them in turn: device, chosen at the start,      *)
(* says which one moves, and the other stays as it begins.                   *)
(***************************************************************************)
EXTENDS EspBleKbd, TLC

CONSTANTS
    vim, power,
    MaxKbd, QueueCap        \* EspPairUi

MCOps == vim :> {"pair", "forget", "forgetOne", "scan"} @@ power :> {"suspend"}

VARIABLES
    device,
    list, sel, drawn, at, queue, scanning, shown, dismissed, busy, known,
    keyboard, place, wrong                                          \* EspPairUi

PairUi == INSTANCE EspPairUi WITH bonds <- known

pairVars == <<list, sel, drawn, at, queue, scanning, shown, dismissed, busy, known,
              keyboard, place, wrong>>
allVars == <<device, vars, pairVars>>

AllInit ==
    /\ device \in {"ble", "pairing"} /\ Init /\ PairUi!Init
    /\ device = "ble" \/ (bonds = {} /\ ~paired)
    /\ device = "pairing" \/ known = {}

Moves(who) == device = who /\ UNCHANGED device

AllNext ==
    \/ Moves("ble") /\ Next /\ UNCHANGED pairVars
    \/ Moves("pairing") /\ PairUi!Next /\ UNCHANGED vars

AllSpec == AllInit /\ [][AllNext]_allVars

-----------------------------------------------------------------------------
(* Of EspPairUi: what a button said is what is done.                        *)
DoesWhatItSays == PairUi!DoesWhatItSays
=============================================================================
