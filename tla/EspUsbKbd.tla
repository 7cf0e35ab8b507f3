------------------------------ MODULE EspUsbKbd ------------------------------
(***************************************************************************)
(* components/esp_usbkbd/esp_usbkbd.c: USB keyboards.  The HID driver's task *)
(* tells of one that is plugged in, which a second task opens, and of its     *)
(* reports and its being unplugged, also while it is opened.                 *)
(***************************************************************************)
EXTENDS Naturals, Sequences, FiniteSets

CONSTANTS Kbds, Slots, MaxFound, None   \* MAX_KBDS, s_found's length

VARIABLES
    plugged,    \* the keyboards that are plugged in
    gone,       \* unplugged, the interface's event still to come
    found,      \* s_found
    handle,     \* of each slot, the keyboard or None
    started,    \* the keyboards that send reports
    pc, slot,   \* of open_keyboard()
    said,       \* the keys each slot's last report had down, any or none
    any, seen,  \* what update_wired() has counted, on each task, or None
    wired       \* esp_kbd_wired()'s bit

openVars == <<pc, slot>>
vars == <<plugged, gone, found, handle, started, openVars, said, any, seen, wired>>

Holds(k) == {i \in Slots : handle[i] = k}

(* update_wired(): counts, then tells.                                      *)
AnyPlugged == \E i \in Slots : handle'[i] # None

-----------------------------------------------------------------------------
(* The driver's task *)

(* on_driver(): the queue may be full.  Each plugging in is another handle.   *)
Plug(k) ==
    /\ k \notin plugged \cup gone /\ Holds(k) = {} /\ \A n \in DOMAIN found : found[n] # k
    /\ plugged' = plugged \cup {k}
    /\ found' = IF Len(found) < MaxFound THEN Append(found, k) ELSE found
    /\ UNCHANGED <<gone, handle, started, openVars, said, any, seen, wired>>

(* on_report()                                                              *)
OnReport(k, keys) ==
    /\ k \in plugged \cap started /\ Holds(k) # {}
    /\ said' = [i \in Slots |-> IF i \in Holds(k) THEN keys ELSE said[i]]
    /\ UNCHANGED <<plugged, gone, found, handle, started, openVars, any, seen, wired>>

Unplug(k) ==
    /\ k \in plugged /\ plugged' = plugged \ {k} /\ started' = started \ {k}
    /\ gone' = IF Holds(k) = {} THEN gone ELSE gone \cup {k}
    /\ UNCHANGED <<found, handle, openVars, said, any, seen, wired>>

(* What it held is let go.                                                  *)
LetGo(k) == said' = [i \in Slots |-> IF i \in Holds(k) THEN {} ELSE said[i]]

(* on_interface(), disconnected                                             *)
Disconnected(k) ==
    /\ k \in gone /\ gone' = gone \ {k} /\ any = None
    /\ LetGo(k) /\ handle' = [i \in Slots |-> IF handle[i] = k THEN None ELSE handle[i]]
    /\ any' = AnyPlugged
    /\ UNCHANGED <<plugged, found, started, openVars, seen, wired>>

TellWired ==
    /\ any # None /\ wired' = any /\ any' = None
    /\ UNCHANGED <<plugged, gone, found, handle, started, openVars, said, seen>>

-----------------------------------------------------------------------------
(* open_keyboard(), on a task of its own *)

SlotOfNone ==
    IF Holds(None) = {} THEN None ELSE CHOOSE i \in Holds(None) : \A j \in Holds(None) : i <= j

Take ==
    /\ pc = "idle" /\ found # <<>> /\ found' = Tail(found)
    /\ LET k == Head(found) IN
        \/ (k \notin plugged \/ SlotOfNone = None) /\ UNCHANGED <<handle, openVars>>
        \/ k \in plugged /\ SlotOfNone # None /\ slot' = SlotOfNone /\ pc' = "open"
           /\ handle' = [handle EXCEPT ![SlotOfNone] = k]
        \/ UNCHANGED <<handle, openVars>>       \* a mouse, or it does not answer
    /\ UNCHANGED <<plugged, gone, started, said, any, seen, wired>>

(* Opened, asked for its layout, started; an unplugged one fails somewhere.  *)
Open ==
    /\ pc \in {"open", "layout", "start"}
    /\ \/ /\ handle[slot] \in plugged
          /\ pc' = (CASE pc = "open" -> "layout" [] pc = "layout" -> "start" [] OTHER -> "wired")
          /\ started' = IF pc = "start" THEN started \cup {handle[slot]} ELSE started
          /\ UNCHANGED <<handle, slot, gone>>
       \/ /\ pc' = "idle" /\ slot' = None /\ handle' = [handle EXCEPT ![slot] = None]
          /\ started' = started \ {handle[slot]}
          /\ gone' = gone \ {handle[slot]}      \* closed: no event of it comes any more
    /\ UNCHANGED <<plugged, found, said, any, seen, wired>>

Count ==
    /\ pc = "wired" /\ seen = None /\ seen' = (\E i \in Slots : handle[i] # None)
    /\ UNCHANGED <<plugged, gone, found, handle, started, openVars, said, any, wired>>

Tell ==
    /\ seen # None /\ wired' = seen /\ seen' = None /\ pc' = "idle" /\ slot' = None
    /\ UNCHANGED <<plugged, gone, found, handle, started, said, any>>

Init ==
    /\ plugged = {} /\ gone = {} /\ found = <<>> /\ handle = [i \in Slots |-> None]
    /\ started = {} /\ pc = "idle" /\ slot = None /\ said = [i \in Slots |-> {}]
    /\ any = None /\ seen = None /\ wired = FALSE

Next ==
    \/ \E k \in Kbds : Plug(k) \/ Unplug(k) \/ Disconnected(k) \/ \E keys \in {{}, {"key"}} : OnReport(k, keys)
    \/ TellWired \/ Take \/ Open \/ Count \/ Tell

Spec == Init /\ [][Next]_vars

-----------------------------------------------------------------------------
(* A keyboard that was unplugged holds no key, at whatever point of its
   opening it went, and a slot is one keyboard's (esp_usbkbd.c:87-95).        *)
UsbLetsGo ==
    /\ \A i \in Slots : said[i] # {} => handle[i] \in plugged \cup gone
    /\ \A k \in Kbds : Cardinality(Holds(k)) <= 1
=============================================================================
