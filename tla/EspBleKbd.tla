----------------------------- MODULE EspBleKbd -----------------------------
(***************************************************************************)
(* Bluetooth keyboards: components/esp_ble/esp_ble_kbd.c.                   *)
(*                                                                         *)
(* The reconnect task tries the bonded keyboards while none is connected;   *)
(* Vim's task, the pairing screen's and the power task take esp_ble__lock   *)
(* from it (esp_ble__take_lock()) to pair, forget, scan or sleep.  What     *)
(* became of a connection they learn from on_hidh(), on the HID host's      *)
(* event task, which takes no lock and may come late.                       *)
(*                                                                         *)
(* The HID host is external: esp_hidh_dev_open() tries for a while, or      *)
(* until cancelled, and posts OPEN when it succeeds, bonded by then; a      *)
(* connection closed, or lost, ends with a CLOSE.  It opens no keyboard it  *)
(* still has.                                                               *)
(***************************************************************************)
EXTENDS Naturals, Sequences

CONSTANTS
    Kbds,       \* the keyboards
    Takers,     \* the tasks that take the lock: each with what it calls
    Ops,        \* Ops[t] \subseteq {"pair", "forget", "forgetOne", "scan", "suspend"}
    None        \* no keyboard, no task

ASSUME BleAssumption ==
    /\ None \notin Kbds \cup Takers \cup {"task"} /\ "task" \notin Takers
    /\ Ops \in [Takers -> SUBSET {"pair", "forget", "forgetOne", "scan", "suspend"}]
    /\ \A t \in Takers : "suspend" \in Ops[t] => Ops[t] = {"suspend"}

VARIABLES
    bonds,      \* NimBLE's store
    paired,     \* s_paired, and NVS's
    dev,        \* s_dev
    giveWay,    \* s_give_way
    suspended,  \* s_suspended
    started,    \* s_task_started
    wake,       \* s_wake
    lock,       \* esp_ble__lock's holder
    \* the HID host
    link,       \* of each keyboard: "off", "open", or "closing"
    attempt,    \* the keyboard it tries to open
    events,     \* posted and not handled: <<"open" or "close", keyboard>>
    \* the tasks
    pcR,        \* the reconnect task
    peers,      \* the keyboards it has still to try
    todo,       \* of each taker, its call's steps to go
    arg         \* ... and the keyboard it names

state == <<bonds, paired, dev, giveWay, suspended, started, wake, lock>>
host  == <<link, attempt, events>>
tasks == <<pcR, peers, todo, arg>>
vars  == <<state, host, tasks>>

-----------------------------------------------------------------------------
(* The HID host *)

Posted(k) == \E i \in DOMAIN events : events[i][2] = k

(* esp_hidh_dev_open() begins; a keyboard it has already it refuses.        *)
CanOpen(k) == attempt = None /\ link[k] = "off" /\ ~Posted(k)

(* ... and succeeds, or does not, or is cancelled.                          *)
Opens ==
    /\ attempt # None /\ attempt' = None
    /\ link' = [link EXCEPT ![attempt] = "open"] /\ bonds' = bonds \cup {attempt}
    /\ events' = Append(events, <<"open", attempt>>)
    /\ UNCHANGED <<paired, dev, giveWay, suspended, started, wake, lock, tasks>>

OpenFails ==
    /\ attempt # None /\ attempt' = None
    /\ UNCHANGED <<state, link, events, tasks>>

(* A connection ends: closed by us, or the keyboard went away.              *)
Closes(k) ==
    /\ link[k] # "off" /\ link' = [link EXCEPT ![k] = "off"]
    /\ events' = Append(events, <<"close", k>>)
    /\ UNCHANGED <<state, attempt, tasks>>

(* esp_hidh_dev_close() *)
Close(k) == IF k # None /\ link[k] = "open" THEN link' = [link EXCEPT ![k] = "closing"] ELSE UNCHANGED link

-----------------------------------------------------------------------------
(* on_hidh() *)

(* Mistake: the reconnect task is not woken. *)
HandleUnwoken ==
    /\ events # <<>> /\ events' = Tail(events)
    /\ LET e == Head(events) IN
       IF e[1] = "open" THEN dev' = e[2] /\ paired' = TRUE
       ELSE dev' = (IF dev = e[2] THEN None ELSE dev) /\ UNCHANGED paired
    /\ UNCHANGED <<bonds, giveWay, suspended, started, wake, lock, link, attempt, tasks>>

(* Mistake: a keyboard that closes is kept. *)
HandleKeeps ==
    /\ events # <<>> /\ events' = Tail(events)
    /\ LET e == Head(events) IN
       IF e[1] = "open" THEN dev' = e[2] /\ paired' = TRUE /\ UNCHANGED wake
       ELSE UNCHANGED <<dev, paired>> /\ wake' = TRUE
    /\ UNCHANGED <<bonds, giveWay, suspended, started, lock, link, attempt, tasks>>

Handle ==
    /\ events # <<>> /\ events' = Tail(events)
    /\ LET e == Head(events) IN
       IF e[1] = "open" THEN dev' = e[2] /\ paired' = TRUE /\ UNCHANGED wake
       ELSE IF dev = e[2] THEN dev' = None /\ wake' = started /\ UNCHANGED paired
       ELSE UNCHANGED <<dev, paired, wake>>
    /\ UNCHANGED <<bonds, giveWay, suspended, started, lock, link, attempt, tasks>>

-----------------------------------------------------------------------------
(* reconnect_task() *)

Look ==
    /\ started /\ pcR = "look"
    /\ pcR' = IF dev = None /\ paired /\ ~suspended THEN "lock" ELSE "pause"
    /\ UNCHANGED <<state, host, peers, todo, arg>>

(* Takes the lock, starts Bluetooth and asks for the bonded keyboards: none *)
(* if it does not start.                                                    *)
LockTask ==
    /\ pcR = "lock" /\ lock = None /\ lock' = "task" /\ pcR' = "try"
    /\ peers' \in {bonds, {}}
    /\ UNCHANGED <<bonds, paired, dev, giveWay, suspended, started, wake, host, todo, arg>>

(* Mistake: a sleep not looked at. *)
GoesOnAsleep == peers # {} /\ dev = None /\ ~giveWay

GoesOn == peers # {} /\ dev = None /\ ~suspended /\ ~giveWay

(* esp_hidh_dev_open() of the next, and its return.                         *)
Try(k) ==
    /\ pcR = "try" /\ GoesOn /\ k \in peers /\ peers' = peers \ {k}
    /\ pcR' = "opening" /\ attempt' = IF CanOpen(k) THEN k ELSE attempt
    /\ UNCHANGED <<state, link, events, todo, arg>>

Tried ==
    /\ pcR = "opening" /\ attempt = None /\ pcR' = "try"
    /\ UNCHANGED <<state, host, peers, todo, arg>>

UnlockTask ==
    /\ pcR = "try" /\ ~GoesOn /\ lock' = None /\ pcR' = "pause" /\ peers' = {}
    /\ UNCHANGED <<bonds, paired, dev, giveWay, suspended, started, wake, host, todo, arg>>

(* Waits for s_wake: for 3 s, or for ever with a keyboard connected.        *)
Pause ==
    /\ pcR = "pause" /\ pcR' = IF dev = None THEN "wait" ELSE "sleep"
    /\ UNCHANGED <<state, host, peers, todo, arg>>

Woken ==
    /\ pcR \in {"wait", "sleep"} /\ wake /\ wake' = FALSE /\ pcR' = "look"
    /\ UNCHANGED <<bonds, paired, dev, giveWay, suspended, started, lock, host, peers, todo, arg>>

TimesOut ==
    /\ pcR = "wait" /\ pcR' = "look"
    /\ UNCHANGED <<state, host, peers, todo, arg>>

TaskStep ==
    \/ Look \/ LockTask \/ (\E k \in Kbds : Try(k)) \/ Tried
    \/ UnlockTask \/ Pause \/ Woken \/ TimesOut

-----------------------------------------------------------------------------
(* The callers *)

Steps == [
    pair      |-> <<"cancel", "lock", "close", "open", "opened", "unlock", "start">>,
    forget    |-> <<"unflag", "cancel", "lock", "close", "clear", "unlock">>,
    forgetOne |-> <<"cancel", "lock", "find", "unpair", "unlock">>,
    scan      |-> <<"cancel", "lock", "unlock">>,
    suspend   |-> <<"suspend", "cancel", "lock", "close", "unlock", "resume">>]

At(t, step) == todo[t] # <<>> /\ Head(todo[t]) = step
Left(t, steps) ==
    /\ todo' = [todo EXCEPT ![t] = steps]
    /\ arg' = IF steps = <<>> THEN [arg EXCEPT ![t] = None] ELSE arg
Goes(t) == Left(t, Tail(todo[t]))
GivesUp(t) == Left(t, <<"unlock">>)

Call(t, op, k) ==
    /\ todo[t] = <<>> /\ op \in Ops[t] /\ (k = None) = (op \notin {"pair", "forgetOne"})
    /\ todo' = [todo EXCEPT ![t] = Steps[op]] /\ arg' = [arg EXCEPT ![t] = k]
    /\ UNCHANGED <<state, host, pcR, peers>>

(* forget's paired_set(false), before it has the lock. *)
Unflag(t) ==
    /\ At(t, "unflag") /\ paired' = FALSE /\ Goes(t)
    /\ UNCHANGED <<bonds, dev, giveWay, suspended, started, wake, lock, host, pcR, peers>>

(* esp_ble__cancel_connect(): the attempt under way fails, whoever's it is. *)
Cancel(t) ==
    /\ At(t, "cancel") /\ giveWay' = TRUE /\ Goes(t)
    /\ attempt' = IF started THEN None ELSE attempt
    /\ UNCHANGED <<bonds, paired, dev, suspended, started, wake, lock, link, events, pcR, peers>>

(* esp_ble__take_lock(), and ready(): Bluetooth may not start, but where it *)
(* has to have before.                                                      *)
Lock(t) ==
    /\ At(t, "lock") /\ lock = None /\ lock' = t /\ giveWay' = FALSE
    /\ Goes(t) \/ ("suspend" \notin Ops[t] /\ GivesUp(t))
    /\ UNCHANGED <<bonds, paired, dev, suspended, started, wake, host, pcR, peers>>

CloseDev(t) ==
    /\ At(t, "close") /\ Close(dev) /\ Goes(t)
    /\ UNCHANGED <<state, attempt, events, pcR, peers>>

(* esp_hidh_dev_open() of the keyboard to pair, and its return.             *)
Open(t) ==
    /\ At(t, "open") /\ Goes(t)
    /\ attempt' = IF CanOpen(arg[t]) THEN arg[t] ELSE attempt
    /\ UNCHANGED <<state, link, events, pcR, peers>>

Opened(t) ==
    /\ At(t, "opened") /\ attempt = None
    /\ IF link[arg[t]] = "open" \/ Posted(arg[t]) THEN Goes(t) ELSE GivesUp(t)
    /\ UNCHANGED <<state, host, pcR, peers>>

(* ble_store_clear() *)
Clear(t) ==
    /\ At(t, "clear") /\ bonds' = {} /\ Goes(t)
    /\ UNCHANGED <<paired, dev, giveWay, suspended, started, wake, lock, host, pcR, peers>>

(* forget_one() finds its keyboard, closes it and waits a while ...         *)
Find(t) ==
    /\ At(t, "find")
    /\ IF arg[t] \in bonds
       THEN Goes(t) /\ IF dev = arg[t] THEN Close(dev) ELSE UNCHANGED link
       ELSE GivesUp(t) /\ UNCHANGED link
    /\ UNCHANGED <<state, attempt, events, pcR, peers>>

(* ... and forgets it, connection and all; the last one with the flag.      *)
Unpair(t) ==
    /\ At(t, "unpair") /\ bonds' = bonds \ {arg[t]} /\ Close(arg[t])
    /\ paired' = (paired /\ bonds' # {}) /\ Goes(t)
    /\ UNCHANGED <<dev, giveWay, suspended, started, wake, lock, attempt, events, pcR, peers>>

Unlock(t) ==
    /\ At(t, "unlock") /\ lock' = None /\ Goes(t)
    /\ UNCHANGED <<bonds, paired, dev, giveWay, suspended, started, wake, host, pcR, peers>>

(* start_reconnecting() *)
Start(t) ==
    /\ At(t, "start") /\ started' = TRUE /\ Goes(t)
    /\ UNCHANGED <<bonds, paired, dev, giveWay, suspended, wake, lock, host, pcR, peers>>

(* esp_ble_kbd_suspend(): nothing more to do before the task is started.    *)
Suspend(t) ==
    /\ At(t, "suspend") /\ suspended' = TRUE
    /\ IF started THEN Goes(t) ELSE Left(t, <<"resume">>)
    /\ UNCHANGED <<bonds, paired, dev, giveWay, started, wake, lock, host, pcR, peers>>

Resume(t) ==
    /\ At(t, "resume") /\ suspended' = FALSE /\ wake' = started /\ Goes(t)
    /\ UNCHANGED <<bonds, paired, dev, giveWay, started, lock, host, pcR, peers>>

TakerStep(t) ==
    \/ Unflag(t) \/ Cancel(t) \/ Lock(t) \/ CloseDev(t) \/ Open(t) \/ Opened(t) \/ Clear(t)
    \/ Find(t) \/ Unpair(t) \/ Unlock(t) \/ Start(t) \/ Suspend(t) \/ Resume(t)

-----------------------------------------------------------------------------
(* As esp_ble_kbd_boot() finds the flash. *)
Init ==
    /\ bonds \in SUBSET Kbds /\ paired \in BOOLEAN /\ started = paired
    /\ dev = None /\ giveWay = FALSE /\ suspended = FALSE /\ wake = FALSE /\ lock = None
    /\ link = [k \in Kbds |-> "off"] /\ attempt = None /\ events = <<>>
    /\ pcR = "look" /\ peers = {}
    /\ todo = [t \in Takers |-> <<>>] /\ arg = [t \in Takers |-> None]

Next ==
    \/ Opens \/ OpenFails \/ (\E k \in Kbds : Closes(k))
    \/ Handle \/ TaskStep
    \/ \E t \in Takers :
           \/ TakerStep(t)
           \/ \E op \in Ops[t], k \in Kbds \cup {None} : Call(t, op, k)

Spec == Init /\ [][Next]_vars

-----------------------------------------------------------------------------
(* Properties *)

(* Every variable holds a value of its kind, and the reconnect task has the *)
(* lock exactly while it goes through the keyboards.                        *)
TypeOK ==
    /\ bonds \subseteq Kbds /\ dev \in Kbds \cup {None} /\ attempt \in Kbds \cup {None}
    /\ paired \in BOOLEAN /\ giveWay \in BOOLEAN /\ suspended \in BOOLEAN
    /\ started \in BOOLEAN /\ wake \in BOOLEAN
    /\ lock \in Takers \cup {None, "task"}
    /\ link \in [Kbds -> {"off", "open", "closing"}]
    /\ events \in Seq({"open", "close"} \X Kbds)
    /\ pcR \in {"look", "lock", "try", "opening", "pause", "wait", "sleep"} 
    /\ peers \subseteq Kbds /\ (lock = "task") = (pcR \in {"try", "opening"})
    /\ arg \in [Takers -> Kbds \cup {None}] /\ DOMAIN todo = Takers

(* s_dev is never a keyboard that is gone, but for one whose CLOSE is still *)
(* to be handled: the pointer is the HID host's and freed after it.         *)
NoDanglingDev ==
    dev # None => link[dev] # "off" \/ \E i \in DOMAIN events : events[i] = <<"close", dev>>

(* One scan, pairing or reconnect at a time (esp_ble.c:41): whoever has an  *)
(* attempt under way holds the lock.                                        *)
Tries(t) == IF t = "task" THEN pcR = "opening" ELSE At(t, "opened")
OneAttempt == \A t \in Takers \cup {"task"} : Tries(t) => lock = t

(* Asleep, the reconnect task tries no keyboard: not the one it was about   *)
(* to when the sleep came, nor the next.                                    *)
QuietAsleep ==
    [][\A k \in Kbds : Try(k) => \A t \in Takers : ~At(t, "resume")]_vars

(* A keyboard that goes away is looked for again: the task never waits for  *)
(* ever with none connected, its wake-up lost between its look at s_dev and *)
(* its wait.                                                                *)
NeverWaitsAlone == pcR = "sleep" /\ dev = None => wake
=============================================================================
