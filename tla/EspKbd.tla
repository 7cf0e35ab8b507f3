------------------------------- MODULE EspKbd -------------------------------
(***************************************************************************)
(* Keyboards as console input: components/esp_kbd/esp_kbd.c, with           *)
(* esp_kbd_merge() of esp_kbd_hid.c.                                        *)
(*                                                                         *)
(* Each keyboard's driver reports, on a task of its own, the keys that are  *)
(* down; esp_kbd_input() handles one report at a time (s_input_lock), sends *)
(* each key that appears and has the newest one repeat.  The repeat is the  *)
(* esp_timer task's, which takes no lock: every step of input() and of      *)
(* on_repeat_timer() that reads or writes what they share is an action.     *)
(*                                                                         *)
(* A key stands for its usage, and Bytes[k] for the length of what it       *)
(* sends: 0 for one that sends nothing, such as Caps Lock.  How much of it  *)
(* s_queue has room for, and when Vim reads it, changes nothing here:       *)
(* EspMouse has what a full queue loses.                                    *)
(***************************************************************************)
EXTENDS Integers, Sequences, FiniteSets

CONSTANTS
    Keys,       \* the keys
    Bytes,      \* Bytes[k]: how many bytes k sends
    Ids,        \* the reports told apart (esp_kbd_input()'s id)
    KeysIn,     \* KeysIn[id]: the keys a report can say are down
    Boards,     \* the keyboards: a partition of Ids
    Wireless,   \* the keyboard whose driver calls esp_kbd_release_all()
    MaxParts,   \* ESP_KBD_MAX_PARTS
    MaxHeld,    \* ESP_KBD_MAX_KEYS, of all the reports
    None        \* no key, no id

ASSUME KbdAssumption ==
    /\ Bytes \in [Keys -> Nat] /\ KeysIn \in [Ids -> SUBSET Keys] /\ None \notin Keys \cup Ids
    /\ IsFiniteSet(Keys) /\ MaxHeld \in Nat
    /\ MaxParts \in Nat \ {0}
    /\ UNION Boards = Ids /\ \A b, c \in Boards : b # c => b \cap c = {}
    /\ Wireless \in Boards

VARIABLES
    \* the keys
    part,       \* s_state.part: for each slot the id it is used for and its keys, in order
    mods,       \* s_state.mods: Shift is held
    prev,       \* s_prev
    repeatKey, repeatMods,  \* s_repeat_key, s_repeat_mods
    timer,      \* s_repeat is armed, to fire after the delay or at the rate
    \* input() and esp_kbd_release_all(), under s_input_lock
    pcI,
    toSend,     \* the keys that appeared and are still to be sent
    newest,
    \* on_repeat_timer()
    pcT,
    tKey,       \* the key it is sending
    \* history, read by no action
    held,       \* the keys each report last said are down
    lost,       \* the reports whose keys were dropped: a part taken over, all released
    strays      \* the keys repeated once since their release

keyVars   == <<part, mods, prev>>
repeatVars == <<repeatKey, repeatMods, timer>>
inputVars == <<pcI, toSend, newest>>
timerVars == <<pcT, tKey>>
vars == <<keyVars, repeatVars, inputVars, timerVars, held, lost, strays>>

Slots  == 1..MaxParts
Unused == [id |-> None, keys |-> <<>>]

(* Every variable holds a value of its kind. *)
TypeOK ==
    /\ part \in [Slots -> [id : Ids \cup {None}, keys : Seq(Keys)]]
    /\ mods \in BOOLEAN /\ prev \subseteq Keys
    /\ repeatKey \in Keys \cup {None} /\ repeatMods \in BOOLEAN
    /\ timer \in BOOLEAN
    /\ pcI \in {"idle", "send", "mods", "stop", "start", "release", "wipe"}
    /\ toSend \subseteq Keys /\ newest \in Keys \cup {None}
    /\ pcT \in {"idle", "check", "queue", "rearm"} /\ tKey \in Keys \cup {None}
    /\ held \in [Ids -> SUBSET Keys] /\ lost \subseteq Ids
    /\ strays \subseteq Keys

Init ==
    /\ part = [s \in Slots |-> Unused] /\ mods = FALSE /\ prev = {}
    /\ repeatKey = None /\ repeatMods = FALSE /\ timer = FALSE
    /\ pcI = "idle" /\ toSend = {} /\ newest = None
    /\ pcT = "idle" /\ tKey = None
    /\ held = [i \in Ids |-> {}] /\ lost = {} /\ strays = {}

-----------------------------------------------------------------------------
(* input() *)

(* The slot of a report: its own, an unused one, or else the last one,      *)
(* taken from another.                                                      *)
SlotOf(id) ==
    LET own   == {s \in Slots : part[s].id = id}
        spare == {s \in Slots : part[s].id = None}
        first == IF own # {} THEN own ELSE spare
    IN  IF first = {} THEN MaxParts ELSE CHOOSE s \in first : \A t \in first : s <= t

(* Mistake: too many keys taken for none. *)
MergedRolloverClears(id, keys, rollover) ==
    [part EXCEPT ![SlotOf(id)] = [id |-> id, keys |-> IF rollover THEN <<>> ELSE keys]]

(* The slots with the report's keys in: a rollover report ("too many keys") *)
(* leaves the keys it had.                                                  *)
Merged(id, keys, rollover) ==
    LET s   == SlotOf(id)
        had == IF part[s].id = id THEN part[s].keys ELSE <<>>
    IN  [part EXCEPT ![s] = [id |-> id, keys |-> IF rollover THEN had ELSE keys]]

Listed(keys) == {keys[i] : i \in DOMAIN keys}

(* The keys of the slots before s, and of its own before the i-th.           *)
Before(p, s, i) ==
    (UNION {Listed(p[t].keys) : t \in 1..(s - 1)}) \cup {p[s].keys[j] : j \in 1..(i - 1)}

(* Slot by slot and key by key, each once, until there are MaxHeld of them.  *)
KeysOf(p) ==
    {k \in Keys : \E s \in Slots : \E i \in DOMAIN p[s].keys :
        p[s].keys[i] = k /\ Cardinality(Before(p, s, i) \ {k}) < MaxHeld}

(* esp_kbd_input(): a report, merged with the others; "shift" is what it    *)
(* says of the modifiers, None if it has none.                              *)
Report(id, keys, shift, rollover) ==
    /\ pcI = "idle" /\ pcI' = "send"
    /\ part' = Merged(id, keys, rollover)
    /\ mods' = IF shift = None THEN mods ELSE shift
    /\ toSend' = KeysOf(part') \ prev /\ newest' = None
    /\ held' = IF rollover THEN held ELSE [held EXCEPT ![id] = Listed(keys)]
    /\ LET gone == {part[s].id : s \in Slots} \ {part'[s].id : s \in Slots}
       IN  lost' = (IF rollover THEN lost ELSE lost \ {id}) \cup (gone \ {None})
    /\ UNCHANGED <<prev, repeatVars, timerVars, strays>>

(* send_key() for each key that appeared, in the order the slots give. *)
SendNew(k) ==
    /\ pcI = "send" /\ k \in toSend /\ toSend' = toSend \ {k}
    /\ IF Bytes[k] > 0 THEN newest' = k
       ELSE UNCHANGED newest
    /\ strays' = strays \ {k}
    /\ UNCHANGED <<keyVars, repeatVars, pcI, timerVars, held, lost>>

(* Mistake: the repeat of a released key only stopped, not forgotten. *)
ReleasedStopOnly ==
    /\ pcI = "send" /\ toSend = {} /\ prev' = KeysOf(part)
    /\ newest = None /\ repeatKey # None /\ repeatKey \notin prev'
    /\ pcI' = "release"
    /\ UNCHANGED <<part, mods, repeatVars, toSend, newest, timerVars, held, lost,
                   strays>>

(* All sent: the newest key is the one to repeat ...                        *)
Pressed ==
    /\ pcI = "send" /\ toSend = {} /\ prev' = KeysOf(part)
    /\ newest # None /\ newest' = None /\ repeatKey' = newest /\ pcI' = "mods"
    /\ UNCHANGED <<part, mods, repeatMods, timer, toSend, timerVars, held, lost,
                   strays>>

(* ... or the one that repeated was let go ...                              *)
Released ==
    /\ pcI = "send" /\ toSend = {} /\ prev' = KeysOf(part)
    /\ newest = None /\ repeatKey # None /\ repeatKey \notin prev'
    /\ repeatKey' = None /\ pcI' = "release"
    /\ UNCHANGED <<part, mods, repeatMods, timer, toSend, newest, timerVars, held, lost,
                   strays>>

(* ... or only the modifiers may have changed.                              *)
Unchanged ==
    /\ pcI = "send" /\ toSend = {} /\ prev' = KeysOf(part)
    /\ newest = None /\ (repeatKey = None \/ repeatKey \in prev')
    /\ repeatMods' = mods /\ pcI' = "idle"
    /\ UNCHANGED <<part, mods, repeatKey, timer, toSend, newest, timerVars, held, lost,
                   strays>>

(* Three stores and calls more for a press; one for a release. *)
SetMods ==
    /\ pcI = "mods" /\ pcI' = "stop" /\ repeatMods' = mods
    /\ UNCHANGED <<keyVars, repeatKey, timer, toSend, newest, timerVars, held, lost,
                   strays>>

StopTimer ==
    /\ pcI \in {"stop", "release"} /\ timer' = FALSE
    /\ pcI' = IF pcI = "stop" THEN "start" ELSE "idle"
    /\ UNCHANGED <<keyVars, repeatKey, repeatMods, toSend, newest, timerVars, held, lost,
                   strays>>

(* esp_timer_start_once(): a timer that runs already is left as it is. *)
Started == timer' = TRUE

StartTimer ==
    /\ pcI = "start" /\ pcI' = "idle" /\ Started
    /\ UNCHANGED <<keyVars, repeatKey, repeatMods, toSend, newest, timerVars, held, lost,
                   strays>>

(* esp_kbd_release_all(): a keyboard went away, with all its reports said.  *)
ReleaseAll ==
    /\ pcI = "idle" /\ pcI' = "wipe" /\ repeatKey' = None
    /\ held' = [i \in Ids |-> IF i \in Wireless THEN {} ELSE held[i]]
    /\ UNCHANGED <<keyVars, repeatMods, timer, toSend, newest, timerVars, lost,
                   strays>>

Wipe ==
    /\ pcI = "wipe" /\ pcI' = "idle" /\ timer' = FALSE
    /\ part' = [s \in Slots |-> Unused] /\ mods' = FALSE /\ prev' = {}
    /\ lost' = {i \in Ids : held[i] # {}}
    /\ UNCHANGED <<repeatKey, repeatMods, toSend, newest, timerVars, held, strays>>

InputStep ==
    \/ \E k \in Keys : SendNew(k)
    \/ Pressed \/ Released \/ Unchanged \/ SetMods \/ StopTimer \/ StartTimer \/ Wipe

-----------------------------------------------------------------------------
(* on_repeat_timer(), on the esp_timer task *)

Fire ==
    /\ pcT = "idle" /\ timer /\ timer' = FALSE
    /\ pcT' = IF repeatKey = None THEN "idle" ELSE "check"
    /\ UNCHANGED <<keyVars, repeatKey, repeatMods, inputVars, tKey, held, lost, strays>>

(* Neither the keyboards nor the last report handled have the key down. *)
LetGo(k) == k \notin prev \cup UNION {held[i] : i \in Ids}

(* on_repeat() reads the key once more. *)
Check ==
    /\ pcT = "check" /\ tKey' = repeatKey
    /\ pcT' = IF repeatKey = None THEN "rearm" ELSE "queue"
    /\ UNCHANGED <<keyVars, repeatVars, inputVars, held, lost, strays>>

Repeat ==
    /\ pcT = "queue" /\ pcT' = "rearm" /\ tKey' = None
    /\ strays' = IF LetGo(tKey) THEN strays \cup {tKey} ELSE strays
    /\ UNCHANGED <<keyVars, repeatVars, inputVars, held, lost>>

(* Mistake: not armed again. *)
RearmNot ==
    /\ pcT = "rearm" /\ pcT' = "idle"
    /\ UNCHANGED <<keyVars, repeatVars, inputVars, tKey, held, lost, strays>>

Rearm ==
    /\ pcT = "rearm" /\ pcT' = "idle" /\ Started
    /\ UNCHANGED <<keyVars, repeatKey, repeatMods, inputVars, tKey, held, lost,
                   strays>>

TimerStep == Fire \/ Check \/ Repeat \/ Rearm

(* A report's keys in any order: of an array, that in which they went down.  *)
Reports(id) ==
    UNION {{keys \in [1..n -> KeysIn[id]] : \A i, j \in 1..n : keys[i] = keys[j] => i = j} :
           n \in 0..Cardinality(KeysIn[id])}

Next ==
    \/ \E id \in Ids, shift \in BOOLEAN \cup {None}, rollover \in BOOLEAN :
           \E keys \in Reports(id) : Report(id, keys, shift, rollover)
    \/ ReleaseAll \/ InputStep \/ TimerStep

Spec == Init /\ [][Next]_vars

(* The esp_timer task runs, and a task holding the lock goes on.            *)
FairSpec == Spec /\ WF_vars(TimerStep) /\ WF_vars(InputStep)
-----------------------------------------------------------------------------
(* Properties *)

(* Between reports the keys taken for held are exactly those the keyboards  *)
(* last said are down, whatever number of reports and keyboards they come   *)
(* in, or MaxHeld of them if there are more -- but for reports whose keys    *)
(* were dropped since.                                                      *)
KnowsKeys ==
    LET down == UNION {held[i] : i \in Ids \ lost} IN
    pcI = "idle" => prev \subseteq down /\ (prev = down \/ Cardinality(prev) >= MaxHeld)

(* No key is stuck: the key that repeats is one that is held, and with the  *)
(* modifiers held now.                                                      *)
RepeatsHeldKey ==
    pcI = "idle" /\ repeatKey # None => repeatKey \in prev /\ repeatMods = mods

(* A key let go is sent at most once more: by a repeat that was under way.  *)
OneStray == [][Repeat /\ LetGo(tKey) => tKey \notin strays]_vars

(* A key held down goes on repeating.                                       *)
HeldKeyRepeats == []<>(repeatKey = None \/ pcT = "queue" \/ pcI # "idle")
=============================================================================
