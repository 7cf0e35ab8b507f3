------------------------------- MODULE EspKeys -------------------------------
(***************************************************************************)
(* The built-in keyboards: esp_kbd_tab5.c, esp_kbd_cardputer.c and            *)
(* esp_kbd_tdeck.c of components/esp_kbd, which turn keys that go down and    *)
(* up into what esp_kbd_input() takes, and the tasks that read them (_dev.c). *)
(*                                                                         *)
(* A key has its meaning from the layer and the modifiers as it goes down,   *)
(* and keeps it until it comes up.  A modifier works held, or tapped.        *)
(***************************************************************************)
EXTENDS Naturals, Sequences, FiniteSets

CONSTANTS
    Board,      \* "tab5", "cardputer" or "tdeck"
    MaxEvents,  \* what a keyboard has room for in its queue: ten, or 32
    MaxLost,    \* bound: keys whose last event was lost
    MaxFingers  \* bound: keys down at once, with those

(* Of each keyboard, a key of each kind: its usage, with Shift or not, the   *)
(* same with Sym (Fn), or "none", and on the T-Deck with Sym and Shift.      *)
Key(kind, u, s, sym, t, sym2) ==
    [kind |-> kind, u |-> u, shift |-> s, sym |-> sym, symShift |-> t, sym2 |-> sym2]
Letter(sym, t, sym2) == Key("letter", "a", FALSE, sym, t, sym2)
Mod(bit, sym) == Key("mod", bit, FALSE, sym, FALSE, "none")

KeyTable ==
    CASE Board = "tab5" ->
           <<Key("char", "1", FALSE, "f1", FALSE, "none"), Key("char", "1", TRUE, "/", TRUE, "none"),
             Letter("none", FALSE, "none"), Key("other", "up", FALSE, "pgup", FALSE, "none"),
             Mod("sym", "none"), Mod("shift", "none"), Mod("ctrl", "none")>>
      [] Board = "cardputer" ->
           <<Key("char", "1", FALSE, "f1", FALSE, "none"), Key("arrow", "up", FALSE, ";", FALSE, "none"),
             Letter("none", FALSE, "none"),
             Mod("sym", "none"), Mod("shift", "none"), Mod("ctrl", "none"), Mod("none", "none")>>
      [] OTHER ->
           <<Letter("8", TRUE, "pipe"), Mod("sym", "none"), Mod("ctrl", "0"), Mod("shift", "none"),
             Mod("shift", "none"), Key("char", "4", TRUE, "none", FALSE, "none")>>

Places == DOMAIN KeyTable
Up == [u |-> "none", m |-> {}]

VARIABLES
    press,      \* of each key held, the usage and the modifiers it went down with
    held, latched,      \* modifiers
    symHeld, symLatched,
    caps,
    shifts,     \* Shift keys down (T-Deck)
    tap,        \* the modifier that went down with no key since, or 0
    newest,     \* the key that went down last and is held, or 0
    said,       \* the usages the last report had
    present,    \* the keyboard answers (Tab5)
    matrix,     \* the keys down as they were read (T-Deck)
    raw,        \* the keyboard tells its matrix: s_raw (T-Deck)
    queue,      \* the events the keyboard has, or the changes of the matrix
    down,       \* the keys that fingers are on
    missed      \* history: those whose last event was lost

stateVars == <<press, held, latched, symHeld, symLatched, caps, shifts, tap, newest>>
vars == <<stateVars, said, present, matrix, raw, queue, down, missed>>

IsReset(p) ==
    /\ press' = [i \in Places |-> Up] /\ held' = {} /\ latched' = {} /\ symHeld' = FALSE
    /\ symLatched' = FALSE /\ caps' = FALSE /\ shifts' = 0 /\ tap' = 0 /\ newest' = 0
    /\ present' = p

(* report(): the usages of the keys held.                                   *)
Report == said' = {press'[i].u : i \in Places} \ {"none"}

-----------------------------------------------------------------------------
(* The modifiers *)

(* tapped(): latched for the next key, or let go; Shift goes on to Caps Lock. *)
Tapped(bit) ==
    /\ symLatched' = IF bit = "sym" THEN ~symLatched ELSE symLatched
    /\ IF bit = "shift"
       THEN /\ caps' = (~caps /\ "shift" \in latched)
            /\ latched' = IF caps THEN latched
                          ELSE IF "shift" \in latched THEN latched \ {"shift"}
                          ELSE latched \cup {"shift"}
       ELSE /\ UNCHANGED caps
            /\ latched' = IF bit = "sym" THEN latched
                          ELSE (latched \ {bit}) \cup ({bit} \ latched)

TapIsNone(i) == /\ tap' = 0 /\ UNCHANGED <<latched, symLatched, caps>>

ModifierDown(i, bit) ==
    /\ symHeld' = (symHeld \/ bit = "sym")
    /\ shifts' = IF Board = "tdeck" /\ bit = "shift" THEN shifts + 1 ELSE shifts
    /\ held' = IF bit = "sym" THEN held ELSE held \cup {bit}
    /\ tap' = i /\ UNCHANGED <<latched, symLatched, caps>>

(* The T-Deck has two Shift keys: the other may still be down.              *)
ModifierUp(i, bit) ==
    LET left == IF Board = "tdeck" /\ bit = "shift" /\ shifts > 0 THEN shifts - 1 ELSE 0 IN
    /\ symHeld' = (symHeld /\ bit # "sym")
    /\ shifts' = IF bit = "shift" THEN left ELSE shifts
    /\ held' = IF left > 0 THEN held ELSE held \ {bit}
    /\ IF tap = i THEN Tapped(bit) /\ tap' = 0 ELSE TapIsNone(i)

(* Mistake: what the key would be if it went down now. *)
AsKeyNow(i, d) == (symHeld \/ symLatched) /\ KeyTable[i].sym # "none"

(* A modifier that types with Sym (Mic: 0) is a key while it does.          *)
AsKey(i, d) ==
    IF d THEN (symHeld \/ symLatched) /\ KeyTable[i].sym # "none" ELSE press[i] # Up

IsModifier(i, d) == KeyTable[i].kind = "mod" /\ (Board = "tdeck" => ~AsKey(i, d))

Modifier(i, d) ==
    /\ IsModifier(i, d) /\ UNCHANGED <<press, newest, said>>
    /\ LET bit == KeyTable[i].u IN
        IF bit = "none" THEN UNCHANGED stateVars       \* Opt
        ELSE IF d THEN ModifierDown(i, bit) ELSE ModifierUp(i, bit)

-----------------------------------------------------------------------------
(* The keys *)

InEffect == held \cup latched
Sym == symHeld \/ symLatched
Others == InEffect \ {"shift"}
WithShift(yes) == Others \cup IF yes THEN {"shift"} ELSE {}
LetterShift == ("shift" \in InEffect) # caps

(* esp_kbd_tab5_event(): a symbol key sends its own legend, Aa or not.      *)
Tab5Means(k) ==
    LET sym == Sym /\ k.sym # "none"
        u == IF sym THEN k.sym ELSE k.u
        other == k.kind = "other" \/ u = "f1"
    IN  [u |-> u, m |-> WithShift(CASE k.kind = "letter" -> LetterShift
                                    [] other -> "shift" \in InEffect
                                    [] OTHER -> IF sym THEN k.symShift ELSE k.shift)]

(* esp_kbd_cardputer_event(): Fn's layer is never shifted; with Shift, a key
   whose character is its second meaning types that, shifted.               *)
CardputerMeans(k) ==
    IF Sym /\ k.sym # "none" THEN [u |-> k.sym, m |-> Others]
    ELSE [u |-> IF k.kind = "arrow" /\ "shift" \in InEffect THEN k.sym ELSE k.u,
          m |-> WithShift(IF k.kind = "letter" THEN LetterShift ELSE "shift" \in InEffect)]

(* esp_kbd_tdeck_event(): Shift chooses the layer with Sym, and isn't passed
   on.                                                                      *)
TDeckMeans(k) ==
    LET second == "shift" \in InEffect /\ k.sym2 # "none"
        layer == IF ~Sym THEN "none" ELSE IF second THEN k.sym2 ELSE k.sym
    IN  IF layer # "none" THEN [u |-> layer, m |-> WithShift(second \/ k.symShift)]
        ELSE [u |-> k.u, m |-> WithShift(CASE k.kind = "letter" -> LetterShift
                                           [] k.kind = "char" -> TRUE
                                           [] OTHER -> "shift" \in InEffect)]

Means(k) ==
    CASE Board = "tab5" -> Tab5Means(k)
      [] Board = "cardputer" -> CardputerMeans(k)
      [] OTHER -> TDeckMeans(k)

KeyDown(i) ==
    /\ ~IsModifier(i, TRUE)
    /\ IF press[i] # Up THEN UNCHANGED <<stateVars, said>>     \* down twice: nothing new
       ELSE /\ press' = [press EXCEPT ![i] = Means(KeyTable[i])] /\ newest' = i
            /\ tap' = 0 /\ latched' = {} /\ symLatched' = FALSE
            /\ UNCHANGED <<held, symHeld, caps, shifts>> /\ Report

KeyUp(i) ==
    /\ ~IsModifier(i, FALSE)
    /\ IF press[i] = Up THEN UNCHANGED <<stateVars, said>>
       ELSE /\ press' = [press EXCEPT ![i] = Up] /\ newest' = IF newest = i THEN 0 ELSE newest
            /\ UNCHANGED <<held, latched, symHeld, symLatched, caps, shifts, tap>> /\ Report

-----------------------------------------------------------------------------
(* The tasks that read the keyboards *)

(* An event that was read: drain(), keys().                                 *)
Handle ==
    /\ queue # <<>> /\ present /\ queue' = Tail(queue)
    /\ LET e == Head(queue) IN
        Modifier(e.key, e.down) \/ (e.down /\ KeyDown(e.key)) \/ (~e.down /\ KeyUp(e.key))
    /\ UNCHANGED <<present, matrix, raw, down, missed>>

(* An event is lost, with q still to come: what is known of its key is stale
   if nothing more is to come of it.                                        *)
Loses(e, q) ==
    /\ missed' = IF \E n \in DOMAIN q : q[n].key = e.key THEN missed ELSE missed \cup {e.key}
    /\ Cardinality(missed) < MaxLost

(* drain() of the Cardputer: the chip let an event go, and it was not read.  *)
ReadFails ==
    /\ Board = "cardputer" /\ queue # <<>> /\ queue' = Tail(queue)
    /\ Loses(Head(queue), Tail(queue)) /\ Cardinality(down \cup missed') <= MaxFingers
    /\ UNCHANGED <<stateVars, said, present, matrix, raw, down>>

(* The Tab5's keyboard stops answering: whatever it held is let go.         *)
Detach ==
    /\ Board = "tab5" /\ present
    /\ IsReset(FALSE) /\ said' = {} /\ queue' = <<>> /\ missed' = {}
    /\ UNCHANGED <<matrix, raw, down>>

(* attach(): it answers again; what it had to say is thrown away.           *)
Attach ==
    /\ ~present /\ IsReset(TRUE) /\ queue' = <<>> /\ UNCHANGED <<said, matrix, raw, down, missed>>

(* The T-Deck's is asked for all its keys, and what changed is handled in
   their order.                                                             *)
Changed == {i \in Places : (i \in down) # (i \in matrix)}
InOrder == CHOOSE s \in [1..Cardinality(Changed) -> Changed] :
               \A i, j \in DOMAIN s : i < j => s[i] < s[j]

ReadMatrix ==
    /\ Board = "tdeck" /\ raw /\ queue = <<>> /\ Changed # {} /\ matrix' = down
    /\ queue' = [n \in DOMAIN InOrder |-> [key |-> InOrder[n], down |-> InOrder[n] \in down]]
    /\ UNCHANGED <<stateVars, said, present, raw, down, missed>>

(* An impossible() reading, of other firmware, of a disturbed bus, or of a
   whole row of keys: from then on characters alone are read, for good, what
   was held is not let go, and no more is known of the fingers.             *)
Misread ==
    /\ Board = "tdeck" /\ raw /\ queue = <<>> /\ raw' = FALSE /\ down' = {}
    /\ UNCHANGED <<stateVars, said, present, matrix, queue, missed>>

(* A finger; the keyboard has an event to tell of it, which it loses with its
   queue full, but the T-Deck's, which sees what has changed at the next
   reading.                                                                 *)
Finger(i) ==
    LET e == [key |-> i, down |-> i \notin down] IN
    /\ down' = IF i \in down THEN down \ {i} ELSE down \cup {i}
    /\ \/ Board = "tdeck" /\ raw /\ queue = <<>> /\ UNCHANGED <<queue, missed>>
       \/ ~present /\ UNCHANGED <<queue, missed>>
       \/ /\ Board # "tdeck" /\ present /\ Len(queue) < MaxEvents
          /\ queue' = Append(queue, e) /\ missed' = missed \ {i}
       \/ /\ Board # "tdeck" /\ present /\ Len(queue) >= MaxEvents
          /\ UNCHANGED queue /\ Loses(e, <<>>)
    /\ Cardinality(down' \cup missed') <= MaxFingers
    /\ UNCHANGED <<stateVars, said, present, matrix, raw>>

Init ==
    /\ press = [i \in Places |-> Up] /\ held = {} /\ latched = {} /\ symHeld = FALSE
    /\ symLatched = FALSE /\ caps = FALSE /\ shifts = 0 /\ tap = 0 /\ newest = 0
    /\ said = {} /\ present = (Board # "tab5") /\ matrix = {} /\ queue = <<>> /\ down = {}
    /\ raw = TRUE /\ missed = {}

Next ==
    Handle \/ ReadFails \/ Detach \/ Attach \/ ReadMatrix \/ Misread \/ \E i \in Places : Finger(i)

Spec == Init /\ [][Next]_vars

-----------------------------------------------------------------------------
(* Nothing sticks: with every finger off and all of it read, no key and no
   modifier is held, whatever layers and taps came between a key's going down
   and its coming up (esp_kbd_*_event()).  But for a key whose last event was
   lost, by the chip, its full queue or the bus, and as long as the T-Deck's
   readings are possible ones.                                              *)
NothingSticks ==
    raw /\ down = {} /\ matrix = {} /\ queue = <<>> =>
        /\ \A i \in Places \ missed : press[i] = Up
        /\ held \cup (IF symHeld THEN {"sym"} ELSE {}) \subseteq {KeyTable[i].u : i \in missed}
        /\ said \subseteq {press[i].u : i \in missed}
        /\ newest \in missed \cup {0} /\ shifts = 0
=============================================================================
