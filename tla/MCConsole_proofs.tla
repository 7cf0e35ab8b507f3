--------------------------- MODULE MCConsole_proofs ---------------------------
(***************************************************************************)
(* Proofs about the console, with any keys, keyboards, queue and grid.  The *)
(* devices of MCConsole share no variable: what is proved of one in its own *)
(* specification is found again in the specification of them all.           *)
(***************************************************************************)
EXTENDS MCConsole, FiniteSetTheorems, SequenceTheorems, TLAPS

-----------------------------------------------------------------------------
(* Of each step of all of them, one device's part is a step of its own or    *)
(* nothing.                                                                 *)
LEMMA KbdStep == [AllNext]_allVars => [Next]_vars
  BY DEF AllNext, allVars, inputs, BuiltIn, Moves

LEMMA DisplayStep == [AllNext]_allVars => [Display!Next]_displayVars
  BY DEF AllNext, allVars, screen, BuiltIn, Moves

LEMMA MouseStep == [AllNext]_allVars => [Mouse!Next]_mouseVars
  BY DEF AllNext, allVars, screen, BuiltIn, Moves

LEMMA TouchStep == [AllNext]_allVars => [Touch!Next]_touchVars
  BY DEF AllNext, allVars, screen, BuiltIn, Moves

LEMMA UsbStep == [AllNext]_allVars => [Usb!Next]_usbVars
  BY DEF AllNext, allVars, inputs, BuiltIn, Moves

(* The keyboards as console input go by EspKbd's specification, whatever     *)
(* else is in the run.                                                      *)
THEOREM KbdAlone == AllSpec => Spec
  BY KbdStep, PTL DEF AllSpec, AllInit, Spec

-----------------------------------------------------------------------------
(* EspMouse *)

(* A button that is down is a drag's, of a touch nothing has disturbed, or    *)
(* its release found no room.                                               *)
Dragging ==
    /\ disturbed \in BOOLEAN /\ pressed \in BOOLEAN /\ dropped \in BOOLEAN
    /\ pressed /\ ~disturbed /\ ~dropped =>
          pcM = "touching" /\ gesture = "drag" /\ handler = "terminal" /\ mouse

LEMMA DraggingHolds == Dragging /\ [Mouse!Next]_mouseVars => Dragging'
<1> SUFFICES ASSUME Dragging, [Mouse!Next]_mouseVars PROVE Dragging'
  OBVIOUS
<1> USE DEF Dragging, Mouse!Heard, Mouse!Gesture, Mouse!Unheard, Mouse!fingers, Mouse!routes,
           Mouse!button, Mouse!Press, Mouse!Release, Mouse!Tap
<1>1. CASE Mouse!Down
  BY <1>1 DEF Mouse!Down
<1>2. CASE Mouse!Move
  BY <1>2 DEF Mouse!Move
<1>3. CASE Mouse!Up
  BY <1>3 DEF Mouse!Up
<1>4. CASE Mouse!SetHandler
  BY <1>4 DEF Mouse!SetHandler
<1>5. CASE Mouse!SetMouse
  BY <1>5 DEF Mouse!SetMouse
<1>6. CASE UNCHANGED mouseVars
  BY <1>6 DEF mouseVars
<1>. QED BY <1>1, <1>2, <1>3, <1>4, <1>5, <1>6 DEF Mouse!Next

(* A button Vim was told is pressed is released with the finger, unless the  *)
(* keyboards' queue had no room for the release, or the handler or the mode  *)
(* changed in the middle of the touch (esp_display_touch(), mouse()).        *)
THEOREM ButtonComesUp == AllSpec => []PressIsReleased
<1>1. AllInit => Dragging
  BY DEF AllInit, Mouse!Init, Dragging
<1>2. Dragging /\ [AllNext]_allVars => Dragging'
  BY MouseStep, DraggingHolds
<1>3. Dragging => PressIsReleased
  BY DEF Dragging, PressIsReleased, Mouse!PressIsReleased
<1>. QED BY <1>1, <1>2, <1>3, PTL DEF AllSpec


-----------------------------------------------------------------------------
(* EspDisplay *)

(* A row that does not show the terminal as it is will be drawn again: it is *)
(* damaged, or all are to be painted, or the pairing screen has yet to end,  *)
(* or the display task is where it goes on to one of these.                 *)
Owed(r) ==
    \/ r \in dirty \/ repaint \/ pcO = "up"
    \/ pcD \in {"flipped", "parked", "stopped"}

NoRowForgotten ==
    /\ DOMAIN panel = Display!Rows /\ panel = [r \in Display!Rows |-> panel[r]]
    /\ overlay = (pcO # "none")
    /\ \A r \in Display!Rows : panel[r] = "current" \/ Owed(r)

LEMMA NoRowForgottenHolds == NoRowForgotten /\ [Display!Next]_displayVars => NoRowForgotten'
<1> SUFFICES ASSUME NoRowForgotten, [Display!Next]_displayVars PROVE NoRowForgotten'
  OBVIOUS
<1> USE DEF NoRowForgotten, Owed, Display!requests, Display!flags, Display!display,
            Display!callers, Display!Goes, Display!At, Display!Damage, Display!Outdated,
            Display!Paint, Display!Everywhere
<1>1. CASE Display!Receive
  BY <1>1 DEF Display!Receive
<1>2. CASE Display!ApplyFlip
  BY <1>2 DEF Display!ApplyFlip
<1>3. CASE Display!Flipped
  BY <1>3 DEF Display!Flipped
<1>4. CASE Display!UseFont
  BY <1>4 DEF Display!UseFont
<1>5. CASE Display!TakeSleep
  BY <1>5 DEF Display!TakeSleep
<1>6. CASE Display!Rest
  BY <1>6 DEF Display!Rest
<1>7. CASE Display!Resume
  BY <1>7 DEF Display!Resume
<1>8. CASE Display!Look
  BY <1>8 DEF Display!Look
<1>9. CASE Display!PaintTerminal
  BY <1>9 DEF Display!PaintTerminal
<1>10. CASE Display!Vim
  BY <1>10 DEF Display!Vim, Display!SetFlip, Display!SetFont, Display!FontSet, Display!Write
<1>11. CASE Display!OverlayBegin
  BY <1>11 DEF Display!OverlayBegin
<1>12. ASSUME NEW r \in Display!Rows, Display!OverlayDraw(r) PROVE NoRowForgotten'
  BY <1>12 DEF Display!OverlayDraw
<1>13. CASE Display!OverlayEnd
  BY <1>13 DEF Display!OverlayEnd
<1>14. CASE Display!OverlayEnded
  BY <1>14 DEF Display!OverlayEnded
<1>15. CASE Display!Power
  BY <1>15 DEF Display!Power, Display!AskSleep, Display!Asleep, Display!Wake
<1>16. CASE Display!Boot
  BY <1>16 DEF Display!Boot
<1>17. CASE UNCHANGED displayVars
  BY <1>17 DEF displayVars
<1>. QED
  BY <1>1, <1>2, <1>3, <1>4, <1>5, <1>6, <1>7, <1>8, <1>9, <1>10, <1>11, <1>12, <1>13,
     <1>14, <1>15, <1>16, <1>17 DEF Display!Next, Display!DisplayTask, Display!Pairing

(* Nothing is left behind on the panel: no badge, no overlay, no row in the  *)
(* last font or the wrong way up, whichever of the tasks that ask for them   *)
(* and the display task's looks come first.                                 *)
THEOREM PanelShowsTheTerminal == AllSpec => []ShowsTheTerminal
<1>1. AllInit => NoRowForgotten
  BY DEF AllInit, Display!Init, NoRowForgotten, Owed, Display!Everywhere
<1>2. NoRowForgotten /\ [AllNext]_allVars => NoRowForgotten'
  BY DisplayStep, NoRowForgottenHolds
<1>3. NoRowForgotten => ShowsTheTerminal
  BY DEF NoRowForgotten, Owed, ShowsTheTerminal, Display!ShowsTheTerminal, Display!Settled,
         Display!Everywhere
<1>. QED BY <1>1, <1>2, <1>3, PTL DEF AllSpec


-----------------------------------------------------------------------------
(* EspKbd *)

Parts == [id : Ids \cup {None}, keys : Seq(Keys)]

LEMMA SlotsAreThere == Slots \subseteq Nat /\ MaxParts \in Slots
  BY KbdAssumption DEF Slots

(* Every set of naturals that is not empty has a least.                     *)
LEMMA LeastOfNaturals ==
    ASSUME NEW S \in SUBSET Nat, S # {}
    PROVE  \E s \in S : \A t \in S : s <= t
<1>1. PICK s \in S : \A t \in S : ~ (<<t, s>> \in OpToRel(<, Nat))
  BY NatLessThanWellFounded, WFMin
<1>2. ASSUME NEW t \in S PROVE s <= t
  <2>1. t \in Nat /\ s \in Nat
    OBVIOUS
  <2>2. ~ (t < s)
    BY <1>1, <2>1 DEF OpToRel
  <2>. QED BY <2>1, <2>2
<1>. QED BY <1>2

(* A report's slot is its own if it has one, else one that is unused, else   *)
(* another's.                                                               *)
LEMMA SlotOfIsOwn ==
    ASSUME NEW id
    PROVE  /\ SlotOf(id) \in Slots
           /\ (\E s \in Slots : part[s].id = id) => part[SlotOf(id)].id = id
<1>. DEFINE own   == {s \in Slots : part[s].id = id}
            spare == {s \in Slots : part[s].id = None}
            first == IF own # {} THEN own ELSE spare
<1>1. SlotOf(id) = IF first = {} THEN MaxParts ELSE CHOOSE s \in first : \A t \in first : s <= t
  BY Zenon DEF SlotOf
<1>2. first \in SUBSET Slots
  OBVIOUS
<1>3. first # {} => SlotOf(id) \in first
  <2>1. first \in SUBSET Nat
    BY <1>2, SlotsAreThere
  <2>. HIDE DEF first
  <2>. QED BY <1>1, <2>1, LeastOfNaturals
<1>4. first = {} => SlotOf(id) = MaxParts
  BY <1>1, Zenon
<1>5. SlotOf(id) \in Slots
  <2>. HIDE DEF first
  <2>. QED BY <1>2, <1>3, <1>4, SlotsAreThere
<1>6. ASSUME NEW s \in Slots, part[s].id = id PROVE part[SlotOf(id)].id = id
  <2>1. own # {} /\ first = own
    BY <1>6
  <2>. QED BY <1>3, <2>1
<1>. QED BY <1>5, <1>6

LEMMA MergedIsTyped ==
    ASSUME part \in [Slots -> Parts], NEW id \in Ids, NEW keys \in Seq(Keys),
           NEW rollover \in BOOLEAN
    PROVE  Merged(id, keys, rollover) \in [Slots -> Parts]
<1>1. SlotOf(id) \in Slots
  BY SlotOfIsOwn
<1>. DEFINE s == SlotOf(id)
            had == IF part[s].id = id THEN part[s].keys ELSE <<>>
            new == [id |-> id, keys |-> IF rollover THEN had ELSE keys]
<1>2. part[s] \in Parts
  BY <1>1
<1>3. had \in Seq(Keys)
  BY <1>2 DEF Parts
<1>4. new \in Parts
  BY <1>3 DEF Parts
<1>5. Merged(id, keys, rollover) = [part EXCEPT ![s] = new]
  BY DEF Merged
<1>. HIDE DEF new
<1>. QED BY <1>4, <1>5

LEMMA NothingListed == Listed(<<>>) = {}
  BY DEF Listed

LEMMA KeysOfAreKeys == \A p : KeysOf(p) \subseteq Keys
  BY DEF KeysOf

(* A report lists keys, and those it lists are a set of them.                *)
LEMMA ReportsList ==
    ASSUME NEW id \in Ids, NEW keys \in Reports(id)
    PROVE  keys \in Seq(Keys) /\ Listed(keys) \subseteq KeysIn[id]
<1>1. PICK n \in 0..Cardinality(KeysIn[id]) : keys \in [1..n -> KeysIn[id]]
  BY DEF Reports
<1>2. IsFiniteSet(KeysIn[id]) /\ KeysIn[id] \subseteq Keys
  BY KbdAssumption, FS_Subset
<1>3. n \in Nat
  BY <1>2, FS_CardinalityType
<1>4. keys \in Seq(Keys)
  BY <1>1, <1>2, <1>3
<1>. QED BY <1>1, <1>4 DEF Listed

(* The key that is being repeated is one.                                   *)
KbdTyped == TypeOK /\ (pcT = "queue" => tKey # None)

LEMMA KbdTypedHolds == KbdTyped /\ [Next]_vars => KbdTyped'
<1> SUFFICES ASSUME KbdTyped, [Next]_vars PROVE KbdTyped'
  OBVIOUS
<1> USE DEF KbdTyped, TypeOK, keyVars, repeatVars, inputVars, timerVars
<1>1. ASSUME NEW id \in Ids, NEW shift \in BOOLEAN \cup {None}, NEW rollover \in BOOLEAN,
             NEW keys \in Reports(id), Report(id, keys, shift, rollover)
      PROVE  KbdTyped'
  <2>1. keys \in Seq(Keys) /\ Listed(keys) \in SUBSET Keys
    BY <1>1, ReportsList, KbdAssumption
  <2>2. part' \in [Slots -> Parts]
    BY <1>1, <2>1, MergedIsTyped DEF Report, Parts
  <2>3. toSend' \subseteq Keys
    BY <1>1, <2>2, KeysOfAreKeys DEF Report
  <2>4. held' \in [Ids -> SUBSET Keys] /\ mods' \in BOOLEAN
    BY <1>1, <2>1 DEF Report
  <2>5. \A s \in Slots : part[s].id \in Ids \cup {None}
    OBVIOUS
  <2>6. lost' \subseteq Ids
    BY <1>1, <2>5 DEF Report
  <2>. QED BY <1>1, <2>2, <2>3, <2>4, <2>6 DEF Report, Parts
<1>2. CASE ReleaseAll
  BY <1>2 DEF ReleaseAll
<1>3. ASSUME NEW k \in Keys, SendNew(k) PROVE KbdTyped'
  BY <1>3 DEF SendNew
<1>4. CASE Pressed \/ Released \/ Unchanged
  <2>1. prev' = KeysOf(part)
    BY <1>4 DEF Pressed, Released, Unchanged
  <2>2. prev' \subseteq Keys
    BY <2>1, KeysOfAreKeys DEF Parts
  <2>. QED BY <1>4, <2>2 DEF Pressed, Released, Unchanged
<1>5. CASE SetMods \/ StopTimer \/ StartTimer
  BY <1>5 DEF SetMods, StopTimer, StartTimer, Started
<1>6. CASE Wipe
  <2>1. Unused \in Parts
    BY DEF Unused, Parts
  <2>2. part' \in [Slots -> Parts]
    BY <1>6, <2>1 DEF Wipe
  <2>. QED BY <1>6, <2>2 DEF Wipe, Parts
<1>7. CASE Fire \/ Check \/ Rearm
  BY <1>7 DEF Fire, Check, Rearm, Started
<1>8. CASE Repeat
  <2>1. strays' \subseteq Keys
    BY <1>8 DEF Repeat
  <2>. QED BY <1>8, <2>1, KbdAssumption DEF Repeat
<1>9. CASE UNCHANGED vars
  BY <1>9 DEF vars
<1>. QED
  BY <1>1, <1>2, <1>3, <1>4, <1>5, <1>6, <1>7, <1>8, <1>9
     DEF Next, InputStep, TimerStep


(* Each report has at most one slot, with the keys it last said; one whose   *)
(* keys were dropped has a slot with none, or has no slot; one with no slot  *)
(* said nothing, or was dropped.  As long as esp_kbd_release_all() is not    *)
(* half through.                                                            *)
OneSlotEach ==
    \A s, t \in Slots : part[s].id = part[t].id /\ part[s].id # None => s = t
SlotsSay ==
    \A s \in Slots :
        Listed(part[s].keys) = IF part[s].id \in Ids \ lost THEN held[part[s].id] ELSE {}
SpokenFor ==
    \A i \in Ids \ lost : held[i] = {} \/ \E s \in Slots : part[s].id = i

Known ==
    /\ pcI # "wipe" => OneSlotEach /\ SlotsSay /\ SpokenFor
    /\ pcI \notin {"send", "wipe"} => prev = KeysOf(part)

(* Then the keys in the slots are those the reports last said are down.      *)
All(p) == UNION {Listed(p[s].keys) : s \in Slots}

LEMMA SlotsHaveTheKeys ==
    ASSUME TypeOK, OneSlotEach, SlotsSay, SpokenFor
    PROVE  All(part) = UNION {held[i] : i \in Ids \ lost}
<1>1. ASSUME NEW k \in All(part) PROVE k \in UNION {held[i] : i \in Ids \ lost}
  <2>1. PICK s \in Slots : k \in Listed(part[s].keys)
    BY <1>1 DEF All
  <2>2. part[s].id \in Ids \ lost /\ k \in held[part[s].id]
    BY <2>1 DEF SlotsSay
  <2>. QED BY <2>2
<1>2. ASSUME NEW i \in Ids \ lost, NEW k \in held[i] PROVE k \in All(part)
  <2>1. PICK s \in Slots : part[s].id = i
    BY <1>2 DEF SpokenFor
  <2>2. Listed(part[s].keys) = held[i]
    BY <2>1 DEF SlotsSay
  <2>. QED BY <1>2, <2>2 DEF All
<1>. QED BY <1>1, <1>2

LEMMA BeforeIs ==
    ASSUME NEW p, NEW s, NEW i, NEW l \in Before(p, s, i)
    PROVE  \/ \E t \in 1 .. (s - 1) : l \in Listed(p[t].keys)
           \/ \E j \in 1 .. (i - 1) : l = p[s].keys[j]
<1>1. CASE l \in UNION {Listed(p[t].keys) : t \in 1 .. (s - 1)}
  BY <1>1
<1>2. CASE l \in {p[s].keys[j] : j \in 1 .. (i - 1)}
  BY <1>2
<1>. QED BY <1>1, <1>2 DEF Before

(* Of the keys in the slots, the merged ones: all, or as many as may be.  The *)
(* first place whose key is not merged has that many before it, all merged.  *)
LEMMA MergedKeys ==
    ASSUME NEW p \in [Slots -> Parts]
    PROVE  /\ KeysOf(p) \subseteq All(p)
           /\ KeysOf(p) = All(p) \/ Cardinality(KeysOf(p)) >= MaxHeld
<1>1. ASSUME NEW k \in KeysOf(p) PROVE k \in All(p)
  <2>1. PICK s \in Slots : \E i \in DOMAIN p[s].keys : p[s].keys[i] = k
    BY <1>1 DEF KeysOf
  <2>2. k \in Listed(p[s].keys)
    BY <2>1, Zenon DEF Listed
  <2>. QED BY <2>2, Zenon DEF All
<1>2. Slots \subseteq Nat /\ MaxHeld \in Nat
  BY KbdAssumption DEF Slots
<1>3. \A s \in Slots : p[s].keys \in Seq(Keys)
  BY DEF Parts
<1>4. ASSUME NEW k \in All(p), k \notin KeysOf(p) PROVE Cardinality(KeysOf(p)) >= MaxHeld
  <2>. DEFINE Missing(s) == {i \in DOMAIN p[s].keys : p[s].keys[i] \notin KeysOf(p)}
              Short == {s \in Slots : Missing(s) # {}}
  <2>1. Short # {} /\ Short \subseteq Nat
    BY <1>2, <1>4 DEF All, Listed
  <2>2. PICK s \in Short : \A t \in Short : s <= t
    BY <2>1, LeastOfNaturals
  <2>3. Missing(s) # {} /\ Missing(s) \subseteq Nat /\ s \in Slots
    BY <1>3, <2>2
  <2>4. PICK i \in Missing(s) : \A j \in Missing(s) : i <= j
    BY <2>3, LeastOfNaturals
  <2>. DEFINE key == p[s].keys[i]
              earlier == Before(p, s, i)
  <2>5. i \in DOMAIN p[s].keys /\ key \in Keys /\ key \notin KeysOf(p) /\ i \in 1 .. Len(p[s].keys)
    BY <1>3, <2>3, <2>4
  <2>6. earlier \subseteq KeysOf(p)
    <3>1. ASSUME NEW t \in 1 .. (s - 1), NEW l \in Listed(p[t].keys) PROVE l \in KeysOf(p)
      <4>1. t \in Slots /\ t < s
        BY <2>3, KbdAssumption DEF Slots
      <4>2. t \notin Short
        BY <1>2, <2>2, <2>3, <4>1
      <4>. QED BY <3>1, <4>1, <4>2 DEF Listed
    <3>2. ASSUME NEW j \in 1 .. (i - 1) PROVE p[s].keys[j] \in KeysOf(p)
      <4>1. j \in DOMAIN p[s].keys /\ ~(i <= j)
        BY <1>3, <2>3, <2>5
      <4>2. j \notin Missing(s)
        BY <2>4, <4>1, Zenon
      <4>. QED BY <4>1, <4>2, Zenon
    <3>3. ASSUME NEW l \in earlier PROVE l \in KeysOf(p)
      <4>1. \/ \E t \in 1 .. (s - 1) : l \in Listed(p[t].keys)
            \/ \E j \in 1 .. (i - 1) : l = p[s].keys[j]
        BY <3>3, BeforeIs
      <4>. QED BY <3>1, <3>2, <4>1, Zenon
    <3>. QED BY <3>3, Zenon
  <2>7. IsFiniteSet(KeysOf(p)) /\ IsFiniteSet(earlier)
    BY <2>6, KeysOfAreKeys, KbdAssumption, FS_Subset
  <2>8. earlier \ {key} = earlier
    BY <2>5, <2>6
  <2>9. ~(Cardinality(earlier) < MaxHeld)
    BY <2>3, <2>5, <2>8 DEF KeysOf
  <2>10. Cardinality(earlier) <= Cardinality(KeysOf(p))
    BY <2>6, <2>7, FS_Subset
  <2>. QED BY <1>2, <2>7, <2>9, <2>10, FS_CardinalityType
<1>. QED BY <1>1, <1>4

LEMMA NoKeysOf ==
    ASSUME NEW p, \A s \in Slots : p[s].keys = <<>>
    PROVE  KeysOf(p) = {}
<1>1. \A s \in Slots : \A i \in DOMAIN p[s].keys : FALSE
  BY DEF KeysOf
<1>. QED BY <1>1, Zenon DEF KeysOf

LEMMA ReportIsKnown ==
    ASSUME TypeOK, Known, NEW id \in Ids, NEW shift \in BOOLEAN \cup {None},
           NEW rollover \in BOOLEAN, NEW keys \in Reports(id),
           Report(id, keys, shift, rollover)
    PROVE  Known'
<1>. DEFINE s == SlotOf(id)
            had == IF part[s].id = id THEN part[s].keys ELSE <<>>
            new == [id |-> id, keys |-> IF rollover THEN had ELSE keys]
            goes == (IF rollover THEN lost ELSE lost \ {id}) \cup
                       ((IF part[s].id = id THEN {} ELSE {part[s].id}) \ {None})
<1>1. pcI = "idle" /\ pcI' = "send" /\ OneSlotEach /\ SlotsSay /\ SpokenFor
  BY DEF Report, Known
<1>2. /\ s \in Slots /\ (\A t \in Slots : part[t].id = id => t = s)
      /\ part \in [Slots -> Parts] /\ id # None
  BY <1>1, SlotOfIsOwn, KbdAssumption DEF OneSlotEach, TypeOK, Parts
<1>3. part' = [part EXCEPT ![s] = new]
  BY DEF Report, Merged
<1>4. held' = IF rollover THEN held ELSE [held EXCEPT ![id] = Listed(keys)]
  BY DEF Report
<1>. HIDE DEF s
<1>5. /\ part'[s] = new /\ \A t \in Slots : t # s => part'[t] = part[t]
      /\ new.id = id /\ (rollover => new.keys = had) /\ (~rollover => new.keys = keys)
  BY <1>2, <1>3
<1>. HIDE DEF new
<1>6. ({part[t].id : t \in Slots} \ {part'[t].id : t \in Slots}) \ {None}
         = (IF part[s].id = id THEN {} ELSE {part[s].id}) \ {None}
  BY <1>1, <1>2, <1>5 DEF OneSlotEach
<1>7. lost' = goes
  BY <1>6 DEF Report
<1>8. /\ \A i \in Ids : i # id => held'[i] = held[i] /\ (i \in lost' <=> i \in lost \/ i = part[s].id)
      /\ id \in lost' <=> rollover /\ id \in lost
      /\ held'[id] = IF rollover THEN held[id] ELSE Listed(keys)
  BY <1>2, <1>4, <1>7, KbdAssumption DEF TypeOK
<1>9. OneSlotEach'
  BY <1>1, <1>2, <1>5 DEF OneSlotEach
<1>10. part[s].id # id => Listed(had) = {} /\ (id \in lost \/ held[id] = {})
  BY <1>1, <1>2 DEF SpokenFor, Listed
<1>11. part[s].id = id => Listed(had) = IF id \in lost THEN {} ELSE held[id]
  BY <1>1, <1>2 DEF SlotsSay
<1>. HIDE DEF had, goes
<1>12. SlotsSay'
  <2>1. Listed(part'[s].keys) = IF id \in Ids \ lost' THEN held'[id] ELSE {}
    BY <1>5, <1>8, <1>10, <1>11
  <2>2. ASSUME NEW t \in Slots, t # s
        PROVE  Listed(part'[t].keys) = IF part'[t].id \in Ids \ lost' THEN held'[part'[t].id] ELSE {}
    <3>1. part'[t] = part[t] /\ part[t].id # id
      BY <1>2, <1>5, <2>2
    <3>2. Listed(part[t].keys) = IF part[t].id \in Ids \ lost THEN held[part[t].id] ELSE {}
      BY <1>1 DEF SlotsSay
    <3>3. part[t].id \in Ids => part[t].id # part[s].id
      BY <1>1, <1>2, <2>2, KbdAssumption DEF OneSlotEach
    <3>. QED BY <1>8, <3>1, <3>2, <3>3
  <2>3. part'[s].id = id
    BY <1>5
  <2>. QED BY <2>1, <2>2, <2>3 DEF SlotsSay
<1>13. SpokenFor'
  <2>1. ASSUME NEW i \in Ids \ lost', i # id, held'[i] # {} PROVE \E t \in Slots : part'[t].id = i
    <3>1. i \notin lost /\ i # part[s].id /\ held[i] # {}
      BY <1>8, <2>1
    <3>2. PICK t \in Slots : part[t].id = i
      BY <1>1, <3>1 DEF SpokenFor
    <3>. QED BY <1>5, <3>1, <3>2
  <2>2. part'[s].id = id /\ s \in Slots
    BY <1>2, <1>5
  <2>. QED BY <2>1, <2>2 DEF SpokenFor
<1>. QED BY <1>1, <1>9, <1>12, <1>13 DEF Known

LEMMA KnownHolds == TypeOK /\ Known /\ [Next]_vars => Known'
<1> SUFFICES ASSUME TypeOK, Known, [Next]_vars PROVE Known'
  OBVIOUS
<1> USE DEF keyVars, repeatVars, inputVars, timerVars
<1>1. ASSUME NEW id \in Ids, NEW shift \in BOOLEAN \cup {None}, NEW rollover \in BOOLEAN,
             NEW keys \in Reports(id), Report(id, keys, shift, rollover)
      PROVE  Known'
  BY <1>1, ReportIsKnown
<1>. DEFINE Says == OneSlotEach /\ SlotsSay /\ SpokenFor
<1>2. UNCHANGED <<part, held, lost>> => (Says' <=> Says)
  BY DEF OneSlotEach, SlotsSay, SpokenFor
<1>3. UNCHANGED part => KeysOf(part)' = KeysOf(part)
  BY DEF KeysOf
<1>. HIDE DEF Says
<1>4. Known <=> /\ pcI # "wipe" => Says
                /\ pcI \notin {"send", "wipe"} => prev = KeysOf(part)
  BY DEF Known, Says
<1>5. Known' <=> /\ pcI' # "wipe" => Says'
                 /\ pcI' \notin {"send", "wipe"} => prev' = KeysOf(part)'
  BY DEF Known, Says
<1>6. CASE ReleaseAll
  BY <1>4, <1>5, <1>6 DEF ReleaseAll
<1>7. ASSUME NEW k \in Keys, SendNew(k) PROVE Known'
  BY <1>2, <1>4, <1>5, <1>7 DEF SendNew
<1>8. CASE Pressed \/ Released \/ Unchanged
  BY <1>2, <1>3, <1>4, <1>5, <1>8 DEF Pressed, Released, Unchanged
<1>9. CASE SetMods \/ StopTimer \/ StartTimer
  BY <1>2, <1>3, <1>4, <1>5, <1>9 DEF SetMods, StopTimer, StartTimer
<1>10. CASE Wipe
  <2>1. /\ part' = [t \in Slots |-> Unused] /\ prev' = {}
        /\ lost' = {i \in Ids : held[i] # {}} /\ held' = held
    BY <1>10 DEF Wipe
  <2>2. \A t \in Slots : part'[t].id = None /\ part'[t].keys = <<>>
    BY <2>1 DEF Unused
  <2>3. OneSlotEach' /\ SlotsSay' /\ SpokenFor'
    <3>1. \A t \in Slots : Listed(part'[t].keys) = {} /\ part'[t].id \notin Ids
      BY <2>2, NothingListed, KbdAssumption
    <3>. QED BY <2>1, <2>2, <3>1 DEF OneSlotEach, SlotsSay, SpokenFor
  <2>4. KeysOf(part') = {}
    BY <2>1, <2>2, NoKeysOf
  <2>. QED BY <2>1, <2>3, <2>4 DEF Known
<1>11. CASE TimerStep
  <2>1. UNCHANGED <<keyVars, pcI, held, lost>>
    BY <1>11 DEF TimerStep, Fire, Check, Repeat, Rearm
  <2>. QED BY <1>2, <1>3, <1>4, <1>5, <2>1
<1>12. CASE UNCHANGED vars
  BY <1>2, <1>3, <1>4, <1>5, <1>12 DEF vars
<1>. QED
  BY <1>1, <1>6, <1>7, <1>8, <1>9, <1>10, <1>11, <1>12 DEF Next, InputStep

LEMMA KbdBegins == Init => KbdTyped /\ Known
<1> SUFFICES ASSUME Init PROVE KbdTyped /\ Known
  OBVIOUS
<1>1. Unused \in [id : Ids \cup {None}, keys : Seq(Keys)]
  BY DEF Unused
<1>2. part \in [Slots -> [id : Ids \cup {None}, keys : Seq(Keys)]]
  BY <1>1 DEF Init
<1>4. KbdTyped
  BY <1>2 DEF Init, KbdTyped, TypeOK
<1>5. \A t \in Slots : part[t].id = None /\ part[t].keys = <<>>
  BY DEF Init, Unused
<1>6. OneSlotEach /\ SlotsSay /\ SpokenFor
  <2>1. \A t \in Slots : Listed(part[t].keys) = {} /\ part[t].id \notin Ids
    BY <1>5, NothingListed, KbdAssumption
  <2>. QED BY <1>5, <2>1 DEF Init, OneSlotEach, SlotsSay, SpokenFor
<1>7. KeysOf(part) = {}
  BY <1>5, NoKeysOf
<1>. QED BY <1>4, <1>6, <1>7 DEF Known, Init

(* Every variable of the keyboards as input holds a value of its kind.      *)
THEOREM KbdIsTyped == Spec => []TypeOK
<1>1. KbdTyped => TypeOK
  BY DEF KbdTyped
<1>. QED BY <1>1, KbdBegins, KbdTypedHolds, PTL DEF Spec

(* Between reports the keys taken for held are those the keyboards last said *)
(* are down, or as many of them as there is room for, however many reports   *)
(* share how many slots, but for reports dropped since (esp_kbd_merge()).    *)
THEOREM HeldKeysAreKnown == Spec => []KnowsKeys
<1>1. TypeOK /\ Known => KnowsKeys
  <2> SUFFICES ASSUME TypeOK, Known, pcI = "idle"
      PROVE  LET known == UNION {held[i] : i \in Ids \ lost} IN
             prev \subseteq known /\ (prev = known \/ Cardinality(prev) >= MaxHeld)
    BY DEF KnowsKeys
  <2>1. part \in [Slots -> Parts] /\ prev = KeysOf(part)
    BY DEF Known, TypeOK, Parts
  <2>2. All(part) = UNION {held[i] : i \in Ids \ lost}
    BY SlotsHaveTheKeys DEF Known
  <2>. QED BY <2>1, <2>2, MergedKeys
<1>2. KbdTyped => TypeOK
  BY DEF KbdTyped
<1>. QED BY <1>1, <1>2, KbdBegins, KbdTypedHolds, KnownHolds, PTL DEF Spec


(* The key that repeats is one that is held, with the modifiers there are.   *)
Repeating ==
    /\ repeatKey # None => repeatKey \in prev
    /\ pcI \in {"release", "wipe"} => repeatKey = None
    /\ repeatKey # None /\ pcI \in {"stop", "start", "idle"} => repeatMods = mods

(* A key that appeared is one a report said, and is sent before it counts as *)
(* held; a key that strayed is not held until it was sent again, nor is it   *)
(* the one being repeated.                                                  *)
Straying ==
    /\ pcI = "send" => /\ toSend \subseteq KeysOf(part)
                       /\ newest \in KeysOf(part) \cup {None}
                       /\ strays \cap KeysOf(part) \subseteq toSend
    /\ strays \cap prev = {} /\ tKey \notin strays

KbdInv == KbdTyped /\ Known /\ Repeating /\ Straying

LEMMA RepeatingHolds == KbdInv /\ [Next]_vars => Repeating'
<1> SUFFICES ASSUME KbdInv, [Next]_vars PROVE Repeating'
  OBVIOUS
<1> USE DEF KbdInv, Repeating, keyVars, repeatVars, inputVars, timerVars
<1>1. ASSUME NEW id \in Ids, NEW shift \in BOOLEAN \cup {None}, NEW rollover \in BOOLEAN,
             NEW keys \in Reports(id), Report(id, keys, shift, rollover)
      PROVE  Repeating'
  BY <1>1 DEF Report
<1>2. CASE ReleaseAll
  BY <1>2 DEF ReleaseAll
<1>3. ASSUME NEW k \in Keys, SendNew(k) PROVE Repeating'
  BY <1>3 DEF SendNew
<1>4. CASE Pressed
  <2>1. repeatKey' \in prev' /\ pcI' = "mods"
    BY <1>4 DEF Pressed, Straying
  <2>. QED BY <2>1
<1>5. CASE Released
  BY <1>5 DEF Released
<1>6. CASE Unchanged
  BY <1>6 DEF Unchanged
<1>7. CASE SetMods \/ StopTimer \/ StartTimer
  BY <1>7 DEF SetMods, StopTimer, StartTimer
<1>8. CASE Wipe
  BY <1>8 DEF Wipe
<1>9. CASE TimerStep
  <2>1. UNCHANGED <<keyVars, repeatKey, repeatMods, pcI>>
    BY <1>9 DEF TimerStep, Fire, Check, Repeat, Rearm
  <2>. QED BY <2>1
<1>10. CASE UNCHANGED vars
  BY <1>10 DEF vars
<1>. QED
  BY <1>1, <1>2, <1>3, <1>4, <1>5, <1>6, <1>7, <1>8, <1>9, <1>10 DEF Next, InputStep

LEMMA StrayingHolds == KbdInv /\ [Next]_vars => Straying'
<1> SUFFICES ASSUME KbdInv, [Next]_vars PROVE Straying'
  OBVIOUS
<1> USE DEF keyVars, repeatVars, inputVars, timerVars
<1>0. /\ None \notin strays /\ (pcT = "queue" => tKey # None)
      /\ repeatKey # None => repeatKey \in prev
  BY KbdAssumption DEF KbdInv, KbdTyped, TypeOK, Repeating
<1>1. ASSUME NEW id \in Ids, NEW shift \in BOOLEAN \cup {None}, NEW rollover \in BOOLEAN,
             NEW keys \in Reports(id), Report(id, keys, shift, rollover)
      PROVE  Straying'
  <2>1. /\ toSend' = KeysOf(part') \ prev /\ newest' = None
        /\ UNCHANGED <<prev, strays, tKey>>
    BY <1>1 DEF Report
  <2>. QED BY <2>1 DEF KbdInv, Straying
<1>. DEFINE Sends == /\ toSend \subseteq KeysOf(part)
                     /\ newest \in KeysOf(part) \cup {None}
                     /\ strays \cap KeysOf(part) \subseteq toSend
<1>2. UNCHANGED part => KeysOf(part)' = KeysOf(part)
  BY DEF KeysOf
<1>3. UNCHANGED <<part, toSend, newest, strays>> => (Sends' <=> Sends)
  BY <1>2
<1>4. /\ pcI = "send" => Sends
      /\ strays \cap prev = {} /\ tKey \notin strays
  BY DEF KbdInv, Straying
<1>5. Straying' <=> /\ pcI' = "send" => Sends'
                    /\ strays' \cap prev' = {} /\ tKey' \notin strays'
  BY DEF Straying
<1>6. CASE ReleaseAll
  BY <1>4, <1>5, <1>6 DEF ReleaseAll
<1>7. ASSUME NEW k \in Keys, SendNew(k) PROVE Straying'
  <2>1. /\ pcI = "send" /\ UNCHANGED <<part, prev, tKey>> /\ k \in toSend
        /\ toSend' = toSend \ {k} /\ strays' = strays \ {k}
        /\ newest' = k \/ newest' = newest
    BY <1>7 DEF SendNew
  <2>. QED BY <1>2, <1>4, <1>5, <2>1
<1>8. CASE Pressed \/ Released \/ Unchanged
  <2>1. /\ pcI = "send" /\ pcI' # "send" /\ toSend = {} /\ prev' = KeysOf(part)
        /\ UNCHANGED <<strays, tKey>>
    BY <1>8 DEF Pressed, Released, Unchanged
  <2>. HIDE DEF KbdInv
  <2>. QED BY <1>4, <1>5, <2>1
<1>9. CASE SetMods \/ StopTimer \/ StartTimer \/ Wipe
  <2>1. /\ pcI' # "send" /\ UNCHANGED <<strays, tKey>> /\ (prev' = prev \/ prev' = {})
    BY <1>9 DEF SetMods, StopTimer, StartTimer, Wipe
  <2>. QED BY <1>4, <1>5, <2>1
<1>10. CASE Fire \/ Rearm
  <2>1. UNCHANGED <<part, prev, toSend, newest, pcI, strays, tKey>>
    BY <1>10 DEF Fire, Rearm
  <2>. HIDE DEF Sends
  <2>. QED BY <1>3, <1>4, <1>5, <2>1
<1>11. CASE Check
  <2>1. UNCHANGED <<part, prev, toSend, newest, pcI, strays>> /\ tKey' = repeatKey
    BY <1>11 DEF Check
  <2>2. tKey' \notin strays
    BY <1>0, <1>4, <2>1
  <2>. HIDE DEF Sends
  <2>. QED BY <1>3, <1>4, <1>5, <2>1, <2>2
<1>12. CASE Repeat
  <2>1. /\ UNCHANGED <<part, prev, toSend, newest, pcI>> /\ tKey' = None /\ tKey # None
        /\ strays' = IF LetGo(tKey) THEN strays \cup {tKey} ELSE strays
    BY <1>0, <1>12 DEF Repeat
  <2>2. LetGo(tKey) => tKey \notin prev /\ tKey \notin UNION {held[i] : i \in Ids}
    BY DEF LetGo
  <2>3. pcI = "send" => KeysOf(part) \subseteq UNION {held[i] : i \in Ids}
    <3>1. pcI = "send" => All(part) = UNION {held[i] : i \in Ids \ lost}
      BY SlotsHaveTheKeys DEF KbdInv, KbdTyped, Known
    <3>2. KeysOf(part) \subseteq All(part)
      BY MergedKeys DEF KbdInv, KbdTyped, TypeOK, Parts
    <3>. QED BY <3>1, <3>2
  <2>4. strays' \cap prev' = {} /\ tKey' \notin strays'
    BY <1>0, <1>4, <2>1, <2>2
  <2>5. pcI = "send" => strays' \cap KeysOf(part) = strays \cap KeysOf(part)
    BY <2>1, <2>2, <2>3
  <2>. QED BY <1>2, <1>4, <1>5, <2>1, <2>4, <2>5
<1>13. CASE UNCHANGED vars
  <2>1. UNCHANGED <<part, prev, toSend, newest, pcI, strays, tKey>>
    BY <1>13 DEF vars
  <2>. HIDE DEF Sends
  <2>. QED BY <1>3, <1>4, <1>5, <2>1
<1>. QED
  BY <1>1, <1>6, <1>7, <1>8, <1>9, <1>10, <1>11, <1>12, <1>13 DEF Next, InputStep, TimerStep

LEMMA KbdInvHolds ==
    /\ Init => KbdInv
    /\ KbdInv /\ [Next]_vars => KbdInv'
<1>1. Init => Repeating
  BY DEF Init, Repeating
<1>2. Init => Straying
  BY DEF Init, Straying
<1>3. KbdInv => TypeOK
  BY DEF KbdInv, KbdTyped
<1>. QED
  BY <1>1, <1>2, <1>3, KbdBegins, KbdTypedHolds, KnownHolds, RepeatingHolds, StrayingHolds
     DEF KbdInv

(* No key is stuck: between reports the key that repeats is one that is      *)
(* held, with the modifiers held now.                                       *)
THEOREM NoKeyIsStuck == Spec => []RepeatsHeldKey
<1>1. KbdInv => RepeatsHeldKey
  BY DEF KbdInv, Repeating, RepeatsHeldKey
<1>. QED BY <1>1, KbdInvHolds, PTL DEF Spec

(* A key let go is sent once more at most, by a repeat that was under way,   *)
(* although the timer's task takes no lock (on_repeat_timer()).             *)
THEOREM StraysOnce == Spec => OneStray
<1>1. KbdInv /\ [Next]_vars => [Repeat /\ LetGo(tKey) => tKey \notin strays]_vars
  BY DEF KbdInv, Straying
<1>. QED BY <1>1, KbdInvHolds, PTL DEF Spec, OneStray


-----------------------------------------------------------------------------
(* EspUsbKbd *)

Opening == pc \in {"open", "layout", "start"}

UsbTyped ==
    /\ plugged \subseteq UsbKbds /\ gone \subseteq UsbKbds /\ started \subseteq plugged
    /\ plugged \cap gone = {}
    /\ usbFound \in Seq(UsbKbds) /\ handle \in [UsbSlots -> UsbKbds \cup {None}]
    /\ usbSaid \in [UsbSlots -> SUBSET {"key"}]
    /\ pc \in {"idle", "open", "layout", "start", "wired"} /\ (pc # "idle" => slot \in UsbSlots)

(* A keyboard is at one place: one slot's, or once in the queue.            *)
AtOnePlace ==
    /\ \A i, j \in UsbSlots : handle[i] = handle[j] /\ handle[i] # None => i = j
    /\ \A m, n \in DOMAIN usbFound : usbFound[m] = usbFound[n] => m = n
    /\ \A n \in DOMAIN usbFound, i \in UsbSlots : handle[i] # usbFound[n]

(* Only what has a slot, and was opened, sends reports; what a slot says, a  *)
(* keyboard says that is plugged in, or whose going is still to be told.    *)
SaysByDevice ==
    /\ \A k \in started : \E i \in UsbSlots : handle[i] = k
    /\ Opening => handle[slot] \notin started /\ usbSaid[slot] = {}
    /\ \A i \in UsbSlots : usbSaid[i] # {} => handle[i] \in plugged \cup gone

UsbInv == UsbTyped /\ AtOnePlace /\ SaysByDevice

LEMMA UsbInvHolds ==
    ASSUME None \notin UsbKbds, UsbSlots \subseteq Nat, UsbInv, [Usb!Next]_usbVars
    PROVE  UsbInv'
<1> USE DEF Usb!openVars, Usb!Holds
<1>1. ASSUME NEW k \in UsbKbds, Usb!Plug(k) PROVE UsbInv'
  <2>1. /\ k \notin plugged \cup gone /\ plugged' = plugged \cup {k}
        /\ \A i \in UsbSlots : handle[i] # k
        /\ \A n \in DOMAIN usbFound : usbFound[n] # k
        /\ UNCHANGED <<gone, handle, started, pc, slot, usbSaid>>
        /\ usbFound' = Append(usbFound, k) \/ usbFound' = usbFound
    BY <1>1 DEF Usb!Plug
  <2>2. /\ Append(usbFound, k) \in Seq(UsbKbds) /\ Len(usbFound) \in Nat
        /\ DOMAIN usbFound = 1 .. Len(usbFound)
        /\ DOMAIN Append(usbFound, k) = 1 .. Len(usbFound) + 1
        /\ \A n \in 1 .. Len(usbFound) : Append(usbFound, k)[n] = usbFound[n]
        /\ Append(usbFound, k)[Len(usbFound) + 1] = k
    BY AppendProperties, LenProperties DEF UsbInv, UsbTyped
  <2>3. \A n \in DOMAIN usbFound' :
            \/ n \in DOMAIN usbFound /\ usbFound'[n] = usbFound[n]
            \/ n = Len(usbFound) + 1 /\ usbFound'[n] = k
    <3>1. CASE usbFound' = usbFound
      BY <3>1
    <3>2. ASSUME usbFound' = Append(usbFound, k), NEW n \in DOMAIN usbFound'
          PROVE  \/ n \in DOMAIN usbFound /\ usbFound'[n] = usbFound[n]
                 \/ n = Len(usbFound) + 1 /\ usbFound'[n] = k
      <4>1. n \in 1 .. Len(usbFound) + 1
        BY <2>2, <3>2
      <4>2. n \in 1 .. Len(usbFound) \/ n = Len(usbFound) + 1
        BY <2>2, <4>1
      <4>. QED BY <2>2, <3>2, <4>2
    <3>. QED BY <2>1, <3>1, <3>2
  <2>4. UsbTyped'
    BY <2>1, <2>2 DEF UsbInv, UsbTyped
  <2>5. AtOnePlace'
    BY <2>1, <2>2, <2>3 DEF UsbInv, AtOnePlace
  <2>6. SaysByDevice'
    BY <2>1 DEF UsbInv, SaysByDevice, Opening
  <2>. QED BY <2>4, <2>5, <2>6 DEF UsbInv
<1>2. ASSUME NEW k \in UsbKbds, Usb!Unplug(k) PROVE UsbInv'
  <2>1. UsbTyped' /\ AtOnePlace'
    BY <1>2 DEF Usb!Unplug, UsbInv, UsbTyped, AtOnePlace
  <2>2. SaysByDevice'
    BY <1>2 DEF Usb!Unplug, UsbInv, UsbTyped, SaysByDevice, Opening
  <2>. QED BY <2>1, <2>2 DEF UsbInv
<1>3. ASSUME NEW k \in UsbKbds, Usb!Disconnected(k) PROVE UsbInv'
  <2>1. /\ k \in gone /\ gone' = gone \ {k}
        /\ UNCHANGED <<plugged, usbFound, started, pc, slot>>
        /\ usbSaid' = [i \in UsbSlots |-> IF handle[i] = k THEN {} ELSE usbSaid[i]]
        /\ handle' = [i \in UsbSlots |-> IF handle[i] = k THEN None ELSE handle[i]]
    BY <1>3 DEF Usb!Disconnected, Usb!LetGo
  <2>2. UsbTyped'
    BY <2>1 DEF UsbInv, UsbTyped
  <2>3. AtOnePlace'
    BY <2>1 DEF UsbInv, UsbTyped, AtOnePlace
  <2>4. k \notin started /\ None \notin started
    BY <2>1 DEF UsbInv, UsbTyped
  <2>5. SaysByDevice'
    BY <2>1, <2>4 DEF UsbInv, UsbTyped, SaysByDevice, Opening
  <2>. QED BY <2>2, <2>3, <2>5 DEF UsbInv
<1>4. ASSUME NEW k \in UsbKbds, NEW keys \in {{}, {"key"}}, Usb!OnReport(k, keys) PROVE UsbInv'
  <2>1. /\ k \in plugged \cap started
        /\ usbSaid' = [i \in UsbSlots |-> IF handle[i] = k THEN keys ELSE usbSaid[i]]
        /\ UNCHANGED <<plugged, gone, usbFound, handle, started, pc, slot>>
    BY <1>4 DEF Usb!OnReport
  <2>2. UsbTyped' /\ AtOnePlace'
    BY <2>1 DEF UsbInv, UsbTyped, AtOnePlace
  <2>3. Opening => slot \in UsbSlots /\ handle[slot] # k
    BY <2>1 DEF UsbInv, UsbTyped, SaysByDevice, Opening
  <2>4. SaysByDevice'
    BY <2>1, <2>3 DEF UsbInv, UsbTyped, SaysByDevice, Opening
  <2>. QED BY <2>2, <2>4 DEF UsbInv
<1>5. CASE Usb!TellWired
  BY <1>5 DEF Usb!TellWired, UsbInv, UsbTyped, AtOnePlace, SaysByDevice, Opening
<1>6. CASE Usb!Take
  <2>1. /\ pc = "idle" /\ usbFound # << >> /\ usbFound' = Tail(usbFound)
        /\ UNCHANGED <<plugged, gone, started, usbSaid>>
    BY <1>6 DEF Usb!Take
  <2>2. /\ usbFound \in Seq(UsbKbds) /\ Tail(usbFound) \in Seq(UsbKbds)
        /\ Len(usbFound) \in Nat /\ DOMAIN usbFound = 1 .. Len(usbFound)
        /\ Head(usbFound) = usbFound[1] /\ 1 \in DOMAIN usbFound
        /\ \A n \in DOMAIN Tail(usbFound) :
              n + 1 \in DOMAIN usbFound /\ n \in Nat \ {0} /\ Tail(usbFound)[n] = usbFound[n + 1]
    BY <2>1 DEF UsbInv, UsbTyped
  <2>3. /\ \A n \in DOMAIN usbFound' : usbFound'[n] # Head(usbFound)
        /\ \A m, n \in DOMAIN usbFound' : usbFound'[m] = usbFound'[n] => m = n
        /\ \A n \in DOMAIN usbFound', i \in UsbSlots : handle[i] # usbFound'[n]
    BY <2>1, <2>2 DEF UsbInv, AtOnePlace
  <2>4. CASE UNCHANGED <<handle, pc, slot>>
    BY <2>1, <2>2, <2>3, <2>4 DEF UsbInv, UsbTyped, AtOnePlace, SaysByDevice, Opening
  <2>5. CASE ~UNCHANGED <<handle, pc, slot>>
    <3>. DEFINE k == Head(usbFound)
    <3>1. /\ k \in plugged /\ Usb!SlotOfNone # None /\ slot' = Usb!SlotOfNone /\ pc' = "open"
          /\ handle' = [handle EXCEPT ![Usb!SlotOfNone] = k]
      BY <1>6, <2>5 DEF Usb!Take
    <3>. DEFINE free == {i \in UsbSlots : handle[i] = None}
    <3>2. free # {} /\ Usb!SlotOfNone = CHOOSE i \in free : \A j \in free : i <= j
      BY <3>1, Zenon DEF Usb!SlotOfNone
    <3>3. \E i \in free : \A j \in free : i <= j
      <4>1. free \subseteq Nat
        OBVIOUS
      <4>. HIDE DEF free
      <4>. QED BY <3>2, <4>1, LeastOfNaturals
    <3>4. Usb!SlotOfNone \in free
      <4>. HIDE DEF free
      <4>. QED BY <3>2, <3>3
    <3>5. slot' \in UsbSlots /\ handle[slot'] = None /\ handle' = [handle EXCEPT ![slot'] = k]
      BY <3>1, <3>4
    <3>6. k \in UsbKbds /\ k # None /\ \A i \in UsbSlots : handle[i] # k
      BY <2>2, <3>1 DEF UsbInv, UsbTyped, AtOnePlace
    <3>7. UsbTyped'
      BY <2>1, <2>2, <3>1, <3>5, <3>6 DEF UsbInv, UsbTyped
    <3>8. AtOnePlace'
      BY <2>1, <2>3, <3>5, <3>6 DEF UsbInv, UsbTyped, AtOnePlace
    <3>9. k \notin started /\ usbSaid[slot'] = {}
      BY <3>5, <3>6 DEF UsbInv, UsbTyped, SaysByDevice
    <3>10. SaysByDevice'
      BY <2>1, <3>1, <3>5, <3>9 DEF UsbInv, UsbTyped, SaysByDevice, Opening
    <3>. QED BY <3>7, <3>8, <3>10 DEF UsbInv
  <2>. QED BY <2>4, <2>5
<1>7. CASE Usb!Open
  <2>0. /\ Opening /\ UNCHANGED <<plugged, usbFound, usbSaid>> /\ slot \in UsbSlots
        /\ handle[slot] \notin started /\ usbSaid[slot] = {}
    BY <1>7 DEF Usb!Open, Opening, UsbInv, UsbTyped, SaysByDevice
  <2>1. CASE /\ handle[slot] \in plugged
             /\ pc' = (CASE pc = "open" -> "layout" [] pc = "layout" -> "start" [] OTHER -> "wired")
             /\ started' = IF pc = "start" THEN started \cup {handle[slot]} ELSE started
             /\ UNCHANGED <<handle, slot, gone>>
    <3>1. UsbTyped'
      BY <2>0, <2>1 DEF UsbInv, UsbTyped
    <3>2. AtOnePlace'
      BY <2>0, <2>1 DEF UsbInv, AtOnePlace
    <3>3. Opening' => started' = started
      BY <2>0, <2>1 DEF Opening
    <3>4. SaysByDevice'
      BY <2>0, <2>1, <3>3 DEF UsbInv, UsbTyped, SaysByDevice
    <3>. QED BY <3>1, <3>2, <3>4 DEF UsbInv
  <2>2. CASE /\ pc' = "idle" /\ slot' = None /\ handle' = [handle EXCEPT ![slot] = None]
             /\ started' = started \ {handle[slot]}
             /\ gone' = gone \ {handle[slot]}
    <3>1. UsbTyped'
      BY <2>0, <2>2 DEF UsbInv, UsbTyped
    <3>2. AtOnePlace'
      BY <2>0, <2>2 DEF UsbInv, UsbTyped, AtOnePlace
    <3>3. \A i \in UsbSlots : i # slot /\ handle[i] # None => handle[i] # handle[slot]
      BY <2>0 DEF UsbInv, AtOnePlace
    <3>4. None \notin plugged \cup gone /\ ~Opening'
      BY <2>2 DEF UsbInv, UsbTyped, Opening
    <3>5. SaysByDevice'
      BY <2>0, <2>2, <3>3, <3>4 DEF UsbInv, UsbTyped, SaysByDevice
    <3>. QED BY <3>1, <3>2, <3>5 DEF UsbInv
  <2>. QED BY <1>7, <2>1, <2>2 DEF Usb!Open
<1>8. CASE Usb!Count
  BY <1>8 DEF Usb!Count, UsbInv, UsbTyped, AtOnePlace, SaysByDevice, Opening
<1>9. CASE Usb!Tell
  BY <1>9 DEF Usb!Tell, UsbInv, UsbTyped, AtOnePlace, SaysByDevice, Opening
<1>10. CASE UNCHANGED usbVars
  BY <1>10 DEF usbVars, UsbInv, UsbTyped, AtOnePlace, SaysByDevice, Opening
<1>. QED
  BY <1>1, <1>2, <1>3, <1>4, <1>5, <1>6, <1>7, <1>8, <1>9, <1>10 DEF Usb!Next

(* A USB keyboard that was unplugged holds no key, wherever in its opening   *)
(* it went, and no slot is two keyboards'.                                  *)
THEOREM UsbKeysAreLetGo == AllSpec => []Usb!UsbLetsGo
<1>1. AllInit => UsbInv
  <2>1. << >> \in Seq(UsbKbds) /\ DOMAIN << >> = {}
    OBVIOUS
  <2>. QED BY <2>1 DEF AllInit, Usb!Init, UsbInv, UsbTyped, AtOnePlace, SaysByDevice, Opening
<1>2. UsbInv /\ [AllNext]_allVars => UsbInv'
  BY ConsoleAssumption, UsbStep, UsbInvHolds
<1>3. ASSUME UsbInv PROVE Usb!UsbLetsGo
  <2>1. ASSUME NEW k \in UsbKbds PROVE Usb!Cardinality(Usb!Holds(k)) <= 1
    <3>1. Usb!Cardinality(Usb!Holds(k)) = Cardinality(Usb!Holds(k))
      BY Zenon DEF Usb!Cardinality, Cardinality
    <3>2. CASE Usb!Holds(k) = {}
      BY <3>1, <3>2, FS_EmptySet
    <3>3. CASE Usb!Holds(k) # {}
      <4>1. PICK i \in UsbSlots : handle[i] = k
        BY <3>3 DEF Usb!Holds
      <4>2. Usb!Holds(k) = {i}
        BY ConsoleAssumption, <1>3, <2>1, <4>1 DEF Usb!Holds, UsbInv, AtOnePlace
      <4>3. Cardinality({i}) = 1
        BY FS_Singleton
      <4>. QED BY <3>1, <4>2, <4>3
    <3>. QED BY <3>2, <3>3
  <2>. QED BY <1>3, <2>1 DEF UsbInv, SaysByDevice, Usb!UsbLetsGo
<1>. QED BY <1>1, <1>2, <1>3, PTL DEF AllSpec


-----------------------------------------------------------------------------
(* EspKeys, of any of the three boards *)

Three == {"tab5", "cardputer", "tdeck"}
Key(b, i) == Keyboard(b)!KeyTable[i]
Places(b) == Keyboard(b)!Places
Off == [u |-> "none", m |-> {}]

(* Of the tables: a key that is not a modifier has a usage, an arrow a       *)
(* second one, and the T-Deck's Shift keys have nothing with Sym.           *)
LEMMA TablesAre ==
    ASSUME NEW b \in Three
    PROVE  /\ Places(b) = IF b = "tdeck" THEN 1 .. 6 ELSE 1 .. 7
           /\ \A i \in Places(b) : Key(b, i).kind # "mod" => Key(b, i).u # "none"
           /\ \A i \in Places(b) : Key(b, i).kind = "arrow" => Key(b, i).sym # "none"
           /\ b = "tdeck" => \A i \in Places(b) :
                 /\ Key(b, i).kind = "mod" => Key(b, i).u # "none"
                 /\ i \in {4, 5} <=> Key(b, i).kind = "mod" /\ Key(b, i).u = "shift"
                 /\ i \in {4, 5} => Key(b, i).sym = "none"
<1>. USE DEF Places, Key, Keyboard!Places, Keyboard!KeyTable, Keyboard!Key, Keyboard!Letter,
             Keyboard!Mod
<1>1. CASE b = "tab5"
  BY <1>1
<1>2. CASE b = "cardputer"
  <2>1. Places(b) = 1 .. 7
    BY <1>2
  <2>2. /\ Key(b, 1).kind = "char" /\ Key(b, 1).u = "1"
        /\ Key(b, 2).kind = "arrow" /\ Key(b, 2).u = "up" /\ Key(b, 2).sym = ";"
        /\ Key(b, 3).kind = "letter" /\ Key(b, 3).u = "a"
        /\ Key(b, 4).kind = "mod" /\ Key(b, 5).kind = "mod"
        /\ Key(b, 6).kind = "mod" /\ Key(b, 7).kind = "mod"
    BY <1>2
  <2>3. \A i \in Places(b) : i \in {1, 2, 3, 4, 5, 6, 7}
    BY <2>1
  <2>. HIDE DEF Places, Key
  <2>. QED BY <1>2, <2>1, <2>2, <2>3
<1>3. CASE b = "tdeck"
  <2>1. Places(b) = 1 .. 6
    BY <1>3
  <2>2. /\ Key(b, 1).kind = "letter" /\ Key(b, 1).u = "a"
        /\ Key(b, 2).kind = "mod" /\ Key(b, 2).u = "sym"
        /\ Key(b, 3).kind = "mod" /\ Key(b, 3).u = "ctrl"
        /\ Key(b, 4).kind = "mod" /\ Key(b, 4).u = "shift" /\ Key(b, 4).sym = "none"
        /\ Key(b, 5).kind = "mod" /\ Key(b, 5).u = "shift" /\ Key(b, 5).sym = "none"
        /\ Key(b, 6).kind = "char" /\ Key(b, 6).u = "4"
    BY <1>3
  <2>3. \A i \in Places(b) : i \in {1, 2, 3, 4, 5, 6}
    BY <2>1
  <2>. HIDE DEF Places, Key
  <2>. QED BY <1>3, <2>1, <2>2, <2>3
<1>. QED BY <1>1, <1>2, <1>3 DEF Three

(* A key that goes down means something.                                    *)
LEMMA KeysMeanSomething ==
    ASSUME NEW b \in Three, NEW i \in Places(b), ~Keyboard(b)!IsModifier(i, TRUE)
    PROVE  Keyboard(b)!Means(Key(b, i)) # Off
<1>. DEFINE k == Key(b, i)
<1>1. /\ k.kind # "mod" => k.u # "none"
      /\ k.kind = "arrow" => k.sym # "none"
  BY TablesAre
<1>2. k.kind = "mod" => b = "tdeck" /\ Keyboard(b)!Sym /\ k.sym # "none"
  BY DEF Key, Keyboard!IsModifier, Keyboard!AsKey, Keyboard!Sym
<1>. HIDE DEF k
<1>3. CASE b = "tab5"
  <2>1. Keyboard(b)!Tab5Means(k).u # "none"
    BY <1>1, <1>2, <1>3 DEF Keyboard!Tab5Means
  <2>. QED BY <1>3, <2>1 DEF Keyboard!Means, Off, k
<1>4. CASE b = "cardputer"
  <2>1. Keyboard(b)!CardputerMeans(k).u # "none"
    BY <1>1, <1>2, <1>4 DEF Keyboard!CardputerMeans
  <2>. QED BY <1>4, <2>1 DEF Keyboard!Means, Off, k
<1>5. CASE b = "tdeck"
  <2>1. Keyboard(b)!TDeckMeans(k).u # "none"
    BY <1>1, <1>2, <1>5 DEF Keyboard!TDeckMeans
  <2>. QED BY <1>5, <2>1 DEF Keyboard!Means, Off, k
<1>. QED BY <1>3, <1>4, <1>5 DEF Three

(* S: the keys that are down by what was read so far.  A key is only taken   *)
(* for held, and a modifier in effect, of one of these; the T-Deck counts    *)
(* its Shift keys.                                                          *)
Acts(b, i, bit) == Key(b, i).kind = "mod" /\ Key(b, i).u = bit /\ press[i] = Off
ShiftsDown(b, S) ==
    IF b = "tdeck" THEN (IF 4 \in S THEN 1 ELSE 0) + (IF 5 \in S THEN 1 ELSE 0) ELSE 0

PressesAre(b, S) ==
    /\ press = [i \in Places(b) |-> press[i]]
    /\ \A i \in Places(b) : press[i] # Off => i \in S
    /\ \A i \in Places(b) :
          Key(b, i).kind = "mod" /\ (b = "tdeck" => i \in {4, 5}) => press[i] = Off
    /\ last # 0 => last \in Places(b) /\ press[last] # Off
    /\ said = {press[i].u : i \in Places(b)} \ {"none"}
ModifiersAre(b, S) ==
    /\ "none" \notin modsHeld
    /\ \A bit \in modsHeld :
          IF b = "tdeck" /\ bit = "shift" THEN shifts > 0
          ELSE \E i \in S \cap Places(b) : Acts(b, i, bit)
    /\ symHeld => \E i \in S \cap Places(b) : Acts(b, i, "sym")
    /\ shifts = ShiftsDown(b, S)

(* What was read says of one key that it is down, or not.                   *)
With(S, i, d) == IF d THEN S \cup {i} ELSE S \ {i}

LEMMA ModifierIsTaken ==
    ASSUME NEW b \in Three, NEW S, NEW T, NEW i \in Places(b), NEW d \in BOOLEAN,
           b = "tdeck" => (d <=> i \notin S), T = With(S, i, d),
           PressesAre(b, S), ModifiersAre(b, S), Keyboard(b)!Modifier(i, d)
    PROVE  PressesAre(b, T)' /\ ModifiersAre(b, T)'
<1>. DEFINE bit == Key(b, i).u
<1>1. /\ UNCHANGED <<press, last, said>> /\ Key(b, i).kind = "mod"
      /\ b = "tdeck" => ~Keyboard(b)!AsKey(i, d)
  BY DEF Keyboard!Modifier, Keyboard!IsModifier, Key
<1>2. press[i] = Off
  <2>1. d /\ b = "tdeck" => press[i] = Off
    BY DEF PressesAre
  <2>2. ~d /\ b = "tdeck" => press[i] = Off
    BY <1>1 DEF Keyboard!AsKey, Keyboard!Up, Off
  <2>3. b # "tdeck" => press[i] = Off
    BY <1>1 DEF PressesAre
  <2>. QED BY <2>1, <2>2, <2>3
<1>3. PressesAre(b, T)'
  BY <1>1, <1>2 DEF PressesAre, With
<1>4. /\ i \in Places(b) /\ Key(b, i).kind = "mod"
      /\ b = "tdeck" => bit # "none" /\ (i \in {4, 5} <=> bit = "shift")
  BY <1>1, TablesAre
<1>5. CASE bit = "none"
  <2>1. UNCHANGED <<modsHeld, symHeld, shifts>>
    BY <1>5 DEF Keyboard!Modifier, Keyboard!stateVars, Key
  <2>2. b # "tdeck" /\ \A j, x : Acts(b, j, x) /\ x # "none" => j # i
    BY <1>4, <1>5 DEF Acts
  <2>3. ModifiersAre(b, T)'
    BY <1>1, <2>1, <2>2 DEF ModifiersAre, Acts, ShiftsDown, With
  <2>. QED BY <1>3, <2>3
<1>6. CASE bit # "none" /\ d
  <2>1. Keyboard(b)!ModifierDown(i, bit)
    BY <1>6 DEF Keyboard!Modifier, Key
  <2>2. /\ symHeld' => symHeld \/ bit = "sym"
        /\ modsHeld' = IF bit = "sym" THEN modsHeld ELSE modsHeld \cup {bit}
        /\ shifts' = IF b = "tdeck" /\ bit = "shift" THEN shifts + 1 ELSE shifts
    BY <2>1 DEF Keyboard!ModifierDown
  <2>3. T = S \cup {i} /\ (b = "tdeck" => i \notin S) /\ Acts(b, i, bit)
    BY <1>1, <1>2, <1>6 DEF With, Acts
  <2>4. shifts' = ShiftsDown(b, T) /\ (b = "tdeck" => shifts \in {0, 1, 2})
    BY <1>4, <2>2, <2>3 DEF ModifiersAre, ShiftsDown
  <2>5. \A j, x : Acts(b, j, x)' <=> Acts(b, j, x)
    BY <1>1 DEF Acts
  <2>6. symHeld' => \E j \in T \cap Places(b) : Acts(b, j, "sym")
    BY <2>2, <2>3 DEF ModifiersAre
  <2>7. ASSUME NEW x \in modsHeld'
        PROVE  IF b = "tdeck" /\ x = "shift" THEN shifts' > 0
               ELSE \E j \in T \cap Places(b) : Acts(b, j, x)
    BY <2>2, <2>3, <2>4 DEF ModifiersAre
  <2>8. "none" \notin modsHeld'
    BY <1>6, <2>2 DEF ModifiersAre
  <2>9. ModifiersAre(b, T)'
    BY <2>4, <2>5, <2>6, <2>7, <2>8 DEF ModifiersAre, ShiftsDown
  <2>. QED BY <1>3, <2>9
<1>7. CASE bit # "none" /\ ~d
  <2>. DEFINE left == IF b = "tdeck" /\ bit = "shift" /\ shifts > 0 THEN shifts - 1 ELSE 0
  <2>1. Keyboard(b)!ModifierUp(i, bit)
    BY <1>7 DEF Keyboard!Modifier, Key
  <2>2. /\ symHeld' => symHeld /\ bit # "sym"
        /\ shifts' = IF bit = "shift" THEN left ELSE shifts
        /\ modsHeld' = IF left > 0 THEN modsHeld ELSE modsHeld \ {bit}
    BY <2>1 DEF Keyboard!ModifierUp
  <2>3. T = S \ {i} /\ (b = "tdeck" => i \in S)
    BY <1>7 DEF With
  <2>4. /\ shifts' = ShiftsDown(b, T)
        /\ left > 0 => b = "tdeck" /\ bit = "shift" /\ left = shifts'
        /\ b = "tdeck" /\ bit # "shift" => shifts' = shifts
    BY <1>4, <2>2, <2>3 DEF ModifiersAre, ShiftsDown
  <2>5. \A j, x : Acts(b, j, x)' <=> Acts(b, j, x)
    BY <1>1 DEF Acts
  <2>6. \A x : \A j \in S : x # bit /\ Acts(b, j, x) => j \in T
    BY <2>3 DEF Acts
  <2>7. symHeld' => \E j \in T \cap Places(b) : Acts(b, j, "sym")
    BY <2>2, <2>6 DEF ModifiersAre
  <2>8. ASSUME NEW x \in modsHeld'
        PROVE  IF b = "tdeck" /\ x = "shift" THEN shifts' > 0
               ELSE \E j \in T \cap Places(b) : Acts(b, j, x)
    <3>1. x \in modsHeld
      BY <2>2, <2>8
    <3>2. CASE b = "tdeck" /\ x = "shift"
      BY <2>2, <2>4, <2>8, <3>1, <3>2 DEF ModifiersAre
    <3>3. CASE ~(b = "tdeck" /\ x = "shift")
      <4>1. x # bit
        BY <2>2, <2>4, <2>8, <3>3
      <4>. QED BY <2>6, <3>1, <3>3, <4>1 DEF ModifiersAre
    <3>. QED BY <3>2, <3>3
  <2>9. "none" \notin modsHeld'
    BY <2>2 DEF ModifiersAre
  <2>10. ModifiersAre(b, T)'
    BY <2>4, <2>5, <2>7, <2>8, <2>9 DEF ModifiersAre, ShiftsDown
  <2>. QED BY <1>3, <2>10
<1>. QED BY <1>5, <1>6, <1>7

LEMMA KeyDownIsTaken ==
    ASSUME NEW b \in Three, NEW S, NEW T, NEW i \in Places(b), b = "tdeck" => i \notin S,
           T = S \cup {i}, PressesAre(b, S), ModifiersAre(b, S), Keyboard(b)!KeyDown(i)
    PROVE  PressesAre(b, T)' /\ ModifiersAre(b, T)'
<1>0. CASE press[i] # Off
  <2>1. b # "tdeck" /\ i \in S
    BY <1>0 DEF PressesAre
  <2>2. UNCHANGED <<press, last, said, modsHeld, symHeld, shifts>> /\ T = S
    BY <1>0, <2>1 DEF Keyboard!KeyDown, Keyboard!Up, Off, Keyboard!stateVars
  <2>. QED BY <2>2 DEF PressesAre, ModifiersAre, Acts, ShiftsDown
<1>. SUFFICES ASSUME press[i] = Off PROVE PressesAre(b, T)' /\ ModifiersAre(b, T)'
  BY <1>0
<1>1. press[i] = Off /\ T = S \cup {i}
  OBVIOUS
<1>2. /\ press' = [press EXCEPT ![i] = Keyboard(b)!Means(Key(b, i))] /\ last' = i
      /\ UNCHANGED <<modsHeld, symHeld, shifts>>
      /\ said' = {press'[j].u : j \in Places(b)} \ {"none"}
      /\ ~Keyboard(b)!IsModifier(i, TRUE)
  BY <1>1 DEF Keyboard!KeyDown, Keyboard!Up, Off, Keyboard!Report, Places, Key
<1>3. Keyboard(b)!Means(Key(b, i)) # Off
  BY <1>2, KeysMeanSomething
<1>4. ~(Key(b, i).kind = "mod" /\ (b = "tdeck" => i \in {4, 5}))
  <2>1. b = "tdeck" /\ i \in {4, 5} => Key(b, i).sym = "none"
    BY TablesAre
  <2>. QED BY <1>2, <2>1 DEF Keyboard!IsModifier, Keyboard!AsKey, Key
<1>5. b = "tdeck" => i \notin {4, 5}
  BY <1>4, TablesAre
<1>6. /\ DOMAIN press = Places(b) /\ press'[i] # Off /\ DOMAIN press' = Places(b)
      /\ press' = [j \in Places(b) |-> press'[j]]
      /\ \A j \in Places(b) : j # i => press'[j] = press[j]
  BY <1>2, <1>3 DEF PressesAre
<1>7. PressesAre(b, T)'
  BY <1>1, <1>2, <1>4, <1>6 DEF PressesAre
<1>8. \A x : \A j \in S \cap Places(b) : Acts(b, j, x) => j \in T /\ Acts(b, j, x)'
  BY <1>1, <1>4, <1>6 DEF Acts
<1>9. ShiftsDown(b, T) = ShiftsDown(b, S)
  BY <1>1, <1>5 DEF ShiftsDown
<1>10. ModifiersAre(b, T)'
  BY <1>2, <1>8, <1>9 DEF ModifiersAre, ShiftsDown
<1>. QED BY <1>7, <1>10

LEMMA KeyUpIsTaken ==
    ASSUME NEW b \in Three, NEW S, NEW T, NEW i \in Places(b), b = "tdeck" => i \in S,
           T = S \ {i}, PressesAre(b, S), ModifiersAre(b, S), Keyboard(b)!KeyUp(i)
    PROVE  PressesAre(b, T)' /\ ModifiersAre(b, T)'
<1>1. T = S \ {i} /\ ~Keyboard(b)!IsModifier(i, FALSE)
  BY DEF Keyboard!KeyUp
<1>2. Key(b, i).kind = "mod" => b = "tdeck" /\ press[i] # Off
  BY <1>1 DEF Keyboard!IsModifier, Keyboard!AsKey, Keyboard!Up, Off, Key
<1>3. b = "tdeck" => i \notin {4, 5}
  BY <1>2, TablesAre DEF PressesAre
<1>4. ShiftsDown(b, T) = ShiftsDown(b, S)
  BY <1>1, <1>3 DEF ShiftsDown
<1>5. \A x : \A j \in S : Acts(b, j, x) => j \in T
  BY <1>1, <1>2 DEF Acts
<1>6. CASE press[i] = Off
  <2>1. UNCHANGED <<press, last, said, modsHeld, symHeld, shifts>>
    BY <1>6 DEF Keyboard!KeyUp, Keyboard!Up, Off, Keyboard!stateVars
  <2>2. PressesAre(b, T)'
    BY <1>1, <1>6, <2>1 DEF PressesAre
  <2>3. ModifiersAre(b, T)'
    BY <1>4, <1>5, <2>1 DEF ModifiersAre, ShiftsDown, Acts
  <2>. QED BY <2>2, <2>3
<1>7. CASE press[i] # Off
  <2>1. /\ press' = [press EXCEPT ![i] = Off] /\ last' = IF last = i THEN 0 ELSE last
        /\ UNCHANGED <<modsHeld, symHeld, shifts>>
        /\ said' = {press'[j].u : j \in Places(b)} \ {"none"}
    BY <1>7 DEF Keyboard!KeyUp, Keyboard!Up, Off, Keyboard!Report, Places
  <2>2. /\ DOMAIN press' = Places(b) /\ press' = [j \in Places(b) |-> press'[j]]
        /\ press'[i] = Off /\ \A j \in Places(b) : j # i => press'[j] = press[j]
    BY <2>1 DEF PressesAre
  <2>3. PressesAre(b, T)'
    BY <1>1, <2>1, <2>2 DEF PressesAre
  <2>4. \A x : \A j \in S \cap Places(b) : Acts(b, j, x) => j \in T /\ Acts(b, j, x)'
    BY <1>5, <2>2 DEF Acts
  <2>5. ModifiersAre(b, T)'
    BY <1>4, <2>1, <2>4 DEF ModifiersAre, ShiftsDown
  <2>. QED BY <2>3, <2>5
<1>. QED BY <1>6, <1>7


(* What is in the queue: of the T-Deck, the keys that changed, each once, as  *)
(* the matrix has them by now.  Of the others, whatever fingers did, in their *)
(* order, so that what is known of a key is true or it will be let go, but    *)
(* for one whose last event was lost.                                       *)
Events(b) == [key : Places(b), down : BOOLEAN]
Waiting(i) == \E n \in 1 .. Len(keyQueue) : keyQueue[n].key = i
ComesUp(i) ==
    \E n \in 1 .. Len(keyQueue) :
        /\ keyQueue[n].key = i /\ ~keyQueue[n].down
        /\ \A m \in n + 1 .. Len(keyQueue) : keyQueue[m].key # i

ChangesWait(S) ==
    /\ \A m, n \in 1 .. Len(keyQueue) : keyQueue[m].key = keyQueue[n].key => m = n
    /\ \A n \in 1 .. Len(keyQueue) : keyQueue[n].down <=> keyQueue[n].key \in matrix
    /\ \A i \in Places("tdeck") : i \in S <=> ~(i \in matrix <=> Waiting(i))
EventsWait(b, S) ==
    \A i \in Places(b) : \/ i \in down \/ i \in missed \/ ComesUp(i)
                         \/ i \notin S /\ ~Waiting(i)

Heard(b, S) ==
    /\ S \subseteq Places(b) /\ PressesAre(b, S) /\ ModifiersAre(b, S)
    /\ IF b = "tdeck" THEN ChangesWait(S) ELSE EventsWait(b, S)

KeysInv(b) ==
    /\ down \subseteq Places(b) /\ matrix \subseteq Places(b)
    /\ keyQueue \in Seq(Events(b))
    /\ b = "tdeck" => missed = {}
    /\ ~present => /\ b # "tdeck" /\ keyQueue = << >>
                   /\ PressesAre(b, {}) /\ ModifiersAre(b, {})
    /\ \E S : Heard(b, S)

(* The tables stay as they are.                                             *)
LEMMA TablesStay == \A b : Places(b)' = Places(b) /\ Events(b)' = Events(b)
  BY DEF Events, Places, Keyboard!Places, Keyboard!KeyTable

LEMMA PressesStay ==
    ASSUME UNCHANGED <<press, modsHeld, symHeld, shifts, last, said>>
    PROVE  \A b, S : /\ PressesAre(b, S)' <=> PressesAre(b, S)
                     /\ ModifiersAre(b, S)' <=> ModifiersAre(b, S)
  BY TablesStay DEF PressesAre, ModifiersAre, Acts, ShiftsDown, Key, Keyboard!KeyTable

(* The first event is gone.                                                 *)
LEMMA FirstIsTaken ==
    ASSUME NEW b \in Three, keyQueue \in Seq(Events(b)), keyQueue # << >>,
           keyQueue' = Tail(keyQueue), NEW len, len = Len(keyQueue)
    PROVE  /\ keyQueue' \in Seq(Events(b)) /\ len \in Nat \ {0}
           /\ Head(keyQueue) \in Events(b) /\ Head(keyQueue) = keyQueue[1]
           /\ Len(keyQueue') = len - 1
           /\ \A n \in 1 .. len - 1 : keyQueue'[n] = keyQueue[n + 1]
  OBVIOUS

(* Of the keys of the other events nothing has changed.                     *)
LEMMA OthersWait ==
    ASSUME NEW b \in Three, keyQueue \in Seq(Events(b)), keyQueue # << >>,
           keyQueue' = Tail(keyQueue), NEW i
    PROVE  /\ Waiting(i)' => Waiting(i)
           /\ ComesUp(i) => ComesUp(i)' \/ (i = keyQueue[1].key /\ ~keyQueue[1].down /\ ~Waiting(i)')
<1>1. PICK len : len = Len(keyQueue)
  OBVIOUS
<1>2. /\ len \in Nat \ {0} /\ Len(keyQueue') = len - 1
      /\ \A n \in 1 .. len - 1 : keyQueue'[n] = keyQueue[n + 1]
  BY <1>1, FirstIsTaken
<1>3. Waiting(i)' => Waiting(i)
  <2>. SUFFICES ASSUME NEW n \in 1 .. len - 1, keyQueue'[n].key = i PROVE Waiting(i)
    BY <1>2 DEF Waiting
  <2>1. n + 1 \in 1 .. len /\ keyQueue[n + 1].key = i
    BY <1>2
  <2>. QED BY <1>1, <2>1 DEF Waiting
<1>4. ComesUp(i) => ComesUp(i)' \/ (i = keyQueue[1].key /\ ~keyQueue[1].down /\ ~Waiting(i)')
  <2>. SUFFICES ASSUME NEW n \in 1 .. len, keyQueue[n].key = i, ~keyQueue[n].down,
                       \A m \in n + 1 .. len : keyQueue[m].key # i
                PROVE  ComesUp(i)' \/ (i = keyQueue[1].key /\ ~keyQueue[1].down /\ ~Waiting(i)')
    BY <1>1 DEF ComesUp
  <2>1. CASE n = 1
    <3>1. ASSUME NEW m \in 1 .. len - 1 PROVE keyQueue'[m].key # i
      <4>1. m + 1 \in n + 1 .. len
        BY <1>2, <2>1
      <4>. QED BY <1>2, <4>1
    <3>. QED BY <1>2, <2>1, <3>1 DEF Waiting
  <2>2. CASE n # 1
    <3>1. n - 1 \in 1 .. len - 1 /\ (n - 1) + 1 = n
      BY <1>2, <2>2
    <3>2. keyQueue'[n - 1] = keyQueue[n]
      BY <1>2, <3>1
    <3>3. ASSUME NEW m \in (n - 1) + 1 .. len - 1 PROVE keyQueue'[m].key # i
      <4>1. m + 1 \in n + 1 .. len /\ m \in 1 .. len - 1
        BY <1>2, <3>1
      <4>. QED BY <1>2, <4>1
    <3>. QED BY <1>2, <3>1, <3>2, <3>3 DEF ComesUp
  <2>. QED BY <2>1, <2>2
<1>. QED BY <1>3, <1>4

LEMMA HandleKeeps ==
    ASSUME NEW b \in Three, KeysInv(b), Keyboard(b)!Handle
    PROVE  KeysInv(b)'
<1>1. PICK S : Heard(b, S)
  BY DEF KeysInv
<1>2. /\ keyQueue # << >> /\ present /\ keyQueue' = Tail(keyQueue)
      /\ UNCHANGED <<present, matrix, down, missed>>
  BY DEF Keyboard!Handle
<1>3. PICK e, i, d : e = Head(keyQueue) /\ i = e.key /\ d = e.down
  OBVIOUS
<1>4. PICK len : len = Len(keyQueue)
  OBVIOUS
<1>5. /\ keyQueue \in Seq(Events(b))
      /\ keyQueue' \in Seq(Events(b)) /\ len \in Nat \ {0} /\ e \in Events(b) /\ e = keyQueue[1]
      /\ Len(keyQueue') = len - 1
      /\ \A n \in 1 .. len - 1 : keyQueue'[n] = keyQueue[n + 1]
  BY <1>2, <1>3, <1>4, FirstIsTaken DEF KeysInv
<1>6. i \in Places(b) /\ d \in BOOLEAN
  BY <1>3, <1>5 DEF Events
<1>7. Keyboard(b)!Modifier(i, d) \/ (d /\ Keyboard(b)!KeyDown(i)) \/ (~d /\ Keyboard(b)!KeyUp(i))
  BY <1>3, Zenon DEF Keyboard!Handle
<1>8. 1 \in 1 .. Len(keyQueue) /\ keyQueue[1].key = i /\ (keyQueue[1].down <=> d) /\ Waiting(i)
  BY <1>3, <1>4, <1>5 DEF Waiting
<1>9. b = "tdeck" => (d <=> i \notin S)
  BY <1>1, <1>6, <1>8 DEF Heard, ChangesWait
<1>10. PICK T : T = With(S, i, d)
  OBVIOUS
<1>11. PressesAre(b, T)' /\ ModifiersAre(b, T)' /\ T \subseteq Places(b)
  <2>1. PressesAre(b, S) /\ ModifiersAre(b, S) /\ S \subseteq Places(b)
    BY <1>1 DEF Heard
  <2>2. CASE Keyboard(b)!Modifier(i, d)
    BY <1>6, <1>9, <1>10, <2>1, <2>2, ModifierIsTaken DEF With
  <2>3. CASE d /\ Keyboard(b)!KeyDown(i)
    BY <1>6, <1>9, <1>10, <2>1, <2>3, KeyDownIsTaken DEF With
  <2>4. CASE ~d /\ Keyboard(b)!KeyUp(i)
    BY <1>6, <1>9, <1>10, <2>1, <2>4, KeyUpIsTaken DEF With
  <2>. QED BY <1>7, <2>2, <2>3, <2>4
<1>12. CASE b = "tdeck"
  <2>1. ChangesWait(S)
    BY <1>1, <1>12 DEF Heard
  <2>2. ASSUME NEW n \in 1 .. len - 1
        PROVE  /\ n + 1 \in 1 .. Len(keyQueue) /\ n + 1 # 1 /\ keyQueue'[n] = keyQueue[n + 1]
               /\ keyQueue'[n].key # i
    <3>1. n + 1 \in 1 .. Len(keyQueue) /\ n + 1 # 1 /\ keyQueue'[n] = keyQueue[n + 1]
      BY <1>4, <1>5
    <3>. QED BY <1>8, <2>1, <3>1 DEF ChangesWait
  <2>3. ASSUME NEW m \in 1 .. len - 1, NEW n \in 1 .. len - 1, keyQueue'[m].key = keyQueue'[n].key
        PROVE  m = n
    <3>1. m + 1 = n + 1
      BY <2>1, <2>2, <2>3 DEF ChangesWait
    <3>. QED BY <1>5, <3>1
  <2>4. ~Waiting(i)'
    BY <1>5, <2>2 DEF Waiting
  <2>5. ASSUME NEW j, j # i PROVE Waiting(j)' <=> Waiting(j)
    <3>1. Waiting(j)' => Waiting(j)
      BY <1>2, <1>5, OthersWait
    <3>2. ASSUME NEW n \in 1 .. Len(keyQueue), keyQueue[n].key = j PROVE Waiting(j)'
      <4>1. n # 1
        BY <1>8, <2>5, <3>2
      <4>2. n - 1 \in 1 .. len - 1 /\ (n - 1) + 1 = n
        BY <1>4, <1>5, <4>1
      <4>3. keyQueue'[n - 1] = keyQueue[n]
        BY <1>5, <4>2
      <4>. QED BY <1>5, <3>2, <4>2, <4>3 DEF Waiting
    <3>. QED BY <3>1, <3>2 DEF Waiting
  <2>6. \A n \in 1 .. len - 1 : keyQueue'[n].down <=> keyQueue'[n].key \in matrix
    BY <2>1, <2>2 DEF ChangesWait
  <2>7. ASSUME NEW j \in Places("tdeck") PROVE j \in T <=> ~(j \in matrix <=> Waiting(j)')
    <3>1. CASE j = i
      BY <1>8, <1>10, <2>1, <2>4, <3>1 DEF With, ChangesWait
    <3>2. CASE j # i
      BY <1>10, <2>1, <2>5, <2>7, <3>2 DEF With, ChangesWait
    <3>. QED BY <3>1, <3>2
  <2>8. ChangesWait(T)'
    BY <1>2, <1>5, <2>3, <2>6, <2>7, TablesStay DEF ChangesWait
  <2>. QED BY <1>2, <1>5, <1>11, <1>12, <2>8, TablesStay DEF KeysInv, Heard
<1>13. CASE b # "tdeck"
  <2>1. ASSUME NEW j \in Places(b)
        PROVE  j \in down \/ j \in missed \/ ComesUp(j)' \/ (j \notin T /\ ~Waiting(j)')
    <3>1. j \in down \/ j \in missed \/ ComesUp(j) \/ (j \notin S /\ ~Waiting(j))
      BY <1>1, <1>13 DEF Heard, EventsWait
    <3>2. /\ Waiting(j)' => Waiting(j)
          /\ ComesUp(j) => ComesUp(j)' \/ (j = i /\ ~d /\ ~Waiting(j)')
      BY <1>2, <1>5, <1>8, OthersWait
    <3>3. j \notin S /\ ~Waiting(j) => j \notin T
      BY <1>8, <1>10 DEF With
    <3>4. j = i /\ ~d => j \notin T
      BY <1>10 DEF With
    <3>. QED BY <3>1, <3>2, <3>3, <3>4
  <2>2. EventsWait(b, T)'
    BY <1>2, <2>1, TablesStay DEF EventsWait
  <2>. QED BY <1>2, <1>5, <1>11, <1>13, <2>2, TablesStay DEF KeysInv, Heard
<1>. QED BY <1>12, <1>13

(* An event that is lost leaves its key as it was, if it was the key's last.  *)
LEMMA LossKeeps ==
    ASSUME NEW b \in Three, KeysInv(b), Keyboard(b)!ReadFails
    PROVE  KeysInv(b)'
<1>1. PICK S : Heard(b, S)
  BY DEF KeysInv
<1>2. /\ b # "tdeck" /\ keyQueue # << >> /\ keyQueue' = Tail(keyQueue)
      /\ UNCHANGED <<press, modsHeld, symHeld, shifts, last, said, present, matrix, down>>
      /\ missed' = IF \E n \in DOMAIN Tail(keyQueue) : Tail(keyQueue)[n].key = Head(keyQueue).key
                   THEN missed ELSE missed \cup {Head(keyQueue).key}
  BY DEF Keyboard!ReadFails, Keyboard!Loses, Keyboard!stateVars
<1>3. PICK i : i = Head(keyQueue).key
  OBVIOUS
<1>4. /\ keyQueue \in Seq(Events(b)) /\ keyQueue' \in Seq(Events(b)) /\ keyQueue[1].key = i
      /\ DOMAIN keyQueue' = 1 .. Len(keyQueue')
  BY <1>2, <1>3, FirstIsTaken DEF KeysInv
<1>5. missed \subseteq missed' /\ (Waiting(i)' \/ i \in missed')
  BY <1>2, <1>3, <1>4 DEF Waiting
<1>6. ASSUME NEW j \in Places(b)
      PROVE  j \in down \/ j \in missed' \/ ComesUp(j)' \/ (j \notin S /\ ~Waiting(j)')
  <2>1. j \in down \/ j \in missed \/ ComesUp(j) \/ (j \notin S /\ ~Waiting(j))
    BY <1>1, <1>2 DEF Heard, EventsWait
  <2>2. /\ Waiting(j)' => Waiting(j)
        /\ ComesUp(j) => ComesUp(j)' \/ (j = i /\ ~Waiting(j)')
    BY <1>2, <1>4, OthersWait
  <2>. QED BY <1>5, <2>1, <2>2
<1>7. EventsWait(b, S)'
  BY <1>2, <1>6, TablesStay DEF EventsWait
<1>8. PressesAre(b, S)' /\ ModifiersAre(b, S)'
  BY <1>1, <1>2, PressesStay DEF Heard
<1>9. Heard(b, S)'
  BY <1>1, <1>2, <1>7, <1>8, TablesStay DEF Heard
<1>10. present
  BY <1>2 DEF KeysInv
<1>. QED BY <1>2, <1>4, <1>9, <1>10, TablesStay DEF KeysInv

(* Every press is let go.                                                   *)
LEMMA ResetRests ==
    ASSUME NEW b \in Three, NEW p, Keyboard(b)!IsReset(p), said' = {}
    PROVE  PressesAre(b, {})' /\ ModifiersAre(b, {})'
<1>1. /\ press' = [i \in Places(b) |-> Off] /\ modsHeld' = {} /\ symHeld' = FALSE
      /\ shifts' = 0 /\ last' = 0
  BY DEF Keyboard!IsReset, Keyboard!Up, Off, Places
<1>2. \A i \in Places(b) : press'[i] = Off /\ press'[i].u = "none"
  BY <1>1 DEF Off
<1>3. {press'[i].u : i \in Places(b)} \ {"none"} = {}
  BY <1>2
<1>4. PressesAre(b, {})'
  BY <1>1, <1>2, <1>3 DEF PressesAre, Places, Keyboard!Places, Keyboard!KeyTable
<1>5. ModifiersAre(b, {})'
  BY <1>1 DEF ModifiersAre, ShiftsDown
<1>. QED BY <1>4, <1>5

(* With nothing held and nothing in the queue, nothing was heard.           *)
LEMMA NothingHeard ==
    ASSUME NEW b \in Three, b # "tdeck", keyQueue' = << >>,
           PressesAre(b, {})', ModifiersAre(b, {})'
    PROVE  \E S : Heard(b, S)'
<1>1. EventsWait(b, {})'
  BY DEF EventsWait, Waiting
<1>. QED BY <1>1 DEF Heard

LEMMA ResetKeeps ==
    ASSUME NEW b \in Three, KeysInv(b), Keyboard(b)!Detach \/ Keyboard(b)!Attach
    PROVE  KeysInv(b)'
<1>1. /\ b # "tdeck" /\ keyQueue' = << >> /\ UNCHANGED <<matrix, down>>
      /\ \E p : Keyboard(b)!IsReset(p)
  BY DEF KeysInv, Keyboard!Detach, Keyboard!Attach
<1>2. said' = {}
  <2>1. CASE Keyboard(b)!Detach
    BY <2>1 DEF Keyboard!Detach
  <2>2. CASE Keyboard(b)!Attach
    <3>1. PressesAre(b, {}) /\ said' = said
      BY <2>2 DEF Keyboard!Attach, KeysInv
    <3>2. \A i \in Places(b) : press[i].u = "none"
      BY <3>1 DEF PressesAre, Off
    <3>. QED BY <3>1, <3>2 DEF PressesAre
  <2>. QED BY <2>1, <2>2
<1>3. PressesAre(b, {})' /\ ModifiersAre(b, {})'
  BY <1>1, <1>2, ResetRests
<1>4. \E S : Heard(b, S)'
  BY <1>1, <1>3, NothingHeard
<1>5. << >> \in Seq(Events(b))
  OBVIOUS
<1>. QED BY <1>1, <1>3, <1>4, <1>5, TablesStay DEF KeysInv

(* A finger's event is added at the end, or lost; the T-Deck's is not read.   *)
LEMMA FingerKeeps ==
    ASSUME NEW b \in Three, KeysInv(b), NEW i \in Places(b), Keyboard(b)!Finger(i)
    PROVE  KeysInv(b)'
<1>. DEFINE d == i \notin down
<1>1. /\ down' = IF i \in down THEN down \ {i} ELSE down \cup {i}
      /\ UNCHANGED <<present, matrix, press, modsHeld, symHeld, shifts, last, said>>
  BY DEF Keyboard!Finger, Keyboard!stateVars
<1>2. PICK e : e = [key |-> i, down |-> i \notin down]
  OBVIOUS
<1>3. \/ (b = "tdeck" \/ ~present) /\ UNCHANGED <<keyQueue, missed>>
      \/ b # "tdeck" /\ present /\ keyQueue' = Append(keyQueue, e) /\ missed' = missed \ {i}
      \/ /\ b # "tdeck" /\ present /\ UNCHANGED keyQueue
         /\ missed' = missed \cup {i}
  <2>1. e.key = i /\ DOMAIN << >> = {}
    BY <1>2
  <2>. QED BY <1>2, <2>1 DEF Keyboard!Finger, Keyboard!Loses
<1>4. down' \subseteq Places(b) /\ matrix' \subseteq Places(b)
  BY <1>1 DEF KeysInv
<1>5. PICK S : Heard(b, S)
  BY DEF KeysInv
<1>6. PressesAre(b, S)' /\ ModifiersAre(b, S)' /\ S \subseteq Places(b)
  BY <1>1, <1>5, PressesStay DEF Heard
<1>7. CASE b = "tdeck"
  <2>1. keyQueue' = keyQueue /\ missed' = missed
    BY <1>3, <1>7
  <2>2. ChangesWait(S)'
    BY <1>1, <1>5, <1>7, <2>1, TablesStay DEF Heard, ChangesWait, Waiting
  <2>3. Heard(b, S)'
    BY <1>6, <1>7, <2>2, TablesStay DEF Heard
  <2>. QED BY <1>1, <1>4, <1>7, <2>1, <2>3, TablesStay DEF KeysInv
<1>8. CASE b # "tdeck" /\ ~present
  <2>1. PressesAre(b, {})' /\ ModifiersAre(b, {})' /\ keyQueue = << >> /\ keyQueue' = << >>
    BY <1>1, <1>3, <1>8, PressesStay DEF KeysInv
  <2>2. \E T : Heard(b, T)'
    BY <1>8, <2>1, NothingHeard
  <2>3. << >> \in Seq(Events(b))
    OBVIOUS
  <2>. QED BY <1>4, <1>8, <2>1, <2>2, <2>3, TablesStay DEF KeysInv
<1>9. CASE b # "tdeck" /\ present
  <2>1. \A j \in Places(b) : j \in down \/ j \in missed \/ ComesUp(j) \/ (j \notin S /\ ~Waiting(j))
    BY <1>5, <1>9 DEF Heard, EventsWait
  <2>2. \A j : j # i => (j \in down' <=> j \in down) /\ (j \in missed' <=> j \in missed)
    BY <1>1, <1>3, <1>9
  <2>3. CASE UNCHANGED keyQueue /\ missed' = missed \cup {i}
    <3>1. EventsWait(b, S)'
      BY <2>1, <2>2, <2>3, TablesStay DEF EventsWait, ComesUp, Waiting
    <3>2. Heard(b, S)'
      BY <1>6, <1>9, <3>1, TablesStay DEF Heard
    <3>. QED BY <1>1, <1>4, <1>9, <2>3, <3>2, TablesStay DEF KeysInv
  <2>4. CASE keyQueue' = Append(keyQueue, e) /\ missed' = missed \ {i}
    <3>1. PICK len : len = Len(keyQueue)
      OBVIOUS
    <3>2. e \in Events(b) /\ e.key = i /\ (e.down <=> i \notin down)
      <4>1. CASE i \in down
        <5>1. (i \notin down) = FALSE
          BY <4>1
        <5>2. e = [key |-> i, down |-> FALSE]
          BY <1>2, <5>1, Zenon
        <5>. QED BY <4>1, <5>2 DEF Events
      <4>2. CASE i \notin down
        <5>1. (i \notin down) = TRUE
          BY <4>2
        <5>2. e = [key |-> i, down |-> TRUE]
          BY <1>2, <5>1, Zenon
        <5>. QED BY <4>2, <5>2 DEF Events
      <4>. QED BY <4>1, <4>2
    <3>3. /\ keyQueue' \in Seq(Events(b)) /\ len \in Nat
          /\ Len(keyQueue') = len + 1 /\ keyQueue'[len + 1] = e
          /\ \A n \in 1 .. len : keyQueue'[n] = keyQueue[n]
      BY <2>4, <3>1, <3>2, AppendProperties, LenProperties DEF KeysInv
    <3>4. ASSUME NEW j \in Places(b)
          PROVE  j \in down' \/ j \in missed' \/ ComesUp(j)' \/ (j \notin S /\ ~Waiting(j)')
      <4>1. CASE j = i
        <5>1. CASE i \notin down
          BY <1>1, <4>1, <5>1
        <5>2. CASE i \in down
          <6>1. len + 1 \in 1 .. len + 1 /\ \A m \in (len + 1) + 1 .. len + 1 : FALSE
            BY <3>3
          <6>. QED BY <3>2, <3>3, <4>1, <5>2, <6>1 DEF ComesUp
        <5>. QED BY <5>1, <5>2
      <4>2. CASE j # i
        <5>1. ComesUp(j) => ComesUp(j)'
          <6>. SUFFICES ASSUME NEW n \in 1 .. len, keyQueue[n].key = j, ~keyQueue[n].down,
                               \A m \in n + 1 .. len : keyQueue[m].key # j
                        PROVE  ComesUp(j)'
            BY <3>1 DEF ComesUp
          <6>1. n \in 1 .. len + 1 /\ keyQueue'[n] = keyQueue[n]
            BY <3>3
          <6>2. ASSUME NEW m \in n + 1 .. len + 1 PROVE keyQueue'[m].key # j
            <7>1. CASE m = len + 1
              BY <3>2, <3>3, <4>2, <7>1
            <7>2. CASE m # len + 1
              <8>1. m \in n + 1 .. len /\ m \in 1 .. len
                BY <3>3, <7>2
              <8>. QED BY <3>3, <8>1
            <7>. QED BY <7>1, <7>2
          <6>. QED BY <3>3, <6>1, <6>2 DEF ComesUp
        <5>2. Waiting(j)' => Waiting(j)
          <6>. SUFFICES ASSUME NEW n \in 1 .. len + 1, keyQueue'[n].key = j PROVE Waiting(j)
            BY <3>3 DEF Waiting
          <6>1. n # len + 1
            BY <3>2, <3>3, <4>2
          <6>2. n \in 1 .. len
            BY <3>3, <6>1
          <6>. QED BY <3>1, <3>3, <6>2 DEF Waiting
        <5>. QED BY <2>1, <2>2, <4>2, <5>1, <5>2
      <4>. QED BY <4>1, <4>2
    <3>5. EventsWait(b, S)'
      BY <3>4, TablesStay DEF EventsWait
    <3>6. Heard(b, S)'
      BY <1>6, <1>9, <3>5, TablesStay DEF Heard
    <3>. QED BY <1>1, <1>4, <1>9, <3>3, <3>6, TablesStay DEF KeysInv
  <2>. QED BY <1>3, <1>9, <2>3, <2>4
<1>. QED BY <1>7, <1>8, <1>9


(* The T-Deck's keys that changed are told in their order: a set of a few    *)
(* naturals has one, found by adding its greatest.                          *)
InOrderOf(s) == \A i, j \in DOMAIN s : i < j => s[i] < s[j]
Ordered(S) == IsFiniteSet(S) /\ \E s \in [1 .. Cardinality(S) -> S] : InOrderOf(s)

LEMMA OneMoreIsOrdered ==
    ASSUME NEW T \in SUBSET Nat, NEW x \in Nat, \A y \in T : y < x, Ordered(T)
    PROVE  Ordered(T \cup {x})
<1>1. PICK c, s : c = Cardinality(T) /\ s \in [1 .. c -> T] /\ InOrderOf(s) /\ IsFiniteSet(T)
  BY DEF Ordered
<1>2. x \notin T
  OBVIOUS
<1>3. /\ IsFiniteSet(T \cup {x}) /\ Cardinality(T \cup {x}) = c + 1 /\ c \in Nat
  BY <1>1, <1>2, FS_AddElement, FS_CardinalityType
<1>. DEFINE t == [n \in 1 .. c + 1 |-> IF n = c + 1 THEN x ELSE s[n]]
<1>4. \A n \in 1 .. c : t[n] = s[n] /\ t[n] \in T
  BY <1>1, <1>3
<1>5. t \in [1 .. c + 1 -> T \cup {x}] /\ t[c + 1] = x /\ DOMAIN t = 1 .. c + 1
  BY <1>1, <1>3, <1>4
<1>. HIDE DEF t
<1>6. ASSUME NEW i \in 1 .. c + 1, NEW j \in 1 .. c + 1, i < j PROVE t[i] < t[j]
  <2>1. i \in 1 .. c
    BY <1>3, <1>6
  <2>2. CASE j = c + 1
    BY <1>4, <1>5, <2>1, <2>2
  <2>3. CASE j # c + 1
    <3>1. j \in 1 .. c
      BY <1>3, <2>3
    <3>. QED BY <1>1, <1>4, <1>6, <2>1, <3>1 DEF InOrderOf
  <2>. QED BY <2>2, <2>3
<1>. QED BY <1>3, <1>5, <1>6 DEF Ordered, InOrderOf

LEMMA SixAreOrdered ==
    ASSUME NEW S \in SUBSET (1 .. 6) PROVE Ordered(S)
<1>. DEFINE T(k) == S \cap (1 .. k)
<1>1. T(0) = {} /\ T(6) = S
  <2>1. 1 .. 0 = {}
    OBVIOUS
  <2>. QED BY <2>1
<1>2. Ordered({})
  <2>1. Cardinality({}) = 0 /\ IsFiniteSet({})
    BY FS_EmptySet
  <2>2. << >> \in [1 .. 0 -> {}] /\ InOrderOf(<< >>)
    BY DEF InOrderOf
  <2>. QED BY <2>1, <2>2 DEF Ordered
<1>3. ASSUME NEW k \in Nat, Ordered(T(k)) PROVE Ordered(T(k + 1))
  <2>1. CASE k + 1 \notin S
    <3>1. T(k + 1) = T(k)
      BY <2>1
    <3>. QED BY <1>3, <3>1
  <2>2. CASE k + 1 \in S
    <3>1. T(k + 1) = T(k) \cup {k + 1} /\ T(k) \in SUBSET Nat /\ \A y \in T(k) : y < k + 1
      BY <2>2
    <3>. HIDE DEF T
    <3>. QED BY <1>3, <3>1, OneMoreIsOrdered
  <2>. QED BY <2>1, <2>2
<1>. HIDE DEF T
<1>4. Ordered(T(1)) /\ Ordered(T(2))
  <2>1. Ordered(T(0 + 1))
    BY <1>1, <1>2, <1>3
  <2>2. Ordered(T(1 + 1))
    BY <1>3, <2>1
  <2>. QED BY <2>1, <2>2
<1>5. Ordered(T(3)) /\ Ordered(T(4))
  <2>1. Ordered(T(2 + 1))
    BY <1>3, <1>4
  <2>2. Ordered(T(3 + 1))
    BY <1>3, <2>1
  <2>. QED BY <2>1, <2>2
<1>6. Ordered(T(6))
  <2>1. Ordered(T(4 + 1))
    BY <1>3, <1>5
  <2>2. Ordered(T(5 + 1))
    BY <1>3, <2>1
  <2>. QED BY <2>2
<1>. QED BY <1>1, <1>6

(* Each of them once, and all of them.                                      *)
LEMMA ChangedInOrder ==
    LET c == Cardinality(Keyboard("tdeck")!Changed)
        s == Keyboard("tdeck")!InOrder
    IN  /\ c \in Nat /\ s \in [1 .. c -> Keyboard("tdeck")!Changed]
        /\ \A m, n \in 1 .. c : s[m] = s[n] => m = n
        /\ \A i \in Keyboard("tdeck")!Changed : \E n \in 1 .. c : s[n] = i
<1>. DEFINE C == Keyboard("tdeck")!Changed
            s == Keyboard("tdeck")!InOrder
<1>1. C \in SUBSET (1 .. 6) /\ C \subseteq Nat
  <2>1. Places("tdeck") = 1 .. 6
    BY TablesAre DEF Three
  <2>2. C \subseteq 1 .. 6
    BY <2>1 DEF Keyboard!Changed, Places
  <2>3. \A i \in 1 .. 6 : i \in Nat
    OBVIOUS
  <2>. QED BY <2>2, <2>3
<1>2. Ordered(C)
  BY <1>1, SixAreOrdered
<1>3. PICK c : c = Cardinality(C)
  OBVIOUS
<1>4. Keyboard("tdeck")!Cardinality(C) = c
  BY <1>3, Zenon DEF Keyboard!Cardinality, Cardinality
<1>5. s = CHOOSE t \in [1 .. c -> C] : \A i, j \in DOMAIN t : i < j => t[i] < t[j]
  BY <1>4, Zenon DEF Keyboard!InOrder
<1>. HIDE DEF C, s
<1>6. s \in [1 .. c -> C] /\ InOrderOf(s) /\ IsFiniteSet(C) /\ c \in Nat
  BY <1>2, <1>3, <1>5, FS_CardinalityType DEF Ordered, InOrderOf
<1>7. ASSUME NEW m \in 1 .. c, NEW n \in 1 .. c, s[m] = s[n] PROVE m = n
  <2>1. m \in Nat /\ n \in Nat /\ s[m] \in C /\ s[n] \in C
    BY <1>6, <1>7
  <2>2. s[m] \in Nat /\ s[n] \in Nat
    BY <1>1, <2>1
  <2>3. m \in DOMAIN s /\ n \in DOMAIN s
    BY <1>6, <1>7
  <2>4. (m < n => s[m] < s[n]) /\ (n < m => s[n] < s[m])
    BY <1>6, <2>3 DEF InOrderOf
  <2>5. ~(m < n) /\ ~(n < m)
    BY <1>7, <2>2, <2>4
  <2>. QED BY <2>1, <2>5
<1>8. s \in Injection(1 .. c, C)
  BY <1>6, <1>7 DEF Injection, IsInjective
<1>9. Cardinality(1 .. c) = c
  BY <1>6, FS_Interval
<1>10. s \in Surjection(1 .. c, C)
  BY <1>3, <1>6, <1>8, <1>9, FS_Injection
<1>11. \A i \in C : \E n \in 1 .. c : s[n] = i
  BY <1>10 DEF Surjection
<1>. QED BY <1>3, <1>6, <1>7, <1>11 DEF C, s


(* What the T-Deck's keys were, with the first of those that changed.        *)
LEMMA MatrixKeeps ==
    ASSUME NEW b \in Three, KeysInv(b), Keyboard(b)!ReadMatrix
    PROVE  KeysInv(b)'
<1>1. /\ b = "tdeck" /\ keyQueue = << >> /\ matrix' = down
      /\ UNCHANGED <<press, modsHeld, symHeld, shifts, last, said, present, down, missed>>
  BY DEF Keyboard!ReadMatrix, Keyboard!stateVars
<1>2. PICK c, s : /\ c = Cardinality(Keyboard("tdeck")!Changed) /\ s = Keyboard("tdeck")!InOrder
  OBVIOUS
<1>3. PICK C, D, M : C = Keyboard("tdeck")!Changed /\ D = down /\ M = matrix
  OBVIOUS
<1>4. /\ c \in Nat /\ s \in [1 .. c -> C]
      /\ \A m, n \in 1 .. c : s[m] = s[n] => m = n
      /\ \A i \in C : \E n \in 1 .. c : s[n] = i
  BY <1>2, <1>3, ChangedInOrder
<1>5. D \subseteq Places(b) /\ M \subseteq Places(b)
  BY <1>3 DEF KeysInv
<1>6. C \subseteq Places(b) /\ \A i \in Places(b) : i \in C <=> ~(i \in D <=> i \in M)
  BY <1>1, <1>3 DEF Keyboard!Changed, Places
<1>7. keyQueue' = [n \in 1 .. c |-> [key |-> s[n], down |-> s[n] \in D]]
  <2>1. DOMAIN s = 1 .. c
    BY <1>4
  <2>2. keyQueue' = [n \in DOMAIN s |-> [key |-> s[n], down |-> s[n] \in D]]
    BY <1>1, <1>2, <1>3 DEF Keyboard!ReadMatrix
  <2>. QED BY <2>1, <2>2
<1>8. \A n \in 1 .. c : /\ keyQueue'[n] \in Events(b)
                        /\ keyQueue'[n].key = s[n] /\ (keyQueue'[n].down <=> s[n] \in D)
  <2>. SUFFICES ASSUME NEW n \in 1 .. c
                PROVE  /\ keyQueue'[n] \in Events(b)
                       /\ keyQueue'[n].key = s[n] /\ (keyQueue'[n].down <=> s[n] \in D)
    OBVIOUS
  <2>1. keyQueue'[n] = [key |-> s[n], down |-> s[n] \in D]
    BY <1>7
  <2>2. s[n] \in Places(b)
    BY <1>4, <1>6
  <2>3. CASE s[n] \in D
    <3>1. keyQueue'[n] = [key |-> s[n], down |-> TRUE]
      <4>1. (s[n] \in D) = TRUE
        BY <2>3
      <4>. QED BY <2>1, <4>1, Zenon
    <3>. QED BY <2>2, <2>3, <3>1 DEF Events
  <2>4. CASE s[n] \notin D
    <3>1. keyQueue'[n] = [key |-> s[n], down |-> FALSE]
      <4>1. (s[n] \in D) = FALSE
        BY <2>4
      <4>. QED BY <2>1, <4>1, Zenon
    <3>. QED BY <2>2, <2>4, <3>1 DEF Events
  <2>. QED BY <2>3, <2>4
<1>9. keyQueue' \in Seq(Events(b)) /\ Len(keyQueue') = c
  BY <1>4, <1>7, <1>8
<1>10. \A m, n \in 1 .. c : keyQueue'[m].key = keyQueue'[n].key => m = n
  BY <1>4, <1>8
<1>11. ASSUME NEW i \in Places(b) PROVE Waiting(i)' <=> i \in C
  BY <1>4, <1>8, <1>9 DEF Waiting
<1>12. PICK S : Heard(b, S)
  BY DEF KeysInv
<1>13. \A i \in Places(b) : i \in S <=> i \in M
  <2>1. \A i : ~Waiting(i)
    BY <1>1 DEF Waiting
  <2>. QED BY <1>1, <1>3, <1>12, <2>1 DEF Heard, ChangesWait
<1>14. \A i \in Places("tdeck") : i \in S <=> ~(i \in D <=> Waiting(i)')
  BY <1>1, <1>6, <1>11, <1>13
<1>15. \A n \in 1 .. c : keyQueue'[n].down <=> keyQueue'[n].key \in D
  BY <1>8
<1>16. ChangesWait(S)'
  BY <1>1, <1>3, <1>9, <1>10, <1>14, <1>15, TablesStay DEF ChangesWait
<1>17. PressesAre(b, S)' /\ ModifiersAre(b, S)' /\ S \subseteq Places(b)
  BY <1>1, <1>12, PressesStay DEF Heard
<1>18. Heard(b, S)'
  BY <1>1, <1>16, <1>17, TablesStay DEF Heard
<1>19. present
  BY <1>1 DEF KeysInv
<1>. QED BY <1>1, <1>3, <1>5, <1>9, <1>18, <1>19, TablesStay DEF KeysInv

(* Of the T-Deck's, as long as it tells its matrix. *)
LEMMA KeysInvHolds ==
    ASSUME NEW b \in Three, raw => KeysInv(b), Keyboard(b)!Next \/ UNCHANGED keysVars, raw'
    PROVE  KeysInv(b)'
<1>1. raw /\ ~Keyboard(b)!Misread
  <2>1. ~Keyboard(b)!Misread
    BY DEF Keyboard!Misread
  <2>2. UNCHANGED raw
    BY <2>1 DEF keysVars, Keyboard!Next, Keyboard!Handle, Keyboard!ReadFails, Keyboard!Detach,
                Keyboard!Attach, Keyboard!ReadMatrix, Keyboard!Finger
  <2>. QED BY <2>1, <2>2
<1>2. KeysInv(b)
  BY <1>1
<1>3. CASE Keyboard(b)!Handle
  BY <1>2, <1>3, HandleKeeps
<1>4. CASE Keyboard(b)!Detach \/ Keyboard(b)!Attach
  BY <1>2, <1>4, ResetKeeps
<1>5. CASE Keyboard(b)!ReadMatrix
  BY <1>2, <1>5, MatrixKeeps
<1>6. ASSUME NEW i \in Places(b), Keyboard(b)!Finger(i) PROVE KeysInv(b)'
  BY <1>2, <1>6, FingerKeeps
<1>7. CASE Keyboard(b)!ReadFails
  BY <1>2, <1>7, LossKeeps
<1>8. CASE UNCHANGED keysVars
  <2>1. UNCHANGED <<press, modsHeld, symHeld, shifts, last, said, present, matrix, keyQueue, down,
                    missed>>
    BY <1>8 DEF keysVars
  <2>2. PICK S : Heard(b, S)
    BY <1>2 DEF KeysInv
  <2>3. Heard(b, S)'
    BY <2>1, <2>2, PressesStay, TablesStay
       DEF Heard, ChangesWait, EventsWait, Waiting, ComesUp
  <2>. QED BY <1>2, <2>1, <2>3, PressesStay, TablesStay DEF KeysInv
<1>. QED BY <1>1, <1>3, <1>4, <1>5, <1>6, <1>7, <1>8 DEF Keyboard!Next, Places

LEMMA KeysBegin ==
    ASSUME NEW b \in Three, Keyboard(b)!Init PROVE KeysInv(b)
<1>1. /\ press = [i \in Places(b) |-> Off] /\ modsHeld = {} /\ symHeld = FALSE /\ shifts = 0
      /\ last = 0 /\ said = {} /\ matrix = {} /\ down = {} /\ keyQueue = << >>
      /\ present = (b # "tab5") /\ missed = {}
  BY DEF Keyboard!Init, Keyboard!Up, Off, Places
<1>2. \A i \in Places(b) : press[i] = Off /\ press[i].u = "none"
  BY <1>1 DEF Off
<1>3. {press[i].u : i \in Places(b)} \ {"none"} = {}
  BY <1>2
<1>4. PressesAre(b, {}) /\ ModifiersAre(b, {})
  BY <1>1, <1>2, <1>3 DEF PressesAre, ModifiersAre, ShiftsDown
<1>5. Len(keyQueue) = 0 /\ \A i : ~Waiting(i)
  BY <1>1 DEF Waiting
<1>6. ChangesWait({}) /\ EventsWait(b, {})
  BY <1>1, <1>5 DEF ChangesWait, EventsWait
<1>7. Heard(b, {})
  BY <1>4, <1>6 DEF Heard
<1>8. << >> \in Seq(Events(b))
  OBVIOUS
<1>9. ~present => b # "tdeck"
  BY <1>1
<1>. QED BY <1>1, <1>4, <1>7, <1>8, <1>9 DEF KeysInv

(* With every finger off and all of it read, what is held is what was lost.   *)
LEMMA NoKeySticks ==
    ASSUME NEW b \in Three, KeysInv(b) PROVE Keyboard(b)!NothingSticks
<1> SUFFICES ASSUME down = {}, matrix = {}, keyQueue = << >>
             PROVE  /\ \A i \in Places(b) \ missed : press[i] = Off
                    /\ modsHeld \cup (IF symHeld THEN {"sym"} ELSE {})
                          \subseteq {Key(b, i).u : i \in missed}
                    /\ said \subseteq {press[i].u : i \in missed}
                    /\ last \in missed \cup {0} /\ shifts = 0
  BY DEF Keyboard!NothingSticks, Keyboard!Up, Off, Places, Key
<1>1. PICK S : Heard(b, S)
  BY DEF KeysInv
<1>2. \A i : ~Waiting(i) /\ ~ComesUp(i)
  BY DEF Waiting, ComesUp
<1>3. S \subseteq missed /\ (b = "tdeck" => S = {})
  BY <1>1, <1>2 DEF Heard, ChangesWait, EventsWait
<1>4. PressesAre(b, S) /\ ModifiersAre(b, S) /\ S \subseteq Places(b)
  BY <1>1 DEF Heard
<1>5. \A i \in Places(b) \ missed : press[i] = Off
  BY <1>3, <1>4 DEF PressesAre
<1>6. shifts = 0
  BY <1>3, <1>4 DEF ModifiersAre, ShiftsDown
<1>7. \A bit \in modsHeld : \E i \in S : Key(b, i).u = bit
  BY <1>4, <1>6 DEF ModifiersAre, Acts
<1>8. symHeld => \E i \in S : Key(b, i).u = "sym"
  BY <1>4 DEF ModifiersAre, Acts
<1>9. said \subseteq {press[i].u : i \in missed}
  <2>1. ASSUME NEW u \in said PROVE \E i \in missed : u = press[i].u
    <3>1. PICK i \in Places(b) : u = press[i].u /\ u # "none"
      BY <1>4 DEF PressesAre
    <3>2. press[i] # Off
      BY <3>1 DEF Off
    <3>. QED BY <1>5, <3>1, <3>2
  <2>. QED BY <2>1
<1>10. last \in missed \cup {0}
  BY <1>4, <1>5 DEF PressesAre
<1>. QED BY <1>3, <1>5, <1>6, <1>7, <1>8, <1>9, <1>10

(* Nothing sticks, on any of the built-in keyboards or on USB's, in whatever *)
(* layer a key went down: with every finger off and all of it read, only keys *)
(* are held whose last event was lost.  On the T-Deck, where what is held is  *)
(* what was read last, as long as its readings are possible ones.           *)
THEOREM KeysComeUp == AllSpec => []NothingSticks
<1>. DEFINE Inv == \A b \in Three : device = b /\ raw => KeysInv(b)
<1>1. AllInit => Inv
  BY KeysBegin DEF AllInit, Three
<1>2. Inv /\ [AllNext]_allVars => Inv'
  <2>. SUFFICES ASSUME Inv, [AllNext]_allVars, NEW b \in Three, device' = b, raw'
               PROVE  KeysInv(b)'
    OBVIOUS
  <2>1. device = b
    BY DEF AllNext, BuiltIn, Moves, allVars
  <2>2. Keyboard(b)!Next \/ UNCHANGED keysVars
    BY <2>1 DEF AllNext, BuiltIn, Moves, allVars, inputs, screen, Three
  <2>. QED BY <2>1, <2>2, KeysInvHolds
<1>3. Inv => /\ device = "tab5" => Keyboard("tab5")!NothingSticks
             /\ device = "cardputer" => Keyboard("cardputer")!NothingSticks
             /\ device = "tdeck" => Keyboard("tdeck")!NothingSticks
  <2>1. \A b \in Three : ~raw => Keyboard(b)!NothingSticks
    BY DEF Keyboard!NothingSticks
  <2>. QED BY <2>1, NoKeySticks DEF Three
<1>. HIDE DEF Inv
<1>4. AllSpec => []Inv
  BY <1>1, <1>2, PTL DEF AllSpec
<1>5. Inv /\ Usb!UsbLetsGo => NothingSticks
  BY <1>3 DEF NothingSticks
<1>. QED BY <1>4, <1>5, UsbKeysAreLetGo, PTL
-----------------------------------------------------------------------------
(* EspTouch *)

(* Division with remainder: there is one way to divide.                     *)
LEMMA AtLeast ==
    ASSUME NEW h \in Nat \ {0}, NEW q \in Int, NEW r \in Int
    PROVE  (q >= r => q * h >= r * h) /\ (q > r => q * h >= r * h + h)
<1>1. \A k \in Nat : k * h \in Nat
  BY SMT
<1>2. ASSUME q >= r PROVE q * h >= r * h
  <2>1. PICK k \in Nat : q = r + k
    BY <1>2
  <2>2. q * h = r * h + k * h
    BY <2>1
  <2>. QED BY <1>1, <2>2
<1>3. ASSUME q > r PROVE q * h >= r * h + h
  <2>1. PICK k \in Nat : q = r + k + 1
    <3>1. q - r - 1 \in Nat /\ q = r + (q - r - 1) + 1
      BY <1>3
    <3>. QED BY <3>1
  <2>2. q * h = r * h + k * h + h
    BY <2>1
  <2>. QED BY <1>1, <2>2
<1>. QED BY <1>2, <1>3

LEMMA OneWay ==
    ASSUME NEW h \in Nat \ {0}, NEW q \in Int, NEW r \in Int,
           NEW i \in 0 .. h - 1, NEW j \in 0 .. h - 1, q * h + i = r * h + j
    PROVE  q = r /\ i = j
<1>1. ~(q > r) /\ ~(r > q)
  BY AtLeast
<1>. QED BY <1>1

LEMMA DivIs ==
    ASSUME NEW h \in Nat \ {0}, NEW q \in Int, NEW i \in 0 .. h - 1
    PROVE  (q * h + i) \div h = q
<1>1. PICK a : a = q * h + i
  OBVIOUS
<1>2. a \in Int
  BY <1>1
<1>3. a \div h \in Int /\ a % h \in 0 .. h - 1 /\ a = (a \div h) * h + (a % h)
  BY <1>2
<1>. QED BY <1>1, <1>3, OneWay

(* How a panel is mounted, and which way up.                                *)
Mounted ==
    /\ rot \in {0, 90, 180, 270} /\ flip \in BOOLEAN
    /\ follows \in SUBSET {"driver", "sensor", "x2y"}

(* A point of the picture, on the panel drawn turned, and back.             *)
LEMMA ThereAndBack ==
    ASSUME Mounted, NEW p \in Touch!Points(Width, Height)
    PROVE  LET native == Touch!ToNative(Touch!Rotation(rot, flip), Width, Height, p)
           IN  Touch!Unflip(flip, Width, Height, Touch!ToLogical(rot, Width, Height, native)) = p
<1>1. PICK x \in Int, y \in Int : p = <<x, y>>
  BY ConsoleAssumption DEF Touch!Points
<1>2. Touch!Rotation(rot, flip) =
        CASE rot = 0 -> IF flip THEN 180 ELSE 0 [] rot = 90 -> IF flip THEN 270 ELSE 90
          [] rot = 180 -> IF flip THEN 0 ELSE 180 [] rot = 270 -> IF flip THEN 90 ELSE 270
  BY DEF Touch!Rotation, Mounted
<1>. QED
  BY <1>1, <1>2, ConsoleAssumption
     DEF Mounted, Touch!ToNative, Touch!ToLogical, Touch!Unflip, Touch!Mirror

(* A pixel of a cell is taken for the cell, margins and all.                *)
LEMMA InItsCell ==
    ASSUME NEW f \in Fonts, NEW row \in Int, NEW col \in Int, NEW p,
           LET g == Touch!GridOf(f, Width, Height) IN
           /\ row \in 0 .. g.rows - 1 /\ col \in 0 .. g.cols - 1
           /\ p \in Touch!CellPixels(g, row, col)
    PROVE  Touch!CellAt(Touch!GridOf(f, Width, Height), p) = <<row + 1, col + 1>>
<1>1. PICK g : g = Touch!GridOf(f, Width, Height)
  OBVIOUS
<1>2. /\ g.width \in Nat \ {0} /\ g.height \in Nat \ {0}
      /\ g.rows \in Int /\ g.cols \in Int /\ g.x0 \in Int /\ g.y0 \in Int
  <2>1. f.width \in Nat \ {0} /\ f.height \in Nat \ {0} /\ f.maxCols \in Nat
    BY ConsoleAssumption
  <2>2. Width \div f.width \in Int /\ Height \div f.height \in Int
    BY <2>1, ConsoleAssumption
  <2>3. PICK cols \in Int : cols = g.cols /\ g.x0 = (Width - cols * f.width) \div 2
    BY <1>1, <2>1, <2>2 DEF Touch!GridOf
  <2>4. cols * f.width \in Int /\ (Height \div f.height) * f.height \in Int
    BY <2>1, <2>2, <2>3
  <2>. QED BY <1>1, <2>1, <2>2, <2>3, <2>4, ConsoleAssumption DEF Touch!GridOf
<1>3. /\ row \in 0 .. g.rows - 1 /\ col \in 0 .. g.cols - 1
      /\ p \in Touch!CellPixels(g, row, col)
  BY <1>1
<1>4. PICK i \in 0 .. g.width - 1, j \in 0 .. g.height - 1 :
        p = <<g.x0 + col * g.width + i, g.y0 + row * g.height + j>>
  <2>1. PICK a \in Int, b \in Int : a = col * g.width /\ b = row * g.height
    BY <1>2
  <2>2. (col + 1) * g.width = a + g.width /\ (row + 1) * g.height = b + g.height
    <3>1. PICK w \in Nat, h \in Nat : w = g.width /\ h = g.height
      BY <1>2
    <3>2. (col + 1) * w = col * w + w /\ (row + 1) * h = row * h + h
      OBVIOUS
    <3>. QED BY <2>1, <3>1, <3>2
  <2>3. PICK x \in g.x0 + a .. g.x0 + a + g.width - 1, y \in g.y0 + b .. g.y0 + b + g.height - 1 :
          p = <<x, y>>
    BY <1>2, <1>3, <2>1, <2>2 DEF Touch!CellPixels
  <2>4. /\ x - g.x0 - a \in 0 .. g.width - 1 /\ y - g.y0 - b \in 0 .. g.height - 1
        /\ p = <<g.x0 + a + (x - g.x0 - a), g.y0 + b + (y - g.y0 - b)>>
    BY <1>2, <2>1, <2>3
  <2>. QED BY <2>1, <2>4
<1>5. (p[1] - g.x0) \div g.width = col /\ (p[2] - g.y0) \div g.height = row
  <2>1. p[1] - g.x0 = col * g.width + i /\ p[2] - g.y0 = row * g.height + j
    <3>1. PICK a \in Int, b \in Int : a = col * g.width /\ b = row * g.height
      BY <1>2
    <3>. QED BY <1>2, <1>4, <3>1
  <2>. QED BY <1>2, <2>1, DivIs
<1>6. Touch!CellAt(g, p) = <<row + 1, col + 1>>
  BY <1>2, <1>3, <1>5 DEF Touch!CellAt, Touch!Within
<1>. QED BY <1>1, <1>6

(* The two turns of a panel that reports otherwise undo each other.         *)
LEMMA PanelsDoAgree ==
    ASSUME Mounted PROVE Touch!PanelsAgree
<1>. SUFFICES ASSUME turn = Touch!boardTurn, NEW p \in Touch!Points(Height, Width)
     PROVE Touch!Turned(turn, Width, Height, Touch!Reported(follows, Height, Width, p)) =
             Touch!Turned({"swap", "my"}, Width, Height, p)
  BY DEF Touch!PanelsAgree
<1>1. PICK x \in Int, y \in Int : p = <<x, y>>
  BY ConsoleAssumption DEF Touch!Points
<1>2. /\ "swap" \in turn <=> "x2y" \notin follows
      /\ "mx" \in turn <=> "sensor" \in follows
      /\ "my" \in turn <=> "driver" \notin follows
  BY DEF Touch!boardTurn, Touch!FollowReversal, Touch!Toggle, Mounted
<1>. QED BY <1>1, <1>2, ConsoleAssumption DEF Touch!Turned, Touch!Reported, Touch!Mirror, Touch!Within

(* The corners turned, and what is between them, are what is between the     *)
(* corners, turned.                                                         *)
LEMMA OnlyTheRectangle ==
    ASSUME Mounted, NEW a \in Touch!Points(Width, Height), NEW b \in Touch!Points(Width, Height),
           a[1] <= b[1], a[2] <= b[2]
    PROVE  Touch!RectToNative(rot, Width, Height, a, b) =
                {Touch!ToNative(rot, Width, Height, p) : p \in (a[1] .. b[1]) \X (a[2] .. b[2])}
<1>1. PICK ax \in Int, ay \in Int, bx \in Int, by \in Int : a = <<ax, ay>> /\ b = <<bx, by>>
  BY ConsoleAssumption DEF Touch!Points
<1>2. ax <= bx /\ ay <= by
  BY <1>1
<1>3. CASE rot = 0
  BY <1>1, <1>2, <1>3, ConsoleAssumption DEF Touch!ToNative, Touch!RectToNative
<1>4. CASE rot = 90
  <2>1. Touch!RectToNative(rot, Width, Height, a, b) = (Height - 1 - by .. Height - 1 - ay) \X (ax .. bx)
    BY <1>1, <1>2, <1>4, ConsoleAssumption DEF Touch!ToNative, Touch!RectToNative
  <2>2. \A x \in ax .. bx, y \in ay .. by :
          /\ Touch!ToNative(rot, Width, Height, <<x, y>>) = <<Height - 1 - y, x>>
          /\ <<Height - 1 - y, x>> \in (Height - 1 - by .. Height - 1 - ay) \X (ax .. bx)
    BY <1>1, <1>4, ConsoleAssumption DEF Touch!ToNative
  <2>3. \A u \in Height - 1 - by .. Height - 1 - ay, v \in ax .. bx :
          LET x == v
              y == Height - 1 - u
          IN  x \in ax .. bx /\ y \in ay .. by /\ <<u, v>> = <<Height - 1 - y, x>>
    BY <1>1, ConsoleAssumption
  <2>4. ASSUME NEW n \in Touch!RectToNative(rot, Width, Height, a, b)
        PROVE  \E p \in (a[1] .. b[1]) \X (a[2] .. b[2]) : n = Touch!ToNative(rot, Width, Height, p)
    <3>1. PICK x \in ax .. bx, y \in ay .. by : n = <<Height - 1 - y, x>>
      BY <2>1, <2>3, <2>4
    <3>. QED BY <1>1, <2>2, <3>1
  <2>5. ASSUME NEW p \in (a[1] .. b[1]) \X (a[2] .. b[2])
        PROVE  Touch!ToNative(rot, Width, Height, p) \in Touch!RectToNative(rot, Width, Height, a, b)
    <3>1. PICK x \in ax .. bx, y \in ay .. by : p = <<x, y>>
      BY <1>1, <2>5
    <3>. QED BY <2>1, <2>2, <3>1
  <2>. QED BY <2>4, <2>5
<1>5. CASE rot = 180
  <2>1. Touch!RectToNative(rot, Width, Height, a, b) =
          (Width - 1 - bx .. Width - 1 - ax) \X (Height - 1 - by .. Height - 1 - ay)
    BY <1>1, <1>2, <1>5, ConsoleAssumption DEF Touch!ToNative, Touch!RectToNative
  <2>2. \A x \in ax .. bx, y \in ay .. by :
          /\ Touch!ToNative(rot, Width, Height, <<x, y>>) = <<Width - 1 - x, Height - 1 - y>>
          /\ <<Width - 1 - x, Height - 1 - y>> \in
                 (Width - 1 - bx .. Width - 1 - ax) \X (Height - 1 - by .. Height - 1 - ay)
    BY <1>1, <1>5, ConsoleAssumption DEF Touch!ToNative
  <2>3. \A u \in Width - 1 - bx .. Width - 1 - ax, v \in Height - 1 - by .. Height - 1 - ay :
          LET x == Width - 1 - u
              y == Height - 1 - v
          IN  x \in ax .. bx /\ y \in ay .. by /\ <<u, v>> = <<Width - 1 - x, Height - 1 - y>>
    BY <1>1, ConsoleAssumption
  <2>4. ASSUME NEW n \in Touch!RectToNative(rot, Width, Height, a, b)
        PROVE  \E p \in (a[1] .. b[1]) \X (a[2] .. b[2]) : n = Touch!ToNative(rot, Width, Height, p)
    <3>1. PICK x \in ax .. bx, y \in ay .. by : n = <<Width - 1 - x, Height - 1 - y>>
      BY <2>1, <2>3, <2>4
    <3>. QED BY <1>1, <2>2, <3>1
  <2>5. ASSUME NEW p \in (a[1] .. b[1]) \X (a[2] .. b[2])
        PROVE  Touch!ToNative(rot, Width, Height, p) \in Touch!RectToNative(rot, Width, Height, a, b)
    <3>1. PICK x \in ax .. bx, y \in ay .. by : p = <<x, y>>
      BY <1>1, <2>5
    <3>. QED BY <2>1, <2>2, <3>1
  <2>. QED BY <2>4, <2>5
<1>6. CASE rot = 270
  <2>1. Touch!RectToNative(rot, Width, Height, a, b) = (ay .. by) \X (Width - 1 - bx .. Width - 1 - ax)
    BY <1>1, <1>2, <1>6, ConsoleAssumption DEF Touch!ToNative, Touch!RectToNative
  <2>2. \A x \in ax .. bx, y \in ay .. by :
          /\ Touch!ToNative(rot, Width, Height, <<x, y>>) = <<y, Width - 1 - x>>
          /\ <<y, Width - 1 - x>> \in (ay .. by) \X (Width - 1 - bx .. Width - 1 - ax)
    BY <1>1, <1>6, ConsoleAssumption DEF Touch!ToNative
  <2>3. \A u \in ay .. by, v \in Width - 1 - bx .. Width - 1 - ax :
          LET x == Width - 1 - v
              y == u
          IN  x \in ax .. bx /\ y \in ay .. by /\ <<u, v>> = <<y, Width - 1 - x>>
    BY <1>1, ConsoleAssumption
  <2>4. ASSUME NEW n \in Touch!RectToNative(rot, Width, Height, a, b)
        PROVE  \E p \in (a[1] .. b[1]) \X (a[2] .. b[2]) : n = Touch!ToNative(rot, Width, Height, p)
    <3>1. PICK x \in ax .. bx, y \in ay .. by : n = <<y, Width - 1 - x>>
      BY <2>1, <2>3, <2>4
    <3>. QED BY <1>1, <2>2, <3>1
  <2>5. ASSUME NEW p \in (a[1] .. b[1]) \X (a[2] .. b[2])
        PROVE  Touch!ToNative(rot, Width, Height, p) \in Touch!RectToNative(rot, Width, Height, a, b)
    <3>1. PICK x \in ax .. bx, y \in ay .. by : p = <<x, y>>
      BY <1>1, <2>5
    <3>. QED BY <2>1, <2>2, <3>1
  <2>. QED BY <2>4, <2>5
<1>. QED BY <1>3, <1>4, <1>5, <1>6 DEF Mounted

(* The byte is known by its row and its column, as a row has a whole number  *)
(* of bytes; in it, the bit.                                                *)
LEMMA BitOfItsOwn ==
    ASSUME Mounted, NEW p \in Touch!Points(Width, Height), NEW q \in Touch!Points(Width, Height),
           Touch!FbBit(flip, Width, Height, p) = Touch!FbBit(flip, Width, Height, q)
    PROVE  p = q
<1>. DEFINE across == IF Width > Height THEN Height ELSE Width
            Own(r) == LET m == <<Touch!Mirror(Width, flip, r[1]), Touch!Mirror(Height, flip, r[2])>>
                      IN  IF Width > Height THEN <<Height - 1 - m[2], m[1]>> ELSE m
<1>1. across \in Nat /\ across % 4 = 0 /\ across \div 4 \in Nat \ {0}
  BY ConsoleAssumption
<1>2. \A r \in Touch!Points(Width, Height) :
         Own(r) = <<Own(r)[1], Own(r)[2]>> /\ Own(r)[1] \in 0 .. across - 1 /\ Own(r)[2] \in Nat
  BY ConsoleAssumption DEF Touch!Points, Touch!Mirror
<1>3. Own(p) = Own(q) => p = q
  BY ConsoleAssumption DEF Touch!Points, Touch!Mirror
<1>4. PICK px \in 0 .. across - 1, py \in Nat, qx \in 0 .. across - 1, qy \in Nat :
         Own(p) = <<px, py>> /\ Own(q) = <<qx, qy>>
  BY <1>2
<1>5. /\ (py \div 2) * (across \div 4) + px \div 4 = (qy \div 2) * (across \div 4) + qx \div 4
      /\ 2 * (px % 4) + (py % 2) = 2 * (qx % 4) + (qy % 2)
  BY <1>4 DEF Touch!FbBit
<1>6. px % 4 = qx % 4 /\ py % 2 = qy % 2
  BY <1>4, <1>5
<1>7. px \div 4 \in 0 .. (across \div 4) - 1 /\ qx \div 4 \in 0 .. (across \div 4) - 1
  BY <1>1, <1>4
<1>8. px \div 4 = qx \div 4 /\ py \div 2 = qy \div 2
  <2>1. PICK h \in Nat \ {0} : h = across \div 4
    BY <1>1
  <2>2. PICK i \in 0 .. h - 1, j \in 0 .. h - 1 : i = px \div 4 /\ j = qx \div 4
    BY <1>7, <2>1
  <2>3. PICK m \in Int, n \in Int : m = py \div 2 /\ n = qy \div 2
    BY <1>4
  <2>4. m * h + i = n * h + j
    BY <1>5, <2>1, <2>2, <2>3
  <2>. QED BY <2>2, <2>3, <2>4, OneWay
<1>9. px = qx /\ py = qy
  BY <1>6, <1>8
<1>. QED BY <1>3, <1>4, <1>9

(* A touch is where the finger is, on panels of any size, mounted and held    *)
(* any way, with any fonts: esp_board_rotate.h's turns, fb_set(), cell_at().  *)
THEOREM TouchesAreSeen == AllSpec => []TouchIsWhereItIsDrawn
<1>1. AllInit => Mounted
  BY DEF AllInit, Touch!Init, Mounted
<1>2. Mounted /\ [AllNext]_allVars => Mounted'
  <2>. SUFFICES ASSUME Mounted, [AllNext]_allVars PROVE Mounted'
    OBVIOUS
  <2>1. [Touch!Next]_touchVars
    BY TouchStep
  <2>2. rot' = rot /\ follows' = follows /\ (flip' = flip \/ flip' = ~flip)
    BY <2>1
       DEF Touch!Next, Touch!SetTurn, Touch!ResetTurn, Touch!SetFlip, Touch!Boot, touchVars
  <2>3. flip' \in BOOLEAN
    BY <2>2, Zenon DEF Mounted
  <2>. QED BY <2>2, <2>3 DEF Mounted
<1>3. ASSUME Mounted PROVE Touch!TouchIsWhereItIsDrawn
  <2>1. Touch!SeenIsTouched
    <3>1. ASSUME NEW p \in Touch!Points(Width, Height), NEW f \in Fonts,
                 NEW row \in 0 .. Touch!GridOf(f, Width, Height).rows - 1,
                 NEW col \in 0 .. Touch!GridOf(f, Width, Height).cols - 1,
                 p \in Touch!CellPixels(Touch!GridOf(f, Width, Height), row, col)
          PROVE  Touch!CellAt(Touch!GridOf(f, Width, Height), p) = <<row + 1, col + 1>>
      BY <3>1, InItsCell
    <3>. QED BY <1>3, <3>1, ThereAndBack DEF Touch!SeenIsTouched
  <2>2. Touch!NothingElseIsDrawn
    BY <1>3, OnlyTheRectangle, BitOfItsOwn DEF Touch!NothingElseIsDrawn
  <2>. QED BY <1>3, <2>1, <2>2, PanelsDoAgree DEF Touch!TouchIsWhereItIsDrawn
<1>4. Mounted => TouchIsWhereItIsDrawn
  BY <1>3 DEF TouchIsWhereItIsDrawn
<1>. QED BY <1>1, <1>2, <1>4, PTL DEF AllSpec
=============================================================================
