-------------------------------- MODULE EspHid --------------------------------
(***************************************************************************)
(* components/esp_kbd/esp_kbd_hid.c: where a keyboard's keys are in its       *)
(* reports, as its report map describes them, and which are held.            *)
(*                                                                           *)
(* descr is what the keyboard means; Map spells it out as a device does, in    *)
(* items that each change one thing, and Parsed must find it again.          *)
(***************************************************************************)
EXTENDS Naturals, Sequences, SequencesExt, FiniteSets

CONSTANTS
    MaxReports, MaxFields,  \* ESP_KBD_MAX_REPORTS, ESP_KBD_MAX_FIELDS
    MaxKeys, StackDepth,    \* ESP_KBD_MAX_KEYS, STACK_DEPTH
    MaxDescr,               \* bound: fields of a description
    Unset                   \* no value

VARIABLES
    descr,      \* the fields of the keyboard's reports, each with the report's id
    style,      \* how the map is written
    mode        \* "all": every field says all it can; "rest": bitmaps what arrays leave

Keyboard == 7
MaxUsages == 16
Wide(page, u) == page * 65536 + u
PageOf(u) == u \div 65536
Modifiers == 224..231       \* E0 to E7
Plain == 4..223

-----------------------------------------------------------------------------
(* What keyboards have in their reports (HID 1.11, 6.2.2 and appendix B)     *)

Field(page, lmin, size, count, usages, listed, flags, output) ==
    [page |-> page, lmin |-> lmin, size |-> size, count |-> count, usages |-> usages,
     listed |-> listed, flags |-> flags, output |-> output]

Kinds == [
    mods     |-> Field(Keyboard, 0, 1, 8, <<224>>, FALSE, {"variable"}, FALSE),
    modsList |-> Field(Keyboard, 0, 1, 8, [i \in 1..8 |-> 223 + i], TRUE, {"variable"}, FALSE),
    keys     |-> Field(Keyboard, 0, 8, 2, <<0>>, FALSE, {}, FALSE),
    codes    |-> Field(Keyboard, 1, 4, 2, <<4>>, FALSE, {}, FALSE),
    bitmap   |-> Field(Keyboard, 0, 1, 3, <<4>>, FALSE, {"variable"}, FALSE),
    pad      |-> Field(Keyboard, 0, 3, 1, <<>>, FALSE, {"constant"}, FALSE),
    media    |-> Field(12, 0, 8, 1, <<0>>, FALSE, {}, FALSE),
    leds     |-> Field(8, 0, 1, 5, <<1>>, FALSE, {"variable"}, TRUE)]

KeyKinds == {"mods", "modsList", "keys", "codes", "bitmap"}
Globals == <<"page", "lmin", "size", "count">>
Codes == {4, 5, 6}          \* bound: the plain keys that are held

(* A keyboard gives the keys below the modifiers in their order.            *)
Rank(keys, u) == Cardinality({w \in keys : w < u})
Overflows(f, held) == mode = "all" /\ Cardinality(held \cap Plain) > Kinds[f.kind].count

(* The usages a field says are held.                                        *)
SaysHeld(f, held) ==
    LET first == {u \in held \cap Plain : Rank(held \cap Plain, u) < 2}
    IN CASE f.kind \in {"mods", "modsList"} -> held \cap Modifiers
         [] f.kind \in {"keys", "codes"} -> IF Overflows(f, held) THEN {} ELSE first
         [] f.kind = "bitmap" -> (held \cap Codes) \ (IF mode = "rest" THEN first ELSE {})
         [] OTHER -> {}

Bit(v, n) == (v \div 2^n) % 2 = 1

(* Entry i of an array, which counts from its least usage.                  *)
Entry(f, held, i) ==
    LET k == Kinds[f.kind]
        said == SaysHeld(f, held)
    IN IF f.kind = "keys" /\ Overflows(f, held) THEN 1
       ELSE IF \E u \in said : Rank(said, u) = i - 1
       THEN (CHOOSE u \in said : Rank(said, u) = i - 1) - k.usages[1] + k.lmin ELSE 0

(* A field's bits; what is neither key nor modifier has all its bits set.   *)
Data(f, held) ==
    LET k == Kinds[f.kind]
        says == SaysHeld(f, held)
    IN [j \in 1..(k.size * k.count) |->
        IF f.kind \notin KeyKinds THEN TRUE
        ELSE IF "variable" \in k.flags THEN k.usages[1] + j - 1 \in says
        ELSE Bit(Entry(f, held, (j - 1) \div k.size + 1), (j - 1) % k.size)]

Report(id, held) ==
    FoldLeft(LAMBDA bits, f : IF f.id # id \/ Kinds[f.kind].output THEN bits
                              ELSE bits \o Data(f, held), <<>>, descr)

Changed(acc, k) ==
    FoldLeft(LAMBDA its, g : IF acc.g[g] = k[g] THEN its ELSE Append(its, [tag |-> g, v |-> k[g]]),
             <<>>, Globals)
Locals(k) ==
    [i \in DOMAIN k.usages |->
        [tag |-> IF k.listed THEN "usage" ELSE "min", wide |-> style.wide,
         v |-> IF style.wide THEN Wide(k.page, k.usages[i]) ELSE k.usages[i]]]

(* The items of one field: the globals that change (or all of them between a
   push and a pop), the locals, the main item.                              *)
ItemsOf(acc, f) ==
    LET k == Kinds[f.kind]
    IN (IF acc.id = f.id THEN <<>> ELSE <<[tag |-> "id", v |-> f.id]>>)
       \o (IF style.push THEN <<[tag |-> "push"]>> ELSE <<>>)
       \o Changed(acc, k) \o Locals(k)
       \o <<[tag |-> IF k.output THEN "output" ELSE "input", flags |-> k.flags]>>
       \o (IF style.push THEN <<[tag |-> "pop"]>> ELSE <<>>)

Written(acc, f) ==
    [id |-> f.id, items |-> acc.items \o ItemsOf(acc, f),
     g |-> IF style.push THEN acc.g ELSE [g \in ToSet(Globals) |-> Kinds[f.kind][g]]]

Blank == [id |-> 0, items |-> <<>>, g |-> [g \in ToSet(Globals) |-> Unset]]
Map == FoldLeft(Written, Blank, descr).items

-----------------------------------------------------------------------------
(* The parser *)

Start == [g |-> [page |-> 0, lmin |-> 0, size |-> 0, count |-> 0, id |-> 0], stack |-> <<>>,
          usage |-> <<>>, min |-> Unset, offs |-> [id \in {} |-> 0], out |-> <<>>]

FullUsage(ps, it) == IF it.wide THEN it.v ELSE Wide(ps.g.page, it.v)

Offset(ps) == IF ps.g.id \in DOMAIN ps.offs THEN ps.offs[ps.g.id] ELSE 0

(* What an Input item says of keys, in the form of esp_kbd_field_t.          *)
First(ps) == IF ps.min # Unset THEN ps.min
             ELSE IF ps.usage # <<>> THEN ps.usage[1] ELSE Wide(ps.g.page, 0)
IsOfKeys(ps, flags) ==
    /\ "constant" \notin flags /\ PageOf(First(ps)) = Keyboard /\ ps.g.size * ps.g.count > 0
    /\ "variable" \in flags =>
         /\ ps.g.size = 1
         /\ ps.min # Unset \/ \A k \in 2..Len(ps.usage) :
                                 k <= ps.g.count => ps.usage[k] = ps.usage[1] + k - 1
FieldOf(ps, flags) ==
    LET array == "variable" \notin flags
    IN [bit |-> Offset(ps), count |-> ps.g.count, size |-> ps.g.size, array |-> array,
        base |-> (First(ps) % 65536) - (IF array THEN ps.g.lmin ELSE 0)]

(* layout_for() and the field it takes, if there is room for both.          *)
Kept(out, id, field) ==
    IF \E n \in DOMAIN out : out[n].id = id
    THEN [n \in DOMAIN out |->
            IF out[n].id = id /\ Len(out[n].fields) < MaxFields
            THEN [out[n] EXCEPT !.fields = Append(@, field)] ELSE out[n]]
    ELSE IF Len(out) = MaxReports THEN out ELSE Append(out, [id |-> id, fields |-> <<field>>])

(* The offset of each report, in 16 bits.                                    *)
MovedOn(ps, bits) ==
    [id \in DOMAIN ps.offs \cup {ps.g.id} |-> IF id = ps.g.id THEN (Offset(ps) + bits) % 65536 ELSE ps.offs[id]]
KeptIf(ps, flags) ==
    IF IsOfKeys(ps, flags) THEN Kept(ps.out, ps.g.id, FieldOf(ps, flags)) ELSE ps.out

(* Mistake: only a field of keys moves the offset on. *)
InputKeysOnly(ps, flags) ==
    [ps EXCEPT !.out = KeptIf(ps, flags),
               !.offs = IF IsOfKeys(ps, flags) THEN MovedOn(ps, ps.g.size * ps.g.count) ELSE @]

(* Every Input moves its report's offset on.                                *)
Input(ps, flags) ==
    [ps EXCEPT !.out = KeptIf(ps, flags), !.offs = MovedOn(ps, ps.g.size * ps.g.count)]

(* A main item ends the locals.                                             *)
NoLocals(ps) == [ps EXCEPT !.usage = <<>>, !.min = Unset]

Item(ps, it) ==
    CASE it.tag \in DOMAIN ps.g -> [ps EXCEPT !.g[it.tag] = it.v]
      [] it.tag = "push" -> IF Len(ps.stack) < StackDepth
                            THEN [ps EXCEPT !.stack = Append(@, ps.g)] ELSE ps
      [] it.tag = "pop" -> IF ps.stack = <<>> THEN ps
                           ELSE [ps EXCEPT !.g = Last(ps.stack), !.stack = Front(@)]
      [] it.tag = "usage" -> IF Len(ps.usage) < MaxUsages
                             THEN [ps EXCEPT !.usage = Append(@, FullUsage(ps, it))] ELSE ps
      [] it.tag = "min" -> [ps EXCEPT !.min = FullUsage(ps, it)]
      [] it.tag = "input" -> NoLocals(Input(ps, it.flags))
      [] it.tag = "output" -> NoLocals(ps)

Parsed(items) == FoldLeft(Item, Start, items).out

-----------------------------------------------------------------------------
(* The decoder *)

GetBits(data, bit, size) ==
    LET v[n \in 0..size] ==
            IF n = 0 THEN 0
            ELSE IF bit + (n - 1) < Len(data) /\ data[bit + (n - 1) + 1]
            THEN v[n - 1] + 2^(n - 1) ELSE v[n - 1]
    IN v[size]

(* held(): a modifier, a key, or nothing.                                    *)
Hold(out, usage) ==
    CASE usage = 1 -> [out EXCEPT !.rollover = TRUE]
      [] usage \in Modifiers -> [out EXCEPT !.mods = @ \cup {usage}]
      [] usage \in Plain /\ Len(out.keys) < MaxKeys -> [out EXCEPT !.keys = Append(@, usage)]
      [] OTHER -> out

Nothing == [mods |-> {}, keys |-> <<>>, hasMods |-> FALSE, rollover |-> FALSE]
Settled(out) == IF out.rollover THEN [out EXCEPT !.keys = <<>>] ELSE out

(* Entry i of a field, if any.  A bit set for usage 1 is no rollover.        *)
ReadEntry(data, x, out, i) ==
    LET v == GetBits(data, x.bit + i * x.size, x.size)
    IN IF v = 0 \/ (~x.array /\ x.base + i = 1) THEN out
       ELSE Hold(out, x.base + IF x.array THEN v ELSE i)

ReadField(data, out, x) ==
    LET whole == ~x.array /\ x.base <= 224 /\ x.base + x.count > 231
    IN FoldLeft(LAMBDA o, i : ReadEntry(data, x, o, i), [out EXCEPT !.hasMods = @ \/ whole],
                [i \in 1..x.count |-> i - 1])

HeldBy(fields, data) == FoldLeft(LAMBDA o, x : ReadField(data, o, x), Nothing, fields)

(* esp_kbd_decode(): Unset if the report has no keys.                        *)
Decode(layouts, id, data) ==
    LET of == {n \in DOMAIN layouts : layouts[n].id = id}
    IN IF of = {} THEN Unset
       ELSE Settled(HeldBy(layouts[CHOOSE n \in of : \A m \in of : m <= n].fields, data))

HeldBytes(mods, r) ==
    FoldLeft(LAMBDA o, u : IF u = 0 THEN o ELSE Hold(o, u),
             [Nothing EXCEPT !.hasMods = TRUE, !.mods = mods], r)

(* esp_kbd_decode_boot(), of bytes: some keyboards leave the reserved one out. *)
DecodeBoot(mods, r) ==
    IF Len(r) < 2 THEN Unset
    ELSE Settled(HeldBytes(mods, IF Len(r) >= 7 THEN SubSeq(r, 2, 7) ELSE r))

-----------------------------------------------------------------------------
Init ==
    /\ descr = <<>>
    /\ style \in {[wide |-> FALSE, push |-> FALSE], [wide |-> TRUE, push |-> TRUE]}
    /\ mode \in {"all", "rest"}

(* A keyboard with one more field; with ids, all of its fields have one, 1
   the first.                                                               *)
Describe(kind, id) ==
    /\ Len(descr) < MaxDescr
    /\ IF descr = <<>> THEN id # 2 ELSE descr[1].id = 0 <=> id = 0
    /\ descr' = Append(descr, [kind |-> kind, id |-> id])
    /\ UNCHANGED <<style, mode>>

Next == \E kind \in DOMAIN Kinds, id \in 0..2 : Describe(kind, id)
Spec == Init /\ [][Next]_<<descr, style, mode>>

-----------------------------------------------------------------------------
HeldSets == {k \cup m : k \in SUBSET Codes, m \in {{}, {224, 231}}}

(* What report id says, of the fields the program has room for.             *)
KeyFields(id) == {n \in DOMAIN descr : descr[n].id = id /\ descr[n].kind \in KeyKinds}
Heard(id) == {n \in KeyFields(id) : Rank(KeyFields(id), n) < MaxFields}
Meant(id, held) ==
    LET rollover == \E n \in Heard(id) : descr[n].kind = "keys" /\ Overflows(descr[n], held)
        said == UNION {SaysHeld(descr[n], held) : n \in Heard(id)}
    IN [mods |-> said \cap Modifiers, rollover |-> rollover,
        keys |-> IF rollover THEN {} ELSE said \cap Plain,
        hasMods |-> \E n \in Heard(id) : descr[n].kind \in {"mods", "modsList"}]

(* However a keyboard describes its reports, in arrays or bitmaps, with ids or
   without, among fields that are not keys, what is read from one is what it
   says is held; and a report in which too many are held gives up the keys but
   not the modifiers.                                                       *)
ReadsWhatIsHeld ==
    LET layouts == Parsed(Map)
    IN \A id \in 0..2, held \in HeldSets :
        LET got == Decode(layouts, id, Report(id, held))
        IN IF KeyFields(id) # {}
           THEN got # Unset /\ [got EXCEPT !.keys = ToSet(@)] = Meant(id, held)
           ELSE got = Unset

(* The boot layout is read with its reserved byte and without it, cut short
   or not.                                                                  *)
ReadsBoot ==
    \A keys \in UNION {[1..n -> {0, 4, 5}] : n \in 2..6}, mods \in {{}, {225}} :
        LET got(r) == DecodeBoot(mods, r)
            rest == [i \in 1..(6 - Len(keys)) |-> 0]
            same(r) == got(r).mods = mods /\ ToSet(got(r).keys) = ToSet(keys) \cap Plain
        IN same(keys) /\ same(<<0>> \o keys \o rest)

(* Both kinds of report.                                                    *)
ReportsAreRead == ReadsWhatIsHeld /\ (descr = <<>> => ReadsBoot)
=============================================================================
