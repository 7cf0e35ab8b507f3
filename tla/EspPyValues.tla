------------------------------ MODULE EspPyValues ------------------------------
(***************************************************************************)
(* What Vim's values become in Python and Python's in Vim:                   *)
(* micropython/port/esp_py.c's to_py() and from_py(), over the host          *)
(* functions of vim/api/esp_api_py.c.  A value goes to and fro.              *)
(***************************************************************************)
EXTENDS Naturals, Sequences, FiniteSets

CONSTANT DepthMax   \* DEPTH_MAX

VARIABLES
    place,      \* "vim" or "python"
    val         \* the value there: its kind, and what it holds

vars == <<place, val>>

(* Strings: of UTF-8, of other bytes, and with a NUL inside.                *)
Of(kind, what) == [kind |-> kind, v |-> what]
Cut(text) == IF text = "nul" THEN "utf8" ELSE text

Nested(atoms) ==
    LET Seqs == {<<>>} \cup {<<a>> : a \in atoms} \cup {<<a, b>> : a, b \in atoms}
        Flat == {Of(k, s) : k \in {"list", "tuple"}, s \in Seqs}
                \cup {Of("dict", [key \in {"a"} |-> a]) : a \in atoms}
    IN atoms \cup Flat \cup {Of(k, <<x>>) : k \in {"list", "tuple"}, x \in Flat}

(* v:none and v:null are two values of Vim's, None is one of Python's.       *)
Same == {Of("bool", TRUE), Of("float", 0)}
VimValues == Nested(Same \cup {Of("special", "none"), Of("special", "null"), Of("number", 1),
                               Of("string", "utf8"), Of("string", "raw"), Of("blob", "raw"),
                               Of("funcref", 0)})
PyValues == Nested(Same \cup {Of("None", 0), Of("int", 1), Of("str", "utf8"), Of("str", "nul"),
                              Of("bytes", "raw"), Of("object", 0)})
AnyValue == VimValues \cup PyValues

(* What a value is made of, and how deep.                                   *)
Holds(x) == x.kind \in {"list", "tuple", "dict"}
partsOf[x \in AnyValue] ==
    {x} \cup IF Holds(x) THEN UNION {partsOf[x.v[i]] : i \in DOMAIN x.v} ELSE {}
depthOf[x \in AnyValue] ==
    IF ~Holds(x) \/ x.v = <<>> THEN 0
    ELSE 1 + (CHOOSE d \in {depthOf[x.v[i]] : i \in DOMAIN x.v} :
                \A i \in DOMAIN x.v : depthOf[x.v[i]] <= d)
Contains(x, what) == partsOf[x] \cap what # {}

(* to_py(): a String that is not UTF-8 gives bytes; what Python has nothing
   for gives the string() of it; what holds others, item by item.           *)
AtomToPy(x) ==
    CASE x.kind = "special" -> Of("None", 0)
      [] x.kind = "number" -> Of("int", x.v)
      [] x.kind = "string" -> Of(IF x.v = "raw" THEN "bytes" ELSE "str", x.v)
      [] x.kind = "blob" -> Of("bytes", x.v)
      [] x.kind = "funcref" -> Of("str", "utf8")
      [] OTHER -> x
toPy[x \in AnyValue] ==
    IF Holds(x) THEN Of(x.kind, [i \in DOMAIN x.v |-> toPy[x.v[i]]]) ELSE AtomToPy(x)
ToPy(x) == toPy[x]

(* from_py(): None is v:none; a NUL ends a String; bytes are a Blob.        *)
AtomFromPy(o) ==
    CASE o.kind = "None" -> Of("special", "none")
      [] o.kind = "int" -> Of("number", o.v)
      [] o.kind = "str" -> Of("string", Cut(o.v))
      [] o.kind = "bytes" -> Of("blob", o.v)
      [] OTHER -> o

(* Mistake: a tuple is made a List. *)
fromPyList[o \in AnyValue] ==
    IF Holds(o) THEN Of(IF o.kind = "tuple" THEN "list" ELSE o.kind,
                        [i \in DOMAIN o.v |-> fromPyList[o.v[i]]])
    ELSE AtomFromPy(o)
FromPyList(o) == fromPyList[o]

fromPy[o \in AnyValue] ==
    IF Holds(o) THEN Of(o.kind, [i \in DOMAIN o.v |-> fromPy[o.v[i]]]) ELSE AtomFromPy(o)
FromPy(o) == fromPy[o]

(* Python's own objects are no values of Vim's: TypeError, as too deep a value
   is a ValueError; depth is how deep it is given already.                  *)
HeldAt(x, depth) == depth + depthOf[x] <= DepthMax /\ ~Contains(x, {Of("object", 0)})
Held(x) == HeldAt(x, 0)

-----------------------------------------------------------------------------
(* vim.eval(), and what vim.call() returns; an argument of vim.call(), which is
   in the list of its arguments; what esp_py_eval() returns; Python's work.  *)
Eval == place = "vim" /\ Held(val) /\ place' = "python" /\ val' = ToPy(val)
Back == place' = "vim" /\ val' = FromPy(val)
Call == place = "python" /\ HeldAt(val, 1) /\ Back
Result == place = "python" /\ Held(val) /\ Back
Work == place = "python" /\ val' \in PyValues /\ UNCHANGED place

(* What cannot be handed over is an exception; then Vim evaluates another.  *)
Refused == place = "vim" /\ ~Held(val) /\ val' \in VimValues /\ UNCHANGED place

Init == place = "vim" /\ val \in VimValues

Next == Eval \/ Call \/ Result \/ Work \/ Refused

Spec == Init /\ [][Next]_vars

-----------------------------------------------------------------------------
(* A value of Vim's that Python got comes back as it was, unless it has what
   one of them cannot hold -- v:null, a String that is not UTF-8, a Funcref --
   which is told once and stays.                                            *)
ComesBack ==
    place = "vim" /\ Held(val) =>
        LET back == FromPy(ToPy(val)) IN
        /\ FromPy(ToPy(back)) = back
        /\ \/ Contains(val, {Of("special", "null"), Of("string", "raw"), Of("funcref", 0)})
           \/ back = val
=============================================================================
