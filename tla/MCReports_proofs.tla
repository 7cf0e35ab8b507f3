--------------------------- MODULE MCReports_proofs ---------------------------
(***************************************************************************)
(* Proofs about EspHid, the reports of keyboards, in the console's run: with *)
(* as many fields in a map as its 16-bit offsets have room for, and any room *)
(* for layouts, fields and keys that the code has.  A fold of the model is a *)
(* loop of the code: h[n] is what it has come to after its first n steps.    *)
(* With that the parser is led through the items that a map writes, field by *)
(* field, and comes to the layouts its fields have; a report is read at the  *)
(* bits where the fields wrote it, and what is heard is what is held.        *)
(***************************************************************************)
EXTENDS MCConsole, FiniteSetTheorems, SequenceTheorems, TLAPS

-----------------------------------------------------------------------------
(* Loops. *)
LEMMA LeastOfNaturals ==
    ASSUME NEW S \in SUBSET Nat, S # {}
    PROVE  \E s \in S : \A t \in S : s <= t
<1>1. PICK s \in S : \A t \in S : ~ (<<t, s>> \in OpToRel(<, Nat))
  BY NatLessThanWellFounded, WFMin
<1>2. ASSUME NEW t \in S PROVE s <= t
  <2>1. t \in Nat /\ s \in Nat
    OBVIOUS
  <2>2. ~ (t < s)
    BY <1>1, <2>1 DEF OpToRel
  <2>. QED BY <2>1, <2>2
<1>. QED BY <1>2

Greatest(s) == CHOOSE x \in s : \A y \in s : x >= y

(* One step of each loop, with what it is given. *)
LoopStep(what, p, r, acc, x) ==
    IF what = "report" THEN
        (IF x.id # p \/ Hid!Kinds[x.kind].output THEN acc ELSE acc \o Hid!Data(x, r))
    ELSE IF what = "written" THEN Hid!Written(acc, x)
    ELSE IF what = "globals" THEN
        (IF p.g[x] = r[x] THEN acc ELSE Append(acc, [tag |-> x, v |-> r[x]]))
    ELSE IF what = "item" THEN Hid!Item(acc, x)
    ELSE IF what = "bits" THEN
        (IF r + x < Len(p) /\ p[r + x + 1] THEN acc + 2^x ELSE acc)
    ELSE IF what = "entries" THEN Hid!ReadEntry(p, r, acc, x)
    ELSE IF what = "fields" THEN Hid!ReadField(p, acc, x)
    ELSE (IF x = 0 THEN acc ELSE Hid!Hold(acc, x))

IsLoop(what, p, r, base, q, D, g) ==
    g = [s \in D |-> IF s = {} THEN base
                     ELSE LoopStep(what, p, r, g[s \ {Greatest(s)}], q[Greatest(s)])]

Looped(what, p, r, base, q, N, g) == IsLoop(what, p, r, base, q, SUBSET (1 .. N), g)

(* What a loop has come to after each of its steps. *)
Runs(what, p, r, base, q, N, h) ==
    h[0] = base /\ \A n \in 1 .. N : h[n] = LoopStep(what, p, r, h[n - 1], q[n])

(* What holds at 0, and of each number's follower, holds as far as N. *)
LEMMA OneByOne ==
    ASSUME NEW N \in Nat, NEW G, 0 \in G, \A n \in 0 .. N : n \in G /\ n < N => n + 1 \in G
    PROVE  \A n \in 0 .. N : n \in G
<1>. DEFINE bad == {n \in 0 .. N : n \notin G}
<1>1. ASSUME bad # {} PROVE FALSE
  <2>1. bad \in SUBSET Nat
    OBVIOUS
  <2>2. PICK n \in bad : \A m \in bad : n <= m
    <3>. HIDE DEF bad
    <3>. QED BY <1>1, <2>1, LeastOfNaturals
  <2>3. n # 0 /\ n - 1 \in 0 .. N /\ n - 1 < N /\ (n - 1) + 1 = n /\ ~ (n <= n - 1)
    BY <2>2
  <2>4. n - 1 \notin bad
    BY <2>2, <2>3
  <2>. QED BY <2>2, <2>3, <2>4
<1>. QED BY <1>1

(* Of some of the first n + 1 numbers, the last among them, it is the greatest. *)
LEMMA GreatestOf ==
    ASSUME NEW n \in Nat, NEW s \in SUBSET (1 .. n + 1), n + 1 \in s
    PROVE  Greatest(s) = n + 1
<1>1. \A y \in s : n + 1 >= y
  OBVIOUS
<1>2. \A x \in s : (\A y \in s : x >= y) => x = n + 1
  <2> SUFFICES ASSUME NEW x \in s, \A y \in s : x >= y PROVE x = n + 1
    OBVIOUS
  <2>1. x \in Nat /\ x >= n + 1 /\ n + 1 >= x
    BY <1>1
  <2> QED BY <2>1
<1> QED BY <1>1, <1>2, Zenon DEF Greatest

(* There is one, for as many steps as there are. *)
LEMMA LoopExists ==
    ASSUME NEW what, NEW p, NEW r, NEW base, NEW q, NEW N \in Nat
    PROVE  \E g : IsLoop(what, p, r, base, q, SUBSET (1 .. N), g)
<1> DEFINE Has(n) == \E g : IsLoop(what, p, r, base, q, SUBSET (1 .. n), g)
           G == {n \in 0 .. N : Has(n)}
<1>1. 0 \in G
  <2>1. SUBSET (1 .. 0) = {{}}
    OBVIOUS
  <2>2. IsLoop(what, p, r, base, q, {{}}, [s \in {{}} |-> base])
    <3>1. [s \in {{}} |-> base] = [s \in {{}} |-> IF s = {} THEN base ELSE
             LoopStep(what, p, r, [s2 \in {{}} |-> base][s \ {Greatest(s)}], q[Greatest(s)])]
      OBVIOUS
    <3> QED BY <3>1, Zenon DEF IsLoop
  <2>3. Has(0)
    BY <2>1, <2>2, Zenon
  <2> QED BY <2>3
<1>2. ASSUME NEW n \in 0 .. N, n \in G, n < N PROVE n + 1 \in G
  <2> HIDE DEF Has
  <2>1. Has(n) /\ n \in Nat /\ n + 1 \in 0 .. N
    BY <1>2
  <2>2. PICK g : IsLoop(what, p, r, base, q, SUBSET (1 .. n), g)
    BY <2>1, Zenon DEF Has
  <2> DEFINE D == SUBSET (1 .. n)
             E == SUBSET (1 .. n + 1)
             h == [s \in E |-> IF s \in D THEN g[s] ELSE LoopStep(what, p, r, g[s \ {n + 1}], q[n + 1])]
  <2>3. \A s \in D : s \in E /\ s \ {Greatest(s)} \in D
    <3>1. ASSUME NEW s \in D, NEW e PROVE s \in E /\ s \ {e} \in D
      <4>1. s \subseteq 1 .. n /\ 1 .. n \subseteq 1 .. n + 1
        BY <2>1
      <4> QED BY <4>1
    <3> HIDE DEF D, E
    <3> QED BY <3>1
  <2>4. ASSUME NEW s \in E, s \notin D PROVE n + 1 \in s /\ s # {} /\ s \ {n + 1} \in D
    <3>1. \A i \in 1 .. n + 1 : i \in 1 .. n \/ i = n + 1
      BY <2>1
    <3>2. n + 1 \in s
      BY <2>4, <3>1
    <3> QED BY <3>1, <3>2
  <2>5. ASSUME NEW s \in E, s \notin D PROVE Greatest(s) = n + 1
    BY <2>1, <2>4, <2>5, GreatestOf
  <2>6. \A s \in D : g[s] = IF s = {} THEN base
                            ELSE LoopStep(what, p, r, g[s \ {Greatest(s)}], q[Greatest(s)])
    <3> HIDE DEF D
    <3> QED BY <2>2, Zenon DEF IsLoop, D
  <2> HIDE DEF D, E
  <2>7. \A s \in D : h[s] = g[s]
    BY <2>3, Zenon
  <2>8. \A s \in E : s \notin D => h[s] = LoopStep(what, p, r, g[s \ {n + 1}], q[n + 1])
    BY Zenon
  <2> HIDE DEF h
  <2>9. ASSUME NEW s \in E
        PROVE  h[s] = IF s = {} THEN base ELSE LoopStep(what, p, r, h[s \ {Greatest(s)}], q[Greatest(s)])
    <3>1. CASE s \in D
      BY <2>3, <2>6, <2>7, <3>1, Zenon
    <3>2. CASE s \notin D
      BY <2>4, <2>5, <2>7, <2>8, <3>2, Zenon
    <3> QED BY <3>1, <3>2, Zenon
  <2>10. h = [s \in E |-> IF s = {} THEN base
                          ELSE LoopStep(what, p, r, h[s \ {Greatest(s)}], q[Greatest(s)])]
    <3>1. h = [s \in E |-> h[s]]
      BY Zenon DEF h
    <3> QED BY <2>9, <3>1, Zenon
  <2>11. Has(n + 1)
    BY <2>10, Zenon DEF Has, IsLoop, E
  <2> QED BY <2>1, <2>11
<1> HIDE DEF Has
<1>3. \A n \in 0 .. N : n \in G
  <2> HIDE DEF G
  <2> QED BY <1>1, <1>2, OneByOne
<1>4. N \in G
  BY <1>3
<1>5. Has(N)
  BY <1>4
<1> QED BY <1>5, Zenon DEF Has

RunsTo(what, p, r, base, q, N, e) == \E h : Runs(what, p, r, base, q, N, h) /\ h[N] = e

(* A fold, by its definition, is what its loop has come to at the end. *)
LEMMA LoopRuns ==
    ASSUME NEW what, NEW p, NEW r, NEW base, NEW q, NEW N \in Nat, NEW f,
           Looped(what, p, r, base, q, N, f)
    PROVE  RunsTo(what, p, r, base, q, N, f[1 .. N])
<1> DEFINE h == [n \in 0 .. N |-> f[1 .. n]]
           D == SUBSET (1 .. N)
<1>1. \A s \in D : f[s] = IF s = {} THEN base
                          ELSE LoopStep(what, p, r, f[s \ {Greatest(s)}], q[Greatest(s)])
  <2> HIDE DEF D
  <2> QED BY Zenon DEF Looped, IsLoop, D
<1>2. h[0] = base
  <2>1. 1 .. 0 = {} /\ {} \in D
    OBVIOUS
  <2>2. f[1 .. 0] = base
    <3> HIDE DEF D
    <3> QED BY <1>1, <2>1, Zenon
  <2> QED BY <2>2
<1>3. ASSUME NEW n \in 1 .. N PROVE h[n] = LoopStep(what, p, r, h[n - 1], q[n])
  <2>1. n - 1 \in Nat /\ (n - 1) + 1 = n /\ n \in 0 .. N /\ n - 1 \in 0 .. N
    OBVIOUS
  <2>2. 1 .. n \in D /\ 1 .. n # {} /\ n \in 1 .. n
    OBVIOUS
  <2>3. Greatest(1 .. n) = n
    <3>1. Greatest(1 .. n) = (n - 1) + 1
      BY <2>1, <2>2, GreatestOf
    <3> QED BY <2>1, <3>1
  <2>4. (1 .. n) \ {n} = 1 .. n - 1
    OBVIOUS
  <2>5. f[1 .. n] = LoopStep(what, p, r, f[1 .. n - 1], q[n])
    <3> HIDE DEF D
    <3> QED BY <1>1, <2>2, <2>3, <2>4, Zenon
  <2>6. h[n] = f[1 .. n] /\ h[n - 1] = f[1 .. n - 1]
    BY <2>1
  <2> QED BY <2>5, <2>6, Zenon
<1>4. h[N] = f[1 .. N]
  OBVIOUS
<1> HIDE DEF h
<1> QED BY <1>2, <1>3, <1>4, Zenon DEF Runs, RunsTo

(* Of each loop. *)
LEMMA ReportRuns ==
    ASSUME NEW id, NEW heldKeys, NEW N \in Nat, DOMAIN descr = 1 .. N
    PROVE  RunsTo("report", id, heldKeys, <<>>, descr, N, Hid!Report(id, heldKeys))
<1> DEFINE q == descr
           base == <<>>
<1>1. PICK g : IsLoop("report", id, heldKeys, base, q, SUBSET (1 .. N), g)
  BY LoopExists, Zenon
<1> DEFINE D == SUBSET (1 .. N)
           IsIt(f) == f = [s \in D |-> IF s = {} THEN base ELSE
                             (IF q[Greatest(s)].id # id \/ Hid!Kinds[q[Greatest(s)].kind].output THEN f[s \ {Greatest(s)}]
                              ELSE f[s \ {Greatest(s)}] \o Hid!Data(q[Greatest(s)], heldKeys))]
<1>2. \A f : IsIt(f) <=> IsLoop("report", id, heldKeys, base, q, SUBSET (1 .. N), f)
  BY Zenon DEF IsLoop, LoopStep
<1>3. DOMAIN q = 1 .. N
  OBVIOUS
<1>4. Hid!Report(id, heldKeys) = (CHOOSE f : IsIt(f))[1 .. N]
  BY <1>3, Zenon DEF Hid!Report, Hid!FoldLeft, Hid!MapThenFoldSet, Hid!Max, Greatest
<1> HIDE DEF IsIt
<1>5. PICK f : IsIt(f) /\ f = CHOOSE e : IsIt(e)
  BY <1>1, <1>2, Zenon
<1>6. Looped("report", id, heldKeys, base, q, N, f)
  BY <1>2, <1>5, Zenon DEF Looped
<1>7. PICK h : Runs("report", id, heldKeys, base, q, N, h) /\ h[N] = f[1 .. N]
  <2>1. RunsTo("report", id, heldKeys, base, q, N, f[1 .. N])
    BY <1>6, LoopRuns, Zenon
  <2> QED BY <2>1, Zenon DEF RunsTo
<1>8. h[N] = Hid!Report(id, heldKeys)
  BY <1>4, <1>5, <1>7, Zenon
<1>9. Runs("report", id, heldKeys, <<>>, descr, N, h)
  BY <1>7, Zenon
<1> QED BY <1>8, <1>9, Zenon DEF RunsTo

LEMMA MapRuns ==
    ASSUME NEW N \in Nat, DOMAIN descr = 1 .. N
    PROVE  \E e : RunsTo("written", 0, 0, Hid!Blank, descr, N, e) /\ e.items = Hid!Map
<1> DEFINE q == descr
           base == Hid!Blank
<1>1. PICK g : IsLoop("written", 0, 0, base, q, SUBSET (1 .. N), g)
  BY LoopExists, Zenon
<1> DEFINE D == SUBSET (1 .. N)
           IsIt(f) == f = [s \in D |-> IF s = {} THEN base ELSE
                             Hid!Written(f[s \ {Greatest(s)}], q[Greatest(s)])]
<1>2. \A f : IsIt(f) <=> IsLoop("written", 0, 0, base, q, SUBSET (1 .. N), f)
  BY Zenon DEF IsLoop, LoopStep
<1>3. DOMAIN q = 1 .. N
  OBVIOUS
<1>4. Hid!Map = (CHOOSE f : IsIt(f))[1 .. N].items
  BY <1>3, Zenon DEF Hid!Map, Hid!FoldLeft, Hid!MapThenFoldSet, Hid!Max, Greatest
<1> HIDE DEF IsIt
<1>5. PICK f : IsIt(f) /\ f = CHOOSE e : IsIt(e)
  BY <1>1, <1>2, Zenon
<1>6. Looped("written", 0, 0, base, q, N, f)
  BY <1>2, <1>5, Zenon DEF Looped
<1>7. PICK h : Runs("written", 0, 0, base, q, N, h) /\ h[N] = f[1 .. N]
  <2>1. RunsTo("written", 0, 0, base, q, N, f[1 .. N])
    BY <1>6, LoopRuns, Zenon
  <2> QED BY <2>1, Zenon DEF RunsTo
<1>8. h[N].items = Hid!Map
  BY <1>4, <1>5, <1>7, Zenon
<1>9. Runs("written", 0, 0, Hid!Blank, descr, N, h)
  BY <1>7, Zenon
<1> QED BY <1>8, <1>9, Zenon DEF RunsTo

LEMMA GlobalsRun ==
    ASSUME NEW acc, NEW k, NEW N \in Nat, DOMAIN Hid!Globals = 1 .. N
    PROVE  RunsTo("globals", acc, k, <<>>, Hid!Globals, N, Hid!Changed(acc, k))
<1> DEFINE q == Hid!Globals
           base == <<>>
<1>1. PICK g : IsLoop("globals", acc, k, base, q, SUBSET (1 .. N), g)
  BY LoopExists, Zenon
<1> DEFINE D == SUBSET (1 .. N)
           Emit(its, g0) == IF acc.g[g0] = k[g0] THEN its ELSE Append(its, [tag |-> g0, v |-> k[g0]])
           IsIt(f) == f = [s \in D |-> IF s = {} THEN base ELSE Emit(f[s \ {Greatest(s)}], q[Greatest(s)])]
<1>2. \A f : IsIt(f) <=> IsLoop("globals", acc, k, base, q, SUBSET (1 .. N), f)
  <2>1. \A its, g0 : LoopStep("globals", acc, k, its, g0) = Emit(its, g0)
    BY Zenon DEF LoopStep
  <2> HIDE DEF base, q, D, Emit
  <2>2. ASSUME NEW f PROVE IsIt(f) <=> IsLoop("globals", acc, k, base, q, D, f)
    BY <2>1, Zenon DEF IsIt, IsLoop
  <2> QED BY <2>2, Zenon DEF D
<1>3. DOMAIN q = 1 .. N
  OBVIOUS
<1>4. Hid!Changed(acc, k) = (CHOOSE f : IsIt(f))[1 .. N]
  BY <1>3, Zenon DEF Hid!Changed, Hid!FoldLeft, Hid!MapThenFoldSet, Hid!Max, Greatest
<1> HIDE DEF IsIt
<1>5. PICK f : IsIt(f) /\ f = CHOOSE e : IsIt(e)
  BY <1>1, <1>2, Zenon
<1>6. Looped("globals", acc, k, base, q, N, f)
  BY <1>2, <1>5, Zenon DEF Looped
<1>7. PICK h : Runs("globals", acc, k, base, q, N, h) /\ h[N] = f[1 .. N]
  <2>1. RunsTo("globals", acc, k, base, q, N, f[1 .. N])
    BY <1>6, LoopRuns, Zenon
  <2> QED BY <2>1, Zenon DEF RunsTo
<1>8. h[N] = Hid!Changed(acc, k)
  BY <1>4, <1>5, <1>7, Zenon
<1>9. Runs("globals", acc, k, <<>>, Hid!Globals, N, h)
  BY <1>7, Zenon
<1> QED BY <1>8, <1>9, Zenon DEF RunsTo

LEMMA ItemsRun ==
    ASSUME NEW items, NEW N \in Nat, DOMAIN items = 1 .. N
    PROVE  \E e : RunsTo("item", 0, 0, Hid!Start, items, N, e) /\ e.out = Hid!Parsed(items)
<1> DEFINE q == items
           base == Hid!Start
<1>1. PICK g : IsLoop("item", 0, 0, base, q, SUBSET (1 .. N), g)
  BY LoopExists, Zenon
<1> DEFINE D == SUBSET (1 .. N)
           IsIt(f) == f = [s \in D |-> IF s = {} THEN base ELSE
                             Hid!Item(f[s \ {Greatest(s)}], q[Greatest(s)])]
<1>2. \A f : IsIt(f) <=> IsLoop("item", 0, 0, base, q, SUBSET (1 .. N), f)
  BY Zenon DEF IsLoop, LoopStep
<1>3. DOMAIN q = 1 .. N
  OBVIOUS
<1>4. Hid!Parsed(items) = (CHOOSE f : IsIt(f))[1 .. N].out
  BY <1>3, Zenon DEF Hid!Parsed, Hid!FoldLeft, Hid!MapThenFoldSet, Hid!Max, Greatest
<1> HIDE DEF IsIt
<1>5. PICK f : IsIt(f) /\ f = CHOOSE e : IsIt(e)
  BY <1>1, <1>2, Zenon
<1>6. Looped("item", 0, 0, base, q, N, f)
  BY <1>2, <1>5, Zenon DEF Looped
<1>7. PICK h : Runs("item", 0, 0, base, q, N, h) /\ h[N] = f[1 .. N]
  <2>1. RunsTo("item", 0, 0, base, q, N, f[1 .. N])
    BY <1>6, LoopRuns, Zenon
  <2> QED BY <2>1, Zenon DEF RunsTo
<1>8. h[N].out = Hid!Parsed(items)
  BY <1>4, <1>5, <1>7, Zenon
<1>9. Runs("item", 0, 0, Hid!Start, items, N, h)
  BY <1>7, Zenon
<1> QED BY <1>8, <1>9, Zenon DEF RunsTo

LEMMA BitsRun ==
    ASSUME NEW data, NEW bit, NEW size, size \in Nat
    PROVE  RunsTo("bits", data, bit, 0, [i \in 1 .. size |-> i - 1], size, Hid!GetBits(data, bit, size))
<1> DEFINE q == [i \in 1 .. size |-> i - 1]
           Next1(v, n) == IF bit + (n - 1) < Len(data) /\ data[bit + (n - 1) + 1]
                          THEN v[n - 1] + 2^(n - 1) ELSE v[n - 1]
           IsIt(v) == v = [n \in 0 .. size |-> IF n = 0 THEN 0 ELSE Next1(v, n)]
<1>1. PICK f : Looped("bits", data, bit, 0, q, size, f)
  BY LoopExists, Zenon DEF Looped
<1>2. PICK h : Runs("bits", data, bit, 0, q, size, h)
  <2>1. RunsTo("bits", data, bit, 0, q, size, f[1 .. size])
    BY <1>1, LoopRuns, Zenon
  <2> QED BY <2>1, Zenon DEF RunsTo
<1>3. \A v, n : n \in 1 .. size =>
          LoopStep("bits", data, bit, v[n - 1], q[n]) = Next1(v, n)
  <2>1. \A n \in 1 .. size : q[n] = n - 1
    OBVIOUS
  <2> HIDE DEF q
  <2> QED BY <2>1, Zenon DEF LoopStep
<1>4. h[0] = 0 /\ \A n \in 1 .. size : h[n] = Next1(h, n)
  <2> HIDE DEF Next1, q
  <2> QED BY <1>2, <1>3, Zenon DEF Runs
<1>5. \A n \in 0 .. size : /\ n # 0 => n \in 1 .. size /\ n - 1 \in 0 .. size
                           /\ n \in 1 .. size => n # 0
  OBVIOUS
<1>6. \E v : IsIt(v)
  <2> DEFINE w == [n \in 0 .. size |-> h[n]]
  <2>1. ASSUME NEW n \in 0 .. size PROVE h[n] = IF n = 0 THEN 0 ELSE Next1(w, n)
    <3>1. CASE n = 0
      BY <1>4, <3>1
    <3>2. CASE n # 0
      <4>1. w[n - 1] = h[n - 1]
        BY <1>5, <3>2
      <4>2. h[n] = Next1(h, n)
        BY <1>4, <1>5, <3>2
      <4> HIDE DEF w
      <4> QED BY <3>2, <4>1, <4>2, Zenon
    <3> QED BY <3>1, <3>2
  <2> HIDE DEF Next1
  <2>2. w = [n \in 0 .. size |-> IF n = 0 THEN 0 ELSE Next1(w, n)]
    BY <2>1, Zenon
  <2> QED BY <2>2, Zenon
<1>7. PICK v : IsIt(v) /\ v = CHOOSE e : IsIt(e)
  <2> HIDE DEF IsIt
  <2> QED BY <1>6, Zenon
<1>8. v[size] = Hid!GetBits(data, bit, size)
  BY <1>7, Zenon DEF Hid!GetBits
<1>9. v[0] = 0 /\ \A n \in 1 .. size : v[n] = Next1(v, n)
  <2> HIDE DEF Next1
  <2>1. \A n \in 0 .. size : v[n] = IF n = 0 THEN 0 ELSE Next1(v, n)
    BY <1>7, Zenon
  <2>2. 0 \in 0 .. size /\ \A n \in 1 .. size : n \in 0 .. size /\ n # 0
    OBVIOUS
  <2> QED BY <2>1, <2>2, Zenon
<1>10. Runs("bits", data, bit, 0, q, size, v)
  <2> HIDE DEF Next1, q
  <2> QED BY <1>3, <1>9, Zenon DEF Runs
<1> QED BY <1>8, <1>10, Zenon DEF RunsTo

LEMMA EntriesRun ==
    ASSUME NEW data, NEW x, NEW out, x.count \in Nat
    PROVE  RunsTo("entries", data, x, [out EXCEPT !.hasMods = @ \/ (~x.array /\ x.base <= 224 /\ x.base + x.count > 231)], [i \in 1 .. x.count |-> i - 1], x.count, Hid!ReadField(data, out, x))
<1> DEFINE q == [i \in 1 .. x.count |-> i - 1]
           base == [out EXCEPT !.hasMods = @ \/ (~x.array /\ x.base <= 224 /\ x.base + x.count > 231)]
<1>1. PICK g : IsLoop("entries", data, x, base, q, SUBSET (1 .. x.count), g)
  BY LoopExists, Zenon
<1> DEFINE D == SUBSET (1 .. x.count)
           IsIt(f) == f = [s \in D |-> IF s = {} THEN base ELSE
                             Hid!ReadEntry(data, x, f[s \ {Greatest(s)}], q[Greatest(s)])]
<1>2. \A f : IsIt(f) <=> IsLoop("entries", data, x, base, q, SUBSET (1 .. x.count), f)
  <2> HIDE DEF base, q
  <2> QED BY Zenon DEF IsLoop, LoopStep
<1>3. DOMAIN q = 1 .. x.count
  OBVIOUS
<1>4. Hid!ReadField(data, out, x) = (CHOOSE f : IsIt(f))[1 .. x.count]
  BY <1>3, Zenon DEF Hid!ReadField, Hid!FoldLeft, Hid!MapThenFoldSet, Hid!Max, Greatest
<1> HIDE DEF IsIt
<1>5. PICK f : IsIt(f) /\ f = CHOOSE e : IsIt(e)
  BY <1>1, <1>2, Zenon
<1>6. Looped("entries", data, x, base, q, x.count, f)
  BY <1>2, <1>5, Zenon DEF Looped
<1>7. PICK h : Runs("entries", data, x, base, q, x.count, h) /\ h[x.count] = f[1 .. x.count]
  <2>1. RunsTo("entries", data, x, base, q, x.count, f[1 .. x.count])
    BY <1>6, LoopRuns, Zenon
  <2> QED BY <2>1, Zenon DEF RunsTo
<1>8. h[x.count] = Hid!ReadField(data, out, x)
  BY <1>4, <1>5, <1>7, Zenon
<1>9. Runs("entries", data, x, [out EXCEPT !.hasMods = @ \/ (~x.array /\ x.base <= 224 /\ x.base + x.count > 231)], [i \in 1 .. x.count |-> i - 1], x.count, h)
  BY <1>7, Zenon
<1> QED BY <1>8, <1>9, Zenon DEF RunsTo

LEMMA FieldsRun ==
    ASSUME NEW data, NEW fields, NEW N \in Nat, DOMAIN fields = 1 .. N
    PROVE  RunsTo("fields", data, 0, Hid!Nothing, fields, N, Hid!HeldBy(fields, data))
<1> DEFINE q == fields
           base == Hid!Nothing
<1>1. PICK g : IsLoop("fields", data, 0, base, q, SUBSET (1 .. N), g)
  BY LoopExists, Zenon
<1> DEFINE D == SUBSET (1 .. N)
           IsIt(f) == f = [s \in D |-> IF s = {} THEN base ELSE
                             Hid!ReadField(data, f[s \ {Greatest(s)}], q[Greatest(s)])]
<1>2. \A f : IsIt(f) <=> IsLoop("fields", data, 0, base, q, SUBSET (1 .. N), f)
  BY Zenon DEF IsLoop, LoopStep
<1>3. DOMAIN q = 1 .. N
  OBVIOUS
<1>4. Hid!HeldBy(fields, data) = (CHOOSE f : IsIt(f))[1 .. N]
  BY <1>3, Zenon DEF Hid!HeldBy, Hid!FoldLeft, Hid!MapThenFoldSet, Hid!Max, Greatest
<1> HIDE DEF IsIt
<1>5. PICK f : IsIt(f) /\ f = CHOOSE e : IsIt(e)
  BY <1>1, <1>2, Zenon
<1>6. Looped("fields", data, 0, base, q, N, f)
  BY <1>2, <1>5, Zenon DEF Looped
<1>7. PICK h : Runs("fields", data, 0, base, q, N, h) /\ h[N] = f[1 .. N]
  <2>1. RunsTo("fields", data, 0, base, q, N, f[1 .. N])
    BY <1>6, LoopRuns, Zenon
  <2> QED BY <2>1, Zenon DEF RunsTo
<1>8. h[N] = Hid!HeldBy(fields, data)
  BY <1>4, <1>5, <1>7, Zenon
<1>9. Runs("fields", data, 0, Hid!Nothing, fields, N, h)
  BY <1>7, Zenon
<1> QED BY <1>8, <1>9, Zenon DEF RunsTo

LEMMA BytesRun ==
    ASSUME NEW ms, NEW r, NEW N \in Nat, DOMAIN r = 1 .. N
    PROVE  RunsTo("boot", 0, 0, [Hid!Nothing EXCEPT !.hasMods = TRUE, !.mods = ms], r, N, Hid!HeldBytes(ms, r))
<1> DEFINE q == r
           base == [Hid!Nothing EXCEPT !.hasMods = TRUE, !.mods = ms]
<1>1. PICK g : IsLoop("boot", 0, 0, base, q, SUBSET (1 .. N), g)
  BY LoopExists, Zenon
<1> DEFINE D == SUBSET (1 .. N)
           Next1(o, u) == IF u = 0 THEN o ELSE Hid!Hold(o, u)
           IsIt(f) == f = [s \in D |-> IF s = {} THEN base ELSE Next1(f[s \ {Greatest(s)}], q[Greatest(s)])]
<1>2. \A f : IsIt(f) <=> IsLoop("boot", 0, 0, base, q, SUBSET (1 .. N), f)
  <2>1. \A o, u : LoopStep("boot", 0, 0, o, u) = Next1(o, u)
    BY Zenon DEF LoopStep
  <2> HIDE DEF base, q, D, Next1
  <2>2. ASSUME NEW f PROVE IsIt(f) <=> IsLoop("boot", 0, 0, base, q, D, f)
    BY <2>1, Zenon DEF IsIt, IsLoop
  <2> QED BY <2>2, Zenon DEF D
<1>3. DOMAIN q = 1 .. N
  OBVIOUS
<1>4. Hid!HeldBytes(ms, r) = (CHOOSE f : IsIt(f))[1 .. N]
  BY <1>3, Zenon DEF Hid!HeldBytes, Hid!FoldLeft, Hid!MapThenFoldSet, Hid!Max, Greatest
<1> HIDE DEF IsIt
<1>5. PICK f : IsIt(f) /\ f = CHOOSE e : IsIt(e)
  BY <1>1, <1>2, Zenon
<1>6. Looped("boot", 0, 0, base, q, N, f)
  BY <1>2, <1>5, Zenon DEF Looped
<1>7. PICK h : Runs("boot", 0, 0, base, q, N, h) /\ h[N] = f[1 .. N]
  <2>1. RunsTo("boot", 0, 0, base, q, N, f[1 .. N])
    BY <1>6, LoopRuns, Zenon
  <2> QED BY <2>1, Zenon DEF RunsTo
<1>8. h[N] = Hid!HeldBytes(ms, r)
  BY <1>4, <1>5, <1>7, Zenon
<1>9. Runs("boot", 0, 0, [Hid!Nothing EXCEPT !.hasMods = TRUE, !.mods = ms], r, N, h)
  BY <1>7, Zenon
<1> QED BY <1>8, <1>9, Zenon DEF RunsTo

(* o2 is o with what S says is held, n keys at most. *)
Took(o, o2, S, n) ==
    /\ o \in Decoded /\ o2 \in Decoded
    /\ o2.mods = o.mods \cup (S \cap Hid!Modifiers)
    /\ Hid!ToSet(o2.keys) = Hid!ToSet(o.keys) \cup (S \cap Hid!Plain)
    /\ Len(o2.keys) <= Len(o.keys) + n
    /\ o2.hasMods = o.hasMods
    /\ o2.rollover = (o.rollover \/ 1 \in S)

OneKey(u) == IF u \in Hid!Plain THEN 1 ELSE 0

KeyUsages == {1} \cup Hid!Plain \cup Hid!Modifiers
RoomFor(o, u) == u \in Hid!Plain => Len(o.keys) < MaxKeys

(* The sets of what sequences have. *)
LEMMA AppendedIn ==
    ASSUME NEW s \in Seq(Nat), NEW e \in Nat
    PROVE  /\ Append(s, e) \in Seq(Nat) /\ Len(Append(s, e)) = Len(s) + 1
           /\ Hid!ToSet(Append(s, e)) = Hid!ToSet(s) \cup {e}
<1>1. /\ Append(s, e) \in Seq(Nat) /\ Len(Append(s, e)) = Len(s) + 1
      /\ \A i \in 1 .. Len(s) : Append(s, e)[i] = s[i]
      /\ Append(s, e)[Len(s) + 1] = e
  OBVIOUS
<1>2. DOMAIN s = 1 .. Len(s) /\ DOMAIN Append(s, e) = 1 .. Len(s) + 1 /\ Len(s) \in Nat
  BY <1>1
<1>3. \A i \in 1 .. Len(s) + 1 : i \in 1 .. Len(s) \/ i = Len(s) + 1
  BY <1>2
<1>4. 1 .. Len(s) \subseteq 1 .. Len(s) + 1 /\ Len(s) + 1 \in 1 .. Len(s) + 1
  BY <1>2
<1>5. Hid!ToSet(Append(s, e)) \subseteq Hid!ToSet(s) \cup {e}
  BY <1>1, <1>2, <1>3 DEF Hid!ToSet
<1>6. Hid!ToSet(s) \cup {e} \subseteq Hid!ToSet(Append(s, e))
  BY <1>1, <1>2, <1>4 DEF Hid!ToSet
<1> QED BY <1>1, <1>5, <1>6

(* Nothing is taken, one usage, or one set and then another. *)
LEMMA TookNone ==
    ASSUME NEW o \in Decoded PROVE Took(o, o, {}, 0)
  BY DEF Took, Decoded

LEMMA TookOne ==
    ASSUME NEW o \in Decoded, NEW u \in KeyUsages, RoomFor(o, u)
    PROVE  Took(o, Hid!Hold(o, u), {u}, OneKey(u))
<1>0. u \in {1} \cup Hid!Plain \cup Hid!Modifiers /\ (u \in Hid!Plain => Len(o.keys) < MaxKeys)
  BY Zenon DEF KeyUsages, RoomFor
<1>1. o.mods \in SUBSET Nat /\ o.keys \in Seq(Nat) /\ o.hasMods \in BOOLEAN /\ o.rollover \in BOOLEAN
      /\ Len(o.keys) \in Nat
  BY DEF Decoded
<1>2. CASE u = 1
  <2>1. u \notin Hid!Plain /\ u \notin Hid!Modifiers
    BY <1>2 DEF Hid!Plain, Hid!Modifiers
  <2>2. Hid!Hold(o, u) = [o EXCEPT !.rollover = TRUE]
    BY <1>2, <2>1 DEF Hid!Hold
  <2> HIDE DEF Hid!Plain, Hid!Modifiers
  <2>3. Hid!Hold(o, u) \in Decoded /\ Hid!Hold(o, u).mods = o.mods /\ Hid!Hold(o, u).keys = o.keys
        /\ Hid!Hold(o, u).hasMods = o.hasMods /\ Hid!Hold(o, u).rollover = TRUE
    BY <1>1, <2>2 DEF Decoded
  <2>4. {u} \cap Hid!Modifiers = {} /\ {u} \cap Hid!Plain = {} /\ 1 \in {u}
    BY <1>2, <2>1
  <2>5. Hid!Hold(o, u).rollover = (o.rollover \/ 1 \in {u})
    BY <2>3, <2>4, Zenon
  <2>6. /\ Hid!Hold(o, u).mods = o.mods \cup ({u} \cap Hid!Modifiers)
        /\ Hid!ToSet(Hid!Hold(o, u).keys) = Hid!ToSet(o.keys) \cup ({u} \cap Hid!Plain)
    BY <2>3, <2>4
  <2>7. Len(Hid!Hold(o, u).keys) <= Len(o.keys) + OneKey(u)
    BY <1>1, <2>1, <2>3 DEF OneKey
  <2> QED BY <2>3, <2>5, <2>6, <2>7, Zenon DEF Took
<1>3. CASE u \in Hid!Modifiers
  <2>1. u \notin Hid!Plain /\ u # 1 /\ u \in Nat
    BY <1>3 DEF Hid!Plain, Hid!Modifiers
  <2>2. Hid!Hold(o, u) = [o EXCEPT !.mods = @ \cup {u}]
    BY <1>3, <2>1 DEF Hid!Hold
  <2> QED BY <1>1, <1>3, <2>1, <2>2 DEF Took, Decoded, OneKey
<1>4. CASE u \in Hid!Plain
  <2>1. u \notin Hid!Modifiers /\ u # 1 /\ u \in Nat
    BY <1>4 DEF Hid!Plain, Hid!Modifiers
  <2>2. Hid!Hold(o, u) = [o EXCEPT !.keys = Append(@, u)]
    BY <1>0, <1>4, <2>1 DEF Hid!Hold
  <2>3. /\ Append(o.keys, u) \in Seq(Nat) /\ Len(Append(o.keys, u)) = Len(o.keys) + 1
        /\ Hid!ToSet(Append(o.keys, u)) = Hid!ToSet(o.keys) \cup {u}
    BY <1>1, <2>1, AppendedIn
  <2> HIDE DEF Hid!Plain, Hid!Modifiers
  <2>4. Hid!Hold(o, u) \in Decoded /\ Hid!Hold(o, u).mods = o.mods /\ Hid!Hold(o, u).keys = Append(o.keys, u)
        /\ Hid!Hold(o, u).hasMods = o.hasMods /\ Hid!Hold(o, u).rollover = o.rollover
    BY <1>1, <2>2, <2>3 DEF Decoded
  <2> QED BY <1>1, <1>4, <2>1, <2>3, <2>4 DEF Took, OneKey
<1> QED BY <1>0, <1>2, <1>3, <1>4

LEMMA TookBoth ==
    ASSUME NEW a, NEW b, NEW c, NEW S, NEW T, NEW m \in Nat, NEW n \in Nat,
           Took(a, b, S, m), Took(b, c, T, n)
    PROVE  Took(a, c, S \cup T, m + n)
<1>1. Len(a.keys) \in Nat /\ Len(b.keys) \in Nat /\ Len(c.keys) \in Nat
  BY DEF Took, Decoded
<1>2. Len(c.keys) <= Len(a.keys) + (m + n)
  <2>1. Len(b.keys) <= Len(a.keys) + m /\ Len(c.keys) <= Len(b.keys) + n
    BY Zenon DEF Took
  <2>2. ASSUME NEW x \in Nat, NEW y \in Nat, NEW z \in Nat, y <= x + m, z <= y + n
        PROVE  z <= x + (m + n)
    BY <2>2
  <2> QED BY <1>1, <2>1, <2>2, Zenon
<1>3. c.rollover = (a.rollover \/ 1 \in S \cup T)
  BY DEF Took
<1> QED BY <1>2, <1>3 DEF Took

-----------------------------------------------------------------------------
BitAt(data, b) == b < Len(data) /\ data[b + 1]

(* get_bits() gives the number whose bits the report has there. *)
LEMMA OneBitRead ==
    ASSUME NEW data, NEW b
    PROVE  Hid!GetBits(data, b, 1) = IF BitAt(data, b + 0) THEN 1 ELSE 0
<1> DEFINE q == [i \in 1 .. 1 |-> i - 1]
<1>1. DOMAIN q = 1 .. 1
  OBVIOUS
<1>2. PICK h : Runs("bits", data, b, 0, q, 1, h) /\ h[1] = Hid!GetBits(data, b, 1)
  <2>1. 1 \in Nat
    OBVIOUS
  <2>2. RunsTo("bits", data, b, 0, q, 1, Hid!GetBits(data, b, 1))
    BY <2>1, BitsRun, Zenon
  <2> QED BY <2>2, Zenon DEF RunsTo
<1>3. h[0] = 0 /\ h[1] = LoopStep("bits", data, b, h[0], q[1])
  BY <1>2 DEF Runs
<1>4. q[1] = 0 /\ 2^0 = 1
  OBVIOUS
<1>5. h[1] = IF BitAt(data, b + 0) THEN h[0] + 2^0 ELSE h[0]
  BY <1>3, <1>4, Zenon DEF LoopStep, BitAt
<1> QED BY <1>2, <1>3, <1>4, <1>5

LEMMA BitsRead ==
    ASSUME NEW data, NEW b, NEW size \in {4, 8}, NEW e \in {0, 1, 2, 3, 4, 5, 6},
           size = 4 => e <= 3,
           \A j \in 0 .. size - 1 : BitAt(data, b + j) <=> Hid!Bit(e, j)
    PROVE  Hid!GetBits(data, b, size) = e
<1> DEFINE q == [i \in 1 .. size |-> i - 1]
<1>1. DOMAIN q = 1 .. size /\ size \in Nat
  OBVIOUS
<1>2. PICK h : Runs("bits", data, b, 0, q, size, h) /\ h[size] = Hid!GetBits(data, b, size)
  <2>1. RunsTo("bits", data, b, 0, q, size, Hid!GetBits(data, b, size))
    BY <1>1, BitsRun, Zenon
  <2> QED BY <2>1, Zenon DEF RunsTo
<1>3. h[0] = 0 /\ \A n \in 1 .. size : h[n] = LoopStep("bits", data, b, h[n - 1], q[n])
  BY <1>2 DEF Runs
<1>4. \A n \in 1 .. size : q[n] = n - 1
  OBVIOUS
<1> HIDE DEF q
<1>5. ASSUME NEW n \in 1 .. size
      PROVE  h[n] = IF Hid!Bit(e, n - 1) THEN h[n - 1] + 2^(n - 1) ELSE h[n - 1]
  <2>1. n - 1 \in 0 .. size - 1
    BY <1>1
  <2>2. h[n] = LoopStep("bits", data, b, h[n - 1], n - 1)
    BY <1>3, <1>4
  <2>3. h[n] = IF BitAt(data, b + (n - 1)) THEN h[n - 1] + 2^(n - 1) ELSE h[n - 1]
    BY <2>2, Zenon DEF LoopStep, BitAt
  <2> QED BY <2>1, <2>3
<1>6. 2^0 = 1 /\ 2^1 = 2 /\ 2^2 = 4 /\ 2^3 = 8 /\ 2^4 = 16 /\ 2^5 = 32 /\ 2^6 = 64 /\ 2^7 = 128
  OBVIOUS
<1>7. /\ Hid!Bit(e, 0) <=> e \in {1, 3, 5}
      /\ Hid!Bit(e, 1) <=> e \in {2, 3, 6}
      /\ Hid!Bit(e, 2) <=> e \in {4, 5, 6}
  BY <1>6 DEF Hid!Bit
<1>8. ~Hid!Bit(e, 3) /\ ~Hid!Bit(e, 4) /\ ~Hid!Bit(e, 5) /\ ~Hid!Bit(e, 6) /\ ~Hid!Bit(e, 7)
  BY <1>6 DEF Hid!Bit
<1>9. 1 \in 1 .. size /\ 2 \in 1 .. size /\ 3 \in 1 .. size /\ 4 \in 1 .. size
  OBVIOUS
<1>10. /\ h[1] = IF Hid!Bit(e, 0) THEN h[0] + 2^0 ELSE h[0]
       /\ h[2] = IF Hid!Bit(e, 1) THEN h[1] + 2^1 ELSE h[1]
       /\ h[3] = IF Hid!Bit(e, 2) THEN h[2] + 2^2 ELSE h[2]
       /\ h[4] = IF Hid!Bit(e, 3) THEN h[3] + 2^3 ELSE h[3]
  <2>1. 1 - 1 = 0 /\ 2 - 1 = 1 /\ 3 - 1 = 2 /\ 4 - 1 = 3
    OBVIOUS
  <2> QED BY <1>5, <1>9, <2>1, Zenon
<1>11. h[1] = (IF e \in {1, 3, 5} THEN 1 ELSE 0)
  BY <1>3, <1>6, <1>7, <1>10
<1>12. h[2] = h[1] + (IF e \in {2, 3, 6} THEN 2 ELSE 0)
  BY <1>6, <1>7, <1>10, <1>11
<1>13. h[3] = h[2] + (IF e \in {4, 5, 6} THEN 4 ELSE 0)
  BY <1>6, <1>7, <1>10, <1>11, <1>12
<1>14. h[4] = e
  BY <1>8, <1>10, <1>11, <1>12, <1>13
<1>15. ASSUME size = 8 PROVE h[8] = e
  <2>1. 5 \in 1 .. size /\ 6 \in 1 .. size /\ 7 \in 1 .. size /\ 8 \in 1 .. size
        /\ 5 - 1 = 4 /\ 6 - 1 = 5 /\ 7 - 1 = 6 /\ 8 - 1 = 7
    BY <1>15
  <2> QED BY <1>5, <1>8, <1>14, <2>1, Zenon
<1> QED BY <1>2, <1>14, <1>15

WithMods(o, b) == [o EXCEPT !.hasMods = @ \/ b]

(* A field of all the modifiers says so. *)
LEMMA WithModsIs ==
    ASSUME NEW o \in Decoded, NEW b \in BOOLEAN
    PROVE  /\ WithMods(o, b) \in Decoded
           /\ WithMods(o, b).mods = o.mods /\ WithMods(o, b).keys = o.keys
           /\ WithMods(o, b).rollover = o.rollover /\ WithMods(o, b).hasMods = (o.hasMods \/ b)
  BY DEF WithMods, Decoded

Below(S, m) == {u \in S : u < m}
Few(base, n) == IF base = 4 THEN n ELSE 0

(* What the first m usages of a field say. *)
LEMMA BelowIs ==
    ASSUME NEW S \in SUBSET Nat, NEW m \in Nat
    PROVE  /\ (\A u \in S : ~ (u < m)) => Below(S, m) = {}
           /\ (\A u \in S : u < m) => Below(S, m) = S
           /\ Below(S, m + 1) = Below(S, m) \cup (S \cap {m})
<1>1. \A u \in S : u < m + 1 <=> u < m \/ u = m
  OBVIOUS
<1> QED BY <1>1 DEF Below

ShownByBits(data, bit, count, base, S, o) ==
    /\ bit \in Nat /\ base \in {4, 224} /\ o \in Decoded /\ count = (IF base = 4 THEN 3 ELSE 8)
    /\ S \subseteq base .. base + count - 1
    /\ \A i \in 0 .. count - 1 : BitAt(data, bit + i) <=> base + i \in S
    /\ Len(o.keys) + 3 <= MaxKeys

(* A field of bits is read as the usages whose bits are set. *)
LEMMA VariableRead ==
    ASSUME NEW data, NEW bit, NEW base, NEW S, NEW o, NEW count,
           ShownByBits(data, bit, count, base, S, o)
    PROVE  Took(WithMods(o, base = 224),
                Hid!ReadField(data, o, [bit |-> bit, count |-> count, size |-> 1, array |-> FALSE,
                                    base |-> base]), S, 3)
<1> DEFINE x == [bit |-> bit, count |-> count, size |-> 1, array |-> FALSE, base |-> base]
           o1 == [o EXCEPT !.hasMods = @ \/ (~x.array /\ x.base <= 224 /\ x.base + x.count > 231)]
           q == [i \in 1 .. x.count |-> i - 1]
<1>13. bit \in Nat /\ base \in {4, 224} /\ o \in Decoded /\ Len(o.keys) + 3 <= MaxKeys
  BY DEF ShownByBits
<1>14. count = (IF base = 4 THEN 3 ELSE 8) /\ S \subseteq base .. base + count - 1
  BY DEF ShownByBits
<1>15. \A i \in 0 .. count - 1 : BitAt(data, bit + i) <=> base + i \in S
  BY Zenon DEF ShownByBits
<1>0. count \in Nat /\ base \in Nat /\ x.count = count /\ x.bit = bit /\ x.base = base
      /\ x.size = 1 /\ x.array = FALSE
  BY <1>13, <1>14
<1>12. S \in SUBSET Nat /\ \A u \in S : base <= u /\ u <= base + count - 1
  BY <1>0, <1>14
<1>1. o1 = WithMods(o, base = 224)
  <2>1. (~x.array /\ x.base <= 224 /\ x.base + x.count > 231) <=> base = 224
    BY <1>13, <1>14
  <2> QED BY <2>1, Zenon DEF WithMods
<1>2. PICK h : Runs("entries", data, x, o1, q, count, h) /\ h[count] = Hid!ReadField(data, o, x)
  <2>1. RunsTo("entries", data, x, o1, q, x.count, Hid!ReadField(data, o, x))
    BY <1>0, EntriesRun, Zenon
  <2>2. x.count = count
    OBVIOUS
  <2> HIDE DEF x, o1, q
  <2>3. RunsTo("entries", data, x, o1, q, count, Hid!ReadField(data, o, x))
    BY <2>1, <2>2
  <2> QED BY <2>3, Zenon DEF RunsTo
<1> HIDE DEF x, o1
<1>3. h[0] = o1 /\ \A n \in 1 .. count : h[n] = LoopStep("entries", data, x, h[n - 1], n - 1)
  <2>1. \A n \in 1 .. count : q[n] = n - 1
    BY <1>0
  <2> HIDE DEF q
  <2> QED BY <1>2, <2>1 DEF Runs
<1>4. o1 \in Decoded /\ o1.keys = o.keys
  BY <1>1, <1>13, WithModsIs
<1> DEFINE To(i) == \E m \in Nat : m = base + i /\ Took(o1, h[i], Below(S, m), Few(base, i))
           G == {i \in 0 .. count : To(i)}
<1>5. 0 \in G
  <2>1. Below(S, base) = {}
    <3>1. base \in Nat /\ \A u \in S : ~ (u < base)
      BY <1>0, <1>12
    <3> QED BY <1>12, <3>1, BelowIs, Zenon
  <2>2. Few(base, 0) = 0
    BY DEF Few
  <2>3. Took(o1, h[0], {}, 0)
    BY <1>3, <1>4, TookNone
  <2>4. base = base + 0 /\ base \in Nat
    BY <1>0
  <2>5. To(0)
    BY <2>1, <2>2, <2>3, <2>4
  <2> HIDE DEF To
  <2> QED BY <1>0, <2>5
<1>6. ASSUME NEW n \in 0 .. count, n \in G, n < count PROVE n + 1 \in G
  <2>1. /\ n \in Nat /\ n + 1 \in 1 .. count /\ n + 1 \in 0 .. count /\ n \in 0 .. count - 1
        /\ (n + 1) - 1 = n
    BY <1>0, <1>6
  <2>2. To(n) /\ h[n] \in Decoded
    BY <1>6 DEF Took
  <2>3. h[n + 1] = Hid!ReadEntry(data, x, h[n], n)
    <3>1. h[n + 1] = LoopStep("entries", data, x, h[n], n)
      BY <1>3, <2>1
    <3> QED BY <3>1, Zenon DEF LoopStep
  <2>4. PICK u : u = base + n /\ u \in Nat /\ base + (n + 1) = u + 1
    BY <1>0, <2>1
  <2>5. Hid!GetBits(data, x.bit + n * x.size, x.size) = IF u \in S THEN 1 ELSE 0
    <3>1. x.bit + n * x.size = bit + n /\ (bit + n) + 0 = bit + n
      BY <1>0, <1>13, <2>1
    <3>2. Hid!GetBits(data, bit + n, 1) = IF BitAt(data, (bit + n) + 0) THEN 1 ELSE 0
      BY OneBitRead
    <3> QED BY <1>0, <1>15, <2>1, <2>4, <3>1, <3>2
  <2>6. /\ u # 1 /\ u \in KeyUsages /\ (u \in Hid!Plain <=> base = 4)
        /\ Few(base, n) \in Nat /\ Few(base, n + 1) \in Nat /\ (base = 4 => Few(base, n) <= 2)
        /\ Few(base, n + 1) = Few(base, n) + OneKey(u) /\ OneKey(u) \in Nat
    BY <1>0, <1>13, <1>14, <2>1, <2>4 DEF Hid!Plain, Hid!Modifiers, Few, OneKey, KeyUsages
  <2>7. /\ Len(h[n].keys) \in Nat /\ Len(o1.keys) \in Nat
        /\ Len(h[n].keys) <= Len(o1.keys) + Few(base, n)
    <3>1. Len(h[n].keys) <= Len(o1.keys) + Few(base, n)
      BY <2>2, Zenon DEF Took
    <3> QED BY <1>4, <2>2, <3>1 DEF Decoded
  <2>8. Below(S, u + 1) = Below(S, u) \cup (S \cap {u})
    BY <1>12, <2>4, BelowIs
  <2>9. Took(o1, h[n], Below(S, u), Few(base, n))
    BY <2>2, <2>4
  <2>10. CASE u \in S
    <3>1. h[n + 1] = Hid!Hold(h[n], u)
      BY <1>0, <2>3, <2>4, <2>5, <2>6, <2>10 DEF Hid!ReadEntry
    <3>2. u \in Hid!Plain => Len(h[n].keys) < MaxKeys
      <4>1. Len(o1.keys) + 3 <= MaxKeys /\ MaxKeys \in Nat
        BY <1>4, <1>13, HidAssumption
      <4>2. ASSUME NEW a \in Nat, NEW b \in Nat, NEW c \in Nat, NEW m \in Nat,
                   c <= 2, a <= b + c, b + 3 <= m
            PROVE  a < m
        BY <4>2
      <4> QED BY <2>6, <2>7, <4>1, <4>2
    <3>4. Took(h[n], h[n + 1], {u}, OneKey(u))
      <4>1. Took(h[n], Hid!Hold(h[n], u), {u}, OneKey(u))
        BY <2>2, <2>6, <3>2, TookOne DEF RoomFor
      <4> QED BY <3>1, <4>1, Zenon
    <3>5. Took(o1, h[n + 1], Below(S, u) \cup {u}, Few(base, n) + OneKey(u))
      BY <2>6, <2>9, <3>4, TookBoth
    <3>6. Below(S, u + 1) = Below(S, u) \cup {u}
      BY <2>8, <2>10
    <3>7. To(n + 1)
      <4>1. Took(o1, h[n + 1], Below(S, u + 1), Few(base, n + 1))
        BY <2>6, <3>5, <3>6
      <4> QED BY <2>4, <4>1
    <3> HIDE DEF To
    <3> QED BY <2>1, <3>7
  <2>11. CASE u \notin S
    <3>1. h[n + 1] = h[n]
      BY <2>3, <2>5, <2>11 DEF Hid!ReadEntry
    <3>2. Below(S, u + 1) = Below(S, u)
      BY <2>8, <2>11
    <3>3. Len(h[n].keys) <= Len(o1.keys) + Few(base, n + 1)
      <4>1. ASSUME NEW a \in Nat, NEW b \in Nat, NEW c \in Nat, NEW d \in Nat, c <= d, a <= b + c
            PROVE  a <= b + d
        BY <4>1
      <4>2. Few(base, n) <= Few(base, n + 1)
        BY <2>6
      <4> QED BY <2>6, <2>7, <4>1, <4>2
    <3>4. Took(o1, h[n + 1], Below(S, u + 1), Few(base, n + 1))
      BY <2>9, <3>1, <3>2, <3>3, Zenon DEF Took
    <3>5. To(n + 1)
      BY <2>4, <3>4
    <3> HIDE DEF To
    <3> QED BY <2>1, <3>5
  <2> QED BY <2>10, <2>11
<1> HIDE DEF To
<1>7. count \in G
  <2>1. count \in 0 .. count
    BY <1>0
  <2> HIDE DEF G
  <2> QED BY <1>0, <1>5, <1>6, <2>1, OneByOne
<1>8. Below(S, base + count) = S /\ Few(base, count) \in Nat /\ Few(base, count) <= 3
  <2>1. PICK m \in Nat : m = base + count
    BY <1>0
  <2>2. Below(S, m) = S
    <3>1. \A u \in S : u < m
      BY <1>0, <1>12, <2>1
    <3> QED BY <1>12, <3>1, BelowIs, Zenon
  <2> QED BY <1>0, <1>14, <2>1, <2>2 DEF Few
<1>9. Took(o1, h[count], S, Few(base, count))
  BY <1>7, <1>8 DEF To
<1>10. Len(h[count].keys) <= Len(o1.keys) + 3
  <2>1. Len(h[count].keys) <= Len(o1.keys) + Few(base, count)
    BY <1>9, Zenon DEF Took
  <2>2. Len(h[count].keys) \in Nat /\ Len(o1.keys) \in Nat
    <3>1. o1 \in Decoded /\ h[count] \in Decoded
      BY <1>9, Zenon DEF Took
    <3> QED BY <3>1 DEF Decoded
  <2>3. ASSUME NEW a \in Nat, NEW b \in Nat, NEW c \in Nat, c <= 3, a <= b + c PROVE a <= b + 3
    BY <2>3
  <2> QED BY <1>8, <2>1, <2>2, <2>3
<1>11. Took(o1, h[count], S, 3)
  BY <1>9, <1>10, Zenon DEF Took
<1> QED BY <1>1, <1>2, <1>11, Zenon DEF x

-----------------------------------------------------------------------------
Named(base, e) == IF e = 0 THEN {} ELSE {base + e}

ShownByArray(data, bit, size, base, e1, e2, o) ==
    /\ bit \in Nat /\ o \in Decoded /\ Len(o.keys) + 3 <= MaxKeys
    /\ \/ size = 8 /\ base = 0 /\ e1 \in {0, 1, 4, 5, 6} /\ e2 \in {0, 1, 4, 5, 6}
       \/ size = 4 /\ base = 3 /\ e1 \in {0, 1, 2, 3} /\ e2 \in {0, 1, 2, 3}
    /\ \A j \in 0 .. size - 1 : BitAt(data, bit + j) <=> Hid!Bit(e1, j)
    /\ \A j \in 0 .. size - 1 : BitAt(data, (bit + size) + j) <=> Hid!Bit(e2, j)

(* One entry of an array. *)
LEMMA EntryRead ==
    ASSUME NEW data, NEW x, NEW i, NEW e \in Nat, NEW o \in Decoded,
           x.array = TRUE, x.base + e \in KeyUsages \/ e = 0, Len(o.keys) < MaxKeys,
           Hid!GetBits(data, x.bit + i * x.size, x.size) = e
    PROVE  Took(o, Hid!ReadEntry(data, x, o, i), Named(x.base, e), 1)
<1>1. CASE e = 0
  <2>1. Hid!ReadEntry(data, x, o, i) = o /\ Named(x.base, e) = {}
    BY <1>1 DEF Hid!ReadEntry, Named
  <2>2. Took(o, o, {}, 0)
    BY TookNone
  <2>3. Len(o.keys) <= Len(o.keys) + 1
    BY DEF Decoded
  <2>4. Took(o, o, {}, 1)
    BY <2>2, <2>3, Zenon DEF Took
  <2> QED BY <2>1, <2>4
<1>2. CASE e # 0
  <2>1. PICK u : u = x.base + e
    OBVIOUS
  <2>2. Hid!ReadEntry(data, x, o, i) = Hid!Hold(o, u) /\ Named(x.base, e) = {u} /\ u \in KeyUsages
    BY <1>2, <2>1 DEF Hid!ReadEntry, Named
  <2>3. Took(o, Hid!Hold(o, u), {u}, OneKey(u))
    BY <2>2, TookOne DEF RoomFor
  <2>4. Len(Hid!Hold(o, u).keys) <= Len(o.keys) + 1
    <3>1. Len(Hid!Hold(o, u).keys) <= Len(o.keys) + OneKey(u)
      BY <2>3, Zenon DEF Took
    <3>2. Len(Hid!Hold(o, u).keys) \in Nat /\ Len(o.keys) \in Nat
      <4>1. Hid!Hold(o, u) \in Decoded
        BY <2>3, Zenon DEF Took
      <4> QED BY <4>1 DEF Decoded
    <3>3. OneKey(u) = 0 \/ OneKey(u) = 1
      BY DEF OneKey
    <3> QED BY <3>1, <3>2, <3>3
  <2>5. Took(o, Hid!Hold(o, u), {u}, 1)
    BY <2>3, <2>4, Zenon DEF Took
  <2> QED BY <2>2, <2>5
<1> QED BY <1>1, <1>2

(* An array is read as the usages its entries name. *)
LEMMA ArrayRead ==
    ASSUME NEW data, NEW bit, NEW size, NEW base, NEW e1, NEW e2, NEW o,
           ShownByArray(data, bit, size, base, e1, e2, o)
    PROVE  Took(WithMods(o, FALSE),
                Hid!ReadField(data, o, [bit |-> bit, count |-> 2, size |-> size, array |-> TRUE,
                                    base |-> base]), Named(base, e1) \cup Named(base, e2), 3)
<1> DEFINE x == [bit |-> bit, count |-> 2, size |-> size, array |-> TRUE, base |-> base]
           o1 == [o EXCEPT !.hasMods = @ \/ (~x.array /\ x.base <= 224 /\ x.base + x.count > 231)]
           q == [i \in 1 .. x.count |-> i - 1]
<1>1. x.count = 2 /\ x.bit = bit /\ x.base = base /\ x.size = size /\ x.array = TRUE
  OBVIOUS
<1>2. o1 = WithMods(o, FALSE)
  <2>1. (~x.array /\ x.base <= 224 /\ x.base + x.count > 231) = FALSE
    BY <1>1
  <2> QED BY <2>1, Zenon DEF WithMods
<1>3. PICK h : Runs("entries", data, x, o1, q, 2, h) /\ h[2] = Hid!ReadField(data, o, x)
  <2>1. x.count \in Nat
    BY <1>1
  <2>2. RunsTo("entries", data, x, o1, q, x.count, Hid!ReadField(data, o, x))
    BY <2>1, EntriesRun, Zenon
  <2> HIDE DEF x, o1, q
  <2>3. RunsTo("entries", data, x, o1, q, 2, Hid!ReadField(data, o, x))
    BY <1>1, <2>2
  <2> QED BY <2>3, Zenon DEF RunsTo
<1>4. q[1] = 0 /\ q[2] = 1
  BY <1>1
<1> HIDE DEF x, o1, q
<1>5. h[0] = o1 /\ h[1] = Hid!ReadEntry(data, x, h[0], 0) /\ h[2] = Hid!ReadEntry(data, x, h[1], 1)
  <2>1. 1 \in 1 .. 2 /\ 2 \in 1 .. 2 /\ 1 - 1 = 0 /\ 2 - 1 = 1
    OBVIOUS
  <2>2. h[0] = o1 /\ h[1] = LoopStep("entries", data, x, h[0], 0) /\ h[2] = LoopStep("entries", data, x, h[1], 1)
    BY <1>3, <1>4, <2>1 DEF Runs
  <2> QED BY <2>2, Zenon DEF LoopStep
<1>6. bit \in Nat /\ o \in Decoded /\ Len(o.keys) + 3 <= MaxKeys
  BY DEF ShownByArray
<1>7. /\ size \in {4, 8} /\ base \in Nat /\ e1 \in {0, 1, 2, 3, 4, 5, 6} /\ e2 \in {0, 1, 2, 3, 4, 5, 6}
      /\ (size = 4 => e1 <= 3 /\ e2 <= 3)
  BY DEF ShownByArray
<1>8. (base + e1 \in KeyUsages \/ e1 = 0) /\ (base + e2 \in KeyUsages \/ e2 = 0)
  <2>1. 1 \in KeyUsages /\ 4 \in KeyUsages /\ 5 \in KeyUsages /\ 6 \in KeyUsages
    BY DEF KeyUsages, Hid!Plain
  <2>2. \/ base = 0 /\ e1 \in {0, 1, 4, 5, 6} /\ e2 \in {0, 1, 4, 5, 6}
        \/ base = 3 /\ e1 \in {0, 1, 2, 3} /\ e2 \in {0, 1, 2, 3}
    BY Zenon DEF ShownByArray
  <2>3. ASSUME NEW e, (base = 0 /\ e \in {0, 1, 4, 5, 6}) \/ (base = 3 /\ e \in {0, 1, 2, 3})
        PROVE  base + e \in {1, 4, 5, 6} \/ e = 0
    BY <2>3
  <2> QED BY <2>1, <2>2, <2>3
<1>9. Hid!GetBits(data, bit, size) = e1 /\ Hid!GetBits(data, bit + size, size) = e2
  <2>1. /\ \A j \in 0 .. size - 1 : BitAt(data, bit + j) <=> Hid!Bit(e1, j)
        /\ \A j \in 0 .. size - 1 : BitAt(data, (bit + size) + j) <=> Hid!Bit(e2, j)
    BY Zenon DEF ShownByArray
  <2> QED BY <1>7, <2>1, BitsRead
<1>10. x.bit + 0 * x.size = bit /\ x.bit + 1 * x.size = bit + size
  BY <1>1, <1>6, <1>7
<1>11. o1 \in Decoded /\ o1.keys = o.keys
  BY <1>2, <1>6, WithModsIs
<1>12. Len(o1.keys) \in Nat /\ Len(o1.keys) + 3 <= MaxKeys /\ MaxKeys \in Nat
  BY <1>6, <1>11, HidAssumption DEF Decoded
<1>13. Took(o1, h[1], Named(base, e1), 1)
  <2>1. Len(o1.keys) < MaxKeys
    BY <1>12
  <2>2. Hid!GetBits(data, x.bit + 0 * x.size, x.size) = e1 /\ e1 \in Nat
    BY <1>1, <1>7, <1>9, <1>10
  <2> QED BY <1>1, <1>5, <1>8, <1>11, <2>1, <2>2, EntryRead
<1>14. Took(h[1], h[2], Named(base, e2), 1)
  <2>1. Len(h[1].keys) < MaxKeys /\ h[1] \in Decoded
    <3>1. Len(h[1].keys) <= Len(o1.keys) + 1 /\ h[1] \in Decoded
      BY <1>13, Zenon DEF Took
    <3>2. Len(h[1].keys) \in Nat
      BY <3>1 DEF Decoded
    <3> QED BY <1>12, <3>1, <3>2
  <2>2. Hid!GetBits(data, x.bit + 1 * x.size, x.size) = e2 /\ e2 \in Nat
    BY <1>1, <1>7, <1>9, <1>10
  <2> QED BY <1>1, <1>5, <1>8, <2>1, <2>2, EntryRead
<1>15. Took(o1, h[2], Named(base, e1) \cup Named(base, e2), 1 + 1)
  BY <1>13, <1>14, TookBoth
<1>16. Len(h[2].keys) <= Len(o1.keys) + 3
  <2>1. Len(h[2].keys) <= Len(o1.keys) + (1 + 1) /\ h[2] \in Decoded
    BY <1>15, Zenon DEF Took
  <2>2. Len(h[2].keys) \in Nat
    BY <2>1 DEF Decoded
  <2> QED BY <1>12, <2>1, <2>2
<1>17. Took(o1, h[2], Named(base, e1) \cup Named(base, e2), 3)
  BY <1>15, <1>16, Zenon DEF Took
<1> QED BY <1>2, <1>3, <1>17, Zenon DEF x

Size(kind) == Hid!Kinds[kind].size * Hid!Kinds[kind].count
ModKinds == {"mods", "modsList"}
ArrayKinds == {"keys", "codes"}
Base(kind) == IF kind \in ModKinds THEN 224 ELSE IF kind = "keys" THEN 0
              ELSE IF kind = "codes" THEN 3 ELSE 4

(* The field the parser is to make of a field of keys. *)
FieldFor(kind, bit) == [bit |-> bit, count |-> Hid!Kinds[kind].count, size |-> Hid!Kinds[kind].size,
                        array |-> kind \in ArrayKinds, base |-> Base(kind)]

(* What a field says, with usage 1 for too many keys. *)
Says(f, heldKeys) == Hid!SaysHeld(f, heldKeys) \cup (IF f.kind = "keys" /\ Hid!Overflows(f, heldKeys) THEN {1} ELSE {})

Carries(data, bit, f, heldKeys) == \A i \in 0 .. Size(f.kind) - 1 : BitAt(data, bit + i) <=> Hid!Data(f, heldKeys)[i + 1]

(* The fields keyboards have. *)
LEMMA KindsAre ==
    /\ Hid!Kinds["mods"] = [page |-> 7, lmin |-> 0, size |-> 1, count |-> 8, usages |-> <<224>>,
                        listed |-> FALSE, flags |-> {"variable"}, output |-> FALSE]
    /\ Hid!Kinds["modsList"] = [page |-> 7, lmin |-> 0, size |-> 1, count |-> 8,
                        usages |-> [i \in 1 .. 8 |-> 223 + i],
                        listed |-> TRUE, flags |-> {"variable"}, output |-> FALSE]
    /\ Hid!Kinds["keys"] = [page |-> 7, lmin |-> 0, size |-> 8, count |-> 2, usages |-> <<0>>,
                        listed |-> FALSE, flags |-> {}, output |-> FALSE]
    /\ Hid!Kinds["codes"] = [page |-> 7, lmin |-> 1, size |-> 4, count |-> 2, usages |-> <<4>>,
                        listed |-> FALSE, flags |-> {}, output |-> FALSE]
    /\ Hid!Kinds["bitmap"] = [page |-> 7, lmin |-> 0, size |-> 1, count |-> 3, usages |-> <<4>>,
                        listed |-> FALSE, flags |-> {"variable"}, output |-> FALSE]
    /\ Hid!Kinds["pad"] = [page |-> 7, lmin |-> 0, size |-> 3, count |-> 1, usages |-> << >>,
                        listed |-> FALSE, flags |-> {"constant"}, output |-> FALSE]
    /\ Hid!Kinds["media"] = [page |-> 12, lmin |-> 0, size |-> 8, count |-> 1, usages |-> <<0>>,
                        listed |-> FALSE, flags |-> {}, output |-> FALSE]
    /\ Hid!Kinds["leds"] = [page |-> 8, lmin |-> 0, size |-> 1, count |-> 5, usages |-> <<1>>,
                        listed |-> FALSE, flags |-> {"variable"}, output |-> TRUE]
  BY DEF Hid!Kinds, Hid!Field, Hid!Keyboard

(* Parts of a set. *)
LEMMA OneOfTwo ==
    ASSUME NEW A, NEW B, NEW C, NEW D, \A u : u \in A <=> u \in B \/ u \in C,
           \A u \in B : u \in D, \A u \in C : u \notin D
    PROVE  A \cap D = B
<1>1. A \cap D \subseteq B
  OBVIOUS
<1>2. B \subseteq A \cap D
  OBVIOUS
<1> QED BY <1>1, <1>2

LEMMA PairIs ==
    ASSUME NEW T, NEW a, NEW b, a \in {0} \cup T, b \in {0} \cup T, 0 \notin T,
           \A u \in T : u = a \/ u = b
    PROVE  T = (IF a = 0 THEN {} ELSE {a}) \cup (IF b = 0 THEN {} ELSE {b})
<1> DEFINE R == (IF a = 0 THEN {} ELSE {a}) \cup (IF b = 0 THEN {} ELSE {b})
<1>1. T \subseteq R
  OBVIOUS
<1>2. R \subseteq T
  OBVIOUS
<1> QED BY <1>1, <1>2

(* The keys that are held. *)
LEMMA HeldIs ==
    ASSUME NEW heldKeys \in Hid!HeldSets
    PROVE  /\ heldKeys \cap Hid!Plain \in SUBSET {4, 5, 6} /\ heldKeys \cap Hid!Codes \in SUBSET {4, 5, 6}
           /\ heldKeys \cap Hid!Codes = heldKeys \cap Hid!Plain
           /\ heldKeys \cap Hid!Modifiers \in SUBSET {224, 231}
<1>1. PICK k \in SUBSET Hid!Codes, m \in {{}, {224, 231}} : heldKeys = k \cup m
  BY DEF Hid!HeldSets
<1>2. k \subseteq {4, 5, 6} /\ m \subseteq {224, 231}
  BY <1>1 DEF Hid!Codes
<1>3. /\ \A u \in k : u \in Hid!Plain /\ u \notin Hid!Modifiers
      /\ \A u \in m : u \in Hid!Modifiers /\ u \notin Hid!Plain
  <2>1. /\ \A u \in {4, 5, 6} : u \in Hid!Plain /\ u \notin Hid!Modifiers
        /\ \A u \in {224, 231} : u \in Hid!Modifiers /\ u \notin Hid!Plain
    BY DEF Hid!Plain, Hid!Modifiers
  <2> QED BY <1>2, <2>1
<1>4. heldKeys \cap Hid!Plain = k
  <2>1. \A u : u \in heldKeys <=> u \in k \/ u \in m
    BY <1>1
  <2> QED BY <1>3, <2>1, OneOfTwo
<1>5. heldKeys \cap Hid!Modifiers = m
  <2>1. \A u : u \in heldKeys <=> u \in m \/ u \in k
    BY <1>1
  <2> QED BY <1>3, <2>1, OneOfTwo
<1>6. heldKeys \cap Hid!Codes = k
  <2>1. /\ \A u \in k : u \in Hid!Codes
        /\ \A u \in m : u \notin Hid!Codes
    BY <1>2 DEF Hid!Codes
  <2>2. \A u : u \in heldKeys <=> u \in k \/ u \in m
    BY <1>1
  <2> QED BY <2>1, <2>2, OneOfTwo
<1> QED BY <1>2, <1>4, <1>5, <1>6

(* Where a key comes among the keys a keyboard gives in their order. *)
LEMMA RankIs == ASSUME NEW S, NEW u PROVE Hid!Rank(S, u) = Cardinality({w \in S : w < u})
  BY Zenon DEF Hid!Rank, Cardinality, Hid!Cardinality

LEMMA RanksAre ==
    ASSUME NEW T \in SUBSET {4, 5, 6}
    PROVE  /\ Hid!Rank(T, 4) = 0
           /\ Hid!Rank(T, 5) = IF 4 \in T THEN 1 ELSE 0
           /\ Hid!Rank(T, 6) = IF 4 \in T THEN (IF 5 \in T THEN 2 ELSE 1) ELSE (IF 5 \in T THEN 1 ELSE 0)
<1>1. Cardinality({}) = 0 /\ Cardinality({4}) = 1 /\ Cardinality({5}) = 1
  BY FS_EmptySet, FS_Singleton
<1>2. Cardinality({4, 5}) = 2
  <2>1. {4} \cup {5} = {4, 5} /\ 5 \notin {4}
    OBVIOUS
  <2>2. IsFiniteSet({4})
    BY FS_Singleton
  <2>3. Cardinality({4} \cup {5}) = Cardinality({4}) + 1
    BY <2>1, <2>2, FS_AddElement
  <2> QED BY <1>1, <2>1, <2>3
<1>6. \A w \in T : ~ (w < 4) /\ (w < 5 <=> w = 4) /\ (w < 6 <=> w = 4 \/ w = 5)
  OBVIOUS
<1>3. Hid!Rank(T, 4) = 0
  <2>1. {w \in T : w < 4} = {}
    BY <1>6, Zenon
  <2> QED BY <1>1, <2>1, RankIs
<1>4. Hid!Rank(T, 5) = IF 4 \in T THEN 1 ELSE 0
  <2>1. 4 \in T => {w \in T : w < 5} = {4}
    BY <1>6, Zenon
  <2>2. 4 \notin T => {w \in T : w < 5} = {}
    BY <1>6, Zenon
  <2> QED BY <1>1, <2>1, <2>2, RankIs
<1>5. Hid!Rank(T, 6) = IF 4 \in T THEN (IF 5 \in T THEN 2 ELSE 1) ELSE (IF 5 \in T THEN 1 ELSE 0)
  <2>1. 4 \in T /\ 5 \in T => {w \in T : w < 6} = {4, 5}
    BY <1>6, Zenon
  <2>2. 4 \in T /\ 5 \notin T => {w \in T : w < 6} = {4}
    BY <1>6, Zenon
  <2>3. 4 \notin T /\ 5 \in T => {w \in T : w < 6} = {5}
    BY <1>6, Zenon
  <2>4. 4 \notin T /\ 5 \notin T => {w \in T : w < 6} = {}
    BY <1>6, Zenon
  <2> QED BY <1>1, <1>2, <2>1, <2>2, <2>3, <2>4, RankIs
<1> QED BY <1>3, <1>4, <1>5

(* The first two of the keys that are held, in their order. *)
At(T, r) == IF \E u \in T : Hid!Rank(T, u) = r THEN CHOOSE u \in T : Hid!Rank(T, u) = r ELSE 0

(* An array of two has room for two keys. *)
LEMMA TwoAtMost ==
    ASSUME NEW T \in SUBSET {4, 5, 6}, T # {4, 5, 6}
    PROVE  /\ At(T, 0) \in {0} \cup T /\ At(T, 1) \in {0} \cup T
           /\ \A u \in T : u = At(T, 0) \/ u = At(T, 1)
<1>1. \A u \in T, v \in T : Hid!Rank(T, u) = Hid!Rank(T, v) => u = v
  BY RanksAre
<1>2. \A u \in T : Hid!Rank(T, u) = 0 \/ Hid!Rank(T, u) = 1
  BY RanksAre
<1>3. ASSUME NEW r PROVE At(T, r) \in {0} \cup T
  BY Zenon DEF At
<1>4. ASSUME NEW u \in T, NEW r, Hid!Rank(T, u) = r PROVE u = At(T, r)
  <2>1. At(T, r) = CHOOSE v \in T : Hid!Rank(T, v) = r
    BY <1>4, Zenon DEF At
  <2>2. At(T, r) \in T /\ Hid!Rank(T, At(T, r)) = r
    BY <1>4, <2>1, Zenon
  <2> QED BY <1>1, <1>4, <2>2
<1> QED BY <1>2, <1>3, <1>4

LEMMA FirstTwo ==
    ASSUME NEW P \in SUBSET {4, 5, 6}
    PROVE  /\ {u \in P : Hid!Rank(P, u) < 2} \in SUBSET {4, 5, 6}
           /\ {u \in P : Hid!Rank(P, u) < 2} # {4, 5, 6}
<1> DEFINE F == {u \in P : Hid!Rank(P, u) < 2}
<1>1. ASSUME F = {4, 5, 6} PROVE FALSE
  <2>1. 4 \in P /\ 5 \in P /\ 6 \in P /\ Hid!Rank(P, 6) < 2
    BY <1>1
  <2> QED BY <2>1, RanksAre
<1> QED BY <1>1

-----------------------------------------------------------------------------
(* What each kind of field says, and where. *)
LEMMA VariableSays ==
    ASSUME NEW f, NEW heldKeys \in Hid!HeldSets, f.kind \in {"mods", "modsList", "bitmap"}
    PROVE  /\ Says(f, heldKeys) = Hid!SaysHeld(f, heldKeys)
           /\ Says(f, heldKeys) \subseteq Base(f.kind) .. Base(f.kind) + Hid!Kinds[f.kind].count - 1
           /\ Size(f.kind) = Hid!Kinds[f.kind].count
           /\ \A i \in 0 .. Hid!Kinds[f.kind].count - 1 :
                 Hid!Data(f, heldKeys)[i + 1] <=> Base(f.kind) + i \in Says(f, heldKeys)
<1>1. Says(f, heldKeys) = Hid!SaysHeld(f, heldKeys)
  <2>1. f.kind # "keys"
    OBVIOUS
  <2> QED BY <2>1, Zenon DEF Says
<1>2. CASE f.kind \in ModKinds
  <2>1. Hid!SaysHeld(f, heldKeys) = heldKeys \cap Hid!Modifiers
    BY <1>2 DEF Hid!SaysHeld, ModKinds
  <2>2. /\ Hid!Kinds[f.kind].count = 8 /\ Hid!Kinds[f.kind].size = 1 /\ Hid!Kinds[f.kind].usages[1] = 224
        /\ Hid!Kinds[f.kind].flags = {"variable"} /\ Base(f.kind) = 224 /\ f.kind \in Hid!KeyKinds
    BY <1>2, KindsAre DEF ModKinds, Base, Hid!KeyKinds
  <2>3. Size(f.kind) = 8
    BY <2>2 DEF Size
  <2>4. ASSUME NEW i \in 0 .. 7 PROVE Hid!Data(f, heldKeys)[i + 1] <=> 224 + i \in Hid!SaysHeld(f, heldKeys)
    <3>1. i + 1 \in 1 .. (1 * 8) /\ (224 + (i + 1)) - 1 = 224 + i
      OBVIOUS
    <3>2. i + 1 \in 1 .. (Hid!Kinds[f.kind].size * Hid!Kinds[f.kind].count)
      BY <2>2, <3>1
    <3>3. Hid!Data(f, heldKeys)[i + 1] = (Hid!Kinds[f.kind].usages[1] + (i + 1) - 1 \in Hid!SaysHeld(f, heldKeys))
      <4>1. "variable" \in Hid!Kinds[f.kind].flags /\ f.kind \in Hid!KeyKinds
        BY <2>2
      <4> QED BY <3>2, <4>1, Zenon DEF Hid!Data
    <3>4. Hid!Kinds[f.kind].usages[1] + (i + 1) - 1 = 224 + i
      BY <2>2, <3>1
    <3> QED BY <3>3, <3>4, Zenon
  <2>5. Hid!SaysHeld(f, heldKeys) \subseteq 224 .. 231
    BY <2>1 DEF Hid!Modifiers
  <2> QED BY <1>1, <2>2, <2>3, <2>4, <2>5
<1>3. CASE f.kind = "bitmap"
  <2>1. Hid!SaysHeld(f, heldKeys) \subseteq {4, 5, 6}
    BY <1>3, HeldIs DEF Hid!SaysHeld
  <2>2. /\ Hid!Kinds[f.kind].count = 3 /\ Hid!Kinds[f.kind].size = 1 /\ Hid!Kinds[f.kind].usages[1] = 4
        /\ Hid!Kinds[f.kind].flags = {"variable"} /\ Base(f.kind) = 4 /\ f.kind \in Hid!KeyKinds
    BY <1>3, KindsAre DEF ModKinds, Base, Hid!KeyKinds
  <2>3. Size(f.kind) = 3
    BY <2>2 DEF Size
  <2>4. ASSUME NEW i \in 0 .. 2 PROVE Hid!Data(f, heldKeys)[i + 1] <=> 4 + i \in Hid!SaysHeld(f, heldKeys)
    <3>1. i + 1 \in 1 .. (1 * 3) /\ (4 + (i + 1)) - 1 = 4 + i
      OBVIOUS
    <3>2. i + 1 \in 1 .. (Hid!Kinds[f.kind].size * Hid!Kinds[f.kind].count)
      BY <2>2, <3>1
    <3>3. Hid!Data(f, heldKeys)[i + 1] = (Hid!Kinds[f.kind].usages[1] + (i + 1) - 1 \in Hid!SaysHeld(f, heldKeys))
      <4>1. "variable" \in Hid!Kinds[f.kind].flags /\ f.kind \in Hid!KeyKinds
        BY <2>2
      <4> QED BY <3>2, <4>1, Zenon DEF Hid!Data
    <3>4. Hid!Kinds[f.kind].usages[1] + (i + 1) - 1 = 4 + i
      BY <2>2, <3>1
    <3> QED BY <3>3, <3>4, Zenon
  <2>5. Hid!SaysHeld(f, heldKeys) \subseteq 4 .. 6
    BY <2>1
  <2> QED BY <1>1, <2>2, <2>3, <2>4, <2>5
<1> QED BY <1>2, <1>3 DEF ModKinds

(* An array's entries are the keys it says, or both 1 for too many. *)
LEMMA ArraySays ==
    ASSUME NEW f, NEW heldKeys \in Hid!HeldSets, f.kind \in ArrayKinds
    PROVE  LET e1 == Hid!Entry(f, heldKeys, 1) e2 == Hid!Entry(f, heldKeys, 2) IN
           /\ f.kind = "keys" => e1 \in {0, 1, 4, 5, 6} /\ e2 \in {0, 1, 4, 5, 6}
           /\ f.kind = "codes" => e1 \in {0, 1, 2, 3} /\ e2 \in {0, 1, 2, 3}
           /\ Says(f, heldKeys) = Named(Base(f.kind), e1) \cup Named(Base(f.kind), e2)
<1> DEFINE P == heldKeys \cap Hid!Plain
           T == Hid!SaysHeld(f, heldKeys)
<1>1. T = {} \/ T = {u \in P : Hid!Rank(P, u) < 2}
  BY DEF Hid!SaysHeld, ArrayKinds
<1>2. T \in SUBSET {4, 5, 6} /\ T # {4, 5, 6}
  <2>1. P \in SUBSET {4, 5, 6}
    BY HeldIs
  <2>2. {} # {4, 5, 6}
    OBVIOUS
  <2> HIDE DEF P, T
  <2> QED BY <1>1, <2>1, <2>2, FirstTwo
<1>3. /\ At(T, 0) \in {0} \cup T /\ At(T, 1) \in {0} \cup T
      /\ \A u \in T : u = At(T, 0) \/ u = At(T, 1)
  <2> HIDE DEF T
  <2> QED BY <1>2, TwoAtMost
<1>4. Hid!Overflows(f, heldKeys) => T = {}
  BY DEF Hid!SaysHeld, ArrayKinds
<1>5. ASSUME NEW i \in {1, 2}, ~ (f.kind = "keys" /\ Hid!Overflows(f, heldKeys))
      PROVE  Hid!Entry(f, heldKeys, i) = IF \E u \in T : Hid!Rank(T, u) = i - 1
                                 THEN At(T, i - 1) - Hid!Kinds[f.kind].usages[1] + Hid!Kinds[f.kind].lmin ELSE 0
  BY <1>5, Zenon DEF Hid!Entry, At
<1>6. ASSUME NEW i \in {1, 2}, \E u \in T : Hid!Rank(T, u) = i - 1
      PROVE  At(T, i - 1) \in T
  BY <1>6, Zenon DEF At
<1>7. ASSUME NEW i \in {1, 2}, ~ \E u \in T : Hid!Rank(T, u) = i - 1
      PROVE  At(T, i - 1) = 0
  BY <1>7, Zenon DEF At
<1>8. CASE f.kind = "keys" /\ Hid!Overflows(f, heldKeys)
  <2>1. Hid!Entry(f, heldKeys, 1) = 1 /\ Hid!Entry(f, heldKeys, 2) = 1
    BY <1>8, Zenon DEF Hid!Entry
  <2>2. Says(f, heldKeys) = {1}
    BY <1>4, <1>8 DEF Says
  <2>3. Base(f.kind) = 0
    BY <1>8 DEF Base, ModKinds
  <2> QED BY <1>8, <2>1, <2>2, <2>3 DEF Named
<1>9. CASE f.kind = "keys" /\ ~ Hid!Overflows(f, heldKeys)
  <2>1. Hid!Kinds[f.kind].usages[1] = 0 /\ Hid!Kinds[f.kind].lmin = 0 /\ Base(f.kind) = 0
    BY <1>9, KindsAre DEF Base, ModKinds
  <2> HIDE DEF T, P
  <2>2. 1 - 1 = 0 /\ 2 - 1 = 1
    OBVIOUS
  <2>3. Hid!Entry(f, heldKeys, 1) = At(T, 0) /\ Hid!Entry(f, heldKeys, 2) = At(T, 1)
    BY <1>2, <1>3, <1>5, <1>6, <1>7, <1>9, <2>1, <2>2
  <2>4. Says(f, heldKeys) = T
    BY <1>9, Zenon DEF Says, T
  <2>5. T = Named(0, At(T, 0)) \cup Named(0, At(T, 1))
    <3>1. 0 \notin T
      BY <1>2
    <3>2. T = (IF At(T, 0) = 0 THEN {} ELSE {At(T, 0)}) \cup (IF At(T, 1) = 0 THEN {} ELSE {At(T, 1)})
      BY <1>3, <3>1, PairIs
    <3>3. \A u \in {0} \cup T : Named(0, u) = IF u = 0 THEN {} ELSE {u}
      BY <1>2 DEF Named
    <3> QED BY <1>3, <3>2, <3>3
  <2> QED BY <1>2, <1>3, <1>9, <2>1, <2>3, <2>4, <2>5
<1>10. CASE f.kind = "codes"
  <2>1. Hid!Kinds[f.kind].usages[1] = 4 /\ Hid!Kinds[f.kind].lmin = 1 /\ Base(f.kind) = 3
    BY <1>10, KindsAre DEF Base, ModKinds
  <2> HIDE DEF T, P
  <2>2. 1 - 1 = 0 /\ 2 - 1 = 1
    OBVIOUS
  <2>3. /\ Hid!Entry(f, heldKeys, 1) = IF At(T, 0) = 0 THEN 0 ELSE At(T, 0) - 4 + 1
        /\ Hid!Entry(f, heldKeys, 2) = IF At(T, 1) = 0 THEN 0 ELSE At(T, 1) - 4 + 1
    BY <1>2, <1>3, <1>5, <1>6, <1>7, <1>10, <2>1, <2>2
  <2>4. Says(f, heldKeys) = T
    BY <1>10, Zenon DEF Says, T
  <2>5. ASSUME NEW u \in {0, 4, 5, 6}
        PROVE  /\ (IF u = 0 THEN 0 ELSE u - 4 + 1) \in {0, 1, 2, 3}
               /\ Named(3, IF u = 0 THEN 0 ELSE u - 4 + 1) = IF u = 0 THEN {} ELSE {u}
    BY DEF Named
  <2>6. At(T, 0) \in {0, 4, 5, 6} /\ At(T, 1) \in {0, 4, 5, 6}
    BY <1>2, <1>3
  <2>7. T = (IF At(T, 0) = 0 THEN {} ELSE {At(T, 0)}) \cup (IF At(T, 1) = 0 THEN {} ELSE {At(T, 1)})
    <3>1. 0 \notin T
      BY <1>2
    <3> QED BY <1>3, <3>1, PairIs
  <2> QED BY <1>10, <2>1, <2>3, <2>4, <2>5, <2>6, <2>7
<1> QED BY <1>8, <1>9, <1>10 DEF ArrayKinds

Readable(f, heldKeys, data, bit, o) ==
    /\ heldKeys \in Hid!HeldSets /\ f.kind \in Hid!KeyKinds /\ bit \in Nat /\ o \in Decoded
    /\ Len(o.keys) + 3 <= MaxKeys
    /\ Carries(data, bit, f, heldKeys)

(* The entries are where they are read. *)
LEMMA ArrayShown ==
    ASSUME NEW f, NEW heldKeys, NEW data, NEW bit, NEW o, Readable(f, heldKeys, data, bit, o),
           f.kind \in ArrayKinds
    PROVE  ShownByArray(data, bit, Hid!Kinds[f.kind].size, Base(f.kind), Hid!Entry(f, heldKeys, 1),
                        Hid!Entry(f, heldKeys, 2), o)
<1> DEFINE size == Hid!Kinds[f.kind].size
           e1 == Hid!Entry(f, heldKeys, 1)
           e2 == Hid!Entry(f, heldKeys, 2)
<1>1. heldKeys \in Hid!HeldSets /\ bit \in Nat /\ o \in Decoded /\ Len(o.keys) + 3 <= MaxKeys
  BY DEF Readable
<1>2. /\ Hid!Kinds[f.kind].count = 2 /\ "variable" \notin Hid!Kinds[f.kind].flags /\ f.kind \in Hid!KeyKinds
      /\ f.kind = "keys" => size = 8 /\ Base(f.kind) = 0
      /\ f.kind = "codes" => size = 4 /\ Base(f.kind) = 3
  BY KindsAre DEF ArrayKinds, Hid!KeyKinds, Base, ModKinds
<1>3. /\ f.kind = "keys" => e1 \in {0, 1, 4, 5, 6} /\ e2 \in {0, 1, 4, 5, 6}
      /\ f.kind = "codes" => e1 \in {0, 1, 2, 3} /\ e2 \in {0, 1, 2, 3}
  BY <1>1, ArraySays
<1>4. f.kind = "keys" \/ f.kind = "codes"
  BY DEF ArrayKinds
<1> HIDE DEF e1, e2
<1>5. size \in {4, 8} /\ Size(f.kind) = size * 2
  BY <1>2, <1>4 DEF Size
<1>6. ASSUME NEW i \in 0 .. (size * 2) - 1
      PROVE  BitAt(data, bit + i) <=> Hid!Bit(Hid!Entry(f, heldKeys, i \div size + 1), i % size)
  <2>1. i + 1 \in 1 .. (Hid!Kinds[f.kind].size * Hid!Kinds[f.kind].count) /\ (i + 1) - 1 = i
    BY <1>2, <1>5
  <2>2. Hid!Data(f, heldKeys)[i + 1] = Hid!Bit(Hid!Entry(f, heldKeys, ((i + 1) - 1) \div Hid!Kinds[f.kind].size + 1),
                                   ((i + 1) - 1) % Hid!Kinds[f.kind].size)
    BY <1>2, <2>1, Zenon DEF Hid!Data
  <2>3. BitAt(data, bit + i) <=> Hid!Data(f, heldKeys)[i + 1]
    <3>1. Carries(data, bit, f, heldKeys)
      BY Zenon DEF Readable
    <3>2. i \in 0 .. Size(f.kind) - 1
      BY <1>5
    <3> QED BY <3>1, <3>2, Zenon DEF Carries
  <2> QED BY <2>1, <2>2, <2>3
<1>7. ASSUME NEW j \in 0 .. size - 1
      PROVE  (BitAt(data, bit + j) <=> Hid!Bit(e1, j)) /\ (BitAt(data, (bit + size) + j) <=> Hid!Bit(e2, j))
  <2>1. /\ j \in 0 .. (size * 2) - 1 /\ j \div size + 1 = 1 /\ j % size = j
        /\ size + j \in 0 .. (size * 2) - 1 /\ (size + j) \div size + 1 = 2 /\ (size + j) % size = j
    BY <1>5
  <2>2. bit + (size + j) = (bit + size) + j
    BY <1>1, <1>5
  <2>3. BitAt(data, bit + j) <=> Hid!Bit(e1, j)
    BY <1>6, <2>1 DEF e1
  <2>4. BitAt(data, bit + (size + j)) <=> Hid!Bit(e2, j)
    BY <1>6, <2>1 DEF e2
  <2> QED BY <2>2, <2>3, <2>4
<1>8. \/ size = 8 /\ Base(f.kind) = 0 /\ e1 \in {0, 1, 4, 5, 6} /\ e2 \in {0, 1, 4, 5, 6}
      \/ size = 4 /\ Base(f.kind) = 3 /\ e1 \in {0, 1, 2, 3} /\ e2 \in {0, 1, 2, 3}
  BY <1>2, <1>3, <1>4
<1> HIDE DEF size
<1>9. ShownByArray(data, bit, size, Base(f.kind), e1, e2, o)
  BY <1>1, <1>7, <1>8, Zenon DEF ShownByArray
<1> QED BY <1>9 DEF size, e1, e2

(* A field of keys is read as what it says. *)
LEMMA FieldRead ==
    ASSUME NEW f, NEW heldKeys, NEW data, NEW bit, NEW o, Readable(f, heldKeys, data, bit, o)
    PROVE  Took(WithMods(o, f.kind \in ModKinds), Hid!ReadField(data, o, FieldFor(f.kind, bit)),
                Says(f, heldKeys), 3)
<1>1. heldKeys \in Hid!HeldSets /\ f.kind \in Hid!KeyKinds /\ bit \in Nat /\ o \in Decoded /\ Len(o.keys) + 3 <= MaxKeys
  BY DEF Readable
<1>2. CASE f.kind \in ArrayKinds
  <2>1. ShownByArray(data, bit, Hid!Kinds[f.kind].size, Base(f.kind), Hid!Entry(f, heldKeys, 1),
                     Hid!Entry(f, heldKeys, 2), o)
    BY <1>2, ArrayShown
  <2>2. (f.kind \in ModKinds) = FALSE /\ (f.kind \in ArrayKinds) = TRUE /\ Hid!Kinds[f.kind].count = 2
    BY <1>2, KindsAre DEF ArrayKinds, ModKinds
  <2>3. FieldFor(f.kind, bit) = [bit |-> bit, count |-> 2, size |-> Hid!Kinds[f.kind].size,
                                 array |-> TRUE, base |-> Base(f.kind)]
    BY <2>2, Zenon DEF FieldFor
  <2>4. Says(f, heldKeys) = Named(Base(f.kind), Hid!Entry(f, heldKeys, 1)) \cup Named(Base(f.kind), Hid!Entry(f, heldKeys, 2))
    BY <1>1, <1>2, ArraySays
  <2>5. Took(WithMods(o, FALSE), Hid!ReadField(data, o, FieldFor(f.kind, bit)), Says(f, heldKeys), 3)
    BY <2>1, <2>3, <2>4, ArrayRead
  <2> QED BY <2>2, <2>5, Zenon
<1>3. CASE f.kind \in {"mods", "modsList", "bitmap"}
  <2>1. /\ Says(f, heldKeys) \subseteq Base(f.kind) .. Base(f.kind) + Hid!Kinds[f.kind].count - 1
        /\ Size(f.kind) = Hid!Kinds[f.kind].count
        /\ \A i \in 0 .. Hid!Kinds[f.kind].count - 1 :
              Hid!Data(f, heldKeys)[i + 1] <=> Base(f.kind) + i \in Says(f, heldKeys)
    BY <1>1, <1>3, VariableSays
  <2>2. /\ Base(f.kind) \in {4, 224} /\ Hid!Kinds[f.kind].count = (IF Base(f.kind) = 4 THEN 3 ELSE 8)
        /\ Hid!Kinds[f.kind].size = 1
    BY <1>3, KindsAre DEF Base, ModKinds
  <2>3. (f.kind \in ModKinds) = (Base(f.kind) = 224) /\ (f.kind \in ArrayKinds) = FALSE
    BY <1>3 DEF ArrayKinds, ModKinds, Base
  <2>4. \A i \in 0 .. Hid!Kinds[f.kind].count - 1 : BitAt(data, bit + i) <=> Base(f.kind) + i \in Says(f, heldKeys)
    <3>1. Carries(data, bit, f, heldKeys)
      BY Zenon DEF Readable
    <3> QED BY <2>1, <3>1, Zenon DEF Carries
  <2>5. ShownByBits(data, bit, Hid!Kinds[f.kind].count, Base(f.kind), Says(f, heldKeys), o)
    BY <1>1, <2>1, <2>2, <2>4, Zenon DEF ShownByBits
  <2>6. FieldFor(f.kind, bit) = [bit |-> bit, count |-> Hid!Kinds[f.kind].count, size |-> 1,
                                 array |-> FALSE, base |-> Base(f.kind)]
    BY <2>2, <2>3, Zenon DEF FieldFor
  <2>7. Took(WithMods(o, Base(f.kind) = 224), Hid!ReadField(data, o, FieldFor(f.kind, bit)), Says(f, heldKeys), 3)
    BY <2>5, <2>6, VariableRead
  <2> QED BY <2>3, <2>7, Zenon
<1> QED BY <1>1, <1>2, <1>3 DEF Hid!KeyKinds, ArrayKinds

(* The items of a map, and what the parser has come to after some of them. *)
Things == [tag : {"page", "lmin", "size", "count", "id"}, v : Nat] \cup [tag : {"push", "pop"}]
          \cup [tag : {"usage", "min"}, wide : BOOLEAN, v : Nat]
          \cup [tag : {"input", "output"}, flags : SUBSET {"constant", "variable"}]

Leads(s, a, b) ==
    s \in Seq(Things) /\ \E h : h[0] = a /\ h[Len(s)] = b /\ \A n \in 1 .. Len(s) : h[n] = Hid!Item(h[n - 1], s[n])

State(g, st, us, mn, of, ou) ==
    [g |-> g, stack |-> st, usage |-> us, min |-> mn, offs |-> of, out |-> ou]
Global(p, l, s, c, i) == [page |-> p, lmin |-> l, size |-> s, count |-> c, id |-> i]

(* Items, one after another. *)
LEMMA LeadsNone ==
    ASSUME NEW a PROVE Leads(<< >>, a, a)
<1> DEFINE h == [n \in 0 .. 0 |-> a]
<1>1. << >> \in Seq(Things) /\ Len(<< >>) = 0
  OBVIOUS
<1>2. h[0] = a
  OBVIOUS
<1>3. \A n \in 1 .. 0 : h[n] = Hid!Item(h[n - 1], << >>[n])
  OBVIOUS
<1> HIDE DEF h
<1>4. \E k : k[0] = a /\ k[Len(<< >>)] = a /\ \A n \in 1 .. Len(<< >>) : k[n] = Hid!Item(k[n - 1], << >>[n])
  BY <1>1, <1>2, <1>3
<1> QED BY <1>1, <1>4, Zenon DEF Leads

LEMMA LeadsOne ==
    ASSUME NEW a, NEW it \in Things PROVE Leads(<<it>>, a, Hid!Item(a, it))
<1> DEFINE h == [n \in 0 .. 1 |-> IF n = 0 THEN a ELSE Hid!Item(a, it)]
<1>1. <<it>> \in Seq(Things) /\ Len(<<it>>) = 1 /\ <<it>>[1] = it
  OBVIOUS
<1>2. h[0] = a /\ h[1] = Hid!Item(a, it)
  OBVIOUS
<1> HIDE DEF h
<1>3. \A n \in 1 .. 1 : h[n] = Hid!Item(h[n - 1], <<it>>[n])
  BY <1>1, <1>2
<1> DEFINE s == <<it>>
<1>4. s \in Seq(Things) /\ h[0] = a /\ h[Len(s)] = Hid!Item(a, it) /\ \A n \in 1 .. Len(s) : h[n] = Hid!Item(h[n - 1], s[n])
  BY <1>1, <1>2, <1>3
<1> HIDE DEF s
<1>5. Leads(s, a, Hid!Item(a, it))
  BY <1>4, Zenon DEF Leads
<1> QED BY <1>5 DEF s

LEMMA LeadsOn ==
    ASSUME NEW s, NEW t, NEW a, NEW b, NEW c, Leads(s, a, b), Leads(t, b, c)
    PROVE  Leads(s \o t, a, c)
<1>1. s \in Seq(Things) /\ t \in Seq(Things)
  BY Zenon DEF Leads
<1>2. PICK h : h[0] = a /\ h[Len(s)] = b /\ \A n \in 1 .. Len(s) : h[n] = Hid!Item(h[n - 1], s[n])
  BY Zenon DEF Leads
<1>3. PICK k : k[0] = b /\ k[Len(t)] = c /\ \A n \in 1 .. Len(t) : k[n] = Hid!Item(k[n - 1], t[n])
  BY Zenon DEF Leads
<1> DEFINE M == Len(s)
           N == Len(t)
           u == s \o t
           e == [n \in 0 .. M + N |-> IF n <= M THEN h[n] ELSE k[n - M]]
<1>4. /\ M \in Nat /\ N \in Nat /\ u \in Seq(Things) /\ Len(u) = M + N
      /\ \A n \in 1 .. M : u[n] = s[n]
      /\ \A n \in 1 .. N : u[M + n] = t[n]
  BY <1>1
<1> HIDE DEF M, N, u
<1>5. \A n \in 0 .. M : e[n] = h[n]
  BY <1>4
<1>6. \A n \in 0 .. N : e[M + n] = k[n]
  <2>1. ASSUME NEW n \in 0 .. N PROVE e[M + n] = k[n]
    <3>1. M + n \in 0 .. M + N /\ (M + n) - M = n /\ (M + n <= M => n = 0)
      BY <1>4
    <3>2. h[M] = k[0]
      BY <1>2, <1>3 DEF M
    <3>3. CASE n = 0
      <4>1. M + n = M /\ M \in 0 .. M + N
        BY <1>4, <3>3
      <4> QED BY <1>4, <3>2, <3>3, <4>1
    <3>4. CASE n # 0
      <4>1. ~ (M + n <= M)
        BY <1>4, <3>4
      <4> QED BY <3>1, <4>1
    <3> QED BY <3>3, <3>4
  <2> QED BY <2>1
<1> HIDE DEF e
<1>7. ASSUME NEW n \in 1 .. M + N PROVE e[n] = Hid!Item(e[n - 1], u[n])
  <2>1. CASE n \in 1 .. M
    <3>1. n \in 0 .. M /\ n - 1 \in 0 .. M
      BY <1>4, <2>1
    <3>2. h[n] = Hid!Item(h[n - 1], s[n])
      BY <1>2, <2>1 DEF M
    <3> QED BY <1>4, <1>5, <2>1, <3>1, <3>2
  <2>2. CASE n \notin 1 .. M
    <3>1. PICK i \in 1 .. N : n = M + i
      <4>1. n - M \in 1 .. N /\ n = M + (n - M)
        BY <1>4, <2>2
      <4> QED BY <4>1
    <3>2. i \in 0 .. N /\ i - 1 \in 0 .. N /\ n - 1 = M + (i - 1)
      BY <1>4, <3>1
    <3>3. k[i] = Hid!Item(k[i - 1], t[i])
      BY <1>3 DEF N
    <3>4. e[M + i] = k[i] /\ e[M + (i - 1)] = k[i - 1] /\ u[M + i] = t[i]
      BY <1>4, <1>6, <3>2
    <3> QED BY <3>1, <3>2, <3>3, <3>4
  <2> QED BY <2>1, <2>2
<1>8. e[0] = a /\ e[Len(u)] = c
  <2>1. e[0] = h[0]
    BY <1>4, <1>5
  <2>2. e[M + N] = k[N]
    BY <1>4, <1>6
  <2> QED BY <1>2, <1>3, <1>4, <2>1, <2>2 DEF N
<1>9. Leads(u, a, c)
  BY <1>4, <1>7, <1>8 DEF Leads
<1> QED BY <1>9 DEF u

(* What each item does. *)
LEMMA GlobalItem ==
    ASSUME NEW p, NEW l, NEW s, NEW c, NEW i, NEW st, NEW us, NEW mn, NEW of, NEW ou, NEW w
    PROVE  /\ Hid!Item(State(Global(p, l, s, c, i), st, us, mn, of, ou), [tag |-> "page", v |-> w])
                = State(Global(w, l, s, c, i), st, us, mn, of, ou)
           /\ Hid!Item(State(Global(p, l, s, c, i), st, us, mn, of, ou), [tag |-> "lmin", v |-> w])
                = State(Global(p, w, s, c, i), st, us, mn, of, ou)
           /\ Hid!Item(State(Global(p, l, s, c, i), st, us, mn, of, ou), [tag |-> "size", v |-> w])
                = State(Global(p, l, w, c, i), st, us, mn, of, ou)
           /\ Hid!Item(State(Global(p, l, s, c, i), st, us, mn, of, ou), [tag |-> "count", v |-> w])
                = State(Global(p, l, s, w, i), st, us, mn, of, ou)
           /\ Hid!Item(State(Global(p, l, s, c, i), st, us, mn, of, ou), [tag |-> "id", v |-> w])
                = State(Global(p, l, s, c, w), st, us, mn, of, ou)
  BY DEF Hid!Item, State, Global

LEMMA LocalItem ==
    ASSUME NEW p, NEW l, NEW s, NEW c, NEW i, NEW st, NEW us, NEW mn, NEW of, NEW ou, NEW wide, NEW w
    PROVE  LET g == Global(p, l, s, c, i)
               full == IF wide THEN w ELSE Hid!Wide(p, w) IN
           /\ Len(us) < Hid!MaxUsages =>
                Hid!Item(State(g, st, us, mn, of, ou), [tag |-> "usage", wide |-> wide, v |-> w])
                  = State(g, st, Append(us, full), mn, of, ou)
           /\ Hid!Item(State(g, st, us, mn, of, ou), [tag |-> "min", wide |-> wide, v |-> w])
                = State(g, st, us, full, of, ou)
  BY DEF Hid!Item, State, Global, Hid!FullUsage

LEMMA PushItem ==
    ASSUME NEW p, NEW l, NEW s, NEW c, NEW i, NEW us, NEW mn, NEW of, NEW ou
    PROVE  LET g == Global(p, l, s, c, i) IN
           Hid!Item(State(g, << >>, us, mn, of, ou), [tag |-> "push"]) = State(g, <<g>>, us, mn, of, ou)
<1> DEFINE g == Global(p, l, s, c, i)
<1>1. Len(<< >>) < StackDepth /\ Append(<< >>, g) = <<g>>
  BY HidAssumption
<1> QED BY <1>1 DEF Hid!Item, State, Global

LEMMA PopItem ==
    ASSUME NEW p, NEW l, NEW s, NEW c, NEW i, NEW g, NEW us, NEW mn, NEW of, NEW ou
    PROVE  Hid!Item(State(Global(p, l, s, c, i), <<g>>, us, mn, of, ou), [tag |-> "pop"])
             = State(g, << >>, us, mn, of, ou)
<1>1. <<g>> # << >> /\ Hid!Last(<<g>>) = g /\ Hid!Front(<<g>>) = << >>
  BY DEF Hid!Last, Hid!Front
<1> QED BY <1>1 DEF Hid!Item, State, Global

-----------------------------------------------------------------------------
(* The pieces of a field's items. *)
Agrees(acc, p, l, s, c) ==
    /\ acc.g["page"] = None \/ acc.g["page"] = p
    /\ acc.g["lmin"] = None \/ acc.g["lmin"] = l
    /\ acc.g["size"] = None \/ acc.g["size"] = s
    /\ acc.g["count"] = None \/ acc.g["count"] = c

LEMMA KindIsTyped ==
    ASSUME NEW kind \in DOMAIN Hid!Kinds
    PROVE  /\ Hid!Kinds[kind].page \in {7, 8, 12} /\ Hid!Kinds[kind].lmin \in {0, 1}
           /\ Hid!Kinds[kind].size \in {1, 3, 4, 8} /\ Hid!Kinds[kind].count \in {1, 2, 3, 5, 8}
           /\ Hid!Kinds[kind].listed \in BOOLEAN /\ Hid!Kinds[kind].output \in BOOLEAN
           /\ Hid!Kinds[kind].flags \in SUBSET {"constant", "variable"}
<1>1. kind \in {"mods", "modsList", "keys", "codes", "bitmap", "pad", "media", "leds"}
  BY DEF Hid!Kinds
<1>2. /\ Hid!Kinds[kind].page \in {7, 8, 12} /\ Hid!Kinds[kind].lmin \in {0, 1}
      /\ Hid!Kinds[kind].size \in {1, 3, 4, 8} /\ Hid!Kinds[kind].count \in {1, 2, 3, 5, 8}
  BY <1>1, KindsAre
<1>3. Hid!Kinds[kind].listed \in BOOLEAN /\ Hid!Kinds[kind].output \in BOOLEAN
  <2>1. Hid!Kinds[kind].listed = TRUE \/ Hid!Kinds[kind].listed = FALSE
    BY <1>1, KindsAre
  <2>2. Hid!Kinds[kind].output = TRUE \/ Hid!Kinds[kind].output = FALSE
    BY <1>1, KindsAre
  <2> QED BY <2>1, <2>2
<1>4. Hid!Kinds[kind].flags = {} \/ Hid!Kinds[kind].flags = {"constant"} \/ Hid!Kinds[kind].flags = {"variable"}
  BY <1>1, KindsAre
<1> QED BY <1>2, <1>3, <1>4

LEMMA ChangedLeads ==
    ASSUME NEW acc, NEW kind \in DOMAIN Hid!Kinds, NEW p, NEW l, NEW s, NEW c, NEW i, NEW st, NEW of, NEW ou,
           Agrees(acc, p, l, s, c)
    PROVE  Leads(Hid!Changed(acc, Hid!Kinds[kind]), State(Global(p, l, s, c, i), st, << >>, None, of, ou),
                 State(Global(Hid!Kinds[kind].page, Hid!Kinds[kind].lmin, Hid!Kinds[kind].size, Hid!Kinds[kind].count, i),
                       st, << >>, None, of, ou))
<1> DEFINE k == Hid!Kinds[kind]
           inState(g) == State(g, st, << >>, None, of, ou)
           start == inState(Global(p, l, s, c, i))
<1>1. k["page"] \in Nat /\ k["lmin"] \in Nat /\ k["size"] \in Nat /\ k["count"] \in Nat
  BY KindIsTyped
<1>2. PICK h : Runs("globals", acc, k, << >>, Hid!Globals, 4, h) /\ h[4] = Hid!Changed(acc, k)
  <2>1. 4 \in Nat /\ DOMAIN Hid!Globals = 1 .. 4
    BY DEF Hid!Globals
  <2>2. RunsTo("globals", acc, k, << >>, Hid!Globals, 4, Hid!Changed(acc, k))
    BY <2>1, GlobalsRun
  <2> QED BY <2>2, Zenon DEF RunsTo
<1> DEFINE Next1(its, g0) == IF acc.g[g0] = k[g0] THEN its ELSE Append(its, [tag |-> g0, v |-> k[g0]])
<1>3. h[0] = << >> /\ h[1] = Next1(h[0], "page") /\ h[2] = Next1(h[1], "lmin")
      /\ h[3] = Next1(h[2], "size") /\ h[4] = Next1(h[3], "count")
  <2>1. 1 \in 1 .. 4 /\ 2 \in 1 .. 4 /\ 3 \in 1 .. 4 /\ 4 \in 1 .. 4
        /\ 1 - 1 = 0 /\ 2 - 1 = 1 /\ 3 - 1 = 2 /\ 4 - 1 = 3
    OBVIOUS
  <2>2. Hid!Globals[1] = "page" /\ Hid!Globals[2] = "lmin" /\ Hid!Globals[3] = "size" /\ Hid!Globals[4] = "count"
    BY DEF Hid!Globals
  <2>3. h[0] = << >> /\ \A n \in 1 .. 4 : h[n] = LoopStep("globals", acc, k, h[n - 1], Hid!Globals[n])
    BY <1>2, Zenon DEF Runs
  <2>4. \A its, g0 : LoopStep("globals", acc, k, its, g0) = Next1(its, g0)
    BY Zenon DEF LoopStep
  <2> HIDE DEF Next1, k
  <2> QED BY <2>1, <2>2, <2>3, <2>4
<1>4. ASSUME NEW its, NEW g0, NEW a, NEW b, g0 \in {"page", "lmin", "size", "count"},
             Leads(its, start, a), acc.g[g0] = k[g0] => a = b,
             Hid!Item(a, [tag |-> g0, v |-> k[g0]]) = b
      PROVE  Leads(Next1(its, g0), start, b)
  <2>1. CASE acc.g[g0] = k[g0]
    BY <1>4, <2>1
  <2>2. CASE acc.g[g0] # k[g0]
    <3>1. k[g0] \in Nat
      BY <1>1, <1>4
    <3>2. [tag |-> g0, v |-> k[g0]] \in Things
      <4> HIDE DEF k
      <4> QED BY <1>4, <3>1 DEF Things
    <3> DEFINE it == [tag |-> g0, v |-> k[g0]]
    <3>3. Leads(<<it>>, a, b)
      <4> HIDE DEF it
      <4>1. it \in Things /\ Hid!Item(a, it) = b
        BY <1>4, <3>2 DEF it
      <4> QED BY <4>1, LeadsOne
    <3>4. its \in Seq(Things)
      BY <1>4, Zenon DEF Leads
    <3> HIDE DEF it, start
    <3>5. Leads(its \o <<it>>, start, b)
      BY <1>4, <3>3, LeadsOn
    <3>6. it \in Things
      BY <3>2 DEF it
    <3>7. Append(its, it) = its \o <<it>>
      BY <3>4, <3>6
    <3>8. Next1(its, g0) = Append(its, it)
      BY <2>2, Zenon DEF Next1, it
    <3> QED BY <3>5, <3>7, <3>8
  <2> QED BY <2>1, <2>2
<1> HIDE DEF Next1
<1> DEFINE a1 == inState(Global(k["page"], l, s, c, i))
           a2 == inState(Global(k["page"], k["lmin"], s, c, i))
           a3 == inState(Global(k["page"], k["lmin"], k["size"], c, i))
           a4 == inState(Global(k["page"], k["lmin"], k["size"], k["count"], i))
<1>5. /\ Hid!Item(start, [tag |-> "page", v |-> k["page"]]) = a1
      /\ Hid!Item(a1, [tag |-> "lmin", v |-> k["lmin"]]) = a2
      /\ Hid!Item(a2, [tag |-> "size", v |-> k["size"]]) = a3
      /\ Hid!Item(a3, [tag |-> "count", v |-> k["count"]]) = a4
  <2>1. PICK kp, kl, ks, kc : kp = k["page"] /\ kl = k["lmin"] /\ ks = k["size"] /\ kc = k["count"]
    OBVIOUS
  <2> HIDE DEF k
  <2>2. /\ Hid!Item(start, [tag |-> "page", v |-> kp]) = inState(Global(kp, l, s, c, i))
        /\ Hid!Item(inState(Global(kp, l, s, c, i)), [tag |-> "lmin", v |-> kl]) = inState(Global(kp, kl, s, c, i))
        /\ Hid!Item(inState(Global(kp, kl, s, c, i)), [tag |-> "size", v |-> ks]) = inState(Global(kp, kl, ks, c, i))
        /\ Hid!Item(inState(Global(kp, kl, ks, c, i)), [tag |-> "count", v |-> kc]) = inState(Global(kp, kl, ks, kc, i))
    <3>1. Hid!Item(State(Global(p, l, s, c, i), st, << >>, None, of, ou), [tag |-> "page", v |-> kp])
            = State(Global(kp, l, s, c, i), st, << >>, None, of, ou)
      BY DEF Hid!Item, State, Global
    <3>2. Hid!Item(State(Global(kp, l, s, c, i), st, << >>, None, of, ou), [tag |-> "lmin", v |-> kl])
            = State(Global(kp, kl, s, c, i), st, << >>, None, of, ou)
      BY DEF Hid!Item, State, Global
    <3>3. Hid!Item(State(Global(kp, kl, s, c, i), st, << >>, None, of, ou), [tag |-> "size", v |-> ks])
            = State(Global(kp, kl, ks, c, i), st, << >>, None, of, ou)
      BY DEF Hid!Item, State, Global
    <3>4. Hid!Item(State(Global(kp, kl, ks, c, i), st, << >>, None, of, ou), [tag |-> "count", v |-> kc])
            = State(Global(kp, kl, ks, kc, i), st, << >>, None, of, ou)
      BY DEF Hid!Item, State, Global
    <3> QED BY <3>1, <3>2, <3>3, <3>4, Zenon
  <2> QED BY <2>1, <2>2
<1>6. /\ acc.g["page"] = k["page"] => p = k["page"]
      /\ acc.g["lmin"] = k["lmin"] => l = k["lmin"]
      /\ acc.g["size"] = k["size"] => s = k["size"]
      /\ acc.g["count"] = k["count"] => c = k["count"]
  <2> HIDE DEF k
  <2> QED BY <1>1, HidAssumption DEF Agrees
<1>7. /\ acc.g["page"] = k["page"] => start = a1
      /\ acc.g["lmin"] = k["lmin"] => a1 = a2
      /\ acc.g["size"] = k["size"] => a2 = a3
      /\ acc.g["count"] = k["count"] => a3 = a4
  <2> HIDE DEF k
  <2> QED BY <1>6
<1>8. Leads(h[0], start, start)
  BY <1>3, LeadsNone
<1> HIDE DEF a1, a2, a3, start, k
<1>9. Leads(h[1], start, a1)
  BY <1>3, <1>4, <1>5, <1>7, <1>8
<1>10. Leads(h[2], start, a2)
  BY <1>3, <1>4, <1>5, <1>7, <1>9
<1>11. Leads(h[3], start, a3)
  BY <1>3, <1>4, <1>5, <1>7, <1>10
<1> HIDE DEF a4
<1>12. Leads(h[4], start, a4)
  BY <1>3, <1>4, <1>5, <1>7, <1>11
<1> QED BY <1>2, <1>12, Zenon DEF a4, start, k

(* The locals of a field: a list of usages, or where they begin, or none. *)
Us(kind) == IF kind = "modsList" THEN [i \in 1 .. 8 |-> Hid!Wide(7, 223 + i)] ELSE << >>
Mn(kind) == IF kind \in {"modsList", "pad"} THEN None ELSE Hid!Wide(Hid!Kinds[kind].page, Hid!Kinds[kind].usages[1])

LEMMA LocalsLead ==
    ASSUME NEW kind \in DOMAIN Hid!Kinds, NEW l, NEW s, NEW c, NEW i, NEW st, NEW of, NEW ou,
           style.wide \in BOOLEAN
    PROVE  Leads(Hid!Locals(Hid!Kinds[kind]),
                 State(Global(Hid!Kinds[kind].page, l, s, c, i), st, << >>, None, of, ou),
                 State(Global(Hid!Kinds[kind].page, l, s, c, i), st, Us(kind), Mn(kind), of, ou))
<1> DEFINE inState(us, mn) == State(Global(Hid!Kinds[kind].page, l, s, c, i), st, us, mn, of, ou)
           q == Hid!Locals(Hid!Kinds[kind])
<1>1. kind \in {"mods", "modsList", "keys", "codes", "bitmap", "pad", "media", "leds"}
  BY DEF Hid!Kinds
<1>2. CASE kind = "pad"
  <2>1. Hid!Kinds[kind].usages = << >>
    BY <1>2, KindsAre
  <2>2. q \in Seq(Things) /\ Len(q) = 0
    BY <2>1 DEF Hid!Locals
  <2>3. Us(kind) = << >> /\ Mn(kind) = None
    BY <1>2 DEF Us, Mn
  <2> DEFINE h == [n \in 0 .. 0 |-> inState(<< >>, None)]
  <2>4. h[0] = inState(<< >>, None)
    OBVIOUS
  <2> HIDE DEF h, q, inState
  <2>5. \A n \in 1 .. Len(q) : h[n] = Hid!Item(h[n - 1], q[n])
    BY <2>2
  <2>6. Leads(q, inState(<< >>, None), inState(<< >>, None))
    BY <2>2, <2>4, <2>5 DEF Leads
  <2> QED BY <2>3, <2>6 DEF q, inState
<1>3. CASE kind \in {"mods", "keys", "codes", "bitmap", "media", "leds"}
  <2> DEFINE u == Hid!Kinds[kind].usages[1]
             it == [tag |-> "min", wide |-> style.wide, v |-> IF style.wide THEN Hid!Wide(Hid!Kinds[kind].page, u) ELSE u]
  <2>1. Hid!Kinds[kind].listed = FALSE /\ DOMAIN Hid!Kinds[kind].usages = 1 .. 1
    BY <1>3, KindsAre
  <2>2. u \in Nat /\ Hid!Kinds[kind].page \in Nat
    BY <1>3, KindsAre
  <2>3. it \in Things
    <3>1. (IF style.wide THEN Hid!Wide(Hid!Kinds[kind].page, u) ELSE u) \in Nat
      <4> HIDE DEF u
      <4> QED BY <2>2 DEF Hid!Wide
    <3> QED BY <3>1 DEF Things
  <2>4. q \in Seq(Things) /\ Len(q) = 1 /\ q[1] = it
    <3>1. Hid!Kinds[kind].listed = FALSE /\ DOMAIN Hid!Kinds[kind].usages = 1 .. 1
      BY <2>1
    <3>2. q = [j \in 1 .. 1 |-> [tag |-> "min", wide |-> style.wide,
                 v |-> IF style.wide THEN Hid!Wide(Hid!Kinds[kind].page, Hid!Kinds[kind].usages[j]) ELSE Hid!Kinds[kind].usages[j]]]
      BY <3>1 DEF Hid!Locals
    <3>3. \A j \in 1 .. 1 : j = 1
      OBVIOUS
    <3>4. q = [j \in 1 .. 1 |-> it]
      BY <3>2, <3>3
    <3> HIDE DEF it, q
    <3> QED BY <2>3, <3>4
  <2>5. Us(kind) = << >> /\ Mn(kind) = Hid!Wide(Hid!Kinds[kind].page, u)
    BY <1>3 DEF Us, Mn
  <2>6. Hid!Item(inState(<< >>, None), it) = inState(<< >>, Hid!Wide(Hid!Kinds[kind].page, u))
    <3> HIDE DEF u
    <3> QED BY DEF Hid!Item, State, Global, Hid!FullUsage
  <2> DEFINE h == [n \in 0 .. 1 |-> IF n = 0 THEN inState(<< >>, None) ELSE inState(Us(kind), Mn(kind))]
  <2>7. h[0] = inState(<< >>, None) /\ h[1] = inState(Us(kind), Mn(kind))
    OBVIOUS
  <2> HIDE DEF h, q, it
  <2>8. h[1] = Hid!Item(h[0], q[1])
    BY <2>4, <2>5, <2>6, <2>7
  <2> HIDE DEF inState
  <2>9. \A n \in 1 .. Len(q) : h[n] = Hid!Item(h[n - 1], q[n])
    BY <2>4, <2>8
  <2>10. Leads(q, inState(<< >>, None), inState(Us(kind), Mn(kind)))
    BY <2>4, <2>7, <2>9 DEF Leads
  <2> QED BY <2>10 DEF q, inState
<1>4. CASE kind = "modsList"
  <2> DEFINE us(n) == [j \in 1 .. n |-> Hid!Wide(7, 223 + j)]
             it(n) == [tag |-> "usage", wide |-> style.wide,
                       v |-> IF style.wide THEN Hid!Wide(7, 223 + n) ELSE 223 + n]
  <2>1. /\ Hid!Kinds[kind].listed = TRUE /\ DOMAIN Hid!Kinds[kind].usages = 1 .. 8 /\ Hid!Kinds[kind].page = 7
        /\ \A j \in 1 .. 8 : Hid!Kinds[kind].usages[j] = 223 + j
    BY <1>4, KindsAre
  <2>2. \A n \in 1 .. 8 : it(n) \in Things
    <3> SUFFICES ASSUME NEW n \in 1 .. 8 PROVE it(n) \in Things
      OBVIOUS
    <3>1. (IF style.wide THEN Hid!Wide(7, 223 + n) ELSE 223 + n) \in Nat
      BY DEF Hid!Wide
    <3> QED BY <3>1 DEF Things
  <2>3. q \in Seq(Things) /\ Len(q) = 8 /\ \A n \in 1 .. 8 : q[n] = it(n)
    <3>1. q = [j \in 1 .. 8 |-> it(j)]
      BY <2>1 DEF Hid!Locals
    <3> HIDE DEF it, q
    <3> QED BY <2>2, <3>1
  <2>4. \A n \in 0 .. 8 : us(n) \in Seq(Nat) /\ Len(us(n)) = n
    BY DEF Hid!Wide
  <2>5. us(0) = << >>
    OBVIOUS
  <2>6. ASSUME NEW n \in 1 .. 8 PROVE Hid!Item(inState(us(n - 1), None), it(n)) = inState(us(n), None)
    <3>1. Append(us(n - 1), Hid!Wide(7, 223 + n)) = us(n)
      <4>1. n - 1 \in 0 .. 8 /\ (n - 1) + 1 = n /\ Hid!Wide(7, 223 + n) \in Nat
        BY DEF Hid!Wide
      <4>2. n \in 0 .. 8
        OBVIOUS
      <4>3. us(n - 1) \in Seq(Nat) /\ Len(us(n - 1)) = n - 1 /\ us(n) \in Seq(Nat) /\ Len(us(n)) = n
        BY <2>4, <4>1, <4>2
      <4>4. /\ \A j \in 1 .. n - 1 : us(n - 1)[j] = Hid!Wide(7, 223 + j)
            /\ \A j \in 1 .. n : us(n)[j] = Hid!Wide(7, 223 + j)
        OBVIOUS
      <4> HIDE DEF us
      <4> DEFINE a == Append(us(n - 1), Hid!Wide(7, 223 + n))
      <4>5. a \in Seq(Nat) /\ Len(a) = n /\ a[n] = Hid!Wide(7, 223 + n) /\ \A j \in 1 .. n - 1 : a[j] = us(n - 1)[j]
        BY <4>1, <4>3
      <4>6. \A j \in 1 .. n : j \in 1 .. n - 1 \/ j = n
        OBVIOUS
      <4> HIDE DEF a
      <4>7. \A j \in 1 .. n : a[j] = us(n)[j]
        BY <4>4, <4>5, <4>6
      <4>8. a = us(n)
        BY <4>3, <4>5, <4>7
      <4> QED BY <4>8 DEF a
    <3>2. Len(us(n - 1)) < Hid!MaxUsages
      BY <2>4 DEF Hid!MaxUsages
    <3> DEFINE w == 223 + n
               old == us(n - 1)
               new == us(n)
    <3>3. Append(old, Hid!Wide(7, w)) = new /\ Len(old) < Hid!MaxUsages /\ Hid!Kinds[kind].page = 7
      BY <2>1, <3>1, <3>2
    <3> HIDE DEF w, old, new
    <3>4. Hid!Item(inState(old, None), [tag |-> "usage", wide |-> style.wide, v |-> IF style.wide THEN Hid!Wide(7, w) ELSE w])
            = inState(new, None)
      BY <3>3 DEF Hid!Item, State, Global, Hid!FullUsage
    <3> QED BY <3>4 DEF w, old, new
  <2>7. Us(kind) = us(8) /\ Mn(kind) = None
    BY <1>4 DEF Us, Mn
  <2> HIDE DEF us, it, q, inState
  <2> DEFINE h == [n \in 0 .. 8 |-> inState(us(n), None)]
  <2>8. h[0] = inState(<< >>, None) /\ h[8] = inState(Us(kind), Mn(kind))
    BY <2>5, <2>7
  <2>9. \A n \in 1 .. 8 : h[n] = Hid!Item(h[n - 1], q[n])
    BY <2>3, <2>6
  <2> HIDE DEF h
  <2>10. Leads(q, inState(<< >>, None), inState(Us(kind), Mn(kind)))
    BY <2>3, <2>8, <2>9 DEF Leads
  <2> QED BY <2>10 DEF q, inState
<1> QED BY <1>1, <1>2, <1>3, <1>4

OffsetIn(of, id) == IF id \in DOMAIN of THEN of[id] ELSE 0
Moved(o, bits) == (o + bits) % 65536
NextOffs(of, id, kind) ==
    [n \in DOMAIN of \cup {id} |-> IF n = id THEN Moved(OffsetIn(of, id), Size(kind)) ELSE of[n]]
NextOut(ou, of, id, kind) ==
    IF kind \in Hid!KeyKinds THEN Hid!Kept(ou, id, FieldFor(kind, OffsetIn(of, id))) ELSE ou

MainOf(kind) == [tag |-> IF Hid!Kinds[kind].output THEN "output" ELSE "input", flags |-> Hid!Kinds[kind].flags]
Now(kind, id, st, us, mn, of, ou) ==
    State(Global(Hid!Kinds[kind].page, Hid!Kinds[kind].lmin, Hid!Kinds[kind].size, Hid!Kinds[kind].count, id),
          st, us, mn, of, ou)

LEMMA NowIs ==
    ASSUME NEW kind, NEW id, NEW st, NEW us, NEW mn, NEW of, NEW ou
    PROVE  LET ps == Now(kind, id, st, us, mn, of, ou) IN
           /\ ps.g.page = Hid!Kinds[kind].page /\ ps.g.lmin = Hid!Kinds[kind].lmin
           /\ ps.g.size = Hid!Kinds[kind].size /\ ps.g.count = Hid!Kinds[kind].count /\ ps.g.id = id
           /\ ps.stack = st /\ ps.usage = us /\ ps.min = mn /\ ps.offs = of /\ ps.out = ou
  BY DEF Now, State, Global

LEMMA FirstIs ==
    ASSUME NEW kind \in DOMAIN Hid!Kinds, kind # "pad", NEW id, NEW st, NEW of, NEW ou
    PROVE  Hid!First(Now(kind, id, st, Us(kind), Mn(kind), of, ou))
             = Hid!Wide(Hid!Kinds[kind].page, Hid!Kinds[kind].usages[1])
<1> DEFINE ps == Now(kind, id, st, Us(kind), Mn(kind), of, ou)
<1>1. ps.usage = Us(kind) /\ ps.min = Mn(kind)
  BY NowIs
<1>2. CASE kind = "modsList"
  <2>1. Hid!Kinds[kind].page = 7 /\ Hid!Kinds[kind].usages[1] = 224
    BY <1>2, KindsAre
  <2>2. Us(kind) \in Seq(Nat) /\ Len(Us(kind)) = 8 /\ Us(kind)[1] = Hid!Wide(7, 224)
    BY <1>2 DEF Us, Hid!Wide
  <2>3. Us(kind) # << >>
    <3>1. Len(Us(kind)) # Len(<< >>)
      BY <2>2
    <3> QED BY <3>1, Zenon
  <2>4. Mn(kind) = None
    BY <1>2 DEF Mn
  <2> HIDE DEF ps
  <2>5. ps.min = None /\ ps.usage # << >> /\ ps.usage[1] = Hid!Wide(7, 224)
    BY <1>1, <2>2, <2>3, <2>4, Zenon
  <2>6. Hid!First(ps) = ps.usage[1]
    BY <2>5, Zenon DEF Hid!First
  <2>7. Hid!First(ps) = Hid!Wide(Hid!Kinds[kind].page, Hid!Kinds[kind].usages[1])
    BY <2>1, <2>5, <2>6, Zenon
  <2> QED BY <2>7 DEF ps
<1>3. CASE kind # "modsList"
  <2>1. Mn(kind) = Hid!Wide(Hid!Kinds[kind].page, Hid!Kinds[kind].usages[1])
    BY <1>3 DEF Mn
  <2>2. Hid!Kinds[kind].page \in Nat /\ Hid!Kinds[kind].usages[1] \in Nat
    <3>1. kind \in {"mods", "keys", "codes", "bitmap", "media", "leds"}
      BY <1>3 DEF Hid!Kinds
    <3> QED BY <3>1, KindsAre
  <2>3. Mn(kind) \in Nat
    BY <2>1, <2>2 DEF Hid!Wide
  <2>4. ps.min # None
    BY <1>1, <2>3, HidAssumption
  <2> HIDE DEF ps
  <2>5. Hid!First(ps) = ps.min
    BY <2>4, Zenon DEF Hid!First
  <2>6. Hid!First(ps) = Hid!Wide(Hid!Kinds[kind].page, Hid!Kinds[kind].usages[1])
    BY <1>1, <2>1, <2>5, Zenon
  <2> QED BY <2>6 DEF ps
<1> QED BY <1>2, <1>3

LEMMA FirstWide ==
    ASSUME NEW kind \in Hid!KeyKinds
    PROVE  LET w == Hid!Wide(Hid!Kinds[kind].page, Hid!Kinds[kind].usages[1])
           IN  Hid!PageOf(w) = Hid!Keyboard /\ w % 65536 = Hid!Kinds[kind].usages[1]
<1>1. Hid!Kinds[kind].page = 7 /\ Hid!Kinds[kind].usages[1] \in {0, 4, 224}
  BY KindsAre DEF Hid!KeyKinds
<1> QED BY <1>1 DEF Hid!PageOf, Hid!Wide, Hid!Keyboard

LEMMA OfKeys ==
    ASSUME NEW kind \in DOMAIN Hid!Kinds, ~ Hid!Kinds[kind].output, NEW id, NEW st, NEW of, NEW ou
    PROVE  Hid!IsOfKeys(Now(kind, id, st, Us(kind), Mn(kind), of, ou), Hid!Kinds[kind].flags) <=> kind \in Hid!KeyKinds
<1> DEFINE ps == Now(kind, id, st, Us(kind), Mn(kind), of, ou)
<1>1. /\ ps.g.size = Hid!Kinds[kind].size /\ ps.g.count = Hid!Kinds[kind].count
      /\ ps.usage = Us(kind) /\ ps.min = Mn(kind)
  BY NowIs
<1>2. kind \in Hid!KeyKinds \/ kind = "pad" \/ kind = "media"
  <2>1. kind \in {"mods", "modsList", "keys", "codes", "bitmap", "pad", "media", "leds"}
    BY DEF Hid!Kinds
  <2>2. kind # "leds"
    BY KindsAre
  <2> QED BY <2>1, <2>2 DEF Hid!KeyKinds
<1> HIDE DEF ps
<1>3. CASE kind = "pad"
  <2>1. "constant" \in Hid!Kinds[kind].flags /\ kind \notin Hid!KeyKinds
    BY <1>3, KindsAre DEF Hid!KeyKinds
  <2> QED BY <2>1, Zenon DEF Hid!IsOfKeys
<1>4. CASE kind = "media"
  <2>1. Hid!First(ps) = Hid!Wide(Hid!Kinds[kind].page, Hid!Kinds[kind].usages[1])
    BY <1>4, FirstIs DEF ps
  <2>2. Hid!Kinds[kind].page = 12 /\ Hid!Kinds[kind].usages[1] = 0 /\ kind \notin Hid!KeyKinds
    BY <1>4, KindsAre DEF Hid!KeyKinds
  <2>3. Hid!PageOf(Hid!First(ps)) # Hid!Keyboard
    BY <2>1, <2>2 DEF Hid!PageOf, Hid!Wide, Hid!Keyboard
  <2> QED BY <2>2, <2>3, Zenon DEF Hid!IsOfKeys, ps
<1>5. CASE kind \in Hid!KeyKinds
  <2>1. Hid!First(ps) = Hid!Wide(Hid!Kinds[kind].page, Hid!Kinds[kind].usages[1])
    BY <1>5, FirstIs DEF ps, Hid!KeyKinds
  <2>2. Hid!PageOf(Hid!First(ps)) = Hid!Keyboard
    BY <1>5, <2>1, FirstWide
  <2>3. "constant" \notin Hid!Kinds[kind].flags /\ Hid!Kinds[kind].size * Hid!Kinds[kind].count > 0
    BY <1>5, KindsAre DEF Hid!KeyKinds
  <2>4. "variable" \in Hid!Kinds[kind].flags => Hid!Kinds[kind].size = 1 /\ kind \in {"mods", "modsList", "bitmap"}
    BY <1>5, KindsAre DEF Hid!KeyKinds
  <2>5. ASSUME kind \in {"mods", "bitmap"} PROVE ps.min # None
    <3>1. Mn(kind) \in Nat
      BY <2>5, KindsAre DEF Mn, Hid!Wide
    <3> QED BY <1>1, <3>1, HidAssumption
  <2>6. ASSUME kind = "modsList"
        PROVE  \A k \in 2 .. Len(ps.usage) : k <= ps.g.count => ps.usage[k] = ps.usage[1] + k - 1
    <3>1. ps.usage = [i \in 1 .. 8 |-> Hid!Wide(7, 223 + i)]
      BY <1>1, <2>6 DEF Us
    <3>2. Len(ps.usage) = 8
      BY <3>1 DEF Hid!Wide
    <3> QED BY <3>1, <3>2 DEF Hid!Wide
  <2>7. "variable" \in Hid!Kinds[kind].flags =>
           /\ ps.g.size = 1
           /\ ps.min # None \/ \A k \in 2 .. Len(ps.usage) :
                                   k <= ps.g.count => ps.usage[k] = ps.usage[1] + k - 1
    BY <1>1, <2>4, <2>5, <2>6
  <2>8. ps.g.size * ps.g.count > 0
    BY <1>1, <2>3
  <2> HIDE DEF ps
  <2>9. Hid!IsOfKeys(ps, Hid!Kinds[kind].flags)
    BY <2>2, <2>3, <2>7, <2>8, Zenon DEF Hid!IsOfKeys
  <2> QED BY <1>5, <2>9 DEF ps
<1> QED BY <1>2, <1>3, <1>4, <1>5

LEMMA FieldIs ==
    ASSUME NEW kind \in Hid!KeyKinds, NEW id, NEW st, NEW of, NEW ou
    PROVE  Hid!FieldOf(Now(kind, id, st, Us(kind), Mn(kind), of, ou), Hid!Kinds[kind].flags)
             = FieldFor(kind, OffsetIn(of, id))
<1> DEFINE ps == Now(kind, id, st, Us(kind), Mn(kind), of, ou)
<1>1. /\ ps.g.size = Hid!Kinds[kind].size /\ ps.g.count = Hid!Kinds[kind].count /\ ps.g.lmin = Hid!Kinds[kind].lmin
      /\ ps.g.id = id /\ ps.offs = of
  BY NowIs
<1>2. Hid!Offset(ps) = OffsetIn(of, id)
  BY <1>1 DEF Hid!Offset, OffsetIn
<1>3. Hid!First(ps) % 65536 = Hid!Kinds[kind].usages[1]
  <2>1. kind \in DOMAIN Hid!Kinds /\ kind # "pad"
    BY DEF Hid!KeyKinds, Hid!Kinds
  <2>2. Hid!First(ps) = Hid!Wide(Hid!Kinds[kind].page, Hid!Kinds[kind].usages[1])
    BY <2>1, FirstIs
  <2> HIDE DEF ps
  <2> QED BY <2>2, FirstWide
<1>4. ("variable" \notin Hid!Kinds[kind].flags) = (kind \in ArrayKinds)
  BY KindsAre DEF Hid!KeyKinds, ArrayKinds
<1>5. Hid!Kinds[kind].usages[1] - (IF kind \in ArrayKinds THEN Hid!Kinds[kind].lmin ELSE 0) = Base(kind)
  BY KindsAre DEF Hid!KeyKinds, ArrayKinds, Base, ModKinds
<1> HIDE DEF ps
<1> DEFINE flags == Hid!Kinds[kind].flags
           w == Hid!First(ps) % 65536
<1>6. w - (IF "variable" \notin flags THEN ps.g.lmin ELSE 0) = Base(kind)
  BY <1>1, <1>3, <1>4, <1>5
<1>7. PICK f : f = Hid!FieldOf(ps, flags)
  OBVIOUS
<1>8. f = [bit |-> OffsetIn(of, id), count |-> Hid!Kinds[kind].count, size |-> Hid!Kinds[kind].size,
           array |-> kind \in ArrayKinds, base |-> Base(kind)]
  <2>1. PICK a : a = (kind \in ArrayKinds)
    OBVIOUS
  <2>2. a \in BOOLEAN /\ ("variable" \notin flags) = a
    BY <1>4, <2>1
  <2>3. f = [bit |-> Hid!Offset(ps), count |-> ps.g.count, size |-> ps.g.size, array |-> "variable" \notin flags,
             base |-> (Hid!First(ps) % 65536) - (IF "variable" \notin flags THEN ps.g.lmin ELSE 0)]
    BY <1>7 DEF Hid!FieldOf
  <2>4. f = [bit |-> Hid!Offset(ps), count |-> ps.g.count, size |-> ps.g.size, array |-> "variable" \notin flags,
             base |-> Base(kind)]
    BY <1>6, <2>3
  <2>5. f = [bit |-> Hid!Offset(ps), count |-> ps.g.count, size |-> ps.g.size, array |-> kind \in ArrayKinds,
             base |-> Base(kind)]
    BY <1>4, <2>4, Zenon
  <2> HIDE DEF flags
  <2> QED BY <1>1, <1>2, <2>5
<1>9. Hid!FieldOf(ps, flags) = FieldFor(kind, OffsetIn(of, id))
  BY <1>7, <1>8, Zenon DEF FieldFor
<1> QED BY <1>9 DEF ps

LEMMA NoLocalsIs ==
    ASSUME NEW kind, NEW id, NEW st, NEW us, NEW mn, NEW of, NEW ou
    PROVE  Hid!NoLocals(Now(kind, id, st, us, mn, of, ou)) = Now(kind, id, st, << >>, None, of, ou)
<1> DEFINE g == Global(Hid!Kinds[kind].page, Hid!Kinds[kind].lmin, Hid!Kinds[kind].size, Hid!Kinds[kind].count, id)
<1>1. PICK v : v = g
  OBVIOUS
<1>2. PICK e : e = << >>
  OBVIOUS
<1> HIDE DEF g
<1>3. Hid!NoLocals(State(v, st, us, mn, of, ou)) = State(v, st, e, None, of, ou)
  <2>1. PICK s : s = State(v, st, us, mn, of, ou)
    OBVIOUS
  <2>2. s = [g |-> v, stack |-> st, usage |-> us, min |-> mn, offs |-> of, out |-> ou]
    BY <2>1, Zenon DEF State
  <2> DEFINE t == [s EXCEPT !.usage = e]
  <2>5. t = [g |-> v, stack |-> st, usage |-> e, min |-> mn, offs |-> of, out |-> ou]
    BY <2>2
  <2>6. [s EXCEPT !.usage = e, !.min = None] = [t EXCEPT !.min = None]
    BY Zenon
  <2> HIDE DEF t
  <2>7. [t EXCEPT !.min = None] = [g |-> v, stack |-> st, usage |-> e, min |-> None, offs |-> of, out |-> ou]
    BY <2>5
  <2>3. [s EXCEPT !.usage = e, !.min = None] = [g |-> v, stack |-> st, usage |-> e, min |-> None, offs |-> of, out |-> ou]
    BY <2>6, <2>7, Zenon
  <2>4. Hid!NoLocals(s) = [s EXCEPT !.usage = e, !.min = None]
    BY <1>2, Zenon DEF Hid!NoLocals
  <2> QED BY <2>1, <2>3, <2>4, Zenon DEF State
<1> QED BY <1>1, <1>2, <1>3, Zenon DEF Now, g

(* What a main item does. *)
LEMMA MainItem ==
    ASSUME NEW kind \in DOMAIN Hid!Kinds, NEW id, NEW st, NEW of, NEW ou
    PROVE  Hid!Item(Now(kind, id, st, Us(kind), Mn(kind), of, ou), MainOf(kind))
             = Now(kind, id, st, << >>, None,
                   IF Hid!Kinds[kind].output THEN of ELSE NextOffs(of, id, kind),
                   IF Hid!Kinds[kind].output THEN ou ELSE NextOut(ou, of, id, kind))
<1> DEFINE ps == Now(kind, id, st, Us(kind), Mn(kind), of, ou)
           g == Global(Hid!Kinds[kind].page, Hid!Kinds[kind].lmin, Hid!Kinds[kind].size, Hid!Kinds[kind].count, id)
<1>1. /\ ps.g = g /\ DOMAIN ps.g = {"page", "lmin", "size", "count", "id"}
      /\ ps.g.size = Hid!Kinds[kind].size /\ ps.g.count = Hid!Kinds[kind].count
      /\ ps.g.id = id /\ ps.offs = of /\ ps.out = ou
  BY DEF Now, State, Global
<1>2. CASE Hid!Kinds[kind].output
  <2>1. MainOf(kind).tag = "output"
    BY <1>2 DEF MainOf
  <2>2. Hid!Item(ps, MainOf(kind)) = Hid!NoLocals(ps)
    <3> HIDE DEF ps
    <3> QED BY <1>1, <2>1 DEF Hid!Item
  <2>3. Hid!NoLocals(ps) = Now(kind, id, st, << >>, None, of, ou)
    BY NoLocalsIs
  <2> QED BY <1>2, <2>2, <2>3
<1>3. CASE ~ Hid!Kinds[kind].output
  <2>1. MainOf(kind).tag = "input" /\ MainOf(kind).flags = Hid!Kinds[kind].flags
    BY <1>3 DEF MainOf
  <2>2. Hid!Item(ps, MainOf(kind)) = Hid!NoLocals(Hid!Input(ps, Hid!Kinds[kind].flags))
    <3> HIDE DEF ps
    <3> QED BY <1>1, <2>1 DEF Hid!Item
  <2>3. Hid!KeptIf(ps, Hid!Kinds[kind].flags) = NextOut(ou, of, id, kind)
    <3>1. Hid!IsOfKeys(ps, Hid!Kinds[kind].flags) <=> kind \in Hid!KeyKinds
      BY <1>3, OfKeys
    <3>2. kind \in Hid!KeyKinds => Hid!FieldOf(ps, Hid!Kinds[kind].flags) = FieldFor(kind, OffsetIn(of, id))
      BY FieldIs
    <3> HIDE DEF ps
    <3> QED BY <1>1, <3>1, <3>2 DEF Hid!KeptIf, NextOut
  <2>4. Hid!MovedOn(ps, ps.g.size * ps.g.count) = NextOffs(of, id, kind)
    <3>1. Hid!Offset(ps) = OffsetIn(of, id)
      BY <1>1 DEF Hid!Offset, OffsetIn
    <3>2. ps.g.size * ps.g.count = Size(kind)
      BY <1>1 DEF Size
    <3> HIDE DEF ps
    <3> QED BY <1>1, <3>1, <3>2 DEF Hid!MovedOn, NextOffs, Moved
  <2>5. Hid!Input(ps, Hid!Kinds[kind].flags) = [ps EXCEPT !.out = NextOut(ou, of, id, kind), !.offs = NextOffs(of, id, kind)]
    <3> HIDE DEF ps
    <3> QED BY <2>3, <2>4, Zenon DEF Hid!Input
  <2>6. Hid!NoLocals(Hid!Input(ps, Hid!Kinds[kind].flags))
          = Now(kind, id, st, << >>, None, NextOffs(of, id, kind), NextOut(ou, of, id, kind))
    <3> DEFINE no == NextOffs(of, id, kind)
               nu == NextOut(ou, of, id, kind)
    <3>1. Hid!Input(ps, Hid!Kinds[kind].flags) = [ps EXCEPT !.out = nu, !.offs = no]
      BY <2>5
    <3> HIDE DEF no, nu
    <3>2. Hid!NoLocals([ps EXCEPT !.out = nu, !.offs = no]) = Now(kind, id, st, << >>, None, no, nu)
      <4>1. [ps EXCEPT !.out = nu, !.offs = no] = Now(kind, id, st, Us(kind), Mn(kind), no, nu)
        <5>1. PICK v, us, mn : v = g /\ us = Us(kind) /\ mn = Mn(kind)
          OBVIOUS
        <5>2. ps = [g |-> v, stack |-> st, usage |-> us, min |-> mn, offs |-> of, out |-> ou]
          BY <5>1, Zenon DEF Now, State
        <5> HIDE DEF ps, g
        <5> DEFINE t == [ps EXCEPT !.out = nu]
        <5>4. t = [g |-> v, stack |-> st, usage |-> us, min |-> mn, offs |-> of, out |-> nu]
          BY <5>2
        <5>5. [ps EXCEPT !.out = nu, !.offs = no] = [t EXCEPT !.offs = no]
          BY Zenon
        <5> HIDE DEF t
        <5>6. [t EXCEPT !.offs = no] = [g |-> v, stack |-> st, usage |-> us, min |-> mn, offs |-> no, out |-> nu]
          BY <5>4
        <5>3. [ps EXCEPT !.out = nu, !.offs = no] = [g |-> v, stack |-> st, usage |-> us, min |-> mn, offs |-> no, out |-> nu]
          BY <5>5, <5>6, Zenon
        <5> QED BY <5>1, <5>3, Zenon DEF Now, State, g
      <4> HIDE DEF ps
      <4> QED BY <4>1, NoLocalsIs
    <3> QED BY <3>1, <3>2 DEF no, nu
  <2> QED BY <1>3, <2>2, <2>6
<1> QED BY <1>2, <1>3

MovedTo(of, f) == IF Hid!Kinds[f.kind].output THEN of ELSE NextOffs(of, f.id, f.kind)
TakenIn(ou, of, f) == IF Hid!Kinds[f.kind].output THEN ou ELSE NextOut(ou, of, f.id, f.kind)

Between(p, l, s, c, i, of, ou) == State(Global(p, l, s, c, i), << >>, << >>, None, of, ou)

(* The parser has come to these offsets and layouts when it has read acc's items. *)
Reaches(acc, of, ou) ==
    \E p, l, s, c : Agrees(acc, p, l, s, c) /\ Leads(acc.items, Hid!Start, Between(p, l, s, c, acc.id, of, ou))

Styled == style.wide \in BOOLEAN /\ style.push \in BOOLEAN

LEMMA FieldLeads ==
    ASSUME NEW acc, NEW f, f.kind \in DOMAIN Hid!Kinds, f.id \in Nat, Styled, NEW of, NEW ou, Reaches(acc, of, ou)
    PROVE  Reaches(Hid!Written(acc, f), MovedTo(of, f), TakenIn(ou, of, f))
<1> DEFINE kind == f.kind
           id == f.id
           k == Hid!Kinds[kind]
           no == MovedTo(of, f)
           nu == TakenIn(ou, of, f)
<1>1. PICK p, l, s, c : Agrees(acc, p, l, s, c) /\ Leads(acc.items, Hid!Start, Between(p, l, s, c, acc.id, of, ou))
  BY Zenon DEF Reaches
<1> DEFINE g == Global(p, l, s, c, id)
           st == IF style.push THEN <<g>> ELSE << >>
           A == IF acc.id = id THEN << >> ELSE <<[tag |-> "id", v |-> id]>>
           B == IF style.push THEN <<[tag |-> "push"]>> ELSE << >>
           C == Hid!Changed(acc, k)
           D == Hid!Locals(k)
           E == <<MainOf(kind)>>
           F == IF style.push THEN <<[tag |-> "pop"]>> ELSE << >>
           a0 == Between(p, l, s, c, acc.id, of, ou)
           a1 == Between(p, l, s, c, id, of, ou)
           a2 == State(g, st, << >>, None, of, ou)
           a3 == Now(kind, id, st, << >>, None, of, ou)
           a4 == Now(kind, id, st, Us(kind), Mn(kind), of, ou)
           a5 == Now(kind, id, st, << >>, None, no, nu)
           a6 == IF style.push THEN Between(p, l, s, c, id, no, nu)
                 ELSE Between(k.page, k.lmin, k.size, k.count, id, no, nu)
<1>2. Leads(A, a0, a1)
  <2>1. CASE acc.id = id
    <3>1. A = << >> /\ a0 = a1
      BY <2>1
    <3> HIDE DEF A, a0, a1
    <3> QED BY <3>1, LeadsNone
  <2>2. CASE acc.id # id
    <3> DEFINE it == [tag |-> "id", v |-> id]
    <3>1. it \in Things
      BY DEF Things
    <3>2. PICK i, w, e : i = acc.id /\ w = id /\ e = << >>
      OBVIOUS
    <3>3. Hid!Item(State(Global(p, l, s, c, i), e, e, None, of, ou), [tag |-> "id", v |-> w])
            = State(Global(p, l, s, c, w), e, e, None, of, ou)
      BY DEF Hid!Item, State, Global
    <3>4. Hid!Item(a0, it) = a1
      BY <3>2, <3>3, Zenon DEF Between
    <3>5. A = <<it>>
      BY <2>2, Zenon
    <3> HIDE DEF A, it, a0, a1
    <3>6. Leads(<<it>>, a0, Hid!Item(a0, it))
      BY <3>1, LeadsOne
    <3> QED BY <3>4, <3>5, <3>6
  <2> QED BY <2>1, <2>2
<1>3. Leads(B, a1, a2)
  <2>1. CASE style.push
    <3> DEFINE it == [tag |-> "push"]
    <3>1. it \in Things
      BY DEF Things
    <3>2. Hid!Item(State(g, << >>, << >>, None, of, ou), [tag |-> "push"]) = State(g, <<g>>, << >>, None, of, ou)
      BY PushItem
    <3>3. st = <<g>> /\ B = <<it>>
      BY <2>1, Zenon
    <3> HIDE DEF st, B, it
    <3>4. Hid!Item(a1, it) = a2
      BY <3>2, <3>3, Zenon DEF Between, it
    <3> HIDE DEF a1, a2
    <3>5. Leads(<<it>>, a1, Hid!Item(a1, it))
      BY <3>1, LeadsOne
    <3> QED BY <3>3, <3>4, <3>5
  <2>2. CASE ~ style.push
    <3>1. B = << >> /\ st = << >>
      BY <2>2, Zenon
    <3> HIDE DEF B, st
    <3>2. a1 = a2
      BY <3>1, Zenon DEF Between
    <3> HIDE DEF a1, a2
    <3> QED BY <3>1, <3>2, LeadsNone
  <2> QED BY <2>1, <2>2
<1>4. Leads(C, a2, a3)
  <2> HIDE DEF st
  <2>1. Leads(Hid!Changed(acc, Hid!Kinds[kind]), State(Global(p, l, s, c, id), st, << >>, None, of, ou),
              State(Global(Hid!Kinds[kind].page, Hid!Kinds[kind].lmin, Hid!Kinds[kind].size, Hid!Kinds[kind].count, id),
                    st, << >>, None, of, ou))
    BY <1>1, ChangedLeads
  <2> QED BY <2>1, Zenon DEF Now
<1>5. Leads(D, a3, a4)
  <2> HIDE DEF st
  <2>1. Leads(Hid!Locals(Hid!Kinds[kind]),
              State(Global(Hid!Kinds[kind].page, k.lmin, k.size, k.count, id), st, << >>, None, of, ou),
              State(Global(Hid!Kinds[kind].page, k.lmin, k.size, k.count, id), st, Us(kind), Mn(kind), of, ou))
    <3> DEFINE x == k.lmin
               y == k.size
               z == k.count
    <3> HIDE DEF x, y, z
    <3>1. Leads(Hid!Locals(Hid!Kinds[kind]),
              State(Global(Hid!Kinds[kind].page, x, y, z, id), st, << >>, None, of, ou),
              State(Global(Hid!Kinds[kind].page, x, y, z, id), st, Us(kind), Mn(kind), of, ou))
      BY LocalsLead DEF Styled
    <3> QED BY <3>1 DEF x, y, z
  <2> QED BY <2>1, Zenon DEF Now
<1>6. Leads(E, a4, a5)
  <2>1. Hid!Item(a4, MainOf(kind)) = a5
    <3> HIDE DEF st
    <3>1. Hid!Item(Now(kind, id, st, Us(kind), Mn(kind), of, ou), MainOf(kind))
             = Now(kind, id, st, << >>, None,
                   IF Hid!Kinds[kind].output THEN of ELSE NextOffs(of, id, kind),
                   IF Hid!Kinds[kind].output THEN ou ELSE NextOut(ou, of, id, kind))
      BY MainItem
    <3> QED BY <3>1, Zenon DEF MovedTo, TakenIn
  <2>2. MainOf(kind) \in Things
    <3>1. Hid!Kinds[kind].flags \in SUBSET {"constant", "variable"}
      BY KindIsTyped
    <3> QED BY <3>1 DEF MainOf, Things
  <2> HIDE DEF a4, a5
  <2> QED BY <2>1, <2>2, LeadsOne
<1>7. Leads(F, a5, a6)
  <2>1. CASE style.push
    <3> DEFINE it == [tag |-> "pop"]
    <3>1. it \in Things
      BY DEF Things
    <3>2. st = <<g>> /\ F = <<it>> /\ a6 = Between(p, l, s, c, id, no, nu)
      BY <2>1, Zenon
    <3>3. Hid!Item(Now(kind, id, <<g>>, << >>, None, no, nu), [tag |-> "pop"]) = State(g, << >>, << >>, None, no, nu)
      <4> DEFINE x == k.page
                 y == k.lmin
                 z == k.size
                 w == k.count
      <4> HIDE DEF x, y, z, w, g, no, nu
      <4>1. Hid!Item(State(Global(x, y, z, w, id), <<g>>, << >>, None, no, nu), [tag |-> "pop"])
             = State(g, << >>, << >>, None, no, nu)
        BY PopItem
      <4> QED BY <4>1 DEF Now, x, y, z, w
    <3> HIDE DEF st, F, it, a6
    <3>4. Hid!Item(a5, it) = a6
      BY <3>2, <3>3, Zenon DEF Between, it
    <3> HIDE DEF a5
    <3>5. Leads(<<it>>, a5, Hid!Item(a5, it))
      BY <3>1, LeadsOne
    <3> QED BY <3>2, <3>4, <3>5
  <2>2. CASE ~ style.push
    <3>1. F = << >> /\ st = << >> /\ a6 = Between(k.page, k.lmin, k.size, k.count, id, no, nu)
      BY <2>2, Zenon
    <3> HIDE DEF F, st, a6
    <3>2. a5 = a6
      BY <3>1, Zenon DEF Between, Now
    <3> HIDE DEF a5
    <3> QED BY <3>1, <3>2, LeadsNone
  <2> QED BY <2>1, <2>2
<1>8. Hid!Written(acc, f) = [id |-> id, items |-> acc.items \o (((((A \o B) \o C) \o D) \o E) \o F),
                         g |-> IF style.push THEN acc.g ELSE [n \in Hid!ToSet(Hid!Globals) |-> k[n]]]
  BY Zenon DEF Hid!Written, Hid!ItemsOf, MainOf
<1> DEFINE its == acc.items \o (((((A \o B) \o C) \o D) \o E) \o F)
           new == IF style.push THEN acc.g ELSE [n \in Hid!ToSet(Hid!Globals) |-> k[n]]
<1> HIDE DEF A, B, C, D, E, F, a0, a1, a2, a3, a4, a5, a6, new
<1>9. Leads(its, Hid!Start, a6)
  <2>1. Leads(A \o B, a0, a2)
    BY <1>2, <1>3, LeadsOn
  <2>2. Leads((A \o B) \o C, a0, a3)
    BY <2>1, <1>4, LeadsOn
  <2>3. Leads(((A \o B) \o C) \o D, a0, a4)
    BY <2>2, <1>5, LeadsOn
  <2>4. Leads((((A \o B) \o C) \o D) \o E, a0, a5)
    BY <2>3, <1>6, LeadsOn
  <2>5. Leads(((((A \o B) \o C) \o D) \o E) \o F, a0, a6)
    BY <2>4, <1>7, LeadsOn
  <2>6. Leads(acc.items, Hid!Start, a0)
    BY <1>1, Zenon DEF a0
  <2> QED BY <2>5, <2>6, LeadsOn
<1>10. Hid!Written(acc, f).id = id /\ Hid!Written(acc, f).items = its /\ Hid!Written(acc, f).g = new
  <2> HIDE DEF its
  <2>1. Hid!Written(acc, f) = [id |-> id, items |-> its, g |-> new]
    BY <1>8, Zenon DEF its, new
  <2> HIDE DEF id
  <2> QED BY <2>1
<1>11. CASE style.push
  <2>1. new = acc.g /\ a6 = Between(p, l, s, c, id, no, nu)
    BY <1>11, Zenon DEF new, a6
  <2>2. Agrees(Hid!Written(acc, f), p, l, s, c)
    BY <1>1, <1>10, <2>1, Zenon DEF Agrees
  <2> QED BY <1>9, <1>10, <2>1, <2>2, Zenon DEF Reaches
<1>12. CASE ~ style.push
  <2>1. new = [n \in Hid!ToSet(Hid!Globals) |-> k[n]] /\ a6 = Between(k.page, k.lmin, k.size, k.count, id, no, nu)
    BY <1>12, Zenon DEF new, a6
  <2>2. Hid!ToSet(Hid!Globals) = {"page", "lmin", "size", "count"}
    <3>1. DOMAIN Hid!Globals = 1 .. 4 /\ Hid!Globals[1] = "page" /\ Hid!Globals[2] = "lmin" /\ Hid!Globals[3] = "size" /\ Hid!Globals[4] = "count"
      BY DEF Hid!Globals
    <3>2. \A x \in 1 .. 4 : x = 1 \/ x = 2 \/ x = 3 \/ x = 4
      OBVIOUS
    <3> HIDE DEF kind
    <3> QED BY <3>1, <3>2 DEF Hid!ToSet
  <2>3. new["page"] = k.page /\ new["lmin"] = k.lmin /\ new["size"] = k.size /\ new["count"] = k.count
    <3> HIDE DEF k
    <3> QED BY <2>1, <2>2
  <2>4. Agrees(Hid!Written(acc, f), k.page, k.lmin, k.size, k.count)
    BY <1>10, <2>3, Zenon DEF Agrees
  <2> QED BY <1>9, <1>10, <2>1, <2>4, Zenon DEF Reaches
<1> QED BY <1>11, <1>12

Described ==
    /\ descr \in Seq([kind : DOMAIN Hid!Kinds, id : 0 .. 2])
    /\ (\A m \in DOMAIN descr : descr[m].id = 0) \/ (\A m \in DOMAIN descr : descr[m].id # 0)
    /\ Len(descr) <= MaxDescr

(* rep is what a report has after each field. *)
Grows(id, heldKeys, rep) == Runs("report", id, heldKeys, << >>, descr, Len(descr), rep)
Extends(data, bits) ==
    /\ Len(data) \in Nat /\ Len(bits) <= Len(data)
    /\ \A i \in 1 .. Len(bits) : data[i] = bits[i]
Sits(id, heldKeys, bits, of) == bits \in Seq(BOOLEAN) /\ Len(bits) = OffsetIn(of, id)
Placed(n, of) == \A id \in 0 .. 2, heldKeys \in Hid!HeldSets : \A rep : Grows(id, heldKeys, rep) => Sits(id, heldKeys, rep[n], of)

(* A loop comes to one end. *)
LEMMA RunsUnique ==
    ASSUME NEW what, NEW p, NEW r, NEW base, NEW q, NEW N \in Nat, NEW h, NEW e,
           Runs(what, p, r, base, q, N, h), Runs(what, p, r, base, q, N, e)
    PROVE  h[N] = e[N]
<1> DEFINE G == {n \in 0 .. N : h[n] = e[n]}
<1>1. h[0] = base /\ e[0] = base
  BY Zenon DEF Runs
<1>2. \A n \in 1 .. N : h[n] = LoopStep(what, p, r, h[n - 1], q[n]) /\ e[n] = LoopStep(what, p, r, e[n - 1], q[n])
  BY Zenon DEF Runs
<1>3. 0 \in G
  BY <1>1
<1>4. ASSUME NEW n \in 0 .. N, n \in G, n < N PROVE n + 1 \in G
  <2>1. n + 1 \in 1 .. N /\ (n + 1) - 1 = n /\ n + 1 \in 0 .. N
    BY <1>4
  <2>2. h[n + 1] = LoopStep(what, p, r, h[n], q[n + 1]) /\ e[n + 1] = LoopStep(what, p, r, e[n], q[n + 1])
    BY <1>2, <2>1
  <2>3. h[n] = e[n]
    BY <1>4
  <2>4. h[n + 1] = e[n + 1]
    BY <2>2, <2>3, Zenon
  <2> QED BY <2>1, <2>4
<1>5. \A n \in 0 .. N : n \in G
  <2> HIDE DEF G
  <2> QED BY <1>3, <1>4, OneByOne
<1>6. N \in G
  BY <1>5
<1> QED BY <1>6

(* The layouts are those the parser has when the items are read. *)
LEMMA ParsedIs ==
    ASSUME NEW items, NEW b, Leads(items, Hid!Start, b)
    PROVE  Hid!Parsed(items) = b.out
<1>1. PICK h : h[0] = Hid!Start /\ h[Len(items)] = b /\ \A n \in 1 .. Len(items) : h[n] = Hid!Item(h[n - 1], items[n])
  BY Zenon DEF Leads
<1>2. items \in Seq(Things)
  BY Zenon DEF Leads
<1>3. Len(items) \in Nat /\ DOMAIN items = 1 .. Len(items)
  BY <1>2
<1>4. PICK e : RunsTo("item", 0, 0, Hid!Start, items, Len(items), e) /\ e.out = Hid!Parsed(items)
  BY <1>3, ItemsRun, Zenon
<1>5. PICK k : Runs("item", 0, 0, Hid!Start, items, Len(items), k) /\ k[Len(items)] = e
  BY <1>4, Zenon DEF RunsTo
<1>6. Runs("item", 0, 0, Hid!Start, items, Len(items), h)
  BY <1>1, Zenon DEF Runs, LoopStep
<1>7. h[Len(items)] = k[Len(items)]
  BY <1>3, <1>5, <1>6, RunsUnique
<1> QED BY <1>1, <1>4, <1>5, <1>7, Zenon

(* A field has as many bits as its size says. *)
LEMMA DataIs ==
    ASSUME NEW f, NEW heldKeys, f.kind \in DOMAIN Hid!Kinds
    PROVE  Hid!Data(f, heldKeys) \in Seq(BOOLEAN) /\ Len(Hid!Data(f, heldKeys)) = Size(f.kind) /\ Size(f.kind) \in Nat
<1> DEFINE v(j) == Hid!Kinds[f.kind].usages[1] + j - 1 \in Hid!SaysHeld(f, heldKeys)
           b(j) == IF f.kind \notin Hid!KeyKinds THEN TRUE
                   ELSE IF "variable" \in Hid!Kinds[f.kind].flags THEN v(j)
                   ELSE Hid!Bit(Hid!Entry(f, heldKeys, (j - 1) \div Hid!Kinds[f.kind].size + 1), (j - 1) % Hid!Kinds[f.kind].size)
<1>1. Size(f.kind) \in Nat
  BY KindIsTyped DEF Size
<1>2. ASSUME NEW j PROVE b(j) \in BOOLEAN
  <2>1. CASE f.kind \notin Hid!KeyKinds
    <3>1. b(j) = TRUE
      BY <2>1, Zenon
    <3> QED BY <3>1, Zenon
  <2>2. CASE f.kind \in Hid!KeyKinds /\ "variable" \in Hid!Kinds[f.kind].flags
    <3>1. v(j) \in BOOLEAN
      <4>1. \A a, S : (a \in S) \in BOOLEAN
        OBVIOUS
      <4> QED BY <4>1, Zenon
    <3> HIDE DEF v
    <3>2. b(j) = v(j)
      BY <2>2, Zenon
    <3> QED BY <3>1, <3>2, Zenon
  <2>3. CASE f.kind \in Hid!KeyKinds /\ "variable" \notin Hid!Kinds[f.kind].flags
    <3>1. b(j) = Hid!Bit(Hid!Entry(f, heldKeys, (j - 1) \div Hid!Kinds[f.kind].size + 1), (j - 1) % Hid!Kinds[f.kind].size)
      BY <2>3, Zenon
    <3> QED BY <3>1, Zenon DEF Hid!Bit
  <2> QED BY <2>1, <2>2, <2>3, Zenon
<1>3. Hid!Data(f, heldKeys) = [j \in 1 .. Size(f.kind) |-> b(j)]
  BY Zenon DEF Hid!Data, Size
<1> HIDE DEF b
<1> DEFINE N == Size(f.kind)
<1> HIDE DEF N
<1>4. [j \in 1 .. N |-> b(j)] \in [1 .. N -> BOOLEAN]
  BY <1>2, Zenon
<1>5. \A s \in [1 .. N -> BOOLEAN] : s \in Seq(BOOLEAN) /\ Len(s) = N
  BY <1>1 DEF N
<1>6. Hid!Data(f, heldKeys) \in [1 .. N -> BOOLEAN]
  BY <1>3, <1>4, Zenon DEF N
<1>7. Hid!Data(f, heldKeys) \in Seq(BOOLEAN) /\ Len(Hid!Data(f, heldKeys)) = N
  BY <1>5, <1>6
<1> QED BY <1>1, <1>7 DEF N

(* The fields, one at a time. *)
LEMMA FieldIsTyped ==
    ASSUME Described, NEW n \in 1 .. Len(descr)
    PROVE  descr[n].kind \in DOMAIN Hid!Kinds /\ descr[n].id \in 0 .. 2
<1>1. descr[n] \in [kind : DOMAIN Hid!Kinds, id : 0 .. 2]
  <2>1. descr \in Seq([kind : DOMAIN Hid!Kinds, id : 0 .. 2])
    BY DEF Described
  <2> DEFINE S == [kind : DOMAIN Hid!Kinds, id : 0 .. 2]
  <2> HIDE DEF S
  <2>2. descr \in Seq(S)
    BY <2>1 DEF S
  <2>3. descr[n] \in S
    BY <2>2
  <2> QED BY <2>3 DEF S
<1> QED BY <1>1

(* A report has the bits of its fields, each where the parser has it. *)
LEMMA ReportGrows ==
    ASSUME Described, NEW n \in 1 .. Len(descr), NEW id \in 0 .. 2, NEW heldKeys \in Hid!HeldSets, NEW rep,
           Grows(id, heldKeys, rep)
    PROVE  rep[n] = IF descr[n].id # id \/ Hid!Kinds[descr[n].kind].output THEN rep[n - 1]
                    ELSE rep[n - 1] \o Hid!Data(descr[n], heldKeys)
  BY Zenon DEF Grows, Runs, LoopStep

LEMMA OffsetsMove ==
    ASSUME NEW of, NEW f, NEW id
    PROVE  OffsetIn(MovedTo(of, f), id) = IF Hid!Kinds[f.kind].output \/ f.id # id THEN OffsetIn(of, id)
                                          ELSE Moved(OffsetIn(of, id), Size(f.kind))
<1>1. CASE Hid!Kinds[f.kind].output
  BY <1>1, Zenon DEF MovedTo
<1>2. CASE ~ Hid!Kinds[f.kind].output
  <2> DEFINE D == DOMAIN of \cup {f.id}
             g == [n \in D |-> IF n = f.id THEN Moved(OffsetIn(of, f.id), Size(f.kind)) ELSE of[n]]
  <2>1. MovedTo(of, f) = g
    BY <1>2, Zenon DEF MovedTo, NextOffs
  <2>2. CASE f.id = id
    <3>1. id \in DOMAIN g /\ g[id] = Moved(OffsetIn(of, f.id), Size(f.kind))
      BY <2>2, Zenon
    <3> QED BY <1>2, <2>1, <2>2, <3>1, Zenon DEF OffsetIn
  <2>3. CASE f.id # id
    <3>1. id \in DOMAIN g <=> id \in DOMAIN of
      BY <2>3, Zenon
    <3>2. id \in DOMAIN g => g[id] = of[id]
      BY <2>3, Zenon
    <3> QED BY <2>1, <2>3, <3>1, <3>2, Zenon DEF OffsetIn
  <2> QED BY <2>2, <2>3
<1> QED BY <1>1, <1>2

(* A report is short enough for the offsets of its fields. *)
LEMMA SizeIs == \A kind \in DOMAIN Hid!Kinds : Size(kind) \in 0 .. 16
  BY DEF Size, Hid!Kinds, Hid!Field

LEMMA ReportFits ==
    ASSUME Described, NEW n \in 1 .. Len(descr), NEW id \in 0 .. 2, NEW heldKeys \in Hid!HeldSets, NEW rep,
           Grows(id, heldKeys, rep)
    PROVE  Len(rep[n - 1]) \in Nat /\ Len(rep[n - 1]) + 16 < 65536
<1> DEFINE N == Len(descr)
           Short(m) == rep[m] \in Seq(BOOLEAN) /\ Len(rep[m]) <= 16 * m
           G == {m \in 0 .. N : Short(m)}
<1>1. N \in Nat
  BY DEF Described
<1>2. 0 \in G
  <2>1. rep[0] = << >>
    BY Zenon DEF Grows, Runs
  <2>2. \A e : e = << >> => e \in Seq(BOOLEAN) /\ Len(e) = 0
    OBVIOUS
  <2>3. Len(rep[0]) <= 16 * 0
    BY <2>1, <2>2
  <2>4. Short(0)
    BY <2>1, <2>2, <2>3
  <2> HIDE DEF Short
  <2> QED BY <1>1, <2>4
<1>3. ASSUME NEW m \in 0 .. N, m \in G, m < N PROVE m + 1 \in G
  <2> DEFINE k == m + 1
             f == descr[k]
  <2>1. k \in 1 .. N /\ k - 1 = m /\ k \in 0 .. N
    BY <1>1, <1>3
  <2>2. f.kind \in DOMAIN Hid!Kinds
    BY <2>1, FieldIsTyped
  <2>3. rep[k] = IF f.id # id \/ Hid!Kinds[f.kind].output THEN rep[k - 1] ELSE rep[k - 1] \o Hid!Data(f, heldKeys)
    <3> HIDE DEF k
    <3> QED BY <2>1, ReportGrows
  <2> DEFINE a == rep[m]
             d == Hid!Data(f, heldKeys)
  <2>4. d \in Seq(BOOLEAN) /\ Len(d) = Size(f.kind)
    BY <2>2, DataIs
  <2>5. Len(d) \in 0 .. 16
    BY <2>2, <2>4, SizeIs
  <2>6. a \in Seq(BOOLEAN) /\ Len(a) <= 16 * m
    BY <1>3
  <2>7. rep[k] = a \/ rep[k] = a \o d
    BY <2>1, <2>3
  <2> HIDE DEF a, d, G
  <2>8. a \o d \in Seq(BOOLEAN) /\ Len(a \o d) = Len(a) + Len(d) /\ Len(a) \in Nat
    BY <2>4, <2>6
  <2>9. Len(a) <= 16 * (m + 1) /\ Len(a) + Len(d) <= 16 * (m + 1)
    <3> DEFINE x == Len(a)
               y == Len(d)
    <3>1. x \in Nat /\ y \in 0 .. 16 /\ x <= 16 * m /\ m \in Nat
      BY <1>1, <2>5, <2>6, <2>8
    <3> HIDE DEF x, y
    <3>2. x <= 16 * (m + 1) /\ x + y <= 16 * (m + 1)
      BY <3>1
    <3> QED BY <3>2 DEF x, y
  <2>10. Short(k)
    BY <2>6, <2>7, <2>8, <2>9
  <2> QED BY <2>1, <2>10 DEF G
<1> HIDE DEF G
<1>4. \A m \in 0 .. N : m \in G
  BY <1>1, <1>2, <1>3, OneByOne
<1>5. n - 1 \in 0 .. N /\ n - 1 + 1 <= N
  BY <1>1
<1>6. Short(n - 1)
  BY <1>4, <1>5 DEF G
<1>7. N <= MaxDescr /\ MaxDescr \in Nat /\ 16 * MaxDescr < 65536
  BY HidAssumption DEF Described
<1>8. 16 * (n - 1) + 16 < 65536
  BY <1>1, <1>5, <1>7
<1> QED BY <1>1, <1>5, <1>6, <1>8

LEMMA PlacedNext ==
    ASSUME Described, NEW n \in 1 .. Len(descr), NEW of, Placed(n - 1, of)
    PROVE  Placed(n, MovedTo(of, descr[n]))
<1> DEFINE f == descr[n]
           no == MovedTo(of, f)
<1>1. ASSUME NEW id \in 0 .. 2, NEW heldKeys \in Hid!HeldSets, NEW rep, Grows(id, heldKeys, rep)
      PROVE  Sits(id, heldKeys, rep[n], no)
  <2>1. rep[n - 1] \in Seq(BOOLEAN) /\ Len(rep[n - 1]) = OffsetIn(of, id)
    BY <1>1, Zenon DEF Placed, Sits
  <2>2. f.kind \in DOMAIN Hid!Kinds
    BY FieldIsTyped
  <2> DEFINE same == Hid!Kinds[f.kind].output \/ f.id # id
  <2>3. CASE same
    <3>1. rep[n] = rep[n - 1]
      BY <1>1, <2>3, ReportGrows
    <3>2. OffsetIn(no, id) = OffsetIn(of, id)
      BY <2>3, OffsetsMove
    <3> QED BY <2>1, <3>1, <3>2, Zenon DEF Sits
  <2>4. CASE ~ same
    <3>1. rep[n] = rep[n - 1] \o Hid!Data(f, heldKeys)
      <4>1. rep[n] = IF descr[n].id # id \/ Hid!Kinds[descr[n].kind].output THEN rep[n - 1]
                     ELSE rep[n - 1] \o Hid!Data(descr[n], heldKeys)
        BY <1>1, ReportGrows
      <4> QED BY <2>4, <4>1, Zenon
    <3>2. OffsetIn(no, id) = OffsetIn(of, id) + Size(f.kind)
      <4>1. OffsetIn(no, id) = Moved(OffsetIn(of, id), Size(f.kind))
        BY <2>4, OffsetsMove
      <4>2. Len(rep[n - 1]) \in Nat /\ Len(rep[n - 1]) + 16 < 65536
        BY <1>1, ReportFits
      <4>3. Size(f.kind) \in 0 .. 16
        BY <2>2, SizeIs
      <4> DEFINE o == OffsetIn(of, id)
                 z == Size(f.kind)
      <4> HIDE DEF o, z
      <4>4. o \in Nat /\ o + 16 < 65536 /\ z \in 0 .. 16
        BY <2>1, <4>2, <4>3 DEF o, z
      <4>5. Moved(o, z) = o + z
        BY <4>4 DEF Moved
      <4> QED BY <4>1, <4>5 DEF o, z
    <3> DEFINE a == rep[n - 1]
               d == Hid!Data(f, heldKeys)
               z == Size(f.kind)
    <3>3. d \in Seq(BOOLEAN) /\ Len(d) = z /\ a \in Seq(BOOLEAN)
      BY <2>1, <2>2, DataIs
    <3> HIDE DEF a, d, z
    <3>4. a \o d \in Seq(BOOLEAN) /\ Len(a \o d) = Len(a) + z
      BY <3>3
    <3>5. rep[n] \in Seq(BOOLEAN)
      BY <3>1, <3>4 DEF a, d
    <3>6. Len(rep[n]) = OffsetIn(no, id)
      BY <2>1, <3>1, <3>2, <3>4, Zenon DEF a, d, z
    <3> QED BY <3>5, <3>6, Zenon DEF Sits
  <2> QED BY <2>3, <2>4
<1> HIDE DEF no
<1>2. Placed(n, no)
  BY <1>1, Zenon DEF Placed
<1> QED BY <1>2 DEF no

(* A report that goes on says what it said before, and what the next field says. *)
LEMMA ExtendsBefore ==
    ASSUME Described, NEW n \in 1 .. Len(descr), NEW id \in 0 .. 2, NEW heldKeys \in Hid!HeldSets, NEW rep, NEW of,
           Grows(id, heldKeys, rep), Placed(n - 1, of), NEW data, Extends(data, rep[n])
    PROVE  /\ Extends(data, rep[n - 1])
           /\ descr[n].id = id /\ ~ Hid!Kinds[descr[n].kind].output => Carries(data, OffsetIn(of, id), descr[n], heldKeys)
<1> DEFINE f == descr[n]
           a == rep[n - 1]
           d == Hid!Data(f, heldKeys)
           z == Size(f.kind)
           o == OffsetIn(of, id)
<1>1. a \in Seq(BOOLEAN) /\ Len(a) = o
  BY Zenon DEF Placed, Sits
<1>2. f.kind \in DOMAIN Hid!Kinds
  BY FieldIsTyped
<1>3. d \in Seq(BOOLEAN) /\ Len(d) = z /\ z \in Nat
  BY <1>2, DataIs
<1>4. CASE Hid!Kinds[f.kind].output \/ f.id # id
  <2>1. rep[n] = rep[n - 1]
    BY <1>4, ReportGrows
  <2> QED BY <1>4, <2>1
<1>5. CASE ~ (Hid!Kinds[f.kind].output \/ f.id # id)
  <2>1. rep[n] = a \o d
    <3>1. rep[n] = IF descr[n].id # id \/ Hid!Kinds[descr[n].kind].output THEN rep[n - 1]
                   ELSE rep[n - 1] \o Hid!Data(descr[n], heldKeys)
      BY ReportGrows
    <3> QED BY <1>5, <3>1, Zenon
  <2> HIDE DEF a, d, z, o, f
  <2>2. Extends(data, a \o d)
    BY <2>1
  <2>3. Len(data) \in Nat /\ Len(a \o d) <= Len(data) /\ \A i \in 1 .. Len(a \o d) : data[i] = (a \o d)[i]
    BY <2>2, Zenon DEF Extends
  <2>4. o \in Nat /\ Len(a \o d) = o + z
    BY <1>1, <1>3
  <2>5. /\ \A i \in 1 .. o : (a \o d)[i] = a[i]
        /\ \A i \in 1 .. z : (a \o d)[o + i] = d[i]
    BY <1>1, <1>3
  <2>6. Extends(data, a)
    <3>1. \A i \in 1 .. o : i \in 1 .. o + z
      BY <1>3, <2>4
    <3> QED BY <1>1, <1>3, <2>3, <2>4, <2>5, <3>1 DEF Extends
  <2>7. Carries(data, o, f, heldKeys)
    <3> SUFFICES ASSUME NEW i \in 0 .. Size(f.kind) - 1 PROVE BitAt(data, o + i) <=> Hid!Data(f, heldKeys)[i + 1]
      BY Zenon DEF Carries
    <3>1. i + 1 \in 1 .. z /\ o + (i + 1) = (o + i) + 1 /\ (o + i) + 1 \in 1 .. o + z /\ o + i \in Nat
      BY <1>3, <2>4 DEF z
    <3>2. data[(o + i) + 1] = d[i + 1]
      BY <2>3, <2>4, <2>5, <3>1
    <3>3. o + i < Len(data)
      BY <1>3, <2>3, <2>4, <3>1
    <3> QED BY <3>2, <3>3, Zenon DEF BitAt, d
  <2> QED BY <2>6, <2>7 DEF a, o, f
<1> QED BY <1>4, <1>5

(* The fields of keys so far, and those of them there is room for. *)
KeysTo(n, id) == {m \in Hid!KeyFields(id) : m <= n}
HeardTo(n, id) == {m \in Hid!Heard(id) : m <= n}
SaidTo(n, id, heldKeys) == UNION {Says(descr[m], heldKeys) : m \in HeardTo(n, id)}
ModsTo(n, id) == \E m \in HeardTo(n, id) : descr[m].kind \in ModKinds

(* o is what they say, c fields of them. *)
Means(n, id, heldKeys, o, c) ==
    /\ o \in Decoded
    /\ o.mods = SaidTo(n, id, heldKeys) \cap Hid!Modifiers
    /\ Hid!ToSet(o.keys) = SaidTo(n, id, heldKeys) \cap Hid!Plain
    /\ o.rollover = (1 \in SaidTo(n, id, heldKeys))
    /\ o.hasMods = ModsTo(n, id)
    /\ Len(o.keys) <= 3 * c

IsKey(f, id) == f.id = id /\ f.kind \in Hid!KeyKinds

(* One more field: of keys of this report or not, heard or not. *)
LEMMA KeysMore ==
    ASSUME Described, NEW n \in 1 .. Len(descr), NEW id
    PROVE  /\ IsKey(descr[n], id) => KeysTo(n, id) = KeysTo(n - 1, id) \cup {n} /\ n \notin KeysTo(n - 1, id)
           /\ ~ IsKey(descr[n], id) => KeysTo(n, id) = KeysTo(n - 1, id)
           /\ KeysTo(n - 1, id) \subseteq 1 .. n - 1
<1>1. DOMAIN descr = 1 .. Len(descr) /\ Len(descr) \in Nat
  BY DEF Described
<1>2. \A m : m \in Hid!KeyFields(id) <=> m \in 1 .. Len(descr) /\ IsKey(descr[m], id)
  BY <1>1, Zenon DEF Hid!KeyFields, IsKey
<1>3. \A m \in 1 .. Len(descr) : m <= n <=> m <= n - 1 \/ m = n
  OBVIOUS
<1>4. ~ (n <= n - 1)
  OBVIOUS
<1>5. \A m \in KeysTo(n - 1, id) : m \in 1 .. n - 1
  BY <1>1, <1>2 DEF KeysTo
<1>6. ASSUME IsKey(descr[n], id) PROVE KeysTo(n, id) = KeysTo(n - 1, id) \cup {n}
  <2>1. \A m : m \in KeysTo(n, id) <=> m \in KeysTo(n - 1, id) \cup {n}
    BY <1>2, <1>3, <1>6 DEF KeysTo
  <2> QED BY <2>1, Zenon
<1>7. ASSUME ~ IsKey(descr[n], id) PROVE KeysTo(n, id) = KeysTo(n - 1, id)
  <2>1. \A m : m \in KeysTo(n, id) <=> m \in KeysTo(n - 1, id)
    BY <1>2, <1>3, <1>7 DEF KeysTo
  <2> QED BY <2>1, Zenon
<1>8. n \notin KeysTo(n - 1, id)
  BY <1>4 DEF KeysTo
<1> QED BY <1>5, <1>6, <1>7, <1>8

LEMMA KeysCounted ==
    ASSUME Described, NEW n \in 1 .. Len(descr), NEW id
    PROVE  /\ Cardinality(KeysTo(n - 1, id)) \in Nat
           /\ IsKey(descr[n], id) => Cardinality(KeysTo(n, id)) = Cardinality(KeysTo(n - 1, id)) + 1
           /\ Hid!Rank(Hid!KeyFields(id), n) = Cardinality(KeysTo(n - 1, id))
           /\ (KeysTo(n - 1, id) = {} <=> Cardinality(KeysTo(n - 1, id)) = 0)
<1>1. IsFiniteSet(KeysTo(n - 1, id))
  <2>1. IsFiniteSet(1 .. n - 1)
    BY FS_Interval
  <2>2. KeysTo(n - 1, id) \subseteq 1 .. n - 1
    BY KeysMore
  <2> QED BY <2>1, <2>2, FS_Subset
<1>2. Cardinality(KeysTo(n - 1, id)) \in Nat
  BY <1>1, FS_CardinalityType
<1>3. ASSUME IsKey(descr[n], id) PROVE Cardinality(KeysTo(n, id)) = Cardinality(KeysTo(n - 1, id)) + 1
  <2>1. KeysTo(n, id) = KeysTo(n - 1, id) \cup {n} /\ n \notin KeysTo(n - 1, id)
    BY <1>3, KeysMore
  <2> QED BY <1>1, <2>1, FS_AddElement
<1>4. {w \in Hid!KeyFields(id) : w < n} = KeysTo(n - 1, id)
  <2>1. Hid!KeyFields(id) \subseteq 1 .. Len(descr)
    BY DEF Hid!KeyFields, Described
  <2>2. \A w \in 1 .. Len(descr) : w < n <=> w <= n - 1
    OBVIOUS
  <2>3. \A w \in Hid!KeyFields(id) : w < n <=> w <= n - 1
    BY <2>1, <2>2
  <2> HIDE DEF Hid!KeyFields
  <2> QED BY <2>3, Zenon DEF KeysTo
<1>5. Hid!Rank(Hid!KeyFields(id), n) = Cardinality(KeysTo(n - 1, id))
  BY <1>4, RankIs, Zenon
<1>6. KeysTo(n - 1, id) = {} <=> Cardinality(KeysTo(n - 1, id)) = 0
  BY <1>1, FS_EmptySet
<1> QED BY <1>2, <1>3, <1>5, <1>6

LEMMA HeardMore ==
    ASSUME Described, NEW n \in 1 .. Len(descr), NEW id
    PROVE  /\ n \in Hid!Heard(id) => HeardTo(n, id) = HeardTo(n - 1, id) \cup {n}
           /\ n \notin Hid!Heard(id) => HeardTo(n, id) = HeardTo(n - 1, id)
           /\ n \in Hid!Heard(id) <=> IsKey(descr[n], id) /\ Cardinality(KeysTo(n - 1, id)) < MaxFields
           /\ HeardTo(n - 1, id) \subseteq KeysTo(n - 1, id)
<1>1. DOMAIN descr = 1 .. Len(descr) /\ Len(descr) \in Nat
  BY DEF Described
<1>2. \A m : m \in Hid!KeyFields(id) <=> m \in 1 .. Len(descr) /\ IsKey(descr[m], id)
  BY <1>1, Zenon DEF Hid!KeyFields, IsKey
<1>3. \A m \in Hid!Heard(id) : m \in Hid!KeyFields(id)
  BY Zenon DEF Hid!Heard
<1>4. \A m \in Hid!Heard(id) : m <= n <=> m <= n - 1 \/ m = n
  BY <1>2, <1>3
<1>5. ASSUME n \in Hid!Heard(id) PROVE HeardTo(n, id) = HeardTo(n - 1, id) \cup {n}
  <2>1. \A m : m \in HeardTo(n, id) <=> m \in HeardTo(n - 1, id) \cup {n}
    BY <1>4, <1>5 DEF HeardTo
  <2> QED BY <2>1, Zenon
<1>6. ASSUME n \notin Hid!Heard(id) PROVE HeardTo(n, id) = HeardTo(n - 1, id)
  <2>1. \A m : m \in HeardTo(n, id) <=> m \in HeardTo(n - 1, id)
    BY <1>4, <1>6 DEF HeardTo
  <2> QED BY <2>1, Zenon
<1>7. n \in Hid!Heard(id) <=> IsKey(descr[n], id) /\ Cardinality(KeysTo(n - 1, id)) < MaxFields
  <2>1. Hid!Rank(Hid!KeyFields(id), n) = Cardinality(KeysTo(n - 1, id))
    BY KeysCounted
  <2> QED BY <1>2, <2>1, Zenon DEF Hid!Heard
<1>8. HeardTo(n - 1, id) \subseteq KeysTo(n - 1, id)
  BY <1>3, Zenon DEF HeardTo, KeysTo
<1> QED BY <1>5, <1>6, <1>7, <1>8

(* What is said with one more field that is heard, or is not. *)
LEMMA MeansMore ==
    ASSUME Described, NEW n \in 1 .. Len(descr), NEW id, NEW heldKeys, n \in Hid!Heard(id), NEW o, NEW o2, NEW c \in Nat,
           Means(n - 1, id, heldKeys, o, c),
           Took(WithMods(o, descr[n].kind \in ModKinds), o2, Says(descr[n], heldKeys), 3)
    PROVE  Means(n, id, heldKeys, o2, c + 1)
<1> DEFINE b == descr[n].kind \in ModKinds
           S == Says(descr[n], heldKeys)
           T == SaidTo(n - 1, id, heldKeys)
           w == WithMods(o, b)
<1>1. /\ o \in Decoded /\ o.mods = T \cap Hid!Modifiers /\ Hid!ToSet(o.keys) = T \cap Hid!Plain
      /\ o.rollover = (1 \in T) /\ o.hasMods = ModsTo(n - 1, id) /\ Len(o.keys) <= 3 * c
  BY Zenon DEF Means
<1>2. b \in BOOLEAN
  OBVIOUS
<1>3. /\ w.mods = o.mods /\ w.keys = o.keys /\ w.rollover = o.rollover /\ w.hasMods = (o.hasMods \/ b)
  <2> HIDE DEF b
  <2> QED BY <1>1, <1>2, WithModsIs
<1>4. /\ o2 \in Decoded /\ o2.mods = w.mods \cup (S \cap Hid!Modifiers)
      /\ Hid!ToSet(o2.keys) = Hid!ToSet(w.keys) \cup (S \cap Hid!Plain) /\ Len(o2.keys) <= Len(w.keys) + 3
      /\ o2.hasMods = w.hasMods /\ o2.rollover = (w.rollover \/ 1 \in S)
  BY Zenon DEF Took
<1>5. HeardTo(n, id) = HeardTo(n - 1, id) \cup {n}
  BY HeardMore
<1>6. SaidTo(n, id, heldKeys) = T \cup S
  <2>1. \A u : u \in SaidTo(n, id, heldKeys) <=> \E m \in HeardTo(n, id) : u \in Says(descr[m], heldKeys)
    BY Zenon DEF SaidTo
  <2>2. \A u : u \in T <=> \E m \in HeardTo(n - 1, id) : u \in Says(descr[m], heldKeys)
    BY Zenon DEF SaidTo
  <2> HIDE DEF T
  <2>3. \A u : u \in SaidTo(n, id, heldKeys) <=> u \in T \cup S
    BY <1>5, <2>1, <2>2, Zenon
  <2> QED BY <2>3, Zenon
<1>7. ModsTo(n, id) = (ModsTo(n - 1, id) \/ b)
  BY <1>5, Zenon DEF ModsTo
<1> DEFINE U == SaidTo(n, id, heldKeys)
<1> HIDE DEF b, S, T, w, U
<1>8. o2.mods = U \cap Hid!Modifiers /\ Hid!ToSet(o2.keys) = U \cap Hid!Plain
  <2>1. o2.mods = (T \cap Hid!Modifiers) \cup (S \cap Hid!Modifiers) /\ Hid!ToSet(o2.keys) = (T \cap Hid!Plain) \cup (S \cap Hid!Plain)
    BY <1>1, <1>3, <1>4, Zenon
  <2>2. U = T \cup S
    BY <1>6 DEF U
  <2> HIDE DEF Means, Took
  <2> QED BY <2>1, <2>2
<1>9. o2.rollover = (1 \in U)
  <2>1. U = T \cup S
    BY <1>6 DEF U
  <2>2. o2.rollover = (1 \in T \/ 1 \in S)
    BY <1>1, <1>3, <1>4, Zenon
  <2>3. (1 \in U) = (1 \in T \/ 1 \in S)
    BY <2>1
  <2> QED BY <2>2, <2>3, Zenon
<1>10. o2.hasMods = ModsTo(n, id)
  BY <1>1, <1>3, <1>4, <1>7, Zenon
<1>11. Len(o2.keys) <= 3 * (c + 1)
  <2>1. Len(o.keys) \in Nat /\ Len(o2.keys) \in Nat
    BY <1>1, <1>4 DEF Decoded
  <2>2. Len(o2.keys) <= Len(o.keys) + 3
    BY <1>3, <1>4, Zenon
  <2> QED BY <1>1, <2>1, <2>2
<1> QED BY <1>4, <1>8, <1>9, <1>10, <1>11, Zenon DEF Means, U

LEMMA MeansSame ==
    ASSUME Described, NEW n \in 1 .. Len(descr), NEW id, NEW heldKeys, n \notin Hid!Heard(id), NEW o, NEW c,
           Means(n - 1, id, heldKeys, o, c)
    PROVE  Means(n, id, heldKeys, o, c)
<1>1. HeardTo(n, id) = HeardTo(n - 1, id)
  BY HeardMore
<1>2. SaidTo(n, id, heldKeys) = SaidTo(n - 1, id, heldKeys) /\ ModsTo(n, id) = ModsTo(n - 1, id)
  BY <1>1, Zenon DEF SaidTo, ModsTo
<1> QED BY <1>2, Zenon DEF Means

LEMMA MeansNothing ==
    ASSUME NEW n, NEW id, NEW heldKeys, HeardTo(n, id) = {}
    PROVE  Means(n, id, heldKeys, Hid!Nothing, 0)
<1>1. SaidTo(n, id, heldKeys) = {}
  BY Zenon DEF SaidTo
<1>2. ModsTo(n, id) = FALSE
  BY Zenon DEF ModsTo
<1>3. Hid!Nothing.mods = {} /\ Hid!Nothing.keys = << >> /\ Hid!Nothing.hasMods = FALSE /\ Hid!Nothing.rollover = FALSE
  BY DEF Hid!Nothing
<1>4. Hid!Nothing \in Decoded
  BY DEF Hid!Nothing, Decoded
<1>5. Hid!ToSet(<< >>) = {} /\ Len(<< >>) = 0
  BY DEF Hid!ToSet
<1>6. Len(Hid!Nothing.keys) <= 3 * 0
  BY <1>3, <1>5
<1>7. Hid!ToSet(Hid!Nothing.keys) = {} /\ {} \cap Hid!Plain = {} /\ {} \cap Hid!Modifiers = {} /\ FALSE = (1 \in {})
  BY <1>3, <1>5
<1> QED BY <1>1, <1>2, <1>3, <1>4, <1>6, <1>7, Zenon DEF Means

FieldSet == {FieldFor(kind, bit) : kind \in Hid!KeyKinds, bit \in Nat}

(* What is read of the report so far, in these fields, is what they say. *)
Reads(n, id, fs) ==
    \A heldKeys \in Hid!HeldSets : \A rep, data, h :
        Grows(id, heldKeys, rep) /\ Extends(data, rep[n]) /\ Runs("fields", data, 0, Hid!Nothing, fs, Len(fs), h)
          => Means(n, id, heldKeys, h[Len(fs)], Len(fs))

(* The fields of a layout are typed, and read what they said before. *)
LEMMA InFieldSet ==
    ASSUME NEW kind \in Hid!KeyKinds, NEW bit \in Nat PROVE FieldFor(kind, bit) \in FieldSet
<1>1. \E k \in Hid!KeyKinds, b \in Nat : FieldFor(kind, bit) = FieldFor(k, b)
  OBVIOUS
<1> QED BY <1>1 DEF FieldSet

LEMMA OffsetIsTyped ==
    ASSUME Described, NEW n, NEW of, Placed(n, of), NEW id \in 0 .. 2
    PROVE  OffsetIn(of, id) \in Nat
<1>1. {} \in Hid!HeldSets
  <2>1. {} \in SUBSET Hid!Codes /\ {} \in {{}, {224, 231}} /\ {} \cup {} = {}
    OBVIOUS
  <2>2. \E k \in SUBSET Hid!Codes, m \in {{}, {224, 231}} : {} = k \cup m
    BY <2>1, Zenon
  <2> QED BY <2>2 DEF Hid!HeldSets
<1>2. Len(descr) \in Nat /\ DOMAIN descr = 1 .. Len(descr)
  BY DEF Described
<1>3. RunsTo("report", id, {}, << >>, descr, Len(descr), Hid!Report(id, {}))
  BY <1>2, ReportRuns
<1>4. PICK rep : Grows(id, {}, rep)
  BY <1>3, Zenon DEF RunsTo, Grows
<1>5. rep[n] \in Seq(BOOLEAN) /\ Len(rep[n]) = OffsetIn(of, id)
  BY <1>1, <1>4, Zenon DEF Placed, Sits
<1> DEFINE s == rep[n]
<1> HIDE DEF s
<1>6. s \in Seq(BOOLEAN) => Len(s) \in Nat
  OBVIOUS
<1> QED BY <1>5, <1>6 DEF s

LEMMA ReadsSame ==
    ASSUME Described, NEW n \in 1 .. Len(descr), NEW id \in 0 .. 2, NEW of, Placed(n - 1, of),
           n \notin Hid!Heard(id), NEW fs, Reads(n - 1, id, fs)
    PROVE  Reads(n, id, fs)
<1>1. ASSUME NEW heldKeys \in Hid!HeldSets, NEW rep, NEW data, NEW h, Grows(id, heldKeys, rep), Extends(data, rep[n]),
             Runs("fields", data, 0, Hid!Nothing, fs, Len(fs), h)
      PROVE  Means(n, id, heldKeys, h[Len(fs)], Len(fs))
  <2>1. Extends(data, rep[n - 1])
    BY <1>1, ExtendsBefore
  <2>2. Means(n - 1, id, heldKeys, h[Len(fs)], Len(fs))
    BY <1>1, <2>1, Zenon DEF Reads
  <2> QED BY <2>2, MeansSame
<1> QED BY <1>1, Zenon DEF Reads

LEMMA ReadsMore ==
    ASSUME Described, NEW n \in 1 .. Len(descr), NEW id \in 0 .. 2, NEW of, Placed(n - 1, of),
           n \in Hid!Heard(id), NEW fs \in Seq(FieldSet), Len(fs) < MaxFields, Reads(n - 1, id, fs)
    PROVE  Reads(n, id, Append(fs, FieldFor(descr[n].kind, OffsetIn(of, id))))
<1> DEFINE f == descr[n]
           bit == OffsetIn(of, id)
           x == FieldFor(f.kind, bit)
           t == Append(fs, x)
           L == Len(fs)
<1>1. f.kind \in Hid!KeyKinds /\ f.id = id /\ ~ Hid!Kinds[f.kind].output
  <2>1. IsKey(f, id)
    BY HeardMore
  <2>2. f.kind \in Hid!KeyKinds /\ f.id = id
    BY <2>1, Zenon DEF IsKey
  <2>3. Hid!Kinds[f.kind].output = FALSE
    <3> HIDE DEF f
    <3>1. \A kind \in Hid!KeyKinds : Hid!Kinds[kind].output = FALSE
      BY KindsAre DEF Hid!KeyKinds
    <3> QED BY <2>2, <3>1
  <2> QED BY <2>2, <2>3
<1>2. bit \in Nat
  BY OffsetIsTyped
<1>3. L \in Nat /\ Len(t) = L + 1 /\ t[L + 1] = x /\ \A i \in 1 .. L : t[i] = fs[i]
  <2>1. x \in FieldSet
    BY <1>1, <1>2, InFieldSet
  <2> HIDE DEF x
  <2> QED BY <2>1
<1>4. ASSUME NEW heldKeys \in Hid!HeldSets, NEW rep, NEW data, NEW h, Grows(id, heldKeys, rep), Extends(data, rep[n]),
             Runs("fields", data, 0, Hid!Nothing, t, Len(t), h)
      PROVE  Means(n, id, heldKeys, h[Len(t)], Len(t))
  <2>1. Extends(data, rep[n - 1]) /\ Carries(data, bit, f, heldKeys)
    BY <1>1, <1>4, ExtendsBefore
  <2>2. h[0] = Hid!Nothing /\ \A i \in 1 .. L + 1 : h[i] = Hid!ReadField(data, h[i - 1], t[i])
    BY <1>3, <1>4, Zenon DEF Runs, LoopStep
  <2>3. Runs("fields", data, 0, Hid!Nothing, fs, L, h)
    <3>1. \A i \in 1 .. L : i \in 1 .. L + 1
      BY <1>3
    <3>2. \A i \in 1 .. L : h[i] = Hid!ReadField(data, h[i - 1], fs[i])
      BY <1>3, <2>2, <3>1, Zenon
    <3> QED BY <2>2, <3>2, Zenon DEF Runs, LoopStep
  <2>4. Means(n - 1, id, heldKeys, h[L], L)
    BY <1>4, <2>1, <2>3, Zenon DEF Reads
  <2>5. h[L + 1] = Hid!ReadField(data, h[L], x)
    <3>1. L + 1 \in 1 .. L + 1 /\ (L + 1) - 1 = L
      BY <1>3
    <3> HIDE DEF x, t, L
    <3> QED BY <1>3, <2>2, <3>1
  <2>6. h[L] \in Decoded /\ Len(h[L].keys) <= 3 * L
    BY <2>4, Zenon DEF Means
  <2>7. Len(h[L].keys) + 3 <= MaxKeys
    <3>1. Len(h[L].keys) \in Nat
      BY <2>6 DEF Decoded
    <3>2. L < MaxFields /\ MaxFields \in Nat /\ 3 * MaxFields <= MaxKeys /\ MaxKeys \in Nat
      BY HidAssumption
    <3> DEFINE z == Len(h[L].keys)
    <3> HIDE DEF z, L
    <3>3. z \in Nat /\ z <= 3 * L
      BY <2>6, <3>1 DEF z
    <3>4. z + 3 <= MaxKeys
      BY <1>3, <3>2, <3>3
    <3> QED BY <3>4 DEF z
  <2>8. Readable(f, heldKeys, data, bit, h[L])
    BY <1>1, <1>2, <2>1, <2>6, <2>7, Zenon DEF Readable
  <2>9. Took(WithMods(h[L], f.kind \in ModKinds), h[L + 1], Says(f, heldKeys), 3)
    <3>1. Took(WithMods(h[L], f.kind \in ModKinds), Hid!ReadField(data, h[L], FieldFor(f.kind, bit)), Says(f, heldKeys), 3)
      BY <2>8, FieldRead
    <3> QED BY <2>5, <3>1, Zenon
  <2>10. Means(n, id, heldKeys, h[L + 1], L + 1)
    BY <1>3, <2>4, <2>9, MeansMore
  <2> QED BY <1>3, <2>10, Zenon
<1> HIDE DEF t
<1>5. Reads(n, id, t)
  BY <1>4, Zenon DEF Reads
<1> QED BY <1>5 DEF t, x, bit, f

-----------------------------------------------------------------------------
(* The layouts. *)
Layout == [id : 0 .. 2, fields : Seq(FieldSet)]
Full(n, id, fs) ==
    /\ fs \in Seq(FieldSet)
    /\ Len(fs) = (IF Cardinality(KeysTo(n, id)) < MaxFields THEN Cardinality(KeysTo(n, id)) ELSE MaxFields)
    /\ Reads(n, id, fs)

(* A layout with one more field of its report, with another's, or new. *)
LEMMA FullSame ==
    ASSUME Described, NEW n \in 1 .. Len(descr), NEW id \in 0 .. 2, NEW of, Placed(n - 1, of),
           ~ IsKey(descr[n], id), NEW fs, Full(n - 1, id, fs)
    PROVE  Full(n, id, fs)
<1>1. KeysTo(n, id) = KeysTo(n - 1, id) /\ n \notin Hid!Heard(id)
  BY KeysMore, HeardMore
<1>2. Reads(n, id, fs)
  <2>1. Reads(n - 1, id, fs)
    BY Zenon DEF Full
  <2> QED BY <1>1, <2>1, ReadsSame
<1> QED BY <1>1, <1>2, Zenon DEF Full

LEMMA FullMore ==
    ASSUME Described, NEW n \in 1 .. Len(descr), NEW id \in 0 .. 2, NEW of, Placed(n - 1, of),
           IsKey(descr[n], id), NEW fs, Full(n - 1, id, fs)
    PROVE  /\ Len(fs) < MaxFields => Full(n, id, Append(fs, FieldFor(descr[n].kind, OffsetIn(of, id))))
           /\ ~ (Len(fs) < MaxFields) => Full(n, id, fs)
<1> DEFINE C == Cardinality(KeysTo(n - 1, id))
           D == Cardinality(KeysTo(n, id))
           x == FieldFor(descr[n].kind, OffsetIn(of, id))
<1>1. fs \in Seq(FieldSet) /\ Len(fs) = (IF C < MaxFields THEN C ELSE MaxFields) /\ Reads(n - 1, id, fs)
  BY Zenon DEF Full
<1>2. C \in Nat /\ D = C + 1 /\ MaxFields \in Nat
  BY KeysCounted, HidAssumption
<1>3. n \in Hid!Heard(id) <=> C < MaxFields
  BY HeardMore
<1>4. x \in FieldSet
  <2>1. OffsetIn(of, id) \in Nat
    BY OffsetIsTyped
  <2> QED BY <2>1, InFieldSet, Zenon DEF IsKey
<1>5. ASSUME Len(fs) < MaxFields PROVE Full(n, id, Append(fs, x))
  <2>1. C < MaxFields /\ Len(fs) = C
    <3> HIDE DEF C
    <3> QED BY <1>1, <1>2, <1>5
  <2>2. n \in Hid!Heard(id)
    BY <1>3, <2>1
  <2>3. Reads(n, id, Append(fs, x))
    BY <1>1, <1>5, <2>2, ReadsMore
  <2>4. Append(fs, x) \in Seq(FieldSet) /\ Len(Append(fs, x)) = Len(fs) + 1
    <3> HIDE DEF x
    <3> QED BY <1>1, <1>4
  <2>5. Len(Append(fs, x)) = (IF D < MaxFields THEN D ELSE MaxFields)
    <3> HIDE DEF C, D, x
    <3> QED BY <1>2, <2>1, <2>4
  <2> QED BY <2>3, <2>4, <2>5, Zenon DEF Full
<1>6. ASSUME ~ (Len(fs) < MaxFields) PROVE Full(n, id, fs)
  <2>1. ~ (C < MaxFields) /\ Len(fs) = MaxFields
    <3> HIDE DEF C
    <3> QED BY <1>1, <1>2, <1>6
  <2>2. n \notin Hid!Heard(id)
    BY <1>3, <2>1
  <2>3. Reads(n, id, fs)
    BY <1>1, <2>2, ReadsSame
  <2>4. ~ (D < MaxFields)
    <3> HIDE DEF C, D
    <3> QED BY <1>2, <2>1
  <2>5. Len(fs) = (IF D < MaxFields THEN D ELSE MaxFields)
    BY <2>1, <2>4, Zenon
  <2> QED BY <1>1, <2>3, <2>5, Zenon DEF Full
<1> QED BY <1>5, <1>6

LEMMA FullFirst ==
    ASSUME Described, NEW n \in 1 .. Len(descr), NEW id \in 0 .. 2, NEW of, Placed(n - 1, of),
           IsKey(descr[n], id), KeysTo(n - 1, id) = {}
    PROVE  Full(n, id, <<FieldFor(descr[n].kind, OffsetIn(of, id))>>)
<1> DEFINE x == FieldFor(descr[n].kind, OffsetIn(of, id))
           e == << >>
<1>1. Cardinality(KeysTo(n - 1, id)) = 0 /\ HeardTo(n - 1, id) = {}
  BY KeysCounted, HeardMore
<1>2. e \in Seq(FieldSet) /\ Len(e) = 0 /\ 0 < MaxFields
  BY HidAssumption
<1>3. Reads(n - 1, id, e)
  <2> SUFFICES ASSUME NEW heldKeys \in Hid!HeldSets, NEW h, h[0] = Hid!Nothing PROVE Means(n - 1, id, heldKeys, h[0], 0)
    BY <1>2, Zenon DEF Reads, Runs
  <2>1. Means(n - 1, id, heldKeys, Hid!Nothing, 0)
    BY <1>1, MeansNothing
  <2> QED BY <2>1, Zenon
<1>4. Full(n - 1, id, e)
  BY <1>1, <1>2, <1>3, Zenon DEF Full
<1> HIDE DEF e
<1>5. Full(n, id, Append(e, x))
  BY <1>2, <1>4, FullMore
<1>6. Append(e, x) = <<x>>
  BY DEF e
<1> QED BY <1>5, <1>6, Zenon DEF x

(* One layout for each report that has keys. *)
HasLayout(ou, id) == \E k \in DOMAIN ou : ou[k].id = id
Laid(n, ou) ==
    /\ ou \in Seq(Layout)
    /\ \A j, k \in DOMAIN ou : ou[j].id = ou[k].id => j = k
    /\ \A id \in 0 .. 2 : HasLayout(ou, id) <=> KeysTo(n, id) # {}
    /\ \A k \in DOMAIN ou : Full(n, ou[k].id, ou[k].fields)

(* Layouts are typed. *)
LEMMA LayoutIsTyped ==
    ASSUME NEW ou \in Seq(Layout), NEW k \in DOMAIN ou
    PROVE  ou[k].id \in 0 .. 2 /\ ou[k].fields \in Seq(FieldSet) /\ ou[k] = [id |-> ou[k].id, fields |-> ou[k].fields]
<1>1. ou[k] \in Layout
  <2> HIDE DEF Layout
  <2> QED OBVIOUS
<1> DEFINE x == ou[k]
<1> HIDE DEF x
<1>2. x \in [id : 0 .. 2, fields : Seq(FieldSet)]
  BY <1>1 DEF x, Layout
<1>3. x.id \in 0 .. 2 /\ x.fields \in Seq(FieldSet) /\ x = [id |-> x.id, fields |-> x.fields]
  BY <1>2
<1> QED BY <1>3 DEF x

(* There is room for a layout that is not there yet: with ids there are two at most, and one without. *)
LEMMA RoomForLayout ==
    ASSUME Described, NEW n \in 1 .. Len(descr), NEW ou, Laid(n - 1, ou), ~ HasLayout(ou, descr[n].id)
    PROVE  Len(ou) < MaxReports
<1> DEFINE D == DOMAIN descr
<1>1. ou \in Seq(Layout) /\ \A j, k \in DOMAIN ou : ou[j].id = ou[k].id => j = k
  BY Zenon DEF Laid
<1>2. Len(ou) \in Nat /\ DOMAIN ou = 1 .. Len(ou)
  BY <1>1
<1>3. n \in D /\ descr[n].id \in 0 .. 2
  <2>1. D = 1 .. Len(descr)
    BY DEF Described
  <2> QED BY <2>1, FieldIsTyped
<1>4. ASSUME NEW k \in DOMAIN ou
      PROVE  ou[k].id \in 0 .. 2 /\ ou[k].id # descr[n].id /\ (descr[n].id = 0 <=> ou[k].id = 0)
  <2>1. ou[k].id \in 0 .. 2
    BY <1>1, LayoutIsTyped
  <2>2. ou[k].id # descr[n].id
    BY Zenon DEF HasLayout
  <2>3. KeysTo(n - 1, ou[k].id) # {}
    BY <2>1, Zenon DEF Laid, HasLayout
  <2>4. PICK m : m \in KeysTo(n - 1, ou[k].id)
    BY <2>3
  <2>5. m \in D /\ descr[m].id = ou[k].id
    BY <2>4, Zenon DEF KeysTo, Hid!KeyFields
  <2>6. (\A i \in D : descr[i].id = 0) \/ (\A i \in D : descr[i].id # 0)
    BY Zenon DEF Described
  <2>7. descr[n].id = 0 <=> ou[k].id = 0
    BY <1>3, <2>5, <2>6, Zenon
  <2> QED BY <2>1, <2>2, <2>7
<1>5. ASSUME Len(ou) >= 2 PROVE FALSE
  <2>1. 1 \in DOMAIN ou /\ 2 \in DOMAIN ou /\ 1 # 2
    BY <1>2, <1>5
  <2>2. ou[1].id # ou[2].id
    BY <1>1, <2>1, Zenon
  <2> DEFINE a == ou[1].id
             b == ou[2].id
             c == descr[n].id
  <2>3. /\ a \in 0 .. 2 /\ a # c /\ (c = 0 <=> a = 0)
        /\ b \in 0 .. 2 /\ b # c /\ (c = 0 <=> b = 0)
    BY <1>4, <2>1
  <2> HIDE DEF a, b, c
  <2>4. a # b /\ c \in 0 .. 2
    BY <1>3, <2>2 DEF a, b, c
  <2> QED BY <2>3, <2>4
<1> QED BY <1>2, <1>5, HidAssumption

(* The layouts are those of the fields so far, whatever the next one is. *)
LEMMA LaidNext ==
    ASSUME Described, NEW n \in 1 .. Len(descr), NEW of, Placed(n - 1, of), NEW ou, Laid(n - 1, ou)
    PROVE  Laid(n, TakenIn(ou, of, descr[n]))
<1> DEFINE f == descr[n]
           x == FieldFor(f.kind, OffsetIn(of, f.id))
<1>1. /\ ou \in Seq(Layout) /\ \A j, k \in DOMAIN ou : ou[j].id = ou[k].id => j = k
      /\ \A id \in 0 .. 2 : HasLayout(ou, id) <=> KeysTo(n - 1, id) # {}
      /\ \A k \in DOMAIN ou : Full(n - 1, ou[k].id, ou[k].fields)
  BY Zenon DEF Laid
<1>2. f.kind \in DOMAIN Hid!Kinds /\ f.id \in 0 .. 2
  BY FieldIsTyped
<1>3. Len(ou) \in Nat /\ DOMAIN ou = 1 .. Len(ou)
  BY <1>1
<1>4. \A k \in DOMAIN ou : ou[k].id \in 0 .. 2 /\ ou[k].fields \in Seq(FieldSet)
                           /\ ou[k] = [id |-> ou[k].id, fields |-> ou[k].fields]
  BY <1>1, LayoutIsTyped
<1>5. CASE f.kind \notin Hid!KeyKinds
  <2>1. \A id : ~ IsKey(f, id)
    BY <1>5, Zenon DEF IsKey
  <2>2. TakenIn(ou, of, f) = ou
    BY <1>5, Zenon DEF TakenIn, NextOut
  <2>3. \A id : KeysTo(n, id) = KeysTo(n - 1, id)
    BY <2>1, KeysMore
  <2>4. ASSUME NEW k \in DOMAIN ou PROVE Full(n, ou[k].id, ou[k].fields)
    <3>1. ~ IsKey(f, ou[k].id) /\ Full(n - 1, ou[k].id, ou[k].fields) /\ ou[k].id \in 0 .. 2
      BY <1>1, <1>4, <2>1
    <3> QED BY <3>1, FullSame
  <2>5. Laid(n, ou)
    BY <1>1, <2>3, <2>4, Zenon DEF Laid
  <2> QED BY <2>2, <2>5
<1>6. CASE f.kind \in Hid!KeyKinds
  <2>1. TakenIn(ou, of, f) = Hid!Kept(ou, f.id, x)
    <3>1. \A kind \in Hid!KeyKinds : Hid!Kinds[kind].output = FALSE
      BY KindsAre DEF Hid!KeyKinds
    <3>2. Hid!Kinds[f.kind].output = FALSE
      <4> HIDE DEF f
      <4> QED BY <1>6, <3>1
    <3> QED BY <1>6, <3>2, Zenon DEF TakenIn, NextOut
  <2>2. \A id : IsKey(f, id) <=> id = f.id
    BY <1>6, Zenon DEF IsKey
  <2>3. \A id : id # f.id => KeysTo(n, id) = KeysTo(n - 1, id)
    BY <2>2, KeysMore
  <2>4. KeysTo(n, f.id) # {}
    <3>1. KeysTo(n, f.id) = KeysTo(n - 1, f.id) \cup {n}
      BY <2>2, KeysMore
    <3> QED BY <3>1
  <2>5. x \in FieldSet
    <3>1. OffsetIn(of, f.id) \in Nat
      BY <1>2, OffsetIsTyped
    <3> HIDE DEF f
    <3> QED BY <1>6, <3>1, InFieldSet
  <2>6. ASSUME NEW k \in DOMAIN ou, ou[k].id # f.id PROVE Full(n, ou[k].id, ou[k].fields)
    <3>1. ~ IsKey(f, ou[k].id) /\ Full(n - 1, ou[k].id, ou[k].fields) /\ ou[k].id \in 0 .. 2
      BY <1>1, <1>4, <2>2, <2>6
    <3> QED BY <3>1, FullSame
  <2>7. CASE HasLayout(ou, f.id)
    <3> DEFINE g == [k \in DOMAIN ou |->
                       IF ou[k].id = f.id /\ Len(ou[k].fields) < MaxFields
                       THEN [ou[k] EXCEPT !.fields = Append(@, x)] ELSE ou[k]]
    <3>1. Hid!Kept(ou, f.id, x) = g
      BY <2>7, Zenon DEF Hid!Kept, HasLayout
    <3>2. ASSUME NEW k \in DOMAIN ou
          PROVE  g[k] \in Layout /\ g[k].id = ou[k].id /\ Full(n, g[k].id, g[k].fields)
      <4> DEFINE y == ou[k]
                 fs == ou[k].fields
                 i == ou[k].id
      <4>1. i \in 0 .. 2 /\ fs \in Seq(FieldSet) /\ y = [id |-> i, fields |-> fs]
        BY <1>4
      <4>2. CASE i # f.id
        <5>1. g[k] = y
          BY <4>2, Zenon
        <5>2. Full(n, i, fs)
          BY <2>6, <4>2
        <5>3. y \in Layout
          <6> HIDE DEF y, i, fs
          <6> QED BY <4>1 DEF Layout
        <5> QED BY <5>1, <5>2, <5>3, Zenon
      <4>3. CASE i = f.id /\ ~ (Len(fs) < MaxFields)
        <5>1. g[k] = y
          BY <4>3, Zenon
        <5>2. Full(n, i, fs)
          <6>1. IsKey(f, i) /\ Full(n - 1, i, fs)
            BY <1>1, <2>2, <4>3
          <6> QED BY <4>1, <4>3, <6>1, FullMore
        <5>3. y \in Layout
          <6> HIDE DEF y, i, fs
          <6> QED BY <4>1 DEF Layout
        <5> QED BY <5>1, <5>2, <5>3, Zenon
      <4>4. CASE i = f.id /\ Len(fs) < MaxFields
        <5> DEFINE z == [y EXCEPT !.fields = Append(@, x)]
        <5>1. g[k] = z
          BY <4>4, Zenon
        <5>2. Full(n, i, Append(fs, x))
          <6>1. IsKey(f, i) /\ Full(n - 1, i, fs)
            BY <1>1, <2>2, <4>4
          <6>2. Full(n, i, Append(fs, FieldFor(descr[n].kind, OffsetIn(of, i))))
            BY <4>1, <4>4, <6>1, FullMore
          <6> QED BY <4>4, <6>2, Zenon
        <5>3. z \in Layout /\ z.id = i /\ z.fields = Append(fs, x)
          <6> HIDE DEF y, i, fs, x
          <6>1. z = [id |-> i, fields |-> Append(fs, x)]
            <7>1. PICK w : w = Append(fs, x)
              OBVIOUS
            <7>2. y.fields = fs
              BY <4>1
            <7>3. z = [y EXCEPT !.fields = w]
              BY <7>1, <7>2, Zenon
            <7>4. [y EXCEPT !.fields = w] = [id |-> i, fields |-> w]
              BY <4>1
            <7> QED BY <7>1, <7>3, <7>4, Zenon
          <6>2. Append(fs, x) \in Seq(FieldSet)
            BY <2>5, <4>1
          <6> QED BY <4>1, <6>1, <6>2 DEF Layout
        <5> HIDE DEF z
        <5> QED BY <5>1, <5>2, <5>3, Zenon
      <4> QED BY <4>2, <4>3, <4>4
    <3>3. DOMAIN g = DOMAIN ou
      BY Zenon
    <3> HIDE DEF g
    <3>4. g \in Seq(Layout)
      <4>1. g = [k \in 1 .. Len(ou) |-> g[k]]
        BY <1>3, Zenon DEF g
      <4>2. \A k \in 1 .. Len(ou) : g[k] \in Layout
        BY <1>3, <3>2
      <4> HIDE DEF Layout
      <4> QED BY <1>3, <4>1, <4>2
    <3>5. \A j, k \in DOMAIN g : g[j].id = g[k].id => j = k
      BY <1>1, <3>2, <3>3, Zenon
    <3>6. ASSUME NEW id \in 0 .. 2 PROVE HasLayout(g, id) <=> KeysTo(n, id) # {}
      <4>1. HasLayout(g, id) <=> HasLayout(ou, id)
        BY <3>2, <3>3, Zenon DEF HasLayout
      <4> QED BY <1>1, <2>3, <2>4, <2>7, <4>1, Zenon
    <3>7. Laid(n, g)
      BY <3>2, <3>3, <3>4, <3>5, <3>6, Zenon DEF Laid
    <3> QED BY <2>1, <3>1, <3>7
  <2>8. CASE ~ HasLayout(ou, f.id)
    <3> DEFINE y == [id |-> f.id, fields |-> <<x>>]
               g == Append(ou, y)
               L == Len(ou)
    <3>1. Hid!Kept(ou, f.id, x) = g
      <4>1. L # MaxReports
        <5>1. L < MaxReports
          BY <2>8, RoomForLayout
        <5>2. L \in Nat /\ MaxReports \in Nat
          BY <1>3, HidAssumption
        <5> HIDE DEF L
        <5> QED BY <5>1, <5>2
      <4> QED BY <2>8, <4>1, Zenon DEF Hid!Kept, HasLayout
    <3>2. y \in Layout /\ y.id = f.id /\ y.fields = <<x>>
      <4> HIDE DEF x, f
      <4> QED BY <1>2, <2>5 DEF Layout
    <3>3. g \in Seq(Layout) /\ DOMAIN g = 1 .. L + 1 /\ g[L + 1] = y /\ \A k \in 1 .. L : g[k] = ou[k]
      <4> HIDE DEF y, Layout
      <4> QED BY <1>1, <3>2
    <3>4. \A k \in 1 .. L + 1 : k \in 1 .. L \/ k = L + 1
      BY <1>3
    <3>5. \A k \in 1 .. L : k \in 1 .. L + 1 /\ k # L + 1
      BY <1>3
    <3>6. L + 1 \in 1 .. L + 1
      BY <1>3
    <3>7. \A k \in 1 .. L : ou[k].id # f.id
      BY <1>3, <2>8, Zenon DEF HasLayout
    <3> HIDE DEF g, y
    <3>8. ASSUME NEW k \in DOMAIN g PROVE Full(n, g[k].id, g[k].fields)
      <4>1. CASE k \in 1 .. L
        <5>1. Full(n, ou[k].id, ou[k].fields)
          BY <1>3, <2>6, <3>7, <4>1
        <5> QED BY <3>3, <4>1, <5>1, Zenon
      <4>2. CASE k = L + 1
        <5>1. IsKey(f, f.id) /\ KeysTo(n - 1, f.id) = {}
          BY <1>1, <1>2, <2>2, <2>8
        <5>2. Full(n, f.id, <<x>>)
          BY <1>2, <5>1, FullFirst
        <5> QED BY <3>2, <3>3, <4>2, <5>2, Zenon
      <4> QED BY <3>3, <3>4, <4>1, <4>2
    <3>9. ASSUME NEW j \in DOMAIN g, NEW k \in DOMAIN g, g[j].id = g[k].id PROVE j = k
      <4>1. j \in 1 .. L \/ j = L + 1
        BY <3>3, <3>4
      <4>2. k \in 1 .. L \/ k = L + 1
        BY <3>3, <3>4
      <4> HIDE DEF L
      <4> QED BY <1>1, <1>3, <3>2, <3>3, <3>7, <3>9, <4>1, <4>2, Zenon DEF L
    <3>10. ASSUME NEW id \in 0 .. 2 PROVE HasLayout(g, id) <=> KeysTo(n, id) # {}
      <4>1. CASE id = f.id
        <5>1. HasLayout(g, id)
          BY <3>2, <3>3, <3>6, <4>1, Zenon DEF HasLayout
        <5> QED BY <2>4, <4>1, <5>1, Zenon
      <4>2. CASE id # f.id
        <5>1. HasLayout(g, id) <=> HasLayout(ou, id)
          <6>1. HasLayout(ou, id) => HasLayout(g, id)
            BY <1>3, <3>3, <3>5, Zenon DEF HasLayout
          <6>2. HasLayout(g, id) => HasLayout(ou, id)
            BY <1>3, <3>2, <3>3, <3>4, <4>2, Zenon DEF HasLayout
          <6> QED BY <6>1, <6>2
        <5> QED BY <1>1, <2>3, <4>2, <5>1, Zenon
      <4> QED BY <4>1, <4>2
    <3>11. Laid(n, g)
      BY <3>3, <3>8, <3>9, <3>10, Zenon DEF Laid
    <3> QED BY <2>1, <3>1, <3>11
  <2> QED BY <2>7, <2>8
<1> QED BY <1>5, <1>6

Come(n, acc) == \E of, ou : Reaches(acc, of, ou) /\ Placed(n, of) /\ Laid(n, ou)
Finished == \E of : Placed(Len(descr), of) /\ Laid(Len(descr), Hid!Parsed(Hid!Map))

(* The map, a field at a time, and at its end. *)
LEMMA ComeFirst ==
    ASSUME Described PROVE Come(0, Hid!Blank)
<1> DEFINE of == [id \in {} |-> 0]
           ou == << >>
<1>1. Reaches(Hid!Blank, of, ou)
  <2>1. Hid!Start = Between(0, 0, 0, 0, 0, of, ou)
    BY Zenon DEF Hid!Start, Between, State, Global
  <2>2. Hid!Blank.id = 0 /\ Hid!Blank.items = << >> /\ Hid!Blank.g = [g \in Hid!ToSet(Hid!Globals) |-> None]
    BY DEF Hid!Blank
  <2>3. Hid!ToSet(Hid!Globals) = {"page", "lmin", "size", "count"}
    <3>1. DOMAIN Hid!Globals = 1 .. 4 /\ Hid!Globals[1] = "page" /\ Hid!Globals[2] = "lmin" /\ Hid!Globals[3] = "size" /\ Hid!Globals[4] = "count"
      BY DEF Hid!Globals
    <3>2. \A x \in 1 .. 4 : x = 1 \/ x = 2 \/ x = 3 \/ x = 4
      OBVIOUS
    <3> QED BY <3>1, <3>2 DEF Hid!ToSet
  <2>4. /\ Hid!Blank.g["page"] = None /\ Hid!Blank.g["lmin"] = None
        /\ Hid!Blank.g["size"] = None /\ Hid!Blank.g["count"] = None
    BY <2>2, <2>3
  <2>5. Agrees(Hid!Blank, 0, 0, 0, 0)
    BY <2>4, Zenon DEF Agrees
  <2>6. Leads(<< >>, Hid!Start, Hid!Start)
    BY LeadsNone
  <2> HIDE DEF of, ou
  <2> DEFINE its == Hid!Blank.items
             i == Hid!Blank.id
  <2>7. its = << >> /\ i = 0
    BY <2>2
  <2> HIDE DEF its, i
  <2>8. Leads(its, Hid!Start, Between(0, 0, 0, 0, i, of, ou))
    <3>1. Between(0, 0, 0, 0, i, of, ou) = Hid!Start
      BY <2>1, <2>7, Zenon
    <3> QED BY <2>6, <2>7, <3>1
  <2>9. Leads(Hid!Blank.items, Hid!Start, Between(0, 0, 0, 0, Hid!Blank.id, of, ou))
    BY <2>8 DEF its, i
  <2> QED BY <2>5, <2>9, Zenon DEF Reaches
<1>2. Placed(0, of)
  <2>1. \A id : OffsetIn(of, id) = 0
    BY Zenon DEF OffsetIn
  <2>2. << >> \in Seq(BOOLEAN) /\ Len(<< >>) = 0
    OBVIOUS
  <2>3. \A id, heldKeys, rep : Grows(id, heldKeys, rep) => rep[0] = << >>
    BY Zenon DEF Grows, Runs
  <2> HIDE DEF of
  <2>4. ASSUME NEW id \in 0 .. 2, NEW heldKeys \in Hid!HeldSets, NEW rep, Grows(id, heldKeys, rep) PROVE Sits(id, heldKeys, rep[0], of)
    <3>1. rep[0] = << >>
      BY <2>3, <2>4
    <3> QED BY <2>1, <2>2, <3>1, Zenon DEF Sits
  <2> QED BY <2>4, Zenon DEF Placed
<1>3. Laid(0, ou)
  <2>1. ou \in Seq(Layout) /\ DOMAIN ou = {}
    OBVIOUS
  <2>2. \A id : KeysTo(0, id) = {}
    <3>1. \A id : Hid!KeyFields(id) \subseteq DOMAIN descr
      BY DEF Hid!KeyFields
    <3>2. \A m \in DOMAIN descr : ~ (m <= 0)
      BY DEF Described
    <3> HIDE DEF Hid!KeyFields
    <3> QED BY <3>1, <3>2 DEF KeysTo
  <2> HIDE DEF ou
  <2>3. \A id : ~ HasLayout(ou, id)
    BY <2>1, Zenon DEF HasLayout
  <2> QED BY <2>1, <2>2, <2>3, Zenon DEF Laid
<1> HIDE DEF of, ou
<1> QED BY <1>1, <1>2, <1>3, Zenon DEF Come

LEMMA ComeNext ==
    ASSUME Described, Styled, NEW n \in 1 .. Len(descr), NEW acc, Come(n - 1, acc)
    PROVE  Come(n, Hid!Written(acc, descr[n]))
<1> DEFINE f == descr[n]
<1>1. PICK of, ou : Reaches(acc, of, ou) /\ Placed(n - 1, of) /\ Laid(n - 1, ou)
  BY Zenon DEF Come
<1>2. f.kind \in DOMAIN Hid!Kinds /\ f.id \in Nat
  <2>1. f.kind \in DOMAIN Hid!Kinds /\ f.id \in 0 .. 2
    BY FieldIsTyped
  <2> HIDE DEF f
  <2> QED BY <2>1
<1>3. Reaches(Hid!Written(acc, f), MovedTo(of, f), TakenIn(ou, of, f))
  <2> HIDE DEF f
  <2> QED BY <1>1, <1>2, FieldLeads
<1>4. Placed(n, MovedTo(of, f))
  BY <1>1, PlacedNext
<1>5. Laid(n, TakenIn(ou, of, f))
  BY <1>1, LaidNext
<1> QED BY <1>3, <1>4, <1>5, Zenon DEF Come

LEMMA MapIsParsed ==
    ASSUME Described, Styled PROVE Finished
<1> DEFINE N == Len(descr)
<1>1. N \in Nat /\ DOMAIN descr = 1 .. N
  BY DEF Described
<1>2. PICK e : RunsTo("written", 0, 0, Hid!Blank, descr, N, e) /\ e.items = Hid!Map
  BY <1>1, MapRuns, Zenon
<1>3. PICK h : Runs("written", 0, 0, Hid!Blank, descr, N, h) /\ h[N] = e
  BY <1>2, Zenon DEF RunsTo
<1>4. h[0] = Hid!Blank /\ \A n \in 1 .. N : h[n] = Hid!Written(h[n - 1], descr[n])
  BY <1>3, Zenon DEF Runs, LoopStep
<1> DEFINE G == {n \in 0 .. N : Come(n, h[n])}
<1>5. 0 \in G
  <2>1. Come(0, h[0])
    BY <1>4, ComeFirst
  <2> QED BY <1>1, <2>1
<1>6. ASSUME NEW n \in 0 .. N, n \in G, n < N PROVE n + 1 \in G
  <2>1. n + 1 \in 1 .. N /\ (n + 1) - 1 = n /\ n + 1 \in 0 .. N
    BY <1>1, <1>6
  <2>2. Come((n + 1) - 1, h[n])
    BY <1>6, <2>1
  <2>3. Come(n + 1, Hid!Written(h[n], descr[n + 1]))
    BY <2>1, <2>2, ComeNext
  <2>4. h[n + 1] = Hid!Written(h[n], descr[n + 1])
    BY <1>4, <2>1
  <2> QED BY <2>1, <2>3, <2>4
<1>7. \A n \in 0 .. N : n \in G
  <2> HIDE DEF G, N
  <2> QED BY <1>1, <1>5, <1>6, OneByOne
<1>8. Come(N, e)
  <2>1. N \in G
    BY <1>1, <1>7
  <2> QED BY <1>3, <2>1
<1>9. PICK of, ou : Reaches(e, of, ou) /\ Placed(N, of) /\ Laid(N, ou)
  BY <1>8, Zenon DEF Come
<1>10. PICK p, l, s, c : Leads(e.items, Hid!Start, Between(p, l, s, c, e.id, of, ou))
  BY <1>9, Zenon DEF Reaches
<1>11. Hid!Parsed(Hid!Map) = Between(p, l, s, c, e.id, of, ou).out
  BY <1>2, <1>10, ParsedIs
<1>12. Between(p, l, s, c, e.id, of, ou).out = ou
  BY DEF Between, State
<1>13. Laid(N, Hid!Parsed(Hid!Map))
  BY <1>9, <1>11, <1>12, Zenon
<1> QED BY <1>9, <1>13, Zenon DEF Finished

-----------------------------------------------------------------------------
(* What is decoded. *)
LEMMA SaysIs ==
    ASSUME NEW f, NEW heldKeys
    PROVE  /\ Says(f, heldKeys) \cap Hid!Modifiers = Hid!SaysHeld(f, heldKeys) \cap Hid!Modifiers
           /\ Says(f, heldKeys) \cap Hid!Plain = Hid!SaysHeld(f, heldKeys) \cap Hid!Plain
           /\ 1 \in Says(f, heldKeys) <=> f.kind = "keys" /\ Hid!Overflows(f, heldKeys)
<1> DEFINE T == Hid!SaysHeld(f, heldKeys)
<1>1. 1 \notin Hid!Modifiers /\ 1 \notin Hid!Plain /\ 1 \notin Hid!Codes
  BY DEF Hid!Modifiers, Hid!Plain, Hid!Codes
<1>2. 1 \notin T
  <2> DEFINE first == {u \in heldKeys \cap Hid!Plain : Hid!Rank(heldKeys \cap Hid!Plain, u) < 2}
             bits == (heldKeys \cap Hid!Codes) \ (IF mode = "rest" THEN first ELSE {})
  <2>1. 1 \notin first /\ 1 \notin bits
    BY <1>1, Zenon
  <2>2. Hid!SaysHeld(f, heldKeys) =
          CASE f.kind \in {"mods", "modsList"} -> heldKeys \cap Hid!Modifiers
            [] f.kind \in {"keys", "codes"} -> IF Hid!Overflows(f, heldKeys) THEN {} ELSE first
            [] f.kind = "bitmap" -> bits
            [] OTHER -> {}
    BY Zenon DEF Hid!SaysHeld
  <2> HIDE DEF first, bits
  <2>3. CASE f.kind \in {"mods", "modsList"}
    <3>1. T = heldKeys \cap Hid!Modifiers
      BY <2>2, <2>3
    <3> QED BY <1>1, <3>1
  <2>4. CASE f.kind \in {"keys", "codes"}
    <3>1. T = {} \/ T = first
      BY <2>2, <2>4
    <3> QED BY <2>1, <3>1
  <2>5. CASE f.kind = "bitmap"
    <3>1. T = bits
      BY <2>2, <2>5
    <3> QED BY <2>1, <3>1
  <2>6. CASE f.kind \notin {"mods", "modsList", "keys", "codes", "bitmap"}
    <3>1. T = {}
      BY <2>2, <2>6
    <3> QED BY <3>1
  <2> QED BY <2>3, <2>4, <2>5, <2>6
<1> HIDE DEF T
<1>3. CASE f.kind = "keys" /\ Hid!Overflows(f, heldKeys)
  <2>1. Says(f, heldKeys) = T \cup {1}
    BY <1>3, Zenon DEF Says, T
  <2>2. (T \cup {1}) \cap Hid!Modifiers = T \cap Hid!Modifiers /\ (T \cup {1}) \cap Hid!Plain = T \cap Hid!Plain
    BY <1>1
  <2> QED BY <1>3, <2>1, <2>2, Zenon DEF T
<1>4. CASE ~ (f.kind = "keys" /\ Hid!Overflows(f, heldKeys))
  <2>1. Says(f, heldKeys) = T
    <3>1. Says(f, heldKeys) = T \cup {}
      BY <1>4, Zenon DEF Says, T
    <3>2. T \cup {} = T
      OBVIOUS
    <3> QED BY <3>1, <3>2
  <2> QED BY <1>2, <1>4, <2>1, Zenon DEF T
<1> QED BY <1>3, <1>4

LEMMA MeantIs ==
    ASSUME NEW n, NEW id, NEW heldKeys, HeardTo(n, id) = Hid!Heard(id), NEW o, NEW c, Means(n, id, heldKeys, o, c)
    PROVE  Hid!Settled(o) \in Decoded /\ [Hid!Settled(o) EXCEPT !.keys = Hid!ToSet(@)] = Hid!Meant(id, heldKeys)
<1> DEFINE U == SaidTo(n, id, heldKeys)
           S == UNION {Hid!SaysHeld(descr[m], heldKeys) : m \in Hid!Heard(id)}
           R == \E m \in Hid!Heard(id) : descr[m].kind = "keys" /\ Hid!Overflows(descr[m], heldKeys)
           W == \E m \in Hid!Heard(id) : descr[m].kind \in {"mods", "modsList"}
<1>1. /\ o \in Decoded /\ o.mods = U \cap Hid!Modifiers /\ Hid!ToSet(o.keys) = U \cap Hid!Plain /\ o.rollover = (1 \in U)
      /\ o.hasMods = ModsTo(n, id)
  BY Zenon DEF Means
<1>2. \A u : u \in U <=> \E m \in Hid!Heard(id) : u \in Says(descr[m], heldKeys)
  BY Zenon DEF SaidTo
<1>3. \A u : u \in S <=> \E m \in Hid!Heard(id) : u \in Hid!SaysHeld(descr[m], heldKeys)
  BY Zenon
<1>4. \A m, u : u \in Hid!Modifiers => (u \in Says(descr[m], heldKeys) <=> u \in Hid!SaysHeld(descr[m], heldKeys))
  <2> SUFFICES ASSUME NEW m, NEW u, u \in Hid!Modifiers PROVE u \in Says(descr[m], heldKeys) <=> u \in Hid!SaysHeld(descr[m], heldKeys)
    OBVIOUS
  <2>1. Says(descr[m], heldKeys) \cap Hid!Modifiers = Hid!SaysHeld(descr[m], heldKeys) \cap Hid!Modifiers
    BY SaysIs
  <2> QED BY <2>1, Zenon
<1>5. \A m, u : u \in Hid!Plain => (u \in Says(descr[m], heldKeys) <=> u \in Hid!SaysHeld(descr[m], heldKeys))
  <2> SUFFICES ASSUME NEW m, NEW u, u \in Hid!Plain PROVE u \in Says(descr[m], heldKeys) <=> u \in Hid!SaysHeld(descr[m], heldKeys)
    OBVIOUS
  <2>1. Says(descr[m], heldKeys) \cap Hid!Plain = Hid!SaysHeld(descr[m], heldKeys) \cap Hid!Plain
    BY SaysIs
  <2> QED BY <2>1, Zenon
<1>6. \A m : 1 \in Says(descr[m], heldKeys) <=> descr[m].kind = "keys" /\ Hid!Overflows(descr[m], heldKeys)
  BY SaysIs
<1> HIDE DEF U, S
<1>7. U \cap Hid!Modifiers = S \cap Hid!Modifiers
  <2>1. \A u : u \in U \cap Hid!Modifiers <=> u \in S \cap Hid!Modifiers
    BY <1>2, <1>3, <1>4, Zenon
  <2> QED BY <2>1, Zenon
<1>8. U \cap Hid!Plain = S \cap Hid!Plain
  <2>1. \A u : u \in U \cap Hid!Plain <=> u \in S \cap Hid!Plain
    BY <1>2, <1>3, <1>5, Zenon
  <2> QED BY <2>1, Zenon
<1>9. 1 \in U <=> R
  BY <1>2, <1>6, Zenon
<1>10. o.hasMods = W
  BY <1>1, Zenon DEF ModsTo, ModKinds
<1>11. Hid!Meant(id, heldKeys) = [mods |-> S \cap Hid!Modifiers, rollover |-> R, keys |-> IF R THEN {} ELSE S \cap Hid!Plain,
                          hasMods |-> W]
  BY Zenon DEF Hid!Meant, S
<1>12. o = [mods |-> o.mods, keys |-> o.keys, hasMods |-> o.hasMods, rollover |-> o.rollover]
       /\ o.rollover \in BOOLEAN /\ o.mods \in SUBSET Nat /\ o.keys \in Seq(Nat) /\ o.hasMods \in BOOLEAN
  BY <1>1 DEF Decoded
<1>13. PICK a, k, b, r : a = o.mods /\ k = o.keys /\ b = o.hasMods /\ r = o.rollover
  OBVIOUS
<1>14. o = [mods |-> a, keys |-> k, hasMods |-> b, rollover |-> r] /\ r \in BOOLEAN /\ a \in SUBSET Nat
       /\ k \in Seq(Nat) /\ b \in BOOLEAN
  BY <1>12, <1>13, Zenon
<1>15. CASE o.rollover
  <2>1. r = TRUE /\ R
    BY <1>1, <1>9, <1>13, <1>14, <1>15, Zenon
  <2> DEFINE s == [mods |-> a, keys |-> << >>, hasMods |-> b, rollover |-> r]
  <2>2. Hid!Settled(o) = s
    <3>1. Hid!Settled(o) = [o EXCEPT !.keys = << >>]
      BY <1>15, Zenon DEF Hid!Settled
    <3>2. PICK e : e = << >>
      OBVIOUS
    <3>3. [o EXCEPT !.keys = e] = [mods |-> a, keys |-> e, hasMods |-> b, rollover |-> r]
      BY <1>14
    <3> QED BY <3>1, <3>2, <3>3, Zenon
  <2>3. s \in Decoded
    <3>1. << >> \in Seq(Nat)
      OBVIOUS
    <3> QED BY <1>14, <3>1 DEF Decoded
  <2>4. [s EXCEPT !.keys = Hid!ToSet(@)] = [mods |-> a, keys |-> {}, hasMods |-> b, rollover |-> r]
    <3>1. s.keys = << >> /\ Hid!ToSet(<< >>) = {}
      BY DEF Hid!ToSet
    <3>2. PICK e : e = {}
      OBVIOUS
    <3>3. [s EXCEPT !.keys = Hid!ToSet(@)] = [s EXCEPT !.keys = e]
      BY <3>1, <3>2, Zenon
    <3>4. [s EXCEPT !.keys = e] = [mods |-> a, keys |-> e, hasMods |-> b, rollover |-> r]
      OBVIOUS
    <3> QED BY <3>2, <3>3, <3>4, Zenon
  <2> DEFINE t == [mods |-> a, keys |-> {}, hasMods |-> b, rollover |-> r]
  <2>5. Hid!Meant(id, heldKeys) = t
    <3>1. a = S \cap Hid!Modifiers
      BY <1>1, <1>7, <1>13, Zenon
    <3>2. r = R
      BY <2>1, Zenon
    <3>3. b = W
      BY <1>10, <1>13, Zenon
    <3>4. (IF R THEN {} ELSE S \cap Hid!Plain) = {}
      BY <2>1, Zenon
    <3> HIDE DEF R, W
    <3> QED BY <1>11, <3>1, <3>2, <3>3, <3>4, Zenon
  <2> HIDE DEF s, t
  <2> QED BY <2>2, <2>3, <2>4, <2>5, Zenon DEF t
<1>16. CASE ~ o.rollover
  <2>1. r = FALSE /\ ~ R
    BY <1>1, <1>9, <1>13, <1>14, <1>16, Zenon
  <2>2. Hid!Settled(o) = o
    BY <1>16, Zenon DEF Hid!Settled
  <2> DEFINE t == [mods |-> a, keys |-> Hid!ToSet(k), hasMods |-> b, rollover |-> r]
  <2>3. [o EXCEPT !.keys = Hid!ToSet(@)] = t
    <3>1. PICK e : e = Hid!ToSet(k)
      OBVIOUS
    <3>2. [o EXCEPT !.keys = Hid!ToSet(@)] = [o EXCEPT !.keys = e]
      BY <1>13, <3>1, Zenon
    <3>3. [o EXCEPT !.keys = e] = [mods |-> a, keys |-> e, hasMods |-> b, rollover |-> r]
      BY <1>14
    <3> QED BY <3>1, <3>2, <3>3, Zenon
  <2>4. Hid!Meant(id, heldKeys) = t
    <3>1. a = S \cap Hid!Modifiers
      BY <1>1, <1>7, <1>13, Zenon
    <3>2. r = R
      BY <2>1, Zenon
    <3>3. b = W
      BY <1>10, <1>13, Zenon
    <3>4. (IF R THEN {} ELSE S \cap Hid!Plain) = Hid!ToSet(k)
      BY <1>1, <1>8, <1>13, <2>1, Zenon
    <3> HIDE DEF R, W
    <3> QED BY <1>11, <3>1, <3>2, <3>3, <3>4, Zenon
  <2> QED BY <1>1, <2>2, <2>3, <2>4, Zenon
<1> QED BY <1>15, <1>16

(* A report is read, by its layout, as the keys that are held. *)
LEMMA ReportsReadRight ==
    ASSUME Described, Styled PROVE Hid!ReadsWhatIsHeld
<1> DEFINE N == Len(descr)
           L == Hid!Parsed(Hid!Map)
<1>1. PICK of : Placed(N, of) /\ Laid(N, L)
  BY MapIsParsed, Zenon DEF Finished
<1>2. /\ L \in Seq(Layout) /\ \A j, k \in DOMAIN L : L[j].id = L[k].id => j = k
      /\ \A id \in 0 .. 2 : HasLayout(L, id) <=> KeysTo(N, id) # {}
      /\ \A k \in DOMAIN L : Full(N, L[k].id, L[k].fields)
  BY <1>1, Zenon DEF Laid
<1>3. N \in Nat /\ DOMAIN descr = 1 .. N
  BY DEF Described
<1>4. \A id : KeysTo(N, id) = Hid!KeyFields(id) /\ HeardTo(N, id) = Hid!Heard(id)
  <2>1. \A id : Hid!KeyFields(id) \subseteq 1 .. N
    BY <1>3 DEF Hid!KeyFields
  <2>2. \A id : Hid!Heard(id) \subseteq Hid!KeyFields(id)
    BY Zenon DEF Hid!Heard
  <2>3. \A m \in 1 .. N : m <= N
    BY <1>3
  <2> HIDE DEF Hid!KeyFields, Hid!Heard, N
  <2>4. ASSUME NEW id PROVE KeysTo(N, id) = Hid!KeyFields(id)
    <3>1. \A m : m \in KeysTo(N, id) <=> m \in Hid!KeyFields(id)
      BY <2>1, <2>3, Zenon DEF KeysTo
    <3> QED BY <3>1, Zenon
  <2>5. ASSUME NEW id PROVE HeardTo(N, id) = Hid!Heard(id)
    <3>1. \A m : m \in HeardTo(N, id) <=> m \in Hid!Heard(id)
      BY <2>1, <2>2, <2>3, Zenon DEF HeardTo
    <3> QED BY <3>1, Zenon
  <2> QED BY <2>4, <2>5
<1> HIDE DEF L
<1>5. ASSUME NEW id \in 0 .. 2, NEW heldKeys \in Hid!HeldSets
      PROVE  LET got == Hid!Decode(L, id, Hid!Report(id, heldKeys))
             IN  IF Hid!KeyFields(id) # {}
                 THEN got # None /\ [got EXCEPT !.keys = Hid!ToSet(@)] = Hid!Meant(id, heldKeys)
                 ELSE got = None
  <2> DEFINE data == Hid!Report(id, heldKeys)
             those == {n \in DOMAIN L : L[n].id = id}
             got == Hid!Decode(L, id, data)
  <2>1. Hid!KeyFields(id) # {} <=> HasLayout(L, id)
    BY <1>2, <1>4, Zenon
  <2>2. CASE Hid!KeyFields(id) = {}
    <3>1. those = {}
      BY <2>1, <2>2, Zenon DEF HasLayout
    <3>2. got = None
      BY <3>1, Zenon DEF Hid!Decode
    <3> HIDE DEF got
    <3> QED BY <2>2, <3>2, Zenon DEF got
  <2>3. CASE Hid!KeyFields(id) # {}
    <3>1. PICK k \in DOMAIN L : L[k].id = id
      BY <2>1, <2>3, Zenon DEF HasLayout
    <3>2. those = {k}
      <4>1. \A n : n \in those <=> n = k
        BY <1>2, <3>1, Zenon
      <4> QED BY <4>1, Zenon
    <3>3. (CHOOSE n \in those : \A m \in those : m <= n) = k
      <4>1. k \in Nat
        <5>1. DOMAIN L = 1 .. Len(L) /\ Len(L) \in Nat
          BY <1>2
        <5> QED BY <3>1, <5>1
      <4>2. k <= k
        BY <4>1
      <4> HIDE DEF those
      <4>3. k \in those /\ \A m \in those : m <= k
        BY <3>2, <4>2, Zenon
      <4>4. \A n \in those : n = k
        BY <3>2, Zenon
      <4> QED BY <4>3, <4>4, Zenon
    <3> DEFINE fs == L[k].fields
    <3>4. got = Hid!Settled(Hid!HeldBy(fs, data))
      <4>1. those # {}
        BY <3>2, Zenon
      <4> QED BY <3>3, <4>1, Zenon DEF Hid!Decode
    <3>5. fs \in Seq(FieldSet) /\ Reads(N, id, fs)
      BY <1>2, <3>1, Zenon DEF Full
    <3>6. Len(fs) \in Nat /\ DOMAIN fs = 1 .. Len(fs)
      <4> HIDE DEF fs
      <4> QED BY <3>5
    <3>7. RunsTo("report", id, heldKeys, << >>, descr, N, data)
      BY <1>3, ReportRuns
    <3>8. PICK rep : Grows(id, heldKeys, rep) /\ rep[N] = data
      BY <3>7, Zenon DEF RunsTo, Grows
    <3>9. data \in Seq(BOOLEAN)
      BY <1>1, <3>8, Zenon DEF Placed, Sits
    <3>10. Extends(data, rep[N])
      <4> HIDE DEF data
      <4>1. Len(data) \in Nat /\ Len(data) <= Len(data)
        BY <3>9
      <4>2. Extends(data, data)
        BY <4>1, Zenon DEF Extends
      <4> QED BY <3>8, <4>2, Zenon
    <3>11. RunsTo("fields", data, 0, Hid!Nothing, fs, Len(fs), Hid!HeldBy(fs, data))
      <4> HIDE DEF fs, data
      <4> QED BY <3>6, FieldsRun
    <3>12. PICK h : Runs("fields", data, 0, Hid!Nothing, fs, Len(fs), h) /\ h[Len(fs)] = Hid!HeldBy(fs, data)
      BY <3>11, Zenon DEF RunsTo
    <3>13. Means(N, id, heldKeys, Hid!HeldBy(fs, data), Len(fs))
      <4> HIDE DEF data, fs
      <4> QED BY <3>5, <3>8, <3>10, <3>12, Zenon DEF Reads
    <3>14. Hid!Settled(Hid!HeldBy(fs, data)) \in Decoded
           /\ [Hid!Settled(Hid!HeldBy(fs, data)) EXCEPT !.keys = Hid!ToSet(@)] = Hid!Meant(id, heldKeys)
      <4>1. HeardTo(N, id) = Hid!Heard(id)
        BY <1>4
      <4> HIDE DEF N, fs, data
      <4> QED BY <3>13, <4>1, MeantIs
    <3> HIDE DEF got, data, fs
    <3>15. got \in Decoded /\ [got EXCEPT !.keys = Hid!ToSet(@)] = Hid!Meant(id, heldKeys)
      BY <3>4, <3>14, Zenon
    <3>16. got # None
      BY <3>15, HidAssumption
    <3> QED BY <2>3, <3>15, <3>16, Zenon DEF got, data
  <2> QED BY <2>2, <2>3
<1> QED BY <1>5, Zenon DEF Hid!ReadsWhatIsHeld, L

(* The boot layout. *)
Byte == {0, 4, 5}
BytesTo(r, n) == {r[i] : i \in 1 .. n}
Got(o, ms, r, n) ==
    /\ o \in Decoded /\ o.mods = ms /\ o.rollover = FALSE /\ Len(o.keys) <= n
    /\ Hid!ToSet(o.keys) = BytesTo(r, n) \cap Hid!Plain

(* A byte at a time. *)
LEMMA GotNext ==
    ASSUME NEW ms, NEW r \in Seq(Byte), NEW n \in 1 .. Len(r), Len(r) <= 6, NEW o, Got(o, ms, r, n - 1)
    PROVE  Got(IF r[n] = 0 THEN o ELSE Hid!Hold(o, r[n]), ms, r, n)
<1> DEFINE u == r[n]
           A == BytesTo(r, n - 1)
           B == BytesTo(r, n)
<1>1. /\ o \in Decoded /\ o.mods = ms /\ o.rollover = FALSE /\ Len(o.keys) <= n - 1
      /\ Hid!ToSet(o.keys) = A \cap Hid!Plain
  BY Zenon DEF Got
<1>2. u \in Byte /\ n \in 1 .. 6
  BY DEF Byte
<1>3. B = A \cup {u}
  <2>1. \A i \in 1 .. n : i \in 1 .. n - 1 \/ i = n
    OBVIOUS
  <2>2. n \in 1 .. n /\ \A i \in 1 .. n - 1 : i \in 1 .. n
    OBVIOUS
  <2>3. \A x : x \in B <=> \E i \in 1 .. n : x = r[i]
    BY Zenon DEF BytesTo
  <2>4. \A x : x \in A <=> \E i \in 1 .. n - 1 : x = r[i]
    BY Zenon DEF BytesTo
  <2> HIDE DEF A, B
  <2>5. \A x : x \in B <=> x \in A \cup {u}
    BY <2>1, <2>2, <2>3, <2>4, Zenon
  <2> QED BY <2>5, Zenon
<1>4. Len(o.keys) \in Nat
  BY <1>1 DEF Decoded
<1> HIDE DEF A, B, u
<1>5. CASE u = 0
  <2>1. B \cap Hid!Plain = A \cap Hid!Plain
    <3>1. 0 \notin Hid!Plain
      BY DEF Hid!Plain
    <3> QED BY <1>3, <1>5, <3>1
  <2>2. Len(o.keys) <= n
    BY <1>1, <1>2, <1>4
  <2>3. Got(o, ms, r, n)
    BY <1>1, <2>1, <2>2, Zenon DEF Got, A, B
  <2> QED BY <1>5, <2>3, Zenon DEF u
<1>6. CASE u # 0
  <2> DEFINE v == Hid!Hold(o, u)
  <2>1. u \in {4, 5}
    BY <1>2, <1>6 DEF Byte
  <2>2. u \in Hid!Plain /\ u \notin Hid!Modifiers /\ u # 1 /\ u \in KeyUsages
    BY <2>1 DEF Hid!Plain, Hid!Modifiers, KeyUsages
  <2>3. RoomFor(o, u)
    BY <1>1, <1>2, <1>4, HidAssumption DEF RoomFor
  <2>4. Took(o, v, {u}, OneKey(u))
    BY <1>1, <2>2, <2>3, TookOne
  <2>5. OneKey(u) = 1
    BY <2>2, Zenon DEF OneKey
  <2>6. /\ v \in Decoded /\ v.mods = o.mods \cup ({u} \cap Hid!Modifiers)
        /\ Hid!ToSet(v.keys) = Hid!ToSet(o.keys) \cup ({u} \cap Hid!Plain) /\ Len(v.keys) <= Len(o.keys) + 1
        /\ v.rollover = (o.rollover \/ 1 \in {u})
    BY <2>4, <2>5, Zenon DEF Took
  <2> HIDE DEF v
  <2>7. v.mods = ms
    BY <1>1, <2>2, <2>6
  <2>8. v.rollover = FALSE
    <3>1. (1 \in {u}) = FALSE
      BY <2>2
    <3> QED BY <1>1, <2>6, <3>1, Zenon
  <2>9. Hid!ToSet(v.keys) = B \cap Hid!Plain
    <3>1. Hid!ToSet(v.keys) = (A \cap Hid!Plain) \cup ({u} \cap Hid!Plain)
      BY <1>1, <2>6, Zenon
    <3>2. (A \cap Hid!Plain) \cup ({u} \cap Hid!Plain) = B \cap Hid!Plain
      BY <1>3
    <3> QED BY <3>1, <3>2
  <2>10. Len(v.keys) <= n
    <3>1. Len(v.keys) \in Nat
      BY <2>6 DEF Decoded
    <3> QED BY <1>1, <1>2, <1>4, <2>6, <3>1
  <2>11. Got(v, ms, r, n)
    BY <2>6, <2>7, <2>8, <2>9, <2>10, Zenon DEF Got, B
  <2> QED BY <1>6, <2>11, Zenon DEF u, v
<1> QED BY <1>5, <1>6

LEMMA BootSays ==
    ASSUME NEW ms \in SUBSET Nat, NEW r \in Seq(Byte), Len(r) <= 6
    PROVE  Hid!Settled(Hid!HeldBytes(ms, r)).mods = ms /\ Hid!ToSet(Hid!Settled(Hid!HeldBytes(ms, r)).keys) = Hid!ToSet(r) \cap Hid!Plain
<1> DEFINE N == Len(r)
           o == Hid!HeldBytes(ms, r)
           first == [Hid!Nothing EXCEPT !.hasMods = TRUE, !.mods = ms]
<1>1. N \in Nat /\ DOMAIN r = 1 .. N
  OBVIOUS
<1>2. RunsTo("boot", 0, 0, first, r, N, o)
  BY <1>1, BytesRun
<1>3. PICK h : Runs("boot", 0, 0, first, r, N, h) /\ h[N] = o
  BY <1>2, Zenon DEF RunsTo
<1>4. h[0] = first /\ \A n \in 1 .. N : h[n] = IF r[n] = 0 THEN h[n - 1] ELSE Hid!Hold(h[n - 1], r[n])
  <2>1. \A a, u : LoopStep("boot", 0, 0, a, u) = IF u = 0 THEN a ELSE Hid!Hold(a, u)
    BY Zenon DEF LoopStep
  <2> HIDE DEF first, N
  <2> QED BY <1>3, <2>1, Zenon DEF Runs
<1>5. Got(first, ms, r, 0)
  <2> DEFINE s == [Hid!Nothing EXCEPT !.hasMods = TRUE]
  <2>1. s = [mods |-> {}, keys |-> << >>, hasMods |-> TRUE, rollover |-> FALSE]
    <3>1. \A a, b, c, d, e : [[mods |-> a, keys |-> b, hasMods |-> c, rollover |-> d] EXCEPT !.hasMods = e]
                             = [mods |-> a, keys |-> b, hasMods |-> e, rollover |-> d]
      OBVIOUS
    <3>2. PICK a, b, c, e : a = {} /\ b = << >> /\ c = FALSE /\ e = TRUE
      OBVIOUS
    <3>3. Hid!Nothing = [mods |-> a, keys |-> b, hasMods |-> c, rollover |-> c]
      BY <3>2, Zenon DEF Hid!Nothing
    <3>4. [[mods |-> a, keys |-> b, hasMods |-> c, rollover |-> c] EXCEPT !.hasMods = e]
            = [mods |-> a, keys |-> b, hasMods |-> e, rollover |-> c]
      BY <3>1
    <3>5. s = [mods |-> a, keys |-> b, hasMods |-> e, rollover |-> c]
      BY <3>2, <3>3, <3>4, Zenon
    <3> QED BY <3>2, <3>5, Zenon
  <2>2. first = [s EXCEPT !.mods = ms]
    BY Zenon
  <2> HIDE DEF first, s
  <2>3. first = [mods |-> ms, keys |-> << >>, hasMods |-> TRUE, rollover |-> FALSE]
    BY <2>1, <2>2
  <2>4. first \in Decoded /\ first.mods = ms /\ first.rollover = FALSE /\ first.keys = << >>
    BY <2>3 DEF Decoded
  <2>5. Len(<< >>) = 0 /\ Hid!ToSet(<< >>) = {}
    BY DEF Hid!ToSet
  <2>6. BytesTo(r, 0) = {}
    BY DEF BytesTo
  <2>7. Len(first.keys) <= 0 /\ Hid!ToSet(first.keys) = BytesTo(r, 0) \cap Hid!Plain
    BY <2>4, <2>5, <2>6
  <2> QED BY <2>4, <2>7, Zenon DEF Got
<1> DEFINE G == {n \in 0 .. N : Got(h[n], ms, r, n)}
<1>6. 0 \in G
  <2>1. Got(h[0], ms, r, 0)
    BY <1>4, <1>5, Zenon
  <2> QED BY <1>1, <2>1
<1>7. ASSUME NEW n \in 0 .. N, n \in G, n < N PROVE n + 1 \in G
  <2>1. n + 1 \in 1 .. N /\ (n + 1) - 1 = n /\ n + 1 \in 0 .. N
    BY <1>1, <1>7
  <2>2. Got(h[n], ms, r, (n + 1) - 1)
    BY <1>7, <2>1
  <2>3. Got(IF r[n + 1] = 0 THEN h[n] ELSE Hid!Hold(h[n], r[n + 1]), ms, r, n + 1)
    BY <2>1, <2>2, GotNext
  <2>4. h[n + 1] = IF r[n + 1] = 0 THEN h[(n + 1) - 1] ELSE Hid!Hold(h[(n + 1) - 1], r[n + 1])
    BY <1>4, <2>1, Zenon
  <2>5. Got(h[n + 1], ms, r, n + 1)
    BY <2>1, <2>3, <2>4, Zenon
  <2> QED BY <2>1, <2>5
<1>8. \A n \in 0 .. N : n \in G
  <2> HIDE DEF G, N
  <2> QED BY <1>1, <1>6, <1>7, OneByOne
<1>9. Got(o, ms, r, N)
  <2>1. N \in G
    BY <1>1, <1>8
  <2> QED BY <1>3, <2>1
<1>10. o.mods = ms /\ o.rollover = FALSE /\ Hid!ToSet(o.keys) = BytesTo(r, N) \cap Hid!Plain
  BY <1>9, Zenon DEF Got
<1>11. BytesTo(r, N) = Hid!ToSet(r)
  BY <1>1, Zenon DEF BytesTo, Hid!ToSet
<1>12. Hid!Settled(o) = o
  BY <1>10, Zenon DEF Hid!Settled
<1> QED BY <1>10, <1>11, <1>12, Zenon

(* So is one of the boot layout, with or without its report id. *)
LEMMA BootReadRight == Hid!ReadsBoot
<1> SUFFICES ASSUME NEW n \in 2 .. 6, NEW keys \in [1 .. n -> Byte], NEW ms \in {{}, {225}}
    PROVE  LET got(r) == Hid!DecodeBoot(ms, r)
               rest == [i \in 1 .. (6 - Len(keys)) |-> 0]
               same(r) == got(r).mods = ms /\ Hid!ToSet(got(r).keys) = Hid!ToSet(keys) \cap Hid!Plain
           IN  same(keys) /\ same(<<0>> \o keys \o rest)
  <2>1. \A ks \in UNION {[1 .. n -> {0, 4, 5}] : n \in 2 .. 6} : \E n \in 2 .. 6 : ks \in [1 .. n -> Byte]
    BY Zenon DEF Byte
  <2> QED BY <2>1, Zenon DEF Hid!ReadsBoot
<1> DEFINE rest == [i \in 1 .. (6 - Len(keys)) |-> 0]
           r == <<0>> \o keys \o rest
           s == SubSeq(r, 2, 7)
<1>1. ms \in SUBSET Nat
  OBVIOUS
<1>2. keys \in Seq(Byte) /\ Len(keys) = n
  OBVIOUS
<1>3. Hid!DecodeBoot(ms, keys) = Hid!Settled(Hid!HeldBytes(ms, keys))
  <2>1. ~ (Len(keys) < 2) /\ ~ (Len(keys) >= 7)
    BY <1>2
  <2> QED BY <2>1, Zenon DEF Hid!DecodeBoot
<1>4. Hid!DecodeBoot(ms, keys).mods = ms /\ Hid!ToSet(Hid!DecodeBoot(ms, keys).keys) = Hid!ToSet(keys) \cap Hid!Plain
  <2>1. Len(keys) <= 6
    BY <1>2
  <2>2. /\ Hid!Settled(Hid!HeldBytes(ms, keys)).mods = ms
        /\ Hid!ToSet(Hid!Settled(Hid!HeldBytes(ms, keys)).keys) = Hid!ToSet(keys) \cap Hid!Plain
    <3> HIDE DEF rest, r, s
    <3> QED BY <1>1, <1>2, <2>1, BootSays
  <2> HIDE DEF rest, r, s
  <2> QED BY <1>3, <2>2, Zenon
<1>5. rest \in Seq(Byte) /\ Len(rest) = 6 - n /\ \A i \in 1 .. 6 - n : rest[i] = 0
  <2>1. 6 - Len(keys) = 6 - n /\ 6 - n \in Nat /\ 0 \in Byte
    BY <1>2 DEF Byte
  <2>2. rest = [i \in 1 .. (6 - n) |-> 0]
    BY <1>2, Zenon
  <2> HIDE DEF rest, Byte
  <2> QED BY <2>1, <2>2
<1>6. /\ r \in Seq(Byte) /\ Len(r) = 7
      /\ \A i \in 1 .. n : r[i + 1] = keys[i]
      /\ \A i \in 1 .. 6 - n : r[n + 1 + i] = 0
  <2> DEFINE a == <<0>> \o keys
  <2>1. <<0>> \in Seq(Byte) /\ Len(<<0>>) = 1
    BY DEF Byte
  <2>2. a \in Seq(Byte) /\ Len(a) = n + 1 /\ \A i \in 1 .. n : a[i + 1] = keys[i]
    <3> DEFINE z == <<0>>
    <3> HIDE DEF z, Byte
    <3> QED BY <1>2, <2>1 DEF z
  <2> HIDE DEF a, rest, Byte
  <2>3. a \o rest \in Seq(Byte) /\ Len(a \o rest) = 7
        /\ (\A i \in 1 .. n + 1 : (a \o rest)[i] = a[i])
        /\ \A i \in 1 .. 6 - n : (a \o rest)[n + 1 + i] = rest[i]
    BY <1>5, <2>2
  <2>4. r = a \o rest
    BY Zenon DEF a
  <2>5. \A i \in 1 .. n : i + 1 \in 1 .. n + 1
    OBVIOUS
  <2> HIDE DEF r
  <2> QED BY <1>5, <2>2, <2>3, <2>4, <2>5
<1> HIDE DEF r
<1>7. s \in Seq(Byte) /\ Len(s) = 6 /\ \A i \in 1 .. 6 : s[i] = r[i + 1]
  <2> HIDE DEF Byte
  <2>1. r \in Seq(Byte) /\ 2 \in 1 .. Len(r) + 1 /\ 7 \in 2 - 1 .. Len(r) /\ (7 - 2) + 1 = 6
    BY <1>6
  <2>2. s \in Seq(Byte) /\ Len(s) = (IF 2 <= 7 THEN (7 - 2) + 1 ELSE 0) /\ \A i \in 1 .. (7 - 2) + 1 : s[i] = r[2 + i - 1]
    BY <2>1, SubSeqProperties
  <2>3. \A i \in 1 .. 6 : 2 + i - 1 = i + 1
    OBVIOUS
  <2> HIDE DEF s
  <2> QED BY <2>1, <2>2, <2>3
<1>8. Hid!ToSet(s) \cap Hid!Plain = Hid!ToSet(keys) \cap Hid!Plain
  <2>1. DOMAIN s = 1 .. 6 /\ DOMAIN keys = 1 .. n
    BY <1>7
  <2>2. \A i \in 1 .. n : i \in 1 .. 6 /\ s[i] = keys[i]
    BY <1>6, <1>7
  <2>3. ASSUME NEW i \in 1 .. 6 PROVE i \in 1 .. n \/ s[i] = 0
    <3>1. CASE i \notin 1 .. n
      <4>1. i - n \in 1 .. 6 - n /\ n + 1 + (i - n) = i + 1
        BY <3>1
      <4>2. r[n + 1 + (i - n)] = 0
        BY <1>6, <4>1
      <4> QED BY <1>7, <4>1, <4>2
    <3> QED BY <3>1
  <2>4. 0 \notin Hid!Plain
    BY DEF Hid!Plain
  <2> HIDE DEF s
  <2>5. \A x : x \in Hid!ToSet(s) <=> \E i \in 1 .. 6 : x = s[i]
    BY <2>1, Zenon DEF Hid!ToSet
  <2>6. \A x : x \in Hid!ToSet(keys) <=> \E i \in 1 .. n : x = keys[i]
    BY <2>1, Zenon DEF Hid!ToSet
  <2>7. ASSUME NEW x \in Hid!Plain PROVE x \in Hid!ToSet(s) <=> x \in Hid!ToSet(keys)
    <3>1. x # 0
      BY <2>4
    <3>2. ASSUME NEW i \in 1 .. 6, x = s[i] PROVE \E j \in 1 .. n : x = keys[j]
      <4>1. i \in 1 .. n
        BY <2>3, <3>1, <3>2
      <4> QED BY <2>2, <3>2, <4>1, Zenon
    <3>3. ASSUME NEW i \in 1 .. n, x = keys[i] PROVE \E j \in 1 .. 6 : x = s[j]
      BY <2>2, <3>3, Zenon
    <3> QED BY <2>5, <2>6, <3>2, <3>3, Zenon
  <2> QED BY <2>7, Zenon
<1>9. Hid!DecodeBoot(ms, r) = Hid!Settled(Hid!HeldBytes(ms, s))
  <2>1. ~ (Len(r) < 2) /\ Len(r) >= 7
    BY <1>6
  <2> QED BY <2>1, Zenon DEF Hid!DecodeBoot
<1>10. Hid!DecodeBoot(ms, r).mods = ms /\ Hid!ToSet(Hid!DecodeBoot(ms, r).keys) = Hid!ToSet(keys) \cap Hid!Plain
  <2>1. Len(s) <= 6 /\ s \in Seq(Byte)
    BY <1>7
  <2> HIDE DEF s
  <2>2. Hid!Settled(Hid!HeldBytes(ms, s)).mods = ms /\ Hid!ToSet(Hid!Settled(Hid!HeldBytes(ms, s)).keys) = Hid!ToSet(s) \cap Hid!Plain
    BY <1>1, <2>1, BootSays
  <2> QED BY <1>8, <1>9, <2>2, Zenon
<1> QED BY <1>4, <1>10, Zenon DEF r

-----------------------------------------------------------------------------
HidStyles == {[wide |-> FALSE, push |-> FALSE], [wide |-> TRUE, push |-> TRUE]}
HidInv == Described /\ style \in HidStyles

(* Maps have fields of the kinds there are, with report ids or without. *)
LEMMA HidStarts == Hid!Init => HidInv
<1> SUFFICES ASSUME Hid!Init PROVE HidInv
  OBVIOUS
<1>1. descr = << >> /\ style \in HidStyles
  BY DEF Hid!Init, HidStyles
<1>2. descr \in Seq([kind : DOMAIN Hid!Kinds, id : 0 .. 2]) /\ DOMAIN descr = {}
  BY <1>1
<1>3. Len(descr) <= MaxDescr
  BY <1>1, HidAssumption
<1> QED BY <1>1, <1>2, <1>3 DEF HidInv, Described

LEMMA HidStep == HidInv /\ Hid!Next => HidInv'
<1> SUFFICES ASSUME HidInv, Hid!Next PROVE HidInv'
  OBVIOUS
<1> DEFINE S == [kind : DOMAIN Hid!Kinds, id : 0 .. 2]
<1>1. PICK kind \in DOMAIN Hid!Kinds, id \in 0 .. 2 : Hid!Describe(kind, id)
  BY DEF Hid!Next
<1> DEFINE f == [kind |-> kind, id |-> id]
           L == Len(descr)
<1>2. f \in S /\ f.id = id
  OBVIOUS
<1>3. /\ descr \in Seq(S)
      /\ (\A m \in DOMAIN descr : descr[m].id = 0) \/ (\A m \in DOMAIN descr : descr[m].id # 0)
  BY Zenon DEF HidInv, Described
<1>9. L < MaxDescr
  BY <1>1 DEF Hid!Describe
<1>4. descr' = Append(descr, f) /\ style' = style
      /\ IF descr = << >> THEN id # 2 ELSE descr[1].id = 0 <=> id = 0
  BY <1>1, Zenon DEF Hid!Describe
<1> HIDE DEF S, f
<1>5. L \in Nat /\ DOMAIN descr = 1 .. L /\ descr' \in Seq(S) /\ DOMAIN descr' = 1 .. L + 1
      /\ descr'[L + 1] = f /\ \A m \in 1 .. L : descr'[m] = descr[m]
  BY <1>2, <1>3, <1>4
<1>6. \A m \in 1 .. L + 1 : m \in 1 .. L \/ m = L + 1
  BY <1>5
<1>7. (\A m \in 1 .. L + 1 : descr'[m].id = 0) \/ (\A m \in 1 .. L + 1 : descr'[m].id # 0)
  <2>1. CASE descr = << >>
    <3>1. 1 .. L = {}
      BY <2>1
    <3> HIDE DEF L
    <3> QED BY <1>2, <1>5, <1>6, <3>1
  <2>2. CASE descr # << >>
    <3>1. 1 \in 1 .. L
      BY <1>3, <1>5, <2>2
    <3>2. descr[1].id = 0 <=> id = 0
      BY <1>4, <2>2, Zenon
    <3> HIDE DEF L
    <3> QED BY <1>2, <1>3, <1>5, <1>6, <3>1, <3>2, Zenon
  <2> QED BY <2>1, <2>2
<1>8. Described'
  <2>1. Len(descr') = L + 1
    BY <1>3, <1>4
  <2>2. Len(descr') <= MaxDescr
    BY <1>5, <1>9, <2>1, HidAssumption
  <2> QED BY <1>5, <1>7, <2>2 DEF Described, S
<1> QED BY <1>4, <1>8 DEF HidInv, HidStyles

(* Of any such map the reports are read right. *)
LEMMA HidReads == HidInv => Hid!ReportsAreRead
<1> SUFFICES ASSUME HidInv PROVE Hid!ReportsAreRead
  OBVIOUS
<1>1. Described /\ style \in HidStyles
  BY Zenon DEF HidInv
<1>2. Styled
  <2>1. CASE style = [wide |-> FALSE, push |-> FALSE]
    BY <2>1 DEF Styled
  <2>2. CASE style = [wide |-> TRUE, push |-> TRUE]
    BY <2>2 DEF Styled
  <2> QED BY <1>1, <2>1, <2>2, Zenon DEF HidStyles
<1> QED BY <1>1, <1>2, ReportsReadRight, BootReadRight, Zenon DEF Hid!ReportsAreRead

LEMMA HidMoves == [AllNext]_allVars => [Hid!Next]_hidVars
  BY DEF AllNext, allVars, inputs, BuiltIn, Moves

LEMMA HidReadsOn == HidInv /\ [Hid!Next]_hidVars => HidInv'
<1> SUFFICES ASSUME HidInv, [Hid!Next]_hidVars PROVE HidInv'
  OBVIOUS
<1>1. CASE Hid!Next
  BY <1>1, HidStep
<1>2. CASE UNCHANGED hidVars
  BY <1>2 DEF HidInv, Described, hidVars
<1> QED BY <1>1, <1>2

(* Keyboards with any fields, in one report or two, are read right, as long   *)
(* as a report is short enough for its fields' offsets: the layouts that       *)
(* esp_kbd_parse_map() makes of a report map say, of every report, the keys    *)
(* that are held, as esp_kbd_decode() and esp_kbd_decode_boot() read them.     *)
THEOREM ReportsSayWhatIsHeld ==
    (AllSpec => []ReportsAreRead) /\ (Hid!Spec => []Hid!ReportsAreRead)
<1>1. AllInit => HidInv
  <2>1. AllInit => Hid!Init
    BY DEF AllInit
  <2> QED BY <2>1, HidStarts
<1>2. HidInv /\ [AllNext]_allVars => HidInv'
  BY HidMoves, HidReadsOn
<1>3. HidInv => ReportsAreRead
  BY HidReads DEF ReportsAreRead
<1>4. AllSpec => []ReportsAreRead
  BY <1>1, <1>2, <1>3, PTL DEF AllSpec
<1>5. Hid!Spec => []Hid!ReportsAreRead
  <2>1. HidInv /\ [Hid!Next]_<<descr, style, mode>> => HidInv'
    BY HidReadsOn DEF hidVars
  <2> QED BY <2>1, HidStarts, HidReads, PTL DEF Hid!Spec
<1> QED BY <1>4, <1>5
=============================================================================
