------------------------------- MODULE VimPaths -------------------------------
(***************************************************************************)
(* vim/port/esp_shims.c: the working directory, and every path-taking call   *)
(* resolved against it.  Paths are sequences of what stands between their    *)
(* slashes: "" between two of them, names of one letter.                    *)
(***************************************************************************)
EXTENDS Naturals, Sequences, SequencesExt

CONSTANTS
    MaxSegs,    \* of segs[] in esp_normalise()
    CwdMax,     \* ESP_CWD_MAX
    MaxLen      \* bound: segments of a path that is asked for

PathsAssumption == {MaxSegs, CwdMax, MaxLen} \subseteq Nat /\ CwdMax > 1

VARIABLE cwd    \* esp_cwd

Segments == {"a", "b", ".", "..", ""}
Absolute(segs) == [abs |-> TRUE, segs |-> segs]
Relative(segs) == [abs |-> FALSE, segs |-> segs]
Paths == UNION {{Absolute(s), Relative(s)} : s \in UNION {[1..n -> Segments] : n \in 1..MaxLen}}

Chars(segs) ==
    LET Wide(t) == IF t = ".." THEN 2 ELSE IF t = "" THEN 0 ELSE 1
    IN FoldLeft(LAMBDA n, t : n + 1 + Wide(t), 0, segs)

(* What a path means: "." is here, ".." the directory above, the root's own
   being the root.                                                          *)
Walk(segs) ==
    FoldLeft(LAMBDA at, t : CASE t \in {"", "."} -> at
                              [] t = ".." -> IF at = <<>> THEN at ELSE Front(at)
                              [] OTHER -> Append(at, t), <<>>, segs)

(* Mistake: ".." at the root is a name. *)
NormaliseAbove(segs) ==
    FoldLeft(LAMBDA at, t : CASE t \in {"", "."} -> at
                              [] t = ".." /\ at # <<>> -> Front(at)
                              [] OTHER -> IF Len(at) < MaxSegs THEN Append(at, t) ELSE at,
             <<>>, segs)

(* esp_normalise(): no more than MaxSegs at a time, and what fits.          *)
Normalise(segs) ==
    LET kept == FoldLeft(LAMBDA at, t : CASE t \in {"", "."} -> at
                                          [] t = ".." -> IF at = <<>> THEN at ELSE Front(at)
                                          [] OTHER -> IF Len(at) < MaxSegs THEN Append(at, t) ELSE at,
                         <<>>, segs)
        fits == {n \in 0..Len(kept) : Chars(SubSeq(kept, 1, n)) + 1 < CwdMax}
        room == CHOOSE n \in fits : \A k \in fits : k <= n
    IN IF room = 0 THEN <<"">> ELSE SubSeq(kept, 1, room)

(* esp_resolve(): what is too long is left as it is, to fail honestly.      *)
Resolve(p) ==
    IF p.abs
    THEN IF {"." , ".."} \cap ToSet(p.segs) = {} \/ Chars(p.segs) >= CwdMax THEN p
         ELSE Absolute(Normalise(p.segs))
    ELSE IF Chars(cwd) + Chars(p.segs) >= CwdMax THEN p
         ELSE Absolute(Normalise(cwd \o p.segs))

(* The VFS has directories "a" within each other; it knows no "." of any kind,
   and nothing that is relative.                                            *)
IsDir(p) == p.abs /\ ToSet(p.segs) \subseteq {"a", ""}

(* chdir(); every other call resolves its path, and changes nothing here.   *)
Chdir(p) ==
    LET abs == Resolve(p) IN
    /\ IsDir(abs) /\ Chars(abs.segs) < CwdMax /\ cwd' = abs.segs

Init == cwd = <<"a">>

Next == \E p \in Paths : Chdir(p)

Spec == Init /\ [][Next]_cwd

-----------------------------------------------------------------------------
Means(p) == Walk(IF p.abs THEN p.segs ELSE cwd \o p.segs)

(* Whatever the working directory, a call reaches the file that its path
   means, or fails.                                                         *)
Reaches(p) == LET r == Resolve(p) IN ~r.abs \/ Walk(r.segs) = Means(p)

(* The longest names there is room for: no more segments at a time, and one
   letter less, than the arrays have.                                       *)
Modest(p) ==
    LET segs == IF p.abs THEN p.segs ELSE cwd \o p.segs IN
    /\ \A n \in 1..Len(segs) : Len(Walk(SubSeq(segs, 1, n))) <= MaxSegs
    /\ Chars(Walk(segs)) + 1 < CwdMax

PathsAreKept == \A p \in Paths : Modest(p) => Reaches(p)
=============================================================================
