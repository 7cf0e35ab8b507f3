---------------------------- MODULE MCGit_proofs ----------------------------
(***************************************************************************)
(* What a garbage collection leaves (EspGitGc), for any objects and packs,  *)
(* and wherever the power goes.                                             *)
(*                                                                         *)
(* IInv says why a deletion is safe: past the two renames the new pack is   *)
(* there with its index; before them it is whole under its temporary name,  *)
(* or was still readable from elsewhere when the writer gave up.            *)
(***************************************************************************)
EXTENDS MCGit, SequenceTheorems, TLAPS

(* Where the new pack is, at each step.                                     *)
NewIsThere ==
    /\ pc \in {"idx", "pack"} => new \in tmp
    /\ pc = "idx" /\ new \in idx => new.objs \subseteq Readable
    /\ pc \in {"pack", "open", "loose", "older", "unlink"} => new \in idx
    /\ pc \in {"open", "loose", "older", "unlink"} => new \in pack

(* The old pack being deleted is another, not to be kept, that it covers but  *)
(* for what goes unread.                                                    *)
CurIsRedundant ==
    pc = "unlink" => cur # new /\ cur \notin keep /\ cur.objs \subseteq new.objs \cup unread

(* It packs what is reachable.                                              *)
NewIsReachable == pc # "idle" => new.objs = refs

IInv == TypeOK /\ NewIsThere /\ CurIsRedundant /\ NewIsReachable /\ NothingLost

LEMMA PackNotNone == None \notin Packs
BY GcAssumption

LEMMA NewPack == ASSUME NEW h \in Hashes, refs \subseteq Objects
                 PROVE  [objs |-> refs, hash |-> h] \in Packs
BY DEF Packs

(* What a set of packs holds grows with it.                                 *)
LEMMA HeldMonotone ==
    ASSUME NEW S, NEW T, S \subseteq T
    PROVE  Held(S) \subseteq Held(T)
BY DEF Held

LEMMA InitIInv == Init => IInv
<1> SUFFICES ASSUME Init PROVE IInv
  OBVIOUS
<1> USE DEF Init
<1>1. TypeOK
  BY DEF TypeOK
<1>2. NewIsThere /\ CurIsRedundant /\ NewIsReachable /\ NothingLost
  BY DEF NewIsThere, CurIsRedundant, NewIsReachable, NothingLost
<1> QED BY <1>1, <1>2 DEF IInv

----------------------------------------------------------------------------
(* The other commands, between two collections: what can be read grows.     *)
LEMMA UseIInv == IInv /\ Use => IInv' /\ Readable \subseteq Readable'
<1> SUFFICES ASSUME IInv, Use PROVE IInv' /\ Readable \subseteq Readable'
  OBVIOUS
<1> USE DEF IInv
<1>0. pc = "idle" /\ pc' = "idle"
  BY DEF Use, AddLoose, Fetch, Point, Keep
<1>1. TypeOK'
  <2>1. CASE \E o \in Objects : AddLoose(o)
    BY <2>1 DEF TypeOK, AddLoose
  <2>2. CASE \E p \in Packs : Fetch(p)
    <3>1. \A p \in Packs : p.objs \subseteq Objects
      BY DEF Packs
    <3> QED BY <2>2, <3>1 DEF TypeOK, Fetch
  <2>3. CASE \E r \in SUBSET Objects : Point(r)
    BY <2>3 DEF TypeOK, Point, card
  <2>4. CASE \E p \in Packs : Keep(p)
    BY <2>4 DEF TypeOK, Keep
  <2> QED BY <2>1, <2>2, <2>3, <2>4 DEF Use
<1>2. NewIsThere' /\ CurIsRedundant' /\ NewIsReachable'
  BY <1>0 DEF NewIsThere, CurIsRedundant, NewIsReachable
<1>3. /\ Readable \subseteq Readable' /\ Held(tmp) = Held(tmp')
      /\ had' \subseteq had \cup Readable' /\ unread \subseteq unread' \cup Readable'
  <2>1. CASE \E o \in Objects : AddLoose(o)
    BY <2>1 DEF AddLoose, Readable
  <2>2. CASE \E p \in Packs : Fetch(p)
    <3> PICK p \in Packs : Fetch(p)
      BY <2>2
    <3>1. idx \cap pack \subseteq idx' \cap pack' /\ p \in idx' \cap pack' /\ loose' = loose
          /\ tmp' = tmp /\ had' = had \cup p.objs /\ unread' = unread \ p.objs
      BY DEF Fetch
    <3>2. p.objs \subseteq Held(idx' \cap pack')
      BY <3>1 DEF Held
    <3>3. Held(idx \cap pack) \subseteq Held(idx' \cap pack')
      BY <3>1, HeldMonotone
    <3> QED BY <3>1, <3>2, <3>3 DEF Readable
  <2>3. CASE \E r \in SUBSET Objects : Point(r)
    BY <2>3 DEF Point, card, Readable
  <2>4. CASE \E p \in Packs : Keep(p)
    BY <2>4 DEF Keep, Readable
  <2> QED BY <2>1, <2>2, <2>3, <2>4 DEF Use
<1>4. NothingLost'
  BY <1>3 DEF NothingLost, OnCard
<1> QED BY <1>1, <1>2, <1>3, <1>4

----------------------------------------------------------------------------
(* The new pack written.                                                    *)
LEMMA StartIInv ==
    ASSUME IInv, NEW h \in Hashes, Start(h)
    PROVE  IInv' /\ Readable \subseteq Readable'
<1> USE DEF IInv
<1> DEFINE p == [objs |-> refs, hash |-> h]
<1>1. p \in Packs /\ p # None /\ p.objs = refs
  BY NewPack, PackNotNone DEF TypeOK
<1>2. /\ pc = "idle" /\ refs \subseteq Readable /\ tmp' = tmp \cup {p} /\ new' = p /\ pc' = "idx"
      /\ UNCHANGED <<loose, idx, pack, keep, refs, had, unread, entries, older, cur>>
  BY DEF Start
<1> HIDE DEF p
<1>3. TypeOK'
  BY <1>1, <1>2 DEF TypeOK
<1>4. Readable' = Readable
  BY <1>2 DEF Readable
<1>5. NewIsThere' /\ CurIsRedundant' /\ NewIsReachable'
  BY <1>1, <1>2, <1>4 DEF NewIsThere, CurIsRedundant, NewIsReachable
<1>6. NothingLost'
  BY <1>2, <1>4, HeldMonotone DEF NothingLost, OnCard
<1> QED BY <1>3, <1>4, <1>5, <1>6

LEMMA RenameIdxIInv == ASSUME IInv, RenameIdx PROVE IInv'
<1> USE DEF IInv
<1>1. /\ pc = "idx" /\ new \in tmp /\ new \in Packs
      /\ UNCHANGED <<loose, pack, keep, tmp, refs, had, unread, new, entries, older, cur>>
  BY DEF RenameIdx, NewIsThere, TypeOK
<1>2. \/ new \in idx /\ idx' = idx \ {new} /\ pc' = "idx"
      \/ new \notin idx /\ idx' = idx \cup {new} /\ pc' = "pack"
  BY <1>1 DEF RenameIdx
<1>3. TypeOK'
  BY <1>1, <1>2 DEF TypeOK
<1>4. NewIsThere' /\ CurIsRedundant' /\ NewIsReachable'
  BY <1>1, <1>2 DEF NewIsThere, CurIsRedundant, NewIsReachable
<1>5. NothingLost'
  <2>1. new.objs \subseteq Held(tmp)
    BY <1>1 DEF Held
  <2>2. Held(idx \cap pack) \subseteq Held(idx' \cap pack') \cup new.objs
    BY <1>1, <1>2 DEF Held
  <2>3. loose' = loose /\ tmp' = tmp /\ had' = had /\ unread' = unread
    BY <1>1
  <2> QED BY <2>1, <2>2, <2>3 DEF NothingLost, OnCard, Readable
<1> QED BY <1>3, <1>4, <1>5

LEMMA RenamePackIInv ==
    ASSUME IInv, RenamePack
    PROVE  IInv' /\ (Readable \subseteq Readable' \/ pc' = pc)
<1> USE DEF IInv
<1>1. /\ pc = "pack" /\ new \in tmp /\ new \in Packs /\ new \in idx
      /\ UNCHANGED <<loose, idx, keep, refs, had, unread, new, entries, older, cur>>
  BY DEF RenamePack, NewIsThere, TypeOK
<1>2. \/ new \in pack /\ pack' = pack \ {new} /\ tmp' = tmp /\ pc' = pc
      \/ new \notin pack /\ pack' = pack \cup {new} /\ tmp' = tmp \ {new} /\ pc' = "open"
  BY DEF RenamePack
<1>3. TypeOK'
  BY <1>1, <1>2 DEF TypeOK
<1>4. NewIsThere' /\ CurIsRedundant' /\ NewIsReachable'
  BY <1>1, <1>2 DEF NewIsThere, CurIsRedundant, NewIsReachable
<1>5. CASE new \in pack
  <2>1. new.objs \subseteq Held(tmp)
    BY <1>1 DEF Held
  <2>2. Held(idx \cap pack) \subseteq Held(idx' \cap pack') \cup new.objs
    BY <1>1, <1>2 DEF Held
  <2>3. loose' = loose /\ tmp' = tmp /\ had' = had /\ unread' = unread /\ pc' = pc
    BY <1>1, <1>2, <1>5
  <2>4. NothingLost'
    BY <2>1, <2>2, <2>3 DEF NothingLost, OnCard, Readable
  <2> QED BY <1>3, <1>4, <2>3, <2>4
<1>6. CASE new \notin pack
  <2>1. new.objs \subseteq Held(idx' \cap pack')
    BY <1>1, <1>2, <1>6 DEF Held
  <2>2. Held(tmp) \subseteq Held(tmp') \cup new.objs
    BY <1>1, <1>2, <1>6 DEF Held
  <2>3. Held(idx \cap pack) \subseteq Held(idx' \cap pack')
    BY <1>1, <1>2, <1>6, HeldMonotone
  <2>4. loose' = loose /\ had' = had /\ unread' = unread
    BY <1>1
  <2>5. Readable \subseteq Readable' /\ NothingLost'
    BY <2>1, <2>2, <2>3, <2>4 DEF NothingLost, OnCard, Readable
  <2> QED BY <1>3, <1>4, <2>5
<1> QED BY <1>5, <1>6

(* What the temporary file held can be read: the packs of its name was      *)
(* still there, or everything else still was.                               *)
LEMMA WriteFailsIInv ==
    ASSUME IInv, WriteFails
    PROVE  IInv' /\ Readable \subseteq Readable'
<1> USE DEF IInv
<1>1. /\ (pc = "idx" /\ new \in idx) \/ (pc = "pack" /\ new \in pack)
      /\ new \in Packs /\ tmp' = tmp \ {new} /\ pc' = "idle" /\ new' = None
      /\ UNCHANGED <<loose, idx, pack, keep, refs, had, unread, entries, older, cur>>
  BY DEF WriteFails, TypeOK
<1>2. TypeOK'
  BY <1>1 DEF TypeOK
<1>3. NewIsThere' /\ CurIsRedundant' /\ NewIsReachable'
  BY <1>1 DEF NewIsThere, CurIsRedundant, NewIsReachable
<1>4. new.objs \subseteq Readable
  <2>1. CASE pc = "idx"
    BY <1>1, <2>1 DEF NewIsThere
  <2>2. CASE pc = "pack"
    BY <1>1, <2>2 DEF NewIsThere, Readable, Held
  <2> QED BY <1>1, <2>1, <2>2
<1>5. Held(tmp) \subseteq Held(tmp') \cup new.objs
  BY <1>1 DEF Held
<1>6. Readable' = Readable /\ had' = had /\ unread' = unread
  BY <1>1 DEF Readable
<1>7. NothingLost'
  BY <1>4, <1>5, <1>6 DEF NothingLost, OnCard
<1> QED BY <1>2, <1>3, <1>6, <1>7

----------------------------------------------------------------------------
(* What changes nothing on the card.                                        *)
LEMMA WalkIInv ==
    ASSUME IInv, OpenNew \/ OpenPacks \/ Done \/ Reset
    PROVE  IInv' /\ Readable \subseteq Readable'
<1> USE DEF IInv
<1>1. UNCHANGED <<card, refs, had, unread>>
  BY DEF OpenNew, OpenPacks, Done, Reset
<1>2. Readable' = Readable /\ OnCard' = OnCard /\ had' = had /\ unread' = unread
  BY <1>1 DEF card, OnCard, Readable
<1>3. TypeOK'
  <2>1. CASE OpenNew
    BY <2>1 DEF card, TypeOK, OpenNew
  <2>2. CASE OpenPacks
    BY <2>2 DEF card, TypeOK, OpenPacks
  <2>3. CASE Done
    BY <2>3 DEF card, TypeOK, Done
  <2>4. CASE Reset
    BY <2>4 DEF card, TypeOK, Reset
  <2> QED BY <2>1, <2>2, <2>3, <2>4
<1>4. NewIsThere' /\ CurIsRedundant' /\ NewIsReachable'
  BY DEF card, OpenNew, OpenPacks, Done, Reset, NewIsThere, CurIsRedundant, NewIsReachable
<1> QED BY <1>2, <1>3, <1>4 DEF NothingLost

(* The deletions.  The new pack is readable throughout, and holds what goes.*)
LEMMA NewReadable == IInv /\ pc \in {"loose", "older", "unlink"} =>
                     new \in idx \cap pack /\ new.objs \subseteq Held(idx \cap pack)
BY DEF IInv, NewIsThere, Held

LEMMA VisitLooseIInv ==
    ASSUME IInv, NEW o \in Objects, VisitLoose(o)
    PROVE  IInv' /\ Readable \subseteq Readable'
<1> USE DEF IInv
<1>1. /\ pc = "loose" /\ entries' = entries \ {o}
      /\ loose' = loose \/ (o \in new.objs /\ loose' = loose \ {o})
      /\ UNCHANGED <<idx, pack, keep, tmp, refs, had, unread, pc, new, older, cur>>
  BY DEF VisitLoose
<1>2. TypeOK'
  BY <1>1 DEF TypeOK
<1>3. Readable \subseteq Readable'
  BY <1>1, NewReadable DEF Readable
<1>4. NewIsThere' /\ CurIsRedundant' /\ NewIsReachable'
  BY <1>1 DEF NewIsThere, CurIsRedundant, NewIsReachable
<1>5. NothingLost'
  BY <1>1, <1>3 DEF NothingLost, OnCard
<1> QED BY <1>2, <1>3, <1>4, <1>5

LEMMA VisitOlderIInv ==
    ASSUME IInv, NEW p \in Packs, VisitOlder(p)
    PROVE  IInv' /\ Readable \subseteq Readable' \cup unread'
<1> USE DEF IInv
<1>1. /\ pc = "older" /\ older' = older \ {p}
      /\ UNCHANGED <<loose, pack, keep, tmp, refs, had, new, entries>>
      /\ \/ /\ p # new /\ p \notin keep /\ p.objs \subseteq new.objs \cup unread'
            /\ pc' = "unlink" /\ cur' = p /\ (idx' = idx \ {p} \/ idx' = idx)
         \/ UNCHANGED <<pc, cur, idx>>
      /\ unread \subseteq unread' /\ unread' \subseteq unread \cup p.objs
  BY DEF VisitOlder, Redundant
<1>2. TypeOK'
  BY <1>1, PackNotNone DEF TypeOK, Packs
<1>3. Readable \subseteq Readable' \cup unread'
  <2>1. CASE idx' = idx
    BY <1>1, <2>1 DEF Readable
  <2>2. CASE idx' # idx
    <3>1. p # new /\ p.objs \subseteq new.objs \cup unread' /\ new \in idx' \cap pack'
      BY <1>1, <2>2, NewReadable
    <3>2. (idx \cap pack) \ {p} \subseteq idx' \cap pack'
      BY <1>1, <2>2
    <3> HIDE DEF IInv
    <3>3. Held(idx \cap pack) \subseteq Held(idx' \cap pack') \cup unread'
      BY <3>1, <3>2 DEF Held
    <3> QED BY <1>1, <3>3 DEF Readable
  <2> QED BY <1>1, <2>1, <2>2
<1>4. NewIsThere' /\ CurIsRedundant' /\ NewIsReachable'
  BY <1>1 DEF NewIsThere, CurIsRedundant, NewIsReachable
<1>5. NothingLost'
  BY <1>1, <1>3 DEF NothingLost, OnCard
<1> QED BY <1>2, <1>3, <1>4, <1>5

LEMMA UnlinkPackIInv ==
    ASSUME IInv, UnlinkPack
    PROVE  IInv' /\ Readable \subseteq Readable' \cup unread'
<1> USE DEF IInv
<1>1. /\ pc = "unlink" /\ pc' = "older" /\ cur' = None
      /\ UNCHANGED <<loose, idx, keep, tmp, refs, had, unread, new, entries, older>>
      /\ pack' = pack \ {cur} \/ pack' = pack
      /\ cur # new /\ cur.objs \subseteq new.objs \cup unread'
  BY DEF UnlinkPack, CurIsRedundant
<1>2. TypeOK'
  BY <1>1 DEF TypeOK
<1>3. Readable \subseteq Readable' \cup unread'
  <2>1. CASE pack' = pack
    BY <1>1, <2>1 DEF Readable
  <2>2. CASE pack' = pack \ {cur}
    <3>1. new \in idx' \cap pack' /\ (idx \cap pack) \ {cur} \subseteq idx' \cap pack'
      BY <1>1, <2>2, NewReadable
    <3> HIDE DEF IInv
    <3>2. Held(idx \cap pack) \subseteq Held(idx' \cap pack') \cup unread'
      BY <1>1, <3>1 DEF Held
    <3> QED BY <1>1, <3>2 DEF Readable
  <2> QED BY <1>1, <2>1, <2>2
<1>4. NewIsThere' /\ CurIsRedundant' /\ NewIsReachable'
  BY <1>1 DEF NewIsThere, CurIsRedundant, NewIsReachable
<1>5. NothingLost'
  BY <1>1, <1>3 DEF NothingLost, OnCard
<1> QED BY <1>2, <1>3, <1>4, <1>5

----------------------------------------------------------------------------
(* What no step does.                                                       *)
HidesOnlyReplaced ==
    Readable \subseteq Readable' \cup unread' \/ (pc \in {"idx", "pack"} /\ pc' = pc)

LeavesStep ==
    /\ loose \ loose' \subseteq refs
    /\ \A p \in keep : pc \in {"older", "unlink"} =>
         (p \in idx => p \in idx') /\ (p \in pack => p \in pack')

LEMMA StepIInv == IInv /\ [Next]_vars => IInv' /\ HidesOnlyReplaced
<1> SUFFICES ASSUME IInv, [Next]_vars PROVE IInv' /\ HidesOnlyReplaced
  OBVIOUS
<1> USE DEF HidesOnlyReplaced
<1>1. CASE Use
  BY <1>1, UseIInv
<1>2. CASE \E h \in Hashes : Start(h)
  BY <1>2, StartIInv
<1>3. CASE RenameIdx
  <2>1. Readable \subseteq Readable' \/ (pc = "idx" /\ pc' = pc)
    <3>1. CASE new \in idx
      BY <1>3, <3>1 DEF RenameIdx
    <3>2. CASE new \notin idx
      <4>1. idx \cap pack \subseteq idx' \cap pack' /\ loose' = loose
        BY <1>3, <3>2 DEF RenameIdx
      <4> QED BY <4>1, HeldMonotone DEF Readable
    <3> QED BY <3>1, <3>2
  <2> QED BY <1>3, <2>1, RenameIdxIInv
<1>4. CASE RenamePack
  <2>1. pc = "pack"
    BY <1>4 DEF RenamePack
  <2> QED BY <1>4, <2>1, RenamePackIInv
<1>5. CASE WriteFails
  BY <1>5, WriteFailsIInv
<1>6. CASE OpenNew \/ OpenPacks \/ Done \/ Reset
  BY <1>6, WalkIInv
<1>7. CASE \E o \in Objects : VisitLoose(o)
  BY <1>7, VisitLooseIInv
<1>8. CASE \E p \in Packs : VisitOlder(p)
  BY <1>8, VisitOlderIInv
<1>9. CASE UnlinkPack
  BY <1>9, UnlinkPackIInv
<1>10. CASE UNCHANGED vars
  <2>1. Readable' = Readable /\ OnCard' = OnCard
    BY <1>10 DEF vars, OnCard, Readable
  <2>2. TypeOK'
    BY <1>10 DEF vars, IInv, TypeOK
  <2>3. NewIsThere' /\ CurIsRedundant' /\ NewIsReachable' /\ NothingLost'
    BY <1>10, <2>1 DEF vars, IInv, NewIsThere, CurIsRedundant, NewIsReachable, NothingLost
  <2> QED BY <2>1, <2>2, <2>3 DEF IInv
<1> QED BY <1>1, <1>2, <1>3, <1>4, <1>5, <1>6, <1>7, <1>8, <1>9, <1>10 DEF Next, Collect

LEMMA StepLeaves == IInv /\ [Next]_vars => LeavesStep
<1> SUFFICES ASSUME IInv, [Next]_vars PROVE LeavesStep
  OBVIOUS
<1>1. loose \ loose' \subseteq refs
  <2>1. CASE \E o \in Objects : VisitLoose(o)
    BY <2>1 DEF VisitLoose, IInv, NewIsReachable
  <2>2. CASE ~ \E o \in Objects : VisitLoose(o)
    <3>1. loose \subseteq loose'
      BY <2>2 DEF Next, Collect, Use, AddLoose, Fetch, Point, Keep, Start, RenameIdx,
        RenamePack, WriteFails, OpenNew, OpenPacks, VisitOlder, UnlinkPack, Done, Reset, card, vars
    <3> QED BY <3>1
  <2> QED BY <2>1, <2>2
<1>2. ASSUME NEW p \in keep, pc \in {"older", "unlink"}
      PROVE  (p \in idx => p \in idx') /\ (p \in pack => p \in pack')
  <2>1. CASE \E q \in Packs : VisitOlder(q)
    BY <1>2, <2>1 DEF VisitOlder, Redundant
  <2>2. CASE UnlinkPack
    BY <1>2, <2>2 DEF UnlinkPack, IInv, CurIsRedundant
  <2>3. CASE Done \/ Reset \/ UNCHANGED vars
    BY <2>3 DEF Done, Reset, card, vars
  <2> QED BY <1>2, <2>1, <2>2, <2>3 DEF Next, Collect, Use, AddLoose, Fetch, Point, Keep,
        Start, RenameIdx, RenamePack, WriteFails, OpenNew, VisitLoose, OpenPacks
<1> QED BY <1>1, <1>2 DEF LeavesStep

----------------------------------------------------------------------------
LEMMA Invariance == Spec => []IInv
BY InitIInv, StepIInv, PTL DEF Spec

(* The collector's state is well formed at each step of it, wherever the    *)
(* power goes (esp_git_gc()).                                               *)
THEOREM TypeCorrect == Spec => []TypeOK
<1>1. IInv => TypeOK
  BY DEF IInv
<1> QED BY <1>1, Invariance, PTL

(* No object the repository ever held is lost, at whatever file of          *)
(* esp_git_gc() the power goes, but with an old pack whose index could not    *)
(* be read when the new one was compared with it.                           *)
THEOREM NothingIsLost == Spec => []NothingLost
<1>1. IInv => NothingLost
  BY DEF IInv
<1> QED BY <1>1, Invariance, PTL

(* What could be read can be read after every step of esp_git_gc(), but     *)
(* where p_rename() has removed a file of the new pack's name, and but for    *)
(* what was in an old pack that went unread.                                *)
THEOREM OnlyCopiesGo == Spec => DeletesOnlyCopies
<1>1. IInv /\ [Next]_vars =>
        [Readable \subseteq Readable' \cup unread' \/ (pc \in {"idx", "pack"} /\ pc' = pc)]_vars
  BY StepIInv DEF HidesOnlyReplaced
<1> QED BY <1>1, Invariance, PTL DEF Spec, DeletesOnlyCopies

(* What nothing refers to, and a pack with a .keep, are left alone by the   *)
(* deletions of esp_git_gc().                                               *)
THEOREM RestIsLeft == Spec => LeavesTheRest
<1>1. IInv /\ [Next]_vars =>
        [/\ loose \ loose' \subseteq refs
         /\ \A p \in keep : pc \in {"older", "unlink"} =>
              (p \in idx => p \in idx') /\ (p \in pack => p \in pack')]_vars
  BY StepLeaves DEF LeavesStep
<1> QED BY <1>1, Invariance, PTL DEF Spec, LeavesTheRest

(* Nothing else that the repository is used for gets in between.             *)
THEOREM GcAlone == AllSpec => Spec
<1>1. AllInit => Init
  BY DEF AllInit
<1>2. [AllNext]_allVars => [Next]_vars
  BY DEF AllNext, allVars, vars
<1> QED BY <1>1, <1>2, PTL DEF AllSpec, Spec

-----------------------------------------------------------------------------
(* Branches and the working tree (EspGit).  A branch names a commit there    *)
(* is, a commit descends from itself, and what a pull has still to do is     *)
(* still a step forward.                                                    *)
Files == Contents \cup {"none", Git!Markers}
Commits == [tree : Files, from : SUBSET Nat]
Upto(n) == 0 .. n

GitTyped ==
    /\ commits \in Seq(Commits)
    /\ tip \in [Branches -> Upto(Len(commits))] /\ track \in [Branches -> Upto(Len(commits))]
    /\ there \in [Branches -> Upto(Len(commits))]
    /\ detached \in Upto(Len(commits)) /\ merge \in Upto(Len(commits))
    /\ head \in Branches \cup {"none"} /\ index \in Files /\ work \in Files

Descends ==
    \A c \in 1 .. Len(commits) : commits[c].from \subseteq 1 .. Len(commits) /\ c \in commits[c].from

Pending ==
    /\ rest.what = "head" => rest.to \in Branches
    /\ rest.what = "move" =>
         /\ head \in Branches /\ rest.to \in 1 .. Len(commits)
         /\ tip[head] \in Git!From(rest.to) \cup {0}

GitInv == GitTyped /\ Descends /\ Pending

(* What there is of the commits, and of what descends from what.             *)
LEMMA CommitsThere ==
    ASSUME GitInv
    PROVE  /\ Len(commits) \in Nat
           /\ \A c \in 1 .. Len(commits) : commits[c] \in Commits /\ Git!Tree(c) = commits[c].tree
           /\ \A c \in Upto(Len(commits)) :
                Git!From(c) \subseteq 1 .. Len(commits) /\ Git!Tree(c) \in Files
                /\ (c # 0 => c \in Git!From(c))
           /\ Git!HeadCommit \in Upto(Len(commits))
<1>0. commits \in Seq(Commits)
  BY DEF GitInv, GitTyped
<1>1. commits \in Seq(Commits) /\ Len(commits) \in Nat
  BY <1>0, LenProperties
<1>2. \A c \in 1 .. Len(commits) : commits[c] \in Commits
  BY <1>1
<1>3. \A c \in 1 .. Len(commits) : Git!Tree(c) = commits[c].tree
  <2>1. \A c \in 1 .. Len(commits) : c # 0
    BY <1>1
  <2> QED BY <2>1 DEF Git!Tree
<1>4. ASSUME NEW c \in Upto(Len(commits))
      PROVE  /\ Git!From(c) \subseteq 1 .. Len(commits) /\ Git!Tree(c) \in Files
             /\ (c # 0 => c \in Git!From(c))
  <2>1. CASE c = 0
    BY <2>1 DEF Git!From, Git!Tree, Files
  <2>2. CASE c # 0
    <3>1. c \in 1 .. Len(commits)
      BY <1>1, <2>2 DEF Upto
    <3> QED BY <1>2, <1>3, <2>2, <3>1 DEF Git!From, GitInv, Descends, Commits
  <2> QED BY <2>1, <2>2
<1>5. Git!HeadCommit \in Upto(Len(commits))
  BY DEF GitInv, GitTyped, Git!HeadCommit
<1> QED BY <1>1, <1>2, <1>3, <1>4, <1>5

(* A commit added: the others stay what they were.                           *)
LEMMA NewCommitIs ==
    ASSUME GitInv, NEW parents \in SUBSET Upto(Len(commits)), NEW t \in Files,
           commits' = Git!NewCommit(parents, t)
    PROVE  /\ commits' \in Seq(Commits) /\ Len(commits') = Len(commits) + 1
           /\ \A c \in 1 .. Len(commits) : commits'[c] = commits[c]
           /\ Descends'
           /\ \A p \in parents : p # 0 => p \in commits'[Len(commits')].from
           /\ Upto(Len(commits)) \subseteq Upto(Len(commits'))
<1> DEFINE n == Len(commits)
           f == (UNION {Git!From(p) : p \in parents}) \cup {n + 1}
<1>1. commits \in Seq(Commits) /\ n \in Nat
  BY CommitsThere DEF GitInv, GitTyped
<1>2. /\ f \subseteq 1 .. n + 1 /\ n + 1 \in f
      /\ \A p \in parents : p # 0 => p \in f
  BY <1>1, CommitsThere
<1>3. commits' = Append(commits, [tree |-> t, from |-> f])
  BY DEF Git!NewCommit
<1> HIDE DEF f
<1>4. [tree |-> t, from |-> f] \in Commits
  BY <1>1, <1>2 DEF Commits
<1>5. /\ commits' \in Seq(Commits) /\ Len(commits') = n + 1
      /\ \A c \in 1 .. n : commits'[c] = commits[c]
      /\ commits'[n + 1] = [tree |-> t, from |-> f]
  BY <1>1, <1>3, <1>4, AppendProperties
<1>6. Descends'
  <2> SUFFICES ASSUME NEW c \in 1 .. n + 1
               PROVE  commits'[c].from \subseteq 1 .. n + 1 /\ c \in commits'[c].from
    BY <1>1, <1>5 DEF Descends
  <2>1. CASE c = n + 1
    BY <1>2, <1>5, <2>1
  <2>2. CASE c # n + 1
    <3>1. c \in 1 .. n
      BY <1>1, <2>2
    <3> QED BY <1>1, <1>5, <3>1 DEF GitInv, Descends
  <2> QED BY <2>1, <2>2
<1>7. \A p \in parents : p # 0 => p \in commits'[Len(commits')].from
  BY <1>2, <1>5
<1>8. Upto(n) \subseteq Upto(n + 1)
  BY <1>1 DEF Upto
<1> QED BY <1>5, <1>6, <1>7, <1>8

LEMMA InitGit == (\E x \in Contents : x # "none") /\ Git!Init => GitInv
<1> SUFFICES ASSUME \E x \in Contents : x # "none", Git!Init PROVE GitInv
  OBVIOUS
<1>1. PICK b \in Branches, n \in 0 .. 1, t \in Files :
        /\ n = 0 => commits = <<>>
        /\ n = 1 => commits = <<[tree |-> t, from |-> {1}]>>
        /\ tip = [a \in Branches |-> IF a = b /\ n = 1 THEN 1 ELSE 0]
        /\ track = tip /\ there = tip /\ head = b /\ detached = 0
        /\ index = t /\ work = t /\ merge = 0 /\ rest = Git!Done
  <2>1. PICK b \in Branches, cloned \in BOOLEAN :
          LET t == IF cloned THEN CHOOSE x \in Contents : x # "none" ELSE "none" IN
          /\ commits = IF cloned THEN <<[tree |-> t, from |-> {1}]>> ELSE <<>>
          /\ tip = [a \in Branches |-> IF a = b /\ cloned THEN 1 ELSE 0]
          /\ track = tip /\ there = tip /\ head = b /\ detached = 0
          /\ index = t /\ work = t /\ merge = 0 /\ rest = Git!Done
    BY DEF Git!Init
  <2>2. (CHOOSE x \in Contents : x # "none") \in Files /\ "none" \in Files
    BY DEF Files
  <2>3. CASE cloned = TRUE
    <3> DEFINE t == CHOOSE x \in Contents : x # "none"
    <3>1. t \in Files
      BY <2>2
    <3>2. /\ commits = <<[tree |-> t, from |-> {1}]>>
          /\ tip = [a \in Branches |-> IF a = b THEN 1 ELSE 0]
          /\ track = tip /\ there = tip /\ head = b /\ detached = 0
          /\ index = t /\ work = t /\ merge = 0 /\ rest = Git!Done
      BY <2>1, <2>3
    <3> HIDE DEF t
    <3> WITNESS b \in Branches, 1 \in 0 .. 1, t \in Files
    <3> QED BY <3>2
  <2>4. CASE cloned = FALSE
    BY <2>1, <2>2, <2>4
  <2> QED BY <2>3, <2>4
<1>2. Pending
  BY <1>1 DEF Pending, Git!Done
<1>3. [tree |-> t, from |-> {1}] \in Commits
  BY <1>1 DEF Commits
<1>4. <<>> \in Seq(Commits)
  OBVIOUS
<1>5. commits \in Seq(Commits) /\ Len(commits) = n
  <2>1. CASE n = 1
    <3>1. \A r \in Commits : <<r>> \in Seq(Commits) /\ Len(<<r>>) = 1
      OBVIOUS
    <3> QED BY <1>1, <1>3, <2>1, <3>1
  <2>2. CASE n = 0
    BY <1>1, <1>4, <2>2
  <2> QED BY <2>1, <2>2
<1>6. Descends
  BY <1>1, <1>5 DEF Descends
<1>7. /\ tip \in [Branches -> Upto(Len(commits))] /\ 0 \in Upto(Len(commits))
  BY <1>1, <1>5 DEF Upto
<1> QED BY <1>1, <1>2, <1>5, <1>6, <1>7 DEF GitInv, GitTyped

(* With the commits that there were, a branch that stays, comes or goes.     *)
LEMMA SameGrow ==
    ASSUME GitInv, commits' = commits,
           \A b \in Branches : tip'[b] \in {tip[b], 0} \/ tip[b] = 0
    PROVE  Git!GrowsBranches
<1> SUFFICES ASSUME NEW b \in Branches, tip[b] # 0, tip'[b] # 0
             PROVE  tip[b] \in commits[tip'[b]].from
  BY DEF Git!GrowsBranches
<1>1. tip'[b] = tip[b] /\ tip[b] \in 1 .. Len(commits)
  <2>1. tip[b] \in Upto(Len(commits)) /\ Len(commits) \in Nat
    BY CommitsThere DEF GitInv, GitTyped
  <2> QED BY <2>1 DEF Upto
<1> QED BY <1>1 DEF GitInv, Descends

LEMMA HeadIsThere ==
    ASSUME GitInv, work = Git!HeadTree
    PROVE  work = "none" \/ \E c \in 1 .. Len(commits) : commits[c].tree = work
<1>1. Git!HeadCommit \in Upto(Len(commits)) /\ Len(commits) \in Nat
  BY CommitsThere
<1>2. CASE Git!HeadCommit = 0
  BY <1>2 DEF Git!HeadTree, Git!Tree
<1>3. CASE Git!HeadCommit # 0
  <2>1. Git!HeadCommit \in 1 .. Len(commits)
    BY <1>1, <1>3 DEF Upto
  <2> QED BY <1>3, <2>1 DEF Git!HeadTree, Git!Tree
<1> QED BY <1>2, <1>3

(* A safe checkout writes over nothing but HEAD's tree.                      *)
LEMMA CheckoutIsSafe ==
    ASSUME GitInv, NEW t \in Files, Git!CheckoutTree(t)
    PROVE  Git!KeepsWork /\ work' \in Files /\ index' \in Files
<1>1. work' = work \/ (work = Git!HeadTree /\ work' = t)
  BY DEF Git!CheckoutTree, Git!Safe
<1>2. Git!KeepsWork
  BY <1>1, HeadIsThere DEF Git!KeepsWork
<1> QED BY <1>1, <1>2 DEF Git!CheckoutTree, GitInv, GitTyped

LEMMA CommitGit ==
    ASSUME GitInv, NEW theirs \in Upto(Len(commits)), index' \in Files, work' \in Files,
           Git!CommitTo(theirs), track' \in [Branches -> Upto(Len(commits))],
           merge' \in Upto(Len(commits)), UNCHANGED <<there, head>>
    PROVE  GitInv' /\ Git!GrowsBranches
<1> DEFINE parents == {Git!HeadCommit, theirs} \ {0}
           n == Len(commits)
<1>1. /\ n \in Nat /\ Git!HeadCommit \in Upto(n) /\ commits' = Git!NewCommit(parents, index')
      /\ head = "none" => detached' = Len(commits') /\ tip' = tip
      /\ head # "none" => tip' = [tip EXCEPT ![head] = Len(commits')] /\ detached' = detached
      /\ rest'.what \in {"nothing", "cleanup"}
  BY CommitsThere DEF Git!CommitTo, Git!Done
<1>2. parents \in SUBSET Upto(n)
  BY <1>1
<1>3. /\ tip \in [Branches -> Upto(n)] /\ detached \in Upto(n) /\ head \in Branches \cup {"none"}
      /\ there \in [Branches -> Upto(n)]
  BY DEF GitInv, GitTyped
<1> HIDE DEF parents
<1>4. /\ commits' \in Seq(Commits) /\ Len(commits') = n + 1
      /\ \A c \in 1 .. n : commits'[c] = commits[c]
      /\ Descends'
      /\ \A p \in parents : p # 0 => p \in commits'[Len(commits')].from
      /\ Upto(n) \subseteq Upto(Len(commits')) /\ Len(commits') \in Upto(Len(commits'))
  <2>1. PICK t \in Files : commits' = Git!NewCommit(parents, t)
    BY <1>1
  <2>2. /\ commits' \in Seq(Commits) /\ Len(commits') = n + 1
        /\ \A c \in 1 .. n : commits'[c] = commits[c]
        /\ Descends'
        /\ \A p \in parents : p # 0 => p \in commits'[Len(commits')].from
        /\ Upto(n) \subseteq Upto(Len(commits'))
    BY <1>2, <2>1, NewCommitIs
  <2>3. n + 1 \in Upto(n + 1)
    BY <1>1 DEF Upto
  <2> QED BY <2>2, <2>3
<1>5. /\ tip' \in [Branches -> Upto(Len(commits'))] /\ detached' \in Upto(Len(commits'))
      /\ there' \in [Branches -> Upto(Len(commits'))]
      /\ track' \in [Branches -> Upto(Len(commits'))]
      /\ merge' \in Upto(Len(commits'))
  BY <1>1, <1>3, <1>4
<1>6. GitInv'
  BY <1>1, <1>3, <1>4, <1>5 DEF GitInv, GitTyped, Pending
<1>7. Git!GrowsBranches
  <2> SUFFICES ASSUME NEW b \in Branches, tip[b] # 0, tip'[b] # 0
               PROVE  tip[b] \in commits'[tip'[b]].from
    BY DEF Git!GrowsBranches
  <2>1. CASE head # "none" /\ b = head
    <3>1. tip'[b] = Len(commits') /\ Git!HeadCommit = tip[b]
      BY <1>1, <1>3, <2>1 DEF Git!HeadCommit
    <3>2. tip[b] \in parents
      BY <3>1 DEF parents
    <3> QED BY <1>4, <3>1, <3>2
  <2>2. CASE ~(head # "none" /\ b = head)
    <3>1. tip'[b] = tip[b] /\ tip[b] \in Upto(n)
      BY <1>1, <1>3, <2>2
    <3>2. tip[b] \in 1 .. n
      BY <1>1, <3>1 DEF Upto
    <3> QED BY <1>4, <3>1, <3>2 DEF GitInv, Descends
  <2> QED BY <2>1, <2>2
<1> QED BY <1>6, <1>7

(* Of each command: what is asked of its step. *)
GitStep == GitInv' /\ Git!KeepsWork /\ Git!GrowsBranches

LEMMA GitAt ==
    ASSUME GitInv
    PROVE  /\ Len(commits) \in Nat /\ 0 \in Upto(Len(commits))
           /\ commits \in Seq(Commits)
           /\ tip \in [Branches -> Upto(Len(commits))] /\ track \in [Branches -> Upto(Len(commits))]
           /\ there \in [Branches -> Upto(Len(commits))]
           /\ detached \in Upto(Len(commits)) /\ merge \in Upto(Len(commits))
           /\ head \in Branches \cup {"none"} /\ index \in Files /\ work \in Files
           /\ Git!HeadCommit \in Upto(Len(commits)) /\ Git!HeadTree \in Files
           /\ Git!Fetched \in [Branches -> Upto(Len(commits))]
<1>1. /\ Len(commits) \in Nat /\ commits \in Seq(Commits)
      /\ tip \in [Branches -> Upto(Len(commits))] /\ track \in [Branches -> Upto(Len(commits))]
      /\ there \in [Branches -> Upto(Len(commits))]
      /\ detached \in Upto(Len(commits)) /\ merge \in Upto(Len(commits))
      /\ head \in Branches \cup {"none"} /\ index \in Files /\ work \in Files
      /\ Git!HeadCommit \in Upto(Len(commits)) /\ Git!HeadTree \in Files
  BY CommitsThere DEF GitInv, GitTyped, Git!HeadTree
<1>2. 0 \in Upto(Len(commits))
  BY <1>1 DEF Upto
<1>3. Git!Fetched \in [Branches -> Upto(Len(commits))]
  BY <1>1 DEF Git!Fetched
<1> QED BY <1>1, <1>2, <1>3

(* The file and the index; a fetch, a push. *)
LEMMA FilesGit ==
    ASSUME GitInv,
           \/ Git!Add \/ Git!Reset \/ Git!Restore \/ \E t \in Contents : Git!Edit(t)
           \/ Git!Fetch \/ Git!Push \/ Git!Stop \/ Git!Cleanup
    PROVE  GitStep
<1>1. /\ commits' = commits /\ tip' = tip /\ head' = head
      /\ rest' = rest \/ rest' = Git!Done
      /\ detached' = detached /\ merge' \in {merge, 0}
  BY DEF Git!Add, Git!Reset, Git!Restore, Git!Edit, Git!Fetch, Git!Push, Git!Stop, Git!Cleanup,
     Git!local
<1>2. Git!GrowsBranches
  BY <1>1, SameGrow
<1>3. Git!KeepsWork
  BY DEF Git!KeepsWork, Git!Add, Git!Reset, Git!Fetch, Git!Push, Git!Stop, Git!Cleanup, Git!local
<1>4. index' \in Files /\ work' \in Files
  BY GitAt DEF Git!Add, Git!Reset, Git!Restore, Git!Edit, Git!Fetch, Git!Push, Git!Stop,
     Git!Cleanup, Git!local, Files
<1>5. track' \in [Branches -> Upto(Len(commits))] /\ there' \in [Branches -> Upto(Len(commits))]
  <2>1. CASE Git!Fetch
    BY <2>1, GitAt DEF Git!Fetch
  <2>2. CASE Git!Push
    BY <2>2, GitAt DEF Git!Push
  <2>3. CASE \/ Git!Add \/ Git!Reset \/ Git!Restore \/ \E t \in Contents : Git!Edit(t)
             \/ Git!Stop \/ Git!Cleanup
    BY <2>3, GitAt DEF Git!Add, Git!Reset, Git!Restore, Git!Edit, Git!Stop, Git!Cleanup, Git!local
  <2> QED BY <2>1, <2>2, <2>3
<1>6. Pending'
  BY <1>1 DEF GitInv, Pending, Git!Done, Git!From
<1> QED
  BY <1>1, <1>2, <1>3, <1>4, <1>5, <1>6, GitAt DEF GitStep, GitInv, GitTyped, Descends

(* HEAD goes elsewhere, or a branch to what a pull checked out. *)
LEMMA HeadGit ==
    ASSUME GitInv,
           \/ Git!SetHead \/ Git!Move
           \/ \E b \in Branches : Git!Checkout(b) \/ Git!Branch(b)
           \/ \E c \in UNION {Git!From(tip[b]) : b \in Branches} : Git!Detach(c)
    PROVE  GitStep
<1>0. Descends
  BY DEF GitInv
<1>1. CASE Git!SetHead
  <2>1. /\ rest.to \in Branches /\ head' = rest.to /\ detached' = 0 /\ rest' = Git!Done
        /\ UNCHANGED <<commits, tip, track, there, index, work, conflicts, merge>>
    BY <1>1 DEF Git!SetHead, GitInv, Pending
  <2>2. GitInv'
    BY <1>0, <2>1, GitAt DEF GitInv, GitTyped, Descends, Pending, Git!Done
  <2> QED BY <2>1, <2>2, SameGrow DEF GitStep, Git!KeepsWork
<1>2. CASE Git!Move
  <2>1. /\ head \in Branches /\ rest.to \in 1 .. Len(commits)
        /\ tip[head] \in Git!From(rest.to) \cup {0}
        /\ tip' = [tip EXCEPT ![head] = rest.to] /\ rest' = Git!Done
        /\ UNCHANGED <<commits, track, there, head, detached, index, work, conflicts, merge>>
    BY <1>2 DEF Git!Move, GitInv, Pending
  <2>2. rest.to \in Upto(Len(commits)) /\ rest.to # 0
    BY <2>1, GitAt DEF Upto
  <2>3. tip' \in [Branches -> Upto(Len(commits))]
    BY <2>1, <2>2, GitAt
  <2>4. GitInv'
    BY <1>0, <2>1, <2>3, GitAt DEF GitInv, GitTyped, Descends, Pending, Git!Done
  <2>5. Git!GrowsBranches
    <3> SUFFICES ASSUME NEW b \in Branches, tip[b] # 0, tip'[b] # 0
                 PROVE  tip[b] \in commits[tip'[b]].from
      BY <2>1 DEF Git!GrowsBranches
    <3>1. CASE b = head
      BY <2>1, <2>2, <3>1, GitAt DEF Git!From
    <3>2. CASE b # head
      <4>1. tip'[b] = tip[b] /\ tip[b] \in Upto(Len(commits)) /\ Len(commits) \in Nat
        BY <2>1, <3>2, GitAt
      <4>2. tip[b] \in 1 .. Len(commits)
        BY <4>1 DEF Upto
      <4> QED BY <1>0, <4>1, <4>2 DEF Descends
    <3> QED BY <3>1, <3>2
  <2> QED BY <2>1, <2>4, <2>5 DEF GitStep, Git!KeepsWork
<1>3. ASSUME NEW b \in Branches, Git!Checkout(b) PROVE GitStep
  <2> DEFINE at == IF tip[b] = 0 THEN track[b] ELSE tip[b]
  <2>1. /\ tip' = [tip EXCEPT ![b] = at]
        /\ \/ Git!CheckoutTree(Git!Tree(at)) /\ rest' = [what |-> "head", to |-> b]
           \/ work' = work /\ index' = index /\ rest' = rest /\ Git!Idle
        /\ UNCHANGED <<commits, track, there, head, detached, conflicts, merge>>
    BY <1>3 DEF Git!Checkout
  <2>2. at \in Upto(Len(commits)) /\ Git!Tree(at) \in Files
    BY GitAt, CommitsThere
  <2>3. Git!KeepsWork /\ work' \in Files /\ index' \in Files
    BY <2>1, <2>2, CheckoutIsSafe, GitAt DEF Git!KeepsWork
  <2>4. tip' \in [Branches -> Upto(Len(commits))]
    BY <2>1, <2>2, GitAt
  <2>5. Pending'
    BY <2>1 DEF Pending, Git!Idle
  <2>6. Git!GrowsBranches
    BY <2>1, SameGrow, GitAt
  <2> QED BY <1>0, <2>1, <2>3, <2>4, <2>5, <2>6, GitAt DEF GitStep, GitInv, GitTyped, Descends
<1>4. ASSUME NEW b \in Branches, Git!Branch(b) PROVE GitStep
  <2>1. /\ \/ tip[b] = 0 /\ tip' = [tip EXCEPT ![b] = Git!HeadCommit]
           \/ tip' = [tip EXCEPT ![b] = 0]
        /\ Git!Idle
        /\ UNCHANGED <<commits, track, there, head, detached, index, work, conflicts, merge, rest>>
    BY <1>4 DEF Git!Branch
  <2>2. tip' \in [Branches -> Upto(Len(commits))]
    BY <2>1, GitAt
  <2>3. Pending'
    BY <2>1 DEF Pending, Git!Idle
  <2>4. Git!GrowsBranches
    BY <2>1, SameGrow, GitAt
  <2> QED BY <1>0, <2>1, <2>2, <2>3, <2>4, GitAt
      DEF GitStep, GitInv, GitTyped, Descends, Git!KeepsWork
<1>5. ASSUME NEW c \in UNION {Git!From(tip[b]) : b \in Branches}, Git!Detach(c) PROVE GitStep
  <2>1. /\ Git!CheckoutTree(Git!Tree(c)) /\ head' = "none" /\ detached' = c /\ Git!Idle
        /\ UNCHANGED <<commits, tip, track, there, conflicts, merge, rest>>
    BY <1>5 DEF Git!Detach
  <2>2. c \in 1 .. Len(commits)
    BY GitAt, CommitsThere
  <2>3. c \in Upto(Len(commits)) /\ Git!Tree(c) \in Files
    BY <2>2, GitAt, CommitsThere DEF Upto
  <2>4. Git!KeepsWork /\ work' \in Files /\ index' \in Files
    BY <2>1, <2>3, CheckoutIsSafe
  <2>5. Pending'
    BY <2>1 DEF Pending, Git!Idle
  <2>6. Git!GrowsBranches
    BY <2>1, SameGrow
  <2> QED BY <1>0, <2>1, <2>3, <2>4, <2>5, <2>6, GitAt DEF GitStep, GitInv, GitTyped, Descends
<1> QED BY <1>1, <1>2, <1>3, <1>4, <1>5

(* A commit, a pull, what others push. *)
LEMMA CommitsGit ==
    ASSUME GitInv,
           \/ Git!Commit \/ Git!PullForward \/ Git!PullMerge
           \/ \E b \in Branches, t \in Contents : Git!Other(b, t)
    PROVE  GitStep
<1>0. Descends
  BY DEF GitInv
<1>1. CASE Git!Commit
  <2>1. /\ Git!CommitTo(merge) /\ index' = index
        /\ UNCHANGED <<track, there, head, work, conflicts, merge>>
    BY <1>1 DEF Git!Commit
  <2>2. GitInv' /\ Git!GrowsBranches
    BY <2>1, CommitGit, GitAt
  <2> QED BY <2>1, <2>2 DEF GitStep, Git!KeepsWork
<1>2. CASE Git!PullForward
  <2>1. /\ head \in Branches /\ Git!Theirs \in Upto(Len(commits)) /\ Git!Theirs # 0
        /\ track' = Git!Fetched
    BY <1>2, GitAt DEF Git!PullForward, Git!Pulls, Git!Theirs
  <2>2. /\ Git!CheckoutTree(Git!Tree(Git!Theirs)) /\ rest' = [what |-> "move", to |-> Git!Theirs]
        /\ head # "none" /\ Git!HeadCommit \in Git!From(Git!Theirs) \cup {0}
        /\ UNCHANGED <<commits, tip, there, head, detached, conflicts, merge>>
    BY <1>2 DEF Git!PullForward, Git!Pulls, Git!FastForwards
  <2>3. Git!Tree(Git!Theirs) \in Files /\ Git!Theirs \in 1 .. Len(commits)
    BY <2>1, CommitsThere DEF Upto
  <2>4. Git!KeepsWork /\ work' \in Files /\ index' \in Files
    BY <2>2, <2>3, CheckoutIsSafe
  <2>5. tip[head] \in Git!From(Git!Theirs) \cup {0}
    BY <2>2 DEF Git!HeadCommit
  <2>6. Pending'
    BY <2>1, <2>2, <2>3, <2>5 DEF Pending, Git!From
  <2>7. Git!GrowsBranches
    BY <2>2, SameGrow
  <2> QED BY <1>0, <2>1, <2>2, <2>4, <2>6, <2>7, GitAt DEF GitStep, GitInv, GitTyped, Descends
<1>3. CASE Git!PullMerge
  <2>1. /\ head \in Branches /\ Git!Theirs \in Upto(Len(commits)) /\ track' = Git!Fetched
        /\ merge' = Git!Theirs /\ there' = there /\ head' = head /\ Git!Idle
    BY <1>3, GitAt DEF Git!PullMerge, Git!Pulls, Git!Theirs
  <2>2. Git!Merged \in Files
    BY <2>1, GitAt, CommitsThere DEF Git!Merged, Files
  <2>3. /\ Git!Merged = Git!HeadTree \/ work = Git!HeadTree
        /\ work' = IF Git!Merged = Git!HeadTree THEN work ELSE Git!Merged
    BY <1>3 DEF Git!PullMerge
  <2>4. Git!KeepsWork /\ work' \in Files
    BY <2>2, <2>3, HeadIsThere, GitAt DEF Git!KeepsWork
  <2>5. \/ index' = index /\ UNCHANGED <<commits, tip, detached, rest>>
        \/ /\ index' = IF Git!Merged = Git!HeadTree THEN index ELSE Git!Merged
           /\ Git!CommitTo(Git!Theirs) \/ UNCHANGED <<commits, tip, detached, rest>>
    BY <1>3 DEF Git!PullMerge
  <2>6. index' \in Files
    BY <2>2, <2>5, GitAt
  <2>7. CASE Git!CommitTo(Git!Theirs)
    BY <2>1, <2>4, <2>6, <2>7, CommitGit, GitAt DEF GitStep
  <2>8. CASE UNCHANGED <<commits, tip, detached, rest>>
    <3>1. Pending'
      BY <2>1, <2>8 DEF Pending, Git!Idle
    <3> QED BY <1>0, <2>1, <2>4, <2>6, <2>8, <3>1, GitAt, SameGrow
        DEF GitStep, GitInv, GitTyped, Descends
  <2> QED BY <2>5, <2>7, <2>8
<1>4. ASSUME NEW b \in Branches, NEW t \in Contents, Git!Other(b, t) PROVE GitStep
  <2> DEFINE parents == {there[b]} \ {0}
             n == Len(commits)
  <2>1. /\ commits' = Git!NewCommit(parents, t) /\ there' = [there EXCEPT ![b] = Len(commits')]
        /\ UNCHANGED <<tip, track, head, detached, index, work, conflicts, merge, rest>>
    BY <1>4 DEF Git!Other
  <2>2. parents \in SUBSET Upto(n) /\ t \in Files
    BY GitAt DEF Files
  <2> HIDE DEF parents
  <2>3. /\ commits' \in Seq(Commits) /\ Len(commits') = n + 1
        /\ \A c \in 1 .. n : commits'[c] = commits[c]
        /\ Descends' /\ Upto(n) \subseteq Upto(Len(commits'))
    BY <2>1, <2>2, NewCommitIs
  <2>4. n \in Nat /\ Len(commits') \in Upto(Len(commits'))
    BY <2>3, GitAt DEF Upto
  <2>5. /\ there' \in [Branches -> Upto(Len(commits'))] /\ tip' \in [Branches -> Upto(Len(commits'))]
        /\ track' \in [Branches -> Upto(Len(commits'))]
        /\ detached' \in Upto(Len(commits')) /\ merge' \in Upto(Len(commits'))
    BY <2>1, <2>3, <2>4, GitAt
  <2>6. Pending'
    BY <2>1, <2>3, <2>4 DEF GitInv, Pending, Git!From
  <2>7. Git!GrowsBranches
    <3> SUFFICES ASSUME NEW a \in Branches, tip[a] # 0
                 PROVE  tip[a] \in commits'[tip[a]].from
      BY <2>1 DEF Git!GrowsBranches
    <3>1. tip[a] \in Upto(n)
      BY GitAt
    <3>2. tip[a] \in 1 .. n
      BY <2>4, <3>1 DEF Upto
    <3> QED BY <1>0, <2>3, <3>2 DEF Descends
  <2> QED BY <2>1, <2>3, <2>5, <2>6, <2>7, GitAt DEF GitStep, GitInv, GitTyped, Git!KeepsWork
<1> QED BY <1>1, <1>2, <1>3, <1>4

LEMMA NextGit == GitInv /\ Git!Next => GitStep
BY FilesGit, HeadGit, CommitsGit DEF Git!Next

LEMMA GitSteps ==
    GitInv /\ [AllNext]_allVars =>
        /\ GitInv'
        /\ (Moves("git") => Git!KeepsWork /\ Git!GrowsBranches) \/ UNCHANGED gitVars
<1> SUFFICES ASSUME GitInv, [AllNext]_allVars
             PROVE  /\ GitInv'
                    /\ (Moves("git") => Git!KeepsWork /\ Git!GrowsBranches) \/ UNCHANGED gitVars
  OBVIOUS
<1>1. CASE UNCHANGED gitVars
  <2>1. GitInv'
    BY <1>1 DEF gitVars, GitInv, GitTyped, Descends, Pending, Git!From
  <2> QED BY <1>1, <2>1
<1>2. CASE Git!Next
  BY <1>2, NextGit DEF GitStep
<1> QED BY <1>1, <1>2 DEF AllNext, allVars

LEMMA AlwaysGit == AllSpec => []GitInv
<1>1. AllInit => GitInv
  BY GitAssumption, InitGit DEF AllInit
<1> QED BY <1>1, GitSteps, PTL DEF AllSpec

(* What is only in the working tree goes by the user's hand: no pull, no     *)
(* checkout of esp_api_git.c writes over it, wherever it fails.              *)
THEOREM WorkStays == AllSpec => WorkIsKept
<1>1. GitInv /\ [AllNext]_allVars => [Moves("git") => Git!KeepsWork]_gitVars
  BY GitSteps
<1> QED BY <1>1, AlwaysGit, PTL DEF AllSpec, WorkIsKept

(* A branch only grows: f_esp_git_pull() drops no commit that was made here, *)
(* with whatever was fetched and pushed in between.                         *)
THEOREM BranchesGrow == AllSpec => BranchesOnlyGrow
<1>1. GitInv /\ [AllNext]_allVars => [Moves("git") => Git!GrowsBranches]_gitVars
  BY GitSteps
<1> QED BY <1>1, AlwaysGit, PTL DEF AllSpec, BranchesOnlyGrow

-----------------------------------------------------------------------------
(* Logging in (EspGitAuth): one answer at most, to a server that is known.    *)
AuthInv ==
    /\ sent = <<>> \/ (tries # 0 /\ Len(sent) = 1)
    /\ step = "certificate" => sent = <<>>
    /\ step = "sent" => sent # <<>>
    /\ url.ssh /\ (step = "login" \/ sent # <<>>) => known[url.port] = server.key

LEMMA InitAuth == Auth!Init => AuthInv
BY DEF Auth!Init, AuthInv

LEMMA AnswersOnce ==
    ASSUME AuthInv, NEW what, ~Auth!Answered, tries = 0, step = "login", Auth!Answer(what)
    PROVE  AuthInv'
<1>1. sent = <<>> /\ (url.ssh => known[url.port] = server.key)
  BY DEF AuthInv
<1>2. /\ sent' = Append(<<>>, what) /\ step' = "sent" /\ tries' = 1
      /\ url' = url /\ known' = known /\ server' = server
  BY <1>1 DEF Auth!Answer, Auth!world
<1>3. Len(sent') = 1 /\ sent' # <<>>
  <2>1. <<>> \in Seq({what})
    OBVIOUS
  <2> QED BY <1>2, <2>1, AppendProperties
<1> QED BY <1>1, <1>2, <1>3 DEF AuthInv

LEMMA StepAuth == ASSUME AuthInv, tries \in Nat, Auth!Next PROVE AuthInv' /\ tries' \in Nat
<1>1. CASE Auth!Certificate
  <2>1. /\ step = "certificate" /\ sent' = sent /\ tries' = tries
        /\ url' = url /\ known' = known /\ server' = server
        /\ step' = "failed" \/ (step' = "login" /\ (url.ssh => known[url.port] = server.key))
    BY <1>1 DEF Auth!Certificate, Auth!Fails, Auth!world, Auth!UrlPort
  <2> QED BY <2>1 DEF AuthInv
<1>2. CASE Auth!Credentials
  <2>1. CASE \E what \in {"username", "key", "token"} : ~Auth!Answered /\ Auth!Answer(what)
    <3>1. PICK what \in {"username", "key", "token"} : ~Auth!Answered /\ Auth!Answer(what)
      BY <2>1
    <3>2. tries = 0 /\ step = "login"
      <4>1. step = "login"
        BY <1>2 DEF Auth!Credentials
      <4>2. tries = 0
        BY <3>1 DEF Auth!Answered
      <4> QED BY <4>1, <4>2
    <3>3. tries' = 1
      BY <3>1, <3>2 DEF Auth!Answer
    <3> QED BY <3>1, <3>2, <3>3, AnswersOnce
  <2>2. CASE \E what : Auth!Fails(what)
    <3>1. /\ step = "login" /\ step' = "failed" /\ sent' = sent /\ tries' = tries
          /\ url' = url /\ known' = known /\ server' = server
      BY <1>2, <2>2 DEF Auth!Credentials, Auth!Fails, Auth!world
    <3> QED BY <3>1 DEF AuthInv
  <2> QED BY <1>2, <2>1, <2>2 DEF Auth!Credentials
<1>3. CASE Auth!Verdict
  <2>1. /\ step = "sent" /\ step' \in {"login", "in"} /\ sent' = sent /\ tries' = tries
        /\ url' = url /\ known' = known /\ server' = server
    BY <1>3 DEF Auth!Verdict, Auth!world
  <2>2. sent # <<>> /\ (url.ssh => known[url.port] = server.key)
    BY <2>1 DEF AuthInv
  <2> QED BY <2>1, <2>2 DEF AuthInv
<1>4. CASE Auth!Begin
  BY <1>4 DEF Auth!Begin, AuthInv
<1> QED BY <1>1, <1>2, <1>3, <1>4 DEF Auth!Next

(* The device's key and its token go to a server whose host key is the one   *)
(* known for its port, and no answer a second time (esp_git_certificate_cb(), *)
(* esp_git_credentials_cb()).                                               *)
THEOREM SecretsStay == AllSpec => []SecretsAreKept
<1> DEFINE I == AuthInv /\ tries \in Nat
<1>1. AllInit => I
  BY InitAuth DEF AllInit, Auth!Init
<1>2. I /\ [AllNext]_allVars => I'
  <2> SUFFICES ASSUME AuthInv, tries \in Nat, [AllNext]_allVars PROVE AuthInv' /\ tries' \in Nat
    OBVIOUS
  <2>1. CASE UNCHANGED authVars
    BY <2>1 DEF authVars, AuthInv
  <2>2. CASE Auth!Next
    BY <2>2, StepAuth
  <2> QED BY <2>1, <2>2 DEF AllNext, allVars
<1>3. I => SecretsAreKept
  <2> SUFFICES ASSUME AuthInv PROVE Auth!SecretsAreKept
    BY DEF SecretsAreKept
  <2>1. CASE sent = <<>>
    BY <2>1 DEF Auth!SecretsAreKept
  <2>2. CASE sent # <<>>
    <3>1. Len(sent) = 1 /\ (url.ssh => known[url.port] = server.key)
      BY <2>2 DEF AuthInv
    <3> QED BY <3>1 DEF Auth!SecretsAreKept
  <2> QED BY <2>1, <2>2
<1> QED BY <1>1, <1>2, <1>3, PTL DEF AllSpec

(* A command has answered once or not at all.  With a user in the URL, or     *)
(* over HTTPS, the answer was a key or a token, and libgit2 asks again only   *)
(* after a refusal; without one, it was the name.                            *)
Named == url.user \/ ~url.ssh
IsRefusal(what) == what = "authentication failed"
AnsweredOnce ==
    /\ tries = 0 \/ tries = 1
    /\ server.asks \subseteq {"key", "token"} /\ server.takes \subseteq {"key", "token"}
    /\ tries = 0 => sent = <<>>
    /\ tries = 1 => Len(sent) = 1 /\ sent[1] \in {"username", "key", "token"}
AsksAgain ==
    /\ Named /\ tries = 1 => sent[1] # "username" /\ (step = "login" => refused # {})
    /\ Named /\ IsRefusal(err) => refused # {}
    /\ ~Named /\ tries = 1 => sent[1] = "username"
    /\ ~Named => step # "in"
LoginInv == AuthInv /\ AnsweredOnce /\ AsksAgain

(* The first call of a command answers, with the name if that is asked for.   *)
LEMMA OneAnswer ==
    ASSUME LoginInv, NEW what \in {"username", "key", "token"}, step = "login", ~Auth!Answered,
           Auth!Answer(what), IF Named THEN what # "username" ELSE what = "username"
    PROVE  AnsweredOnce' /\ AsksAgain'
<1>1. tries = 0 /\ sent = <<>>
  BY DEF LoginInv, AnsweredOnce, Auth!Answered
<1>2. /\ sent' = <<what>> /\ tries' = 1 /\ step' = "sent"
      /\ url' = url /\ server' = server /\ err' = err /\ refused' = refused
  BY <1>1 DEF Auth!Answer, Auth!world
<1>3. Len(sent') = 1 /\ sent'[1] = what
  BY <1>2
<1>4. AnsweredOnce'
  BY <1>2, <1>3 DEF LoginInv, AnsweredOnce
<1>. QED BY <1>2, <1>3, <1>4 DEF LoginInv, AsksAgain, Named

(* What fails for another reason leaves what is known of refusals.            *)
LEMMA FailureIsTold ==
    ASSUME LoginInv, NEW what, Auth!Fails(what),
           IsRefusal(what) /\ Named => refused # {}
    PROVE  AnsweredOnce' /\ AsksAgain'
<1>1. /\ err' = what /\ step' = "failed" /\ sent' = sent /\ tries' = tries
      /\ url' = url /\ server' = server /\ refused' = refused
  BY DEF Auth!Fails, Auth!world
<1>. QED BY <1>1 DEF LoginInv, AnsweredOnce, AsksAgain, Named

(* Each step of libgit2's and each callback.                                 *)
LEMMA StepLogin == ASSUME LoginInv, Auth!Next PROVE LoginInv'
<1>1. tries \in Nat
  BY DEF LoginInv, AnsweredOnce
<1>2. AuthInv'
  BY <1>1, StepAuth DEF LoginInv
<1>3. CASE Auth!Certificate
  <2>1. CASE \E what : Auth!Fails(what) /\ ~IsRefusal(what)
    BY <1>2, <2>1, FailureIsTold DEF LoginInv
  <2>2. CASE step' = "login" /\ UNCHANGED <<Auth!world, tries, err, sent, refused>>
    <3>1. sent = <<>>
      BY <1>3 DEF Auth!Certificate, LoginInv, AuthInv
    <3>2. tries = 0
      BY <3>1 DEF LoginInv, AnsweredOnce
    <3>3. Named' = Named
      BY <2>2 DEF Named, Auth!world
    <3>4. AnsweredOnce' /\ AsksAgain'
      BY <2>2, <3>1, <3>2, <3>3 DEF LoginInv, AnsweredOnce, AsksAgain, Auth!world
    <3>. QED BY <1>2, <3>4 DEF LoginInv
  <2>3. ~IsRefusal("unknown host key") /\ ~IsRefusal("host key CHANGED")
    BY Zenon DEF IsRefusal
  <2>. QED BY <1>3, <2>1, <2>2, <2>3 DEF Auth!Certificate
<1>4. CASE Auth!Credentials
  <2>1. step = "login"
    BY <1>4 DEF Auth!Credentials
  <2>2. CASE Auth!Answered /\ \E what : Auth!Fails(what)
    <3>1. Named => refused # {}
      <4>1. tries = 1
        BY <2>2 DEF LoginInv, AnsweredOnce, Auth!Answered
      <4>. QED BY <2>1, <4>1 DEF LoginInv, AsksAgain
    <3>. QED BY <1>2, <2>2, <3>1, FailureIsTold DEF LoginInv
  <2>3. CASE \E what : Auth!Fails(what) /\ ~IsRefusal(what)
    BY <1>2, <2>3, FailureIsTold DEF LoginInv
  <2>4. ASSUME NEW what \in {"username", "key", "token"}, ~Auth!Answered, Auth!Answer(what),
               what \in Auth!Allowed
        PROVE  LoginInv'
    <3>1. sent = <<>>
      BY <2>4 DEF LoginInv, AnsweredOnce, Auth!Answered
    <3>2. IF Named THEN what # "username" ELSE what = "username"
      BY <2>4, <3>1 DEF Auth!Allowed, Named, LoginInv, AnsweredOnce
    <3>. QED BY <1>2, <2>1, <2>4, <3>2, OneAnswer DEF LoginInv
  <2>5. \/ Auth!Answered /\ Auth!Fails("authentication failed")
        \/ Auth!Fails("no SSH key") \/ Auth!Fails("no token") \/ Auth!Fails("no such login")
        \/ ~Auth!Answered /\ \E what \in {"username", "key", "token"} :
                                 what \in Auth!Allowed /\ Auth!Answer(what)
    BY <1>4 DEF Auth!Credentials
  <2>6. ~IsRefusal("no SSH key") /\ ~IsRefusal("no token") /\ ~IsRefusal("no such login")
    BY Zenon DEF IsRefusal
  <2>. QED BY <2>2, <2>3, <2>4, <2>5, <2>6, Zenon
<1>5. CASE Auth!Verdict
  <2>1. /\ step = "sent" /\ sent' = sent /\ tries' = tries /\ err' = err
        /\ url' = url /\ server' = server
    BY <1>5 DEF Auth!Verdict, Auth!world
  <2>2. sent # <<>>
    BY <2>1 DEF LoginInv, AuthInv
  <2>3. tries = 1 /\ Len(sent) = 1 /\ sent[1] \in {"username", "key", "token"}
    BY <2>2 DEF LoginInv, AnsweredOnce
  <2>4. \/ sent[1] = "username" /\ step' = "login" /\ refused' = refused
        \/ sent[1] \in server.takes /\ step' = "in" /\ refused' = refused
        \/ sent[1] # "username" /\ step' = "login" /\ refused' = refused \cup {sent[1]}
    BY <1>5, <2>3 DEF Auth!Verdict
  <2>5. CASE sent[1] = "username"
    <3>1. ~Named
      BY <2>3, <2>5 DEF LoginInv, AsksAgain
    <3>2. step' = "login" /\ refused' = refused
      BY <2>4, <2>5 DEF LoginInv, AnsweredOnce
    <3>. QED BY <1>2, <2>1, <2>3, <2>5, <3>1, <3>2 DEF LoginInv, AnsweredOnce, AsksAgain, Named
  <2>6. CASE sent[1] # "username"
    <3>1. Named
      BY <2>3, <2>6 DEF LoginInv, AsksAgain
    <3>2. (step' = "in" /\ refused' = refused) \/ (step' = "login" /\ refused' # {})
      BY <2>4, <2>6
    <3>. QED BY <1>2, <2>1, <2>3, <2>6, <3>1, <3>2 DEF LoginInv, AnsweredOnce, AsksAgain, Named
  <2>. QED BY <2>5, <2>6
<1>6. CASE Auth!Begin
  <2>1. /\ step' = "certificate" /\ tries' = 0 /\ err' = "none" /\ sent' = <<>> /\ server' = server
    BY <1>6 DEF Auth!Begin
  <2>2. ~IsRefusal(err')
    BY <2>1, Zenon DEF IsRefusal
  <2>3. AnsweredOnce' /\ AsksAgain'
    BY <2>1, <2>2 DEF LoginInv, AnsweredOnce, AsksAgain
  <2>. QED BY <1>2, <2>3 DEF LoginInv
<1>. QED BY <1>3, <1>4, <1>5, <1>6 DEF Auth!Next

(* Where a login fails for no reason: with a user in the URL, or over HTTPS,  *)
(* "authentication failed" means that the server refused the key or the      *)
(* token; over SSH without one no login ever succeeds, because the second call *)
(* of esp_git_credentials_cb() is taken for a refusal of the name.           *)
THEOREM OnlyNamedLogIn == AllSpec => [](IF Named THEN Auth!FailsOnlyIfRefused ELSE step # "in")
<1>1. AllInit => LoginInv
  <2>1. ~IsRefusal("none")
    BY Zenon DEF IsRefusal
  <2>. QED BY <2>1, InitAuth DEF AllInit, Auth!Init, LoginInv, AnsweredOnce, AsksAgain, Named
<1>2. LoginInv /\ [AllNext]_allVars => LoginInv'
  <2>1. LoginInv /\ UNCHANGED authVars => LoginInv'
    BY DEF authVars, LoginInv, AuthInv, AnsweredOnce, AsksAgain, Named
  <2>2. [AllNext]_allVars => Auth!Next \/ UNCHANGED authVars
    BY DEF AllNext, allVars
  <2>. QED BY <2>1, <2>2, StepLogin
<1>3. LoginInv => IF Named THEN Auth!FailsOnlyIfRefused ELSE step # "in"
  BY DEF LoginInv, AsksAgain, IsRefusal, Auth!FailsOnlyIfRefused
<1>. QED BY <1>1, <1>2, <1>3, PTL DEF AllSpec
=============================================================================
