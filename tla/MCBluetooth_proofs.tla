-------------------------- MODULE MCBluetooth_proofs --------------------------
(***************************************************************************)
(* Proofs about EspBleKbd, for any keyboards and any tasks that take the     *)
(* lock, and about EspPairUi, for any list and queue.  That the reconnect    *)
(* task is quiet in a sleep is so if one task, the power task, is all that   *)
(* puts the radio to sleep.                                                  *)
(***************************************************************************)
EXTENDS MCBluetooth, SequenceTheorems, TLAPS

-----------------------------------------------------------------------------
(* The keyboards go by EspBleKbd's specification, whatever the screen does.  *)
LEMMA BleAlone == AllSpec => Spec
<1>1. [AllNext]_allVars => [Next]_vars
  BY DEF AllNext, allVars, Moves
<1> QED BY <1>1, PTL DEF AllSpec, AllInit, Spec

-----------------------------------------------------------------------------
(* EspBleKbd *)

(* The steps a call has to go, by where its lock is.                        *)
Before == {
    <<"cancel", "lock", "close", "open", "opened", "unlock", "start">>,
    <<"lock", "close", "open", "opened", "unlock", "start">>,
    <<"unflag", "cancel", "lock", "close", "clear", "unlock">>,
    <<"cancel", "lock", "close", "clear", "unlock">>, <<"lock", "close", "clear", "unlock">>,
    <<"cancel", "lock", "find", "unpair", "unlock">>, <<"lock", "find", "unpair", "unlock">>,
    <<"cancel", "lock", "unlock">>, <<"lock", "unlock">>}
Inside == {
    <<"close", "open", "opened", "unlock", "start">>, <<"open", "opened", "unlock", "start">>,
    <<"opened", "unlock", "start">>, <<"unlock", "start">>,
    <<"close", "clear", "unlock">>, <<"clear", "unlock">>,
    <<"find", "unpair", "unlock">>, <<"unpair", "unlock">>, <<"unlock">>}
After == {<<"start">>, <<>>}

(* The same of a sleep, whose first step is not under the radio's sleep.    *)
ToSleep == {<<>>, <<"suspend", "cancel", "lock", "close", "unlock", "resume">>}
AsleepBefore == {<<"cancel", "lock", "close", "unlock", "resume">>,
                 <<"lock", "close", "unlock", "resume">>}
AsleepInside == {<<"close", "unlock", "resume">>, <<"unlock", "resume">>}
Asleep == AsleepBefore \cup AsleepInside \cup {<<"resume">>}

(* A call's steps are those of one of the functions, the sleep's of its own,
   and its task has the lock between the two that take and return it; in a
   sleep s_suspended is set, unless another task ends it.                   *)
Sleeps(t) == "suspend" \in Ops[t]
OneSleeper == \A t, u \in Takers : Sleeps(t) /\ Sleeps(u) => t = u
HasLock(t) == todo[t] \in IF Sleeps(t) THEN AsleepInside ELSE Inside
Calls ==
    /\ todo \in [Takers -> Before \cup Inside \cup After \cup ToSleep \cup Asleep]
    /\ \A t \in Takers :
        /\ todo[t] \in IF Sleeps(t) THEN ToSleep \cup Asleep ELSE Before \cup Inside \cup After
        /\ (lock = t) = HasLock(t)
        /\ OneSleeper /\ Sleeps(t) /\ todo[t] \in Asleep => suspended

(* Every OPEN that is still to be handled is of a keyboard that is there, or
   whose CLOSE comes after it.                                              *)
OpensAreBacked ==
    \A i \in DOMAIN events : events[i][1] = "open" =>
        \/ link[events[i][2]] # "off"
        \/ \E j \in DOMAIN events : i < j /\ events[j] = <<"close", events[i][2]>>

(* The task goes nowhere before it is started.                              *)
Begun == pcR # "look" => started

IInv == TypeOK /\ Calls /\ NoDanglingDev /\ OpensAreBacked /\ Begun /\ NeverWaitsAlone

-----------------------------------------------------------------------------
(* Where a call is follows from its next step, and so does where it goes.   *)
LEMMA BeforeSteps ==
    \A s \in Before : /\ s # <<>> /\ Head(s) \in {"unflag", "cancel", "lock"}
                      /\ Tail(s) \in IF Head(s) = "lock" THEN Inside ELSE Before
<1> SUFFICES ASSUME NEW s \in Before
             PROVE  /\ s # <<>> /\ Head(s) \in {"unflag", "cancel", "lock"}
                    /\ Tail(s) \in IF Head(s) = "lock" THEN Inside ELSE Before
  OBVIOUS
<1>1. CASE s = <<"cancel", "lock", "close", "open", "opened", "unlock", "start">>
  BY <1>1 DEF Before, Inside
<1>2. CASE s = <<"lock", "close", "open", "opened", "unlock", "start">>
  BY <1>2 DEF Before, Inside
<1>3. CASE s = <<"unflag", "cancel", "lock", "close", "clear", "unlock">>
  BY <1>3 DEF Before, Inside
<1>4. CASE s = <<"cancel", "lock", "close", "clear", "unlock">>
  BY <1>4 DEF Before, Inside
<1>5. CASE s = <<"lock", "close", "clear", "unlock">>
  BY <1>5 DEF Before, Inside
<1>6. CASE s = <<"cancel", "lock", "find", "unpair", "unlock">>
  BY <1>6 DEF Before, Inside
<1>7. CASE s = <<"lock", "find", "unpair", "unlock">>
  BY <1>7 DEF Before, Inside
<1>8. CASE s = <<"cancel", "lock", "unlock">>
  BY <1>8 DEF Before, Inside
<1>9. CASE s = <<"lock", "unlock">>
  BY <1>9 DEF Before, Inside
<1> QED BY <1>1, <1>2, <1>3, <1>4, <1>5, <1>6, <1>7, <1>8, <1>9 DEF Before

LEMMA InsideSteps ==
    \A s \in Inside :
        /\ s # <<>> /\ Head(s) \in {"close", "open", "opened", "clear", "find", "unpair", "unlock"}
        /\ Tail(s) \in IF Head(s) = "unlock" THEN After ELSE Inside
<1> SUFFICES ASSUME NEW s \in Inside
             PROVE  /\ s # <<>>
                    /\ Head(s) \in {"close", "open", "opened", "clear", "find", "unpair", "unlock"}
                    /\ Tail(s) \in IF Head(s) = "unlock" THEN After ELSE Inside
  OBVIOUS
<1>1. CASE s = <<"close", "open", "opened", "unlock", "start">>
  BY <1>1 DEF Inside, After
<1>2. CASE s = <<"open", "opened", "unlock", "start">>
  BY <1>2 DEF Inside, After
<1>3. CASE s = <<"opened", "unlock", "start">>
  BY <1>3 DEF Inside, After
<1>4. CASE s = <<"unlock", "start">>
  BY <1>4 DEF Inside, After
<1>5. CASE s = <<"close", "clear", "unlock">>
  BY <1>5 DEF Inside, After
<1>6. CASE s = <<"clear", "unlock">>
  BY <1>6 DEF Inside, After
<1>7. CASE s = <<"find", "unpair", "unlock">>
  BY <1>7 DEF Inside, After
<1>8. CASE s = <<"unpair", "unlock">>
  BY <1>8 DEF Inside, After
<1>9. CASE s = <<"unlock">>
  BY <1>9 DEF Inside, After
<1> QED BY <1>1, <1>2, <1>3, <1>4, <1>5, <1>6, <1>7, <1>8, <1>9 DEF Inside

LEMMA AfterSteps ==
    /\ \A s \in After : s # <<>> => Head(s) = "start" /\ Tail(s) \in After
    /\ \A s \in ToSleep : s # <<>> => Head(s) = "suspend" /\ Tail(s) \in AsleepBefore
    /\ Head(<<"resume">>) = "resume" /\ Tail(<<"resume">>) = <<>> /\ <<"resume">> # <<>>
BY DEF After, ToSleep, AsleepBefore

LEMMA AsleepSteps ==
    /\ \A s \in AsleepBefore : /\ s # <<>> /\ Head(s) \in {"cancel", "lock"}
                               /\ Tail(s) \in IF Head(s) = "lock" THEN AsleepInside ELSE AsleepBefore
    /\ \A s \in AsleepInside : /\ s # <<>> /\ Head(s) \in {"close", "unlock"}
                               /\ Tail(s) \in IF Head(s) = "unlock" THEN {<<"resume">>} ELSE AsleepInside
BY DEF AsleepBefore, AsleepInside

LEMMA InitIInv == Init => IInv
<1> SUFFICES ASSUME Init PROVE IInv
  OBVIOUS
<1>1. TypeOK
  <2>1. events \in Seq({"open", "close"} \X Kbds)
    BY DEF Init
  <2>2. (lock = "task") = (pcR \in {"try", "opening"})
    BY BleAssumption DEF Init
  <2> QED BY <2>1, <2>2 DEF Init, TypeOK
<1>2. <<>> \in ToSleep /\ <<>> \in After
  BY DEF ToSleep, After
<1>3. <<>> \notin Inside /\ <<>> \notin AsleepInside /\ <<>> \notin Asleep
  BY InsideSteps, AsleepSteps, AfterSteps DEF Asleep
<1>4. \A t \in Takers : lock # t
  BY BleAssumption DEF Init
<1>5. Calls
  BY <1>2, <1>3, <1>4 DEF Init, Calls, HasLock
<1>6. NoDanglingDev /\ OpensAreBacked /\ Begun /\ NeverWaitsAlone
  BY DEF Init, NoDanglingDev, OpensAreBacked, Begun, NeverWaitsAlone
<1> QED BY <1>1, <1>5, <1>6 DEF IInv

-----------------------------------------------------------------------------
(* The HID host: each event it posts finds the connection as it says, or the
   one that undoes it behind it.                                            *)
Held == NoDanglingDev /\ OpensAreBacked

LEMMA OpensHeld == ASSUME IInv, Opens PROVE Held'
<1> DEFINE n == Len(events)
<1>1. /\ n \in Nat /\ DOMAIN events = 1..n /\ DOMAIN events' = 1..(n + 1)
      /\ \A i \in 1..n : events'[i] = events[i]
      /\ events'[n + 1] = <<"open", attempt>>
  BY DEF IInv, TypeOK, Opens
<1>2. dev' = dev /\ attempt \in Kbds /\ \A k \in Kbds : link'[k] = IF k = attempt THEN "open" ELSE link[k]
  BY DEF IInv, TypeOK, Opens
<1>3. NoDanglingDev'
  BY <1>1, <1>2 DEF IInv, TypeOK, NoDanglingDev
<1>4. \A i \in 1..n : events[i][1] \in {"open", "close"} /\ events[i][2] \in Kbds
  BY <1>1 DEF IInv, TypeOK
<1>5. ASSUME NEW i \in 1..(n + 1), events'[i][1] = "open"
      PROVE  \/ link'[events'[i][2]] # "off"
             \/ \E j \in 1..(n + 1) : i < j /\ events'[j] = <<"close", events'[i][2]>>
  <2>1. CASE i = n + 1
    BY <2>1, <1>1, <1>2
  <2>2. CASE i \in 1..n /\ link'[events[i][2]] = "off"
    <3>1. events[i][1] = "open" /\ link[events[i][2]] = "off"
      BY <2>2, <1>1, <1>2, <1>4, <1>5
    <3>2. PICK j \in 1..n : i < j /\ events[j] = <<"close", events[i][2]>>
      BY <2>2, <3>1, <1>1 DEF IInv, OpensAreBacked
    <3>3. j \in 1..(n + 1) /\ events'[j] = <<"close", events'[i][2]>>
      BY <2>2, <3>2, <1>1
    <3> QED BY <3>2, <3>3
  <2>3. CASE i \in 1..n /\ link'[events[i][2]] # "off"
    BY <2>3, <1>1
  <2> QED BY <2>1, <2>2, <2>3, <1>1
<1>6. OpensAreBacked'
  BY <1>1, <1>5 DEF OpensAreBacked
<1> QED BY <1>3, <1>6 DEF Held

LEMMA ClosesHeld == ASSUME IInv, NEW k \in Kbds, Closes(k) PROVE Held'
<1> DEFINE n == Len(events)
<1>1. /\ n \in Nat /\ DOMAIN events = 1..n /\ DOMAIN events' = 1..(n + 1)
      /\ \A i \in 1..n : events'[i] = events[i]
      /\ events'[n + 1] = <<"close", k>>
  BY DEF IInv, TypeOK, Closes
<1>2. dev' = dev /\ \A x \in Kbds : link'[x] = IF x = k THEN "off" ELSE link[x]
  BY DEF IInv, TypeOK, Closes, state
<1>3. NoDanglingDev'
  <2>1. CASE dev = k
    BY <2>1, <1>1, <1>2 DEF NoDanglingDev
  <2>2. CASE dev # k /\ dev # None /\ link[dev] = "off"
    <3>1. PICK i \in 1..n : events[i] = <<"close", dev>>
      BY <2>2, <1>1 DEF IInv, NoDanglingDev
    <3> QED BY <3>1, <1>1, <1>2 DEF NoDanglingDev
  <2>3. CASE dev # k /\ (dev = None \/ link[dev] # "off")
    BY <2>3, <1>2 DEF IInv, TypeOK, NoDanglingDev
  <2> QED BY <2>1, <2>2, <2>3
<1>4. \A i \in 1..n : events[i][1] \in {"open", "close"} /\ events[i][2] \in Kbds
  BY <1>1 DEF IInv, TypeOK
<1>5. ASSUME NEW i \in 1..(n + 1), events'[i][1] = "open"
      PROVE  \/ link'[events'[i][2]] # "off"
             \/ \E j \in 1..(n + 1) : i < j /\ events'[j] = <<"close", events'[i][2]>>
  <2>1. i \in 1..n
    BY <1>1, <1>5
  <2>2. CASE events[i][2] = k
    BY <2>1, <2>2, <1>1
  <2>3. CASE events[i][2] # k /\ link[events[i][2]] = "off"
    <3>1. PICK j \in 1..n : i < j /\ events[j] = <<"close", events[i][2]>>
      BY <2>1, <2>3, <1>1, <1>5 DEF IInv, OpensAreBacked
    <3>2. j \in 1..(n + 1) /\ events'[j] = <<"close", events'[i][2]>>
      BY <2>1, <3>1, <1>1
    <3> QED BY <3>1, <3>2
  <2>4. CASE events[i][2] # k /\ link[events[i][2]] # "off"
    BY <2>1, <2>4, <1>1, <1>2, <1>4
  <2> QED BY <2>2, <2>3, <2>4
<1>6. OpensAreBacked'
  BY <1>1, <1>5 DEF OpensAreBacked
<1> QED BY <1>3, <1>6 DEF Held

(* on_hidh(): what is not handled is one place nearer.                      *)
LEMMA HandleHeld == ASSUME IInv, Handle PROVE Held'
<1> DEFINE n == Len(events)
           e == events[1]
<1>1. /\ n \in Nat /\ n > 0 /\ DOMAIN events = 1..n /\ DOMAIN events' = 1..(n - 1)
      /\ \A i \in 1..(n - 1) : events'[i] = events[i + 1]
      /\ Head(events) = e /\ link' = link
  BY DEF IInv, TypeOK, Handle
<1>2. \A i \in 1..n : events[i] \in {"open", "close"} \X Kbds
  BY <1>1 DEF IInv, TypeOK
<1>3. \A j \in 1..n : 1 < j => j - 1 \in 1..(n - 1) /\ events'[j - 1] = events[j]
  BY <1>1
<1>4. OpensAreBacked'
  <2> SUFFICES ASSUME NEW i \in 1..(n - 1), events'[i][1] = "open", link[events'[i][2]] = "off"
               PROVE  \E j \in 1..(n - 1) : i < j /\ events'[j] = <<"close", events'[i][2]>>
    BY <1>1 DEF OpensAreBacked
  <2>1. i + 1 \in 1..n /\ events'[i] = events[i + 1]
    BY <1>1
  <2>2. PICK j \in 1..n : i + 1 < j /\ events[j] = <<"close", events[i + 1][2]>>
    BY <1>1, <2>1 DEF IInv, OpensAreBacked
  <2> QED BY <2>1, <2>2, <1>3
<1>5. NoDanglingDev'
  <2>1. CASE e[1] = "open"
    <3>1. dev' = e[2] /\ e[2] \in Kbds
      BY <2>1, <1>1, <1>2 DEF Handle
    <3>2. CASE link[e[2]] = "off"
      <4>1. 1 \in DOMAIN events /\ events[1][1] = "open" /\ link[events[1][2]] = "off"
        BY <2>1, <3>2, <1>1
      <4>2. PICK j \in 1..n : 1 < j /\ events[j] = <<"close", e[2]>>
        BY <4>1, <1>1 DEF IInv, OpensAreBacked
      <4> QED BY <4>2, <3>1, <1>1, <1>3 DEF NoDanglingDev
    <3> QED BY <3>1, <3>2, <1>1 DEF NoDanglingDev
  <2>2. CASE e[1] # "open" /\ dev # e[2] /\ dev # None
    <3>1. dev' = dev
      BY <2>2, <1>1 DEF Handle
    <3>2. CASE link[dev] = "off"
      <4>1. PICK j \in 1..n : events[j] = <<"close", dev>>
        BY <2>2, <3>2, <1>1 DEF IInv, NoDanglingDev
      <4>2. 1 < j
        BY <4>1, <2>2, <1>1
      <4> QED BY <4>1, <4>2, <3>1, <1>1, <1>3 DEF NoDanglingDev
    <3> QED BY <3>1, <3>2, <1>1 DEF NoDanglingDev
  <2>3. CASE e[1] # "open" /\ (dev = e[2] \/ dev = None)
    BY <2>3, <1>1 DEF Handle, NoDanglingDev
  <2> QED BY <2>1, <2>2, <2>3
<1> QED BY <1>4, <1>5 DEF Held

(* Nobody else posts or handles, or has more than a connection closed.      *)
LEMMA OthersHeld ==
    ASSUME IInv, events' = events, dev' = dev,
           \A k \in Kbds : link[k] # "off" => link'[k] # "off"
    PROVE  Held'
<1>1. \A i \in DOMAIN events : events[i][2] \in Kbds
  BY DEF IInv, TypeOK
<1> QED BY <1>1 DEF IInv, TypeOK, Held, NoDanglingDev, OpensAreBacked

-----------------------------------------------------------------------------
(* The host and its handler touch neither the tasks nor their lock.         *)
LEMMA HostIInv ==
    ASSUME IInv, Opens \/ OpenFails \/ (\E k \in Kbds : Closes(k)) \/ Handle
    PROVE  IInv'
<1>1. Held'
  <2>1. CASE OpenFails
    BY <2>1, OthersHeld DEF OpenFails, state
  <2> QED BY <2>1, OpensHeld, ClosesHeld, HandleHeld
<1>2. /\ UNCHANGED <<giveWay, suspended, started, lock, pcR, peers, todo, arg>>
      /\ wake' \in {wake, started}
      /\ dev' = None /\ dev # None => wake' = started
  <2>1. CASE Opens \/ OpenFails
    BY <2>1 DEF Opens, OpenFails, state, tasks
  <2>2. ASSUME NEW k \in Kbds, Closes(k) PROVE UNCHANGED <<state, tasks>>
    BY <2>2 DEF Closes
  <2>3. CASE Handle
    <3>1. Head(events) \in {"open", "close"} \X Kbds
      BY <2>3 DEF Handle, IInv, TypeOK
    <3> QED BY <2>3, <3>1, BleAssumption DEF Handle, tasks
  <2> QED BY <2>1, <2>2, <2>3 DEF state, tasks
<1>3. Calls' /\ Begun' /\ NeverWaitsAlone'
  BY <1>2 DEF IInv, TypeOK, Calls, HasLock, Sleeps, Begun, NeverWaitsAlone
<1>4. TypeOK'
  <2>1. CASE Opens
    <3>1. attempt \in Kbds /\ <<"open", attempt>> \in {"open", "close"} \X Kbds
      BY <2>1 DEF Opens, IInv, TypeOK
    <3>2. events' \in Seq({"open", "close"} \X Kbds)
      BY <2>1, <3>1 DEF Opens, IInv, TypeOK
    <3>3. link' \in [Kbds -> {"off", "open", "closing"}] /\ bonds' \subseteq Kbds
      BY <2>1, <3>1 DEF Opens, IInv, TypeOK
    <3>4. attempt' = None /\ UNCHANGED <<paired, dev, giveWay, suspended, started, wake, lock,
                                         pcR, peers, todo, arg>>
      BY <2>1 DEF Opens, tasks
    <3> QED BY <3>2, <3>3, <3>4 DEF IInv, TypeOK
  <2>2. CASE OpenFails
    BY <2>2 DEF OpenFails, IInv, TypeOK, tasks, state
  <2>3. ASSUME NEW k \in Kbds, Closes(k) PROVE TypeOK'
    BY <2>3 DEF Closes, IInv, TypeOK, tasks, state
  <2>4. CASE Handle
    <3>1. Head(events) \in {"open", "close"} \X Kbds /\ events' \in Seq({"open", "close"} \X Kbds)
      BY <2>4 DEF Handle, IInv, TypeOK
    <3>2. /\ dev' \in Kbds \cup {None} /\ paired' \in BOOLEAN /\ wake' \in BOOLEAN
          /\ UNCHANGED <<bonds, giveWay, suspended, started, lock, link, attempt,
                         pcR, peers, todo, arg>>
      BY <2>4, <3>1 DEF Handle, IInv, TypeOK, tasks
    <3> QED BY <3>1, <3>2 DEF IInv, TypeOK
  <2> QED BY <2>1, <2>2, <2>3, <2>4
<1> QED BY <1>1, <1>3, <1>4 DEF IInv, Held

(* reconnect_task(): it has the lock while it tries.                        *)
LEMMA TaskIInv == ASSUME IInv, TaskStep PROVE IInv'
<1>1. UNCHANGED <<bonds, paired, dev, giveWay, suspended, started, link, events, todo, arg>>
  BY DEF TaskStep, Look, LockTask, Try, Tried, UnlockTask, Pause, Woken, TimesOut, state, host
<1>2. Held'
  BY <1>1, OthersHeld
<1>3. Begun' /\ NeverWaitsAlone'
  BY DEF TaskStep, Look, LockTask, Try, Tried, UnlockTask, Pause, Woken, TimesOut, state,
         IInv, Begun, NeverWaitsAlone
<1>4. TypeOK' /\ \A t \in Takers : (lock' = t) = (lock = t)
  <2> USE BleAssumption DEF IInv, TypeOK, state, host
  <2>1. CASE Look BY <2>1 DEF Look
  <2>2. CASE LockTask BY <2>2 DEF LockTask
  <2>3. ASSUME NEW k \in Kbds, Try(k) PROVE TypeOK' /\ lock' = lock BY <2>3 DEF Try, GoesOn
  <2>4. CASE Tried BY <2>4 DEF Tried
  <2>5. CASE UnlockTask BY <2>5 DEF UnlockTask
  <2>6. CASE Pause BY <2>6 DEF Pause
  <2>7. CASE Woken
    <3>1. lock # "task" /\ pcR' = "look" /\ wake' = FALSE
      BY <2>7 DEF Woken
    <3>2. UNCHANGED <<bonds, paired, dev, giveWay, suspended, started, lock, link, attempt,
                      events, peers, todo, arg>>
      BY <2>7 DEF Woken
    <3>3. wake' \in BOOLEAN
      BY <3>1
    <3>4. pcR' \notin {"try", "opening"} /\ lock' # "task"
      BY <3>1, <3>2
    <3>5. TypeOK'
      BY <3>1, <3>2, <3>3, <3>4
    <3> QED BY <3>2, <3>5
  <2>8. CASE TimesOut BY <2>8 DEF TimesOut
  <2> QED BY <2>1, <2>2, <2>3, <2>4, <2>5, <2>6, <2>7, <2>8 DEF TaskStep
<1>5. Calls'
  BY <1>1, <1>4 DEF IInv, Calls, HasLock, Sleeps
<1> QED BY <1>2, <1>3, <1>4, <1>5 DEF IInv, Held

-----------------------------------------------------------------------------
(* What the next step of a call says of where it is.                        *)
LEMMA Where ==
    ASSUME IInv, NEW t \in Takers, todo[t] # <<>>
    PROVE  LET s == todo[t]  h == Head(s) IN
           /\ h \in {"unflag", "find", "unpair", "open", "opened", "clear", "start"} => ~Sleeps(t)
           /\ h \in {"suspend", "resume"} => Sleeps(t)
           /\ h \in {"unflag", "cancel", "lock"} => s \in IF Sleeps(t) THEN AsleepBefore ELSE Before
           /\ h \in {"close", "open", "opened", "clear", "find", "unpair", "unlock"} =>
                s \in IF Sleeps(t) THEN AsleepInside ELSE Inside
           /\ h = "start" => s \in After
           /\ h = "suspend" => s \in ToSleep
           /\ h = "resume" => s = <<"resume">>
<1> DEFINE s == todo[t]
<1>1. CASE Sleeps(t)
  <2>1. s \in ToSleep \cup AsleepBefore \cup AsleepInside \cup {<<"resume">>}
    BY <1>1 DEF IInv, Calls, Asleep
  <2> QED BY <2>1, <1>1, AfterSteps, AsleepSteps
<1>2. CASE ~Sleeps(t)
  <2>1. s \in Before \cup Inside \cup After
    BY <1>2 DEF IInv, Calls
  <2> QED BY <2>1, <1>2, BeforeSteps, InsideSteps, AfterSteps
<1> QED BY <1>1, <1>2

(* A step under the lock, or before it, leaves the call on its side of it.  *)
LEMMA StaysIn ==
    ASSUME IInv, NEW t \in Takers, NEW s, UNCHANGED <<lock, suspended>>,
           todo' = [todo EXCEPT ![t] = s],
           todo[t] # <<>>, Head(todo[t]) \notin {"lock", "unlock", "suspend", "resume"},
           s = Tail(todo[t]) \/ (Head(todo[t]) \in {"opened", "find"} /\ s = <<"unlock">>)
    PROVE  Calls'
<1> DEFINE T == Before \cup Inside \cup After \cup ToSleep \cup Asleep
<1>1. \/ Sleeps(t) /\ todo[t] \in AsleepBefore /\ s \in AsleepBefore
      \/ Sleeps(t) /\ todo[t] \in AsleepInside /\ s \in AsleepInside
      \/ ~Sleeps(t) /\ todo[t] \in Before /\ s \in Before
      \/ ~Sleeps(t) /\ todo[t] \in Inside /\ s \in Inside
      \/ ~Sleeps(t) /\ todo[t] \in After /\ s \in After
  <2>1. <<"unlock">> \in Inside
    BY DEF Inside
  <2>2. CASE Sleeps(t)
    <3>1. todo[t] \in ToSleep \cup AsleepBefore \cup AsleepInside \cup {<<"resume">>}
      BY <2>2 DEF IInv, Calls, Asleep
    <3>2. todo[t] \in AsleepBefore \cup AsleepInside
      BY <3>1, AfterSteps
    <3>3. Head(todo[t]) \in {"cancel", "close"} /\ s = Tail(todo[t])
      BY <3>2, AsleepSteps
    <3> QED BY <2>2, <3>2, <3>3, AsleepSteps
  <2>3. CASE ~Sleeps(t) /\ s = Tail(todo[t])
    <3>1. todo[t] \in Before \cup Inside \cup After
      BY <2>3 DEF IInv, Calls
    <3> QED BY <2>3, <3>1, BeforeSteps, InsideSteps, AfterSteps
  <2>4. CASE ~Sleeps(t) /\ s # Tail(todo[t])
    BY <2>1, <2>4, Where
  <2> QED BY <2>2, <2>3, <2>4
<1>2. Before \cap Inside = {} /\ Inside \cap After = {} /\ AsleepBefore \cap AsleepInside = {}
  BY BeforeSteps, InsideSteps, AfterSteps, AsleepSteps
<1>3. s \in T /\ s \in IF Sleeps(t) THEN ToSleep \cup Asleep ELSE Before \cup Inside \cup After
  BY <1>1 DEF Asleep
<1>4. (s \in IF Sleeps(t) THEN AsleepInside ELSE Inside) = HasLock(t)
  BY <1>1, <1>2 DEF HasLock
<1>5. Sleeps(t) => todo[t] \in Asleep
  BY <1>1 DEF Asleep
<1>6. todo' \in [Takers -> T] /\ \A u \in Takers : todo'[u] = IF u = t THEN s ELSE todo[u]
  BY <1>3 DEF IInv, Calls
<1> QED BY <1>3, <1>4, <1>5, <1>6 DEF IInv, Calls, HasLock, Sleeps

(* To take or to give back the lock.                                        *)
LEMMA Takes ==
    ASSUME IInv, NEW t \in Takers, NEW s, lock = None, lock' = t, suspended' = suspended,
           todo' = [todo EXCEPT ![t] = s], todo[t] # <<>>, Head(todo[t]) = "lock",
           s = Tail(todo[t]) \/ (~Sleeps(t) /\ s = <<"unlock">>)
    PROVE  Calls'
<1> DEFINE T == Before \cup Inside \cup After \cup ToSleep \cup Asleep
<1>1. /\ s \in IF Sleeps(t) THEN AsleepInside ELSE Inside
      /\ Sleeps(t) => todo[t] \in Asleep
  <2>1. <<"unlock">> \in Inside
    BY DEF Inside
  <2> QED BY <2>1, Where, BeforeSteps, AsleepSteps DEF Asleep
<1>2. s \in T /\ s \in IF Sleeps(t) THEN ToSleep \cup Asleep ELSE Before \cup Inside \cup After
  BY <1>1 DEF Asleep
<1>3. todo' \in [Takers -> T] /\ \A u \in Takers : todo'[u] = IF u = t THEN s ELSE todo[u]
  BY <1>2 DEF IInv, Calls
<1>4. \A u \in Takers : u # t => (lock' = u) = HasLock(u)
  BY BleAssumption DEF IInv, Calls
<1> QED BY <1>1, <1>2, <1>3, <1>4 DEF IInv, Calls, HasLock, Sleeps

LEMMA GivesBack ==
    ASSUME IInv, NEW t \in Takers, lock' = None, suspended' = suspended,
           todo' = [todo EXCEPT ![t] = Tail(todo[t])], todo[t] # <<>>, Head(todo[t]) = "unlock"
    PROVE  Calls'
<1> DEFINE T == Before \cup Inside \cup After \cup ToSleep \cup Asleep
           s == Tail(todo[t])
<1>1. /\ s \in IF Sleeps(t) THEN {<<"resume">>} ELSE After
      /\ todo[t] \in IF Sleeps(t) THEN AsleepInside ELSE Inside
  BY Where, InsideSteps, AsleepSteps
<1>2. s \in T /\ s \in IF Sleeps(t) THEN ToSleep \cup Asleep ELSE Before \cup Inside \cup After
  BY <1>1 DEF Asleep
<1>3. todo' \in [Takers -> T] /\ \A u \in Takers : todo'[u] = IF u = t THEN s ELSE todo[u]
  BY <1>2 DEF IInv, Calls
<1>4. lock = t /\ (Sleeps(t) => todo[t] \in Asleep)
  BY <1>1 DEF IInv, Calls, HasLock, Asleep
<1>5. s \notin IF Sleeps(t) THEN AsleepInside ELSE Inside
  BY <1>1, InsideSteps, AfterSteps, AsleepSteps
<1>6. \A u \in Takers : (lock' = u) = (u # t /\ HasLock(u))
  BY <1>4, BleAssumption DEF IInv, Calls
<1> QED BY <1>2, <1>3, <1>4, <1>5, <1>6 DEF IInv, Calls, HasLock, Sleeps

(* A call begins.                                                           *)
LEMMA CallIInv ==
    ASSUME IInv, NEW t \in Takers, NEW op \in Ops[t], NEW k \in Kbds \cup {None}, Call(t, op, k)
    PROVE  IInv'
<1> DEFINE T == Before \cup Inside \cup After \cup ToSleep \cup Asleep
           s == Steps[op]
<1>1. /\ s \in IF Sleeps(t) THEN ToSleep ELSE Before
      /\ todo' = [todo EXCEPT ![t] = s] /\ UNCHANGED <<state, host, pcR, peers>>
  <2>1. op \in {"pair", "forget", "forgetOne", "scan", "suspend"} /\ (op = "suspend") = Sleeps(t)
    BY BleAssumption DEF Sleeps
  <2>2. /\ Steps["suspend"] \in ToSleep
        /\ \A o \in {"pair", "forget", "forgetOne", "scan"} : Steps[o] \in Before
    BY DEF Steps, ToSleep, Before
  <2> QED BY <2>1, <2>2 DEF Call
<1>2. todo[t] = <<>> /\ ~HasLock(t) /\ s \notin Inside /\ s \notin AsleepInside /\ s \notin Asleep
  <2>1. s \notin Inside /\ s \notin AsleepInside /\ s \notin Asleep
    BY BleAssumption DEF Call, Steps, Inside, AsleepInside, AsleepBefore, Asleep
  <2> QED BY <2>1, InsideSteps, AsleepSteps DEF Call, HasLock
<1>3. todo' \in [Takers -> T] /\ \A u \in Takers : todo'[u] = IF u = t THEN s ELSE todo[u]
  BY <1>1 DEF IInv, Calls
<1>4. Calls'
  BY <1>1, <1>2, <1>3 DEF IInv, Calls, HasLock, Sleeps, state
<1>5. Held'
  BY <1>1, OthersHeld DEF state, host
<1>6. TypeOK' /\ Begun' /\ NeverWaitsAlone'
  BY <1>1 DEF Call, IInv, TypeOK, Begun, NeverWaitsAlone, state, host
<1> QED BY <1>4, <1>5, <1>6 DEF IInv, Held

(* The variables of a call itself.                                          *)
LEMMA LeftTypes ==
    ASSUME IInv, NEW t \in Takers, NEW s, Left(t, s)
    PROVE  /\ arg' \in [Takers -> Kbds \cup {None}] /\ DOMAIN todo' = Takers
           /\ todo' = [todo EXCEPT ![t] = s]
BY DEF Left, IInv, TypeOK

LEMMA Resumes ==
    ASSUME IInv, NEW t \in Takers, Suspend(t) \/ Resume(t)
    PROVE  Calls'
<1> DEFINE T == Before \cup Inside \cup After \cup ToSleep \cup Asleep
<1>1. PICK s : todo' = [todo EXCEPT ![t] = s] /\ lock' = lock /\ Sleeps(t)
               /\ todo[t] \in ToSleep \cup {<<"resume">>}
               /\ \/ s \in AsleepBefore \cup {<<"resume">>} /\ suspended' = TRUE
                  \/ s = <<>> /\ suspended' = FALSE
  <2>1. CASE Suspend(t)
    <3>1. todo[t] # <<>> /\ Head(todo[t]) = "suspend"
      BY <2>1 DEF Suspend, At
    <3>2. Sleeps(t) /\ todo[t] \in ToSleep /\ Tail(todo[t]) \in AsleepBefore
      BY <3>1, Where, AfterSteps
    <3>3. CASE started
      BY <2>1, <3>2, <3>3 DEF Suspend, Goes, Left
    <3>4. CASE ~started
      BY <2>1, <3>2, <3>4 DEF Suspend, Left
    <3> QED BY <3>3, <3>4
  <2>2. CASE Resume(t)
    <3>1. todo[t] # <<>> /\ Head(todo[t]) = "resume"
      BY <2>2 DEF Resume, At
    <3>2. Sleeps(t) /\ todo[t] = <<"resume">> /\ Tail(todo[t]) = <<>>
      BY <3>1, Where, AfterSteps
    <3> QED BY <2>2, <3>2 DEF Resume, Goes, Left
  <2> QED BY <2>1, <2>2
<1>2. /\ s \in ToSleep \cup Asleep /\ s \notin AsleepInside /\ ~HasLock(t)
      /\ s \in Asleep => suspended' = TRUE
  <2>1. <<>> \in ToSleep /\ AsleepBefore \cap AsleepInside = {} /\ <<"resume">> \notin AsleepInside
        /\ <<>> \notin Asleep /\ ToSleep \cap AsleepInside = {}
    BY AfterSteps, AsleepSteps DEF ToSleep, Asleep
  <2> QED BY <1>1, <2>1 DEF Asleep, HasLock
<1>3. s \in T
  BY <1>2
<1>4. todo' \in [Takers -> T] /\ \A u \in Takers : todo'[u] = IF u = t THEN s ELSE todo[u]
  BY <1>1, <1>3 DEF IInv, Calls
<1>5. OneSleeper => \A u \in Takers : Sleeps(u) => u = t
  BY <1>1 DEF OneSleeper
<1> QED BY <1>1, <1>2, <1>4, <1>5 DEF IInv, Calls, HasLock, Sleeps

LEMMA TakerCalls == ASSUME IInv, NEW t \in Takers, TakerStep(t) PROVE Calls'
<1> USE DEF At, Goes, GivesUp, Left
<1>1. CASE Unflag(t) BY <1>1, StaysIn DEF Unflag, state
<1>2. CASE Cancel(t) BY <1>2, StaysIn DEF Cancel, state
<1>3. CASE CloseDev(t) BY <1>3, StaysIn DEF CloseDev, state
<1>4. CASE Open(t) BY <1>4, StaysIn DEF Open, state
<1>5. CASE Opened(t) BY <1>5, StaysIn DEF Opened, state
<1>6. CASE Clear(t) BY <1>6, StaysIn DEF Clear, state
<1>7. CASE Find(t) BY <1>7, StaysIn DEF Find, state
<1>8. CASE Unpair(t) BY <1>8, StaysIn DEF Unpair, state
<1>9. CASE Start(t) BY <1>9, StaysIn DEF Start, state
<1>10. CASE Lock(t) BY <1>10, Takes DEF Lock, Sleeps
<1>11. CASE Unlock(t) BY <1>11, GivesBack DEF Unlock
<1> QED BY <1>1, <1>2, <1>3, <1>4, <1>5, <1>6, <1>7, <1>8, <1>9, <1>10, <1>11, Resumes DEF TakerStep

LEMMA TakerHeld == ASSUME IInv, NEW t \in Takers, TakerStep(t) PROVE Held'
<1>1. /\ events' = events /\ dev' = dev
      /\ \/ link' = link
         \/ Close(dev) \/ Close(arg[t])
  BY DEF TakerStep, Unflag, Cancel, Lock, CloseDev, Open, Opened, Clear, Find, Unpair, Unlock,
         Start, Suspend, Resume, state, host
<1>2. \A k \in Kbds : link[k] # "off" => link'[k] # "off"
  BY <1>1 DEF Close, IInv, TypeOK
<1> QED BY <1>1, <1>2, OthersHeld

LEMMA TakerTypes == ASSUME IInv, NEW t \in Takers, TakerStep(t) PROVE (TypeOK /\ Begun /\ NeverWaitsAlone)'
<1>1. PICK s : Left(t, s)
  BY DEF TakerStep, Unflag, Cancel, Lock, CloseDev, Open, Opened, Clear, Find, Unpair, Unlock,
         Start, Suspend, Resume, Goes, GivesUp
<1>2. arg' \in [Takers -> Kbds \cup {None}] /\ DOMAIN todo' = Takers
  BY <1>1, LeftTypes
<1>3. arg[t] \in Kbds \cup {None}
  BY DEF IInv, TypeOK
<1> USE <1>2, <1>3 DEF IInv, TypeOK, Begun, NeverWaitsAlone, host, state
<1>4. CASE Unflag(t) BY <1>4 DEF Unflag
<1>5. CASE Cancel(t) BY <1>5 DEF Cancel
<1>6. CASE Lock(t)
  <2>1. lock' = t /\ lock # "task" /\ t # "task" /\ giveWay' = FALSE
    BY <1>6, BleAssumption DEF Lock
  <2>2. UNCHANGED <<bonds, paired, dev, suspended, started, wake, link, attempt, events, pcR, peers>>
    BY <1>6 DEF Lock
  <2> QED BY <2>1, <2>2
<1>7. CASE CloseDev(t) BY <1>7 DEF CloseDev, Close
<1>8. CASE Open(t) BY <1>8 DEF Open, CanOpen
<1>9. CASE Opened(t) BY <1>9 DEF Opened
<1>10. CASE Clear(t) BY <1>10 DEF Clear
<1>11. CASE Find(t) BY <1>11 DEF Find, Close
<1>12. CASE Unpair(t) BY <1>12 DEF Unpair, Close
<1>13. CASE Unlock(t)
  <2>1. todo[t] # <<>> /\ Head(todo[t]) = "unlock"
    BY <1>13 DEF Unlock, At
  <2>2. lock = t
    BY <2>1, Where DEF Calls, HasLock
  <2>3. lock' = None /\ lock # "task" /\ None # "task"
    BY <1>13, <2>2, BleAssumption DEF Unlock
  <2>4. UNCHANGED <<bonds, paired, dev, giveWay, suspended, started, wake, link, attempt, events, pcR, peers>>
    BY <1>13 DEF Unlock
  <2> QED BY <2>3, <2>4
<1>14. CASE Start(t) BY <1>14 DEF Start
<1>15. CASE Suspend(t) BY <1>15 DEF Suspend
<1>16. CASE Resume(t) BY <1>16 DEF Resume
<1> QED BY <1>4, <1>5, <1>6, <1>7, <1>8, <1>9, <1>10, <1>11, <1>12, <1>13, <1>14, <1>15, <1>16 DEF TakerStep

-----------------------------------------------------------------------------
LEMMA NextIInv == ASSUME IInv, [Next]_vars PROVE IInv'
<1>1. CASE Opens \/ OpenFails \/ (\E k \in Kbds : Closes(k)) \/ Handle
  BY <1>1, HostIInv
<1>2. CASE TaskStep
  BY <1>2, TaskIInv
<1>3. ASSUME NEW t \in Takers, TakerStep(t) PROVE IInv'
  BY <1>3, TakerCalls, TakerHeld, TakerTypes DEF IInv, Held
<1>4. ASSUME NEW t \in Takers, NEW op \in Ops[t], NEW k \in Kbds \cup {None}, Call(t, op, k)
      PROVE  IInv'
  BY <1>4, CallIInv
<1>5. CASE UNCHANGED vars
  <2>1. Calls'
    BY <1>5 DEF IInv, Calls, HasLock, Sleeps, vars, state, host, tasks
  <2>2. Held'
    BY <1>5, OthersHeld DEF vars, state, host, tasks
  <2>3. TypeOK' /\ Begun' /\ NeverWaitsAlone'
    BY <1>5 DEF IInv, TypeOK, Begun, NeverWaitsAlone, vars, state, host, tasks
  <2> QED BY <2>1, <2>2, <2>3 DEF IInv, Held
<1> QED BY <1>1, <1>2, <1>3, <1>4, <1>5 DEF Next

LEMMA Invariance == Spec => []IInv
<1>1. IInv /\ [Next]_vars => IInv'
  BY NextIInv
<1> QED BY <1>1, InitIInv, PTL DEF Spec

(* Every variable of EspBleKbd keeps to its kind, and the reconnect task has
   the lock exactly while it goes through the keyboards.                    *)
THEOREM TypeCorrect == Spec => []TypeOK
<1>1. IInv => TypeOK
  BY DEF IInv
<1> QED BY <1>1, Invariance, PTL

(* on_hidh() never leaves s_dev at a keyboard that the HID host has freed,
   whatever keyboards come and go and however many tasks pair and forget.    *)
THEOREM DevIsThere == Spec => []NoDanglingDev
<1>1. IInv => NoDanglingDev
  BY DEF IInv
<1> QED BY <1>1, Invariance, PTL

(* reconnect_task() never waits for ever with no keyboard connected.        *)
THEOREM WaitsInCompany == Spec => []NeverWaitsAlone
<1>1. IInv => NeverWaitsAlone
  BY DEF IInv
<1> QED BY <1>1, Invariance, PTL

(* Whoever has an attempt under way, the reconnect task or a task that pairs,
   has esp_ble__take_lock()'s lock.                                         *)
THEOREM OneAtATime == Spec => []OneAttempt
<1>1. ASSUME IInv PROVE OneAttempt
  <2>1. ASSUME NEW t \in Takers, At(t, "opened") PROVE lock = t
    BY <1>1, <2>1, Where DEF At, IInv, Calls, HasLock
  <2> QED BY <1>1, <2>1, BleAssumption DEF OneAttempt, Tries, IInv, TypeOK
<1> QED BY <1>1, Invariance, PTL

(* Between esp_ble_kbd_suspend() and _resume() the task tries no keyboard.  *)
THEOREM QuietWhileAsleep == ASSUME OneSleeper PROVE Spec => QuietAsleep
<1>1. ASSUME IInv, NEW k \in Kbds, Try(k), NEW t \in Takers PROVE ~At(t, "resume")
  <2>1. ~suspended
    BY <1>1 DEF Try, GoesOn
  <2>2. ASSUME At(t, "resume") PROVE FALSE
    <3>1. Sleeps(t) /\ todo[t] \in Asleep
      BY <1>1, <2>2, Where DEF At, Asleep
    <3> QED BY <1>1, <3>1, <2>1 DEF IInv, Calls
  <2> QED BY <2>2
<1>2. IInv => [\A k \in Kbds : Try(k) => \A t \in Takers : ~At(t, "resume")]_vars
  BY <1>1
<1> QED BY <1>2, Invariance, PTL DEF QuietAsleep

-----------------------------------------------------------------------------
(* EspPairUi *)

(* A touch made while nothing waited is the queue's first, and until it is   *)
(* taken the task waits, and the list and the selection stay as they were    *)
(* drawn for it.                                                             *)
Means(ev) == ev.meant # None

IsQueue(q) == \E S : q \in Seq(S)

AsDrawn ==
    /\ wrong = FALSE /\ IsQueue(queue)
    /\ at \in {"loop", "first"} => drawn = PairUi!Button(list, sel)
    /\ place = PairUi!Event(place.kind, place.row, place.meant)
    /\ \A n \in 1 .. Len(queue) : Means(queue[n]) =>
          n = 1 /\ PairUi!Waits /\ queue[n].meant = PairUi!Button(list, sel)

LEMMA QueueGrows ==
    ASSUME NEW q, IsQueue(q), NEW ev
    PROVE  /\ IsQueue(Append(q, ev)) /\ Len(q) \in Nat
           /\ Len(Append(q, ev)) = Len(q) + 1
           /\ \A n \in 1 .. Len(q) : Append(q, ev)[n] = q[n]
           /\ Append(q, ev)[Len(q) + 1] = ev
<1>1. PICK S : q \in Seq(S)
  BY DEF IsQueue
<1>2. q \in Seq(S \cup {ev}) /\ ev \in S \cup {ev}
  BY <1>1
<1>. QED BY <1>2, AppendProperties, LenProperties DEF IsQueue

LEMMA QueueShrinks ==
    ASSUME NEW q, IsQueue(q), q # << >>
    PROVE  /\ IsQueue(Tail(q)) /\ Len(q) \in Nat \ {0} /\ Head(q) = q[1]
           /\ Len(Tail(q)) = Len(q) - 1
           /\ \A n \in 1 .. Len(Tail(q)) : Tail(q)[n] = q[n + 1]
<1>1. PICK S : q \in Seq(S)
  BY DEF IsQueue
<1>. QED BY <1>1 DEF IsQueue

(* One more at the end, which means nothing, or what is drawn.              *)
LEMMA PostedAsDrawn ==
    ASSUME AsDrawn, NEW ev, PairUi!Post(ev), UNCHANGED <<list, sel, drawn, at, busy, wrong>>,
           place' = PairUi!Event(place.kind, place.row, place.meant)' ,
           Means(ev) => queue = << >> /\ PairUi!Waits /\ ev.meant = PairUi!Button(list, sel)
    PROVE  AsDrawn'
<1>0. IsQueue(queue)
  BY DEF AsDrawn
<1>. DEFINE q == Append(queue, ev)
<1>1. /\ IsQueue(q) /\ Len(queue) \in Nat /\ Len(q) = Len(queue) + 1
      /\ \A n \in 1 .. Len(queue) : q[n] = queue[n]
      /\ q[Len(queue) + 1] = ev
  BY <1>0, QueueGrows
<1>2. queue' = q \/ queue' = queue
  BY DEF PairUi!Post
<1>3. queue = << >> => Len(queue) = 0
  OBVIOUS
<1>4. /\ PairUi!Waits' <=> PairUi!Waits
      /\ PairUi!Button(list, sel)' = PairUi!Button(list, sel)
  BY DEF PairUi!Waits, PairUi!Button
<1>. HIDE DEF q
<1>5. CASE queue' = q
  <2>1. IsQueue(queue')
    BY <1>1, <1>5
  <2>2. ASSUME NEW n \in 1 .. Len(queue'), Means(queue'[n])
        PROVE  n = 1 /\ PairUi!Waits /\ queue'[n].meant = PairUi!Button(list, sel)
    <3>1. CASE n \in 1 .. Len(queue)
      BY <1>1, <1>5, <2>2, <3>1 DEF AsDrawn
    <3>2. CASE n = Len(queue) + 1
      BY <1>1, <1>3, <1>5, <2>2, <3>2
    <3>. QED BY <1>1, <1>5, <3>1, <3>2
  <2>. QED BY <1>4, <2>1, <2>2 DEF AsDrawn, Means
<1>6. CASE queue' = queue
  BY <1>4, <1>6 DEF AsDrawn, Means
<1>. QED BY <1>2, <1>5, <1>6

(* Without the first, none of those left means anything: what is drawn may   *)
(* change.                                                                  *)
LEMMA TakenAsDrawn ==
    ASSUME AsDrawn, NEW ev, PairUi!Taken(ev)
    PROVE  /\ IsQueue(queue') /\ \A n \in 1 .. Len(queue') : ~Means(queue'[n])
           /\ Means(ev) => ev.meant = PairUi!Button(list, sel)
<1>1. IsQueue(queue) /\ queue # << >> /\ queue' = Tail(queue) /\ Head(queue) = ev
  BY DEF AsDrawn, PairUi!Taken
<1>2. /\ IsQueue(Tail(queue)) /\ Len(queue) \in Nat \ {0} /\ Head(queue) = queue[1]
      /\ Len(Tail(queue)) = Len(queue) - 1
      /\ \A n \in 1 .. Len(Tail(queue)) : Tail(queue)[n] = queue[n + 1]
  BY <1>1, QueueShrinks
<1>3. ASSUME NEW n \in 1 .. Len(queue') PROVE ~Means(queue'[n])
  <2>1. n + 1 \in 1 .. Len(queue) /\ n + 1 # 1 /\ queue'[n] = queue[n + 1]
    BY <1>1, <1>2
  <2>. QED BY <2>1 DEF AsDrawn
<1>4. 1 \in 1 .. Len(queue) /\ queue[1] = ev
  BY <1>1, <1>2
<1>. QED BY <1>1, <1>2, <1>3, <1>4 DEF AsDrawn

(* While it draws, or has yet to, nothing that is queued means anything.     *)
LEMMA NothingMeant ==
    ASSUME AsDrawn, ~PairUi!Waits, UNCHANGED <<queue, wrong, place>>,
           at' \in {"loop", "first"} => drawn' = PairUi!Button(list, sel)'
    PROVE  AsDrawn'
<1>1. IsQueue(queue') /\ \A n \in 1 .. Len(queue') : ~Means(queue'[n])
  BY DEF AsDrawn
<1>. QED BY <1>1 DEF AsDrawn, Means, PairUi!Event

LEMMA PairStep == [AllNext]_allVars => [PairUi!Next]_pairVars
  BY DEF AllNext, allVars, Moves

LEMMA AsDrawnHolds == AsDrawn /\ [PairUi!Next]_pairVars => AsDrawn'
<1> SUFFICES ASSUME AsDrawn, [PairUi!Next]_pairVars PROVE AsDrawn'
  OBVIOUS
<1> USE DEF PairUi!screen, PairUi!status, PairUi!radio
<1>1. CASE PairUi!Show
  <2>1. queue' = << >> /\ wrong' = FALSE /\ at' = "begin" /\ place' = place
    BY <1>1 DEF PairUi!Show, AsDrawn
  <2>2. << >> \in Seq({}) /\ Len(<< >>) = 0
    OBVIOUS
  <2>. QED BY <2>1, <2>2 DEF AsDrawn, IsQueue, PairUi!Event
<1>2. CASE PairUi!Begin \/ PairUi!BeginHere \/ PairUi!DrawList
  <2>1. /\ ~PairUi!Waits /\ UNCHANGED <<list, sel, queue, wrong, place>>
        /\ drawn' = PairUi!Button(list, sel)
    BY <1>2 DEF PairUi!Begin, PairUi!BeginHere, PairUi!DrawList, PairUi!Waits
  <2>. QED BY <2>1, NothingMeant DEF PairUi!Button
<1>3. CASE PairUi!ScanHere
  <2>1. ~PairUi!Waits /\ UNCHANGED <<queue, wrong, place, drawn>>
    BY <1>3 DEF PairUi!ScanHere, PairUi!Waits
  <2>2. at' \in {"loop", "first"} => drawn = PairUi!Button(list, sel) /\ UNCHANGED <<list, sel>>
    BY <1>3 DEF PairUi!ScanHere, AsDrawn
  <2>. QED BY <2>1, <2>2, NothingMeant DEF PairUi!Button
<1>4. CASE PairUi!ShowScan
  <2>1. ~PairUi!Waits /\ at' = "draw" /\ UNCHANGED <<queue, wrong, place>>
    BY <1>4 DEF PairUi!ShowScan, PairUi!Waits
  <2>. QED BY <2>1, NothingMeant
<1>5. CASE PairUi!Hide
  BY <1>5 DEF PairUi!Hide, AsDrawn, Means, PairUi!Button, PairUi!Waits, PairUi!Event
<1>6. CASE PairUi!TakeScan \/ PairUi!TapRow \/ PairUi!TapClose
  <2>1. \E ev : PairUi!Taken(ev)
    BY <1>6, Zenon DEF PairUi!TakeScan, PairUi!TapRow, PairUi!TapClose
  <2>2. wrong' = FALSE /\ UNCHANGED <<drawn, place>>
    BY <1>6 DEF PairUi!TakeScan, PairUi!TapRow, PairUi!TapClose, AsDrawn
  <2>3. at' \in {"loop", "first"} => UNCHANGED <<at, list, sel>>
    BY <1>6 DEF PairUi!TakeScan, PairUi!TapRow, PairUi!TapClose
  <2>4. at' \in {"loop", "first"} => drawn' = PairUi!Button(list, sel)'
    BY <2>2, <2>3 DEF AsDrawn, PairUi!Button
  <2>. QED BY <2>1, <2>2, <2>4, TakenAsDrawn DEF AsDrawn, Means, PairUi!Event
<1>7. CASE PairUi!TapButton
  <2>1. PICK meant : /\ PairUi!Taken(PairUi!Event("button", 0, meant))
                     /\ wrong' = (wrong \/ meant \notin {None, PairUi!Button(list, sel)})
    BY <1>7, Zenon DEF PairUi!TapButton
  <2>2. PICK ev : ev = PairUi!Event("button", 0, meant)
    OBVIOUS
  <2>3. ev.meant = meant
    BY <2>2 DEF PairUi!Event
  <2>4. /\ IsQueue(queue') /\ \A n \in 1 .. Len(queue') : ~Means(queue'[n])
        /\ Means(ev) => ev.meant = PairUi!Button(list, sel)
    BY <2>1, <2>2, TakenAsDrawn
  <2>5. wrong' = FALSE
    BY <2>1, <2>3, <2>4 DEF AsDrawn, Means
  <2>6. UNCHANGED <<drawn, at, place, list, sel>>
    BY <1>7 DEF PairUi!TapButton
  <2>. QED BY <2>4, <2>5, <2>6 DEF AsDrawn, Means, PairUi!Button, PairUi!Event
<1>8. ASSUME NEW ok \in BOOLEAN, PairUi!PairDone(ok) \/ PairUi!UnpairDone(ok) PROVE AsDrawn'
  <2>1. ~PairUi!Waits /\ UNCHANGED <<queue, wrong, place, drawn>>
    BY <1>8 DEF PairUi!PairDone, PairUi!UnpairDone, PairUi!Waits
  <2>2. at' \in {"loop", "first"} => drawn = PairUi!Button(list, sel) /\ UNCHANGED <<list, sel>>
    BY <1>8 DEF PairUi!PairDone, PairUi!UnpairDone, AsDrawn
  <2>. QED BY <2>1, <2>2, NothingMeant DEF PairUi!Button
<1>9. CASE PairUi!Down
  <2>1. UNCHANGED <<list, sel, drawn, at, queue, busy, wrong>>
    BY <1>9 DEF PairUi!Down
  <2>2. place' = PairUi!Event(place.kind, place.row, place.meant)'
    <3>1. \E kind, row, meant : place' = PairUi!Event(kind, row, meant)
      BY <1>9, Zenon DEF PairUi!Down
    <3>. QED BY <3>1 DEF PairUi!Event
  <2>. QED BY <2>1, <2>2 DEF AsDrawn, Means, PairUi!Button, PairUi!Waits
<1>10. CASE PairUi!Up
  <2>1. UNCHANGED <<list, sel, drawn, at, busy, wrong>> /\ place' = PairUi!Nowhere
    BY <1>10 DEF PairUi!Up
  <2>2. place' = PairUi!Event(place.kind, place.row, place.meant)'
    BY <2>1 DEF PairUi!Nowhere, PairUi!Event
  <2>3. CASE queue' = queue
    BY <2>1, <2>2, <2>3 DEF AsDrawn, Means, PairUi!Button, PairUi!Waits
  <2>4. CASE queue' # queue
    <3>1. PICK ev : /\ ev = [place EXCEPT !.meant = IF @ = PairUi!Promised THEN @ ELSE None]
                    /\ PairUi!Post(ev)
      BY <1>10, <2>4 DEF PairUi!Up
    <3>2. ev.meant = IF place.meant = PairUi!Promised THEN place.meant ELSE None
      BY <3>1 DEF AsDrawn, PairUi!Event
    <3>3. Means(ev) => queue = << >> /\ PairUi!Waits /\ ev.meant = PairUi!Button(list, sel)
      BY <3>2 DEF Means, PairUi!Promised, AsDrawn, PairUi!Waits
    <3>. QED BY <2>1, <2>2, <3>1, <3>3, PostedAsDrawn
  <2>. QED BY <2>3, <2>4
<1>11. CASE PairUi!Scan
  <2>1. ~Means(PairUi!Scanned)
    BY DEF Means, PairUi!Scanned, PairUi!Event
  <2>2. /\ PairUi!Post(PairUi!Scanned) /\ UNCHANGED <<list, sel, drawn, at, busy, wrong, place>>
    BY <1>11 DEF PairUi!Scan
  <2>3. place' = PairUi!Event(place.kind, place.row, place.meant)'
    BY <2>2 DEF AsDrawn, PairUi!Event
  <2>. QED BY <2>1, <2>2, <2>3, PostedAsDrawn
<1>12. CASE PairUi!Connect \/ UNCHANGED pairVars
  BY <1>12 DEF PairUi!Connect, pairVars, AsDrawn, Means, PairUi!Button, PairUi!Waits, PairUi!Event
<1>. QED
  BY <1>1, <1>2, <1>3, <1>4, <1>5, <1>6, <1>7, <1>8, <1>9, <1>10, <1>11, <1>12
     DEF PairUi!Next, PairUi!Task

(* What is acted on is what the button said, of the keyboard it said it of,  *)
(* if the task waited with nothing in its queue as the finger went down and  *)
(* as it came up: whatever was scanned, tapped and drawn before, and whatever *)
(* is posted before the tap is taken (pairui_task()).                        *)
THEOREM ButtonsMeanIt == AllSpec => []DoesWhatItSays
<1>1. AllInit => AsDrawn
  <2>1. << >> \in Seq({}) /\ Len(<< >>) = 0
    OBVIOUS
  <2>. QED
    BY <2>1 DEF AllInit, PairUi!Init, AsDrawn, IsQueue, PairUi!Button, PairUi!Nowhere, PairUi!Event
<1>2. AsDrawn /\ [AllNext]_allVars => AsDrawn'
  BY PairStep, AsDrawnHolds
<1>3. AsDrawn => DoesWhatItSays
  BY DEF AsDrawn, DoesWhatItSays, PairUi!DoesWhatItSays
<1>. QED BY <1>1, <1>2, <1>3, PTL DEF AllSpec
=============================================================================
