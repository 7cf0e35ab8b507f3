-------------------------- MODULE MCNetwork_proofs --------------------------
(***************************************************************************)
(* Proofs about WiFi and what the network is for, with any networks, hosts, *)
(* browsers and callers.  EspNet's come first; those of the services are of *)
(* a part of MCNetwork each, found again in the specification of them all.  *)
(***************************************************************************)
EXTENDS MCNetwork, Integers, TLAPS

-----------------------------------------------------------------------------
(* EspNet: what is left of each command, and where its network is set and   *)
(* the link not yet asked for.                                              *)
Left == [
    connect |-> {
        <<"start", "flag", "unwant", "leave", "config", "want", "connect">>,
        <<"flag", "unwant", "leave", "config", "want", "connect">>,
        <<"unwant", "leave", "config", "want", "connect">>,
        <<"leave", "config", "want", "connect">>, <<"config", "want", "connect">>,
        <<"want", "connect">>, <<"connect">>, <<>>},
    disconnect |-> {<<"unwant", "leave">>, <<"leave">>, <<>>},
    forget |-> {
        <<"flag", "unwant", "start", "leave", "config">>, <<"unwant", "start", "leave", "config">>,
        <<"start", "leave", "config">>, <<"leave", "config">>, <<"config">>, <<>>},
    look |-> {<<"start">>, <<>>}]
Set == {<<"want", "connect">>, <<"connect">>}

TypeOK ==
    /\ configured \in BOOLEAN /\ stored \in Nets \cup {None}
    /\ want \in BOOLEAN /\ noRejoin \in BOOLEAN /\ started \in BOOLEAN
    /\ suspended \in BOOLEAN /\ wanted \in BOOLEAN /\ slept \in BOOLEAN
    /\ lock \in {None, "boot", "vim"} /\ pcS \in {"idle", "start", "mark"}
    /\ radio \in {"none", "on", "off"} /\ link \in {"down", "joining", "joined"}
    /\ on \in Nets \cup {None}
    /\ events \in Seq({"start", "disconnected"}) /\ Len(events) <= MaxEvents
    /\ pcE \in {"idle", "want", "connect"} /\ boot \in {<<>>, <<"start">>}
    /\ cmd \in [op : {"connect", "disconnect", "forget", "look"}, net : Nets \cup {None}]
    /\ todo \in Left[cmd.op]
    /\ pcP \in {"awake", "unwant", "stop", "asleep", "start"}
    /\ said \in {"none", "failed", "connect", "disconnect", "forget"}
    /\ forgot \in {"no", "now", "again"}

(* Vim has the lock only for the start it is at.                            *)
LockIsAtStart == lock = "vim" => todo # <<>> /\ Head(todo) = "start"

(* A forget ends what is in flash of the last connect, and a restart what is
   not: nothing is left that would join.                                    *)
Forgotten ==
    /\ forgot # "no" => ~configured /\ cmd.op # "connect"
    /\ forgot = "again" => ~want /\ link = "down" /\ pcE = "idle"

(* Whoever joined, the link is on the network stored, but between a connect's
   setting it and asking for the link.                                      *)
OnIsStored == said = "connect" /\ link # "down" => on = stored \/ todo \in Set

NetInv == TypeOK /\ LockIsAtStart /\ Forgotten /\ OnIsStored

(* Where a command goes from each of its steps.                             *)
LEMMA LeftOfConnect ==
    \A s \in Left.connect : s # <<>> =>
        /\ Head(s) \in {"start", "flag", "unwant", "leave", "config", "want", "connect"}
        /\ Tail(s) \in Left.connect
        /\ Head(s) \in {"config", "want"} => Tail(s) \in Set
        /\ s \in Set => Head(s) \in {"want", "connect"}
<1> SUFFICES ASSUME NEW s \in Left.connect, s # <<>>
             PROVE  /\ Head(s) \in {"start", "flag", "unwant", "leave", "config", "want", "connect"}
                    /\ Tail(s) \in Left.connect
                    /\ Head(s) \in {"config", "want"} => Tail(s) \in Set
                    /\ s \in Set => Head(s) \in {"want", "connect"}
  OBVIOUS
<1>1. CASE s = <<"start", "flag", "unwant", "leave", "config", "want", "connect">>
  BY <1>1 DEF Left, Set
<1>2. CASE s = <<"flag", "unwant", "leave", "config", "want", "connect">>
  BY <1>2 DEF Left, Set
<1>3. CASE s = <<"unwant", "leave", "config", "want", "connect">>
  BY <1>3 DEF Left, Set
<1>4. CASE s = <<"leave", "config", "want", "connect">>
  BY <1>4 DEF Left, Set
<1>5. CASE s = <<"config", "want", "connect">>
  BY <1>5 DEF Left, Set
<1>6. CASE s = <<"want", "connect">>
  BY <1>6 DEF Left, Set
<1>7. CASE s = <<"connect">>
  BY <1>7 DEF Left, Set
<1> QED BY <1>1, <1>2, <1>3, <1>4, <1>5, <1>6, <1>7 DEF Left

LEMMA LeftOfOthers ==
    \A op \in {"disconnect", "forget", "look"} : \A s \in Left[op] : s # <<>> =>
        /\ Head(s) \in {"start", "flag", "unwant", "leave", "config"}
        /\ Tail(s) \in Left[op]
        /\ Head(s) \in {"flag", "config"} => op = "forget"
        /\ s \notin Set
<1> SUFFICES ASSUME NEW op \in {"disconnect", "forget", "look"}, NEW s \in Left[op], s # <<>>
             PROVE  /\ Head(s) \in {"start", "flag", "unwant", "leave", "config"}
                    /\ Tail(s) \in Left[op]
                    /\ Head(s) \in {"flag", "config"} => op = "forget"
                    /\ s \notin Set
  OBVIOUS
<1>1. CASE op = "disconnect"
  <2>1. s \in Left.disconnect
    BY <1>1
  <2>2. CASE s = <<"unwant", "leave">>
    BY <1>1, <2>2 DEF Left, Set
  <2>3. CASE s = <<"leave">>
    BY <1>1, <2>3 DEF Left, Set
  <2> QED BY <2>1, <2>2, <2>3 DEF Left
<1>2. CASE op = "forget"
  <2>1. s \in Left.forget
    BY <1>2
  <2>2. CASE s = <<"flag", "unwant", "start", "leave", "config">>
    BY <1>2, <2>2 DEF Left, Set
  <2>3. CASE s = <<"unwant", "start", "leave", "config">>
    BY <1>2, <2>3 DEF Left, Set
  <2>4. CASE s = <<"start", "leave", "config">>
    BY <1>2, <2>4 DEF Left, Set
  <2>5. CASE s = <<"leave", "config">>
    BY <1>2, <2>5 DEF Left, Set
  <2>6. CASE s = <<"config">>
    BY <1>2, <2>6 DEF Left, Set
  <2> QED BY <2>1, <2>2, <2>3, <2>4, <2>5, <2>6 DEF Left
<1>3. CASE op = "look"
  <2>1. s \in Left.look
    BY <1>3
  <2>2. CASE s = <<"start">>
    BY <1>3, <2>2 DEF Left, Set
  <2> QED BY <2>1, <2>2 DEF Left
<1> QED BY <1>1, <1>2, <1>3

(* A command's steps are the first of what is left of it, and none of it.    *)
LEMMA LeftWhole ==
    \A op \in {"connect", "disconnect", "forget", "look"} :
        /\ Steps[op] \in Left[op] /\ <<>> \in Left[op]
        /\ Steps[op] # <<>> /\ Steps[op] \notin Set /\ <<>> \notin Set
BY DEF Steps, Left, Set

(* A task's step is one of its command's.                                   *)
LEMMA AtStep ==
    ASSUME TypeOK, todo # <<>>
    PROVE  /\ Tail(todo) \in Left[cmd.op]
           /\ Head(todo) \in {"want", "connect"} => cmd.op = "connect"
           /\ Head(todo) \in {"flag", "config"} => cmd.op \in {"connect", "forget"}
           /\ cmd.op = "connect" /\ Head(todo) \in {"config", "want"} => Tail(todo) \in Set
           /\ todo \in Set => cmd.op = "connect" /\ Head(todo) \in {"want", "connect"}
<1>1. CASE cmd.op = "connect"
  BY <1>1, LeftOfConnect DEF TypeOK
<1>2. CASE cmd.op \in {"disconnect", "forget", "look"}
  BY <1>2, LeftOfOthers DEF TypeOK
<1> QED BY <1>1, <1>2 DEF TypeOK

LEMMA NetBegins == Init => NetInv
<1> SUFFICES ASSUME Init PROVE NetInv
  OBVIOUS
<1>1. TypeOK
  <2>1. cmd \in [op : {"connect", "disconnect", "forget", "look"}, net : Nets \cup {None}]
        /\ todo \in Left[cmd.op]
    BY LeftWhole DEF Init
  <2>2. events \in Seq({"start", "disconnected"}) /\ Len(events) <= MaxEvents
    BY NetAssumption DEF Init
  <2> QED BY <2>1, <2>2 DEF Init, TypeOK
<1> QED BY <1>1, NetAssumption DEF Init, NetInv, LockIsAtStart, Forgotten, OnIsStored

-----------------------------------------------------------------------------
(* The driver's calls.                                                      *)
LEMMA PostTyped ==
    ASSUME TypeOK, NEW e \in {"start", "disconnected"}, Post(e)
    PROVE  events' \in Seq({"start", "disconnected"}) /\ Len(events') <= MaxEvents
<1>1. Len(events') = Len(events) + 1 /\ events' \in Seq({"start", "disconnected"})
  BY DEF Post, TypeOK
<1> QED BY <1>1, NetAssumption DEF Post, TypeOK

LEMMA LeaveTyped ==
    ASSUME TypeOK, WifiLeave
    PROVE  /\ link' = "down" /\ on' = None
           /\ events' \in Seq({"start", "disconnected"}) /\ Len(events') <= MaxEvents
BY PostTyped DEF WifiLeave, TypeOK

LEMMA ConnectTyped ==
    ASSUME TypeOK, WifiConnect
    PROVE  /\ link' \in {"down", "joining", "joined"} /\ on' \in Nets \cup {None}
           /\ radio' = radio /\ events' = events
           /\ \/ CanConnect /\ link' = "joining" /\ on' = stored
              \/ ~CanConnect /\ link' = link /\ on' = on
BY DEF WifiConnect, TypeOK

(* The link comes up, or is lost.                                           *)
LEMMA Links == ASSUME NetInv, Join \/ Drop PROVE NetInv'
<1>1. UNCHANGED <<flash, flags, radio, start, tasks, hist>>
  BY DEF Join, Drop
<1>2. UNCHANGED <<configured, stored, want, noRejoin, started, suspended, wanted, radio, lock, pcS,
                  pcE, boot, todo, cmd, pcP, said, slept, forgot>>
  BY <1>1 DEF flash, flags, start, tasks, hist
<1>3. /\ link # "down" /\ link' \in {"down", "joined"} /\ on' \in Nets \cup {None}
      /\ link' # "down" => on' = on
      /\ events' \in Seq({"start", "disconnected"}) /\ Len(events') <= MaxEvents
  <2>1. CASE Join
    BY <2>1 DEF Join, NetInv, TypeOK
  <2>2. CASE Drop
    BY <2>2, LeaveTyped DEF Drop, NetInv
  <2> QED BY <2>1, <2>2
<1>4. TypeOK'
  BY <1>2, <1>3 DEF NetInv, TypeOK
<1>5. LockIsAtStart' /\ Forgotten' /\ OnIsStored'
  BY <1>2, <1>3 DEF NetInv, LockIsAtStart, Forgotten, OnIsStored
<1> QED BY <1>4, <1>5 DEF NetInv

-----------------------------------------------------------------------------
(* The driver's start.                                                      *)
LEMMA StartedTask ==
    ASSUME TypeOK, NEW t \in {"boot", "vim"}, NEW ok \in BOOLEAN, Started(t, ok),
           t = "vim" => todo # <<>> /\ Head(todo) = "start"
    PROVE  /\ boot' \in {<<>>, <<"start">>} /\ todo' \in Left[cmd.op]
           /\ said' \in {said, "failed"} /\ (todo \in Set => todo' = todo)
           /\ t = "boot" => todo' = todo
<1>1. CASE t = "boot"
  BY <1>1 DEF Started, TypeOK
<1>2. CASE t = "vim"
  <2>1. todo' \in {Tail(todo), <<>>} /\ said' \in {said, "failed"} /\ boot' = boot
    BY <1>2 DEF Started
  <2>2. <<>> \in Left[cmd.op]
    BY LeftWhole DEF TypeOK
  <2> QED BY <1>2, <2>1, <2>2, AtStep DEF TypeOK
<1> QED BY <1>1, <1>2

LEMMA StartSteps == ASSUME NetInv, StartStep PROVE NetInv'
<1>1. ASSUME NEW t \in {"boot", "vim"}, TakeLock(t)
      PROVE  NetInv'
  <2>1. UNCHANGED <<configured, stored, want, noRejoin, started, suspended, wanted, radio, link, on,
                    events, pcE, cmd, pcP, slept, forgot>>
    BY <1>1 DEF TakeLock, flash, flags, driver
  <2>2. t = "vim" => todo # <<>> /\ Head(todo) = "start"
    BY <1>1 DEF TakeLock, AtStart
  <2>3. \/ Started(t, TRUE) /\ lock' = None /\ pcS' = pcS
        \/ lock' = t /\ pcS' = "start" /\ boot' = boot /\ todo' = todo /\ said' = said
    BY <1>1 DEF TakeLock
  <2>4. /\ boot' \in {<<>>, <<"start">>} /\ todo' \in Left[cmd.op]
        /\ said' \in {said, "failed"} /\ (todo \in Set => todo' = todo)
    BY <2>2, <2>3, StartedTask DEF NetInv, TypeOK
  <2>8. lock' \in {None, "boot", "vim"} /\ pcS' \in {"idle", "start", "mark"}
    BY <2>3 DEF NetInv, TypeOK
  <2>9. said' \in {"none", "failed", "connect", "disconnect", "forget"}
    BY <2>4 DEF NetInv, TypeOK
  <2>6. TypeOK'
    BY <2>1, <2>4, <2>8, <2>9 DEF NetInv, TypeOK
  <2>7. OnIsStored'
    BY <2>1, <2>4 DEF NetInv, OnIsStored
  <2>5. LockIsAtStart'
    BY <2>2, <2>3, NetAssumption DEF LockIsAtStart
  <2> QED BY <2>1, <2>5, <2>6, <2>7 DEF NetInv, Forgotten
<1>2. ASSUME NEW t \in {"boot", "vim"}, StartFails(t) \/ MarkStarted(t)
      PROVE  NetInv'
  <2>1. UNCHANGED <<configured, stored, want, noRejoin, suspended, wanted, radio, link, on,
                    events, pcE, cmd, pcP, slept, forgot>>
    BY <1>2 DEF StartFails, MarkStarted, flash, flags, driver
  <2>2. /\ lock = t /\ lock' = None /\ pcS' = "idle" /\ started' \in {started, TRUE}
        /\ Started(t, FALSE) \/ Started(t, TRUE)
    BY <1>2 DEF StartFails, MarkStarted, flags
  <2>3. t = "vim" => todo # <<>> /\ Head(todo) = "start"
    BY <2>2 DEF NetInv, LockIsAtStart
  <2>4. /\ boot' \in {<<>>, <<"start">>} /\ todo' \in Left[cmd.op]
        /\ said' \in {said, "failed"} /\ (todo \in Set => todo' = todo)
    BY <2>2, <2>3, StartedTask DEF NetInv
  <2>7. started' \in BOOLEAN
    BY <2>2 DEF NetInv, TypeOK
  <2>8. said' \in {"none", "failed", "connect", "disconnect", "forget"}
    BY <2>4 DEF NetInv, TypeOK
  <2>5. TypeOK'
    BY <2>1, <2>2, <2>4, <2>7, <2>8 DEF NetInv, TypeOK
  <2>6. OnIsStored'
    BY <2>1, <2>4 DEF NetInv, OnIsStored
  <2> QED BY <2>1, <2>2, <2>5, <2>6, NetAssumption DEF NetInv, LockIsAtStart, Forgotten
<1>3. ASSUME StartRadio
      PROVE  NetInv'
  <2>1. /\ UNCHANGED <<configured, stored, want, noRejoin, started, suspended, wanted, link, on, lock,
                       pcE, boot, todo, cmd, pcP, said, slept, forgot>>
        /\ pcS' = "mark" /\ radio' = "on" /\ Post("start")
    BY <1>3 DEF StartRadio, WifiStart, flash, flags, tasks, hist
  <2> QED BY <2>1, PostTyped DEF NetInv, TypeOK, LockIsAtStart, Forgotten, OnIsStored
<1> QED BY <1>1, <1>2, <1>3 DEF StartStep

-----------------------------------------------------------------------------
(* Vim's commands.                                                          *)
LEMMA Commands ==
    ASSUME NetInv, NEW op \in {"connect", "disconnect", "forget", "look"},
           NEW n \in Nets \cup {None}, Command(op, n)
    PROVE  NetInv'
<1>1. /\ UNCHANGED <<configured, stored, want, noRejoin, started, suspended, wanted, radio, link, on,
                     events, lock, pcS, pcE, boot, pcP, slept>>
      /\ todo = <<>> /\ cmd' = [op |-> op, net |-> n] /\ todo' \in {<<>>, Steps[op]}
      /\ said' = said \/ (op = "disconnect" /\ said' = op)
      /\ forgot' = IF op = "connect" THEN "no" ELSE forgot
  BY DEF Command, flash, flags, driver, start, NetInv, TypeOK
<1>2. TypeOK'
  <2>1. cmd' \in [op : {"connect", "disconnect", "forget", "look"}, net : Nets \cup {None}]
        /\ cmd'.op = op
    BY <1>1
  <2>2. todo' \in Left[cmd'.op]
    BY <1>1, <2>1, LeftWhole
  <2>3. said' \in {"none", "failed", "connect", "disconnect", "forget"}
    BY <1>1 DEF NetInv, TypeOK
  <2>4. forgot' \in {"no", "now", "again"}
    BY <1>1 DEF NetInv, TypeOK
  <2> QED BY <1>1, <2>1, <2>2, <2>3, <2>4 DEF NetInv, TypeOK
<1>3. LockIsAtStart' /\ OnIsStored'
  BY <1>1, LeftWhole DEF NetInv, LockIsAtStart, OnIsStored
<1>4. Forgotten'
  BY <1>1 DEF NetInv, Forgotten
<1> QED BY <1>2, <1>3, <1>4 DEF NetInv

LEMMA FlagStep == ASSUME NetInv, Flag PROVE NetInv'
<1>1. /\ UNCHANGED <<stored, want, noRejoin, started, suspended, wanted, radio, link, on,
                     events, lock, pcS, pcE, boot, pcP, slept>>
      /\ todo # <<>> /\ Head(todo) = "flag"
  BY DEF Flag, At, flags, driver, start
<1>2. CASE /\ cmd = [op |-> "connect", net |-> None] /\ stored = None
           /\ todo' = <<>> /\ said' = "failed" /\ UNCHANGED <<configured, cmd, forgot>>
  <2>1. todo' \in Left[cmd'.op]
    BY <1>2, LeftWhole DEF NetInv, TypeOK
  <2> QED BY <1>1, <1>2, <2>1 DEF NetInv, TypeOK, LockIsAtStart, Forgotten, OnIsStored
<1>3. CASE /\ configured' = (cmd.op = "connect") /\ todo' = Tail(todo) /\ said' = said
           /\ cmd' = IF cmd = [op |-> "connect", net |-> None] THEN [cmd EXCEPT !.net = stored] ELSE cmd
           /\ forgot' = IF cmd.op = "forget" THEN "now" ELSE forgot
  <2>1. cmd' \in [op : {"connect", "disconnect", "forget", "look"}, net : Nets \cup {None}]
        /\ cmd'.op = cmd.op
    BY <1>3 DEF NetInv, TypeOK
  <2>2. todo' \in Left[cmd'.op] /\ todo \notin Set /\ cmd.op \in {"connect", "forget"}
    BY <1>1, <1>3, <2>1, AtStep DEF NetInv
  <2>3. forgot' \in {"no", "now", "again"}
    BY <1>3 DEF NetInv, TypeOK
  <2>4. configured' \in BOOLEAN
    BY <1>3
  <2>5. TypeOK'
    BY <1>1, <1>3, <2>1, <2>2, <2>3, <2>4 DEF NetInv, TypeOK
  <2>6. Forgotten'
    BY <1>1, <1>3, <2>1, <2>2 DEF NetInv, Forgotten
  <2>7. LockIsAtStart' /\ OnIsStored'
    BY <1>1, <1>3, <2>2 DEF NetInv, LockIsAtStart, OnIsStored
  <2> QED BY <2>5, <2>6, <2>7 DEF NetInv
<1> QED BY <1>2, <1>3 DEF Flag, Goes

(* The steps of a command that leave flash alone, ...                       *)
LEMMA LinkSteps == ASSUME NetInv, Unwant \/ Leave \/ Want \/ Connect PROVE NetInv'
<1>1. /\ UNCHANGED <<configured, stored, noRejoin, started, suspended, wanted, radio, lock, pcS,
                     pcE, boot, cmd, pcP, slept, forgot>>
      /\ todo # <<>> /\ todo' = Tail(todo)
      /\ Head(todo) \in {"unwant", "leave", "want", "connect"}
  BY DEF Unwant, Leave, Want, Connect, At, Goes, flash, flags, driver, start, hist, WifiConnect
<1>2. todo' \in Left[cmd.op] /\ (Head(todo) \in {"want", "connect"} => cmd.op = "connect")
  BY <1>1, AtStep DEF NetInv
<1>3. CASE Unwant \/ Leave
  <2>1. /\ want' = want \/ want' = FALSE
        /\ said' = said \/ said' = "disconnect"
        /\ UNCHANGED <<link, on, events>> \/ WifiLeave
    BY <1>3 DEF Unwant, Leave, NetInv, TypeOK, flags, driver, hist
  <2>8. todo \notin Set
    BY <1>1, <1>3, AtStep DEF Unwant, Leave, At, NetInv
  <2>2. /\ link' \in {"down", "joining", "joined"} /\ on' \in Nets \cup {None}
        /\ events' \in Seq({"start", "disconnected"}) /\ Len(events') <= MaxEvents
        /\ link' = "down" \/ (link' = link /\ on' = on)
    BY <2>1, LeaveTyped DEF NetInv, TypeOK
  <2>3. want' \in BOOLEAN
    BY <2>1 DEF NetInv, TypeOK
  <2>4. said' \in {"none", "failed", "connect", "disconnect", "forget"}
    BY <2>1 DEF NetInv, TypeOK
  <2>5. TypeOK'
    BY <1>1, <1>2, <2>2, <2>3, <2>4 DEF NetInv, TypeOK
  <2>6. LockIsAtStart' /\ OnIsStored'
    BY <1>1, <2>1, <2>2, <2>8 DEF NetInv, LockIsAtStart, OnIsStored
  <2>7. Forgotten'
    BY <1>1, <2>1, <2>2 DEF NetInv, Forgotten
  <2> QED BY <2>5, <2>6, <2>7 DEF NetInv
<1>4. CASE Want
  <2>1. want' = TRUE /\ UNCHANGED <<link, on, events, said>> /\ Head(todo) = "want"
    BY <1>4 DEF Want, At, driver, hist
  <2>2. cmd.op = "connect" /\ todo' \in Set
    BY <1>1, <1>2, <2>1, AtStep DEF NetInv
  <2>3. TypeOK'
    BY <1>1, <1>2, <2>1 DEF NetInv, TypeOK
  <2> QED BY <1>1, <2>1, <2>2, <2>3 DEF NetInv, LockIsAtStart, Forgotten, OnIsStored
<1>5. CASE Connect
  <2>1. /\ want' = want /\ WifiConnect /\ Head(todo) = "connect"
        /\ said' = IF CanConnect THEN cmd.op ELSE "failed"
    BY <1>5 DEF Connect, At, flags
  <2>2. cmd.op = "connect"
    BY <1>2, <2>1
  <2>3. TypeOK'
    BY <1>1, <1>2, <2>1, <2>2, ConnectTyped DEF NetInv, TypeOK
  <2> QED BY <1>1, <2>1, <2>2, <2>3, ConnectTyped DEF NetInv, LockIsAtStart, Forgotten, OnIsStored
<1> QED BY <1>3, <1>4, <1>5

(* ... and the one that keeps a network there.                              *)
LEMMA ConfigStep == ASSUME NetInv, Config PROVE NetInv'
<1>1. /\ UNCHANGED <<configured, want, noRejoin, started, suspended, wanted, radio, link, on, events,
                     lock, pcS, pcE, boot, cmd, pcP, slept, forgot>>
      /\ todo # <<>> /\ Head(todo) = "config"
      /\ \/ todo' = <<>> /\ said' = "failed" /\ stored' = stored
         \/ /\ todo' = Tail(todo) /\ stored' = cmd.net
            /\ said' = IF cmd.op = "forget" THEN cmd.op ELSE said
  BY DEF Config, At, Goes, flags, driver, start
<1>2. todo' \in Left[cmd.op] /\ cmd.op \in {"connect", "forget"}
  BY <1>1, AtStep, LeftWhole DEF NetInv, TypeOK
<1>3. stored' \in Nets \cup {None}
  BY <1>1 DEF NetInv, TypeOK
<1>4. said' \in {"none", "failed", "connect", "disconnect", "forget"}
  BY <1>1 DEF NetInv, TypeOK
<1>5. TypeOK'
  BY <1>1, <1>2, <1>3, <1>4 DEF NetInv, TypeOK
<1>6. OnIsStored'
  <2>1. CASE cmd.op = "forget" \/ said' = "failed"
    BY <1>1, <2>1 DEF OnIsStored
  <2>2. CASE cmd.op = "connect" /\ said' # "failed"
    BY <1>1, <2>2, AtStep DEF NetInv, OnIsStored
  <2> QED BY <1>2, <2>1, <2>2
<1>7. LockIsAtStart' /\ Forgotten'
  BY <1>1 DEF NetInv, LockIsAtStart, Forgotten
<1> QED BY <1>5, <1>6, <1>7 DEF NetInv

-----------------------------------------------------------------------------
(* The event loop: after a forget it joins nothing, as want is down and the
   start of a boot was not asked for.                                       *)
LEMMA EventSteps == ASSUME NetInv, EventStep PROVE NetInv'
<1>1. UNCHANGED <<configured, stored, started, suspended, wanted, radio, lock, pcS,
                  boot, todo, cmd, pcP, said, slept, forgot>>
  BY DEF EventStep, Handle, RejoinWant, Rejoin, flash, flags, driver, start, tasks, hist, WifiConnect
<1>2. CASE Handle
  <2>1. UNCHANGED <<want, link, on>> /\ events # <<>> /\ events' = Tail(events)
    BY <1>2 DEF Handle, flash, start, hist
  <2>2. noRejoin' \in BOOLEAN
    BY <1>2 DEF Handle, NetInv, TypeOK
  <2>3. /\ pcE' \in {"idle", "want", "connect"}
        /\ pcE' # "idle" => configured \/ want
    BY <1>2 DEF Handle
  <2>4. events' \in Seq({"start", "disconnected"}) /\ Len(events') <= MaxEvents
    <3>1. Len(events') = Len(events) - 1 /\ events' \in Seq({"start", "disconnected"})
      BY <2>1 DEF NetInv, TypeOK
    <3> QED BY <3>1, NetAssumption DEF NetInv, TypeOK
  <2>5. TypeOK'
    BY <1>1, <2>1, <2>2, <2>3, <2>4 DEF NetInv, TypeOK
  <2>6. LockIsAtStart' /\ OnIsStored'
    BY <1>1, <2>1 DEF NetInv, LockIsAtStart, OnIsStored
  <2>7. Forgotten'
    BY <1>1, <2>1, <2>3 DEF NetInv, Forgotten
  <2> QED BY <2>5, <2>6, <2>7 DEF NetInv
<1>3. CASE RejoinWant
  <2>1. UNCHANGED <<noRejoin, link, on, events>> /\ pcE = "want" /\ pcE' = "connect" /\ want' = TRUE
    BY <1>3 DEF RejoinWant, driver
  <2>2. TypeOK'
    BY <1>1, <2>1 DEF NetInv, TypeOK
  <2> QED BY <1>1, <2>1, <2>2 DEF NetInv, LockIsAtStart, Forgotten, OnIsStored
<1>4. CASE Rejoin
  <2>1. UNCHANGED <<want, noRejoin>> /\ pcE = "connect" /\ pcE' = "idle" /\ WifiConnect
    BY <1>4 DEF Rejoin, flags
  <2>2. TypeOK'
    BY <1>1, <2>1, ConnectTyped DEF NetInv, TypeOK
  <2> QED BY <1>1, <2>1, <2>2, ConnectTyped DEF NetInv, LockIsAtStart, Forgotten, OnIsStored
<1> QED BY <1>2, <1>3, <1>4 DEF EventStep

(* The power task takes the link down, and never up.                        *)
LEMMA PowerSteps == ASSUME NetInv, PowerStep PROVE NetInv'
<1>1. UNCHANGED <<configured, stored, lock, pcS, pcE, boot, todo, cmd, said, forgot, started>>
  BY DEF PowerStep, Suspend, SuspendUnwant, SuspendStop, Resume, ResumeStart, PowerUnchanged,
         flash, start, flags
<1>2. /\ want' \in {want, FALSE} /\ wanted' \in {wanted, want} /\ slept' \in {slept, TRUE}
      /\ suspended' \in {suspended, TRUE, FALSE} /\ noRejoin' \in {noRejoin, ~wanted}
      /\ pcP' \in {"awake", "unwant", "stop", "asleep", "start"} /\ radio' \in {radio, "on", "off"}
  BY DEF PowerStep, Suspend, SuspendUnwant, SuspendStop, Resume, ResumeStart, WifiStart, flags, driver
<1>3. UNCHANGED <<link, on, events>> \/ WifiLeave \/ (link' = link /\ on' = on /\ Post("start"))
  BY DEF PowerStep, Suspend, SuspendUnwant, SuspendStop, Resume, ResumeStart, WifiStart, driver
<1>4. /\ link' \in {"down", "joining", "joined"} /\ on' \in Nets \cup {None}
      /\ events' \in Seq({"start", "disconnected"}) /\ Len(events') <= MaxEvents
      /\ link' = "down" \/ (link' = link /\ on' = on)
  <2>1. CASE UNCHANGED <<link, on, events>>
    BY <2>1 DEF NetInv, TypeOK
  <2>2. CASE WifiLeave
    BY <2>2, LeaveTyped DEF NetInv
  <2>3. CASE link' = link /\ on' = on /\ Post("start")
    BY <2>3, PostTyped DEF NetInv, TypeOK
  <2> QED BY <1>3, <2>1, <2>2, <2>3
<1>5. want' \in BOOLEAN /\ wanted' \in BOOLEAN /\ slept' \in BOOLEAN
  BY <1>2 DEF NetInv, TypeOK
<1>6. suspended' \in BOOLEAN /\ noRejoin' \in BOOLEAN
  BY <1>2 DEF NetInv, TypeOK
<1>7. radio' \in {"none", "on", "off"}
  BY <1>2 DEF NetInv, TypeOK
<1>8. TypeOK'
  BY <1>1, <1>2, <1>4, <1>5, <1>6, <1>7 DEF NetInv, TypeOK
<1>9. LockIsAtStart' /\ OnIsStored'
  BY <1>1, <1>4 DEF NetInv, LockIsAtStart, OnIsStored
<1>10. Forgotten'
  <2>1. want' => want
    BY <1>2
  <2> QED BY <1>1, <1>4, <2>1 DEF NetInv, Forgotten
<1> QED BY <1>8, <1>9, <1>10 DEF NetInv

LEMMA Restarts == ASSUME NetInv, Restart PROVE NetInv'
<1>1. /\ UNCHANGED <<configured, stored>> /\ want' = FALSE /\ link' = "down" /\ pcE' = "idle"
      /\ todo' = <<>> /\ cmd' = [op |-> "look", net |-> None] /\ said' = "none" /\ lock' = None
      /\ forgot' = IF forgot = "no" THEN "no" ELSE "again"
  BY DEF Restart, Booted, flash
<1>2. /\ noRejoin' = FALSE /\ started' = FALSE /\ suspended' = FALSE /\ wanted' = FALSE
      /\ radio' = "none" /\ on' = None /\ events' = <<>> /\ pcS' = "idle"
      /\ boot' \in {<<>>, <<"start">>} /\ pcP' = "awake" /\ slept' = FALSE
  BY DEF Restart, Booted
<1>3. /\ cmd' \in [op : {"connect", "disconnect", "forget", "look"}, net : Nets \cup {None}]
      /\ cmd'.op = "look" /\ todo' \in Left[cmd'.op]
  BY <1>1, LeftWhole
<1>4. events' \in Seq({"start", "disconnected"}) /\ Len(events') <= MaxEvents
  BY <1>2, NetAssumption
<1>5. forgot' \in {"no", "now", "again"}
  BY <1>1
<1>6. TypeOK'
  BY <1>1, <1>2, <1>3, <1>4, <1>5 DEF NetInv, TypeOK
<1>7. LockIsAtStart' /\ OnIsStored'
  BY <1>1, NetAssumption DEF LockIsAtStart, OnIsStored
<1>8. Forgotten'
  BY <1>1, <1>3 DEF NetInv, Forgotten
<1> QED BY <1>6, <1>7, <1>8 DEF NetInv

LEMMA NetStep == ASSUME NetInv, [Next]_vars PROVE NetInv'
<1>1. CASE UNCHANGED vars
  <2>1. UNCHANGED <<configured, stored, want, noRejoin, started, suspended, wanted, radio, link, on,
                    events, lock, pcS, pcE, boot, todo, cmd, pcP, said, slept, forgot>>
    BY <1>1 DEF vars, flash, flags, driver, start, tasks, hist
  <2>2. TypeOK'
    BY <2>1 DEF NetInv, TypeOK
  <2> QED BY <2>1, <2>2 DEF NetInv, LockIsAtStart, Forgotten, OnIsStored
<1>2. ASSUME Next PROVE NetInv'
  <2>1. CASE \E n \in Nets \cup {None} : Command("connect", n)
    BY <2>1, Commands
  <2>2. CASE \E op \in {"disconnect", "forget", "look"} : Command(op, None)
    BY <2>2, Commands
  <2>3. CASE VimStep
    BY <2>3, FlagStep, LinkSteps, ConfigStep DEF VimStep
  <2> QED BY <1>2, <2>1, <2>2, <2>3, StartSteps, EventSteps, PowerSteps, Links, Restarts DEF Next
<1> QED BY <1>1, <1>2

LEMMA NetInvariant == Spec => []NetInv
BY NetBegins, NetStep, PTL DEF Spec

(* Every variable of EspNet keeps to its kind, with any networks and any room
   for events: the driver's and each task's steps are those of its commands. *)
THEOREM WifiIsTyped == Spec => []TypeOK
<1>1. NetInv => TypeOK
  BY DEF NetInv
<1> QED BY <1>1, NetInvariant, PTL

(* wifi_set_configured() comes first in a forget: wherever in the rest of it
   the power goes, no boot of esp_net.c joins before the next connect.      *)
THEOREM ForgetsForGood == Spec => []ForgottenAfterRestart
<1>1. NetInv => ForgottenAfterRestart
  BY DEF NetInv, Forgotten, ForgottenAfterRestart
<1> QED BY <1>1, NetInvariant, PTL

(* A connect that says it succeeded is on its network, whatever wifi_event()
   joined between its steps.                                                *)
THEOREM JoinsAsAsked == Spec => []JoinsWhatWasAsked
<1>1. NetInv => JoinsWhatWasAsked
  <2>1. <<>> \notin Set
    BY DEF Set
  <2> QED BY <2>1 DEF NetInv, OnIsStored, JoinsWhatWasAsked
<1> QED BY <1>1, NetInvariant, PTL

-----------------------------------------------------------------------------
(* EspTime: with NTP off the client runs only for a sync that started it, and
   that is to stop it; with NTP on it runs, if it ever could be started.     *)
SyncStops == running /\ ~ntp => \E t \in Callers : pc[t] = "sync" /\ ~was[t]
TimeRuns == ntp /\ ~failed => running
TimeInv == Time!TypeOK /\ SyncStops /\ TimeRuns

LEMMA TimeBegins == Time!Init => TimeInv
BY DEF Time!Init, TimeInv, Time!TypeOK, SyncStops, TimeRuns

(* A step of a call: of the caller's own place, and what it read.           *)
LEMMA TimePlaces ==
    ASSUME Time!TypeOK, NEW t \in Callers, NEW from, Time!Goes(t, from, "idle")
    PROVE  /\ pc' \in [Callers -> {"idle", "clock set", "source set", "server", "sync"}]
           /\ pc[t] = from /\ \A u \in Callers : u # t => pc'[u] = pc[u]
BY DEF Time!TypeOK, Time!Goes

(* Who sets the clock has nothing to do with the client.                    *)
LEMMA ByHand ==
    ASSUME TimeInv, NEW t \in Callers, Time!SetClock(t) \/ Time!SetSource(t) \/ Time!SetRtc(t)
    PROVE  TimeInv'
<1>1. Time!TypeOK'
  BY DEF Time!SetClock, Time!SetSource, Time!SetRtc, Time!Goes, TimeInv, Time!TypeOK,
         Time!client, Time!answer
<1>2. /\ running' = running /\ ntp' = ntp /\ failed' = failed /\ was' = was
      /\ pc[t] # "sync" /\ \A u \in Callers : u # t => pc'[u] = pc[u]
  BY DEF Time!SetClock, Time!SetSource, Time!SetRtc, Time!Goes, TimeInv, Time!TypeOK, Time!client
<1> QED BY <1>1, <1>2 DEF TimeInv, SyncStops, TimeRuns

LEMMA NtpRead == ASSUME TimeInv, NEW t \in Callers, Time!ReadNtp(t) PROVE TimeInv'
<1>1. Time!TypeOK'
  BY DEF Time!ReadNtp, Time!Goes, TimeInv, Time!TypeOK, Time!clocks, Time!client, Time!answer
<1>2. /\ running' = running /\ ntp' = ntp /\ failed' = failed /\ pc[t] # "sync"
      /\ \A u \in Callers : u # t => pc'[u] = pc[u] /\ was'[u] = was[u]
  BY DEF Time!ReadNtp, Time!Goes, TimeInv, Time!TypeOK, Time!client
<1> QED BY <1>1, <1>2 DEF TimeInv, SyncStops, TimeRuns

LEMMA NtpSet == ASSUME TimeInv, NEW t \in Callers, Time!SetNtp(t) PROVE TimeInv'
<1>1. PICK sw \in BOOLEAN, from \in {"idle", "server"} :
        /\ Time!Goes(t, from, "idle") /\ ntp' = sw
        /\ \/ sw /\ running' \in BOOLEAN /\ failed' = (failed \/ ~running')
           \/ ~sw /\ running' = FALSE /\ failed' = failed
        /\ UNCHANGED <<Time!clocks, was, Time!answer>>
  BY DEF Time!SetNtp, Time!Start, Time!Stop, TimeInv, Time!TypeOK
<1>2. Time!TypeOK'
  BY <1>1, TimePlaces DEF TimeInv, Time!TypeOK, Time!clocks, Time!answer
<1>3. TimeRuns' /\ SyncStops'
  BY <1>1 DEF TimeRuns, SyncStops
<1> QED BY <1>2, <1>3 DEF TimeInv

LEMMA SyncAsked == ASSUME TimeInv, NEW t \in Callers, Time!Ask(t) PROVE TimeInv'
<1>1. Time!TypeOK'
  BY DEF Time!Ask, Time!Start, Time!Goes, TimeInv, Time!TypeOK, Time!clocks, Time!answer
<1>2. TimeRuns'
  BY DEF Time!Ask, Time!Start, TimeInv, Time!TypeOK, TimeRuns
<1>3. /\ pc[t] = "idle" /\ pc'[t] = "sync" /\ was'[t] = running /\ ntp' = ntp
      /\ \A u \in Callers : u # t => pc'[u] = pc[u] /\ was'[u] = was[u]
  BY DEF Time!Ask, Time!Goes, TimeInv, Time!TypeOK
<1>4. SyncStops'
  <2>1. CASE running
    BY <2>1, <1>3 DEF TimeInv, SyncStops
  <2>2. CASE ~running
    BY <2>2, <1>3 DEF SyncStops
  <2> QED BY <2>1, <2>2
<1> QED BY <1>1, <1>2, <1>4 DEF TimeInv

LEMMA SyncEnded == ASSUME TimeInv, NEW t \in Callers, Time!EndSync(t) PROVE TimeInv'
<1>1. /\ Time!Goes(t, "sync", "idle") /\ ntp' = ntp /\ was' = was
      /\ \/ ~was[t] /\ ~ntp /\ running' = FALSE /\ failed' = failed
         \/ (was[t] \/ ntp) /\ running' = running /\ failed' = failed
  BY DEF Time!EndSync, Time!Stop
<1>2. Time!TypeOK'
  BY <1>1, TimePlaces DEF Time!EndSync, TimeInv, Time!TypeOK, Time!clocks, Time!answer
<1>3. TimeRuns'
  BY <1>1 DEF TimeInv, TimeRuns
<1>4. SyncStops'
  <2>1. \A u \in Callers : u # t => pc'[u] = pc[u]
    BY <1>1, TimePlaces DEF TimeInv
  <2> QED BY <1>1, <2>1 DEF TimeInv, SyncStops
<1> QED BY <1>2, <1>3, <1>4 DEF TimeInv

LEMMA NtpAnswers == ASSUME TimeInv, Time!Answer \/ Time!OnSync \/ Time!WriteRtc PROVE TimeInv'
<1>1. /\ UNCHANGED <<ntp, running, failed, pc, was>>
      /\ clock' \in {clock, "ntp"} /\ source' \in {source, "ntp"} /\ rtc' \in {clock, rtc}
      /\ answering' \in BOOLEAN /\ pending' \in BOOLEAN
  BY DEF Time!Answer, Time!OnSync, Time!WriteRtc, TimeInv, Time!TypeOK, Time!client
<1>2. Time!TypeOK'
  BY <1>1 DEF TimeInv, Time!TypeOK
<1> QED BY <1>1, <1>2 DEF TimeInv, SyncStops, TimeRuns

LEMMA TimeBoots == ASSUME TimeInv, Time!Boot PROVE TimeInv'
<1>1. /\ ntp' = ntp /\ running' \in BOOLEAN /\ failed' = (ntp /\ ~running')
      /\ running' => ntp
  BY DEF Time!Boot, TimeInv, Time!TypeOK
<1>2. Time!TypeOK'
  BY <1>1 DEF Time!Boot, TimeInv, Time!TypeOK
<1> QED BY <1>1, <1>2 DEF TimeInv, SyncStops, TimeRuns

LEMMA TimeStep == ASSUME TimeInv, [Time!Next]_(Time!vars) PROVE TimeInv'
<1>1. CASE UNCHANGED Time!vars
  BY <1>1 DEF Time!vars, Time!clocks, Time!client, Time!answer, TimeInv, Time!TypeOK,
                SyncStops, TimeRuns
<1>2. ASSUME NEW t \in Callers, Time!Call(t) PROVE TimeInv'
  BY <1>2, ByHand, NtpRead, NtpSet, SyncAsked, SyncEnded DEF Time!Call
<1> QED BY <1>1, <1>2, NtpAnswers, TimeBoots DEF Time!Next

-----------------------------------------------------------------------------
(* EspWeb: the requests, and Vim's places.                                  *)
WebTypeOK ==
    /\ req \in {None} \cup Requests /\ saved \in Settings /\ changed \in BOOLEAN
    /\ vim \in [at : {"down", "ready", "clear", "key", "serve", "apply"}, timer : BOOLEAN,
                applied : Settings]
    /\ req # None /\ req.at \in {"put", "flag"} => req.with \in Settings

(* What is stored and not applied is about to be told, or was and is yet to
   be looked at: with a timer or without one.                               *)
Told ==
    vim.at \notin {"down", "apply"} /\ ~changed /\ (req = None \/ req.at # "flag")
        => vim.applied = saved
WebInv == WebTypeOK /\ Told

LEMMA WebBegins == Web!Init => WebInv
<1> SUFFICES ASSUME Web!Init PROVE WebInv
  OBVIOUS
<1>1. req = None /\ saved \in Settings /\ changed = FALSE
      /\ vim = [at |-> "down", timer |-> FALSE, applied |-> saved]
  BY DEF Web!Init
<1>2. WebTypeOK
  BY <1>1 DEF WebTypeOK
<1>3. Told
  BY <1>1 DEF Told
<1> QED BY <1>2, <1>3 DEF WebInv

(* The server's task.                                                       *)
LEMMA WebServer == ASSUME None \notin Requests, WebInv, Web!Server PROVE WebInv'
<1>1. CASE \/ Web!CheckPassword \/ Web!OpenSession
           \/ \E c \in Browsers : \/ \E p \in Passwords : Web!Login(c, p)
                                 \/ Web!Logout(c) \/ Web!Request(c)
                                 \/ \E s \in Settings : Web!PostSettings(c, s)
  <2>1. UNCHANGED <<saved, changed, vim>>
    BY <1>1 DEF Web!CheckPassword, Web!OpenSession, Web!Login, Web!Logout, Web!Request,
                Web!PostSettings, Web!nvs
  <2>2. /\ req' \in {None} \cup Requests
        /\ req' # req => req' = None \/ req'.at # "flag"
        /\ req' # req => req = None \/ req.at # "flag"
        /\ req' # None /\ req'.at \in {"put", "flag"} => req'.with \in Settings
    BY <1>1 DEF Web!CheckPassword, Web!OpenSession, Web!Login, Web!Logout, Web!Request,
                Web!PostSettings, Web!Free, WebInv, WebTypeOK, Requests
  <2> QED BY <2>1, <2>2 DEF WebInv, WebTypeOK, Told
<1>2. CASE Web!PutSettings
  BY <1>2 DEF Web!PutSettings, WebInv, WebTypeOK, Told, Requests
<1>3. CASE Web!FlagSettings
  BY <1>3 DEF Web!FlagSettings, Web!nvs, WebInv, WebTypeOK, Told
<1> QED BY <1>1, <1>2, <1>3 DEF Web!Server

(* Vim's.                                                                   *)
LEMMA WebVim == ASSUME WebInv, Web!Vim PROVE WebInv'
<1>1. saved' = saved /\ req' = req
  BY DEF Web!Vim, Web!SetPassword, Web!ClearSessions, Web!Start, Web!StoreKey, Web!Serve, Web!Stop,
         Web!Tick, Web!Apply, Web!Quit, Web!Begin, Web!nvs
<1>2. CASE Web!Tick
  BY <1>1, <1>2 DEF Web!Tick, Web!At, Web!Goes, WebInv, WebTypeOK, Told
<1>3. CASE Web!Apply \/ Web!Begin
  BY <1>1, <1>3 DEF Web!Apply, Web!Begin, Web!At, WebInv, WebTypeOK, Told
<1>4. CASE \/ \E p \in Passwords : Web!SetPassword(p)
           \/ Web!ClearSessions \/ Web!Start \/ Web!StoreKey \/ Web!Serve \/ Web!Stop \/ Web!Quit
  <2>1. changed' = changed /\ vim.at \notin {"down", "apply"}
    BY <1>4 DEF Web!SetPassword, Web!ClearSessions, Web!Start, Web!StoreKey, Web!Serve, Web!Stop,
                Web!Quit, Web!At
  <2>2. /\ vim' \in [at : {"down", "ready", "clear", "key", "serve", "apply"}, timer : BOOLEAN,
                     applied : Settings]
        /\ vim'.applied = vim.applied
    <3>1. CASE Web!Serve
      BY <3>1 DEF Web!Serve, Web!Goes, WebInv, WebTypeOK
    <3>2. CASE Web!Stop \/ Web!Quit
      BY <3>2 DEF Web!Stop, Web!Quit, WebInv, WebTypeOK
    <3>3. CASE \/ \E p \in Passwords : Web!SetPassword(p)
               \/ Web!ClearSessions \/ Web!Start \/ Web!StoreKey
      <4>1. vim' = vim \/ \E place \in {"ready", "clear", "key", "serve"} :
                            vim' = [vim EXCEPT !.at = place]
        BY <3>3 DEF Web!SetPassword, Web!ClearSessions, Web!Start, Web!StoreKey, Web!Goes
      <4> QED BY <4>1 DEF WebInv, WebTypeOK
    <3> QED BY <1>4, <3>1, <3>2, <3>3
  <2> QED BY <1>1, <2>1, <2>2 DEF WebInv, WebTypeOK, Told
<1> QED BY <1>2, <1>3, <1>4 DEF Web!Vim

LEMMA WebStep == ASSUME None \notin Requests, WebInv, [Web!Next]_(Web!vars) PROVE WebInv'
<1>1. CASE UNCHANGED Web!vars
  BY <1>1 DEF Web!vars, WebInv, WebTypeOK, Told
<1>2. CASE Web!Pass
  BY <1>2 DEF Web!Pass, Web!nvs, WebInv, WebTypeOK, Told
<1>3. CASE Web!Reset
  BY <1>3 DEF Web!Reset, Web!nvs, WebInv, WebTypeOK, Told
<1> QED BY <1>1, <1>2, <1>3, WebServer, WebVim DEF Web!Next

-----------------------------------------------------------------------------
(* EspSsh: what known_hosts has is there at the user's word, and a session  *)
(* that is kept is right.                                                   *)
SshSession == [host : Hosts, key : Keys, alive : BOOLEAN, sftp : BOOLEAN]

(* What is in known_hosts is there at the user's word.                      *)
KnownAccepted == \A h \in Hosts : known[h] # None => <<h, known[h]>> \in accepted

SshInv == Ssh!TypeOK /\ Ssh!SessionIsWhoItSays /\ KnownAccepted

(* To look at a key, or to record it, leaves no session; it is recorded only
   where there was none.                                                    *)
LEMMA SshLooking ==
    ASSUME None \notin Keys, SshInv, NEW h \in Hosts, NEW trust \in BOOLEAN,
           NEW o \in Ssh!Opens(h, 0, trust)
    PROVE  /\ o.sess = None /\ o.name = name
           /\ \/ o.known = known
              \/ trust /\ known[h] = None /\ o.known = [known EXCEPT ![h] = server[h]]
<1>1. /\ Ssh!CheckKey(h, trust) \in {"ok", "changed", "add", "unknown"}
      /\ Ssh!CheckKey(h, trust) = "add" => trust /\ known[h] = None
  BY DEF Ssh!CheckKey, SshInv, Ssh!TypeOK
<1>2. \/ o = Ssh!Opened("failed", None, name, known)
      \/ o = Ssh!Opened(Ssh!CheckKey(h, trust), None, name, known)
      \/ Ssh!CheckKey(h, trust) = "ok" /\ o = Ssh!Opened("ok", None, name, known)
      \/ Ssh!CheckKey(h, trust) = "add"
           /\ o = Ssh!Opened("ok", None, name, [known EXCEPT ![h] = server[h]])
  BY <1>1 DEF Ssh!Opens
<1> QED BY <1>1, <1>2 DEF Ssh!Opened

(* To log in leaves known_hosts alone, and a session there is after it is
   right.                                                                   *)
LEMMA SshLogsIn ==
    ASSUME None \notin Keys, SshInv, NEW h \in Hosts, NEW o \in Ssh!Opens(h, 1, FALSE)
    PROVE  /\ o.known = known /\ o.name \in Hosts \cup {None}
           /\ o.sess # None \/ o.rc = "ok" =>
                /\ o.sess \in SshSession /\ o.sess.host = o.name
                /\ <<o.sess.host, o.sess.key>> \in accepted
<1>1. CASE sess # None /\ name = h
  BY <1>1 DEF Ssh!Opens, Ssh!Opened, SshInv, Ssh!TypeOK, Ssh!SessionIsWhoItSays, SshSession
<1>2. CASE ~(sess # None /\ name = h)
  <2>1. known[h] = server[h] => <<h, server[h]>> \in accepted
    BY DEF SshInv, Ssh!TypeOK, KnownAccepted
  <2>2. /\ Ssh!Session(h) \in SshSession
        /\ Ssh!Session(h).host = h /\ Ssh!Session(h).key = server[h]
    BY DEF Ssh!Session, SshSession, SshInv, Ssh!TypeOK
  <2>3. /\ Ssh!CheckKey(h, FALSE) \in {"ok", "changed", "unknown"}
        /\ Ssh!CheckKey(h, FALSE) = "ok" => known[h] = server[h]
    BY DEF Ssh!CheckKey, SshInv, Ssh!TypeOK
  <2>4. \/ o = Ssh!Opened("failed", None, name, known)
        \/ Ssh!CheckKey(h, FALSE) # "ok" /\ o = Ssh!Opened(Ssh!CheckKey(h, FALSE), None, name, known)
        \/ Ssh!CheckKey(h, FALSE) = "ok" /\ o = Ssh!Opened("ok", Ssh!Session(h), h, known)
    <3>1. Ssh!CheckKey(h, FALSE) # "add"
      BY <2>3
    <3>0. 1 # 0
      OBVIOUS
    <3>2. o \in {Ssh!Opened("failed", None, name, known)} \cup
                (IF Ssh!CheckKey(h, FALSE) \notin {"ok", "add"}
                 THEN {Ssh!Opened(Ssh!CheckKey(h, FALSE), None, name, known)}
                 ELSE {Ssh!Opened("ok", Ssh!Session(h), h, known)})
      BY <1>2, <3>0, <3>1, Zenon DEF Ssh!Opens
    <3> QED BY <3>1, <3>2
  <2>5. CASE o = Ssh!Opened("ok", Ssh!Session(h), h, known) /\ known[h] = server[h]
    <3>1. o.known = known /\ o.name = h /\ o.sess = Ssh!Session(h)
      BY <2>5 DEF Ssh!Opened
    <3> QED BY <2>1, <2>2, <2>5, <3>1
  <2>6. ASSUME NEW rc, rc # "ok", o = Ssh!Opened(rc, None, name, known)
        PROVE  o.known = known /\ o.name = name /\ o.sess = None /\ o.rc # "ok"
    BY <2>6 DEF Ssh!Opened
  <2>7. name \in Hosts \cup {None}
    BY DEF SshInv, Ssh!TypeOK
  <2> QED BY <2>3, <2>4, <2>5, <2>6, <2>7
<1> QED BY <1>1, <1>2

(* A session, SFTP begun or not, is right if what was opened is.            *)
LEMMA SftpIsIt ==
    ASSUME NEW o, o.rc = "ok", o.sess \in SshSession, NEW u, u = Ssh!WithSftp(o),
           \E rc, n, k : o = Ssh!Opened(rc, o.sess, n, k)
    PROVE  /\ u.known = o.known /\ u.name = o.name /\ u.sess \in SshSession
           /\ u.sess.host = o.sess.host /\ u.sess.key = o.sess.key
BY DEF Ssh!WithSftp, Ssh!Opened, SshSession

LEMMA OpensOpened ==
    ASSUME NEW h, NEW o \in Ssh!Opens(h, 1, FALSE)
    PROVE  \E rc, n, k : o = Ssh!Opened(rc, o.sess, n, k)
BY DEF Ssh!Opens, Ssh!Opened

(* A call that logs in leaves none, or one that is right.                   *)
LEMMA SshCall ==
    ASSUME None \notin Keys, SshInv, NEW h \in Hosts, NEW o \in Ssh!Opens(h, 1, FALSE),
           Ssh!Keeps(o) \/ Ssh!Drops(o) \/ (o.rc = "ok" /\ Ssh!Keeps(Ssh!WithSftp(o))),
           server' = server, accepted' = accepted, file' \in {"old", "whole", "cut"}
    PROVE  SshInv' /\ known' = known
<1>1. /\ o.known = known /\ o.name \in Hosts \cup {None}
      /\ o.sess # None \/ o.rc = "ok" =>
           /\ o.sess \in SshSession /\ o.sess.host = o.name
           /\ <<o.sess.host, o.sess.key>> \in accepted
  BY SshLogsIn
<1>2. \E rc, n, k : o = Ssh!Opened(rc, o.sess, n, k)
  BY OpensOpened
<1>u. o.rc = "ok" => /\ Ssh!WithSftp(o).known = o.known /\ Ssh!WithSftp(o).name = o.name
                     /\ Ssh!WithSftp(o).sess \in SshSession
                     /\ Ssh!WithSftp(o).sess.host = o.sess.host
                     /\ Ssh!WithSftp(o).sess.key = o.sess.key
  BY <1>1, <1>2, SftpIsIt
<1>3. known' = known /\ name' \in Hosts \cup {None}
  BY <1>1, <1>u DEF Ssh!Keeps, Ssh!Drops
<1>4. sess' # None => /\ sess' \in SshSession /\ sess'.host = name'
                      /\ <<sess'.host, sess'.key>> \in accepted
  <2>1. CASE Ssh!Keeps(o) \/ Ssh!Drops(o)
    BY <2>1, <1>1 DEF Ssh!Keeps, Ssh!Drops
  <2>2. CASE o.rc = "ok" /\ Ssh!Keeps(Ssh!WithSftp(o))
    BY <2>2, <1>1, <1>u DEF Ssh!Keeps
  <2> QED BY <2>1, <2>2
<1> QED BY <1>3, <1>4 DEF SshInv, Ssh!TypeOK, Ssh!SessionIsWhoItSays, KnownAccepted, SshSession

(* What a step does to known_hosts.                                         *)
KeysKept == \A h \in Hosts : known[h] # None => known'[h] \in {known[h], None}

LEMMA SshStep ==
    ASSUME None \notin Keys, SshInv, [Ssh!Next]_sshVars
    PROVE  SshInv' /\ KeysKept
<1>t. file \in {"old", "whole", "cut"} /\ (known' = known => KeysKept)
  BY DEF SshInv, Ssh!TypeOK, KeysKept
<1>1. ASSUME NEW h \in Hosts, Ssh!Hostkey(h) PROVE SshInv' /\ KeysKept
  <2>1. PICK o \in Ssh!Opens(h, 0, FALSE) : Ssh!Keeps(o)
    BY <1>1 DEF Ssh!Hostkey
  <2>2. sess' = None /\ name' = name /\ known' = known
    BY <2>1, SshLooking DEF Ssh!Keeps
  <2> QED BY <1>1, <1>t, <2>2
          DEF Ssh!Hostkey, Ssh!remote, SshInv, Ssh!TypeOK, Ssh!SessionIsWhoItSays, KnownAccepted
<1>2. ASSUME NEW h \in Hosts, Ssh!Trust(h) PROVE SshInv' /\ KeysKept
  <2>1. PICK o \in Ssh!Opens(h, 0, TRUE) :
          /\ Ssh!Keeps(o)
          /\ accepted' = accepted \cup (IF o.known # known THEN {<<h, server[h]>>} ELSE {})
    BY <1>2 DEF Ssh!Trust
  <2>2. /\ sess' = None /\ name' = name
        /\ \/ known' = known
           \/ known[h] = None /\ known' = [known EXCEPT ![h] = server[h]]
    BY <2>1, SshLooking DEF Ssh!Keeps
  <2>3. server' = server /\ file' = file
    BY <1>2 DEF Ssh!Trust, Ssh!remote
  <2>4. CASE known' = known
    BY <1>t, <2>1, <2>2, <2>3, <2>4 DEF SshInv, Ssh!TypeOK, Ssh!SessionIsWhoItSays, KnownAccepted
  <2>5. CASE known' # known
    <3>1. known[h] = None /\ known' = [known EXCEPT ![h] = server[h]]
      BY <2>2, <2>5
    <3>2. accepted' = accepted \cup {<<h, server[h]>>}
      BY <2>1, <2>5 DEF Ssh!Keeps
    <3> QED BY <2>2, <2>3, <3>1, <3>2
            DEF SshInv, Ssh!TypeOK, Ssh!SessionIsWhoItSays, KnownAccepted, KeysKept
  <2> QED BY <2>4, <2>5
<1>3. ASSUME NEW h \in Hosts, Ssh!GetScp(h) PROVE SshInv' /\ KeysKept
  <2>1. PICK o \in Ssh!Opens(h, 1, FALSE) : (Ssh!Keeps(o) \/ Ssh!Drops(o)) /\ file' \in {file, "whole", "cut"}
    BY <1>3 DEF Ssh!GetScp, Ssh!Fails
  <2>2. server' = server /\ accepted' = accepted /\ file' \in {"old", "whole", "cut"}
    BY <1>3, <1>t, <2>1 DEF Ssh!GetScp, Ssh!remote
  <2> QED BY <1>3, <1>t, <2>1, <2>2, SshCall
<1>4. ASSUME NEW h \in Hosts, Ssh!GetSftp(h) PROVE SshInv' /\ KeysKept
  <2>1. PICK o \in Ssh!Opens(h, 1, FALSE) :
          (Ssh!Keeps(o) \/ (o.rc = "ok" /\ Ssh!Keeps(Ssh!WithSftp(o)))) /\ file' \in {file, "whole"}
    BY <1>4 DEF Ssh!GetSftp, Ssh!Fails
  <2>2. server' = server /\ accepted' = accepted /\ file' \in {"old", "whole", "cut"}
    BY <1>4, <1>t, <2>1 DEF Ssh!GetSftp, Ssh!remote
  <2> QED BY <1>4, <1>t, <2>1, <2>2, SshCall
<1>5. ASSUME NEW h \in Hosts, Ssh!Put(h) PROVE SshInv' /\ KeysKept
  <2>1. PICK o \in Ssh!Opens(h, 1, FALSE) :
          Ssh!Keeps(o) \/ Ssh!Drops(o) \/ (o.rc = "ok" /\ Ssh!Keeps(Ssh!WithSftp(o)))
    BY <1>5 DEF Ssh!Put
  <2>2. server' = server /\ accepted' = accepted /\ file' \in {"old", "whole", "cut"}
    BY <1>5, <1>t, <2>1 DEF Ssh!Put, Ssh!remote
  <2> QED BY <1>5, <1>t, <2>1, <2>2, SshCall
<1>6. ASSUME NEW h \in Hosts, Ssh!SftpCall(h) PROVE SshInv' /\ KeysKept
  <2>1. PICK o \in Ssh!Opens(h, 1, FALSE) : Ssh!Keeps(o) \/ (o.rc = "ok" /\ Ssh!Keeps(Ssh!WithSftp(o)))
    BY <1>6 DEF Ssh!SftpCall
  <2>2. server' = server /\ accepted' = accepted /\ file' \in {"old", "whole", "cut"}
    BY <1>6, <1>t, <2>1 DEF Ssh!SftpCall, Ssh!remote
  <2> QED BY <1>6, <1>t, <2>1, <2>2, SshCall
<1>7. ASSUME NEW h \in Hosts, NEW p \in Ssh!Paths, Ssh!Remove(h, p) PROVE SshInv' /\ KeysKept
  <2>1. PICK o \in Ssh!Opens(h, 1, FALSE) : Ssh!Keeps(o) \/ (o.rc = "ok" /\ Ssh!Keeps(Ssh!WithSftp(o)))
    BY <1>7 DEF Ssh!Remove
  <2>2. server' = server /\ accepted' = accepted /\ file' \in {"old", "whole", "cut"}
    BY <1>7, <1>t, <2>1 DEF Ssh!Remove, Ssh!remote
  <2> QED BY <1>7, <1>t, <2>1, <2>2, SshCall
<1>8. CASE Ssh!Disconnect
  BY <1>8, <1>t DEF Ssh!Disconnect, Ssh!remote, SshInv, Ssh!TypeOK, Ssh!SessionIsWhoItSays, KnownAccepted
<1>9. CASE Ssh!Break
  BY <1>9, <1>t DEF Ssh!Break, Ssh!remote, SshInv, Ssh!TypeOK, Ssh!SessionIsWhoItSays, KnownAccepted
<1>10. ASSUME NEW h \in Hosts, Ssh!NewKey(h) PROVE SshInv' /\ KeysKept
  BY <1>10, <1>t DEF Ssh!NewKey, SshInv, Ssh!TypeOK, Ssh!SessionIsWhoItSays, KnownAccepted
<1>11. ASSUME NEW h \in Hosts, Ssh!Forget(h) PROVE SshInv' /\ KeysKept
  BY <1>11 DEF Ssh!Forget, Ssh!remote, SshInv, Ssh!TypeOK, Ssh!SessionIsWhoItSays, KnownAccepted, KeysKept
<1>12. CASE UNCHANGED sshVars
  BY <1>12, <1>t DEF sshVars, SshInv, Ssh!TypeOK, Ssh!SessionIsWhoItSays, KnownAccepted
<1> QED
  BY <1>1, <1>2, <1>3, <1>4, <1>5, <1>6, <1>7, <1>8, <1>9, <1>10, <1>11, <1>12
  DEF Ssh!Next, Ssh!Call

LEMMA SshBegins == Ssh!Init => SshInv
BY DEF Ssh!Init, SshInv, Ssh!TypeOK, Ssh!SessionIsWhoItSays, KnownAccepted

-----------------------------------------------------------------------------
(* EspCalendar: bcd() gives what to_bcd() was given, and the bits that a
   chip's register has beyond a month's or a day's are none of theirs.       *)
LEMMA BcdReads ==
    ASSUME NEW v \in 0 .. 99
    PROVE  /\ Calendar!FromBcd(Calendar!ToBcd(v)) = v
           /\ v <= 12 => Calendar!ToBcd(v) % 32 = Calendar!ToBcd(v)
           /\ v <= 31 => Calendar!ToBcd(v) % 64 = Calendar!ToBcd(v)
<1>1. PICK q \in 0 .. 9, r \in 0 .. 9 : v = q * 10 + r /\ v \div 10 = q /\ v % 10 = r
  BY SMT
<1>2. Calendar!ToBcd(v) = q * 16 + r
  BY <1>1 DEF Calendar!ToBcd
<1>3. (q * 16 + r) \div 16 = q /\ (q * 16 + r) % 16 = r
  BY SMT
<1>4. Calendar!FromBcd(Calendar!ToBcd(v)) = v
  BY <1>1, <1>2, <1>3 DEF Calendar!FromBcd
<1>5. (v <= 12 => q * 16 + r \in 0 .. 31) /\ (v <= 31 => q * 16 + r \in 0 .. 63)
  BY <1>1
<1>6. (\A k \in 0 .. 31 : k % 32 = k) /\ (\A k \in 0 .. 63 : k % 64 = k)
  BY SMT
<1> QED BY <1>2, <1>4, <1>5, <1>6

(* days_from_civil() follows the calendar: at the first day of a year, ...   *)
LEMMA YearsBegin ==
    ASSUME NEW yy \in 2000 .. 2124
    PROVE  Calendar!NewYear(yy) = Calendar!DaysFromCivil(yy, 1, 1)
  BY SMTT(60) DEF Calendar!NewYear, Calendar!LeapsBefore, Calendar!DaysFromCivil

LEMMA MonthsAre ==
    ASSUME NEW yy \in Int, NEW mm \in 1 .. 12
    PROVE  Calendar!MonthDays(yy, mm) =
             IF mm = 2 THEN IF Calendar!Leap(yy) THEN 29 ELSE 28
             ELSE IF mm \in {4, 6, 9, 11} THEN 30 ELSE 31
  BY DEF Calendar!MonthDays

(* ... at the first of each month of it, from the last of the one before,
   February's by whether it is a leap year; ...                              *)
LEMMA MonthsFollow ==
    ASSUME NEW yy \in 2000 .. 2124, NEW mm \in 1 .. 11
    PROVE  Calendar!DaysFromCivil(yy, mm + 1, 1) =
             Calendar!DaysFromCivil(yy, mm, Calendar!MonthDays(yy, mm)) + 1
<1>1. CASE mm = 1
  BY <1>1, MonthsAre, SMTT(30) DEF Calendar!DaysFromCivil
<1>2. CASE mm = 2
  <2>1. PICK n \in 0 .. 124 : yy = 2000 + n
    <3>1. yy - 2000 \in 0 .. 124 /\ yy = 2000 + (yy - 2000)
      OBVIOUS
    <3> QED BY <3>1
  <2>2. Calendar!Leap(yy) <=> n % 4 = 0 /\ n # 100
    BY <2>1, SMTT(30) DEF Calendar!Leap
  <2>3. yy \div 400 = 5 /\ yy % 400 = n
    BY <2>1
  <2>4. /\ n = 0 => (yy - 1) \div 400 = 4 /\ (yy - 1) % 400 = 399
        /\ n > 0 => (yy - 1) \div 400 = 5 /\ (yy - 1) % 400 = n - 1
    BY <2>1
  <2>5. Calendar!DaysFromCivil(yy, 3, 1) =
          5 * 146097 + n * 365 + n \div 4 - n \div 100 - 719468
    BY <2>3 DEF Calendar!DaysFromCivil
  <2>6. \A dd \in Int : Calendar!DaysFromCivil(yy, 2, dd) =
          IF n = 0 THEN 4 * 146097 + 399 * 365 + 99 - 3 + 337 + dd - 1 - 719468
          ELSE 5 * 146097 + (n - 1) * 365 + (n - 1) \div 4 - (n - 1) \div 100 + 337 + dd - 1 - 719468
    BY <2>1, <2>4 DEF Calendar!DaysFromCivil
  <2>7. n > 0 => n \div 4 - (n - 1) \div 4 = (IF n % 4 = 0 THEN 1 ELSE 0)
    OBVIOUS
  <2>8. n > 0 => n \div 100 - (n - 1) \div 100 = (IF n = 100 THEN 1 ELSE 0)
    OBVIOUS
  <2>9. Calendar!MonthDays(yy, 2) = IF n % 4 = 0 /\ n # 100 THEN 29 ELSE 28
    BY <2>2, MonthsAre
  <2>10. n \div 4 \in Int /\ (n - 1) \div 4 \in Int /\ n \div 100 \in Int /\ (n - 1) \div 100 \in Int
    OBVIOUS
  <2> QED BY <1>2, <2>5, <2>6, <2>7, <2>8, <2>9, <2>10
<1>3. CASE mm > 2
  BY <1>3, MonthsAre, SMTT(60) DEF Calendar!DaysFromCivil
<1> QED BY <1>1, <1>2, <1>3

(* ... and from day to day in a month.                                       *)
LEMMA DaysFollow ==
    ASSUME NEW yy \in Int, NEW mm \in 1 .. 12, NEW dd \in Int
    PROVE  Calendar!DaysFromCivil(yy, mm, dd + 1) = Calendar!DaysFromCivil(yy, mm, dd) + 1
  BY SMTT(30) DEF Calendar!DaysFromCivil

(* Whatever its day, a year before 2025 is not believed.                     *)
LEMMA NotBelieved ==
    ASSUME NEW yy \in 2000 .. 2024, NEW mm \in 1 .. 12, NEW dd \in 1 .. 31
    PROVE  Calendar!DaysFromCivil(yy, mm, dd) < Calendar!ValidAfter
  BY SMTT(60) DEF Calendar!DaysFromCivil, Calendar!ValidAfter

(* The date is one of the calendar, and its days are days_from_civil()'s.    *)
DateInv ==
    /\ y \in 2000 .. 2124 /\ m \in 1 .. 12 /\ d \in 1 .. Calendar!MonthDays(y, m)
    /\ days = Calendar!DaysFromCivil(y, m, d) /\ chip = Calendar!RtcWrite(y, m, d)

LEMMA DatesBegin == Calendar!Init => DateInv
<1> SUFFICES ASSUME Calendar!Init PROVE DateInv
  OBVIOUS
<1>1. y \in 2000 .. 2124
  BY DatesAreKept DEF Calendar!Init, Calendar!CalendarAssumption
<1>2. 1 \in 1 .. Calendar!MonthDays(y, 1)
  BY <1>1, MonthsAre
<1> QED BY <1>1, <1>2, YearsBegin DEF Calendar!Init, DateInv

LEMMA DatesFollow == DateInv /\ [Calendar!Next]_calendarVars => DateInv'
<1> SUFFICES ASSUME DateInv, [Calendar!Next]_calendarVars PROVE DateInv'
  OBVIOUS
<1> USE DEF DateInv
<1>1. CASE UNCHANGED calendarVars
  BY <1>1 DEF calendarVars
<1>2. CASE Calendar!NextDay
  <2>1. Calendar!MonthDays(y, m) \in 28 .. 31 /\ (m = 12 => Calendar!MonthDays(y, m) = 31)
    BY MonthsAre
  <2>2. CASE d < Calendar!MonthDays(y, m)
    <3>1. y' = y /\ m' = m /\ d' = d + 1 /\ days' = days + 1 /\ chip' = Calendar!RtcWrite(y', m', d')
      BY <1>2, <2>2 DEF Calendar!NextDay
    <3>2. d' \in 1 .. Calendar!MonthDays(y', m')
      BY <2>1, <2>2, <3>1
    <3>3. days' = Calendar!DaysFromCivil(y', m', d')
      BY <2>1, <3>1, DaysFollow
    <3> QED BY <3>1, <3>2, <3>3
  <2>3. CASE ~(d < Calendar!MonthDays(y, m))
    <3>1. y' = y /\ m' = m + 1 /\ d' = 1 /\ days' = days + 1 /\ chip' = Calendar!RtcWrite(y', m', d')
      BY <1>2, <2>3 DEF Calendar!NextDay
    <3>2. d = Calendar!MonthDays(y, m)
      BY <2>1, <2>3
    <3>3. m \in 1 .. 11
      BY <1>2, <2>1, <3>2 DEF Calendar!NextDay
    <3>4. d' \in 1 .. Calendar!MonthDays(y', m')
      BY <3>1, <3>3, MonthsAre
    <3>5. days' = Calendar!DaysFromCivil(y', m', d')
      BY <3>1, <3>2, <3>3, MonthsFollow
    <3> QED BY <3>1, <3>3, <3>4, <3>5
  <2> QED BY <2>2, <2>3
<1> QED BY <1>1, <1>2 DEF Calendar!Next

LEMMA DatesAreRead == DateInv => Calendar!RtcKeepsTheDate
<1> SUFFICES ASSUME DateInv PROVE Calendar!RtcKeepsTheDate
  OBVIOUS
<1>1. d \in 1 .. 31
  BY MonthsAre DEF DateInv
<1>2. y \in 2000 .. 2124 /\ m \in 1 .. 12 /\ y % 100 \in 0 .. 99
  BY DEF DateInv
<1>3. Calendar!RtcRead(chip) = Calendar!DaysFromCivil(2000 + (y % 100), m, d)
  BY <1>1, <1>2, BcdReads DEF DateInv, Calendar!RtcWrite, Calendar!RtcRead
<1>4. CASE y <= 2099
  <2>1. 2000 + (y % 100) = y
    BY <1>2, <1>4
  <2> QED BY <1>3, <2>1 DEF Calendar!RtcKeepsTheDate, DateInv
<1>5. CASE y > 2099
  <2>1. 2000 + (y % 100) \in 2000 .. 2024
    BY <1>2, <1>5
  <2> QED BY <1>1, <1>2, <1>3, <2>1, NotBelieved DEF Calendar!RtcKeepsTheDate
<1> QED BY <1>2, <1>4, <1>5

-----------------------------------------------------------------------------
(* All of them: a step of one part leaves the others alone.                 *)
LEMMA Parts ==
    ASSUME [AllNext]_allVars
    PROVE  /\ [Next]_vars /\ [Ssh!Next]_sshVars /\ [Web!Next]_(Web!vars)
           /\ [Time!Next]_(Time!vars)
<1>1. /\ [Next]_vars /\ [Ssh!Next]_sshVars /\ [Web!Next]_webVars /\ [Time!Next]_timeVars
  BY DEF AllNext, allVars, services, Moves
<1>2. UNCHANGED webVars => UNCHANGED Web!vars
  BY DEF webVars, Web!vars
<1>3. UNCHANGED timeVars => UNCHANGED Time!vars
  BY DEF timeVars, Time!vars, Time!clocks, Time!client, Time!answer
<1> QED BY <1>1, <1>2, <1>3

(* With the services beside it, EspNet does no more than it does alone.     *)
THEOREM WifiAlone == AllSpec => Spec
<1>1. AllInit => Init
  BY DEF AllInit
<1>2. [AllNext]_allVars => [Next]_vars
  BY Parts
<1> QED BY <1>1, <1>2, PTL DEF AllSpec, Spec

LEMMA SshInvariant == AllSpec => []SshInv
<1>1. AllInit => SshInv
  BY SshBegins DEF AllInit
<1>2. SshInv /\ [AllNext]_allVars => SshInv'
  BY NetworkAssumption, Parts, SshStep
<1> QED BY <1>1, <1>2, PTL DEF AllSpec

(* Every variable of EspSsh keeps to its kind, for any hosts and keys.      *)
THEOREM SshIsTyped == AllSpec => []Ssh!TypeOK
<1>1. SshInv => Ssh!TypeOK
  BY DEF SshInv
<1> QED BY <1>1, SshInvariant, PTL

(* The session of EspSsh that calls go through is the one of the host they
   name, by a key the user accepted: open_session() with any number of hosts,
   whose keys may change at any moment.                                     *)
THEOREM SshSessions == AllSpec => []SessionIsWhoItSays
<1>1. SshInv => SessionIsWhoItSays
  BY DEF SshInv, SessionIsWhoItSays
<1> QED BY <1>1, SshInvariant, PTL

(* A key once in known_hosts is replaced by none but the user: check_key()
   adds only where there is none.                                           *)
THEOREM KeysStay == AllSpec => Ssh!KeysAreKept
<1>1. SshInv /\ [AllNext]_allVars => [KeysKept]_(Ssh!vars)
  BY NetworkAssumption, Parts, SshStep
<1>2. AllSpec => [][KeysKept]_(Ssh!vars)
  BY <1>1, SshInvariant, PTL DEF AllSpec
<1> QED BY <1>2 DEF Ssh!KeysAreKept, KeysKept

(* EspWeb: h_settings() stores, then sets s_settings_changed; s:Tick() clears
   it, then reads.  With no word on its way Vim has what is stored, however
   many browsers save and wherever a session of Vim ends.                   *)
THEOREM SettingsAreSeen == AllSpec => []SettingsReachVim
<1>1. AllInit => WebInv
  BY WebBegins DEF AllInit
<1>2. WebInv /\ [AllNext]_allVars => WebInv'
  BY NetworkAssumption, Parts, WebStep
<1>3. WebInv => SettingsReachVim
  BY DEF WebInv, Told, Web!At, Web!SettingsReachVim, SettingsReachVim
<1> QED BY <1>1, <1>2, <1>3, PTL DEF AllSpec

LEMMA TimeInvariant == AllSpec => []TimeInv
<1>1. AllInit => TimeInv
  BY TimeBegins DEF AllInit
<1>2. TimeInv /\ [AllNext]_allVars => TimeInv'
  BY Parts, TimeStep
<1> QED BY <1>1, <1>2, PTL DEF AllSpec

(* Every variable of EspTime keeps to its kind, with any number of callers.  *)
THEOREM TimeIsTyped == AllSpec => []Time!TypeOK
<1>1. TimeInv => Time!TypeOK
  BY DEF TimeInv
<1> QED BY <1>1, TimeInvariant, PTL

(* Once no one waits for an answer the client of esp_time.c runs as NTP is
   set, however many tasks sync and set it at once: what a sync read before it
   waited says who is to stop the client, not if.                           *)
THEOREM ClientAsSet == AllSpec => []RunsAsSet
<1>1. TimeInv => RunsAsSet
  BY DEF TimeInv, Time!TypeOK, SyncStops, TimeRuns, Time!RunsAsSet, RunsAsSet
<1> QED BY <1>1, TimeInvariant, PTL

(* What rtc_write() gave the chip, rtc_read() gives back as the day it was, or
   as one from before 2025, which is not believed, in all the years before the
   chip's two digits mean another that would be.                            *)
THEOREM DatesSurvive == AllSpec => []RtcKeepsTheDate
<1>1. AllInit => DateInv
  BY DatesBegin DEF AllInit
<1>2. DateInv /\ [AllNext]_allVars => DateInv'
  <2>1. [AllNext]_allVars => [Calendar!Next]_calendarVars
    BY DEF AllNext, allVars, services, Moves
  <2> QED BY <2>1, DatesFollow
<1>3. DateInv => RtcKeepsTheDate
  BY DatesAreRead DEF RtcKeepsTheDate
<1> QED BY <1>1, <1>2, <1>3, PTL DEF AllSpec
=============================================================================
