--------------------------- MODULE EspPower_proofs ---------------------------
(***************************************************************************)
(* The safety of sleep (EspPower) for every board and every setting.        *)
(*                                                                         *)
(* No property of EspPower is inductive as it stands: each is about the     *)
(* board asleep, and what makes it true happened before, while the power    *)
(* task was on its way there.  IInv says what is known all along that way:  *)
(* what the arguments it carries still mean, given what Vim has done since. *)
(***************************************************************************)
EXTENDS EspPower, TLAPS

(* The sleep under way is a request's, or Vim has not left its wait since   *)
(* the power task saw it there.                                             *)
Trusted == arg.from = "watch" => ~stirred

InReader == pc \in {"rest", "arm", "light", "woke", "rouse", "settle"}
InDeep   == pc \in {"deepRest", "off"}

(* On its watch, the power task carries nothing over from the last sleep.   *)
WatchIsClean ==
    /\ OnWatch => arg = NoArg
    /\ OnWatch \/ pc \in {"rest", "settle"} => asleep = 0

(* What Vim last told is so, as long as it waits.                           *)
ToldTrue ==
    /\ sWaiting <=> vim = "waiting"
    /\ vim \in {"entering", "waiting"} => sUnsaved = modified
    /\ pc # "poll" /\ Trusted /\ arg.from = "watch" => vim = "waiting"

(* What a sleep was begun with is so, too.                                  *)
ArgTrue ==
    /\ req.pending => req.unsaved = modified /\ Wakeable(req.deep, req.wake)
    /\ ~OnWatch /\ Trusted => arg.unsaved = modified
    /\ InReader => ~arg.deep /\ Wakeable(FALSE, arg.wake)
    /\ InDeep => arg.deep \/ ~arg.unsaved
    /\ arg.deep => arg.from = "request"

(* The time asleep is short of the time to wake or to go deep.              *)
StillTime ==
    pc = "arm" =>
        /\ arg.wake > 0 => asleep < arg.wake
        /\ arg.wake = 0 /\ deepMin > 0 /\ ~arg.unsaved /\ Trusted => asleep < deepMin

IInv ==
    /\ TypeOK /\ OneSleepAtATime /\ WatchIsClean /\ ToldTrue /\ ArgTrue /\ StillTime
    /\ AlwaysWakeable /\ NoOversleep

LEMMA InitIInv == Init => IInv
<1> SUFFICES ASSUME Init PROVE IInv
  OBVIOUS
<1> USE DEF Init, OnWatch, InReader, InDeep, Asleep, Off,
            Awake, Trusted, Wakeable, HasKey, RtcKey, HasBat,
            NoReq, NoArg, vimVars, toldVars, setVars, reqVars,
            sleepVars, keyVars, envVars, histVars
<1>1. VimTypeOK BY PowerAssumption DEF VimTypeOK
<1>2. SleepTypeOK BY PowerAssumption DEF SleepTypeOK
<1>3. KeyTypeOK BY PowerAssumption DEF KeyTypeOK
<1>4. HistTypeOK BY PowerAssumption DEF HistTypeOK
<1>5. OneSleepAtATime BY PowerAssumption DEF OneSleepAtATime
<1>6. WatchIsClean BY PowerAssumption DEF WatchIsClean
<1>7. ToldTrue BY PowerAssumption DEF ToldTrue
<1>8. ArgTrue BY PowerAssumption DEF ArgTrue
<1>9. StillTime BY PowerAssumption DEF StillTime
<1>10. AlwaysWakeable BY PowerAssumption DEF AlwaysWakeable
<1>11. NoOversleep BY PowerAssumption DEF NoOversleep
<1> QED BY <1>1, <1>2, <1>3, <1>4, <1>5, <1>6, <1>7, <1>8, <1>9, <1>10, <1>11 DEF IInv, TypeOK

LEMMA StartWaitingIInv == IInv /\ StartWaiting => IInv'
  BY PowerAssumption DEF StartWaiting, IInv, TypeOK, VimTypeOK, SleepTypeOK, KeyTypeOK,
     HistTypeOK, OneSleepAtATime, WatchIsClean, ToldTrue,
     ArgTrue, StillTime, AlwaysWakeable, NoOversleep, NoReq, NoArg, OnWatch, InReader, InDeep,
     Asleep, Off, Awake, Trusted, Wakeable, HasKey, RtcKey, HasBat,
     vimVars, toldVars, setVars, reqVars, sleepVars,
     keyVars, envVars, histVars

LEMMA NowWaitingIInv == IInv /\ NowWaiting => IInv'
  BY PowerAssumption DEF NowWaiting, IInv, TypeOK, VimTypeOK, SleepTypeOK, KeyTypeOK,
     HistTypeOK, OneSleepAtATime, WatchIsClean, ToldTrue,
     ArgTrue, StillTime, AlwaysWakeable, NoOversleep, NoReq, NoArg, OnWatch, InReader, InDeep,
     Asleep, Off, Awake, Trusted, Wakeable, HasKey, RtcKey, HasBat,
     vimVars, toldVars, setVars, reqVars, sleepVars,
     keyVars, envVars, histVars

LEMMA StopWaitingIInv == IInv /\ StopWaiting => IInv'
<1> SUFFICES ASSUME IInv, StopWaiting PROVE IInv'
  OBVIOUS
<1> USE DEF StopWaiting, OnWatch, InReader, InDeep, Asleep, Off,
            Awake, Trusted, Wakeable, HasKey, RtcKey, HasBat,
            NoReq, NoArg, vimVars, toldVars, setVars, reqVars,
            sleepVars, keyVars, envVars, histVars
<1>1. VimTypeOK'
  <2>1. idleFor' \in Nat BY DEF IInv, TypeOK, VimTypeOK
  <2> QED BY <2>1 DEF IInv, TypeOK, VimTypeOK
<1>2. SleepTypeOK' BY DEF IInv, TypeOK, SleepTypeOK
<1>3. KeyTypeOK' BY DEF IInv, TypeOK, KeyTypeOK
<1>4. HistTypeOK' BY DEF IInv, TypeOK, HistTypeOK
<1>5. OneSleepAtATime'
  BY DEF IInv, TypeOK, VimTypeOK, SleepTypeOK, OneSleepAtATime, WatchIsClean, ToldTrue, ArgTrue
<1>6. WatchIsClean'
  BY DEF IInv, TypeOK, VimTypeOK, SleepTypeOK, OneSleepAtATime, WatchIsClean, ToldTrue, ArgTrue
<1>7. ToldTrue'
  BY DEF IInv, TypeOK, VimTypeOK, SleepTypeOK, OneSleepAtATime, WatchIsClean, ToldTrue, ArgTrue
<1>8. ArgTrue'
  BY DEF IInv, TypeOK, VimTypeOK, SleepTypeOK, OneSleepAtATime, WatchIsClean, ToldTrue, ArgTrue
<1>9. StillTime'
  BY DEF IInv, TypeOK, VimTypeOK, SleepTypeOK, OneSleepAtATime, WatchIsClean, ArgTrue, StillTime
<1>10. AlwaysWakeable'
  BY DEF IInv, TypeOK, VimTypeOK, SleepTypeOK, OneSleepAtATime, WatchIsClean, ArgTrue,
     StillTime, AlwaysWakeable
<1>11. NoOversleep'
  BY DEF IInv, TypeOK, VimTypeOK, SleepTypeOK, OneSleepAtATime, WatchIsClean, ArgTrue,
     StillTime, NoOversleep
<1> QED BY <1>1, <1>2, <1>3, <1>4, <1>5, <1>6, <1>7, <1>8, <1>9, <1>10, <1>11 DEF IInv, TypeOK

LEMMA EditIInv == IInv /\ Edit => IInv'
  BY PowerAssumption DEF Edit, IInv, TypeOK, VimTypeOK, SleepTypeOK, KeyTypeOK, HistTypeOK,
     OneSleepAtATime, WatchIsClean, ToldTrue,
     ArgTrue, StillTime, AlwaysWakeable, NoOversleep, NoReq, NoArg, OnWatch, InReader, InDeep,
     Asleep, Off, Awake, Trusted, Wakeable, HasKey, RtcKey, HasBat,
     vimVars, toldVars, setVars, reqVars, sleepVars,
     keyVars, envVars, histVars

LEMMA SetPowerIInv == IInv /\ SetPower => IInv'
  BY PowerAssumption DEF SetPower, IInv, TypeOK, VimTypeOK, SleepTypeOK, KeyTypeOK, HistTypeOK,
     OneSleepAtATime, WatchIsClean, ToldTrue,
     ArgTrue, StillTime, AlwaysWakeable, NoOversleep, NoReq, NoArg, OnWatch, InReader, InDeep,
     Asleep, Off, Awake, Trusted, Wakeable, HasKey, RtcKey, HasBat,
     vimVars, toldVars, setVars, reqVars, sleepVars,
     keyVars, envVars, histVars

LEMMA AskIInv ==
  ASSUME IInv, NEW deep \in BOOLEAN, NEW wake \in WakeSecs, Ask(deep, wake)
  PROVE  IInv'
<1> USE DEF Ask, Lock, OnWatch, InReader, InDeep, Asleep, Off,
            Awake, Trusted, Wakeable, HasKey, RtcKey, HasBat,
            NoReq, NoArg, vimVars, toldVars, setVars, reqVars,
            sleepVars, keyVars, envVars, histVars
<1>1. VimTypeOK' BY PowerAssumption DEF IInv, TypeOK, VimTypeOK
<1>2. SleepTypeOK'
  <2>1. req' \in [pending : BOOLEAN, deep : BOOLEAN, wake : WakeSecs \cup {0},
                  unsaved : BOOLEAN]
    BY DEF IInv, TypeOK, VimTypeOK
  <2> QED BY <2>1 DEF IInv, TypeOK, SleepTypeOK
<1>3. KeyTypeOK' BY PowerAssumption DEF IInv, TypeOK, KeyTypeOK
<1>4. HistTypeOK' BY PowerAssumption DEF IInv, TypeOK, HistTypeOK
<1>5. OneSleepAtATime'
  BY DEF IInv, TypeOK, VimTypeOK, SleepTypeOK, OneSleepAtATime, WatchIsClean, ToldTrue, ArgTrue
<1>6. WatchIsClean'
  BY DEF IInv, TypeOK, VimTypeOK, SleepTypeOK, OneSleepAtATime, WatchIsClean, ToldTrue, ArgTrue
<1>7. ToldTrue'
  BY DEF IInv, TypeOK, VimTypeOK, SleepTypeOK, OneSleepAtATime, WatchIsClean, ToldTrue, ArgTrue
<1>8. ArgTrue'
  BY DEF IInv, TypeOK, VimTypeOK, SleepTypeOK, OneSleepAtATime, WatchIsClean, ToldTrue, ArgTrue
<1>9. StillTime'
  BY PowerAssumption DEF IInv, TypeOK, VimTypeOK, SleepTypeOK, OneSleepAtATime, WatchIsClean,
     ArgTrue, StillTime
<1>10. AlwaysWakeable'
  BY PowerAssumption DEF IInv, TypeOK, VimTypeOK, SleepTypeOK, OneSleepAtATime, WatchIsClean,
     ArgTrue, StillTime, AlwaysWakeable
<1>11. NoOversleep'
  BY PowerAssumption DEF IInv, TypeOK, VimTypeOK, SleepTypeOK, OneSleepAtATime, WatchIsClean,
     ArgTrue, StillTime, NoOversleep
<1> QED BY <1>1, <1>2, <1>3, <1>4, <1>5, <1>6, <1>7, <1>8, <1>9, <1>10, <1>11 DEF IInv, TypeOK

LEMMA AnsweredIInv == IInv /\ Answered => IInv'
<1> SUFFICES ASSUME IInv, Answered PROVE IInv'
  OBVIOUS
<1> USE DEF Answered, Unlock, OnWatch, InReader, InDeep, Asleep, Off,
            Awake, Trusted, Wakeable, HasKey, RtcKey, HasBat,
            NoReq, NoArg, vimVars, toldVars, setVars, reqVars,
            sleepVars, keyVars, envVars, histVars
<1>1. VimTypeOK' BY PowerAssumption DEF IInv, TypeOK, VimTypeOK
<1>2. SleepTypeOK' BY PowerAssumption DEF IInv, TypeOK, SleepTypeOK
<1>3. KeyTypeOK' BY PowerAssumption DEF IInv, TypeOK, KeyTypeOK
<1>4. HistTypeOK' BY PowerAssumption DEF IInv, TypeOK, HistTypeOK
<1>5. OneSleepAtATime'
  BY DEF IInv, TypeOK, VimTypeOK, SleepTypeOK, OneSleepAtATime, WatchIsClean, ToldTrue, ArgTrue
<1>6. WatchIsClean'
  BY DEF IInv, TypeOK, VimTypeOK, SleepTypeOK, OneSleepAtATime, WatchIsClean, ToldTrue, ArgTrue
<1>7. ToldTrue'
  BY DEF IInv, TypeOK, VimTypeOK, SleepTypeOK, OneSleepAtATime, WatchIsClean, ToldTrue, ArgTrue
<1>8. ArgTrue'
  BY DEF IInv, TypeOK, VimTypeOK, SleepTypeOK, OneSleepAtATime, WatchIsClean, ToldTrue, ArgTrue
<1>9. StillTime'
  BY PowerAssumption DEF IInv, TypeOK, VimTypeOK, SleepTypeOK, OneSleepAtATime, WatchIsClean,
     ArgTrue, StillTime
<1>10. AlwaysWakeable'
  BY PowerAssumption DEF IInv, TypeOK, VimTypeOK, SleepTypeOK, OneSleepAtATime, WatchIsClean,
     ArgTrue, StillTime, AlwaysWakeable
<1>11. NoOversleep'
  BY PowerAssumption DEF IInv, TypeOK, VimTypeOK, SleepTypeOK, OneSleepAtATime, WatchIsClean,
     ArgTrue, StillTime, NoOversleep
<1> QED BY <1>1, <1>2, <1>3, <1>4, <1>5, <1>6, <1>7, <1>8, <1>9, <1>10, <1>11 DEF IInv, TypeOK

LEMMA TakeRequestIInv == IInv /\ TakeRequest => IInv'
  BY PowerAssumption DEF TakeRequest, IInv, TypeOK, VimTypeOK, SleepTypeOK, KeyTypeOK,
     HistTypeOK, OneSleepAtATime, WatchIsClean, ToldTrue,
     ArgTrue, StillTime, AlwaysWakeable, NoOversleep, NoReq, NoArg, OnWatch, InReader, InDeep,
     Asleep, Off, Awake, Trusted, Wakeable, HasKey, RtcKey, HasBat,
     vimVars, toldVars, setVars, reqVars, sleepVars,
     keyVars, envVars, histVars

LEMMA PollIInv == IInv /\ Poll => IInv'
<1> SUFFICES ASSUME IInv, Poll PROVE IInv'
  OBVIOUS
<1> USE DEF Poll, PollButton, Measured, OnWatch, InReader, InDeep, Asleep, Off,
            Awake, Trusted, Wakeable, HasKey, RtcKey, HasBat,
            NoReq, NoArg, vimVars, toldVars, setVars, reqVars,
            sleepVars, keyVars, envVars, histVars
<1>1. VimTypeOK' BY DEF IInv, TypeOK, VimTypeOK
<1>2. SleepTypeOK' BY DEF IInv, TypeOK, SleepTypeOK
<1>3. KeyTypeOK' BY DEF IInv, TypeOK, KeyTypeOK
<1>4. HistTypeOK' BY DEF IInv, TypeOK, HistTypeOK
<1>5. OneSleepAtATime'
  BY DEF IInv, TypeOK, VimTypeOK, SleepTypeOK, OneSleepAtATime, WatchIsClean, ToldTrue, ArgTrue
<1>6. WatchIsClean'
  BY DEF IInv, TypeOK, VimTypeOK, SleepTypeOK, OneSleepAtATime, WatchIsClean, ToldTrue, ArgTrue
<1>7. ToldTrue'
  BY DEF IInv, TypeOK, VimTypeOK, SleepTypeOK, OneSleepAtATime, WatchIsClean, ToldTrue, ArgTrue
<1>8. ArgTrue'
  BY DEF IInv, TypeOK, VimTypeOK, SleepTypeOK, OneSleepAtATime, WatchIsClean, ToldTrue, ArgTrue
<1>9. StillTime'
  BY DEF IInv, TypeOK, VimTypeOK, SleepTypeOK, OneSleepAtATime, WatchIsClean, ArgTrue, StillTime
<1>10. AlwaysWakeable'
  BY DEF IInv, TypeOK, VimTypeOK, SleepTypeOK, OneSleepAtATime, WatchIsClean, ArgTrue,
     StillTime, AlwaysWakeable
<1>11. NoOversleep'
  BY DEF IInv, TypeOK, VimTypeOK, SleepTypeOK, OneSleepAtATime, WatchIsClean, ArgTrue,
     StillTime, NoOversleep
<1> QED BY <1>1, <1>2, <1>3, <1>4, <1>5, <1>6, <1>7, <1>8, <1>9, <1>10, <1>11 DEF IInv, TypeOK

LEMMA DecideDeepIInv == IInv /\ DecideDeep => IInv'
<1> SUFFICES ASSUME IInv, DecideDeep PROVE IInv'
  OBVIOUS
<1> USE DEF DecideDeep, BatteryLow, Lock, BatteryLow, Idle, OnWatch, InReader, InDeep, Asleep,
     Off,
            Awake, Trusted, Wakeable, HasKey, RtcKey, HasBat,
            NoReq, NoArg, vimVars, toldVars, setVars, reqVars,
            sleepVars, keyVars, envVars, histVars
<1>1. VimTypeOK' BY DEF IInv, TypeOK, VimTypeOK
<1>2. SleepTypeOK' BY DEF IInv, TypeOK, SleepTypeOK
<1>3. KeyTypeOK' BY DEF IInv, TypeOK, KeyTypeOK
<1>4. HistTypeOK' BY DEF IInv, TypeOK, HistTypeOK
<1>5. OneSleepAtATime'
  BY DEF IInv, TypeOK, VimTypeOK, SleepTypeOK, OneSleepAtATime, WatchIsClean, ToldTrue, ArgTrue
<1>6. WatchIsClean'
  BY DEF IInv, TypeOK, VimTypeOK, SleepTypeOK, OneSleepAtATime, WatchIsClean, ToldTrue, ArgTrue
<1>7. ToldTrue'
  BY DEF IInv, TypeOK, VimTypeOK, SleepTypeOK, OneSleepAtATime, WatchIsClean, ToldTrue, ArgTrue
<1>8. ArgTrue'
  BY DEF IInv, TypeOK, VimTypeOK, SleepTypeOK, OneSleepAtATime, WatchIsClean, ToldTrue, ArgTrue
<1>9. StillTime'
  BY DEF IInv, TypeOK, VimTypeOK, SleepTypeOK, OneSleepAtATime, WatchIsClean, ArgTrue, StillTime
<1>10. AlwaysWakeable'
  BY DEF IInv, TypeOK, VimTypeOK, SleepTypeOK, OneSleepAtATime, WatchIsClean, ArgTrue,
     StillTime, AlwaysWakeable
<1>11. NoOversleep'
  BY DEF IInv, TypeOK, VimTypeOK, SleepTypeOK, OneSleepAtATime, WatchIsClean, ArgTrue,
     StillTime, NoOversleep
<1> QED BY <1>1, <1>2, <1>3, <1>4, <1>5, <1>6, <1>7, <1>8, <1>9, <1>10, <1>11 DEF IInv, TypeOK

LEMMA DecideReaderIInv == IInv /\ DecideReader => IInv'
<1> SUFFICES ASSUME IInv, DecideReader PROVE IInv'
  OBVIOUS
<1> USE DEF DecideReader, Lock, BatteryLow, Idle, OnWatch, InReader, InDeep, Asleep, Off,
            Awake, Trusted, Wakeable, HasKey, RtcKey, HasBat,
            NoReq, NoArg, vimVars, toldVars, setVars, reqVars,
            sleepVars, keyVars, envVars, histVars
<1>1. VimTypeOK' BY DEF IInv, TypeOK, VimTypeOK
<1>2. SleepTypeOK'
  <2>1. arg' \in [from : {"watch", "request"}, deep : BOOLEAN, wake : WakeSecs \cup {0},
                  unsaved : BOOLEAN]
    <3>1. \/ arg' = [from |-> "watch", deep |-> FALSE, wake |-> 0, unsaved |-> sUnsaved]
          \/ arg' = arg
      OBVIOUS
    <3>2. sUnsaved \in BOOLEAN
      BY DEF IInv, TypeOK, VimTypeOK
    <3>3. arg \in [from : {"watch", "request"}, deep : BOOLEAN, wake : WakeSecs \cup {0},
                   unsaved : BOOLEAN]
      BY DEF IInv, TypeOK, SleepTypeOK
    <3>4. CASE arg' = arg
      BY <3>3, <3>4
    <3>5. CASE arg' = [from |-> "watch", deep |-> FALSE, wake |-> 0, unsaved |-> sUnsaved]
      BY <3>2, <3>5
    <3> QED BY <3>1, <3>4, <3>5
  <2> QED BY <2>1 DEF IInv, TypeOK, SleepTypeOK
<1>3. KeyTypeOK' BY DEF IInv, TypeOK, KeyTypeOK
<1>4. HistTypeOK' BY DEF IInv, TypeOK, HistTypeOK
<1>5. OneSleepAtATime'
  BY DEF IInv, TypeOK, VimTypeOK, SleepTypeOK, OneSleepAtATime, WatchIsClean, ToldTrue, ArgTrue
<1>6. WatchIsClean'
  BY DEF IInv, TypeOK, VimTypeOK, SleepTypeOK, OneSleepAtATime, WatchIsClean, ToldTrue, ArgTrue
<1>7. ToldTrue'
  BY DEF IInv, TypeOK, VimTypeOK, SleepTypeOK, OneSleepAtATime, WatchIsClean, ToldTrue, ArgTrue
<1>8. ArgTrue'
  BY DEF IInv, TypeOK, VimTypeOK, SleepTypeOK, OneSleepAtATime, WatchIsClean, ToldTrue, ArgTrue
<1>9. StillTime'
  BY DEF IInv, TypeOK, VimTypeOK, SleepTypeOK, OneSleepAtATime, WatchIsClean, ArgTrue, StillTime
<1>10. AlwaysWakeable'
  BY DEF IInv, TypeOK, VimTypeOK, SleepTypeOK, OneSleepAtATime, WatchIsClean, ArgTrue,
     StillTime, AlwaysWakeable
<1>11. NoOversleep'
  BY DEF IInv, TypeOK, VimTypeOK, SleepTypeOK, OneSleepAtATime, WatchIsClean, ArgTrue,
     StillTime, NoOversleep
<1> QED BY <1>1, <1>2, <1>3, <1>4, <1>5, <1>6, <1>7, <1>8, <1>9, <1>10, <1>11 DEF IInv, TypeOK

LEMMA DecideNothingIInv == IInv /\ DecideNothing => IInv'
<1> SUFFICES ASSUME IInv, DecideNothing PROVE IInv'
  OBVIOUS
<1> USE DEF DecideNothing, BatteryLow, Idle, OnWatch, InReader, InDeep, Asleep, Off,
            Awake, Trusted, Wakeable, HasKey, RtcKey, HasBat,
            NoReq, NoArg, vimVars, toldVars, setVars, reqVars,
            sleepVars, keyVars, envVars, histVars
<1>1. VimTypeOK' BY DEF IInv, TypeOK, VimTypeOK
<1>2. SleepTypeOK' BY DEF IInv, TypeOK, SleepTypeOK
<1>3. KeyTypeOK' BY DEF IInv, TypeOK, KeyTypeOK
<1>4. HistTypeOK' BY DEF IInv, TypeOK, HistTypeOK
<1>5. OneSleepAtATime'
  BY DEF IInv, TypeOK, VimTypeOK, SleepTypeOK, OneSleepAtATime, WatchIsClean, ToldTrue, ArgTrue
<1>6. WatchIsClean'
  BY DEF IInv, TypeOK, VimTypeOK, SleepTypeOK, OneSleepAtATime, WatchIsClean, ToldTrue, ArgTrue
<1>7. ToldTrue'
  BY DEF IInv, TypeOK, VimTypeOK, SleepTypeOK, OneSleepAtATime, WatchIsClean, ToldTrue, ArgTrue
<1>8. ArgTrue'
  BY DEF IInv, TypeOK, VimTypeOK, SleepTypeOK, OneSleepAtATime, WatchIsClean, ToldTrue, ArgTrue
<1>9. StillTime'
  BY DEF IInv, TypeOK, VimTypeOK, SleepTypeOK, OneSleepAtATime, WatchIsClean, ArgTrue, StillTime
<1>10. AlwaysWakeable'
  BY DEF IInv, TypeOK, VimTypeOK, SleepTypeOK, OneSleepAtATime, WatchIsClean, ArgTrue,
     StillTime, AlwaysWakeable
<1>11. NoOversleep'
  BY DEF IInv, TypeOK, VimTypeOK, SleepTypeOK, OneSleepAtATime, WatchIsClean, ArgTrue,
     StillTime, NoOversleep
<1> QED BY <1>1, <1>2, <1>3, <1>4, <1>5, <1>6, <1>7, <1>8, <1>9, <1>10, <1>11 DEF IInv, TypeOK

LEMMA RestIInv == IInv /\ Rest => IInv'
  BY PowerAssumption DEF Rest, Goes, IInv, TypeOK, VimTypeOK, SleepTypeOK, KeyTypeOK,
     HistTypeOK, OneSleepAtATime, WatchIsClean, ToldTrue,
     ArgTrue, StillTime, AlwaysWakeable, NoOversleep, NoReq, NoArg, OnWatch, InReader, InDeep,
     Asleep, Off, Awake, Trusted, Wakeable, HasKey, RtcKey, HasBat,
     vimVars, toldVars, setVars, reqVars, sleepVars,
     keyVars, envVars, histVars

(* The timer for the next light sleep: always one where there is no button, *)
(* and never past the end of the sleep.                                     *)
LEMMA TimerForFits ==
  ASSUME IInv, pc = "arm"
  PROVE  /\ TimerFor \in Nat
         /\ HasKey \/ TimerFor > 0
         /\ arg.wake > 0 => asleep + TimerFor <= arg.wake
         /\ HasBat /\ arg.wake = 0 => TimerFor \in 1..BatEvery
         /\ arg.wake = 0 /\ deepMin > 0 /\ ~arg.unsaved /\ Trusted
            => asleep + TimerFor <= deepMin
<1>1. /\ arg.wake \in Nat /\ deepMin \in Nat /\ asleep \in Nat /\ arg.unsaved \in BOOLEAN
      /\ BatEvery \in Nat \ {0} /\ HasBat \in BOOLEAN /\ HasKey \in BOOLEAN
  <2>1. arg.unsaved \in BOOLEAN /\ asleep \in Nat
    BY DEF IInv, TypeOK, SleepTypeOK
  <2>2. deepMin \in DeepMins \cup {0}
    BY DEF IInv, TypeOK, VimTypeOK
  <2>3. WakeSecs \subseteq Nat /\ DeepMins \subseteq Nat
    BY PowerAssumption
  <2>4. BatEvery \in Nat \ {0} /\ HasBat \in BOOLEAN /\ HasKey \in BOOLEAN
    BY PowerAssumption DEF IInv, TypeOK, VimTypeOK, HasBat, HasKey
  <2>5. arg.wake \in Nat
    <3>1. arg.wake \in WakeSecs \cup {0}
      BY DEF IInv, TypeOK, SleepTypeOK
    <3>2. \A w \in WakeSecs \cup {0} : w \in Nat
      BY <2>3
    <3> QED BY <3>1, <3>2, Zenon
  <2>6. deepMin \in Nat
    BY <2>2, <2>3
  <2> QED BY <2>1, <2>4, <2>5, <2>6, Zenon
<1>2. arg.wake > 0 => asleep < arg.wake
  BY DEF IInv, StillTime
<1>3. HasKey \/ arg.wake > 0
  BY DEF IInv, ArgTrue, InReader, Wakeable
<1>4. arg.wake = 0 /\ deepMin > 0 /\ ~arg.unsaved /\ Trusted => asleep < deepMin
  BY DEF IInv, StillTime
<1>5. CASE arg.wake > 0
  <2>1. TimerFor = arg.wake - asleep
    BY <1>1, <1>2, <1>5 DEF TimerFor
  <2> QED BY <2>1, <1>1, <1>2, <1>5
<1>6. CASE arg.wake = 0 /\ deepMin > 0 /\ ~arg.unsaved
  <2>1. asleep < deepMin => TimerFor > 0 /\ TimerFor <= deepMin - asleep
    BY <1>1, <1>6 DEF TimerFor
  <2>2. TimerFor \in Nat /\ (HasBat => TimerFor \in 1..BatEvery)
    BY <1>1, <1>6 DEF TimerFor
  <2> QED BY <2>1, <2>2, <1>1, <1>3, <1>4, <1>6
<1>7. CASE arg.wake = 0 /\ ~(deepMin > 0 /\ ~arg.unsaved)
  <2>1. TimerFor = IF HasBat THEN BatEvery ELSE 0
    BY <1>1, <1>7 DEF TimerFor
  <2> QED BY <2>1, <1>1, <1>3, <1>7
<1> QED BY <1>1, <1>5, <1>6, <1>7

LEMMA LightSleepIInv == IInv /\ LightSleep => IInv'
<1> SUFFICES ASSUME IInv, LightSleep PROVE IInv'
  OBVIOUS
<1> USE DEF LightSleep, Goes, OnWatch, InReader, InDeep, Asleep, Off,
            Awake, Trusted, Wakeable, HasKey, RtcKey, HasBat,
            NoReq, NoArg, vimVars, toldVars, setVars, reqVars,
            sleepVars, keyVars, envVars, histVars
<1>1. VimTypeOK' BY PowerAssumption DEF IInv, TypeOK, VimTypeOK
<1>2. SleepTypeOK' BY TimerForFits DEF IInv, TypeOK, SleepTypeOK
<1>3. KeyTypeOK' BY PowerAssumption DEF IInv, TypeOK, KeyTypeOK
<1>4. HistTypeOK' BY PowerAssumption DEF IInv, TypeOK, HistTypeOK
<1>5. OneSleepAtATime'
  BY DEF IInv, TypeOK, VimTypeOK, SleepTypeOK, OneSleepAtATime, WatchIsClean, ToldTrue, ArgTrue
<1>6. WatchIsClean'
  BY DEF IInv, TypeOK, VimTypeOK, SleepTypeOK, OneSleepAtATime, WatchIsClean, ToldTrue, ArgTrue
<1>7. ToldTrue'
  BY DEF IInv, TypeOK, VimTypeOK, SleepTypeOK, OneSleepAtATime, WatchIsClean, ToldTrue, ArgTrue
<1>8. ArgTrue'
  BY DEF IInv, TypeOK, VimTypeOK, SleepTypeOK, OneSleepAtATime, WatchIsClean, ToldTrue, ArgTrue
<1>9. StillTime'
  BY PowerAssumption DEF IInv, TypeOK, VimTypeOK, SleepTypeOK, OneSleepAtATime, WatchIsClean,
     ArgTrue, StillTime
<1>10. AlwaysWakeable'
  BY TimerForFits DEF IInv, AlwaysWakeable
<1>11. NoOversleep'
  BY TimerForFits DEF IInv, NoOversleep
<1> QED BY <1>1, <1>2, <1>3, <1>4, <1>5, <1>6, <1>7, <1>8, <1>9, <1>10, <1>11 DEF IInv, TypeOK

LEMMA CheckInIInv == IInv /\ CheckIn => IInv'
<1> SUFFICES ASSUME IInv, CheckIn PROVE IInv'
  OBVIOUS
<1> USE DEF CheckIn, TimerUp, GoDeep, Measured, OnWatch, InReader, InDeep, Asleep, Off,
            Awake, Trusted, Wakeable, HasKey, RtcKey, HasBat,
            NoReq, NoArg, vimVars, toldVars, setVars, reqVars,
            sleepVars, keyVars, envVars, histVars
<1>1. VimTypeOK' BY PowerAssumption DEF IInv, TypeOK, VimTypeOK
<1>2. SleepTypeOK' BY PowerAssumption DEF IInv, TypeOK, SleepTypeOK
<1>3. KeyTypeOK' BY PowerAssumption DEF IInv, TypeOK, KeyTypeOK
<1>4. HistTypeOK' BY PowerAssumption DEF IInv, TypeOK, HistTypeOK
<1>5. OneSleepAtATime'
  BY DEF IInv, TypeOK, VimTypeOK, SleepTypeOK, OneSleepAtATime, WatchIsClean, ToldTrue, ArgTrue
<1>6. WatchIsClean'
  BY DEF IInv, TypeOK, VimTypeOK, SleepTypeOK, OneSleepAtATime, WatchIsClean, ToldTrue, ArgTrue
<1>7. ToldTrue'
  BY DEF IInv, TypeOK, VimTypeOK, SleepTypeOK, OneSleepAtATime, WatchIsClean, ToldTrue, ArgTrue
<1>8. ArgTrue'
  BY DEF IInv, TypeOK, VimTypeOK, SleepTypeOK, OneSleepAtATime, WatchIsClean, ToldTrue, ArgTrue
<1>9. StillTime'
  BY PowerAssumption DEF IInv, TypeOK, VimTypeOK, SleepTypeOK, OneSleepAtATime, WatchIsClean,
     ArgTrue, StillTime
<1>10. AlwaysWakeable'
  BY PowerAssumption DEF IInv, TypeOK, VimTypeOK, SleepTypeOK, OneSleepAtATime, WatchIsClean,
     ArgTrue, StillTime, AlwaysWakeable
<1>11. NoOversleep'
  BY PowerAssumption DEF IInv, TypeOK, VimTypeOK, SleepTypeOK, OneSleepAtATime, WatchIsClean,
     ArgTrue, StillTime, NoOversleep
<1> QED BY <1>1, <1>2, <1>3, <1>4, <1>5, <1>6, <1>7, <1>8, <1>9, <1>10, <1>11 DEF IInv, TypeOK

LEMMA RouseIInv == IInv /\ Rouse => IInv'
  BY PowerAssumption DEF Rouse, IInv, TypeOK, VimTypeOK, SleepTypeOK, KeyTypeOK, HistTypeOK,
     OneSleepAtATime, WatchIsClean, ToldTrue,
     ArgTrue, StillTime, AlwaysWakeable, NoOversleep, NoReq, NoArg, OnWatch, InReader, InDeep,
     Asleep, Off, Awake, Trusted, Wakeable, HasKey, RtcKey, HasBat,
     vimVars, toldVars, setVars, reqVars, sleepVars,
     keyVars, envVars, histVars

LEMMA ReturnIInv == IInv /\ Return => IInv'
<1> SUFFICES ASSUME IInv, Return PROVE IInv'
  OBVIOUS
<1> USE DEF Return, Unlock, OnWatch, InReader, InDeep, Asleep, Off,
            Awake, Trusted, Wakeable, HasKey, RtcKey, HasBat,
            NoReq, NoArg, vimVars, toldVars, setVars, reqVars,
            sleepVars, keyVars, envVars, histVars
<1>1. VimTypeOK' BY DEF IInv, TypeOK, VimTypeOK
<1>2. SleepTypeOK' BY DEF IInv, TypeOK, SleepTypeOK
<1>3. KeyTypeOK' BY DEF IInv, TypeOK, KeyTypeOK
<1>4. HistTypeOK' BY DEF IInv, TypeOK, HistTypeOK
<1>5. OneSleepAtATime'
  BY DEF IInv, TypeOK, VimTypeOK, SleepTypeOK, OneSleepAtATime, WatchIsClean, ToldTrue, ArgTrue
<1>6. WatchIsClean'
  BY DEF IInv, TypeOK, VimTypeOK, SleepTypeOK, OneSleepAtATime, WatchIsClean, ToldTrue, ArgTrue
<1>7. ToldTrue'
  BY DEF IInv, TypeOK, VimTypeOK, SleepTypeOK, OneSleepAtATime, WatchIsClean, ToldTrue, ArgTrue
<1>8. ArgTrue'
  BY DEF IInv, TypeOK, VimTypeOK, SleepTypeOK, OneSleepAtATime, WatchIsClean, ToldTrue, ArgTrue
<1>9. StillTime'
  BY DEF IInv, TypeOK, VimTypeOK, SleepTypeOK, OneSleepAtATime, WatchIsClean, ArgTrue, StillTime
<1>10. AlwaysWakeable'
  BY DEF IInv, TypeOK, VimTypeOK, SleepTypeOK, OneSleepAtATime, WatchIsClean, ArgTrue,
     StillTime, AlwaysWakeable
<1>11. NoOversleep'
  BY DEF IInv, TypeOK, VimTypeOK, SleepTypeOK, OneSleepAtATime, WatchIsClean, ArgTrue,
     StillTime, NoOversleep
<1> QED BY <1>1, <1>2, <1>3, <1>4, <1>5, <1>6, <1>7, <1>8, <1>9, <1>10, <1>11 DEF IInv, TypeOK

LEMMA DeepSleepIInv == IInv /\ DeepSleep => IInv'
  BY PowerAssumption DEF DeepSleep, Goes, IInv, TypeOK, VimTypeOK, SleepTypeOK, KeyTypeOK,
     HistTypeOK, OneSleepAtATime, WatchIsClean, ToldTrue,
     ArgTrue, StillTime, AlwaysWakeable, NoOversleep, NoReq, NoArg, OnWatch, InReader, InDeep,
     Asleep, Off, Awake, Trusted, Wakeable, HasKey, RtcKey, HasBat,
     vimVars, toldVars, setVars, reqVars, sleepVars,
     keyVars, envVars, histVars

LEMMA WakeByKeyIInv == IInv /\ WakeByKey => IInv'
  BY PowerAssumption DEF WakeByKey, Wakes, IInv, TypeOK, VimTypeOK, SleepTypeOK, KeyTypeOK,
     HistTypeOK, OneSleepAtATime, WatchIsClean, ToldTrue,
     ArgTrue, StillTime, AlwaysWakeable, NoOversleep, NoReq, NoArg, OnWatch, InReader, InDeep,
     Asleep, Off, Awake, Trusted, Wakeable, HasKey, RtcKey, HasBat,
     vimVars, toldVars, setVars, reqVars, sleepVars,
     keyVars, envVars, histVars

LEMMA WakeByNothingIInv == IInv /\ WakeByNothing => IInv'
  BY PowerAssumption DEF WakeByNothing, Wakes, IInv, TypeOK, VimTypeOK, SleepTypeOK, KeyTypeOK,
     HistTypeOK, OneSleepAtATime, WatchIsClean, ToldTrue,
     ArgTrue, StillTime, AlwaysWakeable, NoOversleep, NoReq, NoArg, OnWatch, InReader, InDeep,
     Asleep, Off, Awake, Trusted, Wakeable, HasKey, RtcKey, HasBat,
     vimVars, toldVars, setVars, reqVars, sleepVars,
     keyVars, envVars, histVars

LEMMA WakeByTimerIInv == IInv /\ WakeByTimer => IInv'
  BY PowerAssumption DEF WakeByTimer, Wakes, IInv, TypeOK, VimTypeOK, SleepTypeOK, KeyTypeOK,
     HistTypeOK, OneSleepAtATime, WatchIsClean, ToldTrue,
     ArgTrue, StillTime, AlwaysWakeable, NoOversleep, NoReq, NoArg, OnWatch, InReader, InDeep,
     Asleep, Off, Awake, Trusted, Wakeable, HasKey, RtcKey, HasBat,
     vimVars, toldVars, setVars, reqVars, sleepVars,
     keyVars, envVars, histVars

LEMMA BootIInv == IInv /\ Boot => IInv'
<1> SUFFICES ASSUME IInv, Boot PROVE IInv'
  OBVIOUS
<1> USE DEF Boot, Measured, OnWatch, InReader, InDeep, Asleep, Off,
            Awake, Trusted, Wakeable, HasKey, RtcKey, HasBat,
            NoReq, NoArg, vimVars, toldVars, setVars, reqVars,
            sleepVars, keyVars, envVars, histVars
<1>1. VimTypeOK' BY PowerAssumption DEF IInv, TypeOK, VimTypeOK
<1>2. SleepTypeOK' BY PowerAssumption DEF IInv, TypeOK, SleepTypeOK
<1>3. KeyTypeOK' BY PowerAssumption DEF IInv, TypeOK, KeyTypeOK
<1>4. HistTypeOK' BY PowerAssumption DEF IInv, TypeOK, HistTypeOK
<1>5. OneSleepAtATime'
  BY DEF IInv, TypeOK, VimTypeOK, SleepTypeOK, OneSleepAtATime, WatchIsClean, ToldTrue, ArgTrue
<1>6. WatchIsClean'
  BY DEF IInv, TypeOK, VimTypeOK, SleepTypeOK, OneSleepAtATime, WatchIsClean, ToldTrue, ArgTrue
<1>7. ToldTrue'
  BY DEF IInv, TypeOK, VimTypeOK, SleepTypeOK, OneSleepAtATime, WatchIsClean, ToldTrue, ArgTrue
<1>8. ArgTrue'
  BY DEF IInv, TypeOK, VimTypeOK, SleepTypeOK, OneSleepAtATime, WatchIsClean, ToldTrue, ArgTrue
<1>9. StillTime'
  BY PowerAssumption DEF IInv, TypeOK, VimTypeOK, SleepTypeOK, OneSleepAtATime, WatchIsClean,
     ArgTrue, StillTime
<1>10. AlwaysWakeable'
  BY PowerAssumption DEF IInv, TypeOK, VimTypeOK, SleepTypeOK, OneSleepAtATime, WatchIsClean,
     ArgTrue, StillTime, AlwaysWakeable
<1>11. NoOversleep'
  BY PowerAssumption DEF IInv, TypeOK, VimTypeOK, SleepTypeOK, OneSleepAtATime, WatchIsClean,
     ArgTrue, StillTime, NoOversleep
<1> QED BY <1>1, <1>2, <1>3, <1>4, <1>5, <1>6, <1>7, <1>8, <1>9, <1>10, <1>11 DEF IInv, TypeOK

LEMMA PressIInv == IInv /\ Press => IInv'
  BY PowerAssumption DEF Press, IInv, TypeOK, VimTypeOK, SleepTypeOK, KeyTypeOK, HistTypeOK,
     OneSleepAtATime, WatchIsClean, ToldTrue,
     ArgTrue, StillTime, AlwaysWakeable, NoOversleep, NoReq, NoArg, OnWatch, InReader, InDeep,
     Asleep, Off, Awake, Trusted, Wakeable, HasKey, RtcKey, HasBat,
     vimVars, toldVars, setVars, reqVars, sleepVars,
     keyVars, envVars, histVars

LEMMA LetGoIInv == IInv /\ LetGo => IInv'
<1> SUFFICES ASSUME IInv, LetGo PROVE IInv'
  OBVIOUS
<1> USE DEF LetGo, OnWatch, InReader, InDeep, Asleep, Off,
            Awake, Trusted, Wakeable, HasKey, RtcKey, HasBat,
            NoReq, NoArg, vimVars, toldVars, setVars, reqVars,
            sleepVars, keyVars, envVars, histVars
<1>1. VimTypeOK' BY DEF IInv, TypeOK, VimTypeOK
<1>2. SleepTypeOK' BY DEF IInv, TypeOK, SleepTypeOK
<1>3. KeyTypeOK' BY DEF IInv, TypeOK, KeyTypeOK
<1>4. HistTypeOK' BY DEF IInv, TypeOK, HistTypeOK
<1>5. OneSleepAtATime'
  BY DEF IInv, TypeOK, VimTypeOK, SleepTypeOK, OneSleepAtATime, WatchIsClean, ToldTrue, ArgTrue
<1>6. WatchIsClean'
  BY DEF IInv, TypeOK, VimTypeOK, SleepTypeOK, OneSleepAtATime, WatchIsClean, ToldTrue, ArgTrue
<1>7. ToldTrue'
  BY DEF IInv, TypeOK, VimTypeOK, SleepTypeOK, OneSleepAtATime, WatchIsClean, ToldTrue, ArgTrue
<1>8. ArgTrue'
  BY DEF IInv, TypeOK, VimTypeOK, SleepTypeOK, OneSleepAtATime, WatchIsClean, ToldTrue, ArgTrue
<1>9. StillTime'
  BY DEF IInv, TypeOK, VimTypeOK, SleepTypeOK, OneSleepAtATime, WatchIsClean, ArgTrue, StillTime
<1>10. AlwaysWakeable'
  BY DEF IInv, TypeOK, VimTypeOK, SleepTypeOK, OneSleepAtATime, WatchIsClean, ArgTrue,
     StillTime, AlwaysWakeable
<1>11. NoOversleep'
  BY DEF IInv, TypeOK, VimTypeOK, SleepTypeOK, OneSleepAtATime, WatchIsClean, ArgTrue,
     StillTime, NoOversleep
<1> QED BY <1>1, <1>2, <1>3, <1>4, <1>5, <1>6, <1>7, <1>8, <1>9, <1>10, <1>11 DEF IInv, TypeOK

LEMMA PlugIInv == IInv /\ Plug => IInv'
  BY PowerAssumption DEF Plug, IInv, TypeOK, VimTypeOK, SleepTypeOK, KeyTypeOK, HistTypeOK,
     OneSleepAtATime, WatchIsClean, ToldTrue,
     ArgTrue, StillTime, AlwaysWakeable, NoOversleep, NoReq, NoArg, OnWatch, InReader, InDeep,
     Asleep, Off, Awake, Trusted, Wakeable, HasKey, RtcKey, HasBat,
     vimVars, toldVars, setVars, reqVars, sleepVars,
     keyVars, envVars, histVars

LEMMA MinuteIInv == IInv /\ Minute => IInv'
  BY PowerAssumption DEF Minute, IInv, TypeOK, VimTypeOK, SleepTypeOK, KeyTypeOK, HistTypeOK,
     OneSleepAtATime, WatchIsClean, ToldTrue,
     ArgTrue, StillTime, AlwaysWakeable, NoOversleep, NoReq, NoArg, OnWatch, InReader, InDeep,
     Asleep, Off, Awake, Trusted, Wakeable, HasKey, RtcKey, HasBat,
     vimVars, toldVars, setVars, reqVars, sleepVars,
     keyVars, envVars, histVars

LEMMA NextIInv == IInv /\ [Next]_vars => IInv'
<1> SUFFICES ASSUME IInv, [Next]_vars PROVE IInv'
  OBVIOUS
<1>1. CASE VimStep
  BY <1>1, StartWaitingIInv, NowWaitingIInv, StopWaitingIInv, EditIInv, SetPowerIInv,
     AskIInv, AnsweredIInv DEF VimStep
<1>2. CASE PowerStep
  BY <1>2, TakeRequestIInv, PollIInv, DecideDeepIInv, DecideReaderIInv, DecideNothingIInv,
     RestIInv, LightSleepIInv, CheckInIInv, RouseIInv, ReturnIInv, DeepSleepIInv DEF PowerStep
<1>3. CASE EnvStep
  BY <1>3, PressIInv, LetGoIInv, PlugIInv, MinuteIInv, WakeByKeyIInv, WakeByNothingIInv,
     WakeByTimerIInv, BootIInv DEF EnvStep
<1>4. CASE UNCHANGED vars
  BY <1>4 DEF IInv, TypeOK, VimTypeOK, SleepTypeOK, KeyTypeOK, HistTypeOK, OneSleepAtATime,
     WatchIsClean, ToldTrue, ArgTrue, StillTime, AlwaysWakeable, NoOversleep, OnWatch, InReader,
     InDeep, Asleep, Trusted, Wakeable, HasKey, RtcKey, HasBat,
     vars, vimVars, toldVars, setVars, reqVars, sleepVars,
     keyVars, envVars, histVars
<1> QED BY <1>1, <1>2, <1>3, <1>4 DEF Next

THEOREM Invariance == Spec => []IInv
  BY InitIInv, NextIInv, PTL DEF Spec

(* Every variable holds a value of its kind. *)
THEOREM TypeCorrect == Spec => []TypeOK
<1>1. IInv => TypeOK BY DEF IInv
<1> QED BY <1>1, Invariance, PTL

(* esp_power.c:65, "one sleep at a time": a sleep is served for the lock's  *)
(* holder alone, and a request is never lost, overwritten or answered twice. *)
THEOREM OneSleep == Spec => []OneSleepAtATime
<1>1. IInv => OneSleepAtATime BY DEF IInv
<1> QED BY <1>1, Invariance, PTL

(* A board with no button sleeps only with a timer set. *)
THEOREM Wakeability == Spec => []AlwaysWakeable
<1>1. IInv => AlwaysWakeable BY DEF IInv
<1> QED BY <1>1, Invariance, PTL

(* No light sleep outlasts the time to wake, to look at the battery, or to  *)
(* go deep.                                                                 *)
THEOREM Punctuality == Spec => []NoOversleep
<1>1. IInv => NoOversleep BY DEF IInv
<1> QED BY <1>1, Invariance, PTL

(* Asleep of its own accord, the board has Vim waiting for a key -- unless  *)
(* Vim left its wait while the radios and the screen were put to rest.      *)
THEOREM NoInterruption == Spec => []InterruptsNothing
<1>1. IInv => InterruptsNothing
  BY DEF IInv, ToldTrue, InterruptsNothing, Trusted, Asleep, Off
<1> QED BY <1>1, Invariance, PTL

(* A deep sleep nobody asked for finds every buffer saved, likewise.        *)
THEOREM NoLoss == Spec => []LosesNothing
<1>1. IInv => LosesNothing
  BY DEF IInv, TypeOK, SleepTypeOK, ArgTrue, LosesNothing, Trusted, OnWatch, InDeep, Off
<1> QED BY <1>1, Invariance, PTL

-----------------------------------------------------------------------------
(* What the promise and the button's press are about was done by the task on
   its way: it has slept when it is back, and the request when it is answered. *)
SleptFirst == (pc \in {"woke", "rouse", "settle"} => slept) /\ (reqDone => slept)

(* The press that ended a light sleep is held while it is on its way back; one
   that is left from before it is not yet told apart, and is before a sleep is
   decided on.                                                              *)
PressKnown ==
    /\ wakePress = "light" => key /\ pc \in {"rouse", "settle"}
    /\ spent = "light" => keyUsed
    /\ pc = "decide" /\ HasKey => ~keyUsed

LEMMA VimStepSlept == ASSUME IInv, SleptFirst, PressKnown, VimStep PROVE SleptFirst' /\ PressKnown'
<1>1. UNCHANGED <<board, pc, key, wakePress, spent, keyUsed>>
  BY DEF VimStep, StartWaiting, NowWaiting, StopWaiting, Edit, SetPower, Ask, Answered,
         setVars, envVars, keyVars, histVars
<1>2. PressKnown'
  BY <1>1 DEF PressKnown, HasKey
<1>3. \/ UNCHANGED <<reqDone, slept>>
      \/ reqDone' = FALSE /\ slept' = slept
      \/ reqDone' = FALSE /\ reqDone
  BY DEF VimStep, StartWaiting, NowWaiting, StopWaiting, Edit, SetPower, Ask, Answered,
         reqVars, histVars
<1>4. reqDone => OnWatch
  BY DEF IInv, OneSleepAtATime
<1>5. SleptFirst'
  BY <1>1, <1>3, <1>4 DEF SleptFirst, OnWatch
<1> QED BY <1>2, <1>5

LEMMA PollPress == ASSUME IInv, PressKnown, Poll PROVE PressKnown'
<1>1. /\ UNCHANGED <<board, key, wakePress>> /\ pc = "poll" /\ pc' \in {"poll", "decide"}
      /\ IF HasKey THEN PollButton ELSE UNCHANGED <<keyVars, spent>>
  BY DEF Poll, setVars, envVars
<1>2. wakePress # "light"
  BY <1>1 DEF PressKnown
<1>3. CASE HasKey
  <2>1. keyUsed' = FALSE /\ spent' # "light"
    BY <1>1, <1>2, <1>3 DEF PollButton, PressKnown
  <2> QED BY <1>1, <1>2, <2>1 DEF PressKnown
<1>4. CASE ~HasKey
  BY <1>1, <1>2, <1>4 DEF PressKnown, HasKey, keyVars
<1> QED BY <1>3, <1>4

LEMMA PowerStepSlept == ASSUME IInv, SleptFirst, PressKnown, PowerStep PROVE SleptFirst' /\ PressKnown'
<1>1. CASE Poll
  <2>1. pc' \in {"poll", "decide"} /\ UNCHANGED <<reqDone, slept>>
    BY <1>1 DEF Poll, reqVars
  <2> QED BY <1>1, <2>1, PollPress DEF SleptFirst
<1>2. CASE TakeRequest \/ DecideDeep \/ DecideReader \/ DecideNothing
  <2>1. /\ pc \in {"poll", "decide"} /\ pc' \in {"poll", "rest", "deepRest"}
        /\ UNCHANGED <<reqDone, slept, key, keyUsed, wakePress>> /\ spent' \in {spent, "no"}
    BY <1>2 DEF TakeRequest, DecideDeep, DecideReader, DecideNothing, reqVars, histVars, envVars,
                keyVars
  <2> QED BY <2>1 DEF SleptFirst, PressKnown
<1>3. CASE Rest \/ LightSleep \/ CheckIn \/ Rouse \/ DeepSleep
  <2>1. UNCHANGED <<reqDone, slept, key, keyUsed, wakePress, spent>>
    BY <1>3 DEF Rest, LightSleep, CheckIn, Rouse, DeepSleep, Goes, reqVars, histVars, envVars, keyVars
  <2>2. \/ pc' \in {"arm", "light", "deepRest", "off"} /\ pc \notin {"rouse", "settle"}
        \/ pc = "woke" /\ pc' = "rouse"
        \/ pc = "rouse" /\ pc' = "settle"
    BY <1>3 DEF Rest, LightSleep, CheckIn, Rouse, DeepSleep, Goes
  <2> QED BY <2>1, <2>2 DEF SleptFirst, PressKnown
<1>4. CASE Return
  <2>1. /\ pc = "settle" /\ pc' = "poll" /\ ~key
        /\ UNCHANGED <<key, keyUsed, wakePress, spent>>
        /\ reqDone' => reqDone \/ (slept => slept')
    BY <1>4 DEF Return, envVars
  <2>2. ~reqDone
    BY <2>1 DEF IInv, OneSleepAtATime, OnWatch
  <2>5. reqDone' => slept'
    BY <2>1, <2>2 DEF SleptFirst
  <2>3. SleptFirst'
    BY <2>1, <2>5 DEF SleptFirst
  <2>4. PressKnown'
    BY <2>1 DEF PressKnown
  <2> QED BY <2>3, <2>4
<1> QED BY <1>1, <1>2, <1>3, <1>4 DEF PowerStep

LEMMA EnvStepSlept == ASSUME IInv, SleptFirst, PressKnown, EnvStep PROVE SleptFirst' /\ PressKnown'
<1>1. CASE Press \/ LetGo \/ Plug \/ Minute
  <2>1. /\ UNCHANGED <<board, pc, reqDone, slept, keyUsed, spent>>
        /\ wakePress' = "light" => wakePress = "light" /\ key'
    <3>1. CASE Press
      <4>1. ~key /\ wakePress' = wakePress
        BY <3>1 DEF Press
      <4> QED BY <3>1, <4>1 DEF Press, PressKnown, setVars, reqVars, keyVars, histVars
    <3>2. CASE LetGo
      BY <3>2 DEF LetGo, setVars, reqVars, keyVars, histVars
    <3>3. CASE Plug \/ Minute
      BY <3>3 DEF Plug, Minute, PressKnown, setVars, reqVars, keyVars, envVars, histVars
    <3> QED BY <1>1, <3>1, <3>2, <3>3
  <2>2. SleptFirst'
    BY <2>1 DEF SleptFirst
  <2>3. PressKnown'
    BY <2>1 DEF PressKnown, HasKey
  <2> QED BY <2>2, <2>3
<1>2. CASE WakeByKey \/ WakeByNothing \/ WakeByTimer
  <2>1. /\ pc = "light" /\ pc' \in {"rouse", "woke"} /\ slept' = TRUE /\ keyUsed' = TRUE
        /\ key' = key /\ (wakePress' = wakePress \/ (wakePress' = "light" /\ key /\ pc' = "rouse"))
    BY <1>2 DEF WakeByKey, WakeByNothing, WakeByTimer, Wakes
  <2>2. SleptFirst'
    BY <2>1 DEF SleptFirst
  <2>3. wakePress # "light"
    BY <2>1 DEF PressKnown
  <2>4. PressKnown'
    BY <2>1, <2>3 DEF PressKnown
  <2> QED BY <2>2, <2>4
<1>3. CASE Boot
  <2>1. /\ pc' = "poll" /\ reqDone' = FALSE /\ spent' = "no" /\ wakePress' # "light"
    BY <1>3 DEF Boot
  <2> QED BY <2>1 DEF SleptFirst, PressKnown
<1> QED BY <1>1, <1>2, <1>3 DEF EnvStep

LEMMA Slept == Spec => [](IInv /\ SleptFirst /\ PressKnown)
<1>1. Init => IInv /\ SleptFirst /\ PressKnown
  BY InitIInv DEF Init, SleptFirst, PressKnown
<1>2. IInv /\ SleptFirst /\ PressKnown /\ [Next]_vars => (IInv /\ SleptFirst /\ PressKnown)'
  <2> SUFFICES ASSUME IInv, SleptFirst, PressKnown, [Next]_vars
               PROVE  SleptFirst' /\ PressKnown'
    BY NextIInv
  <2>1. CASE UNCHANGED vars
    BY <2>1 DEF SleptFirst, PressKnown, HasKey, vars, setVars, reqVars, keyVars, envVars, histVars
  <2> QED BY <2>1, VimStepSlept, PowerStepSlept, EnvStepSlept DEF Next
<1> QED BY <1>1, <1>2, PTL DEF Spec

-----------------------------------------------------------------------------
(* The promise, step by step: to take the lock begins a sleep, a light sleep
   dozes and wakes, and the lock is given back when the board has slept.    *)
chipOf == IF Asleep THEN "light" ELSE IF Off THEN "off" ELSE "awake"
ownerOf == IF lock = "power" THEN "watch" ELSE IF lock = "vim" THEN "vim" ELSE "nobody"

LEMMA PromisedOf ==
    ASSUME \/ Promise!Next
           \/ chipOf' = chipOf /\ ownerOf' = ownerOf /\ slept' = slept
    PROVE  [Promise!Next]_(Promise!promiseVars)
BY DEF Promise!promiseVars, chipOf, ownerOf

LEMMA Stutters ==
    ASSUME UNCHANGED <<lock, slept>>,
           pc' = pc \/ (pc \notin {"light", "off"} /\ pc' \notin {"light", "off"})
    PROVE  [Promise!Next]_(Promise!promiseVars)
BY PromisedOf DEF chipOf, ownerOf, Asleep, Off

LEMMA VimPromise == ASSUME IInv, SleptFirst, VimStep PROVE [Promise!Next]_(Promise!promiseVars)
<1>1. CASE StartWaiting \/ NowWaiting \/ StopWaiting \/ Edit \/ SetPower
  <2>1. UNCHANGED <<lock, slept, pc>>
    BY <1>1 DEF StartWaiting, NowWaiting, StopWaiting, Edit, SetPower, reqVars, histVars
  <2> QED BY <2>1, Stutters
<1>2. ASSUME NEW deep \in BOOLEAN, NEW wake \in WakeSecs, Ask(deep, wake)
      PROVE  [Promise!Next]_(Promise!promiseVars)
  <2>1. lock = "free" /\ lock' = "vim" /\ pc' = pc /\ slept' = slept /\ Awake
    BY <1>2 DEF Ask, Lock, histVars
  <2>2. Promise!Begin("vim")
    BY <2>1 DEF Promise!Begin, Awake, Asleep, Off
  <2> QED BY <2>2, PromisedOf DEF Promise!Next
<1>3. CASE Answered
  <2>1. lock = "vim" /\ lock' = "free" /\ pc' = pc /\ slept' = FALSE /\ slept /\ Awake
    BY <1>3 DEF Answered, Unlock, IInv, OneSleepAtATime, SleptFirst
  <2>2. Promise!End
    BY <2>1 DEF Promise!End, Awake, Asleep, Off
  <2> QED BY <2>2, PromisedOf DEF Promise!Next
<1> QED BY <1>1, <1>2, <1>3 DEF VimStep

LEMMA PowerPromise == ASSUME IInv, SleptFirst, PowerStep PROVE [Promise!Next]_(Promise!promiseVars)
<1>1. CASE TakeRequest \/ Poll \/ DecideNothing \/ Rest \/ CheckIn \/ Rouse
  <2>1. /\ UNCHANGED <<lock, slept>>
        /\ pc \notin {"light", "off"} /\ pc' \notin {"light", "off"}
    BY <1>1 DEF TakeRequest, Poll, DecideNothing, Rest, CheckIn, Rouse, Goes, reqVars, histVars
  <2> QED BY <2>1, Stutters
<1>2. CASE DecideDeep \/ DecideReader
  <2>1. pc = "decide" /\ pc' \in {"poll", "rest", "deepRest"} /\ slept' = slept
        /\ (lock' = lock \/ (lock = "free" /\ lock' = "power"))
    BY <1>2 DEF DecideDeep, DecideReader, Lock
  <2>2. CASE lock' = lock
    BY <2>1, <2>2, Stutters
  <2>3. CASE lock = "free" /\ lock' = "power"
    <3>1. Promise!Begin("watch")
      BY <2>1, <2>3 DEF Promise!Begin, Asleep, Off
    <3> QED BY <3>1, PromisedOf DEF Promise!Next
  <2> QED BY <2>1, <2>2, <2>3
<1>3. CASE LightSleep
  <2>1. pc = "arm" /\ pc' = "light" /\ UNCHANGED <<lock, slept>>
    BY <1>3 DEF LightSleep, Goes, reqVars, histVars
  <2>2. lock \in {"vim", "power"}
    BY <2>1 DEF IInv, OneSleepAtATime, OnWatch
  <2>3. Promise!Doze
    BY <2>1, <2>2 DEF Promise!Doze, Asleep, Off
  <2> QED BY <2>3, PromisedOf DEF Promise!Next
<1>4. CASE Return
  <2>1. pc = "settle" /\ pc' = "poll" /\ slept
    BY <1>4 DEF Return, SleptFirst
  <2>2. CASE arg.from = "request"
    BY <1>4, <2>1, <2>2, Stutters DEF Return
  <2>3. CASE arg.from # "request"
    <3>1. arg.from = "watch"
      BY <2>3 DEF IInv, TypeOK, SleepTypeOK
    <3>2. lock = "power" /\ lock' = "free" /\ slept' = FALSE
      BY <1>4, <2>1, <3>1 DEF Return, Unlock, IInv, OneSleepAtATime, OnWatch
    <3>3. Promise!End
      BY <2>1, <3>2 DEF Promise!End, Asleep, Off
    <3> QED BY <3>3, PromisedOf DEF Promise!Next
  <2> QED BY <2>2, <2>3
<1>5. CASE DeepSleep
  <2>1. pc = "deepRest" /\ pc' = "off" /\ UNCHANGED <<lock, slept>>
    BY <1>5 DEF DeepSleep, Goes, reqVars, histVars
  <2>2. lock \in {"vim", "power"}
    BY <2>1 DEF IInv, OneSleepAtATime, OnWatch
  <2>3. Promise!Stop
    BY <2>1, <2>2 DEF Promise!Stop, Asleep, Off
  <2> QED BY <2>3, PromisedOf DEF Promise!Next
<1> QED BY <1>1, <1>2, <1>3, <1>4, <1>5 DEF PowerStep

LEMMA EnvPromise == ASSUME IInv, EnvStep PROVE [Promise!Next]_(Promise!promiseVars)
<1>1. CASE Press \/ LetGo \/ Plug \/ Minute
  <2>1. UNCHANGED <<lock, slept, pc>>
    BY <1>1 DEF Press, LetGo, Plug, Minute, reqVars, histVars
  <2> QED BY <2>1, Stutters
<1>2. CASE WakeByKey \/ WakeByNothing \/ WakeByTimer
  <2>1. pc = "light" /\ pc' \in {"rouse", "woke"} /\ lock' = lock /\ slept' = TRUE
    BY <1>2 DEF WakeByKey, WakeByNothing, WakeByTimer, Wakes, reqVars
  <2>2. Promise!Wake
    BY <2>1 DEF Promise!Wake, Asleep, Off
  <2> QED BY <2>2, PromisedOf DEF Promise!Next
<1>3. CASE Boot
  <2>1. pc = "off" /\ pc' = "poll" /\ lock' = "free" /\ slept' = FALSE
    BY <1>3 DEF Boot
  <2>2. Promise!Boot
    BY <2>1 DEF Promise!Boot, Asleep, Off
  <2> QED BY <2>2, PromisedOf DEF Promise!Next
<1> QED BY <1>1, <1>2, <1>3 DEF EnvStep

(* esp_power.c keeps the promise of EspSleepPromise: a sleep is the lock
   holder's alone, the board is down only for it, and it is over for whoever
   began it only when the board has slept, on every board.                  *)
THEOREM PromiseKept == Spec => KeepsPromise
<1>1. Init => Promise!Init
  BY DEF Init, Promise!Init, Asleep, Off
<1>2. IInv /\ SleptFirst /\ PressKnown /\ [Next]_vars => [Promise!Next]_(Promise!promiseVars)
  <2> SUFFICES ASSUME IInv, SleptFirst, [Next]_vars
               PROVE  [Promise!Next]_(Promise!promiseVars)
    OBVIOUS
  <2>1. CASE UNCHANGED vars
    <3>1. UNCHANGED <<lock, slept, pc>>
      BY <2>1 DEF vars, reqVars, histVars
    <3> QED BY <3>1, Stutters
  <2> QED BY <2>1, VimPromise, PowerPromise, EnvPromise DEF Next
<1> QED BY <1>1, <1>2, Slept, PTL DEF Spec, KeepsPromise, Promise!Spec

(* The press that ended a light sleep is told apart by s_key_used before the
   poll that could take it for one to sleep again, however long it is held.  *)
THEOREM PressesSpent == Spec => PressesAreSpent
<1>1. IInv /\ SleptFirst /\ PressKnown /\ [Next]_vars => [SleepsByButton => spent # "light"]_vars
  BY DEF PressKnown, SleepsByButton, DecideReader
<1> QED BY <1>1, Slept, PTL DEF Spec, PressesAreSpent
=============================================================================
