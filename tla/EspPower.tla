------------------------------ MODULE EspPower ------------------------------
(***************************************************************************)
(* Sleep: components/esp_power/esp_power.c, with Vim's side of it           *)
(* (components/vim/port/esp_shims.c, select(), and vim/api/esp_api_sys.c).  *)
(*                                                                         *)
(* Three actors.  The power task polls the wake button, the battery and     *)
(* what Vim said about itself, and is the only one to enter a sleep.  Vim's *)
(* task waits for a key, runs commands, and may ask the power task for a    *)
(* sleep.  The environment presses the button, drains or charges the        *)
(* battery, and lets time pass.                                             *)
(*                                                                         *)
(* A light sleep ("reader mode") freezes both tasks; a deep sleep ends in a *)
(* boot.  The time asleep is counted in units of the slack both sleep       *)
(* timers allow (1 s in the code), the idle time in units of a minute.      *)
(***************************************************************************)
EXTENDS Integers

CONSTANTS
    Boards,     \* the boards this may be built for
    IdleMins,   \* the values "idle_min" takes; 0: never sleep by itself
    DeepMins,   \* the values "deep_min" takes; 0: never deep by itself
    WakeSecs,   \* the {seconds} esp_sleep() is called with; 0: none
    BatEvery,   \* the longest light sleep between two looks at the battery
    IdleCap,    \* no idle time beyond this is told from another
    AsleepCap   \* ... and no time asleep

ASSUME PowerAssumption ==
    /\ Boards \subseteq [key : BOOLEAN, rtc : BOOLEAN, bat : BOOLEAN]
    /\ \A b \in Boards : b.rtc => b.key
    /\ IdleMins \subseteq Nat /\ DeepMins \subseteq Nat /\ WakeSecs \subseteq Nat
    /\ BatEvery \in Nat \ {0} /\ IdleCap \in Nat /\ AsleepCap \in Nat
    /\ \A m \in IdleMins : m <= IdleCap
    /\ \A t \in DeepMins \cup WakeSecs : t <= AsleepCap

VARIABLES
    board,      \* the board it is: of Boards, and never another
    \* Vim's task
    vim,        \* "command", "entering" (its wait), "waiting", "asked" (for a sleep)
    modified,   \* a buffer has unsaved changes
    \* what Vim tells, and what is set
    sWaiting, sUnsaved,     \* s_waiting, s_unsaved
    idleFor,                \* the time since s_last_input, up to IdleCap
    idleMin, deepMin,       \* s_idle_min, s_deep_min
    \* a sleep asked for from another task
    lock,       \* who holds s_sleep_lock: "free", "vim", "power"
    req,        \* s_req
    reqDone,    \* s_req_done, a binary semaphore
    \* the power task
    pc,
    arg,        \* reader_sleep()'s and deep_sleep()'s arguments, and who called
    asleep,     \* the time since the light sleep began, up to AsleepCap
    timer,      \* the wake-up timer set for it; 0: none
    down, armed, want,      \* the polled button: the last poll saw it down; its press
                            \* counts; a press was seen
    keyUsed,    \* s_key_used
    mvLow,      \* the last measured voltage is under ESP_VIM_SLEEP_LOW_MV
    \* the environment
    key,        \* the button is held down
    onBat,      \* source() says "battery"
    \* history, read by no action
    stirred,    \* Vim left its wait since the power task last saw it waiting
    wakePress,  \* what the press held now woke the board from: "light", "deep" or "no"
    spent,      \* likewise for the press that set "want", and "light" if slept since
    slept       \* the board slept since the lock was taken

vimVars   == <<vim, modified>>
toldVars  == <<sWaiting, sUnsaved, idleFor>>
setVars   == <<board, idleMin, deepMin>>
reqVars   == <<lock, req, reqDone>>
sleepVars == <<arg, asleep, timer>>
keyVars   == <<down, armed, want, keyUsed>>
envVars   == <<key, onBat, wakePress>>
histVars  == <<stirred, spent, slept>>
vars == <<vimVars, toldVars, setVars, reqVars, pc, sleepVars, keyVars, mvLow, envVars, histVars>>

HasKey == board.key     \* a wake button: ESP_VIM_WAKE_KEY_GPIO >= 0
RtcKey == board.rtc     \* ... on a pin the RTC domain can watch: rtc_gpio_is_valid_gpio()
HasBat == board.bat     \* a battery it measures: HAVE_BAT

NoReq == [pending |-> FALSE, deep |-> FALSE, wake |-> 0, unsaved |-> FALSE]
NoArg == [from |-> "watch", deep |-> FALSE, wake |-> 0, unsaved |-> FALSE]

Asleep == pc = "light"      \* both cores stopped, RAM kept
Off    == pc = "off"        \* the chip stopped: only a boot follows
Awake  == ~Asleep /\ ~Off

OnWatch == pc \in {"poll", "decide"}

VimTypeOK ==
    /\ board \in Boards
    /\ vim \in {"command", "entering", "waiting", "asked"}
    /\ modified \in BOOLEAN /\ sWaiting \in BOOLEAN /\ sUnsaved \in BOOLEAN
    /\ idleFor \in Nat /\ idleMin \in IdleMins \cup {0} /\ deepMin \in DeepMins \cup {0}

SleepTypeOK ==
    /\ lock \in {"free", "vim", "power"}
    /\ req \in [pending : BOOLEAN, deep : BOOLEAN, wake : WakeSecs \cup {0}, unsaved : BOOLEAN]
    /\ reqDone \in BOOLEAN
    /\ pc \in {"poll", "decide", "rest", "arm", "light", "woke", "rouse", "settle",
               "deepRest", "off"}
    /\ arg \in [from : {"watch", "request"}, deep : BOOLEAN, wake : WakeSecs \cup {0},
                unsaved : BOOLEAN]
    /\ asleep \in Nat /\ timer \in Nat

KeyTypeOK ==
    /\ down \in BOOLEAN /\ armed \in BOOLEAN /\ want \in BOOLEAN /\ keyUsed \in BOOLEAN
    /\ mvLow \in BOOLEAN /\ key \in BOOLEAN /\ onBat \in BOOLEAN

HistTypeOK ==
    /\ stirred \in BOOLEAN /\ slept \in BOOLEAN
    /\ wakePress \in {"no", "light", "deep"} /\ spent \in {"no", "light", "deep"}

(* Every variable holds a value of its kind. *)
TypeOK == VimTypeOK /\ SleepTypeOK /\ KeyTypeOK /\ HistTypeOK
-----------------------------------------------------------------------------
(* The power task starts: esp_power_init(), with the settings NVS holds.    *)
Init ==
    /\ board \in Boards
    /\ vim = "command" /\ modified = FALSE
    /\ sWaiting = FALSE /\ sUnsaved = FALSE /\ idleFor = 0
    /\ idleMin \in IdleMins /\ deepMin \in DeepMins
    /\ lock = "free" /\ req = NoReq /\ reqDone = FALSE
    /\ pc = "poll" /\ arg = NoArg /\ asleep = 0 /\ timer = 0
    /\ down = FALSE /\ armed = TRUE /\ want = FALSE /\ keyUsed = FALSE
    /\ mvLow \in (IF HasBat THEN BOOLEAN ELSE {FALSE})
    /\ key = FALSE /\ onBat \in (IF HasBat THEN BOOLEAN ELSE {FALSE})
    /\ stirred = FALSE /\ wakePress = "no" /\ spent = "no" /\ slept = FALSE
-----------------------------------------------------------------------------
(* Vim's task *)

(* esp_power_vim_waiting(true, ...): Vim is about to wait.  After a command *)
(* of over two seconds the idle time starts again ("long").                 *)
StartWaiting ==
    /\ Awake /\ vim = "command"
    /\ vim' = "entering" /\ sUnsaved' = modified
    /\ \E long \in BOOLEAN : idleFor' = IF long /\ ~sWaiting THEN 0 ELSE idleFor
    /\ UNCHANGED <<modified, sWaiting, setVars, reqVars, pc, sleepVars, keyVars, mvLow,
                   envVars, histVars>>

(* ... its last store: from here the power task may put Vim to sleep.       *)
NowWaiting ==
    /\ Awake /\ vim = "entering"
    /\ vim' = "waiting" /\ sWaiting' = TRUE
    /\ UNCHANGED <<modified, sUnsaved, idleFor, setVars, reqVars, pc, sleepVars, keyVars, mvLow,
                   envVars, histVars>>

(* select() returns, a key having come (esp_power_input()) or Vim's own     *)
(* timeout having passed, and Vim goes on: esp_power_vim_waiting(false, _). *)
StopWaiting ==
    /\ Awake /\ vim = "waiting"
    /\ vim' = "command" /\ sWaiting' = FALSE /\ stirred' = (pc # "poll")
    /\ \E typed \in BOOLEAN : idleFor' = IF typed THEN 0 ELSE idleFor
    /\ UNCHANGED <<modified, sUnsaved, setVars, reqVars, pc, sleepVars, keyVars, mvLow,
                   envVars, spent, slept>>

(* A command changes a buffer, or writes the last changed one.              *)
Edit ==
    /\ Awake /\ vim = "command"
    /\ modified' = ~modified
    /\ UNCHANGED <<vim, toldVars, setVars, reqVars, pc, sleepVars, keyVars, mvLow, envVars, histVars>>

(* esp_power_set() *)
SetPower ==
    /\ Awake /\ vim = "command"
    /\ idleMin' \in IdleMins /\ deepMin' \in DeepMins /\ idleFor' = 0
    /\ UNCHANGED <<board, vimVars, sWaiting, sUnsaved, reqVars, pc, sleepVars, keyVars, mvLow, envVars,
                   histVars>>

(* Mistake: the lock not given back. *)
UnlockForgotten == UNCHANGED <<lock, slept>>

(* s_sleep_lock: taken if it is free, and given back. *)
Lock(who) == lock = "free" /\ lock' = who
Unlock == lock' = "free" /\ slept' = FALSE

(* Something other than a reset would end the sleep asked for.              *)
Wakeable(deep, wake) == deep \/ HasKey \/ wake > 0

(* esp_power_sleep() from Vim's task: refused when nothing would wake the   *)
(* board or a sleep is under way, and then nothing changes; else the lock,  *)
(* an empty semaphore, the request, and a wait for the power task.          *)
Ask(deep, wake) ==
    /\ Awake /\ vim = "command"
    /\ Wakeable(deep, wake) /\ Lock("vim") /\ reqDone' = FALSE
    /\ req' = [pending |-> TRUE, deep |-> deep, wake |-> wake, unsaved |-> modified]
    /\ vim' = "asked"
    /\ UNCHANGED <<modified, toldVars, setVars, pc, sleepVars, keyVars, mvLow, envVars,
                   histVars>>

(* Mistake: back without waiting for the answer.                            *)
AnsweredUnasked ==
    /\ Awake /\ vim = "asked"
    /\ reqDone' = FALSE /\ Unlock /\ vim' = "command"
    /\ UNCHANGED <<modified, toldVars, setVars, req, pc, sleepVars, keyVars, mvLow, envVars,
                   stirred, spent>>

(* ... and back, once the power task has given s_req_done.                  *)
Answered ==
    /\ Awake /\ vim = "asked" /\ reqDone
    /\ reqDone' = FALSE /\ Unlock /\ vim' = "command"
    /\ UNCHANGED <<modified, toldVars, setVars, req, pc, sleepVars, keyVars, mvLow, envVars,
                   stirred, spent>>

VimStep ==
    \/ StartWaiting \/ NowWaiting \/ StopWaiting \/ Edit \/ SetPower \/ Answered
    \/ \E deep \in BOOLEAN, wake \in WakeSecs : Ask(deep, wake)

-----------------------------------------------------------------------------
(* The power task *)

BatteryLow == onBat /\ mvLow

(* measure(): some voltage. *)
Measured == mvLow' \in (IF HasBat THEN BOOLEAN ELSE {FALSE})

Idle == idleMin > 0 /\ onBat /\ idleFor >= idleMin

(* A request is pending: deep_sleep() or reader_sleep() on this task.       *)
TakeRequest ==
    /\ pc = "poll" /\ req.pending
    /\ req' = NoReq
    /\ arg' = [from |-> "request", deep |-> req.deep, wake |-> req.wake, unsaved |-> req.unsaved]
    /\ pc' = IF req.deep THEN "deepRest" ELSE "rest"
    /\ UNCHANGED <<vimVars, toldVars, setVars, lock, reqDone, asleep, timer, keyVars, mvLow, envVars,
                   histVars>>

(* Mistake: a press from before the sleep kept.                             *)
PollButtonKeepsWant ==
    LET armed0 == armed /\ ~keyUsed
        press  == key /\ down /\ armed0
    IN  /\ keyUsed' = FALSE /\ down' = key
        /\ armed' = (key => armed0 /\ ~press)
        /\ want' = (want \/ press)
        /\ spent' = IF press THEN wakePress ELSE spent

(* The button as the poll sees it, after the press that woke the board has  *)
(* been told apart (s_key_used): down for two polls since it was last let   *)
(* go, it is a press.  (It counts once: it is then not armed until let go.)  *)
PollButton ==
    LET armed0 == armed /\ ~keyUsed
        press  == key /\ down /\ armed0
    IN  /\ keyUsed' = FALSE
        /\ down'  = key
        /\ armed' = (key => armed0 /\ ~press)
        /\ want'  = ((want /\ ~keyUsed) \/ press)
        /\ spent' = IF press THEN wakePress ELSE IF want' THEN spent ELSE "no"

(* One turn of the loop, up to its look at s_waiting.                       *)
Poll ==
    /\ pc = "poll" /\ ~req.pending
    /\ Measured \/ UNCHANGED mvLow
    /\ IF HasKey THEN PollButton ELSE UNCHANGED <<keyVars, spent>>
    /\ pc' = IF sWaiting THEN "decide" ELSE "poll"
    /\ UNCHANGED <<vimVars, toldVars, setVars, reqVars, sleepVars, envVars, stirred, slept>>

(* ... and on from there, Vim having been seen waiting: the battery is low  *)
(* and nothing is unsaved.                                                  *)
DecideDeep ==
    /\ pc = "decide" /\ BatteryLow /\ ~sUnsaved
    /\ \/ Lock("power") /\ pc' = "deepRest" /\ UNCHANGED stirred
       \/ lock # "free" /\ pc' = "poll" /\ stirred' = FALSE /\ UNCHANGED lock
    /\ UNCHANGED <<vimVars, toldVars, setVars, req, reqDone, sleepVars, keyVars, mvLow, envVars,
                   spent, slept>>

(* ... or the button was pressed, or the board has been idle.               *)
DecideReader ==
    /\ pc = "decide" /\ ~(BatteryLow /\ ~sUnsaved)
    /\ (want \/ Idle) /\ HasKey
    /\ want' = FALSE /\ spent' = "no"
    /\ \/ /\ Lock("power") /\ pc' = "rest"
          /\ arg' = [from |-> "watch", deep |-> FALSE, wake |-> 0, unsaved |-> sUnsaved]
          /\ UNCHANGED <<armed, stirred>>
       \/ /\ lock # "free" /\ pc' = "poll"
          /\ armed' = FALSE /\ stirred' = FALSE
          /\ UNCHANGED <<lock, arg>>
    /\ UNCHANGED <<vimVars, toldVars, setVars, req, reqDone, asleep, timer, down, keyUsed, mvLow,
                   envVars, slept>>

DecideNothing ==
    /\ pc = "decide" /\ ~(BatteryLow /\ ~sUnsaved) /\ ~((want \/ Idle) /\ HasKey)
    /\ pc' = "poll" /\ stirred' = FALSE
    /\ UNCHANGED <<vimVars, toldVars, setVars, reqVars, sleepVars, keyVars, mvLow, envVars,
                   spent, slept>>

-----------------------------------------------------------------------------
(* reader_sleep() *)

(* One step of the power task in a sleep, from one place to the next.       *)
Goes(from, to) ==
    /\ pc = from /\ pc' = to
    /\ UNCHANGED <<vimVars, toldVars, setVars, reqVars, arg, keyVars, mvLow, envVars, histVars>>

(* The keyboard, the network and the display put to rest (seconds, while    *)
(* Vim's task goes on), and then wait_key_released(): the press that asked  *)
(* for the sleep is let go.                                                 *)
Rest == ~key /\ Goes("rest", "arm") /\ UNCHANGED <<asleep, timer>>

(* Mistake: the time to go deep counted afresh at each look at the battery. *)
TimerForAfresh ==
    LET left == IF arg.wake > 0 THEN arg.wake - asleep
                ELSE IF deepMin > 0 /\ ~arg.unsaved THEN deepMin ELSE 0
    IN  IF HasBat /\ arg.wake = 0 /\ (left <= 0 \/ left > BatEvery) THEN BatEvery
        ELSE IF left > 0 THEN left ELSE 0

(* The timer for the next light sleep: the time left to wake at, or to go   *)
(* deep at, or to look at the battery, at least a unit; 0 if none is set.   *)
TimerFor ==
    LET left == IF arg.wake > 0 THEN arg.wake - asleep
                ELSE IF deepMin > 0 /\ ~arg.unsaved THEN deepMin - asleep ELSE 0
    IN  IF HasBat /\ arg.wake = 0 /\ (left <= 0 \/ left > BatEvery) THEN BatEvery
        ELSE IF left > 0 THEN left ELSE 0

(* esp_light_sleep_start() *)
LightSleep == Goes("arm", "light") /\ timer' = TimerFor /\ UNCHANGED asleep

(* It returns: s_key_used is set before anything else.                      *)
Wakes(to) ==
    /\ pc = "light" /\ pc' = to
    /\ keyUsed' = TRUE /\ slept' = TRUE /\ spent' = (IF want THEN "light" ELSE "no")
    /\ timer' = 0
    /\ UNCHANGED <<vimVars, toldVars, setVars, reqVars, arg, down, armed, want, mvLow,
                   key, onBat, stirred>>

WakeByKey ==
    /\ HasKey /\ key
    /\ Wakes("rouse") /\ wakePress' = "light" /\ UNCHANGED asleep

(* The chip refuses to sleep, or names no cause: out, as for a key.         *)
WakeByNothing == Wakes("rouse") /\ UNCHANGED <<asleep, wakePress>>

(* The timer, up to a unit early.                                           *)
WakeByTimer ==
    /\ timer > 0
    /\ \E early \in {0, 1} :
        /\ early < timer
        /\ asleep' = IF asleep + timer - early < AsleepCap THEN asleep + timer - early ELSE AsleepCap
    /\ Wakes("woke") /\ UNCHANGED wakePress

(* Mistake: unsaved changes not asked for.                                  *)
GoDeepAnyway(low) == (deepMin > 0 /\ asleep >= deepMin) \/ (onBat /\ low)

(* A timer's wake: the time asked for is up; or nothing is unsaved, and it  *)
(* is time to go deep or the battery is low; or back to sleep.              *)
TimerUp == arg.wake > 0 /\ asleep >= arg.wake - 1

GoDeep(low) == ~arg.unsaved /\ ((deepMin > 0 /\ asleep >= deepMin) \/ (onBat /\ low))

CheckIn ==
    /\ pc = "woke"
    /\ \/ TimerUp /\ pc' = "rouse" /\ UNCHANGED <<mvLow, arg>>
       \/ /\ ~TimerUp /\ Measured
          /\ IF GoDeep(mvLow') THEN pc' = "deepRest" /\ arg' = [arg EXCEPT !.wake = 0]
             ELSE pc' = "arm" /\ UNCHANGED arg
    /\ UNCHANGED <<vimVars, toldVars, setVars, reqVars, asleep, timer, keyVars, envVars, histVars>>

(* Everything on again; the idle time starts over.                          *)
Rouse ==
    /\ pc = "rouse" /\ pc' = "settle"
    /\ idleFor' = 0 /\ asleep' = 0
    /\ UNCHANGED <<vimVars, sWaiting, sUnsaved, setVars, reqVars, arg, timer, keyVars, mvLow, envVars,
                   histVars>>

(* wait_key_released() again, then reader_sleep()'s caller: the answer to a *)
(* request, or the lock given back; either way the button is not armed.     *)
Return ==
    /\ pc = "settle" /\ ~key
    /\ pc' = "poll" /\ armed' = FALSE /\ stirred' = FALSE
    /\ IF arg.from = "request"
       THEN reqDone' = TRUE /\ down' = FALSE /\ UNCHANGED <<lock, slept>>
       ELSE Unlock /\ UNCHANGED <<reqDone, down>>
    /\ arg' = NoArg
    /\ UNCHANGED <<vimVars, toldVars, setVars, req, asleep, timer, want, keyUsed, mvLow, envVars,
                   spent>>

-----------------------------------------------------------------------------
(* deep_sleep(): all put to rest; with a button that can wake the board, it *)
(* is let go first; and the chip stops.                                     *)
DeepSleep ==
    /\ RtcKey => ~key
    /\ Goes("deepRest", "off") /\ timer' = arg.wake /\ asleep' = 0

(* A boot, by the button, the timer or the reset button.  Only the settings *)
(* are kept, in NVS.                                                        *)
Boot ==
    /\ pc = "off" /\ pc' = "poll"
    /\ vim' = "command" /\ modified' = FALSE
    /\ sWaiting' = FALSE /\ sUnsaved' = FALSE /\ idleFor' = 0
    /\ lock' = "free" /\ req' = NoReq /\ reqDone' = FALSE
    /\ arg' = NoArg /\ asleep' = 0 /\ timer' = 0
    /\ down' = FALSE /\ armed' = TRUE /\ want' = FALSE /\ keyUsed' = FALSE
    /\ wakePress' = IF key /\ RtcKey THEN "deep" ELSE "no"
    /\ stirred' = FALSE /\ spent' = "no" /\ slept' = FALSE
    /\ Measured
    /\ UNCHANGED <<setVars, key, onBat>>

PowerStep ==
    \/ TakeRequest \/ Poll \/ DecideDeep \/ DecideReader \/ DecideNothing
    \/ Rest \/ LightSleep \/ CheckIn \/ Rouse \/ Return \/ DeepSleep

-----------------------------------------------------------------------------
(* The environment *)

Press ==
    /\ HasKey /\ ~key /\ key' = TRUE
    /\ UNCHANGED <<vimVars, toldVars, setVars, reqVars, pc, sleepVars, keyVars, mvLow, onBat, wakePress,
                   histVars>>

LetGo ==
    /\ key /\ key' = FALSE /\ wakePress' = "no"
    /\ UNCHANGED <<vimVars, toldVars, setVars, reqVars, pc, sleepVars, keyVars, mvLow, onBat, histVars>>

(* USB plugged in or pulled out. *)
Plug ==
    /\ HasBat /\ onBat' = ~onBat
    /\ UNCHANGED <<vimVars, toldVars, setVars, reqVars, pc, sleepVars, keyVars, mvLow, key, wakePress,
                   histVars>>

(* A minute without input, counted as far as the idle time goes.            *)
Minute ==
    /\ Awake /\ idleFor < IdleCap
    /\ idleFor' = idleFor + 1
    /\ UNCHANGED <<vimVars, sWaiting, sUnsaved, setVars, reqVars, pc, sleepVars, keyVars, mvLow, envVars,
                   histVars>>

EnvStep ==
    \/ Press \/ LetGo \/ Plug \/ Minute
    \/ WakeByKey \/ WakeByNothing \/ WakeByTimer \/ Boot

Next == VimStep \/ PowerStep \/ EnvStep

(* The scheduler runs both tasks; a sleep timer fires; a finger leaves the  *)
(* button.  Nothing else is assumed: nobody need press or type anything.    *)
Fairness ==
    /\ SF_vars(PowerStep)
    /\ WF_vars(NowWaiting \/ Answered)
    /\ WF_vars(WakeByTimer)
    /\ WF_vars(LetGo)

Spec == Init /\ [][Next]_vars
FairSpec == Spec /\ Fairness
-----------------------------------------------------------------------------
(* Properties *)

(* One sleep at a time (s_sleep_lock): off its watch the power task serves  *)
(* the lock's holder, and a caller waiting in esp_power_sleep() has its     *)
(* request in exactly one place -- not yet taken, being served, or answered *)
(* -- so none is lost, overwritten or answered twice.                       *)
OneSleepAtATime ==
    /\ ~OnWatch => lock = (IF arg.from = "watch" THEN "power" ELSE "vim")
    /\ OnWatch => lock # "power"
    /\ lock = "vim" <=> vim = "asked"
    /\ req.pending => vim = "asked" /\ OnWatch /\ ~reqDone
    /\ vim = "asked" => req.pending \/ ~OnWatch \/ reqDone
    /\ reqDone => vim = "asked" /\ OnWatch

(* The board never light-sleeps with nothing to wake it: where there is no  *)
(* button, a timer is set.  esp_power_sleep() refuses the rest, and the     *)
(* loop in reader_sleep() must set the timer again each time round.         *)
AlwaysWakeable == Asleep => HasKey \/ timer > 0

(* A sleep of the board's own accord interrupts nothing, as long as Vim did *)
(* not leave its wait while the power task was on its way to it.            *)
InterruptsNothing ==
    (Asleep \/ Off) /\ arg.from = "watch" /\ ~stirred => vim = "waiting"

(* Nor does it lose anything: a deep sleep nobody asked for -- the battery  *)
(* low, or a reader sleep of whoever's wish that lasted -- finds every      *)
(* buffer saved.                                                            *)
LosesNothing ==
    Off /\ (IF arg.from = "watch" THEN ~stirred ELSE ~arg.deep) => ~modified

(* A light sleep lasts no longer than it should: not past the time asked    *)
(* for; looking at the battery often enough; and, with nothing unsaved, not *)
(* past the time to go deep.                                                *)
NoOversleep ==
    Asleep =>
        /\ arg.wake > 0 => asleep + timer <= arg.wake
        /\ HasBat /\ arg.wake = 0 => timer \in 1..BatEvery
        /\ arg.wake = 0 /\ deepMin > 0 /\ ~arg.unsaved /\ ~(arg.from = "watch" /\ stirred)
           => asleep + timer <= deepMin

SleepsByButton == DecideReader /\ pc' = "rest" /\ ~Idle

(* A press does one thing: one made before a light sleep (while Vim was     *)
(* busy, say) is forgotten by the time it ends, and the one that ended it,  *)
(* however long it is held, is not taken for one to sleep again.            *)
PressesAreSpent == [][SleepsByButton => spent # "light"]_vars

(* The promise to the callers of a sleep (EspSleepPromise).                 *)
Promise == INSTANCE EspSleepPromise WITH
    chip  <- IF Asleep THEN "light" ELSE IF Off THEN "off" ELSE "awake",
    owner <- IF lock = "power" THEN "watch" ELSE IF lock = "vim" THEN "vim" ELSE "nobody"

KeepsPromise == Promise!Spec

(* A sleep that is due comes: Vim cannot wait for ever with the button      *)
(* pressed, the board idle, or the battery low and nothing unsaved.         *)
Due == \/ BatteryLow /\ ~sUnsaved
       \/ HasKey /\ (want \/ (idleMin > 0 /\ onBat /\ idleFor >= idleMin))
DueSleepComes == []<>~(OnWatch /\ sWaiting /\ Due)
=============================================================================
