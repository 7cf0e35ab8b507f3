------------------------------- MODULE EspNet -------------------------------
(***************************************************************************)
(* WiFi, joined and left: components/esp_net/esp_net.c.                     *)
(*                                                                         *)
(* Four tasks act on it.  Vim's runs one command at a time: connect,        *)
(* disconnect, forget, and others that only start the driver (scan, saved). *)
(* The boot task of a board with a radio co-processor starts the driver in  *)
(* the background.  The event loop runs wifi_event().  The power task       *)
(* suspends and resumes.  s_wifi_lock covers the driver's start and nothing *)
(* else: the flags they share are volatile variables, and every access to   *)
(* one that another task may come before is an action.                      *)
(*                                                                         *)
(* The driver is external: what esp_net.c relies on is here, an             *)
(* esp_wifi_connect() that fails without a network stored, without the      *)
(* radio or while joined, an esp_wifi_set_config() that fails while joining,*)
(* and the events it posts, handled one by one, later.                      *)
(***************************************************************************)
EXTENDS Naturals, Sequences

CONSTANTS
    Nets,       \* the networks
    None,       \* no network, no task
    MaxEvents   \* the events waiting: the driver waits for room

ASSUME NetAssumption ==
    /\ None \notin Nets \cup {"boot", "vim"} /\ MaxEvents \in Nat \ {0}

VARIABLES
    \* flash
    configured, \* wifi_configured()
    stored,     \* the network the driver keeps
    \* esp_net.c's
    want,       \* s_wifi_want
    noRejoin,   \* s_wifi_no_rejoin
    started,    \* s_wifi_started
    lock,       \* s_wifi_lock's holder
    suspended,  \* s_wifi_suspended
    wanted,     \* s_wifi_wanted
    \* the driver
    radio,      \* "none" before esp_wifi_start(), then "on" or "off"
    link,       \* "down", "joining" or "joined"
    on,         \* the network of the link
    events,     \* posted and not handled
    \* the tasks
    pcE,        \* wifi_event()
    boot,       \* the boot task's steps to go
    todo,       \* the steps to go of Vim's command
    cmd,        \* the command, and the network it names
    pcS,        \* the step of the lock's holder: "start" or "mark"
    pcP,        \* the power task
    \* history, read by no action
    said,       \* what the last command asked for, once it has succeeded
    slept,      \* suspended since the start
    forgot      \* a forget began and no connect has since, "again" after a restart

flash  == <<configured, stored>>
flags  == <<want, noRejoin, started, suspended, wanted>>
driver == <<radio, link, on, events>>
start  == <<lock, pcS>>
tasks  == <<pcE, boot, todo, cmd, pcP>>
hist   == <<said, slept, forgot>>
vars == <<flash, flags, driver, start, tasks, hist>>

-----------------------------------------------------------------------------
(* The driver *)

Post(e) == Len(events) < MaxEvents /\ events' = Append(events, e)

WifiStart == radio' = "on" /\ Post("start") /\ UNCHANGED <<link, on>>

CanConnect == radio = "on" /\ link = "down" /\ stored # None
WifiConnect ==
    /\ IF CanConnect THEN link' = "joining" /\ on' = stored ELSE UNCHANGED <<link, on>>
    /\ UNCHANGED <<radio, events>>

WifiLeave ==
    /\ link' = "down" /\ on' = None
    /\ IF link # "down" THEN Post("disconnected") ELSE UNCHANGED events

(* The access point answers, or goes away. *)
Join ==
    /\ link = "joining" /\ link' = "joined"
    /\ UNCHANGED <<flash, flags, radio, on, events, start, tasks, hist>>
Drop ==
    /\ link # "down" /\ WifiLeave
    /\ UNCHANGED <<flash, flags, radio, start, tasks, hist>>

-----------------------------------------------------------------------------
(* Starting the driver: start_wifi(), for the boot task or for Vim's.       *)

(* Mistake: a connect joins before the network is set. *)
StepsJoinFirst == [
    connect    |-> <<"start", "flag", "unwant", "leave", "want", "connect", "config">>,
    disconnect |-> <<"unwant", "leave">>,
    forget     |-> <<"flag", "unwant", "start", "leave", "config">>,
    look       |-> <<"start">>]

(* What each command does, in order. *)
Steps == [
    connect    |-> <<"start", "flag", "unwant", "leave", "config", "want", "connect">>,
    disconnect |-> <<"unwant", "leave">>,
    forget     |-> <<"flag", "unwant", "start", "leave", "config">>,
    look       |-> <<"start">>]

AtStart(t) == IF t = "boot" THEN boot # <<>> ELSE todo # <<>> /\ Head(todo) = "start"

(* The task goes on, or returns with an error. *)
Started(t, ok) ==
    IF t = "boot" THEN boot' = <<>> /\ UNCHANGED <<todo, said>>
    ELSE /\ todo' = IF ok THEN Tail(todo) ELSE <<>>
         /\ said' = IF ok THEN said ELSE "failed"
         /\ UNCHANGED boot

TakeLock(t) ==
    /\ AtStart(t) /\ lock = None
    /\ IF started THEN Started(t, TRUE) /\ UNCHANGED <<lock, pcS>>
       ELSE lock' = t /\ pcS' = "start" /\ UNCHANGED <<boot, todo, said>>
    /\ UNCHANGED <<flash, flags, driver, pcE, cmd, pcP, slept, forgot>>

(* esp_wifi_init() ... esp_wifi_start(): the event is posted before it      *)
(* returns.                                                                 *)
StartRadio ==
    /\ lock # None /\ pcS = "start" /\ pcS' = "mark"
    /\ WifiStart
    /\ UNCHANGED <<flash, flags, lock, tasks, hist>>

StartFails(t) ==
    /\ lock = t /\ pcS = "start" /\ lock' = None /\ pcS' = "idle"
    /\ Started(t, FALSE)
    /\ UNCHANGED <<flash, flags, driver, pcE, cmd, pcP, slept, forgot>>

MarkStarted(t) ==
    /\ lock = t /\ pcS = "mark" /\ started' = TRUE
    /\ lock' = None /\ pcS' = "idle"
    /\ Started(t, TRUE)
    /\ UNCHANGED <<flash, want, noRejoin, suspended, wanted, driver, pcE, cmd, pcP, slept, forgot>>

StartStep ==
    \/ \E t \in {"boot", "vim"} : TakeLock(t) \/ StartFails(t) \/ MarkStarted(t)
    \/ StartRadio
-----------------------------------------------------------------------------
(* Vim's commands *)

At(step) == todo # <<>> /\ Head(todo) = step
Goes == todo' = Tail(todo)

(* A command; to connect to None is to the stored network.  One to          *)
(* disconnect has nothing to do before the driver is started.               *)
Command(op, n) ==
    /\ todo = <<>> /\ cmd' = [op |-> op, net |-> n]
    /\ IF op = "disconnect" /\ ~started THEN said' = op /\ UNCHANGED todo
       ELSE todo' = Steps[op] /\ UNCHANGED said
    /\ forgot' = IF op = "connect" THEN "no" ELSE forgot
    /\ UNCHANGED <<flash, flags, driver, start, pcE, boot, pcP, slept>>

(* Mistake: forget leaves the flag. *)
FlagConnectOnly ==
    /\ At("flag")
    /\ IF cmd = [op |-> "connect", net |-> None] /\ stored = None
       THEN todo' = <<>> /\ said' = "failed" /\ UNCHANGED <<configured, cmd, forgot>>
       ELSE /\ configured' = (configured \/ cmd.op = "connect") /\ Goes
            /\ cmd' = IF cmd = [op |-> "connect", net |-> None] THEN [cmd EXCEPT !.net = stored] ELSE cmd
            /\ forgot' = (IF cmd.op = "forget" THEN "now" ELSE forgot) /\ UNCHANGED said
    /\ UNCHANGED <<stored, flags, driver, start, pcE, boot, pcP, slept>>

(* wifi_set_configured(); a connect has looked for the stored network.      *)
Flag ==
    /\ At("flag")
    /\ IF cmd = [op |-> "connect", net |-> None] /\ stored = None
       THEN todo' = <<>> /\ said' = "failed" /\ UNCHANGED <<configured, cmd, forgot>>
       ELSE /\ configured' = (cmd.op = "connect") /\ Goes
            /\ cmd' = IF cmd = [op |-> "connect", net |-> None] THEN [cmd EXCEPT !.net = stored] ELSE cmd
            /\ forgot' = (IF cmd.op = "forget" THEN "now" ELSE forgot) /\ UNCHANGED said
    /\ UNCHANGED <<stored, flags, driver, start, pcE, boot, pcP, slept>>

Unwant ==
    /\ At("unwant") /\ want' = FALSE /\ Goes
    /\ UNCHANGED <<flash, noRejoin, started, suspended, wanted, driver, start, pcE, boot, cmd, pcP,
                   hist>>

(* esp_wifi_disconnect() *)
Leave ==
    /\ At("leave") /\ WifiLeave /\ Goes
    /\ said' = IF cmd.op = "disconnect" THEN cmd.op ELSE said
    /\ UNCHANGED <<flash, flags, radio, start, pcE, boot, cmd, pcP, slept, forgot>>

(* esp_wifi_set_config(): kept in flash; a forget's network is None.        *)
Config ==
    /\ At("config")
    /\ IF link = "joining" THEN todo' = <<>> /\ said' = "failed" /\ UNCHANGED stored
       ELSE /\ stored' = cmd.net /\ Goes
            /\ said' = IF cmd.op = "forget" THEN cmd.op ELSE said
    /\ UNCHANGED <<configured, flags, driver, start, pcE, boot, cmd, pcP, slept, forgot>>

Want ==
    /\ At("want") /\ want' = TRUE /\ Goes
    /\ UNCHANGED <<flash, noRejoin, started, suspended, wanted, driver, start, pcE, boot, cmd, pcP,
                   hist>>

Connect ==
    /\ At("connect") /\ WifiConnect /\ Goes
    /\ said' = IF CanConnect THEN cmd.op ELSE "failed"
    /\ UNCHANGED <<flash, flags, start, pcE, boot, cmd, pcP, slept, forgot>>

VimStep == Flag \/ Unwant \/ Leave \/ Config \/ Want \/ Connect

-----------------------------------------------------------------------------
(* wifi_event() *)

(* Mistake: no reconnecting. *)
HandleStartOnly ==
    /\ pcE = "idle" /\ events # <<>> /\ events' = Tail(events)
    /\ noRejoin' = (noRejoin /\ Head(events) # "start")
    /\ pcE' = IF Head(events) = "start" /\ ~noRejoin /\ configured /\ stored # None THEN "want" ELSE "idle"
    /\ UNCHANGED <<flash, want, started, suspended, wanted, radio, link, on, start,
                   boot, todo, cmd, pcP, hist>>

(* The next event: the checks, and what they lead to. *)
Handle ==
    /\ pcE = "idle" /\ events # <<>> /\ events' = Tail(events)
    /\ noRejoin' = (noRejoin /\ Head(events) # "start")
    /\ pcE' = CASE Head(events) = "start" /\ ~noRejoin /\ configured /\ stored # None -> "want"
                 [] Head(events) = "disconnected" /\ want -> "connect"
                 [] OTHER -> "idle"
    /\ UNCHANGED <<flash, want, started, suspended, wanted, radio, link, on, start,
                   boot, todo, cmd, pcP, hist>>

RejoinWant ==
    /\ pcE = "want" /\ pcE' = "connect" /\ want' = TRUE
    /\ UNCHANGED <<flash, noRejoin, started, suspended, wanted, driver, start, boot, todo, cmd, pcP,
                   hist>>

Rejoin ==
    /\ pcE = "connect" /\ pcE' = "idle" /\ WifiConnect
    /\ UNCHANGED <<flash, flags, start, boot, todo, cmd, pcP, hist>>

EventStep == Handle \/ RejoinWant \/ Rejoin
-----------------------------------------------------------------------------
(* The power task: esp_net_suspend() and esp_net_resume()                   *)

PowerUnchanged == UNCHANGED <<flash, start, pcE, boot, todo, cmd, said, forgot>>

Suspend ==
    /\ pcP = "awake" /\ slept' = TRUE
    /\ IF started /\ ~suspended THEN pcP' = "unwant" /\ wanted' = want
       ELSE pcP' = "asleep" /\ UNCHANGED wanted
    /\ UNCHANGED <<want, noRejoin, started, suspended, driver>> /\ PowerUnchanged

SuspendUnwant ==
    /\ pcP = "unwant" /\ pcP' = "stop" /\ want' = FALSE
    /\ UNCHANGED <<noRejoin, started, suspended, wanted, driver>> /\ UNCHANGED slept /\ PowerUnchanged

(* esp_wifi_stop(); suspended is the power task's own. *)
SuspendStop ==
    /\ pcP = "stop" /\ pcP' = "asleep" /\ suspended' = TRUE
    /\ WifiLeave /\ radio' = "off"
    /\ UNCHANGED <<want, noRejoin, started, wanted>> /\ UNCHANGED slept /\ PowerUnchanged

Resume ==
    /\ pcP = "asleep"
    /\ IF suspended THEN pcP' = "start" /\ suspended' = FALSE /\ noRejoin' = ~wanted
       ELSE pcP' = "awake" /\ UNCHANGED <<suspended, noRejoin>>
    /\ UNCHANGED <<want, started, wanted, driver>> /\ UNCHANGED slept /\ PowerUnchanged

ResumeStart ==
    /\ pcP = "start" /\ pcP' = "awake" /\ WifiStart
    /\ UNCHANGED flags /\ UNCHANGED slept /\ PowerUnchanged

PowerStep == Suspend \/ SuspendUnwant \/ SuspendStop \/ Resume \/ ResumeStart

-----------------------------------------------------------------------------
(* All that is not in flash, as a boot leaves it: esp_net_init(), a stored  *)
(* network's driver started in the background.                              *)
Booted(conf) ==
    /\ want' = FALSE /\ noRejoin' = FALSE /\ started' = FALSE /\ suspended' = FALSE
    /\ wanted' = FALSE
    /\ radio' = "none" /\ link' = "down" /\ on' = None /\ events' = <<>>
    /\ lock' = None /\ pcS' = "idle"
    /\ pcE' = "idle" /\ boot' = (IF conf THEN <<"start">> ELSE <<>>)
    /\ todo' = <<>> /\ cmd' = [op |-> "look", net |-> None] /\ pcP' = "awake"
    /\ said' = "none" /\ slept' = FALSE

(* The power goes, or a deep sleep ends. *)
Restart ==
    /\ Booted(configured)
    /\ forgot' = IF forgot = "no" THEN "no" ELSE "again"
    /\ UNCHANGED flash

Init ==
    /\ configured \in BOOLEAN /\ stored \in Nets \cup {None}
    /\ want = FALSE /\ noRejoin = FALSE /\ started = FALSE /\ suspended = FALSE
    /\ wanted = FALSE
    /\ radio = "none" /\ link = "down" /\ on = None /\ events = <<>>
    /\ lock = None /\ pcS = "idle"
    /\ pcE = "idle" /\ boot = (IF configured THEN <<"start">> ELSE <<>>)
    /\ todo = <<>> /\ cmd = [op |-> "look", net |-> None] /\ pcP = "awake"
    /\ said = "none" /\ slept = FALSE /\ forgot = "no"

Next ==
    \/ \E n \in Nets \cup {None} : Command("connect", n)
    \/ \E op \in {"disconnect", "forget", "look"} : Command(op, None)
    \/ VimStep \/ StartStep \/ EventStep \/ PowerStep
    \/ Join \/ Drop \/ Restart

Spec == Init /\ [][Next]_vars

(* The event loop, a command once given and a start under way go on.        *)
FairSpec == Spec /\ WF_vars(EventStep) /\ WF_vars(VimStep) /\ WF_vars(StartStep)
-----------------------------------------------------------------------------
(* Properties *)

(* Nothing is under way and no event is waiting. *)
Quiet ==
    /\ events = <<>> /\ pcE = "idle" /\ todo = <<>> /\ boot = <<>> /\ pcP = "awake"

(* A network once forgotten is not joined after a restart, wherever in      *)
(* forget the power went: only a connect, begun since, can join again.      *)
ForgottenAfterRestart == forgot = "again" => ~want /\ link = "down"

(* A link that drops is tried again: a wanted network does not stay left.   *)
KeepsReconnecting == []<>(link # "down" \/ ~want \/ stored = None \/ slept)

(* A connect that succeeded ends on the network it named, however the event *)
(* loop's own joins fall between its steps.                                 *)
JoinsWhatWasAsked == todo = <<>> /\ said = "connect" /\ link # "down" => on = stored

(* esp_net.h:81: "Disconnect leaves the network until the next connect or   *)
(* boot; forget also erases it."                                            *)
OffUntilConnect == Quiet /\ said \in {"disconnect", "forget"} => link = "down"
=============================================================================
