# esp-vim, specified

esp-vim runs Vim 9 as the firmware of ESP32-P4 and ESP32-S3 boards: an
editor, its keyboards and screens, WiFi, Bluetooth, Git, SSH and Python, as
some twenty components of C under `src/esp-vim/components/` around a Vim that
believes it has a terminal and a file system.  This directory holds TLA+
modules for the parts of that C whose correctness depends on the order things
happen in, TLC configurations that check them, and TLAPS proofs.

Paths below are relative to `src/esp-vim/components/` unless they begin with
`src/`.

## 1. The system

### Tasks and what they share

Everything runs in one address space, on two cores, under FreeRTOS:

| Task or context | Component | What it does |
|---|---|---|
| Vim's task | `vim`, `main` | one session of Vim after another; every `esp_*()` Vim function runs here |
| supervisor (`app_main`) | `main` | starts Vim's task, waits for it to end, starts the next |
| power | `esp_power` | polls the wake button and the battery; enters every sleep |
| esp_timer task | `esp_kbd`, `esp_time`, `vim/port` | key repeat, the daily RTC write, `SIGALRM` |
| keyboard tasks | `esp_kbd_tdeck`, `esp_kbd_tab5`, `esp_kbd_cardputer`, `esp_usbkbd`, `esp_ble` (host and reconnect tasks) | feed HID reports to `esp_kbd` |
| event loop | `esp_net` | WiFi and IP events |
| lwIP, httpd | `esp_time` (SNTP), `esp_web` | callbacks and request handlers |
| display, touch, pairing screen | `esp_display`, `esp_touch`, `esp_pairui` | the terminal on the panel, an overlay over it |

They meet in shared variables (many of them plain `volatile`), queues and
stream buffers, semaphores, and NVS.

### Components

For each: what it keeps, what it does, what is hard, and what makes it right.

* **`esp_power`** — the battery and sleep. Keeps what Vim told it
  (`s_waiting`, `s_unsaved`, `s_last_input`), the request being served
  (`s_req`, `s_req_done`, `s_sleep_lock`), the settings, the button's state.
  Hard: the power task decides on what Vim said seconds before the board is
  down; requests come from another task; the press that wakes must not be one
  to sleep; timers fire early. Right if: one sleep at a time, no sleep nobody
  can end, nothing interrupted or lost, a sleep that is due comes.
* **`esp_kbd`, `esp_kbd_hid`** — every keyboard's HID reports, found in its
  report map, read, merged and turned into the terminal's bytes. Keeps the
  reports by keyboard and report id (four parts), the last merged set of keys,
  the key that repeats, a 1024-byte queue. Hard: reports come from several
  tasks, the repeat from the timer's, without the input lock; a keyboard that
  goes away; a full queue. Right if: what is read is what is held, each press is
  sent once, a key repeats while it is down and not after.
* **`esp_ble`, `esp_ble_kbd`** — Bluetooth LE keyboards: scan, pair, bond,
  reconnect, suspend. Keeps the paired address, the open device, who waits for
  an OPEN. Hard: OPEN and CLOSE arrive late, after the attempt they belong to
  was given up; two takers of the lock. Right if: one keyboard at a time, none
  reconnects after "forget", keys are released when the keyboard goes.
* **`esp_usbkbd`, `esp_kbd_tdeck`, `esp_kbd_tab5`, `esp_kbd_cardputer`** — the
  other keyboards: USB HID, and three matrices behind chips on I2C with layers,
  latched modifiers and (T-Deck) a trackball. Hard: unplugging while opening, a
  reset or a lost event while keys are down, a key that is another one when it
  comes up.  Right if: with every finger off, nothing is held.
* **`vim/port`** — POSIX for Vim: `select` and `read` on the console, the
  heap Vim may use and give back whole at the end of a session, file
  descriptors and directories it opened, `SIGALRM`, the busy spinner, paths.
  Hard: a session ends anywhere, and the next starts with the same memory.
  Right if: everything a session opened or allocated is given back, nothing of
  anyone else's is.
* **`main`** — boot order; the supervisor's loop over sessions.
* **`vim/api`** — the `esp_*()` functions of Vim script, thin over the
  components; `esp_api_git` and `esp_git` (clone, pull, push, garbage
  collection over libgit2) and `esp_api_py` (Python) are not thin.
* **`esp_net`, `esp_net_cp`** — WiFi: join, leave, forget, scan, suspend,
  rejoin on events, downloads; the co-processor's firmware update. Hard: the
  event loop's handler and the callers set the same flag without a lock.
  Right if: the board ends up joined exactly when the user wants it to.
* **`esp_web`** — an HTTPS server for files and settings: four logins, a
  back-off for wrong passwords, uploads, settings the browser changes and a
  timer of Vim's applies.  Hard: it outlives sessions of Vim.  Right if: what
  is saved reaches Vim.
* **`esp_fs`** — the FAT and LittleFS volumes: list, copy, move, delete,
  upload (a `.part` renamed when whole). Hard: a failure or a reset between
  two steps. Right if: a file is the old or the new one, never neither.
* **`esp_ssh`** — SFTP and SCP over one cached session.  Hard: it dies between
  calls, the host's key changes.  Right if: it is the session of the host that
  is named, by a key the user accepted.
* **`esp_time`** — the clock: NTP, an RTC chip, the user; which one is right.
  Hard: a call waits for an answer without the lock.  Right if: the client
  runs as it was set to, the chip gives back the date it was given.
* **`esp_display`, `esp_touch`, `esp_pairui`** — the terminal on the panel,
  an overlay over it (the pairing screen), the panel's rest during a sleep; a
  finger as a mouse.  Hard: three tasks leave requests for a fourth; the
  pairing screen's list changes under the taps; panels are mounted and held
  every way.  Right if: the panel shows the terminal when all is done, a touch
  is where it is drawn, a button does what it says.
* **`esp_sd`, `esp_board`, `esp_logbuf`, `esp_api_nvs`, `gpio`, `hw`** —
  mounting the SD card, board wiring, the log ring, settings, pins.
* **`micropython`** — MicroPython inside Vim's task: runs that nest through
  Vim, errors that jump out of them, values that cross between the two
  languages.  Right if: a session starts with nothing of the last in progress,
  and a value comes back as it was.
* **libgit2, libssh2, the MicroPython core, Vim's own source and ESP-IDF** —
  other people's code, external here.


## 2. The plan

The order is that of the harm done when it goes wrong, and of how little a
test reaches it: first what runs on several tasks at once, then what a reset
may cut in two, then the rest.

| | Modules | Subject | State |
|---|---|---|---|
| 1 | `EspPower`, `EspSleepPromise` | sleep, and what it promises its callers | done |
| 2 | `EspKbd`, `EspHid` | keyboards' reports read, merged and sent, with the repeat timer | done |
| 3 | `EspNet` | WiFi joined and left | done |
| 4 | `EspBleKbd` | Bluetooth keyboards | done |
| 5 | `EspFiles` | file operations and transfers, with resets | done |
| 6 | `VimSession` | what a session leaves to the next | done |
| 7 | `EspGitGc` | garbage collection with resets | done |
| 8 | `EspDisplay`, `EspGeometry`, `EspTouch`, `EspMouse`, `EspPairUi` | the panel and its requests; where things are on it; fingers; the pairing screen | done |
| 9 | `EspWeb`, `EspSsh`, `EspTime`, `EspCalendar` | logins and settings; one cached session; one clock, three writers; dates | done |
| 10 | `EspKeys`, `EspUsbKbd` | the built-in keyboards and USB's | done |
| 11 | `VimHeap`, `VimConsole`, `VimPaths`, `EspPy`, `EspPyValues` | what else Vim's task stands on | done |
| 12 | `EspGit`, `EspGitAuth` | the git commands and their logins | done |
| 13 | `EspPower_proofs`, `MCBluetooth_proofs`, `EspFiles_proofs` | what of these holds for every value of the constants | done |
| 14 | `MCNetwork_proofs`, `MCSessions_proofs`, `MCGit_proofs`, `MCConsole_proofs`, `MCReports_proofs` | the same of the components that share a run | done |
| 15 | the same modules: `EspGeometry`'s turns, `VimHeap`'s sums, `VimPaths`' segments, `EspCalendar`'s dates | what is computed, for values of any size | done |
| 16 | `EspPyValues` | values in values, for any limit on their depth | done |
| 17 | `EspHid` | report maps and reports with any number of fields | done |

The modules compose where the code does: `EspPower` has Vim's side of a sleep
in it, `EspFiles` the three transfers, `VimSession` the supervisor with the
shims, `EspWeb` the timer of `web.vim`, `EspPairUi` its three tasks, `EspTouch`
and `EspMouse` the touch driver with the display.  `EspBleKbd`, `EspNet` and
`EspDisplay` have the power task as one of their callers; `EspPower` has them
as one step, "rest".  `EspKbd` takes reports as what is held: that they are
read so is `EspHid`'s.

The proofs of a component that has a run of its own are about its own
specification; those of a component in a shared run are about that run's, so
that each states the very formula TLC checks (`KbdAlone`, `BleAlone`,
`WifiAlone`, `SessionAlone` and `GcAlone` take the components with a
specification of their own from the one to the other).


## 3. The modules and the code

Each variable is named for the one it stands for, each action for the function
or the stretch of one it is a step of.  A step is atomic in a module when no
other task can see or change anything in the middle of it: where two tasks
share a plain variable, every access the order of which matters is an action.
A definition whose comment begins with "Mistake:" is no part of a
specification: it is a bug such code could have, put in the place of the
definition below it to see that the properties notice.

Power, and what a session of Vim is:

* **`EspPower`** (`esp_power/esp_power.c`; `vim/port/esp_shims.c`'s `select`;
  `esp_sleep()` in `vim/api/esp_api_sys.c`).  Three actors: Vim's task
  (`StartWaiting` to `Answered`), the power task (`TakeRequest` to
  `DeepSleep`, its place in `pc`), the environment (`Press` to `Minute`).
  `reader_sleep()` is the loop `Rest`, `LightSleep`, a waking, `CheckIn`,
  `Rouse`, `Return`; `deep_sleep()` is `DeepSleep`, from which only `Boot`
  leads on.  Time asleep is counted in the slack both timers allow.
* **`EspSleepPromise`** is what `esp_power.h` promises the callers of a sleep
  in three variables; `EspPower` maps to it by `Promise`.
* **`VimSession`** (`vim/port/esp_shims.c`'s wrappers and
  `esp_vim_session_begin()`; the loop of `app_main()` in
  `src/esp-vim/main/esp_vim_main.c`).  `real` is the VFS's table of
  descriptors, `known` and `owned` the shims'; open and close are the steps of
  `Then`, the supervisor's loop those of `After`.
* **`VimHeap`** (the allocator of `esp_shims.c`).  A block is its size, its
  header's mark and its place in the list; sizes wrap as `size_t` does.
  `Malloc` to `Realloc` are the wrappers, `Adjust` the change of the budget,
  `NewSession` what gives all blocks back, `Foreign` a block others made.
* **`VimConsole`** (`select`, `read` and `write` of `esp_shims.c`, the spinner
  of `esp_busy.c`, the set-up in `esp_vim_main.c`).  `Poll` and `Wait` are
  `select()` without and with time; `SetOutput` is the choice of screen, kept
  in NVS.
* **`VimPaths`** (`esp_normalise()` and `esp_resolve()` in `esp_shims.c`).  A
  path is a sequence of its segments; the limits of depth and length are the
  code's, small.  `Walk` is what a path means.
* **`EspPy`** (`micropython/port/esp_py.c`, `vim/api/esp_api_py.c`).  `stack`
  is what calls what: runs of Python and calls of Vim.  `Run`, `HostCall`,
  `HostReturn`, `End`, `Abort` push and pop, with the counters (`depth`,
  `sink`, `trylevel`) each saves and restores, or jumps over.
* **`EspPyValues`** (`to_py()`, `from_py()`).  A value goes over as it is
  converted, is worked on, and comes back.  Vim's v:none and v:null are both
  Python's None, which comes back as v:none; an argument of `vim.call()` is
  one level deeper than a result, being in the list of the arguments.

Keyboards:

* **`EspKbd`** (`esp_kbd/esp_kbd.c`, `esp_kbd_merge()` of `esp_kbd_hid.c`).
  `Report` begins an `esp_kbd_input()`, whose steps under `s_input_lock` are
  `SendNew` to `StartTimer`; `ReleaseAll` and `Wipe` are
  `esp_kbd_release_all()`; `Fire`, `Check`, `Repeat` and `Rearm` are the timer
  task's callback, which takes no lock.  What the queue of bytes has room for,
  and when Vim reads it (`esp_kbd_read()`), changes none of this and is left
  out: `EspMouse` has what a full queue loses.
  `KeysOf` is what `esp_kbd_merge()` makes of the slots: each key once, up to
  `MaxHeld` (16) of them, the rest ignored.
* **`EspHid`** (the rest of `esp_kbd_hid.c`).  A keyboard is what it means,
  `descr`; `Map` writes that down as a report map's items and `Report` as a
  report's bits, as HID devices do; `Parsed` and `Decode` are
  `esp_kbd_parse_map()` and `esp_kbd_decode()`, and must find the meaning
  again.  Items are whole: their bytes, and items of a length of their own,
  which are skipped, are left out, as is the limit of 16 report ids.
* **`EspKeys`** (`esp_kbd_tab5.c`, `esp_kbd_cardputer.c`, `esp_kbd_tdeck.c`
  and their `_dev.c`).  `KeyDown` and `KeyUp` are the three `..._event()`
  functions, `Handle`, `Detach`, `Attach` and `ReadMatrix` the tasks that read
  the chips; `Board` says which of the three it is.  `press` is the code's
  table of what each key was when it went down.  Events are lost: by a chip
  whose queue is full (`Finger`), by a read that fails (`ReadFails`); and one
  impossible reading ends the T-Deck's raw mode (`Misread`), after which its
  keys are not told any more.  `missed` are the keys of which nothing more is to
  come.
* **`EspUsbKbd`** (`esp_usbkbd.c`).  `Plug`, `OnReport`, `Disconnected` are
  the driver's callbacks; `Take` and `Open` the task that opens; `Count` and
  `Tell` the two halves of `update_wired()`.
* **`EspBleKbd`** (`esp_ble/esp_ble_kbd.c`).  `Look` to `TimesOut` are
  `reconnect_task()`; what the takers of the lock call is a list of steps;
  `Handle` is `on_hidh()` on the HID host's task, as late as it likes.  The
  HID host is external.

The screen:

* **`EspDisplay`** (`esp_display/esp_display.c`).  The display task's loop is
  `Receive` to `PaintTerminal`, a step for each look at a request; `Vim`,
  `Pairing` and `Power` leave the requests.  The panel is what each row shows:
  the terminal as it is, as it was, or something else.
* **`EspGeometry`** (`esp_board_rotate.h`, the drawing and touch functions) is
  operators only, used by **`EspTouch`** (`esp_touch.c`'s turns, where `SetTurn`
  and `SetFlip` are the settings and `Boot` what is kept of them).
* **`EspMouse`** (`touch_task()`, `esp_display_touch()`): a touch and its
  handler, which may be taken away and given back meanwhile.  `Press`,
  `Release` and `Tap` are what `mouse()` queues, each of which may find no room.
* **`EspPairUi`** (`esp_pairui.c`).  `Show` to `UnpairDone` are the task's
  loop: an event is taken (`TakeScan`, `TapRow`, `TapButton`), the list and the
  selection change (`ShowScan`, `Forgotten`), the screen is drawn (`DrawList`),
  each a step of its own, as the touch task and the scanner run in between.
  `BeginHere` and `ScanHere` are the first scan, made on the task itself.
  `Down` and `Up` are the two halves of a tap, `Scan` the scanner; `drawn` is
  what the button says on the screen.

The network and its services:

* **`EspNet`** (`esp_net/esp_net.c`).  A command of Vim's is its list of steps
  (`Steps`); `Handle`, `RejoinWant`, `Rejoin` are `wifi_event()` on the event
  loop; `Suspend` to `ResumeStart` the power task's; the boot task starts the
  driver.  The driver is external: when it joins, what it refuses, what it
  posts.
* **`EspWeb`** (`esp_web/esp_web.c`;
  `src/esp-vim/runtime-image/autoload/esp/web.vim`).  The server takes one
  request at a time:  `Login` with `CheckPassword` and `OpenSession`,
  `PostSettings` with `PutSettings` and `FlagSettings`; Vim's task is `Start`,
  `StoreKey`, `Serve`, `Stop`, the timer `Tick` and `Apply`.
* **`EspSsh`** (`esp_ssh/esp_ssh.c`).  Each call of Vim's is an action that
  may open, keep, fail on or drop the session (`Opens`, `Keeps`, `Drops`);
  `Break`, `NewKey` and `Forget` are the network, the host and the user.
* **`EspTime`** (`esp_time/esp_time.c`).  `SetClock`, `SetSource` and `SetRtc`
  are the steps of a time set by hand, `SetNtp`, `Ask` and `EndSync` the NTP
  calls; `Answer` and `OnSync` are lwIP's task, `WriteRtc` the timer's.
* **`EspCalendar`**: `RtcWrite`, `RtcRead` and `DaysFromCivil`, as each day of
  a century goes by.

Files and Git:

* **`EspFiles`** (`esp_fs/esp_fs.c`; `h_upload()` of `esp_web.c`,
  `esp_net_http_download()` of `esp_net.c`, `esp_ssh_get()` of `esp_ssh.c`).
  `file` and `part` are the volumes: what each directory entry, and its
  `.part`, holds.  A content is a value; `Cut` is one being written, `Torn`
  one that a reset or a clash of two tasks left.  A directory is the set of
  its files, copied, moved and deleted one after the other.  `Reset` is the
  power gone at any step.
* **`EspGit`** (`vim/api/esp_api_git.c`).  The repository is one file in a
  working tree, an index, branches and what a server has.  A command is its
  calls of libgit2, each a step, `rest` those to come; `Stop` is an error or
  the power gone between two.
* **`EspGitAuth`** (`esp_git/esp_git.c`'s callbacks): `Certificate` and
  `Credentials` as libgit2 calls them, the counter of answers between.
* **`EspGitGc`** (`esp_git.c`'s `esp_git_gc()`; patch 0001 of
  libgit2).  The card is five sets: loose objects, packs with their `.idx`,
  with their `.pack`, with a `.keep`, and packs whole under a temporary name.
  `Start` to `Done` are the function, one file a step; `RenameIdx` and
  `RenamePack` are `p_rename()`, the removal and the renaming apart; any
  `unlink()` may fail.  A pack is its objects and the hash in its name, so
  that the same objects may be packed under the same name again, or under
  another.  `Use` is what the other commands do in between.  That libgit2
  writes the index first and removes its temporary file when it fails is
  external.

`MC...` modules extend these for TLC, with the functions a configuration
cannot write down.  Five of them take several components: `MCConsole`,
`MCBluetooth` (`EspBleKbd` and `EspPairUi`), `MCNetwork`, `MCSessions`,
`MCGit`.  The components in one share no variable and no step, so that to
interleave them would only multiply their states; a variable chosen at the
start (`device`, `part`) says which one moves, and the others stay at an initial
state.  A property of one component is then that component's own, said of the
behaviours in which it moves.  `..._proofs` modules extend a component, or such
a composition, with theorems.


## 4. The runs

| Run | Question | What TLC finds |
|---|---|---|
| `sleep` | boards with and without a button and a battery: is a sleep harmless, not too long, ended and answered as promised, each press spent once; does one that is due come? | holds |
| `console` | are reports read as they were meant, the keys held known, repeated while held and let go; does the panel show the terminal when all is done, and rest and return; is a touch where it is drawn and a press released? | holds |
| `ble` | is no freed keyboard used, no wake-up lost, nothing started while it sleeps; does a button of the pairing screen do what it says? | holds |
| `network` | is a forgotten network forgotten, the wanted one asked for and retried; is the SSH session the one of the host named; do settings reach Vim, is the NTP client as set, does a date survive the chip? | holds |
| `files` | is anything lost or left cut by failures, resets and two tasks? | holds |
| `sessions` | does a session start clean, by a key meant for it, and close only its own; does the heap count right, can the console be used, do paths mean what they say; does Python start afresh, and a value come back? | holds |
| `git` | is any object lost by a collection the power cuts short, but of a pack that could not be read, any edit or commit by the commands, any secret shown to a stranger? | holds |
| `net_leave` | `esp_net.h:81`: does a disconnect last? | refuted |
| `files_case` | `PHASE6.md:91`: is a copy onto oneself refused? | refuted |
| `git_login` | `esp_git.c:72`: does a login fail only when refused? | refuted |
| `web_settings` | `web.vim:3`: is what the browser saves applied? | refuted |
| `ssh_home` | `esp_ssh.c:721`: is removing a home or a root refused? | refuted |

The bounds, all constants of the configurations or named in the modules:

* `sleep`: a board with everything, one whose button cannot end a deep sleep
  and that has no battery, one that only a timer wakes; idle times of 0 and 1
  minute, deep sleep after 0 or 4 units, a sleep asked for 0 or 3; the battery
  looked at every 3.  So the time to wake, to look and to go deep come in
  every order, with one and two pieces of sleep before each.  `IdleCap` and
  `AsleepCap` end the counting where nothing changes any more.
* `console`.  `EspKbd`: two keyboards, three report ids in two parts (so that a
  part is taken over), keys that send something and one that sends nothing; the
  merging looks at one key and one id at a time, so that a third key adds
  nothing but orders of two.  `MaxHeld` is two keys in all, so that a third is
  ignored.  `EspHid`: every report map of three fields of eight kinds, without
  ids or in two reports, and two fields of keys to a report at most (the code's
  four), so that one too many happens; maps that keep their globals on the
  parser's stack are read with what arrays leave to bitmaps held, the others
  with all that can be (`mode`).  `EspKeys`: two fingers on the keys of each
  kind a board has (a plain key, one that differs by layer, each modifier),
  room for one event, so that the next is lost, and one key at a time whose
  last event was (`MaxLost`).  `EspUsbKbd`: three keyboards for two slots.
  `EspDisplay`: two rows, one outdated and one not.  `EspTouch`: a picture of
  six by four, so that the sides differ and both divide as panels do, with
  fonts that leave a margin and that do not; every mounting, turn and flip.
* `ble`: two keyboards and two takers, of which one calls everything Vim can
  and the other sleeps.  Bonds beyond two are tried in the same loop.
  `EspPairUi`: two keyboards, a list of two, a queue of two: a scan and a tap in
  either order, and one event too many.
* `network`.  `EspNet`: two networks (a change from one to the other), two
  events waiting: the handler tells events apart by kind only, and no more
  than a start and a disconnected are ever of consequence together.  `EspSsh`:
  two hosts and two keys, so that a host's key changes and another host has
  the one it had.  `EspWeb`: two browsers and passwords, two logins (the code's
  four), so that the oldest is thrown out.  `EspTime`: two callers.
  `EspCalendar`: each day from 2025 to 2124, with leap years, a hundredth
  year that is none, and the year the two digits come round.
* `files`: two volumes of two names, a directory of two files that changes
  volume, a file renamed, one that comes back, a transfer to a name in use;
  three contents, so that a transfer always has one of its own.  Vim copies
  and downloads, the web server uploads, moves and deletes.
* `sessions`.  `VimSession`: three descriptors (ownership goes from task to
  task and the scan can be in the middle), one other task, two kinds of things
  held, two sources of keys.  `VimHeap`: sizes of 16 values, a header of 2, 10
  bytes of memory and a budget of 5: a size that wraps, one that memory has no
  room for and one over the budget are all different.  `VimPaths`: three
  segments kept, four asked for.  `EspPy`: four calls within each other.
  `EspPyValues`: values two deep with a limit of one.
* `git`.  `EspGitGc`: two objects (packed together, apart, with one of them
  unreachable), two hashes, three packs on the card at a time: an old one, one
  to keep or of the new one's name, and the new one.  `EspGit`: either two
  branches or as many commits as there may be, three (`MCFewer`): a merge takes
  one branch and three commits.  `EspGitAuth`: a server at SSH's port or
  another, with a key of its own or somebody else's.

TLC looks for deadlocks in all but `console` and `network`, where a component
may really be at an end: a report map is whole, the last day has come.
`web_settings` and `ssh_home`, which look for one behaviour, do without too.


## 5. Fairness

Only what the code's scheduling gives is assumed, and only where there is a
liveness property.

* `EspPower`: the power task takes its steps (strong fairness: it polls between
  naps, and the button or a lock may disable a step now and again); a timer
  set goes off; a button pressed is let go in the end; Vim takes back control
  from a wait or an answered request.  That Vim ever waits, types or edits,
  that the battery drains or anyone presses: not assumed.
* `EspKbd` (in `console`): the timer's task and whoever is inside
  `esp_kbd_input()` go on; nobody need press a key.
* `EspDisplay` (in `console`): the display task looks at its requests every
  100 ms; a sleep ends; a chip that restarts boots.
* `EspNet` (in `network`): the event loop handles what is posted, a command of
  Vim's and a start under way go on; the access point need not answer.
* `EspWeb` (in `web_settings`): the timer, if there is one, fires once a second
  and what it began goes on; a request being served goes on.

No other component has a liveness property or needs fairness.


## 6. What is proved

TLAPS proves the following for every value of the constants that satisfies
the modules' assumptions.  Hardly any of the properties is inductive: each
theorem rests on an invariant that says what is known on the way, a lemma for
each action (or group of them) that keeps it, and a last step by temporal
logic.  What follows names the invariant and why it is needed.

**`EspPower_proofs`**, from `PowerAssumption` (times are natural numbers, each
setting within its cap): `TypeCorrect`, `OneSleep`, `Wakeability`,
`Punctuality`, `NoInterruption`, `NoLoss`, that is, the five safety properties
of sleep on any board with any settings.  Each is about the board asleep, and
what makes it true was decided before, while Vim went on.  `IInv` says that on
its watch the power task carries nothing over from the last sleep
(`WatchIsClean`), what Vim last told is still so while it waits (`ToldTrue`),
what the sleep was begun with is still so as long as Vim has not left its wait
(`ArgTrue`), and that there is time left when the timer is set (`StillTime`).
`PromiseKept` is the refinement of `EspSleepPromise`: for an answer to be one
to a sleep that happened, `SleptFirst` follows the request from the caller's
semaphore to the power task and back.  `PressesSpent` needs `PressKnown`: the
press that ended a sleep is still held on the way back, and told from the next
one by `s_key_used` once the task is on its watch.

**`MCBluetooth_proofs`**, from `BleAssumption` (what each task calls), for any
keyboards and takers: `TypeCorrect`, `DevIsThere`, `WaitsInCompany`,
`OneAtATime`, and `QuietWhileAsleep` where one task suspends at a time
(`OneSleeper`; the power task is the only one that does).  `Calls` says which
steps a call can have left and when it has the lock; `OpensAreBacked`, that an
OPEN still to be handled is of a keyboard that is there or whose CLOSE comes
after it: without it a late OPEN could set `s_dev` to a keyboard that is gone.
`ButtonsMeanIt` of `EspPairUi`, for any keyboards and any queue: a tap made
while the task waited and nothing was in its queue is the first of the queue,
and the list stays as it was drawn for it until it is taken (`AsDrawn`).

**`EspFiles_proofs`**, from `FilesAssumption`, where names that differ are
files that differ (`Apart`): `FilesAreTyped`, `NothingCutShort`, `SourcesStay`
and, with two tasks (`TwoTasks`), `KeptOnTheDisk`, for any volumes, trees,
names and contents.  Both hypotheses mark a limit of the code: without `Apart`
the run `files_case` shows a source destroyed, and a third task could meet two
that know of one another only.  `Inv` keeps apart what the lock keeps apart
(`Alone`), says of transfers that met nobody that their `.part` is their own
(`PartIsOwn`) and of a copy that its source is there (`SourceIsThere`).
`Keeping` adds where everything kept is: a transfer's content nowhere else
(`Fresh`), what a move deletes at both ends (`AtBothEnds`).  As fifteen
actions would each have to keep ten conjuncts, the actions are first
summarised: `Control` (what a step does to its task), `Touches` (to the disk)
and `Carries` (where a content may go) are what the later lemmas use.

**`MCNetwork_proofs`**, from `NetAssumption` and `NetworkAssumption`.
`WifiIsTyped`, `ForgetsForGood` and `JoinsAsAsked` of `EspNet`, for any
networks and any number of events waiting:  `Left` is what a command can have
left to do; `Forgotten` says what of the last connect is still in flash at each
step of a forget, `OnIsStored` that whoever joins joins what is stored, but
between a connect's setting it and asking for the link.  `SshIsTyped`,
`SshSessions` and `KeysStay` of `EspSsh`, for any hosts and keys, where `None`
is no key:  `SshInv` adds to `SessionIsWhoItSays` that every key in
`known_hosts` is one the user accepted (`KnownAccepted`); `SshLooking` is about
a key that is looked up, `SshLogsIn` about all the ways to open a session, and
`SshCall` about the calls that want one.  `SettingsAreSeen` of `EspWeb` rests
on `Told`: what is stored and not applied is about to be told, or was told and
is yet to be looked at.  `TimeIsTyped` and `ClientAsSet` of `EspTime`:
`RunsAsSet` alone is not inductive, as the last sync's end has to know that the
client is still running for a sync that started it (`SyncStops`).
`DatesSurvive` of `EspCalendar`, for the years 2000 to 2124
(`CalendarAssumption`; from 2125 on the chip's two digits give a day after 2025
that is a century early): the date is one of the calendar and its days are
`days_from_civil()`'s (`DateInv`), which the lemmas show to follow the calendar
from day to day, from month to month, over February by whether the year is a
leap year, and from year to year.

**`MCSessions_proofs`**, from `SessionAssumption` (a natural number of
descriptors; the session's task is none of the others; keys come from the
console and the keyboards), `HeapIsSized` (finitely many pointers, NULL is no
block; what memory there is, a header and a budget are less than `size_t`
wraps at) and `PathsHaveRoom` (the arrays' sizes are natural numbers):
`TypeCorrect`, `NothingIsLeft`, `OthersKeepTheirs`,
`StackFree`, `NoStrayKey`, for any number of descriptors and of other tasks.
The table of what Vim owns is read while others change it and is stale behind
the scan.  `IInv` says exactly how far it is to be believed: what it says of a
descriptor is so unless the scan has passed it (`OwnedIsVims`); what is Vim's
is in it but within `open()` and `close()` (`VimsAreOwned`), where the
descriptor is the task's own (`HasItsOwn`); none of Vim's is behind the scan
(`Scanned`).  `Supervised` says where Vim's task can be at each step of the
supervisor.  `UsableConsole` needs that Vim reads only what `select()` told of
(`ConsoleInv`).  `FreshPython` needs what the counters of a session that was
cut off can be: `Counted` says that they count exactly the calls on the stack,
and that each run of Python has kept the sink of the one it is in, by which
`End` restores it.  `ClosesOnlyItsOwn` adds that the interpreter's descriptors
are Vim's as long as its session lasts (`ObjsAreVims`).

`ValuesComeBack` is about values in values.  `toPy`, `fromPy` and `partsOf` are
recursive functions, and the provers know nothing of those by themselves.
Values here are of three levels, so a function made from any other by four
steps of the definition is the same after a fifth (`Settles`): what each of
them is defined as exists, and `ToPyIs`, `FromPyIs`, `PartsAre` say so.  From
there it goes level by level, from what the atoms do (`AtomsTravel`) to what
holds them (`HoldersTravel`).  What changes on the way is v:null, a String that
is not UTF-8 and a Funcref, once.  The invariant, `ValueInv`, is that Vim has
values of Vim's and Python of Python's.  The functions recur under IF, their
atoms are a CASE of their own: tlapm 1.4.5 does not see that a function recurs
inside a CASE and takes the inner one for an unrelated name.

The next two are about what is computed over sets and sequences of any size.
The folds of the community modules are recursive functions, and the provers
know no induction over them, so the lemmas take the least number for which
something fails (`LeastOfNaturals`, `LeastOfSets`): by it there is a fold over
any finite set (`FoldExists`), and it does not depend on the order
(`FoldsAgree`).

* `HeapIsAccountedFor` of `VimHeap`: `HeapInv` says that the count is the sum
  over the blocks on the list, and that with their headers and the blocks of
  others it fits in memory (`Fitting`), without which a size could wrap in the
  additions of `esp_vim_malloc()`; that each block is as long as was asked for
  (`LongEnough`); and that the budget, once set, stays one (`Budgeted`).
* `CallsReachTheirFile` of `VimPaths`: the invariant says only that the
  directory is a path (`CwdIsPath`).  What it takes is that the way
  `esp_normalise()` takes through a path is the way the file system would take,
  segment by segment: as long as the arrays have room for what is meant, it
  leaves nothing out (`NothingIsLeftOut`) and arrives at the same
  (`NormaliseKeeps`).

**`MCGit_proofs`**, from `GcAssumption` (there is a hash; no pack is `None`)
and `GitAssumption` (there is some content).  `TypeCorrect`, `NothingIsLost`,
`OnlyCopiesGo`, `RestIsLeft` of a collection, for any objects and packs: `IInv`
follows the new pack, whole in its temporary file until it is renamed, there
with its index from then on (`NewIsThere`), so that each deletion leaves a
readable copy; and where the writer gives up and its temporary file goes,
everything in it could still be read.  `unread` is what an old pack had that
was deleted though its index could not be read (section 7): the theorems are
about all other objects.  `WorkStays` and `BranchesGrow` of the
commands, for any branches, contents and number of commits: that a branch only
grows depends on what was decided before the tree was checked out, so
`Pending` says that the move a pull has left is a step forward still, and
`Descends` that a commit has behind it what its parents have.  `SecretsStay`
of the logins, and `OnlyNamedLogIn`, which says where the disagreement of the
run `git_login` ends: with a user in the URL, or over HTTPS, a login fails as
refused only if something was refused (`AsksAgain`); over SSH without one no
login succeeds at all.

**`MCConsole_proofs`**, from `KbdAssumption` and `ConsoleAssumption` (`None` is
no USB keyboard; slots are numbers; a panel has a width and a height, the
shorter a multiple of 4, as rows of the frame buffer are of whole bytes; fonts
are not empty).

* `EspKbd`, for any keyboards, report ids, keys and sizes:  `KbdIsTyped`,
  `HeldKeysAreKnown`, `NoKeyIsStuck`, `StraysOnce`.  Reports are kept in a few
  slots that keyboards take from each other; `MergedKeys` says that what is
  made of the slots is all their keys, or as many as there is room for; `Known`
  says which report a slot speaks for (`OneSlotEach`, `SlotsSay`, `SpokenFor`)
  and how far a release of all keys has come.  `Straying` says that a key that
  strayed is not held until it is sent again.
* `EspUsbKbd`: `UsbKeysAreLetGo`, for any keyboards, slots and length of the
  queue.  A keyboard is at one place, a slot or the queue (`AtOnePlace`), and
  only one with a slot sends reports (`SaysByDevice`).
* `EspKeys`: with it `KeysComeUp`, that nothing sticks but keys whose last
  event was lost, for any number of fingers, of lost keys and of events
  waiting, on all three boards.  What is held is what the events read so far
  say: a set of keys (`Heard`), each of which has a finger on it, or is yet to
  be let go by the last of its events that wait (`EventsWait`), or is one whose
  last event was lost.  `PressesAre` and `ModifiersAre` say of such a set which
  keys and modifiers may be in effect; a key that went down in one layer and
  comes up in another is found by what it was then.  The T-Deck's task tells of
  changed keys in their order, which has to exist (`SixAreOrdered`) and name
  each key once (`ChangedInOrder`).  On the T-Deck all this is so as long as
  its raw mode is.  The tables of keys are those of section 3.
* `EspDisplay`: `PanelShowsTheTerminal`, for any number of rows.  Each row that
  is wrong is owed (`NoRowForgotten`): it is damaged, or all are to be painted,
  or the display task is where it goes on to that.
* `EspTouch` with `EspGeometry`: `TouchesAreSeen`, for panels and fonts of any
  size, mounted in any of the ways there are (`Mounted`).  That the turns undo
  each other is linear in the sizes; which cell a point is in, and which bits
  are a pixel's, divide one unknown by another: `AtLeast`, `OneWay` and `DivIs`
  say what of division the provers do not find by themselves.
* `EspMouse`: `ButtonComesUp`, whichever reports find no room.

**`MCReports_proofs`**, from `HidAssumption`: `ReportsSayWhatIsHeld`, that the
reports of any keyboard `EspHid` can describe are read right, with as many
fields in a map as there may be, whichever of the pairings of `mode` and map the
run leaves out.  The assumption says what room there is: for
a layout of each of two reports, for three keys of each field that is kept and
for the boot layout's six (`MAX_REPORTS` is 6, `MAX_FIELDS` 4, `MAX_KEYS` 16),
for one `push` (`STACK_DEPTH` is 4), and for the offsets: a field has 16 bits
at most, and a report fewer than 2^16, at which `offs[]` would begin again.
The invariant is only that the fields are of the kinds there are, with report
ids or without (`Described`); the work is in what is computed from them.

* The folds of the model are the loops of the code, and a theorem about one is
  an induction over its steps.  `LoopStep` has the step of each of them, and
  `LoopExists` and `LoopRuns` say that a fold is what its loop comes to
  (`Runs`), so that what holds before the first step and is kept by each
  (`OneByOne`) holds at the end.
* The parser is led through a map item by item (`Leads`).  Between two fields
  it has no locals and nothing on its stack, and its globals are those the map
  has last written (`Reaches`, `Agrees`); a field's items take it to the same
  place with one more field (`FieldLeads`).
* What it has by then is compared with the report, which grows along with it:
  the offset it has for the next field is the number of bits before it
  (`Placed`; `ReportFits`), each report with keys has one layout (`Laid`), and
  the fields of that, read from any report that begins so, say what they were
  made to say (`Reads`, `Means`), up to the last there is room for (`Full`).
* A field is read as what it says: bits as usages (`VariableRead`), entries of
  an array as numbers (`BitsRead`, `ArrayRead`), taken together by `Took`,
  which has modifiers, keys and the overflow in one and adds up (`TookBoth`).

The keys that are held are still three, besides the modifiers at either end.

All of the runs' safety properties are stated by a theorem.  Type correctness
and `OneSleepAtATime`, `AlwaysWakeable`, `InterruptsNothing`, `OneAttempt`,
`StackIsFree`, `DeletesOnlyCopies`, `LeavesTheRest`, `CopyKeepsSource`,
`KeysAreKept` and `RepeatsHeldKey` are stated by theorems only.  What stays
with TLC is liveness, which is out of this prover's reach: `DueSleepComes`,
`HeldKeyRepeats`, `RestsAndReturns` and `KeepsReconnecting`.


## 7. Where the code departs from what is said of it

Each of these is a run TLC refutes, with the behaviour it shows.

* **A disconnect may be undone** (`net_leave`).  The event handler looks at
  the flag and joins later; a start in the background and a resume join on
  their own.
* **A copy may destroy its source** (`files_case`).  The guard against copying
  a path onto itself compares letters; FAT does not tell `README` from
  `readme`.
* **A login may fail though nothing was refused** (`git_login`).  For an SSH
  URL without a user libgit2 asks twice, for a name and for a key; the second
  call is taken for a refusal.
* **What the browser saves may not be applied** (`web_settings`).  The server
  outlives a session of Vim, the timer does not, and a session that finds the
  server running makes none.
* **A home or a root may be removed** (`ssh_home`).  The path is compared with
  "", "/" and "." before its last slashes are taken away: "./" and "//" pass.

Seen while modelling, and not given a run:

* a sleep may interrupt Vim, which goes on while the radios and the screen are
  put to rest (`esp_power.h:14` says by itself only while Vim waits);
* a press that ended a deep sleep can count as one to sleep
  (`esp_power.c:508`), and between two sessions of Vim a low battery is never
  noticed (`:549`);
* a key may repeat at once or after 33 ms: the timer's callback takes no lock
  (`esp_kbd.c:6` says after half a second); an escape sequence is cut by a full
  queue; the keys every keyboard holds are forgotten when a wireless one goes
  (`:134`), and sent again; a seventeenth key, ignored while it is down, is sent
  when another comes up;
* a built-in key whose last event was lost, by a full queue of the chip or a
  read that failed (`esp_kbd_cardputer_dev.c:100`), is held, and repeats, until
  it is pressed again; one impossible reading of the T-Deck's keys, of a
  disturbed bus or of a whole row held down, ends its raw mode for good, with
  the keys that were down held (`esp_kbd_tdeck_dev.c:161`);
* Vim takes its mouse button for pressed until the next touch is let go if the
  queue had no room for the release (`esp_kbd.c:38`), or the mouse was turned
  off or the touch handed over during a drag (`esp_display.c:847`);
* a tap on the pairing screen that waits behind a scan, or comes while the list
  is drawn, is taken of a list the user has not seen (`esp_pairui.c:334`,
  `:255`);
* v:null comes back from Python as v:none, as `test/py.py:81` has it;
* a collection does not look at what `git_odb_foreach()` returns
  (`esp_git.c:336`): an older pack whose index is opened but not read counts as
  one "whose every object is in the new one" (`:317`), and is deleted;
* on the Tab5 `1` and `!` are one usage (`esp_kbd.c:77`): one pressed while the
  other is down is not sent;
* a keyboard whose modifiers are in an array, or in a bitmap of fewer than
  eight, is read as one without modifiers (`esp_kbd_hid.c:179`);
* two Bluetooth keyboards may be connected: the reconnect task goes on to the
  next when an open has returned but its event is still to be handled
  (`esp_ble.h:53` says one at a time);
* whether a keyboard is wired may be told wrongly until the next one comes or
  goes (`esp_usbkbd.c:42`);
* a suspend during the driver's start loses the network until the next
  connect;
* two transfers to one path share one `.part`, and nothing gives a `.part` left
  by a reset its name; a short SCP get replaces the whole file
  (`esp_ssh.c:488`); an SFTP session that died is kept (`:388`);
* a collection that gives a pack the name of one that is there removes that
  one first, and the power gone just then leaves its objects in a temporary
  file only (`DeletesOnlyCopies` allows this step and no other).


## 8. What is not modelled, and why

* Measured voltages, percentages, pictures, texts, listings, logs: data no
  decision of these modules reads.  The bytes of a key are a table.
* Of `esp_display`: libvterm, glyphs and colours, the set-up of the panels, and
  the three seconds after which a caller stops waiting for the panel to rest.
* Of `vim/port`: boards that restart between sessions, with their smaller heap
  and its guard; stubs of what POSIX has and the chip has not.
* Of the built-in keyboards: indicator lights, the T-Deck's trackball and
  backlight, and the characters its keyboard types when not in raw mode.
* Of `esp_touch`: the scale of a controller that counts in steps of its own
  (`:177-184`).  Of `esp_pairui`: what it writes but the button, and when it
  comes up; that what it draws is on the panel is `EspDisplay`'s.
* Of `esp_git_gc()`: a `.rev`, the limit below which it does nothing.
* Of `esp_ssh`: the making of a key, how a URL is read.  Of `esp_time`: time
  zones.  Of `esp_web`: pages, forms.
* Of `esp_git`: status, log, diff, configuration, progress on the screen.
* Of `micropython`: standard input, CTRL-C, completion.
* Drivers and boards (`esp_board`, `esp_sd`, chips on I2C) and the ring of the
  log: I/O in a row under one lock, with nothing to interleave; what they
  report is an input of the modules above.  The update of the co-processor is
  one sequence whose atomicity is the co-processor's own.
* The conversions of the other `esp_*()` functions, the Vim script of the
  runtime image but for `web.vim`'s timer, the build scripts.
* Vim, libgit2, libssh2, MicroPython, FreeRTOS and ESP-IDF: external, modelled
  by how this code uses them where a property depends on it.
