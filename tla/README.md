# A verification project for the ESP32 laptop bridge

The program in `src/src` turns an ESP32 into a web console for a handful of
laptops.  A browser talks HTTPS to the board; the board talks SSH to one laptop
at a time, and lets the browser type into a shell, fetch and send files, switch
between laptops, press their power buttons and set a fan.

This directory holds TLA+ modules that model the parts of that program whose
correctness depends on interleaving and failure, TLC configurations that check
them on small instances, and proofs, checked by TLAPS, of what the runs check,
safety and progress, for every value of the constants.  `PROJECT.json` maps every
definition to the source lines it stands for.

## 1. The system

Everything of the program's own is in `main.cpp` and `ssh_functions.cpp` (the
latter adapted from the examples of LibSSH-ESP32).  Tasks and what they share:

| part | runs as | state it keeps | operations |
|---|---|---|---|
| control task (`ex_main`) | task `ctl`, core 0, priority 3 | `current_ssh_index`, loop position | connect at boot; per pass: forward shell output, then the first of switch / shell input / upload / download / status check / keep-alive |
| SSH objects (`ssh_conn`) | used by the control task only (`conn` is read by the server task) | `conn`, `session`, `channel`, `password` per machine; libssh's init count | `connect`, `brutal_exception`, `read`, `write`, `exec_cmd`, `scp_write`, `scp_read`, `keep_alive` |
| SSH login | control task | the stored password | `connect_ssh`, `authenticate_console` |
| Wi-Fi bring-up | control task against the event task | `devState`, `gotIpAddr`, `gotIp6Addr`, `wifiPhyConnected` | `wait_for_wifi_exec`, `event_cb` |
| HTTPS server (`serverTask`) | task `https443`, core 1, priority 1 | one handler at a time, to its end | the handlers |
| mailboxes | globals, no lock | `switch_ssh`, `ssh_command`, `upload_command`, `scp_command`, `hp_1_status_req` | written by handlers, reset by `ex_main` |
| SD card | shared, survives resets | `/downloads/file`, `/downloads/upload`, password, sessions, settings, pages | opened and removed by both tasks |
| websocket registries | arrays under a mutex each, 100 ms timeout | `activeClients`, `activeClientsFan` | `create`, `onClose` (server task), `send` (control task, `loop`) |
| login and sessions | server task | `PASSWORD`, `Session_dict` | `middlewareAuth`, `handleLogIn` |
| power buttons, fan duty | server task | pins, LEDC channel 0 | `handleToggle1`-`6`, `handleFan` |
| tachometer | `loop` (core 1) against an interrupt | `tachPulseCount`, `lastTachTime` | `tachISR`, `loop` |
| pages and templates | server task | none | static pages |

**How they interact.**  A browser request passes `middlewareAuth` and reaches a
handler of the server task.  Handlers that need a laptop put a command into a
mailbox; `ex_main` polls the mailboxes in a fixed order, runs the command and
writes the empty value back.  `handleTerminalPost`, `handleSCP`, `handleUPLOAD`
and `handleSSHStatus1` poll their mailbox until it is empty again and then
answer; `switchSsh0/1` and `SSHHandler::onMessage` do not wait.  Downloads and
uploads travel through two fixed files on the card.

**What is hard here.**  No mailbox has a lock and the tasks run on different
cores; the "empty" value doubles as "done", whatever the outcome; the reset that
ends a command may hit a newer one; most branches want `conn`, which only a
status check can restore, and only the server task can ask for one; the card
keeps files and sessions over a reset; `session` and `channel` start
uninitialised; every path through `connect`, `connect_ssh`, `exec_cmd`,
`scp_write` and `scp_read` has its own clean-up; two tasks test and store
`devState`; `millis()` wraps; any libssh call may fail, and some never return if
the peer misbehaves.  `PROJECT.json` lists these as hazards, each with its line
and the properties that watch it.

**What makes each part correct.**  Mailboxes and handlers: a request is run
once, before it is answered, is not lost or overwritten before it is run, and
the two tasks never use one file at once; every wait ends.  SSH objects: a
pointer is used only while it is valid, one session at a time, the library
balanced, nothing leaked.  Wi-Fi: the client starts once the station is
associated, and does start.  Login: it returns and
frees what it allocated.  Registries: nobody sends through a deleted handler, every client has
one entry.  Sessions: a page is served only to a holder of the password in
force, and to every such holder.  Outputs: a button is released.  Tachometer: no
pulse is counted twice, no period is short, sampling never stops.

## 2. The modules

Four compositions, each of its own modules:

| specification | composes | implements | proofs |
|---|---|---|---|
| `Bridge` | `Mailboxes`, `SshSession` (with `SshOutcomes`), `ControlTask`, `ServerTask` | `RequestChannel`, three times; `SshConnect`, once per machine | `BridgeProofs`, `BridgeChannelProofs`, `BridgeLiveProofs` |
| `Uplink` | `WifiBringUp`, `SshLogin` (with `SshOutcomes`), `SshCalls` | `SshConnect` | `UplinkProofs`, `UplinkLiveProofs` |
| `Panel` | `WebSession`, `Outputs` | | `PanelProofs` |
| `WsRegistry` | | | `WsRegistryProofs` |
| `FanTach` | | | `FanTachProofs` |

`MCBridge` and `MCPanel` give TLC a symmetry set and the values of constants.

**The bridge.**

* `Mailboxes` - the five mailboxes and the two files under `/downloads`.
  `SshCommandSeen` says what the control task can get when it reads
  `ssh_command` during an assignment: Arduino's `String` stores the characters
  before the length, so a reader of an empty String still finds it empty, a
  reader of a non-empty one finds the old text or a mixture (`Torn`).  If the
  control task resets the String in the middle of an assignment, the text may
  survive or the String may compare equal to `""` (`SshCommandAssigned`, in
  `ServerTask`).  The other mailboxes are assigned only while empty or hold one
  character.  The `ran...` and `sent` variables are history: what was last run
  from each mailbox.  A file is modelled by what the properties tell apart:
  whose copy it is, whether it is complete, and whether a download is left over
  from an earlier boot or from a removal that failed (`dlLeft`).
* `SshOutcomes` - what `connect()` and `brutal_exception()` may make of the two
  pointers and libssh's count; pointers are `wild` (never assigned), `null` or
  `live`.  Shared by `SshSession`, which uses it as it stands, and `SshConnect`,
  against which the detailed login is checked.
* `SshSession` - the `ssh_conn` objects, one per machine.
* `ControlTask` - `ex_main`.  One action per step; the loop is cut wherever the
  server task can interfere: between testing a mailbox, copying its contents,
  doing the work and resetting it.  `read` and `keep_alive` change none of this
  state, but they may fail to return.  `hung` is the control task that does not
  come back: from a loop that never ends (a peer that offers no usable login
  method, or closes the channel during `scp_read`), or from a call without a
  timeout (`CallNeverReturns`: libssh waiting for its peer, or `read` in a
  `send()` to a browser that has stopped reading).  `PeerMayStall` switches both
  on.  `panic` is the crash after an unassigned pointer was followed.
* `ServerTask` - the handlers that use mailboxes: an action when the request
  arrives, one per later step (`fill`, `assign`, `wait`, `reply`).  The removal of
  a download that was served may fail, and nobody notices (`RemoveDownload`).
* `Bridge` - both tasks, interleaved, and resets; the properties; the inductive
  invariant.
* `RequestChannel` - the abstract promise of a mailbox that is waited for: one
  request at a time, taken exactly once and as asked, answered when done, wiped
  only by a reset.  `Phase`, `AskedOf` and `DoneOf` in `Bridge` are the
  refinement mapping for uploads, downloads and status checks.

**The uplink.**

* `WifiBringUp` - `wait_for_wifi_exec` and `event_cb`.  Each tests `devState` and
  stores it in separate steps, so that a store may land on a newer value.  Events
  wait in a queue (external), and the network reports associations, addresses
  and their loss.
* `SshLogin` - `connect()`, `connect_ssh()`, `authenticate_console()` call by
  call; allocated `ssh_session`s are counted.
* `SshCalls` - `exec_cmd`, `scp_write` and `scp_read` call by call; channels and
  `ssh_scp` structures are counted.  The history counters `spoiled` and
  `spoiledHere` say how many downloads took one of the two returns that free
  nothing, so that the leak is stated exactly.
* `Uplink` - the control task from its start to the use of the sessions; the
  first connection can succeed only with an address.
* `SshConnect` - one `ssh_conn` object, with `connect()` and `brutal_exception()`
  as single steps: the contract between the two compositions.  Its steps say what
  the calls do, which `Uplink` is shown to implement call by call
  (`ConnectIsAtomic`).  Its guards say when they may be made, `connect()` without
  an open session and `brutal_exception()` on a session that was assigned, which
  `Bridge` is shown to keep for every machine (`MachinesAreObjects`; a machine's
  share of libssh's count is `BegunFor`, and a reset starts the object over).

**The panel.**

* `WebSession` - `middlewareAuth`, `handleLogIn`, what `setup` reads.  A text is
  the sequence of its parts between `=` signs, since the middleware cuts at the
  last one.  `Session_dict` maps a digest to the text it is the digest of, so it
  is a set of texts and a cookie is a text.
* `Outputs` - pins and PWM duty: `handleToggle1`-`6`, `handleFan`.
* `Panel` - the server task lets a request through and runs its handler, while
  the card may stop answering and the board may be reset, possibly with a new
  password on the card.

**Registries and tachometer.**

* `WsRegistry` - one array of websocket clients with its mutex; `activeClients`
  and `activeClientsFan` are two instances, told apart by `GivesUnheld` (only
  `loop` gives a mutex it failed to take; FreeRTOS asserts in that case if
  somebody else holds it).  Handlers are addresses that go from `free` to `new`
  (`create`) to `open` (`initialize`, called by the library after `create` has
  returned) and back.  The server task creates and closes, the sender (the
  control task or `loop`) walks the array entry by entry; each may give up
  waiting for the mutex.  `Drop` is a connection that the library ends without
  `onClose`.  Sending through a `new` handler follows a null pointer (`Panic`);
  through a freed one, anything may happen.  A call of `send()` is a step of its own
  (`Send`, or a panic) that is never obliged to end, since it comes down to an
  `SSL_write` without a timeout; the rest of the walk is `Walk`.  The history variable `skipped`
  collects the addresses whose entry was not made or not removed, so that one
  specification covers both the calm and the rough case.
* `FanTach` - `tachISR` against the sampling in `loop`, with the clock modulo
  `Wrap`; the interrupt runs on the core of `loop`, between its steps.

Definitions marked *faulty variant* are not part of any specification: each is
an action or operator with a plausible bug put in, used to confirm that a
property would notice.

## 3. The runs

| run | shows |
|---|---|
| `bridge` | every interleaving of the two tasks with all failures, resets, calls that never return and vanishing clients: the two files are used by one task at a time, a download serves its own file or a left-over one, the ssh objects stay consistent; the three refinements of `RequestChannel` and the refinement of `SshConnect` by every machine; only a reset frees a handler that waits without a connection (`StrandedForGood`) |
| `bridge_live` | with peers that answer (`PeerMayStall` is FALSE), clients that may vanish and no resets: a status request is always answered; every other handler returns unless it is stranded without a connection or its client has vanished; a switch comes to the `connect()` of the machine it names (`SwitchCarriedOut`), unless the link is down or it came after `switch_ssh` was read for another one; no task is ever blocked by the other (`TasksCanStep`; without stalls, since a step into `hung` would count as one) |
| `bridge_transfer` | **violated**: `handleUPLOAD` answers although `scp_write` failed, and `handleSCP` streams a partly received file |
| `bridge_erased` | **violated**: shell input is erased unwritten, and a switch request made during a switch is erased |
| `bridge_serving` | **violated**: a wait that begins, or goes on, with the connection down never ends, and the server task with it |
| `uplink` | races on `devState`, every outcome of every libssh call: `ex_main` starts after an association and does start; sessions, channels and handles are accounted for; `connect()` refines its single step and comes to an end if libssh does (`LoginReturns`); neither task holds up the other (`UplinkCanStep`) |
| `uplink_address` | **violated**: the first connection is attempted without an address |
| `panel` | two browsers, changing passwords, failing card, resets: who may press, who is let in, every press ends |
| `panel_password` | **violated**: a card that cannot be read makes `PASSWORD` empty |
| `ws` | timeouts, drops, reused addresses and the stray give: the array stays guarded, a stale entry and a send to a handler that is not open are always explained, clients are registered once and keep their entry, the server task returns even if a `send()` never does, the sender returns if each of its sends does, neither is blocked by the other (`WsCanStep`) |
| `ws_active` | **violated**: the sender meets a handler that has no connection yet |
| `tach` | pulses in every gap and a wrapping clock: full periods, all pulses accounted for, sampling goes on as long as the sends return |

Each violated run states what a comment in the source promises; the findings in
`PROJECT.json` quote it.  Where a violated property has two conjuncts
(`TransferCompleteBeforeAnswer`, `ErasedOnlyWhenDone`), TLC refutes each of them
alone as well.

**Bounds.**

* Bridge: two machines (the pages have two buttons), two texts and two paths, so
  that a request can be confused with another one; they are interchangeable and
  TLC uses that (in the safety run only).  The liveness runs take one of each and
  no symmetry.  Nothing else is bounded: a mailbox is one slot, `begun` stays
  below 3 (`LibraryBalanced`) and there is one handler at a time.
* Uplink: at most `MaxEvents` = 3 events wait, enough for a connection, a loss
  and another connection to be queued while the control task is between a test
  and a store; `MaxSpoiled` = 2 downloads leave their handle, so that both one
  session and two in turn can have leaked.  Both bounds are guards (`Report`,
  `Spoil`).
* Panel: two browsers, two passwords, the empty text and one text that ends in a
  password after `=`; two buttons, two speeds.
* Registry: two entries and four addresses for the ten entries of the code:
  enough for a full array, for a stale entry beside live ones and for an address
  that is reused while another is free.
* Tachometer: `Wrap` = 8 and `TACH_SAMPLE_TIME` = 3 so that a period spans the
  wrap and the clock can go round during one; four pulses, enough for one in
  every gap of two samples.

**Fairness.**

* Bridge: weak fairness of the control task, which has core 0 and the highest
  priority there among the program's tasks and sleeps only for a bounded time; of
  the running handler, which shares core 1 in turns with `loop` at the same
  priority; and of the reset that follows a panic.  None for the browser.  The
  liveness run assumes that calls of libssh and `send()` return
  (`PeerMayStall = FALSE`): the code has no timeout of its own there.  The safety
  run and the theorem `HandlersReturn` do without that assumption: a call that
  does not return leaves the control task `hung`.  `HandlerReturns` names the
  three ways in which a request may be lost (stranded, client vanished in its
  body, control task hung) and `SwitchCarriedOut` allows for the connection being
  down; `bridge_serving` shows that the excuses are needed.
* Uplink: weak fairness of the two tasks, none of the network.
  `AssociatedThenExec` excuses the timeout of `wait_for_wifi_exec`: that branch
  goes back to `STATE_NEW`, which only another association leaves.  No fairness is
  assumed of the calls of libssh: the program sets no timeout, so the library
  waits for a silent peer without limit.  `LoginReturns` therefore has the
  fairness of `Connecting` as its own hypothesis ("if each call returns"), and
  leaves the rounds of `authenticate_console()` after a refusal as the only way
  not to come back.
* Panel: weak fairness of the handler's `delay` and release.
* Registry: weak fairness of the server task and of the sender's own steps
  (`Walk`); the bounded wait for the mutex is part of them.  Without it both
  liveness properties fail, since a released FreeRTOS mutex may be taken again
  before the waiter runs.  No fairness of `send()`: a browser that stops reading
  holds it for ever.  `ServerReturns` holds all the same; `SenderReturns` has the
  fairness of `Calls` as its own hypothesis ("if each call ends"), as
  `LoginReturns` has that of `Connecting`.
* Tachometer: weak fairness of the clock and strong fairness of the sampling.
  The sends between two samples are not assumed to return: that is a hypothesis
  of `SamplingGoesOn` (the fairness of `Sent`).  A sample
  is due, and then not due again once the clock has gone round; `loop` looks
  every few milliseconds of those 49 days, so it cannot miss all of them for
  ever, which is what strong fairness says.

Every property of a passing run is also checked against a faulty variant of the
code (the `mutants` of `PROJECT.json`) under which TLC must find it violated.
The types are not run on their own: they are the first conjunct of each
inductive invariant, and those (`IndInv`, `RegistryInv`, `UplinkInv`, `PanelInv`,
`TachInv`) are proved, as is `AttemptedBeforeReply`, which the refinements of
`RequestChannel` make more precise.  A reader who changes a model can hand them
to TLC by adding them to the `.cfg` of its run.

## 4. What is proved

Eight modules of proofs are checked by TLAPS.  The safety theorems hold for
every set of texts and paths, every number `N >= 2` of machines, any number of
clients, addresses, events, browsers and buttons, any width of the clock, and for
either value of the environment switches.

Assumptions: commands, the empty String and the torn marker are distinct
(`ValuesAssumption`); at least two machines are listed in `ssh_settings.csv`
(`MachinesAssumption`: the buttons select machines 0 and 1 and nothing checks
the index, so with a single machine the code reads past its list; the models
say nothing of that case); the switches are Booleans; the registry has at least one entry and
finitely many addresses; the password on the card is not empty, has no `=` in it
and is not what `getPassword` generates (`SessionAssumption`: with an `=`,
`middlewareAuth` could never match it); the sample period is shorter than the
wrap of the clock; the bounds are natural numbers.

*Bridge.*  `IndInv` is inductive (`Invariance`).  The properties need more than
their own statements: that a handler's answer follows its request rests on the
hand-over of each mailbox (`UploadHandOver`, `ScpHandOver`, `StatusHandOver`): a
non-empty mailbox belongs to the handler that waits on it, the control task is
inside a transfer only while the mailbox still holds the path, a path still
waiting has not been run, and an emptied mailbox means that it was.  From it
follow `FilesAreExclusive`, `AnswersAfterAttempt`, `ServesOwnFile` (with
`DownloadOwned`: a download that is not the waiting handler's own is marked as
left over) and, as an action property, `TransfersKept`.  `SessionsConsistent` and `LibraryStaysBalanced` rest on
`SessionDiscipline`: which pointers are assigned at each step of the loop, so
that a `wild` session never reaches `brutal_exception` and `connect` is never
called on a live one.  `MachinesImplement` draws that conclusion: for each machine
every step is a step of `SshConnect`, a stutter or a reset.  The only step that is
more than one call is the reconnect after a failed check, `brutal_exception()`
followed by `connect()`; by the invariant its outcome is always that of the first
alone, of the second alone, or no change.  Together with `ConnectImplements` this
closes the circle: `Bridge` uses the outcomes that `Uplink` implements, under the
conditions that `Uplink` assumes.  The proof of `Invariance` has a step per action of each task
(`ControlInv`, `ServerInv`, `RebootInv`), with one step below for each conjunct
the action can disturb.

*Channels.*  `UploadImplements`, `ScpImplements` and `StatusImplements` show
`Spec => RequestChannel` under the mapping: each step of either task is a step
of the channel or leaves it alone, by the hand-over invariants.
`StatusReportStable` is an action property: after the check that a handler
waited for, only a switch or a reset changes what it reports.

*Causes.*  For four of the properties that TLC refutes a theorem says what the only
causes are, so that the rest of the mechanism is not in question:

| refuted property | holds if | theorem |
|---|---|---|
| `TransferCompleteBeforeAnswer` | every transfer succeeds (`TransfersSucceed`) and neither an earlier boot nor a failed `SD.remove` left a download | `TransfersCompleteIfTheySucceed` |
| `ErasedOnlyWhenDone` | input comes only while none is pending, and no switch between the reading of `switch_ssh` and its reset (`OneAtATime`) | `NothingErasedOneAtATime` |
| `ServerKeepsServing` | no handler is stranded, no client vanishes in a body, the control task does not hang | `ServesUnlessLost` |
| `OnlyActiveClients` | the client is past `initialize()` and its address was not skipped (`SentToExplained`, which a run checks) | `SendsExplained` |

The first two have an invariant of their own beside `IndInv` (`TransferInv`,
`EraseInv`), inductive under the hypothesis.  The other two refuted properties
(`AddressKnownAtDial`, `PasswordSet`) fail in one statement of the code and need no
such analysis.

*Uplink.*  `UplinkInv` says what may be in `devState` and in the event task's
hands before the first association, what each step of `connect()` owns, and what
each step of a call holds.  It gives `ExecIsAfterAssociation`,
`SessionsAreFreed`, `CallsAreFreed` and the refinement
`ConnectImplements`, under which a `connect()` in progress is seen as the object
it started from.  `NoMethodNoReturn` shows that a login whose peer offers neither
method never ends, whatever the tasks and the network do: the reason why
`ConnectCurrent` in `Bridge` may leave the control task `hung`.

*Panel.*  `PanelInv` adds to the properties that a greeted browser still holds
the cookie of that login and that the login is stored; from it
`CommandsAreFromOwner`, `GreetedAreLet`, `ButtonsAreReleased`.

*Registry.*  `RegistryInv` is inductive in every environment and gives
`ArrayIsGuarded`, `OpenClientsKept`, `StaleEntriesExplained`, `SendsExplained` and
`ClientsRegistered`.  `SendsExplained` needs that a handler without a connection is
always the one in the server task's hands (`BusyWith`).  `ClientsRegistered` needs a count: if nothing was skipped and the
array were full, its entries would be `MaxClients` different allocated handlers,
none of them the one that is being created, which the limit on connections
excludes.

*Tachometer.*  `TachInv` adds that the unsigned difference of the two times
never exceeds the time that has really passed, wherever and however often the
clock wraps; from it `PeriodsAreFull` and `PulsesAreAccounted`.

### Progress

Each liveness property is proved from the fairness of its specification, in three
parts:

1. *a measure*, a number that every step of the task that is waited for lowers
   and that no other task raises, together with the invariant that bounds it;
2. *one step of the measure*, from the fairness of the task by propositional
   temporal logic (`...ComesNearer`).  It needs that the task can step.  That is a
   statement about `ENABLED`, which the prover does not handle, so it stands in the
   theorems as a hypothesis, `[]XCanStep`.  Where it could fail (`TasksCanStep`,
   `WsCanStep`, `UplinkCanStep`) the run of the same specification checks it as an
   invariant; `PressCanStep` and `TachCanStep` hold by the shape of the steps,
   which wait for nothing but the clock;
3. *the whole way down*.  Induction over the measure is out of the prover's
   reach; leading from below `i` to below `k` is transitive (`...FallsOn`), so the
   step is doubled until it covers the bound.  This is why these theorems need
   a number, taken from the code, where the safety theorems need none.

| theorem | property | measure | further assumptions |
|---|---|---|---|
| `HandlersReturn` | `HandlerReturns` | at most 87 steps of `ex_main`: the rest of its pass, and a pass each for a switch, for shell input and for having been posted too late | none: peers may stall, clients vanish, the power fail |
| `ServesUnlessLost` | | the server task comes back for ever if none of the three losses ever happens | as above |
| `StatusIsAnswered` | `StatusAnswered` | the same | no peer stalls (`~PeerMayStall`) |
| `SwitchesCarriedOut` | `SwitchCarriedOut` | the rest of the pass and one more, up to the `connect()` | no peer stalls |
| `LoopComesRound` | | the rest of the pass | no peer stalls, the power stays (`~PowerMayFail`) |
| `StrandedHandlersStay` | `StrandedForGood` (an action property) | | none |
| `StrandedForEver` | | the same, as a state that is never left | the power stays |
| `ServersReturn` | `ServerReturns` | three steps of the server task | none |
| `SendersReturn` | `SenderReturns` | the entries left in the walk | `MaxClients <= 10`, the code's `MAX_CLIENTS`; that each `send()` ends is a hypothesis of the property |
| `AssociationStartsExec` | `AssociatedThenExec` | first what is queued before the last `connected`, then what is left of the walk up `devState` | `MaxEvents <= 32`, the build's `CONFIG_ESP_SYSTEM_EVENT_QUEUE_SIZE` |
| `LoginsReturn` | `LoginReturns` | the calls left of `connect()`, at most eleven | none; that each call returns is a hypothesis of the property |
| `PressesEnd` | `PressEnds` | the one step after the `delay` | none |
| `SamplingContinues` | `SamplingGoesOn` | the ticks left of the period | `TACH_SAMPLE_TIME <= 1000`, as in the code; that the sends return is a hypothesis of the property |

`HandlersReturn`, `ServesUnlessLost` and `StrandedForEver` together explain the
violation of `bridge_serving`: a handler is lost in three ways and no fourth, and
of the first of them no later event but a reset relieves it.  No peer stalls is
an assumption on libssh's calls and on `send()`; where it fails the control task
is `hung`, which is one of the three.

`SwitchesCarriedOut` says more than that `switch_ssh` is emptied.  A request made
while `connect()` runs for an earlier one is erased (`bridge_erased`), so the
property is about a request that is in the mailbox when it is read: a pass that
finds it there tears the session down, sets the index to what it names and calls
`connect()`; a request that replaces it takes its place.

`AssociationStartsExec` rests on `LinkInv`: while the station is associated, the
report of that association is either in the queue with no loss reported behind
it, or has been taken, and then devState is past `STATE_NEW` or about to be.  The
timeout branch breaks it, since it puts `STATE_NEW` back; this is the exact
reason for the excuse in the property.

### What stays with TLC

* the `XCanStep` hypotheses (`ENABLED`), on the small instances.  `bridge_live`
  checks `TasksCanStep` with `PeerMayStall` and `PowerMayFail` off; a switch only
  adds an outcome to a step that has others, or an action of its own, so on it
  disables no task;
* the refuted properties.

No proof needs induction over data: no property speaks of a recursive definition.

## 5. Not modelled

* The bundled libraries under `.pio/libdeps` (LibSSH-ESP32, LightweightSTL, esp32_https_server,
  the key-value database, the URL decoder) hold about 98% of the lines under
  `src`.  They are third-party code that the program only calls: a call is
  modelled by its outcomes where the program depends on them, the protocol
  engines, cryptography and parsers inside are not.  A map that claimed a
  substantial share of those lines would claim what the modules do not say.
  The program's own two files are covered but for the items below.
* Contents of files and messages, parsing of `ssh_settings.csv`, the
  certificate, static pages and templates: no state, or state that no property
  tells apart.
* Code that is never reached: `authenticate_kbdint`, `auth_keyfile`,
  `ssh_conn::disconnect`, the states after `STATE_OTA_COMPLETE`.
* Five hazards are listed without a property, each with its reason: `send()`
  writing to a TLS connection from one task while another reads from it (what
  happens is inside mbedTLS), an index past a list of one machine
  (`MachinesAssumption`), the `memset` after a round of the SSH login that did not
  succeed, which wipes the object's only copy of its password (`Wipe`), a login
  that could not be stored, and a password with
  `=` in it (`SessionAssumption`).
* Hardware beyond its interface: FreeRTOS, the Wi-Fi driver, the SD card.

What could come next: `WsRegistry` composed with `Bridge`, so that a walk over
slow clients delays the mailboxes; a bound on what the leaks of `scp_read` cost over a long run.
