# A TLA+ model of sphere-setup-assistant

sphere-setup-assistant is a small Go daemon on the Ninja Sphere. It watches the
wireless network, offers two ways to pair when the network is bad (a BLE
service and an access point), takes Wi-Fi credentials from a phone, and watches
the reset button. It has no big algorithm; what is hard about it is that a dozen
goroutines share plain variables, that timers and RPCs of many seconds lie
between a decision and its effect, and that a phone may call anything at any
time. The specifications here model that, and leave out strings, JSON,
cryptography and drawing.

Line numbers refer to the files under `src/`. `PROJECT.json` maps each
definition to the lines it stands for.

## 1. Inventory

| Component | State | Operations | Talks to |
|---|---|---|---|
| Reset button (`reset-button.go`) | `current`, `modeIndex`, `down`, timers `timeout`, `ticks` | edges of the button, timeouts, `commit` | GPIO line; callback in `main.go:62-75` (display RPC, heartbeat); `reset-helper.sh`; exit code 168 to the wrapper script |
| Main loop (`main.go:151-291`) | `wireless_stale`, `is_serving_pairer`, `badWifiMessage`, channel `states` | Connected, Disconnected, InvalidKey, `handleBadWireless`, delayed goroutines, serving goroutine | WifiManager, BLE server, access point, pairing UI |
| WifiManager (`WifiManager.go`) | slice `stateChange`, `ackPending`, `onAck` | `WatchState`, `UnwatchState`, `emitState`, `SetCredentials`, `ConnectionAcknowledged`, `OnAcknowledgment` | wpa_supplicant; the main loop; RPC and HTTP handlers |
| Secured RPC service (`ble_secured_rpc_service.go`) | `state`, `ss`, `salt`, `secret_key`, `last_enc_iv`, `last_dec_iv`, `rpc_queue` | nine characteristics, a goroutine per response, one per subscription | GATT server, RPC router, one-time codes, pairing UI |
| One-time codes (`OneTimeAuthHandler.go`) | `password` | `AuthenticationInvalidated` | secured RPC service |
| Characteristic transport (`ble_utils.go:61-153`) | `bytesWritten`, `expectedOffset`, `offsetReqChan` | write handler, notification goroutine, `ChunkWrite` | GATT server, secured RPC service |
| BLE start-up (`ble_utils.go:14-59`) | the interface `hci0` | poll, down, up; give up after a timeout | `hciconfig` |
| Control heartbeat (`PairingUI.go:19-83`) | `ticker`, `state`, `restartHeartbeat` | start, stop, tick | pairing UI, reset callback |
| RPC and HTTP handlers (`wifi_setup_rpc.go`, `wifi_setup_http.go`) | `lastUpdateProgress` | thirteen methods | WifiManager, GATT server, update service |
| JSON-RPC router (`jsonrpc.go`) | table of methods | `CallRaw`: one goroutine per call | secured RPC service |
| Access point, upstart (`AccessPointManager.go`, `UpstartJob.go`) | job `hostapd-ap0`, the chain INPUT of iptables | start, stop, the firewall hook | main loop, start-up, `hostapd-ap0.conf` |
| Encryption (`simpleaes.go`) | none | `encrypt`, `decrypt` | secured RPC service |
| Pairing UI (`PairingUI.go`, `directPairingUI.go`) | none, or the LED layout | display RPCs of up to 15 s | led-controller over MQTT |

What makes each correct:

* *Reset button*: nothing is carried out but what was chosen, after the whole
  grace period, and not if the user cancelled; a choice is always resolved.
* *Main loop*: with the network down for long both pairing services are open;
  with it up for long both are closed; no flag is left behind.
* *WifiManager*: each watcher hears each state once and in order; a watcher that
  is gone is not written to; the answer to the app is about its own network; the
  factory-reset exit waits for the acknowledgement.
* *Secured RPC*: the code on the display is the one in force, if the display was reached; a wrong attempt
  ends a code; nothing is served before verification, nothing twice; each
  response is encrypted under its own IV and reaches its client.
* *Transport*: what is delivered is one message, whole; the write handler never
  blocks for ever.
* *Heartbeat*: at most one heartbeat, none while the reset display is on, and the
  display is taken back as long as the button is at rest.
* *Update progress*: no client hears of an update older than the one it started, the end of
  an update is not lost, and the BLE server is not given up while an update runs that a client knows of.
* *Firewall*: an access point that is on lets through what the setup needs, or is configured
  to be open, whatever fails or dies on the way.
* *BLE start-up*: the interface is up when the start-up goes on, and is not left down.

The hard behaviours are in PROJECT.json `hazards`, each at its line.

## 2. Modules and plan

| # | Module | About | Status |
|---|---|---|---|
| 1 | `ResetButton`, `ResetPolicy`, `ResetButtonProofs` | the reset button; what it promises its user; proofs | done |
| 2 | `PairingSupervisor`, `PairingSupervisorProofs`, `PairingTimingProofs` | the main loop, both pairing services, time; proofs | done |
| 3 | `WifiManager`, `MCWifiManager`, `WifiManagerProofs` | watchers, `SetCredentials`, acknowledgement; proofs | done |
| 4 | `SecuredRPC`, `OneTimeCode`, `SecuredRPCProofs` | the pairing service; what a one-time code promises; proofs | done |
| 5 | `MultiWritable`, `MultiWritableProofs` | messages of many packets: losses, transfers given up, the notification goroutine; proofs | done |
| 6 | `ControlChecker`, `AccessPoint`, `EnsureBLE` | three components without an order of their own | done |
| 7 | `StartUp`, `StartUpProofs` | their composition: the start-up with the reset callback, the job of the access point and deaths of the process; proofs | done |
| 8 | `UpdateProgress`, `UpdateProgressProofs` | `lastUpdateProgress` between event, RPC and HTTP; proofs | done |

Every invariant and safety property of the passing runs is also proved. What would be worth adding: that
the findings go away under their repairs (a `Stop` that is looked at, a stop of the access point that
checks the flag), as proofs about variants of the actions.
`ChunkWrite` and the padding of `simpleaes.go` are functions of their input without a state;
`WifiManager` and the main loop meet only in factory-reset mode, which `WifiManager` contains.

## 3. How the modules correspond to the code

Each action is one atomic piece of a goroutine: from one point where it may block
or touches a shared variable to the next. The names of variables are the code's;
`pc`, `handler`, `loop`, `at` say where a goroutine is. Variables whose comment
starts with "history" are not in the code. An operator whose name has a suffix
after an underscore (`StopAndReset_NoDrain`) is a plausible bug in the operator it
is named after; it is in no behaviour, and serves to show that a property would
notice the bug.

**ResetButton.** One goroutine samples the line, then waits for a tick or the
timer. `Transition` is `transition` with the `onEnter` of the state it enters. Time is
counted in sampling periods; a period ends only while the goroutine is blocked, in
the select statement or in the display callback. With the Go runtime of the time
`Timer.Stop` may return false before the timer's value is in the channel: `firing` survives
the stop and the drain, and the next state may take the value for its own timeout. The
history variable `stray` marks such a value, on its way or in the channel. `GpioFaults` lets the line
fail or hold garbage. `DisplayDelay` is how long the display RPC may block.
`ResetPolicy` is the user's view: choosing, pending, done; `Phase` and `Choice` are the
refinement mapping.

**PairingSupervisor.** Time is counted in periods of 5 s: `WirelessStaleTimeout` is 6,
the sleeps of 10 s and 20 s are 2 and 4, an RPC blocks at most 3. A period ends only when
no goroutine can run, so timers are exact and all orders within one instant are
explored, which is where the races are. Connected is handled in the order of `main.go:222-257`: `OnConnected`
forgets the timer and, if `badWifiMessage` was set, clears it and calls `EnableControl` (`ControlEnabled`, at most
15 s, its error is ignored); only then is `is_serving_pairer` tested (`TestsServing`), and cleared in a further step that
starts the goroutines of the delayed close and stop (`ClosesPairing`). While the RPC is out the
flag is as it was, and the handler, the serving goroutine and clients go on. `handleBadWireless` is the variable `handler`,
in the main goroutine at start-up and in the timer's later. Its test and set of the flag (`main.go:170-171`) are one step, since
all other writers write FALSE. The module assumes
`2 * RpcDelay <= StaleDelay`, true of the code's values: a handler is past its RPCs when the
next timer runs out (proved: `HandlersDoNotOverlap`), so one `handler` is enough. It also assumes that
both sleeps (10 s and 20 s, `main.go:244,253`) are shorter than the staleness (30 s, `main.go:22`): otherwise
a close scheduled by one Connected could hit the services that the next outage has opened. Two delayed closes that fall into the
same period are one, which does the same. The GATT server and wpa_supplicant are external;
`Always_Active` and `clients` (clients close the
server, advertising may fail) are chosen once, in `Init`; the link may go up and down at any time, but an event is only emitted while fewer than
`MaxEvents` wait.

**WifiManager.** The slice is modelled as Go has it: backing arrays, a length, `append`
that writes in place or copies to an array of twice the size, and a `range` that
evaluates the slice once and reads elements one by one. A call that collided may be sent a state before it listens,
so that its channel holds more than `due`; with four calls this happens, and reading then leaves `due` empty. `collided` records that a
call was between the append and the store of `WatchState` when another entered it or
`UnwatchState`. `MaxEvents` is below 128, so channels do not fill. `Init` is after `main.go:162`: the main loop's channel
holds the first disconnected. A client may acknowledge at any time (`wifi_setup_rpc.go:107`), before any call has succeeded too
(`acked = "early"`). The main loop
is in factory-reset mode: it exits once connected.

**SecuredRPC.** Handlers are called one at a time by the GATT server; a response has a
goroutine of four steps (count, encrypt, pack, send: `ble_secured_rpc_service.go:247-258` reads `last_dec_iv` once to
encrypt and again for the header), and who finds the queue full waits on that queue even after a reset has replaced it; a subscription one of two (look at
`Done`, wait for a response). Codes, SRP sessions, keys and queues are numbered by
`session`; `DisplayPairingCode` may fail or time out, which `PairIntent` does not look at (`Shows`); that `ComputeKey` and the authenticator match only for the right code is SRP's
promise and taken as given. `log.Fatal` in `BytesAFatal` and the respawn by upstart are
one step. `OneTimeCode` is the abstract specification.

**MultiWritable.** The write and subscription handlers are called one at a time by the GATT
server; each runs up to where it may block (`Receive`, `Subscribes`), then loads the variable
`offsetReqChan` and sends, two steps as in Go, where a send on nil waits for ever. The reader
of a subscription has a step for `Done`, for the load, the receive, the notification and the
final store of nil. A byte is the number of the message it belongs to. The client may send any
packet of its message at any time, which covers packets lost, repeated and cut differently,
and may give up a message; it stays within its own protocol in that the last packet, and only
it, is marked final. A message longer than the buffer makes the code panic; upstart starts
the process again (`Panics`).

**StartUp** composes three modules that declare their own variables and operations and leave the
order to it. `ControlChecker`: `StartHeartbeat` and `StopHeartbeat` run under a lock and are one step each; a
goroutine of a start waits for a tick, tests `state`, stores it and calls, three steps
without a lock. Its first look at `ticker` is taken to happen before the next start. A
stopped ticker keeps the tick its channel holds. `AccessPoint`: `/sbin/start` runs the
pre-start script, which runs this program again with `-firewall-hook`. Nobody reads the chain
while the script runs, so its commands are one step that ends with all rules or with any
part of them (`Broken`). The policies the hook sets are the kernel's defaults. The job
outlives the assistant. `EnsureBLE`: the polling goroutine without its sleeps; the device may show up late
and be ready later. `main` takes one value per stretch of `main()` between calls that
matter to the others; `MakesChecker` is the line from which on the callback is served. `Supervises` stands for the
access point control that `PairingSupervisor` models in full. `Restarts` is a death of the process at any point,
from `log.Fatal` or a panic, and upstart's restart: variables start anew, the job, the chain and the interface
stay, and the assistant's own pre-start script takes the interface down and up.

**UpdateProgress.** The update service and the bus are external: one update at a time, messages in order, a call may
be refused or answered after the caller has given up. The RPC router calls a handler in the BLE
server's goroutine, so RPC handlers exclude each other; HTTP handlers have goroutines of their own, of which the model has
one. `Sends` and `Decides` are the first and the last read of `lastUpdateProgress`; `get_update_progress` over
HTTP only reads, and is not an action. Clearing the variable and answering the client is one step. Updates are numbered
to tell whose progress a client is given.

## 4. Runs

| Run | Shows | Expect |
|---|---|---|
| `ResetButton` | all safety, action and liveness properties with a prompt display; grace cut short by a stray timer value only | pass |
| `ResetButtonFaults` | refinement of `ResetPolicy` with every fault | pass |
| `ResetButtonTimerRace` | grace skipped through a stale timer value | violation |
| `PairingSupervisor` | both services open when needed and closed when not, with and without always-active and clients that close the BLE server | pass |
| `PairingSupervisorLockout` | no network at all | violation |
| `WifiManager` | two overlapping calls of `SetCredentials`: watchers, exit | pass |
| `WifiManagerCallback` | acknowledgement lost | violation |
| `SecuredRPC` | code, requests, readable answers, notifications; refinement of `OneTimeCode` | pass |
| `SecuredRPCResponseIV` | an IV used twice | violation |
| `MultiWritable` | messages whole and unmixed, the client told where to resume, handlers that return | pass |
| `StartUp` | heartbeat, firewall and BLE interface through presses, failures and a death of the process | pass |
| `UpdateProgress` | what clients are told of an update, and that the BLE server is kept for a running one | pass |

The four violations are findings of PROJECT.json. One more divergence has no run, since it is a table against a sentence: README.md:10
promises a reboot for a short press, and the first mode of `modeCycle` is `halt`.

**Conditions in the properties.** Some properties of the passing runs name a
condition under which the code keeps its promise, as a history variable or a
constant. The condition is part of the result, since the model reaches the states
outside it and there the promise is broken:

* `PressHonoured` is checked with a display that answers within a period. With a display
  RPC that blocks for longer than the grace period (`PairingUI.go:225-228` allows 15 s)
  a second press is not sampled before the timeout, and the choice is committed.
* `stray` in `TimerFaithful` and `GraceCutByStrayOnly`: the value of a timer that `Stop` came too late for. Without
  the excuse the promise is `GraceNotSkipped`, which `ResetButtonTimerRace` refutes.
* `overtaken`: `handleBadWireless` runs in the timer's goroutine and has two RPCs
  between the flag (`main.go:171`) and the access point (`main.go:201`). If Connected is handled
  in between, it clears the flag and schedules a stop that is over before the
  start: the access point stays on while connected, and `badWifiMessage` stays set.
  `PairingOnlyWhenNeeded` asks that no Connected has done so (`"never"`), `AccessPointUnlessDisturbed` that not both this
  and a client have disturbed; `MessageCleared` excuses the last Connected only (`"last"`), since a
  later one clears the message. None of them speaks of the display: `EnableControl` may fail (`main.go:236`), and an icon shown
  with no network configured (`main.go:183-186`) stays without that call.
* `~clients`: a client that closes the BLE server before the network connects makes
  the serving goroutine clear `is_serving_pairer` (`main.go:195`), and Connected then skips the
  branch that stops the access point. With both disturbances there may be no network at
  all (`PairingSupervisorLockout`).
* `~collided`: two calls that meet in `WatchState` append into the same slot, and the
  call whose channel is lost never returns; an `UnwatchState` between another call's
  append and its store writes to the array just left, and the channel stays in the
  slice.
* In `ExitAfterAck`, a call that has failed, or an acknowledgement before any success: each clears
  `ackPending` for all calls (`WifiManager.go:96,156`), and the process exits without waiting.
* `~unshown` in `CodeOnDisplay`: when `DisplayPairingCode` fails (`ble_secured_rpc_service.go:115` ignores it) the old code, or
  none, stays on the display while the exchange goes on with the new one.
* `lapped` in `AnswersReadable`: a response that another was counted before it was packed has the other's IV in its header, and
  the client cannot decrypt it. The property is about requests of the session in force; a response to a request of a session
  before may be sealed with the new key, or end in the new session's queue.
* `Listener` in `ResponsesNotified`: after `resetState` the goroutine of an old subscription waits
  on the queue of the session before (`ble_secured_rpc_service.go:267`); a client that pairs again
  without subscribing again is sent nothing. `Straggler`: the goroutine of a subscription that is over
  but has not woken yet takes one response from the queue and drops it.
* `~leftover` in `Intact` and `Resumable`: `expectedOffset` is reset by nothing but a complete message,
  not even by a new connection. After a transfer that was given up half-way the next message may be
  handed over with the old one's first bytes, and one that is shorter than what is left over
  is never complete. `Resumable` is about messages that fit the buffer: a longer one may wait for ever for an offset that
  the device refuses (`ble_utils.go:125`), or end in the panic of line 142.
* `~crossed` in `ToldWhereToResume` and `HandlerReturns`: the reader of a subscription that is over
  stores nil in `offsetReqChan` when it next wakes. If a new subscription has stored its channel by then,
  its offsets are lost; if a handler has tested the variable by then, or waits for room in the
  channel, it never returns, and the GATT server stands still.
* `restartHeartbeat` in `HeartbeatFollowsDisplay`: a button that is held while main comes to line 214 has
  been called back for before there was a heartbeat to stop. The one main starts then runs
  behind the reset display until the next mode is shown.
* `~gaveUp` in `InterfaceUp`: `EnsureBLEIsUp` goes on without the interface after its timeout.
* `~wiped` in `ProgressNotLost`: a handler that is slow between the reply and the line that clears `lastUpdateProgress` clears
  progress of the update it has just started, or of a later one.
* `KeptOpenForUpdate` has no such condition, and says less than line 173's comment: `get_update_progress` reads the
  variable again to decide, and what comes in between makes it close the server for an end it did not send, or not close
  it for one it did. What it never does is give up the server while an update runs that a client knows of.

**Bounds.** `ResetButton`: the delays keep the order of the code's (abort < selection,
safe grace < dangerous grace); one period more or less changes nothing, as a state only
distinguishes "running" from "expired" and the theorems hold for all delays. In
`ResetButtonFaults` the display blocks longer than the selection and the grace period of halt and reboot.
`PairingSupervisor`: the delays are the code's own; `MaxEvents = 3` lets two events be queued
behind one that is being handled; `Settle`, the time a settled state has had to react, is five RPCs and a
staleness (5 * 3 + 6 = 21 periods): two RPCs at startup and one EnableControl before the loop
receives the last event, the staleness, and the two RPCs of the handler. The bound is sharp: with
`Settle = 20`, the assumption lowered to match, and the same `MaxEvents`, TLC finds `AccessPointUnlessDisturbed` violated. `WifiManager`: two calls are
enough for every race of the slice (a lost append, a nil written to an old array) and for
one call to clear another's `ackPending`; three events make connected, refused and
disconnected interleave; the calls are symmetric. `SecuredRPC`: two
sessions show everything one session can leave to the next; two IVs are enough for an order and
a repetition; with a queue of one, full and empty are both reached. `MultiWritable`:
messages shorter than the buffer, as long, and longer, in packets of one or two bytes; two messages
show all one can leave to the next, and two subscriptions are what can cross. That longer messages bring nothing new is
what the theorems say. `StartUp`: three starts of the heartbeat and two presses let a left-over goroutine meet
a new one twice; one death shows all that one life can leave to the next. `UpdateProgress`: two
updates, a call of each client and one more, and three messages are enough for a late reply, a
stale progress and a refused call at once; the theorems hold for any number.

**Deadlock.** `WifiManager`, `SecuredRPC`, `MultiWritable`, `StartUp` and `UpdateProgress` are checked without: the first ends with the exit
of the process and when `MaxEvents` is used up, the second at the bound
`MaxSessions`; in the third a handler that waits for ever is a state the code has (`crossed`). `StartUp` and `UpdateProgress` end when
their bounds are used up. The other runs check it.

**Fairness.** `ResetButton`: the goroutine runs when it can, periods pass, timers are sent;
nothing makes the user press or release the button, and the properties speak only of
states that the program must leave by itself. `SecuredRPC`: the goroutines of responses and
subscriptions run when they can; the client owes nothing, so `ResponsesNotified` does not ask
for its calls. `MultiWritable`: the same, for handlers and readers. `StartUp`: running tickers tick, the heartbeat's goroutines run,
and EnableControl answers, fails or times out; nobody has to press or release the button. `PairingSupervisor` needs none: its properties about "eventually"
are stated as invariants of settled states, in which all timers that were running have
fired.

## 5. Proofs

TLAPS checks all of these for every value of the constants.

`ResetButtonProofs` (for all delays):

* `TypesCorrect`, `ChoicesConsistent`, `OutcomesCommitted`: under all faults, from one lemma.
  The inductive invariant `Safe` adds `Committing`, which ties the goroutine's place to the
  state `commit`: without it a helper could return in any state.
* `TimerAlwaysFaithful`: the time spent and the time left add up, and a value on its way or in the channel means a timer at 0,
  unless it is `stray`. No assumption on the runtime.
* `GraceCutShortByStrayOnly`: the action property, from the two above: in grace a value that is not stray
  implies a timer at 0, hence an age equal to the grace period. So the race of finding `ResetButtonTimerRace` is the
  only one of its kind.
* `PressesHonoured`: with a prompt display and a sound line a press not yet sampled is at most a period old, and the tick
  that will have it sampled is waiting (`PressSeen`); so a press of two periods is never
  passed over by the end of the grace period, even when that comes too early.
* `ResetButtonImplementsPolicy`: refinement, step by step; it needs that the pendulum is at
  0 when at rest (`RestAtStart`), and that no harmless mode is followed by a factory
  reset (`PendulumIsGentle`).

`PairingSupervisorProofs` (for all delays, any number of events):

* `TypesCorrect`: inductive by itself; a period ends only when nothing at 0 is left to run, so
  no timer or delayed call runs below 0 and no RPC over its limit.
* `FlagNeverStuck`: the flag always has an owner (`FlagHasOwner`), the handler on its way to
  start the goroutine, that goroutine, or the server.

`PairingTimingProofs` (for all delays, with both sleeps shorter than the staleness, and any number of events) follows
an event of the link from the moment it is sent. In the invariant, `since` counts from the last change of the
link:

* `TimeInv` bounds `since` plus what is left to do at each stage. An event that matters is received within
  three RPCs (`QueueOnTime`); a timer it starts runs out one staleness later (`TimerOnTime`); its handler
  is over after two more RPCs (`HandlerOnTime`); a Connected is through with EnableControl and the flag (`LoopOnTime`) and the
  delayed closes end (`DelayedOnTime`) in time as well, though they start only after that RPC. The
  stages connect through `LastEvent` (the last event, waiting or received, is about the link as it is),
  `LoopTimer` (no timer while the loop cannot receive) and `ConnectedIsNew` (the loop is free while
  a timer counts, so a Connected that still waits was sent this instant).
* `SettledIsQuiet`: so in a settled state nothing waits, no handler runs and no close is outstanding; with the link down
  the timer has fired, and with it up the flag and the message are cleared (`Quiet`).
* `Owned` says who keeps each service open or is about to close it, `Held` what the flag and the delayed stops
  mean for the access point: the handler that finds the flag set finds the access point up or on its way,
  unless Connected overtook the handler or clients closed the server (`FlagHoldsUnlessOvertaken`, `FlagHoldsUnlessDoomed`).
* `Alone`: as long as no Connected has overtaken the handler, none runs between the two halves of a Connected, so no flag it
  sets is cleared by the second half. `CheckUndelayed` keeps the delayed calls apart from the check of the next handler.
* `MessageIsCleared`, `PairingClosesAgain`, `PairingIsOffered`, `AccessPointIsUp` follow in a settled state. They are
  what the code can promise of "eventually", with the time it takes.
* `HandlersDoNotOverlap`: what is left of a handler's RPCs is never more than what is left of a running timer.

`WifiManagerProofs` (for any number of calls of `SetCredentials`, any events):

* `NoOrphans`, `AllWatchersHear`: from `WatchInv`, which says that until two calls collide the slice a call
  is about to store is the present one and itself (`OneJoins`), who is in the slice is served
  (`Members`), nobody has two slots (`Distinct`, `Fresh`), who listens has one (`Sits`), an emission runs over a
  slice no longer than the present one (`EmissionFits`), and what is due to a listener is what its
  channel holds and the state it is still to be sent (`Hears`). Since `collided` never
  becomes false again, the steps of a collision need no proof. The lemmas before are about Go's `append`.
* `TypesCorrect`: collisions included. The slices that calls have in hand lie within their arrays
  (`JoinFits`), and so does the slice of an emission (`EmitShape`), since arrays never shrink (`Grown`).
* `ExitsAfterAck`: `ackPending` is set from a call's start on, unless the app has acknowledged or
  a call has failed (`Awaited`), or did so too early.

`SecuredRPCProofs` (for any number of sessions, IVs, subscriptions, any queue size):

* `PairingInvariant`: `CodeOnDisplay` and `RequestsOnce` strengthened by `IVUnused`
  (the count is 0 until the client is verified, so verification's own reset of the IVs changes
  nothing), `ServedUpToIV` (what was served in this session has an IV that counts as used) and `KeyOfSession` (after the exchange the key is this session's).
* `CodeInForce`, `RequestsServedOnce`: its consequences.
* `AnswersAreReadable`: from `AnswerInv`, which follows the goroutine of a request of the session in force: while it is under way
  the client stays verified, so it finds the session's key; from encrypting on, `last_dec_iv` is the IV it
  was sealed with unless it was lapped. A request of a later session has no goroutine yet (`NoneOfLaterSession`), so a reset
  leaves nothing to show.
* `TypesCorrect`: a counting argument. Who has a goroutine was served, so no request gets a second one
  (`StartedWhenServed`); every goroutine counts once, so `last_dec_iv` is at most the number of those that have
  (`CountedOnce`), however often it is reset in between.
* `RespondedOnce`: no goroutine starts over, so no request is answered twice.
* `SecuredRPCImplementsOneTimeCode`: every step is a step of `OneTimeCode` or invisible.

`MultiWritableProofs` (for buffers, packets and messages of any size, any number of subscriptions):

* `TypeCorrect`: `TypeOK` is not inductive alone; it needs that a reader about to notify has an offset in
  hand, and not 0xffff (`NeverNotifiesWhole`).
* `MessagesIntact`, `BytesUsedOnce`, `AlwaysResumable`: from one invariant, `BufferInv`. It says that
  what lies below `expectedOffset` belongs to the present message (`OwnPrefix`) and was written
  since the last one (`NothingTwice`), and that the message is at its end exactly when the handler is
  about to answer `Whole` (`Progress`): a final packet that does not continue the prefix cannot end
  where the prefix ends, since the prefix is shorter than the message. With a message that fits the buffer, that offset is also in
  the buffer, and so not refused.
* `ToldRight`: `ToldWhereToResume` from `ToldInv`. Unless `offsetReqChan` was crossed, the handlers write to and
  every reader reads from the channel its own subscription made (`ChannelsKept`), and the reader of the subscription
  in force has not left its loop (`ReaderServes`); so what is under way stays in order, handler, channel, reader,
  and the last of it is the offset expected now (`LatestIsCurrent`).

`StartUpProofs` (for any number of heartbeats, presses and deaths):

* `TypesCorrect`: needs that the goroutines of starts to come are not there yet (`NotStarted`).
* `OnlyOneHeartbeat`, `DisplayRespected`: from `HeartbeatInv`. `TickerFromLoop` says that nothing
  starts a heartbeat before main has, `RunsAtRest` and `StoppedWhileShown` that a heartbeat runs exactly
  when the last callback has left it running; so each start finds none.
* `AlwaysConfined`: each step of the composition is a step of the job or none of it (`JobSteps`), and the
  rules, when complete, accept what they should (`RulesConfine`).
* `InterfaceLeftUp`: only the goroutine takes the interface down, and it ends only when it has seen it up.

`UpdateProgressProofs` (for any number of updates, calls and messages):

* `TypesCorrect`.
* `ServerKeptForUpdate`: from `RunningInv`. While an update runs, its progress says so wherever it is found, in
  `lastUpdateProgress` or on the bus (`StillRunning`); and by `ReportIsCurrent` the variable is empty or not older than what
  a client knows. So what `Decides` finds finished is never of, or before, a running update that a client knows of.
* `ReportsAreCurrent`: what is on the bus is sorted by update (`BusSorted`, `BusUpTo`) and not older than what a
  client knows or is about to be told (`KnownUpTo`, `KnownBefore`, `AcceptedStored`).
* `EndIsNotLost`: the end of the latest update is on its way (`EndOnItsWay`) or stored (`EndKnown`).

The assumptions are the named `ASSUME`s of the modules: delays are positive, those of closing shorter than staleness,
a staleness at least two RPCs and `Settle` at least five and a staleness, bounds are
numbers, offsets have fifteen bits, the calls are finitely many and none is the main loop. `PressesHonoured` also assumes a
prompt display and no fault of the line; a display that blocks longer than the grace period breaks it. Only model-checked is liveness (`PhasesEnd`, `EveryModeOffered`, `HandlerReturns`, `ResponsesNotified`,
`ControlKept`), which the prover cannot do.

## 6. Not modelled

* The timeout of 15 s in the HTTP handler of `connect_wifi_network`: its call of `SetCredentials` goes on, and is one of
  the model's; the answer the client has been given is nowhere read again.
* `ChunkWrite`, the padding of `simpleaes.go`, and lengths of messages in `SecuredRPC`: functions of their input.
* RPC and HTTP handlers that only read (scanning, addresses, ping) or draw.
* JSON, HTTP status codes, reading configuration, drawing on the LED matrix, UUIDs, build and packaging:
  pure I/O or constants without a state.
* SRP, AES, the GATT library, wpa_supplicant, hostapd, upstart, iptables and the update service are external and modelled by
  what the code relies on.
