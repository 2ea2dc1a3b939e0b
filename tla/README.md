# Hue Entertainment Bridge: a verification project

TLA+ models, TLC runs and TLAPS proofs of `custom_components/hue_entertainment`, a Home Assistant
integration that poses as a Hue bridge: a TV pairs over REST, streams HueStream frames over DTLS, and
the bridge follows them on Zigbee lights as fast as the radio allows. `PROJECT.json` lists components,
runs, mutants, the map from definitions to source lines, findings, hazards and theorems.

    tlc -config EngineStream.cfg MCEngine.tla      # a run; PROJECT.json names module and cfg of each
    tlapm EntertainmentEngine_proofs.tla           # a proof module

## 1. Inventory

| Part | State | Operations | Talks to |
|---|---|---|---|
| `EntertainmentEngine` (entertainment.py) | session flag and snapshot, pause and release with their timers, one slot per light, drain task and flag, wake event | frames, classic commands, snapshot, restore, pause, resume, release, timer callbacks, drain loop | lights and states of Home Assistant, sensors through `_notify` |
| Session control (`__init__.py`, `hue_api.py`) | stream flag and owner, watchdog task | stream start and stop of the TV, frame watchdog, services | engine |
| `FrameMailbox` | newest frame, scheduled flag | `put`, `_deliver` | DTLS thread to loop to engine |
| `DTLSPSKServer` | thread, socket, SSL context, running flag | start, stop, accept, handshake, read | TV, mailbox |
| Pairing (`hue_api.py`, `config_flow.py`) | link button window, temporary server, poll task | `POST /api`, config flow, options flow | `UserStore`, entry |
| `UserStore` | users in memory and on disk | load, add, save, lookup | HA's Store; DTLS thread reads it |
| `HueHttpHost` | attached server | attach, detach, dispatch | API servers |
| Entry lifecycle (`__init__.py`) | runtime objects, listeners, what a start or a stop awaits | setup, deferred start, retry, reload, unload, shutdown | all of the above |
| `HueBridgeDiscovery` | the registered service | register, withdraw | entry, zeroconf |
| HueStream parser (`parse_huestream_frame`) | none: a datagram and the mappings | header, channels of either version, channel to light | mailbox before it, engine behind it |
| Sensors | what they last wrote, attributes included | a refresh at every `_notify` | read the engine |
| REST data and catch-alls, diagnostics, OpenSSL bindings, forms | none of their own that others read | reads, one registration each | |

All of it runs on one asyncio loop except the DTLS thread (and executor threads for its join and for
files). What is hard: coroutines that interleave at every `await` of a teardown; tasks cancelled in the
middle of an awaited restore; timers of pauses and releases that supersede each other; frames on their
way through the loop while the server stops; an idle exit that races the next command; saves that
overlap, crash or outlive a reload; flows that are dropped half-way. Correctness, part by part:

- engine: nothing is queued or sent while suppressed; timers never outlive what armed them; the drain
  flag is honest; one command at a time; no lost wake-up, no starved light; the newest colour is shown;
  lights return to their scene; pause, resume and release keep their contract.
- parser: what arrives whole of a datagram, and nothing else, reaches the right light, in both versions.
- slot: no drift from the picture, merged commands add up, the right colours snap and fade.
- session control: the API agrees with the engine; exactly one watchdog while a session runs; a silent
  session and a release end, in bounded time.
- hand-over: its flag and the queued callback agree, the newest frame wins, each is counted, bounded backlog.
- entry: nothing outlives it, inputs stop before the restore, the bridge comes up after a failed bind.
- DTLS server: a stop returns, the thread is gone, no frame follows, the context outlives its use.
- pairing: a paired TV stays known, one credential per TV, port 80 leads to the living server.

## 2. Modules

| Module | Models | Correspondence |
|---|---|---|
| `EntertainmentEngine` | the class | an action is the code between two awaits; `drains[t]` and `restore[c]` say where a coroutine is suspended; methods keep their names |
| `SessionControl` | `_set_entertainment_active`, the callbacks and the watchdog, release service | EXTENDS the engine and calls its actions where the source calls the methods |
| `SessionTiming` | the clock: frame times, polls, grace timer | whole units of time; the teardown is the synchronous part |
| `FrameMailbox` | the class by itself, `put()` on the DTLS thread as its comments intend; proofs only | a lock section is a step; refines `FreshestRegister`; the program calls `put()` on the loop, and that hand-over is in `DtlsServer` |
| `FreshestRegister` | abstract: a register that keeps the freshest frame | |
| `DtlsServer` | `_serve_loop` step by step, `async_start`, `async_stop`, the loop's queue, the mailbox as `async_setup_entry` wires it | `ready` holds what other threads queued on the loop, in order |
| `PauseContract` | abstract: what pause, resume and release promise | who drives the lights, what is on the radio, whether there is a state to restore; refined by the engine |
| `SessionContract` | abstract: a session, its silence, a release and its grace, without clock and lights | refined by `SessionTiming` and by the engine, so that the bounds of the one are about the session of the other |
| `LightSlot` | one `LightMapping` with the numbers of frames and the fields of bodies | `_schedule_update`, `_v1_state_to_service_data`, the merge in `handle_light_command` and the transition in the drain loop, one action each |
| `HueStream` | `parse_huestream_frame` and the channel numbers, byte for byte, against the TV's own encoding; operators only | offsets count from 0 as in the code |
| `StreamSlot` | from a datagram, whole or cut short, to the slot of one light | EXTENDS `LightSlot` and `HueStream`; calls `handle_frame` with what the parser makes of the bytes |
| `EntryLifecycle` | `async_setup_entry`, `_async_start`, `_async_stop`, `async_unload_entry` | EXTENDS `DtlsServer` and calls its `async_start` and `async_stop` where the source does; `starter` and `stopper` say what is awaited |
| `Pairing` | `POST /api`, flows, stores, setup, reload, crash | an instance is one API server with its store |
| `MCEngine`, `MCControl`, `MCSlot` | symmetry, pictures and bodies for TLC | |
| `*_proofs` | theorems | |

Conventions. Colours are model values, pairwise out of tolerance; `Dark` holds those that are within
tolerance of the mark for nothing sent, so that a first dark frame is dropped as in the code. `Bodies`
are the kinds of light-state bodies that `handle_light_command` tells apart. `Faults` switches faults of
the environment on. `Overlap` says in which phases of a teardown the TV may send requests: with `{}` it
waits until a teardown is done, with `draining` and `restoring` it does not; the runs that need the first
say so, and section 4 tells what the second does to them. `EntryLifecycle` has an `Overlap` of its own: whether
an unload or a shutdown may come while a start waits for zeroconf; `Hosted` says whether the REST API lives on
Home Assistant's HTTP server (the run has it on its own, section 4 tells what the other does). `FirstChannel` is the
channel a v2 TV uses for the first light: 0, by the comment in `__init__.py`:191. Definitions marked "Mutant" are bugs a run
must catch; nothing uses them.

## 3. Runs

Every property of a passing run has a mutant it catches.

| Run | Question | Bounds, and why they suffice |
|---|---|---|
| engine_stream | wake-ups, starvation, freshest colour and restore over two lights | two lights: order and starvation between slots need two; one dark and one bright colour; pauses and resumes |
| engine_sequential | suppression, honest drain flag, one command at a time | one light, all kinds of bodies, failing calls and restores, unavailable lights, starts during a restore; two task identities: one ending while the next begins |
| session_overlap | timers, release, sensors, snapshot, API flag, watchdog and the contract of pause and release under any interleaving | two watchdogs and a stop request, so three teardowns at once; two drain tasks; starts in every phase of a teardown |
| control_liveness | a session is watched; releases, silent streams, teardowns and drain loops end | the TV waits for teardowns; fair coroutines and timers; frames that count as life but carry no colour, and classic commands |
| timing | bounds on silence and release, no false timeout | constants of `const.py`; grace 0 (default), short, long |
| lifecycle | nothing outlives the entry, inputs stop first, the bridge comes up; stop, join, late frames, context, reconnection of its DTLS server; the flag of its mailbox | three queued callbacks before the join's result; one session request at a time; immediate and deferred start, failing bind and handshake |
| light_slot | what of a datagram reaches the light; drift, merging, transition | two lights and frames of up to two channels, in any order; version 1 and an unknown one (version 2 is the violation run `stream_channel_zero`); datagrams cut on both sides of the end of the name, of the header and of each channel; pictures within and across each tolerance and the dark; bodies with one and with several fields; limits 1 and 3 of the transition, so that both clamps bite |
| pairing | paired TVs stay known, one credential each, reachability | own HTTP server; two TVs, two credentials each, three servers per run of Home Assistant, crashes, abandoned flows, foreign program on port 80 |

Bounds in guards: `Backlog` (callbacks on the loop), `Pairs` (credentials per TV) and
`Instances` (servers per run of Home Assistant; a crash starts a new run). Runs of `Pairing` do not check
deadlock: they stop at those bounds. Identities of tasks and callers are reused
once free. `SYMMETRY` permutes task and caller identities, in safety runs only.

Fairness. `WF` of a coroutine's step: asyncio runs what is ready and an awaited service call returns
(each light call is bounded by Home Assistant, the restore by `RESTORE_TIMEOUT`); of timers: `call_later`
fires; of the DTLS thread and of time: blocking reads return after `poll_interval`. The TV is never fair:
it may fall silent at any time. In
`lifecycle` Home Assistant comes to the end of its start, carries out a reload it has scheduled and retries a
failed setup; it unloads or stops when it likes, and other programs take the port when they like. In `control_liveness` the quiet clock is fair only while a forced release
freezes `last_frame_time`.

## 4. Disagreements with what the repository says

Four are violation runs; `findings` in PROJECT.json quotes the line and names the cause.

- `control_start_during_stop`: a session that starts while the watchdog tears one down has no watchdog.
- `dtls_backlog`: `async_start` replaces `loop=None` by the running loop, so every frame is one callback
  that runs `put()` on the loop, and a stalled loop does accumulate a backlog.
- `pairing_known_tv`: pairing a known TV again is always reported as not paired.
- `stream_channel_zero`: channel 0 of a v2 frame has no light, and every other one goes to the light before the one
  that a TV counting from 0 means, although `__init__.py`:191 says that both numberings are mapped.

The models show these as well; no run is kept for them. Each names what to change to see it.

- Lights do not return to their scene when the TV starts a session during a restore: the new session takes the
  half-restored lights for the scene (entertainment.py:483), contrary to README.md:52: `LightsComeBack` with
  `"restoring"` in `Overlap` and one colour.
- A release during a restore discards a snapshot that is no longer there, and the restore goes on over what the
  caller set (entertainment.py:538).
- A restore that resumes clears the flag of a drain loop begun meanwhile, and two loops send at once
  (entertainment.py:526): `DrainRunningIsHonest` and `OneCallAtATime` with `"draining"` in `Overlap`.
- A stop of the TV cancels the watchdog while it restores, and the lights stay as they are
  (`__init__.py`:262): `LightsComeBack` under `ControlSpec` with one colour.
- A failed call of a still picture is never repeated (entertainment.py:769): `LightsShowFreshest` with
  `"call fails"` in `Faults` and two colours.
- A stream colour inherits the explicit transition of a classic command queued before it
  (entertainment.py:904), and a reset leaves that flag set: the first frame of a session may then be sent without
  any transition, contrary to the comment in line 765: `SnapsAfterReset` without `~slot.explicit`.
- An `xy` and a `ct` of two requests merged into one slot make a call that Home Assistant refuses
  (entertainment.py:833), where lines 806-808 promise that the lights just follow: `LightFollows` with a `"ct"` body.
- A tweak sent while a `turn_off` is on the wire, no longer in the slot, turns the light on again, which the
  comment in line 831 calls moot; the history variable `asked` has it as `"moot"`.
- A dim XY frame (below 129 of 65535) is sent as brightness 0, which turns the light off (line 872); RGB has "at
  least 1 to keep the light on" (line 896).
- A shutdown, or an unload of an entry with a deferred start, while `_async_start` waits for zeroconf leaves the
  advertisement behind, or the servers: the stop listener is not registered yet. A registration that fails
  (`__init__.py`:338, outside the `try`) leaves both servers running: `NothingOutlivesEntry` with `Overlap = TRUE`.
- A release lasts up to one watchdog interval longer than entertainment.py:623-624 and docs/pause-release.md:107 say,
  for the watchdog may have looked just before the timeout: `ReleaseBounded` without its `WatchdogInterval`.
- A DTLS port in use is only logged by the thread (server.py:187), after `async_start` has returned, where
  `__init__.py`:331 expects an exception: `Binds` ends the thread with `caller = "started"`.
- A stop before the thread has its socket leaves it open (server.py:113): `caller = "stopped"` with
  `sock = "open"`.
- A dialog closed while the flow polls leaves the temporary server on port 80 (config_flow.py:90): the
  next `OpenPairing` ends in `port_in_use` though no other program is there.
- On Home Assistant's HTTP server a reload may overtake the save of a new credential (ha_http.py:112):
  `PairedTvIsKnown` with `Hosted = TRUE`. `LoadedIsReachable` holds there, too.
- There, too, a stop of the API only ends the forwarding: a start that a handler has in its hands begins a session
  while an unload restores the lights, contrary to `__init__.py`:405-406: `InputsStopFirst` of `EntryLifecycle` with
  `Hosted = TRUE`.
- Seen in reading, not modelled: `mac_from_bridge_id` (config_flow.py:72) removes every `FFFE` of the bridge ID, not
  only the one in its middle, so that about one bridge in eleven thousand gets a MAC of fewer than six octets.

## 5. Proofs

Eight modules, every leaf checked; constants are arbitrary under the named assumptions of the modules.

- `EntertainmentEngine_proofs`. Its lemmas are about `StepsSpec`, the engine that may also abandon a restore at any
  time, so that they hold of the engine alone and under control. `Inv == Suppression /\ SlotsOK /\ DrainsOK /\
  NothingQueuedWhileSuppressed`. That nothing is queued while suppressed is not inductive alone: a suppression must
  not begin with a dirty slot (the flush) nor end by a stray timer, so `Suppression` ties the armed timers to the
  handles held and the release to its resolver. From it: `TimersAreHeld`, `ReleaseIsResolved`, `NothingIsQueued`, and
  the action property `NoSendWhileSuppressed`. `FullInv` adds the types of flags, lights and teardowns, and the
  sensors' freshness: a status changes in a step that notifies or in one that leaves a teardown to. `TypeCorrect`,
  `SensorsAreFresh`, `SnapshotIsOwned`. `EngineKeepsContract` and `EngineKeepsSession`: every step of the engine is a
  step of `PauseContract`, and of `SessionContract`, or leaves its view alone. The second needs `Suppression`, too: a
  grace callback finds a release in its grace and no other.
- `EngineLoop_proofs`, for a TV whose requests do not fall between a teardown's cancelling of the drain task and
  the task's end (`"draining" \notin Overlap`). `OneLoop` says that `drainTask` names the only live task and that
  whoever waits for one waits for it: `DrainFlagIsHonest`, `CallsAreSingle`, `WakeupsAreKept`. Two further
  invariants need more of the environment, which each definition lists: `LightsFollow` ties slot, wire and lamp to
  the colour that counted last if the TV waits for teardowns, only streams, and no call fails (`StreamOnly`), and
  gives `NewestColourShows`; `SceneIsKept` says who holds the scene, lights, snapshot or a restore, if moreover no
  restore fails and no release is asked for (`NothingFails`), and gives `SceneReturns`.
- `SessionControl_proofs`. `ControlDrivesEngine`: every step of the control is one of `StepsSpec` or leaves the engine
  alone, whatever may fail. So each result about the engine is one about the whole: `ControlKeepsPromises`,
  `ControlSendsNothingSuppressed`, `ControlKeepsSensors`, `ControlledEngineTypes`, `ControlKeepsContract`,
  `ControlKeepsSession`, `ControlHasOneLoop` and `ControlShowsFreshest`, with the assumptions of the two modules above.
  `ControlImplementsEngine` is the refinement of the engine's own specification and needs
  `"restore fails" \in Faults`: a cancelled watchdog abandons its restore, which the engine alone does only as a
  failure. `ApiAgrees` (inductive with the engine's invariant), `WatchdogIsSingle`, `ControlTypeCorrect`. Two theorems
  say of a disagreement of section 4 that it is the only cause of what it spoils, by excluding that step and nothing
  else: a session is watched unless it starts while the watchdog named by the cell tears one down
  (`SessionIsWatchedUnlessTornDown`, any `Overlap`; `SessionHasWatchdog` is its corollary for a TV that waits), and
  the scene is back unless a stop cancels a watchdog in its restore (`ControlBringsSceneBack`, under `NothingFails`).
- `SessionTiming_proofs`. Inductive: `sinceFrame <= FrameTimeout + poll` while a session runs, and the age of
  a release follows its grace and the frozen frame time. `SilenceIsBounded`, `ReleaseIsBounded` and
  `TimeoutIsGenuine` hold for all values of the constants, not only those of `const.py`. `ClockKeepsSession`: the
  clock implements `SessionContract`, silence being a `sinceFrame` beyond the timeout.
- `FrameMailbox_proofs`, about the class between two threads, which is not how the program runs it (`dtls_backlog`):
  should `put()` ever be called on the DTLS thread, this is what it keeps. The scheduled flag counts the callbacks and the slot holds the newest frame unless
  taken. `CallbackIsSingle`, `FrameIsNotStranded`, `FramesAddUp`
  (nothing lost or counted twice), `MailboxRefinesRegister`.
- `StreamSlot_proofs`. `SlotInv` ties the slot, the wire and the lamp to the colour last queued, and `sent` to whether
  anything was sent since the last reset: `LightKeepsUp` and `FirstColourSnaps`, for every set of pictures and bodies.
  `Follows` looks ahead: what the light will show once the call and the slot are through is what was asked. It gives
  `CommandsAddUp` for bodies that name a colour in one way (`OneColour`), as section 4 says they must.
  `ParserDecodes` is about the parser: of a datagram of any version, colour space and picture, cut at any byte, it
  returns the channels that arrived whole, or refuses it as the code does. `StreamImplementsSlot`: what datagrams do to
  a slot is what `LightSlot` allows, so its theorems hold of the stream (`StreamKeepsUp`, `StreamCommandsAddUp`).
  `HearsEveryFrame` needs the parser, the numbering of the channels and that a frame names a light once. Its assumption
  `FirstChannel = 1 \/ 2 \notin Versions` makes it a theorem about version 1: a v2 TV counts from 0, and then
  `stream_channel_zero` has the counterexample. The bytes of version 2 are right all the same (`ParserDecodes`). With
  `LightKeepsUp` it gives `LightShowsWhatIsSaid`, from the bytes to the light, for the same TV.
- `EntryLifecycle_proofs`. First the DTLS server: `Order` says how the loop's queue starts, that the join is
  reported once, and that frames come before it: after the join no `put` can be queued behind the result, and its
  `deliver` comes before the wake-up. `ThreadIsJoined`, `LoopIsDrained` (every backlog), `ContextIsHeld`,
  `TypeCorrect`. Then the entry: `LifeInv` says what an entry has while it is starting or stopping and, if no stop
  overtakes a start, while it is unused, on top of `DtlsInv`, which a new server re-establishes and each step of the
  thread keeps. Without any assumption: `EveryServerKeepsItsWord`, `LifecycleTypes`, `NoFrameDuringRestore`, and
  `MailboxIsNeverWedged`, which counts the deliveries in the queue. `RestoreIsUndisturbed` needs `~Hosted`,
  `HostedEntryLeavesNoServer` needs `~Overlap`, `EntryLeavesNothing` both: the two together say that hosted or not
  only a request can outlive an entry whose starts are not overtaken.
- `Pairing_proofs`. `Reach` says who may get the requests and that a server of a flow is never the entry's;
  `Singles` that whatever a setup may merge has one credential per devicetype and that a disk that has been
  written has what the entry imports. From these, hosted or not: `TypeCorrect`, `BridgeIsReached`,
  `CredentialIsSingle`. `Kept` is the chain disk, snapshot being written, waiting snapshot, memory, together with a
  handler behind each snapshot of a loaded entry: an unload that waits for the handlers (`UnloadWaits`) therefore
  leaves no older dict to be written over the next setup's file. `PairingIsKeptByWaiting`: with such unloads, hosted
  or not, a paired TV is known; so the unload that overtakes a handler is the only way to lose it. A server of the
  entry's own waits (`StandaloneWaits`), hence, under `~Hosted`: `PairingIsKept`, `PairingSurvives` (what a crash finds
  on disk), `CredentialStays`, and the action property `FileOnlyGrows`.

Every invariant and every action property of the passing runs is stated by a theorem; the liveness properties
(`EveryLightGetsItsTurn`, `ReleaseEnds`, `SilentStreamEnds`, `TeardownReturns`, `ClassicDrainEnds`,
`BridgeComesUp`, `StopReturns`, `ReconnectIsServed`) are only model-checked, for fairness is beyond the prover. Some
theorems state what no run checks: those of `FrameMailbox_proofs`, the refinements of `SessionContract`, `StreamImplementsSlot`, the parser, and
whatever a proof module defines for itself (`FramesStopFirst`, `PairedTvIsStored`, `DiskOnlyGrows` and the like). A
theorem with an assumption covers what its run assumes, and section 4 says what happens without it.

## 6. Not modelled

Stateless parts: REST data builders and catch-alls, forms and their validation, diagnostics, OpenSSL bindings,
translations, the views of `HueHttpHost` and its test for requests of the local network. Home Assistant, asyncio,
OpenSSL, zeroconf and the TV appear as what the code relies on. The PSK lookup reads the store under its lock, one
dict or the next, and is left out. In `DtlsServer` blocking calls return before the join in `async_stop` gives up.
In `EntryLifecycle` the end of Home Assistant's start does not fall into an unload, and binding the port is not
overtaken. `LightSlot` has a TV that streams or sends commands, not both, and no malformed fields. The conversions of
hue, saturation and mireds to Home Assistant's, `is_lan_request`, `resolve_use_ha_http`, the bridge's identity and the
sensor's `owner` attribute are left out; a TV of `StreamSlot` names a light at most once in a frame.

## 7. Plan

Done: engine and its contract, session control, timing, hand-over, DTLS server, entry, parser and slot, pairing. Left:

1. Proofs: when a pairing is rightly reported as missing (`NotPairedIsTrue` fails only for a known TV); that a stop
   overtaking a start leaves nothing but what section 4 names; the silence bound of `SessionTiming` carried over to
   `SessionControl`.
2. Hue, saturation and mireds, `is_lan_request` and `resolve_use_ha_http` as pure operators against reference
   definitions.
3. The moment between a teardown's flags and its notification.
