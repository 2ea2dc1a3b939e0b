------------------------- MODULE EntertainmentEngine -------------------------
(***************************************************************************)
(* The EntertainmentEngine of entertainment.py: the streaming session, the *)
(* pause and release suppression, one pending-command slot per light, the  *)
(* drain loop that sends the slots to the radio one at a time, and the     *)
(* snapshot and restore of the lights around a session.                    *)
(*                                                                         *)
(* Everything runs on one asyncio event loop, so an action is the code     *)
(* between two awaits of one coroutine; coroutines interleave at awaits.   *)
(* Time is abstract here: a deadline passes by an action of its own        *)
(* (SessionTiming has the clock).                                          *)
(***************************************************************************)
EXTENDS Integers

CONSTANTS
  N,          \* number of light mappings; mapping order is 1..N
  Colours,    \* stream colours, pairwise out of tolerance of one another
  Dark,       \* the colours within tolerance of the "nothing sent" sentinel -1
  Bodies,     \* kinds of v1 light-state bodies the TV sends
  Services,   \* which of the pause, resume and release services are called
  Faults,     \* which environment faults may happen
  Overlap,    \* teardown phases in which the TV may send a new request
  Callers,    \* coroutines that call async_restore_lights
  Tasks,      \* identities of asyncio tasks running _drain_loop
  None        \* Python's None

ASSUME NAssumption == N \in Nat \ {0}
ASSUME ColoursAssumption ==
  /\ Dark \subseteq Colours
  /\ Colours \cap {"scene", "off", "classic", "mixed"} = {}
  /\ None \notin Colours \cup {"scene", "off", "classic", "mixed"}
ASSUME InputsAssumption ==
  /\ Bodies \subseteq {"on", "off", "tweak", "ignored"}
  /\ Services \subseteq {"pause", "resume", "release"}
  /\ Faults \subseteq {"call fails", "unavailable", "restore fails"}
  /\ Overlap \subseteq {"draining", "restoring"}
ASSUME TasksAssumption == None \notin Tasks

VARIABLES
  active,       \* self._active
  saved,        \* self._saved_states: what each light showed, or None
  quiet,        \* last_frame_time is more than FRAME_TIMEOUT ago
  paused,       \* self._paused_until: unset, ahead ("running") or behind ("lapsed")
  pauseTimer,   \* armed pause-expiry callbacks, and whether _pause_cancel is held
  releasing,    \* self._releasing
  forcing,      \* self._release_forcing
  releaseTimer, \* armed grace callbacks, and whether _release_cancel is held
  slot,         \* per mapping: dirty, pending_data, explicit_transition
  last,         \* per mapping: the colour in last_r/g/b, None for the -1 sentinel
  wake,         \* self._wake
  drains,       \* every _drain_loop task: where it is suspended
  drainTask,    \* self._drain_task
  drainRunning, \* self._drain_running
  restore,      \* every async_restore_lights call: where it is suspended
  lamp,         \* what each light shows
  avail,        \* whether Home Assistant reports the light available
  sensor        \* what the sensors read of the engine at the last _notify()

session  == <<active, saved, quiet>>
suppress == <<paused, pauseTimer, releasing, forcing, releaseTimer>>
queue    == <<slot, last, wake>>
drain    == <<drains, drainTask, drainRunning>>
world    == <<lamp, avail>>
vars     == <<session, suppress, queue, drain, restore, world, sensor>>

Lights == 1 .. N

\* "mixed" is a stream colour that a classic command was merged into.
Commands   == Colours \cup {"off", "classic", "mixed"}
LampStates == Commands \cup {"scene"}
Snapshots  == LampStates \cup {None}  \* None: Home Assistant said "unavailable"

ASSUME SavedAssumption == None \notin [Lights -> Snapshots]

EmptySlot == [dirty |-> FALSE, data |-> None, explicit |-> FALSE]
Slots     == [dirty : BOOLEAN, data : Commands \cup {None}, explicit : BOOLEAN]

Timers == [armed : Nat, held : BOOLEAN]
NoTimer == [armed |-> 0, held |-> FALSE]

\* A drain loop that is not sending, suspended at pc
Drain(pc, idle) ==
  [pc |-> pc, pos |-> 0, data |-> None, idle |-> idle, cancelled |-> FALSE]
DrainStates == [pc : {"done", "new", "sending", "waiting"}, pos : 0 .. N,
                data : Commands \cup {None}, idle : BOOLEAN, cancelled : BOOLEAN]

NoRestore == [pc |-> "idle", task |-> None, todo |-> {}, saved |-> [l \in Lights |-> None]]
RestoreStates == [pc : {"idle", "draining", "restoring"}, task : Tasks \cup {None},
                  todo : SUBSET Lights, saved : [Lights -> Snapshots]]

Activities == {"streaming", "classic", "idle"}
Readings   == [driving : BOOLEAN, status : Activities \cup {"paused", "releasing"},
               forcing : BOOLEAN, beneath : Activities \cup {"none"}]

TypeOK ==
  /\ active \in BOOLEAN
  /\ saved \in [Lights -> Snapshots] \cup {None}
  /\ quiet \in BOOLEAN
  /\ paused \in {"no", "running", "lapsed"}
  /\ pauseTimer \in Timers
  /\ releasing \in BOOLEAN
  /\ forcing \in BOOLEAN
  /\ releaseTimer \in Timers
  /\ slot \in [Lights -> Slots]
  /\ last \in [Lights -> Colours \cup {None}]
  /\ wake \in BOOLEAN
  /\ drains \in [Tasks -> DrainStates]
  /\ drainTask \in Tasks \cup {None}
  /\ drainRunning \in BOOLEAN
  /\ restore \in [Callers -> RestoreStates]
  /\ lamp \in [Lights -> LampStates]
  /\ avail \in [Lights -> BOOLEAN]
  /\ sensor \in Readings

Init ==
  /\ active = FALSE /\ saved = None /\ quiet = FALSE
  /\ paused = "no" /\ pauseTimer = NoTimer
  /\ releasing = FALSE /\ forcing = FALSE /\ releaseTimer = NoTimer
  /\ slot = [l \in Lights |-> EmptySlot]
  /\ last = [l \in Lights |-> None]
  /\ wake = FALSE
  /\ drains = [t \in Tasks |-> Drain("done", FALSE)] /\ drainTask = None /\ drainRunning = FALSE
  /\ restore = [c \in Callers |-> NoRestore]
  /\ lamp = [l \in Lights |-> "scene"]
  /\ avail = [l \in Lights |-> TRUE]
  /\ sensor = [driving |-> FALSE, status |-> "idle", forcing |-> FALSE, beneath |-> "none"]

-----------------------------------------------------------------------------
(* Derived state *)

IsPaused   == paused = "running"
Suppressed == IsPaused \/ releasing

Activity == IF active THEN "streaming" ELSE IF drainRunning THEN "classic" ELSE "idle"

Status == IF releasing THEN "releasing" ELSE IF IsPaused THEN "paused" ELSE Activity

\* is_driving_lights for the binary sensor, status and status_attributes for the
\* other one
Reading == [driving |-> ~Suppressed /\ (active \/ drainRunning),
            status  |-> Status,
            forcing |-> releasing /\ forcing,
            beneath |-> IF Suppressed THEN Activity ELSE "none"]

\* self._notify(): the sensors read the engine again.
Notify == sensor' = Reading'

-----------------------------------------------------------------------------
(* One-shot async_call_later timers and the handles that cancel them *)

Arm(timer)    == [armed |-> timer.armed + 1, held |-> TRUE]
Disarm(timer) == [armed |-> timer.armed - (IF timer.held THEN 1 ELSE 0), held |-> FALSE]
Fire(timer)   == [armed |-> timer.armed - 1, held |-> FALSE]

\* Mutant: the deadline is cleared, the timer left armed.
CancelPauseOnly == paused' = "no" /\ UNCHANGED pauseTimer

CancelPause == paused' = "no" /\ pauseTimer' = Disarm(pauseTimer)

CancelRelease ==
  releasing' = FALSE /\ forcing' = FALSE /\ releaseTimer' = Disarm(releaseTimer)

-----------------------------------------------------------------------------
(* The mappings and the drain task *)

\* Mutant: the queue is flushed, the tolerance tracking kept.
ResetSlotsOnly ==
  /\ slot' = [l \in Lights |-> [slot[l] EXCEPT !.dirty = FALSE, !.data = None]]
  /\ UNCHANGED last

ResetMappings ==
  /\ slot' = [l \in Lights |-> [slot[l] EXCEPT !.dirty = FALSE, !.data = None]]
  /\ last' = [l \in Lights |-> None]

Live(t) == t # None /\ drains[t].pc # "done"

\* A finished task nobody refers to any more stands for a new one.
FreeTasks == {t \in Tasks : ~Live(t) /\ t # drainTask /\ \A c \in Callers : restore[c].task # t}

\* Mutant: a new loop whether or not one is running.
StartDrainTask ==
  \E t \in FreeTasks : /\ drains' = [drains EXCEPT ![t] = Drain("new", FALSE)]
                       /\ drainTask' = t
                       /\ drainRunning' = TRUE

EnsureDrainTask ==
  IF drainRunning
  THEN UNCHANGED drain
  ELSE \E t \in FreeTasks :
         /\ drains' = [drains EXCEPT ![t] = Drain("new", FALSE)]
         /\ drainTask' = t
         /\ drainRunning' = TRUE

\* Whether the TV's request may arrive now, given the teardowns in progress.
Admitted == \A c \in Callers : restore[c].pc \in {"idle"} \cup Overlap

-----------------------------------------------------------------------------
(* Session start *)

async_snapshot_lights ==
  /\ Admitted
  /\ releasing \/ ~active      \* mid-session re-toggle: keep the snapshot
  /\ CancelRelease
  /\ saved' = [l \in Lights |-> IF avail[l] THEN lamp[l] ELSE None]
  /\ ResetMappings
  /\ active' = TRUE
  /\ quiet' = FALSE
  /\ EnsureDrainTask
  /\ UNCHANGED <<paused, pauseTimer, wake, restore, world>>
  /\ Notify

-----------------------------------------------------------------------------
(* Commands from the TV *)

Frames == UNION {[channels -> Colours] : channels \in SUBSET Lights}

WithinTolerance(l, c) == IF last[l] = None THEN c \in Dark ELSE last[l] = c

\* Mutant: the loop is not woken.
ScheduleSilently(frame) ==
  LET changed == {l \in DOMAIN frame : ~WithinTolerance(l, frame[l])}
  IN  /\ last' = [l \in Lights |-> IF l \in changed THEN frame[l] ELSE last[l]]
      /\ slot' = [l \in Lights |-> IF l \in changed
                                   THEN [slot[l] EXCEPT !.dirty = TRUE, !.data = frame[l]]
                                   ELSE slot[l]]
      /\ UNCHANGED wake

\* _schedule_update over the channels of one frame
ScheduleUpdates(frame) ==
  LET changed == {l \in DOMAIN frame : ~WithinTolerance(l, frame[l])}
  IN  /\ last' = [l \in Lights |-> IF l \in changed THEN frame[l] ELSE last[l]]
      /\ slot' = [l \in Lights |-> IF l \in changed
                                   THEN [slot[l] EXCEPT !.dirty = TRUE, !.data = frame[l]]
                                   ELSE slot[l]]
      /\ wake' = (wake \/ changed # {})

\* Mutant: a forced release is kept alive by the frames.
FrameAlwaysCounts(frame) ==
  /\ quiet' = FALSE
  /\ IF Suppressed THEN UNCHANGED queue ELSE ScheduleUpdates(frame)
  /\ UNCHANGED <<active, saved, suppress, drain, restore, world, sensor>>

handle_frame(frame) ==
  /\ quiet' = (quiet /\ forcing)
  /\ IF Suppressed THEN UNCHANGED queue ELSE ScheduleUpdates(frame)
  /\ UNCHANGED <<active, saved, suppress, drain, restore, world, sensor>>

\* _v1_state_to_service_data, down to the service it asks for
ServiceData(body) ==
  CASE body = "off"     -> "off"
    [] body = "ignored" -> None
    [] OTHER            -> "classic"

Pending(l) == IF slot[l].dirty /\ slot[l].explicit THEN slot[l].data ELSE None

\* The slot's new content, None when the command is moot
Merge(pending, body) ==
  IF ServiceData(body) # "classic" THEN ServiceData(body)
  ELSE IF pending = "off" /\ body # "on" THEN None
  ELSE IF pending \in Colours \cup {"mixed"} THEN "mixed" ELSE "classic"

handle_light_command(l, body) ==
  /\ Admitted
  /\ ~Suppressed
  /\ Merge(Pending(l), body) # None
  /\ slot' = [slot EXCEPT ![l] =
                [dirty |-> TRUE, data |-> Merge(Pending(l), body), explicit |-> TRUE]]
  /\ wake' = TRUE
  /\ EnsureDrainTask
  /\ UNCHANGED <<session, suppress, last, restore, world>>
  /\ IF drainRunning THEN UNCHANGED sensor ELSE Notify

-----------------------------------------------------------------------------
(* Pause, resume, release *)

\* Mutant: what is already queued stays queued.
PauseWithoutFlush ==
  /\ "pause" \in Services
  /\ ~releasing
  /\ paused' = "running"
  /\ pauseTimer' = Arm(Disarm(pauseTimer))
  /\ UNCHANGED <<session, releasing, forcing, releaseTimer, queue, drain, restore, world>>
  /\ Notify

\* Mutant: the timer of an earlier pause stays armed.
PauseWithoutCancel ==
  /\ "pause" \in Services
  /\ ~releasing
  /\ paused' = "running"
  /\ pauseTimer' = Arm(pauseTimer)
  /\ ResetMappings
  /\ UNCHANGED <<session, releasing, forcing, releaseTimer, wake, drain, restore, world>>
  /\ Notify

async_pause ==
  /\ "pause" \in Services
  /\ ~releasing
  /\ paused' = "running"
  /\ pauseTimer' = Arm(Disarm(pauseTimer))
  /\ ResetMappings
  /\ UNCHANGED <<session, releasing, forcing, releaseTimer, wake, drain, restore, world>>
  /\ Notify

async_resume ==
  /\ "resume" \in Services
  /\ ~releasing /\ paused # "no"
  /\ CancelPause
  /\ UNCHANGED <<session, releasing, forcing, releaseTimer, queue, drain, restore, world>>
  /\ Notify

async_release ==
  /\ "release" \in Services
  /\ CancelPause
  /\ ResetMappings
  /\ saved' = None
  /\ releasing' = TRUE
  /\ forcing' = FALSE
  /\ releaseTimer' = Arm(Disarm(releaseTimer))
  /\ UNCHANGED <<active, quiet, wake, drain, restore, world>>
  /\ Notify

\* The pause deadline passes: suppression ends now, the callback runs later.
PauseLapses ==
  /\ paused = "running"
  /\ paused' = "lapsed"
  /\ UNCHANGED <<session, pauseTimer, releasing, forcing, releaseTimer, queue, drain,
                 restore, world, sensor>>

\* The timer armed by the pause still running is not due; any other one is.
on_pause_expired ==
  /\ pauseTimer.armed > (IF IsPaused /\ pauseTimer.held THEN 1 ELSE 0)
  /\ paused' = "no"
  /\ pauseTimer' = Fire(pauseTimer)
  /\ UNCHANGED <<session, releasing, forcing, releaseTimer, queue, drain, restore, world>>
  /\ Notify

\* Mutant: the watchdog is left to resolve a release without a session, too.
GraceAlwaysForces ==
  /\ releaseTimer.armed > 0
  /\ releaseTimer' = Fire(releaseTimer)
  /\ forcing' = releasing
  /\ UNCHANGED <<session, paused, pauseTimer, releasing, queue, drain, restore, world>>
  /\ IF releasing THEN Notify ELSE UNCHANGED sensor

on_release_grace_expired ==
  /\ releaseTimer.armed > 0
  /\ releaseTimer' = Fire(releaseTimer)
  /\ releasing' = (releasing /\ active)
  /\ forcing' = (releasing /\ active)
  /\ UNCHANGED <<session, paused, pauseTimer, queue, drain, restore, world>>
  /\ IF releasing THEN Notify ELSE UNCHANGED sensor

\* FRAME_TIMEOUT passes since the last frame that counted.
StreamFallsQuiet ==
  /\ active /\ ~quiet
  /\ quiet' = TRUE
  /\ UNCHANGED <<active, saved, suppress, queue, drain, restore, world, sensor>>

-----------------------------------------------------------------------------
(* The drain loop *)

Ready(l) == slot[l].dirty /\ slot[l].data # None /\ avail[l]

\* The slots once the loop has grabbed the dirty ones among `passed`
Grabbed(passed) ==
  [l \in Lights |-> IF l \in passed /\ slot[l].dirty THEN EmptySlot ELSE slot[l]]

\* Walk the mappings from `from` on to the first light that can be sent to.
SendNext(t, passed, from) ==
  \E next \in from .. N :
    /\ Ready(next)
    /\ \A l \in from .. next - 1 : ~Ready(l)
    /\ slot' = Grabbed(passed \cup (from .. next))
    /\ drains' = [drains EXCEPT ![t].pc = "sending", ![t].pos = next,
                                ![t].data = slot[next].data]

\* Mutant: every idle pass starts the idle clock afresh.
SleepForgetsIdle(t, idle) ==
  /\ slot' = Grabbed(Lights)
  /\ drains' = [drains EXCEPT ![t] = Drain("waiting", FALSE)]

\* A pass that sent nothing: note since when, and wait for the wake event.
Sleep(t, idle) ==
  /\ slot' = Grabbed(Lights)
  /\ drains' = [drains EXCEPT ![t] = Drain("waiting", idle \/ ~active)]

\* A new pass of the while loop
Pass(t, passed, idle) ==
  /\ wake' = FALSE
  /\ IF \E l \in Lights : Ready(l) THEN SendNext(t, passed, 1) ELSE Sleep(t, idle)

DrainStarts(t) ==
  /\ drains[t].pc = "new" /\ ~drains[t].cancelled
  /\ Pass(t, {}, FALSE)
  /\ UNCHANGED <<session, suppress, last, drainTask, drainRunning, restore, world, sensor>>

\* The wake event is set, or the wait times out
DrainWakes(t) ==
  /\ drains[t].pc = "waiting" /\ ~drains[t].cancelled
  /\ Pass(t, {}, drains[t].idle)
  /\ UNCHANGED <<session, suppress, last, drainTask, drainRunning, restore, world, sensor>>

\* The blocking service call lands, or fails without effect.
Lands(t) ==
  \/ lamp' = [lamp EXCEPT ![drains[t].pos] = drains[t].data]
  \/ "call fails" \in Faults /\ UNCHANGED lamp

\* Mutant: after a send the walk starts over at the first light.
SendsFromTop(t) ==
  /\ drains[t].pc = "sending" /\ ~drains[t].cancelled
  /\ Lands(t)
  /\ Pass(t, {}, FALSE)
  /\ UNCHANGED <<session, suppress, last, drainTask, drainRunning, restore, avail, sensor>>

DrainSends(t) ==
  LET rest == drains[t].pos + 1 .. N
  IN  /\ drains[t].pc = "sending" /\ ~drains[t].cancelled
      /\ Lands(t)
      /\ IF \E l \in rest : Ready(l)
         THEN SendNext(t, {}, drains[t].pos + 1) /\ UNCHANGED wake
         ELSE Pass(t, rest, FALSE)
      /\ UNCHANGED <<session, suppress, last, drainTask, drainRunning, restore, avail, sensor>>

\* Mutant: no finally clause.
LeaveDrainSilently(t) ==
  /\ drains' = [drains EXCEPT ![t] = Drain("done", FALSE)]
  /\ UNCHANGED drainRunning

\* Finally: the loop is over, and says so.
LeaveDrain(t) ==
  /\ drains' = [drains EXCEPT ![t] = Drain("done", FALSE)]
  /\ drainRunning' = FALSE

DrainIdlesOut(t) ==
  /\ drains[t].pc = "waiting" /\ ~drains[t].cancelled
  /\ ~active /\ drains[t].idle
  /\ \A l \in Lights : ~Ready(l)
  /\ wake' = FALSE
  /\ slot' = Grabbed(Lights)
  /\ LeaveDrain(t)
  /\ UNCHANGED <<session, suppress, last, drainTask, restore, world>>
  /\ Notify

\* Cancelled at its await: what was on the wire may land or not.
DrainCancelled(t) ==
  /\ drains[t].cancelled /\ drains[t].pc \in {"sending", "waiting"}
  /\ \/ UNCHANGED lamp
     \/ drains[t].pc = "sending" /\ Lands(t)
  /\ LeaveDrain(t)
  /\ UNCHANGED <<session, suppress, queue, drainTask, restore, avail>>
  /\ Notify

\* Cancelled before its first step: the body and its finally never run.
DrainNeverRan(t) ==
  /\ drains[t].cancelled /\ drains[t].pc = "new"
  /\ drains' = [drains EXCEPT ![t] = Drain("done", FALSE)]
  /\ UNCHANGED <<session, suppress, queue, drainTask, drainRunning, restore, world, sensor>>

-----------------------------------------------------------------------------
(* Session end *)

\* Mutant: the listeners are told after the restore.
TailNotifiesLate(c) ==
  LET todo == {l \in Lights : saved # None /\ saved[l] # None}
  IN  /\ drainRunning' = FALSE
      /\ IF todo = {} THEN Notify ELSE UNCHANGED sensor
      /\ saved' = None
      /\ ResetMappings
      /\ restore' = [restore EXCEPT ![c] =
           IF todo = {} THEN NoRestore
           ELSE [pc |-> "restoring", task |-> None, todo |-> todo, saved |-> saved]]

\* Mutant: the snapshot is not given up.
TailKeepsSnapshot(c) ==
  LET todo == {l \in Lights : saved # None /\ saved[l] # None}
  IN  /\ drainRunning' = FALSE
      /\ Notify
      /\ UNCHANGED saved
      /\ ResetMappings
      /\ restore' = [restore EXCEPT ![c] =
           IF todo = {} THEN NoRestore
           ELSE [pc |-> "restoring", task |-> None, todo |-> todo, saved |-> saved]]

\* After the drain loop has stopped: report idle, hand over the snapshot.
RestoreTail(c) ==
  LET todo == {l \in Lights : saved # None /\ saved[l] # None}
  IN  /\ drainRunning' = FALSE
      /\ Notify
      /\ saved' = None
      /\ ResetMappings
      /\ restore' = [restore EXCEPT ![c] =
           IF todo = {} THEN NoRestore
           ELSE [pc |-> "restoring", task |-> None, todo |-> todo, saved |-> saved]]

\* Mutant: the drain loop is not stopped.
RestoreBesideDrain(c) ==
  /\ restore[c].pc = "idle"
  /\ active
  /\ active' = FALSE
  /\ CancelRelease
  /\ UNCHANGED <<quiet, paused, pauseTimer, wake, drains, drainTask, world>>
  /\ RestoreTail(c)

async_restore_lights(c) ==
  /\ restore[c].pc = "idle"
  /\ active
  /\ active' = FALSE
  /\ CancelRelease
  /\ UNCHANGED <<quiet, paused, pauseTimer, wake, drainTask, world>>
  /\ IF Live(drainTask)
     THEN /\ drains' = [drains EXCEPT ![drainTask].cancelled = TRUE]
          /\ restore' = [restore EXCEPT ![c].pc = "draining", ![c].task = drainTask]
          /\ UNCHANGED <<saved, slot, last, drainRunning>>
          /\ IF releasing THEN Notify ELSE UNCHANGED sensor
     ELSE RestoreTail(c) /\ UNCHANGED drains

\* Mutant: it waits for the flag, not for the task.
ResumesOnFlag(c) ==
  /\ restore[c].pc = "draining" /\ ~drainRunning
  /\ drainTask' = None
  /\ UNCHANGED <<active, quiet, suppress, wake, drains, world>>
  /\ RestoreTail(c)

\* The await on the cancelled drain task returns.
RestoreResumes(c) ==
  /\ restore[c].pc = "draining" /\ ~Live(restore[c].task)
  /\ drainTask' = None
  /\ UNCHANGED <<active, quiet, suppress, wake, drains, world>>
  /\ RestoreTail(c)

\* async_reproduce_state brings the lights back concurrently.
RestoreLight(c, l) ==
  /\ restore[c].pc = "restoring" /\ l \in restore[c].todo
  /\ lamp' = [lamp EXCEPT ![l] = restore[c].saved[l]]
  /\ restore' = [restore EXCEPT ![c] =
       IF @.todo = {l} THEN NoRestore ELSE [@ EXCEPT !.todo = restore[c].todo \ {l}]]
  /\ UNCHANGED <<session, suppress, queue, drain, avail, sensor>>

RestoreAbandoned(c) ==
  /\ restore[c].pc = "restoring"
  /\ restore' = [restore EXCEPT ![c] = NoRestore]
  /\ UNCHANGED <<session, suppress, queue, drain, world, sensor>>

\* RESTORE_TIMEOUT passes, or the restore raises.
RestoreFails(c) == "restore fails" \in Faults /\ RestoreAbandoned(c)

-----------------------------------------------------------------------------
(* Home Assistant's view of a light *)

LightAvailability(l) ==
  /\ "unavailable" \in Faults
  /\ avail' = [avail EXCEPT ![l] = ~@]
  /\ UNCHANGED <<session, suppress, queue, drain, restore, lamp, sensor>>

-----------------------------------------------------------------------------

DrainStep(t) == \/ DrainStarts(t) \/ DrainWakes(t) \/ DrainSends(t)
                \/ DrainIdlesOut(t) \/ DrainCancelled(t) \/ DrainNeverRan(t)

RestoreStep(c) == RestoreResumes(c) \/ \E l \in Lights : RestoreLight(c, l)

\* What the engine and its surroundings do without being called
Background ==
  \/ PauseLapses \/ on_pause_expired \/ on_release_grace_expired \/ StreamFallsQuiet
  \/ \E t \in Tasks : DrainStep(t)
  \/ \E c \in Callers : RestoreStep(c) \/ RestoreFails(c)
  \/ \E l \in Lights : LightAvailability(l)

TVCommands ==
  \/ \E frame \in Frames : handle_frame(frame)
  \/ \E l \in Lights, body \in Bodies : handle_light_command(l, body)

Next ==
  \/ async_snapshot_lights
  \/ TVCommands
  \/ async_pause \/ async_resume \/ async_release
  \/ \E c \in Callers : async_restore_lights(c)
  \/ Background

Spec == Init /\ [][Next]_vars

\* A ready coroutine runs and an awaited service call returns.
FairSpec == Spec /\ \A t \in Tasks : WF_vars(DrainStep(t))
                 /\ \A c \in Callers : WF_vars(RestoreStep(c))

-----------------------------------------------------------------------------
(* Safety, whatever interleaves with a teardown *)

\* Every armed timer can still be cancelled, and a pause has its timer: no
\* expiry callback of an earlier pause or release is left to fire into a later
\* one (_cancel_pause, _cancel_release and the re-arming in async_release).
TimersHeld ==
  /\ pauseTimer.armed = (IF pauseTimer.held THEN 1 ELSE 0)
  /\ pauseTimer.held <=> paused # "no"
  /\ releaseTimer.armed = (IF releaseTimer.held THEN 1 ELSE 0)

\* A release always has something that will resolve it: its grace timer, or,
\* once forcing, a session for the frame watchdog to tear down. It supersedes a
\* pause and leaves no restore target. Without a release neither the timer nor
\* the forcing flag survives (async_release, on_release_grace_expired).
ReleaseHasResolver ==
  /\ releasing => /\ saved = None /\ paused = "no"
                  /\ IF forcing THEN active /\ ~releaseTimer.held ELSE releaseTimer.held
  /\ ~releasing => ~forcing /\ ~releaseTimer.held

\* While paused or releasing nothing is queued: what was queued before was
\* flushed and nothing is queued since (the flush in async_pause and
\* async_release, the gates in handle_frame and handle_light_command).
NothingQueuedWhileSuppressed == Suppressed => \A l \in Lights : ~slot[l].dirty

\* The drain loop starts no service call while paused or releasing; one already
\* on the wire may finish (docs/pause-release.md on the flush).
SendBegins(t) ==
  /\ drains'[t].pc = "sending"
  /\ drains[t].pc # "sending" \/ drains[t].pos # drains'[t].pos
NoSendBeginsWhileSuppressed ==
  [][\A t \in Tasks : SendBegins(t) => ~Suppressed]_vars

\* The engine keeps what pause, resume and release promise: a pause ends by its
\* own deadline, by resume or by a release, never by the timer of an earlier one;
\* a release is not ended by a pause and leaves nothing to restore; and nothing
\* goes on the radio that was not there when a pause or a release began.
OnRadio == {<<t, drains[t].pos>> : t \in {u \in Tasks : drains[u].pc = "sending"}}

Mode == IF releasing THEN "released"
        ELSE IF paused = "running" THEN "held"
        ELSE IF paused = "lapsed" THEN "over"
        ELSE "driving"

Contract == INSTANCE PauseContract WITH
  Sends <- Tasks \X (0 .. N), MayResume <- "resume" \in Services,
  mode <- Mode, air <- OnRadio, target <- (saved # None)

KeepsContract == Contract!ContractSpec

\* The engine's session, its release and its silence follow the contract that
\* SessionTiming implements with the clock (async_snapshot_lights, handle_frame,
\* async_release, _on_release_grace_expired, async_restore_lights).
Session == INSTANCE SessionContract WITH silent <- (active /\ quiet)

KeepsSessionContract == Session!SessionSpec

\* The sensors, their attributes included, never show what the engine is not, except
\* between a pause's deadline and its callback and while a teardown waits for
\* the drain loop to stop (every _notify() call).
SensorFresh ==
  sensor # Reading => paused = "lapsed" \/ \E c \in Callers : restore[c].pc = "draining"

\* A snapshot is held only for a session, or for the teardown that will restore
\* it: none is left over to be restored by a later one (async_restore_lights).
SnapshotHasSession ==
  saved # None => active \/ \E c \in Callers : restore[c].pc = "draining"

-----------------------------------------------------------------------------
(* Liveness under FairSpec *)

\* Every queued command is taken up while the drain loop runs, however often the
\* other lights are queued again: the loop is round-robin over the mappings
\* (_drain_until_idle_or_cancelled).
EveryLightGetsItsTurn ==
  \A l \in Lights :
     slot[l].dirty /\ drainRunning ~> ~slot[l].dirty \/ ~drainRunning

\* A classic drain loop does not run for ever after the TV has gone quiet
\* (the CLASSIC_DRAIN_IDLE exit).
ClassicDrainEnds ==
  <>[][~TVCommands]_vars => []<>(active \/ ~drainRunning)

-----------------------------------------------------------------------------
(* Safety when no request of the TV falls between a teardown's cancelling of   *)
(* the drain task and the task's end ("draining" \notin Overlap)               *)

\* _drain_running says whether a drain loop is there to send: a command that
\* finds it set is not queued for a loop that has gone, and a session is never
\* without its loop (_ensure_drain_task, _drain_loop's finally, the reset in
\* async_restore_lights).
DrainRunningIsHonest ==
  (\A c \in Callers : restore[c].pc # "draining") =>
     /\ drainRunning <=> Live(drainTask)
     /\ active => drainRunning
     /\ drainRunning => ~drains[drainTask].cancelled

\* One command at a time: however drain loops are cancelled and started anew,
\* no two of them have a service call on the radio at once ("sends one Zigbee
\* command at a time").
OneCallAtATime ==
  \A t, u \in Tasks : drains[t].pc = "sending" /\ drains[u].pc = "sending" => t = u

\* A waiting drain loop with a command to send has been woken: no command sits
\* in its slot until the idle timeout (the wake event set by every queueing,
\* cleared at the top of a pass).
NoLostWakeup ==
  \A t \in Tasks : drains[t].pc = "waiting" /\ (\E l \in Lights : slot[l].dirty) => wake

\* Once a stream is over and its restore done, the lights show what they showed
\* before, with reliable lights, no release and no classic commands
\* (async_snapshot_lights, async_restore_lights).
AtRest ==
  /\ ~active
  /\ \A t \in Tasks : ~Live(t)
  /\ \A c \in Callers : restore[c].pc = "idle"
LightsComeBack == AtRest => \A l \in Lights : lamp[l] = "scene"

\* With nothing queued and nothing on the wire, a streaming light shows the
\* colour the TV last sent that counted as a change ("Lights always get the most
\* recent colour").
LightsShowFreshest ==
  \A l \in Lights :
     active /\ last[l] # None /\ ~slot[l].dirty => \/ lamp[l] = last[l]
        \/ \E t \in Tasks : drains[t].pc = "sending" /\ drains[t].pos = l
                             /\ drains[t].data = last[l]
=============================================================================
