---------------------------- MODULE SessionTiming ----------------------------
(***************************************************************************)
(* The clock behind a session: last_frame_time against FRAME_TIMEOUT, the  *)
(* watchdog that looks at it every FRAME_WATCHDOG_INTERVAL, and the grace  *)
(* timer of a release, which starves the watchdog instead of stopping the  *)
(* session itself (__init__.py, entertainment.py).                         *)
(*                                                                         *)
(* One step of time is one unit of the constants. A loop with nothing late *)
(* to do runs a due timer before time goes on, so the bounds below are     *)
(* those of the design, without the latency of a busy loop. The teardown   *)
(* is the synchronous part of async_restore_lights, which ends the session *)
(* at once.                                                                *)
(***************************************************************************)
EXTENDS Integers

CONSTANTS
  FrameTimeout,      \* FRAME_TIMEOUT
  WatchdogInterval,  \* FRAME_WATCHDOG_INTERVAL
  DefaultYield,      \* DEFAULT_YIELD_SECONDS
  Seconds            \* values callers give the release service, 0 included

ASSUME TimingAssumption ==
  /\ FrameTimeout \in Nat \ {0}
  /\ WatchdogInterval \in Nat \ {0}
  /\ DefaultYield \in Nat \ {0}
  /\ Seconds \subseteq Nat

VARIABLES
  active,     \* engine._active
  releasing,  \* engine._releasing
  forcing,    \* engine._release_forcing
  sinceFrame, \* time since engine.last_frame_time
  sinceSign,  \* time since the TV last gave a sign of life: a start or a frame
  poll,       \* time since the watchdog began its sleep
  grace,      \* time left on the grace timer, 0 when it is due
  granted,    \* the grace of the release() in progress
  age         \* time since that release()

vars == <<active, releasing, forcing, sinceFrame, sinceSign, poll, grace, granted, age>>

TypeOK ==
  /\ active \in BOOLEAN
  /\ releasing \in BOOLEAN
  /\ forcing \in BOOLEAN
  /\ sinceFrame \in Nat
  /\ sinceSign \in Nat
  /\ poll \in 0 .. WatchdogInterval
  /\ grace \in Nat
  /\ granted \in Nat
  /\ age \in Nat

Init ==
  /\ active = FALSE /\ releasing = FALSE /\ forcing = FALSE
  /\ sinceFrame = 0 /\ sinceSign = 0 /\ poll = 0
  /\ grace = 0 /\ granted = 0 /\ age = 0

-----------------------------------------------------------------------------

ResolveRelease == releasing' = FALSE /\ forcing' = FALSE /\ grace' = 0

\* Mutant: last_frame_time is left as the last session had it.
StartKeepsFrameTime ==
  /\ releasing \/ ~active
  /\ active' = TRUE
  /\ ResolveRelease
  /\ sinceSign' = 0
  /\ poll' = (IF active THEN poll ELSE 0)
  /\ UNCHANGED <<sinceFrame, granted, age>>

\* A start: resolves a release, restarts the silence clock, and finds the
\* watchdog of the running session still polling or creates one.
Start ==
  /\ releasing \/ ~active
  /\ active' = TRUE
  /\ ResolveRelease
  /\ sinceFrame' = 0 /\ sinceSign' = 0
  /\ poll' = (IF active THEN poll ELSE 0)
  /\ UNCHANGED <<granted, age>>

\* Mutant: frames keep a forced release alive.
FrameAlwaysCounts ==
  /\ active
  /\ sinceFrame' = 0
  /\ sinceSign' = 0
  /\ UNCHANGED <<active, releasing, forcing, poll, grace, granted, age>>

Frame ==
  /\ active
  /\ sinceFrame' = (IF forcing THEN sinceFrame ELSE 0)
  /\ sinceSign' = 0
  /\ UNCHANGED <<active, releasing, forcing, poll, grace, granted, age>>

Stop ==
  /\ active
  /\ active' = FALSE
  /\ ResolveRelease
  /\ UNCHANGED <<sinceFrame, sinceSign, poll, granted, age>>

Resolved(seconds) == IF seconds > 0 THEN seconds ELSE DefaultYield

Release(seconds) ==
  /\ releasing' = TRUE /\ forcing' = FALSE
  /\ grace' = Resolved(seconds) /\ granted' = Resolved(seconds)
  /\ age' = 0
  /\ UNCHANGED <<active, sinceFrame, sinceSign, poll>>

GraceDue == releasing /\ ~forcing /\ grace = 0

GraceExpires ==
  /\ GraceDue
  /\ releasing' = active /\ forcing' = active
  /\ UNCHANGED <<active, sinceFrame, sinceSign, poll, grace, granted, age>>

PollDue == active /\ poll = WatchdogInterval

\* Mutant: the watchdog gives a silent stream another round.
WatchdogHesitates ==
  /\ PollDue
  /\ poll' = 0
  /\ IF sinceFrame > FrameTimeout + WatchdogInterval
     THEN active' = FALSE /\ ResolveRelease
     ELSE UNCHANGED <<active, releasing, forcing, grace>>
  /\ UNCHANGED <<sinceFrame, sinceSign, granted, age>>

WatchdogPolls ==
  /\ PollDue
  /\ poll' = 0
  /\ IF sinceFrame > FrameTimeout
     THEN active' = FALSE /\ ResolveRelease
     ELSE UNCHANGED <<active, releasing, forcing, grace>>
  /\ UNCHANGED <<sinceFrame, sinceSign, granted, age>>

\* Time goes on; nothing is measured without a session or a release.
Tick ==
  /\ active \/ releasing
  /\ ~GraceDue /\ ~PollDue
  /\ sinceFrame' = (IF active THEN sinceFrame + 1 ELSE sinceFrame)
  /\ sinceSign' = (IF active THEN sinceSign + 1 ELSE sinceSign)
  /\ poll' = (IF active THEN poll + 1 ELSE poll)
  /\ grace' = (IF releasing /\ ~forcing THEN grace - 1 ELSE grace)
  /\ age' = (IF releasing THEN age + 1 ELSE age)
  /\ UNCHANGED <<active, releasing, forcing, granted>>

Next ==
  \/ Start \/ Frame \/ Stop
  \/ \E seconds \in Seconds : Release(seconds)
  \/ GraceExpires \/ WatchdogPolls
  \/ Tick

Spec == Init /\ [][Next]_vars

-----------------------------------------------------------------------------
(* Properties *)

\* A silent stream is noticed: no session outlives its last counted frame by
\* more than FRAME_TIMEOUT and one watchdog interval (_frame_watchdog).
SilenceBounded == active => sinceFrame <= FrameTimeout + WatchdogInterval

\* A release is over within its grace, the frame timeout and one watchdog
\* interval, however the TV behaves; without a session within its grace
\* (async_release, handle_frame, _frame_watchdog).
ReleaseBounded ==
  releasing => age <= granted + (IF active THEN FrameTimeout + WatchdogInterval ELSE 0)

\* The watchdog ends only a session whose TV has been silent for FRAME_TIMEOUT
\* or that is being released: a session that started while a forced release was
\* starving the clock is not ended on the old session's silence
\* (async_snapshot_lights setting last_frame_time).
NoFalseTimeout ==
  [][WatchdogPolls /\ ~active' => releasing \/ sinceSign > FrameTimeout]_vars

\* The clock measures the session of the contract: a release, its grace and the
\* silence it forces are in the same order here and in the engine (async_release,
\* _on_release_grace_expired, handle_frame).
Contract == INSTANCE SessionContract WITH silent <- (active /\ sinceFrame > FrameTimeout)

KeepsSessionContract == Contract!SessionSpec
=============================================================================
