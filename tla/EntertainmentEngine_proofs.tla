--------------------- MODULE EntertainmentEngine_proofs ---------------------
(***************************************************************************)
(* What the engine keeps for any number of lights, colours, teardowns and  *)
(* drain loops, and whatever request of the TV falls into a teardown: what *)
(* pause() and release() promise, types, sensors and snapshot, and the     *)
(* refinement of PauseContract.                                            *)
(***************************************************************************)
EXTENDS EntertainmentEngine, TLAPS

-----------------------------------------------------------------------------
(* The steps that the proofs are about *)

\* A restore may also be abandoned without a fault of the environment, when the
\* coroutine that awaits it is cancelled: SessionControl does so to a watchdog.
Steps == Next \/ \E c \in Callers : RestoreAbandoned(c)

StepsSpec == Init /\ [][Steps]_vars

LEMMA SpecTakesSteps == Spec => StepsSpec
<1>1. [Next]_vars => [Steps]_vars
  BY DEF Steps
<1>2. QED
  BY <1>1, PTL DEF Spec, StepsSpec

-----------------------------------------------------------------------------
(* Timers *)

OneTimer == Arm(NoTimer)

LEMMA TimerFacts ==
  /\ NoTimer.armed = 0 /\ NoTimer.held = FALSE
  /\ OneTimer.armed = 1 /\ OneTimer.held = TRUE
  /\ Disarm(NoTimer) = NoTimer
  /\ Disarm(OneTimer) = NoTimer
  /\ Fire(OneTimer) = NoTimer
  /\ NoTimer \in Timers /\ OneTimer \in Timers
BY DEF OneTimer, Arm, Disarm, Fire, NoTimer, Timers

\* A timer is armed, and its handle held, exactly while a pause is in force or
\* not yet cleared, and while a release is in its grace.
TimersMatch ==
  /\ pauseTimer = (IF paused = "no" THEN NoTimer ELSE OneTimer)
  /\ releaseTimer = (IF releasing /\ ~forcing THEN OneTimer ELSE NoTimer)

\* A release supersedes a pause and leaves no snapshot, and is forced only on a
\* session.
ReleaseState ==
  /\ releasing => saved = None /\ paused = "no"
  /\ forcing => releasing /\ active

SuppressFlags ==
  /\ active \in BOOLEAN /\ releasing \in BOOLEAN /\ forcing \in BOOLEAN
  /\ paused \in {"no", "running", "lapsed"}

Suppression == SuppressFlags /\ TimersMatch /\ ReleaseState

LEMMA SuppressionInit == Init => Suppression
BY Zenon DEF Init, Suppression, SuppressFlags, TimersMatch, ReleaseState

\* The actions that touch none of the variables of Suppression, or only saved.
Elsewhere == UNCHANGED <<active, suppress>> /\ saved' \in {saved, None}

LEMMA SuppressionElsewhere == Suppression /\ Elsewhere => Suppression'
<1> SUFFICES ASSUME Suppression, Elsewhere
             PROVE  Suppression'
  OBVIOUS
<1>1. UNCHANGED <<active, paused, pauseTimer, releasing, forcing, releaseTimer>>
  BY DEF Elsewhere, suppress
<1>2. saved = None => saved' = None
  BY DEF Elsewhere
<1>3. SuppressFlags' /\ TimersMatch'
  BY <1>1 DEF Suppression, SuppressFlags, TimersMatch
<1>4. ReleaseState'
  BY <1>1, <1>2 DEF Suppression, ReleaseState
<1>5. QED
  BY <1>3, <1>4 DEF Suppression

\* Cancelling the timers, as the three ways to resolve a pause or release do.
LEMMA CancelFacts ==
  ASSUME Suppression
  PROVE  /\ CancelPause => paused' = "no" /\ pauseTimer' = NoTimer
         /\ CancelRelease => ~releasing' /\ ~forcing' /\ releaseTimer' = NoTimer
         /\ Arm(Disarm(pauseTimer)) = OneTimer
         /\ Arm(Disarm(releaseTimer)) = OneTimer
BY TimerFacts
DEF Suppression, TimersMatch, CancelPause, CancelRelease, OneTimer

LEMMA SuppressionStep == Suppression /\ [Steps]_vars => Suppression'
<1> SUFFICES ASSUME Suppression, [Steps]_vars
             PROVE  Suppression'
  OBVIOUS
<1> USE TimerFacts, CancelFacts
    DEF Suppression, SuppressFlags, TimersMatch, ReleaseState, session, suppress
<1>1. CASE async_snapshot_lights
  <2>1. active' = TRUE /\ releasing' = FALSE /\ forcing' = FALSE
    BY <1>1, Zenon DEF async_snapshot_lights, CancelRelease
  <2>2. UNCHANGED <<paused, pauseTimer>> /\ releaseTimer' = NoTimer
    BY <1>1 DEF async_snapshot_lights
  <2>3. SuppressFlags'
    BY <2>1, <2>2, Zenon
  <2>4. QED
    BY <2>1, <2>2, <2>3
<1>2. CASE async_pause
  <2>1. paused' = "running" /\ pauseTimer' = OneTimer
    BY <1>2 DEF async_pause
  <2>2. UNCHANGED <<active, saved, releasing, forcing, releaseTimer>> /\ ~releasing
    BY <1>2 DEF async_pause
  <2>3. QED
    BY <2>1, <2>2
<1>3. CASE async_resume
  <2>1. paused' = "no" /\ pauseTimer' = NoTimer
    BY <1>3 DEF async_resume
  <2>2. UNCHANGED <<active, saved, releasing, forcing, releaseTimer>>
    BY <1>3 DEF async_resume
  <2>3. QED
    BY <2>1, <2>2
<1>4. CASE async_release
  <2>1. paused' = "no" /\ pauseTimer' = NoTimer /\ releaseTimer' = OneTimer
    BY <1>4 DEF async_release
  <2>2. releasing' = TRUE /\ forcing' = FALSE /\ active' = active /\ saved' = None
    BY <1>4 DEF async_release
  <2>3. SuppressFlags'
    BY <2>1, <2>2, Zenon
  <2>4. QED
    BY <2>1, <2>2, <2>3
<1>5. CASE PauseLapses
  BY <1>5 DEF PauseLapses
<1>6. CASE on_pause_expired
  <2>1. paused = "lapsed"
    BY <1>6 DEF on_pause_expired, IsPaused
  <2>2. paused' = "no" /\ pauseTimer' = NoTimer
    BY <1>6, <2>1 DEF on_pause_expired
  <2>3. UNCHANGED <<active, saved, releasing, forcing, releaseTimer>>
    BY <1>6 DEF on_pause_expired
  <2>4. QED
    BY <2>1, <2>2, <2>3
<1>7. CASE on_release_grace_expired
  <2>1. releasing /\ ~forcing
    BY <1>7 DEF on_release_grace_expired
  <2>2. releaseTimer' = NoTimer
    BY <1>7, <2>1 DEF on_release_grace_expired
  <2>3. (releasing' <=> active) /\ (forcing' <=> active) /\ active' = active
    BY <1>7, <2>1, Zenon DEF on_release_grace_expired
  <2>4. UNCHANGED <<saved, paused, pauseTimer>>
    BY <1>7 DEF on_release_grace_expired
  <2>5. SuppressFlags'
    BY <1>7, Zenon DEF on_release_grace_expired
  <2>6. QED
    BY <2>1, <2>2, <2>3, <2>4, <2>5
<1>8. ASSUME NEW c \in Callers, async_restore_lights(c)
      PROVE  Suppression'
  <2>1. active' = FALSE /\ releasing' = FALSE /\ forcing' = FALSE
    BY <1>8, Zenon DEF async_restore_lights, CancelRelease
  <2>2. UNCHANGED <<paused, pauseTimer>> /\ releaseTimer' = NoTimer
    BY <1>8 DEF async_restore_lights
  <2>3. SuppressFlags'
    BY <2>1, <2>2, Zenon
  <2>4. QED
    BY <2>1, <2>2, <2>3
<1>9. CASE Elsewhere
  BY <1>9, SuppressionElsewhere
<1>10. QED
  <2>1. TVCommands => Elsewhere
    BY DEF TVCommands, handle_frame, handle_light_command, Elsewhere
  <2>2. ASSUME NEW t \in Tasks, DrainStep(t) PROVE Elsewhere
    BY <2>2 DEF DrainStep, DrainStarts, DrainWakes, DrainSends, DrainIdlesOut,
                DrainCancelled, DrainNeverRan, Elsewhere
  <2>3. ASSUME NEW c \in Callers, RestoreStep(c) \/ RestoreAbandoned(c) PROVE Elsewhere
    BY <2>3 DEF RestoreStep, RestoreResumes, RestoreTail, RestoreLight,
                RestoreAbandoned, Elsewhere
  <2>4. (\E l \in Lights : LightAvailability(l)) \/ StreamFallsQuiet => Elsewhere
    BY DEF LightAvailability, StreamFallsQuiet, Elsewhere
  <2>5. UNCHANGED vars => Elsewhere
    BY DEF vars, Elsewhere
  <2>6. QED
    BY <1>1, <1>2, <1>3, <1>4, <1>5, <1>6, <1>7, <1>8, <1>9, <2>1, <2>2, <2>3, <2>4, <2>5
    DEF Steps, Next, RestoreFails, Background

-----------------------------------------------------------------------------
(* Types, one group of variables at a time *)

SlotsOK == slot \in [Lights -> Slots] /\ last \in [Lights -> Colours \cup {None}]

DrainsOK ==
  /\ drains \in [Tasks -> DrainStates]
  /\ drainTask \in Tasks \cup {None}
  /\ \A t \in Tasks : drains[t].pc = "sending" =>
                        drains[t].pos \in Lights /\ drains[t].data \in Commands

LEMMA EmptySlotIsSlot == EmptySlot \in Slots
BY DEF EmptySlot, Slots

LEMMA ResetKeepsSlots == SlotsOK /\ ResetMappings => SlotsOK'
<1> SUFFICES ASSUME SlotsOK, ResetMappings
             PROVE  SlotsOK'
  OBVIOUS
<1>1. ASSUME NEW l \in Lights
      PROVE  [slot[l] EXCEPT !.dirty = FALSE, !.data = None] \in Slots
  BY DEF SlotsOK, Slots
<1>2. slot' \in [Lights -> Slots]
  BY <1>1 DEF ResetMappings
<1>3. last' \in [Lights -> Colours \cup {None}]
  BY DEF ResetMappings
<1>4. QED
  BY <1>2, <1>3 DEF SlotsOK

LEMMA GrabbedIsSlots ==
  ASSUME SlotsOK, NEW passed
  PROVE  Grabbed(passed) \in [Lights -> Slots]
BY EmptySlotIsSlot DEF SlotsOK, Grabbed

LEMMA PassKeepsSlots ==
  ASSUME SlotsOK, NEW t, NEW passed, NEW idle, Pass(t, passed, idle), UNCHANGED last
  PROVE  SlotsOK'
BY GrabbedIsSlots DEF Pass, SendNext, Sleep, SlotsOK

LEMMA SendNextKeepsSlots ==
  ASSUME SlotsOK, NEW t, NEW passed, NEW from, SendNext(t, passed, from), UNCHANGED last
  PROVE  SlotsOK'
BY GrabbedIsSlots DEF SendNext, SlotsOK

LEMMA MergeIsCommand ==
  ASSUME NEW pending, NEW body, Merge(pending, body) # None
  PROVE  Merge(pending, body) \in Commands
BY DEF Merge, ServiceData, Commands

LEMMA SlotsStep == SlotsOK /\ [Steps]_vars => SlotsOK'
<1> SUFFICES ASSUME SlotsOK, [Steps]_vars
             PROVE  SlotsOK'
  OBVIOUS
<1>1. CASE UNCHANGED queue
  BY <1>1 DEF queue, SlotsOK
<1>2. CASE ResetMappings
  BY <1>2, ResetKeepsSlots
<1>3. CASE async_snapshot_lights \/ async_pause \/ async_release
  BY <1>3, <1>2 DEF async_snapshot_lights, async_pause, async_release
<1>4. ASSUME NEW frame \in Frames, handle_frame(frame) PROVE SlotsOK'
  <2>1. CASE Suppressed
    BY <1>1, <1>4, <2>1 DEF handle_frame
  <2>2. CASE ~Suppressed
    <3>1. ScheduleUpdates(frame)
      BY <1>4, <2>2 DEF handle_frame
    <3>2. \A l \in DOMAIN frame : frame[l] \in Colours
      BY DEF Frames
    <3>3. QED
      BY <3>1, <3>2 DEF ScheduleUpdates, SlotsOK, Slots, Commands
  <2>3. QED
    BY <2>1, <2>2
<1>5. ASSUME NEW l \in Lights, NEW body \in Bodies, handle_light_command(l, body)
      PROVE  SlotsOK'
  <2>1. [dirty |-> TRUE, data |-> Merge(Pending(l), body), explicit |-> TRUE] \in Slots
    BY <1>5, MergeIsCommand DEF handle_light_command, Slots
  <2>2. QED
    BY <1>5, <2>1 DEF handle_light_command, SlotsOK
<1>6. ASSUME NEW t \in Tasks, DrainStep(t) PROVE SlotsOK'
  <2>1. CASE DrainStarts(t) \/ DrainWakes(t)
    BY <2>1, PassKeepsSlots DEF DrainStarts, DrainWakes
  <2>2. CASE DrainSends(t)
    BY <2>2, PassKeepsSlots, SendNextKeepsSlots DEF DrainSends
  <2>3. CASE DrainIdlesOut(t)
    BY <2>3, GrabbedIsSlots DEF DrainIdlesOut, SlotsOK
  <2>4. CASE DrainCancelled(t) \/ DrainNeverRan(t)
    BY <2>4, <1>1 DEF DrainCancelled, DrainNeverRan
  <2>5. QED
    BY <1>6, <2>1, <2>2, <2>3, <2>4 DEF DrainStep
<1>7. ASSUME NEW c \in Callers, async_restore_lights(c) \/ RestoreStep(c) \/ RestoreAbandoned(c)
      PROVE  SlotsOK'
  <2>1. CASE RestoreTail(c)
    BY <2>1, <1>2 DEF RestoreTail
  <2>2. CASE UNCHANGED <<slot, last>>
    BY <2>2 DEF SlotsOK
  <2>3. QED
    BY <1>7, <2>1, <2>2 DEF async_restore_lights, RestoreStep, RestoreResumes, RestoreLight,
                            RestoreAbandoned, queue
<1>8. QED
  <2>1. CASE async_resume \/ PauseLapses \/ on_pause_expired \/ on_release_grace_expired
             \/ StreamFallsQuiet \/ (\E l \in Lights : LightAvailability(l))
    BY <2>1, <1>1 DEF async_resume, PauseLapses, on_pause_expired,
                      on_release_grace_expired, StreamFallsQuiet, LightAvailability
  <2>2. CASE UNCHANGED vars
    BY <2>2, <1>1 DEF vars
  <2>3. QED
    BY <1>3, <1>4, <1>5, <1>6, <1>7, <2>1, <2>2 DEF Steps, Next, RestoreFails, TVCommands, Background

-----------------------------------------------------------------------------
(* The drain tasks *)

LEMMA DrainIsState ==
  ASSUME NEW pc \in {"done", "new", "waiting"}, NEW idle \in BOOLEAN
  PROVE  Drain(pc, idle) \in DrainStates /\ Drain(pc, idle).pc # "sending"
<1>1. 0 \in 0 .. N
  BY NAssumption
<1>2. QED
  BY <1>1 DEF Drain, DrainStates

\* Replacing one task's state by a state of the right type, not sending, keeps
\* the types.
LEMMA OneDrainChanges ==
  ASSUME DrainsOK, NEW t \in Tasks, NEW d \in DrainStates, d.pc # "sending",
         drains' = [drains EXCEPT ![t] = d], drainTask' \in Tasks \cup {None}
  PROVE  DrainsOK'
BY DEF DrainsOK

LEMMA SendNextKeepsDrains ==
  ASSUME DrainsOK, SlotsOK, NEW t \in Tasks, NEW passed, NEW from \in Nat \ {0},
         SendNext(t, passed, from), UNCHANGED drainTask
  PROVE  DrainsOK'
<1>1. PICK next \in from .. N :
        /\ Ready(next)
        /\ drains' = [drains EXCEPT ![t].pc = "sending", ![t].pos = next,
                                    ![t].data = slot[next].data]
  BY DEF SendNext
<1>2. next \in Lights /\ next \in 0 .. N
  BY NAssumption DEF Lights
<1>3. slot[next].data \in Commands
  BY <1>1, <1>2 DEF Ready, SlotsOK, Slots
<1>4. [drains[t] EXCEPT !.pc = "sending", !.pos = next, !.data = slot[next].data]
        \in DrainStates
  BY <1>2, <1>3 DEF DrainsOK, DrainStates
<1>5. drains' = [drains EXCEPT ![t] =
        [drains[t] EXCEPT !.pc = "sending", !.pos = next, !.data = slot[next].data]]
  BY <1>1 DEF DrainsOK, DrainStates
<1>6. drains' \in [Tasks -> DrainStates]
  BY <1>4, <1>5 DEF DrainsOK
<1>7. ASSUME NEW u \in Tasks, drains'[u].pc = "sending"
      PROVE  drains'[u].pos \in Lights /\ drains'[u].data \in Commands
  BY <1>2, <1>3, <1>5, <1>7 DEF DrainsOK, DrainStates
<1>8. QED
  BY <1>6, <1>7 DEF DrainsOK

LEMMA PassKeepsDrains ==
  ASSUME DrainsOK, SlotsOK, NEW t \in Tasks, NEW passed, NEW idle \in BOOLEAN,
         Pass(t, passed, idle), UNCHANGED drainTask
  PROVE  DrainsOK'
<1>1. CASE SendNext(t, passed, 1)
  BY <1>1, SendNextKeepsDrains
<1>2. CASE Sleep(t, idle)
  <2>1. (idle \/ ~active) \in BOOLEAN
    BY Zenon
  <2>2. PICK b \in BOOLEAN : drains' = [drains EXCEPT ![t] = Drain("waiting", b)]
    BY <1>2, <2>1, Zenon DEF Sleep
  <2>3. QED
    BY <2>2, DrainIsState, OneDrainChanges DEF DrainsOK
<1>3. QED
  BY <1>1, <1>2 DEF Pass

LEMMA EnsureKeepsDrains == DrainsOK /\ EnsureDrainTask => DrainsOK'
<1> SUFFICES ASSUME DrainsOK, EnsureDrainTask
             PROVE  DrainsOK'
  OBVIOUS
<1>1. CASE UNCHANGED drain
  BY <1>1 DEF drain, DrainsOK
<1>2. ASSUME NEW t \in FreeTasks, drainTask' = t,
             drains' = [drains EXCEPT ![t] = Drain("new", FALSE)]
      PROVE  DrainsOK'
  <2>1. t \in Tasks
    BY DEF FreeTasks
  <2>2. QED
    BY <1>2, <2>1, DrainIsState, OneDrainChanges
<1>3. QED
  BY <1>1, <1>2 DEF EnsureDrainTask

LEMMA DrainsStep == DrainsOK /\ SlotsOK /\ [Steps]_vars => DrainsOK'
<1> SUFFICES ASSUME DrainsOK, SlotsOK, [Steps]_vars
             PROVE  DrainsOK'
  OBVIOUS
<1>1. CASE UNCHANGED <<drains, drainTask>>
  BY <1>1 DEF DrainsOK
<1>2. CASE async_snapshot_lights
  BY <1>2, EnsureKeepsDrains DEF async_snapshot_lights
<1>3. CASE TVCommands
  BY <1>3, <1>1, EnsureKeepsDrains DEF TVCommands, handle_frame, handle_light_command, drain
<1>4. ASSUME NEW t \in Tasks, DrainStep(t) PROVE DrainsOK'
  <2>1. CASE DrainStarts(t)
    BY <2>1, PassKeepsDrains DEF DrainStarts
  <2>2. CASE DrainWakes(t)
    <3>1. drains[t].idle \in BOOLEAN
      BY DEF DrainsOK, DrainStates
    <3>2. QED
      BY <2>2, <3>1, PassKeepsDrains DEF DrainWakes
  <2>3. CASE DrainSends(t)
    <3>1. drains[t].pos + 1 \in Nat \ {0}
      BY NAssumption DEF DrainsOK, DrainStates
    <3>2. QED
      BY <2>3, <3>1, PassKeepsDrains, SendNextKeepsDrains DEF DrainSends
  <2>4. CASE DrainIdlesOut(t) \/ DrainCancelled(t) \/ DrainNeverRan(t)
    <3>1. drains' = [drains EXCEPT ![t] = Drain("done", FALSE)] /\ UNCHANGED drainTask
      BY <2>4 DEF DrainIdlesOut, DrainCancelled, DrainNeverRan, LeaveDrain
    <3>2. QED
      BY <3>1, DrainIsState, OneDrainChanges DEF DrainsOK
  <2>5. QED
    BY <1>4, <2>1, <2>2, <2>3, <2>4 DEF DrainStep
<1>5. ASSUME NEW c \in Callers, async_restore_lights(c) PROVE DrainsOK'
  <2>1. CASE Live(drainTask) /\ drains' = [drains EXCEPT ![drainTask].cancelled = TRUE]
    <3>1. drainTask' = drainTask /\ drainTask \in Tasks
      BY <1>5, <2>1 DEF async_restore_lights, Live, DrainsOK
    <3>2. drains' \in [Tasks -> DrainStates]
      <4>1. drains[drainTask] \in DrainStates /\ drains \in [Tasks -> DrainStates]
        BY <3>1 DEF DrainsOK
      <4>2. [drains[drainTask] EXCEPT !.cancelled = TRUE] \in DrainStates
        BY <4>1 DEF DrainStates
      <4>3. QED
        BY <2>1, <4>1, <4>2
    <3>3. \A u \in Tasks : /\ drains'[u].pc = drains[u].pc
                           /\ drains'[u].pos = drains[u].pos
                           /\ drains'[u].data = drains[u].data
      BY <2>1, <3>1 DEF DrainsOK, DrainStates
    <3>4. QED
      BY <3>1, <3>2, <3>3 DEF DrainsOK
  <2>2. QED
    BY <1>5, <1>1, <2>1 DEF async_restore_lights
<1>6. ASSUME NEW c \in Callers, RestoreStep(c) \/ RestoreAbandoned(c) PROVE DrainsOK'
  <2>1. UNCHANGED drains /\ drainTask' \in {drainTask, None}
    BY <1>6 DEF RestoreStep, RestoreResumes, RestoreLight, RestoreAbandoned, drain
  <2>2. QED
    BY <2>1 DEF DrainsOK
<1>7. QED
  <2>1. CASE async_pause \/ async_resume \/ async_release \/ PauseLapses \/ on_pause_expired
             \/ on_release_grace_expired \/ StreamFallsQuiet
             \/ (\E l \in Lights : LightAvailability(l)) \/ UNCHANGED vars
    BY <2>1, <1>1 DEF async_pause, async_resume, async_release, PauseLapses, on_pause_expired,
       on_release_grace_expired, StreamFallsQuiet, LightAvailability, vars, drain
  <2>2. QED
    BY <1>2, <1>3, <1>4, <1>5, <1>6, <2>1 DEF Steps, Next, RestoreFails, Background

-----------------------------------------------------------------------------
(* What is queued while paused or releasing *)

\* No slot gets dirty, and no suppression begins.
NothingNew ==
  /\ Suppressed' => Suppressed
  /\ \A l \in Lights : slot'[l].dirty => slot[l].dirty

LEMMA ResetEmpties == SlotsOK /\ ResetMappings => \A l \in Lights : ~slot'[l].dirty
<1> SUFFICES ASSUME SlotsOK, ResetMappings, NEW l \in Lights
             PROVE  ~slot'[l].dirty
  OBVIOUS
<1>1. slot[l] \in [dirty : BOOLEAN, data : Commands \cup {None}, explicit : BOOLEAN]
  BY DEF SlotsOK, Slots
<1>2. slot'[l] = [slot[l] EXCEPT !.dirty = FALSE, !.data = None]
  BY DEF ResetMappings
<1>3. QED
  BY <1>1, <1>2

LEMMA GrabbedIsCleaner ==
  ASSUME SlotsOK, NEW passed, slot' = Grabbed(passed), NEW l \in Lights, slot'[l].dirty
  PROVE  slot[l].dirty
BY DEF SlotsOK, Slots, Grabbed, EmptySlot

LEMMA PassIsCleaner ==
  ASSUME SlotsOK, NEW t, NEW passed, NEW idle, NEW from,
         Pass(t, passed, idle) \/ SendNext(t, passed, from),
         NEW l \in Lights, slot'[l].dirty
  PROVE  slot[l].dirty
BY GrabbedIsCleaner DEF Pass, SendNext, Sleep

LEMMA QueueStep ==
  Suppression /\ SlotsOK /\ NothingQueuedWhileSuppressed /\ [Steps]_vars
    => NothingQueuedWhileSuppressed'
<1> SUFFICES ASSUME Suppression, SlotsOK, NothingQueuedWhileSuppressed, [Steps]_vars
             PROVE  NothingQueuedWhileSuppressed'
  OBVIOUS
<1>1. CASE NothingNew
  BY <1>1 DEF NothingNew, NothingQueuedWhileSuppressed
<1>2. CASE ResetMappings
  BY <1>2, ResetEmpties DEF NothingQueuedWhileSuppressed
<1>3. CASE ~Suppressed'
  BY <1>3 DEF NothingQueuedWhileSuppressed
<1>4. UNCHANGED suppress => (Suppressed' <=> Suppressed)
  BY DEF suppress, Suppressed, IsPaused
<1>5. CASE async_snapshot_lights \/ async_pause \/ async_release
  BY <1>5, <1>2 DEF async_snapshot_lights, async_pause, async_release
<1>6. ASSUME NEW frame \in Frames, handle_frame(frame) PROVE NothingQueuedWhileSuppressed'
  <2>1. CASE Suppressed
    BY <2>1, <1>6, <1>4, <1>1 DEF handle_frame, queue, NothingNew
  <2>2. CASE ~Suppressed
    BY <2>2, <1>6, <1>4, <1>3 DEF handle_frame
  <2>3. QED
    BY <2>1, <2>2
<1>7. ASSUME NEW l \in Lights, NEW body \in Bodies, handle_light_command(l, body)
      PROVE  NothingQueuedWhileSuppressed'
  BY <1>7, <1>4, <1>3 DEF handle_light_command
<1>8. ASSUME NEW t \in Tasks, DrainStep(t) PROVE NothingQueuedWhileSuppressed'
  <2>1. UNCHANGED suppress
    BY <1>8 DEF DrainStep, DrainStarts, DrainWakes, DrainSends, DrainIdlesOut,
                DrainCancelled, DrainNeverRan
  <2>2. ASSUME NEW l \in Lights, slot'[l].dirty PROVE slot[l].dirty
    <3>1. CASE DrainStarts(t) \/ DrainWakes(t) \/ DrainSends(t)
      BY <3>1, <2>2, PassIsCleaner DEF DrainStarts, DrainWakes, DrainSends
    <3>2. CASE DrainIdlesOut(t)
      BY <3>2, <2>2, GrabbedIsCleaner DEF DrainIdlesOut
    <3>3. CASE DrainCancelled(t) \/ DrainNeverRan(t)
      BY <3>3, <2>2 DEF DrainCancelled, DrainNeverRan, queue
    <3>4. QED
      BY <1>8, <3>1, <3>2, <3>3 DEF DrainStep
  <2>3. QED
    BY <2>1, <2>2, <1>4, <1>1 DEF NothingNew
<1>9. ASSUME NEW c \in Callers, async_restore_lights(c) \/ RestoreStep(c) \/ RestoreAbandoned(c)
      PROVE  NothingQueuedWhileSuppressed'
  <2>1. ResetMappings \/ UNCHANGED slot
    BY <1>9 DEF async_restore_lights, RestoreStep, RestoreResumes, RestoreTail, RestoreLight,
                RestoreAbandoned, queue
  <2>2. UNCHANGED paused /\ (releasing' => releasing)
    <3>1. CASE async_restore_lights(c)
      <4>1. ~releasing'
        BY <3>1, Zenon DEF async_restore_lights, CancelRelease
      <4>2. UNCHANGED paused
        BY <3>1, Zenon DEF async_restore_lights
      <4>3. QED
        BY <4>1, <4>2
    <3>2. CASE RestoreStep(c) \/ RestoreAbandoned(c)
      <4>1. UNCHANGED suppress
        BY <3>2 DEF RestoreStep, RestoreResumes, RestoreLight, RestoreAbandoned
      <4>2. QED
        BY <4>1, Zenon DEF suppress
    <3>3. QED
      BY <1>9, <3>1, <3>2
  <2>3. QED
    BY <2>1, <2>2, <1>1, <1>2 DEF NothingNew, Suppressed, IsPaused
<1>10. ASSUME async_resume \/ PauseLapses \/ on_pause_expired \/ on_release_grace_expired
              \/ StreamFallsQuiet \/ (\E l \in Lights : LightAvailability(l))
       PROVE  NothingQueuedWhileSuppressed'
  <2>1. UNCHANGED slot
    BY <1>10 DEF async_resume, PauseLapses, on_pause_expired, on_release_grace_expired,
                 StreamFallsQuiet, LightAvailability, queue
  <2>2. Suppressed' => Suppressed
    <3>1. CASE StreamFallsQuiet \/ (\E l \in Lights : LightAvailability(l))
      BY <3>1, <1>4 DEF StreamFallsQuiet, LightAvailability
    <3>2. CASE async_resume \/ PauseLapses \/ on_pause_expired
      BY <3>2 DEF async_resume, PauseLapses, on_pause_expired, CancelPause, Suppressed, IsPaused
    <3>3. CASE on_release_grace_expired
      BY <3>3 DEF on_release_grace_expired, Suppressed, IsPaused
    <3>4. QED
      BY <1>10, <3>1, <3>2, <3>3
  <2>3. QED
    BY <2>1, <2>2, <1>1 DEF NothingNew
<1>11. CASE UNCHANGED vars
  BY <1>11, <1>4, <1>1 DEF vars, queue, NothingNew
<1>12. QED
  BY <1>5, <1>6, <1>7, <1>8, <1>9, <1>10, <1>11 DEF Steps, Next, RestoreFails, TVCommands, Background

-----------------------------------------------------------------------------
(* What pause and release promise *)

Inv == Suppression /\ SlotsOK /\ DrainsOK /\ NothingQueuedWhileSuppressed

LEMMA InvInit == Init => Inv
<1> SUFFICES ASSUME Init
             PROVE  Inv
  OBVIOUS
<1>1. SlotsOK
  BY EmptySlotIsSlot DEF Init, SlotsOK
<1>2. DrainsOK
  BY DrainIsState DEF Init, DrainsOK
<1>3. NothingQueuedWhileSuppressed
  BY DEF Init, NothingQueuedWhileSuppressed, Suppressed, IsPaused
<1>4. QED
  BY <1>1, <1>2, <1>3, SuppressionInit DEF Inv

\* The inductive invariant: the timers match the pause and release flags, the
\* slots and drain tasks have their types, and nothing is queued while suppressed.
LEMMA Invariance == StepsSpec => []Inv
<1>1. Inv /\ [Steps]_vars => Inv'
  BY SuppressionStep, SlotsStep, DrainsStep, QueueStep DEF Inv
<1>2. QED
  BY <1>1, InvInit, PTL DEF StepsSpec

LEMMA InvPromises == Inv => TimersHeld /\ ReleaseHasResolver /\ NothingQueuedWhileSuppressed
<1>1. Inv => TimersHeld
  BY TimerFacts DEF Inv, Suppression, SuppressFlags, TimersMatch, ReleaseState, TimersHeld
<1>2. Inv => ReleaseHasResolver
  BY TimerFacts
  DEF Inv, Suppression, SuppressFlags, TimersMatch, ReleaseState, ReleaseHasResolver
<1>3. QED
  BY <1>1, <1>2 DEF Inv

\* No expiry callback of an earlier pause or release is left armed, and a pause
\* has its timer, however pauses, releases, sessions and teardowns follow.
THEOREM TimersAreHeld == Spec => []TimersHeld
BY SpecTakesSteps, Invariance, InvPromises, PTL

\* A release in force always has its grace timer, or a session the frame
\* watchdog will tear down.
THEOREM ReleaseIsResolved == Spec => []ReleaseHasResolver
BY SpecTakesSteps, Invariance, InvPromises, PTL

\* Nothing is queued while paused or releasing.
THEOREM NothingIsQueued == Spec => []NothingQueuedWhileSuppressed
BY SpecTakesSteps, Invariance, InvPromises, PTL

\* A step in a suppressed state begins no service call.
LEMMA SuppressedSendsNothing ==
  ASSUME Inv, Suppressed, [Steps]_vars, NEW t \in Tasks
  PROVE  ~SendBegins(t)
<1>1. \A l \in Lights : ~Ready(l)
  BY DEF Inv, NothingQueuedWhileSuppressed, Ready
<1>2. DrainsOK
  BY DEF Inv
<1>3. CASE drains'[t].pc # "sending" \/ UNCHANGED <<drains[t].pc, drains[t].pos>>
  BY <1>3 DEF SendBegins
<1>4. CASE UNCHANGED drains
  BY <1>4, <1>3
<1>5. ASSUME NEW u \in Tasks, NEW pc \in {"done", "new", "waiting"}, NEW idle,
             drains' = [drains EXCEPT ![u] = Drain(pc, idle)]
      PROVE  ~SendBegins(t)
  BY <1>5, <1>2, <1>3 DEF DrainsOK, Drain
<1>6. CASE EnsureDrainTask
  BY <1>6, <1>4, <1>5 DEF EnsureDrainTask, FreeTasks, drain
<1>7. ASSUME NEW u \in Tasks, NEW passed, NEW idle, Pass(u, passed, idle)
      PROVE  ~SendBegins(t)
  BY <1>7, <1>1, <1>5 DEF Pass, Sleep
<1>8. ASSUME NEW u \in Tasks, DrainStep(u) PROVE ~SendBegins(t)
  <2>1. CASE DrainStarts(u) \/ DrainWakes(u)
    BY <2>1, <1>7 DEF DrainStarts, DrainWakes
  <2>2. CASE DrainSends(u)
    <3>1. \A l \in drains[u].pos + 1 .. N : l \in Lights
      BY <1>2 DEF DrainsOK, DrainStates, Lights
    <3>2. QED
      BY <2>2, <3>1, <1>1, <1>7 DEF DrainSends
  <2>3. CASE DrainIdlesOut(u) \/ DrainCancelled(u) \/ DrainNeverRan(u)
    BY <2>3, <1>5 DEF DrainIdlesOut, DrainCancelled, DrainNeverRan, LeaveDrain
  <2>4. QED
    BY <1>8, <2>1, <2>2, <2>3 DEF DrainStep
<1>9. ASSUME NEW c \in Callers, async_restore_lights(c) PROVE ~SendBegins(t)
  <2>1. CASE Live(drainTask) /\ drains' = [drains EXCEPT ![drainTask].cancelled = TRUE]
    BY <2>1, <1>2, <1>3 DEF DrainsOK, DrainStates
  <2>2. QED
    BY <1>9, <1>4, <2>1 DEF async_restore_lights
<1>10. ASSUME NEW c \in Callers, RestoreStep(c) \/ RestoreAbandoned(c) PROVE ~SendBegins(t)
  BY <1>10, <1>4 DEF RestoreStep, RestoreResumes, RestoreLight,
                     RestoreAbandoned, drain
<1>11. CASE async_snapshot_lights \/ TVCommands
  BY <1>11, <1>4, <1>6 DEF async_snapshot_lights, TVCommands, handle_frame,
                           handle_light_command, drain
<1>12. CASE async_pause \/ async_resume \/ async_release \/ PauseLapses \/ on_pause_expired
            \/ on_release_grace_expired \/ StreamFallsQuiet
            \/ (\E l \in Lights : LightAvailability(l)) \/ UNCHANGED vars
  BY <1>12, <1>4 DEF async_pause, async_resume, async_release, PauseLapses, on_pause_expired,
     on_release_grace_expired, StreamFallsQuiet, LightAvailability, vars, drain
<1>13. QED
  BY <1>8, <1>9, <1>10, <1>11, <1>12 DEF Steps, Next, RestoreFails, Background

LEMMA StepsSendNothingSuppressed == StepsSpec => NoSendBeginsWhileSuppressed
<1>1. Inv /\ [Steps]_vars => [\A t \in Tasks : SendBegins(t) => ~Suppressed]_vars
  BY SuppressedSendsNothing
<1>2. QED
  BY <1>1, Invariance, PTL DEF StepsSpec, NoSendBeginsWhileSuppressed

\* The drain loop starts no service call while paused or releasing.
THEOREM NoSendWhileSuppressed == Spec => NoSendBeginsWhileSuppressed
BY SpecTakesSteps, StepsSendNothingSuppressed, PTL

-----------------------------------------------------------------------------
(* The types of the remaining variables *)

FlagsOK ==
  /\ quiet \in BOOLEAN /\ wake \in BOOLEAN /\ drainRunning \in BOOLEAN
  /\ avail \in [Lights -> BOOLEAN]

LEMMA QuietStep == FlagsOK /\ [Steps]_vars => quiet' \in BOOLEAN
<1> SUFFICES ASSUME FlagsOK, [Steps]_vars
             PROVE  quiet' \in BOOLEAN
  OBVIOUS
<1>1. CASE UNCHANGED quiet
  BY <1>1 DEF FlagsOK
<1>2. CASE async_snapshot_lights \/ StreamFallsQuiet
  BY <1>2, Zenon DEF async_snapshot_lights, StreamFallsQuiet
<1>3. ASSUME NEW frame \in Frames, handle_frame(frame) PROVE quiet' \in BOOLEAN
  BY <1>3, Zenon DEF handle_frame
<1>4. ASSUME NEW t \in Tasks, DrainStep(t) PROVE UNCHANGED quiet
  BY <1>4 DEF DrainStep, DrainStarts, DrainWakes, DrainSends, DrainIdlesOut,
              DrainCancelled, DrainNeverRan, session
<1>5. ASSUME NEW c \in Callers, async_restore_lights(c) \/ RestoreStep(c) \/ RestoreAbandoned(c)
      PROVE  UNCHANGED quiet
  BY <1>5 DEF async_restore_lights, RestoreStep, RestoreResumes, RestoreLight,
              RestoreAbandoned, session
<1>6. ASSUME async_pause \/ async_resume \/ async_release \/ PauseLapses \/ on_pause_expired
             \/ on_release_grace_expired \/ (\E l \in Lights : LightAvailability(l))
             \/ (\E l \in Lights, body \in Bodies : handle_light_command(l, body))
             \/ UNCHANGED vars
      PROVE  UNCHANGED quiet
  BY <1>6 DEF async_pause, async_resume, async_release, PauseLapses, on_pause_expired,
     on_release_grace_expired, LightAvailability, handle_light_command, vars, session
<1>7. QED
  BY <1>1, <1>2, <1>3, <1>4, <1>5, <1>6 DEF Steps, Next, RestoreFails, TVCommands, Background

LEMMA WakeStep == FlagsOK /\ [Steps]_vars => wake' \in BOOLEAN
<1> SUFFICES ASSUME FlagsOK, [Steps]_vars
             PROVE  wake' \in BOOLEAN
  OBVIOUS
<1>1. CASE UNCHANGED wake
  BY <1>1 DEF FlagsOK
<1>2. ASSUME NEW frame \in Frames, handle_frame(frame) PROVE wake' \in BOOLEAN
  <2>1. CASE ScheduleUpdates(frame)
    BY <2>1, Zenon DEF ScheduleUpdates
  <2>2. CASE UNCHANGED queue
    BY <2>2, <1>1 DEF queue
  <2>3. QED
    BY <1>2, <2>1, <2>2 DEF handle_frame
<1>3. ASSUME NEW t \in Tasks, DrainStep(t) PROVE wake' \in BOOLEAN
  BY <1>3, <1>1 DEF DrainStep, DrainStarts, DrainWakes, DrainSends, DrainIdlesOut,
                    DrainCancelled, DrainNeverRan, Pass, queue
<1>4. ASSUME NEW l \in Lights, NEW body \in Bodies, handle_light_command(l, body)
      PROVE  wake' \in BOOLEAN
  BY <1>4, Zenon DEF handle_light_command
<1>5. ASSUME NEW c \in Callers, async_restore_lights(c) \/ RestoreStep(c) \/ RestoreAbandoned(c)
      PROVE  UNCHANGED wake
  BY <1>5 DEF async_restore_lights, RestoreStep, RestoreResumes, RestoreLight,
              RestoreAbandoned, queue
<1>6. ASSUME async_snapshot_lights \/ async_pause \/ async_resume \/ async_release
             \/ PauseLapses \/ on_pause_expired \/ on_release_grace_expired
             \/ StreamFallsQuiet \/ (\E l \in Lights : LightAvailability(l))
             \/ UNCHANGED vars
      PROVE  UNCHANGED wake
  BY <1>6 DEF async_snapshot_lights, async_pause, async_resume, async_release, PauseLapses,
     on_pause_expired, on_release_grace_expired, StreamFallsQuiet, LightAvailability,
     vars, queue
<1>7. QED
  BY <1>1, <1>2, <1>3, <1>4, <1>5, <1>6 DEF Steps, Next, RestoreFails, TVCommands, Background

LEMMA RunningStep == FlagsOK /\ [Steps]_vars => drainRunning' \in BOOLEAN
<1> SUFFICES ASSUME FlagsOK, [Steps]_vars
             PROVE  drainRunning' \in BOOLEAN
  OBVIOUS
<1>1. CASE UNCHANGED drainRunning
  BY <1>1 DEF FlagsOK
<1>2. CASE EnsureDrainTask
  BY <1>2, <1>1 DEF EnsureDrainTask, drain
<1>3. ASSUME NEW c \in Callers, RestoreTail(c) PROVE drainRunning' \in BOOLEAN
  BY <1>3, Zenon DEF RestoreTail
<1>4. ASSUME NEW t \in Tasks, DrainStep(t) PROVE drainRunning' \in BOOLEAN
  BY <1>4, <1>1 DEF DrainStep, DrainStarts, DrainWakes, DrainSends, DrainIdlesOut,
                    DrainCancelled, DrainNeverRan, LeaveDrain
<1>5. ASSUME NEW c \in Callers, async_restore_lights(c) \/ RestoreStep(c) \/ RestoreAbandoned(c)
      PROVE  drainRunning' \in BOOLEAN
  BY <1>5, <1>1, <1>3 DEF async_restore_lights, RestoreStep, RestoreResumes, RestoreLight,
                          RestoreAbandoned, drain
<1>6. CASE async_snapshot_lights \/ TVCommands
  BY <1>6, <1>1, <1>2 DEF async_snapshot_lights, TVCommands, handle_frame,
                          handle_light_command, drain
<1>7. ASSUME async_pause \/ async_resume \/ async_release \/ PauseLapses \/ on_pause_expired
             \/ on_release_grace_expired \/ StreamFallsQuiet
             \/ (\E l \in Lights : LightAvailability(l)) \/ UNCHANGED vars
      PROVE  UNCHANGED drainRunning
  BY <1>7 DEF async_pause, async_resume, async_release, PauseLapses, on_pause_expired,
     on_release_grace_expired, StreamFallsQuiet, LightAvailability, vars, drain
<1>8. QED
  BY <1>1, <1>4, <1>5, <1>6, <1>7 DEF Steps, Next, RestoreFails, Background

LEMMA AvailStep == FlagsOK /\ [Steps]_vars => avail' \in [Lights -> BOOLEAN]
<1> SUFFICES ASSUME FlagsOK, [Steps]_vars
             PROVE  avail' \in [Lights -> BOOLEAN]
  OBVIOUS
<1>1. CASE UNCHANGED avail
  BY <1>1 DEF FlagsOK
<1>2. ASSUME NEW l \in Lights, LightAvailability(l) PROVE avail' \in [Lights -> BOOLEAN]
  <2>1. (~avail[l]) \in BOOLEAN
    BY Zenon
  <2>2. PICK b \in BOOLEAN : avail' = [avail EXCEPT ![l] = b]
    BY <1>2, <2>1, Zenon DEF LightAvailability
  <2>3. QED
    BY <2>2 DEF FlagsOK
<1>3. ASSUME NEW t \in Tasks, DrainStep(t) PROVE UNCHANGED avail
  BY <1>3 DEF DrainStep, DrainStarts, DrainWakes, DrainSends, DrainIdlesOut,
              DrainCancelled, DrainNeverRan, world
<1>4. ASSUME NEW c \in Callers, async_restore_lights(c) \/ RestoreStep(c) \/ RestoreAbandoned(c)
      PROVE  UNCHANGED avail
  BY <1>4 DEF async_restore_lights, RestoreStep, RestoreResumes, RestoreLight,
              RestoreAbandoned, world
<1>5. ASSUME async_snapshot_lights \/ TVCommands \/ async_pause \/ async_resume
             \/ async_release \/ PauseLapses \/ on_pause_expired
             \/ on_release_grace_expired \/ StreamFallsQuiet \/ UNCHANGED vars
      PROVE  UNCHANGED avail
  BY <1>5 DEF async_snapshot_lights, TVCommands, handle_frame, handle_light_command,
     async_pause, async_resume, async_release, PauseLapses, on_pause_expired,
     on_release_grace_expired, StreamFallsQuiet, vars, world
<1>6. QED
  BY <1>1, <1>2, <1>3, <1>4, <1>5 DEF Steps, Next, RestoreFails, Background

LEMMA ReadingTyped == Reading \in Readings /\ Reading' \in Readings
<1>1. Activity \in Activities /\ Status \in Activities \cup {"paused", "releasing"}
  BY DEF Activity, Activities, Status
<1>2. Activity' \in Activities /\ Status' \in Activities \cup {"paused", "releasing"}
  BY DEF Activity, Activities, Status
<1>3. QED
  BY <1>1, <1>2 DEF Reading, Readings

LEMMA SensorStep == sensor \in Readings /\ [Steps]_vars => sensor' \in Readings
<1> SUFFICES ASSUME sensor \in Readings, [Steps]_vars
             PROVE  sensor' \in Readings
  OBVIOUS
<1>1. Notify => sensor' \in Readings
  BY ReadingTyped DEF Notify
<1>2. UNCHANGED sensor => sensor' \in Readings
  OBVIOUS
<1>3. ASSUME NEW t \in Tasks, DrainStep(t) PROVE sensor' \in Readings
  BY <1>3, <1>1, <1>2 DEF DrainStep, DrainStarts, DrainWakes, DrainSends, DrainIdlesOut,
                          DrainCancelled, DrainNeverRan
<1>4. ASSUME NEW c \in Callers, async_restore_lights(c) \/ RestoreStep(c) \/ RestoreAbandoned(c)
      PROVE  sensor' \in Readings
  BY <1>4, <1>1, <1>2 DEF async_restore_lights, RestoreStep, RestoreResumes, RestoreTail,
                          RestoreLight, RestoreAbandoned
<1>5. CASE async_snapshot_lights \/ TVCommands \/ async_pause \/ async_resume \/ async_release
  BY <1>5, <1>1, <1>2 DEF async_snapshot_lights, TVCommands, handle_frame,
     handle_light_command, async_pause, async_resume, async_release
<1>6. CASE PauseLapses \/ on_pause_expired \/ on_release_grace_expired \/ StreamFallsQuiet
           \/ (\E l \in Lights : LightAvailability(l)) \/ UNCHANGED vars
  BY <1>6, <1>1, <1>2 DEF PauseLapses, on_pause_expired, on_release_grace_expired,
     StreamFallsQuiet, LightAvailability, vars
<1>7. QED
  BY <1>3, <1>4, <1>5, <1>6 DEF Steps, Next, RestoreFails, Background

\* A light being restored has something to be restored to.
RestoreOK(c) ==
  /\ restore[c] \in RestoreStates
  /\ \A l \in restore[c].todo : restore[c].saved[l] # None

WorldOK ==
  /\ saved \in [Lights -> Snapshots] \cup {None}
  /\ restore \in [Callers -> RestoreStates]
  /\ \A c \in Callers : RestoreOK(c)
  /\ lamp \in [Lights -> LampStates]

LEMMA NoRestoreIsState == NoRestore \in RestoreStates /\ NoRestore.todo = {}
BY DEF NoRestore, RestoreStates, Snapshots

\* Replacing the state of one restore by one of the right type keeps the types.
LEMMA OneRestoreChanges ==
  ASSUME WorldOK, NEW c \in Callers, NEW r \in RestoreStates,
         \A l \in r.todo : r.saved[l] # None,
         restore' = [restore EXCEPT ![c] = r],
         saved' \in {saved, None}, lamp' \in [Lights -> LampStates]
  PROVE  WorldOK'
BY DEF WorldOK, RestoreOK

LEMMA TailKeepsWorld ==
  ASSUME WorldOK, NEW c \in Callers, RestoreTail(c), UNCHANGED lamp
  PROVE  WorldOK'
<1> DEFINE todo == {l \in Lights : saved # None /\ saved[l] # None}
           left == [pc |-> "restoring", task |-> None, todo |-> todo, saved |-> saved]
<1>1. lamp' \in [Lights -> LampStates] /\ saved' = None
  BY DEF WorldOK, RestoreTail
<1>2. CASE todo = {}
  BY <1>1, <1>2, NoRestoreIsState, OneRestoreChanges DEF RestoreTail
<1>3. CASE todo # {}
  <2>1. saved \in [Lights -> Snapshots]
    BY <1>3 DEF WorldOK
  <2>2. left \in RestoreStates /\ \A l \in left.todo : left.saved[l] # None
    BY <2>1 DEF RestoreStates
  <2>3. restore' = [restore EXCEPT ![c] = left]
    BY <1>3 DEF RestoreTail
  <2>4. QED
    BY <1>1, <2>2, <2>3, OneRestoreChanges
<1>4. QED
  BY <1>2, <1>3

LEMMA LandsKeepsLamp ==
  ASSUME WorldOK, DrainsOK, NEW t \in Tasks, drains[t].pc = "sending", Lands(t)
  PROVE  lamp' \in [Lights -> LampStates]
BY DEF WorldOK, DrainsOK, Lands, LampStates

LEMMA WorldStep == WorldOK /\ DrainsOK /\ [Steps]_vars => WorldOK'
<1> SUFFICES ASSUME WorldOK, DrainsOK, [Steps]_vars
             PROVE  WorldOK'
  OBVIOUS
<1>1. ASSUME UNCHANGED restore, saved' \in [Lights -> Snapshots] \cup {None},
             lamp' \in [Lights -> LampStates]
      PROVE  WorldOK'
  BY <1>1 DEF WorldOK, RestoreOK
<1>2. CASE UNCHANGED <<saved, restore, lamp>>
  BY <1>2, <1>1 DEF WorldOK
<1>3. CASE async_snapshot_lights
  <2>1. saved' \in [Lights -> Snapshots]
    BY <1>3 DEF async_snapshot_lights, WorldOK, Snapshots
  <2>2. UNCHANGED <<restore, lamp>>
    BY <1>3 DEF async_snapshot_lights, world
  <2>3. QED
    BY <2>1, <2>2, <1>1 DEF WorldOK
<1>4. CASE async_release
  BY <1>4, <1>1 DEF async_release, world, WorldOK
<1>5. ASSUME NEW t \in Tasks, DrainStep(t) PROVE WorldOK'
  <2>1. UNCHANGED <<restore, saved>>
    BY <1>5 DEF DrainStep, DrainStarts, DrainWakes, DrainSends, DrainIdlesOut,
                DrainCancelled, DrainNeverRan, session
  <2>2. lamp' \in [Lights -> LampStates]
    <3>1. UNCHANGED lamp \/ (drains[t].pc = "sending" /\ Lands(t))
      BY <1>5 DEF DrainStep, DrainStarts, DrainWakes, DrainSends, DrainIdlesOut,
                  DrainCancelled, DrainNeverRan, world
    <3>2. QED
      BY <3>1, LandsKeepsLamp DEF WorldOK
  <2>3. QED
    BY <2>1, <2>2, <1>1 DEF WorldOK
<1>6. ASSUME NEW c \in Callers, async_restore_lights(c) PROVE WorldOK'
  <2>1. UNCHANGED lamp
    BY <1>6 DEF async_restore_lights, world
  <2>2. CASE RestoreTail(c)
    BY <2>1, <2>2, TailKeepsWorld
  <2>3. ASSUME restore' = [restore EXCEPT ![c].pc = "draining", ![c].task = drainTask],
               UNCHANGED saved
        PROVE  WorldOK'
    <3> DEFINE r == [restore[c] EXCEPT !.pc = "draining", !.task = drainTask]
    <3>1. r \in RestoreStates /\ \A l \in r.todo : r.saved[l] # None
      BY DEF WorldOK, RestoreOK, RestoreStates, DrainsOK
    <3>2. restore' = [restore EXCEPT ![c] = r]
      BY <2>3 DEF WorldOK
    <3>3. QED
      BY <2>1, <2>3, <3>1, <3>2, OneRestoreChanges DEF WorldOK
  <2>4. QED
    BY <1>6, <2>2, <2>3 DEF async_restore_lights
<1>7. ASSUME NEW c \in Callers, RestoreResumes(c) PROVE WorldOK'
  BY <1>7, TailKeepsWorld DEF RestoreResumes, world
<1>8. ASSUME NEW c \in Callers, NEW l \in Lights, RestoreLight(c, l) PROVE WorldOK'
  <2> DEFINE r == [restore[c] EXCEPT !.todo = restore[c].todo \ {l}]
  <2>1. restore[c].saved[l] \in LampStates
    BY <1>8 DEF RestoreLight, WorldOK, RestoreOK, RestoreStates, Snapshots
  <2>2. lamp' \in [Lights -> LampStates] /\ UNCHANGED saved
    BY <1>8, <2>1 DEF RestoreLight, WorldOK, session
  <2>3. r \in RestoreStates /\ \A m \in r.todo : r.saved[m] # None
    BY DEF WorldOK, RestoreOK, RestoreStates
  <2>4. restore' = [restore EXCEPT ![c] = NoRestore] \/ restore' = [restore EXCEPT ![c] = r]
    BY <1>8 DEF RestoreLight
  <2>5. QED
    BY <2>2, <2>3, <2>4, NoRestoreIsState, OneRestoreChanges DEF WorldOK
<1>9. ASSUME NEW c \in Callers, RestoreAbandoned(c) PROVE WorldOK'
  <2>1. UNCHANGED <<saved, lamp>> /\ restore' = [restore EXCEPT ![c] = NoRestore]
    BY <1>9 DEF RestoreAbandoned, session, world
  <2>2. QED
    BY <2>1, NoRestoreIsState, OneRestoreChanges DEF WorldOK
<1>10. ASSUME TVCommands \/ async_pause \/ async_resume \/ PauseLapses \/ on_pause_expired
              \/ on_release_grace_expired \/ StreamFallsQuiet
              \/ (\E l \in Lights : LightAvailability(l)) \/ UNCHANGED vars
       PROVE  WorldOK'
  BY <1>10, <1>2 DEF TVCommands, handle_frame, handle_light_command, async_pause,
     async_resume, PauseLapses, on_pause_expired, on_release_grace_expired,
     StreamFallsQuiet, LightAvailability, vars, session, world
<1>11. QED
  BY <1>3, <1>4, <1>5, <1>6, <1>7, <1>8, <1>9, <1>10 DEF Steps, Next, RestoreFails, Background, RestoreStep

-----------------------------------------------------------------------------
(* The snapshot and the sensors *)

LEMMA SnapshotStep ==
  WorldOK /\ SnapshotHasSession /\ [Steps]_vars => SnapshotHasSession'
<1> SUFFICES ASSUME WorldOK, SnapshotHasSession, [Steps]_vars
             PROVE  SnapshotHasSession'
  OBVIOUS
<1>1. CASE saved' = None \/ active'
  BY <1>1 DEF SnapshotHasSession
<1>2. CASE UNCHANGED <<active, saved, restore>>
  BY <1>2 DEF SnapshotHasSession
<1>3. CASE async_snapshot_lights \/ async_release
  BY <1>3, <1>1 DEF async_snapshot_lights, async_release
<1>4. ASSUME NEW c \in Callers, async_restore_lights(c) PROVE SnapshotHasSession'
  <2>1. CASE RestoreTail(c)
    BY <2>1, <1>1 DEF RestoreTail
  <2>2. CASE restore' = [restore EXCEPT ![c].pc = "draining", ![c].task = drainTask]
    <3>1. restore'[c].pc = "draining"
      BY <2>2 DEF WorldOK, RestoreStates
    <3>2. QED
      BY <3>1 DEF SnapshotHasSession
  <2>3. QED
    BY <1>4, <2>1, <2>2 DEF async_restore_lights
<1>5. ASSUME NEW c \in Callers, RestoreResumes(c) PROVE SnapshotHasSession'
  BY <1>5, <1>1 DEF RestoreResumes, RestoreTail
<1>6. ASSUME NEW c \in Callers, RestoreAbandoned(c) \/ (\E l \in Lights : RestoreLight(c, l))
      PROVE  SnapshotHasSession'
  <2>1. UNCHANGED <<active, saved>> /\ restore[c].pc = "restoring"
    BY <1>6 DEF RestoreAbandoned, RestoreLight, session
  <2>2. ASSUME NEW d \in Callers, restore[d].pc = "draining" PROVE restore'[d].pc = "draining"
    BY <2>1, <2>2, <1>6 DEF RestoreAbandoned, RestoreLight, WorldOK
  <2>3. QED
    BY <2>1, <2>2 DEF SnapshotHasSession
<1>7. ASSUME NEW t \in Tasks, DrainStep(t) PROVE UNCHANGED <<active, saved, restore>>
  BY <1>7 DEF DrainStep, DrainStarts, DrainWakes, DrainSends, DrainIdlesOut,
              DrainCancelled, DrainNeverRan, session
<1>8. ASSUME TVCommands \/ async_pause \/ async_resume \/ PauseLapses \/ on_pause_expired
             \/ on_release_grace_expired \/ StreamFallsQuiet
             \/ (\E l \in Lights : LightAvailability(l)) \/ UNCHANGED vars
      PROVE  UNCHANGED <<active, saved, restore>>
  BY <1>8 DEF TVCommands, handle_frame, handle_light_command, async_pause, async_resume,
     PauseLapses, on_pause_expired, on_release_grace_expired, StreamFallsQuiet,
     LightAvailability, vars, session
<1>9. QED
  BY <1>2, <1>3, <1>4, <1>5, <1>6, <1>7, <1>8 DEF Steps, Next, RestoreFails, Background, RestoreStep

LEMMA SensorFreshStep ==
  Suppression /\ WorldOK /\ SensorFresh /\ [Steps]_vars => SensorFresh'
<1> SUFFICES ASSUME Suppression, WorldOK, SensorFresh, [Steps]_vars
             PROVE  SensorFresh'
  OBVIOUS
<1>1. CASE Notify
  BY <1>1 DEF Notify, SensorFresh
<1>2. ASSUME UNCHANGED <<active, paused, releasing, forcing, drainRunning, sensor>>,
             \A d \in Callers : restore[d].pc = "draining" => restore'[d].pc = "draining"
      PROVE  SensorFresh'
  <2>1. Reading' = Reading
    BY <1>2 DEF Reading, Suppressed, Activity, Status, IsPaused
  <2>2. QED
    BY <1>2, <2>1 DEF SensorFresh
<1>3. CASE UNCHANGED <<active, suppress, drainRunning, sensor, restore>>
  BY <1>3, <1>2 DEF suppress
<1>4. CASE async_snapshot_lights \/ async_pause \/ async_resume \/ async_release
           \/ on_pause_expired
  BY <1>4, <1>1 DEF async_snapshot_lights, async_pause, async_resume, async_release,
                    on_pause_expired
<1>5. CASE TVCommands
  <2>1. ASSUME NEW frame \in Frames, handle_frame(frame) PROVE SensorFresh'
    BY <2>1, <1>3 DEF handle_frame, drain
  <2>2. ASSUME NEW l \in Lights, NEW body \in Bodies, handle_light_command(l, body)
        PROVE  SensorFresh'
    <3>1. CASE drainRunning
      BY <2>2, <3>1, <1>3 DEF handle_light_command, EnsureDrainTask, session, drain
    <3>2. CASE ~drainRunning
      BY <2>2, <3>2, <1>1 DEF handle_light_command
    <3>3. QED
      BY <3>1, <3>2
  <2>3. QED
    BY <1>5, <2>1, <2>2 DEF TVCommands
<1>6. CASE PauseLapses
  BY <1>6 DEF PauseLapses, SensorFresh
<1>7. CASE on_release_grace_expired
  <2>1. releasing
    BY <1>7, TimerFacts DEF on_release_grace_expired, Suppression, SuppressFlags, TimersMatch
  <2>2. QED
    BY <1>7, <2>1, <1>1 DEF on_release_grace_expired
<1>8. ASSUME NEW t \in Tasks, DrainStep(t) PROVE SensorFresh'
  <2>1. CASE DrainIdlesOut(t) \/ DrainCancelled(t)
    BY <2>1, <1>1 DEF DrainIdlesOut, DrainCancelled
  <2>2. CASE DrainStarts(t) \/ DrainWakes(t) \/ DrainSends(t) \/ DrainNeverRan(t)
    BY <2>2, <1>3 DEF DrainStarts, DrainWakes, DrainSends, DrainNeverRan, session
  <2>3. QED
    BY <1>8, <2>1, <2>2 DEF DrainStep
<1>9. ASSUME NEW c \in Callers, async_restore_lights(c) PROVE SensorFresh'
  <2>1. CASE RestoreTail(c)
    BY <2>1, <1>1 DEF RestoreTail
  <2>2. CASE restore' = [restore EXCEPT ![c].pc = "draining", ![c].task = drainTask]
    <3>1. restore'[c].pc = "draining"
      BY <2>2 DEF WorldOK, RestoreStates
    <3>2. QED
      BY <3>1 DEF SensorFresh
  <2>3. QED
    BY <1>9, <2>1, <2>2 DEF async_restore_lights
<1>10. ASSUME NEW c \in Callers, RestoreResumes(c) PROVE SensorFresh'
  BY <1>10, <1>1 DEF RestoreResumes, RestoreTail
<1>11. ASSUME NEW c \in Callers, RestoreAbandoned(c) \/ (\E l \in Lights : RestoreLight(c, l))
       PROVE  SensorFresh'
  <2>1. /\ UNCHANGED <<active, paused, releasing, forcing, drainRunning, sensor>>
        /\ restore[c].pc = "restoring"
    BY <1>11 DEF RestoreAbandoned, RestoreLight, session, suppress, drain
  <2>2. ASSUME NEW d \in Callers, restore[d].pc = "draining" PROVE restore'[d].pc = "draining"
    BY <2>1, <2>2, <1>11 DEF RestoreAbandoned, RestoreLight, WorldOK
  <2>3. QED
    BY <2>1, <2>2, <1>2
<1>12. CASE StreamFallsQuiet \/ (\E l \in Lights : LightAvailability(l)) \/ UNCHANGED vars
  BY <1>12, <1>3 DEF StreamFallsQuiet, LightAvailability, vars, session, drain
<1>13. QED
  BY <1>4, <1>5, <1>6, <1>7, <1>8, <1>9, <1>10, <1>11, <1>12
  DEF Steps, Next, RestoreFails, Background, RestoreStep

-----------------------------------------------------------------------------
(* Types, sensors and snapshot *)

SensorOK == sensor \in Readings

FullInv ==
  /\ Inv /\ FlagsOK /\ WorldOK /\ SensorOK
  /\ SnapshotHasSession /\ SensorFresh

LEMMA FullInvInit == Init => FullInv
<1> SUFFICES ASSUME Init
             PROVE  FullInv
  OBVIOUS
<1>1. FlagsOK
  <2>1. quiet \in BOOLEAN /\ wake \in BOOLEAN /\ drainRunning \in BOOLEAN
    BY Zenon DEF Init
  <2>2. avail \in [Lights -> BOOLEAN]
    BY DEF Init
  <2>3. QED
    BY <2>1, <2>2 DEF FlagsOK
<1>2. WorldOK
  BY NoRestoreIsState DEF Init, WorldOK, RestoreOK, LampStates
<1>3. SensorOK /\ SnapshotHasSession /\ SensorFresh
  BY ReadingTyped
  DEF Init, SensorOK, SnapshotHasSession, SensorFresh, Reading, Suppressed, Activity, Status,
      IsPaused
<1>4. QED
  BY <1>1, <1>2, <1>3, InvInit DEF FullInv

LEMMA FullInvariance == StepsSpec => []FullInv
<1>1. FlagsOK /\ [Steps]_vars => FlagsOK'
  BY QuietStep, WakeStep, RunningStep, AvailStep DEF FlagsOK
<1>2. SensorOK /\ [Steps]_vars => SensorOK'
  BY SensorStep DEF SensorOK
<1>3. FullInv /\ [Steps]_vars => FullInv'
  <2> SUFFICES ASSUME FullInv, [Steps]_vars
               PROVE  FullInv'
    OBVIOUS
  <2>1. Inv'
    BY SuppressionStep, SlotsStep, DrainsStep, QueueStep DEF FullInv, Inv
  <2>2. WorldOK'
    BY WorldStep DEF FullInv, Inv
  <2>3. SnapshotHasSession' /\ SensorFresh'
    BY SnapshotStep, SensorFreshStep DEF FullInv, Inv
  <2>4. QED
    BY <1>1, <1>2, <2>1, <2>2, <2>3 DEF FullInv
<1>4. QED
  BY <1>3, FullInvInit, PTL DEF StepsSpec

LEMMA FullInvTypes == FullInv => TypeOK
<1> SUFFICES ASSUME FullInv
             PROVE  TypeOK
  OBVIOUS
<1>1. pauseTimer \in Timers /\ releaseTimer \in Timers
  BY TimerFacts DEF FullInv, Inv, Suppression, TimersMatch
<1>2. QED
  BY <1>1, Zenon DEF FullInv, Inv, Suppression, SuppressFlags, SlotsOK, DrainsOK, FlagsOK,
                     WorldOK, SensorOK, TypeOK

\* Every variable keeps its type, for every interleaving with a teardown.
THEOREM TypeCorrect == Spec => []TypeOK
BY SpecTakesSteps, FullInvariance, FullInvTypes, PTL

\* The sensors show the engine's status, save between a pause's deadline and
\* its callback and while a teardown waits for the drain loop to stop.
THEOREM SensorsAreFresh == Spec => []SensorFresh
BY SpecTakesSteps, FullInvariance, PTL DEF FullInv

\* A snapshot is held only for a session, or for the teardown that restores it.
THEOREM SnapshotIsOwned == Spec => []SnapshotHasSession
BY SpecTakesSteps, FullInvariance, PTL DEF FullInv

-----------------------------------------------------------------------------
(* The engine implements PauseContract *)

\* Only these steps change what Mode is made of.
LEMMA ModeChanges ==
  ASSUME [Steps]_vars, ~UNCHANGED <<paused, releasing>>
  PROVE  \/ async_snapshot_lights \/ async_pause \/ async_resume \/ async_release
         \/ PauseLapses \/ on_pause_expired \/ on_release_grace_expired
         \/ \E c \in Callers : async_restore_lights(c)
<1>1. ASSUME NEW t \in Tasks, DrainStep(t) PROVE UNCHANGED <<paused, releasing>>
  BY <1>1 DEF DrainStep, DrainStarts, DrainWakes, DrainSends, DrainIdlesOut,
              DrainCancelled, DrainNeverRan, suppress
<1>2. ASSUME NEW c \in Callers, RestoreStep(c) \/ RestoreAbandoned(c)
      PROVE  UNCHANGED <<paused, releasing>>
  BY <1>2 DEF RestoreStep, RestoreResumes, RestoreLight, RestoreAbandoned, suppress
<1>3. ASSUME TVCommands \/ StreamFallsQuiet \/ (\E l \in Lights : LightAvailability(l))
             \/ UNCHANGED vars
      PROVE  UNCHANGED <<paused, releasing>>
  BY <1>3 DEF TVCommands, handle_frame, handle_light_command, StreamFallsQuiet,
              LightAvailability, vars, suppress
<1>4. QED
  BY <1>1, <1>2, <1>3 DEF Steps, Next, RestoreFails, Background

\* Nothing is added to what is on the radio while sending is suppressed, nor by
\* the steps that leave the drain tasks alone.
LEMMA RadioHushes ==
  ASSUME Inv, [Steps]_vars, Suppressed \/ UNCHANGED drains
  PROVE  OnRadio' \subseteq OnRadio
<1>1. CASE UNCHANGED drains
  BY <1>1 DEF OnRadio
<1>2. CASE Suppressed
  <2>1. ASSUME NEW t \in Tasks, drains'[t].pc = "sending"
        PROVE  drains[t].pc = "sending" /\ drains'[t].pos = drains[t].pos
    BY <1>2, <2>1, SuppressedSendsNothing DEF SendBegins
  <2>2. QED
    BY <2>1 DEF OnRadio
<1>3. QED
  BY <1>1, <1>2

LEMMA ContractStep ==
  ASSUME Inv, Inv', [Steps]_vars
  PROVE  Contract!ContractNext
<1> USE DEF Contract!ContractNext, Contract!Hush, Mode
<1>1. Suppressed \/ UNCHANGED drains => OnRadio' \subseteq OnRadio
  BY RadioHushes
<1>2. OnRadio' \subseteq Tasks \X (0 .. N)
  <2>1. DrainsOK'
    BY DEF Inv
  <2>2. \A t \in Tasks : drains'[t].pos \in 0 .. N
    BY <2>1 DEF DrainsOK, DrainStates
  <2>3. QED
    BY <2>2 DEF OnRadio
<1>3. /\ releasing => paused = "no" /\ saved = None
      /\ releasing' => paused' = "no" /\ saved' = None
      /\ releasing \in BOOLEAN /\ releasing' \in BOOLEAN
      /\ paused \in {"no", "running", "lapsed"}
  BY DEF Inv, Suppression, ReleaseState, SuppressFlags
<1>4. CASE UNCHANGED <<paused, releasing>>
  <2>1. CASE releasing
    BY <1>1, <1>3, <1>4, <2>1 DEF Contract!Release, Suppressed
  <2>2. CASE ~releasing /\ paused = "running"
    BY <1>1, <1>3, <1>4, <2>2 DEF Contract!Hold, Suppressed, IsPaused
  <2>3. CASE ~releasing /\ paused # "running"
    BY <1>2, <1>3, <1>4, <2>3 DEF Contract!Drive
  <2>4. QED
    BY <1>3, <2>1, <2>2, <2>3
<1>5. CASE async_pause
  <2>1. ~releasing /\ ~releasing' /\ paused' = "running" /\ UNCHANGED <<drains, saved>>
    BY <1>5 DEF async_pause, session, drain
  <2>2. QED
    BY <1>1, <1>3, <2>1 DEF Contract!Pause
<1>6. CASE async_resume
  <2>1. /\ "resume" \in Services /\ ~releasing /\ ~releasing' /\ paused # "no"
        /\ paused' = "no" /\ UNCHANGED <<drains, saved>>
    BY <1>6 DEF async_resume, CancelPause, session, drain
  <2>2. QED
    BY <1>1, <1>3, <2>1 DEF Contract!Resume
<1>7. CASE async_release
  <2>1. releasing' /\ UNCHANGED drains
    BY <1>7 DEF async_release, drain
  <2>2. QED
    BY <1>1, <1>3, <2>1 DEF Contract!Release
<1>8. CASE PauseLapses
  <2>1. paused = "running" /\ paused' = "lapsed" /\ UNCHANGED <<releasing, drains, saved>>
    BY <1>8 DEF PauseLapses, session, drain
  <2>2. QED
    BY <1>1, <1>3, <2>1 DEF Contract!TimeIsUp
<1>9. CASE on_pause_expired
  <2>1. paused' = "no" /\ UNCHANGED <<releasing, drains, saved>>
    BY <1>9 DEF on_pause_expired, session, drain
  <2>2. paused # "running"
    BY <1>9, TimerFacts DEF Inv, Suppression, TimersMatch, IsPaused, on_pause_expired
  <2>3. CASE paused = "no"
    BY <1>4, <2>1, <2>3
  <2>4. CASE paused = "lapsed"
    BY <1>1, <1>3, <2>1, <2>4 DEF Contract!Notice
  <2>5. QED
    BY <1>3, <2>2, <2>3, <2>4
<1>10. CASE async_snapshot_lights \/ on_release_grace_expired
            \/ \E c \in Callers : async_restore_lights(c)
  <2>1. UNCHANGED paused
    BY <1>10 DEF async_snapshot_lights, on_release_grace_expired, async_restore_lights
  <2>2. releasing' => releasing
    BY <1>10, <1>3 DEF async_snapshot_lights, on_release_grace_expired, async_restore_lights,
                       CancelRelease
  <2>3. CASE releasing /\ ~releasing'
    BY <1>1, <1>3, <2>1, <2>3 DEF Contract!ReleaseIsOver, Suppressed
  <2>4. QED
    BY <1>3, <1>4, <2>1, <2>2, <2>3
<1>11. QED
  BY <1>4, <1>5, <1>6, <1>7, <1>8, <1>9, <1>10, ModeChanges

LEMMA StepsKeepContract == StepsSpec => KeepsContract
<1>1. Init => Contract!ContractInit
  <2> SUFFICES ASSUME Init
               PROVE  Contract!ContractInit
    OBVIOUS
  <2>1. ~releasing /\ paused = "no" /\ saved = None
    BY DEF Init
  <2>2. \A t \in Tasks : drains[t].pc # "sending"
    BY DEF Init, Drain
  <2>3. QED
    BY <2>1, <2>2 DEF Contract!ContractInit, Mode, OnRadio
<1>2. Inv /\ Inv' /\ [Steps]_vars => [Contract!ContractNext]_(Contract!contractVars)
  BY ContractStep
<1>3. QED
  BY <1>1, <1>2, Invariance, PTL DEF StepsSpec, KeepsContract, Contract!ContractSpec

\* Whatever interleaves, the engine keeps the promise of pause, resume and
\* release: the mapping takes its flags to the contract's mode, the service calls
\* under way to what is on the air, and the snapshot to the restore target.
THEOREM EngineKeepsContract == Spec => KeepsContract
BY SpecTakesSteps, StepsKeepContract, PTL

-----------------------------------------------------------------------------
(* The contract of a session *)

\* The silence of the contract, as the engine has it.
Silent == active /\ quiet

SessionFlags == active \in BOOLEAN /\ releasing \in BOOLEAN /\ forcing \in BOOLEAN /\ quiet \in BOOLEAN

\* The steps that have no part in session, release or silence.
SessionUntouched == UNCHANGED <<active, releasing, forcing, quiet>>

LEMMA UntouchedStutters == SessionUntouched => UNCHANGED Session!sessionVars
<1> SUFFICES ASSUME SessionUntouched
             PROVE  UNCHANGED Session!sessionVars
  OBVIOUS
<1>1. Silent' = Silent
  BY DEF SessionUntouched, Silent
<1>2. QED
  BY <1>1, Zenon DEF SessionUntouched, Session!sessionVars, Silent

\* A frame ends the silence of a session that is not forced to its end, and does
\* nothing to one that is, or to none.
LEMMA FrameStep ==
  ASSUME SessionFlags, forcing => active, NEW frame \in Frames, handle_frame(frame)
  PROVE  [Session!SessionNext]_(Session!sessionVars)
<1>1. UNCHANGED <<active, releasing, forcing>> /\ quiet' = (quiet /\ forcing)
  BY Zenon DEF handle_frame, suppress
<1>2. CASE forcing
  <2>1. quiet' = quiet
    BY <1>1, <1>2, Zenon DEF SessionFlags
  <2>2. QED
    BY <1>1, <2>1, UntouchedStutters DEF SessionUntouched
<1>3. CASE ~active
  <2>1. Silent = FALSE /\ Silent' = FALSE
    BY <1>1, <1>3, Zenon DEF Silent
  <2>2. QED
    BY <1>1, <2>1, Zenon DEF Session!sessionVars, Silent
<1>4. CASE active /\ ~forcing
  <2>1. active = TRUE /\ forcing = FALSE /\ Silent' = FALSE
    BY <1>1, <1>4, Zenon DEF Silent, SessionFlags
  <2>2. Session!Hear
    BY <1>1, <2>1, Zenon DEF Session!Hear, Silent
  <2>3. QED
    BY <2>2, Zenon DEF Session!SessionNext
<1>5. QED
  BY <1>2, <1>3, <1>4

\* The grace callback finds a release in its grace, and no other.
LEMMA GraceStep ==
  ASSUME Suppression, SessionFlags, on_release_grace_expired
  PROVE  Session!GraceEnds
<1>1. releaseTimer = OneTimer
  BY TimerFacts DEF Suppression, TimersMatch, on_release_grace_expired
<1>2. releasing /\ ~forcing
  BY <1>1, TimerFacts DEF Suppression, TimersMatch
<1>3. /\ releasing = TRUE /\ forcing = FALSE
      /\ releasing' = active /\ forcing' = active
      /\ UNCHANGED <<active, quiet>>
  BY <1>2, Zenon DEF SessionFlags, on_release_grace_expired, session
<1>4. Silent' = Silent
  BY <1>3 DEF Silent
<1>5. QED
  BY <1>3, <1>4, Zenon DEF Session!GraceEnds, Silent

LEMMA SessionStep ==
  FullInv /\ [Steps]_vars => [Session!SessionNext]_(Session!sessionVars)
<1> SUFFICES ASSUME FullInv, [Steps]_vars
             PROVE  [Session!SessionNext]_(Session!sessionVars)
  OBVIOUS
<1>0. Suppression /\ SessionFlags /\ (forcing => active)
  BY DEF FullInv, Inv, Suppression, SuppressFlags, ReleaseState, FlagsOK, SessionFlags
<1>1. CASE SessionUntouched
  BY <1>1, UntouchedStutters
<1>2. CASE async_snapshot_lights
  <2>1. /\ releasing = TRUE \/ active = FALSE
        /\ active' = TRUE /\ releasing' = FALSE /\ forcing' = FALSE /\ quiet' = FALSE
    BY <1>0, <1>2, Zenon DEF SessionFlags, async_snapshot_lights, CancelRelease
  <2>2. Silent' = FALSE
    BY <2>1, Zenon DEF Silent
  <2>3. Session!Begin
    BY <2>1, <2>2, Zenon DEF Session!Begin, Session!Resolved, Silent
  <2>4. QED
    BY <2>3, Zenon DEF Session!SessionNext
<1>3. ASSUME NEW c \in Callers, async_restore_lights(c)
      PROVE  Session!SessionNext
  <2>1. /\ active = TRUE /\ active' = FALSE
        /\ releasing' = FALSE /\ forcing' = FALSE
    BY <1>0, <1>3, Zenon DEF SessionFlags, async_restore_lights, CancelRelease
  <2>2. Silent' = FALSE
    BY <2>1, Zenon DEF Silent
  <2>3. Session!End
    BY <2>1, <2>2, Zenon DEF Session!End, Session!Resolved, Silent
  <2>4. QED
    BY <2>3, Zenon DEF Session!SessionNext
<1>4. ASSUME NEW frame \in Frames, handle_frame(frame)
      PROVE  [Session!SessionNext]_(Session!sessionVars)
  BY <1>0, <1>4, FrameStep
<1>5. CASE async_release
  <2>1. releasing' = TRUE /\ forcing' = FALSE /\ UNCHANGED <<active, quiet>>
    BY <1>5, Zenon DEF async_release
  <2>2. Silent' = Silent
    BY <2>1 DEF Silent
  <2>3. Session!Release
    BY <2>1, <2>2, Zenon DEF Session!Release, Silent
  <2>4. QED
    BY <2>3, Zenon DEF Session!SessionNext
<1>6. CASE on_release_grace_expired
  BY <1>0, <1>6, GraceStep, Zenon DEF Session!SessionNext
<1>7. CASE StreamFallsQuiet
  <2>1. active = TRUE /\ quiet = FALSE /\ quiet' = TRUE /\ UNCHANGED <<active, releasing, forcing>>
    BY <1>0, <1>7, Zenon DEF SessionFlags, StreamFallsQuiet, suppress
  <2>2. Silent = FALSE /\ Silent' = TRUE
    BY <2>1, Zenon DEF Silent
  <2>3. Session!FallSilent
    BY <2>1, <2>2, Zenon DEF Session!FallSilent, Silent
  <2>4. QED
    BY <2>3, Zenon DEF Session!SessionNext
<1>8. ASSUME NEW t \in Tasks, DrainStep(t) PROVE SessionUntouched
  BY <1>8 DEF DrainStep, DrainStarts, DrainWakes, DrainSends, DrainIdlesOut,
              DrainCancelled, DrainNeverRan, session, suppress, SessionUntouched
<1>9. ASSUME NEW c \in Callers, RestoreStep(c) \/ RestoreAbandoned(c) PROVE SessionUntouched
  BY <1>9 DEF RestoreStep, RestoreResumes, RestoreLight, RestoreAbandoned, session, suppress,
              SessionUntouched
<1>10. ASSUME async_pause \/ async_resume \/ PauseLapses \/ on_pause_expired
              \/ (\E l \in Lights : LightAvailability(l))
              \/ (\E l \in Lights, body \in Bodies : handle_light_command(l, body))
              \/ UNCHANGED vars
       PROVE  SessionUntouched
  BY <1>10 DEF async_pause, async_resume, PauseLapses, on_pause_expired, LightAvailability,
     handle_light_command, vars, session, suppress, SessionUntouched
<1>11. QED
  BY <1>1, <1>2, <1>3, <1>4, <1>5, <1>6, <1>7, <1>8, <1>9, <1>10
  DEF Steps, Next, RestoreFails, TVCommands, Background

LEMMA StepsKeepSession == StepsSpec => KeepsSessionContract
<1>1. Init => Session!SessionInit
  BY Zenon DEF Init, Session!SessionInit
<1>2. QED
  BY <1>1, SessionStep, FullInvariance, PTL DEF StepsSpec, KeepsSessionContract, Session!SessionSpec

\* Session, silence and release go through the same steps as in SessionTiming, whatever
\* else the engine interleaves with them: the clock there and the drain loop here are
\* about one and the same session (async_snapshot_lights, handle_frame, async_release,
\* _on_release_grace_expired, async_restore_lights).
THEOREM EngineKeepsSession == Spec => KeepsSessionContract
BY SpecTakesSteps, StepsKeepSession, PTL
=============================================================================
