-------------------------- MODULE EngineLoop_proofs --------------------------
(***************************************************************************)
(* The drain loop and what it shows on the lights, for any number of       *)
(* lights, colours, teardowns and drain loops, if the requests of the TV   *)
(* wait for teardowns: one loop at most, no lost wake-up, the newest       *)
(* colour, the scene.                                                      *)
(***************************************************************************)
EXTENDS EntertainmentEngine_proofs

-----------------------------------------------------------------------------
(* There is one drain loop at most, if no request of the TV falls between a    *)
(* teardown's cancelling of the drain task and the task's end                  *)

Draining(c) == restore[c].pc = "draining"

\* The only task alive is the one that drainTask names; a teardown waits for that
\* one, and for as long as it waits there is no session.
OneLoop ==
  /\ \A t \in Tasks : Live(t) => t = drainTask
  /\ \A c \in Callers : Draining(c) => /\ ~active /\ drainTask # None
                                       /\ restore[c].task = drainTask
  /\ \A c, d \in Callers : Draining(c) /\ Draining(d) => c = d
  /\ DrainRunningIsHonest

LEMMA TaskIsNotNone == \A t \in Tasks : t # None
BY TasksAssumption

\* Nothing that OneLoop speaks of changes, unless a live task goes on.
LoopGoesOn ==
  /\ UNCHANGED <<active, drainRunning, drainTask>>
  /\ \A t \in Tasks : /\ (drains'[t].pc = "done") = (drains[t].pc = "done")
                      /\ drains[t].cancelled = FALSE => drains'[t].cancelled = FALSE
  /\ \A c \in Callers : /\ Draining(c)' = Draining(c)
                        /\ Draining(c) => restore'[c].task = restore[c].task

LEMMA LoopStays == DrainsOK /\ OneLoop /\ LoopGoesOn => OneLoop'
<1> SUFFICES ASSUME DrainsOK, OneLoop, LoopGoesOn
             PROVE  OneLoop'
  OBVIOUS
<1>1. \A t \in Tasks \cup {None} : Live(t)' <=> Live(t)
  BY DEF LoopGoesOn, Live
<1>2. drainTask \in Tasks \cup {None} /\ drains \in [Tasks -> DrainStates]
  BY DEF DrainsOK
<1>3. DrainRunningIsHonest'
  <2> SUFFICES ASSUME \A c \in Callers : ~Draining(c)'
               PROVE  /\ drainRunning' <=> Live(drainTask)'
                      /\ active' => drainRunning'
                      /\ drainRunning' => ~drains'[drainTask'].cancelled
    BY DEF DrainRunningIsHonest, Draining
  <2>1. /\ drainRunning <=> Live(drainTask)
        /\ active => drainRunning
        /\ drainRunning => ~drains[drainTask].cancelled
    BY DEF OneLoop, LoopGoesOn, DrainRunningIsHonest, Draining
  <2>2. Live(drainTask)' <=> Live(drainTask)
    BY <1>1, <1>2 DEF LoopGoesOn, Live
  <2>3. drainRunning => drainTask \in Tasks /\ drains[drainTask].cancelled = FALSE
    BY <1>2, <2>1 DEF Live, DrainStates
  <2>4. QED
    BY <2>1, <2>2, <2>3 DEF LoopGoesOn
<1>4. \A t \in Tasks : Live(t)' => t = drainTask'
  BY <1>1 DEF OneLoop, LoopGoesOn
<1>5. QED
  BY <1>3, <1>4 DEF OneLoop, LoopGoesOn

LEMMA PassGoesOn ==
  ASSUME DrainsOK, NEW t \in Tasks, drains[t].pc # "done", ~drains[t].cancelled,
         NEW passed, NEW idle, NEW from,
         Pass(t, passed, idle) \/ SendNext(t, passed, from), NEW u \in Tasks
  PROVE  /\ (drains'[u].pc = "done") = (drains[u].pc = "done")
         /\ drains[u].cancelled = FALSE => drains'[u].cancelled = FALSE
<1>1. CASE \E l : drains' = [drains EXCEPT ![t].pc = "sending", ![t].pos = l,
                                           ![t].data = slot[l].data]
  BY <1>1 DEF DrainsOK, DrainStates
<1>2. CASE \E b : drains' = [drains EXCEPT ![t] = Drain("waiting", b)]
  BY <1>2 DEF DrainsOK, DrainStates, Drain
<1>3. QED
  BY <1>1, <1>2 DEF Pass, SendNext, Sleep

\* Where no teardown waits for it, EnsureDrainTask leaves a loop running, and one.
LEMMA EnsureLeavesOne ==
  ASSUME DrainsOK, OneLoop, EnsureDrainTask, UNCHANGED restore,
         \A c \in Callers : ~Draining(c), drainRunning \in BOOLEAN
  PROVE  OneLoop'
<1>1. /\ drainRunning <=> Live(drainTask)
      /\ drainRunning => ~drains[drainTask].cancelled
  BY DEF OneLoop, DrainRunningIsHonest, Draining
<1>2. \A c \in Callers : ~Draining(c)'
  BY DEF Draining
<1>3. CASE drainRunning
  <2>1. UNCHANGED <<drains, drainTask, drainRunning>>
    BY <1>3 DEF EnsureDrainTask, drain
  <2>2. \A t : Live(t)' <=> Live(t)
    BY <2>1 DEF Live
  <2>3. Live(drainTask)'
    BY <1>1, <1>3, <2>1, <2>2 DEF Live
  <2>4. QED
    BY <1>1, <1>2, <1>3, <2>1, <2>2, <2>3 DEF OneLoop, DrainRunningIsHonest, Draining
<1>4. CASE ~drainRunning
  <2>1. PICK t \in Tasks : /\ drains' = [drains EXCEPT ![t] = Drain("new", FALSE)]
                           /\ drainTask' = t /\ drainRunning' = TRUE
    BY <1>4 DEF EnsureDrainTask, FreeTasks
  <2>2. \A u \in Tasks : ~Live(u)
    BY <1>1, <1>4 DEF OneLoop
  <2>3. drains'[t] = Drain("new", FALSE)
    BY <2>1 DEF DrainsOK
  <2>4. Live(drainTask)' /\ ~drains'[drainTask'].cancelled
    BY <2>1, <2>3, TaskIsNotNone DEF Live, Drain
  <2>5. \A u \in Tasks : Live(u)' => u = drainTask'
    BY <2>1, <2>2, TaskIsNotNone DEF Live, DrainsOK
  <2>6. QED
    BY <1>2, <2>1, <2>4, <2>5 DEF OneLoop, DrainRunningIsHonest, Draining
<1>5. QED
  BY <1>3, <1>4

LEMMA AdmittedMeansNoDraining ==
  ASSUME "draining" \notin Overlap, Admitted
  PROVE  \A c \in Callers : ~Draining(c)
BY DEF Admitted, Draining

LEMMA DrainStepKeepsLoop ==
  ASSUME DrainsOK, OneLoop, NEW t \in Tasks, DrainStep(t)
  PROVE  OneLoop'
<1>1. UNCHANGED <<active, drainTask, restore>>
  BY DEF DrainStep, DrainStarts, DrainWakes, DrainSends, DrainIdlesOut, DrainCancelled,
         DrainNeverRan, session
<1>2. CASE DrainStarts(t) \/ DrainWakes(t) \/ DrainSends(t)
  <2>1. UNCHANGED drainRunning /\ drains[t].pc # "done" /\ ~drains[t].cancelled
    BY <1>2 DEF DrainStarts, DrainWakes, DrainSends
  <2>2. \E passed, idle, from : Pass(t, passed, idle) \/ SendNext(t, passed, from)
    BY <1>2 DEF DrainStarts, DrainWakes, DrainSends
  <2>3. LoopGoesOn
    BY <1>1, <2>1, <2>2, PassGoesOn DEF LoopGoesOn, Draining
  <2>4. QED
    BY <2>3, LoopStays
<1>3. CASE DrainIdlesOut(t) \/ DrainCancelled(t) \/ DrainNeverRan(t)
  <2>1. /\ drains' = [drains EXCEPT ![t] = Drain("done", FALSE)]
        /\ drains[t].pc # "done"
    BY <1>3 DEF DrainIdlesOut, DrainCancelled, DrainNeverRan, LeaveDrain
  <2>2. t = drainTask
    BY <2>1, TaskIsNotNone DEF OneLoop, Live
  <2>3. \A u \in Tasks : ~Live(u)'
    BY <2>1, <2>2 DEF OneLoop, Live, DrainsOK, Drain
  <2>4. ASSUME \A c \in Callers : ~Draining(c)
        PROVE  drainRunning' = FALSE /\ ~active
    <3>1. Live(drainTask) /\ drainRunning /\ ~drains[t].cancelled
      BY <2>1, <2>2, <2>4, TaskIsNotNone DEF OneLoop, DrainRunningIsHonest, Draining, Live
    <3>2. QED
      BY <1>3, <3>1 DEF DrainIdlesOut, DrainCancelled, DrainNeverRan, LeaveDrain
  <2>5. DrainRunningIsHonest'
    BY <1>1, <2>2, <2>3, <2>4 DEF DrainRunningIsHonest, Draining
  <2>6. QED
    BY <1>1, <2>3, <2>5 DEF OneLoop, Draining
<1>4. QED
  BY <1>2, <1>3 DEF DrainStep

\* A teardown begins only with a session, so no other one is waiting, and the loop
\* is there to be cancelled.
LEMMA TeardownKeepsLoop ==
  ASSUME DrainsOK, WorldOK, OneLoop, NEW c \in Callers, async_restore_lights(c)
  PROVE  OneLoop'
<1>1. active /\ ~active' /\ UNCHANGED drainTask
  BY DEF async_restore_lights
<1>2. \A d \in Callers : ~Draining(d)
  BY <1>1 DEF OneLoop
<1>3. drainRunning /\ Live(drainTask)
  BY <1>1, <1>2 DEF OneLoop, DrainRunningIsHonest, Draining
<1>4. /\ drains' = [drains EXCEPT ![drainTask].cancelled = TRUE]
      /\ restore' = [restore EXCEPT ![c].pc = "draining", ![c].task = drainTask]
  BY <1>3 DEF async_restore_lights
<1>5. \A u \in Tasks : Live(u)' => Live(u)
  BY <1>4 DEF Live, DrainsOK, DrainStates
<1>6. /\ restore'[c].pc = "draining" /\ restore'[c].task = drainTask
      /\ \A d \in Callers : d # c => restore'[d] = restore[d]
  BY <1>4 DEF WorldOK, RestoreStates
<1>7. \A d \in Callers : Draining(d)' <=> d = c
  BY <1>2, <1>6 DEF Draining
<1>8. DrainRunningIsHonest'
  BY <1>6 DEF DrainRunningIsHonest
<1>9. drainTask' # None
  BY <1>1, <1>3 DEF Live
<1>10. QED
  BY <1>1, <1>5, <1>6, <1>7, <1>8, <1>9 DEF OneLoop

LEMMA ResumingKeepsLoop ==
  ASSUME DrainsOK, WorldOK, OneLoop, NEW c \in Callers, RestoreResumes(c)
  PROVE  OneLoop'
<1>1. /\ Draining(c) /\ ~Live(restore[c].task) /\ drainTask' = None /\ drainRunning' = FALSE
      /\ UNCHANGED <<active, drains>>
  BY DEF RestoreResumes, RestoreTail, Draining
<1>2. ~active /\ restore[c].task = drainTask
  BY <1>1 DEF OneLoop
<1>3. \A u \in Tasks : ~Live(u)'
  BY <1>1, <1>2 DEF OneLoop, Live
<1>4. \A d \in Callers : ~Draining(d)'
  <2>1. /\ restore'[c].pc \in {"idle", "restoring"}
        /\ \A d \in Callers : d # c => restore'[d] = restore[d]
    BY DEF RestoreResumes, RestoreTail, NoRestore, WorldOK
  <2>2. QED
    BY <1>1, <2>1 DEF OneLoop, Draining
<1>5. DrainRunningIsHonest'
  BY <1>1, <1>2, <1>3 DEF DrainRunningIsHonest, Live
<1>6. QED
  BY <1>3, <1>4, <1>5 DEF OneLoop

LEMMA OneLoopStep ==
  ASSUME "draining" \notin Overlap, FullInv, OneLoop, [Steps]_vars
  PROVE  OneLoop'
<1>0. DrainsOK /\ WorldOK /\ drainRunning \in BOOLEAN
  BY DEF FullInv, Inv, FlagsOK
<1>1. CASE UNCHANGED <<active, drain, restore>>
  <2>1. LoopGoesOn
    BY <1>1 DEF LoopGoesOn, Draining, drain
  <2>2. QED
    BY <1>0, <2>1, LoopStays
<1>2. CASE async_snapshot_lights
  BY <1>0, <1>2, EnsureLeavesOne, AdmittedMeansNoDraining DEF async_snapshot_lights
<1>3. ASSUME NEW l \in Lights, NEW body \in Bodies, handle_light_command(l, body)
      PROVE  OneLoop'
  BY <1>0, <1>3, EnsureLeavesOne, AdmittedMeansNoDraining DEF handle_light_command
<1>4. ASSUME NEW t \in Tasks, DrainStep(t) PROVE OneLoop'
  BY <1>0, <1>4, DrainStepKeepsLoop
<1>5. ASSUME NEW c \in Callers, async_restore_lights(c) \/ RestoreResumes(c) PROVE OneLoop'
  BY <1>0, <1>5, TeardownKeepsLoop, ResumingKeepsLoop
<1>6. ASSUME NEW c \in Callers, RestoreAbandoned(c) \/ (\E l \in Lights : RestoreLight(c, l))
      PROVE  OneLoop'
  <2>1. UNCHANGED <<active, drain>> /\ restore[c].pc = "restoring"
    BY <1>6 DEF RestoreAbandoned, RestoreLight, session
  <2>2. PICK r : restore' = [restore EXCEPT ![c] = r] /\ r.pc \in {"idle", "restoring"}
    <3>1. CASE restore' = [restore EXCEPT ![c] = NoRestore]
      <4>1. NoRestore.pc = "idle"
        BY DEF NoRestore
      <4>2. QED
        BY <3>1, <4>1
    <3>2. ASSUME NEW left,
                 restore' = [restore EXCEPT ![c] = [restore[c] EXCEPT !.todo = left]]
          PROVE  \E r : restore' = [restore EXCEPT ![c] = r] /\ r.pc \in {"idle", "restoring"}
      <4>1. [restore[c] EXCEPT !.todo = left].pc = "restoring"
        BY <1>0, <2>1 DEF WorldOK, RestoreStates
      <4>2. QED
        BY <3>2, <4>1
    <3>3. QED
      BY <1>6, <3>1, <3>2 DEF RestoreAbandoned, RestoreLight
  <2>3. /\ restore'[c].pc \in {"idle", "restoring"}
        /\ \A d \in Callers : d # c => restore'[d] = restore[d]
    BY <1>0, <2>2 DEF WorldOK
  <2>4. LoopGoesOn
    BY <2>1, <2>3 DEF LoopGoesOn, Draining, drain
  <2>5. QED
    BY <1>0, <2>4, LoopStays
<1>7. ASSUME (\E frame \in Frames : handle_frame(frame)) \/ async_pause \/ async_resume
             \/ async_release \/ PauseLapses \/ on_pause_expired \/ on_release_grace_expired
             \/ StreamFallsQuiet \/ (\E l \in Lights : LightAvailability(l)) \/ UNCHANGED vars
      PROVE  OneLoop'
  BY <1>1, <1>7 DEF handle_frame, async_pause, async_resume, async_release, PauseLapses,
     on_pause_expired, on_release_grace_expired, StreamFallsQuiet, LightAvailability, vars,
     session
<1>8. QED
  BY <1>2, <1>3, <1>4, <1>5, <1>6, <1>7 DEF Steps, Next, RestoreFails, TVCommands, Background, RestoreStep

LEMMA OneLoopInvariance == ASSUME "draining" \notin Overlap PROVE StepsSpec => []OneLoop
<1>1. Init => OneLoop
  BY NoRestoreIsState DEF Init, OneLoop, DrainRunningIsHonest, Draining, Live, Drain, NoRestore
<1>2. FullInv /\ OneLoop /\ [Steps]_vars => OneLoop'
  BY OneLoopStep
<1>3. QED
  BY <1>1, <1>2, FullInvariance, PTL DEF StepsSpec

LEMMA OneLoopPromises == OneLoop => DrainRunningIsHonest /\ OneCallAtATime
BY TaskIsNotNone DEF OneLoop, OneCallAtATime, Live

\* The drain flag says whether there is a loop to send, whatever is cancelled and
\* started anew, if the TV's requests wait for a loop that is being stopped.
THEOREM DrainFlagIsHonest == ASSUME "draining" \notin Overlap PROVE Spec => []DrainRunningIsHonest
BY SpecTakesSteps, OneLoopInvariance, OneLoopPromises, PTL

\* No two service calls are on the radio at once, if the TV's requests wait for a
\* loop that is being stopped.
THEOREM CallsAreSingle == ASSUME "draining" \notin Overlap PROVE Spec => []OneCallAtATime
BY SpecTakesSteps, OneLoopInvariance, OneLoopPromises, PTL

\* A pass either sends or leaves nothing queued.
LEMMA PassSendsOrSleeps ==
  ASSUME SlotsOK, DrainsOK, NEW t \in Tasks, NEW passed, NEW idle, NEW from,
         Pass(t, passed, idle) \/ SendNext(t, passed, from)
  PROVE  \/ drains'[t].pc = "sending" /\ \A u \in Tasks \ {t} : drains'[u] = drains[u]
         \/ \A l \in Lights : ~slot'[l].dirty
<1>1. CASE \E l : drains' = [drains EXCEPT ![t].pc = "sending", ![t].pos = l,
                                           ![t].data = slot[l].data]
  BY <1>1 DEF DrainsOK, DrainStates
<1>2. CASE slot' = Grabbed(Lights)
  BY <1>2 DEF Grabbed, EmptySlot, SlotsOK, Slots
<1>3. QED
  BY <1>1, <1>2 DEF Pass, SendNext, Sleep

LEMMA WakeupStep ==
  ASSUME SlotsOK, DrainsOK, OneLoop, NoLostWakeup, [Steps]_vars
  PROVE  NoLostWakeup'
<1>1. CASE wake' = TRUE \/ \A l \in Lights : ~slot'[l].dirty
  BY <1>1 DEF NoLostWakeup
<1>2. ASSUME UNCHANGED <<slot, wake>>,
             \A t \in Tasks : drains'[t].pc = "waiting" => drains[t].pc = "waiting"
      PROVE  NoLostWakeup'
  BY <1>2 DEF NoLostWakeup
<1>3. CASE UNCHANGED <<queue, drains>>
  BY <1>2, <1>3 DEF queue
<1>4. CASE ResetMappings
  BY <1>1, <1>4, ResetEmpties
<1>5. CASE async_snapshot_lights \/ async_pause \/ async_release
  BY <1>4, <1>5 DEF async_snapshot_lights, async_pause, async_release
<1>6. ASSUME NEW frame \in Frames, handle_frame(frame) PROVE NoLostWakeup'
  <2>1. CASE ScheduleUpdates(frame) /\ UNCHANGED drains
    <3> DEFINE changed == {l \in DOMAIN frame : ~WithinTolerance(l, frame[l])}
    <3>1. CASE changed = {}
      <4>1. \A l \in Lights : slot'[l] = slot[l]
        BY <2>1, <3>1 DEF ScheduleUpdates
      <4>2. wake => wake'
        BY <2>1 DEF ScheduleUpdates
      <4>3. QED
        BY <2>1, <4>1, <4>2 DEF NoLostWakeup
    <3>2. CASE changed # {}
      <4>1. wake' = TRUE
        BY <2>1, <3>2, Zenon DEF ScheduleUpdates
      <4>2. QED
        BY <1>1, <4>1
    <3>3. QED
      BY <3>1, <3>2
  <2>2. QED
    BY <1>3, <1>6, <2>1 DEF handle_frame, drain
<1>7. ASSUME NEW l \in Lights, NEW body \in Bodies, handle_light_command(l, body)
      PROVE  NoLostWakeup'
  BY <1>1, <1>7 DEF handle_light_command
<1>8. ASSUME NEW t \in Tasks, DrainStep(t) PROVE NoLostWakeup'
  <2>1. CASE DrainStarts(t) \/ DrainWakes(t) \/ DrainSends(t)
    <3>1. \E passed, idle, from : Pass(t, passed, idle) \/ SendNext(t, passed, from)
      BY <2>1 DEF DrainStarts, DrainWakes, DrainSends
    <3>2. CASE /\ drains'[t].pc = "sending"
               /\ \A u \in Tasks \ {t} : drains'[u] = drains[u]
      <4>1. \A u \in Tasks \ {t} : drains[u].pc = "done"
        BY <2>1, TaskIsNotNone DEF OneLoop, Live, DrainStarts, DrainWakes, DrainSends
      <4>2. \A u \in Tasks : drains'[u].pc # "waiting"
        BY <3>2, <4>1
      <4>3. QED
        BY <4>2 DEF NoLostWakeup
    <3>3. QED
      BY <1>1, <3>1, <3>2, PassSendsOrSleeps
  <2>2. CASE DrainIdlesOut(t)
    <3>1. \A l \in Lights : ~slot'[l].dirty
      BY <2>2 DEF DrainIdlesOut, Grabbed, EmptySlot, SlotsOK, Slots
    <3>2. QED
      BY <1>1, <3>1
  <2>3. CASE DrainCancelled(t) \/ DrainNeverRan(t)
    <3>1. drains' = [drains EXCEPT ![t] = Drain("done", FALSE)] /\ UNCHANGED <<slot, wake>>
      BY <2>3 DEF DrainCancelled, DrainNeverRan, LeaveDrain, queue
    <3>2. QED
      BY <1>2, <3>1 DEF DrainsOK, Drain
  <2>4. QED
    BY <1>8, <2>1, <2>2, <2>3 DEF DrainStep
<1>9. ASSUME NEW c \in Callers, async_restore_lights(c) PROVE NoLostWakeup'
  <2>1. CASE /\ Live(drainTask) /\ UNCHANGED <<slot, wake>>
             /\ drains' = [drains EXCEPT ![drainTask].cancelled = TRUE]
    BY <1>2, <2>1 DEF DrainsOK, DrainStates
  <2>2. QED
    BY <1>4, <1>9, <2>1 DEF async_restore_lights, RestoreTail
<1>10. ASSUME NEW c \in Callers, RestoreStep(c) \/ RestoreAbandoned(c) PROVE NoLostWakeup'
  BY <1>3, <1>4, <1>10 DEF RestoreStep, RestoreResumes, RestoreTail, RestoreLight,
                           RestoreAbandoned, drain
<1>11. CASE async_resume \/ PauseLapses \/ on_pause_expired \/ on_release_grace_expired
            \/ StreamFallsQuiet \/ (\E l \in Lights : LightAvailability(l)) \/ UNCHANGED vars
  BY <1>3, <1>11 DEF async_resume, PauseLapses, on_pause_expired, on_release_grace_expired,
     StreamFallsQuiet, LightAvailability, vars, drain
<1>12. QED
  BY <1>5, <1>6, <1>7, <1>8, <1>9, <1>10, <1>11 DEF Steps, Next, RestoreFails, TVCommands, Background

LEMMA StepsKeepWakeups == ASSUME "draining" \notin Overlap PROVE StepsSpec => []NoLostWakeup
<1>1. Init => NoLostWakeup
  BY DEF Init, NoLostWakeup, Drain
<1>2. FullInv /\ OneLoop /\ NoLostWakeup /\ [Steps]_vars => NoLostWakeup'
  BY WakeupStep DEF FullInv, Inv
<1>3. QED
  BY <1>1, <1>2, FullInvariance, OneLoopInvariance, PTL DEF StepsSpec

\* A waiting loop with a command queued has been woken, if the TV's requests wait
\* for a loop that is being stopped.
THEOREM WakeupsAreKept == ASSUME "draining" \notin Overlap PROVE Spec => []NoLostWakeup
BY SpecTakesSteps, StepsKeepWakeups, PTL

-----------------------------------------------------------------------------
(* What the lights show, if the TV waits for teardowns and only streams, to     *)
(* lights that take every call                                                 *)

StreamOnly ==
  Overlap = {} /\ Bodies = {} /\ Faults \cap {"call fails", "unavailable"} = {}

\* Without classic commands a dirty slot holds the colour that counted last.
SlotsAreFresh ==
  \A l \in Lights : avail[l] /\ (slot[l].dirty => slot[l].data = last[l] /\ last[l] # None)

SendingTo(t, l) == drains[t].pc = "sending" /\ drains[t].pos = l

\* What counted last is on the light, with nothing under way that could undo it, or
\* it is on the wire.
Follows(l) ==
  last[l] # None /\ ~slot[l].dirty =>
    \/ lamp[l] = last[l] /\ \A t \in Tasks : ~SendingTo(t, l)
    \/ \E t \in Tasks : SendingTo(t, l) /\ drains[t].data = last[l]

LightsFollow ==
  /\ SlotsAreFresh
  /\ active => /\ \A c \in Callers : restore[c].pc = "idle"
               /\ \A l \in Lights : Follows(l)

LEMMA FrameKeepsSlotsFresh ==
  ASSUME SlotsOK, SlotsAreFresh, NEW frame \in Frames, ScheduleUpdates(frame), UNCHANGED avail
  PROVE  /\ SlotsAreFresh'
         /\ \A l \in Lights : slot'[l].dirty \/ (slot'[l] = slot[l] /\ last'[l] = last[l])
<1> DEFINE changed == {l \in DOMAIN frame : ~WithinTolerance(l, frame[l])}
<1>1. \A l \in DOMAIN frame : l \in Lights /\ frame[l] # None
  BY ColoursAssumption DEF Frames
<1>2. ASSUME NEW l \in Lights, l \in changed
      PROVE  slot'[l].dirty /\ slot'[l].data = last'[l] /\ last'[l] # None
  BY <1>1, <1>2 DEF ScheduleUpdates, SlotsOK, Slots
<1>3. ASSUME NEW l \in Lights, l \notin changed
      PROVE  slot'[l] = slot[l] /\ last'[l] = last[l]
  BY <1>3 DEF ScheduleUpdates
<1>4. QED
  BY <1>2, <1>3 DEF SlotsAreFresh

\* A pass takes what is queued for the light it sends to next, and nothing else; or
\* nothing is queued.
LEMMA PassTakesWhatItSends ==
  ASSUME SlotsOK, DrainsOK, SlotsAreFresh, NEW t \in Tasks,
         NEW passed, \A l \in Lights \cap passed : ~Ready(l), NEW from \in Nat \ {0}, NEW idle,
         Pass(t, passed, idle) \/ SendNext(t, passed, from)
  PROVE  /\ \A u \in Tasks \ {t} : drains'[u] = drains[u]
         /\ \/ \E next \in Lights :
                 /\ slot[next].dirty /\ ~slot'[next].dirty
                 /\ \A l \in Lights \ {next} : slot'[l] = slot[l]
                 /\ drains'[t].pc = "sending" /\ drains'[t].pos = next
                 /\ drains'[t].data = last[next]
            \/ slot' = slot /\ drains'[t].pc = "waiting"
<1>1. \A l \in Lights : slot[l].dirty <=> Ready(l)
  BY DEF SlotsAreFresh, Ready, SlotsOK, Slots
<1>2. ASSUME NEW first \in Nat \ {0}, SendNext(t, passed, first)
      PROVE  /\ \A u \in Tasks \ {t} : drains'[u] = drains[u]
             /\ \E next \in Lights :
                 /\ slot[next].dirty /\ ~slot'[next].dirty
                 /\ \A l \in Lights \ {next} : slot'[l] = slot[l]
                 /\ drains'[t].pc = "sending" /\ drains'[t].pos = next
                 /\ drains'[t].data = last[next]
  <2>1. PICK next \in first .. N :
          /\ Ready(next)
          /\ \A l \in first .. next - 1 : ~Ready(l)
          /\ slot' = Grabbed(passed \cup (first .. next))
          /\ drains' = [drains EXCEPT ![t].pc = "sending", ![t].pos = next,
                                      ![t].data = slot[next].data]
    BY <1>2 DEF SendNext
  <2>2. next \in Lights /\ next \in first .. next /\ slot[next].dirty
    BY <1>1, <2>1, NAssumption DEF Lights
  <2>3. ~slot'[next].dirty
    BY <2>1, <2>2 DEF Grabbed, EmptySlot
  <2>4. ASSUME NEW l \in Lights \ {next} PROVE slot'[l] = slot[l]
    <3>1. l \in passed \cup (first .. next) => ~slot[l].dirty
      <4>1. l \in first .. next => l \in first .. next - 1
        BY NAssumption DEF Lights
      <4>2. QED
        BY <1>1, <2>1, <4>1
    <3>2. QED
      BY <2>1, <3>1 DEF Grabbed
  <2>5. /\ drains'[t].pc = "sending" /\ drains'[t].pos = next
        /\ drains'[t].data = slot[next].data
        /\ \A u \in Tasks \ {t} : drains'[u] = drains[u]
    BY <2>1 DEF DrainsOK, DrainStates
  <2>6. slot[next].data = last[next]
    BY <2>2 DEF SlotsAreFresh
  <2>7. QED
    BY <2>2, <2>3, <2>4, <2>5, <2>6
<1>3. ASSUME \A l \in Lights : ~Ready(l), Sleep(t, idle)
      PROVE  /\ \A u \in Tasks \ {t} : drains'[u] = drains[u]
             /\ slot' = slot /\ drains'[t].pc = "waiting"
  <2>1. slot' = slot
    BY <1>1, <1>3 DEF Sleep, Grabbed, SlotsOK
  <2>2. QED
    BY <1>3, <2>1 DEF Sleep, Drain, DrainsOK
<1>4. QED
  BY <1>2, <1>3 DEF Pass

\* The step of a loop keeps the lights in step: its call has landed when it goes on.
LEMMA LoopKeepsFollowing ==
  ASSUME StreamOnly, FullInv, OneLoop, LightsFollow, NEW t \in Tasks,
         DrainStarts(t) \/ DrainWakes(t) \/ DrainSends(t)
  PROVE  LightsFollow'
<1>1. SlotsOK /\ DrainsOK /\ WorldOK
  BY DEF FullInv, Inv
<1>2. UNCHANGED <<active, restore, last, avail>> /\ drains[t].pc # "done"
  BY DEF DrainStarts, DrainWakes, DrainSends, session, world
<1>3. \A u \in Tasks \ {t} : drains[u].pc = "done"
  BY <1>2, TaskIsNotNone DEF OneLoop, Live
<1>4. /\ \A u \in Tasks \ {t} : drains'[u] = drains[u]
      /\ \/ \E next \in Lights :
              /\ slot[next].dirty /\ ~slot'[next].dirty
              /\ \A l \in Lights \ {next} : slot'[l] = slot[l]
              /\ drains'[t].pc = "sending" /\ drains'[t].pos = next
              /\ drains'[t].data = last[next]
         \/ slot' = slot /\ drains'[t].pc = "waiting"
  <2>1. CASE DrainStarts(t) \/ DrainWakes(t)
    <3>1. PICK idle : Pass(t, {}, idle)
      BY <2>1 DEF DrainStarts, DrainWakes
    <3>2. 1 \in Nat \ {0} /\ \A l \in Lights \cap {} : ~Ready(l)
      OBVIOUS
    <3>3. SlotsAreFresh
      BY DEF LightsFollow
    <3>4. QED
      BY <1>1, <3>1, <3>2, <3>3, PassTakesWhatItSends
  <2>2. CASE DrainSends(t)
    <3>1. drains[t].pos + 1 \in Nat \ {0}
      BY <1>1, NAssumption DEF DrainsOK, DrainStates
    <3>2. QED
      BY <1>1, <2>2, <3>1, PassTakesWhatItSends DEF LightsFollow, DrainSends
  <2>3. QED
    BY <2>1, <2>2
<1>5. ASSUME active, NEW l \in Lights, last[l] # None, ~slot[l].dirty
      PROVE  lamp'[l] = last[l]
  <2>1. Follows(l)
    BY <1>5 DEF LightsFollow
  <2>2. CASE DrainStarts(t) \/ DrainWakes(t)
    <3>1. \A u \in Tasks : ~SendingTo(u, l)
      BY <1>3, <2>2 DEF SendingTo, DrainStarts, DrainWakes
    <3>2. UNCHANGED lamp
      BY <2>2 DEF DrainStarts, DrainWakes, world
    <3>3. QED
      BY <1>5, <2>1, <3>1, <3>2 DEF Follows
  <2>3. CASE DrainSends(t)
    <3>1. lamp' = [lamp EXCEPT ![drains[t].pos] = drains[t].data]
      BY <2>3 DEF StreamOnly, DrainSends, Lands
    <3>2. CASE drains[t].pos = l
      <4>1. drains[t].data = last[l]
        <5>1. SendingTo(t, l)
          BY <2>3, <3>2 DEF SendingTo, DrainSends
        <5>2. PICK u \in Tasks : SendingTo(u, l) /\ drains[u].data = last[l]
          BY <1>5, <2>1, <5>1 DEF Follows
        <5>3. u = t
          BY <1>3, <5>2 DEF SendingTo
        <5>4. QED
          BY <5>2, <5>3
      <4>2. QED
        BY <1>1, <3>1, <3>2, <4>1 DEF WorldOK
    <3>3. CASE drains[t].pos # l
      <4>1. \A u \in Tasks : ~SendingTo(u, l)
        BY <1>3, <3>3 DEF SendingTo
      <4>2. lamp'[l] = lamp[l]
        BY <1>1, <3>1, <3>3 DEF WorldOK
      <4>3. QED
        BY <1>5, <2>1, <4>1, <4>2 DEF Follows
    <3>4. QED
      BY <3>2, <3>3
  <2>4. QED
    BY <2>2, <2>3
<1>6. SlotsAreFresh'
  <2>1. ASSUME NEW l \in Lights
        PROVE  ~slot'[l].dirty \/ slot'[l] = slot[l]
    BY <1>4
  <2>2. QED
    BY <1>2, <2>1 DEF LightsFollow, SlotsAreFresh
<1>7. ASSUME active, NEW l \in Lights PROVE Follows(l)'
  <2>1. SUFFICES ASSUME last[l] # None, ~slot'[l].dirty
                 PROVE  \/ lamp'[l] = last[l] /\ \A u \in Tasks : ~SendingTo(u, l)'
                        \/ \E u \in Tasks : SendingTo(u, l)' /\ drains'[u].data = last[l]
    BY <1>2 DEF Follows
  <2>2. \A u \in Tasks \ {t} : ~SendingTo(u, l)'
    BY <1>3, <1>4 DEF SendingTo
  <2>3. CASE slot[l].dirty
    BY <1>4, <2>1, <2>3 DEF SendingTo
  <2>4. CASE ~slot[l].dirty
    <3>1. ~SendingTo(t, l)'
      BY <1>4, <2>4 DEF SendingTo
    <3>2. QED
      BY <1>5, <1>7, <2>1, <2>2, <2>4, <3>1
  <2>5. QED
    BY <2>3, <2>4
<1>8. QED
  BY <1>2, <1>6, <1>7 DEF LightsFollow

LEMMA ResetIsFresh ==
  ASSUME SlotsOK, LightsFollow, ResetMappings, UNCHANGED avail,
         active' => \A c \in Callers : restore'[c].pc = "idle"
  PROVE  LightsFollow'
<1>1. \A l \in Lights : last'[l] = None
  BY DEF ResetMappings
<1>2. SlotsAreFresh'
  BY ResetEmpties DEF LightsFollow, SlotsAreFresh
<1>3. \A l \in Lights : Follows(l)'
  BY <1>1 DEF Follows
<1>4. QED
  BY <1>2, <1>3 DEF LightsFollow

LEMMA LightsFollowStep ==
  ASSUME StreamOnly, FullInv, OneLoop, LightsFollow, [Steps]_vars
  PROVE  LightsFollow'
<1>1. SlotsOK /\ DrainsOK /\ WorldOK
  BY DEF FullInv, Inv
<1>2. CASE UNCHANGED <<queue, avail>> /\ ~active'
  BY <1>2 DEF LightsFollow, SlotsAreFresh, queue
<1>3. CASE UNCHANGED <<active, restore, queue, drains, world>>
  BY <1>3 DEF LightsFollow, SlotsAreFresh, Follows, SendingTo, queue, world
<1>4. CASE async_snapshot_lights
  <2>1. \A c \in Callers : restore'[c].pc = "idle"
    BY <1>4 DEF async_snapshot_lights, Admitted, StreamOnly
  <2>2. ResetMappings /\ UNCHANGED avail
    BY <1>4 DEF async_snapshot_lights, world
  <2>3. QED
    BY <1>1, <2>1, <2>2, ResetIsFresh
<1>5. CASE async_pause \/ async_release
  <2>1. ResetMappings /\ UNCHANGED <<active, restore, avail>>
    BY <1>5 DEF async_pause, async_release, session, world
  <2>2. QED
    BY <1>1, <2>1, ResetIsFresh DEF LightsFollow
<1>6. ASSUME NEW frame \in Frames, handle_frame(frame) PROVE LightsFollow'
  <2>1. UNCHANGED <<active, restore, drains, world>>
    BY <1>6 DEF handle_frame, drain
  <2>2. CASE UNCHANGED queue
    BY <1>3, <2>1, <2>2
  <2>3. CASE ScheduleUpdates(frame)
    <3>1. /\ SlotsAreFresh'
          /\ \A l \in Lights : slot'[l].dirty \/ (slot'[l] = slot[l] /\ last'[l] = last[l])
      BY <1>1, <2>1, <2>3, FrameKeepsSlotsFresh DEF LightsFollow, world
    <3>2. ASSUME NEW l \in Lights, Follows(l) PROVE Follows(l)'
      BY <2>1, <3>1, <3>2 DEF Follows, SendingTo, world
    <3>3. QED
      BY <2>1, <3>1, <3>2 DEF LightsFollow
  <2>4. QED
    BY <1>6, <2>2, <2>3 DEF handle_frame
<1>7. ASSUME NEW t \in Tasks, DrainStep(t) PROVE LightsFollow'
  <2>1. CASE DrainStarts(t) \/ DrainWakes(t) \/ DrainSends(t)
    BY <2>1, LoopKeepsFollowing
  <2>2. CASE DrainIdlesOut(t)
    <3>1. /\ ~active' /\ UNCHANGED <<last, avail>>
          /\ \A l \in Lights : ~slot'[l].dirty
      BY <1>1, <2>2 DEF DrainIdlesOut, session, world, Grabbed, EmptySlot, SlotsOK, Slots
    <3>2. QED
      BY <3>1 DEF LightsFollow, SlotsAreFresh
  <2>3. CASE DrainCancelled(t) \/ DrainNeverRan(t)
    <3>1. /\ drains[t].cancelled /\ drains[t].pc # "done"
          /\ UNCHANGED <<active, queue, avail>>
      BY <2>3 DEF DrainCancelled, DrainNeverRan, session, world
    <3>2. t = drainTask /\ Live(drainTask)
      BY <3>1, TaskIsNotNone DEF OneLoop, Live
    <3>3. ~active
      BY <3>1, <3>2 DEF OneLoop, DrainRunningIsHonest, Draining
    <3>4. QED
      BY <1>2, <3>1, <3>3
  <2>4. QED
    BY <1>7, <2>1, <2>2, <2>3 DEF DrainStep
<1>8. ASSUME NEW c \in Callers, async_restore_lights(c) \/ RestoreResumes(c) PROVE LightsFollow'
  <2>1. ~active' /\ UNCHANGED avail
    BY <1>8 DEF async_restore_lights, RestoreResumes, OneLoop, Draining, world
  <2>2. ResetMappings \/ UNCHANGED <<slot, last>>
    BY <1>8 DEF async_restore_lights, RestoreResumes, RestoreTail
  <2>3. QED
    BY <1>1, <2>1, <2>2, ResetIsFresh DEF LightsFollow, SlotsAreFresh
<1>9. ASSUME NEW c \in Callers, RestoreAbandoned(c) \/ (\E l \in Lights : RestoreLight(c, l))
      PROVE  LightsFollow'
  <2>1. restore[c].pc = "restoring" /\ UNCHANGED <<active, queue, avail>>
    BY <1>9 DEF RestoreAbandoned, RestoreLight, session, world
  <2>2. ~active
    BY <2>1 DEF LightsFollow
  <2>3. QED
    BY <1>2, <2>1, <2>2
<1>10. CASE async_resume \/ PauseLapses \/ on_pause_expired \/ on_release_grace_expired
            \/ StreamFallsQuiet \/ UNCHANGED vars
  BY <1>3, <1>10 DEF async_resume, PauseLapses, on_pause_expired, on_release_grace_expired,
     StreamFallsQuiet, vars, session, drain
<1>11. ~ \E l \in Lights : LightAvailability(l)
  BY DEF LightAvailability, StreamOnly
<1>12. QED
  BY <1>4, <1>5, <1>6, <1>7, <1>8, <1>9, <1>10, <1>11
  DEF Steps, Next, RestoreFails, TVCommands, Background, RestoreStep, StreamOnly

LEMMA LightsFollowInvariance == ASSUME StreamOnly PROVE StepsSpec => []LightsFollow
<1>1. Init => LightsFollow
  BY DEF Init, LightsFollow, SlotsAreFresh, EmptySlot
<1>2. FullInv /\ OneLoop /\ LightsFollow /\ [Steps]_vars => LightsFollow'
  BY LightsFollowStep
<1>3. "draining" \notin Overlap
  BY DEF StreamOnly
<1>4. StepsSpec => []OneLoop
  BY <1>3, OneLoopInvariance
<1>5. QED
  BY <1>1, <1>2, <1>4, FullInvariance, PTL DEF StepsSpec

LEMMA LightsFollowFreshest == LightsFollow => LightsShowFreshest
BY DEF LightsFollow, Follows, SendingTo, LightsShowFreshest

\* A streaming light shows, or is being sent, the colour that counted last, if the
\* TV waits for teardowns and only streams, to lights that take every call.
THEOREM NewestColourShows == ASSUME StreamOnly PROVE Spec => []LightsShowFreshest
BY SpecTakesSteps, LightsFollowInvariance, LightsFollowFreshest, PTL

\* A session that begins finds the scene, and each teardown hands the scene to its
\* restore.
Quiet == ~active /\ \A c \in Callers : ~Draining(c)

Restoring(c, l) == restore[c].pc = "restoring" /\ l \in restore[c].todo

SceneIsKept ==
  /\ ~releasing
  /\ \A l \in Lights : avail[l]
  /\ \A c \in Callers, l \in Lights : Restoring(c, l) => restore[c].saved[l] = "scene"
  /\ IF Quiet
     THEN /\ \A t \in Tasks : ~Live(t)
          /\ \A l \in Lights : lamp[l] = "scene" \/ \E c \in Callers : Restoring(c, l)
     ELSE saved # None /\ \A l \in Lights : saved[l] = "scene"

NothingFails ==
  StreamOnly /\ "restore fails" \notin Faults /\ "release" \notin Services

LEMMA ResumingHandsOver ==
  ASSUME FullInv, OneLoop, SceneIsKept, NEW c \in Callers, RestoreResumes(c)
  PROVE  SceneIsKept'
<1>1. DrainsOK /\ WorldOK
  BY DEF FullInv, Inv
<1>2. /\ Draining(c) /\ ~Live(restore[c].task) /\ RestoreTail(c)
      /\ UNCHANGED <<active, releasing, drains, lamp, avail>>
  BY DEF RestoreResumes, Draining, suppress, world
<1>3. ~active /\ ~Quiet /\ restore[c].task = drainTask
  BY <1>2 DEF OneLoop, Quiet
<1>4. saved # None /\ \A l \in Lights : saved[l] = "scene"
  BY <1>3 DEF SceneIsKept
<1>5. "scene" # None /\ 1 \in Lights
  BY ColoursAssumption, NAssumption DEF Lights
<1>6. {l \in Lights : saved # None /\ saved[l] # None} = Lights /\ Lights # {}
  BY <1>4, <1>5
<1>7. restore' = [restore EXCEPT ![c] =
        [pc |-> "restoring", task |-> None, todo |-> Lights, saved |-> saved]]
  BY <1>2, <1>6 DEF RestoreTail
<1>8. /\ restore'[c].pc = "restoring" /\ restore'[c].todo = Lights
      /\ restore'[c].saved = saved
      /\ \A d \in Callers \ {c} : restore'[d] = restore[d]
  BY <1>1, <1>7 DEF WorldOK
<1>9. \A d \in Callers, l \in Lights : Restoring(d, l)' => restore'[d].saved[l] = "scene"
  BY <1>4, <1>8 DEF SceneIsKept, Restoring
<1>10. \A l \in Lights : \E d \in Callers : Restoring(d, l)'
  BY <1>8 DEF Restoring
<1>11. Quiet'
  BY <1>2, <1>3, <1>8 DEF OneLoop, Draining, Quiet
<1>12. \A t \in Tasks : ~Live(t)'
  BY <1>2, <1>3 DEF OneLoop, Live
<1>13. QED
  BY <1>2, <1>9, <1>10, <1>11, <1>12 DEF SceneIsKept

LEMMA RestoringBringsScene ==
  ASSUME FullInv, SceneIsKept, NEW c \in Callers, NEW l \in Lights, RestoreLight(c, l)
  PROVE  SceneIsKept'
<1>1. DrainsOK /\ WorldOK
  BY DEF FullInv, Inv
<1>2. /\ UNCHANGED <<active, releasing, saved, drains, avail>>
      /\ Restoring(c, l) /\ restore[c].saved[l] = "scene"
  BY DEF RestoreLight, Restoring, SceneIsKept, session, suppress, drain
<1>3. lamp'[l] = "scene" /\ \A m \in Lights \ {l} : lamp'[m] = lamp[m]
  BY <1>1, <1>2 DEF RestoreLight, WorldOK
<1>4. \A d \in Callers \ {c} : restore'[d] = restore[d]
  BY <1>1 DEF RestoreLight, WorldOK
<1>5. /\ ~Draining(c)'
      /\ \A m \in Lights : Restoring(c, m)' <=> Restoring(c, m) /\ m # l
      /\ \A m \in Lights : Restoring(c, m)' => restore'[c].saved[m] = restore[c].saved[m]
  <2>1. CASE restore[c].todo = {l}
    <3>1. restore'[c] = NoRestore
      BY <1>1, <2>1 DEF RestoreLight, WorldOK
    <3>2. NoRestore.pc = "idle"
      BY DEF NoRestore
    <3>3. QED
      BY <2>1, <3>1, <3>2 DEF Restoring, Draining
  <2>2. CASE restore[c].todo # {l}
    <3>1. restore'[c] = [restore[c] EXCEPT !.todo = restore[c].todo \ {l}]
      BY <1>1, <2>2 DEF RestoreLight, WorldOK
    <3>2. /\ restore'[c].pc = "restoring" /\ restore'[c].todo = restore[c].todo \ {l}
          /\ restore'[c].saved = restore[c].saved
      BY <1>1, <1>2, <3>1 DEF WorldOK, RestoreStates, Restoring
    <3>3. QED
      BY <1>2, <3>2 DEF Restoring, Draining
  <2>3. QED
    BY <2>1, <2>2
<1>6. Quiet' <=> Quiet
  <2>1. ~Draining(c)
    BY <1>2 DEF Restoring, Draining
  <2>2. QED
    BY <1>2, <1>4, <1>5, <2>1 DEF Quiet, Draining
<1>7. \A d \in Callers, m \in Lights : Restoring(d, m)' => restore'[d].saved[m] = "scene"
  BY <1>4, <1>5 DEF SceneIsKept, Restoring
<1>8. \A d \in Callers, m \in Lights : Restoring(d, m) => Restoring(d, m)' \/ m = l
  BY <1>4, <1>5 DEF Restoring
<1>9. \A t \in Tasks : Live(t)' <=> Live(t)
  BY <1>2 DEF Live
<1>10. QED
  BY <1>2, <1>3, <1>6, <1>7, <1>8, <1>9 DEF SceneIsKept

LEMMA SceneStep ==
  ASSUME NothingFails, FullInv, OneLoop, SceneIsKept, [Next]_vars
  PROVE  SceneIsKept'
<1>1. DrainsOK /\ WorldOK
  BY DEF FullInv, Inv
<1>2. StreamOnly /\ Overlap = {} /\ Bodies = {}
  BY DEF NothingFails, StreamOnly
<1>3. CASE UNCHANGED <<active, releasing, restore, saved, drains, world>>
  BY <1>3 DEF SceneIsKept, Restoring, Quiet, Draining, Live, world
<1>4. CASE async_snapshot_lights
  <2>1. ~active /\ active' /\ ~releasing' /\ UNCHANGED <<restore, avail>>
    BY <1>4 DEF async_snapshot_lights, SceneIsKept, CancelRelease, world
  <2>2. \A c \in Callers : restore[c].pc = "idle"
    BY <1>2, <1>4 DEF async_snapshot_lights, Admitted
  <2>3. \A l \in Lights : lamp[l] = "scene"
    BY <2>1, <2>2 DEF SceneIsKept, Quiet, Draining, Restoring
  <2>4. saved' = [l \in Lights |-> "scene"]
    BY <1>4, <2>3 DEF async_snapshot_lights, SceneIsKept
  <2>5. saved' # None
    BY <2>4, SavedAssumption DEF Snapshots, LampStates
  <2>6. QED
    BY <2>1, <2>2, <2>4, <2>5 DEF SceneIsKept, Quiet, Restoring
<1>5. ASSUME NEW t \in Tasks, DrainStep(t) PROVE SceneIsKept'
  <2>1. UNCHANGED <<active, releasing, restore, saved, avail>> /\ Live(t)
    BY <1>5, TaskIsNotNone
    DEF DrainStep, DrainStarts, DrainWakes, DrainSends, DrainIdlesOut, DrainCancelled,
        DrainNeverRan, session, suppress, world, Live
  <2>2. ~Quiet /\ ~Quiet'
    BY <2>1 DEF SceneIsKept, Quiet, Draining
  <2>3. QED
    BY <2>1, <2>2 DEF SceneIsKept, Restoring
<1>6. ASSUME NEW c \in Callers, async_restore_lights(c) PROVE SceneIsKept'
  <2>1. active /\ ~releasing' /\ UNCHANGED avail
    BY <1>6 DEF async_restore_lights, CancelRelease, world
  <2>2. Live(drainTask)
    BY <2>1 DEF OneLoop, DrainRunningIsHonest, Draining
  <2>3. /\ UNCHANGED saved
        /\ restore' = [restore EXCEPT ![c].pc = "draining", ![c].task = drainTask]
    BY <1>6, <2>2 DEF async_restore_lights
  <2>4. /\ restore'[c].pc = "draining" /\ \A d \in Callers \ {c} : restore'[d] = restore[d]
    BY <1>1, <2>3 DEF WorldOK, RestoreStates
  <2>5. ~Quiet /\ ~Quiet'
    BY <2>1, <2>4 DEF Quiet, Draining
  <2>6. \A d \in Callers, l \in Lights : Restoring(d, l)' => restore'[d].saved[l] = "scene"
    BY <2>4 DEF SceneIsKept, Restoring
  <2>7. QED
    BY <2>1, <2>3, <2>5, <2>6 DEF SceneIsKept
<1>7. ASSUME NEW c \in Callers, RestoreStep(c) PROVE SceneIsKept'
  BY <1>7, ResumingHandsOver, RestoringBringsScene DEF RestoreStep
<1>8. CASE (\E frame \in Frames : handle_frame(frame)) \/ async_pause \/ async_resume
           \/ PauseLapses \/ on_pause_expired \/ StreamFallsQuiet \/ UNCHANGED vars
  BY <1>3, <1>8 DEF handle_frame, async_pause, async_resume, PauseLapses, on_pause_expired,
     StreamFallsQuiet, vars, session, suppress, drain
<1>9. CASE on_release_grace_expired
  <2>1. FALSE
    BY <1>9, TimerFacts
    DEF on_release_grace_expired, FullInv, Inv, Suppression, TimersMatch, SceneIsKept
  <2>2. QED
    BY <2>1
<1>10. /\ ~ \E l \in Lights : LightAvailability(l)
       /\ ~ \E c \in Callers : RestoreFails(c)
       /\ ~ async_release
  BY DEF NothingFails, StreamOnly, LightAvailability, RestoreFails, async_release
<1>11. QED
  BY <1>2, <1>4, <1>5, <1>6, <1>7, <1>8, <1>9, <1>10 DEF Next, TVCommands, Background

\* The lights return to their scene, if the TV waits for teardowns and only streams,
\* nothing fails and no release takes the lights away.
THEOREM SceneReturns == ASSUME NothingFails PROVE Spec => []LightsComeBack
<1>1. Init => SceneIsKept
  BY NoRestoreIsState, TaskIsNotNone
  DEF Init, SceneIsKept, Quiet, Draining, Restoring, Live, Drain, NoRestore
<1>2. FullInv /\ OneLoop /\ SceneIsKept /\ [Next]_vars => SceneIsKept'
  BY SceneStep
<1>3. "draining" \notin Overlap
  BY DEF NothingFails, StreamOnly
<1>4. Spec => []OneLoop
  <2>1. StepsSpec => []OneLoop
    BY <1>3, OneLoopInvariance
  <2>2. QED
    BY <2>1, SpecTakesSteps, PTL
<1>5. SceneIsKept => LightsComeBack
  BY DEF SceneIsKept, LightsComeBack, AtRest, Quiet, Draining, Restoring
<1>6. QED
  BY <1>1, <1>2, <1>4, <1>5, SpecTakesSteps, FullInvariance, PTL DEF Spec
=============================================================================
