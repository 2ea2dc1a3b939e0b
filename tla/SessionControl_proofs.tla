------------------------- MODULE SessionControl_proofs -------------------------
(***************************************************************************)
(* The control around the engine, for any number of users, watchdogs,      *)
(* stop requests and lights: what the API reports agrees with the engine,  *)
(* watchdogs do not pile up, and what is proved of the engine alone holds  *)
(* of the engine under this control.                                       *)
(***************************************************************************)
EXTENDS SessionControl, EngineLoop_proofs

-----------------------------------------------------------------------------
(* The engine under control *)

\* Every step of the control is a step of the engine or leaves it alone, if a caller
\* may abandon its restore, as a cancelled watchdog does.
LEMMA ControlTakesSteps == [ControlNext]_controlVars => [Steps]_vars
<1> SUFFICES ASSUME [ControlNext]_controlVars
             PROVE  [Steps]_vars
  OBVIOUS
<1>1. Dogs \subseteq Callers /\ Stops \subseteq Callers
  BY CallersAssumption
<1>2. ASSUME NEW u \in Users, on_entertainment_start(u) PROVE [Steps]_vars
  BY <1>2 DEF on_entertainment_start, Steps, Next
<1>3. ASSUME NEW q \in Stops, on_entertainment_stop(q) PROVE [Steps]_vars
  BY <1>1, <1>3 DEF on_entertainment_stop, Steps, Next
<1>4. ASSUME NEW d \in Dogs, WatchdogStep(d) PROVE [Steps]_vars
  <2>1. CASE WatchdogStopsSession(d)
    BY <1>1, <2>1 DEF WatchdogStopsSession, Steps, Next
  <2>2. CASE WatchdogAbandonsRestore(d)
    BY <1>1, <2>2 DEF WatchdogAbandonsRestore, Steps
  <2>3. QED
    BY <1>4, <2>1, <2>2 DEF WatchdogStep
<1>5. CASE release
  BY <1>5 DEF release, Steps, Next
<1>6. CASE TVCommands \/ async_pause \/ async_resume \/ Background
  BY <1>6 DEF Steps, Next
<1>7. CASE UNCHANGED controlVars
  BY <1>7 DEF controlVars
<1>8. QED
  BY <1>2, <1>3, <1>4, <1>5, <1>6, <1>7 DEF ControlNext

\* So whatever is proved of the engine's steps and an abandoned restore holds of
\* the engine as the integration drives it.
LEMMA ControlDrivesEngine == ControlSpec => StepsSpec
<1>1. ControlInit => Init
  BY DEF ControlInit
<1>2. QED
  BY <1>1, ControlTakesSteps, PTL DEF ControlSpec, StepsSpec

\* The control implements the engine's specification, if a restore may fail there.
THEOREM ControlImplementsEngine == "restore fails" \in Faults => (ControlSpec => Spec)
<1> SUFFICES ASSUME "restore fails" \in Faults
             PROVE  ControlSpec => Spec
  OBVIOUS
<1>1. ControlInit => Init
  BY DEF ControlInit
<1>2. Steps => Next
  BY DEF Steps, Next, Background, RestoreFails
<1>3. [ControlNext]_controlVars => [Next]_vars
  BY <1>2, ControlTakesSteps
<1>4. QED
  BY <1>1, <1>3, PTL DEF ControlSpec, Spec

\* Whatever the TV, the watchdog, the services and a cancelled teardown do, the
\* engine's flags match its timers, a release has something to end it, and nothing
\* is queued while paused or releasing.
THEOREM ControlKeepsPromises ==
  ControlSpec => [](TimersHeld /\ ReleaseHasResolver /\ NothingQueuedWhileSuppressed)
BY ControlDrivesEngine, Invariance, InvPromises, PTL

\* No service call begins while paused or releasing, though a stop cancels the
\* watchdog in the middle of its teardown.
THEOREM ControlSendsNothingSuppressed == ControlSpec => NoSendBeginsWhileSuppressed
BY ControlDrivesEngine, StepsSendNothingSuppressed, PTL

\* The sensors show what the engine does, and a snapshot has a session or a
\* teardown that will use it: also after a teardown that was cancelled.
THEOREM ControlKeepsSensors == ControlSpec => [](SensorFresh /\ SnapshotHasSession)
<1>1. FullInv => SensorFresh /\ SnapshotHasSession
  BY DEF FullInv
<1>2. QED
  BY <1>1, ControlDrivesEngine, FullInvariance, PTL

\* The engine's variables keep their types.
THEOREM ControlledEngineTypes == ControlSpec => []TypeOK
BY ControlDrivesEngine, FullInvariance, FullInvTypes, PTL

\* The engine under control keeps the promise of pause, resume and release.
THEOREM ControlKeepsContract == ControlSpec => KeepsContract
BY ControlDrivesEngine, StepsKeepContract, PTL

\* Under control, too, a session, its silence and its release take the course that
\* SessionTiming measures, though a stop may cancel the watchdog.
THEOREM ControlKeepsSession == ControlSpec => KeepsSessionContract
BY ControlDrivesEngine, StepsKeepSession, PTL

\* The drain flag tells whether there is a loop to send, one light is not sent to by
\* two loops, and no wake-up is lost, if the TV's requests do not fall between a
\* teardown's cancelling of the loop and its end.
THEOREM ControlHasOneLoop ==
  ASSUME "draining" \notin Overlap
  PROVE  ControlSpec => [](DrainRunningIsHonest /\ OneCallAtATime /\ NoLostWakeup)
BY ControlDrivesEngine, OneLoopInvariance, OneLoopPromises, StepsKeepWakeups, PTL

\* A streaming light shows, or is being sent, the colour that counted last, whatever
\* session it is and however the last one ended.
THEOREM ControlShowsFreshest == ASSUME StreamOnly PROVE ControlSpec => []LightsShowFreshest
BY ControlDrivesEngine, LightsFollowInvariance, LightsFollowFreshest, PTL

-----------------------------------------------------------------------------
(* What the steps the control leaves to the engine do to the session *)

\* A session begins and ends only at the control's hands.
LEMMA SessionIsControlled ==
  ASSUME TVCommands \/ async_pause \/ async_resume \/ Background
  PROVE  active' = active
<1>1. CASE TVCommands \/ async_pause \/ async_resume
  BY <1>1 DEF TVCommands, handle_frame, handle_light_command, async_pause, async_resume, session
<1>2. CASE PauseLapses \/ on_pause_expired \/ on_release_grace_expired \/ StreamFallsQuiet
           \/ (\E l \in Lights : LightAvailability(l))
  BY <1>2 DEF PauseLapses, on_pause_expired, on_release_grace_expired, StreamFallsQuiet,
     LightAvailability, session
<1>3. ASSUME NEW t \in Tasks, DrainStep(t) PROVE active' = active
  BY <1>3 DEF DrainStep, DrainStarts, DrainWakes, DrainSends, DrainIdlesOut,
              DrainCancelled, DrainNeverRan, session
<1>4. ASSUME NEW c \in Callers, RestoreStep(c) \/ RestoreFails(c) PROVE active' = active
  BY <1>4 DEF RestoreStep, RestoreResumes, RestoreLight, RestoreFails, RestoreAbandoned, session
<1>5. QED
  BY <1>1, <1>2, <1>3, <1>4 DEF Background

\* Left to itself the engine neither enters a release nor, in a session, leaves one.
LEMMA ReleaseIsControlled ==
  ASSUME TVCommands \/ async_pause \/ async_resume \/ Background
  PROVE  (active /\ ~releasing)' <=> active /\ ~releasing
<1>0. active' = active
  BY SessionIsControlled
<1>1. CASE releasing' = releasing
  BY <1>0, <1>1
<1>2. CASE TVCommands \/ async_pause \/ async_resume
  BY <1>2, <1>1 DEF TVCommands, handle_frame, handle_light_command, async_pause, async_resume,
                    suppress
<1>3. CASE PauseLapses \/ on_pause_expired \/ StreamFallsQuiet
           \/ (\E l \in Lights : LightAvailability(l))
  BY <1>3, <1>1 DEF PauseLapses, on_pause_expired, StreamFallsQuiet, LightAvailability, suppress
<1>4. CASE on_release_grace_expired
  <2>1. releasing' <=> releasing /\ active
    BY <1>4, Zenon DEF on_release_grace_expired
  <2>2. QED
    BY <1>0, <2>1, Zenon
<1>5. ASSUME NEW t \in Tasks, DrainStep(t) PROVE releasing' = releasing
  BY <1>5 DEF DrainStep, DrainStarts, DrainWakes, DrainSends, DrainIdlesOut,
              DrainCancelled, DrainNeverRan, suppress
<1>6. ASSUME NEW c \in Callers, RestoreStep(c) \/ RestoreFails(c) PROVE releasing' = releasing
  BY <1>6 DEF RestoreStep, RestoreResumes, RestoreLight, RestoreFails, RestoreAbandoned, suppress
<1>7. QED
  BY <1>1, <1>2, <1>3, <1>4, <1>5, <1>6 DEF Background

-----------------------------------------------------------------------------
(* The theorems *)

\* The API reports a stream exactly while the engine has one that nobody
\* released, whichever path ended it and whatever falls into a teardown.
THEOREM ApiAgrees == ControlSpec => []ApiAgreesWithEngine
<1>1. ControlInit => ApiAgreesWithEngine
  BY DEF ControlInit, Init, ApiAgreesWithEngine
<1>2. ApiAgreesWithEngine /\ [ControlNext]_controlVars => ApiAgreesWithEngine'
  <2> SUFFICES ASSUME ApiAgreesWithEngine, [ControlNext]_controlVars
               PROVE  ApiAgreesWithEngine'
    OBVIOUS
  <2>1. ASSUME owner' = None, ~active' \/ releasing' PROVE ApiAgreesWithEngine'
    BY <2>1 DEF ApiAgreesWithEngine
  <2>2. ASSUME owner' = owner, (active /\ ~releasing)' <=> active /\ ~releasing
        PROVE  ApiAgreesWithEngine'
    BY <2>2, Zenon DEF ApiAgreesWithEngine
  <2>3. ASSUME UNCHANGED vars PROVE (active /\ ~releasing)' <=> active /\ ~releasing
    BY <2>3 DEF vars, session, suppress
  <2>4. ASSUME NEW c, async_restore_lights(c) PROVE ~active'
    BY <2>4 DEF async_restore_lights
  <2>5. ASSUME NEW u \in Users, on_entertainment_start(u) PROVE ApiAgreesWithEngine'
    <3>1. owner' # None
      BY <2>5, CallersAssumption DEF on_entertainment_start
    <3>2. active' /\ ~releasing'
      <4>1. CASE async_snapshot_lights
        BY <4>1 DEF async_snapshot_lights, CancelRelease
      <4>2. CASE active /\ ~releasing /\ UNCHANGED vars
        BY <4>2, <2>3
      <4>3. QED
        BY <2>5, <4>1, <4>2 DEF on_entertainment_start
    <3>3. QED
      BY <3>1, <3>2 DEF ApiAgreesWithEngine
  <2>6. ASSUME NEW q \in Stops, on_entertainment_stop(q) PROVE ApiAgreesWithEngine'
    <3>1. ~active'
      BY <2>6, <2>4 DEF on_entertainment_stop, vars, session
    <3>2. QED
      BY <2>6, <3>1, <2>1 DEF on_entertainment_stop
  <2>7. ASSUME NEW d \in Dogs, WatchdogStep(d) PROVE ApiAgreesWithEngine'
    <3>1. CASE WatchdogStopsSession(d)
      BY <3>1, <2>1, <2>4 DEF WatchdogStopsSession
    <3>2. CASE WatchdogAbandonsRestore(d)
      <4>1. active' = active /\ releasing' = releasing /\ owner' = owner
        BY <3>2 DEF WatchdogAbandonsRestore, RestoreAbandoned, session, suppress
      <4>2. QED
        BY <4>1, <2>2
    <3>3. QED
      BY <2>7, <3>1, <3>2 DEF WatchdogStep
  <2>8. CASE release
    BY <2>8, <2>1 DEF release, async_release
  <2>9. CASE (TVCommands \/ async_pause \/ async_resume \/ Background) /\ UNCHANGED control
    BY <2>9, <2>2, ReleaseIsControlled DEF control
  <2>10. CASE UNCHANGED controlVars
    BY <2>10, <2>2, <2>3 DEF controlVars, control
  <2>11. QED
    BY <2>5, <2>6, <2>7, <2>8, <2>9, <2>10 DEF ControlNext
<1>3. QED
  BY <1>1, <1>2, PTL DEF ControlSpec

DogsInv == ControlTypeOK /\ OneWatchdog

\* The control's variables keep their types, and a watchdog that polls is the
\* one the cell names and has a session: however starts, stops, timeouts and
\* teardowns overlap, no second one is left behind.
THEOREM WatchdogInvariance == ControlSpec => []DogsInv
<1> USE DEF DogsInv, ControlTypeOK, OneWatchdog
<1>1. ControlInit => DogsInv
  BY DEF ControlInit
<1>2. DogsInv /\ [ControlNext]_controlVars => DogsInv'
  <2> SUFFICES ASSUME DogsInv, [ControlNext]_controlVars
               PROVE  DogsInv'
    OBVIOUS
  <2>1. ASSUME NEW u \in Users, on_entertainment_start(u) PROVE DogsInv'
    <3>1. active' /\ owner' \in Users
      BY <2>1 DEF on_entertainment_start, async_snapshot_lights, vars, session
    <3>2. CASE UNCHANGED <<dogs, dogTask>>
      BY <3>1, <3>2
    <3>3. ASSUME NEW d \in Dogs, ~DogAlive(dogTask),
                 dogs' = [dogs EXCEPT ![d] = "polling"], dogTask' = d
          PROVE  DogsInv'
      <4>1. \A e \in Dogs : dogs[e] # "polling"
        BY <3>3, CallersAssumption DEF DogAlive
      <4>2. QED
        BY <3>1, <3>3, <4>1
    <3>4. QED
      BY <2>1, <3>2, <3>3 DEF on_entertainment_start, EnsureWatchdog
  <2>2. ASSUME NEW q \in Stops, on_entertainment_stop(q) PROVE DogsInv'
    <3>1. \A d \in Dogs : dogs'[d] # "polling"
      BY <2>2 DEF on_entertainment_stop, CancelWatchdog
    <3>2. dogs' \in [Dogs -> {"off", "polling", "cancelled"}]
      BY <2>2 DEF on_entertainment_stop, CancelWatchdog
    <3>3. owner' = None /\ dogTask' = None
      BY <2>2 DEF on_entertainment_stop, CancelWatchdog
    <3>4. QED
      BY <3>1, <3>2, <3>3
  <2>3. ASSUME NEW d \in Dogs, WatchdogStep(d) PROVE DogsInv'
    <3>1. CASE WatchdogStopsSession(d)
      BY <3>1 DEF WatchdogStopsSession
    <3>2. CASE WatchdogAbandonsRestore(d)
      BY <3>2 DEF WatchdogAbandonsRestore, RestoreAbandoned, session
    <3>3. QED
      BY <2>3, <3>1, <3>2 DEF WatchdogStep
  <2>4. CASE release
    BY <2>4 DEF release, async_release
  <2>5. CASE (TVCommands \/ async_pause \/ async_resume \/ Background) /\ UNCHANGED control
    BY <2>5, SessionIsControlled DEF control
  <2>6. CASE UNCHANGED controlVars
    BY <2>6 DEF controlVars, control, vars, session
  <2>7. QED
    BY <2>1, <2>2, <2>3, <2>4, <2>5, <2>6 DEF ControlNext
<1>3. QED
  BY <1>1, <1>2, PTL DEF ControlSpec

\* A polling watchdog is the one the cell names and has a session.
THEOREM WatchdogIsSingle == ControlSpec => []OneWatchdog
BY WatchdogInvariance, PTL DEF DogsInv

\* The control's variables keep their types.
THEOREM ControlTypeCorrect == ControlSpec => []ControlTypeOK
BY WatchdogInvariance, PTL DEF DogsInv

\* No session starts while the watchdog that the cell names is tearing the last one down.
StartMissesTeardown ==
  (\E u \in Users : on_entertainment_start(u)) => dogTask = None \/ restore[dogTask].pc = "idle"

\* A running session has a watchdog that polls: whatever stop, timeout or release ended
\* the last one, and whatever teardown still goes on, the next start finds its watchdog
\* polling or makes one, unless the watchdog itself is in the middle of a teardown.
THEOREM SessionIsWatchedUnlessTornDown ==
  ControlSpec /\ [][StartMissesTeardown]_controlVars => []SessionIsWatched
<1>1. ControlInit => SessionIsWatched
  BY DEF ControlInit, Init, SessionIsWatched
<1>2. DogsInv /\ SessionIsWatched /\ [ControlNext]_controlVars /\ [StartMissesTeardown]_controlVars
      => SessionIsWatched'
  <2> SUFFICES ASSUME DogsInv, SessionIsWatched, [ControlNext]_controlVars,
                      [StartMissesTeardown]_controlVars
               PROVE  SessionIsWatched'
    OBVIOUS
  <2>1. ASSUME NEW u \in Users, on_entertainment_start(u) PROVE SessionIsWatched'
    <3>1. CASE StartMissesTeardown /\ DogAlive(dogTask) /\ UNCHANGED <<dogs, dogTask>>
      BY <2>1, <3>1 DEF StartMissesTeardown, DogAlive, SessionIsWatched, DogsInv, ControlTypeOK
    <3>2. CASE UNCHANGED controlVars
      BY <3>2 DEF controlVars, control, vars, session, SessionIsWatched
    <3>3. ASSUME NEW d \in Dogs, dogs' = [dogs EXCEPT ![d] = "polling"], dogTask' = d
          PROVE  SessionIsWatched'
      BY <3>3, CallersAssumption DEF SessionIsWatched, DogsInv, ControlTypeOK
    <3>4. QED
      BY <2>1, <3>1, <3>2, <3>3 DEF on_entertainment_start, EnsureWatchdog
  <2>2. ASSUME NEW q \in Stops, on_entertainment_stop(q) PROVE SessionIsWatched'
    BY <2>2 DEF on_entertainment_stop, async_restore_lights, SessionIsWatched, vars, session
  <2>3. ASSUME NEW d \in Dogs, WatchdogStep(d) PROVE SessionIsWatched'
    <3>1. CASE WatchdogStopsSession(d)
      BY <3>1 DEF WatchdogStopsSession, async_restore_lights, SessionIsWatched
    <3>2. CASE WatchdogAbandonsRestore(d)
      <4>1. /\ dogs[d] = "cancelled" /\ dogs' = [dogs EXCEPT ![d] = "off"]
            /\ UNCHANGED <<dogTask, active>>
        BY <3>2 DEF WatchdogAbandonsRestore, RestoreAbandoned, session
      <4>2. QED
        BY <4>1 DEF SessionIsWatched, DogsInv, ControlTypeOK
    <3>3. QED
      BY <2>3, <3>1, <3>2 DEF WatchdogStep
  <2>4. CASE release
    BY <2>4 DEF release, async_release, SessionIsWatched
  <2>5. CASE (TVCommands \/ async_pause \/ async_resume \/ Background) /\ UNCHANGED control
    BY <2>5, SessionIsControlled DEF control, SessionIsWatched
  <2>6. CASE UNCHANGED controlVars
    BY <2>6 DEF controlVars, control, vars, session, SessionIsWatched
  <2>7. QED
    BY <2>1, <2>2, <2>3, <2>4, <2>5, <2>6 DEF ControlNext
<1>3. QED
  BY <1>1, <1>2, WatchdogInvariance, PTL DEF ControlSpec

\* In particular it has one if the TV's requests wait for teardowns.
THEOREM SessionHasWatchdog == ASSUME Overlap = {} PROVE ControlSpec => []SessionIsWatched
<1>1. DogsInv /\ [ControlNext]_controlVars => [StartMissesTeardown]_controlVars
  <2> SUFFICES ASSUME DogsInv, NEW u \in Users, on_entertainment_start(u)
               PROVE  dogTask = None \/ restore[dogTask].pc = "idle"
    BY DEF StartMissesTeardown
  <2>1. \A d \in Dogs : restore[d].pc = "idle"
    BY CallersAssumption DEF on_entertainment_start, async_snapshot_lights, Admitted
  <2>2. QED
    BY <2>1 DEF DogsInv, ControlTypeOK
<1>2. QED
  BY <1>1, WatchdogInvariance, SessionIsWatchedUnlessTornDown, PTL DEF ControlSpec

-----------------------------------------------------------------------------
(* The scene under control *)

\* No stop cancels a watchdog in the middle of its restore.
RestoreIsLeftAlone == \A d \in Dogs : ~WatchdogAbandonsRestore(d)

\* Every light shows its scene again once sessions and teardowns are over, whoever ended
\* them, if nothing fails and no release is asked for, and no stop of the TV cancels a
\* watchdog that restores: that is the one way in which control loses the scene.
THEOREM ControlBringsSceneBack ==
  ASSUME NothingFails
  PROVE  ControlSpec /\ [][RestoreIsLeftAlone]_controlVars => []LightsComeBack
<1>1. ControlInit => Init
  BY DEF ControlInit
<1>2. [ControlNext]_controlVars /\ [RestoreIsLeftAlone]_controlVars => [Next]_vars
  <2> SUFFICES ASSUME [ControlNext]_controlVars, [RestoreIsLeftAlone]_controlVars
               PROVE  [Next]_vars
    OBVIOUS
  <2>1. Dogs \subseteq Callers /\ Stops \subseteq Callers
    BY CallersAssumption
  <2>2. CASE UNCHANGED controlVars
    BY <2>2 DEF controlVars
  <2>3. ASSUME NEW u \in Users, on_entertainment_start(u) PROVE [Next]_vars
    BY <2>3 DEF on_entertainment_start, Next
  <2>4. ASSUME NEW q \in Stops, on_entertainment_stop(q) PROVE [Next]_vars
    BY <2>1, <2>4 DEF on_entertainment_stop, Next
  <2>5. ASSUME NEW d \in Dogs, WatchdogStep(d) PROVE [Next]_vars
    <3>1. CASE WatchdogStopsSession(d)
      BY <2>1, <3>1 DEF WatchdogStopsSession, Next
    <3>2. CASE WatchdogAbandonsRestore(d)
      BY <2>2, <3>2 DEF RestoreIsLeftAlone
    <3>3. QED
      BY <2>5, <3>1, <3>2 DEF WatchdogStep
  <2>6. CASE release \/ TVCommands \/ async_pause \/ async_resume \/ Background
    BY <2>6 DEF release, Next
  <2>7. QED
    BY <2>2, <2>3, <2>4, <2>5, <2>6 DEF ControlNext
<1>3. QED
  BY <1>1, <1>2, SceneReturns, PTL DEF ControlSpec, Spec
=============================================================================
