---------------------------- MODULE SessionControl ----------------------------
(***************************************************************************)
(* The control of a session around the engine: the Hue API's stream flag   *)
(* (hue_api.py), the frame watchdog, the start and stop requests of the TV *)
(* and the services of the integration (__init__.py). The engine's actions *)
(* are EntertainmentEngine's, called where the source calls them.          *)
(***************************************************************************)
EXTENDS EntertainmentEngine

CONSTANTS
  Users,  \* paired usernames
  Dogs,   \* identities of asyncio tasks running _frame_watchdog
  Stops   \* identities of requests in _set_entertainment_active(False)

ASSUME CallersAssumption ==
  /\ Callers = Dogs \cup Stops
  /\ Dogs \cap Stops = {}
  /\ None \notin Users \cup Dogs

VARIABLES
  owner,   \* _entertainment_owner; _entertainment_active is owner # None
  dogs,    \* every watchdog task; one in a teardown is suspended where restore says
  dogTask  \* the watchdog_task cell of async_setup_entry

control == <<owner, dogs, dogTask>>
controlVars == <<control, vars>>

ControlTypeOK ==
  /\ owner \in Users \cup {None}
  /\ dogs \in [Dogs -> {"off", "polling", "cancelled"}]
  /\ dogTask \in Dogs \cup {None}

ControlInit ==
  /\ Init
  /\ owner = None
  /\ dogs = [d \in Dogs |-> "off"]
  /\ dogTask = None

-----------------------------------------------------------------------------
(* Requests of the TV *)

DogAlive(d) == d # None /\ (dogs[d] = "polling" \/ restore[d].pc # "idle")

\* Mutant: a watchdog that has returned counts as one.
EnsureFirstWatchdog ==
  IF dogTask # None
  THEN UNCHANGED <<dogs, dogTask>>
  ELSE \E d \in Dogs : /\ ~DogAlive(d)
                       /\ dogs' = [dogs EXCEPT ![d] = "polling"]
                       /\ dogTask' = d

EnsureWatchdog ==
  IF DogAlive(dogTask)
  THEN UNCHANGED <<dogs, dogTask>>
  ELSE \E d \in Dogs : /\ ~DogAlive(d)
                       /\ dogs' = [dogs EXCEPT ![d] = "polling"]
                       /\ dogTask' = d

\* PUT stream.active = true. On a session already running and not being
\* released async_snapshot_lights returns at once.
on_entertainment_start(u) ==
  /\ owner' = u
  /\ \/ async_snapshot_lights
     \/ active /\ ~releasing /\ Admitted /\ UNCHANGED vars
  /\ EnsureWatchdog

\* Mutant: the task is forgotten, not cancelled.
ForgetWatchdog == dogTask' = None /\ UNCHANGED dogs

\* Cancelling a polling watchdog ends it. One that is tearing the session down
\* is hit at its await: the wait for the drain task swallows the cancellation,
\* the restore does not.
CancelWatchdog ==
  /\ dogTask' = None
  /\ dogs' = [d \in Dogs |->
       IF d # dogTask THEN dogs[d]
       ELSE IF restore[d].pc = "restoring" THEN "cancelled"
       ELSE "off"]

\* PUT stream.active = false
on_entertainment_stop(q) ==
  /\ restore[q].pc = "idle"
  /\ owner' = None
  /\ CancelWatchdog
  /\ \/ async_restore_lights(q)
     \/ ~active /\ UNCHANGED vars

-----------------------------------------------------------------------------
(* The frame watchdog *)

\* A poll that finds frames recent changes nothing, and none finds the session
\* already over (see OneWatchdog).
WatchdogStopsSession(d) ==
  /\ dogs[d] = "polling"
  /\ quiet
  /\ owner' = None
  /\ dogs' = [dogs EXCEPT ![d] = "off"]
  /\ async_restore_lights(d)
  /\ UNCHANGED dogTask

\* The CancelledError reaches its await on the restore and escapes it.
WatchdogAbandonsRestore(d) ==
  /\ dogs[d] = "cancelled"
  /\ RestoreAbandoned(d)
  /\ dogs' = [dogs EXCEPT ![d] = "off"]
  /\ UNCHANGED <<owner, dogTask>>

WatchdogStep(d) == WatchdogStopsSession(d) \/ WatchdogAbandonsRestore(d)

-----------------------------------------------------------------------------
(* The services *)

\* Mutant: the API keeps reporting the stream.
ReleaseEngineOnly == async_release /\ UNCHANGED control

release ==
  /\ owner' = None
  /\ async_release
  /\ UNCHANGED <<dogs, dogTask>>

-----------------------------------------------------------------------------

ControlNext ==
  \/ \E u \in Users : on_entertainment_start(u)
  \/ \E q \in Stops : on_entertainment_stop(q)
  \/ \E d \in Dogs : WatchdogStep(d)
  \/ release
  \/ (TVCommands \/ async_pause \/ async_resume \/ Background) /\ UNCHANGED control

ControlSpec == ControlInit /\ [][ControlNext]_controlVars

\* Ready coroutines run, timers fire, awaited calls return, and time passes
\* while the frames of a forced release no longer count.
ControlFairSpec ==
  /\ ControlSpec
  /\ \A t \in Tasks : WF_controlVars(DrainStep(t) /\ UNCHANGED control)
  /\ \A c \in Callers : WF_controlVars(RestoreStep(c) /\ UNCHANGED control)
  /\ \A d \in Dogs : WF_controlVars(WatchdogStep(d))
  /\ WF_controlVars(on_release_grace_expired /\ UNCHANGED control)
  /\ WF_controlVars(forcing /\ StreamFallsQuiet /\ UNCHANGED control)

-----------------------------------------------------------------------------
(* Properties *)

\* What the API tells the TV agrees with the engine, whichever path ended or
\* released the session and whatever request falls into a teardown: the stream
\* is reported active exactly while there is a session nobody released
\* ("so they can never diverge", _async_stop_entertainment_session; the
\* release service).
ApiAgreesWithEngine == owner # None <=> active /\ ~releasing

\* A running session has a watchdog that is still polling, so a TV that
\* disappears is noticed (_on_entertainment_start). It takes a TV that sends no
\* start request during a teardown.
SessionIsWatched == active => dogTask # None /\ dogs[dogTask] = "polling"

\* A polling watchdog is the one the cell names, so that _cancel_watchdog does
\* not miss it, and has a session: none survives into the next one, to poll it
\* beside that session's own (_cancel_watchdog, _frame_watchdog).
OneWatchdog == \A d \in Dogs : dogs[d] = "polling" => d = dogTask /\ active

\* Once release() is no longer being called, the release is over in the end,
\* though the TV never reacts and streams for ever: the grace timer, the starved
\* watchdog and the teardown see to it ("this integration never leaves you
\* waiting on the TV forever", async_release).
ReleaseEnds == <>[][~release]_controlVars => []<>~releasing

\* A stream that has gone silent is torn down unless frames come back
\* (_frame_watchdog).
SilentStreamEnds == active /\ quiet ~> ~active \/ ~quiet

\* A teardown always returns: no coroutine waits for ever for a drain task
\* (async_restore_lights).
TeardownReturns == \A c \in Callers : restore[c].pc # "idle" ~> restore[c].pc = "idle"
=============================================================================
