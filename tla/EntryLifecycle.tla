---------------------------- MODULE EntryLifecycle ----------------------------
(***************************************************************************)
(* The life of the config entry in __init__.py: async_setup_entry starts   *)
(* the two servers and the advertisement, at once or when Home Assistant   *)
(* has started, async_unload_entry and the stop listener take them down    *)
(* and put the lights back, and Home Assistant sets the entry up again     *)
(* after a failed bind or a reload. The module composes the entry with     *)
(* DtlsServer, whose thread, loop and TV take their steps meanwhile.       *)
(*                                                                         *)
(* The REST API has a server of its own (the standalone mode) or is Hosted *)
(* by Home Assistant's HTTP server, and requests that start or stop a      *)
(* session may be in its hands when it is stopped: its own server waits    *)
(* for them or cancels them, HueHttpHost only forwards no new ones.        *)
(* Home Assistant, the other programs of the host and zeroconf are modelled *)
(* from what the code makes of them. An unload or a shutdown may come      *)
(* while _async_start waits for zeroconf if Overlap says so. Binding the   *)
(* port takes one turn of the loop, and is not overtaken. Left out: the    *)
(* end of Home Assistant's start while an unload is under way, and a new   *)
(* setup while the last server still has a request.                        *)
(***************************************************************************)
EXTENDS DtlsServer

CONSTANTS
  Overlap, \* whether a stop may overtake a start
  Hosted   \* whether Home Assistant's HTTP server serves the REST API

ASSUME OverlapAssumption == Overlap \in BOOLEAN
ASSUME HostedAssumption == Hosted \in BOOLEAN

VARIABLES
  ha,        \* hass.state
  entry,     \* entry.state
  reloading, \* a reload is scheduled, or on its way from the unload to the setup
  listening, \* _async_deferred_start waits for EVENT_HOMEASSISTANT_STARTED
  starter,   \* what _async_start awaits
  stopper,   \* what _async_stop or async_unload_entry awaits
  http,      \* the REST server, "closing" while its requests finish
  mdns,      \* whether the bridge is advertised
  taken,     \* another program has the REST server's port
  request,   \* the session request in the REST server's hands
  session    \* engine.is_active

entryVars == <<ha, entry, reloading, listening, starter, stopper, http, mdns, taken,
               request, session>>
lifecycleVars == <<vars, entryVars>>

LifecycleTypeOK ==
  /\ TypeOK
  /\ ha \in {"starting", "running", "stopping", "stopped"}
  /\ entry \in {"not_loaded", "setting_up", "loaded", "unloading", "retry",
               "failed"}
  /\ reloading \in BOOLEAN /\ listening \in BOOLEAN
  /\ starter \in {"none", "http", "mdns"}
  /\ stopper \in {"none", "dtls", "http", "mdns", "restoring"}
  /\ http \in {"down", "up", "closing"}
  /\ mdns \in BOOLEAN /\ taken \in BOOLEAN
  /\ request \in {"none", "start", "stop"}
  /\ session \in BOOLEAN

LifecycleInit ==
  /\ Init
  /\ ha \in {"starting", "running"}
  /\ entry = "not_loaded" /\ reloading = FALSE /\ listening = FALSE
  /\ starter = "none" /\ stopper = "none"
  /\ http = "down" /\ mdns = FALSE /\ taken = FALSE
  /\ request = "none" /\ session = FALSE

HaIsUp == ha \in {"starting", "running"}
Settled == starter = "none" /\ stopper = "none"
MayStop == Settled \/ (Overlap /\ starter = "mdns" /\ stopper = "none")

-----------------------------------------------------------------------------
(* Setting up *)

\* A DTLSPSKServer and a FrameMailbox of the entry's own
NewServers ==
  /\ running' = FALSE /\ sock' = "none" /\ ctx' = "none"
  /\ thread' = "none" /\ overdue' = FALSE
  /\ caller' = "idle" /\ scheduled' = FALSE
  /\ UNCHANGED <<tv, ready>>

\* The servers start now, or when Home Assistant is fully running.
async_setup_entry ==
  /\ HaIsUp
  /\ entry \in {"not_loaded", "retry"}
  /\ Hosted => request = "none"
  /\ NewServers
  /\ reloading' = FALSE
  /\ IF ha = "running"
     THEN entry' = "setting_up" /\ starter' = "http" /\ UNCHANGED listening
     ELSE entry' = "loaded" /\ listening' = TRUE /\ UNCHANGED starter
  /\ UNCHANGED <<ha, stopper, http, mdns, taken, request, session>>

\* hass.state is running before the listeners of the event are called.
HaStarts ==
  /\ ha = "starting" /\ Settled
  /\ ha' = "running"
  /\ listening' = FALSE
  /\ starter' = (IF listening THEN "http" ELSE "none")
  /\ UNCHANGED <<vars, entry, reloading, stopper, http, mdns, taken, request, session>>

\* The REST server has its port, or is attached; the DTLS server starts and
\* zeroconf is asked.
BindsHttp ==
  /\ starter = "http" /\ (Hosted \/ ~taken)
  /\ async_start
  /\ http' = "up"
  /\ starter' = "mdns"
  /\ UNCHANGED <<ha, entry, reloading, listening, stopper, mdns, taken, request, session>>

\* Mutant: a deferred start that fails is only logged.
FailureIsOnlyLogged ==
  /\ starter = "http" /\ taken /\ ~Hosted
  /\ async_stop
  /\ starter' = "none"
  /\ IF entry = "setting_up"
     THEN entry' = "retry" /\ UNCHANGED reloading
     ELSE UNCHANGED <<entry, reloading>>
  /\ UNCHANGED <<ha, listening, stopper, http, mdns, taken, request, session>>

\* OSError: both servers are stopped. Home Assistant retries the setup, or,
\* when it is too late to fail it, reloads the entry.
HttpBindFails ==
  /\ starter = "http" /\ taken /\ ~Hosted
  /\ async_stop
  /\ starter' = "none"
  /\ IF entry = "setting_up"
     THEN entry' = "retry" /\ UNCHANGED reloading
     ELSE reloading' = TRUE /\ UNCHANGED entry
  /\ UNCHANGED <<ha, listening, stopper, http, mdns, taken, request, session>>

\* HueBridgeDiscovery.async_start. It fails if the name is advertised already.
Advertises ==
  /\ starter = "mdns"
  /\ mdns' = TRUE
  /\ starter' = "none"
  /\ entry' = (IF entry # "setting_up" THEN entry ELSE IF mdns THEN "failed" ELSE "loaded")
  /\ UNCHANGED <<vars, ha, reloading, listening, stopper, http, taken, request, session>>

Starts == BindsHttp \/ HttpBindFails \/ Advertises

-----------------------------------------------------------------------------
(* Taking down *)

\* Home Assistant unloads the entry, to reload it or for good.
async_unload_entry(again) ==
  /\ HaIsUp /\ MayStop
  /\ entry = "loaded"
  /\ reloading => again
  /\ reloading' = again
  /\ entry' = "unloading"
  /\ stopper' = "dtls"
  /\ UNCHANGED <<vars, ha, listening, starter, http, mdns, taken, request, session>>

\* There is nothing to take down before the retry.
RetryCancelled ==
  /\ HaIsUp
  /\ entry = "retry"
  /\ entry' = "not_loaded"
  /\ UNCHANGED <<vars, ha, reloading, listening, starter, stopper, http, mdns, taken,
                 request, session>>

\* EVENT_HOMEASSISTANT_STOP calls _async_stop of a loaded entry.
HaStops ==
  /\ HaIsUp /\ MayStop
  /\ IF entry = "loaded"
     THEN ha' = "stopping" /\ stopper' = "dtls"
     ELSE ha' = "stopped" /\ UNCHANGED stopper
  /\ UNCHANGED <<vars, entry, reloading, listening, starter, http, mdns, taken, request, session>>

\* dtls_server.async_stop
StopsDtls ==
  /\ stopper = "dtls"
  /\ async_stop
  /\ UNCHANGED entryVars

\* Mutant: the lights are restored while the other inputs still come in.
RestoresEarly ==
  /\ stopper = "dtls" /\ caller = "stopped"
  /\ stopper' = "restoring"
  /\ UNCHANGED <<vars, ha, entry, reloading, listening, starter, http, mdns, taken,
                 request, session>>

\* api_server.async_stop: no request is taken any more. Detaching from the host
\* is all there is to do for a hosted server.
ClosesHttp ==
  /\ stopper = "dtls" /\ caller = "stopped"
  /\ IF Hosted
     THEN http' = "down" /\ stopper' = "mdns"
     ELSE http' = (IF http = "up" THEN "closing" ELSE http) /\ stopper' = "http"
  /\ UNCHANGED <<vars, ha, entry, reloading, listening, starter, mdns, taken, request, session>>

\* The runner's cleanup waits for the requests, or cancels them.
HttpIsDown ==
  /\ stopper = "http"
  /\ request = "none"
  /\ http' = "down"
  /\ stopper' = "mdns"
  /\ UNCHANGED <<vars, ha, entry, reloading, listening, starter, mdns, taken, request, session>>

\* Mutant: the listener for the end of Home Assistant's start is forgotten.
ListenerIsForgotten ==
  /\ stopper' = "none"
  /\ IF ha = "stopping"
     THEN ha' = "stopped" /\ UNCHANGED entry
     ELSE entry' = "not_loaded" /\ UNCHANGED ha
  /\ UNCHANGED listening

\* What async_on_unload was given runs.
IsDown ==
  /\ stopper' = "none"
  /\ IF ha = "stopping"
     THEN ha' = "stopped" /\ UNCHANGED <<entry, listening>>
     ELSE /\ entry' = "not_loaded"
          /\ listening' = (listening /\ ha = "running")
          /\ UNCHANGED ha

\* HueBridgeDiscovery.async_stop, and the engine leaves the session. Without one
\* there is nothing to restore.
Withdraws ==
  /\ stopper = "mdns"
  /\ mdns' = FALSE
  /\ session' = FALSE
  /\ IF session THEN stopper' = "restoring" /\ UNCHANGED <<ha, entry, listening>> ELSE IsDown
  /\ UNCHANGED <<vars, reloading, starter, http, taken, request>>

\* The lights are restored.
Restored ==
  /\ stopper = "restoring"
  /\ IsDown
  /\ UNCHANGED <<vars, reloading, starter, http, mdns, taken, request, session>>

Stops == StopsDtls \/ ClosesHttp \/ HttpIsDown \/ Withdraws \/ Restored

-----------------------------------------------------------------------------
(* The REST server's requests, and the other programs of the host *)

RequestComes(action) ==
  /\ http = "up" /\ request = "none"
  /\ request' = action
  /\ UNCHANGED <<vars, ha, entry, reloading, listening, starter, stopper, http, mdns, taken,
                 session>>

\* The handler has read the body and calls back; without a body, or cancelled,
\* it changes nothing.
RequestEnds ==
  /\ request # "none"
  /\ \/ session' = (request = "start")
     \/ UNCHANGED session
  /\ request' = "none"
  /\ UNCHANGED <<vars, ha, entry, reloading, listening, starter, stopper, http, mdns, taken>>

\* The watchdog ends a session without frames.
SessionTimesOut ==
  /\ session /\ stopper = "none"
  /\ session' = FALSE
  /\ UNCHANGED <<vars, ha, entry, reloading, listening, starter, stopper, http, mdns, taken,
                 request>>

PortChangesHands ==
  /\ http = "down"
  /\ taken' = ~taken
  /\ UNCHANGED <<vars, ha, entry, reloading, listening, starter, stopper, http, mdns, request,
                 session>>

\* The DTLS server's own steps, while the entry stays as it is
Serves ==
  /\ JoinReturns \/ LoopStep \/ ThreadStep \/ DeadlinePasses \/ TvStep
  /\ UNCHANGED entryVars

-----------------------------------------------------------------------------

LifecycleNext ==
  \/ async_setup_entry \/ HaStarts \/ Starts
  \/ \E again \in BOOLEAN : async_unload_entry(again)
  \/ RetryCancelled \/ HaStops \/ Stops
  \/ \E action \in {"start", "stop"} : RequestComes(action)
  \/ RequestEnds \/ SessionTimesOut \/ PortChangesHands
  \/ Serves

LifecycleSpec == LifecycleInit /\ [][LifecycleNext]_lifecycleVars

\* Home Assistant comes to the end of its start, carries a reload out and tries
\* again after a failed setup; what a start or a stop awaits comes.
FairLifecycle ==
  /\ LifecycleSpec
  /\ WF_lifecycleVars(HaStarts)
  /\ WF_lifecycleVars((reloading \/ entry = "retry") /\ async_setup_entry)
  /\ WF_lifecycleVars(reloading /\ async_unload_entry(TRUE))
  /\ WF_lifecycleVars(Starts) /\ WF_lifecycleVars(Stops) /\ WF_lifecycleVars(RequestEnds)
  /\ WF_lifecycleVars(ThreadStep /\ UNCHANGED entryVars)
  /\ WF_lifecycleVars(LoopStep /\ UNCHANGED entryVars)
  /\ WF_lifecycleVars(JoinReturns /\ UNCHANGED entryVars)
  /\ WF_lifecycleVars(DeadlinePasses /\ UNCHANGED entryVars)

-----------------------------------------------------------------------------
(* Properties *)

Frameless == \A i \in DOMAIN ready : ready[i] \notin {"put", "deliver"}

\* An entry that is not loaded, or whose Home Assistant has stopped, has left
\* nothing behind: no thread, frame, server, request, advertisement or session, and
\* no listener that would start them later (async_unload_entry, _async_stop,
\* _cancel_deferred_start, and the except clause of _async_start).
NothingOutlivesEntry ==
  entry \in {"not_loaded", "retry", "failed"} \/ ha = "stopped" =>
    /\ ~ThreadAlive /\ Frameless
    /\ http = "down" /\ request = "none" /\ ~mdns /\ ~session
    /\ ~listening \/ ha = "stopped"

\* While an unload or a shutdown puts the lights back nothing can dirty a slot or
\* start a session: "stop the inputs first so no frame re-dirties a slot while the
\* lights are being restored" (async_unload_entry).
InputsStopFirst ==
  stopper = "restoring" =>
    ~ThreadAlive /\ Frameless /\ http = "down" /\ request = "none" /\ ~session

\* Once the port stays free and the entry is not given up, the bridge is up again
\* and again, whichever way a bind failed before: "let HA retry via reload"
\* (_async_deferred_start), ConfigEntryNotReady (_async_start).
BridgeComesUp ==
  <>[](ha = "running" /\ ~taken /\
       (entry \in {"setting_up", "loaded", "retry"} \/ reloading))
    => []<>(entry = "loaded" /\ http = "up" /\ mdns)
=============================================================================
