-------------------------------- MODULE Pairing --------------------------------
(***************************************************************************)
(* How a TV's credentials come into being and stay: the pairing step of    *)
(* the config flow with its temporary server, the options flow that opens  *)
(* the link button again, POST /api (HueAPIServer._handle_create_user),    *)
(* UserStore in memory and on disk, and the setup and reload of the entry. *)
(*                                                                         *)
(* An instance is one HueAPIServer with its UserStore: the temporary one   *)
(* of a config flow, or a bridge, made by every setup of the entry. The    *)
(* HTTP port leads to one of them: with Hosted through HueHttpHost's       *)
(* target, else because its standalone server has bound the port.          *)
(*                                                                         *)
(* A credential is <<devicetype, n>>: username and client key are random   *)
(* (uuid4, token_hex), so never issued twice. A dict of users is a set:    *)
(* OneCredentialPerTv says why the order of the dict does not matter.      *)
(*                                                                         *)
(* Home Assistant is modelled from how the code uses it: Store writes one  *)
(* snapshot at a time, the newest that waits, and a file is replaced as a  *)
(* whole; a created entry survives a crash; one flow runs at a time.       *)
(***************************************************************************)
EXTENDS Naturals, FiniteSets

CONSTANTS
  Device,    \* the devicetypes that TVs send with POST /api
  Pairs,     \* bound on the credentials issued to one devicetype
  Instances, \* bound on the servers made in one run of Home Assistant
  Hosted,    \* use_ha_http: the API is served by Home Assistant's HTTP server
  Faults     \* which of AllFaults may happen

AllFaults == {"abandon", "crash", "port taken", "late pairing"}

ASSUME CountsAssumption == Pairs \in Nat /\ Instances \in Nat
ASSUME HostedAssumption == Hosted \in BOOLEAN
ASSUME FaultsAssumption == Faults \subseteq AllFaults

User == Device \X (1 .. Pairs)
Instance == 1 .. Instances
NoServer == 0
OtherProgram == Instances + 1

VARIABLES
  up,        \* hass.state is CoreState.running
  born,      \* the instances 1..born have been made
  temps,     \* those of a config flow: a UserStore without ha_store
  store,     \* UserStore._users of each instance
  pressed,   \* the instances whose link button window is open
  recipient, \* who gets the requests to the HTTP port
  waiting,   \* the snapshot each Store has yet to write: a set of one or none
  writing,   \* the snapshot each Store is writing: a set of one or none
  requests,  \* the handlers that await async_save: <<instance, credential>>
  disk,      \* the users in Home Assistant's .storage
  issued,    \* how many credentials each devicetype has been issued
  entry,     \* the config entry
  flow,      \* the config or options flow at its pairing step
  told,      \* the credentials given to a TV since the flow opened its window
  paired     \* the credentials given to a TV for good

vars == <<up, born, temps, store, pressed, recipient, waiting, writing, requests, disk, issued,
          entry, flow, told, paired>>
saves == <<waiting, writing, requests, disk>>
servers == <<up, born, temps>>
ghosts == <<told, paired>>

Snapshots == {{}} \cup {{users} : users \in SUBSET User}

NoFlow == [type |-> "none", step |-> "none", on |-> NoServer, known |-> {}]

TypeOK ==
  /\ up \in BOOLEAN
  /\ born \in 0 .. Instances /\ temps \subseteq 1 .. born
  /\ store \in [Instance -> SUBSET User]
  /\ pressed \subseteq 1 .. born
  /\ recipient \in {NoServer, OtherProgram} \cup 1 .. born
  /\ waiting \in [Instance -> Snapshots] /\ writing \in [Instance -> Snapshots]
  /\ requests \subseteq Instance \X User
  /\ disk \subseteq User
  /\ issued \in [Device -> 0 .. Pairs]
  /\ entry \in [created : BOOLEAN, users : SUBSET User, bridge : 0 .. born,
                state : {"unloaded", "importing", "loaded"}]
  /\ flow \in [type : {"none", "config", "options"},
               step : {"none", "polling", "paired", "not_paired", "creating", "asking",
                        "port_in_use"},
               on : 0 .. born, known : SUBSET User]
  /\ told \subseteq User /\ paired \subseteq User

Empty == [i \in Instance |-> {}]

Init ==
  /\ up = TRUE /\ born = 0 /\ temps = {} /\ store = Empty /\ pressed = {} /\ recipient = NoServer
  /\ waiting = Empty /\ writing = Empty /\ requests = {} /\ disk = {}
  /\ issued = [d \in Device |-> 0]
  /\ entry = [created |-> FALSE, users |-> {}, bridge |-> NoServer, state |-> "unloaded"]
  /\ flow = NoFlow
  /\ told = {} /\ paired = {}

-----------------------------------------------------------------------------
(* The HTTP port *)

\* A standalone server raises OSError unless the port is free.
CanServe == Hosted \/ recipient = NoServer

\* HueAPIServer.async_start
Serve(i) == recipient' = i

\* HueAPIServer.async_stop: detach() leaves a server that took over alone.
StopServing(i) == recipient' = (IF recipient = i THEN NoServer ELSE recipient)

\* Another program on the host takes or frees port 80.
OtherProgramStep ==
  /\ "port taken" \in Faults /\ ~Hosted
  /\ \/ recipient = NoServer /\ recipient' = OtherProgram
     \/ recipient = OtherProgram /\ recipient' = NoServer
  /\ UNCHANGED <<servers, store, pressed, saves, issued, entry, flow, ghosts>>

-----------------------------------------------------------------------------
(* UserStore and Home Assistant's Store *)

WriteBegins ==
  \E i \in Instance :
    /\ waiting[i] # {} /\ writing[i] = {}
    /\ writing' = [writing EXCEPT ![i] = waiting[i]]
    /\ waiting' = [waiting EXCEPT ![i] = {}]
  /\ UNCHANGED <<servers, store, pressed, recipient, requests, disk, issued, entry, flow, ghosts>>

\* The handlers whose credential is in the file now answer their TV.
WriteEnds ==
  \E i \in Instance : \E users \in writing[i] :
    LET answered == {r \in requests : r[1] = i /\ r[2] \in users} IN
    /\ disk' = users
    /\ writing' = [writing EXCEPT ![i] = {}]
    /\ requests' = requests \ answered
    /\ told' = told \cup {r[2] : r \in answered}
    /\ paired' = paired \cup {r[2] : r \in answered}
    /\ UNCHANGED <<servers, store, pressed, recipient, waiting, issued, entry, flow>>

Saved(i) == waiting[i] = {} /\ writing[i] = {}

-----------------------------------------------------------------------------
(* POST /api while the link button is pressed; without it nothing changes. *)

Known(i, d) == {u \in store[i] : u[1] = d}

\* get_by_devicetype: the answer is at once, even if a save is under way.
AnswersAgain(i, d) ==
  /\ told' = told \cup Known(i, d)
  /\ UNCHANGED <<store, saves, issued, paired>>

\* Mutant: the handler answers without awaiting async_save.
AnswersFirst(i, d) ==
  LET u == <<d, issued[d] + 1>> IN
  /\ issued[d] < Pairs
  /\ issued' = [issued EXCEPT ![d] = @ + 1]
  /\ store' = [store EXCEPT ![i] = @ \cup {u}]
  /\ told' = told \cup {u}
  /\ IF i \in temps
     THEN UNCHANGED <<saves, paired>>
     ELSE /\ waiting' = [waiting EXCEPT ![i] = {store[i] \cup {u}}]
          /\ paired' = paired \cup {u}
          /\ UNCHANGED <<writing, requests, disk>>

\* add and async_save, which does nothing for the store of a config flow
IssuesNew(i, d) ==
  LET u == <<d, issued[d] + 1>> IN
  /\ issued[d] < Pairs
  /\ issued' = [issued EXCEPT ![d] = @ + 1]
  /\ store' = [store EXCEPT ![i] = @ \cup {u}]
  /\ IF i \in temps
     THEN told' = told \cup {u} /\ UNCHANGED saves
     ELSE /\ waiting' = [waiting EXCEPT ![i] = {store[i] \cup {u}}]
          /\ requests' = requests \cup {<<i, u>>}
          /\ UNCHANGED <<writing, disk, told>>
  /\ UNCHANGED paired

\* Mutant: every POST issues a credential.
AlwaysIssuesNew(d) ==
  /\ recipient \in pressed
  /\ IssuesNew(recipient, d)
  /\ UNCHANGED <<servers, pressed, recipient, entry, flow>>

create_user(d) ==
  /\ recipient \in pressed
  /\ IF Known(recipient, d) # {} THEN AnswersAgain(recipient, d) ELSE IssuesNew(recipient, d)
  /\ UNCHANGED <<servers, pressed, recipient, entry, flow>>

\* LINK_BUTTON_TIMEOUT has passed.
LinkButtonExpires ==
  \E i \in pressed :
    /\ pressed' = pressed \ {i}
    /\ UNCHANGED <<servers, store, recipient, saves, issued, entry, flow, ghosts>>

-----------------------------------------------------------------------------
(* The flows *)

FlowEnded == flow.step \in {"none", "port_in_use"}

\* async_step_pairing of the config flow, first call. A second entry is refused.
OpenPairing ==
  /\ FlowEnded /\ up /\ ~entry.created /\ born < Instances
  /\ IF CanServe
     THEN /\ born' = born + 1 /\ temps' = temps \cup {born'}
          /\ Serve(born')
          /\ pressed' = pressed \cup {born'}
          /\ flow' = [type |-> "config", step |-> "polling", on |-> born', known |-> {}]
          /\ told' = {}
     ELSE /\ flow' = [NoFlow EXCEPT !.type = "config", !.step = "port_in_use"]
          /\ UNCHANGED <<servers, pressed, recipient, told>>
  /\ UNCHANGED <<up, store, saves, issued, entry, paired>>

\* async_step_pairing of the options flow, first call
PairAgain ==
  /\ FlowEnded /\ entry.state = "loaded"
  /\ pressed' = pressed \cup {entry.bridge}
  /\ flow' = [type |-> "options", step |-> "polling", on |-> entry.bridge,
              known |-> store[entry.bridge]]
  /\ told' = {}
  /\ UNCHANGED <<servers, store, recipient, saves, issued, entry, paired>>

NewUsers == store[flow.on] \ flow.known

\* _wait_for_new_user. The deadline is a moment after the link button's, and the
\* last look up to half a second before it.
PollSees ==
  /\ flow.step = "polling" /\ NewUsers # {}
  /\ flow' = [flow EXCEPT !.step = "paired"]
  /\ UNCHANGED <<servers, store, pressed, recipient, saves, issued, entry, ghosts>>

PollTimesOut ==
  /\ flow.step = "polling" /\ flow.on \notin pressed
  /\ NewUsers = {} \/ "late pairing" \in Faults
  /\ flow' = [flow EXCEPT !.step = "not_paired"]
  /\ UNCHANGED <<servers, store, pressed, recipient, saves, issued, entry, ghosts>>

\* _cleanup_temp_servers, once the poll is over
CleanUp ==
  /\ flow.type = "config" /\ flow.step \in {"paired", "not_paired"}
  /\ StopServing(flow.on)
  /\ flow' = [flow EXCEPT !.step = IF @ = "paired" THEN "creating" ELSE "asking"]
  /\ UNCHANGED <<servers, store, pressed, saves, issued, entry, ghosts>>

\* _create_entry, at once or once the user has acknowledged that no TV paired.
\* What the entry imports is a TV's for good.
CreateEntry ==
  /\ flow.step \in {"creating", "asking"}
  /\ entry' = [entry EXCEPT !.created = TRUE, !.users = store[flow.on]]
  /\ paired' = paired \cup store[flow.on]
  /\ flow' = NoFlow
  /\ UNCHANGED <<servers, store, pressed, recipient, saves, issued, told>>

\* The options flow ends; options that changed reload the entry (Unload).
SaveOptions ==
  /\ flow.type = "options" /\ flow.step \in {"paired", "not_paired"}
  /\ flow' = NoFlow
  /\ UNCHANGED <<servers, store, pressed, recipient, saves, issued, entry, ghosts>>

\* The user closes the dialog, that waits for the TV or that says not_paired:
\* Home Assistant drops the flow and its task, and neither flow handler overrides
\* async_remove.
Abandon ==
  /\ "abandon" \in Faults
  /\ flow.step \in {"polling", "asking"}
  /\ flow' = NoFlow
  /\ UNCHANGED <<servers, store, pressed, recipient, saves, issued, entry, ghosts>>

-----------------------------------------------------------------------------
(* The entry *)

\* async_setup_entry: async_load, the import of initial_users and its async_save
SetUp ==
  /\ entry.created /\ entry.state = "unloaded" /\ born < Instances
  /\ LET users == disk \cup entry.users IN
     /\ store' = [store EXCEPT ![born + 1] = users]
     /\ waiting' = [waiting EXCEPT ![born + 1] = IF entry.users = {} THEN {} ELSE {users}]
  /\ born' = born + 1
  /\ entry' = [entry EXCEPT !.state = "importing", !.bridge = born + 1]
  /\ UNCHANGED <<up, temps, pressed, recipient, writing, requests, disk, issued, flow, ghosts>>

\* _async_start; on an OSError Home Assistant tries the setup again later. While
\* Home Assistant boots, the entry is loaded without its servers.
BridgeStarts ==
  /\ entry.state = "importing" /\ Saved(entry.bridge)
  /\ IF up /\ CanServe THEN Serve(entry.bridge) ELSE UNCHANGED recipient
  /\ entry' = [entry EXCEPT !.state = IF up => CanServe THEN "loaded" ELSE "unloaded"]
  /\ UNCHANGED <<servers, store, pressed, saves, issued, flow, ghosts>>

\* Mutant: the deferred start only logs an OSError.
HassStartsAnyway ==
  /\ ~up /\ entry.state # "importing"
  /\ up' = TRUE
  /\ IF entry.state = "loaded" /\ CanServe THEN Serve(entry.bridge) ELSE UNCHANGED recipient
  /\ UNCHANGED <<born, temps, store, pressed, saves, issued, entry, flow, ghosts>>

\* EVENT_HOMEASSISTANT_STARTED, after the setups of the boot: the deferred start
\* of a loaded entry. An OSError leads to a reload.
HassStarts ==
  /\ ~up /\ entry.state # "importing"
  /\ up' = TRUE
  /\ IF entry.state = "loaded" /\ CanServe THEN Serve(entry.bridge) ELSE UNCHANGED recipient
  /\ entry' = [entry EXCEPT !.state = IF @ = "loaded" /\ ~CanServe THEN "unloaded" ELSE @]
  /\ UNCHANGED <<born, temps, store, pressed, saves, issued, flow, ghosts>>

\* async_unload_entry, for a reload. The cleanup of a standalone server waits for
\* its handlers; HueHttpHost.detach does not.
Unload ==
  /\ entry.state = "loaded"
  /\ Hosted \/ \A r \in requests : r[1] # entry.bridge
  /\ StopServing(entry.bridge)
  /\ entry' = [entry EXCEPT !.state = "unloaded"]
  /\ UNCHANGED <<servers, store, pressed, saves, issued, flow, ghosts>>

\* Home Assistant dies; a file that is being written is replaced or not.
Crash ==
  /\ "crash" \in Faults /\ born > 0
  /\ up' = FALSE /\ born' = 0 /\ temps' = {} /\ store' = Empty /\ pressed' = {}
  /\ recipient' = (IF recipient = OtherProgram THEN OtherProgram ELSE NoServer)
  /\ disk' \in {disk} \cup UNION {writing[i] : i \in Instance}
  /\ waiting' = Empty /\ writing' = Empty /\ requests' = {}
  /\ entry' = [entry EXCEPT !.state = "unloaded", !.bridge = NoServer]
  /\ flow' = NoFlow
  /\ told' = {}
  /\ UNCHANGED <<issued, paired>>

-----------------------------------------------------------------------------

Next ==
  \/ \E d \in Device : create_user(d)
  \/ LinkButtonExpires \/ WriteBegins \/ WriteEnds \/ OtherProgramStep
  \/ OpenPairing \/ PairAgain \/ PollSees \/ PollTimesOut
  \/ CleanUp \/ CreateEntry \/ SaveOptions \/ Abandon
  \/ SetUp \/ BridgeStarts \/ HassStarts \/ Unload \/ Crash

Spec == Init /\ [][Next]_vars

-----------------------------------------------------------------------------
(* Properties *)

\* A TV that has been paired for good is known to the bridge whenever the entry is
\* loaded, after reloads and crashes too ("Persisted PSK credentials for paired
\* clients", user_store.py): its credentials were imported from the entry, or its
\* POST was answered after the write.
PairedTvIsKnown == entry.state = "loaded" => paired \subseteq store[entry.bridge]

\* No bridge knows two credentials of one devicetype, whatever bursts of POSTs,
\* flows, reloads and imports there were (_handle_create_user is idempotent).
OneCredentialPerTv ==
  \A i \in Instance : \A u, v \in store[i] : u[1] = v[1] => u = v

\* While the entry is loaded in a running Home Assistant, the HTTP port leads to
\* its server and to none left from a flow or an earlier setup, abandoned flows
\* included (HueHttpHost, _async_start).
LoadedIsReachable == up /\ entry.state = "loaded" => recipient = entry.bridge

\* "Your TV did not pair within 60 seconds": the options flow says so only if no
\* TV was given credentials in the window (async_step_not_paired).
NotPairedIsTrue == flow.type = "options" /\ flow.step = "not_paired" => told = {}
=============================================================================
