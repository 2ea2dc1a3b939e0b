----------------------------- MODULE Pairing_proofs -----------------------------
(***************************************************************************)
(* What a pairing is good for, for any number of TVs, credentials, servers *)
(* and faults. Reach says who may get the requests, Singles that whatever  *)
(* is stored anywhere has one credential per devicetype and what the entry *)
(* imports, and Kept, for a standalone server, that disk, the snapshot     *)
(* being written, the one that waits and the bridge's memory form a chain  *)
(* that never loses a paired TV.                                           *)
(***************************************************************************)
EXTENDS Pairing, TLAPS

USE DEF NoServer, OtherProgram

-----------------------------------------------------------------------------
(* Types *)

LEMMA Credential ==
  ASSUME TypeOK, NEW d \in Device, issued[d] < Pairs
  PROVE  /\ <<d, issued[d] + 1>> \in User
         /\ [issued EXCEPT ![d] = @ + 1] \in [Device -> 0 .. Pairs]
<1>1. issued[d] \in 0 .. Pairs
  BY DEF TypeOK
<1>2. issued[d] + 1 \in 1 .. Pairs
  BY <1>1, CountsAssumption
<1>3. QED
  BY <1>2 DEF TypeOK, User

\* Who may get the requests, and where a flow and the entry have their servers: a
\* server of a flow is never the entry's, and no flow of the first kind goes on once
\* the entry exists.
Reach ==
  /\ entry.state # "unloaded" => entry.created /\ entry.bridge \in (1 .. born) \ temps
  /\ ~up => recipient \in {NoServer, OtherProgram}
  /\ up /\ entry.state = "loaded" => recipient = entry.bridge
  /\ \/ recipient \in {NoServer, OtherProgram} \cup temps
     \/ entry.state = "loaded" /\ recipient = entry.bridge
  /\ flow.type = "config" /\ flow.step # "port_in_use" => flow.on \in temps /\ ~entry.created
  /\ flow.step \in {"creating", "asking"} => flow.type = "config"

Flows(n) ==
  [type : {"none", "config", "options"},
   step : {"none", "polling", "paired", "not_paired", "creating", "asking", "port_in_use"},
   on : 0 .. n, known : SUBSET User]

LEMMA NoFlowIsFlow ==
  ASSUME NEW n \in Nat
  PROVE  /\ NoFlow \in Flows(n)
         /\ [NoFlow EXCEPT !.type = "config", !.step = "port_in_use"] \in Flows(n)
<1>1. 0 \in 0 .. n /\ {} \in SUBSET User
  OBVIOUS
<1>2. QED
  BY <1>1 DEF NoFlow, Flows

LEMMA Places ==
  ASSUME TypeOK, Reach
  PROVE  /\ born \in Nat /\ flow \in Flows(born)
         /\ temps \subseteq Instance
         /\ entry.state # "unloaded" => entry.bridge \in Instance
         /\ flow.step \in {"creating", "asking"} => flow.on \in Instance
BY CountsAssumption DEF TypeOK, Reach, Flows, Instance

LEMMA TypeInit == Init => TypeOK
<1>1. ASSUME Init PROVE flow \in Flows(born)
  BY <1>1, NoFlowIsFlow DEF Init
<1>2. {} \in Snapshots
  BY DEF Snapshots
<1>3. QED
  BY <1>1, <1>2, CountsAssumption DEF Init, TypeOK, Empty, Instance, Flows

\* A post adds a credential to one store, and may queue a snapshot.
LEMMA PostTypes ==
  ASSUME TypeOK, NEW d \in Device, create_user(d)
  PROVE  TypeOK'
<1> DEFINE u == <<d, issued[d] + 1>>
<1>1. UNCHANGED <<up, born, temps, pressed, recipient, writing, disk, entry, flow>>
  BY DEF create_user, AnswersAgain, IssuesNew, servers, saves
<1>2. recipient \in Instance
  BY CountsAssumption DEF create_user, TypeOK, Instance
<1>3. CASE AnswersAgain(recipient, d)
  BY <1>1, <1>2, <1>3 DEF AnswersAgain, Known, TypeOK, saves
<1>4. CASE IssuesNew(recipient, d)
  <2>1. u \in User /\ issued' \in [Device -> 0 .. Pairs]
    BY <1>4, Credential DEF IssuesNew
  <2>2. store[recipient] \cup {u} \in SUBSET User
    BY <1>2, <2>1 DEF TypeOK
  <2>3. store' \in [Instance -> SUBSET User]
    BY <1>2, <1>4, <2>2 DEF IssuesNew, TypeOK
  <2>4. {store[recipient] \cup {u}} \in Snapshots
    BY <2>2 DEF Snapshots
  <2>5. waiting' \in [Instance -> Snapshots] /\ requests' \subseteq Instance \X User
    <3>1. <<recipient, u>> \in Instance \X User
      BY <1>2, <2>1
    <3>2. CASE recipient \in temps
      BY <1>4, <3>2 DEF IssuesNew, TypeOK, saves
    <3>3. CASE recipient \notin temps
      <4>1. /\ waiting' = [waiting EXCEPT ![recipient] = {store[recipient] \cup {u}}]
            /\ requests' = requests \cup {<<recipient, u>>}
        BY <1>4, <3>3 DEF IssuesNew
      <4> HIDE DEF u
      <4>2. QED
        BY <2>4, <3>1, <4>1 DEF TypeOK
    <3>4. QED
      BY <3>2, <3>3
  <2>6. told' \subseteq User /\ paired' \subseteq User
    BY <1>4, <2>1 DEF IssuesNew, TypeOK
  <2>7. QED
    BY <1>1, <2>1, <2>3, <2>5, <2>6 DEF TypeOK
<1>5. QED
  BY <1>3, <1>4 DEF create_user

\* The step with which the store of i has written users.
Written(i, users) ==
  LET answered == {r \in requests : r[1] = i /\ r[2] \in users} IN
  /\ disk' = users
  /\ writing' = [writing EXCEPT ![i] = {}]
  /\ requests' = requests \ answered
  /\ told' = told \cup {r[2] : r \in answered}
  /\ paired' = paired \cup {r[2] : r \in answered}
  /\ UNCHANGED <<servers, store, pressed, recipient, waiting, issued, entry, flow>>

LEMMA WriteTypes ==
  ASSUME TypeOK, WriteBegins \/ WriteEnds
  PROVE  TypeOK'
<1>1. CASE WriteBegins
  <2>1. PICK i \in Instance : /\ writing' = [writing EXCEPT ![i] = waiting[i]]
                              /\ waiting' = [waiting EXCEPT ![i] = {}]
    BY <1>1 DEF WriteBegins
  <2>2. writing' \in [Instance -> Snapshots] /\ waiting' \in [Instance -> Snapshots]
    BY <2>1 DEF TypeOK, Snapshots
  <2>3. QED
    BY <1>1, <2>2 DEF WriteBegins, TypeOK, servers, ghosts
<1>2. CASE WriteEnds
  <2>1. PICK i \in Instance : \E users \in writing[i] : Written(i, users)
    BY <1>2, Zenon DEF WriteEnds, Written
  <2>2. PICK users \in writing[i] : Written(i, users)
    BY <2>1
  <2>3. users \subseteq User
    BY DEF TypeOK, Snapshots
  <2>4. \A r \in requests : r[2] \in User
    BY DEF TypeOK
  <2>5. writing' \in [Instance -> Snapshots]
    BY <2>2 DEF Written, TypeOK, Snapshots
  <2>6. told' \subseteq User /\ paired' \subseteq User /\ requests' \subseteq requests
    BY <2>2, <2>4 DEF Written, TypeOK
  <2>7. QED
    BY <2>2, <2>3, <2>5, <2>6 DEF Written, TypeOK, servers
<1>3. QED
  BY <1>1, <1>2

LEMMA FlowTypes ==
  ASSUME TypeOK, Reach,
         OpenPairing \/ PairAgain \/ PollSees \/ PollTimesOut \/ CleanUp \/ SaveOptions
         \/ Abandon
  PROVE  TypeOK'
<1>1. CASE OpenPairing
  <2>1. CASE CanServe
    BY <1>1, <2>1, CountsAssumption
    DEF OpenPairing, Serve, NoFlow, TypeOK, Instance, servers, saves
  <2>2. CASE ~CanServe
    <3>1. flow' \in Flows(born)
      BY <1>1, <2>2, Places, NoFlowIsFlow DEF OpenPairing
    <3>2. QED
      BY <1>1, <2>2, <3>1 DEF OpenPairing, TypeOK, servers, saves, Flows
  <2>3. QED
    BY <2>1, <2>2
<1>2. CASE PairAgain
  <2>1. entry.bridge \in 1 .. born /\ store[entry.bridge] \in SUBSET User
    BY <1>2, Places DEF PairAgain, Reach, TypeOK
  <2>2. flow' \in Flows(born)
    BY <1>2, <2>1, CountsAssumption DEF PairAgain, Flows, TypeOK
  <2>3. QED
    BY <1>2, <2>1, <2>2 DEF PairAgain, TypeOK, servers, saves, Flows
<1>3. CASE PollSees \/ PollTimesOut
  BY <1>3 DEF PollSees, PollTimesOut, TypeOK, servers, saves, ghosts
<1>4. CASE CleanUp
  BY <1>4 DEF CleanUp, StopServing, TypeOK, servers, saves, ghosts
<1>5. CASE SaveOptions \/ Abandon
  <2>1. flow' \in Flows(born)
    BY <1>5, Places, NoFlowIsFlow DEF SaveOptions, Abandon
  <2>2. QED
    BY <1>5, <2>1 DEF SaveOptions, Abandon, TypeOK, servers, saves, ghosts, Flows
<1>6. QED
  BY <1>1, <1>2, <1>3, <1>4, <1>5

LEMMA EntryTypes ==
  ASSUME TypeOK, Reach,
         LinkButtonExpires \/ OtherProgramStep \/ CreateEntry \/ SetUp \/ BridgeStarts
         \/ HassStarts \/ Unload \/ Crash
  PROVE  TypeOK'
<1>1. CASE LinkButtonExpires \/ OtherProgramStep
  BY <1>1 DEF LinkButtonExpires, OtherProgramStep, TypeOK, servers, saves, ghosts
<1>2. CASE CreateEntry
  <2>1. store[flow.on] \in SUBSET User
    BY <1>2, Places DEF CreateEntry, TypeOK
  <2>2. flow' \in Flows(born)
    BY <1>2, Places, NoFlowIsFlow DEF CreateEntry
  <2>3. QED
    BY <1>2, <2>1, <2>2 DEF CreateEntry, TypeOK, servers, saves, Flows
<1>3. CASE SetUp
  <2> DEFINE users == disk \cup entry.users
  <2>1. born + 1 \in Instance /\ users \in SUBSET User
    BY <1>3, CountsAssumption DEF SetUp, TypeOK, Instance
  <2>2. {users} \in Snapshots /\ {} \in Snapshots
    BY <2>1 DEF Snapshots
  <2>3. store' \in [Instance -> SUBSET User] /\ waiting' \in [Instance -> Snapshots]
    BY <1>3, <2>1, <2>2 DEF SetUp, TypeOK
  <2>4. born' \in 0 .. Instances /\ 1 .. born \subseteq 1 .. born'
        /\ entry' = [entry EXCEPT !.state = "importing", !.bridge = born + 1]
        /\ 0 .. born \subseteq 0 .. born' /\ born + 1 \in 0 .. born'
    BY <1>3, CountsAssumption DEF SetUp, TypeOK
  <2>5. QED
    BY <1>3, <2>3, <2>4 DEF SetUp, TypeOK, ghosts
<1>4. CASE BridgeStarts
  <2>1. entry.bridge \in Instance => entry.bridge \in 1 .. born
    BY CountsAssumption DEF TypeOK, Instance
  <2>2. recipient' \in {NoServer, OtherProgram} \cup 1 .. born
    BY <1>4, CountsAssumption DEF BridgeStarts, Serve, TypeOK
  <2>3. QED
    BY <1>4, <2>2 DEF BridgeStarts, TypeOK, servers, saves, ghosts
<1>5. CASE HassStarts
  <2>1. recipient' \in {NoServer, OtherProgram} \cup 1 .. born
    BY <1>5, CountsAssumption DEF HassStarts, Serve, TypeOK
  <2>2. QED
    BY <1>5, <2>1 DEF HassStarts, TypeOK, saves, ghosts
<1>6. CASE Unload
  BY <1>6 DEF Unload, StopServing, TypeOK, servers, saves, ghosts
<1>7. CASE Crash
  <2>1. disk' \subseteq User
    BY <1>7 DEF Crash, TypeOK, Snapshots
  <2>2. store' \in [Instance -> SUBSET User] /\ waiting' \in [Instance -> Snapshots]
        /\ writing' \in [Instance -> Snapshots]
    BY <1>7 DEF Crash, Empty, Snapshots
  <2>3. flow' \in Flows(born')
    BY <1>7, NoFlowIsFlow DEF Crash
  <2>4. entry' \in [created : BOOLEAN, users : SUBSET User, bridge : 0 .. born',
                    state : {"unloaded", "importing", "loaded"}]
    <3>1. entry' = [entry EXCEPT !.state = "unloaded", !.bridge = 0] /\ born' = 0
      BY <1>7 DEF Crash
    <3>2. 0 \in 0 .. born'
      BY <3>1
    <3>3. QED
      BY <3>1, <3>2 DEF TypeOK
  <2>5. recipient' \in {NoServer, OtherProgram} /\ born' = 0
        /\ UNCHANGED <<issued, paired>>
    BY <1>7 DEF Crash
  <2>6. up' \in BOOLEAN /\ temps' = {} /\ pressed' = {} /\ requests' = {} /\ told' = {}
    BY <1>7 DEF Crash
  <2>7. QED
    BY <2>1, <2>2, <2>3, <2>4, <2>5, <2>6, CountsAssumption DEF TypeOK, Flows
<1>8. QED
  BY <1>1, <1>2, <1>3, <1>4, <1>5, <1>6, <1>7

LEMMA TypeStep ==
  ASSUME TypeOK, Reach, [Next]_vars
  PROVE  TypeOK'
<1>1. CASE UNCHANGED vars
  BY <1>1 DEF vars, TypeOK
<1>2. CASE Next
  BY <1>2, PostTypes, WriteTypes, FlowTypes, EntryTypes DEF Next
<1>3. QED
  BY <1>1, <1>2

-----------------------------------------------------------------------------
(* Who is reached *)

LEMMA ReachInit == Init => Reach
BY DEF Init, Reach, NoFlow

\* Actions that leave alone all that Reach is about.
LEMMA ReachKept ==
  ASSUME Reach, UNCHANGED <<up, born, temps, recipient, entry, flow>>
  PROVE  Reach'
BY DEF Reach

LEMMA ReachStep ==
  ASSUME TypeOK, Reach, [Next]_vars
  PROVE  Reach'
<1> USE CountsAssumption
<1>1. CASE \E d \in Device : create_user(d)
  BY <1>1, ReachKept DEF create_user, servers
<1>2. CASE LinkButtonExpires \/ WriteBegins
  BY <1>2, ReachKept DEF LinkButtonExpires, WriteBegins, servers
<1>3. CASE WriteEnds
  BY <1>3, ReachKept DEF WriteEnds, servers
<1>4. CASE OtherProgramStep
  <2>1. UNCHANGED <<up, born, temps, entry, flow>>
    BY <1>4 DEF OtherProgramStep, servers
  <2>2. entry.state # "unloaded" => entry.bridge # NoServer /\ entry.bridge # OtherProgram
    BY DEF Reach, TypeOK
  <2>3. recipient \in {NoServer, OtherProgram} /\ recipient' \in {NoServer, OtherProgram}
    BY <1>4 DEF OtherProgramStep
  <2>4. ~(up /\ entry.state = "loaded")
    BY <2>2, <2>3 DEF Reach
  <2>5. QED
    BY <2>1, <2>3, <2>4 DEF Reach
<1>5. CASE OpenPairing
  <2>1. entry.state = "unloaded"
    BY <1>5 DEF OpenPairing, Reach
  <2>2. CASE CanServe
    BY <1>5, <2>1, <2>2 DEF OpenPairing, Serve, Reach, TypeOK
  <2>3. CASE ~CanServe
    BY <1>5, <2>1, <2>3 DEF OpenPairing, NoFlow, Reach, TypeOK, servers
  <2>4. QED
    BY <2>2, <2>3
<1>6. CASE PairAgain
  BY <1>6 DEF PairAgain, Reach, TypeOK, servers
<1>7. CASE PollSees \/ PollTimesOut
  <2>1. UNCHANGED <<up, born, temps, recipient, entry>>
    BY <1>7 DEF PollSees, PollTimesOut, servers
  <2>2. flow.step = "polling" /\ flow'.type = flow.type /\ flow'.on = flow.on
        /\ flow'.step \in {"paired", "not_paired"}
    BY <1>7 DEF PollSees, PollTimesOut, TypeOK
  <2>3. QED
    BY <2>1, <2>2 DEF Reach
<1>8. CASE CleanUp
  BY <1>8 DEF CleanUp, StopServing, Reach, TypeOK, servers
<1>9. CASE CreateEntry
  BY <1>9 DEF CreateEntry, NoFlow, Reach, TypeOK, servers
<1>10. CASE SaveOptions \/ Abandon
  BY <1>10 DEF SaveOptions, Abandon, NoFlow, Reach, TypeOK, servers
<1>11. CASE SetUp
  BY <1>11 DEF SetUp, Reach, TypeOK
<1>12. CASE BridgeStarts
  BY <1>12 DEF BridgeStarts, Serve, CanServe, Reach, TypeOK, servers
<1>13. CASE HassStarts
  BY <1>13 DEF HassStarts, Serve, CanServe, Reach, TypeOK
<1>14. CASE Unload
  BY <1>14 DEF Unload, StopServing, Reach, TypeOK, servers
<1>15. CASE Crash
  BY <1>15 DEF Crash, NoFlow, Reach, TypeOK
<1>16. CASE UNCHANGED vars
  BY <1>16, ReachKept DEF vars
<1>17. QED
  BY <1>1, <1>2, <1>3, <1>4, <1>5, <1>6, <1>7, <1>8, <1>9, <1>10, <1>11, <1>12, <1>13, <1>14,
     <1>15, <1>16 DEF Next

LEMMA ReachInvariance == Spec => [](TypeOK /\ Reach)
BY TypeInit, TypeStep, ReachInit, ReachStep, PTL DEF Spec

\* Type correctness of pairing, users and entry.
THEOREM TypeCorrect == Spec => []TypeOK
BY ReachInvariance, PTL

\* A loaded entry of a running Home Assistant gets the requests to the HTTP port,
\* whatever flows were opened, finished or dropped before it, and whatever else had
\* the port.
THEOREM BridgeIsReached == Spec => []LoadedIsReachable
<1>1. Reach => LoadedIsReachable
  BY DEF Reach, LoadedIsReachable
<1>2. QED
  BY <1>1, ReachInvariance, PTL

-----------------------------------------------------------------------------
(* One credential for a devicetype *)

Single(users) == \A u, v \in users : u[1] = v[1] => u = v

\* Everything a setup may merge has one credential per devicetype, and what the entry
\* imports is in it: so the merge of disk and entry adds nothing to a disk that has
\* been written.
Singles ==
  /\ \A i \in Instance : Single(store[i])
  /\ \A i \in Instance : \A s \in waiting[i] \cup writing[i] : Single(s) /\ entry.users \subseteq s
  /\ Single(disk) /\ Single(entry.users)
  /\ disk = {} \/ entry.users \subseteq disk
  /\ \A i \in (1 .. born) \ temps : entry.users \subseteq store[i]
  /\ ~entry.created =>
       /\ disk = {} /\ entry.users = {} /\ 1 .. born \subseteq temps
       /\ \A i \in Instance : waiting[i] = {} /\ writing[i] = {}

LEMMA SinglesInit == Init => Singles
BY DEF Init, Singles, Single, Empty

\* Actions that leave alone all that Singles is about.
LEMMA SinglesKept ==
  ASSUME Singles, UNCHANGED <<born, temps, store, saves, entry>>
  PROVE  Singles'
BY DEF Singles, saves

\* The devicetype of a new credential is not in the store.
LEMMA SinglesPost ==
  ASSUME TypeOK, Reach, Singles, NEW d \in Device, create_user(d)
  PROVE  Singles'
<1> DEFINE u == <<d, issued[d] + 1>>
<1>1. recipient \in 1 .. born /\ recipient \in Instance
      /\ UNCHANGED <<born, temps, entry, writing, disk>>
  BY CountsAssumption
  DEF create_user, AnswersAgain, IssuesNew, servers, saves, TypeOK, Instance
<1>2. CASE AnswersAgain(recipient, d)
  BY <1>1, <1>2, SinglesKept DEF AnswersAgain, saves
<1>3. CASE IssuesNew(recipient, d) /\ Known(recipient, d) = {}
  <2> DEFINE new == store[recipient] \cup {u}
  <2>1. u[1] = d /\ \A v \in store[recipient] : v[1] # d
    BY <1>3 DEF Known
  <2>2. Single(new) /\ store[recipient] \subseteq new
    BY <1>1, <2>1 DEF Singles, Single
  <2>3. store' = [store EXCEPT ![recipient] = new]
    BY <1>3 DEF IssuesNew
  <2>4. recipient \in temps => waiting' = waiting
    BY <1>3 DEF IssuesNew, saves
  <2>5. recipient \notin temps => waiting' = [waiting EXCEPT ![recipient] = {new}]
    BY <1>3 DEF IssuesNew
  <2> HIDE DEF new
  <2>6. \A i \in Instance : store'[i] = (IF i = recipient THEN new ELSE store[i])
    BY <2>3 DEF TypeOK
  <2>7. \A i \in Instance : \/ waiting'[i] = waiting[i]
                            \/ i = recipient /\ recipient \notin temps /\ waiting'[i] = {new}
    <3>1. CASE recipient \in temps
      BY <2>4, <3>1
    <3>2. CASE recipient \notin temps
      <4>1. DOMAIN waiting = Instance
        BY DEF TypeOK
      <4>2. \A i \in Instance : waiting'[i] = (IF i = recipient THEN {new} ELSE waiting[i])
        BY <2>5, <3>2, <4>1
      <4>3. QED
        BY <3>2, <4>2
    <3>3. QED
      BY <3>1, <3>2
  <2>8. recipient \notin temps => entry.users \subseteq new /\ entry.created
    BY <1>1, <2>2 DEF Singles
  <2>9. \A i \in Instance : Single(store'[i])
    BY <2>2, <2>6 DEF Singles
  <2>10. \A i \in Instance : \A s \in waiting'[i] \cup writing'[i] :
          Single(s) /\ entry.users \subseteq s
    BY <1>1, <2>2, <2>7, <2>8 DEF Singles
  <2>11. \A i \in (1 .. born) \ temps : entry.users \subseteq store'[i]
    BY <2>6, <2>8, CountsAssumption DEF Singles, TypeOK, Instance
  <2>12. ~entry.created => \A i \in Instance : waiting'[i] = {} /\ writing'[i] = {}
    BY <1>1, <2>7, <2>8 DEF Singles
  <2>13. QED
    BY <1>1, <2>9, <2>10, <2>11, <2>12 DEF Singles
<1>4. QED
  BY <1>2, <1>3 DEF create_user

LEMMA SinglesStep ==
  ASSUME TypeOK, Reach, Singles, [Next]_vars
  PROVE  Singles'
<1>1. CASE \E d \in Device : create_user(d)
  BY <1>1, SinglesPost
<1>2. CASE LinkButtonExpires \/ OtherProgramStep \/ PairAgain \/ PollSees \/ PollTimesOut
           \/ CleanUp \/ SaveOptions \/ Abandon
  BY <1>2, SinglesKept
  DEF LinkButtonExpires, OtherProgramStep, PairAgain, PollSees, PollTimesOut, CleanUp,
      SaveOptions, Abandon, servers, saves
<1>3. CASE WriteBegins
  <2>1. PICK i \in Instance : /\ waiting[i] # {}
                              /\ writing' = [writing EXCEPT ![i] = waiting[i]]
                              /\ waiting' = [waiting EXCEPT ![i] = {}]
    BY <1>3 DEF WriteBegins
  <2>2. entry.created
    BY <2>1 DEF Singles
  <2>3. \A j \in Instance : waiting'[j] \cup writing'[j] \subseteq waiting[j] \cup writing[j]
    BY <2>1 DEF TypeOK
  <2>4. QED
    BY <1>3, <2>2, <2>3 DEF WriteBegins, Singles, servers
<1>4. CASE WriteEnds
  <2>1. PICK i \in Instance : \E users \in writing[i] : Written(i, users)
    BY <1>4, Zenon DEF WriteEnds, Written
  <2>2. PICK users \in writing[i] : Written(i, users)
    BY <2>1
  <2>3. entry.created /\ Single(users) /\ entry.users \subseteq users
    BY <2>2 DEF Singles
  <2>4. \A j \in Instance : waiting'[j] \cup writing'[j] \subseteq waiting[j] \cup writing[j]
    BY <2>2 DEF Written, TypeOK
  <2>5. QED
    BY <2>2, <2>3, <2>4 DEF Written, Singles, servers
<1>5. CASE OpenPairing
  <2>1. (1 .. born') \ temps' \subseteq (1 .. born) \ temps
    BY <1>5 DEF OpenPairing, servers, TypeOK
  <2>2. UNCHANGED <<store, saves, entry>>
    BY <1>5 DEF OpenPairing
  <2>3. QED
    BY <2>1, <2>2 DEF Singles, saves
<1>6. CASE CreateEntry
  <2>1. ~entry.created /\ flow.on \in Instance
    BY <1>6, Places DEF CreateEntry, Reach
  <2>2. entry'.users = store[flow.on] /\ entry'.created
    BY <1>6 DEF CreateEntry, TypeOK
  <2>3. UNCHANGED <<born, temps, store, saves>>
    BY <1>6 DEF CreateEntry, servers
  <2>4. QED
    BY <2>1, <2>2, <2>3 DEF Singles, saves
<1>7. CASE SetUp
  <2> DEFINE users == disk \cup entry.users
  <2>1. Single(users) /\ entry.users \subseteq users
    BY DEF Singles, Single
  <2>2. /\ store' = [store EXCEPT ![born + 1] = users]
        /\ waiting' = [waiting EXCEPT ![born + 1] = {}]
           \/ waiting' = [waiting EXCEPT ![born + 1] = {users}]
        /\ born' = born + 1 /\ UNCHANGED <<temps, writing, disk>>
        /\ entry.created /\ entry'.created = entry.created /\ entry'.users = entry.users
    BY <1>7 DEF SetUp, TypeOK
  <2> HIDE DEF users
  <2>3. \A i \in Instance : (store'[i] = store[i] /\ i # born + 1) \/ store'[i] = users
    BY <2>2 DEF TypeOK
  <2>4. \A i \in Instance : waiting'[i] \subseteq waiting[i] \cup {users}
    BY <2>2 DEF TypeOK
  <2>5. \A i \in (1 .. born') \ temps : i = born + 1 \/ i \in (1 .. born) \ temps
    BY <2>2 DEF TypeOK
  <2>6. \A i \in (1 .. born') \ temps : i \in Instance
    BY <1>7, <2>2, CountsAssumption DEF SetUp, TypeOK, Instance
  <2>7. \A i \in (1 .. born') \ temps : entry.users \subseteq store'[i]
    BY <2>1, <2>3, <2>5, <2>6 DEF Singles
  <2>8. QED
    BY <2>1, <2>2, <2>3, <2>4, <2>7 DEF Singles
<1>8. CASE BridgeStarts \/ HassStarts \/ Unload
  <2>1. UNCHANGED <<born, temps, store, saves>>
    BY <1>8 DEF BridgeStarts, HassStarts, Unload, servers
  <2>2. entry'.created = entry.created /\ entry'.users = entry.users
    BY <1>8 DEF BridgeStarts, HassStarts, Unload, TypeOK
  <2>3. QED
    BY <2>1, <2>2 DEF Singles, saves
<1>9. CASE Crash
  <2>1. disk' = disk \/ \E i \in Instance : disk' \in writing[i]
    BY <1>9 DEF Crash
  <2>2. /\ \A i \in Instance : store'[i] = {} /\ waiting'[i] = {} /\ writing'[i] = {}
        /\ born' = 0 /\ temps' = {}
        /\ entry'.created = entry.created /\ entry'.users = entry.users
    BY <1>9 DEF Crash, Empty, TypeOK
  <2>3. Single(disk') /\ (disk' = {} \/ entry.users \subseteq disk')
        /\ (~entry.created => disk' = {})
    BY <2>1 DEF Singles
  <2>4. QED
    BY <2>2, <2>3 DEF Singles, Single
<1>10. CASE UNCHANGED vars
  BY <1>10, SinglesKept DEF vars, saves
<1>11. QED
  BY <1>1, <1>2, <1>3, <1>4, <1>5, <1>6, <1>7, <1>8, <1>9, <1>10 DEF Next

\* No bridge knows two credentials of one devicetype, hosted or not, whatever bursts,
\* flows, crashes and reloads there are.
THEOREM CredentialIsSingle == Spec => []OneCredentialPerTv
<1>1. Singles => OneCredentialPerTv
  BY DEF Singles, Single, OneCredentialPerTv
<1>2. QED
  BY <1>1, TypeInit, TypeStep, ReachInit, ReachStep, SinglesInit, SinglesStep, PTL DEF Spec

-----------------------------------------------------------------------------
(* A paired TV is known *)

Served == entry.state # "unloaded"
Answering == entry.state = "loaded"

\* What was paired is on disk or imported with every setup, and no write takes it
\* away: the disk is part of the snapshot being written, which is part of the one that
\* waits, which is part of the bridge's memory. If an unload waits for the handlers, of
\* which each snapshot has one that waits for it, no Store is left with an older dict
\* for the next setup's file.
Kept ==
  /\ paired \subseteq disk \cup entry.users
  /\ Served => disk \cup entry.users \subseteq store[entry.bridge]
  /\ \A i \in Instance : waiting[i] # {} \/ writing[i] # {} => Served /\ i = entry.bridge
  /\ \A r \in requests : up /\ Answering /\ r[1] = entry.bridge
  /\ \A i \in Instance : \A w \in writing[i] :
       /\ disk \subseteq w /\ w \subseteq store[i]
       /\ Answering => \E r \in requests : r[2] \in w
  /\ \A i \in Instance : \A s \in waiting[i] :
       /\ disk \subseteq s /\ s \subseteq store[i]
       /\ \A w \in writing[i] : w \subseteq s
       /\ Answering => \E r \in requests : r[2] \in s /\ \A w \in writing[i] : r[2] \notin w

\* The bridge is not taken down with a handler still waiting for a save. The cleanup of
\* a standalone server sees to it; a hosted one leaves it to chance.
UnloadWaits == Unload => \A r \in requests : r[1] # entry.bridge

LEMMA KeptInit == Init => Kept
BY DEF Init, Kept, Served, Answering, Empty

\* Actions that leave alone all that Kept is about.
LEMMA KeptSame ==
  ASSUME Kept, UNCHANGED <<up, store, saves, entry, paired>>
  PROVE  Kept'
BY DEF Kept, Served, Answering, saves

\* Once no handler waits, no snapshot of a loaded entry does.
LEMMA NothingWaits ==
  ASSUME Kept, entry.state = "loaded", requests = {}, NEW i \in Instance
  PROVE  waiting[i] = {} /\ writing[i] = {}
BY DEF Kept, Answering

LEMMA KeptPost ==
  ASSUME TypeOK, Reach, Kept, NEW d \in Device, create_user(d)
  PROVE  Kept'
<1> DEFINE u == <<d, issued[d] + 1>>
<1>1. recipient \in 1 .. born /\ recipient \in Instance
      /\ UNCHANGED <<up, entry, writing, disk, paired>>
  BY CountsAssumption
  DEF create_user, AnswersAgain, IssuesNew, servers, saves, TypeOK, Instance
<1>2. recipient \notin temps => up /\ Answering /\ recipient = entry.bridge
  BY <1>1, CountsAssumption DEF Reach, Answering, TypeOK
<1>3. CASE AnswersAgain(recipient, d)
  BY <1>1, <1>3, KeptSame DEF AnswersAgain, saves
<1>4. CASE IssuesNew(recipient, d) /\ Known(recipient, d) = {}
  <2> DEFINE new == store[recipient] \cup {u}
  <2>1. u \notin store[recipient]
    BY <1>4 DEF Known
  <2>2. store' = [store EXCEPT ![recipient] = new]
    BY <1>4 DEF IssuesNew
  <2>3. recipient \in temps => UNCHANGED <<waiting, requests>>
    BY <1>4 DEF IssuesNew, saves
  <2>4. recipient \notin temps => /\ waiting' = [waiting EXCEPT ![recipient] = {new}]
                                /\ requests' = requests \cup {<<recipient, u>>}
    BY <1>4 DEF IssuesNew
  <2>5. store[recipient] \subseteq new /\ u \in new /\ <<recipient, u>>[1] = recipient
        /\ <<recipient, u>>[2] = u
    OBVIOUS
  <2> HIDE DEF new, u
  <2>6. \A i \in Instance : store'[i] = (IF i = recipient THEN new ELSE store[i])
    BY <2>2 DEF TypeOK
  <2>7. \A i \in Instance : store[i] \subseteq store'[i]
    BY <2>5, <2>6
  <2>8. CASE recipient \in temps
    <3>1. Served => entry.bridge \in Instance
      BY Places DEF Served
    <3>2. Served' = Served /\ Answering' = Answering
      BY <1>1 DEF Served, Answering
    <3>3. UNCHANGED <<up, entry, writing, disk, paired, waiting, requests>>
      BY <1>1, <2>3, <2>8
    <3>4. Served => disk \cup entry.users \subseteq store'[entry.bridge]
      BY <2>7, <3>1 DEF Kept
    <3>5. \A i \in Instance : \A w \in waiting[i] \cup writing[i] : w \subseteq store'[i]
      BY <2>7 DEF Kept
    <3>6. QED
      BY <3>2, <3>3, <3>4, <3>5 DEF Kept
  <2>9. CASE recipient \notin temps
    <3>1. up /\ Answering /\ Served /\ recipient = entry.bridge
          /\ Served' /\ Answering' /\ entry'.bridge = entry.bridge /\ entry'.users = entry.users
      BY <1>1, <1>2, <2>9 DEF Answering, Served
    <3>2. \A i \in Instance : waiting'[i] = (IF i = recipient THEN {new} ELSE waiting[i])
      BY <2>4, <2>9 DEF TypeOK
    <3>3. disk \cup entry.users \subseteq store'[entry.bridge]
      BY <1>1, <2>7, <3>1 DEF Kept
    <3>4. \A i \in Instance : waiting'[i] # {} \/ writing'[i] # {} => i = entry.bridge
      BY <1>1, <3>1, <3>2 DEF Kept
    <3>5. \A r \in requests' : up' /\ Answering' /\ r[1] = entry'.bridge
      BY <1>1, <2>4, <2>5, <2>9, <3>1 DEF Kept
    <3>6. \A i \in Instance : \A w \in writing'[i] :
            /\ disk' \subseteq w /\ w \subseteq store'[i]
            /\ \E r \in requests' : r[2] \in w
      BY <1>1, <2>4, <2>7, <2>9, <3>1 DEF Kept
    <3>7. ASSUME NEW i \in Instance, NEW s \in waiting'[i]
          PROVE  /\ disk' \subseteq s /\ s \subseteq store'[i]
                 /\ \A w \in writing'[i] : w \subseteq s
                 /\ \E r \in requests' : r[2] \in s /\ \A w \in writing'[i] : r[2] \notin w
      <4>1. i = recipient /\ s = new
        BY <3>1, <3>2, <3>4
      <4>2. disk \subseteq store[recipient] /\ \A w \in writing[i] : w \subseteq store[recipient]
        BY <3>1, <4>1 DEF Kept
      <4>3. <<recipient, u>> \in requests'
        BY <2>4, <2>9
      <4>4. s \subseteq store'[i]
        BY <2>6, <4>1
      <4>5. \A w \in writing[i] : u \notin w
        BY <2>1, <4>2
      <4>6. QED
        BY <1>1, <2>5, <4>1, <4>2, <4>3, <4>4, <4>5
    <3>8. QED
      BY <1>1, <3>1, <3>3, <3>4, <3>5, <3>6, <3>7 DEF Kept
  <2>10. QED
    BY <2>8, <2>9
<1>5. QED
  BY <1>3, <1>4 DEF create_user

LEMMA KeptWrite ==
  ASSUME TypeOK, Reach, Singles, Kept, WriteBegins \/ WriteEnds
  PROVE  Kept'
<1>1. CASE WriteBegins
  <2>1. PICK i \in Instance : /\ waiting[i] # {} /\ writing[i] = {}
                              /\ writing' = [writing EXCEPT ![i] = waiting[i]]
                              /\ waiting' = [waiting EXCEPT ![i] = {}]
    BY <1>1 DEF WriteBegins
  <2>2. UNCHANGED <<up, store, requests, disk, entry, paired>>
    BY <1>1 DEF WriteBegins, servers, ghosts
  <2>3. \A j \in Instance : /\ writing'[j] = (IF j = i THEN waiting[i] ELSE writing[j])
                            /\ waiting'[j] = (IF j = i THEN {} ELSE waiting[j])
    BY <2>1 DEF TypeOK
  <2>4. Served' = Served /\ Answering' = Answering
    BY <2>2 DEF Served, Answering
  <2>5. \A j \in Instance : waiting'[j] # {} \/ writing'[j] # {}
                            => waiting[j] # {} \/ writing[j] # {}
    BY <2>1, <2>3
  <2>6. \A j \in Instance : \A w \in writing'[j] :
          /\ disk \subseteq w /\ w \subseteq store[j]
          /\ Answering => \E r \in requests : r[2] \in w
    BY <2>3 DEF Kept
  <2>7. \A j \in Instance : \A s \in waiting'[j] : j # i /\ s \in waiting[j]
                                                  /\ writing'[j] = writing[j]
    BY <2>3
  <2>8. QED
    BY <2>2, <2>4, <2>5, <2>6, <2>7 DEF Kept
<1>2. CASE WriteEnds
  <2>1. PICK i \in Instance : \E users \in writing[i] : Written(i, users)
    BY <1>2, Zenon DEF WriteEnds, Written
  <2>2. PICK users \in writing[i] : Written(i, users)
    BY <2>1
  <2> DEFINE answered == {r \in requests : r[1] = i /\ r[2] \in users}
  <2>3. /\ disk' = users /\ requests' = requests \ answered
        /\ paired' = paired \cup {r[2] : r \in answered}
        /\ writing' = [writing EXCEPT ![i] = {}]
        /\ UNCHANGED <<up, store, waiting, entry>>
    BY <2>2 DEF Written, servers
  <2>4. /\ \A r \in answered : r[2] \in users
        /\ \A r \in requests : r[2] \notin users => r \notin answered
        /\ answered \subseteq requests
    OBVIOUS
  <2> HIDE DEF answered
  <2>5. /\ Served /\ i = entry.bridge /\ disk \subseteq users /\ users \subseteq store[i]
        /\ entry.users \subseteq users
    BY <2>2 DEF Kept, Singles
  <2>6. \A j \in Instance : writing'[j] = {} /\ (j # i => waiting'[j] = {})
    BY <2>3, <2>5 DEF Kept, TypeOK
  <2>7. Served' = Served /\ Answering' = Answering
    BY <2>3 DEF Served, Answering
  <2>8. paired' \subseteq disk' \cup entry'.users
    BY <2>3, <2>4, <2>5 DEF Kept
  <2>9. disk' \cup entry'.users \subseteq store'[entry'.bridge]
    BY <2>3, <2>5
  <2>10. \A r \in requests' : r \in requests
    BY <2>3
  <2>11. ASSUME NEW s \in waiting'[i]
         PROVE  /\ users \subseteq s /\ s \subseteq store[i]
                /\ Answering => \E r \in requests' : r[2] \in s
    <3>1. users \subseteq s /\ s \subseteq store[i]
      BY <2>2, <2>3 DEF Kept
    <3>2. Answering => \E r \in requests : r[2] \in s /\ r[2] \notin users
      BY <2>2, <2>3 DEF Kept
    <3>3. QED
      BY <2>3, <2>4, <3>1, <3>2
  <2>12. QED
    BY <2>3, <2>5, <2>6, <2>7, <2>8, <2>9, <2>10, <2>11 DEF Kept
<1>3. QED
  BY <1>1, <1>2

\* A state of the entry that no handler and no snapshot depends on.
LEMMA KeptIdle ==
  ASSUME Kept, requests = {}, requests' = {},
         \A i \in Instance : waiting[i] = {} /\ writing[i] = {},
         UNCHANGED <<store, waiting, writing, disk, paired>>,
         entry'.users = entry.users, entry'.bridge = entry.bridge,
         entry'.state # "unloaded" => entry.state # "unloaded"
  PROVE  Kept'
BY DEF Kept, Served, Answering

LEMMA KeptStep ==
  ASSUME TypeOK, Reach, Singles, Kept, [Next]_vars, [UnloadWaits]_vars
  PROVE  Kept'
<1>1. CASE \E d \in Device : create_user(d)
  BY <1>1, KeptPost
<1>2. CASE LinkButtonExpires \/ OtherProgramStep \/ OpenPairing \/ PairAgain \/ PollSees
           \/ PollTimesOut \/ CleanUp \/ SaveOptions \/ Abandon
  BY <1>2, KeptSame
  DEF LinkButtonExpires, OtherProgramStep, OpenPairing, PairAgain, PollSees, PollTimesOut,
      CleanUp, SaveOptions, Abandon, servers, saves, ghosts
<1>3. CASE WriteBegins \/ WriteEnds
  BY <1>3, KeptWrite
<1>4. CASE CreateEntry
  <2>1. ~entry.created /\ entry.state = "unloaded"
    BY <1>4 DEF CreateEntry, Reach
  <2>2. entry'.users = store[flow.on] /\ entry'.state = "unloaded"
        /\ paired' = paired \cup store[flow.on]
    BY <1>4, <2>1 DEF CreateEntry, TypeOK
  <2>3. disk = {} /\ entry.users = {} /\ \A i \in Instance : waiting[i] = {} /\ writing[i] = {}
    BY <2>1 DEF Singles
  <2>4. paired = {} /\ requests = {}
    BY <2>1, <2>3 DEF Kept, Answering
  <2>5. UNCHANGED saves
    BY <1>4 DEF CreateEntry
  <2>6. QED
    BY <2>2, <2>3, <2>4, <2>5 DEF Kept, Served, Answering, saves
<1>5. CASE SetUp
  <2> DEFINE users == disk \cup entry.users
  <2>1. born + 1 \in Instance /\ entry.state = "unloaded"
    BY <1>5, CountsAssumption DEF SetUp, TypeOK, Instance
  <2>2. requests = {} /\ \A i \in Instance : waiting[i] = {} /\ writing[i] = {}
    BY <2>1 DEF Kept, Served, Answering
  <2>3. /\ store' = [store EXCEPT ![born + 1] = users]
        /\ waiting' = [waiting EXCEPT ![born + 1] = {}]
           \/ waiting' = [waiting EXCEPT ![born + 1] = {users}]
        /\ entry'.bridge = born + 1 /\ entry'.state = "importing" /\ entry'.users = entry.users
        /\ UNCHANGED <<writing, requests, disk, paired>>
    BY <1>5 DEF SetUp, TypeOK, ghosts
  <2>4. disk \subseteq users /\ entry.users \subseteq users
    OBVIOUS
  <2> HIDE DEF users
  <2>5. store'[born + 1] = users
    BY <2>1, <2>3 DEF TypeOK
  <2>6. \A i \in Instance : \A s \in waiting'[i] : i = born + 1 /\ s = users
    BY <2>2, <2>3 DEF TypeOK
  <2>7. Served' /\ ~Answering'
    BY <2>3 DEF Served, Answering
  <2>8. QED
    BY <2>2, <2>3, <2>4, <2>5, <2>6, <2>7 DEF Kept, users
<1>6. CASE BridgeStarts
  <2>1. UNCHANGED <<store, saves, paired>> /\ entry.state = "importing"
        /\ Saved(entry.bridge)
    BY <1>6 DEF BridgeStarts, ghosts
  <2>2. entry'.users = entry.users /\ entry'.bridge = entry.bridge
    BY <1>6 DEF BridgeStarts, TypeOK
  <2>3. requests = {} /\ \A i \in Instance : waiting[i] = {} /\ writing[i] = {}
    BY <2>1 DEF Kept, Answering, Saved
  <2>4. QED
    BY <2>1, <2>2, <2>3, KeptIdle DEF saves
<1>7. CASE HassStarts
  <2>1. ~up /\ entry.state # "importing" /\ UNCHANGED <<store, saves, paired>>
    BY <1>7 DEF HassStarts, ghosts
  <2>2. entry'.users = entry.users /\ entry'.bridge = entry.bridge
        /\ entry'.state \in {entry.state, "unloaded"}
    BY <1>7 DEF HassStarts, TypeOK
  <2>3. requests = {}
    BY <2>1 DEF Kept
  <2>4. entry.state \in {"unloaded", "loaded"}
    BY <2>1 DEF TypeOK
  <2>5. \A i \in Instance : waiting[i] = {} /\ writing[i] = {}
    BY <2>3, <2>4, NothingWaits DEF Kept, Served
  <2>6. QED
    BY <2>1, <2>2, <2>3, <2>5, KeptIdle DEF saves
<1>8. CASE Unload
  <2>1. entry.state = "loaded" /\ UNCHANGED <<store, saves, paired>>
    BY <1>8 DEF Unload, ghosts
  <2>2. requests = {}
    <3>1. UNCHANGED vars => entry'.state = "loaded"
      BY <2>1 DEF vars
    <3>2. entry'.state = "unloaded"
      BY <1>8 DEF Unload, TypeOK
    <3>3. \A r \in requests : r[1] # entry.bridge
      BY <1>8, <3>1, <3>2 DEF UnloadWaits
    <3>4. QED
      BY <3>3 DEF Kept
  <2>3. \A i \in Instance : waiting[i] = {} /\ writing[i] = {}
    BY <2>1, <2>2, NothingWaits
  <2>4. entry'.users = entry.users /\ entry'.bridge = entry.bridge /\ entry'.state = "unloaded"
    BY <1>8 DEF Unload, TypeOK
  <2>5. QED
    BY <2>1, <2>2, <2>3, <2>4, KeptIdle DEF saves
<1>9. CASE Crash
  <2>1. disk' = disk \/ \E i \in Instance : disk' \in writing[i]
    BY <1>9 DEF Crash
  <2>2. /\ \A i \in Instance : waiting'[i] = {} /\ writing'[i] = {}
        /\ requests' = {} /\ paired' = paired
        /\ entry'.state = "unloaded" /\ entry'.users = entry.users
    BY <1>9 DEF Crash, Empty, TypeOK
  <2>3. disk \subseteq disk'
    BY <2>1 DEF Kept
  <2>4. QED
    BY <2>2, <2>3 DEF Kept, Served, Answering
<1>10. CASE UNCHANGED vars
  BY <1>10, KeptSame DEF vars, saves
<1>11. QED
  BY <1>1, <1>2, <1>3, <1>4, <1>5, <1>6, <1>7, <1>8, <1>9, <1>10 DEF Next

KeptInv == TypeOK /\ Reach /\ Singles /\ Kept

LEMMA KeptInvariance == Spec /\ [][UnloadWaits]_vars => []KeptInv
<1>1. KeptInv /\ [Next]_vars /\ [UnloadWaits]_vars => KeptInv'
  BY TypeStep, ReachStep, SinglesStep, KeptStep DEF KeptInv
<1>2. Init => KeptInv
  BY TypeInit, ReachInit, SinglesInit, KeptInit DEF KeptInv
<1>3. QED
  BY <1>1, <1>2, PTL DEF Spec

LEMMA KeptIsKnown == KeptInv => PairedTvIsKnown
BY DEF KeptInv, Kept, Served, PairedTvIsKnown

\* A loaded entry knows every TV that was paired for good, hosted or not, through any
\* number of pairings, reloads, crashes and overlapping saves, as long as no unload
\* overtakes a save that a handler waits for: nothing else can lose a TV.
THEOREM PairingIsKeptByWaiting == Spec /\ [][UnloadWaits]_vars => []PairedTvIsKnown
BY KeptInvariance, KeptIsKnown, PTL

LEMMA StandaloneWaits == ASSUME ~Hosted PROVE Spec => [][UnloadWaits]_vars
<1>1. [Next]_vars => [UnloadWaits]_vars
  BY DEF UnloadWaits, Unload
<1>2. QED
  BY <1>1, PTL DEF Spec

\* With a server of its own, a loaded entry knows every TV that was paired for good.
THEOREM PairingIsKept == ASSUME ~Hosted PROVE Spec => []PairedTvIsKnown
BY StandaloneWaits, PairingIsKeptByWaiting, PTL

\* What a crash leaves, at any moment, has every TV that was paired for good: the file,
\* or the entry whose users the next setup imports.
PairedTvIsStored == paired \subseteq disk \cup entry.users

THEOREM PairingSurvives == ASSUME ~Hosted PROVE Spec => []PairedTvIsStored
<1>1. KeptInv => PairedTvIsStored
  BY DEF KeptInv, Kept, PairedTvIsStored
<1>2. QED
  BY <1>1, StandaloneWaits, KeptInvariance, PTL

\* A TV is given one credential for good: whatever it posts later, after a crash or a
\* reload, what it was given first is not replaced by another.
OneCredentialForGood == \A u, v \in paired : u[1] = v[1] => u = v

THEOREM CredentialStays == ASSUME ~Hosted PROVE Spec => []OneCredentialForGood
<1>1. KeptInv => OneCredentialForGood
  <2> SUFFICES ASSUME KeptInv
               PROVE  OneCredentialForGood
    OBVIOUS
  <2>1. paired \subseteq disk \/ paired \subseteq entry.users
    BY DEF KeptInv, Kept, Singles
  <2>2. Single(disk) /\ Single(entry.users)
    BY DEF KeptInv, Singles
  <2>3. QED
    BY <2>1, <2>2 DEF Single, OneCredentialForGood
<1>2. QED
  BY <1>1, StandaloneWaits, KeptInvariance, PTL

\* No save, whichever Store it comes from and whatever it overlaps or a crash leaves of
\* it, puts a file in place that lacks a credential the last one had (async_save).
DiskOnlyGrows == [][disk \subseteq disk']_vars

LEMMA DiskStep ==
  ASSUME KeptInv, [Next]_vars
  PROVE  [disk \subseteq disk']_vars
<1>1. CASE WriteEnds
  <2>1. \E i \in Instance : disk' \in writing[i]
    BY <1>1 DEF WriteEnds
  <2>2. QED
    BY <2>1 DEF KeptInv, Kept
<1>2. CASE Crash
  <2>1. disk' = disk \/ \E i \in Instance : disk' \in writing[i]
    BY <1>2 DEF Crash
  <2>2. QED
    BY <2>1 DEF KeptInv, Kept
<1>3. ASSUME NEW d \in Device, create_user(d) PROVE disk' = disk
  BY <1>3 DEF create_user, AnswersAgain, IssuesNew, saves
<1>4. CASE LinkButtonExpires \/ WriteBegins \/ OtherProgramStep \/ OpenPairing \/ PairAgain
           \/ PollSees \/ PollTimesOut \/ CleanUp \/ CreateEntry \/ SaveOptions \/ Abandon
           \/ SetUp \/ BridgeStarts \/ HassStarts \/ Unload
  <2>1. disk' = disk
    BY <1>4 DEF LinkButtonExpires, WriteBegins, OtherProgramStep, OpenPairing, PairAgain,
       PollSees, PollTimesOut, CleanUp, CreateEntry, SaveOptions, Abandon, SetUp, BridgeStarts,
       HassStarts, Unload, saves
  <2>2. QED
    BY <2>1
<1>5. QED
  BY <1>1, <1>2, <1>3, <1>4 DEF Next

THEOREM FileOnlyGrows == ASSUME ~Hosted PROVE Spec => DiskOnlyGrows
<1>1. KeptInv /\ [Next]_vars => [disk \subseteq disk']_vars
  BY DiskStep
<1>2. QED
  BY <1>1, StandaloneWaits, KeptInvariance, PTL DEF Spec, DiskOnlyGrows
=============================================================================
