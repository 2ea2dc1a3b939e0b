----------------------------- MODULE PauseContract -----------------------------
(***************************************************************************)
(* What pause, resume and release promise to the automation that calls     *)
(* them (the contracts in the docstrings of async_pause, async_resume and  *)
(* async_release), without the queue, the timers and the teardown that     *)
(* keep the promise: who drives the lights, what is on the radio, and      *)
(* whether the lights will be put back to what they showed before.         *)
(***************************************************************************)
CONSTANTS
  Sends,     \* what can be on the radio
  MayResume  \* whether the resume service is called

VARIABLES
  mode,   \* "driving", "held" by a pause, "over" when its time is up, "released"
  air,    \* the sends on the radio
  target  \* whether there is a state to restore the lights to

contractVars == <<mode, air, target>>

ContractInit == mode = "driving" /\ air = {} /\ target = FALSE

\* What is on the radio stays sent; nothing is added.
Hush == air' \subseteq air

\* The bridge drives the lights; sessions come and go.
Drive ==
  /\ mode \in {"driving", "over"} /\ mode' = mode
  /\ air' \subseteq Sends
  /\ target' \in BOOLEAN

\* A release in progress wins over a pause. A second pause starts afresh.
Pause ==
  /\ mode # "released" /\ mode' = "held"
  /\ Hush
  /\ target' = target

\* Sessions come and go, but nothing is sent.
Hold ==
  /\ mode = "held" /\ mode' = "held"
  /\ Hush
  /\ target' \in BOOLEAN

\* The seconds asked for are over, and then noticed.
TimeIsUp == mode = "held" /\ mode' = "over" /\ Hush /\ target' = target
Notice   == mode = "over" /\ mode' = "driving" /\ Hush /\ target' = target

Resume ==
  /\ MayResume
  /\ mode \in {"held", "over"} /\ mode' = "driving"
  /\ Hush
  /\ target' = target

\* What the lights show is right from now on.
Release == mode' = "released" /\ Hush /\ target' = FALSE

\* A new session, or the end of the old one, or of the grace period
ReleaseIsOver ==
  /\ mode = "released" /\ mode' = "driving"
  /\ Hush
  /\ target' \in BOOLEAN

ContractNext ==
  Drive \/ Pause \/ Hold \/ TimeIsUp \/ Notice \/ Resume \/ Release \/ ReleaseIsOver

ContractSpec == ContractInit /\ [][ContractNext]_contractVars
=============================================================================
