---------------------------- MODULE SessionContract ----------------------------
(***************************************************************************)
(* What a session, the silence of its stream and a release are to each     *)
(* other, without the clock that measures the silence, the watchdog that   *)
(* looks at it, or the lights. SessionTiming, which has the clock, and     *)
(* EntertainmentEngine, which has the rest, both implement it: so the two  *)
(* speak of the same session, and what bounds the silence and the release  *)
(* in the one is not contradicted by a step of the other.                  *)
(***************************************************************************)
VARIABLES
  active,    \* there is a session
  releasing, \* it, or the time without one, is being released
  forcing,   \* the grace is over: frames count for nothing
  silent     \* the session has had no frame that counted for the frame timeout

sessionVars == <<active, releasing, forcing, silent>>

SessionInit == active = FALSE /\ releasing = FALSE /\ forcing = FALSE /\ silent = FALSE

Resolved == releasing' = FALSE /\ forcing' = FALSE

\* A new session, or the old one claimed back from a release, is not silent.
Begin ==
  /\ releasing = TRUE \/ active = FALSE
  /\ active' = TRUE
  /\ silent' = FALSE
  /\ Resolved

\* The TV or the watchdog ends it, and with it a release.
End ==
  /\ active = TRUE
  /\ active' = FALSE
  /\ silent' = FALSE
  /\ Resolved

\* A frame ends the silence, unless the release has come to force the end.
Hear ==
  /\ active = TRUE /\ forcing = FALSE
  /\ silent' = FALSE
  /\ UNCHANGED <<active, releasing, forcing>>

FallSilent ==
  /\ active = TRUE /\ silent = FALSE
  /\ silent' = TRUE
  /\ UNCHANGED <<active, releasing, forcing>>

\* A second release starts its grace afresh.
Release ==
  /\ releasing' = TRUE /\ forcing' = FALSE
  /\ UNCHANGED <<active, silent>>

\* Without a session the release is over, else it now forces the end of it.
GraceEnds ==
  /\ releasing = TRUE /\ forcing = FALSE
  /\ releasing' = active /\ forcing' = active
  /\ UNCHANGED <<active, silent>>

SessionNext == Begin \/ End \/ Hear \/ FallSilent \/ Release \/ GraceEnds

SessionSpec == SessionInit /\ [][SessionNext]_sessionVars
=============================================================================
