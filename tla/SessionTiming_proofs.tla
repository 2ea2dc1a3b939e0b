------------------------- MODULE SessionTiming_proofs -------------------------
(***************************************************************************)
(* The bounds of SessionTiming for every value of the time-outs and of the *)
(* grace. Neither bound is inductive: the silence of a session is bounded  *)
(* through the watchdog's sleep, and the age of a release through its      *)
(* grace and then through the silence that it has manufactured.            *)
(***************************************************************************)
EXTENDS SessionTiming, TLAPS

\* The silence a session may have reached, given how long the watchdog slept.
SilenceFollowsPoll == active => sinceFrame <= FrameTimeout + poll

\* Before the grace is over a release is as old as the grace consumed; once
\* forcing, no frame has counted since the grace was over.
AgeFollowsClock ==
  /\ forcing => releasing /\ active
  /\ releasing /\ ~forcing => age + grace = granted
  /\ forcing => age <= granted + sinceFrame

\* Outside a release every sign of life of the TV counts.
SignsCount == active /\ ~releasing => sinceSign = sinceFrame

Bounds == SilenceFollowsPoll /\ AgeFollowsClock /\ SignsCount

Inv == TypeOK /\ Bounds

\* TypeOK in two parts: the flags, and the numbers.
Flags == active \in BOOLEAN /\ releasing \in BOOLEAN /\ forcing \in BOOLEAN
Clocks ==
  /\ sinceFrame \in Nat /\ sinceSign \in Nat /\ poll \in 0 .. WatchdogInterval
  /\ grace \in Nat /\ granted \in Nat /\ age \in Nat

LEMMA TypeOKParts == TypeOK <=> Flags /\ Clocks
BY Zenon DEF TypeOK, Flags, Clocks

LEMMA InvInit == Init => Inv
<1> SUFFICES ASSUME Init
             PROVE  Inv
  OBVIOUS
<1>1. Flags
  BY Zenon DEF Init, Flags
<1>2. Clocks /\ Bounds
  BY TimingAssumption DEF Init, Clocks, Bounds, SilenceFollowsPoll, AgeFollowsClock, SignsCount
<1>3. QED
  BY <1>1, <1>2, TypeOKParts DEF Inv

\* No step gives a flag anything but a flag.
LEMMA FlagsStep == Flags /\ [Next]_vars => Flags'
<1> SUFFICES ASSUME Flags, [Next]_vars
             PROVE  Flags'
  OBVIOUS
<1>1. CASE Start
  BY <1>1, Zenon DEF Flags, Start, ResolveRelease
<1>2. CASE Frame
  BY <1>2, Zenon DEF Flags, Frame
<1>3. CASE Stop
  BY <1>3, Zenon DEF Flags, Stop, ResolveRelease
<1>4. CASE \E seconds \in Seconds : Release(seconds)
  BY <1>4, Zenon DEF Flags, Release
<1>5. CASE GraceExpires
  BY <1>5, Zenon DEF Flags, GraceExpires
<1>6. CASE WatchdogPolls
  BY <1>6, Zenon DEF Flags, WatchdogPolls, ResolveRelease
<1>7. CASE Tick
  BY <1>7, Zenon DEF Flags, Tick
<1>8. CASE UNCHANGED vars
  BY <1>8, Zenon DEF Flags, vars
<1>9. QED
  BY <1>1, <1>2, <1>3, <1>4, <1>5, <1>6, <1>7, <1>8 DEF Next

\* Every step keeps the numbers in range and the bounds they obey.
LEMMA ClocksStep == Inv /\ [Next]_vars => Clocks' /\ Bounds'
<1> SUFFICES ASSUME Inv, [Next]_vars
             PROVE  Clocks' /\ Bounds'
  OBVIOUS
<1> USE TimingAssumption DEF Clocks, Bounds, SilenceFollowsPoll, AgeFollowsClock, SignsCount
<1>0. Flags /\ Clocks /\ Bounds
  BY TypeOKParts DEF Inv
<1>1. CASE Start
  BY <1>0, <1>1 DEF Start, ResolveRelease
<1>2. CASE Frame
  BY <1>0, <1>2 DEF Frame
<1>3. CASE Stop
  BY <1>0, <1>3 DEF Stop, ResolveRelease
<1>4. ASSUME NEW seconds \in Seconds, Release(seconds)
      PROVE  Clocks' /\ Bounds'
  <2>1. Resolved(seconds) \in Nat
    BY DEF Resolved
  <2>2. QED
    BY <1>0, <1>4, <2>1 DEF Release
<1>5. CASE GraceExpires
  <2>1. (forcing' <=> active) /\ (releasing' <=> active) /\ (active' <=> active)
    BY <1>5, Zenon DEF GraceExpires
  <2>2. QED
    BY <1>0, <1>5, <2>1 DEF GraceExpires, GraceDue
<1>6. CASE WatchdogPolls
  <2>1. CASE sinceFrame > FrameTimeout
    BY <1>0, <1>6, <2>1 DEF WatchdogPolls, PollDue, ResolveRelease
  <2>2. CASE ~(sinceFrame > FrameTimeout)
    BY <1>0, <1>6, <2>2 DEF WatchdogPolls, PollDue
  <2>3. QED
    BY <2>1, <2>2
<1>7. CASE Tick
  BY <1>0, <1>7 DEF Tick, GraceDue, PollDue
<1>8. CASE UNCHANGED vars
  BY <1>0, <1>8 DEF vars
<1>9. QED
  BY <1>1, <1>2, <1>3, <1>4, <1>5, <1>6, <1>7, <1>8 DEF Next

LEMMA InvStep == Inv /\ [Next]_vars => Inv'
<1>1. Inv => Flags
  BY TypeOKParts DEF Inv
<1>2. (Flags /\ Clocks => TypeOK)'
  BY TypeOKParts, PTL
<1>3. QED
  BY <1>1, <1>2, FlagsStep, ClocksStep DEF Inv

\* The inductive invariant holds throughout (the clock variables of the engine,
\* of the watchdog and of the grace timer).
THEOREM Invariance == Spec => []Inv
BY InvInit, InvStep, PTL DEF Spec

\* The variables of SessionTiming keep their types.
THEOREM TypeCorrect == Spec => []TypeOK
<1>1. Inv => TypeOK
  BY DEF Inv
<1>2. QED
  BY Invariance, <1>1, PTL

\* A session never outlives its last counted frame by more than FRAME_TIMEOUT
\* and one watchdog interval, whatever these are (_frame_watchdog).
THEOREM SilenceIsBounded == Spec => []SilenceBounded
<1>1. Inv => SilenceBounded
  BY TimingAssumption DEF Inv, Bounds, TypeOK, SilenceFollowsPoll, SilenceBounded
<1>2. QED
  BY Invariance, <1>1, PTL

\* A release is over within its grace, the frame timeout and one watchdog
\* interval, for every grace a caller asks for (async_release).
THEOREM ReleaseIsBounded == Spec => []ReleaseBounded
<1>1. Inv => ReleaseBounded
  BY TimingAssumption
  DEF Inv, Bounds, TypeOK, SilenceFollowsPoll, AgeFollowsClock, ReleaseBounded
<1>2. QED
  BY Invariance, <1>1, PTL

\* The watchdog ends only a session that is being released or whose TV has given
\* no sign of life for FRAME_TIMEOUT (async_snapshot_lights, handle_frame).
THEOREM TimeoutIsGenuine == Spec => NoFalseTimeout
<1>1. Inv /\ [Next]_vars => [WatchdogPolls /\ ~active' => releasing \/ sinceSign > FrameTimeout]_vars
  <2> SUFFICES ASSUME Inv, WatchdogPolls, ~active', ~releasing
               PROVE  sinceSign > FrameTimeout
    OBVIOUS
  <2>1. active /\ sinceFrame > FrameTimeout
    BY DEF WatchdogPolls, PollDue
  <2>2. QED
    BY <2>1 DEF Inv, Bounds, SignsCount
<1>2. QED
  BY <1>1, Invariance, PTL DEF Spec, NoFalseTimeout

-----------------------------------------------------------------------------
(* The contract of a session *)

\* The silence of the contract, as the clock has it.
Silent == active /\ sinceFrame > FrameTimeout

LEMMA SilentIsFlag == Silent \in BOOLEAN /\ Silent' \in BOOLEAN
BY Zenon DEF Silent

\* What a step makes of the silence, given what it makes of session and clock.
LEMMA SilenceAfter ==
  ASSUME Flags, Clocks
  PROVE  /\ active' = FALSE => Silent' = FALSE
         /\ sinceFrame' = 0 => Silent' = FALSE
         /\ UNCHANGED <<active, sinceFrame>> => Silent' = Silent
<1>1. sinceFrame' = 0 => ~(sinceFrame' > FrameTimeout)
  BY TimingAssumption
<1>2. active' = FALSE => Silent' = FALSE
  BY Zenon DEF Silent
<1>3. sinceFrame' = 0 => Silent' = FALSE
  BY <1>1, Zenon DEF Silent
<1>4. UNCHANGED <<active, sinceFrame>> => Silent' = Silent
  BY DEF Silent
<1>5. QED
  BY <1>2, <1>3, <1>4

LEMMA SessionStep ==
  Inv /\ [Next]_vars => [Contract!SessionNext]_(Contract!sessionVars)
<1> SUFFICES ASSUME Inv, [Next]_vars
             PROVE  [Contract!SessionNext]_(Contract!sessionVars)
  OBVIOUS
<1>0. Flags /\ Clocks
  BY TypeOKParts DEF Inv
<1>00. Flags'
  BY <1>0, FlagsStep
<1> USE DEF Contract!SessionNext, Contract!sessionVars
<1>1. CASE Start
  <2>1. /\ releasing = TRUE \/ active = FALSE
        /\ active' = TRUE /\ releasing' = FALSE /\ forcing' = FALSE /\ sinceFrame' = 0
    BY <1>0, <1>1, Zenon DEF Flags, Start, ResolveRelease
  <2>2. Silent' = FALSE
    BY <1>0, <2>1, SilenceAfter
  <2>3. Contract!Begin
    BY <2>1, <2>2, Zenon DEF Contract!Begin, Contract!Resolved, Silent
  <2>4. QED
    BY <2>3, Zenon
<1>2. CASE Frame
  <2>1. active = TRUE /\ UNCHANGED <<active, releasing, forcing>>
    BY <1>0, <1>2, Zenon DEF Flags, Frame
  <2>2. CASE forcing
    <3>1. UNCHANGED <<active, sinceFrame>>
      BY <1>2, <2>2 DEF Frame
    <3>2. Silent' = Silent
      BY <1>0, <3>1, SilenceAfter
    <3>3. QED
      BY <2>1, <3>2, Zenon DEF Silent
  <2>3. CASE ~forcing
    <3>1. sinceFrame' = 0 /\ forcing = FALSE
      BY <1>0, <1>2, <2>3 DEF Frame, Flags
    <3>2. Silent' = FALSE
      BY <1>0, <3>1, SilenceAfter
    <3>3. Contract!Hear
      BY <2>1, <3>1, <3>2, Zenon DEF Contract!Hear, Silent
    <3>4. QED
      BY <3>3, Zenon
  <2>4. QED
    BY <2>2, <2>3
<1>3. ASSUME active, active' = FALSE, ResolveRelease
      PROVE  Contract!SessionNext
  <2>1. active = TRUE /\ releasing' = FALSE /\ forcing' = FALSE
    BY <1>0, <1>3, Zenon DEF Flags, ResolveRelease
  <2>2. Silent' = FALSE
    BY <1>0, <1>3, SilenceAfter
  <2>3. Contract!End
    BY <1>3, <2>1, <2>2, Zenon DEF Contract!End, Contract!Resolved, Silent
  <2>4. QED
    BY <2>3, Zenon
<1>4. CASE Stop
  BY <1>3, <1>4, Zenon DEF Stop
<1>5. ASSUME NEW seconds \in Seconds, Release(seconds)
      PROVE  Contract!SessionNext
  <2>1. releasing' = TRUE /\ forcing' = FALSE /\ UNCHANGED <<active, sinceFrame>>
    BY <1>5, Zenon DEF Release
  <2>2. Silent' = Silent
    BY <1>0, <2>1, SilenceAfter
  <2>3. Contract!Release
    BY <2>1, <2>2, Zenon DEF Contract!Release, Silent
  <2>4. QED
    BY <2>3, Zenon
<1>6. CASE GraceExpires
  <2>1. /\ releasing = TRUE /\ forcing = FALSE
        /\ releasing' = active /\ forcing' = active
        /\ UNCHANGED <<active, sinceFrame>>
    BY <1>0, <1>6, Zenon DEF Flags, GraceExpires, GraceDue
  <2>2. Silent' = Silent
    BY <1>0, <2>1, SilenceAfter
  <2>3. Contract!GraceEnds
    BY <2>1, <2>2, Zenon DEF Contract!GraceEnds, Silent
  <2>4. QED
    BY <2>3, Zenon
<1>7. CASE WatchdogPolls
  <2>1. CASE sinceFrame > FrameTimeout
    BY <1>3, <1>7, <2>1, Zenon DEF WatchdogPolls, PollDue
  <2>2. CASE ~(sinceFrame > FrameTimeout)
    <3>1. UNCHANGED <<active, releasing, forcing, sinceFrame>>
      BY <1>7, <2>2 DEF WatchdogPolls
    <3>2. Silent' = Silent
      BY <1>0, <3>1, SilenceAfter
    <3>3. QED
      BY <3>1, <3>2, Zenon DEF Silent
  <2>3. QED
    BY <2>1, <2>2
<1>8. CASE Tick
  <2>1. UNCHANGED <<active, releasing, forcing>>
    BY <1>8 DEF Tick
  <2>2. Silent => Silent'
    BY <1>0, <1>8, TimingAssumption DEF Silent, Clocks, Tick
  <2>3. CASE Silent' = Silent
    BY <2>1, <2>3, Zenon DEF Silent
  <2>4. CASE Silent' # Silent
    <3>0. Silent \in BOOLEAN /\ Silent' \in BOOLEAN
      BY SilentIsFlag
    <3>1. Silent = FALSE /\ Silent' = TRUE
      BY <2>2, <2>4, <3>0
    <3>2. active = TRUE
      BY <1>0, <1>00, <2>1, <3>1, Zenon DEF Silent, Flags
    <3>3. Contract!FallSilent
      BY <2>1, <3>1, <3>2, Zenon DEF Contract!FallSilent, Silent
    <3>4. QED
      BY <3>3, Zenon
  <2>5. QED
    BY <2>3, <2>4
<1>9. CASE UNCHANGED vars
  <2>1. UNCHANGED <<active, releasing, forcing, sinceFrame>>
    BY <1>9 DEF vars
  <2>2. Silent' = Silent
    BY <1>0, <2>1, SilenceAfter
  <2>3. QED
    BY <2>1, <2>2, Zenon DEF Silent
<1>10. QED
  BY <1>1, <1>2, <1>4, <1>5, <1>6, <1>7, <1>8, <1>9 DEF Next

\* The clock implements the contract of a session that the engine implements too:
\* a release and its grace, and the silence it forces, take the same course in both
\* (async_release, _on_release_grace_expired, handle_frame, _frame_watchdog).
THEOREM ClockKeepsSession == Spec => KeepsSessionContract
<1>1. Init => Contract!SessionInit
  BY Zenon DEF Init, Contract!SessionInit
<1>2. QED
  BY <1>1, SessionStep, Invariance, PTL DEF Spec, KeepsSessionContract, Contract!SessionSpec
=============================================================================
