--------------------------- MODULE FreshestRegister ---------------------------
(***************************************************************************)
(* What a frame mailbox promises: the consumer takes the freshest frame    *)
(* offered so far, never a frame twice or an older one, until it closes.   *)
(* Frames are numbered in the order they are offered.                      *)
(***************************************************************************)
EXTENDS Naturals

VARIABLES
  offered,  \* the freshest frame offered, 0 before the first
  taken,    \* the frame last taken, 0 before the first
  closed    \* the consumer takes no more

registerVars == <<offered, taken, closed>>

RegisterInit == offered = 0 /\ taken = 0 /\ closed = FALSE

Offer == offered' = offered + 1 /\ UNCHANGED <<taken, closed>>

Take == /\ ~closed
        /\ taken < offered
        /\ taken' = offered
        /\ UNCHANGED <<offered, closed>>

Close == ~closed /\ closed' = TRUE /\ UNCHANGED <<offered, taken>>

RegisterNext == Offer \/ Take \/ Close

RegisterSpec == RegisterInit /\ [][RegisterNext]_registerVars
=============================================================================
