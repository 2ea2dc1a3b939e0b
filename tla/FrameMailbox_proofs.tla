-------------------------- MODULE FrameMailbox_proofs --------------------------
(***************************************************************************)
(* The mailbox for any number of frames. The inductive invariant says what *)
(* the _scheduled flag means in every interleaving of the two threads, and *)
(* that what waits in the slot is the freshest frame and not yet taken.    *)
(***************************************************************************)
EXTENDS FrameMailbox, TLAPS

\* The flag is set exactly while a callback is queued or about to be, or the
\* refusal of a closed loop has not been noted yet.
ScheduledMeans ==
  /\ scheduled <=> callbacks = 1 \/ putter \in {"waking", "refused"}
  /\ putter \in {"waking", "refused"} => callbacks = 0
  /\ putter = "refused" => closed

\* A frame in the slot is the last one received and newer than any taken.
SlotIsFreshest ==
  /\ taken <= received
  /\ latest # 0 => latest = received /\ taken < received
  /\ latest # 0 /\ ~closed => scheduled

Numbers ==
  /\ received \in Nat /\ latest \in Nat
  /\ coalesced \in Nat /\ callbacks \in 0 .. 1
  /\ taken \in Nat /\ delivering \in Nat /\ handled \in Nat
Flags == scheduled \in BOOLEAN /\ closed \in BOOLEAN
Places == putter \in {"idle", "waking", "refused"}

Inv == /\ Numbers /\ Flags /\ Places
       /\ ScheduledMeans /\ SlotIsFreshest /\ EveryFrameAccountedFor

LEMMA InvInit == Init => Inv
<1> SUFFICES ASSUME Init
             PROVE  Inv
  OBVIOUS
<1>1. Flags
  BY Zenon DEF Init, Flags
<1>2. Numbers /\ Places /\ ScheduledMeans /\ SlotIsFreshest /\ EveryFrameAccountedFor
  BY DEF Init, Numbers, Places, ScheduledMeans, SlotIsFreshest, EveryFrameAccountedFor
<1>3. QED
  BY <1>1, <1>2 DEF Inv

LEMMA FlagsStep == Flags /\ [Next]_vars => Flags'
<1> SUFFICES ASSUME Flags, [Next]_vars
             PROVE  Flags'
  OBVIOUS
<1>1. CASE Put
  BY <1>1, Zenon DEF Flags, Put
<1>2. CASE WakeLoop
  BY <1>2, Zenon DEF Flags, WakeLoop
<1>3. CASE WakeRefused
  BY <1>3, Zenon DEF Flags, WakeRefused
<1>4. CASE Deliver
  BY <1>4, Zenon DEF Flags, Deliver
<1>5. CASE Handle
  BY <1>5, Zenon DEF Flags, Handle
<1>6. CASE CloseLoop
  BY <1>6, Zenon DEF Flags, CloseLoop
<1>7. CASE UNCHANGED vars
  BY <1>7, Zenon DEF Flags, vars
<1>8. QED
  BY <1>1, <1>2, <1>3, <1>4, <1>5, <1>6, <1>7 DEF Next

LEMMA InvStep == Inv /\ [Next]_vars => Inv'
<1> SUFFICES ASSUME Inv, [Next]_vars
             PROVE  Inv'
  OBVIOUS
<1> DEFINE Rest == /\ Numbers /\ Places
                   /\ ScheduledMeans /\ SlotIsFreshest /\ EveryFrameAccountedFor
<1>0. Flags'
  BY FlagsStep DEF Inv
<1> USE DEF Inv, Numbers, Places, ScheduledMeans, SlotIsFreshest, EveryFrameAccountedFor
<1>1. CASE Put
  <2>1. scheduled => Rest'
    BY <1>1 DEF Put
  <2>2. ~scheduled => Rest'
    BY <1>1 DEF Put
  <2>3. Rest'
    BY <2>1, <2>2
  <2>4. QED
    BY <1>0, <2>3
<1>2. CASE WakeLoop
  <2>1. Rest'
    BY <1>2 DEF WakeLoop
  <2>2. QED
    BY <1>0, <2>1
<1>3. CASE WakeRefused
  <2>1. Rest'
    BY <1>3 DEF WakeRefused
  <2>2. QED
    BY <1>0, <2>1
<1>4. CASE Deliver
  <2>1. Rest'
    BY <1>4 DEF Deliver
  <2>2. QED
    BY <1>0, <2>1
<1>5. CASE Handle
  <2>1. Rest'
    BY <1>5 DEF Handle
  <2>2. QED
    BY <1>0, <2>1
<1>6. CASE CloseLoop
  <2>1. Rest'
    BY <1>6 DEF CloseLoop
  <2>2. QED
    BY <1>0, <2>1
<1>7. CASE UNCHANGED vars
  <2>1. Rest'
    BY <1>7 DEF vars
  <2>2. QED
    BY <1>0, <2>1
<1>8. QED
  BY <1>1, <1>2, <1>3, <1>4, <1>5, <1>6, <1>7 DEF Next

\* The inductive invariant holds throughout (put and _deliver in every
\* interleaving).
THEOREM Invariance == Spec => []Inv
BY InvInit, InvStep, PTL DEF Spec

\* The mailbox's variables keep their types.
THEOREM TypeCorrect == Spec => []TypeOK
<1>1. Inv => TypeOK
  BY Zenon DEF Inv, Numbers, Flags, Places, TypeOK
<1>2. QED
  BY <1>1, Invariance, PTL

\* At most one callback is queued or about to be, however many frames arrive
\* while the loop stalls.
THEOREM CallbackIsSingle == Spec => []OneCallback
<1>1. Inv => OneCallback
  BY DEF Inv, Numbers, ScheduledMeans, OneCallback
<1>2. QED
  BY <1>1, Invariance, PTL

\* A frame in the slot always has a callback coming, unless the loop has closed.
THEOREM FrameIsNotStranded == Spec => []NoFrameStranded
<1>1. Inv => NoFrameStranded
  BY DEF Inv, Numbers, ScheduledMeans, SlotIsFreshest, NoFrameStranded
<1>2. QED
  BY <1>1, Invariance, PTL

\* No frame is lost without being counted, and none is counted twice.
THEOREM FramesAddUp == Spec => []EveryFrameAccountedFor
<1>1. Inv => EveryFrameAccountedFor
  BY DEF Inv
<1>2. QED
  BY <1>1, Invariance, PTL

\* The mailbox implements the register of the freshest frame: each take gives
\* the loop the newest frame the DTLS thread has put, once.
THEOREM MailboxRefinesRegister == Spec => TakesFreshest
<1>1. Init => Freshest!RegisterInit
  BY DEF Init, Freshest!RegisterInit
<1>2. Inv /\ [Next]_vars => [Freshest!RegisterNext]_(Freshest!registerVars)
  <2> SUFFICES ASSUME Inv, Next
               PROVE  Freshest!RegisterNext \/ UNCHANGED Freshest!registerVars
    BY DEF vars, Freshest!registerVars
  <2> USE DEF Freshest!RegisterNext, Freshest!registerVars
  <2>1. CASE Put
    BY <2>1 DEF Put, Freshest!Offer
  <2>2. CASE WakeLoop \/ WakeRefused \/ Handle
    BY <2>2 DEF WakeLoop, WakeRefused, Handle
  <2>3. CASE Deliver
    <3>1. CASE latest = 0
      BY <2>3, <3>1 DEF Deliver
    <3>2. CASE latest # 0
      BY <2>3, <3>2 DEF Deliver, Freshest!Take, Inv, SlotIsFreshest
    <3>3. QED
      BY <3>1, <3>2
  <2>4. CASE CloseLoop
    BY <2>4 DEF CloseLoop, Freshest!Close
  <2>5. QED
    BY <2>1, <2>2, <2>3, <2>4 DEF Next
<1>3. QED
  BY <1>1, <1>2, Invariance, PTL DEF Spec, TakesFreshest, Freshest!RegisterSpec
=============================================================================
