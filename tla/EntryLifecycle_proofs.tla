------------------------- MODULE EntryLifecycle_proofs -------------------------
(***************************************************************************)
(* Theorems about DtlsServer and about EntryLifecycle, which runs it as    *)
(* often as the entry is set up, for any bound on the loop's queue and any *)
(* of the faults.                                                          *)
(***************************************************************************)
EXTENDS EntryLifecycle, TLAPS

-----------------------------------------------------------------------------
(* The DTLS server. Stages ties the coroutine to the thread and to what the *)
(* thread uses; Order says what may still stand before and behind the       *)
(* join's callbacks in the loop's queue, which is what makes a returned     *)
(* stop mean that no frame is on its way.                                   *)

Stages ==
  /\ caller = "idle" => thread = "none" /\ ctx = "none" /\ ~running
  /\ caller = "started" => running /\ thread # "none" /\ ctx = "live"
  /\ caller = "joining" => ~running /\ ctx = "live"
  /\ caller \in {"joining", "joined"} => thread # "none"
  /\ caller \in {"joined", "stopped"} => ~running /\ ~ThreadAlive

Frames == {"put", "deliver"}
Joins  == {"joined", "resume"}

\* Nothing is queued before there is a session.
QueueStarts ==
  /\ caller = "started" /\ thread = "ended" => ready = <<>>
  /\ thread \in {"none", "starting", "binding"} => ready = <<>>
  /\ caller # "joined" => Len(ready) <= Backlog

\* One of the join's callbacks is queued, and only while the stop waits for it.
JoinIsQueuedOnce ==
  /\ \A i \in 1 .. Len(ready) : ready[i] \in Joins => caller = "joined"
  /\ \A i, j \in 1 .. Len(ready) : ready[i] \in Joins /\ ready[j] \in Joins => i = j

\* No put() stands behind the end of the join, no _deliver() behind the wake-up.
FramesComeFirst ==
  /\ \A i, j \in 1 .. Len(ready) : ready[i] = "joined" /\ ready[j] = "put" => j < i
  /\ \A i, j \in 1 .. Len(ready) :
       ready[i] = "resume" => ready[j] # "put" /\ (ready[j] = "deliver" => j < i)
  /\ caller = "stopped" => \A i \in 1 .. Len(ready) : ready[i] \notin Frames

Order == QueueStarts /\ JoinIsQueuedOnce /\ FramesComeFirst

DtlsInv == TypeOK /\ Stages /\ Order

-----------------------------------------------------------------------------
(* What the loop's queue holds after a callback was queued or run *)

LEMMA QueuedLast ==
  ASSUME NEW S, NEW s \in Seq(S), NEW e \in S
  PROVE  /\ Append(s, e) \in Seq(S)
         /\ Len(Append(s, e)) = Len(s) + 1
         /\ \A i \in 1 .. Len(s) + 1 :
              Append(s, e)[i] = IF i <= Len(s) THEN s[i] ELSE e
  OBVIOUS

LEMMA RunFirstQueueLast ==
  ASSUME NEW S, NEW s \in Seq(S), s # <<>>, NEW e \in S
  PROVE  /\ Append(Tail(s), e) \in Seq(S)
         /\ Len(Append(Tail(s), e)) = Len(s)
         /\ \A i \in 1 .. Len(s) :
              Append(Tail(s), e)[i] = IF i < Len(s) THEN s[i + 1] ELSE e
  OBVIOUS

LEMMA RunFirst ==
  ASSUME NEW S, NEW s \in Seq(S), s # <<>>
  PROVE  /\ Tail(s) \in Seq(S)
         /\ Len(Tail(s)) = Len(s) - 1 /\ Len(s) > 0
         /\ Head(s) = s[1]
         /\ \A i \in 1 .. Len(s) - 1 : Tail(s)[i] = s[i + 1]
  OBVIOUS

-----------------------------------------------------------------------------
(* Steps that leave the loop's queue alone *)

LEMMA QuietSteps ==
  ASSUME DtlsInv,
         \/ async_start \/ async_stop \/ OpensSocket \/ Binds \/ LoopsOrEnds \/ Accepts
         \/ Listens \/ HandshakeCompletes \/ HandshakeEnds \/ ReadEnds \/ ClosesSession
         \/ DeadlinePasses \/ TvStep \/ UNCHANGED vars
  PROVE  DtlsInv'
<1> USE DEF DtlsInv, TypeOK, Stages, Order, QueueStarts, JoinIsQueuedOnce, FramesComeFirst,
           ThreadAlive, loop, Frames, Joins
<1>1. CASE async_start
  BY <1>1 DEF async_start
<1>2. CASE async_stop
  <2>1. CASE ThreadAlive
    BY <1>2, <2>1 DEF async_stop, CloseSocket, FreeContext
  <2>2. CASE ~ThreadAlive
    <3>1. ready = <<>>
      BY <1>2, <2>2 DEF async_stop
    <3>2. TypeOK'
      BY <1>2, <2>2 DEF async_stop, CloseSocket, FreeContext
    <3>3. Stages'
      BY <1>2, <2>2 DEF async_stop
    <3>4. ready' = <<>> /\ Len(ready') = 0
      BY <1>2, <3>1 DEF async_stop
    <3>5. Order'
      BY <3>4, BacklogAssumption
    <3> QED  BY <3>2, <3>3, <3>5
  <2> QED  BY <2>1, <2>2
<1>3. CASE OpensSocket
  BY <1>3 DEF OpensSocket
<1>4. CASE Binds
  BY <1>4 DEF Binds
<1>5. CASE LoopsOrEnds
  BY <1>5 DEF LoopsOrEnds
<1>6. CASE Accepts
  BY <1>6 DEF Accepts
<1>7. CASE Listens
  BY <1>7 DEF Listens
<1>8. CASE HandshakeCompletes
  BY <1>8 DEF HandshakeCompletes
<1>9. CASE HandshakeEnds
  BY <1>9 DEF HandshakeEnds
<1>10. CASE ReadEnds
  BY <1>10 DEF ReadEnds
<1>11. CASE ClosesSession
  BY <1>11 DEF ClosesSession
<1>12. CASE DeadlinePasses
  BY <1>12 DEF DeadlinePasses
<1>13. CASE TvStep
  BY <1>13 DEF TvStep, TvConnects, TvSaysGoodbye, TvVanishes
<1>14. CASE UNCHANGED vars
  BY <1>14 DEF vars
<1> QED
  BY <1>1, <1>2, <1>3, <1>4, <1>5, <1>6, <1>7, <1>8, <1>9, <1>10, <1>11, <1>12, <1>13, <1>14

-----------------------------------------------------------------------------
(* Steps that queue a callback, or run one *)

LEMMA JoinReturnsKeeps == DtlsInv /\ JoinReturns => DtlsInv'
<1> SUFFICES ASSUME DtlsInv, JoinReturns PROVE DtlsInv'
  OBVIOUS
<1>1. caller = "joining" /\ caller' = "joined" /\ ~ThreadAlive
  BY DEF JoinReturns
<1>2. UNCHANGED <<running, sock, ctx, thread, overdue, tv, scheduled>>
  BY DEF JoinReturns
<1>3. /\ ready' \in Seq(Callbacks) /\ Len(ready') = Len(ready) + 1
      /\ \A i \in 1 .. Len(ready) + 1 :
           ready'[i] = IF i <= Len(ready) THEN ready[i] ELSE "joined"
  <2>1. "joined" \in Callbacks /\ ready \in Seq(Callbacks)
    BY DEF Callbacks, DtlsInv, TypeOK
  <2> QED  BY <2>1, QueuedLast DEF JoinReturns
<1>4. Len(ready) \in Nat /\ Len(ready) <= Backlog
  BY <1>1 DEF DtlsInv, TypeOK, Order, QueueStarts
<1>5. \A i \in 1 .. Len(ready) : ready[i] \notin Joins
  BY <1>1 DEF DtlsInv, Order, QueueStarts, JoinIsQueuedOnce, FramesComeFirst, Joins, Frames
<1>6. TypeOK'
  BY <1>1, <1>2, <1>3, <1>4, BacklogAssumption DEF DtlsInv, TypeOK
<1>7. Stages'
  BY <1>1, <1>2 DEF DtlsInv, Stages, ThreadAlive
<1>8. thread \notin {"starting", "binding"} /\ thread # "none"
  BY <1>1 DEF DtlsInv, Stages, ThreadAlive
<1>9. Order'
  <2>1. QueueStarts'
    BY <1>1, <1>2, <1>3, <1>4, <1>5, <1>8
       DEF DtlsInv, Order, QueueStarts
  <2>2. JoinIsQueuedOnce'
    BY <1>1, <1>2, <1>3, <1>4, <1>5, <1>8
       DEF DtlsInv, Order, JoinIsQueuedOnce, Joins
  <2>3. FramesComeFirst'
    BY <1>1, <1>2, <1>3, <1>4, <1>5, <1>8
       DEF DtlsInv, Order, FramesComeFirst, Joins, Frames
  <2> QED  BY <2>1, <2>2, <2>3 DEF Order
<1> QED  BY <1>6, <1>7, <1>9 DEF DtlsInv

LEMMA ReadsFrameKeeps == DtlsInv /\ ReadsFrame => DtlsInv'
<1> SUFFICES ASSUME DtlsInv, ReadsFrame PROVE DtlsInv'
  OBVIOUS
<1>1. thread = "reading" /\ thread' \in {"reading", "closing"} /\ overdue' \in BOOLEAN
  BY Zenon DEF ReadsFrame
<1>2. UNCHANGED <<running, sock, ctx, caller, tv, scheduled>>
  BY DEF ReadsFrame
<1>3. /\ ready' \in Seq(Callbacks) /\ Len(ready') = Len(ready) + 1
      /\ \A i \in 1 .. Len(ready) + 1 :
           ready'[i] = IF i <= Len(ready) THEN ready[i] ELSE "put"
  <2>1. "put" \in Callbacks /\ ready \in Seq(Callbacks)
    BY DEF Callbacks, DtlsInv, TypeOK
  <2> QED  BY <2>1, QueuedLast DEF ReadsFrame
<1>4. Len(ready) \in Nat /\ Len(ready) < Backlog
  BY DEF DtlsInv, TypeOK, ReadsFrame
<1>5. caller \in {"started", "joining"}
  BY <1>1 DEF DtlsInv, TypeOK, Stages, ThreadAlive
<1>6. \A i \in 1 .. Len(ready) : ready[i] \notin Joins
  BY <1>5 DEF DtlsInv, Order, QueueStarts, JoinIsQueuedOnce, FramesComeFirst, Joins, Frames
<1>7. TypeOK'
  BY <1>1, <1>2, <1>3, <1>4, BacklogAssumption DEF DtlsInv, TypeOK
<1>8. Stages'
  BY <1>1, <1>2, <1>5 DEF DtlsInv, Stages, ThreadAlive
<1>9. Order'
  <2>1. QueueStarts'
    BY <1>1, <1>2, <1>3, <1>4, <1>5, <1>6, BacklogAssumption
       DEF DtlsInv, Order, QueueStarts
  <2>2. JoinIsQueuedOnce'
    BY <1>1, <1>2, <1>3, <1>4, <1>5, <1>6, BacklogAssumption
       DEF DtlsInv, Order, JoinIsQueuedOnce, Joins
  <2>3. FramesComeFirst'
    BY <1>1, <1>2, <1>3, <1>4, <1>5, <1>6, BacklogAssumption
       DEF DtlsInv, Order, FramesComeFirst, Joins, Frames
  <2> QED  BY <2>1, <2>2, <2>3 DEF Order
<1> QED  BY <1>7, <1>8, <1>9 DEF DtlsInv

\* Dropping the callback that ran leaves the order of the others.
LEMMA OrderAfterFirst ==
  ASSUME DtlsInv, ready # <<>>, ready[1] \in Frames, ready' = Tail(ready),
         UNCHANGED <<caller, thread>>
  PROVE  Order'
<1>1. /\ ready' \in Seq(Callbacks) /\ Len(ready') = Len(ready) - 1 /\ Len(ready) > 0
      /\ Len(ready) \in Nat
      /\ \A i \in 1 .. Len(ready) - 1 : ready'[i] = ready[i + 1]
  BY RunFirst DEF DtlsInv, TypeOK
<1>2. /\ caller # "joined" => Len(ready) <= Backlog
      /\ caller # "stopped"
  BY <1>1 DEF DtlsInv, Order, QueueStarts, FramesComeFirst
<1>3. QueueStarts'
  BY <1>1, <1>2, BacklogAssumption DEF DtlsInv, Order, QueueStarts
<1>4. JoinIsQueuedOnce'
  BY <1>1 DEF DtlsInv, Order, JoinIsQueuedOnce, Joins
<1>5. FramesComeFirst'
  <2>1. ASSUME NEW i \in 1 .. Len(ready'), NEW j \in 1 .. Len(ready')
        PROVE  /\ ready'[i] = "joined" /\ ready'[j] = "put" => j < i
               /\ ready'[i] = "resume" =>
                    ready'[j] # "put" /\ (ready'[j] = "deliver" => j < i)
    <3>1. /\ i + 1 \in 1 .. Len(ready) /\ j + 1 \in 1 .. Len(ready)
          /\ ready'[i] = ready[i + 1] /\ ready'[j] = ready[j + 1]
          /\ j + 1 < i + 1 => j < i
      BY <1>1
    <3> QED  BY <3>1 DEF DtlsInv, Order, FramesComeFirst
  <2> QED  BY <1>2, <2>1 DEF FramesComeFirst
<1> QED  BY <1>3, <1>4, <1>5 DEF Order

LEMMA PutKeeps == DtlsInv /\ Put => DtlsInv'
<1> SUFFICES ASSUME DtlsInv, Put PROVE DtlsInv'
  OBVIOUS
<1>1. UNCHANGED <<running, sock, ctx, thread, overdue, caller, tv>> /\ scheduled' \in BOOLEAN
  BY Zenon DEF Put
<1>2. ready # <<>>
  BY DEF Put, Turn
<1>3. /\ Len(ready) \in Nat /\ Len(ready) > 0 /\ Len(ready) <= Backlog + 1
      /\ ready[1] = "put"
  BY <1>2, RunFirst DEF Put, Turn, DtlsInv, TypeOK
<1>4. Stages'
  BY <1>1 DEF DtlsInv, Stages, ThreadAlive
<1>5. CASE scheduled
  <2>1. ready' = Tail(ready)
    BY <1>5 DEF Put
  <2>2. Order'
    BY <1>1, <1>2, <1>3, <2>1, OrderAfterFirst DEF Frames
  <2>3. ready' \in Seq(Callbacks) /\ Len(ready') = Len(ready) - 1
    BY <1>2, <2>1, RunFirst DEF DtlsInv, TypeOK
  <2>4. TypeOK'
    BY <1>1, <1>3, <2>3, BacklogAssumption DEF DtlsInv, TypeOK
  <2> QED  BY <1>4, <2>2, <2>4 DEF DtlsInv
<1>6. CASE ~scheduled
  <2>1. /\ ready' \in Seq(Callbacks) /\ Len(ready') = Len(ready)
        /\ \A i \in 1 .. Len(ready) :
             ready'[i] = IF i < Len(ready) THEN ready[i + 1] ELSE "deliver"
    <3>1. "deliver" \in Callbacks
      BY DEF Callbacks
    <3>2. ready' = Append(Tail(ready), "deliver")
      BY <1>6 DEF Put
    <3> QED  BY <1>2, <3>1, <3>2, RunFirstQueueLast DEF DtlsInv, TypeOK
  <2>2. TypeOK'
    BY <1>1, <1>3, <2>1, BacklogAssumption DEF DtlsInv, TypeOK
  <2>3. QueueStarts'
    BY <1>1, <1>2, <1>3, <2>1 DEF DtlsInv, Order, QueueStarts
  <2>4. JoinIsQueuedOnce'
    BY <1>1, <1>3, <2>1 DEF DtlsInv, Order, JoinIsQueuedOnce, Joins
  <2>5. caller # "stopped" /\ \A i \in 1 .. Len(ready) : ready[i] # "resume"
    BY <1>3 DEF DtlsInv, Order, FramesComeFirst, Frames
  <2>6. FramesComeFirst'
    <3>1. ASSUME NEW i \in 1 .. Len(ready'), NEW j \in 1 .. Len(ready')
          PROVE  /\ ready'[i] = "joined" /\ ready'[j] = "put" => j < i
                 /\ ready'[i] # "resume"
      <4>1. CASE i = Len(ready) \/ j = Len(ready)
        BY <2>1, <2>5, <4>1
      <4>2. CASE i # Len(ready) /\ j # Len(ready)
        <5>1. /\ i + 1 \in 1 .. Len(ready) /\ j + 1 \in 1 .. Len(ready)
              /\ ready'[i] = ready[i + 1] /\ ready'[j] = ready[j + 1]
              /\ j + 1 < i + 1 => j < i
          BY <2>1, <4>2, <1>3
        <5> QED  BY <2>5, <5>1 DEF DtlsInv, Order, FramesComeFirst
      <4> QED  BY <4>1, <4>2
    <3> QED  BY <1>1, <2>5, <3>1 DEF FramesComeFirst
  <2> QED  BY <1>4, <2>2, <2>3, <2>4, <2>6 DEF DtlsInv, Order
<1> QED  BY <1>5, <1>6

LEMMA DeliverKeeps == DtlsInv /\ Deliver => DtlsInv'
<1> SUFFICES ASSUME DtlsInv, Deliver PROVE DtlsInv'
  OBVIOUS
<1>1. UNCHANGED <<running, sock, ctx, thread, overdue, caller, tv>> /\ scheduled' \in BOOLEAN
  BY Zenon DEF Deliver
<1>2. ready # <<>> /\ ready' = Tail(ready)
  BY DEF Deliver, Turn
<1>3. /\ ready' \in Seq(Callbacks) /\ Len(ready') = Len(ready) - 1
      /\ Len(ready) \in Nat /\ Len(ready) <= Backlog + 1
      /\ ready[1] = "deliver"
  BY <1>2, RunFirst DEF Deliver, Turn, DtlsInv, TypeOK
<1>4. TypeOK'
  BY <1>1, <1>3, BacklogAssumption DEF DtlsInv, TypeOK
<1>5. Stages'
  BY <1>1 DEF DtlsInv, Stages, ThreadAlive
<1>6. Order'
  BY <1>1, <1>2, <1>3, OrderAfterFirst DEF Frames
<1> QED  BY <1>4, <1>5, <1>6 DEF DtlsInv

LEMMA FutureDoneKeeps == DtlsInv /\ FutureDone => DtlsInv'
<1> SUFFICES ASSUME DtlsInv, FutureDone PROVE DtlsInv'
  OBVIOUS
<1>1. UNCHANGED <<running, sock, ctx, thread, overdue, caller, tv, scheduled>>
  BY DEF FutureDone
<1>2. /\ Tail(ready) \in Seq(Callbacks) /\ Len(Tail(ready)) = Len(ready) - 1 /\ Len(ready) > 0
      /\ ready[1] = "joined" /\ ready # <<>>
      /\ \A i \in 1 .. Len(ready) - 1 : Tail(ready)[i] = ready[i + 1]
  BY RunFirst DEF FutureDone, Turn, DtlsInv, TypeOK
<1>3. Len(ready) \in Nat /\ Len(ready) <= Backlog + 1
  BY DEF DtlsInv, TypeOK
<1>4. caller = "joined"
  BY <1>2, <1>3 DEF DtlsInv, Order, QueueStarts, JoinIsQueuedOnce, FramesComeFirst, Joins, Frames
<1>5. \A i \in 2 .. Len(ready) : ready[i] \notin Joins /\ ready[i] # "put"
  BY <1>2, <1>3 DEF DtlsInv, Order, QueueStarts, JoinIsQueuedOnce, FramesComeFirst, Joins, Frames
<1>6. /\ ready' \in Seq(Callbacks) /\ Len(ready') = Len(ready)
      /\ \A i \in 1 .. Len(ready) :
           ready'[i] = IF i < Len(ready) THEN ready[i + 1] ELSE "resume"
  <2>1. "resume" \in Callbacks
    BY DEF Callbacks
  <2>2. ready' = Append(Tail(ready), "resume")
    BY DEF FutureDone
  <2>3. ready # <<>>
    BY <1>2
  <2> QED  BY <2>1, <2>2, <2>3, RunFirstQueueLast DEF DtlsInv, TypeOK
<1>7. TypeOK'
  BY <1>1, <1>3, <1>6, BacklogAssumption DEF DtlsInv, TypeOK
<1>8. Stages'
  BY <1>1 DEF DtlsInv, Stages, ThreadAlive
<1>9. Order'
  <2>1. QueueStarts'
    BY <1>1, <1>2, <1>3, <1>4, <1>5, <1>6, BacklogAssumption
       DEF DtlsInv, Order, QueueStarts
  <2>2. JoinIsQueuedOnce'
    BY <1>1, <1>2, <1>3, <1>4, <1>5, <1>6, BacklogAssumption
       DEF DtlsInv, Order, JoinIsQueuedOnce, Joins
  <2>3. FramesComeFirst'
    BY <1>1, <1>2, <1>3, <1>4, <1>5, <1>6, BacklogAssumption
       DEF DtlsInv, Order, FramesComeFirst, Joins, Frames
  <2> QED  BY <2>1, <2>2, <2>3 DEF Order
<1> QED  BY <1>7, <1>8, <1>9 DEF DtlsInv

LEMMA StopResumesKeeps == DtlsInv /\ StopResumes => DtlsInv'
<1> SUFFICES ASSUME DtlsInv, StopResumes PROVE DtlsInv'
  OBVIOUS
<1>1. /\ UNCHANGED <<running, sock, thread, overdue, tv, scheduled>>
      /\ caller' = "stopped" /\ ctx' \in {"none", "live", "freed"}
  BY DEF StopResumes, FreeContext, DtlsInv, TypeOK
<1>2. /\ ready' \in Seq(Callbacks) /\ Len(ready') = Len(ready) - 1 /\ Len(ready) > 0
      /\ ready[1] = "resume" /\ ready # <<>>
      /\ \A i \in 1 .. Len(ready) - 1 : ready'[i] = ready[i + 1]
  BY RunFirst DEF StopResumes, Turn, DtlsInv, TypeOK
<1>3. Len(ready) \in Nat /\ Len(ready) <= Backlog + 1
  BY DEF DtlsInv, TypeOK
<1>4. caller = "joined"
  BY <1>2, <1>3 DEF DtlsInv, Order, QueueStarts, JoinIsQueuedOnce, FramesComeFirst, Joins, Frames
<1>5. \A i \in 2 .. Len(ready) : ready[i] \notin Joins /\ ready[i] \notin Frames
  BY <1>2, <1>3 DEF DtlsInv, Order, QueueStarts, JoinIsQueuedOnce, FramesComeFirst, Joins, Frames
<1>6. \A i \in 1 .. Len(ready') : ready'[i] \notin Joins /\ ready'[i] \notin Frames
  BY <1>2, <1>3, <1>5
<1>7. TypeOK'
  BY <1>1, <1>2, <1>3, BacklogAssumption DEF DtlsInv, TypeOK
<1>8. Stages'
  BY <1>1, <1>4 DEF DtlsInv, Stages, ThreadAlive
<1>9. thread \notin {"none", "starting", "binding"}
  BY <1>2, <1>3, <1>4 DEF DtlsInv, Order, QueueStarts, JoinIsQueuedOnce, FramesComeFirst, Joins, Frames
<1>10. Order'
  <2>1. QueueStarts'
    BY <1>1, <1>2, <1>3, <1>6, <1>9, BacklogAssumption
       DEF DtlsInv, Order, QueueStarts
  <2>2. JoinIsQueuedOnce'
    BY <1>1, <1>2, <1>3, <1>6, <1>9, BacklogAssumption
       DEF DtlsInv, Order, JoinIsQueuedOnce, Joins
  <2>3. FramesComeFirst'
    BY <1>1, <1>2, <1>3, <1>6, <1>9, BacklogAssumption
       DEF DtlsInv, Order, FramesComeFirst, Joins, Frames
  <2> QED  BY <2>1, <2>2, <2>3 DEF Order
<1> QED  BY <1>7, <1>8, <1>10 DEF DtlsInv

-----------------------------------------------------------------------------

LEMMA InitEstablishes == Init => DtlsInv
<1> SUFFICES ASSUME Init PROVE DtlsInv
  OBVIOUS
<1>1. ready = <<>> /\ Len(ready) = 0 /\ ready \in Seq(Callbacks)
  BY DEF Init
<1>2. TypeOK
  <2>1. Len(ready) <= Backlog + 1
    BY <1>1, BacklogAssumption
  <2> QED  BY <1>1, <2>1, Zenon DEF Init, TypeOK
<1>3. Stages
  BY DEF Init, Stages
<1>4. Order
  BY <1>1, BacklogAssumption DEF Order, QueueStarts, JoinIsQueuedOnce, FramesComeFirst
<1> QED  BY <1>2, <1>3, <1>4 DEF DtlsInv

LEMMA InvMeansProperties ==
  DtlsInv => ThreadEndsWithStop /\ NoFrameAfterStop /\ ContextOutlivesUse
<1>1. DtlsInv => ThreadEndsWithStop
  BY DEF DtlsInv, Stages, ThreadEndsWithStop
<1>2. DtlsInv => NoFrameAfterStop
  BY DEF DtlsInv, TypeOK, Order, FramesComeFirst, Frames, NoFrameAfterStop
<1>3. DtlsInv => ContextOutlivesUse
  BY DEF DtlsInv, TypeOK, Stages, ThreadAlive, ContextOutlivesUse
<1> QED  BY <1>1, <1>2, <1>3

\* Stages and Order hold in every reachable state.
THEOREM Invariance == Spec => []DtlsInv
<1>1. DtlsInv /\ [Next]_vars => DtlsInv'
  BY QuietSteps, JoinReturnsKeeps, ReadsFrameKeeps, PutKeeps, DeliverKeeps, FutureDoneKeeps,
     StopResumesKeeps DEF Next, LoopStep, ThreadStep
<1> QED  BY <1>1, InitEstablishes, PTL DEF Spec

\* The type invariant, with the loop's queue bounded by the frames let into it.
THEOREM TypeCorrect == Spec => []TypeOK
<1>1. DtlsInv => TypeOK
  BY DEF DtlsInv
<1> QED  BY <1>1, Invariance, PTL

\* async_stop returns only after the thread has ended.
THEOREM ThreadIsJoined == Spec => []ThreadEndsWithStop
BY InvMeansProperties, Invariance, PTL

\* When async_stop returns, no frame is left on its way through the loop to the
\* engine, however many the thread dispatched while it was being joined.
THEOREM LoopIsDrained == Spec => []NoFrameAfterStop
BY InvMeansProperties, Invariance, PTL

\* The thread never uses an SSL context or a PSK callback that was freed.
THEOREM ContextIsHeld == Spec => []ContextOutlivesUse
BY InvMeansProperties, Invariance, PTL

-----------------------------------------------------------------------------
(* The mailbox's flag and the loop's queue *)

\* Another callback was queued.
LEMMA FlagAfterQueued ==
  ASSUME DtlsInv, FlagMeansDelivery, NEW e \in Callbacks, e # "deliver",
         ready' = Append(ready, e), UNCHANGED scheduled
  PROVE  FlagMeansDelivery'
<1>1. /\ Len(ready') = Len(ready) + 1
      /\ \A i \in 1 .. Len(ready) + 1 : ready'[i] = IF i <= Len(ready) THEN ready[i] ELSE e
  BY QueuedLast DEF DtlsInv, TypeOK
<1>2. Len(ready) \in Nat
  BY DEF DtlsInv, TypeOK
<1>3. QED
  BY <1>1, <1>2 DEF FlagMeansDelivery

\* The first callback has run, and queued another one perhaps.
LEMMA FlagAfterRun ==
  ASSUME DtlsInv, FlagMeansDelivery, ready # <<>>, Head(ready) # "deliver", UNCHANGED scheduled,
         \/ ready' = Tail(ready)
         \/ \E e \in Callbacks \ {"deliver"} : ready' = Append(Tail(ready), e)
  PROVE  FlagMeansDelivery'
<1>1. /\ Len(ready) \in Nat /\ Len(ready) > 0 /\ ready[1] # "deliver"
      /\ Len(Tail(ready)) = Len(ready) - 1
      /\ \A i \in 1 .. Len(ready) - 1 : Tail(ready)[i] = ready[i + 1]
  BY RunFirst DEF DtlsInv, TypeOK
<1>2. CASE ready' = Tail(ready)
  BY <1>1, <1>2 DEF FlagMeansDelivery
<1>3. ASSUME NEW e \in Callbacks \ {"deliver"}, ready' = Append(Tail(ready), e)
      PROVE  FlagMeansDelivery'
  <2>1. /\ Len(ready') = Len(ready)
        /\ \A i \in 1 .. Len(ready) : ready'[i] = IF i < Len(ready) THEN ready[i + 1] ELSE e
    BY <1>3, RunFirstQueueLast DEF DtlsInv, TypeOK
  <2>2. e # "deliver"
    BY <1>3
  <2>3. \A i \in 1 .. Len(ready) : ready'[i] = "deliver" => i < Len(ready) /\ ready[i + 1] = "deliver"
    BY <2>1, <2>2
  <2>4. scheduled' => \E i \in 1 .. Len(ready') : ready'[i] = "deliver"
    <3>1. SUFFICES ASSUME scheduled PROVE \E i \in 1 .. Len(ready') : ready'[i] = "deliver"
      OBVIOUS
    <3>2. PICK i \in 1 .. Len(ready) : ready[i] = "deliver"
      BY <3>1 DEF FlagMeansDelivery
    <3>3. i - 1 \in 1 .. Len(ready) /\ i - 1 < Len(ready) /\ (i - 1) + 1 = i
      BY <1>1, <3>2
    <3>4. QED
      BY <2>1, <3>2, <3>3
  <2>5. \A i, j \in 1 .. Len(ready') :
          ready'[i] = "deliver" /\ ready'[j] = "deliver" => scheduled' /\ i = j
    BY <1>1, <2>1, <2>3 DEF FlagMeansDelivery
  <2>6. QED
    BY <2>4, <2>5 DEF FlagMeansDelivery
<1>4. QED
  BY <1>2, <1>3

LEMMA FlagAfterLoop == DtlsInv /\ FlagMeansDelivery /\ LoopStep => FlagMeansDelivery'
<1> SUFFICES ASSUME DtlsInv, FlagMeansDelivery, LoopStep
             PROVE  FlagMeansDelivery'
  OBVIOUS
<1>1. ready # <<>>
  BY DEF LoopStep, Put, Deliver, FutureDone, StopResumes, Turn
<1>2. /\ Len(ready) \in Nat /\ Len(ready) > 0 /\ Head(ready) = ready[1]
      /\ Len(Tail(ready)) = Len(ready) - 1
      /\ \A i \in 1 .. Len(ready) - 1 : Tail(ready)[i] = ready[i + 1]
  BY <1>1, RunFirst DEF DtlsInv, TypeOK
<1>3. CASE Put /\ scheduled
  BY <1>1, <1>3, FlagAfterRun DEF Put, Turn, DtlsInv, TypeOK
<1>4. CASE Put /\ ~scheduled
  <2>1. ready' = Append(Tail(ready), "deliver") /\ scheduled'
    BY <1>4 DEF Put
  <2>2. /\ Len(ready') = Len(ready)
        /\ \A i \in 1 .. Len(ready) :
             ready'[i] = IF i < Len(ready) THEN ready[i + 1] ELSE "deliver"
    <3>1. "deliver" \in Callbacks
      BY DEF Callbacks
    <3>2. QED
      BY <1>1, <2>1, <3>1, RunFirstQueueLast DEF DtlsInv, TypeOK
  <2>3. \A i \in 1 .. Len(ready) : ready[i] # "deliver"
    BY <1>4 DEF FlagMeansDelivery
  <2>4. QED
    BY <1>2, <2>1, <2>2, <2>3 DEF FlagMeansDelivery
<1>5. CASE Deliver
  <2>1. ready[1] = "deliver" /\ ready' = Tail(ready) /\ ~scheduled'
    BY <1>2, <1>5 DEF Deliver, Turn
  <2>2. \A i \in 1 .. Len(ready) : ready[i] = "deliver" => i = 1
    BY <1>2, <2>1 DEF FlagMeansDelivery
  <2>3. QED
    BY <1>2, <2>1, <2>2 DEF FlagMeansDelivery
<1>6. CASE FutureDone
  <2>1. "resume" \in Callbacks \ {"deliver"}
    BY DEF Callbacks
  <2>2. QED
    BY <1>1, <1>6, <2>1, FlagAfterRun DEF FutureDone, Turn
<1>7. CASE StopResumes
  BY <1>1, <1>7, FlagAfterRun DEF StopResumes, Turn
<1>8. QED
  BY <1>3, <1>4, <1>5, <1>6, <1>7 DEF LoopStep

\* By itself the server keeps the flag right.
LEMMA FlagAfterServer ==
  ASSUME DtlsInv, FlagMeansDelivery,
         \/ async_start \/ async_stop \/ JoinReturns \/ LoopStep \/ ThreadStep
         \/ DeadlinePasses \/ TvStep \/ UNCHANGED vars
  PROVE  FlagMeansDelivery'
<1>1. CASE UNCHANGED loop
  BY <1>1 DEF loop, FlagMeansDelivery
<1>2. CASE JoinReturns
  BY <1>2, FlagAfterQueued DEF JoinReturns, Callbacks
<1>3. CASE ReadsFrame
  BY <1>3, FlagAfterQueued DEF ReadsFrame, Callbacks
<1>4. CASE async_start \/ async_stop \/ DeadlinePasses \/ TvStep \/ UNCHANGED vars
  BY <1>1, <1>4 DEF async_start, async_stop, DeadlinePasses, TvStep, vars, loop
<1>5. CASE ThreadStep
  BY <1>1, <1>3, <1>5 DEF ThreadStep, OpensSocket, Binds, LoopsOrEnds, Accepts, Listens,
     HandshakeCompletes, HandshakeEnds, ReadEnds, ClosesSession
<1>6. QED
  BY <1>2, <1>4, <1>5, FlagAfterLoop

-----------------------------------------------------------------------------
(* The entry. LifeInv says, for every state of the entry and every await of  *)
(* a start or a stop, what is up and what is down; DtlsInv what a stopped    *)
(* server leaves. InOrder holds as long as no stop overtakes a start, the    *)
(* rest whatever overlaps. What a host keeps of a request is its own affair. *)

Down == http = "down" /\ mdns = FALSE /\ (~Hosted => request = "none" /\ session = FALSE)

NotServing == caller \in {"idle", "stopped"}

\* A start under way, or to come
Starting ==
  /\ entry \in {"not_loaded", "retry"} =>
       NotServing /\ listening = FALSE /\ starter # "http" /\ stopper = "none"
  /\ starter = "http" => caller = "idle" /\ stopper = "none" /\ ha = "running"
  /\ listening = TRUE => ha # "running"
  /\ listening = TRUE /\ stopper = "none" /\ ha = "starting" => caller = "idle"

\* A stop under way
Stopping ==
  /\ stopper # "none" =>
       \/ entry = "unloading" /\ ha \in {"starting", "running"}
       \/ entry = "loaded" /\ ha = "stopping"
  /\ stopper \in {"http", "mdns", "restoring"} => caller = "stopped"
  /\ stopper = "http" => http # "up"
  /\ stopper \in {"mdns", "restoring"} => http = "down"
  /\ stopper = "restoring" /\ ~Hosted => session = FALSE
  /\ entry = "unloading" \/ ha = "stopping" => stopper # "none"
  /\ http = "down" /\ ~Hosted => request = "none"

\* An entry whose starts are over before they are stopped
InOrder ==
  /\ entry # "failed"
  /\ entry \in {"not_loaded", "retry"} => Down /\ starter = "none"
  /\ ha = "stopped" => NotServing /\ Down /\ starter = "none" /\ stopper = "none"
  /\ entry = "setting_up" => starter # "none"
  /\ starter # "none" =>
       /\ stopper = "none" /\ listening = FALSE /\ mdns = FALSE /\ ha = "running"
       /\ entry \in {"setting_up", "loaded"}
  /\ starter = "http" \/ listening = TRUE \/ stopper = "restoring" => Down

LifeInv == LifecycleTypeOK /\ DtlsInv /\ Starting /\ Stopping /\ (~Overlap => InOrder)

-----------------------------------------------------------------------------
(* The DTLS server inside *)

\* A server that is not started, or stopped, has left nothing in the loop.
LEMMA StoppedServerIsGone ==
  ASSUME DtlsInv, NotServing
  PROVE  ~ThreadAlive /\ Frameless /\ ready = <<>>
<1>1. ready \in Seq(Callbacks) /\ Len(ready) \in Nat
  BY DEF DtlsInv, TypeOK
<1>2. ~ThreadAlive
  BY DEF DtlsInv, Stages, NotServing, ThreadAlive
<1>3. ready = <<>>
  <2>1. CASE caller = "idle"
    BY <2>1 DEF DtlsInv, Stages, Order, QueueStarts
  <2>2. CASE caller = "stopped"
    <3>1. \A i \in 1 .. Len(ready) : ready[i] \notin Frames /\ ready[i] \notin Joins
      BY <2>2 DEF DtlsInv, Order, FramesComeFirst, JoinIsQueuedOnce
    <3>2. \A i \in 1 .. Len(ready) : ready[i] \in Callbacks
      BY <1>1
    <3>3. Len(ready) = 0
      BY <1>1, <3>1, <3>2 DEF Frames, Joins, Callbacks
    <3>4. QED
      BY <1>1, <3>3
  <2>3. QED
    BY <2>1, <2>2 DEF NotServing
<1>4. QED
  BY <1>2, <1>3 DEF Frameless

\* The servers of a new setup start as they do in an empty process.
LEMMA FreshServers ==
  ASSUME DtlsInv, NotServing, NewServers
  PROVE  DtlsInv' /\ caller' = "idle"
<1>1. ready = <<>> /\ ready' = <<>>
  BY StoppedServerIsGone DEF NewServers
<1>2. ready' \in Seq(Callbacks) /\ Len(ready') = 0 /\ Len(ready') <= Backlog
  BY <1>1, BacklogAssumption
<1>3. TypeOK'
  <2>1. tv' \in {"away", "hello", "streaming", "goodbye"}
    BY DEF NewServers, DtlsInv, TypeOK
  <2>2. Len(ready') <= Backlog + 1
    BY <1>2, BacklogAssumption
  <2>3. QED
    BY <1>2, <2>1, <2>2 DEF NewServers, TypeOK
<1>4. Stages' /\ caller' = "idle"
  BY DEF NewServers, Stages
<1>5. Order'
  BY <1>1, <1>2 DEF Order, QueueStarts, JoinIsQueuedOnce, FramesComeFirst
<1>6. QED
  BY <1>3, <1>4, <1>5 DEF DtlsInv

\* By itself the server moves only a stop that waits for the thread.
LEMMA ServerSteps ==
  ASSUME DtlsInv, JoinReturns \/ LoopStep \/ ThreadStep \/ DeadlinePasses \/ TvStep
  PROVE  DtlsInv' /\ (NotServing => caller' = caller) /\ (caller = "started" => caller' = caller)
<1>1. CASE JoinReturns
  BY <1>1, JoinReturnsKeeps DEF JoinReturns, NotServing
<1>2. CASE LoopStep
  <2>1. CASE Put
    BY <2>1, PutKeeps DEF Put
  <2>2. CASE Deliver
    BY <2>2, DeliverKeeps DEF Deliver
  <2>3. CASE FutureDone
    BY <2>3, FutureDoneKeeps DEF FutureDone
  <2>4. CASE StopResumes
    <3>1. ready \in Seq(Callbacks) /\ ready # <<>> /\ Head(ready) = "resume"
      BY <2>4 DEF StopResumes, Turn, DtlsInv, TypeOK
    <3>2. Len(ready) \in Nat /\ Len(ready) > 0 /\ ready[1] = "resume"
      BY <3>1, RunFirst
    <3>3. caller = "joined"
      BY <3>2 DEF DtlsInv, Order, JoinIsQueuedOnce, Joins
    <3>4. QED
      BY <2>4, <3>3, StopResumesKeeps DEF NotServing
  <2>5. QED
    BY <1>2, <2>1, <2>2, <2>3, <2>4 DEF LoopStep
<1>3. CASE ThreadStep
  <2>1. DtlsInv'
    BY <1>3, QuietSteps, ReadsFrameKeeps DEF ThreadStep
  <2>2. caller' = caller
    BY <1>3 DEF ThreadStep, OpensSocket, Binds, LoopsOrEnds, Accepts, Listens,
                HandshakeCompletes, HandshakeEnds, ReadsFrame, ReadEnds, ClosesSession
  <2>3. QED
    BY <2>1, <2>2
<1>4. CASE DeadlinePasses \/ TvStep
  BY <1>4, QuietSteps DEF DeadlinePasses, TvStep
<1>5. QED
  BY <1>1, <1>2, <1>3, <1>4

-----------------------------------------------------------------------------
(* The steps of the entry *)

LEMMA SetupKeeps == LifeInv /\ async_setup_entry => LifeInv'
<1> SUFFICES ASSUME LifeInv, async_setup_entry
             PROVE  LifeInv'
  OBVIOUS
<1>1. NotServing /\ starter # "http" /\ stopper = "none"
  BY DEF LifeInv, Starting, async_setup_entry
<1>2. DtlsInv' /\ caller' = "idle"
  BY <1>1, FreshServers DEF LifeInv, async_setup_entry
<1>3. CASE ha = "running"
  BY <1>1, <1>2, <1>3 DEF LifeInv, LifecycleTypeOK, DtlsInv, async_setup_entry, Starting, Stopping, InOrder, Down, NotServing
<1>4. CASE ha = "starting"
  BY <1>1, <1>2, <1>4 DEF LifeInv, LifecycleTypeOK, DtlsInv, async_setup_entry, Starting, Stopping, InOrder, Down, NotServing
<1>5. QED
  BY <1>3, <1>4 DEF async_setup_entry, HaIsUp

LEMMA HaStartsKeeps == LifeInv /\ HaStarts => LifeInv'
<1> SUFFICES ASSUME LifeInv, HaStarts
             PROVE  LifeInv'
  OBVIOUS
<1>1. DtlsInv' /\ caller' = caller
  BY QuietSteps DEF LifeInv, HaStarts, vars
<1>2. LifecycleTypeOK' /\ Stopping'
  <2>1. TypeOK'
    BY <1>1 DEF DtlsInv
  <2>2. LifecycleTypeOK'
    <3>1. ha' = "running" /\ listening' = FALSE /\ starter' \in {"none", "http"}
      BY DEF HaStarts
    <3>2. UNCHANGED <<entry, reloading, stopper, http, mdns, taken, request, session>>
      BY DEF HaStarts
    <3>3. ha' \in {"starting", "running", "stopping", "stopped"} /\ listening' \in BOOLEAN
          /\ starter' \in {"none", "http", "mdns"}
      BY <3>1, Zenon
    <3>4. QED
      BY <2>1, <3>2, <3>3 DEF LifeInv, LifecycleTypeOK
  <2>3. Stopping'
    BY <1>1 DEF LifeInv, HaStarts, Settled, Stopping
  <2>4. QED
    BY <2>2, <2>3
<1>3. Starting'
  <2>1. /\ ha' = "running" /\ listening' = FALSE /\ stopper = "none" /\ UNCHANGED <<entry, stopper>>
        /\ starter' = (IF listening THEN "http" ELSE "none")
    BY DEF HaStarts, Settled
  <2>2. listening = TRUE => caller = "idle"
    BY <2>1 DEF LifeInv, Starting, HaStarts
  <2>3. entry \in {"not_loaded", "retry"} => starter' # "http" /\ NotServing
    BY <2>1, <2>2 DEF LifeInv, Starting
  <2>4. QED
    BY <1>1, <2>1, <2>2, <2>3 DEF LifeInv, LifecycleTypeOK, Starting, NotServing
<1>4. ~Overlap => InOrder'
  BY <1>1 DEF LifeInv, LifecycleTypeOK, HaStarts, Settled, Starting, Stopping, InOrder, Down,
              NotServing
<1>5. QED
  BY <1>1, <1>2, <1>3, <1>4 DEF LifeInv

LEMMA StartsKeeps == LifeInv /\ Starts => LifeInv'
<1> SUFFICES ASSUME LifeInv, Starts
             PROVE  LifeInv'
  OBVIOUS
<1>1. CASE BindsHttp
  <2>1. DtlsInv' /\ caller' = "started"
    BY <1>1, QuietSteps DEF LifeInv, BindsHttp, async_start
  <2>2. QED
    BY <1>1, <2>1 DEF LifeInv, LifecycleTypeOK, DtlsInv, BindsHttp, Starting, Stopping, InOrder,
                      Down, NotServing
<1>2. CASE HttpBindFails
  <2>1. caller = "idle"
    BY <1>2 DEF LifeInv, Starting, HttpBindFails
  <2>2. DtlsInv' /\ caller' = "stopped"
    BY <1>2, <2>1, QuietSteps DEF LifeInv, HttpBindFails, async_stop, DtlsInv, Stages, ThreadAlive
  <2>3. QED
    BY <1>2, <2>1, <2>2 DEF LifeInv, LifecycleTypeOK, DtlsInv, HttpBindFails, Starting, Stopping, InOrder, Down, NotServing
<1>3. CASE Advertises
  <2>1. DtlsInv' /\ caller' = caller
    BY <1>3, QuietSteps DEF LifeInv, Advertises, vars
  <2>2. QED
    BY <1>3, <2>1 DEF LifeInv, LifecycleTypeOK, DtlsInv, Advertises, Starting, Stopping, InOrder,
                      Down, NotServing
<1>4. QED
  BY <1>1, <1>2, <1>3 DEF Starts

LEMMA EndsKeep ==
  LifeInv /\ ((\E again \in BOOLEAN : async_unload_entry(again)) \/ RetryCancelled \/ HaStops)
    => LifeInv'
<1> SUFFICES ASSUME LifeInv,
                    (\E again \in BOOLEAN : async_unload_entry(again)) \/ RetryCancelled \/ HaStops
             PROVE  LifeInv'
  OBVIOUS
<1>1. DtlsInv' /\ UNCHANGED caller
  BY QuietSteps DEF LifeInv, async_unload_entry, RetryCancelled, HaStops, vars
<1>2. CASE \E again \in BOOLEAN : async_unload_entry(again)
  BY <1>1, <1>2 DEF LifeInv, LifecycleTypeOK, DtlsInv, async_unload_entry, MayStop, Settled,
                    HaIsUp, Starting, Stopping, InOrder, Down, NotServing
<1>3. CASE RetryCancelled
  BY <1>1, <1>3 DEF LifeInv, LifecycleTypeOK, DtlsInv, RetryCancelled, Starting, Stopping, InOrder, Down, NotServing
<1>4. CASE HaStops
  BY <1>1, <1>4 DEF LifeInv, LifecycleTypeOK, DtlsInv, HaStops, MayStop, Settled, HaIsUp, 
                    Starting, Stopping, InOrder, Down, NotServing
<1>5. QED
  BY <1>2, <1>3, <1>4

LEMMA StopsKeep == LifeInv /\ Stops => LifeInv'
<1> SUFFICES ASSUME LifeInv, Stops
             PROVE  LifeInv'
  OBVIOUS
<1>1. CASE StopsDtls
  <2>1. DtlsInv' /\ caller' \in {"joining", "stopped"}
    BY <1>1, QuietSteps DEF LifeInv, StopsDtls, async_stop
  <2>2. UNCHANGED entryVars /\ stopper = "dtls"
    BY <1>1 DEF StopsDtls
  <2>3. NotServing => NotServing'
    <3>1. CASE caller = "idle"
      BY <1>1, <3>1 DEF StopsDtls, async_stop, LifeInv, DtlsInv, Stages, ThreadAlive, NotServing
    <3>2. QED
      BY <1>1, <3>1 DEF StopsDtls, async_stop, NotServing
  <2>4. QED
    BY <2>1, <2>2, <2>3 DEF LifeInv, LifecycleTypeOK, DtlsInv, entryVars, Starting, Stopping, InOrder, Down
<1>2. CASE ClosesHttp \/ HttpIsDown \/ Withdraws \/ Restored
  <2>1. DtlsInv' /\ caller' = caller
    BY <1>2, QuietSteps DEF LifeInv, ClosesHttp, HttpIsDown, Withdraws, Restored, IsDown, vars
  <2>2. CASE ClosesHttp
    BY <2>1, <2>2 DEF LifeInv, LifecycleTypeOK, DtlsInv, ClosesHttp, Starting, Stopping, InOrder,
                      Down, NotServing
  <2>3. CASE HttpIsDown
    BY <2>1, <2>3 DEF LifeInv, LifecycleTypeOK, DtlsInv, HttpIsDown, Starting, Stopping, InOrder,
                      Down, NotServing
  <2>4. CASE Withdraws
    <3>1. LifecycleTypeOK'
      BY <2>1, <2>4 DEF LifeInv, LifecycleTypeOK, DtlsInv, Withdraws, IsDown
    <3>2. Starting' /\ Stopping'
      BY <2>1, <2>4 DEF LifeInv, LifecycleTypeOK, Withdraws, IsDown, Starting, Stopping, NotServing
    <3>3. ~Overlap => InOrder'
      BY <2>1, <2>4 DEF LifeInv, LifecycleTypeOK, Withdraws, IsDown, Starting, Stopping, InOrder, Down,
                       NotServing
    <3>4. QED
      BY <2>1, <3>1, <3>2, <3>3 DEF LifeInv
  <2>5. CASE Restored
    <3>1. LifecycleTypeOK'
      BY <2>1, <2>5 DEF LifeInv, LifecycleTypeOK, DtlsInv, Restored, IsDown
    <3>2. Starting' /\ Stopping'
      BY <2>1, <2>5 DEF LifeInv, LifecycleTypeOK, Restored, IsDown, Starting, Stopping, NotServing
    <3>3. ~Overlap => InOrder'
      BY <2>1, <2>5 DEF LifeInv, LifecycleTypeOK, Restored, IsDown, Starting, Stopping, InOrder, Down,
                       NotServing
    <3>4. QED
      BY <2>1, <3>1, <3>2, <3>3 DEF LifeInv
  <2>6. QED
    BY <1>2, <2>2, <2>3, <2>4, <2>5
<1>3. QED
  BY <1>1, <1>2 DEF Stops

LEMMA WorldKeeps ==
  ASSUME LifeInv,
         \/ \E action \in {"start", "stop"} : RequestComes(action)
         \/ RequestEnds \/ SessionTimesOut \/ PortChangesHands \/ UNCHANGED lifecycleVars
  PROVE  LifeInv'
<1>1. DtlsInv' /\ UNCHANGED caller
  BY QuietSteps DEF LifeInv, RequestComes, RequestEnds, SessionTimesOut, PortChangesHands, vars,
                    lifecycleVars
<1>2. CASE \E action \in {"start", "stop"} : RequestComes(action)
  BY <1>1, <1>2 DEF LifeInv, LifecycleTypeOK, DtlsInv, RequestComes, Starting, Stopping, InOrder,
                    Down, NotServing
<1>3. CASE RequestEnds
  <2>1. session' \in BOOLEAN
    BY <1>3 DEF RequestEnds, LifeInv, LifecycleTypeOK
  <2>2. /\ request # "none" /\ request' = "none"
        /\ UNCHANGED <<ha, entry, reloading, listening, starter, stopper, http, mdns, taken>>
    BY <1>3 DEF RequestEnds
  <2>3. LifecycleTypeOK'
    BY <1>1, <2>1, <2>2 DEF LifeInv, LifecycleTypeOK, DtlsInv
  <2>4. QED
    BY <1>1, <2>2, <2>3 DEF LifeInv, Starting, Stopping, InOrder, Down, NotServing
<1>4. CASE SessionTimesOut
  <2>1. session' = FALSE
    BY <1>4 DEF SessionTimesOut
  <2>2. session' \in BOOLEAN
    BY <2>1
  <2>3. UNCHANGED <<ha, entry, reloading, listening, starter, stopper, http, mdns, taken, request>>
    BY <1>4 DEF SessionTimesOut
  <2>4. LifecycleTypeOK'
    BY <1>1, <2>2, <2>3 DEF LifeInv, LifecycleTypeOK, DtlsInv
  <2>5. Starting' /\ Stopping'
    BY <1>1, <2>1, <2>3 DEF LifeInv, Starting, Stopping, NotServing
  <2>6. ~Overlap => InOrder'
    BY <1>1, <2>1, <2>3 DEF LifeInv, InOrder, Down, NotServing
  <2>7. QED
    BY <1>1, <2>4, <2>5, <2>6 DEF LifeInv
<1>5. CASE PortChangesHands
  BY <1>1, <1>5 DEF LifeInv, LifecycleTypeOK, DtlsInv, PortChangesHands, Starting, Stopping,
                    InOrder, Down, NotServing
<1>6. CASE UNCHANGED lifecycleVars
  BY <1>1, <1>6 DEF LifeInv, LifecycleTypeOK, DtlsInv, lifecycleVars, entryVars, Starting, Stopping, InOrder, Down, NotServing
<1>7. QED
  BY <1>2, <1>3, <1>4, <1>5, <1>6

LEMMA ServesKeeps == LifeInv /\ Serves => LifeInv'
<1> SUFFICES ASSUME LifeInv, Serves
             PROVE  LifeInv'
  OBVIOUS
<1>1. DtlsInv' /\ (NotServing => caller' = caller) /\ UNCHANGED entryVars
  BY ServerSteps DEF LifeInv, Serves
<1>2. QED
  BY <1>1 DEF LifeInv, LifecycleTypeOK, DtlsInv, entryVars, Starting, Stopping, InOrder, Down,
              NotServing

-----------------------------------------------------------------------------
(* The theorems *)

\* LifeInv holds in every state, whatever overlaps and whoever hosts the REST API.
LEMMA LifeInvariance == LifecycleSpec => []LifeInv
<1>1. LifecycleInit => LifeInv
  <2> SUFFICES ASSUME LifecycleInit
               PROVE  LifeInv
    OBVIOUS
  <2>1. DtlsInv
    BY InitEstablishes DEF LifecycleInit
  <2>2. TypeOK /\ caller = "idle"
    BY <2>1 DEF LifecycleInit, Init, DtlsInv
  <2>3. /\ ha \in {"starting", "running"}
        /\ entry = "not_loaded" /\ reloading = FALSE /\ listening = FALSE
        /\ starter = "none" /\ stopper = "none"
        /\ http = "down" /\ mdns = FALSE /\ taken = FALSE
        /\ request = "none" /\ session = FALSE
    BY DEF LifecycleInit
  <2>4. LifecycleTypeOK
    BY <2>2, <2>3 DEF LifecycleTypeOK
  <2>5. QED
    BY <2>1, <2>2, <2>3, <2>4 DEF LifeInv, Starting, Stopping, InOrder, Down, NotServing
<1>2. LifeInv /\ [LifecycleNext]_lifecycleVars => LifeInv'
  BY SetupKeeps, HaStartsKeeps, StartsKeeps, EndsKeep, StopsKeep, WorldKeeps, ServesKeeps
     DEF LifecycleNext
<1>3. QED
  BY <1>1, <1>2, PTL DEF LifecycleSpec

\* An entry that is not loaded, or whose Home Assistant has stopped, has left no
\* thread, frame, server, request, advertisement, session or listener behind.
THEOREM EntryLeavesNothing == ASSUME ~Overlap, ~Hosted PROVE LifecycleSpec => []NothingOutlivesEntry
<1>1. LifeInv => NothingOutlivesEntry
  <2> SUFFICES ASSUME LifeInv, entry \in {"not_loaded", "retry", "failed"} \/ ha = "stopped"
               PROVE  NothingOutlivesEntry
    BY DEF NothingOutlivesEntry
  <2>1. NotServing /\ Down /\ (listening = FALSE \/ ha = "stopped")
    BY DEF LifeInv, Starting, InOrder
  <2>2. ~ThreadAlive /\ Frameless
    BY <2>1, StoppedServerIsGone DEF LifeInv
  <2>3. QED
    BY <2>1, <2>2 DEF Down, NothingOutlivesEntry
<1>2. QED
  BY <1>1, LifeInvariance, PTL

\* Whoever hosts the REST API, no thread, frame, server or advertisement is left,
\* and no listener that would start them later: what a hosted entry may leave is a
\* request its host still has, and the session such a request begins.
HostedLeavesAtMostRequests ==
  entry \in {"not_loaded", "retry", "failed"} \/ ha = "stopped" =>
    ~ThreadAlive /\ Frameless /\ http = "down" /\ ~mdns /\ (~listening \/ ha = "stopped")

THEOREM HostedEntryLeavesNoServer ==
  ASSUME ~Overlap PROVE LifecycleSpec => []HostedLeavesAtMostRequests
<1>1. LifeInv => HostedLeavesAtMostRequests
  <2> SUFFICES ASSUME LifeInv, entry \in {"not_loaded", "retry", "failed"} \/ ha = "stopped"
               PROVE  HostedLeavesAtMostRequests
    BY DEF HostedLeavesAtMostRequests
  <2>1. NotServing /\ Down /\ (listening = FALSE \/ ha = "stopped")
    BY DEF LifeInv, Starting, InOrder
  <2>2. ~ThreadAlive /\ Frameless
    BY <2>1, StoppedServerIsGone DEF LifeInv
  <2>3. QED
    BY <2>1, <2>2 DEF Down, HostedLeavesAtMostRequests
<1>2. QED
  BY <1>1, LifeInvariance, PTL

\* No frame, request or session is under way while a stop restores the lights, also
\* if it overtook the start, for an entry with a REST server of its own.
THEOREM RestoreIsUndisturbed == ASSUME ~Hosted PROVE LifecycleSpec => []InputsStopFirst
<1>1. LifeInv => InputsStopFirst
  <2> SUFFICES ASSUME LifeInv, stopper = "restoring"
               PROVE  InputsStopFirst
    BY DEF InputsStopFirst
  <2>1. NotServing /\ http = "down" /\ request = "none" /\ session = FALSE
    BY DEF LifeInv, Stopping, NotServing
  <2>2. ~ThreadAlive /\ Frameless
    BY <2>1, StoppedServerIsGone DEF LifeInv
  <2>3. QED
    BY <2>1, <2>2 DEF InputsStopFirst
<1>2. QED
  BY <1>1, LifeInvariance, PTL

\* While the lights are put back the DTLS thread is gone and none of its frames is
\* on its way, and the REST API takes no new request: also if the stop overtook
\* the start, and also for a hosted entry.
FramesStopFirst == stopper = "restoring" => ~ThreadAlive /\ Frameless /\ http = "down"

THEOREM NoFrameDuringRestore == LifecycleSpec => []FramesStopFirst
<1>1. LifeInv => FramesStopFirst
  <2> SUFFICES ASSUME LifeInv, stopper = "restoring"
               PROVE  ~ThreadAlive /\ Frameless /\ http = "down"
    BY DEF FramesStopFirst
  <2>1. NotServing /\ http = "down"
    BY DEF LifeInv, Stopping, NotServing
  <2>2. QED
    BY <2>1, StoppedServerIsGone DEF LifeInv
<1>2. QED
  BY <1>1, LifeInvariance, PTL

\* Every variable of the entry and of its DTLS server keeps its type.
THEOREM LifecycleTypes == LifecycleSpec => []LifecycleTypeOK
<1>1. LifeInv => LifecycleTypeOK
  BY DEF LifeInv
<1>2. QED
  BY <1>1, LifeInvariance, PTL

\* Set up again and again, with stops that overtake starts or not, the server keeps
\* what is proved above of one life: async_stop joins the thread, no frame is left in
\* the loop, and the context is there as long as the thread uses it.
THEOREM EveryServerKeepsItsWord ==
  LifecycleSpec => [](ThreadEndsWithStop /\ NoFrameAfterStop /\ ContextOutlivesUse)
<1>1. LifeInv => ThreadEndsWithStop /\ NoFrameAfterStop /\ ContextOutlivesUse
  BY InvMeansProperties DEF LifeInv
<1>2. QED
  BY <1>1, LifeInvariance, PTL

\* No mailbox is ever wedged, through any number of setups and stops: a frame that
\* put() finds the flag set for has a _deliver coming.
THEOREM MailboxIsNeverWedged == LifecycleSpec => []FlagMeansDelivery
<1>1. LifecycleInit => FlagMeansDelivery
  <2>1. ASSUME LifecycleInit PROVE ready = <<>> /\ Len(ready) = 0 /\ scheduled = FALSE
    BY <2>1 DEF LifecycleInit, Init
  <2>2. QED
    BY <2>1 DEF FlagMeansDelivery
<1>2. LifeInv /\ FlagMeansDelivery /\ [LifecycleNext]_lifecycleVars => FlagMeansDelivery'
  <2> SUFFICES ASSUME LifeInv, FlagMeansDelivery, [LifecycleNext]_lifecycleVars
               PROVE  FlagMeansDelivery'
    OBVIOUS
  <2>1. DtlsInv
    BY DEF LifeInv
  <2>2. CASE async_setup_entry
    <3>1. NotServing /\ NewServers
      BY <2>2 DEF LifeInv, Starting, async_setup_entry
    <3>2. ready' = <<>> /\ Len(ready') = 0 /\ scheduled' = FALSE
      BY <2>1, <3>1, StoppedServerIsGone DEF NewServers
    <3>3. QED
      BY <3>2 DEF FlagMeansDelivery
  <2>3. CASE HaStarts \/ Starts
    BY <2>1, <2>3, FlagAfterServer DEF HaStarts, Starts, BindsHttp, HttpBindFails, Advertises
  <2>4. CASE (\E again \in BOOLEAN : async_unload_entry(again)) \/ RetryCancelled \/ HaStops
    BY <2>1, <2>4, FlagAfterServer DEF async_unload_entry, RetryCancelled, HaStops
  <2>5. CASE Stops
    BY <2>1, <2>5, FlagAfterServer DEF Stops, StopsDtls, ClosesHttp, HttpIsDown, Withdraws, Restored
  <2>6. CASE \/ \E action \in {"start", "stop"} : RequestComes(action)
             \/ RequestEnds \/ SessionTimesOut \/ PortChangesHands \/ UNCHANGED lifecycleVars
    BY <2>1, <2>6, FlagAfterServer DEF RequestComes, RequestEnds, SessionTimesOut,
       PortChangesHands, lifecycleVars
  <2>7. CASE Serves
    BY <2>1, <2>7, FlagAfterServer DEF Serves
  <2>8. QED
    BY <2>2, <2>3, <2>4, <2>5, <2>6, <2>7 DEF LifecycleNext
<1>3. QED
  BY <1>1, <1>2, LifeInvariance, PTL DEF LifecycleSpec
=============================================================================
