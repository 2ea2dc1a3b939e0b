----------------------------- MODULE FrameMailbox -----------------------------
(***************************************************************************)
(* FrameMailbox of entertainment.py as its comments intend it: the DTLS    *)
(* thread calls put(), the event loop's thread runs _deliver(). A critical *)
(* section under self._lock is one action; the two threads interleave      *)
(* between them. This is what the class promises whoever calls it; the     *)
(* program calls put() on the loop, and DtlsServer has it there. Frames    *)
(* are numbered in the order the thread receives them; 0 stands for None.  *)
(***************************************************************************)
EXTENDS Naturals

VARIABLES
  received,   \* frames put so far
  latest,     \* self._latest
  scheduled,  \* self._scheduled
  coalesced,  \* self.coalesced
  putter,     \* where the DTLS thread is in put()
  callbacks,  \* _deliver callbacks queued on the loop
  taken,      \* the frame _deliver took last
  delivering, \* the frame _deliver holds and has not yet handled
  handled,    \* how many frames the handler has been called with
  closed      \* the event loop is closed

vars == <<received, latest, scheduled, coalesced, putter, callbacks, taken, delivering,
          handled, closed>>

TypeOK ==
  /\ received \in Nat
  /\ latest \in Nat
  /\ scheduled \in BOOLEAN
  /\ coalesced \in Nat
  /\ putter \in {"idle", "waking", "refused"}
  /\ callbacks \in 0 .. 1
  /\ taken \in Nat
  /\ delivering \in Nat
  /\ handled \in Nat
  /\ closed \in BOOLEAN

Init ==
  /\ received = 0 /\ latest = 0 /\ scheduled = FALSE /\ coalesced = 0
  /\ putter = "idle" /\ callbacks = 0
  /\ taken = 0 /\ delivering = 0 /\ handled = 0
  /\ closed = FALSE

-----------------------------------------------------------------------------
(* The DTLS thread: put() *)

\* The first critical section: store the frame, note whether to wake the loop.
Put ==
  /\ putter = "idle"
  /\ received' = received + 1
  /\ coalesced' = (IF latest # 0 THEN coalesced + 1 ELSE coalesced)
  /\ latest' = received + 1
  /\ scheduled' = TRUE
  /\ putter' = (IF scheduled THEN "idle" ELSE "waking")
  /\ UNCHANGED <<callbacks, taken, delivering, handled, closed>>

\* call_soon_threadsafe, outside the lock; RuntimeError when the loop is closed
WakeLoop ==
  /\ putter = "waking"
  /\ putter' = (IF closed THEN "refused" ELSE "idle")
  /\ callbacks' = (IF closed THEN callbacks ELSE callbacks + 1)
  /\ UNCHANGED <<received, latest, scheduled, coalesced, taken, delivering, handled, closed>>

WakeRefused ==
  /\ putter = "refused"
  /\ putter' = "idle"
  /\ scheduled' = FALSE
  /\ UNCHANGED <<received, latest, coalesced, callbacks, taken, delivering, handled, closed>>

-----------------------------------------------------------------------------
(* The event loop's thread: _deliver() *)

\* The critical section of a queued callback
Deliver ==
  /\ ~closed /\ callbacks > 0 /\ delivering = 0
  /\ callbacks' = callbacks - 1
  /\ scheduled' = FALSE
  /\ delivering' = latest
  /\ taken' = (IF latest # 0 THEN latest ELSE taken)
  /\ latest' = 0
  /\ UNCHANGED <<received, coalesced, putter, handled, closed>>

\* self._handler(frame), on the loop and outside the lock
Handle ==
  /\ delivering # 0
  /\ handled' = handled + 1
  /\ delivering' = 0
  /\ UNCHANGED <<received, latest, scheduled, coalesced, putter, callbacks, taken, closed>>

\* Home Assistant shuts down; a callback still queued never runs.
CloseLoop ==
  /\ ~closed /\ delivering = 0
  /\ closed' = TRUE
  /\ UNCHANGED <<received, latest, scheduled, coalesced, putter, callbacks, taken,
                 delivering, handled>>

Next == Put \/ WakeLoop \/ WakeRefused \/ Deliver \/ Handle \/ CloseLoop

Spec == Init /\ [][Next]_vars

-----------------------------------------------------------------------------
(* Properties *)

\* At most one callback is queued or about to be, however far the loop falls
\* behind: the backlog the class exists to prevent.
OneCallback == callbacks + (IF putter = "waking" THEN 1 ELSE 0) <= 1

\* No frame is stranded: while one waits, a callback is queued for it or the
\* DTLS thread is about to queue one, unless the loop has closed (the _scheduled
\* flag tells put() the truth in every interleaving with _deliver).
NoFrameStranded == latest # 0 /\ ~closed => putter = "waking" \/ callbacks > 0

\* Every frame received was handled, is held for the handler, waits in the slot
\* or was counted as coalesced: none is lost or counted twice ("frames
\* superseded before the loop got to them").
EveryFrameAccountedFor ==
  received = handled + coalesced + (IF latest # 0 THEN 1 ELSE 0)
                                 + (IF delivering # 0 THEN 1 ELSE 0)

\* The mailbox is a register of the freshest frame, between two threads.
Freshest == INSTANCE FreshestRegister WITH offered <- received

\* Every frame the loop takes is the freshest received, and taken once.
TakesFreshest == Freshest!RegisterSpec
=============================================================================
