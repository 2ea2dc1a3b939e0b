------------------------------ MODULE DtlsServer ------------------------------
(***************************************************************************)
(* DTLSPSKServer of dtls_psk/server.py: one background thread that binds   *)
(* the UDP socket, accepts one DTLS session after another and reads its    *)
(* frames, and the event loop's coroutine that starts and stops it. The    *)
(* thread and the coroutine interleave between any two steps. Blocking     *)
(* calls return after poll_interval at the latest (SO_RCVTIMEO), long      *)
(* before the join in async_stop gives up. What OpenSSL and the TV do is   *)
(* modelled from what the thread's calls return.                           *)
(*                                                                         *)
(* What reaches the loop from other threads is queued there in order: the  *)
(* frames, for FrameMailbox.put and then _deliver, and the executor's word *)
(* that the join is done, for the coroutine in async_stop.                 *)
(***************************************************************************)
EXTENDS Naturals, Sequences

CONSTANTS
  Faults,  \* which faults may happen: "bind fails", "handshake fails"
  Backlog  \* bound on the callbacks queued on the loop when a frame comes

ASSUME FaultsAssumption == Faults \subseteq {"bind fails", "handshake fails"}
ASSUME BacklogAssumption == Backlog \in Nat

VARIABLES
  running,  \* self._running
  sock,     \* self._sock
  ctx,      \* self._ssl_ctx and the PSK callback handle that lives with it
  thread,   \* where _serve_loop is
  overdue,  \* read_timeout has passed since the handshake began or a frame came
  caller,   \* where the coroutine is that starts and stops the server
  tv,       \* what the TV's datagrams on the socket say
  ready,    \* the callbacks queued on the event loop
  scheduled \* FrameMailbox._scheduled

vars == <<running, sock, ctx, thread, overdue, caller, tv, ready, scheduled>>
loop == <<ready, scheduled>>

\* "joined" completes the executor's future, "resume" wakes the coroutine.
Callbacks == {"put", "deliver", "joined", "resume"}

TypeOK ==
  /\ running \in BOOLEAN
  /\ sock \in {"none", "open", "closed"}
  /\ ctx \in {"none", "live", "freed"}
  /\ thread \in {"none", "starting", "binding", "looping", "accepting", "listening",
                 "handshaking", "reading", "closing", "ended"}
  /\ overdue \in BOOLEAN
  /\ caller \in {"idle", "started", "joining", "joined", "stopped"}
  /\ tv \in {"away", "hello", "streaming", "goodbye"}
  /\ ready \in Seq(Callbacks) /\ Len(ready) <= Backlog + 1
  /\ scheduled \in BOOLEAN

Init ==
  /\ running = FALSE /\ sock = "none" /\ ctx = "none"
  /\ thread = "none" /\ overdue = FALSE
  /\ caller = "idle" /\ tv = "away"
  /\ ready = <<>> /\ scheduled = FALSE

-----------------------------------------------------------------------------
(* The event loop *)

async_start ==
  /\ caller = "idle" /\ ~running
  /\ running' = TRUE
  /\ ctx' = "live"
  /\ thread' = "starting"
  /\ caller' = "started"
  /\ UNCHANGED <<sock, overdue, tv, loop>>

FreeContext == ctx' = (IF ctx = "live" THEN "freed" ELSE ctx)

CloseSocket == sock' = (IF sock = "open" THEN "closed" ELSE sock)

ThreadAlive == thread \notin {"none", "ended"}

\* Mutant: the context is freed before the thread is joined.
StopFreesFirst ==
  /\ caller \in {"idle", "started"}
  /\ running' = FALSE
  /\ CloseSocket
  /\ FreeContext
  /\ caller' = (IF ThreadAlive THEN "joining" ELSE "stopped")
  /\ UNCHANGED <<thread, overdue, tv, loop>>

\* Mutant: the thread is not joined.
StopWithoutJoin ==
  /\ caller \in {"idle", "started"}
  /\ running' = FALSE
  /\ CloseSocket
  /\ UNCHANGED ctx
  /\ caller' = "stopped"
  /\ UNCHANGED <<thread, overdue, tv, loop>>

\* async_stop, up to the join of a living thread
async_stop ==
  /\ caller \in {"idle", "started"}
  /\ running' = FALSE
  /\ CloseSocket
  /\ IF ThreadAlive
     THEN caller' = "joining" /\ UNCHANGED ctx
     ELSE caller' = "stopped" /\ FreeContext
  /\ UNCHANGED <<thread, overdue, tv, loop>>

\* Mutant: the join blocks the loop instead of an executor's thread.
JoinReturnsAtOnce ==
  /\ caller = "joining" /\ ~ThreadAlive
  /\ caller' = "stopped"
  /\ FreeContext
  /\ UNCHANGED <<running, sock, thread, overdue, tv, loop>>

\* The executor's thread sees the join return and tells the loop. While the
\* join lasts, the loop runs other callbacks.
JoinReturns ==
  /\ caller = "joining" /\ ~ThreadAlive
  /\ caller' = "joined"
  /\ ready' = Append(ready, "joined")
  /\ UNCHANGED <<running, sock, ctx, thread, overdue, tv, scheduled>>

Turn(callback) == ready # <<>> /\ Head(ready) = callback

\* FrameMailbox.put, on the loop
Put ==
  /\ Turn("put")
  /\ scheduled' = TRUE
  /\ ready' = (IF scheduled THEN Tail(ready) ELSE Append(Tail(ready), "deliver"))
  /\ UNCHANGED <<running, sock, ctx, thread, overdue, caller, tv>>

\* Mutant: the flag is left for the next put to find.
DeliverKeepsScheduled ==
  /\ Turn("deliver")
  /\ ready' = Tail(ready)
  /\ UNCHANGED <<running, sock, ctx, thread, overdue, caller, tv, scheduled>>

\* FrameMailbox._deliver: the engine handles the freshest frame.
Deliver ==
  /\ Turn("deliver")
  /\ scheduled' = FALSE
  /\ ready' = Tail(ready)
  /\ UNCHANGED <<running, sock, ctx, thread, overdue, caller, tv>>

FutureDone ==
  /\ Turn("joined")
  /\ ready' = Append(Tail(ready), "resume")
  /\ UNCHANGED <<running, sock, ctx, thread, overdue, caller, tv, scheduled>>

StopResumes ==
  /\ Turn("resume")
  /\ ready' = Tail(ready)
  /\ caller' = "stopped"
  /\ FreeContext
  /\ UNCHANGED <<running, sock, thread, overdue, tv, scheduled>>

LoopStep == Put \/ Deliver \/ FutureDone \/ StopResumes

-----------------------------------------------------------------------------
(* The thread *)

OpensSocket ==
  /\ thread = "starting"
  /\ sock' = "open"
  /\ thread' = "binding"
  /\ UNCHANGED <<running, ctx, overdue, caller, tv, loop>>

\* A socket closed meanwhile fails like a port in use: the thread logs and ends.
Binds ==
  /\ thread = "binding"
  /\ \/ sock = "open" /\ thread' = "looping"
     \/ (sock = "closed" \/ "bind fails" \in Faults) /\ thread' = "ended"
  /\ UNCHANGED <<running, sock, ctx, overdue, caller, tv, loop>>

\* Mutant: the loop does not look at _running.
LoopsForever ==
  /\ thread = "looping"
  /\ thread' = "accepting"
  /\ UNCHANGED <<running, sock, ctx, overdue, caller, tv, loop>>

LoopsOrEnds ==
  /\ thread = "looping"
  /\ thread' = (IF running THEN "accepting" ELSE "ended")
  /\ UNCHANGED <<running, sock, ctx, overdue, caller, tv, loop>>

\* SSL_new and the BIO over the socket
Accepts ==
  /\ thread = "accepting"
  /\ thread' = "listening"
  /\ UNCHANGED <<running, sock, ctx, overdue, caller, tv, loop>>

\* DTLSv1_listen: a ClientHello, or a receive timeout. The caller retries.
Listens ==
  /\ thread = "listening"
  /\ IF tv = "hello" /\ sock = "open"
     THEN thread' = "handshaking" /\ overdue' = FALSE
     ELSE thread' = "closing" /\ UNCHANGED overdue
  /\ UNCHANGED <<running, sock, ctx, caller, tv, loop>>

HandshakeCompletes ==
  /\ thread = "handshaking"
  /\ tv = "hello" /\ sock = "open"
  /\ tv' = "streaming"
  /\ thread' = "reading"
  /\ overdue' = FALSE
  /\ UNCHANGED <<running, sock, ctx, caller, loop>>

\* An error, or a receive timeout past the deadline or after the stop
HandshakeEnds ==
  /\ thread = "handshaking"
  /\ \/ ~running \/ overdue \/ "handshake fails" \in Faults
  /\ thread' = "closing"
  /\ UNCHANGED <<running, sock, ctx, overdue, caller, tv, loop>>

\* SSL_read returns a frame, one already on its way even after the stop;
\* _dispatch_frame hands it to the loop.
ReadsFrame ==
  /\ thread = "reading"
  /\ tv = "streaming"
  /\ Len(ready) < Backlog
  /\ overdue' = FALSE
  /\ thread' = (IF running THEN "reading" ELSE "closing")
  /\ ready' = Append(ready, "put")
  /\ UNCHANGED <<running, sock, ctx, caller, tv, scheduled>>

\* Mutant: a session without data is kept.
ReadKeepsIdleSession ==
  /\ thread = "reading"
  /\ ~running \/ tv = "goodbye"
  /\ thread' = "closing"
  /\ UNCHANGED <<running, sock, ctx, overdue, caller, tv, loop>>

\* The TV's close_notify, the stop, or a receive timeout once overdue
ReadEnds ==
  /\ thread = "reading"
  /\ ~running \/ tv = "goodbye" \/ overdue
  /\ thread' = "closing"
  /\ UNCHANGED <<running, sock, ctx, overdue, caller, tv, loop>>

\* The finally clause: SSL_shutdown tells the TV, SSL_free.
ClosesSession ==
  /\ thread = "closing"
  /\ thread' = "looping"
  /\ tv' = (IF tv \in {"streaming", "goodbye"} THEN "away" ELSE tv)
  /\ UNCHANGED <<running, sock, ctx, overdue, caller, loop>>

ThreadStep ==
  \/ OpensSocket \/ Binds \/ LoopsOrEnds \/ Accepts \/ Listens
  \/ HandshakeCompletes \/ HandshakeEnds \/ ReadsFrame \/ ReadEnds \/ ClosesSession

\* time.monotonic() passes the deadline of the handshake or of the read loop.
DeadlinePasses ==
  /\ thread \in {"handshaking", "reading"} /\ ~overdue
  /\ overdue' = TRUE
  /\ UNCHANGED <<running, sock, ctx, thread, caller, tv, loop>>

-----------------------------------------------------------------------------
(* The TV: it connects, also while the server still reads the session of     *)
(* before a power cut, says goodbye, or vanishes.                            *)

TvConnects == tv \in {"away", "goodbye"} /\ tv' = "hello"
TvSaysGoodbye == tv = "streaming" /\ tv' = "goodbye"
TvVanishes == tv # "away" /\ tv' = "away"

TvStep ==
  /\ TvConnects \/ TvSaysGoodbye \/ TvVanishes
  /\ UNCHANGED <<running, sock, ctx, thread, overdue, caller, loop>>

-----------------------------------------------------------------------------

Next == async_start \/ async_stop \/ JoinReturns \/ LoopStep \/ ThreadStep \/ DeadlinePasses \/ TvStep

Spec == Init /\ [][Next]_vars

\* Both threads are scheduled, time passes, the executor reports the join.
FairSpec ==
  /\ Spec
  /\ WF_vars(ThreadStep) /\ WF_vars(LoopStep) /\ WF_vars(JoinReturns)
  /\ WF_vars(DeadlinePasses)

-----------------------------------------------------------------------------
(* Properties *)

\* Once async_stop has returned the thread is gone ("the DTLS thread must not
\* outlive the event loop", _async_stop).
ThreadEndsWithStop == caller = "stopped" => ~ThreadAlive

\* Nor is any of its frames still on its way through the loop, though put() and
\* _deliver() are two callbacks: "no frame re-dirties a slot while the lights are
\* being restored" (async_unload_entry). The order of the loop's queue sees to it.
NoFrameAfterStop ==
  caller = "stopped" => \A i \in DOMAIN ready : ready[i] \notin {"put", "deliver"}

\* The SSL context and the PSK callback are there as long as the thread may use
\* them: for SSL_new, for the cookies and for the key lookup of a handshake.
ContextOutlivesUse ==
  thread \in {"accepting", "listening", "handshaking"} => ctx = "live"

\* The mailbox is marked as scheduled exactly while one _deliver is queued, however
\* often the server is set up, stopped and set up anew with a mailbox of its own: a
\* mark without a callback would keep every later frame from the engine, a callback
\* without a mark lets a second one be queued beside it (put, _deliver).
FlagMeansDelivery ==
  /\ scheduled => \E i \in 1 .. Len(ready) : ready[i] = "deliver"
  /\ \A i, j \in 1 .. Len(ready) :
       ready[i] = "deliver" /\ ready[j] = "deliver" => scheduled /\ i = j

\* A stop returns, whatever the thread is blocked in and whatever the TV sends
\* (async_stop, poll_interval).
StopReturns == caller = "joining" ~> caller = "stopped"

\* A TV that connects is served unless it gives up, its handshake fails or the
\* server stops, even if the server still waits for frames of the session that a
\* power cut ended ("so a hard power-off can't wedge us", _serve_loop).
ReconnectIsServed ==
  tv = "hello" /\ thread = "reading" ~> thread = "handshaking" \/ tv # "hello" \/ ~running

\* The mailbox is there "so a stalled loop never accumulates a backlog of stale
\* frames" (async_setup_entry), "scheduling at most one loop callback at a time"
\* (FrameMailbox): however many frames come, one callback is queued for them.
NoBacklog == \A i, j \in DOMAIN ready :
  ready[i] \in {"put", "deliver"} /\ ready[j] \in {"put", "deliver"} => i = j
=============================================================================
