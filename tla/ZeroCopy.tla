------------------------------ MODULE ZeroCopy ------------------------------
(***************************************************************************)
(* libusb_zero_copy_single: the buffer transport of one endpoint           *)
(* (uhd-overlay/host/lib/transport/libusb1_zero_copy.cpp).                 *)
(*                                                                         *)
(* Threads: the callers of get_buff (Getters), whoever drops the last      *)
(* reference of a frame (Release), and the completion thread of libpcie,   *)
(* which runs libusb_async_cb (Callback).  One step is one critical        *)
(* section of _queue_mutex or of a frame's result.mut, or one access made  *)
(* outside both.  _recv_mutex (or _send_mutex) of libusb_zero_copy_impl    *)
(* and _get_buff_mutex are taken one inside the other by the same callers: *)
(* getMutex stands for the pair.                                           *)
(*                                                                         *)
(* result.status is COMPLETED from construction (line 42) and after every  *)
(* callback (line 100), so the check of lines 203-205 never throws and the *)
(* field is left out.                                                      *)
(***************************************************************************)
EXTENDS Sequences, FiniteSets, Functions

CONSTANTS
    Frames,     \* the managed buffers _mb_pool; both queues hold |Frames|
    Getters,    \* threads that call get_recv_buff / get_send_buff
    NoThread    \* the owner of a free mutex

ASSUME FramesAssumption == IsFiniteSet(Frames) /\ Frames # {}
ASSUME GettersAssumption == NoThread \notin Getters

VARIABLES
    enqueued,   \* _enqueued: submitted, oldest first
    released,   \* _released: given back, not yet submitted
    status,     \* _status
    completed,  \* result.completed of each frame
    inDriver,   \* transfers libpcie has accepted and not yet called back
    held,       \* frames whose managed buffer the caller holds
    getMutex,   \* owner of the get_buff mutexes
    pc,         \* where each getter is in get_buff
    front,      \* local front of get_buff
    forever,    \* the timeout passed to get_buff is negative
    life        \* "open", in the destructor, or transfers freed

queueVars == <<enqueued, released, status>>
getterVars == <<getMutex, pc, front, forever>>
vars == <<enqueued, released, status, completed, inDriver, held,
          getMutex, pc, front, forever, life>>

PC == {"idle", "queue", "waitReady", "head", "waitDone", "take", "pop", "giveUp"}

STATUS == {"RUNNING", "ERROR"}

N == Cardinality(Frames)

-----------------------------------------------------------------------------
\* Mutant: a submitted frame overtakes the frames in flight.
SubmitWhatWeCan_PushFront(enq, rel, st) ==
    IF st = "ERROR"
    THEN {[enq |-> enq, rel |-> rel, st |-> st, sub |-> {}, threw |-> FALSE]}
    ELSE {[enq |-> SubSeq(rel, 1, k) \o enq,
           rel |-> SubSeq(rel, k + 1, Len(rel)),
           st |-> IF k = Len(rel) THEN "RUNNING" ELSE "ERROR",
           sub |-> {rel[i] : i \in 1..k},
           threw |-> k # Len(rel)] : k \in 0..Len(rel)}

(***************************************************************************)
(* submit_what_we_can: submit from the front of _released while there is   *)
(* room in _enqueued.  func_xxxX may refuse any one of them: the status    *)
(* then is ERROR for good, the refused frame stays at the front and the    *)
(* exception leaves the caller.                                            *)
(***************************************************************************)
SubmitWhatWeCan(enq, rel, st) ==
    IF st = "ERROR"
    THEN {[enq |-> enq, rel |-> rel, st |-> st, sub |-> {}, threw |-> FALSE]}
    ELSE LET room == N - Len(enq)
             most == IF Len(rel) <= room THEN Len(rel) ELSE room
         IN  {[enq   |-> enq \o SubSeq(rel, 1, k),
               rel   |-> SubSeq(rel, k + 1, Len(rel)),
               st    |-> IF k = most THEN "RUNNING" ELSE "ERROR",
               sub   |-> {rel[i] : i \in 1..k},
               threw |-> k # most] : k \in 0..most}

\* The queue mutex is held: the outcome o replaces the queues and the status.
Submitted(o) ==
    /\ enqueued' = o.enq
    /\ status' = o.st
    /\ inDriver' = inDriver \cup o.sub

\* The constructor has returned: a receive transport has released every frame
\* (each one submitted at once); a send transport has marked every frame
\* complete and queued it without submitting.  A submission refused in the
\* constructor throws out of it: then there is no transport.
Init ==
    /\ enqueued \in [1..N -> Frames]
    /\ Range(enqueued) = Frames
    /\ released = <<>>
    /\ status = "RUNNING"
    /\ \/ completed = [f \in Frames |-> FALSE] /\ inDriver = Frames
       \/ completed = [f \in Frames |-> TRUE] /\ inDriver = {}
    /\ held = {}
    /\ getMutex = NoThread
    /\ pc = [g \in Getters |-> "idle"]
    /\ front \in [Getters -> Frames]
    /\ forever = [g \in Getters |-> FALSE]
    /\ life = "open"

-----------------------------------------------------------------------------
Goto(g, l) == pc' = [pc EXCEPT ![g] = l]

Leave(g) == Goto(g, "idle") /\ getMutex' = NoThread

\* Mutant: get_buff without its mutex.
GetBuff_NoMutex(g, inf) ==
    /\ life = "open"
    /\ pc[g] = "idle"
    /\ status # "ERROR"
    /\ forever' = [forever EXCEPT ![g] = inf]
    /\ Goto(g, "queue")
    /\ UNCHANGED <<queueVars, completed, inDriver, held, getMutex, front, life>>

\* get_buff entered: _status is read before any lock of this class.
GetBuff(g, inf) ==
    /\ life = "open"
    /\ pc[g] = "idle"
    /\ getMutex = NoThread
    /\ status # "ERROR"
    /\ getMutex' = g
    /\ forever' = [forever EXCEPT ![g] = inf]
    /\ Goto(g, "queue")
    /\ UNCHANGED <<queueVars, completed, inDriver, held, front, life>>

\* With _queue_mutex: the oldest frame becomes the local front.
LookAtFront(g) ==
    /\ enqueued # <<>>
    /\ front' = [front EXCEPT ![g] = Head(enqueued)]
    /\ Goto(g, "head")
    /\ UNCHANGED getMutex

QueueTest(g) ==
    /\ pc[g] = "queue"
    /\ \/ LookAtFront(g)
       \/ enqueued = <<>> /\ Goto(g, "waitReady") /\ UNCHANGED <<getMutex, front>>
    /\ UNCHANGED <<queueVars, completed, inDriver, held, forever, life>>

\* Mutant: the wait is put in a loop until the queue has a frame.
ReadyWaitEnds_Loops(g) ==
    /\ pc[g] = "waitReady"
    /\ LookAtFront(g)
    /\ UNCHANGED <<queueVars, completed, inDriver, held, forever, life>>

\* _buff_ready_cond.timed_wait has no predicate: it ends by a notification, at
\* the timeout or spuriously, and the queue is tested once more.
ReadyWaitEnds(g) ==
    /\ pc[g] = "waitReady"
    /\ \/ LookAtFront(g)
       \/ enqueued = <<>> /\ Leave(g) /\ UNCHANGED front
    /\ UNCHANGED <<queueVars, completed, inDriver, held, forever, life>>

\* wait_for_completion, entered with result.mut.
HeadTest(g) ==
    /\ pc[g] = "head"
    /\ Goto(g, IF completed[front[g]] THEN "take" ELSE "waitDone")
    /\ UNCHANGED <<queueVars, completed, inDriver, held, getMutex, front, forever, life>>

\* Mutant: the result of the wait is ignored, a timeout counts as completion.
WaitReturns_AlwaysTakes(g) ==
    /\ pc[g] = "waitDone"
    /\ Goto(g, "take")
    /\ UNCHANGED <<queueVars, completed, inDriver, held, getMutex, front, forever, life>>

WaitReturns(g) ==
    /\ pc[g] = "waitDone"
    /\ Goto(g, IF completed[front[g]] THEN "take" ELSE "giveUp")
    /\ UNCHANGED <<queueVars, completed, inDriver, held, getMutex, front, forever, life>>

\* The callback's notify_one, or the end of the time given.
WaitEnds(g) == (completed[front[g]] \/ ~forever[g]) /\ WaitReturns(g)

\* The wait without a time limit is not in a loop: one spurious wake ends it.
WaitWakesSpuriously(g) == forever[g] /\ ~completed[front[g]] /\ WaitReturns(g)

\* Mutant: completed is not cleared.
TakeHead_KeepsFlag(g) ==
    /\ pc[g] = "take"
    /\ Goto(g, "pop")
    /\ UNCHANGED <<queueVars, completed, inDriver, held, getMutex, front, forever, life>>

\* get_new after the wait: completed is cleared without result.mut.
TakeHead(g) ==
    /\ pc[g] = "take"
    /\ completed' = [completed EXCEPT ![front[g]] = FALSE]
    /\ Goto(g, "pop")
    /\ UNCHANGED <<queueVars, inDriver, held, getMutex, front, forever, life>>

\* With _queue_mutex again: pop_front, then submit_what_we_can.  Should that
\* throw, the new managed buffer is destroyed on the way out, which appends
\* its frame to _released.
Pop(g) ==
    /\ pc[g] = "pop"
    /\ \E o \in SubmitWhatWeCan(Tail(enqueued), released, status) :
         /\ Submitted(o)
         /\ released' = IF o.threw THEN Append(o.rel, front[g]) ELSE o.rel
         /\ held' = IF o.threw THEN held ELSE held \cup {front[g]}
    /\ Leave(g)
    /\ UNCHANGED <<completed, front, forever, life>>

GiveUp(g) ==
    /\ pc[g] = "giveUp"
    /\ \E o \in SubmitWhatWeCan(enqueued, released, status) :
         Submitted(o) /\ released' = o.rel
    /\ Leave(g)
    /\ UNCHANGED <<completed, held, front, forever, life>>

\* Mutant: the frame is queued again while the caller keeps it.
Release_StillHeld(f) ==
    /\ f \in held
    /\ \E o \in SubmitWhatWeCan(enqueued, Append(released, f), status) :
         Submitted(o) /\ released' = o.rel
    /\ UNCHANGED <<completed, held, getterVars, life>>

\* Mutant: enqueue_buffer leaves the submission to the next get_buff.
Release_NoSubmit(f) ==
    /\ f \in held
    /\ held' = held \ {f}
    /\ released' = Append(released, f)
    /\ UNCHANGED <<enqueued, status, inDriver, completed, getterVars, life>>

\* enqueue_buffer: the last reference to a held frame is dropped.
Release(f) ==
    /\ f \in held
    /\ held' = held \ {f}
    /\ \E o \in SubmitWhatWeCan(enqueued, Append(released, f), status) :
         Submitted(o) /\ released' = o.rel
    /\ UNCHANGED <<completed, getterVars, life>>

\* Mutant: the callback does not record the completion.
Callback_Unrecorded(f) ==
    /\ f \in inDriver
    /\ inDriver' = inDriver \ {f}
    /\ UNCHANGED <<completed, queueVars, held, getterVars, life>>

\* libusb_async_cb, called by libpcie once per accepted transfer, in any order.
Callback(f) ==
    /\ f \in inDriver
    /\ inDriver' = inDriver \ {f}
    /\ completed' = [completed EXCEPT ![f] = TRUE]
    /\ UNCHANGED <<queueVars, held, getterVars, life>>

-----------------------------------------------------------------------------
(***************************************************************************)
(* The destructor.  Its owner has no call in progress and holds no frame.  *)
(* libusb_cancel_transfer does not know the transfers libpcie has taken,   *)
(* and each wait is cut off after 10 ms, so the transfers can be freed at  *)
(* any time after it began.                                                *)
(***************************************************************************)
Destroy ==
    /\ life = "open"
    /\ held = {} /\ \A g \in Getters : pc[g] = "idle"
    /\ life' = "closing"
    /\ UNCHANGED <<queueVars, completed, inDriver, held, getterVars>>

FreeTransfers ==
    /\ life = "closing"
    /\ life' = "freed"
    /\ UNCHANGED <<queueVars, completed, inDriver, held, getterVars>>

Gone == life = "freed" /\ UNCHANGED vars

-----------------------------------------------------------------------------
GetterStep(g) ==
    \/ QueueTest(g) \/ ReadyWaitEnds(g) \/ HeadTest(g) \/ WaitEnds(g)
    \/ TakeHead(g) \/ Pop(g) \/ GiveUp(g)

Next ==
    \/ \E g \in Getters :
         \/ \E inf \in BOOLEAN : GetBuff(g, inf)
         \/ GetterStep(g)
         \/ WaitWakesSpuriously(g)
    \/ \E f \in Frames : Release(f) \/ Callback(f)
    \/ Destroy \/ FreeTransfers \/ Gone

Spec == Init /\ [][Next]_vars

(***************************************************************************)
(* Fairness.  A thread inside get_buff runs on (its timed waits are cut    *)
(* off, so a step of it is always enabled or a callback is awaited), and   *)
(* libpcie calls back every transfer it has accepted.  The consumer adds   *)
(* that streaming goes on: some thread calls get_buff again, and a frame   *)
(* that was handed out is given back.                                      *)
(***************************************************************************)
ThreadsRun ==
    /\ \A g \in Getters : WF_vars(GetterStep(g))
    /\ \A f \in Frames : WF_vars(Callback(f))

ConsumerRuns ==
    /\ WF_vars(\E g \in Getters, inf \in BOOLEAN : GetBuff(g, inf))
    /\ \A f \in Frames : WF_vars(Release(f))

FairSpec == Spec /\ ThreadsRun /\ ConsumerRuns

-----------------------------------------------------------------------------
(***************************************************************************)
(* Properties.                                                             *)
(***************************************************************************)
\* Frames whose completion a getter has consumed but not yet popped.
Taken == {front[g] : g \in {h \in Getters : pc[h] = "pop"}}

\* The type invariant; the bounds on the lengths say that neither circular
\* buffer, of capacity _num_frames, is ever pushed when full (a push would
\* silently overwrite its oldest frame).
TypeOK ==
    /\ enqueued \in Seq(Frames) /\ Len(enqueued) <= N
    /\ released \in Seq(Frames) /\ Len(released) <= N
    /\ status \in STATUS
    /\ completed \in [Frames -> BOOLEAN]
    /\ inDriver \subseteq Frames
    /\ held \subseteq Frames
    /\ getMutex \in Getters \cup {NoThread}
    /\ pc \in [Getters -> PC]
    /\ front \in [Getters -> Frames]
    /\ forever \in [Getters -> BOOLEAN]
    /\ life \in {"open", "closing", "freed"}

\* Every frame is in exactly one place and there once: in _enqueued, in
\* _released or with the caller.  get_buff drops _queue_mutex between reading
\* the front and popping it; a second pop in between would duplicate one frame
\* and lose another.
EveryFrameInOnePlace ==
    /\ IsInjective(enqueued) /\ IsInjective(released)
    /\ Range(enqueued) \cap Range(released) = {}
    /\ held \cap (Range(enqueued) \cup Range(released)) = {}
    /\ Frames = Range(enqueued) \cup Range(released) \cup held

\* A queued frame is with libpcie, or complete, or complete and taken by the
\* getter that is about to pop it, and only one of these; a frame that is not
\* queued is none of them.  So the DMA target of a transfer in flight is never
\* a buffer the caller reads, clearing completed outside result.mut never
\* erases a fresh callback, and no stale flag makes the next trip of the frame
\* look complete.
CompletionAccounted ==
    \A f \in Frames :
        /\ (f \in Range(enqueued)) <=> (f \in inDriver \/ completed[f] \/ f \in Taken)
        /\ ~(f \in inDriver /\ completed[f])
        /\ f \in Taken => f \notin inDriver /\ ~completed[f]

\* The frame popped after the wait, with the queue mutex taken anew, is the
\* frame that was waited for.
PopsTheFrameItWaitedFor ==
    \A g \in Getters :
        pc[g] \in {"head", "waitDone", "take", "pop", "giveUp"} =>
            enqueued # <<>> /\ front[g] = Head(enqueued)

\* While the transport runs no frame stays behind in _released: each release
\* submits its frame at once and get_buff's own submit_what_we_can has nothing
\* to do, hence cannot throw.
NothingLeftReleased == status = "RUNNING" => released = <<>>

\* The inductive invariant: the above, that at most one getter is past the
\* mutexes, and that the flag it saw set stays set until it clears it.
IInv ==
    /\ TypeOK
    /\ EveryFrameInOnePlace
    /\ CompletionAccounted
    /\ PopsTheFrameItWaitedFor
    /\ NothingLeftReleased
    /\ \A g \in Getters : pc[g] # "idle" <=> getMutex = g
    /\ \A g \in Getters : pc[g] = "take" => completed[front[g]]

\* The transport implements the abstract pool: frames come back in submission
\* order, whatever the order of the callbacks, each once per trip.
Pool == INSTANCE FramePool WITH
            line <- enqueued,
            done <- {f \in Frames : completed[f]} \cup Taken,
            lost <- Range(released),
            broken <- (status = "ERROR")

ImplementsFramePool == Pool!PoolSpec

\* A call of get_buff ends, even one with a negative timeout.
CallEnds == \A g \in Getters : (pc[g] # "idle") ~> (pc[g] = "idle")

\* A submitted frame reaches the caller again, unless a submission failed or
\* the transport is destroyed: waiting for the oldest frame only
\* starves none, although younger frames may complete first.
EntrustedFrameComesBack ==
    \A f \in Frames :
        (f \in Range(enqueued)) ~> (f \in held \/ status = "ERROR" \/ life # "open")

\* "cancel all transfers ... free all transfers": no transfer is freed while
\* libpcie may still call it back.
NoCallbackAfterFree == life = "freed" => inDriver = {}
=============================================================================
