---------------------------- MODULE SdrppSource ----------------------------
(***************************************************************************)
(* Play and stop in SDR++ as patches/sdrpp-usrp-source-myb210.patch leaves  *)
(* them: the GUI thread in start() and stop(), the worker thread that       *)
(* receives and restarts a stream that went quiet, and the card between     *)
(* them.  running is a plain bool both threads use; its accesses have calls *)
(* of other libraries between them, so each is taken to happen where it is  *)
(* written.                                                                *)
(*                                                                         *)
(* Left out: the menu, the settings' values, tune(), and whether dev exists *)
(* (a start() whose make() fails changes nothing).  A running test before   *)
(* recv and the one after it are one: nothing is done in between that the   *)
(* second would not undo.  What recv can still deliver of a stream that is  *)
(* over is counted, not told apart.                                        *)
(***************************************************************************)
EXTENDS Naturals

CONSTANTS
    TimeoutKick,    \* 12: streak at which a timeout or an error kicks
    OverflowKick,   \* 24: streak at which an overflow kicks
    MaxFaults,      \* bound on the stream commands that throw
    MaxStale        \* bound on what is left to receive of a stream that is over

ASSUME KickAssumption ==
    /\ TimeoutKick \in Nat \ {0} /\ OverflowKick \in Nat
    /\ TimeoutKick < OverflowKick
ASSUME FaultsAssumption == MaxFaults \in Nat
ASSUME StaleAssumption == MaxStale \in Nat

VARIABLES
    ui,         \* the GUI thread: "idle", or its next step in start() or stop()
    running,
    writerStop, \* the stream's flag of stopWriter and clearWriteStop
    streamer,   \* whether the pointer is set
    worker,     \* the next step of the thread; "none": nothing to join
    streak,     \* of the worker
    card,       \* "stopped", "streaming", or "stalled": started, but quiet
    stale,      \* packets and overflows recv can deliver though the card is quiet
    loose,      \* history: nobody has to have stopped the card (see below)
    faults      \* stream commands that may still throw

uiVars == <<running, writerStop, streamer>>
vars == <<ui, running, writerStop, streamer, worker, streak, card, stale, loose, faults>>

Init ==
    /\ ui = "idle" /\ running = FALSE /\ writerStop = FALSE /\ streamer = FALSE
    /\ worker = "none" /\ streak = 0
    /\ card = "stopped" /\ stale \in 0..MaxStale /\ loose = FALSE
    /\ faults = MaxFaults

\* The card is in state c.  Each change may leave stale packets in the rings, from
\* which a quiet card is indistinguishable from one that streams as long as they last.
CardTo(c) ==
    /\ card' = c
    /\ stale' \in IF c = "streaming" THEN {0} ELSE 0..MaxStale

\* issue_stream_cmd leaves the card in state c, or throws, and the card may have
\* obeyed all the same.
Obeyed(c) == CardTo(c) /\ UNCHANGED faults
Threw(c) ==
    /\ faults > 0 /\ faults' = faults - 1
    /\ CardTo(c) \/ UNCHANGED <<card, stale>>

-----------------------------------------------------------------------------
(***************************************************************************)
(* start()                                                                 *)
(***************************************************************************)
Start ==
    /\ ui = "idle" /\ ~running
    /\ ui' = "settings"
    /\ UNCHANGED <<uiVars, worker, streak, card, stale, loose, faults>>

\* The radio is set up and the streamer made; each of these calls may throw.  "Master-
\* clock change leaves stale C2H USB packets" (223).
Settings ==
    /\ ui = "settings"
    /\ \/ ui' = "spawn" /\ streamer' = TRUE
       \/ ui' = "catch" /\ streamer' \in BOOLEAN
    /\ CardTo(card)
    /\ UNCHANGED <<running, writerStop, worker, streak, loose, faults>>

\* Assigning to a thread that is still joinable would end the program.
Spawn ==
    /\ ui = "spawn"
    /\ writerStop' = FALSE /\ running' = TRUE
    /\ \/ ui' = "command" /\ worker' = "recv" /\ streak' = 0
       \/ ui' = "catch" /\ UNCHANGED <<worker, streak>>
    /\ UNCHANGED <<streamer, card, stale, loose, faults>>

StartCommand ==
    /\ ui = "command"
    /\ \/ Obeyed("streaming") /\ ui' = "idle"
       \/ Threw("streaming") /\ ui' = "catch"
    /\ UNCHANGED <<uiVars, worker, streak, loose>>

\* The handler ends as stop() does, but sends no STOP.
Catch ==
    /\ ui = "catch" /\ ui' = "join"
    /\ running' = FALSE /\ writerStop' = TRUE /\ loose' = TRUE
    /\ UNCHANGED <<streamer, worker, streak, card, stale, faults>>

(***************************************************************************)
(* stop().  STOP leaves the card loose when a kick is past its test.        *)
(***************************************************************************)
\* Mutant: the writer is not told.
Stop_WriterWaits ==
    /\ ui = "idle" /\ running
    /\ running' = FALSE
    /\ ui' = "halt"
    /\ UNCHANGED <<writerStop, streamer, worker, streak, card, stale, loose, faults>>

Stop ==
    /\ ui = "idle" /\ running
    /\ running' = FALSE /\ writerStop' = TRUE
    /\ ui' = IF streamer THEN "halt" ELSE "join"
    /\ UNCHANGED <<streamer, worker, streak, card, stale, loose, faults>>

StopCommand ==
    /\ ui = "halt" /\ ui' = "join"
    /\ \/ Obeyed("stopped") /\ loose' = (worker = "kickStart")
       \/ Threw("stopped") /\ loose' = TRUE
    /\ UNCHANGED <<uiVars, worker, streak>>

\* Mutant: the thread is not waited for.
Join_Detached ==
    /\ ui = "join" /\ ui' = "reset"
    /\ UNCHANGED <<uiVars, worker, streak, card, stale, loose, faults>>

\* Mutant: the thread is only waited for.
Join_OnlyWaits ==
    /\ ui = "join" /\ worker \in {"none", "done"}
    /\ ui' = "reset"
    /\ UNCHANGED <<uiVars, worker, streak, card, stale, loose, faults>>

\* if (workerThread.joinable()) { workerThread.join(); }
Join ==
    /\ ui = "join" /\ worker \in {"none", "done"}
    /\ ui' = "reset" /\ worker' = "none"
    /\ UNCHANGED <<uiVars, streak, card, stale, loose, faults>>

Reset ==
    /\ ui = "reset" /\ ui' = "idle"
    /\ writerStop' = FALSE /\ streamer' = FALSE
    /\ UNCHANGED <<running, worker, streak, card, stale, loose, faults>>

-----------------------------------------------------------------------------
(***************************************************************************)
(* worker() and kickStream()                                               *)
(***************************************************************************)
WorkerTo(step) == worker' = step /\ UNCHANGED <<ui, uiVars, card, loose, faults>>

\* Above OverflowKick, streak is as good as one more than it.
Longer == IF streak > OverflowKick THEN streak ELSE streak + 1

\* recv found nothing or something broken: every kick-th in a row kicks.
Bad(kick) ==
    /\ streak' = Longer
    /\ WorkerTo(IF Longer = kick THEN "kickStop" ELSE "recv")

\* Something was there to receive.
Delivered ==
    \/ card = "streaming" /\ UNCHANGED stale
    \/ card # "streaming" /\ stale > 0 /\ stale' = stale - 1

\* What recv returned, while running: a timeout or an error, an overflow, or samples.
Recv ==
    /\ worker = "recv" /\ running
    /\ \/ Bad(TimeoutKick) /\ UNCHANGED stale
       \/ Delivered /\ Bad(OverflowKick)
       \/ Delivered /\ streak' = 0 /\ (WorkerTo("swap") \/ WorkerTo("recv"))

\* The loop ends when running is cleared, the thread when recv throws as well.
LeaveLoop ==
    /\ worker = "recv"
    /\ WorkerTo("done") /\ UNCHANGED <<streak, stale>>

\* swap() waits for the reader of the other buffer, who may never come ...
Swapped == worker = "swap" /\ WorkerTo("recv") /\ UNCHANGED <<streak, stale>>

\* ... and returns false when the writer was stopped.
SwapStopped == worker = "swap" /\ writerStop /\ WorkerTo("done") /\ UNCHANGED <<streak, stale>>

\* STOP; the streak starts again whatever becomes of the kick.
KickStop ==
    /\ worker = "kickStop"
    /\ streak' = 0
    /\ \/ Obeyed("stopped") /\ loose' = FALSE /\ worker' = "kickTest"
       \/ Threw("stopped") /\ worker' = "recv" /\ UNCHANGED loose
    /\ UNCHANGED <<ui, uiVars>>

\* Mutant: running is not asked.
KickTest_Always == worker = "kickTest" /\ WorkerTo("kickStart") /\ UNCHANGED <<streak, stale>>

\* Mutant: if (!running)
KickTest_Inverted ==
    /\ worker = "kickTest"
    /\ WorkerTo(IF running THEN "recv" ELSE "kickStart")
    /\ UNCHANGED <<streak, stale>>

\* 8 ms later: if (running)
KickTest ==
    /\ worker = "kickTest"
    /\ WorkerTo(IF running THEN "kickStart" ELSE "recv")
    /\ UNCHANGED <<streak, stale>>

\* START; running may have been cleared since the test.
KickStart ==
    /\ worker = "kickStart" /\ worker' = "recv"
    /\ Obeyed("streaming") \/ Threw("streaming")
    /\ UNCHANGED <<ui, uiVars, streak, loose>>

\* The stream dies in the card or in libpcie's rings.
Stall ==
    /\ card = "streaming" /\ CardTo("stalled")
    /\ UNCHANGED <<ui, uiVars, worker, streak, loose, faults>>

-----------------------------------------------------------------------------
UiStep == Settings \/ Spawn \/ StartCommand \/ Catch \/ StopCommand \/ Join \/ Reset

\* Steps the worker takes whatever others do; recv returns within 0.15 s.
WorkerStep ==
    Recv \/ (~running /\ LeaveLoop) \/ SwapStopped \/ KickStop \/ KickTest \/ KickStart

Next ==
    \/ Start \/ Stop \/ UiStep
    \/ Recv \/ LeaveLoop \/ Swapped \/ SwapStopped
    \/ KickStop \/ KickTest \/ KickStart
    \/ Stall

Spec == Init /\ [][Next]_vars /\ WF_vars(UiStep) /\ WF_vars(WorkerStep)

-----------------------------------------------------------------------------
TypeOK ==
    /\ ui \in {"idle", "settings", "spawn", "command", "catch", "halt", "join", "reset"}
    /\ running \in BOOLEAN /\ writerStop \in BOOLEAN /\ streamer \in BOOLEAN
    /\ worker \in {"none", "recv", "swap", "kickStop", "kickTest", "kickStart", "done"}
    /\ streak \in 0 .. OverflowKick + 1
    /\ card \in {"stopped", "streaming", "stalled"} /\ stale \in 0..MaxStale
    /\ loose \in BOOLEAN
    /\ faults \in 0..MaxFaults

\* streamer.reset() never takes the streamer from a worker that receives or
\* kicks, on the way through a failed start() as through stop().
StreamerOutlivesWorker == worker \notin {"none", "done"} => streamer

\* workerThread is assigned only when there is nothing to join, also after a
\* start() that failed and a worker that ended by itself.
NeverReplacesLiveThread == ui = "spawn" => worker = "none"

\* After stop() the card is stopped, although the worker may be restarting the
\* stream at that moment.  The ways it is not are three, kept in loose: a START
\* of a kick whose test of running came before stop(), a STOP that threw, and a
\* start() that failed, which sends none.  Each lasts until the next STOP.
StoppedMeansSilent == ui = "idle" /\ ~running /\ ~loose => card = "stopped"

\* start() and stop() return, also when nobody reads the stream any more.
CallsReturn == ui # "idle" ~> ui = "idle"

\* The card streams, or nobody owes it a START: stop() was called, or the worker
\* waits for its reader or is done.
StreamingOrExcused == card = "streaming" \/ ~running \/ worker \in {"none", "swap", "done"}

\* The streak has passed the value at which timeouts kick, without a kick.
KickSkipped == worker = "recv" /\ streak >= TimeoutKick

\* "Drain overflows and restart the stream instead of freezing" (patches/README.md:16).
\* It does not hold: the streak is compared for equality, so an overflow that makes
\* it 12 or more leaves timeouts nothing to kick at.
StreamRestarted == (card # "streaming" /\ running) ~> StreamingOrExcused

\* Nothing else freezes the stream: a quiet card is started again, whatever stale
\* packets and throwing commands come in between, unless the streak skips the kick.
OnlyASkippedKickFreezes ==
    (card # "streaming" /\ running) ~> (StreamingOrExcused \/ KickSkipped)
=============================================================================
