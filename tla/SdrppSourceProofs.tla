-------------------------- MODULE SdrppSourceProofs --------------------------
(***************************************************************************)
(* SdrppSource for all limits of the streak and any number of commands that *)
(* throw and of stale packets.                                             *)
(***************************************************************************)
EXTENDS SdrppSource, TLAPS

\* What each step of the GUI thread may count on: before a thread is made there
\* is none, and none is left when its streamer goes.
UiKnows ==
    /\ ui = "idle" /\ ~running => worker = "none"
    /\ ui \in {"settings", "spawn", "reset"} => worker = "none"
    /\ ui \in {"settings", "spawn", "halt", "join", "reset"} => ~running
    /\ ui = "command" => running
    /\ running \/ ui = "spawn" => streamer

\* A card that has been started is stopped by a STOP still to come or by the
\* stop() still to be called, unless it is loose; a kick past its test is one
\* that stop() has not yet overtaken.
Leashed ==
    /\ card # "stopped" /\ ~loose => running \/ ui = "halt"
    /\ worker = "kickStart" /\ ~loose => running \/ ui = "halt"

Safe == UiKnows /\ StreamerOutlivesWorker /\ Leashed

IInv == TypeOK /\ Safe

\* The first state.
LEMMA InitIInv == Init => IInv
<1>1. Init => TypeOK
  <2>1. Init => 0 \in 0 .. OverflowKick + 1 /\ MaxFaults \in 0..MaxFaults
    BY FaultsAssumption, KickAssumption
  <2> QED BY <2>1 DEF Init, TypeOK
<1>2. Init => Safe
  BY DEF Init, Safe, UiKnows, StreamerOutlivesWorker, Leashed
<1> QED BY <1>1, <1>2 DEF IInv

\* Every step keeps the types: the cap of the streak and the faults left included.
LEMMA TypeStep == TypeOK /\ [Next]_vars => TypeOK'
<1> SUFFICES ASSUME TypeOK, [Next]_vars PROVE TypeOK'
  OBVIOUS
<1> USE KickAssumption, FaultsAssumption, StaleAssumption
    DEF TypeOK, uiVars, Obeyed, Threw, CardTo, WorkerTo
<1>1. CASE Start BY <1>1 DEF Start
<1>2. CASE Stop BY <1>2 DEF Stop
<1>a. 0 \in 0 .. OverflowKick + 1 OBVIOUS
<1>b. 0 \in 0..MaxStale /\ {0} \subseteq 0..MaxStale OBVIOUS
<1>c. ASSUME NEW c \in {"stopped", "streaming", "stalled"}, CardTo(c)
      PROVE  card' \in {"stopped", "streaming", "stalled"} /\ stale' \in 0..MaxStale
  BY <1>b, <1>c
<1>3. CASE Settings
  <2>1. card' \in {"stopped", "streaming", "stalled"} /\ stale' \in 0..MaxStale
    BY <1>3, <1>c DEF Settings
  <2> QED BY <1>3, <2>1 DEF Settings
<1>4. CASE Spawn BY <1>4, <1>a DEF Spawn
<1>5. CASE StartCommand BY <1>5 DEF StartCommand
<1>6. CASE Catch BY <1>6 DEF Catch
<1>7. CASE StopCommand
  <2>1. (worker = "kickStart") \in BOOLEAN OBVIOUS
  <2>2. loose' \in BOOLEAN BY <1>7, <2>1 DEF StopCommand
  <2>3. card' \in {"stopped", "streaming", "stalled"} /\ faults' \in 0..MaxFaults
    BY <1>7 DEF StopCommand
  <2> QED BY <1>7, <2>2, <2>3 DEF StopCommand
<1>8. CASE Join BY <1>8 DEF Join
<1>9. CASE Reset BY <1>9 DEF Reset
<1>10. CASE Recv
  <2>1. Longer \in 0 .. OverflowKick + 1 BY DEF Longer
  <2>2. streak' \in 0 .. OverflowKick + 1 BY <1>10, <1>a, <2>1 DEF Recv, Bad
  <2>3. /\ worker' \in {"recv", "swap", "kickStop"}
        /\ UNCHANGED <<ui, uiVars, card, loose, faults>>
    BY <1>10 DEF Recv, Bad
  <2>4. stale' = stale \/ (stale > 0 /\ stale' = stale - 1)
    BY <1>10 DEF Recv, Delivered
  <2>5. stale' \in 0..MaxStale BY <2>4
  <2> QED BY <2>2, <2>3, <2>5
<1>11. CASE LeaveLoop BY <1>11 DEF LeaveLoop
<1>12. CASE Swapped BY <1>12 DEF Swapped
<1>13. CASE SwapStopped BY <1>13 DEF SwapStopped
<1>14. CASE KickStop
  <2>1. loose' \in BOOLEAN BY <1>14 DEF KickStop
  <2>2. /\ card' \in {"stopped", "streaming", "stalled"} /\ stale' \in 0..MaxStale
        /\ faults' \in 0..MaxFaults
        /\ worker' \in {"recv", "kickTest"} /\ UNCHANGED <<ui, uiVars>> /\ streak' = 0
    BY <1>14 DEF KickStop
  <2> QED BY <2>1, <2>2, <1>a
<1>15. CASE KickTest BY <1>15 DEF KickTest
<1>16. CASE KickStart BY <1>16 DEF KickStart
<1>17. CASE Stall BY <1>17 DEF Stall
<1>18. CASE UNCHANGED vars BY <1>18 DEF vars
<1>19. QED
  BY <1>1, <1>2, <1>3, <1>4, <1>5, <1>6, <1>7, <1>8, <1>9, <1>10, <1>11, <1>12, <1>13,
     <1>14, <1>15, <1>16, <1>17, <1>18 DEF Next, UiStep

\* Every step keeps what the GUI thread counts on, the streamer under the worker,
\* and the leash.
LEMMA SafeStep == IInv /\ [Next]_vars => Safe'
<1> SUFFICES ASSUME IInv, [Next]_vars PROVE Safe'
  OBVIOUS
<1> USE DEF IInv, Safe, UiKnows, StreamerOutlivesWorker, Leashed, uiVars, Obeyed, Threw,
            CardTo, WorkerTo
<1>1. CASE Start BY <1>1 DEF Start
<1>2. CASE Stop
  <2>1. streamer /\ ui' = "halt" /\ ~running' BY <1>2 DEF Stop
  <2>2. UNCHANGED <<streamer, worker, card, loose>> BY <1>2 DEF Stop
  <2> QED BY <2>1, <2>2
<1>3. CASE Settings BY <1>3 DEF Settings
<1>4. CASE Spawn BY <1>4 DEF Spawn
<1>5. CASE StartCommand BY <1>5 DEF StartCommand
<1>6. CASE Catch BY <1>6 DEF Catch
<1>7. CASE StopCommand
  <2>1. ui = "halt" /\ ui' = "join" /\ ~running' /\ worker' = worker /\ streamer' = streamer
    BY <1>7 DEF StopCommand
  <2>2. loose' \/ (card' = "stopped" /\ worker # "kickStart")
    BY <1>7 DEF StopCommand
  <2> QED BY <2>1, <2>2
<1>8. CASE Join BY <1>8 DEF Join
<1>9. CASE Reset BY <1>9 DEF Reset
<1>10. CASE Recv
  <2>1. worker = "recv" /\ worker' \in {"recv", "swap", "kickStop"}
    BY <1>10 DEF Recv, Bad
  <2>2. UNCHANGED <<ui, uiVars, card, loose>> BY <1>10 DEF Recv, Bad
  <2> QED BY <2>1, <2>2
<1>11. CASE LeaveLoop BY <1>11 DEF LeaveLoop
<1>12. CASE Swapped BY <1>12 DEF Swapped
<1>13. CASE SwapStopped BY <1>13 DEF SwapStopped
<1>14. CASE KickStop BY <1>14 DEF KickStop
<1>15. CASE KickTest BY <1>15 DEF KickTest
<1>16. CASE KickStart BY <1>16 DEF KickStart
<1>17. CASE Stall BY <1>17 DEF Stall
<1>18. CASE UNCHANGED vars BY <1>18 DEF vars
<1>19. QED
  BY <1>1, <1>2, <1>3, <1>4, <1>5, <1>6, <1>7, <1>8, <1>9, <1>10, <1>11, <1>12, <1>13,
     <1>14, <1>15, <1>16, <1>17, <1>18 DEF Next, UiStep

\* The inductive invariant holds in every run of the two threads.
THEOREM Inductive == Spec => []IInv
<1>1. IInv /\ [Next]_vars => IInv'
  BY TypeStep, SafeStep DEF IInv
<1>2. QED BY InitIInv, <1>1, PTL DEF Spec

\* streamer.reset() never takes the streamer from a worker that uses it.
THEOREM Outlives == Spec => []StreamerOutlivesWorker
<1>1. IInv => StreamerOutlivesWorker BY DEF IInv, Safe
<1>2. QED BY <1>1, Inductive, PTL

\* workerThread is assigned only when it is not joinable.
THEOREM NoLiveThread == Spec => []NeverReplacesLiveThread
<1>1. IInv => NeverReplacesLiveThread BY DEF IInv, Safe, UiKnows, NeverReplacesLiveThread
<1>2. QED BY <1>1, Inductive, PTL

\* Whatever kick was under way, stop() leaves a card that is not loose stopped.
THEOREM Silent == Spec => []StoppedMeansSilent
<1>1. IInv => StoppedMeansSilent BY DEF IInv, Safe, Leashed, StoppedMeansSilent
<1>2. QED BY <1>1, Inductive, PTL
\* While stop(), or a failed start(), waits for the worker, it has told it to
\* end and its writer not to wait: the worker then has a step of its own in
\* every place it may be, a full stream with no reader included.  This is the
\* safety half of CallsReturn.
ToldBeforeWaiting == ui \in {"halt", "join"} => ~running /\ writerStop

\* Until reset() clears it after the join, nothing clears the flag of the writer:
\* the only other place that does is start(), which cannot run meanwhile.
THEOREM Told == Spec => []ToldBeforeWaiting
<1> DEFINE Stopped == ui \in {"halt", "join", "reset"} => writerStop
<1>1. Init => Stopped
  BY DEF Init
<1>2. IInv /\ Stopped /\ [Next]_vars => Stopped'
  BY DEF Next, UiStep, Start, Stop, Settings, Spawn, StartCommand, Catch, StopCommand, Join,
         Reset, Recv, Bad, LeaveLoop, Swapped, SwapStopped, KickStop, KickTest, KickStart,
         Stall, WorkerTo, uiVars, vars
<1>3. IInv /\ Stopped => ToldBeforeWaiting
  BY DEF IInv, Safe, UiKnows, ToldBeforeWaiting
<1> QED BY <1>1, <1>2, <1>3, Inductive, PTL DEF Spec
=============================================================================
