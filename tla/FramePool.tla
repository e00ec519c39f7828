----------------------------- MODULE FramePool -----------------------------
(***************************************************************************)
(* What the zero-copy transport promises, with none of its threads, locks  *)
(* or flags: a fixed pool of frames.  The caller entrusts a frame to the   *)
(* transport (for a receive transport: an empty frame to be filled; for a  *)
(* send transport: a full frame to be sent).  The hardware finishes the    *)
(* entrusted frames in any order; they are handed back to the caller in    *)
(* the order in which they were entrusted, each one once per trip.  After  *)
(* a failed submission the pool is broken: frames given back are kept.     *)
(***************************************************************************)
EXTENDS Sequences, FiniteSets, Functions

CONSTANT Frames     \* the managed buffers of one transport

VARIABLES
    line,     \* frames entrusted to the transport, oldest first
    done,     \* those of them that the hardware has finished
    held,     \* frames in the hands of the caller
    lost,     \* frames given back after the pool broke
    broken    \* a submission has failed

poolVars == <<line, done, held, lost, broken>>

Entrusted == Range(line)

-----------------------------------------------------------------------------

\* A receive pool starts with every frame waiting for data, a send pool with
\* every frame finished, so that it can be filled.
PoolInit ==
    /\ line \in Seq(Frames)
    /\ Entrusted = Frames
    /\ IsInjective(line)
    /\ done \in {{}, Frames}
    /\ held = {}
    /\ lost = {}
    /\ broken = FALSE

Finish(f) ==
    /\ f \in Entrusted \ done
    /\ done' = done \cup {f}
    /\ UNCHANGED <<line, held, lost, broken>>

HandOver ==
    /\ line # <<>>
    /\ Head(line) \in done
    /\ held' = held \cup {Head(line)}
    /\ done' = done \ {Head(line)}
    /\ line' = Tail(line)
    /\ UNCHANGED <<lost, broken>>

Entrust(f) ==
    /\ f \in held
    /\ ~broken
    /\ held' = held \ {f}
    /\ line' = Append(line, f)
    /\ UNCHANGED <<done, lost, broken>>

Lose(f) ==
    /\ f \in held
    /\ held' = held \ {f}
    /\ lost' = lost \cup {f}
    /\ broken' = TRUE
    /\ UNCHANGED <<line, done>>

PoolNext == HandOver \/ \E f \in Frames : Finish(f) \/ Entrust(f) \/ Lose(f)

PoolSpec == PoolInit /\ [][PoolNext]_poolVars

=============================================================================
