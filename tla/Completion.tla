----------------------------- MODULE Completion -----------------------------
(***************************************************************************)
(* The completion path: FPGA descriptors, the interrupt handler and az_read *)
(* of pcie-driver/mymodule.c, and the do_cb thread of libpcie that sleeps   *)
(* in az_read(NULL, 0) and drains the completion FIFO of the card.          *)
(*                                                                          *)
(* Slots descriptors go round: armed for the FPGA, completed in its FIFO,   *)
(* called back to the host and given back by the consumer.  Received data   *)
(* and control replies share the FIFO; reply is the place in it of the one  *)
(* control reply awaited, 0 when it is not there.  One MSI is raised per    *)
(* completion; it can be missed, and interrupts not yet handled coalesce.   *)
(* do_cb, the FPGA and the MSI are outside the repository: they are modelled *)
(* from az_read's comment, patch-libpcie.py and docs/sample-rate.md.        *)
(* mydev_poll and its counter poll_cond are not in this module.             *)
(***************************************************************************)
EXTENDS Integers

CONSTANTS
    Slots,      \* descriptors in circulation (at most 192 in libpcie)
    Modulus     \* do_cb's mask of the pending count plus one (0x1ff + 1)

ASSUME SlotsAssumption == Slots \in Nat \ {0}
ASSUME ModulusAssumption == Modulus \in Nat /\ Modulus > Slots

VARIABLES
    armed,      \* descriptors the FPGA may fill
    pend,       \* completions in the FIFO of the card (BAR0 0x1c)
    ready,      \* completions called back, their frames not given back yet
    reply,      \* place of the awaited control reply in the FIFO, or 0
    msi,        \* 1 when an interrupt is pending, else 0
    rd_cond,    \* the driver's counter of interrupts
    pc,         \* where the do_cb thread is
    left        \* completions do_cb still takes in this round

vars == <<armed, pend, ready, reply, msi, rd_cond, pc, left>>

Init ==
    /\ armed = Slots
    /\ pend = 0 /\ ready = 0 /\ reply = 0
    /\ msi = 0
    /\ rd_cond = 0
    /\ pc = "call"
    /\ left = 0

-----------------------------------------------------------------------------
\* The FPGA completes a descriptor: with data, or with the control reply.
Complete(isReply, raised) ==
    /\ armed > 0
    /\ isReply => reply = 0
    /\ armed' = armed - 1
    /\ pend' = pend + 1
    /\ reply' = IF isReply THEN pend + 1 ELSE reply
    /\ msi' = IF raised THEN 1 ELSE msi
    /\ UNCHANGED <<ready, rd_cond, pc, left>>

\* my_interrupt_handler
Interrupt ==
    /\ msi = 1
    /\ msi' = 0
    /\ rd_cond' = rd_cond + 1
    /\ UNCHANGED <<armed, pend, ready, reply, pc, left>>

\* az_read(NULL, 0): sleep only if no interrupt was counted.
Read ==
    /\ pc = "call"
    /\ pc' = IF rd_cond <= 0 THEN "sleep" ELSE "clear"
    /\ UNCHANGED <<armed, pend, ready, reply, msi, rd_cond, left>>

\* Mutant: az_read of r25, which on a timeout returns 0 to a caller that then
\* does not look at the pending count.
SleepEnds_R25 ==
    /\ pc = "sleep"
    /\ pc' = IF rd_cond >= 1 THEN "clear" ELSE "call"
    /\ UNCHANGED <<armed, pend, ready, reply, msi, rd_cond, left>>

\* The wait ends by an interrupt, after poll_ms or by a signal: all the same.
SleepEnds ==
    /\ pc = "sleep"
    /\ pc' = "clear"
    /\ UNCHANGED <<armed, pend, ready, reply, msi, rd_cond, left>>

\* Mutant: r25 counted one interrupt down per call.
Clear_R25 ==
    /\ pc = "clear"
    /\ rd_cond' = rd_cond - 1
    /\ pc' = "count"
    /\ UNCHANGED <<armed, pend, ready, reply, msi, left>>

\* atomic_set(&rd_cond, 0), return 1.  An interrupt counted since the test is
\* forgotten here.
Clear ==
    /\ pc = "clear"
    /\ rd_cond' = 0
    /\ pc' = "count"
    /\ UNCHANGED <<armed, pend, ready, reply, msi, left>>

\* Mutant: the mask of the vendor library, too narrow for the descriptors in
\* circulation (64 reads as 0).
PendingCount_Narrow(n) == n % Slots

\* Mutant: the loop runs once too often.
PendingCount_OneMore(n) == IF n = 0 THEN 0 ELSE n + 1

\* The pending count as do_cb sees it, after patch-libpcie.py.
PendingCount(n) == n % Modulus

ReadCount ==
    /\ pc = "count"
    /\ left' = PendingCount(pend)
    /\ pc' = IF left' = 0 THEN "call" ELSE "drain"
    /\ UNCHANGED <<armed, pend, ready, reply, msi, rd_cond>>

\* do_cb pops one completion (BAR0 0x1d) and calls it back.
Drain ==
    /\ pc = "drain"
    /\ pend' = pend - 1
    /\ ready' = ready + 1
    /\ reply' = IF reply > 0 THEN reply - 1 ELSE 0
    /\ left' = left - 1
    /\ pc' = IF left = 1 THEN "call" ELSE "drain"
    /\ UNCHANGED <<armed, msi, rd_cond>>

\* The consumer gives a frame back: its descriptor is armed again.
Resubmit ==
    /\ ready > 0
    /\ ready' = ready - 1
    /\ armed' = armed + 1
    /\ UNCHANGED <<pend, reply, msi, rd_cond, pc, left>>

DoCb == Read \/ SleepEnds \/ Clear \/ ReadCount \/ Drain

Next ==
    \/ \E isReply, raised \in BOOLEAN : Complete(isReply, raised)
    \/ Interrupt \/ Resubmit
    \/ Read \/ SleepEnds \/ Clear \/ ReadCount \/ Drain

Spec == Init /\ [][Next]_vars

(***************************************************************************)
(* Fairness: the kernel runs the do_cb thread and ends its wait after       *)
(* poll_ms, a pending interrupt is handled, the consumer gives its frames   *)
(* back.  The FPGA need not produce anything, and every MSI may be missed.  *)
(***************************************************************************)
FairSpec == Spec /\ WF_vars(DoCb) /\ WF_vars(Interrupt) /\ WF_vars(Resubmit)

-----------------------------------------------------------------------------
\* do_cb pops exactly completions that are there: popping an empty FIFO would
\* call back a descriptor the FPGA is still filling.
DrainsOnlyWhatIsPending == pc = "drain" => 1 <= left /\ left <= pend

\* rd_cond is an atomic_t that the handler only ever increments: that it cannot
\* overflow, however long do_cb is held up, rests on its being cleared once per
\* round and on the descriptors in circulation.
RdCondBounded == 0 <= rd_cond /\ rd_cond <= 2 * Slots + 1

\* A control reply behind received data reaches the host, though its MSI is
\* missed and no further completion follows.
ReplyArrives == (reply > 0) ~> (reply = 0)

\* Running out of descriptors is not for good: RX does not stop with every
\* descriptor stranded in the FIFO.
DescriptorsComeBack == (armed = 0) ~> (armed > 0)

-----------------------------------------------------------------------------
TypeOK ==
    /\ armed \in 0..Slots /\ pend \in 0..Slots /\ ready \in 0..Slots
    /\ armed + pend + ready = Slots
    /\ reply \in 0..pend
    /\ msi \in 0..1
    /\ rd_cond \in Nat
    /\ pc \in {"call", "sleep", "clear", "count", "drain"}
    /\ left \in 0..Slots

\* Interrupts counted or pending.
Signals == rd_cond + msi

\* Every signal since the counter was cleared, but one that may have been
\* pending then, belongs to a completion that is in the FIFO still or that this
\* round's count included.
IInv ==
    /\ TypeOK
    /\ DrainsOnlyWhatIsPending
    /\ pc = "count" => Signals <= 1 + pend
    /\ pc = "drain" => Signals <= 1 + Slots + pend - left
    /\ pc \in {"call", "sleep", "clear"} => Signals <= 1 + Slots + pend
=============================================================================
