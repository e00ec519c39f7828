-------------------------- MODULE CompletionProofs --------------------------
(***************************************************************************)
(* Proofs about Completion, for every number of descriptors and every mask *)
(* wider than it.                                                          *)
(***************************************************************************)
EXTENDS Completion, TLAPS

\* The masked count is the true count: no backlog is misread.
LEMMA CountIsExact == \A n \in 0..Slots : PendingCount(n) = n
BY SlotsAssumption, ModulusAssumption DEF PendingCount

\* Before the stream starts nothing is pending and no interrupt is counted.
LEMMA InitIInv == Init => IInv
BY SlotsAssumption DEF Init, IInv, TypeOK, DrainsOnlyWhatIsPending, Signals

\* Every step of the handler, the reader, the consumer and the card keeps it.
LEMMA NextIInv == IInv /\ [Next]_vars => IInv'
<1> SUFFICES ASSUME IInv, [Next]_vars PROVE IInv'
  OBVIOUS
<1> USE SlotsAssumption DEF IInv, TypeOK, DrainsOnlyWhatIsPending, Signals
<1>1. ASSUME NEW isReply \in BOOLEAN, NEW raised \in BOOLEAN, Complete(isReply, raised)
      PROVE  IInv'
  <2>1. Signals' <= Signals + 1 /\ rd_cond' = rd_cond /\ msi' \in 0..1
    BY <1>1 DEF Complete
  <2>2. reply' \in 0..pend'
    BY <1>1 DEF Complete
  <2> QED
    BY <1>1, <2>1, <2>2 DEF Complete
<1>2. CASE Interrupt
  BY <1>2 DEF Interrupt
<1>3. CASE Resubmit
  BY <1>3 DEF Resubmit
<1>4. CASE Read
  BY <1>4 DEF Read
<1>5. CASE SleepEnds
  BY <1>5 DEF SleepEnds
<1>6. CASE Clear
  BY <1>6 DEF Clear
<1>7. CASE ReadCount
  <2>1. left' = pend
    BY <1>7, CountIsExact DEF ReadCount
  <2> QED
    BY <1>7, <2>1 DEF ReadCount
<1>8. CASE Drain
  BY <1>8 DEF Drain
<1>9. CASE UNCHANGED vars
  BY <1>9 DEF vars
<1> QED
  BY <1>1, <1>2, <1>3, <1>4, <1>5, <1>6, <1>7, <1>8, <1>9 DEF Next

\* Every behaviour of the completion path satisfies the inductive invariant.
THEOREM Inductive == Spec => []IInv
<1> QED
  BY InitIInv, NextIInv, PTL DEF Spec

\* do_cb never pops a completion that is not there.
THEOREM NeverPopsEmpty == Spec => []DrainsOnlyWhatIsPending
<1>1. IInv => DrainsOnlyWhatIsPending
  BY DEF IInv
<1> QED
  BY <1>1, Inductive, PTL

\* The interrupt counter is bounded by the descriptors in circulation.
THEOREM CounterBounded == Spec => []RdCondBounded
<1>1. IInv => RdCondBounded
  BY SlotsAssumption DEF IInv, TypeOK, DrainsOnlyWhatIsPending, Signals, RdCondBounded
<1> QED
  BY <1>1, Inductive, PTL
=============================================================================
