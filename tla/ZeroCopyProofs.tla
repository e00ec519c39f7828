--------------------------- MODULE ZeroCopyProofs ---------------------------
(***************************************************************************)
(* Proofs about ZeroCopy, for every finite set of frames and every set of  *)
(* getters.                                                                *)
(***************************************************************************)
EXTENDS ZeroCopy, FiniteSetTheorems, FunctionTheorems, SequenceTheorems, TLAPS

-----------------------------------------------------------------------------
(***************************************************************************)
(* Sequences without repetitions.                                          *)
(***************************************************************************)
\* There are as many frames as a natural number.
LEMMA NIsNat == N \in Nat
BY FramesAssumption, FS_CardinalityType DEF N

\* A queue of distinct frames fits its circular buffer, with room to spare when
\* some frame is elsewhere.
LEMMA DistinctFramesFit ==
    ASSUME NEW s \in Seq(Frames), IsInjective(s)
    PROVE  /\ Len(s) <= N
           /\ \A f \in Frames \ Range(s) : Len(s) < N
<1> DEFINE D == 1..Len(s)
<1>1. /\ Len(s) \in Nat
      /\ s \in [D -> Frames]
      /\ DOMAIN s = D
  BY LenProperties
<1>2. s \in Injection(D, Frames)
  BY <1>1 DEF Injection
<1>3. Cardinality(D) = Len(s)
  BY <1>1, FS_Interval
<1>4. Len(s) <= N /\ (Len(s) = N <=> s \in Surjection(D, Frames))
  BY <1>2, <1>3, FS_Injection, FramesAssumption DEF N
<1>5. ASSUME NEW f \in Frames \ Range(s)
      PROVE  s \notin Surjection(D, Frames)
  BY <1>1, <1>5 DEF Surjection, Range
<1>6. Len(s) \in Nat
  BY <1>1
<1>7. ASSUME NEW f \in Frames \ Range(s)
      PROVE  Len(s) < N
  BY <1>4, <1>5, <1>6, <1>7, NIsNat
<1> QED
  BY <1>4, <1>7

\* push_back of a frame that is not in a queue keeps the queue free of repeats.
LEMMA AppendDistinct ==
    ASSUME NEW s \in Seq(Frames), IsInjective(s), NEW f \in Frames \ Range(s)
    PROVE  /\ Append(s, f) \in Seq(Frames)
           /\ IsInjective(Append(s, f))
           /\ Range(Append(s, f)) = Range(s) \cup {f}
           /\ Append(s, f) # <<>>
           /\ s # <<>> => Head(Append(s, f)) = Head(s)
<1> DEFINE t == Append(s, f)
<1>1. /\ t \in Seq(Frames)
      /\ Len(s) \in Nat
      /\ Len(t) = Len(s) + 1
      /\ DOMAIN t = 1..(Len(s) + 1)
      /\ DOMAIN s = 1..Len(s)
      /\ \A i \in 1..Len(s) : t[i] = s[i]
      /\ t[Len(s) + 1] = f
  BY LenProperties
<1>2. IsInjective(t)
  BY <1>1 DEF IsInjective, Range
<1>3. Range(t) = Range(s) \cup {f}
  BY <1>1 DEF Range
<1>4. s # <<>> => Head(t) = Head(s)
  BY <1>1
<1>5. t # <<>>
  BY <1>1, EmptySeq
<1> QED
  BY <1>1, <1>2, <1>3, <1>4, <1>5

\* pop_front takes one frame out of the queue and keeps the others, once each.
LEMMA TailDistinct ==
    ASSUME NEW s \in Seq(Frames), IsInjective(s), s # <<>>
    PROVE  /\ Head(s) \in Range(s)
           /\ Tail(s) \in Seq(Frames)
           /\ IsInjective(Tail(s))
           /\ Range(Tail(s)) = Range(s) \ {Head(s)}
<1> DEFINE t == Tail(s)
<1>1. /\ Len(s) \in Nat \ {0}
      /\ t \in Seq(Frames)
      /\ Len(t) = Len(s) - 1
      /\ DOMAIN s = 1..Len(s)
      /\ DOMAIN t = 1..(Len(s) - 1)
      /\ Head(s) = s[1]
      /\ \A i \in 1..(Len(s) - 1) : t[i] = s[i + 1]
  BY LenProperties, HeadTailProperties, EmptySeq
<1>2. Head(s) \in Range(s)
  BY <1>1 DEF Range
<1>3. IsInjective(t)
  BY <1>1 DEF IsInjective
<1>4. Range(t) \subseteq Range(s) \ {Head(s)}
  BY <1>1 DEF Range, IsInjective
<1>5. ASSUME NEW x \in Range(s) \ {Head(s)}
      PROVE  x \in Range(t)
  <2>1. PICK i \in 1..Len(s) : s[i] = x
    BY <1>1, <1>5 DEF Range
  <2>2. i - 1 \in 1..(Len(s) - 1) /\ t[i - 1] = x
    BY <2>1, <1>1, <1>5
  <2> QED
    BY <2>2, <1>1 DEF Range
<1> QED
  BY <1>1, <1>2, <1>3, <1>4, <1>5

\* The empty queue holds no frame.
LEMMA EmptyDistinct ==
    <<>> \in Seq(Frames) /\ Len(<<>>) = 0 /\ Range(<<>>) = {} /\ IsInjective(<<>>)
BY DEF Range, IsInjective

-----------------------------------------------------------------------------
(***************************************************************************)
(* submit_what_we_can in the two situations in which it is called.         *)
(***************************************************************************)

\* With nothing released, or after an error, it changes nothing and does not
\* throw.
LEMMA SubmitNothing ==
    \A enq, rel \in Seq(Frames), st \in STATUS : \A o :
        /\ Len(enq) <= N
        /\ st = "RUNNING" => rel = <<>>
        /\ o \in SubmitWhatWeCan(enq, rel, st)
        => /\ o.enq = enq /\ o.rel = rel /\ o.st = st
           /\ o.sub = {} /\ o.threw = FALSE
<1> TAKE enq, rel \in Seq(Frames), st \in STATUS
<1> TAKE o
<1> HAVE /\ Len(enq) <= N
         /\ st = "RUNNING" => rel = <<>>
         /\ o \in SubmitWhatWeCan(enq, rel, st)
<1>1. CASE st = "ERROR"
  BY <1>1 DEF SubmitWhatWeCan
<1>2. CASE st = "RUNNING"
  <2>1. rel = <<>> /\ Len(rel) = 0 /\ N - Len(enq) >= 0
    BY <1>2, NIsNat, LenProperties
  <2>2. PICK k \in 0..0 :
           o = [enq   |-> enq \o SubSeq(rel, 1, k),
                rel   |-> SubSeq(rel, k + 1, 0),
                st    |-> IF k = 0 THEN "RUNNING" ELSE "ERROR",
                sub   |-> {rel[i] : i \in 1..k},
                threw |-> k # 0]
    <3>1. Len(rel) <= N - Len(enq)
      BY <2>1
    <3> QED
      BY <1>2, <2>1, <3>1 DEF SubmitWhatWeCan
  <2>3. k = 0
    OBVIOUS
  <2>4. SubSeq(rel, 1, k) = <<>> /\ SubSeq(rel, k + 1, 0) = <<>>
    BY <2>3, SubSeqEmpty
  <2>5. enq \o <<>> = enq
    BY ConcatEmptySeq
  <2>6. {rel[i] : i \in 1..k} = {}
    BY <2>3
  <2> QED
    BY <1>2, <2>1, <2>2, <2>3, <2>4, <2>5, <2>6
<1> QED
  BY <1>1, <1>2 DEF STATUS

\* With one frame released and room for it, the frame is submitted or refused.
LEMMA SubmitOne ==
    \A enq \in Seq(Frames), f \in Frames : \A o :
        Len(enq) < N /\ o \in SubmitWhatWeCan(enq, Append(<<>>, f), "RUNNING")
        => \/ /\ o.enq = Append(enq, f) /\ o.rel = <<>>
              /\ o.st = "RUNNING" /\ o.sub = {f}
           \/ /\ o.enq = enq /\ o.rel = Append(<<>>, f)
              /\ o.st = "ERROR" /\ o.sub = {}
<1> SUFFICES ASSUME NEW enq \in Seq(Frames), NEW f \in Frames, NEW o,
                    Len(enq) < N, o \in SubmitWhatWeCan(enq, Append(<<>>, f), "RUNNING")
             PROVE  \/ /\ o.enq = Append(enq, f) /\ o.rel = <<>>
                       /\ o.st = "RUNNING" /\ o.sub = {f}
                    \/ /\ o.enq = enq /\ o.rel = Append(<<>>, f)
                       /\ o.st = "ERROR" /\ o.sub = {}
  OBVIOUS
<1> DEFINE rel == Append(<<>>, f)
<1>1. /\ rel = <<f>>
      /\ rel \in Seq(Frames)
      /\ Len(rel) = 1
      /\ rel[1] = f
  OBVIOUS
<1>2. Len(enq) \in Nat /\ 1 <= N - Len(enq)
  BY NIsNat, LenProperties
<1> HIDE DEF rel
<1>3. PICK k \in 0..1 :
         o = [enq   |-> enq \o SubSeq(rel, 1, k),
              rel   |-> SubSeq(rel, k + 1, 1),
              st    |-> IF k = 1 THEN "RUNNING" ELSE "ERROR",
              sub   |-> {rel[i] : i \in 1..k},
              threw |-> k # 1]
  BY <1>1, <1>2 DEF SubmitWhatWeCan, rel
<1>4. CASE k = 1
  <2>1. SubSeq(rel, 1, 1) = rel
    BY <1>1, SubSeqFull
  <2>2. SubSeq(rel, 2, 1) = <<>>
    BY SubSeqEmpty
  <2>3. enq \o rel = Append(enq, f)
    BY <1>1
  <2>4. {rel[i] : i \in 1..1} = {f}
    BY <1>1
  <2> QED
    BY <1>3, <1>4, <2>1, <2>2, <2>3, <2>4
<1>5. CASE k = 0
  <2>1. SubSeq(rel, 1, 1) = rel
    BY <1>1, SubSeqFull
  <2>2. SubSeq(rel, 1, 0) = <<>>
    BY SubSeqEmpty
  <2>3. enq \o <<>> = enq
    BY ConcatEmptySeq
  <2>4. {rel[i] : i \in 1..0} = {}
    OBVIOUS
  <2> QED
    BY <1>3, <1>5, <2>1, <2>2, <2>3, <2>4 DEF rel
<1> QED
  BY <1>4, <1>5

-----------------------------------------------------------------------------
(***************************************************************************)
(* The inductive invariant.                                                *)
(***************************************************************************)

\* The constructor leaves every frame in _enqueued, once.
LEMMA InitIInv == Init => IInv
<1> SUFFICES ASSUME Init PROVE IInv
  OBVIOUS
<1> USE NIsNat
<1>1. enqueued \in Seq(Frames) /\ Len(enqueued) = N /\ DOMAIN enqueued = 1..N
  BY SeqDef DEF Init
<1>2. enqueued \in Surjection(1..N, Frames)
  BY DEF Init, Range, Surjection
<1>3. IsFiniteSet(1..N) /\ Cardinality(1..N) = N
  BY FS_Interval
<1>4. enqueued \in Injection(1..N, Frames)
  BY <1>2, <1>3, FS_SurjSameCardinalityImpliesInj DEF N
<1>5. IsInjective(enqueued)
  BY <1>4 DEF Injection
<1>6. TypeOK
  <2>1. enqueued \in Seq(Frames) /\ Len(enqueued) <= N
    BY <1>1
  <2>2. released \in Seq(Frames) /\ Len(released) <= N
    BY EmptyDistinct DEF Init
  <2>3. completed \in [Frames -> BOOLEAN] /\ inDriver \subseteq Frames
    BY DEF Init
  <2> QED
    BY <2>1, <2>2, <2>3 DEF Init, TypeOK, PC, STATUS
<1>7. EveryFrameInOnePlace
  BY <1>5, EmptyDistinct DEF Init, EveryFrameInOnePlace
<1>8. CompletionAccounted
  BY DEF Init, CompletionAccounted, Taken
<1>9. /\ PopsTheFrameItWaitedFor
      /\ NothingLeftReleased
      /\ \A g \in Getters : pc[g] # "idle" <=> getMutex = g
      /\ \A g \in Getters : pc[g] = "take" => completed[front[g]]
  BY GettersAssumption DEF Init, PopsTheFrameItWaitedFor, NothingLeftReleased
<1> QED
  BY <1>6, <1>7, <1>8, <1>9 DEF IInv

\* A step of one getter that touches neither queue nor any flag and does not
\* lead to or from "pop".
LEMMA GetterMoves ==
    ASSUME IInv, NEW g \in Getters, NEW l \in PC \ {"pop"},
           pc[g] # "pop",
           getMutex \in {g, NoThread},
           pc' = [pc EXCEPT ![g] = l],
           front' \in [Getters -> Frames],
           forever' \in [Getters -> BOOLEAN],
           \A h \in Getters \ {g} : front'[h] = front[h],
           getMutex' = IF l = "idle" THEN NoThread ELSE g,
           l \in {"head", "waitDone", "take", "giveUp"} =>
               enqueued # <<>> /\ front'[g] = Head(enqueued),
           l = "take" => completed[front'[g]],
           UNCHANGED <<queueVars, completed, inDriver, held, life>>
    PROVE  IInv'
<1>1. TypeOK'
  BY DEF IInv, TypeOK, queueVars, PC
<1>2. EveryFrameInOnePlace'
  BY DEF IInv, EveryFrameInOnePlace, queueVars
<1>3. Taken' = Taken
  BY DEF Taken, IInv, TypeOK
<1>4. CompletionAccounted'
  BY <1>3 DEF IInv, CompletionAccounted, queueVars
<1>5. NothingLeftReleased'
  BY DEF IInv, NothingLeftReleased, queueVars
<1>6. (\A h \in Getters : pc[h] # "idle" <=> getMutex = h)'
  BY GettersAssumption DEF IInv, TypeOK
<1>7. PopsTheFrameItWaitedFor'
  BY DEF IInv, TypeOK, PopsTheFrameItWaitedFor, queueVars
<1>8. (\A h \in Getters : pc[h] = "take" => completed[front[h]])'
  BY DEF IInv, TypeOK
<1> QED
  BY <1>1, <1>2, <1>4, <1>5, <1>6, <1>7, <1>8 DEF IInv

\* get_new, which clears the flag of the front buffer, keeps the invariant.
LEMMA TakeHeadIInv ==
    ASSUME IInv, NEW g \in Getters, TakeHead(g)
    PROVE  IInv'
<1> USE DEF TakeHead, Goto, queueVars
<1>1. TypeOK'
  BY DEF IInv, TypeOK, PC
<1>2. EveryFrameInOnePlace'
  BY DEF IInv, EveryFrameInOnePlace
<1>3. Taken = {} /\ Taken' = {front[g]}
  BY GettersAssumption DEF IInv, TypeOK, Taken
<1>4. CompletionAccounted'
  <2>1. completed[front[g]] /\ front[g] \in Frames
    BY DEF IInv, TypeOK
  <2> QED
    BY <1>3, <2>1 DEF IInv, TypeOK, CompletionAccounted
<1>5. PopsTheFrameItWaitedFor'
  BY DEF IInv, TypeOK, PopsTheFrameItWaitedFor
<1>6. NothingLeftReleased'
  BY DEF IInv, NothingLeftReleased
<1>7. /\ (\A h \in Getters : pc[h] # "idle" <=> getMutex = h)'
      /\ (\A h \in Getters : pc[h] = "take" => completed[front[h]])'
  BY GettersAssumption DEF IInv, TypeOK
<1> QED
  BY <1>1, <1>2, <1>4, <1>5, <1>6, <1>7 DEF IInv

\* Nothing is released while the transport runs, so that the submissions of
\* get_buff change nothing and pop_front alone has an effect.
LEMMA PopEffect ==
    ASSUME IInv, NEW g \in Getters, Pop(g)
    PROVE  /\ enqueued' = Tail(enqueued)
           /\ UNCHANGED <<released, status, inDriver>>
           /\ held' = held \cup {front[g]}
           /\ front[g] = Head(enqueued) /\ enqueued # <<>>
<1>1. enqueued # <<>> /\ front[g] = Head(enqueued)
  BY DEF Pop, IInv, PopsTheFrameItWaitedFor
<1> DEFINE rest == Tail(enqueued)
<1>2. rest \in Seq(Frames) /\ Len(rest) <= N
  BY <1>1, TailDistinct, DistinctFramesFit DEF IInv, TypeOK, EveryFrameInOnePlace
<1>3. PICK o \in SubmitWhatWeCan(rest, released, status) :
         /\ Submitted(o)
         /\ released' = IF o.threw THEN Append(o.rel, front[g]) ELSE o.rel
         /\ held' = IF o.threw THEN held ELSE held \cup {front[g]}
  BY DEF Pop
<1>4. /\ o.enq = rest /\ o.rel = released /\ o.st = status
      /\ o.sub = {} /\ o.threw = FALSE
  <2> HIDE DEF rest
  <2>1. /\ released \in Seq(Frames)
        /\ status \in STATUS
        /\ status = "RUNNING" => released = <<>>
    BY DEF IInv, TypeOK, NothingLeftReleased
  <2> QED
    BY <1>2, <1>3, <2>1, SubmitNothing
<1> QED
  BY <1>1, <1>3, <1>4 DEF Submitted

\* The pop of _enqueued when get_buff succeeds keeps the invariant.
LEMMA PopIInv ==
    ASSUME IInv, NEW g \in Getters, Pop(g)
    PROVE  IInv'
<1>1. /\ pc[g] = "pop" /\ getMutex = g
      /\ pc' = [pc EXCEPT ![g] = "idle"]
      /\ getMutex' = NoThread
      /\ UNCHANGED <<completed, front, forever, life>>
  BY DEF Pop, Leave, Goto, IInv
<1>2. /\ front[g] \in Range(enqueued)
      /\ enqueued' \in Seq(Frames)
      /\ IsInjective(enqueued')
      /\ Range(enqueued') = Range(enqueued) \ {front[g]}
  <2>1. enqueued \in Seq(Frames) /\ IsInjective(enqueued)
    BY DEF IInv, TypeOK, EveryFrameInOnePlace
  <2>2. /\ enqueued # <<>> /\ front[g] = Head(enqueued)
        /\ enqueued' = Tail(enqueued)
    BY PopEffect
  <2> QED
    BY <2>1, <2>2, TailDistinct
<1>3. TypeOK'
  BY <1>1, <1>2, PopEffect, DistinctFramesFit DEF IInv, TypeOK, PC
<1>4. EveryFrameInOnePlace'
  BY <1>2, PopEffect DEF IInv, EveryFrameInOnePlace
<1>5. Taken = {front[g]} /\ Taken' = {}
  BY <1>1, GettersAssumption DEF IInv, TypeOK, Taken
<1>6. CompletionAccounted'
  BY <1>1, <1>2, <1>5, PopEffect DEF IInv, CompletionAccounted
<1>7. (\A h \in Getters : pc[h] = "idle")'
  BY <1>1 DEF IInv, TypeOK
<1>8. NothingLeftReleased'
  BY PopEffect DEF IInv, NothingLeftReleased
<1> QED
  BY <1>1, <1>3, <1>4, <1>6, <1>7, <1>8, GettersAssumption
     DEF IInv, PopsTheFrameItWaitedFor

\* get_buff without a buffer submits nothing: nothing is in _released to submit.
LEMMA GiveUpEffect ==
    ASSUME IInv, NEW g \in Getters, GiveUp(g)
    PROVE  UNCHANGED <<queueVars, inDriver>>
<1>1. PICK o \in SubmitWhatWeCan(enqueued, released, status) :
         Submitted(o) /\ released' = o.rel
  BY DEF GiveUp
<1>2. /\ o.enq = enqueued /\ o.rel = released /\ o.st = status
      /\ o.sub = {} /\ o.threw = FALSE
  <2>1. /\ enqueued \in Seq(Frames) /\ Len(enqueued) <= N
        /\ released \in Seq(Frames)
        /\ status \in STATUS
        /\ status = "RUNNING" => released = <<>>
    BY DEF IInv, TypeOK, NothingLeftReleased
  <2> QED
    BY <1>1, <2>1, SubmitNothing
<1> QED
  BY <1>1, <1>2 DEF Submitted, queueVars

\* get_buff that times out keeps the invariant.
LEMMA GiveUpIInv ==
    ASSUME IInv, NEW g \in Getters, GiveUp(g)
    PROVE  IInv'
<1>1. /\ pc[g] = "giveUp"
      /\ pc' = [pc EXCEPT ![g] = "idle"]
      /\ getMutex' = NoThread
      /\ UNCHANGED <<completed, held, front, forever, life>>
  BY DEF GiveUp, Leave, Goto
<1>2. getMutex = g
  BY <1>1 DEF IInv
<1>3. front \in [Getters -> Frames] /\ forever \in [Getters -> BOOLEAN]
  BY DEF IInv, TypeOK
<1> QED
  BY <1>1, <1>2, <1>3, GiveUpEffect, GetterMoves DEF PC

\* What a release does to the queues: the frame is queued, or it is refused and
\* is all there is in _released, or the transport had failed before.
LEMMA ReleaseEffect ==
    ASSUME IInv, NEW f \in Frames, Release(f)
    PROVE  /\ f \in held /\ held' = held \ {f}
           /\ UNCHANGED <<completed, getterVars, life>>
           /\ \/ /\ status = "RUNNING" /\ status' = "RUNNING"
                 /\ released = <<>> /\ released' = <<>>
                 /\ enqueued' = Append(enqueued, f)
                 /\ inDriver' = inDriver \cup {f}
              \/ /\ status' = "ERROR"
                 /\ released' = Append(released, f)
                 /\ UNCHANGED <<enqueued, inDriver>>
<1>1. PICK o \in SubmitWhatWeCan(enqueued, Append(released, f), status) :
         Submitted(o) /\ released' = o.rel
  BY DEF Release
<1>2. CASE status = "ERROR"
  <2>1. o = [enq |-> enqueued, rel |-> Append(released, f), st |-> status,
             sub |-> {}, threw |-> FALSE]
    BY <1>1, <1>2 DEF SubmitWhatWeCan
  <2> QED
    BY <1>1, <1>2, <2>1 DEF Release, Submitted
<1>3. CASE status = "RUNNING"
  <2>1. released = <<>>
    BY <1>3 DEF IInv, NothingLeftReleased
  <2>2. enqueued \in Seq(Frames) /\ Len(enqueued) < N
    <3>1. enqueued \in Seq(Frames) /\ IsInjective(enqueued) /\ f \in Frames \ Range(enqueued)
      BY DEF IInv, TypeOK, EveryFrameInOnePlace, Release
    <3> QED
      BY <3>1, DistinctFramesFit
  <2>3. o \in SubmitWhatWeCan(enqueued, Append(<<>>, f), "RUNNING")
    BY <1>1, <1>3, <2>1
  <2>4. \/ /\ o.enq = Append(enqueued, f) /\ o.rel = <<>>
           /\ o.st = "RUNNING" /\ o.sub = {f}
        \/ /\ o.enq = enqueued /\ o.rel = Append(<<>>, f)
           /\ o.st = "ERROR" /\ o.sub = {}
    BY <2>2, <2>3, SubmitOne
  <2> QED
    BY <1>1, <1>3, <2>1, <2>4 DEF Release, Submitted
<1> QED
  BY <1>2, <1>3 DEF IInv, TypeOK, STATUS

\* A released frame keeps the invariant, submitted or refused.
LEMMA ReleaseIInv ==
    ASSUME IInv, NEW f \in Frames, Release(f)
    PROVE  IInv'
<1>1. /\ f \in held /\ held' = held \ {f}
      /\ UNCHANGED <<completed, getterVars, life>>
  BY ReleaseEffect
<1>2. /\ enqueued \in Seq(Frames) /\ IsInjective(enqueued)
      /\ released \in Seq(Frames) /\ IsInjective(released)
      /\ f \notin Range(enqueued) /\ f \notin Range(released)
  BY <1>1 DEF IInv, TypeOK, EveryFrameInOnePlace
<1>3. /\ ~completed[f] /\ f \notin inDriver /\ f \notin Taken
  BY <1>2 DEF IInv, CompletionAccounted
<1>4. Taken' = Taken
  BY <1>1 DEF Taken, getterVars
<1>5. /\ (\A g \in Getters : pc[g] # "idle" <=> getMutex = g)'
      /\ (\A g \in Getters : pc[g] = "take" => completed[front[g]])'
  BY <1>1 DEF IInv, getterVars
<1>6. CASE /\ status = "RUNNING" /\ status' = "RUNNING"
           /\ released = <<>> /\ released' = <<>>
           /\ enqueued' = Append(enqueued, f)
           /\ inDriver' = inDriver \cup {f}
  <2>1. /\ enqueued' \in Seq(Frames) /\ IsInjective(enqueued')
        /\ Range(enqueued') = Range(enqueued) \cup {f}
        /\ enqueued' # <<>>
        /\ enqueued # <<>> => Head(enqueued') = Head(enqueued)
    BY <1>2, <1>6, AppendDistinct
  <2>2. TypeOK'
    BY <1>1, <1>6, <2>1, DistinctFramesFit DEF IInv, TypeOK, getterVars
  <2>3. EveryFrameInOnePlace'
    BY <1>1, <1>2, <1>6, <2>1 DEF IInv, EveryFrameInOnePlace
  <2>4. CompletionAccounted'
    BY <1>1, <1>3, <1>4, <1>6, <2>1 DEF IInv, CompletionAccounted
  <2>5. PopsTheFrameItWaitedFor'
    BY <1>1, <2>1 DEF IInv, PopsTheFrameItWaitedFor, getterVars
  <2> QED
    BY <1>5, <1>6, <2>2, <2>3, <2>4, <2>5 DEF IInv, NothingLeftReleased
<1>7. CASE /\ status' = "ERROR"
           /\ released' = Append(released, f)
           /\ UNCHANGED <<enqueued, inDriver>>
  <2>1. /\ released' \in Seq(Frames) /\ IsInjective(released')
        /\ Range(released') = Range(released) \cup {f}
    BY <1>2, <1>7, AppendDistinct
  <2>2. TypeOK'
    BY <1>1, <1>7, <2>1, DistinctFramesFit DEF IInv, TypeOK, getterVars, STATUS
  <2>3. EveryFrameInOnePlace'
    BY <1>1, <1>2, <1>7, <2>1 DEF IInv, EveryFrameInOnePlace
  <2>4. CompletionAccounted'
    BY <1>1, <1>4, <1>7 DEF IInv, CompletionAccounted
  <2>5. PopsTheFrameItWaitedFor'
    BY <1>1, <1>7 DEF IInv, PopsTheFrameItWaitedFor, getterVars
  <2> QED
    BY <1>5, <1>7, <2>2, <2>3, <2>4, <2>5 DEF IInv, NothingLeftReleased
<1> QED
  BY <1>6, <1>7, ReleaseEffect

\* libusb_async_cb, which records a completion, keeps the invariant.
LEMMA CallbackIInv ==
    ASSUME IInv, NEW f \in Frames, Callback(f)
    PROVE  IInv'
<1> USE DEF Callback, queueVars, getterVars
<1>1. TypeOK'
  BY DEF IInv, TypeOK
<1>2. EveryFrameInOnePlace' /\ NothingLeftReleased' /\ PopsTheFrameItWaitedFor'
  BY DEF IInv, EveryFrameInOnePlace, NothingLeftReleased, PopsTheFrameItWaitedFor
<1>3. Taken' = Taken
  BY DEF Taken
<1>4. CompletionAccounted'
  BY <1>3 DEF IInv, TypeOK, CompletionAccounted
<1>5. /\ (\A g \in Getters : pc[g] # "idle" <=> getMutex = g)'
      /\ (\A g \in Getters : pc[g] = "take" => completed[front[g]])'
  BY DEF IInv, TypeOK
<1> QED
  BY <1>1, <1>2, <1>4, <1>5 DEF IInv

\* The steps that leave every variable of the invariant's parts but life alone.
LEMMA OtherIInv ==
    ASSUME IInv,
           UNCHANGED <<queueVars, completed, inDriver, held, getterVars>>,
           life' \in {"open", "closing", "freed"}
    PROVE  IInv'
<1> USE DEF queueVars, getterVars
<1>1. TypeOK'
  BY DEF IInv, TypeOK
<1>2. EveryFrameInOnePlace' /\ NothingLeftReleased' /\ PopsTheFrameItWaitedFor'
  BY DEF IInv, EveryFrameInOnePlace, NothingLeftReleased, PopsTheFrameItWaitedFor
<1>3. CompletionAccounted'
  BY DEF IInv, CompletionAccounted, Taken
<1> QED
  BY <1>1, <1>2, <1>3 DEF IInv

\* Every step of a thread inside get_buff keeps the invariant.
LEMMA GetterStepIInv ==
    ASSUME IInv, NEW g \in Getters,
           \/ \E inf \in BOOLEAN : GetBuff(g, inf)
           \/ GetterStep(g)
           \/ WaitWakesSpuriously(g)
    PROVE  IInv'
<1>1. /\ front \in [Getters -> Frames] /\ forever \in [Getters -> BOOLEAN]
      /\ enqueued # <<>> => Head(enqueued) \in Frames
  BY HeadTailProperties DEF IInv, TypeOK
<1>2. pc[g] # "idle" => getMutex = g
  BY DEF IInv
<1>3. pc[g] \in {"head", "waitDone"} => enqueued # <<>> /\ front[g] = Head(enqueued)
  BY DEF IInv, PopsTheFrameItWaitedFor
<1> USE DEF Goto, Leave, PC
<1>4. CASE \E inf \in BOOLEAN : GetBuff(g, inf)
  <2>1. PICK inf \in BOOLEAN : GetBuff(g, inf)
    BY <1>4
  <2>2. pc' = [pc EXCEPT ![g] = "queue"] /\ getMutex' = g /\ getMutex = NoThread /\ pc[g] = "idle"
    BY <2>1 DEF GetBuff
  <2>3. /\ UNCHANGED <<queueVars, completed, inDriver, held, front, life>>
        /\ forever' \in [Getters -> BOOLEAN]
    BY <1>1, <2>1 DEF GetBuff
  <2> QED
    BY <1>1, <2>2, <2>3, GetterMoves
<1>5. CASE QueueTest(g) \/ ReadyWaitEnds(g)
  <2>1. /\ pc[g] \in {"queue", "waitReady"}
        /\ UNCHANGED <<queueVars, completed, inDriver, held, forever, life>>
        /\ \/ LookAtFront(g)
           \/ pc' = [pc EXCEPT ![g] = "waitReady"] /\ UNCHANGED <<getMutex, front>>
           \/ pc' = [pc EXCEPT ![g] = "idle"] /\ getMutex' = NoThread /\ UNCHANGED front
    BY <1>5 DEF QueueTest, ReadyWaitEnds
  <2>2. CASE LookAtFront(g)
    <3>1. /\ enqueued # <<>>
          /\ front' = [front EXCEPT ![g] = Head(enqueued)]
          /\ pc' = [pc EXCEPT ![g] = "head"]
          /\ getMutex' = getMutex
      BY <2>2 DEF LookAtFront
    <3> QED
      BY <1>1, <1>2, <2>1, <3>1, GetterMoves
  <2>3. CASE pc' = [pc EXCEPT ![g] = "waitReady"] /\ UNCHANGED <<getMutex, front>>
    BY <1>1, <1>2, <2>1, <2>3, GetterMoves
  <2>4. CASE pc' = [pc EXCEPT ![g] = "idle"] /\ getMutex' = NoThread /\ UNCHANGED front
    BY <1>1, <1>2, <2>1, <2>4, GetterMoves
  <2> QED
    BY <2>1, <2>2, <2>3, <2>4
<1>6. CASE HeadTest(g) \/ WaitEnds(g) \/ WaitWakesSpuriously(g)
  <2>1. PICK l \in {"waitDone", "take", "giveUp"} :
           /\ pc[g] \in {"head", "waitDone"}
           /\ pc' = [pc EXCEPT ![g] = l]
           /\ l = "take" => completed[front[g]]
           /\ UNCHANGED <<queueVars, completed, inDriver, held, getMutex, front, forever, life>>
    BY <1>6 DEF HeadTest, WaitEnds, WaitWakesSpuriously, WaitReturns
  <2> QED
    BY <1>1, <1>2, <1>3, <2>1, GetterMoves
<1> QED
  BY <1>4, <1>5, <1>6, TakeHeadIInv, PopIInv, GiveUpIInv DEF GetterStep

\* Every step of the transport keeps the invariant.
LEMMA NextIInv == IInv /\ [Next]_vars => IInv'
<1> SUFFICES ASSUME IInv, [Next]_vars PROVE IInv'
  OBVIOUS
<1>1. CASE \E g \in Getters : \/ \E inf \in BOOLEAN : GetBuff(g, inf)
                              \/ GetterStep(g)
                              \/ WaitWakesSpuriously(g)
  BY <1>1, GetterStepIInv
<1>2. CASE \E f \in Frames : Release(f) \/ Callback(f)
  BY <1>2, ReleaseIInv, CallbackIInv
<1>3. CASE Destroy \/ FreeTransfers
  BY <1>3, OtherIInv DEF Destroy, FreeTransfers
<1>4. CASE Gone \/ UNCHANGED vars
  <2>1. UNCHANGED <<queueVars, completed, inDriver, held, getterVars>> /\ life' = life
    BY <1>4 DEF Gone, vars, queueVars, getterVars
  <2> QED
    BY <2>1, OtherIInv DEF IInv, TypeOK
<1> QED
  BY <1>1, <1>2, <1>3, <1>4 DEF Next

\* Every behaviour of the transport satisfies the inductive invariant.
THEOREM Inductive == Spec => []IInv
<1>1. Init => IInv
  BY InitIInv
<1>2. IInv /\ [Next]_vars => IInv'
  BY NextIInv
<1> QED
  BY <1>1, <1>2, PTL DEF Spec

\* The variables keep their types and neither circular buffer is ever pushed
\* beyond its capacity.
THEOREM TypeCorrect == Spec => []TypeOK
<1>1. IInv => TypeOK
  BY DEF IInv
<1> QED
  BY <1>1, Inductive, PTL

\* No frame is duplicated, lost or handed out while it is queued.
THEOREM OnePlace == Spec => []EveryFrameInOnePlace
<1>1. IInv => EveryFrameInOnePlace
  BY DEF IInv
<1> QED
  BY <1>1, Inductive, PTL

\* The flags agree with the hardware: no completion is erased, none is stale
\* and no frame of the caller is the target of a transfer.
THEOREM Accounted == Spec => []CompletionAccounted
<1>1. IInv => CompletionAccounted
  BY DEF IInv
<1> QED
  BY <1>1, Inductive, PTL

\* The unlocked wait of get_buff ends in popping the frame it waited for.
THEOREM PopAndRelease == Spec => []PopsTheFrameItWaitedFor
<1>1. IInv => PopsTheFrameItWaitedFor
  BY DEF IInv
<1> QED
  BY <1>1, Inductive, PTL

\* A running transport leaves no frame behind in _released: submit_what_we_can
\* has submitted it, or the transport has failed.
THEOREM NothingLeft == Spec => []NothingLeftReleased
<1>1. IInv => NothingLeftReleased
  BY DEF IInv
<1> QED
  BY <1>1, Inductive, PTL

\* A getter that sleeps in wait_for_completion sleeps for a frame that is done
\* or that libpcie will still call back, so a wait with a negative timeout is
\* never for something nobody owes: the safety half of CallEnds.
NoHopelessWait ==
    \A g \in Getters :
        pc[g] = "waitDone" => completed[front[g]] \/ front[g] \in inDriver

\* The wait of get_buff is for the front of the queue, and as only one getter
\* is past the mutexes nobody has consumed the completion of that frame.
THEOREM WaitsForOwed == Spec => []NoHopelessWait
<1>1. IInv => NoHopelessWait
  <2> SUFFICES ASSUME IInv, NEW g \in Getters, pc[g] = "waitDone"
               PROVE  completed[front[g]] \/ front[g] \in inDriver
    BY DEF NoHopelessWait
  <2>1. enqueued # <<>> /\ front[g] = Head(enqueued) /\ enqueued \in Seq(Frames)
    BY DEF IInv, TypeOK, PopsTheFrameItWaitedFor
  <2>2. front[g] \in Range(enqueued) /\ front[g] \in Frames
    BY <2>1, TailDistinct DEF IInv, TypeOK, EveryFrameInOnePlace
  <2>3. Taken = {}
    BY GettersAssumption DEF IInv, Taken
  <2> QED
    BY <2>2, <2>3 DEF IInv, CompletionAccounted
<1> QED
  BY <1>1, Inductive, PTL

-----------------------------------------------------------------------------
(***************************************************************************)
(* The transport implements the abstract pool.  TakeHead changes which     *)
(* part of done a frame is counted in; the abstract hand-over is Pop.      *)
(***************************************************************************)
\* The constructor makes the abstract pool with every frame entrusted.
LEMMA InitRefines == Init => Pool!PoolInit
<1> SUFFICES ASSUME Init PROVE Pool!PoolInit
  OBVIOUS
<1>1. enqueued \in Seq(Frames) /\ Pool!IsInjective(enqueued)
  BY InitIInv DEF IInv, TypeOK, EveryFrameInOnePlace, IsInjective, Pool!IsInjective
<1>2. Taken = {}
  BY DEF Init, Taken
<1>3. {f \in Frames : completed[f]} \cup Taken \in {{}, Frames}
  <2>1. CASE completed = [f \in Frames |-> FALSE]
    BY <1>2, <2>1
  <2>2. CASE completed = [f \in Frames |-> TRUE]
    BY <1>2, <2>2
  <2> QED
    BY <2>1, <2>2 DEF Init
<1>4. Range(released) = {}
  BY EmptyDistinct DEF Init
<1>5. Pool!Entrusted = Frames
  BY DEF Init, Pool!Entrusted, Pool!Range, Range
<1>6. held = {} /\ (status = "ERROR") = FALSE
  BY DEF Init
<1> QED
  BY <1>1, <1>3, <1>4, <1>5, <1>6 DEF Pool!PoolInit

\* Every step of the transport is a step of the abstract pool or a stutter.
LEMMA StepRefines ==
    ASSUME IInv, Next
    PROVE  Pool!PoolNext \/ UNCHANGED Pool!poolVars
<1> DEFINE Done == {f \in Frames : completed[f]} \cup Taken
<1> USE DEF queueVars, getterVars
<1>1. ASSUME NEW g \in Getters,
             \/ \E inf \in BOOLEAN : GetBuff(g, inf)
             \/ QueueTest(g) \/ ReadyWaitEnds(g) \/ HeadTest(g)
             \/ WaitEnds(g) \/ WaitWakesSpuriously(g) \/ GiveUp(g)
      PROVE  UNCHANGED Pool!poolVars
  <2>1. /\ UNCHANGED <<queueVars, completed, held>>
        /\ pc[g] # "pop"
        /\ \E l \in PC \ {"pop"} : pc' = [pc EXCEPT ![g] = l]
        /\ \A h \in Getters \ {g} : front'[h] = front[h]
    BY <1>1, GiveUpEffect
       DEF GetBuff, QueueTest, ReadyWaitEnds, LookAtFront, Leave, Goto, HeadTest,
           WaitEnds, WaitWakesSpuriously, WaitReturns, GiveUp, IInv, TypeOK, PC
  <2>2. Taken' = Taken
    BY <2>1 DEF Taken, IInv, TypeOK
  <2> QED
    BY <2>1, <2>2 DEF Pool!poolVars
<1>2. ASSUME NEW g \in Getters, TakeHead(g)
      PROVE  UNCHANGED Pool!poolVars
  <2>1. Taken = {} /\ Taken' = {front[g]}
    BY <1>2, GettersAssumption DEF IInv, TypeOK, Taken, TakeHead, Goto
  <2>2. completed[front[g]] /\ front[g] \in Frames
    BY <1>2 DEF IInv, TypeOK, TakeHead
  <2>3. Done' = Done
    BY <1>2, <2>1, <2>2 DEF IInv, TypeOK, TakeHead
  <2> QED
    BY <1>2, <2>3 DEF TakeHead, Pool!poolVars
<1>3. ASSUME NEW g \in Getters, Pop(g)
      PROVE  Pool!HandOver
  <2>1. Taken = {front[g]} /\ Taken' = {}
    BY <1>3, GettersAssumption DEF IInv, TypeOK, Taken, Pop, Leave, Goto
  <2>2. ~completed[front[g]] /\ front[g] \in Frames /\ completed' = completed
    BY <1>3, <2>1 DEF IInv, TypeOK, CompletionAccounted, Pop
  <2>3. Done' = Done \ {front[g]} /\ front[g] \in Done
    BY <2>1, <2>2
  <2> QED
    BY <1>3, <2>3, PopEffect DEF Pool!HandOver
<1>4. ASSUME NEW f \in Frames, Release(f)
      PROVE  Pool!Entrust(f) \/ Pool!Lose(f)
  <2>1. Done' = Done
    BY <1>4, ReleaseEffect DEF Taken
  <2>2. f \notin Range(released) /\ released \in Seq(Frames) /\ IsInjective(released)
    BY <1>4, ReleaseEffect DEF IInv, TypeOK, EveryFrameInOnePlace
  <2>3. Range(Append(released, f)) = Range(released) \cup {f}
    BY <2>2, AppendDistinct
  <2> QED
    BY <1>4, <2>1, <2>3, ReleaseEffect DEF Pool!Entrust, Pool!Lose
<1>5. ASSUME NEW f \in Frames, Callback(f)
      PROVE  Pool!Finish(f)
  <2>1. f \in Range(enqueued) /\ ~completed[f] /\ f \notin Taken
    BY <1>5 DEF Callback, IInv, CompletionAccounted
  <2>2. Taken' = Taken
    BY <1>5 DEF Callback, Taken
  <2>3. Done' = Done \cup {f} /\ f \notin Done
    BY <1>5, <2>1, <2>2 DEF Callback, IInv, TypeOK
  <2> QED
    BY <1>5, <2>1, <2>3 DEF Callback, Pool!Finish, Pool!Entrusted, Pool!Range, Range
<1>6. ASSUME Destroy \/ FreeTransfers \/ Gone
      PROVE  UNCHANGED Pool!poolVars
  BY <1>6 DEF Destroy, FreeTransfers, Gone, vars, Pool!poolVars, Taken
<1> QED
  BY <1>1, <1>2, <1>3, <1>4, <1>5, <1>6 DEF Next, GetterStep, Pool!PoolNext

\* The transport implements the abstract pool: frames come back in the order of
\* submission, once per trip, and only when the hardware has finished them.
THEOREM Refines == Spec => ImplementsFramePool
<1>1. Init => Pool!PoolInit
  BY InitRefines
<1>2. IInv /\ [Next]_vars => [Pool!PoolNext]_(Pool!poolVars)
  <2>1. ASSUME UNCHANGED vars PROVE UNCHANGED Pool!poolVars
    BY <2>1 DEF vars, Pool!poolVars, Taken
  <2> QED
    BY <2>1, StepRefines
<1> QED
  BY <1>1, <1>2, Inductive, PTL DEF Spec, ImplementsFramePool, Pool!PoolSpec
=============================================================================
