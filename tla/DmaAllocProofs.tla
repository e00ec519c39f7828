--------------------------- MODULE DmaAllocProofs ---------------------------
(***************************************************************************)
(* DmaAlloc for any memory, pool, sizes and number of buffers.             *)
(***************************************************************************)
EXTENDS DmaAlloc, TLAPS

\* Pages of the pool that have been cut into slices.
Carved == pool.at .. (pool.at + poolOff - 1)

CallSteps == {"idle", "pool", "noncoherent", "drain", "coherent"}
CallType == [step : CallSteps, i : Idx, tries : Nat]

TypeInv ==
    /\ addr \in [Idx -> Int] /\ len \in [Idx -> Nat]
    /\ pool \in [at : Nat, n : Nat] /\ poolOff \in 0..pool.n
    /\ call \in CallType
    /\ view \in [Idx -> SUBSET Int] /\ slices \subseteq Idx

\* The call in progress has freed its buffer and knows the size it wants.
InCall == call.step # "idle" => len[call.i] > 0 /\ addr[call.i] = None

\* What m2sdr_dma_in_window and m2sdr_dma_in_cma_hole are to ensure of a block.
InReach(b) == \A p \in Run(b) : p < WindowEnd /\ p \notin Hole

PoolInv == Run(pool) \subseteq owned /\ InReach(pool)

\* A buffer is made of pages of the driver the FPGA reaches: slices that have
\* been cut, or nothing of the pool.
Sound(i) ==
    /\ addr[i] # None => len[i] > 0
    /\ PagesOf(i) \subseteq owned
    /\ \A p \in PagesOf(i) : p < WindowEnd /\ p \notin Hole
    /\ PagesOf(i) \subseteq Carved \/ PagesOf(i) \cap Run(pool) = {}

Apart(i, j) == PagesOf(i) \cap PagesOf(j) = {}

\* The mapping of a slice lies in what has been cut, and off the other buffers.
Stale(i) ==
    /\ view[i] # {} /\ view[i] \subseteq Carved
    /\ \A j \in Idx : i # j => view[i] \cap PagesOf(j) = {}

IInv ==
    /\ TypeInv /\ InCall /\ PoolInv
    /\ \A i \in Idx : Sound(i)
    /\ \A i, j \in Idx : i # j => Apart(i, j)
    /\ \A i \in slices : Stale(i)

-----------------------------------------------------------------------------
\* A call begins, goes on and ends.
LEMMA CallFacts ==
    /\ Idle \in CallType /\ Idle.step = "idle"
    /\ \A i \in Idx : [step |-> "pool", i |-> i, tries |-> 0] \in CallType
    /\ \A c \in CallType, s \in CallSteps :
         LET n == [c EXCEPT !.step = s] IN n \in CallType /\ n.i = c.i /\ n.step = s
    /\ \A c \in CallType :
         LET n == [c EXCEPT !.tries = @ + 1] IN n \in CallType /\ n.i = c.i /\ n.step = c.step
<1>1. 0 \in Idx BY MaxBufsAssumption DEF Idx
<1>2. Idle \in CallType /\ Idle.step = "idle" BY <1>1 DEF Idle, CallType, CallSteps
<1>3. \A i \in Idx : [step |-> "pool", i |-> i, tries |-> 0] \in CallType
  BY DEF CallType, CallSteps
<1> QED BY <1>2, <1>3 DEF CallType

\* With no buffer, no pool and nothing mapped the invariant holds.
LEMMA InitIInv == Init => IInv
<1> SUFFICES ASSUME Init PROVE IInv
  OBVIOUS
<1>1. call \in CallType /\ call.step = "idle"
  BY CallFacts DEF Init
<1>2. TypeInv /\ InCall
  BY <1>1 DEF Init, TypeInv, InCall, None, NoPool
<1>3. PoolInv
  BY DEF Init, PoolInv, Run, NoPool, InReach
<1>4. \A i \in Idx : PagesOf(i) = {}
  BY DEF Init, PagesOf
<1> QED
  BY <1>2, <1>3, <1>4 DEF Init, IInv, Sound, Apart

\* A block whose ends pass the tests of the driver has no page out of reach.
LEMMA UsableInReach == \A b \in [at : Int, n : Int] : Usable(b) => InReach(b)
<1> SUFFICES ASSUME NEW b \in [at : Int, n : Int], Usable(b), NEW p \in Run(b)
             PROVE  p < WindowEnd /\ p \notin Hole
  BY DEF InReach
<1>1. b.at \in Int /\ b.n \in Int /\ p \in Int /\ b.at <= p /\ p < b.at + b.n
  BY DEF Run
<1>2. p < WindowEnd
  BY <1>1, SizesAssumption DEF Usable
<1>3. p >= HoleHi \/ p < HoleLo
  BY <1>1, HoleAssumption DEF Usable
<1> QED BY <1>1, <1>2, <1>3, HoleAssumption DEF Hole

\* What has been cut belongs to the pool.
LEMMA CarvedInPool == TypeInv => Carved \subseteq Run(pool)
  BY DEF TypeInv, Carved, Run

\* m2sdr_free_one gives back pages of its buffer, and none of the pool.
LEMMA FreedIsOwn ==
    IInv => \A i \in Idx : /\ FreedByOne(i) \subseteq PagesOf(i)
                           /\ FreedByOne(i) \cap Run(pool) = {}
<1> SUFFICES ASSUME IInv, NEW i \in Idx
             PROVE  FreedByOne(i) \subseteq PagesOf(i) /\ FreedByOne(i) \cap Run(pool) = {}
  OBVIOUS
<1>1. FreedByOne(i) \subseteq PagesOf(i)
  BY DEF FreedByOne
<1>2. CASE addr[i] = None
  BY <1>1, <1>2 DEF PagesOf
<1>3. CASE addr[i] # None
  <2>1. addr[i] \in PagesOf(i)
    BY <1>3 DEF IInv, TypeInv, Sound, PagesOf
  <2>2. CASE PagesOf(i) \subseteq Carved
    <3>1. addr[i] \in Run(pool)
      BY <2>1, <2>2, CarvedInPool DEF IInv
    <3>2. pool.n > 0
      BY <3>1 DEF Run, IInv, TypeInv
    <3> QED BY <3>1, <3>2 DEF FreedByOne, InPool
  <2>3. CASE PagesOf(i) \cap Run(pool) = {}
    BY <1>1, <2>3
  <2> QED BY <2>2, <2>3 DEF IInv, Sound
<1> QED BY <1>2, <1>3

\* A buffer that is placed off the others, on pages of the driver, keeps the
\* invariant.
LEMMA Placed ==
    \A a \in Int, R \in SUBSET Int, c \in Idx :
        /\ IInv /\ call.step # "idle" /\ call.i = c
        /\ addr' = [addr EXCEPT ![c] = a] /\ len' = len /\ call' = Idle
        /\ pool' = pool /\ poolOff' \in poolOff..pool.n /\ owned \subseteq owned'
        /\ view' = view /\ slices' = slices
        /\ R = a .. (a + len[c] - 1) /\ R \subseteq owned'
        /\ \A p \in R : p < WindowEnd /\ p \notin Hole
        /\ R \subseteq Carved' \/ R \cap Run(pool) = {}
        /\ \A j \in Idx : j # c => R \cap PagesOf(j) = {}
        /\ \A j \in slices : R \cap view[j] = {}
        => IInv'
<1> SUFFICES ASSUME NEW a \in Int, NEW R \in SUBSET Int, NEW c \in Idx,
                    IInv, call.step # "idle", call.i = c,
                    addr' = [addr EXCEPT ![c] = a], len' = len, call' = Idle,
                    pool' = pool, poolOff' \in poolOff..pool.n, owned \subseteq owned',
                    view' = view, slices' = slices,
                    R = a .. (a + len[c] - 1), R \subseteq owned',
                    \A p \in R : p < WindowEnd /\ p \notin Hole,
                    R \subseteq Carved' \/ R \cap Run(pool) = {},
                    \A j \in Idx : j # c => R \cap PagesOf(j) = {},
                    \A j \in slices : R \cap view[j] = {}
             PROVE  IInv'
  OBVIOUS
<1>1. TypeInv' /\ InCall'
  <2>1. call' \in CallType /\ call'.step = "idle"
    BY CallFacts
  <2>2. addr' \in [Idx -> Int] /\ poolOff' \in 0..pool.n
    BY DEF IInv, TypeInv
  <2> QED BY <2>1, <2>2 DEF IInv, TypeInv, InCall
<1>2. PoolInv'
  BY DEF IInv, PoolInv, Run, InReach
<1>3. Carved \subseteq Carved'
  BY DEF IInv, TypeInv, Carved
<1>4. \A j \in Idx : j # c => addr'[j] = addr[j] /\ PagesOf(j)' = PagesOf(j)
  BY DEF IInv, TypeInv, PagesOf
<1>5. addr'[c] = a /\ PagesOf(c)' \subseteq R
  BY DEF IInv, TypeInv, PagesOf
<1>6. \A i \in Idx : Sound(i)'
  <2> SUFFICES ASSUME NEW i \in Idx PROVE Sound(i)'
    OBVIOUS
  <2>1. CASE i = c
    <3>1. len'[c] > 0 BY DEF IInv, InCall
    <3>2. PagesOf(c)' \subseteq owned' BY <1>5
    <3>3. \A p \in PagesOf(c)' : p < WindowEnd /\ p \notin Hole BY <1>5
    <3>4. PagesOf(c)' \subseteq Carved' \/ PagesOf(c)' \cap Run(pool)' = {} BY <1>5 DEF Run
    <3> QED BY <2>1, <3>1, <3>2, <3>3, <3>4 DEF Sound
  <2>2. CASE i # c
    BY <1>3, <1>4, <2>2 DEF IInv, Sound, Run
  <2> QED BY <2>1, <2>2
<1>7. \A i, j \in Idx : i # j => Apart(i, j)'
  BY <1>4, <1>5 DEF IInv, Apart
<1>8. \A i \in slices' : Stale(i)'
  <2> SUFFICES ASSUME NEW i \in slices PROVE Stale(i)'
    OBVIOUS
  <2>1. Stale(i) /\ i \in Idx BY DEF IInv, TypeInv
  <2>2. \A j \in Idx : i # j => view[i] \cap PagesOf(j)' = {}
    BY <1>4, <1>5, <2>1 DEF Stale
  <2> QED BY <1>3, <2>1, <2>2 DEF Stale
<1> QED BY <1>1, <1>2, <1>6, <1>7, <1>8 DEF IInv

\* A step that moves no buffer and takes memory for other uses keeps it.
LEMMA Kept ==
    /\ IInv /\ InCall' /\ call' \in CallType /\ addr' = addr
    /\ len' = len \/ (call.step # "idle" /\ len' = [len EXCEPT ![call.i] = 0])
    /\ pool' = pool /\ poolOff' = poolOff /\ owned \subseteq owned'
    /\ view' = view /\ slices' = slices
    => IInv'
<1> SUFFICES ASSUME IInv, InCall', call' \in CallType, addr' = addr,
                    len' = len \/ (call.step # "idle" /\ len' = [len EXCEPT ![call.i] = 0]),
                    pool' = pool, poolOff' = poolOff, owned \subseteq owned',
                    view' = view, slices' = slices
             PROVE  IInv'
  OBVIOUS
<1>1. TypeInv'
  BY DEF IInv, TypeInv
<1>2. PoolInv' /\ Carved' = Carved /\ Run(pool)' = Run(pool)
  BY DEF IInv, PoolInv, Run, InReach, Carved
<1>3. ASSUME NEW i \in Idx
      PROVE  PagesOf(i)' = PagesOf(i) /\ (addr[i] # None => len'[i] = len[i])
  BY <1>3 DEF IInv, TypeInv, InCall, PagesOf
<1>4. ASSUME NEW i \in Idx PROVE Sound(i)'
  BY <1>2, <1>3 DEF IInv, Sound
<1>5. \A i, j \in Idx : i # j => Apart(i, j)'
  BY <1>3 DEF IInv, Apart
<1>6. ASSUME NEW i \in slices PROVE Stale(i)'
  BY <1>2, <1>3 DEF IInv, Stale
<1> QED BY <1>1, <1>2, <1>4, <1>5, <1>6 DEF IInv

\* alloc_node takes the buffer away and leaves all that is not its own.
LEMMA AllocNodeStep == \A i \in Idx, n \in Lens : IInv /\ AllocNode(i, n) => IInv'
<1> SUFFICES ASSUME NEW i \in Idx, NEW n \in Lens, IInv, AllocNode(i, n) PROVE IInv'
  OBVIOUS
<1> USE DEF AllocNode, memVars, viewVars
<1>1. TypeInv' /\ InCall'
  <2>1. call' \in CallType /\ call'.i = i
    BY CallFacts
  <2>2. /\ addr' \in [Idx -> Int] /\ len' \in [Idx -> Nat]
        /\ addr'[i] = None /\ len'[i] = n /\ n > 0
    BY SizesAssumption DEF IInv, TypeInv, None
  <2> QED BY <2>1, <2>2 DEF IInv, TypeInv, InCall
<1>2. FreedByOne(i) \subseteq PagesOf(i) /\ FreedByOne(i) \cap Run(pool) = {}
  BY FreedIsOwn
<1>3. PoolInv' /\ Carved' = Carved /\ Run(pool)' = Run(pool)
  BY <1>2 DEF IInv, PoolInv, Run, InReach, Carved
<1>4. PagesOf(i)' = {} /\ addr'[i] = None
  BY DEF IInv, TypeInv, PagesOf
<1>5. ASSUME NEW j \in Idx, j # i
      PROVE  PagesOf(j)' = PagesOf(j) /\ addr'[j] = addr[j] /\ len'[j] = len[j]
  BY <1>5 DEF IInv, TypeInv, PagesOf
<1>6. ASSUME NEW j \in Idx PROVE Sound(j)'
  <2>1. CASE j = i
    BY <1>3, <1>4, <2>1 DEF Sound
  <2>2. CASE j # i
    <3>1. Apart(i, j) /\ Sound(j)
      BY <2>2 DEF IInv
    <3>2. PagesOf(j)' \subseteq owned'
      BY <1>2, <1>5, <2>2, <3>1 DEF Apart, Sound
    <3> QED BY <1>3, <1>5, <2>2, <3>1, <3>2 DEF Sound
  <2> QED BY <2>1, <2>2
<1>7. \A j, k \in Idx : j # k => Apart(j, k)'
  BY <1>4, <1>5 DEF IInv, Apart
<1>8. ASSUME NEW j \in slices PROVE Stale(j)'
  BY <1>3, <1>4, <1>5 DEF IInv, Stale
<1> QED BY <1>1, <1>3, <1>6, <1>7, <1>8 DEF IInv

\* A new pool is carved where no buffer is, and nothing has been cut from it.
LEMMA EnsurePoolStep == IInv /\ EnsurePool => IInv'
<1> SUFFICES ASSUME IInv, EnsurePool PROVE IInv'
  OBVIOUS
<1>1. CASE UNCHANGED memVars /\ Continue("noncoherent")
  <2>1. InCall' /\ call' \in CallType
    BY <1>1, CallFacts DEF EnsurePool, Continue, IInv, InCall, TypeInv, CallSteps
  <2> QED BY <1>1, <2>1, Kept DEF Continue, memVars, viewVars
<1>2. ASSUME NEW sz \in PoolSizes, NEW b \in Available(sz, PoolRegion),
             Usable(b), pool' = b, poolOff' = 0, owned' = owned \cup Run(b),
             Continue("pool"), call.step = "pool", pool.n = 0
      PROVE  IInv'
  <2>1. b \in [at : Nat, n : Nat] /\ Run(b) \cap owned = {}
    BY RegionAssumption, PagesAssumption, SizesAssumption DEF Available
  <2>2. TypeInv' /\ InCall'
    <3>1. call' \in CallType /\ call'.i = call.i /\ call' = [call EXCEPT !.step = "pool"]
      BY <1>2, CallFacts DEF Continue, CallSteps, IInv, TypeInv
    <3>2. UNCHANGED <<addr, len, view, slices>>
      BY <1>2 DEF Continue, viewVars
    <3>3. len[call.i] > 0 /\ addr[call.i] = None
      BY <1>2 DEF IInv, InCall
    <3> QED BY <1>2, <2>1, <3>1, <3>2, <3>3 DEF IInv, TypeInv, InCall
  <2>3. PoolInv'
    <3>1. InReach(b)
      BY <1>2, <2>1, UsableInReach
    <3> QED BY <1>2, <3>1 DEF PoolInv, InReach, Run
  <2>4. Carved = {}
    BY <1>2 DEF IInv, TypeInv, Carved
  <2>5. slices = {}
    BY <2>4 DEF IInv, Stale
  <2>6. ASSUME NEW i \in Idx PROVE PagesOf(i)' = PagesOf(i) /\ Sound(i)'
    <3>1. PagesOf(i)' = PagesOf(i)
      BY <1>2 DEF Continue, PagesOf
    <3>2. PagesOf(i) \cap Run(b) = {}
      BY <2>1 DEF IInv, Sound
    <3> QED BY <1>2, <3>1, <3>2 DEF Continue, IInv, Sound, Run
  <2>7. \A i, j \in Idx : i # j => Apart(i, j)'
    BY <2>6 DEF IInv, Apart
  <2> QED BY <1>2, <2>2, <2>3, <2>5, <2>6, <2>7 DEF IInv, Continue, viewVars
<1> QED BY <1>1, <1>2 DEF EnsurePool

\* The next slice is off all slices cut before it, mapped or not.
LEMMA TakeSliceStep == IInv /\ TakeSlice => IInv'
<1> SUFFICES ASSUME IInv, TakeSlice PROVE IInv'
  OBVIOUS
<1>1. CASE poolOff + len[call.i] <= pool.n
  <2> DEFINE c == call.i
             a == pool.at + poolOff
             R == a .. (a + len[c] - 1)
  <2>1. /\ c \in Idx /\ len[c] \in Nat /\ pool.at \in Nat /\ pool.n \in Nat
        /\ poolOff \in 0..pool.n
    BY DEF IInv, TypeInv, CallType
  <2>2. /\ poolOff' = poolOff + len[c] /\ addr' = [addr EXCEPT ![c] = a] /\ len' = len
        /\ call' = Idle /\ UNCHANGED <<pool, owned, view, slices>> /\ call.step # "idle"
    BY <1>1 DEF TakeSlice, Got, viewVars
  <2>3. R \subseteq Run(pool) /\ R \subseteq Carved'
    BY <1>1, <2>1, <2>2 DEF Run, Carved
  <2>4. R \cap Carved = {}
    BY <2>1 DEF Carved
  <2>5. /\ a \in Int /\ R \in SUBSET Int /\ poolOff' \in poolOff..pool.n
    BY <1>1, <2>1, <2>2
  <2> HIDE DEF R
  <2>6. R \subseteq owned' /\ \A p \in R : p < WindowEnd /\ p \notin Hole
    BY <2>2, <2>3 DEF IInv, PoolInv, InReach
  <2>7. \A j \in Idx : R \cap PagesOf(j) = {}
    BY <2>3, <2>4 DEF IInv, Sound
  <2>8. \A j \in slices : R \cap view[j] = {}
    BY <2>4 DEF IInv, Stale
  <2> QED BY <2>1, <2>2, <2>3, <2>5, <2>6, <2>7, <2>8, Placed DEF R
<1>2. CASE ~(poolOff + len[call.i] <= pool.n)
  <2>1. /\ call' = [call EXCEPT !.step = "noncoherent"] /\ call.step = "pool"
        /\ UNCHANGED <<addr, len, pool, poolOff, owned, view, slices>>
    BY <1>2 DEF TakeSlice, Continue, viewVars
  <2>2. InCall' /\ call' \in CallType
    BY <2>1, CallFacts DEF IInv, InCall, TypeInv, CallSteps
  <2> QED BY <2>1, <2>2, Kept
<1> QED BY <1>1, <1>2

\* Memory fresh from the kernel is off everything the driver had.
LEMMA FreshStep ==
    \A b \in [at : Int, n : Int] :
        /\ IInv /\ call.step # "idle" /\ b.n = len[call.i] /\ Usable(b)
        /\ Run(b) \cap owned = {} /\ owned' = owned \cup Run(b)
        /\ UNCHANGED <<pool, poolOff>> /\ Got(b.at)
        => IInv'
<1> SUFFICES ASSUME NEW b \in [at : Int, n : Int],
                    IInv, call.step # "idle", b.n = len[call.i], Usable(b),
                    Run(b) \cap owned = {}, owned' = owned \cup Run(b),
                    UNCHANGED <<pool, poolOff>>, Got(b.at)
             PROVE  IInv'
  OBVIOUS
<1> DEFINE c == call.i
<1>1. /\ c \in Idx /\ b.at \in Int /\ poolOff' \in poolOff..pool.n
      /\ Run(b) \in SUBSET Int /\ Run(b) = b.at .. (b.at + len[c] - 1)
  BY DEF IInv, TypeInv, CallType, Run
<1>2. /\ addr' = [addr EXCEPT ![c] = b.at] /\ len' = len /\ call' = Idle
      /\ view' = view /\ slices' = slices
  BY DEF Got, viewVars
<1>3. \A p \in Run(b) : p < WindowEnd /\ p \notin Hole
  BY UsableInReach DEF InReach
<1>4. Run(b) \cap Run(pool) = {} /\ \A j \in Idx : Run(b) \cap PagesOf(j) = {}
  BY DEF IInv, PoolInv, Sound
<1>5. \A j \in slices : Run(b) \cap view[j] = {}
  BY <1>4, CarvedInPool DEF IInv, Stale
<1> QED BY <1>1, <1>2, <1>3, <1>4, <1>5, Placed

\* Ordinary pages, coherent memory, the sink and the blocks held back.
LEMMA KernelStep ==
    IInv /\ (TakeOrdinary \/ DrainCma \/ TryCoherent \/ CoherentFails) => IInv'
<1> SUFFICES ASSUME IInv, TakeOrdinary \/ DrainCma \/ TryCoherent \/ CoherentFails
             PROVE  IInv'
  OBVIOUS
<1>0. len[call.i] \in Nat
  BY DEF IInv, TypeInv, CallType
<1>1. ASSUME NEW b \in Available(len[call.i], Pages)
      PROVE  b \in [at : Int, n : Int] /\ b.n = len[call.i] /\ Run(b) \cap owned = {}
  <2>1. b \in [at : Pages, n : {len[call.i]}] /\ Run(b) \subseteq Pages \ owned
    BY <1>1 DEF Available
  <2>2. Pages \subseteq Int /\ {len[call.i]} \subseteq Int
    BY <1>0, PagesAssumption
  <2>3. b \in [at : Int, n : Int] /\ b.n = len[call.i]
    BY <2>1, <2>2
  <2> QED BY <2>1, <2>3
<1>2. ASSUME call.step # "idle", owned \subseteq owned', UNCHANGED <<pool, poolOff>>, Failed
      PROVE  IInv'
  <2>1. call' = Idle /\ len' = [len EXCEPT ![call.i] = 0] /\ UNCHANGED <<addr, view, slices>>
    BY <1>2 DEF Failed, viewVars
  <2>2. InCall' /\ call' \in CallType
    BY <2>1, CallFacts DEF InCall
  <2> QED BY <1>2, <2>1, <2>2, Kept
<1>3. ASSUME NEW call2, call2 = call', call2 \in CallType,
             call2.i = call.i, call.step # "idle", owned \subseteq owned',
             UNCHANGED <<pool, poolOff, addr, len, view, slices>>
      PROVE  IInv'
  <2>1. InCall'
    BY <1>3 DEF IInv, InCall
  <2> QED BY <1>3, <2>1, Kept
<1>4. CASE TakeOrdinary
  <2>1. ASSUME NEW b \in Available(len[call.i], Pages), Usable(b), owned' = owned \cup Run(b),
               UNCHANGED <<pool, poolOff>>, Got(b.at)
        PROVE  IInv'
    BY <1>1, <1>4, <2>1, FreshStep DEF TakeOrdinary
  <2>2. CASE UNCHANGED memVars /\ Continue("drain")
    <3>1. call' = [call EXCEPT !.step = "drain"] /\ call.step # "idle"
      BY <1>4, <2>2 DEF TakeOrdinary, Continue
    <3>2. call' \in CallType /\ call'.i = call.i
      BY <3>1, CallFacts DEF IInv, TypeInv, CallSteps
    <3> QED BY <1>3, <2>2, <3>1, <3>2 DEF Continue, memVars, viewVars
  <2> QED BY <1>4, <2>1, <2>2 DEF TakeOrdinary
<1>5. CASE DrainCma
  <2>1. owned \subseteq owned'
    BY <1>5 DEF DrainCma
  <2>2. call' = [call EXCEPT !.step = "coherent"] /\ call.step # "idle"
    BY <1>5 DEF DrainCma, Continue
  <2>3. call' \in CallType /\ call'.i = call.i
    BY <2>2, CallFacts DEF IInv, TypeInv, CallSteps
  <2>4. UNCHANGED <<pool, poolOff, addr, len, view, slices>>
    BY <1>5 DEF DrainCma, Continue, viewVars
  <2> QED BY <1>3, <2>1, <2>2, <2>3, <2>4
<1>6. CASE TryCoherent
  <2>1. ASSUME NEW b \in Available(len[call.i], Pages), Usable(b), owned' = owned \cup Run(b),
               UNCHANGED <<pool, poolOff>>, Got(b.at)
        PROVE  IInv'
    BY <1>1, <1>6, <2>1, FreshStep DEF TryCoherent
  <2>2. ASSUME NEW b \in Available(len[call.i], Pages), owned' = owned \cup Run(b),
               call' = [call EXCEPT !.tries = @ + 1],
               UNCHANGED <<pool, poolOff, addr, len, viewVars>>
        PROVE  IInv'
    <3>1. call' \in CallType /\ call'.i = call.i /\ call.step # "idle"
      BY <1>6, <2>2, CallFacts DEF TryCoherent, IInv, TypeInv
    <3> QED BY <1>3, <2>2, <3>1 DEF viewVars
  <2>3. CASE UNCHANGED memVars /\ Failed
    BY <1>2, <1>6, <2>3 DEF TryCoherent, memVars
  <2> QED BY <1>6, <2>1, <2>2, <2>3 DEF TryCoherent
<1>7. CASE CoherentFails
  BY <1>2, <1>7 DEF CoherentFails, memVars
<1> QED BY <1>4, <1>5, <1>6, <1>7

\* mmap_23 maps what the buffers are now; free_node leaves nothing.
LEMMA UserStep ==
    IInv /\ ((\E k \in 1..MaxBufs : Mmap(k)) \/ Munmap \/ FreeNode) => IInv'
<1> SUFFICES ASSUME IInv, (\E k \in 1..MaxBufs : Mmap(k)) \/ Munmap \/ FreeNode PROVE IInv'
  OBVIOUS
<1>1. ASSUME NEW newView, NEW newSlices,
             newView \in [Idx -> SUBSET Int], newSlices \subseteq Idx,
             view' = newView, slices' = newSlices,
             \A i \in newSlices : newView[i] # {} /\ newView[i] = PagesOf(i) /\ InPool(addr[i]),
             UNCHANGED <<addr, len, pool, poolOff, owned, call>>
      PROVE  IInv'
  <2>1. TypeInv' /\ InCall' /\ PoolInv' /\ Carved' = Carved
    BY <1>1 DEF IInv, TypeInv, InCall, PoolInv, Run, InReach, Carved
  <2>2. \A i \in Idx : PagesOf(i)' = PagesOf(i)
    BY <1>1 DEF PagesOf
  <2>3. \A i \in Idx : Sound(i)'
    BY <1>1, <2>1, <2>2 DEF IInv, Sound, Run
  <2>4. \A i, j \in Idx : i # j => Apart(i, j)'
    BY <2>2 DEF IInv, Apart
  <2>5. ASSUME NEW i \in newSlices PROVE Stale(i)'
    <3>1. i \in Idx /\ newView[i] = PagesOf(i) /\ PagesOf(i) # {} /\ addr[i] \in Run(pool)
      BY <1>1 DEF InPool
    <3>2. addr[i] # None /\ addr[i] \in PagesOf(i)
      BY <3>1 DEF PagesOf, IInv, TypeInv, Sound
    <3>3. PagesOf(i) \subseteq Carved
      BY <3>1, <3>2 DEF IInv, Sound
    <3> QED BY <1>1, <2>1, <2>2, <3>1, <3>3 DEF Stale, IInv, Apart
  <2> QED BY <1>1, <2>1, <2>3, <2>4, <2>5 DEF IInv
<1>2. ASSUME NEW k \in 1..MaxBufs, Mmap(k) PROVE IInv'
  <2>1. \A i \in Idx : view'[i] \in {{}, PagesOf(i)} /\ PagesOf(i) \in SUBSET Int
    BY <1>2 DEF Mmap, PagesOf, IInv, TypeInv
  <2>2. view' \in [Idx -> SUBSET Int]
    BY <1>2, <2>1 DEF Mmap
  <2>3. /\ slices' = {i \in Idx : view'[i] # {} /\ InPool(addr[i])}
        /\ UNCHANGED <<addr, len, pool, poolOff, owned, call>>
    BY <1>2 DEF Mmap, memVars
  <2>4. \A i \in slices' : view'[i] # {} /\ view'[i] = PagesOf(i) /\ InPool(addr[i])
    BY <2>1, <2>3
  <2>5. slices' \subseteq Idx
    BY <2>3
  <2> QED BY <1>1, <2>2, <2>3, <2>4, <2>5
<1>3. CASE Munmap
  BY <1>1, <1>3 DEF Munmap, memVars
<1>4. CASE FreeNode
  <2>1. /\ addr' = [i \in Idx |-> None] /\ len' = [i \in Idx |-> 0]
        /\ pool' = NoPool /\ poolOff' = 0 /\ call.step = "idle"
        /\ UNCHANGED <<call, view, slices>> /\ \A i \in Idx : view[i] = {}
    BY <1>4 DEF FreeNode, viewVars
  <2>2. TypeInv' /\ InCall'
    BY <2>1 DEF IInv, TypeInv, InCall, NoPool, None
  <2>3. PoolInv'
    BY <2>1 DEF PoolInv, Run, NoPool, InReach
  <2>4. \A i \in Idx : PagesOf(i)' = {}
    BY <2>1 DEF PagesOf
  <2>5. slices' = {}
    BY <2>1 DEF IInv, TypeInv, Stale
  <2> QED BY <2>1, <2>2, <2>3, <2>4, <2>5 DEF IInv, Sound, Apart
<1> QED BY <1>2, <1>3, <1>4

\* The inductive invariant, for every memory and every pool.
THEOREM Inductive == Spec => []IInv
<1>1. IInv /\ [Next]_vars => IInv'
  <2> SUFFICES ASSUME IInv, [Next]_vars PROVE IInv'
    OBVIOUS
  <2>1. CASE UNCHANGED vars
    BY <2>1 DEF vars, IInv, TypeInv, InCall, PoolInv, Sound, Apart, Stale, PagesOf, Run, InReach,
       Carved
  <2>2. CASE Next
    BY <2>2, AllocNodeStep, EnsurePoolStep, TakeSliceStep, KernelStep, UserStep DEF Next
  <2> QED BY <2>1, <2>2
<1>2. QED BY InitIInv, <1>1, PTL DEF Spec

\* Whatever source a buffer came from, the FPGA reaches it.
THEOREM Reachable == Spec => []BuffersReachable
<1>1. IInv => BuffersReachable
  <2> SUFFICES ASSUME IInv, NEW i \in Idx, addr[i] # None
               PROVE  /\ len[i] > 0
                      /\ \A p \in PagesOf(i) : p < WindowEnd /\ p \notin Hole
                      /\ InPool(addr[i]) => PagesOf(i) \subseteq Run(pool)
    BY DEF BuffersReachable
  <2>1. Sound(i) /\ addr[i] \in PagesOf(i)
    BY DEF IInv, TypeInv, Sound, PagesOf
  <2> QED BY <2>1, CarvedInPool DEF IInv, Sound, InPool
<1>2. QED BY <1>1, Inductive, PTL

\* A mapping that outlived its slice shows no other buffer.
THEOREM NoAlias == Spec => []StaleSliceAliasesNothing
<1>1. IInv => StaleSliceAliasesNothing
  BY DEF IInv, Stale, StaleSliceAliasesNothing
<1>2. QED BY <1>1, Inductive, PTL

-----------------------------------------------------------------------------
\* A request past the pool is one the pool could not serve.
PastPool == call.step \in {"noncoherent", "drain", "coherent"} =>
               pool.n = 0 \/ poolOff + len[call.i] > pool.n

\* Nothing but the pool's own steps sends a request past it.
LEMMA PastPoolStep == IInv /\ PastPool /\ [Next]_vars => PastPool'
<1> SUFFICES ASSUME IInv, PastPool, [Next]_vars PROVE PastPool'
  OBVIOUS
<1>0. /\ Idle.step = "idle" /\ poolOff \in Nat /\ pool.n \in Nat /\ len[call.i] \in Nat
      /\ call \in CallType
  BY CallFacts DEF IInv, TypeInv, CallType
<1>1. ASSUME NEW i \in Idx, NEW n \in Lens, AllocNode(i, n) PROVE PastPool'
  BY <1>1 DEF AllocNode, PastPool
<1>2. CASE EnsurePool
  <2>1. CASE UNCHANGED memVars /\ Continue("noncoherent")
    BY <1>2, <2>1 DEF EnsurePool, PastPool, memVars, NoPool
  <2>2. CASE Continue("pool")
    BY <1>0, <2>2, CallFacts DEF Continue, PastPool, CallSteps
  <2> QED BY <1>2, <2>1, <2>2 DEF EnsurePool
<1>3. CASE TakeSlice
  <2>1. CASE call' = Idle
    BY <1>0, <2>1 DEF PastPool
  <2>2. CASE Continue("noncoherent") /\ ~(poolOff + len[call.i] <= pool.n)
    <3>1. call'.i = call.i
      BY <1>0, <2>2, CallFacts DEF Continue, CallSteps
    <3>2. UNCHANGED <<pool, poolOff, len>>
      BY <1>3, <2>2 DEF TakeSlice, Continue
    <3> QED BY <1>0, <2>2, <3>1, <3>2 DEF PastPool
  <2> QED BY <1>3, <2>1, <2>2 DEF TakeSlice, Got
<1>4. CASE TakeOrdinary \/ DrainCma \/ TryCoherent \/ CoherentFails
  <2>1. CASE call' = Idle
    BY <1>0, <2>1 DEF PastPool
  <2>2. CASE /\ call'.i = call.i /\ call.step \in {"noncoherent", "drain", "coherent"}
             /\ UNCHANGED <<pool, poolOff, len>>
    BY <2>2 DEF PastPool
  <2>3. ASSUME NEW st \in CallSteps, Continue(st) PROVE call'.i = call.i /\ UNCHANGED len
    BY <1>0, <2>3, CallFacts DEF Continue
  <2>4. CASE TakeOrdinary
    BY <2>1, <2>2, <2>3, <2>4 DEF TakeOrdinary, Got, memVars, CallSteps
  <2>5. CASE DrainCma
    BY <2>2, <2>3, <2>5 DEF DrainCma, CallSteps
  <2>6. CASE TryCoherent
    <3>1. CASE call' = [call EXCEPT !.tries = @ + 1] /\ UNCHANGED <<pool, poolOff, len>>
      <4>1. call'.i = call.i BY <1>0, <3>1, CallFacts
      <4> QED BY <2>2, <2>6, <3>1, <4>1 DEF TryCoherent
    <3> QED BY <2>1, <2>6, <3>1 DEF TryCoherent, Got, Failed
  <2>7. CASE CoherentFails
    BY <2>1, <2>7 DEF CoherentFails, Failed
  <2> QED BY <1>4, <2>4, <2>5, <2>6, <2>7
<1>5. ASSUME NEW k \in 1..MaxBufs, Mmap(k) PROVE PastPool'
  BY <1>5 DEF Mmap, memVars, PastPool
<1>6. CASE Munmap
  BY <1>6 DEF Munmap, memVars, PastPool
<1>7. CASE FreeNode
  BY <1>7 DEF FreeNode, PastPool
<1>8. CASE UNCHANGED vars
  BY <1>8 DEF vars, PastPool
<1> QED
  BY <1>1, <1>2, <1>3, <1>4, <1>5, <1>6, <1>7, <1>8 DEF Next

\* The sink and the held blocks are taken only when the pool is exhausted.
THEOREM PoolBeforeSink == Spec => PoolFirst
<1>1. Init => PastPool
  BY CallFacts DEF Init, PastPool
<1>2. Spec => []PastPool
  BY <1>1, PastPoolStep, Inductive, PTL DEF Spec
<1>3. PastPool /\ [Next]_vars =>
        ((sink' # sink \/ hold' # hold) /\ sink' \cup hold' # {} =>
            pool.n = 0 \/ poolOff + len[call.i] > pool.n)
  <2> SUFFICES ASSUME PastPool, [Next]_vars, sink' # sink \/ hold' # hold,
                      sink' \cup hold' # {}
               PROVE  pool.n = 0 \/ poolOff + len[call.i] > pool.n
    OBVIOUS
  <2>1. DrainCma \/ TryCoherent
    BY DEF Next, vars, memVars, AllocNode, EnsurePool, TakeSlice, TakeOrdinary, CoherentFails,
       Mmap, Munmap, FreeNode
  <2> QED BY <2>1 DEF DrainCma, TryCoherent, PastPool
<1>4. QED BY <1>2, <1>3, PTL DEF Spec, PoolFirst

-----------------------------------------------------------------------------
Blocks == hold \cup sink
BlockPages == UNION {Run(b) : b \in Blocks}
BufferPages == UNION {PagesOf(i) : i \in Idx}

\* The books of the driver: what it owns is the pool, the blocks and the buffers,
\* and a block shares no page with anything else.
BooksInv ==
    /\ Blocks \subseteq [at : Int, n : Nat \ {0}] /\ hold \cap sink = {}
    /\ owned = Run(pool) \cup BlockPages \cup BufferPages
    /\ \A b \in Blocks :
          /\ Run(b) \cap Run(pool) = {}
          /\ \A i \in Idx : Run(b) \cap PagesOf(i) = {}
          /\ \A c \in Blocks : b # c => Run(b) \cap Run(c) = {}

\* A buffer is either made of slices or lies off the pool.
LEMMA SliceOrNot ==
    IInv => \A i \in Idx : /\ InPool(addr[i]) => PagesOf(i) \subseteq Run(pool)
                           /\ ~InPool(addr[i]) => PagesOf(i) \cap Run(pool) = {}
<1> SUFFICES ASSUME IInv, NEW i \in Idx
             PROVE  /\ InPool(addr[i]) => PagesOf(i) \subseteq Run(pool)
                    /\ ~InPool(addr[i]) => PagesOf(i) \cap Run(pool) = {}
  OBVIOUS
<1>1. CASE addr[i] = None
  BY <1>1 DEF PagesOf
<1>2. CASE addr[i] # None
  <2>1. addr[i] \in PagesOf(i) /\ Sound(i)
    BY <1>2 DEF IInv, TypeInv, Sound, PagesOf
  <2>2. ASSUME ~InPool(addr[i]) PROVE PagesOf(i) \cap Run(pool) = {}
    BY <2>2, FreedIsOwn DEF FreedByOne
  <2>3. InPool(addr[i]) => PagesOf(i) \subseteq Run(pool)
    BY <2>1, CarvedInPool DEF IInv, Sound, InPool
  <2> QED BY <2>2, <2>3
<1> QED BY <1>1, <1>2

\* All that is in the books belongs to the driver.
LEMMA Entries ==
    BooksInv => /\ Run(pool) \subseteq owned
                /\ \A b \in Blocks : Run(b) \subseteq BlockPages /\ Run(b) \subseteq owned
                /\ \A i \in Idx : PagesOf(i) \subseteq BufferPages /\ PagesOf(i) \subseteq owned
<1>1. \A b \in Blocks : Run(b) \subseteq BlockPages
  BY DEF BlockPages
<1>2. \A i \in Idx : PagesOf(i) \subseteq BufferPages
  BY DEF BufferPages
<1> QED BY <1>1, <1>2 DEF BooksInv

\* A step that neither takes memory nor gives any back.
LEMMA SameBooks ==
    /\ BooksInv /\ UNCHANGED <<pool, hold, sink, owned>>
    /\ \A i \in Idx : PagesOf(i)' = PagesOf(i)
    => BooksInv'
<1> HAVE /\ BooksInv /\ UNCHANGED <<pool, hold, sink, owned>>
         /\ \A i \in Idx : PagesOf(i)' = PagesOf(i)
<1>1. /\ Blocks' = Blocks /\ Run(pool)' = Run(pool)
      /\ BlockPages' = BlockPages /\ BufferPages' = BufferPages
  BY DEF Blocks, Run, BlockPages, BufferPages
<1> QED BY <1>1 DEF BooksInv, Run

\* The buffer of a call is placed on pages the blocks do not use.
LEMMA BufferBooks ==
    ASSUME BooksInv, NEW c \in Idx, UNCHANGED <<pool, hold, sink>>, PagesOf(c) = {},
           \A i \in Idx : i # c => PagesOf(i)' = PagesOf(i),
           owned' = owned \cup PagesOf(c)',
           \A b \in Blocks : Run(b) \cap PagesOf(c)' = {}
    PROVE  BooksInv'
<1>1. Blocks' = Blocks /\ BlockPages' = BlockPages /\ Run(pool)' = Run(pool)
  BY DEF Blocks, BlockPages, Run
<1>2. BufferPages' = BufferPages \cup PagesOf(c)'
  BY DEF BufferPages
<1>3. \A b \in Blocks, i \in Idx : Run(b) \cap PagesOf(i)' = {}
  BY DEF BooksInv
<1>4. owned' = Run(pool)' \cup BlockPages' \cup BufferPages'
  BY <1>1, <1>2 DEF BooksInv
<1> QED BY <1>1, <1>3, <1>4 DEF BooksInv, Run

\* A block fresh from the kernel becomes the sink or is held back.
LEMMA BlockBooks ==
    ASSUME IInv, BooksInv, UNCHANGED <<pool, addr, len>>,
           NEW b \in [at : Int, n : Nat \ {0}], Run(b) \cap owned = {}, owned' = owned \cup Run(b),
           \/ hold' = hold \cup {b} /\ sink' = sink
           \/ sink' = {b} /\ sink = {} /\ hold' = hold
    PROVE  BooksInv'
<1>1. Run(pool)' = Run(pool) /\ BufferPages' = BufferPages /\ \A i \in Idx : PagesOf(i)' = PagesOf(i)
  BY DEF Run, BufferPages, PagesOf
<1>2. Blocks' = Blocks \cup {b} /\ BlockPages' = BlockPages \cup Run(b)
  <2>1. Blocks' = Blocks \cup {b}
    BY DEF Blocks
  <2> QED BY <2>1 DEF BlockPages, Run
<1>3. b.at \in Run(b)
  BY DEF Run
<1>4. \A c \in Blocks : Run(c) \subseteq owned
  BY Entries
<1>5. b \notin Blocks
  BY <1>3, <1>4
<1>6. hold' \cap sink' = {}
  BY <1>5 DEF BooksInv, Blocks
<1>7. owned' = Run(pool)' \cup BlockPages' \cup BufferPages'
  BY <1>1, <1>2 DEF BooksInv
<1>8. Blocks' \subseteq [at : Int, n : Nat \ {0}]
  BY <1>2 DEF BooksInv
<1>9. Run(b) \cap Run(pool) = {} /\ \A i \in Idx : Run(b) \cap PagesOf(i) = {}
  BY Entries
<1>10. \A c \in Blocks' :
          /\ Run(c) \cap Run(pool)' = {}
          /\ \A i \in Idx : Run(c) \cap PagesOf(i)' = {}
          /\ \A e \in Blocks' : c # e => Run(c) \cap Run(e) = {}
  BY <1>1, <1>2, <1>4, <1>9 DEF BooksInv
<1> QED BY <1>6, <1>7, <1>8, <1>10 DEF BooksInv, Run

\* alloc_node gives back the pages of the buffer, but not those of a slice.
LEMMA AllocNodeBooks ==
    ASSUME IInv, BooksInv, NEW i \in Idx, NEW n \in Lens, AllocNode(i, n)
    PROVE  BooksInv'
<1>1. /\ owned' = owned \ FreedByOne(i) /\ UNCHANGED <<pool, hold, sink>>
      /\ addr' = [addr EXCEPT ![i] = None] /\ len' = [len EXCEPT ![i] = n]
  BY DEF AllocNode
<1>2. Blocks' = Blocks /\ BlockPages' = BlockPages /\ Run(pool)' = Run(pool)
  BY <1>1 DEF Blocks, BlockPages, Run
<1>3. PagesOf(i)' = {} /\ \A j \in Idx : j # i => PagesOf(j)' = PagesOf(j)
  BY <1>1 DEF PagesOf, IInv, TypeInv
<1>4. \A j \in Idx : j # i => PagesOf(i) \cap PagesOf(j) = {}
  BY DEF IInv, Apart
<1>5. /\ InPool(addr[i]) => PagesOf(i) \subseteq Run(pool)
      /\ ~InPool(addr[i]) => PagesOf(i) \cap Run(pool) = {}
      /\ FreedByOne(i) = IF InPool(addr[i]) THEN {} ELSE PagesOf(i)
  BY SliceOrNot DEF FreedByOne
<1>6. BufferPages = PagesOf(i) \cup BufferPages' /\ BufferPages' \cap PagesOf(i) = {}
  BY <1>3, <1>4 DEF BufferPages
<1>7. BlockPages \cap PagesOf(i) = {}
  BY DEF BooksInv, BlockPages
<1>8. owned' = Run(pool) \cup BlockPages \cup BufferPages'
  BY <1>1, <1>5, <1>6, <1>7 DEF BooksInv
<1>9. \A b \in Blocks : \A j \in Idx : Run(b) \cap PagesOf(j)' = {}
  BY <1>3 DEF BooksInv
<1> QED BY <1>1, <1>2, <1>8, <1>9 DEF BooksInv, Run

\* A pool is carved out of memory nobody had, where there was none before.
LEMMA EnsurePoolBooks == IInv /\ BooksInv /\ EnsurePool => BooksInv'
<1> SUFFICES ASSUME IInv, BooksInv, EnsurePool PROVE BooksInv'
  OBVIOUS
<1>1. CASE UNCHANGED memVars /\ Continue("noncoherent")
  BY <1>1, SameBooks DEF memVars, Continue, PagesOf
<1>2. ASSUME NEW sz \in PoolSizes, NEW b \in Available(sz, PoolRegion), pool' = b,
             owned' = owned \cup Run(b), UNCHANGED <<hold, sink>>, Continue("pool")
      PROVE  BooksInv'
  <2>1. Run(b) \cap owned = {}
    BY DEF Available
  <2>2. Run(pool) = {}
    BY DEF EnsurePool, IInv, TypeInv, Run
  <2>3. /\ Blocks' = Blocks /\ BlockPages' = BlockPages
        /\ Run(pool)' = Run(b) /\ BufferPages' = BufferPages
        /\ \A i \in Idx : PagesOf(i)' = PagesOf(i)
    BY <1>2 DEF Blocks, BlockPages, Run, BufferPages, Continue, PagesOf
  <2>4. owned' = Run(pool)' \cup BlockPages' \cup BufferPages'
    BY <1>2, <2>2, <2>3 DEF BooksInv
  <2>5. \A c \in Blocks : Run(c) \cap Run(pool)' = {}
    BY <2>1, <2>3, Entries
  <2> QED BY <1>2, <2>3, <2>4, <2>5 DEF BooksInv, Run
<1> QED BY <1>1, <1>2 DEF EnsurePool

\* A slice is pages of the pool already.
LEMMA TakeSliceBooks == IInv /\ BooksInv /\ TakeSlice => BooksInv'
<1> SUFFICES ASSUME IInv, BooksInv, TakeSlice PROVE BooksInv'
  OBVIOUS
<1>0. PICK c \in Idx : c = call.i
  BY DEF IInv, TypeInv, CallType
<1>1. CASE poolOff + len[c] <= pool.n
  <2>1. /\ c \in Idx /\ len[c] \in Nat /\ pool.at \in Nat /\ pool.n \in Nat
        /\ poolOff \in 0..pool.n /\ addr[c] = None
    BY <1>0 DEF IInv, TypeInv, CallType, InCall, TakeSlice
  <2>2. /\ addr' = [addr EXCEPT ![c] = pool.at + poolOff] /\ len' = len
        /\ UNCHANGED <<pool, hold, sink, owned>>
    BY <1>0, <1>1 DEF TakeSlice, Got
  <2>3. /\ PagesOf(c) = {} /\ PagesOf(c)' \subseteq Run(pool)
        /\ \A i \in Idx : i # c => PagesOf(i)' = PagesOf(i)
    BY <1>1, <2>1, <2>2 DEF PagesOf, Run, IInv, TypeInv
  <2>4. owned' = owned \cup PagesOf(c)' /\ \A b \in Blocks : Run(b) \cap PagesOf(c)' = {}
    <3>1. \A b \in Blocks : Run(b) \cap Run(pool) = {}
      BY DEF BooksInv
    <3> QED BY <2>2, <2>3, <3>1, Entries
  <2> QED BY <2>1, <2>2, <2>3, <2>4, BufferBooks
<1>2. CASE ~(poolOff + len[c] <= pool.n)
  BY <1>0, <1>2, SameBooks DEF TakeSlice, Continue, PagesOf
<1> QED BY <1>1, <1>2

\* The kernel's memory becomes the buffer, the sink or a held block, or none.
LEMMA KernelBooks ==
    IInv /\ BooksInv /\ (TakeOrdinary \/ DrainCma \/ TryCoherent \/ CoherentFails) => BooksInv'
<1> SUFFICES ASSUME IInv, BooksInv, TakeOrdinary \/ DrainCma \/ TryCoherent \/ CoherentFails
             PROVE  BooksInv'
  OBVIOUS
<1>0. PICK c \in Idx : c = call.i
  BY DEF IInv, TypeInv, CallType
<1>1. c \in Idx /\ len[c] \in Nat \ {0} /\ addr[c] = None
  <2>1. call.step # "idle" /\ c \in Idx /\ len[c] \in Nat
    BY <1>0 DEF IInv, TypeInv, CallType, TakeOrdinary, DrainCma, TryCoherent, CoherentFails
  <2> QED BY <1>0, <2>1 DEF IInv, InCall
<1>2. ASSUME NEW n \in Nat \ {0}, NEW b \in Available(n, Pages)
      PROVE  b \in [at : Nat, n : Nat \ {0}] /\ b.n = n /\ Run(b) \cap owned = {}
  <2>1. b \in [at : Pages, n : {n}] /\ Run(b) \subseteq Pages \ owned
    BY <1>2 DEF Available
  <2> QED BY <2>1, PagesAssumption
<1>3. ASSUME NEW b \in Available(len[c], Pages), owned' = owned \cup Run(b),
             UNCHANGED <<pool, hold, sink>>, Got(b.at)
      PROVE  BooksInv'
  <2>1. b \in [at : Nat, n : Nat \ {0}] /\ b.n = len[c] /\ Run(b) \cap owned = {}
    BY <1>1, <1>2
  <2>2. addr' = [addr EXCEPT ![c] = b.at] /\ len' = len
    BY <1>0, <1>3 DEF Got
  <2>3. /\ PagesOf(c) = {} /\ PagesOf(c)' = Run(b)
        /\ \A i \in Idx : i # c => PagesOf(i)' = PagesOf(i)
    BY <1>1, <2>1, <2>2 DEF PagesOf, Run, IInv, TypeInv, None
  <2>4. \A e \in Blocks : Run(e) \cap PagesOf(c)' = {}
    BY <2>1, <2>3, Entries
  <2> QED BY <1>1, <1>3, <2>3, <2>4, BufferBooks
<1>4. ASSUME UNCHANGED <<pool, hold, sink, owned, addr>>, len' = len \/ Failed PROVE BooksInv'
  <2>1. \A i \in Idx : PagesOf(i)' = PagesOf(i)
    BY <1>0, <1>1, <1>4 DEF Failed, PagesOf, IInv, TypeInv
  <2> QED BY <1>4, <2>1, SameBooks
<1>5. CASE TakeOrdinary
  BY <1>0, <1>3, <1>4, <1>5 DEF TakeOrdinary, Continue, memVars
<1>6. CASE DrainCma
  <2>1. ASSUME NEW s \in SinkSizes, NEW b \in Available(s, Pages),
               sink = {}, sink' = {b}, owned' = owned \cup Run(b)
        PROVE  BooksInv'
    <3>1. b \in [at : Int, n : Nat \ {0}] /\ Run(b) \cap owned = {}
      <4>1. s \in Nat \ {0}
        BY SizesAssumption
      <4> QED BY <1>2, <4>1
    <3>2. UNCHANGED <<pool, hold, addr, len>>
      BY <1>6 DEF DrainCma, Continue
    <3> QED BY <2>1, <3>1, <3>2, BlockBooks
  <2>2. CASE UNCHANGED <<sink, owned>>
    BY <1>4, <1>6, <2>2 DEF DrainCma, Continue
  <2> QED BY <1>6, <2>1, <2>2 DEF DrainCma
<1>7. CASE TryCoherent
  <2>1. ASSUME NEW b \in Available(len[c], Pages), hold' = hold \cup {b}, owned' = owned \cup Run(b),
               UNCHANGED <<pool, sink, addr, len>>
        PROVE  BooksInv'
    <3>1. b \in [at : Int, n : Nat \ {0}] /\ Run(b) \cap owned = {}
      BY <1>1, <1>2
    <3> QED BY <2>1, <3>1, BlockBooks
  <2> QED BY <1>0, <1>3, <1>4, <1>7, <2>1 DEF TryCoherent, Failed, memVars, viewVars
<1>8. CASE CoherentFails
  BY <1>4, <1>8 DEF CoherentFails, Failed, memVars
<1> QED BY <1>5, <1>6, <1>7, <1>8

\* free_node gives back all there is.
LEMMA FreeNodeBooks == IInv /\ BooksInv /\ FreeNode => BooksInv'
<1> SUFFICES ASSUME IInv, BooksInv, FreeNode PROVE BooksInv'
  OBVIOUS
<1> DEFINE F == UNION {FreedByOne(i) : i \in {j \in Idx : len[j] # 0}}
           G == UNION {Run(b) : b \in hold \cup sink}
<1>1. /\ addr' = [i \in Idx |-> None] /\ pool' = NoPool /\ hold' = {} /\ sink' = {}
      /\ owned' = owned \ (F \cup G \cup Run(pool))
  BY DEF FreeNode
<1>2. ASSUME NEW i \in Idx, NEW p \in PagesOf(i), p \notin Run(pool)
      PROVE  len[i] # 0 /\ p \in FreedByOne(i)
  <2>1. addr[i] # None /\ len[i] # 0
    BY <1>2 DEF PagesOf, IInv, Sound
  <2>2. ~InPool(addr[i])
    BY <1>2, SliceOrNot
  <2> QED BY <1>2, <2>1, <2>2 DEF FreedByOne
<1>3. owned' = {}
  <2>1. BufferPages \subseteq Run(pool) \cup F
    BY <1>2 DEF BufferPages
  <2>2. owned = Run(pool) \cup G \cup BufferPages
    BY DEF BooksInv, BlockPages, Blocks
  <2> HIDE DEF F, G
  <2> QED BY <1>1, <2>1, <2>2
<1>4. Blocks' = {} /\ BlockPages' = {} /\ BufferPages' = {} /\ Run(pool)' = {}
  BY <1>1 DEF Blocks, BlockPages, BufferPages, PagesOf, Run, NoPool
<1> QED BY <1>1, <1>3, <1>4 DEF BooksInv

\* The books are kept by every step.
LEMMA BooksStep == IInv /\ BooksInv /\ [Next]_vars => BooksInv'
<1> SUFFICES ASSUME IInv, BooksInv, [Next]_vars PROVE BooksInv'
  OBVIOUS
<1>1. ASSUME NEW k \in 1..MaxBufs, Mmap(k) PROVE BooksInv'
  BY <1>1, SameBooks DEF Mmap, memVars, PagesOf
<1>2. CASE Munmap
  BY <1>2, SameBooks DEF Munmap, memVars, PagesOf
<1>3. CASE UNCHANGED vars
  BY <1>3, SameBooks DEF vars, PagesOf
<1> QED BY <1>1, <1>2, <1>3, AllocNodeBooks, EnsurePoolBooks, TakeSliceBooks, KernelBooks,
           FreeNodeBooks DEF Next

\* No page is lost and none is kept twice, whichever of the sources of memory
\* gave it and wherever an allocation failed.
THEOREM Accounted == Spec => []EveryPageAccounted
<1>1. Init => BooksInv
  <2> SUFFICES ASSUME Init PROVE BooksInv
    OBVIOUS
  <2>1. Blocks = {} /\ BlockPages = {} /\ BufferPages = {} /\ Run(pool) = {}
    BY DEF Init, Blocks, BlockPages, BufferPages, PagesOf, Run, NoPool
  <2> QED BY <2>1 DEF Init, BooksInv
<1>2. IInv /\ BooksInv => EveryPageAccounted
  <2> SUFFICES ASSUME IInv, BooksInv PROVE EveryPageAccounted
    OBVIOUS
  <2>1. \A i \in Idx : PagesOf(i) \subseteq UNION Areas
    <3> TAKE i \in Idx
    <3>1. Run(pool) \in Areas
      BY DEF Areas
    <3>2. CASE addr[i] = None
      BY <3>2 DEF PagesOf
    <3>3. CASE InPool(addr[i])
      BY <3>1, <3>3, SliceOrNot
    <3>4. CASE addr[i] # None /\ ~InPool(addr[i])
      BY <3>4 DEF Areas
    <3> QED BY <3>2, <3>3, <3>4
  <2>2. owned \subseteq UNION Areas
    <3>1. Run(pool) \in Areas /\ \A b \in Blocks : Run(b) \in Areas
      BY DEF Areas, Blocks
    <3>2. BlockPages \subseteq UNION Areas
      BY <3>1 DEF BlockPages
    <3>3. BufferPages \subseteq UNION Areas
      BY <2>1 DEF BufferPages
    <3> QED BY <3>1, <3>2, <3>3 DEF BooksInv
  <2>3. UNION Areas \subseteq owned
    <3>1. \A A \in Areas : A \subseteq owned
      BY Entries DEF Areas, Blocks
    <3> QED BY <3>1
  <2>4. \A i, j \in Idx : i # j => PagesOf(i) \cap PagesOf(j) = {}
    BY DEF IInv, Apart
  <2>5. \A i \in Idx : InPool(addr[i]) \/ PagesOf(i) \cap Run(pool) = {}
    BY SliceOrNot
  <2> QED BY <2>2, <2>3, <2>4, <2>5 DEF EveryPageAccounted, BooksInv, Blocks
<1> QED BY <1>1, <1>2, BooksStep, Inductive, PTL DEF Spec
=============================================================================
