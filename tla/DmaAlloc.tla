------------------------------ MODULE DmaAlloc ------------------------------
(***************************************************************************)
(* The DMA buffers of pcie-driver/mymodule.c: alloc_node and               *)
(* m2sdr_alloc_dma with its three sources of memory (a pool carved out     *)
(* above 1 GiB, ordinary pages, coherent memory with rejected blocks held  *)
(* back), mmap_23 and free_node.                                           *)
(*                                                                         *)
(* Memory is a row of pages, named by their DMA address; a buffer is a run *)
(* of pages.  The kernel's allocators are outside the repository: they     *)
(* return any run of pages the driver does not own, or fail.  One          *)
(* allocation is in progress at a time (libpcie allocates from one         *)
(* thread); its steps interleave with mmap of other threads.               *)
(***************************************************************************)
EXTENDS Integers, FiniteSets

CONSTANTS
    MaxBufs,        \* MAX_BUFS
    Lens,           \* sizes asked for, in pages
    Pages,          \* pages there are
    WindowEnd,      \* first page the FPGA cannot address (M2SDR_DMA_WIN_END)
    HoleLo, HoleHi, \* first page of the default CMA area, and first after it
                    \* (M2SDR_CMA_HOLE_LO, M2SDR_CMA_HOLE_HI)
    PoolRegion,     \* pages a pool may be carved from (M2SDR_POOL_PHYS)
    PoolSizes,      \* 16 MiB, and 8 MiB as the fallback
    SinkSizes,      \* sizes tried for the CMA sink
    HoldMax,        \* rejected blocks kept (M2SDR_HOLD_MAX)
    Tries           \* coherent allocations tried per call (48)

ASSUME MaxBufsAssumption == MaxBufs \in Nat \ {0}
ASSUME PagesAssumption == Pages \subseteq Nat /\ IsFiniteSet(Pages)
ASSUME HoleAssumption == HoleLo \in Nat /\ HoleHi \in Nat /\ HoleLo < HoleHi
ASSUME RegionAssumption == PoolRegion \subseteq Pages
ASSUME SizesAssumption ==
    /\ Lens \subseteq Nat \ {0} /\ PoolSizes \subseteq Nat \ {0} /\ SinkSizes \subseteq Nat \ {0}
    /\ HoldMax \in Nat /\ Tries \in Nat /\ WindowEnd \in Nat

None == -1          \* a NULL address
Idx == 0..(MaxBufs - 1)

VARIABLES
    addr,       \* drv_addr of each buffer, or None
    len,        \* its len; set before the memory is there
    pool,       \* first page and size of the pool; size 0 when there is none
    poolOff,    \* m2sdr_pool_off
    hold,       \* rejected blocks held back: first page and size
    sink,       \* the CMA sink, if any: first page and size
    owned,      \* pages the kernel has given to the driver
    call,       \* the allocation in progress: its step, index and tries
    view,       \* pages that user space has mapped for each buffer
    slices      \* the buffers that were pool slices when they were mapped

vars == <<addr, len, pool, poolOff, hold, sink, owned, call, view, slices>>
memVars == <<pool, poolOff, hold, sink, owned>>

Run(b) == b.at..(b.at + b.n - 1)

\* The pages of the default CMA area.
Hole == HoleLo..(HoleHi - 1)

viewVars == <<view, slices>>

NoPool == [at |-> 0, n |-> 0]
Idle == [step |-> "idle", i |-> 0, tries |-> 0]

PagesOf(i) == IF addr[i] = None THEN {} ELSE addr[i]..(addr[i] + len[i] - 1)

\* Runs of n pages that an allocator may return.
Available(n, where) == {b \in [at : where, n : {n}] : Run(b) \subseteq where \ owned}

\* Mutant: only the page a block begins on is looked at.
Usable_Start(b) == b.at < WindowEnd /\ b.at \notin Hole

\* m2sdr_dma_in_window and not m2sdr_dma_in_cma_hole, by the ends of the block.
Usable(b) ==
    LET end == b.at + b.n
    IN  /\ b.at < WindowEnd /\ end <= WindowEnd
        /\ ~(b.at < HoleHi /\ end > HoleLo)

\* m2sdr_is_pool_va
InPool(a) == pool.n > 0 /\ a \in Run(pool)

Init ==
    /\ addr = [i \in Idx |-> None]
    /\ len = [i \in Idx |-> 0]
    /\ pool = NoPool /\ poolOff = 0
    /\ hold = {} /\ sink = {} /\ owned = {}
    /\ call = Idle
    /\ view = [i \in Idx |-> {}] /\ slices = {}

-----------------------------------------------------------------------------
\* Mutant: a pool slice is freed like any other buffer.
FreedByOne_Slices(i) == PagesOf(i)

\* Pages that m2sdr_free_one gives back to the kernel: none of a pool slice.
FreedByOne(i) == IF InPool(addr[i]) THEN {} ELSE PagesOf(i)

\* Mutant: the slice of a freed buffer goes back to the pool.
AllocNode_Reclaims(i, n) ==
    /\ call.step = "idle"
    /\ len[i] # n
    /\ owned' = owned \ FreedByOne(i)
    /\ poolOff' = IF InPool(addr[i]) THEN poolOff - len[i] ELSE poolOff
    /\ addr' = [addr EXCEPT ![i] = None]
    /\ len' = [len EXCEPT ![i] = n]
    /\ call' = [step |-> "pool", i |-> i, tries |-> 0]
    /\ UNCHANGED <<pool, hold, sink, viewVars>>

\* alloc_node up to the allocation: the same size returns the buffer there is,
\* another size frees it first.
AllocNode(i, n) ==
    /\ call.step = "idle"
    /\ len[i] # n
    /\ owned' = owned \ FreedByOne(i)
    /\ addr' = [addr EXCEPT ![i] = None]
    /\ len' = [len EXCEPT ![i] = n]
    /\ call' = [step |-> "pool", i |-> i, tries |-> 0]
    /\ UNCHANGED <<pool, poolOff, hold, sink, viewVars>>

\* The buffer of the call is at page a.
Got(a) ==
    /\ addr' = [addr EXCEPT ![call.i] = a]
    /\ call' = Idle
    /\ UNCHANGED <<len, viewVars>>

\* The call returns NULL.
Failed ==
    /\ len' = [len EXCEPT ![call.i] = 0]
    /\ call' = Idle
    /\ UNCHANGED <<addr, viewVars>>

Continue(s) ==
    /\ call' = [call EXCEPT !.step = s]
    /\ UNCHANGED <<addr, len, viewVars>>

\* m2sdr_ensure_pool with no pool there: a run of either size is carved out,
\* or neither can be.
EnsurePool ==
    /\ call.step = "pool" /\ pool.n = 0
    /\ \/ \E s \in PoolSizes : \E b \in Available(s, PoolRegion) :
            /\ Usable(b)
            /\ pool' = b /\ poolOff' = 0
            /\ owned' = owned \cup Run(b)
            /\ UNCHANGED <<hold, sink>>
            /\ Continue("pool")
       \/ UNCHANGED memVars /\ Continue("noncoherent")

\* Mutant: the last slice that fits is refused.
TakeSlice_Strict ==
    /\ call.step = "pool" /\ pool.n > 0
    /\ IF poolOff + len[call.i] < pool.n
       THEN poolOff' = poolOff + len[call.i] /\ Got(pool.at + poolOff)
       ELSE UNCHANGED poolOff /\ Continue("noncoherent")
    /\ UNCHANGED <<pool, hold, sink, owned>>

\* The next slice of the pool, which is never taken back before the pool is.
TakeSlice ==
    /\ call.step = "pool" /\ pool.n > 0
    /\ IF poolOff + len[call.i] <= pool.n
       THEN poolOff' = poolOff + len[call.i] /\ Got(pool.at + poolOff)
       ELSE UNCHANGED poolOff /\ Continue("noncoherent")
    /\ UNCHANGED <<pool, hold, sink, owned>>

\* dma_alloc_noncoherent: an unusable block goes straight back.
TakeOrdinary ==
    /\ call.step = "noncoherent"
    /\ \/ \E b \in Available(len[call.i], Pages) :
            /\ Usable(b)
            /\ owned' = owned \cup Run(b)
            /\ UNCHANGED <<pool, poolOff, hold, sink>>
            /\ Got(b.at)
       \/ UNCHANGED memVars /\ Continue("drain")

\* m2sdr_drain_cma: take up the default CMA area, once.
DrainCma ==
    /\ call.step = "drain"
    /\ \/ /\ sink = {}
          /\ \E s \in SinkSizes : \E b \in Available(s, Pages) :
               sink' = {b} /\ owned' = owned \cup Run(b)
       \/ UNCHANGED <<sink, owned>>
    /\ UNCHANGED <<pool, poolOff, hold>>
    /\ Continue("coherent")

\* dma_alloc_coherent, until a block is usable; the others are held back so
\* that the allocator does not return them again.
TryCoherent ==
    /\ call.step = "coherent" /\ call.tries < Tries
    /\ \E b \in Available(len[call.i], Pages) :
         \/ /\ Usable(b)
            /\ owned' = owned \cup Run(b)
            /\ UNCHANGED <<pool, poolOff, hold, sink>>
            /\ Got(b.at)
         \/ /\ ~Usable(b) /\ Cardinality(hold) < HoldMax
            /\ hold' = hold \cup {b}
            /\ owned' = owned \cup Run(b)
            /\ call' = [call EXCEPT !.tries = @ + 1]
            /\ UNCHANGED <<pool, poolOff, sink, addr, len, viewVars>>
         \/ /\ ~Usable(b) /\ Cardinality(hold) = HoldMax
            /\ UNCHANGED memVars
            /\ Failed

\* No block at all, or no try left.
CoherentFails ==
    /\ call.step = "coherent"
    /\ UNCHANGED memVars
    /\ Failed

\* mmap_23: the buffers from index 0 on, up to the first that is missing or to
\* the end of the area asked for.
Mmap(k) ==
    /\ view' = [i \in Idx |-> IF i < k /\ \A j \in 0..i : addr[j] # None
                              THEN PagesOf(i) ELSE {}]
    /\ slices' = {i \in Idx : view'[i] # {} /\ InPool(addr[i])}
    /\ UNCHANGED <<addr, len, memVars, call>>

Munmap ==
    /\ \E i \in Idx : view[i] # {}
    /\ view' = [i \in Idx |-> {}] /\ slices' = {}
    /\ UNCHANGED <<addr, len, memVars, call>>

\* free_node, from az_remove when the module is removed: no file is open then
\* (fops.owner), hence nothing is mapped.  Buffers, then held blocks, sink and
\* pool.
FreeNode ==
    /\ call.step = "idle"
    /\ \A i \in Idx : view[i] = {}
    /\ owned # {}
    /\ owned' = owned \ ((UNION {FreedByOne(i) : i \in {j \in Idx : len[j] # 0}})
                           \cup (UNION {Run(b) : b \in hold \cup sink}) \cup Run(pool))
    /\ addr' = [i \in Idx |-> None]
    /\ len' = [i \in Idx |-> 0]
    /\ pool' = NoPool /\ poolOff' = 0 /\ hold' = {} /\ sink' = {}
    /\ UNCHANGED <<call, viewVars>>

Next ==
    \/ \E i \in Idx, n \in Lens : AllocNode(i, n)
    \/ EnsurePool \/ TakeSlice \/ TakeOrdinary \/ DrainCma
    \/ TryCoherent \/ CoherentFails
    \/ \E k \in 1..MaxBufs : Mmap(k)
    \/ Munmap \/ FreeNode

Spec == Init /\ [][Next]_vars

-----------------------------------------------------------------------------
\* The memory areas the driver keeps track of, one per source.
Areas == {PagesOf(i) : i \in {j \in Idx : addr[j] # None /\ ~InPool(addr[j])}}
           \cup {Run(b) : b \in hold \cup sink} \cup {Run(pool)}

\* No page is lost and none is accounted twice: what the kernel gave is exactly
\* the pool, the buffers outside it, the held blocks and the sink, and these do
\* not overlap, so that free_node leaks nothing and frees nothing twice, whichever
\* of the calls before it failed half way.
EveryPageAccounted ==
    /\ owned = UNION Areas
    /\ \A i, j \in Idx : i # j => PagesOf(i) \cap PagesOf(j) = {}
    /\ \A i \in Idx : InPool(addr[i]) \/ PagesOf(i) \cap Run(pool) = {}
    /\ hold \cap sink = {}
    /\ \A b \in hold \cup sink :
          /\ Run(b) \cap Run(pool) = {}
          /\ \A i \in Idx : Run(b) \cap PagesOf(i) = {}
          /\ \A c \in hold \cup sink : b # c => Run(b) \cap Run(c) = {}

\* The FPGA reaches every buffer, none lies in the CMA area it cannot write
\* usefully, and a slice is inside its pool.
BuffersReachable ==
    \A i \in Idx : addr[i] # None =>
        /\ len[i] > 0
        /\ \A p \in PagesOf(i) : p < WindowEnd /\ p \notin Hole
        /\ InPool(addr[i]) => PagesOf(i) \subseteq Run(pool)

\* A mapping of a pool slice made before the buffer was reallocated shows its
\* old slice, which no other buffer has been given: stale user pointers into
\* the pool alias nothing.
StaleSliceAliasesNothing ==
    \A i \in slices, j \in Idx : i # j => view[i] \cap PagesOf(j) = {}

\* The sink and the held blocks, which keep memory from the rest of the system,
\* are taken only once the pool cannot serve the request ("prefer a contiguous
\* 1-2 GiB pool").
PoolFirst ==
    [][(sink' # sink \/ hold' # hold) /\ sink' \cup hold' # {} =>
          pool.n = 0 \/ poolOff + len[call.i] > pool.n]_vars

\* "Userspace must see the same pages the FPGA writes" (COMMUNITY-CHANGES.md):
\* what is mapped for a buffer is the buffer.  It does not hold: alloc_node moves
\* a buffer whose mapping mmap_23 has made and leaves that mapping as it was.
UserSeesTheBuffer ==
    \A i \in Idx : view[i] # {} /\ addr[i] # None => view[i] = PagesOf(i)
=============================================================================
