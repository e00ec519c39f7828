----------------------------- MODULE MCDmaAlloc -----------------------------
(***************************************************************************)
(* Model checking of DmaAlloc: six pages, of which 0 is ordinary, 1 the    *)
(* CMA area, 2 to 4 the pool's region and 5 out of the FPGA's reach.  A    *)
(* pool of two or three pages runs out after two or three buffers (a       *)
(* buffer allocated again takes another slice), one held block fills the   *)
(* hold list, two tries end the loop of coherent allocations.              *)
(***************************************************************************)
EXTENDS DmaAlloc

MCPages == 0..5
MCPoolRegion == 2..4
=============================================================================
