---------------------------- MODULE MCFrameSize ----------------------------
(***************************************************************************)
(* Model checking of FrameSize: every argument around every multiple of    *)
(* 512 up to the maximum of 16360 bytes, around both limits, and the sizes *)
(* that docs/sample-rate.md recommends.                                    *)
(***************************************************************************)
EXTENDS FrameSize

Around(n) == (n - 26)..(n + 26)
MCRequests ==
    UNION {Around(512 * k) : k \in 0..32} \cup Around(MinSize) \cup Around(MaxSize)
      \cup {3088, 8176, 12272}
=============================================================================
