----------------------------- MODULE MCZeroCopy -----------------------------
(***************************************************************************)
(* Model checking of ZeroCopy.  Three frames let a callback finish a       *)
(* younger frame before the oldest; two getters contend for get_buff.      *)
(* The liveness properties are checked with the safety ones, so the frames *)
(* and getters are not declared symmetric.                                 *)
(***************************************************************************)
EXTENDS ZeroCopy
=============================================================================
