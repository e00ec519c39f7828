---------------------------- MODULE MCCompletion ----------------------------
(***************************************************************************)
(* Model checking of Completion with 5 descriptors and a mask of 3 bits     *)
(* (192 and 9 bits in the library): a backlog of all descriptors occurs.    *)
(***************************************************************************)
EXTENDS Completion
=============================================================================
