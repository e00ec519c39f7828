--------------------------- MODULE MCB200Control ---------------------------
(***************************************************************************)
(* Model checking of B200Control.  Any two calls that share a register or a *)
(* field of the host are made by one of the applications together.          *)
(***************************************************************************)
EXTENDS B200Control

MCSituations ==
    ({{"clock", "time", "rate", "filter"}} \X {"absent", "silent", "present"} \X {2})
    \cup ({{"clock", "filter", "stream"}, {"rate", "stream"}, {"antenna", "stream"}}
          \X {"present"} \X {1})
=============================================================================
