--------------------------- MODULE MCSdrppSource ---------------------------
(***************************************************************************)
(* Model checking of SdrppSource with the limits of the code, any number of *)
(* starts and stops, three commands that throw, and up to two stale packets *)
(* whenever the card falls quiet.                                          *)
(***************************************************************************)
EXTENDS SdrppSource
=============================================================================
