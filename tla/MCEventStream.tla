---------------------------- MODULE MCEventStream ----------------------------
(* EventStream with its bounds; the cfg gives the constants. *)
EXTENDS EventStream
==============================================================================
