---------------------------- MODULE MCRequestRing ----------------------------
(***************************************************************************)
(* Instances of RequestRing for TLC.                                       *)
(***************************************************************************)
EXTENDS RequestRing

\* The list merry_request_queue_init builds when memory lasts, and the one it
\* is left with when only the last of its allocations fails.
EnoughNodes == {QueueLen, QueueLen + 1}
=============================================================================
