---------------------------- MODULE MCJobWatcher ----------------------------
(* Instances of JobWatcher for TLC. *)
EXTENDS JobWatcherProps
CONSTANTS p1, p2, p3, r1
=============================================================================
