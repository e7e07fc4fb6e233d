-------------------------- MODULE MCMonitorEntries --------------------------
(***************************************************************************)
(* Instances of MonitorEntries: a ring of three buckets, small enough that *)
(* the ids wrap around and the queue overflows within the bound.           *)
(***************************************************************************)
EXTENDS MonitorEntries

\* The states from which exploration goes on: the ring is still regular.
RegularOnly == regular
=============================================================================
