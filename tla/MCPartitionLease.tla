-------------------------- MODULE MCPartitionLease --------------------------
(* Two coordinators, two partitions. *)
EXTENDS PartitionLease

CONSTANTS i1, i2
=============================================================================
