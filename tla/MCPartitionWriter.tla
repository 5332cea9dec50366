-------------------------- MODULE MCPartitionWriter --------------------------
(* Instances of PartitionWriter for TLC. *)
EXTENDS PartitionWriter

\* Messages 1 and 3 of size 2, the others of size 1.
MCSize == [m \in Msgs |-> IF m % 2 = 1 THEN 2 ELSE 1]
=============================================================================
