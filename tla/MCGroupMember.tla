---------------------------- MODULE MCGroupMember ----------------------------
(* Instances of GroupMember for TLC. *)
EXTENDS GroupMember

\* Synchronous commits with the partition watcher, and interval commits without.
MCConfigs == {[sync |-> TRUE, watch |-> TRUE], [sync |-> FALSE, watch |-> FALSE]}
=============================================================================
