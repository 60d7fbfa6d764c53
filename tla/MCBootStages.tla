---------------------------- MODULE MCBootStages ----------------------------
(* Instances of the boot for TLC. *)
EXTENDS BootStages

\* A device with a native bridge of its own.
HasBridge == <<BridgeLib>>

\* Zygote restarts once post-fs-data has ended, in the first two boots; many
\* boots, failed operations and a replaced daemon are not combined.
Focus ==
  /\ restarts' > restarts => step \notin PostFsData /\ "POST_FS_DATA" \notin waiting
  /\ restarts' > 0 \/ stops' > 0 => boots' <= 2 /\ faults' = 0
=============================================================================
