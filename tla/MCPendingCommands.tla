------------------------- MODULE MCPendingCommands -------------------------
(***************************************************************************)
(* Instances of PendingCommands for TLC.                                   *)
(***************************************************************************)
EXTENDS PendingCommands

CONSTANTS t1, t2, version, reset, scan   \* threads and opcodes

(* Each opcode is sent by one thread only.                                 *)
MCDisjoint == [t \in Threads |-> IF t = t1 THEN {version, reset} ELSE {scan}]

(* Every thread sends every opcode: two controllers, or two callers.       *)
MCShared == [t \in Threads |-> Opcodes]

(* One thread resets, and a status and a complete event acknowledge that;  *)
(* both ask for the version.                                               *)
MCMixed == [t \in Threads |-> IF t = t1 THEN {version} ELSE {version, reset}]
=============================================================================
