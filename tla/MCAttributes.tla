---------------------------- MODULE MCAttributes ----------------------------
(***************************************************************************)
(* Instances of Attributes for TLC: two attributes whose readers pass      *)
(* buffers of different sizes, a thread with two operations and one with   *)
(* one.                                                                    *)
(***************************************************************************)
EXTENDS Attributes

Other == CHOOSE t \in Threads : TRUE
MCMaxOps == [t \in Threads |-> IF t = Other THEN 1 ELSE 2]
MCCapacity == [h \in Handles |-> h]
=============================================================================
