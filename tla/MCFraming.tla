----------------------------- MODULE MCFraming -----------------------------
(***************************************************************************)
(* Instances of Framing for TLC: payloads of 0 to 2 bytes, one of them     *)
(* holding the byte that starts an event, and one that makes an event as   *)
(* long as the accumulator.                                                *)
(***************************************************************************)
EXTENDS Framing

Payloads == {<<>>, <<7>>, <<4, 1>>}
Long     == <<1, 2, 3, 4, 5, 6, 7>>

(* Two of the opcodes of processBuffer: vendor specific, Command Complete. *)
TwoOpcodes == [opcode : {255, 14}, payload : Payloads] \cup [opcode : {14}, payload : {Long}]
=============================================================================
