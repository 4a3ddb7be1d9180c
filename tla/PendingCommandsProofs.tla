----------------------- MODULE PendingCommandsProofs -----------------------
(***************************************************************************)
(* Proofs about PendingCommands, for every number of slots, set of         *)
(* threads, opcodes and bounds: what holds of the table whoever sends      *)
(* what, then when a call is certain to get its own reply.                 *)
(***************************************************************************)
EXTENDS PendingCommands, FiniteSetTheorems, TLAPS

(* The steps of one caller and of the I/O thread leave every variable in   *)
(* its type.                                                               *)
LEMMA TypeInductive == TypeOK /\ [Next]_vars => TypeOK'
<1> SUFFICES ASSUME TypeOK, [Next]_vars PROVE TypeOK'
  OBVIOUS
<1> USE SlotsAssumption, OpcodeAssumption, ThreadAssumption, BoundAssumption
<1> USE DEF TypeOK, Slots, At, Go, Running, DefaultStatus, NextIndex, ResetEvent,
            NewBuffer, ResultBuffer, channel
<1>1. ASSUME NEW t \in Threads, ExecuteCommand(t) PROVE TypeOK'
  <2>1. PICK op \in OpcodesOf[t] : cmd' = [cmd EXCEPT ![t] = op]
    BY <1>1 DEF ExecuteCommand
  <2>2. op \in Opcodes /\ calls[t] + 1 \in 1 .. MaxCalls
    BY <1>1, <2>1 DEF ExecuteCommand
  <2> QED
    BY <1>1, <2>1, <2>2 DEF ExecuteCommand, slotVars, ioVars, endVars
<1>2. ASSUME NEW t \in Threads, Lock(t) PROVE TypeOK'
  BY <1>2 DEF Lock, slotVars, callData, ioVars, endVars
<1>3. ASSUME NEW t \in Threads, ScanTaken(t) PROVE TypeOK'
  BY <1>3 DEF ScanTaken, slotVars, callData, ioVars, endVars
<1>4a. ASSUME NEW t \in Threads, ScanFree(t) PROVE TypeOK'
  BY <1>4a DEF ScanFree, slotVars, callData, ioVars, endVars
<1>4. ASSUME NEW t \in Threads, Reserve(t) PROVE TypeOK'
  BY <1>4 DEF Reserve, callData, ioVars, endVars
<1>5. ASSUME NEW t \in Threads, TableFull(t) PROVE TypeOK'
  BY <1>5 DEF TableFull, slotVars, callData, ioVars, endVars
<1>6. ASSUME NEW t \in Threads, Unlock(t) PROVE TypeOK'
  BY <1>6 DEF Unlock, slotVars, callData, ioVars, endVars
<1>7. ASSUME NEW t \in Threads, ResetCondition(t) PROVE TypeOK'
  BY <1>7 DEF ResetCondition, callData, ioVars, endVars
<1>8. ASSUME NEW t \in Threads, SetBuffer(t) PROVE TypeOK'
  <2>1. ThisCall(t) \in Calls
    BY <1>8 DEF SetBuffer, ThisCall, Calls
  <2> QED
    BY <1>8, <2>1 DEF SetBuffer, callData, ioVars, endVars
<1>8a. ASSUME NEW t \in Threads, SetStatus(t) PROVE TypeOK'
  BY <1>8a DEF SetStatus, callData, ioVars, endVars
<1>9. ASSUME NEW t \in Threads, SendCommand(t) PROVE TypeOK'
  <2>1. ThisCall(t) \in Calls /\ cmd[t] \in Opcodes
    BY <1>9 DEF SendCommand, ThisCall, Calls
  <2>2. inFlight' \subseteq Commands
    BY <1>9, <2>1 DEF SendCommand, Commands
  <2> QED
    BY <1>9, <2>2 DEF SendCommand, slotVars, callData, ioVars, endVars
<1>9a. ASSUME NEW t \in Threads, WriteFails(t) PROVE TypeOK'
  BY <1>9a DEF WriteFails, slotVars, callData, ioVars
<1>9b. ASSUME NEW t \in Threads, Transmitted(t) \/ SleepOnWrite(t) PROVE TypeOK'
  BY <1>9b DEF Transmitted, SleepOnWrite, slotVars, callData, ioVars, endVars
<1>9c. ASSUME WriteComplete PROVE TypeOK'
  BY <1>9c DEF WriteComplete, Asleep, slotVars, callData, ioVars, endVars
<1>10. ASSUME NEW t \in Threads, Collect(t) PROVE TypeOK'
  BY <1>10 DEF Collect, slotVars, ioVars, endVars
<1>11. ASSUME NEW t \in Threads, Release(t) PROVE TypeOK'
  BY <1>11 DEF Release, callData, ioVars, endVars
<1>12. ASSUME NEW t \in Threads, Timeout(t) PROVE TypeOK'
  BY <1>12 DEF Timeout, slotVars, callData, ioVars
<1>13. ASSUME NEW t \in Threads, WaitOnNull(t) PROVE TypeOK'
  BY <1>13 DEF WaitOnNull, slotVars, callVars, callData, ioVars
<1>14. ASSUME Acknowledge PROVE TypeOK'
  <2>1. PICK c \in inFlight, code \in Outcomes :
          /\ reply' = [call |-> c.call, opcode |-> c.opcode, left |-> c.left, code |-> code]
          /\ inFlight' = (inFlight \ {c}) \cup
               IF c.left = 1 THEN {} ELSE {[call |-> c.call, opcode |-> c.opcode, left |-> 1]}
    BY <1>14 DEF Acknowledge
  <2>2. c \in Commands
    OBVIOUS
  <2>3. reply' \in Replies
    BY <2>1, <2>2, OutcomeAssumption DEF Replies, Commands
  <2>4. inFlight' \subseteq Commands
    BY <2>1, <2>2 DEF Commands
  <2> QED
    BY <1>14, <2>3, <2>4 DEF Acknowledge, slotVars, callVars, callData, endVars
<1>15. ASSUME SignalStep PROVE TypeOK'
  <2>1. CASE SignalScanMiss
    BY <2>1 DEF SignalScanMiss, slotVars, callVars, callData, endVars
  <2>2. CASE SignalScanHit
    BY <2>2 DEF SignalScanHit, slotVars, callVars, callData, endVars
  <2>3. CASE SignalNoSlot
    BY <2>3 DEF SignalNoSlot, slotVars, callVars, callData, ioVars
  <2>4. CASE SignalFill
    BY <2>4 DEF SignalFill, Replies, slotVars, endVars
  <2>6. CASE SignalStatus
    BY <2>6 DEF SignalStatus, Replies, Acks, callVars, callData, endVars
  <2>5. CASE SignalEvent
    BY <2>5 DEF SignalEvent, Replies, callVars, callData, endVars
  <2> QED
    BY <1>15, <2>1, <2>2, <2>3, <2>4, <2>5, <2>6 DEF SignalStep
<1>16. CASE UNCHANGED vars
  BY <1>16 DEF vars, slotVars, callVars, callData, ioVars, endVars
<1> QED
  BY <1>1, <1>2, <1>3, <1>4a, <1>4, <1>5, <1>6, <1>7, <1>8, <1>8a, <1>9, <1>9a, <1>9b, <1>9c,
     <1>10, <1>11, <1>12, <1>13, <1>14, <1>15, <1>16 DEF Next, CallerStep, Finished

(* Every variable of the command table and of its users stays in its type. *)
THEOREM TypeCorrect == Spec => []TypeOK
<1>1. Init => TypeOK
  BY SlotsAssumption, BoundAssumption, ThreadAssumption DEF Init, TypeOK, Slots
<1> QED
  BY <1>1, TypeInductive, PTL DEF Spec

(***************************************************************************)
(* Exclusive slots.  Mutual exclusion by pendingLock alone is not enough:  *)
(* a slot stays reserved after the unlock only because its opcode is not   *)
(* the free mark as long as its owner has not written it.                  *)
(***************************************************************************)
LockHeld == \A t \in Threads : pc[t] \in {"scan", "reserve", "unlock"} => lock = t
Reserved == \A t \in Threads : Owns(t) => opcode[ii[t]] = cmd[t]
HasSlot  == \A t \in Threads :
              /\ pc[t] \in {"reserve", "reset", "buffer", "status", "release"} => ii[t] # NumSlots
              /\ pc[t] = "reserve" => opcode[ii[t]] = NoOpcode

SlotInv == TypeOK /\ LockHeld /\ Reserved /\ HasSlot /\ SlotExclusive

LEMMA SlotInductive == SlotInv /\ [Next]_vars => SlotInv'
<1> SUFFICES ASSUME SlotInv, [Next]_vars PROVE SlotInv'
  OBVIOUS
<1>0. TypeOK'
  BY TypeInductive DEF SlotInv
<1> USE <1>0, SlotsAssumption, OpcodeAssumption, ThreadAssumption
<1> USE DEF SlotInv, TypeOK, Slots, LockHeld, Reserved, HasSlot, SlotExclusive, Owns,
            At, Go, Running, Granted
<1>1. ASSUME NEW t \in Threads, ExecuteCommand(t) PROVE SlotInv'
  BY <1>1 DEF ExecuteCommand, slotVars
<1>2. ASSUME NEW t \in Threads, Lock(t) PROVE SlotInv'
  BY <1>2 DEF Lock, slotVars, callData
<1>3. ASSUME NEW t \in Threads, ScanTaken(t) PROVE SlotInv'
  BY <1>3 DEF ScanTaken, slotVars, callData
<1>4a. ASSUME NEW t \in Threads, ScanFree(t) PROVE SlotInv'
  BY <1>4a DEF ScanFree, slotVars, callData
<1>4. ASSUME NEW t \in Threads, Reserve(t) PROVE SlotInv'
  BY <1>4 DEF Reserve, callData
<1>5. ASSUME NEW t \in Threads, TableFull(t) PROVE SlotInv'
  BY <1>5 DEF TableFull, slotVars, callData
<1>6. ASSUME NEW t \in Threads, Unlock(t) PROVE SlotInv'
  BY <1>6 DEF Unlock, slotVars, callData
<1>7. ASSUME NEW t \in Threads, ResetCondition(t) PROVE SlotInv'
  BY <1>7 DEF ResetCondition, callData
<1>8. ASSUME NEW t \in Threads, SetBuffer(t) PROVE SlotInv'
  BY <1>8 DEF SetBuffer, callData
<1>8a. ASSUME NEW t \in Threads, SetStatus(t) PROVE SlotInv'
  BY <1>8a DEF SetStatus, callData
<1>9. ASSUME NEW t \in Threads, SendCommand(t) PROVE SlotInv'
  BY <1>9 DEF SendCommand, slotVars, callData
<1>9a. ASSUME NEW t \in Threads, WriteFails(t) PROVE SlotInv'
  BY <1>9a DEF WriteFails, slotVars, callData
<1>9b. ASSUME NEW t \in Threads, Transmitted(t) \/ SleepOnWrite(t) PROVE SlotInv'
  <2>1. CASE Transmitted(t)
    BY <2>1 DEF Transmitted, slotVars, callData
  <2>2. CASE SleepOnWrite(t)
    BY <2>2 DEF SleepOnWrite, slotVars, callData
  <2> QED BY <1>9b, <2>1, <2>2
<1>9c. ASSUME WriteComplete PROVE SlotInv'
  <2>1. UNCHANGED <<slotVars, lock, ii, cmd, calls>>
    BY <1>9c DEF WriteComplete, callData
  <2>2. \A u \in Threads : pc'[u] = pc[u] \/ (pc[u] = "asleep" /\ pc'[u] = "transmit")
    BY <1>9c DEF WriteComplete, Asleep
  <2>3. \A u \in Threads : Owns(u)' <=> Owns(u)
    BY <2>1, <2>2
  <2>4. LockHeld' /\ HasSlot'
    BY <2>1, <2>2 DEF slotVars
  <2>5. Reserved' /\ SlotExclusive'
    <3> HIDE DEF Owns
    <3> QED BY <2>1, <2>3 DEF slotVars
  <2> QED BY <2>4, <2>5
<1>10. ASSUME NEW t \in Threads, Collect(t) PROVE SlotInv'
  BY <1>10 DEF Collect, slotVars
<1>11. ASSUME NEW t \in Threads, Release(t) PROVE SlotInv'
  BY <1>11 DEF Release, callData
<1>12. ASSUME NEW t \in Threads, Timeout(t) PROVE SlotInv'
  BY <1>12 DEF Timeout, slotVars, callData
<1>13. ASSUME NEW t \in Threads, WaitOnNull(t) PROVE SlotInv'
  BY <1>13 DEF WaitOnNull, slotVars, callVars, callData
<1>14. ASSUME Acknowledge PROVE SlotInv'
  BY <1>14 DEF Acknowledge, slotVars, callVars, callData
<1>15. ASSUME SignalStep PROVE SlotInv'
  BY <1>15 DEF SignalStep, SignalScanMiss, SignalScanHit, SignalNoSlot, SignalFill,
               SignalStatus, SignalEvent, slotVars, callVars, callData
<1>16. CASE UNCHANGED vars
  BY <1>16 DEF vars, slotVars, callVars, callData
<1> QED
  BY <1>1, <1>2, <1>3, <1>4a, <1>4, <1>5, <1>6, <1>7, <1>8, <1>8a, <1>9, <1>9a, <1>9b, <1>9c,
     <1>10, <1>11, <1>12, <1>13, <1>14, <1>15, <1>16 DEF Next, CallerStep, Finished

LEMMA SlotInvariant == Spec => []SlotInv
<1>1. Init => SlotInv
  BY SlotsAssumption, BoundAssumption, ThreadAssumption
  DEF Init, SlotInv, TypeOK, Slots, LockHeld, Reserved, HasSlot, SlotExclusive, Owns
<1> QED
  BY <1>1, SlotInductive, PTL DEF Spec

(* allocateCondition never gives one slot of pendingCommands to two calls  *)
(* in progress, for every number of callers, of slots and of timeouts.     *)
THEOREM SlotsAreExclusive == Spec => []SlotExclusive
<1>1. SlotInv => SlotExclusive
  BY DEF SlotInv
<1> QED
  BY <1>1, SlotInvariant, PTL

-----------------------------------------------------------------------------
(* What timeouts cost, with any callers.                                   *)

(* A step that moves neither marks nor owners of slots.                    *)
LEMMA LeakedKept ==
  ASSUME UNCHANGED opcode, \A t \in Threads : (Owns(t)' <=> Owns(t)) /\ (Owns(t) => ii'[t] = ii[t])
  PROVE  Leaked' = Leaked
<1>1. ASSUME NEW s \in Slots PROVE s \in Leaked' <=> s \in Leaked
  BY DEF Leaked
<1> QED BY <1>1 DEF Leaked

LEMMA LeakStep ==
  ASSUME SlotInv, IsFiniteSet(Slots), LeakPerTimeout, [Next]_vars
  PROVE  LeakPerTimeout'
<1> USE DEF At, Go
<1>0. TypeOK /\ TypeOK' /\ Reserved /\ HasSlot /\ SlotExclusive
  BY SlotInductive DEF SlotInv
<1>1. ASSUME NEW t \in Threads, Timeout(t) PROVE LeakPerTimeout'
  <2>1. /\ Owns(t) /\ ii[t] \in Slots /\ UNCHANGED <<opcode, ii>>
        /\ timeouts' = timeouts + 1
    BY <1>1, SlotsAssumption DEF Timeout, Owns, slotVars, Slots
  <2>2. ~Owns(t)' /\ \A u \in Threads \ {t} : Owns(u)' <=> Owns(u)
    BY <1>0, <1>1 DEF Timeout, Owns, TypeOK
  <2>3. opcode[ii[t]] # NoOpcode
    <3>1. opcode[ii[t]] = cmd[t] /\ cmd[t] \in OpcodesOf[t]
      BY <1>0, <1>1, <2>1 DEF Timeout, Reserved, TypeOK
    <3> QED BY <3>1, OpcodeAssumption
  <2>4. ii[t] \notin Leaked
    BY <2>1 DEF Leaked
  <2>5. \A u \in Threads \ {t} : Owns(u) => ii[u] # ii[t]
    BY <1>0, <2>1 DEF SlotExclusive
  <2>6. ASSUME NEW s \in Slots PROVE s \in Leaked' <=> s \in Leaked \/ s = ii[t]
    BY <2>1, <2>2, <2>3, <2>5 DEF Leaked
  <2>7. Leaked' = Leaked \cup {ii[t]}
    BY <2>1, <2>6 DEF Leaked
  <2>8. IsFiniteSet(Leaked)
    BY FS_Subset DEF Leaked
  <2> QED BY <2>1, <2>4, <2>7, <2>8, FS_AddElement DEF LeakPerTimeout
<1>2. ASSUME NEW t \in Threads, Reserve(t) \/ Release(t) PROVE LeakPerTimeout'
  <2>1. ii' = ii /\ timeouts' = timeouts
    BY <1>2 DEF Reserve, Release, callData, endVars
  <2>2. ii[t] \in Slots /\ \A s \in Slots : s # ii[t] => opcode'[s] = opcode[s]
    <3>1. ii[t] \in 0 .. NumSlots /\ ii[t] # NumSlots
      BY <1>0, <1>2 DEF Reserve, Release, TypeOK, HasSlot
    <3>2. ii[t] \in Slots
      BY <3>1, SlotsAssumption DEF Slots
    <3> QED BY <1>0, <1>2, <3>2 DEF Reserve, Release, TypeOK
  <2>3. \A u \in Threads \ {t} : Owns(u)' <=> Owns(u)
    BY <1>0, <1>2, <2>1 DEF Reserve, Release, Owns, TypeOK
  <2>4. ii[t] \notin Leaked /\ ii[t] \notin Leaked'
    <3>1. CASE Reserve(t)
      BY <1>0, <2>1, <2>2, <3>1, SlotsAssumption DEF Reserve, HasSlot, Leaked, Owns, TypeOK, Slots
    <3>2. CASE Release(t)
      BY <1>0, <2>1, <2>2, <3>2, SlotsAssumption DEF Release, HasSlot, Leaked, Owns, TypeOK, Slots
    <3> QED BY <1>2, <3>1, <3>2
  <2>5. ASSUME NEW s \in Slots, s # ii[t] PROVE s \in Leaked' <=> s \in Leaked
    <3>1. \A u \in Threads : (Owns(u) => ii[u] # s) <=> (Owns(u)' => ii'[u] # s)
      BY <2>1, <2>3, <2>5
    <3> QED BY <2>2, <2>5, <3>1 DEF Leaked
  <2>6. Leaked' = Leaked
    BY <2>4, <2>5 DEF Leaked
  <2> QED BY <2>1, <2>6 DEF LeakPerTimeout
<1>3. ASSUME NEW t \in Threads,
             \/ ExecuteCommand(t) \/ Lock(t) \/ ScanTaken(t) \/ ScanFree(t) \/ TableFull(t) \/ Unlock(t)
             \/ ResetCondition(t) \/ SetBuffer(t) \/ SetStatus(t) \/ SendCommand(t) \/ WriteFails(t)
             \/ Transmitted(t) \/ SleepOnWrite(t) \/ Collect(t) \/ WaitOnNull(t)
      PROVE LeakPerTimeout'
  <2>1. UNCHANGED <<opcode, timeouts>>
    BY <1>3 DEF ExecuteCommand, Lock, ScanTaken, ScanFree, TableFull, Unlock, ResetCondition, SetBuffer,
       SetStatus, SendCommand, WriteFails, Transmitted, SleepOnWrite, Collect, WaitOnNull, slotVars, endVars
  <2>2. \A u \in Threads : (Owns(u)' <=> Owns(u)) /\ (Owns(u) => ii'[u] = ii[u])
    BY <1>0, <1>3 DEF ExecuteCommand, Lock, ScanTaken, ScanFree, TableFull, Unlock, ResetCondition,
       SetBuffer, SetStatus, SendCommand, WriteFails, Transmitted, SleepOnWrite, Collect, WaitOnNull,
       callVars, callData, Owns, TypeOK
  <2> QED BY <2>1, <2>2, LeakedKept DEF LeakPerTimeout
<1>4. CASE Acknowledge \/ SignalStep \/ Finished \/ UNCHANGED vars
  <2>1. UNCHANGED <<opcode, timeouts, pc, ii>>
    BY <1>4 DEF Acknowledge, SignalStep, SignalScanMiss, SignalScanHit, SignalNoSlot, SignalFill,
       SignalStatus, SignalEvent, Finished, vars, slotVars, callVars, endVars
  <2>2. \A u \in Threads : (Owns(u)' <=> Owns(u)) /\ (Owns(u) => ii'[u] = ii[u])
    BY <2>1 DEF Owns
  <2> QED BY <2>1, <2>2, LeakedKept DEF LeakPerTimeout
<1>5. CASE WriteComplete
  <2>1. UNCHANGED <<opcode, timeouts, ii>>
    BY <1>5 DEF WriteComplete, slotVars, endVars
  <2>2. \A u \in Threads : Owns(u)' <=> Owns(u)
    BY <1>0, <1>5 DEF WriteComplete, Asleep, Owns, TypeOK
  <2> QED BY <2>1, <2>2, LeakedKept DEF LeakPerTimeout
<1> QED BY <1>1, <1>2, <1>3, <1>4, <1>5 DEF Next, CallerStep

(* Whoever calls and however acknowledgments come: the slots that are lost *)
(* are exactly as many as the waits that timed out.                        *)
THEOREM EachTimeoutLeaks == Spec => []LeakPerTimeout
<1>1. IsFiniteSet(Slots)
  BY FS_Interval, SlotsAssumption DEF Slots
<1>2. Init => LeakPerTimeout
  <2>1. Init => Leaked = {}
    BY DEF Init, Leaked
  <2> QED BY <2>1, FS_EmptySet DEF Init, LeakPerTimeout
<1>3. SlotInv /\ LeakPerTimeout /\ [Next]_vars => LeakPerTimeout'
  BY <1>1, LeakStep
<1> QED BY <1>2, <1>3, SlotInvariant, PTL DEF Spec

-----------------------------------------------------------------------------
(***************************************************************************)
(* When an acknowledgment is certain to reach the call it belongs to.      *)
(*                                                                         *)
(* signalCondition looks for the opcode of the acknowledgment, so that the *)
(* match is right only if no other slot can hold that opcode: each opcode  *)
(* is sent by one thread, is acknowledged once, and no slot is left behind *)
(* by a wait that timed out.                                               *)
(***************************************************************************)

Disciplined ==
  /\ \A t, u \in Threads : t # u => OpcodesOf[t] \cap OpcodesOf[u] = {}
  /\ DoubleAck = {}
  /\ MaxTimeouts = 0

(* A reserved slot has an owner.                                           *)
NoLeak == \A s \in Slots : opcode[s] # NoOpcode => \E t \in Threads : Owns(t) /\ ii[t] = s

(* Thread t waits for the acknowledgment of call c, whose opcode is op.    *)
Awaits(t, c, op) ==
  /\ Sent(t) /\ c = ThisCall(t) /\ op = cmd[t]
  /\ ii[t] # NumSlots => ~signaled[ii[t]]

FlightInv ==
  \A c \in inFlight :
    /\ c.left = 1
    /\ \E t \in Threads : Awaits(t, c.call, c.opcode)
    /\ ioPc # "idle" => c.call # reply.call

(* The I/O thread reaches the slot of the caller and stops there.          *)
ReplyInv ==
  ioPc # "idle" =>
    /\ reply.left = 1
    /\ \E t \in Threads :
         /\ Awaits(t, reply.call, reply.opcode)
         /\ ioPc = "scan" => jj <= ii[t]
         /\ ioPc \in {"fill", "status", "signal"} => jj = ii[t]
         /\ ioPc \in {"status", "signal"} /\ cmd[t] \in WithResponse => response[t] = ThisCall(t)
         /\ ioPc = "signal" => status[jj] \in Acks /\ status[jj].call = ThisCall(t)

SignaledInv ==
  \A t \in Threads : ii[t] # NumSlots =>
    /\ pc[t] \in {"buffer", "status", "send"} => ~signaled[ii[t]]
    /\ Sent(t) /\ signaled[ii[t]] =>
         /\ status[ii[t]].call = ThisCall(t)
         /\ cmd[t] \in WithResponse => response[t] = ThisCall(t)

BufferInv ==
  \A t \in Threads : ii[t] # NumSlots /\ (pc[t] \in {"status", "send"} \/ Sent(t)) =>
    buffer[ii[t]] = IF cmd[t] \in WithResponse THEN ThisCall(t) ELSE NoCall

ReturnInv ==
  \A t \in Threads : pc[t] \in {"idle", "release"} /\ retval[t] # Busy =>
    /\ retval[t].call = ThisCall(t)
    /\ cmd[t] \in WithResponse => response[t] = ThisCall(t)

OwnInv == /\ SlotInv
          /\ NoLeak /\ FlightInv /\ ReplyInv /\ SignaledInv /\ BufferInv /\ ReturnInv

(* Every step keeps the match between acknowledgments and callers.  The    *)
(* steps that carry an acknowledgment (SendCommand to SignalEvent) move it *)
(* from one part of OwnInv to the next; the others only need the slots to  *)
(* be exclusive and the opcodes to be disjoint.                            *)
LEMMA OwnInductive == ASSUME Disciplined, OwnInv, [Next]_vars PROVE OwnInv'
<1>0. TypeOK /\ TypeOK' /\ SlotInv'
  BY SlotInductive, TypeInductive DEF OwnInv, SlotInv
<1> USE <1>0, SlotsAssumption, OpcodeAssumption, ThreadAssumption, CallAssumption, BusyAssumption
<1> USE DEF Disciplined, OwnInv, SlotInv, TypeOK, LockHeld, Reserved, HasSlot, SlotExclusive, Owns,
            Slots, At, Go, Running, Awaits, Sent, ThisCall, DefaultStatus, NextIndex, ResetEvent,
            NewBuffer, ResultBuffer, Matches, channel
<1>1. ASSUME NEW t \in Threads, ExecuteCommand(t) PROVE OwnInv'
  <2>1. NoLeak'
    <3>1. \A u \in Threads : Owns(u) => Owns(u)'
      BY <1>1 DEF ExecuteCommand
    <3> QED
      BY <1>1, <3>1 DEF ExecuteCommand, NoLeak, slotVars
  <2>2. FlightInv'
    BY <1>1 DEF ExecuteCommand, FlightInv, slotVars, ioVars, endVars
  <2>3. ReplyInv'
    BY <1>1 DEF ExecuteCommand, ReplyInv, slotVars, ioVars, endVars
  <2>4. SignaledInv'
    BY <1>1 DEF ExecuteCommand, SignaledInv, slotVars, ioVars, endVars
  <2>5. BufferInv'
    BY <1>1 DEF ExecuteCommand, BufferInv, slotVars, ioVars, endVars
  <2>6. ReturnInv'
    BY <1>1 DEF ExecuteCommand, ReturnInv, slotVars, ioVars, endVars
  <2> QED
    BY <2>1, <2>2, <2>3, <2>4, <2>5, <2>6
<1>2. ASSUME NEW t \in Threads, Lock(t) PROVE OwnInv'
  <2>1. NoLeak'
    BY <1>2 DEF Lock, NoLeak, slotVars, callData, ioVars, endVars
  <2>2. FlightInv'
    BY <1>2 DEF Lock, FlightInv, slotVars, callData, ioVars, endVars
  <2>3. ReplyInv'
    BY <1>2 DEF Lock, ReplyInv, slotVars, callData, ioVars, endVars
  <2>4. SignaledInv'
    BY <1>2 DEF Lock, SignaledInv, slotVars, callData, ioVars, endVars
  <2>5. BufferInv'
    BY <1>2 DEF Lock, BufferInv, slotVars, callData, ioVars, endVars
  <2>6. ReturnInv'
    BY <1>2 DEF Lock, ReturnInv, slotVars, callData, ioVars, endVars
  <2> QED
    BY <2>1, <2>2, <2>3, <2>4, <2>5, <2>6
<1>3. ASSUME NEW t \in Threads, ScanTaken(t) PROVE OwnInv'
  <2>1. \A u \in Threads : u # t => ii'[u] = ii[u]
    BY <1>3 DEF ScanTaken
  <2>2. NoLeak'
    BY <1>3, <2>1 DEF ScanTaken, NoLeak, slotVars
  <2>3. FlightInv' /\ SignaledInv' /\ BufferInv' /\ ReturnInv'
    BY <1>3, <2>1 DEF ScanTaken, FlightInv, SignaledInv, BufferInv, ReturnInv, slotVars,
       callData, ioVars
  <2>4. ReplyInv'
    BY <1>3, <2>1 DEF ScanTaken, ReplyInv, slotVars, callData, ioVars
  <2> QED
    BY <2>2, <2>3, <2>4
<1>4a. ASSUME NEW t \in Threads, ScanFree(t) PROVE OwnInv'
  BY <1>4a DEF ScanFree, NoLeak, FlightInv, ReplyInv, SignaledInv, BufferInv, ReturnInv,
     slotVars, callData, ioVars, endVars
<1>4. ASSUME NEW t \in Threads, Reserve(t) PROVE OwnInv'
  <2>1. NoLeak'
    BY <1>4 DEF Reserve, NoLeak, callData, ioVars, endVars
  <2>2. FlightInv'
    BY <1>4 DEF Reserve, FlightInv, callData, ioVars, endVars
  <2>3. ReplyInv'
    BY <1>4 DEF Reserve, ReplyInv, callData, ioVars, endVars
  <2>4. SignaledInv'
    BY <1>4 DEF Reserve, SignaledInv, callData, ioVars, endVars
  <2>5. BufferInv'
    BY <1>4 DEF Reserve, BufferInv, callData, ioVars, endVars
  <2>6. ReturnInv'
    BY <1>4 DEF Reserve, ReturnInv, callData, ioVars, endVars
  <2> QED
    BY <2>1, <2>2, <2>3, <2>4, <2>5, <2>6
<1>5. ASSUME NEW t \in Threads, TableFull(t) PROVE OwnInv'
  BY <1>5 DEF TableFull, NoLeak, FlightInv, ReplyInv, SignaledInv, BufferInv, ReturnInv,
     slotVars, callData, ioVars, endVars
<1>6. ASSUME NEW t \in Threads, Unlock(t) PROVE OwnInv'
  BY <1>6 DEF Unlock, NoLeak, FlightInv, ReplyInv, SignaledInv, BufferInv, ReturnInv,
     slotVars, callData, ioVars, endVars
<1>7. ASSUME NEW t \in Threads, ResetCondition(t) PROVE OwnInv'
  <2>1. NoLeak'
    BY <1>7 DEF ResetCondition, NoLeak, callData, ioVars, endVars
  <2>2. FlightInv'
    BY <1>7 DEF ResetCondition, FlightInv, callData, ioVars, endVars
  <2>3. ReplyInv'
    BY <1>7 DEF ResetCondition, ReplyInv, callData, ioVars, endVars
  <2>4. SignaledInv'
    BY <1>7 DEF ResetCondition, SignaledInv, callData, ioVars, endVars
  <2>5. BufferInv'
    BY <1>7 DEF ResetCondition, BufferInv, callData, ioVars, endVars
  <2>6. ReturnInv'
    BY <1>7 DEF ResetCondition, ReturnInv, callData, ioVars, endVars
  <2> QED
    BY <2>1, <2>2, <2>3, <2>4, <2>5, <2>6
<1>8. ASSUME NEW t \in Threads, SetBuffer(t) PROVE OwnInv'
  <2>1. NoLeak'
    BY <1>8 DEF SetBuffer, NoLeak, callData, ioVars, endVars
  <2>2. FlightInv'
    BY <1>8 DEF SetBuffer, FlightInv, callData, ioVars, endVars
  <2>3. ReplyInv'
    BY <1>8 DEF SetBuffer, ReplyInv, callData, ioVars, endVars
  <2>4. SignaledInv'
    BY <1>8 DEF SetBuffer, SignaledInv, callData, ioVars, endVars
  <2>5. BufferInv'
    <3> SUFFICES ASSUME NEW u \in Threads, ii[u] # NumSlots, pc'[u] \in {"status", "send"} \/ Sent(u)'
                 PROVE  buffer'[ii[u]] = IF cmd[u] \in WithResponse THEN ThisCall(u) ELSE NoCall
      BY <1>8 DEF SetBuffer, BufferInv, callData
    <3>1. CASE u = t
      BY <1>8, <3>1 DEF SetBuffer
    <3>2. CASE u # t
      BY <1>8, <3>2 DEF SetBuffer, BufferInv
    <3> QED
      BY <3>1, <3>2
  <2>6. ReturnInv'
    BY <1>8 DEF SetBuffer, ReturnInv, callData, ioVars, endVars
  <2> QED
    BY <2>1, <2>2, <2>3, <2>4, <2>5, <2>6
<1>8a. ASSUME NEW t \in Threads, SetStatus(t) PROVE OwnInv'
  <2>1. NoLeak'
    BY <1>8a DEF SetStatus, NoLeak, callData, ioVars, endVars
  <2>2. FlightInv'
    BY <1>8a DEF SetStatus, FlightInv, callData, ioVars, endVars
  <2>3. ReplyInv'
    BY <1>8a DEF SetStatus, ReplyInv, callData, ioVars, endVars
  <2>4. SignaledInv'
    BY <1>8a DEF SetStatus, SignaledInv, callData, ioVars, endVars
  <2>5. BufferInv'
    BY <1>8a DEF SetStatus, BufferInv, callData, ioVars, endVars
  <2>6. ReturnInv'
    BY <1>8a DEF SetStatus, ReturnInv, callData, ioVars, endVars
  <2> QED
    BY <2>1, <2>2, <2>3, <2>4, <2>5, <2>6
<1>9. ASSUME NEW t \in Threads, SendCommand(t) PROVE OwnInv'
  <2>1. NoLeak'
    BY <1>9 DEF SendCommand, NoLeak, slotVars, callData, ioVars, endVars
  <2>2. FlightInv'
    <3> DEFINE new == [call |-> ThisCall(t), opcode |-> cmd[t], left |-> 1]
    <3>1. inFlight' = inFlight \cup {new}
      BY <1>9 DEF SendCommand
    <3>2. /\ pc'[t] = "transmit" /\ ThisCall(t)' = ThisCall(t) /\ cmd'[t] = cmd[t]
          /\ ii'[t] # NumSlots => ~signaled'[ii'[t]]
      BY <1>9 DEF SendCommand, SignaledInv, slotVars, callData
    <3>3. ioPc # "idle" => new.call # reply.call
      BY <1>9 DEF SendCommand, ReplyInv
    <3>4. ASSUME NEW c \in inFlight PROVE \E u \in Threads : Awaits(u, c.call, c.opcode)'
      BY <1>9 DEF SendCommand, FlightInv, slotVars, callData
    <3> SUFFICES ASSUME NEW c \in inFlight'
                 PROVE  /\ c.left = 1
                        /\ \E u \in Threads : Awaits(u, c.call, c.opcode)'
                        /\ ioPc' # "idle" => c.call # reply'.call
      BY DEF FlightInv
    <3>0. UNCHANGED <<ioPc, reply>>
      BY <1>9 DEF SendCommand, ioVars
    <3>7. c = new => Awaits(t, c.call, c.opcode)'
      BY <3>2
    <3> HIDE DEF Awaits
    <3>5. CASE c = new
      BY <3>0, <3>7, <3>3, <3>5
    <3>6. CASE c \in inFlight
      BY <3>0, <3>4, <3>6 DEF FlightInv
    <3> QED
      BY <3>1, <3>5, <3>6
  <2>3. ReplyInv'
    BY <1>9 DEF SendCommand, ReplyInv, NoLeak, slotVars, callData, ioVars, endVars
  <2>4. SignaledInv'
    BY <1>9 DEF SendCommand, SignaledInv, NoLeak, slotVars, callData, ioVars, endVars
  <2>5. BufferInv'
    BY <1>9 DEF SendCommand, BufferInv, NoLeak, slotVars, callData, ioVars, endVars
  <2>6. ReturnInv'
    BY <1>9 DEF SendCommand, ReturnInv, NoLeak, slotVars, callData, ioVars, endVars
  <2> QED
    BY <2>1, <2>2, <2>3, <2>4, <2>5, <2>6
<1>9a. ASSUME NEW t \in Threads, WriteFails(t) PROVE OwnInv'
  <2>1. NoLeak'
    BY <1>9a DEF WriteFails, NoLeak, slotVars, callData, ioVars
  <2>2. FlightInv'
    BY <1>9a DEF WriteFails, FlightInv, slotVars, callData, ioVars
  <2>3. ReplyInv'
    BY <1>9a DEF WriteFails, ReplyInv, slotVars, callData, ioVars
  <2>4. SignaledInv'
    BY <1>9a DEF WriteFails, SignaledInv, slotVars, callData, ioVars
  <2>5. BufferInv'
    BY <1>9a DEF WriteFails, BufferInv, slotVars, callData, ioVars
  <2>6. ReturnInv'
    BY <1>9a DEF WriteFails, ReturnInv, slotVars, callData, ioVars
  <2> QED
    BY <2>1, <2>2, <2>3, <2>4, <2>5, <2>6
<1>9b. ASSUME NEW t \in Threads, Transmitted(t) PROVE OwnInv'
  <2>1. NoLeak'
    BY <1>9b DEF Transmitted, NoLeak, slotVars, callData, ioVars, endVars
  <2>2. FlightInv'
    BY <1>9b DEF Transmitted, FlightInv, slotVars, callData, ioVars, endVars
  <2>3. ReplyInv'
    BY <1>9b DEF Transmitted, ReplyInv, slotVars, callData, ioVars, endVars
  <2>4. SignaledInv'
    BY <1>9b DEF Transmitted, SignaledInv, slotVars, callData, ioVars, endVars
  <2>5. BufferInv'
    BY <1>9b DEF Transmitted, BufferInv, slotVars, callData, ioVars, endVars
  <2>6. ReturnInv'
    BY <1>9b DEF Transmitted, ReturnInv, slotVars, callData, ioVars, endVars
  <2> QED
    BY <2>1, <2>2, <2>3, <2>4, <2>5, <2>6
<1>9c. ASSUME NEW t \in Threads, SleepOnWrite(t) PROVE OwnInv'
  <2>1. NoLeak'
    BY <1>9c DEF SleepOnWrite, NoLeak, slotVars, callData, ioVars, endVars
  <2>2. FlightInv'
    BY <1>9c DEF SleepOnWrite, FlightInv, slotVars, callData, ioVars, endVars
  <2>3. ReplyInv'
    BY <1>9c DEF SleepOnWrite, ReplyInv, slotVars, callData, ioVars, endVars
  <2>4. SignaledInv'
    BY <1>9c DEF SleepOnWrite, SignaledInv, slotVars, callData, ioVars, endVars
  <2>5. BufferInv'
    BY <1>9c DEF SleepOnWrite, BufferInv, slotVars, callData, ioVars, endVars
  <2>6. ReturnInv'
    BY <1>9c DEF SleepOnWrite, ReturnInv, slotVars, callData, ioVars, endVars
  <2> QED
    BY <2>1, <2>2, <2>3, <2>4, <2>5, <2>6
<1>9d. ASSUME WriteComplete PROVE OwnInv'
  <2>1. NoLeak'
    BY <1>9d DEF WriteComplete, Asleep, NoLeak, slotVars, callData, ioVars, endVars
  <2>2. FlightInv'
    BY <1>9d DEF WriteComplete, Asleep, FlightInv, slotVars, callData, ioVars, endVars
  <2>3. ReplyInv'
    BY <1>9d DEF WriteComplete, Asleep, ReplyInv, slotVars, callData, ioVars, endVars
  <2>4. SignaledInv'
    BY <1>9d DEF WriteComplete, Asleep, SignaledInv, slotVars, callData, ioVars, endVars
  <2>5. BufferInv'
    BY <1>9d DEF WriteComplete, Asleep, BufferInv, slotVars, callData, ioVars, endVars
  <2>6. ReturnInv'
    BY <1>9d DEF WriteComplete, Asleep, ReturnInv, slotVars, callData, ioVars, endVars
  <2> QED
    BY <2>1, <2>2, <2>3, <2>4, <2>5, <2>6
<1>10. ASSUME NEW t \in Threads, Collect(t) PROVE OwnInv'
  <2>1. NoLeak'
    BY <1>10 DEF Collect, NoLeak, slotVars, ioVars, endVars
  <2>2. FlightInv'
    BY <1>10 DEF Collect, FlightInv, NoLeak, slotVars, ioVars, endVars
  <2>3. ReplyInv'
    BY <1>10 DEF Collect, ReplyInv, NoLeak, slotVars, ioVars, endVars
  <2>4. SignaledInv'
    BY <1>10 DEF Collect, SignaledInv, NoLeak, slotVars, ioVars, endVars
  <2>5. BufferInv'
    BY <1>10 DEF Collect, BufferInv, NoLeak, slotVars, ioVars, endVars
  <2>6. ReturnInv'
    BY <1>10 DEF Collect, ReturnInv, SignaledInv, slotVars
  <2> QED
    BY <2>1, <2>2, <2>3, <2>4, <2>5, <2>6
<1>11. ASSUME NEW t \in Threads, Release(t) PROVE OwnInv'
  <2>1. NoLeak'
    BY <1>11 DEF Release, NoLeak, callData, ioVars, endVars
  <2>2. FlightInv'
    BY <1>11 DEF Release, FlightInv, callData, ioVars, endVars
  <2>3. ReplyInv'
    BY <1>11 DEF Release, ReplyInv, callData, ioVars, endVars
  <2>4. SignaledInv'
    BY <1>11 DEF Release, SignaledInv, callData, ioVars, endVars
  <2>5. BufferInv'
    BY <1>11 DEF Release, BufferInv, callData, ioVars, endVars
  <2>6. ReturnInv'
    BY <1>11 DEF Release, ReturnInv, callData, ioVars, endVars
  <2> QED
    BY <2>1, <2>2, <2>3, <2>4, <2>5, <2>6
<1>12. ASSUME NEW t \in Threads, Timeout(t) PROVE OwnInv'
  BY <1>12 DEF Timeout, NoLeak, FlightInv, ReplyInv, SignaledInv, BufferInv, ReturnInv,
     slotVars, callData, ioVars
<1>13. ASSUME NEW t \in Threads, WaitOnNull(t) PROVE OwnInv'
  BY <1>13 DEF WaitOnNull, NoLeak, FlightInv, ReplyInv, SignaledInv, BufferInv,
     ReturnInv, slotVars, callVars, callData, ioVars
<1>14. ASSUME Acknowledge PROVE OwnInv'
  <2>1. NoLeak'
    BY <1>14 DEF Acknowledge, NoLeak, slotVars, callVars, callData, endVars
  <2>2. FlightInv'
    <3>1. PICK c \in inFlight : inFlight' = inFlight \ {c} /\ reply'.call = c.call
      <4>1. PICK c \in inFlight, code \in Outcomes :
              /\ reply' = [call |-> c.call, opcode |-> c.opcode, left |-> c.left, code |-> code]
              /\ inFlight' = (inFlight \ {c}) \cup
                   IF c.left = 1 THEN {}
                   ELSE {[call |-> c.call, opcode |-> c.opcode, left |-> 1]}
        BY <1>14 DEF Acknowledge
      <4>2. c.left = 1
        BY DEF FlightInv
      <4> QED
        BY <4>1, <4>2
    <3>2. ASSUME NEW d \in inFlight, d.call = c.call PROVE d = c
      <4>1. d.opcode = c.opcode /\ d.left = c.left
        BY <3>2 DEF FlightInv
      <4>2. /\ c = [call |-> c.call, opcode |-> c.opcode, left |-> c.left]
            /\ d = [call |-> d.call, opcode |-> d.opcode, left |-> d.left]
        BY DEF Commands
      <4> QED
        BY <3>2, <4>1, <4>2
    <3> QED
      BY <1>14, <3>1, <3>2 DEF Acknowledge, FlightInv, slotVars, callVars, callData
  <2>3. ReplyInv'
    <3>1. PICK c \in inFlight : /\ reply'.call = c.call /\ reply'.opcode = c.opcode
                               /\ reply'.left = c.left
      BY <1>14 DEF Acknowledge
    <3>2. PICK u \in Threads : Awaits(u, c.call, c.opcode)
      BY DEF FlightInv
    <3>3. jj' <= ii'[u] /\ Awaits(u, reply.call, reply.opcode)'
      BY <1>14, <3>1, <3>2 DEF Acknowledge, slotVars, callVars, callData
    <3> QED
      BY <1>14, <3>1, <3>3 DEF Acknowledge, ReplyInv, FlightInv
  <2>4. SignaledInv'
    BY <1>14 DEF Acknowledge, SignaledInv, NoLeak, slotVars, callVars, callData, endVars
  <2>5. BufferInv'
    BY <1>14 DEF Acknowledge, BufferInv, NoLeak, slotVars, callVars, callData, endVars
  <2>6. ReturnInv'
    BY <1>14 DEF Acknowledge, ReturnInv, NoLeak, slotVars, callVars, callData, endVars
  <2> QED
    BY <2>1, <2>2, <2>3, <2>4, <2>5, <2>6
<1>15. ASSUME SignalScanMiss PROVE OwnInv'
  BY <1>15 DEF SignalScanMiss, NoLeak, FlightInv, ReplyInv, SignaledInv, BufferInv,
     ReturnInv, slotVars, callVars, callData, endVars
<1>16. ASSUME SignalScanHit PROVE OwnInv'
  <2>1. NoLeak'
    BY <1>16 DEF SignalScanHit, NoLeak, slotVars, callVars, callData, endVars
  <2>2. FlightInv'
    BY <1>16 DEF SignalScanHit, FlightInv, NoLeak, slotVars, callVars, callData, endVars
  <2>3. ReplyInv'
    <3>1. PICK u \in Threads : Awaits(u, reply.call, reply.opcode)
      BY <1>16 DEF SignalScanHit, ReplyInv
    <3>2. PICK v \in Threads : Owns(v) /\ ii[v] = jj
      <4>1. jj \in Slots /\ opcode[jj] # NoOpcode
        BY <1>16 DEF SignalScanHit, Replies
      <4> QED
        BY <4>1 DEF NoLeak
    <3>3. u = v
      <4>1. cmd[v] = cmd[u]
        BY <1>16, <3>1, <3>2 DEF SignalScanHit
      <4>2. cmd[u] \in OpcodesOf[u] /\ cmd[v] \in OpcodesOf[v]
        BY <3>1, <3>2
      <4> QED
        BY <4>1, <4>2
    <3> QED
      BY <1>16, <3>1, <3>2, <3>3 DEF SignalScanHit, ReplyInv, slotVars, callVars, callData
  <2>4. SignaledInv'
    BY <1>16 DEF SignalScanHit, SignaledInv, NoLeak, slotVars, callVars, callData, endVars
  <2>5. BufferInv'
    BY <1>16 DEF SignalScanHit, BufferInv, NoLeak, slotVars, callVars, callData, endVars
  <2>6. ReturnInv'
    BY <1>16 DEF SignalScanHit, ReturnInv, NoLeak, slotVars, callVars, callData, endVars
  <2> QED
    BY <2>1, <2>2, <2>3, <2>4, <2>5, <2>6
<1>17. ASSUME SignalNoSlot PROVE OwnInv'
  BY <1>17 DEF SignalNoSlot, NoLeak, FlightInv, ReplyInv, SignaledInv, BufferInv,
     ReturnInv, slotVars, callVars, callData, ioVars
<1>18. ASSUME SignalFill PROVE OwnInv'
  <2>a. PICK u \in Threads : Awaits(u, reply.call, reply.opcode) /\ jj = ii[u]
    BY <1>18 DEF SignalFill, ReplyInv
  <2>b. reply.left = 1 /\ jj \in Slots /\ \A v \in Threads : Owns(v) /\ v # u => ii[v] # jj
    BY <1>18, <2>a DEF SignalFill, ReplyInv
  <2>c. buffer[jj] = IF cmd[u] \in WithResponse THEN ThisCall(u) ELSE NoCall
    <3>1. ii[u] # NumSlots /\ Sent(u)
      BY <2>a, <2>b
    <3> QED
      BY <3>1, <2>a DEF BufferInv
  <2>d. \A v \in Threads : v # u => response'[v] = response[v]
    <3> SUFFICES ASSUME NEW v \in Threads, v # u, pc[v] # "idle" PROVE buffer[jj] # ThisCall(v)
      BY <1>18 DEF SignalFill
    <3>1. ThisCall(v) \in Calls
      BY DEF Calls
    <3>2. ThisCall(v) # ThisCall(u) /\ NoCall # ThisCall(v)
      BY <3>1
    <3> QED
      BY <3>2, <2>c
  <2>e. cmd[u] \in WithResponse => response'[u] = ThisCall(u)
    BY <1>18, <2>a, <2>b, <2>c DEF SignalFill, CarriesData
  <2>1. NoLeak'
    BY <1>18 DEF SignalFill, NoLeak, slotVars, endVars
  <2>2. FlightInv'
    BY <1>18 DEF SignalFill, FlightInv, slotVars, endVars
  <2>3. ReplyInv'
    BY <1>18, <2>a, <2>b, <2>e DEF SignalFill, ReplyInv, slotVars
  <2>4. SignaledInv'
    <3> SUFFICES ASSUME NEW v \in Threads, ii[v] # NumSlots
                 PROVE  /\ pc[v] \in {"buffer", "status", "send"} => ~signaled[ii[v]]
                        /\ Sent(v) /\ signaled[ii[v]] =>
                             /\ status[ii[v]].call = ThisCall(v)
                             /\ cmd[v] \in WithResponse => response'[v] = ThisCall(v)
      BY <1>18 DEF SignalFill, SignaledInv, slotVars
    <3>1. CASE v = u
      BY <2>a, <3>1
    <3>2. CASE v # u
      BY <2>d, <3>2 DEF SignaledInv
    <3> QED
      BY <3>1, <3>2
  <2>5. BufferInv'
    BY <1>18 DEF SignalFill, BufferInv, slotVars, endVars
  <2>6. ReturnInv'
    BY <1>18, <2>a, <2>d DEF SignalFill, ReturnInv, slotVars
  <2> QED
    BY <2>1, <2>2, <2>3, <2>4, <2>5, <2>6
<1>18a. ASSUME SignalStatus PROVE OwnInv'
  <2>a. PICK u \in Threads :
          /\ Awaits(u, reply.call, reply.opcode) /\ jj = ii[u]
          /\ cmd[u] \in WithResponse => response[u] = ThisCall(u)
    BY <1>18a DEF SignalStatus, ReplyInv
  <2>b. reply.left = 1 /\ jj \in Slots /\ \A v \in Threads : Owns(v) /\ v # u => ii[v] # jj
    BY <1>18a, <2>a DEF SignalStatus, ReplyInv
  <2>f. /\ status'[jj] \in Acks /\ status'[jj].call = ThisCall(u)
        /\ \A v \in Threads : Owns(v) /\ v # u => status'[ii[v]] = status[ii[v]]
    <3>1. [call |-> reply.call, code |-> reply.code] \in Acks
      BY <1>18a DEF SignalStatus, Acks, Replies
    <3>2. status'[jj] = [call |-> reply.call, code |-> reply.code] /\ reply.call = ThisCall(u)
      BY <1>18a, <2>a, <2>b DEF SignalStatus
    <3>3. ASSUME NEW v \in Threads, Owns(v), v # u PROVE status'[ii[v]] = status[ii[v]]
      BY <1>18a, <2>b, <3>3 DEF SignalStatus
    <3> QED
      BY <3>1, <3>2, <3>3
  <2>1. NoLeak'
    BY <1>18a DEF SignalStatus, NoLeak, callVars, callData, endVars
  <2>2. FlightInv'
    BY <1>18a DEF SignalStatus, FlightInv, callVars, callData, endVars
  <2>3. ReplyInv'
    BY <1>18a, <2>a, <2>b, <2>f DEF SignalStatus, ReplyInv, callVars, callData, endVars
  <2>4. SignaledInv'
    <3> SUFFICES ASSUME NEW v \in Threads, ii[v] # NumSlots
                 PROVE  /\ pc[v] \in {"buffer", "status", "send"} => ~signaled[ii[v]]
                        /\ Sent(v) /\ signaled[ii[v]] =>
                             /\ status'[ii[v]].call = ThisCall(v)
                             /\ cmd[v] \in WithResponse => response[v] = ThisCall(v)
      BY <1>18a DEF SignalStatus, SignaledInv, callVars, callData, endVars
    <3>1. CASE v = u
      BY <2>a, <3>1
    <3>2. CASE v # u
      BY <2>f, <3>2 DEF SignaledInv
    <3> QED
      BY <3>1, <3>2
  <2>5. BufferInv'
    BY <1>18a DEF SignalStatus, BufferInv, callVars, callData, endVars
  <2>6. ReturnInv'
    BY <1>18a DEF SignalStatus, ReturnInv, callVars, callData, endVars
  <2> QED
    BY <2>1, <2>2, <2>3, <2>4, <2>5, <2>6
<1>19. ASSUME SignalEvent PROVE OwnInv'
  <2>a. PICK u \in Threads :
          /\ Awaits(u, reply.call, reply.opcode) /\ jj = ii[u]
          /\ status[jj].call = ThisCall(u)
          /\ cmd[u] \in WithResponse => response[u] = ThisCall(u)
    BY <1>19 DEF SignalEvent, ReplyInv
  <2>b. \A v \in Threads : Owns(v) /\ v # u => signaled'[ii[v]] = signaled[ii[v]]
    <3>1. jj \in Slots /\ \A v \in Threads : Owns(v) /\ v # u => ii[v] # jj
      BY <1>19, <2>a DEF SignalEvent
    <3>2. ASSUME NEW v \in Threads, Owns(v), v # u PROVE signaled'[ii[v]] = signaled[ii[v]]
      <4>1. ii[v] \in Slots /\ ii[v] # jj
        BY <3>1, <3>2
      <4> QED
        BY <1>19, <4>1 DEF SignalEvent
    <3> QED
      BY <3>2
  <2>1. NoLeak'
    BY <1>19 DEF SignalEvent, NoLeak, callVars, callData, endVars
  <2>2. FlightInv'
    BY <1>19, <2>a, <2>b DEF SignalEvent, FlightInv, callVars, callData
  <2>3. ReplyInv'
    BY <1>19 DEF SignalEvent, ReplyInv, NoLeak, callVars, callData, endVars
  <2>4. SignaledInv'
    <3> SUFFICES ASSUME NEW v \in Threads, ii[v] # NumSlots
                 PROVE  /\ pc[v] \in {"buffer", "status", "send"} => ~signaled'[ii[v]]
                        /\ Sent(v) /\ signaled'[ii[v]] =>
                             /\ status[ii[v]].call = ThisCall(v)
                             /\ cmd[v] \in WithResponse => response[v] = ThisCall(v)
      BY <1>19 DEF SignalEvent, SignaledInv, callVars, callData
    <3>1. CASE v = u
      BY <2>a, <3>1
    <3>2. CASE v # u
      BY <2>b, <3>2 DEF SignaledInv
    <3> QED
      BY <3>1, <3>2
  <2>5. BufferInv'
    BY <1>19 DEF SignalEvent, BufferInv, NoLeak, callVars, callData, endVars
  <2>6. ReturnInv'
    BY <1>19 DEF SignalEvent, ReturnInv, NoLeak, callVars, callData, endVars
  <2> QED
    BY <2>1, <2>2, <2>3, <2>4, <2>5, <2>6
<1>20. CASE UNCHANGED vars
  BY <1>20 DEF vars, slotVars, callVars, callData, ioVars, endVars, NoLeak, FlightInv,
     ReplyInv, SignaledInv, BufferInv, ReturnInv
<1> QED
  BY <1>1, <1>2, <1>3, <1>4a, <1>4, <1>5, <1>6, <1>7, <1>8, <1>8a, <1>9, <1>9a, <1>9b, <1>9c, <1>9d,
     <1>10, <1>11, <1>12, <1>13, <1>14, <1>15, <1>16, <1>17, <1>18, <1>18a, <1>19, <1>20
  DEF Next, CallerStep, SignalStep, Finished

LEMMA OwnInitially == Init => OwnInv
<1>1. Init => SlotInv
  BY SlotsAssumption, BoundAssumption, ThreadAssumption
  DEF Init, SlotInv, TypeOK, Slots, LockHeld, Reserved, HasSlot, SlotExclusive, Owns
<1> QED
  BY <1>1 DEF Init, OwnInv, NoLeak, FlightInv, ReplyInv, SignaledInv, BufferInv,
              ReturnInv, Sent, Slots

LEMMA OwnInvariant == ASSUME Disciplined PROVE Spec => []OwnInv
<1>1. OwnInv /\ [Next]_vars => OwnInv'
  BY OwnInductive
<1> QED
  BY <1>1, OwnInitially, PTL DEF Spec

(* With disciplined opcodes lb_executeCommand returns the acknowledgment   *)
(* of its own command, and its own data, however the callers, the          *)
(* controller and the I/O thread interleave.                               *)
THEOREM RepliesAreOwn == ASSUME Disciplined PROVE Spec => []OwnReply
<1>1. OwnInv => OwnReply
  BY DEF OwnInv, ReturnInv, OwnReply
<1> QED
  BY <1>1, OwnInvariant, PTL

(* Then signalCondition writes no response buffer of a call that is over.  *)
THEOREM BuffersAreLive == ASSUME Disciplined PROVE Spec => []BufferLive
<1>1. OwnInv => BufferLive
  <2> SUFFICES ASSUME OwnInv, ioPc = "fill", buffer[jj] # NoCall
               PROVE  InProgress(buffer[jj])
    BY DEF BufferLive
  <2>1. PICK t \in Threads : Awaits(t, reply.call, reply.opcode) /\ jj = ii[t]
    BY DEF OwnInv, ReplyInv
  <2>2. Sent(t) /\ ii[t] # NumSlots
    BY <2>1, SlotsAssumption DEF Awaits, OwnInv, SlotInv, TypeOK, Slots
  <2> QED
    BY <2>1, <2>2 DEF OwnInv, BufferInv, InProgress, Sent
<1> QED
  BY <1>1, OwnInvariant, PTL

-----------------------------------------------------------------------------
(***************************************************************************)
(* The table is large enough for as many callers as it has slots, and      *)
(* disciplined callers then never meet a fault.                            *)
(*                                                                         *)
(* The scan of allocateCondition is not a snapshot: other callers give     *)
(* slots back while it runs.  It cannot miss a free slot because none of   *)
(* them can take a slot before the lock is released.                       *)
(***************************************************************************)
EnoughSlots == IsFiniteSet(Threads) /\ Cardinality(Threads) <= NumSlots

(* Each slot that t has found taken was held by a thread of its own, which *)
(* holds no other slot since.                                              *)
Holders(t, f) ==
  /\ f \in [0 .. ii[t] - 1 -> Threads \ {t}]
  /\ \A r, s \in 0 .. ii[t] - 1 : f[r] = f[s] => r = s
  /\ \A s \in 0 .. ii[t] - 1 : Owns(f[s]) => ii[f[s]] = s

ScanInv == \A t \in Threads : pc[t] = "scan" => \E f : Holders(t, f)
RoomInv == \A t \in Threads : pc[t] \in {"unlock", "send"} \/ Sent(t) => ii[t] # NumSlots

CapacityInv == OwnInv /\ ScanInv /\ RoomInv /\ fault = "none"

(* A scan that has passed every slot would need more callers than there    *)
(* are.                                                                    *)
LEMMA ScanFindsRoom ==
  ASSUME Disciplined, EnoughSlots, CapacityInv, NEW t \in Threads, pc[t] = "scan"
  PROVE  ii[t] # NumSlots
<1> SUFFICES ASSUME ii[t] = NumSlots PROVE FALSE
  OBVIOUS
<1>1. PICK f : Holders(t, f)
  BY DEF CapacityInv, ScanInv
<1>2. IsFiniteSet(Slots) /\ Cardinality(Slots) = NumSlots
  BY FS_Interval, SlotsAssumption DEF Slots
<1>3. /\ IsFiniteSet(Threads \ {t})
      /\ Cardinality(Threads \ {t}) = Cardinality(Threads) - 1
  BY FS_RemoveElement DEF EnoughSlots
<1>4. Cardinality(Threads) \in Nat /\ Cardinality(Threads \ {t}) \in Nat
  BY <1>3, FS_CardinalityType DEF EnoughSlots
<1>5. Cardinality(Threads \ {t}) < Cardinality(Slots)
  BY <1>2, <1>3, <1>4, SlotsAssumption DEF EnoughSlots
<1>6. f \in [Slots -> Threads \ {t}]
  BY <1>1 DEF Holders, Slots
<1>7. \E r, s \in Slots : r # s /\ f[r] = f[s]
  BY <1>2, <1>3, <1>5, <1>6, FS_PigeonHole
<1> QED
  BY <1>1, <1>7 DEF Holders, Slots

(* A thread that finds slot ii[t] taken has found one more holder.         *)
LEMMA ScanAddsHolder ==
  ASSUME OwnInv, NEW t \in Threads, ScanTaken(t), NEW f, Holders(t, f)
  PROVE  \E g : Holders(t, g)'
<1>a. PICK s0 : s0 = ii[t]
  OBVIOUS
<1>0. TypeOK /\ pc[t] = "scan" /\ s0 \in Slots /\ opcode[s0] # NoOpcode
  BY <1>a DEF OwnInv, SlotInv, ScanTaken, At
<1>1. PICK w \in Threads : Owns(w) /\ ii[w] = s0
  BY <1>0 DEF OwnInv, NoLeak
<1>2. w # t
  BY <1>0, <1>1 DEF Owns
<1>b. PICK g : g = [s \in 0 .. s0 |-> IF s = s0 THEN w ELSE f[s]]
  OBVIOUS
<1>3. s0 \in Nat /\ ii'[t] - 1 = s0 /\ \A s \in 0 .. s0 : s # s0 => s \in 0 .. s0 - 1
  BY <1>a, <1>0, SlotsAssumption DEF ScanTaken, TypeOK, Slots, NextIndex
<1>4. g \in [0 .. s0 -> Threads \ {t}]
  BY <1>a, <1>b, <1>2, <1>3 DEF Holders
<1>5. \A s \in 0 .. s0 : s # s0 => f[s] # w
  BY <1>a, <1>1, <1>3 DEF Holders
<1>6. \A r, s \in 0 .. s0 : g[r] = g[s] => r = s
  BY <1>a, <1>b, <1>3, <1>5 DEF Holders
<1>7. \A u \in Threads \ {t} : (Owns(u)' <=> Owns(u)) /\ ii'[u] = ii[u]
  BY <1>0 DEF ScanTaken, Owns, TypeOK
<1>8. \A s \in 0 .. s0 : Owns(g[s]) => ii[g[s]] = s
  BY <1>a, <1>b, <1>1, <1>3 DEF Holders
<1>9. \A s \in 0 .. s0 : Owns(g[s])' => ii'[g[s]] = s
  <2> SUFFICES ASSUME NEW s \in 0 .. s0, Owns(g[s])' PROVE ii'[g[s]] = s
    OBVIOUS
  <2>1. g[s] \in Threads \ {t}
    BY <1>4
  <2> QED
    BY <1>7, <1>8, <2>1
<1> QED
  BY <1>3, <1>4, <1>6, <1>9 DEF Holders

LEMMA CapacityInductive ==
  ASSUME Disciplined, EnoughSlots, CapacityInv, [Next]_vars
  PROVE  CapacityInv'
<1>0. OwnInv /\ OwnInv' /\ TypeOK /\ TypeOK' /\ LockHeld
  BY OwnInductive DEF CapacityInv, OwnInv, SlotInv
(* While t scans it has the lock, and no other thread gains a slot.        *)
<1>1. ASSUME NEW t \in Threads, pc[t] = "scan", pc'[t] = "scan", ii'[t] = ii[t],
             \A u \in Threads : Owns(u)' => Owns(u) /\ ii'[u] = ii[u]
      PROVE  \E f : Holders(t, f)'
  <2>1. PICK f : Holders(t, f)
    BY <1>1 DEF CapacityInv, ScanInv
  <2>2. ASSUME NEW s \in 0 .. ii'[t] - 1, Owns(f[s])' PROVE ii'[f[s]] = s
    <3>1. s \in 0 .. ii[t] - 1 /\ f[s] \in Threads
      BY <1>1, <2>1 DEF Holders
    <3>2. Owns(f[s]) /\ ii'[f[s]] = ii[f[s]]
      BY <1>1, <2>2, <3>1
    <3> QED
      BY <2>1, <3>1, <3>2 DEF Holders
  <2>3. /\ f \in [0 .. ii'[t] - 1 -> Threads \ {t}]
        /\ \A r, s \in 0 .. ii'[t] - 1 : f[r] = f[s] => r = s
    BY <1>1, <2>1 DEF Holders
  <2>4. \A s \in 0 .. ii'[t] - 1 : Owns(f[s])' => ii'[f[s]] = s
    BY <2>2
  <2>5. Holders(t, f)'
    BY <2>3, <2>4 DEF Holders
  <2> QED
    BY <2>5
<1>2. ScanInv'
  <2> SUFFICES ASSUME NEW t \in Threads, pc'[t] = "scan" PROVE \E f : Holders(t, f)'
    BY DEF ScanInv
  <2>1. CASE Lock(t)
    <3>1. ii'[t] = 0
      BY <2>1, <1>0 DEF Lock, TypeOK
    <3>2. Holders(t, [s \in {} |-> s])'
      BY <3>1 DEF Holders
    <3> QED
      BY <3>2
  <2>2. CASE ScanTaken(t)
    <3>1. PICK f : Holders(t, f)
      BY <2>2 DEF ScanTaken, At, CapacityInv, ScanInv
    <3> QED
      BY <3>1, <2>2, <1>0, ScanAddsHolder
  <2>3. CASE ~Lock(t) /\ ~ScanTaken(t)
    <3>1. /\ pc[t] = "scan" /\ ii'[t] = ii[t]
          /\ \A u \in Threads : Owns(u)' => Owns(u) /\ ii'[u] = ii[u]
      <4> USE <1>0, <2>3, ThreadAssumption
      <4> USE DEF TypeOK, LockHeld, Owns, At, Go, callData
      <4> DEFINE Kept == /\ pc[t] = "scan" /\ ii'[t] = ii[t]
                         /\ \A v \in Threads : Owns(v)' => Owns(v) /\ ii'[v] = ii[v]
      <4>1. ASSUME NEW u \in Threads, ExecuteCommand(u) \/ CallerStep(u) PROVE Kept
        <5>1. CASE ExecuteCommand(u)
          BY <5>1 DEF ExecuteCommand
        <5>2. CASE Lock(u)
          BY <5>2 DEF Lock
        <5>3. CASE ScanTaken(u)
          BY <5>3 DEF ScanTaken
        <5>4. CASE ScanFree(u)
          BY <5>4 DEF ScanFree
        <5>5. CASE TableFull(u)
          BY <5>5 DEF TableFull
        <5>6. CASE Reserve(u)
          BY <5>6 DEF Reserve
        <5>7. CASE Unlock(u)
          BY <5>7 DEF Unlock
        <5>8. CASE ResetCondition(u)
          BY <5>8 DEF ResetCondition
        <5>9. CASE SetBuffer(u)
          BY <5>9 DEF SetBuffer
        <5>9a. CASE SetStatus(u)
          BY <5>9a DEF SetStatus
        <5>10. CASE SendCommand(u)
          BY <5>10 DEF SendCommand
        <5>10a. CASE WriteFails(u)
          BY <5>10a DEF WriteFails
        <5>10b. CASE Transmitted(u)
          BY <5>10b DEF Transmitted
        <5>10c. CASE SleepOnWrite(u)
          BY <5>10c DEF SleepOnWrite
        <5>11. CASE Collect(u)
          BY <5>11 DEF Collect
        <5>12. CASE Release(u)
          BY <5>12 DEF Release
        <5>13. CASE Timeout(u)
          BY <5>13 DEF Timeout
        <5>14. CASE WaitOnNull(u)
          BY <5>14 DEF WaitOnNull, callVars
        <5> QED
          BY <4>1, <5>1, <5>2, <5>3, <5>4, <5>5, <5>6, <5>7, <5>8, <5>9, <5>9a, <5>10, <5>10a,
             <5>10b, <5>10c, <5>11, <5>12, <5>13, <5>14 DEF CallerStep
      <4>2. ASSUME WriteComplete PROVE Kept
        BY <4>2 DEF WriteComplete, Asleep
      <4> QED
        BY <4>1, <4>2 DEF Next, Finished, Acknowledge, SignalStep, SignalScanMiss, SignalScanHit,
           SignalNoSlot, SignalFill, SignalStatus, SignalEvent, vars, callVars
    <3> QED
      BY <1>1, <3>1
  <2> QED
    BY <2>1, <2>2, <2>3
<1>3. RoomInv'
  <2>1. ASSUME NEW t \in Threads, TableFull(t) PROVE FALSE
    BY <2>1, ScanFindsRoom DEF TableFull, At
  <2>2. ASSUME NEW t \in Threads, pc[t] = "reserve" PROVE ii[t] # NumSlots
    BY <2>2 DEF CapacityInv, OwnInv, SlotInv, HasSlot
  <2>3. ASSUME NEW t \in Threads, ExecuteCommand(t) \/ CallerStep(t) PROVE RoomInv'
    BY <1>0, <2>1, <2>2, <2>3 DEF CapacityInv, OwnInv, SlotInv, HasSlot, RoomInv, TypeOK,
       ExecuteCommand, CallerStep, Lock, ScanTaken, ScanFree, Reserve, Unlock,
       ResetCondition, SetBuffer, SetStatus, SendCommand, WriteFails, Transmitted, SleepOnWrite,
       Collect, Release, Timeout, WaitOnNull, Sent, At, Go, callVars, callData
  <2>4. ASSUME WriteComplete PROVE RoomInv'
    BY <1>0, <2>4 DEF CapacityInv, RoomInv, TypeOK, WriteComplete, Asleep, Sent, Go
  <2> QED
    BY <2>3, <2>4 DEF CapacityInv, RoomInv, Sent, Next, Finished, Acknowledge, SignalStep,
       SignalScanMiss, SignalScanHit, SignalNoSlot, SignalFill, SignalStatus, SignalEvent, vars,
       callVars
<1>4. fault' = "none"
  <2>1. ASSUME NEW t \in Threads, WaitOnNull(t) PROVE FALSE
    BY <2>1 DEF CapacityInv, RoomInv, Sent, WaitOnNull, At
  <2>2. ASSUME SignalNoSlot PROVE FALSE
    <3>1. PICK t \in Threads : Sent(t) /\ jj <= ii[t]
      BY <2>2 DEF SignalNoSlot, OwnInv, CapacityInv, ReplyInv, Awaits
    <3>2. ii[t] \in 0 .. NumSlots - 1
      BY <1>0, <3>1, SlotsAssumption DEF CapacityInv, RoomInv, TypeOK
    <3> QED
      BY <2>2, <3>1, <3>2, SlotsAssumption DEF SignalNoSlot, ScanEnd
  <2>3. ASSUME NEW t \in Threads, ExecuteCommand(t) \/ CallerStep(t) PROVE fault' = "none"
    BY <2>1, <2>3 DEF CapacityInv, ExecuteCommand, CallerStep, Lock, ScanTaken, ScanFree,
       TableFull, Reserve, Unlock, ResetCondition, SetBuffer, SetStatus, SendCommand, WriteFails,
       Transmitted, SleepOnWrite, Collect, Release, Timeout, endVars
  <2> QED
    BY <2>2, <2>3 DEF CapacityInv, Next, Finished, Acknowledge, WriteComplete, SignalStep,
       SignalScanMiss, SignalScanHit, SignalFill, SignalStatus, SignalEvent, vars, endVars
<1> QED
  BY <1>0, <1>2, <1>3, <1>4 DEF CapacityInv

(* As many disciplined callers as slots: no call waits on the NULL of a    *)
(* full table, and the assert(false) of signalCondition never fires.       *)
THEOREM NoFault ==
  ASSUME Disciplined, EnoughSlots
  PROVE  Spec => []NoAssertFailure
<1>1. Init => ScanInv /\ RoomInv /\ fault = "none"
  BY DEF Init, ScanInv, RoomInv, Sent
<1>2. CapacityInv /\ [Next]_vars => CapacityInv'
  BY CapacityInductive
<1>3. CapacityInv => NoAssertFailure
  BY DEF CapacityInv, NoAssertFailure
<1>4. Init => CapacityInv
  BY <1>1, OwnInitially DEF CapacityInv
<1> QED
  BY <1>2, <1>3, <1>4, PTL DEF Spec

-----------------------------------------------------------------------------
(***************************************************************************)
(* Disciplined callers get what CommandService promises: every step of     *)
(* lb_executeCommand and of the I/O thread is a step of the service or     *)
(* changes nothing that a caller of the service sees.                      *)
(***************************************************************************)
(* A step that leaves each caller's stage, answer, count and status alone. *)
LEMMA Stutter ==
  ASSUME TypeOK, TypeOK', calls' = calls, retval' = retval,
         \A u \in Threads : /\ Answered(u)' <=> Answered(u)
                            /\ Answered(u) => status'[ii'[u]] = status[ii[u]]
                            /\ (pc'[u] \in {"idle", "release"}) <=> (pc[u] \in {"idle", "release"})
                            /\ Sent(u)' <=> Sent(u)
  PROVE  UNCHANGED Service!vars
<1>1. stageOf' = stageOf
  BY DEF stageOf
<1>2. answerOf' = answerOf
  BY DEF answerOf
<1> QED
  BY <1>1, <1>2 DEF Service!vars

(* A step of thread t alone.                                               *)
LEMMA OneMoves ==
  ASSUME NEW t \in Threads,
         \A u \in Threads : u # t => /\ pc'[u] = pc[u] /\ (Answered(u)' <=> Answered(u))
                                     /\ Answered(u) => status'[ii'[u]] = status[ii[u]]
  PROVE  /\ stageOf' = [stageOf EXCEPT ![t] = stageOf'[t]]
         /\ answerOf' = [answerOf EXCEPT ![t] = answerOf'[t]]
<1>1. \A u \in Threads : u # t => stageOf'[u] = stageOf[u]
  BY DEF stageOf, Sent
<1>2. \A u \in Threads : u # t => answerOf'[u] = answerOf[u]
  BY DEF answerOf
<1>3. /\ stageOf = [u \in Threads |-> stageOf[u]]
      /\ stageOf' = [u \in Threads |-> stageOf'[u]]
  BY DEF stageOf
<1>4. /\ answerOf = [u \in Threads |-> answerOf[u]]
      /\ answerOf' = [u \in Threads |-> answerOf'[u]]
  BY DEF answerOf
<1> QED
  BY <1>1, <1>2, <1>3, <1>4

(* How the steps of PendingCommands map: ExecuteCommand calls, SendCommand *)
(* and WriteFails send, SignalEvent answers, Collect returns, all the      *)
(* others stutter.                                                         *)
LEMMA StepSimulation ==
  ASSUME Disciplined, OwnInv, OwnInv', [Next]_vars
  PROVE  [Service!Next]_(Service!vars)
<1>0. TypeOK /\ TypeOK' /\ SlotExclusive /\ HasSlot
  BY DEF OwnInv, SlotInv
<1> USE <1>0, SlotsAssumption DEF TypeOK, At, Go, Answered, Sent, callVars, callData, slotVars,
        channel, ioVars, endVars
<1>1. ASSUME NEW t \in Threads, ExecuteCommand(t) PROVE Service!Call(t)
  <2>1. stageOf[t] = "idle" /\ stageOf'[t] = "called" /\ answerOf'[t] = answerOf[t]
    BY <1>1 DEF ExecuteCommand, stageOf, answerOf
  <2>2. /\ stageOf' = [stageOf EXCEPT ![t] = "called"]
        /\ answerOf' = [answerOf EXCEPT ![t] = answerOf[t]]
    BY <1>1, <2>1, OneMoves DEF ExecuteCommand
  <2>3. answerOf' = answerOf
    BY <2>2 DEF answerOf
  <2> QED
    BY <1>1, <2>1, <2>2, <2>3 DEF ExecuteCommand, Service!Call, Service!Move
<1>2. ASSUME NEW t \in Threads, SendCommand(t) \/ WriteFails(t) PROVE Service!Send(t)
  <2>0. ii[t] # NumSlots => ~signaled[ii[t]]
    BY <1>2 DEF SendCommand, WriteFails, OwnInv, SignaledInv
  <2>1. stageOf[t] = "called" /\ stageOf'[t] = "sent" /\ answerOf'[t] = answerOf[t]
    BY <1>2, <2>0 DEF SendCommand, WriteFails, stageOf, answerOf, Slots
  <2>2. /\ stageOf' = [stageOf EXCEPT ![t] = "sent"]
        /\ answerOf' = [answerOf EXCEPT ![t] = answerOf[t]]
    BY <1>2, <2>1, OneMoves DEF SendCommand, WriteFails
  <2>3. answerOf' = answerOf
    BY <2>2 DEF answerOf
  <2> QED
    BY <1>2, <2>1, <2>2, <2>3 DEF SendCommand, WriteFails, Service!Send, Service!Move
<1>3. ASSUME NEW t \in Threads, Collect(t) PROVE Service!Return(t)
  <2>1. /\ stageOf[t] = "answered" /\ stageOf'[t] = "idle"
        /\ answerOf[t] = status[ii[t]] /\ answerOf'[t] = Busy
    BY <1>3 DEF Collect, stageOf, answerOf
  <2>2. /\ stageOf' = [stageOf EXCEPT ![t] = "idle"]
        /\ answerOf' = [answerOf EXCEPT ![t] = Busy]
    BY <1>3, <2>1, OneMoves DEF Collect
  <2> QED
    BY <1>3, <2>1, <2>2 DEF Collect, Service!Return, Service!Move
<1>4. ASSUME SignalEvent PROVE \E t \in Threads : Service!Answer(t)
  <2>1. PICK t \in Threads :
          /\ Sent(t) /\ reply.call = ThisCall(t) /\ jj = ii[t] /\ jj \in Slots
          /\ ~signaled[jj] /\ status[jj].call = ThisCall(t)
    BY <1>4 DEF SignalEvent, OwnInv, ReplyInv, Awaits, Slots
  <2>2. PICK code \in {"ok", "failed"} : status[jj] = [call |-> <<t, calls[t]>>, code |-> code]
    BY <1>4, <2>1 DEF SignalEvent, OwnInv, ReplyInv, Acks, ThisCall
  <2>3. \A u \in Threads : u # t /\ Sent(u) /\ ii[u] \in Slots => ii[u] # jj
    <3> SUFFICES ASSUME NEW u \in Threads, u # t, Sent(u), ii[u] \in Slots
                 PROVE  ii[u] # ii[t]
      BY <2>1
    <3>0. NumSlots \notin Slots
      BY DEF Slots
    <3>1. Owns(t) /\ Owns(u)
      BY <3>0, <2>1 DEF Owns
    <3> QED
      BY <3>1 DEF SlotExclusive
  <2>4. /\ stageOf[t] = "sent" /\ stageOf'[t] = "answered" /\ answerOf'[t] = status[jj]
    BY <1>4, <2>1 DEF SignalEvent, stageOf, answerOf
  <2>5. \A u \in Threads : u # t => /\ pc'[u] = pc[u] /\ (Answered(u)' <=> Answered(u))
                                    /\ Answered(u) => status'[ii'[u]] = status[ii[u]]
    BY <1>4, <2>3 DEF SignalEvent
  <2>6. /\ stageOf' = [stageOf EXCEPT ![t] = "answered"]
        /\ answerOf' = [answerOf EXCEPT ![t] = status[jj]]
    BY <2>4, <2>5, OneMoves
  <2> QED
    BY <1>4, <2>2, <2>4, <2>6 DEF SignalEvent, Service!Answer, Service!Move
<1>5. ASSUME NEW t \in Threads, CallerStep(t), ~SendCommand(t), ~WriteFails(t), ~Collect(t)
      PROVE  UNCHANGED Service!vars
  <2>1. \A u \in Threads : u # t /\ Owns(t) /\ Owns(u) => ii[u] # ii[t]
    BY DEF SlotExclusive
  <2>2. CASE Lock(t) \/ ScanTaken(t) \/ ScanFree(t) \/ TableFull(t) \/ Unlock(t)
    BY <2>2, Stutter DEF Lock, ScanTaken, ScanFree, TableFull, Unlock
  <2>3. CASE Reserve(t) \/ Release(t) \/ WaitOnNull(t)
    BY <2>3, Stutter DEF Reserve, Release, WaitOnNull
  <2>4. CASE ResetCondition(t)
    BY <2>1, <2>4, Stutter DEF ResetCondition, HasSlot, Owns, Slots
  <2>5. CASE SetBuffer(t) \/ SetStatus(t)
    BY <2>1, <2>5, Stutter DEF SetBuffer, SetStatus, HasSlot, Owns, Slots
  <2>7. CASE Transmitted(t) \/ SleepOnWrite(t)
    BY <2>7, Stutter DEF Transmitted, SleepOnWrite
  <2>6. CASE Timeout(t)
    BY <2>6 DEF Timeout, Disciplined
  <2> QED
    BY <1>5, <2>2, <2>3, <2>4, <2>5, <2>6, <2>7 DEF CallerStep
<1>6. ASSUME SignalStatus PROVE UNCHANGED Service!vars
  <2>1. \A u \in Threads : Answered(u) => ii[u] # jj
    <3>1. PICK t \in Threads : Awaits(t, reply.call, reply.opcode) /\ jj = ii[t]
      BY <1>6 DEF SignalStatus, OwnInv, ReplyInv
    <3> QED
      BY <1>6, <3>1 DEF SignalStatus, Awaits, SlotExclusive, Owns, Slots
  <2> QED
    BY <1>6, <2>1, Stutter DEF SignalStatus
<1>7. ASSUME Acknowledge \/ SignalScanMiss \/ SignalScanHit \/ SignalNoSlot \/ SignalFill \/ UNCHANGED vars
      PROVE  UNCHANGED Service!vars
  BY <1>7, Stutter DEF Acknowledge, SignalScanMiss, SignalScanHit, SignalNoSlot, SignalFill, vars
<1>8. ASSUME WriteComplete PROVE UNCHANGED Service!vars
  BY <1>8, Stutter DEF WriteComplete, Asleep
<1> QED
  BY <1>1, <1>2, <1>3, <1>4, <1>5, <1>6, <1>7, <1>8
  DEF Next, CallerStep, SignalStep, Finished, Service!Next

(* lb_executeCommand implements CommandService.                            *)
THEOREM ImplementsService == ASSUME Disciplined PROVE Spec => ServiceSpec
<1>1. Init => Service!Init
  BY DEF Init, Service!Init, stageOf, answerOf, Answered, Sent
<1>2. OwnInv /\ OwnInv' /\ [Next]_vars => [Service!Next]_(Service!vars)
  BY StepSimulation
<1> QED
  BY <1>1, <1>2, OwnInvariant, PTL DEF Spec, ServiceSpec, Service!Spec
=============================================================================
