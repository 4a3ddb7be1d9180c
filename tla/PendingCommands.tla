-------------------------- MODULE PendingCommands --------------------------
(***************************************************************************)
(* HCI commands waiting for their acknowledgment: the table                *)
(* pendingCommands of src/hci.c, the callers that run lb_executeCommand    *)
(* (src/commands.c) and the one I/O thread that runs signalCondition.      *)
(*                                                                         *)
(* The table is a static object of the process: it is shared by every      *)
(* thread and by every controller, and a slot is identified by its opcode  *)
(* only.  pendingLock protects the reservation of a slot and nothing else. *)
(* One step below is one access to the shared table: to the mark of a slot,*)
(* its event, its buffer with the length of it, or its status with the     *)
(* length of the result.                                                   *)
(*                                                                         *)
(* All callers send over one channel.  Of io_sendData and                  *)
(* io_waitForTransmitComplete this module has the blocking; Transmit takes *)
(* them apart.                                                             *)
(***************************************************************************)
EXTENDS Naturals, FiniteSets

CONSTANTS
  Threads,        \* the threads that call lb_executeCommand
  NumSlots,       \* length of pendingCommands: 4 in the code
  Opcodes,        \* the HCI command opcodes, the free mark 0 excluded
  OpcodesOf,      \* OpcodesOf[t]: the opcodes thread t sends
  WithResponse,   \* the opcodes whose caller passes a response buffer
  DoubleAck,      \* the opcodes acknowledged by a status and a complete event
  Outcomes,       \* how commands end: "ok", "failed"
  MaxCalls,       \* bound: calls of lb_executeCommand per thread
  MaxTimeouts,    \* bound: calls that give up after the 1000 ms wait
  MaxFailures,    \* bound: calls of WriteFile that fail
  NoOpcode,       \* 0, the mark of a free slot
  NoThread,       \* the owner of a free lock
  NoCall,         \* nothing: a NULL response buffer, an empty response
  Busy            \* HCI_CONTROLLER_BUSY, what a wait that timed out returns

ASSUME SlotsAssumption  == NumSlots \in Nat \ {0}
ASSUME OpcodeAssumption == /\ NoOpcode \notin Opcodes
                           /\ OpcodesOf \in [Threads -> SUBSET Opcodes]
                           /\ WithResponse \subseteq Opcodes
                           /\ DoubleAck \subseteq Opcodes
ASSUME OutcomeAssumption == Outcomes \subseteq {"ok", "failed"}
ASSUME ThreadAssumption == NoThread \notin Threads
ASSUME BoundAssumption  == MaxCalls \in Nat /\ MaxTimeouts \in Nat /\ MaxFailures \in Nat

Slots == 0 .. NumSlots - 1
Calls == Threads \X (1 .. MaxCalls)     \* <<t, n>>: the n-th call of thread t
ASSUME CallAssumption == NoCall \notin Calls

(* What a caller reads as the status of its command: the acknowledgment    *)
(* of some call, a success or an error.                                    *)
Acks == [call : Calls, code : {"ok", "failed"}]
ASSUME BusyAssumption == Busy \notin Acks

(* A command the controller has not finished with: "left" acknowledgments  *)
(* are still to come.                                                      *)
Commands == [call : Calls, opcode : Opcodes, left : 1 .. 2]

VARIABLES
  opcode,      \* opcode[s]    of slot s
  buffer,      \* buffer[s]    the call whose response buffer slot s points to
  status,      \* status[s]    the acknowledgment stored in slot s
  signaled,    \* signaled[s]  the manual-reset event behind the os_condition
  lock,        \* the thread that holds pendingLock
  pc,          \* where each caller is
  ii,          \* its index into the table; NumSlots is the NULL condition
  cmd,         \* the opcode of its command
  calls,       \* how many calls it has made
  retval,      \* the status of its last call
  response,    \* the call whose data its response buffer holds
  writes,      \* the threads whose command the OS is writing
  inFlight,    \* commands the controller has not finished with
  ioPc,        \* where the I/O thread is in signalCondition
  jj,          \* its index into the table
  reply,       \* the acknowledgment it handles, and the opcode it looks for
  delivered,   \* history: the calls whose acknowledgment reached a slot
  timeouts,    \* how many calls have given up
  failures,    \* how many calls of WriteFile have failed
  fault        \* "assert": an assert failed; "null": a NULL was dereferenced

slotVars == <<opcode, buffer, status, signaled>>
callData == <<cmd, calls, retval, response>>
callVars == <<pc, ii, callData>>
channel  == <<writes, inFlight>>
ioVars   == <<ioPc, jj, reply, delivered>>
endVars  == <<timeouts, failures, fault>>
vars     == <<slotVars, lock, callVars, channel, ioVars, endVars>>

NoReply == [call |-> NoCall, opcode |-> NoOpcode, left |-> 0, code |-> "ok"]
Replies == [call : Calls, opcode : Opcodes, left : 1 .. 2, code : {"ok", "failed"}]

ThisCall(t) == <<t, calls[t]>>
InProgress(c) == \E t \in Threads : pc[t] # "idle" /\ c = ThisCall(t)

(* Thread t has reserved slot ii[t] and not yet given it back.             *)
Owns(t) == /\ pc[t] \in {"unlock", "reset", "buffer", "status", "send", "transmit", "asleep",
                        "wait", "release"}
           /\ ii[t] # NumSlots

TypeOK ==
  /\ opcode   \in [Slots -> Opcodes \cup {NoOpcode}]
  /\ buffer   \in [Slots -> Calls \cup {NoCall}]
  /\ status   \in [Slots -> Acks \cup {Busy}]
  /\ signaled \in [Slots -> BOOLEAN]
  /\ lock     \in Threads \cup {NoThread}
  /\ pc       \in [Threads -> {"idle", "lock", "scan", "reserve", "unlock",
                               "reset", "buffer", "status", "send", "transmit",
                               "asleep", "wait", "release"}]
  /\ ii       \in [Threads -> 0 .. NumSlots]
  /\ cmd      \in [Threads -> Opcodes \cup {NoOpcode}]
  /\ calls    \in [Threads -> 0 .. MaxCalls]
  /\ \A t \in Threads : pc[t] # "idle" => cmd[t] \in OpcodesOf[t] /\ calls[t] # 0
  /\ retval   \in [Threads -> Acks \cup {Busy}]
  /\ response \in [Threads -> Calls \cup {NoCall}]
  /\ writes \subseteq Threads
  /\ inFlight \subseteq Commands
  /\ ioPc     \in {"idle", "scan", "fill", "status", "signal"}
  /\ jj       \in 0 .. NumSlots
  /\ reply    \in Replies \cup {NoReply}
  /\ ioPc # "idle" => reply \in Replies
  /\ ioPc \in {"fill", "status", "signal"} => jj \in Slots
  /\ delivered \subseteq Calls
  /\ timeouts \in 0 .. MaxTimeouts /\ failures \in 0 .. MaxFailures
  /\ fault    \in {"none", "assert", "null"}

(* hci_initialize: a zeroed table and unsignaled conditions.               *)
Init ==
  /\ opcode    = [s \in Slots |-> NoOpcode]
  /\ buffer    = [s \in Slots |-> NoCall]
  /\ status    = [s \in Slots |-> Busy]
  /\ signaled  = [s \in Slots |-> FALSE]
  /\ lock      = NoThread
  /\ pc        = [t \in Threads |-> "idle"]
  /\ ii        = [t \in Threads |-> 0]
  /\ cmd       = [t \in Threads |-> NoOpcode]
  /\ calls     = [t \in Threads |-> 0]
  /\ retval    = [t \in Threads |-> Busy]
  /\ response  = [t \in Threads |-> NoCall]
  /\ writes    = {}
  /\ inFlight  = {}
  /\ ioPc      = "idle"
  /\ jj        = 0
  /\ reply     = NoReply
  /\ delivered = {}
  /\ timeouts  = 0
  /\ failures  = 0
  /\ fault     = "none"

Running == fault = "none"
At(t, where) == Running /\ pc[t] = where
Go(t, where) == pc' = [pc EXCEPT ![t] = where]

-----------------------------------------------------------------------------
(* The caller: lb_executeCommand, allocateCondition, waitForCondition.     *)

(* lb_executeCommand begins, with a response buffer of its caller.         *)
ExecuteCommand(t) ==
  /\ At(t, "idle") /\ calls[t] < MaxCalls
  /\ \E op \in OpcodesOf[t] : cmd' = [cmd EXCEPT ![t] = op]
  /\ Go(t, "lock")
  /\ calls'    = [calls EXCEPT ![t] = @ + 1]
  /\ response' = [response EXCEPT ![t] = NoCall]
  /\ UNCHANGED <<slotVars, lock, ii, retval, channel, ioVars, endVars>>

(* os_lock(pendingLock) *)
AlwaysGranted == TRUE   \* mutant
Granted == lock = NoThread
Lock(t) ==
  /\ At(t, "lock") /\ Granted
  /\ lock' = t
  /\ ii'   = [ii EXCEPT ![t] = 0]
  /\ Go(t, "scan")
  /\ UNCHANGED <<slotVars, callData, channel, ioVars, endVars>>

NextIndex(i) == i + 1

(* The slot at ii is taken: try the next one.                              *)
ScanTaken(t) ==
  /\ At(t, "scan") /\ ii[t] \in Slots /\ opcode[ii[t]] # NoOpcode
  /\ ii' = [ii EXCEPT ![t] = NextIndex(@)]
  /\ UNCHANGED <<slotVars, lock, pc, callData, channel, ioVars, endVars>>

(* The slot at ii is free ...                                              *)
ScanFree(t) ==
  /\ At(t, "scan") /\ ii[t] \in Slots /\ opcode[ii[t]] = NoOpcode
  /\ Go(t, "reserve")
  /\ UNCHANGED <<slotVars, lock, ii, callData, channel, ioVars, endVars>>

(* ... and is reserved, in a second access to it.                          *)
Reserve(t) ==
  /\ At(t, "reserve")
  /\ opcode' = [opcode EXCEPT ![ii[t]] = cmd[t]]
  /\ Go(t, "unlock")
  /\ UNCHANGED <<buffer, status, signaled, lock, ii, callData, channel, ioVars, endVars>>

(* The scan has passed the last slot.                                      *)
TableFull(t) ==
  /\ At(t, "scan") /\ ii[t] = NumSlots
  /\ Go(t, "unlock")
  /\ UNCHANGED <<slotVars, lock, ii, callData, channel, ioVars, endVars>>

(* os_unlock(pendingLock).  A full table returns NULL, which               *)
(* lb_executeCommand does not look at: it sends the command all the same.  *)
KeepLock(t) ==   \* mutant
  /\ At(t, "unlock")
  /\ Go(t, IF ii[t] = NumSlots THEN "send" ELSE "reset")
  /\ UNCHANGED <<slotVars, lock, ii, callData, channel, ioVars, endVars>>
Unlock(t) ==
  /\ At(t, "unlock")
  /\ lock' = NoThread
  /\ Go(t, IF ii[t] = NumSlots THEN "send" ELSE "reset")
  /\ UNCHANGED <<slotVars, ii, callData, channel, ioVars, endVars>>

(* os_resetCondition, outside the lock.                                    *)
KeepEvent(t)  == signaled[ii[t]]   \* mutant
ResetEvent(t) == FALSE
ResetCondition(t) ==
  /\ At(t, "reset")
  /\ signaled' = [signaled EXCEPT ![ii[t]] = ResetEvent(t)]
  /\ Go(t, "buffer")
  /\ UNCHANGED <<opcode, buffer, status, lock, ii, callData, channel, ioVars, endVars>>

(* The result buffer of the slot and its capacity, outside the lock as well*)
(* ...                                                                     *)
ResultBuffer(t) == IF cmd[t] \in WithResponse THEN ThisCall(t) ELSE NoCall
StaleBuffer(t)  == IF buffer[ii[t]] # NoCall THEN buffer[ii[t]] ELSE ResultBuffer(t) \* mutant
NewBuffer(t)    == ResultBuffer(t)
SetBuffer(t) ==
  /\ At(t, "buffer")
  /\ buffer' = [buffer EXCEPT ![ii[t]] = NewBuffer(t)]
  /\ Go(t, "status")
  /\ UNCHANGED <<opcode, status, signaled, lock, ii, callData, channel, ioVars, endVars>>

(* ... then the status, and the length of the result.                      *)
SetStatus(t) ==
  /\ At(t, "status")
  /\ status' = [status EXCEPT ![ii[t]] = Busy]
  /\ Go(t, "send")
  /\ UNCHANGED <<opcode, buffer, signaled, lock, ii, callData, channel, ioVars, endVars>>

(* Everything that io_sendData has counted is written: nothing is being    *)
(* written, and nothing has failed, for that is never written.             *)
AllWritten == writes = {} /\ failures = 0

(* io_sendData: the OS writes the command, and the controller owes its     *)
(* acknowledgments ...                                                     *)
SendCommand(t) ==
  /\ At(t, "send")
  /\ writes' = writes \cup {t}
  /\ inFlight' = inFlight \cup {[call |-> ThisCall(t), opcode |-> cmd[t],
                                 left |-> IF cmd[t] \in DoubleAck THEN 2 ELSE 1]}
  /\ Go(t, "transmit")
  /\ UNCHANGED <<slotVars, lock, ii, callData, ioVars, endVars>>

(* ... or WriteFile fails, and the bytes that are counted never go out.    *)
WriteFails(t) ==
  /\ At(t, "send") /\ failures < MaxFailures
  /\ failures' = failures + 1
  /\ Go(t, "transmit")
  /\ UNCHANGED <<slotVars, lock, ii, callData, writes, inFlight, ioVars, timeouts, fault>>

(* io_waitForTransmitComplete returns when all is written ...              *)
Transmitted(t) ==
  /\ At(t, "transmit") /\ AllWritten
  /\ Go(t, "wait")
  /\ UNCHANGED <<slotVars, lock, ii, callData, channel, ioVars, endVars>>

(* ... and sleeps until then.                                              *)
SleepOnWrite(t) ==
  /\ At(t, "transmit") /\ ~AllWritten
  /\ Go(t, "asleep")
  /\ UNCHANGED <<slotVars, lock, ii, callData, channel, ioVars, endVars>>

(* os_waitForCondition returns true: read the status of the slot.          *)
Collect(t) ==
  /\ At(t, "wait") /\ ii[t] \in Slots /\ signaled[ii[t]]
  /\ retval' = [retval EXCEPT ![t] = status[ii[t]]]
  /\ Go(t, "release")
  /\ UNCHANGED <<slotVars, lock, ii, cmd, calls, response, channel, ioVars, endVars>>

(* cond->opcode = 0, without the lock.                                     *)
Release(t) ==
  /\ At(t, "release")
  /\ opcode' = [opcode EXCEPT ![ii[t]] = NoOpcode]
  /\ Go(t, "idle")
  /\ UNCHANGED <<buffer, status, signaled, lock, ii, callData, channel, ioVars, endVars>>

(* os_waitForCondition returns false: the call fails and its slot keeps    *)
(* the opcode.                                                             *)
Uninitialized(t) == NoCall   \* mutant
DefaultStatus(t) == Busy
TimeoutFrees(t) ==   \* mutant
  /\ At(t, "wait") /\ ii[t] \in Slots /\ ~signaled[ii[t]]
  /\ timeouts < MaxTimeouts
  /\ timeouts' = timeouts + 1
  /\ retval' = [retval EXCEPT ![t] = DefaultStatus(t)]
  /\ opcode' = [opcode EXCEPT ![ii[t]] = NoOpcode]
  /\ Go(t, "idle")
  /\ UNCHANGED <<buffer, status, signaled, lock, ii, cmd, calls, response, channel, ioVars, failures, fault>>
Timeout(t) ==
  /\ At(t, "wait") /\ ii[t] \in Slots /\ ~signaled[ii[t]]
  /\ timeouts < MaxTimeouts
  /\ timeouts' = timeouts + 1
  /\ retval' = [retval EXCEPT ![t] = DefaultStatus(t)]
  /\ Go(t, "idle")
  /\ UNCHANGED <<slotVars, lock, ii, cmd, calls, response, channel, ioVars, failures, fault>>

(* waitForCondition(NULL): cond->handle is read through a NULL pointer.    *)
WaitOnNull(t) ==
  /\ At(t, "wait") /\ ii[t] = NumSlots
  /\ fault' = "null"
  /\ UNCHANGED <<slotVars, lock, callVars, channel, ioVars, timeouts, failures>>

-----------------------------------------------------------------------------
(* The I/O thread: write completions, and signalCondition, called for every*)
(* acknowledgment.                                                         *)

Asleep == {t \in Threads : pc[t] = "asleep"}

(* A write is complete.  When nothing is left to write one sleeper wakes.  *)
WriteComplete ==
  /\ Running /\ ioPc = "idle"
  /\ \E t \in writes : writes' = writes \ {t}
  /\ IF writes' = {} /\ failures = 0 /\ Asleep # {}
     THEN \E t \in Asleep : Go(t, "transmit")
     ELSE pc' = pc
  /\ UNCHANGED <<slotVars, lock, ii, callData, inFlight, ioVars, endVars>>

(* The controller answers, in any order, and the event is dispatched.      *)
Acknowledge ==
  /\ Running /\ ioPc = "idle"
  /\ \E c \in inFlight, code \in Outcomes :
       /\ reply' = [call |-> c.call, opcode |-> c.opcode, left |-> c.left, code |-> code]
       /\ inFlight' = (inFlight \ {c}) \cup
            IF c.left = 1 THEN {} ELSE {[call |-> c.call, opcode |-> c.opcode, left |-> 1]}
  /\ jj' = 0
  /\ ioPc' = "scan"
  /\ UNCHANGED <<slotVars, lock, callVars, writes, delivered, endVars>>

AnyReserved(s) == opcode[s] # NoOpcode   \* mutant
Matches(s)     == opcode[s] = reply.opcode

SignalScanMiss ==
  /\ Running /\ ioPc = "scan" /\ jj \in Slots /\ ~Matches(jj)
  /\ jj' = NextIndex(jj)
  /\ UNCHANGED <<slotVars, lock, callVars, channel, ioPc, reply, delivered, endVars>>

SignalScanHit ==
  /\ Running /\ ioPc = "scan" /\ jj \in Slots /\ Matches(jj)
  /\ ioPc' = "fill"
  /\ UNCHANGED <<slotVars, lock, callVars, channel, jj, reply, delivered, endVars>>

(* No slot has the opcode: assert(false).                                  *)
LastSlot == NumSlots - 1   \* mutant
ScanEnd  == NumSlots
SignalNoSlot ==
  /\ Running /\ ioPc = "scan" /\ jj = ScanEnd
  /\ fault' = "assert"
  /\ UNCHANGED <<slotVars, lock, callVars, channel, ioVars, timeouts, failures>>

(* The last acknowledgment of a command that asks for data carries it.     *)
CarriesData == reply.opcode \in WithResponse /\ reply.left = 1

(* memcpy into the response buffer the slot points to ...                  *)
SignalFill ==
  /\ Running /\ ioPc = "fill"
  /\ response' = [t \in Threads |->
       IF CarriesData /\ pc[t] # "idle" /\ buffer[jj] = ThisCall(t)
       THEN reply.call ELSE response[t]]
  /\ ioPc' = "status"
  /\ UNCHANGED <<slotVars, lock, pc, ii, cmd, calls, retval, channel, jj, reply,
                 delivered, endVars>>

(* ... then the status, and the length of the result.                      *)
SignalStatus ==
  /\ Running /\ ioPc = "status"
  /\ status' = [status EXCEPT ![jj] = [call |-> reply.call, code |-> reply.code]]
  /\ ioPc' = "signal"
  /\ UNCHANGED <<opcode, buffer, signaled, lock, callVars, channel, jj, reply,
                 delivered, endVars>>

(* os_signalCondition *)
SignalEvent ==
  /\ Running /\ ioPc = "signal"
  /\ signaled' = [signaled EXCEPT ![jj] = TRUE]
  /\ delivered' = delivered \cup {reply.call}
  /\ ioPc' = "idle"
  /\ UNCHANGED <<opcode, buffer, status, lock, callVars, channel, jj, reply, endVars>>

-----------------------------------------------------------------------------
CallerStep(t) ==
  \/ Lock(t) \/ ScanTaken(t) \/ ScanFree(t) \/ TableFull(t) \/ Reserve(t) \/ Unlock(t)
  \/ ResetCondition(t) \/ SetBuffer(t) \/ SetStatus(t)
  \/ SendCommand(t) \/ WriteFails(t) \/ Transmitted(t) \/ SleepOnWrite(t)
  \/ Collect(t) \/ Release(t) \/ Timeout(t) \/ WaitOnNull(t)

SignalStep ==
  \/ SignalScanMiss \/ SignalScanHit \/ SignalNoSlot
  \/ SignalFill \/ SignalStatus \/ SignalEvent

(* The process has died, or all is answered and every caller has made all  *)
(* its calls, sleeps for ever, or waits beyond MaxTimeouts.                *)
Finished ==
  /\ \/ ~Running
     \/ /\ writes = {} /\ inFlight = {} /\ ioPc = "idle"
        /\ \A t \in Threads : \/ (pc[t] = "idle" /\ calls[t] = MaxCalls)
                             \/ pc[t] = "asleep"
                             \/ (pc[t] = "wait" /\ timeouts = MaxTimeouts)
  /\ UNCHANGED vars

Next ==
  \/ \E t \in Threads : ExecuteCommand(t) \/ CallerStep(t)
  \/ Acknowledge \/ WriteComplete
  \/ SignalStep
  \/ Finished

Spec == Init /\ [][Next]_vars

(* Threads that can run do, and the controller answers every command.      *)
(* Nothing is assumed of the order in which the lock is granted.           *)
Fairness ==
  /\ \A t \in Threads : WF_vars(CallerStep(t))
  /\ WF_vars(SignalStep)
  /\ WF_vars(Acknowledge) /\ WF_vars(WriteComplete)

FairSpec == Spec /\ Fairness

-----------------------------------------------------------------------------
(* Safety of the table, whatever the callers and the controller do.        *)

(* Two calls in progress never hold the same slot of pendingCommands: the  *)
(* reservation of allocateCondition is exclusive, although the slot is     *)
(* filled, signaled and given back without pendingLock.                    *)
SlotExclusive ==
  \A t, u \in Threads : t # u /\ Owns(t) /\ Owns(u) => ii[t] # ii[u]

Leaked == {s \in Slots : /\ opcode[s] # NoOpcode
                         /\ \A t \in Threads : Owns(t) => ii[t] # s}

(* Every wait that times out costs one slot of the table for ever, and     *)
(* nothing else does: waitForCondition frees the slot only when signaled.  *)
LeakPerTimeout == Cardinality(Leaked) = timeouts

(* A call that returns an acknowledgment returns its own, and on success   *)
(* its response buffer holds the data of that acknowledgment:              *)
(* signalCondition finds the slot by opcode alone.                         *)
OwnReply ==
  \A t \in Threads : pc[t] = "idle" /\ retval[t] # Busy =>
    /\ retval[t].call = ThisCall(t)
    /\ retval[t].code = "ok" /\ cmd[t] \in WithResponse => response[t] = ThisCall(t)

(* Every acknowledgment finds the slot of its command: the assert(false)   *)
(* of signalCondition never fires.  Nor does a call wait on the NULL that  *)
(* allocateCondition returns when the table is full.                       *)
NoAssertFailure == fault \notin {"assert", "null"}

(* signalCondition copies data only into the response buffer of a call in  *)
(* progress, never into the stack frame of a caller that has returned.     *)
BufferLive ==
  ioPc = "fill" /\ CarriesData /\ buffer[jj] # NoCall => InProgress(buffer[jj])

(* A call gives up only if its acknowledgment has not arrived: none that   *)
(* the I/O thread has signaled is ever missed by its caller.               *)
NoAnswerIgnored ==
  [][\A t \in Threads : Timeout(t) => ThisCall(t) \notin delivered]_vars

(* Every call of lb_executeCommand returns, or the process dies; unless    *)
(* WriteFile has failed, or two callers have waited for their writes at a  *)
(* time: one of them may then sleep for ever.                              *)
CallsReturn ==
  [](failures = 0 /\ Cardinality(Asleep) <= 1) =>
    \A t \in Threads : pc[t] # "idle" ~> (pc[t] = "idle" \/ ~Running)

-----------------------------------------------------------------------------
(* lb_executeCommand implements CommandService: every call gets its own    *)
(* acknowledgment, and a wait runs out only before it.                     *)
Sent(t)     == pc[t] \in {"transmit", "asleep", "wait"}
Answered(t) == Sent(t) /\ ii[t] \in Slots /\ signaled[ii[t]]

stageOf  == [t \in Threads |->
               IF pc[t] \in {"idle", "release"} THEN "idle"
               ELSE IF Answered(t) THEN "answered"
               ELSE IF Sent(t) THEN "sent" ELSE "called"]
answerOf == [t \in Threads |-> IF Answered(t) THEN status[ii[t]] ELSE Busy]

Service == INSTANCE CommandService WITH
  CanExpire <- MaxTimeouts > 0, stage <- stageOf, answer <- answerOf, outcome <- retval

ServiceSpec == Service!Spec
=============================================================================
