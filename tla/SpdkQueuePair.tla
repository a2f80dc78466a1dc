--------------------------- MODULE SpdkQueuePair ---------------------------
(***************************************************************************)
(* The native runtime of bypass-io/src/backend/spdk.rs: threads that read, *)
(* write and flush through one queue pair behind a mutex, the completion   *)
(* callback that writes to the stack of the call, and the ways a call can  *)
(* return while its command is still outstanding.                          *)
(*                                                                         *)
(* SPDK and the device are external: a submitted command completes at any  *)
(* time, with or without an error, or never.  A command is known by its    *)
(* thread, call and segment; read, write and flush have one segment, readv *)
(* and writev one per buffer, each with a lock of its own.                 *)
(***************************************************************************)
EXTENDS Naturals, FiniteSets

CONSTANTS
  Callers,
  NoCaller,
  MaxCalls,     \* bound: calls of one thread
  MaxSegments,  \* bound: buffers of one readv or writev
  Faults        \* which of "submit", "poll" and "timeout" may happen

ASSUME NoCallerAssumption == NoCaller \notin Callers
ASSUME BoundsAssumption == MaxCalls \in Nat /\ MaxSegments \in Nat \ {0}
ASSUME FaultsAssumption == Faults \subseteq {"submit", "poll", "timeout"}

VARIABLES
  lock,        \* the holder of the queue pair's mutex
  stage,       \* per thread: "idle", "locking" or "waiting"
  call,        \* per thread: its calls so far
  segments,    \* per thread: segments of the present call
  seg,         \* per thread: the segment it is at, from 1
  completion,  \* per thread: the NativeCompletion on its stack
  result,      \* per thread: what its last call returned
  flight,      \* the commands the queue pair holds
  alive,       \* the runtime has not been dropped
  served,      \* history, per thread: segments of this call completed for it
  gaveUp       \* history, per thread: some call returned without its completion

thread == <<stage, call, segments, seg, result>>
queueVars == <<lock, thread, completion, flight, alive, served, gaveUp>>

NotDone == [done |-> FALSE, failed |-> FALSE]

QueueInit ==
  /\ lock = NoCaller
  /\ stage = [t \in Callers |-> "idle"]
  /\ call = [t \in Callers |-> 0]
  /\ segments = [t \in Callers |-> 1]
  /\ seg = [t \in Callers |-> 1]
  /\ completion = [t \in Callers |-> NotDone]
  /\ result = [t \in Callers |-> "none"]
  /\ flight = {}
  /\ alive = TRUE
  /\ served = [t \in Callers |-> {}]
  /\ gaveUp = [t \in Callers |-> FALSE]

-----------------------------------------------------------------------------
(* A call *)

Command(t) == [thread |-> t, call |-> call[t], seg |-> seg[t]]
CommandOf(c) == [thread |-> c.thread, call |-> c.call, seg |-> c.seg]

(* The call that waits for command c.                                      *)
Awaited(c) == stage[c.thread] = "waiting" /\ CommandOf(c) = Command(c.thread)

Begin(t, n) ==
  /\ alive
  /\ stage[t] = "idle"
  /\ call[t] < MaxCalls
  /\ call' = [call EXCEPT ![t] = @ + 1]
  /\ segments' = [segments EXCEPT ![t] = n]
  /\ seg' = [seg EXCEPT ![t] = 1]
  /\ stage' = [stage EXCEPT ![t] = "locking"]
  /\ served' = [served EXCEPT ![t] = {}]
  /\ UNCHANGED <<lock, completion, result, flight, alive, gaveUp>>

(* The call returns r, and with it the guard of the mutex goes.            *)
Return(t, r) ==
  /\ stage' = [stage EXCEPT ![t] = "idle"]
  /\ result' = [result EXCEPT ![t] = r]
  /\ lock' = NoCaller
  /\ UNCHANGED <<call, segments, seg, completion, alive, served>>

(* The buffer is no DMA memory or the namespace is unknown: the call ends  *)
(* before it takes the lock, a readv or writev perhaps halfway.            *)
Refuse(t) ==
  /\ stage[t] = "locking"
  /\ stage' = [stage EXCEPT ![t] = "idle"]
  /\ result' = [result EXCEPT ![t] = "refused"]
  /\ UNCHANGED <<lock, call, segments, seg, completion, flight, alive, served, gaveUp>>

(* Mutant: the completion of the segment before is used again.             *)
SubmitKeepingCompletion(t) ==
  /\ stage[t] = "locking"
  /\ lock = NoCaller
  /\ lock' = t
  /\ flight' = flight \cup
       {[thread |-> t, call |-> call[t], seg |-> seg[t], status |-> "device"]}
  /\ stage' = [stage EXCEPT ![t] = "waiting"]
  /\ UNCHANGED <<call, segments, seg, completion, result, alive, served, gaveUp>>

(* With the lock, a fresh completion, and the command accepted by SPDK.    *)
Submit(t) ==
  /\ stage[t] = "locking"
  /\ lock = NoCaller
  /\ lock' = t
  /\ completion' = [completion EXCEPT ![t] = NotDone]
  /\ flight' = flight \cup
       {[thread |-> t, call |-> call[t], seg |-> seg[t], status |-> "device"]}
  /\ stage' = [stage EXCEPT ![t] = "waiting"]
  /\ UNCHANGED <<call, segments, seg, result, alive, served, gaveUp>>

SubmitFails(t) ==
  /\ "submit" \in Faults
  /\ stage[t] = "locking"
  /\ lock = NoCaller
  /\ Return(t, "submit failed")
  /\ UNCHANGED <<flight, gaveUp>>

-----------------------------------------------------------------------------
(* wait_for_completion *)

Posted == {c \in flight : c.status # "device"}

(* The commands whose callbacks write into the completion t has now: its   *)
(* own, and, of commands that outlived earlier calls of t, those whose     *)
(* dead stack frame was where this one is (hits).                          *)
Leftovers(t) == {c \in Posted : c.thread = t /\ ~ Awaited(c)}

(* Mutant: one poll ends the wait, whatever it reported.                   *)
PollAnyCompletion(t) ==
  /\ stage[t] = "waiting"
  /\ ~ completion[t].done
  /\ \E any \in flight :
       /\ completion' = [completion EXCEPT
            ![t] = [done |-> TRUE, failed |-> any.status = "error"]]
       /\ flight' = flight \ Posted
  /\ UNCHANGED <<lock, thread, alive, served, gaveUp>>

(* Callbacks run in any order; the last one decides failed.                *)
Poll(t) ==
  /\ stage[t] = "waiting"
  /\ ~ completion[t].done
  /\ \E hits \in SUBSET Leftovers(t) :
       LET writers == hits \cup {c \in Posted : Awaited(c)}
       IN  IF writers = {}
             THEN UNCHANGED completion
             ELSE \E last \in writers :
                    completion' = [completion EXCEPT
                      ![t] = [done |-> TRUE, failed |-> last.status = "error"]]
  /\ served' = [served EXCEPT
       ![t] = @ \cup {c.seg : c \in {d \in Posted : Awaited(d) /\ d.status = "ok"}}]
  /\ flight' = flight \ Posted
  /\ UNCHANGED <<lock, thread, alive, gaveUp>>

PollFails(t) ==
  /\ "poll" \in Faults
  /\ stage[t] = "waiting"
  /\ ~ completion[t].done
  /\ Return(t, "submit failed")
  /\ gaveUp' = [gaveUp EXCEPT ![t] = TRUE]
  /\ UNCHANGED flight

(* Mutant: the clock is only looked at after a completion was processed.   *)
TimeOutWhenPolled(t) ==
  /\ "timeout" \in Faults
  /\ stage[t] = "waiting"
  /\ ~ completion[t].done
  /\ Posted # {}
  /\ Return(t, "timeout")
  /\ gaveUp' = [gaveUp EXCEPT ![t] = TRUE]
  /\ UNCHANGED flight

TimeOut(t) ==
  /\ "timeout" \in Faults
  /\ stage[t] = "waiting"
  /\ ~ completion[t].done
  /\ Return(t, "timeout")
  /\ gaveUp' = [gaveUp EXCEPT ![t] = TRUE]
  /\ UNCHANGED flight

(* The wait is over: on to the next segment, or back to the caller.        *)
NextSegment(t) ==
  /\ stage[t] = "waiting"
  /\ completion[t].done
  /\ ~ completion[t].failed
  /\ seg[t] < segments[t]
  /\ seg' = [seg EXCEPT ![t] = @ + 1]
  /\ stage' = [stage EXCEPT ![t] = "locking"]
  /\ lock' = NoCaller
  /\ UNCHANGED <<call, segments, completion, result, flight, alive, served, gaveUp>>

ReturnOk(t) ==
  /\ stage[t] = "waiting"
  /\ completion[t].done
  /\ ~ completion[t].failed
  /\ seg[t] = segments[t]
  /\ Return(t, "ok")
  /\ UNCHANGED <<flight, gaveUp>>

ReturnFailed(t) ==
  /\ stage[t] = "waiting"
  /\ completion[t].done
  /\ completion[t].failed
  /\ Return(t, "failed")
  /\ UNCHANGED <<flight, gaveUp>>

-----------------------------------------------------------------------------
(* Others *)

(* External: the device finishes a command, and SPDK will report it.       *)
DeviceDone(c, status) ==
  /\ c \in flight /\ c.status = "device"
  /\ flight' = (flight \ {c}) \cup {[c EXCEPT !.status = status]}
  /\ UNCHANGED <<lock, thread, completion, alive, served, gaveUp>>

(* poll_completions, by a thread that is in no call: with the lock free no *)
(* call waits, so every callback writes to a dead frame.                   *)
PollCompletions ==
  /\ alive
  /\ lock = NoCaller
  /\ Posted # {}
  /\ flight' = flight \ Posted
  /\ UNCHANGED <<lock, thread, completion, alive, served, gaveUp>>

(* The last owner drops the runtime; freeing the queue pair aborts what it *)
(* still holds.                                                            *)
DropRuntime ==
  /\ alive
  /\ \A t \in Callers : stage[t] = "idle"
  /\ alive' = FALSE
  /\ flight' = {}
  /\ UNCHANGED <<lock, thread, completion, served, gaveUp>>

CallStep(t) ==
  \/ \E n \in 1..MaxSegments : Begin(t, n)
  \/ Refuse(t)
  \/ Submit(t)
  \/ SubmitFails(t)
  \/ Poll(t)
  \/ PollFails(t)
  \/ TimeOut(t)
  \/ NextSegment(t)
  \/ ReturnOk(t)
  \/ ReturnFailed(t)

QueueNext ==
  \/ \E t \in Callers : CallStep(t)
  \/ \E c \in flight, status \in {"ok", "error"} : DeviceDone(c, status)
  \/ PollCompletions
  \/ DropRuntime

QueueSpec == QueueInit /\ [][QueueNext]_queueVars

(* A thread in the wait loop keeps running: it polls, and when the time is *)
(* over it looks at the clock.  Nothing is assumed of the device.          *)
FairQueueSpec ==
  /\ QueueSpec
  /\ \A t \in Callers :
       WF_queueVars(TimeOut(t) \/ NextSegment(t) \/ ReturnOk(t) \/ ReturnFailed(t))

-----------------------------------------------------------------------------
(* Properties *)

CommandType ==
  [thread : Callers, call : 1..MaxCalls, seg : 1..MaxSegments,
   status : {"device", "ok", "error"}]

(* Types of the calls, of the queue pair and of the histories.             *)
TypeOK ==
  /\ lock \in Callers \cup {NoCaller}
  /\ stage \in [Callers -> {"idle", "locking", "waiting"}]
  /\ call \in [Callers -> 0..MaxCalls]
  /\ segments \in [Callers -> 1..MaxSegments]
  /\ seg \in [Callers -> 1..MaxSegments]
  /\ completion \in [Callers -> [done : BOOLEAN, failed : BOOLEAN]]
  /\ result \in [Callers ->
       {"none", "ok", "failed", "timeout", "submit failed", "refused"}]
  /\ flight \in SUBSET CommandType
  /\ alive \in BOOLEAN
  /\ served \in [Callers -> SUBSET (1..MaxSegments)]
  /\ gaveUp \in [Callers -> BOOLEAN]

(* A call that returns Ok had every segment carried out by a command of    *)
(* its own; only on a thread with an abandoned command behind it can the   *)
(* completion of another call be taken for its own.                        *)
OkIsOwn ==
  [][\A t \in Callers :
       stage[t] # "idle" /\ stage'[t] = "idle" /\ result'[t] = "ok"
         => gaveUp[t] \/ served[t] = 1..segments[t]]_queueVars

(* The queue pair holds a command nobody waits for only if a call on that  *)
(* thread gave up: no Ok, no reported failure, no failed submission and no *)
(* early end of a readv or writev leaves one behind.                       *)
LeftoversAreAbandoned == \A c \in flight : Awaited(c) \/ gaveUp[c.thread]

(* The queue pair never stays locked, whatever the device does.            *)
LockIsReleased == \A t \in Callers : lock = t ~> lock # t

(* The SAFETY comments of submit_payload_io and native_io_completion: the  *)
(* completion context of every command SPDK holds lives until polling has  *)
(* observed the completion.                                                *)
ContextOutlivesCommand == \A c \in flight : Awaited(c)
=============================================================================
