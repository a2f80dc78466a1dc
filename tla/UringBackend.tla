---------------------------- MODULE UringBackend ----------------------------
(***************************************************************************)
(* bypass-io/src/backend/uring.rs: threads that submit one operation each  *)
(* to a shared io_uring behind a mutex and wait for a completion, and what *)
(* is left in the ring when a call returns early.                          *)
(*                                                                         *)
(* The kernel is external: it takes submissions in order, finishes each in *)
(* its own time, and its io_uring_enter may fail, take only some of the    *)
(* entries, or be interrupted by a signal while it waits.  An operation is *)
(* known by its token; the kernel owns its buffer until it is finished.    *)
(***************************************************************************)
EXTENDS Naturals, Sequences, FiniteSets, Functions

CONSTANTS
  Threads,
  NoThread,
  Entries,   \* size of the submission queue
  MaxCalls,  \* bound: calls of one thread
  Faults     \* which of "enter" and "signal" may happen

ASSUME NoThreadAssumption == NoThread \notin Threads
ASSUME BoundsAssumption == Entries \in Nat \ {0} /\ MaxCalls \in Nat
ASSUME FaultsAssumption == Faults \subseteq {"enter", "signal"}

VARIABLES
  nextToken,  \* the atomic counter next_token
  lock,       \* the holder of the mutex around the ring
  pc,         \* per thread: "idle", "locking", "entering" or "waiting"
  token,      \* per thread: the token of its last call
  calls,      \* per thread: its calls so far
  result,     \* per thread: "ok", "error", "nothing" to do, or none yet; and whose it is
  sq,         \* submission queue: tokens the kernel has not taken
  kernel,     \* tokens the kernel is working on
  cq,         \* completion queue: tokens finished and not yet read
  faults      \* history: how many faults there were

ring == <<sq, kernel, cq>>
vars == <<nextToken, lock, pc, token, calls, result, ring, faults>>

NoToken == 0

Init ==
  /\ nextToken = 1
  /\ lock = NoThread
  /\ pc = [t \in Threads |-> "idle"]
  /\ token = [t \in Threads |-> NoToken]
  /\ calls = [t \in Threads |-> 0]
  /\ result = [t \in Threads |-> [kind |-> "none", of |-> NoToken]]
  /\ sq = <<>>
  /\ kernel = {}
  /\ cq = <<>>
  /\ faults = 0

-----------------------------------------------------------------------------
(* A call that is answered before it takes a token.                        *)
AnswerAtOnce(t, kind) ==
  /\ pc[t] = "idle"
  /\ calls[t] < MaxCalls
  /\ calls' = [calls EXCEPT ![t] = @ + 1]
  /\ result' = [result EXCEPT ![t] = [kind |-> kind, of |-> NoToken]]
  /\ UNCHANGED <<nextToken, lock, pc, token, ring, faults>>

(* The methods of IoBackend refuse any target but a file descriptor.       *)
RefuseTarget(t) == AnswerAtOnce(t, "error")

(* libc_iovecs and libc_iovecs_mut: more vectors than a u32 can count.     *)
RefuseVectors(t) == AnswerAtOnce(t, "error")

(* readv_at and writev_at of no vectors: Ok(0), and no operation.          *)
NoVectors(t) == AnswerAtOnce(t, "nothing")

(* The token is taken, and the entry built, before the lock.               *)
TakeToken(t) ==
  /\ pc[t] = "idle"
  /\ calls[t] < MaxCalls
  /\ calls' = [calls EXCEPT ![t] = @ + 1]
  /\ token' = [token EXCEPT ![t] = nextToken]
  /\ nextToken' = nextToken + 1
  /\ pc' = [pc EXCEPT ![t] = "locking"]
  /\ UNCHANGED <<lock, result, ring, faults>>

Return(t, kind, of) ==
  /\ result' = [result EXCEPT ![t] = [kind |-> kind, of |-> of]]
  /\ pc' = [pc EXCEPT ![t] = "idle"]
  /\ lock' = NoThread
  /\ UNCHANGED <<nextToken, token, calls>>

Push(t) ==
  /\ pc[t] = "locking"
  /\ lock = NoThread
  /\ Len(sq) < Entries
  /\ lock' = t
  /\ sq' = Append(sq, token[t])
  /\ pc' = [pc EXCEPT ![t] = "entering"]
  /\ UNCHANGED <<nextToken, token, calls, result, kernel, cq, faults>>

WouldBlock(t) ==
  /\ pc[t] = "locking"
  /\ lock = NoThread
  /\ Len(sq) = Entries
  /\ Return(t, "error", NoToken)
  /\ UNCHANGED <<ring, faults>>

-----------------------------------------------------------------------------
(* submit_and_wait(1)                                                      *)

Enter(t) ==
  /\ pc[t] = "entering"
  /\ kernel' = kernel \cup Range(sq)
  /\ sq' = <<>>
  /\ pc' = [pc EXCEPT ![t] = "waiting"]
  /\ UNCHANGED <<nextToken, lock, token, calls, result, cq, faults>>

(* The call fails; the entry stays in the submission queue.                *)
EnterFails(t) ==
  /\ "enter" \in Faults
  /\ pc[t] = "entering"
  /\ Return(t, "error", NoToken)
  /\ faults' = faults + 1
  /\ UNCHANGED ring

(* Mutant: the first completion is taken, whosever it is.                  *)
ReapFirst(t) ==
  /\ cq' = IF cq = <<>> THEN <<>> ELSE Tail(cq)
  /\ \E kind \in IF cq = <<>> THEN {"error"} ELSE {"ok", "error"} :
       Return(t, kind, IF cq = <<>> THEN NoToken ELSE Head(cq))

(* Mutant: completions of other calls stay in the queue.                   *)
ReapOwnOnly(t) ==
  LET found == token[t] \in Range(cq)
  IN  /\ cq' = SelectSeq(cq, LAMBDA c : c # token[t])
      /\ \E kind \in IF found THEN {"ok", "error"} ELSE {"error"} :
           Return(t, kind, IF found THEN token[t] ELSE NoToken)

(* What the call finds in the completion queue: it reads up to its own     *)
(* token and throws away what was before, or reads everything.             *)
Reap(t) ==
  \/ /\ token[t] \notin Range(cq)
     /\ cq' = <<>>
     /\ Return(t, "error", NoToken)
  \/ \E k \in DOMAIN cq, kind \in {"ok", "error"} :
       /\ cq[k] = token[t]
       /\ \A j \in 1..(k - 1) : cq[j] # token[t]
       /\ cq' = SubSeq(cq, k + 1, Len(cq))
       /\ Return(t, kind, cq[k])

(* The kernel takes only some of the entries and does not wait.            *)
EnterPartly(t, n) ==
  /\ "enter" \in Faults
  /\ pc[t] = "entering"
  /\ n < Len(sq)
  /\ kernel' = kernel \cup Range(SubSeq(sq, 1, n))
  /\ sq' = SubSeq(sq, n + 1, Len(sq))
  /\ Reap(t)
  /\ faults' = faults + 1

(* Mutant: the call waits for two completions.                             *)
WakeOnTwo(t) ==
  /\ pc[t] = "waiting"
  /\ Len(cq) >= 2
  /\ Reap(t)
  /\ UNCHANGED <<sq, kernel, faults>>

(* Some operation, not always the call's own, has finished.                *)
Wake(t) ==
  /\ pc[t] = "waiting"
  /\ cq # <<>>
  /\ Reap(t)
  /\ UNCHANGED <<sq, kernel, faults>>

(* A signal ends the wait; the entries were taken, so it is no error.      *)
Interrupted(t) ==
  /\ "signal" \in Faults
  /\ pc[t] = "waiting"
  /\ cq = <<>>
  /\ Reap(t)
  /\ faults' = faults + 1
  /\ UNCHANGED <<sq, kernel>>

(* External: the kernel finishes an operation.                             *)
Finish(o) ==
  /\ o \in kernel
  /\ kernel' = kernel \ {o}
  /\ cq' = Append(cq, o)
  /\ UNCHANGED <<nextToken, lock, pc, token, calls, result, sq, faults>>

CallStep(t) ==
  \/ RefuseTarget(t) \/ RefuseVectors(t) \/ NoVectors(t)
  \/ TakeToken(t)
  \/ Push(t)
  \/ WouldBlock(t)
  \/ Enter(t)
  \/ EnterFails(t)
  \/ \E n \in 1..(Entries - 1) : EnterPartly(t, n)
  \/ Wake(t)
  \/ Interrupted(t)

Next ==
  \/ \E t \in Threads : CallStep(t)
  \/ \E o \in kernel : Finish(o)

Spec == Init /\ [][Next]_vars

(* A thread that holds the ring runs on, and the kernel finishes what it   *)
(* has taken.                                                              *)
FairSpec ==
  /\ Spec
  /\ \A t \in Threads : WF_vars(Enter(t)) /\ WF_vars(Wake(t))
  /\ WF_vars(\E o \in kernel : Finish(o))

-----------------------------------------------------------------------------
(* Properties *)

Tokens == 1..(Cardinality(Threads) * MaxCalls)

(* Types of the calls and of the ring.                                     *)
TypeOK ==
  /\ nextToken \in Tokens \cup {Cardinality(Threads) * MaxCalls + 1}
  /\ lock \in Threads \cup {NoThread}
  /\ pc \in [Threads -> {"idle", "locking", "entering", "waiting"}]
  /\ token \in [Threads -> Tokens \cup {NoToken}]
  /\ calls \in [Threads -> 0..MaxCalls]
  /\ result \in [Threads -> [kind : {"none", "ok", "error", "nothing"}, of : Tokens \cup {NoToken}]]
  /\ sq \in Seq(Tokens) /\ Len(sq) <= Entries
  /\ kernel \in SUBSET Tokens
  /\ cq \in Seq(Tokens)
  /\ faults \in Nat

(* A call that returns Ok returns the result of its own operation, which   *)
(* the kernel has finished and holds nothing of, whatever earlier calls    *)
(* left in the ring.                                                       *)
OkIsOwn ==
  \A t \in Threads :
    pc[t] = "idle" /\ result[t].kind = "ok" =>
      /\ result[t].of = token[t]
      /\ token[t] \notin kernel \cup Range(sq) \cup Range(cq)

(* Why a call cannot meet the result of another one: every token is taken  *)
(* once, so two calls never have the same one, and a token that is not yet *)
(* pushed is nowhere in the ring; in the ring it is in one place.          *)
InRing == Range(sq) \cup kernel \cup Range(cq)
TokensInv ==
  /\ \A t \in Threads : token[t] < nextToken
  /\ \A t, u \in Threads : t # u /\ token[t] = token[u] => token[t] = NoToken
  /\ \A t \in Threads : pc[t] = "locking" => token[t] # NoToken /\ token[t] \notin InRing
RingInv ==
  /\ InRing \subseteq 1..(nextToken - 1)
  /\ IsInjective(sq) /\ IsInjective(cq)
  /\ Range(sq) \cap kernel = {}
  /\ Range(sq) \cap Range(cq) = {}
  /\ kernel \cap Range(cq) = {}

(* The inductive invariant of the proofs.                                  *)
UringInv == TokensInv /\ RingInv /\ OkIsOwn

(* Operations in the ring that no call is waiting for.                     *)
Awaited(o) == \E t \in Threads : pc[t] \in {"entering", "waiting"} /\ token[t] = o
Leftovers == {o \in Range(sq) \cup kernel \cup Range(cq) : ~ Awaited(o)}

(* Each fault leaves at most one operation behind: a leftover may make a   *)
(* later call fail and be left behind in its turn, but then it is gone     *)
(* itself, and the ring does not fill up without new faults.               *)
LeftoversWithinFaults == Cardinality(Leftovers) <= faults

(* The ring never stays locked: every wait ends, though perhaps with the   *)
(* completion of another call.                                             *)
LockIsReleased == \A t \in Threads : lock = t ~> lock # t

(* The SAFETY comment of submit_and_wait: the borrowed buffer cannot be    *)
(* dropped while the kernel owns the operation.                            *)
BufferOutlivesOperation == \A o \in Range(sq) \cup kernel : Awaited(o)
=============================================================================
