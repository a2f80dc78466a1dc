----------------------------- MODULE SpdkProofs -----------------------------
(***************************************************************************)
(* Theorems about the SPDK backend.  First SpdkQueuePair, for every number *)
(* of threads, calls and segments and every set of faults; then BufPool,   *)
(* NvmeRequest and SpdkRuntime, for any number of threads and buffers, any *)
(* sizes, any namespaces and requests, and whatever calls of the system    *)
(* fail.  The two specifications share no variable.                        *)
(***************************************************************************)
EXTENDS SpdkQueuePair, SpdkRuntime, FunctionTheorems, FiniteSetTheorems,
        SequenceTheorems, WellFoundedInduction, TLAPS

-----------------------------------------------------------------------------
(* The inductive invariant.  Of a thread that never gave up it says where  *)
(* its one command is; of one that did, nothing but the types.             *)

(* The lock is held exactly through the wait for a completion.             *)
LockInv == \A t \in Callers : lock = t <=> stage[t] = "waiting"

CallInv == \A t \in Callers : stage[t] # "idle" => call[t] # 0

(* The queue pair holds at most one command of such a thread, and none     *)
(* once its completion is done.                                            *)
OneCommandInv ==
  \A c \in flight :
    ~ gaveUp[c.thread] =>
      /\ ~ completion[c.thread].done
      /\ \A d \in flight : d.thread = c.thread => d = c

(* The segments behind the present one were served, and the present one    *)
(* when its completion says so.                                            *)
ServedInv ==
  \A t \in Callers :
    ~ gaveUp[t] =>
      /\ stage[t] = "locking" => served[t] = 1..(seg[t] - 1)
      /\ stage[t] = "waiting" /\ ~ completion[t].done => served[t] = 1..(seg[t] - 1)
      /\ stage[t] = "waiting" /\ completion[t].done /\ ~ completion[t].failed
           => served[t] = 1..seg[t]

QueueInv ==
  /\ LockInv
  /\ CallInv
  /\ LeftoversAreAbandoned
  /\ OneCommandInv
  /\ ServedInv

-----------------------------------------------------------------------------
LEMMA InitQueueInv == QueueInit => TypeOK /\ QueueInv
BY NoCallerAssumption, BoundsAssumption
DEF QueueInit, TypeOK, QueueInv, LockInv, CallInv, LeftoversAreAbandoned, OneCommandInv,
    ServedInv, NotDone

(* A step of thread t leaves the locals and the histories of the others    *)
(* alone; what the invariant says of them goes on to hold.                 *)
Elsewhere(t) ==
  \A u \in Callers \ {t} :
    /\ stage'[u] = stage[u]
    /\ call'[u] = call[u]
    /\ seg'[u] = seg[u]
    /\ completion'[u] = completion[u]
    /\ served'[u] = served[u]
    /\ gaveUp'[u] = gaveUp[u]

(* The invariant, for the commands of thread t alone.                      *)
AbandonedOf(t) == \A c \in flight : c.thread = t => Awaited(c) \/ gaveUp[t]
OneCommandOf(t) ==
  ~ gaveUp[t] =>
    \A c \in flight : c.thread = t =>
      /\ ~ completion[t].done
      /\ \A d \in flight : d.thread = t => d = c
ServedOf(t) ==
  ~ gaveUp[t] =>
    /\ stage[t] = "locking" => served[t] = 1..(seg[t] - 1)
    /\ stage[t] = "waiting" /\ ~ completion[t].done => served[t] = 1..(seg[t] - 1)
    /\ stage[t] = "waiting" /\ completion[t].done /\ ~ completion[t].failed
         => served[t] = 1..seg[t]

LEMMA ByThread ==
  ASSUME TypeOK
  PROVE  /\ LeftoversAreAbandoned <=> \A t \in Callers : AbandonedOf(t)
         /\ OneCommandInv <=> \A t \in Callers : OneCommandOf(t)
         /\ ServedInv <=> \A t \in Callers : ServedOf(t)
<1>1. \A c \in flight : c.thread \in Callers
  BY DEF TypeOK, CommandType
<1>2. LeftoversAreAbandoned <=> \A t \in Callers : AbandonedOf(t)
  BY <1>1 DEF LeftoversAreAbandoned, AbandonedOf
<1>3. OneCommandInv <=> \A t \in Callers : OneCommandOf(t)
  BY <1>1 DEF OneCommandInv, OneCommandOf
<1>4. ServedInv <=> \A t \in Callers : ServedOf(t)
  BY DEF ServedInv, ServedOf
<1> QED BY <1>2, <1>3, <1>4

LEMMA ThreadStep ==
  ASSUME TypeOK, QueueInv, TypeOK', LockInv', NEW t \in Callers, Elsewhere(t),
         \A c \in flight' : c.thread # t => c \in flight,
         stage'[t] # "idle" => call'[t] # 0,
         AbandonedOf(t)', OneCommandOf(t)', ServedOf(t)'
  PROVE  QueueInv'
<1>1. CallInv'
  BY DEF QueueInv, CallInv, Elsewhere
<1>2. ASSUME NEW u \in Callers, u # t
      PROVE  AbandonedOf(u)' /\ OneCommandOf(u)' /\ ServedOf(u)'
  <2>1. \A c \in flight' : c.thread = u => c \in flight
    BY <1>2
  <2>2. AbandonedOf(u) /\ OneCommandOf(u) /\ ServedOf(u)
    BY ByThread DEF QueueInv
  <2>3. AbandonedOf(u)'
    BY <1>2, <2>1, <2>2 DEF AbandonedOf, Awaited, Command, CommandOf, Elsewhere
  <2>4. OneCommandOf(u)'
    BY <1>2, <2>1, <2>2 DEF OneCommandOf, Elsewhere
  <2>5. ServedOf(u)'
    BY <1>2, <2>2 DEF ServedOf, Elsewhere
  <2> QED BY <2>3, <2>4, <2>5
<1>3. LeftoversAreAbandoned' /\ OneCommandInv' /\ ServedInv'
  <2>1. \A u \in Callers : AbandonedOf(u)' /\ OneCommandOf(u)' /\ ServedOf(u)'
    BY <1>2
  <2>2. \A c \in flight' : c.thread \in Callers
    BY DEF TypeOK, CommandType
  <2>3. LeftoversAreAbandoned'
    BY <2>1, <2>2 DEF LeftoversAreAbandoned, AbandonedOf
  <2>4. OneCommandInv'
    BY <2>1, <2>2 DEF OneCommandInv, OneCommandOf
  <2>5. ServedInv'
    BY <2>1 DEF ServedInv, ServedOf
  <2> QED BY <2>3, <2>4, <2>5
<1> QED BY <1>1, <1>3 DEF QueueInv

(* The lock follows the program counter of the one thread that moves: it   *)
(* is taken as the wait begins, given back as it ends, or left alone.      *)
LEMMA LockStep ==
  ASSUME LockInv, NEW t \in Callers, Elsewhere(t),
         \/ stage[t] = "waiting" /\ stage'[t] # "waiting" /\ lock' = NoCaller
         \/ stage[t] # "waiting" /\ stage'[t] # "waiting" /\ lock' = lock
         \/ lock = NoCaller /\ stage'[t] = "waiting" /\ lock' = t
  PROVE  LockInv'
<1> SUFFICES ASSUME NEW u \in Callers PROVE (lock' = u) <=> (stage'[u] = "waiting")
  BY DEF LockInv
<1>1. (lock = u <=> stage[u] = "waiting") /\ (lock = t <=> stage[t] = "waiting")
  BY DEF LockInv
<1>2. u # NoCaller /\ t # NoCaller
  BY NoCallerAssumption
<1>3. CASE u = t
  BY <1>1, <1>2, <1>3
<1>4. CASE u # t
  <2>1. stage'[u] = stage[u]
    BY <1>4 DEF Elsewhere
  <2> QED BY <1>1, <1>2, <1>4, <2>1
<1> QED BY <1>3, <1>4

-----------------------------------------------------------------------------
LEMMA BeginKeeps ==
  ASSUME TypeOK, QueueInv, NEW t \in Callers, NEW n \in 1..MaxSegments, Begin(t, n)
  PROVE  (TypeOK /\ QueueInv)'
<1>1. call[t] \in 0..MaxCalls /\ call[t] < MaxCalls
  BY DEF TypeOK, Begin
<1>2. call[t] + 1 \in 0..MaxCalls /\ call[t] + 1 # 0 /\ 1 \in 1..MaxSegments
  BY <1>1, BoundsAssumption
<1>3. TypeOK'
  BY <1>2 DEF TypeOK, Begin
<1>4. LockInv' /\ Elsewhere(t)
  <2>1. Elsewhere(t)
    BY DEF TypeOK, Begin, Elsewhere
  <2>2. stage[t] # "waiting" /\ stage'[t] # "waiting" /\ lock' = lock
    BY DEF TypeOK, Begin
  <2> QED BY <2>1, <2>2, LockStep DEF QueueInv
<1>5. call'[t] # 0
  BY <1>2 DEF TypeOK, Begin
<1>6. AbandonedOf(t)' /\ OneCommandOf(t)'
  <2>1. \A c \in flight : c.thread = t => gaveUp[t]
    BY DEF Begin, QueueInv, LeftoversAreAbandoned, Awaited
  <2> QED BY <2>1 DEF AbandonedOf, OneCommandOf, Begin
<1>7. ServedOf(t)'
  <2>1. served'[t] = {} /\ seg'[t] = 1 /\ stage'[t] = "locking"
    BY DEF TypeOK, Begin
  <2>2. 1..(1 - 1) = {}
    OBVIOUS
  <2> QED BY <2>1, <2>2 DEF ServedOf
<1> QED BY <1>3, <1>4, <1>5, <1>6, <1>7, ThreadStep DEF Begin

(* A call that ends before it submits leaves no command behind.            *)
LEMMA RefusalsKeep ==
  ASSUME TypeOK, QueueInv, NEW t \in Callers, Refuse(t) \/ SubmitFails(t)
  PROVE  (TypeOK /\ QueueInv)'
<1> USE DEF Refuse, SubmitFails, Return
<1>1. TypeOK'
  BY DEF TypeOK
<1>2. LockInv' /\ Elsewhere(t)
  <2>1. Elsewhere(t)
    BY DEF TypeOK, Elsewhere
  <2>2. stage[t] # "waiting" /\ stage'[t] # "waiting" /\ lock' = lock
    BY NoCallerAssumption DEF TypeOK, QueueInv, LockInv
  <2> QED BY <2>1, <2>2, LockStep DEF QueueInv
<1>3. AbandonedOf(t)' /\ OneCommandOf(t)'
  <2>1. \A c \in flight : c.thread = t => gaveUp[t]
    BY DEF QueueInv, LeftoversAreAbandoned, Awaited
  <2> QED BY <2>1 DEF AbandonedOf, OneCommandOf
<1>4. stage'[t] = "idle" /\ flight' = flight
  BY DEF TypeOK
<1>5. ServedOf(t)'
  BY <1>4 DEF ServedOf
<1> QED BY <1>1, <1>2, <1>3, <1>4, <1>5, ThreadStep

LEMMA SubmitKeeps ==
  ASSUME TypeOK, QueueInv, NEW t \in Callers, Submit(t)
  PROVE  (TypeOK /\ QueueInv)'
<1> DEFINE new == [thread |-> t, call |-> call[t], seg |-> seg[t], status |-> "device"]
<1>1. TypeOK'
  <2>1. call[t] \in 0..MaxCalls /\ call[t] # 0 /\ seg[t] \in 1..MaxSegments
    BY DEF TypeOK, Submit, QueueInv, CallInv
  <2>2. new \in CommandType
    BY <2>1, BoundsAssumption DEF CommandType
  <2> QED BY <2>2 DEF TypeOK, Submit, NotDone
<1>2. LockInv' /\ Elsewhere(t)
  <2>1. Elsewhere(t)
    BY DEF TypeOK, Submit, Elsewhere
  <2>2. lock = NoCaller /\ stage'[t] = "waiting" /\ lock' = t
    BY DEF TypeOK, Submit
  <2> QED BY <2>1, <2>2, LockStep DEF QueueInv
<1>3. /\ stage'[t] = "waiting" /\ call'[t] # 0 /\ ~ completion'[t].done
      /\ flight' = flight \cup {new} /\ gaveUp' = gaveUp
      /\ call' = call /\ seg' = seg /\ served' = served
  BY DEF TypeOK, Submit, NotDone, QueueInv, CallInv
<1>4. \A c \in flight : c.thread = t => gaveUp[t]
  BY DEF Submit, QueueInv, LeftoversAreAbandoned, Awaited
<1>5. AbandonedOf(t)'
  BY <1>3, <1>4 DEF AbandonedOf, Awaited, Command, CommandOf
<1>6. OneCommandOf(t)'
  BY <1>3, <1>4 DEF OneCommandOf
<1>7. ServedOf(t)'
  BY <1>3 DEF ServedOf, Submit, QueueInv, ServedInv
<1>8. \A c \in flight' : c.thread # t => c \in flight
  BY <1>3
<1> QED BY <1>1, <1>2, <1>3, <1>5, <1>6, <1>7, <1>8, ThreadStep

-----------------------------------------------------------------------------
(* A thread that never gave up and waits can only be woken by its own      *)
(* command, since nothing else of it is in the queue pair.                 *)
LEMMA WakesAreOwn ==
  ASSUME TypeOK, QueueInv, NEW t \in Callers, ~ gaveUp[t]
  PROVE  Leftovers(t) = {}
BY DEF Leftovers, Posted, QueueInv, LeftoversAreAbandoned

LEMMA PollKeeps ==
  ASSUME TypeOK, QueueInv, NEW t \in Callers, Poll(t)
  PROVE  (TypeOK /\ QueueInv)'
<1> DEFINE own == {c \in Posted : Awaited(c)}
           oks == {d \in Posted : Awaited(d) /\ d.status = "ok"}
           done(c) == [done |-> TRUE, failed |-> c.status = "error"]
<1>1. \A c \in own :
        c \in flight /\ c \in CommandType /\ c.thread = t /\ c.seg = seg[t]
  <2> SUFFICES ASSUME NEW c \in own PROVE c \in CommandType /\ c.thread = t /\ c.seg = seg[t]
    BY DEF Posted
  <2>1. c \in CommandType /\ stage[c.thread] = "waiting" /\ CommandOf(c) = Command(c.thread)
    BY DEF Posted, Awaited, TypeOK
  <2>2. c.thread = t
    BY <2>1 DEF Poll, QueueInv, LockInv, CommandType
  <2> QED BY <2>1, <2>2 DEF Command, CommandOf
<1>2. /\ stage[t] = "waiting" /\ ~ completion[t].done /\ flight' = flight \ Posted
      /\ stage' = stage /\ call' = call /\ seg' = seg /\ lock' = lock /\ gaveUp' = gaveUp
      /\ segments' = segments /\ result' = result /\ alive' = alive
  BY DEF Poll, thread
<1>3. \/ completion' = completion
      \/ \E final \in Posted : completion' = [completion EXCEPT ![t] = done(final)]
  BY DEF Poll, Leftovers
<1>4. served' = [served EXCEPT ![t] = @ \cup {c.seg : c \in oks}]
  BY DEF Poll
<1>5. TypeOK'
  <2>1. \A c : done(c) \in [done : BOOLEAN, failed : BOOLEAN]
    <3> TAKE c
    <3>1. (c.status = "error") \in BOOLEAN
      OBVIOUS
    <3> QED BY <3>1
  <2>2. completion' \in [Callers -> [done : BOOLEAN, failed : BOOLEAN]]
    BY <1>3, <2>1 DEF TypeOK
  <2>3. {c.seg : c \in oks} \subseteq 1..MaxSegments
    BY <1>1 DEF CommandType
  <2>4. served' \in [Callers -> SUBSET (1..MaxSegments)]
    BY <1>4, <2>3 DEF TypeOK
  <2> QED BY <1>2, <2>2, <2>4 DEF TypeOK
<1>6. LockInv'
  BY <1>2 DEF QueueInv, LockInv
<1>7. Elsewhere(t)
  BY <1>2, <1>3, <1>4 DEF Elsewhere, TypeOK
<1>8. AbandonedOf(t)'
  BY <1>2 DEF AbandonedOf, Awaited, Command, CommandOf, QueueInv, LeftoversAreAbandoned
<1>9. ASSUME ~ gaveUp[t]
      PROVE  \/ own = {} /\ completion' = completion
             \/ \E final \in own : completion' = [completion EXCEPT ![t] = done(final)]
  BY <1>9, WakesAreOwn DEF Poll
<1>10. ASSUME ~ gaveUp[t], NEW c \in flight, c.thread = t, NEW d \in flight, d.thread = t
       PROVE  c = d
  BY <1>10 DEF QueueInv, OneCommandInv
<1>11. OneCommandOf(t)'
  <2> SUFFICES ASSUME ~ gaveUp[t], NEW c \in flight', c.thread = t
               PROVE  /\ ~ completion'[t].done
                      /\ \A d \in flight' : d.thread = t => d = c
    BY <1>2 DEF OneCommandOf
  <2>1. own = {}
    BY <1>1, <1>2, <1>10
  <2> QED BY <2>1, <1>2, <1>9, <1>10
<1>12. ServedOf(t)'
  <2> SUFFICES ASSUME ~ gaveUp[t]
               PROVE  /\ ~ completion'[t].done => served'[t] = 1..(seg[t] - 1)
                      /\ completion'[t].done /\ ~ completion'[t].failed
                           => served'[t] = 1..seg[t]
    BY <1>2 DEF ServedOf
  <2>1. served[t] = 1..(seg[t] - 1)
    BY <1>2 DEF QueueInv, ServedInv
  <2>2. served'[t] = served[t] \cup {c.seg : c \in oks}
    BY <1>4 DEF TypeOK
  <2>3. CASE own = {} /\ completion' = completion
    <3>1. oks = {}
      BY <2>3
    <3> QED BY <3>1, <2>1, <2>2, <2>3, <1>2
  <2>4. ASSUME NEW final \in own, completion' = [completion EXCEPT ![t] = done(final)]
        PROVE  /\ ~ completion'[t].done => served'[t] = 1..(seg[t] - 1)
               /\ completion'[t].done /\ ~ completion'[t].failed
                    => served'[t] = 1..seg[t]
    <3>1. completion'[t] = done(final)
      BY <2>4 DEF TypeOK
    <3>2. CASE final.status = "error"
      <4>1. (final.status = "error") = TRUE
        BY <3>2
      <4>2. completion'[t] = [done |-> TRUE, failed |-> TRUE]
        BY <3>1, <4>1
      <4>3. completion'[t].done /\ completion'[t].failed
        BY <4>2
      <4> QED BY <4>3
    <3>3. CASE final.status # "error"
      <4>1. final \in oks
        BY <3>3, <1>1 DEF Posted, CommandType
      <4>2. \A c \in oks : c.seg = seg[t]
        BY <1>1
      <4>3. {c.seg : c \in oks} = {seg[t]}
        BY <4>1, <4>2
      <4>4. seg[t] \in 1..MaxSegments
        BY DEF TypeOK
      <4>5. 1..(seg[t] - 1) \cup {seg[t]} = 1..seg[t]
        BY <4>4, BoundsAssumption
      <4> QED BY <4>3, <4>5, <2>1, <2>2, <3>1
    <3> QED BY <3>2, <3>3
  <2> QED BY <1>9, <2>3, <2>4
<1>13. \A c \in flight' : c.thread # t => c \in flight
  BY <1>2
<1>14. stage'[t] # "idle" => call'[t] # 0
  BY <1>2 DEF QueueInv, CallInv
<1> QED BY <1>5, <1>6, <1>7, <1>8, <1>11, <1>12, <1>13, <1>14, ThreadStep

-----------------------------------------------------------------------------
(* The two ways to give up.                                                *)
LEMMA GivingUpKeeps ==
  ASSUME TypeOK, QueueInv, NEW t \in Callers, PollFails(t) \/ TimeOut(t)
  PROVE  (TypeOK /\ QueueInv)'
<1> USE DEF PollFails, TimeOut, Return
<1>1. TypeOK'
  BY DEF TypeOK
<1>2. LockInv' /\ Elsewhere(t)
  <2>1. Elsewhere(t)
    BY DEF TypeOK, Elsewhere
  <2>2. stage[t] = "waiting" /\ stage'[t] # "waiting" /\ lock' = NoCaller
    BY DEF TypeOK, QueueInv, LockInv
  <2> QED BY <2>1, <2>2, LockStep DEF QueueInv
<1>3. stage'[t] = "idle" /\ flight' = flight /\ gaveUp'[t]
  BY DEF TypeOK
<1>4. AbandonedOf(t)' /\ OneCommandOf(t)' /\ ServedOf(t)'
  BY <1>3 DEF AbandonedOf, OneCommandOf, ServedOf
<1> QED BY <1>1, <1>2, <1>3, <1>4, ThreadStep

(* The completion is done, so the command is no longer held.               *)
LEMMA DoneHoldsNothing ==
  ASSUME TypeOK, QueueInv, NEW t \in Callers, completion[t].done,
         NEW c \in flight, c.thread = t
  PROVE  gaveUp[t]
BY DEF QueueInv, OneCommandInv

LEMMA NextSegmentKeeps ==
  ASSUME TypeOK, QueueInv, NEW t \in Callers, NextSegment(t)
  PROVE  (TypeOK /\ QueueInv)'
<1>1. /\ seg[t] \in 1..MaxSegments /\ segments[t] \in 1..MaxSegments /\ seg[t] < segments[t]
  BY DEF TypeOK, NextSegment
<1>2. seg[t] + 1 \in 1..MaxSegments /\ (seg[t] + 1) - 1 = seg[t]
  BY <1>1, BoundsAssumption
<1>3. TypeOK'
  BY <1>2 DEF TypeOK, NextSegment
<1>4. LockInv' /\ Elsewhere(t)
  <2>1. Elsewhere(t)
    BY DEF TypeOK, NextSegment, Elsewhere
  <2>2. stage[t] = "waiting" /\ stage'[t] # "waiting" /\ lock' = NoCaller
    BY DEF TypeOK, NextSegment
  <2> QED BY <2>1, <2>2, LockStep DEF QueueInv
<1>5. /\ stage'[t] = "locking" /\ seg'[t] = seg[t] + 1 /\ flight' = flight /\ gaveUp' = gaveUp
      /\ call' = call /\ served' = served /\ stage[t] = "waiting"
      /\ completion[t].done /\ ~ completion[t].failed
  BY DEF TypeOK, NextSegment
<1>6. AbandonedOf(t)' /\ OneCommandOf(t)'
  BY <1>5, DoneHoldsNothing DEF AbandonedOf, OneCommandOf
<1>7. ServedOf(t)'
  BY <1>2, <1>5 DEF ServedOf, QueueInv, ServedInv
<1>8. call'[t] # 0
  BY <1>5 DEF QueueInv, CallInv
<1> QED BY <1>3, <1>4, <1>5, <1>6, <1>7, <1>8, ThreadStep

LEMMA ReturnsKeep ==
  ASSUME TypeOK, QueueInv, NEW t \in Callers, ReturnOk(t) \/ ReturnFailed(t)
  PROVE  (TypeOK /\ QueueInv)'
<1> USE DEF ReturnOk, ReturnFailed, Return
<1>1. TypeOK'
  BY DEF TypeOK
<1>2. Elsewhere(t)
  BY DEF TypeOK, Elsewhere
<1>3. LockInv'
  <2>1. stage[t] = "waiting" /\ stage'[t] # "waiting" /\ lock' = NoCaller
    BY DEF TypeOK, QueueInv, LockInv
  <2> QED BY <1>2, <2>1, LockStep DEF QueueInv
<1>4. stage'[t] = "idle" /\ flight' = flight /\ gaveUp' = gaveUp /\ completion[t].done
  BY DEF TypeOK
<1>5. AbandonedOf(t)' /\ OneCommandOf(t)'
  BY <1>4, DoneHoldsNothing DEF AbandonedOf, OneCommandOf
<1>6. ServedOf(t)'
  BY <1>4 DEF ServedOf
<1> QED BY <1>1, <1>2, <1>3, <1>4, <1>5, <1>6, ThreadStep

-----------------------------------------------------------------------------
LEMMA DeviceDoneKeeps ==
  ASSUME TypeOK, QueueInv, NEW c \in flight, NEW s \in {"ok", "error"}, DeviceDone(c, s)
  PROVE  (TypeOK /\ QueueInv)'
<1> USE DEF TypeOK, QueueInv, DeviceDone, thread
<1> DEFINE posted == [c EXCEPT !.status = s]
<1>1. /\ posted \in CommandType /\ posted.thread = c.thread
      /\ CommandOf(posted) = CommandOf(c)
  BY DEF CommandType, CommandOf
<1>2. TypeOK'
  BY <1>1
<1>3. LockInv' /\ CallInv'
  BY DEF LockInv, CallInv
<1>4. LeftoversAreAbandoned'
  <2>1. \A d \in flight : Awaited(d)' <=> Awaited(d)
    BY DEF Awaited, Command, CommandOf
  <2>2. Awaited(posted)' <=> Awaited(c)
    BY <1>1 DEF Awaited, Command, CommandOf
  <2> QED BY <1>1, <2>1, <2>2 DEF LeftoversAreAbandoned
<1>5. OneCommandInv'
  <2> SUFFICES ASSUME NEW d \in flight', ~ gaveUp[d.thread]
               PROVE  /\ ~ completion[d.thread].done
                      /\ \A e \in flight' : e.thread = d.thread => e = d
    BY DEF OneCommandInv
  <2> DEFINE before(x) == IF x = posted THEN c ELSE x
  <2>1. \A x \in flight' : before(x) \in flight /\ before(x).thread = x.thread
    BY <1>1
  <2>2. ~ completion[d.thread].done
    BY <2>1 DEF OneCommandInv
  <2>3. ASSUME NEW e \in flight', e.thread = d.thread PROVE e = d
    <3>1. before(e) = before(d)
      BY <2>1, <2>3 DEF OneCommandInv
    <3> QED BY <3>1, <1>1
  <2> QED BY <2>2, <2>3
<1>6. ServedInv'
  BY DEF ServedInv
<1> QED BY <1>2, <1>3, <1>4, <1>5, <1>6

LEMMA OthersKeep ==
  ASSUME TypeOK, QueueInv, PollCompletions \/ DropRuntime
  PROVE  (TypeOK /\ QueueInv)'
<1> USE DEF TypeOK, QueueInv, PollCompletions, DropRuntime, thread
<1>1. TypeOK'
  OBVIOUS
<1>2. LockInv' /\ CallInv'
  BY DEF LockInv, CallInv
<1>3. LeftoversAreAbandoned'
  <2>1. flight' \subseteq flight /\ stage' = stage /\ call' = call /\ seg' = seg /\ gaveUp' = gaveUp
    OBVIOUS
  <2>2. \A c \in flight : Awaited(c)' <=> Awaited(c)
    BY <2>1 DEF Awaited, Command, CommandOf
  <2> QED BY <2>1, <2>2 DEF LeftoversAreAbandoned
<1>4. OneCommandInv'
  BY DEF OneCommandInv
<1>5. ServedInv'
  BY DEF ServedInv
<1> QED BY <1>1, <1>2, <1>3, <1>4, <1>5

LEMMA QueueStep ==
  ASSUME TypeOK, QueueInv, [QueueNext]_queueVars
  PROVE  (TypeOK /\ QueueInv)'
<1>1. ASSUME NEW t \in Callers, CallStep(t) PROVE (TypeOK /\ QueueInv)'
  BY <1>1, BeginKeeps, RefusalsKeep, SubmitKeeps, PollKeeps, GivingUpKeeps,
     NextSegmentKeeps, ReturnsKeep DEF CallStep
<1>2. CASE \E c \in flight, status \in {"ok", "error"} : DeviceDone(c, status)
  BY <1>2, DeviceDoneKeeps
<1>3. CASE PollCompletions \/ DropRuntime
  BY <1>3, OthersKeep
<1>4. CASE UNCHANGED queueVars
  BY <1>4 DEF queueVars, thread, TypeOK, QueueInv, LockInv, CallInv, LeftoversAreAbandoned,
              OneCommandInv, ServedInv, Awaited, Command, CommandOf
<1> QED BY <1>1, <1>2, <1>3, <1>4 DEF QueueNext

-----------------------------------------------------------------------------
(* Types and the place of every thread's command, whatever fails.          *)
THEOREM QueueInvariant == QueueSpec => [](TypeOK /\ QueueInv)
<1>1. QueueInit => TypeOK /\ QueueInv
  BY InitQueueInv
<1>2. TypeOK /\ QueueInv /\ [QueueNext]_queueVars => (TypeOK /\ QueueInv)'
  BY QueueStep
<1> QED BY <1>1, <1>2, PTL DEF QueueSpec

(* The calls, the queue pair and the histories keep their types.           *)
THEOREM TypeCorrect == QueueSpec => []TypeOK
BY QueueInvariant, PTL

(* Only a call that timed out or whose poll failed leaves a command behind *)
(* in the queue pair.                                                      *)
THEOREM LeftoversCorrect == QueueSpec => []LeftoversAreAbandoned
<1>1. QueueInv => LeftoversAreAbandoned
  BY DEF QueueInv
<1> QED BY <1>1, QueueInvariant, PTL

(* An Ok stands for commands of the call itself, one per segment, on every *)
(* thread that never gave up a call before.                                *)
THEOREM OkCorrect == QueueSpec => OkIsOwn
<1>1. TypeOK /\ QueueInv /\ [QueueNext]_queueVars =>
        [\A t \in Callers :
           stage[t] # "idle" /\ stage'[t] = "idle" /\ result'[t] = "ok"
             => gaveUp[t] \/ served[t] = 1..segments[t]]_queueVars
  <2> SUFFICES ASSUME TypeOK, QueueInv, QueueNext, NEW t \in Callers,
                      stage[t] # "idle", stage'[t] = "idle", result'[t] = "ok", ~ gaveUp[t]
               PROVE  served[t] = 1..segments[t]
    OBVIOUS
  <2>1. ReturnOk(t)
    <3>1. ASSUME NEW u \in Callers, CallStep(u) PROVE ReturnOk(t)
      <4>1. u = t
        BY <3>1 DEF TypeOK, CallStep, Begin, Refuse, Submit, SubmitFails, Poll, PollFails,
                    TimeOut, NextSegment, ReturnOk, ReturnFailed, Return, thread
      <4>2. ~ Refuse(t) /\ ~ SubmitFails(t) /\ ~ PollFails(t) /\ ~ TimeOut(t) /\ ~ ReturnFailed(t)
        BY DEF TypeOK, Refuse, SubmitFails, PollFails, TimeOut, ReturnFailed, Return
      <4>3. ~ Submit(t) /\ ~ Poll(t) /\ ~ NextSegment(t)
        BY DEF TypeOK, Submit, Poll, NextSegment, thread
      <4>4. \A n \in 1..MaxSegments : ~ Begin(t, n)
        BY DEF TypeOK, Begin
      <4> QED BY <3>1, <4>1, <4>2, <4>3, <4>4 DEF CallStep
    <3>2. stage' = stage => FALSE
      OBVIOUS
    <3>3. PollCompletions \/ DropRuntime \/ (\E c \in flight, s \in {"ok", "error"} : DeviceDone(c, s))
            => stage' = stage
      BY DEF PollCompletions, DropRuntime, DeviceDone, thread
    <3> QED BY <3>1, <3>2, <3>3 DEF QueueNext
  <2> QED BY <2>1 DEF ReturnOk, QueueInv, ServedInv
<1> QED BY <1>1, QueueInvariant, PTL DEF OkIsOwn, QueueSpec

-----------------------------------------------------------------------------
(* Sequences without repetitions. *)

LEMMA AppendNew ==
  ASSUME NEW S, NEW s \in Seq(S), NEW x \in S, IsInjective(s), x \notin ToSet(s)
  PROVE  /\ Append(s, x) \in Seq(S)
         /\ IsInjective(Append(s, x))
         /\ ToSet(Append(s, x)) = ToSet(s) \cup {x}
         /\ Len(Append(s, x)) = Len(s) + 1
<1> DEFINE r == Append(s, x)
           n == Len(s)
<1>1. /\ r \in Seq(S) /\ n \in Nat /\ Len(r) = n + 1 /\ DOMAIN r = 1..(n + 1)
      /\ DOMAIN s = 1..n
      /\ r[n + 1] = x /\ \A i \in 1..n : r[i] = s[i]
  OBVIOUS
<1> HIDE DEF r, n
<1>2. \A i \in 1..n : s[i] \in ToSet(s)
  BY <1>1 DEF ToSet
<1>3. \A i \in 1..(n + 1) : i = n + 1 \/ i \in 1..n
  BY <1>1
<1>4. IsInjective(r)
  BY <1>1, <1>2, <1>3 DEF IsInjective
<1>5. ToSet(r) = ToSet(s) \cup {x}
  <2>1. \A y \in ToSet(r) : y \in ToSet(s) \cup {x}
    BY <1>1, <1>2, <1>3 DEF ToSet
  <2>2. \A y \in ToSet(s) : y \in ToSet(r)
    <3>1. \A i \in 1..n : i \in 1..(n + 1)
      BY <1>1
    <3> QED BY <1>1, <3>1 DEF ToSet
  <2>3. x \in ToSet(r)
    <3>1. n + 1 \in 1..(n + 1)
      BY <1>1
    <3> QED BY <1>1, <3>1 DEF ToSet
  <2> QED BY <2>1, <2>2, <2>3
<1> QED BY <1>1, <1>4, <1>5 DEF r, n

LEMMA RemoveOne ==
  ASSUME NEW S, NEW s \in Seq(S), IsInjective(s), NEW i \in DOMAIN s
  PROVE  /\ RemoveAt(s, i) \in Seq(S)
         /\ IsInjective(RemoveAt(s, i))
         /\ ToSet(RemoveAt(s, i)) = ToSet(s) \ {s[i]}
         /\ Len(RemoveAt(s, i)) = Len(s) - 1
<1> DEFINE r == RemoveAt(s, i)
           n == Len(s)
           back(k) == IF k < i THEN k ELSE k + 1
<1>1. n \in Nat /\ DOMAIN s = 1..n /\ i \in 1..n /\ i \in Nat
  OBVIOUS
<1>2. /\ SubSeq(s, 1, i - 1) \in Seq(S) /\ Len(SubSeq(s, 1, i - 1)) = i - 1
      /\ SubSeq(s, i + 1, n) \in Seq(S) /\ Len(SubSeq(s, i + 1, n)) = n - i
      /\ \A k \in 1..(i - 1) : SubSeq(s, 1, i - 1)[k] = s[k]
      /\ \A k \in 1..(n - i) : SubSeq(s, i + 1, n)[k] = s[k + i]
  <2>1. /\ SubSeq(s, 1, i - 1) \in Seq(S)
        /\ Len(SubSeq(s, 1, i - 1)) = IF 1 <= i - 1 THEN i - 1 - 1 + 1 ELSE 0
        /\ \A k \in 1..(i - 1 - 1 + 1) : SubSeq(s, 1, i - 1)[k] = s[1 + k - 1]
    <3>1. 1 \in Int /\ i - 1 \in Int /\ \A k \in 1..(i - 1) : s[k] \in S
      BY <1>1
    <3> QED BY <3>1, SubSeqProperties
  <2>2. /\ SubSeq(s, i + 1, n) \in Seq(S)
        /\ Len(SubSeq(s, i + 1, n)) = IF i + 1 <= n THEN n - (i + 1) + 1 ELSE 0
        /\ \A k \in 1..(n - (i + 1) + 1) : SubSeq(s, i + 1, n)[k] = s[(i + 1) + k - 1]
    <3>1. i + 1 \in Int /\ n \in Int /\ \A k \in (i + 1)..n : s[k] \in S
      BY <1>1
    <3> QED BY <3>1, SubSeqProperties
  <2>3. /\ i - 1 - 1 + 1 = i - 1 /\ n - (i + 1) + 1 = n - i
        /\ (1 <= i - 1 \/ i - 1 = 0) /\ (i + 1 <= n \/ n - i = 0)
    BY ONLY <1>1
  <2>4. Len(SubSeq(s, 1, i - 1)) = i - 1 /\ Len(SubSeq(s, i + 1, n)) = n - i
    BY ONLY <2>1, <2>2, <2>3
  <2>5. /\ \A k \in 1..(i - 1) : SubSeq(s, 1, i - 1)[k] = s[k]
        /\ \A k \in 1..(n - i) : SubSeq(s, i + 1, n)[k] = s[k + i]
    <3>1. ASSUME NEW k \in 1..(i - 1) PROVE SubSeq(s, 1, i - 1)[k] = s[k]
      <4>1. k \in 1..(i - 1 - 1 + 1) /\ 1 + k - 1 = k
        BY ONLY <1>1, k \in 1..(i - 1)
      <4> QED BY ONLY <2>1, <4>1
    <3>2. ASSUME NEW k \in 1..(n - i) PROVE SubSeq(s, i + 1, n)[k] = s[k + i]
      <4>1. k \in 1..(n - (i + 1) + 1) /\ (i + 1) + k - 1 = k + i
        BY ONLY <1>1, k \in 1..(n - i)
      <4> QED BY ONLY <2>2, <4>1
    <3> QED BY ONLY <3>1, <3>2
  <2> QED BY <2>1, <2>2, <2>4, <2>5
<1>3. /\ r \in Seq(S) /\ Len(r) = n - 1
      /\ \A k \in 1..(n - 1) : r[k] = s[back(k)]
  <2> DEFINE a == SubSeq(s, 1, i - 1)
             b == SubSeq(s, i + 1, n)
  <2>1. /\ a \o b \in Seq(S) /\ Len(a \o b) = Len(a) + Len(b)
        /\ \A k \in 1..(Len(a) + Len(b)) :
             (a \o b)[k] = IF k <= Len(a) THEN a[k] ELSE b[k - Len(a)]
    BY <1>2, ConcatProperties
  <2>2. r = a \o b
    BY DEF RemoveAt
  <2>3. Len(a) = i - 1 /\ Len(b) = n - i /\ Len(a) + Len(b) = n - 1
    BY <1>1, <1>2
  <2>4. ASSUME NEW k \in 1..(n - 1) PROVE r[k] = s[back(k)]
    <3>1. CASE k < i
      <4>1. k <= i - 1 /\ k \in 1..(i - 1)
        BY <1>1, <3>1
      <4> QED BY <1>2, <2>1, <2>2, <2>3, <3>1, <4>1
    <3>2. CASE ~ (k < i)
      <4>1. ~ (k <= i - 1) /\ k - (i - 1) \in 1..(n - i) /\ (k - (i - 1)) + i = k + 1
        BY <1>1, <3>2
      <4> HIDE DEF a, b, r
      <4>2. r[k] = b[k - (i - 1)]
        BY <2>1, <2>2, <2>3, <4>1
      <4>3. b[k - (i - 1)] = s[(k - (i - 1)) + i]
        BY <1>2, <4>1 DEF b
      <4> QED BY <3>2, <4>1, <4>2, <4>3
    <3> QED BY <3>1, <3>2
  <2> QED BY <2>1, <2>2, <2>3, <2>4
<1> HIDE DEF r, n
<1>4. DOMAIN r = 1..(n - 1)
  BY <1>3
<1>5. /\ \A k \in 1..(n - 1) : back(k) \in 1..n /\ back(k) # i
      /\ \A k, l \in 1..(n - 1) : back(k) = back(l) => k = l
      /\ \A k \in 1..n : k # i => \E l \in 1..(n - 1) : back(l) = k
  <2>1. \A k \in 1..(n - 1) : back(k) \in 1..n /\ back(k) # i
    BY <1>1
  <2>2. \A k, l \in 1..(n - 1) : back(k) = back(l) => k = l
    BY <1>1
  <2>3. ASSUME NEW k \in 1..n, k # i PROVE \E l \in 1..(n - 1) : back(l) = k
    <3>1. CASE k < i
      <4>1. k \in 1..(n - 1) /\ back(k) = k
        BY <1>1, <3>1
      <4> QED BY <4>1
    <3>2. CASE k > i
      <4>1. k - 1 \in 1..(n - 1) /\ back(k - 1) = k
        BY <1>1, <3>2
      <4> QED BY <4>1
    <3> QED BY <1>1, <2>3, <3>1, <3>2
  <2> QED BY <2>1, <2>2, <2>3
<1> HIDE DEF back
<1>6. IsInjective(r)
  BY <1>1, <1>3, <1>4, <1>5 DEF IsInjective
<1>7. ToSet(r) = ToSet(s) \ {s[i]}
  <2>1. ASSUME NEW k \in 1..(n - 1) PROVE r[k] \in ToSet(s) /\ r[k] # s[i]
    BY <1>1, <1>3, <1>5 DEF ToSet, IsInjective
  <2>2. ASSUME NEW k \in 1..n, s[k] # s[i] PROVE s[k] \in ToSet(r)
    <3>1. PICK l \in 1..(n - 1) : back(l) = k
      BY <1>5, <2>2
    <3> QED BY <1>3, <1>4, <3>1 DEF ToSet
  <2> QED BY <1>1, <1>4, <2>1, <2>2 DEF ToSet
<1> QED BY <1>3, <1>6, <1>7 DEF r, n

LEMMA TailOnce ==
  ASSUME NEW S, NEW s \in Seq(S), IsInjective(s), s # <<>>
  PROVE  /\ Tail(s) \in Seq(S)
         /\ IsInjective(Tail(s))
         /\ ToSet(Tail(s)) = ToSet(s) \ {Head(s)}
         /\ Len(Tail(s)) = Len(s) - 1
         /\ Head(s) \in ToSet(s) /\ Head(s) \in S
<1> DEFINE n == Len(s)
           r == Tail(s)
<1>1. /\ n \in Nat /\ n >= 1 /\ DOMAIN s = 1..n /\ Head(s) = s[1] /\ s[1] \in S
      /\ r \in Seq(S) /\ Len(r) = n - 1 /\ DOMAIN r = 1..(n - 1)
      /\ \A k \in 1..(n - 1) : r[k] = s[k + 1]
  OBVIOUS
<1> HIDE DEF n, r
<1>2. \A k \in 1..(n - 1) : k + 1 \in 1..n /\ k + 1 # 1
  BY <1>1
<1>3. IsInjective(r)
  <2> SUFFICES ASSUME NEW j \in 1..(n - 1), NEW k \in 1..(n - 1), r[j] = r[k] PROVE j = k
    BY <1>1 DEF IsInjective
  <2>1. s[j + 1] = s[k + 1]
    BY <1>1
  <2>2. j + 1 = k + 1
    BY <1>1, <1>2, <2>1 DEF IsInjective
  <2> QED BY <1>1, <2>2
<1>4. 1 \in 1..n
  BY <1>1
<1>5. ToSet(r) = ToSet(s) \ {s[1]}
  <2>1. ASSUME NEW k \in 1..(n - 1) PROVE r[k] \in ToSet(s) /\ r[k] # s[1]
    BY <1>1, <1>2, <1>4 DEF ToSet, IsInjective
  <2>2. ASSUME NEW k \in 1..n, s[k] # s[1] PROVE s[k] \in ToSet(r)
    <3>1. k - 1 \in 1..(n - 1) /\ (k - 1) + 1 = k
      BY <1>1, <2>2
    <3> QED BY <1>1, <3>1 DEF ToSet
  <2>3. ToSet(r) = {r[k] : k \in 1..(n - 1)} /\ ToSet(s) = {s[k] : k \in 1..n}
    BY <1>1 DEF ToSet
  <2> HIDE DEF r, n
  <2> QED BY ONLY <2>1, <2>2, <2>3
<1> QED BY <1>1, <1>3, <1>4, <1>5 DEF n, r, ToSet

(* As many elements as places.                                             *)
LEMMA CountOnce ==
  ASSUME NEW S, NEW s \in Seq(S), IsInjective(s)
  PROVE  /\ IsFiniteSet(ToSet(s)) /\ Cardinality(ToSet(s)) = Len(s)
         /\ ToSet(s) \subseteq S
<1> DEFINE n == Len(s)
<1>1. n \in Nat /\ DOMAIN s = 1..n /\ s \in [1..n -> S]
  OBVIOUS
<1> HIDE DEF n
<1>2. s \in Bijection(1..n, ToSet(s))
  <2>1. s \in [1..n -> ToSet(s)]
    BY <1>1 DEF ToSet
  <2>2. \A a, b \in 1..n : s[a] = s[b] => a = b
    BY <1>1 DEF IsInjective
  <2>3. \A x \in ToSet(s) : \E k \in 1..n : s[k] = x
    BY <1>1 DEF ToSet
  <2> QED BY <2>1, <2>2, <2>3, Fun_IsBij
<1>3. ExistsBijection(1..n, ToSet(s))
  BY <1>2 DEF ExistsBijection
<1>4. IsFiniteSet(1..n) /\ Cardinality(1..n) = n
  <2>1. IsFiniteSet(1..n) /\ Cardinality(1..n) = IF 1 > n THEN 0 ELSE n - 1 + 1
    BY <1>1, FS_Interval
  <2> QED BY <1>1, <2>1
<1>5. ToSet(s) \subseteq S
  BY <1>1 DEF ToSet
<1> QED BY <1>3, <1>4, <1>5, FS_Bijection DEF n

-----------------------------------------------------------------------------
(* The pool while it is built. *)

Building(s) == s \in {"lock huge", "lock plain", "finish"}
Steps == {"idle", "zmalloc", "huge", "lock huge", "plain", "lock plain", "finish"}

(* Nobody has a buffer yet, and there is one more to make.                 *)
LEMMA WhileBuilding ==
  ASSUME PoolTypeOK, PoolInv, pool = "building"
  PROVE  /\ \A t \in Threads : pc[t] = "idle" /\ held[t] = <<>> /\ transit[t] = NoBuf
         /\ \A t \in Threads : ToSet(held[t]) = {}
         /\ Current \in Bufs /\ Current \notin Made
         /\ Made \subseteq Bufs
         /\ \A b \in Bufs : mem[b].from # "none" <=> BeingMade(b) \/ b \in Made
<1>1. \A t \in Threads : pc[t] = "idle" /\ held[t] = <<>>
  BY DEF PoolInv, StageInv
<1>2. \A t \in Threads : transit[t] = NoBuf
  BY <1>1 DEF PoolInv, TransitInv
<1>3. \A t \in Threads : ToSet(held[t]) = {}
  BY <1>1 DEF ToSet
<1>4. /\ IsFiniteSet(Made) /\ Cardinality(Made) = Len(free) /\ Made \subseteq Bufs
      /\ Len(free) < Cardinality(Bufs)
  BY CountOnce DEF PoolTypeOK, PoolInv, FreeInv, StageInv, Made
<1>5. Current \in Bufs /\ Current \notin Made
  <2>1. \E b \in Bufs : b \notin Made
    <3>1. Made # Bufs
      <4>1. Cardinality(Made) \in Nat
        BY <1>4, FS_CardinalityType
      <4> QED BY <1>4, <4>1
    <3> QED BY <1>4, <3>1
  <2> HIDE DEF Made
  <2> QED BY <2>1 DEF Current
<1>6. \A b \in Bufs : mem[b].from # "none" <=> BeingMade(b) \/ b \in Made
  <2>1. \A b \in Bufs, t \in Threads : transit[t] # b /\ b \notin ToSet(held[t])
    BY <1>2, <1>3, PoolAssumption
  <2> QED BY <2>1 DEF PoolInv, MemInv
<1> QED BY <1>1, <1>2, <1>3, <1>4, <1>5, <1>6

(* What a step that leaves threads and free list alone cannot disturb.     *)
LEMMA HandlesStay ==
  ASSUME PoolInv, UNCHANGED <<pc, transit, held, free>>
  PROVE  FreeInv' /\ TransitInv' /\ HeldInv' /\ Made' = Made /\ Current' = Current
BY DEF PoolInv, FreeInv, TransitInv, HeldInv, Made, Current

(* A call of alloc that maps or unmaps the buffer being made.              *)
LEMMA MapKeeps ==
  ASSUME PoolTypeOK, PoolInv, pool = "building",
         NEW record \in Memory, NEW next \in Steps, Map(record, next),
         record.from # "none" <=> Building(next)
  PROVE  PoolTypeOK' /\ PoolInv'
<1> USE DEF Map
<1>1. PoolTypeOK'
  <2>1. mem' \in [Bufs -> Memory]
    BY WhileBuilding DEF PoolTypeOK
  <2> QED BY <2>1 DEF PoolTypeOK, Steps, handles
<1>2. FreeInv' /\ TransitInv' /\ HeldInv' /\ Made' = Made /\ Current' = Current
  BY HandlesStay DEF handles
<1>3. StageInv' /\ CounterSettles'
  BY DEF PoolInv, StageInv, CounterSettles, handles
<1>4. MemInv'
  <2> SUFFICES ASSUME NEW b \in Bufs
               PROVE  mem'[b].from # "none" <=>
                        \/ Building(step') /\ b = Current'
                        \/ b \in Made'
                        \/ \E t \in Threads : transit'[t] = b
                        \/ \E t \in Threads : b \in ToSet(held'[t])
    BY DEF MemInv, BeingMade, Building
  <2>1. CASE b = Current
    BY <2>1, <1>2, WhileBuilding, PoolAssumption DEF PoolTypeOK, handles
  <2>2. CASE b # Current
    BY <2>2, <1>2, WhileBuilding, PoolAssumption DEF PoolTypeOK, handles, BeingMade
  <2> QED BY <2>1, <2>2
<1> QED BY <1>1, <1>2, <1>3, <1>4 DEF PoolInv

(* The buffer that is finished joins the free list.                        *)
LEMMA PushedKeeps ==
  ASSUME PoolTypeOK, PoolInv, pool = "building",
         NEW record \in Memory, record.from # "none", Pushed(record)
  PROVE  PoolTypeOK' /\ PoolInv'
<1> USE DEF Pushed
<1>1. /\ \A t \in Threads : pc[t] = "idle" /\ held[t] = <<>> /\ transit[t] = NoBuf
      /\ \A t \in Threads : ToSet(held[t]) = {}
      /\ Current \in Bufs /\ Current \notin Made
      /\ \A b \in Bufs : mem[b].from # "none" <=> BeingMade(b) \/ b \in Made
  BY WhileBuilding
<1>2. free \in Seq(Bufs) /\ IsInjective(free) /\ Made = ToSet(free)
  BY DEF PoolTypeOK, PoolInv, FreeInv, Made
<1>3. /\ free' \in Seq(Bufs) /\ IsInjective(free') /\ Made' = Made \cup {Current}
      /\ Len(free') = Len(free) + 1
  BY <1>1, <1>2, AppendNew DEF Made
<1>4. Len(free) \in Nat /\ Cardinality(Bufs) \in Nat /\ Cardinality(Bufs) <= UsizeMax /\ UsizeMax \in Nat
      /\ Len(free) < Cardinality(Bufs)
  BY PoolAssumption, FS_CardinalityType DEF PoolInv, StageInv
<1>5. PoolTypeOK'
  <2>1. mem' \in [Bufs -> Memory]
    BY <1>1 DEF PoolTypeOK
  <2>2. available' \in 0..UsizeMax /\ pool' \in {"building", "ready"}
    <3>1. CASE Len(free) + 1 = Cardinality(Bufs)
      <4>1. available' = Cardinality(Bufs) /\ pool' = "ready"
        BY <3>1
      <4> QED BY <1>4, <4>1
    <3>2. CASE Len(free) + 1 # Cardinality(Bufs)
      BY <3>2 DEF PoolTypeOK
    <3> QED BY <3>1, <3>2
  <2> QED BY <1>3, <2>1, <2>2 DEF PoolTypeOK, handles
<1>6. StageInv'
  <2>1. pool' = "building" => Len(free') < Cardinality(Bufs)
    BY <1>2, <1>3, <1>4
  <2> QED BY <1>1, <2>1 DEF StageInv, handles
<1>7. FreeInv' /\ TransitInv' /\ HeldInv'
  <2>1. \A b \in Bufs : b # NoBuf
    BY PoolAssumption
  <2>2. \A t \in Threads : transit[t] \notin Made'
    BY <1>1, <1>3, <2>1 DEF PoolInv, TransitInv
  <2>3. TransitInv'
    BY <1>1, <2>2 DEF TransitInv, handles
  <2>4. HeldInv'
    BY <1>1 DEF HeldInv, IsInjective, handles
  <2> QED BY <1>3, <2>3, <2>4 DEF FreeInv
<1>8. MemInv'
  <2> SUFFICES ASSUME NEW b \in Bufs
               PROVE  mem'[b].from # "none" <=>
                        \/ b \in Made'
                        \/ \E t \in Threads : transit'[t] = b
                        \/ \E t \in Threads : b \in ToSet(held'[t])
    BY DEF MemInv, BeingMade
  <2>1. CASE b = Current
    BY <2>1, <1>1, <1>3 DEF PoolTypeOK
  <2>2. CASE b # Current
    BY <2>2, <1>1, <1>3, PoolAssumption DEF PoolTypeOK, handles, BeingMade
  <2> QED BY <2>1, <2>2
<1>9. CounterSettles'
  <2> SUFFICES ASSUME pool' = "ready"
               PROVE  available' = (Len(free') + Cardinality({t \in Threads : pc[t] = "popped"})
                 - Cardinality({t \in Threads : pc[t] = "pushed"})) % (UsizeMax + 1)
    BY DEF CounterSettles, handles
  <2>1. {t \in Threads : pc[t] = "popped"} = {} /\ {t \in Threads : pc[t] = "pushed"} = {}
    BY <1>1
  <2>2. Cardinality({}) = 0
    BY FS_EmptySet
  <2>3. Len(free') = Cardinality(Bufs) /\ available' = Cardinality(Bufs)
    BY <1>3
  <2>4. Cardinality(Bufs) + 0 - 0 = Cardinality(Bufs)
    BY ONLY <1>4
  <2>5. available' = (Len(free') + 0 - 0) % (UsizeMax + 1)
    BY <1>4, <2>3, <2>4
  <2> QED BY <2>1, <2>2, <2>5
<1> QED BY <1>5, <1>6, <1>7, <1>8, <1>9 DEF PoolInv

(* A failed call takes the buffers made so far with it.                    *)
LEMMA NewFailsKeeps ==
  ASSUME PoolTypeOK, PoolInv, pool = "building", ~ Building(step), NewFails
  PROVE  PoolTypeOK' /\ PoolInv'
<1> USE DEF NewFails, Drop
<1>1. /\ \A t \in Threads : pc[t] = "idle" /\ held[t] = <<>> /\ transit[t] = NoBuf
      /\ \A t \in Threads : ToSet(held[t]) = {}
      /\ \A b \in Bufs : mem[b].from # "none" <=> BeingMade(b) \/ b \in Made
  BY WhileBuilding
<1>2. PoolTypeOK'
  <2>1. mem' \in [Bufs -> Memory]
    BY DEF PoolTypeOK, Memory, Unmapped
  <2>2. free' \in Seq(Bufs)
    OBVIOUS
  <2> QED BY <2>1, <2>2 DEF PoolTypeOK, handles
<1>3. Made' = {} /\ IsInjective(free')
  BY DEF Made, ToSet, IsInjective
<1>4. StageInv' /\ FreeInv' /\ CounterSettles'
  BY <1>1, <1>3 DEF StageInv, FreeInv, CounterSettles, handles
<1>5. TransitInv' /\ HeldInv'
  BY <1>1, <1>3 DEF PoolInv, TransitInv, HeldInv, IsInjective, handles
<1>6. MemInv'
  BY <1>1, <1>3, PoolAssumption DEF MemInv, BeingMade, Building, Unmapped, handles, PoolTypeOK
<1> QED BY <1>2, <1>4, <1>5, <1>6 DEF PoolInv

(* A step of the pool that only says which call comes next.                *)
LEMMA StepKeeps ==
  ASSUME PoolTypeOK, PoolInv, UNCHANGED <<mem, free, available, pc, transit, held>>,
         \/ pool = "none" /\ pool' = "building" /\ step' = "idle"
         \/ pool = "building" /\ pool' = "building" /\ ~ Building(step) /\ step' \in Steps
            /\ ~ Building(step')
  PROVE  PoolInv'
<1>1. FreeInv' /\ TransitInv' /\ HeldInv' /\ Made' = Made /\ Current' = Current
  BY HandlesStay
<1>2. StageInv'
  <2>1. Cardinality(Bufs) \in Nat /\ Cardinality(Bufs) # 0
    BY PoolAssumption, FS_CardinalityType, FS_EmptySet
  <2>2. Len(<<>>) < Cardinality(Bufs)
    BY <2>1
  <2> QED BY <2>2 DEF PoolInv, StageInv
<1>3. CounterSettles'
  BY DEF CounterSettles
<1>4. MemInv'
  <2>1. ~ BeingMade(Current) /\ ~ Building(step) /\ ~ Building(step')
    BY DEF Building, BeingMade, PoolInv, StageInv
  <2> QED BY <1>1, <2>1 DEF PoolInv, MemInv, BeingMade, Building
<1> QED BY <1>1, <1>2, <1>3, <1>4 DEF PoolInv

LEMMA BuildKeeps ==
  ASSUME PoolTypeOK, PoolInv, BuildPool
  PROVE  PoolTypeOK' /\ PoolInv'
<1>1. CASE \E size \in Sizes : NewPool(size)
  <2>1. PICK size \in Sizes : NewPool(size)
    BY <1>1
  <2>2. PoolTypeOK'
    BY <2>1, PoolAssumption DEF NewPool, PoolTypeOK, spdkEnv, handles
  <2>3. PoolInv'
    BY <2>1, StepKeeps DEF NewPool, spdkEnv, handles
  <2> QED BY <2>2, <2>3
<1>2. CASE BeginAlloc
  <2>1. CASE NewFails
    BY <1>2, <2>1, NewFailsKeeps DEF BeginAlloc, Building
  <2>2. CASE ~ NewFails
    <3>1. PoolTypeOK'
      BY <1>2, <2>2 DEF BeginAlloc, PoolTypeOK, spdkEnv, handles
    <3>2. PoolInv'
      BY <1>2, <2>2, StepKeeps DEF BeginAlloc, spdkEnv, handles, Building, Steps
    <3> QED BY <3>1, <3>2
  <2> QED BY <2>1, <2>2
<1>3. Unmapped \in Memory /\ Unmapped.from = "none"
  BY DEF Unmapped, Memory
<1>4. CASE Zmalloc
  <2> DEFINE dma == [from |-> "spdk", backing |-> "SpdkDma", locked |-> TRUE, phys |-> TRUE]
  <2>1. pool = "building"
    BY <1>4 DEF Zmalloc, PoolInv, StageInv
  <2>2. dma \in Memory /\ dma.from # "none"
    BY DEF Memory
  <2>3. "huge" \in Steps /\ ~ Building("huge")
    BY DEF Steps, Building
  <2>4. Pushed(dma) \/ Map(Unmapped, "huge")
    BY <1>4 DEF Zmalloc
  <2> HIDE DEF dma
  <2> QED BY <1>3, <2>1, <2>2, <2>3, <2>4, PushedKeeps, MapKeeps
<1>5. \A b \in {"none", "HugePage", "LockedFallback", "PageableFallback"}, l \in BOOLEAN :
        Mapped(b, l) \in Memory /\ Mapped(b, l).from = "mmap"
  BY DEF Mapped, Memory
<1>6. \A n \in {"lock huge", "lock plain", "finish"} : n \in Steps /\ Building(n)
  BY DEF Steps, Building
<1>7. "plain" \in Steps /\ ~ Building("plain")
  BY DEF Steps, Building
<1>8. CASE MapHuge
  <2>1. pool = "building"
    BY <1>8 DEF MapHuge, PoolInv, StageInv
  <2>2. Map(Mapped("none", FALSE), "lock huge") \/ Map(Unmapped, "plain")
    BY <1>8 DEF MapHuge
  <2> QED BY <1>3, <1>5, <1>6, <1>7, <2>1, <2>2, MapKeeps
<1>9. CASE LockHuge
  <2>1. pool = "building"
    BY <1>9 DEF LockHuge, PoolInv, StageInv
  <2>2. Map(Mapped("HugePage", TRUE), "finish") \/ Map(Unmapped, "plain")
    BY <1>9 DEF LockHuge
  <2> QED BY <1>3, <1>5, <1>6, <1>7, <2>1, <2>2, MapKeeps
<1>10. CASE MapPlain
  <2>1. pool = "building" /\ ~ Building(step)
    BY <1>10 DEF MapPlain, PoolInv, StageInv, Building
  <2>2. NewFails \/ Map(Mapped("none", FALSE), "lock plain")
    BY <1>10 DEF MapPlain
  <2> QED BY <1>5, <1>6, <2>1, <2>2, MapKeeps, NewFailsKeeps
<1>11. CASE LockPlain
  <2>1. pool = "building"
    BY <1>11 DEF LockPlain, PoolInv, StageInv
  <2>2. \/ Map(Mapped("LockedFallback", TRUE), "finish")
        \/ Map(Mapped("PageableFallback", FALSE), "finish")
    BY <1>11 DEF LockPlain
  <2> QED BY <1>5, <1>6, <2>1, <2>2, MapKeeps
<1>12. CASE Finish
  <2>1. pool = "building" /\ step = "finish"
    BY <1>12 DEF Finish, PoolInv, StageInv
  <2>2. PICK phys \in BOOLEAN : Pushed([mem[Current] EXCEPT !.phys = phys])
    BY <1>12 DEF Finish
  <2>3. Current \in Bufs /\ mem[Current] \in Memory /\ mem[Current].from # "none"
    BY <2>1, WhileBuilding DEF PoolTypeOK, BeingMade
  <2>4. /\ [mem[Current] EXCEPT !.phys = phys] \in Memory
        /\ [mem[Current] EXCEPT !.phys = phys].from = mem[Current].from
    BY <2>3 DEF Memory
  <2> QED BY <2>1, <2>2, <2>3, <2>4, PushedKeeps
<1> QED BY <1>1, <1>2, <1>4, <1>8, <1>9, <1>10, <1>11, <1>12 DEF BuildPool

-----------------------------------------------------------------------------
(* The pool in use. *)

(* The remainder of a division is the only number in its range that        *)
(* differs from the dividend by a multiple of the divisor.                 *)
LEMMA DivisionUnique ==
  ASSUME NEW m \in Nat \ {0}, NEW q \in Int, NEW r \in 0..(m - 1)
  PROVE  (m * q + r) % m = r /\ (m * q + r) \div m = q
<1> DEFINE x == m * q + r
           p == x \div m
           u == x % m
<1>1. x \in Int /\ x = m * p + u /\ p \in Int /\ u \in 0..(m - 1)
  OBVIOUS
<1>2. x = m * q + r
  OBVIOUS
<1> HIDE DEF x, p, u
<1> DEFINE d == q - p
<1>3. d \in Int /\ m * d = u - r
  BY <1>1, <1>2
<1>4. d = 0
  <2>1. CASE d >= 1
    <3>1. m * d >= m
      BY <2>1, <1>3
    <3> QED BY <3>1, <1>1, <1>3
  <2>2. CASE d <= -1
    <3>1. m * d <= 0 - m
      BY <2>2, <1>3
    <3> QED BY <3>1, <1>1, <1>3
  <2> QED BY <1>3, <2>1, <2>2
<1>5. u = r /\ p = q
  BY <1>1, <1>3, <1>4
<1> QED BY <1>5 DEF x, u, p

(* One more or one less, with wraparound.                                  *)
LEMMA CountStep ==
  ASSUME NEW m \in Nat \ {0}, NEW x \in Int
  PROVE  /\ ((x % m) - 1) % m = (x - 1) % m
         /\ ((x % m) + 1) % m = (x + 1) % m
<1> DEFINE q == x \div m
           r == x % m
<1>1. x = m * q + r /\ q \in Int /\ r \in 0..(m - 1)
  OBVIOUS
<1> HIDE DEF q, r
<1>2. (r - 1) % m = (x - 1) % m
  <2>1. CASE r = 0
    <3>1. r - 1 = m * (0 - 1) + (m - 1) /\ x - 1 = m * (q - 1) + (m - 1)
      BY <1>1, <2>1
    <3>2. m - 1 \in 0..(m - 1) /\ q - 1 \in Int /\ 0 - 1 \in Int
      BY <1>1
    <3>3. (m * (0 - 1) + (m - 1)) % m = m - 1 /\ (m * (q - 1) + (m - 1)) % m = m - 1
      BY ONLY <3>2, DivisionUnique, m \in Nat \ {0}
    <3> QED BY <3>1, <3>3
  <2>2. CASE r # 0
    <3>1. r - 1 = m * 0 + (r - 1) /\ x - 1 = m * q + (r - 1) /\ r - 1 \in 0..(m - 1)
      BY <1>1, <2>2
    <3>2. (m * 0 + (r - 1)) % m = r - 1 /\ (m * q + (r - 1)) % m = r - 1
      BY ONLY <1>1, <3>1, DivisionUnique, m \in Nat \ {0}
    <3> QED BY <3>1, <3>2
  <2> QED BY <2>1, <2>2
<1>3. (r + 1) % m = (x + 1) % m
  <2>1. CASE r = m - 1
    <3>1. r + 1 = m * 1 + 0 /\ x + 1 = m * (q + 1) + 0
      BY <1>1, <2>1
    <3>2. 0 \in 0..(m - 1) /\ q + 1 \in Int /\ 1 \in Int
      BY <1>1
    <3>3. (m * 1 + 0) % m = 0 /\ (m * (q + 1) + 0) % m = 0
      BY ONLY <3>2, DivisionUnique, m \in Nat \ {0}
    <3> QED BY <3>1, <3>3
  <2>2. CASE r # m - 1
    <3>1. r + 1 = m * 0 + (r + 1) /\ x + 1 = m * q + (r + 1) /\ r + 1 \in 0..(m - 1)
      BY <1>1, <2>2
    <3>2. (m * 0 + (r + 1)) % m = r + 1 /\ (m * q + (r + 1)) % m = r + 1
      BY ONLY <1>1, <3>1, DivisionUnique, m \in Nat \ {0}
    <3> QED BY <3>1, <3>2
  <2> QED BY <2>1, <2>2
<1> QED BY <1>2, <1>3 DEF r

(* The threads between the two steps of acquire, and of a drop.            *)
InState(f, s) == {t \in Threads : f[t] = s}

LEMMA StateFinite ==
  ASSUME NEW f, NEW s
  PROVE  IsFiniteSet(InState(f, s)) /\ Cardinality(InState(f, s)) \in Nat
<1>1. InState(f, s) \in SUBSET Threads
  BY DEF InState
<1>2. IsFiniteSet(InState(f, s))
  BY <1>1, PoolAssumption, FS_Subset
<1> QED BY <1>2, FS_CardinalityType

LEMMA PoolTypes ==
  ASSUME PoolTypeOK
  PROVE  /\ free \in Seq(Bufs) /\ Len(free) \in Nat
         /\ available \in Int
         /\ UsizeMax \in Nat /\ UsizeMax + 1 \in Nat \ {0}
         /\ Made \subseteq Bufs
         /\ \A t \in Threads : held[t] \in Seq(Bufs) /\ ToSet(held[t]) \subseteq Bufs
         /\ NoBuf \notin Bufs
<1>1. free \in Seq(Bufs) /\ \A t \in Threads : held[t] \in Seq(Bufs)
  BY DEF PoolTypeOK
<1>2. Len(free) \in Nat /\ DOMAIN free = 1..Len(free)
  BY <1>1
<1>3. available \in Int /\ UsizeMax \in Nat /\ UsizeMax + 1 \in Nat \ {0} /\ NoBuf \notin Bufs
  <2>1. available \in 0..UsizeMax /\ UsizeMax \in Nat
    BY PoolAssumption DEF PoolTypeOK
  <2>2. NoBuf \notin Bufs
    BY PoolAssumption
  <2>3. available \in Int /\ UsizeMax + 1 \in Nat \ {0}
    BY ONLY <2>1
  <2> QED BY <2>1, <2>2, <2>3
<1>4. \A s \in Seq(Bufs) : ToSet(s) \subseteq Bufs
  BY DEF ToSet
<1> QED BY <1>1, <1>2, <1>3, <1>4 DEF Made

(* Acquire takes the first buffer of the list.                             *)
LEMMA AcquireKeeps ==
  ASSUME PoolTypeOK, PoolInv, NEW t \in Threads, Acquire(t)
  PROVE  PoolTypeOK' /\ PoolInv'
<1> DEFINE x == Head(free)
<1>1. /\ free' \in Seq(Bufs) /\ IsInjective(free') /\ Made' = Made \ {x}
      /\ Len(free') = Len(free) - 1 /\ x \in Made /\ x \in Bufs /\ x # NoBuf
  <2>1. free' = Tail(free) /\ free # <<>>
    BY DEF Acquire
  <2>2. /\ free \in Seq(Bufs) /\ IsInjective(free)
    BY PoolTypes DEF PoolInv, FreeInv
  <2>3. Made = ToSet(free) /\ Made' = ToSet(free')
    BY DEF Made
  <2>4. x \in Bufs => x # NoBuf
    BY PoolTypes
  <2> QED BY <2>1, <2>2, <2>3, <2>4, TailOnce
<1>0. pc[t] = "idle" /\ pc' = [pc EXCEPT ![t] = "popped"] /\ available' = available
  BY DEF Acquire
<1> USE DEF Acquire, building
<1> HIDE DEF x
<1>2. \A u \in Threads : transit'[u] = IF u = t THEN x ELSE transit[u]
  BY DEF PoolTypeOK, x
<1>3. \A u \in Threads : pc'[u] = IF u = t THEN "popped" ELSE pc[u]
  BY DEF PoolTypeOK
<1>4. PoolTypeOK'
  <2>1. transit' \in [Threads -> Bufs \cup {NoBuf}]
    BY <1>1 DEF PoolTypeOK, x
  <2> QED BY <1>1, <2>1 DEF PoolTypeOK, spdkEnv
<1>5. StageInv'
  BY DEF PoolInv, StageInv
<1>6. FreeInv'
  BY <1>1 DEF FreeInv
<1>7. TransitInv'
  <2>1. \A u \in Threads : transit[u] # x
    BY <1>1 DEF PoolInv, TransitInv
  <2> QED BY <1>1, <1>2, <1>3, <2>1 DEF PoolInv, TransitInv
<1>8. HeldInv'
  <2>1. \A u \in Threads : x \notin ToSet(held[u])
    BY <1>1 DEF PoolInv, HeldInv
  <2>2. held' = held /\ HeldInv
    BY DEF PoolInv
  <2>3. ASSUME NEW u \in Threads, NEW b \in ToSet(held[u])
        PROVE  /\ b \notin Made'
               /\ \A v \in Threads : transit'[v] # b /\ (v # u => b \notin ToSet(held[v]))
    <3>1. /\ b # x /\ b \notin Made
          /\ \A v \in Threads : transit[v] # b /\ (v # u => b \notin ToSet(held[v]))
      BY <2>1, <2>2 DEF HeldInv
    <3> HIDE DEF Acquire
    <3> QED BY <1>1, <1>2, <3>1
  <2> HIDE DEF Acquire
  <2> QED BY <2>2, <2>3 DEF HeldInv
<1>9. MemInv'
  <2> SUFFICES ASSUME NEW b \in Bufs
               PROVE  mem[b].from # "none" <=>
                        \/ b \in Made'
                        \/ \E u \in Threads : transit'[u] = b
                        \/ \E u \in Threads : b \in ToSet(held[u])
    BY DEF MemInv, BeingMade, PoolInv, StageInv
  <2>1. mem[b].from # "none" <=>
          \/ b \in Made
          \/ \E u \in Threads : transit[u] = b
          \/ \E u \in Threads : b \in ToSet(held[u])
    BY DEF PoolInv, MemInv, BeingMade, StageInv
  <2>2. transit[t] = NoBuf /\ b # NoBuf
    BY PoolAssumption DEF PoolInv, TransitInv
  <2>3. (\E u \in Threads : transit'[u] = b) <=> (b = x \/ \E u \in Threads : transit[u] = b)
    BY <1>2, <2>2
  <2> QED BY <1>1, <2>1, <2>3
<1>10. CounterSettles'
  <2>1. /\ Cardinality(InState(pc', "popped")) = Cardinality(InState(pc, "popped")) + 1
        /\ InState(pc', "pushed") = InState(pc, "pushed")
        /\ Cardinality(InState(pc, "popped")) \in Nat /\ Cardinality(InState(pc, "pushed")) \in Nat
    <3>1. InState(pc', "popped") = InState(pc, "popped") \cup {t} /\ t \notin InState(pc, "popped")
      BY <1>0, <1>3 DEF InState
    <3>2. \A s : s \notin {pc[t], pc'[t]} => InState(pc', s) = InState(pc, s)
      BY <1>0, <1>3 DEF InState
    <3>3. InState(pc', "pushed") = InState(pc, "pushed")
      BY <1>0, <3>2, <1>0, <1>3
    <3> QED BY ONLY <3>1, <3>3, StateFinite, FS_AddElement
  <2>2. available = (Len(free) + Cardinality(InState(pc, "popped")) - Cardinality(InState(pc, "pushed")))
                    % (UsizeMax + 1)
    BY DEF PoolInv, CounterSettles, InState
  <2>3. Len(free) \in Nat
    BY PoolTypes
  <2> DEFINE m == Cardinality(InState(pc, "popped"))
             n == Cardinality(InState(pc, "pushed"))
  <2>4. Len(free') + (m + 1) - n = Len(free) + m - n
    BY <1>1, <2>1, <2>3
  <2>5. available' = (Len(free') + Cardinality(InState(pc', "popped")) - Cardinality(InState(pc', "pushed")))
                     % (UsizeMax + 1)
    <3>1. Len(free') + Cardinality(InState(pc', "popped")) - Cardinality(InState(pc', "pushed"))
          = Len(free) + m - n
      BY <2>1, <2>4
    <3> QED BY <2>2, <3>1
  <2> QED BY <2>5 DEF CounterSettles, InState
<1> QED BY <1>4, <1>5, <1>6, <1>7, <1>8, <1>9, <1>10 DEF PoolInv

(* The handle is built, and the counter follows.                           *)
LEMMA CountAcquiredKeeps ==
  ASSUME PoolTypeOK, PoolInv, NEW t \in Threads, CountAcquired(t)
  PROVE  PoolTypeOK' /\ PoolInv'
<1>0. /\ pc[t] = "popped" /\ pc' = [pc EXCEPT ![t] = "idle"]
      /\ available' = (available - 1) % (UsizeMax + 1) /\ free' = free /\ pool' = pool
  BY DEF CountAcquired, building
<1> USE DEF CountAcquired, building
<1> DEFINE x == transit[t]
<1>1. x \in Bufs /\ x # NoBuf /\ x \notin Made /\ x \notin ToSet(held[t])
  BY DEF PoolTypeOK, PoolInv, TransitInv, HeldInv
<1>2. held[t] \in Seq(Bufs) /\ IsInjective(held[t])
  BY DEF PoolTypeOK, PoolInv, HeldInv
<1>3. /\ Append(held[t], x) \in Seq(Bufs) /\ IsInjective(Append(held[t], x))
      /\ ToSet(Append(held[t], x)) = ToSet(held[t]) \cup {x}
  BY <1>1, <1>2, AppendNew
<1> HIDE DEF x
<1>4. \A u \in Threads : held'[u] = IF u = t THEN Append(held[t], x) ELSE held[u]
  BY DEF PoolTypeOK, x
<1>5. \A u \in Threads : /\ ToSet(held'[u]) = IF u = t THEN ToSet(held[t]) \cup {x} ELSE ToSet(held[u])
                         /\ IsInjective(held'[u])
  <2>1. \A u \in Threads : IsInjective(held[u])
    BY DEF PoolInv, HeldInv
  <2> QED BY ONLY <1>3, <1>4, <2>1
<1>6. \A u \in Threads : transit'[u] = IF u = t THEN NoBuf ELSE transit[u]
  BY DEF PoolTypeOK
<1>7. \A u \in Threads : pc'[u] = IF u = t THEN "idle" ELSE pc[u]
  BY DEF PoolTypeOK
<1>8. Made' = Made
  BY DEF Made
<1>9. PoolTypeOK'
  <2>1. held' \in [Threads -> Seq(Bufs)]
    BY <1>3 DEF PoolTypeOK, x
  <2>2. available' \in 0..UsizeMax
    <3>1. available \in Int /\ UsizeMax \in Nat
      BY PoolTypes
    <3> QED BY ONLY <1>0, <3>1
  <2>3. transit' \in [Threads -> Bufs \cup {NoBuf}] /\ pc' \in [Threads -> {"idle", "popped", "pushed"}]
    BY DEF PoolTypeOK
  <2> QED BY <2>1, <2>2, <2>3 DEF PoolTypeOK, spdkEnv
<1>10. pool \notin {"none", "building", "failed"}
  BY DEF PoolInv, StageInv
<1>11. StageInv' /\ FreeInv'
  BY <1>10 DEF PoolInv, StageInv, FreeInv
<1>12. TransitInv'
  <2>1. NoBuf \notin Made
    BY PoolTypes
  <2> QED BY <1>6, <1>7, <1>8, <2>1 DEF PoolInv, TransitInv
<1>13. HeldInv'
  <2> SUFFICES ASSUME NEW u \in Threads, NEW b \in ToSet(held'[u])
               PROVE  /\ b \notin Made
                      /\ \A v \in Threads : transit'[v] # b /\ (v # u => b \notin ToSet(held'[v]))
    BY <1>5, <1>8 DEF HeldInv
  <2>1. CASE b = x
    <3>1. \A v \in Threads : x \notin ToSet(held[v])
      BY DEF PoolInv, HeldInv, x
    <3>2. u = t
      BY <1>5, <2>1, <3>1
    <3>3. \A v \in Threads : v # t => transit[v] # x
      BY <1>1 DEF PoolInv, TransitInv, x
    <3> QED BY <1>1, <1>5, <1>6, <2>1, <3>1, <3>2, <3>3
  <2>2. CASE b # x
    <3>1. b \in ToSet(held[u])
      BY <1>5, <2>2
    <3>2. b # NoBuf
      BY <3>1, PoolTypes
    <3>3. /\ b \notin Made
          /\ \A v \in Threads : transit[v] # b /\ (v # u => b \notin ToSet(held[v]))
      BY <3>1 DEF PoolInv, HeldInv
    <3> QED BY <1>5, <1>6, <2>2, <3>2, <3>3
  <2> QED BY <2>1, <2>2
<1>14. MemInv'
  <2> SUFFICES ASSUME NEW b \in Bufs
               PROVE  mem[b].from # "none" <=>
                        \/ b \in Made
                        \/ \E u \in Threads : transit'[u] = b
                        \/ \E u \in Threads : b \in ToSet(held'[u])
    BY <1>8, <1>10 DEF MemInv, BeingMade, PoolInv, StageInv
  <2>1. mem[b].from # "none" <=>
          \/ b \in Made
          \/ \E u \in Threads : transit[u] = b
          \/ \E u \in Threads : b \in ToSet(held[u])
    BY <1>10 DEF PoolInv, MemInv, BeingMade, StageInv
  <2>2. b # NoBuf
    BY PoolAssumption
  <2>3. CASE b = x
    BY <2>1, <2>3, <1>5 DEF x
  <2>4. CASE b # x
    <3>1. (\E u \in Threads : transit'[u] = b) <=> (\E u \in Threads : transit[u] = b)
      BY <1>6, <2>2, <2>4 DEF x
    <3>2. \A u \in Threads : b \in ToSet(held'[u]) <=> b \in ToSet(held[u])
      BY <1>5, <2>4
    <3> QED BY <2>1, <3>1, <3>2
  <2> QED BY <2>3, <2>4
<1>15. CounterSettles'
  <2>1. /\ Cardinality(InState(pc', "popped")) = Cardinality(InState(pc, "popped")) - 1
        /\ InState(pc', "pushed") = InState(pc, "pushed")
        /\ Cardinality(InState(pc, "popped")) \in Nat /\ Cardinality(InState(pc, "pushed")) \in Nat
    <3>1. InState(pc', "popped") = InState(pc, "popped") \ {t} /\ t \in InState(pc, "popped")
      BY <1>0, <1>7 DEF InState
    <3>2. \A s : s \notin {pc[t], pc'[t]} => InState(pc', s) = InState(pc, s)
      BY <1>0, <1>7 DEF InState
    <3>3. InState(pc', "pushed") = InState(pc, "pushed")
      BY <1>0, <3>2, <1>0, <1>7
    <3> QED BY ONLY <3>1, <3>3, StateFinite, FS_RemoveElement
  <2> DEFINE c == Len(free) + Cardinality(InState(pc, "popped")) - Cardinality(InState(pc, "pushed"))
  <2>2. pool = "ready" => available = c % (UsizeMax + 1)
    BY DEF PoolInv, CounterSettles, InState
  <2> DEFINE m == Cardinality(InState(pc, "popped"))
             n == Cardinality(InState(pc, "pushed"))
  <2>3. c \in Int /\ UsizeMax + 1 \in Nat \ {0} /\ Len(free) \in Nat
    <3>1. m \in Nat /\ n \in Nat /\ Len(free) \in Nat /\ UsizeMax + 1 \in Nat \ {0}
      BY <2>1, PoolTypes
    <3> HIDE DEF m, n
    <3>2. Len(free) + m - n \in Int
      BY ONLY <3>1
    <3> QED BY <3>1, <3>2 DEF m, n
  <2>4. Len(free') + Cardinality(InState(pc', "popped")) - Cardinality(InState(pc', "pushed")) = c - 1
    <3>1. Len(free') = Len(free)
      BY <1>0
    <3>2. m \in Nat /\ n \in Nat
      BY <2>1
    <3> HIDE DEF m, n
    <3>3. Len(free) + (m - 1) - n = (Len(free) + m - n) - 1
      BY ONLY <2>3, <3>2
    <3> QED BY <2>1, <3>1, <3>3 DEF m, n
  <2> HIDE DEF c
  <2>5. pool = "ready" => available' = (c - 1) % (UsizeMax + 1)
    BY ONLY <1>0, <2>2, <2>3, CountStep
  <2> QED BY <2>4, <2>5 DEF CounterSettles, InState
<1> QED BY <1>9, <1>11, <1>12, <1>13, <1>14, <1>15 DEF PoolInv

(* A handle goes back to the list, before the counter does.                *)
LEMMA ReturnBufKeeps ==
  ASSUME PoolTypeOK, PoolInv, NEW t \in Threads, NEW i \in DOMAIN held[t], ReturnBuf(t, i)
  PROVE  PoolTypeOK' /\ PoolInv'
<1> DEFINE x == held[t][i]
           rest == RemoveAt(held[t], i)
<1>1. /\ pc[t] = "idle" /\ pc' = [pc EXCEPT ![t] = "pushed"] /\ free' = Append(free, x)
      /\ held' = [held EXCEPT ![t] = rest]
      /\ UNCHANGED <<spdkEnv, pool, bufSize, step, mem, available, transit>>
  BY DEF ReturnBuf, building
<1>2. held[t] \in Seq(Bufs) /\ IsInjective(held[t]) /\ x \in ToSet(held[t]) /\ x \in Bufs
  BY PoolTypes DEF PoolInv, HeldInv, ToSet
<1>3. x \notin Made /\ \A u \in Threads : transit[u] # x /\ (u # t => x \notin ToSet(held[u]))
  BY <1>2 DEF PoolInv, HeldInv
<1>4. /\ rest \in Seq(Bufs) /\ IsInjective(rest) /\ ToSet(rest) = ToSet(held[t]) \ {x}
  BY <1>2, RemoveOne
<1>5. /\ free' \in Seq(Bufs) /\ IsInjective(free') /\ Made' = Made \cup {x}
      /\ Len(free') = Len(free) + 1
  <2>1. free \in Seq(Bufs) /\ IsInjective(free) /\ Made = ToSet(free) /\ Made' = ToSet(free')
    BY PoolTypes DEF PoolInv, FreeInv, Made
  <2> HIDE DEF x
  <2> QED BY <1>1, <1>2, <1>3, <2>1, AppendNew
<1>6. pool \notin {"none", "building", "failed"} /\ step = "idle" /\ step' = "idle" /\ pool' = pool
  <2>1. held[t] # <<>>
    OBVIOUS
  <2> QED BY <1>1, <2>1 DEF PoolInv, StageInv
<1> HIDE DEF x, rest
<1>7. /\ \A u \in Threads : held'[u] = IF u = t THEN rest ELSE held[u]
      /\ \A u \in Threads : pc'[u] = IF u = t THEN "pushed" ELSE pc[u]
  BY <1>1 DEF PoolTypeOK
<1>8. \A u \in Threads : /\ ToSet(held'[u]) = IF u = t THEN ToSet(held[t]) \ {x} ELSE ToSet(held[u])
                         /\ IsInjective(held'[u])
  <2>1. \A u \in Threads : IsInjective(held[u])
    BY DEF PoolInv, HeldInv
  <2> QED BY ONLY <1>4, <1>7, <2>1
<1>9. PoolTypeOK'
  <2>1. held' \in [Threads -> Seq(Bufs)]
    BY <1>1, <1>4 DEF PoolTypeOK
  <2> QED BY <1>1, <1>5, <2>1 DEF PoolTypeOK, spdkEnv
<1>10. StageInv' /\ FreeInv'
  BY <1>5, <1>6 DEF StageInv, FreeInv
<1>11. TransitInv'
  BY <1>1, <1>3, <1>5, <1>7 DEF PoolInv, TransitInv
<1>12. HeldInv'
  <2> SUFFICES ASSUME NEW u \in Threads, NEW b \in ToSet(held'[u])
               PROVE  /\ b \notin Made'
                      /\ \A v \in Threads : transit'[v] # b /\ (v # u => b \notin ToSet(held'[v]))
    BY <1>8 DEF HeldInv
  <2>1. b \in ToSet(held[u]) /\ b # x
    BY <1>3, <1>8
  <2>2. /\ b \notin Made
        /\ \A v \in Threads : transit[v] # b /\ (v # u => b \notin ToSet(held[v]))
    BY <2>1 DEF PoolInv, HeldInv
  <2> QED BY <1>1, <1>5, <1>8, <2>1, <2>2
<1>13. MemInv'
  <2> SUFFICES ASSUME NEW b \in Bufs
               PROVE  mem[b].from # "none" <=>
                        \/ b \in Made'
                        \/ \E u \in Threads : transit[u] = b
                        \/ \E u \in Threads : b \in ToSet(held'[u])
    BY <1>1, <1>6 DEF MemInv, BeingMade
  <2>1. mem[b].from # "none" <=>
          \/ b \in Made
          \/ \E u \in Threads : transit[u] = b
          \/ \E u \in Threads : b \in ToSet(held[u])
    BY <1>6 DEF PoolInv, MemInv, BeingMade
  <2>2. CASE b = x
    BY <2>1, <2>2, <1>2, <1>5
  <2>3. CASE b # x
    <3>1. \A u \in Threads : b \in ToSet(held'[u]) <=> b \in ToSet(held[u])
      BY <1>8, <2>3
    <3> QED BY <2>1, <2>3, <3>1, <1>5
  <2> QED BY <2>2, <2>3
<1>14. CounterSettles'
  <2> DEFINE m == Cardinality(InState(pc, "popped"))
             n == Cardinality(InState(pc, "pushed"))
             c == Len(free) + m - n
  <2>1. /\ InState(pc', "pushed") = InState(pc, "pushed") \cup {t} /\ t \notin InState(pc, "pushed")
        /\ InState(pc', "popped") = InState(pc, "popped")
    BY <1>1, <1>7 DEF InState
  <2>2. Cardinality(InState(pc', "pushed")) = n + 1 /\ m \in Nat /\ n \in Nat
    BY ONLY <2>1, StateFinite, FS_AddElement
  <2>3. pool = "ready" => available = c % (UsizeMax + 1)
    BY DEF PoolInv, CounterSettles, InState
  <2>4. Len(free) \in Nat
    BY PoolTypes
  <2> HIDE DEF m, n
  <2>5. Len(free') + m - (n + 1) = c
    BY <1>5, <2>2, <2>4
  <2>6. Len(free') + Cardinality(InState(pc', "popped")) - Cardinality(InState(pc', "pushed")) = c
    BY <2>1, <2>2, <2>5 DEF m
  <2> HIDE DEF c
  <2>7. pool' = "ready" => available' = c % (UsizeMax + 1)
    BY <1>1, <2>3
  <2> QED BY <2>6, <2>7 DEF CounterSettles, InState
<1> QED BY <1>9, <1>10, <1>11, <1>12, <1>13, <1>14 DEF PoolInv

(* The last owner of the free list drops the buffers on it.                *)
LEMMA ListDropped ==
  ASSUME PoolTypeOK, PoolInv, Drop(Made), free' = <<>>, pool' = "dropped",
         pool \in {"ready", "dropped"},
         \A t \in Threads : held[t] = <<>> /\ pc[t] # "popped" /\ pc'[t] # "popped",
         UNCHANGED <<step, transit, held>>
  PROVE  mem' \in [Bufs -> Memory] /\ free' \in Seq(Bufs) /\ PoolInv'
<1>1. mem' \in [Bufs -> Memory] /\ free' \in Seq(Bufs)
  <2>1. Unmapped \in Memory
    BY DEF Memory, Unmapped
  <2>2. mem \in [Bufs -> Memory]
    BY DEF PoolTypeOK
  <2>3. mem' \in [Bufs -> Memory]
    BY <2>1, <2>2 DEF Drop
  <2>4. free' \in Seq(Bufs)
    OBVIOUS
  <2> QED BY <2>3, <2>4
<1>2. Made' = {} /\ IsInjective(free') /\ \A t \in Threads : transit[t] = NoBuf /\ ToSet(held[t]) = {}
  BY DEF Made, ToSet, IsInjective, PoolInv, TransitInv
<1>3. step = "idle"
  BY DEF PoolInv, StageInv
<1>4. StageInv' /\ FreeInv' /\ CounterSettles'
  BY <1>2, <1>3 DEF StageInv, FreeInv, CounterSettles
<1>5. TransitInv' /\ HeldInv'
  BY <1>2 DEF PoolInv, TransitInv, HeldInv
<1>6. MemInv'
  <2> SUFFICES ASSUME NEW b \in Bufs PROVE mem'[b].from = "none"
    BY <1>2, <1>3, PoolAssumption DEF MemInv, BeingMade
  <2>1. b \notin Made => mem[b].from = "none"
    BY <1>2, <1>3, PoolAssumption DEF PoolInv, MemInv, BeingMade
  <2> QED BY <2>1 DEF Drop, Unmapped
<1> QED BY <1>1, <1>4, <1>5, <1>6 DEF PoolInv

LEMMA CountReturnedKeeps ==
  ASSUME PoolTypeOK, PoolInv, NEW t \in Threads, CountReturned(t)
  PROVE  PoolTypeOK' /\ PoolInv'
<1> DEFINE last_ == pool = "dropped" /\ ListHolders(t) = {} /\ held[t] = <<>>
<1>1. /\ pc[t] = "pushed" /\ pc' = [pc EXCEPT ![t] = "idle"]
      /\ available' = (available + 1) % (UsizeMax + 1)
      /\ UNCHANGED <<env, dmaEnabled, pool, bufSize, step, transit, held>>
      /\ last_ => Drop(Made) /\ free' = <<>>
      /\ ~ last_ => UNCHANGED <<mem, free>>
  BY DEF CountReturned, building
<1>2. \A u \in Threads : pc'[u] = IF u = t THEN "idle" ELSE pc[u]
  BY <1>1 DEF PoolTypeOK
<1>3. pool \notin {"none", "building", "failed"} /\ step = "idle"
  BY <1>1 DEF PoolInv, StageInv
<1>4. available' \in 0..UsizeMax
  <2>1. available \in Int /\ UsizeMax \in Nat
    BY PoolTypes
  <2> QED BY ONLY <1>1, <2>1
<1>5. pc' \in [Threads -> {"idle", "popped", "pushed"}]
  BY <1>1 DEF PoolTypeOK
<1>6. CASE last_
  <2>1. \A u \in Threads : held[u] = <<>> /\ pc[u] # "popped" /\ pc'[u] # "popped"
    BY <1>1, <1>2, <1>6 DEF ListHolders
  <2>2. mem' \in [Bufs -> Memory] /\ free' \in Seq(Bufs) /\ PoolInv'
    BY <1>1, <1>6, <2>1, ListDropped
  <2> QED BY <1>1, <1>4, <1>5, <2>2 DEF PoolTypeOK
<1>7. CASE ~ last_
  <2>1. PoolTypeOK'
    BY <1>1, <1>4, <1>5, <1>7 DEF PoolTypeOK
  <2>2. Made' = Made /\ FreeInv' /\ HeldInv'
    BY <1>1, <1>7 DEF Made, PoolInv, FreeInv, HeldInv
  <2>3. StageInv'
    BY <1>1, <1>3 DEF StageInv
  <2>4. TransitInv'
    BY <1>1, <1>2, <2>2 DEF PoolInv, TransitInv
  <2>5. MemInv'
    BY <1>1, <1>3, <1>7, <2>2 DEF PoolInv, MemInv, BeingMade
  <2>6. CounterSettles'
    <3> DEFINE m == Cardinality(InState(pc, "popped"))
               n == Cardinality(InState(pc, "pushed"))
               c == Len(free) + m - n
    <3>1. /\ InState(pc', "pushed") = InState(pc, "pushed") \ {t} /\ t \in InState(pc, "pushed")
          /\ InState(pc', "popped") = InState(pc, "popped")
      BY <1>1, <1>2 DEF InState
    <3>2. Cardinality(InState(pc', "pushed")) = n - 1 /\ m \in Nat /\ n \in Nat
      BY ONLY <3>1, StateFinite, FS_RemoveElement
    <3>3. pool = "ready" => available = c % (UsizeMax + 1)
      BY DEF PoolInv, CounterSettles, InState
    <3>4. Len(free) \in Nat /\ UsizeMax + 1 \in Nat \ {0} /\ free' = free
      BY <1>1, <1>7, PoolTypes
    <3> HIDE DEF m, n
    <3>5. Len(free) + m - (n - 1) = c + 1 /\ c \in Int
      BY ONLY <3>2, <3>4
    <3>6. Len(free') + Cardinality(InState(pc', "popped")) - Cardinality(InState(pc', "pushed")) = c + 1
      BY <3>1, <3>2, <3>4, <3>5 DEF m
    <3> HIDE DEF c
    <3>7. pool' = "ready" => available' = (c + 1) % (UsizeMax + 1)
      BY <1>1, <3>3, <3>4, <3>5, CountStep
    <3> QED BY <3>6, <3>7 DEF CounterSettles, InState
  <2> QED BY <2>1, <2>2, <2>3, <2>4, <2>5, <2>6 DEF PoolInv
<1> QED BY <1>6, <1>7

LEMMA DropPoolKeeps ==
  ASSUME PoolTypeOK, PoolInv, DropPool
  PROVE  PoolTypeOK' /\ PoolInv'
<1> DEFINE last_ == \A t \in Threads : held[t] = <<>> /\ pc[t] = "idle"
<1>1. /\ pool = "ready" /\ pool' = "dropped"
      /\ UNCHANGED <<env, dmaEnabled, bufSize, step, available, pc, transit, held>>
      /\ last_ => Drop(Made) /\ free' = <<>>
      /\ ~ last_ => UNCHANGED <<mem, free>>
  BY DEF DropPool, handles
<1>2. CASE last_
  <2>1. mem' \in [Bufs -> Memory] /\ free' \in Seq(Bufs) /\ PoolInv'
    BY <1>1, <1>2, ListDropped
  <2> QED BY <1>1, <2>1 DEF PoolTypeOK
<1>3. CASE ~ last_
  <2>1. PoolTypeOK'
    BY <1>1, <1>3 DEF PoolTypeOK
  <2>2. FreeInv' /\ TransitInv' /\ HeldInv' /\ Made' = Made /\ Current' = Current
    BY <1>1, <1>3, HandlesStay
  <2>3. StageInv' /\ CounterSettles'
    BY <1>1 DEF PoolInv, StageInv, CounterSettles
  <2>4. MemInv'
    BY <1>1, <1>3, <2>2 DEF PoolInv, MemInv, BeingMade
  <2> QED BY <2>1, <2>2, <2>3, <2>4 DEF PoolInv
<1> QED BY <1>2, <1>3

LEMMA PoolNextKeeps ==
  ASSUME PoolTypeOK, PoolInv, PoolNext
  PROVE  PoolTypeOK' /\ PoolInv'
BY BuildKeeps, DropPoolKeeps, AcquireKeeps, CountAcquiredKeeps, CountReturnedKeeps,
   ReturnBufKeeps DEF PoolNext

-----------------------------------------------------------------------------
(* Places counts what PoolInv says of sets: a buffer with memory is in one *)
(* place, any other in none.                                               *)
LEMMA AtMostOne ==
  ASSUME NEW S, \A x, y \in S : x = y
  PROVE  Cardinality(S) = IF S = {} THEN 0 ELSE 1
<1>1. CASE S = {}
  BY <1>1, FS_EmptySet
<1>2. CASE S # {}
  <2>1. PICK x : S = {x}
    BY <1>2
  <2> QED BY <1>2, <2>1, FS_Singleton
<1> QED BY <1>1, <1>2

LEMMA OnePlace ==
  ASSUME PoolTypeOK, PoolInv, NEW b \in Bufs
  PROVE  Places(b) = IF mem[b].from = "none" THEN 0 ELSE 1
<1> DEFINE F == {i \in DOMAIN free : free[i] = b}
           T == {t \in Threads : transit[t] = b}
           H == {p \in Threads \X (1..Cardinality(Bufs)) :
                   p[2] \in DOMAIN held[p[1]] /\ held[p[1]][p[2]] = b}
           one(P) == IF P THEN 1 ELSE 0
<1>1. Cardinality(F) = one(b \in Made)
  <2>1. \A i, j \in F : i = j
    BY DEF PoolInv, FreeInv, IsInjective
  <2>2. F # {} <=> b \in Made
    BY DEF Made, ToSet
  <2> HIDE DEF F
  <2> QED BY <2>1, <2>2, AtMostOne
<1>2. Cardinality(T) = one(\E t \in Threads : transit[t] = b)
  <2>1. \A t, u \in T : t = u
    BY PoolTypes DEF PoolInv, TransitInv
  <2>2. T # {} <=> \E t \in Threads : transit[t] = b
    OBVIOUS
  <2> HIDE DEF T
  <2> QED BY <2>1, <2>2, AtMostOne
<1>3. Cardinality(H) = one(\E t \in Threads : b \in ToSet(held[t]))
  <2>1. ASSUME NEW p \in H, NEW r \in H PROVE p = r
    <3>1. /\ p = <<p[1], p[2]>> /\ r = <<r[1], r[2]>> /\ p[1] \in Threads /\ r[1] \in Threads
          /\ p[2] \in DOMAIN held[p[1]] /\ r[2] \in DOMAIN held[r[1]]
          /\ held[p[1]][p[2]] = b /\ held[r[1]][r[2]] = b
      OBVIOUS
    <3>2. b \in ToSet(held[p[1]]) /\ b \in ToSet(held[r[1]])
      BY <3>1 DEF ToSet
    <3>3. p[1] = r[1]
      BY <3>1, <3>2 DEF PoolInv, HeldInv
    <3>4. p[2] = r[2]
      BY <3>1, <3>3 DEF PoolInv, HeldInv, IsInjective
    <3> QED BY <3>1, <3>3, <3>4
  <2>2. ASSUME NEW t \in Threads, b \in ToSet(held[t]) PROVE H # {}
    <3>1. PICK k \in DOMAIN held[t] : held[t][k] = b
      BY <2>2 DEF ToSet
    <3>2. held[t] \in Seq(Bufs) /\ IsInjective(held[t])
      BY PoolTypes DEF PoolInv, HeldInv
    <3>3. Len(held[t]) <= Cardinality(Bufs) /\ Cardinality(Bufs) \in Nat
      <4>1. Cardinality(ToSet(held[t])) = Len(held[t]) /\ ToSet(held[t]) \in SUBSET Bufs
        BY <3>2, CountOnce
      <4>2. Cardinality(ToSet(held[t])) <= Cardinality(Bufs)
        BY <4>1, PoolAssumption, FS_Subset
      <4> QED BY <4>1, <4>2, PoolAssumption, FS_CardinalityType
    <3>4. k \in 1..Cardinality(Bufs)
      <4>1. k \in 1..Len(held[t]) /\ Len(held[t]) \in Nat
        BY <3>2
      <4> QED BY ONLY <4>1, <3>3
    <3>5. <<t, k>> \in H
      BY <3>1, <3>4
    <3> QED BY <3>5
  <2>3. ASSUME NEW p \in H PROVE \E t \in Threads : b \in ToSet(held[t])
    BY <2>3 DEF ToSet
  <2> HIDE DEF H
  <2>4. H # {} <=> \E t \in Threads : b \in ToSet(held[t])
    BY <2>2, <2>3
  <2>5. \A p, r \in H : p = r
    BY <2>1
  <2> QED BY <2>4, <2>5, AtMostOne
<1>4. Places(b) = one(BeingMade(b)) + Cardinality(F) + Cardinality(T) + Cardinality(H)
  BY DEF Places
<1> HIDE DEF F, T, H
<1>5. Places(b) = one(BeingMade(b)) + one(b \in Made) + one(\E t \in Threads : transit[t] = b)
                  + one(\E t \in Threads : b \in ToSet(held[t]))
  BY ONLY <1>1, <1>2, <1>3, <1>4
<1>6. /\ BeingMade(b) => b \notin Made
      /\ BeingMade(b) => \A t \in Threads : transit[t] # b /\ b \notin ToSet(held[t])
  <2> SUFFICES ASSUME BeingMade(b)
               PROVE  b \notin Made /\ \A t \in Threads : transit[t] # b /\ b \notin ToSet(held[t])
    OBVIOUS
  <2>1. pool = "building" /\ b = Current
    BY DEF BeingMade, PoolInv, StageInv
  <2> QED BY <2>1, WhileBuilding, PoolTypes
<1>7. /\ b \in Made => \A t \in Threads : transit[t] # b /\ b \notin ToSet(held[t])
      /\ \A t, u \in Threads : transit[t] = b => b \notin ToSet(held[u])
  BY DEF PoolInv, TransitInv, HeldInv
<1>8. mem[b].from # "none" <=>
        \/ BeingMade(b)
        \/ b \in Made
        \/ \E t \in Threads : transit[t] = b
        \/ \E t \in Threads : b \in ToSet(held[t])
  BY DEF PoolInv, MemInv
<1> DEFINE W == BeingMade(b)
           X == b \in Made
           Y == \E t \in Threads : transit[t] = b
           Z == \E t \in Threads : b \in ToSet(held[t])
<1>9. /\ W => ~ X /\ ~ Y /\ ~ Z
      /\ X => ~ Y /\ ~ Z
      /\ Y => ~ Z
  BY <1>6, <1>7, Zenon
<1>10. mem[b].from # "none" <=> W \/ X \/ Y \/ Z
  BY <1>8, Zenon
<1>11. Places(b) = one(W) + one(X) + one(Y) + one(Z)
  BY <1>5
<1> HIDE DEF W, X, Y, Z
<1>12. CASE W
  BY ONLY <1>9, <1>10, <1>11, <1>12
<1>13. CASE ~ W /\ X
  BY ONLY <1>9, <1>10, <1>11, <1>13
<1>14. CASE ~ W /\ ~ X /\ Y
  BY ONLY <1>9, <1>10, <1>11, <1>14
<1>15. CASE ~ W /\ ~ X /\ ~ Y
  BY ONLY <1>9, <1>10, <1>11, <1>15
<1> QED BY ONLY <1>12, <1>13, <1>14, <1>15

-----------------------------------------------------------------------------
(* The pool in the runtime. *)

(* Every other step of the runtime leaves the pool alone; the environment  *)
(* may come and go.                                                        *)
LEMMA PoolStays ==
  ASSUME PoolTypeOK, PoolInv, UNCHANGED <<building, mem, free, available, handles>>,
         env' \in {"never", "up", "down"}
  PROVE  PoolTypeOK' /\ PoolInv'
<1> USE DEF building, handles
<1>1. PoolTypeOK'
  BY DEF PoolTypeOK
<1>2. FreeInv' /\ TransitInv' /\ HeldInv' /\ Made' = Made /\ Current' = Current
  BY HandlesStay
<1>3. StageInv' /\ CounterSettles'
  BY DEF PoolInv, StageInv, CounterSettles
<1>4. MemInv'
  BY <1>2 DEF PoolInv, MemInv, BeingMade
<1> QED BY <1>1, <1>2, <1>3, <1>4 DEF PoolInv

LEMMA PoolStep ==
  ASSUME PoolTypeOK, PoolInv, [Next]_vars
  PROVE  PoolTypeOK' /\ PoolInv'
<1>1. env \in {"never", "up", "down"}
  BY DEF PoolTypeOK
<1>2. CASE PoolNext
  BY <1>2, PoolNextKeeps
<1>3. CASE StartBackend
  BY <1>1, <1>3, PoolStays DEF StartBackend, InitEnv, Probe, FindNamespaces, AllocQpair,
                               StartUnavailable, spdkEnv
<1>4. ASSUME NEW who, Release(who) PROVE PoolTypeOK' /\ PoolInv'
  BY <1>1, <1>4, PoolStays DEF Release
<1>5. CASE UNCHANGED poolVars
  BY <1>1, <1>5, PoolStays DEF poolVars, spdkEnv
<1>6. DropBackend => Release("app")
  BY DEF DropBackend
<1>7. React => UNCHANGED poolVars \/ Release("reactor")
  BY DEF React, Spawn, Pin, SeeStop, Stop, Join
<1>8. (\E t \in Threads : DoRequest(t)) => UNCHANGED poolVars
  BY DEF DoRequest
<1>9. UNCHANGED vars => UNCHANGED poolVars
  BY DEF vars
<1> QED BY <1>2, <1>3, <1>4, <1>5, <1>6, <1>7, <1>8, <1>9 DEF Next

LEMMA PoolStart == Init => PoolTypeOK /\ PoolInv
<1> SUFFICES ASSUME Init PROVE PoolTypeOK /\ PoolInv
  OBVIOUS
<1> USE DEF Init, PoolInit
<1>1. PoolTypeOK
  <2>1. Unmapped \in Memory
    BY DEF Unmapped, Memory
  <2>2. <<>> \in Seq(Bufs)
    OBVIOUS
  <2>3. 0 \in 0..UsizeMax
    BY PoolAssumption
  <2> QED BY <2>1, <2>2, <2>3 DEF PoolTypeOK
<1>2. Made = {} /\ \A t \in Threads : ToSet(held[t]) = {} /\ transit[t] = NoBuf
  BY DEF Made, ToSet
<1>3. StageInv /\ FreeInv /\ CounterSettles
  BY DEF StageInv, FreeInv, CounterSettles, IsInjective
<1>4. TransitInv /\ HeldInv
  BY <1>2 DEF TransitInv, HeldInv, IsInjective
<1>5. MemInv
  BY <1>2, PoolAssumption DEF MemInv, BeingMade, Unmapped
<1> QED BY <1>1, <1>3, <1>4, <1>5 DEF PoolInv

(* Types of the pool, and: each buffer with memory is in the hands of one; *)
(* nobody has one before the pool is ready; the counter differs from the   *)
(* list by the threads between their two steps.                            *)
THEOREM PoolInvariant == Spec => [](PoolTypeOK /\ PoolInv)
<1>1. PoolTypeOK /\ PoolInv /\ [Next]_vars => (PoolTypeOK /\ PoolInv)'
  BY PoolStep
<1> QED BY <1>1, PoolStart, PTL DEF Spec

(* Whatever system call fails while the pool is built, and whoever goes    *)
(* last, a mapping belongs to one owner and none is forgotten.             *)
THEOREM MappingsStayAccounted == Spec => []MappingsAccounted
<1>1. PoolTypeOK /\ PoolInv => MappingsAccounted
  BY OnePlace DEF MappingsAccounted
<1> QED BY <1>1, PoolInvariant, PTL

(* The counter agrees with the list when nobody is between the two, across *)
(* the wraparound of usize.                                                *)
THEOREM CounterAgrees == Spec => []CounterSettles
<1>1. PoolInv => CounterSettles
  BY DEF PoolInv
<1> QED BY <1>1, PoolInvariant, PTL

-----------------------------------------------------------------------------
(* The backend: its owners, the buffers it is given, its answers. *)

LEMMA RuntimeStart == Init => RuntimeInv
<1> SUFFICES ASSUME Init PROVE RuntimeInv
  OBVIOUS
<1>1. RuntimeTypeOK /\ BackendInv
  BY DEF Init, RuntimeTypeOK, BackendInv
<1>2. BufferInv
  BY DEF Init, PoolInit, BufferInv, Unmapped
<1>3. AnswerInv
  BY DEF Init, AnswerInv
<1> QED BY <1>1, <1>2, <1>3 DEF RuntimeInv

(* The pool knows nothing of the environment but whether to ask it.        *)
LEMMA PoolLeavesEnv ==
  ASSUME PoolNext
  PROVE  env' = env
<1> USE DEF spdkEnv
<1>1. CASE BuildPool
  BY <1>1 DEF BuildPool, NewPool, BeginAlloc, NewFails, Zmalloc, MapHuge, LockHuge, MapPlain,
              LockPlain, Finish, Map, Pushed
<1>2. CASE DropPool
  BY <1>2 DEF DropPool
<1>3. ASSUME NEW t \in Threads, Acquire(t) \/ CountAcquired(t) \/ CountReturned(t)
      PROVE  env' = env
  BY <1>3 DEF Acquire, CountAcquired, CountReturned
<1>4. ASSUME NEW t \in Threads, NEW i \in DOMAIN held[t], ReturnBuf(t, i)
      PROVE  env' = env
  BY <1>4 DEF ReturnBuf
<1> QED BY <1>1, <1>2, <1>3, <1>4 DEF PoolNext

(* The environment goes down with the last owner only.                     *)
LEMMA BackendStep ==
  ASSUME RuntimeTypeOK, BackendInv, [Next]_vars
  PROVE  RuntimeTypeOK' /\ BackendInv'
<1> USE DEF RuntimeTypeOK, BackendInv
<1>1. CASE UNCHANGED <<env, probe, backend, owners>>
  BY <1>1 DEF NamespacesOk
<1>2. CASE StartBackend
  <2>1. CASE InitEnv
    BY <2>1 DEF InitEnv, NamespacesOk
  <2>2. ASSUME NEW n \in 0..MaxControllers, Probe(n) PROVE RuntimeTypeOK' /\ BackendInv'
    BY <2>2 DEF Probe, NamespacesOk, spdkEnv
  <2>3. CASE FindNamespaces
    BY <2>3 DEF FindNamespaces, NamespacesOk, spdkEnv
  <2>4. CASE AllocQpair
    BY <2>4 DEF AllocQpair, NamespacesOk, spdkEnv
  <2>5. CASE StartUnavailable
    BY <2>5 DEF StartUnavailable, NamespacesOk, spdkEnv
  <2> QED BY <1>2, <2>1, <2>2, <2>3, <2>4, <2>5 DEF StartBackend
<1>3. ASSUME NEW who \in owners, Release(who) PROVE RuntimeTypeOK' /\ BackendInv'
  <2>1. owners' = owners \ {who} /\ probe' = probe /\ backend' = backend /\ backend # "none"
    BY <1>3 DEF Release
  <2>2. env' = env \/ owners' = {}
    BY <1>3 DEF Release
  <2> QED BY <2>1, <2>2 DEF NamespacesOk
<1>4. CASE Spawn
  BY <1>4 DEF Spawn, poolVars, spdkEnv, runtime, NamespacesOk
<1>5. CASE PoolNext /\ UNCHANGED <<runtime, owners>>
  BY <1>1, <1>5, PoolLeavesEnv DEF runtime
<1>6. DropBackend => "app" \in owners /\ Release("app")
  BY DEF DropBackend
<1>7. React => \/ Spawn
               \/ UNCHANGED <<env, probe, backend, owners>>
               \/ Release("reactor")
  BY DEF React, Pin, SeeStop, Stop, Join, poolVars, spdkEnv, runtime
<1>8. (\E t \in Threads : DoRequest(t)) \/ UNCHANGED vars
        => UNCHANGED <<env, probe, backend, owners>>
  BY DEF DoRequest, vars, poolVars, spdkEnv, runtime
<1>9. ASSUME Release("reactor"), "reactor" \notin owners PROVE RuntimeTypeOK' /\ BackendInv'
  <2>1. UNCHANGED <<env, probe, backend, owners>>
    BY <1>9 DEF Release
  <2> QED BY <1>1, <2>1
<1> QED BY <1>1, <1>2, <1>3, <1>4, <1>5, <1>6, <1>7, <1>8, <1>9 DEF Next

(* Memory is passed for SPDK's only as SPDK gives it.                      *)
DmaIsSpdk(record) == record.backing = "SpdkDma" => record.from = "spdk"

LEMMA BuildMarksDma ==
  ASSUME PoolTypeOK, BufferInv, BuildPool
  PROVE  \A b \in Bufs : DmaIsSpdk(mem'[b])
<1>1. mem \in [Bufs -> Memory] /\ \A b \in Bufs : DmaIsSpdk(mem[b])
  BY DEF PoolTypeOK, BufferInv, DmaIsSpdk
<1>2. DmaIsSpdk(Unmapped)
  BY DEF DmaIsSpdk, Unmapped
<1>3. ASSUME NEW backing \in {"none", "HugePage", "LockedFallback", "PageableFallback"},
             NEW l \in BOOLEAN
      PROVE  DmaIsSpdk(Mapped(backing, l))
  BY DEF DmaIsSpdk, Mapped
<1>4. ASSUME NEW record, DmaIsSpdk(record), mem' = [mem EXCEPT ![Current] = record]
      PROVE  \A b \in Bufs : DmaIsSpdk(mem'[b])
  BY <1>1, <1>4
<1>5. ASSUME NEW S, Drop(S) PROVE \A b \in Bufs : DmaIsSpdk(mem'[b])
  BY <1>1, <1>2, <1>5 DEF Drop
<1>6. CASE mem' = mem
  BY <1>1, <1>6
<1>7. CASE NewFails
  BY <1>5, <1>7 DEF NewFails
<1>8. CASE Zmalloc
  <2>1. DmaIsSpdk([from |-> "spdk", backing |-> "SpdkDma", locked |-> TRUE, phys |-> TRUE])
    BY DEF DmaIsSpdk
  <2> QED BY <1>2, <1>4, <1>8, <2>1 DEF Zmalloc, Pushed, Map
<1>9. CASE MapHuge \/ LockHuge \/ LockPlain
  BY <1>2, <1>3, <1>4, <1>9 DEF MapHuge, LockHuge, LockPlain, Map
<1>10. CASE MapPlain
  BY <1>3, <1>4, <1>7, <1>10 DEF MapPlain, Map
<1>11. CASE Finish
  <2>1. PICK phys \in BOOLEAN : Pushed([mem[Current] EXCEPT !.phys = phys])
    BY <1>11 DEF Finish
  <2>2. CASE Current \in Bufs
    <3>1. mem[Current] \in Memory /\ DmaIsSpdk(mem[Current])
      BY <1>1, <2>2
    <3>2. DmaIsSpdk([mem[Current] EXCEPT !.phys = phys])
      BY <3>1 DEF DmaIsSpdk, Memory
    <3> QED BY <1>4, <2>1, <3>2 DEF Pushed
  <2>3. CASE Current \notin Bufs
    BY <1>1, <2>1, <2>3 DEF Pushed
  <2> QED BY <2>2, <2>3
<1>12. (\E size \in Sizes : NewPool(size)) => mem' = mem
  BY DEF NewPool
<1>13. BeginAlloc => NewFails \/ mem' = mem
  BY DEF BeginAlloc
<1> QED BY <1>6, <1>7, <1>8, <1>9, <1>10, <1>11, <1>12, <1>13 DEF BuildPool

(* BeginAlloc is the only way past a length that cannot be rounded.        *)
LEMMA BuildKnowsLength ==
  ASSUME PoolTypeOK, PoolInv, BufferInv, BuildPool
  PROVE  \/ BufLen' # -1
         \/ pool' \in {"none", "failed"}
         \/ pool' = "building" /\ step' = "idle" /\ free' = <<>>
<1>1. CASE \E size \in Sizes : NewPool(size)
  BY <1>1 DEF NewPool, PoolInv, StageInv
<1>2. BufLen' = BufLen \/ bufSize' # bufSize
  BY DEF BufLen
<1>3. CASE NewFails
  BY <1>3 DEF NewFails
<1>4. CASE step # "idle" /\ bufSize' = bufSize
  BY <1>2, <1>4 DEF PoolInv, StageInv, BufferInv
<1>5. CASE BeginAlloc
  BY <1>2, <1>3, <1>5 DEF BeginAlloc
<1>6. Zmalloc \/ MapHuge \/ LockHuge \/ LockPlain \/ Finish => step # "idle" /\ bufSize' = bufSize
  BY DEF Zmalloc, MapHuge, LockHuge, LockPlain, Finish, Map, Pushed
<1>7. MapPlain => NewFails \/ (step # "idle" /\ bufSize' = bufSize)
  BY DEF MapPlain, Map
<1> QED BY <1>1, <1>3, <1>4, <1>5, <1>6, <1>7 DEF BuildPool

LEMMA BufferStep ==
  ASSUME PoolTypeOK, PoolInv, BufferInv, [Next]_vars
  PROVE  BufferInv'
<1>1. CASE UNCHANGED <<mem, building, free>>
  BY <1>1 DEF BufferInv, BufLen, building
<1>2. CASE BuildPool
  BY <1>2, BuildMarksDma, BuildKnowsLength DEF BufferInv, DmaIsSpdk
<1>3. ASSUME bufSize' = bufSize, pool \in {"ready", "dropped"}, pool' \in {"ready", "dropped"},
             mem' = mem \/ Drop(Made)
      PROVE  BufferInv'
  <2>1. BufLen' = BufLen /\ BufLen # -1
    BY <1>3 DEF BufLen, BufferInv
  <2>2. ASSUME NEW b \in Bufs, mem'[b].backing = "SpdkDma" PROVE mem'[b].from = "spdk"
    BY <1>3, <2>2 DEF Drop, Unmapped, BufferInv
  <2> QED BY <2>1, <2>2 DEF BufferInv
<1>4. ASSUME NEW t \in Threads, pc[t] # "idle" \/ held[t] # <<>>
      PROVE  pool \in {"ready", "dropped"}
  BY <1>4 DEF PoolInv, StageInv, PoolTypeOK
<1>5. CASE DropPool
  BY <1>3, <1>5 DEF DropPool
<1>6. ASSUME NEW t \in Threads, Acquire(t) \/ CountAcquired(t) PROVE BufferInv'
  <2>1. UNCHANGED <<mem, bufSize, pool>>
    BY <1>6 DEF Acquire, CountAcquired, building
  <2>2. pool \in {"ready", "dropped"}
    BY <1>4, <1>6 DEF Acquire, CountAcquired
  <2> QED BY <1>3, <2>1, <2>2
<1>7. ASSUME NEW t \in Threads, CountReturned(t) PROVE BufferInv'
  <2>1. UNCHANGED <<bufSize, pool>> /\ (mem' = mem \/ Drop(Made))
    BY <1>7 DEF CountReturned, building
  <2>2. pool \in {"ready", "dropped"}
    BY <1>4, <1>7 DEF CountReturned
  <2> QED BY <1>3, <2>1, <2>2
<1>8. ASSUME NEW t \in Threads, NEW i \in DOMAIN held[t], ReturnBuf(t, i) PROVE BufferInv'
  <2>1. UNCHANGED <<mem, bufSize, pool>>
    BY <1>8 DEF ReturnBuf, building
  <2>2. held[t] # <<>>
    OBVIOUS
  <2> QED BY <1>3, <1>4, <2>1, <2>2
<1>9. CASE PoolNext
  BY <1>2, <1>5, <1>6, <1>7, <1>8, <1>9 DEF PoolNext
<1>10. StartBackend \/ DropBackend \/ React \/ (\E t \in Threads : DoRequest(t)) \/ UNCHANGED vars
         => UNCHANGED <<mem, building, free>>
  BY DEF StartBackend, DropBackend, Release, React, Spawn, Pin, SeeStop, Stop, Join, DoRequest,
         vars, poolVars
<1> QED BY <1>1, <1>9, <1>10 DEF Next

(* Only DoRequest answers, and it changes nothing an answer depends on.    *)
LEMMA AnswerStep ==
  ASSUME AnswerInv, [Next]_vars
  PROVE  AnswerInv'
<1> USE DEF AnswerInv
<1>1. ASSUME NEW t \in Threads, NEW r, UNCHANGED <<held, mem, backend, bufSize>>
      PROVE  Request(t, r)' = Request(t, r)
  <2>1. BufLen' = BufLen /\ held' = held /\ mem' = mem /\ backend' = backend
    BY <1>1 DEF BufLen
  <2> QED BY ONLY <2>1 DEF Request, Answer
<1>2. ASSUME NEW t \in Threads, DoRequest(t) PROVE AnswerInv'
  <2>1. UNCHANGED <<held, mem, backend, bufSize, owners>> /\ "app" \in owners
    BY <1>2 DEF DoRequest, poolVars, building, handles, runtime
  <2>2. PICK r \in Requests : last' = Request(t, r)
    BY <1>2 DEF DoRequest
  <2> QED BY <1>1, <2>1, <2>2
<1>3. CASE UNCHANGED vars
  <2>1. UNCHANGED <<held, mem, backend, bufSize, owners, last>>
    BY <1>3 DEF vars, poolVars, building, handles, runtime
  <2>2. NoAnswer' = NoAnswer
    BY DEF NoAnswer
  <2> QED BY <1>1, <2>1, <2>2
<1>4. last' = NoAnswer => AnswerInv'
  BY DEF NoAnswer
<1> QED BY <1>2, <1>3, <1>4 DEF Next

(* Types of the backend, and: whoever has one has an environment that is   *)
(* up and namespaces that are whole, and what a request was answered it    *)
(* would be answered again until something else happens.                   *)
THEOREM RuntimeInvariant == Spec => [](PoolTypeOK /\ PoolInv /\ RuntimeInv)
<1>1. PoolTypeOK /\ PoolInv /\ RuntimeInv /\ [Next]_vars => RuntimeInv'
  BY BackendStep, BufferStep, AnswerStep DEF RuntimeInv
<1> QED BY <1>1, RuntimeStart, PoolInvariant, PTL DEF Spec

-----------------------------------------------------------------------------
(* The sums over the buffers of a request, which are of one length. *)

LEMMA LeastOf ==
  ASSUME NEW S \in SUBSET Nat, S # {}
  PROVE  Min(S) \in S /\ \A y \in S : Min(S) <= y
<1> DEFINE lt == {ss \in Nat \X Nat : ss[1] < ss[2]}
<1>1. IsWellFoundedOn(lt, Nat)
  <2>1. OpToRel(<, Nat) = lt
    BY DEF OpToRel
  <2> QED BY <2>1, NatLessThanWellFounded
<1> HIDE DEF lt
<1>2. PICK x \in S : \A y \in S : ~ (<<y, x>> \in lt)
  BY <1>1, WFMin
<1>3. \A y \in S : ~ (y < x)
  BY <1>2 DEF lt
<1>4. \A y \in S : x <= y
  BY <1>3
<1> QED BY <1>4 DEF Min

LEMMA GreatestOf ==
  ASSUME NEW n \in Nat, NEW s \in SUBSET (1..n), s # {}
  PROVE  /\ Max(s) \in s
         /\ Cardinality(s) \in Nat \ {0}
         /\ s \ {Max(s)} \in SUBSET (1..n) /\ Cardinality(s \ {Max(s)}) = Cardinality(s) - 1
<1> DEFINE below == {n - x : x \in s}
<1>1. below \in SUBSET Nat /\ below # {}
  <2>1. ASSUME NEW x \in s PROVE n - x \in Nat
    <3>1. x \in 1..n
      OBVIOUS
    <3> QED BY ONLY <3>1, n \in Nat
  <2> QED BY <2>1
<1>2. PICK x \in s : Min(below) = n - x
  BY <1>1, LeastOf
<1>3. \A y \in s : x >= y
  <2> SUFFICES ASSUME NEW y \in s PROVE x >= y
    OBVIOUS
  <2>1. n - y \in below
    OBVIOUS
  <2>2. n - x <= n - y
    BY <1>1, <1>2, <2>1, LeastOf
  <2>3. x \in Nat /\ y \in Nat
    OBVIOUS
  <2> QED BY ONLY <2>2, <2>3, n \in Nat
<1>4. Max(s) \in s
  BY <1>3 DEF Max
<1>5. IsFiniteSet(s)
  <2>1. IsFiniteSet(1..n)
    BY FS_Interval
  <2> QED BY <2>1, FS_Subset
<1>6. Cardinality(s) \in Nat /\ Cardinality(s) # 0
  BY <1>5, FS_CardinalityType, FS_EmptySet
<1>7. Cardinality(s \ {Max(s)}) = Cardinality(s) - 1
  BY <1>4, <1>5, FS_RemoveElement
<1> QED BY <1>4, <1>6, <1>7

(* A function of sets that is c of their size step by step is so for all.  *)
LEMMA ByCount ==
  ASSUME NEW n \in Nat, NEW h, NEW c, h[{}] = c[0],
         \A s \in SUBSET (1..n) :
           s # {} /\ h[s \ {Max(s)}] = c[Cardinality(s) - 1] => h[s] = c[Cardinality(s)]
  PROVE  h[1..n] = c[n]
<1> DEFINE Bad == {k \in Nat : \E s \in SUBSET (1..n) : Cardinality(s) = k /\ h[s] # c[k]}
<1>1. CASE Bad = {}
  <2>1. Cardinality(1..n) = n
    BY FS_Interval
  <2>2. n \notin Bad
    BY <1>1
  <2> QED BY <2>1, <2>2
<1>2. CASE Bad # {}
  <2>1. Bad \in SUBSET Nat
    OBVIOUS
  <2>2. Min(Bad) \in Bad /\ \A k \in Bad : Min(Bad) <= k
    BY <1>2, <2>1, LeastOf
  <2>3. PICK s \in SUBSET (1..n) : Cardinality(s) = Min(Bad) /\ h[s] # c[Min(Bad)]
    BY <2>2
  <2>4. s # {}
    BY <2>3, FS_EmptySet
  <2>5. h[s \ {Max(s)}] # c[Cardinality(s) - 1]
    BY <2>3, <2>4
  <2>6. /\ Cardinality(s) \in Nat \ {0} /\ s \ {Max(s)} \in SUBSET (1..n)
        /\ Cardinality(s \ {Max(s)}) = Cardinality(s) - 1
    BY <2>4, GreatestOf
  <2>7. Cardinality(s) - 1 \in Bad
    <3>1. Cardinality(s) - 1 \in Nat
      BY <2>6
    <3> QED BY <2>5, <2>6, <3>1
  <2> HIDE DEF Bad
  <2>8. Cardinality(s) <= Cardinality(s) - 1
    BY <2>2, <2>3, <2>7
  <2> QED BY ONLY <2>6, <2>8
<1> QED BY <1>1, <1>2

LEMMA TotalOfEqual ==
  ASSUME NEW n \in Nat, NEW len \in Nat
  PROVE  TotalPooledLen([i \in 1..n |-> len]) = IF n * len <= U64Max THEN n * len ELSE -1
<1> DEFINE lens == [i \in 1..n |-> len]
           add(total, x) == IF total = -1 \/ total + x > U64Max THEN -1 ELSE total + x
           sum(k) == IF k * len <= U64Max THEN k * len ELSE -1
           fold(g) == [s \in SUBSET (1..n) |-> IF s = {} THEN 0
                                               ELSE add(g[s \ {Max(s)}], lens[Max(s)])]
           h == CHOOSE g : g = fold(g)
           closed == [s \in SUBSET (1..n) |-> sum(Cardinality(s))]
           c == [k \in Nat |-> sum(k)]
<1>1. TotalPooledLen(lens) = h[1..n]
  <2>1. DOMAIN lens = 1..n
    OBVIOUS
  <2> HIDE DEF lens
  <2> QED BY <2>1, Zenon DEF TotalPooledLen, FoldLeft, MapThenFoldSet
<1>2. ASSUME NEW k \in Nat \ {0} PROVE add(sum(k - 1), len) = sum(k)
  <2>1. (k - 1) * len + len = k * len /\ (k - 1) * len \in Nat /\ k * len \in Nat
    OBVIOUS
  <2> QED BY <2>1, WidthsAssumption
<1>3. sum(0) = 0
  BY WidthsAssumption
<1> HIDE DEF add, sum
<1>4. \A s \in SUBSET (1..n) : s # {} => lens[Max(s)] = len
  BY GreatestOf
<1> HIDE DEF lens
<1>5. closed = fold(closed)
  <2> SUFFICES ASSUME NEW s \in SUBSET (1..n)
               PROVE  sum(Cardinality(s)) =
                        IF s = {} THEN 0 ELSE add(closed[s \ {Max(s)}], lens[Max(s)])
    OBVIOUS
  <2>1. CASE s = {}
    BY <1>3, <2>1, FS_EmptySet
  <2>2. CASE s # {}
    <3>1. closed[s \ {Max(s)}] = sum(Cardinality(s) - 1)
      BY <2>2, GreatestOf
    <3> HIDE DEF closed
    <3> QED BY <1>2, <1>4, <2>2, <3>1, GreatestOf
  <2> QED BY <2>1, <2>2
<1>6. h = fold(h)
  <2> HIDE DEF fold, closed
  <2> QED BY <1>5
<1>7. h[1..n] = c[n]
  <2> HIDE DEF h
  <2>1. h[{}] = c[0]
    BY <1>3, <1>6
  <2>2. ASSUME NEW s \in SUBSET (1..n), s # {}, h[s \ {Max(s)}] = c[Cardinality(s) - 1]
        PROVE  h[s] = c[Cardinality(s)]
    <3>1. Cardinality(s) \in Nat \ {0} /\ lens[Max(s)] = len
      BY <1>4, <2>2, GreatestOf
    <3>2. h[s] = add(h[s \ {Max(s)}], lens[Max(s)])
      BY <1>6, <2>2
    <3>3. h[s \ {Max(s)}] = sum(Cardinality(s) - 1)
      BY <2>2, <3>1
    <3> QED BY <1>2, <3>1, <3>2, <3>3
  <2> HIDE DEF c
  <2> QED BY <2>1, <2>2, ByCount
<1> QED BY <1>1, <1>7 DEF sum, lens

(* The first block after buffers of these lengths.                          *)
BlockAfter(sector, start, lens) ==
  FoldLeft(LAMBDA lba, len : lba + (len \div sector), start, lens)

(* The block after n buffers of one length.                                *)
BlockAfterEqual(sector, start, n, len) == start + n * (len \div sector)

LEMMA BlocksOfEqual ==
  ASSUME NEW n \in Nat, NEW len \in Nat, NEW sector \in Nat \ {0}, NEW start \in Nat,
         NEW lens, lens = [i \in 1..n |-> len]
  PROVE  BlockAfter(sector, start, lens) = BlockAfterEqual(sector, start, n, len)
<1> DEFINE fold(g) == [s \in SUBSET (1..n) |->
                         IF s = {} THEN start ELSE g[s \ {Max(s)}] + (lens[Max(s)] \div sector)]
           h == CHOOSE g : g = fold(g)
           closed == [s \in SUBSET (1..n) |-> start + Cardinality(s) * (len \div sector)]
           c == [k \in Nat |-> start + k * (len \div sector)]
<1>1. BlockAfter(sector, start, lens) = h[1..n]
  <2>1. DOMAIN lens = 1..n
    OBVIOUS
  <2> QED BY <2>1, Zenon DEF BlockAfter, FoldLeft, MapThenFoldSet
<1> DEFINE q == len \div sector
<1>2. q \in Nat
  OBVIOUS
<1> HIDE DEF q
<1>3. ASSUME NEW k \in Nat \ {0} PROVE (start + (k - 1) * q) + q = start + k * q
  <2>1. (k - 1) * q + q = k * q /\ (k - 1) * q \in Nat
    BY ONLY <1>2, k \in Nat \ {0}
  <2> QED BY ONLY <2>1, <1>2, start \in Nat, k \in Nat \ {0}
<1>4. start + 0 * q = start
  BY <1>2
<1>5. \A s \in SUBSET (1..n) : s # {} => lens[Max(s)] \div sector = q
  BY GreatestOf DEF q
<1>6. closed = fold(closed)
  <2> SUFFICES ASSUME NEW s \in SUBSET (1..n)
               PROVE  closed[s] =
                        IF s = {} THEN start ELSE closed[s \ {Max(s)}] + (lens[Max(s)] \div sector)
    OBVIOUS
  <2>1. \A u \in SUBSET (1..n) : closed[u] = start + Cardinality(u) * q
    BY DEF q
  <2> HIDE DEF closed
  <2>2. CASE s = {}
    BY <1>4, <2>1, <2>2, FS_EmptySet
  <2>3. CASE s # {}
    <3>1. closed[s \ {Max(s)}] = start + (Cardinality(s) - 1) * q /\ Cardinality(s) \in Nat \ {0}
      BY <2>1, <2>3, GreatestOf
    <3> QED BY <1>3, <1>5, <2>1, <2>3, <3>1
  <2> QED BY <2>2, <2>3
<1>7. h = fold(h)
  <2> HIDE DEF fold, closed
  <2> QED BY <1>6
<1>8. h[1..n] = c[n]
  <2> HIDE DEF h
  <2>1. \A k \in Nat : c[k] = start + k * q
    BY DEF q
  <2> HIDE DEF c
  <2>2. h[{}] = c[0]
    BY <1>4, <1>7, <2>1
  <2>3. ASSUME NEW s \in SUBSET (1..n), s # {}, h[s \ {Max(s)}] = c[Cardinality(s) - 1]
        PROVE  h[s] = c[Cardinality(s)]
    <3>1. Cardinality(s) \in Nat \ {0}
      BY <2>3, GreatestOf
    <3>2. h[s] = h[s \ {Max(s)}] + q
      BY <1>5, <1>7, <2>3
    <3>3. Cardinality(s) - 1 \in Nat
      BY <3>1
    <3> QED BY <1>3, <2>1, <2>3, <3>1, <3>2, <3>3
  <2>4. \A s \in SUBSET (1..n) :
          s # {} /\ h[s \ {Max(s)}] = c[Cardinality(s) - 1] => h[s] = c[Cardinality(s)]
    BY <2>3, Zenon
  <2> QED BY ONLY n \in Nat, <2>2, <2>4, ByCount, Zenon
<1> QED BY <1>1, <1>8 DEF BlockAfterEqual

(* The i-th segment of such buffers.                                       *)
SegmentAt(first, sector, len, i) ==
  [lba |-> first + (i - 1) * (len \div sector), count |-> len \div sector]

LEMMA SegmentOfEqual ==
  ASSUME NEW n \in Nat, NEW len \in Nat, NEW i \in 1..n,
         NEW ns, ns.sector \in Nat \ {0}, NEW range, range.lba \in Nat,
         NEW lens, lens = [k \in 1..n |-> len]
  PROVE  SegmentRange(ns, range, lens, i) = SegmentAt(range.lba, ns.sector, len, i)
<1>1. SubSeq(lens, 1, i - 1) = [k \in 1..(i - 1) |-> len]
  <2>1. \A k \in 1..(i - 1) : k \in 1..n
    OBVIOUS
  <2> QED BY <2>1
<1>2. lens[i] = len /\ i - 1 \in Nat
  OBVIOUS
<1>3. BlockAfter(ns.sector, range.lba, SubSeq(lens, 1, i - 1))
        = range.lba + (i - 1) * (len \div ns.sector)
  <2> DEFINE m == i - 1  sector == ns.sector  first == range.lba
  <2>1. m \in Nat /\ sector \in Nat \ {0} /\ first \in Nat
    BY <1>2
  <2> HIDE DEF m, sector, first
  <2>2. SubSeq(lens, 1, i - 1) = [k \in 1..m |-> len]
    BY <1>1 DEF m
  <2> DEFINE before == SubSeq(lens, 1, i - 1)
  <2> HIDE DEF before
  <2>3. BlockAfter(sector, first, before) = BlockAfterEqual(sector, first, m, len)
    <3>1. before = [k \in 1..m |-> len]
      BY <2>2 DEF before
    <3> QED BY ONLY <2>1, <3>1, len \in Nat, BlocksOfEqual
  <2> QED BY <2>3 DEF m, sector, first, before, BlockAfterEqual
<1>4. SegmentRange(ns, range, lens, i) =
        [lba |-> BlockAfter(ns.sector, range.lba, SubSeq(lens, 1, i - 1)),
         count |-> lens[i] \div ns.sector]
  BY Zenon DEF SegmentRange, BlockAfter
<1> QED BY <1>2, <1>3, <1>4 DEF SegmentAt

-----------------------------------------------------------------------------
(* Requests: bytes, blocks and namespaces. *)

LEMMA Multiple ==
  ASSUME NEW m \in Nat \ {0}, NEW q \in Nat
  PROVE  (q * m) % m = 0 /\ (q * m) \div m = q
<1>1. q * m = m * q + 0 /\ 0 \in 0..(m - 1) /\ q \in Int
  OBVIOUS
<1> QED BY <1>1, DivisionUnique

LEMMA WholeBlocks ==
  ASSUME NEW m \in Nat \ {0}, NEW x \in Nat, x % m = 0
  PROVE  x \div m \in Nat /\ (x \div m) * m = x
OBVIOUS

LEMMA BufferLength ==
  ASSUME PoolTypeOK, BufLen # -1
  PROVE  BufLen \in Nat \ {0} /\ \E k \in Nat : BufLen = k * PageSize
<1> DEFINE q == (bufSize + PageSize - 1) \div PageSize
<1>1. bufSize \in Nat /\ bufSize # 0 /\ PageSize \in Nat \ {0} /\ BufLen = q * PageSize
  <2>1. bufSize \in Nat /\ PageSize \in Nat \ {0}
    <3>1. bufSize \in 0..UsizeMax
      BY DEF PoolTypeOK
    <3>2. UsizeMax \in Nat /\ PageSize \in Nat \ {0}
      BY PoolAssumption
    <3> QED BY ONLY <3>1, <3>2
  <2>2. BufLen = IF bufSize = 0 \/ bufSize + PageSize - 1 > UsizeMax THEN -1 ELSE q * PageSize
    BY DEF BufLen, RoundUp
  <2> HIDE DEF q
  <2> QED BY <2>1, <2>2
<1>2. q \in Nat /\ q # 0
  BY ONLY <1>1
<1> HIDE DEF q
<1>3. q * PageSize \in Nat \ {0}
  BY ONLY <1>1, <1>2
<1> QED BY <1>1, <1>2, <1>3

(* The first namespace with an id.                                         *)
LEMMA FoundFirst ==
  ASSUME NEW nsid
  PROVE  /\ Find(Namespaces, nsid) # 0 =>
              /\ Find(Namespaces, nsid) \in DOMAIN Namespaces
              /\ Namespace(nsid) \in NamespaceType
<1> DEFINE I == {i \in 1..Len(Namespaces) : Namespaces[i].nsid = nsid}
<1>1. Find(Namespaces, nsid) = IF I # {} THEN Min(I) ELSE 0
  BY DEF Find, SelectInSeq
<1>2. I \in SUBSET Nat /\ I \subseteq DOMAIN Namespaces
  BY DeviceAssumption
<1>3. I # {} => Min(I) \in I
  BY <1>2, LeastOf
<1>4. \A i \in DOMAIN Namespaces : Namespaces[i] \in NamespaceType
  BY DeviceAssumption
<1> HIDE DEF I
<1> QED BY <1>1, <1>2, <1>3, <1>4 DEF Namespace

(* What a thread asks for with the buffers it holds.                       *)
Asked(t, r) ==
  [nvme |-> r.nvme, nsid |-> r.nsid, offset |-> r.offset,
   lens |-> [i \in DOMAIN held[t] |-> BufLen]]
RangeOf(t, r) == PrepareIo(Namespaces, 1, Asked(t, r))

LEMMA AskedLength ==
  ASSUME NEW t, NEW r, held[t] \in Seq(Bufs),
         BufLen \in Nat \/ (BufLen = -1 /\ held[t] = <<>>)
  PROVE  /\ BufLen * Len(held[t]) \in Nat
         /\ TotalPooledLen(Asked(t, r).lens) =
              IF BufLen * Len(held[t]) <= U64Max THEN BufLen * Len(held[t]) ELSE -1
<1> DEFINE n == Len(held[t])
<1>1. n \in Nat /\ DOMAIN held[t] = 1..n
  OBVIOUS
<1>2. PICK len \in Nat : n * len = BufLen * n /\ Asked(t, r).lens = [i \in 1..n |-> len]
  <2>1. CASE BufLen \in Nat
    BY <1>1, <2>1 DEF Asked
  <2>2. CASE BufLen = -1 /\ held[t] = <<>>
    <3>1. n = 0 /\ n * 0 = 0 /\ BufLen \in Int
      BY <2>2
    <3>2. BufLen * n = 0
      BY <3>1
    <3>3. Asked(t, r).lens = [i \in 1..n |-> 0]
      BY <1>1, <3>1 DEF Asked
    <3> QED BY <3>1, <3>2, <3>3
  <2> QED BY <2>1, <2>2
<1> HIDE DEF n
<1>3. n * len \in Nat
  BY <1>1
<1>4. TotalPooledLen([i \in 1..n |-> len]) = IF n * len <= U64Max THEN n * len ELSE -1
  BY <1>1, TotalOfEqual
<1> QED BY <1>2, <1>3, <1>4 DEF n

(* A range is one of the first namespace with the id, of whole blocks.     *)
LEMMA RangeFound ==
  ASSUME NEW t, NEW r \in Requests, NamespacesOk, held[t] \in Seq(Bufs),
         BufLen \in Nat \/ (BufLen = -1 /\ held[t] = <<>>),
         RangeOf(t, r).kind # "error"
  PROVE  LET ns == Namespace(r.nsid)
             len == BufLen * Len(held[t])
         IN /\ ns \in NamespaceType /\ NamespaceOk(ns)
            /\ \E i \in DOMAIN Namespaces : ns = Namespaces[i]
            /\ len \in Nat \ {0}
            /\ r.offset % ns.sector = 0 /\ len % ns.sector = 0
            /\ RangeOf(t, r).lba = r.offset \div ns.sector
            /\ RangeOf(t, r).lba + len \div ns.sector <= ns.capacity
<1> DEFINE ns == Namespace(r.nsid)
           len == BufLen * Len(held[t])
           total == TotalPooledLen(Asked(t, r).lens)
<1>1. /\ Asked(t, r).nsid = r.nsid /\ Asked(t, r).offset = r.offset /\ Asked(t, r).nvme = r.nvme
  BY DEF Asked
<1>2. len \in Nat /\ total = IF len <= U64Max THEN len ELSE -1
  BY AskedLength
<1>3. \A e : Error(e).kind = "error"
  BY DEF Error
<1>4. /\ total # -1 /\ Find(Namespaces, r.nsid) # 0
      /\ RangeOf(t, r) = LbaRange(ns, r.offset, total)
  <2> HIDE DEF total
  <2>1. RangeOf(t, r) =
          IF total = -1 THEN Error("length overflow")
          ELSE IF ~ r.nvme THEN Error("invalid target")
          ELSE IF Find(Namespaces, r.nsid) = 0 THEN Error("namespace not found")
          ELSE IF LbaRange(ns, r.offset, total).kind = "range" /\ 1 = 0
                 THEN Error("no queue pairs") ELSE LbaRange(ns, r.offset, total)
    BY <1>1 DEF RangeOf, PrepareIo, Namespace, total
  <2> QED BY <1>3, <2>1
<1>5. ns \in NamespaceType /\ NamespaceOk(ns) /\ \E i \in DOMAIN Namespaces : ns = Namespaces[i]
  BY <1>4, FoundFirst DEF NamespacesOk, Namespace
<1>6. total = len
  BY <1>2, <1>4
<1> HIDE DEF ns, total, len
<1>7. /\ len # 0
      /\ r.offset % ns.sector = 0 /\ len % ns.sector = 0
      /\ ~ (r.offset \div ns.sector + len \div ns.sector > ns.capacity)
      /\ RangeOf(t, r).lba = r.offset \div ns.sector
  <2> DEFINE lba == r.offset \div ns.sector
             count == len \div ns.sector
  <2>1. LbaRange(ns, r.offset, len) =
          IF len = 0 THEN Error("zero length")
          ELSE IF len > ns.maxIo THEN Error("too large")
          ELSE IF r.offset % ns.sector # 0 \/ len % ns.sector # 0 THEN Error("unaligned")
          ELSE IF lba + count > U64Max \/ lba + count > ns.capacity THEN Error("out of range")
          ELSE [kind |-> "range", error |-> "none", lba |-> lba, count |-> count]
    BY DEF LbaRange
  <2>2. RangeOf(t, r) = LbaRange(ns, r.offset, len)
    BY <1>4, <1>6
  <2> DEFINE wrong == \/ len = 0 \/ len > ns.maxIo
                      \/ r.offset % ns.sector # 0 \/ len % ns.sector # 0
                      \/ lba + count > U64Max \/ lba + count > ns.capacity
  <2> HIDE DEF lba, count
  <2>3. wrong => \E e : LbaRange(ns, r.offset, len) = Error(e)
    BY <2>1, Zenon
  <2>4. ~ wrong => LbaRange(ns, r.offset, len) =
                     [kind |-> "range", error |-> "none", lba |-> lba, count |-> count]
    BY <2>1, Zenon
  <2> HIDE DEF wrong
  <2>5. ~ wrong
    BY <1>3, <2>2, <2>3
  <2>6. RangeOf(t, r).lba = lba
    BY <2>2, <2>4, <2>5
  <2> QED BY <2>5, <2>6, Zenon DEF lba, count, wrong
<1>8. /\ r.offset \in Nat /\ ns.sector \in Nat \ {0} /\ ns.capacity \in Nat
  <2>1. r.offset \in 0..U64Max /\ U64Max \in Nat /\ U32Max \in Nat
    BY DeviceAssumption, WidthsAssumption
  <2>2. ns.sector \in 0..U32Max /\ ns.sector # 0 /\ ns.capacity \in 0..U64Max
    BY <1>5 DEF NamespaceType, NamespaceOk
  <2> QED BY ONLY <2>1, <2>2
<1>9. r.offset \div ns.sector + len \div ns.sector <= ns.capacity
  <2>1. r.offset \div ns.sector \in Nat /\ len \div ns.sector \in Nat
    BY ONLY <1>2, <1>8
  <2> QED BY ONLY <1>7, <1>8, <2>1
<1> QED BY <1>2, <1>5, <1>7, <1>9 DEF ns, len

(* The segments of an answer that were sent are those before the first one *)
(* that the native runtime refuses.                                        *)
LEMMA SentAreChecked ==
  ASSUME NEW t, NEW r, held[t] \in Seq(Bufs), Request(t, r).sent > 0
  PROVE  /\ RangeOf(t, r).kind # "error" /\ backend # "unavailable"
         /\ Request(t, r).bufs = held[t] /\ Request(t, r).request = Asked(t, r)
         /\ Request(t, r).range = RangeOf(t, r)
         /\ Request(t, r).sent \in 1..Len(held[t])
         /\ \A i \in 1..Request(t, r).sent : mem[held[t][i]].backing = "SpdkDma"
<1> DEFINE n == Len(held[t])
           fits(i) == CountFits(SegmentRange(Namespace(r.nsid), RangeOf(t, r),
                                             Asked(t, r).lens, i))
           refused == {i \in DOMAIN held[t] : ~ CheckSegment(mem[held[t][i]]) \/ ~ fits(i)}
           answer(kind, sent) == [kind |-> kind, bufs |-> held[t], request |-> Asked(t, r),
                                  range |-> RangeOf(t, r), sent |-> sent]
<1>1. Request(t, r) =
        IF RangeOf(t, r).kind = "error" THEN answer(RangeOf(t, r).error, 0)
        ELSE IF \E i \in DOMAIN held[t] : ~ FromPooled(mem[held[t][i]])
          THEN answer("no DMA", 0)
        ELSE IF backend = "unavailable" THEN answer("unavailable", 0)
        ELSE IF refused # {} THEN answer("no DMA", Min(refused) - 1)
        ELSE answer("submitted", n)
  BY DEF Request, Answer, RangeOf, Asked
<1>2. n \in Nat /\ DOMAIN held[t] = 1..n
  OBVIOUS
<1>3. refused \in SUBSET (1..n) /\ \A i \in 1..n : i \notin refused => CheckSegment(mem[held[t][i]])
  BY <1>2
<1>4. ASSUME refused # {}
      PROVE  Min(refused) \in 1..n /\ \A i \in 1..(Min(refused) - 1) : i \in 1..n /\ i \notin refused
  <2> HIDE DEF refused
  <2>1. refused \in SUBSET Nat
    BY <1>3
  <2>2. Min(refused) \in refused /\ \A i \in refused : Min(refused) <= i
    BY <1>4, <2>1, LeastOf
  <2>3. Min(refused) \in 1..n
    BY <1>3, <2>2
  <2> QED BY <1>2, <2>2, <2>3
<1> HIDE DEF refused, n
<1>5. \A kind, sent : answer(kind, sent).sent = sent
  OBVIOUS
<1> HIDE DEF answer
<1>6. \A kind : Request(t, r) # answer(kind, 0)
  <2> SUFFICES ASSUME NEW kind, Request(t, r) = answer(kind, 0) PROVE FALSE
    OBVIOUS
  <2>1. Request(t, r).sent = 0
    BY <1>5, Zenon
  <2> QED BY <2>1
<1>7. /\ RangeOf(t, r).kind # "error" /\ backend # "unavailable"
      /\ \/ Request(t, r) = answer("no DMA", Min(refused) - 1) /\ refused # {}
         \/ Request(t, r) = answer("submitted", n) /\ refused = {}
  BY <1>1, <1>6, Zenon
<1>8. /\ Request(t, r).bufs = held[t] /\ Request(t, r).request = Asked(t, r)
      /\ Request(t, r).range = RangeOf(t, r)
  <2>1. \A kind, sent : /\ answer(kind, sent).bufs = held[t]
                        /\ answer(kind, sent).request = Asked(t, r)
                        /\ answer(kind, sent).range = RangeOf(t, r)
    BY DEF answer
  <2> QED BY <1>7, <2>1
<1>9. Request(t, r).sent \in 1..n /\ \A i \in 1..Request(t, r).sent : CheckSegment(mem[held[t][i]])
  <2>1. CASE Request(t, r).sent = Min(refused) - 1 /\ refused # {}
    BY <1>2, <1>3, <1>4, <2>1
  <2>2. CASE Request(t, r).sent = n /\ refused = {}
    BY <1>2, <1>3, <2>2
  <2> QED BY <1>5, <1>7, <2>1, <2>2
<1> QED BY <1>7, <1>8, <1>9 DEF n, CheckSegment

(* A thread holds no buffer whose length was not rounded.                  *)
LEMMA HeldLength ==
  ASSUME PoolTypeOK, PoolInv, BufferInv, NEW t \in Threads
  PROVE  /\ held[t] \in Seq(Bufs)
         /\ BufLen \in Nat \/ (BufLen = -1 /\ held[t] = <<>>)
         /\ held[t] # <<>> => BufLen \in Nat \ {0}
<1>1. held[t] # <<>> => BufLen # -1
  BY DEF PoolInv, StageInv, BufferInv
<1> QED BY <1>1, PoolTypes, BufferLength

(* No block lies across the end of a page.                                 *)
SectorsDividePages == \A i \in DOMAIN Namespaces : PageSize % Namespaces[i].sector = 0

LEMMA SentIsSafe ==
  ASSUME SectorsDividePages, PoolTypeOK, PoolInv, RuntimeInv
  PROVE  SubmittedIsSafe
<1> SUFFICES ASSUME last.kind # "none", last.sent > 0
             PROVE  LET ns == Namespace(last.request.nsid)
                        lens == last.request.lens
                        Segment(i) == SegmentRange(ns, last.range, lens, i)
                    IN /\ env = "up" /\ backend = "native"
                       /\ Segment(1).lba * ns.sector = last.request.offset
                       /\ \A i \in 1..last.sent :
                            /\ mem[last.bufs[i]].from = "spdk"
                            /\ Segment(i).count * ns.sector = lens[i]
                            /\ Segment(i).lba + Segment(i).count <= ns.capacity
                            /\ i > 1 => Segment(i).lba = Segment(i - 1).lba + Segment(i - 1).count
  BY DEF SubmittedIsSafe
<1>1. /\ RuntimeTypeOK /\ BackendInv /\ BufferInv /\ "app" \in owners
      /\ \E t \in Threads, r \in Requests : last = Request(t, r)
  BY DEF RuntimeInv, AnswerInv, NoAnswer
<1>2. PICK t \in Threads, r \in Requests : last = Request(t, r)
  BY <1>1
<1> DEFINE n == Len(held[t])
           ns == Namespace(r.nsid)
           range == RangeOf(t, r)
           s == ns.sector
           q == BufLen \div s
<1>3. /\ held[t] \in Seq(Bufs) /\ n \in Nat
      /\ BufLen \in Nat \/ (BufLen = -1 /\ held[t] = <<>>)
      /\ held[t] # <<>> => BufLen \in Nat \ {0}
  BY <1>1, HeldLength
<1>4. /\ range.kind # "error" /\ backend # "unavailable"
      /\ last.bufs = held[t] /\ last.request = Asked(t, r) /\ last.range = range
      /\ last.sent \in 1..n
      /\ \A i \in 1..last.sent : mem[held[t][i]].backing = "SpdkDma"
  BY <1>2, <1>3, SentAreChecked
<1>5. env = "up" /\ backend = "native" /\ NamespacesOk
  BY <1>1, <1>4 DEF RuntimeTypeOK, BackendInv
<1>6. /\ ns \in NamespaceType /\ NamespaceOk(ns)
      /\ \E i \in DOMAIN Namespaces : ns = Namespaces[i]
      /\ BufLen * n \in Nat \ {0}
      /\ r.offset % s = 0
      /\ range.lba = r.offset \div s
      /\ range.lba + (BufLen * n) \div s <= ns.capacity
  BY <1>3, <1>4, <1>5, RangeFound
<1>7. r.offset \in Nat /\ s \in Nat \ {0} /\ ns.capacity \in Nat
  <2>1. r.offset \in 0..U64Max /\ U64Max \in Nat /\ U32Max \in Nat
    BY DeviceAssumption, WidthsAssumption
  <2>2. s \in 0..U32Max /\ s # 0 /\ ns.capacity \in 0..U64Max
    BY <1>6 DEF NamespaceType, NamespaceOk
  <2> QED BY ONLY <2>1, <2>2
<1>8. BufLen \in Nat \ {0}
  BY <1>3, <1>4
<1>9. q \in Nat /\ q * s = BufLen /\ (BufLen * n) \div s = q * n
  <2>1. PageSize % s = 0 /\ PageSize \in Nat
    BY <1>6, PoolAssumption DEF SectorsDividePages
  <2>2. PICK k \in Nat : BufLen = k * PageSize
    BY <1>8, BufferLength
  <2> DEFINE p == PageSize \div s
  <2> HIDE DEF s
  <2>3. p \in Nat /\ p * s = PageSize
    BY <1>7, <2>1, WholeBlocks
  <2> HIDE DEF p
  <2>4. BufLen = (k * p) * s /\ k * p \in Nat
    <3>1. (k * p) * s = k * (p * s)
      BY ONLY <1>7, <2>3, k \in Nat
    <3> QED BY ONLY <2>2, <2>3, <3>1, k \in Nat
  <2>5. q = k * p
    BY <1>7, <2>4, Multiple
  <2> HIDE DEF q, n
  <2>6. BufLen * n = (q * n) * s /\ q * n \in Nat
    <3>1. q \in Nat /\ BufLen = q * s
      BY ONLY <2>4, <2>5
    <3> QED BY ONLY <1>3, <1>7, <3>1
  <2>7. ((q * n) * s) \div s = q * n
    BY <1>7, <2>6, Multiple
  <2> QED BY <2>4, <2>5, <2>6, <2>7
<1>10. range.lba \in Nat /\ range.lba * s = r.offset
  <2>1. range.lba = r.offset \div s /\ r.offset % s = 0
    BY <1>6
  <2> HIDE DEF s, range
  <2> QED BY ONLY <1>7, <2>1, WholeBlocks
<1>11. /\ Asked(t, r).nsid = r.nsid /\ Asked(t, r).offset = r.offset
       /\ Asked(t, r).lens = [k \in 1..n |-> BufLen]
  BY <1>3 DEF Asked
<1>12. \A i \in 1..n : SegmentRange(ns, range, Asked(t, r).lens, i) =
                         [lba |-> range.lba + (i - 1) * q, count |-> q]
  <2> HIDE DEF range, ns
  <2>1. \A i \in 1..n : SegmentRange(ns, range, Asked(t, r).lens, i) = SegmentAt(range.lba, s, BufLen, i)
    BY <1>3, <1>7, <1>8, <1>10, <1>11, SegmentOfEqual
  <2> QED BY <2>1, Zenon DEF SegmentAt
<1> DEFINE Segment(i) == SegmentRange(ns, range, Asked(t, r).lens, i)
<1>13. \A i \in 1..n : Segment(i).lba = range.lba + (i - 1) * q /\ Segment(i).count = q
  <2> SUFFICES ASSUME NEW i \in 1..n
               PROVE  Segment(i).lba = range.lba + (i - 1) * q /\ Segment(i).count = q
    OBVIOUS
  <2>1. Segment(i) = [lba |-> range.lba + (i - 1) * q, count |-> q]
    BY <1>12
  <2> HIDE DEF Segment, range, q
  <2> QED BY <2>1
<1> HIDE DEF n, ns, range, s, q, Segment
<1>14. Segment(1).lba * s = r.offset
  <2>1. range.lba + (1 - 1) * q = range.lba
    BY ONLY <1>9, <1>10
  <2>2. 1 \in 1..n
    BY ONLY <1>3, <1>4
  <2> QED BY <1>10, <1>13, <2>1, <2>2
<1>15. ASSUME NEW i \in 1..last.sent
       PROVE  /\ mem[last.bufs[i]].from = "spdk"
              /\ Segment(i).count * s = Asked(t, r).lens[i]
              /\ Segment(i).lba + Segment(i).count <= ns.capacity
              /\ i > 1 => Segment(i).lba = Segment(i - 1).lba + Segment(i - 1).count
  <2>1. i \in 1..n
    BY <1>3, <1>4
  <2>2. mem[held[t][i]].from = "spdk"
    BY <1>1, <1>3, <1>4, <2>1 DEF BufferInv, n
  <2>3. Segment(i).count * s = Asked(t, r).lens[i]
    BY <1>9, <1>11, <1>13, <2>1
  <2>4. range.lba + (i - 1) * q + q <= range.lba + q * n
    <3>1. q * i <= q * n /\ (i - 1) * q + q = q * i
      BY ONLY <1>3, <1>9, <2>1
    <3> QED BY ONLY <1>3, <1>9, <1>10, <2>1, <3>1
  <2>5. Segment(i).lba + Segment(i).count <= ns.capacity
    <3>1. (i - 1) * q \in Nat /\ q * n \in Nat
      BY ONLY <1>3, <1>9, <2>1
    <3> QED BY <1>6, <1>7, <1>9, <1>10, <1>13, <2>1, <2>4, <3>1
  <2>6. i > 1 => Segment(i).lba = Segment(i - 1).lba + Segment(i - 1).count
    <3> SUFFICES ASSUME i > 1 PROVE Segment(i).lba = Segment(i - 1).lba + Segment(i - 1).count
      OBVIOUS
    <3>1. i - 1 \in 1..n
      BY <1>3, <2>1
    <3>2. range.lba + (i - 1) * q = (range.lba + ((i - 1) - 1) * q) + q
      BY ONLY <1>9, <1>10, <2>1, <1>3
    <3> QED BY <1>13, <2>1, <3>1, <3>2
  <2> QED BY <1>4, <2>2, <2>3, <2>5, <2>6
<1>16. /\ last.request.nsid = r.nsid /\ last.request.offset = r.offset
       /\ last.request.lens = Asked(t, r).lens
  BY <1>4, <1>11
<1> QED BY <1>4, <1>5, <1>14, <1>15, <1>16, Zenon DEF Segment, s, ns

(* Bytes that are whole blocks begin and end with one.                     *)
LEMMA WholeIsAligned ==
  ASSUME NEW ns \in NamespaceType, NamespaceOk(ns), NEW offset \in Nat, NEW len \in Nat,
         IsWhole(ns, offset, len)
  PROVE  /\ len # 0
         /\ offset % ns.sector = 0 /\ len % ns.sector = 0
         /\ offset \div ns.sector + len \div ns.sector <= ns.capacity
<1>1. PICK lba \in 0..ns.capacity, count \in 0..ns.capacity :
        /\ count > 0 /\ lba + count <= ns.capacity
        /\ BytesOfBlocks(ns, lba, count) = BytesOf(offset, len)
  BY DEF IsWhole
<1> DEFINE s == ns.sector
           first == lba * s
           size == count * s
<1>2. s \in Nat \ {0} /\ ns.capacity \in Nat
  <2>1. s \in 0..U32Max /\ s # 0 /\ ns.capacity \in 0..U64Max
    BY DEF NamespaceType, NamespaceOk
  <2> QED BY <2>1, WidthsAssumption
<1>3. lba \in Nat /\ count \in Nat \ {0}
  BY <1>1, <1>2
<1> HIDE DEF s
<1>4. first \in Nat /\ size \in Nat \ {0}
  BY <1>2, <1>3
<1>5. first..(first + size - 1) = offset..(offset + len - 1)
  BY <1>1, Zenon DEF BytesOfBlocks, BytesOf, s
<1> HIDE DEF first, size
<1>6. first = offset /\ size = len
  <2>1. first \in offset..(offset + len - 1) /\ first + size - 1 \in offset..(offset + len - 1)
    BY <1>4, <1>5
  <2>2. len # 0
    BY <2>1
  <2>3. offset \in first..(first + size - 1) /\ offset + len - 1 \in first..(first + size - 1)
    BY <1>4, <1>5, <2>2
  <2> QED BY <1>4, <2>1, <2>3
<1>7. offset % s = 0 /\ offset \div s = lba
  BY <1>2, <1>3, <1>6, Multiple DEF first
<1>8. len % s = 0 /\ len \div s = count
  BY <1>2, <1>3, <1>6, Multiple DEF size
<1> QED BY <1>1, <1>4, <1>6, <1>7, <1>8 DEF s

LEMMA RefusalHasReason ==
  ASSUME PoolTypeOK, PoolInv, RuntimeInv
  PROVE  RefusedForAReason
<1> SUFFICES ASSUME last.kind \notin {"none", "submitted", "unavailable", "no DMA"},
                    last.request.nvme, Find(Namespaces, last.request.nsid) # 0,
                    IsWhole(Namespace(last.request.nsid), last.request.offset,
                            BufLen * Len(last.bufs)),
                    BufLen * Len(last.bufs) <= Namespace(last.request.nsid).maxIo
             PROVE  FALSE
  BY DEF RefusedForAReason
<1>1. /\ RuntimeTypeOK /\ BackendInv /\ BufferInv /\ "app" \in owners
      /\ \E t \in Threads, r \in Requests : last = Request(t, r)
  <2>1. NoAnswer.kind = "none"
    BY ONLY TRUE DEF NoAnswer
  <2>2. last.kind # "none"
    BY ONLY last.kind \notin {"none", "submitted", "unavailable", "no DMA"}
  <2>3. last # NoAnswer
    BY ONLY <2>1, <2>2
  <2> QED BY <2>3, Zenon DEF RuntimeInv, AnswerInv
<1>2. PICK t \in Threads, r \in Requests : last = Request(t, r)
  BY <1>1
<1> DEFINE len == BufLen * Len(held[t])
           ns == Namespace(r.nsid)
           total == TotalPooledLen(Asked(t, r).lens)
<1>3. last.bufs = held[t] /\ last.request = Asked(t, r)
  BY <1>2 DEF Request, Answer, Asked
<1>4. RangeOf(t, r).kind = "error"
  <2> SUFFICES ASSUME RangeOf(t, r).kind # "error" PROVE FALSE
    OBVIOUS
  <2>1. Request(t, r).kind \in {"no DMA", "unavailable", "submitted"}
    BY DEF Request, Answer, RangeOf, Asked
  <2> QED BY <1>2, <2>1
<1>5. Asked(t, r).nsid = r.nsid /\ Asked(t, r).offset = r.offset /\ Asked(t, r).nvme = r.nvme
  BY DEF Asked
<1>6. r.nvme /\ Find(Namespaces, r.nsid) # 0 /\ IsWhole(ns, r.offset, len) /\ len <= ns.maxIo
  BY <1>3, <1>5
<1>7. ns \in NamespaceType /\ NamespaceOk(ns)
  BY <1>1, <1>6, FoundFirst DEF BackendInv, NamespacesOk, Namespace
<1>8. /\ U64Max \in Nat /\ ns.maxIo \in 0..U64Max /\ ns.capacity \in 0..U64Max
      /\ r.offset \in Nat /\ ns.sector \in Nat \ {0}
  <2>1. r.offset \in 0..U64Max /\ U64Max \in Nat /\ U32Max \in 0..U64Max
    BY DeviceAssumption, WidthsAssumption
  <2>2. /\ ns.maxIo \in 0..U32Max /\ ns.capacity \in 0..U64Max
        /\ ns.sector \in 0..U32Max /\ ns.sector # 0
    BY <1>7 DEF NamespaceType, NamespaceOk
  <2> HIDE DEF ns
  <2> QED BY ONLY <2>1, <2>2
<1>9. len \in Nat /\ total = IF len <= U64Max THEN len ELSE -1
  BY <1>1, HeldLength, AskedLength
<1>10. len <= ns.maxIo
  BY <1>6
<1>11. total = len /\ total # -1
  <2> HIDE DEF total, len, ns
  <2>1. len <= U64Max
    BY ONLY <1>8, <1>9, <1>10
  <2> QED BY ONLY <1>9, <2>1
<1>12. /\ len # 0
       /\ r.offset % ns.sector = 0 /\ len % ns.sector = 0
       /\ r.offset \div ns.sector + len \div ns.sector <= ns.capacity
  BY <1>6, <1>7, <1>8, <1>9, WholeIsAligned
<1>13. RangeOf(t, r) = LbaRange(ns, r.offset, len)
  <2>1. RangeOf(t, r) =
          IF total = -1 THEN Error("length overflow")
          ELSE IF ~ r.nvme THEN Error("invalid target")
          ELSE IF Find(Namespaces, r.nsid) = 0 THEN Error("namespace not found")
          ELSE IF LbaRange(ns, r.offset, total).kind = "range" /\ 1 = 0
                 THEN Error("no queue pairs") ELSE LbaRange(ns, r.offset, total)
    BY <1>5 DEF RangeOf, PrepareIo, Namespace
  <2>2. r.nvme /\ Find(Namespaces, r.nsid) # 0
    BY <1>6
  <2>3. 1 # 0
    BY ONLY TRUE
  <2> HIDE DEF total, ns, len
  <2>4. RangeOf(t, r) = LbaRange(ns, r.offset, total)
    BY <1>11, <2>1, <2>2, <2>3, Zenon
  <2> QED BY <1>11, <2>4, Zenon
<1> DEFINE lba == r.offset \div ns.sector
           count == len \div ns.sector
<1> HIDE DEF ns, len
<1>14. LbaRange(ns, r.offset, len) =
         IF len = 0 THEN Error("zero length")
         ELSE IF len > ns.maxIo THEN Error("too large")
         ELSE IF r.offset % ns.sector # 0 \/ len % ns.sector # 0 THEN Error("unaligned")
         ELSE IF lba + count > U64Max \/ lba + count > ns.capacity THEN Error("out of range")
         ELSE [kind |-> "range", error |-> "none", lba |-> lba, count |-> count]
  BY DEF LbaRange
<1>15. /\ ~ (len > ns.maxIo)
       /\ ~ (lba + count > U64Max) /\ ~ (lba + count > ns.capacity)
  <2>1. lba \in Nat /\ count \in Nat
    BY ONLY <1>8, <1>9
  <2>2. lba + count <= ns.capacity
    BY <1>12
  <2> HIDE DEF lba, count
  <2> QED BY ONLY <1>8, <1>9, <1>10, <2>1, <2>2
<1> HIDE DEF lba, count
<1>16. LbaRange(ns, r.offset, len) =
         [kind |-> "range", error |-> "none", lba |-> lba, count |-> count]
  BY <1>12, <1>14, <1>15, Zenon
<1>17. RangeOf(t, r).kind = "range"
  BY ONLY <1>13, <1>16
<1> QED BY <1>4, <1>17

(* What is sent to the native queue pair is SPDK's own memory, with the    *)
(* environment up, and readv's division takes the blocks of the request    *)
(* one after the other, when sectors divide pages.                         *)
THEOREM SubmissionsSafe ==
  ASSUME SectorsDividePages
  PROVE  Spec => []SubmittedIsSafe
<1>1. PoolTypeOK /\ PoolInv /\ RuntimeInv => SubmittedIsSafe
  BY SectorsDividePages, SentIsSafe
<1> QED BY <1>1, RuntimeInvariant, PTL

(* Whole blocks of a known namespace, not too many, are refused by none of *)
(* the checks of prepare_io and lba_range.                                 *)
THEOREM RefusalsHaveReason == Spec => []RefusedForAReason
<1>1. PoolTypeOK /\ PoolInv /\ RuntimeInv => RefusedForAReason
  BY RefusalHasReason
<1> QED BY <1>1, RuntimeInvariant, PTL
=============================================================================
