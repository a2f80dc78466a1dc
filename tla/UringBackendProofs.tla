------------------------- MODULE UringBackendProofs -------------------------
(***************************************************************************)
(* Theorems about UringBackend for any set of threads, any number of       *)
(* entries and calls, and every set of faults.                             *)
(***************************************************************************)
EXTENDS UringBackend, FiniteSetTheorems, TLAPS

(* The types without the bounds that a run puts on the tokens.             *)
Typed ==
  /\ nextToken \in Nat \ {0}
  /\ pc \in [Threads -> {"idle", "locking", "entering", "waiting"}]
  /\ token \in [Threads -> Nat]
  /\ result \in [Threads -> [kind : {"none", "ok", "error", "nothing"}, of : Nat]]
  /\ sq \in Seq(Nat)
  /\ kernel \in SUBSET Nat
  /\ cq \in Seq(Nat)

-----------------------------------------------------------------------------
(* Queues of tokens. *)

LEMMA AppendFacts ==
  ASSUME NEW s \in Seq(Nat), NEW o \in Nat
  PROVE  /\ Append(s, o) \in Seq(Nat)
         /\ Range(Append(s, o)) = Range(s) \cup {o}
         /\ IsInjective(s) /\ o \notin Range(s) => IsInjective(Append(s, o))
<1>1. /\ Append(s, o) \in Seq(Nat) /\ Len(s) \in Nat /\ DOMAIN s = 1..Len(s)
      /\ DOMAIN Append(s, o) = 1..(Len(s) + 1)
      /\ Append(s, o)[Len(s) + 1] = o
      /\ \A k \in 1..Len(s) : Append(s, o)[k] = s[k]
  OBVIOUS
<1>2. 1..(Len(s) + 1) = 1..Len(s) \cup {Len(s) + 1}
  BY <1>1
<1>3. Range(Append(s, o)) = Range(s) \cup {o}
  BY <1>1, <1>2 DEF Range
<1>4. ASSUME IsInjective(s), o \notin Range(s) PROVE IsInjective(Append(s, o))
  BY <1>1, <1>2, <1>4 DEF Range, IsInjective
<1> QED BY <1>1, <1>3, <1>4

LEMMA SubSeqFacts ==
  ASSUME NEW s \in Seq(Nat), NEW a \in 1..(Len(s) + 1), NEW b \in 0..Len(s)
  PROVE  /\ SubSeq(s, a, b) \in Seq(Nat)
         /\ Range(SubSeq(s, a, b)) = {s[k] : k \in a..b}
         /\ Range(SubSeq(s, a, b)) \subseteq Range(s)
         /\ IsInjective(s) => IsInjective(SubSeq(s, a, b))
<1> DEFINE u == SubSeq(s, a, b)
<1>1. /\ u \in Seq(Nat) /\ DOMAIN s = 1..Len(s) /\ Len(s) \in Nat
      /\ Len(u) = (IF a <= b THEN b - a + 1 ELSE 0)
      /\ DOMAIN u = 1..Len(u)
      /\ \A k \in 1..Len(u) : u[k] = s[a + k - 1]
  OBVIOUS
<1> HIDE DEF u
<1>2. ASSUME NEW k \in DOMAIN u PROVE a + k - 1 \in a..b /\ a + k - 1 \in DOMAIN s
  <2>1. Len(u) = b - a + 1 /\ k \in 1..Len(u)
    BY <1>1
  <2>2. a \in Nat /\ a >= 1 /\ b \in Nat /\ b <= Len(s) /\ Len(s) \in Nat
    BY <1>1
  <2>3. a + k - 1 \in a..b /\ a + k - 1 \in 1..Len(s)
    BY ONLY <2>1, <2>2
  <2> QED BY <1>1, <2>3
<1>3. ASSUME NEW i \in a..b PROVE i \in DOMAIN s /\ i - a + 1 \in DOMAIN u /\ s[i] = u[i - a + 1]
  <2>1. /\ a \in Nat /\ a >= 1 /\ b \in Nat /\ b <= Len(s) /\ Len(s) \in Nat
        /\ Len(u) = b - a + 1
    BY <1>1
  <2>2. i \in 1..Len(s) /\ i - a + 1 \in 1..Len(u) /\ a + (i - a + 1) - 1 = i
    BY ONLY <2>1, i \in a..b
  <2>3. u[i - a + 1] = s[a + (i - a + 1) - 1]
    BY <1>1, <2>2
  <2> QED BY <1>1, <2>2, <2>3
<1>4. Range(u) = {s[k] : k \in a..b}
  <2>1. ASSUME NEW k \in DOMAIN u PROVE u[k] \in {s[i] : i \in a..b}
    BY <1>1, <1>2
  <2>2. ASSUME NEW i \in a..b PROVE s[i] \in Range(u)
    BY <1>3 DEF Range
  <2> QED BY <2>1, <2>2 DEF Range
<1>5. Range(u) \subseteq Range(s)
  BY <1>3, <1>4 DEF Range
<1>6. ASSUME IsInjective(s) PROVE IsInjective(u)
  <2> SUFFICES ASSUME NEW i \in DOMAIN u, NEW j \in DOMAIN u, u[i] = u[j] PROVE i = j
    BY DEF IsInjective
  <2>1. s[a + i - 1] = s[a + j - 1]
    BY <1>1
  <2>2. a + i - 1 = a + j - 1
    BY <1>2, <1>6, <2>1 DEF IsInjective
  <2> QED BY <1>1, <2>2
<1> QED BY <1>1, <1>4, <1>5, <1>6 DEF u

(* What has been read of a queue is not in the rest of it.                 *)
LEMMA SplitFacts ==
  ASSUME NEW s \in Seq(Nat), IsInjective(s), NEW n \in 0..Len(s)
  PROVE  /\ Range(SubSeq(s, 1, n)) \cap Range(SubSeq(s, n + 1, Len(s))) = {}
         /\ n # 0 => s[n] \notin Range(SubSeq(s, n + 1, Len(s)))
<1>1. Len(s) \in Nat /\ DOMAIN s = 1..Len(s)
  OBVIOUS
<1>2. /\ Range(SubSeq(s, 1, n)) = {s[k] : k \in 1..n}
      /\ Range(SubSeq(s, n + 1, Len(s))) = {s[k] : k \in (n + 1)..Len(s)}
  <2>1. 1 \in 1..(Len(s) + 1) /\ n + 1 \in 1..(Len(s) + 1) /\ Len(s) \in 0..Len(s)
    BY <1>1
  <2>2. Range(SubSeq(s, 1, n)) = {s[k] : k \in 1..n}
    BY ONLY <2>1, SubSeqFacts, s \in Seq(Nat), n \in 0..Len(s)
  <2>3. Range(SubSeq(s, n + 1, Len(s))) = {s[k] : k \in (n + 1)..Len(s)}
    BY ONLY <2>1, SubSeqFacts, s \in Seq(Nat)
  <2> QED BY <2>2, <2>3
<1>3. \A i \in 1..n, j \in (n + 1)..Len(s) : i \in DOMAIN s /\ j \in DOMAIN s /\ i # j
  BY <1>1
<1>4. \A i \in 1..n, j \in (n + 1)..Len(s) : s[i] # s[j]
  BY <1>3 DEF IsInjective
<1>5. n # 0 => n \in 1..n
  BY <1>1
<1> QED BY <1>2, <1>4, <1>5

-----------------------------------------------------------------------------
(* A call that ends, whatever it leaves of the queues: with Ok only for    *)
(* its own token, which is then gone.                                      *)
LEMMA ReturnKeeps ==
  ASSUME Typed, UringInv, NEW t \in Threads, NEW kind \in {"ok", "error"}, NEW of \in Nat,
         Return(t, kind, of),
         sq' \in Seq(Nat), kernel' \in SUBSET Nat, cq' \in Seq(Nat),
         InRing' \subseteq InRing, RingInv',
         kind = "ok" => of = token[t] /\ token[t] \notin InRing'
  PROVE  Typed' /\ UringInv'
<1> USE DEF Return
<1>1. Typed'
  BY DEF Typed
<1>2. TokensInv'
  BY DEF Typed, UringInv, TokensInv
<1>3. OkIsOwn'
  <2> SUFFICES ASSUME NEW u \in Threads, pc'[u] = "idle", result'[u].kind = "ok"
               PROVE  result'[u].of = token'[u] /\ token'[u] \notin InRing'
    BY DEF OkIsOwn, InRing
  <2>1. CASE u = t
    <3>1. result'[t] = [kind |-> kind, of |-> of]
      BY DEF Typed
    <3> QED BY <2>1, <3>1
  <2>2. CASE u # t
    <3>1. pc[u] = "idle" /\ result[u].kind = "ok" /\ result'[u] = result[u]
      BY <2>2 DEF Typed
    <3>2. result[u].of = token[u] /\ token[u] \notin InRing
      BY <3>1 DEF UringInv, OkIsOwn, InRing
    <3> QED BY <3>1, <3>2
  <2> QED BY <2>1, <2>2
<1> QED BY <1>1, <1>2, <1>3 DEF UringInv

(* What a call finds in the completion queue, whatever has happened to the *)
(* other two.                                                              *)
LEMMA ReapKeeps ==
  ASSUME Typed, UringInv, NEW t \in Threads, Reap(t),
         sq' \in Seq(Nat), kernel' \in SUBSET Nat,
         Range(sq') \cup kernel' \subseteq Range(sq) \cup kernel,
         IsInjective(sq'), Range(sq') \cap kernel' = {}
  PROVE  /\ Typed' /\ UringInv'
         /\ InRing' \subseteq InRing /\ \E kind, of : Return(t, kind, of)
         /\ IF token[t] \in Range(cq) THEN token[t] \notin InRing' ELSE cq' = <<>>
<1>1. /\ cq \in Seq(Nat) /\ token[t] \in Nat /\ IsInjective(cq)
      /\ InRing \subseteq 1..(nextToken - 1)
      /\ (Range(sq) \cup kernel) \cap Range(cq) = {}
  BY DEF Typed, UringInv, RingInv
<1>2. ASSUME cq' \in Seq(Nat), Range(cq') \subseteq Range(cq), IsInjective(cq'),
             nextToken' = nextToken
      PROVE  InRing' \subseteq InRing /\ RingInv'
  BY <1>1, <1>2 DEF InRing, RingInv
<1>3. CASE token[t] \notin Range(cq) /\ cq' = <<>> /\ Return(t, "error", NoToken)
  <2>1. cq' \in Seq(Nat) /\ Range(cq') = {} /\ IsInjective(cq') /\ nextToken' = nextToken
    BY <1>3 DEF Range, IsInjective, Return
  <2>2. InRing' \subseteq InRing /\ RingInv'
    BY <1>2, <2>1
  <2>3. Typed' /\ UringInv'
    BY <1>3, <2>1, <2>2, ReturnKeeps DEF NoToken
  <2> QED BY <1>3, <2>2, <2>3
<1>4. ASSUME NEW k \in DOMAIN cq, NEW kind \in {"ok", "error"}, cq[k] = token[t],
             cq' = SubSeq(cq, k + 1, Len(cq)), Return(t, kind, cq[k])
      PROVE  /\ Typed' /\ UringInv' /\ InRing' \subseteq InRing
             /\ token[t] \in Range(cq) /\ token[t] \notin InRing'
  <2>1. Len(cq) \in Nat /\ k \in 1..Len(cq) /\ k + 1 \in 1..(Len(cq) + 1) /\ k # 0
    BY <1>1
  <2>2. cq' \in Seq(Nat) /\ Range(cq') \subseteq Range(cq) /\ IsInjective(cq')
    BY <1>1, <1>4, <2>1, SubSeqFacts
  <2>3. nextToken' = nextToken
    BY <1>4 DEF Return
  <2>4. InRing' \subseteq InRing /\ RingInv'
    BY <1>2, <2>2, <2>3
  <2>5. token[t] \notin Range(cq')
    BY <1>1, <1>4, <2>1, SplitFacts
  <2>6. token[t] \in Range(cq)
    BY <1>4 DEF Range
  <2>7. token[t] \notin InRing'
    BY <1>1, <2>5, <2>6 DEF InRing
  <2>8. Typed' /\ UringInv'
    BY <1>1, <1>4, <2>2, <2>4, <2>7, ReturnKeeps
  <2> QED BY <2>4, <2>6, <2>7, <2>8
<1> QED BY <1>3, <1>4 DEF Reap

-----------------------------------------------------------------------------
(* A call answered before it takes a token.                                *)
LEMMA AnswerKeeps ==
  ASSUME Typed, UringInv, NEW t \in Threads, NEW kind \in {"error", "nothing"},
         AnswerAtOnce(t, kind)
  PROVE  Typed' /\ UringInv'
<1> USE DEF AnswerAtOnce, ring
<1>1. Typed'
  BY DEF Typed, NoToken
<1>2. TokensInv' /\ RingInv'
  BY DEF UringInv, TokensInv, RingInv, InRing
<1>3. OkIsOwn'
  BY DEF Typed, UringInv, OkIsOwn
<1> QED BY <1>1, <1>2, <1>3 DEF UringInv

(* The new token is nobody's and nowhere.                                  *)
LEMMA TakeTokenKeeps ==
  ASSUME Typed, UringInv, NEW t \in Threads, TakeToken(t)
  PROVE  Typed' /\ UringInv'
<1> USE DEF TakeToken, ring
<1>1. InRing' = InRing /\ nextToken \notin InRing /\ nextToken # NoToken
  BY DEF Typed, UringInv, RingInv, InRing, NoToken
<1>2. Typed'
  BY DEF Typed
<1>3. TokensInv'
  BY <1>1 DEF Typed, UringInv, TokensInv
<1>4. RingInv'
  BY <1>1 DEF Typed, UringInv, RingInv
<1>5. OkIsOwn'
  BY DEF Typed, UringInv, OkIsOwn
<1> QED BY <1>2, <1>3, <1>4, <1>5 DEF UringInv

(* The token enters the ring, and is the token of no other call.           *)
LEMMA PushKeeps ==
  ASSUME Typed, UringInv, NEW t \in Threads, Push(t)
  PROVE  Typed' /\ UringInv'
<1> USE DEF Push
<1>1. /\ token[t] \in Nat /\ token[t] # NoToken /\ token[t] \notin InRing
      /\ token[t] < nextToken /\ sq \in Seq(Nat)
  BY DEF Typed, UringInv, TokensInv
<1>2. /\ sq' \in Seq(Nat) /\ Range(sq') = Range(sq) \cup {token[t]}
      /\ IsInjective(sq) => IsInjective(sq')
  BY <1>1, AppendFacts DEF InRing
<1>3. InRing' = InRing \cup {token[t]}
  BY <1>2 DEF InRing
<1>4. Typed'
  BY <1>2 DEF Typed
<1>5. TokensInv'
  <2>1. ASSUME NEW u \in Threads, pc'[u] = "locking"
        PROVE  token[u] # NoToken /\ token[u] \notin InRing'
    <3>1. u # t /\ pc[u] = "locking"
      BY <2>1 DEF Typed
    <3> QED BY <1>1, <1>3, <3>1 DEF UringInv, TokensInv
  <2> QED BY <2>1 DEF UringInv, TokensInv
<1>6. RingInv'
  <2>1. InRing' \subseteq 1..(nextToken' - 1)
    <3>1. token[t] \in 1..(nextToken - 1)
      BY <1>1 DEF Typed, NoToken
    <3> QED BY <1>3, <3>1 DEF UringInv, RingInv
  <2> QED BY <1>1, <1>2, <2>1 DEF UringInv, RingInv, InRing
<1>7. OkIsOwn'
  <2> SUFFICES ASSUME NEW u \in Threads, pc'[u] = "idle", result'[u].kind = "ok"
               PROVE  result'[u].of = token'[u] /\ token'[u] \notin InRing'
    BY DEF OkIsOwn, InRing
  <2>1. u # t /\ pc[u] = "idle" /\ result'[u] = result[u] /\ token'[u] = token[u]
    BY DEF Typed
  <2>2. result[u].of = token[u] /\ token[u] \notin InRing
    BY <2>1 DEF UringInv, OkIsOwn, InRing
  <2>3. token[u] # token[t]
    BY <1>1, <2>1 DEF UringInv, TokensInv
  <2> QED BY <1>3, <2>1, <2>2, <2>3
<1> QED BY <1>4, <1>5, <1>6, <1>7 DEF UringInv

(* Operations that move inside the ring.                                   *)
LEMMA MoveKeeps ==
  ASSUME Typed, UringInv, UNCHANGED <<nextToken, token, result>>,
         InRing' = InRing, RingInv', Typed',
         \A t \in Threads : /\ pc'[t] = "idle" <=> pc[t] = "idle"
                            /\ pc'[t] = "locking" <=> pc[t] = "locking"
  PROVE  UringInv'
<1>1. TokensInv'
  BY DEF UringInv, TokensInv
<1>2. OkIsOwn'
  BY DEF UringInv, OkIsOwn, InRing
<1> QED BY <1>1, <1>2 DEF UringInv

LEMMA EnterKeeps ==
  ASSUME Typed, UringInv, NEW t \in Threads, Enter(t)
  PROVE  Typed' /\ UringInv'
<1> USE DEF Enter
<1>1. Range(sq') = {} /\ IsInjective(sq') /\ Range(sq) \subseteq Nat
  BY DEF Typed, Range, IsInjective
<1>2. Typed'
  <2>1. kernel' \in SUBSET Nat
    BY <1>1 DEF Typed
  <2>2. sq' \in Seq(Nat)
    OBVIOUS
  <2> QED BY <2>1, <2>2 DEF Typed
<1>3. InRing' = InRing
  BY <1>1 DEF InRing
<1>4. RingInv'
  BY <1>1, <1>3 DEF UringInv, RingInv
<1> QED BY <1>2, <1>3, <1>4, MoveKeeps DEF Typed

LEMMA FinishKeeps ==
  ASSUME Typed, UringInv, NEW o \in kernel, Finish(o)
  PROVE  Typed' /\ UringInv'
<1> USE DEF Finish
<1>1. o \in Nat /\ cq \in Seq(Nat) /\ o \notin Range(cq) /\ o \notin Range(sq)
  BY DEF Typed, UringInv, RingInv
<1>2. /\ cq' \in Seq(Nat) /\ Range(cq') = Range(cq) \cup {o}
      /\ IsInjective(cq) => IsInjective(cq')
  BY <1>1, AppendFacts
<1>3. Typed'
  BY <1>2 DEF Typed
<1>4. InRing' = InRing
  BY <1>2 DEF InRing
<1>5. RingInv'
  BY <1>1, <1>2, <1>4 DEF UringInv, RingInv
<1> QED BY <1>3, <1>4, <1>5, MoveKeeps

(* A call that gives up, and leaves what it has pushed.                    *)
LEMMA GiveUpKeeps ==
  ASSUME Typed, UringInv, NEW t \in Threads, WouldBlock(t) \/ EnterFails(t)
  PROVE  Typed' /\ UringInv'
<1>1. Return(t, "error", NoToken) /\ UNCHANGED ring
  BY DEF WouldBlock, EnterFails
<1>2. InRing' = InRing /\ RingInv'
  BY <1>1 DEF InRing, UringInv, RingInv, ring, Return
<1> QED BY <1>1, <1>2, ReturnKeeps DEF Typed, ring, NoToken

(* Some entries are taken, the others stay.                                *)
LEMMA EnterPartlyKeeps ==
  ASSUME Typed, UringInv, NEW t \in Threads, NEW n \in 1..(Entries - 1), EnterPartly(t, n)
  PROVE  /\ Typed' /\ UringInv'
         /\ InRing' \subseteq InRing /\ \E kind, of : Return(t, kind, of)
<1>1. /\ sq \in Seq(Nat) /\ kernel \in SUBSET Nat /\ IsInjective(sq)
      /\ Range(sq) \cap kernel = {} /\ Range(sq) \subseteq Nat
  BY DEF Typed, UringInv, RingInv, Range
<1>2. /\ 1 \in 1..(Len(sq) + 1) /\ n \in 0..Len(sq) /\ n + 1 \in 1..(Len(sq) + 1)
      /\ Len(sq) \in 0..Len(sq)
  BY <1>1, BoundsAssumption DEF EnterPartly
<1>3. /\ kernel' = kernel \cup Range(SubSeq(sq, 1, n))
      /\ sq' = SubSeq(sq, n + 1, Len(sq)) /\ Reap(t)
  BY DEF EnterPartly
<1>4. Range(SubSeq(sq, 1, n)) \subseteq Range(sq)
  BY ONLY <1>1, <1>2, SubSeqFacts
<1>5. sq' \in Seq(Nat) /\ Range(sq') \subseteq Range(sq) /\ IsInjective(sq')
  BY ONLY <1>1, <1>2, <1>3, SubSeqFacts
<1>6. Range(SubSeq(sq, 1, n)) \cap Range(sq') = {}
  BY ONLY <1>1, <1>2, <1>3, SplitFacts
<1>7. /\ kernel' \in SUBSET Nat /\ Range(sq') \cap kernel' = {}
      /\ Range(sq') \cup kernel' \subseteq Range(sq) \cup kernel
  BY <1>1, <1>3, <1>4, <1>5, <1>6
<1> QED BY <1>3, <1>5, <1>7, ReapKeeps

LEMMA WakeKeeps ==
  ASSUME Typed, UringInv, NEW t \in Threads, Wake(t) \/ Interrupted(t)
  PROVE  /\ Typed' /\ UringInv'
         /\ InRing' \subseteq InRing /\ \E kind, of : Return(t, kind, of)
         /\ IF token[t] \in Range(cq) THEN token[t] \notin InRing' ELSE cq' = <<>>
<1>1. Reap(t) /\ UNCHANGED <<sq, kernel>>
  BY DEF Wake, Interrupted
<1> QED BY <1>1, ReapKeeps DEF Typed, UringInv, RingInv

-----------------------------------------------------------------------------
(* Every step of a call or of the kernel keeps types and invariant.        *)
LEMMA UringStep ==
  ASSUME Typed, UringInv, [Next]_vars
  PROVE  Typed' /\ UringInv'
<1>1. ASSUME NEW t \in Threads, CallStep(t) PROVE Typed' /\ UringInv'
  <2>1. CASE RefuseTarget(t) \/ RefuseVectors(t) \/ NoVectors(t)
    BY <2>1, AnswerKeeps DEF RefuseTarget, RefuseVectors, NoVectors
  <2>2. CASE TakeToken(t)
    BY <2>2, TakeTokenKeeps
  <2>3. CASE Push(t)
    BY <2>3, PushKeeps
  <2>4. CASE WouldBlock(t) \/ EnterFails(t)
    BY <2>4, GiveUpKeeps
  <2>5. CASE Enter(t)
    BY <2>5, EnterKeeps
  <2>6. CASE \E n \in 1..(Entries - 1) : EnterPartly(t, n)
    BY <2>6, EnterPartlyKeeps
  <2>7. CASE Wake(t) \/ Interrupted(t)
    BY <2>7, WakeKeeps
  <2> QED BY <1>1, <2>1, <2>2, <2>3, <2>4, <2>5, <2>6, <2>7 DEF CallStep
<1>2. ASSUME NEW o \in kernel, Finish(o) PROVE Typed' /\ UringInv'
  BY <1>2, FinishKeeps
<1>3. CASE UNCHANGED vars
  BY <1>3 DEF vars, ring, Typed, UringInv, TokensInv, RingInv, InRing, OkIsOwn
<1> QED BY <1>1, <1>2, <1>3 DEF Next

LEMMA InitUring == Init => Typed /\ UringInv
<1> SUFFICES ASSUME Init PROVE Typed /\ UringInv
  OBVIOUS
<1>1. Typed
  BY DEF Init, Typed, NoToken
<1>2. Range(sq) = {} /\ Range(cq) = {} /\ IsInjective(sq) /\ IsInjective(cq) /\ InRing = {}
  BY DEF Init, Range, IsInjective, InRing
<1>3. TokensInv /\ RingInv
  BY <1>2 DEF Init, TokensInv, RingInv, NoToken
<1>4. OkIsOwn
  BY DEF Init, OkIsOwn
<1> QED BY <1>1, <1>3, <1>4 DEF UringInv

(* Tokens are never shared, and each is in one place of the ring.          *)
THEOREM UringInvariant == Spec => [](Typed /\ UringInv)
<1>1. Typed /\ UringInv /\ [Next]_vars => (Typed /\ UringInv)'
  BY UringStep
<1> QED BY <1>1, InitUring, PTL DEF Spec

(* submit_and_wait: Ok is the result of the operation of the call, which   *)
(* the kernel has then done with.                                          *)
THEOREM OkCorrect == Spec => []OkIsOwn
<1>1. UringInv => OkIsOwn
  BY DEF UringInv
<1> QED BY <1>1, UringInvariant, PTL

-----------------------------------------------------------------------------
(* What calls leave behind. *)

(* A call that is about to enter the kernel or is there holds the mutex.   *)
LockInv == \A t \in Threads : pc[t] \in {"entering", "waiting"} => lock = t
LeftInv == faults \in Nat /\ LockInv /\ LeftoversWithinFaults

LEMMA LeftoversFinite ==
  ASSUME Typed, UringInv
  PROVE  IsFiniteSet(Leftovers) /\ Cardinality(Leftovers) \in Nat
<1>1. InRing \subseteq 1..(nextToken - 1) /\ nextToken - 1 \in Int
  BY DEF Typed, UringInv, RingInv
<1>2. Leftovers \subseteq 1..(nextToken - 1)
  BY <1>1 DEF Leftovers, InRing
<1>3. IsFiniteSet(1..(nextToken - 1))
  BY <1>1, FS_Interval
<1>4. IsFiniteSet(Leftovers)
  BY <1>2, <1>3, FS_Subset
<1> QED BY <1>4, FS_CardinalityType

(* Leftovers may go, one may come with a fault, and one may come when      *)
(* another one goes.                                                       *)
LEMMA FewerLeft ==
  ASSUME Typed, UringInv, LeftInv, Leftovers' \subseteq Leftovers,
         faults' \in {faults, faults + 1}
  PROVE  faults' \in Nat /\ LeftoversWithinFaults'
<1>1. IsFiniteSet(Leftovers) /\ Cardinality(Leftovers) \in Nat /\ faults \in Nat
  BY LeftoversFinite DEF LeftInv
<1>2. /\ Cardinality(Leftovers') <= Cardinality(Leftovers)
      /\ IsFiniteSet(Leftovers')
  BY <1>1, FS_Subset
<1>3. Cardinality(Leftovers') \in Nat
  BY <1>2, FS_CardinalityType
<1> QED BY <1>1, <1>2, <1>3 DEF LeftInv, LeftoversWithinFaults

LEMMA OneMoreLeft ==
  ASSUME Typed, UringInv, LeftInv, NEW x, Leftovers' \subseteq Leftovers \cup {x},
         faults' = faults + 1
  PROVE  faults' \in Nat /\ LeftoversWithinFaults'
<1>1. IsFiniteSet(Leftovers) /\ Cardinality(Leftovers) \in Nat /\ faults \in Nat
  BY LeftoversFinite DEF LeftInv
<1>2. /\ IsFiniteSet(Leftovers \cup {x})
      /\ Cardinality(Leftovers \cup {x}) \in {Cardinality(Leftovers), Cardinality(Leftovers) + 1}
  BY <1>1, FS_AddElement
<1>3. /\ Cardinality(Leftovers') <= Cardinality(Leftovers \cup {x})
      /\ IsFiniteSet(Leftovers')
  BY <1>2, FS_Subset
<1>4. Cardinality(Leftovers') \in Nat
  BY <1>3, FS_CardinalityType
<1> QED BY <1>1, <1>2, <1>3, <1>4 DEF LeftInv, LeftoversWithinFaults

LEMMA OneForAnother ==
  ASSUME Typed, UringInv, LeftInv, NEW x, NEW o \in Leftovers,
         Leftovers' \subseteq (Leftovers \ {o}) \cup {x}, faults' = faults
  PROVE  faults' \in Nat /\ LeftoversWithinFaults'
<1> DEFINE rest == Leftovers \ {o}
<1>1. IsFiniteSet(Leftovers) /\ Cardinality(Leftovers) \in Nat /\ faults \in Nat
  BY LeftoversFinite DEF LeftInv
<1>2. IsFiniteSet(rest) /\ Cardinality(rest) = Cardinality(Leftovers) - 1
  BY <1>1, FS_RemoveElement
<1> HIDE DEF rest
<1>3. /\ IsFiniteSet(rest \cup {x})
      /\ Cardinality(rest \cup {x}) \in {Cardinality(rest), Cardinality(rest) + 1}
  BY <1>2, FS_AddElement
<1>4. /\ Cardinality(Leftovers') <= Cardinality(rest \cup {x})
      /\ IsFiniteSet(Leftovers')
  BY <1>3, FS_Subset DEF rest
<1>5. Cardinality(Leftovers') \in Nat
  BY <1>4, FS_CardinalityType
<1> QED BY <1>1, <1>2, <1>3, <1>4, <1>5 DEF LeftInv, LeftoversWithinFaults

(* A call that returns leaves its own operation at most.                   *)
LEMMA ReturnLeaves ==
  ASSUME Typed, LeftInv, NEW t \in Threads, NEW kind, NEW of, Return(t, kind, of),
         InRing' \subseteq InRing, lock \in {t, NoThread}
  PROVE  LockInv' /\ Leftovers' \subseteq Leftovers \cup {token[t]}
<1> USE DEF Return
<1>1. ASSUME NEW u \in Threads, pc'[u] \in {"entering", "waiting"}
      PROVE  FALSE
  <2>1. u # t /\ pc[u] = pc'[u]
    BY <1>1 DEF Typed
  <2>2. lock = u
    BY <1>1, <2>1 DEF LeftInv, LockInv
  <2> QED BY <2>1, <2>2, NoThreadAssumption
<1>2. LockInv'
  BY <1>1 DEF LockInv
<1>3. ASSUME NEW o \in Leftovers', o # token[t] PROVE o \in Leftovers
  <2>1. o \in InRing
    BY <1>3 DEF Leftovers, InRing
  <2>2. ASSUME NEW u \in Threads, pc[u] \in {"entering", "waiting"}, token[u] = o
        PROVE  FALSE
    <3>1. lock = u
      BY <2>2 DEF LeftInv, LockInv
    <3>2. u # t
      BY <1>3, <2>2
    <3> QED BY <3>1, <3>2, NoThreadAssumption
  <2> QED BY <2>1, <2>2 DEF Leftovers, InRing, Awaited
<1> QED BY <1>2, <1>3

(* Only the call that holds the mutex is awaiting anything.                *)
LEMMA WaitingLeaves ==
  ASSUME Typed, UringInv, LeftInv, NEW t \in Threads, Wake(t)
  PROVE  LeftInv'
<1>1. /\ pc[t] = "waiting" /\ cq # <<>> /\ faults' = faults
      /\ UNCHANGED <<sq, kernel>> /\ lock = t
  BY DEF Wake, LeftInv, LockInv
<1>2. /\ InRing' \subseteq InRing /\ \E kind, of : Return(t, kind, of)
      /\ IF token[t] \in Range(cq) THEN token[t] \notin InRing' ELSE cq' = <<>>
  BY WakeKeeps
<1>3. LockInv' /\ Leftovers' \subseteq Leftovers \cup {token[t]}
  BY <1>1, <1>2, ReturnLeaves
<1>4. CASE token[t] \in Range(cq)
  <2>1. Leftovers' \subseteq Leftovers
    BY <1>2, <1>3, <1>4 DEF Leftovers, InRing
  <2> QED BY <1>1, <1>3, <2>1, FewerLeft DEF LeftInv
<1>5. CASE token[t] \notin Range(cq)
  <2>1. PICK o \in Range(cq) : TRUE
    <3>1. cq \in Seq(Nat)
      BY DEF Typed
    <3>2. 1 \in DOMAIN cq
      BY <1>1, <3>1
    <3> QED BY <3>2 DEF Range
  <2>2. ~ Awaited(o)
    <3>1. ASSUME NEW u \in Threads, pc[u] \in {"entering", "waiting"}, token[u] = o
          PROVE  FALSE
      BY <1>1, <1>5, <2>1, <3>1 DEF LeftInv, LockInv
    <3> QED BY <3>1 DEF Awaited
  <2>3. o \in Leftovers /\ o \notin Range(sq) \cup kernel
    BY <2>1, <2>2 DEF Leftovers, UringInv, RingInv
  <2>4. o \notin InRing'
    <3>1. Range(cq') = {}
      BY <1>2, <1>5 DEF Range
    <3> QED BY <1>1, <2>3, <3>1 DEF InRing
  <2>5. Leftovers' \subseteq (Leftovers \ {o}) \cup {token[t]}
    BY <1>3, <2>4 DEF Leftovers, InRing
  <2> QED BY <1>1, <1>3, <2>3, <2>5, OneForAnother DEF LeftInv
<1> QED BY <1>4, <1>5

(* A call that returns early, with a fault.                                *)
LEMMA FaultLeaves ==
  ASSUME Typed, UringInv, LeftInv, NEW t \in Threads,
         \/ EnterFails(t) \/ Interrupted(t)
         \/ \E n \in 1..(Entries - 1) : EnterPartly(t, n)
  PROVE  LeftInv'
<1>1. pc[t] \in {"entering", "waiting"} /\ faults' = faults + 1
  BY DEF EnterFails, Interrupted, EnterPartly
<1>2. InRing' \subseteq InRing /\ \E kind, of : Return(t, kind, of)
  <2>1. CASE EnterFails(t)
    BY <2>1 DEF EnterFails, InRing, ring
  <2>2. CASE Interrupted(t)
    BY <2>2, WakeKeeps
  <2>3. CASE \E n \in 1..(Entries - 1) : EnterPartly(t, n)
    BY <2>3, EnterPartlyKeeps
  <2> QED BY <2>1, <2>2, <2>3
<1>3. lock = t
  BY <1>1 DEF LeftInv, LockInv
<1>4. LockInv' /\ Leftovers' \subseteq Leftovers \cup {token[t]}
  BY <1>2, <1>3, ReturnLeaves
<1> QED BY <1>1, <1>4, OneMoreLeft DEF LeftInv

(* No other step leaves anything.                                          *)
LEMMA OthersLeave ==
  ASSUME Typed, UringInv, LeftInv, UNCHANGED <<faults>>, LockInv',
         \A o \in InRing' : o \in InRing \/ Awaited(o)',
         \A o \in InRing : Awaited(o) => Awaited(o)'
  PROVE  LeftInv'
<1>1. Leftovers' \subseteq Leftovers
  BY DEF Leftovers, InRing
<1> QED BY <1>1, FewerLeft DEF LeftInv

LEMMA LeftStep ==
  ASSUME Typed, UringInv, LeftInv, [Next]_vars
  PROVE  LeftInv'
<1>1. ASSUME NEW t \in Threads, CallStep(t) PROVE LeftInv'
  <2>1. CASE RefuseTarget(t) \/ RefuseVectors(t) \/ NoVectors(t)
    <3>1. UNCHANGED <<lock, pc, token, ring, faults>>
      BY <2>1 DEF RefuseTarget, RefuseVectors, NoVectors, AnswerAtOnce
    <3> QED BY <3>1, OthersLeave DEF LeftInv, LockInv, InRing, ring, Awaited
  <2>2. CASE TakeToken(t)
    <3>1. \A u \in Threads :
            /\ pc'[u] \in {"entering", "waiting"} <=> pc[u] \in {"entering", "waiting"}
            /\ pc[u] \in {"entering", "waiting"} => token'[u] = token[u]
      BY <2>2 DEF TakeToken, Typed
    <3>2. LockInv'
      BY <2>2, <3>1 DEF TakeToken, LeftInv, LockInv
    <3>3. \A o : Awaited(o) => Awaited(o)'
      BY <3>1 DEF Awaited
    <3> QED BY <2>2, <3>2, <3>3, OthersLeave DEF TakeToken, InRing, ring
  <2>3. CASE Push(t)
    <3>1. \A u \in Threads : pc[u] \in {"entering", "waiting"} => FALSE
      BY <2>3, NoThreadAssumption DEF Push, LeftInv, LockInv
    <3>2. pc'[t] = "entering" /\ \A u \in Threads \ {t} : pc'[u] = pc[u]
      BY <2>3 DEF Push, Typed
    <3>3. LockInv'
      BY <2>3, <3>1, <3>2 DEF Push, LockInv
    <3>4. \A o \in InRing : ~ Awaited(o)
      BY <3>1 DEF Awaited
    <3>5. \A o : o = token[t] => Awaited(o)'
      BY <2>3, <3>2 DEF Push, Awaited
    <3>6. InRing' = InRing \cup {token[t]}
      <4>1. sq \in Seq(Nat) /\ token[t] \in Nat
        BY DEF Typed
      <4>2. Range(Append(sq, token[t])) = Range(sq) \cup {token[t]}
        BY <4>1, AppendFacts
      <4> QED BY <2>3, <4>2 DEF Push, InRing
    <3>7. faults' = faults
      BY <2>3 DEF Push
    <3>8. \A o \in InRing' : o \in InRing \/ Awaited(o)'
      BY <3>5, <3>6
    <3> QED BY <3>3, <3>4, <3>7, <3>8, OthersLeave
  <2>4. CASE WouldBlock(t)
    <3>1. /\ pc[t] = "locking" /\ lock = NoThread /\ faults' = faults /\ InRing' = InRing
          /\ Return(t, "error", NoToken)
      BY <2>4 DEF WouldBlock, ring, InRing
    <3>2. \A o : ~ Awaited(o)
      BY <3>1, NoThreadAssumption DEF Awaited, LeftInv, LockInv
    <3>3. LockInv'
      BY <3>1, ReturnLeaves
    <3> QED BY <3>1, <3>2, <3>3, OthersLeave
  <2>5. CASE Enter(t)
    <3>1. \A u \in Threads :
            pc'[u] \in {"entering", "waiting"} <=> pc[u] \in {"entering", "waiting"}
      BY <2>5 DEF Enter, Typed
    <3>2. LockInv'
      BY <2>5, <3>1 DEF Enter, LeftInv, LockInv
    <3>3. \A o : Awaited(o) => Awaited(o)'
      BY <2>5, <3>1 DEF Enter, Awaited
    <3>4. InRing' = InRing /\ faults' = faults
      BY <2>5 DEF Enter, InRing, Range
    <3> QED BY <3>2, <3>3, <3>4, OthersLeave
  <2>6. CASE EnterFails(t) \/ Interrupted(t) \/ \E n \in 1..(Entries - 1) : EnterPartly(t, n)
    BY <2>6, FaultLeaves
  <2>7. CASE Wake(t)
    BY <2>7, WaitingLeaves
  <2> QED BY <1>1, <2>1, <2>2, <2>3, <2>4, <2>5, <2>6, <2>7 DEF CallStep
<1>2. ASSUME NEW o \in kernel, Finish(o) PROVE LeftInv'
  <2>1. LockInv' /\ faults' = faults /\ \A x : Awaited(x) => Awaited(x)'
    BY <1>2 DEF Finish, LeftInv, LockInv, Awaited
  <2>2. cq \in Seq(Nat) /\ o \in Nat
    BY DEF Typed
  <2>3. Range(Append(cq, o)) = Range(cq) \cup {o}
    BY <2>2, AppendFacts
  <2>4. InRing' = InRing
    BY <1>2, <2>3 DEF Finish, InRing
  <2> QED BY <2>1, <2>4, OthersLeave
<1>3. CASE UNCHANGED vars
  <2>1. UNCHANGED <<lock, pc, token, ring, faults>>
    BY <1>3 DEF vars
  <2> QED BY <2>1, OthersLeave DEF LeftInv, LockInv, InRing, ring, Awaited
<1> QED BY <1>1, <1>2, <1>3 DEF Next

(* submit_and_wait leaves at most one operation in the ring per fault: the *)
(* queues do not fill up with leftovers of leftovers.                      *)
THEOREM LeftoversCorrect == Spec => []LeftoversWithinFaults
<1>1. Init => LeftInv
  <2> SUFFICES ASSUME Init PROVE LeftInv
    OBVIOUS
  <2>1. Range(sq) = {} /\ Range(cq) = {} /\ kernel = {}
    BY DEF Init, Range
  <2>2. Leftovers = {}
    BY <2>1 DEF Leftovers
  <2>3. Cardinality(Leftovers) = 0 /\ faults = 0
    BY <2>2, FS_EmptySet DEF Init
  <2> QED BY <2>3 DEF Init, LeftInv, LockInv, LeftoversWithinFaults
<1>2. (Typed /\ UringInv) /\ LeftInv /\ [Next]_vars => LeftInv'
  BY LeftStep
<1>3. LeftInv => LeftoversWithinFaults
  BY DEF LeftInv
<1> QED BY <1>1, <1>2, <1>3, UringInvariant, PTL DEF Spec
=============================================================================
