--------------------------- MODULE DpdkPortProofs ---------------------------
(***************************************************************************)
(* Theorems about DpdkPort for any set of threads, any finite mempool, any *)
(* sizes, and any number of calls and of packets that arrive.              *)
(***************************************************************************)
EXTENDS DpdkPort, SequenceTheorems, TLAPS

(* The types. A packet is what is in an mbuf, which a free one is not.     *)
Owner == {"pool", "rx", "tx"} \cup Threads
Content ==
  [from : Threads \cup {"wire"}, no : (Nat \X Nat) \cup (Nat \X Frames), len : Nat]
    \cup {NoPacket}
Handed == [mbuf : Mbufs, packet : Content]
Call0 == [api : Apis \cup {"none"}, n : Nat]

Typed ==
  /\ owner \in [Mbufs -> Owner]
  /\ content \in [Mbufs -> Content]
  /\ rxRing \in Seq(Mbufs)
  /\ txRing \in Seq(Handed)
  /\ arrived \in Nat
  /\ pc \in [Threads -> {"idle", "alloc", "reject", "unsent", "receive", "copy", "returned"}]
  /\ calls \in [Threads -> Nat]
  /\ request \in [Threads -> Call0]
  /\ packets \in [Threads -> Seq(Content)]
  /\ vec \in [Threads -> Seq(Mbufs)]
  /\ result = [t \in Threads |-> result[t]]
  /\ moved \in [Threads -> Seq(Content)]
  /\ failed \in SUBSET Threads

-----------------------------------------------------------------------------
(* The inductive invariant. *)

FromWire(p) == p.no[2] \in Frames

(* The port owns what is in its rings; what it received came off the wire, *)
(* and what it is to send is what it was given.                            *)
RxInv ==
  /\ IsInjective(rxRing)
  /\ \A i \in DOMAIN rxRing : owner[rxRing[i]] = "rx" /\ FromWire(content[rxRing[i]])

TxInv ==
  /\ \A i, j \in DOMAIN txRing : txRing[i].mbuf = txRing[j].mbuf => i = j
  /\ \A i \in DOMAIN txRing :
       owner[txRing[i].mbuf] = "tx" /\ content[txRing[i].mbuf] = txRing[i].packet

(* A thread owns what is in its vector, and what it has lost.              *)
VecInv(t) ==
  /\ IsInjective(vec[t])
  /\ \A i \in DOMAIN vec[t] : owner[vec[t][i]] = t
  /\ Mine(t) # ToSet(vec[t]) => t \in failed

(* What a place in the code says of the call and of its vector.            *)
PhaseInv(t) ==
  /\ pc[t] \in {"idle", "receive", "returned"} => vec[t] = <<>>
  /\ pc[t] \in {"reject", "unsent", "copy"} => vec[t] # <<>>
  /\ pc[t] \in {"alloc", "reject", "unsent"} => request[t].api \in {"tx_burst", "writev"}
  /\ pc[t] \in {"receive", "copy"} => request[t].api \in {"rx_burst", "readv"}
  /\ pc[t] = "copy" /\ request[t].api # "rx_burst" => Len(vec[t]) = 1
  /\ pc[t] = "idle" => request[t] = NoRequest /\ packets[t] = <<>> /\ moved[t] = <<>>

(* Each mbuf of the vector has its packet of the batch.                    *)
SendInv(t) ==
  pc[t] = "alloc" =>
    /\ Len(vec[t]) <= Len(packets[t])
    /\ \A i \in DOMAIN vec[t] : content[vec[t][i]] = packets[t][i]

(* What the port gave is what was copied out and then what is in the       *)
(* vector.                                                                 *)
ReceiveInv(t) ==
  /\ pc[t] \in {"receive", "copy"} =>
       /\ Len(moved[t]) = Len(packets[t]) + Len(vec[t])
       /\ \A i \in DOMAIN packets[t] : moved[t][i] = packets[t][i]
       /\ \A i \in DOMAIN vec[t] : moved[t][Len(packets[t]) + i] = content[vec[t][i]]
  /\ pc[t] = "copy" => \A i \in DOMAIN vec[t] : FromWire(content[vec[t][i]])
  /\ request[t].api = "rx_burst" => \A i \in DOMAIN packets[t] : FromWire(packets[t][i])

(* What is reported, from when it is known.                                *)
Reported(t) ==
  /\ IsPrefix(moved[t], packets[t])
  /\ request[t].api \in {"rx_burst", "readv"} => moved[t] = packets[t]
  /\ result[t].count = IF request[t].api \in {"tx_burst", "rx_burst"}
                         THEN Len(moved[t]) ELSE Bytes(moved[t])
ReportInv(t) == pc[t] \in {"unsent", "returned"} /\ result[t].kind = "ok" => Reported(t)

ThreadInv(t) ==
  VecInv(t) /\ PhaseInv(t) /\ SendInv(t) /\ ReceiveInv(t) /\ ReportInv(t)

DpdkInv == RxInv /\ TxInv /\ \A t \in Threads : ThreadInv(t)

-----------------------------------------------------------------------------
(* Vectors and rings. *)

LEMMA NothingFacts == DOMAIN <<>> = {} /\ IsInjective(<<>>) /\ ToSet(<<>>) = {}
<1>1. DOMAIN <<>> = {}
  OBVIOUS
<1> QED BY <1>1 DEF IsInjective, ToSet

(* One element and what is before or behind it.                            *)
LEMMA SingleFacts ==
  ASSUME NEW S, NEW s \in Seq(S), s # <<>>
  PROVE  /\ Len(s) = 1 <=> Tail(s) = <<>>
         /\ Len(s) = 1 <=> Front(s) = <<>>
<1>1. Len(s) \in Nat \ {0} /\ \A i \in 1..(Len(s) - 1) : s[i] \in S
  OBVIOUS
<1>2. Tail(s) \in Seq(S) /\ Len(Tail(s)) = Len(s) - 1
  OBVIOUS
<1>3. Front(s) \in Seq(S) /\ Len(Front(s)) = Len(s) - 1
  <2> DEFINE n == Len(s)
             u == SubSeq(s, 1, n - 1)
  <2>1. n \in Nat \ {0} /\ n - 1 \in Int /\ \A i \in 1..(n - 1) : s[i] \in S
    BY <1>1
  <2>2. u \in Seq(S) /\ Len(u) = IF 1 <= n - 1 THEN n - 1 - 1 + 1 ELSE 0
    <3> HIDE DEF n
    <3> QED BY <2>1, SubSeqProperties
  <2> HIDE DEF n, u
  <2>3. Len(u) = n - 1
    BY <2>1, <2>2
  <2> QED BY <2>2, <2>3 DEF Front, n, u
<1>4. ASSUME NEW u \in Seq(S), Len(u) = Len(s) - 1 PROVE Len(s) = 1 <=> u = <<>>
  BY <1>1, <1>4, EmptySeq
<1>5. Len(s) = 1 <=> Tail(s) = <<>>
  BY <1>2, <1>4
<1>6. Len(s) = 1 <=> Front(s) = <<>>
  BY <1>3, <1>4
<1> QED BY <1>5, <1>6

LEMMA AppendFacts ==
  ASSUME NEW S, NEW s \in Seq(S), NEW e \in S
  PROVE  /\ Append(s, e) \in Seq(S) /\ Len(Append(s, e)) = Len(s) + 1
         /\ Append(s, e)[Len(s) + 1] = e
         /\ \A i \in 1..Len(s) : Append(s, e)[i] = s[i]
         /\ ToSet(Append(s, e)) = ToSet(s) \cup {e}
         /\ IsInjective(s) /\ e \notin ToSet(s) => IsInjective(Append(s, e))
<1> DEFINE u == Append(s, e)
<1>1. /\ u \in Seq(S) /\ Len(u) = Len(s) + 1 /\ u[Len(s) + 1] = e
      /\ \A i \in 1..Len(s) : u[i] = s[i]
      /\ DOMAIN s = 1..Len(s) /\ DOMAIN u = 1..(Len(s) + 1) /\ Len(s) \in Nat
  OBVIOUS
<1> HIDE DEF u
<1>2. 1..(Len(s) + 1) = 1..Len(s) \cup {Len(s) + 1} /\ Len(s) + 1 \notin 1..Len(s)
  BY <1>1
<1>3. ToSet(u) = ToSet(s) \cup {e}
  BY <1>1, <1>2 DEF ToSet
<1>4. ASSUME IsInjective(s), e \notin ToSet(s) PROVE IsInjective(u)
  BY <1>1, <1>2, <1>4 DEF ToSet, IsInjective
<1> QED BY <1>1, <1>3, <1>4 DEF u

(* What is behind the first k and what is among them.                      *)
LEMMA SplitFacts ==
  ASSUME NEW S, NEW s \in Seq(S), IsInjective(s), NEW k \in 0..Len(s)
  PROVE  LET front == SubSeq(s, 1, k)
             rest == SubSeq(s, k + 1, Len(s))
         IN  /\ front \in Seq(S) /\ Len(front) = k /\ \A i \in 1..k : front[i] = s[i]
             /\ rest \in Seq(S) /\ Len(rest) = Len(s) - k
             /\ \A i \in 1..(Len(s) - k) : rest[i] = s[k + i]
             /\ IsInjective(front) /\ IsInjective(rest)
             /\ ToSet(front) \subseteq ToSet(s)
             /\ ToSet(rest) = ToSet(s) \ ToSet(front)
<1> DEFINE front == SubSeq(s, 1, k)
           rest == SubSeq(s, k + 1, Len(s))
<1>1. /\ Len(s) \in Nat /\ k \in Nat /\ k <= Len(s) /\ DOMAIN s = 1..Len(s)
  OBVIOUS
<1>2. /\ front \in Seq(S) /\ Len(front) = k /\ \A i \in 1..k : front[i] = s[i]
      /\ DOMAIN front = 1..k
  BY <1>1
<1>3. /\ rest \in Seq(S) /\ Len(rest) = Len(s) - k
      /\ \A i \in 1..(Len(s) - k) : rest[i] = s[k + i]
      /\ DOMAIN rest = 1..(Len(s) - k)
  <2>1. \A i \in (k + 1)..Len(s) : s[i] \in S
    BY <1>1
  <2>2. /\ rest \in Seq(S)
        /\ Len(rest) = IF k + 1 <= Len(s) THEN Len(s) - (k + 1) + 1 ELSE 0
        /\ \A i \in 1..(Len(s) - (k + 1) + 1) : rest[i] = s[k + 1 + i - 1]
    <3> HIDE DEF rest
    <3>1. k + 1 \in Int /\ Len(s) \in Int
      BY <1>1
    <3> QED BY <2>1, <3>1, SubSeqProperties DEF rest
  <2> HIDE DEF rest
  <2>3. Len(rest) = Len(s) - k /\ Len(s) - (k + 1) + 1 = Len(s) - k
    <3>1. Len(rest) = IF k + 1 <= Len(s) THEN Len(s) - (k + 1) + 1 ELSE 0
      BY <2>2
    <3>2. Len(s) \in Nat /\ k \in Nat /\ k <= Len(s)
      BY <1>1
    <3> QED BY ONLY <3>1, <3>2
  <2>4. \A i \in 1..(Len(s) - k) : k + 1 + i - 1 = k + i
    BY <1>1
  <2> QED BY <2>2, <2>3, <2>4
<1> HIDE DEF front, rest
<1>4. \A i \in 1..k : i \in 1..Len(s)
  BY <1>1
<1>5. \A i \in 1..(Len(s) - k) : k + i \in 1..Len(s) /\ k + i \notin 1..k
  BY <1>1
<1>6. IsInjective(front)
  BY <1>1, <1>2, <1>4 DEF IsInjective
<1>7. IsInjective(rest)
  <2> SUFFICES ASSUME NEW i \in 1..(Len(s) - k), NEW j \in 1..(Len(s) - k), rest[i] = rest[j]
               PROVE  i = j
    BY <1>3 DEF IsInjective
  <2>1. k + i = k + j
    BY <1>1, <1>3, <1>5 DEF IsInjective
  <2> QED BY <1>1, <2>1
<1>8. ToSet(front) \subseteq ToSet(s)
  BY <1>1, <1>2, <1>4 DEF ToSet
<1>9. ToSet(rest) \subseteq ToSet(s) \ ToSet(front)
  <2> SUFFICES ASSUME NEW i \in 1..(Len(s) - k)
               PROVE  rest[i] \in ToSet(s) \ ToSet(front)
    BY <1>3 DEF ToSet
  <2>1. rest[i] = s[k + i] /\ rest[i] \in ToSet(s)
    BY <1>1, <1>3, <1>5 DEF ToSet
  <2>2. ASSUME NEW j \in 1..k, rest[i] = front[j] PROVE FALSE
    <3>1. s[k + i] = s[j] /\ j \in 1..Len(s)
      BY <1>2, <1>4, <2>1, <2>2
    <3>2. k + i = j
      BY <1>1, <1>5, <3>1 DEF IsInjective
    <3> QED BY <1>5, <3>2
  <2> QED BY <1>2, <2>1, <2>2 DEF ToSet
<1>10. ToSet(s) \ ToSet(front) \subseteq ToSet(rest)
  <2> SUFFICES ASSUME NEW j \in 1..Len(s), s[j] \notin ToSet(front)
               PROVE  s[j] \in ToSet(rest)
    BY <1>1 DEF ToSet
  <2>1. j \notin 1..k
    BY <1>2 DEF ToSet
  <2>2. j - k \in 1..(Len(s) - k) /\ k + (j - k) = j
    BY <1>1, <2>1
  <2>3. rest[j - k] = s[j]
    BY <1>3, <2>2
  <2> QED BY <1>3, <2>2, <2>3 DEF ToSet
<1> QED BY <1>2, <1>3, <1>6, <1>7, <1>8, <1>9, <1>10 DEF front, rest

LEMMA TailFacts ==
  ASSUME NEW S, NEW s \in Seq(S), s # <<>>
  PROVE  /\ Len(s) \in Nat \ {0} /\ 1 \in DOMAIN s
         /\ Tail(s) \in Seq(S) /\ Len(Tail(s)) = Len(s) - 1
         /\ \A i \in 1..(Len(s) - 1) : Tail(s)[i] = s[i + 1] /\ i + 1 \in DOMAIN s
         /\ Head(s) = s[1] /\ Head(s) \in ToSet(s)
         /\ IsInjective(s) =>
              IsInjective(Tail(s)) /\ ToSet(Tail(s)) = ToSet(s) \ {Head(s)}
<1>1. /\ Len(s) \in Nat \ {0} /\ DOMAIN s = 1..Len(s) /\ 1 \in DOMAIN s
      /\ Tail(s) \in Seq(S) /\ Len(Tail(s)) = Len(s) - 1
      /\ \A i \in 1..(Len(s) - 1) : Tail(s)[i] = s[i + 1] /\ i + 1 \in DOMAIN s
      /\ Head(s) = s[1]
  OBVIOUS
<1>2. Head(s) \in ToSet(s)
  BY <1>1 DEF ToSet
<1>3. ASSUME IsInjective(s)
      PROVE  IsInjective(Tail(s)) /\ ToSet(Tail(s)) = ToSet(s) \ {Head(s)}
  <2>1. Tail(s) = SubSeq(s, 1 + 1, Len(s)) /\ 1 \in 0..Len(s)
    BY <1>1, TailIsSubSeq
  <2>2. ToSet(SubSeq(s, 1, 1)) = {Head(s)}
    <3>1. /\ Len(SubSeq(s, 1, 1)) = 1 /\ SubSeq(s, 1, 1)[1] = s[1]
          /\ DOMAIN SubSeq(s, 1, 1) = {1}
      BY <1>1
    <3> QED BY <1>1, <3>1 DEF ToSet
  <2>3. /\ IsInjective(SubSeq(s, 1 + 1, Len(s)))
        /\ ToSet(SubSeq(s, 1 + 1, Len(s))) = ToSet(s) \ ToSet(SubSeq(s, 1, 1))
    BY <1>3, <2>1, SplitFacts
  <2> QED BY <2>1, <2>2, <2>3
<1> QED BY <1>1, <1>2, <1>3

-----------------------------------------------------------------------------
(* What a step leaves alone. *)

(* The mbufs in ms pass from a to b, the others stay as they are.          *)
Moves(ms, a, b) ==
  \A m \in Mbufs :
    IF m \in ms THEN owner[m] = a /\ owner'[m] = b
    ELSE owner'[m] = owner[m] /\ content'[m] = content[m]

SameCall(t) ==
  /\ pc'[t] = pc[t] /\ request'[t] = request[t] /\ packets'[t] = packets[t]
  /\ vec'[t] = vec[t] /\ result'[t] = result[t] /\ moved'[t] = moved[t]
  /\ t \in failed => t \in failed'
Others(t) == \A u \in Threads \ {t} : SameCall(u)

LEMMA ThreadsAreNoRings == \A t \in Threads : t # "pool" /\ t # "rx" /\ t # "tx"
BY OwnersAssumption

LEMMA RingsStay ==
  ASSUME Typed, NEW ms, NEW a, NEW b, Moves(ms, a, b)
  PROVE  /\ RxInv /\ a # "rx" /\ rxRing' = rxRing => RxInv'
         /\ TxInv /\ a # "tx" /\ txRing' = txRing => TxInv'
<1>1. \A i \in DOMAIN rxRing : rxRing[i] \in Mbufs
  BY DEF Typed
<1>2. \A i \in DOMAIN txRing : txRing[i].mbuf \in Mbufs
  <2>1. \A i \in DOMAIN txRing : txRing[i] \in Handed
    BY DEF Typed
  <2> QED BY <2>1 DEF Handed
<1>3. ASSUME RxInv, a # "rx", rxRing' = rxRing PROVE RxInv'
  <2>1. ASSUME NEW i \in DOMAIN rxRing
        PROVE  owner'[rxRing[i]] = "rx" /\ FromWire(content'[rxRing[i]])
    BY <1>1, <1>3 DEF RxInv, Moves
  <2> QED BY <1>3, <2>1 DEF RxInv, FromWire
<1>4. ASSUME TxInv, a # "tx", txRing' = txRing PROVE TxInv'
  <2>1. ASSUME NEW i \in DOMAIN txRing
        PROVE  owner'[txRing[i].mbuf] = "tx" /\ content'[txRing[i].mbuf] = txRing[i].packet
    BY <1>2, <1>4 DEF TxInv, Moves
  <2> QED BY <1>4, <2>1 DEF TxInv
<1> QED BY <1>3, <1>4

LEMMA ThreadStays ==
  ASSUME Typed, NEW ms, NEW a, NEW b, Moves(ms, a, b),
         NEW u \in Threads, u # a, u # b, SameCall(u), ThreadInv(u)
  PROVE  ThreadInv(u)'
<1>1. \A i \in DOMAIN vec[u] :
        /\ vec[u][i] \in Mbufs /\ owner[vec[u][i]] = u
        /\ owner'[vec[u][i]] = u /\ content'[vec[u][i]] = content[vec[u][i]]
  BY DEF Typed, ThreadInv, VecInv, Moves
<1>2. Mine(u)' = Mine(u)
  BY DEF Mine, Moves
<1>3. VecInv(u)'
  BY <1>1, <1>2 DEF ThreadInv, VecInv, SameCall
<1>4. PhaseInv(u)'
  BY DEF ThreadInv, PhaseInv, SameCall
<1>5. SendInv(u)'
  BY <1>1 DEF ThreadInv, SendInv, SameCall
<1>6. ReceiveInv(u)'
  <2>1. /\ pc'[u] = pc[u] /\ request'[u] = request[u] /\ packets'[u] = packets[u]
        /\ vec'[u] = vec[u] /\ moved'[u] = moved[u] /\ ReceiveInv(u)
    BY DEF ThreadInv, SameCall
  <2>2. \A i \in DOMAIN vec'[u] : content'[vec'[u][i]] = content[vec[u][i]]
    BY <1>1, <2>1
  <2>3. pc'[u] = "copy" => \A i \in DOMAIN vec'[u] : FromWire(content'[vec'[u][i]])
    BY <2>1, <2>2 DEF ReceiveInv
  <2>4. request'[u].api = "rx_burst" => \A i \in DOMAIN packets'[u] : FromWire(packets'[u][i])
    BY <2>1 DEF ReceiveInv
  <2>5. pc'[u] \in {"receive", "copy"} =>
          /\ Len(moved'[u]) = Len(packets'[u]) + Len(vec'[u])
          /\ \A i \in DOMAIN packets'[u] : moved'[u][i] = packets'[u][i]
          /\ \A i \in DOMAIN vec'[u] : moved'[u][Len(packets'[u]) + i] = content'[vec'[u][i]]
    BY <2>1, <2>2 DEF ReceiveInv
  <2> QED BY <2>3, <2>4, <2>5 DEF ReceiveInv, FromWire
<1>7. ReportInv(u)'
  BY DEF ThreadInv, ReportInv, Reported, SameCall
<1> QED BY <1>3, <1>4, <1>5, <1>6, <1>7 DEF ThreadInv

(* A step of t, which takes from the pool, from a ring or gives to them.   *)
LEMMA StepKeeps ==
  ASSUME Typed, DpdkInv, NEW t \in Threads, Others(t),
         NEW ms, NEW a \in {"pool", "rx", "tx", t}, NEW b \in {"pool", "rx", "tx", t},
         Moves(ms, a, b), RxInv', TxInv', ThreadInv(t)'
  PROVE  DpdkInv'
<1>1. ASSUME NEW u \in Threads, u # t PROVE ThreadInv(u)'
  <2>1. u # a /\ u # b
    BY <1>1, ThreadsAreNoRings
  <2> QED BY <1>1, <2>1, ThreadStays DEF Others, DpdkInv
<1> QED BY <1>1 DEF DpdkInv

(* A step of t that moves no mbuf and leaves the rings alone.              *)
LEMMA LocalStepKeeps ==
  ASSUME Typed, DpdkInv, NEW t \in Threads, Others(t), UNCHANGED port, ThreadInv(t)'
  PROVE  DpdkInv'
<1>1. Moves({}, "pool", "pool")
  BY DEF Moves, port
<1>2. RxInv' /\ TxInv'
  BY <1>1, RingsStay DEF DpdkInv, port
<1> QED BY <1>1, <1>2, StepKeeps

(* The vector loses ms, whoever gets them.                                 *)
LEMMA VecLoses ==
  ASSUME Typed, NEW t \in Threads, VecInv(t), NEW ms, NEW b, b # t, Moves(ms, t, b),
         t \in failed => t \in failed', IsInjective(vec'[t]),
         ToSet(vec'[t]) = ToSet(vec[t]) \ ms
  PROVE  VecInv(t)'
<1>1. Mine(t)' = Mine(t) \ ms
  BY DEF Mine, Moves
<1>2. ToSet(vec[t]) \subseteq Mine(t)
  BY DEF VecInv, Mine, ToSet, Typed
<1>3. \A i \in DOMAIN vec'[t] : vec'[t][i] \in Mine(t)'
  BY <1>1, <1>2 DEF ToSet
<1>4. \A i \in DOMAIN vec'[t] : owner'[vec'[t][i]] = t
  BY <1>3 DEF Mine
<1>5. Mine(t)' # ToSet(vec'[t]) => t \in failed'
  BY <1>1 DEF VecInv
<1> QED BY <1>4, <1>5 DEF VecInv

-----------------------------------------------------------------------------
(* The bytes of no packets. *)
LEMMA NoBytes == Bytes(<<>>) = 0
<1> DEFINE sum[s \in SUBSET (DOMAIN <<>>)] ==
             IF s = {} THEN 0 ELSE sum[s \ {Max(s)}] + <<>>[Max(s)].len
<1>1. Bytes(<<>>) = sum[DOMAIN <<>>]
  BY Zenon DEF Bytes, FoldLeft, MapThenFoldSet
<1>2. DOMAIN <<>> = {}
  OBVIOUS
<1>3. sum[{}] = 0
  <2> DEFINE f == [s \in SUBSET (DOMAIN <<>>) |-> 0]
  <2>1. f = [s \in SUBSET (DOMAIN <<>>) |->
               IF s = {} THEN 0 ELSE f[s \ {Max(s)}] + <<>>[Max(s)].len]
    BY <1>2
  <2>2. sum = [s \in SUBSET (DOMAIN <<>>) |->
                 IF s = {} THEN 0 ELSE sum[s \ {Max(s)}] + <<>>[Max(s)].len]
    <3> HIDE DEF f
    <3> QED BY Zenon, <2>1
  <2> QED BY <1>2, <2>2
<1> QED BY <1>1, <1>2, <1>3

(* A call begins with nothing in the vector and nothing received.          *)
LEMMA BeginFacts ==
  ASSUME Typed, DpdkInv, NEW t \in Threads, NEW api \in Apis, NEW n \in Nat, Begins(t, api, n)
  PROVE  /\ vec'[t] = <<>> /\ packets[t] = <<>> /\ moved'[t] = <<>>
         /\ request'[t] = [api |-> api, n |-> n] /\ VecInv(t)'
         /\ calls' \in [Threads -> Nat] /\ calls'[t] \in Nat
         /\ request' \in [Threads -> Call0]
         /\ \A u \in Threads \ {t} : request'[u] = request[u]
         /\ UNCHANGED <<runtime, eal, port, arrived, vec, moved, failed>>
<1> USE DEF Begins, port
<1>1. vec[t] = <<>> /\ packets[t] = <<>> /\ moved[t] = <<>> /\ VecInv(t)
  BY DEF DpdkInv, ThreadInv, PhaseInv
<1>2. [api |-> api, n |-> n] \in Call0
  BY DEF Call0
<1>3. /\ calls' \in [Threads -> Nat] /\ calls'[t] \in Nat
      /\ request' \in [Threads -> Call0] /\ request'[t] = [api |-> api, n |-> n]
      /\ \A u \in Threads \ {t} : request'[u] = request[u]
  BY <1>2 DEF Typed
<1>4. VecInv(t)'
  BY <1>1 DEF VecInv, Mine
<1> QED BY <1>1, <1>3, <1>4

LEMMA DoneFacts ==
  ASSUME Typed, NEW t \in Threads, NEW kind, NEW count, Done(t, kind, count)
  PROVE  /\ pc'[t] = "returned" /\ result'[t] = [kind |-> kind, count |-> count]
         /\ \A u \in Threads \ {t} : pc'[u] = pc[u] /\ result'[u] = result[u]
         /\ result' = [u \in Threads |-> result'[u]]
         /\ pc' \in [Threads ->
                     {"idle", "alloc", "reject", "unsent", "receive", "copy", "returned"}]
BY DEF Typed, Done

LEMMA RefuseKeeps ==
  ASSUME Typed, DpdkInv, NEW t \in Threads, NEW api \in Apis, NEW n \in 0..1, Refuse(t, api, n)
  PROVE  Typed' /\ DpdkInv'
<1>1. PICK answer \in {"ok", "error"} : Done(t, answer, 0)
  BY DEF Refuse
<1>2. Begins(t, api, n) /\ packets' = packets /\ n \in Nat
  <2>1. n \in Nat
    OBVIOUS
  <2>2. Begins(t, api, n) /\ packets' = packets
    BY Zenon DEF Refuse
  <2> QED BY <2>1, <2>2
<1>3. /\ vec'[t] = <<>> /\ packets[t] = <<>> /\ moved'[t] = <<>>
      /\ request'[t] = [api |-> api, n |-> n] /\ VecInv(t)'
      /\ calls' \in [Threads -> Nat] /\ request' \in [Threads -> Call0]
      /\ \A u \in Threads \ {t} : request'[u] = request[u]
      /\ UNCHANGED <<runtime, eal, port, arrived, vec, moved, failed>>
  BY <1>2, BeginFacts
<1>4. Typed'
  BY <1>1, <1>2, <1>3, DoneFacts DEF Typed, port
<1>5. Others(t)
  BY <1>1, <1>2, <1>3, DoneFacts DEF Others, SameCall
<1>6. pc'[t] = "returned" /\ result'[t].count = 0
  <2>1. pc'[t] = "returned" /\ result'[t] = [kind |-> answer, count |-> 0]
    BY <1>1, DoneFacts
  <2> QED BY <2>1
<1>7. PhaseInv(t)' /\ SendInv(t)' /\ ReceiveInv(t)'
  BY <1>2, <1>3, <1>6 DEF PhaseInv, SendInv, ReceiveInv
<1>8. Reported(t)'
  BY <1>2, <1>3, <1>6, NoBytes DEF Reported, IsPrefix
<1>9. ThreadInv(t)'
  BY <1>3, <1>7, <1>8 DEF ThreadInv, ReportInv
<1> QED BY <1>3, <1>4, <1>5, <1>9, LocalStepKeeps

LEMMA CollectKeeps ==
  ASSUME Typed, DpdkInv, NEW t \in Threads, Collect(t)
  PROVE  Typed' /\ DpdkInv'
<1> USE DEF Collect, port
<1>1. NoRequest \in Call0 /\ <<>> \in Seq(Content)
  BY DEF NoRequest, Call0
<1>2. Typed'
  BY <1>1 DEF Typed
<1>3. Others(t)
  BY DEF Typed, Others, SameCall
<1>4. /\ pc'[t] = "idle" /\ packets'[t] = <<>> /\ moved'[t] = <<>>
      /\ request'[t] = NoRequest /\ vec' = vec /\ vec[t] = <<>>
  BY DEF Typed, DpdkInv, ThreadInv, PhaseInv
<1>5. VecInv(t)'
  BY DEF DpdkInv, ThreadInv, VecInv, Mine
<1>6. PhaseInv(t)' /\ SendInv(t)' /\ ReceiveInv(t)' /\ ReportInv(t)'
  BY <1>4 DEF PhaseInv, SendInv, ReceiveInv, ReportInv, NoRequest
<1> QED BY <1>2, <1>3, <1>5, <1>6, LocalStepKeeps DEF ThreadInv

LEMMA BeginReceiveKeeps ==
  ASSUME Typed, DpdkInv, NEW t \in Threads, NEW api \in {"rx_burst", "readv"},
         NEW n \in 1..MaxBatch, BeginReceive(t, api, n)
  PROVE  Typed' /\ DpdkInv'
<1>1. Begins(t, api, n) /\ packets' = packets /\ result' = result /\ n \in Nat /\ api \in Apis
  BY SizesAssumption DEF BeginReceive, Apis
<1>2. /\ vec'[t] = <<>> /\ packets[t] = <<>> /\ moved'[t] = <<>>
      /\ request'[t] = [api |-> api, n |-> n] /\ VecInv(t)'
      /\ calls' \in [Threads -> Nat] /\ request' \in [Threads -> Call0]
      /\ \A u \in Threads \ {t} : request'[u] = request[u]
      /\ UNCHANGED <<runtime, eal, port, arrived, vec, moved, failed>>
  BY <1>1, BeginFacts
<1>3. pc' = [pc EXCEPT ![t] = "receive"]
  BY DEF BeginReceive
<1>4. Typed'
  BY <1>1, <1>2, <1>3 DEF Typed, port
<1>5. Others(t)
  BY <1>1, <1>2, <1>3 DEF Typed, Others, SameCall
<1>6. pc'[t] = "receive"
  BY <1>3 DEF Typed
<1>7. PhaseInv(t)' /\ SendInv(t)' /\ ReceiveInv(t)' /\ ReportInv(t)'
  BY <1>1, <1>2, <1>6 DEF PhaseInv, SendInv, ReceiveInv, ReportInv
<1> QED BY <1>2, <1>4, <1>5, <1>7, LocalStepKeeps DEF ThreadInv

LEMMA BeginSendKeeps ==
  ASSUME Typed, DpdkInv, NEW t \in Threads, NEW api \in {"tx_burst", "writev"},
         NEW lens \in Seq(Nat), BeginSend(t, api, lens)
  PROVE  Typed' /\ DpdkInv'
<1> DEFINE batch == [i \in DOMAIN lens |-> [from |-> t, no |-> <<calls'[t], i>>, len |-> lens[i]]]
<1>1. /\ Begins(t, api, Len(lens)) /\ result' = result /\ Len(lens) \in Nat /\ api \in Apis
      /\ packets' = [packets EXCEPT ![t] = batch] /\ pc' = [pc EXCEPT ![t] = "alloc"]
  BY DEF BeginSend, Apis
<1>2. /\ vec'[t] = <<>> /\ moved'[t] = <<>>
      /\ request'[t] = [api |-> api, n |-> Len(lens)] /\ VecInv(t)'
      /\ calls' \in [Threads -> Nat] /\ calls'[t] \in Nat /\ request' \in [Threads -> Call0]
      /\ \A u \in Threads \ {t} : request'[u] = request[u]
      /\ UNCHANGED <<runtime, eal, port, arrived, vec, moved, failed>>
  BY <1>1, BeginFacts
<1>3. batch \in Seq(Content)
  <2>1. \A i \in 1..Len(lens) : [from |-> t, no |-> <<calls'[t], i>>, len |-> lens[i]] \in Content
    BY <1>2 DEF Content
  <2>2. DOMAIN lens = 1..Len(lens) /\ Len(lens) \in Nat
    OBVIOUS
  <2> QED BY <2>1, <2>2
<1> HIDE DEF batch
<1>4. Typed'
  BY <1>1, <1>2, <1>3 DEF Typed, port
<1>5. Others(t)
  BY <1>1, <1>2 DEF Typed, Others, SameCall
<1>6. pc'[t] = "alloc" /\ packets'[t] = batch /\ Len(batch) \in Nat
  BY <1>1, <1>3 DEF Typed
<1>7. PhaseInv(t)' /\ SendInv(t)' /\ ReceiveInv(t)' /\ ReportInv(t)'
  BY <1>2, <1>6 DEF PhaseInv, SendInv, ReceiveInv, ReportInv
<1> QED BY <1>2, <1>4, <1>5, <1>7, LocalStepKeeps DEF ThreadInv

-----------------------------------------------------------------------------
(* Sending. *)

LEMMA FreeFacts ==
  ASSUME Typed, NEW ms, NEW a, \A m \in Mbufs : m \in ms => owner[m] = a, Free(ms)
  PROVE  Moves(ms, a, "pool") /\ owner' \in [Mbufs -> Owner] /\ content' \in [Mbufs -> Content]
<1>1. Moves(ms, a, "pool")
  BY DEF Moves, Free
<1>2. "pool" \in Owner /\ NoPacket \in Content
  BY DEF Owner, Content
<1>3. owner' \in [Mbufs -> Owner] /\ content' \in [Mbufs -> Content]
  BY <1>2 DEF Typed, Free
<1> QED BY <1>1, <1>3

(* The vector of raw pointers is dropped: what was in it is lost.          *)
LEMMA FailBatchFacts ==
  ASSUME Typed, DpdkInv, NEW t \in Threads, NEW held, FailBatch(t, held)
  PROVE  /\ vec'[t] = <<>> /\ failed \subseteq failed'
         /\ held # <<>> => t \in failed'
         /\ UNCHANGED <<rxRing, txRing>>
         /\ owner' \in [Mbufs -> Owner] /\ content' \in [Mbufs -> Content] => Typed'
         /\ Others(t)
         /\ PhaseInv(t)' /\ SendInv(t)' /\ ReceiveInv(t)' /\ ReportInv(t)'
<1>1. /\ Done(t, "error", 0) /\ vec' = [vec EXCEPT ![t] = <<>>]
      /\ failed' = (IF held = <<>> THEN failed ELSE failed \cup {t})
      /\ UNCHANGED <<runtime, eal, rxRing, txRing, arrived, calls, request, packets, moved>>
  BY DEF FailBatch
<1>2. /\ pc'[t] = "returned" /\ result'[t].kind # "ok"
      /\ \A u \in Threads \ {t} : pc'[u] = pc[u] /\ result'[u] = result[u]
      /\ result' = [u \in Threads |-> result'[u]]
      /\ pc' \in [Threads ->
                  {"idle", "alloc", "reject", "unsent", "receive", "copy", "returned"}]
  <2>1. result'[t] = [kind |-> "error", count |-> 0]
    BY <1>1, DoneFacts
  <2>2. result'[t].kind # "ok"
    BY <2>1
  <2> QED BY <1>1, <2>2, DoneFacts
<1>3. vec' \in [Threads -> Seq(Mbufs)] /\ vec'[t] = <<>>
  BY <1>1 DEF Typed
<1>4. /\ failed \subseteq failed' /\ failed' \in SUBSET Threads
      /\ held # <<>> => t \in failed'
  BY <1>1 DEF Typed
<1>5. owner' \in [Mbufs -> Owner] /\ content' \in [Mbufs -> Content] => Typed'
  BY <1>1, <1>2, <1>3, <1>4 DEF Typed
<1>6. Others(t)
  BY <1>1, <1>2, <1>4 DEF Typed, Others, SameCall
<1>7. PhaseInv(t)' /\ SendInv(t)' /\ ReportInv(t)'
  BY <1>2, <1>3 DEF PhaseInv, SendInv, ReportInv
<1>8. ReceiveInv(t)'
  <2>1. request'[t].api = "rx_burst" => \A i \in DOMAIN packets'[t] : FromWire(packets'[t][i])
    BY <1>1 DEF DpdkInv, ThreadInv, ReceiveInv
  <2> QED BY <1>2, <2>1 DEF ReceiveInv, FromWire
<1> QED BY <1>1, <1>3, <1>4, <1>5, <1>6, <1>7, <1>8

LEMMA NoMbufForPacketKeeps ==
  ASSUME Typed, DpdkInv, NEW t \in Threads, NoMbufForPacket(t)
  PROVE  Typed' /\ DpdkInv'
<1>1. FailBatch(t, vec[t]) /\ UNCHANGED <<owner, content>>
  BY DEF NoMbufForPacket
<1>2. /\ vec'[t] = <<>> /\ failed \subseteq failed'
      /\ vec[t] # <<>> => t \in failed'
      /\ UNCHANGED port /\ Typed' /\ Others(t)
      /\ PhaseInv(t)' /\ SendInv(t)' /\ ReceiveInv(t)' /\ ReportInv(t)'
  <2>1. owner' \in [Mbufs -> Owner] /\ content' \in [Mbufs -> Content]
    BY <1>1 DEF Typed
  <2>2. /\ vec'[t] = <<>> /\ failed \subseteq failed'
        /\ vec[t] # <<>> => t \in failed'
        /\ UNCHANGED <<rxRing, txRing>> /\ Typed' /\ Others(t)
        /\ PhaseInv(t)' /\ SendInv(t)' /\ ReceiveInv(t)' /\ ReportInv(t)'
    BY <1>1, <2>1, FailBatchFacts
  <2> QED BY <1>1, <2>2 DEF port
<1>3. VecInv(t)'
  <2>1. Mine(t)' = Mine(t)
    BY <1>1 DEF Mine
  <2>2. VecInv(t)
    BY DEF DpdkInv, ThreadInv
  <2>3. IsInjective(vec'[t]) /\ ToSet(vec'[t]) = {} /\ DOMAIN vec'[t] = {}
    <3>1. vec'[t] = <<>>
      BY <1>2
    <3> QED BY <3>1, NothingFacts
  <2>4. CASE vec[t] = <<>>
    BY <1>1, <1>2, <2>1, <2>2, <2>4 DEF VecInv
  <2>5. CASE vec[t] # <<>>
    BY <1>2, <2>3, <2>5 DEF VecInv
  <2> QED BY <2>4, <2>5
<1> QED BY <1>2, <1>3, LocalStepKeeps DEF ThreadInv

LEMMA RejectPacketKeeps ==
  ASSUME Typed, DpdkInv, NEW t \in Threads, RejectPacket(t)
  PROVE  Typed' /\ DpdkInv'
<1> DEFINE s == vec[t]
           ms == {Last(s)}
<1>1. /\ s \in Seq(Mbufs) /\ s # <<>> /\ VecInv(t) /\ Free(ms) /\ FailBatch(t, Front(s))
      /\ RxInv /\ TxInv
  BY DEF Typed, RejectPacket, DpdkInv, ThreadInv, PhaseInv
<1>2. Len(s) \in Nat \ {0} /\ Last(s) = s[Len(s)] /\ Len(s) \in DOMAIN s /\ Last(s) \in Mbufs
  BY <1>1 DEF Last
<1>3. Moves(ms, t, "pool") /\ owner' \in [Mbufs -> Owner] /\ content' \in [Mbufs -> Content]
  <2>1. \A m \in Mbufs : m \in ms => owner[m] = t
    BY <1>1, <1>2 DEF VecInv
  <2> QED BY <1>1, <2>1, FreeFacts
<1>4. /\ vec'[t] = <<>> /\ failed \subseteq failed'
      /\ Front(s) # <<>> => t \in failed'
      /\ UNCHANGED <<rxRing, txRing>> /\ Typed' /\ Others(t)
      /\ PhaseInv(t)' /\ SendInv(t)' /\ ReceiveInv(t)' /\ ReportInv(t)'
  BY <1>1, <1>3, FailBatchFacts
<1>5. RxInv' /\ TxInv'
  BY <1>1, <1>3, <1>4, RingsStay, ThreadsAreNoRings
<1>6. VecInv(t)'
  <2>1. IsInjective(vec'[t]) /\ ToSet(vec'[t]) = {} /\ DOMAIN vec'[t] = {}
    <3>1. vec'[t] = <<>>
      BY <1>4
    <3> QED BY <3>1, NothingFacts
  <2>2. CASE Front(s) # <<>>
    BY <1>4, <2>1, <2>2 DEF VecInv
  <2>3. CASE Front(s) = <<>>
    <3>1. Len(s) = 1
      BY <1>1, <2>3, SingleFacts
    <3>2. ToSet(s) = ms
      BY <1>1, <1>2, <3>1 DEF ToSet
    <3>3. "pool" # t /\ ToSet(vec'[t]) = ToSet(s) \ ms /\ (t \in failed => t \in failed')
      BY <1>4, <2>1, <3>2, ThreadsAreNoRings
    <3> HIDE DEF ms
    <3> QED BY <1>1, <1>3, <2>1, <3>3, VecLoses
  <2> QED BY <2>2, <2>3
<1> QED BY <1>3, <1>4, <1>5, <1>6, StepKeeps DEF ThreadInv

LEMMA FreeUnsentKeeps ==
  ASSUME Typed, DpdkInv, NEW t \in Threads, FreeUnsent(t)
  PROVE  Typed' /\ DpdkInv'
<1> DEFINE s == vec[t]
<1>1. /\ s \in Seq(Mbufs) /\ s # <<>> /\ VecInv(t) /\ Free({Head(s)})
      /\ vec' = [vec EXCEPT ![t] = Tail(s)]
      /\ pc' = [pc EXCEPT ![t] = IF Len(s) = 1 THEN "returned" ELSE "unsent"]
      /\ UNCHANGED <<runtime, eal, rxRing, txRing, arrived, calls, request, packets, result,
                     moved, failed>>
      /\ RxInv /\ TxInv
  BY DEF Typed, FreeUnsent, DpdkInv, ThreadInv, PhaseInv
<1>2. /\ Len(s) \in Nat \ {0} /\ Tail(s) \in Seq(Mbufs) /\ Len(Tail(s)) = Len(s) - 1
      /\ Head(s) \in ToSet(s) /\ IsInjective(Tail(s)) /\ ToSet(Tail(s)) = ToSet(s) \ {Head(s)}
  BY <1>1, TailFacts DEF VecInv
<1>3. Moves({Head(s)}, t, "pool") /\ owner' \in [Mbufs -> Owner] /\ content' \in [Mbufs -> Content]
  <2>1. \A m \in Mbufs : m \in {Head(s)} => owner[m] = t
    BY <1>1, <1>2 DEF VecInv, ToSet
  <2> QED BY <1>1, <2>1, FreeFacts
<1>4. Typed'
  BY <1>1, <1>2, <1>3 DEF Typed
<1>5. Others(t)
  BY <1>1 DEF Typed, Others, SameCall
<1>6. RxInv' /\ TxInv'
  BY <1>1, <1>3, RingsStay, ThreadsAreNoRings
<1>7. vec'[t] = Tail(s) /\ pc'[t] = (IF Len(s) = 1 THEN "returned" ELSE "unsent") /\ pc[t] = "unsent"
  BY <1>1 DEF Typed, FreeUnsent
<1>8. VecInv(t)'
  BY <1>1, <1>2, <1>3, <1>7, VecLoses, ThreadsAreNoRings
<1>9. PhaseInv(t)'
  <2>1. Len(s) = 1 <=> Tail(s) = <<>>
    BY <1>1, SingleFacts
  <2>2. request'[t].api \in {"tx_burst", "writev"}
    BY <1>1, <1>7 DEF DpdkInv, ThreadInv, PhaseInv
  <2> QED BY <1>7, <2>1, <2>2 DEF PhaseInv
<1>10. SendInv(t)' /\ ReportInv(t)'
  BY <1>1, <1>7 DEF DpdkInv, ThreadInv, SendInv, ReportInv, Reported
<1>11. ReceiveInv(t)'
  <2>1. request'[t].api \in {"tx_burst", "writev"}
    BY <1>1, <1>7 DEF DpdkInv, ThreadInv, PhaseInv
  <2> QED BY <1>7, <2>1 DEF ReceiveInv
<1> QED BY <1>3, <1>4, <1>5, <1>6, <1>8, <1>9, <1>10, <1>11, StepKeeps DEF ThreadInv

LEMMA AllocMbufKeeps ==
  ASSUME Typed, DpdkInv, NEW t \in Threads, NEW m \in Mbufs, AllocMbuf(t, m)
  PROVE  Typed' /\ DpdkInv'
<1> DEFINE s == vec[t]
           p == NextPacket(t)
<1>1. /\ s \in Seq(Mbufs) /\ packets[t] \in Seq(Content) /\ Len(s) \in Nat
      /\ Len(packets[t]) \in Nat /\ Len(s) < Len(packets[t])
      /\ pc[t] = "alloc" /\ owner[m] = "pool"
      /\ owner' = [owner EXCEPT ![m] = t] /\ vec' = [vec EXCEPT ![t] = Append(s, m)]
      /\ UNCHANGED <<runtime, eal, rxRing, txRing, arrived, calls, request, packets, result,
                     moved, failed>>
  BY DEF AllocMbuf, Typed
<1>2. \/ pc' = pc /\ content' = [content EXCEPT ![m] = p]
      \/ pc' = [pc EXCEPT ![t] = "reject"] /\ content' = content
  BY DEF AllocMbuf
<1>3. VecInv(t) /\ SendInv(t) /\ RxInv /\ TxInv /\ t # "pool"
  BY ThreadsAreNoRings DEF DpdkInv, ThreadInv
<1>4. /\ Append(s, m) \in Seq(Mbufs) /\ Len(Append(s, m)) = Len(s) + 1
      /\ Append(s, m)[Len(s) + 1] = m /\ \A i \in 1..Len(s) : Append(s, m)[i] = s[i]
      /\ ToSet(Append(s, m)) = ToSet(s) \cup {m}
      /\ IsInjective(s) /\ m \notin ToSet(s) => IsInjective(Append(s, m))
  BY <1>1, AppendFacts
<1>5. m \notin ToSet(s) /\ IsInjective(s) /\ ToSet(s) \subseteq Mine(t)
  BY <1>1, <1>3 DEF VecInv, ToSet, Mine
<1>6. p \in Content /\ p = packets[t][Len(s) + 1]
  <2>1. Len(s) + 1 \in 1..Len(packets[t])
    BY <1>1
  <2> QED BY <1>1, <2>1 DEF NextPacket
<1> HIDE DEF p
<1>7. Typed'
  <2>1. owner' \in [Mbufs -> Owner] /\ content' \in [Mbufs -> Content]
    BY <1>1, <1>2, <1>6 DEF Typed, Owner
  <2>2. vec' \in [Threads -> Seq(Mbufs)]
    BY <1>1, <1>4 DEF Typed
  <2>3. pc' \in [Threads ->
                {"idle", "alloc", "reject", "unsent", "receive", "copy", "returned"}]
    BY <1>2 DEF Typed
  <2> QED BY <1>1, <2>1, <2>2, <2>3 DEF Typed
<1>8. Others(t)
  <2>1. \A u \in Threads \ {t} : pc'[u] = pc[u]
    BY <1>2 DEF Typed
  <2> QED BY <1>1, <2>1 DEF Typed, Others, SameCall
<1>9. Moves({m}, "pool", t)
  BY <1>1, <1>2 DEF Typed, Moves
<1>10. RxInv' /\ TxInv'
  BY <1>1, <1>3, <1>9, RingsStay
<1>11. vec'[t] = Append(s, m) /\ packets'[t] = packets[t] /\ request'[t] = request[t]
  BY <1>1 DEF Typed
<1>12. VecInv(t)'
  <2>1. Mine(t)' = Mine(t) \cup {m}
    BY <1>1, <1>9 DEF Mine, Moves
  <2>2. ToSet(vec'[t]) = ToSet(s) \cup {m} /\ IsInjective(vec'[t])
    BY <1>4, <1>5, <1>11
  <2>3. \A i \in DOMAIN vec'[t] : vec'[t][i] \in Mine(t)'
    BY <1>5, <2>1, <2>2 DEF ToSet
  <2>4. \A i \in DOMAIN vec'[t] : owner'[vec'[t][i]] = t
    BY <2>3 DEF Mine
  <2>5. Mine(t)' # ToSet(vec'[t]) => t \in failed'
    BY <1>1, <1>3, <2>1, <2>2 DEF VecInv
  <2> QED BY <2>2, <2>4, <2>5 DEF VecInv
<1>13. pc'[t] \in {"alloc", "reject"} /\ vec'[t] # <<>> /\ request'[t].api \in {"tx_burst", "writev"}
  <2>1. pc'[t] \in {"alloc", "reject"}
    BY <1>1, <1>2 DEF Typed
  <2>2. vec'[t] # <<>>
    BY <1>4, <1>11, NothingFacts
  <2>3. request[t].api \in {"tx_burst", "writev"}
    BY <1>1 DEF DpdkInv, ThreadInv, PhaseInv
  <2> QED BY <1>11, <2>1, <2>2, <2>3
<1>14. PhaseInv(t)' /\ ReceiveInv(t)' /\ ReportInv(t)'
  BY <1>13 DEF PhaseInv, ReceiveInv, ReportInv
<1>15. SendInv(t)'
  <2> SUFFICES ASSUME pc'[t] = "alloc"
               PROVE  /\ Len(vec'[t]) <= Len(packets'[t])
                      /\ \A i \in DOMAIN vec'[t] : content'[vec'[t][i]] = packets'[t][i]
    BY DEF SendInv
  <2>1. content' = [content EXCEPT ![m] = p]
    BY <1>2 DEF Typed
  <2>2. Len(vec'[t]) <= Len(packets'[t])
    BY <1>1, <1>4, <1>11
  <2>3. ASSUME NEW i \in 1..(Len(s) + 1) PROVE content'[vec'[t][i]] = packets'[t][i]
    <3>1. CASE i = Len(s) + 1
      BY <1>4, <1>6, <1>11, <2>1, <3>1 DEF Typed
    <3>2. CASE i \in 1..Len(s)
      <4>1. s[i] \in ToSet(s) /\ s[i] \in Mbufs /\ s[i] # m
        BY <1>1, <1>5, <3>2 DEF ToSet
      <4>2. content'[s[i]] = content[s[i]]
        BY <2>1, <4>1 DEF Typed
      <4>3. content[s[i]] = packets[t][i]
        BY <1>1, <1>3, <3>2 DEF SendInv
      <4> QED BY <1>4, <1>11, <3>2, <4>2, <4>3
    <3> QED BY <1>1, <3>1, <3>2
  <2>4. DOMAIN vec'[t] = 1..(Len(s) + 1)
    BY <1>4, <1>11
  <2> QED BY <2>2, <2>3, <2>4
<1> QED BY <1>7, <1>8, <1>9, <1>10, <1>12, <1>14, <1>15, StepKeeps DEF ThreadInv

LEMMA ModBound ==
  ASSUME NEW a \in Nat, NEW b \in Nat \ {0}
  PROVE  (a % b) <= a /\ (a % b) \in Nat
OBVIOUS

LEMMA RingConcat ==
  ASSUME NEW S, NEW s \in Seq(S), NEW u \in Seq(S)
  PROVE  /\ Len(s) \in Nat /\ Len(s \o u) = Len(s) + Len(u)
         /\ DOMAIN s = 1..Len(s) /\ DOMAIN (s \o u) = 1..(Len(s) + Len(u))
         /\ \A i \in 1..Len(s) : (s \o u)[i] = s[i]
         /\ \A i \in 1..Len(u) : (s \o u)[Len(s) + i] = u[i]
<1>1. Len(s) \in Nat /\ Len(u) \in Nat /\ DOMAIN s = 1..Len(s)
  OBVIOUS
<1>2. /\ Len(s \o u) = Len(s) + Len(u) /\ DOMAIN (s \o u) = 1..(Len(s) + Len(u))
      /\ \A i \in 1..(Len(s) + Len(u)) :
           (s \o u)[i] = IF i <= Len(s) THEN s[i] ELSE u[i - Len(s)]
  BY ConcatProperties
<1>3. ASSUME NEW i \in 1..Len(s) PROVE (s \o u)[i] = s[i]
  BY <1>1, <1>2
<1>4. ASSUME NEW i \in 1..Len(u) PROVE (s \o u)[Len(s) + i] = u[i]
  <2> DEFINE n == Len(s)
  <2>1. n \in Nat /\ n + i \in 1..(n + Len(u)) /\ ~ (n + i <= n) /\ n + i - n = i
    <3>1. n \in Nat
      BY <1>1
    <3> HIDE DEF n
    <3> QED BY <1>1, <3>1
  <2> QED BY <1>2, <2>1
<1> QED BY <1>1, <1>2, <1>3, <1>4

(* The port takes the first k mbufs, in which are the first k packets.     *)
LEMMA BurstKeeps ==
  ASSUME Typed, DpdkInv, NEW t \in Threads, NEW k \in 0..MaxBatch, Burst(t, k)
  PROVE  Typed' /\ DpdkInv'
<1> DEFINE s == vec[t]
           ps == packets[t]
           sent == SubSeq(s, 1, k)
           rest == SubSeq(s, k + 1, Len(s))
           hand == [i \in DOMAIN sent |-> [mbuf |-> sent[i], packet |-> content[sent[i]]]]
           went == [i \in DOMAIN sent |-> content[sent[i]]]
<1>1. /\ s \in Seq(Mbufs) /\ ps \in Seq(Content) /\ Len(s) \in Nat /\ Len(s) = Len(ps)
      /\ pc[t] = "alloc" /\ k \in Nat
      /\ k <= Len(s) % BurstWidth
  BY SizesAssumption DEF Burst, Typed
<1>2. /\ owner' = [m \in Mbufs |-> IF m \in ToSet(sent) THEN "tx" ELSE owner[m]]
      /\ txRing' = txRing \o hand
      /\ vec' = [vec EXCEPT ![t] = rest]
      /\ result' = [result EXCEPT
           ![t] = [kind |-> "ok", count |-> Count(t, SubSeq(ps, 1, k))]]
      /\ pc' = [pc EXCEPT ![t] = IF rest = <<>> THEN "returned" ELSE "unsent"]
      /\ moved' = [moved EXCEPT ![t] = went]
      /\ UNCHANGED <<runtime, eal, content, rxRing, arrived, calls, request, packets, failed>>
  BY DEF Burst
<1>3. k \in 0..Len(s)
  <2>1. BurstWidth \in Nat \ {0}
    BY SizesAssumption
  <2> DEFINE n == Len(s)
             r == n % BurstWidth
  <2>2. n \in Nat /\ k \in Nat /\ k <= r
    BY <1>1
  <2>3. r <= n /\ r \in Nat
    <3> HIDE DEF n
    <3> QED BY ONLY <2>1, <2>2, ModBound
  <2>4. k \in 0..n
    <3> HIDE DEF n, r
    <3> QED BY ONLY <2>2, <2>3
  <2> QED BY <2>4
<1>4. /\ VecInv(t) /\ SendInv(t) /\ RxInv /\ TxInv /\ t # "pool" /\ t # "tx" /\ t # "rx"
      /\ request[t].api \in {"tx_burst", "writev"}
  BY <1>1, ThreadsAreNoRings DEF DpdkInv, ThreadInv, PhaseInv
<1>5. /\ sent \in Seq(Mbufs) /\ Len(sent) = k /\ \A i \in 1..k : sent[i] = s[i]
      /\ rest \in Seq(Mbufs) /\ IsInjective(sent) /\ IsInjective(rest)
      /\ ToSet(sent) \subseteq ToSet(s) /\ ToSet(rest) = ToSet(s) \ ToSet(sent)
  BY <1>1, <1>3, <1>4, SplitFacts DEF VecInv
<1>6. DOMAIN sent = 1..k /\ \A i \in 1..k : sent[i] \in Mbufs /\ i \in 1..Len(s)
  BY <1>1, <1>3, <1>5
<1>7. /\ hand \in Seq(Handed) /\ Len(hand) = k
      /\ \A i \in 1..k : hand[i].mbuf = sent[i] /\ hand[i].packet = content[sent[i]]
  <2>1. \A i \in 1..k : [mbuf |-> sent[i], packet |-> content[sent[i]]] \in Handed
    BY <1>6 DEF Typed, Handed
  <2> QED BY <1>1, <1>6, <2>1
<1>8. /\ went \in Seq(Content) /\ Len(went) = k
      /\ \A i \in 1..k : went[i] = ps[i]
  <2>1. \A i \in 1..k : content[sent[i]] \in Content
    BY <1>6 DEF Typed
  <2>2. \A i \in 1..k : content[sent[i]] = ps[i]
    BY <1>1, <1>4, <1>5, <1>6 DEF SendInv
  <2> QED BY <1>1, <1>6, <2>1, <2>2
<1> HIDE DEF sent, rest, hand, went
<1>9. Moves(ToSet(sent), t, "tx")
  <2>1. \A m \in ToSet(s) : owner[m] = t
    BY <1>4 DEF VecInv, ToSet
  <2>2. \A m \in ToSet(sent) : owner[m] = t
    BY <1>5, <2>1
  <2> QED BY <1>2, <2>2 DEF Moves
<1>10. Typed'
  <2>1. owner' \in [Mbufs -> Owner]
    BY <1>2 DEF Typed, Owner
  <2>2. txRing' \in Seq(Handed)
    BY <1>2, <1>7 DEF Typed
  <2>3. vec' \in [Threads -> Seq(Mbufs)] /\ moved' \in [Threads -> Seq(Content)]
    BY <1>2, <1>5, <1>8 DEF Typed
  <2>4. pc' \in [Threads ->
                {"idle", "alloc", "reject", "unsent", "receive", "copy", "returned"}]
    BY <1>2 DEF Typed
  <2>5. result' = [u \in Threads |-> result'[u]]
    BY <1>2 DEF Typed
  <2> QED BY <1>2, <2>1, <2>2, <2>3, <2>4, <2>5 DEF Typed
<1>11. Others(t)
  BY <1>2 DEF Typed, Others, SameCall
<1>12. RxInv'
  BY <1>2, <1>4, <1>9, RingsStay
<1>13. TxInv'
  <2> DEFINE n == Len(txRing)
  <2>1. /\ n \in Nat /\ Len(txRing') = n + k /\ DOMAIN txRing = 1..n /\ DOMAIN txRing' = 1..(n + k)
        /\ \A i \in 1..n : txRing'[i] = txRing[i]
        /\ \A i \in 1..k : txRing'[n + i] = hand[i]
    <3>1. txRing \in Seq(Handed) /\ hand \in Seq(Handed) /\ Len(hand) = k /\ txRing' = txRing \o hand
      BY <1>2, <1>7 DEF Typed
    <3>2. /\ Len(txRing) \in Nat /\ Len(txRing \o hand) = Len(txRing) + Len(hand)
          /\ DOMAIN txRing = 1..Len(txRing)
          /\ DOMAIN (txRing \o hand) = 1..(Len(txRing) + Len(hand))
          /\ \A i \in 1..Len(txRing) : (txRing \o hand)[i] = txRing[i]
          /\ \A i \in 1..Len(hand) : (txRing \o hand)[Len(txRing) + i] = hand[i]
      BY <3>1, RingConcat
    <3> QED BY ONLY <3>1, <3>2
  <2>2. \A i \in 1..n : txRing[i] \in Handed
    BY DEF Typed
  <2> HIDE DEF n
  <2>3. ASSUME NEW i \in 1..(n + k)
        PROVE  \/ i \in 1..n
               \/ i - n \in 1..k /\ i = n + (i - n)
    BY <1>1, <2>1
  <2>4. ASSUME NEW i \in 1..n
        PROVE  /\ txRing'[i].mbuf = txRing[i].mbuf /\ owner[txRing[i].mbuf] = "tx"
               /\ owner'[txRing'[i].mbuf] = "tx"
               /\ content'[txRing'[i].mbuf] = txRing'[i].packet
    <3>1. txRing[i].mbuf \in Mbufs /\ i \in DOMAIN txRing
      BY <2>1, <2>2 DEF Handed
    <3>2. txRing'[i] = txRing[i]
      BY <2>1
    <3>3. owner[txRing[i].mbuf] = "tx" /\ content[txRing[i].mbuf] = txRing[i].packet
      BY <1>4, <3>1 DEF TxInv
    <3>4. owner'[txRing[i].mbuf] = "tx"
      BY <1>2, <3>1, <3>3
    <3> QED BY <1>2, <3>2, <3>3, <3>4
  <2>5. ASSUME NEW i \in 1..k
        PROVE  /\ txRing'[n + i].mbuf = sent[i] /\ owner[sent[i]] = t
               /\ owner'[txRing'[n + i].mbuf] = "tx"
               /\ content'[txRing'[n + i].mbuf] = txRing'[n + i].packet
    <3>1. sent[i] \in ToSet(sent)
      BY <1>6 DEF ToSet
    <3> QED BY <1>2, <1>6, <1>7, <1>9, <2>1, <3>1 DEF Moves
  <2>6. ASSUME NEW i \in 1..(n + k)
        PROVE  owner'[txRing'[i].mbuf] = "tx" /\ content'[txRing'[i].mbuf] = txRing'[i].packet
    BY <2>3, <2>4, <2>5
  <2>7. ASSUME NEW i \in 1..(n + k), NEW j \in 1..(n + k), txRing'[i].mbuf = txRing'[j].mbuf
        PROVE  i = j
    <3>1. CASE i \in 1..n /\ j \in 1..n
      BY <1>4, <2>1, <2>4, <2>7, <3>1 DEF TxInv
    <3>2. CASE i - n \in 1..k /\ j - n \in 1..k
      <4>1. sent[i - n] = sent[j - n]
        <5>1. n + (i - n) = i /\ n + (j - n) = j
          BY <2>1
        <5>2. txRing'[n + (i - n)].mbuf = sent[i - n] /\ txRing'[n + (j - n)].mbuf = sent[j - n]
          BY <2>5, <3>2
        <5> QED BY <2>7, <5>1, <5>2
      <4>2. i - n = j - n
        BY <1>5, <1>6, <3>2, <4>1 DEF IsInjective
      <4> QED BY <2>1, <4>2
    <3>3. CASE i \in 1..n /\ j - n \in 1..k
      <4>1. owner[txRing'[i].mbuf] = "tx" /\ owner[txRing'[n + (j - n)].mbuf] = t
        BY <2>4, <2>5, <3>3
      <4>2. n + (j - n) = j
        BY <2>1
      <4> QED BY <1>4, <2>7, <4>1, <4>2
    <3>4. CASE j \in 1..n /\ i - n \in 1..k
      <4>1. owner[txRing'[j].mbuf] = "tx" /\ owner[txRing'[n + (i - n)].mbuf] = t
        BY <2>4, <2>5, <3>4
      <4>2. n + (i - n) = i
        BY <2>1
      <4> QED BY <1>4, <2>7, <4>1, <4>2
    <3> QED BY <2>3, <3>1, <3>2, <3>3, <3>4
  <2> QED BY <2>1, <2>6, <2>7 DEF TxInv
<1>14. /\ vec'[t] = rest /\ packets'[t] = ps /\ request'[t] = request[t] /\ moved'[t] = went
       /\ pc'[t] = (IF rest = <<>> THEN "returned" ELSE "unsent")
       /\ result'[t] = [kind |-> "ok", count |-> Count(t, SubSeq(ps, 1, k))]
  BY <1>2 DEF Typed
<1>15. VecInv(t)'
  <2>1. "tx" # t /\ IsInjective(vec'[t]) /\ ToSet(vec'[t]) = ToSet(s) \ ToSet(sent)
    BY <1>4, <1>5, <1>14
  <2> QED BY <1>2, <1>4, <1>9, <2>1, VecLoses
<1>16. PhaseInv(t)' /\ SendInv(t)' /\ ReceiveInv(t)'
  BY <1>4, <1>14 DEF PhaseInv, SendInv, ReceiveInv
<1>17. Reported(t)'
  <2>1. SubSeq(ps, 1, k) = went
    <3> DEFINE first == SubSeq(ps, 1, k)
    <3>1. first \in Seq(Content) /\ Len(first) = k /\ \A i \in 1..k : first[i] = ps[i]
      BY <1>1, <1>3
    <3> HIDE DEF first
    <3>2. first = went
      BY <1>8, <3>1, SeqEqual
    <3> QED BY <3>2 DEF first
  <2>2. IsPrefix(went, ps)
    <3>1. SubSeq(went, 1, Len(went)) = went
      BY <1>8, SubSeqFull
    <3> QED BY <1>1, <1>3, <1>8, <2>1, <3>1 DEF IsPrefix
  <2>3. result'[t].count = IF request[t].api \in {"tx_burst", "rx_burst"}
                             THEN Len(went) ELSE Bytes(went)
    <3> DEFINE c == Count(t, went)
    <3>1. result'[t] = [kind |-> "ok", count |-> c]
      BY <1>14, <2>1
    <3> HIDE DEF c
    <3>2. result'[t].count = c
      BY <3>1
    <3> QED BY <3>2 DEF c, Count
  <2> QED BY <1>4, <1>14, <2>2, <2>3 DEF Reported
<1> QED BY <1>9, <1>10, <1>11, <1>12, <1>13, <1>15, <1>16, <1>17, StepKeeps
        DEF ThreadInv, ReportInv

-----------------------------------------------------------------------------
(* Receiving. *)

LEMMA PrefixOfItself == ASSUME NEW S, NEW s \in Seq(S) PROVE IsPrefix(s, s)
BY DEF IsPrefix

(* A call that ends in success reports its count of what it received.      *)
LEMMA AllReported ==
  ASSUME NEW t \in Threads, NEW all \in Seq(Content), moved'[t] = all, packets'[t] = all,
         request'[t] = request[t], result'[t] = [kind |-> "ok", count |-> Count(t, all)]
  PROVE  Reported(t)'
<1> DEFINE c == Count(t, all)
<1>1. result'[t] = [kind |-> "ok", count |-> c]
  OBVIOUS
<1> HIDE DEF c
<1>2. result'[t].count = c
  BY <1>1
<1>3. result'[t].count = IF request'[t].api \in {"tx_burst", "rx_burst"}
                           THEN Len(moved'[t]) ELSE Bytes(moved'[t])
  BY <1>2 DEF c, Count
<1>4. IsPrefix(moved'[t], packets'[t])
  BY PrefixOfItself
<1> QED BY <1>3, <1>4 DEF Reported

(* The port hands over the first k packets of its ring.                    *)
LEMMA ReceiveKeeps ==
  ASSUME Typed, DpdkInv, NEW t \in Threads, NEW k \in 0..MaxBatch, Receive(t, k)
  PROVE  Typed' /\ DpdkInv'
<1> DEFINE s == rxRing
           ps == packets[t]
           taken == SubSeq(s, 1, k)
           rest == SubSeq(s, k + 1, Len(s))
           got == [i \in DOMAIN taken |-> content[taken[i]]]
           all == moved[t] \o got
<1>1. /\ s \in Seq(Mbufs) /\ ps \in Seq(Content) /\ Len(s) \in Nat /\ Len(ps) \in Nat
      /\ moved[t] \in Seq(Content) /\ pc[t] = "receive" /\ k \in Nat /\ k \in 0..Len(s)
      /\ k <= Asked(t)
  <2>1. /\ s \in Seq(Mbufs) /\ ps \in Seq(Content) /\ Len(s) \in Nat /\ Len(ps) \in Nat
        /\ moved[t] \in Seq(Content)
    BY DEF Typed
  <2>2. pc[t] = "receive" /\ k <= Asked(t) /\ k <= Len(s)
    BY DEF Receive
  <2>3. k \in Nat
    BY SizesAssumption
  <2>4. k \in 0..Len(s)
    <3> DEFINE n == Len(s)
    <3>1. n \in Nat /\ k <= n
      BY <2>1, <2>2
    <3> HIDE DEF n
    <3>2. k \in 0..n
      BY ONLY <2>3, <3>1
    <3> QED BY <3>2 DEF n
  <2> QED BY <2>1, <2>2, <2>3, <2>4
<1>2. /\ rxRing' = rest
      /\ owner' = [m \in Mbufs |-> IF m \in ToSet(taken) THEN t ELSE owner[m]]
      /\ vec' = [vec EXCEPT ![t] = taken]
      /\ moved' = [moved EXCEPT ![t] = all]
      /\ UNCHANGED <<runtime, eal, content, txRing, arrived, calls, request, packets, failed>>
  BY DEF Receive
<1>3. \/ k = 0 /\ Done(t, "ok", Count(t, ps))
      \/ k # 0 /\ pc' = [pc EXCEPT ![t] = "copy"] /\ result' = result
  BY DEF Receive
<1>4. /\ VecInv(t) /\ ReceiveInv(t) /\ RxInv /\ TxInv /\ t # "pool" /\ t # "tx" /\ t # "rx"
      /\ request[t].api \in {"rx_burst", "readv"} /\ vec[t] = <<>>
  BY <1>1, ThreadsAreNoRings DEF DpdkInv, ThreadInv, PhaseInv
<1>5. /\ taken \in Seq(Mbufs) /\ Len(taken) = k /\ \A i \in 1..k : taken[i] = s[i]
      /\ rest \in Seq(Mbufs) /\ IsInjective(taken) /\ IsInjective(rest)
      /\ ToSet(taken) \subseteq ToSet(s) /\ ToSet(rest) = ToSet(s) \ ToSet(taken)
  BY <1>1, <1>4, SplitFacts DEF RxInv
<1>6. DOMAIN taken = 1..k /\ \A i \in 1..k : taken[i] \in Mbufs /\ i \in 1..Len(s)
  BY <1>1, <1>5
<1>7. /\ got \in Seq(Content) /\ Len(got) = k
      /\ \A i \in 1..k : got[i] = content[taken[i]]
  <2>1. \A i \in 1..k : content[taken[i]] \in Content
    BY <1>6 DEF Typed
  <2> QED BY <1>1, <1>6, <2>1
<1> HIDE DEF taken, rest, got
<1>8. /\ Len(moved[t]) = Len(ps) /\ \A i \in 1..Len(ps) : moved[t][i] = ps[i]
      /\ all \in Seq(Content) /\ Len(all) = Len(ps) + k
      /\ \A i \in 1..Len(ps) : all[i] = ps[i]
      /\ \A i \in 1..k : all[Len(ps) + i] = content[taken[i]]
  <2>1. Len(moved[t]) = Len(ps) /\ \A i \in 1..Len(ps) : moved[t][i] = ps[i]
    <3>1. Len(vec[t]) = 0
      BY <1>4
    <3>2. Len(moved[t]) = Len(ps) + Len(vec[t]) /\ \A i \in DOMAIN ps : moved[t][i] = ps[i]
      BY <1>1, <1>4 DEF ReceiveInv
    <3> QED BY <1>1, <3>1, <3>2
  <2>2. /\ Len(all) = Len(moved[t]) + Len(got)
        /\ \A i \in 1..Len(moved[t]) : all[i] = moved[t][i]
        /\ \A i \in 1..Len(got) : all[Len(moved[t]) + i] = got[i]
    <3>1. /\ Len(moved[t] \o got) = Len(moved[t]) + Len(got)
          /\ \A i \in 1..Len(moved[t]) : (moved[t] \o got)[i] = moved[t][i]
          /\ \A i \in 1..Len(got) : (moved[t] \o got)[Len(moved[t]) + i] = got[i]
      <4>1. moved[t] \in Seq(Content) /\ got \in Seq(Content)
        BY <1>1, <1>7
      <4> QED BY <4>1, RingConcat
    <3> HIDE DEF all
    <3> QED BY Zenon, <3>1 DEF all
  <2>3. all \in Seq(Content)
    BY <1>1, <1>7
  <2> QED BY <1>7, <2>1, <2>2, <2>3
<1> HIDE DEF all
<1>9. \A m \in ToSet(s) : owner[m] = "rx" /\ FromWire(content[m])
  BY <1>4 DEF RxInv, ToSet
<1>10. Moves(ToSet(taken), "rx", t)
  <2>1. \A m \in ToSet(taken) : owner[m] = "rx"
    BY <1>5, <1>9
  <2> QED BY <1>2, <2>1 DEF Moves
<1>11. /\ \A u \in Threads \ {t} : pc'[u] = pc[u] /\ result'[u] = result[u]
       /\ result' = [u \in Threads |-> result'[u]]
       /\ pc' \in [Threads ->
                   {"idle", "alloc", "reject", "unsent", "receive", "copy", "returned"}]
  <2>1. CASE Done(t, "ok", Count(t, ps))
    BY <2>1, DoneFacts
  <2>2. CASE pc' = [pc EXCEPT ![t] = "copy"] /\ result' = result
    BY <2>2 DEF Typed
  <2> QED BY <1>3, <2>1, <2>2
<1>12. Typed'
  <2>1. owner' \in [Mbufs -> Owner]
    BY <1>2 DEF Typed, Owner
  <2>2. vec' \in [Threads -> Seq(Mbufs)] /\ moved' \in [Threads -> Seq(Content)]
    BY <1>2, <1>5, <1>8 DEF Typed
  <2> QED BY <1>2, <1>5, <1>11, <2>1, <2>2 DEF Typed
<1>13. Others(t)
  BY <1>2, <1>11 DEF Typed, Others, SameCall
<1>14. TxInv'
  BY <1>2, <1>4, <1>10, RingsStay
<1>15. RxInv'
  <2>1. ASSUME NEW i \in DOMAIN rest
        PROVE  owner'[rest[i]] = "rx" /\ FromWire(content'[rest[i]])
    <3>1. rest[i] \in ToSet(s) /\ rest[i] \notin ToSet(taken) /\ rest[i] \in Mbufs
      <4>1. rest[i] \in ToSet(rest)
        BY DEF ToSet
      <4>2. rest[i] \in Mbufs
        BY <1>5
      <4> QED BY <1>5, <4>1, <4>2
    <3> QED BY <1>2, <1>9, <3>1
  <2> QED BY <1>2, <1>5, <2>1 DEF RxInv, FromWire
<1>16. vec'[t] = taken /\ packets'[t] = ps /\ request'[t] = request[t] /\ moved'[t] = all
  BY <1>2 DEF Typed
<1>17. VecInv(t)'
  <2>1. Mine(t)' = Mine(t) \cup ToSet(taken)
    BY <1>2, <1>5, <1>6 DEF Mine, ToSet
  <2>2. ToSet(vec[t]) = {}
    BY <1>4, NothingFacts
  <2>3. Mine(t)' # ToSet(vec'[t]) => t \in failed'
    BY <1>2, <1>4, <1>16, <2>1, <2>2 DEF VecInv
  <2>4. \A i \in DOMAIN taken : owner'[taken[i]] = t
    BY <1>2, <1>6 DEF ToSet
  <2> QED BY <1>5, <1>16, <2>3, <2>4 DEF VecInv
<1>18. CASE k = 0
  <2>1. pc'[t] = "returned" /\ result'[t] = [kind |-> "ok", count |-> Count(t, ps)]
    BY <1>3, <1>18, DoneFacts
  <2>2. vec'[t] = <<>>
    BY <1>5, <1>16, <1>18
  <2>3. all = ps
    BY <1>1, <1>8, <1>18, SeqEqual
  <2>4. Reported(t)'
    BY <1>1, <1>16, <2>1, <2>3, AllReported
  <2>5. PhaseInv(t)' /\ SendInv(t)'
    BY <2>1, <2>2 DEF PhaseInv, SendInv
  <2>6. ReceiveInv(t)'
    BY <1>4, <1>16, <2>1 DEF ReceiveInv, FromWire
  <2> QED BY <1>10, <1>12, <1>13, <1>14, <1>15, <1>17, <2>4, <2>5, <2>6, StepKeeps
          DEF ThreadInv, ReportInv
<1>19. CASE k # 0
  <2>1. pc'[t] = "copy"
    BY <1>3, <1>19 DEF Typed
  <2>2. vec'[t] # <<>>
    BY <1>5, <1>16, <1>19
  <2>3. request[t].api # "rx_burst" => Len(vec'[t]) = 1
    BY <1>1, <1>5, <1>16, <1>19 DEF Asked
  <2>4. PhaseInv(t)' /\ SendInv(t)' /\ ReportInv(t)'
    BY <1>4, <1>16, <2>1, <2>2, <2>3 DEF PhaseInv, SendInv, ReportInv
  <2>5. \A i \in DOMAIN taken : FromWire(content[taken[i]])
    BY <1>5, <1>9 DEF ToSet
  <2>6. ReceiveInv(t)'
    <3>1. /\ Len(moved'[t]) = Len(packets'[t]) + Len(vec'[t])
          /\ \A i \in DOMAIN packets'[t] : moved'[t][i] = packets'[t][i]
          /\ \A i \in DOMAIN vec'[t] : moved'[t][Len(packets'[t]) + i] = content'[vec'[t][i]]
      <4>1. Len(moved'[t]) = Len(packets'[t]) + Len(vec'[t])
        BY <1>5, <1>8, <1>16
      <4>2. DOMAIN ps = 1..Len(ps)
        BY <1>1
      <4>3. \A i \in DOMAIN packets'[t] : moved'[t][i] = packets'[t][i]
        BY <1>8, <1>16, <4>2
      <4>4. \A i \in DOMAIN vec'[t] : moved'[t][Len(packets'[t]) + i] = content'[vec'[t][i]]
        BY <1>2, <1>6, <1>8, <1>16
      <4> QED BY <4>1, <4>3, <4>4
    <3>2. \A i \in DOMAIN vec'[t] : content'[vec'[t][i]].no[2] \in Frames
      BY <1>2, <1>16, <2>5 DEF FromWire
    <3>3. request'[t].api = "rx_burst" => \A i \in DOMAIN packets'[t] : packets'[t][i].no[2] \in Frames
      BY <1>4, <1>16 DEF ReceiveInv, FromWire
    <3> QED BY <3>1, <3>2, <3>3 DEF ReceiveInv, FromWire
  <2> QED BY <1>10, <1>12, <1>13, <1>14, <1>15, <1>17, <2>4, <2>6, StepKeeps DEF ThreadInv
<1> QED BY <1>18, <1>19

(* The oldest mbuf of the vector is copied out and given back.             *)
LEMMA CopyAndFreeKeeps ==
  ASSUME Typed, DpdkInv, NEW t \in Threads, CopyAndFree(t)
  PROVE  Typed' /\ DpdkInv'
<1> DEFINE s == vec[t]
           ps == packets[t]
           p == content[Head(s)]
           got == Append(ps, p)
           burst == request[t].api = "rx_burst"
<1>1. /\ s \in Seq(Mbufs) /\ ps \in Seq(Content) /\ moved[t] \in Seq(Content) /\ pc[t] = "copy"
      /\ Free({Head(s)}) /\ vec' = [vec EXCEPT ![t] = Tail(s)]
      /\ UNCHANGED <<runtime, eal, rxRing, txRing, arrived, calls, request, moved, failed>>
  BY DEF Typed, CopyAndFree
<1>2. /\ VecInv(t) /\ ReceiveInv(t) /\ RxInv /\ TxInv /\ t # "pool" /\ t # "tx" /\ t # "rx"
      /\ request[t].api \in {"rx_burst", "readv"} /\ s # <<>>
      /\ ~ burst => Len(s) = 1
  BY <1>1, ThreadsAreNoRings DEF DpdkInv, ThreadInv, PhaseInv
<1>3. \/ Done(t, "error", 0) /\ packets' = packets /\ ~ burst
      \/ /\ packets' = [packets EXCEPT ![t] = got]
         /\ \/ burst /\ Len(s) > 1 /\ pc' = pc /\ result' = result
            \/ ~ burst /\ pc' = [pc EXCEPT ![t] = "receive"] /\ result' = result
            \/ ~ (burst /\ Len(s) > 1) /\ Done(t, "ok", Count(t, got))
  BY DEF CopyAndFree
<1>4. /\ Len(s) \in Nat \ {0} /\ Tail(s) \in Seq(Mbufs) /\ Len(Tail(s)) = Len(s) - 1
      /\ \A i \in 1..(Len(s) - 1) : Tail(s)[i] = s[i + 1] /\ i + 1 \in DOMAIN s
      /\ Head(s) = s[1] /\ 1 \in DOMAIN s /\ Head(s) \in ToSet(s)
      /\ IsInjective(Tail(s)) /\ ToSet(Tail(s)) = ToSet(s) \ {Head(s)}
  BY <1>1, <1>2, TailFacts DEF VecInv
<1>5. /\ Moves({Head(s)}, t, "pool")
      /\ owner' \in [Mbufs -> Owner] /\ content' \in [Mbufs -> Content]
  <2>1. \A m \in Mbufs : m \in {Head(s)} => owner[m] = t
    BY <1>2, <1>4 DEF VecInv
  <2> QED BY <1>1, <2>1, FreeFacts
<1>6. RxInv' /\ TxInv'
  BY <1>1, <1>2, <1>5, RingsStay
<1>7. p \in Content /\ FromWire(p) /\ \A i \in DOMAIN s : FromWire(content[s[i]])
  <2>1. Head(s) \in Mbufs
    BY <1>1, <1>4
  <2> QED BY <1>1, <1>2, <1>4, <2>1 DEF Typed, ReceiveInv
<1> HIDE DEF p
<1>8. /\ got \in Seq(Content) /\ Len(got) = Len(ps) + 1 /\ got[Len(ps) + 1] = p
      /\ \A i \in 1..Len(ps) : got[i] = ps[i]
      /\ Len(ps) \in Nat /\ DOMAIN ps = 1..Len(ps) /\ DOMAIN got = 1..(Len(ps) + 1)
  <2>1. /\ got \in Seq(Content) /\ Len(got) = Len(ps) + 1 /\ got[Len(ps) + 1] = p
        /\ \A i \in 1..Len(ps) : got[i] = ps[i]
    BY <1>1, <1>7, AppendFacts
  <2> QED BY <1>1, <2>1
<1> HIDE DEF got
<1>9. vec'[t] = Tail(s) /\ request'[t] = request[t] /\ moved'[t] = moved[t]
  BY <1>1 DEF Typed
<1>10. VecInv(t)'
  BY <1>1, <1>2, <1>4, <1>5, <1>9, VecLoses
<1>11. \A i \in 1..(Len(s) - 1) : content'[Tail(s)[i]] = content[s[i + 1]]
  <2> SUFFICES ASSUME NEW i \in 1..(Len(s) - 1)
               PROVE  content'[Tail(s)[i]] = content[s[i + 1]]
    OBVIOUS
  <2>1. Tail(s)[i] \in ToSet(Tail(s)) /\ Tail(s)[i] \in Mbufs
    <3>1. DOMAIN Tail(s) = 1..(Len(s) - 1)
      BY <1>4
    <3>2. Tail(s)[i] \in ToSet(Tail(s))
      BY <3>1 DEF ToSet
    <3>3. Tail(s)[i] \in Mbufs
      BY <1>4, <3>1
    <3> QED BY <3>2, <3>3
  <2>2. Tail(s)[i] \notin {Head(s)}
    BY <1>4, <2>1
  <2> QED BY <1>4, <1>5, <2>1, <2>2 DEF Moves
(* What was given is what was copied and what is left.                     *)
<1>12. /\ Len(moved[t]) = Len(got) + Len(Tail(s))
       /\ \A i \in 1..(Len(ps) + 1) : moved[t][i] = got[i]
       /\ \A i \in 1..(Len(s) - 1) : moved[t][Len(got) + i] = content'[Tail(s)[i]]
  <2> DEFINE n == Len(ps)
             l == Len(s)
             mv == moved[t]
  <2>1. /\ Len(mv) = n + l /\ \A i \in 1..n : mv[i] = ps[i]
        /\ \A i \in DOMAIN s : mv[n + i] = content[s[i]]
    BY <1>1, <1>2, <1>8 DEF ReceiveInv
  <2>2. n \in Nat /\ l \in Nat \ {0} /\ Len(got) = n + 1 /\ Len(Tail(s)) = l - 1
    BY <1>4, <1>8
  <2>3. mv[n + 1] = got[n + 1]
    BY <1>4, <1>8, <2>1 DEF p
  <2>4. \A i \in 1..n : mv[i] = got[i]
    BY <1>8, <2>1
  <2>5. ASSUME NEW i \in 1..(l - 1) PROVE mv[n + 1 + i] = content'[Tail(s)[i]]
    <3>1. i + 1 \in DOMAIN s /\ content'[Tail(s)[i]] = content[s[i + 1]]
      BY <1>4, <1>11
    <3>2. mv[n + (i + 1)] = content[s[i + 1]]
      BY <2>1, <3>1
    <3>3. n + (i + 1) = n + 1 + i
      <4> HIDE DEF n, l
      <4> QED BY <2>2
    <3> QED BY <3>1, <3>2, <3>3
  <2>6. Len(mv) = Len(got) + Len(Tail(s))
    <3> DEFINE a == Len(mv)
               b == Len(got)
               c == Len(Tail(s))
    <3>1. a = n + l /\ b = n + 1 /\ c = l - 1 /\ n \in Nat /\ l \in Nat
      BY <2>1, <2>2
    <3> HIDE DEF a, b, c, n, l
    <3>2. a = b + c
      BY ONLY <3>1
    <3> QED BY <3>2 DEF a, b, c
  <2>7. \A i \in 1..(n + 1) : mv[i] = got[i]
    <3> HIDE DEF n, l, mv
    <3>1. \A i \in 1..(n + 1) : i \in 1..n \/ i = n + 1
      BY <2>2
    <3> QED BY <2>3, <2>4, <3>1
  <2> QED BY <2>2, <2>5, <2>6, <2>7
<1>13. CASE Done(t, "error", 0) /\ packets' = packets /\ ~ burst
  <2>1. /\ pc'[t] = "returned" /\ result'[t].kind # "ok"
        /\ \A u \in Threads \ {t} : pc'[u] = pc[u] /\ result'[u] = result[u]
        /\ result' = [u \in Threads |-> result'[u]]
        /\ pc' \in [Threads ->
                    {"idle", "alloc", "reject", "unsent", "receive", "copy", "returned"}]
    <3>1. result'[t] = [kind |-> "error", count |-> 0]
      BY <1>13, DoneFacts
    <3>2. result'[t].kind # "ok"
      BY <3>1
    <3> QED BY <1>13, <3>2, DoneFacts
  <2>2. Typed'
    <3>1. vec' \in [Threads -> Seq(Mbufs)]
      BY <1>1, <1>4 DEF Typed
    <3> QED BY <1>1, <1>5, <1>13, <2>1, <3>1 DEF Typed
  <2>3. Others(t)
    BY <1>1, <1>13, <2>1 DEF Typed, Others, SameCall
  <2>4. vec'[t] = <<>>
    BY <1>1, <1>2, <1>9, <1>13, SingleFacts
  <2>5. PhaseInv(t)' /\ SendInv(t)' /\ ReportInv(t)' /\ ReceiveInv(t)'
    BY <1>9, <1>13, <2>1, <2>4 DEF PhaseInv, SendInv, ReportInv, ReceiveInv
  <2> QED BY <1>5, <1>6, <1>10, <2>2, <2>3, <2>5, StepKeeps DEF ThreadInv
<1>14. CASE packets' = [packets EXCEPT ![t] = got]
  <2>1. packets'[t] = got /\ packets' \in [Threads -> Seq(Content)]
    BY <1>8, <1>14 DEF Typed
  <2>2. ASSUME /\ pc' \in [Threads ->
                    {"idle", "alloc", "reject", "unsent", "receive", "copy", "returned"}]
               /\ result' = [u \in Threads |-> result'[u]]
               /\ \A u \in Threads \ {t} : pc'[u] = pc[u] /\ result'[u] = result[u]
        PROVE  Typed' /\ Others(t)
    <3>1. vec' \in [Threads -> Seq(Mbufs)]
      BY <1>1, <1>4 DEF Typed
    <3>2. Typed'
      BY <1>1, <1>5, <2>1, <2>2, <3>1 DEF Typed
    <3>3. Others(t)
      BY <1>1, <1>14, <2>2 DEF Typed, Others, SameCall
    <3> QED BY <3>2, <3>3
  <2>3. \A i \in 1..(Len(ps) + 1) : burst => FromWire(got[i])
    <3>1. \A i \in 1..Len(ps) : burst => FromWire(ps[i])
      BY <1>2, <1>8 DEF ReceiveInv
    <3>2. \A i \in 1..(Len(ps) + 1) : i \in 1..Len(ps) \/ i = Len(ps) + 1
      BY <1>8
    <3> QED BY <1>7, <1>8, <3>1, <3>2
  <2>4. ReceiveInv(t)'
    <3>1. /\ Len(moved'[t]) = Len(packets'[t]) + Len(vec'[t])
          /\ \A i \in DOMAIN packets'[t] : moved'[t][i] = packets'[t][i]
          /\ \A i \in DOMAIN vec'[t] : moved'[t][Len(packets'[t]) + i] = content'[vec'[t][i]]
      <4>1. DOMAIN Tail(s) = 1..(Len(s) - 1)
        BY <1>4
      <4> QED BY <1>8, <1>9, <1>12, <2>1, <4>1
    <3>2. \A i \in DOMAIN vec'[t] : content'[vec'[t][i]].no[2] \in Frames
      <4>1. DOMAIN Tail(s) = 1..(Len(s) - 1)
        BY <1>4
      <4>2. \A i \in 1..(Len(s) - 1) : FromWire(content'[Tail(s)[i]])
        BY <1>4, <1>7, <1>11
      <4> QED BY <1>9, <4>1, <4>2 DEF FromWire
    <3>3. request'[t].api = "rx_burst" => \A i \in DOMAIN packets'[t] : packets'[t][i].no[2] \in Frames
      BY <1>8, <1>9, <2>1, <2>3 DEF FromWire
    <3> QED BY <3>1, <3>2, <3>3 DEF ReceiveInv, FromWire
  <2>5. CASE burst /\ Len(s) > 1 /\ pc' = pc /\ result' = result
    <3>1. pc'[t] = "copy" /\ vec'[t] # <<>>
      <4>1. Len(s) # 1
        <5> DEFINE n == Len(s)
        <5>1. n > 1 /\ n \in Nat
          BY <1>4, <2>5
        <5> HIDE DEF n
        <5>2. n # 1
          BY ONLY <5>1
        <5> QED BY <5>2 DEF n
      <4> QED BY <1>1, <1>2, <1>9, <2>5, <4>1, SingleFacts
    <3>2. Typed' /\ Others(t)
      BY <2>2, <2>5 DEF Typed
    <3>3. PhaseInv(t)' /\ SendInv(t)' /\ ReportInv(t)'
      BY <1>2, <1>9, <2>5, <3>1 DEF PhaseInv, SendInv, ReportInv
    <3> QED BY <1>5, <1>6, <1>10, <2>4, <3>2, <3>3, StepKeeps DEF ThreadInv
  <2>6. CASE ~ burst /\ pc' = [pc EXCEPT ![t] = "receive"] /\ result' = result
    <3>1. pc'[t] = "receive" /\ vec'[t] = <<>>
      <4>1. pc'[t] = "receive"
        BY <2>6 DEF Typed
      <4> QED BY <1>1, <1>2, <1>9, <2>6, <4>1, SingleFacts
    <3>2. Typed' /\ Others(t)
      BY <2>2, <2>6 DEF Typed
    <3>3. PhaseInv(t)' /\ SendInv(t)' /\ ReportInv(t)'
      BY <1>2, <1>9, <3>1 DEF PhaseInv, SendInv, ReportInv
    <3> QED BY <1>5, <1>6, <1>10, <2>4, <3>2, <3>3, StepKeeps DEF ThreadInv
  <2>7. CASE ~ (burst /\ Len(s) > 1) /\ Done(t, "ok", Count(t, got))
    <3>1. /\ pc'[t] = "returned" /\ result'[t] = [kind |-> "ok", count |-> Count(t, got)]
          /\ \A u \in Threads \ {t} : pc'[u] = pc[u] /\ result'[u] = result[u]
          /\ result' = [u \in Threads |-> result'[u]]
          /\ pc' \in [Threads ->
                      {"idle", "alloc", "reject", "unsent", "receive", "copy", "returned"}]
      BY <2>7, DoneFacts
    <3>2. Typed' /\ Others(t)
      BY <2>2, <3>1
    <3>3. Len(s) = 1
      <4> DEFINE n == Len(s)
      <4>1. n \in Nat \ {0} /\ ~ (burst /\ n > 1) /\ (~ burst => n = 1)
        BY <1>2, <1>4, <2>7
      <4> HIDE DEF n, burst
      <4>2. n = 1
        BY ONLY <4>1
      <4> QED BY <4>2 DEF n
    <3>4. vec'[t] = <<>>
      BY <1>1, <1>2, <1>9, <3>3, SingleFacts
    <3>5. moved[t] = got
      <4>1. Len(moved[t]) = Len(got)
        <5> DEFINE a == Len(moved[t])
                   b == Len(got)
                   c == Len(Tail(s))
                   n == Len(s)
        <5>1. a = b + c /\ c = n - 1 /\ n = 1 /\ b \in Nat
          BY <1>4, <1>8, <1>12, <3>3
        <5> HIDE DEF a, b, c, n
        <5>2. a = b
          BY ONLY <5>1
        <5> QED BY <5>2 DEF a, b
      <4>2. Len(moved[t]) = Len(ps) + 1 /\ moved[t] \in Seq(Content) /\ got \in Seq(Content)
        BY <1>1, <1>8, <4>1
      <4>3. \A i \in 1..Len(moved[t]) : moved[t][i] = got[i]
        BY <1>12, <4>2
      <4> QED BY <4>1, <4>2, <4>3, SeqEqual
    <3>6. Reported(t)'
      BY <1>8, <1>9, <2>1, <3>1, <3>5, AllReported
    <3>7. PhaseInv(t)' /\ SendInv(t)'
      BY <3>1, <3>4 DEF PhaseInv, SendInv
    <3> QED BY <1>5, <1>6, <1>10, <2>4, <3>2, <3>6, <3>7, StepKeeps DEF ThreadInv, ReportInv
  <2> QED BY <1>2, <1>3, <2>5, <2>6, <2>7, <1>14, <1>13
<1> QED BY <1>3, <1>13, <1>14

-----------------------------------------------------------------------------
(* The port. *)

LEMMA PortStepKeeps ==
  ASSUME Typed, DpdkInv, \A u \in Threads : SameCall(u),
         NEW ms, NEW a \in {"pool", "rx", "tx"}, NEW b \in {"pool", "rx", "tx"},
         Moves(ms, a, b), RxInv', TxInv'
  PROVE  DpdkInv'
<1>1. ASSUME NEW u \in Threads PROVE ThreadInv(u)'
  <2>1. u # a /\ u # b
    BY ThreadsAreNoRings
  <2> QED BY <2>1, ThreadStays DEF DpdkInv
<1> QED BY <1>1 DEF DpdkInv

LEMMA ArriveKeeps ==
  ASSUME Typed, DpdkInv, NEW m \in Mbufs, NEW b \in Frames, Arrive(m, b)
  PROVE  Typed' /\ DpdkInv'
<1> DEFINE p == [from |-> "wire", no |-> <<arrived, b>>, len |-> b.len]
<1>1. /\ rxRing \in Seq(Mbufs) /\ owner[m] = "pool"
      /\ owner' = [owner EXCEPT ![m] = "rx"] /\ content' = [content EXCEPT ![m] = p]
      /\ rxRing' = Append(rxRing, m) /\ arrived' = arrived + 1
      /\ UNCHANGED <<runtime, eal, txRing, locals, moved, failed>>
      /\ RxInv /\ TxInv
  BY DEF Typed, Arrive, DpdkInv
<1>2. p \in Content /\ FromWire(p)
  <2>1. b.len \in Nat
    BY PacketsAssumption DEF Built
  <2>2. p \in Content
    BY <2>1 DEF Typed, Content
  <2>3. p.no = <<arrived, b>>
    OBVIOUS
  <2>4. p.no[2] = b
    BY <2>3
  <2> QED BY <2>2, <2>4 DEF FromWire
<1> HIDE DEF p
<1>3. Typed'
  <2>1. owner' \in [Mbufs -> Owner] /\ content' \in [Mbufs -> Content]
    BY <1>1, <1>2 DEF Typed, Owner
  <2>2. rxRing' \in Seq(Mbufs) /\ arrived' \in Nat
    BY <1>1 DEF Typed
  <2> QED BY <1>1, <2>1, <2>2 DEF Typed, locals
<1>4. Moves({m}, "pool", "rx")
  BY <1>1 DEF Typed, Moves
<1>5. TxInv'
  BY <1>1, <1>4, RingsStay
<1>6. RxInv'
  <2> DEFINE u == Append(rxRing, m)
  <2>1. /\ Len(u) = Len(rxRing) + 1 /\ ToSet(u) = ToSet(rxRing) \cup {m}
        /\ IsInjective(rxRing) /\ m \notin ToSet(rxRing) => IsInjective(u)
    BY <1>1, AppendFacts
  <2>2. \A x \in ToSet(rxRing) : x \in Mbufs /\ owner[x] = "rx" /\ FromWire(content[x])
    BY <1>1 DEF RxInv, ToSet
  <2>3. m \notin ToSet(rxRing)
    BY <1>1, <2>2
  <2>4. \A x \in ToSet(u) : owner'[x] = "rx" /\ content'[x].no[2] \in Frames
    <3>1. owner'[m] = "rx" /\ content'[m] = p
      BY <1>1 DEF Typed
    <3>2. \A x \in ToSet(rxRing) : owner'[x] = owner[x] /\ content'[x] = content[x]
      BY <1>4, <2>2, <2>3 DEF Moves
    <3> QED BY <1>2, <2>1, <2>2, <3>1, <3>2 DEF FromWire
  <2>5. \A i \in DOMAIN u : u[i] \in ToSet(u)
    BY DEF ToSet
  <2>6. rxRing' = u /\ IsInjective(u)
    BY <1>1, <2>1, <2>3 DEF RxInv
  <2> HIDE DEF u
  <2> QED BY <2>4, <2>5, <2>6 DEF RxInv, FromWire
<1>7. \A u \in Threads : SameCall(u)
  BY <1>1 DEF SameCall, locals
<1> QED BY <1>3, <1>4, <1>5, <1>6, <1>7, PortStepKeeps

LEMMA TransmittedKeeps ==
  ASSUME Typed, DpdkInv, Transmitted
  PROVE  Typed' /\ DpdkInv'
<1> DEFINE m == Head(txRing).mbuf
<1>1. /\ txRing \in Seq(Handed) /\ txRing # <<>> /\ Free({m}) /\ txRing' = Tail(txRing)
      /\ UNCHANGED <<runtime, eal, rxRing, arrived, locals, moved, failed>>
      /\ RxInv /\ TxInv
  BY DEF Typed, Transmitted, DpdkInv
<1>2. /\ Len(txRing) \in Nat \ {0} /\ 1 \in DOMAIN txRing /\ Head(txRing) = txRing[1]
      /\ Tail(txRing) \in Seq(Handed) /\ Len(Tail(txRing)) = Len(txRing) - 1
      /\ \A i \in 1..(Len(txRing) - 1) :
           Tail(txRing)[i] = txRing[i + 1] /\ i + 1 \in DOMAIN txRing
  BY <1>1, TailFacts
<1>3. \A i \in DOMAIN txRing : txRing[i].mbuf \in Mbufs
  <2>1. \A i \in DOMAIN txRing : txRing[i] \in Handed
    BY <1>1
  <2> QED BY <2>1 DEF Handed
<1>4. /\ Moves({m}, "tx", "pool")
      /\ owner' \in [Mbufs -> Owner] /\ content' \in [Mbufs -> Content]
  <2>1. \A x \in Mbufs : x \in {m} => owner[x] = "tx"
    BY <1>1, <1>2 DEF TxInv
  <2> QED BY <1>1, <2>1, FreeFacts
<1>5. Typed'
  BY <1>1, <1>2, <1>4 DEF Typed, locals
<1>6. RxInv'
  BY <1>1, <1>4, RingsStay
<1>7. TxInv'
  <2> DEFINE n == Len(txRing)
             u == Tail(txRing)
  <2>1. DOMAIN u = 1..(n - 1) /\ n \in Nat \ {0}
    BY <1>2
  <2>2. \A i \in 1..(n - 1) : u[i] = txRing[i + 1] /\ i + 1 \in DOMAIN txRing
    BY <1>2
  <2> HIDE DEF n, u
  <2>3. ASSUME NEW i \in 1..(n - 1), NEW j \in 1..(n - 1), u[i].mbuf = u[j].mbuf PROVE i = j
    <3>1. i + 1 = j + 1
      BY <1>1, <2>2, <2>3 DEF TxInv
    <3> QED BY <2>1, <3>1
  <2>4. ASSUME NEW i \in 1..(n - 1)
        PROVE  owner'[u[i].mbuf] = "tx" /\ content'[u[i].mbuf] = u[i].packet
    <3>1. u[i].mbuf \in Mbufs /\ owner[u[i].mbuf] = "tx" /\ content[u[i].mbuf] = u[i].packet
      BY <1>1, <1>3, <2>2 DEF TxInv
    <3>2. u[i].mbuf # m
      <4>1. i + 1 # 1
        BY <2>1
      <4> QED BY <1>1, <1>2, <2>2, <4>1 DEF TxInv
    <3> QED BY <1>4, <3>1, <3>2 DEF Moves
  <2>5. txRing' = u
    BY <1>1 DEF u
  <2> QED BY <2>1, <2>3, <2>4, <2>5 DEF TxInv
<1>8. \A u \in Threads : SameCall(u)
  BY <1>1 DEF SameCall, locals
<1> QED BY <1>4, <1>5, <1>6, <1>7, <1>8, PortStepKeeps

-----------------------------------------------------------------------------
(* Every step. *)

LEMMA NothingMovesKeeps ==
  ASSUME Typed, DpdkInv, UNCHANGED <<port, arrived, locals, moved, failed>>
  PROVE  Typed' /\ DpdkInv'
<1>1. Typed'
  BY DEF Typed, port, locals
<1>2. Moves({}, "pool", "pool")
  BY DEF Moves, port
<1>3. RxInv' /\ TxInv'
  BY <1>2, RingsStay DEF DpdkInv, port
<1>4. \A u \in Threads : SameCall(u)
  BY DEF SameCall, locals
<1> QED BY <1>1, <1>2, <1>3, <1>4, PortStepKeeps

LEMMA InitEstablishes == Init => Typed /\ DpdkInv
<1> SUFFICES ASSUME Init PROVE Typed /\ DpdkInv
  OBVIOUS
<1>1. NoRequest \in Call0 /\ NoPacket \in Content /\ "pool" \in Owner
  BY DEF NoRequest, Call0, Content, Owner
<1>2. Typed
  BY <1>1 DEF Init, Typed
<1>3. RxInv /\ TxInv
  BY NothingFacts DEF Init, RxInv, TxInv
<1>4. ASSUME NEW t \in Threads PROVE ThreadInv(t)
  <2>1. /\ pc[t] = "idle" /\ request[t] = NoRequest /\ packets[t] = <<>> /\ vec[t] = <<>>
        /\ moved[t] = <<>> /\ \A m \in Mbufs : owner[m] = "pool"
    BY DEF Init
  <2>2. Mine(t) = {}
    BY <2>1, ThreadsAreNoRings DEF Mine
  <2>3. VecInv(t)
    BY <2>1, <2>2, NothingFacts DEF VecInv
  <2>4. PhaseInv(t) /\ SendInv(t) /\ ReceiveInv(t) /\ ReportInv(t)
    BY <2>1 DEF PhaseInv, SendInv, ReceiveInv, ReportInv, NoRequest
  <2> QED BY <2>3, <2>4 DEF ThreadInv
<1> QED BY <1>2, <1>3, <1>4 DEF DpdkInv

LEMMA CallKeeps ==
  ASSUME Typed, DpdkInv, NEW t \in Threads, Call(t)
  PROVE  Typed' /\ DpdkInv'
<1>1. ASSUME NEW api \in Apis, NEW n \in 0..1, Refuse(t, api, n)
      PROVE  Typed' /\ DpdkInv'
  BY <1>1, RefuseKeeps
<1>2. ASSUME NEW lens \in Batches, BeginSend(t, "tx_burst", lens)
      PROVE  Typed' /\ DpdkInv'
  <2>1. PICK n \in 1..MaxBatch : lens \in [1..n -> Lengths]
    BY DEF Batches
  <2>2. Lengths \subseteq Nat /\ n \in Nat
    BY PacketsAssumption, SizesAssumption
  <2>3. lens = [i \in 1..n |-> lens[i]] /\ \A i \in 1..n : lens[i] \in Nat
    BY <2>1, <2>2
  <2>4. [i \in 1..n |-> lens[i]] \in Seq(Nat)
    BY <2>2, <2>3
  <2> QED BY <1>2, <2>3, <2>4, BeginSendKeeps
<1>3. ASSUME NEW n \in 1..MaxBatch, BeginSend(t, "writev", [i \in 1..n |-> BufLen])
      PROVE  Typed' /\ DpdkInv'
  <2>1. BufLen \in Nat /\ n \in Nat
    BY SizesAssumption
  <2>2. [i \in 1..n |-> BufLen] \in Seq(Nat)
    BY <2>1
  <2> QED BY <1>3, <2>2, BeginSendKeeps
<1>4. ASSUME NEW api \in {"rx_burst", "readv"}, NEW n \in 1..MaxBatch, BeginReceive(t, api, n)
      PROVE  Typed' /\ DpdkInv'
  BY <1>4, BeginReceiveKeeps
<1> QED BY <1>1, <1>2, <1>3, <1>4 DEF Call

LEMMA NextKeeps ==
  ASSUME Typed, DpdkInv, [Next]_vars
  PROVE  Typed' /\ DpdkInv'
<1>1. CASE Start
  BY <1>1, NothingMovesKeeps DEF Start
<1>2. CASE StartUnavailable
  BY <1>2, NothingMovesKeeps DEF StartUnavailable
<1>3. ASSUME NEW t \in Threads, Call(t) PROVE Typed' /\ DpdkInv'
  BY <1>3, CallKeeps
<1>4. ASSUME NEW t \in Threads, Step(t) PROVE Typed' /\ DpdkInv'
  BY <1>4, CollectKeeps, NoMbufForPacketKeeps, AllocMbufKeeps, RejectPacketKeeps, BurstKeeps,
     FreeUnsentKeeps, ReceiveKeeps, CopyAndFreeKeeps DEF Step
<1>5. ASSUME NEW m \in Mbufs, NEW b \in Frames, Arrive(m, b) PROVE Typed' /\ DpdkInv'
  BY <1>5, ArriveKeeps
<1>6. CASE Transmitted
  BY <1>6, TransmittedKeeps
<1>7. CASE UNCHANGED vars
  BY <1>7, NothingMovesKeeps DEF vars
<1> QED BY <1>1, <1>2, <1>3, <1>4, <1>5, <1>6, <1>7 DEF Next

(* The mbufs of the rings and vectors of tx_burst, rx_burst, read_packet   *)
(* and the port are those the ownership says, in every state.              *)
THEOREM PortInvariant == Spec => [](Typed /\ DpdkInv)
<1>1. Init => Typed /\ DpdkInv
  BY InitEstablishes
<1>2. (Typed /\ DpdkInv) /\ [Next]_vars => (Typed /\ DpdkInv)'
  BY NextKeeps
<1> QED BY <1>1, <1>2, PTL DEF Spec

-----------------------------------------------------------------------------
(* No mbuf is in two places: not in two vectors, not in a vector and a     *)
(* ring, and what waits to be sent is what was handed to tx_burst.         *)
THEOREM MbufsStayAccounted == Spec => []MbufsAccounted
<1>1. Typed /\ DpdkInv => MbufsAccounted
  <2> SUFFICES ASSUME Typed, DpdkInv PROVE MbufsAccounted
    OBVIOUS
  <2> DEFINE sent == [i \in DOMAIN txRing |-> txRing[i].mbuf]
  <2>1. Holds(rxRing, "rx")
    BY DEF Typed, DpdkInv, RxInv, Holds, ToSet
  <2>2. \A i \in DOMAIN txRing : txRing[i].mbuf \in Mbufs
    <3>1. \A i \in DOMAIN txRing : txRing[i] \in Handed
      BY DEF Typed
    <3> QED BY <3>1 DEF Handed
  <2>3. Holds(sent, "tx")
    <3>1. ToSet(sent) \subseteq {m \in Mbufs : owner[m] = "tx"}
      BY <2>2 DEF DpdkInv, TxInv, ToSet
    <3>2. IsInjective(sent)
      BY DEF DpdkInv, TxInv, IsInjective
    <3> QED BY <3>1, <3>2 DEF Holds
  <2>4. \A t \in Threads : Holds(vec[t], t)
    BY DEF Typed, DpdkInv, ThreadInv, VecInv, Holds, ToSet
  <2> QED BY <2>1, <2>3, <2>4 DEF MbufsAccounted, DpdkInv, TxInv
<1> QED BY <1>1, PortInvariant, PTL

(* tx_burst and rx_burst return every mbuf they do not hand over, except   *)
(* when a batch fails after its first packet.                              *)
THEOREM OnlyFailedBatchesLose == Spec => []OnlyFailedBatchesLeak
<1>1. DpdkInv => OnlyFailedBatchesLeak
  BY DEF DpdkInv, ThreadInv, VecInv, OnlyFailedBatchesLeak
<1> QED BY <1>1, PortInvariant, PTL

(* The numbers tx_burst, rx_burst, write and read return are those of the  *)
(* packets that went through the port.                                     *)
THEOREM CallsReportWhatMoved == Spec => []ReportsWhatMoved
<1>1. DpdkInv => ReportsWhatMoved
  BY DEF DpdkInv, ThreadInv, ReportInv, Reported, ReportsWhatMoved
<1> QED BY <1>1, PortInvariant, PTL

(* Packet::udp and Packet::udp_payload find in a frame, of any length and  *)
(* with any options, what its sender built.                                *)
LEMMA WireFacts ==
  ASSUME NEW b \in Built
  PROVE  LET f == Wire(b)
         IN  /\ HasUdp(f) <=> b.ip /\ b.udp /\ b.len >= UdpEnd(b)
             /\ HasPayload(f) <=> HasUdp(f)
             /\ HasPayload(f) => PayloadLen(f) = b.len - UdpEnd(b)
<1> DEFINE f == Wire(b)
           l == b.len
           o == b.options
<1>1. l \in Nat /\ o \in 0..10 /\ b.ip \in BOOLEAN /\ b.udp \in BOOLEAN
  BY DEF Built
<1>2. /\ f.len = l /\ f.etherType = (IF b.ip THEN "Ipv4" ELSE "Arp")
      /\ f.version = (IF b.ip THEN 4 ELSE 0) /\ f.ihl = (IF b.ip THEN 5 + o ELSE 0)
      /\ f.protocol = (IF b.udp THEN 17 ELSE 6)
  BY DEF Wire, IP_PROTO_UDP
<1> DEFINE e == 14 + (20 + 4 * o) + 8
<1>3. UdpEnd(b) = e
  BY DEF UdpEnd
<1> USE DEF HasUdp, HasPayload, HasIpv4, HasEthernet, ParsesIpv4, HeaderLen, UdpOffset,
            PayloadOffset, PayloadLen, ETHERNET_HEADER_LEN, IPV4_MIN_HEADER_LEN,
            UDP_HEADER_LEN, IP_PROTO_UDP
<1> HIDE DEF f, l, o
<1>4. CASE ~ b.ip
  <2>1. ~ HasIpv4(f)
    BY <1>2, <1>4
  <2>2. ~ HasUdp(f) /\ ~ HasPayload(f)
    BY <2>1
  <2> QED BY <1>4, <2>2 DEF f
<1>5. CASE ~ b.udp
  <2>1. f.protocol # 17
    BY <1>2, <1>5
  <2>2. ~ HasUdp(f) /\ ~ HasPayload(f)
    BY <2>1
  <2> QED BY <1>5, <2>2 DEF f
<1>6. CASE b.ip /\ b.udp
  <2>1. /\ f.len = l /\ f.etherType = "Ipv4" /\ f.version = 4 /\ f.ihl = 5 + o
        /\ f.protocol = 17
    BY <1>2, <1>6
  <2>2. HeaderLen(f) = 20 + 4 * o
    BY <1>1, <2>1
  <2>3. UdpOffset(f) + 8 = e /\ UdpOffset(f) = 14 + (20 + 4 * o)
    BY <1>1, <2>2
  <2>4. l >= e => HasIpv4(f)
    BY <1>1, <2>1, <2>2
  <2>5. HasUdp(f) <=> l >= e
    BY <2>1, <2>3, <2>4
  <2>6. HasPayload(f) <=> l >= e
    BY <2>1, <2>3, <2>4
  <2>7. PayloadLen(f) = l - e
    BY <2>1, <2>3
  <2> QED BY <1>3, <1>6, <2>5, <2>6, <2>7 DEF f, l
<1> QED BY <1>4, <1>5, <1>6, <1>1

THEOREM FramesParseAsBuilt == Spec => []ParsedAsBuilt
<1>1. DpdkInv => ParsedAsBuilt
  <2> SUFFICES ASSUME DpdkInv, NEW t \in Threads, request[t].api = "rx_burst",
                      NEW i \in DOMAIN packets[t]
               PROVE  LET b == packets[t][i].no[2]
                          f == Wire(b)
                      IN  /\ HasUdp(f) <=> b.ip /\ b.udp /\ b.len >= UdpEnd(b)
                          /\ HasPayload(f) <=> HasUdp(f)
                          /\ HasPayload(f) => PayloadLen(f) = b.len - UdpEnd(b)
    BY Zenon DEF ParsedAsBuilt
  <2>1. packets[t][i].no[2] \in Built
    BY PacketsAssumption DEF DpdkInv, ThreadInv, ReceiveInv, FromWire
  <2> QED BY <2>1, WireFacts
<1> QED BY <1>1, PortInvariant, PTL
=============================================================================
