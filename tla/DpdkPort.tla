------------------------------ MODULE DpdkPort ------------------------------
(***************************************************************************)
(* bypass-io/src/backend/dpdk.rs: threads that send and receive packets    *)
(* through one DPDK port, and who owns which mbuf of the one mempool while *)
(* they do.                                                                *)
(*                                                                         *)
(* The port is external: it takes an mbuf for every packet that arrives,   *)
(* takes as many mbufs of a burst as it likes, and gives an mbuf back once *)
(* its packet is on the wire.  A packet is known by who made it; its bytes *)
(* are only counted.                                                       *)
(***************************************************************************)
EXTENDS Naturals, Sequences, FiniteSets, SequencesExt, Functions, Packet

CONSTANTS
  Threads,
  Mbufs,       \* the mbufs of the mempool (DpdkConfig::mbufs)
  NoPacket,    \* what a free mbuf holds
  DataRoom,    \* bytes an mbuf has room for (DpdkConfig::data_room_size)
  BufLen,      \* length of a caller's buffer, a whole number of huge pages
  Queues,      \* queues of each direction
  Desc,        \* descriptors of a queue
  U16,         \* number of lengths of a packet a u16 can tell apart
  BurstWidth,  \* the same for the packets of a burst, scaled down
  Lengths,     \* lengths of the packets callers send
  Frames,      \* what may arrive
  MaxBatch,    \* bound: packets or buffers of one call
  MaxCalls,    \* bound: calls of one thread
  MaxArrivals  \* bound: packets that arrive

(* DpdkPortConfig::new and DpdkConfig::new                                 *)
PortConfigOk == Queues # 0 /\ Desc # 0
ConfigOk == PortConfigOk /\ Mbufs # {} /\ DataRoom # 0

ASSUME OwnersAssumption == Threads \cap {"pool", "rx", "tx"} = {} /\ IsFiniteSet(Mbufs)
ASSUME SizesAssumption ==
  /\ {DataRoom, BufLen, Queues, Desc, MaxBatch, MaxCalls, MaxArrivals} \subseteq Nat
  /\ {U16, BurstWidth} \subseteq Nat \ {0}
  /\ ConfigOk
ASSUME PacketsAssumption ==
  Lengths \subseteq Nat \ {0} /\ Frames \subseteq Built /\ \A b \in Frames : b.len <= DataRoom

VARIABLES
  runtime,  \* "none", "unavailable", or "native" once the port is started
  eal,      \* whether the process has set up EAL
  owner,    \* per mbuf: "pool", "rx" and "tx" (the port), or a thread
  content,  \* per mbuf: the packet in it
  rxRing,   \* mbufs of packets that arrived, oldest first
  txRing,   \* mbufs to be sent, and the packet each was handed over with
  arrived,  \* history: how many packets arrived
  pc,       \* per thread: "idle", "alloc", "reject", "unsent", "receive", "copy", "returned"
  calls,    \* per thread: its calls so far
  request,  \* per thread: the api it calls and how many buffers or packets it passes
  packets,  \* per thread: the packets to send, or those received so far
  vec,      \* per thread: the mbufs in the vector of its call
  result,   \* per thread: "none", "ok" or "error", and the number reported
  moved,    \* history, per thread: the packets of its call that the port took or gave
  failed    \* history: the threads a batch of which failed halfway

port == <<owner, content, rxRing, txRing>>
locals == <<pc, calls, request, packets, vec, result>>
vars == <<runtime, eal, port, arrived, locals, moved, failed>>

Apis == {"readv", "writev", "flush", "rx_burst", "tx_burst", "join_multicast"}
NoRequest == [api |-> "none", n |-> 0]
NoResult == [kind |-> "none", count |-> 0]

Init ==
  /\ runtime = "none" /\ eal = FALSE
  /\ owner = [m \in Mbufs |-> "pool"]
  /\ content = [m \in Mbufs |-> NoPacket]
  /\ rxRing = <<>> /\ txRing = <<>>
  /\ arrived = 0
  /\ pc = [t \in Threads |-> "idle"]
  /\ calls = [t \in Threads |-> 0]
  /\ request = [t \in Threads |-> NoRequest]
  /\ packets = [t \in Threads |-> <<>>]
  /\ vec = [t \in Threads |-> <<>>]
  /\ result = [t \in Threads |-> NoResult]
  /\ moved = [t \in Threads |-> <<>>]
  /\ failed = {}

-----------------------------------------------------------------------------
(* DpdkBackend *)

(* The native init sets up EAL, the mempool and the port in this order and *)
(* undoes nothing: EAL, which can be set up once in a process, outlives a  *)
(* failure of the two others.                                              *)
Start ==
  /\ runtime = "none" /\ ~ eal
  /\ eal' = TRUE
  /\ runtime' \in {"none", "native"}
  /\ UNCHANGED <<port, arrived, locals, moved, failed>>

(* The backend for builds and machines without DPDK.                       *)
StartUnavailable ==
  /\ runtime = "none"
  /\ runtime' = "unavailable"
  /\ UNCHANGED <<eal, port, arrived, locals, moved, failed>>

(* What the runtime itself answers at once: without DPDK an error to       *)
(* everything, with it an error to join_multicast only.                    *)
RuntimeAnswer(api) ==
  IF runtime = "unavailable" \/ api = "join_multicast" THEN "error" ELSE "goes on"

(* rx_burst, tx_burst and join_multicast, with check_rx_queue and          *)
(* check_tx_queue.                                                         *)
BurstAnswer(api, n, queue) ==
  IF queue >= Queues \/ (api = "tx_burst" /\ n = 0) THEN "error"
  ELSE IF api = "rx_burst" /\ n = 0 THEN "ok"
  ELSE RuntimeAnswer(api)

(* read, write, readv, writev and flush, with ensure_target.               *)
IoAnswer(api, n, target) ==
  IF target # "this port" THEN "error"
  ELSE IF n = 0 \/ api = "flush" THEN "ok"
  ELSE RuntimeAnswer(api)

Done(t, kind, count) ==
  /\ pc' = [pc EXCEPT ![t] = "returned"]
  /\ result' = [result EXCEPT ![t] = [kind |-> kind, count |-> count]]

(* The call of an api with a batch of packets, or of n buffers.            *)
Begins(t, api, n) ==
  /\ runtime # "none"
  /\ pc[t] = "idle" /\ calls[t] < MaxCalls
  /\ calls' = [calls EXCEPT ![t] = @ + 1]
  /\ request' = [request EXCEPT ![t] = [api |-> api, n |-> n]]
  /\ UNCHANGED <<runtime, eal, port, arrived, vec, moved, failed>>

(* The call ends where it begins.                                          *)
Refuse(t, api, n) ==
  /\ Begins(t, api, n)
  /\ \E answer \in {"ok", "error"} :
       /\ IF api \in {"readv", "writev", "flush"}
            THEN \E target \in {"this port", "another port"} : IoAnswer(api, n, target) = answer
            ELSE \E queue \in 0..Queues : BurstAnswer(api, n, queue) = answer
       /\ Done(t, answer, 0)
  /\ UNCHANGED packets

(* The caller has seen the result.                                         *)
Collect(t) ==
  /\ pc[t] = "returned"
  /\ pc' = [pc EXCEPT ![t] = "idle"]
  /\ request' = [request EXCEPT ![t] = NoRequest]
  /\ packets' = [packets EXCEPT ![t] = <<>>]
  /\ result' = [result EXCEPT ![t] = NoResult]
  /\ moved' = [moved EXCEPT ![t] = <<>>]
  /\ UNCHANGED <<runtime, eal, port, arrived, calls, vec, failed>>

-----------------------------------------------------------------------------
(* Sending: NativeDpdkRuntime::tx_burst and packet_to_mbuf *)

(* write and writev send each whole buffer as a packet.                    *)
BeginSend(t, api, lens) ==
  /\ runtime = "native" /\ lens # <<>>
  /\ Begins(t, api, Len(lens))
  /\ packets' = [packets EXCEPT ![t] =
       [i \in DOMAIN lens |-> [from |-> t, no |-> <<calls'[t], i>>, len |-> lens[i]]]]
  /\ pc' = [pc EXCEPT ![t] = "alloc"]
  /\ UNCHANGED result

Mine(t) == {m \in Mbufs : owner[m] = t}
NextPacket(t) == packets[t][Len(vec[t]) + 1]

(* The error leaves tx_burst at once; the vector of raw mbuf pointers is   *)
(* dropped with it, and with the vector what is said of the mbufs in it.   *)
FailBatch(t, held) ==
  /\ Done(t, "error", 0)
  /\ failed' = IF held = <<>> THEN failed ELSE failed \cup {t}
  /\ vec' = [vec EXCEPT ![t] = <<>>]
  /\ UNCHANGED <<runtime, eal, rxRing, txRing, arrived, calls, request, packets, moved>>

Free(ms) ==
  /\ owner' = [m \in Mbufs |-> IF m \in ms THEN "pool" ELSE owner[m]]
  /\ content' = [m \in Mbufs |-> IF m \in ms THEN NoPacket ELSE content[m]]

(* The packet is longer than a u16 can say, or there is no mbuf.           *)
NoMbufForPacket(t) ==
  /\ pc[t] = "alloc" /\ Len(vec[t]) < Len(packets[t])
  /\ NextPacket(t).len >= U16 \/ \A m \in Mbufs : owner[m] # "pool"
  /\ FailBatch(t, vec[t])
  /\ UNCHANGED <<owner, content>>

(* An mbuf is taken; the packet is copied into it if there is room.        *)
AllocMbuf(t, m) ==
  /\ pc[t] = "alloc" /\ Len(vec[t]) < Len(packets[t])
  /\ NextPacket(t).len < U16 /\ owner[m] = "pool"
  /\ owner' = [owner EXCEPT ![m] = t]
  /\ vec' = [vec EXCEPT ![t] = Append(@, m)]
  /\ IF NextPacket(t).len <= DataRoom
       THEN content' = [content EXCEPT ![m] = NextPacket(t)] /\ UNCHANGED pc
       ELSE pc' = [pc EXCEPT ![t] = "reject"] /\ UNCHANGED content
  /\ UNCHANGED <<runtime, eal, rxRing, txRing, arrived, calls, request, packets, result, moved, failed>>

(* Mutant: the mbuf without room is forgotten too.                         *)
RejectPacketKeeping(t) ==
  /\ pc[t] = "reject"
  /\ FailBatch(t, Front(vec[t]))
  /\ UNCHANGED <<owner, content>>

(* An mbuf without room is given back, and the batch fails.                *)
RejectPacket(t) ==
  /\ pc[t] = "reject"
  /\ Free({Last(vec[t])})
  /\ FailBatch(t, Front(vec[t]))

Bytes(ps) == FoldLeft(LAMBDA sum, p : sum + p.len, 0, ps)

(* Mutant: a batch is counted whole.                                       *)
CountAll(t, ps) == IF request[t].api \in {"tx_burst", "rx_burst"} THEN request[t].n ELSE Bytes(ps)

(* tx_burst and rx_burst count packets, write and read count bytes.        *)
Count(t, ps) == IF request[t].api \in {"tx_burst", "rx_burst"} THEN Len(ps) ELSE Bytes(ps)

(* Mutant: the mbufs the port took stay in the vector.                     *)
BurstKeepingSent(t, k) ==
  /\ pc[t] = "alloc" /\ Len(vec[t]) = Len(packets[t])
  /\ k <= Len(vec[t]) % BurstWidth /\ k <= Desc - Len(txRing)
  /\ LET sent == SubSeq(vec[t], 1, k)
     IN  /\ owner' = [m \in Mbufs |-> IF m \in ToSet(sent) THEN "tx" ELSE owner[m]]
         /\ txRing' = txRing \o [i \in DOMAIN sent |-> [mbuf |-> sent[i], packet |-> content[sent[i]]]]
         /\ result' = [result EXCEPT
              ![t] = [kind |-> "ok", count |-> Count(t, SubSeq(packets[t], 1, k))]]
         /\ pc' = [pc EXCEPT ![t] = "unsent"]
         /\ moved' = [moved EXCEPT ![t] = [i \in DOMAIN sent |-> content[sent[i]]]]
  /\ UNCHANGED <<runtime, eal, content, rxRing, arrived, calls, request, packets, vec, failed>>

(* The port takes the first k mbufs of the burst, whose length is a u16.   *)
Burst(t, k) ==
  /\ pc[t] = "alloc" /\ Len(vec[t]) = Len(packets[t])
  /\ k <= Len(vec[t]) % BurstWidth /\ k <= Desc - Len(txRing)
  /\ LET sent == SubSeq(vec[t], 1, k)
         rest == SubSeq(vec[t], k + 1, Len(vec[t]))
     IN  /\ owner' = [m \in Mbufs |-> IF m \in ToSet(sent) THEN "tx" ELSE owner[m]]
         /\ txRing' = txRing \o [i \in DOMAIN sent |-> [mbuf |-> sent[i], packet |-> content[sent[i]]]]
         /\ vec' = [vec EXCEPT ![t] = rest]
         /\ result' = [result EXCEPT
              ![t] = [kind |-> "ok", count |-> Count(t, SubSeq(packets[t], 1, k))]]
         /\ pc' = [pc EXCEPT ![t] = IF rest = <<>> THEN "returned" ELSE "unsent"]
         /\ moved' = [moved EXCEPT ![t] = [i \in DOMAIN sent |-> content[sent[i]]]]
  /\ UNCHANGED <<runtime, eal, content, rxRing, arrived, calls, request, packets, failed>>

(* The mbufs the port did not take are freed one by one.                   *)
FreeUnsent(t) ==
  /\ pc[t] = "unsent"
  /\ Free({Head(vec[t])})
  /\ vec' = [vec EXCEPT ![t] = Tail(@)]
  /\ pc' = [pc EXCEPT ![t] = IF Len(vec[t]) = 1 THEN "returned" ELSE "unsent"]
  /\ UNCHANGED <<runtime, eal, rxRing, txRing, arrived, calls, request, packets, result, moved, failed>>

-----------------------------------------------------------------------------
(* Receiving: NativeDpdkRuntime::rx_burst, read_packet and read_packets *)

BeginReceive(t, api, n) ==
  /\ runtime = "native" /\ n # 0
  /\ Begins(t, api, n)
  /\ pc' = [pc EXCEPT ![t] = "receive"]
  /\ UNCHANGED <<packets, result>>

(* rx_burst asks for all n packets at once, read_packets for one a time.   *)
Asked(t) == IF request[t].api = "rx_burst" THEN request[t].n ELSE 1

(* The port hands over the k oldest packets; with none the call is over.   *)
Receive(t, k) ==
  /\ pc[t] = "receive"
  /\ k <= Asked(t) /\ k <= Len(rxRing)
  /\ LET taken == SubSeq(rxRing, 1, k)
     IN  /\ rxRing' = SubSeq(rxRing, k + 1, Len(rxRing))
         /\ owner' = [m \in Mbufs |-> IF m \in ToSet(taken) THEN t ELSE owner[m]]
         /\ vec' = [vec EXCEPT ![t] = taken]
         /\ moved' = [moved EXCEPT ![t] = @ \o [i \in DOMAIN taken |-> content[taken[i]]]]
  /\ IF k = 0
       THEN Done(t, "ok", Count(t, packets[t]))
       ELSE pc' = [pc EXCEPT ![t] = "copy"] /\ UNCHANGED result
  /\ UNCHANGED <<runtime, eal, content, txRing, arrived, calls, request, packets, failed>>

(* The packet is copied out and its mbuf freed.  A packet too large for    *)
(* the buffer is lost, and so is the count of those before it.             *)
CopyAndFree(t) ==
  /\ pc[t] = "copy"
  /\ Free({Head(vec[t])})
  /\ vec' = [vec EXCEPT ![t] = Tail(@)]
  /\ LET p == content[Head(vec[t])]
         got == Append(packets[t], p)
         burst == request[t].api = "rx_burst"
     IN  IF ~ burst /\ p.len > BufLen
           THEN Done(t, "error", 0) /\ UNCHANGED packets
           ELSE /\ packets' = [packets EXCEPT ![t] = got]
                /\ CASE burst /\ Len(vec[t]) > 1 -> UNCHANGED <<pc, result>>
                     [] ~ burst /\ Len(got) < request[t].n ->
                          pc' = [pc EXCEPT ![t] = "receive"] /\ UNCHANGED result
                     [] OTHER -> Done(t, "ok", Count(t, got))
  /\ UNCHANGED <<runtime, eal, rxRing, txRing, arrived, calls, request, moved, failed>>

-----------------------------------------------------------------------------
(* External: the port *)

Arrive(m, b) ==
  /\ runtime = "native" /\ arrived < MaxArrivals
  /\ owner[m] = "pool" /\ Len(rxRing) < Desc
  /\ owner' = [owner EXCEPT ![m] = "rx"]
  /\ content' = [content EXCEPT ![m] = [from |-> "wire", no |-> <<arrived, b>>, len |-> b.len]]
  /\ rxRing' = Append(rxRing, m)
  /\ arrived' = arrived + 1
  /\ UNCHANGED <<runtime, eal, txRing, locals, moved, failed>>

(* The oldest packet is on the wire, and its mbuf is free.                 *)
Transmitted ==
  /\ txRing # <<>>
  /\ Free({Head(txRing).mbuf})
  /\ txRing' = Tail(txRing)
  /\ UNCHANGED <<runtime, eal, rxRing, arrived, locals, moved, failed>>

-----------------------------------------------------------------------------
Batches == UNION {[1..n -> Lengths] : n \in 1..MaxBatch}

Call(t) ==
  \/ \E api \in Apis, n \in 0..1 : Refuse(t, api, n)
  \/ \E lens \in Batches : BeginSend(t, "tx_burst", lens)
  \/ \E n \in 1..MaxBatch : BeginSend(t, "writev", [i \in 1..n |-> BufLen])
  \/ \E api \in {"rx_burst", "readv"}, n \in 1..MaxBatch : BeginReceive(t, api, n)

Step(t) ==
  \/ Collect(t)
  \/ NoMbufForPacket(t)
  \/ \E m \in Mbufs : AllocMbuf(t, m)
  \/ RejectPacket(t)
  \/ \E k \in 0..MaxBatch : Burst(t, k)
  \/ FreeUnsent(t)
  \/ \E k \in 0..MaxBatch : Receive(t, k)
  \/ CopyAndFree(t)

Next ==
  \/ Start
  \/ StartUnavailable
  \/ \E t \in Threads : Call(t) \/ Step(t)
  \/ \E m \in Mbufs, b \in Frames : Arrive(m, b)
  \/ Transmitted

Spec == Init /\ [][Next]_vars

-----------------------------------------------------------------------------
(* Properties *)

Holds(ms, who) ==
  /\ ToSet(ms) \subseteq {m \in Mbufs : owner[m] = who}
  /\ IsInjective(ms)

(* Every mbuf has one owner: the port owns what is in its rings, a thread  *)
(* what is in its vector, and a packet waiting to be sent is the one that  *)
(* was handed over: nobody wrote into its mbuf since.                      *)
MbufsAccounted ==
  /\ Holds(rxRing, "rx")
  /\ Holds([i \in DOMAIN txRing |-> txRing[i].mbuf], "tx")
  /\ \A i \in DOMAIN txRing : content[txRing[i].mbuf] = txRing[i].packet
  /\ \A t \in Threads : Holds(vec[t], t)

(* A call loses mbufs only when a batch fails after its first packet.      *)
OnlyFailedBatchesLeak ==
  \A t \in Threads : Mine(t) # ToSet(vec[t]) => t \in failed

(* What a call reports is what went through the port: the packets sent are *)
(* the first of the batch, those received are all that were taken.         *)
ReportsWhatMoved ==
  \A t \in Threads :
    pc[t] = "returned" /\ result[t].kind = "ok" =>
      /\ IsPrefix(moved[t], packets[t])
      /\ request[t].api \in {"rx_burst", "readv"} => moved[t] = packets[t]
      /\ result[t].count = IF request[t].api \in {"tx_burst", "rx_burst"}
                             THEN Len(moved[t]) ELSE Bytes(moved[t])

(* A received packet has a UDP header exactly when the sender built one    *)
(* and all of it arrived, and then the payload is the rest of the packet.  *)
ParsedAsBuilt ==
  \A t \in Threads : request[t].api = "rx_burst" =>
    \A i \in DOMAIN packets[t] :
      LET b == packets[t][i].no[2]
          f == Wire(b)
      IN  /\ HasUdp(f) <=> b.ip /\ b.udp /\ b.len >= UdpEnd(b)
          /\ HasPayload(f) <=> HasUdp(f)
          /\ HasPayload(f) => PayloadLen(f) = b.len - UdpEnd(b)

(* docs/native-runtime-adapters.md: the adapter allocates TX mbufs, copies *)
(* packet bytes into them, and frees unsent mbufs.                         *)
UnsentAreFreed == \A t \in Threads : pc[t] = "idle" => Mine(t) = {}
=============================================================================
