---------------------------- MODULE SpdkRuntime -----------------------------
(***************************************************************************)
(* The life of a native SPDK backend in a process that also has a buffer   *)
(* pool and a poll reactor: probe_and_init of bypass-io/src/backend/       *)
(* spdk.rs, requests that are checked and submitted, the reactor of        *)
(* reactor/poll.rs that shares the backend, and the end of the SPDK        *)
(* environment when the last of its owners lets it go.                     *)
(*                                                                         *)
(* What a command does once it is submitted is SpdkQueuePair's; here a     *)
(* request is answered in one step.  SPDK's environment comes up at most   *)
(* once in a process.                                                      *)
(***************************************************************************)
EXTENDS BufPool, NvmeRequest, FiniteSetsExt

CONSTANTS
  Namespaces,      \* what the controller reports, as [nsid, sector, capacity, maxIo]
  Requests,        \* what callers ask for, as [nvme, nsid, offset]
  MaxControllers   \* bound: controllers that are attached

ASSUME DeviceAssumption ==
  /\ Namespaces \in Seq(NamespaceType)
  /\ Requests \subseteq [nvme : BOOLEAN, nsid : 0..U32Max, offset : 0..U64Max]
  /\ MaxControllers \in Nat

VARIABLES
  probe,     \* the next call of probe_and_init, or "idle"
  backend,   \* "none", "unavailable" or "native"
  attached,  \* controllers attached and not detached
  owners,    \* who holds the backend: "app", "reactor"
  reactor,   \* its thread: "none", "starting", "polling", "returned", "joined"
  stop,      \* the reactor's flag
  last       \* history: the request of the last step and its answer, or NoAnswer

runtime == <<probe, backend, attached>>
reactorVars == <<reactor, stop>>
vars == <<poolVars, runtime, owners, reactorVars, last>>

NoAnswer == [kind |-> "none"]

Init ==
  /\ PoolInit
  /\ probe = "idle" /\ backend = "none" /\ attached = 0
  /\ owners = {}
  /\ reactor = "none" /\ stop = FALSE
  /\ last = NoAnswer

-----------------------------------------------------------------------------
(* probe_and_init: an error leaves behind what was done before it.         *)

InitEnv ==
  /\ backend = "none" /\ probe = "idle" /\ env = "never"
  /\ env' = "up" /\ dmaEnabled' = TRUE
  /\ probe' = "probe"
  /\ UNCHANGED <<stray, backend, attached, owners>>

Probe(n) ==
  /\ probe = "probe"
  /\ attached' = n
  /\ probe' \in IF n = 0 THEN {"failed"} ELSE {"namespaces", "failed"}
  /\ UNCHANGED <<spdkEnv, backend, owners>>

(* A namespace with a field that is 0 is never made.                       *)
NamespacesOk == \A i \in DOMAIN Namespaces : NamespaceOk(Namespaces[i])

FindNamespaces ==
  /\ probe = "namespaces"
  /\ probe' = IF Namespaces # <<>> /\ NamespacesOk THEN "queue pair" ELSE "failed"
  /\ UNCHANGED <<spdkEnv, backend, attached, owners>>

AllocQpair ==
  /\ probe = "queue pair"
  /\ \/ probe' = "failed" /\ UNCHANGED <<backend, owners>>
     \/ probe' = "done" /\ backend' = "native" /\ owners' = {"app"}
  /\ UNCHANGED <<spdkEnv, attached>>

(* SpdkBackend::unavailable                                                *)
StartUnavailable ==
  /\ backend = "none" /\ probe = "idle" /\ NamespacesOk
  /\ backend' = "unavailable" /\ owners' = {"app"}
  /\ UNCHANGED <<spdkEnv, probe, attached>>

StartBackend ==
  /\ InitEnv \/ (\E n \in 0..MaxControllers : Probe(n)) \/ FindNamespaces \/ AllocQpair
       \/ StartUnavailable
  /\ UNCHANGED <<building, mem, free, available, handles, reactorVars>>

(* Who lets go of the backend last drops the runtime: the queue pair is    *)
(* freed, the one controller it knows detached, the environment finished;  *)
(* the flag that sends allocations to SPDK stays as it is.                 *)
Release(who) ==
  /\ owners' = owners \ {who}
  /\ IF owners = {who} /\ backend = "native"
       THEN env' = "down" /\ attached' = attached - 1
       ELSE UNCHANGED <<env, attached>>
  /\ UNCHANGED <<dmaEnabled, stray, probe, backend, building, mem, free, available, handles>>

DropBackend ==
  /\ "app" \in owners
  /\ Release("app")
  /\ UNCHANGED reactorVars

-----------------------------------------------------------------------------
(* A request. *)

Namespace(nsid) == Namespaces[Find(Namespaces, nsid)]

(* SpdkBufferSegment::from_pooled                                          *)
FromPooled(m) == m.backing # "PageableFallback" /\ m.locked /\ m.phys

(* Mutant: any locked memory with a physical address will do.              *)
CheckSegmentLocked(m) == m.locked

(* NativeSpdkRuntime::check_segment                                        *)
CheckSegment(m) == m.backing = "SpdkDma"

Answer(kind, t, r, range, sent) ==
  [kind |-> kind, bufs |-> held[t], request |-> r, range |-> range, sent |-> sent]

(* read, write, readv and writev with all the buffers t holds.  The native *)
(* runtime checks and submits one segment after the other: those before    *)
(* the first it refuses are sent.                                          *)
Request(t, r) ==
  LET request == [nvme |-> r.nvme, nsid |-> r.nsid, offset |-> r.offset,
                  lens |-> [i \in DOMAIN held[t] |-> BufLen]]
      range == PrepareIo(Namespaces, 1, request)
      Mem(i) == mem[held[t][i]]
      refused == {i \in DOMAIN held[t] :
                    \/ ~ CheckSegment(Mem(i))
                    \/ ~ CountFits(SegmentRange(Namespace(r.nsid), range, request.lens, i))}
  IN IF range.kind = "error" THEN Answer(range.error, t, request, range, 0)
     ELSE IF \E i \in DOMAIN held[t] : ~ FromPooled(Mem(i))
       THEN Answer("no DMA", t, request, range, 0)
     ELSE IF backend = "unavailable" THEN Answer("unavailable", t, request, range, 0)
     ELSE IF refused # {} THEN Answer("no DMA", t, request, range, Min(refused) - 1)
     ELSE Answer("submitted", t, request, range, Len(held[t]))

DoRequest(t) ==
  /\ "app" \in owners /\ pc[t] = "idle"
  /\ \E r \in Requests : last' = Request(t, r)
  /\ UNCHANGED <<poolVars, runtime, owners, reactorVars>>

-----------------------------------------------------------------------------
(* PollReactor *)

(* new and spawn                                                           *)
Spawn ==
  /\ "app" \in owners /\ reactor = "none"
  /\ owners' = owners \cup {"reactor"}
  /\ reactor' = "starting"
  /\ UNCHANGED <<poolVars, runtime, stop>>

(* run: when the thread cannot be pinned it ends, and only says so on      *)
(* stderr.                                                                 *)
Pin ==
  /\ reactor = "starting"
  /\ \/ reactor' = "polling" /\ UNCHANGED <<poolVars, runtime, owners>>
     \/ reactor' = "returned" /\ Release("reactor")
  /\ UNCHANGED stop

SeeStop ==
  /\ reactor = "polling" /\ stop
  /\ reactor' = "returned" /\ Release("reactor")
  /\ UNCHANGED stop

(* shutdown: the flag, then join.                                          *)
Stop ==
  /\ reactor \notin {"none", "joined"} /\ ~ stop
  /\ stop' = TRUE
  /\ UNCHANGED <<poolVars, runtime, owners, reactor>>

Join ==
  /\ stop /\ reactor = "returned"
  /\ reactor' = "joined"
  /\ UNCHANGED <<poolVars, runtime, owners, stop>>

React == Spawn \/ Pin \/ SeeStop \/ Stop \/ Join

Next ==
  \/ /\ \/ PoolNext /\ UNCHANGED <<runtime, owners, reactorVars>>
        \/ StartBackend \/ DropBackend \/ React
     /\ last' = NoAnswer
  \/ \E t \in Threads : DoRequest(t)

Spec == Init /\ [][Next]_vars

-----------------------------------------------------------------------------
(* The inductive invariant behind these properties, with PoolInv. *)

(* Types of the backend.                                                   *)
RuntimeTypeOK ==
  /\ probe \in {"idle", "probe", "namespaces", "queue pair", "failed", "done"}
  /\ backend \in {"none", "unavailable", "native"}
  /\ owners \subseteq {"app", "reactor"}

(* The environment is up while the backend is built and while it has an    *)
(* owner, and whoever has a backend knows whole namespaces only.           *)
BackendInv ==
  /\ probe \in {"probe", "namespaces", "queue pair"} => backend = "none" /\ env = "up"
  /\ probe = "queue pair" \/ backend # "none" => NamespacesOk
  /\ backend = "none" => owners = {}
  /\ backend = "native" /\ owners # {} => env = "up"

(* Only SPDK's memory passes for it, and a length that cannot be rounded   *)
(* is found out before the first buffer.                                   *)
BufferInv ==
  /\ \A b \in Bufs : mem[b].backing = "SpdkDma" => mem[b].from = "spdk"
  /\ \/ BufLen # -1
     \/ pool \in {"none", "failed"}
     \/ pool = "building" /\ step = "idle" /\ free = <<>>

(* An answer is that to a request in the very state it is seen in.         *)
AnswerInv ==
  \/ last = NoAnswer
  \/ "app" \in owners /\ \E t \in Threads, r \in Requests : last = Request(t, r)

RuntimeInv == RuntimeTypeOK /\ BackendInv /\ BufferInv /\ AnswerInv

-----------------------------------------------------------------------------
(* What reaches the native queue pair is memory SPDK allocated and still   *)
(* has, as DMA addresses, with the environment up, and the segments take   *)
(* the blocks of the request one after the other, byte for byte, inside    *)
(* the namespace: through the checks of the backend, of the buffers, of    *)
(* the native runtime, and readv's own division.                           *)
SubmittedIsSafe ==
  (last.kind # "none" /\ last.sent > 0) =>
    LET ns == Namespace(last.request.nsid)
        lens == last.request.lens
        Segment(i) == SegmentRange(ns, last.range, lens, i)
    IN /\ env = "up" /\ backend = "native"
       /\ Segment(1).lba * ns.sector = last.request.offset
       /\ \A i \in 1..last.sent :
            /\ mem[last.bufs[i]].from = "spdk"
            /\ Segment(i).count * ns.sector = lens[i]
            /\ Segment(i).lba + Segment(i).count <= ns.capacity
            /\ i > 1 => Segment(i).lba = Segment(i - 1).lba + Segment(i - 1).count

(* A request on buffers SPDK allocated is refused only if its bytes are no *)
(* whole blocks of a known namespace, or too many at once.                 *)
RefusedForAReason ==
  (last.kind \notin {"none", "submitted", "unavailable", "no DMA"} /\ last.request.nvme) =>
    LET ns == Namespace(last.request.nsid)
        len == BufLen * Len(last.bufs)
    IN Find(Namespaces, last.request.nsid) # 0 =>
         ~ (IsWhole(ns, last.request.offset, len) /\ len <= ns.maxIo)

(* SPDK is asked for memory, and given it back, only while its environment *)
(* is up.                                                                  *)
EnvironmentOutlivesBuffers == ~ stray
=============================================================================
