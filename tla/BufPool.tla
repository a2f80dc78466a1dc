------------------------------ MODULE BufPool -------------------------------
(***************************************************************************)
(* bypass-io/src/buf/pool.rs and hugepage.rs: how the buffers of a pool    *)
(* are allocated, one system call after the other, handed out, returned    *)
(* and unmapped, and what the SPDK environment has to do with it.          *)
(*                                                                         *)
(* The operating system and SPDK are external: a mapping, a lock or an     *)
(* allocation may fail, and the physical address may be hidden.            *)
(***************************************************************************)
EXTENDS Integers, Sequences, FiniteSets, SequencesExt

CONSTANTS
  Threads,
  Bufs,      \* the buffers of the pool, in any order (count)
  PageSize,  \* bytes of a huge page
  Sizes,     \* buf_size a caller may ask for
  UsizeMax,  \* greatest usize
  NoBuf

ASSUME PoolAssumption ==
  /\ IsFiniteSet(Threads)
  /\ IsFiniteSet(Bufs) /\ Bufs # {} /\ NoBuf \notin Bufs
  /\ PageSize \in Nat \ {0} /\ UsizeMax \in Nat /\ Cardinality(Bufs) <= UsizeMax
  /\ Sizes \subseteq 0..UsizeMax

VARIABLES
  env,         \* the SPDK environment: "never", "up" or "down" again
  dmaEnabled,  \* SPDK_DMA_ALLOCATIONS_ENABLED
  stray,       \* history: SPDK was asked for memory, or given it back, with no environment
  pool,        \* "none", "building", "ready", "failed" or "dropped"
  bufSize,     \* buf_size
  step,        \* of HugeBuf::alloc: "idle", or the call that comes next
  mem,         \* per buffer: who gave its memory ("none", "mmap", "spdk"), and its fields
  free,        \* the free list
  available,   \* the pool's counter, a usize
  pc,          \* per thread: "idle", "popped" or "pushed"
  transit,     \* per thread: the buffer it has popped and not counted
  held         \* per thread: the handles it owns

spdkEnv == <<env, dmaEnabled, stray>>
building == <<pool, bufSize, step>>
handles == <<pc, transit, held>>
poolVars == <<spdkEnv, building, mem, free, available, handles>>

Unmapped == [from |-> "none", backing |-> "none", locked |-> FALSE, phys |-> FALSE]

PoolInit ==
  /\ env = "never" /\ dmaEnabled = FALSE /\ stray = FALSE
  /\ pool = "none" /\ bufSize = 0 /\ step = "idle"
  /\ mem = [b \in Bufs |-> Unmapped]
  /\ free = <<>> /\ available = 0
  /\ pc = [t \in Threads |-> "idle"]
  /\ transit = [t \in Threads |-> NoBuf]
  /\ held = [t \in Threads |-> <<>>]

(* round_up: -1 is the error.                                              *)
RoundUp(len, align) ==
  IF len = 0 \/ len + align - 1 > UsizeMax THEN -1 ELSE ((len + align - 1) \div align) * align

(* HugeBuf::len                                                            *)
BufLen == RoundUp(bufSize, PageSize)

-----------------------------------------------------------------------------
(* HugeBuf::drop, of all the buffers in S: SPDK's go back to SPDK, the     *)
(* others are unlocked and unmapped.                                       *)
Drop(S) ==
  /\ mem' = [b \in Bufs |-> IF b \in S THEN Unmapped ELSE mem[b]]
  /\ stray' = (stray \/ (env # "up" /\ \E b \in S : mem[b].from = "spdk"))

(* BufPool::new: the buffer after those on the free list.                  *)
Made == ToSet(free)
Current == CHOOSE b \in Bufs : b \notin Made

NewPool(size) ==
  /\ pool = "none"
  /\ pool' = "building" /\ bufSize' = size /\ step' = "idle"
  /\ UNCHANGED <<spdkEnv, mem, free, available, handles>>

(* `?` on the first error drops the buffers made so far.                   *)
NewFails ==
  /\ Drop(Made)
  /\ pool' = "failed" /\ step' = "idle" /\ free' = <<>>
  /\ UNCHANGED <<env, dmaEnabled, bufSize, available, handles>>

(* HugeBuf::alloc rounds the length and asks whether SPDK is to allocate.  *)
BeginAlloc ==
  /\ pool = "building" /\ step = "idle"
  /\ \/ BufLen = -1 /\ NewFails
     \/ /\ BufLen # -1
        /\ step' = IF dmaEnabled THEN "zmalloc" ELSE "huge"
        /\ UNCHANGED <<spdkEnv, pool, bufSize, mem, free, available, handles>>

Map(record, next) ==
  /\ mem' = [mem EXCEPT ![Current] = record]
  /\ step' = next
  /\ UNCHANGED <<env, dmaEnabled, pool, bufSize, free, available, handles>>

(* The new buffer joins the free list, and with the last one the pool is   *)
(* ready.                                                                  *)
Pushed(record) ==
  /\ mem' = [mem EXCEPT ![Current] = record]
  /\ free' = Append(free, Current)
  /\ step' = "idle"
  /\ IF Len(free) + 1 = Cardinality(Bufs)
       THEN pool' = "ready" /\ available' = Cardinality(Bufs)
       ELSE UNCHANGED <<pool, available>>
  /\ UNCHANGED <<env, dmaEnabled, bufSize, handles>>

(* spdk_dma_alloc: null is no error, alloc goes on with mmap.              *)
Zmalloc ==
  /\ step = "zmalloc"
  /\ stray' = (stray \/ env # "up")
  /\ \/ Pushed([from |-> "spdk", backing |-> "SpdkDma", locked |-> TRUE, phys |-> TRUE])
     \/ Map(Unmapped, "huge")

Mapped(backing, locked) ==
  [from |-> "mmap", backing |-> backing, locked |-> locked, phys |-> FALSE]

(* mmap_preferred, with mmap_raw and lock_mapping: a huge page, or         *)
(* anonymous memory when it cannot be mapped or not be locked.             *)
MapHuge ==
  /\ step = "huge"
  /\ Map(Mapped("none", FALSE), "lock huge") \/ Map(Unmapped, "plain")
  /\ UNCHANGED stray

(* Mutant: a huge page that cannot be locked stays mapped.                 *)
LockHugeLeaking ==
  /\ step = "lock huge"
  /\ \/ Map(Mapped("HugePage", TRUE), "finish")
     \/ Map(Mapped("none", FALSE), "plain")
  /\ UNCHANGED stray

LockHuge ==
  /\ step = "lock huge"
  /\ Map(Mapped("HugePage", TRUE), "finish") \/ Map(Unmapped, "plain")
  /\ UNCHANGED stray

MapPlain ==
  /\ step = "plain"
  /\ NewFails \/ (Map(Mapped("none", FALSE), "lock plain") /\ UNCHANGED stray)

LockPlain ==
  /\ step = "lock plain"
  /\ \/ Map(Mapped("LockedFallback", TRUE), "finish")
     \/ Map(Mapped("PageableFallback", FALSE), "finish")
  /\ UNCHANGED stray

(* prefault_mapping, and virt_to_phys if the system shows the frame.       *)
Finish ==
  /\ step = "finish"
  /\ \E phys \in BOOLEAN : Pushed([mem[Current] EXCEPT !.phys = phys])
  /\ UNCHANGED stray

BuildPool ==
  \/ \E size \in Sizes : NewPool(size)
  \/ BeginAlloc \/ Zmalloc \/ MapHuge \/ LockHuge \/ MapPlain \/ LockPlain \/ Finish

-----------------------------------------------------------------------------
(* Acquiring and returning: the list and the counter change one after the  *)
(* other.                                                                  *)

Acquire(t) ==
  /\ pool = "ready" /\ pc[t] = "idle" /\ free # <<>>
  /\ transit' = [transit EXCEPT ![t] = Head(free)]
  /\ free' = Tail(free)
  /\ pc' = [pc EXCEPT ![t] = "popped"]
  /\ UNCHANGED <<spdkEnv, building, mem, available, held>>

CountAcquired(t) ==
  /\ pc[t] = "popped"
  /\ available' = (available - 1) % (UsizeMax + 1)
  /\ held' = [held EXCEPT ![t] = Append(@, transit[t])]
  /\ transit' = [transit EXCEPT ![t] = NoBuf]
  /\ pc' = [pc EXCEPT ![t] = "idle"]
  /\ UNCHANGED <<spdkEnv, building, mem, free>>

(* PooledBuf::drop of any handle the thread owns.                          *)
ReturnBuf(t, i) ==
  /\ pc[t] = "idle"
  /\ free' = Append(free, held[t][i])
  /\ held' = [held EXCEPT ![t] = RemoveAt(@, i)]
  /\ pc' = [pc EXCEPT ![t] = "pushed"]
  /\ UNCHANGED <<spdkEnv, building, mem, available, transit>>

(* Who else keeps the free list alive.                                     *)
ListHolders(t) == {u \in Threads \ {t} : held[u] # <<>> \/ pc[u] # "idle"}

(* Mutant: a buffer is not counted when the list has it already.           *)
CountReturnedOnce(t) ==
  /\ pc[t] = "pushed"
  /\ available' = IF available = Len(free) THEN available ELSE (available + 1) % (UsizeMax + 1)
  /\ pc' = [pc EXCEPT ![t] = "idle"]
  /\ IF pool = "dropped" /\ ListHolders(t) = {} /\ held[t] = <<>>
       THEN Drop(Made) /\ free' = <<>>
       ELSE UNCHANGED <<mem, stray, free>>
  /\ UNCHANGED <<env, dmaEnabled, building, transit, held>>

(* The rest of drop; the last one to hold the free list drops the buffers  *)
(* on it.                                                                  *)
CountReturned(t) ==
  /\ pc[t] = "pushed"
  /\ available' = (available + 1) % (UsizeMax + 1)
  /\ pc' = [pc EXCEPT ![t] = "idle"]
  /\ IF pool = "dropped" /\ ListHolders(t) = {} /\ held[t] = <<>>
       THEN Drop(Made) /\ free' = <<>>
       ELSE UNCHANGED <<mem, stray, free>>
  /\ UNCHANGED <<env, dmaEnabled, building, transit, held>>

(* The pool is dropped, not while acquire borrows it.                      *)
DropPool ==
  /\ pool = "ready"
  /\ \A t \in Threads : pc[t] # "popped"
  /\ pool' = "dropped"
  /\ IF \A t \in Threads : held[t] = <<>> /\ pc[t] = "idle"
       THEN Drop(Made) /\ free' = <<>>
       ELSE UNCHANGED <<mem, stray, free>>
  /\ UNCHANGED <<env, dmaEnabled, bufSize, step, available, handles>>

PoolNext ==
  \/ BuildPool \/ DropPool
  \/ \E t \in Threads :
       \/ Acquire(t) \/ CountAcquired(t) \/ CountReturned(t)
       \/ \E i \in DOMAIN held[t] : ReturnBuf(t, i)

-----------------------------------------------------------------------------
(* The buffer that BufPool::new has mapped and not put on the list.        *)
BeingMade(b) == step \in {"lock huge", "lock plain", "finish"} /\ b = Current

(* Every buffer with memory is in one place: being made, on the free list, *)
(* in transit or held; a buffer in any of these places has memory, and     *)
(* when pool and handles are gone nothing is left.  Whatever call of       *)
(* HugeBuf::alloc fails and whoever goes last.                             *)
Places(b) ==
  (IF BeingMade(b) THEN 1 ELSE 0)
  + Cardinality({i \in DOMAIN free : free[i] = b})
  + Cardinality({t \in Threads : transit[t] = b})
  + Cardinality({p \in Threads \X (1..Cardinality(Bufs)) :
                   p[2] \in DOMAIN held[p[1]] /\ held[p[1]][p[2]] = b})

MappingsAccounted ==
  \A b \in Bufs : Places(b) = (IF mem[b].from = "none" THEN 0 ELSE 1)

(* The counter differs from the length of the free list by exactly the     *)
(* calls between their two steps: below zero, for a moment, it shows as    *)
(* the greatest usize, and when no call is under way it is right.          *)
CounterSettles ==
  pool = "ready" =>
    available = (Len(free) + Cardinality({t \in Threads : pc[t] = "popped"})
                 - Cardinality({t \in Threads : pc[t] = "pushed"})) % (UsizeMax + 1)

-----------------------------------------------------------------------------
(* The inductive invariant behind these properties. *)

(* Types of the pool and of the locals of acquire and drop.                *)
Memory ==
  [from : {"none", "mmap", "spdk"},
   backing : {"none", "SpdkDma", "HugePage", "LockedFallback", "PageableFallback"},
   locked : BOOLEAN, phys : BOOLEAN]

PoolTypeOK ==
  /\ env \in {"never", "up", "down"}
  /\ pool \in {"none", "building", "ready", "failed", "dropped"}
  /\ step \in {"idle", "zmalloc", "huge", "lock huge", "plain", "lock plain", "finish"}
  /\ bufSize \in 0..UsizeMax
  /\ mem \in [Bufs -> Memory]
  /\ free \in Seq(Bufs)
  /\ available \in 0..UsizeMax
  /\ pc \in [Threads -> {"idle", "popped", "pushed"}]
  /\ transit \in [Threads -> Bufs \cup {NoBuf}]
  /\ held \in [Threads -> Seq(Bufs)]

(* Until the pool is ready nobody has a buffer, and while it is built      *)
(* there is one more to make.                                              *)
StageInv ==
  /\ pool # "building" => step = "idle"
  /\ pool \in {"none", "building", "failed"} =>
       \A t \in Threads : pc[t] = "idle" /\ held[t] = <<>>
  /\ pool \in {"none", "failed"} => free = <<>>
  /\ pool = "building" => Len(free) < Cardinality(Bufs)

(* No buffer is twice on the free list, in two hands, or in both.          *)
FreeInv == IsInjective(free)
TransitInv ==
  \A t \in Threads :
    /\ transit[t] # NoBuf <=> pc[t] = "popped"
    /\ transit[t] \notin Made
    /\ \A u \in Threads : transit[t] = transit[u] /\ t # u => transit[t] = NoBuf
HeldInv ==
  \A t \in Threads :
    /\ IsInjective(held[t])
    /\ \A b \in ToSet(held[t]) :
         /\ b \notin Made
         /\ \A u \in Threads : transit[u] # b /\ (u # t => b \notin ToSet(held[u]))

MemInv ==
  \A b \in Bufs :
    mem[b].from # "none" <=>
      \/ BeingMade(b)
      \/ b \in Made
      \/ \E t \in Threads : transit[t] = b
      \/ \E t \in Threads : b \in ToSet(held[t])

PoolInv == StageInv /\ FreeInv /\ TransitInv /\ HeldInv /\ MemInv /\ CounterSettles

(* available never tells more buffers than the pool has.                   *)
AvailableIsSane == available <= Cardinality(Bufs)
=============================================================================
