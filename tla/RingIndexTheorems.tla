------------------------- MODULE RingIndexTheorems -------------------------
(***************************************************************************)
(* Facts about the index arithmetic of RingIndex, for every capacity and   *)
(* every index width.                                                      *)
(***************************************************************************)
EXTENDS RingIndex, FunctionTheorems, FiniteSetTheorems, TLAPS

(* wrapping_add stays in range, and moves one place.                       *)
LEMMA NextIndexIsNext ==
  ASSUME NEW i \in Index
  PROVE  /\ NextIndex(i) \in Index
         /\ NextIndex(i) = IndexAfter(i, 1)
         /\ NextIndex(i) # i
BY IndexModAssumption, CapacityAssumption DEF Index, NextIndex, IndexAfter

(* Division with remainder by the capacity.                                *)
LEMMA SlotInRange ==
  ASSUME NEW i \in Index
  PROVE  SlotOf(i) \in SlotId
BY CapacityAssumption, IndexModAssumption DEF Index, SlotOf, SlotId

LEMMA Division ==
  ASSUME NEW a \in Nat
  PROVE  /\ a = Capacity * (a \div Capacity) + (a % Capacity)
         /\ a \div Capacity \in Int
         /\ a % Capacity \in 0..(Capacity - 1)
BY CapacityAssumption

(* A multiple of the capacity strictly between -Capacity and Capacity is 0.*)
LEMMA SmallMultiple ==
  ASSUME NEW k \in Int, NEW d \in 1..(Capacity - 1), Capacity * k = d
  PROVE  FALSE
<1>1. CASE k >= 1
  <2>1. Capacity * k >= Capacity
    BY <1>1, CapacityAssumption
  <2> QED BY <2>1, CapacityAssumption
<1>2. CASE k <= 0
  <2>1. Capacity * k <= 0
    BY <1>2, CapacityAssumption
  <2> QED BY <2>1, CapacityAssumption
<1> QED BY <1>1, <1>2

(* Two naturals less than a lap apart have different slots.                *)
LEMMA LapDisjoint ==
  ASSUME NEW a \in Nat, NEW d \in 1..(Capacity - 1)
  PROVE  (a + d) % Capacity # a % Capacity
<1> SUFFICES ASSUME (a + d) % Capacity = a % Capacity PROVE FALSE
  OBVIOUS
<1> DEFINE q == a \div Capacity
           r == (a + d) \div Capacity
<1>1. a + d \in Nat
  BY CapacityAssumption
<1>2. a = Capacity * q + (a % Capacity) /\ q \in Int
  BY Division
<1>3. a + d = Capacity * r + ((a + d) % Capacity) /\ r \in Int
  BY <1>1, Division
<1> HIDE DEF q, r
<1>4. Capacity * (r - q) = d
  BY <1>2, <1>3, CapacityAssumption
<1>5. r - q \in Int
  BY <1>2, <1>3
<1> QED BY <1>4, <1>5, SmallMultiple

(* Going back a whole lap of the counters does not change the slot.        *)
LEMMA WrapKeepsSlot ==
  ASSUME NEW a \in Nat, a >= IndexMod
  PROVE  (a - IndexMod) % Capacity = a % Capacity
<1> DEFINE b == a - IndexMod
           q == b \div Capacity
           r == a \div Capacity
<1>1. PICK laps \in 2..IndexMod : IndexMod = laps * Capacity
  BY IndexModAssumption
<1>2. b \in Nat /\ a = b + laps * Capacity
  BY <1>1, CapacityAssumption
<1>3. /\ b = Capacity * q + (b % Capacity)
      /\ q \in Int
      /\ b % Capacity \in 0..(Capacity - 1)
  BY <1>2, Division
<1>4. /\ a = Capacity * r + (a % Capacity)
      /\ r \in Int
      /\ a % Capacity \in 0..(Capacity - 1)
  BY Division
<1> HIDE DEF b, q, r
<1> DEFINE k == q + laps - r
<1>5. /\ k \in Int
      /\ Capacity * k = (a % Capacity) - (b % Capacity)
      /\ Capacity * (0 - k) = (b % Capacity) - (a % Capacity)
  BY <1>1, <1>2, <1>3, <1>4, CapacityAssumption
<1> HIDE DEF k
<1>6. CASE a % Capacity > b % Capacity
  <2>1. (a % Capacity) - (b % Capacity) \in 1..(Capacity - 1)
    BY <1>3, <1>4, <1>6, CapacityAssumption
  <2> QED BY <2>1, <1>5, SmallMultiple
<1>7. CASE a % Capacity < b % Capacity
  <2>1. (b % Capacity) - (a % Capacity) \in 1..(Capacity - 1)
    BY <1>3, <1>4, <1>7, CapacityAssumption
  <2>2. 0 - k \in Int
    BY <1>5
  <2> QED BY <2>1, <2>2, <1>5, SmallMultiple
<1>8. CASE a % Capacity = b % Capacity
  BY <1>8 DEF b
<1> QED BY <1>3, <1>4, <1>6, <1>7, <1>8, CapacityAssumption

(* The slot of an index k places on, whether or not the counter wraps.     *)
LEMMA SlotAfter ==
  ASSUME NEW i \in Index, NEW k \in 0..Capacity
  PROVE  /\ IndexAfter(i, k) \in Index
         /\ SlotOf(IndexAfter(i, k)) = (i + k) % Capacity
<1>1. Capacity < IndexMod
  <2>1. PICK laps \in 2..IndexMod : IndexMod = laps * Capacity
    BY IndexModAssumption
  <2>2. laps * Capacity >= 2 * Capacity
    BY <2>1, CapacityAssumption
  <2> QED BY <2>1, <2>2, CapacityAssumption
<1>2. IndexAfter(i, k) \in Index
  BY <1>1, CapacityAssumption, IndexModAssumption DEF Index, IndexAfter
<1>3. CASE i + k >= IndexMod
  BY <1>2, <1>3, WrapKeepsSlot, CapacityAssumption, IndexModAssumption
  DEF Index, IndexAfter, SlotOf
<1>4. CASE ~ (i + k >= IndexMod)
  BY <1>2, <1>4, CapacityAssumption, IndexModAssumption DEF Index, IndexAfter, SlotOf
<1> QED BY <1>2, <1>3, <1>4

(* The indices from i on use different slots until a lap is complete.      *)
LEMMA SlotsApart ==
  ASSUME NEW i \in Index,
         NEW j \in 0..(Capacity - 1), NEW k \in 0..(Capacity - 1), j # k
  PROVE  SlotOf(IndexAfter(i, j)) # SlotOf(IndexAfter(i, k))
<1>1. /\ SlotOf(IndexAfter(i, j)) = (i + j) % Capacity
      /\ SlotOf(IndexAfter(i, k)) = (i + k) % Capacity
  BY SlotAfter, CapacityAssumption
<1>2. CASE j < k
  <2>1. i + j \in Nat /\ k - j \in 1..(Capacity - 1) /\ (i + j) + (k - j) = i + k
    BY <1>2, CapacityAssumption DEF Index
  <2> QED BY <1>1, <2>1, LapDisjoint
<1>3. CASE k < j
  <2>1. i + k \in Nat /\ j - k \in 1..(Capacity - 1) /\ (i + k) + (j - k) = i + j
    BY <1>3, CapacityAssumption DEF Index
  <2> QED BY <1>1, <2>1, LapDisjoint
<1> QED BY <1>2, <1>3

-----------------------------------------------------------------------------
(* Every lap of the counters has room for more than one lap of the slots.  *)
LEMMA IndexModBound ==
  /\ IndexMod \in Nat
  /\ Capacity \in Nat
  /\ 1 <= Capacity
  /\ 2 * Capacity <= IndexMod
<1>1. PICK laps \in 2..IndexMod : IndexMod = laps * Capacity
  BY IndexModAssumption
<1>2. laps * Capacity >= 2 * Capacity
  BY <1>1, CapacityAssumption
<1> QED BY <1>1, <1>2, CapacityAssumption, IndexModAssumption

(* wrapping_sub measures how far one index is ahead of another.            *)
LEMMA DistanceFacts ==
  ASSUME NEW a \in Index, NEW b \in Index
  PROVE  /\ Distance(a, b) \in 0..(IndexMod - 1)
         /\ Distance(a, b) = 0 <=> a = b
         /\ IndexAfter(b, Distance(a, b)) = a
         /\ Distance(a, b) < IndexMod - 1 => Distance(NextIndex(a), b) = Distance(a, b) + 1
         /\ a # b => Distance(a, NextIndex(b)) = Distance(a, b) - 1
         /\ Distance(a, NextIndex(a)) = IndexMod - 1
BY IndexModBound DEF Index, Distance, IndexAfter, NextIndex

(* Different indices in the same window of Capacity have different slots.  *)
LEMMA WindowSlots ==
  ASSUME NEW t \in Index, NEW a \in Index, NEW b \in Index,
         Distance(a, t) < Capacity, Distance(b, t) < Capacity, a # b
  PROVE  SlotOf(a) # SlotOf(b)
<1>1. /\ Distance(a, t) \in 0..(Capacity - 1) /\ IndexAfter(t, Distance(a, t)) = a
      /\ Distance(b, t) \in 0..(Capacity - 1) /\ IndexAfter(t, Distance(b, t)) = b
  BY DistanceFacts, IndexModBound
<1>2. Distance(a, t) # Distance(b, t)
  BY <1>1
<1> QED BY <1>1, <1>2, SlotsApart

(* A window of n indices, at most a lap of the slots, has n slots.         *)
LEMMA WindowCount ==
  ASSUME NEW t \in Index, NEW n \in 0..Capacity, NEW S,
         \A s : s \in S <=> \E k \in 0..(n - 1) : s = SlotOf(IndexAfter(t, k))
  PROVE  IsFiniteSet(S) /\ Cardinality(S) = n
<1> DEFINE D == 0..(n - 1)
           f == [k \in D |-> SlotOf(IndexAfter(t, k))]
<1>1. n \in Nat /\ n - 1 \in Int /\ D \subseteq 0..(Capacity - 1)
  BY IndexModBound
<1>2. f \in [D -> S]
  OBVIOUS
<1>3. \A a, b \in D : f[a] = f[b] => a = b
  <2> SUFFICES ASSUME NEW a \in D, NEW b \in D, a # b PROVE f[a] # f[b]
    OBVIOUS
  <2> QED BY <1>1, SlotsApart
<1>4. \A s \in S : \E k \in D : f[k] = s
  OBVIOUS
<1>5. f \in Bijection(D, S)
  <2> HIDE DEF f, D
  <2> QED BY <1>2, <1>3, <1>4, Fun_IsBij
<1>6. IsFiniteSet(D) /\ Cardinality(D) = n
  <2>1. IsFiniteSet(D) /\ Cardinality(D) = IF 0 > n - 1 THEN 0 ELSE (n - 1) - 0 + 1
    BY <1>1, FS_Interval
  <2> HIDE DEF D
  <2> QED BY <1>1, <2>1
<1> HIDE DEF f, D
<1>7. ExistsBijection(D, S)
  BY <1>5 DEF ExistsBijection
<1> QED BY <1>6, <1>7, FS_Bijection

(* A window of Capacity indices meets every slot.                          *)
LEMMA SlotReached ==
  ASSUME NEW t \in Index, NEW s \in SlotId
  PROVE  \E d \in 0..(Capacity - 1) : s = SlotOf(IndexAfter(t, d))
<1> DEFINE S == {SlotOf(IndexAfter(t, k)) : k \in 0..(Capacity - 1)}
<1>1. IsFiniteSet(S) /\ Cardinality(S) = Capacity
  <2>1. Capacity \in 0..Capacity
    BY IndexModBound
  <2>2. \A x : x \in S <=> \E k \in 0..(Capacity - 1) : x = SlotOf(IndexAfter(t, k))
    OBVIOUS
  <2> HIDE DEF S
  <2> QED BY <2>1, <2>2, WindowCount
<1>2. IsFiniteSet(SlotId) /\ Cardinality(SlotId) = Capacity
  <2>1. IsFiniteSet(0..(Capacity - 1))
        /\ Cardinality(0..(Capacity - 1)) = IF 0 > Capacity - 1 THEN 0 ELSE (Capacity - 1) - 0 + 1
    BY IndexModBound, FS_Interval
  <2> QED BY <2>1, IndexModBound DEF SlotId
<1>3. S \subseteq SlotId
  BY SlotAfter, SlotInRange, IndexModBound
<1>4. S = SlotId
  <2> HIDE DEF S
  <2> QED BY <1>1, <1>2, <1>3, FS_Subset
<1> QED BY <1>4

(* A whole lap of the slots further on is the same slot.                   *)
LEMMA LapSameSlot ==
  ASSUME NEW t \in Index, NEW i \in Index, Distance(i, t) = Capacity
  PROVE  SlotOf(i) = SlotOf(t)
<1>1. i = IndexAfter(t, Capacity) /\ SlotOf(i) = (t + Capacity) % Capacity
  BY DistanceFacts, SlotAfter, IndexModBound
<1>2. t \in Nat /\ t + Capacity \in Nat
  BY IndexModBound DEF Index
<1>3. /\ t = Capacity * (t \div Capacity) + (t % Capacity)
      /\ t \div Capacity \in Int
      /\ t % Capacity \in 0..(Capacity - 1)
  BY <1>2, Division
<1> DEFINE q == t \div Capacity
           r == (t + Capacity) \div Capacity
           u == t % Capacity
           v == (t + Capacity) % Capacity
<1>4. t + Capacity = Capacity * r + v /\ r \in Int /\ v \in 0..(Capacity - 1)
  BY <1>2, Division
<1>5. t = Capacity * q + u /\ q \in Int /\ u \in 0..(Capacity - 1)
  BY <1>3
<1> HIDE DEF q, r, u, v
<1> DEFINE k == q + 1 - r
<1>6. k \in Int /\ Capacity * k = v - u /\ Capacity * (0 - k) = u - v
  BY <1>2, <1>4, <1>5, IndexModBound
<1> HIDE DEF k
<1>7. u = v
  <2>1. CASE v > u
    <3>1. v - u \in 1..(Capacity - 1)
      BY <2>1, <1>4, <1>5, IndexModBound
    <3> QED BY <3>1, <1>6, SmallMultiple
  <2>2. CASE v < u
    <3>1. u - v \in 1..(Capacity - 1) /\ 0 - k \in Int
      BY <2>2, <1>4, <1>5, <1>6, IndexModBound
    <3> QED BY <3>1, <1>6, SmallMultiple
  <2> QED BY <2>1, <2>2, <1>4, <1>5, IndexModBound
<1> QED BY <1>1, <1>7 DEF u, v, SlotOf
=============================================================================
