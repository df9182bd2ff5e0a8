------------------------ MODULE DifficultyPalletProofs ------------------------
(***************************************************************************)
(* What holds of the difficulty pallet for every window, every target and  *)
(* every sequence of timestamps, the loop over the ring and the direction  *)
(* of an adjustment included.  The inductive invariant is the type         *)
(* invariant with the two properties of the ring: that the slots below     *)
(* `height' are filled follows from their difficulty being that in force,  *)
(* which is never 0, and only then is a new timestamp known to be later    *)
(* than every slot of the window.                                          *)
(***************************************************************************)
EXTENDS DifficultyPallet, WellFoundedInduction, TLAPS

IInv == TypeOK /\ WindowSharesDifficulty /\ RingInOrder

(* However the sign of the adjustment comes out, the new difficulty is     *)
(* within the limits.                                                      *)
LEMMA AdjustedInRange ==
    ASSUME TypeOK, NEW s \in {-1, 0, 1}
    PROVE  Adjusted(s) \in MIN_DIFFICULTY..MAX_DIFFICULTY
BY DifficultyAssumption DEF Adjusted, TypeOK

(* Genesis: an empty ring.                                                 *)
LEMMA InitIInv == Init => IInv
BY WindowAssumption, TimeAssumption, DifficultyAssumption
DEF Init, IInv, TypeOK, WindowSharesDifficulty, RingInOrder, Slots, W, NoSlot,
    DifficultyAndTimestamp

(* A slot of the current window is filled and not later than the last      *)
(* block.                                                                  *)
LEMMA WindowFilled ==
    ASSUME IInv, NEW i \in Slots, i < height
    PROVE  data[i] # NoSlot /\ data[i].timestamp <= now
<1>1. data[i].difficulty = difficulty /\ difficulty # 0
  BY DifficultyAssumption DEF IInv, TypeOK, WindowSharesDifficulty
<1>2. data[i] # NoSlot
  BY <1>1 DEF NoSlot
<1> QED BY <1>2 DEF IInv, RingInOrder

(* What every block does before the two cases differ.                      *)
LEMMA MomentIsLater ==
    ASSUME IInv, NEW gap \in Gaps, Block(gap)
    PROVE  now' \in Nat /\ now + MinimumPeriod <= now' /\ blocks' \in 0..MaxBlocks
           /\ gaps' \subseteq Gaps
<1>1. now \in Nat /\ blocks \in 0..MaxBlocks /\ gaps \subseteq Gaps
  BY DEF IInv, TypeOK
<1>2. gap \in Nat /\ gap >= MinimumPeriod /\ MinimumPeriod \in Nat
      /\ MaxBlocks \in Nat
  BY TimeAssumption
<1>3. /\ blocks < MaxBlocks /\ now' = now + gap /\ blocks' = blocks + 1
      /\ gaps' = IF height = 0 THEN {} ELSE gaps \cup {gap}
  BY DEF Block
<1>4. gaps' \subseteq Gaps
  BY <1>1, <1>3
<1> QED BY <1>1, <1>2, <1>3, <1>4

LEMMA RecordPreservesIInv ==
    ASSUME IInv, NEW gap \in Gaps, Block(gap), Record(now')
    PROVE  IInv'
<1> USE DEF W, Slots
<1>1. /\ now' \in Nat /\ now + MinimumPeriod <= now'
      /\ blocks' \in 0..MaxBlocks /\ gaps' \subseteq Gaps
  BY MomentIsLater
<1>2. /\ height' = height + 1 /\ height < W - 1 /\ difficulty' = difficulty
      /\ data' = [data EXCEPT ![height] = Slot(now')]
      /\ height \in Slots /\ difficulty \in Nat /\ difficulty # 0
  BY DifficultyAssumption DEF Record, IInv, TypeOK
<1>3. TypeOK'
  BY <1>1, <1>2, WindowAssumption
  DEF IInv, TypeOK, Slot, DifficultyAndTimestamp
<1>4. /\ data'[height] = Slot(now')
      /\ \A i \in Slots : i # height => data'[i] = data[i]
  BY <1>2 DEF IInv, TypeOK
<1>5. Slot(now').difficulty = difficulty /\ Slot(now').timestamp = now'
      /\ Slot(now') # NoSlot
  BY <1>2 DEF Slot, NoSlot
<1>6. WindowSharesDifficulty'
  BY <1>2, <1>4, <1>5 DEF IInv, TypeOK, WindowSharesDifficulty
<1>7. \A i \in Slots : data[i].timestamp \in Nat
  BY DEF IInv, TypeOK, DifficultyAndTimestamp
<1>8. \A i \in Slots : data[i] # NoSlot => data[i].timestamp <= now
  BY DEF IInv, RingInOrder
<1>9. \A i \in Slots : i < height => data[i] # NoSlot
  BY WindowFilled
<1>10. now \in Nat /\ MinimumPeriod \in Nat
  BY TimeAssumption DEF IInv, TypeOK
<1>11. ASSUME NEW i \in Slots, NEW k \in Slots,
              k < height' \/ (height' <= i /\ data'[k] # NoSlot), i < k
       PROVE  /\ data'[i] # NoSlot
              /\ data'[i].timestamp + MinimumPeriod <= data'[k].timestamp
  <2>1. CASE k = height
    BY <2>1, <1>1, <1>2, <1>4, <1>5, <1>7, <1>8, <1>9, <1>10, <1>11
  <2>2. CASE k # height
    <3>1. i # height /\ data'[i] = data[i] /\ data'[k] = data[k]
      BY <2>2, <1>2, <1>4, <1>11
    <3>2. k < height \/ (height <= i /\ data[k] # NoSlot)
      BY <2>2, <3>1, <1>2, <1>11
    <3> QED BY <3>1, <3>2, <1>11 DEF IInv, RingInOrder
  <2> QED BY <2>1, <2>2
<1>12. ASSUME NEW i \in Slots, NEW k \in Slots,
              i < height', height' <= k, data'[k] # NoSlot
       PROVE  data'[k].timestamp + MinimumPeriod <= data'[i].timestamp
  <2>1. k # height /\ data'[k] = data[k] /\ height <= k
    BY <1>2, <1>4, <1>12
  <2>2. CASE i = height
    BY <2>1, <2>2, <1>1, <1>4, <1>5, <1>7, <1>8, <1>10, <1>12
  <2>3. CASE i # height
    <3>1. i < height /\ data'[i] = data[i]
      BY <2>3, <1>2, <1>4, <1>12
    <3> QED BY <3>1, <2>1, <1>12 DEF IInv, RingInOrder
  <2> QED BY <2>2, <2>3
<1>13. ASSUME NEW i \in Slots, data'[i] # NoSlot
       PROVE  data'[i].timestamp <= now'
  BY <1>1, <1>4, <1>5, <1>7, <1>8, <1>10, <1>13
<1>14. RingInOrder'
  BY <1>11, <1>12, <1>13 DEF RingInOrder
<1> QED BY <1>3, <1>6, <1>14 DEF IInv

LEMMA RetargetPreservesIInv ==
    ASSUME IInv, NEW gap \in Gaps, Block(gap), Retarget(now')
    PROVE  IInv'
<1> USE DEF W, Slots
<1>1. /\ now' \in Nat /\ now + MinimumPeriod <= now'
      /\ blocks' \in 0..MaxBlocks /\ gaps' \subseteq Gaps
  BY MomentIsLater
<1>2. /\ height' = 0 /\ height = W - 1
      /\ data' = [data EXCEPT ![height] = Slot(now')]
      /\ height \in Slots /\ difficulty \in Nat /\ difficulty # 0
  BY DifficultyAssumption DEF Retarget, IInv, TypeOK
<1>3. difficulty' \in MIN_DIFFICULTY..MAX_DIFFICULTY
  <2>1. PICK s \in {-1, 0, 1} : difficulty' = Adjusted(s)
    BY Zenon DEF Retarget, Clamp
  <2> QED BY <2>1, AdjustedInRange DEF IInv
<1>4. TypeOK'
  BY <1>1, <1>2, <1>3, WindowAssumption
  DEF IInv, TypeOK, Slot, DifficultyAndTimestamp
<1>5. WindowSharesDifficulty'
  BY <1>2, WindowAssumption DEF WindowSharesDifficulty
<1>6. /\ data'[height] = Slot(now')
      /\ \A i \in Slots : i # height => data'[i] = data[i]
  BY <1>2 DEF IInv, TypeOK
<1>7. Slot(now').timestamp = now' /\ Slot(now') # NoSlot
  BY <1>2 DEF Slot, NoSlot
<1>8. \A i \in Slots : data[i].timestamp \in Nat
  BY DEF IInv, TypeOK, DifficultyAndTimestamp
<1>9. \A i \in Slots : i < height => data[i] # NoSlot /\ data[i].timestamp <= now
  BY WindowFilled
<1>10. now \in Nat /\ MinimumPeriod \in Nat
  BY TimeAssumption DEF IInv, TypeOK
<1>11. ASSUME NEW i \in Slots, NEW k \in Slots, i < k
       PROVE  /\ data'[i] # NoSlot
              /\ data'[i].timestamp + MinimumPeriod <= data'[k].timestamp
  <2>1. i < height /\ data'[i] = data[i]
    BY <1>2, <1>6, <1>11, WindowAssumption
  <2>2. CASE k = height
    BY <2>1, <2>2, <1>1, <1>6, <1>7, <1>8, <1>9, <1>10
  <2>3. CASE k # height
    <3>1. k < height /\ data'[k] = data[k]
      BY <2>3, <1>2, <1>6, WindowAssumption
    <3> QED BY <3>1, <2>1, <1>9, <1>11 DEF IInv, RingInOrder
  <2> QED BY <2>2, <2>3
<1>12. ASSUME NEW i \in Slots, data'[i] # NoSlot
       PROVE  data'[i].timestamp <= now'
  <2>1. CASE i = height
    BY <2>1, <1>1, <1>6, <1>7
  <2>2. CASE i # height
    <3>1. i < height /\ data'[i] = data[i]
      BY <2>2, <1>2, <1>6, WindowAssumption
    <3> QED BY <3>1, <1>1, <1>8, <1>9, <1>10
  <2> QED BY <2>1, <2>2
<1>13. \A i \in Slots : ~(i < height')
  BY <1>2, WindowAssumption
<1>14. RingInOrder'
  BY <1>11, <1>12, <1>13 DEF RingInOrder
<1> QED BY <1>4, <1>5, <1>14 DEF IInv

LEMMA NextIInv == IInv /\ [Next]_vars => IInv'
<1> SUFFICES ASSUME IInv, [Next]_vars PROVE IInv'
  OBVIOUS
<1>1. CASE Next
  <2>1. PICK gap \in Gaps : Block(gap)
    BY <1>1 DEF Next
  <2>2. CASE Record(now')
    BY <2>1, <2>2, RecordPreservesIInv
  <2>3. CASE Retarget(now')
    BY <2>1, <2>3, RetargetPreservesIInv
  <2> QED BY <2>1, <2>2, <2>3 DEF Block
<1>2. CASE UNCHANGED vars
  BY <1>2 DEF vars, IInv, TypeOK, WindowSharesDifficulty, RingInOrder
<1> QED BY <1>1, <1>2

(* The difficulty stays within the limits of the re-target, and the height *)
(* pointer within the ring: the panic of on_timestamp_set is unreachable.  *)
THEOREM TypeCorrect == Spec => []TypeOK
<1>1. IInv => TypeOK
  BY DEF IInv
<1> QED BY <1>1, InitIInv, NextIInv, PTL DEF Spec

(* The ring always holds the current window, in order, and the older rest. *)
THEOREM RingStaysInOrder == Spec => []RingInOrder
<1>1. IInv => RingInOrder
  BY DEF IInv
<1> QED BY <1>1, InitIInv, NextIInv, PTL DEF Spec

(* All blocks of a window are executed at one difficulty.                  *)
THEOREM WindowHasOneDifficulty == Spec => []WindowSharesDifficulty
<1>1. IInv => WindowSharesDifficulty
  BY DEF IInv
<1> QED BY <1>1, InitIInv, NextIInv, PTL DEF Spec

-----------------------------------------------------------------------------
(***************************************************************************)
(* The loop over the ring.  Induction over the slots is the statement that *)
(* a set of slots that has 0 and, with a slot, the next one, has all: the  *)
(* least slot outside it could be neither.                                 *)
(***************************************************************************)
LEMMA SlotInduction ==
    ASSUME NEW G, 0 \in G, \A i \in 1..W-1 : i - 1 \in G => i \in G
    PROVE  \A i \in Slots : i \in G
<1> DEFINE U == Slots \ G
<1> SUFFICES ASSUME U # {} PROVE FALSE
  OBVIOUS
<1>1. U \subseteq Nat
  BY WindowAssumption DEF Slots, W
<1>2. PICK u \in U : \A v \in U : ~(<<v, u>> \in OpToRel(<, Nat))
  <2> HIDE DEF U
  <2> QED BY <1>1, WFMin, NatLessThanWellFounded
<1>3. u \in Nat /\ u \in Slots /\ u \notin G /\ \A v \in U : ~(v < u)
  BY <1>1, <1>2 DEF OpToRel
<1>4. u \in 1..W-1 /\ u - 1 \in Slots /\ u - 1 < u
  BY <1>3, WindowAssumption DEF Slots, W
<1> QED BY <1>3, <1>4

(* Whole seconds between two slots.                                        *)
LEMMA DeltaOfSlots ==
    ASSUME NEW d \in [Slots -> DifficultyAndTimestamp], NEW i \in 1..W-1
    PROVE  /\ Delta(d, i) \in Nat
           /\ d[i-1] # NoSlot /\ d[i] # NoSlot =>
                LET t == d[i].timestamp - d[i-1].timestamp IN
                /\ t >= 0 => 1000 * Delta(d, i) <= t /\ t < 1000 * Delta(d, i) + 1000
                /\ t < 0 => Delta(d, i) = 0
<1>1. i \in Slots /\ i - 1 \in Slots
  BY WindowAssumption DEF Slots, W
<1>2. d[i].timestamp \in Nat /\ d[i-1].timestamp \in Nat
  BY <1>1 DEF DifficultyAndTimestamp
<1> DEFINE t == d[i].timestamp - d[i-1].timestamp
<1>3. t \in Int
  BY <1>2
<1>4. CASE d[i-1] = NoSlot \/ d[i] = NoSlot
  BY <1>4, TimeAssumption DEF Delta
<1>5. CASE d[i-1] # NoSlot /\ d[i] # NoSlot
  <2>1. Delta(d, i) = Max({t, 0}) \div 1000
    BY <1>5 DEF Delta
  <2> HIDE DEF t
  <2>2. Max({t, 0}) = IF t >= 0 THEN t ELSE 0
    BY <1>3 DEF Max
  <2>3. /\ Delta(d, i) \in Nat
        /\ t >= 0 => 1000 * Delta(d, i) <= t /\ t < 1000 * Delta(d, i) + 1000
        /\ t < 0 => Delta(d, i) = 0
    BY <1>3, <2>1, <2>2
  <2> QED BY <2>3 DEF t
<1> QED BY <1>4, <1>5

(* The sums the loop goes through.                                         *)
Sums(d, s) ==
    s = [i \in Slots |-> IF i = 0 THEN 0 ELSE s[i-1] + Delta(d, i)]

LEMMA SumsExist ==
    ASSUME NEW d \in [Slots -> DifficultyAndTimestamp]
    PROVE  \E s : Sums(d, s)
<1> DEFINE Upto(n, s) ==
             s = [i \in 0..n |-> IF i = 0 THEN 0 ELSE s[i-1] + Delta(d, i)]
           G == {n \in Slots : \E s : Upto(n, s)}
<1>1. W - 1 \in Slots /\ 0 \in Slots
  BY WindowAssumption DEF Slots, W
<1>2. 0 \in G
  <2> DEFINE s == [i \in 0..0 |-> 0]
  <2>1. Upto(0, s)
    OBVIOUS
  <2> QED BY <2>1, <1>1
<1>3. ASSUME NEW n \in 1..W-1, n - 1 \in G PROVE n \in G
  <2>1. PICK s : Upto(n - 1, s)
    BY <1>3
  <2> DEFINE r == [i \in 0..n |-> IF i = n THEN s[n-1] + Delta(d, n) ELSE s[i]]
  <2>2. n \in Nat /\ n # 0 /\ n \in Slots
    BY WindowAssumption DEF Slots, W
  <2>3. \A i \in 0..n-1 : s[i] = IF i = 0 THEN 0 ELSE s[i-1] + Delta(d, i)
    BY <2>1
  <2>4. \A i \in 0..n :
          /\ i # n => i \in 0..n-1
          /\ i # 0 => i - 1 \in 0..n-1 /\ i - 1 # n /\ i - 1 \in 0..n
    BY <2>2
  <2>5. ASSUME NEW i \in 0..n
        PROVE  r[i] = IF i = 0 THEN 0 ELSE r[i-1] + Delta(d, i)
    <3>1. CASE i = n
      <4>1. r[i] = s[n-1] + Delta(d, n) /\ r[i-1] = s[n-1]
        BY <3>1, <2>2, <2>4
      <4> QED BY <4>1, <3>1, <2>2
    <3>2. CASE i # n
      <4>1. r[i] = s[i] /\ (i # 0 => r[i-1] = s[i-1])
        BY <3>2, <2>4
      <4> QED BY <4>1, <3>2, <2>3, <2>4
    <3> QED BY <3>1, <3>2
  <2>6. Upto(n, r)
    <3> HIDE DEF r
    <3>1. r = [i \in 0..n |-> r[i]]
      BY DEF r
    <3> QED BY <3>1, <2>5
  <2> QED BY <2>2, <2>6
<1>4. W - 1 \in G
  <2> HIDE DEF G
  <2> QED BY <1>1, <1>2, <1>3, SlotInduction
<1> QED BY <1>4 DEF Sums, Slots

LEMMA TsDeltaIsSum ==
    ASSUME NEW d \in [Slots -> DifficultyAndTimestamp]
    PROVE  \E s \in [Slots -> Nat] :
             /\ s[0] = 0 /\ \A i \in 1..W-1 : s[i] = s[i-1] + Delta(d, i)
             /\ TsDelta(d) = s[W-1]
<1> DEFINE s == CHOOSE f : Sums(d, f)
<1>1. Sums(d, s)
  BY SumsExist
<1>2. TsDelta(d) = s[W-1]
  BY Zenon DEF TsDelta, Sums
<1> HIDE DEF s
<1>3. /\ 0 \in Slots /\ W - 1 \in Slots
      /\ \A i \in 1..W-1 : i \in Slots /\ i - 1 \in Slots /\ i # 0
  BY WindowAssumption DEF Slots, W
<1>4. s[0] = 0 /\ \A i \in 1..W-1 : s[i] = s[i-1] + Delta(d, i)
  BY <1>1, <1>3 DEF Sums
<1>5. s = [i \in Slots |-> s[i]]
  BY <1>1 DEF Sums
<1>6. \A i \in Slots : s[i] \in Nat
  <2> DEFINE G == {i \in Slots : s[i] \in Nat}
  <2>1. 0 \in G
    BY <1>3, <1>4
  <2>2. ASSUME NEW i \in 1..W-1, i - 1 \in G PROVE i \in G
    BY <2>2, <1>3, <1>4, DeltaOfSlots
  <2>3. \A i \in Slots : i \in G
    <3> HIDE DEF G
    <3> QED BY <2>1, <2>2, SlotInduction
  <2> QED BY <2>3
<1>7. s \in [Slots -> Nat]
  BY <1>5, <1>6
<1> QED BY <1>2, <1>4, <1>7

-----------------------------------------------------------------------------
(***************************************************************************)
(* The average block time.  Up to the slot below `height' the loop has     *)
(* added at most the time since the first slot; the step to slot `height'  *)
(* goes back in time and adds nothing; from there on it adds at most the   *)
(* time since slot `height', and the last of these slots is not later than *)
(* the first one.                                                          *)
(***************************************************************************)
LEMMA RingBoundsAvg == IInv => AvgNotOverstated
<1> SUFFICES ASSUME IInv, \A i \in Slots : data[i] # NoSlot
             PROVE  1000 * W * AvgBlocktime <= now - data[height].timestamp
  BY DEF AvgNotOverstated
<1> DEFINE t(i) == data[i].timestamp
           h == height
<1>1. /\ W \in Nat /\ W > 1 /\ 0 \in Slots /\ W - 1 \in Slots /\ h \in Slots
      /\ h \in Nat /\ h <= W - 1 /\ now \in Nat
      /\ data \in [Slots -> DifficultyAndTimestamp]
  BY WindowAssumption DEF IInv, TypeOK, Slots, W
<1>2. \A i \in Slots : i \in Nat /\ i <= W - 1 /\ t(i) \in Nat /\ t(i) <= now
  BY <1>1 DEF IInv, RingInOrder, DifficultyAndTimestamp, Slots
<1>3. MinimumPeriod \in Nat
  BY TimeAssumption
<1>4. \A i, j \in Slots : (j < h \/ h <= i) /\ i < j => t(i) <= t(j)
  <2>1. \A i, j \in Slots : (j < h \/ h <= i) /\ i < j
                            => t(i) + MinimumPeriod <= t(j)
    BY DEF IInv, RingInOrder
  <2> QED BY <2>1, <1>2, <1>3
<1>5. \A i, j \in Slots : i < h /\ h <= j => t(j) <= t(i)
  <2>1. \A i, j \in Slots : i < h /\ h <= j => t(j) + MinimumPeriod <= t(i)
    BY DEF IInv, RingInOrder
  <2> QED BY <2>1, <1>2, <1>3
<1>6. PICK s \in [Slots -> Nat] :
        /\ s[0] = 0 /\ \A i \in 1..W-1 : s[i] = s[i-1] + Delta(data, i)
        /\ TsDelta(data) = s[W-1]
  BY <1>1, TsDeltaIsSum
<1>7. \A i \in 1..W-1 :
        /\ i \in Slots /\ i - 1 \in Slots /\ Delta(data, i) \in Nat
        /\ t(i) >= t(i-1) => 1000 * Delta(data, i) <= t(i) - t(i-1)
        /\ t(i) < t(i-1) => Delta(data, i) = 0
  <2> SUFFICES ASSUME NEW i \in 1..W-1
               PROVE  /\ i \in Slots /\ i - 1 \in Slots /\ Delta(data, i) \in Nat
                      /\ t(i) >= t(i-1) => 1000 * Delta(data, i) <= t(i) - t(i-1)
                      /\ t(i) < t(i-1) => Delta(data, i) = 0
    OBVIOUS
  <2>1. i \in Slots /\ i - 1 \in Slots
    BY <1>1 DEF Slots
  <2>2. LET e == data[i].timestamp - data[i-1].timestamp IN
        /\ Delta(data, i) \in Nat
        /\ e >= 0 => 1000 * Delta(data, i) <= e
        /\ e < 0 => Delta(data, i) = 0
    BY <1>1, <2>1, DeltaOfSlots
  <2> QED BY <2>1, <2>2, <1>2
<1> DEFINE Bound(i) == IF i < h \/ h = 0 THEN t(i) - t(0)
                       ELSE t(h-1) - t(0) + t(i) - t(h)
           G == {i \in Slots : 1000 * s[i] <= Bound(i)}
<1>8. 0 \in G
  BY <1>1, <1>2, <1>6
<1>9. ASSUME NEW i \in 1..W-1, i - 1 \in G PROVE i \in G
  <2> HIDE DEF t
  <2>1. i \in Slots /\ i - 1 \in Slots /\ s[i] \in Nat /\ s[i-1] \in Nat
    BY <1>6, <1>7
  <2>2. s[i] = s[i-1] + Delta(data, i) /\ Delta(data, i) \in Nat
    BY <1>6, <1>7
  <2>3. i \in Nat /\ t(i) \in Nat /\ t(i-1) \in Nat /\ t(0) \in Nat /\ t(h) \in Nat
    BY <1>1, <1>2, <2>1
  <2>4. 1000 * s[i-1] <= Bound(i - 1)
    BY <1>9
  <2>5. CASE i < h \/ h = 0 \/ h < i
    <3>1. t(i-1) <= t(i)
      BY <1>1, <1>4, <2>1, <2>3, <2>5
    <3>2. 1000 * Delta(data, i) <= t(i) - t(i-1)
      BY <1>7, <3>1, <2>3
    <3>3. h # 0 => t(h-1) \in Nat
      BY <1>1, <1>2 DEF Slots
    <3>4. 1000 * s[i] <= Bound(i)
      BY <3>2, <3>3, <2>1, <2>2, <2>3, <2>4, <2>5, <1>1
    <3> QED BY <3>4, <2>1
  <2>6. CASE i = h /\ h # 0
    <3>1. t(i) <= t(i-1)
      BY <1>1, <1>5, <2>1, <2>3, <2>6
    <3>2. 1000 * Delta(data, i) <= 0
      BY <1>7, <3>1, <2>2, <2>3
    <3>3. 1000 * s[i] <= Bound(i)
      BY <3>2, <2>1, <2>2, <2>3, <2>4, <2>6, <1>1
    <3> QED BY <3>3, <2>1
  <2> QED BY <2>3, <2>5, <2>6, <1>1
<1>10. W - 1 \in G
  <2> HIDE DEF G
  <2> QED BY <1>1, <1>8, <1>9, SlotInduction
<1>11. 1000 * s[W-1] <= now - t(h)
  <2>1. 1000 * s[W-1] <= Bound(W-1)
    BY <1>10
  <2>2. t(0) \in Nat /\ t(h) \in Nat /\ t(W-1) \in Nat /\ t(W-1) <= now
        /\ s[W-1] \in Nat
    BY <1>1, <1>2, <1>6
  <2> HIDE DEF t
  <2>3. CASE h = 0
    BY <2>1, <2>2, <2>3, <1>1
  <2>4. CASE h # 0
    <3>1. t(W-1) <= t(0)
      BY <2>4, <1>1, <1>5
    <3>2. h - 1 \in Slots
      BY <2>4, <1>1 DEF Slots
    <3>3. t(h-1) \in Nat /\ t(h-1) <= now
      BY <3>2, <1>2
    <3> QED BY <2>1, <2>2, <2>4, <3>1, <3>3, <1>1
  <2> QED BY <2>3, <2>4
<1>12. W * AvgBlocktime <= s[W-1] /\ AvgBlocktime \in Nat
  <2>1. AvgBlocktime = s[W-1] \div W /\ s[W-1] \in Nat
    BY <1>1, <1>6 DEF AvgBlocktime
  <2> QED BY <2>1, <1>1
<1>13. 1000 * (W * AvgBlocktime) <= now - t(h)
  <2>1. W * AvgBlocktime \in Nat /\ s[W-1] \in Nat /\ t(h) \in Nat
    BY <1>1, <1>2, <1>6, <1>12
  <2> QED BY <2>1, <1>1, <1>11, <1>12
<1>14. 1000 * W * AvgBlocktime = 1000 * (W * AvgBlocktime)
  BY <1>1, <1>12
<1> QED BY <1>13, <1>14

(* The average block time the RPC reports never exceeds what the clock     *)
(* shows, at any height of the ring, also when it mixes two windows.       *)
THEOREM AvgIsNotOverstated == Spec => []AvgNotOverstated
BY InitIInv, NextIInv, RingBoundsAvg, PTL DEF Spec

-----------------------------------------------------------------------------
(***************************************************************************)
(* The direction of an adjustment.  What the ring holds of the current     *)
(* window is tied to the gaps between its blocks: the last slot filled has *)
(* the timestamp of the last block, and every other gap is a difference of *)
(* neighbours.  W slots make W - 1 gaps and the target is that of W        *)
(* blocks, so a window on target measures W - 1 block times against W:     *)
(* from 7 slots on (the code has 60) this ratio is too small for clamp.    *)
(***************************************************************************)
GapsInRing ==
    /\ height > 0 => data[height-1].timestamp = now
    /\ \A i \in 1..height-1 : data[i].timestamp - data[i-1].timestamp \in gaps

LEMMA InitGaps == Init => GapsInRing
BY DEF Init, GapsInRing

(* After a block, the ring as it was before `height' is set back.          *)
LEMMA GapsAfterBlock ==
    ASSUME IInv, GapsInRing, NEW gap \in Gaps, Block(gap)
    PROVE  /\ data'[height].timestamp = now'
           /\ \A i \in 1..height :
                data'[i].timestamp - data'[i-1].timestamp \in gaps'
<1>1. /\ data' = [data EXCEPT ![height] = Slot(now')] /\ now' = now + gap
      /\ gaps' = IF height = 0 THEN {} ELSE gaps \cup {gap}
  BY DEF Block, Record, Retarget
<1>2. /\ data \in [Slots -> DifficultyAndTimestamp] /\ height \in Slots
      /\ height \in Nat /\ now \in Nat /\ gap \in Nat
  BY TimeAssumption, WindowAssumption DEF IInv, TypeOK, Slots, W
<1>3. data'[height].timestamp = now'
  BY <1>1, <1>2 DEF Slot
<1>4. ASSUME NEW i \in 1..height
      PROVE  data'[i].timestamp - data'[i-1].timestamp \in gaps'
  <2>1. i - 1 \in Slots /\ i - 1 # height /\ height # 0
    BY <1>2, WindowAssumption DEF Slots, W
  <2>2. data'[i-1] = data[i-1]
    BY <1>1, <1>2, <2>1
  <2>3. CASE i = height
    <3>1. data[i-1].timestamp = now
      BY <2>1, <2>3, <1>2 DEF GapsInRing
    <3>2. data'[i].timestamp - data'[i-1].timestamp = gap
      BY <3>1, <2>2, <2>3, <1>1, <1>2, <1>3
    <3> QED BY <3>2, <2>1, <1>1
  <2>4. CASE i # height
    <3>1. i \in 1..height-1 /\ i \in Slots
      BY <2>4, <1>2, WindowAssumption DEF Slots, W
    <3>2. data'[i] = data[i]
      BY <3>1, <2>4, <1>1, <1>2
    <3> QED BY <3>1, <3>2, <2>1, <2>2, <1>1 DEF GapsInRing
  <2> QED BY <2>3, <2>4
<1> QED BY <1>3, <1>4

LEMMA NextGaps == IInv /\ GapsInRing /\ [Next]_vars => GapsInRing'
<1> SUFFICES ASSUME IInv, GapsInRing, [Next]_vars PROVE GapsInRing'
  OBVIOUS
<1>1. CASE UNCHANGED vars
  BY <1>1 DEF vars, GapsInRing
<1>2. ASSUME NEW gap \in Gaps, Block(gap) PROVE GapsInRing'
  <2>1. height \in Nat
    BY WindowAssumption DEF IInv, TypeOK, Slots, W
  <2>2. CASE Record(now')
    <3>1. height' = height + 1
      BY <2>2 DEF Record
    <3> QED BY <1>2, <2>1, <3>1, GapsAfterBlock DEF GapsInRing
  <2>3. CASE Retarget(now')
    BY <2>3 DEF Retarget, GapsInRing
  <2> QED BY <1>2, <2>2, <2>3 DEF Block
<1> QED BY <1>1, <1>2 DEF Next

(* The dead band of clamp: a measured time of at least W - 1 block times   *)
(* is not too short, one of at most W block times is not too long.         *)
LEMMA DeadBand ==
    ASSUME W >= 7, NEW m \in Nat
    PROVE  /\ m >= TargetBlockTime * (W - 1) => ~MayExceed(TargetBlockTime * W, m)
           /\ m <= TargetBlockTime * W => ~MayExceed(m, TargetBlockTime * W)
<1>1. TargetBlockTime \in Nat /\ TargetBlockTime > 0 /\ W \in Nat
  BY TimeAssumption, WindowAssumption DEF W
<1> DEFINE T == TargetBlockTime
           a == T * W
           b == T * (W - 1)
<1>2. a \in Nat /\ b \in Nat /\ a > 0 /\ b > 0 /\ a = b + T /\ b >= 6 * T
  BY <1>1
<1> HIDE DEF a, b, T
<1>3. 6 * a <= 7 * b /\ T \in Nat
  BY <1>1, <1>2 DEF T
<1>4. ASSUME m >= b PROVE ~(1000 * a * a >= 1405 * m * m)
  <2>1. 36 * (a * a) <= 49 * (b * b)
    <3>1. (6 * a) * (6 * a) <= (7 * b) * (7 * b)
      <4> DEFINE x == 6 * a
                 y == 7 * b
      <4>1. x \in Nat /\ y \in Nat /\ x <= y
        BY <1>2, <1>3
      <4> HIDE DEF x, y
      <4>2. x * x <= x * y /\ x * y <= y * y
        BY <4>1
      <4>3. x * x \in Nat /\ x * y \in Nat /\ y * y \in Nat
        BY <4>1
      <4> QED BY <4>2, <4>3 DEF x, y
    <3> QED BY <3>1, <1>2
  <2>2. b * b <= m * m /\ b * b > 0
    BY <1>2, <1>4
  <2>3. a * a \in Nat /\ b * b \in Nat /\ m * m \in Nat
    BY <1>2
  <2>4. 1000 * (a * a) < 1405 * (m * m)
    BY <2>1, <2>2, <2>3
  <2> QED BY <2>4, <1>2
<1>5. ASSUME m <= a PROVE ~(1000 * m * m >= 1405 * a * a)
  <2>1. m * m <= a * a /\ a * a > 0
    BY <1>2, <1>5
  <2>2. m * m \in Nat /\ a * a \in Nat
    BY <1>2
  <2>3. 1000 * (m * m) < 1405 * (a * a)
    BY <2>1, <2>2
  <2> QED BY <2>3, <1>2
<1> QED BY <1>4, <1>5 DEF MayExceed, a, b, T

(* What a full window measures when all its gaps are long, or all short.   *)
LEMMA WindowMeasures ==
    ASSUME NEW d \in [Slots -> DifficultyAndTimestamp],
           \A i \in Slots : d[i] # NoSlot, NEW gs,
           \A g \in gs : g \in Nat,
           \A i \in 1..W-1 : d[i].timestamp - d[i-1].timestamp \in gs
    PROVE  /\ TsDelta(d) \in Nat
           /\ (\A g \in gs : g >= 1000 * TargetBlockTime) =>
                TsDelta(d) >= TargetBlockTime * (W - 1)
           /\ (\A g \in gs : g <= 1000 * TargetBlockTime) =>
                TsDelta(d) <= TargetBlockTime * (W - 1)
<1> DEFINE T == TargetBlockTime
<1>1. T \in Nat /\ W \in Nat /\ W > 1 /\ 0 \in Slots /\ W - 1 \in Slots
      /\ \A i \in 1..W-1 : i \in Slots /\ i - 1 \in Slots /\ i \in Nat
  BY TimeAssumption, WindowAssumption DEF W, Slots
<1>2. PICK s \in [Slots -> Nat] :
        /\ s[0] = 0 /\ \A i \in 1..W-1 : s[i] = s[i-1] + Delta(d, i)
        /\ TsDelta(d) = s[W-1]
  BY TsDeltaIsSum
<1>3. ASSUME NEW i \in 1..W-1
      PROVE  /\ Delta(d, i) \in Nat
             /\ (\A g \in gs : g >= 1000 * T) => Delta(d, i) >= T
             /\ (\A g \in gs : g <= 1000 * T) => Delta(d, i) <= T
  <2> DEFINE t == d[i].timestamp - d[i-1].timestamp
  <2>1. t \in gs /\ t \in Nat
    OBVIOUS
  <2>2. /\ Delta(d, i) \in Nat
        /\ t >= 0 => 1000 * Delta(d, i) <= t /\ t < 1000 * Delta(d, i) + 1000
    BY <1>1, DeltaOfSlots
  <2> HIDE DEF t
  <2> QED BY <1>1, <2>1, <2>2
<1>4. ASSUME NEW i \in 1..W-1 PROVE T * i = T * (i - 1) + T
  BY <1>1
<1>5. ASSUME \A g \in gs : g >= 1000 * T PROVE s[W-1] >= T * (W - 1)
  <2> DEFINE G == {i \in Slots : s[i] >= T * i}
  <2>1. 0 \in G
    BY <1>1, <1>2
  <2>2. ASSUME NEW i \in 1..W-1, i - 1 \in G PROVE i \in G
    <3>1. s[i] = s[i-1] + Delta(d, i) /\ s[i-1] >= T * (i - 1)
      BY <1>2, <2>2
    <3>2. Delta(d, i) >= T /\ Delta(d, i) \in Nat
      BY <1>3, <1>5
    <3>3. T * (i - 1) \in Nat /\ s[i-1] \in Nat /\ i \in Slots
      BY <1>1, <1>2
    <3>4. s[i] >= T * i
      BY <3>1, <3>2, <3>3, <1>1, <1>4
    <3> QED BY <3>3, <3>4
  <2>3. W - 1 \in G
    <3> HIDE DEF G
    <3> QED BY <1>1, <2>1, <2>2, SlotInduction
  <2> QED BY <2>3
<1>6. ASSUME \A g \in gs : g <= 1000 * T PROVE s[W-1] <= T * (W - 1)
  <2> DEFINE G == {i \in Slots : s[i] <= T * i}
  <2>1. 0 \in G
    BY <1>1, <1>2
  <2>2. ASSUME NEW i \in 1..W-1, i - 1 \in G PROVE i \in G
    <3>1. s[i] = s[i-1] + Delta(d, i) /\ s[i-1] <= T * (i - 1)
      BY <1>2, <2>2
    <3>2. Delta(d, i) <= T /\ Delta(d, i) \in Nat
      BY <1>3, <1>6
    <3>3. T * (i - 1) \in Nat /\ s[i-1] \in Nat /\ i \in Slots
      BY <1>1, <1>2
    <3>4. s[i] <= T * i
      BY <3>1, <3>2, <3>3, <1>1, <1>4
    <3> QED BY <3>3, <3>4
  <2>3. W - 1 \in G
    <3> HIDE DEF G
    <3> QED BY <1>1, <2>1, <2>2, SlotInduction
  <2> QED BY <2>3
<1> QED BY <1>1, <1>2, <1>5, <1>6

(* Which way a step of clamp takes the difficulty.                         *)
LEMMA AdjustedDirection ==
    ASSUME TypeOK, NEW s \in {-1, 0, 1}
    PROVE  /\ Adjusted(s) > difficulty => s = 1
           /\ Adjusted(s) < difficulty => s = -1
BY DifficultyAssumption DEF Adjusted, TypeOK

(* A full window with no fast gap measures too much for clamp to answer 1, *)
(* one with no slow gap too little for it to answer -1.                    *)
LEMMA StepAdjusts ==
    ASSUME W >= 7, IInv, GapsInRing, [Next]_vars
    PROVE  [ /\ difficulty' # difficulty => height = W - 1
             /\ difficulty' > difficulty =>
                   \E g \in gaps' : g < 1000 * TargetBlockTime
             /\ difficulty' < difficulty =>
                   \E g \in gaps' : g > 1000 * TargetBlockTime ]_vars
<1> DEFINE T == TargetBlockTime
           A == /\ difficulty' # difficulty => height = W - 1
                /\ difficulty' > difficulty => \E g \in gaps' : g < 1000 * T
                /\ difficulty' < difficulty => \E g \in gaps' : g > 1000 * T
<1>1. difficulty \in Nat
  BY DifficultyAssumption DEF IInv, TypeOK
<1>2. ASSUME NEW gap \in Gaps, Block(gap), Record(now') PROVE A
  BY <1>1, <1>2 DEF Record
<1>3. ASSUME NEW gap \in Gaps, Block(gap), Retarget(now') PROVE A
  <2> DEFINE m == Max({TsDelta(data'), 1})
  <2>1. height = W - 1 /\ IInv'
    BY <1>3, RetargetPreservesIInv DEF Retarget
  <2>2. PICK s \in Clamp(T * W, m) : difficulty' = Adjusted(s)
    BY <1>3 DEF Retarget
  <2>3. /\ s \in {-1, 0, 1}
        /\ s = 1 => MayExceed(T * W, m)
        /\ s = -1 => MayExceed(m, T * W)
    BY DEF Clamp
  <2>4. /\ data' \in [Slots -> DifficultyAndTimestamp]
        /\ \A g \in gaps' : g \in Nat
    BY <2>1, TimeAssumption DEF IInv, TypeOK
  <2>5. \A i \in Slots : data'[i] # NoSlot
    <3>1. \A i \in Slots : i # height => data'[i] = data[i] /\ i < height
      BY <1>3, <2>1, WindowAssumption DEF Retarget, IInv, TypeOK, Slots, W
    <3>2. data'[height] = Slot(now') /\ Slot(now') # NoSlot
      BY <1>1, <1>3, DifficultyAssumption
         DEF Retarget, IInv, TypeOK, Slot, NoSlot
    <3> QED BY <3>1, <3>2, WindowFilled
  <2>6. \A i \in 1..W-1 : data'[i].timestamp - data'[i-1].timestamp \in gaps'
    BY <1>3, <2>1, GapsAfterBlock
  <2>7. /\ TsDelta(data') \in Nat
        /\ (\A g \in gaps' : g >= 1000 * T) => TsDelta(data') >= T * (W - 1)
        /\ (\A g \in gaps' : g <= 1000 * T) => TsDelta(data') <= T * (W - 1)
    BY <2>4, <2>5, <2>6, WindowMeasures
  <2>8. /\ m \in Nat /\ m >= TsDelta(data')
        /\ m = TsDelta(data') \/ m = 1
    BY <2>7 DEF Max
  <2>9. /\ T \in Nat /\ T > 0 /\ W \in Nat
        /\ T * (W - 1) <= T * W /\ 1 <= T * W
        /\ T * (W - 1) \in Nat /\ T * W \in Nat
    BY TimeAssumption, WindowAssumption DEF W
  <2> HIDE DEF m, T
  <2>10. /\ m >= T * (W - 1) => ~MayExceed(T * W, m)
         /\ m <= T * W => ~MayExceed(m, T * W)
    BY <2>8, DeadBand DEF T
  <2>11. /\ difficulty' > difficulty => s = 1
         /\ difficulty' < difficulty => s = -1
    BY <2>2, <2>3, AdjustedDirection DEF IInv
  <2>12. ASSUME difficulty' > difficulty
         PROVE  \E g \in gaps' : g < 1000 * T
    <3>1. ~(m >= T * (W - 1))
      BY <2>3, <2>10, <2>11, <2>12
    <3>2. ~(TsDelta(data') >= T * (W - 1))
      BY <3>1, <2>7, <2>8, <2>9
    <3> QED BY <3>2, <2>4, <2>7, <2>9
  <2>13. ASSUME difficulty' < difficulty
         PROVE  \E g \in gaps' : g > 1000 * T
    <3>1. ~(m <= T * W)
      BY <2>3, <2>10, <2>11, <2>13
    <3>2. ~(TsDelta(data') <= T * (W - 1))
      BY <3>1, <2>7, <2>8, <2>9
    <3> QED BY <3>2, <2>4, <2>7, <2>9
  <2> QED BY <2>1, <2>12, <2>13
<1>4. CASE UNCHANGED vars
  BY <1>4
<1> QED BY <1>2, <1>3, <1>4 DEF Next, Block

(* The difficulty rises only after a window with a block faster than the   *)
(* target, falls only after one with a slower block, and moves only at the *)
(* end of a window: on_timestamp_set leaves a chain on target alone, for   *)
(* every window of 7 slots or more, and so for the 60 of the code.         *)
THEOREM AdjustmentIsJustified ==
    ASSUME W >= 7
    PROVE  Spec => AdjustsTowardsTarget
<1>1. Spec => [](IInv /\ GapsInRing)
  <2>1. Init => IInv /\ GapsInRing
    BY InitIInv, InitGaps
  <2>2. IInv /\ GapsInRing /\ [Next]_vars => (IInv /\ GapsInRing)'
    BY NextIInv, NextGaps
  <2> QED BY <2>1, <2>2, PTL DEF Spec
<1>2. IInv /\ GapsInRing /\ [Next]_vars =>
        [ /\ difficulty' # difficulty => height = W - 1
          /\ difficulty' > difficulty =>
                \E g \in gaps' : g < 1000 * TargetBlockTime
          /\ difficulty' < difficulty =>
                \E g \in gaps' : g > 1000 * TargetBlockTime ]_vars
  BY StepAdjusts
<1> QED BY <1>1, <1>2, PTL DEF Spec, AdjustsTowardsTarget
=============================================================================
