--------------------------- MODULE DifficultyPallet ---------------------------
(***************************************************************************)
(* The difficulty pallet (pallets/difficulty/src/lib.rs): the runtime      *)
(* calls on_timestamp_set once per block with the block's timestamp; the   *)
(* pallet keeps the last window of timestamps in a ring and re-targets the *)
(* difficulty whenever the ring is full.  The timestamp pallet that makes  *)
(* the call is library code: it accepts a moment that is at least          *)
(* MinimumPeriod later than the last one.                                  *)
(***************************************************************************)
EXTENDS Integers, FiniteSetsExt

CONSTANTS
    DIFFICULTY_ADJUST_WINDOW,  \* slots of the ring
    TargetBlockTime,           \* seconds, as the runtime configures it
    MinimumPeriod,             \* milliseconds between two timestamps
    CLAMP_FACTOR,
    MIN_DIFFICULTY,
    MAX_DIFFICULTY,
    InitialDifficulties,       \* what genesis may configure
    Gaps,                      \* milliseconds that may pass between blocks
    MaxBlocks                  \* bound: blocks executed

ASSUME WindowAssumption == DIFFICULTY_ADJUST_WINDOW \in Nat \ {0, 1}
ASSUME TimeAssumption ==
    /\ TargetBlockTime \in Nat \ {0}
    /\ MinimumPeriod \in Nat \ {0}
    /\ Gaps \subseteq Nat
    /\ \A g \in Gaps : g >= MinimumPeriod
    /\ MaxBlocks \in Nat
ASSUME DifficultyAssumption ==
    /\ MIN_DIFFICULTY \in Nat \ {0}
    /\ MAX_DIFFICULTY \in Nat
    /\ MIN_DIFFICULTY <= MAX_DIFFICULTY
    /\ InitialDifficulties \subseteq MIN_DIFFICULTY..MAX_DIFFICULTY
    /\ CLAMP_FACTOR \in 1..MIN_DIFFICULTY

W == DIFFICULTY_ADJUST_WINDOW
Slots == 0..W-1

(* A slot that was never written (None); no difficulty is 0.               *)
NoSlot == [difficulty |-> 0, timestamp |-> 0]

DifficultyAndTimestamp == [difficulty : Nat, timestamp : Nat]

VARIABLES
    data,        \* PastDifficultiesAndTimestamps
    height,      \* CurrentHeight: the slot of the next block
    difficulty,  \* CurrentDifficulty
    now,         \* the timestamp of the last block, 0 at genesis
    blocks,      \* blocks executed so far
    gaps         \* history: the gaps between blocks of the current window

vars == <<data, height, difficulty, now, blocks, gaps>>

TypeOK ==
    /\ data \in [Slots -> DifficultyAndTimestamp]
    /\ height \in Slots
    /\ difficulty \in MIN_DIFFICULTY..MAX_DIFFICULTY
    /\ now \in Nat
    /\ blocks \in 0..MaxBlocks
    /\ gaps \subseteq Gaps

(* Genesis stores the configured initial difficulty.                       *)
Init ==
    /\ data = [i \in Slots |-> NoSlot]
    /\ height = 0
    /\ difficulty \in InitialDifficulties
    /\ now = 0
    /\ blocks = 0
    /\ gaps = {}

-----------------------------------------------------------------------------
(* Mutant: the distance of two timestamps, whatever their order.           *)
DeltaAbsolute(d, i) ==
    IF d[i-1] = NoSlot \/ d[i] = NoSlot
      THEN TargetBlockTime
      ELSE Max({d[i].timestamp - d[i-1].timestamp,
                d[i-1].timestamp - d[i].timestamp}) \div 1000

(* Whole seconds between slots i-1 and i; the subtraction saturates.       *)
Delta(d, i) ==
    IF d[i-1] = NoSlot \/ d[i] = NoSlot
      THEN TargetBlockTime
      ELSE Max({d[i].timestamp - d[i-1].timestamp, 0}) \div 1000

(* The loop over the ring: the seconds from the first slot to the last.    *)
TsDelta(d) ==
    LET ts_delta[i \in Slots] ==
            IF i = 0 THEN 0 ELSE ts_delta[i-1] + Delta(d, i)
    IN  ts_delta[W-1]

(***************************************************************************)
(* The sign of clamp(target, measured), which is all that is used of it:   *)
(* log2((target/measured)^2) rounded is 1 or more when the square of the   *)
(* ratio is at least sqrt(2).  fast_math::log2 is off by less than 0.009,  *)
(* so squares between 2^0.491 and 2^0.509 may round either way.            *)
(***************************************************************************)
MayExceed(t, m) == 1000 * t * t >= 1405 * m * m
MustExceed(t, m) == 1000 * t * t >= 1424 * m * m

Clamp(target, measured) ==
    {s \in {-1, 0, 1} :
        /\ s = 1  => MayExceed(target, measured)
        /\ s = -1 => MayExceed(measured, target)
        /\ s = 0  => /\ ~MustExceed(target, measured)
                     /\ ~MustExceed(measured, target)}

(* Mutant: the adjustment goes the wrong way.                              *)
AdjustedBackwards(s) ==
    LET d == difficulty - s * CLAMP_FACTOR
    IN  IF d < MIN_DIFFICULTY THEN MIN_DIFFICULTY
        ELSE IF d > MAX_DIFFICULTY THEN MAX_DIFFICULTY ELSE d

(* Mutant: no upper limit.                                                 *)
AdjustedUnlimited(s) ==
    LET d == difficulty + s * CLAMP_FACTOR
    IN  IF d < MIN_DIFFICULTY THEN MIN_DIFFICULTY ELSE d

(* One step in the direction of the sign, kept within the limits.          *)
Adjusted(s) ==
    LET d == difficulty + s * CLAMP_FACTOR
    IN  IF d < MIN_DIFFICULTY THEN MIN_DIFFICULTY
        ELSE IF d > MAX_DIFFICULTY THEN MAX_DIFFICULTY ELSE d

Slot(moment) == [difficulty |-> difficulty, timestamp |-> moment]

(* The ring is not full yet: the block takes its slot.                     *)
Record(moment) ==
    /\ height < W - 1
    /\ data' = [data EXCEPT ![height] = Slot(moment)]
    /\ height' = height + 1
    /\ UNCHANGED difficulty

(* Mutant: the ring is not rewound after an adjustment.                    *)
RetargetOffByOne(moment) ==
    /\ height = W - 1
    /\ data' = [data EXCEPT ![height] = Slot(moment)]
    /\ height' = 1
    /\ LET measured == Max({TsDelta(data'), 1}) IN
         \E s \in Clamp(TargetBlockTime * W, measured) :
            difficulty' = Adjusted(s)

(* The last slot of the ring: adjust the difficulty, start a new window.   *)
Retarget(moment) ==
    /\ height = W - 1
    /\ data' = [data EXCEPT ![height] = Slot(moment)]
    /\ height' = 0
    /\ LET measured == Max({TsDelta(data'), 1}) IN
         \E s \in Clamp(TargetBlockTime * W, measured) :
            difficulty' = Adjusted(s)

(* A block is executed: the timestamp inherent sets the moment and calls   *)
(* on_timestamp_set, once.                                                 *)
Block(gap) ==
    /\ blocks < MaxBlocks
    /\ now' = now + gap
    /\ blocks' = blocks + 1
    /\ gaps' = IF height = 0 THEN {} ELSE gaps \cup {gap}
    /\ Record(now') \/ Retarget(now')

Next == \E gap \in Gaps : Block(gap)

Spec == Init /\ [][Next]_vars

(* get_avg_blocktime, which the RPC calls at any height.                   *)
AvgBlocktime == TsDelta(data) \div W

-----------------------------------------------------------------------------
(* The ring holds one window and the rest of the window before it: the     *)
(* slots below height are in order and later than all the others, the      *)
(* others are in order and all of them, or none, are filled.               *)
RingInOrder ==
    /\ \A i, j \in Slots :
        /\ j < height \/ (height <= i /\ data[j] # NoSlot)
        /\ i < j
        => data[i] # NoSlot /\
           data[i].timestamp + MinimumPeriod <= data[j].timestamp
    /\ \A i, j \in Slots :
        i < height /\ height <= j /\ data[j] # NoSlot
        => data[j].timestamp + MinimumPeriod <= data[i].timestamp
    /\ \A i \in Slots : data[i] # NoSlot => data[i].timestamp <= now

(* The difficulty of a window is constant: every slot filled in the        *)
(* current window carries the difficulty in force, which is what the next  *)
(* adjustment starts from.                                                 *)
WindowSharesDifficulty ==
    \A i \in Slots : i < height => data[i].difficulty = difficulty

(* The average block time the RPC reports, also in the middle of a window  *)
(* when the ring mixes two windows, never exceeds what the clock shows:    *)
(* W averages fit into the time since the oldest slot.                     *)
AvgNotOverstated ==
    (\A i \in Slots : data[i] # NoSlot) =>
        1000 * W * AvgBlocktime <= now - data[height].timestamp

(* The difficulty changes only when a window ends, and it rises only if    *)
(* some block of that window came faster than the target, falls only if    *)
(* some block came slower: a chain on target is left alone.                *)
AdjustsTowardsTarget ==
    [][ /\ difficulty' # difficulty => height = W - 1
        /\ difficulty' > difficulty =>
              \E g \in gaps' : g < 1000 * TargetBlockTime
        /\ difficulty' < difficulty =>
              \E g \in gaps' : g > 1000 * TargetBlockTime ]_vars

-----------------------------------------------------------------------------
(* What a miner does with the difficulty: try_cpu_mining takes the key at  *)
(* index difficulty - MIN_DIFFICULTY of a keychain with one key for every  *)
(* entry of RawKeySeeds.                                                   *)
KeychainIndices == 0..(MAX_DIFFICULTY - MIN_DIFFICULTY) - 1

KeyIndex == difficulty - MIN_DIFFICULTY

(* Up to the maximum difficulty there is a key to mine with.               *)
EveryDifficultyHasKey == KeyIndex \in KeychainIndices
=============================================================================
