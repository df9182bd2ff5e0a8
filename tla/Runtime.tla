------------------------------- MODULE Runtime -------------------------------
(***************************************************************************)
(* How runtime/src/lib.rs puts the pallets together.  The executive        *)
(* executes a block in order: on_initialize, the timestamp inherent, the   *)
(* extrinsics, on_finalize.  The difficulty and rewards pallets are the    *)
(* modules of their own; the two small pallets are modelled here:          *)
(* pallets/storage/src/lib.rs and pallets/trex/src/lib.rs.  The executive, *)
(* the timestamp pallet and the sudo pallet, which turns a call of the key *)
(* holder into a call with root origin, are library code; fees, nonces and *)
(* weights are left out.                                                   *)
(*                                                                         *)
(* Events last for one block.  `follower' is an observer that is given     *)
(* only the events of every finished block.                                *)
(***************************************************************************)
EXTENDS Integers, FiniteSets, Sequences, FiniteSetsExt

CONSTANTS
    DIFFICULTY_ADJUST_WINDOW, TargetBlockTime, MinimumPeriod, CLAMP_FACTOR,
    MIN_DIFFICULTY, MAX_DIFFICULTY, InitialDifficulties, Gaps,
    Accounts, NoAuthor, Heights, Amounts, MinimumBalance, GenesisReward,
    MaxBlocks,     \* bound: blocks executed
    MaxCalls,      \* bound: extrinsics in one block
    Signers,       \* accounts that sign extrinsics
    Root,          \* the origin of a call made through sudo
    Values,        \* arguments of set_thing_1 and set_thing_2
    Ciphers,       \* cipher lists
    U32            \* 2^32

ASSUME PalletsAssumption ==
    /\ DIFFICULTY_ADJUST_WINDOW \in Nat \ {0, 1}
    /\ TargetBlockTime \in Nat \ {0} /\ MinimumPeriod \in Nat \ {0}
    /\ Gaps \subseteq Nat /\ \A g \in Gaps : g >= MinimumPeriod
    /\ MIN_DIFFICULTY \in Nat \ {0} /\ MAX_DIFFICULTY \in Nat
    /\ MIN_DIFFICULTY <= MAX_DIFFICULTY
    /\ InitialDifficulties \subseteq MIN_DIFFICULTY..MAX_DIFFICULTY
    /\ CLAMP_FACTOR \in 1..MIN_DIFFICULTY
    /\ NoAuthor \notin Accounts
    /\ Amounts \subseteq Nat /\ Heights \subseteq Nat
    /\ MinimumBalance \in Nat \ {0}
    /\ GenesisReward \in Nat /\ GenesisReward >= MinimumBalance
ASSUME CallsAssumption ==
    /\ MaxBlocks \in Nat /\ MaxCalls \in Nat
    /\ U32 \in Nat \ {0} /\ Values \subseteq 0..U32-1

Origins == Signers \cup {Root}

SignedCalls == {"set_thing_1", "set_thing_2", "cause_error", "send_trex_data"}

(* A storage value that was never put.                                     *)
Empty == -1

NoRecord == [cipher_list |-> Empty, from |-> Root]
TREXData == [cipher_list : Ciphers, from : Signers]

VARIABLES
    data, height, difficulty, moment, stamps, gaps,         \* difficulty
    number, open, digest, schedule, balance,                \* rewards
    author, reward, rewardChanges,
    something, thing1, thing2,                              \* storage
    trex,                                                   \* TREXStorage
    stamped,       \* DidUpdate of the timestamp pallet
    calls,         \* extrinsics dispatched in this block
    events,        \* the events of this block, oldest first
    follower       \* what the observer believes the storage holds

difficultyVars == <<data, height, difficulty, moment, stamps, gaps>>
rewardsVars == <<number, open, digest, schedule, balance, author, reward,
                 rewardChanges>>
storageVars == <<something, thing1, thing2>>
blockVars == <<stamped, calls, events>>
vars == <<difficultyVars, rewardsVars, storageVars, trex, blockVars, follower>>

Difficulty == INSTANCE DifficultyPallet WITH now <- moment, blocks <- stamps
Rewards == INSTANCE RewardsPallet WITH now <- number

(* Mutant: the sum does not fit its type.                                  *)
GetSumWide == thing1 + thing2

(* get_sum of the storage pallet: an addition of u32 in the runtime, which *)
(* is built without overflow checks.                                       *)
GetSum == (thing1 + thing2) % U32

TypeOK ==
    /\ Difficulty!TypeOK
    /\ Rewards!TypeOK
    /\ something \in {Empty} \cup 0..U32-1
    /\ thing1 \in 0..U32-1 /\ thing2 \in 0..U32-1 /\ GetSum \in 0..U32-1
    /\ trex \in TREXData \cup {NoRecord}
    /\ stamped \in BOOLEAN
    /\ calls \in 0..MaxCalls

(* testnet_genesis: difficulty and reward are configured, the rest of the  *)
(* storage is at its defaults.                                             *)
Init ==
    /\ Difficulty!Init
    /\ Rewards!Init
    /\ something = Empty /\ thing1 = 0 /\ thing2 = 0
    /\ trex = NoRecord
    /\ stamped = FALSE /\ calls = 0 /\ events = <<>>
    /\ follower = [reward |-> GenesisReward, thing1 |-> 0, thing2 |-> 0,
                   trex |-> NoRecord]

-----------------------------------------------------------------------------
Event(key, value) == [key |-> key, value |-> value]

(* The element of S that has i - 1 smaller ones.                           *)
Nth(S, i) == CHOOSE k \in S : Cardinality({j \in S : j < k}) = i - 1

(* The RewardChanged events of on_initialize: one for every change that is *)
(* due, in ascending order.                                                *)
ChangesDue(m) ==
    LET due == Rewards!Due(rewardChanges, m)
    IN  [i \in 1..Cardinality(due) |->
           Event("reward", rewardChanges[Nth(due, i)])]

(* initialize_block: the events of the last block are dropped, and the     *)
(* rewards pallet is the only one with an on_initialize of its own.        *)
InitializeBlock(a) ==
    /\ Rewards!OnInitialize(a)
    /\ stamped' = FALSE
    /\ calls' = 0
    /\ events' = ChangesDue(number + 1)
    /\ UNCHANGED <<difficultyVars, storageVars, trex, follower>>

(* Mutant: the timestamp may be set again in the same block.               *)
SetTimestampAgain(gap) ==
    /\ open
    /\ Difficulty!Block(gap)
    /\ stamped' = TRUE
    /\ UNCHANGED <<rewardsVars, storageVars, trex, calls, events, follower>>

(* The timestamp inherent: once per block, before the other extrinsics; it *)
(* calls OnTimestampSet, which is the difficulty pallet.                   *)
SetTimestamp(gap) ==
    /\ open /\ ~stamped
    /\ Difficulty!Block(gap)
    /\ stamped' = TRUE
    /\ UNCHANGED <<rewardsVars, storageVars, trex, calls, events, follower>>

(* An extrinsic is dispatched after the inherent.                          *)
Dispatch ==
    /\ open /\ stamped /\ calls < MaxCalls
    /\ calls' = calls + 1
    /\ UNCHANGED <<difficultyVars, stamped, follower>>

SetThing1(o, v) ==
    /\ Dispatch
    /\ o # Root
    /\ thing1' = v
    /\ events' = Append(events, Event("thing1", v))
    /\ UNCHANGED <<rewardsVars, something, thing2, trex>>

(* Mutant: the second call writes the first value.                         *)
SetThing2Copied(o, v) ==
    /\ Dispatch
    /\ o # Root
    /\ thing1' = v
    /\ events' = Append(events, Event("thing2", v))
    /\ UNCHANGED <<rewardsVars, something, thing2, trex>>

SetThing2(o, v) ==
    /\ Dispatch
    /\ o # Root
    /\ thing2' = v
    /\ events' = Append(events, Event("thing2", v))
    /\ UNCHANGED <<rewardsVars, something, thing1, trex>>

(* cause_error: without a value it fails; with one it would increment it,  *)
(* unless that overflows.                                                  *)
CauseError(o) ==
    /\ Dispatch
    /\ o # Root
    /\ something' = IF something = Empty \/ something + 1 = U32
                      THEN something ELSE something + 1
    /\ UNCHANGED <<rewardsVars, thing1, thing2, trex, events>>

(* send_trex_data: the record names the signer, whatever account `_from'   *)
(* names, and replaces the one that was stored.                            *)
SendTrexData(o, from, ciphers) ==
    /\ Dispatch
    /\ o # Root
    /\ trex' = [cipher_list |-> ciphers, from |-> o]
    /\ events' = Append(events, Event("trex", trex'))
    /\ UNCHANGED <<rewardsVars, storageVars>>

SetSchedule(o, base, curve) ==
    /\ Dispatch
    /\ o = Root
    /\ Rewards!SetSchedule(base, curve)
    /\ events' = Append(events, Event("reward", base))
    /\ UNCHANGED <<storageVars, trex>>

(* A call that fails leaves nothing but its place in the block: one with   *)
(* the wrong origin (ensure_signed, ensure_root) ...                       *)
WrongOrigin(o, call) ==
    /\ Dispatch
    /\ call \in (IF o = Root THEN SignedCalls ELSE {"set_schedule"})
    /\ UNCHANGED <<rewardsVars, storageVars, trex, events>>

(* ... or a schedule with an amount below the minimum balance.             *)
RewardTooLow(base, curve) ==
    /\ Dispatch
    /\ \/ base < MinimumBalance
       \/ \E k \in DOMAIN curve : curve[k] < MinimumBalance
    /\ UNCHANGED <<rewardsVars, storageVars, trex, events>>

(* What the observer makes of a block's events: the last one on a value    *)
(* counts.                                                                 *)
Follow ==
    [k \in DOMAIN follower |->
       LET at == {i \in DOMAIN events : events[i].key = k}
       IN  IF at = {} THEN follower[k] ELSE events[Max(at)].value]

(* finalize_block: the timestamp pallet insists on a timestamp, the        *)
(* rewards pallet pays.                                                    *)
FinalizeBlock ==
    /\ stamped
    /\ Rewards!OnFinalize
    /\ follower' = Follow
    /\ UNCHANGED <<difficultyVars, storageVars, trex, blockVars>>

Next ==
    \/ \E a \in Accounts \cup {NoAuthor} : InitializeBlock(a)
    \/ \E gap \in Gaps : SetTimestamp(gap)
    \/ \E o \in Origins, v \in Values : SetThing1(o, v) \/ SetThing2(o, v)
    \/ \E o \in Origins : CauseError(o)
    \/ \E o \in Origins, from \in Signers, c \in Ciphers :
          SendTrexData(o, from, c)
    \/ \E o \in Origins, base \in Amounts, curve \in Rewards!Curves :
          SetSchedule(o, base, curve)
    \/ \E o \in Origins, call \in SignedCalls \cup {"set_schedule"} :
          WrongOrigin(o, call)
    \/ \E base \in Amounts, curve \in Rewards!Curves :
          RewardTooLow(base, curve)
    \/ FinalizeBlock

Spec == Init /\ [][Next]_vars

-----------------------------------------------------------------------------
(* The difficulty window counts blocks: the timestamp pallet reaches the   *)
(* difficulty pallet exactly once in every block, whatever the block       *)
(* holds, so that the position in the ring follows the block number.       *)
WindowCountsBlocks ==
    LET done == IF open /\ ~stamped THEN number - 1 ELSE number
    IN  stamps = done /\ height = done % DIFFICULTY_ADJUST_WINDOW

(* Events tell the whole story: whoever follows the events block by block  *)
(* knows, at the end of each, the reward in force, both things and the     *)
(* TREX record, although changes of the curve are announced again in every *)
(* block, calls overwrite each other and some are refused.                 *)
EventsTellState ==
    ~open => follower = [reward |-> reward, thing1 |-> thing1,
                         thing2 |-> thing2, trex |-> trex]

(* In the composed runtime, too, authors are paid by the schedule that     *)
(* root has set.                                                           *)
RuntimePaysBySchedule == Rewards!PaysBySchedule
=============================================================================
