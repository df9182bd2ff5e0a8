----------------------------- MODULE RuntimeProofs -----------------------------
(***************************************************************************)
(* The composed runtime, for any window, curve, accounts and calls.  Every *)
(* step of the executive is a step of each pallet or leaves the pallet     *)
(* alone, so that the theorems about the pallets hold of the runtime; the  *)
(* invariants of the composition then relate the pallets to each other, to *)
(* the block number and to the events.                                     *)
(***************************************************************************)
EXTENDS Runtime, FiniteSetTheorems, SequenceTheorems, TLAPS

(* The pallets with their theorems.                                        *)
DP == INSTANCE DifficultyPalletProofs WITH now <- moment, blocks <- stamps
RP == INSTANCE RewardsPalletProofs WITH now <- number

-----------------------------------------------------------------------------
(* What is said of the two instances of a pallet is the same.              *)
LEMMA SameTsDelta == ASSUME NEW d PROVE Difficulty!TsDelta(d) = DP!TsDelta(d)
BY Zenon DEF Difficulty!Max, Difficulty!TsDelta, Difficulty!Delta,
             Difficulty!NoSlot, Difficulty!Slots, Difficulty!W,
             DP!Max, DP!TsDelta, DP!Delta, DP!NoSlot, DP!Slots, DP!W

LEMMA SameClamp ==
    ASSUME NEW t, NEW m
    PROVE  Difficulty!Clamp(t, m) = DP!Clamp(t, m)
BY Zenon DEF Difficulty!Clamp, Difficulty!MayExceed, Difficulty!MustExceed,
             DP!Clamp, DP!MayExceed, DP!MustExceed

LEMMA SameAdjusted == ASSUME NEW s PROVE Difficulty!Adjusted(s) = DP!Adjusted(s)
BY Zenon DEF Difficulty!Adjusted, DP!Adjusted

LEMMA SameMax == ASSUME NEW S PROVE Difficulty!Max(S) = DP!Max(S)
BY Zenon DEF Difficulty!Max, DP!Max

LEMMA SameBlock ==
    ASSUME NEW gap \in Gaps, Difficulty!Block(gap)
    PROVE  DP!Block(gap)
BY SameTsDelta, SameClamp, SameAdjusted, SameMax, Zenon
DEF Difficulty!Block, Difficulty!Record, Difficulty!Retarget, Difficulty!W,
    Difficulty!Slot, DP!Block, DP!Record, DP!Retarget, DP!W, DP!Slot

LEMMA SameDifficulty ==
    /\ Difficulty!Init => DP!Init
    /\ DP!TypeOK => Difficulty!TypeOK
BY DEF Difficulty!Init, Difficulty!TypeOK, Difficulty!Slots, Difficulty!W,
       Difficulty!NoSlot, Difficulty!DifficultyAndTimestamp, DP!Init,
       DP!TypeOK, DP!Slots, DP!W, DP!NoSlot, DP!DifficultyAndTimestamp

LEMMA SameRewards ==
    /\ Rewards!Init => RP!Init
    /\ RP!TypeOK => Rewards!TypeOK
    /\ Rewards!Curves = RP!Curves
    /\ RP!AbsInit => Rewards!AbsInit
<1>1. Rewards!Curves = RP!Curves /\ Rewards!NoCurve = RP!NoCurve
  BY Zenon DEF Rewards!Curves, RP!Curves, Rewards!NoCurve, RP!NoCurve
<1>2. Rewards!Schedules = RP!Schedules
  BY <1>1, Zenon DEF Rewards!Schedules, RP!Schedules
<1>3. Rewards!AbsInit <=> RP!AbsInit
  BY <1>1 DEF Rewards!AbsInit, RP!AbsInit
<1> QED BY <1>1, <1>2, <1>3
        DEF Rewards!Init, RP!Init, Rewards!TypeOK, RP!TypeOK

LEMMA SameDue ==
    /\ \A c, m : Rewards!Due(c, m) = RP!Due(c, m)
    /\ \A S : Rewards!Latest(S) = RP!Latest(S)
BY Zenon DEF Rewards!Due, RP!Due, Rewards!Latest, RP!Latest

LEMMA SameRewardsSteps ==
    /\ \A a : Rewards!OnInitialize(a) => RP!OnInitialize(a)
    /\ \A base, curve : Rewards!SetSchedule(base, curve)
                        => RP!SetSchedule(base, curve)
    /\ Rewards!OnFinalize => RP!OnFinalize
<1>1. \A a : Rewards!OnInitialize(a) => RP!OnInitialize(a)
  BY SameDue
  DEF Rewards!OnInitialize, RP!OnInitialize, Rewards!ApplyChanges, RP!ApplyChanges
<1>2. \A base, curve : Rewards!SetSchedule(base, curve)
                       => RP!SetSchedule(base, curve)
  BY DEF Rewards!SetSchedule, RP!SetSchedule
<1>3. Rewards!OnFinalize => RP!OnFinalize
  BY DEF Rewards!OnFinalize, RP!OnFinalize, Rewards!DoReward, RP!DoReward
<1> QED BY <1>1, <1>2, <1>3

LEMMA SameSchedule ==
    [RP!AbsNext]_RP!absVars => [Rewards!AbsNext]_Rewards!absVars
<1>1. \A s, m : RP!Scheduled(s, m) = Rewards!Scheduled(s, m)
  BY SameDue DEF RP!Scheduled, Rewards!Scheduled
<1>2. RP!OpenBlock => Rewards!OpenBlock
  BY DEF RP!OpenBlock, Rewards!OpenBlock
<1>3. RP!ReplaceSchedule => Rewards!ReplaceSchedule
  BY SameRewards DEF RP!ReplaceSchedule, Rewards!ReplaceSchedule
<1>4. RP!CloseBlock => Rewards!CloseBlock
  BY <1>1 DEF RP!CloseBlock, Rewards!CloseBlock
<1> QED BY <1>2, <1>3, <1>4
        DEF RP!AbsNext, Rewards!AbsNext, RP!absVars, Rewards!absVars

-----------------------------------------------------------------------------
(* Every step of the runtime is a step of a pallet, or leaves it alone.    *)
LEMMA DifficultyStep == [Next]_vars => [DP!Next]_DP!vars
<1> SUFFICES ASSUME [Next]_vars
             PROVE  \/ \E gap \in Gaps : Difficulty!Block(gap)
                    \/ UNCHANGED difficultyVars
  BY SameBlock DEF DP!Next, DP!vars, difficultyVars
<1>1. CASE UNCHANGED vars
  BY <1>1 DEF vars
<1>2. CASE Next
  BY <1>2 DEF Next, InitializeBlock, SetTimestamp, Dispatch, SetThing1, SetThing2,
         CauseError, SendTrexData, SetSchedule, WrongOrigin, RewardTooLow,
         FinalizeBlock
<1> QED BY <1>1, <1>2

LEMMA RewardsStep == [Next]_vars => [RP!Next]_RP!vars
<1> SUFFICES ASSUME [Next]_vars
             PROVE  \/ \E a \in Accounts \cup {NoAuthor} : Rewards!OnInitialize(a)
                    \/ \E base \in Amounts, curve \in Rewards!Curves :
                         Rewards!SetSchedule(base, curve)
                    \/ Rewards!OnFinalize
                    \/ UNCHANGED rewardsVars
  BY SameRewards, SameRewardsSteps, Zenon
  DEF RP!Next, RP!vars, RP!absVars, RP!palletVars, rewardsVars
<1>1. CASE UNCHANGED vars
  BY <1>1 DEF vars
<1>2. CASE Next
  BY <1>2 DEF Next, InitializeBlock, SetTimestamp, Dispatch, SetThing1, SetThing2,
         CauseError, SendTrexData, SetSchedule, WrongOrigin, RewardTooLow,
         FinalizeBlock
<1> QED BY <1>1, <1>2

(* The inductive invariants of the pallets hold of the runtime.            *)
LEMMA PalletsInit == Init => DP!IInv /\ RP!IInv
<1>1. DP!Init => DP!IInv
  BY PalletsAssumption, CallsAssumption, DP!InitIInv
<1>2. RP!Init => RP!IInv
  BY PalletsAssumption, CallsAssumption, RP!InitIInv
<1> QED BY <1>1, <1>2, SameDifficulty, SameRewards DEF Init

LEMMA PalletsNext ==
    ASSUME DP!IInv, RP!IInv, [Next]_vars
    PROVE  DP!IInv' /\ RP!IInv'
<1>1. DP!IInv /\ [DP!Next]_DP!vars => DP!IInv'
  BY PalletsAssumption, CallsAssumption, DP!NextIInv
<1>2. RP!IInv /\ [RP!Next]_RP!vars => RP!IInv'
  BY PalletsAssumption, CallsAssumption, RP!NextIInv
<1> QED BY <1>1, <1>2, DifficultyStep, RewardsStep

-----------------------------------------------------------------------------
(* The events.  Keys are what the follower follows, State is what it       *)
(* should believe; within a block, that is what it would make of the       *)
(* events so far.                                                          *)
Keys == {"reward", "thing1", "thing2", "trex"}

State == [reward |-> reward, thing1 |-> thing1, thing2 |-> thing2, trex |-> trex]

EventsTyped ==
    /\ DOMAIN follower = Keys
    /\ \E V : events \in Seq([key : Keys, value : V])

EventsTell == IF open THEN Follow = State ELSE follower = State

(* The small pallets and the executive.                                    *)
RestTypeOK ==
    /\ something \in {Empty} \cup 0..U32-1
    /\ thing1 \in 0..U32-1 /\ thing2 \in 0..U32-1
    /\ trex \in TREXData \cup {NoRecord}
    /\ stamped \in BOOLEAN
    /\ calls \in 0..MaxCalls

IInv ==
    /\ DP!IInv /\ RP!IInv
    /\ RestTypeOK /\ WindowCountsBlocks /\ EventsTyped /\ EventsTell

(* A bounded set of numbers has a greatest element.                        *)
LEMMA BoundedHasGreatest ==
    ASSUME NEW S, S \subseteq Nat, S # {}, NEW n \in Nat, \A k \in S : k <= n
    PROVE  \E m \in S : \A k \in S : k <= m
<1>1. RP!Latest(S) \in S /\ \A k \in S : k <= RP!Latest(S)
  BY PalletsAssumption, CallsAssumption, RP!LatestIsGreatest
<1> QED BY <1>1

(* The last change that is due, in ascending order, is the latest one.     *)
LEMMA LastIsLatest ==
    ASSUME NEW S, S \subseteq Nat, S # {}, NEW n \in Nat, \A k \in S : k <= n
    PROVE  /\ Cardinality(S) \in Nat \ {0}
           /\ Nth(S, Cardinality(S)) = RP!Latest(S)
<1> DEFINE m == RP!Latest(S)
           below(k) == {j \in S : j < k}
<1>1. m \in S /\ \A k \in S : k <= m
  BY PalletsAssumption, CallsAssumption, RP!LatestIsGreatest
<1>2. IsFiniteSet(S)
  BY FS_BoundedSetOfNaturals
<1>3. Cardinality(S) \in Nat /\ Cardinality(S) # 0
  BY <1>2, FS_CardinalityType, FS_EmptySet
<1> HIDE DEF m
<1>4. below(m) = S \ {m}
  <2>1. \A j \in S : j < m <=> j # m
    BY <1>1
  <2> QED BY <2>1
<1>5. Cardinality(below(m)) = Cardinality(S) - 1
  BY <1>1, <1>2, <1>4, FS_RemoveElement
<1>6. ASSUME NEW k \in S, Cardinality(below(k)) = Cardinality(S) - 1
      PROVE  k = m
  <2>1. below(k) \subseteq S \ {k}
    OBVIOUS
  <2>2. /\ IsFiniteSet(S \ {k})
        /\ Cardinality(S \ {k}) = Cardinality(S) - 1
    BY <1>2, FS_RemoveElement
  <2>3. below(k) = S \ {k}
    <3> HIDE DEF below
    <3> QED BY <1>6, <2>1, <2>2, FS_Subset
  <2> QED BY <1>1, <2>3
<1>7. Nth(S, Cardinality(S)) = m
  BY <1>1, <1>5, <1>6 DEF Nth
<1> QED BY <1>3, <1>7 DEF m

(* An event replaces what the follower believes of its key.                *)
LEMMA FollowAppend ==
    ASSUME EventsTyped, NEW key \in Keys, NEW v,
           events' = Append(events, Event(key, v)), follower' = follower
    PROVE  EventsTyped' /\ Follow' = [Follow EXCEPT ![key] = v]
<1>1. PICK V : events \in Seq([key : Keys, value : V])
  BY DEF EventsTyped
<1> DEFINE n == Len(events)
           E == [key : Keys, value : V \cup {v}]
           at(k) == {i \in DOMAIN events : events[i].key = k}
           new(k) == {i \in DOMAIN events' : events'[i].key = k}
<1>2. Event(key, v) \in E /\ Event(key, v).key = key /\ Event(key, v).value = v
  BY DEF Event
<1>3. events \in Seq(E)
  <2>1. [key : Keys, value : V] \subseteq E
    OBVIOUS
  <2> HIDE DEF E
  <2> QED BY <1>1, <2>1, SeqMonotonic
<1>4. events' \in Seq(E)
  BY <1>2, <1>3
<1>5. /\ n \in Nat /\ DOMAIN events = 1..n /\ DOMAIN events' = 1..n+1
      /\ events'[n+1] = Event(key, v)
      /\ \A i \in 1..n : events'[i] = events[i]
  BY <1>2, <1>3
<1>6. EventsTyped'
  BY <1>4 DEF EventsTyped
<1> DEFINE was(k) == IF at(k) = {} THEN follower[k] ELSE events[Max(at(k))].value
           is(k) == IF new(k) = {} THEN follower[k] ELSE events'[Max(new(k))].value
<1>7. Follow = [k \in Keys |-> was(k)] /\ Follow' = [k \in Keys |-> is(k)]
  BY DEF Follow, EventsTyped
<1>8. ASSUME NEW k \in Keys PROVE is(k) = IF k = key THEN v ELSE was(k)
  <2>1. CASE k = key
    <3>1. n + 1 \in new(k) /\ \A i \in new(k) : i \in Nat /\ i <= n + 1
      BY <1>2, <1>5, <2>1
    <3> HIDE DEF new
    <3>2. Max(new(k)) = n + 1
      BY <1>5, <3>1 DEF Max
    <3> QED BY <1>2, <1>5, <2>1, <3>1, <3>2
  <2>2. CASE k # key
    <3>1. new(k) = at(k)
      BY <1>2, <1>5, <2>2
    <3>2. at(k) # {} => Max(at(k)) \in 1..n
      <4> SUFFICES ASSUME at(k) # {} PROVE Max(at(k)) \in at(k)
        BY <1>5
      <4>1. at(k) \subseteq Nat /\ \A i \in at(k) : i <= n
        BY <1>5
      <4> HIDE DEF at
      <4>2. PICK m \in at(k) : \A i \in at(k) : i <= m
        BY <4>1, <1>5, BoundedHasGreatest
      <4> QED BY <4>1, <4>2 DEF Max
    <3> HIDE DEF new, at
    <3> QED BY <1>5, <2>2, <3>1, <3>2
  <2> QED BY <2>1, <2>2
<1>9. Follow' = [Follow EXCEPT ![key] = v]
  <2> HIDE DEF was, is
  <2> QED BY <1>7, <1>8
<1> QED BY <1>6, <1>9

LEMMA FollowSame ==
    ASSUME UNCHANGED <<events, follower>>
    PROVE  Follow' = Follow /\ (EventsTyped => EventsTyped')
BY DEF Follow, EventsTyped

(* on_initialize announces the changes that are due, the latest one last.  *)
LEMMA FollowChanges ==
    ASSUME IInv, NEW a \in Accounts \cup {NoAuthor}, InitializeBlock(a)
    PROVE  EventsTyped' /\ Follow' = State'
<1> DEFINE due == RP!Due(rewardChanges, number + 1)
           n == Cardinality(due)
<1>1. /\ rewardChanges \in RP!Curves /\ number \in Nat
      /\ DOMAIN rewardChanges \subseteq Nat
  BY PalletsAssumption, CallsAssumption, RP!CurveType DEF IInv, RP!IInv, RP!TypeOK
<1>2. /\ follower' = follower /\ thing1' = thing1 /\ thing2' = thing2
      /\ trex' = trex /\ ~open /\ open'
      /\ reward' = IF due = {} THEN reward ELSE rewardChanges[RP!Latest(due)]
  BY SameRewardsSteps
  DEF InitializeBlock, storageVars, RP!OnInitialize, RP!ApplyChanges
<1>3. events' = [i \in 1..n |-> Event("reward", rewardChanges[Nth(due, i)])]
  BY SameDue DEF InitializeBlock, ChangesDue
<1>4. due \subseteq Nat /\ \A k \in due : k <= number + 1
  BY <1>1 DEF RP!Due
<1>5. n \in Nat /\ (due = {} <=> n = 0)
      /\ (due # {} => Nth(due, n) = RP!Latest(due))
  <2> HIDE DEF due
  <2>1. CASE due = {}
    BY <2>1, FS_EmptySet
  <2>2. CASE due # {}
    <3>1. number + 1 \in Nat
      BY <1>1
    <3>2. n \in Nat \ {0} /\ Nth(due, n) = RP!Latest(due)
      BY <1>4, <2>2, <3>1, LastIsLatest
    <3> QED BY <2>2, <3>2
  <2> QED BY <2>1, <2>2
<1> HIDE DEF due, n
<1>6. follower = State /\ DOMAIN follower = Keys
  BY <1>2 DEF IInv, EventsTell, EventsTyped
<1>7. EventsTyped'
  <2> DEFINE V == {rewardChanges[Nth(due, i)] : i \in 1..n}
             E == [key : Keys, value : V]
  <2>1. \A i \in 1..n : Event("reward", rewardChanges[Nth(due, i)]) \in E
    BY DEF Event, Keys
  <2>2. events' \in [1..n -> E]
    <3> HIDE DEF E
    <3> QED BY <1>3, <2>1
  <2>3. events' \in Seq(E)
    <3> HIDE DEF E
    <3> QED BY <1>5, <2>2, SeqDef
  <2> QED BY <1>2, <1>6, <2>3 DEF EventsTyped
<1> DEFINE at(k) == {i \in DOMAIN events' : events'[i].key = k}
           is(k) == IF at(k) = {} THEN follower[k] ELSE events'[Max(at(k))].value
<1>8. Follow' = [k \in Keys |-> is(k)]
  BY <1>2, <1>6 DEF Follow
<1>9. DOMAIN events' = 1..n /\ \A i \in 1..n : events'[i].key = "reward"
  BY <1>3 DEF Event
<1>10. \A k \in Keys : k # "reward" => at(k) = {}
  BY <1>9
<1>11. at("reward") = 1..n
  BY <1>9
<1>12. is("reward") = reward'
  <2>1. CASE n = 0
    BY <1>2, <1>5, <1>6, <1>11, <2>1 DEF State
  <2>2. CASE n # 0
    <3>1. n \in 1..n /\ \A i \in 1..n : i <= n
      BY <1>5, <2>2
    <3>2. Max(1..n) = n
      BY <1>5, <3>1 DEF Max
    <3>3. is("reward") = events'[n].value
      <4> HIDE DEF at
      <4> QED BY <1>11, <3>1, <3>2
    <3> QED BY <1>2, <1>3, <1>5, <2>2, <3>1, <3>3 DEF Event
  <2> QED BY <2>1, <2>2
<1>13. \A k \in Keys : k # "reward" => is(k) = follower[k]
  <2> HIDE DEF at
  <2> QED BY <1>10
<1>14. /\ Follow'["reward"] = reward' /\ Follow'["thing1"] = thing1'
       /\ Follow'["thing2"] = thing2' /\ Follow'["trex"] = trex'
  <2> HIDE DEF is
  <2> QED BY <1>2, <1>6, <1>8, <1>12, <1>13 DEF Keys, State
<1>15. Follow' = State'
  <2> HIDE DEF is
  <2>1. DOMAIN Follow' = {"reward", "thing1", "thing2", "trex"}
        /\ Follow' = [k \in DOMAIN Follow' |-> Follow'[k]]
    BY <1>8 DEF Keys
  <2> QED BY <1>14, <2>1 DEF State
<1> QED BY <1>7, <1>15

-----------------------------------------------------------------------------
LEMMA ModSucc ==
    ASSUME NEW n \in Nat, NEW w \in Nat \ {0}
    PROVE  (n + 1) % w = IF n % w = w - 1 THEN 0 ELSE (n % w) + 1
<1> DEFINE q == n \div w
           r == n % w
<1>1. q \in Nat /\ r \in 0..w-1 /\ n = w * q + r
  OBVIOUS
<1> HIDE DEF q, r
<1>2. CASE r = w - 1
  <2>1. n + 1 = w * (q + 1) /\ q + 1 \in Nat
    BY <1>1, <1>2
  <2>2. (w * (q + 1)) % w = 0
    BY <1>1
  <2> QED BY <1>2, <2>1, <2>2 DEF r
<1>3. CASE r # w - 1
  <2>1. n + 1 = w * q + (r + 1) /\ r + 1 \in 0..w-1
    BY <1>1, <1>3
  <2>2. (w * q + (r + 1)) % w = r + 1
    BY <1>1, <2>1
  <2> QED BY <1>3, <2>1, <2>2 DEF r
<1> QED BY <1>2, <1>3

(* A timestamp advances the ring by one slot.                              *)
LEMMA BlockCounts ==
    ASSUME DP!IInv, NEW gap \in Gaps, Difficulty!Block(gap),
           height = stamps % DIFFICULTY_ADJUST_WINDOW
    PROVE  /\ stamps \in Nat /\ stamps' = stamps + 1
           /\ height' = stamps' % DIFFICULTY_ADJUST_WINDOW
<1>1. /\ stamps \in Nat /\ stamps' = stamps + 1
      /\ \/ height < DIFFICULTY_ADJUST_WINDOW - 1 /\ height' = height + 1
         \/ height = DIFFICULTY_ADJUST_WINDOW - 1 /\ height' = 0
  BY SameBlock, CallsAssumption
  DEF DP!Block, DP!Record, DP!Retarget, DP!W, DP!IInv, DP!TypeOK
<1>2. DIFFICULTY_ADJUST_WINDOW \in Nat \ {0}
  BY PalletsAssumption
<1> DEFINE w == DIFFICULTY_ADJUST_WINDOW
<1>3. (stamps + 1) % w = IF stamps % w = w - 1 THEN 0 ELSE (stamps % w) + 1
  BY <1>1, <1>2, ModSucc
<1> QED BY <1>1, <1>2, <1>3

LEMMA InitIInv == Init => IInv
<1> SUFFICES ASSUME Init PROVE IInv
  OBVIOUS
<1>1. DP!IInv /\ RP!IInv
  BY PalletsInit
<1>2. RestTypeOK
  <2>1. stamped \in BOOLEAN
    BY Zenon DEF Init
  <2>2. 0 \in 0..U32-1 /\ 0 \in 0..MaxCalls
    BY CallsAssumption
  <2> QED BY <2>1, <2>2 DEF Init, RestTypeOK
<1>3. WindowCountsBlocks
  BY SameDifficulty, SameRewards, PalletsAssumption
  DEF Init, DP!Init, RP!Init, RP!AbsInit, WindowCountsBlocks
<1>4. reward = GenesisReward /\ open = FALSE
  BY SameRewards DEF Init, RP!Init, RP!AbsInit
<1>5. EventsTyped
  <2>1. events \in Seq([key : Keys, value : {}])
    BY DEF Init
  <2> QED BY <2>1 DEF Init, EventsTyped, Keys
<1>6. EventsTell
  BY <1>4 DEF Init, EventsTell, State
<1> QED BY <1>1, <1>2, <1>3, <1>5, <1>6 DEF IInv

(* An extrinsic: the executive and the difficulty pallet.                  *)
LEMMA DispatchKeeps ==
    ASSUME IInv, Dispatch, number' = number, open' = open
    PROVE  /\ open /\ WindowCountsBlocks' /\ follower' = follower
           /\ stamped' \in BOOLEAN /\ calls' \in 0..MaxCalls
BY CallsAssumption
DEF Dispatch, difficultyVars, IInv, RestTypeOK, WindowCountsBlocks

(* The value an event announces is the value that was stored.              *)
LEMMA EventTells ==
    ASSUME IInv, open, open' = open, NEW key \in Keys, NEW v,
           events' = Append(events, Event(key, v)), follower' = follower,
           State' = [State EXCEPT ![key] = v]
    PROVE  EventsTyped' /\ EventsTell'
<1>1. EventsTyped' /\ Follow' = [Follow EXCEPT ![key] = v]
  BY FollowAppend DEF IInv
<1> QED BY <1>1 DEF IInv, EventsTell

LEMMA NothingTold ==
    ASSUME IInv, open' = open, UNCHANGED <<events, follower, reward, thing1, thing2, trex>>
    PROVE  EventsTyped' /\ EventsTell'
BY FollowSame DEF IInv, EventsTell, State

LEMMA NextIInv == IInv /\ [Next]_vars => IInv'
<1> SUFFICES ASSUME IInv, [Next]_vars PROVE IInv'
  OBVIOUS
<1> USE DEF storageVars, rewardsVars
<1>1. DP!IInv' /\ RP!IInv'
  BY PalletsNext DEF IInv
<1>2. RestTypeOK /\ EventsTyped
  BY DEF IInv
<1>3. \A o \in Origins : o # Root => o \in Signers
  BY DEF Origins
<1>4. ASSUME NEW a \in Accounts \cup {NoAuthor}, InitializeBlock(a) PROVE IInv'
  <2>1. /\ ~open /\ open' /\ number \in Nat /\ number' = number + 1
    BY <1>4, SameRewardsSteps DEF InitializeBlock, RP!OnInitialize, IInv, RP!IInv, RP!TypeOK
  <2>2. WindowCountsBlocks'
    BY <1>4, <2>1 DEF InitializeBlock, difficultyVars, IInv, WindowCountsBlocks
  <2>3. RestTypeOK'
    <3>1. stamped' \in BOOLEAN
      BY <1>4, Zenon DEF InitializeBlock
    <3>2. calls' \in 0..MaxCalls
      BY <1>4, CallsAssumption DEF InitializeBlock
    <3> QED BY <1>2, <1>4, <3>1, <3>2 DEF InitializeBlock, RestTypeOK
  <2>4. EventsTyped' /\ EventsTell'
    BY <1>4, <2>1, FollowChanges DEF EventsTell
  <2> QED BY <1>1, <2>2, <2>3, <2>4 DEF IInv
<1>5. ASSUME NEW gap \in Gaps, SetTimestamp(gap) PROVE IInv'
  <2>1. WindowCountsBlocks'
    <3>1. height = stamps % DIFFICULTY_ADJUST_WINDOW /\ stamps = number - 1
          /\ number \in Nat
      BY <1>5 DEF SetTimestamp, IInv, WindowCountsBlocks, RP!IInv, RP!TypeOK
    <3>2. stamps' = stamps + 1 /\ height' = stamps' % DIFFICULTY_ADJUST_WINDOW
      BY <1>5, <3>1, BlockCounts DEF SetTimestamp, IInv
    <3> QED BY <1>5, <3>1, <3>2 DEF SetTimestamp, WindowCountsBlocks
  <2>2. RestTypeOK'
    BY <1>2, <1>5 DEF SetTimestamp, RestTypeOK
  <2>3. EventsTyped' /\ EventsTell'
    BY <1>5, NothingTold DEF SetTimestamp
  <2> QED BY <1>1, <2>1, <2>2, <2>3 DEF IInv
<1>6. ASSUME NEW o \in Origins, NEW v \in Values, SetThing1(o, v) PROVE IInv'
  <2>1. /\ open /\ WindowCountsBlocks' /\ follower' = follower
        /\ stamped' \in BOOLEAN /\ calls' \in 0..MaxCalls
    BY <1>6, DispatchKeeps DEF SetThing1
  <2>2. RestTypeOK'
    BY <1>2, <1>6, <2>1, CallsAssumption DEF SetThing1, RestTypeOK
  <2>3. State' = [State EXCEPT !["thing1"] = v]
    BY <1>6 DEF SetThing1, State
  <2>4. EventsTyped' /\ EventsTell'
    BY <1>6, <2>1, <2>3, EventTells DEF SetThing1, Keys
  <2> QED BY <1>1, <2>1, <2>2, <2>4 DEF IInv
<1>7. ASSUME NEW o \in Origins, NEW v \in Values, SetThing2(o, v) PROVE IInv'
  <2>1. /\ open /\ WindowCountsBlocks' /\ follower' = follower
        /\ stamped' \in BOOLEAN /\ calls' \in 0..MaxCalls
    BY <1>7, DispatchKeeps DEF SetThing2
  <2>2. RestTypeOK'
    BY <1>2, <1>7, <2>1, CallsAssumption DEF SetThing2, RestTypeOK
  <2>3. State' = [State EXCEPT !["thing2"] = v]
    BY <1>7 DEF SetThing2, State
  <2>4. EventsTyped' /\ EventsTell'
    BY <1>7, <2>1, <2>3, EventTells DEF SetThing2, Keys
  <2> QED BY <1>1, <2>1, <2>2, <2>4 DEF IInv
<1>8. ASSUME NEW o \in Origins, CauseError(o) PROVE IInv'
  <2>1. /\ open /\ WindowCountsBlocks' /\ follower' = follower
        /\ stamped' \in BOOLEAN /\ calls' \in 0..MaxCalls
    BY <1>8, DispatchKeeps DEF CauseError
  <2>2. RestTypeOK'
    BY <1>2, <1>8, <2>1, CallsAssumption DEF CauseError, RestTypeOK, Empty
  <2>3. EventsTyped' /\ EventsTell'
    BY <1>8, <2>1, NothingTold DEF CauseError
  <2> QED BY <1>1, <2>1, <2>2, <2>3 DEF IInv
<1>9. ASSUME NEW o \in Origins, NEW from \in Signers, NEW c \in Ciphers,
             SendTrexData(o, from, c)
      PROVE  IInv'
  <2>1. /\ open /\ WindowCountsBlocks' /\ follower' = follower
        /\ stamped' \in BOOLEAN /\ calls' \in 0..MaxCalls
    BY <1>9, DispatchKeeps DEF SendTrexData
  <2>2. RestTypeOK'
    BY <1>2, <1>3, <1>9, <2>1 DEF SendTrexData, RestTypeOK, TREXData
  <2>3. State' = [State EXCEPT !["trex"] = trex']
    BY <1>9 DEF SendTrexData, State
  <2>4. EventsTyped' /\ EventsTell'
    BY <1>9, <2>1, <2>3, EventTells DEF SendTrexData, Keys
  <2> QED BY <1>1, <2>1, <2>2, <2>4 DEF IInv
<1>10. ASSUME NEW o \in Origins, NEW base \in Amounts,
              NEW curve \in Rewards!Curves, SetSchedule(o, base, curve)
       PROVE  IInv'
  <2>1. number' = number /\ open' = open /\ reward' = base
    BY <1>10, SameRewardsSteps DEF SetSchedule, RP!SetSchedule
  <2>2. /\ open /\ WindowCountsBlocks' /\ follower' = follower
        /\ stamped' \in BOOLEAN /\ calls' \in 0..MaxCalls
    BY <1>10, <2>1, DispatchKeeps DEF SetSchedule
  <2>3. RestTypeOK'
    BY <1>2, <1>10, <2>2 DEF SetSchedule, RestTypeOK
  <2>4. State' = [State EXCEPT !["reward"] = base]
    BY <1>10, <2>1 DEF SetSchedule, State
  <2>5. EventsTyped' /\ EventsTell'
    BY <1>10, <2>1, <2>2, <2>4, EventTells DEF SetSchedule, Keys
  <2> QED BY <1>1, <2>2, <2>3, <2>5 DEF IInv
<1>11. ASSUME NEW o \in Origins,
              \/ \E call : WrongOrigin(o, call)
              \/ \E base, curve : RewardTooLow(base, curve)
       PROVE  IInv'
  <2>1. Dispatch /\ UNCHANGED <<rewardsVars, storageVars, trex, events>>
    BY <1>11 DEF WrongOrigin, RewardTooLow
  <2>2. /\ open /\ WindowCountsBlocks' /\ follower' = follower
        /\ stamped' \in BOOLEAN /\ calls' \in 0..MaxCalls
    BY <2>1, DispatchKeeps
  <2>3. RestTypeOK'
    BY <1>2, <2>1, <2>2 DEF RestTypeOK
  <2>4. EventsTyped' /\ EventsTell'
    BY <2>1, <2>2, NothingTold
  <2> QED BY <1>1, <2>2, <2>3, <2>4 DEF IInv
<1>12. CASE FinalizeBlock
  <2>1. open /\ ~open' /\ number' = number /\ reward' = reward
    BY <1>12, SameRewardsSteps DEF FinalizeBlock, RP!OnFinalize
  <2>2. WindowCountsBlocks'
    BY <1>12, <2>1
    DEF FinalizeBlock, difficultyVars, blockVars, IInv, WindowCountsBlocks
  <2>3. RestTypeOK'
    BY <1>2, <1>12 DEF FinalizeBlock, blockVars, RestTypeOK
  <2>4. EventsTyped'
    BY <1>2, <1>12 DEF FinalizeBlock, blockVars, EventsTyped, Follow
  <2>5. EventsTell'
    BY <1>12, <2>1 DEF FinalizeBlock, IInv, EventsTell, State
  <2> QED BY <1>1, <2>2, <2>3, <2>4, <2>5 DEF IInv
<1>13. CASE UNCHANGED vars
  <2>1. RestTypeOK' /\ WindowCountsBlocks'
    BY <1>13
    DEF vars, difficultyVars, blockVars, IInv, RestTypeOK, WindowCountsBlocks
  <2>2. EventsTyped' /\ EventsTell'
    BY <1>13, NothingTold DEF vars, blockVars
  <2> QED BY <1>1, <2>1, <2>2 DEF IInv
<1> QED BY <1>4, <1>5, <1>6, <1>7, <1>8, <1>9, <1>10, <1>11, <1>12, <1>13,
           Zenon DEF Next, Origins

-----------------------------------------------------------------------------
(* Types of the whole runtime state, among them the difficulty within its  *)
(* limits, balances that are never negative, and a sum that fits its type. *)
THEOREM TypeCorrect == Spec => []TypeOK
<1>1. IInv => TypeOK
  <2> SUFFICES ASSUME IInv PROVE TypeOK
    OBVIOUS
  <2>1. Difficulty!TypeOK /\ Rewards!TypeOK
    BY SameDifficulty, SameRewards DEF IInv, DP!IInv, RP!IInv
  <2>2. GetSum \in 0..U32-1
    <3>1. U32 \in Nat \ {0} /\ thing1 + thing2 \in Nat
      BY CallsAssumption DEF IInv, RestTypeOK
    <3> QED BY <3>1 DEF GetSum
  <2> QED BY <2>1, <2>2 DEF IInv, RestTypeOK, TypeOK
<1> QED BY <1>1, InitIInv, NextIInv, PTL DEF Spec

(* The difficulty pallet sees every block exactly once, whatever the block *)
(* holds, so that its window counts blocks.                                *)
THEOREM WindowIsInStep == Spec => []WindowCountsBlocks
<1>1. IInv => WindowCountsBlocks
  BY DEF IInv
<1> QED BY <1>1, InitIInv, NextIInv, PTL DEF Spec

(* Who follows the events knows the reward, both things and the TREX       *)
(* record at the end of every block.                                       *)
THEOREM EventsAreEnough == Spec => []EventsTellState
<1>1. IInv => EventsTellState
  BY DEF IInv, EventsTell, State, EventsTellState
<1> QED BY <1>1, InitIInv, NextIInv, PTL DEF Spec

(* The composed runtime pays by the schedule that root has set.            *)
THEOREM RuntimePays == Spec => RuntimePaysBySchedule
<1>1. Init => Rewards!AbsInit
  BY DEF Init, Rewards!Init
<1>2. IInv /\ [Next]_vars => [Rewards!AbsNext]_Rewards!absVars
  <2>1. RP!IInv /\ [RP!Next]_RP!vars => [RP!AbsNext]_RP!absVars
    BY PalletsAssumption, CallsAssumption, RP!StepRefines
  <2> QED BY <2>1, RewardsStep, SameSchedule DEF IInv
<1> QED BY <1>1, <1>2, InitIInv, NextIInv, PTL
        DEF Spec, RuntimePaysBySchedule, Rewards!PaysBySchedule, Rewards!AbsSpec

(* In the runtime, too, the ring of the difficulty pallet is in order.     *)
THEOREM RuntimeRingInOrder == Spec => []Difficulty!RingInOrder
<1>1. IInv => Difficulty!RingInOrder
  BY DEF IInv, DP!IInv, DP!RingInOrder, Difficulty!RingInOrder, DP!Slots,
         Difficulty!Slots, DP!W, Difficulty!W, DP!NoSlot, Difficulty!NoSlot
<1> QED BY <1>1, InitIInv, NextIInv, PTL DEF Spec

(* Whatever else a block holds, the average block time that the runtime    *)
(* API answers is at most the time the full ring covers.                   *)
THEOREM RuntimeAvgIsNotOverstated == Spec => []Difficulty!AvgNotOverstated
<1>1. DP!IInv => DP!AvgNotOverstated
  BY PalletsAssumption, CallsAssumption, DP!RingBoundsAvg
<1>2. DP!AvgNotOverstated => Difficulty!AvgNotOverstated
  <2>1. DP!AvgBlocktime = Difficulty!AvgBlocktime
    BY SameTsDelta
       DEF DP!AvgBlocktime, Difficulty!AvgBlocktime, DP!W, Difficulty!W
  <2> QED BY <2>1
          DEF DP!AvgNotOverstated, Difficulty!AvgNotOverstated, DP!Slots,
              Difficulty!Slots, DP!W, Difficulty!W, DP!NoSlot, Difficulty!NoSlot
<1>3. IInv => Difficulty!AvgNotOverstated
  BY <1>1, <1>2 DEF IInv
<1> QED BY <1>3, InitIInv, NextIInv, PTL DEF Spec

(* No call and no other hook of a block moves the difficulty: it changes   *)
(* with the timestamp that ends a window, and only in the direction that   *)
(* the blocks of the window call for.                                      *)
THEOREM RuntimeAdjustmentIsJustified ==
    ASSUME DIFFICULTY_ADJUST_WINDOW >= 7
    PROVE  Spec => Difficulty!AdjustsTowardsTarget
<1>1. Init => DP!GapsInRing
  <2>1. DP!Init => DP!GapsInRing
    BY PalletsAssumption, CallsAssumption, DP!InitGaps
  <2> QED BY <2>1, SameDifficulty DEF Init
<1>2. DP!IInv /\ DP!GapsInRing /\ [DP!Next]_DP!vars => DP!GapsInRing'
  BY PalletsAssumption, CallsAssumption, DP!NextGaps
<1>3. IInv /\ DP!GapsInRing /\ [Next]_vars => DP!GapsInRing'
  BY <1>2, DifficultyStep DEF IInv
<1>4. ASSUME DP!IInv, DP!GapsInRing, [DP!Next]_DP!vars
      PROVE  [ /\ difficulty' # difficulty => height = DP!W - 1
               /\ difficulty' > difficulty =>
                     \E g \in gaps' : g < 1000 * TargetBlockTime
               /\ difficulty' < difficulty =>
                     \E g \in gaps' : g > 1000 * TargetBlockTime ]_DP!vars
  <2>1. DP!W >= 7
    BY DEF DP!W
  <2> QED BY <1>4, <2>1, PalletsAssumption, CallsAssumption, DP!StepAdjusts
<1>5. IInv /\ DP!GapsInRing /\ [Next]_vars =>
        [ /\ difficulty' # difficulty => height = Difficulty!W - 1
          /\ difficulty' > difficulty =>
                \E g \in gaps' : g < 1000 * TargetBlockTime
          /\ difficulty' < difficulty =>
                \E g \in gaps' : g > 1000 * TargetBlockTime ]_Difficulty!vars
  BY <1>4, DifficultyStep
  DEF IInv, DP!W, Difficulty!W, DP!vars, Difficulty!vars
<1> QED BY <1>1, <1>3, <1>5, InitIInv, NextIInv, PTL
        DEF Spec, Difficulty!AdjustsTowardsTarget
=============================================================================
