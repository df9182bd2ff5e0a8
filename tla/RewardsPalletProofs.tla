------------------------- MODULE RewardsPalletProofs -------------------------
(***************************************************************************)
(* The rewards pallet implements the reward schedule, for any accounts,    *)
(* amounts and curves.  The inductive invariant adds three facts to the    *)
(* properties the runs check: the stored curve is the whole curve of the   *)
(* schedule (nothing is ever removed from it), the schedule was set no     *)
(* later than the current block, and all its amounts reach the minimum     *)
(* balance, so that no deposit is dropped.                                 *)
(***************************************************************************)
EXTENDS RewardsPallet, WellFoundedInduction, TLAPS

ScheduleStored ==
    /\ rewardChanges = schedule.curve
    /\ schedule.at <= now

ScheduleAdmissible ==
    /\ schedule.base >= MinimumBalance
    /\ \A k \in DOMAIN schedule.curve : schedule.curve[k] >= MinimumBalance

IInv ==
    /\ TypeOK
    /\ RewardFollowsSchedule
    /\ AuthorIsOfThisBlock
    /\ ScheduleStored
    /\ ScheduleAdmissible

-----------------------------------------------------------------------------
(* A non-empty set of numbers with an upper bound has a greatest element:  *)
(* its least upper bound.                                                  *)
LEMMA LatestIsGreatest ==
    ASSUME NEW S, S \subseteq Nat, S # {}, NEW m \in Nat, \A k \in S : k <= m
    PROVE  Latest(S) \in S /\ \A k \in S : k <= Latest(S)
<1> DEFINE U == {u \in Nat : \A k \in S : k <= u}
<1>1. m \in U /\ U \subseteq Nat
  OBVIOUS
<1>2. PICK u \in U : \A v \in U : ~(<<v, u>> \in OpToRel(<, Nat))
  <2> HIDE DEF U
  <2>1. U # {}
    BY <1>1
  <2> QED BY <2>1, <1>1, WFMin, NatLessThanWellFounded
<1>3. u \in Nat /\ \A k \in S : k <= u
  BY <1>2
<1>4. \A v \in U : ~(v < u)
  BY <1>1, <1>2, <1>3 DEF OpToRel
<1>5. u \in S
  <2>1. SUFFICES ASSUME u \notin S PROVE FALSE
    OBVIOUS
  <2>2. \A k \in S : k < u
    BY <1>3, <2>1
  <2>3. u # 0
    <3>1. PICK k \in S : k < u
      BY <2>2
    <3>2. k \in Nat
      OBVIOUS
    <3> QED BY <1>3, <3>1, <3>2
  <2>4. u - 1 \in Nat /\ \A k \in S : k <= u - 1
    BY <1>3, <2>2, <2>3
  <2>5. u - 1 \in U
    BY <2>4
  <2> QED BY <1>3, <1>4, <2>5
<1> QED BY <1>3, <1>5 DEF Latest

LEMMA CurveType ==
    ASSUME NEW c \in Curves
    PROVE  /\ DOMAIN c \subseteq Nat
           /\ \A k \in DOMAIN c : c[k] \in Nat
<1>1. PICK S \in SUBSET Heights : c \in [S -> Amounts]
  BY DEF Curves
<1> QED BY <1>1, AmountsAssumption

LEMMA NoCurveType == NoCurve \in Curves /\ DOMAIN NoCurve = {}
<1>1. NoCurve \in [{} -> Amounts] /\ DOMAIN NoCurve = {}
  BY DEF NoCurve
<1> QED BY <1>1 DEF Curves

(* A change that is due, if there is one, is an entry of the curve.        *)
LEMMA LatestDue ==
    ASSUME NEW c \in Curves, NEW m \in Nat, Due(c, m) # {}
    PROVE  Latest(Due(c, m)) \in DOMAIN c
<1>1. Due(c, m) \subseteq Nat /\ \A k \in Due(c, m) : k <= m
  BY CurveType DEF Due
<1>2. Latest(Due(c, m)) \in Due(c, m)
  BY <1>1, LatestIsGreatest
<1> QED BY <1>2 DEF Due

(* What is scheduled is a natural number, the minimum balance at least.    *)
LEMMA ScheduledAmount ==
    ASSUME NEW s \in Schedules, NEW m \in Nat,
           s.base >= MinimumBalance,
           \A k \in DOMAIN s.curve : s.curve[k] >= MinimumBalance
    PROVE  Scheduled(s, m) \in Nat /\ Scheduled(s, m) >= MinimumBalance
<1>1. s.curve \in Curves /\ s.base \in Nat
  BY DEF Schedules
<1>2. CASE Due(s.curve, m) # {}
  BY <1>1, <1>2, LatestDue, CurveType DEF Scheduled
<1>3. CASE Due(s.curve, m) = {}
  BY <1>1, <1>3 DEF Scheduled
<1> QED BY <1>2, <1>3

-----------------------------------------------------------------------------
LEMMA InitIInv == Init => IInv
<1> SUFFICES ASSUME Init PROVE IInv
  OBVIOUS
<1>1. schedule \in Schedules /\ schedule.at = 0 /\ schedule.base = GenesisReward
      /\ schedule.curve = NoCurve
  BY NoCurveType, AmountsAssumption DEF Init, AbsInit, Schedules
<1>2. TypeOK
  <2>1. GenesisReward \in Nat /\ 0 \in 0..MaxBlocks
    BY AmountsAssumption, MaxBlocksAssumption
  <2>2. balance \in [Accounts -> Nat] /\ now = 0 /\ open = FALSE
        /\ digest = NoAuthor /\ author = NoAuthor /\ reward = GenesisReward
        /\ rewardChanges = NoCurve
    BY DEF Init, AbsInit
  <2> QED BY <2>1, <2>2, <1>1, NoCurveType DEF TypeOK
<1>3. RewardFollowsSchedule
  BY <1>1 DEF Init, AbsInit, RewardFollowsSchedule, Scheduled
<1>4. AuthorIsOfThisBlock
  BY DEF Init, AbsInit, AuthorIsOfThisBlock
<1>5. ScheduleStored /\ ScheduleAdmissible
  BY <1>1, NoCurveType, AmountsAssumption
  DEF Init, AbsInit, ScheduleStored, ScheduleAdmissible
<1> QED BY <1>2, <1>3, <1>4, <1>5 DEF IInv

LEMMA OnInitializeIInv ==
    ASSUME IInv, NEW a \in Accounts \cup {NoAuthor}, OnInitialize(a)
    PROVE  IInv'
<1>1. /\ now' = now + 1 /\ now' \in 0..MaxBlocks /\ now \in Nat /\ now' \in Nat
      /\ open' = TRUE /\ open = FALSE /\ digest' = a
      /\ schedule' = schedule /\ balance' = balance
      /\ rewardChanges' = rewardChanges
      /\ author' = IF a = NoAuthor THEN author ELSE a
  BY MaxBlocksAssumption DEF OnInitialize, IInv, TypeOK
<1>2. /\ schedule \in Schedules /\ schedule.curve \in Curves
      /\ schedule.at \in Nat /\ schedule.base \in Nat
      /\ schedule.at < now' /\ rewardChanges = schedule.curve
  BY <1>1 DEF IInv, TypeOK, ScheduleStored, Schedules
<1>3. author = NoAuthor
  BY <1>1 DEF IInv, AuthorIsOfThisBlock
<1>4. reward' = Scheduled(schedule, now')
  <2>1. reward = Scheduled(schedule, now)
    BY DEF IInv, RewardFollowsSchedule
  <2>2. reward' = IF Due(schedule.curve, now') = {} THEN reward
                  ELSE schedule.curve[Latest(Due(schedule.curve, now'))]
    BY <1>1, <1>2 DEF OnInitialize, ApplyChanges
  <2>3. CASE Due(schedule.curve, now') # {}
    BY <2>2, <2>3, <1>1, <1>2 DEF Scheduled
  <2>4. CASE Due(schedule.curve, now') = {}
    <3>1. Due(schedule.curve, now) = {}
      <4>1. DOMAIN schedule.curve \subseteq Nat
        BY <1>2, CurveType
      <4> QED BY <4>1, <2>4, <1>1 DEF Due
    <3> QED BY <3>1, <2>1, <2>2, <2>4 DEF Scheduled
  <2> QED BY <2>3, <2>4
<1>5. reward' \in Nat
  BY <1>1, <1>2, <1>4, ScheduledAmount DEF IInv, ScheduleAdmissible
<1>6. TypeOK'
  BY <1>1, <1>3, <1>5 DEF IInv, TypeOK
<1>7. RewardFollowsSchedule'
  BY <1>1, <1>4 DEF RewardFollowsSchedule
<1>8. AuthorIsOfThisBlock'
  BY <1>1, <1>3 DEF AuthorIsOfThisBlock
<1>9. ScheduleStored' /\ ScheduleAdmissible'
  BY <1>1, <1>2 DEF IInv, ScheduleStored, ScheduleAdmissible
<1> QED BY <1>6, <1>7, <1>8, <1>9 DEF IInv

LEMMA SetScheduleIInv ==
    ASSUME IInv, NEW base \in Amounts, NEW curve \in Curves,
           SetSchedule(base, curve)
    PROVE  IInv'
<1>1. /\ now' = now /\ open' = open /\ digest' = digest /\ balance' = balance
      /\ author' = author /\ reward' = base /\ rewardChanges' = curve
      /\ schedule' = [at |-> now, base |-> base, curve |-> curve]
      /\ base >= MinimumBalance
      /\ \A k \in DOMAIN curve : curve[k] >= MinimumBalance
  BY DEF SetSchedule
<1>2. now \in Nat /\ base \in Nat
  BY AmountsAssumption DEF IInv, TypeOK
<1>3. schedule' \in Schedules /\ schedule'.at = now /\ schedule'.base = base
      /\ schedule'.curve = curve
  BY <1>1, <1>2 DEF Schedules
<1>4. TypeOK'
  BY <1>1, <1>2, <1>3 DEF IInv, TypeOK
<1>5. RewardFollowsSchedule'
  BY <1>1, <1>2, <1>3 DEF RewardFollowsSchedule, Scheduled
<1>6. AuthorIsOfThisBlock'
  BY <1>1 DEF IInv, AuthorIsOfThisBlock
<1>7. ScheduleStored' /\ ScheduleAdmissible'
  BY <1>1, <1>2, <1>3 DEF ScheduleStored, ScheduleAdmissible
<1> QED BY <1>4, <1>5, <1>6, <1>7 DEF IInv

(* The deposit of a reward is never dropped.                               *)
LEMMA RewardIsDeposited ==
    ASSUME IInv, NEW a \in Accounts, DoReward(a)
    PROVE  balance' = [balance EXCEPT ![a] = @ + reward]
<1>1. reward \in Nat /\ reward >= MinimumBalance
  <2>1. schedule \in Schedules /\ now \in Nat
    BY DEF IInv, TypeOK
  <2> QED BY <2>1, ScheduledAmount
          DEF IInv, RewardFollowsSchedule, ScheduleAdmissible
<1>2. ~(reward < MinimumBalance)
  BY <1>1, AmountsAssumption
<1> QED BY <1>2 DEF DoReward

LEMMA OnFinalizeIInv ==
    ASSUME IInv, OnFinalize
    PROVE  IInv'
<1>1. /\ open' = FALSE /\ digest' = NoAuthor /\ author' = NoAuthor
      /\ now' = now /\ schedule' = schedule /\ reward' = reward
      /\ rewardChanges' = rewardChanges
  BY DEF OnFinalize
<1>2. balance' \in [Accounts -> Nat]
  <2>1. author \in Accounts \cup {NoAuthor} /\ reward \in Nat
        /\ balance \in [Accounts -> Nat]
    BY DEF IInv, TypeOK
  <2>2. CASE author = NoAuthor
    BY <2>1, <2>2 DEF OnFinalize
  <2>3. CASE author # NoAuthor
    BY <2>1, <2>3, RewardIsDeposited DEF OnFinalize
  <2> QED BY <2>2, <2>3
<1>3. TypeOK'
  BY <1>1, <1>2 DEF IInv, TypeOK
<1>4. /\ RewardFollowsSchedule' /\ AuthorIsOfThisBlock'
      /\ ScheduleStored' /\ ScheduleAdmissible'
  BY <1>1 DEF IInv, RewardFollowsSchedule, AuthorIsOfThisBlock,
              ScheduleStored, ScheduleAdmissible
<1> QED BY <1>3, <1>4 DEF IInv

LEMMA NextIInv == IInv /\ [Next]_vars => IInv'
<1> SUFFICES ASSUME IInv, [Next]_vars PROVE IInv'
  OBVIOUS
<1>1. CASE Next
  BY <1>1, OnInitializeIInv, SetScheduleIInv, OnFinalizeIInv DEF Next
<1>2. CASE UNCHANGED vars
  BY <1>2 DEF vars, absVars, palletVars, IInv, TypeOK, RewardFollowsSchedule,
              AuthorIsOfThisBlock, ScheduleStored, ScheduleAdmissible
<1> QED BY <1>1, <1>2

-----------------------------------------------------------------------------
(* Every step of the pallet is a step of the schedule.                     *)
LEMMA StepRefines == IInv /\ [Next]_vars => [AbsNext]_absVars
<1> SUFFICES ASSUME IInv, [Next]_vars PROVE [AbsNext]_absVars
  OBVIOUS
<1>1. ASSUME NEW a \in Accounts \cup {NoAuthor}, OnInitialize(a)
      PROVE  OpenBlock
  BY <1>1 DEF OnInitialize, OpenBlock
<1>2. ASSUME NEW base \in Amounts, NEW curve \in Curves,
             SetSchedule(base, curve)
      PROVE  ReplaceSchedule
  BY <1>2 DEF SetSchedule, ReplaceSchedule
<1>3. ASSUME OnFinalize PROVE CloseBlock
  <2>1. author = digest /\ reward = Scheduled(schedule, now)
        /\ digest \in Accounts \cup {NoAuthor}
        /\ balance \in [Accounts -> Nat]
    BY <1>3 DEF OnFinalize, IInv, AuthorIsOfThisBlock, RewardFollowsSchedule,
                TypeOK
  <2>2. balance' = [a \in Accounts |->
                      IF a = digest THEN balance[a] + Scheduled(schedule, now)
                                    ELSE balance[a]]
    <3>1. CASE digest = NoAuthor
      BY <3>1, <2>1, <1>3, AccountsAssumption DEF OnFinalize
    <3>2. CASE digest # NoAuthor
      <4>1. digest \in Accounts /\ DoReward(digest)
        BY <3>2, <2>1, <1>3 DEF OnFinalize
      <4>2. balance' = [balance EXCEPT ![digest] = @ + reward]
        BY <4>1, RewardIsDeposited
      <4> QED BY <4>1, <4>2, <2>1
    <3> QED BY <3>1, <3>2
  <2> QED BY <2>2, <1>3 DEF OnFinalize, CloseBlock
<1>4. CASE UNCHANGED vars
  BY <1>4 DEF vars, absVars
<1> QED BY <1>1, <1>2, <1>3, <1>4 DEF Next, AbsNext

(* Types, among them that balances never fall below zero.                  *)
THEOREM TypeCorrect == Spec => []TypeOK
<1>1. IInv => TypeOK
  BY DEF IInv
<1> QED BY <1>1, InitIInv, NextIInv, PTL DEF Spec

(* The stored reward is the scheduled one in every block.                  *)
THEOREM RewardIsScheduled == Spec => []RewardFollowsSchedule
<1>1. IInv => RewardFollowsSchedule
  BY DEF IInv
<1> QED BY <1>1, InitIInv, NextIInv, PTL DEF Spec

(* Author is the author of the block being executed, or nobody.            *)
THEOREM AuthorDoesNotLinger == Spec => []AuthorIsOfThisBlock
<1>1. IInv => AuthorIsOfThisBlock
  BY DEF IInv
<1> QED BY <1>1, InitIInv, NextIInv, PTL DEF Spec

(* The pallet implements RewardSchedule.                                   *)
THEOREM PalletPaysBySchedule == Spec => PaysBySchedule
<1>1. Init => AbsInit
  BY DEF Init
<1> QED BY <1>1, InitIInv, NextIInv, StepRefines, PTL
        DEF Spec, PaysBySchedule, AbsSpec
=============================================================================
