---------------------------- MODULE RewardsPallet ----------------------------
(***************************************************************************)
(* The rewards pallet (pallets/rewards/src/lib.rs).  The executive calls   *)
(* on_initialize at the start of a block, dispatches its extrinsics (of    *)
(* which set_schedule is the pallet's own) and calls on_finalize at the    *)
(* end.  The balances are those of pallet_balances, as far as rewards are  *)
(* concerned.  `schedule' is a history variable: what the last successful  *)
(* set_schedule asked for, and in which block.                             *)
(***************************************************************************)
EXTENDS RewardSchedule

CONSTANT MaxBlocks   \* bound: blocks executed

ASSUME MaxBlocksAssumption == MaxBlocks \in Nat

VARIABLES
    author,         \* Author
    reward,         \* Reward
    rewardChanges   \* RewardChanges: an ordered map from number to reward

palletVars == <<author, reward, rewardChanges>>
vars == <<absVars, palletVars>>

TypeOK ==
    /\ now \in 0..MaxBlocks
    /\ open \in BOOLEAN
    /\ digest \in Accounts \cup {NoAuthor}
    /\ schedule \in Schedules
    /\ balance \in [Accounts -> Nat]
    /\ author \in Accounts \cup {NoAuthor}
    /\ reward \in Nat
    /\ rewardChanges \in Curves

(* Genesis stores the configured reward; there is no curve.                *)
Init ==
    /\ AbsInit
    /\ author = NoAuthor
    /\ reward = GenesisReward
    /\ rewardChanges = NoCurve

(* Mutant: every change is applied in descending order of the numbers.     *)
ApplyChangesDescending(m) ==
    reward' = IF Due(rewardChanges, m) = {} THEN reward
              ELSE rewardChanges[CHOOSE k \in Due(rewardChanges, m) :
                                   \A j \in Due(rewardChanges, m) : k <= j]

(* The loop over the changes up to block m, in ascending order: the last   *)
(* one stays.  The loop that removes them works on a clone of the map, so  *)
(* the stored map keeps them.                                              *)
ApplyChanges(m) ==
    reward' = IF Due(rewardChanges, m) = {} THEN reward
              ELSE rewardChanges[Latest(Due(rewardChanges, m))]

(* on_initialize: the author is the first account that decodes from a PoW  *)
(* pre-runtime digest; without one, Author is left as it is.               *)
OnInitialize(a) ==
    /\ ~open /\ now < MaxBlocks
    /\ now' = now + 1
    /\ open' = TRUE
    /\ digest' = a
    /\ author' = IF a = NoAuthor THEN author ELSE a
    /\ ApplyChanges(now + 1)
    /\ UNCHANGED <<schedule, balance, rewardChanges>>

(* Mutant: the reward takes effect with the next change only.              *)
SetScheduleLater(base, curve) ==
    /\ open
    /\ base >= MinimumBalance
    /\ \A k \in DOMAIN curve : curve[k] >= MinimumBalance
    /\ rewardChanges' = curve
    /\ schedule' = [at |-> now, base |-> base, curve |-> curve]
    /\ UNCHANGED <<now, open, digest, balance, author, reward>>

(* set_schedule, called by root; every amount must reach the minimum.      *)
SetSchedule(base, curve) ==
    /\ open
    /\ base >= MinimumBalance
    /\ \A k \in DOMAIN curve : curve[k] >= MinimumBalance
    /\ reward' = base
    /\ rewardChanges' = curve
    /\ schedule' = [at |-> now, base |-> base, curve |-> curve]
    /\ UNCHANGED <<now, open, digest, balance, author>>

(* Mutant: the reward is withdrawn, not deposited.                         *)
DoRewardWithdraws(a) == balance' = [balance EXCEPT ![a] = @ - reward]

(* do_reward: deposit_creating drops a deposit that cannot bring a new     *)
(* account to life.                                                        *)
DoReward(a) ==
    balance' = [balance EXCEPT ![a] =
                  IF @ = 0 /\ reward < MinimumBalance THEN @ ELSE @ + reward]

(* Mutant: Author is not killed.                                           *)
OnFinalizeKeepsAuthor ==
    /\ open
    /\ open' = FALSE
    /\ digest' = NoAuthor
    /\ IF author = NoAuthor THEN UNCHANGED balance ELSE DoReward(author)
    /\ UNCHANGED <<now, schedule, reward, rewardChanges, author>>

OnFinalize ==
    /\ open
    /\ open' = FALSE
    /\ digest' = NoAuthor
    /\ IF author = NoAuthor THEN UNCHANGED balance ELSE DoReward(author)
    /\ author' = NoAuthor
    /\ UNCHANGED <<now, schedule, reward, rewardChanges>>

Next ==
    \/ \E a \in Accounts \cup {NoAuthor} : OnInitialize(a)
    \/ \E base \in Amounts, curve \in Curves : SetSchedule(base, curve)
    \/ OnFinalize

Spec == Init /\ [][Next]_vars

-----------------------------------------------------------------------------
(* The stored reward is what the schedule says for the current block,      *)
(* although past changes are never removed and are applied again in every  *)
(* block.                                                                  *)
RewardFollowsSchedule == reward = Scheduled(schedule, now)

(* Author never outlives its block: a block without an author in its       *)
(* digest does not pay the author of an earlier one.                       *)
AuthorIsOfThisBlock == author = IF open THEN digest ELSE NoAuthor

(* The pallet keeps the promise of RewardSchedule.                         *)
PaysBySchedule == AbsSpec

(* Once the last change of the curve is due and applied, the stored curve  *)
(* is empty.                                                               *)
FinishedCurveIsEmpty ==
    now > schedule.at /\ Due(schedule.curve, now) = DOMAIN schedule.curve
    => rewardChanges = NoCurve
=============================================================================
