--------------------------- MODULE RewardSchedule ---------------------------
(***************************************************************************)
(* What the rewards pallet promises: the author of a block is paid, when   *)
(* the block ends, what the schedule in force says for that block.  A      *)
(* schedule is a base reward and a curve of changes by block number; it is *)
(* replaced as a whole, and its curve counts from the block after the one  *)
(* that replaced it.                                                       *)
(***************************************************************************)
EXTENDS Naturals

CONSTANTS
    Accounts,        \* accounts that may author blocks
    NoAuthor,        \* the block names no author
    Heights,         \* block numbers a curve may mention
    Amounts,         \* rewards that may be asked for
    MinimumBalance,  \* Currency::minimum_balance()
    GenesisReward    \* the reward of the genesis configuration

ASSUME AccountsAssumption == NoAuthor \notin Accounts
ASSUME AmountsAssumption ==
    /\ Amounts \subseteq Nat /\ Heights \subseteq Nat
    /\ MinimumBalance \in Nat \ {0}
    /\ GenesisReward \in Nat /\ GenesisReward >= MinimumBalance

VARIABLES
    now,       \* number of the current, or last, block
    open,      \* a block is being executed
    digest,    \* the author its pre-runtime digest names
    schedule,  \* the schedule in force and the block that set it
    balance    \* account -> balance

Curves == UNION {[S -> Amounts] : S \in SUBSET Heights}

Schedules == [at : Nat, base : Nat, curve : Curves]

NoCurve == [k \in {} |-> 0]

(* The changes of a curve that are due at block m, and the latest of them. *)
Due(curve, m) == {k \in DOMAIN curve : k <= m}

Latest(S) == CHOOSE k \in S : \A j \in S : j <= k

Scheduled(s, m) ==
    IF m > s.at /\ Due(s.curve, m) # {}
      THEN s.curve[Latest(Due(s.curve, m))]
      ELSE s.base

absVars == <<now, open, digest, schedule, balance>>

AbsInit ==
    /\ now = 0
    /\ open = FALSE
    /\ digest = NoAuthor
    /\ schedule = [at |-> 0, base |-> GenesisReward, curve |-> NoCurve]
    /\ balance = [a \in Accounts |-> 0]

OpenBlock ==
    /\ ~open
    /\ now' = now + 1
    /\ open' = TRUE
    /\ digest' \in Accounts \cup {NoAuthor}
    /\ UNCHANGED <<schedule, balance>>

ReplaceSchedule ==
    /\ open
    /\ \E base \in Amounts, curve \in Curves :
        /\ base >= MinimumBalance
        /\ \A k \in DOMAIN curve : curve[k] >= MinimumBalance
        /\ schedule' = [at |-> now, base |-> base, curve |-> curve]
    /\ UNCHANGED <<now, open, digest, balance>>

CloseBlock ==
    /\ open
    /\ open' = FALSE
    /\ digest' = NoAuthor
    /\ balance' = [a \in Accounts |->
                     IF a = digest THEN balance[a] + Scheduled(schedule, now)
                                   ELSE balance[a]]
    /\ UNCHANGED <<now, schedule>>

AbsNext == OpenBlock \/ ReplaceSchedule \/ CloseBlock

AbsSpec == AbsInit /\ [][AbsNext]_absVars
=============================================================================
