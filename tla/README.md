# TREX-PoW: a TLA+ verification project

TLA+ modules, TLC configurations and TLAPS proofs for the TREX proof-of-work
node: a Substrate chain whose miners solve discrete logarithms with Pollard's
rho method, so that every block releases the private key of a time-lock puzzle.
Paths below are relative to the repository root; `PROJECT.json` gives, for every
definition, the lines it models.

## 1. Inventory

| Component | Code | State | Operations |
|---|---|---|---|
| Miner thread | `node/src/service.rs` (`new_full`) | `mining_number`, the mining seed, the metadata and the seal it read | one endless loop: read metadata, `find_seal`, rest or mine, submit, bump the seed |
| Import pipeline | `consensus/trex-pow/src/distributed.rs`, `service.rs` (`new_partial`) | the `AtomicBool` `found`, shared with the miner; the client's database | `import_block`: raise the flag, then import |
| Mining worker, fork choice | library `sc_consensus_pow`, wired in `service.rs` | the build on offer; total difficulty in the auxiliary store | propose on the best block, replace the build, `submit`, choose by total difficulty |
| Parallel solver | `algorithm.rs` (`solve_parallel`) | a shared map under a `RwLock`, nonce and result under a `Mutex` each, the flag | per thread: transit, look up, report or insert, poll, retry |
| Pollard rho map, single-threaded solver | `algorithm.rs` (`func_f`, `func_g`, `func_h`, `transit`, `solve`, `solve_dist`), `utils.rs`, `hash.rs` | two walks, counters, the nonce in the header | slow and fast walk to a collision, then on to a distinguished point |
| Verification, key derivation | `lib.rs` (`SolutionVerifier`, `TREXAlgo`), `utils.rs` (`eqs_solvers`) | none | `verify`, `derive`, `key_gen` |
| Keychain, genesis seal | `keychain.rs`, `genesis.rs` | seeds in every seal | derive the keys of the next block from the seeds of a seal |
| Difficulty pallet | `pallets/difficulty/src/lib.rs` | ring of timestamps, write position, current difficulty | `on_timestamp_set`, `get_avg_blocktime` |
| Rewards pallet | `pallets/rewards/src/lib.rs` | `Author`, `Reward`, `RewardChanges` | `on_initialize`, `set_schedule`, `on_finalize`, `do_reward` |
| Storage pallet | `pallets/storage/src/lib.rs` | `Something`, `Thing1`, `Thing2` | `set_thing_1`, `set_thing_2`, `cause_error`, `get_sum` |
| TREX pallet | `pallets/trex/src/lib.rs` | `TREXStorage` | `send_trex_data` |
| Runtime | `runtime/src/lib.rs`, `runtime/src/genesis.rs` | the pallets' storage | the order of hooks, inherent and extrinsics in a block |
| RPC, command line, chain specification, mining seed, inherent provider | `node/src/*.rs`, `pallets/*/rpc`, `primitives/consensus` | none, or start-up only | forwarding and conversions |

How they interact. In one process the miner thread, the worker task and the
import queue run concurrently. The worker publishes a *build* (a proposal on the
best block); the miner reads it, then reads the seal of the best block from the
database, takes the key of the current difficulty from that seal's seeds, and
searches. Every import, the queue's as well as the miner's own through `submit`,
raises `found`; the solver polls `found` and gives up. When the process ends, the
database stays; the flag, `mining_number`, the build and imports in progress are
gone. A sealed block is executed
by the runtime: the rewards pallet finds its author, the timestamp pallet feeds
the difficulty pallet, whose answer is the difficulty asked of the block's
children and the weight of the fork choice.

What is hard here:

* The miner reads the build and the seal at two moments, and clears a flag that
  another thread sets; the build is replaced during the search, and may be once
  more while `submit` has verified the seal and not yet taken the build.
* Fork choices are made before the block is written, by two importers at once.
* `mining_number` is set before the outcome of the search is known, tells heights
  and not blocks, and lives in memory only.
* The flag goes up before the import that raises it has succeeded.
* In `solve_parallel` a flag is tested and set in two steps under a read lock,
  and the result is written in two pieces.
* Four moduli (p, p - 1, (p - 1) / 2 and 2^8 for the seed's offset) in one walk.
* The ring of timestamps holds parts of two windows most of the time.
* Applied changes of a reward curve are never removed and are applied for ever.

What makes each part correct is what the properties of section 3 say. The
`hazards` of `PROJECT.json` list these places line by line.

## 2. Modules

| Module | Models | Proofs | Configurations |
|---|---|---|---|
| `Search` | what the miner relies on when it calls a solver (abstract) | | |
| `MiningNode` | miner threads, workers, import pipelines, the flag, the block tree, restarts, remote miners; uses `Search` | `MiningNodeProofs`, `MiningKeyProofs`, `MiningSearchProofs` | `MCMiningNode_{safety,live,stall,key}.cfg` |
| `ParallelSolver` | `solve_parallel`; implements `Search` | `ParallelSolverProofs` | `MCParallelSolver{,_race}.cfg` |
| `PollardRho` | the rho map, `solve`, `solve_dist`, `verify`, `key_gen`; implements `Search` | `PollardRhoProofs` | `MCPollardRho.cfg` |
| `DifficultyPallet` | the difficulty pallet | `DifficultyPalletProofs` | `MCDifficultyPallet{,_key}.cfg` |
| `RewardSchedule` | what the rewards pallet promises (abstract) | | |
| `RewardsPallet` | the rewards pallet; implements `RewardSchedule` | `RewardsPalletProofs` | `MCRewardsPallet{,_curve}.cfg` |
| `Runtime` | the runtime: composes `DifficultyPallet` and `RewardsPallet` by INSTANCE, with the storage and TREX pallets | `RuntimeProofs` | `MCRuntime.cfg` |

### Search

The contract between `Seal::try_cpu_mining` and its two sides. A search begins with
the flag down (`Begin`); an import or a thread of the solver raises the flag
(`Raise`); the search ends with a seal and the flag up (`Find`), with a seal that
fails to verify (`Spoil`, only with several threads), or with nothing (`GiveUp`);
the caller uses up the seal (`Take`); the process may end (`Abort`). No step but
`Begin` and `Abort` lowers the flag, and a search that has begun ends
(`SearchEnds`). `MiningNode` uses a search per node, `Solver(n)`, and
`MinerUsesSearch` says that it does so correctly; `PollardRho` and `ParallelSolver` are
one call of a solver each, and `ImplementsSearch` says that the call is a search.

### MiningNode

A block is a number; parent, number, author, key, difficulty and total
difficulty are functions of it. A key is what it depends on in `try_cpu_mining`:
how often the seeds were derived from those of the genesis seal, and the
difficulty, which selects one of the keys the seeds yield. Blocks of different
forks may so have the same key. The miner's program counter follows the loop of
`service.rs`: `Start`, then `Metadata`, `FindSeal`, then `Rest` or `StartMining` (which
sets `mining_number` and clears the flag), then `Solved`, `Spoilt` (two threads of
`solve_parallel` mixed their reports), `Cancelled` (the flag was seen) or `Exhausted`,
then `SubmitRejected`, or `SubmitVerified` and `Submit`: the library's `submit`
verifies the seal against a copy of the build's metadata and takes the build
under the lock a second time, and the worker may put in another one in between.
An import is three steps, `VerifyAndChoose`,
`SignalFound`, `Apply`, for each of the two importers of a node, so that fork
choices can be stale when they are applied. `InvalidSeal` ends it when
PowBlockImport finds that the seal was solved for another proposal, which
happens to own blocks only. `ImportFails` ends it before the flag is
raised or in the client, with the flag up. `Restart` may happen between any two
steps: it keeps `known` and `best` and resets everything else of the node; a block
of its own that was under import is lost. The solver is one step; `work` is the
proposal the seal verifies for (none, if it was spoilt), and that
`TREXAlgo::verify` accepts a seal is whether this is the build on offer (in
`submit`) or the parent of the block (in PowBlockImport).
`keyFrom` records which block's seeds gave the key, `run` in which run of its
author's process a block was sealed. `Room` is a bound: it keeps an identifier for
every seal that `submit` has verified, so that `Submit` is never held up by
`MaxBlocks`. `Remotes` are miners that exist only through the blocks they
seal, on blocks that have been announced. A proposal is
identified by its parent: `submit` compares pre-hashes, and a miner never holds
the pre-hash of one of two proposals on the same block (it is inside `submit`
in between). Messages need no module: a block may be received at any time after
it was sealed, in any order, as long as its parent is known, which is what the
sync code hands to the import queue.

### ParallelSolver

One action per step between two points at which another thread can be noticed:
`Transit`, `Read` (under the read lock), `Load` and `Store` of the flag,
`WriteNonce`, `WriteRes`, `Insert` (under the write lock: no `Readers`),
`Leave`/`Continue`/`Retry`, and `Signal` for an import. Works and solutions are
abstract: `Y` gives the work of a solution, `Step` and `F` the steps on
solutions (given the work, whose hash decides) and on works. The state of a
thread has solution and work as separate fields, as in the code: `from_pub_key`
and `transit` compute them apart. `TrailAssumption` relates `Step` and `F` on pairs
that belong together (it is proved of the real
arithmetic: lemma `MapFollows` of `PollardRhoProofs`); that the pairs of a thread and
of the map do belong together is a property. The offset `max_try * cpu_i` is a
`u8` and wraps at `U8`.

### PollardRho

The arithmetic of the code, in the group modulo 7 (= 2 * 3 + 1), with both blake3
hashes chosen nondeterministically: 49 affine header hashes and three sets of
distinguished points. `dist` selects `solve_dist` or `solve`. `Search` is the loop
with a slow and a fast walk, `Roll` the loop to a distinguished point, `Report` the
return with the flag raised.

### DifficultyPallet

`Block(gap)` is the timestamp inherent calling `on_timestamp_set`: `Record` before
the last slot, `Retarget` at it. Only the sign of `clamp` is used by the code, and
only the sign is modelled; `fast_math::log2` is approximate, so ratios near the
rounding threshold may go either way (`Clamp` is a set). The window, the target,
the limits and the clamp factor are constants.

### RewardSchedule, RewardsPallet

`RewardSchedule` has a schedule (a base and a curve, in force from the block that
set it) and pays the author of a block what the schedule says for its number.
`RewardsPallet` has the three storage items and the hooks of the code; `schedule`
is carried along as a history variable, and the refinement is the identity on
the variables the two share.

### Runtime

`InitializeBlock`, `SetTimestamp`, the calls, `FinalizeBlock`. A call has an origin,
an account or root (through sudo), and the error paths are actions of their own
(`WrongOrigin`, `RewardTooLow`) or branches (`CauseError`). Events last for one
block; `follower` is an observer that sees nothing but events. `u32` is the
constant `U32`, with which the sum wraps as it does in a release build.

## 3. Runs

| Run | Bounds | Shows |
|---|---|---|
| `mining_safety` | 1 node, 1 restart, failing imports, 1 remote miner, 3 blocks, 2 difficulties | `KnownClosed`, `BestIsLeaf`, `SolvedForOwnProposal`, `OneSealPerBest`, `KeyNotBehind`, `MinerUsesSearch` |
| `mining_live` | 1 node, 1 restart, failing imports of the queue, 1 remote miner, 2 blocks | `LeavesGenesis`, `BuildCatchesUp`, `BlocksArrive`, `MinesAfterStart`, `TurnsToBest` |
| `difficulty` | window 7, 9 blocks, 3 gaps | `RingInOrder`, `WindowSharesDifficulty`, `AvgNotOverstated`, `AdjustsTowardsTarget` |
| `rewards` | 2 accounts, 4 blocks, 3 amounts, curves over 3 numbers | `RewardFollowsSchedule`, `AuthorIsOfThisBlock`, `PaysBySchedule` |
| `runtime` | window 2, 3 blocks, 2 calls per block | `WindowCountsBlocks`, `EventsTellState`, `RuntimePaysBySchedule` |
| `parallel` | 3 threads, 1 retry, trails of 5 | `MapIsSound`, `ResultCollides`, `NonceIsOfCollision`, `FlagMeansResult`, `MapOnlyGrows`, `ImplementsSearch` |
| `pollard` | p = 7, all keys and starts, 49 hashes, 3 point sets, loops of 6, grain 2 | `WorkIsOfSolution`, `ResultVerifies`, `ResultOpensKey`, `LeavesSoon`, `ImplementsSearch` |

Why the bounds are enough. Three blocks are what a fork and a block on top of it
need, and two difficulties make the shorter fork the heavier one; one node with
two importers and a remote miner has every race that is local to a node. One
restart separates two runs of the process, which is where `OneSealPerBest` stops
holding across runs (without its condition on `run` TLC refutes it). In
`mining_live` imports of the miner's own blocks do not fail: with a bound on the
blocks that are ever sealed, a node that loses its own blocks runs out of them,
which is a matter of the bound and not of the code. The
window of 7 is the shortest for which a chain exactly on target stays inside
the dead band, as it does with 60 blocks (`MCDifficultyPallet` assumes it), and
nine blocks cross its end, so that the ring mixes two windows. Four blocks
let a schedule be set, come due, be replaced and come due again. Three threads
with `U8 = 2` are the smallest number for which the seed's offset wraps; the
trails contain a cycle that returns with another solution, a fixed point that
never does, and a tail. `LeavesSoon` counts iterations of the loops of `solve_dist`,
as the code's counter does: one of the first loop makes three transits, one of
the second two. The run `runtime` has one value and one height for changes of the
reward, so that several changes at once and one overwriting another are shown by
the theorem `EventsAreEnough` only. In the group modulo 7 every solution modulo 6 occurs,
including pairs that agree modulo 3 and reveal no key. The bounds
`MaxBlocks`, `MaxRestarts`, `MaxCalls`, `MaxTry`, `Length` and `GrainSize` are constants; the last three
are parameters of the code.

Deadlock is not checked in these runs: every one of them ends when its bound of
blocks is reached or the search has returned. That nothing blocks before is what
the liveness properties say.

### Fairness

* `MiningNode`: threads and tasks are scheduled (weak fairness of the miner's
  steps, the worker, the imports); the worker wakes up on its timeout; the
  network delivers sealed blocks, again when their import failed, and does not
  fail for ever (strong fairness of `VerifyAndChoose` and `Apply` for the queue); the
  solver returns (weak fairness of its four outcomes), which is `SearchEnds` and is
  what the runs `parallel` and `pollard` show of the two solvers; a search that is
  tried again and again succeeds in the end with a seal that verifies, because
  each attempt has another seed (strong fairness of `Solved`; for `solve_parallel`
  consecutive attempts share most of their starting points, but each adds one).
  Nothing is assumed of remote miners and of restarts.
* `ParallelSolver`: every thread is scheduled, and the thread that joins them.
* `PollardRho`: the searching thread is scheduled.

`TurnsToBest` is conditional on a best block of a height the miner has not mined at
in this run (`Fresh`), because that is what the code does: after a switch to a
sibling, which two concurrent imports chosen against the same old best block
can cause, `mining_number` is equal to the new number already and the miner rests
on the new best block. The conclusion is that it searches with the seal of that
very block, or that the best block changes again.

### Where the code disagrees with what it says

Five runs expect a violation; each is a finding in `PROJECT.json`.

* `mining_stall` (`SomeoneMines`): after a search without success, a miner rests
  until the best number changes, and so it does after a switch to a block of the
  same number. Two miners can wait for each other for ever,
  and a single miner stops.
* `mining_key` (`KeyFromPreviousBlock`): a block can be sealed with a key that is
  derived from another block than its parent, more derivations away from genesis
  than its number. `KeyNotBehind` is what remains true.
* `difficulty_key` (`EveryDifficultyHasKey`): at `MAX_DIFFICULTY` the keychain is
  indexed one past its end.
* `rewards_curve` (`FinishedCurveIsEmpty`): a finished curve stays in storage,
  against the test in `pallets/rewards/src/tests.rs`. `PaysBySchedule` shows that
  the payments are right all the same.
* `parallel_race` (`ParallelResultVerifies`): the nonce of one thread may be returned
  with the solutions of another, and the seal is then rejected. What does hold is
  `ResultCollides` and `NonceIsOfCollision`, each by itself.

## 4. Proofs

The proofs hold for every value of the constants that satisfies the named
assumptions; the bound `MaxBlocks` is an arbitrary number.

**MiningNodeProofs** (`TypeCorrect`, `DatabaseClosed`, `BestStaysLeaf`,
`SealsOwnProposal`), for any sets of nodes and remote miners and any
difficulties. The difficult one is `BestIsLeaf`: a fork choice is made at
`VerifyAndChoose` and takes effect at `Apply`, and another import may end in
between. The inductive invariant adds that
parents come before their children and total difficulties grow along a chain
(`Tree`), that two imports of a node are of blocks it does not know yet
(`ImportsNew`), that the miner's own block is nobody else's while it is being
imported (`OwnIsFresh`), that builds are on known blocks (`BuildsKnown`), and
`ChoiceStands`: a block the fork choice passed over does not extend the best
block. It holds when the choice is made, since a child of the best block has a
greater total difficulty, and no later import breaks it: the passed-over block's
parent is known, and every import brings an unknown block, so none makes that
parent the best one. Without `ChoiceStands` the step `Apply` does not preserve
`BestIsLeaf`. `SolvedForOwnProposal` does not hold of the blocks a node seals: the
verification in `submit` is of a copy of the build. It holds of every block that is
known, signalled or offered to another node, because `VerifyAndChoose` verifies the
seal again, an own block is nobody else's before it is known, and remote miners
solve for the block they build (`RemotesSolve`). A restart, a rejected and a failed
import only take imports away, which every part of the invariant survives.

**MiningKeyProofs** (`BestIsMinedOnce`), for any network and any number of restarts.
It is about the seeds of a best block, not about keys: siblings whose seeds were
derived equally often yield the same keys, and a node may seal on both.
`mining_number` holds a number, not a block, and blocks of one number compete; so
the invariant says what it has to agree with. `SeedsSpent`: if a node sealed a block
with the seeds of k in this run, then k is in its database, as long as k is its
best block `mining_number` is the number of k (so that it rests), and while it
still has the seal of k in hand it does not search. Once k is not the best block
it never is again, because an import brings an unknown block (`ImportsNew`). To
this come `SealKnown`, `NumberRecorded` (the number recorded is that of the seal in
use), `Numbered` (only genesis has the number 0, the initial value of
`mining_number`) and `RunsPast`, with which a restart leaves nothing to show.

`KeyIsNotBehind`, in the same module: the seeds of an imported block's key are never
those of a proper ancestor of its parent, although the miner reads the worker's metadata and the
seal of the best block at two moments. `Ancestor` is written without recursion:
a is an ancestor of b if every set of blocks that contains b's parent and is
closed under parents contains a. The best block of a node is a leaf of its
database (`BestIsLeaf`), so the database without it is still closed
(`KnownClosed`), and it is an ancestor of no known block. The block of the
metadata is known when it is read and remains known, so the invariant `BInv`
(`GenesisIsRoot`, `ReadInOrder`, `MetadataKnown`, `SealNotBehind`) holds at
`FindSeal` and until `Submit`; a new block adds no ancestors to an old one. A block
that ends up on another build than its seal was solved for escapes this
(`SolvedNotBehind` speaks of the others), but `SolvedForOwnProposal` keeps it out of
every database.

**MiningSearchProofs** (`MinerStepsAreSearchSteps`): under `Stage`, every step of the
network is a step of the search of each node, or a stutter.

**ParallelSolverProofs** (`TypeCorrect`, `MapStaysSound`, `ResultIsCollision`,
`NonceIsSound`, `FlagIsHonest` and the action property `EntriesStay`), for any
number of threads, trails, retries and any width of the seed's offset. Added to
the invariant: a thread's work is that of its solution (`WorkOfSolution`), after
every step and every retry; a walking thread has iterations left (`TrailLeft`), one
that looks up, inserts or reports stands at a distinguished point reached from its
nonce (`AtPoint`), the other solution that a reporting thread found is still in the map
(`MatchStands`, which is why entries must never be replaced), the nonce is that of a
thread that stands at a collision and is written before the result (`NonceFirst`,
`Owns`), and a raised flag without a result has a
thread that is about to write it, unless an import raised it (`FlagHasOwner`,
`JoinedAll`). The assumption used is `TrailAssumption`: one step of a solution, by the
hash of its own work, is one step of the work. `CallIsSearch` is the refinement: with `FlagFirst` (a
result is only there when the flag is up) every step of a thread, of an import
and of the join maps to a step of `Search` or to a stutter.

**DifficultyPalletProofs** (`TypeCorrect`, `RingStaysInOrder`,
`WindowHasOneDifficulty`), for any window of at least two, target, minimum period,
limits and clamp factor up to the minimum difficulty (with a larger one the
subtraction of the code could fall below 0). The three invariants together are
inductive. `AvgIsNotOverstated` says that `get_avg_blocktime` on a full ring is at most
the time the ring covers, although the ring holds parts of two windows and the
loop over it passes the seam at `height`: the one step back in time adds nothing,
because of the saturating subtraction. `AdjustmentIsJustified` is the action
property: the difficulty moves at the end of a window only, up only after a
block faster than the target and down only after a slower one. Added to the
invariant is `GapsInRing`, which ties the filled slots to the gaps of the current
window. A window of W slots has W - 1 gaps but is measured against W target
times, so that a chain exactly on target looks slightly fast; the hypothesis
W >= 7 is what makes `clamp` round that away (`DeadBand`), and the code has 60.
The sum over the ring is a recursive function. Induction over the slots is the
lemma `SlotInduction`, with a set in the place of a predicate.

**PollardRhoProofs** (`TypeCorrect`, `WorkFollowsSolution`, `ResultPassesVerify`,
`ResultGivesKey`, `LeavesAfterTwoGrains`, `CallIsSearch`), for every prime P = 2N + 1
with N prime, every generator, key, header hash and set of distinguished points,
and loops and grains of any length: `GroupAssumption` and `SearchAssumption` are all
that is assumed, and no fact of number theory is taken on trust. The module
builds it up: division with remainder; induction; that the recursion of `PowMod`
(`pow_mod_ref`) has a solution; the laws of powers modulo p; the inverse modulo
a prime, as the least positive value of a*u mod p, which must be 1; Fermat's
little theorem, since multiplication by a permutes the residues and so leaves
their product alone. From it follows that exponents may be
reduced modulo p - 1, as `func_g` and `func_h` do, so that the map on the exponents
follows the map on the works (`MapFollows`), for each of its three branches. The
inductive invariant `IInv` has this as `WorkIsOfSolution`, and adds
`ReturnsReported` (what is returned is the two walks as they stood when they met at a
distinguished point, with a work that verifies for the nonce) and `Pace` (the iterations since the
flag went up are bounded by the counter of the loop). `ResultGivesKey` is why the
chain works: from two solutions of the same work whose b differ modulo N,
`eqs_solvers` solves the equation modulo N (`EquationSolved`), for the square of the
generator; the generator itself is then right up to a square root of 1, of
which there are two modulo a prime (`RootsOfOne`), and they are the two candidates
`key_gen` tries (`KeyOpens`). `CallIsSearch` maps every step of `solve_dist` to a step of
`Search` or to a stutter.

**RewardsPalletProofs** (`TypeCorrect`, `RewardIsScheduled`, `AuthorDoesNotLinger`,
`PalletPaysBySchedule`), for any accounts, amounts and curves. The invariant adds that
the stored curve is the scheduled one and that no stored amount is below the
minimum balance, so that `deposit_creating` never drops a reward. The last
theorem is the refinement: initial states map to initial states, and every step
to a step of `RewardSchedule` or a stutter.

**RuntimeProofs** (`TypeCorrect`, `WindowIsInStep`, `EventsAreEnough`, `RuntimePays`,
`RuntimeRingInOrder`, `RuntimeAvgIsNotOverstated`, `RuntimeAdjustmentIsJustified`), for
any window of at least two (seven in the last one), accounts, curves, calls and
width of `u32`. `DP` and `RP` are instances of the pallets' proof modules. Every step
of the executive is a step of each pallet or leaves the pallet alone
(`DifficultyStep`, `RewardsStep`), so the pallets' invariants hold of the runtime and
so do their theorems: the refinement of `RewardSchedule`, the order of the ring, the
average and the justification of every adjustment are carried over in this way. What
is new is what relates the parts.
`WindowIsInStep`: the write position of the difficulty pallet is the number of
timestamps modulo the window, which is the block number or one less while the
inherent of the open block is outstanding. `EventsAreEnough`: an observer who sees
only the events knows the storage; the invariant (`EventsTell`) says, in the middle
of a block, that applying the events deposited so far to what the observer knew
at its start gives the storage. Several changes of the reward may come due
in one block; the events tell them in ascending order and the last one counts
(`LastIsLatest`).

Every invariant and every action property of the passing runs is stated by a
theorem, and so is the safety part of each refinement.

Only model-checked: liveness (`LeavesGenesis`, `BuildCatchesUp`, `BlocksArrive`,
`MinesAfterStart`, `TurnsToBest`, and `SearchEnds` within `ImplementsSearch` of the two
solvers). Temporal reasoning with fairness and ENABLED is outside the prover; the
theorems `CallIsSearch` leave it out and state the rest of `ImplementsSearch`.

A remark on method: the induction theorems of the library take an operator as
a parameter, which the installed provers cannot instantiate. The proofs therefore
state induction over a set of numbers, from the well-foundedness of <, and show
that a recursive definition on the naturals has a solution before they use it
(`RecursionHasSolution`, `SumsExist`, `PowersExist`).

## 5. Not modelled

* The mining seed (`generate_mining_seed`, the increments in the loop): it only
  selects the trail. Its wrap to 0 (`service.rs:399`) is not reached: the seed
  starts from the bytes of the peer id, is 1 again after every success, and grows
  by one per failed search.
* Major sync, `can_author_with` and proposer failures of the mining worker, which
  is library code. A worker that drops a build and proposes again on the same
  block would need proposals with an identity of their own.
* Decoding of seals and the generation of primes and generators (the external
  crate `elgamal_trex`). Peers' blocks with an invalid seal: remote blocks are
  valid ones, and only an own block is ever rejected.
* `MinTREXAlgo` (behind the feature `min-algo`) has no module of its own: it is
  `MiningNode` with a single difficulty, and the verifier of `PollardRho`.
* RPC servers, command line, chain specification, author key, inherent
  provider: forwarding and start-up I/O, with no state that changes later.
* Fees, nonces and weights of the runtime: library code.
* Weights, benchmarks, mocks: generated code or test harness.

## 6. Plan

Done, in this order: `MiningNode` and its proofs; `DifficultyPallet`; `RewardSchedule`
and `RewardsPallet` with the refinement; `ParallelSolver`; `PollardRho`; `Runtime`.
Then `Search`, its use by `MiningNode` and its two implementations; restarts,
spoilt seals and failing imports in `MiningNode`; `MiningKeyProofs`,
`MiningSearchProofs` and the refinement in `ParallelSolverProofs`.

Then the proofs of `KeyNotBehind`, of the average and the
adjustment in `DifficultyPallet`, and the modules `PollardRhoProofs` and `RuntimeProofs`.

Next:

1. `ParallelSolver` over the arithmetic of `PollardRho`: an instance in which
   `TrailAssumption` is discharged by `MapFollows`, so that `ResultGivesKey` holds of the
   seals `solve_parallel` returns whenever they verify.
2. `Keychain`: the split of the seeds into `u128` and `U256`, the keys of a seal, the
   index at every difficulty, and the difficulty a block is verified with.
3. Comments to settle with further runs: the doc comment of `TargetBlockTime`
   (`pallets/difficulty/src/lib.rs:41`, "Target block time in millseconds.") against
   its value in seconds; `pallets/difficulty/src/tests.rs` against `clamp`; the
   comment at `algorithm.rs:290`.

To run: `tlc -config MCMiningNode_safety.cfg MCMiningNode`, and likewise for the other
configurations; `tlapm MiningNodeProofs.tla` and likewise for the other
`*Proofs` modules. The `mutants` of
`PROJECT.json` name, for each property, a plausible mistake in the code that the
property catches; the mutated definitions stand in the modules, marked as such.
