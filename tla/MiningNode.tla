----------------------------- MODULE MiningNode -----------------------------
(***************************************************************************)
(* The mining side of a TREX network: in every node a miner thread         *)
(* (node/src/service.rs), the block-import pipeline it shares one          *)
(* AtomicBool with (consensus/trex-pow/src/distributed.rs) and the mining  *)
(* worker and fork choice of sc_consensus_pow, which are library code and  *)
(* are modelled from the way service.rs wires them.                        *)
(*                                                                         *)
(* A block is its identifier; 0 is the genesis block.  What the header,    *)
(* the seal and the runtime state of a block say about it is kept in       *)
(* functions of the identifier.  A proposal (the worker's "build") is      *)
(* identified by the block it is built on: a seal is verified against a    *)
(* pre-hash, and a miner never holds the pre-hash of one of two proposals  *)
(* that the worker built on the same block (the worker builds on a block   *)
(* again only after `submit' has taken the first build).                   *)
(* A key is what it depends on in try_cpu_mining: how often the seeds of   *)
(* the genesis seal were derived, and the difficulty, which selects one of *)
(* the keys the seeds yield.  Blocks of different forks may have the same. *)
(* The puzzle solver is a search in the sense of module Search, which      *)
(* PollardRho and ParallelSolver implement; the mining seed only           *)
(* diversifies it and is left out.                                         *)
(*                                                                         *)
(* A node may stop at any moment and be started again: everything but the  *)
(* database lives in memory.                                               *)
(***************************************************************************)
EXTENDS Naturals, FiniteSets

CONSTANTS
    Nodes,         \* the mining nodes, modelled step by step
    Remotes,       \* miners elsewhere, seen only through their blocks
    MaxBlocks,     \* bound: the blocks that are ever sealed
    Difficulties,  \* what the runtime's difficulty API may answer
    Several,       \* the nodes search with solve_parallel (cpus > 1)
    MaxRestarts,   \* bound: how often a node is started again
    Failing        \* the importers whose imports may fail

ASSUME NodesAssumption ==
    Nodes # {} /\ Nodes \cap Remotes = {}
ASSUME MaxBlocksAssumption == MaxBlocks \in Nat \ {0}
ASSUME DifficultiesAssumption ==
    Difficulties \subseteq Nat \ {0} /\ Difficulties # {}
ASSUME SearchAssumption == Several \in BOOLEAN
ASSUME RestartsAssumption == MaxRestarts \in Nat
ASSUME FailingAssumption == Failing \subseteq {"queue", "own"}

Genesis == 0

Block == 0..MaxBlocks

(* No block: Option::None wherever the code keeps an optional block.       *)
None == MaxBlocks + 1

(* The two callers of PowBlockImport: the import queue and the miner's own *)
(* `submit'.  Each owns a clone of the import pipeline.                    *)
Importers == {"queue", "own"}

VARIABLES
    sealed,        \* the blocks sealed so far are 1..sealed
    parent,        \* block -> its parent
    number,        \* block -> its number
    author,        \* block -> the node that sealed it
    keyFrom,       \* history: block -> the block whose seeds gave its key
    key,           \* block -> the key it solves: depth of the derivation
                   \*          from the genesis seal, and difficulty
    difficulty,    \* block -> the difficulty its state asks of its children
    total,         \* block -> the total difficulty of its chain
    solvedFor,     \* block -> the proposal (parent) its seal was solved for
    run,           \* block -> the run of its author's process that sealed it
    known,         \* node -> the blocks in its database
    best,          \* node -> its best block
    build,         \* node -> the proposal the worker offers, or None
    proposing,     \* node -> the block the worker is proposing on, or None
    import,        \* node, importer -> the import in progress
    found,         \* node -> the AtomicBool shared by miner and import
    pc,            \* node -> where the miner thread is in its loop
    metadata,      \* node -> the proposal the miner has read, or None
    seal,          \* node -> the block whose seal it has read, or None
    work,          \* node -> the proposal its new seal verifies for, or None
    miningNumber,  \* node -> mining_number
    restarts       \* node -> how often it was started again

blockVars  == <<sealed, parent, number, author, keyFrom, key, difficulty,
                total, solvedFor, run>>
workerVars == <<build, proposing>>
dbVars     == <<known, best>>
minerVars  == <<pc, metadata, seal, work, miningNumber>>
vars == <<blockVars, workerVars, dbVars, minerVars, import, found, restarts>>

Idle == [stage |-> "idle", block |-> None, isBest |-> FALSE]

ImportState ==
    [stage : {"idle", "verify", "signal", "apply"},
     block : Block \cup {None}, isBest : BOOLEAN]

(* Where a miner thread may be; "start" is before its loop.                *)
Locations ==
    {"start", "metadata", "findSeal", "decide", "solve", "submit", "take",
     "importing"}

Keys == [depth : Nat, difficulty : Difficulties]

TypeOK ==
    /\ sealed \in Block
    /\ parent \in [Block -> Block]
    /\ number \in [Block -> Nat]
    /\ author \in [Block -> Nodes \cup Remotes]
    /\ keyFrom \in [Block -> Block]
    /\ key \in [Block -> Keys]
    /\ difficulty \in [Block -> Difficulties]
    /\ total \in [Block -> Nat]
    /\ solvedFor \in [Block -> Block]
    /\ run \in [Block -> Nat]
    /\ known \in [Nodes -> SUBSET (0..sealed)]
    /\ best \in [Nodes -> 0..sealed]
    /\ build \in [Nodes -> Block \cup {None}]
    /\ proposing \in [Nodes -> Block \cup {None}]
    /\ import \in [Nodes -> [Importers -> ImportState]]
    /\ found \in [Nodes -> BOOLEAN]
    /\ pc \in [Nodes -> Locations]
    /\ metadata \in [Nodes -> Block \cup {None}]
    /\ seal \in [Nodes -> Block \cup {None}]
    /\ work \in [Nodes -> Block \cup {None}]
    /\ miningNumber \in [Nodes -> Nat]
    /\ restarts \in [Nodes -> 0..MaxRestarts]

(* Every node starts from the genesis block, with the flag down; unused    *)
(* block identifiers hold the genesis values.                              *)
Init ==
    /\ sealed = 0
    /\ parent = [b \in Block |-> Genesis]
    /\ number = [b \in Block |-> 0]
    /\ \E n \in Nodes : author = [b \in Block |-> n]
    /\ keyFrom = [b \in Block |-> Genesis]
    /\ \E d \in Difficulties :
          /\ difficulty = [b \in Block |-> d]
          /\ key = [b \in Block |-> [depth |-> 0, difficulty |-> d]]
    /\ total = [b \in Block |-> 0]
    /\ solvedFor = [b \in Block |-> Genesis]
    /\ run = [b \in Block |-> 0]
    /\ known = [n \in Nodes |-> {Genesis}]
    /\ best = [n \in Nodes |-> Genesis]
    /\ build = [n \in Nodes |-> None]
    /\ proposing = [n \in Nodes |-> None]
    /\ import = [n \in Nodes |-> [i \in Importers |-> Idle]]
    /\ found = [n \in Nodes |-> FALSE]
    /\ pc = [n \in Nodes |-> "start"]
    /\ metadata = [n \in Nodes |-> None]
    /\ seal = [n \in Nodes |-> None]
    /\ work = [n \in Nodes |-> None]
    /\ miningNumber = [n \in Nodes |-> 0]
    /\ restarts = [n \in Nodes |-> 0]

-----------------------------------------------------------------------------
(* The mining worker task of sc_consensus_pow.                             *)

(* Mutant: a worker that builds only when it has no build.                 *)
ProposeOnlyIfNone(n) ==
    /\ proposing[n] = None
    /\ build[n] = None
    /\ proposing' = [proposing EXCEPT ![n] = best[n]]
    /\ UNCHANGED <<blockVars, build, dbVars, minerVars, import, found,
                   restarts>>

(* Woken by an import notification or by its timeout, the worker starts a  *)
(* proposal on the best block unless the build it offers is already on it. *)
Propose(n) ==
    /\ proposing[n] = None
    /\ build[n] # best[n]
    /\ proposing' = [proposing EXCEPT ![n] = best[n]]
    /\ UNCHANGED <<blockVars, build, dbVars, minerVars, import, found,
                   restarts>>

(* Proposing executes the extrinsics and may take seconds; only when it is *)
(* done does the new build replace the old one, whatever the best block is *)
(* by then.                                                                *)
OnBuild(n) ==
    /\ proposing[n] # None
    /\ build' = [build EXCEPT ![n] = proposing[n]]
    /\ proposing' = [proposing EXCEPT ![n] = None]
    /\ UNCHANGED <<blockVars, dbVars, minerVars, import, found, restarts>>

-----------------------------------------------------------------------------
(* The miner thread: its start, and one iteration of the loop in new_full. *)

(* Mutant: the thread takes the best number for mined when it starts.      *)
StartResumes(n) ==
    /\ pc[n] = "start"
    /\ miningNumber' = [miningNumber EXCEPT ![n] = number[best[n]]]
    /\ pc' = [pc EXCEPT ![n] = "metadata"]
    /\ UNCHANGED <<blockVars, workerVars, dbVars, metadata, seal, work, import,
                   found, restarts>>

(* The thread is spawned: nothing has been mined yet.                      *)
Start(n) ==
    /\ pc[n] = "start"
    /\ miningNumber' = [miningNumber EXCEPT ![n] = 0]
    /\ pc' = [pc EXCEPT ![n] = "metadata"]
    /\ UNCHANGED <<blockVars, workerVars, dbVars, metadata, seal, work, import,
                   found, restarts>>

Metadata(n) ==
    /\ pc[n] = "metadata"
    /\ metadata' = [metadata EXCEPT ![n] = build[n]]
    /\ pc' = [pc EXCEPT ![n] = "findSeal"]
    /\ UNCHANGED <<blockVars, workerVars, dbVars, seal, work, miningNumber,
                   import, found, restarts>>

(* At number 0 the seal is genesis_seal(INIT_DIFFICULTY); every other best *)
(* block carries the seal it was imported with.                            *)
FindSeal(n) ==
    /\ pc[n] = "findSeal"
    /\ seal' = [seal EXCEPT ![n] = best[n]]
    /\ pc' = [pc EXCEPT ![n] = "decide"]
    /\ UNCHANGED <<blockVars, workerVars, dbVars, metadata, work, miningNumber,
                   import, found, restarts>>

(* The end of an iteration: what it read goes out of scope.                *)
NextIteration(n) ==
    /\ pc' = [pc EXCEPT ![n] = "metadata"]
    /\ metadata' = [metadata EXCEPT ![n] = None]
    /\ seal' = [seal EXCEPT ![n] = None]
    /\ work' = [work EXCEPT ![n] = None]

(* Mutant: no record of what was mined.                                    *)
AlreadyMinedNever(n) == FALSE

(* Mutant: genesis is treated like every other block.                      *)
AlreadyMinedAtGenesis(n) == miningNumber[n] = number[seal[n]]

(* Mutant: the numbers are compared the wrong way round.                   *)
AlreadyMinedHigher(n) ==
    miningNumber[n] # 0 /\ miningNumber[n] <= number[seal[n]]

AlreadyMined(n) ==
    miningNumber[n] # 0 /\ miningNumber[n] = number[seal[n]]

(* Sleep one second: there is no build, or this number was mined already.  *)
Rest(n) ==
    /\ pc[n] = "decide"
    /\ metadata[n] = None \/ AlreadyMined(n)
    /\ NextIteration(n)
    /\ UNCHANGED <<blockVars, workerVars, dbVars, miningNumber, import,
                   found, restarts>>

(* Record the number, lower the flag and enter try_cpu_mining.             *)
StartMining(n) ==
    /\ pc[n] = "decide"
    /\ metadata[n] # None
    /\ ~AlreadyMined(n)
    /\ miningNumber' = [miningNumber EXCEPT ![n] = number[seal[n]]]
    /\ found' = [found EXCEPT ![n] = FALSE]
    /\ pc' = [pc EXCEPT ![n] = "solve"]
    /\ UNCHANGED <<blockVars, workerVars, dbVars, metadata, seal, work, import,
                   restarts>>

(* The solver returns Some(solutions), with the flag up, and the seal is   *)
(* made of the solutions and of the nonce that compute is left with; w is  *)
(* the proposal this seal verifies for.  The solver's last poll of the     *)
(* flag comes before its own store, so an import may have raised it too.   *)
NewSeal(n, w) ==
    /\ pc[n] = "solve"
    /\ work' = [work EXCEPT ![n] = w]
    /\ found' = [found EXCEPT ![n] = TRUE]
    /\ pc' = [pc EXCEPT ![n] = "submit"]
    /\ UNCHANGED <<blockVars, workerVars, dbVars, metadata, seal, miningNumber,
                   import, restarts>>

Solved(n) == NewSeal(n, metadata[n])

(* Two threads of solve_parallel reported: the nonce of one, the solutions *)
(* of the other, and a seal that verifies for nothing.                     *)
Spoilt(n) == Several /\ NewSeal(n, None)

(* Mutant: try_cpu_mining lowers the flag when it found nothing.           *)
CancelledLowers(n) ==
    /\ pc[n] = "solve"
    /\ found[n]
    /\ NextIteration(n)
    /\ found' = [found EXCEPT ![n] = FALSE]
    /\ UNCHANGED <<blockVars, workerVars, dbVars, miningNumber, import,
                   restarts>>

(* The solver returns None because it saw the flag up.                     *)
Cancelled(n) ==
    /\ pc[n] = "solve"
    /\ found[n]
    /\ NextIteration(n)
    /\ UNCHANGED <<blockVars, workerVars, dbVars, miningNumber, import,
                   found, restarts>>

(* The solver returns None although the flag is down: the trail is used up *)
(* or ends in a collision of equal solutions.                              *)
Exhausted(n) ==
    /\ pc[n] = "solve"
    /\ ~found[n]
    /\ NextIteration(n)
    /\ UNCHANGED <<blockVars, workerVars, dbVars, miningNumber, import,
                   found, restarts>>

(* What `submit' verifies: the seal fits the build offered at this moment. *)
SealFitsBuild(n) == build[n] # None /\ work[n] = build[n]

(* `submit' verifies the seal against the current build and gives up when  *)
(* it does not fit.                                                        *)
SubmitRejected(n) ==
    /\ pc[n] = "submit"
    /\ ~SealFitsBuild(n)
    /\ NextIteration(n)
    /\ UNCHANGED <<blockVars, workerVars, dbVars, miningNumber, import,
                   found, restarts>>

(* What the runtime will answer in the state of the block b.               *)
StateDifficulty(b) ==
    \E d \in Difficulties : difficulty' = [difficulty EXCEPT ![b] = d]

(* The key mined for the proposal f with the seeds of k: try_cpu_mining    *)
(* derives them once more and takes the key of f's difficulty.             *)
NextKey(k, f) == [depth |-> key[k].depth + 1, difficulty |-> difficulty[f]]

(* Mutant: the difficulty is taken off the total.                          *)
SealLighter(b, p, k, f, n) ==
    /\ sealed' = b
    /\ parent' = [parent EXCEPT ![b] = p]
    /\ number' = [number EXCEPT ![b] = number[p] + 1]
    /\ author' = [author EXCEPT ![b] = n]
    /\ keyFrom' = [keyFrom EXCEPT ![b] = k]
    /\ key' = [key EXCEPT ![b] = NextKey(k, f)]
    /\ StateDifficulty(b)
    /\ total' = [total EXCEPT ![b] = total[p] - difficulty[p]]
    /\ solvedFor' = [solvedFor EXCEPT ![b] = f]

(* A new block b on the block p, with the key that the seeds of k yield;   *)
(* f is the proposal the seal was solved for.                              *)
Seal(b, p, k, f, n) ==
    /\ sealed' = b
    /\ parent' = [parent EXCEPT ![b] = p]
    /\ number' = [number EXCEPT ![b] = number[p] + 1]
    /\ author' = [author EXCEPT ![b] = n]
    /\ keyFrom' = [keyFrom EXCEPT ![b] = k]
    /\ key' = [key EXCEPT ![b] = NextKey(k, f)]
    /\ StateDifficulty(b)
    /\ total' = [total EXCEPT ![b] = total[p] + difficulty[p]]
    /\ solvedFor' = [solvedFor EXCEPT ![b] = f]

Importing(b) == [stage |-> "verify", block |-> b, isBest |-> FALSE]

(* Bound: room for one more block beyond those of the seals that `submit'  *)
(* has verified and not yet attached to a build.                           *)
Room ==
    /\ sealed < MaxBlocks
    /\ sealed + Cardinality({n \in Nodes : pc[n] = "take"}) < MaxBlocks

(* `submit' verifies a copy of the build's metadata; the lock of the build *)
(* is released before it is taken again.                                   *)
SubmitVerified(n) ==
    /\ pc[n] = "submit"
    /\ SealFitsBuild(n)
    /\ Room
    /\ pc' = [pc EXCEPT ![n] = "take"]
    /\ UNCHANGED <<blockVars, workerVars, dbVars, metadata, seal, work,
                   miningNumber, import, found, restarts>>

(* `submit' takes the build there is now (the worker is left without one), *)
(* seals it and starts to import the block; the miner thread blocks on the *)
(* import.  The worker may have replaced the build since the seal was      *)
(* verified, but never removes one.                                        *)
Submit(n) ==
    /\ pc[n] = "take"
    /\ build[n] # None
    /\ sealed < MaxBlocks
    /\ Seal(sealed + 1, build[n], seal[n], work[n], n)
    /\ run' = [run EXCEPT ![sealed + 1] = restarts[n]]
    /\ build' = [build EXCEPT ![n] = None]
    /\ import' = [import EXCEPT ![n]["own"] = Importing(sealed + 1)]
    /\ pc' = [pc EXCEPT ![n] = "importing"]
    /\ UNCHANGED <<proposing, dbVars, metadata, seal, work, miningNumber,
                   found, restarts>>

-----------------------------------------------------------------------------
(* Block import: PowBlockImport, then DistBlockImport, then the client.    *)

(* The blocks a miner elsewhere may have: a node announces its own block   *)
(* once it is in its database.                                             *)
Announced ==
    {b \in 0..sealed : author[b] \in Remotes \/ \E m \in Nodes : b \in known[m]}

(* A miner elsewhere seals a block on any such block, with the key of that *)
(* block.                                                                  *)
RemoteSeal(r) ==
    /\ Room
    /\ \E p \in Announced : Seal(sealed + 1, p, p, p, r)
    /\ UNCHANGED <<run, workerVars, dbVars, minerVars, import, found,
                   restarts>>

Available(n, b) ==
    author[b] \in Remotes \/ \E m \in Nodes \ {n} : b \in known[m]

(* Mutant: blocks are imported before their parents.                       *)
ReceiveOrphan(n, b) ==
    /\ import[n]["queue"] = Idle
    /\ b \notin known[n]
    /\ Available(n, b)
    /\ import' = [import EXCEPT ![n]["queue"] = Importing(b)]
    /\ UNCHANGED <<blockVars, workerVars, dbVars, minerVars, found,
                   restarts>>

(* Mutant: only blocks on top of the best block are imported.              *)
ReceiveOnBest(n, b) ==
    /\ import[n]["queue"] = Idle
    /\ b \notin known[n]
    /\ parent[b] = best[n]
    /\ Available(n, b)
    /\ import' = [import EXCEPT ![n]["queue"] = Importing(b)]
    /\ UNCHANGED <<blockVars, workerVars, dbVars, minerVars, found,
                   restarts>>

(* The import queue takes up a block that a peer has and whose parent is   *)
(* here.                                                                   *)
Receive(n, b) ==
    /\ import[n]["queue"] = Idle
    /\ b \notin known[n]
    /\ parent[b] \in known[n]
    /\ Available(n, b)
    /\ import' = [import EXCEPT ![n]["queue"] = Importing(b)]
    /\ UNCHANGED <<blockVars, workerVars, dbVars, minerVars, found,
                   restarts>>

(* Mutant: the blocks' own difficulties are compared, not the totals.      *)
ForkChoiceByBlock(n, b) == difficulty[parent[b]] > difficulty[parent[best[n]]]

(* Fork choice of PowBlockImport: the block is to become the best one if   *)
(* its chain is heavier than the best chain of this moment (a tie keeps    *)
(* the current best).                                                      *)
ForkChoice(n, b) == total[b] > total[best[n]]

(* Mutant: the block is taken to be verified, by `submit' or by the peer.  *)
SealTrusted(b) == TRUE

(* What PowBlockImport verifies: the seal fits the header it came with.    *)
SealVerifies(b) == solvedFor[b] = parent[b]

VerifyAndChoose(n, i) ==
    /\ import[n][i].stage = "verify"
    /\ SealVerifies(import[n][i].block)
    /\ import' = [import EXCEPT
                    ![n][i].stage = "signal",
                    ![n][i].isBest = ForkChoice(n, import[n][i].block)]
    /\ UNCHANGED <<blockVars, workerVars, dbVars, minerVars, found,
                   restarts>>

(* PowBlockImport rejects the block: the seal of the miner's own block may *)
(* be that of the build before.  The flag is not touched; `submit' returns *)
(* and the block is gone.                                                  *)
InvalidSeal(n, i) ==
    /\ import[n][i].stage = "verify"
    /\ ~SealVerifies(import[n][i].block)
    /\ import' = [import EXCEPT ![n][i] = Idle]
    /\ IF i = "own" THEN NextIteration(n)
                    ELSE UNCHANGED <<pc, metadata, seal, work>>
    /\ UNCHANGED <<blockVars, workerVars, dbVars, miningNumber, found, restarts>>

(* DistBlockImport::import_block raises the flag before the inner import   *)
(* has done anything.                                                      *)
SignalFound(n, i) ==
    /\ import[n][i].stage = "signal"
    /\ found' = [found EXCEPT ![n] = TRUE]
    /\ import' = [import EXCEPT ![n][i].stage = "apply"]
    /\ UNCHANGED <<blockVars, workerVars, dbVars, minerVars, restarts>>

(* The client writes the block, and the best block as the fork choice made *)
(* earlier says.  If it was the miner's own block, `submit' returns.       *)
Apply(n, i) ==
    /\ import[n][i].stage = "apply"
    /\ LET b == import[n][i].block IN
        /\ known' = [known EXCEPT ![n] = @ \cup {b}]
        /\ best' = [best EXCEPT ![n] = IF import[n][i].isBest THEN b ELSE @]
    /\ import' = [import EXCEPT ![n][i] = Idle]
    /\ IF i = "own" THEN NextIteration(n)
                    ELSE UNCHANGED <<pc, metadata, seal, work>>
    /\ UNCHANGED <<blockVars, workerVars, miningNumber, found, restarts>>

(* An import fails: in PowBlockImport, before the flag is raised, or in    *)
(* the client, when the flag is up already and nobody takes it down.       *)
(* `submit' returns as it does when the import succeeds; the block and the *)
(* build it was made of are gone.                                          *)
ImportFails(n, i) ==
    /\ i \in Failing
    /\ import[n][i].stage \in {"verify", "apply"}
    /\ import' = [import EXCEPT ![n][i] = Idle]
    /\ IF i = "own" THEN NextIteration(n)
                    ELSE UNCHANGED <<pc, metadata, seal, work>>
    /\ UNCHANGED <<blockVars, workerVars, dbVars, miningNumber, found, restarts>>

-----------------------------------------------------------------------------
(* The process ends at any point and new_full runs again: a new worker, a  *)
(* new flag, a new miner thread and new import pipelines, on the same      *)
(* database, which has the blocks whose import had been applied.  A block  *)
(* of the node's own that was under import is lost.                        *)
Restart(n) ==
    /\ restarts[n] < MaxRestarts
    /\ restarts' = [restarts EXCEPT ![n] = @ + 1]
    /\ pc' = [pc EXCEPT ![n] = "start"]
    /\ metadata' = [metadata EXCEPT ![n] = None]
    /\ seal' = [seal EXCEPT ![n] = None]
    /\ work' = [work EXCEPT ![n] = None]
    /\ build' = [build EXCEPT ![n] = None]
    /\ proposing' = [proposing EXCEPT ![n] = None]
    /\ import' = [import EXCEPT ![n] = [i \in Importers |-> Idle]]
    /\ found' = [found EXCEPT ![n] = FALSE]
    /\ UNCHANGED <<blockVars, dbVars, miningNumber>>

(* Mutant: the seal of the best block is read before the metadata.         *)
MinerSealFirst(n) ==
    \/ /\ pc[n] = "metadata"
       /\ seal' = [seal EXCEPT ![n] = best[n]]
       /\ pc' = [pc EXCEPT ![n] = "findSeal"]
       /\ UNCHANGED <<blockVars, workerVars, dbVars, metadata, work,
                      miningNumber, import, found, restarts>>
    \/ /\ pc[n] = "findSeal"
       /\ metadata' = [metadata EXCEPT ![n] = build[n]]
       /\ pc' = [pc EXCEPT ![n] = "decide"]
       /\ UNCHANGED <<blockVars, workerVars, dbVars, seal, work, miningNumber,
                      import, found, restarts>>
    \/ Start(n) \/ Rest(n) \/ StartMining(n) \/ Solved(n) \/ Spoilt(n)
    \/ Cancelled(n) \/ Exhausted(n) \/ SubmitRejected(n)
    \/ SubmitVerified(n) \/ Submit(n)

Miner(n) ==
    \/ Start(n) \/ Metadata(n) \/ FindSeal(n) \/ Rest(n) \/ StartMining(n)
    \/ Solved(n) \/ Spoilt(n) \/ Cancelled(n) \/ Exhausted(n)
    \/ SubmitRejected(n) \/ SubmitVerified(n) \/ Submit(n)

Worker(n) == Propose(n) \/ OnBuild(n)

ImportStep(n, i) ==
    \/ VerifyAndChoose(n, i) \/ InvalidSeal(n, i)
    \/ SignalFound(n, i) \/ Apply(n, i)

Next ==
    \/ \E n \in Nodes : Miner(n)
    \/ \E n \in Nodes : Worker(n)
    \/ \E n \in Nodes, b \in 1..sealed : Receive(n, b)
    \/ \E n \in Nodes, i \in Importers : ImportStep(n, i) \/ ImportFails(n, i)
    \/ \E r \in Remotes : RemoteSeal(r)
    \/ \E n \in Nodes : Restart(n)

Spec == Init /\ [][Next]_vars

(***************************************************************************)
(* Fairness.  The threads of a node are scheduled, the worker wakes up on  *)
(* its timeout, an import once begun ends, and the network delivers the    *)
(* blocks that were sealed, again if their import failed, which does not   *)
(* happen for ever.  The solver returns, which is SearchEnds of module     *)
(* Search.  A search that is tried again and again succeeds in the end,    *)
(* with a seal that verifies: every attempt starts from another seed.      *)
(* Nothing is assumed of restarts and of remote miners.                    *)
(***************************************************************************)
Fairness ==
    /\ \A n \in Nodes :
        /\ WF_vars(Worker(n))
        /\ WF_vars(Start(n) \/ Metadata(n) \/ FindSeal(n) \/ Rest(n)
                    \/ StartMining(n))
        /\ WF_vars(SubmitRejected(n) \/ SubmitVerified(n) \/ Submit(n))
        /\ WF_vars(Solved(n) \/ Spoilt(n) \/ Cancelled(n) \/ Exhausted(n))
        /\ SF_vars(Solved(n))
        /\ WF_vars(\E b \in 1..sealed : Receive(n, b))
        /\ \A i \in Importers : WF_vars(ImportStep(n, i))
        /\ SF_vars(VerifyAndChoose(n, "queue")) /\ SF_vars(Apply(n, "queue"))

FairSpec == Spec /\ Fairness

-----------------------------------------------------------------------------
(* Safety.                                                                 *)

(* A node's database is closed under parents, also while the import queue  *)
(* and the miner import side by side: the best block, every known block's  *)
(* parent, and the parent of a block under import are known.               *)
KnownClosed ==
    \A n \in Nodes :
        /\ best[n] \in known[n]
        /\ \A b \in known[n] : parent[b] \in known[n]
        /\ \A i \in Importers :
              import[n][i] # Idle => parent[import[n][i].block] \in known[n]

(* A node never knows a child of its best block, although the fork choice  *)
(* is made before the import and another import may end in between: the    *)
(* miner is never sent to mine below a block that is already there.        *)
BestIsLeaf ==
    \A n \in Nodes : \A b \in known[n] \ {Genesis} : parent[b] # best[n]

(* A seal that was solved for another proposal than that of its block does *)
(* no harm: the block enters no database and raises no flag, and no other  *)
(* node ever begins to import it.  Such blocks are made: the worker may    *)
(* replace the build after `submit' has verified the seal and before it    *)
(* takes the build.                                                        *)
SolvedForOwnProposal ==
    \A n \in Nodes :
        /\ \A b \in known[n] \ {Genesis} : solvedFor[b] = parent[b]
        /\ \A i \in Importers :
              LET b == import[n][i].block IN
              import[n][i].stage \in {"signal", "apply"}
              \/ (i = "queue" /\ import[n][i] # Idle) => solvedFor[b] = parent[b]

(* In one run of its process, a node seals at most one block with the      *)
(* seeds of a given best block, genesis excepted: mining_number, which     *)
(* records a height only, is enough to mine on a best block once, although *)
(* the best block changes under the miner, also to blocks of lower number. *)
(* It says nothing of the key itself, which is the same for seeds of the   *)
(* same depth.                                                             *)
OneSealPerBest ==
    \A b, c \in 1..sealed :
        /\ author[b] \in Nodes /\ author[b] = author[c] /\ run[b] = run[c]
        /\ keyFrom[b] # Genesis /\ keyFrom[b] = keyFrom[c]
        => b = c

(* a is a proper ancestor of b: every set of blocks that has the parent of *)
(* b and, with each block, the parent of that block, has a.                *)
Ancestor(a, b) ==
    /\ b # Genesis
    /\ \A S \in SUBSET (0..sealed) :
          parent[b] \in S /\ (\A x \in S : parent[x] \in S) => a \in S

(* The key of an imported block is never older than the block it is built *)
(* on: the loop reads the worker's metadata before it reads the seal of    *)
(* the best block, and a build that came later is not sealed with it.      *)
KeyNotBehind ==
    \A n \in Nodes : \A b \in known[n] \ {Genesis} :
        ~Ancestor(keyFrom[b], parent[b])

(* The public key mined in a block is derived from the seeds of the        *)
(* previous block, so that the key of a given height can be told in        *)
(* advance: after as many derivations as the block's number, that of the   *)
(* difficulty the previous block asks for.                                 *)
KeyFromPreviousBlock ==
    \A n \in Nodes : \A b \in known[n] :
        key[b] = [depth |-> number[b], difficulty |-> difficulty[parent[b]]]

-----------------------------------------------------------------------------
(* Liveness.                                                               *)

(* As long as the chain is at genesis the miner starts over after every    *)
(* failed or cancelled search, and so the first block is mined.            *)
LeavesGenesis == \A n \in Nodes : (best[n] = Genesis) ~> (best[n] # Genesis)

(* The worker's build catches up with the best block.                      *)
BuildCatchesUp ==
    \A n \in Nodes, b \in Block :
        (best[n] = b) ~> (build[n] = b \/ best[n] # b)

(* A block that a peer has, or a remote miner sealed, is imported.         *)
BlocksArrive ==
    \A n \in Nodes, b \in Block \ {Genesis} :
        (b <= sealed /\ Available(n, b)) ~> (b \in known[n])

(* A node that was started mines, also on a best block it has mined on     *)
(* before it stopped.                                                      *)
MinesAfterStart ==
    \A n \in Nodes : (pc[n] = "start") ~> (pc[n] = "solve")

(* The miner of n has not mined at the height of b in this run of its      *)
(* process and holds no seal of that height.                               *)
Fresh(n, b) ==
    \/ pc[n] = "start"
    \/ /\ miningNumber[n] # number[b]
       /\ seal[n] = None \/ number[seal[n]] # number[b]

(* The miner searches with the seal of the best block unless that changes  *)
(* again, although lowering the flag may have wiped out the signal of the  *)
(* very import that made it the best one, and a search may be under way    *)
(* for an older one.  This holds for a best block of a height it has not   *)
(* mined at: after a switch to a sibling it rests.                         *)
TurnsToBest ==
    \A n \in Nodes, b \in Block :
        (best[n] = b /\ Fresh(n, b)) ~>
            (best[n] # b \/ (pc[n] = "solve" /\ seal[n] = b))

-----------------------------------------------------------------------------
(* The search as the rest of the node sees it.                             *)
Stage(n) ==
    IF pc[n] = "solve" THEN "running"
    ELSE IF pc[n] \notin {"submit", "take"} THEN "idle"
    ELSE IF work[n] = metadata[n] THEN "found" ELSE "spoilt"

Solver(n) == INSTANCE Search WITH stage <- Stage(n), flag <- found[n],
                                  life <- restarts[n]

(* Every miner uses its solver as module Search says, whatever the imports *)
(* do meanwhile and whenever the node stops: it lowers the flag only to    *)
(* begin a search, so that no signal is lost while one runs, and a seal    *)
(* comes with the flag up.                                                 *)
MinerUsesSearch ==
    /\ \A n \in Nodes : Solver(n)!SearchInit
    /\ [][\A n \in Nodes : [Solver(n)!SearchNext]_(Solver(n)!searchVars)]_vars

-----------------------------------------------------------------------------
(* The miner of n can only rest until a block reaches it from elsewhere:   *)
(* its own best block has the number it mined last, and no import is under *)
(* way or about to begin.                                                  *)
Waiting(n) ==
    /\ pc[n] \in {"metadata", "findSeal", "decide"}
    /\ pc[n] = "decide" => seal[n] = best[n]
    /\ miningNumber[n] # 0 /\ miningNumber[n] = number[best[n]]
    /\ \A i \in Importers : import[n][i] = Idle
    /\ \A b \in 1..sealed : Available(n, b) => b \in known[n]

(* A miner that rests does so for one second and then mines on: it never   *)
(* happens that every miner of the network waits for a block of another.   *)
SomeoneMines == \E n \in Nodes : ~Waiting(n)
=============================================================================
