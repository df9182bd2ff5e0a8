--------------------------- MODULE MiningNodeProofs ---------------------------
(***************************************************************************)
(* The database of a mining node, for any number of nodes, remote miners,  *)
(* blocks and difficulties.  The fork choice of an import may be stale     *)
(* when it is applied, because the import queue and the miner import side  *)
(* by side; what keeps the best block a leaf all the same is that a block  *)
(* which was not chosen does not extend the best block (its total would    *)
(* have been greater), and that no import can make its parent the best     *)
(* block later, since the parent is known and every import brings an       *)
(* unknown block.                                                          *)
(***************************************************************************)
EXTENDS MiningNode, TLAPS

(* Blocks extend older blocks and add their difficulty.                    *)
Tree ==
    \A b \in 1..sealed :
        /\ parent[b] \in 0..b-1
        /\ total[b] = total[parent[b]] + difficulty[parent[b]]

(* The miner decides, solves and submits with a seal it has read, and      *)
(* takes a build only for a seal that was verified.                        *)
SealRead ==
    \A n \in Nodes :
        /\ pc[n] \in {"decide", "solve", "submit", "take"} => seal[n] \in Block
        /\ pc[n] = "take" => work[n] \in Block

(* A miner elsewhere solves for the block it builds.                       *)
RemotesSolve ==
    \A b \in 1..sealed : author[b] \in Remotes => solvedFor[b] = parent[b]

(* An import is idle or brings a sealed block that is new to the node.     *)
ImportsNew ==
    \A n \in Nodes, i \in Importers :
        import[n][i] # Idle =>
            import[n][i].block \in 1..sealed /\ import[n][i].block \notin known[n]

IdleStage ==
    \A n \in Nodes, i \in Importers :
        import[n][i].stage = "idle" => import[n][i] = Idle

(* While a miner imports its own block nobody else has it.                 *)
OwnIsFresh ==
    \A n \in Nodes :
        LET b == import[n]["own"].block IN
        import[n]["own"] # Idle =>
            /\ author[b] = n
            /\ \A m \in Nodes :
                /\ b \notin known[m]
                /\ import[m]["queue"] # Idle => import[m]["queue"].block # b

(* The worker builds on blocks of the database.                            *)
BuildsKnown ==
    \A n \in Nodes :
        /\ build[n] # None => build[n] \in known[n]
        /\ proposing[n] # None => proposing[n] \in known[n]

(* A block that the fork choice passed over does not extend the best one.  *)
ChoiceStands ==
    \A n \in Nodes, i \in Importers :
        import[n][i].stage \in {"signal", "apply"} /\ ~import[n][i].isBest =>
            parent[import[n][i].block] # best[n]

IInv ==
    /\ TypeOK /\ Tree /\ SealRead /\ ImportsNew /\ IdleStage /\ OwnIsFresh
    /\ BuildsKnown /\ ChoiceStands /\ KnownClosed /\ BestIsLeaf
    /\ RemotesSolve /\ SolvedForOwnProposal

-----------------------------------------------------------------------------
LEMMA NoneIsNoBlock == None \notin Block /\ Genesis \in Block /\ Block \subseteq Nat
BY MaxBlocksAssumption DEF None, Block, Genesis

LEMMA IdleIsTyped == Idle \in ImportState /\ Idle.stage = "idle"
BY DEF Idle, ImportState

LEMMA BestIsBlock ==
    ASSUME TypeOK, NEW n \in Nodes
    PROVE  best[n] \in Block
<1>1. best[n] \in 0..sealed /\ sealed \in Block
  BY DEF TypeOK
<1> QED BY <1>1, MaxBlocksAssumption DEF Block

LEMMA SealedIsBlock ==
    ASSUME sealed \in Block, NEW c \in 1..sealed
    PROVE  c \in Block
BY MaxBlocksAssumption DEF Block

LEMMA InitIInv == Init => IInv
<1> SUFFICES ASSUME Init PROVE IInv
  OBVIOUS
<1>1. TypeOK
  <2>1. /\ sealed \in Block /\ parent \in [Block -> Block]
        /\ number \in [Block -> Nat] /\ keyFrom \in [Block -> Block]
        /\ total \in [Block -> Nat] /\ solvedFor \in [Block -> Block]
    BY NoneIsNoBlock DEF Init, Genesis
  <2>2. author \in [Block -> Nodes \cup Remotes]
    BY DEF Init
  <2>3. difficulty \in [Block -> Difficulties] /\ key \in [Block -> Keys]
    BY DEF Init, Keys
  <2>4. known \in [Nodes -> SUBSET (0..sealed)] /\ best \in [Nodes -> 0..sealed]
    BY DEF Init, Genesis
  <2>5. import \in [Nodes -> [Importers -> ImportState]]
    BY IdleIsTyped DEF Init
  <2>6. /\ run \in [Block -> Nat] /\ restarts \in [Nodes -> 0..MaxRestarts]
        /\ pc \in [Nodes -> Locations]
    BY RestartsAssumption DEF Init, Locations
  <2> QED BY <2>1, <2>2, <2>3, <2>4, <2>5, <2>6 DEF Init, TypeOK
<1>2. \A n \in Nodes, i \in Importers : import[n][i] = Idle
  BY DEF Init
<1>3. Tree /\ SealRead /\ BuildsKnown /\ RemotesSolve
  BY DEF Init, Tree, SealRead, BuildsKnown, RemotesSolve
<1>4. ImportsNew /\ IdleStage /\ OwnIsFresh /\ ChoiceStands
  BY <1>2, IdleIsTyped
     DEF ImportsNew, IdleStage, OwnIsFresh, ChoiceStands, Importers
<1>5. KnownClosed /\ BestIsLeaf /\ SolvedForOwnProposal
  BY <1>2, IdleIsTyped, NoneIsNoBlock
     DEF Init, KnownClosed, BestIsLeaf, SolvedForOwnProposal
<1> QED BY <1>1, <1>3, <1>4, <1>5 DEF IInv

-----------------------------------------------------------------------------
(* A step that leaves the blocks, the databases and the imports alone      *)
(* preserves the invariant if the worker and the miner keep theirs.        *)
LEMMA LocalStep ==
    ASSUME IInv, UNCHANGED <<blockVars, dbVars, import>>,
           build' \in [Nodes -> Block \cup {None}],
           proposing' \in [Nodes -> Block \cup {None}],
           metadata' \in [Nodes -> Block \cup {None}],
           seal' \in [Nodes -> Block \cup {None}],
           work' \in [Nodes -> Block \cup {None}],
           miningNumber' \in [Nodes -> Nat],
           found' \in [Nodes -> BOOLEAN],
           restarts' \in [Nodes -> 0..MaxRestarts],
           pc' \in [Nodes -> Locations],
           SealRead', BuildsKnown'
    PROVE  IInv'
<1>1. /\ sealed' = sealed /\ parent' = parent /\ number' = number
      /\ author' = author /\ keyFrom' = keyFrom /\ key' = key
      /\ difficulty' = difficulty /\ total' = total /\ solvedFor' = solvedFor
      /\ run' = run
      /\ known' = known /\ best' = best /\ import' = import
  BY DEF blockVars, dbVars
<1>2. TypeOK'
  BY <1>1 DEF IInv, TypeOK
<1>3. Tree' /\ RemotesSolve' /\ SolvedForOwnProposal' /\ BestIsLeaf'
  BY <1>1 DEF IInv, Tree, RemotesSolve, SolvedForOwnProposal, BestIsLeaf
<1>4. ImportsNew' /\ IdleStage' /\ OwnIsFresh' /\ ChoiceStands' /\ KnownClosed'
  BY <1>1 DEF IInv, ImportsNew, IdleStage, OwnIsFresh, ChoiceStands, KnownClosed
<1> QED BY <1>2, <1>3, <1>4 DEF IInv

(* At the end of an iteration the miner forgets what it has read.          *)
LEMMA IterationEnds ==
    ASSUME IInv, NEW n \in Nodes, NextIteration(n)
    PROVE  /\ pc' \in [Nodes -> Locations]
           /\ metadata' \in [Nodes -> Block \cup {None}]
           /\ seal' \in [Nodes -> Block \cup {None}]
           /\ work' \in [Nodes -> Block \cup {None}]
           /\ SealRead'
<1>1. /\ pc' \in [Nodes -> Locations]
      /\ metadata' \in [Nodes -> Block \cup {None}]
      /\ seal' \in [Nodes -> Block \cup {None}]
      /\ work' \in [Nodes -> Block \cup {None}]
  BY DEF NextIteration, IInv, TypeOK, Locations
<1>2. /\ pc'[n] = "metadata"
      /\ \A m \in Nodes \ {n} :
            pc'[m] = pc[m] /\ seal'[m] = seal[m] /\ work'[m] = work[m]
  BY DEF NextIteration, IInv, TypeOK
<1> QED BY <1>1, <1>2 DEF IInv, SealRead

LEMMA WorkerIInv ==
    ASSUME IInv, NEW n \in Nodes, Worker(n)
    PROVE  IInv'
<1>1. CASE Propose(n)
  <2>1. best[n] \in Block /\ best[n] \in known[n]
    BY BestIsBlock DEF IInv, KnownClosed
  <2>2. BuildsKnown'
    BY <1>1, <2>1 DEF Propose, dbVars, IInv, TypeOK, BuildsKnown
  <2> QED BY <1>1, <2>1, <2>2, LocalStep
          DEF Propose, IInv, TypeOK, minerVars, SealRead
<1>2. CASE OnBuild(n)
  <2>1. BuildsKnown'
    BY <1>2 DEF OnBuild, dbVars, IInv, TypeOK, BuildsKnown
  <2> QED BY <1>2, <2>1, LocalStep
          DEF OnBuild, IInv, TypeOK, minerVars, SealRead
<1> QED BY <1>1, <1>2 DEF Worker

(* The miner's steps but for the one that seals a block.                   *)
LEMMA MinerIInv ==
    ASSUME IInv, NEW n \in Nodes, Miner(n), ~Submit(n)
    PROVE  IInv'
<1> USE DEF NextIteration, workerVars, Locations
<1>1. /\ UNCHANGED <<blockVars, dbVars, import>>
      /\ build' = build /\ proposing' = proposing /\ known' = known
      /\ restarts' = restarts
  BY DEF Miner, Start, NewSeal, Spoilt, Metadata, FindSeal, Rest, StartMining, Solved, Cancelled,
         Exhausted, SubmitRejected, SubmitVerified, dbVars
<1>2. BuildsKnown'
  BY <1>1 DEF IInv, BuildsKnown
<1>3. CASE Metadata(n)
  BY <1>1, <1>2, <1>3, LocalStep DEF Metadata, IInv, TypeOK, SealRead
<1>4. CASE FindSeal(n)
  <2>1. best[n] \in Block
    BY BestIsBlock DEF IInv
  <2> QED BY <1>1, <1>2, <1>4, <2>1, LocalStep
          DEF FindSeal, IInv, TypeOK, SealRead
<1>5. CASE Rest(n) \/ Cancelled(n) \/ Exhausted(n) \/ SubmitRejected(n)
  <2>1. /\ NextIteration(n)
        /\ miningNumber' = miningNumber /\ found' = found
    BY <1>5 DEF Rest, Cancelled, Exhausted, SubmitRejected
  <2>2. /\ pc' \in [Nodes -> Locations]
        /\ metadata' \in [Nodes -> Block \cup {None}]
        /\ seal' \in [Nodes -> Block \cup {None}]
        /\ work' \in [Nodes -> Block \cup {None}]
        /\ SealRead'
    BY <2>1, IterationEnds
  <2> HIDE DEF NextIteration, Locations
  <2> QED BY <1>1, <1>2, <2>1, <2>2, LocalStep DEF IInv, TypeOK
<1>6. CASE StartMining(n)
  <2>1. number[seal[n]] \in Nat
    BY <1>6 DEF StartMining, IInv, TypeOK, SealRead
  <2> QED BY <1>1, <1>2, <1>6, <2>1, LocalStep
          DEF StartMining, IInv, TypeOK, SealRead
<1>7. CASE Solved(n) \/ Spoilt(n)
  BY <1>1, <1>2, <1>7, LocalStep
     DEF Solved, Spoilt, NewSeal, IInv, TypeOK, SealRead
<1>8. CASE Start(n)
  BY <1>1, <1>2, <1>8, LocalStep DEF Start, IInv, TypeOK, SealRead
<1>9. CASE SubmitVerified(n)
  <2>1. work[n] \in Block
    BY <1>9, NoneIsNoBlock DEF SubmitVerified, SealFitsBuild, IInv, TypeOK
  <2> QED BY <1>1, <1>2, <1>9, <2>1, LocalStep
          DEF SubmitVerified, IInv, TypeOK, SealRead
<1> QED BY <1>3, <1>4, <1>5, <1>6, <1>7, <1>8, <1>9 DEF Miner

-----------------------------------------------------------------------------
(* A new block leaves the older ones alone and is typed like them.         *)
LEMMA SealedBlock ==
    ASSUME IInv, NEW p \in 0..sealed, NEW k \in Block, NEW f \in Block,
           NEW a \in Nodes \cup Remotes, sealed < MaxBlocks,
           Seal(sealed + 1, p, k, f, a)
    PROVE  /\ sealed' = sealed + 1 /\ sealed' \in Block
           /\ parent'[sealed + 1] = p /\ author'[sealed + 1] = a
           /\ solvedFor'[sealed + 1] = f
           /\ \A b \in 0..sealed :
                /\ parent'[b] = parent[b] /\ author'[b] = author[b]
                /\ solvedFor'[b] = solvedFor[b]
           /\ parent' \in [Block -> Block] /\ number' \in [Block -> Nat]
           /\ author' \in [Block -> Nodes \cup Remotes]
           /\ keyFrom' \in [Block -> Block] /\ key' \in [Block -> Keys]
           /\ difficulty' \in [Block -> Difficulties]
           /\ total' \in [Block -> Nat] /\ solvedFor' \in [Block -> Block]
           /\ Tree'
<1> DEFINE b == sealed + 1
<1>1. /\ sealed \in Nat /\ sealed' = b /\ b \in Block /\ p \in Block /\ b # p
      /\ 0..sealed \subseteq Block /\ b \notin 0..sealed
  <2>1. sealed' = b
    BY DEF Seal
  <2>2. sealed \in 0..MaxBlocks /\ MaxBlocks \in Nat
    BY MaxBlocksAssumption DEF IInv, TypeOK, Block
  <2> QED BY <2>1, <2>2 DEF Block
<1>2. PICK d \in Difficulties : difficulty' = [difficulty EXCEPT ![b] = d]
  BY DEF Seal, StateDifficulty
<1>3. /\ parent' = [parent EXCEPT ![b] = p] /\ author' = [author EXCEPT ![b] = a]
      /\ number' = [number EXCEPT ![b] = number[p] + 1]
      /\ keyFrom' = [keyFrom EXCEPT ![b] = k]
      /\ key' = [key EXCEPT ![b] = NextKey(k, f)]
      /\ total' = [total EXCEPT ![b] = total[p] + difficulty[p]]
      /\ solvedFor' = [solvedFor EXCEPT ![b] = f]
  BY DEF Seal
<1>4. /\ number[p] + 1 \in Nat /\ NextKey(k, f) \in Keys
      /\ total[p] + difficulty[p] \in Nat
  <2>1. number[p] \in Nat /\ key[k] \in Keys /\ total[p] \in Nat
    BY <1>1 DEF IInv, TypeOK
  <2>2. difficulty[p] \in Nat /\ difficulty[f] \in Difficulties
    BY <1>1, DifficultiesAssumption DEF IInv, TypeOK
  <2> QED BY <2>1, <2>2 DEF NextKey, Keys
<1> HIDE DEF b
<1>5. /\ parent' \in [Block -> Block] /\ number' \in [Block -> Nat]
      /\ author' \in [Block -> Nodes \cup Remotes]
      /\ keyFrom' \in [Block -> Block] /\ key' \in [Block -> Keys]
  BY <1>1, <1>3, <1>4 DEF IInv, TypeOK
<1>6. /\ difficulty' \in [Block -> Difficulties]
      /\ total' \in [Block -> Nat] /\ solvedFor' \in [Block -> Block]
  BY <1>1, <1>2, <1>3, <1>4 DEF IInv, TypeOK
<1>7. \A c \in 0..sealed :
        /\ parent'[c] = parent[c] /\ author'[c] = author[c]
        /\ total'[c] = total[c] /\ difficulty'[c] = difficulty[c]
        /\ solvedFor'[c] = solvedFor[c]
  BY <1>1, <1>2, <1>3 DEF IInv, TypeOK
<1>8. /\ parent'[b] = p /\ author'[b] = a /\ solvedFor'[b] = f
      /\ total'[b] = total[p] + difficulty[p]
  BY <1>1, <1>3 DEF IInv, TypeOK
<1>9. \A c \in 1..sealed' : c \in 1..sealed \/ c = b
  BY <1>1 DEF b
<1>10. Tree'
  <2> SUFFICES ASSUME NEW c \in 1..sealed'
               PROVE  /\ parent'[c] \in 0..c-1
                      /\ total'[c] = total'[parent'[c]] + difficulty'[parent'[c]]
    BY DEF Tree
  <2>1. CASE c \in 1..sealed
    <3>1. c \in 0..sealed /\ parent[c] \in 0..sealed /\ parent[c] \in 0..c-1
      BY <1>1, <2>1 DEF IInv, Tree
    <3>2. total[c] = total[parent[c]] + difficulty[parent[c]]
      BY <2>1 DEF IInv, Tree
    <3> QED BY <1>7, <3>1, <3>2
  <2>2. CASE c = b
    <3>1. p \in 0..c-1
      BY <1>1, <2>2 DEF b
    <3> QED BY <1>7, <1>8, <2>2, <3>1
  <2> QED BY <1>9, <2>1, <2>2
<1> QED BY <1>1, <1>5, <1>6, <1>7, <1>8, <1>10 DEF b

(* What a new block leaves to show of the invariant.                       *)
LEMMA OldBlocksKeep ==
    ASSUME IInv, NEW p \in 0..sealed, NEW k \in Block, NEW f \in Block,
           NEW a \in Nodes \cup Remotes, sealed < MaxBlocks,
           Seal(sealed + 1, p, k, f, a), UNCHANGED dbVars,
           a \in Remotes => f = p,
           \A n \in Nodes, i \in Importers :
              \/ import'[n][i] = import[n][i]
              \/ i = "own" /\ import'[n][i].stage = "verify"
    PROVE  /\ BestIsLeaf' /\ RemotesSolve' /\ SolvedForOwnProposal'
           /\ \A n \in Nodes : sealed + 1 \notin known[n]
           /\ \A n \in Nodes, i \in Importers :
                import[n][i] # Idle => import[n][i].block # sealed + 1
           /\ known' \in [Nodes -> SUBSET (0..sealed')]
           /\ best' \in [Nodes -> 0..sealed']
<1>1. known' = known /\ best' = best /\ sealed \in Nat
  BY DEF dbVars, IInv, TypeOK, Block
<1>2. /\ sealed' = sealed + 1
      /\ parent'[sealed + 1] = p /\ author'[sealed + 1] = a
      /\ solvedFor'[sealed + 1] = f
      /\ \A b \in 0..sealed : /\ parent'[b] = parent[b] /\ author'[b] = author[b]
                               /\ solvedFor'[b] = solvedFor[b]
  BY SealedBlock
<1>3. \A n \in Nodes : known[n] \subseteq 0..sealed /\ best[n] \in 0..sealed
  BY DEF IInv, TypeOK
<1>4. BestIsLeaf'
  BY <1>1, <1>2, <1>3 DEF IInv, BestIsLeaf
<1>5. \A n \in Nodes : sealed + 1 \notin known[n]
  BY <1>1, <1>3
<1>6. \A n \in Nodes, i \in Importers :
        import[n][i] # Idle => import[n][i].block # sealed + 1
  BY <1>1 DEF IInv, ImportsNew
<1>7. 0..sealed \subseteq 0..sealed'
  BY <1>1, <1>2
<1>8. known' \in [Nodes -> SUBSET (0..sealed')] /\ best' \in [Nodes -> 0..sealed']
  BY <1>1, <1>7 DEF IInv, TypeOK
<1>9. RemotesSolve'
  <2>1. \A b \in 1..sealed' : b \in 1..sealed \/ b = sealed + 1
    BY <1>1, <1>2
  <2> QED BY <1>2, <2>1 DEF IInv, RemotesSolve
<1>10. SolvedForOwnProposal'
  <2>1. \A n \in Nodes : \A b \in known'[n] \ {Genesis} : solvedFor'[b] = parent'[b]
    BY <1>1, <1>2, <1>3 DEF IInv, SolvedForOwnProposal
  <2>2. ASSUME NEW n \in Nodes, NEW i \in Importers,
               \/ import'[n][i].stage \in {"signal", "apply"}
               \/ i = "queue" /\ import'[n][i] # Idle
        PROVE  solvedFor'[import'[n][i].block] = parent'[import'[n][i].block]
    <3>1. import'[n][i] = import[n][i] /\ import[n][i] # Idle
      BY <2>2, IdleIsTyped
    <3>2. import[n][i].block \in 0..sealed
      BY <3>1, <1>1 DEF IInv, ImportsNew
    <3> QED BY <2>2, <3>1, <3>2, <1>2 DEF IInv, SolvedForOwnProposal
  <2> QED BY <2>1, <2>2 DEF SolvedForOwnProposal
<1> QED BY <1>4, <1>5, <1>6, <1>8, <1>9, <1>10

LEMMA RemoteSealIInv ==
    ASSUME IInv, NEW r \in Remotes, RemoteSeal(r)
    PROVE  IInv'
<1>1. sealed < MaxBlocks /\ UNCHANGED <<run, workerVars, dbVars, minerVars, import, found, restarts>>
  BY DEF RemoteSeal, Room
<1>2. PICK p \in 0..sealed : Seal(sealed + 1, p, p, p, r)
  BY DEF RemoteSeal, Announced
<1>3. p \in Block /\ sealed \in Nat
  BY MaxBlocksAssumption DEF IInv, TypeOK, Block
<1>4. /\ run' = run
      /\ build' = build /\ proposing' = proposing /\ known' = known
      /\ best' = best /\ import' = import /\ found' = found /\ pc' = pc
      /\ metadata' = metadata /\ seal' = seal /\ miningNumber' = miningNumber
      /\ work' = work /\ restarts' = restarts
  BY <1>1 DEF workerVars, dbVars, minerVars
<1>5. /\ sealed' = sealed + 1
      /\ \A b \in 0..sealed : parent'[b] = parent[b] /\ author'[b] = author[b]
      /\ Tree'
  BY <1>1, <1>2, <1>3, SealedBlock
<1>6. TypeOK'
  <2>1. known' \in [Nodes -> SUBSET (0..sealed')] /\ best' \in [Nodes -> 0..sealed']
    BY <1>1, <1>2, <1>3, <1>4, OldBlocksKeep
  <2>2. /\ sealed' \in Block
        /\ parent' \in [Block -> Block] /\ number' \in [Block -> Nat]
        /\ author' \in [Block -> Nodes \cup Remotes]
        /\ keyFrom' \in [Block -> Block] /\ key' \in [Block -> Keys]
        /\ difficulty' \in [Block -> Difficulties]
        /\ total' \in [Block -> Nat] /\ solvedFor' \in [Block -> Block]
    BY <1>1, <1>2, <1>3, SealedBlock
  <2> QED BY <1>4, <2>1, <2>2 DEF IInv, TypeOK
<1>7. SealRead' /\ BuildsKnown' /\ IdleStage'
  BY <1>4 DEF IInv, SealRead, BuildsKnown, IdleStage
<1>8. \A n \in Nodes, i \in Importers : import[n][i] # Idle =>
        import[n][i].block \in 0..sealed /\ import[n][i].block \in 1..sealed'
  BY <1>3, <1>5 DEF IInv, ImportsNew
<1>9. ImportsNew'
  BY <1>4, <1>8 DEF IInv, ImportsNew
<1>10. OwnIsFresh'
  BY <1>4, <1>5, <1>8 DEF IInv, OwnIsFresh, Importers
<1>11. ChoiceStands'
  BY <1>4, <1>5, <1>8, IdleIsTyped DEF IInv, ChoiceStands
<1>12. KnownClosed'
  <2>1. \A n \in Nodes : known[n] \subseteq 0..sealed
    BY DEF IInv, TypeOK
  <2> QED BY <1>4, <1>5, <1>8, <2>1 DEF IInv, KnownClosed
<1>13. BestIsLeaf' /\ RemotesSolve' /\ SolvedForOwnProposal'
  BY <1>1, <1>2, <1>3, <1>4, OldBlocksKeep
<1> QED BY <1>5, <1>6, <1>7, <1>9, <1>10, <1>11, <1>12, <1>13 DEF IInv

LEMMA SubmitIInv ==
    ASSUME IInv, NEW n \in Nodes, Submit(n)
    PROVE  IInv'
<1> DEFINE p == build[n]
           new == sealed + 1
<1>1. /\ sealed < MaxBlocks /\ UNCHANGED dbVars
      /\ known' = known /\ best' = best /\ found' = found
      /\ proposing' = proposing /\ metadata' = metadata /\ seal' = seal
      /\ work' = work /\ miningNumber' = miningNumber /\ restarts' = restarts
      /\ build' = [build EXCEPT ![n] = None]
      /\ pc' = [pc EXCEPT ![n] = "importing"]
      /\ import' = [import EXCEPT ![n]["own"] = Importing(new)]
  BY DEF Submit, dbVars
<1>2. /\ p \in known[n] /\ p \in 0..sealed
      /\ seal[n] \in Block /\ work[n] \in Block
  BY DEF Submit, IInv, TypeOK, BuildsKnown, SealRead
<1>3. Seal(new, p, seal[n], work[n], n)
  BY DEF Submit
<1>4. sealed \in Nat
  BY DEF IInv, TypeOK, Block
<1>5. /\ sealed' = new /\ sealed' \in Block /\ parent'[new] = p /\ author'[new] = n
      /\ \A b \in 0..sealed : parent'[b] = parent[b] /\ author'[b] = author[b]
      /\ Tree'
  BY <1>1, <1>2, <1>3, SealedBlock
<1>6. /\ Importing(new) \in ImportState /\ Importing(new) # Idle
      /\ Importing(new).block = new /\ Importing(new).stage = "verify"
  BY <1>5 DEF Importing, ImportState, Idle
<1>7. /\ import'[n]["own"] = Importing(new)
      /\ \A m \in Nodes, i \in Importers :
            m # n \/ i # "own" => import'[m][i] = import[m][i]
  BY <1>1 DEF IInv, TypeOK, Importers
<1>8. /\ BestIsLeaf' /\ RemotesSolve' /\ SolvedForOwnProposal'
      /\ known' \in [Nodes -> SUBSET (0..sealed')] /\ best' \in [Nodes -> 0..sealed']
      /\ \A m \in Nodes : new \notin known[m]
      /\ \A m \in Nodes, i \in Importers :
            import[m][i] # Idle => import[m][i].block # new
  <2>1. n \notin Remotes
    BY NodesAssumption
  <2> QED BY <1>1, <1>2, <1>3, <1>6, <1>7, <2>1, OldBlocksKeep
<1> HIDE DEF p, new
<1>9. TypeOK'
  <2>1. import' \in [Nodes -> [Importers -> ImportState]]
    BY <1>1, <1>6 DEF IInv, TypeOK, Importers
  <2>2. known' \in [Nodes -> SUBSET (0..sealed')] /\ best' \in [Nodes -> 0..sealed']
    BY <1>8
  <2>3. /\ parent' \in [Block -> Block] /\ number' \in [Block -> Nat]
        /\ author' \in [Block -> Nodes \cup Remotes]
        /\ keyFrom' \in [Block -> Block] /\ key' \in [Block -> Keys]
        /\ difficulty' \in [Block -> Difficulties]
        /\ total' \in [Block -> Nat] /\ solvedFor' \in [Block -> Block]
    BY <1>1, <1>2, <1>3, SealedBlock DEF new
  <2>4. run' \in [Block -> Nat]
    BY <1>5, RestartsAssumption DEF Submit, IInv, TypeOK, new
  <2> QED BY <1>1, <1>5, <2>1, <2>2, <2>3, <2>4 DEF IInv, TypeOK, Locations
<1>10. SealRead' /\ BuildsKnown'
  BY <1>1 DEF IInv, TypeOK, SealRead, BuildsKnown
<1>11. \A m \in Nodes, i \in Importers : import[m][i] # Idle =>
        import[m][i].block \in 0..sealed /\ import[m][i].block \in 1..sealed'
  BY <1>4, <1>5 DEF IInv, ImportsNew, new
<1>12. ImportsNew'
  <2>1. new \in 1..sealed'
    BY <1>4, <1>5 DEF new
  <2> QED BY <1>1, <1>6, <1>7, <1>8, <1>11, <2>1 DEF IInv, ImportsNew
<1>13. IdleStage'
  BY <1>6, <1>7 DEF IInv, IdleStage
<1>14. OwnIsFresh'
  <2> SUFFICES ASSUME NEW m \in Nodes, import'[m]["own"] # Idle
               PROVE  LET b == import'[m]["own"].block IN
                      /\ author'[b] = m
                      /\ \A q \in Nodes :
                          /\ b \notin known'[q]
                          /\ import'[q]["queue"] # Idle =>
                                import'[q]["queue"].block # b
    BY DEF OwnIsFresh
  <2>1. CASE m = n
    BY <2>1, <1>1, <1>5, <1>6, <1>7, <1>8 DEF Importers
  <2>2. CASE m # n
    BY <2>2, <1>1, <1>5, <1>7, <1>11 DEF IInv, OwnIsFresh, Importers
  <2> QED BY <2>1, <2>2
<1>15. ChoiceStands'
  BY <1>1, <1>5, <1>6, <1>7, <1>11, IdleIsTyped DEF IInv, ChoiceStands
<1>16. KnownClosed'
  <2>1. \A m \in Nodes : known[m] \subseteq 0..sealed
    BY DEF IInv, TypeOK
  <2>2. \A m \in Nodes : best'[m] \in known'[m]
    BY <1>1 DEF IInv, KnownClosed
  <2>3. \A m \in Nodes : \A b \in known'[m] : parent'[b] \in known'[m]
    BY <1>1, <1>5, <2>1 DEF IInv, KnownClosed
  <2>4. \A m \in Nodes, i \in Importers :
          import'[m][i] # Idle => parent'[import'[m][i].block] \in known'[m]
    BY <1>1, <1>2, <1>5, <1>6, <1>7, <1>11 DEF IInv, KnownClosed
  <2> QED BY <2>2, <2>3, <2>4 DEF KnownClosed
<1> QED BY <1>5, <1>8, <1>9, <1>10, <1>12, <1>13, <1>14, <1>15, <1>16 DEF IInv

-----------------------------------------------------------------------------
LEMMA ReceiveIInv ==
    ASSUME IInv, NEW n \in Nodes, NEW b \in 1..sealed, Receive(n, b)
    PROVE  IInv'
<1>1. /\ b \notin known[n] /\ parent[b] \in known[n] /\ Available(n, b)
      /\ import' = [import EXCEPT ![n]["queue"] = Importing(b)]
      /\ UNCHANGED <<blockVars, workerVars, dbVars, minerVars, found, restarts>>
  BY DEF Receive
<1>2. /\ sealed' = sealed /\ parent' = parent /\ number' = number
      /\ author' = author /\ keyFrom' = keyFrom /\ key' = key
      /\ difficulty' = difficulty /\ total' = total /\ solvedFor' = solvedFor
      /\ run' = run
      /\ known' = known /\ best' = best /\ build' = build
      /\ proposing' = proposing /\ found' = found /\ pc' = pc
      /\ metadata' = metadata /\ seal' = seal /\ miningNumber' = miningNumber
      /\ work' = work /\ restarts' = restarts
  BY <1>1 DEF blockVars, workerVars, dbVars, minerVars
<1>3. b \in Block
  BY MaxBlocksAssumption DEF IInv, TypeOK, Block
<1>4. /\ Importing(b) \in ImportState /\ Importing(b) # Idle
      /\ Importing(b).block = b /\ Importing(b).stage = "verify"
  BY <1>3 DEF Importing, ImportState, Idle
<1>5. /\ import'[n]["queue"] = Importing(b)
      /\ \A m \in Nodes, i \in Importers :
            m # n \/ i # "queue" => import'[m][i] = import[m][i]
  BY <1>1 DEF IInv, TypeOK, Importers
<1>6. TypeOK'
  <2>1. import' \in [Nodes -> [Importers -> ImportState]]
    BY <1>1, <1>4 DEF IInv, TypeOK, Importers
  <2> QED BY <1>2, <2>1 DEF IInv, TypeOK
<1>7. /\ Tree' /\ SealRead' /\ BuildsKnown' /\ BestIsLeaf' /\ RemotesSolve'
  BY <1>2 DEF IInv, Tree, SealRead, BuildsKnown, BestIsLeaf, RemotesSolve
<1>8. ImportsNew' /\ IdleStage' /\ ChoiceStands'
  BY <1>1, <1>2, <1>4, <1>5 DEF IInv, ImportsNew, IdleStage, ChoiceStands
<1>9. KnownClosed'
  BY <1>1, <1>2, <1>4, <1>5 DEF IInv, KnownClosed
<1>10. \A m \in Nodes : import[m]["own"] # Idle => import[m]["own"].block # b
  BY <1>1, NodesAssumption DEF Available, IInv, OwnIsFresh
<1>11. OwnIsFresh'
  BY <1>2, <1>4, <1>5, <1>10 DEF IInv, OwnIsFresh, Importers
<1>12. SolvedForOwnProposal'
  <2>1. solvedFor[b] = parent[b]
    <3>1. CASE author[b] \in Remotes
      BY <3>1 DEF IInv, RemotesSolve
    <3>2. CASE \E m \in Nodes \ {n} : b \in known[m]
      BY <3>2, <1>3 DEF IInv, SolvedForOwnProposal, Genesis
    <3> QED BY <1>1, <3>1, <3>2 DEF Available
  <2> QED BY <1>2, <1>4, <1>5, <2>1 DEF IInv, SolvedForOwnProposal, Importers
<1> QED BY <1>6, <1>7, <1>8, <1>9, <1>11, <1>12 DEF IInv

(* The two steps of an import before it is applied change its record only, *)
(* and never the block; a block that is passed over does not extend the    *)
(* best block.                                                             *)
LEMMA ChoiceIInv ==
    ASSUME IInv, NEW n \in Nodes, NEW i \in Importers,
           VerifyAndChoose(n, i) \/ SignalFound(n, i)
    PROVE  IInv'
<1> DEFINE b == import[n][i].block
<1>1. /\ UNCHANGED <<blockVars, workerVars, dbVars, minerVars, restarts>>
      /\ found' \in [Nodes -> BOOLEAN]
  BY DEF VerifyAndChoose, SignalFound, IInv, TypeOK
<1>2. /\ sealed' = sealed /\ parent' = parent /\ number' = number
      /\ author' = author /\ keyFrom' = keyFrom /\ key' = key
      /\ difficulty' = difficulty /\ total' = total /\ solvedFor' = solvedFor
      /\ run' = run
      /\ known' = known /\ best' = best /\ build' = build
      /\ proposing' = proposing /\ pc' = pc
      /\ metadata' = metadata /\ seal' = seal /\ miningNumber' = miningNumber
      /\ work' = work /\ restarts' = restarts
  BY <1>1 DEF blockVars, workerVars, dbVars, minerVars
<1>3. /\ import[n][i] \in ImportState /\ import[n][i].stage # "idle"
      /\ import[n][i] # Idle
  BY IdleIsTyped DEF VerifyAndChoose, SignalFound, IInv, TypeOK
<1>4. b \in 1..sealed /\ b \notin known[n] /\ parent[b] \in known[n]
  BY <1>3 DEF IInv, ImportsNew, KnownClosed
<1>5. /\ import' \in [Nodes -> [Importers -> ImportState]]
      /\ import'[n][i].block = b /\ import'[n][i].stage \in {"signal", "apply"}
      /\ \A m \in Nodes, j \in Importers :
            m # n \/ j # i => import'[m][j] = import[m][j]
  <2>1. CASE VerifyAndChoose(n, i)
    <3>1. ForkChoice(n, b) \in BOOLEAN
      BY DEF ForkChoice
    <3> QED BY <2>1, <3>1, <1>3 DEF VerifyAndChoose, IInv, TypeOK, ImportState
  <2>2. CASE SignalFound(n, i)
    BY <2>2, <1>3 DEF SignalFound, IInv, TypeOK, ImportState
  <2> QED BY <2>1, <2>2
<1>6. import'[n][i] # Idle
  BY <1>5, IdleIsTyped
<1>7. ~import'[n][i].isBest => parent[b] # best[n]
  <2>1. CASE VerifyAndChoose(n, i)
    <3>1. import'[n][i].isBest = ForkChoice(n, b)
      BY <2>1, <1>3 DEF VerifyAndChoose, IInv, TypeOK, ImportState
    <3>2. total[b] = total[parent[b]] + difficulty[parent[b]]
      BY <1>4 DEF IInv, Tree
    <3>3. parent[b] \in Block /\ best[n] \in Block /\ b \in Block
      <4>1. sealed \in Block /\ parent \in [Block -> Block] /\ best[n] \in Block
        BY BestIsBlock DEF IInv, TypeOK
      <4>2. b \in Block
        BY <1>4, <4>1, SealedIsBlock
      <4> QED BY <4>1, <4>2
    <3>4. /\ total[parent[b]] \in Nat /\ total[best[n]] \in Nat /\ total[b] \in Nat
          /\ difficulty[parent[b]] \in Nat \ {0}
      BY <3>3, DifficultiesAssumption DEF IInv, TypeOK
    <3>5. parent[b] = best[n] => total[b] > total[best[n]]
      BY <3>2, <3>4
    <3> QED BY <3>1, <3>5 DEF ForkChoice
  <2>2. CASE SignalFound(n, i)
    <3>1. import'[n][i].isBest = import[n][i].isBest /\ import[n][i].stage = "signal"
      BY <2>2, <1>3 DEF SignalFound, IInv, TypeOK, ImportState
    <3> QED BY <3>1 DEF IInv, ChoiceStands
  <2> QED BY <2>1, <2>2
<1> HIDE DEF b
<1>8. TypeOK'
  BY <1>1, <1>2, <1>5 DEF IInv, TypeOK
<1>9. /\ Tree' /\ SealRead' /\ BuildsKnown' /\ BestIsLeaf' /\ RemotesSolve'
  BY <1>2 DEF IInv, Tree, SealRead, BuildsKnown, BestIsLeaf, RemotesSolve
<1>10. ImportsNew' /\ IdleStage' /\ ChoiceStands'
  BY <1>2, <1>4, <1>5, <1>6, <1>7 DEF IInv, ImportsNew, IdleStage, ChoiceStands
<1>11. KnownClosed'
  BY <1>2, <1>4, <1>5 DEF IInv, KnownClosed
<1>12. OwnIsFresh'
  <2>1. \A m \in Nodes, j \in Importers :
          /\ import'[m][j].block = import[m][j].block
          /\ import'[m][j] # Idle => import[m][j] # Idle
    BY <1>3, <1>5 DEF b
  <2> QED BY <1>2, <2>1 DEF IInv, OwnIsFresh, Importers
<1>13. SolvedForOwnProposal'
  <2>1. solvedFor[b] = parent[b]
    BY DEF VerifyAndChoose, SealVerifies, SignalFound, IInv,
           SolvedForOwnProposal, b
  <2> QED BY <1>2, <1>3, <1>5, <2>1 DEF IInv, SolvedForOwnProposal
<1> QED BY <1>8, <1>9, <1>10, <1>11, <1>12, <1>13 DEF IInv

LEMMA ApplyIInv ==
    ASSUME IInv, NEW n \in Nodes, NEW i \in Importers, Apply(n, i)
    PROVE  IInv'
<1> DEFINE b == import[n][i].block
<1>1. /\ import[n][i].stage = "apply" /\ import[n][i] # Idle
      /\ UNCHANGED <<blockVars, workerVars, miningNumber, found, restarts>>
      /\ known' = [known EXCEPT ![n] = @ \cup {b}]
      /\ best' = [best EXCEPT ![n] = IF import[n][i].isBest THEN b ELSE @]
      /\ import' = [import EXCEPT ![n][i] = Idle]
  BY IdleIsTyped DEF Apply
<1>2. /\ sealed' = sealed /\ parent' = parent /\ number' = number
      /\ author' = author /\ keyFrom' = keyFrom /\ key' = key
      /\ difficulty' = difficulty /\ total' = total /\ solvedFor' = solvedFor
      /\ run' = run
      /\ build' = build /\ proposing' = proposing
      /\ found' = found /\ miningNumber' = miningNumber /\ restarts' = restarts
  BY <1>1 DEF blockVars, workerVars
<1>3. /\ pc' \in [Nodes -> Locations]
      /\ metadata' \in [Nodes -> Block \cup {None}]
      /\ work' \in [Nodes -> Block \cup {None}]
      /\ seal' \in [Nodes -> Block \cup {None}]
      /\ SealRead'
  <2>1. CASE i = "own"
    BY <2>1, IterationEnds DEF Apply
  <2>2. CASE i # "own"
    <3>1. pc' = pc /\ metadata' = metadata /\ seal' = seal /\ work' = work
      BY <2>2 DEF Apply
    <3> QED BY <3>1 DEF IInv, TypeOK, SealRead
  <2> QED BY <2>1, <2>2
<1>4. /\ b \in 1..sealed /\ b \notin known[n] /\ parent[b] \in known[n]
      /\ parent[b] # b
  BY <1>1 DEF IInv, ImportsNew, KnownClosed, Tree
<1>5. /\ import' \in [Nodes -> [Importers -> ImportState]]
      /\ import'[n][i] = Idle
      /\ \A m \in Nodes, j \in Importers :
            m # n \/ j # i => import'[m][j] = import[m][j]
  BY <1>1, IdleIsTyped DEF IInv, TypeOK
<1> HIDE DEF b
<1>6. /\ known'[n] = known[n] \cup {b}
      /\ best'[n] = IF import[n][i].isBest THEN b ELSE best[n]
      /\ \A m \in Nodes : m # n => known'[m] = known[m] /\ best'[m] = best[m]
      /\ \A m \in Nodes : known[m] \subseteq known'[m]
  BY <1>1 DEF IInv, TypeOK
<1>7. TypeOK'
  <2>1. known' \in [Nodes -> SUBSET (0..sealed)] /\ best' \in [Nodes -> 0..sealed]
    BY <1>1, <1>4 DEF IInv, TypeOK
  <2> QED BY <1>2, <1>3, <1>5, <2>1 DEF IInv, TypeOK
<1>8. Tree' /\ BuildsKnown' /\ RemotesSolve'
  BY <1>2, <1>6 DEF IInv, Tree, BuildsKnown, RemotesSolve
<1>9. \A m \in Nodes, j \in Importers :
        import'[m][j] # Idle =>
            /\ import'[m][j] = import[m][j]
            /\ m = n => import[m][j].block # b
  <2>1. \A j \in Importers : j # i /\ import[n][j] # Idle => import[n][j].block # b
    BY <1>1 DEF IInv, OwnIsFresh, Importers, b
  <2> QED BY <1>5, <2>1
<1>10. ImportsNew' /\ IdleStage'
  BY <1>2, <1>5, <1>6, <1>9 DEF IInv, ImportsNew, IdleStage
<1>11. OwnIsFresh'
  <2> SUFFICES ASSUME NEW m \in Nodes, import'[m]["own"] # Idle
               PROVE  LET c == import'[m]["own"].block IN
                      /\ author'[c] = m
                      /\ \A q \in Nodes :
                          /\ c \notin known'[q]
                          /\ import'[q]["queue"] # Idle =>
                                import'[q]["queue"].block # c
    BY DEF OwnIsFresh
  <2>1. import'[m]["own"] = import[m]["own"] /\ import[m]["own"] # Idle
    BY <1>9 DEF Importers
  <2>2. import[m]["own"].block # b
    <3>1. CASE m = n
      BY <3>1, <1>9 DEF Importers
    <3>2. CASE m # n /\ i = "own"
      BY <3>2, <2>1, <1>1 DEF IInv, OwnIsFresh, b
    <3>3. CASE m # n /\ i = "queue"
      BY <3>3, <2>1, <1>1 DEF IInv, OwnIsFresh, b
    <3> QED BY <3>1, <3>2, <3>3 DEF Importers
  <2> QED BY <1>2, <1>6, <1>9, <2>1, <2>2 DEF IInv, OwnIsFresh, Importers
<1>12. ChoiceStands'
  <2> SUFFICES ASSUME NEW m \in Nodes, NEW j \in Importers,
                      import'[m][j].stage \in {"signal", "apply"},
                      ~import'[m][j].isBest
               PROVE  parent'[import'[m][j].block] # best'[m]
    BY DEF ChoiceStands
  <2>1. import'[m][j] # Idle
    BY IdleIsTyped
  <2>2. /\ import'[m][j] = import[m][j]
        /\ parent[import[m][j].block] \in known[m]
        /\ parent[import[m][j].block] # best[m]
    BY <2>1, <1>9 DEF IInv, KnownClosed, ChoiceStands
  <2> QED BY <1>2, <1>4, <1>6, <2>2
<1>13. KnownClosed'
  <2>1. \A m \in Nodes : best'[m] \in known'[m]
    BY <1>6 DEF IInv, KnownClosed
  <2>2. \A m \in Nodes : \A c \in known'[m] : parent'[c] \in known'[m]
    BY <1>2, <1>4, <1>6 DEF IInv, KnownClosed
  <2>3. \A m \in Nodes, j \in Importers :
          import'[m][j] # Idle => parent'[import'[m][j].block] \in known'[m]
    BY <1>2, <1>6, <1>9 DEF IInv, KnownClosed
  <2> QED BY <2>1, <2>2, <2>3 DEF KnownClosed
<1>14. BestIsLeaf'
  <2> SUFFICES ASSUME NEW m \in Nodes, NEW c \in known'[m] \ {Genesis}
               PROVE  parent[c] # best'[m]
    BY <1>2 DEF BestIsLeaf
  <2>1. CASE m # n
    BY <2>1, <1>6 DEF IInv, BestIsLeaf
  <2>2. CASE m = n /\ c = b
    <3>1. ~import[n][i].isBest => parent[b] # best[n]
      BY <1>1 DEF IInv, ChoiceStands, b
    <3> QED BY <2>2, <3>1, <1>4, <1>6
  <2>3. CASE m = n /\ c # b
    <3>1. c \in known[n] \ {Genesis} /\ parent[c] \in known[n]
      BY <2>3, <1>6 DEF IInv, KnownClosed
    <3> QED BY <2>3, <3>1, <1>4, <1>6 DEF IInv, BestIsLeaf
  <2> QED BY <2>1, <2>2, <2>3
<1>15. SolvedForOwnProposal'
  <2>1. solvedFor[b] = parent[b]
    BY <1>1 DEF IInv, SolvedForOwnProposal, b
  <2>2. \A m \in Nodes : \A c \in known'[m] \ {Genesis} : solvedFor'[c] = parent'[c]
    BY <1>2, <1>6, <2>1 DEF IInv, SolvedForOwnProposal
  <2> QED BY <1>2, <1>9, <2>2, IdleIsTyped DEF IInv, SolvedForOwnProposal
<1> QED BY <1>3, <1>7, <1>8, <1>10, <1>11, <1>12, <1>13, <1>14, <1>15 DEF IInv

(* A restart forgets what was in memory and leaves the database alone.     *)
LEMMA RestartIInv ==
    ASSUME IInv, NEW n \in Nodes, Restart(n)
    PROVE  IInv'
<1>1. /\ sealed' = sealed /\ parent' = parent /\ number' = number
      /\ author' = author /\ keyFrom' = keyFrom /\ key' = key
      /\ difficulty' = difficulty /\ total' = total /\ solvedFor' = solvedFor
      /\ run' = run /\ known' = known /\ best' = best
      /\ miningNumber' = miningNumber
  BY DEF Restart, blockVars, dbVars
<1>2. /\ build' \in [Nodes -> Block \cup {None}]
      /\ proposing' \in [Nodes -> Block \cup {None}]
      /\ metadata' \in [Nodes -> Block \cup {None}]
      /\ seal' \in [Nodes -> Block \cup {None}]
      /\ work' \in [Nodes -> Block \cup {None}]
      /\ found' \in [Nodes -> BOOLEAN] /\ pc' \in [Nodes -> Locations]
  BY DEF Restart, IInv, TypeOK, Locations
<1>3. restarts' \in [Nodes -> 0..MaxRestarts]
  BY RestartsAssumption DEF Restart, IInv, TypeOK
<1>4. /\ import' \in [Nodes -> [Importers -> ImportState]]
      /\ \A m \in Nodes, i \in Importers :
            import'[m][i] # Idle => import'[m][i] = import[m][i]
  BY IdleIsTyped DEF Restart, IInv, TypeOK
<1>5. TypeOK'
  BY <1>1, <1>2, <1>3, <1>4 DEF IInv, TypeOK
<1>6. Tree' /\ BestIsLeaf' /\ RemotesSolve'
  BY <1>1 DEF IInv, Tree, BestIsLeaf, RemotesSolve
<1>7. SealRead' /\ BuildsKnown'
  BY <1>1 DEF Restart, IInv, TypeOK, SealRead, BuildsKnown
<1>8. ImportsNew' /\ KnownClosed'
  BY <1>1, <1>4 DEF IInv, ImportsNew, KnownClosed
<1>9. IdleStage' /\ ChoiceStands'
  BY <1>1, <1>4, IdleIsTyped DEF IInv, IdleStage, ChoiceStands
<1>10. OwnIsFresh'
  BY <1>1, <1>4 DEF IInv, OwnIsFresh, Importers
<1>11. SolvedForOwnProposal'
  BY <1>1, <1>4, IdleIsTyped DEF IInv, SolvedForOwnProposal
<1> QED BY <1>5, <1>6, <1>7, <1>8, <1>9, <1>10, <1>11 DEF IInv

(* An import that fails or is rejected leaves the blocks and the database alone. *)
LEMMA ImportFailsIInv ==
    ASSUME IInv, NEW n \in Nodes, NEW i \in Importers,
           ImportFails(n, i) \/ InvalidSeal(n, i)
    PROVE  IInv'
<1> DEFINE Returns == IF i = "own" THEN NextIteration(n)
                                  ELSE UNCHANGED <<pc, metadata, seal, work>>
<1>0. /\ import' = [import EXCEPT ![n][i] = Idle] /\ Returns
      /\ UNCHANGED <<blockVars, workerVars, dbVars, miningNumber, found, restarts>>
  BY DEF ImportFails, InvalidSeal
<1>1. /\ sealed' = sealed /\ parent' = parent /\ number' = number
      /\ author' = author /\ keyFrom' = keyFrom /\ key' = key
      /\ difficulty' = difficulty /\ total' = total /\ solvedFor' = solvedFor
      /\ run' = run /\ known' = known /\ best' = best
      /\ build' = build /\ proposing' = proposing /\ found' = found
      /\ miningNumber' = miningNumber /\ restarts' = restarts
  BY <1>0 DEF blockVars, workerVars, dbVars
<1>2. /\ metadata' \in [Nodes -> Block \cup {None}]
      /\ seal' \in [Nodes -> Block \cup {None}]
      /\ work' \in [Nodes -> Block \cup {None}]
      /\ pc' \in [Nodes -> Locations] /\ SealRead'
  <2>1. CASE i = "own"
    BY <1>0, <2>1, IterationEnds
  <2>2. CASE i # "own"
    <3>1. pc' = pc /\ metadata' = metadata /\ seal' = seal /\ work' = work
      BY <1>0, <2>2
    <3> QED BY <3>1 DEF IInv, TypeOK, SealRead
  <2> QED BY <2>1, <2>2
<1>3. /\ import' \in [Nodes -> [Importers -> ImportState]]
      /\ \A m \in Nodes, j \in Importers :
            import'[m][j] # Idle => import'[m][j] = import[m][j]
  BY <1>0, IdleIsTyped DEF IInv, TypeOK
<1>4. TypeOK'
  BY <1>1, <1>2, <1>3 DEF IInv, TypeOK
<1>5. Tree' /\ BestIsLeaf' /\ RemotesSolve' /\ BuildsKnown'
  BY <1>1 DEF IInv, Tree, BestIsLeaf, RemotesSolve, BuildsKnown
<1>6. ImportsNew' /\ KnownClosed'
  BY <1>1, <1>3 DEF IInv, ImportsNew, KnownClosed
<1>7. IdleStage' /\ ChoiceStands'
  BY <1>1, <1>3, IdleIsTyped DEF IInv, IdleStage, ChoiceStands
<1>8. OwnIsFresh'
  BY <1>1, <1>3 DEF IInv, OwnIsFresh, Importers
<1>9. SolvedForOwnProposal'
  BY <1>1, <1>3, IdleIsTyped DEF IInv, SolvedForOwnProposal
<1> QED BY <1>2, <1>4, <1>5, <1>6, <1>7, <1>8, <1>9 DEF IInv

-----------------------------------------------------------------------------
LEMMA NextIInv == IInv /\ [Next]_vars => IInv'
<1> SUFFICES ASSUME IInv, [Next]_vars PROVE IInv'
  OBVIOUS
<1>1. CASE UNCHANGED vars
  BY <1>1, LocalStep
     DEF vars, workerVars, minerVars, dbVars, IInv, TypeOK, SealRead, BuildsKnown
<1>2. ASSUME NEW n \in Nodes, Miner(n) PROVE IInv'
  BY <1>2, MinerIInv, SubmitIInv
<1>3. ASSUME NEW n \in Nodes, NEW i \in Importers, ImportStep(n, i) PROVE IInv'
  BY <1>3, ChoiceIInv, ApplyIInv, ImportFailsIInv DEF ImportStep
<1> QED BY <1>1, <1>2, <1>3, WorkerIInv, ReceiveIInv, RemoteSealIInv,
       ImportFailsIInv, RestartIInv DEF Next

LEMMA Invariance == Spec => []IInv
BY InitIInv, NextIInv, PTL DEF Spec

(* Types: among them that databases and best blocks hold sealed blocks.    *)
THEOREM TypeCorrect == Spec => []TypeOK
<1>1. IInv => TypeOK
  BY DEF IInv
<1> QED BY <1>1, Invariance, PTL

(* Databases stay closed under parents while two imports run.              *)
THEOREM DatabaseClosed == Spec => []KnownClosed
<1>1. IInv => KnownClosed
  BY DEF IInv
<1> QED BY <1>1, Invariance, PTL

(* The best block has no known child, in spite of stale fork choices.      *)
THEOREM BestStaysLeaf == Spec => []BestIsLeaf
<1>1. IInv => BestIsLeaf
  BY DEF IInv
<1> QED BY <1>1, Invariance, PTL

(* A block whose seal was solved for another proposal harms nobody: the    *)
(* worker may replace the build between the verification of `submit' and   *)
(* its taking the build, but PowBlockImport verifies the seal again, and   *)
(* only what passed it is announced, signalled or written.                 *)
THEOREM SealsOwnProposal == Spec => []SolvedForOwnProposal
<1>1. IInv => SolvedForOwnProposal
  BY DEF IInv
<1> QED BY <1>1, Invariance, PTL
=============================================================================
