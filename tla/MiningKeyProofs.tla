---------------------------- MODULE MiningKeyProofs ----------------------------
(***************************************************************************)
(* Whose seeds a miner takes its key from, for any number of nodes, blocks *)
(* and restarts: in one run of its process it seals at most one block with *)
(* the seeds of a given best block, and no imported block has a key from   *)
(* an ancestor of its parent.                                              *)
(*                                                                         *)
(* mining_number remembers a number, not a block, so the argument is about *)
(* what it has to agree with: seeds that were used are those of a known    *)
(* block k; as long as k is the best block, mining_number is its number,   *)
(* so that the miner rests; and once k is not the best block it never is   *)
(* again, because an import brings an unknown block.                       *)
(***************************************************************************)
EXTENDS MiningNodeProofs

(* Only genesis has the number 0, which mining_number starts with.         *)
Numbered == \A b \in 1..sealed : number[b] > 0

(* A block was sealed in this run of its author's process or before.       *)
RunsPast ==
    \A n \in Nodes, b \in 1..sealed : author[b] = n => run[b] <= restarts[n]

(* The miner reads seals of blocks of its database.                        *)
SealKnown == \A n \in Nodes : seal[n] # None => seal[n] \in known[n]

(* While it searches, mining_number is that of the block it read.          *)
NumberRecorded ==
    \A n \in Nodes :
        pc[n] \in {"solve", "submit", "take"} => miningNumber[n] = number[seal[n]]

(* In this run of its process n has sealed b, with other seeds than those  *)
(* of genesis.                                                             *)
SealedNow(n, b) ==
    author[b] = n /\ run[b] = restarts[n] /\ keyFrom[b] # Genesis

(* The miner of n cannot search with the seeds of k again.                 *)
Spent(n, k) ==
    /\ pc[n] # "start"
    /\ k \in known[n]
    /\ best[n] = k => miningNumber[n] = number[k] /\ seal[n] \in {None, k}
    /\ seal[n] = k => /\ pc[n] \in {"decide", "importing"}
                      /\ miningNumber[n] = number[k]

SeedsSpent ==
    \A n \in Nodes, b \in 1..sealed : SealedNow(n, b) => Spent(n, keyFrom[b])

KInv ==
    /\ Numbered /\ RunsPast /\ SealKnown /\ NumberRecorded /\ SeedsSpent
    /\ OneSealPerBest

-----------------------------------------------------------------------------
LEMMA InitKInv == Init => KInv
<1> SUFFICES ASSUME Init PROVE KInv
  OBVIOUS
<1>1. \A b : b \notin 1..sealed
  BY DEF Init
<1> QED BY <1>1 DEF Init, KInv, Numbered, RunsPast, SealKnown, NumberRecorded,
                   SeedsSpent, OneSealPerBest

(* Steps that touch neither the blocks nor the databases nor the runs: it  *)
(* is enough that every miner keeps what it knows of its seal.             *)
LEMMA MinerStep ==
    ASSUME IInv, KInv, UNCHANGED <<blockVars, dbVars, restarts>>,
           SealKnown', NumberRecorded',
           \A n \in Nodes, k \in 1..sealed : Spent(n, k) => Spent(n, k)'
    PROVE  KInv'
<1>1. /\ sealed' = sealed /\ number' = number /\ author' = author
      /\ keyFrom' = keyFrom /\ run' = run /\ known' = known /\ best' = best
      /\ restarts' = restarts
  BY DEF blockVars, dbVars
<1>2. Numbered' /\ RunsPast' /\ OneSealPerBest'
  BY <1>1 DEF KInv, Numbered, RunsPast, OneSealPerBest
<1>3. SeedsSpent'
  <2> SUFFICES ASSUME NEW n \in Nodes, NEW b \in 1..sealed, SealedNow(n, b)'
               PROVE  Spent(n, keyFrom[b])'
    BY <1>1 DEF SeedsSpent
  <2>1. SealedNow(n, b) /\ Spent(n, keyFrom[b])
    BY <1>1 DEF SealedNow, KInv, SeedsSpent
  <2>2. keyFrom[b] \in 1..sealed
    <3>1. keyFrom[b] \in known[n] /\ keyFrom[b] # Genesis
      BY <2>1 DEF Spent, SealedNow
    <3>2. known[n] \subseteq 0..sealed /\ sealed \in Nat
      BY NoneIsNoBlock DEF IInv, TypeOK
    <3> QED BY <3>1, <3>2 DEF Genesis
  <2> QED BY <1>1, <2>1, <2>2 DEF Spent
<1> QED BY <1>2, <1>3 DEF KInv

LEMMA QuietKInv ==
    ASSUME IInv, KInv,
           UNCHANGED <<blockVars, dbVars, restarts, pc, seal, miningNumber>>
    PROVE  KInv'
<1>1. SealKnown' /\ NumberRecorded'
  BY DEF KInv, SealKnown, NumberRecorded, blockVars, dbVars
<1>2. \A n \in Nodes, k \in 1..sealed : Spent(n, k) => Spent(n, k)'
  BY DEF Spent, blockVars, dbVars
<1> QED BY <1>1, <1>2, MinerStep

LEMMA MinerKInv ==
    ASSUME IInv, KInv, NEW n \in Nodes, Miner(n), ~Submit(n)
    PROVE  KInv'
<1> USE DEF NextIteration
<1>1. UNCHANGED <<blockVars, dbVars, restarts>>
  BY DEF Miner, Start, Metadata, FindSeal, Rest, StartMining, Solved, Spoilt,
         NewSeal, Cancelled, Exhausted, SubmitRejected, SubmitVerified
<1>2. sealed' = sealed /\ number' = number /\ known' = known /\ best' = best
  BY <1>1 DEF blockVars, dbVars
<1>3. /\ pc \in [Nodes -> Locations] /\ seal \in [Nodes -> Block \cup {None}]
      /\ miningNumber \in [Nodes -> Nat]
  BY DEF IInv, TypeOK
<1>4. SealKnown /\ NumberRecorded
  BY DEF KInv
<1>5. CASE Start(n)
  <2>1. SealKnown' /\ NumberRecorded'
    BY <1>2, <1>3, <1>4, <1>5 DEF Start, SealKnown, NumberRecorded
  <2>2. \A m \in Nodes, k \in 1..sealed : Spent(m, k) => Spent(m, k)'
    BY <1>2, <1>3, <1>5 DEF Start, Spent
  <2> QED BY <1>1, <2>1, <2>2, MinerStep
<1>6. CASE Metadata(n)
  <2>1. SealKnown' /\ NumberRecorded'
    BY <1>2, <1>3, <1>4, <1>6 DEF Metadata, SealKnown, NumberRecorded
  <2>2. \A m \in Nodes, k \in 1..sealed : Spent(m, k) => Spent(m, k)'
    BY <1>2, <1>3, <1>6 DEF Metadata, Spent
  <2> QED BY <1>1, <2>1, <2>2, MinerStep
<1>7. CASE FindSeal(n)
  <2>1. SealKnown' /\ NumberRecorded'
    BY <1>2, <1>3, <1>4, <1>7
       DEF FindSeal, SealKnown, NumberRecorded, IInv, KnownClosed
  <2>2. \A m \in Nodes, k \in 1..sealed : Spent(m, k) => Spent(m, k)'
    BY <1>2, <1>3, <1>7 DEF FindSeal, Spent
  <2> QED BY <1>1, <2>1, <2>2, MinerStep
<1>8. CASE Rest(n) \/ Cancelled(n) \/ Exhausted(n) \/ SubmitRejected(n)
  <2>1. SealKnown' /\ NumberRecorded'
    BY <1>2, <1>3, <1>4, <1>8
       DEF Rest, Cancelled, Exhausted, SubmitRejected, SealKnown, NumberRecorded
  <2>2. \A k \in 1..sealed : k # None
    BY MaxBlocksAssumption DEF None, IInv, TypeOK, Block
  <2>3. \A m \in Nodes, k \in 1..sealed : Spent(m, k) => Spent(m, k)'
    BY <1>2, <1>3, <1>8, <2>2
       DEF Rest, Cancelled, Exhausted, SubmitRejected, Spent
  <2> QED BY <1>1, <2>1, <2>3, MinerStep
<1>9. CASE StartMining(n)
  <2>1. SealKnown' /\ NumberRecorded'
    BY <1>2, <1>3, <1>4, <1>9 DEF StartMining, SealKnown, NumberRecorded
  <2>2. seal[n] \in Block /\ seal[n] # None /\ pc[n] = "decide"
    BY <1>9, NoneIsNoBlock DEF StartMining, IInv, SealRead
  <2>3. \A k \in 1..sealed : Spent(n, k) => seal[n] # k /\ best[n] # k
    BY <1>9, <2>2 DEF StartMining, AlreadyMined, Spent, KInv, Numbered
  <2>4. \A m \in Nodes, k \in 1..sealed : Spent(m, k) => Spent(m, k)'
    BY <1>2, <1>3, <1>9, <2>3 DEF StartMining, Spent
  <2> QED BY <1>1, <2>1, <2>4, MinerStep
<1>10. CASE Solved(n) \/ Spoilt(n)
  <2>1. SealKnown' /\ NumberRecorded'
    BY <1>2, <1>3, <1>4, <1>10
       DEF Solved, Spoilt, NewSeal, SealKnown, NumberRecorded
  <2>2. \A m \in Nodes, k \in 1..sealed : Spent(m, k) => Spent(m, k)'
    BY <1>2, <1>3, <1>10 DEF Solved, Spoilt, NewSeal, Spent
  <2> QED BY <1>1, <2>1, <2>2, MinerStep
<1>11. CASE SubmitVerified(n)
  <2>1. SealKnown' /\ NumberRecorded'
    BY <1>2, <1>3, <1>4, <1>11 DEF SubmitVerified, SealKnown, NumberRecorded
  <2>2. \A m \in Nodes, k \in 1..sealed : Spent(m, k) => Spent(m, k)'
    BY <1>2, <1>3, <1>11 DEF SubmitVerified, Spent
  <2> QED BY <1>1, <2>1, <2>2, MinerStep
<1> QED BY <1>5, <1>6, <1>7, <1>8, <1>9, <1>10, <1>11 DEF Miner

-----------------------------------------------------------------------------
(* What a new block leaves of the older ones.                              *)
LEMMA NewBlock ==
    ASSUME IInv, NEW p \in 0..sealed, NEW k \in Block, NEW f,
           NEW a \in Nodes \cup Remotes, sealed < MaxBlocks,
           Seal(sealed + 1, p, k, f, a)
    PROVE  /\ sealed \in Nat /\ sealed' = sealed + 1
           /\ 0..sealed \subseteq Block /\ sealed + 1 \in Block
           /\ \A b \in 0..sealed : /\ number'[b] = number[b]
                                    /\ author'[b] = author[b]
                                    /\ keyFrom'[b] = keyFrom[b]
           /\ number'[sealed + 1] > 0
           /\ author'[sealed + 1] = a
           /\ keyFrom'[sealed + 1] = k
           /\ \A b \in 1..sealed' : b \in 1..sealed \/ b = sealed + 1
<1> DEFINE new == sealed + 1
<1>1. sealed \in 0..MaxBlocks /\ MaxBlocks \in Nat
  BY MaxBlocksAssumption DEF IInv, TypeOK, Block
<1>2. /\ sealed \in Nat /\ new \in Block /\ new \notin 0..sealed
      /\ 0..sealed \subseteq Block
  BY <1>1 DEF Block
<1>3. /\ sealed' = new
      /\ number' = [number EXCEPT ![new] = number[p] + 1]
      /\ author' = [author EXCEPT ![new] = a]
      /\ keyFrom' = [keyFrom EXCEPT ![new] = k]
  BY DEF Seal
<1>4. /\ number \in [Block -> Nat] /\ author \in [Block -> Nodes \cup Remotes]
      /\ keyFrom \in [Block -> Block]
  BY DEF IInv, TypeOK
<1>5. \A b \in 1..sealed' : b \in 1..sealed \/ b = new
  BY <1>2, <1>3
<1> HIDE DEF new
<1>6. \A b \in 0..sealed : /\ number'[b] = number[b] /\ author'[b] = author[b]
                           /\ keyFrom'[b] = keyFrom[b]
  BY <1>2, <1>3, <1>4
<1>7. number'[new] > 0 /\ author'[new] = a /\ keyFrom'[new] = k
  <2>1. number[p] \in Nat
    BY <1>2, <1>4
  <2> QED BY <1>2, <1>3, <1>4, <2>1
<1> QED BY <1>2, <1>3, <1>5, <1>6, <1>7 DEF new

(* The seeds that are spent are those of a known block.                    *)
LEMMA SpentIsOld ==
    ASSUME IInv, NEW n \in Nodes, NEW k, Spent(n, k)
    PROVE  k \in 0..sealed
BY DEF Spent, IInv, TypeOK

LEMMA RemoteSealKInv ==
    ASSUME IInv, KInv, NEW r \in Remotes, RemoteSeal(r)
    PROVE  KInv'
<1>1. /\ sealed < MaxBlocks /\ run' = run /\ known' = known /\ best' = best
      /\ pc' = pc /\ seal' = seal /\ miningNumber' = miningNumber
      /\ restarts' = restarts
  BY DEF RemoteSeal, Room, dbVars, minerVars
<1>2. PICK p \in 0..sealed : Seal(sealed + 1, p, p, p, r)
  BY DEF RemoteSeal, Announced
<1>3. p \in Block
  BY MaxBlocksAssumption DEF IInv, TypeOK, Block
<1>4. /\ sealed \in Nat /\ sealed' = sealed + 1
      /\ \A b \in 0..sealed : /\ number'[b] = number[b]
                               /\ author'[b] = author[b]
                               /\ keyFrom'[b] = keyFrom[b]
      /\ number'[sealed + 1] > 0 /\ author'[sealed + 1] = r
      /\ \A b \in 1..sealed' : b \in 1..sealed \/ b = sealed + 1
  BY <1>1, <1>2, <1>3, NewBlock
<1>5. r \notin Nodes /\ \A b \in 1..sealed : b \in 0..sealed
  BY NodesAssumption
<1>6. \A n \in Nodes : known[n] \subseteq 0..sealed
  BY DEF IInv, TypeOK
<1>7. Numbered' /\ RunsPast' /\ OneSealPerBest'
  BY <1>1, <1>4, <1>5 DEF KInv, Numbered, RunsPast, OneSealPerBest
<1>8. SealKnown' /\ NumberRecorded'
  <2>1. \A n \in Nodes :
          pc[n] \in {"solve", "submit", "take"} => seal[n] \in 0..sealed
    BY <1>6, NoneIsNoBlock DEF IInv, SealRead, KInv, SealKnown
  <2> QED BY <1>1, <1>4, <2>1 DEF KInv, SealKnown, NumberRecorded
<1>9. SeedsSpent'
  <2> SUFFICES ASSUME NEW n \in Nodes, NEW b \in 1..sealed', SealedNow(n, b)'
               PROVE  Spent(n, keyFrom[b])'
    BY DEF SeedsSpent
  <2>1. b \in 1..sealed /\ SealedNow(n, b) /\ keyFrom'[b] = keyFrom[b]
    BY <1>1, <1>4, <1>5 DEF SealedNow
  <2>2. Spent(n, keyFrom[b]) /\ keyFrom[b] \in 0..sealed
    BY <2>1, SpentIsOld DEF KInv, SeedsSpent
  <2> QED BY <1>1, <1>4, <2>1, <2>2 DEF Spent
<1> QED BY <1>7, <1>8, <1>9 DEF KInv

(* The miner submits with the seeds of k only if they are not spent, and   *)
(* spends them.                                                            *)
LEMMA SubmitKInv ==
    ASSUME IInv, KInv, NEW n \in Nodes, Submit(n)
    PROVE  KInv'
<1> DEFINE new == sealed + 1
           k == seal[n]
<1>1. /\ sealed < MaxBlocks /\ known' = known /\ best' = best /\ seal' = seal
      /\ miningNumber' = miningNumber /\ restarts' = restarts
      /\ pc[n] = "take" /\ pc' = [pc EXCEPT ![n] = "importing"]
      /\ run' = [run EXCEPT ![new] = restarts[n]]
      /\ Seal(new, build[n], k, work[n], n)
  BY DEF Submit, dbVars
<1>2. build[n] \in 0..sealed /\ k \in Block
  BY DEF Submit, IInv, TypeOK, BuildsKnown, SealRead
<1>3. /\ sealed \in Nat /\ sealed' = new
      /\ 0..sealed \subseteq Block /\ new \in Block
      /\ \A b \in 0..sealed : /\ number'[b] = number[b]
                               /\ author'[b] = author[b]
                               /\ keyFrom'[b] = keyFrom[b]
      /\ number'[new] > 0 /\ author'[new] = n /\ keyFrom'[new] = k
      /\ \A b \in 1..sealed' : b \in 1..sealed \/ b = new
  BY <1>1, <1>2, NewBlock
<1>4. new \notin 0..sealed /\ \A b \in 1..sealed : b \in 0..sealed
  BY <1>3
<1> HIDE DEF new
<1>5. run'[new] = restarts[n] /\ \A b \in 0..sealed : run'[b] = run[b]
  BY <1>1, <1>3, <1>4 DEF IInv, TypeOK
<1>6. /\ pc'[n] = "importing" /\ \A m \in Nodes : m # n => pc'[m] = pc[m]
      /\ restarts[n] \in Nat
  BY <1>1, RestartsAssumption DEF IInv, TypeOK
<1>7. \A m \in Nodes : seal[m] # None => seal[m] \in known[m] /\ seal[m] \in 0..sealed
  BY DEF KInv, SealKnown, IInv, TypeOK
<1>8. k \in known[n] /\ k \in 0..sealed /\ k # None /\ miningNumber[n] = number[k]
  BY <1>1, <1>2, <1>7, NoneIsNoBlock DEF KInv, NumberRecorded
<1>9. \A b \in 1..sealed : SealedNow(n, b) => keyFrom[b] # k
  BY <1>1 DEF KInv, SeedsSpent, Spent
<1>10. Numbered' /\ RunsPast'
  BY <1>1, <1>3, <1>4, <1>5, <1>6 DEF KInv, Numbered, RunsPast
<1>11. SealKnown' /\ NumberRecorded'
  <2>1. SealKnown'
    BY <1>1 DEF KInv, SealKnown
  <2>2. NumberRecorded'
    <3> SUFFICES ASSUME NEW m \in Nodes,
                        pc'[m] \in {"solve", "submit", "take"}
                 PROVE  miningNumber[m] = number'[seal[m]]
      BY <1>1 DEF NumberRecorded
    <3>1. m # n /\ pc[m] = pc'[m]
      BY <1>6
    <3>2. seal[m] \in 0..sealed
      BY <3>1, <1>7, NoneIsNoBlock DEF IInv, SealRead
    <3> QED BY <3>1, <3>2, <1>3 DEF KInv, NumberRecorded
  <2> QED BY <2>1, <2>2
<1>12. SeedsSpent'
  <2> SUFFICES ASSUME NEW m \in Nodes, NEW b \in 1..sealed', SealedNow(m, b)'
               PROVE  Spent(m, keyFrom[b])'
    BY DEF SeedsSpent
  <2>1. CASE b = new
    <3>1. m = n /\ keyFrom'[b] = k
      BY <2>1, <1>3 DEF SealedNow
    <3> QED BY <3>1, <1>1, <1>3, <1>6, <1>8 DEF Spent
  <2>2. CASE b \in 1..sealed
    <3>1. SealedNow(m, b) /\ keyFrom'[b] = keyFrom[b]
      BY <2>2, <1>1, <1>3, <1>4, <1>5 DEF SealedNow
    <3>2. Spent(m, keyFrom[b]) /\ keyFrom[b] \in 0..sealed
      BY <2>2, <3>1, SpentIsOld DEF KInv, SeedsSpent
    <3> QED BY <3>1, <3>2, <1>1, <1>3, <1>6 DEF Spent
  <2> QED BY <2>1, <2>2, <1>3
<1>13. OneSealPerBest'
  <2> SUFFICES ASSUME NEW b \in 1..sealed', NEW c \in 1..sealed',
                      author'[b] \in Nodes, author'[b] = author'[c],
                      run'[b] = run'[c], keyFrom'[b] # Genesis,
                      keyFrom'[b] = keyFrom'[c]
               PROVE  b = c
    BY DEF OneSealPerBest
  <2>1. CASE b \in 1..sealed /\ c \in 1..sealed
    BY <2>1, <1>3, <1>4, <1>5 DEF KInv, OneSealPerBest
  <2>2. CASE b \in 1..sealed /\ c = new
    <3>1. SealedNow(n, b) /\ keyFrom[b] = k
      BY <2>2, <1>3, <1>4, <1>5 DEF SealedNow
    <3> QED BY <2>2, <3>1, <1>9
  <2>3. CASE b = new /\ c \in 1..sealed
    <3>1. SealedNow(n, c) /\ keyFrom[c] = k
      BY <2>3, <1>3, <1>4, <1>5 DEF SealedNow
    <3> QED BY <2>3, <3>1, <1>9
  <2> QED BY <2>1, <2>2, <2>3, <1>3
<1> QED BY <1>10, <1>11, <1>12, <1>13 DEF KInv

(* No import makes a known block the best one.                             *)
LEMMA ApplyKInv ==
    ASSUME IInv, KInv, NEW n \in Nodes, NEW i \in Importers, Apply(n, i)
    PROVE  KInv'
<1> DEFINE b == import[n][i].block
<1>1. /\ sealed' = sealed /\ number' = number /\ author' = author
      /\ keyFrom' = keyFrom /\ run' = run /\ miningNumber' = miningNumber
      /\ restarts' = restarts
      /\ known' = [known EXCEPT ![n] = @ \cup {b}]
      /\ best' = [best EXCEPT ![n] = IF import[n][i].isBest THEN b ELSE @]
  BY DEF Apply, blockVars
<1>2. b \notin known[n]
  BY IdleIsTyped DEF Apply, IInv, ImportsNew
<1> HIDE DEF b
<1>3. /\ known'[n] = known[n] \cup {b} /\ best'[n] \in {b, best[n]}
      /\ \A m \in Nodes : m # n => known'[m] = known[m] /\ best'[m] = best[m]
      /\ \A m \in Nodes : known[m] \subseteq known'[m]
  BY <1>1 DEF IInv, TypeOK
<1>4. \/ pc' = pc /\ seal' = seal
      \/ /\ pc' = [pc EXCEPT ![n] = "metadata"]
         /\ seal' = [seal EXCEPT ![n] = None]
  BY DEF Apply, NextIteration
<1>5. pc \in [Nodes -> Locations] /\ seal \in [Nodes -> Block \cup {None}]
  BY DEF IInv, TypeOK
<1>6. Numbered' /\ RunsPast' /\ OneSealPerBest'
  BY <1>1 DEF KInv, Numbered, RunsPast, OneSealPerBest
<1>7. SealKnown' /\ NumberRecorded'
  BY <1>1, <1>3, <1>4, <1>5 DEF KInv, SealKnown, NumberRecorded
<1>8. SeedsSpent'
  <2> SUFFICES ASSUME NEW m \in Nodes, NEW c \in 1..sealed, SealedNow(m, c)
               PROVE  Spent(m, keyFrom[c])'
    BY <1>1 DEF SeedsSpent, SealedNow
  <2>1. Spent(m, keyFrom[c]) /\ keyFrom[c] \in 0..sealed
    BY SpentIsOld DEF KInv, SeedsSpent
  <2>2. keyFrom[c] # None
    BY <2>1, MaxBlocksAssumption DEF None, IInv, TypeOK, Block
  <2>3. /\ keyFrom[c] \in known'[m] /\ pc'[m] # "start"
        /\ best'[m] = keyFrom[c] => best[m] = keyFrom[c]
        /\ seal'[m] \in {None, seal[m]}
        /\ seal'[m] = keyFrom[c] => pc'[m] = pc[m] /\ seal[m] = keyFrom[c]
    BY <1>2, <1>3, <1>4, <1>5, <2>1, <2>2 DEF Spent
  <2> QED BY <1>1, <2>1, <2>3 DEF Spent
<1> QED BY <1>6, <1>7, <1>8 DEF KInv

(* An import that fails or is rejected leaves at most one thing behind: a  *)
(* miner without seal.                                                     *)
LEMMA ImportFailsKInv ==
    ASSUME IInv, KInv, NEW n \in Nodes, NEW i \in Importers,
           ImportFails(n, i) \/ InvalidSeal(n, i)
    PROVE  KInv'
<1>1. /\ UNCHANGED <<blockVars, dbVars, restarts>>
      /\ number' = number /\ known' = known /\ best' = best
      /\ miningNumber' = miningNumber
  BY DEF ImportFails, InvalidSeal, blockVars, dbVars
<1>2. \/ pc' = pc /\ seal' = seal
      \/ /\ pc' = [pc EXCEPT ![n] = "metadata"]
         /\ seal' = [seal EXCEPT ![n] = None]
  BY DEF ImportFails, InvalidSeal, NextIteration
<1>3. pc \in [Nodes -> Locations] /\ seal \in [Nodes -> Block \cup {None}]
  BY DEF IInv, TypeOK
<1>4. SealKnown' /\ NumberRecorded'
  BY <1>1, <1>2, <1>3 DEF KInv, SealKnown, NumberRecorded
<1>5. \A k \in 1..sealed : k # None
  BY MaxBlocksAssumption DEF None, IInv, TypeOK, Block
<1>6. \A m \in Nodes, k \in 1..sealed : Spent(m, k) => Spent(m, k)'
  BY <1>1, <1>2, <1>3, <1>5 DEF Spent
<1> QED BY <1>1, <1>4, <1>6, MinerStep

(* In a new run of its process a node has not sealed anything.             *)
LEMMA RestartKInv ==
    ASSUME IInv, KInv, NEW n \in Nodes, Restart(n)
    PROVE  KInv'
<1>1. /\ sealed' = sealed /\ number' = number /\ author' = author
      /\ keyFrom' = keyFrom /\ run' = run /\ known' = known /\ best' = best
      /\ miningNumber' = miningNumber
      /\ restarts' = [restarts EXCEPT ![n] = @ + 1]
      /\ pc' = [pc EXCEPT ![n] = "start"] /\ seal' = [seal EXCEPT ![n] = None]
  BY DEF Restart, blockVars, dbVars
<1>2. /\ restarts \in [Nodes -> Nat] /\ pc \in [Nodes -> Locations]
      /\ seal \in [Nodes -> Block \cup {None}] /\ run \in [Block -> Nat]
  BY RestartsAssumption DEF IInv, TypeOK
<1>3. /\ restarts'[n] = restarts[n] + 1 /\ restarts[n] \in Nat
      /\ \A m \in Nodes : m # n => /\ restarts'[m] = restarts[m]
                                   /\ pc'[m] = pc[m] /\ seal'[m] = seal[m]
      /\ pc'[n] = "start" /\ seal'[n] = None
  BY <1>1, <1>2
<1>4. \A b \in 1..sealed : run[b] \in Nat /\ (author[b] = n => run[b] <= restarts[n])
  BY <1>2, SealedIsBlock DEF KInv, RunsPast, IInv, TypeOK
<1>5. Numbered' /\ OneSealPerBest' /\ SealKnown' /\ NumberRecorded'
  BY <1>1, <1>3
     DEF KInv, Numbered, OneSealPerBest, SealKnown, NumberRecorded
<1>6. RunsPast'
  BY <1>1, <1>3, <1>4 DEF KInv, RunsPast
<1>7. SeedsSpent'
  <2> SUFFICES ASSUME NEW m \in Nodes, NEW b \in 1..sealed, SealedNow(m, b)'
               PROVE  Spent(m, keyFrom[b])'
    BY <1>1 DEF SeedsSpent
  <2>1. m # n
    BY <1>1, <1>3, <1>4 DEF SealedNow
  <2> QED BY <1>1, <1>3, <2>1 DEF SealedNow, Spent, KInv, SeedsSpent
<1> QED BY <1>5, <1>6, <1>7 DEF KInv

-----------------------------------------------------------------------------
LEMMA NextKInv == IInv /\ KInv /\ [Next]_vars => KInv'
<1> SUFFICES ASSUME IInv, KInv, [Next]_vars PROVE KInv'
  OBVIOUS
<1>1. CASE UNCHANGED vars
  BY <1>1, QuietKInv DEF vars, minerVars
<1>2. ASSUME NEW n \in Nodes, Miner(n) PROVE KInv'
  BY <1>2, MinerKInv, SubmitKInv
<1>3. ASSUME NEW n \in Nodes, Worker(n) PROVE KInv'
  BY <1>3, QuietKInv DEF Worker, Propose, OnBuild, minerVars
<1>4. ASSUME NEW n \in Nodes, NEW b \in 1..sealed, Receive(n, b) PROVE KInv'
  BY <1>4, QuietKInv DEF Receive, minerVars
<1>5. ASSUME NEW n \in Nodes, NEW i \in Importers, ImportStep(n, i) PROVE KInv'
  BY <1>5, QuietKInv, ApplyKInv, ImportFailsKInv
     DEF ImportStep, VerifyAndChoose, SignalFound, minerVars
<1> QED BY <1>1, <1>2, <1>3, <1>4, <1>5, RemoteSealKInv, ImportFailsKInv,
       RestartKInv DEF Next

(* Until it is started again, a miner seals at most one block with the     *)
(* seeds of a given best block: the test of mining_number in new_full is   *)
(* enough for that although blocks of the same number compete.             *)
THEOREM BestIsMinedOnce == Spec => []OneSealPerBest
<1>1. Spec => [](IInv /\ KInv)
  <2>1. Init => IInv /\ KInv
    BY InitIInv, InitKInv
  <2>2. IInv /\ KInv /\ [Next]_vars => (IInv /\ KInv)'
    BY NextIInv, NextKInv
  <2> QED BY <2>1, <2>2, PTL DEF Spec
<1>2. IInv /\ KInv => OneSealPerBest
  BY DEF KInv
<1> QED BY <1>1, <1>2, PTL

-----------------------------------------------------------------------------
(***************************************************************************)
(* The key of an imported block is never older than the block it is built  *)
(* on, which is to be shown of the blocks whose seal fits its header.  The *)
(* best block of a node is a leaf of its database, so it is no ancestor of *)
(* a block the node knows: take the best block out of the database, and    *)
(* what is left is still closed under parents.  The worker's metadata is a *)
(* known block when the miner reads it, and is so still when the miner     *)
(* reads the best block.                                                   *)
(***************************************************************************)
GenesisIsRoot == parent[Genesis] = Genesis

(* What an iteration of the miner has read so far.                         *)
ReadInOrder ==
    \A n \in Nodes :
        /\ pc[n] \in {"start", "metadata", "findSeal"} => seal[n] = None
        /\ pc[n] \notin {"submit", "take", "importing"} => work[n] = None
        /\ work[n] \in {None, metadata[n]}

MetadataKnown ==
    \A n \in Nodes : metadata[n] # None => metadata[n] \in known[n]

SealNotBehind ==
    \A n \in Nodes :
        seal[n] # None /\ metadata[n] # None => ~Ancestor(seal[n], metadata[n])

SolvedNotBehind ==
    \A b \in 1..sealed :
        solvedFor[b] = parent[b] => ~Ancestor(keyFrom[b], parent[b])

BInv ==
    /\ GenesisIsRoot /\ ReadInOrder /\ MetadataKnown /\ SealNotBehind
    /\ SolvedNotBehind

LEMMA InitBInv == Init => BInv
<1> SUFFICES ASSUME Init PROVE BInv
  OBVIOUS
<1>1. \A b : b \notin 1..sealed
  BY DEF Init
<1> QED BY <1>1, NoneIsNoBlock DEF Init, BInv, GenesisIsRoot, ReadInOrder,
       MetadataKnown, SealNotBehind, SolvedNotBehind

(* The best block of a node is no ancestor of a block in its database.     *)
LEMMA BestIsNoAncestor ==
    ASSUME IInv, GenesisIsRoot, NEW n \in Nodes, NEW c \in known[n]
    PROVE  ~Ancestor(best[n], c)
<1> SUFFICES ASSUME c # Genesis
             PROVE  \E S \in SUBSET (0..sealed) :
                      /\ parent[c] \in S /\ (\A x \in S : parent[x] \in S)
                      /\ best[n] \notin S
  BY DEF Ancestor
<1>1. known[n] \in SUBSET (0..sealed)
  BY DEF IInv, TypeOK
<1>2. \A b \in known[n] : /\ parent[b] \in known[n]
                          /\ b # Genesis => parent[b] # best[n]
  BY DEF IInv, KnownClosed, BestIsLeaf
<1> DEFINE S == known[n] \ {best[n]}
<1>3. parent[c] \in S
  BY <1>2
<1>4. ASSUME NEW x \in S PROVE parent[x] \in S
  <2>1. CASE x = Genesis
    BY <2>1 DEF GenesisIsRoot
  <2>2. CASE x # Genesis
    BY <2>2, <1>2
  <2> QED BY <2>1, <2>2
<1>5. S \in SUBSET (0..sealed) /\ best[n] \notin S
  BY <1>1
<1> QED BY <1>3, <1>4, <1>5

(* A step that seals nothing leaves the ancestors alone; a new block is no *)
(* ancestor of an older one and adds none.                                 *)
LEMMA OldAncestors ==
    ASSUME IInv, sealed \in Nat, sealed' \in {sealed, sealed + 1},
           \A x \in 0..sealed : parent'[x] = parent[x],
           NEW a, NEW c \in 0..sealed, ~Ancestor(a, c)
    PROVE  ~Ancestor(a, c)'
<1>1. CASE c = Genesis
  BY <1>1 DEF Ancestor
<1>2. CASE c # Genesis
  <2>1. PICK S \in SUBSET (0..sealed) :
          parent[c] \in S /\ (\A x \in S : parent[x] \in S) /\ a \notin S
    BY <1>2 DEF Ancestor
  <2>2. S \in SUBSET (0..sealed')
    <3>1. 0..sealed \subseteq 0..sealed'
      OBVIOUS
    <3> QED BY <3>1
  <2>3. parent'[c] \in S /\ \A x \in S : parent'[x] \in S
    BY <2>1
  <2> QED BY <2>1, <2>2, <2>3 DEF Ancestor
<1> QED BY <1>1, <1>2

(* Steps that touch neither the blocks nor what a miner has read, and lose *)
(* no block of a database.                                                 *)
LEMMA ReadingStep ==
    ASSUME IInv, BInv, UNCHANGED blockVars,
           \A n \in Nodes : known[n] \subseteq known'[n],
           ReadInOrder',
           \A n \in Nodes : metadata'[n] # None =>
               \/ metadata'[n] = metadata[n]
               \/ metadata'[n] \in known[n],
           \A n \in Nodes : seal'[n] # None /\ metadata'[n] # None =>
               \/ seal'[n] = seal[n] /\ metadata'[n] = metadata[n]
               \/ ~Ancestor(seal'[n], metadata'[n])
    PROVE  BInv'
<1>1. sealed' = sealed /\ parent' = parent /\ keyFrom' = keyFrom
      /\ solvedFor' = solvedFor
  BY DEF blockVars
<1>2. GenesisIsRoot' /\ SolvedNotBehind'
  <2>1. \A b \in 1..sealed :
          solvedFor[b] = parent[b] => ~Ancestor(keyFrom[b], parent[b])'
    BY <1>1 DEF BInv, SolvedNotBehind, Ancestor
  <2> QED BY <1>1, <2>1 DEF BInv, GenesisIsRoot, SolvedNotBehind
<1>3. MetadataKnown'
  BY DEF BInv, MetadataKnown
<1>4. SealNotBehind'
  <2> SUFFICES ASSUME NEW n \in Nodes, seal'[n] # None, metadata'[n] # None
               PROVE  ~Ancestor(seal[n], metadata[n])'
    BY DEF SealNotBehind
  <2> QED BY <1>1 DEF BInv, SealNotBehind, Ancestor
<1> QED BY <1>2, <1>3, <1>4 DEF BInv

LEMMA MinerBInv ==
    ASSUME IInv, BInv, NEW n \in Nodes, Miner(n), ~Submit(n)
    PROVE  BInv'
<1> USE DEF NextIteration
<1>1. UNCHANGED blockVars /\ known' = known
  BY DEF Miner, Start, Metadata, FindSeal, Rest, StartMining, Solved, Spoilt,
         NewSeal, Cancelled, Exhausted, SubmitRejected, SubmitVerified, dbVars
<1>2. /\ pc \in [Nodes -> Locations] /\ seal \in [Nodes -> Block \cup {None}]
      /\ metadata \in [Nodes -> Block \cup {None}]
      /\ work \in [Nodes -> Block \cup {None}]
  BY DEF IInv, TypeOK
<1>3. ReadInOrder
  BY DEF BInv
<1>4. CASE Metadata(n)
  <2>1. ReadInOrder'
    BY <1>2, <1>3, <1>4 DEF Metadata, ReadInOrder
  <2>2. seal'[n] = None /\ build[n] # None => build[n] \in known[n]
    BY <1>3, <1>4 DEF Metadata, ReadInOrder, IInv, BuildsKnown
  <2> QED BY <1>1, <1>2, <1>3, <1>4, <2>1, <2>2, ReadingStep
          DEF Metadata, ReadInOrder, IInv, BuildsKnown
<1>5. CASE FindSeal(n)
  <2>1. ReadInOrder'
    BY <1>2, <1>3, <1>5 DEF FindSeal, ReadInOrder
  <2>2. metadata[n] # None => ~Ancestor(best[n], metadata[n])
    BY BestIsNoAncestor DEF BInv, MetadataKnown
  <2> QED BY <1>1, <1>2, <1>5, <2>1, <2>2, ReadingStep DEF FindSeal
<1>6. CASE Rest(n) \/ Cancelled(n) \/ Exhausted(n) \/ SubmitRejected(n)
  <2>1. ReadInOrder'
    BY <1>2, <1>3, <1>6
       DEF Rest, Cancelled, Exhausted, SubmitRejected, ReadInOrder
  <2> QED BY <1>1, <1>2, <1>6, <2>1, ReadingStep
          DEF Rest, Cancelled, Exhausted, SubmitRejected
<1>7. CASE \/ Start(n) \/ StartMining(n) \/ Solved(n) \/ Spoilt(n)
           \/ SubmitVerified(n)
  <2>1. ReadInOrder'
    BY <1>2, <1>3, <1>7
       DEF Start, StartMining, Solved, Spoilt, NewSeal, SubmitVerified,
           ReadInOrder
  <2> QED BY <1>1, <1>2, <1>7, <2>1, ReadingStep
          DEF Start, StartMining, Solved, Spoilt, NewSeal, SubmitVerified
<1> QED BY <1>4, <1>5, <1>6, <1>7 DEF Miner

(* A new block, with a key that is not behind the block it is built on if  *)
(* its seal was solved for that.                                           *)
LEMMA SealBInv ==
    ASSUME IInv, BInv, NEW p \in 0..sealed, NEW k \in Block, NEW f,
           NEW a \in Nodes \cup Remotes, sealed < MaxBlocks,
           Seal(sealed + 1, p, k, f, a), f = p => ~Ancestor(k, p),
           UNCHANGED <<known, metadata, seal, work>>, ReadInOrder'
    PROVE  BInv'
<1> DEFINE new == sealed + 1
<1>1. /\ sealed \in Nat /\ sealed' = new
      /\ 0..sealed \subseteq Block /\ new \in Block
      /\ \A b \in 0..sealed : keyFrom'[b] = keyFrom[b]
      /\ keyFrom'[new] = k
      /\ \A b \in 1..sealed' : b \in 1..sealed \/ b = new
  BY NewBlock
<1>2. new \notin 0..sealed /\ Genesis \in 0..sealed
      /\ \A b \in 1..sealed : b \in 0..sealed
  BY <1>1 DEF Genesis
<1>3. /\ parent'[new] = p /\ solvedFor'[new] = f
      /\ \A b \in 0..sealed : parent'[b] = parent[b] /\ solvedFor'[b] = solvedFor[b]
  BY <1>1, <1>2 DEF Seal, IInv, TypeOK
<1>4. sealed' \in {sealed, sealed + 1}
  BY <1>1
<1>5. \A b \in 1..sealed : parent[b] \in 0..sealed
  BY <1>1 DEF IInv, Tree
<1> HIDE DEF new
<1>6. GenesisIsRoot' /\ MetadataKnown'
  BY <1>2, <1>3 DEF BInv, GenesisIsRoot, MetadataKnown
<1>7. SealNotBehind'
  <2> SUFFICES ASSUME NEW m \in Nodes, seal[m] # None, metadata[m] # None
               PROVE  ~Ancestor(seal[m], metadata[m])'
    BY DEF SealNotBehind
  <2>1. metadata[m] \in 0..sealed
    BY DEF BInv, MetadataKnown, IInv, TypeOK
  <2>2. ~Ancestor(seal[m], metadata[m])
    BY DEF BInv, SealNotBehind
  <2> QED BY <1>1, <1>3, <1>4, <2>1, <2>2, OldAncestors
<1>8. SolvedNotBehind'
  <2> SUFFICES ASSUME NEW b \in 1..sealed', solvedFor'[b] = parent'[b]
               PROVE  ~Ancestor(keyFrom[b], parent[b])'
    BY DEF SolvedNotBehind
  <2>1. CASE b = new
    <3>1. ~Ancestor(k, p)'
      BY <2>1, <1>1, <1>3, <1>4, OldAncestors
    <3> QED BY <2>1, <3>1, <1>1, <1>3 DEF Ancestor
  <2>2. CASE b \in 1..sealed
    <3>1. ~Ancestor(keyFrom[b], parent[b]) /\ parent[b] \in 0..sealed
      BY <2>2, <1>2, <1>3, <1>5 DEF BInv, SolvedNotBehind
    <3>2. keyFrom'[b] = keyFrom[b] /\ parent'[b] = parent[b]
      BY <2>2, <1>1, <1>2, <1>3
    <3> QED BY <3>1, <3>2, <1>1, <1>3, <1>4, OldAncestors
  <2> QED BY <2>1, <2>2, <1>1
<1> QED BY <1>6, <1>7, <1>8 DEF BInv

LEMMA NextBInv == IInv /\ BInv /\ [Next]_vars => BInv'
<1> SUFFICES ASSUME IInv, BInv, [Next]_vars PROVE BInv'
  OBVIOUS
<1> USE DEF minerVars, dbVars
<1>1. ReadInOrder
  BY DEF BInv
<1>2. /\ pc \in [Nodes -> Locations] /\ seal \in [Nodes -> Block \cup {None}]
      /\ metadata \in [Nodes -> Block \cup {None}]
      /\ work \in [Nodes -> Block \cup {None}]
      /\ known \in [Nodes -> SUBSET (0..sealed)]
  BY DEF IInv, TypeOK
<1>3. CASE UNCHANGED vars
  BY <1>1, <1>3, ReadingStep DEF vars, ReadInOrder
<1>4. ASSUME NEW n \in Nodes, Submit(n) PROVE BInv'
  <2>1. /\ sealed < MaxBlocks /\ Seal(sealed + 1, build[n], seal[n], work[n], n)
        /\ UNCHANGED <<known, metadata, seal, work>>
        /\ pc[n] = "take" /\ pc' = [pc EXCEPT ![n] = "importing"]
    BY <1>4 DEF Submit
  <2>2. ReadInOrder'
    BY <1>1, <1>2, <2>1 DEF ReadInOrder
  <2>3. /\ build[n] \in 0..sealed /\ seal[n] \in Block /\ seal[n] # None
        /\ work[n] = metadata[n] /\ metadata[n] # None
    BY <1>1, <1>4, NoneIsNoBlock
       DEF Submit, ReadInOrder, IInv, TypeOK, BuildsKnown, SealRead
  <2>4. work[n] = build[n] => ~Ancestor(seal[n], build[n])
    BY <2>3 DEF BInv, SealNotBehind
  <2> QED BY <2>1, <2>2, <2>3, <2>4, SealBInv
<1>5. ASSUME NEW n \in Nodes, Worker(n) PROVE BInv'
  BY <1>1, <1>5, ReadingStep DEF Worker, Propose, OnBuild, ReadInOrder
<1>6. ASSUME NEW n \in Nodes, NEW b \in 1..sealed, Receive(n, b) PROVE BInv'
  BY <1>1, <1>6, ReadingStep DEF Receive, ReadInOrder
<1>7. ASSUME NEW n \in Nodes, NEW i \in Importers,
             VerifyAndChoose(n, i) \/ SignalFound(n, i)
      PROVE  BInv'
  BY <1>1, <1>7, ReadingStep DEF VerifyAndChoose, SignalFound, ReadInOrder
<1>8. ASSUME NEW n \in Nodes, NEW i \in Importers,
             Apply(n, i) \/ ImportFails(n, i) \/ InvalidSeal(n, i)
      PROVE  BInv'
  <2>1. UNCHANGED blockVars /\ \A m \in Nodes : known[m] \subseteq known'[m]
    BY <1>2, <1>8 DEF Apply, ImportFails, InvalidSeal
  <2>2. \/ UNCHANGED <<pc, metadata, seal, work>>
        \/ NextIteration(n)
    BY <1>8 DEF Apply, ImportFails, InvalidSeal
  <2>3. ReadInOrder'
    BY <1>1, <1>2, <2>2 DEF NextIteration, ReadInOrder
  <2> QED BY <1>2, <2>1, <2>2, <2>3, ReadingStep DEF NextIteration
<1>9. ASSUME NEW r \in Remotes, RemoteSeal(r) PROVE BInv'
  <2>1. sealed < MaxBlocks /\ UNCHANGED <<known, metadata, seal, work, pc>>
    BY <1>9 DEF RemoteSeal, Room
  <2>2. PICK p \in 0..sealed : Seal(sealed + 1, p, p, p, r)
    BY <1>9 DEF RemoteSeal, Announced
  <2>3. p \in Block /\ sealed \in Nat
    BY MaxBlocksAssumption DEF IInv, TypeOK, Block
  <2>4. ~Ancestor(p, p)
    <3> SUFFICES ASSUME p # Genesis
                 PROVE  \E S \in SUBSET (0..sealed) :
                          /\ parent[p] \in S /\ (\A x \in S : parent[x] \in S)
                          /\ p \notin S
      BY DEF Ancestor
    <3> DEFINE S == 0..p-1
    <3>1. p \in 1..sealed /\ S \in SUBSET (0..sealed) /\ p \notin S
      BY <2>3 DEF Genesis
    <3>2. \A x \in 1..sealed : parent[x] \in 0..x-1
      BY DEF IInv, Tree
    <3>3. parent[p] \in S
      BY <3>1, <3>2
    <3>4. \A x \in S : parent[x] \in S
      <4> SUFFICES ASSUME NEW x \in 0..p-1 PROVE parent[x] \in 0..p-1
        OBVIOUS
      <4>1. CASE x = Genesis
        BY <4>1, <3>1, <2>3 DEF BInv, GenesisIsRoot, Genesis
      <4>2. CASE x # Genesis
        <5>1. x \in 1..sealed /\ parent[x] \in 0..x-1
          BY <4>2, <3>1, <3>2, <2>3 DEF Genesis
        <5> QED BY <5>1, <3>1, <2>3
      <4> QED BY <4>1, <4>2
    <3> QED BY <3>1, <3>3, <3>4
  <2>5. ReadInOrder'
    BY <1>1, <2>1 DEF ReadInOrder
  <2> QED BY <2>1, <2>2, <2>3, <2>4, <2>5, SealBInv
<1>10. ASSUME NEW n \in Nodes, Restart(n) PROVE BInv'
  <2>1. ReadInOrder'
    BY <1>1, <1>2, <1>10 DEF Restart, ReadInOrder
  <2> QED BY <1>2, <1>10, <2>1, ReadingStep DEF Restart
<1> QED BY <1>3, <1>4, <1>5, <1>6, <1>7, <1>8, <1>9, <1>10, MinerBInv
        DEF Next, ImportStep

(* No imported block has a key from an ancestor of its parent, whatever    *)
(* the imports and the worker do between the two reads of the miner's      *)
(* loop: the metadata is read first, and a seal that ended up on another   *)
(* build is rejected by PowBlockImport.                                    *)
THEOREM KeyIsNotBehind == Spec => []KeyNotBehind
<1>1. Spec => [](IInv /\ BInv)
  <2>1. Init => IInv /\ BInv
    BY InitIInv, InitBInv
  <2>2. IInv /\ BInv /\ [Next]_vars => (IInv /\ BInv)'
    BY NextIInv, NextBInv
  <2> QED BY <2>1, <2>2, PTL DEF Spec
<1>2. IInv /\ BInv => KeyNotBehind
  <2> SUFFICES ASSUME IInv, BInv, NEW n \in Nodes,
                      NEW b \in known[n] \ {Genesis}
               PROVE  ~Ancestor(keyFrom[b], parent[b])
    BY DEF KeyNotBehind
  <2>1. b \in 1..sealed
    BY DEF IInv, TypeOK, Block, Genesis
  <2>2. solvedFor[b] = parent[b]
    BY DEF IInv, SolvedForOwnProposal
  <2> QED BY <2>1, <2>2 DEF BInv, SolvedNotBehind
<1> QED BY <1>1, <1>2, PTL
=============================================================================
