-------------------------- MODULE MiningSearchProofs --------------------------
(***************************************************************************)
(* Every miner uses its solver as module Search says, for any number of    *)
(* nodes, blocks and restarts: the mapping of Stage takes each step of a   *)
(* node to a step of its search or to a stutter, and the steps of other    *)
(* nodes to a stutter.                                                     *)
(***************************************************************************)
EXTENDS MiningNodeProofs

(* A step that leaves the search of n alone.                               *)
Stutters(n) ==
    UNCHANGED <<pc[n], work[n], metadata[n], found[n], restarts[n]>>

SearchStep(n) == [Solver(n)!SearchNext]_(Solver(n)!searchVars)

LEMMA StutterMaps ==
    ASSUME NEW n \in Nodes, Stutters(n)
    PROVE  SearchStep(n)
<1>1. UNCHANGED <<Stage(n), found[n], restarts[n]>>
  BY DEF Stutters, Stage
<1> QED BY <1>1 DEF SearchStep, Solver!searchVars

(* A step of a node that is not n.                                         *)
LEMMA OtherMaps ==
    ASSUME NEW n \in Nodes, NEW m \in Nodes, m # n,
           pc' = pc \/ \E v : pc' = [pc EXCEPT ![m] = v],
           work' = work \/ \E v : work' = [work EXCEPT ![m] = v],
           metadata' = metadata \/ \E v : metadata' = [metadata EXCEPT ![m] = v],
           found' = found \/ \E v : found' = [found EXCEPT ![m] = v],
           restarts' = restarts \/ \E v : restarts' = [restarts EXCEPT ![m] = v],
           TypeOK
    PROVE  SearchStep(n)
<1>1. Stutters(n)
  BY DEF Stutters, TypeOK
<1> QED BY <1>1, StutterMaps

(* Whatever the stage, a search may end and leave the flag as it is.       *)
LEMMA EndMaps ==
    ASSUME NEW n \in Nodes, Stage(n)' = "idle",
           found'[n] = found[n], restarts'[n] = restarts[n]
    PROVE  SearchStep(n)
<1>1. Stage(n) \in {"idle", "running", "found", "spoilt"}
  BY DEF Stage
<1>2. CASE Stage(n) = "idle"
  BY <1>2 DEF SearchStep, Solver!searchVars
<1>3. CASE Stage(n) = "running"
  BY <1>3 DEF SearchStep, Solver!SearchNext, Solver!GiveUp, Solver!Goes
<1>4. CASE Stage(n) \in {"found", "spoilt"}
  BY <1>4 DEF SearchStep, Solver!SearchNext, Solver!Take, Solver!Goes
<1> QED BY <1>1, <1>2, <1>3, <1>4

LEMMA MinerMaps ==
    ASSUME TypeOK, NEW n \in Nodes, Miner(n)
    PROVE  SearchStep(n)
<1> USE DEF NextIteration
<1>1. restarts'[n] = restarts[n]
  BY DEF Miner, Start, Metadata, FindSeal, Rest, StartMining, Solved, Spoilt,
         NewSeal, Cancelled, Exhausted, SubmitRejected, SubmitVerified, Submit
<1>2. CASE \/ Start(n) \/ Metadata(n) \/ FindSeal(n) \/ Rest(n) \/ Cancelled(n)
           \/ Exhausted(n) \/ SubmitRejected(n) \/ Submit(n)
  <2>1. pc'[n] \in {"metadata", "findSeal", "decide", "importing"} /\ found' = found
    BY <1>2 DEF Start, Metadata, FindSeal, Rest, Cancelled, Exhausted,
                SubmitRejected, Submit, TypeOK
  <2>2. Stage(n)' = "idle"
    BY <2>1 DEF Stage
  <2> QED BY <1>1, <2>1, <2>2, EndMaps
<1>3. CASE StartMining(n)
  <2>1. Stage(n) = "idle" /\ Stage(n)' = "running" /\ found'[n] = FALSE
    BY <1>3 DEF StartMining, Stage, TypeOK
  <2> QED BY <1>1, <2>1
          DEF SearchStep, Solver!SearchNext, Solver!Begin, Solver!Goes
<1>4. CASE Solved(n)
  <2>1. Stage(n) = "running" /\ Stage(n)' = "found" /\ found'[n] = TRUE
    BY <1>4 DEF Solved, NewSeal, Stage, TypeOK
  <2> QED BY <1>1, <2>1
          DEF SearchStep, Solver!SearchNext, Solver!Find, Solver!Goes
<1>5. CASE Spoilt(n)
  <2>1. /\ Several /\ Stage(n) = "running" /\ Stage(n)' \in {"found", "spoilt"}
        /\ found'[n] = TRUE
    BY <1>5 DEF Spoilt, NewSeal, Stage, TypeOK
  <2> QED BY <1>1, <2>1
          DEF SearchStep, Solver!SearchNext, Solver!Find, Solver!Spoil, Solver!Goes
<1>6. CASE SubmitVerified(n)
  <2>1. Stage(n)' = Stage(n) /\ found'[n] = found[n]
    BY <1>6 DEF SubmitVerified, Stage, TypeOK
  <2> QED BY <1>1, <2>1 DEF SearchStep, Solver!searchVars
<1> QED BY <1>2, <1>3, <1>4, <1>5, <1>6 DEF Miner

LEMMA ImportMaps ==
    ASSUME TypeOK, NEW n \in Nodes, NEW i \in Importers,
           ImportStep(n, i) \/ ImportFails(n, i)
    PROVE  SearchStep(n)
<1>1. CASE VerifyAndChoose(n, i)
  BY <1>1, StutterMaps DEF VerifyAndChoose, minerVars, Stutters
<1>2. CASE SignalFound(n, i)
  <2>1. /\ Stage(n)' = Stage(n) /\ found'[n] = TRUE
        /\ restarts'[n] = restarts[n]
    BY <1>2 DEF SignalFound, minerVars, Stage, TypeOK
  <2> QED BY <2>1 DEF SearchStep, Solver!SearchNext, Solver!Raise, Solver!Goes
<1>3. CASE (Apply(n, i) \/ ImportFails(n, i) \/ InvalidSeal(n, i)) /\ i = "own"
  <2>1. Stage(n)' = "idle" /\ found' = found /\ restarts' = restarts
    BY <1>3 DEF Apply, ImportFails, InvalidSeal, NextIteration, Stage, TypeOK
  <2> QED BY <2>1, EndMaps
<1>4. CASE (Apply(n, i) \/ ImportFails(n, i) \/ InvalidSeal(n, i)) /\ i # "own"
  BY <1>4, StutterMaps DEF Apply, ImportFails, InvalidSeal, Stutters
<1> QED BY <1>1, <1>2, <1>3, <1>4 DEF ImportStep

LEMMA RestartMaps ==
    ASSUME TypeOK, NEW n \in Nodes, Restart(n)
    PROVE  SearchStep(n)
<1>1. /\ Stage(n)' = "idle" /\ found'[n] = FALSE
      /\ restarts'[n] = restarts[n] + 1
  BY DEF Restart, Stage, TypeOK
<1> QED BY <1>1 DEF SearchStep, Solver!SearchNext, Solver!Abort

-----------------------------------------------------------------------------
LEMMA NextMaps ==
    ASSUME TypeOK, [Next]_vars, NEW n \in Nodes
    PROVE  SearchStep(n)
<1>1. CASE UNCHANGED vars
  BY <1>1, StutterMaps DEF vars, minerVars, Stutters
<1>2. ASSUME NEW m \in Nodes, Miner(m) PROVE SearchStep(n)
  <2>1. CASE m = n
    BY <1>2, <2>1, MinerMaps
  <2>2. CASE m # n
    <3> USE DEF NextIteration
    <3>1. /\ \E v : pc' = [pc EXCEPT ![m] = v]
          /\ work' = work \/ \E v : work' = [work EXCEPT ![m] = v]
          /\ metadata' = metadata \/ \E v : metadata' = [metadata EXCEPT ![m] = v]
          /\ found' = found \/ \E v : found' = [found EXCEPT ![m] = v]
          /\ restarts' = restarts
      BY <1>2 DEF Miner, Start, Metadata, FindSeal, Rest, StartMining, Solved,
                  Spoilt, NewSeal, Cancelled, Exhausted, SubmitRejected,
                  SubmitVerified, Submit
    <3> QED BY <2>2, <3>1, OtherMaps
  <2> QED BY <2>1, <2>2
<1>3. ASSUME NEW m \in Nodes, Worker(m) PROVE SearchStep(n)
  BY <1>3, StutterMaps DEF Worker, Propose, OnBuild, minerVars, Stutters
<1>4. ASSUME NEW m \in Nodes, NEW b \in 1..sealed, Receive(m, b)
      PROVE  SearchStep(n)
  BY <1>4, StutterMaps DEF Receive, minerVars, Stutters
<1>5. ASSUME NEW m \in Nodes, NEW i \in Importers,
             ImportStep(m, i) \/ ImportFails(m, i)
      PROVE  SearchStep(n)
  <2>1. CASE m = n
    BY <1>5, <2>1, ImportMaps
  <2>2. CASE m # n
    <3>1. /\ pc' = pc \/ \E v : pc' = [pc EXCEPT ![m] = v]
          /\ work' = work \/ \E v : work' = [work EXCEPT ![m] = v]
          /\ metadata' = metadata \/ \E v : metadata' = [metadata EXCEPT ![m] = v]
          /\ found' = found \/ \E v : found' = [found EXCEPT ![m] = v]
          /\ restarts' = restarts
      BY <1>5 DEF ImportStep, VerifyAndChoose, SignalFound, Apply, ImportFails,
                  InvalidSeal, NextIteration, minerVars
    <3> QED BY <2>2, <3>1, OtherMaps
  <2> QED BY <2>1, <2>2
<1>6. ASSUME NEW r \in Remotes, RemoteSeal(r) PROVE SearchStep(n)
  BY <1>6, StutterMaps DEF RemoteSeal, minerVars, Stutters
<1>7. ASSUME NEW m \in Nodes, Restart(m) PROVE SearchStep(n)
  <2>1. CASE m = n
    BY <1>7, <2>1, RestartMaps
  <2>2. CASE m # n
    BY <1>7, <2>2, OtherMaps DEF Restart
  <2> QED BY <2>1, <2>2
<1> QED BY <1>1, <1>2, <1>3, <1>4, <1>5, <1>6, <1>7 DEF Next

LEMMA InitMaps ==
    ASSUME Init, NEW n \in Nodes
    PROVE  Solver(n)!SearchInit
<1>1. Stage(n) = "idle" /\ found[n] = FALSE /\ restarts[n] = 0
  BY DEF Init, Stage
<1> QED BY <1>1 DEF Solver!SearchInit

(* The loop of new_full and the imports use the solver and the flag as     *)
(* module Search says: the flag is lowered only when a search begins.      *)
THEOREM MinerStepsAreSearchSteps == Spec => MinerUsesSearch
<1>1. Init => \A n \in Nodes : Solver(n)!SearchInit
  BY InitMaps
<1>2. TypeOK /\ [Next]_vars =>
        [\A n \in Nodes : [Solver(n)!SearchNext]_(Solver(n)!searchVars)]_vars
  BY NextMaps DEF SearchStep
<1>3. Spec => []TypeOK
  BY TypeCorrect
<1> QED BY <1>1, <1>2, <1>3, PTL DEF Spec, MinerUsesSearch
=============================================================================
