------------------------- MODULE ParallelSolverProofs -------------------------
(***************************************************************************)
(* What the shared state of solve_parallel promises for any number of      *)
(* threads, any trails and any bounds.  The inductive invariant follows a  *)
(* thread through its steps: its work is that of its solution before and   *)
(* after every transition and retry, from the lookup on it stands at a     *)
(* distinguished point, from the match on its work is in the map with      *)
(* another solution (the map only grows), and once the flag is up by a     *)
(* thread's own doing, that thread is still to write or has written.       *)
(***************************************************************************)
EXTENDS ParallelSolver, TLAPS

Matched == {"load", "store", "nonce", "res"}

(* A thread that looks up, inserts or reports stands at a distinguished    *)
(* point, reached from its nonce.                                          *)
AtPoint ==
    \A t \in Threads : pc[t] \in Matched \cup {"read", "write"} =>
        <<last[t], work[t]>> \in Points /\ work[t] = F[last[t]]

(* The two fields of a thread's state keep in step.                        *)
WorkOfSolution == \A t \in Threads : work[t] = Y[sol[t]]

(* A thread that reports has found another solution of its work.           *)
MatchStands ==
    \A t \in Threads : pc[t] \in Matched =>
        work[t] \in DOMAIN col /\ col[work[t]] # sol[t]

(* A thread that is about to write its result, or is done with it, at the  *)
(* collision the shared nonce belongs to.                                  *)
Owns(t) ==
    /\ pc[t] \in {"res", "done"}
    /\ nonce = last[t]
    /\ F[nonce] = work[t] /\ <<nonce, work[t]>> \in Points
    /\ work[t] \in DOMAIN col
    /\ Collide(<<sol[t], col[work[t]]>>)

(* The nonce is written before the result.                                 *)
NonceFirst ==
    (res # NoResult \/ \E t \in Threads : pc[t] = "res") =>
        \E t \in Threads : Owns(t)

(* The flag is up by a thread's doing only if that thread reports.         *)
FlagHasOwner ==
    found /\ ~imported =>
        res # NoResult \/ \E t \in Threads : pc[t] \in {"nonce", "res"}

JoinedAll == returned => \A t \in Threads : pc[t] = "done"

(* A thread that still walks has transitions left in its try.              *)
TrailLeft == \A t \in Threads : pc[t] # "done" => i[t] < Length

IInv ==
    /\ TypeOK /\ TrailLeft /\ WorkOfSolution /\ MapIsSound /\ AtPoint /\ MatchStands
    /\ ResultCollides /\ NonceFirst /\ FlagHasOwner /\ JoinedAll

-----------------------------------------------------------------------------
(* Every seed a thread draws with is one of the call's seeds, although the *)
(* offsets wrap around.                                                    *)
LEMMA LocalSeedIsU8 ==
    ASSUME NEW t \in Threads
    PROVE  LocalSeed(t) \in 0..U8 - 1
<1>1. t \in Nat /\ MaxTry \in Nat /\ U8 \in Nat \ {0}
  BY BoundsAssumption DEF Threads
<1>2. MaxTry * t \in Nat
  BY <1>1
<1>3. \A m \in Nat : m % U8 \in 0..U8 - 1
  BY <1>1
<1> QED BY <1>2, <1>3 DEF LocalSeed

LEMMA SeedsSuffice ==
    ASSUME NEW t \in Threads, NEW k \in 0..MaxTry
    PROVE  LocalSeed(t) + k \in Seeds
BY LocalSeedIsU8, BoundsAssumption DEF Seeds

(* A collision once found stays one: a thread that is done does not move,  *)
(* and the map only grows.                                                 *)
LEMMA OwnerStays ==
    ASSUME NonceFirst, nonce' = nonce,
           \A t \in Threads : pc[t] \in {"res", "done"} =>
              /\ pc'[t] \in {"res", "done"}
              /\ sol'[t] = sol[t] /\ work'[t] = work[t] /\ last'[t] = last[t],
           \A w \in DOMAIN col : w \in DOMAIN col' /\ col'[w] = col[w],
           res' # NoResult => res # NoResult \/ \E t \in Threads : pc[t] = "res",
           \A t \in Threads : pc'[t] = "res" => pc[t] = "res"
    PROVE  NonceFirst'
<1>1. ASSUME NEW t \in Threads, Owns(t) PROVE Owns(t)'
  BY <1>1 DEF Owns, Collide
<1> QED BY <1>1 DEF NonceFirst

LEMMA InitIInv == Init => IInv
<1> SUFFICES ASSUME Init PROVE IInv
  OBVIOUS
<1>1. \A t \in Threads : Start[LocalSeed(t)] \in Sols
  <2> TAKE t \in Threads
  <2>1. 0 \in 0..MaxTry
    BY BoundsAssumption
  <2>2. LocalSeed(t) + 0 \in Seeds
    BY <2>1, SeedsSuffice
  <2>3. LocalSeed(t) \in Seeds
    BY <2>2, LocalSeedIsU8, BoundsAssumption
  <2> QED BY <2>3, TrailAssumption
<1>2. DOMAIN col = {}
  BY DEF Init
<1>3. TypeOK
  <2>1. sol \in [Threads -> Sols] /\ work \in [Threads -> Works]
    BY <1>1, TrailAssumption DEF Init
  <2>2. last \in [Threads -> Works] /\ nonce \in Works
    BY TrailAssumption DEF Init
  <2>3. /\ i \in [Threads -> 0..Length] /\ j \in [Threads -> 0..MaxTry]
        /\ counter \in [Threads -> 0..GrainSize + 1]
    BY BoundsAssumption DEF Init
  <2>4. DOMAIN col \subseteq Works /\ col \in [DOMAIN col -> Sols]
    BY <1>2 DEF Init
  <2> QED BY <2>1, <2>2, <2>3, <2>4 DEF Init, TypeOK
<1>4. TrailLeft
  BY BoundsAssumption DEF Init, TrailLeft
<1> QED BY <1>2, <1>3, <1>4
        DEF Init, IInv, WorkOfSolution, MapIsSound, AtPoint, MatchStands, Matched,
            ResultCollides, NonceFirst, FlagHasOwner, JoinedAll

-----------------------------------------------------------------------------
LEMMA TransitIInv ==
    ASSUME IInv, NEW t \in Threads, Transit(t)
    PROVE  IInv'
<1> USE DEF Goto, shared, flags
<1>1. /\ sol' = [sol EXCEPT ![t] = Step[sol[t], work[t]]]
      /\ work' = [work EXCEPT ![t] = F[work[t]]]
      /\ last' = [last EXCEPT ![t] = work[t]]
      /\ pc' = [pc EXCEPT ![t] = IF <<work[t], F[work[t]]>> \in Points
                                 THEN "read" ELSE "grain"]
      /\ pc[t] = "transit"
      /\ i' = i /\ counter' = counter /\ j' = j
      /\ col' = col /\ res' = res /\ nonce' = nonce
      /\ found' = found /\ imported' = imported /\ returned' = returned
  BY DEF Transit
<1>2. /\ sol[t] \in Sols /\ work[t] \in Works /\ work[t] = Y[sol[t]]
      /\ Step[sol[t], work[t]] \in Sols /\ F[work[t]] \in Works
      /\ Y[Step[sol[t], work[t]]] = F[work[t]]
  BY TrailAssumption DEF IInv, TypeOK, WorkOfSolution
<1>3. TypeOK' /\ TrailLeft'
  BY <1>1, <1>2 DEF IInv, TypeOK, TrailLeft
<1>4. AtPoint' /\ WorkOfSolution'
  BY <1>1, <1>2 DEF IInv, TypeOK, AtPoint, WorkOfSolution, Matched
<1>5. MatchStands'
  BY <1>1 DEF IInv, TypeOK, MatchStands, Matched
<1>6. MapIsSound' /\ ResultCollides'
  BY <1>1 DEF IInv, MapIsSound, ResultCollides
<1>7. NonceFirst'
  BY <1>1, OwnerStays DEF IInv, TypeOK
<1>8. FlagHasOwner' /\ JoinedAll'
  BY <1>1 DEF IInv, TypeOK, FlagHasOwner, JoinedAll
<1> QED BY <1>3, <1>4, <1>5, <1>6, <1>7, <1>8 DEF IInv

LEMMA ReadIInv ==
    ASSUME IInv, NEW t \in Threads, Read(t)
    PROVE  IInv'
<1> USE DEF Goto, shared, flags
<1>1. /\ pc' = [pc EXCEPT ![t] =
                  IF work[t] \notin DOMAIN col THEN "write"
                  ELSE IF col[work[t]] # sol[t] THEN "load" ELSE "grain"]
      /\ pc[t] = "read"
      /\ sol' = sol /\ work' = work /\ last' = last
      /\ i' = i /\ counter' = counter /\ j' = j
      /\ col' = col /\ res' = res /\ nonce' = nonce
      /\ found' = found /\ imported' = imported /\ returned' = returned
  BY DEF Read
<1>2. TypeOK' /\ TrailLeft'
  BY <1>1 DEF IInv, TypeOK, TrailLeft
<1>3. AtPoint' /\ MatchStands' /\ WorkOfSolution'
  BY <1>1 DEF IInv, TypeOK, AtPoint, MatchStands, WorkOfSolution, Matched
<1>4. MapIsSound' /\ ResultCollides'
  BY <1>1 DEF IInv, MapIsSound, ResultCollides
<1>5. NonceFirst'
  BY <1>1, OwnerStays DEF IInv, TypeOK
<1>6. FlagHasOwner' /\ JoinedAll'
  BY <1>1 DEF IInv, TypeOK, FlagHasOwner, JoinedAll
<1> QED BY <1>2, <1>3, <1>4, <1>5, <1>6 DEF IInv

LEMMA LoadIInv ==
    ASSUME IInv, NEW t \in Threads, Load(t)
    PROVE  IInv'
<1> USE DEF Goto, shared, flags
<1>1. /\ pc' = [pc EXCEPT ![t] = IF found THEN "done" ELSE "store"]
      /\ pc[t] = "load"
      /\ sol' = sol /\ work' = work /\ last' = last
      /\ i' = i /\ counter' = counter /\ j' = j
      /\ col' = col /\ res' = res /\ nonce' = nonce
      /\ found' = found /\ imported' = imported /\ returned' = returned
  BY DEF Load
<1>2. TypeOK' /\ TrailLeft'
  BY <1>1 DEF IInv, TypeOK, TrailLeft
<1>3. AtPoint' /\ MatchStands' /\ WorkOfSolution'
  BY <1>1 DEF IInv, TypeOK, AtPoint, MatchStands, WorkOfSolution, Matched
<1>4. MapIsSound' /\ ResultCollides'
  BY <1>1 DEF IInv, MapIsSound, ResultCollides
<1>5. NonceFirst'
  BY <1>1, OwnerStays DEF IInv, TypeOK
<1>6. FlagHasOwner' /\ JoinedAll'
  BY <1>1 DEF IInv, TypeOK, FlagHasOwner, JoinedAll
<1> QED BY <1>2, <1>3, <1>4, <1>5, <1>6 DEF IInv

LEMMA StoreIInv ==
    ASSUME IInv, NEW t \in Threads, Store(t)
    PROVE  IInv'
<1> USE DEF Goto, shared, flags
<1>1. /\ pc' = [pc EXCEPT ![t] = "nonce"]
      /\ pc[t] = "store" /\ found' = TRUE
      /\ sol' = sol /\ work' = work /\ last' = last
      /\ i' = i /\ counter' = counter /\ j' = j
      /\ col' = col /\ res' = res /\ nonce' = nonce
      /\ imported' = imported /\ returned' = returned
  BY DEF Store
<1>2. TypeOK' /\ TrailLeft'
  BY <1>1 DEF IInv, TypeOK, TrailLeft
<1>3. AtPoint' /\ MatchStands' /\ WorkOfSolution'
  BY <1>1 DEF IInv, TypeOK, AtPoint, MatchStands, WorkOfSolution, Matched
<1>4. MapIsSound' /\ ResultCollides'
  BY <1>1 DEF IInv, MapIsSound, ResultCollides
<1>5. NonceFirst' /\ JoinedAll'
  BY <1>1, OwnerStays DEF IInv, TypeOK, JoinedAll
<1>6. FlagHasOwner'
  BY <1>1 DEF IInv, TypeOK, FlagHasOwner
<1> QED BY <1>2, <1>3, <1>4, <1>5, <1>6 DEF IInv

LEMMA WriteNonceIInv ==
    ASSUME IInv, NEW t \in Threads, WriteNonce(t)
    PROVE  IInv'
<1> USE DEF Goto, shared, flags
<1>1. /\ pc' = [pc EXCEPT ![t] = "res"]
      /\ pc[t] = "nonce" /\ nonce' = last[t]
      /\ sol' = sol /\ work' = work /\ last' = last
      /\ i' = i /\ counter' = counter /\ j' = j
      /\ col' = col /\ res' = res
      /\ found' = found /\ imported' = imported /\ returned' = returned
  BY DEF WriteNonce
<1>2. TypeOK' /\ TrailLeft'
  BY <1>1 DEF IInv, TypeOK, TrailLeft
<1>3. AtPoint' /\ MatchStands' /\ WorkOfSolution'
  BY <1>1 DEF IInv, TypeOK, AtPoint, MatchStands, WorkOfSolution, Matched
<1>4. MapIsSound' /\ ResultCollides'
  BY <1>1 DEF IInv, MapIsSound, ResultCollides
<1>5. Owns(t)'
  <2>1. /\ <<last[t], work[t]>> \in Points /\ work[t] = F[last[t]]
        /\ work[t] \in DOMAIN col /\ col[work[t]] # sol[t]
        /\ Y[col[work[t]]] = Y[sol[t]] /\ pc'[t] = "res"
    BY <1>1 DEF IInv, TypeOK, AtPoint, MatchStands, Matched, MapIsSound, WorkOfSolution
  <2> QED BY <1>1, <2>1 DEF Owns, Collide
<1>6. NonceFirst' /\ JoinedAll'
  BY <1>1, <1>5 DEF IInv, TypeOK, NonceFirst, JoinedAll
<1>7. FlagHasOwner'
  BY <1>1 DEF IInv, TypeOK, FlagHasOwner
<1> QED BY <1>2, <1>3, <1>4, <1>6, <1>7 DEF IInv

LEMMA WriteResIInv ==
    ASSUME IInv, NEW t \in Threads, WriteRes(t)
    PROVE  IInv'
<1> USE DEF Goto, shared, flags
<1>1. /\ pc' = [pc EXCEPT ![t] = "done"]
      /\ pc[t] = "res" /\ res' = <<sol[t], col[work[t]]>>
      /\ sol' = sol /\ work' = work /\ last' = last
      /\ i' = i /\ counter' = counter /\ j' = j
      /\ col' = col /\ nonce' = nonce
      /\ found' = found /\ imported' = imported /\ returned' = returned
  BY DEF WriteRes
<1>2. /\ work[t] \in DOMAIN col /\ col[work[t]] # sol[t]
      /\ Y[col[work[t]]] = work[t] /\ col[work[t]] \in Sols /\ sol[t] \in Sols
      /\ Y[sol[t]] = work[t]
  BY <1>1 DEF IInv, TypeOK, MatchStands, Matched, MapIsSound, WorkOfSolution
<1>3. TypeOK' /\ TrailLeft'
  BY <1>1, <1>2 DEF IInv, TypeOK, TrailLeft
<1>4. AtPoint' /\ MatchStands' /\ WorkOfSolution'
  BY <1>1 DEF IInv, TypeOK, AtPoint, MatchStands, WorkOfSolution, Matched
<1>5. MapIsSound' /\ ResultCollides'
  BY <1>1, <1>2 DEF IInv, MapIsSound, ResultCollides, Collide
<1>6. NonceFirst' /\ JoinedAll'
  BY <1>1, OwnerStays DEF IInv, TypeOK, JoinedAll
<1>7. FlagHasOwner'
  BY <1>1 DEF FlagHasOwner, NoResult
<1> QED BY <1>3, <1>4, <1>5, <1>6, <1>7 DEF IInv

LEMMA InsertIInv ==
    ASSUME IInv, NEW t \in Threads, Insert(t)
    PROVE  IInv'
<1> USE DEF Goto, shared, flags
<1>1. /\ pc' = [pc EXCEPT ![t] = "grain"]
      /\ pc[t] = "write"
      /\ col' = [w \in DOMAIN col \cup {work[t]} |->
                   IF w \in DOMAIN col THEN col[w] ELSE sol[t]]
      /\ sol' = sol /\ work' = work /\ last' = last
      /\ i' = i /\ counter' = counter /\ j' = j
      /\ res' = res /\ nonce' = nonce
      /\ found' = found /\ imported' = imported /\ returned' = returned
  BY DEF Insert
<1>2. /\ DOMAIN col' = DOMAIN col \cup {work[t]}
      /\ \A w \in DOMAIN col : w \in DOMAIN col' /\ col'[w] = col[w]
      /\ \A w \in DOMAIN col' : w \notin DOMAIN col =>
            w = work[t] /\ col'[w] = sol[t]
  BY <1>1
<1>3. sol[t] \in Sols /\ work[t] \in Works
  BY DEF IInv, TypeOK
<1>4. TypeOK'
  <2>1. DOMAIN col' \subseteq Works /\ col' \in [DOMAIN col' -> Sols]
    BY <1>1, <1>2, <1>3 DEF IInv, TypeOK
  <2> QED BY <2>1, <1>1 DEF IInv, TypeOK
<1>5. MapIsSound'
  <2>1. Y[sol[t]] = work[t] /\ last[t] \in Works
        /\ F[last[t]] = work[t] /\ <<last[t], work[t]>> \in Points
    BY <1>1 DEF IInv, TypeOK, AtPoint, WorkOfSolution
  <2> QED BY <1>2, <2>1 DEF IInv, MapIsSound
<1>6. AtPoint' /\ MatchStands' /\ WorkOfSolution'
  BY <1>1, <1>2 DEF IInv, TypeOK, AtPoint, MatchStands, WorkOfSolution, Matched
<1>7. ResultCollides' /\ JoinedAll' /\ FlagHasOwner' /\ TrailLeft'
  BY <1>1 DEF IInv, TrailLeft, TypeOK, ResultCollides, JoinedAll, FlagHasOwner
<1>8. NonceFirst'
  BY <1>1, <1>2, OwnerStays DEF IInv, TypeOK
<1> QED BY <1>4, <1>5, <1>6, <1>7, <1>8 DEF IInv

LEMMA GrainIInv ==
    ASSUME IInv, NEW t \in Threads, Leave(t) \/ Continue(t) \/ Retry(t)
    PROVE  IInv'
<1> USE DEF Goto, shared, flags
<1>1. /\ pc[t] = "grain" /\ pc'[t] \in {"done", "transit"}
      /\ pc' = [pc EXCEPT ![t] = pc'[t]]
      /\ \A u \in Threads : u # t => sol'[u] = sol[u] /\ work'[u] = work[u]
                                   /\ last'[u] = last[u]
      /\ col' = col /\ res' = res /\ nonce' = nonce
      /\ found' = found /\ imported' = imported /\ returned' = returned
  BY DEF Leave, Continue, Retry, IInv, TypeOK
<1>2. NextCounter(t) \in 0..GrainSize + 1
  BY BoundsAssumption DEF NextCounter, Polls, IInv, TypeOK
<1>3. TypeOK'
  <2>1. CASE Leave(t)
    BY <2>1 DEF Leave, IInv, TypeOK
  <2>2. CASE Continue(t)
    BY <2>2, <1>2, BoundsAssumption DEF Continue, IInv, TypeOK
  <2>3. CASE Retry(t) /\ j[t] < MaxTry
    <3>1. j[t] + 1 \in 0..MaxTry
      BY <2>3, BoundsAssumption DEF IInv, TypeOK
    <3>2. LocalSeed(t) + (j[t] + 1) \in Seeds
      BY <3>1, SeedsSuffice
    <3>3. LocalSeed(t) + j[t] + 1 = LocalSeed(t) + (j[t] + 1)
      BY LocalSeedIsU8, BoundsAssumption DEF IInv, TypeOK
    <3>4. /\ Start[LocalSeed(t) + j[t] + 1] \in Sols
          /\ Y[Start[LocalSeed(t) + j[t] + 1]] \in Works
      BY <3>2, <3>3, TrailAssumption
    <3> DEFINE s == Start[LocalSeed(t) + j[t] + 1]
    <3>5. /\ pc' = [pc EXCEPT ![t] = "transit"]
          /\ sol' = [sol EXCEPT ![t] = s] /\ work' = [work EXCEPT ![t] = Y[s]]
          /\ last' = [last EXCEPT ![t] = One]
          /\ i' = [i EXCEPT ![t] = 0] /\ j' = [j EXCEPT ![t] = @ + 1]
          /\ counter' = [counter EXCEPT ![t] = NextCounter(t)]
      BY <2>3 DEF Retry
    <3>6. s \in Sols /\ Y[s] \in Works /\ One \in Works
      BY <3>4, TrailAssumption
    <3> HIDE DEF s
    <3>7. /\ sol' \in [Threads -> Sols] /\ work' \in [Threads -> Works]
          /\ last' \in [Threads -> Works]
      BY <3>5, <3>6 DEF IInv, TypeOK
    <3>8. /\ i' \in [Threads -> 0..Length] /\ j' \in [Threads -> 0..MaxTry]
          /\ counter' \in [Threads -> 0..GrainSize + 1]
      BY <3>1, <3>5, <1>2, BoundsAssumption DEF IInv, TypeOK
    <3> QED BY <3>5, <3>7, <3>8, <1>1 DEF IInv, TypeOK
  <2>4. CASE Retry(t) /\ ~(j[t] < MaxTry)
    <3>1. i[t] + 1 \in 0..Length
      BY <2>4, <1>1, BoundsAssumption DEF IInv, TypeOK, TrailLeft
    <3> QED BY <2>4, <3>1, <1>2 DEF Retry, IInv, TypeOK
  <2> QED BY <2>1, <2>2, <2>3, <2>4
<1>4. AtPoint' /\ MatchStands'
  BY <1>1 DEF IInv, TypeOK, AtPoint, MatchStands, Matched
<1>5. MapIsSound' /\ ResultCollides'
  BY <1>1 DEF IInv, MapIsSound, ResultCollides
<1>6. NonceFirst'
  BY <1>1, OwnerStays DEF IInv, TypeOK
<1>7. TrailLeft'
  BY BoundsAssumption DEF Leave, Continue, Retry, IInv, TypeOK, TrailLeft
<1>8. WorkOfSolution'
  BY <1>3 DEF Leave, Continue, Retry, IInv, TypeOK, WorkOfSolution
<1>9. FlagHasOwner' /\ JoinedAll'
  BY <1>1 DEF IInv, TypeOK, FlagHasOwner, JoinedAll
<1> QED BY <1>3, <1>4, <1>5, <1>6, <1>7, <1>8, <1>9 DEF IInv

LEMMA SignalJoinIInv ==
    ASSUME IInv, Signal \/ Join
    PROVE  IInv'
<1>1. /\ pc' = pc /\ sol' = sol /\ work' = work /\ last' = last
      /\ i' = i /\ counter' = counter /\ j' = j
      /\ col' = col /\ res' = res /\ nonce' = nonce
      /\ found' \in BOOLEAN /\ imported' \in BOOLEAN /\ returned' \in BOOLEAN
      /\ returned' = returned \/ \A t \in Threads : pc[t] = "done"
  BY DEF Signal, Join, threadVars, shared, IInv, TypeOK
<1>2. TypeOK' /\ TrailLeft'
  BY <1>1 DEF IInv, TypeOK, TrailLeft
<1>3. MapIsSound' /\ ResultCollides'
  BY <1>1 DEF IInv, MapIsSound, ResultCollides
<1>4. AtPoint' /\ MatchStands' /\ WorkOfSolution'
  BY <1>1 DEF IInv, AtPoint, MatchStands, WorkOfSolution
<1>5. NonceFirst'
  BY <1>1, OwnerStays DEF IInv
<1>6. FlagHasOwner'
  <2>1. CASE Signal
    BY <2>1 DEF Signal, FlagHasOwner
  <2>2. CASE Join
    BY <2>2, <1>1 DEF Join, IInv, FlagHasOwner
  <2> QED BY <2>1, <2>2
<1>7. JoinedAll'
  BY <1>1 DEF IInv, JoinedAll
<1> QED BY <1>2, <1>3, <1>4, <1>5, <1>6, <1>7 DEF IInv

LEMMA NextIInv == IInv /\ [Next]_vars => IInv'
<1> SUFFICES ASSUME IInv, [Next]_vars PROVE IInv'
  OBVIOUS
<1>1. ASSUME NEW t \in Threads, Thread(t) PROVE IInv'
  BY <1>1, TransitIInv, ReadIInv, LoadIInv, StoreIInv, WriteNonceIInv,
     WriteResIInv, InsertIInv, GrainIInv DEF Thread
<1>2. CASE Signal \/ Join
  BY <1>2, SignalJoinIInv
<1>3. CASE UNCHANGED vars
  BY <1>3 DEF vars, threadVars, shared, flags, IInv, TypeOK, TrailLeft,
     MapIsSound, AtPoint, MatchStands, ResultCollides, NonceFirst, Owns, WorkOfSolution,
     FlagHasOwner, JoinedAll
<1> QED BY <1>1, <1>2, <1>3 DEF Next

LEMMA Invariance == Spec => []IInv
BY InitIInv, NextIInv, PTL DEF Spec

-----------------------------------------------------------------------------
(* Types; among them that every try draws from the seeds of the call.      *)
THEOREM TypeCorrect == Spec => []TypeOK
<1>1. IInv => TypeOK
  BY DEF IInv
<1> QED BY <1>1, Invariance, PTL

(* The shared map relates works of distinguished points to solutions of    *)
(* these works, although a thread moves the two apart from each other.     *)
THEOREM MapStaysSound == Spec => []MapIsSound
<1>1. IInv => MapIsSound
  BY DEF IInv
<1> QED BY <1>1, Invariance, PTL

(* The reported pair is a collision however the threads interleave.        *)
THEOREM ResultIsCollision == Spec => []ResultCollides
<1>1. IInv => ResultCollides
  BY DEF IInv
<1> QED BY <1>1, Invariance, PTL

(* With a result, the nonce is that of a collision some thread has found,  *)
(* at a distinguished point; not always of the one reported.               *)
THEOREM NonceIsSound == Spec => []NonceIsOfCollision
<1>1. IInv => NonceIsOfCollision
  BY DEF IInv, NonceFirst, Owns, NonceIsOfCollision
<1> QED BY <1>1, Invariance, PTL

(* A search that stops by a thread's own flag has a result.                *)
THEOREM FlagIsHonest == Spec => []FlagMeansResult
<1>1. IInv => FlagMeansResult
  BY DEF IInv, FlagHasOwner, JoinedAll, FlagMeansResult
<1> QED BY <1>1, Invariance, PTL

(* No entry of the shared map is replaced or removed.                      *)
THEOREM EntriesStay == Spec => MapOnlyGrows
<1>1. [Next]_vars =>
        [\A w \in DOMAIN col : w \in DOMAIN col' /\ col'[w] = col[w]]_vars
  <2> SUFFICES ASSUME Next
               PROVE  \A w \in DOMAIN col : w \in DOMAIN col' /\ col'[w] = col[w]
    OBVIOUS
  <2>1. ASSUME NEW t \in Threads, Insert(t)
        PROVE  \A w \in DOMAIN col : w \in DOMAIN col' /\ col'[w] = col[w]
    BY <2>1 DEF Insert
  <2>2. ASSUME NEW t \in Threads, Thread(t), ~Insert(t) PROVE col' = col
    BY <2>2 DEF Thread, Transit, Read, Load, Store, WriteNonce, WriteRes,
                Leave, Continue, Retry, shared
  <2>3. Signal \/ Join => col' = col
    BY DEF Signal, Join, shared
  <2> QED BY <2>1, <2>2, <2>3 DEF Next
<1> QED BY <1>1, PTL DEF Spec, MapOnlyGrows

-----------------------------------------------------------------------------
(* The call as its caller sees it.                                         *)

(* Who writes the nonce or the result has raised the flag before.          *)
FlagFirst ==
    res # NoResult \/ (\E t \in Threads : pc[t] \in {"nonce", "res"}) => found

(* No step lowers the flag, and only a thread that may change the nonce or *)
(* the result changes what the call returns.                               *)
LEMMA FlagStays ==
    ASSUME TypeOK, Next
    PROVE  /\ found' \in {found, TRUE}
           /\ Join \/ returned' = returned
BY DEF Next, Thread, Transit, Read, Load, Store, WriteNonce, WriteRes, Insert,
       Leave, Continue, Retry, Signal, Join, flags, TypeOK

LEMMA FlagFirstHolds == IInv /\ FlagFirst /\ [Next]_vars => FlagFirst'
<1> SUFFICES ASSUME IInv, FlagFirst, [Next]_vars PROVE FlagFirst'
  OBVIOUS
<1> USE DEF Goto
<1>1. CASE UNCHANGED vars
  BY <1>1 DEF vars, threadVars, shared, flags, FlagFirst
<1>2. ASSUME NEW t \in Threads, Store(t) PROVE FlagFirst'
  BY <1>2 DEF Store, FlagFirst
<1>3. ASSUME NEW t \in Threads, WriteNonce(t) \/ WriteRes(t) PROVE FlagFirst'
  <2>1. found /\ found' = found
    BY <1>3 DEF WriteNonce, WriteRes, FlagFirst, flags
  <2> QED BY <2>1 DEF FlagFirst
<1>4. ASSUME NEW t \in Threads, Thread(t), ~Store(t), ~WriteNonce(t), ~WriteRes(t)
      PROVE  FlagFirst'
  <2>1. /\ res' = res /\ found' = found
        /\ \A u \in Threads : pc'[u] \in {"nonce", "res"} => pc[u] \in {"nonce", "res"}
    BY <1>4 DEF Thread, Transit, Read, Load, Insert, Leave, Continue, Retry,
                shared, flags, IInv, TypeOK
  <2> QED BY <2>1 DEF FlagFirst
<1>5. CASE Signal \/ Join
  BY <1>5 DEF Signal, Join, threadVars, shared, FlagFirst
<1> QED BY <1>1, <1>2, <1>3, <1>4, <1>5 DEF Next

(* Every step of the threads is a step of the search, or none: the call    *)
(* runs until the threads are joined, returns a result only with the flag  *)
(* up, and nothing changes after that.                                     *)
LEMMA StepMaps ==
    IInv /\ FlagFirst /\ [Next]_vars =>
        [Outside!SearchNext]_(Outside!searchVars)
<1> SUFFICES ASSUME IInv, FlagFirst, [Next]_vars
             PROVE  [Outside!SearchNext]_(Outside!searchVars)
  OBVIOUS
<1>1. CASE UNCHANGED vars
  BY <1>1 DEF vars, shared, flags, Stage, Verifies, Collide, Outside!searchVars
<1>2. CASE Join
  <2>1. Stage = "running" /\ returned' /\ res' = res /\ nonce' = nonce /\ found' = found
    BY <1>2 DEF Join, shared, Stage
  <2>2. CASE res = NoResult
    <3>1. Stage' = "idle"
      BY <2>1, <2>2 DEF Stage
    <3> QED BY <2>1, <3>1 DEF Outside!SearchNext, Outside!GiveUp, Outside!Goes
  <2>3. CASE res # NoResult
    <3>1. Stage' \in {"found", "spoilt"} /\ found' = TRUE
      BY <2>1, <2>3 DEF Stage, FlagFirst, IInv, TypeOK
    <3> QED BY <2>1, <3>1
            DEF Outside!SearchNext, Outside!Find, Outside!Spoil, Outside!Goes
  <2> QED BY <2>2, <2>3
<1>3. CASE Next /\ ~Join
  <2>1. ~returned
    BY <1>3 DEF Next, Signal, IInv, JoinedAll, Thread, Transit, Read, Load, Store,
                WriteNonce, WriteRes, Insert, Leave, Continue, Retry
  <2>2. found' \in {found, TRUE} /\ returned' = returned
    BY <1>3, FlagStays DEF IInv
  <2>3. Stage = "running" /\ Stage' = "running"
    BY <2>1, <2>2 DEF Stage
  <2>4. CASE found' = found
    BY <2>3, <2>4 DEF Outside!searchVars
  <2>5. CASE found' = TRUE
    BY <2>3, <2>5 DEF Outside!SearchNext, Outside!Raise, Outside!Goes
  <2> QED BY <2>2, <2>4, <2>5
<1> QED BY <1>1, <1>2, <1>3

(* solve_parallel takes the steps of a search, the race of its threads     *)
(* included; that it ends is left to the model checker.                    *)
THEOREM CallIsSearch == Spec => Outside!SearchSpec
<1>1. Init => FlagFirst /\ Outside!SearchInit
  BY DEF Init, FlagFirst, Stage, Outside!SearchInit
<1>2. Spec => []FlagFirst
  BY <1>1, FlagFirstHolds, Invariance, PTL DEF Spec
<1> QED BY <1>1, <1>2, Invariance, StepMaps, PTL DEF Spec, Outside!SearchSpec
=============================================================================
