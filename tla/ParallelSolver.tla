---------------------------- MODULE ParallelSolver ----------------------------
(***************************************************************************)
(* PublicKey::solve_parallel (consensus/trex-pow/src/algorithm.rs): several *)
(* threads walk trails of the Pollard rho map and look for two different   *)
(* solutions of the same work in one shared map of distinguished points.   *)
(*                                                                         *)
(* The arithmetic is abstracted to what the threads tell apart.  A         *)
(* solution s = (a, b) stands for the residue Y[s] = g^a h^b mod p.  A     *)
(* thread keeps its solution and its work in separate fields: from_pub_key *)
(* computes the work of the drawn solution, and a transition hashes the    *)
(* work w, moves the work by func_f to F[w], and the solution by func_g    *)
(* and func_h to Step[s, w]; the two keep in step only if they were so     *)
(* before.  Whether a point is distinguished depends on the work and on    *)
(* the work before it (the nonce).                                         *)
(***************************************************************************)
EXTENDS Naturals

CONSTANTS
    Cpus,       \* number of threads
    Works,      \* residues mod p
    One,        \* the residue 1, with which every nonce is initialised
    Sols,       \* solutions
    Y,          \* solution -> the residue it stands for
    Step,       \* solution, hashed work -> solution: func_g and func_h
    F,          \* work -> work: func_f, with the hash of the work
    Points,     \* the distinguished points <<nonce, work>>
    Start,      \* seed -> the solution drawn with it
    MaxTry,     \* max_try
    U8,         \* 2^8: max_try and the thread's number are u8
    Length,     \* n: transitions per try
    GrainSize   \* transitions between two polls of the flag

Threads == 0..Cpus-1

(* The seeds the threads may draw with, counted from the seed of the call. *)
Seeds == 0..U8 + MaxTry

ASSUME BoundsAssumption ==
    /\ Cpus \in Nat \ {0} /\ U8 \in Nat \ {0} /\ MaxTry \in Nat /\ GrainSize \in Nat
    /\ Length \in Nat \ {0}
ASSUME TrailAssumption ==
    /\ One \in Works
    /\ Y \in [Sols -> Works]
    /\ Step \in [Sols \X Works -> Sols]
    /\ F \in [Works -> Works]
    /\ \A s \in Sols : Y[Step[s, Y[s]]] = F[Y[s]]
    /\ Points \subseteq Works \X Works
    /\ Start \in [Seeds -> Sols]

(* No pair of solutions (None).                                            *)
NoResult == <<>>

VARIABLES
    pc,          \* thread -> where it is
    sol,         \* thread -> state.solution
    work,        \* thread -> state.work
    last,        \* thread -> state.nonce, the work before state.work
    i,           \* thread -> transitions of this try
    counter,     \* thread -> transitions since the flag was polled
    j,           \* thread -> tries used up
    col,         \* the shared map: work -> solution
    res,         \* the shared result
    nonce,       \* the shared nonce
    found,       \* the flag, shared with block import
    imported,    \* history: block import has raised the flag
    returned     \* solve_parallel has joined the threads and returned

threadVars == <<pc, sol, work, last, i, counter, j>>
shared == <<col, res, nonce>>
flags == <<found, imported, returned>>
vars == <<threadVars, shared, flags>>

TypeOK ==
    /\ pc \in [Threads -> {"transit", "read", "load", "store", "nonce", "res",
                           "write", "grain", "done"}]
    /\ sol \in [Threads -> Sols]
    /\ work \in [Threads -> Works]
    /\ last \in [Threads -> Works]
    /\ i \in [Threads -> 0..Length]
    /\ counter \in [Threads -> 0..GrainSize + 1]
    /\ j \in [Threads -> 0..MaxTry]
    /\ DOMAIN col \subseteq Works /\ col \in [DOMAIN col -> Sols]
    /\ res \in (Sols \X Sols) \cup {NoResult}
    /\ nonce \in Works
    /\ found \in BOOLEAN
    /\ imported \in BOOLEAN
    /\ returned \in BOOLEAN

(* The product is computed in u8 and wraps around in a release build.      *)
LocalSeed(t) == (MaxTry * t) % U8

Init ==
    /\ pc = [t \in Threads |-> "transit"]
    /\ sol = [t \in Threads |-> Start[LocalSeed(t)]]
    /\ work = [t \in Threads |-> Y[Start[LocalSeed(t)]]]
    /\ last = [t \in Threads |-> One]
    /\ i = [t \in Threads |-> 0]
    /\ counter = [t \in Threads |-> 0]
    /\ j = [t \in Threads |-> 0]
    /\ col = [w \in {} |-> w]
    /\ res = NoResult
    /\ nonce = One
    /\ found = FALSE
    /\ imported = FALSE
    /\ returned = FALSE

-----------------------------------------------------------------------------
Goto(t, l) == pc' = [pc EXCEPT ![t] = l]

(* Mutant: the read lock is still held when the write lock is taken.       *)
ReadersUpgrade ==
    {t \in Threads : pc[t] \in {"load", "store", "nonce", "res", "write"}}

(* The threads that hold the read lock of the map beyond a single step.    *)
Readers == {t \in Threads : pc[t] \in {"load", "store", "nonce", "res"}}

(* Mutant: the solution moves by the hash of the new work.                 *)
TransitNewHash(t) ==
    /\ pc[t] = "transit"
    /\ sol' = [sol EXCEPT ![t] = Step[@, F[work[t]]]]
    /\ work' = [work EXCEPT ![t] = F[@]]
    /\ last' = [last EXCEPT ![t] = work[t]]
    /\ Goto(t, IF <<work[t], F[work[t]]>> \in Points THEN "read" ELSE "grain")
    /\ UNCHANGED <<i, counter, j, shared, flags>>

(* Solution and work move on; a distinguished point is looked up.          *)
Transit(t) ==
    /\ pc[t] = "transit"
    /\ sol' = [sol EXCEPT ![t] = Step[@, work[t]]]
    /\ work' = [work EXCEPT ![t] = F[@]]
    /\ last' = [last EXCEPT ![t] = work[t]]
    /\ Goto(t, IF <<work[t], F[work[t]]>> \in Points THEN "read" ELSE "grain")
    /\ UNCHANGED <<i, counter, j, shared, flags>>

(* Mutant: a solution is taken to collide with itself.                     *)
ReadSame(t) ==
    /\ pc[t] = "read"
    /\ Goto(t, IF work[t] \notin DOMAIN col THEN "write" ELSE "load")
    /\ UNCHANGED <<sol, work, last, i, counter, j, shared, flags>>

(* Mutant: the flag is raised before it is polled.                         *)
ReadRaisesFirst(t) ==
    /\ pc[t] = "read"
    /\ Goto(t, IF work[t] \notin DOMAIN col THEN "write"
               ELSE IF col[work[t]] # sol[t] THEN "load" ELSE "grain")
    /\ found' = (found \/ (work[t] \in DOMAIN col /\ col[work[t]] # sol[t]))
    /\ UNCHANGED <<sol, work, last, i, counter, j, shared, imported, returned>>

(* Under the read lock: a new work is to be inserted; the work of another  *)
(* solution is a collision and keeps the lock; the same solution is passed *)
(* over.                                                                   *)
Read(t) ==
    /\ pc[t] = "read"
    /\ Goto(t, IF work[t] \notin DOMAIN col THEN "write"
               ELSE IF col[work[t]] # sol[t] THEN "load" ELSE "grain")
    /\ UNCHANGED <<sol, work, last, i, counter, j, shared, flags>>

(* A collision: give up if the flag is up already.                         *)
Load(t) ==
    /\ pc[t] = "load"
    /\ Goto(t, IF found THEN "done" ELSE "store")
    /\ UNCHANGED <<sol, work, last, i, counter, j, shared, flags>>

Store(t) ==
    /\ pc[t] = "store"
    /\ found' = TRUE
    /\ Goto(t, "nonce")
    /\ UNCHANGED <<sol, work, last, i, counter, j, shared, imported, returned>>

(* Mutant: the work is handed out as its own nonce.                        *)
WriteNonceWork(t) ==
    /\ pc[t] = "nonce"
    /\ nonce' = work[t]
    /\ Goto(t, "res")
    /\ UNCHANGED <<sol, work, last, i, counter, j, col, res, flags>>

WriteNonce(t) ==
    /\ pc[t] = "nonce"
    /\ nonce' = last[t]
    /\ Goto(t, "res")
    /\ UNCHANGED <<sol, work, last, i, counter, j, col, res, flags>>

WriteRes(t) ==
    /\ pc[t] = "res"
    /\ res' = <<sol[t], col[work[t]]>>
    /\ Goto(t, "done")
    /\ UNCHANGED <<sol, work, last, i, counter, j, col, nonce, flags>>

(* Mutant: insert instead of entry().or_insert().                          *)
InsertOverwrites(t) ==
    /\ pc[t] = "write"
    /\ Readers = {}
    /\ col' = [w \in DOMAIN col \cup {work[t]} |->
                 IF w = work[t] THEN sol[t] ELSE col[w]]
    /\ Goto(t, "grain")
    /\ UNCHANGED <<sol, work, last, i, counter, j, res, nonce, flags>>

(* Under the write lock, which is taken after the read lock was released:  *)
(* an entry that appeared in between is left alone.                        *)
Insert(t) ==
    /\ pc[t] = "write"
    /\ Readers = {}
    /\ col' = [w \in DOMAIN col \cup {work[t]} |->
                 IF w \in DOMAIN col THEN col[w] ELSE sol[t]]
    /\ Goto(t, "grain")
    /\ UNCHANGED <<sol, work, last, i, counter, j, res, nonce, flags>>

(* The flag is polled every GrainSize transitions.                         *)
Polls(t) == counter[t] >= GrainSize

Leave(t) ==
    /\ pc[t] = "grain"
    /\ Polls(t) /\ found
    /\ Goto(t, "done")
    /\ UNCHANGED <<sol, work, last, i, counter, j, shared, flags>>

(* Mutant: the counter is not reset after a poll.                          *)
NextCounterKept(t) == counter[t] + 1

NextCounter(t) == (IF Polls(t) THEN 0 ELSE counter[t]) + 1

Continue(t) ==
    /\ pc[t] = "grain"
    /\ ~(Polls(t) /\ found)
    /\ i[t] + 1 < Length
    /\ i' = [i EXCEPT ![t] = @ + 1]
    /\ counter' = [counter EXCEPT ![t] = NextCounter(t)]
    /\ Goto(t, "transit")
    /\ UNCHANGED <<sol, work, last, j, shared, flags>>

(* The trail is used up: start again from the next seed, or stop after     *)
(* MaxTry restarts.                                                        *)
Retry(t) ==
    /\ pc[t] = "grain"
    /\ ~(Polls(t) /\ found)
    /\ i[t] + 1 >= Length
    /\ counter' = [counter EXCEPT ![t] = NextCounter(t)]
    /\ IF j[t] < MaxTry
         THEN /\ j' = [j EXCEPT ![t] = @ + 1]
              /\ sol' = [sol EXCEPT ![t] = Start[LocalSeed(t) + j[t] + 1]]
              /\ work' = [work EXCEPT ![t] = Y[Start[LocalSeed(t) + j[t] + 1]]]
              /\ last' = [last EXCEPT ![t] = One]
              /\ i' = [i EXCEPT ![t] = 0]
              /\ Goto(t, "transit")
         ELSE /\ Goto(t, "done")
              /\ i' = [i EXCEPT ![t] = @ + 1]
              /\ UNCHANGED <<sol, work, last, j>>
    /\ UNCHANGED <<shared, flags>>

(* Block import raises the flag (distributed.rs).                          *)
Signal ==
    /\ ~imported /\ ~returned
    /\ found' = TRUE
    /\ imported' = TRUE
    /\ UNCHANGED <<threadVars, shared, returned>>

(* The threads are joined; nonce and result are handed to the caller.      *)
Join ==
    /\ ~returned
    /\ \A t \in Threads : pc[t] = "done"
    /\ returned' = TRUE
    /\ UNCHANGED <<threadVars, shared, found, imported>>

Thread(t) ==
    \/ Transit(t) \/ Read(t) \/ Load(t) \/ Store(t) \/ WriteNonce(t)
    \/ WriteRes(t) \/ Insert(t) \/ Leave(t) \/ Continue(t) \/ Retry(t)

Next ==
    \/ \E t \in Threads : Thread(t)
    \/ Signal
    \/ Join

Spec == Init /\ [][Next]_vars

(* Every thread is scheduled, and the caller, which only joins.            *)
FairSpec == Spec /\ WF_vars(Join) /\ \A t \in Threads : WF_vars(Thread(t))

-----------------------------------------------------------------------------
(* The first half of SolutionVerifier::verify: two different solutions of  *)
(* the same work.                                                          *)
Collide(s) == s[1] # s[2] /\ Y[s[1]] = Y[s[2]]

(* SolutionVerifier::verify: the nonce leads to the work of the solutions, *)
(* and it does so at a distinguished point.                                *)
Verifies(s, w) ==
    /\ Collide(s)
    /\ w \in Works
    /\ F[w] = Y[s[1]]
    /\ <<w, Y[s[1]]>> \in Points

(* The shared map relates a work to a solution of this work, and only      *)
(* works of distinguished points, whichever thread and try they come from: *)
(* a match in it needs no other test than that the solutions differ.  The  *)
(* entry is made from two fields of the thread's state, which from_pub_key *)
(* and transit compute apart from each other.                              *)
MapIsSound ==
    \A w \in DOMAIN col :
        Y[col[w]] = w /\ \E v \in Works : F[v] = w /\ <<v, w>> \in Points

(* An entry of the map is never replaced or removed: the solution a thread *)
(* compared with is the one it reports, although the lookup and the insert *)
(* take the lock separately.                                               *)
MapOnlyGrows ==
    [][\A w \in DOMAIN col : w \in DOMAIN col' /\ col'[w] = col[w]]_vars

(* What is in the result is a collision, also if several threads report.   *)
ResultCollides == res # NoResult => Collide(res)

(* With a result, the nonce is that of a collision some thread found: the  *)
(* thread has stopped at a distinguished point it reached from this nonce, *)
(* and the map holds another solution of the work there.  It need not be   *)
(* the collision that is reported.                                         *)
NonceIsOfCollision ==
    res # NoResult =>
        \E t \in Threads :
            /\ pc[t] \in {"res", "done"}
            /\ nonce = last[t]
            /\ F[nonce] = work[t] /\ <<nonce, work[t]>> \in Points
            /\ work[t] \in DOMAIN col
            /\ Collide(<<sol[t], col[work[t]]>>)

(* A thread that raises the flag delivers: if it was not block import that *)
(* stopped the search, a call that ends with the flag up has a result.     *)
FlagMeansResult == returned /\ found /\ ~imported => res # NoResult

(* What the call looks like from outside.                                  *)
Stage ==
    IF ~returned THEN "running"
    ELSE IF res = NoResult THEN "idle"
    ELSE IF Verifies(res, nonce) THEN "found" ELSE "spoilt"

Outside == INSTANCE Search WITH Several <- TRUE, stage <- Stage, flag <- found,
                                life <- 0

(* The call keeps what its caller relies on: no thread waits for ever, the *)
(* threads end with or without a collision, a result comes with the flag   *)
(* up, and the flag is not lowered under another thread or an import.      *)
ImplementsSearch == Outside!LiveSearch

(* The seal mined by several threads passes verification.                  *)
ParallelResultVerifies == returned /\ res # NoResult => Verifies(res, nonce)
=============================================================================
