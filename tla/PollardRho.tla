------------------------------ MODULE PollardRho ------------------------------
(***************************************************************************)
(* The puzzle of a block and the single-threaded search for its solution:  *)
(* the Pollard rho map on (a, b, g^a h^b mod p), PublicKey::solve and      *)
(* PublicKey::solve_dist (consensus/trex-pow/src/algorithm.rs), and what   *)
(* is done with the result, SolutionVerifier::verify and key_gen (lib.rs). *)
(* The arithmetic is that of the code, for small primes.                   *)
(*                                                                         *)
(* The two blake3 hashes are functions chosen initially: `hash' is the     *)
(* header's hash modulo p as a function of the nonce, and `points' holds   *)
(* the distinguished points <<nonce, work>>, whose state hash times        *)
(* hash_diff does not overflow.                                            *)
(***************************************************************************)
EXTENDS Integers

CONSTANTS
    P,          \* the prime of the public key, 2q + 1 with a prime q
    G,          \* its generator
    Keys,       \* private keys behind the puzzles
    Hashes,     \* header hashes: residue -> 0..P-1
    PointSets,  \* sets of distinguished points
    Length,     \* n: iterations of either loop of the search
    GrainSize   \* iterations between two polls of the flag

Residues == 1..P-1

(* The n of a solution: half the order of the group.                       *)
N == (P - 1) \div 2

IsPrime(k) == k > 1 /\ \A d \in 2..k-1 : k % d # 0

ASSUME GroupAssumption ==
    /\ P \in Nat /\ IsPrime(P) /\ IsPrime(N) /\ P = 2 * N + 1
    /\ G \in Residues /\ Keys \subseteq 1..P-2
    /\ Hashes \subseteq [Residues -> 0..P-1]
    /\ \A S \in PointSets : S \subseteq Residues \X Residues
ASSUME SearchAssumption == Length \in Nat \ {0} /\ GrainSize \in Nat

VARIABLES
    x,        \* the private key of the puzzle, which nobody knows
    hash,     \* the header's hash
    points,   \* the distinguished points
    dist,     \* solve_dist (TRUE) or solve
    s1, s2,   \* state_1 and state_2: the slow and the fast walk
    phase,    \* the loop the search is in
    i,        \* iterations made in it
    counter,  \* iterations since the flag was polled
    flag,     \* the AtomicBool shared with block import
    late,     \* history: iterations of the loops since the flag is up
    result    \* the state pair that was returned, or NoResult

puzzle == <<x, hash, points, dist>>
walk == <<s1, s2>>
vars == <<puzzle, walk, phase, i, counter, flag, late, result>>

State == [a : 0..P-2, b : 0..P-2, nonce : Residues, work : Residues]

NoResult == <<>>

TypeOK ==
    /\ x \in Keys /\ hash \in Hashes /\ points \in PointSets
    /\ dist \in BOOLEAN
    /\ s1 \in State /\ s2 \in State
    /\ phase \in {"search", "roll", "report", "done"}
    /\ i \in 0..Length
    /\ counter \in 0..GrainSize + 1
    /\ flag \in BOOLEAN
    /\ late \in Nat
    /\ result \in (State \X State) \cup {NoResult}

-----------------------------------------------------------------------------
(* The map.                                                                *)

PowMod(base, e) ==
    LET power[k \in Nat] == IF k = 0 THEN 1 ELSE (base * power[k-1]) % P
    IN  power[e]

H == PowMod(G, x)

(* hash_integer modulo p, with the nonce set to the work w.                *)
HashInteger(w) == hash[w]

(* hash_encode of the state times hash_diff does not overflow.             *)
Distinguished(nonce, work) == <<nonce, work>> \in points

FuncF(xi, y) ==
    CASE xi % 3 = 0 -> PowMod(y, xi)
      [] xi % 3 = 1 -> (PowMod(G, xi) * y) % P
      [] xi % 3 = 2 -> (PowMod(H, xi) * y) % P

(* Mutant: the sum is not reduced.                                         *)
FuncGUnreduced(a, xi) ==
    CASE xi % 3 = 0 -> (a * xi) % (P - 1)
      [] xi % 3 = 1 -> a + xi
      [] xi % 3 = 2 -> a

FuncG(a, xi) ==
    CASE xi % 3 = 0 -> (a * xi) % (P - 1)
      [] xi % 3 = 1 -> (a + xi) % (P - 1)
      [] xi % 3 = 2 -> a

(* Mutant: reduced modulo the n of the solution.                           *)
FuncHModN(b, xi) ==
    CASE xi % 3 = 0 -> (b * xi) % N
      [] xi % 3 = 1 -> b
      [] xi % 3 = 2 -> (b + xi) % N

FuncH(b, xi) ==
    CASE xi % 3 = 0 -> (b * xi) % (P - 1)
      [] xi % 3 = 1 -> b
      [] xi % 3 = 2 -> (b + xi) % (P - 1)

(* Mutant: the nonce is the new work.                                      *)
TransitNewNonce(s) ==
    LET xi == HashInteger(s.work)
        y  == FuncF(xi, s.work)
    IN  [a |-> FuncG(s.a, xi), b |-> FuncH(s.b, xi), nonce |-> y, work |-> y]

(* transit: the work becomes the nonce of the header, whose hash decides.  *)
Transit(s) ==
    LET xi == HashInteger(s.work)
    IN  [a |-> FuncG(s.a, xi), b |-> FuncH(s.b, xi), nonce |-> s.work,
         work |-> FuncF(xi, s.work)]

(* SolutionVerifier::derive.                                               *)
Derive(a, b) == (PowMod(G, a) * PowMod(H, b)) % P

(* State::from_pub_key with the solution the seed draws.                   *)
FromPubKey(a, b) ==
    [a |-> a, b |-> b, nonce |-> 1, work |-> Derive(a, b)]

Solution(s) == <<s.a, s.b>>

Init ==
    /\ x \in Keys
    /\ hash \in Hashes
    /\ points \in PointSets
    /\ dist \in BOOLEAN
    /\ \E a, b \in 0..N-1 : s1 = FromPubKey(a, b)
    /\ s2 = s1
    /\ phase = "search"
    /\ i = 0
    /\ counter = 0
    /\ flag = FALSE
    /\ late = 0
    /\ result = NoResult

-----------------------------------------------------------------------------
(* The search.                                                             *)

(* Two different solutions of the same work.                               *)
Collide(s, t) == s.work = t.work /\ Solution(s) # Solution(t)

(* Mutant: polled one iteration late.                                      *)
PollsLate == dist /\ counter > GrainSize

(* solve_dist polls the flag every GrainSize iterations, solve never.      *)
Polls == dist /\ counter >= GrainSize

Interrupted == Polls /\ flag

Late == late' = IF flag THEN late + 1 ELSE late

(* The search ends; r is what it returns.                                  *)
Return(r) ==
    /\ phase' = "done"
    /\ result' = r
    /\ UNCHANGED <<i, counter>>

(* The second loop starts, with counters of its own.                       *)
StartRoll ==
    /\ phase' = "roll"
    /\ i' = 0
    /\ counter' = 0
    /\ UNCHANGED result

(* Mutant: the iterations are not counted.                                 *)
CountNothing ==
    /\ UNCHANGED <<phase, i, result>>
    /\ counter' = IF dist THEN (IF Polls THEN 0 ELSE counter) + 1 ELSE 0

(* The same loop goes on.                                                  *)
Count ==
    /\ i' = i + 1
    /\ counter' = IF dist THEN (IF Polls THEN 0 ELSE counter) + 1 ELSE 0
    /\ UNCHANGED <<phase, result>>

(* Floyd's first loop: one transit of the slow walk and two of the fast    *)
(* one.  Works that meet with equal solutions end the search.  When the    *)
(* iterations are used up the second loop is entered all the same.         *)
Search ==
    /\ phase = "search"
    /\ s1' = Transit(s1)
    /\ s2' = Transit(Transit(s2))
    /\ Late
    /\ \/ Interrupted /\ Return(NoResult)
       \/ ~Interrupted /\ Collide(s1', s2') /\ StartRoll
       \/ /\ ~Interrupted /\ s1'.work = s2'.work
          /\ Solution(s1') = Solution(s2')
          /\ Return(NoResult)
       \/ ~Interrupted /\ s1'.work # s2'.work /\ i + 1 < Length /\ Count
       \/ ~Interrupted /\ s1'.work # s2'.work /\ i + 1 = Length /\ StartRoll
    /\ UNCHANGED <<puzzle, flag>>

(* The second loop: both walks go on together to a distinguished point.    *)
(* There solve_dist looks at the flag once more; a collision is returned,  *)
(* anything else ends the search.                                          *)
Roll ==
    /\ phase = "roll"
    /\ s1' = Transit(s1)
    /\ s2' = Transit(s2)
    /\ Late
    /\ LET point == Distinguished(s1'.nonce, s1'.work)
           leaves == Interrupted \/ (point /\ dist /\ flag)
       IN  \/ leaves /\ Return(NoResult)
           \/ /\ ~leaves /\ point /\ Collide(s1', s2')
              /\ phase' = "report"
              /\ UNCHANGED <<i, counter, result>>
           \/ ~leaves /\ point /\ ~Collide(s1', s2') /\ Return(NoResult)
           \/ ~leaves /\ ~point /\ i + 1 < Length /\ Count
           \/ ~leaves /\ ~point /\ i + 1 = Length /\ Return(NoResult)
    /\ UNCHANGED <<puzzle, flag>>

(* solve_dist raises the flag, whoever raised it in between; the pair is   *)
(* returned.                                                               *)
Report ==
    /\ phase = "report"
    /\ flag' = (flag \/ dist)
    /\ Return(<<s1, s2>>)
    /\ UNCHANGED <<puzzle, walk, late>>

(* Block import raises the flag (distributed.rs).                          *)
Signal ==
    /\ ~flag /\ phase # "done"
    /\ flag' = TRUE
    /\ UNCHANGED <<puzzle, walk, phase, i, counter, late, result>>

Solver == Search \/ Roll \/ Report

Next == Solver \/ Signal

Spec == Init /\ [][Next]_vars

(* The thread that searches is scheduled.                                  *)
FairSpec == Spec /\ WF_vars(Solver)

-----------------------------------------------------------------------------
(* SolutionVerifier::verify, of the solutions and of the nonce that        *)
(* compute is left with (the nonce of state_1).                            *)
Verify(sol1, sol2, nonce) ==
    LET y == Derive(sol1[1], sol1[2]) IN
    /\ sol1 # sol2
    /\ y = Derive(sol2[1], sol2[2])
    /\ y = FuncF(HashInteger(nonce), nonce)
    /\ Distinguished(nonce, y)

NoKey == -1

Inverse(r, n) == {v \in 0..n-1 : (r * v) % n = 1}

Gcd(r, n) ==
    CHOOSE d \in 1..n : /\ r % d = 0 /\ n % d = 0
                        /\ \A e \in 1..n : r % e = 0 /\ n % e = 0 => e <= d

(* Where r has no inverse modulo n, which no prime n shows, the equation   *)
(* is divided by their common divisor; its right side is a2 - a2 there.    *)
DividedRoot(sol1, sol2) ==
    LET div == Gcd((sol1[2] - sol2[2]) % N, N)
        p1  == N \div div
        l   == ((sol1[2] - sol2[2]) \div div) % p1
    IN  IF Inverse(l, p1) = {} THEN NoKey ELSE 0

(* eqs_solvers: a1 + b1 x = a2 + b2 x modulo n.                            *)
EqsSolvers(sol1, sol2) ==
    LET r == (sol1[2] - sol2[2]) % N IN
    IF r = 0 THEN NoKey
    ELSE IF Inverse(r, N) = {} THEN DividedRoot(sol1, sol2)
    ELSE (CHOOSE v \in Inverse(r, N) : TRUE) * (sol2[1] - sol1[1]) % N

(* Mutant: the root modulo n is taken as it is.                            *)
KeyGenModN(sol1, sol2) == EqsSolvers(sol1, sol2)

(* key_gen: the root modulo n, or the other one modulo p - 1.              *)
KeyGen(sol1, sol2) ==
    LET key == EqsSolvers(sol1, sol2)
    IN  IF key # NoKey /\ PowMod(G, key) # H THEN key + N ELSE key

-----------------------------------------------------------------------------
(* The works of both walks stay those of their solutions: the map on the   *)
(* exponents, modulo p - 1, follows the map on the works, modulo p.        *)
WorkIsOfSolution ==
    \A s \in {s1, s2} : s.work = Derive(s.a, s.b)

(* What the search returns passes verification in every node, with the     *)
(* nonce it leaves in the header.                                          *)
ResultVerifies ==
    result # NoResult =>
        Verify(Solution(result[1]), Solution(result[2]), result[1].nonce)

(* A returned pair gives the private key away, unless its b's agree modulo *)
(* n; then there is none to derive.                                        *)
ResultOpensKey ==
    result # NoResult =>
        LET key == KeyGen(Solution(result[1]), Solution(result[2])) IN
        IF result[1].b % N = result[2].b % N THEN key = NoKey
                                             ELSE PowMod(G, key) = H

(* solve_dist leaves soon after the flag went up: the counter starts again *)
(* with the second loop, so that takes two grains of iterations at most;   *)
(* one of the first loop makes three transits, one of the second two.      *)
LeavesSoon == dist => late <= 2 * GrainSize + 1

(* What the call of solve_dist looks like from outside; solve has no flag  *)
(* and is not called by the miner.                                         *)
Stage ==
    IF ~dist THEN "idle"
    ELSE IF phase # "done" THEN "running"
    ELSE IF result = NoResult THEN "idle"
    ELSE IF Verify(Solution(result[1]), Solution(result[2]), result[1].nonce)
         THEN "found" ELSE "spoilt"

Outside == INSTANCE Search WITH Several <- FALSE, stage <- Stage,
                                flag <- dist /\ flag, life <- 0

(* solve_dist keeps what its caller relies on: it ends whatever the trails *)
(* look like, and its result verifies and comes with the flag up.          *)
ImplementsSearch == Outside!LiveSearch
=============================================================================
