--------------------------- MODULE PollardRhoProofs ---------------------------
(***************************************************************************)
(* What holds of the puzzle and of the single-threaded search for every    *)
(* prime of the form 2q + 1, every generator, key, hash and set of         *)
(* distinguished points, and for loops and grains of every length.         *)
(*                                                                         *)
(* The arithmetic is proved from division with remainder up: induction     *)
(* with a set in the place of the predicate, the loop of PowMod, the laws  *)
(* of powers modulo p, inverses modulo a prime, and Fermat's little        *)
(* theorem, by which exponents count modulo p - 1.  With it the map on the *)
(* exponents follows the map on the works, which is the heart of the       *)
(* inductive invariant, and the result gives the key away.                 *)
(***************************************************************************)
EXTENDS PollardRho, WellFoundedInduction, TLAPS

-----------------------------------------------------------------------------
(* Division with remainder.                                                *)

LEMMA DivMod ==
    ASSUME NEW a \in Int, NEW m \in Nat \ {0}
    PROVE  a \div m \in Int /\ a % m \in 0..m-1 /\ a = m * (a \div m) + (a % m)
OBVIOUS

LEMMA Distributes ==
    ASSUME NEW a \in Int, NEW b \in Int, NEW c \in Int
    PROVE  /\ a * (b + c) = (a * b) + (a * c) /\ a * (b - c) = (a * b) - (a * c)
           /\ (b + c) * a = (b * a) + (c * a)
           /\ a * b \in Int /\ a * c \in Int /\ a * b = b * a
           /\ a * (b * c) = (a * b) * c
OBVIOUS

LEMMA NoMultipleBetween ==
    ASSUME NEW m \in Nat \ {0}, NEW q \in Int, -m < m * q, m * q < m
    PROVE  q = 0
OBVIOUS

LEMMA RemainderUnique ==
    ASSUME NEW m \in Nat \ {0}, NEW a \in Int, NEW q \in Int, NEW r \in 0..m-1,
           a = (m * q) + r
    PROVE  a % m = r
<1>1. PICK t \in Int, s \in 0..m-1 : a = (m * t) + s /\ s = a % m
  BY DivMod
<1>2. m * (q - t) = (m * q) - (m * t) /\ m * q \in Int /\ m * t \in Int
  BY Distributes
<1>3. m * (q - t) = s - r
  BY <1>1, <1>2
<1>4. -m < m * (q - t) /\ m * (q - t) < m
  BY <1>3
<1>5. q - t = 0
  BY <1>4, NoMultipleBetween
<1>6. m * (q - t) = 0
  BY <1>5
<1>7. s = r
  BY <1>3, <1>6
<1> QED BY <1>1, <1>7, Zenon

(* Multiples of m do not count.                                            *)
LEMMA ModShift ==
    ASSUME NEW m \in Nat \ {0}, NEW a \in Int, NEW b \in Int, NEW k \in Int,
           a = b + (m * k)
    PROVE  a % m = b % m
<1>1. PICK t \in Int, s \in 0..m-1 : b = (m * t) + s /\ s = b % m
  BY DivMod
<1>2. m * (t + k) = (m * t) + (m * k) /\ m * t \in Int /\ m * k \in Int
  BY Distributes
<1>3. a = (m * (t + k)) + s /\ t + k \in Int
  BY <1>1, <1>2
<1>4. a % m = s
  BY <1>3, RemainderUnique
<1> QED BY <1>1, <1>4

LEMMA ModSmall ==
    ASSUME NEW m \in Nat \ {0}, NEW a \in 0..m-1
    PROVE  a % m = a
OBVIOUS

(* A remainder may stand for the number in a sum and in a product.         *)
LEMMA ModSum ==
    ASSUME NEW m \in Nat \ {0}, NEW a \in Int, NEW b \in Int
    PROVE  ((a % m) + b) % m = (a + b) % m
<1>1. PICK t \in Int, s \in 0..m-1 : a = (m * t) + s /\ s = a % m
  BY DivMod
<1>2. m * t \in Int
  BY Distributes
<1>3. a = (m * t) + s
  BY <1>1
<1>4. a + b = (s + b) + (m * t) /\ a + b \in Int /\ s + b \in Int
  BY <1>2, <1>3
<1>5. (a + b) % m = (s + b) % m
  BY <1>4, ModShift
<1> QED BY <1>1, <1>5, Zenon

LEMMA ModProduct ==
    ASSUME NEW m \in Nat \ {0}, NEW a \in Int, NEW b \in Int
    PROVE  ((a % m) * b) % m = (a * b) % m
<1>1. PICK t \in Int, s \in 0..m-1 : a = (m * t) + s /\ s = a % m
  BY DivMod
<1>2. /\ ((m * t) + s) * b = ((m * t) * b) + (s * b)
      /\ (m * t) * b = m * (t * b)
      /\ t * b \in Int /\ s * b \in Int /\ m * (t * b) \in Int
  BY Distributes
<1>3. a * b = (s * b) + (m * (t * b)) /\ a * b \in Int
  BY <1>1, <1>2
<1>4. (a * b) % m = (s * b) % m
  BY <1>2, <1>3, ModShift
<1> QED BY <1>1, <1>4

-----------------------------------------------------------------------------
(* Induction over the natural numbers, with a set in the place of the      *)
(* predicate.                                                              *)

LEMMA LeastNumber ==
    ASSUME NEW S \in SUBSET Nat, S # {}
    PROVE  \E u \in S : \A v \in S : u <= v
<1>1. PICK u \in S : \A v \in S : ~(<<v, u>> \in OpToRel(<, Nat))
  BY WFMin, NatLessThanWellFounded
<1>2. u \in Nat /\ \A v \in S : v \in Nat /\ ~(v < u)
  BY <1>1 DEF OpToRel
<1> QED BY <1>2

LEMMA Induction ==
    ASSUME NEW S, 0 \in S, \A n \in Nat : n \in S => n + 1 \in S
    PROVE  \A n \in Nat : n \in S
<1> SUFFICES ASSUME Nat \ S # {} PROVE FALSE
  OBVIOUS
<1>1. PICK u \in Nat \ S : \A v \in Nat \ S : u <= v
  BY LeastNumber
<1>2. u # 0 /\ u - 1 \in Nat /\ ~(u <= u - 1)
  BY <1>1
<1>3. u - 1 \in S
  BY <1>1, <1>2
<1>4. (u - 1) + 1 \in S
  BY <1>2, <1>3
<1> QED BY <1>1, <1>4

(* A recursive definition has a solution: step[<<n, v>>] follows v.        *)
Begins(V, first, step, n, f) ==
    /\ f \in [0..n -> V] /\ f[0] = first
    /\ \A k \in 0..n-1 : f[k+1] = step[<<k, f[k]>>]

LEMMA BeginsExist ==
    ASSUME NEW V, NEW first \in V, NEW step \in [Nat \X V -> V]
    PROVE  \A n \in Nat : \E f : Begins(V, first, step, n, f)
<1> DEFINE S == {n \in Nat : \E f : Begins(V, first, step, n, f)}
<1>1. 0 \in S
  <2> DEFINE f == [k \in 0..0 |-> first]
  <2>1. Begins(V, first, step, 0, f)
    BY DEF Begins
  <2> QED BY <2>1
<1>2. ASSUME NEW n \in Nat, n \in S PROVE n + 1 \in S
  <2>1. PICK f : Begins(V, first, step, n, f)
    BY <1>2
  <2> DEFINE g == [k \in 0..n+1 |-> IF k = n + 1 THEN step[<<n, f[n]>>] ELSE f[k]]
  <2>2. /\ f \in [0..n -> V] /\ f[0] = first
        /\ \A k \in 0..n-1 : f[k+1] = step[<<k, f[k]>>]
    BY <2>1 DEF Begins
  <2>3. \A k \in 0..n : k \in 0..n+1 /\ g[k] = f[k]
    OBVIOUS
  <2>4. g[n+1] = step[<<n, f[n]>>] /\ step[<<n, f[n]>>] \in V
    BY <2>2
  <2>5. g \in [0..n+1 -> V] /\ g[0] = first
    BY <2>2, <2>3, <2>4
  <2>6. ASSUME NEW k \in 0..(n+1)-1 PROVE g[k+1] = step[<<k, g[k]>>]
    <3> HIDE DEF g
    <3>1. k \in 0..n /\ g[k] = f[k]
      BY <2>3
    <3>2. CASE k = n
      BY <3>1, <3>2, <2>4
    <3>3. CASE k # n
      <4>1. k \in 0..n-1 /\ k + 1 \in 0..n
        BY <3>1, <3>3
      <4> QED BY <4>1, <3>1, <2>2, <2>3
    <3> QED BY <3>2, <3>3
  <2>7. Begins(V, first, step, n + 1, g)
    <3> HIDE DEF g
    <3> QED BY <2>5, <2>6 DEF Begins
  <2> QED BY <2>7
<1>3. \A n \in Nat : n \in S
  <2> HIDE DEF S
  <2> QED BY <1>1, <1>2, Induction
<1> QED BY <1>3

LEMMA BeginsAgree ==
    ASSUME NEW V, NEW first, NEW step, NEW m \in Nat, NEW n \in Nat, NEW f, NEW g,
           Begins(V, first, step, m, f), Begins(V, first, step, n, g)
    PROVE  \A k \in Nat : k <= m /\ k <= n => f[k] = g[k]
<1> DEFINE S == {k \in Nat : k <= m /\ k <= n => f[k] = g[k]}
<1>1. 0 \in S
  BY DEF Begins
<1>2. ASSUME NEW k \in Nat, k \in S PROVE k + 1 \in S
  <2> SUFFICES ASSUME k + 1 <= m, k + 1 <= n PROVE f[k+1] = g[k+1]
    OBVIOUS
  <2>1. k \in 0..m-1 /\ k \in 0..n-1 /\ f[k] = g[k]
    BY <1>2
  <2> QED BY <2>1 DEF Begins
<1>3. \A k \in Nat : k \in S
  <2> HIDE DEF S
  <2> QED BY <1>1, <1>2, Induction
<1> QED BY <1>3

Solves(V, first, step, f) ==
    /\ f \in [Nat -> V] /\ f[0] = first
    /\ \A n \in Nat : f[n+1] = step[<<n, f[n]>>]

LEMMA RecursionHasSolution ==
    ASSUME NEW V, NEW first \in V, NEW step \in [Nat \X V -> V]
    PROVE  \E f : Solves(V, first, step, f)
<1> DEFINE p(n) == CHOOSE f : Begins(V, first, step, n, f)
           f == [n \in Nat |-> p(n)[n]]
<1>1. \A n \in Nat : Begins(V, first, step, n, p(n))
  BY BeginsExist
<1> HIDE DEF p
<1>2. \A n \in Nat : p(n)[n] \in V
  BY <1>1 DEF Begins
<1>3. f \in [Nat -> V] /\ \A n \in Nat : f[n] = p(n)[n]
  BY <1>2
<1> HIDE DEF f
<1>4. f[0] = first
  BY <1>1, <1>3 DEF Begins
<1>5. ASSUME NEW n \in Nat PROVE f[n+1] = step[<<n, f[n]>>]
  <2>1. n + 1 \in Nat /\ n <= n + 1 /\ n <= n /\ n \in 0..(n+1)-1
    OBVIOUS
  <2>2. Begins(V, first, step, n, p(n)) /\ Begins(V, first, step, n + 1, p(n+1))
    BY <1>1, <2>1
  <2>3. p(n+1)[n] = p(n)[n]
    BY <2>1, <2>2, BeginsAgree
  <2>4. p(n+1)[n+1] = step[<<n, p(n+1)[n]>>]
    BY <2>1, <2>2 DEF Begins
  <2>5. f[n+1] = p(n+1)[n+1] /\ f[n] = p(n)[n]
    BY <2>1, <1>3
  <2> QED BY <2>3, <2>4, <2>5
<1> QED BY <1>3, <1>4, <1>5 DEF Solves

-----------------------------------------------------------------------------
(* Multiplication modulo p, and the powers in terms of it.                 *)

LEMMA Moduli ==
    /\ P \in Nat \ {0} /\ N \in Nat \ {0} /\ N >= 2 /\ P >= 5 /\ P - 1 = 2 * N
    /\ P - 1 \in Nat \ {0} /\ 1 \in Residues /\ G \in Residues
    /\ IsPrime(P) /\ IsPrime(N)
<1>1. P \in Nat /\ P = 2 * N + 1 /\ P > 1 /\ N > 1 /\ G \in 1..P-1
  BY GroupAssumption DEF IsPrime, Residues
<1>2. N \in Int
  BY <1>1 DEF N
<1>3. IsPrime(P) /\ IsPrime(N)
  BY GroupAssumption
<1> QED BY <1>1, <1>2, <1>3 DEF Residues

Mul(a, b) == (a * b) % P

LEMMA MulType ==
    ASSUME NEW a \in Nat, NEW b \in Nat
    PROVE  Mul(a, b) \in 0..P-1 /\ Mul(a, b) \in Nat
<1>1. a * b \in Int /\ P \in Nat \ {0}
  BY Moduli
<1>2. (a * b) % P \in 0..P-1
  BY <1>1, DivMod
<1> QED BY <1>1, <1>2 DEF Mul

LEMMA MulCommutes ==
    ASSUME NEW a \in Nat, NEW b \in Nat
    PROVE  Mul(a, b) = Mul(b, a)
<1>1. a * b = b * a
  BY Distributes
<1> QED BY <1>1, Zenon DEF Mul

LEMMA MulAssociates ==
    ASSUME NEW a \in Nat, NEW b \in Nat, NEW c \in Nat
    PROVE  Mul(Mul(a, b), c) = Mul(a, Mul(b, c))
<1>1. /\ P \in Nat \ {0} /\ a * b \in Int /\ b * c \in Int
      /\ a \in Int /\ c \in Int
  BY Moduli
<1>2. Mul(Mul(a, b), c) = ((a * b) * c) % P
  <2>1. (((a * b) % P) * c) % P = ((a * b) * c) % P
    BY <1>1, ModProduct, Zenon
  <2> QED BY <2>1, Zenon DEF Mul
<1>3. Mul(Mul(b, c), a) = ((b * c) * a) % P
  <2>1. (((b * c) % P) * a) % P = ((b * c) * a) % P
    BY <1>1, ModProduct, Zenon
  <2> QED BY <2>1, Zenon DEF Mul
<1>4. (a * b) * c = (b * c) * a
  <2>1. (a * b) * c = a * (b * c) /\ a * (b * c) = (b * c) * a
    BY <1>1, Distributes
  <2> QED BY <2>1
<1>5. Mul(Mul(b, c), a) = Mul(a, Mul(b, c))
  BY MulType, MulCommutes
<1> QED BY <1>2, <1>3, <1>4, <1>5, Zenon

LEMMA MulOne ==
    ASSUME NEW a \in 0..P-1
    PROVE  Mul(1, a) = a /\ Mul(a, 1) = a
<1>1. P \in Nat \ {0} /\ 1 * a = a /\ a * 1 = a
  BY Moduli
<1>2. a % P = a
  BY <1>1, ModSmall
<1> QED BY <1>1, <1>2, Zenon DEF Mul

(* Only the remainder of a factor counts.                                  *)
LEMMA MulRemainder ==
    ASSUME NEW a \in Nat, NEW b \in Nat
    PROVE  Mul(a % P, b) = Mul(a, b) /\ a % P \in 0..P-1
<1>1. P \in Nat \ {0} /\ a \in Int /\ b \in Int
  BY Moduli
<1>2. ((a % P) * b) % P = (a * b) % P
  BY <1>1, ModProduct, Zenon
<1>3. a % P \in 0..P-1
  BY <1>1, DivMod
<1> QED BY <1>2, <1>3, Zenon DEF Mul

(* The loop of PowMod.                                                     *)
Powers(b, f) == f = [k \in Nat |-> IF k = 0 THEN 1 ELSE (b * f[k-1]) % P]

LEMMA PowersExist == ASSUME NEW b \in Nat PROVE \E f : Powers(b, f)
<1> DEFINE V == 0..P-1
           first == 1
           step == [t \in Nat \X V |-> Mul(b, t[2])]
<1>1. first \in V
  BY Moduli
<1>2. step \in [Nat \X V -> V]
  <2>1. ASSUME NEW t \in Nat \X V PROVE Mul(b, t[2]) \in V
    <3>1. t[2] \in Nat
      BY Moduli
    <3> QED BY <3>1, MulType
  <2> QED BY <2>1
<1>3. \A n \in Nat, v \in V : step[<<n, v>>] = Mul(b, v)
  OBVIOUS
<1> HIDE DEF V, step, first
<1>4. PICK f : Solves(V, first, step, f)
  BY <1>1, <1>2, RecursionHasSolution
<1>5. \A n \in Nat : f[n+1] = (b * f[n]) % P
  BY <1>3, <1>4 DEF Mul, Solves
<1>6. ASSUME NEW k \in Nat PROVE f[k] = IF k = 0 THEN 1 ELSE (b * f[k-1]) % P
  <2>1. k # 0 => k - 1 \in Nat /\ (k - 1) + 1 = k
    OBVIOUS
  <2> QED BY <2>1, <1>4, <1>5, Zenon DEF first, Solves
<1>7. f = [k \in Nat |-> f[k]]
  BY <1>4 DEF Solves
<1> QED BY <1>6, <1>7 DEF Powers

LEMMA PowModLoop ==
    ASSUME NEW b \in Nat
    PROVE  /\ PowMod(b, 0) = 1
           /\ \A e \in Nat : PowMod(b, e + 1) = (b * PowMod(b, e)) % P
<1> DEFINE f == CHOOSE g : Powers(b, g)
<1>1. Powers(b, f)
  BY PowersExist
<1>2. \A e : PowMod(b, e) = f[e]
  BY Zenon DEF PowMod, Powers
<1> HIDE DEF f
<1>3. \A k \in Nat : f[k] = IF k = 0 THEN 1 ELSE (b * f[k-1]) % P
  BY <1>1 DEF Powers
<1>4. f[0] = 1
  BY <1>3
<1>5. ASSUME NEW e \in Nat PROVE f[e+1] = (b * f[e]) % P
  <2>1. e + 1 \in Nat /\ e + 1 # 0 /\ (e + 1) - 1 = e
    OBVIOUS
  <2>2. f[e+1] = (b * f[(e+1)-1]) % P
    BY <2>1, <1>3, Zenon
  <2> QED BY <2>1, <2>2, Zenon
<1> QED BY <1>2, <1>4, <1>5, Zenon

LEMMA PowerZero == ASSUME NEW b \in Nat PROVE PowMod(b, 0) = 1
BY PowModLoop

LEMMA PowerNext ==
    ASSUME NEW b \in Nat, NEW e \in Nat
    PROVE  PowMod(b, e + 1) = Mul(b, PowMod(b, e))
BY PowModLoop, Zenon DEF Mul

LEMMA PowerType ==
    ASSUME NEW b \in Nat
    PROVE  \A e \in Nat : PowMod(b, e) \in 0..P-1 /\ PowMod(b, e) \in Nat
<1> DEFINE S == {e \in Nat : PowMod(b, e) \in 0..P-1 /\ PowMod(b, e) \in Nat}
<1>1. 0 \in S
  BY PowerZero, Moduli
<1>2. ASSUME NEW e \in Nat, e \in S PROVE e + 1 \in S
  <2>1. PowMod(b, e + 1) = Mul(b, PowMod(b, e)) /\ PowMod(b, e) \in Nat
    BY <1>2, PowerNext
  <2> QED BY <2>1, MulType
<1>3. \A e \in Nat : e \in S
  <2> HIDE DEF S
  <2> QED BY <1>1, <1>2, Induction
<1> QED BY <1>3

LEMMA PowerOne == ASSUME NEW b \in 0..P-1 PROVE PowMod(b, 1) = b
<1>1. PowMod(b, 0 + 1) = Mul(b, PowMod(b, 0)) /\ 0 + 1 = 1
  BY PowerNext
<1>2. Mul(b, 1) = b
  BY MulOne
<1> QED BY <1>1, <1>2, PowerZero

LEMMA PowerOfOne == \A e \in Nat : PowMod(1, e) = 1
<1> DEFINE S == {e \in Nat : PowMod(1, e) = 1}
<1>1. 0 \in S
  BY PowerZero
<1>2. ASSUME NEW e \in Nat, e \in S PROVE e + 1 \in S
  <2>1. Mul(1, 1) = 1
    BY MulOne, Moduli
  <2> QED BY <2>1, <1>2, PowerNext
<1>3. \A e \in Nat : e \in S
  <2> HIDE DEF S
  <2> QED BY <1>1, <1>2, Induction
<1> QED BY <1>3

LEMMA PowerSum ==
    ASSUME NEW b \in Nat, NEW d \in Nat
    PROVE  \A e \in Nat : PowMod(b, e + d) = Mul(PowMod(b, e), PowMod(b, d))
<1> DEFINE S == {e \in Nat : PowMod(b, e + d) = Mul(PowMod(b, e), PowMod(b, d))}
<1>1. 0 \in S
  <2>1. 0 + d = d /\ Mul(1, PowMod(b, d)) = PowMod(b, d)
    BY MulOne, PowerType
  <2> QED BY <2>1, PowerZero
<1>2. ASSUME NEW e \in Nat, e \in S PROVE e + 1 \in S
  <2>1. (e + 1) + d = (e + d) + 1 /\ e + d \in Nat
    OBVIOUS
  <2>2. PowMod(b, (e + 1) + d) = Mul(b, PowMod(b, e + d))
    BY <2>1, PowerNext
  <2>3. PowMod(b, e) \in Nat /\ PowMod(b, d) \in Nat
    BY PowerType
  <2>4. Mul(b, Mul(PowMod(b, e), PowMod(b, d))) = Mul(Mul(b, PowMod(b, e)), PowMod(b, d))
    BY <2>3, MulAssociates
  <2> QED BY <2>2, <2>4, <1>2, PowerNext
<1>3. \A e \in Nat : e \in S
  <2> HIDE DEF S
  <2> QED BY <1>1, <1>2, Induction
<1> QED BY <1>3

LEMMA PowerProduct ==
    ASSUME NEW b \in Nat, NEW d \in Nat
    PROVE  \A e \in Nat : PowMod(b, d * e) = PowMod(PowMod(b, d), e)
<1> DEFINE c == PowMod(b, d)
           S == {e \in Nat : PowMod(b, d * e) = PowMod(c, e)}
<1>1. 0 \in S
  <2>1. d * 0 = 0 /\ c \in Nat
    BY PowerType
  <2> QED BY <2>1, PowerZero
<1>2. ASSUME NEW e \in Nat, e \in S PROVE e + 1 \in S
  <2>1. d * (e + 1) = d + (d * e) /\ d * e \in Nat
    OBVIOUS
  <2>2. PowMod(b, d * (e + 1)) = Mul(c, PowMod(b, d * e))
    BY <2>1, PowerSum
  <2>3. PowMod(c, e + 1) = Mul(c, PowMod(c, e))
    BY PowerNext, PowerType
  <2> QED BY <2>2, <2>3, <1>2
<1>3. \A e \in Nat : e \in S
  <2> HIDE DEF S
  <2> QED BY <1>1, <1>2, Induction
<1> QED BY <1>3

(* Four factors, the inner two exchanged.                                  *)
LEMMA MulExchange ==
    ASSUME NEW a \in Nat, NEW b \in Nat, NEW c \in Nat, NEW d \in Nat
    PROVE  Mul(Mul(a, b), Mul(c, d)) = Mul(Mul(a, c), Mul(b, d))
<1>1. /\ Mul(a, b) \in Nat /\ Mul(c, d) \in Nat /\ Mul(b, d) \in Nat
      /\ Mul(b, c) \in Nat /\ Mul(c, b) \in Nat
  BY MulType
<1>2. Mul(Mul(a, b), Mul(c, d)) = Mul(a, Mul(b, Mul(c, d)))
  BY <1>1, MulAssociates
<1>3. Mul(b, Mul(c, d)) = Mul(Mul(c, b), d)
  BY MulAssociates, MulCommutes
<1>4. Mul(Mul(c, b), d) = Mul(c, Mul(b, d))
  BY MulAssociates
<1>5. Mul(a, Mul(c, Mul(b, d))) = Mul(Mul(a, c), Mul(b, d))
  BY <1>1, MulAssociates
<1> QED BY <1>2, <1>3, <1>4, <1>5

LEMMA PowerOfProduct ==
    ASSUME NEW a \in Nat, NEW b \in Nat
    PROVE  \A e \in Nat : PowMod(Mul(a, b), e) = Mul(PowMod(a, e), PowMod(b, e))
<1> DEFINE S == {e \in Nat : PowMod(Mul(a, b), e) = Mul(PowMod(a, e), PowMod(b, e))}
<1>1. 0 \in S
  <2>1. Mul(1, 1) = 1
    BY MulOne, Moduli
  <2>2. Mul(a, b) \in Nat
    BY MulType
  <2> QED BY <2>1, <2>2, PowerZero
<1>2. ASSUME NEW e \in Nat, e \in S PROVE e + 1 \in S
  <2>1. PowMod(Mul(a, b), e + 1) = Mul(Mul(a, b), Mul(PowMod(a, e), PowMod(b, e)))
    BY <1>2, MulType, PowerNext
  <2>2. Mul(Mul(a, b), Mul(PowMod(a, e), PowMod(b, e)))
           = Mul(Mul(a, PowMod(a, e)), Mul(b, PowMod(b, e)))
    BY PowerType, MulExchange
  <2> QED BY <2>1, <2>2, PowerNext
<1>3. \A e \in Nat : e \in S
  <2> HIDE DEF S
  <2> QED BY <1>1, <1>2, Induction
<1> QED BY <1>3

(* Exponents count modulo k where the k-th power is 1.                     *)
LEMMA PowerReduced ==
    ASSUME NEW b \in Nat, NEW k \in Nat \ {0}, PowMod(b, k) = 1, NEW e \in Nat
    PROVE  PowMod(b, e % k) = PowMod(b, e) /\ e % k \in Nat
<1>1. PICK t \in Int, s \in 0..k-1 : e = (k * t) + s /\ s = e % k
  <2>1. e \in Int
    OBVIOUS
  <2> QED BY <2>1, DivMod, Zenon
<1>2. e = (k * t) + s /\ s \in Nat
  BY <1>1
<1>3. t \in Nat
  <2> SUFFICES ASSUME t < 0 PROVE FALSE
    OBVIOUS
  <2>1. k * (t + 1) <= 0
    OBVIOUS
  <2>2. k * (t + 1) = (k * t) + (k * 1) /\ k * t \in Int
    BY Distributes
  <2>3. (k * t) + k <= 0 /\ k * t \in Int
    BY <2>1, <2>2
  <2> QED BY <1>2, <2>3
<1>4. k * t \in Nat
  BY <1>3
<1>5. PowMod(b, (k * t) + s) = Mul(PowMod(b, k * t), PowMod(b, s))
  BY <1>2, <1>4, PowerSum
<1>6. PowMod(b, k * t) = 1
  <2>1. PowMod(b, k * t) = PowMod(PowMod(b, k), t)
    BY <1>3, PowerProduct
  <2> QED BY <2>1, <1>3, PowerOfOne, Zenon
<1>7. Mul(1, PowMod(b, s)) = PowMod(b, s)
  BY <1>2, PowerType, MulOne
<1> QED BY <1>1, <1>2, <1>5, <1>6, <1>7, Zenon

-----------------------------------------------------------------------------
(* Modulo a prime everything but 0 has an inverse.                         *)

LEMMA LeastDivides ==
    ASSUME NEW m \in Nat, IsPrime(m), NEW u \in 1..m-1, m % u = 0
    PROVE  u = 1
<1> SUFFICES ASSUME u # 1 PROVE FALSE
  OBVIOUS
<1>1. u \in 2..m-1
  OBVIOUS
<1>2. \A d \in 2..m-1 : m % d # 0
  BY DEF IsPrime
<1> QED BY <1>1, <1>2, Zenon

(* The least non-zero multiple of r modulo m divides m.                    *)
LEMMA InverseExists ==
    ASSUME NEW m \in Nat, IsPrime(m), NEW r \in 1..m-1
    PROVE  \E v \in 0..m-1 : (r * v) % m = 1
<1> DEFINE S == {u \in 1..m-1 : \E v \in Nat : (r * v) % m = u}
<1>1. m \in Nat \ {0} /\ m > 1 /\ r \in Int
  BY DEF IsPrime
<1>2. r \in S
  <2>1. r * 1 = r /\ r \in 0..m-1
    BY <1>1
  <2>2. r % m = r
    BY <1>1, <2>1, ModSmall
  <2> QED BY <2>1, <2>2
<1>3. PICK u \in S : \A w \in S : u <= w
  <2>1. S \in SUBSET Nat
    OBVIOUS
  <2> HIDE DEF S
  <2> QED BY <1>2, <2>1, LeastNumber
<1>4. PICK v \in Nat : (r * v) % m = u
  BY <1>3
<1>5. u \in Nat \ {0} /\ u < m
  BY <1>3
<1>6. PICK w \in Int, q \in 0..m-1 : r * v = (m * w) + q /\ q = (r * v) % m
  <2>1. r * v \in Int
    BY <1>1
  <2> QED BY <1>1, <2>1, DivMod, Zenon
<1>7. r * v = (m * w) + u
  BY <1>4, <1>6
<1>8. PICK t \in Int, s \in 0..u-1 : m = (u * t) + s /\ s = m % u
  <2>1. m \in Int
    BY <1>1
  <2> QED BY <1>5, <2>1, DivMod, Zenon
<1>9. m = (u * t) + s
  BY <1>8
<1>10. t \in Nat
  <2> SUFFICES ASSUME t < 0 PROVE FALSE
    OBVIOUS
  <2>1. u * (t + 1) <= 0
    BY <1>5
  <2>2. u * (t + 1) = (u * t) + (u * 1) /\ u * t \in Int
    BY <1>5, Distributes
  <2>3. (u * t) + u <= 0 /\ u * t \in Int
    BY <1>5, <2>1, <2>2
  <2> QED BY <1>5, <1>9, <2>3
<1> DEFINE z == (v * t) * (m - 1)
           k == (((w * t) + 1) * (m - 1)) - s
<1>11. z \in Nat /\ k \in Int
  BY <1>1, <1>10
<1>12. r * z = (m * k) + s
  <2>1. r * z = ((r * v) * t) * (m - 1)
    BY <1>1, <1>10
  <2>2. (r * v) * t = ((m * w) * t) + (u * t)
    BY <1>1, <1>5, <1>7, <1>10
  <2>3. (r * v) * t = ((m * w) * t) + (m - s)
    BY <1>1, <1>5, <1>9, <1>10, <2>2
  <2>4. (((m * w) * t) + (m - s)) * (m - 1) = (m * k) + s
    BY <1>1, <1>10
  <2> HIDE DEF z, k
  <2> QED BY <2>1, <2>3, <2>4
<1>13. (r * z) % m = s
  <2>1. r * z \in Int /\ s \in 0..m-1
    BY <1>1, <1>5, <1>11
  <2> HIDE DEF z, k
  <2> QED BY <1>1, <1>11, <1>12, <2>1, RemainderUnique
<1>14. s = 0
  <2> SUFFICES ASSUME s # 0 PROVE FALSE
    OBVIOUS
  <2>1. s \in 1..m-1 /\ ~(u <= s)
    BY <1>5
  <2>2. s \in S
    <3> HIDE DEF z
    <3> QED BY <1>11, <1>13, <2>1
  <2> QED BY <1>3, <2>1, <2>2
<1>15. u = 1
  BY <1>5, <1>8, <1>14, LeastDivides
<1>16. (r * (v % m)) % m = 1 /\ v % m \in 0..m-1
  <2>0. v \in Int
    OBVIOUS
  <2>1. v \in Int /\ v % m \in 0..m-1 /\ v % m \in Int
    <3>1. v % m \in 0..m-1
      BY <1>1, <2>0, DivMod, Zenon
    <3> QED BY <2>0, <3>1
  <2>2. ((v % m) * r) % m = (v * r) % m
    BY <1>1, <2>1, ModProduct, Zenon
  <2>3. (v % m) * r = r * (v % m) /\ v * r = r * v
    BY <1>1, <2>1, Distributes, Zenon
  <2> QED BY <1>4, <1>15, <2>1, <2>2, <2>3, Zenon
<1> QED BY <1>16

(* The residues are a group.                                               *)
LEMMA ResidueInverse ==
    ASSUME NEW a \in Residues
    PROVE  \E v \in 0..P-1 : Mul(v, a) = 1
<1>1. PICK v \in 0..P-1 : (a * v) % P = 1
  BY InverseExists, Moduli DEF Residues
<1>2. Mul(a, v) = 1 /\ v \in Nat /\ a \in Nat
  BY <1>1, Moduli DEF Mul, Residues
<1> QED BY <1>2, MulCommutes

LEMMA Cancel ==
    ASSUME NEW a \in Residues, NEW b \in 0..P-1, NEW c \in 0..P-1,
           Mul(a, b) = Mul(a, c)
    PROVE  b = c
<1>1. PICK v \in 0..P-1 : Mul(v, a) = 1
  BY ResidueInverse
<1>2. a \in Nat /\ b \in Nat /\ c \in Nat /\ v \in Nat
  BY Moduli DEF Residues
<1>3. Mul(v, Mul(a, b)) = Mul(1, b) /\ Mul(v, Mul(a, c)) = Mul(1, c)
  BY <1>1, <1>2, MulAssociates
<1> QED BY <1>3, MulOne

LEMMA MulResidue ==
    ASSUME NEW a \in Residues, NEW b \in Residues
    PROVE  Mul(a, b) \in Residues
<1>1. a \in Nat /\ b \in Nat /\ b \in 0..P-1 /\ 0 \in 0..P-1 /\ b # 0
  BY Moduli DEF Residues
<1>2. Mul(a, 0) = 0
  <2>1. a * 0 = 0 /\ P \in Nat \ {0}
    BY <1>1, Moduli
  <2>2. 0 % P = 0
    BY <2>1, ModSmall
  <2> QED BY <2>1, <2>2, Zenon DEF Mul
<1>3. Mul(a, b) # 0
  BY <1>1, <1>2, Cancel
<1>4. Mul(a, b) \in 0..P-1
  BY <1>1, MulType
<1> QED BY <1>3, <1>4, Moduli DEF Residues

LEMMA PowerResidue ==
    ASSUME NEW b \in Residues
    PROVE  \A e \in Nat : PowMod(b, e) \in Residues
<1> DEFINE S == {e \in Nat : PowMod(b, e) \in Residues}
<1>1. b \in Nat
  BY Moduli DEF Residues
<1>2. 0 \in S
  BY <1>1, PowerZero, Moduli
<1>3. ASSUME NEW e \in Nat, e \in S PROVE e + 1 \in S
  <2>1. PowMod(b, e + 1) = Mul(b, PowMod(b, e))
    BY <1>1, PowerNext
  <2> QED BY <1>3, <2>1, MulResidue
<1>4. \A e \in Nat : e \in S
  <2> HIDE DEF S
  <2> QED BY <1>2, <1>3, Induction
<1> QED BY <1>4

-----------------------------------------------------------------------------
(***************************************************************************)
(* Fermat's little theorem.  Multiplication by a permutes the residues, so *)
(* the product of all a * k is the product of all k; it is also a^(p-1)    *)
(* times that product, which cancels.                                      *)
(***************************************************************************)

(* p[n] is the product of f[1] to f[n].                                    *)
Products(f, p) ==
    /\ p \in [Nat -> Nat] /\ p[0] = 1
    /\ \A n \in Nat : p[n+1] = Mul(p[n], f[n+1])

Product(f) == CHOOSE p : Products(f, p)

LEMMA ProductIs == ASSUME NEW f \in [Nat -> Nat] PROVE Products(f, Product(f))
<1> DEFINE first == 1
           V == Nat
           step == [t \in Nat \X V |-> Mul(t[2], f[t[1]+1])]
<1>1. first \in V
  OBVIOUS
<1>2. step \in [Nat \X V -> V]
  <2>1. ASSUME NEW t \in Nat \X V PROVE Mul(t[2], f[t[1]+1]) \in V
    <3>1. t[2] \in Nat /\ f[t[1]+1] \in Nat
      OBVIOUS
    <3> QED BY <3>1, MulType
  <2> QED BY <2>1
<1>3. \A n \in Nat, v \in V : step[<<n, v>>] = Mul(v, f[n+1])
  OBVIOUS
<1> HIDE DEF step, first, V
<1>4. PICK p : Solves(V, first, step, p)
  BY <1>1, <1>2, RecursionHasSolution
<1>5. Products(f, p)
  BY <1>3, <1>4 DEF Products, Solves, first, V
<1> QED BY <1>5 DEF Product

(* Three factors, the last two exchanged.                                  *)
LEMMA MulSwap ==
    ASSUME NEW a \in Nat, NEW b \in Nat, NEW c \in Nat
    PROVE  Mul(Mul(a, b), c) = Mul(Mul(a, c), b)
<1>1. /\ Mul(Mul(a, b), c) = Mul(a, Mul(b, c))
      /\ Mul(Mul(a, c), b) = Mul(a, Mul(c, b))
  BY MulAssociates
<1> QED BY <1>1, MulCommutes

(* Two functions that differ at j only.                                    *)
LEMMA ProductExchange ==
    ASSUME NEW f \in [Nat -> Nat], NEW g \in [Nat -> Nat], NEW j \in Nat, j # 0,
           \A k \in Nat : k # j => f[k] = g[k]
    PROVE  \A n \in Nat :
             /\ n < j => Product(f)[n] = Product(g)[n]
             /\ n >= j => Mul(Product(f)[n], g[j]) = Mul(Product(g)[n], f[j])
<1> DEFINE p == Product(f)
           q == Product(g)
           S == {n \in Nat : /\ n < j => p[n] = q[n]
                             /\ n >= j => Mul(p[n], g[j]) = Mul(q[n], f[j])}
<1>1. Products(f, p) /\ Products(g, q)
  BY ProductIs
<1> HIDE DEF p, q
<1>2. /\ p \in [Nat -> Nat] /\ q \in [Nat -> Nat] /\ p[0] = 1 /\ q[0] = 1
      /\ \A n \in Nat : p[n+1] = Mul(p[n], f[n+1]) /\ q[n+1] = Mul(q[n], g[n+1])
  BY <1>1 DEF Products
<1>3. 0 \in S
  BY <1>2
<1>4. ASSUME NEW n \in Nat, n \in S PROVE n + 1 \in S
  <2>1. /\ p[n+1] = Mul(p[n], f[n+1]) /\ q[n+1] = Mul(q[n], g[n+1])
        /\ p[n] \in Nat /\ q[n] \in Nat /\ f[n+1] \in Nat /\ g[n+1] \in Nat
        /\ f[j] \in Nat /\ g[j] \in Nat /\ n + 1 \in Nat
    BY <1>2
  <2>2. CASE n + 1 < j
    <3>1. n < j /\ n + 1 # j /\ ~(n + 1 >= j)
      BY <2>2
    <3> QED BY <1>4, <2>1, <3>1
  <2>3. CASE n + 1 = j
    <3>1. p[n] = q[n]
      BY <1>4, <2>3
    <3>2. p[n] \in Nat /\ f[j] \in Nat /\ g[j] \in Nat
      BY <2>1
    <3>3. Mul(Mul(p[n], f[j]), g[j]) = Mul(Mul(p[n], g[j]), f[j])
      BY <3>2, MulSwap
    <3> QED BY <2>1, <2>3, <3>1, <3>3
  <2>4. CASE n + 1 > j
    <3>1. n >= j /\ n + 1 # j
      BY <2>4
    <3>2. f[n+1] = g[n+1] /\ Mul(p[n], g[j]) = Mul(q[n], f[j])
      BY <1>4, <3>1, <2>1
    <3>3. p[n] \in Nat /\ f[n+1] \in Nat /\ g[j] \in Nat
      BY <2>1
    <3>4. Mul(Mul(p[n], f[n+1]), g[j]) = Mul(Mul(p[n], g[j]), f[n+1])
      BY <3>3, MulSwap
    <3>5. q[n] \in Nat /\ g[n+1] \in Nat /\ f[j] \in Nat
      BY <2>1
    <3>6. Mul(Mul(q[n], g[n+1]), f[j]) = Mul(Mul(q[n], f[j]), g[n+1])
      BY <3>5, MulSwap
    <3> QED BY <2>1, <2>4, <3>2, <3>4, <3>6
  <2> QED BY <2>2, <2>3, <2>4
<1>5. \A n \in Nat : n \in S
  <2> HIDE DEF S
  <2> QED BY <1>3, <1>4, Induction
<1> QED BY <1>5 DEF p, q

Permutes(f, n) ==
    /\ \A k \in 1..n : f[k] \in 1..n
    /\ \A k, l \in 1..n : f[k] = f[l] => k = l
    /\ \A v \in 1..n : \E k \in 1..n : f[k] = v

Same == [k \in Nat |-> k]

LEMMA PermutedProduct ==
    \A n \in Nat : \A f \in [Nat -> Nat] :
        Permutes(f, n) => Product(f)[n] = Product(Same)[n]
<1> DEFINE S == {n \in Nat : \A f \in [Nat -> Nat] :
                   Permutes(f, n) => Product(f)[n] = Product(Same)[n]}
<1>1. Same \in [Nat -> Nat] /\ \A k \in Nat : Same[k] = k
  BY DEF Same
<1>2. 0 \in S
  <2>1. ASSUME NEW f \in [Nat -> Nat] PROVE Product(f)[0] = 1
    BY ProductIs DEF Products
  <2> QED BY <1>1, <2>1
<1>3. ASSUME NEW n \in Nat, n \in S PROVE n + 1 \in S
  <2> SUFFICES ASSUME NEW f \in [Nat -> Nat], Permutes(f, n + 1)
               PROVE  Product(f)[n+1] = Product(Same)[n+1]
    OBVIOUS
  <2>1. /\ \A k \in 1..n+1 : f[k] \in 1..n+1
        /\ \A k, l \in 1..n+1 : f[k] = f[l] => k = l
        /\ \A v \in 1..n+1 : \E k \in 1..n+1 : f[k] = v
    BY DEF Permutes
  <2>2. PICK j \in 1..n+1 : f[j] = n + 1
    BY <2>1
  <2> DEFINE g == [k \in Nat |-> IF k = j THEN f[n+1] ELSE f[k]]
  <2>3. /\ g \in [Nat -> Nat] /\ j \in Nat /\ j # 0 /\ g[j] = f[n+1]
        /\ \A k \in Nat : k # j => f[k] = g[k]
    OBVIOUS
  <2> HIDE DEF g
  <2>4. Permutes(g, n)
    <3>1. ASSUME NEW k \in 1..n
          PROVE  /\ g[k] = f[IF k = j THEN n + 1 ELSE k]
                 /\ (IF k = j THEN n + 1 ELSE k) \in 1..n+1
                 /\ (IF k = j THEN n + 1 ELSE k) # j
      BY <2>3
    <3>2. ASSUME NEW k \in 1..n PROVE g[k] \in 1..n
      <4> DEFINE h == IF k = j THEN n + 1 ELSE k
      <4>1. g[k] = f[h] /\ h \in 1..n+1 /\ h # j
        BY <3>1
      <4> HIDE DEF h
      <4>2. f[h] \in 1..n+1 /\ f[h] # n + 1
        BY <4>1, <2>1, <2>2
      <4> QED BY <4>1, <4>2
    <3>3. ASSUME NEW k \in 1..n, NEW l \in 1..n, g[k] = g[l] PROVE k = l
      <4>1. (IF k = j THEN n + 1 ELSE k) = (IF l = j THEN n + 1 ELSE l)
        BY <3>1, <3>3, <2>1
      <4> QED BY <4>1
    <3>4. ASSUME NEW v \in 1..n PROVE \E k \in 1..n : g[k] = v
      <4>1. PICK k \in 1..n+1 : f[k] = v
        BY <2>1
      <4>2. k # j
        BY <4>1, <2>2
      <4>3. CASE k = n + 1
        <5>1. j \in 1..n
          BY <4>2, <4>3
        <5> QED BY <5>1, <4>1, <4>3, <2>3
      <4>4. CASE k # n + 1
        <5>1. k \in 1..n /\ k \in Nat
          BY <4>4
        <5> QED BY <5>1, <4>1, <4>2, <2>3
      <4> QED BY <4>3, <4>4
    <3> QED BY <3>2, <3>3, <3>4 DEF Permutes
  <2>5. Product(g)[n] = Product(Same)[n]
    BY <1>3, <2>3, <2>4
  <2>6. /\ Product(f)[n+1] = Mul(Product(f)[n], f[n+1])
        /\ Product(Same)[n+1] = Mul(Product(Same)[n], n + 1)
    BY <1>1, ProductIs DEF Products
  <2>7. /\ n < j => Product(f)[n] = Product(g)[n]
        /\ n >= j => Mul(Product(f)[n], g[j]) = Mul(Product(g)[n], f[j])
    BY <2>3, ProductExchange
  <2>8. CASE j = n + 1
    BY <2>2, <2>5, <2>6, <2>7, <2>8
  <2>9. CASE j # n + 1
    <3>1. n >= j
      BY <2>9
    <3> QED BY <3>1, <2>2, <2>3, <2>5, <2>6, <2>7
  <2> QED BY <2>8, <2>9
<1>4. \A n \in Nat : n \in S
  <2> HIDE DEF S
  <2> QED BY <1>2, <1>3, Induction
<1> QED BY <1>4

Multiples(a) == [k \in Nat |-> Mul(a, k)]

LEMMA MultiplesType ==
    ASSUME NEW a \in Nat
    PROVE  Multiples(a) \in [Nat -> Nat] /\ \A k \in Nat : Multiples(a)[k] = Mul(a, k)
BY MulType DEF Multiples

LEMMA ProductOfMultiples ==
    ASSUME NEW a \in Nat
    PROVE  \A n \in Nat :
             Product(Multiples(a))[n] = Mul(PowMod(a, n), Product(Same)[n])
<1> DEFINE p == Product(Multiples(a))
           q == Product(Same)
           S == {n \in Nat : p[n] = Mul(PowMod(a, n), q[n])}
<1>1. Same \in [Nat -> Nat] /\ \A k \in Nat : Same[k] = k
  BY DEF Same
<1>2. Products(Multiples(a), p) /\ Products(Same, q)
  BY <1>1, MultiplesType, ProductIs
<1> HIDE DEF p, q
<1>3. /\ p[0] = 1 /\ q[0] = 1 /\ q \in [Nat -> Nat]
      /\ \A n \in Nat : p[n+1] = Mul(p[n], Mul(a, n + 1)) /\ q[n+1] = Mul(q[n], n + 1)
  <2>1. ASSUME NEW n \in Nat
        PROVE  Multiples(a)[n+1] = Mul(a, n + 1) /\ Same[n+1] = n + 1
    <3>1. n + 1 \in Nat
      OBVIOUS
    <3>2. \A k \in Nat : Multiples(a)[k] = Mul(a, k)
      BY MultiplesType
    <3> QED BY <1>1, <3>1, <3>2, Zenon
  <2>2. /\ p[0] = 1 /\ q[0] = 1 /\ q \in [Nat -> Nat]
        /\ \A n \in Nat : p[n+1] = Mul(p[n], Multiples(a)[n+1])
        /\ \A n \in Nat : q[n+1] = Mul(q[n], Same[n+1])
    BY <1>2, Zenon DEF Products
  <2> QED BY <2>1, <2>2, Zenon
<1>4. 0 \in S
  <2>1. Mul(1, 1) = 1
    BY MulOne, Moduli
  <2> QED BY <2>1, <1>3, PowerZero
<1>5. ASSUME NEW n \in Nat, n \in S PROVE n + 1 \in S
  <2>1. PowMod(a, n) \in Nat /\ q[n] \in Nat /\ n + 1 \in Nat
    <3>1. PowMod(a, n) \in Nat
      BY PowerType
    <3> QED BY <1>3, <3>1
  <2>2. p[n+1] = Mul(Mul(PowMod(a, n), q[n]), Mul(a, n + 1))
    BY <1>3, <1>5
  <2>3. p[n+1] = Mul(Mul(PowMod(a, n), a), Mul(q[n], n + 1))
    BY <2>1, <2>2, MulExchange
  <2>4. Mul(PowMod(a, n), a) = PowMod(a, n + 1)
    BY <2>1, MulCommutes, PowerNext
  <2> QED BY <1>3, <2>3, <2>4
<1>6. \A n \in Nat : n \in S
  <2> HIDE DEF S
  <2> QED BY <1>4, <1>5, Induction
<1> QED BY <1>6 DEF p, q

LEMMA ProductOfResidues == \A n \in Nat : n < P => Product(Same)[n] \in Residues
<1> DEFINE q == Product(Same)
           S == {n \in Nat : n < P => q[n] \in Residues}
<1>1. Same \in [Nat -> Nat] /\ \A k \in Nat : Same[k] = k
  BY DEF Same
<1>2. q[0] = 1 /\ \A n \in Nat : q[n+1] = Mul(q[n], n + 1)
  BY <1>1, ProductIs DEF Products
<1> HIDE DEF q
<1>3. 0 \in S
  BY <1>2, Moduli
<1>4. ASSUME NEW n \in Nat, n \in S PROVE n + 1 \in S
  <2> SUFFICES ASSUME n + 1 < P PROVE q[n+1] \in Residues
    OBVIOUS
  <2>1. q[n] \in Residues /\ n + 1 \in Residues
    BY <1>4, Moduli DEF Residues
  <2> QED BY <1>2, <2>1, MulResidue
<1>5. \A n \in Nat : n \in S
  <2> HIDE DEF S
  <2> QED BY <1>3, <1>4, Induction
<1> QED BY <1>5 DEF q

LEMMA MultiplesPermute == ASSUME NEW a \in Residues PROVE Permutes(Multiples(a), P - 1)
<1>1. a \in Nat /\ \A k \in Residues : k \in Nat /\ k \in 0..P-1 /\ k # 0
  BY Moduli DEF Residues
<1>2. \A k \in Residues : Multiples(a)[k] = Mul(a, k)
  BY <1>1, MultiplesType
<1>3. \A k \in Residues : Multiples(a)[k] \in Residues
  BY <1>2, MulResidue
<1>4. \A k, l \in Residues : Multiples(a)[k] = Multiples(a)[l] => k = l
  BY <1>1, <1>2, Cancel
<1>5. ASSUME NEW v \in Residues PROVE \E k \in Residues : Multiples(a)[k] = v
  <2>1. PICK c \in 0..P-1 : Mul(c, a) = 1
    BY ResidueInverse
  <2>2. c \in Nat /\ c # 0
    <3>1. 0 * a = 0 /\ P \in Nat \ {0}
      BY <1>1, Moduli
    <3>2. 0 % P = 0
      BY <3>1, ModSmall
    <3>3. Mul(0, a) = 0
      BY <3>1, <3>2, Zenon DEF Mul
    <3> QED BY <3>3, <2>1, Moduli
  <2>3. c \in Residues
    BY <2>2, Moduli DEF Residues
  <2>4. Mul(c, v) \in Residues
    BY <2>3, MulResidue
  <2>5. Mul(a, Mul(c, v)) = Mul(Mul(c, a), v)
    BY <1>1, <2>2, MulAssociates, MulCommutes
  <2>6. Mul(a, Mul(c, v)) = v
    BY <2>1, <2>5, <1>1, MulOne
  <2> QED BY <2>4, <2>6, <1>2
<1> QED BY <1>3, <1>4, <1>5 DEF Permutes, Residues

(* Fermat's little theorem, for every residue and every prime p.           *)
LEMMA Fermat == ASSUME NEW a \in Residues PROVE PowMod(a, P - 1) = 1
<1> DEFINE q == Product(Same)[P-1]
<1>1. P - 1 \in Nat /\ P - 1 < P /\ a \in Nat /\ 1 \in 0..P-1
  BY Moduli DEF Residues
<1>2. Product(Multiples(a))[P-1] = q
  BY <1>1, MultiplesType, MultiplesPermute, PermutedProduct
<1>3. Product(Multiples(a))[P-1] = Mul(PowMod(a, P - 1), q)
  BY <1>1, ProductOfMultiples
<1>4. q \in Residues
  BY <1>1, ProductOfResidues
<1> HIDE DEF q
<1>5. q \in 0..P-1 /\ q \in Nat
  BY <1>4, Moduli DEF Residues
<1>6. PowMod(a, P - 1) \in 0..P-1 /\ PowMod(a, P - 1) \in Nat
  BY <1>1, PowerType
<1>7. Mul(q, PowMod(a, P - 1)) = Mul(q, 1)
  BY <1>2, <1>3, <1>5, <1>6, MulCommutes, MulOne
<1> QED BY <1>1, <1>4, <1>6, <1>7, Cancel

-----------------------------------------------------------------------------
(* The map of the walk: what it does to the exponents it does to the work. *)

LEMMA PowerOfResidue ==
    ASSUME NEW b \in Residues, NEW e \in Nat
    PROVE  /\ PowMod(b, e) \in Residues /\ PowMod(b, e) \in Nat
           /\ PowMod(b, e % (P - 1)) = PowMod(b, e)
<1>1. b \in Nat /\ P - 1 \in Nat \ {0}
  BY Moduli DEF Residues
<1>2. PowMod(b, P - 1) = 1
  BY Fermat
<1>3. PowMod(b, e) \in Residues /\ PowMod(b, e) \in Nat
  BY <1>1, PowerResidue, PowerType
<1>4. PowMod(b, e % (P - 1)) = PowMod(b, e)
  BY <1>1, <1>2, PowerReduced
<1> QED BY <1>3, <1>4

LEMMA KeyIsResidue == ASSUME x \in Keys PROVE H \in Residues /\ H \in Nat /\ x \in Nat
<1>1. x \in Nat
  BY GroupAssumption, Moduli
<1> QED BY <1>1, PowerOfResidue, Moduli DEF H

LEMMA DeriveResidue ==
    ASSUME x \in Keys, NEW a \in Nat, NEW b \in Nat
    PROVE  Derive(a, b) = Mul(PowMod(G, a), PowMod(H, b)) /\ Derive(a, b) \in Residues
<1>1. PowMod(G, a) \in Residues /\ PowMod(H, b) \in Residues
  BY KeyIsResidue, PowerOfResidue, Moduli
<1>2. Mul(PowMod(G, a), PowMod(H, b)) \in Residues
  BY <1>1, MulResidue
<1>3. Derive(a, b) = Mul(PowMod(G, a), PowMod(H, b))
  BY Zenon DEF Derive, Mul
<1> QED BY <1>2, <1>3

LEMMA Thirds == ASSUME NEW xi \in Nat PROVE xi % 3 \in {0, 1, 2}
OBVIOUS

LEMMA ExponentsStay ==
    ASSUME NEW a \in 0..P-2, NEW xi \in Nat
    PROVE  FuncG(a, xi) \in 0..P-2 /\ FuncH(a, xi) \in 0..P-2
<1>1. /\ a * xi \in Int /\ a + xi \in Int /\ P - 1 \in Nat \ {0} /\ P \in Nat
      /\ 0..(P-1)-1 = 0..P-2
  BY Moduli
<1>2. (a * xi) % (P - 1) \in 0..P-2 /\ (a + xi) % (P - 1) \in 0..P-2
  <2>1. (a * xi) % (P - 1) \in 0..(P-1)-1
    BY <1>1, DivMod, Zenon
  <2>2. (a + xi) % (P - 1) \in 0..(P-1)-1
    BY <1>1, DivMod, Zenon
  <2> QED BY <1>1, <2>1, <2>2, Zenon
<1>3. CASE xi % 3 = 0
  BY <1>2, <1>3 DEF FuncG, FuncH
<1>4. CASE xi % 3 = 1
  BY <1>2, <1>4 DEF FuncG, FuncH
<1>5. CASE xi % 3 = 2
  BY <1>2, <1>5 DEF FuncG, FuncH
<1> QED BY <1>3, <1>4, <1>5, Thirds

LEMMA WorkStays ==
    ASSUME x \in Keys, NEW xi \in Nat, NEW y \in Residues
    PROVE  FuncF(xi, y) \in Residues
<1>1. /\ PowMod(y, xi) \in Residues
      /\ PowMod(G, xi) \in Residues /\ PowMod(H, xi) \in Residues
  BY KeyIsResidue, PowerOfResidue, Moduli
<1>2. Mul(PowMod(G, xi), y) \in Residues /\ Mul(PowMod(H, xi), y) \in Residues
  BY <1>1, MulResidue
<1>3. CASE xi % 3 = 0
  BY <1>1, <1>3 DEF FuncF
<1>4. CASE xi % 3 = 1
  BY <1>2, <1>4 DEF FuncF, Mul
<1>5. CASE xi % 3 = 2
  BY <1>2, <1>5 DEF FuncF, Mul
<1> QED BY <1>3, <1>4, <1>5, Thirds

LEMMA MapFollows ==
    ASSUME x \in Keys, NEW a \in 0..P-2, NEW b \in 0..P-2, NEW xi \in Nat
    PROVE  FuncF(xi, Derive(a, b)) = Derive(FuncG(a, xi), FuncH(b, xi))
<1> DEFINE A == PowMod(G, a)
           B == PowMod(H, b)
           C == PowMod(G, xi)
           D == PowMod(H, xi)
<1>1. /\ a \in Nat /\ b \in Nat /\ a * xi \in Nat /\ b * xi \in Nat
      /\ a + xi \in Nat /\ b + xi \in Nat /\ G \in Nat /\ G \in Residues
  BY Moduli DEF Residues
<1>2. H \in Residues /\ H \in Nat
  BY KeyIsResidue
<1>3. A \in Nat /\ B \in Nat /\ C \in Nat /\ D \in Nat
  BY <1>1, <1>2, PowerOfResidue
<1>4. Derive(a, b) = Mul(A, B)
  BY <1>1, DeriveResidue
<1>5. FuncG(a, xi) \in Nat /\ FuncH(b, xi) \in Nat
  <2>1. FuncG(a, xi) \in 0..P-2 /\ FuncH(b, xi) \in 0..P-2
    BY ExponentsStay, Zenon
  <2>2. 0..P-2 \subseteq Nat
    BY Moduli
  <2> QED BY <2>1, <2>2
<1>6. Derive(FuncG(a, xi), FuncH(b, xi))
        = Mul(PowMod(G, FuncG(a, xi)), PowMod(H, FuncH(b, xi)))
  BY <1>5, DeriveResidue, Zenon
<1>7. CASE xi % 3 = 0
  <2>1. PowMod(Mul(A, B), xi) = Mul(PowMod(A, xi), PowMod(B, xi))
    BY <1>3, PowerOfProduct
  <2>2. PowMod(A, xi) = PowMod(G, a * xi) /\ PowMod(B, xi) = PowMod(H, b * xi)
    <3>1. PowMod(A, xi) = PowMod(G, a * xi)
      BY <1>1, PowerProduct
    <3>2. PowMod(B, xi) = PowMod(H, b * xi)
      BY <1>1, <1>2, PowerProduct
    <3> QED BY <3>1, <3>2
  <2>3. /\ PowMod(G, (a * xi) % (P - 1)) = PowMod(G, a * xi)
        /\ PowMod(H, (b * xi) % (P - 1)) = PowMod(H, b * xi)
    BY <1>1, <1>2, PowerOfResidue
  <2>4. /\ FuncF(xi, Mul(A, B)) = PowMod(Mul(A, B), xi)
        /\ FuncG(a, xi) = (a * xi) % (P - 1) /\ FuncH(b, xi) = (b * xi) % (P - 1)
    BY <1>7 DEF FuncF, FuncG, FuncH
  <2> HIDE DEF A, B
  <2> QED BY <1>4, <1>6, <2>1, <2>2, <2>3, <2>4, Zenon
<1>8. CASE xi % 3 = 1
  <2>1. Mul(C, Mul(A, B)) = Mul(Mul(C, A), B)
    BY <1>3, MulAssociates
  <2>2. Mul(C, A) = PowMod(G, a + xi)
    <3>1. PowMod(G, a + xi) = Mul(A, C)
      BY <1>1, PowerSum
    <3> QED BY <3>1, <1>3, MulCommutes
  <2>3. PowMod(G, (a + xi) % (P - 1)) = PowMod(G, a + xi)
    BY <1>1, PowerOfResidue
  <2>4. /\ FuncF(xi, Mul(A, B)) = Mul(C, Mul(A, B))
        /\ FuncG(a, xi) = (a + xi) % (P - 1) /\ FuncH(b, xi) = b
    <3> HIDE DEF A, B
    <3> QED BY <1>8 DEF FuncF, FuncG, FuncH, Mul
  <2> QED BY <1>4, <1>6, <2>1, <2>2, <2>3, <2>4, Zenon
<1>9. CASE xi % 3 = 2
  <2>1. Mul(D, Mul(A, B)) = Mul(A, Mul(B, D))
    <3>1. Mul(A, B) \in Nat
      BY <1>3, MulType
    <3>2. Mul(D, Mul(A, B)) = Mul(Mul(A, B), D)
      BY <1>3, <3>1, MulCommutes
    <3> QED BY <1>3, <3>2, MulAssociates
  <2>2. Mul(B, D) = PowMod(H, b + xi)
    BY <1>1, <1>2, PowerSum
  <2>3. PowMod(H, (b + xi) % (P - 1)) = PowMod(H, b + xi)
    BY <1>1, <1>2, PowerOfResidue
  <2>4. /\ FuncF(xi, Mul(A, B)) = Mul(D, Mul(A, B))
        /\ FuncG(a, xi) = a /\ FuncH(b, xi) = (b + xi) % (P - 1)
    <3> HIDE DEF A, B
    <3> QED BY <1>9 DEF FuncF, FuncG, FuncH, Mul
  <2> QED BY <1>4, <1>6, <2>1, <2>2, <2>3, <2>4, Zenon
<1> QED BY <1>7, <1>8, <1>9, Thirds

-----------------------------------------------------------------------------
(***************************************************************************)
(* The inductive invariant.  A pair is reported, and then returned, only   *)
(* as it stood after the step of both walks that met at a distinguished    *)
(* point; the iterations of the loops made since the flag went up are      *)
(* bounded by the counter of the loop the search is in.                    *)
(***************************************************************************)
Verified(s, t) ==
    /\ Collide(s, t)
    /\ s.work = FuncF(HashInteger(s.nonce), s.nonce)
    /\ Distinguished(s.nonce, s.work)

ReturnsReported ==
    /\ phase = "report" => Verified(s1, s2)
    /\ result # NoResult =>
         phase = "done" /\ result = <<s1, s2>> /\ Verified(s1, s2)

Pace ==
    dist =>
        /\ flag \/ late = 0
        /\ phase = "search" => late <= counter /\ late <= GrainSize
        /\ phase = "roll" => late <= GrainSize + counter /\ late <= 2 * GrainSize
        /\ late <= 2 * GrainSize + 1

IInv == TypeOK /\ WorkIsOfSolution /\ ReturnsReported /\ Pace

LEMMA TransitStays ==
    ASSUME x \in Keys, hash \in Hashes, NEW s \in State, s.work = Derive(s.a, s.b)
    PROVE  /\ Transit(s) \in State
           /\ Transit(s).work = Derive(Transit(s).a, Transit(s).b)
           /\ Transit(s).work = FuncF(HashInteger(Transit(s).nonce), Transit(s).nonce)
<1> DEFINE xi == HashInteger(s.work)
<1>1. s.a \in 0..P-2 /\ s.b \in 0..P-2 /\ s.nonce \in Residues /\ s.work \in Residues
  BY DEF State
<1>2. xi \in Nat
  <2>1. hash \in [Residues -> 0..P-1]
    BY GroupAssumption
  <2> QED BY <1>1, <2>1, Moduli DEF HashInteger
<1>3. Transit(s) = [a |-> FuncG(s.a, xi), b |-> FuncH(s.b, xi), nonce |-> s.work,
                    work |-> FuncF(xi, s.work)]
  BY DEF Transit
<1>4. Transit(s).nonce = s.work /\ xi = HashInteger(s.work)
  BY <1>3
<1> HIDE DEF xi
<1>5. FuncG(s.a, xi) \in 0..P-2 /\ FuncH(s.b, xi) \in 0..P-2
  BY <1>1, <1>2, ExponentsStay
<1>6. FuncF(xi, s.work) \in Residues
  BY <1>1, <1>2, WorkStays
<1>7. FuncF(xi, s.work) = Derive(FuncG(s.a, xi), FuncH(s.b, xi))
  <2>1. FuncF(xi, Derive(s.a, s.b)) = Derive(FuncG(s.a, xi), FuncH(s.b, xi))
    BY <1>1, <1>2, MapFollows
  <2> QED BY <2>1
<1>8. Transit(s) \in State
  BY <1>1, <1>3, <1>5, <1>6 DEF State
<1> QED BY <1>3, <1>4, <1>7, <1>8

LEMMA InitIInv == Init => IInv
<1> SUFFICES ASSUME Init PROVE IInv
  OBVIOUS
<1>1. PICK a \in 0..N-1, b \in 0..N-1 : s1 = FromPubKey(a, b)
  BY DEF Init
<1>2. a \in Nat /\ b \in Nat /\ a \in 0..P-2 /\ b \in 0..P-2
  BY Moduli
<1>3. x \in Keys
  BY DEF Init
<1>4. Derive(a, b) \in Residues
  BY <1>2, <1>3, DeriveResidue
<1>5. s1 = [a |-> a, b |-> b, nonce |-> 1, work |-> Derive(a, b)]
  BY <1>1 DEF FromPubKey
<1>6. s1 \in State
  BY <1>2, <1>4, <1>5, Moduli DEF State
<1>7. s1.work = Derive(s1.a, s1.b) /\ s2 = s1
  BY <1>5 DEF Init
<1>8. WorkIsOfSolution
  BY <1>7 DEF WorkIsOfSolution
<1>9. TypeOK
  <2>1. 0 \in 0..Length /\ 0 \in 0..GrainSize+1 /\ 0 \in Nat
    BY SearchAssumption
  <2> QED BY <1>6, <1>7, <2>1, Zenon DEF Init, TypeOK
<1>10. ReturnsReported
  BY DEF Init, ReturnsReported
<1>11. Pace
  BY SearchAssumption DEF Init, Pace
<1> QED BY <1>8, <1>9, <1>10, <1>11 DEF IInv

(* What the three ways to leave an iteration do to the counters.           *)
LEMMA CountersStay ==
    ASSUME TypeOK, Late,
           \/ \E r \in {NoResult} : Return(r)
           \/ StartRoll
           \/ i + 1 < Length /\ Count
    PROVE  i' \in 0..Length /\ counter' \in 0..GrainSize+1 /\ late' \in Nat
           /\ phase' \in {"search", "roll", "report", "done"}
<1>1. /\ i \in 0..Length /\ counter \in 0..GrainSize+1 /\ late \in Nat
      /\ phase \in {"search", "roll", "report", "done"}
  BY DEF TypeOK
<1>2. late' \in Nat
  BY <1>1 DEF Late
<1>3. CASE Return(NoResult)
  BY <1>1, <1>2, <1>3 DEF Return
<1>4. CASE StartRoll
  BY <1>1, <1>2, <1>4, SearchAssumption DEF StartRoll
<1>5. CASE i + 1 < Length /\ Count
  BY <1>1, <1>2, <1>5, SearchAssumption DEF Count, Polls
<1> QED BY <1>3, <1>4, <1>5

(* An iteration: one transit of the first walk, one or two of the second.  *)
LEMMA WalksStay ==
    ASSUME IInv, UNCHANGED puzzle, s1' = Transit(s1),
           s2' \in {Transit(s2), Transit(Transit(s2))}
    PROVE  /\ s1' \in State /\ s2' \in State /\ WorkIsOfSolution'
           /\ s1'.work = FuncF(HashInteger(s1'.nonce), s1'.nonce)
<1>1. /\ x \in Keys /\ hash \in Hashes /\ s1 \in State /\ s2 \in State
      /\ s1.work = Derive(s1.a, s1.b) /\ s2.work = Derive(s2.a, s2.b)
  BY DEF IInv, TypeOK, WorkIsOfSolution
<1>2. /\ s1' \in State /\ s1'.work = Derive(s1'.a, s1'.b)
      /\ s1'.work = FuncF(HashInteger(s1'.nonce), s1'.nonce)
  BY <1>1, TransitStays
<1>3. Transit(s2) \in State /\ Transit(s2).work = Derive(Transit(s2).a, Transit(s2).b)
  BY <1>1, TransitStays
<1>4. s2' \in State /\ s2'.work = Derive(s2'.a, s2'.b)
  <2>1. CASE s2' = Transit(s2)
    BY <1>3, <2>1
  <2>2. CASE s2' = Transit(Transit(s2))
    BY <1>1, <1>3, <2>2, TransitStays
  <2> QED BY <2>1, <2>2
<1>5. x' = x
  BY DEF puzzle
<1>6. WorkIsOfSolution'
  BY <1>2, <1>4, <1>5 DEF WorkIsOfSolution, Derive, H
<1> QED BY <1>2, <1>4, <1>6

(* Nothing was returned before the search ends.                            *)
LEMMA NothingYet == ASSUME IInv, phase # "done" PROVE result = NoResult
BY DEF IInv, ReturnsReported

LEMMA SearchIInv == ASSUME IInv, Search PROVE IInv'
<1>1. /\ UNCHANGED puzzle /\ UNCHANGED flag /\ phase = "search" /\ Late
      /\ s1' = Transit(s1) /\ s2' = Transit(Transit(s2))
  BY DEF Search
<1>2. /\ s1' \in State /\ s2' \in State /\ WorkIsOfSolution'
  BY <1>1, WalksStay
<1>3. result = NoResult
  BY <1>1, NothingYet
<1>4. \/ Return(NoResult)
      \/ ~Interrupted /\ StartRoll
      \/ ~Interrupted /\ i + 1 < Length /\ Count
  BY DEF Search
<1>5. result' = NoResult /\ phase' # "report"
  BY <1>1, <1>3, <1>4 DEF Return, StartRoll, Count
<1>6. /\ i' \in 0..Length /\ counter' \in 0..GrainSize+1 /\ late' \in Nat
      /\ phase' \in {"search", "roll", "report", "done"}
  BY <1>1, <1>4, CountersStay DEF IInv
<1>7. TypeOK'
  BY <1>1, <1>2, <1>5, <1>6, Zenon DEF IInv, TypeOK, puzzle
<1>8. ReturnsReported'
  BY <1>5 DEF ReturnsReported
<1>9. Pace'
  <2> SUFFICES ASSUME dist PROVE Pace'
    BY <1>1 DEF Pace, puzzle
  <2>1. /\ late \in Nat /\ counter \in Nat /\ GrainSize \in Nat
        /\ flag \/ late = 0
        /\ late <= counter /\ late <= GrainSize
    BY <1>1, SearchAssumption DEF IInv, TypeOK, Pace
  <2>2. late' = (IF flag THEN late + 1 ELSE late) /\ (flag' <=> flag)
    BY <1>1 DEF Late
  <2>3. CASE Return(NoResult)
    BY <2>1, <2>2, <2>3 DEF Return, Pace
  <2>4. CASE ~Interrupted /\ StartRoll
    BY <2>1, <2>2, <2>4 DEF Interrupted, Polls, StartRoll, Pace
  <2>5. CASE ~Interrupted /\ Count
    BY <1>1, <2>1, <2>2, <2>5 DEF Interrupted, Polls, Count, Pace
  <2> QED BY <1>4, <2>3, <2>4, <2>5
<1> QED BY <1>2, <1>7, <1>8, <1>9 DEF IInv

LEMMA RollIInv == ASSUME IInv, Roll PROVE IInv'
<1>1. /\ UNCHANGED puzzle /\ UNCHANGED flag /\ phase = "roll" /\ Late
      /\ s1' = Transit(s1) /\ s2' = Transit(s2)
  BY DEF Roll
<1>2. /\ s1' \in State /\ s2' \in State /\ WorkIsOfSolution'
      /\ s1'.work = FuncF(HashInteger(s1'.nonce), s1'.nonce)
  BY <1>1, WalksStay
<1>3. result = NoResult
  BY <1>1, NothingYet
<1> DEFINE Reports ==
             /\ Distinguished(s1'.nonce, s1'.work) /\ Collide(s1', s2')
             /\ ~(dist /\ flag)
             /\ phase' = "report"
             /\ UNCHANGED <<i, counter, result>>
<1>4. \/ Return(NoResult)
      \/ ~Interrupted /\ Reports
      \/ ~Interrupted /\ i + 1 < Length /\ Count
  BY Zenon DEF Roll
<1>5. result' = NoResult
  BY <1>3, <1>4 DEF Return, Count
<1>6. /\ i' \in 0..Length /\ counter' \in 0..GrainSize+1 /\ late' \in Nat
      /\ phase' \in {"search", "roll", "report", "done"}
  <2>1. CASE Reports
    BY <1>1, <2>1 DEF IInv, TypeOK, Late
  <2>2. CASE ~Reports
    BY <1>1, <1>4, <2>2, CountersStay DEF IInv
  <2> QED BY <2>1, <2>2
<1>7. TypeOK'
  BY <1>1, <1>2, <1>5, <1>6, Zenon DEF IInv, TypeOK, puzzle
<1>8. ReturnsReported'
  <2>1. CASE Reports
    <3>1. Verified(s1', s2')
      BY <1>2, <2>1 DEF Verified
    <3>2. Verified(s1, s2)'
      BY <3>1, <1>1 DEF Verified, puzzle, Collide, Solution, FuncF, H, HashInteger,
                        Distinguished
    <3> QED BY <1>5, <3>2 DEF ReturnsReported
  <2>2. CASE ~Reports
    <3>1. phase' # "report"
      BY <1>1, <1>4, <2>2 DEF Return, Count
    <3> QED BY <1>5, <3>1 DEF ReturnsReported
  <2> QED BY <2>1, <2>2
<1>9. Pace'
  <2> SUFFICES ASSUME dist PROVE Pace'
    BY <1>1 DEF Pace, puzzle
  <2>1. /\ late \in Nat /\ counter \in Nat /\ GrainSize \in Nat
        /\ flag \/ late = 0
        /\ late <= GrainSize + counter /\ late <= 2 * GrainSize
    BY <1>1, SearchAssumption DEF IInv, TypeOK, Pace
  <2>2. late' = (IF flag THEN late + 1 ELSE late) /\ (flag' <=> flag)
    BY <1>1 DEF Late
  <2>3. CASE Return(NoResult)
    BY <2>1, <2>2, <2>3 DEF Return, Pace
  <2>4. CASE Reports
    BY <2>1, <2>2, <2>4 DEF Pace
  <2>5. CASE ~Interrupted /\ Count
    BY <1>1, <2>1, <2>2, <2>5 DEF Interrupted, Polls, Count, Pace
  <2> QED BY <1>4, <2>3, <2>4, <2>5
<1> QED BY <1>2, <1>7, <1>8, <1>9 DEF IInv

(* A step that leaves the puzzle and the walks alone.                      *)
LEMMA WalksRest ==
    ASSUME IInv, UNCHANGED <<puzzle, walk>>
    PROVE  WorkIsOfSolution' /\ (Verified(s1, s2)' <=> Verified(s1, s2))
BY DEF IInv, WorkIsOfSolution, Derive, H, Verified, puzzle, walk, Collide, Solution,
       FuncF, HashInteger, Distinguished

LEMMA ReportIInv == ASSUME IInv, Report PROVE IInv'
<1>1. /\ UNCHANGED <<puzzle, walk, late>> /\ UNCHANGED <<i, counter>>
      /\ phase = "report" /\ phase' = "done" /\ result' = <<s1, s2>>
      /\ flag' = (flag \/ dist)
  BY DEF Report, Return
<1>2. WorkIsOfSolution' /\ Verified(s1, s2)'
  BY <1>1, WalksRest DEF IInv, ReturnsReported
<1>3. TypeOK'
  <2>1. result' \in (State \X State) /\ flag' \in BOOLEAN
    BY <1>1 DEF IInv, TypeOK
  <2> QED BY <1>1, <2>1, Zenon DEF IInv, TypeOK, puzzle, walk
<1>4. ReturnsReported'
  BY <1>1, <1>2 DEF ReturnsReported, walk
<1>5. Pace'
  BY <1>1 DEF IInv, Pace, puzzle
<1> QED BY <1>2, <1>3, <1>4, <1>5 DEF IInv

LEMMA SignalIInv == ASSUME IInv, Signal PROVE IInv'
<1>1. UNCHANGED <<puzzle, walk, phase, i, counter, late, result>> /\ flag' = TRUE
  BY DEF Signal
<1>2. WorkIsOfSolution' /\ (Verified(s1, s2)' <=> Verified(s1, s2))
  BY <1>1, WalksRest
<1>3. TypeOK'
  BY <1>1, Zenon DEF IInv, TypeOK, puzzle, walk
<1>4. ReturnsReported'
  BY <1>1, <1>2 DEF IInv, ReturnsReported, walk
<1>5. Pace'
  BY <1>1 DEF IInv, Pace, puzzle
<1> QED BY <1>2, <1>3, <1>4, <1>5 DEF IInv

LEMMA NextIInv == ASSUME IInv, [Next]_vars PROVE IInv'
<1>1. CASE UNCHANGED vars
  <2>1. UNCHANGED <<puzzle, walk>>
    BY <1>1 DEF vars
  <2>2. WorkIsOfSolution' /\ (Verified(s1, s2)' <=> Verified(s1, s2))
    BY <2>1, WalksRest
  <2>3. TypeOK' /\ Pace'
    BY <1>1 DEF vars, puzzle, walk, IInv, TypeOK, Pace
  <2>4. ReturnsReported'
    BY <1>1, <2>2 DEF vars, walk, IInv, ReturnsReported
  <2> QED BY <2>2, <2>3, <2>4 DEF IInv
<1> QED BY <1>1, SearchIInv, RollIInv, ReportIInv, SignalIInv DEF Next, Solver

(* Every state a walk goes through is well formed: the exponents stay      *)
(* below p - 1 and the work stays invertible, so no power, no hash and no  *)
(* division of the code meets a value it is not defined for.               *)
THEOREM TypeCorrect == Spec => []TypeOK
<1>1. Init => IInv
  BY InitIInv
<1>2. IInv /\ [Next]_vars => IInv'
  BY NextIInv
<1>3. IInv => TypeOK
  BY DEF IInv
<1> QED BY <1>1, <1>2, <1>3, PTL DEF Spec

(* The map on the exponents, reduced modulo p - 1, follows the map on the  *)
(* works, for every prime of the form 2q + 1, every key and every hash.    *)
THEOREM WorkFollowsSolution == Spec => []WorkIsOfSolution
<1>1. Init => IInv
  BY InitIInv
<1>2. IInv /\ [Next]_vars => IInv'
  BY NextIInv
<1>3. IInv => WorkIsOfSolution
  BY DEF IInv
<1> QED BY <1>1, <1>2, <1>3, PTL DEF Spec

LEMMA VerifiedVerifies ==
    ASSUME IInv, result # NoResult
    PROVE  /\ result[1] = s1 /\ result[2] = s2
           /\ Verify(Solution(result[1]), Solution(result[2]), result[1].nonce)
<1>1. result = <<s1, s2>> /\ Verified(s1, s2)
  BY DEF IInv, ReturnsReported
<1>2. s1.work = Derive(s1.a, s1.b) /\ s2.work = Derive(s2.a, s2.b)
  BY DEF IInv, WorkIsOfSolution
<1>3. result[1] = s1 /\ result[2] = s2
  BY <1>1
<1>4. /\ Solution(s1)[1] = s1.a /\ Solution(s1)[2] = s1.b
      /\ Solution(s2)[1] = s2.a /\ Solution(s2)[2] = s2.b
  BY DEF Solution
<1>5. /\ s1.work = s2.work /\ Solution(s1) # Solution(s2)
      /\ s1.work = FuncF(HashInteger(s1.nonce), s1.nonce)
      /\ Distinguished(s1.nonce, s1.work)
  BY <1>1 DEF Verified, Collide
<1> QED BY <1>2, <1>3, <1>4, <1>5 DEF Verify

LEMMA InvariantVerifies == IInv => ResultVerifies
BY VerifiedVerifies DEF ResultVerifies

(* Whatever the walks did, a pair that solve or solve_dist returns passes  *)
(* SolutionVerifier::verify with the nonce it leaves in the header.        *)
THEOREM ResultPassesVerify == Spec => []ResultVerifies
<1>1. Init => IInv
  BY InitIInv
<1>2. IInv /\ [Next]_vars => IInv'
  BY NextIInv
<1>3. IInv => ResultVerifies
  BY InvariantVerifies
<1> QED BY <1>1, <1>2, <1>3, PTL DEF Spec

(* solve_dist goes through its loops at most two grains of times and once  *)
(* more after block import raised the flag, however long they are; an      *)
(* iteration is three transits in the first loop and two in the second.    *)
THEOREM LeavesAfterTwoGrains == Spec => []LeavesSoon
<1>1. Init => IInv
  BY InitIInv
<1>2. IInv /\ [Next]_vars => IInv'
  BY NextIInv
<1>3. IInv => LeavesSoon
  BY DEF IInv, Pace, LeavesSoon
<1> QED BY <1>1, <1>2, <1>3, PTL DEF Spec

-----------------------------------------------------------------------------
(* From outside a step of the search is a step of Search or none.          *)

LEMMA StageIs ==
    ASSUME IInv
    PROVE  Stage = IF ~dist THEN "idle"
                   ELSE IF phase # "done" THEN "running"
                   ELSE IF result = NoResult THEN "idle" ELSE "found"
BY VerifiedVerifies DEF Stage

LEMMA StageNext ==
    ASSUME IInv, [Next]_vars, IInv'
    PROVE  Stage' = IF ~dist THEN "idle"
                    ELSE IF phase' # "done" THEN "running"
                    ELSE IF result' = NoResult THEN "idle" ELSE "found"
<1>1. dist' = dist
  BY DEF Next, Solver, Search, Roll, Report, Signal, puzzle, vars
<1>2. result' # NoResult =>
        Verify(Solution(result[1]), Solution(result[2]), result[1].nonce)'
  <2>1. ResultVerifies'
    BY InvariantVerifies, PTL
  <2> QED BY <2>1 DEF ResultVerifies
<1> QED BY <1>1, <1>2, Zenon DEF Stage

LEMMA StepMaps ==
    ASSUME IInv, [Next]_vars, IInv'
    PROVE  [Outside!SearchNext]_(Outside!searchVars)
<1>1. /\ dist' = dist /\ dist \in BOOLEAN /\ flag \in BOOLEAN
  BY DEF Next, Solver, Search, Roll, Report, Signal, puzzle, vars, IInv, TypeOK
<1>2. CASE ~dist
  <2>1. Stage' = Stage /\ (dist /\ flag)' = (dist /\ flag)
    BY <1>1, <1>2, StageIs, StageNext
  <2> QED BY <2>1 DEF Outside!searchVars
<1>3. CASE dist /\ UNCHANGED <<flag, phase, result>>
  <2>1. Stage' = Stage /\ (dist /\ flag)' = (dist /\ flag)
    BY <1>1, <1>3, StageIs, StageNext
  <2> QED BY <2>1 DEF Outside!searchVars
<1>4. CASE dist /\ (Search \/ Roll)
  <2>1. UNCHANGED flag /\ phase # "done"
    BY <1>4 DEF Search, Roll
  <2>2. result = NoResult
    BY <2>1, NothingYet
  <2>3. \/ phase' = "done" /\ result' = NoResult
        \/ phase' # "done"
    BY <1>4, <2>1 DEF Search, Roll, Return, StartRoll, Count
  <2>4. Stage = "running" /\ (Stage' = "idle" \/ Stage' = "running")
    BY <1>4, <2>1, <2>3, StageIs, StageNext
  <2>5. (dist /\ flag)' = (dist /\ flag)
    BY <1>1, <2>1
  <2>6. CASE Stage' = "idle"
    BY <2>4, <2>5, <2>6 DEF Outside!SearchNext, Outside!GiveUp, Outside!Goes
  <2>7. CASE Stage' = "running"
    BY <2>4, <2>5, <2>7 DEF Outside!searchVars
  <2> QED BY <2>4, <2>6, <2>7
<1>5. CASE dist /\ Report
  <2>1. phase = "report" /\ phase' = "done" /\ result' = <<s1, s2>> /\ flag' = TRUE
    BY <1>5 DEF Report, Return
  <2>2. result' # NoResult
    BY <2>1 DEF NoResult
  <2>3. Stage = "running" /\ Stage' = "found"
    BY <1>5, <2>1, <2>2, StageIs, StageNext
  <2>4. (dist /\ flag)' = TRUE
    BY <1>1, <1>5, <2>1
  <2> QED BY <2>3, <2>4 DEF Outside!SearchNext, Outside!Find, Outside!Goes
<1>6. CASE dist /\ Signal
  <2>1. flag' = TRUE /\ UNCHANGED <<phase, result>>
    BY <1>6 DEF Signal
  <2>2. Stage' = Stage
    BY <1>6, <2>1, StageIs, StageNext
  <2>3. (dist /\ flag)' = TRUE
    BY <1>1, <1>6, <2>1
  <2> QED BY <2>2, <2>3 DEF Outside!SearchNext, Outside!Raise, Outside!Goes
<1>7. UNCHANGED vars => UNCHANGED <<flag, phase, result>>
  BY DEF vars
<1> QED BY <1>1, <1>2, <1>3, <1>4, <1>5, <1>6, <1>7 DEF Next, Solver

(* A call of solve_dist is a search as the miner relies on it: it ends     *)
(* with a seal that verifies and the flag up, or with nothing, and never   *)
(* lowers the flag.  That it ends is left to the model checker.            *)
THEOREM CallIsSearch == Spec => Outside!SearchSpec
<1>1. Init => Outside!SearchInit
  BY DEF Init, Stage, Outside!SearchInit
<1>2. Init => IInv
  BY InitIInv
<1>3. IInv /\ [Next]_vars => IInv'
  BY NextIInv
<1>4. IInv /\ [Next]_vars /\ IInv' => [Outside!SearchNext]_(Outside!searchVars)
  BY StepMaps
<1> QED BY <1>1, <1>2, <1>3, <1>4, PTL DEF Spec, Outside!SearchSpec

-----------------------------------------------------------------------------
(***************************************************************************)
(* The key.  From g^a1 h^b1 = g^a2 h^b2 the equation modulo n gives x for  *)
(* every base of order n: for g^2, and for g itself where g^n is 1.  Where *)
(* it is not, g^n is -1, and h, whose square is known, is g^key or its     *)
(* negative, g^(key + n).                                                  *)
(***************************************************************************)

LEMMA PowerCongruent ==
    ASSUME NEW t \in Nat, PowMod(t, N) = 1, NEW e \in Nat, NEW f \in Nat,
           NEW k \in Int, e = f + (N * k)
    PROVE  PowMod(t, e) = PowMod(t, f)
<1>1. N \in Nat \ {0} /\ e \in Int /\ f \in Int
  BY Moduli
<1>2. e % N = f % N
  BY <1>1, ModShift
<1>3. PowMod(t, e % N) = PowMod(t, e) /\ PowMod(t, f % N) = PowMod(t, f)
  BY <1>1, PowerReduced
<1> QED BY <1>2, <1>3, Zenon

LEMMA SameRemainder ==
    ASSUME NEW b1 \in Nat, NEW b2 \in Nat
    PROVE  (b1 - b2) % N = 0 <=> b1 % N = b2 % N
<1>1. N \in Nat \ {0} /\ b1 \in Int /\ b2 \in Int /\ b1 - b2 \in Int
  BY Moduli
<1>2. PICK j \in Int, r \in 0..N-1 : b1 - b2 = (N * j) + r /\ r = (b1 - b2) % N
  BY <1>1, DivMod, Zenon
<1>3. ASSUME (b1 - b2) % N = 0 PROVE b1 % N = b2 % N
  <2>1. r = 0
    BY <1>2, <1>3, Zenon
  <2>2. b1 - b2 = (N * j) + r
    BY <1>2
  <2>3. N * j \in Int
    BY <1>1
  <2>4. b1 = b2 + (N * j)
    BY <1>1, <2>1, <2>2, <2>3
  <2> QED BY <1>1, <2>4, ModShift
<1>4. ASSUME b1 % N = b2 % N PROVE (b1 - b2) % N = 0
  <2>1. PICK k1 \in Int, r1 \in 0..N-1 : b1 = (N * k1) + r1 /\ r1 = b1 % N
    BY <1>1, DivMod, Zenon
  <2>2. PICK k2 \in Int, r2 \in 0..N-1 : b2 = (N * k2) + r2 /\ r2 = b2 % N
    BY <1>1, DivMod, Zenon
  <2>3. r1 = r2
    BY <1>4, <2>1, <2>2, Zenon
  <2>4. b1 = (N * k1) + r1 /\ b2 = (N * k2) + r2
    BY <2>1, <2>2
  <2>5. N * (k1 - k2) = (N * k1) - (N * k2) /\ N * k1 \in Int /\ N * k2 \in Int
    BY <1>1, Distributes
  <2>6. b1 - b2 = (N * (k1 - k2)) + 0 /\ k1 - k2 \in Int /\ 0 \in 0..N-1
    BY <1>1, <2>3, <2>4, <2>5
  <2> QED BY <1>1, <2>6, RemainderUnique
<1> QED BY <1>3, <1>4

(* The equation, solved for a base whose n-th power is 1.                  *)
LEMMA EquationSolved ==
    ASSUME NEW t \in Residues, PowMod(t, N) = 1, x \in Nat,
           NEW a1 \in Nat, NEW b1 \in Nat, NEW a2 \in Nat, NEW b2 \in Nat,
           Mul(PowMod(t, a1), PowMod(PowMod(t, x), b1))
             = Mul(PowMod(t, a2), PowMod(PowMod(t, x), b2)),
           NEW v \in 0..N-1, (((b1 - b2) % N) * v) % N = 1
    PROVE  LET key == (v * (a2 - a1)) % N IN
           key \in 0..N-1 /\ PowMod(t, x) = PowMod(t, key)
<1> DEFINE key == (v * (a2 - a1)) % N
<1>1. /\ N \in Nat \ {0} /\ v \in Nat /\ t \in Nat /\ b1 - b2 \in Int
      /\ v * (a2 - a1) \in Int
  BY Moduli DEF Residues
<1>2. PICK j \in Int, r \in 0..N-1 : b1 - b2 = (N * j) + r /\ r = (b1 - b2) % N
  BY <1>1, DivMod, Zenon
<1>3. (r * v) % N = 1
  BY <1>2, Zenon
<1>4. PICK l \in Int, s \in 0..N-1 : r * v = (N * l) + s /\ s = (r * v) % N
  <2>1. r * v \in Int
    BY <1>1
  <2> QED BY <1>1, <2>1, DivMod, Zenon
<1>5. PICK q \in Int, d \in 0..N-1 :
        v * (a2 - a1) = (N * q) + d /\ d = (v * (a2 - a1)) % N
  BY <1>1, DivMod, Zenon
<1>6. b1 - b2 = (N * j) + r
  BY <1>2
<1>7. r * v = (N * l) + 1
  <2>1. s = 1
    BY <1>3, <1>4, Zenon
  <2> QED BY <1>4, <2>1, Zenon
<1>8. v * (a2 - a1) = (N * q) + d
  BY <1>5
<1>9. d = key
  BY <1>5
<1> HIDE DEF key
<1> DEFINE e1 == (a1 + (x * b1)) * v
           e2 == (a2 + (x * b2)) * v
           c == (v * a1) + ((v * b2) * x)
<1>10. PowMod(t, e1) = PowMod(t, e2)
  <2>1. ASSUME NEW a \in Nat, NEW b \in Nat
        PROVE  Mul(PowMod(t, a), PowMod(PowMod(t, x), b)) = PowMod(t, a + (x * b))
               /\ PowMod(t, (a + (x * b)) * v) = PowMod(PowMod(t, a + (x * b)), v)
    <3>1. x * b \in Nat /\ a + (x * b) \in Nat
      OBVIOUS
    <3>2. PowMod(PowMod(t, x), b) = PowMod(t, x * b)
      BY <1>1, PowerProduct
    <3>3. PowMod(t, a + (x * b)) = Mul(PowMod(t, a), PowMod(t, x * b))
      BY <1>1, <3>1, PowerSum
    <3>4. PowMod(t, (a + (x * b)) * v) = PowMod(PowMod(t, a + (x * b)), v)
      BY <1>1, <3>1, PowerProduct
    <3> QED BY <3>2, <3>3, <3>4, Zenon
  <2>2. /\ Mul(PowMod(t, a1), PowMod(PowMod(t, x), b1)) = PowMod(t, a1 + (x * b1))
        /\ PowMod(t, e1) = PowMod(PowMod(t, a1 + (x * b1)), v)
    BY <2>1
  <2>3. /\ Mul(PowMod(t, a2), PowMod(PowMod(t, x), b2)) = PowMod(t, a2 + (x * b2))
        /\ PowMod(t, e2) = PowMod(PowMod(t, a2 + (x * b2)), v)
    BY <2>1
  <2> HIDE DEF e1, e2
  <2> QED BY <2>2, <2>3, Zenon
<1>11. e1 \in Nat /\ e2 \in Nat /\ c \in Nat /\ c + x \in Nat /\ d \in Nat /\ c + d \in Nat
  BY <1>1
<1>12. e1 = (c + x) + (N * ((l + (j * v)) * x))
  <2>1. v * (b1 - b2) = ((N * j) * v) + (r * v)
    BY <1>1, <1>6
  <2>2. v * (b1 - b2) = ((N * j) * v) + ((N * l) + 1)
    BY <1>7, <2>1
  <2>3. e1 = c + ((v * (b1 - b2)) * x)
    BY <1>1
  <2>4. (((N * j) * v) + ((N * l) + 1)) * x = x + (N * ((l + (j * v)) * x))
    BY <1>1
  <2>5. N * ((l + (j * v)) * x) \in Int
    BY <1>1
  <2> HIDE DEF e1, c
  <2> QED BY <1>11, <2>2, <2>3, <2>4, <2>5
<1>13. e2 = (c + d) + (N * q)
  <2>1. e2 = c + (v * (a2 - a1))
    BY <1>1
  <2>2. N * q \in Int
    BY <1>1
  <2> HIDE DEF e2, c
  <2> QED BY <1>8, <1>11, <2>1, <2>2
<1> HIDE DEF e1, e2, c
<1>14. PowMod(t, e1) = PowMod(t, c + x)
  <2>1. (l + (j * v)) * x \in Int
    BY <1>1
  <2> QED BY <1>1, <1>11, <1>12, <2>1, PowerCongruent
<1>15. PowMod(t, e2) = PowMod(t, c + d)
  <2>1. t \in Nat /\ q \in Int /\ e2 \in Nat /\ c + d \in Nat
    BY <1>1, <1>11
  <2> QED BY <1>13, <2>1, PowerCongruent
<1>16. /\ PowMod(t, c + x) = Mul(PowMod(t, c), PowMod(t, x))
       /\ PowMod(t, c + d) = Mul(PowMod(t, c), PowMod(t, d))
  <2>1. t \in Nat /\ c \in Nat /\ d \in Nat
    BY <1>1, <1>11
  <2>2. PowMod(t, c + x) = Mul(PowMod(t, c), PowMod(t, x))
    BY <2>1, PowerSum
  <2>3. PowMod(t, c + d) = Mul(PowMod(t, c), PowMod(t, d))
    BY <2>1, PowerSum
  <2> QED BY <2>2, <2>3
<1>17. /\ PowMod(t, c) \in Residues
       /\ PowMod(t, x) \in 0..P-1 /\ PowMod(t, d) \in 0..P-1
  BY <1>1, <1>11, PowerResidue, PowerType
<1>18. PowMod(t, x) = PowMod(t, d)
  <2>1. Mul(PowMod(t, c), PowMod(t, x)) = Mul(PowMod(t, c), PowMod(t, d))
    BY <1>10, <1>14, <1>15, <1>16, Zenon
  <2> QED BY <1>17, <2>1, Cancel
<1> QED BY <1>9, <1>18 DEF key

(* 1 has two square roots modulo p.                                        *)
LEMMA RootsOfOne ==
    ASSUME NEW c \in Residues, Mul(c, c) = 1
    PROVE  c = 1 \/ c = P - 1
<1> SUFFICES ASSUME c # 1, c # P - 1 PROVE FALSE
  OBVIOUS
<1>1. P \in Nat \ {0} /\ c \in Nat /\ c * c \in Int
  BY Moduli DEF Residues
<1>2. c - 1 \in Residues /\ c + 1 \in Residues
  BY Moduli DEF Residues
<1>3. PICK k \in Int, r \in 0..P-1 : c * c = (P * k) + r /\ r = (c * c) % P
  BY <1>1, DivMod, Zenon
<1>4. r = 1
  BY <1>3, Zenon DEF Mul
<1>5. c * c = (P * k) + r
  BY <1>3
<1>6. (c - 1) * (c + 1) = (c * c) - 1
  BY <1>1
<1>7. P * k \in Int /\ (c - 1) * (c + 1) \in Int
  BY <1>1
<1>8. (c - 1) * (c + 1) = (P * k) + 0 /\ 0 \in 0..P-1
  BY <1>1, <1>4, <1>5, <1>6, <1>7
<1>9. ((c - 1) * (c + 1)) % P = 0
  BY <1>1, <1>7, <1>8, RemainderUnique
<1>10. Mul(c - 1, c + 1) = 0
  BY <1>9, Zenon DEF Mul
<1>11. Mul(c - 1, c + 1) \in Residues
  BY <1>2, MulResidue
<1> QED BY <1>10, <1>11 DEF Residues

LEMMA TwoRoots ==
    ASSUME NEW a \in Residues, NEW b \in Residues, Mul(a, a) = Mul(b, b)
    PROVE  a = b \/ a = Mul(P - 1, b)
<1>1. PICK v \in 0..P-1 : Mul(v, b) = 1
  BY ResidueInverse
<1>2. /\ a \in Nat /\ b \in Nat /\ v \in Nat /\ a \in 0..P-1 /\ b \in 0..P-1
  BY Moduli DEF Residues
<1> DEFINE c == Mul(a, v)
<1>3. c \in Nat /\ c \in 0..P-1
  BY <1>2, MulType
<1>4. Mul(c, c) = Mul(Mul(a, a), Mul(v, v))
  BY <1>2, MulExchange
<1>5. Mul(Mul(b, b), Mul(v, v)) = Mul(Mul(b, v), Mul(b, v))
  BY <1>2, MulExchange
<1>6. Mul(b, v) = 1
  BY <1>1, <1>2, MulCommutes
<1>7. Mul(1, 1) = 1
  BY MulOne, Moduli
<1>8. Mul(c, c) = 1
  BY <1>4, <1>5, <1>6, <1>7
<1>9. Mul(c, b) = a
  <2>1. Mul(c, b) = Mul(a, Mul(v, b))
    BY <1>2, MulAssociates
  <2> QED BY <1>1, <1>2, <2>1, MulOne
<1> HIDE DEF c
<1>10. c # 0
  <2>1. 0 * 0 = 0 /\ P \in Nat \ {0} /\ 0 \in 0..P-1
    BY Moduli
  <2>2. 0 % P = 0
    BY <2>1, ModSmall
  <2>3. Mul(0, 0) = 0
    BY <2>1, <2>2, Zenon DEF Mul
  <2> QED BY <1>8, <2>3
<1>11. c \in Residues
  BY <1>3, <1>10, Moduli DEF Residues
<1>12. c = 1 \/ c = P - 1
  BY <1>8, <1>11, RootsOfOne
<1> QED BY <1>2, <1>9, <1>12, MulOne

LEMMA KeyOpens ==
    ASSUME x \in Keys, NEW a1 \in Nat, NEW b1 \in Nat, NEW a2 \in Nat, NEW b2 \in Nat,
           Derive(a1, b1) = Derive(a2, b2),
           NEW v \in 0..N-1, (((b1 - b2) % N) * v) % N = 1
    PROVE  LET key == (v * (a2 - a1)) % N IN
           /\ key \in 0..N-1
           /\ H = PowMod(G, key) \/ H = PowMod(G, key + N)
<1> DEFINE key == (v * (a2 - a1)) % N
           half == PowMod(G, N)
           s == Mul(G, G)
<1>1. /\ G \in Residues /\ G \in Nat /\ N \in Nat /\ N \in Nat \ {0} /\ N + N = P - 1
      /\ 1 \in 0..P-1
  BY Moduli DEF Residues
<1>2. H \in Residues /\ H \in Nat /\ x \in Nat /\ H = PowMod(G, x)
  BY KeyIsResidue DEF H
<1>3. /\ Derive(a1, b1) = Mul(PowMod(G, a1), PowMod(H, b1))
      /\ Derive(a2, b2) = Mul(PowMod(G, a2), PowMod(H, b2))
  BY DeriveResidue
<1>4. half \in Residues /\ Mul(half, half) = 1
  <2>1. PowMod(G, N + N) = Mul(half, half)
    BY <1>1, PowerSum
  <2>2. PowMod(G, P - 1) = 1
    BY <1>1, Fermat
  <2>3. half \in Residues
    BY <1>1, PowerResidue
  <2> QED BY <1>1, <2>1, <2>2, <2>3
<1>5. half = 1 \/ half = P - 1
  BY <1>4, RootsOfOne
<1>6. CASE half = 1
  <2>1. /\ PowMod(G, N) = 1
        /\ Mul(PowMod(G, a1), PowMod(PowMod(G, x), b1))
             = Mul(PowMod(G, a2), PowMod(PowMod(G, x), b2))
    BY <1>2, <1>3, <1>6
  <2>2. key \in 0..N-1 /\ PowMod(G, x) = PowMod(G, key)
    BY <1>1, <1>2, <2>1, EquationSolved
  <2> QED BY <1>2, <2>2
<1>7. CASE half = P - 1
  <2>1. s \in Residues /\ s \in Nat
    BY <1>1, MulResidue, MulType
  <2>2. ASSUME NEW e \in Nat PROVE PowMod(s, e) = Mul(PowMod(G, e), PowMod(G, e))
    BY <1>1, PowerOfProduct
  <2>3. PowMod(s, N) = 1
    BY <1>1, <1>4, <2>2
  <2>4. PowMod(s, x) = Mul(H, H)
    BY <1>2, <2>2
  <2>5. ASSUME NEW a \in Nat, NEW b \in Nat
        PROVE  Mul(PowMod(s, a), PowMod(PowMod(s, x), b)) = Mul(Derive(a, b), Derive(a, b))
    <3>1. PowMod(PowMod(s, x), b) = Mul(PowMod(H, b), PowMod(H, b))
      BY <1>2, <2>4, PowerOfProduct
    <3>2. PowMod(s, a) = Mul(PowMod(G, a), PowMod(G, a))
      BY <2>2
    <3>3. PowMod(G, a) \in Nat /\ PowMod(H, b) \in Nat
      BY <1>1, <1>2, PowerType
    <3>4. Mul(Mul(PowMod(G, a), PowMod(G, a)), Mul(PowMod(H, b), PowMod(H, b)))
            = Mul(Mul(PowMod(G, a), PowMod(H, b)), Mul(PowMod(G, a), PowMod(H, b)))
      BY <3>3, MulExchange
    <3>5. Derive(a, b) = Mul(PowMod(G, a), PowMod(H, b))
      BY DeriveResidue
    <3> HIDE DEF s
    <3> QED BY <3>1, <3>2, <3>4, <3>5, Zenon
  <2>6. Mul(PowMod(s, a1), PowMod(PowMod(s, x), b1))
          = Mul(PowMod(s, a2), PowMod(PowMod(s, x), b2))
    <3> HIDE DEF s
    <3> QED BY <2>5, Zenon
  <2>7. key \in 0..N-1 /\ PowMod(s, x) = PowMod(s, key)
    <3> HIDE DEF s
    <3> QED BY <1>2, <2>1, <2>3, <2>6, EquationSolved
  <2> HIDE DEF key, s, half
  <2>8. key \in Nat
    BY <1>1, <2>7
  <2>9. PowMod(G, key) \in Residues /\ PowMod(G, key) \in Nat
    BY <1>1, <2>8, PowerResidue, PowerType
  <2>10. Mul(H, H) = Mul(PowMod(G, key), PowMod(G, key))
    BY <2>2, <2>4, <2>7, <2>8
  <2>11. H = PowMod(G, key) \/ H = Mul(P - 1, PowMod(G, key))
    BY <1>2, <2>9, <2>10, TwoRoots
  <2>12. Mul(half, PowMod(G, key)) = PowMod(G, key + N)
    <3>1. PowMod(G, key + N) = Mul(PowMod(G, key), half)
      BY <1>1, <2>8, PowerSum DEF half
    <3>2. half \in Nat
      BY <1>4, Moduli DEF Residues
    <3> QED BY <2>9, <3>1, <3>2, MulCommutes
  <2> QED BY <1>7, <2>7, <2>11, <2>12 DEF key
<1> QED BY <1>5, <1>6, <1>7

LEMMA ResultOpens == IInv => ResultOpensKey
<1> SUFFICES ASSUME IInv, result # NoResult
             PROVE  LET key == KeyGen(Solution(s1), Solution(s2)) IN
                    IF s1.b % N = s2.b % N THEN key = NoKey
                                           ELSE PowMod(G, key) = H
  BY VerifiedVerifies DEF ResultOpensKey
<1>1. /\ x \in Keys /\ s1 \in State /\ s2 \in State
  BY DEF IInv, TypeOK
<1>2. s1.a \in Nat /\ s1.b \in Nat /\ s2.a \in Nat /\ s2.b \in Nat
  BY <1>1, Moduli DEF State
<1>3. Derive(s1.a, s1.b) = Derive(s2.a, s2.b)
  BY DEF IInv, WorkIsOfSolution, ReturnsReported, Verified, Collide
<1> DEFINE r == (s1.b - s2.b) % N
           eqs == EqsSolvers(Solution(s1), Solution(s2))
<1>4. /\ Solution(s1)[1] = s1.a /\ Solution(s1)[2] = s1.b
      /\ Solution(s2)[1] = s2.a /\ Solution(s2)[2] = s2.b
  BY DEF Solution
<1>5. r \in 0..N-1 /\ N \in Nat /\ IsPrime(N) /\ N >= 2
  <2>1. s1.b - s2.b \in Int /\ N \in Nat \ {0}
    BY <1>2, Moduli
  <2>2. r \in 0..N-1
    BY <2>1, DivMod, Zenon
  <2> QED BY <2>2, Moduli
<1>6. r = 0 <=> s1.b % N = s2.b % N
  BY <1>2, SameRemainder
<1>7. CASE r = 0
  <2>1. eqs = NoKey
    BY <1>4, <1>7 DEF EqsSolvers
  <2> QED BY <1>6, <1>7, <2>1 DEF KeyGen
<1>8. CASE r # 0
  <2> DEFINE v == CHOOSE w \in Inverse(r, N) : TRUE
             key == (v * (s2.a - s1.a)) % N
  <2>1. r \in 1..N-1
    BY <1>5, <1>8
  <2>2. \E w \in 0..N-1 : (r * w) % N = 1
    <3> HIDE DEF r
    <3> QED BY <1>5, <2>1, InverseExists
  <2>3. Inverse(r, N) # {}
    BY <2>2, Zenon DEF Inverse
  <2>4. v \in Inverse(r, N)
    BY <2>3
  <2>5. v \in 0..N-1 /\ (r * v) % N = 1
    <3> HIDE DEF v, r
    <3> QED BY <2>4, Zenon DEF Inverse
  <2>6. eqs = key
    BY <1>4, <1>8, <2>3, Zenon DEF EqsSolvers
  <2> HIDE DEF v
  <2>7. key \in 0..N-1 /\ (H = PowMod(G, key) \/ H = PowMod(G, key + N))
    BY <1>1, <1>2, <1>3, <2>5, KeyOpens
  <2>8. key # NoKey
    BY <1>5, <2>7 DEF NoKey
  <2> HIDE DEF key, eqs
  <2>9. KeyGen(Solution(s1), Solution(s2)) =
          IF eqs # NoKey /\ PowMod(G, eqs) # H THEN eqs + N ELSE eqs
    BY DEF KeyGen, eqs
  <2>10. PowMod(G, KeyGen(Solution(s1), Solution(s2))) = H
    <3>1. CASE PowMod(G, key) = H
      BY <2>6, <2>9, <3>1, Zenon
    <3>2. CASE PowMod(G, key) # H
      BY <2>6, <2>7, <2>8, <2>9, <3>2, Zenon
    <3> QED BY <3>1, <3>2
  <2> QED BY <1>6, <1>8, <2>10
<1> QED BY <1>7, <1>8

(* A returned pair gives the private key away through eqs_solvers and      *)
(* key_gen, for every key, generator, prime and hash, unless its b's agree *)
(* modulo n.                                                               *)
THEOREM ResultGivesKey == Spec => []ResultOpensKey
<1>1. Init => IInv
  BY InitIInv
<1>2. IInv /\ [Next]_vars => IInv'
  BY NextIInv
<1> QED BY <1>1, <1>2, ResultOpens, PTL DEF Spec
=============================================================================
