------------------------------ MODULE Recursion ------------------------------
(***************************************************************************)
(* Induction over the natural numbers and recursive functions on them, in  *)
(* a first-order form: a predicate is the set of the numbers that satisfy  *)
(* it, a step is a function.  The proofs about loops over sequences,       *)
(* numbers of many digits and texts put together piece by piece rest on    *)
(* it.  Behind it, division, powers, and with them Fermat's little theorem *)
(* for the inverse in a prime field.                                       *)
(***************************************************************************)
EXTENDS Integers, Bits, SequencesExt, FiniteSetTheorems, SequenceTheorems,
        WellFoundedInduction, TLAPS

(* The order of the naturals, as a relation.                               *)
Below == {pair \in Nat \X Nat : pair[1] < pair[2]}

(* A set of naturals that is not empty has a least element.                *)
LEMMA LeastElement ==
    ASSUME NEW T \in SUBSET Nat, T # {}
    PROVE  \E x \in T : \A y \in T : x <= y
<1>1. IsWellFoundedOn(Below, Nat)
  BY NatLessThanWellFounded DEF OpToRel, Below
<1>2. \A x, y \in Nat : y < x => <<y, x>> \in Below
  BY DEF Below
<1>3. PICK x \in T : \A y \in T : <<y, x>> \notin Below
  BY <1>1, WFMin
<1>4. ASSUME NEW y \in T PROVE x <= y
  <2>1. x \in Nat /\ y \in Nat
    OBVIOUS
  <2>2. ~(y < x)
    BY <1>2, <1>3, <2>1
  <2> QED
    BY <2>1, <2>2
<1> QED
  BY <1>4

(* Induction up to a number.                                               *)
LEMMA InductionUpTo ==
    ASSUME NEW N \in Nat, NEW T, 0 \in T,
           \A n \in 0..N : n < N /\ n \in T => n + 1 \in T
    PROVE  \A n \in 0..N : n \in T
<1> DEFINE out == {n \in 0..N : n \notin T}
<1>1. SUFFICES ASSUME out # {} PROVE FALSE
  OBVIOUS
<1>2. PICK x \in out : \A y \in out : x <= y
  <2>1. out \in SUBSET Nat
    OBVIOUS
  <2> HIDE DEF out
  <2> QED
    BY <1>1, <2>1, LeastElement
<1>3. x \in 1..N /\ x - 1 \in 0..N /\ x - 1 < N /\ (x - 1) + 1 = x /\ ~(x <= x - 1)
  BY <1>2
<1>4. x - 1 \in T
  BY <1>2, <1>3
<1> QED
  BY <1>2, <1>3, <1>4

(* Induction over all of them.                                             *)
LEMMA Induction ==
    ASSUME NEW T, 0 \in T, \A n \in Nat : n \in T => n + 1 \in T
    PROVE  \A n \in Nat : n \in T
<1> SUFFICES ASSUME NEW n \in Nat PROVE n \in T
  OBVIOUS
<1>1. \A m \in 0..n : m < n /\ m \in T => m + 1 \in T
  OBVIOUS
<1>2. \A m \in 0..n : m \in T
  BY <1>1, InductionUpTo
<1> QED
  BY <1>2

(* The results of N steps, one after the other.                            *)
Runs(f, N, S, base, step) ==
    /\ f \in [0..N -> S]
    /\ f[0] = base
    /\ \A n \in 1..N : f[n] = step[n][f[n - 1]]

(* A recursion with one step per number has a solution.                    *)
LEMMA RecursionUpTo ==
    ASSUME NEW N \in Nat, NEW S, NEW base \in S, NEW step \in [1..N -> [S -> S]]
    PROVE  \E f : Runs(f, N, S, base, step)
<1> DEFINE Solves(m, f) == f[0] = base /\ \A n \in 1..m : f[n] = step[n][f[n - 1]]
           T == {m \in 0..N : \E f \in [0..m -> S] : Solves(m, f)}
<1>1. 0 \in T
  <2> DEFINE g == [n \in 0..0 |-> base]
  <2>1. g \in [0..0 -> S] /\ g[0] = base /\ 1..0 = {} /\ 0 \in 0..N
    OBVIOUS
  <2> HIDE DEF g
  <2>2. Solves(0, g)
    BY <2>1
  <2> QED
    BY <2>1, <2>2
<1>2. ASSUME NEW m \in 0..N, m < N, m \in T PROVE m + 1 \in T
  <2>1. PICK f \in [0..m -> S] : Solves(m, f)
    BY <1>2
  <2> DEFINE g == [n \in 0..(m + 1) |-> IF n <= m THEN f[n] ELSE step[m + 1][f[m]]]
  <2>2. m \in 0..m /\ m + 1 \in 1..N /\ m + 1 \in 0..N /\ 0 \in 0..m /\ 0 \in 0..(m + 1) /\ 0 <= m
    BY <1>2
  <2>3. step[m + 1][f[m]] \in S
    BY <2>2
  <2>4. g \in [0..(m + 1) -> S]
    BY <1>2, <2>3
  <2>5. g[0] = base
    BY <2>1, <2>2
  <2>6. ASSUME NEW n \in 1..(m + 1) PROVE g[n] = step[n][g[n - 1]]
    <3>1. n - 1 \in 0..m /\ n - 1 \in 0..(m + 1) /\ n - 1 <= m /\ n \in 0..(m + 1)
      BY <1>2
    <3>2. g[n - 1] = f[n - 1]
      BY <3>1
    <3>3. CASE n <= m
      <4>1. n \in 1..m /\ g[n] = f[n]
        BY <1>2, <3>1, <3>3
      <4> QED
        BY <2>1, <3>2, <4>1
    <3>4. CASE ~(n <= m)
      <4>1. n = m + 1 /\ n - 1 = m
        BY <1>2, <3>4
      <4> QED
        BY <3>1, <3>2, <3>4, <4>1
    <3> QED
      BY <3>3, <3>4
  <2> HIDE DEF g
  <2>7. Solves(m + 1, g)
    BY <2>5, <2>6
  <2> QED
    BY <2>2, <2>4, <2>7
<1> HIDE DEF T
<1>3. N \in T
  <2>1. \A n \in 0..N : n \in T
    BY <1>1, <1>2, InductionUpTo
  <2> QED
    BY <2>1
<1>4. PICK f \in [0..N -> S] : Solves(N, f)
  BY <1>3 DEF T
<1> QED
  BY <1>4 DEF Runs

(* And only one.                                                           *)
LEMMA RecursionOnly ==
    ASSUME NEW N \in Nat, NEW S, NEW base \in S, NEW step \in [1..N -> [S -> S]],
           NEW g, g = [n \in 0..N |-> g[n]], g[0] = base,
           \A n \in 1..N : g[n - 1] \in S => g[n] = step[n][g[n - 1]]
    PROVE  Runs(g, N, S, base, step)
<1> DEFINE T == {n \in 0..N : g[n] \in S}
<1>1. 0 \in T
  OBVIOUS
<1>2. ASSUME NEW n \in 0..N, n < N, n \in T PROVE n + 1 \in T
  <2>1. n + 1 \in 1..N /\ n + 1 \in 0..N /\ (n + 1) - 1 = n
    BY <1>2
  <2>2. g[n + 1] = step[n + 1][g[n]] /\ g[n] \in S
    BY <1>2, <2>1
  <2>3. step[n + 1][g[n]] \in S
    BY <2>1, <2>2
  <2> QED
    BY <2>1, <2>2, <2>3
<1> HIDE DEF T
<1>3. \A n \in 0..N : n \in T
  BY <1>1, <1>2, InductionUpTo
<1>4. \A n \in 0..N : g[n] \in S
  BY <1>3 DEF T
<1>5. \A n \in 1..N : n - 1 \in 0..N
  OBVIOUS
<1> QED
  BY <1>4, <1>5 DEF Runs

-----------------------------------------------------------------------------
(* A product with a natural number grows with its other factor.            *)
LEMMA Bigger ==
    ASSUME NEW b \in Nat, NEW x \in Int, NEW y \in Int, x <= y
    PROVE  b * x <= b * y
OBVIOUS

(* What the quotient and the rest of a division are.                       *)
LEMMA Division ==
    ASSUME NEW a \in Int, NEW b \in Nat, b > 0
    PROVE  a \div b \in Int /\ a % b \in 0..(b - 1) /\ a = b * (a \div b) + (a % b)
OBVIOUS

(* Nothing else is.                                                        *)
LEMMA Quotient ==
    ASSUME NEW b \in Nat, b > 0, NEW q \in Int, NEW rest \in 0..(b - 1)
    PROVE  (b * q + rest) \div b = q /\ (b * q + rest) % b = rest
<1> DEFINE a == b * q + rest
           p == a \div b
           s == a % b
<1>1. a \in Int /\ p \in Int /\ s \in 0..(b - 1) /\ a = b * p + s
  BY Division
<1>2. b * q + rest = b * p + s
  BY <1>1
<1> HIDE DEF a, p, s
<1>3. ~(q < p)
  <2> SUFFICES ASSUME q + 1 <= p PROVE FALSE
    BY <1>1
  <2>1. b * (q + 1) <= b * p
    BY <1>1, Bigger
  <2>2. b * (q + 1) = b * q + b
    OBVIOUS
  <2> QED
    BY <1>1, <1>2, <2>1, <2>2
<1>4. ~(p < q)
  <2> SUFFICES ASSUME p + 1 <= q PROVE FALSE
    BY <1>1
  <2>1. b * (p + 1) <= b * q
    BY <1>1, Bigger
  <2>2. b * (p + 1) = b * p + b
    BY <1>1
  <2> QED
    BY <1>1, <1>2, <2>1, <2>2
<1>5. p = q
  BY <1>1, <1>3, <1>4
<1>6. s = rest
  <2>1. b * p = b * q
    BY <1>5
  <2> DEFINE c == b * q
  <2>2. c \in Int /\ c + rest = c + s
    BY <1>2, <2>1
  <2> HIDE DEF c
  <2> QED
    BY <1>1, <2>2
<1> QED
  BY <1>5, <1>6 DEF a, p, s

(* A natural number's division by another.                                 *)
LEMMA Halves ==
    ASSUME NEW a \in Nat, NEW b \in Nat, b > 0
    PROVE  a \div b \in Nat
<1>1. a \div b \in Int /\ a % b \in 0..(b - 1) /\ a = b * (a \div b) + (a % b)
  BY Division
<1> DEFINE q == a \div b
<1> HIDE DEF q
<1>2. SUFFICES ASSUME q <= -1 PROVE FALSE
  BY <1>1 DEF q
<1>3. b * q <= b * (-1)
  BY <1>1, <1>2, Bigger DEF q
<1>4. b * (-1) = -b
  OBVIOUS
<1> QED
  BY <1>1, <1>3, <1>4 DEF q

(* The powers of b, none of it, once, twice, up to the K-th.               *)
Powers(b, K) ==
    LET power[k \in 0..K] == IF k = 0 THEN 1 ELSE b * power[k - 1]
    IN  power

(* Each is b times the one before.                                         *)
LEMMA PowersAre ==
    ASSUME NEW b \in Nat, NEW K \in Nat
    PROVE  /\ Powers(b, K) \in [0..K -> Nat] /\ Powers(b, K)[0] = 1
           /\ \A k \in 1..K : Powers(b, K)[k] = b * Powers(b, K)[k - 1]
<1> DEFINE step == [k \in 1..K |-> [x \in Nat |-> b * x]]
           w == Powers(b, K)
<1>1. step \in [1..K -> [Nat -> Nat]] /\ 1 \in Nat
  OBVIOUS
<1>2. \A k \in 1..K : \A x \in Nat : step[k][x] = b * x
  OBVIOUS
<1> HIDE DEF step
<1>3. PICK f : Runs(f, K, Nat, 1, step)
  BY <1>1, RecursionUpTo
<1>4. f = [k \in 0..K |-> IF k = 0 THEN 1 ELSE b * f[k - 1]]
  <2>1. \A k \in 1..K : k - 1 \in 0..K
    OBVIOUS
  <2>2. \A k \in 1..K : f[k] = b * f[k - 1]
    BY <1>2, <1>3, <2>1 DEF Runs
  <2>3. \A k \in 0..K : f[k] = IF k = 0 THEN 1 ELSE b * f[k - 1]
    BY <1>3, <2>2 DEF Runs
  <2> QED
    BY <1>3, <2>3 DEF Runs
<1>5. w = [k \in 0..K |-> IF k = 0 THEN 1 ELSE b * w[k - 1]]
  BY <1>4 DEF Powers
<1> HIDE DEF w
<1>6. \A k \in 1..K : w[k] = b * w[k - 1]
  BY <1>5
<1>7. Runs(w, K, Nat, 1, step)
  <2>1. w = [k \in 0..K |-> w[k]] /\ w[0] = 1
    BY <1>5
  <2>2. \A k \in 1..K : w[k - 1] \in Nat => w[k] = step[k][w[k - 1]]
    BY <1>2, <1>6
  <2> QED
    BY <1>1, <2>1, <2>2, RecursionOnly
<1> QED
  BY <1>6, <1>7 DEF Runs, w

(* The powers of a number grow.                                            *)
LEMMA PowersGrow ==
    ASSUME NEW b \in Nat, b > 0, NEW K \in Nat, NEW m \in 0..K, NEW n \in m..K
    PROVE  Powers(b, K)[m] <= Powers(b, K)[n]
<1> DEFINE p == Powers(b, K)
           T == {k \in 0..(K - m) : p[m] <= p[m + k]}
<1>1. p \in [0..K -> Nat] /\ \A k \in 1..K : p[k] = b * p[k - 1]
  BY PowersAre
<1> HIDE DEF p
<1>2. 0 \in T
  BY <1>1
<1>3. ASSUME NEW k \in 0..(K - m), k < K - m, k \in T PROVE k + 1 \in T
  <2> DEFINE o == m + (k + 1)
             u == m + k
             x == p[u]
  <2>1. k \in Nat /\ m \in Nat /\ k < K - m
    BY <1>3
  <2>2. o \in 1..K /\ o - 1 = u /\ u \in 0..K /\ k + 1 \in 0..(K - m) /\ m \in 0..K
    BY <2>1
  <2>3. p[o] = b * x /\ p[m] <= x
    <3> HIDE DEF o
    <3>1. p[o] = b * p[o - 1]
      BY <1>1, <2>2
    <3> QED
      BY <1>3, <2>2, <3>1
  <2>4. x \in Nat /\ p[m] \in Nat
    BY <1>1, <2>2
  <2> HIDE DEF o, x, u
  <2>5. x * 1 <= x * b
    BY <2>4, Bigger
  <2>6. x * b = b * x /\ x * 1 = x
    BY <2>4
  <2>7. b * x \in Nat
    BY <2>4
  <2>8. p[m] <= p[o]
    <3> DEFINE bx == b * x
               xb == x * b
               x1 == x * 1
    <3>1. p[m] <= x /\ x = x1 /\ x1 <= xb /\ xb = bx /\ p[o] = bx
          /\ bx \in Nat /\ xb \in Nat /\ x \in Nat
      BY <2>3, <2>4, <2>5, <2>6, <2>7
    <3> HIDE DEF bx, xb, x1
    <3> QED
      BY <2>4, <3>1
  <2> QED
    BY <2>2, <2>8 DEF o
<1> HIDE DEF T
<1>4. \A k \in 0..(K - m) : k \in T
  <2>1. K - m \in Nat
    OBVIOUS
  <2> QED
    BY <1>2, <1>3, <2>1, InductionUpTo
<1>5. n - m \in 0..(K - m) /\ m + (n - m) = n
  OBVIOUS
<1> QED
  BY <1>4, <1>5 DEF T, p

(* Powers are multiplied by adding.                                        *)
LEMMA PowersAdd ==
    ASSUME NEW b \in Nat, NEW K \in Nat, NEW m \in Nat, NEW n \in Nat, m + n <= K
    PROVE  Powers(b, K)[m + n] = Powers(b, K)[n] * Powers(b, K)[m]
<1> DEFINE p == Powers(b, K)
           T == {k \in 0..n : p[m + k] = p[k] * p[m]}
<1>1. p \in [0..K -> Nat] /\ p[0] = 1 /\ \A k \in 1..K : p[k] = b * p[k - 1]
  BY PowersAre
<1> HIDE DEF p
<1>2. 0 \in T
  BY <1>1
<1>3. ASSUME NEW k \in 0..n, k < n, k \in T PROVE k + 1 \in T
  <2> DEFINE o == m + (k + 1)
             x == p[k]
             y == p[m]
  <2>1. k + 1 \in 0..n /\ k + 1 \in 1..K /\ (k + 1) - 1 = k /\ k \in 0..K
        /\ o \in 1..K /\ o - 1 = m + k /\ m \in 0..K
    BY <1>3
  <2>2. p[m + k] = x * y /\ p[k + 1] = b * x
    BY <1>1, <1>3, <2>1
  <2> HIDE DEF o
  <2>3. p[o] = b * p[o - 1]
    BY <1>1, <2>1
  <2>4. x \in Nat /\ y \in Nat
    BY <1>1, <2>1
  <2> HIDE DEF x, y
  <2>5. b * (x * y) = (b * x) * y
    BY <2>4
  <2>6. p[o] = p[k + 1] * y
    BY <2>1, <2>2, <2>3, <2>5
  <2> QED
    BY <2>1, <2>6 DEF o, y
<1> HIDE DEF T
<1>4. n \in T
  <2>1. \A k \in 0..n : k \in T
    BY <1>2, <1>3, InductionUpTo
  <2> QED
    BY <2>1
<1> QED
  BY <1>4 DEF T, p

(* A shift by one more place doubles.                                      *)
LEMMA ShiftDoubles ==
    Shifted(0) = 1 /\ \A n \in Nat : Shifted(n) \in Nat /\ Shifted(n) > 0 /\ Shifted(n + 1) = 2 * Shifted(n)
<1>1. \A n \in Nat : Shifted(n) = Powers(2, n)[n]
  BY DEF Shifted, Powers
<1>2. \A K \in Nat : /\ Powers(2, K) \in [0..K -> Nat] /\ Powers(2, K)[0] = 1
                     /\ \A k \in 1..K : Powers(2, K)[k] = 2 * Powers(2, K)[k - 1]
  <2>1. \A b \in Nat : \A K \in Nat :
          /\ Powers(b, K) \in [0..K -> Nat] /\ Powers(b, K)[0] = 1
          /\ \A k \in 1..K : Powers(b, K)[k] = b * Powers(b, K)[k - 1]
    BY PowersAre
  <2>2. 2 \in Nat
    OBVIOUS
  <2> QED
    BY <2>1, <2>2, Zenon
<1>3. Shifted(0) = 1
  BY <1>1, <1>2
<1>4. ASSUME NEW n \in Nat PROVE Shifted(n) \in Nat /\ Shifted(n + 1) = 2 * Shifted(n)
  <2> DEFINE f == Powers(2, n)
             g == Powers(2, n + 1)
             T == {k \in 0..n : f[k] = g[k]}
  <2>1. /\ f \in [0..n -> Nat] /\ f[0] = 1 /\ \A k \in 1..n : f[k] = 2 * f[k - 1]
        /\ g \in [0..(n + 1) -> Nat] /\ g[0] = 1
        /\ \A k \in 1..(n + 1) : g[k] = 2 * g[k - 1]
    <3>1. n + 1 \in Nat
      OBVIOUS
    <3> QED
      BY <1>2, <3>1
  <2>2. Shifted(n) = f[n] /\ Shifted(n + 1) = g[n + 1] /\ n \in 0..n /\ n + 1 \in 1..(n + 1)
    BY <1>1
  <2> HIDE DEF f, g
  <2>3. 0 \in T
    BY <2>1
  <2>4. ASSUME NEW k \in 0..n, k < n, k \in T PROVE k + 1 \in T
    <3>1. k + 1 \in 1..n /\ k + 1 \in 1..(n + 1) /\ (k + 1) - 1 = k /\ k + 1 \in 0..n
      BY <2>4
    <3>2. f[k + 1] = 2 * f[k] /\ g[k + 1] = 2 * g[k] /\ f[k] = g[k]
      BY <2>1, <2>4, <3>1, Zenon
    <3> QED
      BY <3>1, <3>2
  <2> HIDE DEF T
  <2>5. n \in T
    BY <2>2, <2>3, <2>4, InductionUpTo
  <2>6. g[n + 1] = 2 * g[n]
    <3>1. (n + 1) - 1 = n
      OBVIOUS
    <3> QED
      BY <2>1, <2>2, <3>1
  <2> QED
    BY <2>1, <2>2, <2>5, <2>6 DEF T
<1>5. \A n \in Nat : Shifted(n) > 0
  <2> DEFINE T == {n \in Nat : Shifted(n) > 0}
  <2>1. 0 \in T
    BY <1>3
  <2>2. ASSUME NEW n \in Nat, n \in T PROVE n + 1 \in T
    <3>1. Shifted(n) \in Nat /\ Shifted(n + 1) = 2 * Shifted(n) /\ Shifted(n) > 0
      BY <1>4, <2>2
    <3> QED
      BY <3>1
  <2> HIDE DEF T
  <2>3. \A n \in Nat : n \in T
    BY <2>1, <2>2, Induction
  <2> QED
    BY <2>3 DEF T
<1> QED
  BY <1>3, <1>4, <1>5

(* Shifting by m places and then by n is shifting by m + n.                *)
LEMMA ShiftsAdd ==
    ASSUME NEW m \in Nat, NEW n \in Nat PROVE Shifted(m + n) = Shifted(m) * Shifted(n)
<1> DEFINE T == {k \in Nat : Shifted(m + k) = Shifted(m) * Shifted(k)}
<1>1. 0 \in T
  BY ShiftDoubles
<1>2. ASSUME NEW k \in Nat, k \in T PROVE k + 1 \in T
  <2> DEFINE a == Shifted(m)
             b == Shifted(k)
             c == Shifted(m + k)
  <2>1. a \in Nat /\ b \in Nat /\ c \in Nat /\ Shifted(k + 1) = 2 * b /\ Shifted((m + k) + 1) = 2 * c
    BY ShiftDoubles
  <2>2. c = a * b /\ (m + k) + 1 = m + (k + 1)
    BY <1>2
  <2> HIDE DEF a, b, c
  <2>3. 2 * (a * b) = a * (2 * b)
    BY <2>1
  <2>4. Shifted(m + (k + 1)) = a * Shifted(k + 1)
    BY <2>1, <2>2, <2>3
  <2> QED
    BY <2>4 DEF a
<1> HIDE DEF T
<1>3. \A k \in Nat : k \in T
  BY <1>1, <1>2, Induction
<1> QED
  BY <1>3 DEF T

-----------------------------------------------------------------------------
(* Flattening a sequence of sequences                                      *)

(* FlattenSeq joins the sequences one after the other.                     *)
LEMMA FlattenIs ==
    ASSUME NEW S, NEW q \in Seq(Seq(S))
    PROVE  \E f \in [0..Len(q) -> Seq(S)] :
              /\ f[0] = <<>> /\ \A n \in 1..Len(q) : f[n] = f[n - 1] \o q[n]
              /\ FlattenSeq(q) = f[Len(q)]
<1> DEFINE N == Len(q)
           step == [n \in 1..N |-> [r \in Seq(S) |-> r \o q[n]]]
           body(h) == [i \in 1..N |-> IF i = 1 THEN q[i] ELSE h[i - 1] \o q[i]]
<1>1. N \in Nat /\ <<>> \in Seq(S) /\ \A n \in 1..N : q[n] \in Seq(S)
  <2>1. \A n \in 1..Len(q) : q[n] \in Seq(S)
    BY ElementOfSeq
  <2> QED
    BY <2>1, LenProperties
<1>2. step \in [1..N -> [Seq(S) -> Seq(S)]]
  <2>1. ASSUME NEW n \in 1..N, NEW r \in Seq(S) PROVE r \o q[n] \in Seq(S)
    <3>1. q[n] \in Seq(S)
      BY <1>1
    <3> HIDE DEF N
    <3> QED
      BY <3>1, ConcatProperties
  <2> QED
    BY <2>1
<1>3. \A n \in 1..N : \A r \in Seq(S) : step[n][r] = r \o q[n]
  OBVIOUS
<1> HIDE DEF step, N
<1>4. PICK f \in [0..N -> Seq(S)] :
        f[0] = <<>> /\ \A n \in 1..N : f[n] = step[n][f[n - 1]]
  <2> DEFINE R == Seq(S)
             none == <<>>
  <2>1. N \in Nat /\ none \in R /\ step \in [1..N -> [R -> R]]
    BY <1>1, <1>2
  <2> HIDE DEF R, none
  <2>2. PICK f : Runs(f, N, R, none, step)
    BY <2>1, RecursionUpTo, SMTT(30)
  <2> QED
    BY <2>2 DEF R, none, Runs
<1>5. ASSUME NEW n \in 1..N
      PROVE  n - 1 \in 0..N /\ f[n - 1] \in Seq(S) /\ f[n] = f[n - 1] \o q[n]
  <2>1. n - 1 \in 0..N
    BY <1>1
  <2>2. f[n - 1] \in Seq(S)
    BY <1>4, <2>1
  <2> QED
    BY <1>3, <1>4, <2>1, <2>2
<1>6. CASE N = 0
  <2>1. FlattenSeq(q) = q
    BY <1>6 DEF FlattenSeq, N
  <2>2. q = <<>>
    BY <1>6, EmptySeq DEF N
  <2> QED
    BY <1>4, <1>5, <1>6, <2>1, <2>2 DEF N
<1>7. CASE N # 0
  <2> DEFINE g == [i \in 1..N |-> f[i]]
             flat == CHOOSE h : h = body(h)
  <2>1. g = body(g)
    <3> SUFFICES \A i \in 1..N : f[i] = IF i = 1 THEN q[i] ELSE g[i - 1] \o q[i]
      BY SMTT(30) DEF body
    <3> SUFFICES ASSUME NEW i \in 1..N
                 PROVE  f[i] = IF i = 1 THEN q[i] ELSE g[i - 1] \o q[i]
      OBVIOUS
    <3>1. CASE i = 1
      <4>0. f[i] = f[i - 1] \o q[i] /\ q[i] \in Seq(S)
        BY <1>1, <1>5
      <4>1. f[1] = f[0] \o q[1] /\ q[1] \in Seq(S)
        BY <3>1, <4>0
      <4>2. <<>> \o q[1] = q[1]
        BY <4>1, ConcatEmptySeq
      <4> QED
        BY <1>4, <3>1, <4>1, <4>2
    <3>2. CASE i # 1
      <4>1. i - 1 \in 1..N
        BY <1>1, <3>2
      <4> QED
        BY <1>5, <3>2, <4>1
    <3> QED
      BY <3>1, <3>2
  <2>2. flat = body(flat)
    <3> HIDE DEF g, body
    <3> QED
      BY <2>1
  <2>3. FlattenSeq(q) = flat[N]
    BY <1>7 DEF FlattenSeq, N
  <2> HIDE DEF flat, g
  <2>4. \A i \in 1..N : flat[i] = IF i = 1 THEN q[i] ELSE flat[i - 1] \o q[i]
    BY <2>2
  <2> HIDE DEF body
  <2> DEFINE T == {n \in 0..N : n = 0 \/ flat[n] = f[n]}
  <2>5. ASSUME NEW n \in 0..N, n < N, n \in T PROVE n + 1 \in T
    <3>1. n + 1 \in 1..N /\ (n + 1) - 1 = n /\ n + 1 \in 0..N
      BY <1>1, <2>5
    <3>2. f[n + 1] = f[n] \o q[n + 1]
      BY <1>5, <3>1
    <3>3. flat[n + 1] = IF n + 1 = 1 THEN q[n + 1] ELSE flat[n] \o q[n + 1]
      BY <2>4, <3>1, SMTT(30)
    <3>4. CASE n = 0
      <4>1. q[1] \in Seq(S) /\ f[0] = <<>>
        BY <1>1, <1>4, <3>1, <3>4
      <4>2. <<>> \o q[1] = q[1]
        BY <4>1, ConcatEmptySeq
      <4>3. flat[n + 1] = f[n + 1]
        BY <3>2, <3>3, <3>4, <4>1, <4>2
      <4> QED
        BY <3>1, <4>3
    <3>5. CASE n # 0
      <4>1. flat[n] = f[n] /\ n + 1 # 1
        BY <2>5, <3>5
      <4>2. flat[n + 1] = f[n + 1]
        BY <3>2, <3>3, <4>1
      <4> QED
        BY <3>1, <4>2
    <3> QED
      BY <3>4, <3>5
  <2>6. 0 \in T
    BY <1>1
  <2> HIDE DEF T
  <2>7. N \in T
    <3>1. \A n \in 0..N : n \in T
      BY <1>1, <2>5, <2>6, InductionUpTo
    <3> QED
      BY <1>1, <3>1
  <2>8. flat[N] = f[N]
    BY <1>7, <2>7 DEF T
  <2> QED
    BY <1>4, <1>5, <2>3, <2>8 DEF N
<1> QED
  BY <1>6, <1>7

(* What is flattened consists of the same elements.                        *)
LEMMA FlattenType ==
    ASSUME NEW S, NEW q \in Seq(Seq(S)) PROVE FlattenSeq(q) \in Seq(S)
<1>1. PICK f \in [0..Len(q) -> Seq(S)] : FlattenSeq(q) = f[Len(q)]
  BY FlattenIs
<1>2. Len(q) \in 0..Len(q)
  BY LenProperties
<1> QED
  BY <1>1, <1>2

(* One more sequence comes last.                                           *)
LEMMA FlattenMore ==
    ASSUME NEW S, NEW q \in Seq(Seq(S)), NEW x \in Seq(S)
    PROVE  FlattenSeq(Append(q, x)) = FlattenSeq(q) \o x
<1> DEFINE N == Len(q)
           more == Append(q, x)
<1>1. /\ more \in Seq(Seq(S)) /\ Len(more) = N + 1 /\ N \in Nat
      /\ \A n \in 1..N : more[n] = q[n]
      /\ more[N + 1] = x
  BY AppendProperties, LenProperties
<1> HIDE DEF more, N
<1>2. PICK f \in [0..N -> Seq(S)] :
        /\ f[0] = <<>> /\ \A n \in 1..N : f[n] = f[n - 1] \o q[n]
        /\ FlattenSeq(q) = f[N]
  BY FlattenIs DEF N
<1>3. PICK h \in [0..(N + 1) -> Seq(S)] :
        /\ h[0] = <<>> /\ \A n \in 1..(N + 1) : h[n] = h[n - 1] \o more[n]
        /\ FlattenSeq(more) = h[N + 1]
  <2>1. \E h \in [0..Len(more) -> Seq(S)] :
          /\ h[0] = <<>> /\ \A n \in 1..Len(more) : h[n] = h[n - 1] \o more[n]
          /\ FlattenSeq(more) = h[Len(more)]
    BY <1>1, FlattenIs
  <2> QED
    BY <1>1, <2>1
<1> DEFINE T == {n \in 0..N : f[n] = h[n]}
<1>4. ASSUME NEW n \in 0..N, n < N, n \in T PROVE n + 1 \in T
  <2>0. N \in Nat /\ n \in 0..N /\ n < N
    BY <1>1, <1>4
  <2>1. n + 1 \in 1..N /\ n + 1 \in 1..(N + 1) /\ (n + 1) - 1 = n /\ n + 1 \in 0..N
    <3> HIDE DEF T
    <3> QED
      BY <2>0
  <2>2. f[n + 1] = f[n] \o q[n + 1] /\ h[n + 1] = h[n] \o more[n + 1]
    BY <1>2, <1>3, <2>1
  <2>3. f[n] = h[n] /\ q[n + 1] = more[n + 1]
    BY <1>1, <1>4, <2>1
  <2>4. f[n + 1] = h[n + 1]
    <3> HIDE DEF T
    <3> QED
      BY <2>2, <2>3, Zenon
  <2> QED
    BY <2>1, <2>4
<1>5. 0 \in T
  BY <1>1, <1>2, <1>3
<1> HIDE DEF T
<1>6. N \in T
  <2>1. \A n \in 0..N : n \in T
    BY <1>1, <1>4, <1>5, InductionUpTo
  <2> QED
    BY <1>1, <2>1
<1>7. h[N + 1] = h[N] \o x
  <2>1. N + 1 \in 1..(N + 1) /\ (N + 1) - 1 = N
    BY <1>1
  <2> QED
    BY <1>1, <1>3, <2>1
<1> QED
  BY <1>2, <1>3, <1>6, <1>7 DEF T, more

-----------------------------------------------------------------------------
(* Whole multiples of n do not change a number modulo n.                   *)
LEMMA Congruent ==
    ASSUME NEW n \in Nat, n > 0, NEW a \in Int, NEW k \in Int
    PROVE  (a + n * k) % n = a % n
<1> DEFINE q == a \div n
           d == a % n
<1>1. q \in Int /\ d \in 0..(n - 1) /\ a = n * q + d
  BY Division
<1> HIDE DEF q, d
<1>2. a + n * k = n * (q + k) + d
  BY <1>1
<1>3. q + k \in Int
  BY <1>1
<1>4. (n * (q + k) + d) % n = d
  BY <1>1, <1>3, Quotient
<1> QED
  BY <1>2, <1>4 DEF d

(* The rest of a sum, when the rest of one term is taken first.            *)
LEMMA SumModulo ==
    ASSUME NEW n \in Nat, n > 0, NEW a \in Int, NEW b \in Int
    PROVE  (a + (b % n)) % n = (a + b) % n
<1> DEFINE q == b \div n
           d == b % n
<1>1. q \in Int /\ d \in 0..(n - 1) /\ b = n * q + d
  BY Division
<1> HIDE DEF q, d
<1>2. a + b = (a + d) + n * q /\ a + d \in Int
  BY <1>1
<1> DEFINE e == a + d
<1>3. e \in Int
  BY <1>2
<1> HIDE DEF e
<1>4. (e + n * q) % n = e % n
  BY <1>1, <1>3, Congruent
<1> QED
  BY <1>2, <1>4 DEF d, e

(* A number less than n is its rest modulo n.                              *)
LEMMA SmallModulo ==
    ASSUME NEW n \in Nat, n > 0, NEW d \in 0..(n - 1)
    PROVE  d % n = d
<1>1. (n * 0 + d) % n = d
  BY Quotient
<1> QED
  BY <1>1

(* The rest of a product, when the rest of one factor is taken first.      *)
LEMMA ProductModulo ==
    ASSUME NEW n \in Nat, n > 0, NEW a \in Int, NEW b \in Int
    PROVE  (a * (b % n)) % n = (a * b) % n
<1> DEFINE q == b \div n
           d == b % n
           e == a * d
           f == a * q
<1>1. q \in Int /\ d \in 0..(n - 1) /\ b = n * q + d
  BY Division
<1> HIDE DEF q, d
<1>2. a * b = a * d + n * (a * q) /\ a * d \in Int /\ a * q \in Int
  BY <1>1
<1> HIDE DEF e, f
<1>3. (e + n * f) % n = e % n
  BY <1>2, Congruent DEF e, f
<1> QED
  BY <1>2, <1>3 DEF d, e, f

(* The multiples of n are the numbers without a rest.                      *)
LEMMA MultipleModulo ==
    ASSUME NEW n \in Nat, n > 0, NEW a \in Int
    PROVE  (n * a) % n = 0 /\ (a % n = 0 => a = n * (a \div n) /\ a \div n \in Int)
<1>1. (n * a + 0) % n = 0
  BY Quotient
<1>2. n * a + 0 = n * a
  <2>1. n * a \in Int
    OBVIOUS
  <2> DEFINE x == n * a
  <2> HIDE DEF x
  <2>2. x + 0 = x
    BY <2>1 DEF x
  <2> QED
    BY <2>2 DEF x
<1>3. a \div n \in Int /\ a = n * (a \div n) + (a % n)
  BY Division
<1> DEFINE x == n * (a \div n)
<1>4. x \in Int
  BY <1>3
<1>5. a % n = 0 => a = x
  <2> HIDE DEF x
  <2>1. a = x + (a % n)
    BY <1>3 DEF x
  <2> QED
    BY <1>4, <2>1
<1> QED
  BY <1>1, <1>2, <1>3, <1>5

(* Two numbers have the same rest if n divides their difference.           *)
LEMMA SameModulo ==
    ASSUME NEW n \in Nat, n > 0, NEW a \in Int, NEW b \in Int
    PROVE  (a - b) % n = 0 <=> a % n = b % n
<1>1. ASSUME (a - b) % n = 0 PROVE a % n = b % n
  <2> DEFINE q == (a - b) \div n
  <2>1. a - b = n * q /\ q \in Int
    BY <1>1, MultipleModulo
  <2> HIDE DEF q
  <2>2. a = b + n * q
    BY <2>1
  <2> QED
    BY <2>1, <2>2, Congruent
<1>2. ASSUME a % n = b % n PROVE (a - b) % n = 0
  <2> DEFINE q == a \div n
             p == b \div n
             d == a % n
             c == q - p
  <2>1. q \in Int /\ p \in Int /\ d \in 0..(n - 1) /\ a = n * q + d /\ b = n * p + d
    BY <1>2, Division
  <2> HIDE DEF q, p, d
  <2>2. a - b = n * c /\ c \in Int
    BY <2>1
  <2> HIDE DEF c
  <2> QED
    BY <2>2, MultipleModulo
<1> QED
  BY <1>1, <1>2

-----------------------------------------------------------------------------
(* Divisible by itself and by one alone.                                   *)
Prime(n) == n \in Nat /\ n >= 2 /\ \A d \in 2..(n - 1) : n % d # 0

(* A prime divides a product only if it divides a factor.                  *)
LEMMA PrimeDivides ==
    ASSUME NEW n, Prime(n), NEW a \in Int, NEW b \in Int, (a * b) % n = 0
    PROVE  a % n = 0 \/ b % n = 0
<1> DEFINE Takes(k) == (k * b) % n = 0
           T == {k \in Nat : k >= 1 /\ Takes(k)}
<1>1. n \in Nat /\ n > 0 /\ n >= 2 /\ \A d \in 2..(n - 1) : n % d # 0
  BY DEF Prime
<1>2. n \in T
  BY <1>1, MultipleModulo
<1>3. PICK m \in T : \A k \in T : m <= k
  <2>1. T \in SUBSET Nat /\ T # {}
    BY <1>2
  <2> HIDE DEF T
  <2> QED
    BY <2>1, LeastElement
<1>4. m \in Nat /\ m >= 1 /\ (m * b) % n = 0
  OBVIOUS
<1>5. ASSUME NEW k \in Int, Takes(k) PROVE k % m = 0
  <2> DEFINE q == k \div m
             d == k % m
             x == m * b
             y == k * b
             c == x \div n
             e == -(q * c)
  <2>1. q \in Int /\ d \in 0..(m - 1) /\ k = m * q + d
    BY <1>4, Division
  <2>2. x \in Int /\ y \in Int /\ y % n = 0
    BY <1>4, <1>5
  <2>3. x = n * c /\ c \in Int
    <3>1. x % n = 0
      BY <1>4
    <3> HIDE DEF x
    <3> QED
      BY <1>1, <2>2, <3>1, MultipleModulo
  <2> HIDE DEF q, d, c
  <2>4. e \in Int
    BY <2>1, <2>3
  <2>5. d * b = y + n * e
    <3>1. d * b = y - q * x
      BY <1>4, <2>1
    <3>2. q * (n * c) = n * (q * c)
      BY <1>1, <2>1, <2>3
    <3>3. n * (-(q * c)) = -(n * (q * c))
      BY <1>1, <2>1, <2>3
    <3>4. q * x = n * (q * c)
      BY <2>3, <3>2
    <3> DEFINE u == n * (q * c)
               v == d * b
    <3>5. u \in Int /\ v \in Int
      BY <1>1, <2>1, <2>3
    <3>6. v = y - u /\ n * e = -u
      BY <3>1, <3>3, <3>4
    <3> HIDE DEF u, v, y, e
    <3>7. v = y + n * e
      BY <2>2, <3>5, <3>6
    <3> QED
      BY <3>7 DEF v
  <2> HIDE DEF y, e, x
  <2>6. (y + n * e) % n = 0
    BY <1>1, <2>2, <2>4, Congruent
  <2>7. Takes(d)
    BY <2>5, <2>6
  <2>8. SUFFICES ASSUME d >= 1 PROVE FALSE
    BY <2>1 DEF d
  <2>9. d \in T
    BY <2>1, <2>7, <2>8
  <2> QED
    BY <1>3, <1>4, <2>1, <2>9
<1>6. m = 1 \/ m = n
  <2>1. m <= n
    BY <1>2, <1>3
  <2>2. n % m = 0
    BY <1>1, <1>5, <1>2
  <2>3. ~(m \in 2..(n - 1))
    BY <1>1, <2>2
  <2> HIDE DEF T
  <2> QED
    BY <1>1, <1>4, <2>1, <2>3
<1>7. CASE m = 1
  <2>1. 1 * b = b
    OBVIOUS
  <2> QED
    BY <1>4, <1>7, <2>1
<1>8. CASE m = n
  <2>1. Takes(a)
    OBVIOUS
  <2> HIDE DEF Takes
  <2>2. a % m = 0
    BY <1>5, <2>1
  <2> QED
    BY <1>8, <2>2
<1> QED
  BY <1>6, <1>7, <1>8

(* A factor that a prime does not divide may be left out on both sides.    *)
LEMMA Cancels ==
    ASSUME NEW n, Prime(n), NEW x \in Int, x % n # 0, NEW y \in Int, NEW z \in Int,
           (x * y) % n = (x * z) % n
    PROVE  y % n = z % n
<1> DEFINE u == x * y
           v == x * z
           w == y - z
<1>1. n \in Nat /\ n > 0
  BY DEF Prime
<1>2. u \in Int /\ v \in Int /\ w \in Int /\ u - v = x * w
  OBVIOUS
<1>3. (u - v) % n = 0
  <2> HIDE DEF u, v
  <2>1. u % n = v % n
    BY DEF u, v
  <2> QED
    BY <1>1, <1>2, <2>1, SameModulo
<1> HIDE DEF u, v, w
<1>4. w % n = 0
  BY <1>2, <1>3, PrimeDivides
<1> QED
  BY <1>1, <1>4, SameModulo DEF w

(* A prime divides no power of a number that it does not divide.           *)
LEMMA PowersNotZero ==
    ASSUME NEW n, Prime(n), NEW a \in Nat, a % n # 0, NEW K \in Nat
    PROVE  \A k \in 0..K : Powers(a, K)[k] \in Nat /\ Powers(a, K)[k] % n # 0
<1> DEFINE p == Powers(a, K)
           T == {k \in 0..K : p[k] % n # 0}
<1>1. p \in [0..K -> Nat] /\ p[0] = 1 /\ \A k \in 1..K : p[k] = a * p[k - 1]
  BY PowersAre
<1>2. n \in Nat /\ n > 0 /\ n >= 2
  BY DEF Prime
<1> HIDE DEF p
<1>3. 0 \in T
  <2>1. 1 % n = 1
    BY <1>2, SmallModulo
  <2> QED
    BY <1>1, <2>1
<1>4. ASSUME NEW k \in 0..K, k < K, k \in T PROVE k + 1 \in T
  <2> DEFINE x == p[k]
  <2>1. k + 1 \in 1..K /\ k + 1 \in 0..K /\ (k + 1) - 1 = k
    BY <1>4
  <2>2. x \in Nat /\ x % n # 0 /\ p[k + 1] = a * x
    BY <1>1, <1>4, <2>1
  <2> HIDE DEF x
  <2>3. (a * x) % n # 0
    BY <2>2, PrimeDivides
  <2> QED
    BY <2>1, <2>2, <2>3
<1> HIDE DEF T
<1>5. \A k \in 0..K : k \in T
  BY <1>3, <1>4, InductionUpTo
<1> QED
  BY <1>1, <1>5 DEF T, p

(* Two powers with the same rest are a power with the rest one apart.      *)
LEMMA PowersMeet ==
    ASSUME NEW n, Prime(n), NEW a \in Nat, a % n # 0, NEW K \in Nat,
           NEW i \in 0..K, NEW j \in 0..K, i < j,
           Powers(a, K)[i] % n = Powers(a, K)[j] % n
    PROVE  Powers(a, K)[j - i] % n = 1
<1> DEFINE p == Powers(a, K)
           x == p[i]
           y == p[j - i]
<1>1. j - i \in 0..K /\ i + (j - i) = j /\ i \in Nat /\ j - i \in Nat /\ j <= K
  OBVIOUS
<1>2. n \in Nat /\ n > 0 /\ n >= 2 /\ 1 % n = 1
  <2>1. n \in Nat /\ n > 0 /\ n >= 2
    BY DEF Prime
  <2> QED
    BY <2>1, SmallModulo
<1>3. x \in Nat /\ x % n # 0 /\ y \in Nat
  BY <1>1, PowersNotZero
<1>4. p[j] = y * x
  <2>1. p[i + (j - i)] = p[j - i] * p[i]
    BY <1>1, PowersAdd
  <2> QED
    BY <1>1, <2>1
<1>5. (x * y) % n = (x * 1) % n
  <2>1. x * y = y * x /\ x * 1 = x
    BY <1>3
  <2> QED
    BY <1>4, <2>1
<1> HIDE DEF x, y
<1>6. y % n = 1 % n
  <2>1. x \in Int /\ y \in Int /\ 1 \in Int
    BY <1>3
  <2> QED
    BY <1>3, <1>5, <2>1, Cancels
<1> QED
  BY <1>2, <1>6 DEF y

(* The first power of a whose rest is one is the d-th.                     *)
Order(a, n, K, d) ==
    /\ d \in 1..(n - 1) /\ d <= K
    /\ Powers(a, K)[d] % n = 1
    /\ \A k \in 1..(d - 1) : Powers(a, K)[k] % n # 1

(* There is one.                                                           *)
LEMMA OrderIs ==
    ASSUME NEW n, Prime(n), NEW a \in Nat, a % n # 0, NEW K \in Nat, n - 1 <= K
    PROVE  \E d \in 1..(n - 1) : Order(a, n, K, d)
<1> DEFINE p == Powers(a, K)
           f == [k \in 0..(n - 1) |-> p[k] % n]
           T == {k \in 1..(n - 1) : p[k] % n = 1}
<1>1. n \in Nat /\ n > 0 /\ n >= 2
  BY DEF Prime
<1>2. ASSUME NEW k \in 0..(n - 1) PROVE p[k] \in Nat /\ p[k] % n \in 1..(n - 1)
  <2>1. k \in 0..K
    BY <1>1
  <2>2. p[k] \in Nat /\ p[k] % n # 0
    BY <2>1, PowersNotZero
  <2> DEFINE x == p[k]
  <2> HIDE DEF x
  <2>3. x % n \in 0..(n - 1)
    BY <1>1, <2>2, Division DEF x
  <2> QED
    BY <1>1, <2>2, <2>3 DEF x
<1>3. f \in [0..(n - 1) -> 1..(n - 1)]
  BY <1>2
<1>4. \E i, j \in 0..(n - 1) : i # j /\ f[i] = f[j]
  <2>1. IsFiniteSet(0..(n - 1)) /\ Cardinality(0..(n - 1)) = n
        /\ IsFiniteSet(1..(n - 1)) /\ Cardinality(1..(n - 1)) = n - 1
    <3>1. 0 \in Int /\ 1 \in Int /\ n - 1 \in Int /\ ~(0 > n - 1) /\ ~(1 > n - 1)
          /\ (n - 1) - 0 + 1 = n /\ (n - 1) - 1 + 1 = n - 1
      BY <1>1
    <3> QED
      BY <3>1, FS_Interval
  <2>2. n - 1 < n
    BY <1>1
  <2> HIDE DEF f
  <2> QED
    BY <1>3, <2>1, <2>2, FS_PigeonHole
<1>5. PICK i, j \in 0..(n - 1) : i < j /\ f[i] = f[j]
  <2>1. PICK i, j \in 0..(n - 1) : i # j /\ f[i] = f[j]
    BY <1>4
  <2>2. i < j \/ j < i
    BY <1>1, <2>1
  <2> HIDE DEF f
  <2> QED
    BY <2>1, <2>2
<1>6. j - i \in T
  <2>1. i \in 0..K /\ j \in 0..K /\ j - i \in 1..(n - 1)
    BY <1>1, <1>5
  <2>2. p[i] % n = p[j] % n
    BY <1>5
  <2>3. p[j - i] % n = 1
    BY <1>5, <2>1, <2>2, PowersMeet
  <2> QED
    BY <2>1, <2>3
<1>7. PICK d \in T : \A k \in T : d <= k
  <2>1. T \in SUBSET Nat /\ T # {}
    BY <1>6
  <2> HIDE DEF T
  <2> QED
    BY <2>1, LeastElement
<1>8. \A k \in 1..(d - 1) : p[k] % n # 1
  <2> SUFFICES ASSUME NEW k \in 1..(d - 1), p[k] % n = 1 PROVE FALSE
    OBVIOUS
  <2>1. k \in T /\ ~(d <= k)
    BY <1>1
  <2> QED
    BY <1>7, <2>1
<1> QED
  BY <1>1, <1>7, <1>8 DEF Order

(* A set of rests that holds a times each of its members.                  *)
ClosedUnder(a, n, U) == \A x \in U : (a * x) % n \in U

(* x, a times x and so on, d of them.                                      *)
Orbit(x, a, n, K, d) == {(x * Powers(a, K)[k]) % n : k \in 0..(d - 1)}

(* The next is a times the one before, and after the d-th x comes again.   *)
LEMMA OrbitTurns ==
    ASSUME NEW n, Prime(n), NEW a \in Nat, a % n # 0, NEW K \in Nat,
           NEW d \in 1..(n - 1), Order(a, n, K, d), NEW x \in 1..(n - 1)
    PROVE  /\ (x * Powers(a, K)[0]) % n = x
           /\ \A k \in 1..d : (x * Powers(a, K)[k]) % n
                                  = (a * ((x * Powers(a, K)[k - 1]) % n)) % n
           /\ (x * Powers(a, K)[d]) % n = x
<1> DEFINE p == Powers(a, K)
<1>1. n \in Nat /\ n > 0 /\ n >= 2 /\ d <= K /\ d \in Nat
  BY DEF Prime, Order
<1>2. p \in [0..K -> Nat] /\ p[0] = 1 /\ \A k \in 1..K : p[k] = a * p[k - 1]
  BY PowersAre
<1>3. x % n = x /\ x * 1 = x
  BY <1>1, SmallModulo
<1>4. (x * p[0]) % n = x
  BY <1>2, <1>3
<1>5. ASSUME NEW k \in 1..d
      PROVE  (x * p[k]) % n = (a * ((x * p[k - 1]) % n)) % n
  <2> DEFINE y == p[k - 1]
             z == x * y
  <2>1. p[k] = a * y /\ y \in Nat
    BY <1>1, <1>2
  <2> HIDE DEF p, y
  <2>2. x * (a * y) = a * z /\ z \in Int
    BY <1>1, <2>1
  <2> HIDE DEF z
  <2>3. (a * (z % n)) % n = (a * z) % n
    <3>1. a \in Int /\ z \in Int
      BY <2>2
    <3> QED
      BY <1>1, <3>1, ProductModulo, Zenon
  <2> QED
    BY <2>1, <2>2, <2>3 DEF z, y
<1>6. (x * p[d]) % n = x
  <2> DEFINE y == p[d]
  <2>1. y % n = 1 /\ y \in Nat
    BY <1>1, <1>2 DEF Order
  <2> HIDE DEF y
  <2>2. (x * (y % n)) % n = (x * y) % n
    <3>1. x \in Int /\ y \in Int
      BY <2>1
    <3> QED
      BY <1>1, <3>1, ProductModulo, Zenon
  <2> QED
    BY <1>3, <2>1, <2>2 DEF y
<1> QED
  BY <1>4, <1>5, <1>6

(* The orbit has d members.                                                *)
LEMMA OrbitSize ==
    ASSUME NEW n, Prime(n), NEW a \in Nat, a % n # 0, NEW K \in Nat,
           NEW d \in 1..(n - 1), Order(a, n, K, d), NEW x \in 1..(n - 1)
    PROVE  IsFiniteSet(Orbit(x, a, n, K, d)) /\ Cardinality(Orbit(x, a, n, K, d)) = d
<1> DEFINE p == Powers(a, K)
           O == Orbit(x, a, n, K, d)
           g == [k \in 0..(d - 1) |-> (x * p[k]) % n]
<1>1. n \in Nat /\ n > 0 /\ n >= 2 /\ d <= K /\ d \in Nat /\ d >= 1
  BY DEF Prime, Order
<1>2. \A k \in 0..K : p[k] \in Nat
  BY PowersNotZero
<1>3. x % n # 0
  <2>1. x % n = x
    BY <1>1, SmallModulo
  <2> QED
    BY <2>1
<1>4. ASSUME NEW k \in 0..(d - 1), NEW l \in 0..(d - 1), k < l PROVE g[k] # g[l]
  <2> SUFFICES ASSUME g[k] = g[l] PROVE FALSE
    OBVIOUS
  <2>1. k \in 0..K /\ l \in 0..K /\ l - k \in 1..(d - 1)
    BY <1>1, <1>4
  <2>2. (x * p[k]) % n = (x * p[l]) % n
    OBVIOUS
  <2>3. p[k] % n = p[l] % n
    <3> DEFINE y == p[k]
               z == p[l]
    <3>1. y \in Int /\ z \in Int /\ x \in Int /\ (x * y) % n = (x * z) % n
      BY <1>2, <2>1, <2>2
    <3> HIDE DEF y, z
    <3>2. y % n = z % n
      BY <1>3, <3>1, Cancels
    <3> QED
      BY <3>2 DEF y, z
  <2>4. p[l - k] % n = 1
    BY <1>4, <2>1, <2>3, PowersMeet
  <2> QED
    BY <2>1, <2>4 DEF Order
<1>5. g \in Bijection(0..(d - 1), O)
  <2>1. O = {(x * p[k]) % n : k \in 0..(d - 1)}
    BY DEF Orbit
  <2> HIDE DEF O
  <2>2. g \in [0..(d - 1) -> O]
    BY <2>1
  <2>3. \A y \in O : \E k \in 0..(d - 1) : g[k] = y
    BY <2>1
  <2> HIDE DEF g
  <2>4. \A k, l \in 0..(d - 1) : g[k] = g[l] => k = l
    <3> SUFFICES ASSUME NEW k \in 0..(d - 1), NEW l \in 0..(d - 1), g[k] = g[l], k # l
                 PROVE  FALSE
      OBVIOUS
    <3>1. k < l \/ l < k
      BY <1>1
    <3> QED
      BY <1>4, <3>1
  <2> QED
    BY <2>2, <2>3, <2>4 DEF Bijection, Injection, Surjection, IsInjective
<1>6. IsFiniteSet(0..(d - 1)) /\ Cardinality(0..(d - 1)) = d
  <2>1. 0 \in Int /\ d - 1 \in Int /\ ~(0 > d - 1) /\ (d - 1) - 0 + 1 = d
    BY <1>1
  <2> QED
    BY <2>1, FS_Interval
<1> HIDE DEF g, O
<1>7. ExistsBijection(0..(d - 1), O)
  BY <1>5 DEF ExistsBijection
<1>8. IsFiniteSet(O) /\ Cardinality(O) = d
  BY <1>6, <1>7, FS_Bijection
<1> QED
  BY <1>8 DEF O

(* The orbit of a member of a closed set is in it, and what it leaves is   *)
(* closed.                                                                 *)
LEMMA OrbitLeaves ==
    ASSUME NEW n, Prime(n), NEW a \in Nat, a % n # 0, NEW K \in Nat,
           NEW d \in 1..(n - 1), Order(a, n, K, d),
           NEW U \in SUBSET (1..(n - 1)), ClosedUnder(a, n, U), NEW x \in U
    PROVE  /\ Orbit(x, a, n, K, d) \subseteq U
           /\ ClosedUnder(a, n, U \ Orbit(x, a, n, K, d))
<1> DEFINE p == Powers(a, K)
           O == Orbit(x, a, n, K, d)
           g(k) == (x * p[k]) % n
           T == {k \in 0..d : g(k) \in U}
<1>1. n \in Nat /\ n > 0 /\ n >= 2 /\ d <= K /\ d \in Nat /\ d >= 1 /\ x \in 1..(n - 1)
  BY DEF Prime, Order
<1>2. /\ g(0) = x /\ g(d) = x
      /\ \A k \in 1..d : g(k) = (a * g(k - 1)) % n
  BY <1>1, OrbitTurns
<1>3. O = {g(k) : k \in 0..(d - 1)}
  BY DEF Orbit
<1> HIDE DEF g, O
<1>4. \A k \in 0..d : k \in T
  <2>1. 0 \in T
    BY <1>1, <1>2
  <2>2. ASSUME NEW k \in 0..d, k < d, k \in T PROVE k + 1 \in T
    <3>1. k + 1 \in 1..d /\ k + 1 \in 0..d /\ (k + 1) - 1 = k
      BY <1>1, <2>2
    <3>2. g(k + 1) = (a * g(k)) % n /\ g(k) \in U
      BY <1>2, <2>2, <3>1
    <3>3. g(k + 1) \in U
      BY <3>2 DEF ClosedUnder
    <3> QED
      BY <3>1, <3>3
  <2> HIDE DEF T
  <2> QED
    BY <1>1, <2>1, <2>2, InductionUpTo
<1>5. \A k \in 0..d : g(k) \in U
  BY <1>4
<1>6. O \subseteq U
  BY <1>1, <1>3, <1>5
<1>7. ASSUME NEW y \in U \ O PROVE (a * y) % n \in U \ O
  <2>1. (a * y) % n \in U
    BY DEF ClosedUnder
  <2>2. ASSUME NEW k \in 0..(d - 1), (a * y) % n = g(k) PROVE FALSE
    <3>1. PICK l \in 0..(d - 1) : (a * g(l)) % n = g(k)
      <4>1. CASE k = 0
        <5>1. d - 1 \in 0..(d - 1) /\ d \in 1..d
          BY <1>1
        <5>2. g(d) = (a * g(d - 1)) % n
          BY <1>2, <5>1
        <5> QED
          BY <1>2, <4>1, <5>1, <5>2
      <4>2. CASE k # 0
        <5>1. k - 1 \in 0..(d - 1) /\ k \in 1..d
          BY <1>1, <4>2
        <5> QED
          BY <1>2, <5>1
      <4> QED
        BY <4>1, <4>2
    <3> DEFINE z == g(l)
    <3>2. z \in O /\ z \in 1..(n - 1) /\ y \in 1..(n - 1)
      <4>1. l \in 0..d
        BY <1>1
      <4> QED
        BY <1>3, <1>5, <4>1
    <3>3. (a * y) % n = (a * z) % n
      BY <2>2, <3>1
    <3> HIDE DEF z
    <3>4. y % n = z % n
      <4>1. y \in Int /\ z \in Int /\ a \in Int
        BY <3>2
      <4> QED
        BY <3>3, <4>1, Cancels
    <3>5. y % n = y /\ z % n = z
      <4>1. y \in 0..(n - 1) /\ z \in 0..(n - 1)
        BY <3>2
      <4> QED
        BY <1>1, <4>1, SmallModulo
    <3> QED
      BY <3>2, <3>4, <3>5
  <2> QED
    BY <1>3, <2>1, <2>2
<1> QED
  BY <1>6, <1>7 DEF ClosedUnder, O

(* A closed set is made of whole orbits.                                   *)
LEMMA ClosedSize ==
    ASSUME NEW n, Prime(n), NEW a \in Nat, a % n # 0, NEW K \in Nat,
           NEW d \in 1..(n - 1), Order(a, n, K, d),
           NEW A \in SUBSET (1..(n - 1)), ClosedUnder(a, n, A)
    PROVE  Cardinality(A) % d = 0
<1> DEFINE T == {c \in Nat : \A U \in SUBSET (1..(n - 1)) :
                                ClosedUnder(a, n, U) /\ Cardinality(U) <= c
                                => Cardinality(U) % d = 0}
<1>1. n \in Nat /\ n > 0 /\ d \in Nat /\ d >= 1 /\ d > 0 /\ 0 % d = 0
  <2>1. n \in Nat /\ n > 0 /\ d \in Nat /\ d >= 1 /\ d > 0
    BY DEF Prime
  <2> QED
    BY <2>1, SmallModulo
<1>2. ASSUME NEW U \in SUBSET (1..(n - 1)) PROVE IsFiniteSet(U) /\ Cardinality(U) \in Nat
  <2>1. IsFiniteSet(1..(n - 1))
    <3>1. 1 \in Int /\ n - 1 \in Int
      BY <1>1
    <3> QED
      BY <3>1, FS_Interval
  <2> QED
    BY <2>1, FS_Subset, FS_CardinalityType
<1>3. 0 \in T
  <2> SUFFICES ASSUME NEW U \in SUBSET (1..(n - 1)), Cardinality(U) <= 0
               PROVE  Cardinality(U) % d = 0
    OBVIOUS
  <2>1. Cardinality(U) = 0
    BY <1>2
  <2> QED
    BY <1>1, <2>1
<1>4. ASSUME NEW c \in Nat, c \in T PROVE c + 1 \in T
  <2> SUFFICES ASSUME NEW U \in SUBSET (1..(n - 1)), ClosedUnder(a, n, U),
                      Cardinality(U) <= c + 1
               PROVE  Cardinality(U) % d = 0
    OBVIOUS
  <2>1. CASE U = {}
    BY <1>1, <2>1, FS_EmptySet
  <2>2. CASE U # {}
    <3>1. PICK x \in U : TRUE
      BY <2>2
    <3> DEFINE O == Orbit(x, a, n, K, d)
               W == U \ O
               s == Cardinality(U)
               t == Cardinality(W)
    <3>2. x \in 1..(n - 1)
      OBVIOUS
    <3>3. O \subseteq U /\ ClosedUnder(a, n, W)
      BY OrbitLeaves
    <3>4. IsFiniteSet(O) /\ Cardinality(O) = d
      BY <3>2, OrbitSize
    <3> HIDE DEF O
    <3>5. s \in Nat /\ t \in Nat /\ t = s - d
      <4>1. Cardinality(U \ O) = Cardinality(U) - Cardinality(U \cap O)
        BY <1>2, FS_Difference
      <4>2. U \cap O = O
        BY <3>3
      <4>3. W \in SUBSET (1..(n - 1))
        OBVIOUS
      <4> QED
        BY <1>2, <3>4, <4>1, <4>2, <4>3
    <3>6. t % d = 0
      <4>1. t <= c
        <5> HIDE DEF s, t
        <5>1. s <= c + 1
          BY DEF s
        <5> QED
          BY <1>1, <3>5, <5>1
      <4>2. W \in SUBSET (1..(n - 1))
        OBVIOUS
      <4> HIDE DEF W
      <4> QED
        BY <1>4, <3>3, <4>1, <4>2
    <3> HIDE DEF s, t
    <3>7. s = t + d * 1
      BY <1>1, <3>5
    <3>8. (t + d * 1) % d = t % d
      <4>1. t \in Int /\ 1 \in Int
        BY <3>5
      <4> QED
        BY <1>1, <4>1, Congruent, Zenon
    <3> QED
      BY <3>6, <3>7, <3>8 DEF s
  <2> QED
    BY <2>1, <2>2
<1> HIDE DEF T
<1>5. \A c \in Nat : c \in T
  BY <1>3, <1>4, Induction
<1>6. Cardinality(A) \in Nat /\ Cardinality(A) \in T /\ Cardinality(A) <= Cardinality(A)
  BY <1>2, <1>5
<1> QED
  BY <1>6 DEF T

(* Fermat: what a prime n does not divide has one for its power n - 1.     *)
THEOREM Fermat ==
    ASSUME NEW n, Prime(n), NEW a \in Nat, a % n # 0, NEW K \in Nat, n - 1 <= K
    PROVE  Powers(a, K)[n - 1] % n = 1
<1> DEFINE p == Powers(a, K)
           A == 1..(n - 1)
<1>1. n \in Nat /\ n > 0 /\ n >= 2 /\ n - 1 \in Nat /\ 1 % n = 1
  <2>1. n \in Nat /\ n > 0 /\ n >= 2 /\ n - 1 \in Nat
    BY DEF Prime
  <2> QED
    BY <2>1, SmallModulo
<1>2. PICK d \in 1..(n - 1) : Order(a, n, K, d)
  BY OrderIs
<1>3. ClosedUnder(a, n, A)
  <2> SUFFICES ASSUME NEW x \in A PROVE (a * x) % n \in A
    BY DEF ClosedUnder
  <2>1. x % n = x /\ x # 0
    BY <1>1, SmallModulo
  <2>2. (a * x) % n # 0
    BY <2>1, PrimeDivides
  <2> DEFINE y == a * x
  <2>3. y \in Int
    OBVIOUS
  <2> HIDE DEF y
  <2>4. y % n \in 0..(n - 1)
    BY <1>1, <2>3, Division
  <2> QED
    BY <1>1, <2>2, <2>4 DEF y
<1>4. Cardinality(A) = n - 1
  <2>1. 1 \in Int /\ n - 1 \in Int /\ ~(1 > n - 1) /\ (n - 1) - 1 + 1 = n - 1
    BY <1>1
  <2> QED
    BY <2>1, FS_Interval
<1>5. (n - 1) % d = 0
  <2>1. A \in SUBSET (1..(n - 1))
    OBVIOUS
  <2>2. Cardinality(A) % d = 0
    BY <1>2, <1>3, <2>1, ClosedSize
  <2> QED
    BY <1>4, <2>2
<1> DEFINE m == (n - 1) \div d
<1>6. d \in Nat /\ d > 0 /\ d <= K /\ m \in Nat /\ n - 1 = d * m
  <2>1. d \in Nat /\ d > 0 /\ d <= K
    BY <1>1, <1>2 DEF Order
  <2> QED
    BY <1>1, <1>5, <2>1, MultipleModulo, Halves
<1> HIDE DEF m
<1> DEFINE T == {k \in 0..m : p[d * k] % n = 1}
<1>7. p \in [0..K -> Nat] /\ p[0] = 1
  BY PowersAre
<1>8. 0 \in T
  <2>1. d * 0 = 0
    BY <1>6
  <2> QED
    BY <1>1, <1>6, <1>7, <2>1
<1>9. ASSUME NEW k \in 0..m, k < m, k \in T PROVE k + 1 \in T
  <2> DEFINE e == d * k
             x == p[e]
             y == p[d]
  <2>1. k \in Nat /\ k + 1 \in 0..m /\ e \in Nat /\ d * (k + 1) = e + d /\ d * (k + 1) <= d * m
    <3>1. k \in Nat /\ k + 1 \in 0..m /\ k + 1 <= m
      BY <1>6, <1>9
    <3>2. d * (k + 1) <= d * m
      BY <1>6, <3>1, Bigger
    <3>3. e \in Nat /\ d * (k + 1) = e + d
      BY <1>6, <3>1
    <3> QED
      BY <3>1, <3>2, <3>3
  <2> HIDE DEF e
  <2>2. e + d <= K /\ e \in 0..K /\ d \in 0..K
    <3> DEFINE f == d * m
               h == d * (k + 1)
    <3>1. h = e + d /\ h <= f /\ n - 1 = f /\ f \in Int
      BY <1>1, <1>6, <2>1
    <3> HIDE DEF f, h
    <3> QED
      BY <1>1, <1>6, <2>1, <3>1
  <2>3. p[e + d] = y * x /\ x \in Nat /\ y \in Nat /\ y % n = 1
    <3>1. p[e + d] = p[d] * p[e]
      BY <1>6, <2>1, <2>2, PowersAdd
    <3>2. p[d] % n = 1
      BY <1>2 DEF Order
    <3> QED
      BY <1>7, <2>2, <3>1, <3>2
  <2>4. x % n = 1
    BY <1>9 DEF e
  <2> HIDE DEF x, y
  <2>5. (y * x) % n = 1
    <3>1. (y * (x % n)) % n = (y * x) % n
      <4>1. x \in Int /\ y \in Int
        BY <2>3
      <4> QED
        BY <1>1, <4>1, ProductModulo, Zenon
    <3>2. y * 1 = y
      BY <2>3
    <3> QED
      BY <2>3, <2>4, <3>1, <3>2
  <2>6. p[d * (k + 1)] % n = 1
    BY <2>1, <2>3, <2>5
  <2> QED
    BY <2>1, <2>6
<1> HIDE DEF T
<1>10. m \in T
  <2>1. \A k \in 0..m : k \in T
    BY <1>6, <1>8, <1>9, InductionUpTo
  <2> QED
    BY <1>6, <2>1
<1> QED
  BY <1>6, <1>10 DEF T

-----------------------------------------------------------------------------
(* Equal modulo n.                                                         *)
Alike(a, b, n) == a \in Int /\ b \in Int /\ a % n = b % n

(* It is an equivalence.                                                   *)
LEMMA AlikeIs ==
    ASSUME NEW n \in Nat, n > 0
    PROVE  /\ \A a \in Int : Alike(a, a, n)
           /\ \A a, b : Alike(a, b, n) => Alike(b, a, n)
           /\ \A a, b, c : Alike(a, b, n) /\ Alike(b, c, n) => Alike(a, c, n)
           /\ \A a \in Int : a % n \in 0..(n - 1) /\ Alike(a % n, a, n)
           /\ \A a, b \in 0..(n - 1) : Alike(a, b, n) => a = b
<1>1. \A a \in 0..(n - 1) : a % n = a
  BY SmallModulo
<1>2. \A a \in Int : a % n \in 0..(n - 1) /\ a % n \in Int
  OBVIOUS
<1> QED
  BY <1>1, <1>2 DEF Alike

(* Sums, differences and products of what is alike are.                    *)
LEMMA AlikeKeeps ==
    ASSUME NEW n \in Nat, n > 0, NEW a, NEW b, NEW c, NEW d,
           Alike(a, b, n), Alike(c, d, n)
    PROVE  Alike(a + c, b + d, n) /\ Alike(a - c, b - d, n) /\ Alike(a * c, b * d, n)
<1> DEFINE v == (a - b) \div n
           w == (c - d) \div n
<1>1. a \in Int /\ b \in Int /\ c \in Int /\ d \in Int /\ a % n = b % n /\ c % n = d % n
  BY DEF Alike
<1>2. a - b = n * v /\ v \in Int
  <2> DEFINE x == a - b
  <2>1. x \in Int /\ x % n = 0
    <3>1. x % n = 0 <=> a % n = b % n
      BY <1>1, SameModulo, Zenon
    <3> QED
      BY <1>1, <3>1
  <2> HIDE DEF x
  <2> QED
    BY <2>1, MultipleModulo DEF x
<1>3. c - d = n * w /\ w \in Int
  <2> DEFINE x == c - d
  <2>1. x \in Int /\ x % n = 0
    <3>1. x % n = 0 <=> c % n = d % n
      BY <1>1, SameModulo, Zenon
    <3> QED
      BY <1>1, <3>1
  <2> HIDE DEF x
  <2> QED
    BY <2>1, MultipleModulo DEF x
<1> HIDE DEF v, w
<1>4. ASSUME NEW x \in Int, NEW y \in Int, NEW z \in Int, x = y + n * z
      PROVE  Alike(x, y, n)
  <2>1. x % n = y % n
    BY <1>4, Congruent
  <2> QED
    BY <2>1 DEF Alike
<1>5. Alike(a + c, b + d, n)
  <2>1. a + c = (b + d) + n * (v + w) /\ a + c \in Int /\ b + d \in Int /\ v + w \in Int
    BY <1>1, <1>2, <1>3
  <2> QED
    BY <1>4, <2>1
<1>6. Alike(a - c, b - d, n)
  <2>1. a - c = (b - d) + n * (v - w) /\ a - c \in Int /\ b - d \in Int /\ v - w \in Int
    BY <1>1, <1>2, <1>3
  <2> QED
    BY <1>4, <2>1
<1>7. Alike(a * c, b * d, n)
  <2> DEFINE z == v * c + b * w
  <2>1. a * c = b * d + n * z
    <3>1. a = b + n * v /\ c = d + n * w
      BY <1>1, <1>2, <1>3
    <3>2. (b + n * v) * c = b * c + n * (v * c)
      BY <1>1, <1>2
    <3>3. b * (d + n * w) = b * d + n * (b * w)
      BY <1>1, <1>3
    <3>4. n * (v * c + b * w) = n * (v * c) + n * (b * w)
      BY <1>1, <1>2, <1>3
    <3> DEFINE s == n * (v * c)
               t == n * (b * w)
               x == a * c
               y == b * c
               u == b * d
    <3>5. x = y + s /\ y = u + t /\ n * z = s + t
      BY <3>1, <3>2, <3>3, <3>4
    <3>6. s \in Int /\ t \in Int /\ u \in Int
      BY <1>1, <1>2, <1>3
    <3> HIDE DEF s, t, x, y, u, z
    <3>7. x = u + n * z
      BY <3>5, <3>6
    <3> QED
      BY <3>7 DEF x, u
  <2>2. a * c \in Int /\ b * d \in Int /\ z \in Int
    BY <1>1, <1>2, <1>3
  <2> HIDE DEF z
  <2> QED
    BY <1>4, <2>1, <2>2
<1> QED
  BY <1>5, <1>6, <1>7

(* A factor that is not zero can be taken away, and a product is zero only *)
(* with a factor.                                                          *)
LEMMA AlikeCancels ==
    ASSUME NEW n, Prime(n), NEW a, NEW b
    PROVE  /\ \A s \in Int : a \in Int /\ b \in Int /\ Alike(s * a, s * b, n) /\ ~Alike(s, 0, n)
                             => Alike(a, b, n)
           /\ a \in Int /\ b \in Int /\ Alike(a * b, 0, n) => Alike(a, 0, n) \/ Alike(b, 0, n)
           /\ Alike(a, b, n) <=> a \in Int /\ b \in Int /\ Alike(a - b, 0, n)
<1>1. n \in Nat /\ n > 0 /\ 0 \in Int /\ 0 % n = 0
  <2>1. n \in Nat /\ n > 0
    BY DEF Prime
  <2> QED
    BY <2>1, SmallModulo
<1>2. ASSUME NEW s \in Int, a \in Int, b \in Int, Alike(s * a, s * b, n), ~Alike(s, 0, n)
      PROVE  Alike(a, b, n)
  <2>1. s % n # 0 /\ (s * a) % n = (s * b) % n
    BY <1>1, <1>2 DEF Alike
  <2>2. a % n = b % n
    BY <1>2, <2>1, Cancels
  <2> QED
    BY <1>2, <2>2 DEF Alike
<1>3. ASSUME a \in Int, b \in Int, Alike(a * b, 0, n) PROVE Alike(a, 0, n) \/ Alike(b, 0, n)
  <2>1. (a * b) % n = 0
    BY <1>1, <1>3 DEF Alike
  <2>2. a % n = 0 \/ b % n = 0
    BY <1>3, <2>1, PrimeDivides
  <2> QED
    BY <1>1, <1>3, <2>2 DEF Alike
<1>4. ASSUME a \in Int, b \in Int PROVE Alike(a, b, n) <=> Alike(a - b, 0, n)
  <2>1. (a - b) % n = 0 <=> a % n = b % n
    BY <1>1, <1>4, SameModulo
  <2>2. a - b \in Int
    BY <1>4
  <2> QED
    BY <1>1, <1>4, <2>1, <2>2 DEF Alike
<1> QED
  BY <1>2, <1>3, <1>4 DEF Alike

(* Every number that is not zero has an inverse.                           *)
LEMMA AlikeInverts ==
    ASSUME NEW n, Prime(n), NEW a \in 1..(n - 1)
    PROVE  \E i \in 1..(n - 1) : (a * i) % n = 1
<1> DEFINE p == Powers(a, n)
           i == p[n - 2] % n
<1>1. n \in Nat /\ n > 0 /\ n >= 2 /\ a \in Nat /\ a % n = a /\ a # 0 /\ n - 2 \in 0..n
      /\ n - 1 <= n /\ n - 1 \in 1..n /\ (n - 1) - 1 = n - 2
  <2>1. n \in Nat /\ n > 0 /\ n >= 2
    BY DEF Prime
  <2>2. a \in 0..(n - 1)
    BY <2>1
  <2> QED
    BY <2>1, <2>2, SmallModulo
<1>2. p \in [0..n -> Nat] /\ p[n - 1] = a * p[n - 2]
  <2>1. p \in [0..n -> Nat] /\ \A k \in 1..n : p[k] = a * p[k - 1]
    BY <1>1, PowersAre
  <2> HIDE DEF p
  <2>2. p[n - 1] = a * p[(n - 1) - 1]
    BY <1>1, <2>1
  <2> QED
    BY <1>1, <2>1, <2>2
<1>3. p[n - 1] % n = 1
  BY <1>1, Fermat
<1> HIDE DEF p
<1>4. (a * i) % n = (a * p[n - 2]) % n
  <2> DEFINE q == p[n - 2]
  <2>1. q \in Int /\ a \in Int
    BY <1>1, <1>2
  <2> HIDE DEF q
  <2>2. (a * (q % n)) % n = (a * q) % n
    BY <1>1, <2>1, ProductModulo, Zenon
  <2> QED
    BY <2>2 DEF q
<1>5. (a * i) % n = 1
  BY <1>2, <1>3, <1>4
<1>6. i \in 0..(n - 1)
  BY <1>1, <1>2
<1>7. i # 0
  <2> SUFFICES ASSUME i = 0 PROVE FALSE
    OBVIOUS
  <2>1. a * i = 0
    BY <1>1
  <2> HIDE DEF i
  <2>2. 0 % n = 0
    BY <1>1, SmallModulo
  <2> QED
    BY <1>5, <2>1, <2>2
<1> HIDE DEF i
<1>8. i \in 1..(n - 1)
  BY <1>1, <1>6, <1>7
<1> QED
  BY <1>5, <1>8
=============================================================================
