----------------------------- MODULE Keys_proof -----------------------------
(***************************************************************************)
(* Proofs about the calls that use keys: signatures verify, an address is  *)
(* the one that follows from the extended public key (WalletKeys), the     *)
(* text of an address is that of its bytes (Base58), the arithmetic on     *)
(* bytes is that of the field (BigNum), and what is made of a scalar is    *)
(* that multiple of the base point (PointMultiply; all three as KeyCalls   *)
(* calls them).  Each is proved for every size of numbers, field, group    *)
(* order, curve and input.                                                 *)
(***************************************************************************)
EXTENDS KeyCalls, Recursion, SequenceTheorems

(* The model's powers of a byte are powers.                                *)
LEMMA PowerIs ==
    /\ Power \in [0..Size -> Nat] /\ Power[0] = 1
    /\ \A i \in 1..Size : Power[i] = Base * Power[i - 1]
<1> DEFINE step == [i \in 1..Size |-> [x \in Nat |-> Base * x]]
           rest == Power
<1>1. Size \in Nat /\ Base \in Nat /\ 1 \in Nat
  BY KeysAssumption
<1>2. step \in [1..Size -> [Nat -> Nat]]
  BY <1>1
<1>3. \A i \in 1..Size : \A x \in Nat : step[i][x] = Base * x
  OBVIOUS
<1> HIDE DEF step
<1>4. PICK f : Runs(f, Size, Nat, 1, step)
  BY <1>1, <1>2, RecursionUpTo
<1>5. f = [i \in 0..Size |-> IF i = 0 THEN 1 ELSE Base * f[i - 1]]
  <2>1. \A i \in 1..Size : i - 1 \in 0..Size
    BY <1>1
  <2>2. \A i \in 1..Size : f[i] = Base * f[i - 1]
    BY <1>3, <1>4, <2>1 DEF Runs
  <2>3. \A i \in 0..Size : f[i] = IF i = 0 THEN 1 ELSE Base * f[i - 1]
    BY <1>1, <1>4, <2>2 DEF Runs
  <2> QED
    BY <1>4, <2>3 DEF Runs
<1>6. rest = [i \in 0..Size |-> IF i = 0 THEN 1 ELSE Base * rest[i - 1]]
  BY <1>5 DEF Power, rest
<1> HIDE DEF rest
<1>7. \A i \in 1..Size : rest[i] = Base * rest[i - 1]
  <2>1. \A i \in 1..Size : i \in 0..Size /\ i # 0
    BY <1>1
  <2> QED
    BY <1>6, <2>1
<1>8. Runs(rest, Size, Nat, 1, step)
  <2>1. rest = [i \in 0..Size |-> rest[i]] /\ rest[0] = 1
    BY <1>1, <1>6
  <2>2. \A i \in 1..Size : rest[i - 1] \in Nat => rest[i] = step[i][rest[i - 1]]
    BY <1>3, <1>7
  <2> QED
    BY <1>1, <1>2, <2>1, <2>2, RecursionOnly
<1> QED
  BY <1>7, <1>8 DEF Runs, rest

(* A number without its lowest bytes, none, one, two...                    *)
(* (WalletKeys!Rests).                                                     *)
LEMMA RestsAre ==
    ASSUME NEW v \in Nat, NEW size \in Nat
    PROVE  /\ Rests(v, size) \in [0..size -> Nat] /\ Rests(v, size)[0] = v
           /\ \A i \in 1..size : Rests(v, size)[i] = Rests(v, size)[i - 1] \div Base
<1> DEFINE step == [i \in 1..size |-> [x \in Nat |-> x \div Base]]
           rest == Rests(v, size)
<1>1. Base \in Nat /\ Base > 0
  BY KeysAssumption
<1>2. step \in [1..size -> [Nat -> Nat]]
  BY <1>1, Halves
<1>3. \A i \in 1..size : \A x \in Nat : step[i][x] = x \div Base
  OBVIOUS
<1> HIDE DEF step
<1>4. PICK f : Runs(f, size, Nat, v, step)
  BY <1>2, RecursionUpTo
<1>5. f = [i \in 0..size |-> IF i = 0 THEN v ELSE f[i - 1] \div Base]
  <2>1. \A i \in 1..size : i - 1 \in 0..size
    OBVIOUS
  <2>2. \A i \in 1..size : f[i] = f[i - 1] \div Base
    BY <1>3, <1>4, <2>1, SMTT(30) DEF Runs
  <2>3. \A i \in 0..size : f[i] = IF i = 0 THEN v ELSE f[i - 1] \div Base
    BY <1>4, <2>2 DEF Runs
  <2> QED
    BY <1>4, <2>3 DEF Runs
<1>6. rest = [i \in 0..size |-> IF i = 0 THEN v ELSE rest[i - 1] \div Base]
  BY <1>5 DEF Rests
<1> HIDE DEF rest
<1>7. Runs(rest, size, Nat, v, step)
  <2>1. rest = [i \in 0..size |-> rest[i]] /\ rest[0] = v
    BY <1>6
  <2>2. \A i \in 1..size : rest[i - 1] \in Nat => rest[i] = step[i][rest[i - 1]]
    BY <1>3, <1>6
  <2> QED
    BY <1>2, <2>1, <2>2, RecursionOnly
<1>8. \A i \in 1..size : rest[i] = rest[i - 1] \div Base
  BY <1>6
<1> QED
  BY <1>7, <1>8 DEF Runs, rest

(* Its lowest bytes in the opposite order (WalletKeys!Turning).            *)
LEMMA TurningIs ==
    ASSUME NEW v \in Nat, NEW size \in Nat
    PROVE  /\ Turning(v, size) \in [0..size -> Nat] /\ Turning(v, size)[0] = 0
           /\ \A i \in 1..size :
                 Turning(v, size)[i] =
                     Base * Turning(v, size)[i - 1] + (Rests(v, size)[i - 1] % Base)
<1> DEFINE rest == Rests(v, size)
           step == [i \in 1..size |-> [x \in Nat |-> Base * x + (rest[i - 1] % Base)]]
           t == Turning(v, size)
<1>1. Base \in Nat /\ Base > 0
  BY KeysAssumption
<1>2. \A i \in 1..size : i - 1 \in 0..size /\ rest[i - 1] % Base \in Nat
  <2>1. ASSUME NEW i \in 1..size PROVE i - 1 \in 0..size /\ rest[i - 1] \in Nat
    BY RestsAre
  <2> QED
    BY <1>1, <2>1, Division
<1>3. Turning(v, size) = CHOOSE h : h = [i \in 0..size |->
                            IF i = 0 THEN 0 ELSE Base * h[i - 1] + (rest[i - 1] % Base)]
  BY DEF Turning
<1> HIDE DEF rest
<1>4. step \in [1..size -> [Nat -> Nat]]
  BY <1>1, <1>2
<1>5. \A i \in 1..size : \A x \in Nat : step[i][x] = Base * x + (rest[i - 1] % Base)
  OBVIOUS
<1> HIDE DEF step
<1>6. PICK f : Runs(f, size, Nat, 0, step)
  BY <1>4, RecursionUpTo
<1>7. f = [i \in 0..size |-> IF i = 0 THEN 0 ELSE Base * f[i - 1] + (rest[i - 1] % Base)]
  <2>1. \A i \in 1..size : f[i] = Base * f[i - 1] + (rest[i - 1] % Base)
    BY <1>2, <1>5, <1>6, SMTT(30) DEF Runs
  <2>2. \A i \in 0..size :
           f[i] = IF i = 0 THEN 0 ELSE Base * f[i - 1] + (rest[i - 1] % Base)
    BY <1>6, <2>1 DEF Runs
  <2> QED
    BY <1>6, <2>2 DEF Runs
<1>8. t = [i \in 0..size |-> IF i = 0 THEN 0 ELSE Base * t[i - 1] + (rest[i - 1] % Base)]
  BY <1>3, <1>7
<1> HIDE DEF t
<1>9. Runs(t, size, Nat, 0, step)
  <2>1. t = [i \in 0..size |-> t[i]] /\ t[0] = 0
    BY <1>8
  <2>2. \A i \in 1..size : t[i - 1] \in Nat => t[i] = step[i][t[i - 1]]
    BY <1>5, <1>8
  <2> QED
    BY <1>4, <2>1, <2>2, RecursionOnly
<1>10. \A i \in 1..size : t[i] = Base * t[i - 1] + (rest[i - 1] % Base)
  BY <1>8
<1> QED
  BY <1>9, <1>10 DEF Runs, rest, t

(* A number of some bytes has that many, and one less without the lowest.  *)
LEMMA RestsFit ==
    ASSUME NEW size \in 0..Size, NEW v \in 0..(Power[size] - 1)
    PROVE  \A i \in 0..size : Rests(v, size)[i] \in 0..(Power[size - i] - 1)
<1> DEFINE rest == Rests(v, size)
           T == {i \in 0..size : rest[i] \in 0..(Power[size - i] - 1)}
<1>1. Size \in Nat /\ size \in Nat /\ Base \in Nat /\ Base > 0
  BY KeysAssumption
<1>2. v \in Nat
  <2>1. Power[size] \in Nat
    BY PowerIs
  <2> QED
    BY <2>1
<1>3. /\ rest \in [0..size -> Nat] /\ rest[0] = v
      /\ \A i \in 1..size : rest[i] = rest[i - 1] \div Base
  BY <1>1, <1>2, RestsAre
<1> HIDE DEF rest
<1>4. 0 \in T
  BY <1>1, <1>3
<1>5. ASSUME NEW i \in 0..size, i < size, i \in T PROVE i + 1 \in T
  <2> DEFINE j == size - (i + 1)
             k == size - i
             p == Power[j]
             q == rest[i] \div Base
  <2>1. /\ i + 1 \in 1..size /\ i + 1 \in 0..size /\ (i + 1) - 1 = i
        /\ k \in 1..Size /\ k - 1 = j /\ j \in 0..Size
    BY <1>1, <1>5
  <2> HIDE DEF j, k
  <2>2. p \in Nat /\ Power[k] = Base * p
    <3>1. Power[k] = Base * Power[k - 1]
      BY <2>1, PowerIs
    <3> QED
      BY <2>1, <3>1, PowerIs
  <2>3. rest[i] \in Nat /\ rest[i] < Base * p /\ rest[i + 1] = q
    <3>1. rest[i] \in 0..(Power[k] - 1) /\ Power[k] \in Nat
      BY <1>5, <2>1, PowerIs DEF k
    <3>2. rest[i + 1] = rest[i] \div Base
      BY <1>3, <2>1
    <3> QED
      BY <2>2, <3>1, <3>2
  <2>4. q \in Nat /\ rest[i] % Base \in 0..(Base - 1) /\ rest[i] = Base * q + (rest[i] % Base)
    <3> DEFINE x == rest[i]
    <3>1. x \in Nat
      BY <2>3
    <3> HIDE DEF x
    <3> QED
      BY <1>1, <3>1, Halves, Division, SMTT(30) DEF x
  <2> HIDE DEF p, q
  <2>5. ~(p <= q)
    <3>1. p <= q => Base * p <= Base * q
      BY <1>1, <2>2, <2>4, Bigger
    <3> QED
      BY <1>1, <2>2, <2>3, <2>4, <3>1
  <2>6. q \in 0..(p - 1)
    BY <2>2, <2>4, <2>5
  <2> QED
    BY <2>1, <2>3, <2>6 DEF p, j
<1> HIDE DEF T
<1>6. \A i \in 0..size : i \in T
  BY <1>1, <1>4, <1>5, InductionUpTo
<1> QED
  BY <1>6 DEF T, rest

(* As many bytes turned round are worth less than the power.               *)
LEMMA TurningFits ==
    ASSUME NEW size \in 0..Size, NEW v \in Nat
    PROVE  \A i \in 0..size : Turning(v, size)[i] \in 0..(Power[i] - 1)
<1> DEFINE t == Turning(v, size)
           rest == Rests(v, size)
           T == {i \in 0..size : t[i] \in 0..(Power[i] - 1)}
<1>1. Size \in Nat /\ size \in Nat /\ Base \in Nat /\ Base > 0
  BY KeysAssumption
<1>2. rest \in [0..size -> Nat]
  BY <1>1, RestsAre
<1>3. /\ t \in [0..size -> Nat] /\ t[0] = 0
      /\ \A i \in 1..size : t[i] = Base * t[i - 1] + (rest[i - 1] % Base)
  BY <1>1, TurningIs
<1> HIDE DEF rest, t
<1>4. 0 \in T
  BY <1>1, <1>3, PowerIs
<1>5. ASSUME NEW i \in 0..size, i < size, i \in T PROVE i + 1 \in T
  <2>1. /\ i + 1 \in 1..size /\ i + 1 \in 0..size /\ (i + 1) - 1 = i
        /\ i + 1 \in 1..Size /\ i \in 0..Size
    BY <1>1, <1>5
  <2> DEFINE p == Power[i]
             d == rest[i] % Base
  <2>2. p \in Nat /\ Power[i + 1] = Base * p
    BY <2>1, PowerIs
  <2>3. t[i] \in Nat /\ t[i] <= p - 1 /\ t[i + 1] = Base * t[i] + d
    BY <1>3, <1>5, <2>1, <2>2
  <2>4. d \in 0..(Base - 1)
    <3>1. rest[i] \in Int
      BY <1>2
    <3> QED
      BY <1>1, <3>1, Division
  <2> HIDE DEF p, d
  <2>5. Base * t[i] <= Base * (p - 1)
    BY <1>1, <2>2, <2>3, Bigger
  <2>6. Base * (p - 1) = Base * p - Base
    BY <1>1, <2>2
  <2>7. Base * t[i] \in Nat /\ Base * p \in Nat
    BY <1>1, <2>2, <2>3
  <2>8. t[i + 1] \in 0..(Base * p - 1)
    BY <1>1, <2>3, <2>4, <2>5, <2>6, <2>7
  <2> QED
    BY <2>1, <2>2, <2>8
<1> HIDE DEF T
<1>6. \A i \in 0..size : i \in T
  BY <1>1, <1>4, <1>5, InductionUpTo
<1> QED
  BY <1>6 DEF T, t

(* A number of size bytes is one of size bytes when they are swapped.      *)
LEMMA SwappedFits ==
    ASSUME NEW size \in 0..Size, NEW v \in Nat
    PROVE  Swapped(v, size) \in 0..(Power[size] - 1)
<1>1. size \in 0..size
  BY KeysAssumption
<1> QED
  BY <1>1, TurningFits DEF Swapped

(* Swapped twice it is itself: what is left of the swapped number after    *)
(* some bytes is what has been turned of the number when as many are left, *)
(* and the other way round.                                                *)
LEMMA SwappedBack ==
    ASSUME NEW size \in 0..Size, NEW v \in 0..(Power[size] - 1)
    PROVE  Swapped(Swapped(v, size), size) = v
<1> DEFINE rest == Rests(v, size)
           t == Turning(v, size)
           w == Swapped(v, size)
           rest2 == Rests(w, size)
           t2 == Turning(w, size)
           T == {i \in 0..size : rest2[i] = t[size - i] /\ t2[i] = rest[size - i]}
<1>1. Size \in Nat /\ size \in Nat /\ Base \in Nat /\ Base > 0 /\ size \in 0..size
  BY KeysAssumption
<1>2. Power \in [0..Size -> Nat] /\ Power[0] = 1
  BY PowerIs
<1>3. v \in Nat /\ w \in Nat
  <2>1. v \in Nat
    BY <1>2
  <2> QED
    BY <1>2, <2>1, SwappedFits
<1>4. /\ rest \in [0..size -> Nat] /\ rest[0] = v
      /\ \A i \in 1..size : rest[i] = rest[i - 1] \div Base
  BY <1>1, <1>3, RestsAre
<1>5. rest[size] = 0
  <2>1. rest[size] \in 0..(Power[size - size] - 1)
    BY <1>1, RestsFit
  <2>2. size - size = 0
    BY <1>1
  <2> QED
    BY <1>2, <2>1, <2>2
<1>6. /\ t \in [0..size -> Nat] /\ t[0] = 0
      /\ \A i \in 1..size : t[i] = Base * t[i - 1] + (rest[i - 1] % Base)
  BY <1>1, <1>3, TurningIs
<1>7. w = t[size]
  BY DEF Swapped
<1> HIDE DEF w
<1>8. rest2[0] = w /\ \A i \in 1..size : rest2[i] = rest2[i - 1] \div Base
  BY <1>1, <1>3, RestsAre
<1>9. t2[0] = 0 /\ \A i \in 1..size : t2[i] = Base * t2[i - 1] + (rest2[i - 1] % Base)
  BY <1>1, <1>3, TurningIs
<1>10. Swapped(w, size) = t2[size]
  BY DEF Swapped
<1> HIDE DEF rest, t, rest2, t2
<1>11. 0 \in T
  BY <1>1, <1>5, <1>7, <1>8, <1>9
<1>12. ASSUME NEW i \in 0..size, i < size, i \in T PROVE i + 1 \in T
  <2> DEFINE j == size - (i + 1)
             k == size - i
             q == rest[j] \div Base
             d == rest[j] % Base
  <2>1. /\ i + 1 \in 1..size /\ i + 1 \in 0..size /\ (i + 1) - 1 = i
        /\ k \in 1..size /\ k - 1 = j /\ j \in 0..size
    BY <1>1, <1>12
  <2>2. rest2[i] = t[k] /\ t2[i] = rest[k]
    BY <1>12
  <2> HIDE DEF j, k
  <2>3. rest[j] \in Nat /\ t[j] \in Nat
    BY <1>4, <1>6, <2>1
  <2>4. q \in Int /\ d \in 0..(Base - 1) /\ rest[j] = Base * q + d
    BY <1>1, <2>3, Division
  <2>5. t[k] = Base * t[j] + d /\ rest[k] = q
    <3>1. t[k] = Base * t[k - 1] + (rest[k - 1] % Base) /\ rest[k] = rest[k - 1] \div Base
      BY <1>4, <1>6, <2>1
    <3> QED
      BY <2>1, <3>1
  <2> HIDE DEF q, d
  <2>6. t[k] \div Base = t[j] /\ t[k] % Base = d
    <3> DEFINE x == t[j]
    <3>1. x \in Int
      BY <2>3
    <3> HIDE DEF x
    <3>2. (Base * x + d) \div Base = x /\ (Base * x + d) % Base = d
      BY <1>1, <2>4, <3>1, Quotient
    <3> QED
      BY <2>5, <3>2 DEF x
  <2>7. rest2[i + 1] = t[j]
    BY <1>8, <2>1, <2>2, <2>6
  <2>8. t2[i + 1] = rest[j]
    BY <1>9, <2>1, <2>2, <2>4, <2>5, <2>6
  <2> QED
    BY <2>1, <2>7, <2>8 DEF j
<1> HIDE DEF T
<1>13. \A i \in 0..size : i \in T
  BY <1>1, <1>11, <1>12, InductionUpTo
<1>14. t2[size] = rest[0]
  <2>1. size - size = 0
    BY <1>1
  <2> QED
    BY <1>1, <1>13, <2>1 DEF T
<1> QED
  BY <1>4, <1>10, <1>14 DEF w

(* What is assumed of the field and the group order.                       *)
LEMMA LimitIs ==
    /\ Limit \in Nat /\ N \in Nat /\ P \in Nat /\ N > 0
    /\ N < Limit /\ P < Limit /\ 2 * N > Limit
<1>1. Size \in Nat /\ N \in Nat /\ P \in Nat /\ N < P /\ P < Limit /\ 2 * N > Limit
  BY KeysAssumption
<1>2. Limit \in Nat
  <2>1. Size \in 0..Size
    BY <1>1
  <2> QED
    BY <2>1, PowerIs DEF Limit
<1> QED
  BY <1>1, <1>2

(* Swap, the change of byte order of bigFillFromBytes and bigToBytes,      *)
(* undoes itself (bignum256.c:93-130).                                     *)
LEMMA SwapIs ==
    ASSUME NEW v \in 0..(Limit - 1)
    PROVE  Swap(v) \in 0..(Limit - 1) /\ Swap(Swap(v)) = v
<1>1. Size \in 0..Size /\ v \in Nat
  BY KeysAssumption, LimitIs
<1>2. Swap(v) \in 0..(Limit - 1)
  BY <1>1, SwappedFits DEF Swap, Limit
<1>3. Swap(Swap(v)) = v
  BY <1>1, SwappedBack DEF Swap, Limit
<1> QED
  BY <1>2, <1>3

(* bigAdd, of a number of the field and any other, is their sum modulo N.  *)
LEMMA bigAddIs ==
    ASSUME NEW a \in 0..(N - 1), NEW b \in 0..(Limit - 1)
    PROVE  bigAdd(a, b, N) \in 0..(Limit - 1) /\ bigAdd(a, b, N) % N = (a + b) % N
<1>1. CASE a + b < N
  BY <1>1, LimitIs DEF bigAdd
<1>2. CASE ~(a + b < N)
  <2> DEFINE d == a + b - N
  <2>1. d \in 0..(Limit - 1) /\ d \in Int /\ Limit \in Nat /\ Limit > 0
    BY <1>2, LimitIs
  <2>2. bigAdd(a, b, N) = d % Limit
    BY <1>2 DEF bigAdd
  <2>3. a + b = d + N * 1
    BY LimitIs
  <2> HIDE DEF d
  <2>4. d % Limit = d
    BY <2>1, SmallModulo
  <2>5. (d + N * 1) % N = d % N
    BY <2>1, LimitIs, Congruent
  <2> QED
    BY <2>1, <2>2, <2>3, <2>4, <2>5
<1> QED
  BY <1>1, <1>2

(* z is s times c plus y, modulo n.                                        *)
IsSum(z, s, c, y, n) == z % n = (((s * c) % n) + y) % n
(* z less c times s is y, modulo n.                                        *)
GivesBack(z, s, c, y, n) == (z - c * (s % n)) % n = y % n
(* The second follows from the first.                                      *)
LEMMA Verifies ==
    ASSUME NEW n \in Nat, n > 0, NEW s \in Nat, NEW c \in Nat, NEW y \in Nat, NEW z \in Nat,
           IsSum(z, s, c, y, n)
    PROVE  GivesBack(z, s, c, y, n)
<1> DEFINE sc == s * c
           m == sc % n
           my == m + y
           q1 == z \div n
           d == z % n
           q2 == sc \div n
           q3 == my \div n
           q4 == s \div n
           u == s % n
<1>1. sc \in Int
  OBVIOUS
<1>2. q1 \in Int /\ d \in 0..(n - 1) /\ z = n * q1 + d
  BY Division
<1>3. q4 \in Int /\ u \in 0..(n - 1) /\ s = n * q4 + u
  BY Division
<1> HIDE DEF sc, q1, q4, u
<1>4. q2 \in Int /\ m \in 0..(n - 1) /\ sc = n * q2 + m
  BY <1>1, Division
<1> HIDE DEF q2, m
<1>5. my \in Int /\ my = m + y
  BY <1>4
<1>6. d = my % n
  BY DEF m, sc, IsSum
<1> HIDE DEF my, d
<1>7. q3 \in Int /\ my = n * q3 + d
  BY <1>5, <1>6, Division
<1> HIDE DEF q3
<1>8. c * u = sc - n * (c * q4)
  <2>1. c * s = c * (n * q4) + c * u
    BY <1>3
  <2>2. c * (n * q4) = n * (c * q4)
    BY <1>3
  <2> QED
    BY <1>3, <2>1, <2>2 DEF sc
<1> DEFINE k == q1 - q3 - q2 + c * q4
<1>9. k \in Int
  BY <1>2, <1>3, <1>4, <1>7
<1>10. n * k = n * q1 - n * q3 - n * q2 + n * (c * q4)
  BY <1>2, <1>3, <1>4, <1>7
<1> HIDE DEF k
<1>11. z - c * u = y + n * k
  <2> DEFINE a1 == n * q1
             a2 == n * q2
             a3 == n * q3
             a4 == n * (c * q4)
             cu == c * u
             nk == n * k
  <2>1. a1 \in Int /\ a2 \in Int /\ a3 \in Int /\ a4 \in Int
    BY <1>2, <1>3, <1>4, <1>7
  <2>2. z = a1 + d /\ sc = a2 + m /\ my = a3 + d /\ cu = sc - a4 /\ nk = a1 - a3 - a2 + a4
    BY <1>2, <1>4, <1>7, <1>8, <1>10
  <2> HIDE DEF a1, a2, a3, a4, cu, nk
  <2>3. z - cu = y + nk
    BY <1>1, <1>2, <1>4, <1>5, <2>1, <2>2
  <2> QED
    BY <2>3 DEF cu, nk
<1>12. (y + n * k) % n = y % n
  <2>1. y \in Int
    OBVIOUS
  <2> QED
    BY <1>9, <2>1, Congruent, Zenon
<1>13. (z - c * u) % n = y % n
  <2> DEFINE cu == c * u
             nk == n * k
  <2>1. z - cu = y + nk /\ (y + nk) % n = y % n
    BY <1>11, <1>12
  <2> HIDE DEF cu, nk
  <2>2. (z - cu) % n = y % n
    BY <2>1
  <2> QED
    BY <2>2 DEF cu
<1> QED
  BY <1>13 DEF u, GivesBack

-----------------------------------------------------------------------------
(* What fits in Size bytes.                                                *)
Numbers == 0..(Limit - 1)

(* What the buffers and the field hold.                                    *)
NumbersOK ==
    /\ field \in {0, P, N} /\ sk \in Numbers
    /\ node = [master |-> node.master, key |-> node.key, chain |-> node.chain]
    /\ node.key \in Numbers
    /\ \A q \in DOMAIN hmac : hmac[q].key \in Hashes

(* The signature s is the one that key k makes with the nonce y.           *)
Signs(s, k, y) ==
    /\ s.w = Point(y) /\ s.pk = Point(k)
    /\ s.z = Swap(bigAdd(bigMultiply(k, ChallengeNumber(s.c), N), y, N))
(* Each signature was made with its key and some nonce.                    *)
SignedFor ==
    signed.c # 0 => signed.c \in Challenges /\ \E y \in Numbers : Signs(signed, sk, y)

(* The constants a caller may pass are numbers of Size bytes.              *)
LEMMA ConstantsFit ==
    /\ MasterKeys \subseteq Numbers /\ Hashes \subseteq Numbers
    /\ Randoms \subseteq Numbers /\ Keys \subseteq Numbers
BY KeysAssumption DEF Numbers

(* Swap, for them.                                                         *)
LEMMA SwapFits == \A v \in Numbers : Swap(v) \in Numbers /\ Swap(Swap(v)) = v
BY SwapIs DEF Numbers

(* The nonce of a signature is a number of Size bytes.                     *)
LEMMA NonceFits ==
    ASSUME NumbersOK, NEW random \in Randoms, NEW nonce \in Nonce(random)
    PROVE  nonce \in Numbers
<1>1. random \in 0..(Limit - 1) /\ Limit \in Nat /\ N \in Nat /\ P \in Nat
  BY ConstantsFit, LimitIs DEF Numbers
<1>2. CASE field = 0
  BY <1>1, <1>2 DEF Nonce, Numbers
<1>3. CASE field # 0
  <2>1. field \in Nat /\ nonce = bigModulo(random, field)
    BY <1>1, <1>3 DEF NumbersOK, Nonce
  <2> QED
    BY <1>1, <2>1 DEF bigModulo, Numbers
<1> QED
  BY <1>2, <1>3

(* The child of a node with the hmac of its input, as h has it.            *)
Child(h, a, steps, index) ==
    LET input == HmacInput(a, steps, index)
    IN  [master |-> a.master, chain |-> h[input].chain,
         key |-> Swap(bigAdd(Swap(h[input].key), Swap(a.key), N))]
(* The hmac of the child's input is known, its left half is in range, and  *)
(* b is the child.                                                         *)
Leads(h, a, steps, index, b) ==
    LET input == HmacInput(a, steps, index)
    IN  /\ a.key \in Numbers /\ input \in DOMAIN h /\ h[input].key \in Numbers
        /\ Swap(h[input].key) < N /\ b = Child(h, a, steps, index)
(* h2 knows what h knows, the same.                                        *)
Grows(h, h2) == \A q \in DOMAIN h : q \in DOMAIN h2 /\ h2[q] = h[q]
(* All keys that are known are hashes.                                     *)
KeysOf(h) == \A q \in DOMAIN h : h[q].key \in Hashes

(* A node's child is a node.                                               *)
LEMMA ChildFits ==
    ASSUME NEW h, NEW a, NEW steps, NEW index, NEW b, Leads(h, a, steps, index, b)
    PROVE  /\ b = [master |-> a.master, key |-> b.key, chain |-> b.chain]
           /\ b.key \in Numbers
<1> DEFINE input == HmacInput(a, steps, index)
           left == Swap(h[input].key)
           sum == bigAdd(left, Swap(a.key), N)
<1>1. a.key \in Numbers /\ h[input].key \in Numbers /\ left < N
      /\ b = [master |-> a.master, chain |-> h[input].chain, key |-> Swap(sum)]
  BY DEF Leads, Child
<1>2. left \in 0..(N - 1) /\ Swap(a.key) \in 0..(Limit - 1)
  <2>1. left \in Numbers /\ Swap(a.key) \in Numbers
    BY <1>1, SwapFits
  <2> HIDE DEF left
  <2> QED
    BY <1>1, <2>1, LimitIs DEF Numbers
<1> HIDE DEF left
<1>3. sum \in Numbers
  BY <1>2, bigAddIs DEF Numbers
<1> HIDE DEF sum
<1>4. Swap(sum) \in Numbers
  BY <1>3, SwapFits
<1> QED
  BY <1>1, <1>4

(* A step down the path: it fails, or it leads to the child.               *)
LEMMA DeriveStepIs ==
    ASSUME NumbersOK, DeriveStep
    PROVE  /\ UNCHANGED <<call, path, xpub, address, key, sk, signed>>
           /\ call # "idle" /\ level < Len(path)
           /\ field' \in {field, P, N}
           /\ Grows(hmac, hmac') /\ KeysOf(hmac')
           /\ \/ /\ derived' = FALSE /\ level' = Len(path)
                 /\ \E garbage \in Hashes :
                       node' = [node EXCEPT !.key = garbage, !.chain = NoPoint]
              \/ /\ derived' = derived /\ level' = level + 1
                 /\ Leads(hmac', node, level, path[level + 1], node')
<1> DEFINE hardened == Hardened(level)
           k == Swap(node.key)
           input == HmacInput(node, level, path[level + 1])
           fieldNow == IF hardened THEN field ELSE P
           left == Swap(hmac'[input].key)
           sum == bigAdd(left, k, N)
           Known == IF input \in DOMAIN hmac THEN UNCHANGED hmac
                    ELSE \E hash \in Hashes :
                           hmac' = [q \in DOMAIN hmac \cup {input} |->
                                       IF q = input
                                       THEN [key |-> hash, chain |-> 1 + Cardinality(DOMAIN hmac)]
                                       ELSE hmac[q]]
<1>1. /\ UNCHANGED <<call, path, xpub, address, key, sk, signed>>
      /\ call # "idle" /\ level < Len(path)
      /\ \/ Fail(P) /\ UNCHANGED hmac
         \/ /\ Known
            /\ \/ left >= N /\ Fail(fieldNow)
               \/ Fail(N)
               \/ /\ left < N
                  /\ node' = [node EXCEPT !.key = Swap(sum), !.chain = hmac'[input].chain]
                  /\ level' = level + 1 /\ field' = N /\ UNCHANGED derived
  BY DEF DeriveStep, SumField
<1>2. fieldNow \in {field, P, N}
  OBVIOUS
<1>3. ASSUME Known
      PROVE  input \in DOMAIN hmac' /\ Grows(hmac, hmac') /\ KeysOf(hmac')
  <2> HIDE DEF input
  <2>1. CASE input \in DOMAIN hmac
    BY <1>3, <2>1 DEF Grows, KeysOf, NumbersOK
  <2>2. CASE input \notin DOMAIN hmac
    <3>1. PICK hash \in Hashes :
             hmac' = [q \in DOMAIN hmac \cup {input} |->
                         IF q = input
                         THEN [key |-> hash, chain |-> 1 + Cardinality(DOMAIN hmac)]
                         ELSE hmac[q]]
      BY <1>3, <2>2
    <3>2. \A q \in DOMAIN hmac : hmac[q].key \in Hashes
      BY DEF NumbersOK
    <3>3. DOMAIN hmac' = DOMAIN hmac \cup {input} /\ hmac'[input].key = hash
      BY <3>1
    <3>4. \A q \in DOMAIN hmac : hmac'[q] = hmac[q]
      BY <2>2, <3>1
    <3> QED
      BY <3>2, <3>3, <3>4 DEF Grows, KeysOf
  <2> QED
    BY <2>1, <2>2
<1>4. CASE Fail(P) /\ UNCHANGED hmac
  <2>1. Grows(hmac, hmac') /\ KeysOf(hmac')
    BY <1>4 DEF Grows, KeysOf, NumbersOK
  <2> QED
    BY <1>1, <1>4, <2>1 DEF Fail
<1>5. CASE Known /\ (Fail(fieldNow) \/ Fail(N))
  <2> HIDE DEF Known, fieldNow
  <2> QED
    BY <1>1, <1>2, <1>3, <1>5 DEF Fail
<1>6. CASE /\ Known /\ left < N
           /\ node' = [node EXCEPT !.key = Swap(sum), !.chain = hmac'[input].chain]
           /\ level' = level + 1 /\ field' = N /\ UNCHANGED derived
  <2>1. input \in DOMAIN hmac' /\ Grows(hmac, hmac') /\ KeysOf(hmac')
    BY <1>3, <1>6
  <2> HIDE DEF Known
  <2>2. node' = [master |-> node.master, chain |-> hmac'[input].chain, key |-> Swap(sum)]
    BY <1>6 DEF NumbersOK
  <2>3. hmac'[input].key \in Numbers /\ node.key \in Numbers
    BY <2>1, ConstantsFit DEF KeysOf, NumbersOK
  <2>4. Leads(hmac', node, level, path[level + 1], node')
    BY <1>6, <2>1, <2>2, <2>3 DEF Leads, Child
  <2> QED
    BY <1>1, <1>6, <2>1, <2>4
<1> QED
  BY <1>1, <1>4, <1>5, <1>6

(* At first the buffers hold nothing, and nothing is signed.               *)
LEMMA NumbersInit == Init => NumbersOK /\ SignedFor
<1> SUFFICES ASSUME Init PROVE NumbersOK /\ SignedFor
  OBVIOUS
<1>1. 0 \in Numbers
  BY LimitIs DEF Numbers
<1>2. DOMAIN hmac = {}
  BY DEF Init
<1>3. sk \in Numbers /\ field = 0 /\ signed.c = 0
  BY ConstantsFit DEF Init, Unsigned
<1>4. /\ node = [master |-> node.master, key |-> node.key, chain |-> node.chain]
      /\ node.key = 0
  BY DEF Init, NoNode
<1> QED
  BY <1>1, <1>2, <1>3, <1>4 DEF NumbersOK, SignedFor

(* No step leaves the numbers or signs with another key.                   *)
LEMMA NumbersStep == NumbersOK /\ SignedFor /\ [Next]_vars => NumbersOK' /\ SignedFor'
<1> SUFFICES ASSUME NumbersOK, SignedFor, [Next]_vars PROVE NumbersOK' /\ SignedFor'
  OBVIOUS
<1> USE DEF Begin
<1>1. CASE UNCHANGED vars
  BY <1>1 DEF vars, NumbersOK, SignedFor
<1>2. ASSUME NEW name, NEW steps, NEW master \in MasterKeys, Begin(name, steps, master)
      PROVE  NumbersOK' /\ SignedFor'
  <2>1. node' = [master |-> master, key |-> master, chain |-> -master] /\ master \in Numbers
    BY <1>2, ConstantsFit
  <2>2. UNCHANGED <<field, hmac, sk, signed>>
    BY <1>2
  <2> QED
    BY <2>1, <2>2 DEF NumbersOK, SignedFor
<1>3. CASE DeriveStep
  <2>1. field' \in {0, P, N} /\ UNCHANGED <<sk, signed>> /\ KeysOf(hmac')
    BY <1>3, DeriveStepIs DEF NumbersOK
  <2>2. /\ node' = [master |-> node'.master, key |-> node'.key, chain |-> node'.chain]
        /\ node'.key \in Numbers
    <3>1. CASE \E garbage \in Hashes : node' = [node EXCEPT !.key = garbage, !.chain = NoPoint]
      BY <3>1, ConstantsFit DEF NumbersOK
    <3>2. CASE Leads(hmac', node, level, path[level + 1], node')
      BY <3>2, ChildFits
    <3> QED
      BY <1>3, <3>1, <3>2, DeriveStepIs
  <2> QED
    BY <2>1, <2>2 DEF NumbersOK, SignedFor, KeysOf
<1>4. CASE Finish
  <2>1. 0 \in Numbers
    BY LimitIs DEF Numbers
  <2>2. node' = NoNode /\ field' = P /\ UNCHANGED <<hmac, sk, signed>>
    BY <1>4 DEF Finish
  <2> QED
    BY <2>1, <2>2 DEF NumbersOK, SignedFor, NoNode
<1>5. ASSUME NEW random \in Randoms, NEW c_hash \in Challenges,
             wallet_ergo_schnorr_sign(random, c_hash)
      PROVE  NumbersOK' /\ SignedFor'
  <2>1. PICK nonce \in Nonce(random) :
          LET y == Swap(nonce)
              turned == Swap(sk)
              z == bigAdd(bigMultiply(turned, ChallengeNumber(c_hash), N), y, N)
          IN  \/ /\ y = 0
                 /\ signed' = Unsigned /\ UNCHANGED <<field, sk>>
              \/ /\ y # 0 /\ c_hash = 0
                 /\ signed' = Unsigned /\ sk' = turned /\ field' = P
              \/ /\ y # 0 /\ c_hash # 0
                 /\ signed' = [c |-> c_hash, z |-> Swap(z), w |-> Point(y),
                               pk |-> Point(turned)]
                 /\ sk' = turned /\ field' = N
    BY <1>5 DEF wallet_ergo_schnorr_sign
  <2>2. UNCHANGED <<node, hmac>>
    BY <1>5 DEF wallet_ergo_schnorr_sign
  <2> DEFINE y == Swap(nonce)
             turned == Swap(sk)
             z == bigAdd(bigMultiply(turned, ChallengeNumber(c_hash), N), y, N)
  <2>3. y \in Numbers /\ turned \in Numbers
    BY NonceFits, SwapFits DEF NumbersOK
  <2>4. field' \in {0, P, N} /\ sk' \in Numbers
    BY <2>1, <2>3 DEF NumbersOK
  <2>5. NumbersOK'
    BY <2>2, <2>4 DEF NumbersOK
  <2>6. CASE signed' = Unsigned
    BY <2>5, <2>6 DEF SignedFor, Unsigned
  <2>7. CASE signed' = [c |-> c_hash, z |-> Swap(z), w |-> Point(y), pk |-> Point(turned)]
             /\ sk' = turned
    <3>1. signed'.c = c_hash /\ Signs(signed', sk', y)
      BY <2>7 DEF Signs
    <3> HIDE DEF y
    <3>2. \E v \in Numbers : Signs(signed', sk', v)
      BY <2>3, <3>1
    <3>3. signed'.c \in Challenges
      BY <3>1
    <3> QED
      BY <2>5, <3>2, <3>3 DEF SignedFor
  <2> QED
    BY <2>1, <2>5, <2>6, <2>7
<1>6. ASSUME NEW k \in Keys, StoreKey(k)
      PROVE  NumbersOK' /\ SignedFor'
  <2>1. sk' \in Numbers /\ signed' = Unsigned /\ UNCHANGED <<field, node, hmac>>
    BY <1>6, ConstantsFit DEF StoreKey
  <2> QED
    BY <2>1 DEF NumbersOK, SignedFor, Unsigned
<1> QED
  BY <1>1, <1>2, <1>3, <1>4, <1>5, <1>6
     DEF Next, wallet_xpub_from_mnemonic, wallet_address_from_mnemonic

(* The invariant of the signatures.                                        *)
SignInv == NumbersOK /\ SignedFor

(* A challenge is a number.                                                *)
LEMMA ChallengeIs ==
    ASSUME NEW c \in Challenges
    PROVE  ChallengeNumber(c) \in Nat
<1>1. HashSize \in 0..Size /\ c \in 0..(Power[HashSize] - 1)
  BY KeysAssumption
<1>2. c \in Nat /\ Power[HashSize] \in Nat
  BY <1>1, PowerIs
<1>3. Swapped(c, HashSize) \in 0..(Power[HashSize] - 1)
  BY <1>1, <1>2, SwappedFits
<1> QED
  BY <1>2, <1>3 DEF ChallengeNumber

(* From it the equation that the verifier checks.                          *)
LEMMA SignVerifies == SignInv => SignatureVerifies
<1> SUFFICES ASSUME SignInv, signed.c # 0, signed.w # NoPoint, Point(sk) # NoPoint
             PROVE  /\ signed.pk = Point(sk)
                    /\ (Swap(signed.z) - Swapped(signed.c, HashSize) * Point(sk)) % N = signed.w
  BY DEF SignatureVerifies
<1>1. PICK y \in Numbers : Signs(signed, sk, y)
  BY DEF SignInv, SignedFor
<1> DEFINE c == ChallengeNumber(signed.c)
           m == bigMultiply(sk, c, N)
           z == bigAdd(m, y, N)
<1>2. c \in Nat /\ c = Swapped(signed.c, HashSize)
  BY ChallengeIs DEF SignInv, SignedFor, ChallengeNumber
<1>3. sk \in Nat /\ y \in Nat /\ y \in 0..(Limit - 1) /\ N \in Nat /\ N > 0
  BY LimitIs DEF SignInv, NumbersOK, Numbers
<1>4. /\ signed.pk = Point(sk) /\ signed.w = Point(y) /\ signed.z = Swap(z)
      /\ Point(sk) = sk % N /\ signed.w = y % N
  BY <1>1 DEF Signs, Point
<1> HIDE DEF c
<1>5. m = (sk * c) % N
  BY DEF bigMultiply
<1>6. m \in 0..(N - 1)
  <2> DEFINE sc == sk * c
  <2>1. sc \in Int
    BY <1>2, <1>3
  <2> HIDE DEF sc
  <2>2. sc % N \in 0..(N - 1)
    BY <1>3, <2>1, Division
  <2> QED
    BY <1>5, <2>2 DEF sc
<1> HIDE DEF m
<1>7. z \in 0..(Limit - 1) /\ z % N = (m + y) % N
  BY <1>3, <1>6, bigAddIs
<1> HIDE DEF z
<1>8. Swap(signed.z) = z /\ z \in Nat
  BY <1>4, <1>7, SwapIs, LimitIs
<1>9. IsSum(z, sk, c, y, N)
  BY <1>5, <1>7 DEF IsSum
<1>10. GivesBack(z, sk, c, y, N)
  BY <1>2, <1>3, <1>8, <1>9, Verifies
<1>11. (z - c * (sk % N)) % N = y % N
  BY <1>10 DEF GivesBack
<1> QED
  BY <1>2, <1>4, <1>8, <1>11

(* SignatureVerifies, for every group order, hash and nonce: the signature *)
(* that wallet_sign_hash returns is one that the public key verifies       *)
(* (wallet.c, ecdsa.c, schnorr.c).                                         *)
THEOREM SignaturesVerify == Spec => []SignatureVerifies
<1>1. Init => SignInv
  BY NumbersInit DEF SignInv
<1>2. SignInv /\ [Next]_vars => SignInv'
  BY NumbersStep DEF SignInv
<1> QED
  BY <1>1, <1>2, SignVerifies, PTL DEF Spec

-----------------------------------------------------------------------------
(* The node a path begins at (hdNodeFromSeed).                             *)
MasterNode(m) == [master |-> m, key |-> m, chain |-> -m]
(* A node for each step of the path, from the master on.                   *)
Trail(h, f, n, m, steps) ==
    /\ f[0] = MasterNode(m)
    /\ \A l \in 0..(n - 1) : Leads(h, f[l], l, steps[l + 1], f[l + 1])

(* Some trail of n steps ends with b.                                      *)
Reaches(h, n, m, steps, b) == \E f : Trail(h, f, n, m, steps) /\ f[n] = b
(* The first n steps of two paths are the same.                            *)
SameStart(s, t, n) == \A l \in 0..(n - 1) : s[l + 1] = t[l + 1]

(* A call's path, and the node it has reached.                             *)
OnPath ==
    /\ call = "xpub" => path = Path
    /\ call = "address" => \E child : path = Append(Path, child)
    /\ call \in {"idle", "xpub", "address"}
    /\ call # "idle" =>
          /\ level \in 0..Len(path)
          /\ derived => Reaches(hmac, level, node.master, path, node)

(* The two results, as the trails that led to them.                        *)
XpubIsDerived(h, x) ==
    \E f : /\ Trail(h, f, 4, x.master, Path) /\ f[4].key \in Numbers
          /\ x.chain = f[4].chain /\ x.pub = Point(Swap(f[4].key))
AddressIsDerived(h, x) ==
    \E f : /\ Trail(h, f, 5, x.master, Append(Path, x.child))
          /\ x.pub = Point(Swap(f[5].key))

(* The invariant of the derivations.                                       *)
DeriveInv ==
    /\ NumbersOK /\ OnPath
    /\ xpub.derived => XpubIsDerived(hmac, xpub)
    /\ address.derived => AddressIsDerived(hmac, address)

(* The five steps of an address's path begin with those of a public key's. *)
LEMMA PathIs ==
    /\ Len(Path) = 4
    /\ \A child : /\ Len(Append(Path, child)) = 5
                  /\ Append(Path, child)[5] = child
                  /\ \A l \in 0..3 : Append(Path, child)[l + 1] = Path[l + 1]
<1>1. Len(Path) = 4
  BY DEF Path
<1>2. ASSUME NEW child
      PROVE  /\ Len(Append(Path, child)) = 5
             /\ Append(Path, child)[5] = child
             /\ \A l \in 0..3 : Append(Path, child)[l + 1] = Path[l + 1]
  <2> DEFINE S == {44, 429, 0, child}
  <2>1. Path \in Seq(S) /\ child \in S
    BY DEF Path
  <2> HIDE DEF S
  <2>2. /\ Len(Append(Path, child)) = Len(Path) + 1
        /\ \A i \in 1..Len(Path) : Append(Path, child)[i] = Path[i]
        /\ Append(Path, child)[Len(Path) + 1] = child
    BY <2>1, AppendProperties
  <2>3. \A l \in 0..3 : l + 1 \in 1..4
    OBVIOUS
  <2> QED
    BY <1>1, <2>2, <2>3
<1> QED
  BY <1>1, <1>2

(* What is known stays known, so a trail stays one.                        *)
LEMMA LeadsOn ==
    ASSUME NEW h, NEW h2, Grows(h, h2), NEW a, NEW steps, NEW index, NEW b,
           Leads(h, a, steps, index, b)
    PROVE  Leads(h2, a, steps, index, b)
<1> DEFINE input == HmacInput(a, steps, index)
<1>1. input \in DOMAIN h
  BY DEF Leads
<1>2. input \in DOMAIN h2 /\ h2[input] = h[input]
  BY <1>1 DEF Grows
<1> QED
  BY <1>2 DEF Leads, Child

(* For a trail.                                                            *)
LEMMA TrailOn ==
    ASSUME NEW h, NEW h2, Grows(h, h2), NEW f, NEW n, NEW m, NEW steps, Trail(h, f, n, m, steps)
    PROVE  Trail(h2, f, n, m, steps)
BY LeadsOn DEF Trail

(* And for where it ends.                                                  *)
LEMMA ReachesOn ==
    ASSUME NEW h, NEW h2, Grows(h, h2), NEW n, NEW m, NEW steps, NEW b,
           Reaches(h, n, m, steps, b)
    PROVE  Reaches(h2, n, m, steps, b)
<1>1. PICK f : Trail(h, f, n, m, steps) /\ f[n] = b
  BY DEF Reaches
<1>2. Trail(h2, f, n, m, steps)
  BY <1>1, TrailOn
<1> QED
  BY <1>1, <1>2 DEF Reaches

(* A trail and one step more.                                              *)
LEMMA ReachesMore ==
    ASSUME NEW h, NEW n \in Nat, NEW m, NEW steps, NEW a, Reaches(h, n, m, steps, a),
           NEW b, Leads(h, a, n, steps[n + 1], b)
    PROVE  Reaches(h, n + 1, m, steps, b)
<1>1. PICK f : Trail(h, f, n, m, steps) /\ f[n] = a
  BY DEF Reaches
<1> DEFINE g == [l \in 0..(n + 1) |-> IF l <= n THEN f[l] ELSE b]
<1>2. /\ \A l \in 0..n : g[l] = f[l]
      /\ g[n + 1] = b
  OBVIOUS
<1> HIDE DEF g
<1>3. g[0] = MasterNode(m)
  BY <1>1, <1>2 DEF Trail
<1>4. ASSUME NEW l \in 0..n PROVE Leads(h, g[l], l, steps[l + 1], g[l + 1])
  <2>1. CASE l = n
    BY <1>1, <1>2, <2>1
  <2>2. CASE l # n
    <3>1. l \in 0..(n - 1) /\ l + 1 \in 0..n
      BY <2>2
    <3>2. Leads(h, f[l], l, steps[l + 1], f[l + 1])
      BY <1>1, <3>1 DEF Trail
    <3> QED
      BY <1>2, <3>1, <3>2
  <2> QED
    BY <2>1, <2>2
<1>5. 0..((n + 1) - 1) = 0..n
  OBVIOUS
<1>6. Trail(h, g, n + 1, m, steps)
  BY <1>3, <1>4, <1>5 DEF Trail
<1> QED
  BY <1>2, <1>6 DEF Reaches

(* One master and one path lead to one node.                               *)
LEMMA TrailsMeet ==
    ASSUME NEW h, NEW m, NEW f, NEW g, NEW s, NEW t, NEW n \in Nat, NEW k \in Nat, n <= k,
           Trail(h, f, n, m, s), Trail(h, g, k, m, t),
           SameStart(s, t, n)
    PROVE  f[n] = g[n]
<1> DEFINE T == {l \in 0..n : f[l] = g[l]}
<1>1. 0 \in T
  BY DEF Trail
<1>2. ASSUME NEW l \in 0..n, l < n, l \in T PROVE l + 1 \in T
  <2>1. l \in 0..(n - 1) /\ l \in 0..(k - 1) /\ l + 1 \in 0..n
    BY <1>2
  <2>2. Leads(h, f[l], l, s[l + 1], f[l + 1]) /\ Leads(h, g[l], l, t[l + 1], g[l + 1])
    BY <2>1 DEF Trail
  <2>3. f[l] = g[l] /\ s[l + 1] = t[l + 1]
    BY <1>2, <2>1 DEF SameStart
  <2>4. f[l + 1] = g[l + 1]
    BY <2>2, <2>3 DEF Leads
  <2> QED
    BY <2>1, <2>4
<1> HIDE DEF T
<1>3. \A l \in 0..n : l \in T
  BY <1>1, <1>2, InductionUpTo
<1> QED
  BY <1>3 DEF T

(* At first there is no result, and no path has been walked.               *)
LEMMA DeriveInit == Init => DeriveInv
<1> SUFFICES ASSUME Init PROVE DeriveInv
  OBVIOUS
<1>1. call = "idle" /\ ~xpub.derived /\ ~address.derived
  BY DEF Init, Nothing
<1>2. NumbersOK
  BY NumbersInit
<1> QED
  BY <1>1, <1>2 DEF DeriveInv, OnPath

(* What is derived stays so when more is known.                            *)
LEMMA ResultsStay ==
    ASSUME NEW h, NEW h2, Grows(h, h2), NEW x
    PROVE  /\ XpubIsDerived(h, x) => XpubIsDerived(h2, x)
           /\ AddressIsDerived(h, x) => AddressIsDerived(h2, x)
<1>1. ASSUME XpubIsDerived(h, x) PROVE XpubIsDerived(h2, x)
  <2>1. PICK f : /\ Trail(h, f, 4, x.master, Path) /\ f[4].key \in Numbers
                 /\ x.chain = f[4].chain /\ x.pub = Point(Swap(f[4].key))
    BY <1>1 DEF XpubIsDerived
  <2>2. Trail(h2, f, 4, x.master, Path)
    BY <2>1, TrailOn
  <2> QED
    BY <2>1, <2>2 DEF XpubIsDerived
<1>2. ASSUME AddressIsDerived(h, x) PROVE AddressIsDerived(h2, x)
  <2>1. PICK f : /\ Trail(h, f, 5, x.master, Append(Path, x.child))
                 /\ x.pub = Point(Swap(f[5].key))
    BY <1>2 DEF AddressIsDerived
  <2>2. Trail(h2, f, 5, x.master, Append(Path, x.child))
    BY <2>1, TrailOn
  <2> QED
    BY <2>1, <2>2 DEF AddressIsDerived
<1> QED
  BY <1>1, <1>2

(* A step that leaves the hmac and the results alone, and ends no call.    *)
LEMMA StayIdle ==
    ASSUME DeriveInv, NumbersOK',
           UNCHANGED <<hmac, call, path, level, node, derived, xpub, address>>
    PROVE  DeriveInv'
BY DEF DeriveInv, OnPath

(* A call begins at the master.                                            *)
LEMMA BeginStep ==
    ASSUME DeriveInv, NumbersOK', NEW name, NEW steps, NEW master,
           \/ name = "xpub" /\ steps = Path
           \/ name = "address" /\ \E child : steps = Append(Path, child),
           Begin(name, steps, master)
    PROVE  DeriveInv'
<1>1. /\ call' = name /\ path' = steps /\ level' = 0 /\ node' = MasterNode(master)
      /\ UNCHANGED <<hmac, xpub, address>>
  BY DEF Begin, MasterNode
<1>2. 0 \in 0..Len(steps)
  BY PathIs
<1>3. Reaches(hmac', 0, node'.master, path', node')
  <2> DEFINE f == [l \in 0..0 |-> MasterNode(master)]
  <2>1. f[0] = MasterNode(master) /\ 0..(0 - 1) = {} /\ MasterNode(master).master = master
    BY DEF MasterNode
  <2> HIDE DEF f
  <2>2. Trail(hmac', f, 0, node'.master, path')
    BY <1>1, <2>1 DEF Trail
  <2> QED
    BY <1>1, <2>1, <2>2 DEF Reaches
<1>4. OnPath'
  BY <1>1, <1>2, <1>3 DEF OnPath
<1> QED
  BY <1>1, <1>4 DEF DeriveInv

(* It goes down one step, and the trail with it.                           *)
LEMMA DownStep == ASSUME DeriveInv, NumbersOK', DeriveStep PROVE DeriveInv'
<1>1. NumbersOK
  BY DEF DeriveInv
<1>2. /\ UNCHANGED <<call, path, xpub, address>>
      /\ call # "idle" /\ level < Len(path) /\ Grows(hmac, hmac')
      /\ \/ derived' = FALSE /\ level' = Len(path)
         \/ /\ derived' = derived /\ level' = level + 1
            /\ Leads(hmac', node, level, path[level + 1], node')
  BY <1>1, DeriveStepIs
<1>3. Len(path) \in Nat
  BY <1>2, PathIs DEF DeriveInv, OnPath
<1>4. level \in 0..Len(path) /\ level' \in 0..Len(path')
  BY <1>2, <1>3 DEF DeriveInv, OnPath
<1>5. ASSUME derived'
      PROVE  Reaches(hmac', level', node'.master, path', node')
  <2>1. derived /\ level' = level + 1 /\ Leads(hmac', node, level, path[level + 1], node')
    BY <1>2, <1>5
  <2>2. Reaches(hmac, level, node.master, path, node)
    BY <1>2, <2>1 DEF DeriveInv, OnPath
  <2>3. Reaches(hmac', level, node.master, path, node)
    BY <1>2, <2>2, ReachesOn
  <2>4. level \in Nat
    BY <1>3, <1>4
  <2>5. Reaches(hmac', level + 1, node.master, path, node')
    BY <2>1, <2>3, <2>4, ReachesMore
  <2>6. node'.master = node.master
    BY <2>1 DEF Leads, Child
  <2> QED
    BY <1>2, <2>1, <2>5, <2>6
<1>6. OnPath'
  BY <1>2, <1>4, <1>5 DEF DeriveInv, OnPath
<1>7. /\ xpub'.derived => XpubIsDerived(hmac', xpub')
      /\ address'.derived => AddressIsDerived(hmac', address')
  BY <1>2, ResultsStay DEF DeriveInv
<1> QED
  BY <1>6, <1>7 DEF DeriveInv

(* It ends, with the node at the path's end as the result.                 *)
LEMMA FinishStep == ASSUME DeriveInv, NumbersOK', Finish PROVE DeriveInv'
<1> DEFINE result == [master |-> node.master, chain |-> node.chain,
                      pub |-> Point(Swap(node.key)), child |-> path[level], derived |-> derived]
<1>1. /\ call # "idle" /\ level = Len(path) /\ call' = "idle" /\ UNCHANGED hmac
      /\ IF call = "xpub" THEN xpub' = [result EXCEPT !.child = NoPoint] /\ UNCHANGED address
                          ELSE address' = result /\ UNCHANGED xpub
  BY DEF Finish
<1>2. node.key \in Numbers
  BY DEF DeriveInv, NumbersOK
<1>3. derived => Reaches(hmac, level, node.master, path, node)
  BY <1>1 DEF DeriveInv, OnPath
<1>4. OnPath'
  BY <1>1 DEF OnPath
<1>5. CASE call = "xpub"
  <2>1. path = Path /\ level = 4
    BY <1>1, <1>5, PathIs DEF DeriveInv, OnPath
  <2>2. /\ xpub'.derived = derived /\ xpub'.master = node.master /\ xpub'.chain = node.chain
        /\ xpub'.pub = Point(Swap(node.key)) /\ address' = address
    BY <1>1, <1>5
  <2>3. xpub'.derived => XpubIsDerived(hmac', xpub')
    BY <1>1, <1>2, <1>3, <2>1, <2>2 DEF XpubIsDerived, Reaches
  <2> QED
    BY <1>1, <1>4, <2>2, <2>3 DEF DeriveInv
<1>6. CASE call # "xpub"
  <2>1. PICK child : path = Append(Path, child)
    BY <1>1, <1>6 DEF DeriveInv, OnPath
  <2>2. level = 5 /\ path[level] = child
    BY <1>1, <2>1, PathIs
  <2>3. /\ address'.derived = derived /\ address'.master = node.master
        /\ address'.child = child
        /\ address'.pub = Point(Swap(node.key)) /\ xpub' = xpub
    BY <1>1, <1>6, <2>2
  <2>4. address'.derived => AddressIsDerived(hmac', address')
    BY <1>1, <1>3, <2>1, <2>2, <2>3 DEF AddressIsDerived, Reaches
  <2> QED
    BY <1>1, <1>4, <2>3, <2>4 DEF DeriveInv
<1> QED
  BY <1>5, <1>6

(* No step leaves the invariant.                                           *)
LEMMA DeriveNext == DeriveInv /\ SignInv /\ [Next]_vars => DeriveInv'
<1> SUFFICES ASSUME DeriveInv, SignInv, [Next]_vars PROVE DeriveInv'
  OBVIOUS
<1>1. NumbersOK'
  BY NumbersStep DEF SignInv
<1>2. CASE UNCHANGED vars
  BY <1>1, <1>2, StayIdle DEF vars
<1>3. ASSUME NEW master \in MasterKeys, wallet_xpub_from_mnemonic(master) PROVE DeriveInv'
  BY <1>1, <1>3, BeginStep DEF wallet_xpub_from_mnemonic
<1>4. ASSUME NEW master \in MasterKeys, NEW child \in Children,
             wallet_address_from_mnemonic(master, child)
      PROVE  DeriveInv'
  <2>1. Begin("address", Append(Path, child), master)
    BY <1>4 DEF wallet_address_from_mnemonic
  <2> QED
    BY <1>1, <2>1, BeginStep
<1>5. CASE DeriveStep
  BY <1>1, <1>5, DownStep
<1>6. CASE Finish
  BY <1>1, <1>6, FinishStep
<1>7. ASSUME NEW random \in Randoms, NEW c_hash \in Challenges,
             wallet_ergo_schnorr_sign(random, c_hash)
      PROVE  DeriveInv'
  BY <1>1, <1>7, StayIdle DEF wallet_ergo_schnorr_sign
<1>8. ASSUME NEW k \in Keys, StoreKey(k) PROVE DeriveInv'
  BY <1>1, <1>8, StayIdle DEF StoreKey
<1> QED
  BY <1>2, <1>3, <1>4, <1>5, <1>6, <1>7, <1>8 DEF Next

(* The first four nodes of an address's trail are those of the public      *)
(* key's, so the last step is the child that its owner computes.           *)
LEMMA DeriveMatches == DeriveInv => AddressMatchesXpub
<1> SUFFICES ASSUME DeriveInv, xpub.derived, address.derived, xpub.master = address.master,
                    xpub.pub # NoPoint, address.pub # NoPoint
             PROVE  LET input == <<xpub.chain, FALSE, xpub.pub, address.child>>
                    IN  /\ input \in DOMAIN hmac
                        /\ address.pub = (Swap(hmac[input].key) + xpub.pub) % N
  BY DEF AddressMatchesXpub
<1>1. PICK f : /\ Trail(hmac, f, 4, xpub.master, Path) /\ f[4].key \in Numbers
               /\ xpub.chain = f[4].chain /\ xpub.pub = Point(Swap(f[4].key))
  BY DEF DeriveInv, XpubIsDerived
<1>2. PICK g : /\ Trail(hmac, g, 5, address.master, Append(Path, address.child))
               /\ address.pub = Point(Swap(g[5].key))
  BY DEF DeriveInv, AddressIsDerived
<1>3. f[4] = g[4]
  <2>1. SameStart(Path, Append(Path, address.child), 4)
    BY PathIs DEF SameStart
  <2>2. Trail(hmac, g, 5, xpub.master, Append(Path, address.child))
    BY <1>2
  <2>3. 4 \in Nat /\ 5 \in Nat /\ 4 <= 5
    OBVIOUS
  <2> QED
    BY <1>1, <2>1, <2>2, <2>3, TrailsMeet
<1> DEFINE a == f[4]
           input == HmacInput(a, 4, address.child)
           left == Swap(hmac[input].key)
           k == Swap(a.key)
           sum == bigAdd(left, k, N)
<1>4. Leads(hmac, a, 4, address.child, g[5])
  <2>1. 4 \in 0..(5 - 1) /\ 4 + 1 = 5 /\ Append(Path, address.child)[4 + 1] = address.child
    <3>1. 4 \in 0..(5 - 1) /\ 4 + 1 = 5
      OBVIOUS
    <3> QED
      BY <3>1, PathIs
  <2>2. Leads(hmac, g[4], 4, Append(Path, address.child)[4 + 1], g[4 + 1])
    BY <1>2, <2>1 DEF Trail
  <2> QED
    BY <1>3, <2>1, <2>2
<1>5. input = <<xpub.chain, FALSE, xpub.pub, address.child>>
  <2>1. Hardened(4) = FALSE
    BY DEF Hardened
  <2> QED
    BY <1>1, <2>1 DEF HmacInput
<1>6. /\ input \in DOMAIN hmac /\ hmac[input].key \in Numbers /\ left < N /\ a.key \in Numbers
      /\ g[5].key = Swap(sum)
  BY <1>4 DEF Leads, Child
<1> HIDE DEF a, input
<1>7. left \in 0..(N - 1) /\ k \in 0..(Limit - 1)
  <2>1. left \in Numbers /\ k \in Numbers
    BY <1>6, SwapFits
  <2> HIDE DEF left, k
  <2> QED
    BY <1>6, <2>1, LimitIs DEF Numbers
<1>8. xpub.pub = k % N
  BY <1>1 DEF Point, a
<1> HIDE DEF left, k
<1>9. sum \in Numbers /\ sum % N = (left + k) % N
  BY <1>7, bigAddIs DEF Numbers
<1> HIDE DEF sum
<1>10. address.pub = sum % N
  BY <1>2, <1>6, <1>9, SwapFits DEF Point
<1>11. (left + (k % N)) % N = (left + k) % N
  <2>1. left \in Int /\ k \in Int
    BY <1>7, LimitIs
  <2> QED
    BY <2>1, LimitIs, SumModulo
<1>12. address.pub = (left + xpub.pub) % N
  BY <1>8, <1>9, <1>10, <1>11
<1> QED
  BY <1>5, <1>6, <1>12 DEF left

(* AddressMatchesXpub, for every master key, child and hash: an address    *)
(* and its public key are those that follow from the extended public key   *)
(* (wallet.c, bip32.c).                                                    *)
THEOREM AddressesMatch == Spec => []AddressMatchesXpub
<1>1. Init => SignInv /\ DeriveInv
  BY NumbersInit, DeriveInit DEF SignInv
<1>2. SignInv /\ DeriveInv /\ [Next]_vars => (SignInv /\ DeriveInv)'
  BY NumbersStep, DeriveNext DEF SignInv
<1> QED
  BY <1>1, <1>2, DeriveMatches, PTL DEF Spec

-----------------------------------------------------------------------------
(* What the first digits are worth, one more at a time (Base58!Values).    *)
LEMMA ValuesAre ==
    ASSUME NEW s \in Seq(Nat), NEW b \in Nat
    PROVE  /\ Text!Values(s, b) \in [0..Len(s) -> Nat] /\ Text!Values(s, b)[0] = 0
           /\ \A k \in 1..Len(s) : Text!Values(s, b)[k] = b * Text!Values(s, b)[k - 1] + s[k]
<1> DEFINE L == Len(s)
           step == [k \in 1..L |-> [x \in Nat |-> b * x + s[k]]]
           w == Text!Values(s, b)
<1>1. L \in Nat /\ \A k \in 1..L : s[k] \in Nat
  BY LenProperties, ElementOfSeq
<1>2. w = CHOOSE h : h = [k \in 0..L |-> IF k = 0 THEN 0 ELSE b * h[k - 1] + s[k]]
  BY DEF Text!Values
<1> HIDE DEF L, w
<1>3. step \in [1..L -> [Nat -> Nat]]
  BY <1>1, SMTT(30)
<1>4. \A k \in 1..L : \A x \in Nat : step[k][x] = b * x + s[k]
  OBVIOUS
<1> HIDE DEF step
<1>5. PICK f : Runs(f, L, Nat, 0, step)
  BY <1>1, <1>3, RecursionUpTo
<1>6. f = [k \in 0..L |-> IF k = 0 THEN 0 ELSE b * f[k - 1] + s[k]]
  <2>1. \A k \in 1..L : k - 1 \in 0..L
    BY <1>1
  <2>2. \A k \in 1..L : f[k] = b * f[k - 1] + s[k]
    BY <1>4, <1>5, <2>1 DEF Runs
  <2>3. \A k \in 0..L : f[k] = IF k = 0 THEN 0 ELSE b * f[k - 1] + s[k]
    BY <1>1, <1>5, <2>2 DEF Runs
  <2> QED
    BY <1>5, <2>3 DEF Runs
<1>7. w = [k \in 0..L |-> IF k = 0 THEN 0 ELSE b * w[k - 1] + s[k]]
  BY <1>2, <1>6
<1>8. \A k \in 1..L : w[k] = b * w[k - 1] + s[k]
  BY <1>1, <1>7
<1>9. Runs(w, L, Nat, 0, step)
  <2>1. w = [k \in 0..L |-> w[k]] /\ w[0] = 0
    BY <1>1, <1>7
  <2>2. \A k \in 1..L : w[k - 1] \in Nat => w[k] = step[k][w[k - 1]]
    BY <1>4, <1>8
  <2> QED
    BY <1>1, <1>3, <2>1, <2>2, RecursionOnly, SMTT(30)
<1> QED
  BY <1>8, <1>9 DEF Runs, w, L

(* Digits that are zero are worth nothing.                                 *)
LEMMA ZerosAreNothing ==
    ASSUME NEW s \in Seq(Nat), NEW b \in Nat, NEW m \in 0..Len(s),
           \A k \in 1..m : s[k] = 0
    PROVE  Text!Values(s, b)[m] = 0
<1> DEFINE w == Text!Values(s, b)
           T == {k \in 0..m : w[k] = 0}
<1>1. Len(s) \in Nat /\ m \in Nat
  BY LenProperties
<1>2. w[0] = 0 /\ \A k \in 1..Len(s) : w[k] = b * w[k - 1] + s[k]
  BY ValuesAre
<1> HIDE DEF w
<1>3. 0 \in T
  BY <1>1, <1>2
<1>4. ASSUME NEW k \in 0..m, k < m, k \in T PROVE k + 1 \in T
  <2>1. k + 1 \in 1..Len(s) /\ k + 1 \in 1..m /\ k + 1 \in 0..m /\ (k + 1) - 1 = k
    BY <1>1, <1>4
  <2>2. w[k + 1] = b * w[k] + s[k + 1] /\ w[k] = 0 /\ s[k + 1] = 0
    BY <1>2, <1>4, <2>1
  <2> QED
    BY <2>1, <2>2
<1> HIDE DEF T
<1>5. \A k \in 0..m : k \in T
  BY <1>1, <1>3, <1>4, InductionUpTo
<1> QED
  BY <1>1, <1>5 DEF T, w

(* Zeros in front of some digits do not change what they are worth.        *)
LEMMA ZerosInFront ==
    ASSUME NEW s \in Seq(Nat), NEW t \in Seq(Nat), NEW b \in Nat, NEW d \in Nat,
           Len(t) = d + Len(s), \A k \in 1..d : t[k] = 0, \A k \in 1..Len(s) : t[d + k] = s[k]
    PROVE  Text!Value(t, b) = Text!Value(s, b)
<1> DEFINE w == Text!Values(s, b)
           v == Text!Values(t, b)
           L == Len(s)
           T == {k \in 0..L : v[d + k] = w[k]}
<1>1. L \in Nat
  BY LenProperties
<1>2. w[0] = 0 /\ \A k \in 1..L : w[k] = b * w[k - 1] + s[k]
  BY ValuesAre
<1>3. \A k \in 1..(d + L) : v[k] = b * v[k - 1] + t[k]
  BY ValuesAre
<1>4. v[d] = 0
  BY <1>1, ZerosAreNothing, SMTT(30)
<1>5. Text!Value(s, b) = w[L] /\ Text!Value(t, b) = v[d + L]
  BY DEF Text!Value
<1>6. \A k \in 1..L : t[d + k] = s[k]
  OBVIOUS
<1> HIDE DEF w, v, L
<1>7. 0 \in T
  BY <1>1, <1>2, <1>4
<1>8. ASSUME NEW k \in 0..L, k < L, k \in T PROVE k + 1 \in T
  <2> DEFINE m == d + (k + 1)
  <2>0. k \in Nat /\ k < L /\ d \in Nat
    BY <1>1, <1>8
  <2>1. k + 1 \in 1..L /\ k + 1 \in 0..L /\ (k + 1) - 1 = k /\ m \in 1..(d + L) /\ m - 1 = d + k
    BY <1>1, <2>0
  <2>2. t[m] = s[k + 1]
    BY <1>6, <2>1
  <2> HIDE DEF m
  <2>3. v[m] = b * v[d + k] + t[m]
    <3>1. v[m] = b * v[m - 1] + t[m]
      BY <1>3, <2>1
    <3> QED
      BY <2>1, <3>1
  <2>4. w[k + 1] = b * w[k] + s[k + 1] /\ v[d + k] = w[k]
    BY <1>2, <1>8, <2>1
  <2> QED
    BY <2>1, <2>2, <2>3, <2>4 DEF m
<1> HIDE DEF T
<1>9. \A k \in 0..L : k \in T
  BY <1>1, <1>7, <1>8, InductionUpTo
<1> QED
  BY <1>1, <1>5, <1>9 DEF T

(* One digit more or less.                                                 *)
LEMMA DigitChanged ==
    ASSUME NEW s \in Seq(Nat), NEW t \in Seq(Nat), NEW b \in Nat, NEW K \in Nat,
           Len(t) = Len(s), Len(s) <= K, NEW m \in 1..Len(s),
           \A k \in 1..Len(s) : k # m => t[k] = s[k]
    PROVE  /\ Text!Values(t, b)[m - 1] = Text!Values(s, b)[m - 1]
           /\ Text!Value(t, b) =
                  Text!Value(s, b) + (t[m] - s[m]) * Powers(b, K)[Len(s) - m]
<1> DEFINE w == Text!Values(s, b)
           v == Text!Values(t, b)
           p == Powers(b, K)
           L == Len(s)
           c == t[m] - s[m]
           T == {k \in 0..(m - 1) : v[k] = w[k]}
           U == {k \in 0..(L - m) : v[m + k] = w[m + k] + c * p[k]}
<1>1. L \in Nat /\ L <= K /\ m \in 1..L /\ t[m] \in Nat /\ s[m] \in Nat /\ c \in Int
  <2>1. m \in 1..Len(t)
    OBVIOUS
  <2> QED
    BY <2>1, LenProperties, ElementOfSeq, SMTT(30)
<1>2. /\ w \in [0..L -> Nat] /\ w[0] = 0
      /\ \A k \in 1..L : w[k] = b * w[k - 1] + s[k]
  BY ValuesAre
<1>3. /\ v \in [0..L -> Nat] /\ v[0] = 0
      /\ \A k \in 1..L : v[k] = b * v[k - 1] + t[k]
  <2>1. /\ v \in [0..Len(t) -> Nat] /\ v[0] = 0
        /\ \A k \in 1..Len(t) : v[k] = b * v[k - 1] + t[k]
    BY ValuesAre
  <2> QED
    BY <2>1
<1>4. p \in [0..K -> Nat] /\ p[0] = 1 /\ \A k \in 1..K : p[k] = b * p[k - 1]
  BY PowersAre
<1>5. Text!Value(s, b) = w[L] /\ Text!Value(t, b) = v[L]
  BY DEF Text!Value
<1>6. \A k \in 1..L : k # m => t[k] = s[k]
  OBVIOUS
<1>7. t[m] = s[m] + c
  BY <1>1, SMTT(30)
<1> HIDE DEF w, v, p, L, c
<1>8. 0 \in T
  BY <1>1, <1>2, <1>3
<1>9. ASSUME NEW k \in 0..(m - 1), k < m - 1, k \in T PROVE k + 1 \in T
  <2>1. k + 1 \in 1..L /\ k + 1 \in 0..(m - 1) /\ (k + 1) - 1 = k /\ k + 1 # m
    BY <1>1, <1>9, SMTT(30)
  <2>2. v[k + 1] = b * v[k] + t[k + 1] /\ w[k + 1] = b * w[k] + s[k + 1] /\ t[k + 1] = s[k + 1]
    BY <1>2, <1>3, <1>6, <2>1
  <2> QED
    BY <1>9, <2>1, <2>2, SMTT(30)
<1>10. v[m - 1] = w[m - 1]
  <2> HIDE DEF T
  <2>1. m - 1 \in Nat /\ m - 1 \in 0..(m - 1)
    BY <1>1
  <2>2. \A k \in 0..(m - 1) : k \in T
    BY <1>8, <1>9, <2>1, InductionUpTo
  <2> QED
    BY <2>1, <2>2 DEF T
<1>11. 0 \in U
  <2>1. v[m] = b * v[m - 1] + t[m] /\ w[m] = b * w[m - 1] + s[m]
    BY <1>1, <1>2, <1>3
  <2>2. m - 1 \in 0..L /\ m \in 0..L /\ 0 \in 0..(L - m) /\ m + 0 = m
    BY <1>1
  <2>3. b * w[m - 1] \in Nat /\ w[m] \in Nat
    <3>1. w[m - 1] \in Nat /\ w[m] \in Nat
      BY <1>2, <2>2
    <3> QED
      BY <3>1, SMTT(30)
  <2>4. c * p[0] = c
    BY <1>1, <1>4
  <2> DEFINE x == b * w[m - 1]
  <2>5. v[m] = x + t[m] /\ w[m] = x + s[m] /\ x \in Nat
    BY <1>10, <2>1, <2>3
  <2> HIDE DEF x
  <2>6. v[m] = w[m] + c
    BY <1>1, <1>7, <2>5
  <2> QED
    BY <2>2, <2>4, <2>6
<1>12. ASSUME NEW k \in 0..(L - m), k < L - m, k \in U PROVE k + 1 \in U
  <2> DEFINE o == m + (k + 1)
             u == m + k
             x == w[u]
             q == p[k]
             y == s[o]
  <2>1. o \in 1..L /\ o # m /\ o - 1 = u /\ k + 1 \in 0..(L - m) /\ u \in 0..L
        /\ k + 1 \in 1..K /\ (k + 1) - 1 = k /\ k \in 0..K
    BY <1>1, <1>12
  <2>2. v[u] = x + c * q /\ p[k + 1] = b * q
    BY <1>4, <1>12, <2>1
  <2> HIDE DEF o, u
  <2>3. v[o] = b * v[u] + y /\ w[o] = b * x + y
    <3>1. v[o] = b * v[o - 1] + t[o] /\ w[o] = b * w[o - 1] + s[o] /\ t[o] = s[o]
      BY <1>2, <1>3, <1>6, <2>1
    <3> QED
      BY <2>1, <3>1
  <2>4. x \in Nat /\ q \in Nat /\ y \in Nat /\ b \in Nat /\ c \in Int
    <3>1. s[o] \in Nat
      BY <2>1, ElementOfSeq, Zenon DEF L
    <3> QED
      BY <1>1, <1>2, <1>4, <2>1, <3>1
  <2> HIDE DEF x, q, y
  <2>5. b * (x + c * q) + y = (b * x + y) + c * (b * q)
    BY <2>4
  <2>6. v[o] = w[o] + c * p[k + 1]
    BY <2>2, <2>3, <2>5
  <2> QED
    BY <2>1, <2>6 DEF o
<1> HIDE DEF U, T
<1>13. v[L] = w[L] + c * p[L - m]
  <2>1. L - m \in Nat /\ L - m \in 0..(L - m) /\ m + (L - m) = L
    BY <1>1
  <2>2. \A k \in 0..(L - m) : k \in U
    BY <1>11, <1>12, <2>1, InductionUpTo
  <2> QED
    BY <2>1, <2>2, SMTT(30) DEF U
<1> QED
  BY <1>5, <1>10, <1>13 DEF w, v, p, L, c

(* A number of digits is less than the power of as many.                   *)
LEMMA ValuesFit ==
    ASSUME NEW s \in Seq(Nat), NEW b \in Nat, NEW K \in Nat, Len(s) <= K,
           NEW z \in 0..Len(s), \A k \in 1..z : s[k] = 0,
           \A k \in 1..Len(s) : s[k] < b
    PROVE  \A k \in z..Len(s) : Text!Values(s, b)[k] < Powers(b, K)[k - z]
<1> DEFINE w == Text!Values(s, b)
           p == Powers(b, K)
           L == Len(s)
           T == {k \in 0..(L - z) : w[z + k] < p[k]}
<1>1. L \in Nat /\ L <= K /\ z \in 0..L /\ \A k \in 1..L : s[k] \in 0..(b - 1)
  BY LenProperties, ElementOfSeq
<1>2. w \in [0..L -> Nat] /\ \A k \in 1..L : w[k] = b * w[k - 1] + s[k]
  BY ValuesAre, SMTT(30)
<1>3. p \in [0..K -> Nat] /\ p[0] = 1 /\ \A k \in 1..K : p[k] = b * p[k - 1]
  BY PowersAre
<1>4. w[z] = 0
  BY ZerosAreNothing
<1> HIDE DEF w, p, L
<1>5. 0 \in T
  BY <1>1, <1>3, <1>4
<1>6. ASSUME NEW k \in 0..(L - z), k < L - z, k \in T PROVE k + 1 \in T
  <2> DEFINE o == z + (k + 1)
             u == z + k
             x == w[u]
             q == p[k]
             y == s[o]
  <2>0. k \in Nat /\ k < L - z /\ z \in Nat
    BY <1>1, <1>6
  <2>1. o \in 1..L /\ o - 1 = u /\ u \in 0..L /\ k + 1 \in 0..(L - z)
        /\ k + 1 \in 1..K /\ (k + 1) - 1 = k /\ k \in 0..K
    BY <1>1, <2>0
  <2>2. x < q /\ p[k + 1] = b * q
    BY <1>3, <1>6, <2>1
  <2> HIDE DEF o, u
  <2>3. w[o] = b * x + y
    <3>1. w[o] = b * w[o - 1] + s[o]
      BY <1>2, <2>1
    <3> QED
      BY <2>1, <3>1
  <2>4. x \in Nat /\ q \in Nat /\ y \in 0..(b - 1)
    BY <1>1, <1>2, <1>3, <2>1, Zenon
  <2> HIDE DEF x, q, y
  <2>5. b * x <= b * (q - 1)
    BY <2>2, <2>4, Bigger
  <2>6. b * (q - 1) = b * q - b
    BY <2>4
  <2>7. b * x \in Nat /\ b * q \in Nat
    BY <2>4
  <2>8. b * x + y < b * q
    <3> DEFINE bx == b * x
               bq == b * q
    <3>1. bx \in Nat /\ bq \in Nat /\ bx <= bq - b
      BY <2>5, <2>6, <2>7
    <3> HIDE DEF bx, bq
    <3>2. bx + y < bq
      BY <2>4, <3>1
    <3> QED
      BY <3>2 DEF bx, bq
  <2> QED
    BY <2>1, <2>2, <2>3, <2>8 DEF o
<1> HIDE DEF T
<1>7. \A k \in 0..(L - z) : k \in T
  <2>1. L - z \in Nat
    BY <1>1
  <2> QED
    BY <1>5, <1>6, <2>1, InductionUpTo
<1>8. ASSUME NEW k \in z..L PROVE w[k] < p[k - z]
  <2>1. k - z \in 0..(L - z) /\ z + (k - z) = k
    BY <1>1
  <2> QED
    BY <1>7, <2>1 DEF T
<1> QED
  BY <1>8 DEF w, p, L

(* A number whose first digit is not zero has the worth of that place.     *)
LEMMA TopDigit ==
    ASSUME NEW s \in Seq(Nat), NEW b \in Nat, NEW K \in Nat,
           Len(s) <= K, Len(s) >= 1, s[1] >= 1
    PROVE  Powers(b, K)[Len(s) - 1] <= Text!Value(s, b)
<1> DEFINE w == Text!Values(s, b)
           p == Powers(b, K)
           L == Len(s)
           T == {k \in 0..(L - 1) : p[k] <= w[k + 1]}
<1>1. L \in Nat /\ L <= K /\ L >= 1 /\ \A k \in 1..L : s[k] \in Nat
  BY LenProperties, ElementOfSeq
<1>2. w \in [0..L -> Nat] /\ w[0] = 0 /\ \A k \in 1..L : w[k] = b * w[k - 1] + s[k]
  BY ValuesAre, SMTT(30)
<1>3. p \in [0..K -> Nat] /\ p[0] = 1 /\ \A k \in 1..K : p[k] = b * p[k - 1]
  BY PowersAre
<1>4. Text!Value(s, b) = w[L] /\ s[1] >= 1
  BY DEF Text!Value
<1> HIDE DEF w, p, L
<1>5. 0 \in T
  <2>1. w[1] = b * w[0] + s[1] /\ s[1] \in Nat
    <3>1. w[1] = b * w[1 - 1] + s[1]
      BY <1>1, <1>2
    <3> QED
      BY <1>1, <3>1
  <2>2. b * w[0] = 0
    BY <1>2
  <2>3. 0 \in 0..(L - 1) /\ 0 + 1 = 1
    BY <1>1
  <2>4. p[0] = 1 /\ w[1] >= 1
    <3> DEFINE y == s[1]
               z == b * w[0]
    <3>1. y \in Nat /\ y >= 1 /\ z = 0 /\ w[1] = z + y
      BY <1>4, <2>1, <2>2
    <3> HIDE DEF y, z
    <3>2. w[1] >= 1
      BY <3>1
    <3> QED
      BY <1>3, <3>2
  <2> QED
    BY <2>3, <2>4
<1>6. ASSUME NEW k \in 0..(L - 1), k < L - 1, k \in T PROVE k + 1 \in T
  <2> DEFINE o == k + 1
             x == w[o]
             q == p[k]
             y == s[o + 1]
  <2>1. o \in 1..K /\ o - 1 = k /\ k \in 0..K /\ o \in 0..L /\ o + 1 \in 1..L /\ o \in 0..(L - 1)
        /\ (o + 1) - 1 = o
    BY <1>1, <1>6
  <2>2. q <= x
    BY <1>6
  <2> HIDE DEF o
  <2>3. p[o] = b * q /\ w[o + 1] = b * x + y
    <3>1. p[o] = b * p[o - 1]
      BY <1>3, <2>1
    <3>2. w[o + 1] = b * w[(o + 1) - 1] + s[o + 1]
      BY <1>2, <2>1
    <3> QED
      BY <2>1, <3>1, <3>2
  <2>4. x \in Nat /\ q \in Nat /\ y \in Nat
    BY <1>1, <1>2, <1>3, <2>1
  <2> HIDE DEF x, q, y
  <2>5. b * q <= b * x
    BY <2>2, <2>4, Bigger
  <2>6. b * x \in Nat /\ b * q \in Nat
    BY <2>4
  <2>7. p[o] <= w[o + 1]
    <3> DEFINE bx == b * x
               bq == b * q
    <3>1. bx \in Nat /\ bq \in Nat /\ bq <= bx /\ p[o] = bq /\ w[o + 1] = bx + y
      BY <2>3, <2>5, <2>6
    <3> HIDE DEF bx, bq
    <3> QED
      BY <2>4, <3>1
  <2> QED
    BY <2>1, <2>7 DEF o
<1> HIDE DEF T
<1>7. \A k \in 0..(L - 1) : k \in T
  <2>1. L - 1 \in Nat
    BY <1>1
  <2> QED
    BY <1>5, <1>6, <2>1, InductionUpTo
<1>8. L - 1 \in 0..(L - 1) /\ (L - 1) + 1 = L
  BY <1>1
<1>9. p[L - 1] <= w[L]
  BY <1>7, <1>8 DEF T
<1> QED
  BY <1>4, <1>9 DEF w, p, L

(* How many digits b58enc has for a number of bytes.                       *)
LEMMA DigitsAre ==
    ASSUME NEW n \in Nat
    PROVE  /\ Text!Digits(n) \in Nat /\ Text!Digits(n) >= 1 /\ Text!Digits(n) <= 2 * n + 1
           /\ Text!Digits(n + 8) >= Text!Digits(n) + 11
           /\ Text!Digits(n + 1) >= Text!Digits(n) + 1
BY DEF Text!Digits

(* For the first numbers of bytes.                                         *)
LEMMA FirstDigits ==
    /\ Text!Digits(0) = 1 /\ Text!Digits(1) = 2 /\ Text!Digits(2) = 3 /\ Text!Digits(3) = 5
    /\ Text!Digits(4) = 6 /\ Text!Digits(5) = 7 /\ Text!Digits(6) = 9 /\ Text!Digits(7) = 10
BY DEF Text!Digits

(* More bytes have no fewer digits.                                        *)
LEMMA DigitsGrow ==
    ASSUME NEW n \in Nat, NEW m \in 0..n
    PROVE  Text!Digits(m) <= Text!Digits(n)
BY DEF Text!Digits

(* They are enough for the number.                                         *)
LEMMA EnoughDigits ==
    ASSUME NEW most \in Nat, NEW K \in Nat, Text!Digits(most) <= K, most <= K
    PROVE  \A n \in 0..most : Powers(256, K)[n] <= Powers(58, K)[Text!Digits(n)]
<1> DEFINE q == Powers(256, K)
           p == Powers(58, K)
           D(n) == Text!Digits(n)
           T == {n \in 0..most : \A m \in 0..n : q[m] <= p[D(m)]}
<1>0. 256 \in Nat /\ 58 \in Nat /\ 58 > 0
  OBVIOUS
<1>1. q \in [0..K -> Nat] /\ q[0] = 1 /\ \A k \in 1..K : q[k] = 256 * q[k - 1]
  <2> DEFINE b == 256
  <2>1. b \in Nat
    OBVIOUS
  <2> HIDE DEF b
  <2>2. /\ Powers(b, K) \in [0..K -> Nat] /\ Powers(b, K)[0] = 1
        /\ \A k \in 1..K : Powers(b, K)[k] = b * Powers(b, K)[k - 1]
    BY <2>1, PowersAre
  <2> QED
    BY <2>2 DEF b
<1>2. p \in [0..K -> Nat] /\ p[0] = 1 /\ \A k \in 1..K : p[k] = 58 * p[k - 1]
  <2> DEFINE b == 58
  <2>1. b \in Nat
    OBVIOUS
  <2> HIDE DEF b
  <2>2. /\ Powers(b, K) \in [0..K -> Nat] /\ Powers(b, K)[0] = 1
        /\ \A k \in 1..K : Powers(b, K)[k] = b * Powers(b, K)[k - 1]
    BY <2>1, PowersAre
  <2> QED
    BY <2>2 DEF b
<1>3. \A m \in 0..K : \A n \in m..K : p[m] <= p[n]
  BY <1>0, PowersGrow
<1>4. ASSUME NEW n \in 0..most PROVE D(n) \in 1..K
  <2>0. n \in Nat
    OBVIOUS
  <2>1. Text!Digits(n) \in Nat /\ Text!Digits(n) >= 1 /\ Text!Digits(n) <= Text!Digits(most)
        /\ Text!Digits(most) \in Nat
    BY <2>0, DigitsAre, DigitsGrow
  <2> QED
    BY <2>1
<1> HIDE DEF q, p
<1>9. /\ 1 <= K => p[1] = 58
      /\ 2 <= K => p[2] = 3364
      /\ 3 <= K => p[3] = 195112
      /\ 4 <= K => p[4] = 11316496
      /\ 5 <= K => p[5] = 656356768
      /\ 6 <= K => p[6] = 38068692544
      /\ 7 <= K => p[7] = 2207984167552
      /\ 8 <= K => p[8] = 128063081718016
      /\ 9 <= K => p[9] = 7427658739644928
      /\ 10 <= K => p[10] = 430804206899405824
      /\ 11 <= K => p[11] = 24986644000165537792
  <2>1. 1 <= K => p[1] = 58
    BY <1>2
  <2>2. 2 <= K => p[2] = 3364
    BY <1>2, <2>1
  <2>3. 3 <= K => p[3] = 195112
    BY <1>2, <2>2
  <2>4. 4 <= K => p[4] = 11316496
    BY <1>2, <2>3
  <2>5. 5 <= K => p[5] = 656356768
    BY <1>2, <2>4
  <2>6. 6 <= K => p[6] = 38068692544
    BY <1>2, <2>5
  <2>7. 7 <= K => p[7] = 2207984167552
    BY <1>2, <2>6
  <2>8. 8 <= K => p[8] = 128063081718016
    BY <1>2, <2>7
  <2>9. 9 <= K => p[9] = 7427658739644928
    BY <1>2, <2>8
  <2>10. 10 <= K => p[10] = 430804206899405824
    BY <1>2, <2>9
  <2>11. 11 <= K => p[11] = 24986644000165537792
    BY <1>2, <2>10
  <2> QED
    BY <2>1, <2>2, <2>3, <2>4, <2>5, <2>6, <2>7, <2>8, <2>9, <2>10, <2>11
<1>10. /\ 1 <= K => q[1] = 256
       /\ 2 <= K => q[2] = 65536
       /\ 3 <= K => q[3] = 16777216
       /\ 4 <= K => q[4] = 4294967296
       /\ 5 <= K => q[5] = 1099511627776
       /\ 6 <= K => q[6] = 281474976710656
       /\ 7 <= K => q[7] = 72057594037927936
       /\ 8 <= K => q[8] = 18446744073709551616
  <2>1. 1 <= K => q[1] = 256
    BY <1>1
  <2>2. 2 <= K => q[2] = 65536
    BY <1>1, <2>1
  <2>3. 3 <= K => q[3] = 16777216
    BY <1>1, <2>2
  <2>4. 4 <= K => q[4] = 4294967296
    BY <1>1, <2>3
  <2>5. 5 <= K => q[5] = 1099511627776
    BY <1>1, <2>4
  <2>6. 6 <= K => q[6] = 281474976710656
    BY <1>1, <2>5
  <2>7. 7 <= K => q[7] = 72057594037927936
    BY <1>1, <2>6
  <2>8. 8 <= K => q[8] = 18446744073709551616
    BY <1>1, <2>7
  <2> QED
    BY <2>1, <2>2, <2>3, <2>4, <2>5, <2>6, <2>7, <2>8
<1>5. 0 \in T
  <2>1. D(0) = 1 /\ 1 \in 1..K /\ 1 - 1 = 0
    <3>1. 0 \in 0..most
      OBVIOUS
    <3> QED
      BY <1>4, <3>1, FirstDigits
  <2>2. p[1] = 58
    <3>1. p[1] = 58 * p[1 - 1]
      BY <1>2, <2>1
    <3> QED
      BY <1>2, <3>1
  <2> HIDE DEF D
  <2>3. \A m \in 0..0 : q[m] <= p[D(m)]
    BY <1>1, <2>1, <2>2, SMTT(30)
  <2> QED
    BY <2>3
<1>6. ASSUME NEW n \in 0..most, n < most, n \in T PROVE n + 1 \in T
  <2>1. n + 1 \in 0..most /\ n + 1 \in 1..K /\ n + 1 \in 0..K
    BY <1>6
  <2>2. q[n + 1] <= p[D(n + 1)]
    <3>1. CASE n + 1 < 8
      <4> DEFINE d == D(n + 1)
      <4>1. d \in 1..K
        BY <1>4, <2>1
      <4> DEFINE e == n + 1
      <4>19. e \in 1..7 /\ e <= K /\ d = D(e)
        BY <2>1, <3>1
      <4> HIDE DEF e, d
      <4>20. \/ e = 1 /\ d = 2
             \/ e = 2 /\ d = 3
             \/ e = 3 /\ d = 5
             \/ e = 4 /\ d = 6
             \/ e = 5 /\ d = 7
             \/ e = 6 /\ d = 9
             \/ e = 7 /\ d = 10
        <5>1. \/ e = 1 \/ e = 2 \/ e = 3 \/ e = 4 \/ e = 5 \/ e = 6 \/ e = 7
          BY <4>19
        <5> HIDE DEF D
        <5>2. \A x \in Nat : D(x) = Text!Digits(x)
          BY DEF D
        <5>3. d = Text!Digits(e)
          BY <4>19, <5>2
        <5> QED
          BY <5>1, <5>3, FirstDigits
      <4>21. q[e] <= p[d]
        BY <1>9, <1>10, <4>1, <4>19, <4>20
      <4> QED
        BY <4>21 DEF e, d
    <3>2. CASE ~(n + 1 < 8)
      <4> DEFINE k == (n + 1) - 8
                 d == D(k)
                 o == D(n + 1)
      <4>1. k \in 0..n /\ k \in 0..most /\ k + 8 = n + 1 /\ k + 8 <= K /\ k \in Nat
        BY <2>1, <3>2
      <4> HIDE DEF k
      <4>2. o >= d + 11 /\ o \in 1..K /\ d \in 1..K
        <5>1. D(k + 8) >= D(k) + 11
          BY <4>1, DigitsAre
        <5> QED
          BY <1>4, <2>1, <4>1, <5>1
      <4>3. q[k] <= p[d]
        BY <1>6, <4>1
      <4> HIDE DEF d, o, D
      <4>4. q[k + 8] = 18446744073709551616 * q[k]
        <5>1. q[k + 8] = q[8] * q[k]
          BY <1>0, <4>1, PowersAdd DEF q
        <5>2. q[8] = 18446744073709551616
          BY <1>10, <4>1
        <5> QED
          BY <5>1, <5>2
      <4>5. p[d + 11] = 24986644000165537792 * p[d]
        <5>1. p[d + 11] = p[11] * p[d]
          BY <1>0, <4>2, PowersAdd DEF p
        <5>2. p[11] = 24986644000165537792
          BY <1>9, <4>2
        <5> QED
          BY <5>1, <5>2
      <4>6. q[k] \in Nat /\ p[d] \in Nat /\ p[o] \in Nat
        <5>1. k \in 0..K /\ d \in 0..K /\ o \in 0..K
          BY <4>1, <4>2
        <5> QED
          BY <1>1, <1>2, <5>1
      <4>7. p[d + 11] <= p[o]
        <5>1. d + 11 \in 0..K /\ o \in (d + 11)..K
          BY <4>2
        <5> QED
          BY <1>3, <5>1
      <4>8. q[k + 8] <= p[d + 11]
        <5> DEFINE x == q[k]
                   y == p[d]
        <5>1. x \in Nat /\ y \in Nat /\ x <= y
          BY <4>3, <4>6
        <5> HIDE DEF x, y
        <5>2. 18446744073709551616 * x <= 24986644000165537792 * y
          BY <5>1
        <5> QED
          BY <4>4, <4>5, <5>2 DEF x, y
      <4>9. q[k + 8] \in Nat /\ p[d + 11] \in Nat
        <5>1. k + 8 \in 0..K /\ d + 11 \in 0..K
          BY <4>1, <4>2
        <5> QED
          BY <1>1, <1>2, <5>1
      <4>10. q[n + 1] <= p[o]
        BY <4>1, <4>6, <4>7, <4>8, <4>9
      <4> QED
        BY <4>10 DEF o
    <3> QED
      BY <3>1, <3>2
  <2>3. \A m \in 0..(n + 1) : q[m] <= p[D(m)]
    <3> SUFFICES ASSUME NEW m \in 0..(n + 1) PROVE q[m] <= p[D(m)]
      OBVIOUS
    <3>1. m \in 0..n \/ m = n + 1
      BY <2>1
    <3> HIDE DEF D
    <3> QED
      BY <1>6, <2>2, <3>1
  <2> QED
    BY <2>1, <2>3
<1> HIDE DEF T
<1>7. \A n \in 0..most : n \in T
  BY <1>5, <1>6, InductionUpTo
<1>8. ASSUME NEW n \in 0..most PROVE q[n] <= p[D(n)]
  <2>1. n \in T /\ n \in 0..n
    BY <1>7
  <2> HIDE DEF D
  <2> QED
    BY <2>1 DEF T
<1> QED
  BY <1>8 DEF q, p

(* The zeros in front are counted.                                         *)
LEMMA ZeroCountIs ==
    ASSUME NEW s \in Seq(Nat)
    PROVE  /\ Text!ZeroCount(s) \in 0..Len(s)
           /\ \A k \in 1..Text!ZeroCount(s) : s[k] = 0
           /\ Text!ZeroCount(s) < Len(s) => s[Text!ZeroCount(s) + 1] # 0
<1> DEFINE Fits(count) == /\ \A k \in 1..count : s[k] = 0
                          /\ count < Len(s) => s[count + 1] # 0
<1>1. \E count \in 0..Len(s) : Fits(count)
  <2>1. Len(s) \in Nat
    BY LenProperties
  <2>2. CASE \A k \in 1..Len(s) : s[k] = 0
    <3>1. Fits(Len(s)) /\ Len(s) \in 0..Len(s)
      BY <2>1, <2>2
    <3> QED
      BY <3>1
  <2>3. CASE ~ \A k \in 1..Len(s) : s[k] = 0
    <3> DEFINE T == {k \in 1..Len(s) : s[k] # 0}
    <3>1. T \in SUBSET Nat /\ T # {}
      BY <2>3
    <3> HIDE DEF T
    <3>2. PICK x \in T : \A y \in T : x <= y
      BY <3>1, LeastElement, SMTT(30)
    <3>3. x \in 1..Len(s) /\ s[x] # 0
      BY <3>2 DEF T
    <3>4. x - 1 \in 0..Len(s) /\ (x - 1) + 1 = x
      BY <2>1, <3>3
    <3>5. \A k \in 1..(x - 1) : s[k] = 0
      <4>1. SUFFICES ASSUME NEW k \in 1..(x - 1), s[k] # 0 PROVE FALSE
        OBVIOUS
      <4>2. k \in 1..Len(s) /\ k \in Nat /\ k < x
        BY <2>1, <3>3
      <4>3. x <= k
        BY <3>2, <4>1, <4>2 DEF T
      <4> QED
        BY <3>3, <4>2, <4>3
    <3>6. Fits(x - 1)
      BY <3>3, <3>4, <3>5
    <3> QED
      BY <3>4, <3>6
  <2> QED
    BY <2>2, <2>3
<1>2. Text!ZeroCount(s) = CHOOSE count \in 0..Len(s) : Fits(count)
  BY DEF Text!ZeroCount
<1> HIDE DEF Fits
<1>3. Text!ZeroCount(s) \in 0..Len(s) /\ Fits(Text!ZeroCount(s))
  BY <1>1, <1>2
<1> QED
  BY <1>3 DEF Fits

(* No other number is that count.                                          *)
LEMMA ZeroCountOnly ==
    ASSUME NEW s \in Seq(Nat), NEW count \in 0..Len(s), \A k \in 1..count : s[k] = 0,
           count < Len(s) => s[count + 1] # 0
    PROVE  Text!ZeroCount(s) = count
<1> DEFINE c == Text!ZeroCount(s)
<1>1. c \in 0..Len(s) /\ (\A k \in 1..c : s[k] = 0) /\ (c < Len(s) => s[c + 1] # 0)
  BY ZeroCountIs
<1>2. Len(s) \in Nat
  BY LenProperties
<1> HIDE DEF c
<1>3. ~(c < count)
  BY <1>1, <1>2
<1>4. ~(count < c)
  BY <1>1, <1>2
<1> QED
  BY <1>1, <1>2, <1>3, <1>4 DEF c

(* The zero bytes the data begins with, and the digits there is room for.  *)
Zeros == Text!ZeroCount(data)
Room == Text!Digits(Len(data) - Zeros)

(* The types while it works.                                               *)
TextTypeOK ==
    /\ data \in Seq(0..255) /\ next \in Zeros..Len(data)
    /\ buf \in Seq(0..57) /\ Len(buf) = Room
    /\ high \in 0..(Room - 1) /\ digit \in 0..(Room - 1) /\ carry \in Nat
    /\ pc \in {"byte", "digit"} /\ returned = FALSE /\ b58 = <<-1>>
    /\ pc = "digit" => next < Len(data)

(* The digits up to high are zero, when another byte comes or this one has *)
(* not reached them.                                                       *)
Untouched ==
    /\ pc = "byte" /\ next < Len(data) => \A k \in 1..(high + 1) : buf[k] = 0
    /\ pc = "digit" => \A k \in 1..(digit + 1) : k <= high + 1 => buf[k] = 0

(* What a carry out of each place is worth.                                *)
Places == Powers(58, 2 * Len(data) + 1)

(* The digits are worth the bytes taken; while one is added, the digits    *)
(* not yet multiplied are missing 255 times their worth, and the carry.    *)
Worth ==
    /\ pc = "byte" => carry = 0 /\ Text!Value(buf, 58) = Text!Values(data, 256)[next]
    /\ pc = "digit" =>
          Text!Value(buf, 58)
            + (255 * Text!Values(buf, 58)[digit + 1] + carry) * Places[Room - (digit + 1)]
          = Text!Values(data, 256)[next + 1]

(* The invariant of the text.                                              *)
Encoding == TextTypeOK /\ Untouched /\ Worth

(* A sequence of digits is one of numbers.                                 *)
LEMMA NumbersIn ==
    ASSUME NEW m \in Nat, NEW s \in Seq(0..m)
    PROVE  s \in Seq(Nat) /\ Len(s) \in Nat /\ \A k \in 1..Len(s) : s[k] \in 0..m
<1>1. \A k \in 1..Len(s) : s[k] \in 0..m
  BY ElementOfSeq
<1>2. 0..m \subseteq Nat
  OBVIOUS
<1>3. s \in Seq(Nat)
  BY <1>2, SeqMonotonic
<1> QED
  BY <1>1, <1>3, LenProperties

(* What is known of the lengths.                                           *)
LEMMA RoomIs ==
    ASSUME data \in Seq(0..255)
    PROVE  /\ data \in Seq(Nat) /\ Len(data) \in Nat /\ Zeros \in 0..Len(data)
           /\ \A k \in 1..Len(data) : data[k] \in 0..255
           /\ Room \in Nat /\ Room >= 1 /\ Room <= 2 * Len(data) + 1
           /\ 2 * Len(data) + 1 \in Nat
<1>1. data \in Seq(Nat) /\ Len(data) \in Nat /\ \A k \in 1..Len(data) : data[k] \in 0..255
  <2>1. 255 \in Nat
    OBVIOUS
  <2> QED
    BY <2>1, NumbersIn
<1>2. Zeros \in 0..Len(data)
  BY <1>1, ZeroCountIs DEF Zeros
<1>3. Len(data) - Zeros \in Nat
  BY <1>1, <1>2
<1>4. Room \in Nat /\ Room >= 1 /\ Room <= 2 * (Len(data) - Zeros) + 1
  BY <1>3, DigitsAre DEF Room
<1> QED
  BY <1>1, <1>2, <1>4

(* A byte is taken.                                                        *)
LEMMA NextByteKeeps ==
    ASSUME Encoding, Text!NextByte
    PROVE  Encoding'
<1>1. /\ TextTypeOK /\ Untouched /\ Worth
      /\ pc = "byte" /\ next < Len(data)
      /\ carry' = data[next + 1] /\ digit' = Len(buf) - 1 /\ pc' = "digit"
      /\ data' = data /\ buf' = buf /\ next' = next /\ high' = high
      /\ returned' = returned /\ b58' = b58
  BY DEF Encoding, Text!NextByte
<1>2. /\ data \in Seq(0..255) /\ next \in Zeros..Len(data) /\ buf \in Seq(0..57)
      /\ Len(buf) = Room /\ high \in 0..(Room - 1) /\ returned = FALSE /\ b58 = <<-1>>
  BY <1>1 DEF TextTypeOK
<1>3. /\ data \in Seq(Nat) /\ Len(data) \in Nat /\ Zeros \in 0..Len(data)
      /\ \A k \in 1..Len(data) : data[k] \in 0..255
      /\ Room \in Nat /\ Room >= 1 /\ 2 * Len(data) + 1 \in Nat
  BY <1>2, RoomIs
<1>4. Zeros' = Zeros /\ Room' = Room
  BY <1>1 DEF Zeros, Room
<1>5. buf \in Seq(Nat) /\ 58 \in Nat /\ 256 \in Nat
  <2>1. 57 \in Nat /\ 58 \in Nat /\ 256 \in Nat
    OBVIOUS
  <2> QED
    BY <1>2, <2>1, NumbersIn
<1>6. next + 1 \in 1..Len(data) /\ (next + 1) - 1 = next /\ next \in Nat
  BY <1>1, <1>2, <1>3
<1>7. data[next + 1] \in 0..255
  BY <1>3, <1>6
<1>8. TextTypeOK'
  <2>1. carry' \in Nat /\ digit' \in 0..(Room - 1)
    BY <1>1, <1>2, <1>3, <1>7
  <2> QED
    BY <1>1, <1>2, <1>4, <2>1 DEF TextTypeOK
<1>9. Untouched'
  BY <1>1, <1>2, <1>3 DEF Untouched
<1>10. Worth'
  <2> DEFINE v == Text!Value(buf, 58)
             x == data[next + 1]
             w == Text!Values(data, 256)
  <2>1. carry = 0 /\ v = w[next]
    BY <1>1 DEF Worth
  <2>2. Text!Values(buf, 58)[Room] = v /\ v \in Nat
    <3>1. Text!Values(buf, 58) \in [0..Len(buf) -> Nat]
      BY <1>5, ValuesAre, SMTT(30)
    <3>2. Room \in 0..Room
      BY <1>3
    <3> QED
      BY <1>2, <3>1, <3>2 DEF Text!Value
  <2>3. w[next + 1] = 256 * w[next] + x
    <3>1. \A k \in 1..Len(data) : w[k] = 256 * w[k - 1] + data[k]
      BY <1>3, <1>5, ValuesAre
    <3>2. w[next + 1] = 256 * w[(next + 1) - 1] + data[next + 1]
      BY <1>6, <3>1
    <3> QED
      BY <1>6, <3>2
  <2>4. Places[0] = 1
    BY <1>3, <1>5, PowersAre DEF Places
  <2>5. digit' + 1 = Room /\ Room - (digit' + 1) = 0
    BY <1>1, <1>2, <1>3
  <2>6. Places' = Places
    BY <1>1 DEF Places
  <2>7. v + (255 * v + x) * 1 = 256 * v + x
    BY <1>7, <2>2
  <2>8. Text!Value(buf, 58)
          + (255 * Text!Values(buf, 58)[digit' + 1] + carry') * Places[Room - (digit' + 1)]
        = Text!Values(data, 256)[next + 1]
    <3>1. Text!Values(buf, 58)[digit' + 1] = v /\ carry' = x /\ Places[Room - (digit' + 1)] = 1
          /\ Text!Values(data, 256)[next + 1] = 256 * v + x /\ Text!Value(buf, 58) = v
      BY <1>1, <2>1, <2>2, <2>3, <2>4, <2>5
    <3> HIDE DEF v, x
    <3> QED
      BY <2>7, <3>1
  <2>9. pc' = "digit" /\ pc' # "byte"
    BY <1>1
  <2> QED
    BY <1>1, <1>4, <2>6, <2>8, <2>9 DEF Worth
<1> QED
  BY <1>8, <1>9, <1>10 DEF Encoding

(* The digits of the byte are done.                                        *)
LEMMA ByteDoneKeeps ==
    ASSUME Encoding, Text!ByteDone
    PROVE  Encoding'
<1>1. /\ TextTypeOK /\ Untouched /\ Worth
      /\ pc = "digit" /\ ~(digit > high \/ carry # 0)
      /\ next' = next + 1 /\ high' = digit /\ pc' = "byte"
      /\ data' = data /\ buf' = buf /\ digit' = digit /\ carry' = carry
      /\ returned' = returned /\ b58' = b58
  BY DEF Encoding, Text!ByteDone, Text!MoreDigits
<1>2. /\ data \in Seq(0..255) /\ next \in Zeros..Len(data) /\ buf \in Seq(0..57)
      /\ Len(buf) = Room /\ high \in 0..(Room - 1) /\ digit \in 0..(Room - 1)
      /\ returned = FALSE /\ b58 = <<-1>> /\ next < Len(data) /\ carry \in Nat
  BY <1>1 DEF TextTypeOK
<1>3. /\ data \in Seq(Nat) /\ Len(data) \in Nat /\ Zeros \in 0..Len(data)
      /\ Room \in Nat /\ Room >= 1 /\ Room <= 2 * Len(data) + 1 /\ 2 * Len(data) + 1 \in Nat
  BY <1>2, RoomIs
<1>4. Zeros' = Zeros /\ Room' = Room
  BY <1>1 DEF Zeros, Room
<1>5. buf \in Seq(Nat) /\ 58 \in Nat
  <2>1. 57 \in Nat
    OBVIOUS
  <2> QED
    BY <1>2, <2>1, NumbersIn
<1>6. digit <= high /\ carry = 0 /\ digit \in Nat /\ high \in Nat /\ next \in Nat
      /\ next + 1 \in Zeros..Len(data)
  BY <1>1, <1>2, <1>3
<1>7. \A k \in 1..(digit + 1) : buf[k] = 0
  <2>1. \A k \in 1..(digit + 1) : k <= high + 1 => buf[k] = 0
    BY <1>1 DEF Untouched
  <2>2. \A k \in 1..(digit + 1) : k <= high + 1
    BY <1>6
  <2> QED
    BY <2>1, <2>2
<1>8. TextTypeOK'
  BY <1>1, <1>2, <1>4, <1>6 DEF TextTypeOK
<1>9. Untouched'
  BY <1>1, <1>7 DEF Untouched
<1>10. Worth'
  <2> DEFINE p == Places[Room - (digit + 1)]
             v == Text!Value(buf, 58)
  <2>1. Text!Values(buf, 58)[digit + 1] = 0
    <3>1. digit + 1 \in 0..Len(buf)
      BY <1>2, <1>3, <1>6
    <3> QED
      BY <1>5, <1>7, <3>1, ZerosAreNothing
  <2>2. v + (255 * Text!Values(buf, 58)[digit + 1] + carry) * p = Text!Values(data, 256)[next + 1]
    BY <1>1 DEF Worth
  <2>3. p \in Nat
    <3>1. Room - (digit + 1) \in 0..(2 * Len(data) + 1)
      BY <1>2, <1>3, <1>6
    <3>2. Places \in [0..(2 * Len(data) + 1) -> Nat]
      BY <1>3, <1>5, PowersAre DEF Places
    <3> QED
      BY <3>1, <3>2
  <2>4. v \in Nat
    <3>1. Text!Values(buf, 58) \in [0..Len(buf) -> Nat]
      BY <1>5, ValuesAre
    <3>2. Room \in 0..Room
      BY <1>3
    <3> QED
      BY <1>2, <3>1, <3>2 DEF Text!Value
  <2> HIDE DEF p
  <2>5. (255 * Text!Values(buf, 58)[digit + 1] + carry) * p = 0
    BY <1>6, <2>1, <2>3
  <2>6. v = Text!Values(data, 256)[next + 1]
    <3> HIDE DEF v
    <3> QED
      BY <2>2, <2>4, <2>5
  <2>7. pc' = "byte" /\ pc' # "digit" /\ carry' = 0
    BY <1>1, <1>6
  <2> QED
    BY <1>1, <2>6, <2>7 DEF Worth
<1> QED
  BY <1>8, <1>9, <1>10 DEF Encoding

(* What a digit is changed by and what it carries are worth the same.      *)
LEMMA CarryOn ==
    ASSUME NEW v \in Nat, NEW old \in Nat, NEW new \in Nat, NEW in \in Nat, NEW over \in Nat,
           NEW place \in Nat, in + 256 * old = 58 * over + new
    PROVE  (new - old) * place + (255 * v + over) * (58 * place)
           = (255 * (58 * v + old) + in) * place
<1> DEFINE a == new - old
           b == 255 * v + over
           c == 255 * (58 * v + old) + in
<1>1. a \in Int /\ b \in Int /\ c \in Int /\ c = 58 * b + a
  OBVIOUS
<1> HIDE DEF a, b, c
<1>2. a * place + b * (58 * place) = (58 * b + a) * place
  BY <1>1
<1> QED
  BY <1>1, <1>2 DEF a, b, c

(* The places that b58enc has are enough for the bytes taken: all of them, *)
(* and with one place less for one byte less.                              *)
LEMMA RoomEnough ==
    ASSUME NEW bytes \in Nat, NEW K \in Nat, Text!Digits(bytes) <= K, bytes <= K
    PROVE  /\ Powers(256, K)[bytes] <= Powers(58, K)[Text!Digits(bytes)]
           /\ bytes >= 1 => Powers(256, K)[bytes - 1] <= Powers(58, K)[Text!Digits(bytes) - 1]
<1> DEFINE q == Powers(256, K)
           p == Powers(58, K)
           L == Text!Digits(bytes)
<1>1. \A n \in 0..bytes : q[n] <= p[Text!Digits(n)]
  BY EnoughDigits
<1>2. L \in Nat /\ L >= 1 /\ L <= K
  BY DigitsAre
<1>3. p \in [0..K -> Nat] /\ q \in [0..K -> Nat]
  <2>1. 58 \in Nat /\ 256 \in Nat
    OBVIOUS
  <2>2. \A b \in Nat : Powers(b, K) \in [0..K -> Nat]
    BY PowersAre
  <2> QED
    BY <2>1, <2>2
<1>4. q[bytes] <= p[L]
  <2>1. bytes \in 0..bytes
    OBVIOUS
  <2> QED
    BY <1>1, <2>1
<1>5. ASSUME bytes >= 1 PROVE q[bytes - 1] <= p[L - 1]
  <2> DEFINE n == bytes - 1
             d == Text!Digits(n)
  <2>1. n \in Nat /\ n \in 0..bytes /\ n + 1 = bytes /\ n \in 0..K
    BY <1>5
  <2>2. d \in Nat /\ d + 1 <= L
    <3> HIDE DEF n
    <3>1. Text!Digits(n) \in Nat /\ Text!Digits(n + 1) >= Text!Digits(n) + 1
      BY <2>1, DigitsAre, Zenon
    <3> QED
      BY <2>1, <3>1
  <2>3. q[n] <= p[d]
    BY <1>1, <2>1
  <2>4. p[d] <= p[L - 1]
    <3> HIDE DEF d, L
    <3>1. d \in 0..K /\ L - 1 \in d..K /\ 58 \in Nat /\ 58 > 0
      BY <1>2, <2>2
    <3> QED
      BY <3>1, PowersGrow
  <2>5. q[n] \in Nat /\ p[d] \in Nat /\ p[L - 1] \in Nat
    <3> HIDE DEF d, L, n
    <3>1. d \in 0..K /\ L - 1 \in 0..K
      BY <1>2, <2>2
    <3> QED
      BY <1>3, <2>1, <3>1, SMTT(30)
  <2> HIDE DEF d, L, q, p, n
  <2>6. q[n] <= p[L - 1]
    BY <2>3, <2>4, <2>5
  <2> QED
    BY <2>6 DEF n
<1> QED
  BY <1>4, <1>5

(* A digit is written.                                                     *)
LEMMA DigitKeeps ==
    ASSUME Encoding, Text!Digit
    PROVE  Encoding'
<1> DEFINE m == digit + 1
           sum == carry + 256 * buf[m]
           K == 2 * Len(data) + 1
<1>1. /\ TextTypeOK /\ Untouched /\ Worth
      /\ pc = "digit" /\ (digit > high \/ carry # 0)
      /\ buf' = [buf EXCEPT ![m] = sum % 58] /\ carry' = sum \div 58
      /\ IF digit = 0 THEN next' = next + 1 /\ high' = 0 /\ pc' = "byte" /\ digit' = digit
                      ELSE digit' = digit - 1 /\ next' = next /\ high' = high /\ pc' = pc
      /\ data' = data /\ returned' = returned /\ b58' = b58
  BY DEF Encoding, Text!Digit, Text!MoreDigits
<1>2. /\ data \in Seq(0..255) /\ next \in Zeros..Len(data) /\ buf \in Seq(0..57)
      /\ Len(buf) = Room /\ high \in 0..(Room - 1) /\ digit \in 0..(Room - 1)
      /\ returned = FALSE /\ b58 = <<-1>> /\ next < Len(data) /\ carry \in Nat
  BY <1>1 DEF TextTypeOK
<1>3. /\ data \in Seq(Nat) /\ Len(data) \in Nat /\ Zeros \in 0..Len(data)
      /\ \A k \in 1..Len(data) : data[k] \in 0..255
      /\ Room \in Nat /\ Room >= 1 /\ Room <= K /\ K \in Nat
  BY <1>2, RoomIs
<1>4. Zeros' = Zeros /\ Room' = Room /\ Places' = Places
  BY <1>1 DEF Zeros, Room, Places
<1>5. buf \in Seq(Nat) /\ (\A k \in 1..Room : buf[k] \in 0..57) /\ 58 \in Nat /\ 256 \in Nat
  <2>1. 57 \in Nat /\ 58 \in Nat /\ 256 \in Nat
    OBVIOUS
  <2> QED
    BY <1>2, <2>1, NumbersIn
<1>6. /\ m \in 1..Room /\ m \in 1..Len(buf) /\ m - 1 = digit /\ digit \in Nat /\ high \in Nat
      /\ next \in Nat /\ next + 1 \in 1..Len(data) /\ next + 1 \in Zeros..Len(data)
  BY <1>2, <1>3
<1>7. buf[m] \in 0..57
  BY <1>5, <1>6
<1>8. sum \in Nat
  <2> DEFINE x == buf[m]
  <2>1. x \in Nat
    BY <1>7
  <2> HIDE DEF x
  <2>2. carry + 256 * x \in Nat
    BY <1>2, <2>1
  <2> QED
    BY <2>2 DEF x
<1>9. carry' \in Nat /\ sum % 58 \in 0..57 /\ sum = 58 * carry' + (sum % 58)
  <2> HIDE DEF sum
  <2>1. sum \in Int /\ 58 > 0 /\ carry' = sum \div 58
    BY <1>1, <1>8
  <2>2. sum \div 58 \in Nat
    BY <1>5, <1>8, <2>1, Halves
  <2>3. sum % 58 \in 0..(58 - 1) /\ sum = 58 * (sum \div 58) + (sum % 58)
    BY <1>5, <2>1, Division
  <2> QED
    BY <2>1, <2>2, <2>3
<1> HIDE DEF sum, m
<1>10. buf' \in Seq(0..57) /\ Len(buf') = Room /\ buf'[m] = sum % 58
       /\ \A k \in 1..Room : k # m => buf'[k] = buf[k]
  BY <1>1, <1>2, <1>6, <1>9, ExceptSeq, SMTT(30)
<1>11. buf' \in Seq(Nat) /\ (\A k \in 1..Len(buf') : buf'[k] \in 0..57)
  <2>1. 57 \in Nat
    OBVIOUS
  <2> QED
    BY <1>10, <2>1, NumbersIn
<1> DEFINE w == Text!Values(buf, 58)
           w2 == Text!Values(buf', 58)
           d == Text!Values(data, 256)
           v == Text!Value(buf, 58)
           v2 == Text!Value(buf', 58)
           p == Places
           u == Room - m
<1>12. u \in 0..K /\ Room \in 0..Room /\ digit \in 0..Room /\ m \in 0..Room
  BY <1>3, <1>6
<1>13. p \in [0..K -> Nat] /\ (\A k \in 1..K : p[k] = 58 * p[k - 1])
  <2>1. \A b \in Nat : /\ Powers(b, K) \in [0..K -> Nat]
                       /\ \A k \in 1..K : Powers(b, K)[k] = b * Powers(b, K)[k - 1]
    BY <1>3, PowersAre
  <2> QED
    BY <1>5, <2>1, SMTT(30) DEF Places
<1>14. w \in [0..Room -> Nat] /\ w[0] = 0 /\ w[m] = 58 * w[digit] + buf[m] /\ v = w[Room]
  <2>1. w \in [0..Room -> Nat] /\ w[0] = 0 /\ \A k \in 1..Room : w[k] = 58 * w[k - 1] + buf[k]
    <3> DEFINE b == 58
    <3>1. b \in Nat
      OBVIOUS
    <3> HIDE DEF b
    <3>2. /\ Text!Values(buf, b) \in [0..Room -> Nat] /\ Text!Values(buf, b)[0] = 0
          /\ \A k \in 1..Room : Text!Values(buf, b)[k] = b * Text!Values(buf, b)[k - 1] + buf[k]
      BY <1>2, <1>5, <3>1, ValuesAre
    <3> QED
      BY <3>2 DEF b
  <2>2. w[m] = 58 * w[m - 1] + buf[m]
    BY <1>6, <2>1
  <2> QED
    BY <1>2, <1>6, <2>1, <2>2 DEF Text!Value
<1>15. w2 \in [0..Room -> Nat] /\ v2 = w2[Room]
  BY <1>5, <1>10, <1>11, ValuesAre DEF Text!Value
<1>16. w2[digit] = w[digit] /\ v2 = v + (buf'[m] - buf[m]) * p[u]
  <2>1. /\ Len(buf') = Len(buf) /\ Len(buf) <= K /\ m \in 1..Len(buf)
        /\ \A k \in 1..Len(buf) : k # m => buf'[k] = buf[k]
    BY <1>2, <1>3, <1>6, <1>10
  <2>2. \A b \in Nat :
            /\ Text!Values(buf', b)[m - 1] = Text!Values(buf, b)[m - 1]
            /\ Text!Value(buf', b)
                  = Text!Value(buf, b) + (buf'[m] - buf[m]) * Powers(b, K)[Len(buf) - m]
    <3> SUFFICES ASSUME NEW b \in Nat
                 PROVE  /\ Text!Values(buf', b)[m - 1] = Text!Values(buf, b)[m - 1]
                        /\ Text!Value(buf', b) = Text!Value(buf, b)
                              + (buf'[m] - buf[m]) * Powers(b, K)[Len(buf) - m]
      OBVIOUS
    <3> DEFINE t == buf'
    <3>1. buf \in Seq(Nat) /\ t \in Seq(Nat) /\ K \in Nat /\ Len(t) = Len(buf)
          /\ Len(buf) <= K /\ m \in 1..Len(buf)
          /\ \A k \in 1..Len(buf) : k # m => t[k] = buf[k]
      BY <1>3, <1>5, <1>11, <2>1
    <3> HIDE DEF K, t
    <3>2. /\ Text!Values(t, b)[m - 1] = Text!Values(buf, b)[m - 1]
          /\ Text!Value(t, b) =
                 Text!Value(buf, b) + (t[m] - buf[m]) * Powers(b, K)[Len(buf) - m]
      BY <3>1, DigitChanged, Zenon
    <3> QED
      BY <3>2 DEF t
  <2> QED
    BY <1>2, <1>5, <1>6, <2>2, SMTT(30) DEF Places
<1>17. v + (255 * w[m] + carry) * p[u] = d[next + 1]
  BY <1>1 DEF Worth, m
<1>18. d \in [0..Len(data) -> Nat]
  BY <1>3, <1>5, ValuesAre, Zenon
<1> HIDE DEF w, w2, d, v, v2, p, u
<1>19. v \in Nat /\ v2 \in Nat /\ p[u] \in Nat /\ w[digit] \in Nat
  BY <1>12, <1>13, <1>14, <1>15
<1>20. v2 + (255 * w[digit] + carry') * (58 * p[u]) = d[next + 1]
  <2> DEFINE x == w[digit]
             o == buf[m]
             n == buf'[m]
             z == p[u]
             c == carry'
  <2>1. x \in Nat /\ o \in Nat /\ n \in Nat /\ z \in Nat /\ c \in Nat /\ carry \in Nat
        /\ carry + 256 * o = 58 * c + n
    <3>1. x \in Nat /\ o \in Nat /\ n \in Nat /\ z \in Nat /\ c \in Nat /\ carry \in Nat
      <4>1. o \in 0..57 /\ n \in 0..57
        BY <1>7, <1>9, <1>10
      <4>2. x \in Nat /\ z \in Nat /\ c \in Nat /\ carry \in Nat
        BY <1>2, <1>9, <1>19
      <4> HIDE DEF x, o, n, z, c
      <4> QED
        BY <4>1, <4>2
    <3>2. carry + 256 * o = 58 * c + n
      BY <1>9, <1>10 DEF sum
    <3> QED
      BY <3>1, <3>2
  <2>2. v2 = v + (n - o) * z /\ v + (255 * (58 * x + o) + carry) * z = d[next + 1]
    BY <1>14, <1>16, <1>17
  <2> HIDE DEF x, o, n, z, c
  <2>3. (n - o) * z + (255 * x + c) * (58 * z) = (255 * (58 * x + o) + carry) * z
    BY <2>1, CarryOn
  <2>4. v2 + (255 * x + c) * (58 * z) = d[next + 1]
    <3> DEFINE a == (n - o) * z
               b == (255 * x + c) * (58 * z)
               e == (255 * (58 * x + o) + carry) * z
    <3>1. a \in Int /\ b \in Int /\ e \in Int
      BY <2>1
    <3>2. v2 = v + a /\ v + e = d[next + 1] /\ a + b = e
      BY <2>2, <2>3
    <3> HIDE DEF a, b, e
    <3>3. v2 + b = d[next + 1]
      BY <1>19, <3>1, <3>2
    <3> QED
      BY <3>3 DEF b
  <2> QED
    BY <2>4 DEF x, z, c
<1>21. CASE digit # 0
  <2>1. digit' = digit - 1 /\ next' = next /\ high' = high /\ pc' = "digit"
        /\ digit' \in 0..(Room - 1) /\ digit' + 1 = digit
    BY <1>1, <1>2, <1>6, <1>21, SMTT(30)
  <2>2. TextTypeOK'
    BY <1>1, <1>2, <1>4, <1>9, <1>10, <2>1 DEF TextTypeOK
  <2>3. Untouched'
    <3>1. \A k \in 1..(digit + 1) : k <= high + 1 => buf[k] = 0
      BY <1>1 DEF Untouched
    <3>2. \A k \in 1..digit : k \in 1..(digit + 1) /\ k \in 1..Room /\ k # m
      BY <1>2, <1>6
    <3>3. \A k \in 1..digit : k <= high + 1 => buf'[k] = 0
      BY <1>10, <3>1, <3>2
    <3> QED
      BY <2>1, <3>3 DEF Untouched
  <2>4. Worth'
    <3>1. u + 1 \in 1..K /\ (u + 1) - 1 = u /\ Room - digit = u + 1
      BY <1>3, <1>6, <1>21 DEF u
    <3>2. p[Room - digit] = 58 * p[u]
      BY <1>13, <3>1
    <3>3. v2 + (255 * w2[digit] + carry') * p[Room - digit] = d[next + 1]
      BY <1>16, <1>20, <3>2
    <3> QED
      BY <1>1, <1>4, <2>1, <3>3 DEF Worth, v2, w2, p, d
  <2> QED
    BY <2>2, <2>3, <2>4 DEF Encoding
<1>22. CASE digit = 0
  <2> DEFINE bytes == Len(data) - Zeros
             taken == (next + 1) - Zeros
             q == Powers(256, K)
  <2>1. next' = next + 1 /\ high' = 0 /\ pc' = "byte" /\ digit' = 0
    BY <1>1, <1>22
  <2>2. m = 1 /\ u = Room - 1 /\ Room \in 1..K /\ Room - 1 \in 0..K /\ w[digit] = 0
    BY <1>3, <1>14, <1>22 DEF m, u
  <2>3. p[Room] = 58 * p[u]
    BY <1>13, <2>2
  <2>4. bytes \in Nat /\ taken \in 1..bytes /\ bytes <= K /\ taken \in 0..K /\ bytes \in 0..K
        /\ Room = Text!Digits(bytes)
    BY <1>2, <1>3, SMTT(30) DEF Room
  <2>5. d[next + 1] < q[taken]
    <3>1. \A k \in 1..Zeros : data[k] = 0
      BY <1>3, ZeroCountIs DEF Zeros
    <3>2. ASSUME NEW k \in 1..Len(data) PROVE data[k] < 256
      <4> DEFINE x == data[k]
      <4>1. x \in 0..255
        BY <1>3
      <4> HIDE DEF x
      <4>2. x < 256
        BY <4>1
      <4> QED
        BY <4>2 DEF x
    <3>3. Len(data) <= K
      BY <1>3
    <3> DEFINE b == 256
    <3>4. b \in Nat /\ \A k \in 1..Len(data) : data[k] < b
      BY <1>5, <3>2
    <3> HIDE DEF b, K
    <3>5. \A k \in Zeros..Len(data) : Text!Values(data, b)[k] < Powers(b, K)[k - Zeros]
      BY <1>3, <3>1, <3>3, <3>4, ValuesFit, SMTT(30)
    <3>6. \A k \in Zeros..Len(data) : d[k] < q[k - Zeros]
      BY <3>5 DEF d, b
    <3> QED
      BY <1>6, <3>6
  <2>6. q \in [0..K -> Nat] /\ 256 > 0
    <3>1. \A b \in Nat : Powers(b, K) \in [0..K -> Nat]
      BY <1>3, PowersAre
    <3> QED
      BY <1>5, <3>1, SMTT(30)
  <2>7. q[bytes] <= p[Room] /\ (bytes >= 1 => q[bytes - 1] <= p[Room - 1])
    BY <1>3, <2>4, RoomEnough, SMTT(30) DEF p, Places
  <2>8. v2 + carry' * p[Room] = d[next + 1]
    <3>1. 255 * w[digit] + carry' = carry'
      <4> DEFINE x == w[digit]
                 c == carry'
      <4>1. x = 0 /\ c \in Nat
        BY <1>9, <2>2
      <4> HIDE DEF x, c
      <4>2. 255 * x + c = c
        BY <4>1
      <4> QED
        BY <4>2 DEF x, c
    <3> QED
      BY <1>20, <2>3, <3>1
  <2> HIDE DEF q, bytes, taken
  <2>9. d[next + 1] \in Nat /\ q[taken] \in Nat /\ q[bytes] \in Nat /\ p[Room] \in Nat
        /\ p[Room - 1] \in Nat
    <3>1. next + 1 \in 0..Len(data) /\ Room \in 0..K
      BY <1>6, <2>2
    <3>2. d[next + 1] \in Nat
      BY <1>18, <3>1
    <3>3. q[taken] \in Nat /\ q[bytes] \in Nat
      BY <2>4, <2>6
    <3>4. p[Room] \in Nat /\ p[Room - 1] \in Nat
      BY <1>13, <2>2, <3>1
    <3> QED
      BY <3>2, <3>3, <3>4
  <2>10. q[taken] <= q[bytes]
    <3>1. bytes \in taken..K
      BY <2>4
    <3> QED
      BY <1>3, <1>5, <2>4, <2>6, <3>1, PowersGrow, SMTT(30) DEF q
  <2>11. d[next + 1] < p[Room]
    BY <2>5, <2>7, <2>9, <2>10
  <2>12. carry' = 0
    <3> DEFINE c == carry'
               z == p[Room]
    <3>1. c \in Nat /\ z \in Nat /\ v2 \in Nat /\ v2 + c * z < z
      BY <1>9, <1>19, <2>8, <2>9, <2>11
    <3> HIDE DEF c, z
    <3>2. SUFFICES ASSUME 1 <= c PROVE FALSE
      BY <3>1 DEF c
    <3>3. z * 1 <= z * c
      BY <3>1, <3>2, Bigger
    <3>4. z * 1 = z /\ z * c = c * z /\ z * c \in Nat
      BY <3>1
    <3> DEFINE zc == z * c
               cz == c * z
    <3>5. z <= zc /\ zc = cz /\ zc \in Nat /\ v2 + cz < z
      BY <3>1, <3>3, <3>4
    <3> HIDE DEF zc, cz
    <3> QED
      BY <1>19, <3>1, <3>5
  <2>13. v2 = d[next + 1]
    <3>1. carry' * p[Room] = 0
      BY <2>9, <2>12
    <3> QED
      BY <1>19, <2>8, <3>1
  <2>14. TextTypeOK'
    <3>1. 0 \in 0..(Room - 1) /\ next' \in Zeros..Len(data) /\ pc' \in {"byte", "digit"}
          /\ pc' # "digit"
      BY <1>3, <1>6, <2>1
    <3> QED
      BY <1>1, <1>2, <1>4, <1>9, <1>10, <2>1, <3>1 DEF TextTypeOK
  <2>15. Worth'
    <3>1. pc' = "byte" /\ pc' # "digit"
      BY <2>1
    <3> QED
      BY <1>1, <2>1, <2>12, <2>13, <3>1 DEF Worth, v2, d
  <2>16. Untouched'
    <3>1. pc' = "byte" /\ pc' # "digit" /\ high' + 1 = 1
      BY <2>1
    <3>2. ASSUME next' < Len(data) PROVE buf'[1] = 0
      <4>1. taken <= bytes - 1 /\ bytes >= 1 /\ bytes - 1 \in taken..K /\ bytes - 1 \in 0..K
        BY <1>2, <1>3, <1>6, <2>1, <2>4, <3>2, SMTT(30) DEF taken, bytes
      <4>2. q[taken] <= q[bytes - 1]
        BY <1>3, <1>5, <2>4, <2>6, <4>1, PowersGrow, Zenon DEF q
      <4>3. q[bytes - 1] \in Nat
        BY <2>6, <4>1
      <4>4. v2 < p[Room - 1]
        BY <2>5, <2>7, <2>9, <2>13, <4>1, <4>2, <4>3
      <4>5. buf'[1] \in 0..57
        BY <1>3, <1>10, <1>11
      <4>6. SUFFICES ASSUME buf'[1] >= 1 PROVE FALSE
        BY <4>5
      <4>7. p[Room - 1] <= v2
        BY <1>3, <1>5, <1>10, <1>11, <4>6, TopDigit DEF p, Places, v2
      <4> QED
        BY <1>19, <2>9, <4>4, <4>7
    <3>3. ASSUME next' < Len(data), NEW k \in 1..1 PROVE buf'[k] = 0
      BY <3>2, <3>3
    <3> QED
      BY <1>1, <3>1, <3>3 DEF Untouched
  <2> QED
    BY <2>14, <2>15, <2>16 DEF Encoding
<1> QED
  BY <1>21, <1>22

(* The text is written: the zeros of the data, then the digits from the    *)
(* first that is not zero.                                                 *)
LEMMA TextIs ==
    ASSUME data \in Seq(0..255), buf \in Seq(0..57)
    PROVE  /\ Text!Text \in Seq(0..57) /\ Text!ZeroCount(Text!Text) = Zeros
           /\ Text!Value(Text!Text, 58) = Text!Value(buf, 58)
<1> DEFINE c == Text!ZeroCount(buf)
           L == Len(buf)
           s == SubSeq(buf, 1 + c, L)
           ones == [k \in 1..Zeros |-> 0]
           t == ones \o s
           z == Zeros
<1>1. data \in Seq(Nat) /\ Zeros \in Nat
  <2>1. Zeros \in 0..Len(data) /\ data \in Seq(Nat) /\ Len(data) \in Nat
    BY RoomIs
  <2> QED
    BY <2>1
<1>2. buf \in Seq(Nat) /\ L \in Nat /\ (\A k \in 1..L : buf[k] \in 0..57) /\ 57 \in Nat /\ 58 \in Nat
  <2>1. 57 \in Nat /\ 58 \in Nat
    OBVIOUS
  <2> QED
    BY <2>1, NumbersIn
<1>3. c \in 0..L /\ (\A k \in 1..c : buf[k] = 0) /\ (c < L => buf[c + 1] # 0)
  BY <1>2, ZeroCountIs
<1> HIDE DEF c
<1>4. /\ s \in Seq(0..57) /\ Len(s) = L - c /\ \A k \in 1..(L - c) : s[k] = buf[c + k]
  <2>1. 1 + c \in Int /\ L \in Int /\ c \in Nat
    BY <1>2, <1>3
  <2>2. \A k \in (1 + c)..L : buf[k] \in 0..57
    <3>1. \A k \in (1 + c)..L : k \in 1..L
      BY <1>2, <1>3
    <3> QED
      BY <1>2, <3>1
  <2> HIDE DEF L
  <2>3. /\ s \in Seq(0..57) /\ Len(s) = IF 1 + c <= L THEN L - (1 + c) + 1 ELSE 0
        /\ \A k \in 1..(L - (1 + c) + 1) : s[k] = buf[(1 + c) + k - 1]
    BY <2>1, <2>2, SubSeqProperties
  <2> HIDE DEF s
  <2>4. Len(s) = L - c
    BY <1>3, <2>1, <2>3
  <2>5. ASSUME NEW k \in 1..(L - c) PROVE s[k] = buf[c + k]
    <3>1. k \in 1..(L - (1 + c) + 1) /\ (1 + c) + k - 1 = c + k
      BY <2>1
    <3>2. s[k] = buf[(1 + c) + k - 1]
      BY <2>3, <3>1
    <3> QED
      BY <3>1, <3>2
  <2> QED
    BY <2>3, <2>4, <2>5
<1>5. ones \in Seq(0..57) /\ Len(ones) = z /\ \A k \in 1..z : ones[k] = 0
  BY <1>1
<1> HIDE DEF s, ones, z, L
<1>6. /\ t \in Seq(0..57) /\ Len(t) = z + Len(s)
      /\ \A k \in 1..(z + Len(s)) : t[k] = IF k <= z THEN ones[k] ELSE s[k - z]
  BY <1>4, <1>5, ConcatProperties
<1> HIDE DEF t
<1>7. z \in Nat /\ Len(s) \in Nat /\ c \in Nat /\ L - c \in Nat
  <2>1. z \in Nat
    BY <1>1 DEF z
  <2> QED
    BY <1>2, <1>3, <1>4, <2>1
<1>8. \A k \in 1..z : t[k] = 0
  <2>1. \A k \in 1..z : k \in 1..(z + Len(s)) /\ k <= z
    BY <1>7
  <2> QED
    BY <1>5, <1>6, <2>1
<1>9. \A k \in 1..Len(s) : t[z + k] = s[k]
  <2> SUFFICES ASSUME NEW k \in 1..Len(s) PROVE t[z + k] = s[k]
    OBVIOUS
  <2>1. z + k \in 1..(z + Len(s)) /\ ~(z + k <= z) /\ (z + k) - z = k
    BY <1>7
  <2>2. t[z + k] = s[(z + k) - z]
    BY <1>6, <2>1
  <2> QED
    BY <2>1, <2>2
<1>10. s \in Seq(Nat) /\ t \in Seq(Nat)
  BY <1>2, <1>4, <1>6, NumbersIn
<1>11. Text!Value(t, 58) = Text!Value(s, 58)
  <2>1. ASSUME NEW b \in Nat PROVE Text!Value(t, b) = Text!Value(s, b)
    <3>1. Len(t) = z + Len(s)
      BY <1>6
    <3> QED
      BY <1>7, <1>8, <1>9, <1>10, <3>1, ZerosInFront
  <2> QED
    BY <1>2, <2>1
<1>12. Text!Value(buf, 58) = Text!Value(s, 58)
  <2>1. Len(buf) = c + Len(s) /\ (\A k \in 1..c : buf[k] = 0)
        /\ \A k \in 1..Len(s) : buf[c + k] = s[k]
    <3>1. Len(buf) = L /\ L = c + (L - c)
      BY <1>2, <1>7 DEF L
    <3> QED
      BY <1>3, <1>4, <3>1
  <2>2. ASSUME NEW b \in Nat PROVE Text!Value(buf, b) = Text!Value(s, b)
    <3>1. buf \in Seq(Nat) /\ s \in Seq(Nat) /\ c \in Nat
      BY <1>2, <1>7, <1>10
    <3> QED
      BY <2>1, <3>1, ZerosInFront, Zenon
  <2> QED
    BY <1>2, <2>2
<1>13. Text!ZeroCount(t) = z
  <2>1. z \in 0..Len(t)
    BY <1>6, <1>7
  <2>2. ASSUME z < Len(t) PROVE t[z + 1] # 0
    <3>1. 1 \in 1..Len(s) /\ c < L /\ 1 \in 1..(L - c)
      BY <1>4, <1>6, <1>7, <2>2, <1>2
    <3>2. t[z + 1] = s[1] /\ s[1] = buf[c + 1]
      BY <1>4, <1>9, <3>1
    <3> QED
      BY <1>3, <3>1, <3>2
  <2> QED
    BY <1>8, <1>10, <2>1, <2>2, ZeroCountOnly
<1>14. Text!Text = t
  BY DEF Text!Text, Text!Significant, t, ones, s, c, L, Zeros
<1> QED
  BY <1>6, <1>11, <1>12, <1>13, <1>14 DEF z

(* When it is done, it is done.                                            *)
LEMMA WriteEncodes ==
    ASSUME Encoding, Text!Write
    PROVE  pc' = "done" /\ Text!TextIsEncoding'
<1>1. /\ TextTypeOK /\ Worth /\ pc = "byte" /\ next = Len(data) /\ pc' = "done"
      /\ b58sz' = Len(Text!Text) + 1
      /\ returned' = (b58sz > Len(Text!Text))
      /\ b58' = IF b58sz > Len(Text!Text) THEN Text!Text ELSE b58
      /\ data' = data /\ buf' = buf
  BY DEF Encoding, Text!Write
<1>2. data \in Seq(0..255) /\ buf \in Seq(0..57) /\ b58 = <<-1>>
  BY <1>1 DEF TextTypeOK
<1> DEFINE t == Text!Text
<1>3. t \in Seq(0..57) /\ Text!ZeroCount(t) = Zeros /\ Text!Value(t, 58) = Text!Value(buf, 58)
  BY <1>2, TextIs
<1>4. Text!Value(buf, 58) = Text!Value(data, 256)
  BY <1>1 DEF Worth, Text!Value
<1> HIDE DEF t
<1>5. t # <<-1>>
  <2> SUFFICES ASSUME t = <<-1>> PROVE FALSE
    OBVIOUS
  <2>1. Len(t) = 1 /\ t[1] = -1 /\ 1 \in 1..Len(t)
    OBVIOUS
  <2>2. t[1] \in 0..57
    BY <1>3, <2>1, ElementOfSeq
  <2> QED
    BY <2>1, <2>2
<1>6. Text!ZeroCount(data') = Zeros /\ Text!Value(data', 256) = Text!Value(t, 58)
  BY <1>1, <1>3, <1>4 DEF Zeros
<1>7. CASE b58sz > Len(t)
  <2>1. returned' /\ b58' = t /\ b58sz' = Len(b58') + 1 /\ b58' # <<-1>>
    BY <1>1, <1>5, <1>7 DEF t
  <2> QED
    BY <1>1, <1>3, <1>6, <2>1 DEF Text!TextIsEncoding
<1>8. CASE ~(b58sz > Len(t))
  <2>1. ~returned' /\ b58' = <<-1>>
    BY <1>1, <1>2, <1>8 DEF t
  <2> QED
    BY <1>1, <2>1 DEF Text!TextIsEncoding
<1> QED
  BY <1>7, <1>8

(* Nothing is taken yet.                                                   *)
LEMMA EncodingInit ==
    ASSUME Text!Init, CallsAssumption
    PROVE  Encoding
<1>1. /\ data \in Datas
      /\ buf = [k \in 1..Room |-> 0]
      /\ next = Zeros /\ high = Len(buf) - 1 /\ digit = high
      /\ carry = 0 /\ pc = "byte" /\ returned = FALSE /\ b58 = <<-1>>
  BY DEF Text!Init, Room, Zeros
<1>2. data \in Seq(0..255)
  BY <1>1 DEF CallsAssumption, Text!DatasFit
<1>3. /\ data \in Seq(Nat) /\ Len(data) \in Nat /\ Zeros \in 0..Len(data)
      /\ Room \in Nat /\ Room >= 1
  BY <1>2, RoomIs
<1> DEFINE L == Room
<1>4. buf = [k \in 1..L |-> 0] /\ L \in Nat
  BY <1>1, <1>3
<1> HIDE DEF L
<1>5. buf \in Seq(0..57) /\ Len(buf) = L /\ \A k \in 1..L : buf[k] = 0
  BY <1>4
<1>6. TextTypeOK
  <2>1. L - 1 \in 0..(L - 1) /\ next \in Zeros..Len(data) /\ carry \in Nat
    BY <1>1, <1>3 DEF L
  <2> QED
    BY <1>1, <1>2, <1>5, <2>1 DEF TextTypeOK, L
<1>7. Untouched
  <2>1. high + 1 = L
    BY <1>1, <1>3, <1>5 DEF L
  <2> QED
    BY <1>1, <1>5, <2>1 DEF Untouched
<1>8. Worth
  <2>1. buf \in Seq(Nat) /\ 58 \in Nat /\ 256 \in Nat
    <3>1. 57 \in Nat /\ 58 \in Nat /\ 256 \in Nat
      OBVIOUS
    <3> QED
      BY <1>5, <3>1, NumbersIn
  <2>2. \A b \in Nat : Text!Values(buf, b)[L] = 0
    <3>1. L \in 0..Len(buf)
      BY <1>3, <1>5 DEF L
    <3> QED
      BY <1>5, <2>1, <3>1, ZerosAreNothing
  <2>3. \A b \in Nat : Text!Values(data, b)[Zeros] = 0
    <3>1. \A k \in 1..Zeros : data[k] = 0
      BY <1>3, ZeroCountIs DEF Zeros
    <3> QED
      BY <1>3, <3>1, ZerosAreNothing
  <2>4. Text!Value(buf, 58) = 0
    BY <1>5, <2>1, <2>2 DEF Text!Value
  <2>5. Text!Values(data, 256)[next] = 0
    BY <1>1, <2>1, <2>3
  <2>6. pc # "digit"
    BY <1>1
  <2> QED
    BY <1>1, <2>4, <2>5, <2>6 DEF Worth
<1> QED
  BY <1>6, <1>7, <1>8 DEF Encoding

(* It holds until the text is done.                                        *)
TextInv == fun = "text" => Encoding \/ (pc = "done" /\ Text!TextIsEncoding)

(* TextIsEncoding, of every text and for every size passed: the digits are *)
(* enough, none in use is left out, and what is written is the number of   *)
(* the data with its zeros in front (base58.c:145-189).                    *)
THEOREM TextsAreEncodings == SpecAll => []TextIsEncoding
<1>1. InitAll => TextInv
  <2> SUFFICES ASSUME InitAll, fun = "text" PROVE Encoding
    BY DEF TextInv
  <2>1. Text!Init
    BY DEF InitAll
  <2> QED
    BY <2>1, EncodingInit, CallsAssumption
<1>2. TextInv /\ [NextAll]_allVars => TextInv'
  <2> SUFFICES ASSUME TextInv, [NextAll]_allVars, fun' = "text" PROVE TextInv'
    BY DEF TextInv
  <2>1. CASE Encode
    <3>1. fun = "text" /\ Text!Next
      BY <2>1 DEF Encode
    <3>2. Encoding
      BY <3>1 DEF TextInv, Text!Next, Text!NextByte, Text!Digit, Text!ByteDone, Text!Write
    <3>3. Encoding' \/ (pc' = "done" /\ Text!TextIsEncoding')
      BY <3>1, <3>2, NextByteKeeps, DigitKeeps, ByteDoneKeeps, WriteEncodes DEF Text!Next
    <3> QED
      BY <3>3 DEF TextInv
  <2>2. CASE Derive \/ SignNow \/ Calculate \/ Multiply
    <3>1. fun # "text" /\ fun' = fun
      BY <2>2 DEF Derive, SignNow, Calculate, Multiply
    <3> QED
      BY <3>1
  <2>3. CASE UNCHANGED allVars
    <3>1. /\ fun' = fun /\ pc' = pc /\ data' = data /\ b58sz' = b58sz /\ buf' = buf
          /\ next' = next /\ digit' = digit /\ high' = high /\ carry' = carry
          /\ returned' = returned /\ b58' = b58
      BY <2>3 DEF allVars, texts
    <3>2. Encoding => Encoding'
      BY <3>1 DEF Encoding, TextTypeOK, Untouched, Worth, Zeros, Room, Places
    <3>3. Text!TextIsEncoding => Text!TextIsEncoding'
      BY <3>1 DEF Text!TextIsEncoding
    <3> QED
      BY <3>1, <3>2, <3>3 DEF TextInv
  <2> QED
    BY <2>1, <2>2, <2>3 DEF NextAll
<1>3. TextInv => TextIsEncoding
  BY DEF TextInv, TextIsEncoding, Text!TextIsEncoding, Encoding, TextTypeOK, Worth
<1> QED
  BY <1>1, <1>2, <1>3, PTL DEF SpecAll

-----------------------------------------------------------------------------
(* The values of a byte (BigNum, as KeyCalls calls it).                    *)
Byte == 0..(Number!Radix - 1)

(* The sizes of a byte and of numbers, and the field they are of.          *)
LEMMA FieldIs ==
    /\ Number!Radix \in Nat /\ Number!Radix >= 2
    /\ Size \in Nat /\ ComplementSize \in Nat /\ ComplementSize < Size
    /\ Prime(Modulus) /\ Modulus \in Nat /\ Modulus >= 2
    /\ Number!Limit \in Nat /\ Modulus < Number!Limit
<1>1. Number!FieldFits
  BY CallsAssumption
<1>2. Size \in Nat /\ ComplementSize \in Nat /\ ComplementSize < Size /\ ByteBits - 1 \in Nat
      /\ (ByteBits - 1) + 1 = ByteBits
  BY <1>1 DEF Number!FieldFits
<1>3. Number!Radix \in Nat /\ Number!Radix >= 2
  <2>1. /\ Shifted(ByteBits - 1) \in Nat /\ Shifted(ByteBits - 1) > 0
        /\ Shifted((ByteBits - 1) + 1) = 2 * Shifted(ByteBits - 1)
    BY <1>2, ShiftDoubles
  <2>2. Number!Radix = Shifted(ByteBits)
    BY DEF Number!Radix, Number!Shifted, Shifted
  <2> DEFINE x == Shifted(ByteBits - 1)
  <2> HIDE DEF x
  <2>3. Number!Radix = 2 * x /\ x \in Nat /\ x > 0
    BY <1>2, <2>1, <2>2 DEF x
  <2> QED
    BY <2>3
<1>4. Number!Limit \in Nat
  <2>1. Number!Power = Powers(Number!Radix, 2 * Size)
    BY DEF Number!Power, Powers
  <2>2. Powers(Number!Radix, 2 * Size) \in [0..(2 * Size) -> Nat]
    <3>1. 2 * Size \in Nat
      BY <1>2
    <3> QED
      BY <1>3, <3>1, PowersAre
  <2>3. Size \in 0..(2 * Size)
    BY <1>2
  <2> QED
    BY <2>1, <2>2, <2>3 DEF Number!Limit
<1>5. Modulus \in Nat /\ Modulus >= 2 /\ Modulus < Number!Limit /\ Prime(Modulus)
  <2>1. Modulus \in 2..(Number!Limit - 1) /\ \A d \in 2..(Modulus - 1) : Modulus % d # 0
    BY <1>1 DEF Number!FieldFits
  <2>2. Modulus \in Nat /\ Modulus >= 2 /\ Modulus < Number!Limit
    BY <1>4, <2>1
  <2> QED
    BY <2>1, <2>2 DEF Prime
<1> QED
  BY <1>2, <1>3, <1>4, <1>5

(* Each byte counts for Radix times the one below.                         *)
LEMMA BytePowers ==
    /\ Number!Power = Powers(Number!Radix, 2 * Size)
    /\ Number!Power \in [0..(2 * Size) -> Nat] /\ Number!Power[0] = 1
    /\ \A i \in 1..(2 * Size) : Number!Power[i] = Number!Radix * Number!Power[i - 1]
    /\ \A i \in 0..(2 * Size) : Number!Power[i] > 0
    /\ Number!Limit = Number!Power[Size]
<1> DEFINE p == Number!Power
           R == Number!Radix
           K == 2 * Size
<1>1. R \in Nat /\ R >= 2 /\ R > 0 /\ Size \in Nat /\ K \in Nat
  BY FieldIs
<1>2. p = Powers(R, K)
  BY DEF Number!Power, Powers
<1>3. p \in [0..K -> Nat] /\ p[0] = 1 /\ \A i \in 1..K : p[i] = R * p[i - 1]
  BY <1>1, <1>2, PowersAre
<1>4. ASSUME NEW i \in 0..K PROVE p[i] > 0
  <2>1. 0 \in 0..K /\ i \in 0..K
    BY <1>1
  <2>2. Powers(R, K)[0] <= Powers(R, K)[i]
    BY <1>1, <2>1, PowersGrow
  <2> DEFINE x == p[i]
  <2>3. x \in Nat /\ 1 <= x
    BY <1>2, <1>3, <2>2
  <2> HIDE DEF x
  <2>4. x > 0
    BY <2>3
  <2> QED
    BY <2>4 DEF x
<1>5. Number!Limit = p[Size]
  BY DEF Number!Limit
<1> QED
  BY <1>2, <1>3, <1>4, <1>5

(* As many bytes as two numbers have count for the product.                *)
LEMMA BytesTogether ==
    ASSUME NEW i \in Nat, NEW j \in Nat, i + j <= 2 * Size
    PROVE  /\ i \in 0..(2 * Size) /\ j \in 0..(2 * Size) /\ i + j \in 0..(2 * Size)
           /\ Number!Power[i] \in Nat /\ Number!Power[j] \in Nat
           /\ Number!Power[i] > 0 /\ Number!Power[j] > 0
           /\ Number!Power[i + j] = Number!Power[i] * Number!Power[j]
<1>1. Number!Radix \in Nat /\ Size \in Nat /\ 2 * Size \in Nat
  BY FieldIs
<1>2. i \in 0..(2 * Size) /\ j \in 0..(2 * Size) /\ i + j \in 0..(2 * Size)
  BY <1>1
<1>3. Powers(Number!Radix, 2 * Size)[j + i]
        = Powers(Number!Radix, 2 * Size)[i] * Powers(Number!Radix, 2 * Size)[j]
  <2>1. j + i <= 2 * Size
    BY <1>1
  <2> QED
    BY <1>1, <2>1, PowersAdd
<1>4. j + i = i + j
  OBVIOUS
<1> QED
  BY <1>2, <1>3, <1>4, BytePowers

(* More bytes count for more.                                              *)
LEMMA BytesGrow ==
    ASSUME NEW i \in Nat, NEW j \in Nat, i <= j, j <= 2 * Size
    PROVE  Number!Power[i] <= Number!Power[j]
<1>1. Number!Radix \in Nat /\ Number!Radix > 0 /\ 2 * Size \in Nat
      /\ i \in 0..(2 * Size) /\ j \in i..(2 * Size)
  BY FieldIs
<1> QED
  BY <1>1, BytePowers, PowersGrow

(* What the lowest bytes are worth, one more at a time (BigNum!Parts).     *)
LEMMA PartsAre ==
    ASSUME NEW a \in Seq(Nat), Len(a) <= 2 * Size
    PROVE  /\ Number!Parts(a) \in [0..Len(a) -> Nat] /\ Number!Parts(a)[0] = 0
           /\ \A i \in 1..Len(a) :
                 Number!Parts(a)[i] = Number!Parts(a)[i - 1] + a[i] * Number!Power[i - 1]
<1> DEFINE L == Len(a)
           p == Number!Power
           step == [i \in 1..L |-> [x \in Nat |-> x + a[i] * p[i - 1]]]
           w == Number!Parts(a)
<1>1. L \in Nat /\ L <= 2 * Size /\ \A i \in 1..L : a[i] \in Nat
  BY LenProperties, ElementOfSeq
<1>2. p \in [0..(2 * Size) -> Nat] /\ Size \in Nat
  BY BytePowers, FieldIs
<1>3. w = CHOOSE h : h = [i \in 0..L |-> IF i = 0 THEN 0 ELSE h[i - 1] + a[i] * p[i - 1]]
  BY DEF Number!Parts
<1> HIDE DEF L, w, p
<1>4. step \in [1..L -> [Nat -> Nat]]
  <2>1. ASSUME NEW i \in 1..L, NEW x \in Nat PROVE x + a[i] * p[i - 1] \in Nat
    <3>1. a[i] \in Nat /\ p[i - 1] \in Nat
      <4>1. i - 1 \in 0..(2 * Size)
        BY <1>1, <1>2
      <4> QED
        BY <1>1, <1>2, <4>1
    <3> DEFINE y == a[i]
               z == p[i - 1]
    <3> HIDE DEF y, z
    <3>2. y \in Nat /\ z \in Nat
      BY <3>1 DEF y, z
    <3>3. y * z \in Nat
      BY <3>2
    <3>4. x + y * z \in Nat
      BY <3>3
    <3> QED
      BY <3>4 DEF y, z
  <2> QED
    BY <2>1
<1>5. \A i \in 1..L : \A x \in Nat : step[i][x] = x + a[i] * p[i - 1]
  OBVIOUS
<1> HIDE DEF step
<1>6. PICK f : Runs(f, L, Nat, 0, step)
  BY <1>1, <1>4, RecursionUpTo
<1>7. f = [i \in 0..L |-> IF i = 0 THEN 0 ELSE f[i - 1] + a[i] * p[i - 1]]
  <2>1. \A i \in 1..L : i - 1 \in 0..L
    BY <1>1
  <2>2. \A i \in 1..L : f[i] = f[i - 1] + a[i] * p[i - 1]
    BY <1>5, <1>6, <2>1 DEF Runs
  <2>3. \A i \in 0..L : f[i] = IF i = 0 THEN 0 ELSE f[i - 1] + a[i] * p[i - 1]
    BY <1>1, <1>6, <2>2 DEF Runs
  <2> QED
    BY <1>6, <2>3 DEF Runs
<1>8. w = [i \in 0..L |-> IF i = 0 THEN 0 ELSE w[i - 1] + a[i] * p[i - 1]]
  BY <1>3, <1>7
<1>9. \A i \in 1..L : w[i] = w[i - 1] + a[i] * p[i - 1]
  BY <1>1, <1>8
<1>10. Runs(w, L, Nat, 0, step)
  <2>1. w = [i \in 0..L |-> w[i]] /\ w[0] = 0
    BY <1>1, <1>8
  <2>2. \A i \in 1..L : w[i - 1] \in Nat => w[i] = step[i][w[i - 1]]
    BY <1>5, <1>9
  <2> QED
    BY <1>1, <1>4, <2>1, <2>2, RecursionOnly
<1> QED
  BY <1>9, <1>10 DEF Runs, w, L, p

(* Bytes are numbers.                                                      *)
LEMMA BytesIn ==
    ASSUME NEW a \in Seq(Byte)
    PROVE  /\ a \in Seq(Nat) /\ Len(a) \in Nat
           /\ \A i \in 1..Len(a) : a[i] \in Byte /\ a[i] \in Nat /\ a[i] < Number!Radix
<1>1. Number!Radix \in Nat
  BY FieldIs
<1>2. Len(a) \in Nat /\ a \in [1..Len(a) -> Byte]
  BY LenProperties
<1>3. Byte \subseteq Nat /\ \A x \in Byte : x < Number!Radix
  BY <1>1 DEF Byte
<1>4. a \in [1..Len(a) -> Nat]
  BY <1>2, <1>3
<1>5. a \in Seq(Nat)
  BY <1>2, <1>4, SeqDef
<1> QED
  BY <1>2, <1>3, <1>5

(* A number is less than what the next byte counts for.                    *)
LEMMA PartsFit ==
    ASSUME NEW a \in Seq(Byte), Len(a) <= 2 * Size
    PROVE  \A i \in 0..Len(a) : Number!Parts(a)[i] < Number!Power[i]
<1> DEFINE w == Number!Parts(a)
           p == Number!Power
           L == Len(a)
           R == Number!Radix
           T == {i \in 0..L : w[i] < p[i]}
<1>1. L \in Nat /\ L <= 2 * Size /\ Size \in Nat /\ R \in Nat /\ R >= 2
      /\ \A i \in 1..L : a[i] \in 0..(R - 1)
  BY FieldIs, BytesIn DEF Byte
<1>2. w \in [0..L -> Nat] /\ w[0] = 0 /\ \A i \in 1..L : w[i] = w[i - 1] + a[i] * p[i - 1]
  BY BytesIn, PartsAre
<1>3. p \in [0..(2 * Size) -> Nat] /\ p[0] = 1 /\ \A i \in 1..(2 * Size) : p[i] = R * p[i - 1]
  BY BytePowers
<1> HIDE DEF w, p, L, R
<1>4. 0 \in T
  BY <1>1, <1>2, <1>3
<1>5. ASSUME NEW i \in 0..L, i < L, i \in T PROVE i + 1 \in T
  <2> DEFINE o == i + 1
             x == w[i]
             q == p[i]
             y == a[o]
  <2>1. o \in 1..L /\ o \in 0..L /\ o - 1 = i /\ o \in 1..(2 * Size) /\ i \in 0..(2 * Size)
    BY <1>1, <1>5
  <2>2. w[o] = x + y * q /\ p[o] = R * q
    <3> HIDE DEF o
    <3>1. w[o] = w[o - 1] + a[o] * p[o - 1] /\ p[o] = R * p[o - 1]
      BY <1>2, <1>3, <2>1
    <3> QED
      BY <2>1, <3>1
  <2>3. x \in Nat /\ q \in Nat /\ y \in 0..(R - 1) /\ x < q
    BY <1>1, <1>2, <1>3, <1>5, <2>1
  <2> HIDE DEF o, x, q, y
  <2>4. q * (y + 1) <= q * R
    BY <1>1, <2>3, Bigger
  <2>5. q * (y + 1) = y * q + q /\ q * R = R * q /\ y * q \in Nat /\ R * q \in Nat
    BY <1>1, <2>3
  <2>6. x + y * q < R * q
    <3> DEFINE yq == y * q
               rq == R * q
    <3>1. yq + q <= rq /\ yq \in Nat /\ rq \in Nat
      BY <2>4, <2>5
    <3> HIDE DEF yq, rq
    <3>2. x + yq < rq
      BY <2>3, <3>1
    <3> QED
      BY <3>2 DEF yq, rq
  <2>7. w[o] < p[o]
    BY <2>2, <2>6
  <2> QED
    BY <2>1, <2>7 DEF o
<1> HIDE DEF T
<1>6. \A i \in 0..L : i \in T
  BY <1>1, <1>4, <1>5, InductionUpTo
<1> QED
  BY <1>6 DEF T, w, p, L

(* Where two numbers have the same bytes they are worth the same.          *)
LEMMA PartsSame ==
    ASSUME NEW a \in Seq(Nat), NEW b \in Seq(Nat), NEW m \in Nat,
           m <= Len(a), m <= Len(b), Len(a) <= 2 * Size, Len(b) <= 2 * Size,
           \A i \in 1..m : a[i] = b[i]
    PROVE  Number!Parts(a)[m] = Number!Parts(b)[m]
<1> DEFINE w == Number!Parts(a)
           v == Number!Parts(b)
           p == Number!Power
           T == {i \in 0..m : w[i] = v[i]}
<1>1. Len(a) \in Nat /\ Len(b) \in Nat
  BY LenProperties
<1>2. w[0] = 0 /\ \A i \in 1..Len(a) : w[i] = w[i - 1] + a[i] * p[i - 1]
  BY PartsAre
<1>3. v[0] = 0 /\ \A i \in 1..Len(b) : v[i] = v[i - 1] + b[i] * p[i - 1]
  BY PartsAre
<1> HIDE DEF w, v, p
<1>4. 0 \in T
  BY <1>2, <1>3
<1>5. ASSUME NEW i \in 0..m, i < m, i \in T PROVE i + 1 \in T
  <2>1. i + 1 \in 1..Len(a) /\ i + 1 \in 1..Len(b) /\ i + 1 \in 1..m /\ i + 1 \in 0..m
        /\ (i + 1) - 1 = i
    BY <1>1, <1>5
  <2>2. w[i + 1] = w[i] + a[i + 1] * p[i] /\ v[i + 1] = v[i] + b[i + 1] * p[i]
    BY <1>2, <1>3, <2>1
  <2>3. w[i] = v[i] /\ a[i + 1] = b[i + 1]
    BY <1>5, <2>1
  <2> QED
    BY <2>1, <2>2, <2>3
<1> HIDE DEF T
<1>6. \A i \in 0..m : i \in T
  BY <1>4, <1>5, InductionUpTo
<1> QED
  BY <1>6 DEF T, w, v

(* The higher bytes are a number of their own, times what they count for.  *)
LEMMA PartsSplit ==
    ASSUME NEW a \in Seq(Nat), NEW b \in Seq(Nat), NEW m \in Nat,
           m + Len(b) <= Len(a), Len(a) <= 2 * Size,
           \A i \in 1..Len(b) : b[i] = a[m + i]
    PROVE  /\ Number!Parts(a)[m] \in Nat /\ Number!Value(b) \in Nat
           /\ Number!Parts(a)[m + Len(b)]
                = Number!Parts(a)[m] + Number!Power[m] * Number!Value(b)
<1> DEFINE w == Number!Parts(a)
           v == Number!Parts(b)
           p == Number!Power
           L == Len(b)
           T == {i \in 0..L : w[m + i] = w[m] + p[m] * v[i]}
<1>1. Len(a) \in Nat /\ L \in Nat /\ L <= 2 * Size /\ m + L <= 2 * Size /\ Size \in Nat
      /\ m + L <= Len(a)
  BY LenProperties, FieldIs
<1>2. w \in [0..Len(a) -> Nat] /\ \A i \in 1..Len(a) : w[i] = w[i - 1] + a[i] * p[i - 1]
  BY PartsAre
<1>3. v \in [0..L -> Nat] /\ v[0] = 0 /\ \A i \in 1..L : v[i] = v[i - 1] + b[i] * p[i - 1]
  BY <1>1, PartsAre
<1>4. p \in [0..(2 * Size) -> Nat]
  BY BytePowers
<1>5. Number!Value(b) = v[L]
  BY DEF Number!Value
<1>6. m \in 0..Len(a) /\ m \in 0..(2 * Size) /\ L \in 0..L
  BY <1>1
<1>7. \A i \in 1..L : b[i] = a[m + i] /\ b[i] \in Nat
  BY ElementOfSeq
<1>8. ASSUME NEW i \in 0..L, i < L PROVE p[m + i] = p[m] * p[i]
  <2>1. i \in Nat /\ m + i <= 2 * Size
    BY <1>1, <1>8
  <2> QED
    BY <2>1, BytesTogether
<1> HIDE DEF w, v, p, L
<1>9. 0 \in T
  <2>1. m + 0 = m /\ w[m] \in Nat /\ p[m] \in Nat
    <3>1. w[m] \in Nat
      BY <1>2, <1>6
    <3>2. p[m] \in Nat
      BY <1>4, <1>6
    <3> QED
      BY <3>1, <3>2
  <2>2. p[m] * v[0] = 0
    BY <1>3, <2>1
  <2> QED
    BY <1>1, <2>1, <2>2
<1>10. ASSUME NEW i \in 0..L, i < L, i \in T PROVE i + 1 \in T
  <2> DEFINE o == m + (i + 1)
             x == w[m]
             q == p[m]
             y == v[i]
             z == p[i]
             c == b[i + 1]
  <2>1. o \in 1..Len(a) /\ o - 1 = m + i /\ i + 1 \in 1..L /\ (i + 1) - 1 = i /\ i + 1 \in 0..L
        /\ i \in 0..(2 * Size)
    BY <1>1, <1>10
  <2>2. w[m + i] = x + q * y /\ p[m + i] = q * z /\ c = a[o]
    BY <1>7, <1>8, <1>10, <2>1
  <2>3. v[i + 1] = y + c * z
    BY <1>3, <2>1
  <2> HIDE DEF o
  <2>4. w[o] = w[m + i] + c * p[m + i]
    <3>1. w[o] = w[o - 1] + a[o] * p[o - 1]
      BY <1>2, <2>1
    <3> QED
      BY <2>1, <2>2, <3>1
  <2>5. x \in Nat /\ q \in Nat /\ y \in Nat /\ z \in Nat /\ c \in Nat
    BY <1>2, <1>3, <1>4, <1>6, <1>7, <2>1
  <2> HIDE DEF x, q, y, z, c
  <2>6. (x + q * y) + c * (q * z) = x + q * (y + c * z)
    BY <2>5
  <2>7. w[o] = x + q * v[i + 1]
    BY <2>2, <2>3, <2>4, <2>6
  <2> QED
    BY <2>1, <2>7 DEF o, x, q
<1> HIDE DEF T
<1>11. L \in T
  <2>1. \A i \in 0..L : i \in T
    BY <1>1, <1>9, <1>10, InductionUpTo
  <2> QED
    BY <1>6, <2>1
<1> QED
  BY <1>2, <1>3, <1>5, <1>6, <1>11 DEF T, w, v, p, L

(* Bytes that are zero are worth nothing.                                  *)
LEMMA ZeroBytes ==
    ASSUME NEW a \in Seq(Nat), Len(a) <= 2 * Size, \A i \in 1..Len(a) : a[i] = 0
    PROVE  Number!Value(a) = 0
<1> DEFINE w == Number!Parts(a)
           p == Number!Power
           L == Len(a)
           T == {i \in 0..L : w[i] = 0}
<1>1. L \in Nat /\ L <= 2 * Size /\ Size \in Nat
  BY LenProperties, FieldIs
<1>2. w[0] = 0 /\ \A i \in 1..L : w[i] = w[i - 1] + a[i] * p[i - 1]
  BY PartsAre
<1>3. p \in [0..(2 * Size) -> Nat]
  BY BytePowers
<1>4. \A i \in 1..L : a[i] = 0
  OBVIOUS
<1>5. Number!Value(a) = w[L]
  BY DEF Number!Value
<1> HIDE DEF w, p, L
<1>6. 0 \in T
  BY <1>1, <1>2
<1>7. ASSUME NEW i \in 0..L, i < L, i \in T PROVE i + 1 \in T
  <2> DEFINE z == p[i]
  <2>1. i + 1 \in 1..L /\ i + 1 \in 0..L /\ (i + 1) - 1 = i /\ i \in 0..(2 * Size)
    BY <1>1, <1>7
  <2>2. w[i + 1] = w[i] + a[i + 1] * z /\ a[i + 1] = 0 /\ w[i] = 0 /\ z \in Nat
    BY <1>2, <1>3, <1>4, <1>7, <2>1
  <2> HIDE DEF z
  <2> QED
    BY <2>1, <2>2
<1> HIDE DEF T
<1>8. \A i \in 0..L : i \in T
  BY <1>1, <1>6, <1>7, InductionUpTo
<1>9. L \in 0..L
  BY <1>1
<1> QED
  BY <1>5, <1>8, <1>9 DEF T

(* A number of which only the lower bytes are set is worth what they are.  *)
LEMMA ZerosOnTop ==
    ASSUME NEW a \in Seq(Nat), Len(a) <= 2 * Size, NEW m \in Nat, m <= Len(a),
           \A i \in (m + 1)..Len(a) : a[i] = 0
    PROVE  Number!Value(a) = Number!Parts(a)[m]
<1> DEFINE w == Number!Parts(a)
           p == Number!Power
           L == Len(a)
           T == {i \in 0..(L - m) : w[m + i] = w[m]}
<1>1. L \in Nat /\ L <= 2 * Size /\ Size \in Nat /\ m <= L
  BY LenProperties, FieldIs
<1>2. w \in [0..L -> Nat] /\ \A i \in 1..L : w[i] = w[i - 1] + a[i] * p[i - 1]
  BY PartsAre
<1>3. p \in [0..(2 * Size) -> Nat]
  BY BytePowers
<1>4. \A i \in (m + 1)..L : a[i] = 0
  OBVIOUS
<1>5. Number!Value(a) = w[L]
  BY DEF Number!Value
<1> HIDE DEF w, p, L
<1>6. 0 \in T
  BY <1>1
<1>7. ASSUME NEW i \in 0..(L - m), i < L - m, i \in T PROVE i + 1 \in T
  <2> DEFINE o == m + (i + 1)
             z == p[m + i]
  <2>1. o \in 1..L /\ o \in (m + 1)..L /\ o - 1 = m + i /\ i + 1 \in 0..(L - m)
        /\ m + i \in 0..(2 * Size) /\ m \in 0..L
    BY <1>1, <1>7
  <2>2. w[m + i] = w[m] /\ w[m] \in Nat /\ z \in Nat
    BY <1>2, <1>3, <1>7, <2>1
  <2> HIDE DEF o
  <2>3. w[o] = w[o - 1] + a[o] * p[o - 1] /\ a[o] = 0
    BY <1>2, <1>4, <2>1
  <2>4. w[o] = w[m] + 0 * z
    BY <2>1, <2>2, <2>3
  <2> HIDE DEF z
  <2>5. w[o] = w[m]
    BY <2>2, <2>4
  <2> QED
    BY <2>1, <2>5 DEF o
<1> HIDE DEF T
<1>8. L - m \in Nat /\ L - m \in 0..(L - m) /\ m + (L - m) = L
  BY <1>1
<1>9. \A i \in 0..(L - m) : i \in T
  BY <1>6, <1>7, <1>8, InductionUpTo
<1> QED
  BY <1>5, <1>8, <1>9 DEF T, w

(* Every byte adds to what the ones below are worth.                       *)
LEMMA PartsGrow ==
    ASSUME NEW a \in Seq(Nat), Len(a) <= 2 * Size, NEW m \in 1..Len(a), a[m] # 0
    PROVE  Number!Power[m - 1] <= Number!Value(a)
<1> DEFINE w == Number!Parts(a)
           p == Number!Power
           L == Len(a)
           T == {i \in 0..(L - m) : p[m - 1] <= w[m + i]}
<1>1. L \in Nat /\ L <= 2 * Size /\ Size \in Nat /\ m \in 1..L /\ \A i \in 1..L : a[i] \in Nat
  BY LenProperties, FieldIs, ElementOfSeq
<1>2. w \in [0..L -> Nat] /\ \A i \in 1..L : w[i] = w[i - 1] + a[i] * p[i - 1]
  BY PartsAre
<1>3. p \in [0..(2 * Size) -> Nat]
  BY BytePowers
<1>4. Number!Value(a) = w[L]
  BY DEF Number!Value
<1> HIDE DEF w, p, L
<1>5. ASSUME NEW i \in 1..L
      PROVE  w[i] \in Nat /\ w[i - 1] \in Nat /\ a[i] * p[i - 1] \in Nat /\ p[i - 1] \in Nat
             /\ w[i] >= w[i - 1] /\ w[i] >= a[i] * p[i - 1]
  <2> DEFINE x == a[i]
             y == p[i - 1]
             z == w[i - 1]
             q == x * y
  <2>1. i - 1 \in 0..L /\ i \in 0..L /\ i - 1 \in 0..(2 * Size)
    BY <1>1
  <2>2. w[i] = z + q /\ x \in Nat /\ y \in Nat /\ z \in Nat /\ w[i] \in Nat
    BY <1>1, <1>2, <1>3, <2>1
  <2> HIDE DEF x, y, z
  <2>3. q \in Nat
    BY <2>2
  <2> HIDE DEF q
  <2>4. w[i] \in Nat /\ z \in Nat /\ q \in Nat /\ y \in Nat /\ w[i] >= z /\ w[i] >= q
    BY <2>2, <2>3
  <2> QED
    BY <2>4 DEF x, y, z, q
<1>6. 0 \in T
  <2> DEFINE x == a[m]
             y == p[m - 1]
             z == x * y
  <2>1. x \in Nat /\ x # 0 /\ y \in Nat /\ z \in Nat /\ w[m] \in Nat /\ w[m] >= z
    BY <1>1, <1>5
  <2> HIDE DEF x, y
  <2>2. y * 1 <= y * x
    BY <2>1, Bigger
  <2>3. y * 1 = y /\ y * x = z
    BY <2>1
  <2>4. y <= w[m]
    <3> DEFINE u == y * 1
               t == y * x
    <3>1. u = y /\ t = z /\ u <= t
      BY <2>2, <2>3
    <3> HIDE DEF u, t, z
    <3> QED
      BY <2>1, <3>1
  <2>5. m + 0 = m /\ 0 \in 0..(L - m)
    BY <1>1
  <2> QED
    BY <2>4, <2>5 DEF y
<1>7. ASSUME NEW i \in 0..(L - m), i < L - m, i \in T PROVE i + 1 \in T
  <2> DEFINE o == m + (i + 1)
             y == p[m - 1]
  <2>1. o \in 1..L /\ o - 1 = m + i /\ i + 1 \in 0..(L - m) /\ m \in 1..L
    BY <1>1, <1>7
  <2>2. y <= w[m + i] /\ y \in Nat
    BY <1>5, <1>7, <2>1
  <2> HIDE DEF o
  <2>3. w[o] \in Nat /\ w[o - 1] \in Nat /\ w[o] >= w[o - 1]
    BY <1>5, <2>1
  <2> HIDE DEF y
  <2>4. y <= w[o]
    BY <2>1, <2>2, <2>3
  <2> QED
    BY <2>1, <2>4 DEF o, y
<1> HIDE DEF T
<1>8. L - m \in Nat /\ L - m \in 0..(L - m) /\ m + (L - m) = L
  BY <1>1
<1>9. \A i \in 0..(L - m) : i \in T
  BY <1>6, <1>7, <1>8, InductionUpTo
<1> QED
  BY <1>4, <1>8, <1>9 DEF T, p

(* A byte more or less.                                                    *)
LEMMA ByteChanged ==
    ASSUME NEW a \in Seq(Nat), NEW b \in Seq(Nat), Len(a) <= 2 * Size, Len(b) = Len(a),
           NEW m \in 1..Len(a), \A i \in 1..Len(a) : i # m => b[i] = a[i]
    PROVE  Number!Value(b) = Number!Value(a) + (b[m] - a[m]) * Number!Power[m - 1]
<1> DEFINE w == Number!Parts(a)
           v == Number!Parts(b)
           p == Number!Power
           L == Len(a)
           c == b[m] - a[m]
           d == c * p[m - 1]
           T == {i \in 0..(L - m) : v[m + i] = w[m + i] + d}
<1>1. L \in Nat /\ L <= 2 * Size /\ Size \in Nat /\ m \in 1..L /\ Len(b) = L
      /\ \A i \in 1..L : a[i] \in Nat /\ b[i] \in Nat
  BY LenProperties, FieldIs, ElementOfSeq
<1>2. w \in [0..L -> Nat] /\ \A i \in 1..L : w[i] = w[i - 1] + a[i] * p[i - 1]
  BY PartsAre
<1>3. v \in [0..L -> Nat] /\ \A i \in 1..L : v[i] = v[i - 1] + b[i] * p[i - 1]
  BY <1>1, PartsAre
<1>4. p \in [0..(2 * Size) -> Nat]
  BY BytePowers
<1>5. v[m - 1] = w[m - 1]
  <2>1. m - 1 \in Nat /\ m - 1 <= Len(a) /\ m - 1 <= Len(b) /\ Len(b) <= 2 * Size
        /\ \A i \in 1..(m - 1) : a[i] = b[i]
    BY <1>1
  <2> QED
    BY <2>1, PartsSame
<1>6. Number!Value(a) = w[L] /\ Number!Value(b) = v[L]
  BY <1>1 DEF Number!Value
<1>7. \A i \in 1..L : i # m => b[i] = a[i]
  OBVIOUS
<1>8. b[m] \in Nat /\ a[m] \in Nat /\ b[m] = a[m] + c /\ c \in Int
  <2>1. b[m] \in Nat /\ a[m] \in Nat
    BY <1>1
  <2> QED
    BY <2>1
<1>9. m - 1 \in 0..L /\ m - 1 \in 0..(2 * Size) /\ m \in 0..L
  BY <1>1
<1>10. d \in Int
  <2>1. p[m - 1] \in Nat
    BY <1>4, <1>9
  <2> HIDE DEF c
  <2> QED
    BY <1>8, <2>1
<1> HIDE DEF w, v, p, L, c
<1>11. 0 \in T
  <2> DEFINE x == w[m - 1]
             q == p[m - 1]
             y == a[m]
  <2>1. v[m] = x + b[m] * q /\ w[m] = x + y * q
    BY <1>1, <1>2, <1>3, <1>5
  <2>2. x \in Nat /\ q \in Nat /\ y \in Nat
    BY <1>2, <1>4, <1>8, <1>9
  <2>3. d = c * q
    OBVIOUS
  <2> HIDE DEF x, q, y, d
  <2>4. x + (y + c) * q = (x + y * q) + c * q
    BY <1>8, <2>2
  <2>5. v[m] = w[m] + d
    BY <1>8, <2>1, <2>3, <2>4 DEF y
  <2> QED
    BY <1>1, <2>5
<1> HIDE DEF d
<1>12. ASSUME NEW i \in 0..(L - m), i < L - m, i \in T PROVE i + 1 \in T
  <2> DEFINE o == m + (i + 1)
             x == w[m + i]
             y == b[o] * p[m + i]
  <2>1. o \in 1..L /\ o # m /\ o - 1 = m + i /\ i + 1 \in 0..(L - m) /\ m + i \in 0..L
        /\ m + i \in 0..(2 * Size)
    BY <1>1, <1>12
  <2>2. v[m + i] = x + d
    BY <1>12
  <2> HIDE DEF o
  <2>3. v[o] = v[m + i] + y /\ w[o] = x + y
    BY <1>2, <1>3, <1>7, <2>1
  <2>4. x \in Nat /\ y \in Nat
    <3> DEFINE s == b[o]
               t == p[m + i]
    <3>1. s \in Nat /\ t \in Nat
      BY <1>1, <1>4, <2>1
    <3>2. x \in Nat
      BY <1>2, <2>1
    <3> HIDE DEF s, t, x
    <3>3. s * t \in Nat
      BY <3>1
    <3> QED
      BY <3>2, <3>3 DEF s, t
  <2> HIDE DEF x, y
  <2>5. v[o] = w[o] + d
    BY <1>10, <2>2, <2>3, <2>4
  <2> QED
    BY <2>1, <2>5 DEF o
<1> HIDE DEF T
<1>13. L - m \in Nat /\ L - m \in 0..(L - m) /\ m + (L - m) = L
  BY <1>1
<1>14. \A i \in 0..(L - m) : i \in T
  BY <1>11, <1>12, <1>13, InductionUpTo
<1> QED
  BY <1>6, <1>13, <1>14 DEF T, d, c, p

(* Bytes of zero.                                                          *)
LEMMA ZerosAre ==
    ASSUME NEW size \in Nat
    PROVE  /\ Number!Zeros(size) = [i \in 1..size |-> 0]
           /\ Number!Zeros(size) \in Seq(Byte) /\ Len(Number!Zeros(size)) = size
           /\ (size <= 2 * Size => Number!Value(Number!Zeros(size)) = 0)
<1> DEFINE z == [i \in 1..size |-> 0]
<1>1. 0 \in Byte
  BY FieldIs DEF Byte
<1>2. z \in Seq(Byte) /\ Len(z) = size /\ \A i \in 1..Len(z) : z[i] = 0
  BY <1>1
<1>3. Number!Zeros(size) = <<>> \o z
  BY DEF Number!Zeros
<1>4. <<>> \o z = z
  <2> HIDE DEF z
  <2> QED
    BY <1>2, ConcatEmptySeq
<1>5. z \in Seq(Nat)
  BY <1>2, BytesIn
<1>6. size <= 2 * Size => Number!Value(z) = 0
  <2> HIDE DEF z
  <2> QED
    BY <1>2, <1>5, ZeroBytes
<1> QED
  BY <1>2, <1>3, <1>4, <1>6

(* A number with zeros on top, or cut off.                                 *)
LEMMA WidenedIs ==
    ASSUME NEW a \in Seq(Byte), NEW size \in Nat
    PROVE  /\ Number!Widened(a, size) \in Seq(Byte) /\ Len(Number!Widened(a, size)) = size
           /\ \A i \in 1..size : Number!Widened(a, size)[i] = IF i <= Len(a) THEN a[i] ELSE 0
           /\ size <= 2 * Size /\ Len(a) <= size =>
                  Number!Value(Number!Widened(a, size)) = Number!Value(a)
<1> DEFINE z == [i \in 1..size |-> IF i <= Len(a) THEN a[i] ELSE 0]
<1>1. 0 \in Byte /\ Size \in Nat
  BY FieldIs DEF Byte
<1>2. Len(a) \in Nat /\ a \in Seq(Nat) /\ \A i \in 1..Len(a) : a[i] \in Byte
  BY BytesIn
<1>3. z \in Seq(Byte) /\ Len(z) = size
      /\ \A i \in 1..size : z[i] = IF i <= Len(a) THEN a[i] ELSE 0
  <2>1. \A i \in 1..size : (IF i <= Len(a) THEN a[i] ELSE 0) \in Byte
    BY <1>1, <1>2
  <2> QED
    BY <2>1
<1> HIDE DEF z
<1>4. Number!Widened(a, size) = z
  <2>1. <<>> \o z = z
    BY <1>3, ConcatEmptySeq
  <2> QED
    BY <2>1 DEF Number!Widened, z
<1>5. ASSUME size <= 2 * Size, Len(a) <= size PROVE Number!Value(z) = Number!Value(a)
  <2>1. z \in Seq(Nat)
    BY <1>3, BytesIn
  <2>2. \A i \in (Len(a) + 1)..Len(z) : z[i] = 0
    BY <1>2, <1>3, <1>5
  <2>3. Number!Value(z) = Number!Parts(z)[Len(a)]
    BY <1>2, <1>3, <1>5, <2>1, <2>2, ZerosOnTop
  <2>4. \A i \in 1..Len(a) : z[i] = a[i]
    BY <1>2, <1>3, <1>5
  <2>5. Number!Parts(z)[Len(a)] = Number!Parts(a)[Len(a)]
    <3>1. Len(a) <= Len(a) /\ Len(a) <= Len(z) /\ Len(a) <= 2 * Size /\ Len(z) <= 2 * Size
      BY <1>1, <1>2, <1>3, <1>5
    <3> QED
      BY <1>2, <2>1, <2>4, <3>1, PartsSame
  <2> QED
    BY <2>3, <2>5 DEF Number!Value
<1> QED
  BY <1>3, <1>4, <1>5

(* Dividing twice is dividing by the product.                              *)
LEMMA DividedTwice ==
    ASSUME NEW v \in Nat, NEW x \in Nat, x > 0, NEW y \in Nat, y > 0
    PROVE  v \div (x * y) = (v \div x) \div y
<1> DEFINE a == v \div x
           e == v % x
           b == a \div y
           d == a % y
           f == x * y
           g == x * d + e
<1>1. a \in Int /\ e \in 0..(x - 1) /\ v = x * a + e
  BY Division
<1>2. b \in Int /\ d \in 0..(y - 1) /\ a = y * b + d
  <2> HIDE DEF a
  <2> QED
    BY <1>1, Division
<1> HIDE DEF a, e, b, d
<1>3. f \in Nat /\ f > 0
  OBVIOUS
<1>4. g \in 0..(f - 1)
  <2>1. x * (d + 1) <= x * y
    BY <1>2, Bigger
  <2>2. x * (d + 1) = x * d + x /\ x * d \in Nat
    BY <1>2
  <2> DEFINE xd == x * d
             s == x * (d + 1)
  <2>3. xd \in Nat /\ s <= f /\ s = xd + x /\ g = xd + e
    BY <2>1, <2>2
  <2> HIDE DEF xd, f, g, s
  <2> QED
    BY <1>1, <1>3, <2>3
<1>5. v = f * b + g
  <2>1. v = x * (y * b + d) + e
    BY <1>1, <1>2
  <2>2. x * (y * b + d) = (x * y) * b + x * d
    BY <1>1, <1>2
  <2>3. (x * y) * b \in Int /\ x * d \in Int
    BY <1>2
  <2> DEFINE s == (x * y) * b
             t == x * d
             u == x * (y * b + d)
  <2>4. s \in Int /\ t \in Int /\ u = s + t /\ v = u + e
    BY <2>1, <2>2, <2>3
  <2> HIDE DEF s, t, u
  <2>5. v = s + (t + e)
    BY <1>1, <2>4
  <2> QED
    BY <2>5 DEF s, t
<1> HIDE DEF f, g
<1>6. (f * b + g) \div f = b
  BY <1>2, <1>3, <1>4, Quotient
<1> QED
  BY <1>5, <1>6 DEF f, b, a

(* Numbers have their bytes (BigNum!Bytes).                                *)
LEMMA BytesAre ==
    ASSUME NEW x \in Nat, NEW size \in Nat, size <= 2 * Size
    PROVE  /\ Number!Bytes(x, size) \in Seq(Byte) /\ Len(Number!Bytes(x, size)) = size
           /\ \A i \in 1..size :
                 Number!Bytes(x, size)[i] = (x \div Number!Power[i - 1]) % Number!Radix
           /\ x < Number!Power[size] => Number!Value(Number!Bytes(x, size)) = x
<1> DEFINE a == Number!Bytes(x, size)
           w == Number!Parts(a)
           p == Number!Power
           R == Number!Radix
           T == {i \in 0..size : x = w[i] + p[i] * (x \div p[i])}
<1>1. R \in Nat /\ R >= 2 /\ R > 0 /\ Size \in Nat
  BY FieldIs
<1>2. /\ p \in [0..(2 * Size) -> Nat] /\ p[0] = 1
      /\ \A i \in 1..(2 * Size) : p[i] = R * p[i - 1]
      /\ \A i \in 0..(2 * Size) : p[i] > 0
  BY BytePowers
<1>3. \A i \in 0..size : p[i] \in Nat /\ p[i] > 0 /\ x \div p[i] \in Nat
  <2> SUFFICES ASSUME NEW i \in 0..size PROVE p[i] \in Nat /\ p[i] > 0 /\ x \div p[i] \in Nat
    OBVIOUS
  <2>1. i \in 0..(2 * Size)
    BY <1>1
  <2> DEFINE y == p[i]
  <2>2. y \in Nat /\ y > 0
    BY <1>2, <2>1
  <2> HIDE DEF y
  <2>3. x \div y \in Nat
    BY <2>2, Halves
  <2> QED
    BY <2>2, <2>3 DEF y
<1>4. a = [i \in 1..size |-> (x \div p[i - 1]) % R]
  BY DEF Number!Bytes
<1>5. \A i \in 1..size : (x \div p[i - 1]) % R \in Byte
  <2> SUFFICES ASSUME NEW i \in 1..size PROVE (x \div p[i - 1]) % R \in 0..(R - 1)
    BY DEF Byte
  <2> DEFINE y == x \div p[i - 1]
  <2>1. i - 1 \in 0..size
    OBVIOUS
  <2>2. y \in Nat
    BY <1>3, <2>1
  <2> HIDE DEF y
  <2> QED
    BY <1>1, <2>2, Division DEF y
<1> HIDE DEF a, p
<1>6. a \in Seq(Byte) /\ Len(a) = size /\ \A i \in 1..size : a[i] = (x \div p[i - 1]) % R
  BY <1>4, <1>5
<1>7. a \in Seq(Nat) /\ Len(a) <= 2 * Size
  BY <1>6, BytesIn
<1>8. w \in [0..size -> Nat] /\ w[0] = 0 /\ \A i \in 1..size : w[i] = w[i - 1] + a[i] * p[i - 1]
  BY <1>6, <1>7, PartsAre DEF p
<1> HIDE DEF w, R
<1>9. 0 \in T
  <2>1. x \div 1 = x
    <3>1. (1 * x + 0) \div 1 = x
      <4>1. 1 \in Nat /\ 1 > 0 /\ x \in Int /\ 0 \in 0..(1 - 1)
        OBVIOUS
      <4> QED
        BY <4>1, Quotient
    <3>2. 1 * x + 0 = x
      OBVIOUS
    <3> QED
      BY <3>1, <3>2
  <2> QED
    BY <1>2, <1>8, <2>1
<1>10. ASSUME NEW i \in 0..size, i < size, i \in T PROVE i + 1 \in T
  <2> DEFINE o == i + 1
             q == p[i]
             y == x \div q
             z == x \div p[o]
             d == y % R
             s == w[i]
  <2>1. o \in 1..size /\ o \in 0..size /\ o - 1 = i /\ o \in 1..(2 * Size)
    BY <1>1, <1>10
  <2>2. q \in Nat /\ q > 0 /\ y \in Nat /\ x = s + q * y /\ s \in Nat
    BY <1>3, <1>8, <1>10
  <2> HIDE DEF o
  <2>3. p[o] = R * q
    BY <1>2, <2>1
  <2>4. w[o] = s + d * q
    <3>1. w[o] = w[o - 1] + a[o] * p[o - 1] /\ a[o] = (x \div p[o - 1]) % R
      BY <1>6, <1>8, <2>1
    <3> QED
      BY <2>1, <3>1
  <2>5. z = y \div R
    <3>1. x \div (q * R) = (x \div q) \div R
      <4> HIDE DEF q
      <4> QED
        BY <1>1, <2>2, DividedTwice
    <3>2. q * R = R * q
      BY <1>1, <2>2
    <3> QED
      BY <2>3, <3>1, <3>2
  <2>6. y = R * z + d /\ z \in Int /\ d \in 0..(R - 1)
    <3> HIDE DEF y, z
    <3>1. y \div R \in Int /\ y % R \in 0..(R - 1) /\ y = R * (y \div R) + (y % R)
      BY <1>1, <2>2, Division
    <3> QED
      BY <2>5, <3>1
  <2> HIDE DEF q, y, d, s
  <2>7. x = w[o] + p[o] * z
    <3> HIDE DEF z
    <3>1. q * (R * z + d) = d * q + (R * q) * z
      BY <1>1, <2>2, <2>6
    <3>2. d * q \in Int /\ (R * q) * z \in Int
      BY <1>1, <2>2, <2>6
    <3> DEFINE t == d * q
               u == (R * q) * z
    <3>3. x = s + (t + u)
      BY <2>2, <2>6, <3>1
    <3>4. w[o] = s + t /\ p[o] * z = u /\ t \in Int /\ u \in Int
      BY <2>3, <2>4, <3>2
    <3> HIDE DEF t, u
    <3>5. x = (s + t) + u
      BY <2>2, <3>3, <3>4
    <3> QED
      BY <3>4, <3>5
  <2> QED
    BY <2>1, <2>7 DEF o, z
<1> HIDE DEF T
<1>11. size \in T
  <2>1. \A i \in 0..size : i \in T
    BY <1>9, <1>10, InductionUpTo
  <2> QED
    BY <2>1
<1>12. ASSUME x < p[size] PROVE Number!Value(a) = x
  <2> DEFINE q == p[size]
             y == x \div q
  <2>1. q \in Nat /\ q > 0 /\ x \in 0..(q - 1)
    <3>1. size \in 0..size
      OBVIOUS
    <3>2. p[size] \in Nat /\ p[size] > 0
      BY <1>3, <3>1
    <3> QED
      BY <1>12, <3>2
  <2>2. (q * 0 + x) \div q = 0
    <3> HIDE DEF q
    <3>1. 0 \in Int
      OBVIOUS
    <3> QED
      BY <2>1, <3>1, Quotient
  <2>3. q * 0 + x = x
    <3> HIDE DEF q
    <3> QED
      BY <2>1
  <2>4. x = w[size] + q * 0
    BY <1>11, <2>2, <2>3 DEF T
  <2>5. w[size] \in Nat
    BY <1>8
  <2> HIDE DEF q
  <2>6. x = w[size]
    BY <2>1, <2>4, <2>5
  <2> QED
    BY <1>6, <2>6 DEF Number!Value, w
<1> QED
  BY <1>6, <1>12 DEF a, p, R

(* A sum of two bytes and a carry has a carry of its own.                  *)
LEMMA OneCarry ==
    ASSUME NEW R \in Nat, R > 0, NEW t \in 0..(2 * R - 1)
    PROVE  /\ t \div R = (IF t < R THEN 0 ELSE 1) /\ t % R = (IF t < R THEN t ELSE t - R)
           /\ t % R \in 0..(R - 1) /\ t = (t % R) + R * (t \div R)
<1>1. CASE t < R
  <2>1. (R * 0 + t) \div R = 0 /\ (R * 0 + t) % R = t
    <3>1. 0 \in Int /\ t \in 0..(R - 1)
      BY <1>1
    <3> QED
      BY <3>1, Quotient
  <2>2. R * 0 + t = t
    OBVIOUS
  <2> QED
    BY <1>1, <2>1, <2>2
<1>2. CASE ~(t < R)
  <2> DEFINE s == t - R
  <2>1. s \in 0..(R - 1) /\ 1 \in Int
    BY <1>2
  <2>2. R * 1 + s = t
    OBVIOUS
  <2> HIDE DEF s
  <2>3. (R * 1 + s) \div R = 1 /\ (R * 1 + s) % R = s
    BY <2>1, Quotient
  <2>4. t \div R = 1 /\ t % R = s
    BY <2>2, <2>3
  <2> QED
    BY <1>2, <2>1, <2>2, <2>4 DEF s
<1> QED
  BY <1>1, <1>2

(* Byte by byte with a carry from each to the next, numbers are added.     *)
LEMMA Carries ==
    ASSUME NEW a \in Seq(Nat), NEW b \in Seq(Nat), NEW sum \in Seq(Nat),
           Len(b) = Len(a), Len(sum) = Len(a), Len(a) <= 2 * Size,
           NEW h \in [0..Len(a) -> 0..1], h[0] = 0,
           \A i \in 1..Len(a) : sum[i] + Number!Radix * h[i] = a[i] + b[i] + h[i - 1]
    PROVE  Number!Value(sum) + h[Len(a)] * Number!Power[Len(a)]
             = Number!Value(a) + Number!Value(b)
<1> DEFINE w == Number!Parts(sum)
           u == Number!Parts(a)
           v == Number!Parts(b)
           p == Number!Power
           L == Len(a)
           R == Number!Radix
           T == {i \in 0..L : w[i] + h[i] * p[i] = u[i] + v[i]}
<1>1. L \in Nat /\ L <= 2 * Size /\ Size \in Nat /\ R \in Nat
      /\ \A i \in 1..L : a[i] \in Nat /\ b[i] \in Nat /\ sum[i] \in Nat
  BY LenProperties, FieldIs, ElementOfSeq
<1>2. w \in [0..L -> Nat] /\ w[0] = 0 /\ \A i \in 1..L : w[i] = w[i - 1] + sum[i] * p[i - 1]
  BY PartsAre
<1>3. u \in [0..L -> Nat] /\ u[0] = 0 /\ \A i \in 1..L : u[i] = u[i - 1] + a[i] * p[i - 1]
  BY PartsAre
<1>4. v \in [0..L -> Nat] /\ v[0] = 0 /\ \A i \in 1..L : v[i] = v[i - 1] + b[i] * p[i - 1]
  BY PartsAre
<1>5. p \in [0..(2 * Size) -> Nat] /\ p[0] = 1 /\ \A i \in 1..(2 * Size) : p[i] = R * p[i - 1]
  BY BytePowers
<1>6. h \in [0..L -> 0..1] /\ h[0] = 0
      /\ \A i \in 1..L : sum[i] + R * h[i] = a[i] + b[i] + h[i - 1]
  OBVIOUS
<1>7. Number!Value(sum) = w[L] /\ Number!Value(a) = u[L] /\ Number!Value(b) = v[L]
  BY DEF Number!Value
<1> HIDE DEF w, u, v, p, L, R
<1>8. 0 \in T
  BY <1>1, <1>2, <1>3, <1>4, <1>5, <1>6
<1>9. ASSUME NEW i \in 0..L, i < L, i \in T PROVE i + 1 \in T
  <2> DEFINE o == i + 1
             q == p[i]
             x == w[i]
             y == u[i]
             z == v[i]
             g == h[i]
             k == h[o]
             s == sum[o]
             c == a[o]
             d == b[o]
  <2>1. o \in 1..L /\ o \in 0..L /\ o - 1 = i /\ o \in 1..(2 * Size) /\ i \in 0..(2 * Size)
    BY <1>1, <1>9
  <2>2. x \in Nat /\ y \in Nat /\ z \in Nat /\ q \in Nat /\ g \in Nat /\ k \in Nat
        /\ s \in Nat /\ c \in Nat /\ d \in Nat /\ x + g * q = y + z
    <3>1. x \in Nat /\ y \in Nat /\ z \in Nat /\ q \in Nat /\ g \in 0..1 /\ x + g * q = y + z
      BY <1>2, <1>3, <1>4, <1>5, <1>6, <1>9, <2>1
    <3> HIDE DEF o
    <3>2. k \in 0..1 /\ s \in Nat /\ c \in Nat /\ d \in Nat
      BY <1>1, <1>6, <2>1
    <3> HIDE DEF x, y, z, q, g, k, s, c, d
    <3> QED
      BY <3>1, <3>2
  <2>3. w[o] = w[o - 1] + s * p[o - 1] /\ u[o] = u[o - 1] + c * p[o - 1]
        /\ v[o] = v[o - 1] + d * p[o - 1] /\ p[o] = R * p[o - 1]
    <3> HIDE DEF o
    <3> QED
      BY <1>2, <1>3, <1>4, <1>5, <2>1
  <2>4. w[o] = x + s * q /\ u[o] = y + c * q /\ v[o] = z + d * q /\ p[o] = R * q
    BY <2>1, <2>3
  <2>5. s + R * k = c + d + g
    <3> HIDE DEF o
    <3>1. s + R * k = c + d + h[o - 1]
      BY <1>6, <2>1
    <3> QED
      BY <2>1, <3>1
  <2> HIDE DEF q, x, y, z, g, k, s, c, d
  <2>6. (x + s * q) + k * (R * q) = x + (s + R * k) * q
    BY <1>1, <2>2
  <2>7. x + (c + d + g) * q = (x + g * q) + (c * q + d * q)
    BY <2>2
  <2>8. (y + z) + (c * q + d * q) = (y + c * q) + (z + d * q)
    <3> DEFINE m == c * q
               l == d * q
    <3>1. m \in Nat /\ l \in Nat
      BY <2>2
    <3> HIDE DEF m, l
    <3>2. (y + z) + (m + l) = (y + m) + (z + l)
      BY <2>2, <3>1
    <3> QED
      BY <3>2 DEF m, l
  <2>9. w[o] + k * p[o] = u[o] + v[o]
    BY <2>2, <2>4, <2>5, <2>6, <2>7, <2>8
  <2> QED
    BY <2>1, <2>9 DEF k, o
<1> HIDE DEF T
<1>10. L \in T
  <2>1. \A i \in 0..L : i \in T
    BY <1>1, <1>8, <1>9, InductionUpTo
  <2> QED
    BY <1>1, <2>1
<1> QED
  BY <1>7, <1>10 DEF T, p, L

(* bigAddVariableSizeNoModulo adds, up to the carry it returns.            *)
LEMMA AddIs ==
    ASSUME NEW a \in Seq(Byte), NEW b \in Seq(Byte), Len(b) = Len(a), Len(a) <= 2 * Size
    PROVE  /\ Number!Add(a, b).r \in Seq(Byte) /\ Len(Number!Add(a, b).r) = Len(a)
           /\ Number!Add(a, b).carry \in 0..1
           /\ Number!Value(Number!Add(a, b).r)
                  + Number!Add(a, b).carry * Number!Power[Len(a)]
                = Number!Value(a) + Number!Value(b)
<1> DEFINE L == Len(a)
           R == Number!Radix
           S == 0..1
           body(h) == [i \in 0..L |-> IF i = 0 THEN 0 ELSE (a[i] + b[i] + h[i - 1]) \div R]
           w == CHOOSE h : h = body(h)
           sum == [i \in 1..L |-> (a[i] + b[i] + w[i - 1]) % R]
           step == [i \in 1..L |-> [x \in S |-> (a[i] + b[i] + x) \div R]]
<1>1. L \in Nat /\ L <= 2 * Size /\ R \in Nat /\ R >= 2 /\ R > 0
      /\ \A i \in 1..L : a[i] \in 0..(R - 1) /\ b[i] \in 0..(R - 1)
  <2>1. L \in Nat /\ L <= 2 * Size /\ Len(b) = L
    BY BytesIn
  <2>2. R \in Nat /\ R >= 2 /\ R > 0
    BY FieldIs
  <2>3. \A i \in 1..L : a[i] \in Byte
    BY BytesIn
  <2>4. \A i \in 1..L : b[i] \in Byte
    BY <2>1, BytesIn
  <2>5. Byte = 0..(R - 1)
    BY DEF Byte
  <2> HIDE DEF L, R
  <2> QED
    BY <2>1, <2>2, <2>3, <2>4, <2>5
<1>2. Number!Add(a, b) = [r |-> sum, carry |-> w[L]]
  BY DEF Number!Add
<1> HIDE DEF L, R
<1>3. ASSUME NEW i \in 1..L, NEW x \in S
      PROVE  /\ (a[i] + b[i] + x) \div R \in S /\ (a[i] + b[i] + x) % R \in 0..(R - 1)
             /\ ((a[i] + b[i] + x) % R) + R * ((a[i] + b[i] + x) \div R) = a[i] + b[i] + x
  <2> DEFINE t == a[i] + b[i] + x
  <2>1. t \in 0..(2 * R - 1)
    <3> DEFINE y == a[i]
               z == b[i]
    <3>1. y \in 0..(R - 1) /\ z \in 0..(R - 1)
      BY <1>1
    <3> HIDE DEF y, z
    <3>2. y + z + x \in 0..(2 * R - 1)
      BY <1>1, <3>1
    <3> QED
      BY <3>2 DEF y, z
  <2> HIDE DEF t
  <2>2. /\ t \div R = (IF t < R THEN 0 ELSE 1) /\ t % R \in 0..(R - 1)
        /\ t = (t % R) + R * (t \div R)
    BY <1>1, <2>1, OneCarry
  <2>3. t \div R \in S
    BY <2>2
  <2> QED
    BY <2>2, <2>3 DEF t
<1>4. step \in [1..L -> [S -> S]] /\ 0 \in S
  BY <1>3
<1>5. \A i \in 1..L : \A x \in S : step[i][x] = (a[i] + b[i] + x) \div R
  OBVIOUS
<1> HIDE DEF step, S
<1>6. PICK f : Runs(f, L, S, 0, step)
  BY <1>1, <1>4, RecursionUpTo
<1>7. f = body(f)
  <2>1. \A i \in 1..L : i - 1 \in 0..L
    BY <1>1
  <2>2. \A i \in 1..L : f[i] = (a[i] + b[i] + f[i - 1]) \div R
    BY <1>5, <1>6, <2>1 DEF Runs
  <2>3. \A i \in 0..L : f[i] = IF i = 0 THEN 0 ELSE (a[i] + b[i] + f[i - 1]) \div R
    BY <1>1, <1>6, <2>2 DEF Runs
  <2> QED
    BY <1>6, <2>3 DEF Runs
<1>8. w = body(w)
  <2> HIDE DEF body
  <2> QED
    BY <1>7
<1> HIDE DEF w
<1>9. \A i \in 1..L : w[i] = (a[i] + b[i] + w[i - 1]) \div R
  BY <1>1, <1>8
<1>10. Runs(w, L, S, 0, step)
  <2>1. w = [i \in 0..L |-> w[i]] /\ w[0] = 0
    BY <1>1, <1>8
  <2>2. \A i \in 1..L : w[i - 1] \in S => w[i] = step[i][w[i - 1]]
    BY <1>5, <1>9
  <2> QED
    BY <1>1, <1>4, <2>1, <2>2, RecursionOnly
<1>11. w \in [0..L -> S] /\ w[0] = 0
  BY <1>10 DEF Runs
<1>12. \A i \in 1..L : /\ (a[i] + b[i] + w[i - 1]) % R \in 0..(R - 1)
                       /\ ((a[i] + b[i] + w[i - 1]) % R) + R * w[i] = a[i] + b[i] + w[i - 1]
  <2> SUFFICES ASSUME NEW i \in 1..L
               PROVE  /\ (a[i] + b[i] + w[i - 1]) % R \in 0..(R - 1)
                      /\ ((a[i] + b[i] + w[i - 1]) % R) + R * w[i] = a[i] + b[i] + w[i - 1]
    OBVIOUS
  <2>1. i - 1 \in 0..L
    BY <1>1
  <2> DEFINE x == w[i - 1]
  <2>2. x \in S /\ w[i] = (a[i] + b[i] + x) \div R
    BY <1>9, <1>11, <2>1
  <2> HIDE DEF x
  <2>3. (a[i] + b[i] + x) % R \in 0..(R - 1)
        /\ ((a[i] + b[i] + x) % R) + R * ((a[i] + b[i] + x) \div R) = a[i] + b[i] + x
    BY <1>3, <2>2
  <2> QED
    BY <2>2, <2>3 DEF x
<1>13. sum \in Seq(Byte) /\ Len(sum) = L
       /\ \A i \in 1..L : sum[i] = (a[i] + b[i] + w[i - 1]) % R
  <2>1. \A i \in 1..L : (a[i] + b[i] + w[i - 1]) % R \in Byte
    BY <1>12 DEF Byte, R
  <2> QED
    BY <1>1, <2>1
<1> HIDE DEF sum
<1>14. \A i \in 1..L : sum[i] + R * w[i] = a[i] + b[i] + w[i - 1]
  BY <1>12, <1>13
<1>15. Number!Value(sum) + w[L] * Number!Power[L] = Number!Value(a) + Number!Value(b)
  <2>1. a \in Seq(Nat) /\ b \in Seq(Nat) /\ sum \in Seq(Nat)
    BY <1>13, BytesIn
  <2>2. Len(b) = Len(a) /\ Len(sum) = Len(a) /\ w \in [0..Len(a) -> 0..1]
        /\ \A i \in 1..Len(a) : sum[i] + Number!Radix * w[i] = a[i] + b[i] + w[i - 1]
    BY <1>11, <1>13, <1>14 DEF L, R, S
  <2> QED
    BY <1>11, <2>1, <2>2, Carries DEF L
<1>16. w[L] \in 0..1
  BY <1>1, <1>11 DEF S
<1> QED
  BY <1>2, <1>13, <1>15, <1>16 DEF L

(* bigSubtractVariableSizeNoModulo subtracts, up to the borrow it returns. *)
LEMMA SubtractIs ==
    ASSUME NEW a \in Seq(Byte), NEW b \in Seq(Byte), Len(b) = Len(a), Len(a) <= 2 * Size
    PROVE  /\ Number!Subtract(a, b).r \in Seq(Byte) /\ Len(Number!Subtract(a, b).r) = Len(a)
           /\ Number!Subtract(a, b).borrow \in 0..1
           /\ Number!Value(a) + Number!Subtract(a, b).borrow * Number!Power[Len(a)]
                = Number!Value(Number!Subtract(a, b).r) + Number!Value(b)
<1> DEFINE L == Len(a)
           R == Number!Radix
           S == 0..1
           body(h) == [i \in 0..L |->
                          IF i = 0 THEN 0 ELSE IF a[i] < b[i] + h[i - 1] THEN 1 ELSE 0]
           w == CHOOSE h : h = body(h)
           difference == [i \in 1..L |-> (R + a[i] - b[i] - w[i - 1]) % R]
           step == [i \in 1..L |-> [x \in S |-> IF a[i] < b[i] + x THEN 1 ELSE 0]]
<1>1. L \in Nat /\ L <= 2 * Size /\ R \in Nat /\ R >= 2 /\ R > 0
      /\ \A i \in 1..L : a[i] \in 0..(R - 1) /\ b[i] \in 0..(R - 1)
  <2>1. L \in Nat /\ L <= 2 * Size /\ Len(b) = L
    BY BytesIn
  <2>2. R \in Nat /\ R >= 2 /\ R > 0
    BY FieldIs
  <2>3. \A i \in 1..L : a[i] \in Byte
    BY BytesIn
  <2>4. \A i \in 1..L : b[i] \in Byte
    BY <2>1, BytesIn
  <2>5. Byte = 0..(R - 1)
    BY DEF Byte
  <2> HIDE DEF L, R
  <2> QED
    BY <2>1, <2>2, <2>3, <2>4, <2>5
<1>2. Number!Subtract(a, b) = [r |-> difference, borrow |-> w[L]]
  BY DEF Number!Subtract
<1> HIDE DEF L, R
<1>3. ASSUME NEW i \in 1..L, NEW x \in S
      PROVE  LET k == IF a[i] < b[i] + x THEN 1 ELSE 0
                 d == (R + a[i] - b[i] - x) % R
             IN  k \in S /\ d \in 0..(R - 1) /\ d + b[i] + x = a[i] + R * k
  <2> DEFINE y == a[i]
             z == b[i]
             t == R + y - z - x
  <2>1. y \in 0..(R - 1) /\ z \in 0..(R - 1)
    BY <1>1
  <2> HIDE DEF y, z
  <2>2. t \in 0..(2 * R - 1) /\ (t < R <=> y < z + x) /\ t \in Int
    BY <1>1, <2>1
  <2>3. t % R = (IF t < R THEN t ELSE t - R) /\ t % R \in 0..(R - 1)
    <3> HIDE DEF t
    <3> QED
      BY <1>1, <2>2, OneCarry
  <2> DEFINE d == t % R
  <2> HIDE DEF d
  <2>4. d = (IF y < z + x THEN t ELSE t - R) /\ d \in 0..(R - 1)
    BY <2>2, <2>3 DEF d
  <2>5. CASE y < z + x
    <3>1. d + z + x = y + R
      BY <1>1, <2>1, <2>4, <2>5
    <3>2. y + R * 1 = y + R
      BY <1>1, <2>1
    <3> QED
      BY <1>1, <2>4, <2>5, <3>1, <3>2 DEF d, y, z
  <2>6. CASE ~(y < z + x)
    <3>1. d + z + x = y
      BY <1>1, <2>1, <2>4, <2>6
    <3>2. y + R * 0 = y
      BY <1>1, <2>1
    <3> QED
      BY <1>1, <2>4, <2>6, <3>1, <3>2 DEF d, y, z
  <2> QED
    BY <2>5, <2>6
<1>4. step \in [1..L -> [S -> S]] /\ 0 \in S
  OBVIOUS
<1>5. \A i \in 1..L : \A x \in S : step[i][x] = IF a[i] < b[i] + x THEN 1 ELSE 0
  OBVIOUS
<1> HIDE DEF step, S
<1>6. PICK f : Runs(f, L, S, 0, step)
  BY <1>1, <1>4, RecursionUpTo
<1>7. f = body(f)
  <2>1. \A i \in 1..L : i - 1 \in 0..L
    BY <1>1
  <2>2. \A i \in 1..L : f[i] = IF a[i] < b[i] + f[i - 1] THEN 1 ELSE 0
    BY <1>5, <1>6, <2>1 DEF Runs
  <2>3. \A i \in 0..L : f[i] = IF i = 0 THEN 0 ELSE IF a[i] < b[i] + f[i - 1] THEN 1 ELSE 0
    BY <1>1, <1>6, <2>2 DEF Runs
  <2> QED
    BY <1>6, <2>3 DEF Runs
<1>8. w = body(w)
  <2> HIDE DEF body
  <2> QED
    BY <1>7
<1> HIDE DEF w
<1>9. \A i \in 1..L : w[i] = IF a[i] < b[i] + w[i - 1] THEN 1 ELSE 0
  BY <1>1, <1>8
<1>10. Runs(w, L, S, 0, step)
  <2>1. w = [i \in 0..L |-> w[i]] /\ w[0] = 0
    BY <1>1, <1>8
  <2>2. \A i \in 1..L : w[i - 1] \in S => w[i] = step[i][w[i - 1]]
    BY <1>5, <1>9
  <2> QED
    BY <1>1, <1>4, <2>1, <2>2, RecursionOnly
<1>11. w \in [0..L -> S] /\ w[0] = 0
  BY <1>10 DEF Runs
<1>12. \A i \in 1..L : /\ (R + a[i] - b[i] - w[i - 1]) % R \in 0..(R - 1)
                       /\ a[i] + R * w[i] = ((R + a[i] - b[i] - w[i - 1]) % R) + b[i] + w[i - 1]
  <2> SUFFICES ASSUME NEW i \in 1..L
               PROVE  /\ (R + a[i] - b[i] - w[i - 1]) % R \in 0..(R - 1)
                      /\ a[i] + R * w[i]
                           = ((R + a[i] - b[i] - w[i - 1]) % R) + b[i] + w[i - 1]
    OBVIOUS
  <2>1. i - 1 \in 0..L
    BY <1>1
  <2> DEFINE x == w[i - 1]
             d == (R + a[i] - b[i] - x) % R
  <2>2. x \in S /\ w[i] = IF a[i] < b[i] + x THEN 1 ELSE 0
    BY <1>9, <1>11, <2>1
  <2> HIDE DEF x
  <2>3. d \in 0..(R - 1) /\ d + b[i] + x = a[i] + R * w[i]
    BY <1>3, <2>2
  <2> QED
    BY <2>3 DEF x
<1>13. difference \in Seq(Byte) /\ Len(difference) = L
       /\ \A i \in 1..L : difference[i] = (R + a[i] - b[i] - w[i - 1]) % R
  <2>1. \A i \in 1..L : (R + a[i] - b[i] - w[i - 1]) % R \in Byte
    BY <1>12 DEF Byte, R
  <2> QED
    BY <1>1, <2>1
<1> HIDE DEF difference
<1>14. \A i \in 1..L : a[i] + R * w[i] = difference[i] + b[i] + w[i - 1]
  BY <1>12, <1>13
<1>15. Number!Value(a) + w[L] * Number!Power[L] = Number!Value(difference) + Number!Value(b)
  <2>1. a \in Seq(Nat) /\ b \in Seq(Nat) /\ difference \in Seq(Nat)
    BY <1>13, BytesIn
  <2>2. Len(b) = Len(difference) /\ Len(a) = Len(difference) /\ Len(difference) <= 2 * Size
        /\ w \in [0..Len(difference) -> 0..1]
        /\ \A i \in 1..Len(difference) :
              a[i] + Number!Radix * w[i] = difference[i] + b[i] + w[i - 1]
    BY <1>1, <1>11, <1>13, <1>14 DEF L, R, S
  <2>3. Number!Value(a) + w[Len(difference)] * Number!Power[Len(difference)]
          = Number!Value(difference) + Number!Value(b)
    BY <1>11, <2>1, <2>2, Carries
  <2> QED
    BY <1>13, <2>3
<1>16. w[L] \in 0..1
  BY <1>1, <1>11 DEF S
<1> QED
  BY <1>2, <1>13, <1>15, <1>16 DEF L

(* Bytes that are the same make no difference.                             *)
LEMMA PartsAbove ==
    ASSUME NEW a \in Seq(Nat), NEW b \in Seq(Nat), Len(b) = Len(a), Len(a) <= 2 * Size,
           NEW m \in 0..Len(a), \A i \in (m + 1)..Len(a) : a[i] = b[i]
    PROVE  Number!Value(a) + Number!Parts(b)[m] = Number!Value(b) + Number!Parts(a)[m]
<1> DEFINE w == Number!Parts(a)
           v == Number!Parts(b)
           p == Number!Power
           L == Len(a)
           T == {i \in 0..(L - m) : w[m + i] + v[m] = v[m + i] + w[m]}
<1>1. L \in Nat /\ L <= 2 * Size /\ Size \in Nat /\ m \in 0..L
      /\ \A i \in 1..L : a[i] \in Nat /\ b[i] \in Nat
  BY LenProperties, FieldIs, ElementOfSeq
<1>2. w \in [0..L -> Nat] /\ \A i \in 1..L : w[i] = w[i - 1] + a[i] * p[i - 1]
  BY PartsAre
<1>3. v \in [0..L -> Nat] /\ \A i \in 1..L : v[i] = v[i - 1] + b[i] * p[i - 1]
  BY PartsAre
<1>4. p \in [0..(2 * Size) -> Nat]
  BY BytePowers
<1>5. Number!Value(a) = w[L] /\ Number!Value(b) = v[L]
  BY DEF Number!Value
<1>6. \A i \in (m + 1)..L : a[i] = b[i]
  OBVIOUS
<1> HIDE DEF w, v, p, L
<1>7. 0 \in T
  BY <1>1, <1>2, <1>3
<1>8. ASSUME NEW i \in 0..(L - m), i < L - m, i \in T PROVE i + 1 \in T
  <2> DEFINE o == m + (i + 1)
             x == w[m]
             y == v[m]
             c == w[m + i]
             d == v[m + i]
             s == a[o]
             q == p[m + i]
             t == s * q
  <2>1. o \in 1..L /\ o \in (m + 1)..L /\ o - 1 = m + i /\ i + 1 \in 0..(L - m)
        /\ m + i \in 0..(2 * Size) /\ m \in 0..L /\ m + i \in 0..L
    BY <1>1, <1>8
  <2>2. x \in Nat /\ y \in Nat /\ c \in Nat /\ d \in Nat /\ q \in Nat /\ c + y = d + x
    BY <1>2, <1>3, <1>4, <1>8, <2>1
  <2>3. s \in Nat /\ b[o] = s
    <3> HIDE DEF o
    <3> QED
      BY <1>1, <1>6, <2>1
  <2>4. w[o] = c + t /\ v[o] = d + t
    <3>1. w[o] = w[o - 1] + a[o] * p[o - 1] /\ v[o] = v[o - 1] + b[o] * p[o - 1]
      <4> HIDE DEF o
      <4> QED
        BY <1>2, <1>3, <2>1
    <3> QED
      BY <2>1, <2>3, <3>1
  <2> HIDE DEF x, y, c, d, s, q
  <2>5. t \in Nat
    BY <2>2, <2>3
  <2> HIDE DEF t, o
  <2>6. w[o] + y = v[o] + x
    BY <2>2, <2>4, <2>5
  <2> QED
    BY <2>1, <2>6 DEF o, x, y
<1> HIDE DEF T
<1>9. L - m \in Nat /\ L - m \in 0..(L - m) /\ m + (L - m) = L
  BY <1>1
<1>10. \A i \in 0..(L - m) : i \in T
  BY <1>7, <1>8, <1>9, InductionUpTo
<1> QED
  BY <1>5, <1>9, <1>10 DEF T, w, v

(* The number with the smaller byte at the highest place where two differ  *)
(* is the smaller.                                                         *)
LEMMA TopDecides ==
    ASSUME NEW a \in Seq(Byte), NEW b \in Seq(Byte), Len(b) = Len(a), Len(a) <= 2 * Size,
           NEW m \in 1..Len(a), a[m] < b[m], \A i \in (m + 1)..Len(a) : a[i] = b[i]
    PROVE  Number!Value(a) < Number!Value(b)
<1> DEFINE w == Number!Parts(a)
           v == Number!Parts(b)
           q == Number!Power[m - 1]
           x == w[m - 1]
           y == v[m - 1]
           c == a[m]
           d == b[m]
           va == Number!Value(a)
           vb == Number!Value(b)
<1>1. a \in Seq(Nat) /\ b \in Seq(Nat) /\ Len(a) \in Nat /\ c \in Nat /\ d \in Nat /\ c < d
      /\ Size \in Nat
  BY BytesIn, FieldIs
<1>2. m \in 1..Len(a) /\ m \in 0..Len(a) /\ m - 1 \in 0..Len(a) /\ m - 1 \in 0..(2 * Size)
      /\ Len(a) \in 0..Len(a)
  BY <1>1
<1>3. va + v[m] = vb + w[m]
  BY <1>1, <1>2, PartsAbove
<1>4. w[m] = x + c * q /\ v[m] = y + d * q /\ x \in Nat /\ y \in Nat
      /\ va \in Nat /\ vb \in Nat
  BY <1>1, <1>2, PartsAre DEF Number!Value
<1>5. x < q /\ y < q
  BY <1>2, PartsFit
<1>6. q \in Nat
  BY <1>2, BytePowers
<1> DEFINE cq == c * q
           dq == d * q
<1> HIDE DEF w, v, q, x, y, c, d, va, vb
<1>7. cq \in Nat /\ dq \in Nat /\ cq + q <= dq
  <2>1. q * (c + 1) <= q * d
    BY <1>1, <1>6, Bigger
  <2>2. q * (c + 1) = cq + q /\ q * d = dq /\ cq \in Nat /\ dq \in Nat
    BY <1>1, <1>6
  <2> DEFINE s == q * (c + 1)
             t == q * d
  <2>3. s <= t /\ s = cq + q /\ t = dq
    BY <2>1, <2>2
  <2> HIDE DEF s, t, cq, dq
  <2> QED
    BY <2>2, <2>3
<1> HIDE DEF cq, dq
<1>8. va < vb
  <2>1. w[m] = x + cq /\ v[m] = y + dq
    BY <1>4 DEF cq, dq
  <2> QED
    BY <1>3, <1>4, <1>5, <1>6, <1>7, <2>1
<1> QED
  BY <1>8 DEF va, vb

(* bigCompareVariableSize compares.                                        *)
LEMMA CompareIs ==
    ASSUME NEW a \in Seq(Byte), NEW b \in Seq(Byte), Len(b) = Len(a), Len(a) <= 2 * Size
    PROVE  Number!Compare(a, b) = "LESS" <=> Number!Value(a) < Number!Value(b)
<1> DEFINE L == Len(a)
           Top(i) == a[i] # b[i] /\ \A j \in (i + 1)..L : a[j] = b[j]
           T == {k \in 0..L : k < L /\ a[L - k] # b[L - k]}
<1>1. L \in Nat /\ \A i \in 1..L : a[i] \in Nat /\ b[i] \in Nat
  BY BytesIn
<1>2. Number!Value(a) \in Nat /\ Number!Value(b) \in Nat
  <2>1. a \in Seq(Nat) /\ b \in Seq(Nat) /\ Len(a) \in 0..Len(a)
    BY <1>1, BytesIn
  <2> QED
    BY <2>1, PartsAre DEF Number!Value
<1>3. CASE a = b
  BY <1>2, <1>3 DEF Number!Compare
<1>4. CASE a # b
  <2>1. \E i \in 1..L : Top(i)
    <3> HIDE DEF L
    <3>1. PICK i \in 1..L : a[i] # b[i]
      BY <1>4, SeqEqual DEF L
    <3>2. L - i \in T
      <4>1. L - i \in 0..L /\ L - i < L /\ L - (L - i) = i
        BY <1>1, <3>1
      <4> QED
        BY <3>1, <4>1
    <3>3. T \subseteq 0..L
      OBVIOUS
    <3> HIDE DEF T
    <3>4. PICK k \in T : \A l \in T : k <= l
      <4>1. T \in SUBSET Nat /\ T # {}
        BY <1>1, <3>2, <3>3
      <4> QED
        BY <4>1, LeastElement
    <3>5. k \in 0..L /\ k < L /\ a[L - k] # b[L - k] /\ L - k \in 1..L
      BY <1>1, <3>4 DEF T
    <3>6. ASSUME NEW j \in ((L - k) + 1)..L, a[j] # b[j] PROVE FALSE
      <4>1. L - j \in 0..L /\ L - j < L /\ L - (L - j) = j /\ L - j < k
        BY <1>1, <3>5
      <4>2. L - j \in T
        BY <3>6, <4>1 DEF T
      <4> QED
        BY <1>1, <3>4, <3>5, <4>1, <4>2
    <3> QED
      BY <3>5, <3>6
  <2> DEFINE top == CHOOSE i \in 1..L : Top(i)
  <2>2. top \in 1..L /\ Top(top)
    <3> HIDE DEF Top, L
    <3> QED
      BY <2>1
  <2>3. Number!Compare(a, b) = IF a[top] > b[top] THEN "GREATER" ELSE "LESS"
    BY <1>4 DEF Number!Compare
  <2> HIDE DEF top
  <2>4. a[top] \in Nat /\ b[top] \in Nat /\ a[top] # b[top]
        /\ \A j \in (top + 1)..Len(a) : a[j] = b[j]
    BY <1>1, <2>2
  <2>5. CASE a[top] < b[top]
    <3>1. Number!Value(a) < Number!Value(b)
      BY <2>2, <2>4, <2>5, TopDecides
    <3> QED
      BY <2>3, <2>4, <2>5, <3>1
  <2>6. CASE b[top] < a[top]
    <3>1. Number!Value(b) < Number!Value(a)
      <4>1. Len(a) = Len(b) /\ Len(b) <= 2 * Size /\ top \in 1..Len(b)
            /\ \A j \in (top + 1)..Len(b) : b[j] = a[j]
        BY <2>2, <2>4
      <4> QED
        BY <2>6, <4>1, TopDecides
    <3>2. Number!Compare(a, b) = "GREATER"
      BY <2>3, <2>4, <2>6
    <3> QED
      BY <1>2, <3>1, <3>2
  <2> QED
    BY <2>4, <2>5, <2>6
<1> QED
  BY <1>3, <1>4

(* With a carry or without.                                                *)
LEMMA CarryOrNot ==
    ASSUME NEW l \in Nat, NEW c \in 0..1, NEW x \in Int, NEW y \in Int, x + c * l = y
    PROVE  c \in {0, 1} /\ (c = 0 => x = y) /\ (c = 1 => x + l = y)
<1>1. CASE c = 0
  <2>1. x + 0 * l = y
    BY <1>1
  <2> QED
    BY <1>1, <2>1
<1>2. CASE c = 1
  <2>1. x + 1 * l = y
    BY <1>2
  <2> QED
    BY <1>2, <2>1
<1> QED
  BY <1>1, <1>2

(* What a number is worth is less than what the next byte would count for. *)
LEMMA ValueIs ==
    ASSUME NEW a \in Seq(Byte), Len(a) <= 2 * Size
    PROVE  Number!Value(a) \in Nat /\ Number!Value(a) < Number!Power[Len(a)]
<1>1. a \in Seq(Nat) /\ Len(a) \in Nat /\ Len(a) \in 0..Len(a)
  BY BytesIn
<1> QED
  BY <1>1, PartsAre, PartsFit DEF Number!Value

(* The prime and its complement, and how small the complement is: what all *)
(* reductions rest on.                                                     *)
LEMMA ComplementIs ==
    /\ Number!Complement \in Nat /\ Number!Limit = Modulus + Number!Complement
    /\ Number!Limit < 2 * Modulus
    /\ ComplementSize \in Nat /\ ComplementSize <= 2 * Size
    /\ Number!Power[ComplementSize] \in Nat
    /\ 2 * Number!Complement <= Number!Power[ComplementSize]
    /\ Number!complement_n \in Seq(Byte) /\ Len(Number!complement_n) = ComplementSize
    /\ Number!Value(Number!complement_n) = Number!Complement
    /\ Number!n \in Seq(Byte) /\ Len(Number!n) = Size /\ Number!Value(Number!n) = Modulus
<1> DEFINE R == Number!Radix
           p == Number!Power
           c == p[ComplementSize]
           l == p[Size]
           t == Number!Complement
           e == p[Size - 1]
<1>1. R \in Nat /\ R >= 2 /\ Size \in Nat /\ ComplementSize \in Nat /\ ComplementSize < Size
      /\ Modulus \in Nat /\ Modulus >= 2 /\ l \in Nat /\ Modulus < l /\ Number!Limit = l
  BY FieldIs, BytePowers
<1>2. 2 * t <= c
  BY CallsAssumption DEF Number!FieldFits
<1>3. t \in Nat /\ l = Modulus + t /\ t = l - Modulus
  <2> HIDE DEF l
  <2>1. t = l - Modulus
    BY <1>1 DEF Number!Complement
  <2> HIDE DEF t
  <2> QED
    BY <1>1, <2>1
<1>4. c \in Nat /\ c > 0 /\ e \in Nat /\ c <= e /\ l = R * e
  <2>1. ComplementSize \in 0..(2 * Size) /\ Size - 1 \in 0..(2 * Size) /\ Size \in 1..(2 * Size)
        /\ Size - 1 \in Nat /\ ComplementSize <= Size - 1 /\ Size - 1 <= 2 * Size
    BY <1>1
  <2>2. c <= e
    BY <1>1, <2>1, BytesGrow
  <2> QED
    BY <2>1, <2>2, BytePowers
<1>5. l < 2 * Modulus
  <2> HIDE DEF c, l, t, e, R
  <2>1. e * 2 <= e * R
    BY <1>1, <1>4, Bigger
  <2>2. e * 2 = 2 * e /\ e * R = R * e
    BY <1>1, <1>4
  <2> DEFINE er == R * e
  <2>3. 2 * e <= er /\ l = er
    BY <1>4, <2>1, <2>2
  <2> HIDE DEF er
  <2> QED
    BY <1>1, <1>2, <1>3, <1>4, <2>3
<1>6. /\ Number!complement_n \in Seq(Byte) /\ Len(Number!complement_n) = ComplementSize
      /\ Number!Value(Number!complement_n) = t
  <2>1. t < c /\ ComplementSize <= 2 * Size
    <3> HIDE DEF t, c
    <3> QED
      BY <1>1, <1>2, <1>3, <1>4
  <2> HIDE DEF t
  <2> QED
    BY <1>1, <1>3, <2>1, BytesAre DEF Number!complement_n, t
<1>7. Number!n \in Seq(Byte) /\ Len(Number!n) = Size /\ Number!Value(Number!n) = Modulus
  <2>1. Size <= 2 * Size
    BY <1>1
  <2> QED
    BY <1>1, <2>1, BytesAre DEF Number!n
<1> QED
  BY <1>1, <1>2, <1>3, <1>4, <1>5, <1>6, <1>7

(* bigModulo: the numbers below 2^256 are below twice the prime.           *)
LEMMA ModuloIs ==
    ASSUME NEW a \in Seq(Byte), Len(a) = Size
    PROVE  /\ Number!Modulo(a) \in Seq(Byte) /\ Len(Number!Modulo(a)) = Size
           /\ Number!Value(Number!Modulo(a)) = Number!Value(a) % Modulus
<1> DEFINE x == Number!Value(a)
           l == Number!Limit
           s == Number!Subtract(a, Number!n)
           y == Number!Value(s.r)
           k == s.borrow
<1>1. Size \in Nat /\ Size <= 2 * Size /\ Modulus \in Nat /\ Modulus >= 2 /\ Modulus > 0
      /\ l \in Nat /\ Modulus < l /\ l < 2 * Modulus /\ l = Number!Power[Size]
  BY FieldIs, ComplementIs DEF Number!Limit
<1>2. Number!n \in Seq(Byte) /\ Len(Number!n) = Size /\ Number!Value(Number!n) = Modulus
  BY ComplementIs
<1>3. x \in Nat /\ x < l
  BY <1>1, ValueIs
<1> HIDE DEF l, x
<1>4. x % Modulus = IF x < Modulus THEN x ELSE x - Modulus
  <2>1. x \in 0..(2 * Modulus - 1)
    BY <1>1, <1>3
  <2> QED
    BY <1>1, <2>1, OneCarry
<1>5. Number!Compare(a, Number!n) = "LESS" <=> x < Modulus
  BY <1>1, <1>2, CompareIs DEF x
<1>6. CASE x < Modulus
  BY <1>4, <1>5, <1>6 DEF Number!Modulo, x
<1>7. CASE ~(x < Modulus)
  <2>1. s.r \in Seq(Byte) /\ Len(s.r) = Size /\ k \in 0..1 /\ x + k * l = y + Modulus
    <3>1. s.r \in Seq(Byte) /\ Len(s.r) = Len(a) /\ k \in 0..1
          /\ x + k * Number!Power[Len(a)] = y + Number!Value(Number!n)
      BY <1>1, <1>2, SubtractIs DEF x
    <3> QED
      BY <1>1, <1>2, <3>1
  <2>2. y \in Nat /\ y < l
    BY <1>1, <2>1, ValueIs
  <2>3. Number!Modulo(a) = s.r
    BY <1>5, <1>7 DEF Number!Modulo
  <2> HIDE DEF s
  <2> HIDE DEF y, k
  <2>4. k # 1
    <3> SUFFICES ASSUME k = 1 PROVE FALSE
      OBVIOUS
    <3>1. x + l = y + Modulus
      BY <1>1, <1>3, <2>1, <2>2
    <3> QED
      BY <1>1, <1>3, <1>7, <2>2, <3>1
  <2>5. k = 0
    BY <2>1, <2>4
  <2>6. x + 0 * l = y + Modulus
    BY <2>1, <2>5
  <2>7. y = x - Modulus
    BY <1>1, <1>3, <2>2, <2>6
  <2> QED
    BY <1>4, <1>7, <2>1, <2>3, <2>7 DEF x, y
<1> QED
  BY <1>6, <1>7

(* bigAdd: the sum of two numbers of the field, in the field.              *)
LEMMA AddModuloIs ==
    ASSUME NEW a \in Seq(Byte), Len(a) = Size, NEW b \in Seq(Byte), Len(b) = Size,
           Number!Value(a) < Modulus, Number!Value(b) < Modulus
    PROVE  /\ Number!AddModulo(a, b) \in Seq(Byte) /\ Len(Number!AddModulo(a, b)) = Size
           /\ Number!Value(Number!AddModulo(a, b))
                = (Number!Value(a) + Number!Value(b)) % Modulus
<1> DEFINE x == Number!Value(a)
           y == Number!Value(b)
           l == Number!Limit
           s == Number!Add(a, b)
           d == Number!Subtract(s.r, Number!n)
           u == Number!Value(s.r)
           v == Number!Value(d.r)
           c == s.carry
           k == d.borrow
<1>1. Size \in Nat /\ Size <= 2 * Size /\ Modulus \in Nat /\ Modulus >= 2 /\ Modulus > 0
      /\ l \in Nat /\ Modulus < l /\ l < 2 * Modulus /\ l = Number!Power[Size]
  BY FieldIs, ComplementIs DEF Number!Limit
<1>2. Number!n \in Seq(Byte) /\ Len(Number!n) = Size /\ Number!Value(Number!n) = Modulus
  BY ComplementIs
<1>3. x \in Nat /\ x < Modulus /\ y \in Nat /\ y < Modulus
  BY <1>1, ValueIs
<1>4. s.r \in Seq(Byte) /\ Len(s.r) = Size /\ c \in 0..1 /\ u + c * l = x + y
  <2>1. s.r \in Seq(Byte) /\ Len(s.r) = Len(a) /\ c \in 0..1
        /\ u + c * Number!Power[Len(a)] = x + y
    BY <1>1, AddIs
  <2> QED
    BY <1>1, <2>1
<1>5. u \in Nat /\ u < l
  BY <1>1, <1>4, ValueIs
<1>6. Number!Compare(s.r, Number!n) = "LESS" <=> u < Modulus
  BY <1>1, <1>2, <1>4, CompareIs
<1>7. d.r \in Seq(Byte) /\ Len(d.r) = Size /\ k \in 0..1 /\ u + k * l = v + Modulus
      /\ v \in Nat /\ v < l
  <2>1. d.r \in Seq(Byte) /\ Len(d.r) = Len(s.r) /\ k \in 0..1
        /\ u + k * Number!Power[Len(s.r)] = v + Number!Value(Number!n)
    BY <1>1, <1>2, <1>4, SubtractIs
  <2> HIDE DEF d
  <2>2. v \in Nat /\ v < l
    BY <1>1, <1>4, <2>1, ValueIs
  <2> QED
    BY <1>1, <1>2, <1>4, <2>1, <2>2
<1>8. Number!AddModulo(a, b) = IF c = 1 \/ ~(u < Modulus) THEN d.r ELSE s.r
  BY <1>6 DEF Number!AddModulo
<1> DEFINE t == x + y
<1>9. t % Modulus = (IF t < Modulus THEN t ELSE t - Modulus) /\ t \in Int
  <2>1. t \in 0..(2 * Modulus - 1)
    <3> HIDE DEF x, y
    <3> QED
      BY <1>1, <1>3
  <2> HIDE DEF t
  <2> QED
    BY <1>1, <2>1, OneCarry
<1> HIDE DEF s, d
<1> HIDE DEF x, y, l, u, v, c, k
<1>10. (c = 0 => u = x + y) /\ (c = 1 => u + l = x + y) /\ (k = 0 => u = v + Modulus)
       /\ (k = 1 => u + l = v + Modulus) /\ c \in {0, 1} /\ k \in {0, 1}
  <2>1. x + y \in Int /\ v + Modulus \in Int /\ u \in Int
    BY <1>1, <1>3, <1>5, <1>7
  <2>2. c \in {0, 1} /\ (c = 0 => u = x + y) /\ (c = 1 => u + l = x + y)
    BY <1>1, <1>4, <2>1, CarryOrNot
  <2>3. k \in {0, 1} /\ (k = 0 => u = v + Modulus) /\ (k = 1 => u + l = v + Modulus)
    BY <1>1, <1>7, <2>1, CarryOrNot
  <2> QED
    BY <2>2, <2>3
<1>13. t = x + y
  OBVIOUS
<1> HIDE DEF t
<1>11. CASE c = 1 \/ ~(u < Modulus)
  <2>1. v = t - Modulus /\ ~(t < Modulus)
    BY <1>1, <1>3, <1>5, <1>7, <1>10, <1>11, <1>13
  <2> QED
    BY <1>7, <1>8, <1>9, <1>11, <2>1 DEF v, x, y, t
<1>12. CASE ~(c = 1 \/ ~(u < Modulus))
  <2>1. u = t /\ t < Modulus
    BY <1>1, <1>3, <1>5, <1>10, <1>12, <1>13
  <2> QED
    BY <1>4, <1>8, <1>9, <1>12, <2>1 DEF u, x, y, t
<1> QED
  BY <1>11, <1>12

(* bigSubtract: the difference, in the field.                              *)
LEMMA SubtractModuloIs ==
    ASSUME NEW a \in Seq(Byte), Len(a) = Size, NEW b \in Seq(Byte), Len(b) = Size,
           Number!Value(a) < Modulus, Number!Value(b) < Modulus
    PROVE  /\ Number!SubtractModulo(a, b) \in Seq(Byte)
           /\ Len(Number!SubtractModulo(a, b)) = Size
           /\ Number!Value(Number!SubtractModulo(a, b))
                = (Modulus + Number!Value(a) - Number!Value(b)) % Modulus
<1> DEFINE x == Number!Value(a)
           y == Number!Value(b)
           l == Number!Limit
           s == Number!Subtract(a, b)
           d == Number!Add(s.r, Number!n)
           u == Number!Value(s.r)
           v == Number!Value(d.r)
           c == d.carry
           k == s.borrow
<1>1. Size \in Nat /\ Size <= 2 * Size /\ Modulus \in Nat /\ Modulus >= 2 /\ Modulus > 0
      /\ l \in Nat /\ Modulus < l /\ l < 2 * Modulus /\ l = Number!Power[Size]
  BY FieldIs, ComplementIs DEF Number!Limit
<1>2. Number!n \in Seq(Byte) /\ Len(Number!n) = Size /\ Number!Value(Number!n) = Modulus
  BY ComplementIs
<1>3. x \in Nat /\ x < Modulus /\ y \in Nat /\ y < Modulus
  BY <1>1, ValueIs
<1>4. s.r \in Seq(Byte) /\ Len(s.r) = Size /\ k \in 0..1 /\ x + k * l = u + y
  <2>1. s.r \in Seq(Byte) /\ Len(s.r) = Len(a) /\ k \in 0..1
        /\ x + k * Number!Power[Len(a)] = u + y
    BY <1>1, SubtractIs
  <2> QED
    BY <1>1, <2>1
<1>5. u \in Nat /\ u < l
  BY <1>1, <1>4, ValueIs
<1>6. d.r \in Seq(Byte) /\ Len(d.r) = Size /\ c \in 0..1 /\ v + c * l = u + Modulus
      /\ v \in Nat /\ v < l
  <2>1. d.r \in Seq(Byte) /\ Len(d.r) = Len(s.r) /\ c \in 0..1
        /\ v + c * Number!Power[Len(s.r)] = u + Number!Value(Number!n)
    BY <1>1, <1>2, <1>4, AddIs
  <2> HIDE DEF d
  <2>2. v \in Nat /\ v < l
    BY <1>1, <1>4, <2>1, ValueIs
  <2> QED
    BY <1>1, <1>2, <1>4, <2>1, <2>2
<1>7. Number!SubtractModulo(a, b) = IF k = 1 THEN d.r ELSE s.r
  BY DEF Number!SubtractModulo
<1> DEFINE t == Modulus + x - y
<1>8. t % Modulus = (IF t < Modulus THEN t ELSE t - Modulus) /\ t \in Int
  <2>1. t \in 0..(2 * Modulus - 1)
    <3> HIDE DEF x, y
    <3> QED
      BY <1>1, <1>3
  <2> HIDE DEF t
  <2> QED
    BY <1>1, <2>1, OneCarry
<1> HIDE DEF s, d
<1> HIDE DEF x, y, l, u, v, c, k
<1>9. (c = 0 => v = u + Modulus) /\ (c = 1 => v + l = u + Modulus) /\ (k = 0 => x = u + y)
      /\ (k = 1 => x + l = u + y) /\ c \in {0, 1} /\ k \in {0, 1}
  <2>1. u + y \in Int /\ u + Modulus \in Int /\ x \in Int /\ v \in Int
    BY <1>1, <1>3, <1>5, <1>6
  <2>2. c \in {0, 1} /\ (c = 0 => v = u + Modulus) /\ (c = 1 => v + l = u + Modulus)
    BY <1>1, <1>6, <2>1, CarryOrNot
  <2>3. k \in {0, 1} /\ (k = 0 => x = u + y) /\ (k = 1 => x + l = u + y)
    BY <1>1, <1>4, <2>1, CarryOrNot
  <2> QED
    BY <2>2, <2>3
<1>10. t = Modulus + x - y
  OBVIOUS
<1> HIDE DEF t
<1>11. CASE k = 1
  <2>1. v = t /\ t < Modulus
    <3>1. x + l = u + y /\ x < y
      BY <1>1, <1>3, <1>5, <1>9, <1>11
    <3>2. c # 0
      BY <1>1, <1>3, <1>5, <1>6, <1>9, <3>1
    <3>3. v + l = u + Modulus
      BY <1>9, <3>2
    <3>4. Modulus \in Int /\ x \in Int /\ y \in Int /\ u \in Int /\ v \in Int /\ l \in Int
      BY <1>1, <1>3, <1>5, <1>6
    <3>5. v = Modulus + x - y
      BY <3>1, <3>3, <3>4
    <3>6. Modulus + x - y < Modulus
      BY <3>1, <3>4
    <3> QED
      BY <1>10, <3>5, <3>6
  <2> QED
    BY <1>6, <1>7, <1>8, <1>11, <2>1 DEF v, x, y, t
<1>12. CASE k # 1
  <2>1. u = t - Modulus /\ ~(t < Modulus)
    BY <1>1, <1>3, <1>5, <1>8, <1>9, <1>10, <1>12
  <2> QED
    BY <1>4, <1>7, <1>8, <1>12, <2>1 DEF u, x, y, t
<1> QED
  BY <1>11, <1>12

(* Two numbers below two others have the smaller product.                  *)
LEMMA ProductLess ==
    ASSUME NEW x \in Nat, NEW y \in Nat, NEW u \in Nat, NEW v \in Nat, x < u, y < v
    PROVE  x * y \in Nat /\ x * y < u * v
<1>1. x * y <= x * v
  BY Bigger
<1>2. v * (x + 1) <= v * u
  BY Bigger
<1>3. v * (x + 1) = x * v + v /\ v * u = u * v
  OBVIOUS
<1> DEFINE xy == x * y
           xv == x * v
           uv == u * v
           s == v * (x + 1)
           t == v * u
<1>4. xy \in Nat /\ xv \in Nat /\ uv \in Nat /\ xy <= xv /\ s <= t /\ s = xv + v /\ t = uv
  BY <1>1, <1>2, <1>3
<1> HIDE DEF xy, xv, uv, s, t
<1>5. xy \in Nat /\ xy < uv
  BY <1>4
<1> QED
  BY <1>5 DEF xy, uv

(* The product of two bytes and a carry, added to two others.              *)
ByteSum(R, c, d, x, y, k, lo, hi) ==
    /\ R \in Nat /\ R >= 2 /\ {c, d, x, y} \subseteq 0..(R - 1) /\ k \in 0..1
    /\ lo = x + ((c * d) % R) /\ hi = y + ((c * d) \div R) + (lo \div R) + k

(* It leaves one carry.                                                    *)
LEMMA ByteProduct ==
    ASSUME NEW R, NEW c, NEW d, NEW x, NEW y, NEW k, NEW lo, NEW hi,
           ByteSum(R, c, d, x, y, k, lo, hi)
    PROVE  /\ lo % R \in 0..(R - 1) /\ hi % R \in 0..(R - 1) /\ hi \div R \in 0..1
           /\ (lo % R) + R * (hi % R) + R * (R * (hi \div R)) = x + R * y + c * d + R * k
<1> DEFINE e == c * d
           a == e \div R
           b == e % R
           l == lo \div R
           m == lo % R
           h == hi \div R
           g == hi % R
<1>0. R > 0 /\ R \in Nat /\ R >= 2 /\ lo = x + b /\ hi = y + a + l + k
      /\ c \in 0..(R - 1) /\ d \in 0..(R - 1) /\ x \in 0..(R - 1) /\ y \in 0..(R - 1)
      /\ k \in 0..1
  BY DEF ByteSum
<1>1. e \in Nat /\ e < (R - 1) * R
  <2>1. c \in Nat /\ d \in Nat /\ c < R /\ d < R /\ R - 1 \in Nat /\ c <= R - 1
    BY <1>0
  <2>2. c * d <= c * (R - 1)
    <3>1. d <= R - 1 /\ d \in Int /\ R - 1 \in Int
      BY <1>0
    <3> QED
      BY <2>1, <3>1, Bigger
  <2> DEFINE o == R - 1
  <2>3. o \in Nat /\ o < R /\ o > 0 /\ c <= o
    BY <1>0
  <2> HIDE DEF o
  <2>4. o * c <= o * o /\ o * (o + 1) <= o * R
    BY <1>0, <2>1, <2>3, Bigger
  <2>5. o * (o + 1) = o * o + o /\ o * c = c * o /\ o * R \in Nat /\ o * o \in Nat /\ c * o \in Nat
        /\ e \in Nat
    BY <1>0, <2>1, <2>3
  <2> DEFINE oo == o * o
             co == c * o
             oc == o * c
             oR == o * R
             on == o * (o + 1)
  <2>6. e <= co /\ oc <= oo /\ on <= oR /\ on = oo + o /\ oc = co /\ e \in Nat /\ oo \in Nat
        /\ oR \in Nat /\ co \in Nat
    BY <2>2, <2>4, <2>5 DEF o
  <2> HIDE DEF oo, co, oc, oR, on, e
  <2>7. e < oR
    BY <2>3, <2>6
  <2> QED
    BY <2>6, <2>7 DEF oR, o
<1> HIDE DEF e
<1>2. a \in Nat /\ b \in 0..(R - 1) /\ e = R * a + b
  BY <1>0, <1>1, Division, Halves
<1>3. a < R - 1
  <2> SUFFICES ASSUME R - 1 <= a PROVE FALSE
    BY <1>0, <1>2
  <2> DEFINE o == R - 1
  <2>1. o \in Nat /\ o <= a
    BY <1>0
  <2> HIDE DEF o, a
  <2>2. R * o <= R * a
    BY <1>0, <1>2, <2>1, Bigger
  <2>5. e < o * R /\ e = R * a + b
    BY <1>1, <1>2 DEF o
  <2>3. R * o = o * R /\ R * a \in Nat /\ o * R \in Nat
    BY <1>0, <1>2, <2>1
  <2> DEFINE ro == R * o
             ra == R * a
             or == o * R
  <2>4. ro <= ra /\ ro = or /\ ra \in Nat /\ or \in Nat /\ e = ra + b /\ e < or
    BY <2>2, <2>3, <2>5
  <2> HIDE DEF ro, ra, or
  <2> QED
    BY <1>2, <2>4
<1> HIDE DEF a, b
<1>4. lo \in 0..(2 * R - 1)
  BY <1>0, <1>2
<1>5. l \in 0..1 /\ m \in 0..(R - 1) /\ lo = m + R * l
  <2>1. /\ lo \div R = (IF lo < R THEN 0 ELSE 1) /\ lo % R \in 0..(R - 1)
        /\ lo = (lo % R) + R * (lo \div R)
    BY <1>0, <1>4, OneCarry
  <2> QED
    BY <2>1
<1> HIDE DEF l, m
<1>6. hi \in 0..(2 * R - 1)
  BY <1>0, <1>2, <1>3, <1>5
<1>7. h \in 0..1 /\ g \in 0..(R - 1) /\ hi = g + R * h
  <2>1. /\ hi \div R = (IF hi < R THEN 0 ELSE 1) /\ hi % R \in 0..(R - 1)
        /\ hi = (hi % R) + R * (hi \div R)
    BY <1>0, <1>6, OneCarry
  <2> QED
    BY <2>1
<1> HIDE DEF h, g
<1>8. m + R * g + R * (R * h) = x + R * y + e + R * k
  <2>1. m + R * g + R * (R * h) = m + R * (g + R * h)
    BY <1>0, <1>5, <1>7
  <2>2. g + R * h = y + a + l + k
    BY <1>0, <1>7
  <2>3. R * (y + a + l + k) = R * y + R * a + R * l + R * k
    BY <1>0, <1>2, <1>5
  <2> DEFINE ry == R * y
             ra == R * a
             rl == R * l
             rk == R * k
  <2>4. ry \in Nat /\ ra \in Nat /\ rl \in Nat /\ rk \in Nat
    BY <1>0, <1>2, <1>5
  <2>5. x + b = m + rl /\ e = ra + b /\ m + R * g + R * (R * h) = m + (ry + ra + rl + rk)
    BY <1>0, <1>2, <1>5, <2>1, <2>2, <2>3
  <2> HIDE DEF ry, ra, rl, rk
  <2>6. m + (ry + ra + rl + rk) = x + ry + e + rk
    BY <1>0, <1>2, <1>5, <2>4, <2>5
  <2> QED
    BY <2>5, <2>6 DEF ry, rk
<1> QED
  BY <1>5, <1>7, <1>8 DEF e, a, b, l, m, h, g

(* The sums of as many bytes, with their carry.                            *)
Sums(size) == [r : {a \in Seq(Byte) : Len(a) = size}, high_carry : 0..1]

(* A turn of the inner loop adds a product of two bytes at their place.    *)
LEMMA MultiplyBytesIs ==
    ASSUME NEW size \in Nat, size <= 2 * Size, NEW st \in Sums(size),
           NEW a \in Seq(Byte), NEW b \in Seq(Byte),
           NEW i \in 1..Len(a), NEW j \in 1..Len(b), i + j <= size
    PROVE  /\ Number!MultiplyBytes(st, a, b, i, j) \in Sums(size)
           /\ Number!Value(Number!MultiplyBytes(st, a, b, i, j).r)
                  + Number!MultiplyBytes(st, a, b, i, j).high_carry * Number!Power[i + j]
                = Number!Value(st.r) + (a[i] * b[j]) * Number!Power[i + j - 2]
                  + st.high_carry * Number!Power[i + j - 1]
<1> DEFINE R == Number!Radix
           p == Number!Power
           m == i + j - 1
           s == st.r
           c == a[i]
           d == b[j]
           x == s[m]
           y == s[m + 1]
           k == st.high_carry
           lo == x + ((c * d) % R)
           hi == y + ((c * d) \div R) + (lo \div R) + k
           new == Number!MultiplyBytes(st, a, b, i, j)
           first == [s EXCEPT ![m] = lo % R]
           second == [first EXCEPT ![m + 1] = hi % R]
<1>1. R \in Nat /\ R >= 2 /\ Size \in Nat /\ i \in Nat /\ j \in Nat /\ i >= 1 /\ j >= 1
  BY FieldIs, LenProperties
<1>2. m \in 1..size /\ m + 1 \in 1..size /\ m + 1 = i + j /\ m # m + 1 /\ m - 1 = i + j - 2
      /\ (m + 1) - 1 = m
  BY <1>1
<1>3. s \in Seq(Byte) /\ Len(s) = size /\ k \in 0..1
  BY DEF Sums
<1>4. c \in 0..(R - 1) /\ d \in 0..(R - 1) /\ x \in 0..(R - 1) /\ y \in 0..(R - 1)
  BY <1>2, <1>3, BytesIn DEF Byte
<1>5. new = [r |-> [s EXCEPT ![m] = lo % R, ![m + 1] = hi % R], high_carry |-> hi \div R]
  BY <1>2 DEF Number!MultiplyBytes
<1> HIDE DEF m, s, c, d, x, y, k, R, new
<1> DEFINE f == lo % R
           g == hi % R
           h == hi \div R
<1>20. lo = x + ((c * d) % R) /\ hi = y + ((c * d) \div R) + (lo \div R) + k
  OBVIOUS
<1> HIDE DEF lo, hi
<1>6. /\ lo % R \in 0..(R - 1) /\ hi % R \in 0..(R - 1) /\ hi \div R \in 0..1
      /\ (lo % R) + R * (hi % R) + R * (R * (hi \div R)) = x + R * y + c * d + R * k
  <2>1. ByteSum(R, c, d, x, y, k, lo, hi)
    BY <1>1, <1>3, <1>4, <1>20 DEF ByteSum
  <2> QED
    BY <2>1, ByteProduct
<1>7. f \in 0..(R - 1) /\ g \in 0..(R - 1) /\ h \in 0..1
      /\ f + R * g + R * (R * h) = x + R * y + c * d + R * k
  BY <1>6
<1>8. new = [r |-> second, high_carry |-> h]
  BY <1>5
<1> HIDE DEF f, g, h
<1>9. s \in [1..size -> Byte]
  BY <1>3, LenProperties
<1>10. first \in Seq(Byte) /\ Len(first) = size /\ first[m] = f
       /\ \A o \in 1..size : o # m => first[o] = s[o]
  <2>1. f \in Byte
    BY <1>7 DEF Byte, R
  <2>2. first \in [1..size -> Byte]
    BY <1>9, <2>1 DEF f
  <2>3. first[m] = f /\ \A o \in 1..size : o # m => first[o] = s[o]
    BY <1>2, <1>9 DEF f
  <2> HIDE DEF first
  <2>4. first \in Seq(Byte)
    BY <2>2, SeqDef
  <2>5. Len(first) = size
    BY <2>2, <2>4, LenProperties
  <2> QED
    BY <2>3, <2>4, <2>5
<1>11. first[m + 1] = y
  BY <1>2, <1>10 DEF y
<1> HIDE DEF first
<1>12. second \in Seq(Byte) /\ Len(second) = size /\ second[m + 1] = g
       /\ \A o \in 1..size : o # m + 1 => second[o] = first[o]
  <2>1. g \in Byte
    BY <1>7 DEF Byte, R
  <2>2. first \in [1..size -> Byte]
    BY <1>10, LenProperties
  <2>3. second \in [1..size -> Byte]
    BY <2>1, <2>2 DEF g
  <2>4. second[m + 1] = g /\ \A o \in 1..size : o # m + 1 => second[o] = first[o]
    BY <1>2, <2>2 DEF g
  <2> HIDE DEF second
  <2>5. second \in Seq(Byte)
    BY <2>3, SeqDef
  <2>6. Len(second) = size
    BY <2>3, <2>5, LenProperties
  <2> QED
    BY <2>4, <2>5, <2>6
<1> HIDE DEF second
<1> DEFINE q == p[m - 1]
           v == Number!Value(s)
           u == Number!Value(first)
           w == Number!Value(second)
<1>13. q \in Nat /\ p[m] = R * q /\ p[m + 1] = R * (R * q)
  <2>1. m - 1 \in 0..(2 * Size) /\ m \in 1..(2 * Size) /\ m + 1 \in 1..(2 * Size)
    BY <1>1, <1>2
  <2>2. p[m] = R * p[m - 1]
    BY <2>1, BytePowers DEF R
  <2>3. p[m + 1] = R * p[(m + 1) - 1]
    <3> DEFINE o == m + 1
    <3>1. o \in 1..(2 * Size)
      BY <2>1
    <3> HIDE DEF o
    <3>2. p[o] = R * p[o - 1]
      BY <3>1, BytePowers DEF R
    <3> QED
      BY <3>2 DEF o
  <2>4. q \in Nat
    BY <2>1, BytePowers
  <2> QED
    BY <1>2, <2>2, <2>3, <2>4
<1>14. u = v + (f - x) * q
  <2>1. s \in Seq(Nat) /\ first \in Seq(Nat) /\ Len(first) = Len(s) /\ Len(s) <= 2 * Size
        /\ m \in 1..Len(s) /\ \A o \in 1..Len(s) : o # m => first[o] = s[o]
    BY <1>2, <1>3, <1>10, BytesIn
  <2>2. u = v + (first[m] - s[m]) * p[m - 1]
    BY <2>1, ByteChanged
  <2> QED
    BY <1>10, <2>2 DEF x
<1>15. w = u + (g - y) * (R * q)
  <2> DEFINE o == m + 1
  <2>1. first \in Seq(Nat) /\ second \in Seq(Nat) /\ Len(second) = Len(first)
        /\ Len(first) <= 2 * Size /\ o \in 1..Len(first)
        /\ \A l \in 1..Len(first) : l # o => second[l] = first[l]
    BY <1>2, <1>10, <1>12, BytesIn
  <2> HIDE DEF o
  <2>2. w = u + (second[o] - first[o]) * p[o - 1]
    BY <2>1, ByteChanged
  <2>3. second[o] = g /\ first[o] = y /\ o - 1 = m
    BY <1>2, <1>11, <1>12 DEF o
  <2> QED
    BY <1>13, <2>2, <2>3
<1>16. v \in Nat /\ u \in Nat /\ w \in Nat
  BY <1>3, <1>10, <1>12, ValueIs
<1> HIDE DEF q, v, u, w, p
<1>17. w + h * (R * (R * q)) = v + (c * d) * q + k * (R * q)
  <2> DEFINE e == c * d
  <2>1. e \in Nat /\ f \in Int /\ g \in Int /\ h \in Int /\ x \in Int /\ y \in Int /\ k \in Int
        /\ R \in Int /\ q \in Int
    BY <1>1, <1>3, <1>4, <1>7, <1>13
  <2>2. f + R * g + R * (R * h) = x + R * y + e + R * k
    BY <1>7
  <2> HIDE DEF e
  <2>3. (f - x) * q + (g - y) * (R * q) + h * (R * (R * q))
          = (f + R * g + R * (R * h)) * q - (x + R * y) * q
    BY <2>1
  <2>4. (x + R * y + e + R * k) * q = (x + R * y) * q + (e * q + k * (R * q))
    BY <2>1
  <2> DEFINE n1 == (f - x) * q
             n2 == (g - y) * (R * q)
             n3 == h * (R * (R * q))
             n4 == (x + R * y) * q
             n5 == e * q
             n6 == k * (R * q)
             n7 == (f + R * g + R * (R * h)) * q
  <2>5. n1 \in Int /\ n2 \in Int /\ n3 \in Int /\ n4 \in Int /\ n5 \in Int /\ n6 \in Int
    BY <2>1
  <2>6. n1 + n2 + n3 = n7 - n4 /\ n7 = n4 + (n5 + n6) /\ u = v + n1 /\ w = u + n2
    BY <1>14, <1>15, <2>2, <2>3, <2>4
  <2> HIDE DEF n1, n2, n3, n4, n5, n6, n7
  <2>7. w + n3 = v + n5 + n6
    BY <1>16, <2>5, <2>6
  <2> QED
    BY <2>7 DEF n3, n5, n6, e
<1>18. new \in Sums(size)
  BY <1>7, <1>8, <1>12 DEF Sums
<1>19. new.r = second /\ new.high_carry = h
  BY <1>8
<1> QED
  BY <1>2, <1>13, <1>17, <1>18, <1>19 DEF new, w, v, q, p, c, d, k, s

(* A row adds a byte's multiple of what the other number's lowest bytes    *)
(* are worth, but for the carry on its way.                                *)
LEMMA RowIs ==
    ASSUME NEW size \in Nat, size <= 2 * Size, NEW sum \in Seq(Byte), Len(sum) = size,
           NEW a \in Seq(Byte), NEW b \in Seq(Byte), NEW i \in 1..Len(a), i + Len(b) <= size
    PROVE  \A j \in 0..Len(b) :
              LET w == Number!Row(sum, a, b, i)
              IN  /\ w[j] \in Sums(size)
                  /\ Number!Value(w[j].r) + w[j].high_carry * Number!Power[i + j]
                       = Number!Value(sum)
                         + (a[i] * Number!Power[i - 1]) * Number!Parts(b)[j]
<1> DEFINE L == Len(b)
           S == Sums(size)
           base == [r |-> sum, high_carry |-> 0]
           turn(st, j) == Number!MultiplyBytes(st, a, b, i, j)
           body(h) == [j \in 0..L |-> IF j = 0 THEN base ELSE turn(h[j - 1], j)]
           w == Number!Row(sum, a, b, i)
           step == [j \in 1..L |-> [st \in S |-> turn(st, j)]]
           p == Number!Power
           v == Number!Parts(b)
           c == a[i]
           q == p[i - 1]
           s == Number!Value(sum)
           T == {j \in 0..L : Number!Value(w[j].r) + w[j].high_carry * p[i + j]
                                = s + (c * q) * v[j]}
<1>1. L \in Nat /\ Size \in Nat /\ i \in Nat /\ i >= 1 /\ i + L <= size /\ size <= 2 * Size
      /\ b \in Seq(Nat) /\ c \in Nat /\ \A j \in 1..L : b[j] \in Nat
  <2>1. b \in Seq(Nat) /\ L \in Nat /\ \A j \in 1..L : b[j] \in Nat
    BY BytesIn
  <2>2. Len(a) \in Nat /\ c \in Nat
    BY BytesIn
  <2>3. Size \in Nat
    BY FieldIs
  <2> HIDE DEF L, c
  <2>4. i \in Nat /\ i >= 1
    BY <2>2
  <2> QED
    BY <2>1, <2>2, <2>3, <2>4 DEF L
<1>2. w = CHOOSE h : h = body(h)
  BY DEF Number!Row
<1>3. ASSUME NEW j \in 1..L, NEW st \in S
      PROVE  /\ turn(st, j) \in S
             /\ Number!Value(turn(st, j).r) + turn(st, j).high_carry * p[i + j]
                  = Number!Value(st.r) + (c * b[j]) * p[i + j - 2] + st.high_carry * p[i + j - 1]
  <2>1. i + j <= size /\ j \in 1..Len(b)
    BY <1>1
  <2> QED
    BY <2>1, MultiplyBytesIs
<1>4. base \in S
  BY DEF Sums
<1> HIDE DEF L, w
<1>5. step \in [1..L -> [S -> S]]
  <2>1. \A j \in 1..L : \A st \in S : turn(st, j) \in S
    BY <1>3
  <2> HIDE DEF turn, S
  <2> QED
    BY <2>1
<1>6. \A j \in 1..L : \A st \in S : step[j][st] = turn(st, j)
  OBVIOUS
<1> HIDE DEF step, S, base, turn
<1>7. PICK f : Runs(f, L, S, base, step)
  BY <1>1, <1>4, <1>5, RecursionUpTo
<1>8. f = body(f)
  <2>1. \A j \in 1..L : j - 1 \in 0..L
    BY <1>1
  <2>2. \A j \in 1..L : f[j] = turn(f[j - 1], j)
    BY <1>6, <1>7, <2>1 DEF Runs
  <2>4. f[0] = base
    BY <1>7 DEF Runs
  <2>3. \A j \in 0..L : f[j] = IF j = 0 THEN base ELSE turn(f[j - 1], j)
    BY <1>1, <2>2, <2>4
  <2> QED
    BY <1>7, <2>3 DEF Runs
<1>9. w = body(w)
  <2> HIDE DEF body
  <2> QED
    BY <1>2, <1>8
<1>10. \A j \in 1..L : w[j] = turn(w[j - 1], j)
  BY <1>1, <1>9
<1>11. Runs(w, L, S, base, step)
  <2>1. w = [j \in 0..L |-> w[j]] /\ w[0] = base
    BY <1>1, <1>9
  <2>2. \A j \in 1..L : w[j - 1] \in S => w[j] = step[j][w[j - 1]]
    BY <1>6, <1>10
  <2> QED
    BY <1>1, <1>4, <1>5, <2>1, <2>2, RecursionOnly
<1>12. w \in [0..L -> S] /\ w[0] = base
  BY <1>11 DEF Runs
<1>13. v \in [0..L -> Nat] /\ v[0] = 0 /\ \A j \in 1..L : v[j] = v[j - 1] + b[j] * p[j - 1]
  <2>1. Len(b) <= 2 * Size
    BY <1>1 DEF L
  <2> QED
    BY <1>1, <2>1, PartsAre DEF L
<1>14. p \in [0..(2 * Size) -> Nat]
  BY BytePowers
<1>15. ASSUME NEW j \in 0..L, j < L
       PROVE  p[i + (j + 1) - 2] = q * p[j] /\ p[j] \in Nat /\ p[i + (j + 1) - 1] = p[i + j]
  <2>1. i - 1 \in Nat /\ j \in Nat /\ (i - 1) + j <= 2 * Size
    BY <1>1, <1>15
  <2>2. i + (j + 1) - 2 = (i - 1) + j /\ i + (j + 1) - 1 = i + j
    BY <1>1
  <2> QED
    BY <2>1, <2>2, BytesTogether
<1>16. q \in Nat /\ s \in Nat
  <2>1. i - 1 \in 0..(2 * Size)
    BY <1>1
  <2> QED
    BY <2>1, <1>14, ValueIs
<1> HIDE DEF p, v, c, q, s
<1>17. 0 \in T
  <2>1. p[i] \in Nat
    <3>1. i \in 0..(2 * Size)
      BY <1>1
    <3> QED
      BY <1>14, <3>1
  <2>2. w[0].r = sum /\ w[0].high_carry = 0 /\ i + 0 = i /\ 0 \in 0..L
    BY <1>1, <1>12 DEF base
  <2>3. (c * q) * 0 = 0 /\ 0 * p[i] = 0
    BY <1>1, <1>16, <2>1
  <2> QED
    BY <1>13, <1>16, <2>2, <2>3 DEF s
<1>18. ASSUME NEW j \in 0..L, j < L, j \in T PROVE j + 1 \in T
  <2> DEFINE o == j + 1
             st == w[j]
             x == Number!Value(st.r)
             k == st.high_carry
             y == v[j]
             z == p[j]
             d == b[o]
             t == p[i + j]
             new == Number!Value(w[o].r) + w[o].high_carry * p[i + o]
  <2>1. o \in 1..L /\ o \in 0..L /\ o - 1 = j /\ i + j \in 0..(2 * Size)
    <3>1. L \in Nat /\ Size \in Nat /\ i \in Nat /\ i + L <= 2 * Size /\ j \in 0..L /\ j < L
      BY <1>1, <1>18
    <3> QED
      BY <3>1
  <2>2. st \in S /\ k \in 0..1 /\ x \in Nat
    <3>1. st \in S
      BY <1>12
    <3>2. st.r \in Seq(Byte) /\ Len(st.r) = size /\ k \in 0..1
      BY <3>1 DEF S, Sums
    <3> QED
      BY <1>1, <3>1, <3>2, ValueIs
  <2>3. x + k * t = s + (c * q) * y
    BY <1>18
  <2>4. w[o] = turn(st, o)
    <3> HIDE DEF o
    <3>1. w[o] = turn(w[o - 1], o)
      BY <1>10, <2>1
    <3> QED
      BY <2>1, <3>1
  <2>5. new = x + (c * d) * p[i + o - 2] + k * p[i + o - 1]
    <3> HIDE DEF o, st
    <3> QED
      BY <1>3, <2>1, <2>2, <2>4
  <2>6. p[i + o - 2] = q * z /\ p[i + o - 1] = t /\ z \in Nat /\ t \in Nat
    BY <1>14, <1>15, <1>18, <2>1
  <2>7. new = x + (c * d) * (q * z) + k * t
    BY <2>5, <2>6
  <2>8. v[o] = y + d * z
    <3> HIDE DEF o
    <3>1. v[o] = v[o - 1] + b[o] * p[o - 1]
      BY <1>13, <2>1
    <3> QED
      BY <2>1, <3>1
  <2>9. y \in Nat /\ d \in Nat
    <3>1. y \in Nat
      BY <1>13
    <3> HIDE DEF o
    <3> QED
      BY <1>1, <2>1, <3>1
  <2>10. (c * q) * (y + d * z) = (c * q) * y + (c * d) * (q * z)
    <3> HIDE DEF y, z, d
    <3> QED
      BY <1>1, <1>16, <2>6, <2>9
  <2> DEFINE n1 == (c * q) * y
             n2 == (c * d) * (q * z)
             n3 == k * t
             n4 == (c * q) * v[o]
  <2>11. n1 \in Nat /\ n2 \in Nat /\ n3 \in Nat
    <3> HIDE DEF y, z, d, k, t
    <3> QED
      BY <1>1, <1>16, <2>2, <2>6, <2>9
  <2>12. n4 = n1 + n2 /\ x + n3 = s + n1 /\ new = x + n2 + n3
    BY <2>3, <2>7, <2>8, <2>10
  <2> HIDE DEF n1, n2, n3, n4, new, x
  <2>13. new = s + n4
    BY <1>16, <2>2, <2>11, <2>12
  <2> QED
    BY <2>1, <2>13 DEF new, n4, o
<1> HIDE DEF T
<1>19. \A j \in 0..L : j \in T
  BY <1>1, <1>17, <1>18, InductionUpTo
<1>20. \A j \in 0..L : w[j] \in S
  BY <1>12
<1> QED
  BY <1>19, <1>20 DEF T, S, p, q, v, c, s, L, w

(* bigMultiplyVariableSizeNoModulo multiplies.                             *)
THEOREM MultiplyIs ==
    ASSUME NEW a \in Seq(Byte), NEW b \in Seq(Byte), Len(a) + Len(b) <= 2 * Size
    PROVE  /\ Number!Multiply(a, b) \in Seq(Byte)
           /\ Len(Number!Multiply(a, b)) = Len(a) + Len(b)
           /\ Number!Value(Number!Multiply(a, b)) = Number!Value(a) * Number!Value(b)
<1> DEFINE L == Len(a)
           M == Len(b)
           size == L + M
           S == {s \in Seq(Byte) : Len(s) = size}
           base == Number!Zeros(size)
           turn(s, i) == Number!Row(s, a, b, i)[M].r
           body(h) == [i \in 0..L |-> IF i = 0 THEN base ELSE turn(h[i - 1], i)]
           w == Number!Rows(a, b)
           step == [i \in 1..L |-> [s \in S |-> turn(s, i)]]
           p == Number!Power
           u == Number!Parts(a)
           y == Number!Value(b)
           T == {i \in 0..L : Number!Value(w[i]) = u[i] * y}
<1>1. L \in Nat /\ M \in Nat /\ size \in Nat /\ size <= 2 * Size /\ Size \in Nat
      /\ L <= 2 * Size /\ M <= 2 * Size
      /\ a \in Seq(Nat) /\ b \in Seq(Nat) /\ \A i \in 1..L : a[i] \in Nat
  BY FieldIs, BytesIn
<1>2. w = CHOOSE h : h = body(h)
  BY DEF Number!Rows
<1>3. base \in S /\ Number!Value(base) = 0
  BY <1>1, ZerosAre
<1> HIDE DEF L, M, w, base
<1>4. ASSUME NEW i \in 1..L, NEW s \in S
      PROVE  /\ turn(s, i) \in S
             /\ \E k \in 0..1 : Number!Value(turn(s, i)) + k * p[i + M]
                                  = Number!Value(s) + (a[i] * p[i - 1]) * y
  <2> DEFINE row == Number!Row(s, a, b, i)
  <2>1. size \in Nat /\ size <= 2 * Size /\ s \in Seq(Byte) /\ Len(s) = size
        /\ i \in 1..Len(a) /\ i + Len(b) <= size
    BY <1>1 DEF L, M
  <2>2. M \in 0..Len(b)
    BY <1>1 DEF M
  <2>3. /\ row[M] \in Sums(size)
        /\ Number!Value(row[M].r) + row[M].high_carry * p[i + M]
             = Number!Value(s) + (a[i] * p[i - 1]) * Number!Parts(b)[M]
    <3> HIDE DEF size
    <3> QED
      BY <2>1, <2>2, RowIs
  <2>4. Number!Parts(b)[M] = y
    BY DEF Number!Value, M
  <2>5. row[M].r \in S /\ row[M].high_carry \in 0..1
    BY <2>3 DEF Sums
  <2> QED
    BY <2>3, <2>4, <2>5
<1>5. step \in [1..L -> [S -> S]]
  <2>1. \A i \in 1..L : \A s \in S : turn(s, i) \in S
    BY <1>4
  <2> HIDE DEF turn, S
  <2> QED
    BY <2>1
<1>6. \A i \in 1..L : \A s \in S : step[i][s] = turn(s, i)
  OBVIOUS
<1> HIDE DEF step, S, turn
<1>7. PICK f : Runs(f, L, S, base, step)
  BY <1>1, <1>3, <1>5, RecursionUpTo
<1>8. f = body(f)
  <2>1. \A i \in 1..L : i - 1 \in 0..L
    BY <1>1
  <2>2. \A i \in 1..L : f[i] = turn(f[i - 1], i)
    BY <1>6, <1>7, <2>1 DEF Runs
  <2>3. \A i \in 0..L : f[i] = IF i = 0 THEN base ELSE turn(f[i - 1], i)
    BY <1>1, <1>7, <2>2 DEF Runs
  <2> QED
    BY <1>7, <2>3 DEF Runs
<1>9. w = body(w)
  <2> HIDE DEF body
  <2> QED
    BY <1>2, <1>8
<1>10. \A i \in 1..L : w[i] = turn(w[i - 1], i)
  BY <1>1, <1>9
<1>11. Runs(w, L, S, base, step)
  <2>1. w = [i \in 0..L |-> w[i]] /\ w[0] = base
    BY <1>1, <1>9
  <2>2. \A i \in 1..L : w[i - 1] \in S => w[i] = step[i][w[i - 1]]
    BY <1>6, <1>10
  <2> QED
    BY <1>1, <1>3, <1>5, <2>1, <2>2, RecursionOnly
<1>12. w \in [0..L -> S] /\ w[0] = base
  BY <1>11 DEF Runs
<1>13. u \in [0..L -> Nat] /\ u[0] = 0 /\ (\A i \in 1..L : u[i] = u[i - 1] + a[i] * p[i - 1])
       /\ \A i \in 0..L : u[i] < p[i]
  <2>1. Len(a) <= 2 * Size
    BY <1>1 DEF L
  <2> QED
    BY <1>1, <2>1, PartsAre, PartsFit DEF L
<1>14. y \in Nat /\ y < p[M] /\ p[M] \in Nat
  <2>1. Len(b) <= 2 * Size /\ M \in 0..(2 * Size)
    BY <1>1 DEF M
  <2> QED
    BY <2>1, ValueIs, BytePowers DEF M
<1>15. ASSUME NEW i \in 0..L PROVE p[i + M] = p[i] * p[M] /\ p[i] \in Nat
  <2>1. i \in Nat /\ i + M <= 2 * Size
    BY <1>1
  <2> QED
    BY <1>1, <2>1, BytesTogether
<1>16. ASSUME NEW s \in S PROVE Number!Value(s) \in Nat
  <2>1. s \in Seq(Byte) /\ Len(s) <= 2 * Size
    BY <1>1 DEF S
  <2> QED
    BY <2>1, ValueIs
<1> HIDE DEF p, u, y
<1>17. 0 \in T
  BY <1>1, <1>3, <1>12, <1>13, <1>14
<1>18. ASSUME NEW i \in 0..L, i < L, i \in T PROVE i + 1 \in T
  <2> DEFINE o == i + 1
             x == u[i]
             c == a[o]
             q == p[i]
             new == Number!Value(w[o])
             l == p[o] * p[M]
  <2>1. o \in 1..L /\ o \in 0..L /\ o - 1 = i
    BY <1>1, <1>18
  <2>2. w[i] \in S /\ Number!Value(w[i]) = x * y /\ x \in Nat /\ q \in Nat
    BY <1>12, <1>13, <1>15, <1>18
  <2> HIDE DEF o
  <2>3. w[o] = turn(w[i], o) /\ w[o] \in S
    <3>1. w[o] = turn(w[o - 1], o)
      BY <1>10, <2>1
    <3> QED
      BY <1>12, <2>1, <3>1
  <2>4. PICK k \in 0..1 : new + k * p[o + M] = x * y + (c * q) * y
    <3>1. \E k \in 0..1 : Number!Value(turn(w[i], o)) + k * p[o + M]
                            = Number!Value(w[i]) + (c * p[o - 1]) * y
      BY <1>4, <2>1, <2>2
    <3> QED
      BY <2>1, <2>2, <2>3, <3>1
  <2>5. u[o] = x + c * q /\ u[o] \in Nat /\ u[o] < p[o] /\ p[o] \in Nat /\ c \in Nat
        /\ p[o + M] = l
    <3>1. u[o] = u[o - 1] + c * p[o - 1]
      BY <1>13, <2>1
    <3>2. u[o] \in Nat /\ u[o] < p[o] /\ p[o] \in Nat /\ c \in Nat /\ p[o + M] = l
      BY <1>1, <1>13, <1>15, <2>1
    <3> QED
      BY <2>1, <3>1, <3>2
  <2>6. x * y + (c * q) * y = (x + c * q) * y
    <3> HIDE DEF x, c, q
    <3> QED
      BY <1>14, <2>2, <2>5
  <2> DEFINE z == u[o] * y
  <2>7. z \in Nat /\ z < l /\ l \in Nat
    <3>1. z \in Nat /\ z < l
      BY <1>14, <2>5, ProductLess
    <3> HIDE DEF z
    <3>2. l \in Nat
      BY <1>14, <2>5
    <3> QED
      BY <3>1, <3>2
  <2>8. new + k * l = z
    BY <2>4, <2>5, <2>6
  <2>9. new \in Nat
    BY <1>16, <2>3
  <2> HIDE DEF new, l, z
  <2>10. (k = 0 => new = z) /\ (k = 1 => new + l = z) /\ k \in {0, 1}
    <3>1. z \in Int /\ new \in Int
      BY <2>7, <2>9
    <3> QED
      BY <2>7, <2>8, <3>1, CarryOrNot
  <2>11. new = z
    BY <2>7, <2>9, <2>10
  <2> QED
    BY <2>1, <2>11 DEF new, z, o
<1> HIDE DEF T
<1>19. L \in T
  <2>1. \A i \in 0..L : i \in T
    BY <1>1, <1>17, <1>18, InductionUpTo
  <2> QED
    BY <1>1, <2>1
<1>20. w[L] \in S /\ Number!Multiply(a, b) = w[L]
  BY <1>1, <1>12 DEF Number!Multiply, w, L
<1>21. u[L] = Number!Value(a)
  BY DEF Number!Value, u, L
<1> QED
  BY <1>19, <1>20, <1>21 DEF T, S, y, L, M

(* A byte more counts for twice as much at least.                          *)
LEMMA BytesDouble ==
    ASSUME NEW i \in Nat, NEW j \in Nat, i < j, j <= 2 * Size
    PROVE  2 * Number!Power[i] <= Number!Power[j]
<1> DEFINE R == Number!Radix
           p == Number!Power
           o == i + 1
           x == p[i]
           y == p[o]
           z == p[j]
<1>1. R \in Nat /\ R >= 2 /\ Size \in Nat
  BY FieldIs
<1>2. i \in 0..(2 * Size) /\ o \in 1..(2 * Size) /\ o \in 0..(2 * Size) /\ j \in 0..(2 * Size)
      /\ o - 1 = i /\ o \in Nat /\ o <= j
  BY <1>1
<1>3. x \in Nat /\ y \in Nat /\ z \in Nat
  <2> HIDE DEF o
  <2> QED
    BY <1>2, BytePowers
<1>4. y = R * x
  <2> HIDE DEF o
  <2>1. p[o] = R * p[o - 1]
    BY <1>2, BytePowers
  <2> QED
    BY <1>2, <2>1
<1>5. y <= z
  <2> HIDE DEF o
  <2> QED
    BY <1>2, BytesGrow
<1> HIDE DEF x, y, z, R
<1>6. x * 2 <= x * R
  BY <1>1, <1>3, Bigger
<1>7. x * 2 = 2 * x /\ x * R = R * x
  BY <1>1, <1>3
<1>8. 2 * x <= y
  <2> DEFINE xr == x * R
             rx == R * x
  <2>1. x * 2 <= xr /\ xr = rx /\ y = rx
    BY <1>4, <1>6, <1>7
  <2> HIDE DEF xr, rx
  <2> QED
    BY <1>3, <1>7, <2>1
<1>9. 2 * x <= z
  BY <1>3, <1>5, <1>8
<1> QED
  BY <1>9 DEF x, z

(* A number less than a byte counts for does not have it.                  *)
LEMMA BytesBelow ==
    ASSUME NEW a \in Seq(Byte), Len(a) <= 2 * Size, NEW m \in 0..Len(a),
           Number!Value(a) < Number!Power[m]
    PROVE  \A i \in (m + 1)..Len(a) : a[i] = 0
<1> SUFFICES ASSUME NEW i \in (m + 1)..Len(a), a[i] # 0 PROVE FALSE
  OBVIOUS
<1>1. a \in Seq(Nat) /\ Len(a) \in Nat /\ Size \in Nat /\ Number!Value(a) \in Nat
  BY BytesIn, FieldIs, ValueIs
<1>2. i \in 1..Len(a) /\ m \in Nat /\ i - 1 \in Nat /\ m <= i - 1 /\ i - 1 <= 2 * Size
      /\ m \in 0..(2 * Size) /\ i - 1 \in 0..(2 * Size)
  BY <1>1
<1>3. Number!Power[i - 1] <= Number!Value(a)
  BY <1>1, <1>2, PartsGrow
<1>4. Number!Power[m] <= Number!Power[i - 1]
  BY <1>2, BytesGrow
<1>5. Number!Power[m] \in Nat /\ Number!Power[i - 1] \in Nat
  BY <1>2, BytePowers
<1> DEFINE x == Number!Power[m]
           y == Number!Power[i - 1]
           z == Number!Value(a)
<1>6. x \in Nat /\ y \in Nat /\ z \in Nat /\ x <= y /\ y <= z /\ z < x
  BY <1>1, <1>3, <1>4, <1>5
<1> HIDE DEF x, y, z
<1> QED
  BY <1>6

(* The lower half of a product, and the bytes above it.                    *)
LEMMA HalvesAre ==
    ASSUME NEW full \in Seq(Byte), Len(full) = 2 * Size, NEW size \in Size..(2 * Size),
           Number!Value(full) < Number!Power[size]
    PROVE  LET lower == SubSeq(full, 1, Size)
               above == SubSeq(full, Size + 1, size)
           IN  /\ lower \in Seq(Byte) /\ Len(lower) = Size
               /\ \A i \in 1..Size : lower[i] = full[i]
               /\ above \in Seq(Byte) /\ Len(above) = size - Size
               /\ Number!Value(full) = Number!Value(lower) + Number!Limit * Number!Value(above)
<1> DEFINE lower == SubSeq(full, 1, Size)
           above == SubSeq(full, Size + 1, size)
           h == size - Size
           w == Number!Parts(full)
<1>1. Size \in Nat /\ size \in Nat /\ h \in Nat /\ Size + h = size /\ size <= 2 * Size
      /\ full \in Seq(Nat) /\ \A i \in 1..(2 * Size) : full[i] \in Byte
  BY FieldIs, BytesIn
<1>2. lower \in Seq(Byte) /\ Len(lower) = Size /\ \A i \in 1..Size : lower[i] = full[i]
  <2>1. \A i \in 1..Size : full[i] \in Byte
    BY <1>1
  <2>2. /\ lower \in Seq(Byte) /\ Len(lower) = IF 1 <= Size THEN Size - 1 + 1 ELSE 0
        /\ \A i \in 1..(Size - 1 + 1) : lower[i] = full[1 + i - 1]
    <3>1. 1 \in Int /\ Size \in Int
      BY <1>1
    <3> QED
      BY <2>1, <3>1, SubSeqProperties
  <2>3. Len(lower) = Size /\ 1..(Size - 1 + 1) = 1..Size
    BY <1>1, <2>2
  <2>4. \A i \in 1..Size : 1 + i - 1 = i
    BY <1>1
  <2> HIDE DEF lower
  <2> QED
    BY <2>2, <2>3, <2>4
<1>3. above \in Seq(Byte) /\ Len(above) = h /\ \A i \in 1..h : above[i] = full[Size + i]
  <2>1. \A i \in (Size + 1)..size : full[i] \in Byte
    BY <1>1
  <2>2. /\ above \in Seq(Byte)
        /\ Len(above) = IF Size + 1 <= size THEN size - (Size + 1) + 1 ELSE 0
        /\ \A i \in 1..(size - (Size + 1) + 1) : above[i] = full[Size + 1 + i - 1]
    <3>1. Size + 1 \in Int /\ size \in Int
      BY <1>1
    <3> QED
      BY <2>1, <3>1, SubSeqProperties
  <2>3. Len(above) = h /\ 1..(size - (Size + 1) + 1) = 1..h
    BY <1>1, <2>2
  <2>4. \A i \in 1..h : Size + 1 + i - 1 = Size + i
    BY <1>1
  <2> HIDE DEF above, h
  <2> QED
    BY <2>2, <2>3, <2>4
<1> HIDE DEF lower, above, h
<1>4. Number!Value(full) = w[size]
  <2>1. size \in 0..Len(full) /\ Len(full) <= 2 * Size
    BY <1>1
  <2>2. \A i \in (size + 1)..Len(full) : full[i] = 0
    BY <2>1, BytesBelow
  <2> QED
    BY <1>1, <2>1, <2>2, ZerosOnTop
<1>5. w[Size + h] = w[Size] + Number!Power[Size] * Number!Value(above)
  <2>1. above \in Seq(Nat) /\ Size + Len(above) <= Len(full) /\ Len(full) <= 2 * Size
        /\ \A i \in 1..Len(above) : above[i] = full[Size + i]
    BY <1>1, <1>3, BytesIn
  <2>2. w[Size + Len(above)] = w[Size] + Number!Power[Size] * Number!Value(above)
    BY <1>1, <2>1, PartsSplit
  <2> QED
    BY <1>3, <2>2
<1>6. w[Size] = Number!Value(lower)
  <2>1. lower \in Seq(Nat) /\ Size <= Len(full) /\ Size <= Len(lower) /\ Len(full) <= 2 * Size
        /\ Len(lower) <= 2 * Size /\ \A i \in 1..Size : full[i] = lower[i]
    BY <1>1, <1>2, BytesIn
  <2>2. w[Size] = Number!Parts(lower)[Size]
    BY <1>1, <2>1, PartsSame
  <2> QED
    BY <1>2, <2>2 DEF Number!Value
<1> QED
  BY <1>1, <1>2, <1>3, <1>4, <1>5, <1>6 DEF lower, above, h, Number!Limit

(* A turn of the reduction takes a multiple of the prime away, and leaves  *)
(* a byte less at least, or less than twice the prime.                     *)
LEMMA TurnIs ==
    ASSUME NEW full \in Seq(Byte), Len(full) = 2 * Size, NEW size \in (Size + 1)..(2 * Size),
           Number!Value(full) < Number!Power[size]
    PROVE  /\ Number!Turn(full, size) \in Seq(Byte) /\ Len(Number!Turn(full, size)) = 2 * Size
           /\ Number!Value(Number!Turn(full, size)) % Modulus = Number!Value(full) % Modulus
           /\ Number!Remains(size) \in Nat /\ Number!Remains(size) < size
           /\ Number!Remains(size) > Size =>
                 Number!Value(Number!Turn(full, size)) < Number!Power[Number!Remains(size)]
           /\ Number!Remains(size) <= Size =>
                 Number!Value(Number!Turn(full, size)) < 2 * Modulus
<1> DEFINE lower == SubSeq(full, 1, Size)
           above == SubSeq(full, Size + 1, size)
           product == Number!Multiply(Number!complement_n, above)
           multiple == Number!Widened(product, size)
           first == Number!Widened(lower, size)
           sum == Number!Add(first, multiple)
           new == Number!Turn(full, size)
           o == Number!Remains(size)
           h == size - Size
           p == Number!Power
           x == Number!Value(full)
           s == Number!Value(lower)
           y == Number!Value(above)
           z == Number!Value(new)
           l == Number!Limit
           e == Number!Complement
           t == e * y
           q == p[ComplementSize]
           u == p[o]
           v == p[size]
<1>1. /\ Size \in Nat /\ size \in Nat /\ size > Size /\ size <= 2 * Size /\ size \in Size..(2 * Size)
      /\ ComplementSize \in Nat /\ ComplementSize < Size /\ h \in Nat /\ h <= Size
      /\ Modulus \in Nat /\ Modulus >= 2 /\ Modulus > 0
      /\ l \in Nat /\ l = p[Size]
  BY FieldIs, BytePowers
<1>2. /\ e \in Nat /\ l = Modulus + e /\ 2 * e <= q /\ q \in Nat
      /\ Number!complement_n \in Seq(Byte) /\ Len(Number!complement_n) = ComplementSize
      /\ Number!Value(Number!complement_n) = e
  BY ComplementIs
<1>3. o = ComplementSize + h /\ o \in Nat /\ o < size /\ o <= 2 * Size
  BY <1>1 DEF Number!Remains
<1>4. lower \in Seq(Byte) /\ Len(lower) = Size /\ above \in Seq(Byte) /\ Len(above) = h
      /\ x = s + l * y
  BY <1>1, HalvesAre
<1> HIDE DEF h, lower, above
<1>5. product \in Seq(Byte) /\ Len(product) = o /\ Number!Value(product) = t
  <2>1. Len(Number!complement_n) + Len(above) = o
    BY <1>2, <1>3, <1>4
  <2> HIDE DEF o
  <2> QED
    BY <1>2, <1>3, <1>4, <2>1, MultiplyIs
<1> HIDE DEF product
<1>6. multiple \in Seq(Byte) /\ Len(multiple) = size /\ Number!Value(multiple) = t
  <2> HIDE DEF o, t
  <2>1. Len(product) <= size
    BY <1>1, <1>3, <1>5
  <2> QED
    BY <1>1, <1>5, <2>1, WidenedIs
<1>7. first \in Seq(Byte) /\ Len(first) = size /\ Number!Value(first) = s
  <2>1. Len(lower) <= size
    BY <1>1, <1>4
  <2> QED
    BY <1>1, <1>4, <2>1, WidenedIs
<1> HIDE DEF multiple, first
<1>8. sum.r \in Seq(Byte) /\ Len(sum.r) = size /\ sum.carry \in 0..1
      /\ Number!Value(sum.r) + sum.carry * v = s + t
  <2> HIDE DEF t, s
  <2>1. Len(multiple) = Len(first) /\ Len(first) <= 2 * Size
    BY <1>1, <1>6, <1>7
  <2>2. sum.r \in Seq(Byte) /\ Len(sum.r) = Len(first) /\ sum.carry \in 0..1
        /\ Number!Value(sum.r) + sum.carry * p[Len(first)]
             = Number!Value(first) + Number!Value(multiple)
    BY <1>6, <1>7, <2>1, AddIs
  <2> QED
    BY <1>6, <1>7, <2>2
<1>9. new = Number!Widened(sum.r, 2 * Size)
  BY DEF Number!Turn, sum, multiple, first, product, above, lower
<1> HIDE DEF sum
<1>10. new \in Seq(Byte) /\ Len(new) = 2 * Size /\ z = Number!Value(sum.r)
  <2>1. 2 * Size \in Nat /\ 2 * Size <= 2 * Size /\ Len(sum.r) <= 2 * Size
    BY <1>1, <1>8
  <2> HIDE DEF new
  <2> QED
    BY <1>8, <1>9, <2>1, WidenedIs
<1>11. x \in Nat /\ s \in Nat /\ s < l /\ y \in Nat /\ y < p[h] /\ z \in Nat
  <2>1. Len(full) <= 2 * Size /\ Len(lower) <= 2 * Size /\ Len(above) <= 2 * Size
        /\ Len(new) <= 2 * Size
    BY <1>1, <1>4, <1>10
  <2> HIDE DEF new
  <2> QED
    BY <1>1, <1>4, <1>10, <2>1, ValueIs
<1>12. u = q * p[h] /\ u \in Nat /\ p[h] \in Nat /\ q > 0
  <2>1. h \in Nat /\ ComplementSize + h <= 2 * Size /\ ComplementSize \in Nat
    BY <1>1, <1>3 DEF h
  <2>2. p[ComplementSize + h] \in Nat /\ q > 0 /\ p[h] \in Nat
        /\ p[ComplementSize + h] = q * p[h]
    <3>1. ComplementSize + h \in 0..(2 * Size)
      BY <2>1, BytesTogether
    <3> QED
      BY <2>1, <3>1, BytesTogether, BytePowers
  <2> HIDE DEF o
  <2> QED
    BY <1>3, <2>2
<1>13. 2 * u <= v /\ v \in Nat
  <2> HIDE DEF o
  <2>1. size \in 0..(2 * Size)
    BY <1>1
  <2> QED
    BY <1>1, <1>3, <2>1, BytesDouble, BytePowers
<1>14. 2 * q <= l
  <2>1. Size <= 2 * Size
    BY <1>1
  <2> QED
    BY <1>1, <2>1, BytesDouble
<1>15. l <= v /\ (o > Size => 2 * l <= u) /\ (o <= Size => u <= l) /\ 2 * l <= v
  <2> HIDE DEF o
  <2>1. Size <= 2 * Size /\ Size <= size
    BY <1>1
  <2> QED
    BY <1>1, <1>3, <2>1, BytesDouble, BytesGrow
<1> HIDE DEF p, new, x, s, y, z, l, e, q, o
<1>16. t \in Nat /\ 2 * t < u
  <2> DEFINE g == 2 * e
             b == p[h]
  <2>1. g \in Nat /\ g <= q /\ b \in Nat /\ y < b
    BY <1>2, <1>11, <1>12
  <2> HIDE DEF g, b
  <2>2. y * g <= y * q
    BY <1>2, <1>11, <2>1, Bigger
  <2>3. q * (y + 1) <= q * b
    BY <1>2, <1>11, <2>1, Bigger
  <2>4. y * g = 2 * t /\ t \in Nat
    BY <1>2, <1>11 DEF g
  <2>5. q * (y + 1) = y * q + q /\ y * q \in Nat /\ q * b = u
    BY <1>2, <1>11, <1>12 DEF b
  <2> DEFINE n1 == y * g
             n2 == y * q
             n3 == q * (y + 1)
             n4 == q * b
  <2>6. n1 <= n2 /\ n3 <= n4 /\ n1 = 2 * t /\ n3 = n2 + q /\ n4 = u /\ n2 \in Nat /\ t \in Nat
    BY <2>2, <2>3, <2>4, <2>5
  <2> HIDE DEF n1, n2, n3, n4, t, u
  <2> QED
    BY <1>2, <1>12, <2>6
<1> HIDE DEF u, v
<1> DEFINE m == t
<1>17. m \in Nat /\ 2 * m < u /\ Number!Value(sum.r) + sum.carry * v = s + m /\ m = e * y
  BY <1>8, <1>16
<1> HIDE DEF m, t
<1>22. /\ s \in Nat /\ m \in Nat /\ z \in Nat /\ l \in Nat /\ u \in Nat /\ v \in Nat /\ s < l
       /\ 2 * m < u /\ 2 * u <= v /\ 2 * l <= v
  BY <1>1, <1>11, <1>12, <1>13, <1>15, <1>17
<1>18. z = s + m
  <2> DEFINE k == sum.carry
  <2>1. k \in 0..1 /\ z + k * v = s + m /\ s + m \in Int
    BY <1>8, <1>10, <1>11, <1>17
  <2> HIDE DEF k
  <2>2. k \in {0, 1} /\ (k = 0 => z = s + m) /\ (k = 1 => z + v = s + m)
    BY <1>11, <1>13, <2>1, CarryOrNot
  <2>3. s + m < v
    BY <1>22
  <2> QED
    BY <1>22, <2>2, <2>3
<1>19. z % Modulus = x % Modulus
  <2>1. l * y = e * y + Modulus * y
    <3>1. (Modulus + e) * y = e * y + Modulus * y
      BY <1>1, <1>2, <1>11
    <3> QED
      BY <1>2, <3>1
  <2> DEFINE n1 == l * y
             n2 == Modulus * y
  <2>2. n1 = m + n2 /\ x = s + n1
    BY <1>4, <1>17, <2>1 DEF l, s, y, x
  <2>3. n2 \in Nat
    BY <1>1, <1>11
  <2> HIDE DEF n1, n2
  <2>4. x = z + n2
    BY <1>11, <1>17, <1>18, <2>2, <2>3
  <2>5. (z + Modulus * y) % Modulus = z % Modulus
    <3>1. Modulus \in Nat /\ Modulus > 0 /\ z \in Int /\ y \in Int
      BY <1>1, <1>11
    <3> QED
      BY <3>1, Congruent, Zenon
  <2> QED
    BY <2>4, <2>5 DEF n2
<1>20. o > Size => z < u
  <2> SUFFICES ASSUME 2 * l <= u PROVE z < u
    BY <1>15
  <2> QED
    BY <1>18, <1>22
<1>21. o <= Size => z < 2 * Modulus
  BY <1>1, <1>2, <1>11, <1>12, <1>14, <1>15, <1>17, <1>18
<1> QED
  BY <1>3, <1>10, <1>19, <1>20, <1>21 DEF new, z, x, o, u, p

(* The numbers of Size bytes, and of twice as many.                        *)
FieldNumbers == {a \in Seq(Byte) : Len(a) = Size}
Products == {a \in Seq(Byte) : Len(a) = 2 * Size}

(* The end of a reduction: one more subtraction, on the lowest bytes.  If  *)
(* there is a bit above them it is worth the complement less.              *)
LEMMA EndIs ==
    ASSUME NEW full \in Products, Number!Value(full) < 2 * Modulus
    PROVE  /\ Number!Modulo(Number!Low(full)) \in FieldNumbers
           /\ Number!Value(Number!Modulo(Number!Low(full)))
                = (Number!Value(full) % Modulus)
                  - (IF full # Number!Widened(Number!Low(full), 2 * Size)
                     THEN Number!Complement ELSE 0)
           /\ (\A i \in (Size + 1)..(2 * Size) : full[i] = 0)
                 => full = Number!Widened(Number!Low(full), 2 * Size)
<1> DEFINE lower == Number!Low(full)
           above == SubSeq(full, Size + 1, 2 * Size)
           same == Number!Widened(lower, 2 * Size)
           end == Number!Modulo(lower)
           x == Number!Value(full)
           s == Number!Value(lower)
           y == Number!Value(above)
           z == Number!Value(end)
           l == Number!Limit
           e == Number!Complement
           p == Number!Power
<1>1. Size \in Nat /\ 2 * Size \in Nat /\ Size <= 2 * Size /\ full \in Seq(Byte)
      /\ Len(full) = 2 * Size /\ Modulus \in Nat /\ Modulus >= 2 /\ Modulus > 0
      /\ l \in Nat /\ Modulus < l /\ l < 2 * Modulus /\ l = Modulus + e /\ e \in Nat
      /\ l = p[Size] /\ full \in Seq(Nat)
  <2>1. full \in Seq(Byte) /\ Len(full) = 2 * Size
    BY DEF Products
  <2>2. full \in Seq(Nat) /\ l = p[Size]
    BY <2>1, BytesIn, BytePowers
  <2>3. Size \in Nat /\ Modulus \in Nat /\ Modulus >= 2 /\ l \in Nat /\ Modulus < l
    BY FieldIs
  <2>4. l < 2 * Modulus /\ l = Modulus + e /\ e \in Nat
    BY ComplementIs
  <2> HIDE DEF l, e
  <2>5. Modulus > 0 /\ 2 * Size \in Nat /\ Size <= 2 * Size
    BY <2>3
  <2> QED
    BY <2>1, <2>2, <2>3, <2>4, <2>5
<1>2. lower \in Seq(Byte) /\ Len(lower) = Size /\ (\A i \in 1..Size : lower[i] = full[i])
      /\ above \in Seq(Byte) /\ Len(above) = 2 * Size - Size /\ x = s + l * y
  <2>1. 2 * Size \in Size..(2 * Size) /\ Len(full) <= 2 * Size
    BY <1>1
  <2>2. x < p[2 * Size]
    BY <1>1, <2>1, ValueIs
  <2> QED
    BY <1>1, <2>1, <2>2, HalvesAre DEF Number!Low
<1> HIDE DEF lower, above
<1>3. x \in Nat /\ s \in Nat /\ s < l /\ y \in Nat
  <2>1. Len(full) <= 2 * Size /\ Len(lower) <= 2 * Size /\ Len(above) <= 2 * Size
    BY <1>1, <1>2
  <2> QED
    BY <1>1, <1>2, <2>1, ValueIs
<1>4. end \in FieldNumbers /\ z = s % Modulus
  BY <1>2, ModuloIs DEF FieldNumbers
<1>5. same \in Seq(Byte) /\ Len(same) = 2 * Size
      /\ (\A i \in 1..(2 * Size) : same[i] = IF i <= Size THEN lower[i] ELSE 0)
      /\ Number!Value(same) = s
  <2>1. Len(lower) <= 2 * Size /\ 2 * Size <= 2 * Size
    BY <1>1, <1>2
  <2>2. same \in Seq(Byte) /\ Len(same) = 2 * Size
        /\ (\A i \in 1..(2 * Size) : same[i] = IF i <= Len(lower) THEN lower[i] ELSE 0)
        /\ Number!Value(same) = s
    BY <1>1, <1>2, <2>1, WidenedIs
  <2> QED
    BY <1>2, <2>2
<1> HIDE DEF same
<1>6. ASSUME full # same PROVE \E i \in (Size + 1)..(2 * Size) : full[i] # 0
  <2>1. PICK i \in 1..(2 * Size) : full[i] # same[i]
    BY <1>1, <1>5, <1>6, SeqEqual
  <2>2. ~(i <= Size)
    BY <1>1, <1>2, <1>5, <2>1
  <2>3. same[i] = 0 /\ i \in (Size + 1)..(2 * Size)
    BY <1>1, <1>5, <2>1, <2>2
  <2> QED
    BY <2>1, <2>3
<1>7. x % Modulus = IF x < Modulus THEN x ELSE x - Modulus
  <2>1. x \in 0..(2 * Modulus - 1)
    BY <1>1, <1>3
  <2> HIDE DEF x
  <2> QED
    BY <1>1, <2>1, OneCarry
<1>8. CASE full = same
  <2>1. x = s
    BY <1>5, <1>8
  <2> DEFINE v == x % Modulus
  <2>2. v \in Int
    BY <1>1, <1>3, Division
  <2>3. z = v
    BY <1>4, <2>1
  <2> HIDE DEF v, z
  <2>4. z = v - 0
    BY <2>2, <2>3
  <2> QED
    BY <1>4, <1>8, <2>4 DEF same, lower, v, z
<1>9. CASE full # same
  <2>1. PICK i \in (Size + 1)..(2 * Size) : full[i] # 0
    BY <1>6, <1>9
  <2>2. l <= x
    <3>1. i \in 1..Len(full) /\ i - 1 \in Nat /\ Size <= i - 1 /\ i - 1 <= 2 * Size
          /\ Len(full) <= 2 * Size /\ i - 1 \in 0..(2 * Size)
      BY <1>1
    <3>2. p[i - 1] <= x
      BY <1>1, <2>1, <3>1, PartsGrow
    <3>3. p[Size] <= p[i - 1] /\ p[i - 1] \in Nat
      BY <1>1, <3>1, BytesGrow, BytePowers
    <3> DEFINE u == p[i - 1]
    <3> HIDE DEF u, x, l
    <3>4. l <= u /\ u <= x /\ u \in Nat
      BY <1>1, <3>2, <3>3 DEF u
    <3> QED
      BY <1>1, <1>3, <3>4
  <2> HIDE DEF x, s, y, l, e
  <2>3. y # 0
    <3> SUFFICES ASSUME y = 0 PROVE FALSE
      OBVIOUS
    <3>1. l * 0 = 0
      BY <1>1
    <3> QED
      BY <1>1, <1>2, <1>3, <2>2, <3>1
  <2>4. y < 2
    <3> SUFFICES ASSUME 2 <= y PROVE FALSE
      BY <1>3
    <3>1. l * 2 <= l * y
      <4>1. l \in Nat /\ y \in Nat /\ 2 \in Nat
        BY <1>1, <1>3
      <4> QED
        BY <4>1, Bigger
    <3> DEFINE t == l * y
    <3>2. l * 2 <= t /\ x = s + t /\ t \in Nat
      BY <1>1, <1>2, <1>3, <3>1
    <3> HIDE DEF t
    <3> QED
      BY <1>1, <1>3, <3>2 DEF x
  <2>5. y = 1
    BY <1>3, <2>3, <2>4
  <2>6. x = s + l * 1
    BY <1>2, <2>5
  <2>7. s = x - l /\ x < 2 * Modulus
    BY <1>1, <1>3, <2>6 DEF x
  <2>8. s \in 0..(Modulus - 1)
    BY <1>1, <1>3, <2>7
  <2>9. s % Modulus = s
    BY <1>1, <2>8, SmallModulo
  <2>10. ~(x < Modulus) /\ x - Modulus \in Int /\ s = (x - Modulus) - e
    BY <1>1, <1>3, <2>2, <2>7
  <2>11. z = (x % Modulus) - e
    BY <1>4, <1>7, <2>9, <2>10 DEF x
  <2>12. ~(\A o \in (Size + 1)..(2 * Size) : full[o] = 0)
    BY <2>1
  <2> QED
    BY <1>4, <1>9, <2>11, <2>12 DEF same, lower, x, e
<1> QED
  BY <1>8, <1>9

(* Where a reduction of x may be: what is left has the residue of x, and   *)
(* fits in the bytes that remain or is less than twice the prime.          *)
Reductions(x) ==
    {st \in [full : Products, remaining : 0..(2 * Size)] :
        /\ Number!Value(st.full) % Modulus = x % Modulus
        /\ st.remaining > Size => Number!Value(st.full) < Number!Power[st.remaining]
        /\ st.remaining <= Size => Number!Value(st.full) < 2 * Modulus}

(* A turn of the loop.                                                     *)
LEMMA NextTurnIs ==
    ASSUME NEW x \in Int, NEW st \in Reductions(x)
    PROVE  /\ Number!NextTurn(st) \in Reductions(x)
           /\ st.remaining > Size => Number!NextTurn(st).remaining < st.remaining
           /\ st.remaining <= Size => Number!NextTurn(st) = st
<1> DEFINE f == st.full
           m == st.remaining
           new == Number!Turn(f, m)
           o == Number!Remains(m)
<1>1. Size \in Nat /\ f \in Seq(Byte) /\ Len(f) = 2 * Size /\ m \in 0..(2 * Size)
      /\ Number!Value(f) % Modulus = x % Modulus
      /\ (m > Size => Number!Value(f) < Number!Power[m])
  BY FieldIs DEF Reductions, Products
<1>2. CASE m <= Size
  <2>1. Number!NextTurn(st) = st /\ ~(m > Size)
    BY <1>1, <1>2 DEF Number!NextTurn
  <2> QED
    BY <2>1
<1>3. CASE m > Size
  <2>1. m \in (Size + 1)..(2 * Size) /\ ~(m <= Size)
    BY <1>1, <1>3
  <2>2. Number!NextTurn(st) = [full |-> new, remaining |-> o]
    BY <2>1 DEF Number!NextTurn
  <2>3. /\ new \in Seq(Byte) /\ Len(new) = 2 * Size
        /\ Number!Value(new) % Modulus = Number!Value(f) % Modulus
        /\ o \in Nat /\ o < m
        /\ o > Size => Number!Value(new) < Number!Power[o]
        /\ o <= Size => Number!Value(new) < 2 * Modulus
    <3> HIDE DEF f, m
    <3> QED
      BY <1>1, <1>3, <2>1, TurnIs
  <2> HIDE DEF new, o, f, m
  <2>4. o \in 0..(2 * Size) /\ new \in Products
    BY <1>1, <2>3 DEF Products
  <2>5. [full |-> new, remaining |-> o] \in Reductions(x)
    BY <1>1, <2>3, <2>4 DEF Reductions
  <2> QED
    BY <1>3, <2>1, <2>2, <2>3, <2>5 DEF m
<1> QED
  BY <1>1, <1>2, <1>3

(* As many turns as a number has bytes are enough.                         *)
LEMMA ReduceIs ==
    ASSUME NEW full \in Products
    PROVE  /\ Number!Reduce(full) \in Products
           /\ Number!Value(Number!Reduce(full)) % Modulus = Number!Value(full) % Modulus
           /\ Number!Value(Number!Reduce(full)) < 2 * Modulus
<1> DEFINE x == Number!Value(full)
           S == Reductions(x)
           base == [full |-> full, remaining |-> Len(full)]
           turn(st) == Number!NextTurn(st)
           body(h) == [t \in 0..Size |-> IF t = 0 THEN base ELSE turn(h[t - 1])]
           w == Number!Turns(full)
           step == [t \in 1..Size |-> [st \in S |-> turn(st)]]
           T == {t \in 0..Size : w[t].remaining <= Size \/ w[t].remaining + t <= 2 * Size}
<1>1. Size \in Nat /\ full \in Seq(Byte) /\ Len(full) = 2 * Size /\ Len(full) <= 2 * Size
      /\ 2 * Size > Size /\ 2 * Size \in 0..(2 * Size)
  BY FieldIs DEF Products
<1>2. w = CHOOSE h : h = body(h)
  BY DEF Number!Turns
<1>3. x \in Nat /\ x < Number!Power[2 * Size]
  BY <1>1, ValueIs
<1> HIDE DEF x, w
<1>4. base \in S
  BY <1>1, <1>3 DEF Reductions, x
<1>5. ASSUME NEW st \in S
      PROVE  /\ turn(st) \in S /\ (st.remaining > Size => turn(st).remaining < st.remaining)
             /\ (st.remaining <= Size => turn(st) = st)
  BY <1>3, NextTurnIs
<1> HIDE DEF S, base, turn
<1>6. step \in [1..Size -> [S -> S]]
  BY <1>5
<1>7. \A t \in 1..Size : \A st \in S : step[t][st] = turn(st)
  OBVIOUS
<1> HIDE DEF step
<1>8. PICK f : Runs(f, Size, S, base, step)
  BY <1>1, <1>4, <1>6, RecursionUpTo
<1>9. f = body(f)
  <2>1. \A t \in 1..Size : t - 1 \in 0..Size
    BY <1>1
  <2>2. \A t \in 1..Size : f[t] = turn(f[t - 1])
    BY <1>7, <1>8, <2>1 DEF Runs
  <2>3. f[0] = base
    BY <1>8 DEF Runs
  <2>4. \A t \in 0..Size : f[t] = IF t = 0 THEN base ELSE turn(f[t - 1])
    BY <1>1, <2>2, <2>3
  <2> QED
    BY <1>8, <2>4 DEF Runs
<1>10. w = body(w)
  <2> HIDE DEF body
  <2> QED
    BY <1>2, <1>9
<1>11. \A t \in 1..Size : w[t] = turn(w[t - 1])
  BY <1>1, <1>10
<1>12. Runs(w, Size, S, base, step)
  <2>1. w = [t \in 0..Size |-> w[t]] /\ w[0] = base
    BY <1>1, <1>10
  <2>2. \A t \in 1..Size : w[t - 1] \in S => w[t] = step[t][w[t - 1]]
    BY <1>7, <1>11
  <2> QED
    BY <1>1, <1>4, <1>6, <2>1, <2>2, RecursionOnly
<1>13. w \in [0..Size -> S] /\ w[0] = base
  BY <1>12 DEF Runs
<1>14. \A st \in S : st.remaining \in 0..(2 * Size)
  BY DEF S, Reductions
<1>15. 0 \in T
  <2>1. w[0].remaining = 2 * Size
    BY <1>1, <1>13 DEF base
  <2> QED
    BY <1>1, <2>1
<1>16. ASSUME NEW t \in 0..Size, t < Size, t \in T PROVE t + 1 \in T
  <2> DEFINE o == t + 1
             st == w[t]
             m == st.remaining
             k == w[o].remaining
  <2>1. o \in 1..Size /\ o \in 0..Size /\ o - 1 = t
    BY <1>1, <1>16
  <2>2. m <= Size \/ m + t <= 2 * Size
    BY <1>16
  <2>3. st \in S /\ w[o] \in S
    <3> HIDE DEF o
    <3> QED
      BY <1>13, <2>1
  <2>4. w[o] = turn(st)
    <3> HIDE DEF o
    <3>1. w[o] = turn(w[o - 1])
      BY <1>11, <2>1
    <3> QED
      BY <2>1, <3>1
  <2>5. m \in 0..(2 * Size) /\ k \in 0..(2 * Size)
    BY <1>14, <2>3
  <2>6. (m > Size => k < m) /\ (m <= Size => k = m)
    <3> HIDE DEF o
    <3> QED
      BY <1>5, <2>3, <2>4
  <2> HIDE DEF m, k
  <2>7. k <= Size \/ k + o <= 2 * Size
    BY <1>1, <2>2, <2>5, <2>6
  <2> HIDE DEF o
  <2> QED
    BY <2>1, <2>7 DEF k
<1> HIDE DEF T
<1>17. Size \in T
  <2>1. \A t \in 0..Size : t \in T
    BY <1>1, <1>15, <1>16, InductionUpTo
  <2> QED
    BY <1>1, <2>1
<1>18. w[Size] \in S /\ w[Size].remaining <= Size
  <2>1. Size \in 0..Size
    BY <1>1
  <2>2. w[Size] \in S
    BY <1>13, <2>1
  <2>3. w[Size].remaining \in 0..(2 * Size)
    BY <1>14, <2>2
  <2>4. w[Size].remaining <= Size \/ w[Size].remaining + Size <= 2 * Size
    BY <1>17 DEF T
  <2> DEFINE k == w[Size].remaining
  <2> HIDE DEF k
  <2>5. k <= Size
    BY <1>1, <2>3, <2>4 DEF k
  <2> QED
    BY <2>2, <2>5 DEF k
<1>19. Number!Reduce(full) = w[Size].full
  BY DEF Number!Reduce, w
<1> QED
  BY <1>18, <1>19 DEF S, Reductions, x

(* bigMultiply: the product, in the field unless a bit is dropped.         *)
LEMMA MultiplyModuloIs ==
    ASSUME NEW a \in FieldNumbers, NEW b \in FieldNumbers
    PROVE  /\ Number!MultiplyModulo(a, b) \in FieldNumbers
           /\ ~Number!Carried(a, b) =>
                 Number!Value(Number!MultiplyModulo(a, b))
                   = (Number!Value(a) * Number!Value(b)) % Modulus
<1> DEFINE product == Number!Multiply(a, b)
           full == Number!Reduce(product)
<1>1. product \in Products /\ Number!Value(product) = Number!Value(a) * Number!Value(b)
  <2>1. a \in Seq(Byte) /\ b \in Seq(Byte) /\ Len(a) = Size /\ Len(b) = Size /\ Size \in Nat
    BY FieldIs DEF FieldNumbers
  <2>2. Len(a) + Len(b) = 2 * Size /\ Len(a) + Len(b) <= 2 * Size
    BY <2>1
  <2> QED
    BY <2>1, <2>2, MultiplyIs DEF Products
<1>2. Number!MultiplyModulo(a, b) = Number!Modulo(Number!Low(full))
  BY DEF Number!MultiplyModulo
<1>3. ~Number!Carried(a, b) => \A i \in (Size + 1)..(2 * Size) : full[i] = 0
  BY DEF Number!Carried
<1> HIDE DEF product
<1>4. full \in Products /\ Number!Value(full) < 2 * Modulus
      /\ Number!Value(full) % Modulus = Number!Value(product) % Modulus
  BY <1>1, ReduceIs
<1> HIDE DEF full
<1>5. /\ Number!Modulo(Number!Low(full)) \in FieldNumbers
      /\ Number!Value(Number!Modulo(Number!Low(full)))
           = (Number!Value(full) % Modulus)
             - (IF full # Number!Widened(Number!Low(full), 2 * Size)
                THEN Number!Complement ELSE 0)
      /\ (\A i \in (Size + 1)..(2 * Size) : full[i] = 0)
            => full = Number!Widened(Number!Low(full), 2 * Size)
  BY <1>4, EndIs
<1>6. ASSUME ~Number!Carried(a, b)
      PROVE  Number!Value(Number!MultiplyModulo(a, b))
               = (Number!Value(a) * Number!Value(b)) % Modulus
  <2> DEFINE v == Number!Value(full) % Modulus
  <2>1. Number!Value(Number!MultiplyModulo(a, b)) = v - 0
    BY <1>2, <1>3, <1>5, <1>6
  <2>2. v \in Int
    <3>1. full \in Seq(Byte) /\ Len(full) <= 2 * Size /\ Modulus \in Nat /\ Modulus > 0
      BY <1>4, FieldIs DEF Products
    <3>2. Number!Value(full) \in Int
      BY <3>1, ValueIs
    <3> QED
      BY <3>1, <3>2, Division
  <2> HIDE DEF v
  <2>3. Number!Value(Number!MultiplyModulo(a, b)) = v
    BY <2>1, <2>2
  <2> QED
    BY <1>1, <1>4, <2>3 DEF v
<1> QED
  BY <1>2, <1>5, <1>6

(* A byte counts for as much as its lowest bit.                            *)
LEMMA ByteShifts ==
    \A i \in 0..(2 * Size) : /\ ByteBits * i \in Nat
                             /\ Number!Power[i] = Shifted(ByteBits * i)
<1> DEFINE p == Number!Power
           R == Number!Radix
           K == 2 * Size
           T == {i \in 0..K : ByteBits * i \in Nat /\ p[i] = Shifted(ByteBits * i)}
<1>1. Size \in Nat /\ K \in Nat /\ ByteBits \in Nat /\ R \in Nat
  BY FieldIs, CallsAssumption DEF Number!FieldFits
<1>2. R = Shifted(ByteBits)
  BY DEF Number!Radix, Number!Shifted, Shifted
<1>3. p \in [0..K -> Nat] /\ p[0] = 1 /\ \A i \in 1..K : p[i] = R * p[i - 1]
  BY BytePowers
<1> HIDE DEF p, R, K
<1>4. 0 \in T
  <2>1. ByteBits * 0 = 0
    BY <1>1
  <2> QED
    BY <1>1, <1>3, <2>1, ShiftDoubles
<1>5. ASSUME NEW i \in 0..K, i < K, i \in T PROVE i + 1 \in T
  <2> DEFINE o == i + 1
             m == ByteBits * i
             x == Shifted(m)
             y == Shifted(ByteBits)
  <2>1. o \in 1..K /\ o \in 0..K /\ o - 1 = i /\ i \in Nat /\ m \in Nat /\ p[i] = x
    BY <1>1, <1>5
  <2>2. ByteBits * o = m + ByteBits
    BY <1>1, <2>1
  <2>3. p[o] = R * p[i]
    <3> HIDE DEF o
    <3>1. p[o] = R * p[o - 1]
      BY <1>3, <2>1
    <3> QED
      BY <2>1, <3>1
  <2> HIDE DEF m, o
  <2>4. Shifted(m + ByteBits) = x * y /\ x \in Nat /\ y \in Nat
    BY <1>1, <2>1, ShiftsAdd, ShiftDoubles
  <2> HIDE DEF x, y
  <2>5. R * x = x * y
    BY <1>1, <1>2, <2>4 DEF y
  <2>6. p[o] = Shifted(ByteBits * o) /\ ByteBits * o \in Nat
    BY <1>1, <2>1, <2>2, <2>3, <2>4, <2>5
  <2> QED
    BY <2>1, <2>6 DEF o
<1> HIDE DEF T
<1>6. \A i \in 0..K : i \in T
  BY <1>1, <1>4, <1>5, InductionUpTo
<1> QED
  BY <1>6 DEF T, p, K

(* The lowest byte of n - 2 is that of n less 2, the others are the same.  *)
LEMMA LessTwo ==
    ASSUME NEW i \in 0..(Size - 1)
    PROVE  /\ Modulus - 2 \in Nat
           /\ Number!n[i + 1] - (IF i = 0 THEN 2 ELSE 0)
                = ((Modulus - 2) \div Number!Power[i]) % Number!Radix
<1> DEFINE R == Number!Radix
           p == Number!Power
           M == Modulus
           E == M - 2
           a == M \div R
           b == M % R
           c == b - 2
<1>1. R \in Nat /\ R >= 2 /\ R > 0 /\ Size \in Nat /\ M \in Nat /\ M >= 2 /\ E \in Nat /\ b >= 2
  BY FieldIs, CallsAssumption DEF Number!FieldFits
<1>2. Number!n[i + 1] = (M \div p[i]) % R
  <2> DEFINE o == i + 1
  <2>1. o \in 1..Size /\ o - 1 = i /\ Size <= 2 * Size
    BY <1>1
  <2> HIDE DEF o
  <2>2. Number!n[o] = (M \div p[o - 1]) % R
    BY <1>1, <2>1, BytesAre DEF Number!n
  <2> QED
    BY <2>1, <2>2 DEF o
<1>3. a \in Int /\ b \in 0..(R - 1) /\ M = R * a + b
  BY <1>1, Division
<1> HIDE DEF a, b
<1>4. c \in 0..(R - 1) /\ E = R * a + c
  BY <1>1, <1>3
<1>5. E \div R = a /\ E % R = c
  <2> HIDE DEF c, E
  <2>1. (R * a + c) \div R = a /\ (R * a + c) % R = c
    BY <1>1, <1>3, <1>4, Quotient
  <2> QED
    BY <1>4, <2>1
<1> HIDE DEF E
<1>6. CASE i = 0
  <2>1. p[i] = 1
    BY <1>6, BytePowers
  <2>2. M \div 1 = M /\ E \div 1 = E
    <3> SUFFICES ASSUME NEW x \in Nat PROVE x \div 1 = x
      BY <1>1
    <3>1. (1 * x + 0) \div 1 = x
      <4>1. 1 \in Nat /\ 1 > 0 /\ x \in Int /\ 0 \in 0..(1 - 1)
        OBVIOUS
      <4> QED
        BY <4>1, Quotient
    <3>2. 1 * x + 0 = x
      OBVIOUS
    <3> QED
      BY <3>1, <3>2
  <2>3. Number!n[i + 1] = b
    BY <1>2, <2>1, <2>2 DEF b
  <2>4. (E \div p[i]) % R = c
    BY <1>5, <2>1, <2>2
  <2> QED
    BY <1>1, <1>6, <2>3, <2>4 DEF E
<1>7. CASE i # 0
  <2> DEFINE q == p[i - 1]
  <2>1. i \in 1..(2 * Size) /\ i - 1 \in 0..(2 * Size)
    BY <1>1, <1>7
  <2>2. p[i] = R * q /\ q \in Nat /\ q > 0
    BY <2>1, BytePowers
  <2> HIDE DEF q
  <2>3. M \div (R * q) = (M \div R) \div q /\ E \div (R * q) = (E \div R) \div q
    BY <1>1, <2>2, DividedTwice
  <2>4. M \div p[i] = E \div p[i]
    BY <1>5, <2>2, <2>3 DEF a
  <2> DEFINE x == Number!n[i + 1]
  <2>5. x = (E \div p[i]) % R
    BY <1>2, <2>4
  <2>6. x \in Int
    <3> DEFINE o == i + 1
    <3>1. o \in 1..Len(Number!n) /\ Number!n \in Seq(Byte)
      BY <1>1, ComplementIs
    <3> HIDE DEF o
    <3>2. Number!n[o] \in Nat
      BY <3>1, BytesIn
    <3> QED
      BY <3>2 DEF o
  <2> HIDE DEF x
  <2>7. x - 0 = x
    BY <2>6
  <2> QED
    BY <1>1, <1>7, <2>5, <2>7 DEF x, E
<1> QED
  BY <1>6, <1>7

(* A bit of a byte is a bit of the number.                                 *)
LEMMA BitOfByte ==
    ASSUME NEW v \in Nat, NEW m \in Nat, NEW w \in Nat, m < w
    PROVE  ((v % Shifted(w)) \div Shifted(m)) % 2 = (v \div Shifted(m)) % 2
<1> DEFINE s == Shifted(m)
           g == Shifted(w - m - 1)
           R == Shifted(w)
           a == v \div R
           b == v % R
           c == b \div s
           d == b % s
<1>1. s \in Nat /\ s > 0 /\ g \in Nat /\ g > 0 /\ R \in Nat /\ R > 0
  <2>1. w - m - 1 \in Nat
    OBVIOUS
  <2> QED
    BY <2>1, ShiftDoubles
<1>2. R = s * (2 * g)
  <2> DEFINE h == w - m - 1
  <2>1. h \in Nat /\ h + 1 \in Nat /\ w = m + (h + 1)
    OBVIOUS
  <2> HIDE DEF h
  <2>2. Shifted(h + 1) = 2 * Shifted(h)
    BY <2>1, ShiftDoubles
  <2>3. Shifted(m + (h + 1)) = Shifted(m) * Shifted(h + 1)
    BY <2>1, ShiftsAdd
  <2> QED
    BY <2>1, <2>2, <2>3 DEF h
<1> HIDE DEF s, g, R
<1>3. a \in Int /\ b \in 0..(R - 1) /\ v = R * a + b
  BY <1>1, Division
<1> HIDE DEF a, b
<1>4. c \in Int /\ d \in 0..(s - 1) /\ b = s * c + d
  BY <1>1, <1>3, Division
<1> HIDE DEF c, d
<1> DEFINE e == 2 * (g * a) + c
<1>5. v = s * e + d /\ e \in Int
  <2>1. (s * (2 * g)) * a = s * (2 * (g * a)) /\ g * a \in Int
    BY <1>1, <1>3
  <2>2. s * (2 * (g * a) + c) = s * (2 * (g * a)) + s * c
    BY <1>1, <1>3, <1>4
  <2> DEFINE n1 == s * (2 * (g * a))
             n2 == s * c
             n3 == s * e
  <2>3. n1 \in Int /\ n2 \in Int /\ v = n1 + b /\ b = n2 + d /\ n3 = n1 + n2 /\ e \in Int
    <3>1. v = n1 + b
      BY <1>2, <1>3, <2>1
    <3>2. n1 \in Int /\ n2 \in Int /\ e \in Int
      BY <1>1, <1>3, <1>4
    <3> QED
      BY <1>4, <2>2, <3>1, <3>2
  <2> HIDE DEF n1, n2, n3, e
  <2>4. v = n3 + d
    BY <1>4, <2>3
  <2> QED
    BY <2>3, <2>4 DEF n3
<1>6. v \div s = e
  <2> HIDE DEF e
  <2>1. (s * e + d) \div s = e
    BY <1>1, <1>4, <1>5, Quotient
  <2> QED
    BY <1>5, <2>1
<1>7. e % 2 = c % 2
  <2> DEFINE f == g * a
  <2>1. f \in Int /\ 2 \in Nat /\ 2 > 0
    BY <1>1, <1>3
  <2> HIDE DEF f
  <2>2. (c + 2 * f) % 2 = c % 2
    BY <1>4, <2>1, Congruent, Zenon
  <2>3. e = c + 2 * f
    BY <1>4, <2>1 DEF f
  <2> QED
    BY <2>2, <2>3
<1> QED
  BY <1>6, <1>7 DEF c, b, s, R

(* What is left of n - 2 above the k-th bit.                               *)
Taken(k) == (Modulus - 2) \div Shifted(k)

(* bigInvert takes the bits of n - 2, the highest first.                   *)
LEMMA BitsAre ==
    ASSUME NEW k \in 0..(Size * ByteBits - 1)
    PROVE  Number!NMinus2Bit(k) = Taken(k) % 2
<1> DEFINE i == k \div ByteBits
           m == k % ByteBits
           p == Number!Power
           E == Modulus - 2
           byte == Number!n[1 + i]
           less == IF k < ByteBits THEN byte - 2 ELSE byte
           v == E \div p[i]
<1>1. ByteBits \in Nat /\ ByteBits > 0 /\ Size \in Nat /\ Size * ByteBits \in Nat
      /\ k \in Nat /\ k < Size * ByteBits
  <2>1. ByteBits \in Nat /\ ByteBits > 0 /\ Size \in Nat
    BY FieldIs, CallsAssumption DEF Number!FieldFits
  <2>2. Size * ByteBits \in Nat
    BY <2>1
  <2> DEFINE t == Size * ByteBits
  <2> HIDE DEF t
  <2>3. t \in Nat /\ k \in 0..(t - 1)
    BY <2>2 DEF t
  <2>4. k \in Nat /\ k < t
    BY <2>3
  <2> QED
    BY <2>1, <2>2, <2>4 DEF t
<1>2. i \in Nat /\ m \in 0..(ByteBits - 1) /\ k = ByteBits * i + m
  <2>1. i \in Int /\ m \in 0..(ByteBits - 1) /\ k = ByteBits * i + m
    BY <1>1, Division
  <2>2. i \in Nat
    BY <1>1, Halves
  <2> QED
    BY <2>1, <2>2
<1>3. Number!NMinus2Bit(k) = (less \div Shifted(m)) % 2
  BY DEF Number!NMinus2Bit, Number!Shifted, Shifted
<1> HIDE DEF i, m
<1>4. i < Size /\ (k < ByteBits <=> i = 0)
  <2>1. i < Size
    <3> SUFFICES ASSUME Size <= i PROVE FALSE
      BY <1>1, <1>2
    <3>1. ByteBits * Size <= ByteBits * i
      BY <1>1, <1>2, Bigger
    <3>2. ByteBits * Size = Size * ByteBits /\ ByteBits * i \in Nat
      BY <1>1, <1>2
    <3> DEFINE t == Size * ByteBits
               u == ByteBits * i
               s == ByteBits * Size
    <3>3. s <= u /\ s = t /\ u \in Nat /\ t \in Nat /\ k < t /\ k = u + m
      BY <1>1, <1>2, <3>1, <3>2
    <3> HIDE DEF t, u, s
    <3> QED
      BY <1>2, <3>3
  <2>2. CASE i = 0
    <3>1. ByteBits * 0 = 0
      BY <1>1
    <3>2. k = 0 + m
      BY <1>2, <2>2, <3>1
    <3> QED
      BY <1>1, <1>2, <2>1, <2>2, <3>2
  <2>3. CASE i # 0
    <3>1. ByteBits * 1 <= ByteBits * i
      <4>1. 1 <= i /\ 1 \in Int
        BY <1>2, <2>3
      <4> QED
        BY <1>1, <1>2, <4>1, Bigger
    <3>2. ByteBits * 1 = ByteBits /\ ByteBits * i \in Nat
      BY <1>1, <1>2
    <3> DEFINE u == ByteBits * i
               s == ByteBits * 1
    <3>3. s <= u /\ s = ByteBits /\ u \in Nat /\ k = u + m
      BY <1>2, <3>1, <3>2
    <3> HIDE DEF u, s
    <3>4. ~(k < ByteBits)
      BY <1>1, <1>2, <3>3
    <3> QED
      BY <2>1, <2>3, <3>4
  <2> QED
    BY <2>2, <2>3
<1>5. less = v % Number!Radix /\ E \in Nat
  <2>1. i \in 0..(Size - 1) /\ i + 1 = 1 + i
    BY <1>1, <1>2, <1>4
  <2>2. E \in Nat /\ Number!n[i + 1] - (IF i = 0 THEN 2 ELSE 0) = v % Number!Radix
    BY <2>1, LessTwo
  <2>3. byte \in Int
    <3> DEFINE o == 1 + i
    <3>1. o \in 1..Len(Number!n) /\ Number!n \in Seq(Byte)
      BY <1>1, <1>2, <1>4, ComplementIs
    <3> HIDE DEF o
    <3>2. Number!n[o] \in Nat
      BY <3>1, BytesIn
    <3> QED
      BY <3>2 DEF o
  <2>4. byte - (IF i = 0 THEN 2 ELSE 0) = v % Number!Radix
    BY <2>1, <2>2
  <2> HIDE DEF byte, v
  <2>5. less = byte - (IF i = 0 THEN 2 ELSE 0)
    BY <1>4, <2>3
  <2> QED
    BY <2>2, <2>4, <2>5
<1> HIDE DEF less
<1>6. p[i] = Shifted(ByteBits * i) /\ ByteBits * i \in Nat /\ p[i] \in Nat /\ p[i] > 0
  <2>1. i \in 0..(2 * Size)
    BY <1>1, <1>2, <1>4
  <2> QED
    BY <2>1, ByteShifts, BytePowers
<1>7. v \in Nat /\ v \div Shifted(m) = Taken(k)
  <2> DEFINE x == p[i]
             y == Shifted(m)
  <2>1. x \in Nat /\ x > 0 /\ y \in Nat /\ y > 0
    BY <1>2, <1>6, ShiftDoubles
  <2>2. x * y = Shifted(k)
    <3> DEFINE o == ByteBits * i
    <3>1. o \in Nat /\ m \in Nat
      BY <1>2, <1>6
    <3> HIDE DEF o
    <3>2. Shifted(o + m) = Shifted(o) * Shifted(m)
      BY <3>1, ShiftsAdd
    <3> QED
      BY <1>2, <1>6, <3>2 DEF o
  <2> HIDE DEF x, y, E
  <2>3. E \div (x * y) = (E \div x) \div y
    BY <1>5, <2>1, DividedTwice
  <2>4. E \div x \in Nat
    BY <1>5, <2>1, Halves
  <2> QED
    BY <2>2, <2>3, <2>4 DEF Taken, E, x, y
<1>8. ((v % Shifted(ByteBits)) \div Shifted(m)) % 2 = (v \div Shifted(m)) % 2
  <2> HIDE DEF v
  <2>1. m \in Nat /\ m < ByteBits
    BY <1>1, <1>2
  <2> QED
    BY <1>1, <1>7, <2>1, BitOfByte
<1>9. Number!Radix = Shifted(ByteBits)
  BY DEF Number!Radix, Number!Shifted, Shifted
<1> QED
  BY <1>3, <1>5, <1>7, <1>8, <1>9

(* Another bit taken.                                                      *)
LEMMA TakenIs ==
    /\ Size * ByteBits \in Nat /\ Taken(Size * ByteBits) = 0 /\ Taken(0) = Modulus - 2
    /\ \A k \in Nat : Taken(k) \in 0..(Modulus - 2)
    /\ \A k \in Nat : Taken(k) = 2 * Taken(k + 1) + (Taken(k) % 2)
<1> DEFINE E == Modulus - 2
<1>1. Size \in Nat /\ ByteBits \in Nat /\ E \in Nat /\ Size * ByteBits \in Nat
  <2>1. Size \in Nat /\ ByteBits \in Nat /\ E \in Nat
    BY FieldIs, CallsAssumption DEF Number!FieldFits
  <2> QED
    BY <2>1
<1>2. Taken(Size * ByteBits) = 0
  <2> DEFINE l == Number!Limit
  <2>1. l \in Nat /\ l > 0 /\ E \in 0..(l - 1)
    BY FieldIs
  <2>2. l = Shifted(Size * ByteBits)
    <3>1. Size \in 0..(2 * Size) /\ Size * ByteBits = ByteBits * Size
      BY <1>1
    <3> QED
      BY <3>1, ByteShifts, BytePowers
  <2> HIDE DEF l, E
  <2>3. (l * 0 + E) \div l = 0
    <3>1. 0 \in Int
      OBVIOUS
    <3> QED
      BY <2>1, <3>1, Quotient
  <2>4. l * 0 + E = E
    BY <1>1, <2>1
  <2> QED
    BY <2>2, <2>3, <2>4 DEF Taken, E
<1>3. Taken(0) = E
  <2>1. (1 * E + 0) \div 1 = E
    <3>1. 1 \in Nat /\ 1 > 0 /\ E \in Int /\ 0 \in 0..(1 - 1)
      BY <1>1
    <3> QED
      BY <3>1, Quotient
  <2>2. 1 * E + 0 = E
    BY <1>1
  <2> QED
    BY <2>1, <2>2, ShiftDoubles DEF Taken
<1>4. ASSUME NEW k \in Nat PROVE Taken(k) \in 0..E
  <2> DEFINE s == Shifted(k)
             q == E \div s
             d == E % s
  <2>1. s \in Nat /\ s > 0
    BY ShiftDoubles
  <2> HIDE DEF s, E
  <2>2. q \in Nat /\ d \in 0..(s - 1) /\ E = s * q + d
    <3>1. d \in 0..(s - 1) /\ E = s * q + d
      BY <1>1, <2>1, Division
    <3>2. q \in Nat
      BY <1>1, <2>1, Halves
    <3> QED
      BY <3>1, <3>2
  <2> HIDE DEF q, d
  <2>3. q * 1 <= q * s
    BY <2>1, <2>2, Bigger
  <2>4. q * 1 = q /\ q * s = s * q /\ s * q \in Nat
    BY <2>1, <2>2
  <2> DEFINE n1 == s * q
             n2 == q * s
             n3 == q * 1
  <2>5. n3 <= n2 /\ n3 = q /\ n2 = n1 /\ n1 \in Nat /\ E = n1 + d
    BY <2>2, <2>3, <2>4
  <2> HIDE DEF n1, n2, n3
  <2>6. q \in 0..E
    BY <1>1, <2>1, <2>2, <2>5
  <2> QED
    BY <2>6 DEF Taken, q, s, E
<1>5. ASSUME NEW k \in Nat PROVE Taken(k) = 2 * Taken(k + 1) + (Taken(k) % 2)
  <2> DEFINE s == Shifted(k)
             x == Taken(k)
  <2>1. s \in Nat /\ s > 0 /\ Shifted(k + 1) = 2 * s /\ 2 * s = s * 2
    BY ShiftDoubles
  <2>2. Taken(k + 1) = x \div 2
    <3>1. E \div (s * 2) = (E \div s) \div 2
      <4>1. 2 \in Nat /\ 2 > 0
        OBVIOUS
      <4> HIDE DEF s, E
      <4> QED
        BY <1>1, <2>1, <4>1, DividedTwice
    <3> QED
      BY <2>1, <3>1 DEF Taken
  <2>3. x \in Int
    BY <1>1, <1>4
  <2> HIDE DEF x
  <2>4. x = 2 * (x \div 2) + (x % 2)
    <3>1. 2 \in Nat /\ 2 > 0
      OBVIOUS
    <3> QED
      BY <2>3, <3>1, Division
  <2> QED
    BY <2>2, <2>4 DEF x
<1> QED
  BY <1>1, <1>2, <1>3, <1>4, <1>5

(* x to the power of t, in the field.                                      *)
Raised(x, t) == Powers(x, Modulus)[t] % Modulus

(* Powers are multiplied by adding, in the field too.                      *)
LEMMA RaisedTo ==
    ASSUME NEW x \in Nat, NEW s \in Nat, NEW t \in Nat, s + t <= Modulus
    PROVE  Raised(x, s + t) = (Raised(x, s) * Raised(x, t)) % Modulus
<1> DEFINE M == Modulus
           p == Powers(x, M)
           u == p[s]
           v == p[t]
           w == u % M
<1>1. M \in Nat /\ M > 0
  BY FieldIs, CallsAssumption DEF Number!FieldFits
<1>2. p[s + t] = v * u
  BY <1>1, PowersAdd
<1>3. u \in Nat /\ v \in Nat
  <2>1. s \in 0..M /\ t \in 0..M
    BY <1>1
  <2> QED
    BY <1>1, <2>1, PowersAre
<1>4. Raised(x, s + t) = (v * u) % M /\ Raised(x, s) = u % M /\ Raised(x, t) = v % M
  BY <1>2 DEF Raised
<1> HIDE DEF u, v, M
<1>5. w \in Int /\ u \in Int /\ v \in Int
  BY <1>1, <1>3
<1>6. (v * w) % M = (v * u) % M
  BY <1>1, <1>5, ProductModulo, Zenon DEF w
<1> HIDE DEF w
<1>7. (w * (v % M)) % M = (w * v) % M
  BY <1>1, <1>5, ProductModulo, Zenon
<1>8. w * v = v * w
  BY <1>5
<1>9. Raised(x, s + t) = (w * (v % M)) % M
  BY <1>4, <1>6, <1>7, <1>8
<1> QED
  BY <1>4, <1>9 DEF w, M

(* The two products of the ladder at its start and at its end.             *)
LEMMA LadderEnds ==
    ASSUME NEW x \in 0..(Modulus - 1)
    PROVE  /\ Raised(x, 0) = 1 /\ Raised(x, 1) = x
           /\ \A t \in 0..(Modulus - 2) :
                 Raised(x, t + 1) = (Raised(x, t) * x) % Modulus
           /\ x # 0 => Raised(x, Modulus - 1) = 1
<1> DEFINE M == Modulus
           p == Powers(x, M)
<1>1. M \in Nat /\ M > 0 /\ M >= 2 /\ x \in Nat /\ 1 \in 0..(M - 1)
  BY FieldIs, CallsAssumption DEF Number!FieldFits
<1>2. p \in [0..M -> Nat] /\ p[0] = 1 /\ \A k \in 1..M : p[k] = x * p[k - 1]
  BY <1>1, PowersAre
<1>3. 1 % M = 1 /\ x % M = x
  BY <1>1, SmallModulo
<1>4. Raised(x, 0) = 1
  BY <1>2, <1>3 DEF Raised
<1>5. Raised(x, 1) = x
  <2>1. p[1] = x * p[1 - 1] /\ 1 - 1 = 0
    BY <1>1, <1>2
  <2>2. p[1] = x
    BY <1>1, <1>2, <2>1
  <2> QED
    BY <1>3, <2>2 DEF Raised
<1>6. ASSUME NEW t \in 0..(M - 2) PROVE Raised(x, t + 1) = (Raised(x, t) * x) % M
  <2>1. t \in Nat /\ 1 \in Nat /\ t + 1 <= Modulus
    BY <1>1
  <2>2. Raised(x, t + 1) = (Raised(x, t) * Raised(x, 1)) % Modulus
    BY <1>1, <2>1, RaisedTo
  <2> QED
    BY <1>5, <2>2
<1>7. ASSUME x # 0 PROVE Raised(x, M - 1) = 1
  <2>1. Prime(M)
    BY <1>1, CallsAssumption DEF Number!FieldFits, Prime
  <2>2. x % M # 0 /\ M - 1 <= M
    BY <1>1, <1>3, <1>7
  <2> HIDE DEF M
  <2>3. Powers(x, M)[M - 1] % M = 1
    BY <1>1, <2>1, <2>2, Fermat
  <2> QED
    BY <2>3 DEF Raised, M
<1> QED
  BY <1>4, <1>5, <1>6, <1>7

(* A step of it.                                                           *)
LEMMA LadderIs ==
    ASSUME NEW x \in Nat, NEW u \in FieldNumbers, NEW v \in FieldNumbers,
           NEW k \in 0..(Size * ByteBits - 1),
           Number!Value(u) = Raised(x, Taken(k + 1)),
           Number!Value(v) = Raised(x, Taken(k + 1) + 1)
    PROVE  /\ Number!NMinus2Bit(k) = 1 /\ ~Number!Carried(u, v) /\ ~Number!Carried(v, v) =>
                /\ Number!Value(Number!MultiplyModulo(u, v)) = Raised(x, Taken(k))
                /\ Number!Value(Number!MultiplyModulo(v, v)) = Raised(x, Taken(k) + 1)
           /\ Number!NMinus2Bit(k) # 1 /\ ~Number!Carried(u, v) /\ ~Number!Carried(u, u) =>
                /\ Number!Value(Number!MultiplyModulo(u, u)) = Raised(x, Taken(k))
                /\ Number!Value(Number!MultiplyModulo(u, v)) = Raised(x, Taken(k) + 1)
<1> DEFINE M == Modulus
           s == Taken(k + 1)
           t == Taken(k)
           y == Number!NMinus2Bit(k)
<1>1. M \in Nat /\ M >= 2
  BY FieldIs, CallsAssumption DEF Number!FieldFits
<1>2. k \in Nat /\ k + 1 \in Nat
  <2> DEFINE l == Size * ByteBits
  <2>1. l \in Nat /\ k \in 0..(l - 1)
    BY TakenIs
  <2> HIDE DEF l
  <2> QED
    BY <2>1
<1>3. s \in 0..(M - 2) /\ t \in 0..(M - 2) /\ t = 2 * s + (t % 2) /\ y = t % 2
  <2>1. s \in 0..(M - 2) /\ t \in 0..(M - 2) /\ t = 2 * s + (t % 2)
    BY <1>2, TakenIs
  <2> QED
    BY <2>1, BitsAre
<1> HIDE DEF M, s, t, y
<1>4. y \in {0, 1} /\ t = 2 * s + y
  BY <1>1, <1>3
<1>5. Raised(x, s + s) = (Raised(x, s) * Raised(x, s)) % Modulus
  <2>1. s \in Nat /\ s + s <= Modulus
    BY <1>1, <1>3, <1>4 DEF M
  <2> QED
    BY <2>1, RaisedTo
<1>6. Raised(x, s + (s + 1)) = (Raised(x, s) * Raised(x, s + 1)) % Modulus
  <2>1. s \in Nat /\ s + 1 \in Nat /\ s + (s + 1) <= Modulus
    BY <1>1, <1>3, <1>4 DEF M
  <2> QED
    BY <2>1, RaisedTo
<1>7. ASSUME y = 1
      PROVE  Raised(x, (s + 1) + (s + 1)) = (Raised(x, s + 1) * Raised(x, s + 1)) % Modulus
  <2>1. s + 1 \in Nat /\ (s + 1) + (s + 1) <= Modulus
    BY <1>1, <1>3, <1>4, <1>7 DEF M
  <2> QED
    BY <2>1, RaisedTo
<1>8. Number!Value(u) = Raised(x, s) /\ Number!Value(v) = Raised(x, s + 1)
  BY DEF s
<1>9. ASSUME y = 1, ~Number!Carried(u, v), ~Number!Carried(v, v)
      PROVE  /\ Number!Value(Number!MultiplyModulo(u, v)) = Raised(x, t)
             /\ Number!Value(Number!MultiplyModulo(v, v)) = Raised(x, t + 1)
  <2>1. s + (s + 1) = t /\ (s + 1) + (s + 1) = t + 1
    BY <1>3, <1>4, <1>9
  <2>2. Number!Value(Number!MultiplyModulo(u, v))
          = (Number!Value(u) * Number!Value(v)) % Modulus
    BY <1>9, MultiplyModuloIs
  <2>3. Number!Value(Number!MultiplyModulo(v, v))
          = (Number!Value(v) * Number!Value(v)) % Modulus
    BY <1>9, MultiplyModuloIs
  <2> QED
    BY <1>6, <1>7, <1>8, <1>9, <2>1, <2>2, <2>3
<1>10. ASSUME y # 1, ~Number!Carried(u, v), ~Number!Carried(u, u)
       PROVE  /\ Number!Value(Number!MultiplyModulo(u, u)) = Raised(x, t)
              /\ Number!Value(Number!MultiplyModulo(u, v)) = Raised(x, t + 1)
  <2>1. s + s = t /\ s + (s + 1) = t + 1
    BY <1>3, <1>4, <1>10
  <2>2. Number!Value(Number!MultiplyModulo(u, v))
          = (Number!Value(u) * Number!Value(v)) % Modulus
    BY <1>10, MultiplyModuloIs
  <2>3. Number!Value(Number!MultiplyModulo(u, u))
          = (Number!Value(u) * Number!Value(u)) % Modulus
    BY <1>10, MultiplyModuloIs
  <2> QED
    BY <1>5, <1>6, <1>8, <2>1, <2>2, <2>3
<1> QED
  BY <1>9, <1>10 DEF t, y

(* While no bit is dropped, the ladder's products are op1 to the power of  *)
(* the bits taken, and to one more.                                        *)
Ladder ==
    /\ r \in FieldNumbers /\ temp \in FieldNumbers /\ bit \in 0..(Size * ByteBits)
    /\ ~dropped => /\ Number!Value(r) = Raised(Number!Value(op1), Taken(bit))
                   /\ Number!Value(temp) = Raised(Number!Value(op1), Taken(bit) + 1)

(* What holds of a call on numbers.                                        *)
OperandsOK ==
    /\ op1 \in FieldNumbers /\ op2 \in FieldNumbers /\ dropped \in BOOLEAN
    /\ op \in {"bigAdd", "bigSubtract", "bigInvert"} =>
           Number!Value(op1) < Modulus /\ Number!Value(op2) < Modulus
    /\ op = "bigInvert" => Number!Value(op1) # 0
Calculation ==
    /\ OperandsOK
    /\ \/ pc = "call" /\ ~dropped
       \/ /\ pc = "reduce" /\ op = "bigMultiply" /\ ~dropped
          /\ [full |-> full_r, remaining |-> remaining]
               \in Reductions(Number!Value(op1) * Number!Value(op2))
       \/ pc = "ladder" /\ op = "bigInvert" /\ Ladder
       \/ pc = "done" /\ Number!ResultIsModular
NumberInv == fun = "number" => Calculation

(* What a call on numbers starts from.                                     *)
LEMMA CalculationInit ==
    ASSUME Number!Init, CallsAssumption
    PROVE  Calculation
<1>1. /\ op1 \in {Number!Bytes(value, Size) : value \in Operands}
      /\ op2 \in {Number!Bytes(value, Size) : value \in Operands}
      /\ op \in {"bigAdd", "bigSubtract", "bigInvert"} =>
             op1 \in Number!Field /\ op2 \in Number!Field
      /\ op = "bigInvert" => Number!Value(op1) # 0
      /\ pc = "call" /\ dropped = FALSE
  BY DEF Number!Init
<1>2. /\ Size \in Nat /\ Size <= 2 * Size /\ Number!Limit = Number!Power[Size]
      /\ Modulus \in Nat /\ Modulus < Number!Limit /\ Number!Limit \in Nat
      /\ Operands \subseteq 0..(Number!Limit - 1)
  BY FieldIs, CallsAssumption DEF Number!FieldFits, Number!Limit
<1>3. ASSUME NEW x \in 0..(Number!Limit - 1)
      PROVE  Number!Bytes(x, Size) \in FieldNumbers /\ Number!Value(Number!Bytes(x, Size)) = x
  <2>1. x \in Nat /\ x < Number!Power[Size]
    BY <1>2
  <2> QED
    BY <1>2, <2>1, BytesAre DEF FieldNumbers
<1>4. op1 \in FieldNumbers /\ op2 \in FieldNumbers
  BY <1>1, <1>2, <1>3
<1>5. \A a \in Number!Field : Number!Value(a) < Modulus
  <2> SUFFICES ASSUME NEW x \in 0..(Modulus - 1)
               PROVE  Number!Value(Number!Bytes(x, Size)) < Modulus
    BY DEF Number!Field
  <2>1. x \in 0..(Number!Limit - 1) /\ x < Modulus
    BY <1>2
  <2> QED
    BY <1>3, <2>1
<1> QED
  BY <1>1, <1>4, <1>5 DEF Calculation, OperandsOK

(* The operands are not written.                                           *)
LEMMA OperandsKeep ==
    ASSUME OperandsOK, op' = op, op1' = op1, op2' = op2, dropped' \in BOOLEAN
    PROVE  OperandsOK'
BY DEF OperandsOK

(* The worth of a number is one.                                           *)
LEMMA NumberIs ==
    ASSUME NEW a \in FieldNumbers
    PROVE  Number!Value(a) \in Nat
<1>1. a \in Seq(Byte) /\ Len(a) <= 2 * Size
  BY FieldIs, CallsAssumption DEF FieldNumbers, Number!FieldFits
<1> QED
  BY <1>1, ValueIs

(* What bigAdd returns.                                                    *)
LEMMA BigAddEnds ==
    ASSUME Calculation, Number!bigAdd
    PROVE  Calculation'
<1> DEFINE sum == Number!AddModulo(op1, op2)
           x == (Number!Value(op1) + Number!Value(op2)) % Modulus
<1>1. /\ op = "bigAdd" /\ pc = "call" /\ pc' = "done" /\ r' = sum
      /\ op' = op /\ op1' = op1 /\ op2' = op2 /\ dropped' = dropped
  BY DEF Number!bigAdd, Number!Return
<1>2. OperandsOK /\ ~dropped
  BY <1>1 DEF Calculation
<1>3. sum \in FieldNumbers /\ Number!Value(sum) = x
  <2>1. /\ op1 \in Seq(Byte) /\ Len(op1) = Size /\ op2 \in Seq(Byte) /\ Len(op2) = Size
        /\ Number!Value(op1) < Modulus /\ Number!Value(op2) < Modulus
    BY <1>1, <1>2 DEF OperandsOK, FieldNumbers
  <2> QED
    BY <2>1, AddModuloIs DEF FieldNumbers
<1>4. Number!ResultIsModular'
  <2>1. x \in Int
    BY <1>3, NumberIs
  <2> HIDE DEF x
  <2>2. x - 0 = x
    BY <2>1
  <2> QED
    BY <1>1, <1>2, <1>3, <2>2 DEF Number!ResultIsModular, x
<1> QED
  BY <1>1, <1>2, <1>4, OperandsKeep DEF Calculation, OperandsOK

(* What bigSubtract returns.                                               *)
LEMMA BigSubtractEnds ==
    ASSUME Calculation, Number!bigSubtract
    PROVE  Calculation'
<1> DEFINE difference == Number!SubtractModulo(op1, op2)
           x == (Modulus + Number!Value(op1) - Number!Value(op2)) % Modulus
<1>1. /\ op = "bigSubtract" /\ pc = "call" /\ pc' = "done" /\ r' = difference
      /\ op' = op /\ op1' = op1 /\ op2' = op2 /\ dropped' = dropped
  BY DEF Number!bigSubtract, Number!Return
<1>2. OperandsOK /\ ~dropped
  BY <1>1 DEF Calculation
<1>3. difference \in FieldNumbers /\ Number!Value(difference) = x
  <2>1. /\ op1 \in Seq(Byte) /\ Len(op1) = Size /\ op2 \in Seq(Byte) /\ Len(op2) = Size
        /\ Number!Value(op1) < Modulus /\ Number!Value(op2) < Modulus
    BY <1>1, <1>2 DEF OperandsOK, FieldNumbers
  <2> QED
    BY <2>1, SubtractModuloIs DEF FieldNumbers
<1>4. Number!ResultIsModular'
  <2>1. x \in Int
    BY <1>3, NumberIs
  <2> HIDE DEF x
  <2>2. x - 0 = x
    BY <2>1
  <2> QED
    BY <1>1, <1>2, <1>3, <2>2 DEF Number!ResultIsModular, x
<1> QED
  BY <1>1, <1>2, <1>4, OperandsKeep DEF Calculation, OperandsOK

(* bigMultiply's product, before anything is reduced.                      *)
LEMMA BigMultiplyStarts ==
    ASSUME Calculation, Number!bigMultiply
    PROVE  Calculation'
<1> DEFINE full == Number!Multiply(op1, op2)
           x == Number!Value(op1) * Number!Value(op2)
           st == [full |-> full, remaining |-> 2 * Size]
<1>1. /\ op = "bigMultiply" /\ pc = "call" /\ pc' = "reduce" /\ full_r' = full
      /\ remaining' = 2 * Size
      /\ op' = op /\ op1' = op1 /\ op2' = op2 /\ dropped' = dropped
  BY DEF Number!bigMultiply
<1>2. OperandsOK /\ ~dropped
  BY <1>1 DEF Calculation
<1>3. Size \in Nat /\ Size >= 1 /\ 2 * Size \in 0..(2 * Size)
  BY FieldIs, CallsAssumption DEF Number!FieldFits
<1>4. full \in Seq(Byte) /\ Len(full) = 2 * Size /\ Number!Value(full) = x
  <2>1. /\ op1 \in Seq(Byte) /\ Len(op1) = Size /\ op2 \in Seq(Byte) /\ Len(op2) = Size
    BY <1>1, <1>2 DEF OperandsOK, FieldNumbers
  <2>2. Len(op1) + Len(op2) = 2 * Size
    BY <1>3, <2>1
  <2> QED
    BY <1>3, <2>1, <2>2, MultiplyIs
<1>5. Number!Value(full) < Number!Power[2 * Size]
  BY <1>3, <1>4, ValueIs
<1>6. st \in Reductions(x)
  <2> HIDE DEF full, x
  <2>1. full \in Products
    BY <1>4 DEF Products
  <2>2. st \in [full : Products, remaining : 0..(2 * Size)]
    BY <1>3, <2>1
  <2>3. st.full = full /\ st.remaining = 2 * Size /\ st.remaining > Size
    BY <1>3
  <2> HIDE DEF st
  <2> QED
    BY <1>3, <1>4, <1>5, <2>2, <2>3 DEF Reductions
<1>7. OperandsOK'
  BY <1>1, <1>2, OperandsKeep DEF OperandsOK
<1> QED
  BY <1>1, <1>2, <1>6, <1>7 DEF Calculation

(* A turn of its reduction.                                                *)
LEMMA ReduceTurnKeeps ==
    ASSUME Calculation, Number!ReduceTurn
    PROVE  Calculation'
<1> DEFINE x == Number!Value(op1) * Number!Value(op2)
           st == [full |-> full_r, remaining |-> remaining]
<1>1. /\ pc = "reduce" /\ remaining > Size /\ pc' = pc
      /\ full_r' = Number!Turn(full_r, remaining) /\ remaining' = Number!Remains(remaining)
      /\ op' = op /\ op1' = op1 /\ op2' = op2 /\ dropped' = dropped
  BY DEF Number!ReduceTurn
<1>2. OperandsOK /\ ~dropped /\ op = "bigMultiply" /\ st \in Reductions(x)
  BY <1>1 DEF Calculation
<1>3. x \in Int
  BY <1>2, NumberIs DEF OperandsOK
<1>4. ~(remaining <= Size)
  <2>1. remaining \in Nat /\ Size \in Nat
    <3>1. st.remaining \in 0..(2 * Size) /\ Size \in Nat
      BY <1>2, FieldIs, CallsAssumption DEF Reductions, Number!FieldFits
    <3> QED
      BY <3>1
  <2> QED
    BY <1>1, <2>1
<1>5. Number!NextTurn(st) = [full |-> full_r', remaining |-> remaining']
  BY <1>1, <1>4 DEF Number!NextTurn
<1>6. [full |-> full_r', remaining |-> remaining'] \in Reductions(x)
  <2> HIDE DEF x, st
  <2> QED
    BY <1>2, <1>3, <1>5, NextTurnIs
<1>7. OperandsOK'
  BY <1>1, <1>2, OperandsKeep DEF OperandsOK
<1> QED
  BY <1>1, <1>2, <1>6, <1>7 DEF Calculation

(* Its end.                                                                *)
LEMMA ReduceEndEnds ==
    ASSUME Calculation, Number!ReduceEnd
    PROVE  Calculation'
<1> DEFINE x == Number!Value(op1) * Number!Value(op2)
           st == [full |-> full_r, remaining |-> remaining]
<1>1. /\ pc = "reduce" /\ remaining <= Size /\ pc' = "done"
      /\ r' = Number!Modulo(Number!Low(full_r))
      /\ dropped' = (full_r # Number!Widened(Number!Low(full_r), 2 * Size))
      /\ op' = op /\ op1' = op1 /\ op2' = op2
  BY DEF Number!ReduceEnd, Number!Return
<1>2. OperandsOK /\ op = "bigMultiply" /\ st \in Reductions(x)
  BY <1>1 DEF Calculation
<1>3. /\ full_r \in Products /\ Number!Value(full_r) < 2 * Modulus
      /\ Number!Value(full_r) % Modulus = x % Modulus
  <2>1. st.full = full_r /\ st.remaining = remaining
    OBVIOUS
  <2> HIDE DEF x, st
  <2> QED
    BY <1>1, <1>2, <2>1 DEF Reductions
<1>4. Number!Value(r') = (x % Modulus) - (IF dropped' THEN Number!Complement ELSE 0)
  BY <1>1, <1>3, EndIs
<1>5. Number!ResultIsModular'
  BY <1>1, <1>2, <1>4 DEF Number!ResultIsModular
<1>6. OperandsOK'
  BY <1>1, <1>2, OperandsKeep
<1> QED
  BY <1>1, <1>5, <1>6 DEF Calculation

(* bigInvert's ladder before the first bit.                                *)
LEMMA BigInvertStarts ==
    ASSUME Calculation, Number!bigInvert
    PROVE  Calculation'
<1> DEFINE x == Number!Value(op1)
           one == Number!Bytes(1, Size)
<1>1. /\ op = "bigInvert" /\ pc = "call" /\ pc' = "ladder" /\ r' = one /\ temp' = op1
      /\ bit' = Size * ByteBits
      /\ op' = op /\ op1' = op1 /\ op2' = op2 /\ dropped' = dropped
  BY DEF Number!bigInvert
<1>2. OperandsOK /\ ~dropped
  BY <1>1 DEF Calculation
<1>3. x \in 0..(Modulus - 1)
  <2>1. x \in Nat /\ x < Modulus /\ Modulus \in Nat
    BY <1>1, <1>2, NumberIs, FieldIs, CallsAssumption DEF OperandsOK, Number!FieldFits
  <2> HIDE DEF x
  <2> QED
    BY <2>1
<1>4. one \in FieldNumbers /\ Number!Value(one) = 1
  <2>1. Size \in Nat /\ Size <= 2 * Size /\ 1 \in Nat /\ 1 < Number!Power[Size]
    BY FieldIs, CallsAssumption DEF Number!FieldFits, Number!Limit
  <2> QED
    BY <2>1, BytesAre DEF FieldNumbers
<1>5. Size * ByteBits \in 0..(Size * ByteBits) /\ Taken(Size * ByteBits) = 0
  BY TakenIs
<1>6. Ladder'
  <2>1. Raised(x, 0) = 1 /\ Raised(x, 1) = x
    BY <1>3, LadderEnds
  <2>2. /\ Number!Value(r') = Raised(x, Taken(bit'))
        /\ Number!Value(temp') = Raised(x, Taken(bit') + 1)
    BY <1>1, <1>4, <1>5, <2>1
  <2> QED
    BY <1>1, <1>2, <1>4, <1>5, <2>2 DEF Ladder, OperandsOK
<1>7. OperandsOK'
  BY <1>1, <1>2, OperandsKeep DEF OperandsOK
<1> QED
  BY <1>1, <1>6, <1>7 DEF Calculation

(* Another bit of it.                                                      *)
LEMMA LadderStepKeeps ==
    ASSUME Calculation, Number!LadderStep
    PROVE  Calculation'
<1> DEFINE x == Number!Value(op1)
           k == bit - 1
           one == Number!NMinus2Bit(k) = 1
           squared == IF one THEN temp ELSE r
<1>1. /\ pc = "ladder" /\ bit > 0 /\ pc' = pc /\ bit' = k
      /\ r' = IF one THEN Number!MultiplyModulo(r, temp) ELSE Number!MultiplyModulo(r, r)
      /\ temp' = IF one THEN Number!MultiplyModulo(temp, temp)
                        ELSE Number!MultiplyModulo(r, temp)
      /\ dropped' = (dropped \/ Number!Carried(r, temp) \/ Number!Carried(squared, squared))
      /\ op' = op /\ op1' = op1 /\ op2' = op2
  BY DEF Number!LadderStep
<1>2. OperandsOK /\ op = "bigInvert" /\ Ladder
  BY <1>1 DEF Calculation
<1>3. x \in Nat
  BY <1>2, NumberIs DEF OperandsOK
<1>4. k \in 0..(Size * ByteBits - 1) /\ k \in 0..(Size * ByteBits) /\ k + 1 = bit
  <2> DEFINE l == Size * ByteBits
  <2>1. l \in Nat /\ bit \in 0..l
    BY <1>2, TakenIs DEF Ladder
  <2> HIDE DEF l
  <2>2. k \in 0..(l - 1) /\ k \in 0..l /\ k + 1 = bit
    BY <1>1, <2>1
  <2> QED
    BY <2>2 DEF l
<1> HIDE DEF k, x
<1>5. r \in FieldNumbers /\ temp \in FieldNumbers
  BY <1>2 DEF Ladder
<1>6. r' \in FieldNumbers /\ temp' \in FieldNumbers
  BY <1>1, <1>5, MultiplyModuloIs
<1>7. ASSUME ~dropped'
      PROVE  Number!Value(r') = Raised(x, Taken(k)) /\ Number!Value(temp') = Raised(x, Taken(k) + 1)
  <2>1. ~dropped /\ ~Number!Carried(r, temp) /\ ~Number!Carried(squared, squared)
    BY <1>1, <1>7
  <2>2. Number!Value(r) = Raised(x, Taken(k + 1)) /\ Number!Value(temp) = Raised(x, Taken(k + 1) + 1)
    BY <1>2, <1>4, <2>1 DEF Ladder, x
  <2>3. CASE one
    <3>1. /\ Number!Value(Number!MultiplyModulo(r, temp)) = Raised(x, Taken(k))
          /\ Number!Value(Number!MultiplyModulo(temp, temp)) = Raised(x, Taken(k) + 1)
      BY <1>3, <1>4, <1>5, <2>1, <2>2, <2>3, LadderIs
    <3> QED
      BY <1>1, <2>3, <3>1
  <2>4. CASE ~one
    <3>1. /\ Number!Value(Number!MultiplyModulo(r, r)) = Raised(x, Taken(k))
          /\ Number!Value(Number!MultiplyModulo(r, temp)) = Raised(x, Taken(k) + 1)
      BY <1>3, <1>4, <1>5, <2>1, <2>2, <2>4, LadderIs
    <3> QED
      BY <1>1, <2>4, <3>1
  <2> QED
    BY <2>3, <2>4
<1>8. Ladder'
  BY <1>1, <1>4, <1>6, <1>7 DEF Ladder, x
<1>9. OperandsOK'
  <2>1. dropped' \in BOOLEAN
    BY <1>1
  <2> QED
    BY <1>1, <1>2, <2>1, OperandsKeep
<1> QED
  BY <1>1, <1>2, <1>8, <1>9 DEF Calculation

(* With the last of them the inverse is found.                             *)
LEMMA LadderEndEnds ==
    ASSUME Calculation, Number!LadderEnd
    PROVE  Calculation'
<1> DEFINE x == Number!Value(op1)
<1>1. /\ pc = "ladder" /\ bit = 0 /\ pc' = "done" /\ r' = r
      /\ op' = op /\ op1' = op1 /\ op2' = op2 /\ dropped' = dropped
  BY DEF Number!LadderEnd
<1>2. OperandsOK /\ op = "bigInvert" /\ Ladder
  BY <1>1 DEF Calculation
<1>3. x \in 0..(Modulus - 1) /\ x # 0 /\ Modulus \in Nat /\ Modulus >= 2
  <2>1. x \in Nat /\ x < Modulus /\ x # 0 /\ Modulus \in Nat /\ Modulus >= 2
    BY <1>2, NumberIs, FieldIs, CallsAssumption DEF OperandsOK, Number!FieldFits
  <2> HIDE DEF x
  <2> QED
    BY <2>1
<1>4. ASSUME ~dropped PROVE (Number!Value(r) * x) % Modulus = 1
  <2> DEFINE t == Modulus - 2
  <2>1. Number!Value(r) = Raised(x, t)
    BY <1>1, <1>2, <1>4, TakenIs DEF Ladder
  <2>2. t \in 0..(Modulus - 2) /\ t + 1 = Modulus - 1
    BY <1>3
  <2> HIDE DEF t, x
  <2>3. Raised(x, t + 1) = (Raised(x, t) * x) % Modulus
    BY <1>3, <2>2, LadderEnds
  <2>4. Raised(x, Modulus - 1) = 1
    BY <1>3, LadderEnds
  <2> QED
    BY <2>1, <2>2, <2>3, <2>4
<1>5. Number!ResultIsModular'
  BY <1>1, <1>2, <1>4 DEF Number!ResultIsModular
<1>6. OperandsOK'
  BY <1>1, <1>2, OperandsKeep DEF OperandsOK
<1> QED
  BY <1>1, <1>5, <1>6 DEF Calculation

(* The result is right at the end, and on the way to it.                   *)
LEMMA CalculationIsModular ==
    ASSUME Calculation
    PROVE  Number!ResultIsModular
<1> DEFINE x == Number!Value(op1)
           y == x * Number!Value(op2)
<1>1. x \in Nat /\ y \in Int /\ Modulus \in Nat /\ Modulus > 0
  <2>1. x \in Nat /\ Number!Value(op2) \in Nat /\ Modulus \in Nat /\ Modulus > 0
    BY NumberIs, FieldIs, CallsAssumption DEF Calculation, OperandsOK, Number!FieldFits
  <2> HIDE DEF x
  <2> QED
    BY <2>1
<1>2. CASE pc = "call"
  BY <1>2 DEF Number!ResultIsModular
<1>3. CASE pc = "reduce"
  <2> DEFINE st == [full |-> full_r, remaining |-> remaining]
             v == Number!Value(full_r)
  <2>1. op = "bigMultiply" /\ st \in Reductions(y)
    BY <1>3 DEF Calculation, Number!ResultIsModular
  <2>2. /\ full_r \in Products /\ v % Modulus = y % Modulus
        /\ remaining <= Size => v < 2 * Modulus
    <3>1. st.full = full_r /\ st.remaining = remaining
      OBVIOUS
    <3> HIDE DEF st, y
    <3> QED
      BY <2>1, <3>1 DEF Reductions
  <2>3. v \in Int
    BY <2>2, FieldIs, CallsAssumption, ValueIs DEF Products, Number!FieldFits
  <2>4. (v - y) % Modulus = 0
    <3> HIDE DEF v, y
    <3> QED
      BY <1>1, <2>2, <2>3, SameModulo
  <2> QED
    BY <1>3, <2>1, <2>2, <2>4 DEF Number!ResultIsModular
<1>4. CASE pc = "ladder"
  <2>1. op = "bigInvert" /\ Ladder /\ x < Modulus
    BY <1>4 DEF Calculation, OperandsOK, Number!ResultIsModular
  <2>2. ASSUME ~dropped PROVE Number!Value(temp) = (Number!Value(r) * x) % Modulus
    <3> DEFINE t == Taken(bit)
    <3>1. Number!Value(r) = Raised(x, t) /\ Number!Value(temp) = Raised(x, t + 1)
      BY <2>1, <2>2 DEF Ladder
    <3>2. t \in 0..(Modulus - 2)
      <4> DEFINE l == Size * ByteBits
      <4>1. l \in Nat /\ bit \in 0..l
        BY <2>1, TakenIs DEF Ladder
      <4> HIDE DEF l
      <4>2. bit \in Nat
        BY <4>1
      <4> QED
        BY <4>2, TakenIs
    <3>3. x \in 0..(Modulus - 1)
      <4> HIDE DEF x
      <4> QED
        BY <1>1, <2>1
    <3> HIDE DEF t, x
    <3>4. Raised(x, t + 1) = (Raised(x, t) * x) % Modulus
      BY <3>2, <3>3, LadderEnds
    <3> QED
      BY <3>1, <3>4
  <2> QED
    BY <1>4, <2>1, <2>2 DEF Number!ResultIsModular
<1>5. CASE pc = "done"
  BY <1>5 DEF Calculation
<1> QED
  BY <1>2, <1>3, <1>4, <1>5 DEF Calculation

(* ResultIsModular, of every size and prime: a sum, a difference and a     *)
(* product are the field's, but for the complement that a dropped bit      *)
(* takes away, and where no bit is dropped bigInvert returns the inverse   *)
(* (bignum256.c:356-577).                                                  *)
THEOREM ResultsAreModular == SpecAll => []ResultIsModular
<1>1. InitAll => NumberInv
  <2> SUFFICES ASSUME InitAll, fun = "number" PROVE Calculation
    BY DEF NumberInv
  <2>1. Number!Init
    BY DEF InitAll
  <2> QED
    BY <2>1, CalculationInit, CallsAssumption
<1>2. NumberInv /\ [NextAll]_allVars => NumberInv'
  <2> SUFFICES ASSUME NumberInv, [NextAll]_allVars, fun' = "number" PROVE Calculation'
    BY DEF NumberInv
  <2>1. CASE Calculate
    <3>1. fun = "number" /\ Number!Next
      BY <2>1 DEF Calculate
    <3>2. Calculation
      BY <3>1 DEF NumberInv
    <3> QED
      BY <3>1, <3>2, BigAddEnds, BigSubtractEnds, BigMultiplyStarts, ReduceTurnKeeps,
         ReduceEndEnds, BigInvertStarts, LadderStepKeeps, LadderEndEnds DEF Number!Next
  <2>2. CASE Derive \/ SignNow \/ Multiply \/ Encode
    <3>1. fun # "number" /\ fun' = fun
      BY <2>2 DEF Derive, SignNow, Multiply, Encode
    <3> QED
      BY <3>1
  <2>3. CASE UNCHANGED allVars
    <3>1. /\ fun' = fun /\ pc' = pc /\ bit' = bit /\ op' = op /\ op1' = op1 /\ op2' = op2
          /\ full_r' = full_r /\ remaining' = remaining /\ r' = r /\ temp' = temp
          /\ dropped' = dropped
      BY <2>3 DEF allVars, numbers
    <3>2. Calculation
      BY <3>1 DEF NumberInv
    <3>3. (Ladder => Ladder') /\ (OperandsOK => OperandsOK')
      BY <3>1 DEF Ladder, OperandsOK
    <3>4. Number!ResultIsModular => Number!ResultIsModular'
      BY <3>1 DEF Number!ResultIsModular
    <3> QED
      BY <3>1, <3>2, <3>3, <3>4 DEF Calculation
  <2> QED
    BY <2>1, <2>2, <2>3 DEF NextAll
<1>3. NumberInv => ResultIsModular
  BY CalculationIsModular DEF NumberInv, ResultIsModular
<1> QED
  BY <1>1, <1>2, <1>3, PTL DEF SpecAll

-----------------------------------------------------------------------------
(* The field that points are of.                                           *)
LEMMA CurveIs ==
    /\ P \in Nat /\ P > 3 /\ Prime(P) /\ B \in Nat
    /\ ScalarBits \in Nat /\ Scalars \subseteq 0..(Shifted(ScalarBits) - 1)
<1>1. P \in Nat
  BY KeysAssumption
<1>2. Shifted(ScalarBits) = Curve!Shifted(ScalarBits)
  BY DEF Shifted, Curve!Shifted
<1> QED
  BY <1>1, <1>2, CallsAssumption DEF Curve!CurveFits, Prime

(* Its operations are those on integers, up to multiples of P.             *)
LEMMA FieldOperations ==
    ASSUME NEW a, NEW b, NEW c, NEW d, Alike(a, b, P), Alike(c, d, P)
    PROVE  /\ Curve!Mul(a, c) \in 0..(P - 1) /\ Alike(Curve!Mul(a, c), b * d, P)
           /\ Curve!Plus(a, c) \in 0..(P - 1) /\ Alike(Curve!Plus(a, c), b + d, P)
           /\ Curve!Minus(a, c) \in 0..(P - 1) /\ Alike(Curve!Minus(a, c), b - d, P)
<1>1. P \in Nat /\ P > 0
  BY CurveIs
<1>2. ASSUME NEW x \in Int, NEW y, Alike(x, y, P)
      PROVE  x % P \in 0..(P - 1) /\ Alike(x % P, y, P)
  BY <1>1, <1>2, AlikeIs
<1>3. a \in Int /\ c \in Int
  BY DEF Alike
<1>4. a * c \in Int /\ a + c \in Int /\ a - c \in Int
  BY <1>3
<1>5. Alike(a * c, b * d, P) /\ Alike(a + c, b + d, P) /\ Alike(a - c, b - d, P)
  BY <1>1, AlikeKeeps
<1> QED
  BY <1>2, <1>4, <1>5 DEF Curve!Mul, Curve!Plus, Curve!Minus

(* Numbers of the field are alike only if they are equal.                  *)
LEMMA FieldAlike ==
    /\ \A a \in Int : Alike(a, a, P)
    /\ \A a, b : Alike(a, b, P) => Alike(b, a, P) /\ a \in Int /\ b \in Int
    /\ \A a, b, c : Alike(a, b, P) /\ Alike(b, c, P) => Alike(a, c, P)
    /\ \A a, b \in 0..(P - 1) : Alike(a, b, P) => a = b
    /\ \A a \in 0..(P - 1) : Alike(a, 0, P) => a = 0
<1>1. P \in Nat /\ P > 0 /\ 0 \in 0..(P - 1)
  BY CurveIs
<1> QED
  BY <1>1, AlikeIs DEF Alike

(* bigInvert finds what takes a number to one.                             *)
LEMMA InvertIs ==
    ASSUME NEW a \in 1..(P - 1)
    PROVE  Curve!Invert[a] \in 1..(P - 1) /\ Alike(a * Curve!Invert[a], 1, P)
<1>1. P \in Nat /\ P > 3 /\ Prime(P) /\ a \in 0..(P - 1) /\ a # 0 /\ a \in Int
  BY CurveIs
<1>2. \E i \in 1..(P - 1) : Curve!Mul(a, i) = 1
  BY <1>1, AlikeInverts DEF Curve!Mul
<1> DEFINE i == CHOOSE i \in 1..(P - 1) : Curve!Mul(a, i) = 1
<1>3. Curve!Invert[a] = i
  BY <1>1 DEF Curve!Invert
<1>4. i \in 1..(P - 1) /\ Curve!Mul(a, i) = 1
  BY <1>2
<1> HIDE DEF i
<1>5. Alike(a * i, 1, P)
  <2>1. (a * i) % P = 1 /\ i \in Int
    BY <1>4 DEF Curve!Mul
  <2>2. 1 % P = 1
    BY <1>1, SmallModulo
  <2>3. a * i \in Int
    BY <1>1, <2>1
  <2> QED
    BY <2>1, <2>2, <2>3 DEF Alike
<1> QED
  BY <1>3, <1>4, <1>5

(* What the code counts with: points of the plane, and with a third number *)
(* z for the two divisions still to do.                                    *)
AffinePoints == [x : 0..(P - 1), y : 0..(P - 1), infinity : BOOLEAN]
JacobianPoints == [x : 0..(P - 1), y : 0..(P - 1), z : 0..(P - 1), infinity : BOOLEAN]
Stands(j, x, y) == /\ Alike(j.x, x * j.z * j.z, P)
                   /\ Alike(j.y, y * j.z * j.z * j.z, P)
OnCurve(a) == /\ a \in AffinePoints
              /\ ~a.infinity => Alike(a.y * a.y, a.x * a.x * a.x + B, P)
Represents(j, a) == /\ j \in JacobianPoints /\ j.infinity = a.infinity
                    /\ ~a.infinity => j.z # 0 /\ Stands(j, a.x, a.y)

(* The divisor may be known up to multiples of P, and the numbers too.     *)
LEMMA StandsIs ==
    ASSUME NEW j \in JacobianPoints, NEW w \in Int, Alike(j.z, w, P),
           NEW u \in Int, NEW v \in Int, NEW x, NEW y, Alike(x, u, P), Alike(y, v, P),
           Alike(j.x, u * w * w, P), Alike(j.y, v * w * w * w, P)
    PROVE  Stands(j, x, y)
<1> DEFINE z == j.z
<1>1. P \in Nat /\ P > 0 /\ Alike(z, w, P)
  BY CurveIs
<1>2. Alike(x * z, u * w, P) /\ Alike(y * z, v * w, P)
  BY <1>1, AlikeKeeps
<1>3. Alike(x * z * z, u * w * w, P) /\ Alike(y * z * z, v * w * w, P)
  BY <1>1, <1>2, AlikeKeeps
<1>4. Alike(y * z * z * z, v * w * w * w, P)
  BY <1>1, <1>3, AlikeKeeps
<1> HIDE DEF z
<1>5. Alike(j.x, x * z * z, P) /\ Alike(j.y, y * z * z * z, P)
  BY <1>3, <1>4, FieldAlike
<1> QED
  BY <1>5 DEF Stands, z

(* jacobianToAffine does the divisions.                                    *)
LEMMA AffineIs ==
    ASSUME NEW j \in JacobianPoints, j.z # 0, NEW x \in 0..(P - 1), NEW y \in 0..(P - 1),
           Stands(j, x, y)
    PROVE  Curve!jacobianToAffine(j) = [x |-> x, y |-> y, infinity |-> j.infinity]
<1> DEFINE z == j.z
           z2 == Curve!Mul(z, z)
           z3 == Curve!Mul(z2, z)
           s == Curve!Invert[z2]
           t == Curve!Invert[z3]
<1>1. P \in Nat /\ P > 0 /\ P > 3 /\ Prime(P) /\ z \in 0..(P - 1) /\ z # 0 /\ z \in Int
      /\ 0 \in Int /\ 1 \in Int
  BY CurveIs DEF JacobianPoints
<1>2. Alike(j.x, x * z * z, P) /\ Alike(j.y, y * z * z * z, P)
  BY DEF Stands
<1> HIDE DEF z
<1>3. Alike(z, z, P) /\ ~Alike(z, 0, P)
  BY <1>1, FieldAlike
<1>4. z2 \in 0..(P - 1) /\ Alike(z2, z * z, P)
  BY <1>3, FieldOperations
<1>5. z3 \in 0..(P - 1) /\ Alike(z3, z * z * z, P)
  BY <1>3, <1>4, FieldOperations
<1>6. ~Alike(z * z, 0, P)
  BY <1>1, <1>3, AlikeCancels
<1>7. ~Alike(z * z * z, 0, P)
  <2>1. z * z \in Int
    BY <1>1
  <2> QED
    BY <1>1, <1>3, <1>6, <2>1, AlikeCancels
<1>8. z2 \in 1..(P - 1) /\ z3 \in 1..(P - 1)
  <2>1. z2 # 0 /\ z3 # 0
    BY <1>4, <1>5, <1>6, <1>7, FieldAlike
  <2> HIDE DEF z2, z3
  <2> QED
    BY <1>1, <1>4, <1>5, <2>1
<1> HIDE DEF z2, z3
<1>9. /\ s \in 1..(P - 1) /\ Alike(z2 * s, 1, P)
      /\ t \in 1..(P - 1) /\ Alike(z3 * t, 1, P)
  BY <1>8, InvertIs
<1>10. Curve!jacobianToAffine(j)
         = [x |-> Curve!Mul(j.x, s), y |-> Curve!Mul(j.y, t), infinity |-> j.infinity]
  BY DEF Curve!jacobianToAffine, s, t, z2, z3, z
<1> HIDE DEF s, t
<1>11. s \in Int /\ t \in Int /\ z2 \in Int /\ z3 \in Int /\ x \in Int /\ y \in Int
  BY <1>8, <1>9
<1>12. Alike(s, s, P) /\ Alike(t, t, P) /\ Alike(x, x, P) /\ Alike(y, y, P)
  BY <1>11, FieldAlike
<1>13. Curve!Mul(j.x, s) = x
  <2>1. Curve!Mul(j.x, s) \in 0..(P - 1) /\ Alike(Curve!Mul(j.x, s), (x * z * z) * s, P)
    BY <1>2, <1>12, FieldOperations
  <2>2. Alike((z * z) * s, z2 * s, P)
    BY <1>1, <1>4, <1>12, AlikeKeeps, FieldAlike
  <2>3. Alike((z * z) * s, 1, P)
    BY <1>9, <2>2, FieldAlike
  <2>4. Alike(x * ((z * z) * s), x * 1, P)
    BY <1>1, <1>12, <2>3, AlikeKeeps
  <2>5. x * ((z * z) * s) = (x * z * z) * s /\ x * 1 = x
    BY <1>1, <1>11
  <2>6. Alike(Curve!Mul(j.x, s), x, P)
    BY <2>1, <2>4, <2>5, FieldAlike
  <2> QED
    BY <2>1, <2>6, FieldAlike
<1>14. Curve!Mul(j.y, t) = y
  <2>1. Curve!Mul(j.y, t) \in 0..(P - 1) /\ Alike(Curve!Mul(j.y, t), (y * z * z * z) * t, P)
    BY <1>2, <1>12, FieldOperations
  <2>2. Alike((z * z * z) * t, z3 * t, P)
    BY <1>1, <1>5, <1>12, AlikeKeeps, FieldAlike
  <2>3. Alike((z * z * z) * t, 1, P)
    BY <1>9, <2>2, FieldAlike
  <2>4. Alike(y * ((z * z * z) * t), y * 1, P)
    BY <1>1, <1>12, <2>3, AlikeKeeps
  <2>5. y * ((z * z * z) * t) = (y * z * z * z) * t /\ y * 1 = y
    BY <1>1, <1>11
  <2>6. Alike(Curve!Mul(j.y, t), y, P)
    BY <2>1, <2>4, <2>5, FieldAlike
  <2> QED
    BY <2>1, <2>6, FieldAlike
<1> QED
  BY <1>10, <1>13, <1>14

(* The last steps of both formulae, in which w is the new divisor: from    *)
(* the slope and x, the third point of the line and its mirror image.      *)
LEMMA ThirdPoint ==
    ASSUME NEW x \in Int, NEW y \in Int, NEW x2 \in Int, NEW l \in Int, NEW w \in Int,
           NEW t, NEW u, NEW v, NEW q, NEW x3 \in Int, x3 = l * l - x - x2,
           Alike(t, l * w, P), Alike(u, x * w * w, P), Alike(q, y * w * w * w, P),
           Alike(v, x3 * w * w, P)
    PROVE  Alike(Curve!Minus(Curve!Mul(Curve!Minus(u, v), t), q),
                 (l * (x - x3) - y) * w * w * w, P)
<1>1. Alike(Curve!Minus(u, v), x * w * w - x3 * w * w, P)
  BY FieldOperations
<1>2. Alike(Curve!Mul(Curve!Minus(u, v), t), (x * w * w - x3 * w * w) * (l * w), P)
  BY <1>1, FieldOperations
<1>3. Alike(Curve!Minus(Curve!Mul(Curve!Minus(u, v), t), q),
            (x * w * w - x3 * w * w) * (l * w) - y * w * w * w, P)
  BY <1>2, FieldOperations
<1>4. (x * w * w - x3 * w * w) * (l * w) - y * w * w * w
        = (l * (x - x3) - y) * w * w * w
  OBVIOUS
<1> QED
  BY <1>3, <1>4

(* pointDouble's formulae are those of the tangent.                        *)
LEMMA DoubleFormula ==
    ASSUME NEW j \in JacobianPoints, NEW x \in Int, NEW y \in Int, Stands(j, x, y),
           NEW l \in Int, Alike(l * (2 * y), 3 * x * x, P)
    PROVE  LET d == Curve!pointDouble(j)
               w == 2 * y * j.z * j.z * j.z * j.z
               x3 == l * l - x - x
           IN  /\ d \in JacobianPoints /\ Alike(d.z, w, P)
               /\ Alike(d.x, x3 * w * w, P) /\ Alike(d.y, (l * (x - x3) - y) * w * w * w, P)
<1> DEFINE X == j.x
           Y == j.y
           z == j.z
           y2 == Curve!Mul(Y, Y)
           t == Curve!Mul(4, Curve!Mul(y2, X))
           u == Curve!Mul(3, Curve!Mul(X, X))
           uu == Curve!Mul(u, u)
           new == Curve!Minus(Curve!Minus(uu, t), t)
           q == Curve!Mul(8, Curve!Mul(y2, y2))
           newY == Curve!Minus(Curve!Mul(Curve!Minus(t, new), u), q)
           newZ == Curve!Mul(2, Curve!Mul(z, Y))
           w == 2 * y * z * z * z * z
           x3 == l * l - x - x
           a == x * z * z
           b == y * z * z * z
<1>1. z \in Int /\ j.infinity \in BOOLEAN /\ Alike(X, a, P) /\ Alike(Y, b, P)
      /\ Alike(z, z, P) /\ X \in Int /\ Y \in Int
  BY CurveIs, FieldAlike DEF JacobianPoints, Stands
<1>2. Curve!pointDouble(j)
        = [x |-> new, y |-> newY, z |-> newZ, infinity |-> j.infinity \/ j.y = 0]
  BY DEF Curve!pointDouble
<1> HIDE DEF X, Y, z
<1>3. \A k \in {2, 3, 4, 8} : Alike(k, k, P)
  BY FieldAlike
<1>4. w \in Int /\ x3 \in Int /\ a \in Int /\ b \in Int
  BY <1>1
<1>5. Alike(newZ, w, P) /\ newZ \in 0..(P - 1)
  <2>1. Alike(Curve!Mul(z, Y), z * b, P)
    BY <1>1, FieldOperations
  <2>2. newZ \in 0..(P - 1) /\ Alike(newZ, 2 * (z * b), P)
    BY <1>3, <2>1, FieldOperations
  <2>3. 2 * (z * b) = w
    BY <1>1
  <2> QED
    BY <2>2, <2>3
<1>6. Alike(y2, b * b, P)
  BY <1>1, FieldOperations
<1> HIDE DEF y2
<1>7. Alike(t, x * w * w, P)
  <2>1. Alike(Curve!Mul(y2, X), (b * b) * a, P)
    BY <1>1, <1>6, FieldOperations
  <2>2. Alike(t, 4 * ((b * b) * a), P)
    BY <1>3, <2>1, FieldOperations
  <2>3. 4 * ((b * b) * a) = x * w * w
    BY <1>1
  <2> QED
    BY <2>2, <2>3
<1>8. Alike(u, l * w, P)
  <2>1. Alike(Curve!Mul(X, X), a * a, P)
    BY <1>1, FieldOperations
  <2>2. Alike(u, 3 * (a * a), P)
    BY <1>3, <2>1, FieldOperations
  <2> DEFINE k == z * z * z * z
             m == 3 * x * x
             o == l * (2 * y)
  <2>3. 3 * (a * a) = m * k /\ l * w = o * k /\ k \in Int
    BY <1>1
  <2> HIDE DEF k, m, o
  <2>4. Alike(m, o, P) /\ Alike(k, k, P)
    BY <2>3, FieldAlike DEF m, o
  <2>5. Alike(m * k, o * k, P)
    <3>1. P \in Nat /\ P > 0
      BY CurveIs
    <3> QED
      BY <2>4, <3>1, AlikeKeeps
  <2> QED
    BY <2>2, <2>3, <2>5, FieldAlike
<1>9. Alike(q, y * w * w * w, P)
  <2>1. Alike(Curve!Mul(y2, y2), (b * b) * (b * b), P)
    BY <1>6, FieldOperations
  <2>2. Alike(q, 8 * ((b * b) * (b * b)), P)
    BY <1>3, <2>1, FieldOperations
  <2>3. 8 * ((b * b) * (b * b)) = y * w * w * w
    BY <1>1
  <2> QED
    BY <2>2, <2>3
<1> HIDE DEF t, u, q
<1>10. new \in 0..(P - 1) /\ Alike(new, x3 * w * w, P)
  <2>1. Alike(uu, (l * w) * (l * w), P)
    BY <1>8, FieldOperations
  <2> HIDE DEF uu
  <2>2. Alike(Curve!Minus(uu, t), (l * w) * (l * w) - x * w * w, P)
    BY <1>7, <2>1, FieldOperations
  <2>3. new \in 0..(P - 1) /\ Alike(new, (l * w) * (l * w) - x * w * w - x * w * w, P)
    BY <1>7, <2>2, FieldOperations
  <2> HIDE DEF w
  <2>4. (l * w) * (l * w) - x * w * w - x * w * w = x3 * w * w
    BY <1>4
  <2> QED
    BY <2>3, <2>4
<1> HIDE DEF new
<1>11. newY \in 0..(P - 1) /\ Alike(newY, (l * (x - x3) - y) * w * w * w, P)
  <2>1. Alike(newY, (l * (x - x3) - y) * w * w * w, P)
    <3>1. x3 = l * l - x - x
      OBVIOUS
    <3> HIDE DEF x3, w
    <3> QED
      BY <1>4, <1>7, <1>8, <1>9, <1>10, <3>1, ThirdPoint
  <2>2. newY \in 0..(P - 1)
    <3>1. \E k : Alike(Curve!Minus(t, new), k, P)
      BY <1>7, <1>10, FieldOperations
    <3>2. \E k : Alike(Curve!Mul(Curve!Minus(t, new), u), k, P)
      BY <1>8, <3>1, FieldOperations
    <3> QED
      BY <1>9, <3>2, FieldOperations
  <2> QED
    BY <2>1, <2>2
<1> HIDE DEF newY, newZ
<1>12. Curve!pointDouble(j) \in JacobianPoints
  BY <1>1, <1>2, <1>5, <1>10, <1>11 DEF JacobianPoints
<1> HIDE DEF w, x3
<1>13. /\ Alike(Curve!pointDouble(j).z, w, P) /\ Alike(Curve!pointDouble(j).x, x3 * w * w, P)
       /\ Alike(Curve!pointDouble(j).y, (l * (x - x3) - y) * w * w * w, P)
  BY <1>2, <1>5, <1>10, <1>11
<1> QED
  BY <1>12, <1>13 DEF w, x3, z

(* pointAdd's formulae are those of the line through two points.           *)
LEMMA AddFormula ==
    ASSUME NEW j \in JacobianPoints, NEW b \in AffinePoints, NEW x \in Int, NEW y \in Int,
           Stands(j, x, y), NEW l \in Int, Alike(l * (b.x - x), b.y - y, P)
    PROVE  LET d == Curve!AddInto(j, b)
               w == j.z * j.z * j.z * (b.x - x)
               x3 == l * l - x - b.x
           IN  /\ d \in JacobianPoints /\ Alike(d.z, w, P)
               /\ Alike(d.x, x3 * w * w, P) /\ Alike(d.y, (l * (x - x3) - y) * w * w * w, P)
<1> DEFINE X == j.x
           Y == j.y
           z == j.z
           bx == b.x
           by == b.y
           scaled == Curve!Scaled(j, b)
           s == Curve!Minus(scaled.s, X)
           t == Curve!Minus(scaled.t, Y)
           v == Curve!Mul(s, s)
           u == Curve!Mul(v, X)
           s3 == Curve!Mul(s, v)
           tt == Curve!Mul(t, t)
           new == Curve!Minus(Curve!Minus(Curve!Minus(tt, s3), u), u)
           q == Curve!Mul(s3, Y)
           newY == Curve!Minus(Curve!Mul(Curve!Minus(u, new), t), q)
           newZ == Curve!Mul(z, s)
           infinity == j.infinity \/ (j.x = scaled.s /\ j.y # scaled.t)
           e == bx - x
           w == z * z * z * e
           x3 == l * l - x - bx
           S == z * z * e
           c == x * z * z
           g == y * z * z * z
<1>1. /\ z \in Int /\ j.infinity \in BOOLEAN /\ Alike(X, c, P) /\ Alike(Y, g, P)
      /\ Alike(z, z, P) /\ X \in Int /\ Y \in Int /\ bx \in Int /\ by \in Int
      /\ Alike(bx, bx, P) /\ Alike(by, by, P)
  BY CurveIs, FieldAlike DEF JacobianPoints, AffinePoints, Stands
<1>2. Curve!AddInto(j, b) = [x |-> new, y |-> newY, z |-> newZ, infinity |-> infinity]
  BY DEF Curve!AddInto
<1>3. /\ scaled.s = Curve!Mul(Curve!Mul(z, z), bx)
      /\ scaled.t = Curve!Mul(Curve!Mul(Curve!Mul(z, z), z), by)
  BY DEF Curve!Scaled
<1>4. infinity \in BOOLEAN
  BY <1>1
<1>5. Alike(l * e, by - y, P)
  OBVIOUS
<1> HIDE DEF X, Y, z, bx, by, scaled, infinity
<1>6. e \in Int /\ w \in Int /\ x3 \in Int /\ S \in Int /\ c \in Int /\ g \in Int
  BY <1>1
<1>7. Alike(s, S, P)
  <2>1. Alike(Curve!Mul(z, z), z * z, P)
    BY <1>1, FieldOperations
  <2>2. Alike(scaled.s, z * z * bx, P)
    BY <1>1, <1>3, <2>1, FieldOperations
  <2>3. Alike(s, z * z * bx - c, P)
    BY <1>1, <2>2, FieldOperations
  <2>4. z * z * bx - c = S
    BY <1>1
  <2> QED
    BY <2>3, <2>4
<1>8. Alike(t, l * w, P)
  <2>1. Alike(Curve!Mul(z, z), z * z, P)
    BY <1>1, FieldOperations
  <2>2. Alike(Curve!Mul(Curve!Mul(z, z), z), z * z * z, P)
    BY <1>1, <2>1, FieldOperations
  <2>3. Alike(scaled.t, z * z * z * by, P)
    BY <1>1, <1>3, <2>2, FieldOperations
  <2>4. Alike(t, z * z * z * by - g, P)
    BY <1>1, <2>3, FieldOperations
  <2> DEFINE k == z * z * z
             m == by - y
             o == l * e
  <2>5. z * z * z * by - g = m * k /\ l * w = o * k /\ k \in Int
    BY <1>1, <1>6
  <2> HIDE DEF k, m, o
  <2>6. Alike(m, o, P) /\ Alike(k, k, P)
    BY <1>5, <2>5, FieldAlike DEF m, o
  <2>7. Alike(m * k, o * k, P)
    <3>1. P \in Nat /\ P > 0
      BY CurveIs
    <3> QED
      BY <2>6, <3>1, AlikeKeeps
  <2> QED
    BY <2>4, <2>5, <2>7, FieldAlike
<1> HIDE DEF s, t
<1>9. newZ \in 0..(P - 1) /\ Alike(newZ, w, P)
  <2>1. newZ \in 0..(P - 1) /\ Alike(newZ, z * S, P)
    BY <1>1, <1>7, FieldOperations
  <2>2. z * S = w
    BY <1>1, <1>6
  <2> QED
    BY <2>1, <2>2
<1>10. Alike(v, S * S, P)
  BY <1>7, FieldOperations
<1> HIDE DEF v
<1>11. Alike(u, x * w * w, P)
  <2>1. Alike(u, (S * S) * c, P)
    BY <1>1, <1>10, FieldOperations
  <2>2. (S * S) * c = x * w * w
    BY <1>1, <1>6
  <2> QED
    BY <2>1, <2>2
<1>12. Alike(s3, e * w * w, P)
  <2>1. Alike(s3, S * (S * S), P)
    BY <1>7, <1>10, FieldOperations
  <2>2. S * (S * S) = e * w * w
    BY <1>1, <1>6
  <2> QED
    BY <2>1, <2>2
<1> HIDE DEF u, s3
<1>13. Alike(q, y * w * w * w, P)
  <2>1. Alike(q, (e * w * w) * g, P)
    BY <1>1, <1>12, FieldOperations
  <2>2. (e * w * w) * g = y * w * w * w
    BY <1>1, <1>6
  <2> QED
    BY <2>1, <2>2
<1> HIDE DEF q
<1>14. new \in 0..(P - 1) /\ Alike(new, x3 * w * w, P)
  <2>1. Alike(tt, (l * w) * (l * w), P)
    BY <1>8, FieldOperations
  <2> HIDE DEF tt
  <2>2. Alike(Curve!Minus(tt, s3), (l * w) * (l * w) - e * w * w, P)
    BY <1>12, <2>1, FieldOperations
  <2>3. Alike(Curve!Minus(Curve!Minus(tt, s3), u),
              (l * w) * (l * w) - e * w * w - x * w * w, P)
    BY <1>11, <2>2, FieldOperations
  <2>4. /\ new \in 0..(P - 1)
        /\ Alike(new, (l * w) * (l * w) - e * w * w - x * w * w - x * w * w, P)
    BY <1>11, <2>3, FieldOperations
  <2> HIDE DEF w
  <2>5. (l * w) * (l * w) - e * w * w - x * w * w - x * w * w = x3 * w * w
    BY <1>1, <1>6
  <2> QED
    BY <2>4, <2>5
<1> HIDE DEF new
<1>15. newY \in 0..(P - 1) /\ Alike(newY, (l * (x - x3) - y) * w * w * w, P)
  <2>1. Alike(newY, (l * (x - x3) - y) * w * w * w, P)
    <3>1. x3 = l * l - x - bx
      OBVIOUS
    <3> HIDE DEF x3, w
    <3> QED
      BY <1>1, <1>6, <1>8, <1>11, <1>13, <1>14, <3>1, ThirdPoint
  <2>2. newY \in 0..(P - 1)
    <3>1. \E k : Alike(Curve!Minus(u, new), k, P)
      BY <1>11, <1>14, FieldOperations
    <3>2. \E k : Alike(Curve!Mul(Curve!Minus(u, new), t), k, P)
      BY <1>8, <3>1, FieldOperations
    <3> QED
      BY <1>13, <3>2, FieldOperations
  <2> QED
    BY <2>1, <2>2
<1> HIDE DEF newY, newZ
<1>16. Curve!AddInto(j, b) \in JacobianPoints
  BY <1>2, <1>4, <1>9, <1>14, <1>15 DEF JacobianPoints
<1> HIDE DEF w, x3
<1>17. /\ Alike(Curve!AddInto(j, b).z, w, P) /\ Alike(Curve!AddInto(j, b).x, x3 * w * w, P)
       /\ Alike(Curve!AddInto(j, b).y, (l * (x - x3) - y) * w * w * w, P)
  BY <1>2, <1>9, <1>14, <1>15
<1> QED
  BY <1>16, <1>17 DEF w, x3, e, z, bx

(* A division in the field.                                                *)
LEMMA FieldQuotient ==
    ASSUME NEW q, NEW n, Alike(q, n, P), NEW d \in 1..(P - 1), NEW e, Alike(d, e, P)
    PROVE  LET l == Curve!Mul(q, Curve!Invert[d])
           IN  l \in 0..(P - 1) /\ Alike(l * e, n, P)
<1> DEFINE i == Curve!Invert[d]
           l == Curve!Mul(q, i)
<1>1. i \in 1..(P - 1) /\ Alike(d * i, 1, P)
  BY InvertIs
<1>2. P \in Nat /\ P > 0 /\ q \in Int /\ n \in Int /\ d \in Int /\ e \in Int
  BY CurveIs DEF Alike
<1> HIDE DEF i
<1>3. i \in Int /\ Alike(i, i, P) /\ Alike(e, d, P)
  BY <1>1, FieldAlike
<1>4. l \in 0..(P - 1) /\ Alike(l, n * i, P)
  BY <1>3, FieldOperations
<1>5. Alike(l * e, (n * i) * d, P)
  BY <1>2, <1>3, <1>4, AlikeKeeps
<1>6. Alike(n, n, P)
  BY <1>2, FieldAlike
<1>7. Alike(n * (d * i), n * 1, P)
  BY <1>1, <1>2, <1>6, AlikeKeeps
<1>8. n * (d * i) = (n * i) * d /\ n * 1 = n
  BY <1>2, <1>3
<1>9. Alike(l * e, n, P)
  BY <1>5, <1>7, <1>8, FieldAlike
<1> QED
  BY <1>4, <1>9 DEF i

(* A finite point of the curve, as the equation its coordinates solve.     *)
LEMMA FinitePoint ==
    ASSUME NEW a, OnCurve(a), ~a.infinity
    PROVE  /\ a.x \in 0..(P - 1) /\ a.y \in 0..(P - 1) /\ a.x \in Int /\ a.y \in Int
           /\ a = [x |-> a.x, y |-> a.y, infinity |-> FALSE]
           /\ Alike(a.y * a.y, a.x * a.x * a.x + B, P)
<1>1. P \in Nat /\ a \in AffinePoints
  BY CurveIs DEF OnCurve
<1>2. a.x \in 0..(P - 1) /\ a.y \in 0..(P - 1)
  BY <1>1 DEF AffinePoints
<1>3. a = [x |-> a.x, y |-> a.y, infinity |-> FALSE]
  BY <1>1 DEF AffinePoints
<1>4. a.x \in Int /\ a.y \in Int
  BY <1>1, <1>2
<1> QED
  BY <1>2, <1>3, <1>4 DEF OnCurve

(* The slope of the tangent is that of the curve, and the third point of   *)
(* the line is on the curve if this factor is zero.                        *)
Rest(x1, y1, x2, l) == (x1 * x1 + x1 * x2 + x2 * x2) - l * (2 * y1 + l * (x2 - x1))

LEMMA TangentSlope ==
    ASSUME NEW a, OnCurve(a), ~a.infinity, Curve!Plus(a.y, a.y) # 0
    PROVE  LET l == Curve!Slope(a, a)
           IN  /\ l \in 0..(P - 1) /\ a.y # 0
               /\ Alike(l * (2 * a.y), 3 * a.x * a.x, P)
               /\ Alike(Rest(a.x, a.y, a.x, l), 0, P)
<1> DEFINE x == a.x
           y == a.y
           l == Curve!Slope(a, a)
           d == Curve!Mul(2, y)
           xx == Curve!Mul(x, x)
           q == Curve!Mul(3, xx)
<1>1. x \in Int /\ y \in Int /\ P \in Nat /\ P > 3 /\ Curve!Plus(y, y) # 0
  BY FinitePoint, CurveIs
<1>2. l = Curve!Mul(q, Curve!Invert[d])
  BY DEF Curve!Slope
<1> HIDE DEF x, y, l
<1>3. Alike(x, x, P) /\ Alike(y, y, P) /\ Alike(2, 2, P) /\ Alike(3, 3, P)
  <2>1. \A k \in {2, 3} : k \in Int
    OBVIOUS
  <2>2. \A k \in {2, 3} : Alike(k, k, P)
    BY <2>1, FieldAlike
  <2> QED
    BY <1>1, <2>2, FieldAlike
<1>4. Alike(xx, x * x, P)
  BY <1>3, FieldOperations
<1> HIDE DEF xx
<1>5. Alike(q, 3 * (x * x), P) /\ d \in 0..(P - 1) /\ Alike(d, 2 * y, P)
  BY <1>3, <1>4, FieldOperations
<1>6. Curve!Plus(y, y) \in 0..(P - 1) /\ Alike(Curve!Plus(y, y), y + y, P)
  BY <1>3, FieldOperations
<1>7. d # 0
  <2> SUFFICES ASSUME d = 0 PROVE FALSE
    OBVIOUS
  <2>1. y + y = 2 * y
    BY <1>1
  <2>2. Alike(0, 2 * y, P)
    BY <1>5
  <2>3. Alike(Curve!Plus(y, y), 0, P)
    BY <1>6, <2>1, <2>2, FieldAlike
  <2> QED
    BY <1>1, <1>6, <2>3, FieldAlike
<1>8. d \in 1..(P - 1)
  <2> HIDE DEF d
  <2> QED
    BY <1>1, <1>5, <1>7
<1> HIDE DEF q, d
<1>9. l \in 0..(P - 1) /\ Alike(l * (2 * y), 3 * (x * x), P)
  BY <1>2, <1>5, <1>8, FieldQuotient
<1>10. y # 0
  <2> SUFFICES ASSUME y = 0 PROVE FALSE
    OBVIOUS
  <2>1. Alike(Curve!Plus(y, y), 0, P)
    BY <1>6, 0 + 0 = 0
  <2> QED
    BY <1>1, <1>6, <2>1, FieldAlike
<1>11. Alike(Rest(x, y, x, l), 0, P)
  <2>1. Alike(3 * (x * x) - l * (2 * y), 0, P)
    <3>1. Alike(3 * (x * x), l * (2 * y), P)
      BY <1>9, FieldAlike
    <3>2. Prime(P)
      BY CurveIs
    <3> QED
      BY <3>1, <3>2, AlikeCancels
  <2>2. l \in Int
    BY <1>9
  <2>3. Rest(x, y, x, l) = 3 * (x * x) - l * (2 * y)
    BY <1>1, <2>2 DEF Rest
  <2> QED
    BY <2>1, <2>3
<1>12. 3 * (x * x) = 3 * x * x
  BY <1>1
<1> QED
  BY <1>9, <1>10, <1>11, <1>12 DEF x, y, l

(* And that of the chord.                                                  *)
LEMMA ChordSlope ==
    ASSUME NEW a, OnCurve(a), ~a.infinity, NEW b, OnCurve(b), ~b.infinity, a # b,
           ~(a.x = b.x /\ Curve!Plus(a.y, b.y) = 0)
    PROVE  LET l == Curve!Slope(a, b)
           IN  /\ l \in 0..(P - 1) /\ a.x # b.x
               /\ Alike(l * (b.x - a.x), b.y - a.y, P)
               /\ Alike(Rest(a.x, a.y, b.x, l), 0, P)
<1> DEFINE x1 == a.x
           y1 == a.y
           x2 == b.x
           y2 == b.y
           l == Curve!Slope(a, b)
           d == Curve!Minus(x2, x1)
           q == Curve!Minus(y2, y1)
           e == x2 - x1
           s == y2 - y1
<1>1. /\ x1 \in 0..(P - 1) /\ y1 \in 0..(P - 1) /\ x2 \in 0..(P - 1) /\ y2 \in 0..(P - 1)
      /\ x1 \in Int /\ y1 \in Int /\ x2 \in Int /\ y2 \in Int
      /\ P \in Nat /\ P > 3 /\ Prime(P) /\ B \in Int
  BY FinitePoint, CurveIs
<1>2. l = Curve!Mul(q, Curve!Invert[d])
  BY DEF Curve!Slope
<1>3. /\ Alike(y1 * y1, x1 * x1 * x1 + B, P) /\ Alike(y2 * y2, x2 * x2 * x2 + B, P)
      /\ ~(x1 = x2 /\ y1 = y2) /\ ~(x1 = x2 /\ Curve!Plus(y1, y2) = 0)
  <2>1. /\ Alike(y1 * y1, x1 * x1 * x1 + B, P)
        /\ a = [x |-> x1, y |-> y1, infinity |-> FALSE]
    BY FinitePoint
  <2>2. /\ Alike(y2 * y2, x2 * x2 * x2 + B, P)
        /\ b = [x |-> x2, y |-> y2, infinity |-> FALSE]
    BY FinitePoint
  <2> QED
    BY <2>1, <2>2
<1> HIDE DEF x1, x2, y1, y2, l
<1>4. Alike(x1, x1, P) /\ Alike(x2, x2, P) /\ Alike(y1, y1, P) /\ Alike(y2, y2, P)
  BY <1>1, FieldAlike
<1>5. x1 # x2
  <2> SUFFICES ASSUME x1 = x2 PROVE FALSE
    OBVIOUS
  <2>1. Alike(x1 * x1 * x1 + B, y2 * y2, P)
    BY <1>3, FieldAlike
  <2>2. Alike(y1 * y1, y2 * y2, P)
    BY <1>3, <2>1, FieldAlike
  <2>3. Alike(y1 * y1 - y2 * y2, 0, P)
    BY <1>1, <2>2, AlikeCancels
  <2>4. y1 * y1 - y2 * y2 = (y1 - y2) * (y1 + y2)
    BY <1>1
  <2> DEFINE f == y1 - y2
             g == y1 + y2
  <2>5. f \in Int /\ g \in Int /\ Alike(f * g, 0, P)
    BY <1>1, <2>3, <2>4
  <2> HIDE DEF f, g
  <2>6. Alike(f, 0, P) \/ Alike(g, 0, P)
    BY <1>1, <2>5, AlikeCancels
  <2>7. CASE Alike(f, 0, P)
    <3>1. Alike(y1, y2, P)
      BY <1>1, <2>7, AlikeCancels DEF f
    <3> QED
      BY <1>1, <1>3, <3>1, FieldAlike
  <2>8. CASE Alike(g, 0, P)
    <3>1. Curve!Plus(y1, y2) \in 0..(P - 1) /\ Alike(Curve!Plus(y1, y2), g, P)
      BY <1>4, FieldOperations DEF g
    <3>2. Alike(Curve!Plus(y1, y2), 0, P)
      BY <2>8, <3>1, FieldAlike
    <3> QED
      BY <1>3, <3>1, <3>2, FieldAlike
  <2> QED
    BY <2>6, <2>7, <2>8
<1>6. /\ Alike(q, s, P) /\ d \in 0..(P - 1) /\ Alike(d, e, P)
  BY <1>4, FieldOperations
<1>7. e \in Int /\ s \in Int /\ ~Alike(e, 0, P)
  <2>1. e \in Int /\ s \in Int
    BY <1>1
  <2>2. Alike(e, 0, P) => Alike(x2, x1, P)
    BY <1>1, AlikeCancels
  <2>3. Alike(x2, x1, P) => x2 = x1
    BY <1>1, FieldAlike
  <2> QED
    BY <1>5, <2>1, <2>2, <2>3
<1>8. d \in 1..(P - 1)
  <2> HIDE DEF d, e
  <2>1. d # 0
    BY <1>6, <1>7, FieldAlike
  <2> QED
    BY <1>1, <1>6, <2>1
<1> HIDE DEF q, d
<1>9. l \in 0..(P - 1) /\ Alike(l * e, s, P)
  BY <1>2, <1>6, <1>8, FieldQuotient
<1>10. Alike(Rest(x1, y1, x2, l), 0, P)
  <2> DEFINE h == l * e
             v == x2 * x2 * x2 - x1 * x1 * x1
             c == Rest(x1, y1, x2, l)
  <2>1. l \in Int /\ h \in Int /\ v \in Int /\ c \in Int
    BY <1>1, <1>9 DEF Rest
  <2>2. e * c = v - h * (2 * y1 + h)
    BY <1>1, <2>1 DEF Rest
  <2>3. Alike(2 * y1, 2 * y1, P) /\ P > 0
    BY <1>1, FieldAlike
  <2>4. Alike(2 * y1 + h, 2 * y1 + s, P)
    BY <1>1, <1>9, <2>3, AlikeKeeps
  <2>5. Alike(h * (2 * y1 + h), s * (2 * y1 + s), P)
    BY <1>1, <1>9, <2>3, <2>4, AlikeKeeps
  <2>6. s * (2 * y1 + s) = y2 * y2 - y1 * y1
    BY <1>1
  <2>7. Alike(y2 * y2 - y1 * y1, (x2 * x2 * x2 + B) - (x1 * x1 * x1 + B), P)
    BY <1>1, <1>3, <2>3, AlikeKeeps
  <2>8. (x2 * x2 * x2 + B) - (x1 * x1 * x1 + B) = v
    BY <1>1
  <2>9. Alike(h * (2 * y1 + h), v, P)
    BY <2>5, <2>6, <2>7, <2>8, FieldAlike
  <2>10. Alike(v, h * (2 * y1 + h), P)
    BY <2>9, FieldAlike
  <2> HIDE DEF v, h, c
  <2>11. Alike(v - h * (2 * y1 + h), 0, P)
    BY <1>1, <2>10, AlikeCancels
  <2>12. Alike(e * c, 0, P)
    BY <2>2, <2>11
  <2> HIDE DEF e
  <2>13. Alike(c, 0, P)
    BY <1>1, <1>7, <2>1, <2>12, AlikeCancels
  <2> QED
    BY <2>13 DEF c
<1> QED
  BY <1>5, <1>9, <1>10 DEF x1, x2, y1, y2, l

(* The third point of a line whose rest is zero is on the curve.           *)
LEMMA ThirdOnCurve ==
    ASSUME NEW x1 \in Int, NEW y1 \in Int, NEW x2 \in Int, NEW l \in Int,
           Alike(y1 * y1, x1 * x1 * x1 + B, P), Alike(Rest(x1, y1, x2, l), 0, P),
           NEW x \in 0..(P - 1), NEW y \in 0..(P - 1), NEW x3, x3 = l * l - x1 - x2,
           Alike(x, x3, P), Alike(y, l * (x1 - x3) - y1, P)
    PROVE  Alike(y * y, x * x * x + B, P)
<1> DEFINE y3 == l * (x1 - x3) - y1
           c == Rest(x1, y1, x2, l)
           v == y1 * y1 - (x1 * x1 * x1 + B)
           w == y3 * y3 - (x3 * x3 * x3 + B)
           f == x1 - x3
<1>1. P \in Nat /\ P > 0 /\ Prime(P) /\ B \in Int /\ x \in Int /\ y \in Int
  BY CurveIs
<1>2. x3 \in Int
  OBVIOUS
<1>3. y3 \in Int /\ c \in Int /\ f \in Int
  BY <1>2 DEF Rest
<1>4. v \in Int /\ w \in Int
  BY <1>1, <1>2, <1>3
<1>5. w = v + f * c
  <2>1. x3 = l * l - x1 - x2 /\ y3 = l * (x1 - x3) - y1
    OBVIOUS
  <2> HIDE DEF y3
  <2> QED
    BY <1>1, <1>2, <2>1 DEF Rest
<1>6. Alike(v, 0, P)
  BY <1>1, AlikeCancels
<1>7. Alike(f * c, f * 0, P)
  <2>1. Alike(f, f, P)
    BY <1>3, FieldAlike
  <2> QED
    BY <1>1, <2>1, AlikeKeeps
<1>8. Alike(w, 0, P)
  <2> HIDE DEF v, w, f, c
  <2>1. f * 0 = 0
    BY <1>3
  <2>2. Alike(v + f * c, 0 + 0, P)
    BY <1>1, <1>6, <1>7, <2>1, AlikeKeeps
  <2> QED
    BY <1>5, <2>2
<1>9. Alike(y3 * y3, x3 * x3 * x3 + B, P)
  <2> HIDE DEF y3
  <2>1. y3 * y3 \in Int /\ x3 * x3 * x3 + B \in Int
    BY <1>1, <1>2, <1>3
  <2> QED
    BY <1>1, <1>8, <2>1, AlikeCancels DEF w
<1>10. Alike(y, y3, P)
  OBVIOUS
<1> HIDE DEF y3
<1>11. Alike(y * y, y3 * y3, P) /\ Alike(x * x, x3 * x3, P)
  BY <1>1, <1>10, AlikeKeeps
<1>12. Alike(x * x * x, x3 * x3 * x3, P)
  BY <1>1, <1>11, AlikeKeeps
<1>13. Alike(x * x * x + B, x3 * x3 * x3 + B, P)
  <2>1. Alike(B, B, P)
    BY <1>1, FieldAlike
  <2> QED
    BY <1>1, <1>12, <2>1, AlikeKeeps
<1>14. Alike(x3 * x3 * x3 + B, x * x * x + B, P)
  BY <1>13, FieldAlike
<1>15. Alike(y * y, x3 * x3 * x3 + B, P)
  BY <1>9, <1>11, FieldAlike
<1> QED
  BY <1>14, <1>15, FieldAlike

(* The sum of two finite points that are not opposite is one, with the     *)
(* slope and the third point of their line.                                *)
LEMMA FiniteSum ==
    ASSUME NEW a, OnCurve(a), ~a.infinity, NEW b, OnCurve(b), ~b.infinity,
           ~(a.x = b.x /\ Curve!Plus(a.y, b.y) = 0)
    PROVE  LET s == Curve!GroupSum(a, b)
               l == Curve!Slope(a, b)
               x3 == l * l - a.x - b.x
           IN  /\ OnCurve(s) /\ ~s.infinity /\ l \in Int
               /\ Alike(s.x, x3, P) /\ Alike(s.y, l * (a.x - x3) - a.y, P)
<1> DEFINE x1 == a.x
           y1 == a.y
           x2 == b.x
           s == Curve!GroupSum(a, b)
           l == Curve!Slope(a, b)
           x3 == l * l - x1 - x2
           ll == Curve!Mul(l, l)
           x == Curve!Minus(Curve!Minus(ll, x1), x2)
           y == Curve!Minus(Curve!Mul(l, Curve!Minus(x1, x)), y1)
<1>1. /\ x1 \in Int /\ y1 \in Int /\ x2 \in Int
      /\ Alike(y1 * y1, x1 * x1 * x1 + B, P)
  BY FinitePoint
<1>2. l \in 0..(P - 1) /\ Alike(Rest(x1, y1, x2, l), 0, P)
  <2>1. CASE a = b
    BY <2>1, TangentSlope
  <2>2. CASE a # b
    BY <2>2, ChordSlope
  <2> QED
    BY <2>1, <2>2
<1>3. s = [x |-> x, y |-> y, infinity |-> FALSE]
  BY DEF Curve!GroupSum
<1> HIDE DEF x1, y1, x2, l, s
<1>4. P \in Nat
  BY CurveIs
<1>5. l \in Int
  BY <1>2, <1>4
<1>6. Alike(x1, x1, P) /\ Alike(y1, y1, P) /\ Alike(x2, x2, P) /\ Alike(l, l, P)
  BY <1>1, <1>5, FieldAlike
<1>7. x \in 0..(P - 1) /\ Alike(x, x3, P)
  <2>1. Alike(ll, l * l, P)
    BY <1>6, FieldOperations
  <2> HIDE DEF ll
  <2>2. Alike(Curve!Minus(ll, x1), l * l - x1, P)
    BY <1>6, <2>1, FieldOperations
  <2> QED
    BY <1>6, <2>2, FieldOperations
<1> HIDE DEF x
<1>8. y \in 0..(P - 1) /\ Alike(y, l * (x1 - x3) - y1, P)
  <2> HIDE DEF x3
  <2>1. Alike(Curve!Minus(x1, x), x1 - x3, P)
    BY <1>6, <1>7, FieldOperations
  <2>2. Alike(Curve!Mul(l, Curve!Minus(x1, x)), l * (x1 - x3), P)
    BY <1>6, <2>1, FieldOperations
  <2> QED
    BY <1>6, <2>2, FieldOperations
<1> HIDE DEF y
<1>9. Alike(y * y, x * x * x + B, P)
  <2>1. x3 = l * l - x1 - x2
    OBVIOUS
  <2> HIDE DEF x3
  <2> QED
    BY <1>1, <1>2, <1>5, <1>7, <1>8, <2>1, ThirdOnCurve
<1>10. OnCurve(s) /\ s.x = x /\ s.y = y /\ ~s.infinity
  BY <1>3, <1>7, <1>8, <1>9 DEF OnCurve, AffinePoints
<1> HIDE DEF x3
<1>11. Alike(s.x, x3, P) /\ Alike(s.y, l * (x1 - x3) - y1, P)
  BY <1>7, <1>8, <1>10
<1> QED
  BY <1>5, <1>10, <1>11 DEF x1, y1, x2, l, s, x3

(* The curve is closed under the law.                                      *)
LEMMA SumOnCurve ==
    ASSUME NEW a, OnCurve(a), NEW b, OnCurve(b)
    PROVE  OnCurve(Curve!GroupSum(a, b))
<1>1. CASE a.infinity
  BY <1>1 DEF Curve!GroupSum
<1>2. CASE ~a.infinity /\ b.infinity
  BY <1>2 DEF Curve!GroupSum
<1>3. CASE ~a.infinity /\ ~b.infinity /\ a.x = b.x /\ Curve!Plus(a.y, b.y) = 0
  <2>1. Curve!GroupSum(a, b) = Curve!AffineInfinity
    BY <1>3 DEF Curve!GroupSum
  <2>2. P \in Nat /\ P > 3
    BY CurveIs
  <2> QED
    BY <2>1, <2>2 DEF OnCurve, AffinePoints, Curve!AffineInfinity
<1>4. CASE ~a.infinity /\ ~b.infinity /\ ~(a.x = b.x /\ Curve!Plus(a.y, b.y) = 0)
  BY <1>4, FiniteSum
<1> QED
  BY <1>1, <1>2, <1>3, <1>4

(* Whatever the arguments, the operations end in the field.                *)
LEMMA FieldTyping ==
    \A a, c \in Int : /\ Curve!Mul(a, c) \in 0..(P - 1) /\ Curve!Minus(a, c) \in 0..(P - 1)
                      /\ Curve!Mul(a, c) \in Int /\ Curve!Minus(a, c) \in Int
<1> SUFFICES ASSUME NEW a \in Int, NEW c \in Int
             PROVE  /\ Curve!Mul(a, c) \in 0..(P - 1) /\ Curve!Minus(a, c) \in 0..(P - 1)
                    /\ Curve!Mul(a, c) \in Int /\ Curve!Minus(a, c) \in Int
  OBVIOUS
<1>1. Alike(a, a, P) /\ Alike(c, c, P)
  BY FieldAlike
<1>2. Curve!Mul(a, c) \in 0..(P - 1) /\ Curve!Minus(a, c) \in 0..(P - 1)
  BY <1>1, FieldOperations
<1>3. P \in Nat
  BY CurveIs
<1> QED
  BY <1>2, <1>3

(* And a point's double is one.                                            *)
LEMMA DoubleTyping ==
    ASSUME NEW j \in JacobianPoints
    PROVE  Curve!pointDouble(j) \in JacobianPoints
<1> DEFINE y2 == Curve!Mul(j.y, j.y)
           t == Curve!Mul(4, Curve!Mul(y2, j.x))
           u == Curve!Mul(3, Curve!Mul(j.x, j.x))
           x == Curve!Minus(Curve!Minus(Curve!Mul(u, u), t), t)
           y == Curve!Minus(Curve!Mul(Curve!Minus(t, x), u), Curve!Mul(8, Curve!Mul(y2, y2)))
           z == Curve!Mul(2, Curve!Mul(j.z, j.y))
<1>1. Curve!pointDouble(j) = [x |-> x, y |-> y, z |-> z, infinity |-> j.infinity \/ j.y = 0]
  BY DEF Curve!pointDouble
<1>2. P \in Nat /\ j.x \in 0..(P - 1) /\ j.y \in 0..(P - 1) /\ j.z \in 0..(P - 1)
      /\ j.infinity \in BOOLEAN
  BY CurveIs DEF JacobianPoints
<1>3. j.x \in Int /\ j.y \in Int /\ j.z \in Int
  BY <1>2
<1>4. y2 \in Int
  BY <1>3, FieldTyping
<1>9. \A c \in Int : /\ Curve!Mul(2, c) \in 0..(P - 1) /\ Curve!Mul(2, c) \in Int
                    /\ Curve!Mul(3, c) \in Int /\ Curve!Mul(4, c) \in Int
                    /\ Curve!Mul(8, c) \in Int
  <2>1. \A k \in {2, 3, 4, 8} : k \in Int
    OBVIOUS
  <2>2. \A k \in {2, 3, 4, 8} : \A c \in Int : Curve!Mul(k, c) \in 0..(P - 1) /\ Curve!Mul(k, c) \in Int
    BY <2>1, FieldTyping
  <2> QED
    BY <2>2
<1> HIDE DEF y2
<1>5. t \in Int /\ u \in Int
  <2>1. Curve!Mul(y2, j.x) \in Int /\ Curve!Mul(j.x, j.x) \in Int
    BY <1>3, <1>4, FieldTyping
  <2> QED
    BY <2>1, <1>9
<1> HIDE DEF t, u
<1>6. x \in 0..(P - 1) /\ x \in Int
  BY <1>5, FieldTyping
<1> HIDE DEF x
<1>7. y \in 0..(P - 1)
  <2>1. Curve!Minus(t, x) \in Int /\ Curve!Mul(y2, y2) \in Int
    BY <1>4, <1>5, <1>6, FieldTyping
  <2>2. Curve!Mul(Curve!Minus(t, x), u) \in Int /\ Curve!Mul(8, Curve!Mul(y2, y2)) \in Int
    BY <1>5, <1>9, <2>1, FieldTyping
  <2> QED
    BY <2>2, FieldTyping
<1>8. z \in 0..(P - 1)
  <2>1. Curve!Mul(j.z, j.y) \in Int
    BY <1>3, FieldTyping
  <2> QED
    BY <1>9, <2>1
<1> HIDE DEF y, z
<1> QED
  BY <1>1, <1>2, <1>6, <1>7, <1>8 DEF JacobianPoints

(* Twice a number of the field is zero only for zero, and so is its        *)
(* product with a power of what is not zero.                               *)
LEMMA DoublesToZero ==
    ASSUME NEW y \in 0..(P - 1), NEW z \in 1..(P - 1)
    PROVE  /\ Curve!Plus(y, y) = 0 <=> y = 0
           /\ \A m \in Int : Alike(m, y * z * z * z, P) => (Alike(m, 0, P) <=> y = 0)
           /\ ~Alike(z * z * z, 0, P)
           /\ y # 0 => ~Alike(2 * y * z * z * z * z, 0, P)
<1>1. P \in Nat /\ P > 3 /\ Prime(P) /\ y \in Int /\ z \in Int /\ z \in 0..(P - 1) /\ z # 0
      /\ 0 \in 0..(P - 1) /\ 2 \in 0..(P - 1) /\ 2 \in Int /\ 2 # 0
  BY CurveIs
<1>2. Alike(y, 0, P) <=> y = 0
  BY <1>1, FieldAlike
<1>3. ~Alike(z, 0, P) /\ ~Alike(2, 0, P)
  BY <1>1, FieldAlike
<1>4. ~Alike(z * z, 0, P) /\ z * z \in Int
  BY <1>1, <1>3, AlikeCancels
<1>5. ~Alike(z * z * z, 0, P) /\ z * z * z \in Int
  <2> DEFINE g == z * z
  <2>1. g \in Int /\ ~Alike(g, 0, P)
    BY <1>4
  <2> HIDE DEF g
  <2>2. ~Alike(g * z, 0, P) /\ g * z \in Int
    BY <1>1, <1>3, <2>1, AlikeCancels
  <2> QED
    BY <2>2 DEF g
<1>6. Curve!Plus(y, y) = 0 <=> y = 0
  <2>1. Alike(y, y, P)
    BY <1>1, FieldAlike
  <2>2. Curve!Plus(y, y) \in 0..(P - 1) /\ Alike(Curve!Plus(y, y), y + y, P)
    BY <2>1, FieldOperations
  <2>3. y + y = 2 * y
    BY <1>1
  <2>4. ASSUME Curve!Plus(y, y) = 0 PROVE y = 0
    <3>1. Alike(2 * y, 0, P)
      BY <2>2, <2>3, <2>4, FieldAlike
    <3> QED
      BY <1>1, <1>2, <1>3, <3>1, AlikeCancels
  <2>5. ASSUME y = 0 PROVE Curve!Plus(y, y) = 0
    BY <2>2, <2>5, 0 + 0 = 0, FieldAlike
  <2> QED
    BY <2>4, <2>5
<1>7. ASSUME NEW m \in Int, Alike(m, y * z * z * z, P)
      PROVE  Alike(m, 0, P) <=> y = 0
  <2>1. y * z * z * z = y * (z * z * z)
    BY <1>1
  <2>2. ASSUME y = 0 PROVE Alike(m, 0, P)
    <3>1. y * z * z * z = 0
      BY <1>1, <2>2
    <3> QED
      BY <1>7, <3>1
  <2>3. ASSUME Alike(m, 0, P) PROVE y = 0
    <3>1. Alike(y * (z * z * z), 0, P)
      BY <1>7, <2>1, <2>3, FieldAlike
    <3> QED
      BY <1>1, <1>2, <1>5, <3>1, AlikeCancels
  <2> QED
    BY <2>2, <2>3
<1>8. ASSUME y # 0 PROVE ~Alike(2 * y * z * z * z * z, 0, P)
  <2> DEFINE f == 2 * y
             g == (z * z) * (z * z)
  <2>1. f \in Int /\ g \in Int /\ 2 * y * z * z * z * z = f * g
    BY <1>1
  <2>2. ~Alike(f, 0, P) /\ ~Alike(g, 0, P)
    BY <1>1, <1>2, <1>3, <1>4, <1>8, AlikeCancels
  <2> HIDE DEF f, g
  <2>3. ~Alike(f * g, 0, P)
    BY <1>1, <2>1, <2>2, AlikeCancels
  <2> QED
    BY <2>1, <2>3
<1> QED
  BY <1>5, <1>6, <1>7, <1>8

(* pointDouble adds what is represented to itself.                         *)
LEMMA DoubleIs ==
    ASSUME NEW a, OnCurve(a), NEW j, Represents(j, a)
    PROVE  Represents(Curve!pointDouble(j), Curve!GroupSum(a, a))
<1> DEFINE d == Curve!pointDouble(j)
           s == Curve!GroupSum(a, a)
           l == Curve!Slope(a, a)
           x == a.x
           y == a.y
           x3 == l * l - x - x
           y3 == l * (x - x3) - y
           w == 2 * y * j.z * j.z * j.z * j.z
<1>1. j \in JacobianPoints /\ j.infinity = a.infinity /\ d \in JacobianPoints
  BY DoubleTyping DEF Represents
<1>2. d.infinity = (j.infinity \/ j.y = 0)
  BY DEF Curve!pointDouble
<1>3. CASE a.infinity
  <2>1. s = a
    BY <1>3 DEF Curve!GroupSum
  <2> QED
    BY <1>1, <1>2, <1>3, <2>1 DEF Represents
<1>4. CASE ~a.infinity
  <2>1. Stands(j, x, y) /\ j.z \in 1..(P - 1) /\ j.y \in 0..(P - 1) /\ j.y \in Int /\ j.z \in Int
    <3>1. P \in Nat /\ j.z \in 0..(P - 1) /\ j.z # 0 /\ j.y \in 0..(P - 1) /\ Stands(j, x, y)
      BY <1>1, <1>4, CurveIs DEF Represents, JacobianPoints
    <3> QED
      BY <3>1
  <2>2. x \in 0..(P - 1) /\ y \in 0..(P - 1) /\ x \in Int /\ y \in Int
    BY <1>4, FinitePoint
  <2>3. /\ Curve!Plus(y, y) = 0 <=> y = 0
        /\ Alike(j.y, 0, P) <=> y = 0
        /\ y # 0 => ~Alike(w, 0, P)
    <3>1. Alike(j.y, y * j.z * j.z * j.z, P)
      BY <2>1 DEF Stands
    <3> HIDE DEF y
    <3> QED
      BY <2>1, <2>2, <3>1, DoublesToZero
  <2>4. j.y = 0 <=> y = 0
    BY <2>1, <2>3, FieldAlike
  <2>5. CASE y = 0
    <3>1. s = Curve!AffineInfinity
      BY <1>4, <2>3, <2>5 DEF Curve!GroupSum
    <3>2. s.infinity = TRUE
      BY <3>1 DEF Curve!AffineInfinity
    <3>3. d.infinity = TRUE
      BY <1>2, <2>4, <2>5
    <3> HIDE DEF d, s
    <3>4. Represents(d, s)
      BY <1>1, <3>2, <3>3 DEF Represents
    <3> QED
      BY <3>4 DEF d, s
  <2>6. CASE y # 0
    <3>1. /\ OnCurve(s) /\ ~s.infinity /\ l \in Int
          /\ Alike(s.x, x3, P) /\ Alike(s.y, y3, P)
      BY <1>4, <2>3, <2>6, FiniteSum
    <3>2. Alike(l * (2 * y), 3 * x * x, P)
      BY <1>4, <2>3, <2>6, TangentSlope
    <3> HIDE DEF s, l, x, y
    <3>3. /\ Alike(d.z, w, P) /\ Alike(d.x, x3 * w * w, P) /\ Alike(d.y, y3 * w * w * w, P)
      BY <1>1, <2>1, <2>2, <3>1, <3>2, DoubleFormula
    <3>4. w \in Int /\ x3 \in Int
      BY <2>1, <2>2, <3>1
    <3> HIDE DEF w, x3
    <3>5. y3 \in Int
      BY <2>2, <3>1, <3>4
    <3> HIDE DEF y3, d
    <3>6. Stands(d, s.x, s.y)
      BY <1>1, <3>1, <3>3, <3>4, <3>5, StandsIs
    <3>7. d.z # 0
      <4> SUFFICES ASSUME d.z = 0 PROVE FALSE
        OBVIOUS
      <4> QED
        BY <2>3, <2>6, <3>3, FieldAlike
    <3>8. ~d.infinity
      BY <1>1, <1>2, <1>4, <2>4, <2>6
    <3>9. d.infinity = s.infinity
      <4>1. d.infinity \in BOOLEAN /\ s.infinity \in BOOLEAN
        BY <1>1, <3>1 DEF JacobianPoints, OnCurve, AffinePoints
      <4> QED
        BY <3>1, <3>8, <4>1
    <3>10. Represents(d, s)
      BY <1>1, <3>6, <3>7, <3>9 DEF Represents
    <3> QED
      BY <3>10 DEF d, s
  <2> QED
    BY <2>5, <2>6
<1> QED
  BY <1>3, <1>4

(* pointAdd's comparisons, made without a division, tell equal coordinates *)
(* from others.                                                            *)
LEMMA ScaledIs ==
    ASSUME NEW j \in JacobianPoints, j.z # 0, NEW x \in 0..(P - 1), NEW y \in 0..(P - 1),
           Stands(j, x, y), NEW b, OnCurve(b), ~b.infinity
    PROVE  /\ j.x = Curve!Scaled(j, b).s <=> x = b.x
           /\ j.y = Curve!Scaled(j, b).t <=> y = b.y
<1> DEFINE z == j.z
           u == b.x
           v == b.y
           z2 == Curve!Mul(z, z)
           z3 == Curve!Mul(z2, z)
           s == Curve!Mul(z2, u)
           t == Curve!Mul(z3, v)
           X == j.x
           Y == j.y
<1>1. /\ P \in Nat /\ Prime(P) /\ z \in 0..(P - 1) /\ z # 0 /\ x \in Int /\ y \in Int
      /\ X \in 0..(P - 1) /\ Y \in 0..(P - 1)
      /\ u \in 0..(P - 1) /\ v \in 0..(P - 1) /\ u \in Int /\ v \in Int
      /\ Alike(X, x * z * z, P) /\ Alike(Y, y * z * z * z, P)
  BY CurveIs, FinitePoint DEF JacobianPoints, Stands
<1>2. Curve!Scaled(j, b) = [s |-> s, t |-> t]
  BY DEF Curve!Scaled
<1> HIDE DEF z, u, v, X, Y
<1>3. z \in Int /\ z \in 1..(P - 1) /\ 0 \in 0..(P - 1)
  BY <1>1
<1>4. Alike(z, z, P) /\ Alike(u, u, P) /\ Alike(v, v, P)
  BY <1>1, <1>3, FieldAlike
<1>5. Alike(z2, z * z, P)
  BY <1>4, FieldOperations
<1> HIDE DEF z2
<1>6. s \in 0..(P - 1) /\ Alike(s, (z * z) * u, P) /\ Alike(z3, z * z * z, P)
  BY <1>4, <1>5, FieldOperations
<1> HIDE DEF z3
<1>7. t \in 0..(P - 1) /\ Alike(t, (z * z * z) * v, P)
  BY <1>4, <1>6, FieldOperations
<1> HIDE DEF s, t
<1> DEFINE f == z * z
           g == z * z * z
<1>8. f \in Int /\ g \in Int /\ x * z * z = f * x /\ y * z * z * z = g * y
  BY <1>1, <1>3
<1>9. ~Alike(f, 0, P) /\ ~Alike(g, 0, P)
  <2>1. ~Alike(z, 0, P)
    BY <1>1, <1>3, FieldAlike
  <2>2. ~Alike(f, 0, P)
    BY <1>1, <1>3, <2>1, AlikeCancels
  <2> QED
    BY <1>3, <2>2, DoublesToZero
<1> HIDE DEF f
<1>10. Alike(X, f * x, P) /\ Alike(Y, g * y, P) /\ Alike(s, f * u, P) /\ Alike(t, g * v, P)
  BY <1>1, <1>6, <1>7, <1>8 DEF f
<1> HIDE DEF g
<1>11. ASSUME NEW c \in Int, ~Alike(c, 0, P), NEW k \in 0..(P - 1), NEW m \in 0..(P - 1),
              NEW C \in 0..(P - 1), NEW D \in 0..(P - 1), Alike(C, c * k, P), Alike(D, c * m, P)
       PROVE  C = D <=> k = m
  <2>1. ASSUME C = D PROVE k = m
    <3>1. k \in Int /\ m \in Int
      BY <1>1
    <3>2. Alike(c * k, C, P)
      BY <1>11, FieldAlike
    <3>3. Alike(c * k, c * m, P)
      BY <1>11, <2>1, <3>2, FieldAlike
    <3>4. Alike(k, m, P)
      BY <1>1, <1>11, <3>1, <3>3, AlikeCancels
    <3> QED
      BY <3>4, FieldAlike
  <2>2. ASSUME k = m PROVE C = D
    <3>1. Alike(C, D, P)
      BY <1>11, <2>2, FieldAlike
    <3> QED
      BY <3>1, FieldAlike
  <2> QED
    BY <2>1, <2>2
<1>12. X = s <=> x = u
  BY <1>1, <1>6, <1>8, <1>9, <1>10, <1>11
<1>13. Y = t <=> y = v
  BY <1>1, <1>7, <1>8, <1>9, <1>10, <1>11
<1> QED
  BY <1>2, <1>12, <1>13 DEF X, Y, u, v

(* AddInto adds another point, opposite ones included.                     *)
LEMMA AddIntoIs ==
    ASSUME NEW a, OnCurve(a), ~a.infinity, NEW j, Represents(j, a),
           NEW b, OnCurve(b), ~b.infinity, a # b
    PROVE  Represents(Curve!AddInto(j, b), Curve!GroupSum(a, b))
<1> DEFINE d == Curve!AddInto(j, b)
           sum == Curve!GroupSum(a, b)
           l == Curve!Slope(a, b)
           x == a.x
           y == a.y
           e == b.x - x
           x3 == l * l - x - b.x
           y3 == l * (x - x3) - y
           w == j.z * j.z * j.z * e
           scaled == Curve!Scaled(j, b)
<1>1. /\ j \in JacobianPoints /\ ~j.infinity /\ j.z # 0 /\ Stands(j, x, y)
      /\ P \in Nat /\ P > 3 /\ Prime(P) /\ b \in AffinePoints
  BY CurveIs DEF Represents, OnCurve
<1>2. d.infinity = (j.infinity \/ (j.x = scaled.s /\ j.y # scaled.t))
  BY DEF Curve!AddInto
<1>3. /\ x \in 0..(P - 1) /\ y \in 0..(P - 1) /\ x \in Int /\ y \in Int
      /\ a = [x |-> x, y |-> y, infinity |-> FALSE]
  BY FinitePoint
<1>4. /\ b.x \in 0..(P - 1) /\ b.y \in 0..(P - 1) /\ b.x \in Int /\ b.y \in Int
      /\ b = [x |-> b.x, y |-> b.y, infinity |-> FALSE]
  BY FinitePoint
<1>5. d.infinity = (x = b.x /\ y # b.y)
  <2>1. j.x = scaled.s <=> x = b.x
    BY <1>1, <1>3, ScaledIs
  <2>2. j.y = scaled.t <=> y = b.y
    BY <1>1, <1>3, ScaledIs
  <2> QED
    BY <1>1, <1>2, <2>1, <2>2
<1>6. ~(x = b.x /\ y = b.y)
  BY <1>3, <1>4
<1>7. CASE x = b.x /\ Curve!Plus(y, b.y) = 0
  <2>1. sum.infinity = TRUE
    BY <1>7 DEF Curve!GroupSum, Curve!AffineInfinity
  <2>2. d.infinity = TRUE
    BY <1>5, <1>6, <1>7
  <2>3. d \in JacobianPoints
    <3> DEFINE X == j.x
               Y == j.y
               z == j.z
               u == b.x
               v == b.y
               z2 == Curve!Mul(z, z)
               z3 == Curve!Mul(z2, z)
               c == Curve!Mul(z2, u)
               h == Curve!Mul(z3, v)
               m == Curve!Minus(c, X)
               n == Curve!Minus(h, Y)
               mm == Curve!Mul(m, m)
               q == Curve!Mul(mm, X)
               m3 == Curve!Mul(m, mm)
               newX == Curve!Minus(Curve!Minus(Curve!Minus(Curve!Mul(n, n), m3), q), q)
               newY == Curve!Minus(Curve!Mul(Curve!Minus(q, newX), n), Curve!Mul(m3, Y))
               newZ == Curve!Mul(z, m)
    <3>1. d = [x |-> newX, y |-> newY, z |-> newZ, infinity |-> d.infinity]
      BY DEF Curve!AddInto, Curve!Scaled
    <3>2. X \in Int /\ Y \in Int /\ z \in Int /\ u \in Int /\ v \in Int
      BY <1>1, <1>4 DEF JacobianPoints
    <3> HIDE DEF X, Y, z, u, v, d
    <3>3. z2 \in Int
      BY <3>2, FieldTyping
    <3> HIDE DEF z2
    <3>4. z3 \in Int /\ c \in Int
      BY <3>2, <3>3, FieldTyping
    <3> HIDE DEF z3, c
    <3>5. h \in Int /\ m \in Int
      BY <3>2, <3>4, FieldTyping
    <3> HIDE DEF h, m
    <3>6. n \in Int /\ mm \in Int
      BY <3>2, <3>5, FieldTyping
    <3> HIDE DEF n, mm
    <3>7. q \in Int /\ m3 \in Int /\ Curve!Mul(n, n) \in Int
      BY <3>2, <3>5, <3>6, FieldTyping
    <3> HIDE DEF q, m3
    <3>8. newX \in Int /\ newX \in 0..(P - 1)
      <4>1. Curve!Minus(Curve!Mul(n, n), m3) \in Int
        BY <3>7, FieldTyping
      <4>2. Curve!Minus(Curve!Minus(Curve!Mul(n, n), m3), q) \in Int
        BY <3>7, <4>1, FieldTyping
      <4> QED
        BY <3>7, <4>2, FieldTyping
    <3> HIDE DEF newX
    <3>9. newY \in 0..(P - 1)
      <4>1. Curve!Minus(q, newX) \in Int /\ Curve!Mul(m3, Y) \in Int
        BY <3>2, <3>7, <3>8, FieldTyping
      <4>2. Curve!Mul(Curve!Minus(q, newX), n) \in Int
        BY <3>6, <4>1, FieldTyping
      <4> QED
        BY <4>1, <4>2, FieldTyping
    <3>10. newZ \in 0..(P - 1)
      BY <3>2, <3>5, FieldTyping
    <3> HIDE DEF newY, newZ
    <3>11. d = [x |-> newX, y |-> newY, z |-> newZ, infinity |-> TRUE]
      BY <2>2, <3>1
    <3> HIDE DEF d
    <3>12. [x |-> newX, y |-> newY, z |-> newZ, infinity |-> TRUE] \in JacobianPoints
      BY <3>8, <3>9, <3>10 DEF JacobianPoints
    <3>13. d \in JacobianPoints
      BY <3>11, <3>12
    <3> QED
      BY <3>13 DEF d
  <2> HIDE DEF d, sum
  <2>4. Represents(d, sum)
    BY <2>1, <2>2, <2>3 DEF Represents
  <2> QED
    BY <2>4 DEF d, sum
<1>8. CASE ~(x = b.x /\ Curve!Plus(y, b.y) = 0)
  <2>1. /\ OnCurve(sum) /\ ~sum.infinity /\ l \in Int
        /\ Alike(sum.x, x3, P) /\ Alike(sum.y, y3, P)
    BY <1>8, FiniteSum
  <2>2. x # b.x /\ Alike(l * e, b.y - y, P)
    BY <1>8, ChordSlope
  <2> HIDE DEF sum, l, x, y
  <2>3. /\ d \in JacobianPoints /\ Alike(d.z, w, P)
        /\ Alike(d.x, x3 * w * w, P) /\ Alike(d.y, y3 * w * w * w, P)
    BY <1>1, <1>3, <2>1, <2>2, AddFormula
  <2>4. j.z \in 1..(P - 1) /\ j.z \in Int /\ e \in Int /\ x3 \in Int
    <3>1. j.z \in 0..(P - 1)
      BY <1>1 DEF JacobianPoints
    <3> QED
      BY <1>1, <1>3, <1>4, <2>1, <3>1
  <2>5. ~Alike(w, 0, P)
    <3> DEFINE g == j.z * j.z * j.z
    <3>1. ~Alike(g, 0, P)
      BY <1>3, <2>4, DoublesToZero
    <3>2. ~Alike(e, 0, P)
      <4>1. Alike(e, 0, P) => Alike(b.x, x, P)
        BY <1>1, <1>3, <1>4, AlikeCancels
      <4> QED
        BY <1>3, <1>4, <2>2, <4>1, FieldAlike
    <3>3. g \in Int
      BY <2>4
    <3> HIDE DEF g, e
    <3>4. ~Alike(g * e, 0, P)
      BY <1>1, <2>4, <3>1, <3>2, <3>3, AlikeCancels
    <3> QED
      BY <3>4 DEF g
  <2>6. w \in Int
    <3> HIDE DEF e
    <3> QED
      BY <2>4
  <2> HIDE DEF w, x3, e
  <2>7. y3 \in Int
    BY <1>3, <2>1, <2>4
  <2> HIDE DEF y3, d
  <2>8. Stands(d, sum.x, sum.y)
    BY <2>1, <2>3, <2>4, <2>6, <2>7, StandsIs
  <2>9. d.z # 0
    <3> SUFFICES ASSUME d.z = 0 PROVE FALSE
      OBVIOUS
    <3>1. Alike(w, 0, P)
      BY <2>3, FieldAlike
    <3> QED
      BY <2>5, <3>1
  <2>10. d.infinity = sum.infinity
    <3>1. d.infinity \in BOOLEAN /\ sum.infinity \in BOOLEAN
      BY <2>1, <2>3 DEF JacobianPoints, OnCurve, AffinePoints
    <3> QED
      BY <1>5, <2>1, <2>2, <3>1
  <2>11. Represents(d, sum)
    BY <2>3, <2>8, <2>9, <2>10 DEF Represents
  <2> QED
    BY <2>11 DEF d, sum
<1> QED
  BY <1>7, <1>8

(* pointAdd adds it to whatever is represented, dummies included.          *)
THEOREM AddsPoint ==
    ASSUME NEW a, OnCurve(a), NEW j, Represents(j, a), NEW b, OnCurve(b), NEW other
    PROVE  Represents(Curve!pointAdd(j, other, b).p1, Curve!GroupSum(a, b))
<1> DEFINE d == Curve!pointAdd(j, other, b).p1
           s == Curve!GroupSum(a, b)
<1>1. /\ j \in JacobianPoints /\ j.infinity = a.infinity /\ P \in Nat /\ P > 3
      /\ b \in AffinePoints
  BY CurveIs DEF Represents, OnCurve
<1>2. CASE j.infinity
  <2> DEFINE c == Curve!affineToJacobian(b)
  <2>1. d = c /\ s = b
    BY <1>1, <1>2 DEF Curve!pointAdd, Curve!GroupSum
  <2>2. c = [x |-> b.x, y |-> b.y, z |-> 1, infinity |-> b.infinity]
    BY DEF Curve!affineToJacobian
  <2>3. b.x \in 0..(P - 1) /\ b.y \in 0..(P - 1) /\ b.infinity \in BOOLEAN /\ 1 \in 0..(P - 1)
    BY <1>1 DEF AffinePoints
  <2>4. c \in JacobianPoints
    BY <2>2, <2>3 DEF JacobianPoints
  <2>5. Stands(c, b.x, b.y)
    <3> DEFINE u == b.x
               v == b.y
    <3>1. u \in Int /\ v \in Int /\ c.x = u /\ c.y = v /\ c.z = 1
      BY <1>1, <2>2, <2>3
    <3> HIDE DEF u, v, c
    <3>2. u * 1 * 1 = u /\ v * 1 * 1 * 1 = v
      BY <3>1
    <3>3. Stands(c, u, v)
      BY <3>1, <3>2, FieldAlike DEF Stands
    <3> QED
      BY <3>3 DEF u, v
  <2>6. Represents(c, b)
    BY <2>2, <2>4, <2>5 DEF Represents
  <2> QED
    BY <2>1, <2>6
<1>3. CASE ~j.infinity /\ b.infinity
  BY <1>1, <1>3 DEF Curve!pointAdd, Curve!GroupSum
<1>4. CASE ~j.infinity /\ ~b.infinity
  <2>1. d = IF Curve!Same(j, b) THEN Curve!pointDouble(j) ELSE Curve!AddInto(j, b)
    BY <1>4 DEF Curve!pointAdd
  <2>2. Curve!Same(j, b) <=> a.x = b.x /\ a.y = b.y
    <3>1. ~a.infinity /\ j.z # 0 /\ Stands(j, a.x, a.y)
      BY <1>1, <1>4 DEF Represents
    <3>2. a.x \in 0..(P - 1) /\ a.y \in 0..(P - 1)
      BY <3>1, FinitePoint
    <3>3. j.x = Curve!Scaled(j, b).s <=> a.x = b.x
      BY <1>1, <1>4, <3>1, <3>2, ScaledIs
    <3>4. j.y = Curve!Scaled(j, b).t <=> a.y = b.y
      BY <1>1, <1>4, <3>1, <3>2, ScaledIs
    <3> QED
      BY <3>3, <3>4 DEF Curve!Same
  <2>3. a = b <=> a.x = b.x /\ a.y = b.y
    <3>1. a = [x |-> a.x, y |-> a.y, infinity |-> FALSE]
      BY <1>1, <1>4, FinitePoint
    <3>2. b = [x |-> b.x, y |-> b.y, infinity |-> FALSE]
      BY <1>4, FinitePoint
    <3> QED
      BY <3>1, <3>2
  <2>4. CASE a = b
    BY <2>1, <2>2, <2>3, <2>4, DoubleIs
  <2>5. CASE a # b
    BY <1>1, <1>4, <2>1, <2>2, <2>3, <2>5, AddIntoIs
  <2> QED
    BY <2>4, <2>5
<1> QED
  BY <1>2, <1>3, <1>4

(* What CurveFits assumes of the base, and of adding its multiples.        *)
Top == Shifted(ScalarBits) - 1

LEMMA BaseIs ==
    /\ Top \in Nat /\ ScalarBits \in Nat /\ OnCurve(G) /\ ~G.infinity
    /\ \A m \in 0..(Top \div 2) :
           Curve!GroupSum(Curve!Multiple[m], Curve!Multiple[m]) = Curve!Multiple[2 * m]
<1>1. ScalarBits \in Nat /\ P \in Nat /\ P > 3 /\ Prime(P) /\ B \in Int
  BY CurveIs
<1>2. Top \in Nat
  <2>1. Shifted(ScalarBits) \in Nat /\ Shifted(ScalarBits) > 0
    BY <1>1, ShiftDoubles
  <2> QED
    BY <2>1 DEF Top
<1>3. Curve!Shifted(ScalarBits) = Shifted(ScalarBits)
  BY DEF Shifted, Curve!Shifted
<1>4. /\ G \in [x : 0..(P - 1), y : 0..(P - 1), infinity : {FALSE}]
      /\ (G.y * G.y - G.x * G.x * G.x - B) % P = 0
  BY CallsAssumption DEF Curve!CurveFits
<1>5. \A m \in 0..(Top \div 2) :
           Curve!GroupSum(Curve!Multiple[m], Curve!Multiple[m]) = Curve!Multiple[2 * m]
  BY <1>3, CallsAssumption DEF Curve!CurveFits, Top
<1> DEFINE x == G.x
           y == G.y
<1>6. G \in AffinePoints /\ ~G.infinity /\ x \in 0..(P - 1) /\ y \in 0..(P - 1)
  BY <1>4 DEF AffinePoints
<1>7. Alike(y * y, x * x * x + B, P)
  <2> DEFINE u == y * y
             v == x * x * x + B
  <2>1. (y * y - x * x * x - B) % P = 0
    BY <1>4
  <2> HIDE DEF x, y
  <2>2. x \in Int /\ y \in Int
    BY <1>1, <1>6
  <2>3. u \in Int /\ v \in Int /\ y * y - x * x * x - B = u - v
    BY <1>1, <2>2
  <2>4. u - v \in Int /\ (u - v) % P = 0
    BY <2>1, <2>3
  <2> HIDE DEF u, v
  <2>5. 0 % P = 0
    BY <1>1, SmallModulo
  <2>6. Alike(u - v, 0, P)
    BY <2>4, <2>5 DEF Alike
  <2> QED
    BY <1>1, <2>3, <2>6, AlikeCancels DEF u, v
<1> QED
  BY <1>1, <1>2, <1>5, <1>6, <1>7 DEF OnCurve

(* The multiples follow one another, and lie on the curve.                 *)
LEMMA MultiplesAre ==
    /\ Curve!Multiple[0] = Curve!AffineInfinity
    /\ \A m \in 1..Top : Curve!Multiple[m] = Curve!GroupSum(Curve!Multiple[m - 1], G)
    /\ \A m \in 0..Top : OnCurve(Curve!Multiple[m])
<1> DEFINE S == {a \in AffinePoints : OnCurve(a)}
           step == [m \in 1..Top |-> [a \in S |-> Curve!GroupSum(a, G)]]
           zero == Curve!AffineInfinity
           w == Curve!Multiple
<1>1. Top \in Nat /\ OnCurve(G)
  BY BaseIs
<1>2. \A a : a \in S <=> OnCurve(a)
  BY DEF OnCurve
<1>3. zero \in S
  <2>1. P \in Nat /\ P > 3
    BY CurveIs
  <2>2. zero \in AffinePoints /\ zero.infinity
    BY <2>1 DEF AffinePoints, Curve!AffineInfinity
  <2> QED
    BY <2>2 DEF OnCurve
<1> HIDE DEF zero
<1>4. \A a \in S : Curve!GroupSum(a, G) \in S
  <2> SUFFICES ASSUME NEW a \in S PROVE Curve!GroupSum(a, G) \in S
    OBVIOUS
  <2>1. OnCurve(Curve!GroupSum(a, G))
    BY <1>1, <1>2, SumOnCurve
  <2> QED
    BY <1>2, <2>1
<1> HIDE DEF S
<1>5. step \in [1..Top -> [S -> S]] /\ \A m \in 1..Top : \A a \in S : step[m][a] = Curve!GroupSum(a, G)
  BY <1>4
<1> HIDE DEF step
<1>6. PICK f : Runs(f, Top, S, zero, step)
  BY <1>1, <1>3, <1>5, RecursionUpTo
<1>7. f = [m \in 0..Top |-> IF m = 0 THEN zero ELSE Curve!GroupSum(f[m - 1], G)]
  <2>1. \A m \in 1..Top : m - 1 \in 0..Top
    BY <1>1
  <2>2. \A m \in 1..Top : f[m] = Curve!GroupSum(f[m - 1], G)
    BY <1>5, <1>6, <2>1 DEF Runs
  <2>3. \A m \in 0..Top : f[m] = IF m = 0 THEN zero ELSE Curve!GroupSum(f[m - 1], G)
    BY <1>1, <1>6, <2>2 DEF Runs
  <2> QED
    BY <1>6, <2>3 DEF Runs
<1>8. w = [m \in 0..Top |-> IF m = 0 THEN zero ELSE Curve!GroupSum(w[m - 1], G)]
  <2>1. Curve!Shifted(ScalarBits) - 1 = Top
    BY DEF Shifted, Curve!Shifted, Top
  <2> QED
    BY <1>7, <2>1 DEF Curve!Multiple, zero
<1> HIDE DEF w
<1>9. w[0] = zero /\ \A m \in 1..Top : w[m] = Curve!GroupSum(w[m - 1], G)
  BY <1>1, <1>8
<1>10. Runs(w, Top, S, zero, step)
  <2>1. w = [m \in 0..Top |-> w[m]]
    BY <1>8
  <2>2. \A m \in 1..Top : w[m - 1] \in S => w[m] = step[m][w[m - 1]]
    BY <1>5, <1>9
  <2> QED
    BY <1>1, <1>3, <1>5, <1>9, <2>1, <2>2, RecursionOnly
<1>11. \A m \in 0..Top : OnCurve(w[m])
  <2>1. \A m \in 0..Top : w[m] \in S
    BY <1>10 DEF Runs
  <2> QED
    BY <1>2, <2>1
<1> QED
  BY <1>9, <1>11 DEF w, zero

(* The bits of the scalar that are taken, and the one that is next.        *)
LEMMA ScalarTaken ==
    ASSUME NEW v \in 0..Top, NEW i \in 0..ScalarBits
    PROVE  /\ v \div Shifted(i) \in 0..Top
           /\ i = ScalarBits => v \div Shifted(i) = 0
           /\ i = 0 => v \div Shifted(i) = v
           /\ i > 0 => /\ v \div Shifted(i) \in 0..(Top \div 2)
                       /\ 2 * (v \div Shifted(i)) \in 0..Top
                       /\ (v \div Shifted(i - 1)) % 2 \in 0..1
                       /\ v \div Shifted(i - 1)
                            = 2 * (v \div Shifted(i)) + ((v \div Shifted(i - 1)) % 2)
<1> DEFINE s == Shifted(i)
           a == v \div s
<1>1. Top \in Nat /\ ScalarBits \in Nat /\ v \in Nat /\ v <= Top /\ i \in Nat
  BY BaseIs
<1>2. s \in Nat /\ s > 0
  BY <1>1, ShiftDoubles
<1> HIDE DEF s
<1>3. a \in Nat /\ a <= v
  <2>1. a \in Int /\ v % s \in 0..(s - 1) /\ v = s * a + (v % s)
    BY <1>1, <1>2, Division
  <2> DEFINE e == v % s
             t == s * a
  <2>2. t \in Int /\ e \in Nat /\ v = t + e /\ e < s
    BY <1>2, <2>1
  <2>3. a >= 0
    <3> SUFFICES ASSUME a <= -1 PROVE FALSE
      BY <2>1
    <3> DEFINE n == -a
    <3>1. n \in Nat /\ 1 <= n
      BY <2>1
    <3>2. s * 1 <= s * n
      BY <1>2, <3>1, Bigger
    <3>3. t = -(s * n)
      BY <1>2, <2>1
    <3> DEFINE m == s * n
    <3>4. s <= m /\ m \in Int /\ t = -m
      BY <1>2, <3>1, <3>2, <3>3
    <3> HIDE DEF m, t, e, n, a
    <3> QED
      BY <1>1, <1>2, <2>2, <3>4
  <2>4. a <= t
    <3>1. a * 1 <= a * s
      BY <1>2, <2>1, <2>3, Bigger
    <3>2. a * s = t /\ a * 1 = a
      BY <1>2, <2>1
    <3> QED
      BY <3>1, <3>2
  <2> HIDE DEF e, t, a
  <2> QED
    BY <1>1, <2>1, <2>2, <2>3, <2>4
<1>4. i = ScalarBits => a = 0
  <2> SUFFICES ASSUME i = ScalarBits PROVE a = 0
    OBVIOUS
  <2>1. v < s
    BY <1>1, <1>2 DEF s, Top
  <2>2. s * 0 + v = v /\ v \in 0..(s - 1)
    BY <1>1, <1>2, <2>1
  <2>3. (s * 0 + v) \div s = 0
    BY <1>2, <2>2, Quotient
  <2> QED
    BY <2>2, <2>3
<1>5. i = 0 => a = v
  <2> SUFFICES ASSUME i = 0 PROVE a = v
    OBVIOUS
  <2>1. s = 1
    BY ShiftDoubles DEF s
  <2> QED
    BY <1>1, <2>1
<1>6. ASSUME i > 0
      PROVE  /\ a \in 0..(Top \div 2) /\ 2 * a \in 0..Top
             /\ (v \div Shifted(i - 1)) % 2 \in 0..1
             /\ v \div Shifted(i - 1) = 2 * a + ((v \div Shifted(i - 1)) % 2)
  <2> DEFINE h == Shifted(i - 1)
             c == v \div h
  <2>1. i - 1 \in Nat /\ (i - 1) + 1 = i
    BY <1>1, <1>6
  <2>2. h \in Nat /\ h > 0 /\ s = h * 2
    <3>1. h \in Nat /\ h > 0 /\ Shifted((i - 1) + 1) = 2 * h
      BY <2>1, ShiftDoubles
    <3> HIDE DEF h
    <3> QED
      BY <2>1, <3>1 DEF s
  <2> HIDE DEF h
  <2>3. a = c \div 2
    <3>1. v \div (h * 2) = (v \div h) \div 2
      BY <1>1, <2>2, DividedTwice
    <3> QED
      BY <2>2, <3>1
  <2>4. c \in Int /\ v % h \in 0..(h - 1) /\ v = h * c + (v % h)
    BY <1>1, <2>2, Division
  <2> HIDE DEF c, a
  <2>5. c = 2 * a + (c % 2) /\ c % 2 \in 0..1
    BY <2>3, <2>4, Division
  <2>6. c <= v
    <3> SUFFICES ASSUME c > v PROVE FALSE
      BY <1>1, <2>4
    <3> DEFINE e == v % h
               t == h * c
    <3>1. c \in Nat
      BY <1>1, <2>4
    <3>2. c * 1 <= c * h
      BY <2>2, <3>1, Bigger
    <3>3. c <= t /\ t \in Int /\ e \in Nat /\ v = t + e
      BY <2>2, <2>4, <3>1, <3>2
    <3> HIDE DEF e, t
    <3> QED
      BY <1>1, <2>4, <3>3
  <2>7. 2 * a \in 0..Top /\ a \in 0..(Top \div 2)
    <3> DEFINE e == c % 2
    <3>1. e \in 0..1 /\ c = 2 * a + e
      BY <2>5
    <3> HIDE DEF e
    <3> QED
      BY <1>1, <1>3, <2>4, <2>6, <3>1
  <2> QED
    BY <2>5, <2>7 DEF c, h
<1>7. a \in 0..Top
  <2> HIDE DEF a
  <2> QED
    BY <1>1, <1>3
<1> QED
  BY <1>4, <1>5, <1>6, <1>7 DEF a, s

(* Of the points with the same x, the parity of y picks one.               *)
LEMMA ParityPicks ==
    ASSUME NEW a, OnCurve(a), ~a.infinity, NEW y \in 0..(P - 1),
           Curve!Mul(y, y) = Curve!Plus(Curve!Mul(a.x, Curve!Mul(a.x, a.x)), B),
           y % 2 = a.y % 2
    PROVE  y = a.y
<1> DEFINE x == a.x
           v == a.y
           f == y - v
           g == y + v
<1>1. /\ P \in Nat /\ P > 3 /\ Prime(P) /\ B \in Int /\ y \in Int
      /\ x \in Int /\ v \in 0..(P - 1) /\ v \in Int
      /\ Alike(v * v, x * x * x + B, P) /\ y % 2 = v % 2
      /\ Curve!Mul(y, y) = Curve!Plus(Curve!Mul(x, Curve!Mul(x, x)), B)
  BY CurveIs, FinitePoint
<1> HIDE DEF x, v
<1>2. Alike(x, x, P) /\ Alike(y, y, P) /\ Alike(B, B, P)
  BY <1>1, FieldAlike
<1>3. Alike(Curve!Mul(y, y), y * y, P)
  BY <1>2, FieldOperations
<1>4. Alike(Curve!Plus(Curve!Mul(x, Curve!Mul(x, x)), B), x * (x * x) + B, P)
  <2>1. Alike(Curve!Mul(x, x), x * x, P)
    BY <1>2, FieldOperations
  <2>2. Alike(Curve!Mul(x, Curve!Mul(x, x)), x * (x * x), P)
    BY <1>2, <2>1, FieldOperations
  <2> QED
    BY <1>2, <2>2, FieldOperations
<1>5. Alike(y * y, v * v, P)
  <2>1. x * (x * x) + B = x * x * x + B
    BY <1>1
  <2>2. Alike(y * y, Curve!Mul(y, y), P)
    BY <1>3, FieldAlike
  <2>3. Alike(y * y, x * x * x + B, P)
    BY <1>1, <1>4, <2>1, <2>2, FieldAlike
  <2>4. Alike(x * x * x + B, v * v, P)
    BY <1>1, FieldAlike
  <2> QED
    BY <2>3, <2>4, FieldAlike
<1>6. f \in Int /\ g \in Int /\ Alike(f * g, 0, P)
  <2>1. y * y - v * v = f * g /\ f \in Int /\ g \in Int
    BY <1>1
  <2>2. Alike(y * y - v * v, 0, P)
    BY <1>1, <1>5, AlikeCancels
  <2> QED
    BY <2>1, <2>2
<1> HIDE DEF f, g
<1>7. Alike(f, 0, P) \/ Alike(g, 0, P)
  BY <1>1, <1>6, AlikeCancels
<1>8. CASE Alike(f, 0, P)
  <2>1. Alike(y, v, P)
    BY <1>1, <1>8, AlikeCancels DEF f
  <2>2. y = v
    BY <1>1, <2>1, FieldAlike
  <2> QED
    BY <2>2 DEF v
<1>9. CASE Alike(g, 0, P)
  <2>1. g % P = 0 /\ g \in 0..(2 * P - 2)
    <3>1. g % P = 0 % P
      BY <1>9 DEF Alike
    <3>2. 0 % P = 0
      BY <1>1, SmallModulo
    <3> QED
      BY <1>1, <3>1, <3>2 DEF g
  <2>2. g = 0 \/ g = P
    <3> DEFINE q == g \div P
               m == P * q
    <3>1. q \in Int /\ g = m + (g % P)
      BY <1>1, <2>1, Division
    <3>2. g = m
      <4>1. m \in Int
        BY <1>1, <3>1
      <4> HIDE DEF m, q
      <4> QED
        BY <1>6, <2>1, <3>1, <4>1
    <3>3. q < 2
      <4> SUFFICES ASSUME 2 <= q PROVE FALSE
        BY <3>1
      <4>1. q \in Nat /\ 2 \in Nat
        BY <3>1
      <4> HIDE DEF q
      <4>2. P * 2 <= P * q
        BY <1>1, <4>1, Bigger
      <4>3. P * 2 <= g
        BY <3>2, <4>2
      <4> HIDE DEF m
      <4> QED
        BY <1>1, <2>1, <4>3
    <3>4. q > -1
      <4> SUFFICES ASSUME q <= -1 PROVE FALSE
        BY <3>1
      <4> DEFINE n == -q
      <4>1. n \in Nat /\ 1 <= n /\ 1 \in Nat
        BY <3>1
      <4>2. m = -(P * n)
        BY <1>1, <3>1
      <4> HIDE DEF n, q, m
      <4>3. P * 1 <= P * n
        BY <1>1, <4>1, Bigger
      <4> DEFINE o == P * n
      <4>4. P <= o /\ m = -o /\ o \in Int
        BY <1>1, <4>1, <4>2, <4>3
      <4> HIDE DEF o
      <4> QED
        BY <1>1, <2>1, <3>2, <4>4
    <3>5. q = 0 \/ q = 1
      <4> HIDE DEF q
      <4> QED
        BY <3>1, <3>3, <3>4
    <3> HIDE DEF q
    <3> QED
      BY <1>1, <3>2, <3>5
  <2>3. g # P
    <3> SUFFICES ASSUME g = P PROVE FALSE
      OBVIOUS
    <3>1. P % 2 # 0
      <4>1. \A d \in 2..(P - 1) : P % d # 0
        BY <1>1 DEF Prime
      <4>2. 2 \in 2..(P - 1)
        BY <1>1
      <4> QED
        BY <4>1, <4>2
    <3>2. (y + v) % 2 = 0
      BY <1>1
    <3> QED
      BY <3>1, <3>2 DEF g
  <2>4. y = v
    <3>1. y + v = 0 /\ y \in Nat /\ v \in Nat
      BY <1>1, <2>2, <2>3 DEF g
    <3> QED
      BY <3>1
  <2> QED
    BY <2>4 DEF v
<1> QED
  BY <1>7, <1>8, <1>9

(* While a point is multiplied: the accumulator represents the multiple of *)
(* the base that the bits taken give, doubled between the two halves of a  *)
(* turn.                                                                   *)
Multiplication ==
    /\ scalar \in 0..Top /\ bit \in 0..ScalarBits
    /\ pc \in {"double", "add", "return", "serialised"}
    /\ pc \in {"double", "add"} => point = G
    /\ pc = "double" => Represents(accumulator, Curve!Multiple[scalar \div Shifted(bit)])
    /\ pc = "add" =>
           /\ bit > 0
           /\ Represents(accumulator, Curve!Multiple[2 * (scalar \div Shifted(bit))])
    /\ pc = "return" => Curve!SamePoint(point, Curve!Multiple[scalar])
    /\ pc = "serialised" => Curve!SerialisedIsMultiple
PointInv == fun = "point" => Multiplication

(* It starts from nothing.                                                 *)
LEMMA MultiplicationInit == Curve!Init => Multiplication
<1> SUFFICES ASSUME Curve!Init PROVE Multiplication
  OBVIOUS
<1>1. /\ point = G /\ scalar \in Scalars /\ bit = ScalarBits /\ pc = "double"
      /\ accumulator = [Curve!JacobianZero EXCEPT !.infinity = TRUE]
  BY DEF Curve!Init
<1>2. scalar \in 0..Top
  BY <1>1, CurveIs DEF Top
<1>3. bit \in 0..ScalarBits
  BY <1>1, BaseIs
<1>4. scalar \div Shifted(bit) = 0
  BY <1>1, <1>2, <1>3, ScalarTaken
<1>5. Represents(accumulator, Curve!AffineInfinity)
  <2>1. accumulator = [x |-> 0, y |-> 0, z |-> 0, infinity |-> TRUE]
    BY <1>1 DEF Curve!JacobianZero
  <2>2. 0 \in 0..(P - 1)
    BY CurveIs
  <2>3. accumulator \in JacobianPoints
    BY <2>1, <2>2 DEF JacobianPoints
  <2> QED
    BY <2>1, <2>3 DEF Represents, Curve!AffineInfinity
<1> QED
  BY <1>1, <1>2, <1>3, <1>4, <1>5, MultiplesAre DEF Multiplication

(* Doubling is adding the multiple to itself.                              *)
LEMMA DoubleKeeps == Multiplication /\ Curve!Double => Multiplication'
<1> SUFFICES ASSUME Multiplication, Curve!Double PROVE Multiplication'
  OBVIOUS
<1> DEFINE m == scalar \div Shifted(bit)
<1>1. /\ pc = "double" /\ bit > 0 /\ accumulator' = Curve!pointDouble(accumulator)
      /\ pc' = "add" /\ point' = point /\ scalar' = scalar /\ bit' = bit
  BY DEF Curve!Double
<1>2. /\ scalar \in 0..Top /\ bit \in 0..ScalarBits /\ point = G
      /\ Represents(accumulator, Curve!Multiple[m])
  BY <1>1 DEF Multiplication
<1>3. m \in 0..(Top \div 2) /\ m \in 0..Top
  BY <1>1, <1>2, ScalarTaken
<1>4. OnCurve(Curve!Multiple[m])
  BY <1>3, MultiplesAre
<1>5. Curve!GroupSum(Curve!Multiple[m], Curve!Multiple[m]) = Curve!Multiple[2 * m]
  BY <1>3, BaseIs
<1> HIDE DEF m
<1>6. Represents(accumulator', Curve!Multiple[2 * m])
  BY <1>1, <1>2, <1>4, <1>5, DoubleIs
<1> QED
  BY <1>1, <1>2, <1>6 DEF Multiplication, m

(* And a bit that is one adds the base, a bit that is zero nothing.        *)
LEMMA AddBitKeeps == Multiplication /\ Curve!AddBit => Multiplication'
<1> SUFFICES ASSUME Multiplication, Curve!AddBit PROVE Multiplication'
  OBVIOUS
<1> DEFINE m == scalar \div Shifted(bit)
           n == scalar \div Shifted(bit - 1)
           a == Curve!Multiple[2 * m]
           b == IF n % 2 = 1 THEN G ELSE Curve!AffineInfinity
<1>1. /\ scalar \in 0..Top /\ bit \in 0..ScalarBits /\ bit > 0 /\ point = G
      /\ Represents(accumulator, a) /\ pc = "add"
  <2>1. pc = "add"
    BY DEF Curve!AddBit
  <2> QED
    BY <2>1 DEF Multiplication
<1>2. /\ accumulator' = Curve!pointAdd(accumulator, junk, b).p1
      /\ bit' = bit - 1 /\ pc' = "double" /\ point' = point /\ scalar' = scalar
  <2>1. Curve!Shifted(bit - 1) = Shifted(bit - 1)
    BY DEF Shifted, Curve!Shifted
  <2> QED
    BY <1>1, <2>1 DEF Curve!AddBit
<1>3. 2 * m \in 0..Top /\ n % 2 \in 0..1 /\ n = 2 * m + (n % 2) /\ m \in 0..Top
  BY <1>1, ScalarTaken
<1>4. bit - 1 \in 0..ScalarBits
  BY <1>1, BaseIs
<1>5. n \in 0..Top
  BY <1>1, <1>4, ScalarTaken
<1>6. OnCurve(a)
  BY <1>3, MultiplesAre
<1>7. OnCurve(b)
  <2>1. OnCurve(G) /\ 0 \in 0..Top
    BY BaseIs
  <2>2. OnCurve(Curve!AffineInfinity)
    BY <2>1, MultiplesAre
  <2> QED
    BY <2>1, <2>2
<1>8. Represents(accumulator', Curve!GroupSum(a, b))
  <2> HIDE DEF a, b
  <2> QED
    BY <1>1, <1>2, <1>6, <1>7, AddsPoint
<1>9. CASE n % 2 = 1
  <2>1. n \in 1..Top /\ n - 1 = 2 * m
    <3> DEFINE e == n % 2
    <3>1. n = 2 * m + e /\ e = 1
      BY <1>3, <1>9
    <3> HIDE DEF e, n, m
    <3> QED
      BY <1>3, <1>5, <3>1, BaseIs
  <2>2. Curve!Multiple[n] = Curve!GroupSum(Curve!Multiple[n - 1], G)
    BY <2>1, MultiplesAre
  <2>3. Represents(accumulator', Curve!Multiple[n])
    BY <1>8, <1>9, <2>1, <2>2
  <2> HIDE DEF n
  <2> QED
    BY <1>1, <1>2, <1>4, <2>3 DEF Multiplication, n
<1>10. CASE n % 2 # 1
  <2>1. n = 2 * m
    <3> DEFINE e == n % 2
    <3>1. n = 2 * m + e /\ e = 0
      BY <1>3, <1>10
    <3> HIDE DEF e, n, m
    <3> QED
      BY <1>3, <1>5, <3>1, BaseIs
  <2>2. b = Curve!AffineInfinity
    BY <1>10
  <2> HIDE DEF b
  <2>3. Represents(accumulator', a)
    <3> HIDE DEF a
    <3>1. CASE a.infinity
      <4>1. Curve!GroupSum(a, b) = b /\ b.infinity = TRUE
        BY <2>2, <3>1 DEF Curve!GroupSum, Curve!AffineInfinity
      <4>2. a.infinity = TRUE
        BY <1>6, <3>1 DEF OnCurve, AffinePoints
      <4> QED
        BY <1>8, <4>1, <4>2 DEF Represents
    <3>2. CASE ~a.infinity
      BY <1>8, <2>2, <3>2 DEF Curve!GroupSum, Curve!AffineInfinity
    <3> QED
      BY <3>1, <3>2
  <2>4. Represents(accumulator', Curve!Multiple[n])
    BY <2>1, <2>3
  <2> HIDE DEF n, a
  <2> QED
    BY <1>1, <1>2, <1>4, <2>4 DEF Multiplication, n
<1> QED
  BY <1>9, <1>10

(* Back in affine coordinates, it is the multiple.                         *)
LEMMA AffineMultiple ==
    ASSUME NEW j, NEW m \in 0..Top, Represents(j, Curve!Multiple[m])
    PROVE  Curve!SamePoint(Curve!jacobianToAffine(j), Curve!Multiple[m])
<1> DEFINE a == Curve!Multiple[m]
           b == Curve!jacobianToAffine(j)
<1>1. OnCurve(a)
  BY MultiplesAre
<1>2. b.infinity = j.infinity
  BY DEF Curve!jacobianToAffine
<1>3. Represents(j, a)
  OBVIOUS
<1> HIDE DEF a
<1>4. b.infinity = a.infinity
  BY <1>2, <1>3 DEF Represents
<1>5. ASSUME ~a.infinity PROVE b = a
  <2>1. /\ a = [x |-> a.x, y |-> a.y, infinity |-> FALSE]
        /\ a.x \in 0..(P - 1) /\ a.y \in 0..(P - 1)
    BY <1>1, <1>5, FinitePoint
  <2>2. j \in JacobianPoints /\ j.infinity = FALSE /\ j.z # 0 /\ Stands(j, a.x, a.y)
    BY <1>3, <1>5, <2>1 DEF Represents
  <2>3. b = [x |-> a.x, y |-> a.y, infinity |-> j.infinity]
    BY <2>1, <2>2, AffineIs
  <2> QED
    BY <2>1, <2>2, <2>3
<1> HIDE DEF b
<1>6. Curve!SamePoint(b, a)
  BY <1>4, <1>5 DEF Curve!SamePoint
<1> QED
  BY <1>6 DEF a, b

(* The loop ends with all bits taken.                                      *)
LEMMA ReturnKeeps == Multiplication /\ Curve!Return => Multiplication'
<1> SUFFICES ASSUME Multiplication, Curve!Return PROVE Multiplication'
  OBVIOUS
<1>1. /\ pc = "double" /\ bit = 0 /\ point' = Curve!jacobianToAffine(accumulator)
      /\ pc' = "return" /\ scalar' = scalar /\ bit' = bit
  BY DEF Curve!Return
<1>2. /\ scalar \in 0..Top /\ bit \in 0..ScalarBits
      /\ Represents(accumulator, Curve!Multiple[scalar \div Shifted(bit)])
  BY <1>1 DEF Multiplication
<1>3. scalar \div Shifted(bit) = scalar
  BY <1>1, <1>2, ScalarTaken
<1>4. Curve!SamePoint(point', Curve!Multiple[scalar])
  BY <1>1, <1>2, <1>3, AffineMultiple
<1> QED
  BY <1>1, <1>2, <1>4 DEF Multiplication

(* What is written of a multiple gives it back.                            *)
LEMMA SerialiseKeeps ==
    ASSUME NEW do_compress \in BOOLEAN, Multiplication, Curve!Serialise(do_compress)
    PROVE  Multiplication'
<1> DEFINE a == Curve!Multiple[scalar]
<1>1. /\ pc = "return" /\ out' = Curve!ecdsaSerialise(point, do_compress)
      /\ pc' = "serialised" /\ scalar' = scalar /\ bit' = bit
  BY DEF Curve!Serialise
<1>2. scalar \in 0..Top /\ bit \in 0..ScalarBits /\ Curve!SamePoint(point, a)
  BY <1>1 DEF Multiplication
<1>3. OnCurve(a)
  BY <1>2, MultiplesAre
<1> DEFINE Given(o) ==
             IF o = <<0>> THEN a.infinity
             ELSE \A y \in 0..(P - 1) :
                     /\ Curve!Mul(y, y) = Curve!Plus(Curve!Mul(o[2], Curve!Mul(o[2], o[2])), B)
                     /\ IF o[1] = 4 THEN y = o[3] ELSE o[1] = 2 + (y % 2)
                     => a = [x |-> o[2], y |-> y, infinity |-> FALSE]
<1>4. Given(out')
  <2> HIDE DEF a
  <2>1. CASE a.infinity
    <3>1. point.infinity
      BY <1>2, <2>1 DEF Curve!SamePoint
    <3>2. out' = <<0>>
      BY <1>1, <3>1 DEF Curve!ecdsaSerialise
    <3> QED
      BY <2>1, <3>2
  <2>2. CASE ~a.infinity
    <3>1. point = a
      BY <1>2, <2>2 DEF Curve!SamePoint
    <3>2. /\ a = [x |-> a.x, y |-> a.y, infinity |-> FALSE]
          /\ a.x \in 0..(P - 1) /\ a.y \in 0..(P - 1) /\ a.y \in Int
      BY <1>3, <2>2, FinitePoint
    <3>3. CASE do_compress
      <4> DEFINE e == a.y % 2
      <4>1. out' = <<2 + e, a.x>>
        BY <1>1, <2>2, <3>1, <3>3 DEF Curve!ecdsaSerialise
      <4>2. e \in 0..1
        BY <3>2
      <4>3. ASSUME NEW y \in 0..(P - 1),
                   Curve!Mul(y, y) = Curve!Plus(Curve!Mul(a.x, Curve!Mul(a.x, a.x)), B),
                   2 + e = 2 + (y % 2)
            PROVE  a = [x |-> a.x, y |-> y, infinity |-> FALSE]
        <5>1. y % 2 \in 0..1
          <6>1. P \in Nat
            BY CurveIs
          <6> QED
            BY <6>1
        <5>2. y % 2 = e
          <6> DEFINE f == y % 2
          <6>1. f \in 0..1 /\ 2 + e = 2 + f
            BY <4>3, <5>1
          <6> HIDE DEF e, f
          <6>2. f = e
            BY <4>2, <6>1
          <6> QED
            BY <6>2 DEF f
        <5>3. y = a.y
          BY <1>3, <2>2, <4>3, <5>2, ParityPicks
        <5> QED
          BY <3>2, <5>3
      <4> HIDE DEF e
      <4>4. out'[1] = 2 + e /\ out'[2] = a.x /\ out' # <<0>> /\ out'[1] # 4
        BY <4>1, <4>2
      <4> DEFINE o == out'
      <4>5. o[1] = 2 + e /\ o[2] = a.x /\ o # <<0>> /\ o[1] # 4
        BY <4>4
      <4> HIDE DEF o
      <4>6. Given(o)
        BY <4>3, <4>5
      <4> QED
        BY <4>6 DEF o
    <3>4. CASE ~do_compress
      <4>1. out' = <<4, a.x, a.y>>
        BY <1>1, <2>2, <3>1, <3>4 DEF Curve!ecdsaSerialise
      <4>2. out'[1] = 4 /\ out'[2] = a.x /\ out'[3] = a.y /\ out' # <<0>>
        BY <4>1
      <4> DEFINE o == out'
      <4>3. o[1] = 4 /\ o[2] = a.x /\ o[3] = a.y /\ o # <<0>>
        BY <4>2
      <4> HIDE DEF o
      <4>4. Given(o)
        BY <3>2, <4>3
      <4> QED
        BY <4>4 DEF o
    <3> QED
      BY <3>3, <3>4
  <2> QED
    BY <2>1, <2>2
<1>5. Curve!SerialisedIsMultiple'
  BY <1>1, <1>4 DEF Curve!SerialisedIsMultiple
<1> QED
  BY <1>1, <1>2, <1>5 DEF Multiplication

(* Before that, it is what the accumulator represents.                     *)
LEMMA MultiplicationIs == Multiplication => Curve!SerialisedIsMultiple
<1> SUFFICES ASSUME Multiplication PROVE Curve!SerialisedIsMultiple
  OBVIOUS
<1>1. CASE pc = "double"
  <2> DEFINE m == scalar \div Shifted(bit)
  <2>1. /\ scalar \in 0..Top /\ bit \in 0..ScalarBits
        /\ Represents(accumulator, Curve!Multiple[m])
    BY <1>1 DEF Multiplication
  <2>2. m \in 0..Top
    BY <2>1, ScalarTaken
  <2>3. Curve!SamePoint(Curve!jacobianToAffine(accumulator), Curve!Multiple[m])
    <3> HIDE DEF m
    <3> QED
      BY <2>1, <2>2, AffineMultiple
  <2>4. Curve!Shifted(bit) = Shifted(bit)
    BY DEF Shifted, Curve!Shifted
  <2> QED
    BY <1>1, <2>3, <2>4 DEF Curve!SerialisedIsMultiple
<1>2. CASE pc = "serialised"
  BY <1>2 DEF Multiplication
<1>3. CASE pc # "double" /\ pc # "serialised"
  BY <1>3 DEF Curve!SerialisedIsMultiple
<1> QED
  BY <1>1, <1>2, <1>3

(* SerialisedIsMultiple, of every prime field, curve, base and scalar: the *)
(* loop multiplies, whatever bits are zero and whichever of its points are *)
(* O, equal or opposite, and what is serialised gives the multiple back    *)
(* (ecdsa.c:296-417).                                                      *)
THEOREM MultiplesAreSerialised == SpecAll => []SerialisedIsMultiple
<1>1. InitAll => PointInv
  <2> SUFFICES ASSUME InitAll, fun = "point" PROVE Multiplication
    BY DEF PointInv
  <2>1. Curve!Init
    BY DEF InitAll
  <2> QED
    BY <2>1, MultiplicationInit
<1>2. PointInv /\ [NextAll]_allVars => PointInv'
  <2> SUFFICES ASSUME PointInv, [NextAll]_allVars, fun' = "point" PROVE Multiplication'
    BY DEF PointInv
  <2>1. CASE Multiply
    <3>1. fun = "point" /\ Curve!Next
      BY <2>1 DEF Multiply
    <3>2. Multiplication
      BY <3>1 DEF PointInv
    <3>3. \A do_compress \in BOOLEAN : Curve!Serialise(do_compress) => Multiplication'
      BY <3>2, SerialiseKeeps
    <3> QED
      BY <3>1, <3>2, <3>3, DoubleKeeps, AddBitKeeps, ReturnKeeps DEF Curve!Next
  <2>2. CASE Derive \/ SignNow \/ Calculate \/ Encode
    <3>1. fun # "point" /\ fun' = fun
      BY <2>2 DEF Derive, SignNow, Calculate, Encode
    <3> QED
      BY <3>1
  <2>3. CASE UNCHANGED allVars
    <3>1. /\ fun' = fun /\ pc' = pc /\ bit' = bit /\ point' = point /\ scalar' = scalar
          /\ accumulator' = accumulator /\ out' = out
      BY <2>3 DEF allVars, points
    <3>2. Multiplication
      BY <3>1 DEF PointInv
    <3>3. Curve!SerialisedIsMultiple => Curve!SerialisedIsMultiple'
      BY <3>1 DEF Curve!SerialisedIsMultiple
    <3> QED
      BY <3>1, <3>2, <3>3 DEF Multiplication
  <2> QED
    BY <2>1, <2>2, <2>3 DEF NextAll
<1>3. PointInv => SerialisedIsMultiple
  BY MultiplicationIs DEF PointInv, SerialisedIsMultiple
<1> QED
  BY <1>1, <1>2, <1>3, PTL DEF SpecAll
=============================================================================
