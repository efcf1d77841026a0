---------------------------- MODULE Bip39_proof ----------------------------
(***************************************************************************)
(* Three results about src/epmw_firmware/wallet/crypto/bip39.c.  For items *)
(* of any size: the loops that turn bytes into words and words into bytes  *)
(* lose and invent no bit, and the validation accepts what BIP-39 accepts. *)
(* For every word list and text: the parser finds the words between blanks *)
(* and nothing else.  For every well-formed word list: the binary searches *)
(* stay inside the list and find what the linear searches find; the order  *)
(* of words is lexicographic, so the argument starts from the first place  *)
(* at which two words differ.                                              *)
(***************************************************************************)
EXTENDS Bip39Calls, Recursion, FiniteSetTheorems, SequenceTheorems

-----------------------------------------------------------------------------
(* Bits                                                                    *)

P(n) == Code!Shifted(n)

(* A shift by one more place doubles.                                      *)
LEMMA ShiftedIs ==
    P(0) = 1 /\ \A n \in Nat : P(n) \in Nat /\ P(n) > 0 /\ P(n + 1) = 2 * P(n)
<1>1. \A n : P(n) = Shifted(n)
  BY DEF P, Code!Shifted, Shifted
<1> QED
  BY <1>1, ShiftDoubles

(* Shifting by m places and then by n is shifting by m + n.                *)
LEMMA ShiftedAdd ==
    ASSUME NEW m \in Nat, NEW n \in Nat PROVE P(m + n) = P(m) * P(n)
<1>1. \A k : P(k) = Shifted(k)
  BY DEF P, Code!Shifted, Shifted
<1> QED
  BY <1>1, ShiftsAdd

(* A bit is 0 or 1.                                                        *)
LEMMA BitType ==
    ASSUME NEW item \in Nat, NEW size \in Nat, NEW k \in 1..size
    PROVE  Code!Bit(item, size, k) \in {0, 1}
<1>1. size - k \in Nat
  OBVIOUS
<1> DEFINE d == P(size - k)
           q == item \div d
<1>2. d \in Nat /\ d > 0
  BY <1>1, ShiftedIs
<1> HIDE DEF d
<1>3. q \in Nat
  BY <1>2, Halves
<1> HIDE DEF q
<1>4. q % 2 \in {0, 1}
  BY <1>3
<1> QED
  BY <1>4 DEF Code!Bit, P, d, q

(* A bit shifted in is the lowest, and the others move up.                 *)
LEMMA BitMore ==
    ASSUME NEW a \in Nat, NEW b \in {0, 1}, NEW l \in Nat
    PROVE  /\ \A k \in 1..l : Code!Bit(2 * a + b, l + 1, k) = Code!Bit(a, l, k)
           /\ Code!Bit(2 * a + b, l + 1, l + 1) = b
<1>1. ASSUME NEW k \in 1..l PROVE Code!Bit(2 * a + b, l + 1, k) = Code!Bit(a, l, k)
  <2> DEFINE d == P(l - k)
             q == a \div d
             r == a % d
  <2>1. l - k \in Nat /\ (l + 1) - k = (l - k) + 1
    OBVIOUS
  <2>2. d \in Nat /\ d > 0 /\ P((l + 1) - k) = 2 * d
    BY <2>1, ShiftedIs
  <2> HIDE DEF d
  <2>3. q \in Int /\ r \in 0..(d - 1) /\ a = d * q + r
    BY <2>2, Division
  <2> HIDE DEF q, r
  <2>4. 2 * d \in Nat /\ 2 * d > 0 /\ 2 * r + b \in 0..(2 * d - 1)
    BY <2>2, <2>3
  <2>5. 2 * a + b = (2 * d) * q + (2 * r + b)
    <3> DEFINE c == d * q
    <3>1. c \in Int /\ (2 * d) * q = 2 * c /\ a = c + r
      BY <2>2, <2>3
    <3> HIDE DEF c
    <3> QED
      BY <2>3, <3>1
  <2>6. (2 * a + b) \div (2 * d) = q
    <3> DEFINE e == 2 * d
               s == 2 * r + b
    <3>1. e \in Nat /\ e > 0 /\ s \in 0..(e - 1) /\ 2 * a + b = e * q + s
      BY <2>4, <2>5
    <3> HIDE DEF e, s
    <3>2. (e * q + s) \div e = q
      BY <2>3, <3>1, Quotient
    <3> QED
      BY <3>1, <3>2 DEF e
  <2> QED
    BY <2>2, <2>6 DEF Code!Bit, P, q, d
<1>2. Code!Bit(2 * a + b, l + 1, l + 1) = b
  <2>1. P((l + 1) - (l + 1)) = 1
    BY ShiftedIs
  <2>2. (2 * a + b) \div 1 = 2 * a + b /\ (2 * a + b) % 2 = b
    <3>1. 2 \in Nat /\ 2 > 0 /\ b \in 0..(2 - 1) /\ a \in Int
      OBVIOUS
    <3>2. (2 * a + b) % 2 = b
      BY <3>1, Quotient
    <3> QED
      BY <3>2
  <2> QED
    BY <2>1, <2>2 DEF Code!Bit, P
<1> QED
  BY <1>1, <1>2

(* Shifted up by d, an item has its l bits in front and zeros behind.      *)
MovedUp(a, l, d) ==
    /\ \A k \in 1..l : Code!Bit(a * P(d), l + d, k) = Code!Bit(a, l, k)
    /\ \A k \in (l + 1)..(l + d) : Code!Bit(a * P(d), l + d, k) = 0

(* It has.                                                                 *)
LEMMA BitRest ==
    ASSUME NEW a \in Nat, NEW l \in Nat, NEW d \in Nat
    PROVE  MovedUp(a, l, d)
<1> DEFINE s == P(d)
<1>0. s \in Nat /\ s > 0
  BY ShiftedIs
<1>1. ASSUME NEW k \in 1..l PROVE Code!Bit(a * P(d), l + d, k) = Code!Bit(a, l, k)
  <2> DEFINE t == P(l - k)
             q == a \div t
             r == a % t
  <2>1. l - k \in Nat /\ (l + d) - k = (l - k) + d
    OBVIOUS
  <2>2. t \in Nat /\ t > 0 /\ P((l + d) - k) = t * s
    BY <2>1, ShiftedIs, ShiftedAdd
  <2> HIDE DEF s, t
  <2>3. q \in Int /\ r \in 0..(t - 1) /\ a = t * q + r
    BY <2>2, Division
  <2> HIDE DEF q, r
  <2>4. a * s = (t * s) * q + r * s
    <3>1. (t * q + r) * s = (t * s) * q + r * s
      BY <1>0, <2>2, <2>3
    <3> QED
      BY <2>3, <3>1
  <2>5. t * s \in Nat /\ t * s > 0 /\ r * s \in 0..(t * s - 1)
    <3>1. t * s \in Nat /\ r * s \in Nat /\ t * s > 0
      BY <1>0, <2>2, <2>3
    <3>2. (t - 1) - r \in Nat
      BY <2>2, <2>3
    <3>3. s * r <= s * (t - 1)
      BY <1>0, <2>2, <2>3, <3>2, Bigger
    <3>4. s * r = r * s /\ s * (t - 1) = t * s - s
      BY <1>0, <2>2, <2>3
    <3> DEFINE x == t * s
               y == r * s
    <3>5. x \in Nat /\ y \in Nat /\ y <= x - s
      BY <3>1, <3>3, <3>4
    <3> HIDE DEF x, y
    <3>6. y \in 0..(x - 1)
      BY <1>0, <3>5
    <3> QED
      BY <3>1, <3>6 DEF x, y
  <2>6. (a * s) \div (t * s) = q
    <3> DEFINE x == t * s
               y == r * s
    <3>1. x \in Nat /\ x > 0 /\ y \in 0..(x - 1) /\ a * s = x * q + y
      BY <2>4, <2>5
    <3> HIDE DEF x, y
    <3>2. (x * q + y) \div x = q
      BY <2>3, <3>1, Quotient
    <3> QED
      BY <3>1, <3>2 DEF x
  <2> QED
    BY <2>2, <2>6 DEF Code!Bit, P, q, s, t
<1>2. ASSUME NEW k \in (l + 1)..(l + d) PROVE Code!Bit(a * P(d), l + d, k) = 0
  <2> DEFINE u == (l + d) - k
             v == k - l
             x == P(u)
             y == P(v - 1)
  <2>1. u \in Nat /\ v \in Nat /\ v - 1 \in Nat /\ (v - 1) + 1 = v /\ u + v = d
    OBVIOUS
  <2>2. x \in Nat /\ x > 0 /\ y \in Nat
    BY <2>1, ShiftedIs
  <2>3. s = x * (2 * y)
    <3>1. P(u + v) = x * P(v)
      BY <2>1, ShiftedAdd
    <3>2. P(v) = 2 * y
      <4>1. P((v - 1) + 1) = 2 * P(v - 1)
        BY <2>1, ShiftedIs
      <4> QED
        BY <2>1, <4>1
    <3> QED
      BY <2>1, <3>1, <3>2
  <2> HIDE DEF x, y, u, v, s
  <2>4. a * s = x * (2 * (a * y)) + 0
    BY <2>2, <2>3
  <2>5. (a * s) \div x = 2 * (a * y)
    <3> DEFINE z == 2 * (a * y)
    <3>1. z \in Int /\ 0 \in 0..(x - 1)
      BY <2>2
    <3> HIDE DEF z
    <3>2. (x * z + 0) \div x = z
      BY <2>2, <3>1, Quotient
    <3> QED
      BY <2>4, <3>2 DEF z
  <2>6. (2 * (a * y)) % 2 = 0
    <3> DEFINE z == a * y
    <3>1. z \in Nat
      BY <2>2
    <3> HIDE DEF z
    <3>2. (2 * z + 0) % 2 = 0
      <4>1. 2 \in Nat /\ 2 > 0 /\ 0 \in 0..(2 - 1) /\ z \in Int
        BY <3>1
      <4> QED
        BY <4>1, Quotient
    <3>3. 2 * z + 0 = 2 * z
      BY <3>1
    <3>4. (2 * z) % 2 = 0
      BY <3>2, <3>3
    <3> QED
      BY <3>4 DEF z
  <2> QED
    BY <2>5, <2>6 DEF Code!Bit, P, s, u, x
<1> QED
  BY <1>1, <1>2 DEF MovedUp

(* Dividing by d and then by 2 is dividing by their product.               *)
LEMMA HalvesAgain ==
    ASSUME NEW a \in Nat, NEW d \in Nat, d > 0
    PROVE  a \div d = 2 * (a \div (2 * d)) + ((a \div d) % 2)
<1> DEFINE e == 2 * d
           q == a \div e
           r == a % e
           h == r \div d
           s == r % d
<1>1. e \in Nat /\ e > 0 /\ e = 2 * d
  OBVIOUS
<1> HIDE DEF e
<1>2. q \in Int /\ r \in 0..(e - 1) /\ a = e * q + r
  BY <1>1, Division
<1> HIDE DEF q, r
<1>3. h \in Int /\ s \in 0..(d - 1) /\ r = d * h + s /\ h \in Nat
  BY <1>1, <1>2, Division, Halves
<1> HIDE DEF h, s
<1>4. h \in {0, 1}
  <2>1. SUFFICES ASSUME 2 <= h PROVE FALSE
    BY <1>3
  <2>2. d * 2 <= d * h
    BY <1>3, <2>1, Bigger
  <2> DEFINE c == d * h
  <2>3. c \in Nat /\ r = c + s /\ d * 2 <= c
    BY <1>3, <2>2
  <2> HIDE DEF c
  <2> QED
    BY <1>1, <1>2, <1>3, <2>3
<1>5. a = d * (2 * q + h) + s
  <2>1. e * q = d * (2 * q)
    BY <1>1, <1>2
  <2>2. d * (2 * q + h) = d * (2 * q) + d * h
    BY <1>2, <1>3
  <2> DEFINE x == d * (2 * q)
             y == d * h
             z == d * (2 * q + h)
  <2>3. x \in Int /\ y \in Int /\ z = x + y /\ r = y + s /\ a = x + r
    BY <1>2, <1>3, <2>1, <2>2
  <2> HIDE DEF x, y, z
  <2>4. a = z + s
    BY <1>3, <2>3
  <2> QED
    BY <2>4 DEF z
<1>6. a \div d = 2 * q + h
  <2> DEFINE p == 2 * q + h
  <2>1. p \in Int /\ a = d * p + s
    BY <1>2, <1>3, <1>5
  <2> HIDE DEF p
  <2>2. (d * p + s) \div d = p
    BY <1>3, <2>1, Quotient
  <2> QED
    BY <2>1, <2>2 DEF p
<1>7. (2 * q + h) % 2 = h
  <2>1. 2 \in Nat /\ 2 > 0 /\ h \in 0..(2 - 1)
    BY <1>4
  <2> QED
    BY <1>2, <2>1, Quotient
<1> QED
  BY <1>6, <1>7 DEF q, e

(* A number is the number of its bits.                                     *)
LEMMA NumberIs ==
    ASSUME NEW l \in Nat, NEW a \in 0..(P(l) - 1),
           NEW bits \in Seq(Nat), Len(bits) = l, \A k \in 1..l : bits[k] = Code!Bit(a, l, k)
    PROVE  Code!Number(bits) = a
<1> DEFINE f == [k \in 0..l |-> a \div P(l - k)]
           body(h) == [k \in 0..l |-> IF k = 0 THEN 0 ELSE 2 * h[k - 1] + bits[k]]
           value == CHOOSE h : h = body(h)
<1>0. a \in Nat /\ a < P(l) /\ P(l) \in Nat
  BY ShiftedIs, SMTT(30)
<1>1. f[0] = 0 /\ f[l] = a
  <2>1. l - 0 = l /\ l - l = 0 /\ 0 \in 0..l /\ l \in 0..l
    OBVIOUS
  <2>2. a \div P(l) = 0
    <3> DEFINE p == P(l)
    <3>1. p \in Nat /\ p > 0 /\ a \in 0..(p - 1) /\ 0 \in Int
      BY <1>0
    <3> HIDE DEF p
    <3>2. (p * 0 + a) \div p = 0
      BY <3>1, Quotient
    <3>3. p * 0 + a = a
      BY <1>0, <3>1
    <3> QED
      BY <3>2, <3>3 DEF p
  <2>3. a \div P(0) = a
    BY <1>0, ShiftedIs
  <2> QED
    BY <2>1, <2>2, <2>3
<1>2. ASSUME NEW k \in 1..l PROVE f[k] = 2 * f[k - 1] + bits[k]
  <2> DEFINE d == P(l - k)
  <2>1. /\ l - k \in Nat /\ l - (k - 1) = (l - k) + 1
        /\ k \in 0..l /\ k - 1 \in 0..l
    OBVIOUS
  <2>2. d \in Nat /\ d > 0 /\ P(l - (k - 1)) = 2 * d
    BY <2>1, ShiftedIs
  <2>3. f[k] = a \div d /\ f[k - 1] = a \div (2 * d)
    BY <2>1, <2>2
  <2>4. bits[k] = (a \div d) % 2
    BY DEF Code!Bit, P
  <2> HIDE DEF d, f
  <2>5. a \div d = 2 * (a \div (2 * d)) + ((a \div d) % 2)
    BY <1>0, <2>2, HalvesAgain
  <2> QED
    BY <2>3, <2>4, <2>5
<1>3. f = body(f)
  <2>2. f = [k \in 0..l |-> f[k]]
    OBVIOUS
  <2> HIDE DEF f
  <2>1. \A k \in 0..l : f[k] = IF k = 0 THEN 0 ELSE 2 * f[k - 1] + bits[k]
    <3> SUFFICES ASSUME NEW k \in 0..l
                 PROVE  f[k] = IF k = 0 THEN 0 ELSE 2 * f[k - 1] + bits[k]
      OBVIOUS
    <3>1. k # 0 => k \in 1..l
      OBVIOUS
    <3> QED
      BY <1>1, <1>2, <3>1, SMTT(30)
  <2> QED
    BY <2>1, <2>2, Zenon
<1>4. value = body(value)
  <2> HIDE DEF f, body
  <2> QED
    BY <1>3
<1>5. Code!Number(bits) = value[l]
  BY DEF Code!Number
<1> HIDE DEF value, f
<1>6. \A k \in 0..l : value[k] = IF k = 0 THEN 0 ELSE 2 * value[k - 1] + bits[k]
  BY <1>4
<1> HIDE DEF body
<1> DEFINE T == {k \in 0..l : value[k] = f[k]}
<1>7. 0 \in T
  BY <1>1, <1>6
<1>8. ASSUME NEW k \in 0..l, k < l, k \in T PROVE k + 1 \in T
  <2>1. k + 1 \in 1..l /\ (k + 1) - 1 = k /\ k + 1 \in 0..l /\ k + 1 # 0
    BY <1>8
  <2>2. value[k + 1] = 2 * value[k] + bits[k + 1] /\ f[k + 1] = 2 * f[k] + bits[k + 1]
    BY <1>2, <1>6, <2>1
  <2>3. value[k] = f[k]
    BY <1>8
  <2> QED
    BY <2>1, <2>2, <2>3
<1> HIDE DEF T
<1>9. l \in T
  <2>1. \A k \in 0..l : k \in T
    BY <1>7, <1>8, InductionUpTo
  <2> QED
    BY <2>1
<1> QED
  BY <1>1, <1>5, <1>9 DEF T

(* So numbers with the same bits are the same.                             *)
LEMMA BitsDecide ==
    ASSUME NEW l \in Nat, NEW x \in 0..(P(l) - 1), NEW y \in 0..(P(l) - 1),
           \A k \in 1..l : Code!Bit(x, l, k) = Code!Bit(y, l, k)
    PROVE  x = y
<1> DEFINE bits == [k \in 1..l |-> Code!Bit(x, l, k)]
<1>1. x \in Nat /\ y \in Nat
  BY ShiftedIs
<1>2. bits \in Seq(Nat) /\ Len(bits) = l
  <2>1. \A k \in 1..l : Code!Bit(x, l, k) \in Nat
    BY <1>1, BitType
  <2> QED
    BY <2>1
<1>3. \A k \in 1..l : bits[k] = Code!Bit(x, l, k) /\ bits[k] = Code!Bit(y, l, k)
  OBVIOUS
<1> HIDE DEF bits
<1>4. Code!Number(bits) = x
  BY <1>2, <1>3, NumberIs
<1>5. Code!Number(bits) = y
  BY <1>2, <1>3, NumberIs
<1> QED
  BY <1>4, <1>5

(* What is left of a byte when all but its first m bits are masked.        *)
LEMMA MaskedBits ==
    ASSUME NEW l \in Nat, NEW m \in 0..l, NEW x \in 0..(P(l) - 1), NEW y \in 0..(P(l) - 1),
           \A k \in (m + 1)..l : Code!Bit(x, l, k) = 0
    PROVE  x = y - (y % P(l - m)) <=> \A k \in 1..m : Code!Bit(x, l, k) = Code!Bit(y, l, k)
<1> DEFINE d == l - m
           s == P(d)
           q == y \div s
           r == y % s
           z == q * s
<1>1. d \in Nat /\ s \in Nat /\ s > 0 /\ P(l) = P(m) * s /\ P(m) \in Nat /\ P(l) \in Nat
      /\ l = m + d /\ y \in Nat /\ y < P(l) /\ x \in Nat
  <2>1. d \in Nat /\ l = m + d /\ m \in Nat
    OBVIOUS
  <2>2. P(m + d) = P(m) * P(d)
    BY <2>1, ShiftedAdd
  <2> QED
    BY <2>1, <2>2, ShiftedIs
<1>2. q \in Nat /\ r \in 0..(s - 1) /\ y = s * q + r
  <2> HIDE DEF d, s
  <2>1. y \in Nat /\ s \in Nat /\ s > 0
    BY <1>1
  <2> QED
    BY <2>1, Division, Halves
<1>3. \A k \in 1..m : Code!Bit(q, m, k) = Code!Bit(y, l, k)
  <2> SUFFICES ASSUME NEW k \in 1..m PROVE Code!Bit(q, m, k) = Code!Bit(y, l, k)
    OBVIOUS
  <2> DEFINE t == P(m - k)
  <2>1. m - k \in Nat /\ (m - k) + d = l - k
    OBVIOUS
  <2>2. t \in Nat /\ t > 0 /\ P(l - k) = t * s
    <3>1. P((m - k) + d) = P(m - k) * P(d)
      BY <1>1, <2>1, ShiftedAdd
    <3> QED
      BY <2>1, <3>1, ShiftedIs
  <2> DEFINE u == q \div t
             v == q % t
  <2> HIDE DEF s, t, q, r
  <2>3. u \in Int /\ v \in 0..(t - 1) /\ q = t * u + v
    BY <1>2, <2>2, Division
  <2> HIDE DEF u, v
  <2>4. y = (t * s) * u + (s * v + r)
    <3>1. s * (t * u + v) = (t * s) * u + s * v
      BY <1>1, <2>2, <2>3
    <3> DEFINE e == (t * s) * u
               f == s * v
               g == s * q
    <3>2. e \in Int /\ f \in Int /\ g = e + f /\ y = g + r
      BY <1>1, <1>2, <2>2, <2>3, <3>1
    <3> HIDE DEF e, f, g
    <3>3. y = e + (f + r)
      BY <1>2, <3>2
    <3> QED
      BY <3>3 DEF e, f
  <2>5. t * s \in Nat /\ t * s > 0 /\ s * v + r \in 0..(t * s - 1)
    <3>1. t * s \in Nat /\ s * v \in Nat /\ t * s > 0
      BY <1>1, <2>2, <2>3
    <3>2. s * v <= s * (t - 1)
      <4>1. v <= t - 1 /\ v \in Int /\ t - 1 \in Int
        BY <2>2, <2>3
      <4> QED
        BY <1>1, <4>1, Bigger
    <3>3. s * (t - 1) = t * s - s
      BY <1>1, <2>2
    <3> DEFINE e == t * s
               f == s * v
    <3>4. e \in Nat /\ f \in Nat /\ f <= e - s
      BY <3>1, <3>2, <3>3
    <3> HIDE DEF e, f
    <3>5. f + r \in 0..(e - 1)
      BY <1>1, <1>2, <3>4
    <3> QED
      BY <3>1, <3>5 DEF e, f
  <2>6. y \div (t * s) = u
    <3> DEFINE e == t * s
               f == s * v + r
    <3>1. e \in Nat /\ e > 0 /\ f \in 0..(e - 1) /\ y = e * u + f
      BY <2>4, <2>5
    <3> HIDE DEF e, f
    <3>2. (e * u + f) \div e = u
      BY <2>3, <3>1, Quotient
    <3> QED
      BY <3>1, <3>2 DEF e
  <2> QED
    BY <2>2, <2>6 DEF Code!Bit, P, u, t
<1>4. /\ \A k \in 1..m : Code!Bit(z, l, k) = Code!Bit(q, m, k)
      /\ \A k \in (m + 1)..l : Code!Bit(z, l, k) = 0
  <2> HIDE DEF q, d
  <2>1. m \in Nat /\ d \in Nat /\ q \in Nat
    BY <1>1, <1>2
  <2>2. MovedUp(q, m, d)
    BY <2>1, BitRest
  <2> QED
    BY <1>1, <2>2 DEF MovedUp
<1>5. z \in 0..(P(l) - 1) /\ z = y - r
  <2> HIDE DEF s, q, r
  <2>1. q * s = s * q /\ s * q \in Nat
    BY <1>1, <1>2
  <2> DEFINE e == s * q
  <2>2. e \in Nat /\ y = e + r /\ z = e
    BY <1>2, <2>1
  <2> HIDE DEF e, z
  <2> QED
    BY <1>1, <1>2, <2>2
<1>6. x = z <=> \A k \in 1..m : Code!Bit(x, l, k) = Code!Bit(y, l, k)
  <2> HIDE DEF z, q
  <2>1. ASSUME \A k \in 1..m : Code!Bit(x, l, k) = Code!Bit(y, l, k) PROVE x = z
    <3>1. ASSUME NEW k \in 1..l PROVE Code!Bit(x, l, k) = Code!Bit(z, l, k)
      <4>1. CASE k \in 1..m
        BY <1>3, <1>4, <2>1, <4>1
      <4>2. CASE k \notin 1..m
        <5>1. k \in (m + 1)..l
          BY <4>2
        <5> QED
          BY <1>4, <5>1
      <4> QED
        BY <4>1, <4>2
    <3> QED
      BY <1>5, <3>1, BitsDecide
  <2>2. ASSUME x = z PROVE \A k \in 1..m : Code!Bit(x, l, k) = Code!Bit(y, l, k)
    BY <1>3, <1>4, <2>2
  <2> QED
    BY <2>1, <2>2
<1>7. y % P(l - m) = r
  OBVIOUS
<1> HIDE DEF r, z
<1> QED
  BY <1>5, <1>6, <1>7

-----------------------------------------------------------------------------
(* Places                                                                  *)

(* Bit k of the item behind m others.                                      *)
LEMMA BitAtPlace ==
    ASSUME NEW s, NEW size \in Nat, NEW m \in Nat, NEW k \in 1..size
    PROVE  Code!BitAt(s, size, size * m + k) = Code!Bit(s[m + 1], size, k)
<1> DEFINE c == size * m
<1>1. c \in Nat
  OBVIOUS
<1>2. (c + (k - 1)) \div size = m /\ (c + (k - 1)) % size = k - 1
  <2>1. size > 0 /\ m \in Int /\ k - 1 \in 0..(size - 1)
    OBVIOUS
  <2> DEFINE j == k - 1
  <2> HIDE DEF j
  <2>2. (size * m + j) \div size = m /\ (size * m + j) % size = j
    BY <2>1, Quotient DEF j
  <2> QED
    BY <2>2 DEF j
<1> HIDE DEF c
<1>3. (c + k) - 1 = c + (k - 1) /\ 1 + m = m + 1 /\ 1 + (k - 1) = k
  BY <1>1
<1>4. Code!BitAt(s, size, c + k) = Code!Bit(s[m + 1], size, k)
  BY <1>2, <1>3 DEF Code!BitAt
<1> QED
  BY <1>4 DEF c

(* Every place is in an item.                                              *)
LEMMA PlaceOf ==
    ASSUME NEW size \in Nat, size > 0, NEW n \in Nat, NEW k \in 1..(size * n)
    PROVE  \E m \in 0..(n - 1) : \E j \in 1..size : k = size * m + j
<1> DEFINE i == k - 1
           q == i \div size
           r == i % size
           c == size * n
<1>0. c \in Nat
  OBVIOUS
<1> HIDE DEF c
<1>1. i \in Nat /\ i < c /\ k = i + 1
  BY <1>0 DEF c
<1> HIDE DEF i
<1>2. q \in Nat /\ r \in 0..(size - 1) /\ i = size * q + r
  BY <1>1, Division, Halves
<1> HIDE DEF q, r
<1>3. q <= n - 1
  <2>1. SUFFICES ASSUME n <= q PROVE FALSE
    BY <1>2
  <2>2. size * n <= size * q
    BY <1>2, <2>1, Bigger
  <2> DEFINE d == size * q
  <2>3. d \in Nat /\ i = d + r /\ c <= d
    BY <1>2, <2>2 DEF c
  <2> HIDE DEF d
  <2> QED
    BY <1>0, <1>1, <1>2, <2>3
<1>4. k = size * q + (r + 1) /\ r + 1 \in 1..size /\ q \in 0..(n - 1)
  <2> DEFINE d == size * q
  <2>1. d \in Nat /\ i = d + r
    BY <1>2
  <2> HIDE DEF d
  <2>2. k = d + (r + 1)
    BY <1>1, <1>2, <2>1
  <2> QED
    BY <1>2, <1>3, <2>2 DEF d
<1> QED
  BY <1>4

(* The bits of items are bits.                                             *)
LEMMA BitAtType ==
    ASSUME NEW s \in Seq(Nat), NEW size \in Nat, size > 0, NEW k \in 1..(size * Len(s))
    PROVE  Code!BitAt(s, size, k) \in {0, 1}
<1>1. Len(s) \in Nat
  OBVIOUS
<1>2. PICK m \in 0..(Len(s) - 1) : \E j \in 1..size : k = size * m + j
  BY <1>1, PlaceOf
<1>3. PICK j \in 1..size : k = size * m + j
  BY <1>2
<1>4. m \in Nat /\ s[m + 1] \in Nat
  <2>1. m \in Nat /\ m + 1 \in 1..Len(s)
    BY <1>1
  <2> QED
    BY <2>1, ElementOfSeq
<1>5. Code!BitAt(s, size, k) = Code!Bit(s[m + 1], size, j)
  BY <1>3, <1>4, BitAtPlace
<1> QED
  BY <1>4, <1>5, BitType

-----------------------------------------------------------------------------
(* The loops of the coding                                                 *)

(* Items hold the first bits of some; the item in the making the next.     *)
Copied(bits, items, size) ==
    \A k \in 1..(size * Len(items)) : Code!BitAt(items, size, k) = bits[k]
Begun(bits, item, count, before) ==
    \A k \in 1..count : Code!Bit(item, count, k) = bits[before + k]
Blanks(bits, first, last, before) == \A k \in first..last : bits[before + k] = 0

(* An item that is full of the next bits goes on with the items.           *)
LEMMA CopiedOn ==
    ASSUME NEW bits, NEW S, NEW items \in Seq(S), NEW x \in S, NEW size \in Nat, size > 0,
           Copied(bits, items, size), Begun(bits, x, size, size * Len(items))
    PROVE  Copied(bits, Append(items, x), size)
<1> DEFINE more == Append(items, x)
           n == Len(items)
<1>1. n \in Nat /\ Len(more) = n + 1 /\ more[n + 1] = x /\ \A m \in 1..n : more[m] = items[m]
  BY AppendProperties, LenProperties
<1> HIDE DEF more
<1>2. SUFFICES ASSUME NEW k \in 1..(size * (n + 1)) PROVE Code!BitAt(more, size, k) = bits[k]
  BY <1>1 DEF Copied, more
<1>3. PICK m \in 0..((n + 1) - 1) : \E j \in 1..size : k = size * m + j
  <2> DEFINE o == n + 1
  <2>1. o \in Nat /\ k \in 1..(size * o)
    BY <1>1
  <2> HIDE DEF o
  <2>2. \E m \in 0..(o - 1) : \E j \in 1..size : k = size * m + j
    BY <2>1, PlaceOf
  <2> QED
    BY <2>2 DEF o
<1>4. PICK j \in 1..size : k = size * m + j
  BY <1>3
<1>5. m \in Nat /\ m <= n
  BY <1>1
<1>6. Code!BitAt(more, size, k) = Code!Bit(more[m + 1], size, j)
  BY <1>4, <1>5, BitAtPlace
<1>7. CASE m = n
  BY <1>1, <1>4, <1>6, <1>7 DEF Begun
<1>8. CASE m # n
  <2>1. m + 1 \in 1..n /\ m + 1 <= n
    BY <1>1, <1>5, <1>8
  <2>2. Code!BitAt(items, size, k) = Code!Bit(items[m + 1], size, j)
    BY <1>4, <1>5, BitAtPlace
  <2>3. k \in 1..(size * n)
    <3>1. size * (m + 1) <= size * n
      BY <1>1, <1>5, <2>1, Bigger, SMTT(30)
    <3>2. size * (m + 1) = size * m + size
      BY <1>5
    <3> DEFINE c == size * m
               d == size * n
    <3>3. c \in Nat /\ d \in Nat /\ c + size <= d /\ k = c + j
      BY <1>1, <1>4, <1>5, <3>1, <3>2
    <3> HIDE DEF c, d
    <3>4. k \in 1..d
      BY <3>3
    <3> QED
      BY <3>4 DEF d
  <2> QED
    BY <1>1, <1>6, <2>1, <2>2, <2>3 DEF Copied
<1> QED
  BY <1>7, <1>8

(* The next bit goes on with the item in the making.                       *)
LEMMA BegunOn ==
    ASSUME NEW bits, NEW a \in Nat, NEW l \in Nat, NEW before \in Nat,
           bits[before + (l + 1)] \in {0, 1}, Begun(bits, a, l, before)
    PROVE  Begun(bits, 2 * a + bits[before + (l + 1)], l + 1, before)
<1> DEFINE b == bits[before + (l + 1)]
<1>1. /\ \A k \in 1..l : Code!Bit(2 * a + b, l + 1, k) = Code!Bit(a, l, k)
      /\ Code!Bit(2 * a + b, l + 1, l + 1) = b
  <2> HIDE DEF b
  <2>1. b \in {0, 1}
    BY DEF b
  <2> QED
    BY <2>1, BitMore
<1> HIDE DEF b
<1>2. SUFFICES ASSUME NEW k \in 1..(l + 1)
               PROVE  Code!Bit(2 * a + b, l + 1, k) = bits[before + k]
  BY DEF Begun, b
<1>3. CASE k = l + 1
  BY <1>1, <1>3 DEF b
<1>4. CASE k # l + 1
  <2>1. k \in 1..l
    BY <1>4
  <2> QED
    BY <1>1, <2>1 DEF Begun
<1> QED
  BY <1>3, <1>4

(* A number grows by less than a bit.                                      *)
LEMMA BitFits ==
    ASSUME NEW l \in Nat, NEW a \in 0..(P(l) - 1), NEW b \in {0, 1}
    PROVE  2 * a + b \in 0..(P(l + 1) - 1)
<1>1. P(l) \in Nat /\ P(l + 1) = 2 * P(l)
  BY ShiftedIs
<1> QED
  BY <1>1

(* The rest, moved to the high end, is an item that ends with zeros.       *)
LEMMA RestIs ==
    ASSUME NEW bits, NEW size \in Nat, NEW l \in 1..size, NEW a \in 0..(P(l) - 1),
           NEW before \in Nat, Begun(bits, a, l, before),
           Blanks(bits, l + 1, size, before)
    PROVE  /\ Begun(bits, a * P(size - l), size, before)
           /\ a * P(size - l) \in 0..(P(size) - 1)
<1> DEFINE d == size - l
           s == P(d)
           p == P(l)
<1>1. d \in Nat /\ l \in Nat /\ l + d = size /\ s \in Nat /\ p \in Nat /\ s > 0
  BY ShiftedIs, SMTT(30)
<1>2. P(size) = p * s
  BY <1>1, ShiftedAdd
<1>3. a \in Nat /\ a <= p - 1
  BY <1>1
<1>4. /\ \A k \in 1..l : Code!Bit(a * s, size, k) = Code!Bit(a, l, k)
      /\ \A k \in (l + 1)..size : Code!Bit(a * s, size, k) = 0
  <2>1. MovedUp(a, l, d)
    <3> HIDE DEF d, s, p
    <3> QED
      BY <1>1, <1>3, BitRest
  <2> QED
    BY <1>1, <2>1 DEF MovedUp
<1>5. Begun(bits, a * s, size, before)
  <2> HIDE DEF s
  <2> SUFFICES ASSUME NEW k \in 1..size PROVE Code!Bit(a * s, size, k) = bits[before + k]
    BY DEF Begun
  <2>1. CASE k \in 1..l
    BY <1>4, <2>1 DEF Begun
  <2>2. CASE k \notin 1..l
    <3>1. k \in (l + 1)..size
      BY <2>2
    <3> QED
      BY <1>4, <3>1 DEF Blanks
  <2> QED
    BY <2>1, <2>2
<1>6. a * s \in 0..(p * s - 1)
  <2> HIDE DEF s, p
  <2>1. s * a <= s * (p - 1)
    BY <1>1, <1>3, Bigger
  <2>2. s * a = a * s /\ s * (p - 1) = p * s - s /\ a * s \in Nat /\ p * s \in Nat
    BY <1>1, <1>3
  <2> DEFINE x == a * s
             y == p * s
  <2>3. x \in Nat /\ y \in Nat /\ x <= y - s
    BY <2>1, <2>2
  <2> HIDE DEF x, y
  <2>4. x \in 0..(y - 1)
    BY <1>1, <2>3
  <2> QED
    BY <2>4 DEF x, y
<1> QED
  BY <1>2, <1>5, <1>6

-----------------------------------------------------------------------------
(* The invariant of the coding                                             *)

Count == Len(data_in)

(* The bits read, and zeros behind them.                                   *)
Wanted ==
    [k \in Nat |-> IF k \in 1..(Code!From * Count)
                   THEN Code!BitAt(data_in, Code!From, k) ELSE 0]

(* What was called.                                                        *)
Called ==
    /\ \E c \in Codings : /\ word_bits = c.word_bits /\ byte_bits = c.byte_bits
                          /\ data_in \in IF call = "encode" THEN c.bytes ELSE c.words
    /\ call \in {"encode", "decode", "validate"} /\ padding \in BOOLEAN
    /\ call = "validate" => padding = TRUE
    /\ at \in {"load", "check", "done"}

(* While bits are loaded: they are in the items and the one in the making. *)
Loading ==
    /\ loaded_bits \in 0..(Code!To - 1) /\ acc \in 0..(P(loaded_bits) - 1)
    /\ read = Code!To * Len(data_out) + loaded_bits /\ read <= Code!From * Count
    /\ Copied(Wanted, data_out, Code!To)
    /\ Begun(Wanted, acc, loaded_bits, Code!To * Len(data_out))

(* Behind the loops: the items are what was asked for.                     *)
Finished ==
    /\ Copied(Wanted, data_out, Code!To)
    /\ Len(data_out) = Code!Required(Count, padding)
    /\ IF padding THEN Code!From * Count <= Code!To * Len(data_out)
                  ELSE Code!To * Len(data_out) <= Code!From * Count

(* A count of words that is refused at once.                               *)
Refused == /\ call = "validate" /\ ~Code!CountOk(Count) /\ at = "done"
           /\ read = 0 /\ data_out = <<>> /\ answer = FALSE

CodeInv ==
    /\ Called
    /\ data_out \in Seq(0..(P(Code!To) - 1))
    /\ at = "load" => Loading /\ answer = FALSE
    /\ at # "load" => Finished \/ Refused
    /\ at = "load" /\ call = "validate" => Code!CountOk(Count)
    /\ at = "check" => call = "validate" /\ Code!CountOk(Count)
    /\ Code!ChecksumIsBip39

(* Items of both sizes, and what fits them.                                *)
LEMMA CalledFacts ==
    ASSUME Called
    PROVE  /\ Code!From \in Nat /\ Code!From > 0 /\ Code!To \in Nat /\ Code!To > 0
           /\ data_in \in Seq(Nat) /\ Count \in Nat
           /\ Code!From * Count < 255 * Code!To /\ Code!From * Count \in Nat
           /\ call # "encode" => /\ Code!From = word_bits /\ Code!To = byte_bits
                                 /\ 3 * Code!From = 4 * Code!To + 1
                                 /\ Count <= 3 * Code!To
           /\ Wanted \in [Nat -> {0, 1}]
<1>1. PICK c \in Codings : /\ word_bits = c.word_bits /\ byte_bits = c.byte_bits
                           /\ data_in \in IF call = "encode" THEN c.bytes ELSE c.words
  BY DEF Called
<1>2. /\ c.word_bits \in Nat \ {0} /\ c.byte_bits \in Nat \ {0}
      /\ 3 * c.word_bits = 4 * c.byte_bits + 1
      /\ c.bytes \subseteq Seq(Nat) /\ c.words \subseteq Seq(Nat)
      /\ \A s \in c.bytes : Len(s) * c.byte_bits < 255 * c.word_bits
      /\ \A s \in c.words : /\ Len(s) * c.word_bits < 255 * c.byte_bits
                            /\ Len(s) <= 3 * c.byte_bits
  BY CodingAssumption, <1>1, SMTT(30) DEF Code!SizesFit
<1>3. data_in \in Seq(Nat)
  BY <1>1, <1>2
<1>4. Count \in Nat
  BY <1>3, LenProperties DEF Count
<1>5. Code!From \in Nat /\ Code!From > 0 /\ Code!To \in Nat /\ Code!To > 0
  BY <1>1, <1>2 DEF Code!From, Code!To
<1>6. Count * Code!From < 255 * Code!To
  BY <1>1, <1>2 DEF Code!From, Code!To, Count
<1>7. Count * Code!From = Code!From * Count /\ Code!From * Count \in Nat
  BY <1>4, <1>5
<1>8. call # "encode" => /\ Code!From = word_bits /\ Code!To = byte_bits
                         /\ 3 * Code!From = 4 * Code!To + 1
                         /\ Count <= 3 * Code!To
  BY <1>1, <1>2 DEF Code!From, Code!To, Count
<1>9. \A k \in 1..(Code!From * Count) : Code!BitAt(data_in, Code!From, k) \in {0, 1}
  BY <1>3, <1>5, BitAtType DEF Count
<1> QED
  BY <1>3, <1>4, <1>5, <1>6, <1>7, <1>8, <1>9 DEF Wanted

(* The uint8_t of the sizes does not wrap around.                          *)
LEMMA RequiredIs ==
    ASSUME Called, NEW pad \in BOOLEAN, NEW q \in Nat, NEW r \in 0..(Code!To - 1),
           Code!From * Count = Code!To * q + r
    PROVE  Code!Required(Count, pad) = q + (IF r # 0 /\ pad THEN 1 ELSE 0) /\ q < 255
<1> DEFINE t == Code!To
           f == Count * Code!From
<1>1. /\ t \in Nat /\ t > 0 /\ f = t * q + r /\ f < 255 * t
      /\ r \in 0..(t - 1) /\ q \in Int
  <2>1. Code!From \in Nat /\ Count \in Nat /\ Code!From * Count < 255 * Code!To
    BY CalledFacts
  <2>2. Count * Code!From = Code!From * Count
    BY <2>1
  <2> QED
    BY <2>1, <2>2, CalledFacts
<1>2. Code!Required(Count, pad) = ((f \div t) + (IF (f % t) # 0 /\ pad THEN 1 ELSE 0)) % 256
  BY DEF Code!Required
<1> HIDE DEF f, t
<1>3. f \div t = q /\ f % t = r
  BY <1>1, Quotient
<1>4. q < 255
  <2>1. SUFFICES ASSUME 255 <= q PROVE FALSE
    OBVIOUS
  <2>2. t * 255 <= t * q
    BY <1>1, <2>1, Bigger
  <2> DEFINE x == t * q
  <2>3. x \in Nat /\ f = x + r /\ 255 * t <= x
    BY <1>1, <2>2
  <2> HIDE DEF x
  <2> QED
    BY <1>1, <2>3
<1> DEFINE e == IF r # 0 /\ pad THEN 1 ELSE 0
<1>5. e \in {0, 1}
  OBVIOUS
<1> HIDE DEF e
<1>6. (q + e) % 256 = q + e
  BY <1>4, <1>5
<1> QED
  BY <1>2, <1>3, <1>4, <1>6 DEF e

(* A call stays the same until it returns.                                 *)
LEMMA CallStays ==
    ASSUME UNCHANGED <<word_bits, byte_bits, call, data_in, padding>>
    PROVE  /\ Code!From' = Code!From /\ Code!To' = Code!To /\ Count' = Count
           /\ Wanted' = Wanted
           /\ (Code!Required(Count, padding))' = Code!Required(Count, padding)
           /\ Called /\ at' \in {"load", "check", "done"} => Called'
<1>1. Code!From' = Code!From /\ Code!To' = Code!To /\ Count' = Count
  BY DEF Code!From, Code!To, Count
<1>2. Wanted' = Wanted
  BY <1>1 DEF Wanted
<1>3. (Code!Required(Count, padding))' = Code!Required(Count, padding)
  BY <1>1 DEF Code!Required
<1>4. Called /\ at' \in {"load", "check", "done"} => Called'
  BY DEF Called
<1> QED
  BY <1>1, <1>2, <1>3, <1>4

(* The first state of a call of the coding.                                *)
LEMMA CodeStarts ==
    ASSUME Code!Init PROVE CodeInv
<1>1. PICK c \in Codings :
        /\ word_bits = c.word_bits /\ byte_bits = c.byte_bits
        /\ \/ call = "encode" /\ data_in \in c.bytes /\ padding \in BOOLEAN
           \/ call = "decode" /\ data_in \in c.words /\ padding \in BOOLEAN
           \/ call = "validate" /\ data_in \in c.words /\ padding = TRUE
  BY DEF Code!Init
<1>2. /\ read = 0 /\ acc = 0 /\ loaded_bits = 0 /\ data_out = <<>> /\ answer = FALSE
      /\ at = IF call = "validate" /\ ~Code!CountOk(Count) THEN "done" ELSE "load"
  BY DEF Code!Init, Count
<1>3. Called
  BY <1>1, <1>2 DEF Called
<1>4. /\ Code!From \in Nat /\ Code!To \in Nat /\ Code!To > 0 /\ Code!From * Count \in Nat
  BY <1>3, CalledFacts
<1>5. data_out \in Seq(0..(P(Code!To) - 1)) /\ Len(data_out) = 0
  BY <1>2
<1>6. at = "load" => Loading
  <2>1. Code!To * Len(data_out) = 0 /\ P(0) = 1
    BY <1>4, <1>5, ShiftedIs
  <2>2. Copied(Wanted, data_out, Code!To) /\ Begun(Wanted, acc, loaded_bits, 0)
    BY <1>2, <2>1 DEF Copied, Begun
  <2>3. loaded_bits \in 0..(Code!To - 1) /\ acc \in 0..(P(loaded_bits) - 1)
    BY <1>2, <1>4, <2>1
  <2> QED
    BY <1>2, <1>4, <2>1, <2>2, <2>3 DEF Loading
<1>7. at # "load" => Refused
  BY <1>2 DEF Refused
<1>8. Code!ChecksumIsBip39
  <2> SUFFICES ASSUME call = "validate", at = "done" PROVE Code!ChecksumIsBip39
    BY DEF Code!ChecksumIsBip39
  <2>1. ~Code!CountOk(Count) /\ ~answer
    BY <1>2
  <2>2. Len(data_in) \notin {3, 6, 9, 12, 15, 18, 21, 24}
    <3>1. \A k \in {3, 6, 9, 12, 15, 18, 21, 24} : k >= 3 /\ k <= 24 /\ k % 3 = 0
      OBVIOUS
    <3> QED
      BY <2>1, <3>1 DEF Code!CountOk, Count
  <2> QED
    BY <2>1, <2>2 DEF Code!ChecksumIsBip39
<1> QED
  BY <1>2, <1>3, <1>5, <1>6, <1>7, <1>8 DEF CodeInv

(* One more bit.                                                           *)
LEMMA LoadStep ==
    ASSUME CodeInv, Code!LoadBit PROVE CodeInv'
<1> DEFINE t == Code!To
           n == Len(data_out)
           before == t * n
           l == loaded_bits
           b == Wanted[before + (l + 1)]
           more == 2 * acc + b
           S == 0..(P(t) - 1)
<1>1. /\ at = "load" /\ read < Code!From * Count /\ read' = read + 1
      /\ UNCHANGED <<word_bits, byte_bits, call, data_in, padding, at, hash, answer>>
  BY DEF Code!LoadBit, Code!args, Count
<1>2. Called /\ Loading /\ answer = FALSE /\ data_out \in Seq(S)
      /\ (call = "validate" => Code!CountOk(Count))
  BY <1>1 DEF CodeInv
<1>3. /\ t \in Nat /\ t > 0 /\ Code!From * Count \in Nat /\ Wanted \in [Nat -> {0, 1}]
      /\ n \in Nat
  BY <1>2, CalledFacts, LenProperties
<1>4. /\ l \in 0..(t - 1) /\ acc \in 0..(P(l) - 1) /\ read = before + l
      /\ Copied(Wanted, data_out, t) /\ Begun(Wanted, acc, l, before)
  BY <1>2 DEF Loading
<1>5. before \in Nat /\ l \in Nat /\ acc \in Nat /\ read + 1 = before + (l + 1)
  <2>1. before \in Nat /\ l \in Nat
    BY <1>3, <1>4
  <2>2. P(l) \in Nat
    BY <2>1, ShiftedIs
  <2> HIDE DEF before, l
  <2> QED
    BY <1>4, <2>1, <2>2
<1>6. b \in {0, 1} /\ b = Code!BitAt(data_in, Code!From, read + 1)
  <2>1. read + 1 \in 1..(Code!From * Count) /\ read + 1 \in Nat
    BY <1>1, <1>3, <1>4, <1>5
  <2>2. Wanted[read + 1] = Code!BitAt(data_in, Code!From, read + 1)
    BY <2>1 DEF Wanted
  <2> QED
    BY <1>3, <1>5, <2>1, <2>2
<1>7. IF l + 1 = t
      THEN data_out' = Append(data_out, more) /\ acc' = 0 /\ loaded_bits' = 0
      ELSE acc' = more /\ loaded_bits' = l + 1 /\ UNCHANGED data_out
  BY <1>6 DEF Code!LoadBit, Code!Full
<1>8. Begun(Wanted, more, l + 1, before) /\ more \in 0..(P(l + 1) - 1)
  <2> HIDE DEF before, l
  <2>1. Begun(Wanted, 2 * acc + Wanted[before + (l + 1)], l + 1, before)
    BY <1>4, <1>5, <1>6, BegunOn
  <2>2. more \in 0..(P(l + 1) - 1)
    BY <1>4, <1>5, <1>6, BitFits
  <2> QED
    BY <2>1, <2>2
<1>9. /\ Code!From' = Code!From /\ Code!To' = t /\ Count' = Count /\ Wanted' = Wanted
      /\ Called' /\ at' = "load" /\ answer' = FALSE
      /\ (call' = "validate" => Code!CountOk(Count'))
  BY <1>1, <1>2, CallStays
<1> HIDE DEF b
<1>10. /\ data_out' \in Seq(S) /\ loaded_bits' \in 0..(t - 1) /\ acc' \in 0..(P(loaded_bits') - 1)
       /\ read' = t * Len(data_out') + loaded_bits'
       /\ Copied(Wanted, data_out', t)
       /\ Begun(Wanted, acc', loaded_bits', t * Len(data_out'))
  <2>1. CASE l + 1 = t
    <3>1. data_out' = Append(data_out, more) /\ acc' = 0 /\ loaded_bits' = 0
      BY <1>7, <2>1
    <3>2. more \in S /\ Begun(Wanted, more, t, t * n)
      BY <1>8, <2>1
    <3>3. data_out' \in Seq(S) /\ Len(data_out') = n + 1
      BY <1>2, <3>1, <3>2, AppendProperties
    <3>4. Copied(Wanted, data_out', t)
      <4> HIDE DEF S, more
      <4> QED
        BY <1>2, <1>3, <1>4, <3>1, <3>2, CopiedOn
    <3>5. read' = t * (n + 1)
      <4>1. t * (n + 1) = before + t
        BY <1>3
      <4>2. read + 1 = before + t
        BY <1>5, <2>1
      <4> QED
        BY <1>1, <4>1, <4>2
    <3>6. P(0) = 1 /\ 0 \in 0..(t - 1) /\ t * (n + 1) + 0 = t * (n + 1)
      BY <1>3, ShiftedIs
    <3>7. Begun(Wanted, 0, 0, t * (n + 1))
      BY DEF Begun
    <3> HIDE DEF t, n, S, more
    <3> QED
      BY <3>1, <3>3, <3>4, <3>5, <3>6, <3>7
  <2>2. CASE l + 1 # t
    <3>1. acc' = more /\ loaded_bits' = l + 1 /\ data_out' = data_out
      BY <1>7, <2>2
    <3>2. l + 1 \in 0..(t - 1)
      BY <1>3, <1>4, <2>2
    <3>3. read' = before + (l + 1)
      BY <1>1, <1>5
    <3> HIDE DEF l, t, more, S
    <3> QED
      BY <1>2, <1>4, <1>8, <3>1, <3>2, <3>3
  <2> QED
    BY <2>1, <2>2
<1>11. read' <= Code!From * Count
  <2>1. read \in Nat /\ read' = read + 1 /\ read < Code!From * Count
    <3> HIDE DEF before
    <3> QED
      BY <1>1, <1>4, <1>5
  <2> QED
    BY <1>3, <2>1
<1>12. Loading'
  <2> HIDE DEF t
  <2> QED
    BY <1>9, <1>10, <1>11 DEF Loading, t
<1>13. (Code!ChecksumIsBip39)'
  BY <1>9 DEF Code!ChecksumIsBip39
<1>14. data_out' \in Seq(0..(P(Code!To') - 1))
  BY <1>9, <1>10
<1> QED
  BY <1>9, <1>12, <1>13, <1>14 DEF CodeInv

(* Behind the loops.                                                       *)
LEMMA FinishStep ==
    ASSUME CodeInv, Code!Finish PROVE CodeInv'
<1> DEFINE t == Code!To
           n == Len(data_out)
           before == t * n
           l == loaded_bits
           rest == acc * P(t - l)
           S == 0..(P(t) - 1)
<1>1. /\ at = "load" /\ read = Code!From * Count
      /\ data_out' = IF padding /\ l > 0 THEN Append(data_out, rest) ELSE data_out
      /\ at' = IF call = "validate" THEN "check" ELSE "done"
      /\ UNCHANGED <<word_bits, byte_bits, call, data_in, padding>>
  BY DEF Code!Finish, Code!args, Count, Code!Rest, P
<1>2. Called /\ Loading /\ data_out \in Seq(S)
      /\ (call = "validate" => Code!CountOk(Count))
  BY <1>1 DEF CodeInv
<1>3. /\ t \in Nat /\ t > 0 /\ Code!From * Count \in Nat /\ n \in Nat /\ padding \in BOOLEAN
      /\ Wanted \in [Nat -> {0, 1}]
  BY <1>2, CalledFacts, LenProperties DEF Called
<1>4. /\ l \in 0..(t - 1) /\ acc \in 0..(P(l) - 1) /\ Code!From * Count = before + l
      /\ Copied(Wanted, data_out, t) /\ Begun(Wanted, acc, l, before)
  BY <1>1, <1>2 DEF Loading
<1>5. Code!Required(Count, padding) = n + (IF l # 0 /\ padding THEN 1 ELSE 0)
  BY <1>2, <1>3, <1>4, RequiredIs
<1>6. before \in Nat /\ l \in Nat
  BY <1>3, <1>4
<1>7. /\ data_out' \in Seq(S) /\ Copied(Wanted, data_out', t)
      /\ Len(data_out') = Code!Required(Count, padding)
      /\ IF padding THEN Code!From * Count <= t * Len(data_out')
                    ELSE t * Len(data_out') <= Code!From * Count
  <2>1. CASE padding /\ l > 0
    <3>1. data_out' = Append(data_out, rest) /\ Code!Required(Count, padding) = n + 1
      BY <1>1, <1>5, <1>6, <2>1
    <3>2. Blanks(Wanted, l + 1, t, before)
      <4> SUFFICES ASSUME NEW k \in (l + 1)..t PROVE Wanted[before + k] = 0
        BY DEF Blanks
      <4>1. before + k \in Nat /\ ~(before + k <= before + l)
        <5> HIDE DEF before, t
        <5> QED
          BY <1>3, <1>6
      <4>2. before + k \notin 1..(Code!From * Count)
        BY <1>4, <4>1
      <4> QED
        BY <4>1, <4>2 DEF Wanted
    <3>3. Begun(Wanted, rest, t, before) /\ rest \in S
      <4>1. l \in 1..t
        BY <1>3, <1>4, <2>1
      <4> HIDE DEF before, t, l
      <4> QED
        BY <1>3, <1>4, <1>6, <3>2, <4>1, RestIs
    <3>4. data_out' \in Seq(S) /\ Len(data_out') = n + 1
      BY <1>2, <3>1, <3>3, AppendProperties
    <3>5. Copied(Wanted, data_out', t)
      <4> HIDE DEF S, rest
      <4> QED
        BY <1>2, <1>3, <1>4, <3>1, <3>3, CopiedOn
    <3>6. Code!From * Count <= t * (n + 1)
      <4>1. t * (n + 1) = before + t
        BY <1>3
      <4> HIDE DEF before
      <4> QED
        BY <1>3, <1>4, <1>6, <4>1
    <3> QED
      BY <2>1, <3>1, <3>4, <3>5, <3>6
  <2>2. CASE ~(padding /\ l > 0)
    <3>1. data_out' = data_out /\ Code!Required(Count, padding) = n
      BY <1>1, <1>3, <1>5, <1>6, <2>2
    <3>2. padding => l = 0
      BY <1>6, <2>2
    <3>3. IF padding THEN Code!From * Count <= t * n ELSE t * n <= Code!From * Count
      <4> HIDE DEF before
      <4>1. before <= Code!From * Count
        BY <1>4, <1>6
      <4>2. padding => Code!From * Count <= before
        BY <1>4, <1>6, <3>2
      <4> QED
        BY <4>1, <4>2 DEF before
    <3> QED
      BY <1>2, <1>4, <3>1, <3>3
  <2> QED
    BY <2>1, <2>2
<1>8. /\ Code!From' = Code!From /\ Code!To' = t /\ Count' = Count /\ Wanted' = Wanted
      /\ (Code!Required(Count, padding))' = Code!Required(Count, padding)
      /\ Called'
  BY <1>1, <1>2, CallStays
<1>9. Finished'
  <2> HIDE DEF t
  <2> QED
    BY <1>1, <1>7, <1>8 DEF Finished, t
<1>10. (Code!ChecksumIsBip39)'
  BY <1>1 DEF Code!ChecksumIsBip39
<1>11. data_out' \in Seq(0..(P(Code!To') - 1))
  BY <1>7, <1>8
<1>12. at' # "load" /\ (at' = "check" => call' = "validate" /\ Code!CountOk(Count'))
  BY <1>1, <1>2, <1>8
<1> QED
  BY <1>8, <1>9, <1>10, <1>11, <1>12 DEF CodeInv

(* The counts of words that are validated.                                 *)
LEMMA Counts ==
    ASSUME NEW n \in Nat
    PROVE  /\ Code!CountOk(n) => \E m \in 1..8 : n = 3 * m /\ n \div 3 = m
           /\ Code!CountOk(n) <=> n \in {3, 6, 9, 12, 15, 18, 21, 24}
<1>1. ASSUME Code!CountOk(n)
      PROVE  /\ \E m \in 1..8 : n = 3 * m /\ n \div 3 = m
             /\ n \in {3, 6, 9, 12, 15, 18, 21, 24}
  <2>1. n >= 3 /\ n <= 24 /\ n % 3 = 0
    BY <1>1 DEF Code!CountOk
  <2> DEFINE m == n \div 3
  <2>2. m \in Int /\ n = 3 * m + (n % 3)
    <3>1. 3 \in Nat /\ 3 > 0 /\ n \in Int
      OBVIOUS
    <3> QED
      BY <3>1, Division
  <2>3. n = 3 * m /\ m \in Int
    BY <2>1, <2>2
  <2> HIDE DEF m
  <2>4. m \in {1, 2, 3, 4, 5, 6, 7, 8}
    BY <2>1, <2>3
  <2>5. m \in 1..8 /\ n \in {3, 6, 9, 12, 15, 18, 21, 24}
    BY <2>3, <2>4
  <2> QED
    BY <2>3, <2>5 DEF m
<1>2. n \in {3, 6, 9, 12, 15, 18, 21, 24} => Code!CountOk(n)
  <2>1. \A k \in {3, 6, 9, 12, 15, 18, 21, 24} : k >= 3 /\ k <= 24 /\ k % 3 = 0
    OBVIOUS
  <2> QED
    BY <2>1 DEF Code!CountOk
<1> QED
  BY <1>1, <1>2

(* A mnemonic of 3 m words is 4 m bytes and m bits of checksum, which have *)
(* a byte of their own.                                                    *)
LEMMA ChecksumPlace ==
    ASSUME CodeInv, at = "check"
    PROVE  \E m \in 1..8 :
              /\ Count = 3 * m /\ Count \div 3 = m /\ m <= Code!To
              /\ Code!From * Count = Code!To * (4 * m) + m
              /\ Len(data_out) = 4 * m + 1
<1> DEFINE t == Code!To
           f == Code!From
<1>1. /\ Called /\ Finished /\ call = "validate" /\ padding = TRUE /\ Code!CountOk(Count)
  BY DEF CodeInv, Refused, Called
<1>2. /\ t \in Nat /\ f \in Nat /\ Count \in Nat /\ 3 * f = 4 * t + 1 /\ Count <= 3 * t /\ t > 0
  BY <1>1, CalledFacts
<1>3. PICK m \in 1..8 : Count = 3 * m /\ Count \div 3 = m
  BY <1>1, <1>2, Counts
<1>4. m <= t
  BY <1>2, <1>3
<1>5. f * Count = t * (4 * m) + m
  <2>1. f * (3 * m) = (3 * f) * m
    BY <1>2
  <2>2. (4 * t + 1) * m = t * (4 * m) + m
    BY <1>2
  <2> QED
    BY <1>2, <1>3, <2>1, <2>2
<1>6. Len(data_out) = 4 * m + 1
  <2>0. Len(data_out) = Code!Required(Count, TRUE) /\ TRUE \in BOOLEAN
    BY <1>1 DEF Finished
  <2>1. CASE m = t
    <3> DEFINE q == 4 * m + 1
    <3>1. q \in Nat /\ 0 \in 0..(t - 1) /\ f * Count = t * q + 0
      <4>1. t * (4 * m + 1) = t * (4 * m) + t
        BY <1>2
      <4>2. t * (4 * m) \in Nat
        BY <1>2
      <4> QED
        BY <1>2, <1>5, <2>1, <4>1, <4>2
    <3> HIDE DEF q, f, t
    <3>2. Code!Required(Count, TRUE) = q + 0
      BY <1>1, <3>1, RequiredIs DEF f, t
    <3>3. q + 0 = q
      BY <3>1
    <3>4. Len(data_out) = q
      BY <2>0, <3>2, <3>3
    <3> QED
      BY <3>4 DEF q
  <2>2. CASE m # t
    <3> DEFINE q == 4 * m
    <3>1. q \in Nat /\ m \in 0..(t - 1) /\ f * Count = t * q + m /\ m # 0
      BY <1>2, <1>4, <1>5, <2>2
    <3> HIDE DEF q, f, t
    <3>2. Code!Required(Count, TRUE) = q + 1
      BY <1>1, <3>1, RequiredIs DEF f, t
    <3> QED
      BY <2>0, <3>1, <3>2 DEF q
  <2> QED
    BY <2>1, <2>2
<1> QED
  BY <1>3, <1>4, <1>5, <1>6, SMTT(30)

(* The comparison at the end of bip39_validate_checksum is that of BIP-39. *)
LEMMA CheckStep ==
    ASSUME CodeInv, Code!CheckSum PROVE CodeInv'
<1> DEFINE t == Code!To
           f == Code!From
           bits == Code!BitsOf(data_in, f)
<1>1. PICK first \in 0..(P(t) - 1) :
        /\ hash' = [of |-> SubSeq(data_out, 1, Code!Required(Count, TRUE) - 1), is |-> first]
        /\ answer' = (data_out[Code!Required(Count, TRUE)] = Code!Masked(first, Count))
  <2>1. t = byte_bits
    BY DEF Code!CheckSum, CodeInv, Code!To
  <2> QED
    BY <2>1 DEF Code!CheckSum, Count, P
<1>2. /\ at = "check" /\ at' = "done"
      /\ UNCHANGED <<word_bits, byte_bits, call, data_in, padding, read, data_out>>
  BY DEF Code!CheckSum, Code!args, Code!out
<1>3. /\ Called /\ Finished /\ call = "validate" /\ padding = TRUE /\ Code!CountOk(Count)
      /\ data_out \in Seq(0..(P(t) - 1))
  BY <1>2 DEF CodeInv, Refused, Called
<1>4. /\ t \in Nat /\ t > 0 /\ f \in Nat /\ Count \in Nat /\ data_in \in Seq(Nat)
      /\ f = word_bits /\ t = byte_bits /\ f * Count \in Nat
  BY <1>3, CalledFacts
<1>5. PICK m \in 1..8 :
        /\ Count = 3 * m /\ Count \div 3 = m /\ m <= t
        /\ f * Count = t * (4 * m) + m
        /\ Len(data_out) = 4 * m + 1
  BY <1>2, ChecksumPlace
<1>6. Code!Required(Count, TRUE) = 4 * m + 1 /\ Copied(Wanted, data_out, t)
  BY <1>3, <1>5 DEF Finished
<1> DEFINE e == t * (4 * m)
           x == data_out[4 * m + 1]
<1>7. e \in Nat /\ f * Count = e + m /\ t * (4 * m + 1) = e + t
  BY <1>4, <1>5
<1>8. x \in 0..(P(t) - 1)
  <2>1. 4 * m + 1 \in 1..Len(data_out)
    BY <1>5
  <2> QED
    BY <1>3, <2>1, ElementOfSeq
<1>9. /\ bits \in Seq(Nat) /\ Len(bits) = e + m
      /\ \A k \in 1..(e + m) : k \in Nat /\ bits[k] = Wanted[k]
  <2>1. bits = [k \in 1..(f * Count) |-> Code!BitAt(data_in, f, k)]
    BY DEF Code!BitsOf, Count
  <2>2. \A k \in 1..(f * Count) : Code!BitAt(data_in, f, k) \in Nat
    BY <1>4, BitAtType DEF Count
  <2>3. \A k \in 1..(f * Count) : Wanted[k] = Code!BitAt(data_in, f, k)
    BY <1>4 DEF Wanted
  <2> DEFINE c == f * Count
  <2>4. /\ bits = [k \in 1..c |-> Code!BitAt(data_in, f, k)] /\ c \in Nat /\ c = e + m
        /\ \A k \in 1..c : Code!BitAt(data_in, f, k) \in Nat
        /\ \A k \in 1..c : Wanted[k] = Code!BitAt(data_in, f, k)
    BY <1>4, <1>7, <2>1, <2>2, <2>3
  <2> HIDE DEF c, bits, e, f
  <2> QED
    BY <2>4
<1>10. ASSUME NEW i \in 1..(4 * m + 1), NEW k \in 1..t
       PROVE  /\ t * (i - 1) + k \in 1..(e + t)
              /\ Code!Bit(data_out[i], t, k) = Wanted[t * (i - 1) + k]
  <2> DEFINE c == t * (i - 1)
             d == t * (4 * m)
  <2>1. c \in Nat /\ d \in Nat /\ c <= d
    <3>1. i - 1 \in Nat /\ i - 1 <= 4 * m /\ 4 * m \in Nat
      BY <1>5
    <3> QED
      BY <1>4, <3>1, Bigger
  <2>2. c + k \in 1..(d + t)
    <3> HIDE DEF c, d, t
    <3> QED
      BY <1>4, <2>1
  <2>3. Code!BitAt(data_out, t, c + k) = Wanted[c + k]
    BY <1>5, <1>6, <1>7, <2>2 DEF Copied
  <2>4. Code!BitAt(data_out, t, c + k) = Code!Bit(data_out[i], t, k)
    <3>1. i - 1 \in Nat /\ (i - 1) + 1 = i
      BY <1>5
    <3> HIDE DEF t
    <3>2. Code!BitAt(data_out, t, t * (i - 1) + k) = Code!Bit(data_out[(i - 1) + 1], t, k)
      BY <1>4, <3>1, BitAtPlace
    <3> QED
      BY <3>1, <3>2
  <2> QED
    BY <2>2, <2>3, <2>4
<1> HIDE DEF e, bits, x
<1>11. hash'.of = [i \in 1..(4 * m) |-> Code!Number(SubSeq(bits, t * (i - 1) + 1, t * i))]
  <2>1. hash'.of = SubSeq(data_out, 1, 4 * m)
    <3>1. (4 * m + 1) - 1 = 4 * m
      BY <1>5
    <3>2. hash'.of = SubSeq(data_out, 1, Code!Required(Count, TRUE) - 1)
      BY <1>1
    <3> QED
      BY <1>6, <3>1, <3>2
  <2>2. SubSeq(data_out, 1, 4 * m) = [i \in 1..(4 * m) |-> data_out[i]]
    <3>1. 4 * m \in Nat /\ 4 * m <= Len(data_out)
      BY <1>5
    <3> DEFINE o == 4 * m
               R == 0..(P(t) - 1)
    <3>2. data_out \in Seq(R) /\ o \in Nat /\ o <= Len(data_out)
      BY <1>3, <3>1
    <3> HIDE DEF o, R
    <3>3. SubSeq(data_out, 1, o) = [i \in 1..o |-> data_out[i]]
      BY <3>2
    <3> QED
      BY <3>3 DEF o
  <2>3. ASSUME NEW i \in 1..(4 * m)
        PROVE  data_out[i] = Code!Number(SubSeq(bits, t * (i - 1) + 1, t * i))
    <3> DEFINE c == t * (i - 1)
               part == SubSeq(bits, c + 1, t * i)
    <3>0. i \in 1..(4 * m + 1) /\ i \in 1..Len(data_out) /\ i - 1 \in Nat
      BY <1>5
    <3>1. c \in Nat /\ t * i = c + t /\ c + t <= e
      <4>1. t * i = t * (i - 1) + t /\ t * (i - 1) \in Nat
        BY <1>4, <3>0
      <4>2. t * i <= t * (4 * m)
        BY <1>4, <1>5, Bigger
      <4> QED
        BY <4>1, <4>2 DEF e
    <3>2. /\ part \in Seq(Nat) /\ Len(part) = t
          /\ \A k \in 1..t : part[k] = bits[c + k]
      <4> HIDE DEF c, t
      <4>1. part = SubSeq(bits, c + 1, c + t)
        BY <3>1
      <4>2. c + t <= Len(bits) /\ c + 1 \in Nat /\ c + t \in Nat
        <5>1. Len(bits) = e + m
          BY <1>9
        <5>2. t \in Nat /\ m \in Nat /\ e \in Nat /\ c \in Nat /\ c + t <= e
          BY <1>4, <1>5, <1>7, <3>1
        <5> QED
          BY <5>1, <5>2
      <4>3. SubSeq(bits, c + 1, c + t) = [k \in 1..t |-> bits[c + k]]
        <5>1. (c + t) - (c + 1) + 1 = t /\ \A k \in 1..t : (c + 1) + k - 1 = c + k
          BY <1>4, <3>1
        <5> QED
          BY <1>9, <4>2, <5>1, SMTT(60)
      <4>4. \A k \in 1..t : bits[c + k] \in Nat
        <5>1. \A k \in 1..t : c + k \in 1..Len(bits)
          BY <1>4, <3>1, <4>2
        <5> QED
          BY <1>9, <5>1, ElementOfSeq
      <4> DEFINE g == [k \in 1..t |-> bits[c + k]]
      <4>5. /\ g \in Seq(Nat) /\ Len(g) = t
            /\ \A k \in 1..t : g[k] = bits[c + k]
        BY <1>4, <4>4
      <4>6. part = g
        BY <4>1, <4>3
      <4> HIDE DEF part, g
      <4> QED
        BY <4>5, <4>6
    <3>3. \A k \in 1..t : part[k] = Code!Bit(data_out[i], t, k)
      <4> SUFFICES ASSUME NEW k \in 1..t PROVE part[k] = Code!Bit(data_out[i], t, k)
        OBVIOUS
      <4>1. Code!Bit(data_out[i], t, k) = Wanted[c + k]
        BY <1>10, <3>0
      <4>2. c + k \in 1..(e + m)
        <5> HIDE DEF c, t
        <5> QED
          BY <1>4, <1>5, <1>7, <3>1
      <4> HIDE DEF part, c
      <4> QED
        BY <1>9, <3>2, <4>1, <4>2, SMTT(30)
    <3>4. data_out[i] \in 0..(P(t) - 1)
      BY <1>3, <3>0, ElementOfSeq
    <3> HIDE DEF part, t
    <3>5. Code!Number(part) = data_out[i]
      BY <1>4, <3>2, <3>3, <3>4, NumberIs, SMTT(30)
    <3> QED
      BY <3>5 DEF part, t
  <2> QED
    BY <2>1, <2>2, <2>3
<1>12. answer' <=> \A k \in 1..m : bits[e + k] = Code!Bit(first, t, k)
  <2>1. \A k \in 1..t : Code!Bit(x, t, k) = Wanted[e + k]
    <3> SUFFICES ASSUME NEW k \in 1..t PROVE Code!Bit(x, t, k) = Wanted[e + k]
      OBVIOUS
    <3>1. 4 * m + 1 \in 1..(4 * m + 1) /\ (4 * m + 1) - 1 = 4 * m
      BY <1>5
    <3> DEFINE i == 4 * m + 1
    <3>2. Code!Bit(data_out[i], t, k) = Wanted[t * (i - 1) + k]
      <4> HIDE DEF i
      <4> QED
        BY <1>10, <3>1 DEF i
    <3> QED
      BY <3>1, <3>2 DEF e, x
  <2>2. \A k \in (m + 1)..t : Code!Bit(x, t, k) = 0
    <3> SUFFICES ASSUME NEW k \in (m + 1)..t PROVE Code!Bit(x, t, k) = 0
      OBVIOUS
    <3>1. k \in 1..t /\ e + k \in Nat /\ e + k \notin 1..(f * Count)
      BY <1>4, <1>5, <1>7
    <3> QED
      BY <2>1, <3>1 DEF Wanted
  <2>3. \A k \in 1..m : bits[e + k] = Code!Bit(x, t, k)
    <3> SUFFICES ASSUME NEW k \in 1..m PROVE bits[e + k] = Code!Bit(x, t, k)
      OBVIOUS
    <3>1. k \in 1..t /\ e + k \in 1..(e + m)
      BY <1>4, <1>5, <1>7
    <3> QED
      BY <1>9, <2>1, <3>1
  <2>4. x = first - (first % P(t - m)) <=> \A k \in 1..m : Code!Bit(x, t, k) = Code!Bit(first, t, k)
    <3>1. m \in 0..t
      BY <1>4, <1>5
    <3> HIDE DEF t
    <3> QED
      BY <1>4, <1>8, <2>2, <3>1, MaskedBits
  <2>5. Code!Masked(first, Count) = first - (first % P(t - m))
    BY <1>4, <1>5 DEF Code!Masked, P
  <2>6. answer' = (x = first - (first % P(t - m)))
    BY <1>1, <1>6, <2>5 DEF x
  <2> HIDE DEF t
  <2> QED
    BY <2>3, <2>4, <2>6
<1>13. (Code!ChecksumIsBip39)'
  <2>1. Len(data_in) \in {3, 6, 9, 12, 15, 18, 21, 24} /\ Len(data_in) \div 3 = m
    BY <1>3, <1>4, <1>5, Counts DEF Count
  <2>2. Code!BitsOf(data_in, word_bits) = bits
    BY <1>4 DEF bits
  <2>3. (Len(bits) - m) \div byte_bits = 4 * m /\ Len(bits) - m = e
    <3>1. Len(bits) - m = t * (4 * m) + 0 /\ Len(bits) - m = e
      BY <1>5, <1>7, <1>9 DEF e
    <3> DEFINE o == 4 * m
    <3>2. o \in Int /\ 0 \in 0..(t - 1)
      BY <1>4, <1>5
    <3> HIDE DEF o, t
    <3>3. (t * o + 0) \div t = o
      BY <1>4, <3>2, Quotient
    <3> QED
      BY <1>4, <3>1, <3>3, Zenon DEF o, t
  <2>4. hash'.is = first
    BY <1>1
  <2>5. byte_bits = t
    BY <1>4
  <2> DEFINE ok == \A k \in 1..m : bits[e + k] = Code!Bit(hash'.is, byte_bits, k)
             byte(i) == SubSeq(bits, byte_bits * (i - 1) + 1, byte_bits * i)
             of == [i \in 1..(4 * m) |-> Code!Number(byte(i))]
  <2>6. answer' <=> ok
    BY <1>12, <2>4, <2>5
  <2>7. hash'.of = of
    BY <1>11, <2>5
  <2>8. data_in' = data_in /\ byte_bits' = byte_bits /\ word_bits' = word_bits
    BY <1>2
  <2> QED
    BY <2>1, <2>2, <2>3, <2>6, <2>7, <2>8 DEF Code!ChecksumIsBip39
<1>14. /\ Code!To' = t /\ Wanted' = Wanted /\ Called'
       /\ (Code!Required(Count, padding))' = Code!Required(Count, padding)
       /\ Code!From' = f /\ Count' = Count
  BY <1>2, <1>3, CallStays
<1>15. Finished'
  BY <1>2, <1>3, <1>14 DEF Finished
<1>16. data_out' \in Seq(0..(P(Code!To') - 1))
  BY <1>2, <1>3, <1>14
<1> QED
  BY <1>2, <1>13, <1>14, <1>15, <1>16 DEF CodeInv

(* Two stretches of bits that follow one another are one.                  *)
LEMMA BitsJoined ==
    ASSUME NEW bits \in [Nat -> {0, 1}], NEW c \in Nat, NEW l \in Nat
    PROVE  [k \in 1..c |-> bits[k]] \o [k \in 1..l |-> bits[c + k]]
           = [k \in 1..(c + l) |-> bits[k]]
<1> DEFINE S == {0, 1}
           a == [k \in 1..c |-> bits[k]]
           b == [k \in 1..l |-> bits[c + k]]
           d == [k \in 1..(c + l) |-> bits[k]]
           ab == a \o b
<1>1. \A k \in Nat : bits[k] \in S
  OBVIOUS
<1> HIDE DEF S
<1>2. /\ a \in Seq(S) /\ b \in Seq(S) /\ d \in Seq(S)
      /\ Len(a) = c /\ Len(b) = l /\ Len(d) = c + l
  BY <1>1
<1>3. /\ \A k \in 1..c : a[k] = bits[k]
      /\ \A k \in 1..l : b[k] = bits[c + k]
      /\ \A k \in 1..(c + l) : d[k] = bits[k]
  OBVIOUS
<1> HIDE DEF a, b, d
<1>4. /\ ab \in Seq(S) /\ Len(ab) = c + l
      /\ \A k \in 1..(c + l) : ab[k] = IF k <= c THEN a[k] ELSE b[k - c]
  BY <1>2, ConcatProperties
<1> HIDE DEF ab
<1>5. ASSUME NEW k \in 1..(c + l) PROVE ab[k] = d[k]
  <2>1. CASE k <= c
    <3>1. k \in 1..c
      BY <2>1
    <3> QED
      BY <1>3, <1>4, <2>1, <3>1
  <2>2. CASE ~(k <= c)
    <3>1. k - c \in 1..l /\ c + (k - c) = k
      BY <2>2
    <3> QED
      BY <1>3, <1>4, <2>2, <3>1
  <2> QED
    BY <2>1, <2>2
<1>6. ab = d
  BY <1>2, <1>4, <1>5, SeqEqual
<1> QED
  BY <1>6 DEF a, b, d, ab

(* What the invariant says of sequences of bits.                           *)
LEMMA InvSameBits ==
    ASSUME CodeInv PROVE Code!SameBits
<1> DEFINE t == Code!To
           f == Code!From
           n == Len(data_out)
           l == loaded_bits
           size == f * Count
           ins == Code!BitsOf(data_in, f)
           outs == Code!BitsOf(data_out, t)
           reserved == Code!Required(Count, padding)
           begun == Code!BitsOf(<<acc>>, l)
<1>1. /\ Called /\ padding \in BOOLEAN /\ data_out \in Seq(0..(P(t) - 1))
      /\ (at = "load" => Loading) /\ (at # "load" => Finished \/ Refused)
  BY DEF CodeInv, Called
<1>2. /\ t \in Nat /\ t > 0 /\ f \in Nat /\ data_in \in Seq(Nat) /\ size \in Nat /\ n \in Nat
      /\ Count \in Nat /\ f > 0
  BY <1>1, CalledFacts, LenProperties
<1>3. /\ Len(ins) = size /\ ins \in Seq(Nat)
      /\ \A k \in 1..size : ins[k] = Wanted[k] /\ k \in Nat
  <2>1. ins = [k \in 1..size |-> Code!BitAt(data_in, f, k)]
    BY DEF Code!BitsOf, Count
  <2>2. \A k \in 1..size : Code!BitAt(data_in, f, k) \in Nat
    <3>1. Count = Len(data_in)
      BY DEF Count
    <3> HIDE DEF f
    <3> QED
      BY <1>2, <3>1, BitAtType
  <2>3. \A k \in 1..size : Wanted[k] = Code!BitAt(data_in, f, k)
    BY <1>2 DEF Wanted
  <2>4. size \in Nat
    BY <1>2
  <2> HIDE DEF size, ins, f
  <2> QED
    BY <2>1, <2>2, <2>3, <2>4
<1> DEFINE c == t * n
<1>4. c \in Nat
  BY <1>2
<1>5. /\ outs = [k \in 1..c |-> Code!BitAt(data_out, t, k)]
      /\ Len(outs) = c
  <2>1. outs = [k \in 1..c |-> Code!BitAt(data_out, t, k)]
    BY DEF Code!BitsOf
  <2> HIDE DEF c, outs
  <2> QED
    BY <1>4, <2>1
<1>6. Copied(Wanted, data_out, t) => outs = [k \in 1..c |-> Wanted[k]]
  <2> HIDE DEF outs, t
  <2> QED
    BY <1>5 DEF Copied
<1>7. \A k \in Nat : k > size => Wanted[k] = 0
  BY <1>2 DEF Wanted
<1>8. ASSUME at = "load" PROVE outs \o begun = SubSeq(ins, 1, read)
  <2>1. /\ l \in 0..(t - 1) /\ read = c + l /\ read <= size
        /\ Copied(Wanted, data_out, t) /\ Begun(Wanted, acc, l, c)
    BY <1>1, <1>8 DEF Loading
  <2>2. l \in Nat /\ read \in Nat
    <3> HIDE DEF c, l
    <3> QED
      BY <1>2, <1>4, <2>1
  <2>3. begun = [k \in 1..l |-> Wanted[c + k]]
    <3>1. begun = [k \in 1..(l * 1) |-> Code!BitAt(<<acc>>, l, k)]
      BY DEF Code!BitsOf
    <3>2. l * 1 = l
      BY <2>2
    <3>3. ASSUME NEW k \in 1..l PROVE Code!BitAt(<<acc>>, l, k) = Wanted[c + k]
      <4> DEFINE one == <<acc>>
      <4>1. one[0 + 1] = acc /\ 0 \in Nat
        OBVIOUS
      <4> HIDE DEF one, l
      <4>2. Code!BitAt(one, l, l * 0 + k) = Code!Bit(one[0 + 1], l, k)
        BY <2>2, <4>1, BitAtPlace
      <4>3. l * 0 + k = k
        BY <2>2
      <4>4. Code!Bit(acc, l, k) = Wanted[c + k]
        BY <2>1 DEF Begun
      <4> QED
        BY <4>1, <4>2, <4>3, <4>4 DEF one
    <3> HIDE DEF begun, l, c
    <3> QED
      BY <3>1, <3>2, <3>3
  <2>4. SubSeq(ins, 1, read) = [k \in 1..read |-> Wanted[k]]
    <3>1. SubSeq(ins, 1, read) = [k \in 1..read |-> ins[k]]
      <4> HIDE DEF ins, size, l, c
      <4> QED
        BY <1>3, <2>1, <2>2
    <3>2. \A k \in 1..read : k \in 1..size
      BY <1>2, <2>1, <2>2
    <3> HIDE DEF ins, size
    <3> QED
      BY <1>3, <3>1, <3>2
  <2>5. outs = [k \in 1..c |-> Wanted[k]]
    BY <1>6, <2>1
  <2>6. [k \in 1..c |-> Wanted[k]] \o [k \in 1..l |-> Wanted[c + k]]
        = [k \in 1..read |-> Wanted[k]]
    <3>1. /\ c \in Nat /\ l \in Nat /\ read = c + l /\ Wanted \in [Nat -> {0, 1}]
      BY <1>1, <1>4, <2>1, <2>2, CalledFacts
    <3> HIDE DEF c, l
    <3> QED
      BY <3>1, BitsJoined
  <2> QED
    BY <2>3, <2>4, <2>5, <2>6
<1>9. ASSUME at # "load", read > 0
      PROVE  /\ \A k \in 1..Len(outs) : outs[k] = IF k <= Len(ins) THEN ins[k] ELSE 0
             /\ Len(outs) = t * reserved
             /\ IF padding THEN Len(outs) >= Len(ins) ELSE Len(outs) <= Len(ins)
  <2>1. Finished
    BY <1>1, <1>9 DEF Refused
  <2>2. outs = [k \in 1..c |-> Wanted[k]] /\ n = reserved
    BY <1>6, <2>1 DEF Finished
  <2>3. IF padding THEN c >= size ELSE c <= size
    <3>1. IF padding THEN size <= c ELSE c <= size
      BY <2>1 DEF Finished
    <3> HIDE DEF c, size
    <3> QED
      BY <1>2, <1>4, <3>1
  <2>4. \A k \in 1..c : outs[k] = IF k <= size THEN ins[k] ELSE 0
    <3> SUFFICES ASSUME NEW k \in 1..c PROVE outs[k] = IF k <= size THEN ins[k] ELSE 0
      OBVIOUS
    <3>1. outs[k] = Wanted[k] /\ k \in Nat /\ k >= 1
      <4> HIDE DEF outs, c
      <4> QED
        BY <1>4, <2>2
    <3>2. CASE k <= size
      <4>1. k \in 1..size
        BY <1>2, <3>1, <3>2
      <4> HIDE DEF outs, ins, size
      <4> QED
        BY <1>3, <3>1, <3>2, <4>1
    <3>3. CASE ~(k <= size)
      BY <1>2, <1>7, <3>1, <3>3
    <3> QED
      BY <3>2, <3>3
  <2> HIDE DEF outs, ins, size
  <2> QED
    BY <1>3, <1>5, <2>2, <2>3, <2>4
<1>10. n <= reserved
  <2>1. CASE at = "load"
    <3>1. /\ l \in 0..(t - 1) /\ c + l <= size
      BY <1>1, <2>1 DEF Loading
    <3> DEFINE q == size \div t
               r == size % t
    <3>2. q \in Nat /\ r \in 0..(t - 1) /\ size = t * q + r
      <4> HIDE DEF size, t
      <4> QED
        BY <1>2, Division, Halves
    <3> HIDE DEF q, r
    <3>3. reserved = q + (IF r # 0 /\ padding THEN 1 ELSE 0)
      BY <1>1, <3>2, RequiredIs
    <3>4. n <= q
      <4>1. SUFFICES ASSUME q + 1 <= n PROVE FALSE
        BY <1>2, <3>2
      <4>2. t * (q + 1) <= c
        <5> DEFINE o == q + 1
        <5>1. o \in Int /\ n \in Int /\ o <= n
          BY <1>2, <3>2, <4>1
        <5> HIDE DEF o, n, t
        <5>2. t * o <= t * n
          BY <1>2, <5>1, Bigger
        <5> QED
          BY <5>2 DEF o
      <4>3. t * (q + 1) = t * q + t
        BY <1>2, <3>2
      <4> DEFINE d == t * q
      <4>4. d \in Nat /\ d + t <= c /\ size = d + r
        BY <1>2, <3>2, <4>2, <4>3
      <4> HIDE DEF c, d, size, l, t
      <4> QED
        BY <1>2, <1>4, <3>1, <3>2, <4>4
    <3> HIDE DEF reserved
    <3> QED
      BY <1>2, <3>2, <3>3, <3>4
  <2>2. CASE at # "load" /\ Finished
    <3>1. n = reserved
      BY <2>2 DEF Finished
    <3> QED
      BY <1>2, <3>1
  <2>3. CASE at # "load" /\ Refused
    <3>1. n = 0
      BY <2>3 DEF Refused
    <3>2. reserved \in Nat
      <4> DEFINE q == size \div t
                 r == size % t
      <4>1. q \in Nat /\ r \in 0..(t - 1) /\ size = t * q + r
        <5> HIDE DEF size, t
        <5> QED
          BY <1>2, Division, Halves
      <4> HIDE DEF q, r
      <4>2. reserved = q + (IF r # 0 /\ padding THEN 1 ELSE 0)
        BY <1>1, <4>1, RequiredIs
      <4> HIDE DEF reserved
      <4> QED
        BY <4>1, <4>2
    <3> HIDE DEF reserved
    <3> QED
      BY <3>1, <3>2
  <2> QED
    BY <1>1, <2>1, <2>2, <2>3
<1> HIDE DEF reserved, ins, outs, begun
<1> QED
  BY <1>8, <1>9, <1>10 DEF Code!SameBits, Count, ins, outs, begun, reserved

(* Every step of any call keeps the invariant of the coding.               *)
CodeHolds == fun = "code" => CodeInv

(* It holds at any time.                                                   *)
THEOREM CodeInductive == SpecAll => []CodeHolds
<1>1. InitAll => CodeHolds
  BY CodeStarts DEF InitAll, CodeHolds
<1>2. CodeHolds /\ [NextAll]_allVars => CodeHolds'
  <2> SUFFICES ASSUME CodeHolds, [NextAll]_allVars PROVE CodeHolds'
    OBVIOUS
  <2>1. CASE Convert
    <3>1. fun = "code" /\ Code!Next /\ CodeInv
      BY <2>1 DEF Convert, CodeHolds
    <3>2. CodeInv'
      BY <3>1, LoadStep, FinishStep, CheckStep DEF Code!Next
    <3> QED
      BY <3>2 DEF CodeHolds
  <2>2. CASE Search
    BY <2>2 DEF Search, CodeHolds
  <2>3. CASE Parse
    BY <2>3 DEF Parse, CodeHolds
  <2>4. CASE UNCHANGED allVars
    <3>1. fun = "code" => CodeInv
      BY DEF CodeHolds
    <3>2. /\ UNCHANGED <<fun, at, word_bits, byte_bits, call, data_in, padding, read, acc,
                         loaded_bits, data_out, hash, answer>>
      BY <2>4 DEF allVars, locals
    <3>3. UNCHANGED <<Called, Wanted, Count, Code!From, Code!To, Code!Required(Count, padding)>>
      BY <3>2 DEF Called, Wanted, Count, Code!From, Code!To, Code!Required
    <3>4. UNCHANGED <<Loading, Finished, Refused>>
      BY <3>2, <3>3 DEF Loading, Finished, Refused
    <3>5. UNCHANGED Code!ChecksumIsBip39
      BY <3>2 DEF Code!ChecksumIsBip39
    <3>6. UNCHANGED CodeInv
      BY <3>2, <3>3, <3>4, <3>5 DEF CodeInv
    <3> QED
      BY <3>1, <3>2, <3>6 DEF CodeHolds
  <2> QED
    BY <2>1, <2>2, <2>3, <2>4 DEF NextAll
<1> QED
  BY <1>1, <1>2, PTL DEF SpecAll

(* No bit is lost, twisted or invented by the coding, for items and inputs *)
(* of any size that the uint8_t counts fit.                                *)
THEOREM BitsAreKept == SpecAll => []SameBits
<1>1. CodeHolds => SameBits
  BY InvSameBits DEF CodeHolds, SameBits
<1> QED
  BY <1>1, CodeInductive, PTL

(* A mnemonic is accepted if and only if BIP-39 says that it is valid,     *)
(* whatever the hash answers.                                              *)
THEOREM ChecksumIsValidated == SpecAll => []ChecksumIsBip39
<1>1. CodeHolds => ChecksumIsBip39
  BY DEF CodeHolds, CodeInv, ChecksumIsBip39
<1> QED
  BY <1>1, CodeInductive, PTL

-----------------------------------------------------------------------------
(* The words a text is made of                                             *)

(* The words of the parser's list.                                         *)
LEMMA ListedWords ==
    /\ Text!WordsCount(List) \in Nat
    /\ \A i \in 0..(Text!WordsCount(List) - 1) :
          Text!GetWord(List, i) \in Seq(Text!Letters) /\ Len(Text!GetWord(List, i)) \in 1..Longest
<1> DEFINE ws == List.words
           W == Seq(Text!Letters)
<1>1. ws \in Seq(W) /\ \A i \in 1..Len(ws) : Len(ws[i]) \in 1..Longest
  BY TextAssumption DEF Text!WellFormed, Text!WordsCount
<1> HIDE DEF ws, W
<1>2. Len(ws) \in Nat /\ \A i \in 1..Len(ws) : ws[i] \in W
  BY <1>1, LenProperties, ElementOfSeq
<1>3. ASSUME NEW i \in 0..(Len(ws) - 1) PROVE i + 1 \in 1..Len(ws)
  BY <1>2
<1> QED
  BY <1>1, <1>2, <1>3 DEF Text!WordsCount, Text!GetWord, ws, W

(* What a look-up answers with is the index of a word that is the same, or *)
(* there is none.                                                          *)
LEMMA LookUp ==
    ASSUME NEW w
    PROVE  LET index == Text!IndexOf(List, w, Text!Invalid)
           IN  \/ /\ index \in 0..(Text!WordsCount(List) - 1) /\ index # Text!Invalid
                  /\ Text!SamePrefix(w, Text!GetWord(List, index), Longest + 1)
               \/ /\ index = Text!Invalid
                  /\ \A i \in 0..(Text!WordsCount(List) - 1) :
                        ~Text!SamePrefix(w, Text!GetWord(List, i), Longest + 1)
<1> DEFINE H == Text!Hits(List, w, TRUE)
           n == Text!WordsCount(List)
           index == Text!IndexOf(List, w, Text!Invalid)
<1>1. H = {i \in 0..(n - 1) : Text!SamePrefix(w, Text!GetWord(List, i), Longest + 1)}
  BY DEF Text!Hits, Text!Depth
<1>2. n \in Nat /\ Text!Invalid = n
  BY ListedWords DEF Text!Invalid
<1>3. CASE H = {}
  <2>1. index = Text!Invalid
    BY <1>3 DEF Text!IndexOf, Text!Earliest
  <2> QED
    BY <1>1, <1>3, <2>1
<1>4. CASE H # {}
  <2>1. H \in SUBSET Nat
    <3> HIDE DEF H, n
    <3>1. 0..(n - 1) \subseteq Nat
      BY <1>2
    <3> QED
      BY <1>1, <3>1
  <2>2. index = Text!Earliest(H, Text!Invalid)
    BY DEF Text!IndexOf
  <2> HIDE DEF H, index, n
  <2>3. \E i \in H : \A j \in H : i <= j
    BY <1>4, <2>1, LeastElement
  <2>4. index \in H
    BY <1>4, <2>2, <2>3 DEF Text!Earliest
  <2>5. index \in 0..(n - 1) /\ Text!SamePrefix(w, Text!GetWord(List, index), Longest + 1)
    BY <1>1, <2>4
  <2>6. index # n
    BY <1>2, <2>5
  <2> QED
    BY <1>2, <2>5, <2>6 DEF index, n
<1> QED
  BY <1>3, <1>4

(* The word with the index found is the one looked up.                     *)
LEMMA FoundIsWord ==
    ASSUME NEW w \in Seq(1..(Alphabet + 1)), Len(w) <= Longest,
           Text!IndexOf(List, w, Text!Invalid) # Text!Invalid
    PROVE  /\ Text!IndexOf(List, w, Text!Invalid) \in 0..(Text!WordsCount(List) - 1)
           /\ Text!GetWord(List, Text!IndexOf(List, w, Text!Invalid)) = w
<1> USE WordAssumption
<1> DEFINE index == Text!IndexOf(List, w, Text!Invalid)
           v == Text!GetWord(List, index)
           C == 1..(Alphabet + 1)
<1>1. index \in 0..(Text!WordsCount(List) - 1) /\ Text!SamePrefix(w, v, Longest + 1)
  BY LookUp
<1>2. v \in Seq(Text!Letters) /\ Len(v) \in 1..Longest
  BY <1>1, ListedWords
<1>3. Text!Letters \subseteq C
  BY DEF Text!Letters
<1> HIDE DEF index, v
<1>4. v \in Seq(C)
  <2> HIDE DEF C
  <2> QED
    BY <1>2, <1>3, SeqMonotonic
<1>5. w \in Seq(C)
  OBVIOUS
<1>6. \A c \in C : c # 0
  OBVIOUS
<1> HIDE DEF C
<1>7. /\ Len(w) \in Nat /\ Len(v) \in Nat /\ Len(v) <= Longest /\ Len(w) <= Longest
      /\ \A i \in 1..Len(w) : w[i] # 0
      /\ \A i \in 1..Len(v) : v[i] # 0
  <2>1. /\ \A i \in 1..Len(w) : w[i] \in C
        /\ \A i \in 1..Len(v) : v[i] \in C
    BY <1>4, <1>5, ElementOfSeq
  <2>2. Len(w) \in Nat /\ Len(v) \in Nat
    BY <1>4, <1>5, LenProperties
  <2> QED
    BY <1>2, <1>6, <2>1, <2>2
<1>8. \A i \in 1..(Longest + 1) : Text!At(w, i) = Text!At(v, i)
  BY <1>1 DEF Text!SamePrefix
<1>9. ~(Len(w) < Len(v))
  <2> SUFFICES ASSUME Len(w) < Len(v) PROVE FALSE
    OBVIOUS
  <2> DEFINE k == Len(w) + 1
  <2>1. k \in 1..(Longest + 1) /\ k \in 1..Len(v) /\ ~(k <= Len(w)) /\ k <= Len(v)
    BY <1>7
  <2> HIDE DEF k
  <2> QED
    BY <1>7, <1>8, <2>1 DEF Text!At
<1>10. ~(Len(v) < Len(w))
  <2> SUFFICES ASSUME Len(v) < Len(w) PROVE FALSE
    OBVIOUS
  <2> DEFINE k == Len(v) + 1
  <2>1. k \in 1..(Longest + 1) /\ k \in 1..Len(w) /\ ~(k <= Len(v)) /\ k <= Len(w)
    BY <1>7
  <2> HIDE DEF k
  <2> QED
    BY <1>7, <1>8, <2>1 DEF Text!At
<1>11. Len(v) = Len(w)
  BY <1>7, <1>9, <1>10
<1>12. ASSUME NEW i \in 1..Len(v) PROVE v[i] = w[i]
  <2>1. i \in 1..(Longest + 1) /\ i <= Len(v) /\ i <= Len(w)
    BY <1>7, <1>11
  <2> QED
    BY <1>8, <2>1 DEF Text!At
<1>13. v = w
  BY <1>4, <1>5, <1>11, <1>12, SeqEqual
<1> QED
  BY <1>1, <1>13 DEF index, v

(* A word that does not fit the buffer is none of the list.                *)
LEMMA TooLong ==
    ASSUME NEW w \in Seq(1..(Alphabet + 1)), Len(w) = Longest + 1
    PROVE  Text!IndexOf(List, w, Text!Invalid) = Text!Invalid
<1> USE WordAssumption
<1> DEFINE index == Text!IndexOf(List, w, Text!Invalid)
           v == Text!GetWord(List, index)
<1>1. SUFFICES ASSUME index # Text!Invalid PROVE FALSE
  OBVIOUS
<1>2. index \in 0..(Text!WordsCount(List) - 1) /\ Text!SamePrefix(w, v, Longest + 1)
  BY <1>1, LookUp
<1>3. Len(v) \in 1..Longest
  BY <1>2, ListedWords
<1> HIDE DEF index, v
<1> DEFINE k == Longest + 1
<1>4. k \in 1..k /\ k \in 1..Len(w) /\ ~(k <= Len(v)) /\ k <= Len(w)
  BY <1>3
<1>5. w[k] # 0
  <2>1. w[k] \in 1..(Alphabet + 1)
    <3> HIDE DEF k
    <3> QED
      BY <1>4, ElementOfSeq
  <2> QED
    BY <2>1
<1>6. Text!At(w, k) = Text!At(v, k)
  BY <1>2, <1>4 DEF Text!SamePrefix
<1> HIDE DEF k
<1> QED
  BY <1>4, <1>5, <1>6 DEF Text!At

-----------------------------------------------------------------------------
(* What the parser has done with a part of a text                          *)

(* From e on, up to n, nothing but one stretch between blanks.             *)
Stretch(t, e, n) ==
    /\ e < n /\ n <= Len(t) /\ \A k \in (e + 1)..n : t[k] # Text!Blank
    /\ e = 0 \/ t[e] = Text!Blank
    /\ n = Len(t) \/ t[n + 1] = Text!Blank

(* The stretches up to e are words of the list and ws are their indices.   *)
Settled(t, e, ws) ==
    /\ Len(ws) = Text!Rank(t, e)
    /\ \A i \in Text!Starts(t), j \in 1..e :
          Text!Ends(t, i, j) => /\ ws[Text!Rank(t, i)] = Text!Found(t, i, j)
                                /\ Text!Found(t, i, j) # Text!Invalid

(* Those that start up to some place.                                      *)
StartsTo(t, e) == {j \in Text!Starts(t) : j <= e}

(* The parser's module counts, joins and cuts as the others do.            *)
LEMMA SameOperators ==
    /\ \A S : Text!Cardinality(S) = Cardinality(S)
    /\ \A q : Text!FlattenSeq(q) = FlattenSeq(q)
    /\ \A q : Text!Front(q) = Front(q)
<1>1. \A S : Text!Cardinality(S) = Cardinality(S)
  BY DEF Text!Cardinality, Cardinality
<1>2. \A q : Text!FlattenSeq(q) = FlattenSeq(q)
  BY DEF Text!FlattenSeq, FlattenSeq
<1>3. \A q : Text!Front(q) = Front(q)
  BY DEF Text!Front, Front
<1> QED
  BY <1>1, <1>2, <1>3

(* Starts can be counted.                                                  *)
LEMMA StartsCount ==
    ASSUME NEW S, NEW t \in Seq(S), NEW e
    PROVE  /\ IsFiniteSet(StartsTo(t, e)) /\ Text!Rank(t, e) \in Nat
           /\ Text!Rank(t, e) = Cardinality(StartsTo(t, e))
           /\ \A i \in StartsTo(t, e) : i \in 1..Len(t)
<1>1. Len(t) \in Nat
  BY LenProperties
<1>2. IsFiniteSet(1..Len(t))
  BY <1>1, FS_Interval
<1>3. StartsTo(t, e) \in SUBSET (1..Len(t))
  BY DEF StartsTo, Text!Starts
<1>4. IsFiniteSet(StartsTo(t, e))
  BY <1>2, <1>3, FS_Subset
<1>5. Text!Rank(t, e) = Cardinality(StartsTo(t, e))
  BY SameOperators DEF Text!Rank, StartsTo
<1>6. Text!Rank(t, e) \in Nat
  BY <1>4, <1>5, FS_CardinalityType
<1>7. \A i \in StartsTo(t, e) : i \in 1..Len(t)
  BY <1>3
<1> QED
  BY <1>4, <1>5, <1>6, <1>7

(* Further to the right there are not fewer, and a start is counted.       *)
LEMMA RankGrows ==
    ASSUME NEW S, NEW t \in Seq(S), NEW e \in Nat, NEW i \in Text!Starts(t), i <= e
    PROVE  Text!Rank(t, i) \in 1..Text!Rank(t, e)
<1>1. i \in 1..Len(t) /\ i \in Nat
  BY DEF Text!Starts
<1>2. StartsTo(t, i) \in SUBSET StartsTo(t, e)
  BY <1>1 DEF StartsTo, Text!Starts
<1>3. i \in StartsTo(t, i)
  BY <1>1 DEF StartsTo
<1>4. /\ IsFiniteSet(StartsTo(t, e)) /\ IsFiniteSet(StartsTo(t, i))
      /\ Text!Rank(t, e) = Cardinality(StartsTo(t, e))
      /\ Text!Rank(t, i) = Cardinality(StartsTo(t, i))
      /\ Text!Rank(t, e) \in Nat /\ Text!Rank(t, i) \in Nat
  BY StartsCount
<1>5. Text!Rank(t, i) <= Text!Rank(t, e)
  BY <1>2, <1>4, FS_Subset
<1>6. Text!Rank(t, i) # 0
  BY <1>3, <1>4, FS_EmptySet
<1> QED
  BY <1>4, <1>5, <1>6

(* One more character changes nothing for the stretches before.            *)
LEMMA SettledMore ==
    ASSUME NEW s \in Seq(Text!Chars), NEW c \in Text!Chars, NEW e \in 0..Len(s), NEW ws,
           e = 0 \/ s[e] = Text!Blank, Settled(s, e, ws)
    PROVE  Settled(Append(s, c), e, ws)
<1> DEFINE t == Append(s, c)
           n == Len(s)
           S == Text!Chars
<1>1. /\ n \in Nat /\ Len(t) = n + 1 /\ \A j \in 1..n : t[j] = s[j]
  <2> HIDE DEF S
  <2> QED
    BY AppendProperties, LenProperties
<1>2. ASSUME NEW i \in Nat, NEW j \in 1..n, i >= 1
      PROVE  Text!Found(t, i, j) = Text!Found(s, i, j)
  <2>1. SubSeq(t, i, j) = SubSeq(s, i, j)
    BY <1>1, <1>2
  <2> HIDE DEF t
  <2> QED
    BY <2>1 DEF Text!Found
<1> HIDE DEF t, S
<1>3. ASSUME NEW j \in 1..n PROVE j \in Text!Starts(t) <=> j \in Text!Starts(s)
  <2>1. t[j] = s[j] /\ (j # 1 => t[j - 1] = s[j - 1]) /\ j \in 1..Len(t)
    BY <1>1
  <2> QED
    BY <2>1 DEF Text!Starts
<1>4. ASSUME NEW i \in 0..n PROVE Text!Rank(t, i) = Text!Rank(s, i)
  <2>1. \A j \in Text!Starts(t) : j \in 1..(n + 1)
    BY <1>1 DEF Text!Starts
  <2>2. \A j \in Text!Starts(s) : j \in 1..n
    BY DEF Text!Starts
  <2>3. StartsTo(t, i) = StartsTo(s, i)
    BY <1>1, <1>3, <2>1, <2>2 DEF StartsTo
  <2> QED
    BY <2>3 DEF Text!Rank, StartsTo
<1>5. ASSUME NEW i \in Text!Starts(t), NEW j \in 1..e, Text!Ends(t, i, j)
      PROVE  /\ ws[Text!Rank(t, i)] = Text!Found(t, i, j)
             /\ Text!Found(t, i, j) # Text!Invalid
  <2>1. i \in 1..Len(t) /\ i <= j /\ i \in Nat /\ j \in 1..n /\ i \in 1..n /\ e \in Nat
    BY <1>1, <1>5 DEF Text!Starts, Text!Ends
  <2>2. \A k \in i..j : s[k] # Text!Blank /\ t[k] # Text!Blank
    BY <1>1, <1>5, <2>1 DEF Text!Ends
  <2>3. j # e /\ j # n /\ j + 1 \in 1..n
    <3>1. s[j] # Text!Blank
      BY <2>1, <2>2
    <3> QED
      BY <1>1, <2>1, <3>1
  <2>4. s[j + 1] = Text!Blank
    <3>1. j # Len(t)
      BY <1>1, <2>1
    <3>2. t[j + 1] = Text!Blank
      BY <1>5, <3>1 DEF Text!Ends
    <3> QED
      BY <1>1, <2>3, <3>2
  <2>5. i \in Text!Starts(s) /\ Text!Ends(s, i, j)
    BY <1>3, <2>1, <2>2, <2>4 DEF Text!Ends
  <2>6. /\ ws[Text!Rank(s, i)] = Text!Found(s, i, j)
        /\ Text!Found(s, i, j) # Text!Invalid
    BY <2>1, <2>5 DEF Settled
  <2>7. Text!Rank(t, i) = Text!Rank(s, i)
    BY <1>4, <2>1
  <2>8. Text!Found(t, i, j) = Text!Found(s, i, j)
    BY <1>2, <2>1
  <2> QED
    BY <2>6, <2>7, <2>8
<1>6. Len(ws) = Text!Rank(t, e)
  BY <1>4 DEF Settled
<1> QED
  BY <1>5, <1>6 DEF Settled, t

(* Nor does a blank.                                                       *)
LEMMA SettledBlank ==
    ASSUME NEW t \in Seq(Text!Chars), NEW n \in Nat, NEW ws, n + 1 <= Len(t),
           t[n + 1] = Text!Blank, Settled(t, n, ws)
    PROVE  Settled(t, n + 1, ws)
<1>1. \A i \in Text!Starts(t) : i \in Nat /\ i # n + 1
  BY DEF Text!Starts
<1>2. StartsTo(t, n + 1) = StartsTo(t, n)
  BY <1>1 DEF StartsTo
<1>3. Len(ws) = Text!Rank(t, n + 1)
  BY <1>2 DEF Settled, Text!Rank, StartsTo
<1>4. ASSUME NEW i \in Text!Starts(t), NEW j \in 1..(n + 1), Text!Ends(t, i, j)
      PROVE  /\ ws[Text!Rank(t, i)] = Text!Found(t, i, j)
             /\ Text!Found(t, i, j) # Text!Invalid
  <2>1. j # n + 1
    BY <1>1, <1>4 DEF Text!Ends
  <2>2. j \in 1..n
    BY <2>1
  <2> QED
    BY <1>4, <2>2 DEF Settled
<1> QED
  BY <1>3, <1>4 DEF Settled

(* A stretch that is a word of the list goes on with them.                 *)
LEMMA SettledWord ==
    ASSUME NEW t \in Seq(Text!Chars), NEW e \in Nat, NEW n \in Nat, NEW ws \in Seq(Nat),
           NEW index \in Nat, Stretch(t, e, n), Settled(t, e, ws),
           index = Text!Found(t, e + 1, n), index # Text!Invalid
    PROVE  Settled(t, n, Append(ws, index))
<1> DEFINE more == Append(ws, index)
           o == e + 1
<1>1. /\ Len(ws) \in Nat /\ Len(more) = Len(ws) + 1 /\ more[Len(ws) + 1] = index
      /\ \A r \in 1..Len(ws) : more[r] = ws[r]
  BY AppendProperties, LenProperties
<1> HIDE DEF more
<1>2. o \in Text!Starts(t)
  BY DEF Stretch, Text!Starts
<1>3. \A i \in Text!Starts(t) : i \in Nat /\ (i <= n => i <= e \/ i = o)
  <2> SUFFICES ASSUME NEW i \in Text!Starts(t), i <= n, ~(i <= e), i # o PROVE FALSE
    BY DEF Text!Starts
  <2>1. i \in Nat /\ i # 1 /\ t[i - 1] = Text!Blank
    BY DEF Text!Starts
  <2>2. i - 1 \in o..n
    BY <2>1
  <2> QED
    BY <2>1, <2>2 DEF Stretch
<1>4. StartsTo(t, n) = StartsTo(t, e) \cup {o} /\ o \notin StartsTo(t, e)
      /\ StartsTo(t, o) = StartsTo(t, n)
  <2>1. e < n /\ o <= n
    BY DEF Stretch
  <2> QED
    BY <1>2, <1>3, <2>1 DEF StartsTo
<1>5. Text!Rank(t, n) = Len(ws) + 1 /\ Text!Rank(t, o) = Len(ws) + 1
      /\ Text!Rank(t, e) = Len(ws)
  <2>1. /\ IsFiniteSet(StartsTo(t, e))
        /\ Text!Rank(t, e) = Cardinality(StartsTo(t, e))
        /\ Text!Rank(t, n) = Cardinality(StartsTo(t, n))
        /\ Text!Rank(t, o) = Cardinality(StartsTo(t, o))
    BY StartsCount
  <2>2. Cardinality(StartsTo(t, n)) = Cardinality(StartsTo(t, e)) + 1
    BY <1>4, <2>1, FS_AddElement
  <2>3. Len(ws) = Text!Rank(t, e)
    BY DEF Settled
  <2> QED
    BY <1>4, <2>1, <2>2, <2>3
<1>6. ASSUME NEW i \in Text!Starts(t), NEW j \in 1..n, Text!Ends(t, i, j)
      PROVE  /\ more[Text!Rank(t, i)] = Text!Found(t, i, j)
             /\ Text!Found(t, i, j) # Text!Invalid
  <2>1. i \in Nat /\ i <= j /\ \A k \in i..j : t[k] # Text!Blank
    BY <1>3, <1>6 DEF Text!Ends
  <2>2. CASE j <= e
    <3>1. j \in 1..e /\ i <= e
      BY <2>1, <2>2
    <3>2. /\ ws[Text!Rank(t, i)] = Text!Found(t, i, j)
          /\ Text!Found(t, i, j) # Text!Invalid
      BY <1>6, <3>1 DEF Settled
    <3>3. Text!Rank(t, i) \in 1..Text!Rank(t, e)
      BY <3>1, RankGrows
    <3> QED
      BY <1>1, <1>5, <3>2, <3>3
  <2>3. CASE ~(j <= e)
    <3>1. j = n
      <4> SUFFICES ASSUME j # n PROVE FALSE
        OBVIOUS
      <4>1. j + 1 \in o..n /\ j # Len(t)
        BY <2>1, <2>3 DEF Stretch
      <4> QED
        BY <1>6, <4>1 DEF Stretch, Text!Ends
    <3>2. i = o
      <4>1. ~(i <= e)
        <5> SUFFICES ASSUME i <= e PROVE FALSE
          OBVIOUS
        <5>1. e \in i..j /\ e # 0
          BY <2>1, <2>3, <1>6 DEF Text!Starts
        <5> QED
          BY <2>1, <5>1 DEF Stretch
      <4> QED
        BY <1>3, <2>1, <3>1, <4>1
    <3> QED
      BY <1>1, <1>5, <3>1, <3>2
  <2> QED
    BY <2>2, <2>3
<1>7. Len(more) = Text!Rank(t, n)
  BY <1>1, <1>5
<1> QED
  BY <1>6, <1>7 DEF Settled, more

(* In the end all are settled.                                             *)
LEMMA SettledAll ==
    ASSUME NEW t \in Seq(Text!Chars), NEW ws, Settled(t, Len(t), ws)
    PROVE  /\ Len(ws) = Text!Cardinality(Text!Starts(t))
           /\ \A i \in Text!Starts(t), j \in 1..Len(t) :
                 Text!Ends(t, i, j) => /\ ws[Text!Rank(t, i)] = Text!Found(t, i, j)
                                       /\ Text!Found(t, i, j) # Text!Invalid
<1>1. \A i \in Text!Starts(t) : i <= Len(t)
  <2>1. Len(t) \in Nat
    BY LenProperties
  <2> QED
    BY <2>1 DEF Text!Starts
<1>2. StartsTo(t, Len(t)) = Text!Starts(t)
  BY <1>1 DEF StartsTo
<1>3. Text!Rank(t, Len(t)) = Text!Cardinality(Text!Starts(t))
  BY <1>2, StartsCount, SameOperators
<1> QED
  BY <1>3 DEF Settled

-----------------------------------------------------------------------------
(* A text written from indices                                             *)

Indices == 0..(Text!WordsCount(List) - 1)

(* Every word with a blank behind it.                                      *)
Spelling(ws) == [i \in 1..Len(ws) |-> Text!Spelled(ws[i])]
Written(ws) == FlattenSeq(Spelling(ws))

(* No blank but one behind a word.                                         *)
Spaced(t) == \A i \in 1..Len(t) : t[i] = Text!Blank => i # 1 /\ t[i - 1] # Text!Blank

(* What is written of a word is a text.                                    *)
LEMMA SpelledType ==
    ASSUME NEW i \in Indices
    PROVE  /\ Text!GetWord(List, i) \in Seq(Text!Chars)
           /\ Text!Spelled(i) \in Seq(Text!Chars)
           /\ Text!Spelled(i) = Text!GetWord(List, i) \o <<Text!Blank>>
<1> DEFINE S == Text!Chars
           w == Text!GetWord(List, i)
<1>1. Text!Letters \subseteq S /\ Text!Blank \in S
  BY WordAssumption DEF Text!Letters, Text!Chars, Text!Blank
<1>2. w \in Seq(Text!Letters)
  BY ListedWords DEF Indices
<1>3. Text!Spelled(i) = w \o <<Text!Blank>>
  BY DEF Text!Spelled
<1> HIDE DEF S, w
<1>4. w \in Seq(S)
  BY <1>1, <1>2, SeqMonotonic
<1>5. <<Text!Blank>> \in Seq(S)
  BY <1>1
<1>6. w \o <<Text!Blank>> \in Seq(S)
  BY <1>4, <1>5, ConcatProperties
<1> QED
  BY <1>3, <1>4, <1>6 DEF S, w

(* So is a spelling, word by word.                                         *)
LEMMA SpellingType ==
    ASSUME NEW ws \in Seq(Indices)
    PROVE  Spelling(ws) \in Seq(Seq(Text!Chars)) /\ Len(Spelling(ws)) = Len(ws)
<1> DEFINE W == Seq(Text!Chars)
           n == Len(ws)
<1>1. n \in Nat /\ \A i \in 1..n : ws[i] \in Indices
  BY LenProperties, ElementOfSeq
<1>2. \A i \in 1..n : Text!Spelled(ws[i]) \in W
  BY <1>1, SpelledType
<1> HIDE DEF W, n
<1> QED
  BY <1>1, <1>2 DEF Spelling, W, n

(* So is what is written.                                                  *)
LEMMA WrittenType ==
    ASSUME NEW ws \in Seq(Indices) PROVE Written(ws) \in Seq(Text!Chars)
BY SpellingType, FlattenType DEF Written

(* One more index is one more word and a blank.                            *)
LEMMA WrittenMore ==
    ASSUME NEW ws \in Seq(Indices), NEW i \in Indices
    PROVE  /\ Written(ws) \in Seq(Text!Chars)
           /\ Written(Append(ws, i)) = Written(ws) \o Text!Spelled(i)
<1> DEFINE W == Seq(Text!Chars)
           n == Len(ws)
           more == Append(ws, i)
           q == Spelling(ws)
           x == Text!Spelled(i)
           longer == Spelling(more)
<1>1. /\ more \in Seq(Indices) /\ Len(more) = n + 1 /\ more[n + 1] = i /\ n \in Nat
      /\ \A m \in 1..n : more[m] = ws[m]
  BY AppendProperties, LenProperties
<1> HIDE DEF more
<1>2. q \in Seq(W) /\ longer \in Seq(W) /\ Len(q) = n /\ Len(longer) = n + 1 /\ x \in W
  BY <1>1, SpellingType, SpelledType
<1>3. /\ \A m \in 1..n : q[m] = Text!Spelled(ws[m])
      /\ \A m \in 1..(n + 1) : longer[m] = Text!Spelled(more[m])
  BY <1>1 DEF Spelling
<1> HIDE DEF q, x, longer, n, W
<1>4. /\ Append(q, x) \in Seq(W) /\ Len(Append(q, x)) = n + 1 /\ Append(q, x)[n + 1] = x
      /\ \A m \in 1..n : Append(q, x)[m] = q[m]
  BY <1>2, AppendProperties
<1> DEFINE qx == Append(q, x)
<1> HIDE DEF qx
<1>5. ASSUME NEW m \in 1..Len(longer) PROVE longer[m] = qx[m]
  <2>1. m \in 1..(n + 1)
    BY <1>2
  <2>2. CASE m = n + 1
    BY <1>1, <1>3, <1>4, <2>1, <2>2 DEF x, qx
  <2>3. CASE m # n + 1
    <3>1. m \in 1..n
      BY <1>1, <2>1, <2>3
    <3> QED
      BY <1>1, <1>3, <1>4, <2>1, <3>1 DEF qx
  <2> QED
    BY <2>2, <2>3
<1>6. longer = qx
  <2>1. qx \in Seq(W) /\ Len(qx) = Len(longer)
    BY <1>2, <1>4 DEF qx
  <2> QED
    BY <1>2, <1>5, <2>1, SeqEqual
<1>7. FlattenSeq(Append(q, x)) = FlattenSeq(q) \o x /\ FlattenSeq(q) \in W
  <2> USE DEF W
  <2> QED
    BY <1>2, FlattenMore, FlattenType, Zenon
<1> QED
  BY <1>6, <1>7 DEF qx, q, x, longer, more, Written, W

(* When the word begun is the one with that index, the text goes on with   *)
(* a blank.                                                                *)
LEMMA WrittenOn ==
    ASSUME NEW ws \in Seq(Indices), NEW i \in Indices, NEW t \in Seq(Text!Chars),
           Written(ws) \o Text!GetWord(List, i) = t
    PROVE  Written(Append(ws, i)) = Append(t, Text!Blank)
<1> DEFINE S == Text!Chars
           w == Text!GetWord(List, i)
           b == <<Text!Blank>>
           u == Written(ws)
<1>1. u \in Seq(S) /\ Written(Append(ws, i)) = u \o Text!Spelled(i)
  BY WrittenMore
<1>2. w \in Seq(S) /\ Text!Spelled(i) = w \o b
  BY SpelledType
<1>3. Text!Blank \in S
  BY WordAssumption DEF Text!Chars, Text!Blank
<1>4. b \in Seq(S)
  BY <1>3
<1>5. t \in Seq(S) /\ u \o w = t
  OBVIOUS
<1> HIDE DEF S, w, u
<1>6. Append(t, Text!Blank) = t \o b
  BY <1>3, <1>5, AppendIsConcat
<1> HIDE DEF b
<1>7. (u \o w) \o b = u \o (w \o b)
  BY <1>1, <1>2, <1>4, ConcatAssociative, SMTT(60)
<1> QED
  BY <1>1, <1>2, <1>5, <1>6, <1>7

(* A text with one blank between words has it in every beginning.          *)
LEMMA SpacedBefore ==
    ASSUME NEW s \in Seq(Text!Chars), NEW c \in Text!Chars, Spaced(Append(s, c))
    PROVE  Spaced(s) /\ (c = Text!Blank => Len(s) # 0 /\ s[Len(s)] # Text!Blank)
<1> DEFINE t == Append(s, c)
           n == Len(s)
           S == Text!Chars
<1>1. /\ n \in Nat /\ Len(t) = n + 1 /\ t[n + 1] = c /\ \A j \in 1..n : t[j] = s[j]
  <2> HIDE DEF S
  <2> QED
    BY AppendProperties, LenProperties
<1>2. \A i \in 1..Len(t) : t[i] = Text!Blank => i # 1 /\ t[i - 1] # Text!Blank
  BY DEF Spaced
<1> HIDE DEF t, S
<1>3. ASSUME NEW i \in 1..n, s[i] = Text!Blank PROVE i # 1 /\ s[i - 1] # Text!Blank
  <2>1. i \in 1..Len(t) /\ t[i] = Text!Blank
    BY <1>1, <1>3
  <2>2. i # 1 /\ t[i - 1] # Text!Blank
    BY <1>2, <2>1
  <2>3. i - 1 \in 1..n
    BY <1>1, <2>2
  <2> QED
    BY <1>1, <2>2, <2>3
<1>4. ASSUME c = Text!Blank PROVE n # 0 /\ s[n] # Text!Blank
  <2>1. n + 1 \in 1..Len(t) /\ t[n + 1] = Text!Blank /\ (n + 1) - 1 = n
    BY <1>1, <1>4
  <2>2. n + 1 # 1 /\ t[n] # Text!Blank
    BY <1>2, <2>1
  <2>3. n \in 1..n
    BY <1>1, <2>2
  <2> QED
    BY <1>1, <2>2, <2>3
<1> QED
  BY <1>3, <1>4 DEF Spaced

-----------------------------------------------------------------------------
(* The parser                                                              *)

WordChars == 1..(Alphabet + 1)

(* What has been read is settled, but for the word that is begun.          *)
Reading(t, w, ws) ==
    LET e == Len(t) - Len(w) IN
    /\ e \in Nat /\ \A k \in 1..Len(w) : w[k] = t[e + k]
    /\ e = 0 \/ t[e] = Text!Blank
    /\ Settled(t, e, ws)
    /\ Spaced(t) => Written(ws) \o w = t

(* The property, of the text, the indices and the answer.                  *)
Answered(t, ws, r) ==
    LET starts == Text!Starts(t)
        places == 1..Len(t)
    IN  IF \E i \in starts, j \in places :
              Text!Ends(t, i, j) /\ Text!Found(t, i, j) = Text!Invalid
        THEN r = 0
        ELSE /\ r = Len(ws) /\ Len(ws) = Text!Cardinality(starts)
             /\ \A i \in starts, j \in places :
                   Text!Ends(t, i, j) => ws[Text!Rank(t, i)] = Text!Found(t, i, j)
             /\ (\A i \in places : t[i] = Text!Blank =>
                    i \notin {1, Len(t)} /\ t[i - 1] # Text!Blank)
                => Text!WordsToString(ws) = t

TextInv ==
    /\ str \in Seq(Text!Chars) /\ word \in Seq(WordChars) /\ words \in Seq(Indices)
    /\ at = "reading" => Len(word) <= Longest /\ Reading(str, word, words)
    /\ at = "done" => Answered(str, words, result)

(* The texts that the word ends in: a blank follows, or nothing does.      *)
EndsWord(u, t) == u = t \/ u = Append(t, Text!Blank)

(* The word begun is a stretch then.                                       *)
LEMMA WordIsStretch ==
    ASSUME NEW t \in Seq(Text!Chars), NEW w \in Seq(WordChars), NEW ws \in Seq(Indices),
           Reading(t, w, ws), w # <<>>, NEW u \in Seq(Text!Chars), EndsWord(u, t)
    PROVE  /\ Len(t) \in Nat /\ Len(t) - Len(w) \in Nat
           /\ Stretch(u, Len(t) - Len(w), Len(t)) /\ Settled(u, Len(t) - Len(w), ws)
           /\ Text!Found(u, (Len(t) - Len(w)) + 1, Len(t)) = Text!IndexOf(List, w, Text!Invalid)
<1> DEFINE n == Len(t)
           m == Len(w)
           e == n - m
<1>1. n \in Nat /\ m \in Nat /\ m > 0 /\ e \in Nat /\ e < n /\ e + m = n
  <2>1. n \in Nat /\ m \in Nat /\ m # 0
    <3>1. n \in Nat
      BY LenProperties
    <3>2. Len(w) \in Nat \ {0}
      <4>1. \A seq \in Seq(WordChars) : seq # <<>> => Len(seq) \in Nat \ {0}
        BY EmptySeq
      <4> QED
        BY <4>1
    <3> QED
      BY <3>1, <3>2
  <2>2. e \in Nat
    BY DEF Reading
  <2> QED
    BY <2>1, <2>2
<1>2. /\ \A k \in 1..m : w[k] = t[e + k]
      /\ e = 0 \/ t[e] = Text!Blank
      /\ Settled(t, e, ws)
  BY DEF Reading
<1>3. /\ Text!Blank \in Text!Chars /\ \A c \in WordChars : c # Text!Blank
  BY WordAssumption DEF Text!Chars, Text!Blank, WordChars
<1>4. \A k \in 1..m : w[k] # Text!Blank
  <2>1. \A k \in 1..m : w[k] \in WordChars
    BY ElementOfSeq
  <2> QED
    BY <1>3, <2>1
<1>5. /\ Len(u) \in Nat /\ n <= Len(u) /\ \A k \in 1..n : u[k] = t[k]
      /\ n = Len(u) \/ u[n + 1] = Text!Blank
  <2>1. CASE u = t
    BY <1>1, <2>1
  <2>2. CASE u = Append(t, Text!Blank)
    <3>1. Len(u) = n + 1 /\ u[n + 1] = Text!Blank /\ \A k \in 1..n : u[k] = t[k]
      BY <1>3, <2>2, AppendProperties
    <3> QED
      BY <1>1, <3>1
  <2> QED
    BY <2>1, <2>2 DEF EndsWord
<1>6. Settled(u, e, ws)
  <2>1. CASE u = t
    BY <1>2, <2>1
  <2>2. CASE u = Append(t, Text!Blank)
    <3>1. e \in 0..n
      BY <1>1
    <3> QED
      BY <1>2, <1>3, <2>2, <3>1, SettledMore, SMTT(30)
  <2> QED
    BY <2>1, <2>2 DEF EndsWord
<1> HIDE DEF n, m
<1>7. ASSUME NEW k \in (e + 1)..n PROVE u[k] # Text!Blank
  <2>1. k - e \in 1..m /\ e + (k - e) = k /\ k \in 1..n
    BY <1>1
  <2> QED
    BY <1>2, <1>4, <1>5, <2>1
<1>8. e = 0 \/ u[e] = Text!Blank
  <2>1. e # 0 => e \in 1..n
    BY <1>1
  <2> QED
    BY <1>2, <1>5, <2>1
<1>9. Stretch(u, e, n)
  BY <1>1, <1>5, <1>7, <1>8 DEF Stretch
<1>10. SubSeq(u, e + 1, n) = w
  <2> DEFINE o == e + 1
             v == SubSeq(u, o, n)
  <2>1. o \in Nat /\ n - o + 1 = m /\ o <= n /\ \A k \in 1..m : o + k - 1 = e + k /\ e + k \in 1..n
    BY <1>1
  <2>2. v \in Seq(Text!Chars) /\ Len(v) = m /\ \A k \in 1..m : v[k] = u[e + k]
    <3>1. \A k \in o..n : u[k] \in Text!Chars
      <4>1. \A k \in o..n : k \in 1..Len(u)
        <5>1. o \in Nat /\ o >= 1 /\ n \in Nat /\ Len(u) \in Nat /\ n <= Len(u)
          BY <1>1, <1>5
        <5> HIDE DEF o
        <5> QED
          BY <5>1
      <4> QED
        BY <4>1, ElementOfSeq
    <3>2. /\ v \in Seq(Text!Chars) /\ Len(v) = n - o + 1
          /\ \A k \in 1..(n - o + 1) : v[k] = u[o + k - 1]
      <4> HIDE DEF o
      <4> QED
        BY <1>1, <2>1, <3>1, SubSeqProperties
    <3> QED
      BY <2>1, <3>2, SMTT(60)
  <2>3. \A k \in 1..m : v[k] = w[k]
    BY <1>2, <1>5, <2>1, <2>2
  <2>4. w \in Seq(Text!Chars)
    <3>1. WordChars \subseteq Text!Chars /\ w \in Seq(WordChars)
      BY WordAssumption DEF Text!Chars, WordChars
    <3> QED
      BY <3>1, SeqMonotonic
  <2>5. Len(w) = m
    BY DEF m
  <2> HIDE DEF v
  <2>6. v = w
    BY <2>2, <2>3, <2>4, <2>5, SeqEqual
  <2> QED
    BY <2>6 DEF v
<1>11. Text!Found(u, e + 1, n) = Text!IndexOf(List, w, Text!Invalid)
  BY <1>10 DEF Text!Found
<1> QED
  BY <1>1, <1>6, <1>9, <1>11 DEF n, m

(* A text with a word that is none of the list is answered with 0.         *)
LEMMA BadAnswer ==
    ASSUME NEW t \in Seq(Text!Chars), NEW e \in Nat, NEW n \in Nat, Stretch(t, e, n),
           Text!Found(t, e + 1, n) = Text!Invalid, NEW ws
    PROVE  Answered(t, ws, 0)
<1> DEFINE i == e + 1
<1>1. i \in Text!Starts(t) /\ n \in 1..Len(t)
  BY LenProperties DEF Stretch, Text!Starts
<1>2. Text!Ends(t, i, n)
  BY DEF Stretch, Text!Ends
<1> HIDE DEF i
<1> QED
  BY <1>1, <1>2 DEF Answered, i

(* One that is settled, with the number of its words.                      *)
LEMMA GoodAnswer ==
    ASSUME NEW t \in Seq(Text!Chars), NEW ws, Settled(t, Len(t), ws),
           Spaced(t) /\ (t # <<>> => t[Len(t)] # Text!Blank) => Text!WordsToString(ws) = t
    PROVE  Answered(t, ws, Len(ws))
<1>1. /\ Len(ws) = Text!Cardinality(Text!Starts(t))
      /\ \A i \in Text!Starts(t), j \in 1..Len(t) :
            Text!Ends(t, i, j) => /\ ws[Text!Rank(t, i)] = Text!Found(t, i, j)
                                  /\ Text!Found(t, i, j) # Text!Invalid
  BY SettledAll
<1>2. ASSUME \A i \in 1..Len(t) : t[i] = Text!Blank =>
                i \notin {1, Len(t)} /\ t[i - 1] # Text!Blank
      PROVE  Text!WordsToString(ws) = t
  <2>1. Spaced(t)
    BY <1>2 DEF Spaced
  <2>2. ASSUME t # <<>> PROVE t[Len(t)] # Text!Blank
    <3>1. Len(t) \in 1..Len(t)
      BY <2>2, EmptySeq
    <3> QED
      BY <1>2, <3>1
  <2> QED
    BY <2>1, <2>2
<1> QED
  BY <1>1, <1>2 DEF Answered

(* A blank behind a blank, or in front.                                    *)
LEMMA BlankAfterBlank ==
    ASSUME NEW t \in Seq(Text!Chars), NEW ws \in Seq(Indices), Reading(t, <<>>, ws)
    PROVE  Reading(Append(t, Text!Blank), <<>>, ws)
<1> DEFINE n == Len(t)
           u == Append(t, Text!Blank)
           none == <<>>
<1>1. Len(none) = 0
  OBVIOUS
<1>2. n \in Nat /\ n - 0 = n
  BY LenProperties
<1>3. (n = 0 \/ t[n] = Text!Blank) /\ Settled(t, n, ws)
  BY <1>1, <1>2 DEF Reading
<1>4. Text!Blank \in Text!Chars
  BY WordAssumption DEF Text!Chars, Text!Blank
<1>5. u \in Seq(Text!Chars) /\ Len(u) = n + 1 /\ u[n + 1] = Text!Blank
  BY <1>4, AppendProperties
<1>6. Settled(u, n, ws)
  BY <1>2, <1>3, <1>4, SettledMore
<1>7. ~Spaced(u)
  <2> SUFFICES ASSUME Spaced(u) PROVE FALSE
    OBVIOUS
  <2>1. n # 0 /\ t[n] # Text!Blank
    BY <1>4, SpacedBefore
  <2> QED
    BY <1>3, <2>1
<1> HIDE DEF u, n
<1>8. Settled(u, n + 1, ws)
  BY <1>2, <1>5, <1>6, SettledBlank
<1>9. Len(u) - Len(none) = n + 1 /\ n + 1 \in Nat /\ \A k \in 1..Len(none) : FALSE
  BY <1>1, <1>2, <1>5
<1> HIDE DEF none
<1>10. Reading(u, none, ws)
  BY <1>5, <1>7, <1>8, <1>9 DEF Reading
<1> QED
  BY <1>10 DEF u, none

(* A word that is found ends at u: its stretch is settled too.             *)
LEMMA WordSettles ==
    ASSUME NEW t \in Seq(Text!Chars), NEW w \in Seq(WordChars), NEW ws \in Seq(Indices),
           Reading(t, w, ws), w # <<>>, Len(w) <= Longest,
           NEW u \in Seq(Text!Chars), EndsWord(u, t),
           NEW index, index = Text!IndexOf(List, w, Text!Invalid), index # Text!Invalid
    PROVE  /\ index \in Indices /\ Append(ws, index) \in Seq(Indices)
           /\ Settled(u, Len(t), Append(ws, index))
           /\ Spaced(t) => Written(Append(ws, index)) = Append(t, Text!Blank)
<1> DEFINE n == Len(t)
           e == n - Len(w)
<1>1. index \in Indices /\ Text!GetWord(List, index) = w
  BY FoundIsWord DEF Indices, WordChars
<1>2. Append(ws, index) \in Seq(Indices)
  BY <1>1, AppendProperties
<1>3. /\ n \in Nat /\ e \in Nat /\ Stretch(u, e, n) /\ Settled(u, e, ws)
      /\ Text!Found(u, e + 1, n) = index
  BY WordIsStretch
<1>4. ws \in Seq(Nat) /\ index \in Nat
  <2>1. Indices \subseteq Nat
    BY ListedWords DEF Indices
  <2>2. ws \in Seq(Nat)
    BY <2>1, SeqMonotonic
  <2> QED
    BY <1>1, <2>1, <2>2
<1>5. Settled(u, n, Append(ws, index))
  <2> HIDE DEF n, e
  <2> QED
    BY <1>3, <1>4, SettledWord
<1>6. ASSUME Spaced(t) PROVE Written(Append(ws, index)) = Append(t, Text!Blank)
  <2>1. Written(ws) \o w = t
    BY <1>6 DEF Reading
  <2> QED
    BY <1>1, <2>1, WrittenOn
<1> QED
  BY <1>1, <1>2, <1>5, <1>6

(* A blank behind a word.                                                  *)
LEMMA BlankAfterWord ==
    ASSUME NEW t \in Seq(Text!Chars), NEW w \in Seq(WordChars), NEW ws \in Seq(Indices),
           Reading(t, w, ws), w # <<>>, Len(w) <= Longest,
           NEW index, index = Text!IndexOf(List, w, Text!Invalid), index # Text!Invalid
    PROVE  /\ Append(ws, index) \in Seq(Indices)
           /\ Reading(Append(t, Text!Blank), <<>>, Append(ws, index))
<1> DEFINE n == Len(t)
           u == Append(t, Text!Blank)
           more == Append(ws, index)
           none == <<>>
<1>1. Len(none) = 0
  OBVIOUS
<1>2. n \in Nat
  BY LenProperties
<1>3. Text!Blank \in Text!Chars
  BY WordAssumption DEF Text!Chars, Text!Blank
<1>4. u \in Seq(Text!Chars) /\ Len(u) = n + 1 /\ u[n + 1] = Text!Blank
  BY <1>3, AppendProperties
<1>5. EndsWord(u, t)
  BY DEF EndsWord
<1>6. more \in Seq(Indices) /\ Settled(u, n, more) /\ (Spaced(t) => Written(more) = u)
  <2> HIDE DEF u
  <2>1. more \in Seq(Indices) /\ Settled(u, n, more)
        /\ (Spaced(t) => Written(more) = Append(t, Text!Blank))
    BY <1>4, <1>5, WordSettles
  <2> QED
    BY <2>1 DEF u
<1>7. Spaced(u) => Spaced(t)
  BY <1>3, SpacedBefore
<1> HIDE DEF u, n, more
<1>8. Settled(u, n + 1, more)
  BY <1>2, <1>4, <1>6, SettledBlank
<1>9. Spaced(u) => Written(more) \o none = u
  BY <1>4, <1>6, <1>7, ConcatEmptySeq
<1>10. Len(u) - Len(none) = n + 1 /\ n + 1 \in Nat /\ \A k \in 1..Len(none) : FALSE
  BY <1>1, <1>2, <1>4
<1> HIDE DEF none
<1>11. Reading(u, none, more)
  BY <1>4, <1>8, <1>9, <1>10, SMTT(30) DEF Reading
<1> QED
  BY <1>6, <1>11 DEF u, none, more

(* A character of a word.                                                  *)
LEMMA CharOn ==
    ASSUME NEW t \in Seq(Text!Chars), NEW w \in Seq(WordChars), NEW ws \in Seq(Indices),
           Reading(t, w, ws), NEW c \in Text!Chars, c # Text!Blank
    PROVE  /\ Append(w, c) \in Seq(WordChars) /\ Append(w, c) # <<>>
           /\ Len(Append(w, c)) = Len(w) + 1
           /\ Reading(Append(t, c), Append(w, c), ws)
<1> DEFINE n == Len(t)
           m == Len(w)
           e == n - m
           u == Append(t, c)
           v == Append(w, c)
<1>1. n \in Nat /\ m \in Nat
  <2>1. n \in Nat
    BY LenProperties
  <2>2. m \in Nat
    BY LenProperties
  <2> QED
    BY <2>1, <2>2
<1>2. c \in WordChars
  BY WordAssumption DEF Text!Chars, Text!Blank, WordChars
<1>3. /\ u \in Seq(Text!Chars) /\ Len(u) = n + 1 /\ u[n + 1] = c
      /\ \A k \in 1..n : u[k] = t[k]
  BY AppendProperties
<1>4. /\ v \in Seq(WordChars) /\ Len(v) = m + 1 /\ v[m + 1] = c /\ v # <<>>
      /\ \A k \in 1..m : v[k] = w[k]
  BY <1>2, AppendProperties
<1>5. /\ e \in Nat /\ \A k \in 1..m : w[k] = t[e + k]
      /\ e = 0 \/ t[e] = Text!Blank
      /\ Settled(t, e, ws)
  BY DEF Reading
<1>6. Settled(u, e, ws)
  <2>1. e \in 0..n
    BY <1>1, <1>5
  <2> QED
    BY <1>5, <2>1, SettledMore
<1>7. ASSUME Spaced(u) PROVE Written(ws) \o v = u
  <2>1. Spaced(t)
    BY <1>7, SpacedBefore
  <2>2. Written(ws) \o w = t
    BY <2>1 DEF Reading
  <2>3. u = t \o <<c>> /\ v = w \o <<c>>
    <3>1. u = t \o <<c>>
      BY AppendIsConcat
    <3>2. v = w \o <<c>>
      BY <1>2, AppendIsConcat
    <3> QED
      BY <3>1, <3>2
  <2>4. /\ Written(ws) \in Seq(Text!Chars) /\ w \in Seq(Text!Chars)
        /\ <<c>> \in Seq(Text!Chars)
    <3>1. Written(ws) \in Seq(Text!Chars)
      BY WrittenType
    <3>2. WordChars \subseteq Text!Chars
      BY WordAssumption DEF WordChars, Text!Chars
    <3>3. w \in Seq(Text!Chars)
      BY <3>2, SeqMonotonic
    <3> QED
      BY <3>1, <3>3
  <2> DEFINE d == <<c>>
             x == Written(ws)
  <2> HIDE DEF d, x, u, v
  <2>5. (x \o w) \o d = x \o (w \o d)
    BY <2>4, ConcatAssociative, SMTT(30) DEF d, x
  <2> QED
    BY <2>2, <2>3, <2>5, Zenon DEF d, x
<1> HIDE DEF n, m, u, v
<1>8. Len(u) - Len(v) = e
  BY <1>1, <1>3, <1>4
<1>9. ASSUME NEW k \in 1..Len(v) PROVE v[k] = u[e + k]
  <2>1. CASE k = m + 1
    BY <1>1, <1>3, <1>4, <2>1
  <2>2. CASE k # m + 1
    <3>1. k \in 1..m /\ e + k \in 1..n
      BY <1>1, <1>4, <1>5, <2>2, SMTT(30)
    <3> QED
      BY <1>3, <1>4, <1>5, <3>1, SMTT(30)
  <2> QED
    BY <2>1, <2>2
<1>10. e = 0 \/ u[e] = Text!Blank
  <2>1. e # 0 => e \in 1..n
    BY <1>1, <1>5
  <2> QED
    BY <1>3, <1>5, <2>1
<1>11. Reading(u, v, ws)
  <2> HIDE DEF e
  <2> QED
    BY <1>5, <1>6, <1>7, <1>8, <1>9, <1>10 DEF Reading
<1> QED
  BY <1>4, <1>11 DEF u, v, m

(* The word that ends at u is none of the list.                            *)
LEMMA BadWord ==
    ASSUME NEW t \in Seq(Text!Chars), NEW w \in Seq(WordChars), NEW ws \in Seq(Indices),
           Reading(t, w, ws), w # <<>>, NEW u \in Seq(Text!Chars), EndsWord(u, t),
           Text!IndexOf(List, w, Text!Invalid) = Text!Invalid
    PROVE  Answered(u, ws, 0)
<1> DEFINE n == Len(t)
           e == n - Len(w)
<1>1. /\ n \in Nat /\ e \in Nat /\ Stretch(u, e, n)
      /\ Text!Found(u, e + 1, n) = Text!Invalid
  BY WordIsStretch
<1> HIDE DEF n, e
<1> QED
  BY <1>1, BadAnswer

(* The text ends behind a blank, or there is none.                         *)
LEMMA EndAfterBlank ==
    ASSUME NEW t \in Seq(Text!Chars), NEW ws \in Seq(Indices), Reading(t, <<>>, ws)
    PROVE  Answered(t, ws, Len(ws))
<1> DEFINE n == Len(t)
           none == <<>>
<1>1. n \in Nat /\ n - Len(none) = n
  BY LenProperties
<1>2. (n = 0 \/ t[n] = Text!Blank) /\ Settled(t, n, ws)
  BY <1>1 DEF Reading
<1>3. ASSUME t # <<>> => t[n] # Text!Blank PROVE Text!WordsToString(ws) = t
  <2>1. t = <<>>
    <3>1. t # <<>> => n # 0
      BY EmptySeq
    <3> QED
      BY <1>2, <1>3, <3>1
  <2>2. Text!Starts(t) = {}
    BY <2>1 DEF Text!Starts
  <2>3. Len(ws) = Text!Cardinality(Text!Starts(t))
    BY <1>2, SettledAll
  <2>4. Len(ws) = 0
    BY <2>2, <2>3, SameOperators, FS_EmptySet
  <2>5. ws = <<>>
    BY <2>4, EmptySeq
  <2> QED
    BY <2>1, <2>5 DEF Text!WordsToString
<1> QED
  BY <1>2, <1>3, GoodAnswer

(* It ends with a word.                                                    *)
LEMMA EndAfterWord ==
    ASSUME NEW t \in Seq(Text!Chars), NEW w \in Seq(WordChars), NEW ws \in Seq(Indices),
           Reading(t, w, ws), w # <<>>, Len(w) <= Longest,
           NEW index, index = Text!IndexOf(List, w, Text!Invalid), index # Text!Invalid
    PROVE  /\ Append(ws, index) \in Seq(Indices)
           /\ Answered(t, Append(ws, index), Len(Append(ws, index)))
<1> DEFINE more == Append(ws, index)
           u == Append(t, Text!Blank)
<1>1. EndsWord(t, t)
  BY DEF EndsWord
<1>2. more \in Seq(Indices) /\ index \in Indices /\ Settled(t, Len(t), more)
      /\ (Spaced(t) => Written(more) = u)
  BY <1>1, WordSettles
<1>3. more # <<>>
  BY <1>2, AppendProperties
<1>4. Text!Front(u) = t
  <2>1. Text!Blank \in Text!Chars
    BY WordAssumption DEF Text!Chars, Text!Blank
  <2>2. /\ u \in Seq(Text!Chars) /\ Len(u) = Len(t) + 1 /\ Len(t) \in Nat
        /\ \A k \in 1..Len(t) : u[k] = t[k]
    BY <2>1, AppendProperties, LenProperties
  <2> HIDE DEF u
  <2>3. Len(u) - 1 = Len(t)
    BY <2>2
  <2>4. Text!Front(u) = SubSeq(u, 1, Len(t))
    BY <2>3 DEF Text!Front
  <2> DEFINE v == SubSeq(u, 1, Len(t))
  <2>5. v \in Seq(Text!Chars) /\ Len(v) = Len(t) /\ \A k \in 1..Len(t) : v[k] = u[k]
    BY <2>2
  <2> HIDE DEF v
  <2>6. v = t
    BY <2>2, <2>5, SeqEqual
  <2> QED
    BY <2>4, <2>6 DEF v
<1> HIDE DEF u, more
<1>5. ASSUME Spaced(t) PROVE Text!WordsToString(more) = t
  <2>1. Written(more) = u
    BY <1>2, <1>5
  <2>2. Text!WordsToString(more) = Text!Front(Written(more))
    BY <1>3, SameOperators DEF Text!WordsToString, Written, Spelling
  <2> QED
    BY <1>4, <2>1, <2>2
<1>6. Answered(t, more, Len(more))
  BY <1>2, <1>5, GoodAnswer
<1> QED
  BY <1>2, <1>6 DEF more

(* What the invariant says of the parser's state, and the property.        *)
LEMMA TextFacts ==
    ASSUME TextInv
    PROVE  /\ str \in Seq(Text!Chars) /\ word \in Seq(WordChars) /\ words \in Seq(Indices)
           /\ Text!ParsesTokens
BY DEF TextInv, Answered, Text!ParsesTokens

(* A blank.                                                                *)
LEMMA BlankStep ==
    ASSUME TextInv, Text!ReadBlank
    PROVE  TextInv'
<1> DEFINE u == Append(str, Text!Blank)
<1>1. /\ at = "reading" /\ str' = u /\ Len(word) <= Longest /\ Reading(str, word, words)
      /\ str \in Seq(Text!Chars) /\ word \in Seq(WordChars) /\ words \in Seq(Indices)
  BY DEF TextInv, Text!ReadBlank
<1>2. u \in Seq(Text!Chars) /\ EndsWord(u, str)
  <2>1. Text!Blank \in Text!Chars
    BY WordAssumption DEF Text!Chars, Text!Blank
  <2> QED
    BY <1>1, <2>1, AppendProperties DEF EndsWord
<1>3. <<>> \in Seq(WordChars) /\ Len(<<>>) <= Longest
  BY WordAssumption
<1>4. CASE word = <<>> /\ UNCHANGED <<word, words, at, result>>
  <2>1. Reading(u, <<>>, words)
    BY <1>1, <1>4, BlankAfterBlank
  <2> QED
    BY <1>1, <1>2, <1>3, <1>4, <2>1 DEF TextInv
<1>5. CASE word # <<>> /\ Text!EndWord /\ UNCHANGED <<at, result>>
  <2> DEFINE index == Text!IndexOf(List, word, Text!Invalid)
  <2>1. index # Text!Invalid /\ words' = Append(words, index) /\ word' = <<>>
    BY <1>5 DEF Text!EndWord
  <2> HIDE DEF index
  <2>2. words' \in Seq(Indices) /\ Reading(u, <<>>, words')
    BY <1>1, <1>5, <2>1, BlankAfterWord DEF index
  <2> QED
    BY <1>1, <1>2, <1>3, <1>5, <2>1, <2>2 DEF TextInv
<1>6. CASE word # <<>> /\ Text!NotListed /\ Text!Fail /\ UNCHANGED <<word, words>>
  <2>1. Answered(u, words, 0)
    BY <1>1, <1>2, <1>6, BadWord DEF Text!NotListed
  <2> QED
    BY <1>1, <1>2, <1>6, <2>1 DEF TextInv, Text!Fail
<1> QED
  BY <1>4, <1>5, <1>6 DEF Text!ReadBlank

(* Any other character.                                                    *)
LEMMA CharStep ==
    ASSUME TextInv, NEW c \in Text!Chars, Text!ReadChar(c)
    PROVE  TextInv'
<1> DEFINE u == Append(str, c)
           v == Append(word, c)
<1>1. /\ at = "reading" /\ str' = u /\ word' = v /\ words' = words /\ c # Text!Blank
      /\ Len(word) <= Longest /\ Reading(str, word, words)
      /\ str \in Seq(Text!Chars) /\ word \in Seq(WordChars) /\ words \in Seq(Indices)
      /\ IF Len(word') > Longest THEN Text!Fail ELSE UNCHANGED <<at, result>>
  BY DEF TextInv, Text!ReadChar
<1>2. /\ v \in Seq(WordChars) /\ v # <<>> /\ Len(v) = Len(word) + 1 /\ Len(word) \in Nat
      /\ Reading(u, v, words) /\ u \in Seq(Text!Chars)
  <2>1. Len(word) \in Nat
    BY <1>1, LenProperties
  <2>2. u \in Seq(Text!Chars)
    BY <1>1, AppendProperties
  <2> QED
    BY <1>1, <2>1, <2>2, CharOn, SMTT(30)
<1> HIDE DEF u, v
<1>3. Longest \in Nat
  BY WordAssumption
<1>4. CASE Len(v) > Longest
  <2>1. Len(v) = Longest + 1
    BY <1>1, <1>2, <1>3, <1>4
  <2>2. Text!IndexOf(List, v, Text!Invalid) = Text!Invalid
    BY <1>2, <2>1, TooLong DEF WordChars
  <2>3. EndsWord(u, u)
    BY DEF EndsWord
  <2>4. Answered(u, words, 0)
    BY <1>1, <1>2, <2>2, <2>3, BadWord
  <2> QED
    BY <1>1, <1>2, <1>4, <2>4 DEF TextInv, Text!Fail
<1>5. CASE ~(Len(v) > Longest)
  <2>1. Len(v) <= Longest
    BY <1>2, <1>3, <1>5
  <2> QED
    BY <1>1, <1>2, <1>5, <2>1 DEF TextInv
<1> QED
  BY <1>4, <1>5

(* The end of the text.                                                    *)
LEMMA EndStep ==
    ASSUME TextInv, Text!ReadEnd
    PROVE  TextInv'
<1>1. /\ at = "reading" /\ str' = str /\ Len(word) <= Longest /\ Reading(str, word, words)
      /\ str \in Seq(Text!Chars) /\ word \in Seq(WordChars) /\ words \in Seq(Indices)
  BY DEF TextInv, Text!ReadEnd
<1>2. EndsWord(str, str) /\ <<>> \in Seq(WordChars)
  BY DEF EndsWord
<1>3. CASE word = <<>> /\ at' = "done" /\ result' = Len(words) /\ UNCHANGED <<word, words>>
  <2>1. Answered(str, words, Len(words))
    BY <1>1, <1>3, EndAfterBlank
  <2> QED
    BY <1>1, <1>3, <2>1 DEF TextInv
<1>4. CASE word # <<>> /\ Text!EndWord /\ at' = "done" /\ result' = Len(words')
  <2> DEFINE index == Text!IndexOf(List, word, Text!Invalid)
  <2>1. index # Text!Invalid /\ words' = Append(words, index) /\ word' = <<>>
    BY <1>4 DEF Text!EndWord
  <2> HIDE DEF index
  <2>2. words' \in Seq(Indices) /\ Answered(str, words', Len(words'))
    BY <1>1, <1>4, <2>1, EndAfterWord DEF index
  <2> QED
    BY <1>1, <1>2, <1>4, <2>1, <2>2 DEF TextInv
<1>5. CASE word # <<>> /\ Text!NotListed /\ Text!Fail /\ UNCHANGED <<word, words>>
  <2>1. Answered(str, words, 0)
    BY <1>1, <1>2, <1>5, BadWord DEF Text!NotListed
  <2> QED
    BY <1>1, <1>5, <2>1 DEF TextInv, Text!Fail
<1> QED
  BY <1>3, <1>4, <1>5 DEF Text!ReadEnd

(* The parser begins with nothing read.                                    *)
LEMMA TextStarts ==
    ASSUME Text!Init
    PROVE  TextInv
<1> DEFINE none == <<>>
<1>1. str = none /\ word = none /\ words = none /\ at = "reading"
  BY DEF Text!Init
<1>2. /\ none \in Seq(Text!Chars) /\ none \in Seq(WordChars) /\ none \in Seq(Indices)
      /\ Len(none) = 0
  OBVIOUS
<1>3. Text!Starts(none) = {}
  BY DEF Text!Starts
<1>4. Settled(none, 0, none)
  <2>1. StartsTo(none, 0) = {}
    BY <1>3 DEF StartsTo
  <2>2. Text!Rank(none, 0) = 0
    BY <2>1, FS_EmptySet, SameOperators DEF Text!Rank, StartsTo
  <2> HIDE DEF none
  <2> QED
    BY <1>2, <1>3, <2>2 DEF Settled
<1>5. Written(none) \o none = none
  <2>1. Spelling(none) = none
    BY DEF Spelling
  <2>2. FlattenSeq(none) = none
    <3> HIDE DEF none
    <3> QED
      BY <1>2 DEF FlattenSeq
  <2> HIDE DEF none
  <2> QED
    BY <1>2, <2>1, <2>2, ConcatEmptySeq DEF Written
<1>6. Len(none) - Len(none) = 0
  BY <1>2
<1> HIDE DEF none
<1>7. Reading(none, none, none)
  <2>1. \A k \in 1..Len(none) : FALSE
    BY <1>2
  <2> QED
    BY <1>4, <1>5, <1>6, <2>1 DEF Reading
<1>8. Len(none) <= Longest
  BY <1>2, WordAssumption
<1> QED
  BY <1>1, <1>2, <1>7, <1>8 DEF TextInv

(* Every step of any call keeps the invariant of the parser.               *)
TextHolds == fun = "text" => TextInv

(* It holds at any time.                                                   *)
THEOREM TextInductive == SpecAll => []TextHolds
<1>1. InitAll => TextHolds
  BY TextStarts DEF InitAll, TextHolds
<1>2. TextHolds /\ [NextAll]_allVars => TextHolds'
  <2> SUFFICES ASSUME TextHolds, [NextAll]_allVars PROVE TextHolds'
    OBVIOUS
  <2>1. CASE Parse
    <3>1. fun = "text" /\ Text!Next /\ TextInv
      BY <2>1 DEF Parse, TextHolds
    <3>2. TextInv'
      BY <3>1, BlankStep, CharStep, EndStep DEF Text!Next
    <3> QED
      BY <3>2 DEF TextHolds
  <2>2. CASE Search
    BY <2>2 DEF Search, TextHolds
  <2>3. CASE Convert
    BY <2>3 DEF Convert, TextHolds
  <2>4. CASE UNCHANGED allVars
    <3>1. fun = "text" => TextInv
      BY DEF TextHolds
    <3>2. UNCHANGED <<fun, at, str, word, words, result>>
      BY <2>4 DEF allVars, vars
    <3> QED
      BY <3>1, <3>2 DEF TextInv, TextHolds
  <2> QED
    BY <2>1, <2>2, <2>3, <2>4 DEF NextAll
<1> QED
  BY <1>1, <1>2, PTL DEF SpecAll

(* However its words are spaced, a text is accepted if and only if every   *)
(* stretch between blanks is a word of the list, and the indices are those *)
(* of the words in their order; written with one blank between them they   *)
(* are the text again.  This holds for every word list and every text      *)
(* whose words a uint8_t can count.                                        *)
THEOREM TextIsParsed == SpecAll => []ParsesTokens
<1>1. TextHolds => ParsesTokens
  BY TextFacts DEF TextHolds, ParsesTokens
<1> QED
  BY <1>1, TextInductive, PTL

-----------------------------------------------------------------------------
(* The searches                                                            *)

USE WordAssumption

(* Two strings that are not the same up to n have a first difference.      *)
LEMMA FirstDifference ==
    ASSUME NEW s \in Seq(Nat), NEW t \in Seq(Nat), NEW n \in Nat,
           ~SamePrefix(s, t, n)
    PROVE  Precedes(s, t, n) \/ Precedes(t, s, n)
<1> DEFINE T == {i \in 1..n : At(s, i) # At(t, i)}
<1>1. T \in SUBSET Nat /\ T # {}
  BY SMTT(30) DEF SamePrefix
<1>2. PICK i \in T : \A j \in T : i <= j
  BY <1>1, LeastElement
<1>3. i \in 1..n /\ At(s, i) # At(t, i)
  OBVIOUS
<1>4. \A j \in 1..(i - 1) : At(s, j) = At(t, j)
  <2> SUFFICES ASSUME NEW j \in 1..(i - 1) PROVE At(s, j) = At(t, j)
    OBVIOUS
  <2>1. j \in 1..n /\ ~(i <= j)
    BY <1>3
  <2> QED
    BY <1>2, <2>1
<1>5. At(s, i) \in Nat /\ At(t, i) \in Nat
  BY <1>3, SMTT(30) DEF At
<1>6. At(s, i) < At(t, i) \/ At(t, i) < At(s, i)
  BY <1>3, <1>5
<1> QED
  BY <1>3, <1>4, <1>6 DEF Precedes

(* What lies behind the end of a string reads as its terminator, 0.        *)
LEMMA CharIsNat ==
    ASSUME NEW s \in Seq(Nat), NEW j \in Nat \ {0}
    PROVE  At(s, j) \in Nat
<1>1. CASE j <= Len(s)
  <2>1. j \in 1..Len(s)
    BY <1>1
  <2> QED
    BY <2>1 DEF At
<1>2. CASE ~(j <= Len(s))
  BY <1>2 DEF At
<1> QED
  BY <1>1, <1>2

(* A text before a word is no prefix of the words after that word.         *)
LEMMA NothingBehind ==
    ASSUME NEW s \in Seq(Nat), NEW t \in Seq(Nat), NEW u \in Seq(Nat),
           NEW n \in Nat, NEW m \in Nat, Precedes(s, t, n), Precedes(t, u, m)
    PROVE  ~SamePrefix(s, u, n)
<1> SUFFICES ASSUME SamePrefix(s, u, n) PROVE FALSE
  OBVIOUS
<1>1. PICK i \in 1..n : At(s, i) < At(t, i) /\ \A j \in 1..(i - 1) : At(s, j) = At(t, j)
  BY DEF Precedes
<1>2. PICK k \in 1..m : At(t, k) < At(u, k) /\ \A j \in 1..(k - 1) : At(t, j) = At(u, j)
  BY DEF Precedes
<1>3. \A j \in 1..n : At(s, j) = At(u, j)
  BY DEF SamePrefix
<1>4. \A j \in Nat \ {0} : At(s, j) \in Nat /\ At(t, j) \in Nat /\ At(u, j) \in Nat
  BY CharIsNat
<1>5. CASE k < i
  <2>1. k \in 1..(i - 1) /\ k \in 1..n
    BY <1>5
  <2>2. At(s, k) = At(t, k) /\ At(s, k) = At(u, k)
    BY <2>1, <1>1, <1>3
  <2>3. At(t, k) < At(u, k)
    BY <1>2
  <2>4. At(t, k) \in Nat /\ At(u, k) \in Nat
    BY <1>4
  <2> QED
    BY <2>2, <2>3, <2>4
<1>6. CASE k >= i
  <2>1. At(s, i) = At(u, i) /\ At(s, i) < At(t, i)
    BY <1>1, <1>3
  <2>2. k = i \/ i \in 1..(k - 1)
    BY <1>6
  <2>3. At(t, i) \in Nat /\ At(u, i) \in Nat /\ At(s, i) \in Nat
    BY <1>4
  <2>4. CASE k = i
    BY <2>1, <2>3, <2>4, <1>2
  <2>5. CASE i \in 1..(k - 1)
    <3>1. At(t, i) = At(u, i)
      BY <2>5, <1>2
    <3> QED
      BY <2>1, <2>3, <3>1
  <2> QED
    BY <2>2, <2>4, <2>5
<1> QED
  BY <1>5, <1>6

(* A text after a word is no prefix of the words before that word.         *)
LEMMA NothingBefore ==
    ASSUME NEW s \in Seq(Nat), NEW t \in Seq(Nat), NEW u \in Seq(Nat),
           NEW n \in Nat, NEW m \in Nat, Precedes(t, s, n), Precedes(u, t, m)
    PROVE  ~SamePrefix(s, u, n)
<1> SUFFICES ASSUME SamePrefix(s, u, n) PROVE FALSE
  OBVIOUS
<1>1. PICK i \in 1..n : At(t, i) < At(s, i) /\ \A j \in 1..(i - 1) : At(t, j) = At(s, j)
  BY DEF Precedes
<1>2. PICK k \in 1..m : At(u, k) < At(t, k) /\ \A j \in 1..(k - 1) : At(u, j) = At(t, j)
  BY DEF Precedes
<1>3. \A j \in 1..n : At(s, j) = At(u, j)
  BY DEF SamePrefix
<1>4. \A j \in Nat \ {0} : At(s, j) \in Nat /\ At(t, j) \in Nat /\ At(u, j) \in Nat
  BY CharIsNat
<1>5. CASE k < i
  <2>1. k \in 1..(i - 1) /\ k \in 1..n
    BY <1>5
  <2>2. At(t, k) = At(s, k) /\ At(s, k) = At(u, k)
    BY <2>1, <1>1, <1>3
  <2>3. At(u, k) < At(t, k)
    BY <1>2
  <2>4. At(t, k) \in Nat /\ At(u, k) \in Nat
    BY <1>4
  <2> QED
    BY <2>2, <2>3, <2>4
<1>6. CASE k >= i
  <2>1. At(s, i) = At(u, i) /\ At(t, i) < At(s, i)
    BY <1>1, <1>3
  <2>2. k = i \/ i \in 1..(k - 1)
    BY <1>6
  <2>3. At(t, i) \in Nat /\ At(u, i) \in Nat /\ At(s, i) \in Nat
    BY <1>4, SMTT(30)
  <2>4. CASE k = i
    BY <2>1, <2>3, <2>4, <1>2
  <2>5. CASE i \in 1..(k - 1)
    <3>1. At(u, i) = At(t, i)
      BY <2>5, <1>2
    <3> QED
      BY <2>1, <2>3, <3>1
  <2> QED
    BY <2>2, <2>4, <2>5
<1> QED
  BY <1>5, <1>6

(* No string precedes itself.                                              *)
LEMMA Irreflexive ==
    ASSUME NEW s \in Seq(Nat), NEW n \in Nat
    PROVE  ~Precedes(s, s, n)
<1>1. \A i \in 1..n : At(s, i) \in Nat
  BY CharIsNat
<1> QED
  BY <1>1 DEF Precedes

-----------------------------------------------------------------------------
(* The interval left..right always holds every word that matches.  A right *)
(* that wrapped around to 0xffff stands for an empty interval.             *)
Interval ==
    /\ left \in 0..WordsCount(list)
    /\ right \in 0..(WordsCount(list) - 1) \cup {IndexMax}
    /\ \A i \in Hits(list, word, exact) : left <= i /\ i <= right /\ right # IndexMax
    /\ exact \/ Hits(list, word, exact) # {}

IInv ==
    /\ TypeOK
    /\ list \in WordLists
    /\ IsText(word)
    /\ pc = "search" => Interval
    /\ FindsWord

(* What the assumptions say of one list.                                   *)
LEMMA ListFacts ==
    ASSUME NEW l \in WordLists
    PROVE  /\ WordsCount(l) \in Nat /\ WordsCount(l) < IndexMax /\ IndexMax \in Nat
           /\ \A i \in 0..(WordsCount(l) - 1) : GetWord(l, i) \in Seq(Nat)
           /\ \A i, j \in 0..(WordsCount(l) - 1) :
                 i < j => Precedes(GetWord(l, i), GetWord(l, j), Longest + 1)
           /\ \A c \in 1..(Alphabet + 1) :
                 l.first_char_index_map[c] \in 0..WordsCount(l)
           /\ \A c \in 1..(Alphabet + 1), i \in 0..(WordsCount(l) - 1) :
                 i < l.first_char_index_map[c] <=> At(GetWord(l, i), 1) < c
<1>1. WellFormed(l) /\ WordsCount(l) < IndexMax /\ IndexMax \in Nat
  BY ListAssumption
<1>2. l.words \in Seq(Seq(Letters)) /\ WordsCount(l) \in Nat
  BY <1>1 DEF WellFormed, WordsCount
<1>3. \A i \in 0..(WordsCount(l) - 1) : i + 1 \in 1..WordsCount(l)
  BY <1>2
<1>4. \A i \in 1..WordsCount(l) : l.words[i] \in Seq(Letters)
  BY <1>2 DEF WordsCount
<1>5. \A w \in Seq(Letters) : w \in Seq(Nat)
  BY DEF Letters
<1>6. \A i \in 0..(WordsCount(l) - 1) : GetWord(l, i) \in Seq(Nat)
  BY <1>3, <1>4, <1>5 DEF GetWord
<1>7. \A i, j \in 0..(WordsCount(l) - 1) :
         i < j => Precedes(GetWord(l, i), GetWord(l, j), Longest + 1)
  BY <1>1, <1>3, SMTT(30) DEF WellFormed, GetWord
<1>8. \A c \in 1..(Alphabet + 1) : l.first_char_index_map[c] \in 0..WordsCount(l)
  BY <1>1 DEF WellFormed
<1>9. \A c \in 1..(Alphabet + 1), i \in 0..(WordsCount(l) - 1) :
         i < l.first_char_index_map[c] <=> At(GetWord(l, i), 1) < c
  <2> SUFFICES ASSUME NEW c \in 1..(Alphabet + 1), NEW i \in 0..(WordsCount(l) - 1)
               PROVE  i < l.first_char_index_map[c] <=> At(GetWord(l, i), 1) < c
    OBVIOUS
  <2>1. i + 1 <= l.first_char_index_map[c] <=> At(l.words[i + 1], 1) < c
    BY <1>1, <1>3, SMTT(30) DEF WellFormed
  <2> QED
    BY <2>1, <1>2, <1>8, SMTT(30) DEF GetWord
<1> QED
  BY <1>1, <1>2, <1>6, <1>7, <1>8, <1>9

(* uint16_t arithmetic on the values the searches meet.                    *)
LEMMA WrapFacts ==
    IndexMax \in Nat => Wrap(-1) = IndexMax /\ \A n \in 0..IndexMax : Wrap(n) = n
BY DEF Wrap

(* The part of the word compared lies within the word's first letter and   *)
(* its terminator.                                                         *)
LEMMA DepthFacts ==
    ASSUME NEW text, IsText(text), NEW e \in BOOLEAN
    PROVE  /\ text \in Seq(Nat)
           /\ Depth(text, e) \in Nat
           /\ (e \/ text # <<>>) => Depth(text, e) >= 1
<1>1. text \in Seq(1..(Alphabet + 1)) /\ Len(text) \in Nat
  BY DEF IsText
<1>2. text \in Seq(Nat)
  BY <1>1
<1>3. text # <<>> => Len(text) >= 1
  BY <1>1
<1> QED
  BY <1>1, <1>2, <1>3 DEF Depth

(* The table of first letters gives an interval that misses no match.      *)
LEMMA CallStep ==
    ASSUME IInv, Call
    PROVE  IInv'
<1> PICK text \in Texts, e \in BOOLEAN :
      /\ e \/ (text # <<>> /\ Hits(list, text, FALSE) # {})
      /\ word' = text /\ exact' = e
      /\ IF At(text, 1) \in Letters
         THEN /\ left' = list.first_char_index_map[text[1]]
              /\ right' = Wrap(list.first_char_index_map[text[1] + 1] - 1)
              /\ result' = IndexMax
              /\ pc' = "search"
         ELSE result' = IndexMax /\ pc' = "done" /\ UNCHANGED <<left, right>>
  BY DEF Call
<1>1. list' = list /\ list \in WordLists
  BY DEF Call, IInv
<1>2. IsText(text)
  BY ListAssumption
<1>3. text \in Seq(Nat) /\ Depth(text, e) \in Nat /\ Depth(text, e) >= 1
  BY <1>2, DepthFacts
<1> DEFINE n == WordsCount(list)
<1>4. n \in Nat /\ n < IndexMax /\ IndexMax \in Nat
  BY <1>1, ListFacts
<1>5. \A i \in Hits(list, text, e) :
         i \in 0..(n - 1) /\ At(text, 1) = At(GetWord(list, i), 1)
  BY <1>3 DEF Hits, SamePrefix
<1>6. CASE At(text, 1) \in Letters
  <2> DEFINE c == At(text, 1)
             lo == list.first_char_index_map[c]
             hi == list.first_char_index_map[c + 1]
  <2>1. c = text[1]
    BY <1>6 DEF At, Letters
  <2>2. c \in 1..(Alphabet + 1) /\ c + 1 \in 1..(Alphabet + 1) /\ c \in Nat
    BY <1>6 DEF Letters
  <2>3. lo \in 0..n /\ hi \in 0..n
    BY <2>2, <1>1, ListFacts
  <2>4. left' = lo /\ right' = Wrap(hi - 1) /\ result' = IndexMax /\ pc' = "search"
    BY <1>6, <2>1
  <2>5. /\ hi = 0 => right' = IndexMax
        /\ hi # 0 => right' = hi - 1
    <3>1. hi # 0 => hi - 1 \in 0..IndexMax
      BY <2>3, <1>4
    <3>2. hi = 0 => hi - 1 = -1
      BY <2>3
    <3> HIDE DEF hi, lo
    <3> QED
      BY <2>4, <3>1, <3>2, <1>4, WrapFacts
  <2>6. ASSUME NEW i \in Hits(list, text, e)
        PROVE  lo <= i /\ i < hi
    <3>1. i \in 0..(n - 1) /\ At(GetWord(list, i), 1) = c
      BY <1>5
    <3>2. i < lo <=> c < c
      BY <3>1, <2>2, <1>1, ListFacts
    <3>3. i < hi <=> c < c + 1
      BY <3>1, <2>2, <1>1, ListFacts
    <3> QED
      BY <3>1, <3>2, <3>3, <2>2, <2>3
  <2> HIDE DEF lo, hi, c
  <2>7. left' \in 0..n /\ right' \in 0..(n - 1) \cup {IndexMax}
    BY <2>3, <2>4, <2>5, <1>4
  <2>8. \A i \in Hits(list, text, e) : left' <= i /\ i <= right' /\ right' # IndexMax
    <3> SUFFICES ASSUME NEW i \in Hits(list, text, e)
                 PROVE  left' <= i /\ i <= right' /\ right' # IndexMax
      OBVIOUS
    <3>1. lo <= i /\ i < hi /\ i \in 0..(n - 1)
      BY <2>6, <1>5
    <3>2. hi # 0
      BY <3>1, <2>3
    <3>3. right' = hi - 1
      BY <3>2, <2>5
    <3> QED
      BY <3>1, <3>3, <2>3, <2>4, <1>4
  <2>9. e \/ Hits(list, text, e) # {}
    OBVIOUS
  <2>10. Interval'
    BY <1>1, <2>7, <2>8, <2>9 DEF Interval
  <2>11. left' \in 0..IndexMax /\ right' \in 0..IndexMax
    BY <2>7, <1>4
  <2> QED
    BY <1>1, <1>2, <2>4, <2>10, <2>11 DEF IInv, TypeOK, FindsWord
<1>7. CASE At(text, 1) \notin Letters
  <2>1. result' = IndexMax /\ pc' = "done" /\ left' = left /\ right' = right
    BY <1>7
  <2>2. Hits(list, text, e) = {}
    <3> SUFFICES ASSUME NEW i \in Hits(list, text, e) PROVE FALSE
      OBVIOUS
    <3>1. i \in 0..(n - 1) /\ At(text, 1) = At(GetWord(list, i), 1)
      BY <1>5
    <3>2. i + 1 \in 1..n /\ GetWord(list, i) = list.words[i + 1]
      BY <3>1, <1>4 DEF GetWord
    <3>3. list.words[i + 1] \in Seq(Letters) /\ Len(list.words[i + 1]) \in 1..Longest
      <4>1. WellFormed(list)
        BY <1>1, ListAssumption
      <4>2. list.words \in Seq(Seq(Letters)) /\ n = Len(list.words)
        BY <4>1 DEF WellFormed, WordsCount
      <4>3. \A k \in 1..n : Len(list.words[k]) \in 1..Longest
        BY <4>1 DEF WellFormed
      <4> QED
        BY <3>2, <4>2, <4>3
    <3>4. At(list.words[i + 1], 1) \in Letters
      BY <3>3 DEF At
    <3> QED
      BY <3>1, <3>2, <3>4, <1>7
  <2>3. FindsWord'
    BY <1>1, <2>1, <2>2 DEF FindsWord
  <2> QED
    BY <1>1, <1>2, <2>1, <2>3 DEF IInv, TypeOK
<1> QED
  BY <1>6, <1>7

(* While the loop goes on its middle is a word of the list.                *)
LEMMA MiddleFacts ==
    ASSUME IInv, pc = "search", GoesOn
    PROVE  /\ left <= Middle /\ Middle <= right /\ Middle \in 0..(WordsCount(list) - 1)
           /\ left \in Nat /\ right \in 0..(WordsCount(list) - 1)
<1>1. Interval /\ list \in WordLists /\ exact \in BOOLEAN
  BY DEF IInv, TypeOK
<1>2. WordsCount(list) \in Nat /\ WordsCount(list) < IndexMax /\ IndexMax \in Nat
  BY <1>1, ListFacts
<1>3. right # IndexMax
  <2>1. CASE exact
    BY <2>1 DEF GoesOn
  <2>2. CASE ~exact
    BY <2>2, <1>1 DEF Interval
  <2> QED
    BY <2>1, <2>2
<1>4. left \in Nat /\ right \in 0..(WordsCount(list) - 1) /\ left <= right
  BY <1>1, <1>2, <1>3 DEF Interval, GoesOn
<1> DEFINE half == (right - left) \div 2
<1>5. half \in Nat /\ half <= right - left
  BY <1>4
<1>6. Middle = half + left
  BY DEF Middle
<1> HIDE DEF half
<1> QED
  BY <1>2, <1>4, <1>5, <1>6

(* Every probe that goes on drops only words that do not match.            *)
LEMMA ProbeStep ==
    ASSUME IInv, Probe
    PROVE  IInv'
<1> DEFINE n == WordsCount(list)
           D == Depth(word, exact)
           H == Hits(list, word, exact)
           m == Middle
<1>1. /\ list \in WordLists /\ IsText(word) /\ exact \in BOOLEAN
      /\ pc = "search" /\ Interval /\ TypeOK
      /\ list' = list /\ word' = word /\ exact' = exact
  BY DEF IInv, TypeOK, Probe, Hit, GoLeft, GoRight, Miss
<1>2. n \in Nat /\ n < IndexMax /\ IndexMax \in Nat
  BY <1>1, ListFacts
<1>3. word \in Seq(Nat) /\ D \in Nat
  BY <1>1, DepthFacts
<1>4. \A i \in 0..(n - 1) : GetWord(list, i) \in Seq(Nat)
  BY <1>1, ListFacts
<1>5. \A i, j \in 0..(n - 1) :
         i < j => Precedes(GetWord(list, i), GetWord(list, j), Longest + 1)
  BY <1>1, ListFacts
<1>6. \A i \in H : i \in 0..(n - 1) /\ SamePrefix(word, GetWord(list, i), D)
  BY DEF Hits
<1>7. H' = H /\ n' = n
  BY <1>1
<1>8. CASE Hit
  <2>1. m \in 0..(n - 1) /\ m \in Nat
    BY <1>8, MiddleFacts DEF Hit
  <2>2. SamePrefix(word, GetWord(list, m), D)
    BY <1>8 DEF Hit, Comparison, StrnCmp
  <2>3. m \in H
    BY <2>1, <2>2 DEF Hits
  <2>4. result' = m /\ pc' = "done" /\ left' = left /\ right' = right
    BY <1>8 DEF Hit
  <2>5. FindsWord'
    <3> HIDE DEF H, m, D, n
    <3>1. H' # {} /\ result' \in H'
      BY <1>7, <2>3, <2>4
    <3> QED
      BY <3>1 DEF FindsWord, H
  <2> HIDE DEF m, H, n, D
  <2> QED
    BY <1>1, <1>7, <2>1, <2>4, <2>5 DEF IInv, TypeOK, n
<1>9. CASE GoLeft
  <2>1. m \in 0..(n - 1) /\ left \in Nat /\ left <= m /\ m <= right
    BY <1>9, <1>1, MiddleFacts DEF GoLeft
  <2>2. ~SamePrefix(word, GetWord(list, m), D) /\ Precedes(word, GetWord(list, m), D)
    BY <1>9 DEF GoLeft, Comparison, StrnCmp
  <2>3. right' = Wrap(m - 1) /\ left' = left /\ result' = result /\ pc' = "search"
    BY <1>9, <1>1 DEF GoLeft
  <2> HIDE DEF m, H, n, D
  <2>4. ASSUME NEW i \in H PROVE i < m
    <3>1. i \in 0..(n - 1) /\ SamePrefix(word, GetWord(list, i), D)
      BY <1>6
    <3>2. i # m
      BY <3>1, <2>2
    <3>3. ASSUME m < i PROVE FALSE
      <4>1. Precedes(GetWord(list, m), GetWord(list, i), Longest + 1)
        BY <3>1, <3>3, <2>1, <1>5
      <4>2. GetWord(list, m) \in Seq(Nat) /\ GetWord(list, i) \in Seq(Nat)
        BY <3>1, <2>1, <1>4
      <4> QED
        BY <4>1, <4>2, <3>1, <2>2, <1>3, NothingBehind
    <3> QED
      BY <3>1, <3>2, <3>3, <2>1, <1>2
  <2>5. (m = 0 => right' = IndexMax) /\ (m # 0 => right' = m - 1)
    <3>1. m = 0 => m - 1 = -1
      OBVIOUS
    <3>2. m # 0 => m - 1 \in 0..IndexMax
      BY <2>1, <1>2
    <3> QED
      BY <2>3, <3>1, <3>2, <1>2, WrapFacts
  <2>6. right' \in 0..(n - 1) \cup {IndexMax} /\ right' \in 0..IndexMax
    BY <2>1, <2>5, <1>2
  <2>7. \A i \in H : left' <= i /\ i <= right' /\ right' # IndexMax
    <3> SUFFICES ASSUME NEW i \in H PROVE left' <= i /\ i <= right' /\ right' # IndexMax
      OBVIOUS
    <3>1. i < m /\ i \in 0..(n - 1) /\ left <= i
      BY <2>4, <1>1, <1>6 DEF Interval, H
    <3>2. m # 0
      BY <3>1, <2>1, <1>2
    <3>3. right' = m - 1
      BY <3>2, <2>5
    <3> QED
      BY <3>1, <3>3, <2>1, <2>3, <1>2
  <2>8. Interval'
    BY <1>1, <1>7, <2>3, <2>6, <2>7 DEF Interval, H, n
  <2> QED
    BY <1>1, <1>7, <2>3, <2>6, <2>8 DEF IInv, TypeOK, FindsWord, n
<1>10. CASE GoRight
  <2>1. m \in 0..(n - 1) /\ left \in Nat /\ left <= m /\ m <= right
    BY <1>10, <1>1, MiddleFacts DEF GoRight
  <2>2. ~SamePrefix(word, GetWord(list, m), D) /\ ~Precedes(word, GetWord(list, m), D)
    BY <1>10 DEF GoRight, Comparison, StrnCmp
  <2>3. left' = m + 1 /\ right' = right /\ result' = result /\ pc' = "search"
    BY <1>10, <1>1 DEF GoRight
  <2> HIDE DEF m, H, n, D
  <2>4. Precedes(GetWord(list, m), word, D)
    BY <2>1, <2>2, <1>3, <1>4, FirstDifference
  <2>5. ASSUME NEW i \in H PROVE m < i
    <3>1. i \in 0..(n - 1) /\ SamePrefix(word, GetWord(list, i), D)
      BY <1>6
    <3>2. i # m
      BY <3>1, <2>2
    <3>3. ASSUME i < m PROVE FALSE
      <4>1. Precedes(GetWord(list, i), GetWord(list, m), Longest + 1)
        BY <3>1, <3>3, <2>1, <1>5
      <4>2. GetWord(list, m) \in Seq(Nat) /\ GetWord(list, i) \in Seq(Nat)
        BY <3>1, <2>1, <1>4
      <4> QED
        BY <4>1, <4>2, <3>1, <2>4, <1>3, NothingBefore
    <3> QED
      BY <3>1, <3>2, <3>3, <2>1, <1>2
  <2>6. left' \in 0..n /\ left' \in 0..IndexMax
    BY <2>1, <2>3, <1>2
  <2>7. \A i \in H : left' <= i /\ i <= right' /\ right' # IndexMax
    <3> SUFFICES ASSUME NEW i \in H PROVE left' <= i /\ i <= right' /\ right' # IndexMax
      OBVIOUS
    <3>1. m < i /\ i \in 0..(n - 1) /\ i <= right /\ right # IndexMax
      BY <2>5, <1>1, <1>6 DEF Interval, H
    <3> QED
      BY <3>1, <2>1, <2>3, <1>2
  <2>8. Interval'
    BY <1>1, <1>7, <2>3, <2>6, <2>7 DEF Interval, H, n
  <2> QED
    BY <1>1, <1>7, <2>3, <2>6, <2>8 DEF IInv, TypeOK, FindsWord, n
<1>11. CASE Miss
  <2>1. result' = IndexMax /\ pc' = "done" /\ left' = left /\ right' = right
    BY <1>11 DEF Miss
  <2>2. H = {}
    <3> SUFFICES ASSUME NEW i \in H PROVE FALSE
      OBVIOUS
    <3>1. left <= i /\ i <= right /\ right # IndexMax /\ i \in 0..(n - 1)
      BY <1>1, <1>6 DEF Interval
    <3>2. left \in Nat /\ right \in Nat
      BY <1>1, <1>2 DEF Interval
    <3>3. left <= right
      BY <3>1, <3>2, <1>2
    <3> QED
      BY <3>1, <3>3, <1>11 DEF Miss, GoesOn
  <2>3. FindsWord'
    BY <1>1, <2>1, <2>2 DEF FindsWord
  <2> QED
    BY <1>1, <1>2, <2>1, <2>3 DEF IInv, TypeOK
<1> QED
  BY <1>8, <1>9, <1>10, <1>11 DEF Probe

(* The interval argument, put together.                                    *)
THEOREM Inductive == Spec => []IInv
<1>1. Init => IInv
  <2> SUFFICES ASSUME Init PROVE IInv
    OBVIOUS
  <2>1. IsText(<<>>) /\ 0 \in 0..IndexMax /\ IndexMax \in 0..IndexMax
    BY ListAssumption DEF IsText
  <2> QED
    BY <2>1 DEF Init, IInv, TypeOK, FindsWord
<1>2. IInv /\ [Next]_vars => IInv'
  <2> SUFFICES ASSUME IInv, [Next]_vars PROVE IInv'
    OBVIOUS
  <2>1. CASE Call
    BY <2>1, CallStep
  <2>2. CASE Probe
    BY <2>2, ProbeStep
  <2>3. CASE Return
    <3>1. IsText(<<>>) /\ 0 \in 0..IndexMax
      BY ListAssumption DEF IsText
    <3> QED
      BY <2>3, <3>1 DEF Return, IInv, TypeOK, FindsWord
  <2>4. CASE UNCHANGED vars
    BY <2>4 DEF vars, IInv, TypeOK, Interval, FindsWord
  <2> QED
    BY <2>1, <2>2, <2>3, <2>4 DEF Next
<1> QED
  BY <1>1, <1>2, PTL DEF Spec

(* Type correctness of the searches, their uint16_t indices included.      *)
THEOREM TypeCorrect == Spec => []TypeOK
<1>1. IInv => TypeOK
  BY DEF IInv
<1> QED
  BY <1>1, Inductive, PTL

(* No probe reads behind the list.                                         *)
THEOREM ProbesStayInside == Spec => []ReadsInsideList
<1>1. IInv => ReadsInsideList
  <2> SUFFICES ASSUME IInv, pc = "search", GoesOn PROVE Middle < WordsCount(list)
    BY DEF ReadsInsideList
  <2>1. Middle \in 0..(WordsCount(list) - 1) /\ WordsCount(list) \in Nat
    BY MiddleFacts, ListFacts DEF IInv
  <2> QED
    BY <2>1
<1> QED
  BY <1>1, Inductive, PTL

(* The searches answer with a match, and with none only if there is none.  *)
THEOREM SearchIsRight == Spec => []FindsWord
<1>1. IInv => FindsWord
  BY DEF IInv
<1> QED
  BY <1>1, Inductive, PTL

(* The words differ, so the exact search has no choice: it answers what    *)
(* the linear search answers.                                              *)
THEOREM BinaryIsLinear == Spec => []LikeLinearSearch
<1>1. IInv => LikeLinearSearch
  <2> SUFFICES ASSUME IInv, pc = "done", exact = TRUE
               PROVE  result = IndexOf(list, word, IndexMax)
    BY DEF LikeLinearSearch, IInv, TypeOK
  <2> DEFINE H == Hits(list, word, TRUE)
  <2>1. IF H = {} THEN result = IndexMax ELSE result \in H
    BY DEF IInv, FindsWord
  <2>2. ASSUME NEW i \in H, NEW j \in H, i < j PROVE FALSE
    <3>1. list \in WordLists /\ i \in 0..(WordsCount(list) - 1) /\ j \in 0..(WordsCount(list) - 1)
      BY DEF IInv, Hits
    <3>2. /\ GetWord(list, i) \in Seq(Nat) /\ GetWord(list, j) \in Seq(Nat)
          /\ Precedes(GetWord(list, i), GetWord(list, j), Longest + 1)
      BY <3>1, <2>2, ListFacts
    <3>3. /\ SamePrefix(word, GetWord(list, i), Longest + 1)
          /\ SamePrefix(word, GetWord(list, j), Longest + 1)
      BY DEF Hits, Depth
    <3>4. PICK k \in 1..(Longest + 1) : At(GetWord(list, i), k) < At(GetWord(list, j), k)
      BY <3>2 DEF Precedes
    <3>5. At(GetWord(list, i), k) = At(GetWord(list, j), k)
      BY <3>3, <3>4 DEF SamePrefix
    <3>6. At(GetWord(list, i), k) \in Nat
      BY <3>2, <3>4 DEF At
    <3> QED
      BY <3>4, <3>5, <3>6
  <2>3. \A i, j \in H : i = j
    <3>1. \A i \in H : i \in Int
      BY DEF Hits
    <3> SUFFICES ASSUME NEW i \in H, NEW j \in H PROVE i = j
      OBVIOUS
    <3> HIDE DEF H
    <3>2. ~(i < j) /\ ~(j < i)
      BY <2>2
    <3> QED
      BY <3>1, <3>2
  <2>4. CASE H = {}
    BY <2>1, <2>4 DEF IndexOf, Earliest
  <2>5. CASE H # {}
    <3>1. result \in H /\ \A j \in H : result <= j
      <4>1. \A i \in H : i \in Int
        BY DEF Hits
      <4> HIDE DEF H
      <4>2. result \in H
        BY <2>1, <2>5
      <4> QED
        BY <4>1, <4>2, <2>3
    <3>2. IndexOf(list, word, IndexMax) = CHOOSE i \in H : \A j \in H : i <= j
      BY <2>5 DEF IndexOf, Earliest
    <3> HIDE DEF H
    <3>3. (CHOOSE i \in H : \A j \in H : i <= j) \in H
      BY <3>1
    <3> QED
      BY <3>1, <3>2, <3>3, <2>3
  <2> QED
    BY <2>4, <2>5
<1> QED
  BY <1>1, Inductive, PTL
=============================================================================
