-------------------------- MODULE Interface_proof --------------------------
(***************************************************************************)
(* What the user sees and presses, for every size, font and timing: the    *)
(* bytes and dirty bits of display.c as a picture, the loops of buttons.c  *)
(* and ui_common.c, and the screen of ui_select_from_options_screen.c,     *)
(* under src/epmw_firmware/.                                               *)
(***************************************************************************)
EXTENDS Display, Buttons, SelectOptions, Recursion, TLAPS

-----------------------------------------------------------------------------
(* The bits of a number                                                    *)

(* A bit is 0 or 1.                                                        *)
LEMMA BitIs ==
    ASSUME NEW b \in Nat, NEW i \in Nat PROVE BitOf(b, i) \in {0, 1}
<1> DEFINE q == b \div Shifted(i)
<1>1. q \in Nat
  BY ShiftDoubles, Halves
<1> HIDE DEF q
<1>2. q % 2 \in {0, 1}
  BY <1>1
<1> QED
  BY <1>2 DEF BitOf, q

(* Two numbers side by side: the bits of low, k of them, under high.       *)
SideBySide(high, low, k) == high * Shifted(k) + low

(* The bits of the lower number come first.                                *)
LEMMA LowBits ==
    ASSUME NEW k \in Nat, NEW high \in Nat, NEW low \in 0..(Shifted(k) - 1),
           NEW i \in Nat, i < k
    PROVE  BitOf(SideBySide(high, low, k), i) = BitOf(low, i)
<1> DEFINE s == Shifted(i)
           t == Shifted((k - i) - 1)
           q == low \div s
           r == low % s
           h == q \div 2
           b == q % 2
<1>1. s \in Nat /\ s > 0 /\ t \in Nat /\ low \in Int
  <2>1. (k - i) - 1 \in Nat
    OBVIOUS
  <2>2. Shifted(k) \in Nat
    BY ShiftDoubles
  <2> QED
    BY <2>1, <2>2, ShiftDoubles
<1>2. Shifted(k) = s * (2 * t)
  <2>1. (k - i) - 1 \in Nat /\ ((k - i) - 1) + 1 = k - i /\ k - i \in Nat /\ i + (k - i) = k
    OBVIOUS
  <2>2. Shifted(k - i) = 2 * t
    BY <2>1, ShiftDoubles
  <2>3. Shifted(i + (k - i)) = s * Shifted(k - i)
    BY <2>1, ShiftsAdd
  <2> QED
    BY <2>1, <2>2, <2>3
<1> HIDE DEF s, t
<1>3. q \in Int /\ r \in 0..(s - 1) /\ low = s * q + r
  BY <1>1, Division
<1> HIDE DEF q, r
<1>4. h \in Int /\ b \in 0..1 /\ q = 2 * h + b
  BY <1>3, Division
<1> HIDE DEF h, b
<1>5. SideBySide(high, low, k) = s * (2 * (high * t + h) + b) + r
  <2> DEFINE u == high * t
             v == s * h
             w == s * b
             x == s * u
  <2>1. u \in Int /\ v \in Int /\ w \in Int
    BY <1>1, <1>4
  <2>2. x \in Int
    BY <1>1, <2>1
  <2>3. s * q = 2 * v + w
    BY <1>1, <1>4
  <2>4. high * Shifted(k) = 2 * x
    <3>1. high * (s * (2 * t)) = 2 * (s * (high * t))
      BY <1>1
    <3> QED
      BY <1>2, <3>1
  <2>5. s * (2 * (u + h) + b) = 2 * x + 2 * v + w
    <3> HIDE DEF u
    <3> QED
      BY <1>1, <1>4, <2>1
  <2> HIDE DEF u, v, w, x
  <2>6. high * Shifted(k) + low = (2 * x + 2 * v + w) + r
    BY <1>3, <2>1, <2>2, <2>3, <2>4
  <2> QED
    BY <2>5, <2>6 DEF SideBySide, u
<1> DEFINE m == 2 * (high * t + h) + b
<1>6. m \in Int /\ high * t + h \in Int
  BY <1>1, <1>4
<1>7. m % 2 = b
  <2> DEFINE n == high * t + h
  <2>1. n \in Int /\ b \in 0..(2 - 1) /\ 2 \in Nat /\ 2 > 0
    BY <1>4, <1>6
  <2> HIDE DEF n
  <2>2. (2 * n + b) % 2 = b
    BY <2>1, Quotient
  <2> QED
    BY <2>2 DEF n
<1> HIDE DEF m
<1>8. (s * m + r) \div s = m
  BY <1>1, <1>3, <1>6, Quotient
<1>9. BitOf(SideBySide(high, low, k), i) = b
  BY <1>5, <1>7, <1>8 DEF BitOf, s, m
<1> QED
  BY <1>9 DEF BitOf, b, q, s

(* The bits of the upper number come next.                                 *)
LEMMA HighBits ==
    ASSUME NEW k \in Nat, NEW high \in Nat, NEW low \in 0..(Shifted(k) - 1), NEW i \in Nat
    PROVE  BitOf(SideBySide(high, low, k), k + i) = BitOf(high, i)
<1> DEFINE s == Shifted(i)
           t == Shifted(k)
           q == high \div s
           r == high % s
           rest == r * t + low
<1>1. s \in Nat /\ s > 0 /\ t \in Nat /\ t > 0 /\ Shifted(k + i) = t * s
  BY ShiftDoubles, ShiftsAdd
<1>2. low \in Nat /\ low <= t - 1
  BY <1>1
<1> HIDE DEF s, t
<1>3. q \in Int /\ r \in 0..(s - 1) /\ high = s * q + r
  BY <1>1, Division
<1> HIDE DEF q, r
<1>4. rest \in 0..(t * s - 1)
  <2> DEFINE u == t * r
             v == t * (s - 1)
             w == t * s
  <2>1. u \in Nat /\ r * t = u
    BY <1>1, <1>3
  <2>2. u <= v
    BY <1>1, <1>3, Bigger
  <2>3. v = w - t /\ w \in Int /\ v \in Int
    BY <1>1
  <2> HIDE DEF u, v, w
  <2>4. u + low \in 0..(w - 1)
    BY <1>1, <1>2, <2>1, <2>2, <2>3
  <2> QED
    BY <2>1, <2>4 DEF w
<1>5. SideBySide(high, low, k) = (t * s) * q + rest
  <2> DEFINE u == s * q
             v == r * t
             w == (t * s) * q
  <2>1. u \in Int /\ u * t = w /\ w \in Int /\ v \in Int
    BY <1>1, <1>3
  <2>2. high * t = u * t + v
    <3> HIDE DEF u
    <3> QED
      BY <1>1, <1>3, <2>1 DEF u
  <2> HIDE DEF u, v, w
  <2>3. high * t + low = w + (v + low)
    BY <1>2, <2>1, <2>2
  <2> QED
    BY <2>3 DEF SideBySide, t, v, w
<1>6. ((t * s) * q + rest) \div (t * s) = q
  <2> DEFINE d == t * s
  <2>1. d \in Nat /\ d > 0
    BY <1>1
  <2>2. rest \in 0..(d - 1)
    BY <1>4
  <2> HIDE DEF d, rest
  <2>3. (d * q + rest) \div d = q
    BY <1>3, <2>1, <2>2, Quotient
  <2> QED
    BY <2>3 DEF d
<1> QED
  BY <1>1, <1>5, <1>6 DEF BitOf, q, s

(* They fit where there is room for both.                                  *)
LEMMA SideBySideFits ==
    ASSUME NEW k \in Nat, NEW m \in Nat,
           NEW high \in 0..(Shifted(m) - 1), NEW low \in 0..(Shifted(k) - 1)
    PROVE  SideBySide(high, low, k) \in 0..(Shifted(k + m) - 1)
<1> DEFINE s == Shifted(m)
           t == Shifted(k)
<1>1. s \in Nat /\ s > 0 /\ t \in Nat /\ t > 0 /\ Shifted(k + m) = t * s
  BY ShiftDoubles, ShiftsAdd
<1>2. low \in Nat /\ low <= t - 1 /\ high \in Nat /\ high <= s - 1
  BY <1>1
<1> HIDE DEF s, t
<1> DEFINE u == t * high
           v == t * (s - 1)
           w == t * s
<1>3. u \in Nat /\ high * t = u /\ u <= v
  BY <1>1, <1>2, Bigger
<1>4. v = w - t /\ w \in Int /\ v \in Int
  BY <1>1
<1> HIDE DEF u, v, w
<1>5. u + low \in 0..(w - 1)
  BY <1>1, <1>2, <1>3, <1>4
<1> QED
  BY <1>1, <1>3, <1>5 DEF SideBySide, t, w

(* A number is its upper bits beside its lower bits.                       *)
LEMMA Halved ==
    ASSUME NEW b \in Nat, NEW k \in Nat
    PROVE  /\ b \div Shifted(k) \in Nat /\ b % Shifted(k) \in 0..(Shifted(k) - 1)
           /\ b = SideBySide(b \div Shifted(k), b % Shifted(k), k)
<1> DEFINE s == Shifted(k)
<1>1. s \in Nat /\ s > 0
  BY ShiftDoubles
<1> HIDE DEF s
<1> DEFINE q == b \div s
           r == b % s
<1>2. q \in Nat /\ r \in 0..(s - 1) /\ b = s * q + r
  BY <1>1, Division, Halves
<1> HIDE DEF q, r
<1>3. b = q * s + r
  BY <1>1, <1>2
<1> QED
  BY <1>2, <1>3 DEF SideBySide, q, r, s

(* A number of k + m bits has m bits above the k-th.                       *)
LEMMA UpperFits ==
    ASSUME NEW k \in Nat, NEW m \in Nat, NEW b \in 0..(Shifted(k + m) - 1)
    PROVE  b \div Shifted(k) \in 0..(Shifted(m) - 1)
<1> DEFINE s == Shifted(m)
           t == Shifted(k)
           q == b \div t
           r == b % t
<1>1. s \in Nat /\ s > 0 /\ t \in Nat /\ t > 0 /\ Shifted(k + m) = t * s
  BY ShiftDoubles, ShiftsAdd
<1>2. t * s \in Int /\ b \in Nat /\ b < t * s
  BY <1>1
<1> HIDE DEF s, t
<1>3. q \in Nat /\ r \in 0..(t - 1) /\ b = t * q + r
  BY <1>1, <1>2, Division, Halves
<1> HIDE DEF q, r
<1>4. ASSUME s <= q PROVE FALSE
  <2>1. t * s <= t * q
    BY <1>1, <1>3, <1>4, Bigger
  <2> DEFINE u == t * s
             v == t * q
  <2>2. u \in Int /\ v \in Int
    BY <1>1, <1>3
  <2> HIDE DEF u, v
  <2> QED
    BY <1>2, <1>3, <2>1, <2>2 DEF u, v
<1>5. q \in 0..(s - 1)
  BY <1>1, <1>3, <1>4
<1> QED
  BY <1>5 DEF q, s, t

(* The bits of the upper and of the lower part of a number.                *)
LEMMA PartBits ==
    ASSUME NEW b \in Nat, NEW k \in Nat, NEW i \in Nat
    PROVE  /\ BitOf(b \div Shifted(k), i) = BitOf(b, k + i)
           /\ i < k => BitOf(b % Shifted(k), i) = BitOf(b, i)
<1> DEFINE q == b \div Shifted(k)
           r == b % Shifted(k)
<1>1. q \in Nat /\ r \in 0..(Shifted(k) - 1) /\ b = SideBySide(q, r, k)
  BY Halved
<1> HIDE DEF q, r
<1>2. BitOf(SideBySide(q, r, k), k + i) = BitOf(q, i)
  BY <1>1, HighBits
<1>3. i < k => BitOf(SideBySide(q, r, k), i) = BitOf(r, i)
  BY <1>1, LowBits
<1> QED
  BY <1>1, <1>2, <1>3 DEF q, r

(* Zero has no bits.                                                       *)
LEMMA ZeroBits == \A i \in Nat : BitOf(0, i) = 0
<1> SUFFICES ASSUME NEW i \in Nat PROVE BitOf(0, i) = 0
  OBVIOUS
<1> DEFINE s == Shifted(i)
<1>1. s \in Nat /\ s > 0
  BY ShiftDoubles
<1> HIDE DEF s
<1>2. 0 \in Int /\ 0 \in 0..(s - 1)
  BY <1>1
<1>3. (s * 0 + 0) \div s = 0
  BY <1>1, <1>2, Quotient
<1>4. s * 0 + 0 = 0 /\ 0 % 2 = 0
  BY <1>1
<1> QED
  BY <1>3, <1>4 DEF BitOf, s

-----------------------------------------------------------------------------
(* The bytes of the display                                                *)

(* The places of the bits of a byte.                                       *)
Places == 0..(PageRows - 1)

(* The rows of a character that come to lie in the upper of two pages.     *)
LEMMA UpperPage ==
    ASSUME NEW s \in 0..PageRows, NEW o \in Byte, NEW r \in Byte
    PROVE  /\ ReplaceBits(FALSE, PageRows - s, o, r) \in Byte
           /\ \A i \in Places : BitOf(ReplaceBits(FALSE, PageRows - s, o, r), i)
                                = IF i < s THEN BitOf(o, i) ELSE BitOf(r, i - s)
<1> DEFINE n == PageRows - s
           high == r % Shifted(n)
           low == o % Shifted(s)
           new == ReplaceBits(FALSE, n, o, r)
<1>1. s \in Nat /\ n \in Nat /\ s + n = PageRows /\ PageRows - n = s
  BY PanelAssumption
<1>2. o \in Nat /\ r \in Nat
  BY PanelAssumption, ShiftDoubles DEF Byte
<1>3. new = SideBySide(high, low, s)
  BY <1>1 DEF ReplaceBits, SideBySide
<1> HIDE DEF n, new
<1>4. high \in 0..(Shifted(n) - 1) /\ low \in 0..(Shifted(s) - 1)
  BY <1>1, <1>2, Halved
<1>5. high \in Nat
  BY <1>1, <1>4, ShiftDoubles
<1> HIDE DEF high, low
<1>6. new \in Byte
  BY <1>1, <1>3, <1>4, SideBySideFits DEF Byte
<1>7. ASSUME NEW i \in Places
      PROVE  BitOf(new, i) = IF i < s THEN BitOf(o, i) ELSE BitOf(r, i - s)
  <2>1. i \in Nat /\ i < PageRows
    BY PanelAssumption DEF Places
  <2>2. CASE i < s
    <3>1. BitOf(new, i) = BitOf(low, i)
      BY <1>1, <1>3, <1>4, <1>5, <2>1, <2>2, LowBits
    <3>2. BitOf(low, i) = BitOf(o, i)
      BY <1>1, <1>2, <2>1, <2>2, PartBits DEF low
    <3> QED
      BY <2>2, <3>1, <3>2
  <2>3. CASE ~(i < s)
    <3>1. i - s \in Nat /\ s + (i - s) = i /\ i - s < n
      BY <1>1, <2>1, <2>3
    <3>2. BitOf(new, s + (i - s)) = BitOf(high, i - s)
      BY <1>1, <1>3, <1>4, <1>5, <3>1, HighBits
    <3>3. BitOf(high, i - s) = BitOf(r, i - s)
      BY <1>1, <1>2, <3>1, PartBits DEF high
    <3> QED
      BY <2>3, <3>1, <3>2, <3>3
  <2> QED
    BY <2>2, <2>3
<1> QED
  BY <1>6, <1>7 DEF new, n

(* And those in the lower.                                                 *)
LEMMA LowerPage ==
    ASSUME NEW s \in 0..PageRows, NEW o \in Byte, NEW r \in Byte
    PROVE  /\ ReplaceBits(TRUE, s, o, r) \in Byte
           /\ \A i \in Places : BitOf(ReplaceBits(TRUE, s, o, r), i)
                  = IF i < s THEN BitOf(r, (PageRows - s) + i) ELSE BitOf(o, i)
<1> DEFINE n == PageRows - s
           high == o \div Shifted(s)
           low == r \div Shifted(n)
           new == ReplaceBits(TRUE, s, o, r)
<1>1. s \in Nat /\ n \in Nat /\ s + n = PageRows /\ n + s = PageRows
  BY PanelAssumption
<1>2. /\ o \in 0..(Shifted(s + n) - 1) /\ r \in 0..(Shifted(n + s) - 1)
      /\ o \in Nat /\ r \in Nat
  BY <1>1, ShiftDoubles DEF Byte
<1>3. new = SideBySide(high, low, s)
  BY DEF ReplaceBits, SideBySide
<1> HIDE DEF n, new
<1>4. high \in 0..(Shifted(n) - 1) /\ low \in 0..(Shifted(s) - 1)
  BY <1>1, <1>2, UpperFits
<1>5. high \in Nat
  BY <1>1, <1>4, ShiftDoubles
<1> HIDE DEF high, low
<1>6. new \in Byte
  BY <1>1, <1>3, <1>4, SideBySideFits DEF Byte
<1>7. ASSUME NEW i \in Places
      PROVE  BitOf(new, i) = IF i < s THEN BitOf(r, n + i) ELSE BitOf(o, i)
  <2>1. i \in Nat
    BY PanelAssumption DEF Places
  <2>2. CASE i < s
    <3>1. BitOf(new, i) = BitOf(low, i)
      BY <1>1, <1>3, <1>4, <1>5, <2>1, <2>2, LowBits
    <3>2. BitOf(low, i) = BitOf(r, n + i)
      BY <1>1, <1>2, <2>1, PartBits DEF low
    <3> QED
      BY <2>2, <3>1, <3>2
  <2>3. CASE ~(i < s)
    <3>1. i - s \in Nat /\ s + (i - s) = i
      BY <1>1, <2>1, <2>3
    <3>2. BitOf(new, s + (i - s)) = BitOf(high, i - s)
      BY <1>1, <1>3, <1>4, <1>5, <3>1, HighBits
    <3>3. BitOf(high, i - s) = BitOf(o, s + (i - s))
      BY <1>1, <1>2, <3>1, PartBits DEF high
    <3> QED
      BY <2>3, <3>1, <3>2, <3>3
  <2> QED
    BY <2>2, <2>3
<1> QED
  BY <1>6, <1>7 DEF new, n

(* A pixel set to a value, the others of its byte as they were.            *)
LEMMA OneBit ==
    ASSUME NEW b \in Byte, NEW i \in Places, NEW value \in {0, 1}
    PROVE  /\ WithBit(b, i, value) \in Byte
           /\ \A j \in Places : BitOf(WithBit(b, i, value), j)
                                = IF j = i THEN value ELSE BitOf(b, j)
<1> DEFINE s == Shifted(i)
           up == b \div s
           low == b % s
           high == up \div 2
           bit == up % 2
           more == SideBySide(high, value, 1)
           new == WithBit(b, i, value)
           m == (PageRows - i) - 1
<1>1. i \in Nat /\ m \in Nat /\ i + (1 + m) = PageRows /\ 1 + m \in Nat /\ 1 \in Nat
  BY PanelAssumption DEF Places
<1>2. b \in 0..(Shifted(i + (1 + m)) - 1) /\ b \in Nat
  BY <1>1, ShiftDoubles DEF Byte
<1>3. s \in Nat /\ s > 0 /\ Shifted(1) = 2
  <2>1. Shifted(0 + 1) = 2 * 1
    BY ShiftDoubles
  <2> QED
    BY <1>1, <2>1, ShiftDoubles
<1> HIDE DEF m
<1>4. /\ up \in Nat /\ low \in 0..(s - 1) /\ b = SideBySide(up, low, i)
      /\ up \in 0..(Shifted(1 + m) - 1)
  BY <1>1, <1>2, Halved, UpperFits
<1> HIDE DEF up, low
<1>5. /\ high \in Nat /\ bit \in 0..1 /\ up = SideBySide(high, bit, 1)
      /\ high \in 0..(Shifted(m) - 1)
  <2>1. /\ up \div Shifted(1) \in Nat /\ up % Shifted(1) \in 0..(Shifted(1) - 1)
        /\ up = SideBySide(up \div Shifted(1), up % Shifted(1), 1)
    BY <1>1, <1>4, Halved
  <2>2. up \div Shifted(1) \in 0..(Shifted(m) - 1)
    BY <1>1, <1>4, UpperFits
  <2>3. Shifted(1) - 1 = 1
    BY <1>3
  <2> QED
    BY <1>3, <2>1, <2>2, <2>3
<1>6. BitOf(b, i) = bit
  BY DEF BitOf, up, s
<1> HIDE DEF high, bit
<1>7. new = SideBySide(more, low, i)
  <2>1. b = (high * 2 + bit) * s + low
    BY <1>3, <1>4, <1>5 DEF SideBySide, s
  <2>2. (high * 2 + bit) * s + low + (value - bit) * s = (high * 2 + value) * s + low
    <3> DEFINE x == high * 2
    <3>1. x \in Int
      BY <1>5
    <3> HIDE DEF x
    <3>2. (x + bit) * s = x * s + bit * s /\ (x + value) * s = x * s + value * s
          /\ (value - bit) * s = value * s - bit * s
      BY <1>3, <1>5, <3>1
    <3> DEFINE y == x * s
               c == bit * s
               d == value * s
    <3>3. y \in Int /\ c \in Int /\ d \in Int /\ low \in Int
      BY <1>3, <1>4, <1>5, <3>1
    <3> HIDE DEF y, c, d
    <3>4. (y + c) + low + (d - c) = (y + d) + low
      BY <3>3
    <3> QED
      BY <3>2, <3>4 DEF x, y, c, d
  <2>3. new = b + (value - bit) * s
    BY <1>6 DEF WithBit, s
  <2> QED
    BY <1>3, <2>1, <2>2, <2>3 DEF SideBySide, s, more
<1> HIDE DEF new
<1>8. /\ value \in 0..(Shifted(1) - 1) /\ bit \in 0..(Shifted(1) - 1)
      /\ value \in Nat /\ bit \in Nat
  BY <1>3, <1>5
<1>9. more \in 0..(Shifted(1 + m) - 1) /\ more \in Nat
  <2>1. more \in 0..(Shifted(1 + m) - 1)
    BY <1>1, <1>5, <1>8, SideBySideFits
  <2>2. Shifted(1 + m) \in Nat
    BY <1>1, ShiftDoubles
  <2> QED
    BY <2>1, <2>2
<1>10. new \in Byte
  <2>1. SideBySide(more, low, i) \in 0..(Shifted(i + (1 + m)) - 1)
    <3> HIDE DEF more
    <3> QED
      BY <1>1, <1>4, <1>9, SideBySideFits DEF s
  <2> QED
    BY <1>1, <1>7, <2>1 DEF Byte
<1>11. ASSUME NEW j \in Places
       PROVE  BitOf(new, j) = IF j = i THEN value ELSE BitOf(b, j)
  <2>1. j \in Nat
    BY PanelAssumption DEF Places
  <2>2. CASE j < i
    <3>1. BitOf(SideBySide(more, low, i), j) = BitOf(low, j)
      <4> HIDE DEF more
      <4> QED
        BY <1>1, <1>4, <1>9, <2>1, <2>2, LowBits DEF s
    <3>2. BitOf(SideBySide(up, low, i), j) = BitOf(low, j)
      BY <1>1, <1>4, <2>1, <2>2, LowBits DEF s
    <3> QED
      BY <1>1, <1>4, <1>7, <2>2, <3>1, <3>2
  <2>3. CASE j = i
    <3>1. BitOf(SideBySide(more, low, i), i + 0) = BitOf(more, 0)
      <4> HIDE DEF more
      <4>1. 0 \in Nat
        OBVIOUS
      <4> QED
        BY <1>1, <1>4, <1>9, <4>1, HighBits DEF s
    <3>2. BitOf(more, 0) = BitOf(value, 0)
      BY <1>1, <1>5, <1>8, LowBits
    <3>3. BitOf(value, 0) = value
      <4>1. value \div 1 = value /\ value % 2 = value
        OBVIOUS
      <4> QED
        BY <4>1, ShiftDoubles DEF BitOf
    <3> QED
      BY <1>1, <1>7, <2>3, <3>1, <3>2, <3>3
  <2>4. CASE i < j
    <3> DEFINE d == (j - i) - 1
               e == 1 + d
    <3>1. d \in Nat /\ i + e = j /\ e \in Nat
      BY <1>1, <2>1, <2>4
    <3> HIDE DEF d, e
    <3>2. BitOf(SideBySide(more, low, i), i + e) = BitOf(more, e)
      <4> HIDE DEF more
      <4> QED
        BY <1>1, <1>4, <1>9, <3>1, HighBits DEF s
    <3>3. BitOf(SideBySide(up, low, i), i + e) = BitOf(up, e)
      BY <1>1, <1>4, <3>1, HighBits DEF s
    <3>4. BitOf(more, 1 + d) = BitOf(high, d)
      BY <1>1, <1>5, <1>8, <3>1, HighBits
    <3>5. BitOf(SideBySide(high, bit, 1), 1 + d) = BitOf(high, d)
      BY <1>1, <1>5, <1>8, <3>1, HighBits
    <3> QED
      BY <1>1, <1>4, <1>5, <1>7, <2>4, <3>1, <3>2, <3>3, <3>4, <3>5 DEF e
  <2> QED
    BY <1>1, <2>1, <2>2, <2>3, <2>4
<1> QED
  BY <1>10, <1>11 DEF new

(* An inverted byte has the bits the byte has not.                         *)
LEMMA InvertedBits ==
    ASSUME NEW b \in Byte
    PROVE  /\ Shifted(PageRows) - 1 - b \in Byte
           /\ \A i \in Places : BitOf(Shifted(PageRows) - 1 - b, i) = 1 - BitOf(b, i)
<1>1. Shifted(PageRows) - 1 - b \in Byte
  BY PanelAssumption, ShiftDoubles DEF Byte
<1>2. ASSUME NEW i \in Places
      PROVE  BitOf(Shifted(PageRows) - 1 - b, i) = 1 - BitOf(b, i)
  <2> DEFINE s == Shifted(i)
             m == (PageRows - i) - 1
             t == Shifted(m)
             q == b \div s
             r == b % s
             h == q \div 2
             bit == q % 2
  <2>1. i \in Nat /\ m \in Nat /\ i + (m + 1) = PageRows /\ m + 1 \in Nat
    BY PanelAssumption DEF Places
  <2> HIDE DEF m
  <2>2. s \in Nat /\ s > 0 /\ t \in Nat /\ Shifted(PageRows) = s * (2 * t)
    <3>1. Shifted(m + 1) = 2 * Shifted(m)
      BY <2>1, ShiftDoubles
    <3>2. Shifted(i + (m + 1)) = s * Shifted(m + 1)
      BY <2>1, ShiftsAdd
    <3> QED
      BY <2>1, <3>1, <3>2, ShiftDoubles
  <2>3. b \in Nat
    BY PanelAssumption, ShiftDoubles DEF Byte
  <2> HIDE DEF s, t
  <2>4. q \in Int /\ r \in 0..(s - 1) /\ b = s * q + r
    BY <2>2, <2>3, Division
  <2> HIDE DEF q, r
  <2>5. h \in Int /\ bit \in 0..1 /\ q = 2 * h + bit
    BY <2>4, Division
  <2> HIDE DEF h, bit
  <2> DEFINE u == (t - 1) - h
             up == 2 * u + (1 - bit)
             low == (s - 1) - r
  <2>6. u \in Int /\ up \in Int /\ low \in 0..(s - 1) /\ 1 - bit \in 0..1
    BY <2>2, <2>4, <2>5
  <2>7. Shifted(PageRows) - 1 - b = s * up + low
    <3>1. up = 2 * t - 1 - q
      BY <2>2, <2>4, <2>5
    <3>2. s * (2 * t - 1 - q) = s * (2 * t) - s - s * q
      BY <2>2, <2>4
    <3> DEFINE v == s * (2 * t)
               w == s * q
               x == s * up
    <3>3. v \in Int /\ w \in Int /\ x = v - s - w /\ Shifted(PageRows) = v /\ b = w + r
      BY <2>2, <2>4, <3>1, <3>2
    <3> HIDE DEF v, w, x, up
    <3>4. v - 1 - (w + r) = (v - s - w) + ((s - 1) - r)
      BY <2>2, <2>4, <3>3
    <3> QED
      BY <3>3, <3>4 DEF x
  <2>8. up % 2 = 1 - bit
    <3> DEFINE e == 1 - bit
    <3>1. e \in 0..(2 - 1) /\ 2 \in Nat /\ 2 > 0
      BY <2>6
    <3> HIDE DEF u, e
    <3>2. (2 * u + e) % 2 = e
      BY <2>6, <3>1, Quotient
    <3> QED
      BY <3>2 DEF e
  <2> HIDE DEF up, low
  <2>9. (s * up + low) \div s = up
    BY <2>2, <2>6, Quotient
  <2>10. BitOf(Shifted(PageRows) - 1 - b, i) = 1 - bit
    BY <2>7, <2>8, <2>9 DEF BitOf, s
  <2> QED
    BY <2>10 DEF BitOf, bit, q, s
<1> QED
  BY <1>1, <1>2

(* A line through a byte sets the bits of its rows, whatever the order.    *)
LEMMA PaintedBits ==
    ASSUME NEW byte \in Byte, NEW pg \in Nat, NEW y1, NEW y2, NEW value \in {0, 1}
    PROVE  /\ Painted(byte, pg, y1, y2, value) \in Byte
           /\ \A j \in Places : BitOf(Painted(byte, pg, y1, y2, value), j)
                = IF pg * PageRows + j \in y1..y2 THEN value ELSE BitOf(byte, j)
<1> DEFINE body(f) == [i \in 0..PageRows |->
              IF i = 0 THEN byte
              ELSE IF pg * PageRows + i - 1 \in y1..y2
              THEN WithBit(f[i - 1], i - 1, value) ELSE f[i - 1]]
           after == CHOOSE f : f = body(f)
           step == [i \in 1..PageRows |-> [b \in Byte |->
              IF pg * PageRows + i - 1 \in y1..y2 THEN WithBit(b, i - 1, value) ELSE b]]
<1>1. PageRows \in Nat
  BY PanelAssumption
<1>2. Painted(byte, pg, y1, y2, value) = after[PageRows]
  BY DEF Painted
<1>3. step \in [1..PageRows -> [Byte -> Byte]]
  <2>1. ASSUME NEW i \in 1..PageRows, NEW b \in Byte PROVE WithBit(b, i - 1, value) \in Byte
    <3>1. i - 1 \in Places
      BY <1>1 DEF Places
    <3> QED
      BY <3>1, OneBit
  <2> QED
    BY <2>1
<1>4. \A i \in 1..PageRows : \A b \in Byte : step[i][b]
        = IF pg * PageRows + i - 1 \in y1..y2 THEN WithBit(b, i - 1, value) ELSE b
  OBVIOUS
<1> HIDE DEF step
<1>5. PICK f : Runs(f, PageRows, Byte, byte, step)
  BY <1>1, <1>3, RecursionUpTo
<1>6. /\ f \in [0..PageRows -> Byte] /\ f[0] = byte
      /\ \A i \in 1..PageRows : f[i - 1] \in Byte /\ f[i] = step[i][f[i - 1]]
  <2>1. \A i \in 1..PageRows : i - 1 \in 0..PageRows
    BY <1>1
  <2> QED
    BY <1>5, <2>1 DEF Runs
<1>7. f = body(f)
  <2>1. \A i \in 0..PageRows : f[i] = body(f)[i]
    <3> SUFFICES ASSUME NEW i \in 0..PageRows PROVE f[i] = body(f)[i]
      OBVIOUS
    <3>1. CASE i = 0
      BY <1>6, <3>1
    <3>2. CASE i # 0
      <4>1. i \in 1..PageRows
        BY <3>2
      <4> QED
        BY <1>4, <1>6, <3>2, <4>1
    <3> QED
      BY <3>1, <3>2
  <2> QED
    BY <1>6, <2>1
<1>8. after = body(after)
  <2> HIDE DEF body
  <2> QED
    BY <1>7
<1> HIDE DEF after
<1>9. Runs(after, PageRows, Byte, byte, step)
  <2>1. after = [i \in 0..PageRows |-> after[i]] /\ after[0] = byte
    BY <1>1, <1>8
  <2>2. ASSUME NEW i \in 1..PageRows, after[i - 1] \in Byte
        PROVE  after[i] = step[i][after[i - 1]]
    <3>1. i \in 0..PageRows /\ i # 0
      OBVIOUS
    <3>2. after[i] = IF pg * PageRows + i - 1 \in y1..y2
                     THEN WithBit(after[i - 1], i - 1, value) ELSE after[i - 1]
      BY <1>8, <3>1
    <3> QED
      BY <1>4, <2>2, <3>2
  <2> HIDE DEF body
  <2> QED
    BY <1>1, <1>3, <2>1, <2>2, RecursionOnly
<1> HIDE DEF body
<1> DEFINE Set(n, j) == j < n /\ pg * PageRows + j \in y1..y2
           T == {n \in 0..PageRows : \A j \in Places :
                   BitOf(after[n], j) = IF Set(n, j) THEN value ELSE BitOf(byte, j)}
<1>10. 0 \in T
  <2>1. \A j \in Places : ~(j < 0)
    BY <1>1 DEF Places
  <2> QED
    BY <1>1, <1>9, <2>1 DEF Runs
<1>11. ASSUME NEW n \in 0..PageRows, n < PageRows, n \in T PROVE n + 1 \in T
  <2> DEFINE k == n + 1
             on == pg * PageRows + k - 1 \in y1..y2
  <2>1. k \in 1..PageRows /\ k - 1 = n /\ n \in Places /\ k \in 0..PageRows
    BY <1>1, <1>11 DEF Places
  <2>2. after[n] \in Byte /\ after[k] = IF on THEN WithBit(after[n], n, value) ELSE after[n]
    <3> HIDE DEF k
    <3>1. after[n] \in Byte /\ after[k] = step[k][after[k - 1]]
      BY <1>9, <2>1 DEF Runs
    <3> QED
      BY <1>4, <2>1, <3>1
  <2>3. on <=> pg * PageRows + n \in y1..y2
    <3>1. pg * PageRows + k - 1 = pg * PageRows + n
      BY <1>1
    <3> QED
      BY <3>1
  <2> HIDE DEF on
  <2>4. ASSUME NEW j \in Places
        PROVE  BitOf(after[k], j) = IF Set(k, j) THEN value ELSE BitOf(byte, j)
    <3>1. BitOf(after[n], j) = IF Set(n, j) THEN value ELSE BitOf(byte, j)
      BY <1>11
    <3>2. CASE j = n
      <4>1. ~Set(n, j) /\ (Set(k, j) <=> on)
        BY <1>1, <2>3, <3>2 DEF Places
      <4>2. CASE on
        BY <2>1, <2>2, <3>2, <4>1, <4>2, OneBit
      <4>3. CASE ~on
        BY <2>2, <3>1, <4>1, <4>3
      <4> QED
        BY <4>2, <4>3
    <3>3. CASE j # n
      <4>1. Set(n, j) <=> Set(k, j)
        BY <1>1, <3>3 DEF Places
      <4>2. BitOf(after[k], j) = BitOf(after[n], j)
        BY <2>1, <2>2, <3>3, OneBit
      <4> QED
        BY <3>1, <4>1, <4>2
    <3> QED
      BY <3>2, <3>3
  <2> QED
    BY <2>1, <2>4
<1> HIDE DEF T
<1>12. PageRows \in T
  <2>1. \A n \in 0..PageRows : n \in T
    BY <1>1, <1>10, <1>11, InductionUpTo
  <2> QED
    BY <1>1, <2>1
<1>13. ASSUME NEW j \in Places
       PROVE  BitOf(after[PageRows], j)
                = IF pg * PageRows + j \in y1..y2 THEN value ELSE BitOf(byte, j)
  <2>1. j < PageRows
    BY <1>1 DEF Places
  <2> QED
    BY <1>12, <2>1 DEF T
<1>14. after[PageRows] \in Byte
  BY <1>1, <1>9 DEF Runs
<1> QED
  BY <1>2, <1>13, <1>14

-----------------------------------------------------------------------------
(* The pixels of the display                                               *)

RowSet == 0..(Height - 1)
Screen == ColumnSet \X RowSet

(* The sizes are numbers.                                                  *)
LEMMA Sizes ==
    /\ Width \in Nat /\ Cell \in Nat /\ Cell >= 1 /\ Cell <= Width
    /\ Pages \in Nat /\ Pages > 0 /\ PageRows \in Nat /\ PageRows > 0
    /\ Height \in Nat
<1>1. Pages * PageRows \in Nat
  BY PanelAssumption
<1> QED
  BY <1>1, PanelAssumption DEF Height

(* A byte is a number.                                                     *)
LEMMA BytesAreNumbers == 0 \in Byte /\ \A b \in Byte : b \in Nat
<1>1. Shifted(PageRows) \in Nat /\ Shifted(PageRows) > 0
  BY Sizes, ShiftDoubles
<1> QED
  BY <1>1 DEF Byte

(* A row of the screen is a bit of the bytes of a page.                    *)
LEMMA RowIs ==
    ASSUME NEW r \in RowSet
    PROVE  /\ r \div PageRows \in PageSet /\ r % PageRows \in Places
           /\ r = (r \div PageRows) * PageRows + (r % PageRows)
<1> DEFINE q == r \div PageRows
           i == r % PageRows
           v == PageRows * q
           w == PageRows * Pages
<1>1. r \in Nat /\ w \in Nat /\ r < w
  <2>1. Height = w
    BY Sizes DEF Height
  <2> QED
    BY <2>1, Sizes DEF RowSet
<1>2. q \in Nat /\ i \in 0..(PageRows - 1) /\ r = PageRows * q + i
  BY <1>1, Sizes, Division, Halves
<1> HIDE DEF q, i
<1>3. v \in Nat /\ v = q * PageRows /\ r = v + i
  BY <1>2, Sizes
<1>4. ASSUME Pages <= q PROVE FALSE
  <2>1. w <= v
    BY <1>2, <1>4, Sizes, Bigger
  <2> HIDE DEF v, w
  <2> QED
    BY <1>1, <1>2, <1>3, <2>1, Sizes
<1>5. q \in PageSet
  BY <1>2, <1>4, Sizes DEF PageSet
<1>6. r = q * PageRows + i /\ i \in Places
  BY <1>2, <1>3 DEF Places
<1> QED
  BY <1>5, <1>6 DEF q, i

(* Each pixel of a picture is a bit of the buffer.                         *)
LEMMA LitIs ==
    ASSUME NEW buffer, NEW c \in ColumnSet, NEW r \in RowSet
    PROVE  <<c, r>> \in LitPixels(buffer)
             <=> BitOf(buffer[r \div PageRows][c], r % PageRows) = 1
BY DEF LitPixels, RowSet

(* A picture is a part of the screen.                                      *)
LEMMA LitOnScreen == \A buffer : LitPixels(buffer) \subseteq Screen
BY DEF LitPixels, Screen, RowSet

(* Two pictures with the same pixels are one.                              *)
LEMMA SamePixels ==
    ASSUME NEW X, NEW Y, X \subseteq Screen, Y \subseteq Screen,
           \A c \in ColumnSet, r \in RowSet : <<c, r>> \in X <=> <<c, r>> \in Y
    PROVE  X = Y
<1>1. \A p \in Screen : p \in X <=> p \in Y
  <2> SUFFICES ASSUME NEW p \in Screen PROVE p \in X <=> p \in Y
    OBVIOUS
  <2>1. p[1] \in ColumnSet /\ p[2] \in RowSet /\ p = <<p[1], p[2]>>
    BY DEF Screen
  <2>2. <<p[1], p[2]>> \in X <=> <<p[1], p[2]>> \in Y
    BY <2>1
  <2> QED
    BY <2>1, <2>2
<1> QED
  BY <1>1

(* A pixel of a cell, put at x, y.                                         *)
LEMMA InCell ==
    ASSUME NEW x \in Int, NEW y \in Int, NEW c \in Int, NEW r \in Int,
           NEW S, S \subseteq CellPixels
    PROVE  <<c, r>> \in Pic!At(x, y, S) <=> <<c - x, r - y>> \in S
<1>1. ASSUME <<c, r>> \in Pic!At(x, y, S) PROVE <<c - x, r - y>> \in S
  <2>1. PICK p \in S : <<c, r>> = <<x + p[1], y + p[2]>>
    BY <1>1 DEF Pic!At
  <2>2. p = <<p[1], p[2]>> /\ p[1] \in Int /\ p[2] \in Int
    BY Sizes DEF CellPixels
  <2>3. c - x = p[1] /\ r - y = p[2]
    BY <2>1, <2>2
  <2> QED
    BY <2>2, <2>3
<1>2. ASSUME <<c - x, r - y>> \in S PROVE <<c, r>> \in Pic!At(x, y, S)
  <2> DEFINE p == <<c - x, r - y>>
  <2>1. p \in S /\ <<x + p[1], y + p[2]>> = <<c, r>>
    BY <1>2
  <2> HIDE DEF p
  <2> QED
    BY <2>1 DEF Pic!At
<1> QED
  BY <1>1, <1>2

(* Where rows of a cell at row s of page pg lie: the upper of them on the  *)
(* same page, the others on the next.                                      *)
LEMMA CellRows ==
    ASSUME NEW pg \in Nat, NEW p \in Nat, NEW s \in Places, NEW i \in Places
    PROVE  LET row == (p * PageRows + i) - (pg * PageRows + s) IN
           /\ p = pg => row = i - s
           /\ p = pg + 1 => row = (PageRows - s) + i
           /\ row \in Places <=> (p = pg /\ i >= s) \/ (p = pg + 1 /\ i < s)
<1> DEFINE u == PageRows * p
           v == PageRows * pg
           row == (u + i) - (v + s)
<1>1. /\ p * PageRows = u /\ pg * PageRows = v /\ u \in Nat /\ v \in Nat
      /\ s \in 0..(PageRows - 1) /\ i \in 0..(PageRows - 1)
  BY Sizes DEF Places
<1>2. CASE p = pg
  <2>1. u = v /\ p # pg + 1
    BY <1>2
  <2> HIDE DEF u, v
  <2> QED
    BY <1>1, <1>2, <2>1, Sizes DEF Places
<1>3. CASE p = pg + 1
  <2>1. u = v + PageRows /\ p # pg
    BY <1>3, Sizes
  <2> HIDE DEF u, v
  <2> QED
    BY <1>1, <1>3, <2>1, Sizes DEF Places
<1>4. CASE p < pg
  <2>1. PageRows * (p + 1) <= v /\ PageRows * (p + 1) = u + PageRows
    BY <1>4, Sizes, Bigger
  <2>2. p # pg /\ p # pg + 1
    BY <1>4
  <2> HIDE DEF u, v
  <2> QED
    BY <1>1, <2>1, <2>2, Sizes DEF Places
<1>5. CASE p > pg + 1
  <2>1. PageRows * (pg + 2) <= u /\ PageRows * (pg + 2) = v + 2 * PageRows
    BY <1>5, Sizes, Bigger
  <2>2. p # pg /\ p # pg + 1
    BY <1>5
  <2> HIDE DEF u, v
  <2> QED
    BY <1>1, <2>1, <2>2, Sizes DEF Places
<1> QED
  BY <1>2, <1>3, <1>4, <1>5

-----------------------------------------------------------------------------
(* Drawing a character                                                     *)

(* What the bytes are after a character was drawn at x, y.                 *)
DrawnAt(new, old, x, y, glyph) ==
    \A p \in PageSet, c \in ColumnSet, i \in Places :
        LET row == (p * PageRows + i) - y IN
        BitOf(new[p][c], i) = IF c - x \in 0..(Cell - 1) /\ row \in Places
                              THEN BitOf(glyph[c - x], row) ELSE BitOf(old[p][c], i)

Character == [0..(Cell - 1) -> Byte]

(* The bytes of a page under a cell are the new ones, the others as they   *)
(* were.                                                                   *)
LEMMA OverwriteIs ==
    ASSUME NEW buffer \in Buffer, NEW pg \in PageSet, NEW x \in 0..(Width - Cell),
           NEW new \in Character
    PROVE  /\ Overwrite(buffer, pg, x, new) \in Buffer
           /\ \A p \in PageSet, c \in ColumnSet : Overwrite(buffer, pg, x, new)[p][c]
                = IF p = pg /\ c - x \in 0..(Cell - 1) THEN new[c - x] ELSE buffer[p][c]
<1>1. \A c \in ColumnSet : /\ c \in x..(x + Cell - 1) <=> c - x \in 0..(Cell - 1)
                          /\ buffer[pg][c] \in Byte
  BY Sizes DEF ColumnSet, Buffer
<1> DEFINE page == [c \in ColumnSet |->
        IF c \in x..(x + Cell - 1) THEN new[c - x] ELSE buffer[pg][c]]
<1>2. /\ page \in [ColumnSet -> Byte]
      /\ \A c \in ColumnSet : page[c]
            = IF c - x \in 0..(Cell - 1) THEN new[c - x] ELSE buffer[pg][c]
  BY <1>1 DEF Character
<1>3. Overwrite(buffer, pg, x, new) = [buffer EXCEPT ![pg] = page]
  BY DEF Overwrite
<1> HIDE DEF page
<1> QED
  BY <1>2, <1>3 DEF Buffer

(* On a page boundary.                                                     *)
LEMMA AlignedDraws ==
    ASSUME NEW x \in 0..(Width - Cell), NEW pg \in PageSet, NEW glyph \in Character,
           display_buffer \in Buffer, PutAligned(x, pg, glyph)
    PROVE  /\ display_buffer' \in Buffer
           /\ DrawnAt(display_buffer', display_buffer, x, pg * PageRows + 0, glyph)
<1>1. display_buffer' = Overwrite(display_buffer, pg, x, glyph)
  BY DEF PutAligned
<1>2. /\ display_buffer' \in Buffer
      /\ \A p \in PageSet, c \in ColumnSet : display_buffer'[p][c]
           = IF p = pg /\ c - x \in 0..(Cell - 1) THEN glyph[c - x] ELSE display_buffer[p][c]
  BY <1>1, OverwriteIs
<1>3. ASSUME NEW p \in PageSet, NEW c \in ColumnSet, NEW i \in Places
      PROVE  LET row == (p * PageRows + i) - (pg * PageRows + 0) IN
             BitOf(display_buffer'[p][c], i)
               = IF c - x \in 0..(Cell - 1) /\ row \in Places
                 THEN BitOf(glyph[c - x], row) ELSE BitOf(display_buffer[p][c], i)
  <2> DEFINE row == (p * PageRows + i) - (pg * PageRows + 0)
  <2>1. p \in Nat /\ pg \in Nat /\ 0 \in Places
    BY Sizes DEF PageSet, Places
  <2>2. i \in Nat
    BY Sizes DEF Places
  <2>3. (p = pg => row = i - 0) /\ (row \in Places <=> (p = pg /\ i >= 0) \/ (p = pg + 1 /\ i < 0))
    BY <2>1, CellRows
  <2>4. (p = pg => row = i) /\ (row \in Places <=> p = pg)
    <3> HIDE DEF row
    <3> QED
      BY <2>2, <2>3
  <2> HIDE DEF row
  <2>5. BitOf(display_buffer'[p][c], i)
               = IF c - x \in 0..(Cell - 1) /\ row \in Places
                 THEN BitOf(glyph[c - x], row) ELSE BitOf(display_buffer[p][c], i)
    BY <1>2, <2>4
  <2> QED
    BY <2>5 DEF row
<1> QED
  BY <1>2, <1>3 DEF DrawnAt

(* Over two pages.                                                         *)
LEMMA AcrossDraws ==
    ASSUME NEW x \in 0..(Width - Cell), NEW pg \in PageSet, pg + 1 \in PageSet,
           NEW s \in Places, s # 0, NEW glyph \in Character,
           display_buffer \in Buffer, PutAcross(x, pg, s, glyph)
    PROVE  /\ display_buffer' \in Buffer
           /\ DrawnAt(display_buffer', display_buffer, x, pg * PageRows + s, glyph)
<1> DEFINE old(p) == CellBytes(p, x)
           upper == [j \in 0..(Cell - 1) |-> ReplaceBits(FALSE, PageRows - s, old(pg)[j], glyph[j])]
           lower == [j \in 0..(Cell - 1) |-> ReplaceBits(TRUE, s, old(pg + 1)[j], glyph[j])]
           first == Overwrite(display_buffer, pg, x, upper)
<1>1. display_buffer' = Overwrite(first, pg + 1, x, lower)
  BY DEF PutAcross
<1>2. s \in 0..PageRows /\ pg \in Nat /\ pg + 1 # pg
  BY Sizes DEF Places, PageSet
<1>3. \A j \in 0..(Cell - 1) : x + j \in ColumnSet /\ (x + j) - x = j
  BY Sizes DEF ColumnSet
<1>4. \A j \in 0..(Cell - 1), p \in PageSet :
        old(p)[j] = display_buffer[p][x + j] /\ old(p)[j] \in Byte /\ glyph[j] \in Byte
  BY <1>3 DEF CellBytes, Buffer, Character
<1> HIDE DEF old
<1>5. \A j \in 0..(Cell - 1) :
        /\ upper[j] \in Byte
        /\ \A i \in Places : BitOf(upper[j], i)
             = IF i < s THEN BitOf(old(pg)[j], i) ELSE BitOf(glyph[j], i - s)
  BY <1>2, <1>4, UpperPage
<1>6. \A j \in 0..(Cell - 1) :
        /\ lower[j] \in Byte
        /\ \A i \in Places : BitOf(lower[j], i)
             = IF i < s THEN BitOf(glyph[j], (PageRows - s) + i) ELSE BitOf(old(pg + 1)[j], i)
  <2> SUFFICES ASSUME NEW j \in 0..(Cell - 1)
               PROVE  /\ lower[j] \in Byte
                      /\ \A i \in Places : BitOf(lower[j], i)
                           = IF i < s THEN BitOf(glyph[j], (PageRows - s) + i)
                             ELSE BitOf(old(pg + 1)[j], i)
    OBVIOUS
  <2> DEFINE o == old(pg + 1)[j]
             g == glyph[j]
  <2>1. o \in Byte /\ g \in Byte /\ lower[j] = ReplaceBits(TRUE, s, o, g)
    BY <1>4
  <2> HIDE DEF o, g, lower
  <2>2. /\ ReplaceBits(TRUE, s, o, g) \in Byte
        /\ \A i \in Places : BitOf(ReplaceBits(TRUE, s, o, g), i)
               = IF i < s THEN BitOf(g, (PageRows - s) + i) ELSE BitOf(o, i)
    BY <1>2, <2>1, LowerPage
  <2> QED
    BY <2>1, <2>2 DEF o, g
<1>7. upper \in Character /\ lower \in Character
  BY <1>5, <1>6 DEF Character
<1> HIDE DEF upper, lower
<1>8. /\ first \in Buffer
      /\ \A p \in PageSet, c \in ColumnSet : first[p][c]
           = IF p = pg /\ c - x \in 0..(Cell - 1) THEN upper[c - x] ELSE display_buffer[p][c]
  BY <1>7, OverwriteIs
<1> HIDE DEF first
<1>9. /\ display_buffer' \in Buffer
      /\ \A p \in PageSet, c \in ColumnSet : display_buffer'[p][c]
           = IF p = pg + 1 /\ c - x \in 0..(Cell - 1) THEN lower[c - x] ELSE first[p][c]
  BY <1>1, <1>7, <1>8, OverwriteIs
<1>10. ASSUME NEW p \in PageSet, NEW c \in ColumnSet, NEW i \in Places
       PROVE  LET row == (p * PageRows + i) - (pg * PageRows + s) IN
              BitOf(display_buffer'[p][c], i)
                = IF c - x \in 0..(Cell - 1) /\ row \in Places
                  THEN BitOf(glyph[c - x], row) ELSE BitOf(display_buffer[p][c], i)
  <2> DEFINE row == (p * PageRows + i) - (pg * PageRows + s)
             j == c - x
  <2>1. /\ p = pg => row = i - s
        /\ p = pg + 1 => row = (PageRows - s) + i
        /\ row \in Places <=> (p = pg /\ i >= s) \/ (p = pg + 1 /\ i < s)
    <3>1. p \in Nat
      BY DEF PageSet
    <3> QED
      BY <1>2, <3>1, CellRows
  <2>2. i \in Int /\ s \in Int /\ x + j = c
    BY Sizes DEF Places, ColumnSet
  <2> SUFFICES BitOf(display_buffer'[p][c], i)
                 = IF j \in 0..(Cell - 1) /\ row \in Places
                   THEN BitOf(glyph[j], row) ELSE BitOf(display_buffer[p][c], i)
    OBVIOUS
  <2> HIDE DEF row
  <2>3. CASE j \notin 0..(Cell - 1)
    BY <1>8, <1>9, <2>3
  <2>4. CASE j \in 0..(Cell - 1) /\ p = pg
    <3>1. display_buffer'[p][c] = upper[j] /\ old(pg)[j] = display_buffer[p][c]
      BY <1>2, <1>4, <1>8, <1>9, <2>2, <2>4
    <3>2. row \in Places <=> ~(i < s)
      BY <1>2, <2>1, <2>2, <2>4
    <3> HIDE DEF j
    <3>3. BitOf(upper[j], i) = IF i < s THEN BitOf(old(pg)[j], i) ELSE BitOf(glyph[j], i - s)
      BY <1>5, <2>4
    <3> QED
      BY <2>1, <2>4, <3>1, <3>2, <3>3 DEF j
  <2>5. CASE j \in 0..(Cell - 1) /\ p = pg + 1
    <3>1. display_buffer'[p][c] = lower[j] /\ old(pg + 1)[j] = display_buffer[p][c]
      BY <1>4, <1>9, <2>2, <2>5
    <3>2. row \in Places <=> i < s
      BY <1>2, <2>1, <2>2, <2>5
    <3> HIDE DEF j
    <3>3. BitOf(lower[j], i) = IF i < s THEN BitOf(glyph[j], (PageRows - s) + i)
                               ELSE BitOf(old(pg + 1)[j], i)
      BY <1>6, <2>5
    <3> QED
      BY <2>1, <2>5, <3>1, <3>2, <3>3 DEF j
  <2>6. CASE p # pg /\ p # pg + 1
    BY <1>8, <1>9, <2>1, <2>6
  <2> QED
    BY <2>3, <2>4, <2>5, <2>6
<1> QED
  BY <1>9, <1>10 DEF DrawnAt

(* What is drawn of a character is its pixels, and the rest of its cell is *)
(* dark.                                                                   *)
LEMMA DrawnPixels ==
    ASSUME NEW new \in Buffer, NEW old \in Buffer, NEW x \in 0..(Width - Cell),
           NEW y \in 0..(Height - PageRows), NEW glyph \in Character,
           DrawnAt(new, old, x, y, glyph)
    PROVE  LitPixels(new) = (LitPixels(old) \ Pic!At(x, y, Pic!WholeCell))
                              \cup Pic!At(x, y, GlyphPixels(glyph))
<1> DEFINE G == GlyphPixels(glyph)
           Y == (LitPixels(old) \ Pic!At(x, y, CellPixels)) \cup Pic!At(x, y, G)
<1>1. x \in Int /\ y \in Int /\ Pic!WholeCell = CellPixels
  BY Sizes DEF Pic!WholeCell, CellPixels
<1>2. G \subseteq CellPixels
  BY DEF GlyphPixels
<1>3. \A c \in 0..(Cell - 1), row \in Places :
        <<c, row>> \in CellPixels /\ (<<c, row>> \in G <=> BitOf(glyph[c], row) = 1)
  BY DEF GlyphPixels, CellPixels, Places
<1>4. \A c, row : <<c, row>> \in CellPixels => c \in 0..(Cell - 1) /\ row \in Places
  BY DEF CellPixels, Places
<1> HIDE DEF G
<1>5. Y \subseteq Screen
  <2>1. Pic!At(x, y, G) \subseteq Screen
    <3> SUFFICES ASSUME NEW p \in G PROVE <<x + p[1], y + p[2]>> \in Screen
      BY DEF Pic!At
    <3>1. p[1] \in 0..(Cell - 1) /\ p[2] \in 0..(PageRows - 1)
      BY <1>2 DEF CellPixels
    <3>2. x + p[1] \in ColumnSet /\ y + p[2] \in RowSet
      BY <3>1, Sizes DEF ColumnSet, RowSet
    <3> QED
      BY <3>2 DEF Screen
  <2> QED
    BY <2>1, LitOnScreen
<1>6. ASSUME NEW c \in ColumnSet, NEW r \in RowSet
      PROVE  <<c, r>> \in LitPixels(new) <=> <<c, r>> \in Y
  <2> DEFINE p == r \div PageRows
             i == r % PageRows
             row == r - y
             j == c - x
             inside == j \in 0..(Cell - 1) /\ row \in Places
  <2>1. p \in PageSet /\ i \in Places /\ r = p * PageRows + i
    BY RowIs
  <2>2. /\ <<c, r>> \in LitPixels(new) <=> BitOf(new[p][c], i) = 1
        /\ <<c, r>> \in LitPixels(old) <=> BitOf(old[p][c], i) = 1
    BY LitIs
  <2> HIDE DEF p, i
  <2>3. BitOf(new[p][c], i) = IF inside THEN BitOf(glyph[j], row) ELSE BitOf(old[p][c], i)
    BY <2>1 DEF DrawnAt
  <2>4. /\ <<c, r>> \in Pic!At(x, y, CellPixels) <=> <<j, row>> \in CellPixels
        /\ <<c, r>> \in Pic!At(x, y, G) <=> <<j, row>> \in G
    <3>1. c \in Int /\ r \in Int
      BY Sizes DEF ColumnSet, RowSet
    <3> QED
      BY <1>1, <1>2, <3>1, InCell
  <2>5. /\ <<j, row>> \in CellPixels <=> inside
        /\ inside => (<<j, row>> \in G <=> BitOf(glyph[j], row) = 1)
        /\ <<j, row>> \in G => inside
    BY <1>2, <1>3, <1>4
  <2> HIDE DEF inside, j, row
  <2> QED
    BY <2>2, <2>3, <2>4, <2>5
<1> HIDE DEF Y
<1>7. LitPixels(new) = Y
  BY <1>5, <1>6, LitOnScreen, SamePixels
<1> QED
  BY <1>1, <1>7 DEF Y, G

(* An inverted character is what the character leaves out of the cell.     *)
LEMMA InvertedPixels ==
    ASSUME NEW glyph \in Character
    PROVE  /\ Inverted(glyph) \in Character
           /\ GlyphPixels(Inverted(glyph)) = CellPixels \ GlyphPixels(glyph)
<1>1. ASSUME NEW j \in 0..(Cell - 1)
      PROVE  /\ Inverted(glyph)[j] \in Byte
             /\ \A i \in Places : BitOf(Inverted(glyph)[j], i) = 1 - BitOf(glyph[j], i)
  <2>1. glyph[j] \in Byte /\ Inverted(glyph)[j] = Shifted(PageRows) - 1 - glyph[j]
    BY DEF Character, Inverted
  <2> QED
    BY <2>1, InvertedBits
<1>2. Inverted(glyph) \in Character
  BY <1>1 DEF Inverted, Character
<1>3. ASSUME NEW p \in CellPixels
      PROVE  BitOf(Inverted(glyph)[p[1]], p[2]) = 1 <=> BitOf(glyph[p[1]], p[2]) # 1
  <2> DEFINE j == p[1]
             i == p[2]
             b == glyph[j]
  <2>1. j \in 0..(Cell - 1) /\ i \in Places
    BY DEF CellPixels, Places
  <2>2. b \in Nat /\ i \in Nat
    <3>1. b \in Byte /\ i \in Nat
      BY <2>1, Sizes DEF Character, Places
    <3> QED
      BY <3>1, BytesAreNumbers
  <2> HIDE DEF j, i
  <2>3. BitOf(Inverted(glyph)[j], i) = 1 - BitOf(b, i)
    BY <1>1, <2>1
  <2>4. BitOf(b, i) \in {0, 1}
    <3> HIDE DEF b
    <3> QED
      BY <2>2, BitIs
  <2> QED
    BY <2>3, <2>4 DEF j, i
<1> QED
  BY <1>2, <1>3 DEF GlyphPixels

(* display_putc and display_putc_inverted draw a character where it fits   *)
(* and nothing where it does not.                                          *)
LEMMA DrawIs ==
    ASSUME NEW x \in 0..Width, NEW y \in 0..Height, NEW glyph \in Character,
           display_buffer \in Buffer, dirty \subseteq PageSet, Draw(x, y, glyph)
    PROVE  /\ display_buffer' \in Buffer /\ dirty' \subseteq PageSet
           /\ \/ display_buffer' = display_buffer
              \/ /\ x \in 0..(Width - Cell) /\ y \in 0..(Height - PageRows)
                 /\ LitPixels(display_buffer)'
                      = (LitPixels(display_buffer) \ Pic!At(x, y, Pic!WholeCell))
                          \cup Pic!At(x, y, GlyphPixels(glyph))
<1>1. CASE x > Width - Cell \/ y > Height - PageRows
  BY <1>1 DEF Draw
<1>2. CASE ~(x > Width - Cell \/ y > Height - PageRows)
  <2> DEFINE pg == y \div PageRows
             s == y % PageRows
  <2>1. x \in 0..(Width - Cell) /\ y \in 0..(Height - PageRows) /\ y \in RowSet
    BY <1>2, Sizes DEF RowSet
  <2>2. pg \in PageSet /\ s \in Places /\ y = pg * PageRows + s
    BY <2>1, RowIs
  <2>3. IF s = 0 THEN PutAligned(x, pg, glyph) ELSE PutAcross(x, pg, s, glyph)
    BY <1>2 DEF Draw
  <2> HIDE DEF pg, s
  <2>4. /\ display_buffer' \in Buffer /\ dirty' \subseteq PageSet
        /\ DrawnAt(display_buffer', display_buffer, x, y, glyph)
    <3>1. CASE s = 0
      <4>1. PutAligned(x, pg, glyph)
        BY <2>3, <3>1
      <4>2. dirty' \subseteq PageSet
        BY <2>2, <4>1 DEF PutAligned
      <4> QED
        BY <2>1, <2>2, <3>1, <4>1, <4>2, AlignedDraws
    <3>2. CASE s # 0
      <4> DEFINE u == PageRows * Pages
                 v == PageRows * (pg + 1)
                 w == pg * PageRows
      <4>1. /\ u = Height /\ v = w + PageRows /\ w \in Int /\ u \in Int
            /\ pg \in Nat /\ y = w + s
        BY <2>2, Sizes DEF Height, PageSet
      <4>2. ASSUME Pages <= pg + 1 PROVE FALSE
        <5>1. u <= v
          BY <4>1, <4>2, Sizes, Bigger
        <5> HIDE DEF u, v, w
        <5> QED
          BY <2>1, <2>2, <3>2, <4>1, <5>1, Sizes DEF Places
      <4>3. pg + 1 \in PageSet
        BY <4>1, <4>2, Sizes DEF PageSet
      <4>4. PutAcross(x, pg, s, glyph)
        BY <2>3, <3>2
      <4>5. dirty' \subseteq PageSet
        BY <2>2, <4>3, <4>4 DEF PutAcross
      <4> QED
        BY <2>1, <2>2, <3>2, <4>3, <4>4, <4>5, AcrossDraws
    <3> QED
      BY <3>1, <3>2
  <2>5. LitPixels(display_buffer') = (LitPixels(display_buffer) \ Pic!At(x, y, Pic!WholeCell))
                                       \cup Pic!At(x, y, GlyphPixels(glyph))
    BY <2>1, <2>4, DrawnPixels
  <2>6. LitPixels(display_buffer)' = LitPixels(display_buffer')
    BY DEF LitPixels
  <2> QED
    BY <2>1, <2>4, <2>5, <2>6
<1> QED
  BY <1>1, <1>2

-----------------------------------------------------------------------------
(* Drawing a line, clearing and sending a page                             *)

(* The bytes of a line's pages, painted.                                   *)
LinePainted(x1, x2, y1, y2, value) ==
    [p \in PageSet |->
        IF p \notin {y \div PageRows : y \in y1..y2} THEN display_buffer[p]
        ELSE [c \in ColumnSet |->
               IF c \in x1..x2 THEN Painted(display_buffer[p][c], p, y1, y2, value)
               ELSE display_buffer[p][c]]]

(* A step of DrawLine paints them and marks their pages.                   *)
LEMMA LinePaints ==
    ASSUME DrawLine
    PROVE  \E x1, x2 \in ColumnSet, y1, y2 \in RowSet, value \in {0, 1} :
              /\ x1 = x2 \/ y1 = y2
              /\ display_buffer' = LinePainted(x1, x2, y1, y2, value)
              /\ dirty' = dirty \cup {y \div PageRows : y \in y1..y2}
<1> PICK x1, x2 \in ColumnSet, y1, y2 \in 0..(Height - 1), value \in {0, 1} :
      LET touched == {y \div PageRows : y \in y1..y2} IN
      /\ x1 <= x2 /\ y1 <= y2 /\ (x1 = x2 \/ y1 = y2)
      /\ display_buffer' = [pg \in PageSet |->
            IF pg \notin touched THEN display_buffer[pg]
            ELSE [c \in ColumnSet |->
              IF c \in x1..x2 THEN Painted(display_buffer[pg][c], pg, y1, y2, value)
              ELSE display_buffer[pg][c]]]
      /\ dirty' = dirty \cup touched
  BY DEF DrawLine
<1>1. display_buffer' = LinePainted(x1, x2, y1, y2, value)
  BY DEF LinePainted
<1>2. dirty' = dirty \cup {y \div PageRows : y \in y1..y2}
  OBVIOUS
<1>3. y1 \in RowSet /\ y2 \in RowSet
  BY DEF RowSet
<1> QED
  BY <1>1, <1>2, <1>3

(* They are the picture with the line in it.                               *)
LEMMA LineIs ==
    ASSUME NEW x1 \in ColumnSet, NEW x2 \in ColumnSet, NEW y1 \in RowSet, NEW y2 \in RowSet,
           NEW value \in {0, 1}, display_buffer \in Buffer
    PROVE  LET new == LinePainted(x1, x2, y1, y2, value)
               stroke == (x1..x2) \X (y1..y2)
           IN /\ new \in Buffer
              /\ value = 1 => LitPixels(new) = LitPixels(display_buffer) \cup stroke
              /\ value = 0 => LitPixels(new) = LitPixels(display_buffer) \ stroke
<1> DEFINE new == LinePainted(x1, x2, y1, y2, value)
           stroke == (x1..x2) \X (y1..y2)
           touched == {y \div PageRows : y \in y1..y2}
           old == display_buffer
<1>1. \A p \in PageSet, c \in ColumnSet : p \in Nat /\ old[p][c] \in Byte
  BY DEF PageSet, Buffer
<1>2. \A p \in PageSet, c \in ColumnSet : new[p][c] =
        IF p \in touched /\ c \in x1..x2 THEN Painted(old[p][c], p, y1, y2, value) ELSE old[p][c]
  BY DEF LinePainted
<1>3. new \in Buffer
  <2>1. \A p \in PageSet, c \in ColumnSet : Painted(old[p][c], p, y1, y2, value) \in Byte
    BY <1>1, PaintedBits
  <2> HIDE DEF touched
  <2>2. \A p \in PageSet : new[p] \in [ColumnSet -> Byte]
    BY <1>1, <2>1 DEF LinePainted, Buffer
  <2> QED
    BY <2>2 DEF LinePainted, Buffer
<1>4. stroke \subseteq Screen
  <2>1. x1..x2 \subseteq ColumnSet /\ y1..y2 \subseteq RowSet
    BY Sizes DEF ColumnSet, RowSet
  <2> QED
    BY <2>1 DEF Screen
<1> HIDE DEF new
<1>5. ASSUME NEW c \in ColumnSet, NEW r \in RowSet
      PROVE  <<c, r>> \in LitPixels(new)
               <=> IF <<c, r>> \in stroke THEN value = 1 ELSE <<c, r>> \in LitPixels(old)
  <2> DEFINE p == r \div PageRows
             i == r % PageRows
  <2>1. p \in PageSet /\ i \in Places /\ r = p * PageRows + i
    BY RowIs
  <2>2. /\ <<c, r>> \in LitPixels(new) <=> BitOf(new[p][c], i) = 1
        /\ <<c, r>> \in LitPixels(old) <=> BitOf(old[p][c], i) = 1
    BY LitIs
  <2>3. r \in y1..y2 => p \in touched
    OBVIOUS
  <2>4. <<c, r>> \in stroke <=> c \in x1..x2 /\ r \in y1..y2
    OBVIOUS
  <2> HIDE DEF p, i, stroke, touched
  <2>5. BitOf(Painted(old[p][c], p, y1, y2, value), i)
          = IF r \in y1..y2 THEN value ELSE BitOf(old[p][c], i)
    <3>1. BitOf(Painted(old[p][c], p, y1, y2, value), i)
          = IF p * PageRows + i \in y1..y2 THEN value ELSE BitOf(old[p][c], i)
      BY <1>1, <2>1, PaintedBits
    <3> QED
      BY <2>1, <3>1
  <2>6. BitOf(new[p][c], i)
          = IF c \in x1..x2 /\ r \in y1..y2 THEN value ELSE BitOf(old[p][c], i)
    BY <1>2, <2>1, <2>3, <2>5
  <2> QED
    BY <2>2, <2>4, <2>6
<1>6. ASSUME value = 1 PROVE LitPixels(new) = LitPixels(old) \cup stroke
  <2> DEFINE Y == LitPixels(old) \cup stroke
  <2>1. Y \subseteq Screen /\ LitPixels(new) \subseteq Screen
    BY <1>4, LitOnScreen
  <2>2. \A c \in ColumnSet, r \in RowSet : <<c, r>> \in LitPixels(new) <=> <<c, r>> \in Y
    BY <1>5, <1>6
  <2> HIDE DEF Y
  <2>3. LitPixels(new) = Y
    BY <2>1, <2>2, SamePixels
  <2> QED
    BY <2>3 DEF Y
<1>7. ASSUME value = 0 PROVE LitPixels(new) = LitPixels(old) \ stroke
  <2> DEFINE Y == LitPixels(old) \ stroke
  <2>1. Y \subseteq Screen /\ LitPixels(new) \subseteq Screen
    BY LitOnScreen
  <2>2. \A c \in ColumnSet, r \in RowSet : <<c, r>> \in LitPixels(new) <=> <<c, r>> \in Y
    <3> SUFFICES ASSUME NEW c \in ColumnSet, NEW r \in RowSet
                 PROVE  <<c, r>> \in LitPixels(new) <=> <<c, r>> \in Y
      OBVIOUS
    <3> HIDE DEF stroke
    <3>1. value # 1
      BY <1>7
    <3>2. <<c, r>> \in LitPixels(new)
               <=> IF <<c, r>> \in stroke THEN value = 1 ELSE <<c, r>> \in LitPixels(old)
      BY <1>5
    <3> QED
      BY <3>1, <3>2
  <2> HIDE DEF Y
  <2>3. LitPixels(new) = Y
    BY <2>1, <2>2, SamePixels
  <2> QED
    BY <2>3 DEF Y
<1> QED
  BY <1>3, <1>6, <1>7 DEF new

(* A blank buffer is a dark screen.                                        *)
LEMMA BlankIs == BlankBuffer \in Buffer /\ LitPixels(BlankBuffer) = {}
<1>1. BlankBuffer \in Buffer
  BY BytesAreNumbers DEF BlankBuffer, Buffer
<1>2. ASSUME NEW c \in ColumnSet, NEW r \in RowSet
      PROVE  <<c, r>> \notin LitPixels(BlankBuffer)
  <2> DEFINE p == r \div PageRows
             i == r % PageRows
  <2>1. p \in PageSet /\ i \in Places /\ i \in Nat
    BY RowIs, Sizes DEF Places
  <2>2. <<c, r>> \in LitPixels(BlankBuffer) <=> BitOf(BlankBuffer[p][c], i) = 1
    BY LitIs
  <2> HIDE DEF p, i
  <2>3. BlankBuffer[p][c] = 0
    BY <2>1 DEF BlankBuffer
  <2> QED
    BY <2>1, <2>2, <2>3, ZeroBits
<1>3. LitPixels(BlankBuffer) \subseteq Screen
  BY LitOnScreen
<1>4. ASSUME NEW p \in LitPixels(BlankBuffer) PROVE FALSE
  <2>1. p[1] \in ColumnSet /\ p[2] \in RowSet /\ p = <<p[1], p[2]>>
    BY <1>3 DEF Screen
  <2> QED
    BY <1>2, <2>1
<1> QED
  BY <1>1, <1>4

(* A page of the buffer on the panel is its pixels in the picture.         *)
LEMMA SentIs ==
    ASSUME NEW shown \in Buffer, NEW buffer \in Buffer, NEW pg \in PageSet
    PROVE  LET new == [shown EXCEPT ![pg] = buffer[pg]] IN
           /\ new \in Buffer
           /\ LitPixels(new) = (LitPixels(shown) \ Pic!Page(pg))
                                  \cup (LitPixels(buffer) \cap Pic!Page(pg))
<1> DEFINE new == [shown EXCEPT ![pg] = buffer[pg]]
           Y == (LitPixels(shown) \ Pic!Page(pg)) \cup (LitPixels(buffer) \cap Pic!Page(pg))
<1>1. new \in Buffer /\ \A p \in PageSet : new[p] = IF p = pg THEN buffer[p] ELSE shown[p]
  BY DEF Buffer
<1> HIDE DEF new
<1>2. ASSUME NEW c \in ColumnSet, NEW r \in RowSet
      PROVE  <<c, r>> \in LitPixels(new) <=> <<c, r>> \in Y
  <2> DEFINE p == r \div PageRows
             i == r % PageRows
  <2>1. p \in PageSet
    BY RowIs
  <2>2. /\ <<c, r>> \in LitPixels(new) <=> BitOf(new[p][c], i) = 1
        /\ <<c, r>> \in LitPixels(shown) <=> BitOf(shown[p][c], i) = 1
        /\ <<c, r>> \in LitPixels(buffer) <=> BitOf(buffer[p][c], i) = 1
    BY LitIs
  <2>3. <<c, r>> \in Pic!Page(pg) <=> p = pg
    BY DEF Pic!Page, Pic!Columns, Pic!Rows, ColumnSet, RowSet
  <2> HIDE DEF p, i
  <2> QED
    BY <1>1, <2>1, <2>2, <2>3
<1>3. Y \subseteq Screen /\ LitPixels(new) \subseteq Screen
  BY LitOnScreen
<1> HIDE DEF Y
<1>4. LitPixels(new) = Y
  BY <1>2, <1>3, SamePixels
<1> QED
  BY <1>1, <1>4 DEF new, Y

-----------------------------------------------------------------------------
(* The display implements the picture                                      *)

(* The buffer, the dirty bits and the panel keep their types: no byte of a *)
(* drawing leaves its eight bits, no mark its pages.                       *)
THEOREM DisplayTypeCorrect == DisplaySpec => []DisplayTypeOK
<1>1. DisplayInit => DisplayTypeOK
  BY BlankIs, Sizes, PanelAssumption, PowerUpAssumption DEF DisplayInit, DisplayTypeOK
<1>2. DisplayTypeOK /\ [DisplayNext]_displayVars => DisplayTypeOK'
  <2> SUFFICES ASSUME DisplayTypeOK, [DisplayNext]_displayVars PROVE DisplayTypeOK'
    OBVIOUS
  <2>0. /\ display_buffer \in Buffer /\ dirty \subseteq PageSet /\ panel \in Buffer
        /\ refresh \in -1..Pages /\ draws \in -1..MaxDraws /\ MaxDraws \in Nat
    BY PanelAssumption DEF DisplayTypeOK
  <2>1. CASE Putc
    <3> PICK x \in 0..Width, y \in 0..Height, glyph \in Font :
            Draw(x, y, glyph) \/ Draw(x, y, Inverted(glyph))
      BY <2>1 DEF Putc
    <3>1. glyph \in Character /\ Inverted(glyph) \in Character
      BY FontAssumption, InvertedPixels DEF Character
    <3>2. display_buffer' \in Buffer /\ dirty' \subseteq PageSet
      BY <2>0, <3>1, DrawIs
    <3> QED
      BY <2>0, <2>1, <3>2 DEF Putc, CanDraw, Drew, DisplayTypeOK
  <2>2. CASE DrawLine
    <3> PICK x1, x2 \in ColumnSet, y1, y2 \in RowSet, value \in {0, 1} :
          /\ display_buffer' = LinePainted(x1, x2, y1, y2, value)
          /\ dirty' = dirty \cup {y \div PageRows : y \in y1..y2}
      BY <2>2, LinePaints
    <3>1. display_buffer' \in Buffer
      BY <2>0, LineIs
    <3>2. dirty' \subseteq PageSet
      <4>1. y1..y2 \subseteq RowSet
        BY Sizes DEF RowSet
      <4> QED
        BY <2>0, <4>1, RowIs
    <3> QED
      BY <2>0, <2>2, <3>1, <3>2 DEF DrawLine, CanDraw, Drew, DisplayTypeOK
  <2>3. CASE Clear
    BY <2>0, <2>3, BlankIs, Sizes DEF Clear, DisplayTypeOK
  <2>4. CASE Refresh
    BY <2>0, <2>4, Sizes DEF Refresh, DisplayTypeOK
  <2>5. CASE SendPage
    <3>1. refresh \in PageSet /\ refresh' \in -1..Pages
      BY <2>5, Sizes DEF SendPage, PageSet
    <3>2. panel' \in Buffer
      BY <2>0, <2>5, <3>1, SentIs DEF SendPage
    <3> QED
      BY <2>0, <2>5, <3>1, <3>2 DEF SendPage, DisplayTypeOK
  <2>6. CASE ResetDirty
    BY <2>0, <2>6, Sizes DEF ResetDirty, DisplayTypeOK
  <2>7. CASE UNCHANGED displayVars
    BY <2>7, <2>0 DEF displayVars, DisplayTypeOK
  <2> QED
    BY <2>1, <2>2, <2>3, <2>4, <2>5, <2>6, <2>7 DEF DisplayNext, Drawing
<1> QED
  BY <1>1, <1>2, PTL DEF DisplaySpec

(* The bytes, the split of a character over two pages and the dirty bits   *)
(* are only a way to keep a picture: every step of the display draws what  *)
(* was asked for and nothing else, erases the picture, shows the picture's *)
(* pixels of one page, or changes no pixel.                                *)
THEOREM PictureIsImplemented == DisplaySpec => ImplementsPicture
<1>1. DisplayInit => Pic!Init
  <2> SUFFICES ASSUME DisplayInit PROVE Pic!Init
    OBVIOUS
  <2>1. LitPixels(display_buffer) = {}
    BY BlankIs DEF DisplayInit
  <2>2. LitPixels(panel) \in SUBSET (Pic!Columns \X Pic!Rows)
    BY LitOnScreen DEF Screen, ColumnSet, RowSet, Pic!Columns, Pic!Rows
  <2> QED
    BY <2>1, <2>2 DEF Pic!Init
<1>2. DisplayTypeOK /\ [DisplayNext]_displayVars => [Pic!Next]_(Pic!vars)
  <2> SUFFICES ASSUME DisplayTypeOK, [DisplayNext]_displayVars
               PROVE  [Pic!Next]_(Pic!vars)
    OBVIOUS
  <2>0. display_buffer \in Buffer /\ dirty \subseteq PageSet /\ panel \in Buffer
    BY DEF DisplayTypeOK
  <2> DEFINE d == LitPixels(display_buffer)
             v == LitPixels(panel)
  <2>1. display_buffer' = display_buffer => d' = d
    BY DEF LitPixels
  <2>2. panel' = panel => v' = v
    BY DEF LitPixels
  <2>3. d' = d /\ v' = v => UNCHANGED Pic!vars
    BY DEF Pic!vars
  <2>4. d' = LitPixels(display_buffer') /\ v' = LitPixels(panel')
    BY DEF LitPixels
  <2>5. CASE Putc
    <3> PICK x \in 0..Width, y \in 0..Height, glyph \in Font :
            Draw(x, y, glyph) \/ Draw(x, y, Inverted(glyph))
      BY <2>5 DEF Putc
    <3>1. v' = v
      BY <2>2, <2>5 DEF Putc, Drew
    <3>2. /\ glyph \in Character /\ Inverted(glyph) \in Character
          /\ GlyphPixels(Inverted(glyph)) = CellPixels \ GlyphPixels(glyph)
      BY FontAssumption, InvertedPixels DEF Character
    <3>3. PICK G \in {GlyphPixels(g) : g \in Font} \cup {CellPixels \ GlyphPixels(g) : g \in Font} :
            \/ display_buffer' = display_buffer
            \/ /\ x \in 0..(Width - Cell) /\ y \in 0..(Height - PageRows)
               /\ d' = (d \ Pic!At(x, y, Pic!WholeCell)) \cup Pic!At(x, y, G)
      <4>1. CASE Draw(x, y, glyph)
        BY <2>0, <3>2, <4>1, DrawIs
      <4>2. CASE Draw(x, y, Inverted(glyph))
        BY <2>0, <3>2, <4>2, DrawIs
      <4> QED
        BY <4>1, <4>2
    <3> HIDE DEF d, v
    <3>4. d' = d \/ Pic!DrawGlyph
      BY <2>1, <3>1, <3>3 DEF Pic!DrawGlyph, d, v
    <3> QED
      BY <2>3, <3>1, <3>4 DEF Pic!Next
  <2>6. CASE DrawLine
    <3> PICK x1, x2 \in ColumnSet, y1, y2 \in RowSet, value \in {0, 1} :
          /\ x1 = x2 \/ y1 = y2
          /\ display_buffer' = LinePainted(x1, x2, y1, y2, value)
      BY <2>6, LinePaints
    <3>1. v' = v
      BY <2>2, <2>6 DEF DrawLine, Drew
    <3> DEFINE stroke == (x1..x2) \X (y1..y2)
    <3>2. d' = d \cup stroke \/ d' = d \ stroke
      BY <2>0, <2>4, LineIs
    <3>3. x1 \in Pic!Columns /\ x2 \in Pic!Columns /\ y1 \in Pic!Rows /\ y2 \in Pic!Rows
      BY DEF Pic!Columns, Pic!Rows, ColumnSet, RowSet
    <3>4. Pic!DrawLine
      BY <3>1, <3>2, <3>3 DEF Pic!DrawLine
    <3> QED
      BY <3>4 DEF Pic!Next
  <2>7. CASE Clear
    <3>1. d' = {} /\ v' = v
      BY <2>2, <2>4, <2>7, BlankIs DEF Clear
    <3> QED
      BY <3>1 DEF Pic!Erase, Pic!Next
  <2>8. CASE Refresh
    BY <2>1, <2>2, <2>3, <2>8 DEF Refresh
  <2>9. CASE SendPage
    <3>1. d' = d /\ refresh \in PageSet
      BY <2>1, <2>9 DEF SendPage
    <3>2. CASE refresh \in dirty
      <4>1. panel' = [panel EXCEPT ![refresh] = display_buffer[refresh]]
        BY <2>9, <3>2 DEF SendPage
      <4>2. v' = (v \ Pic!Page(refresh)) \cup (d \cap Pic!Page(refresh))
        BY <2>0, <2>4, <3>1, <4>1, SentIs
      <4>3. refresh \in 0..(Height \div PageRows - 1)
        <5>1. (PageRows * Pages + 0) \div PageRows = Pages
          BY Sizes, Quotient
        <5>2. PageRows * Pages + 0 = Height
          BY Sizes DEF Height
        <5> QED
          BY <3>1, <5>1, <5>2 DEF PageSet
      <4>4. Pic!Show
        BY <3>1, <4>2, <4>3 DEF Pic!Show
      <4> QED
        BY <4>4 DEF Pic!Next
    <3>3. CASE refresh \notin dirty
      BY <2>2, <2>3, <2>9, <3>1, <3>3 DEF SendPage
    <3> QED
      BY <3>2, <3>3
  <2>10. CASE ResetDirty
    BY <2>1, <2>2, <2>3, <2>10 DEF ResetDirty
  <2>11. CASE UNCHANGED displayVars
    BY <2>1, <2>2, <2>3, <2>11 DEF displayVars
  <2> QED
    BY <2>5, <2>6, <2>7, <2>8, <2>9, <2>10, <2>11 DEF DisplayNext, Drawing
<1> QED
  BY <1>1, <1>2, DisplayTypeCorrect, PTL DEF DisplaySpec, ImplementsPicture, Pic!Spec

-----------------------------------------------------------------------------
(* The display buffer: no page left out of a refresh needs one.  What is   *)
(* drawn plays no part in it, so no bit arithmetic is expanded.            *)

(* Nothing is refreshed before display_init; then what the dirty bits      *)
(* leave out is shown, and so is what the loop of display_buffer_display   *)
(* has passed.                                                             *)
DisplayInv ==
    /\ draws = -1 => refresh = -1
    /\ UnmarkedIsShown
    /\ RefreshProgress

(* Drawing a character touches no page it does not mark (display_putc).    *)
LEMMA DrawMarks ==
    ASSUME NEW x, NEW y, NEW glyph, display_buffer \in Buffer, Draw(x, y, glyph)
    PROVE  /\ dirty \subseteq dirty'
           /\ \A pg \in PageSet \ dirty' : display_buffer'[pg] = display_buffer[pg]
<1>0. DOMAIN display_buffer = PageSet
  BY DEF Buffer
<1> DEFINE at == y \div PageRows
<1>1. CASE x > Width - Cell \/ y > Height - PageRows
  BY <1>1 DEF Draw
<1>2. CASE PutAligned(x, at, glyph)
  BY <1>0, <1>2 DEF PutAligned, Overwrite
<1>3. CASE PutAcross(x, at, y % PageRows, glyph)
  <2> HIDE DEF at
  <2> QED
    BY <1>0, <1>3 DEF PutAcross, Overwrite
<1> QED
  BY <1>1, <1>2, <1>3 DEF Draw

(* The refresh never relies on a page it did not send: the invariant that  *)
(* ties buffer, dirty bits and panel is kept by every step.                *)
THEOREM DisplayInvHolds == DisplaySpec => []DisplayInv
<1>1. DisplayInit => DisplayInv
  BY Sizes DEF DisplayInit, DisplayInv, UnmarkedIsShown, RefreshProgress, PageSet
<1>2. DisplayTypeOK /\ DisplayTypeOK' /\ DisplayInv /\ [DisplayNext]_displayVars => DisplayInv'
  <2> SUFFICES ASSUME DisplayTypeOK, DisplayTypeOK', DisplayInv, [DisplayNext]_displayVars
               PROVE  DisplayInv'
    OBVIOUS
  <2>0. /\ display_buffer \in Buffer /\ panel \in Buffer /\ dirty \subseteq PageSet
        /\ refresh \in -1..Pages /\ draws \in -1..MaxDraws /\ draws' \in -1..MaxDraws
        /\ MaxDraws \in Nat
    BY PanelAssumption DEF DisplayTypeOK
  <2> DEFINE drew == /\ refresh = -1 /\ draws \in 0..(MaxDraws - 1) /\ draws' = draws + 1
                     /\ panel' = panel /\ refresh' = refresh
             marks == /\ dirty \subseteq dirty'
                      /\ \A pg \in PageSet \ dirty' : display_buffer'[pg] = display_buffer[pg]
  <2>1. ASSUME drew, marks PROVE DisplayInv'
    <3>1. UnmarkedIsShown'
      BY <2>0, <2>1 DEF DisplayInv, UnmarkedIsShown
    <3>2. RefreshProgress'
      BY <2>1, Sizes DEF RefreshProgress, PageSet
    <3> QED
      BY <2>0, <2>1, <3>1, <3>2 DEF DisplayInv
  <2>2. CASE Putc
    <3> PICK x \in 0..Width, y \in 0..Height, glyph \in Font :
            Draw(x, y, glyph) \/ Draw(x, y, Inverted(glyph))
      BY <2>2 DEF Putc
    <3>1. marks
      BY <2>0, DrawMarks
    <3>2. drew
      BY <2>2 DEF Putc, CanDraw, Drew
    <3> QED
      BY <2>1, <3>1, <3>2
  <2>3. CASE DrawLine
    <3> PICK x1, x2 \in ColumnSet, y1, y2 \in RowSet, value \in {0, 1} :
          /\ display_buffer' = LinePainted(x1, x2, y1, y2, value)
          /\ dirty' = dirty \cup {y \div PageRows : y \in y1..y2}
      BY <2>3, LinePaints
    <3>1. marks
      BY DEF LinePainted
    <3>2. drew
      BY <2>3 DEF DrawLine, CanDraw, Drew
    <3> QED
      BY <2>1, <3>1, <3>2
  <2>4. CASE Clear
    BY <2>0, <2>4, Sizes DEF Clear, DisplayInv, UnmarkedIsShown, RefreshProgress, PageSet
  <2>5. CASE Refresh
    BY <2>0, <2>5, Sizes DEF Refresh, DisplayInv, UnmarkedIsShown, RefreshProgress, PageSet
  <2>6. CASE SendPage
    <3>1. /\ refresh \in PageSet /\ refresh' = refresh + 1
          /\ display_buffer' = display_buffer /\ dirty' = dirty /\ draws' = draws
      BY <2>6 DEF SendPage
    <3>2. \A pg \in PageSet : panel'[pg] = IF pg = refresh /\ refresh \in dirty
                                          THEN display_buffer[pg] ELSE panel[pg]
      BY <2>0, <2>6 DEF SendPage, Buffer
    <3>3. draws >= 0 /\ refresh \in Nat
      BY <2>0, <3>1 DEF DisplayInv, PageSet
    <3>4. UnmarkedIsShown'
      BY <3>1, <3>2 DEF DisplayInv, UnmarkedIsShown
    <3>5. refresh \notin dirty => panel[refresh] = display_buffer[refresh]
      BY <3>1, <3>3 DEF DisplayInv, UnmarkedIsShown
    <3>6. ASSUME NEW pg \in PageSet, pg < refresh + 1
          PROVE  panel'[pg] = display_buffer[pg]
      <4>1. pg \in Nat
        BY DEF PageSet
      <4>2. pg < refresh \/ pg = refresh
        BY <3>3, <3>6, <4>1
      <4>3. pg < refresh => panel[pg] = display_buffer[pg]
        BY DEF DisplayInv, RefreshProgress
      <4> QED
        BY <3>2, <3>5, <4>2, <4>3
    <3>7. RefreshProgress'
      BY <3>1, <3>6 DEF RefreshProgress
    <3>8. (draws = -1 => refresh = -1)'
      BY <2>0, <3>1, <3>3
    <3> QED
      BY <3>4, <3>7, <3>8 DEF DisplayInv
  <2>7. CASE ResetDirty
    <3>1. /\ refresh = Pages /\ dirty' = {} /\ refresh' = -1
          /\ display_buffer' = display_buffer /\ panel' = panel /\ draws' = draws
      BY <2>7 DEF ResetDirty
    <3>2. \A pg \in PageSet : panel[pg] = display_buffer[pg]
      <4>1. \A pg \in PageSet : pg < refresh
        BY <3>1, Sizes DEF PageSet
      <4> QED
        BY <4>1 DEF DisplayInv, RefreshProgress
    <3> QED
      BY <3>1, <3>2 DEF DisplayInv, UnmarkedIsShown, RefreshProgress
  <2>8. CASE UNCHANGED displayVars
    BY <2>8 DEF displayVars, DisplayInv, UnmarkedIsShown, RefreshProgress
  <2> QED
    BY <2>2, <2>3, <2>4, <2>5, <2>6, <2>7, <2>8 DEF DisplayNext, Drawing
<1> QED
  BY <1>1, <1>2, DisplayTypeCorrect, PTL DEF DisplaySpec

(* After display_init no page of the panel is out of date unless its dirty *)
(* bit is set.                                                             *)
THEOREM UnmarkedPagesAreShown == DisplaySpec => []UnmarkedIsShown
<1>1. DisplayInv => UnmarkedIsShown
  BY DEF DisplayInv
<1> QED
  BY <1>1, DisplayInvHolds, PTL

(* Behind the loop of display_buffer_display every page is up to date,     *)
(* the ones it skipped included.                                           *)
THEOREM RefreshLeavesNoGap == DisplaySpec => []RefreshProgress
<1>1. DisplayInv => RefreshProgress
  BY DEF DisplayInv
<1> QED
  BY <1>1, DisplayInvHolds, PTL

-----------------------------------------------------------------------------
(* The buttons: a press is reported once at most.                          *)

USE TimeAssumption, ContactAssumption

(* A contact that rests is read as it is, one that bounces in any way.     *)
LEMMA SampleOfFinger ==
    ASSUME ButtonsTypeOK, NEW b \in Button, NEW down \in Samples(b)
    PROVE  down \in BOOLEAN /\ (since[b] < Bounce \/ down = finger[b])
<1>1. finger[b] \in BOOLEAN
  BY DEF ButtonsTypeOK
<1> QED
  BY <1>1 DEF Samples

-----------------------------------------------------------------------------
(* The user moves                                                          *)

(* What a tick does to one button.                                         *)
LEMMA TickOfButton ==
    ASSUME ButtonsTypeOK, Tick, NEW b \in Button
    PROVE  /\ finger'[b] \in BOOLEAN /\ since'[b] \in 0..Hold /\ seen'[b] \in 0..2
           /\ \/ /\ finger'[b] = finger[b] /\ seen'[b] = seen[b]
                 /\ since'[b] = IF since[b] < Hold THEN since[b] + 1 ELSE Hold
              \/ /\ finger[b] /\ ~finger'[b] /\ seen'[b] = seen[b]
                 /\ since[b] = Hold /\ since'[b] = 0
              \/ /\ ~finger[b] /\ finger'[b] /\ seen'[b] = 0
                 /\ since[b] = Hold /\ since'[b] = 0
<1>1. PICK moved \in SUBSET {c \in Button : since[c] = Hold} :
        /\ finger' = [c \in Button |-> IF c \in moved THEN ~finger[c] ELSE finger[c]]
        /\ since' = [c \in Button |-> IF c \in moved THEN 0
                                      ELSE IF since[c] < Hold THEN since[c] + 1 ELSE Hold]
        /\ seen' = [c \in Button |-> IF c \in moved /\ ~finger[c] THEN 0 ELSE seen[c]]
  BY DEF Tick
<1>2. /\ finger[b] \in BOOLEAN /\ since[b] \in 0..Hold /\ seen[b] \in 0..2
      /\ Hold \in Nat \ {0}
  BY DEF ButtonsTypeOK
<1>3. CASE b \in moved
  <2>1. finger'[b] = ~finger[b] /\ since'[b] = 0 /\ since[b] = Hold
    BY <1>1, <1>3
  <2>2. seen'[b] = IF ~finger[b] THEN 0 ELSE seen[b]
    BY <1>1, <1>3
  <2>3. CASE finger[b]
    <3>1. ~finger'[b] /\ finger'[b] \in BOOLEAN
      BY <2>1, <2>3
    <3>2. seen'[b] = seen[b]
      BY <2>2, <2>3
    <3>3. since'[b] \in 0..Hold /\ seen'[b] \in 0..2
      BY <1>2, <2>1, <3>2
    <3> QED
      BY <2>1, <2>3, <3>1, <3>2, <3>3
  <2>4. CASE ~finger[b]
    <3>1. finger'[b] /\ finger'[b] \in BOOLEAN
      BY <1>2, <2>1, <2>4
    <3>2. seen'[b] = 0
      BY <2>2, <2>4
    <3>3. since'[b] \in 0..Hold /\ seen'[b] \in 0..2
      BY <1>2, <2>1, <3>2
    <3> QED
      BY <2>1, <2>4, <3>1, <3>2, <3>3
  <2> QED
    BY <2>3, <2>4
<1>4. CASE b \notin moved
  <2>1. finger'[b] = finger[b] /\ seen'[b] = seen[b]
    BY <1>1, <1>4
  <2>2. since'[b] = IF since[b] < Hold THEN since[b] + 1 ELSE Hold
    BY <1>1, <1>4
  <2> QED
    BY <1>2, <2>1, <2>2
<1> QED
  BY <1>3, <1>4

(* Fingers that move during a delay break nothing.                         *)
LEMMA TickKeepsInv == ASSUME ButtonsInv, Tick PROVE ButtonsInv'
<1>0. ButtonsTypeOK /\ ReportedOnce /\ HeldIsSeen /\ SampleIsSteady
  BY DEF ButtonsInv
<1>1. ButtonsTypeOK'
  <2>1. /\ finger' = [b \in Button |-> finger'[b]] /\ since' = [b \in Button |-> since'[b]]
        /\ seen' = [b \in Button |-> seen'[b]]
    BY DEF Tick
  <2>2. finger' \in [Button -> BOOLEAN] /\ since' \in [Button -> 0..Hold]
        /\ seen' \in [Button -> 0..2]
    BY <1>0, <2>1, TickOfButton
  <2>3. alone' \in [Button -> BOOLEAN]
    <3>1. alone \in [Button -> BOOLEAN] /\ finger \in [Button -> BOOLEAN]
      BY <1>0 DEF ButtonsTypeOK
    <3> QED
      BY <3>1 DEF Tick
  <2>4. timer' \in 0..(Debounce + Busy + 1)
    BY <1>0 DEF Tick, ButtonsTypeOK
  <2>5. /\ loop' \in {"wait", "handle", "release"} /\ button' \in Button
        /\ stage' \in {"first", "second", "rest"}
        /\ timed' \in BOOLEAN /\ elapsed' \in 0..Timeout
    BY <1>0 DEF Tick, ButtonsTypeOK, code
  <2> QED
    BY <2>2, <2>3, <2>4, <2>5 DEF ButtonsTypeOK
<1>2. ReportedOnce'
  BY <1>0, TickOfButton DEF ReportedOnce
<1>3. HeldIsSeen'
  <2>0. loop' = loop /\ button' = button
    BY DEF Tick, code
  <2>1. ASSUME NEW b \in Button, seen'[b] = 1, finger'[b]
        PROVE  loop' # "wait" /\ since'[b] >= Bounce
    <3>1. seen[b] = 1 /\ finger[b] /\ since'[b] >= since[b] /\ since[b] \in 0..Hold
      BY <1>0, <2>1, TickOfButton DEF ButtonsTypeOK
    <3>2. loop # "wait" /\ since[b] >= Bounce /\ since'[b] \in 0..Hold
      BY <1>0, <3>1, TickOfButton DEF HeldIsSeen
    <3> QED
      BY <2>0, <3>1, <3>2
  <2>2. ASSUME loop' = "release", button' = "RIGHT", seen'["LEFT"] = 1
        PROVE  ~finger'["LEFT"]
    <3>1. "LEFT" \in Button
      BY DEF Button
    <3>2. seen["LEFT"] = 1 => ~finger["LEFT"]
      BY <1>0, <2>0, <2>2 DEF HeldIsSeen
    <3> QED
      BY <1>0, <2>2, <3>1, <3>2, TickOfButton
  <2> QED
    BY <2>1, <2>2 DEF HeldIsSeen
<1>4. SampleIsSteady'
  <2> SUFFICES ASSUME stage = "second", loop # "handle"
               PROVE  /\ timer' <= Debounce
                      /\ finger'[button] => since'[button] = Hold
                                            \/ since'[button] + timer' >= Debounce
                      /\ ~finger'[button] => since'[button] + timer' < Debounce + Bounce
                      /\ loop = "wait" /\ ~finger'[button]
                            /\ since'[button] + timer' < Debounce => seen'[button] # 1
    BY DEF Tick, code, SampleIsSteady
  <2>1. /\ timer \in Nat /\ timer > 0 /\ timer' = timer - 1 /\ timer <= Debounce
        /\ button \in Button /\ since[button] \in 0..Hold
    BY <1>0 DEF Tick, ButtonsTypeOK, SampleIsSteady
  <2>2. /\ finger[button] => since[button] = Hold \/ since[button] + timer >= Debounce
        /\ ~finger[button] => since[button] + timer < Debounce + Bounce
        /\ loop = "wait" /\ ~finger[button] /\ since[button] + timer < Debounce
              => seen[button] # 1
    BY <1>0 DEF SampleIsSteady
  <2>3. loop = "wait" /\ finger[button] => seen[button] # 1
    BY <1>0, <2>1 DEF HeldIsSeen
  <2>4. \/ /\ finger'[button] = finger[button] /\ seen'[button] = seen[button]
           /\ since'[button] = IF since[button] < Hold THEN since[button] + 1 ELSE Hold
        \/ /\ finger[button] /\ ~finger'[button] /\ seen'[button] = seen[button]
           /\ since[button] = Hold /\ since'[button] = 0
        \/ /\ ~finger[button] /\ finger'[button] /\ seen'[button] = 0
           /\ since[button] = Hold /\ since'[button] = 0
    BY <1>0, <2>1, TickOfButton
  <2>5. CASE /\ finger'[button] = finger[button] /\ seen'[button] = seen[button]
             /\ since'[button] = IF since[button] < Hold THEN since[button] + 1 ELSE Hold
    BY <2>1, <2>2, <2>5
  <2>6. CASE /\ finger[button] /\ ~finger'[button] /\ seen'[button] = seen[button]
             /\ since[button] = Hold /\ since'[button] = 0
    BY <2>1, <2>2, <2>3, <2>6
  <2>7. CASE /\ ~finger[button] /\ finger'[button] /\ seen'[button] = 0
             /\ since[button] = Hold /\ since'[button] = 0
    BY <2>1, <2>2, <2>7
  <2> QED
    BY <2>4, <2>5, <2>6, <2>7
<1> QED
  BY <1>1, <1>2, <1>3, <1>4 DEF ButtonsInv

-----------------------------------------------------------------------------
(* The loops                                                               *)

(* An answer the loops can get: a reported press that goes on reads down,  *)
(* and in a wait no press that was reported reads down twice.              *)
LEMMA AnswerKeepsInv ==
    ASSUME ButtonsInv, NEW pressed \in BOOLEAN, Answer(pressed), UNCHANGED user,
           pressed => stage = "second",
           loop = "wait" /\ pressed =>
               /\ seen[button] # 1
               /\ finger[button] => since[button] >= Bounce,
           loop = "release" /\ ~pressed => ~(seen[button] = 1 /\ finger[button])
    PROVE  ButtonsInv'
<1>0. /\ ButtonsTypeOK /\ ReportedOnce /\ HeldIsSeen
      /\ finger' = finger /\ since' = since /\ alone' = alone
  BY DEF ButtonsInv, user
<1>1. CASE loop = "wait" /\ pressed
  <2>1. /\ loop' = "handle" /\ timer' \in 0..Busy
        /\ button' = button /\ stage' = stage /\ timed' = timed /\ elapsed' = elapsed
        /\ seen' = [seen EXCEPT ![button] = IF seen[button] < 2 THEN seen[button] + 1 ELSE 2]
    BY <1>1 DEF Answer
  <2>2. seen[button] = 0 /\ button \in Button /\ seen \in [Button -> 0..2]
    BY <1>0, <1>1 DEF ButtonsTypeOK, ReportedOnce
  <2>3. /\ seen' \in [Button -> 0..2] /\ seen'[button] = 1
        /\ \A b \in Button : b # button => seen'[b] = seen[b]
    BY <2>1, <2>2
  <2>4. ButtonsTypeOK'
    BY <1>0, <2>1, <2>3 DEF ButtonsTypeOK
  <2>5. ReportedOnce'
    BY <1>0, <2>3 DEF ReportedOnce
  <2>6. \A b \in Button : seen'[b] = 1 /\ finger[b] => since[b] >= Bounce
    BY <1>0, <1>1, <2>3 DEF HeldIsSeen
  <2> QED
    BY <1>0, <2>1, <2>4, <2>5, <2>6 DEF ButtonsInv, HeldIsSeen, SampleIsSteady
<1>2. CASE ~pressed /\ button = "LEFT" /\ TryRight
  <2>1. /\ button' = "RIGHT" /\ stage' = "first" /\ loop' = loop /\ timed' = timed
        /\ elapsed' = elapsed /\ seen' = seen /\ timer' = timer
    BY <1>2 DEF TryRight
  <2>2. loop = "release" /\ seen["LEFT"] = 1 => ~finger["LEFT"]
    BY <1>2
  <2> QED
    BY <1>0, <2>1, <2>2
       DEF ButtonsInv, ButtonsTypeOK, ReportedOnce, HeldIsSeen, SampleIsSteady, Button
<1>3. CASE RestThen
  <2>1. /\ stage' = "rest" /\ timer' = 1 /\ loop' = loop /\ button' = button
        /\ timed' = timed /\ elapsed' = elapsed /\ seen' = seen
    BY <1>3 DEF RestThen
  <2> QED
    BY <1>0, <2>1 DEF ButtonsInv, ButtonsTypeOK, ReportedOnce, HeldIsSeen, SampleIsSteady
<1>4. CASE loop = "release" /\ ~pressed /\ button # "LEFT" /\ NextWait /\ UNCHANGED <<seen, timer>>
  <2>1. /\ loop' = "wait" /\ button' = "LEFT" /\ stage' = "first" /\ elapsed' = 0
        /\ timed' \in BOOLEAN /\ seen' = seen /\ timer' = timer
    BY <1>4 DEF NextWait
  <2>2. button = "RIGHT" /\ Button = {"LEFT", "RIGHT"}
    BY <1>0, <1>4 DEF ButtonsTypeOK, Button
  <2>3. \A b \in Button : ~(seen[b] = 1 /\ finger[b])
    BY <1>0, <1>4, <2>2 DEF HeldIsSeen
  <2> QED
    BY <1>0, <2>1, <2>2, <2>3
       DEF ButtonsInv, ButtonsTypeOK, ReportedOnce, HeldIsSeen, SampleIsSteady
<1> QED
  BY <1>1, <1>2, <1>3, <1>4 DEF Answer

(* The first sample starts a delay or says that the button is up.          *)
LEMMA FirstSampleKeepsInv == ASSUME ButtonsInv, FirstSample PROVE ButtonsInv'
<1>0. /\ ButtonsTypeOK /\ ReportedOnce /\ HeldIsSeen /\ button \in Button
      /\ stage = "first" /\ timer = 0 /\ loop # "handle" /\ UNCHANGED user
  BY DEF ButtonsInv, ButtonsTypeOK, FirstSample
<1>1. PICK down \in Samples(button) :
        IF down THEN /\ stage' = "second" /\ timer' = Debounce
                     /\ UNCHANGED <<loop, button, timed, elapsed, seen>>
        ELSE Answer(FALSE)
  BY DEF FirstSample
<1>2. down \in BOOLEAN /\ (since[button] < Bounce \/ down = finger[button])
  BY <1>0, SampleOfFinger
<1>3. CASE down
  <2>1. /\ stage' = "second" /\ timer' = Debounce /\ loop' = loop /\ button' = button
        /\ timed' = timed /\ elapsed' = elapsed /\ seen' = seen
        /\ finger' = finger /\ since' = since /\ alone' = alone
    BY <1>0, <1>1, <1>3 DEF user
  <2>2. since[button] \in 0..Hold
    BY <1>0 DEF ButtonsTypeOK
  <2>3. ~finger[button] => since[button] < Bounce
    BY <1>2, <1>3
  <2>4. SampleIsSteady'
    BY <2>1, <2>2, <2>3 DEF SampleIsSteady
  <2>5. ButtonsTypeOK' /\ ReportedOnce' /\ HeldIsSeen'
    BY <1>0, <2>1 DEF ButtonsTypeOK, ReportedOnce, HeldIsSeen
  <2> QED
    BY <2>4, <2>5 DEF ButtonsInv
<1>4. CASE ~down
  <2>1. Answer(FALSE)
    BY <1>1, <1>4
  <2>2. ~(seen[button] = 1 /\ finger[button])
    <3>1. seen[button] = 1 /\ finger[button] => since[button] >= Bounce
      BY <1>0 DEF HeldIsSeen
    <3>2. since[button] \in 0..Hold
      BY <1>0 DEF ButtonsTypeOK
    <3> QED
      BY <1>2, <1>4, <3>1, <3>2
  <2> QED
    BY <1>0, <2>1, <2>2, AnswerKeepsInv
<1> QED
  BY <1>2, <1>3, <1>4

(* The second sample: after the delay a press that holds has a contact at  *)
(* rest, and one that ended bounces only if it was not reported yet.       *)
LEMMA SecondSampleKeepsInv == ASSUME ButtonsInv, SecondSample PROVE ButtonsInv'
<1>0. /\ ButtonsTypeOK /\ ReportedOnce /\ HeldIsSeen /\ SampleIsSteady /\ button \in Button
      /\ stage = "second" /\ timer = 0 /\ loop # "handle" /\ UNCHANGED user
      /\ since[button] \in 0..Hold
  BY DEF ButtonsInv, ButtonsTypeOK, SecondSample
<1>1. PICK down \in Samples(button) : Answer(down)
  BY DEF SecondSample
<1>2. down \in BOOLEAN /\ (since[button] < Bounce \/ down = finger[button])
  BY <1>0, SampleOfFinger
<1>3. /\ finger[button] => since[button] >= Bounce
      /\ loop = "wait" /\ ~finger[button] /\ since[button] < Debounce => seen[button] # 1
  BY <1>0 DEF SampleIsSteady
<1>4. loop = "wait" /\ finger[button] => seen[button] # 1
  BY <1>0 DEF HeldIsSeen
<1>5. loop = "wait" /\ down => seen[button] # 1
  <2>1. since[button] < Bounce => since[button] < Debounce
    BY <1>0
  <2>2. CASE finger[button]
    BY <1>4, <2>2
  <2>3. CASE ~finger[button]
    <3>1. down => since[button] < Bounce
      BY <1>2, <2>3, Zenon
    <3> QED
      BY <1>3, <2>1, <2>3, <3>1
  <2> QED
    BY <2>2, <2>3
<1>6. ~down => ~(seen[button] = 1 /\ finger[button])
  BY <1>0, <1>2, <1>3
<1> QED
  BY <1>0, <1>1, <1>2, <1>3, <1>5, <1>6, AnswerKeepsInv

(* The loop that waits for the release begins with every reported press    *)
(* still known to it.                                                      *)
LEMMA HandleKeepsInv == ASSUME ButtonsInv, Handle PROVE ButtonsInv'
<1>1. /\ loop' = "release" /\ button' = "LEFT" /\ stage' = "first" /\ seen' = seen
      /\ timer' = timer /\ timed' = timed /\ elapsed' = elapsed
      /\ finger' = finger /\ since' = since /\ alone' = alone
  BY DEF Handle, user
<1> QED
  BY <1>1 DEF ButtonsInv, ButtonsTypeOK, ReportedOnce, HeldIsSeen, SampleIsSteady, Button

(* After the delay of the loop, both buttons are looked at again.          *)
LEMMA RestedKeepsInv == ASSUME ButtonsInv, Rested PROVE ButtonsInv'
<1>0. /\ ButtonsTypeOK /\ ReportedOnce /\ HeldIsSeen /\ loop # "handle"
      /\ finger' = finger /\ since' = since /\ alone' = alone
      /\ seen' = seen /\ timer' = timer /\ button' = "LEFT" /\ stage' = "first"
  BY DEF ButtonsInv, Rested, NextWait, user
<1>1. loop' = loop /\ timed' \in BOOLEAN /\ elapsed' \in 0..Timeout
  <2>1. CASE loop = "wait" /\ timed /\ elapsed + 1 + Debounce >= Timeout
    BY <2>1 DEF Rested, NextWait
  <2>2. CASE ~(loop = "wait" /\ timed /\ elapsed + 1 + Debounce >= Timeout)
    <3>1. /\ elapsed' = IF loop = "wait" /\ timed THEN elapsed + 1 ELSE elapsed
          /\ loop' = loop /\ timed' = timed
      BY <2>2 DEF Rested
    <3>2. elapsed \in 0..Timeout /\ timed \in BOOLEAN
      BY <1>0 DEF ButtonsTypeOK
    <3> QED
      BY <2>2, <3>1, <3>2
  <2> QED
    BY <2>1, <2>2
<1> QED
  BY <1>0, <1>1 DEF ButtonsInv, ButtonsTypeOK, ReportedOnce, HeldIsSeen, SampleIsSteady, Button

-----------------------------------------------------------------------------
(* The theorems                                                            *)

(* At the start no finger is down and nothing is open.                     *)
LEMMA ButtonsInvInit == ASSUME ButtonsInit PROVE ButtonsInv
<1>1. finger \in [Button -> BOOLEAN] /\ alone \in [Button -> BOOLEAN]
  BY DEF ButtonsInit
<1>2. ButtonsTypeOK
  <2>1. since \in [Button -> 0..Hold] /\ seen \in [Button -> 0..2]
    <3>1. Hold \in 0..Hold /\ 1 \in 0..2
      OBVIOUS
    <3> QED
      BY <3>1 DEF ButtonsInit
  <2>2. timer \in 0..(Debounce + Busy + 1) /\ elapsed \in 0..Timeout
    BY DEF ButtonsInit
  <2>3. timed \in BOOLEAN
    BY DEF ButtonsInit
  <2> QED
    BY <1>1, <2>1, <2>2, <2>3 DEF ButtonsInit, ButtonsTypeOK, Button
<1>3. \A b \in Button : ~finger[b] /\ seen[b] = 1
  BY DEF ButtonsInit
<1> QED
  BY <1>2, <1>3 DEF ButtonsInit, ButtonsInv, ReportedOnce, HeldIsSeen, SampleIsSteady

(* The strengthening of ReportedOnce holds in every state of the buttons.  *)
THEOREM ButtonsInvHolds == ButtonsSpec => []ButtonsInv
<1>1. ButtonsInit => ButtonsInv
  BY ButtonsInvInit
<1>2. ButtonsInv /\ [ButtonsNext]_buttonsVars => ButtonsInv'
  <2> SUFFICES ASSUME ButtonsInv, [ButtonsNext]_buttonsVars PROVE ButtonsInv'
    OBVIOUS
  <2>1. CASE Tick
    BY <2>1, TickKeepsInv
  <2>2. CASE FirstSample
    BY <2>2, FirstSampleKeepsInv
  <2>3. CASE SecondSample
    BY <2>3, SecondSampleKeepsInv
  <2>4. CASE Handle
    BY <2>4, HandleKeepsInv
  <2>5. CASE Rested
    BY <2>5, RestedKeepsInv
  <2>6. CASE UNCHANGED buttonsVars
    BY <2>6
       DEF buttonsVars, user, code, ButtonsInv, ButtonsTypeOK, ReportedOnce, HeldIsSeen,
           SampleIsSteady
  <2> QED
    BY <2>1, <2>2, <2>3, <2>4, <2>5, <2>6 DEF ButtonsNext, Firmware
<1> QED
  BY <1>1, <1>2, PTL DEF ButtonsSpec

(* The state of the loops keeps its ranges; the time elapsed in a wait     *)
(* never outgrows its timeout.                                             *)
THEOREM ButtonsTypesHold == ButtonsSpec => []ButtonsTypeOK
<1>1. ButtonsInv => ButtonsTypeOK
  BY DEF ButtonsInv
<1> QED
  BY <1>1, ButtonsInvHolds, PTL

(* Whatever the contacts do while they bounce, a press is reported to a    *)
(* screen once at most, and no screen gets a press that was not made.      *)
THEOREM PressReportedOnce == ButtonsSpec => []ReportedOnce
<1>1. ButtonsInv => ReportedOnce
  BY DEF ButtonsInv
<1> QED
  BY <1>1, ButtonsInvHolds, PTL

-----------------------------------------------------------------------------
(* No press is lost                                                        *)

(* A tick leaves the loops where they are and shortens the sleep.          *)
LEMMA TickOfCode ==
    ASSUME ButtonsTypeOK, Tick
    PROVE  /\ loop' = loop /\ button' = button /\ stage' = stage
           /\ timer \in Nat /\ timer > 0 /\ timer' = timer - 1 /\ timer' \in Nat
BY DEF Tick, code, ButtonsTypeOK

(* Who is alone after a tick was so before, or has just been pressed while *)
(* the other button was resting.                                           *)
LEMMA TickOfAlone ==
    ASSUME ButtonsTypeOK, Tick, NEW b \in Button, alone'[b]
    PROVE  /\ ~finger'[Other(b)] /\ since'[Other(b)] = Hold
           /\ \/ /\ alone[b] /\ finger'[b] = finger[b] /\ seen'[b] = seen[b]
                 /\ since'[b] = IF since[b] < Hold THEN since[b] + 1 ELSE Hold
              \/ /\ ~finger[b] /\ finger'[b] /\ seen'[b] = 0
                 /\ since[b] = Hold /\ since'[b] = 0
<1>1. PICK moved \in SUBSET {c \in Button : since[c] = Hold} :
        /\ finger' = [c \in Button |-> IF c \in moved THEN ~finger[c] ELSE finger[c]]
        /\ since' = [c \in Button |-> IF c \in moved THEN 0
                                      ELSE IF since[c] < Hold THEN since[c] + 1 ELSE Hold]
        /\ seen' = [c \in Button |-> IF c \in moved /\ ~finger[c] THEN 0 ELSE seen[c]]
        /\ alone' = [c \in Button |->
              IF finger'[Other(c)] \/ since'[Other(c)] < Hold THEN FALSE
              ELSE IF c \in moved THEN ~finger[c] ELSE alone[c]]
  BY DEF Tick
<1>2. alone'[b] = IF finger'[Other(b)] \/ since'[Other(b)] < Hold THEN FALSE
                  ELSE IF b \in moved THEN ~finger[b] ELSE alone[b]
  BY <1>1
<1>3. ~finger'[Other(b)] /\ ~(since'[Other(b)] < Hold)
  BY <1>2
<1>4. Other(b) \in Button /\ Hold \in Nat
  BY DEF Other, Button
<1>5. since'[Other(b)] \in 0..Hold
  BY <1>4, TickOfButton
<1>6. since'[Other(b)] = Hold
  BY <1>3, <1>4, <1>5
<1>7. CASE b \in moved
  <2>1. ~finger[b]
    BY <1>2, <1>3, <1>7
  <2>2. finger'[b] /\ since'[b] = 0 /\ since[b] = Hold /\ seen'[b] = 0
    BY <1>1, <1>7, <2>1
  <2> QED
    BY <1>3, <1>6, <2>1, <2>2
<1>8. CASE b \notin moved
  <2>1. alone[b]
    BY <1>2, <1>3, <1>8
  <2>2. finger'[b] = finger[b] /\ seen'[b] = seen[b]
    BY <1>1, <1>8
  <2>3. since'[b] = IF since[b] < Hold THEN since[b] + 1 ELSE Hold
    BY <1>1, <1>8
  <2> QED
    BY <1>3, <1>6, <2>1, <2>2, <2>3
<1> QED
  BY <1>7, <1>8

(* With both fingers away for long the screen is done with the press before,  *)
(* and no sample is open.                                                  *)
LEMMA ReadyAfterPause ==
    ASSUME PressInv, timer > 0,
           \A b \in Button : ~finger[b] /\ since[b] + 1 >= Hold
    PROVE  loop = "wait" /\ stage = "rest" /\ timer = 1
<1>1. /\ button \in Button /\ timer \in Nat
      /\ loop \in {"wait", "handle", "release"} /\ stage \in {"first", "second", "rest"}
      /\ \A b \in Button : since[b] \in 0..Hold
  BY DEF PressInv, ButtonsInv, ButtonsTypeOK
<1>2. loop # "handle"
  BY <1>1, PauseAssumption DEF PressInv, PauseIsEnough
<1>3. loop # "release"
  BY <1>1, PauseAssumption DEF PressInv, PauseIsEnough
<1>4. stage # "second"
  BY <1>1, <1>2 DEF PressInv, ButtonsInv, SampleIsSteady
<1>5. stage # "first" /\ (stage = "rest" => timer <= 1)
  BY <1>1, <1>2 DEF PressInv, SleepIsShort
<1> QED
  BY <1>1, <1>2, <1>3, <1>4, <1>5

(* Time passes: every pause and every press comes nearer to its end.       *)
LEMMA TickKeepsPress == ASSUME PressInv, Tick PROVE PressInv'
<1>0. /\ ButtonsInv /\ ButtonsTypeOK /\ ReportedOnce /\ SleepIsShort /\ PauseIsEnough
      /\ AloneIsDown /\ PressIsAwaited
  BY DEF PressInv, ButtonsInv
<1>1. /\ loop' = loop /\ button' = button /\ stage' = stage
      /\ timer \in Nat /\ timer > 0 /\ timer' = timer - 1 /\ timer' \in Nat
  BY <1>0, TickOfCode
<1>2. \A b \in Button :
        /\ Hold \in Nat /\ since[b] \in 0..Hold
        /\ \/ /\ finger'[b] = finger[b]
              /\ since'[b] = IF since[b] < Hold THEN since[b] + 1 ELSE Hold
           \/ finger[b] /\ ~finger'[b] /\ since'[b] = 0
           \/ ~finger[b] /\ finger'[b] /\ since[b] = Hold /\ since'[b] = 0
  BY <1>0, TickOfButton DEF ButtonsTypeOK
<1>3. SleepIsShort'
  BY <1>0, <1>1 DEF SleepIsShort
<1>4. PauseIsEnough'
  <2>1. ASSUME loop = "handle", ~finger'[button]
        PROVE  since'[button] + timer' <= Busy + Bounce
    <3>1. button \in Button /\ timer <= Busy
      BY <1>0, <2>1 DEF ButtonsTypeOK, SleepIsShort
    <3>2. ~finger[button] => since[button] + timer <= Busy + Bounce
      BY <1>0, <2>1 DEF PauseIsEnough
    <3>3. CASE finger[button] /\ since'[button] = 0
      BY <1>1, <3>1, <3>3
    <3>4. CASE ~finger[button] /\ since'[button] = IF since[button] < Hold
                                                  THEN since[button] + 1 ELSE Hold
      <4>1. since[button] \in Nat /\ since[button] < Hold
        BY <1>1, <1>2, <3>1, <3>2, <3>4, PauseAssumption
      <4> QED
        BY <1>1, <3>2, <3>4, <4>1
    <3> QED
      BY <1>2, <2>1, <3>1, <3>3, <3>4
  <2>2. ASSUME loop = "release"
        PROVE  \E b \in Button : finger'[b] \/ since'[b] + timer' <= Busy + Bounce + Debounce
    <3>1. timer <= Debounce
      BY <1>0, <2>2 DEF SleepIsShort
    <3>2. PICK b \in Button : finger[b] \/ since[b] + timer <= Busy + Bounce + Debounce
      BY <1>0, <2>2 DEF PauseIsEnough
    <3>3. CASE ~finger'[b] /\ since'[b] = 0
      BY <1>1, <3>1, <3>3
    <3>4. CASE ~finger'[b] /\ ~finger[b] /\ since'[b] = IF since[b] < Hold
                                                       THEN since[b] + 1 ELSE Hold
      <4>1. since[b] \in Nat /\ since[b] < Hold
        BY <1>1, <1>2, <3>2, <3>4, PauseAssumption
      <4>2. since'[b] + timer' = since[b] + timer
        BY <1>1, <3>4, <4>1
      <4> QED
        BY <3>2, <3>4, <4>2
    <3>5. CASE finger'[b]
      BY <3>5
    <3> QED
      BY <1>2, <3>2, <3>3, <3>4, <3>5
  <2> QED
    BY <1>1, <2>1, <2>2 DEF PauseIsEnough
<1>5. AloneIsDown'
  BY <1>0, TickOfAlone DEF AloneIsDown
<1>6. PressIsAwaited'
  <2> SUFFICES ASSUME NEW b \in Button, alone'[b], seen'[b] = 0
               PROVE  /\ loop = "wait"
                      /\ IF stage = "second"
                         THEN button = b /\ since'[b] + timer' <= Bounce + Debounce
                         ELSE since'[b] + timer' <= Bounce
                      /\ b = "LEFT" /\ button = "RIGHT" /\ stage = "first"
                            => since'[b] < Bounce
    BY <1>1 DEF PressIsAwaited
  <2>1. CASE /\ alone[b] /\ seen'[b] = seen[b]
             /\ since'[b] = IF since[b] < Hold THEN since[b] + 1 ELSE Hold
    <3>1. /\ loop = "wait" /\ stage # "first"
          /\ IF stage = "second" THEN button = b /\ since[b] + timer <= Bounce + Debounce
             ELSE since[b] + timer <= Bounce
      BY <1>0, <1>1, <2>1 DEF PressIsAwaited, SleepIsShort
    <3>2. since[b] \in Nat /\ since[b] < Hold
      BY <1>1, <1>2, <3>1, ContactAssumption
    <3>3. since'[b] + timer' = since[b] + timer
      BY <1>1, <2>1, <3>2
    <3> QED
      BY <3>1, <3>3
  <2>2. CASE ~finger[b] /\ finger'[b] /\ since[b] = Hold /\ since'[b] = 0
    <3>1. Other(b) \in Button /\ Button = {b, Other(b)}
      BY DEF Button, Other
    <3>2. ~finger'[Other(b)] /\ since'[Other(b)] = Hold /\ Hold > 0
      BY <1>0, TickOfAlone, ContactAssumption
    <3>3. ~finger[Other(b)] /\ since[Other(b)] + 1 >= Hold
      BY <1>2, <3>1, <3>2
    <3>4. loop = "wait" /\ stage = "rest" /\ timer = 1
      BY <1>1, <1>2, <2>2, <3>1, <3>3, ReadyAfterPause
    <3> QED
      BY <1>1, <2>2, <3>4
  <2> QED
    BY <1>0, <2>1, <2>2, TickOfAlone
<1>7. ButtonsInv'
  BY <1>0, TickKeepsInv
<1> QED
  BY <1>3, <1>4, <1>5, <1>6, <1>7 DEF PressInv

(* What the loops do with an answer: a sample that reads down was taken    *)
(* from a finger or soon after it left, and the press that is awaited is   *)
(* either this one or the button is looked at again in time.               *)
LEMMA AnswerKeepsPress ==
    ASSUME PressInv, ButtonsInv', NEW pressed \in BOOLEAN, Answer(pressed), UNCHANGED user,
           timer = 0, loop # "handle", stage # "rest",
           pressed => stage = "second",
           pressed => finger[button] \/ since[button] < Bounce,
           ~pressed => ~finger[button] \/ since[button] < Bounce,
           ~pressed /\ alone[button] /\ seen[button] = 0 => stage # "second"
    PROVE  PressInv'
<1>0. /\ ButtonsTypeOK /\ ReportedOnce /\ SleepIsShort /\ PauseIsEnough
      /\ AloneIsDown /\ PressIsAwaited
      /\ loop \in {"wait", "handle", "release"} /\ stage \in {"first", "second", "rest"}
      /\ finger' = finger /\ since' = since /\ alone' = alone
      /\ button \in Button /\ Button = {"LEFT", "RIGHT"}
      /\ \A b \in Button : since[b] \in Nat
  BY DEF PressInv, ButtonsInv, ButtonsTypeOK, user, Button
<1>1. CASE loop = "wait" /\ pressed
  <2>1. /\ loop' = "handle" /\ timer' \in 0..Busy /\ button' = button /\ stage' = stage
        /\ seen' = [seen EXCEPT ![button] = IF seen[button] < 2 THEN seen[button] + 1 ELSE 2]
    BY <1>1 DEF Answer
  <2>2. SleepIsShort' /\ PauseIsEnough'
    BY <1>0, <1>1, <2>1 DEF SleepIsShort, PauseIsEnough
  <2>3. AloneIsDown'
    BY <1>0 DEF AloneIsDown
  <2>4. ASSUME NEW b \in Button, alone[b], seen'[b] = 0 PROVE FALSE
    <3>1. seen \in [Button -> 0..2]
      BY <1>0 DEF ButtonsTypeOK
    <3>2. b # button /\ seen[b] = 0
      BY <1>0, <2>1, <2>4, <3>1
    <3> QED
      BY <1>0, <1>1, <2>4, <3>2 DEF PressIsAwaited
  <2>5. PressIsAwaited'
    BY <1>0, <2>4 DEF PressIsAwaited
  <2> QED
    BY <2>2, <2>3, <2>5 DEF PressInv
<1>2. CASE ~pressed /\ button = "LEFT" /\ TryRight
  <2>1. /\ button' = "RIGHT" /\ stage' = "first" /\ loop' = loop /\ seen' = seen
        /\ timer' = timer
    BY <1>2 DEF TryRight
  <2>2. SleepIsShort' /\ PauseIsEnough' /\ AloneIsDown'
    BY <1>0, <2>1 DEF SleepIsShort, PauseIsEnough, AloneIsDown
  <2>3. ASSUME NEW b \in Button, alone[b], seen[b] = 0
        PROVE  loop = "wait" /\ since[b] <= Bounce /\ (b = "LEFT" => since[b] < Bounce)
    <3>1. finger[b] /\ loop = "wait"
      BY <1>0, <2>3 DEF AloneIsDown, PressIsAwaited
    <3>2. stage # "second"
      BY <1>0, <1>2, <2>3 DEF PressIsAwaited
    <3>3. since[b] <= Bounce
      BY <1>0, <2>3, <3>2 DEF PressIsAwaited
    <3> QED
      BY <1>2, <3>1, <3>3
  <2>4. PressIsAwaited'
    BY <1>0, <2>1, <2>3 DEF PressIsAwaited
  <2> QED
    BY <2>2, <2>4 DEF PressInv
<1>3. CASE /\ RestThen
           /\ \/ loop = "release" /\ pressed
              \/ loop = "wait" /\ ~pressed /\ button = "RIGHT"
  <2>1. /\ stage' = "rest" /\ timer' = 1 /\ loop' = loop /\ button' = button /\ seen' = seen
    BY <1>3 DEF RestThen
  <2>2. SleepIsShort' /\ AloneIsDown'
    BY <1>0, <1>3, <2>1, TimeAssumption DEF SleepIsShort, AloneIsDown
  <2>3. PauseIsEnough'
    BY <1>0, <1>3, <2>1 DEF PauseIsEnough
  <2>4. ASSUME NEW b \in Button, alone[b], seen[b] = 0
        PROVE  loop = "wait" /\ since[b] < Bounce
    <3>1. finger[b] /\ loop = "wait"
      BY <1>0, <2>4 DEF AloneIsDown, PressIsAwaited
    <3>2. CASE b = button
      BY <1>3, <3>1, <3>2
    <3>3. CASE b # button
      <4>1. stage # "second" /\ (stage = "first" => since[b] < Bounce)
        BY <1>0, <1>3, <2>4, <3>1, <3>3 DEF PressIsAwaited
      <4>2. stage = "first"
        BY <1>0, <4>1
      <4> QED
        BY <3>1, <4>1, <4>2
    <3> QED
      BY <3>2, <3>3
  <2>5. PressIsAwaited'
    BY <1>0, <2>1, <2>4 DEF PressIsAwaited
  <2> QED
    BY <2>2, <2>3, <2>5 DEF PressInv
<1>4. CASE /\ loop = "release" /\ ~pressed /\ NextWait /\ UNCHANGED <<seen, timer>>
  <2>1. /\ loop' = "wait" /\ button' = "LEFT" /\ stage' = "first" /\ seen' = seen
        /\ timer' = timer
    BY <1>4 DEF NextWait
  <2> QED
    BY <1>0, <1>4, <2>1
       DEF PressInv, SleepIsShort, PauseIsEnough, AloneIsDown, PressIsAwaited
<1>5. CASE loop = "wait" /\ ~pressed
  <2>1. IF button = "LEFT" THEN TryRight ELSE RestThen
    BY <1>5 DEF Answer
  <2> QED
    BY <1>0, <1>2, <1>3, <1>5, <2>1
<1>6. CASE loop = "release"
  <2>1. \/ pressed /\ RestThen
        \/ /\ ~pressed
           /\ IF button = "LEFT" THEN TryRight ELSE NextWait /\ UNCHANGED <<seen, timer>>
    BY <1>6 DEF Answer
  <2>2. CASE pressed /\ RestThen
    BY <1>3, <1>6, <2>2
  <2>3. CASE ~pressed /\ button = "LEFT" /\ TryRight
    BY <1>2, <2>3
  <2>4. CASE ~pressed /\ NextWait /\ UNCHANGED <<seen, timer>>
    BY <1>4, <1>6, <2>4
  <2> QED
    BY <2>1, <2>2, <2>3, <2>4
<1> QED
  BY <1>0, <1>1, <1>5, <1>6

(* The first sample: a press whose contact rests is not overlooked.        *)
LEMMA FirstSampleKeepsPress == ASSUME PressInv, FirstSample PROVE PressInv'
<1>0. /\ ButtonsInv /\ ButtonsTypeOK /\ SleepIsShort /\ PauseIsEnough
      /\ AloneIsDown /\ PressIsAwaited /\ button \in Button
      /\ stage = "first" /\ timer = 0 /\ loop # "handle" /\ UNCHANGED user
      /\ \A b \in Button : since[b] \in Nat
  BY DEF PressInv, ButtonsInv, ButtonsTypeOK, FirstSample
<1>1. PICK down \in Samples(button) :
        IF down THEN /\ stage' = "second" /\ timer' = Debounce
                     /\ UNCHANGED <<loop, button, timed, elapsed, seen>>
        ELSE Answer(FALSE)
  BY DEF FirstSample
<1>2. down \in BOOLEAN /\ (since[button] < Bounce \/ down = finger[button])
  BY <1>0, SampleOfFinger
<1>3. ButtonsInv'
  BY <1>0, FirstSampleKeepsInv
<1>4. CASE down
  <2>1. /\ stage' = "second" /\ timer' = Debounce /\ loop' = loop /\ button' = button
        /\ seen' = seen /\ finger' = finger /\ since' = since /\ alone' = alone
    BY <1>0, <1>1, <1>4 DEF user
  <2>2. SleepIsShort' /\ AloneIsDown'
    BY <1>0, <2>1 DEF SleepIsShort, AloneIsDown
  <2>3. finger[button] \/ since[button] < Bounce
    BY <1>2, <1>4
  <2>4. PauseIsEnough'
    BY <1>0, <2>1, <2>3 DEF PauseIsEnough
  <2>5. ASSUME NEW b \in Button, alone[b], seen[b] = 0
        PROVE  loop = "wait" /\ since[b] <= Bounce /\ button = b
    <3>1. loop = "wait" /\ since[b] <= Bounce
      BY <1>0, <2>5 DEF PressIsAwaited
    <3>2. ASSUME button # b PROVE FALSE
      <4>1. button = Other(b)
        BY <1>0, <3>2 DEF Button, Other
      <4> QED
        BY <1>0, <2>3, <2>5, <4>1, ContactAssumption DEF AloneIsDown
    <3> QED
      BY <3>1, <3>2
  <2>6. PressIsAwaited'
    BY <1>0, <2>1, <2>5 DEF PressIsAwaited
  <2> QED
    BY <1>3, <2>2, <2>4, <2>6 DEF PressInv
<1>5. CASE ~down
  <2>1. Answer(FALSE)
    BY <1>1, <1>5
  <2>2. ~finger[button] \/ since[button] < Bounce
    BY <1>2, <1>5
  <2> QED
    BY <1>0, <1>3, <2>1, <2>2, AnswerKeepsPress
<1> QED
  BY <1>2, <1>4, <1>5

(* The second sample of a press that goes on reads down: it is reported.   *)
LEMMA SecondSampleKeepsPress == ASSUME PressInv, SecondSample PROVE PressInv'
<1>0. /\ ButtonsInv /\ ButtonsTypeOK /\ SampleIsSteady /\ AloneIsDown /\ button \in Button
      /\ stage = "second" /\ timer = 0 /\ loop # "handle" /\ UNCHANGED user
      /\ since[button] \in 0..Hold
  BY DEF PressInv, ButtonsInv, ButtonsTypeOK, SecondSample
<1>1. PICK down \in Samples(button) : Answer(down)
  BY DEF SecondSample
<1>2. down \in BOOLEAN /\ (since[button] < Bounce \/ down = finger[button])
  BY <1>0, SampleOfFinger
<1>3. ButtonsInv'
  BY <1>0, SecondSampleKeepsInv
<1>4. finger[button] => since[button] >= Bounce
  BY <1>0 DEF SampleIsSteady
<1>5. down => finger[button] \/ since[button] < Bounce
  BY <1>2
<1>6. ~down => ~finger[button] \/ since[button] < Bounce
  BY <1>2
<1>7. ~down => ~finger[button]
  BY <1>0, <1>4, <1>6
<1>8. ~down => ~alone[button]
  BY <1>0, <1>7 DEF AloneIsDown
<1> QED
  BY <1>0, <1>1, <1>2, <1>3, <1>5, <1>6, <1>8, AnswerKeepsPress

(* The screen's work is done: the wait for the release has its time.       *)
LEMMA HandleKeepsPress == ASSUME PressInv, Handle PROVE PressInv'
<1>0. /\ ButtonsInv /\ ButtonsTypeOK /\ SleepIsShort /\ PauseIsEnough /\ AloneIsDown
      /\ PressIsAwaited /\ button \in Button /\ loop = "handle" /\ timer = 0
      /\ since[button] \in Nat
  BY DEF PressInv, ButtonsInv, ButtonsTypeOK, Handle
<1>1. /\ loop' = "release" /\ button' = "LEFT" /\ stage' = "first" /\ seen' = seen
      /\ timer' = timer /\ finger' = finger /\ since' = since /\ alone' = alone
  BY DEF Handle, user
<1>2. ButtonsInv'
  BY <1>0, HandleKeepsInv
<1>3. PauseIsEnough'
  BY <1>0, <1>1 DEF PauseIsEnough
<1> QED
  BY <1>0, <1>1, <1>2, <1>3 DEF PressInv, SleepIsShort, AloneIsDown, PressIsAwaited

(* After the delay of the loop, and after a timeout, LEFT is looked at.    *)
LEMMA RestedKeepsPress == ASSUME PressInv, Rested PROVE PressInv'
<1>0. /\ ButtonsInv /\ ButtonsTypeOK /\ SleepIsShort /\ PauseIsEnough /\ AloneIsDown
      /\ PressIsAwaited /\ loop # "handle" /\ stage = "rest" /\ timer = 0
  BY DEF PressInv, ButtonsInv, Rested
<1>1. /\ loop' = loop /\ button' = "LEFT" /\ stage' = "first" /\ seen' = seen
      /\ timer' = timer /\ finger' = finger /\ since' = since /\ alone' = alone
  BY DEF Rested, NextWait, user
<1>2. ButtonsInv'
  BY <1>0, RestedKeepsInv
<1> QED
  BY <1>0, <1>1, <1>2 DEF PressInv, SleepIsShort, PauseIsEnough, AloneIsDown, PressIsAwaited

(* A finger leaves after a whole press only, and by then the press of a    *)
(* button alone was reported.                                              *)
LEMMA ReportedBeforeRelease ==
    ASSUME PressInv, [ButtonsNext]_buttonsVars,
           NEW b \in Button, alone[b], finger[b], ~finger'[b]
    PROVE  seen[b] = 1
<1>1. CASE Tick
  <2>1. timer \in Nat /\ timer > 0 /\ since[b] = Hold
    BY <1>1, TickOfCode, TickOfButton DEF PressInv, ButtonsInv
  <2>2. seen[b] \in 0..2 /\ seen[b] <= 1
    BY DEF PressInv, ButtonsInv, ButtonsTypeOK, ReportedOnce
  <2>3. seen[b] # 0
    BY <2>1, ContactAssumption DEF PressInv, PressIsAwaited
  <2> QED
    BY <2>2, <2>3
<1>2. CASE Firmware \/ UNCHANGED buttonsVars
  BY <1>2 DEF Firmware, FirstSample, SecondSample, Handle, Rested, buttonsVars, user
<1> QED
  BY <1>1, <1>2 DEF ButtonsNext

(* The strengthening of NoPressLost holds in every state of the buttons.   *)
THEOREM PressInvHolds == ButtonsSpec => []PressInv
<1>1. ButtonsInit => PressInv
  BY ButtonsInvInit
     DEF ButtonsInit, PressInv, SleepIsShort, PauseIsEnough, AloneIsDown, PressIsAwaited
<1>2. PressInv /\ [ButtonsNext]_buttonsVars => PressInv'
  <2> SUFFICES ASSUME PressInv, [ButtonsNext]_buttonsVars PROVE PressInv'
    OBVIOUS
  <2>1. CASE Tick
    BY <2>1, TickKeepsPress
  <2>2. CASE FirstSample
    BY <2>2, FirstSampleKeepsPress
  <2>3. CASE SecondSample
    BY <2>3, SecondSampleKeepsPress
  <2>4. CASE Handle
    BY <2>4, HandleKeepsPress
  <2>5. CASE Rested
    BY <2>5, RestedKeepsPress
  <2>6. CASE UNCHANGED buttonsVars
    BY <2>6
       DEF buttonsVars, user, code, PressInv, ButtonsInv, ButtonsTypeOK, ReportedOnce,
           HeldIsSeen, SampleIsSteady, SleepIsShort, PauseIsEnough, AloneIsDown,
           PressIsAwaited
  <2> QED
    BY <2>1, <2>2, <2>3, <2>4, <2>5, <2>6 DEF ButtonsNext, Firmware
<1> QED
  BY <1>1, <1>2, PTL DEF ButtonsSpec

(* A button pressed alone for as long as a user presses is reported to the *)
(* screen before the finger leaves it, timeouts and bounces in between.    *)
THEOREM PressIsNotLost == ButtonsSpec => NoPressLost
<1> DEFINE Reported == \A b \in Button : alone[b] /\ finger[b] /\ ~finger'[b] => seen[b] = 1
<1>1. PressInv /\ [ButtonsNext]_buttonsVars => [Reported]_buttonsVars
  BY ReportedBeforeRelease
<1>2. ButtonsSpec => [][Reported]_buttonsVars
  BY <1>1, PressInvHolds, PTL DEF ButtonsSpec
<1> QED
  BY <1>2 DEF NoPressLost

HIDE TimeAssumption

-----------------------------------------------------------------------------
(* The option screen: it shows the option that would be given.             *)

USE SizeAssumption

Indices == 0..(Len(caller.options) - 1)
ChoiceLine(i) == OnlyText(caller.prompt, OptionStart, Text(i))

(* Also while LEFT is down a whole option is displayed: the one before.    *)
IInv ==
    /\ TypeOK
    /\ ShowsTheOption
    /\ pc = "left" => \E i \in Indices : line = ChoiceLine(i)

-----------------------------------------------------------------------------
(* Counting columns in a uint8_t is counting while the line is short.      *)
LEMMA NoWrap ==
    ASSUME NEW x \in Nat, x < ColumnWrap PROVE x % ColumnWrap = x
OBVIOUS

(* The greatest of one number is that number.                              *)
LEMMA MaxOfOne == ASSUME NEW k \in Nat PROVE Max({k}) = k
BY DEF Max

(* The text from a column on, and the rest of the line as it was.          *)
Drawn(q, on, start, text) ==
    /\ q = [column \in 0..(Columns - 1) |-> q[column]]
    /\ \A column \in 0..(Columns - 1) :
        /\ column >= start /\ column < start + Len(text)
              => q[column] = text[column - start + 1]
        /\ column < start \/ column >= start + Len(text) => q[column] = on[column]

(* What display_puts leaves in each column when the text does not wrap.    *)
LEMMA PutsInLine ==
    ASSUME NEW on, DOMAIN on = 0..(Columns - 1), NEW start \in Nat,
           NEW text, Len(text) \in Nat, start + Len(text) <= ColumnWrap
    PROVE  Drawn(Puts(on, start, text), on, start, text)
<1> DEFINE q == Puts(on, start, text)
           len == Len(text)
           here(column) == {i \in 1..len : (start + i - 1) % ColumnWrap = column}
<1>1. q = [column \in 0..(Columns - 1) |->
              IF here(column) = {} THEN on[column] ELSE text[Max(here(column))]]
  BY DEF Puts
<1>0. len \in Nat /\ start + len <= ColumnWrap
  OBVIOUS
<1> HIDE DEF len
<1>2. \A i \in 1..len : (start + i - 1) % ColumnWrap = start + i - 1
  <2> SUFFICES ASSUME NEW i \in 1..len PROVE (start + i - 1) % ColumnWrap = start + i - 1
    OBVIOUS
  <2>1. start + i - 1 \in Nat /\ start + i - 1 < ColumnWrap
    BY <1>0
  <2> QED
    BY <2>1, NoWrap
<1>3. ASSUME NEW column \in 0..(Columns - 1), column >= start, column < start + len
      PROVE  q[column] = text[column - start + 1]
  <2>1. column - start + 1 \in 1..len /\ column - start + 1 \in Nat
    BY <1>0, <1>3
  <2>2. \A i \in 1..len : (start + i - 1) % ColumnWrap = column <=> i = column - start + 1
    <3>1. \A i \in 1..len : start + i - 1 = column <=> i = column - start + 1
      BY <1>0, <1>3
    <3> QED
      BY <1>2, <3>1
  <2>3. here(column) = {column - start + 1}
    BY <2>1, <2>2, Zenon
  <2>4. Max(here(column)) = column - start + 1
    BY <2>1, <2>3, MaxOfOne
  <2>5. here(column) # {}
    BY <2>3
  <2> HIDE DEF here
  <2> QED
    BY <1>1, <2>4, <2>5
<1>4. ASSUME NEW column \in 0..(Columns - 1), column < start \/ column >= start + len
      PROVE  q[column] = on[column]
  <2>1. \A i \in 1..len : start + i - 1 # column
    BY <1>0, <1>4
  <2>2. here(column) = {}
    BY <1>2, <2>1, Zenon
  <2> HIDE DEF here
  <2> QED
    BY <1>1, <2>2
<1> HIDE DEF here
<1>5. q = [column \in 0..(Columns - 1) |-> q[column]]
  BY <1>1
<1> HIDE DEF q
<1>6. Drawn(q, on, start, text)
  BY <1>3, <1>4, <1>5 DEF Drawn, len
<1> QED
  BY <1>6 DEF q

(* A line that has the prompt, the text and blanks where they belong.      *)
HasOnly(on, prompt, start, text) ==
    /\ on = [column \in 0..(Columns - 1) |-> on[column]]
    /\ \A column \in 0..(Columns - 1) :
        /\ column < prompt => on[column] = PromptChar
        /\ column >= prompt /\ column >= start /\ column < start + Len(text)
              => on[column] = text[column - start + 1]
        /\ column >= prompt /\ (column < start \/ column >= start + Len(text))
              => on[column] = Blank

(* OnlyText is that line, and no other is.                                 *)
LEMMA OnlyTextIs ==
    ASSUME NEW on, NEW prompt \in Nat, NEW start \in Nat, NEW text, Len(text) \in Nat
    PROVE  on = OnlyText(prompt, start, text) <=> HasOnly(on, prompt, start, text)
<1> DEFINE at(column) == IF column < prompt THEN PromptChar
                         ELSE IF column \in start..(start + Len(text) - 1)
                              THEN text[column - start + 1]
                         ELSE Blank
<1>1. OnlyText(prompt, start, text) = [column \in 0..(Columns - 1) |-> at(column)]
  BY DEF OnlyText
<1>2. \A column \in 0..(Columns - 1) :
        (on[column] = at(column)) <=>
        (/\ column < prompt => on[column] = PromptChar
         /\ column >= prompt /\ column >= start /\ column < start + Len(text)
               => on[column] = text[column - start + 1]
         /\ column >= prompt /\ (column < start \/ column >= start + Len(text))
               => on[column] = Blank)
  <2> SUFFICES ASSUME NEW column \in 0..(Columns - 1)
               PROVE  (on[column] = at(column)) <=>
        (/\ column < prompt => on[column] = PromptChar
         /\ column >= prompt /\ column >= start /\ column < start + Len(text)
               => on[column] = text[column - start + 1]
         /\ column >= prompt /\ (column < start \/ column >= start + Len(text))
               => on[column] = Blank)
    OBVIOUS
  <2>1. CASE column < prompt
    BY <2>1
  <2>2. CASE column >= prompt /\ column >= start /\ column < start + Len(text)
    BY <2>2
  <2>3. CASE column >= prompt /\ (column < start \/ column >= start + Len(text))
    BY <2>3
  <2> QED
    BY <2>1, <2>2, <2>3
<1> HIDE DEF at
<1>3. on = [column \in 0..(Columns - 1) |-> at(column)]
      <=> /\ on = [column \in 0..(Columns - 1) |-> on[column]]
          /\ \A column \in 0..(Columns - 1) : on[column] = at(column)
  OBVIOUS
<1> QED
  BY <1>1, <1>2, <1>3 DEF HasOnly

(* What the callers promise, of the caller at hand.                        *)
LEMMA CallerFits ==
    ASSUME TypeOK, NEW i \in Indices
    PROVE  /\ caller.prompt \in Nat /\ caller.prompt + 1 + Erased <= ColumnWrap
           /\ OptionStart = caller.prompt + 1 /\ OptionStart \in Nat
           /\ Len(caller.options) \in Nat /\ i < Len(caller.options)
           /\ Len(Text(i)) \in Nat
           /\ Len(Text(i)) <= Erased /\ OptionStart + Len(Text(i)) <= Columns
<1>1. caller \in Callers
  BY DEF TypeOK
<1>2. /\ caller.prompt \in Nat /\ caller.prompt + 1 + Erased <= ColumnWrap
      /\ caller.options \in Seq(Seq(STRING))
      /\ \A k \in 1..Len(caller.options) :
            /\ caller.prompt + 1 + Len(caller.options[k]) <= Columns
            /\ Len(caller.options[k]) <= Erased
  BY <1>1, CallerAssumption
<1>3. i + 1 \in 1..Len(caller.options) /\ i < Len(caller.options) /\ Len(caller.options) \in Nat
  BY <1>2 DEF Indices
<1>4. Text(i) \in Seq(STRING) /\ Text(i) = caller.options[i + 1]
  BY <1>2, <1>3 DEF Text
<1>5. Len(Text(i)) \in Nat
  BY <1>4
<1>6. OptionStart = caller.prompt + 1 /\ OptionStart \in Nat
  BY <1>2 DEF OptionStart
<1> QED
  BY <1>2, <1>3, <1>4, <1>5, <1>6

(* There is an option to choose.                                           *)
LEMMA SomeOption ==
    ASSUME NEW c \in Callers PROVE Len(c.options) \in Nat /\ Len(c.options) > 0
<1>1. c.options \in Seq(Seq(STRING)) /\ c.options # <<>>
  BY CallerAssumption
<1> QED
  BY <1>1

(* One character over and over is a text.                                  *)
LEMMA Repeated ==
    ASSUME NEW char, NEW n \in Nat
    PROVE  /\ Len(Repeat(char, n)) = n
           /\ \A k \in 1..n : Repeat(char, n)[k] = char
<1> DEFINE text == Repeat(char, n)
<1>1. text = [k \in 1..n |-> char]
  BY DEF Repeat
<1>2. text \in [1..n -> {char}]
  BY <1>1
<1>3. Len(text) = n
  <2> HIDE DEF text
  <2> QED
    BY <1>2
<1>4. \A k \in 1..n : text[k] = char
  BY <1>1
<1> QED
  BY <1>3, <1>4

(* A line with the prompt and, but where the blanks will be, nothing else. *)
Erasable(on, prompt, start) ==
    /\ DOMAIN on = 0..(Columns - 1)
    /\ \A column \in 0..(Columns - 1) :
        /\ column < prompt => on[column] = PromptChar
        /\ column >= prompt /\ (column < start \/ column >= start + Erased)
              => on[column] = Blank

(* Nothing of the option that was displayed is left beside the new one.    *)
LEMMA Redrawn ==
    ASSUME NEW prompt \in Nat, NEW start \in Nat, prompt <= start,
           start + Erased <= ColumnWrap,
           NEW i \in Nat, i < Len(caller.options), Len(caller.options) \in Nat,
           Len(Text(i)) \in Nat, Len(Text(i)) <= Erased,
           NEW on, Erasable(on, prompt, start)
    PROVE  DisplayOptionsValue(on, start, i) = OnlyText(prompt, start, Text(i))
<1> DEFINE text == Text(i)
           blanks == Repeat(Blank, Erased)
           erased == Puts(on, start, blanks)
           drawn == Puts(erased, start, text)
<1>1. Len(text) \in Nat /\ Len(text) <= Erased
      /\ start + Len(text) <= ColumnWrap
  OBVIOUS
<1>2. /\ Len(blanks) = Erased
      /\ \A k \in 1..Erased : blanks[k] = Blank
  BY Repeated
<1>3. DisplayOptionsValue(on, start, i) = drawn
  BY DEF DisplayOptionsValue
<1> HIDE DEF blanks, text
<1>a. Drawn(erased, on, start, blanks)
  BY <1>2, PutsInLine DEF Erasable
<1> HIDE DEF erased
<1>4. /\ erased = [column \in 0..(Columns - 1) |-> erased[column]]
      /\ \A column \in 0..(Columns - 1) :
            /\ column >= start /\ column < start + Erased
                  => erased[column] = blanks[column - start + 1]
            /\ column < start \/ column >= start + Erased => erased[column] = on[column]
  BY <1>2, <1>a DEF Drawn
<1>5. DOMAIN erased = 0..(Columns - 1)
  BY <1>4
<1>6. \A column \in 0..(Columns - 1) :
        /\ column < prompt => erased[column] = PromptChar
        /\ column >= prompt => erased[column] = Blank
  <2> SUFFICES ASSUME NEW column \in 0..(Columns - 1)
               PROVE  /\ column < prompt => erased[column] = PromptChar
                      /\ column >= prompt => erased[column] = Blank
    OBVIOUS
  <2>1. CASE column >= start /\ column < start + Erased
    <3>1. column - start + 1 \in 1..Erased /\ ~(column < prompt)
      BY <2>1
    <3>2. blanks[column - start + 1] = Blank
      BY <1>2, <3>1
    <3> QED
      BY <1>4, <2>1, <3>1, <3>2
  <2>2. CASE column < start \/ column >= start + Erased
    BY <1>4, <2>2 DEF Erasable
  <2> QED
    BY <2>1, <2>2
<1>7. Drawn(drawn, erased, start, text)
  BY <1>1, <1>5, PutsInLine
<1> HIDE DEF drawn
<1>8. HasOnly(drawn, prompt, start, text)
  <2> SUFFICES ASSUME NEW column \in 0..(Columns - 1)
        PROVE  /\ column < prompt => drawn[column] = PromptChar
               /\ column >= prompt /\ column >= start /\ column < start + Len(text)
                     => drawn[column] = text[column - start + 1]
               /\ column >= prompt /\ (column < start \/ column >= start + Len(text))
                     => drawn[column] = Blank
    BY <1>7 DEF HasOnly, Drawn
  <2>1. column < prompt => column < start
    OBVIOUS
  <2> QED
    BY <1>1, <1>6, <1>7, <2>1 DEF Drawn
<1>9. drawn = OnlyText(prompt, start, text)
  BY <1>1, <1>8, OnlyTextIs
<1> QED
  BY <1>3, <1>9 DEF text

(* The screen drawn anew shows the option behind its prompt.               *)
LEMMA ShownAnew ==
    ASSUME TypeOK, NEW i \in Indices, ShowChoice(i)
    PROVE  pc' = "choose" /\ line' = ChoiceLine(i)
<1> DEFINE prompt == Repeat(PromptChar, caller.prompt)
           on == Puts(Empty, 0, prompt)
<1>1. /\ caller.prompt \in Nat /\ caller.prompt + 1 + Erased <= ColumnWrap
      /\ OptionStart = caller.prompt + 1 /\ OptionStart \in Nat
      /\ i \in Nat /\ i < Len(caller.options) /\ Len(caller.options) \in Nat
      /\ Len(Text(i)) \in Nat /\ Len(Text(i)) <= Erased
  BY CallerFits DEF Indices
<1>2. /\ Len(prompt) = caller.prompt
      /\ \A k \in 1..caller.prompt : prompt[k] = PromptChar
  BY <1>1, Repeated
<1>3. line' = DisplayOptionsValue(on, OptionStart, i) /\ pc' = "choose"
  BY DEF ShowChoice
<1> HIDE DEF prompt
<1>4. DOMAIN Empty = 0..(Columns - 1) /\ 0 + caller.prompt <= ColumnWrap
      /\ \A column \in 0..(Columns - 1) : Empty[column] = Blank
  BY <1>1 DEF Empty
<1>a. 0 \in Nat /\ 0 + Len(prompt) <= ColumnWrap
  BY <1>1, <1>2
<1>b. Drawn(on, Empty, 0, prompt)
  BY <1>2, <1>4, <1>a, PutsInLine
<1> HIDE DEF on
<1>5. /\ on = [column \in 0..(Columns - 1) |-> on[column]]
      /\ \A column \in 0..(Columns - 1) :
            /\ column < caller.prompt => on[column] = prompt[column + 1]
            /\ column >= caller.prompt => on[column] = Empty[column]
  BY <1>1, <1>2, <1>b DEF Drawn
<1>6. DOMAIN on = 0..(Columns - 1)
  BY <1>5
<1>7. \A column \in 0..(Columns - 1) :
        /\ column < caller.prompt => on[column] = PromptChar
        /\ column >= caller.prompt => on[column] = Blank
  <2> SUFFICES ASSUME NEW column \in 0..(Columns - 1)
               PROVE  /\ column < caller.prompt => on[column] = PromptChar
                      /\ column >= caller.prompt => on[column] = Blank
    OBVIOUS
  <2>1. CASE column < caller.prompt
    <3>1. column + 1 \in 1..caller.prompt
      BY <1>1, <2>1
    <3> QED
      BY <1>1, <1>2, <1>5, <2>1, <3>1
  <2>2. CASE column >= caller.prompt
    BY <1>1, <1>4, <1>5, <2>2
  <2> QED
    BY <1>1, <2>1, <2>2
<1>8. DisplayOptionsValue(on, OptionStart, i) = OnlyText(caller.prompt, OptionStart, Text(i))
  <2>1. Erasable(on, caller.prompt, OptionStart)
    BY <1>6, <1>7 DEF Erasable
  <2>2. caller.prompt <= OptionStart /\ OptionStart + Erased <= ColumnWrap
    BY <1>1
  <2> QED
    BY <1>1, <2>1, <2>2, Redrawn
<1> QED
  BY <1>3, <1>8 DEF ChoiceLine

(* A line with an option is one that another can be drawn over.            *)
LEMMA ShownOver ==
    ASSUME TypeOK, NEW i \in Indices, NEW j \in Indices, line = ChoiceLine(j)
    PROVE  DisplayOptionsValue(line, OptionStart, i) = ChoiceLine(i)
<1>1. /\ caller.prompt \in Nat /\ caller.prompt + 1 + Erased <= ColumnWrap
      /\ OptionStart = caller.prompt + 1 /\ OptionStart \in Nat
      /\ i \in Nat /\ i < Len(caller.options) /\ Len(caller.options) \in Nat
      /\ Len(Text(i)) \in Nat /\ Len(Text(i)) <= Erased
  BY CallerFits DEF Indices
<1>2. Len(Text(j)) \in Nat /\ Len(Text(j)) <= Erased
  BY CallerFits
<1>3. HasOnly(line, caller.prompt, OptionStart, Text(j))
  BY <1>1, <1>2, OnlyTextIs DEF ChoiceLine
<1>4. DOMAIN line = 0..(Columns - 1)
  BY <1>3 DEF HasOnly
<1>5. Erasable(line, caller.prompt, OptionStart)
  <2> DEFINE len == Len(Text(j))
  <2>1. len \in Nat /\ len <= Erased
    BY <1>2
  <2>2. \A column \in 0..(Columns - 1) :
          /\ column < caller.prompt => line[column] = PromptChar
          /\ column >= caller.prompt /\ (column < OptionStart \/ column >= OptionStart + len)
                => line[column] = Blank
    BY <1>3 DEF HasOnly
  <2> HIDE DEF len
  <2>3. \A column \in 0..(Columns - 1) :
          column >= OptionStart + Erased => column >= OptionStart + len
    BY <1>1, <2>1
  <2> QED
    BY <1>4, <2>2, <2>3 DEF Erasable
<1>6. DisplayOptionsValue(line, OptionStart, i) = OnlyText(caller.prompt, OptionStart, Text(i))
  <2>1. caller.prompt <= OptionStart /\ OptionStart + Erased <= ColumnWrap
    BY <1>1
  <2> QED
    BY <1>1, <1>5, <2>1, Redrawn
<1> QED
  BY <1>6 DEF ChoiceLine

(* The confirmation shows the option in a line of its own.                 *)
LEMMA ShownAlone ==
    ASSUME TypeOK, NEW i \in Indices
    PROVE  DisplayOptionsValue(Empty, 0, i) = OnlyText(0, 0, Text(i))
<1>1. /\ i \in Nat /\ i < Len(caller.options) /\ Len(caller.options) \in Nat
      /\ Len(Text(i)) \in Nat /\ Len(Text(i)) <= Erased
      /\ caller.prompt \in Nat /\ caller.prompt + 1 + Erased <= ColumnWrap
  <2>1. i \in Nat
    BY DEF Indices
  <2> QED
    BY <2>1, CallerFits
<1>2. /\ DOMAIN Empty = 0..(Columns - 1)
      /\ \A column \in 0..(Columns - 1) : ~(column < 0) /\ Empty[column] = Blank
  BY DEF Empty
<1>3. Erasable(Empty, 0, 0)
  BY <1>2 DEF Erasable
<1>4. 0 \in Nat /\ 0 <= 0 /\ 0 + Erased <= ColumnWrap
  BY <1>1
<1> QED
  BY <1>1, <1>3, <1>4, Redrawn

-----------------------------------------------------------------------------
(* The theorems                                                            *)

(* The strengthening of ShowsTheOption holds in every state of the screen. *)
THEOREM InvHolds == Spec => []IInv
<1>1. Init => IInv
  BY SomeOption DEF Init, IInv, TypeOK, ShowsTheOption, Empty
<1>2. IInv /\ [Next]_vars => IInv'
  <2> SUFFICES ASSUME IInv, [Next]_vars PROVE IInv'
    OBVIOUS
  <2>0. /\ TypeOK /\ ShowsTheOption /\ current_option_idx \in Indices
        /\ caller \in Callers /\ Len(caller.options) \in Nat /\ Len(caller.options) > 0
    <3>1. caller \in Callers /\ current_option_idx \in Indices
      BY DEF IInv, TypeOK, Indices
    <3> QED
      BY <3>1, SomeOption DEF IInv
  <2>1. ASSUME NEW i \in Indices, ShowChoice(i), UNCHANGED caller, current_option_idx' = i
        PROVE  IInv'
    <3>1. pc' = "choose" /\ line' = ChoiceLine(i) /\ caller' = caller
      BY <2>0, <2>1, ShownAnew
    <3>2. TypeOK'
      BY <2>0, <2>1, <3>1 DEF TypeOK, Indices, ChoiceLine, OnlyText
    <3>3. ShowsTheOption'
      BY <2>1, <3>1 DEF ShowsTheOption, ChoiceLine, OptionStart, Text, OnlyText
    <3> QED
      BY <3>1, <3>2, <3>3 DEF IInv
  <2>2. CASE Open
    BY <2>0, <2>1, <2>2 DEF Open, Indices
  <2>3. CASE NextOption
    <3>1. /\ pc = "choose" /\ pc' = "left" /\ caller' = caller /\ line' = line
          /\ current_option_idx' \in Indices
      BY <2>0, <2>3 DEF NextOption, Indices
    <3>2. line = ChoiceLine(current_option_idx)
      BY <2>0, <3>1 DEF ShowsTheOption, ChoiceLine
    <3>3. \E i \in Indices' : line' = ChoiceLine(i)'
      BY <2>0, <3>1, <3>2 DEF Indices, ChoiceLine, OptionStart, Text, OnlyText
    <3>4. TypeOK'
      BY <2>0, <3>1 DEF TypeOK, Indices
    <3> QED
      BY <3>1, <3>3, <3>4 DEF IInv, ShowsTheOption
  <2>4. CASE Released
    <3>1. PICK j \in Indices : line = ChoiceLine(j)
      BY <2>4 DEF Released, IInv
    <3>2. /\ pc' = "choose" /\ caller' = caller /\ current_option_idx' = current_option_idx
          /\ line' = ChoiceLine(current_option_idx)
      BY <2>0, <2>4, <3>1, ShownOver DEF Released
    <3>3. TypeOK'
      BY <2>0, <3>2 DEF TypeOK, ChoiceLine, OnlyText
    <3>4. ShowsTheOption'
      BY <3>2 DEF ShowsTheOption, ChoiceLine, OptionStart, Text, OnlyText
    <3> QED
      BY <3>2, <3>3, <3>4 DEF IInv
  <2>5. CASE AskToConfirm
    <3>1. /\ pc' = "confirm" /\ caller' = caller /\ current_option_idx' = current_option_idx
          /\ line' = OnlyText(0, 0, Text(current_option_idx))
      BY <2>0, <2>5, ShownAlone DEF AskToConfirm
    <3>2. TypeOK'
      BY <2>0, <3>1 DEF TypeOK, OnlyText
    <3>3. ShowsTheOption'
      BY <3>1 DEF ShowsTheOption, Text, OnlyText
    <3> QED
      BY <3>1, <3>2, <3>3 DEF IInv
  <2>6. CASE GoBack
    BY <2>0, <2>1, <2>6 DEF GoBack
  <2>7. CASE Give
    <3>1. /\ pc = "confirm" /\ pc' = "given" /\ caller' = caller
          /\ current_option_idx' = current_option_idx /\ line' = line
      BY <2>7 DEF Give
    <3> QED
      BY <2>0, <3>1 DEF IInv, TypeOK, ShowsTheOption, Text, OnlyText
  <2>8. CASE CallAgain
    <3>1. pc' = "idle" /\ caller' \in Callers /\ current_option_idx' = 0 /\ line' = Empty
      BY <2>8 DEF CallAgain
    <3>2. Len(caller'.options) \in Nat /\ Len(caller'.options) > 0
      BY <3>1, SomeOption
    <3>3. TypeOK'
      BY <3>1, <3>2 DEF TypeOK, Empty
    <3> QED
      BY <3>1, <3>3 DEF IInv, ShowsTheOption
  <2>9. CASE UNCHANGED vars
    <3>1. /\ pc' = pc /\ caller' = caller /\ current_option_idx' = current_option_idx
          /\ line' = line
      BY <2>9 DEF vars
    <3> QED
      BY <3>1 DEF IInv, TypeOK, ShowsTheOption, Indices, ChoiceLine, OptionStart, Text, OnlyText
  <2> QED
    BY <2>2, <2>3, <2>4, <2>5, <2>6, <2>7, <2>8, <2>9 DEF Next
<1> QED
  BY <1>1, <1>2, PTL DEF Spec

(* The chosen index always names an option of the caller.                  *)
THEOREM TypesHold == Spec => []TypeOK
<1>1. IInv => TypeOK
  BY DEF IInv
<1> QED
  BY <1>1, InvHolds, PTL

(* While a button may be pressed, the display shows the whole option that  *)
(* would be taken and nothing of the options before it.                    *)
THEOREM OptionIsShown == Spec => []ShowsTheOption
<1>1. IInv => ShowsTheOption
  BY DEF IInv
<1> QED
  BY <1>1, InvHolds, PTL
=============================================================================
