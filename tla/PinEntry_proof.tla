--------------------------- MODULE PinEntry_proof ---------------------------
(***************************************************************************)
(* For every size of the pad, every generator and every length of a pin:   *)
(* a pad that is filled holds every digit, and the pin that the screens of *)
(* src/epmw_firmware/ui/screens/ui_pin_screen.c return is what was typed.  *)
(* What is pressed is compared with the pins from its end, because the     *)
(* history forgets its beginning.                                          *)
(***************************************************************************)
EXTENDS PinEntry, SequenceTheorems, FiniteSetTheorems, TLAPS

USE PadAssumption

(* s ends with t, n places before its end.                                 *)
EndsWith(s, t, n) ==
    /\ Len(t) + n <= Len(s)
    /\ \A i \in 0..(Len(t) - 1) : s[Len(s) - n - i] = t[Len(t) - i]

Types ==
    /\ pc \in {"idle", "pad", "enter", "again", "mismatch"}
    /\ setup \in BOOLEAN /\ length \in MinLength..MaxLength
    /\ state \in 0..(Modulus - 1)
    /\ keys \in Seq(Digits) /\ Len(keys) <= Keys
    /\ active_idx \in Digits
    /\ pin \in Seq(Digits) /\ pin_code \in Seq(Digits) /\ given \in Seq(Digits)
    /\ pressed \in Seq(Digits) /\ Len(pressed) <= 2 * length

Pad ==
    /\ \A i, j \in 1..Len(keys) : keys[i] = keys[j] => i = j
    /\ pc = "enter" => Len(keys) = Keys

(* Typing: the first pin and what there is of the second end the history.  *)
Typing ==
    /\ Len(pin) <= length
    /\ pc \in {"pad", "enter"} =>
          /\ Len(pin) < length
          /\ EndsWith(pressed, pin, 0) /\ EndsWith(pressed, pin_code, Len(pin))
    /\ pc = "again" => setup /\ Len(pin_code) = length /\ EndsWith(pressed, pin_code, 0)
    /\ pin_code # <<>> => setup /\ Len(pin_code) = length

Giving ==
    given # <<>> =>
        /\ pc = "idle" /\ Len(given) = length /\ EndsWith(pressed, given, 0)
        /\ setup => EndsWith(pressed, given, length)

IInv == Types /\ Pad /\ Typing /\ Giving

-----------------------------------------------------------------------------
(* One more digit: what the history ended with, it ends with the digit and *)
(* that, unless it had to be forgotten.                                    *)
LEMMA PressMore ==
    ASSUME NEW s \in Seq(Digits), NEW d \in Digits, NEW m \in Nat, Len(s) <= m, m > 0,
           NEW q, q = IF Len(Append(s, d)) > m THEN Last(Append(s, d), m) ELSE Append(s, d)
    PROVE  /\ q \in Seq(Digits) /\ Len(q) <= m
           /\ Len(q) <= Len(s) + 1 /\ (Len(q) = Len(s) + 1 \/ Len(q) = m)
           /\ q[Len(q)] = d
           /\ \A i \in 1..(Len(q) - 1) : q[Len(q) - i] = s[Len(s) - i + 1]
<1> DEFINE all == Append(s, d)
<1>0. q = IF Len(all) > m THEN Last(all, m) ELSE all
  OBVIOUS
<1>1. /\ all \in Seq(Digits) /\ Len(all) = Len(s) + 1 /\ Len(s) \in Nat
      /\ \A i \in 1..Len(s) : all[i] = s[i]
      /\ all[Len(s) + 1] = d
  BY AppendProperties, LenProperties
<1>2. CASE Len(all) > m
  <2>1. Len(s) = m
    BY <1>1, <1>2
  <2>2. q = SubSeq(all, 2, m + 1)
    <3>1. Len(all) - m + 1 = 2 /\ Len(all) = m + 1
      BY <1>1, <2>1
    <3>2. q = Last(all, m)
      BY <1>0, <1>2
    <3> HIDE DEF all
    <3> QED
      BY <3>1, <3>2 DEF Last
  <2>3. \A i \in 2..(m + 1) : all[i] \in Digits
    BY <1>1, <2>1, ElementOfSeq
  <2>4. /\ q \in Seq(Digits) /\ Len(q) = m
        /\ \A i \in 1..m : q[i] = all[i + 1]
    <3> DEFINE r == SubSeq(all, 2, m + 1)
    <3> HIDE DEF all
    <3>1. 2 \in Int /\ m + 1 \in Int
      OBVIOUS
    <3>2. /\ r \in Seq(Digits) /\ Len(r) = (IF 2 <= m + 1 THEN m + 1 - 2 + 1 ELSE 0)
          /\ \A i \in 1..(m + 1 - 2 + 1) : r[i] = all[2 + i - 1]
      BY <2>3, <3>1, SubSeqProperties
    <3>3. q = r
      BY <2>2
    <3> HIDE DEF r
    <3>4. Len(r) = m
      BY <3>2
    <3>5. ASSUME NEW i \in 1..m PROVE r[i] = all[i + 1]
      <4>1. i \in 1..(m + 1 - 2 + 1) /\ 2 + i - 1 = i + 1
        OBVIOUS
      <4> QED
        BY <3>2, <4>1
    <3> QED
      BY <3>2, <3>3, <3>4, <3>5
  <2> HIDE DEF all
  <2>5. q[m] = d
    BY <1>1, <2>1, <2>4
  <2>6. \A i \in 1..(m - 1) : q[m - i] = s[m - i + 1]
    <3> SUFFICES ASSUME NEW i \in 1..(m - 1) PROVE q[m - i] = s[m - i + 1]
      OBVIOUS
    <3>1. m - i \in 1..m /\ m - i + 1 \in 1..Len(s)
      BY <2>1
    <3> QED
      BY <1>1, <2>4, <3>1
  <2> QED
    BY <1>1, <2>1, <2>4, <2>5, <2>6 DEF all
<1>3. CASE ~(Len(all) > m)
  <2>1. q = all /\ Len(q) = Len(s) + 1
    BY <1>0, <1>1, <1>3
  <2> HIDE DEF all
  <2>2. \A i \in 1..(Len(q) - 1) : q[Len(q) - i] = s[Len(s) - i + 1]
    <3> SUFFICES ASSUME NEW i \in 1..(Len(q) - 1) PROVE q[Len(q) - i] = s[Len(s) - i + 1]
      OBVIOUS
    <3>1. Len(q) - i \in 1..Len(s) /\ Len(q) - i = Len(s) - i + 1
      BY <1>1, <2>1
    <3> QED
      BY <1>1, <2>1, <3>1
  <2> QED
    BY <1>1, <1>3, <2>1, <2>2 DEF all
<1> QED
  BY <1>2, <1>3

(* Distinct keys, as many as digits, hold every digit.                     *)
LEMMA FullPad ==
    ASSUME NEW s \in Seq(Digits), Len(s) = Keys,
           \A i, j \in 1..Len(s) : s[i] = s[j] => i = j
    PROVE  Values(s) = Digits
<1>1. s \in [1..Keys -> Digits]
  BY LenProperties
<1>2. Values(s) \subseteq Digits
  BY <1>1 DEF Values
<1>3. IsFiniteSet(Digits) /\ Cardinality(Digits) = Keys
  <2>1. 0 \in Int /\ Keys - 1 \in Int
    OBVIOUS
  <2>2. IsFiniteSet(0..(Keys - 1)) /\ Cardinality(0..(Keys - 1)) = IF 0 > Keys - 1 THEN 0 ELSE Keys - 1 - 0 + 1
    BY <2>1, FS_Interval
  <2> QED
    BY <2>2 DEF Digits
<1>4. IsFiniteSet(1..Keys) /\ Cardinality(1..Keys) = Keys
  <2>1. 1 \in Int /\ Keys \in Int
    OBVIOUS
  <2>2. IsFiniteSet(1..Keys) /\ Cardinality(1..Keys) = IF 1 > Keys THEN 0 ELSE Keys - 1 + 1
    BY <2>1, FS_Interval
  <2> QED
    BY <2>2
<1>5. s \in Bijection(1..Keys, Values(s))
  <2>1. s \in [1..Keys -> Values(s)]
    BY <1>1 DEF Values
  <2>2. \A v \in Values(s) : \E i \in 1..Keys : s[i] = v
    BY <1>1 DEF Values
  <2> QED
    BY <1>1, <2>1, <2>2 DEF Bijection, Injection, Surjection, IsInjective
<1>6. ExistsBijection(1..Keys, Values(s))
  BY <1>5 DEF ExistsBijection
<1>7. Cardinality(Values(s)) = Keys
  BY <1>4, <1>6, FS_Bijection
<1> QED
  BY <1>2, <1>3, <1>7, FS_Subset

-----------------------------------------------------------------------------
(* What the digits pressed end with, after one more.                       *)
LEMMA EndsMore ==
    ASSUME NEW s \in Seq(Digits), NEW q \in Seq(Digits), NEW t \in Seq(Digits),
           NEW n \in Nat, EndsWith(s, t, n), Len(t) + n < Len(q),
           \A i \in 1..(Len(q) - 1) : q[Len(q) - i] = s[Len(s) - i + 1]
    PROVE  EndsWith(q, t, n + 1)
<1>1. Len(s) \in Nat /\ Len(q) \in Nat /\ Len(t) \in Nat
  BY LenProperties
<1>2. ASSUME NEW i \in 0..(Len(t) - 1) PROVE q[Len(q) - (n + 1) - i] = t[Len(t) - i]
  <2>1. n + 1 + i \in 1..(Len(q) - 1)
    BY <1>1 DEF EndsWith
  <2>2. q[Len(q) - (n + 1 + i)] = s[Len(s) - (n + 1 + i) + 1]
    BY <2>1
  <2>3. Len(q) - (n + 1 + i) = Len(q) - (n + 1) - i /\ Len(s) - (n + 1 + i) + 1 = Len(s) - n - i
    BY <1>1
  <2> QED
    BY <2>2, <2>3 DEF EndsWith
<1> QED
  BY <1>1, <1>2 DEF EndsWith

(* The pin being typed, after one more digit.                              *)
LEMMA PinMore ==
    ASSUME NEW s \in Seq(Digits), NEW q \in Seq(Digits), NEW t \in Seq(Digits),
           NEW d \in Digits, EndsWith(s, t, 0), Len(t) < Len(q), q[Len(q)] = d,
           \A i \in 1..(Len(q) - 1) : q[Len(q) - i] = s[Len(s) - i + 1]
    PROVE  EndsWith(q, Append(t, d), 0)
<1> DEFINE u == Append(t, d)
<1>1. Len(s) \in Nat /\ Len(q) \in Nat /\ Len(t) \in Nat
  BY LenProperties
<1>2. /\ Len(u) = Len(t) + 1
      /\ \A i \in 1..Len(t) : u[i] = t[i]
      /\ u[Len(t) + 1] = d
  BY AppendProperties
<1> HIDE DEF u
<1>3. ASSUME NEW i \in 0..(Len(u) - 1) PROVE q[Len(q) - 0 - i] = u[Len(u) - i]
  <2>1. CASE i = 0
    BY <1>1, <1>2, <2>1
  <2>2. CASE i # 0
    <3>1. i \in 1..(Len(q) - 1) /\ i - 1 \in 0..(Len(t) - 1) /\ Len(u) - i \in 1..Len(t)
      BY <1>1, <1>2, <2>2
    <3>2. q[Len(q) - i] = s[Len(s) - i + 1]
      BY <3>1
    <3>3. s[Len(s) - 0 - (i - 1)] = t[Len(t) - (i - 1)]
      BY <3>1 DEF EndsWith
    <3>4. Len(s) - 0 - (i - 1) = Len(s) - i + 1 /\ Len(t) - (i - 1) = Len(u) - i
          /\ Len(q) - 0 - i = Len(q) - i
      BY <1>1, <1>2
    <3> QED
      BY <1>2, <3>1, <3>2, <3>3, <3>4
  <2> QED
    BY <2>1, <2>2
<1>4. EndsWith(q, u, 0)
  <2>1. Len(u) + 0 <= Len(q)
    BY <1>1, <1>2
  <2> QED
    BY <1>3, <2>1, Zenon DEF EndsWith
<1> QED
  BY <1>4 DEF u

(* An end as long as the whole is the whole.                               *)
LEMMA EndOf ==
    ASSUME NEW s \in Seq(Digits), NEW t \in Seq(Digits), EndsWith(s, t, 0)
    PROVE  Last(s, Len(t)) = t
<1>1. Len(s) \in Nat /\ Len(t) \in Nat /\ Len(t) <= Len(s)
  BY LenProperties DEF EndsWith
<1> DEFINE m == Len(s) - Len(t) + 1
<1>2. m \in Int /\ Len(s) \in Int /\ m >= 1
  BY <1>1
<1>3. \A i \in m..Len(s) : s[i] \in Digits
  BY <1>1, <1>2, ElementOfSeq
<1>4. /\ SubSeq(s, m, Len(s)) \in Seq(Digits)
      /\ Len(SubSeq(s, m, Len(s))) = (IF m <= Len(s) THEN Len(s) - m + 1 ELSE 0)
      /\ \A i \in 1..(Len(s) - m + 1) : SubSeq(s, m, Len(s))[i] = s[m + i - 1]
  <2> HIDE DEF m
  <2> QED
    BY <1>2, <1>3, SubSeqProperties
<1>5. Len(SubSeq(s, m, Len(s))) = Len(t)
  BY <1>1, <1>4
<1>6. ASSUME NEW i \in 1..Len(t) PROVE SubSeq(s, m, Len(s))[i] = t[i]
  <2>1. i \in 1..(Len(s) - m + 1) /\ Len(t) - i \in 0..(Len(t) - 1)
    BY <1>1
  <2>2. s[Len(s) - 0 - (Len(t) - i)] = t[Len(t) - (Len(t) - i)]
    BY <2>1 DEF EndsWith
  <2>3. Len(s) - 0 - (Len(t) - i) = m + i - 1 /\ Len(t) - (Len(t) - i) = i
    BY <1>1
  <2> QED
    BY <1>4, <2>1, <2>2, <2>3
<1>7. SubSeq(s, m, Len(s)) = t
  <2> DEFINE u == SubSeq(s, m, Len(s))
  <2>1. u \in Seq(Digits) /\ Len(u) = Len(t) /\ \A i \in 1..Len(u) : u[i] = t[i]
    BY <1>4, <1>5, <1>6
  <2> HIDE DEF u
  <2>2. u = t
    BY <2>1, SeqEqual
  <2> QED
    BY <2>2 DEF u
<1> QED
  BY <1>7 DEF Last

(* Two ends that fill the whole.                                           *)
LEMMA TwiceOf ==
    ASSUME NEW s \in Seq(Digits), NEW t \in Seq(Digits),
           EndsWith(s, t, 0), EndsWith(s, t, Len(t)), Len(s) <= 2 * Len(t)
    PROVE  s = t \o t
<1>1. Len(s) \in Nat /\ Len(t) \in Nat /\ Len(s) = Len(t) + Len(t)
  BY LenProperties DEF EndsWith
<1>2. /\ t \o t \in Seq(Digits) /\ Len(t \o t) = Len(t) + Len(t)
      /\ \A i \in 1..(Len(t) + Len(t)) :
            (t \o t)[i] = IF i <= Len(t) THEN t[i] ELSE t[i - Len(t)]
  BY ConcatProperties
<1>3. ASSUME NEW i \in 1..Len(s) PROVE s[i] = (t \o t)[i]
  <2>1. CASE i <= Len(t)
    <3>1. Len(t) - i \in 0..(Len(t) - 1)
      BY <1>1, <2>1
    <3>2. s[Len(s) - Len(t) - (Len(t) - i)] = t[Len(t) - (Len(t) - i)]
      BY <3>1 DEF EndsWith
    <3>3. Len(s) - Len(t) - (Len(t) - i) = i /\ Len(t) - (Len(t) - i) = i
      BY <1>1
    <3> QED
      BY <1>1, <1>2, <2>1, <3>2, <3>3
  <2>2. CASE ~(i <= Len(t))
    <3>1. Len(s) - i \in 0..(Len(t) - 1)
      BY <1>1, <2>2
    <3>2. s[Len(s) - 0 - (Len(s) - i)] = t[Len(t) - (Len(s) - i)]
      BY <3>1 DEF EndsWith
    <3>3. Len(s) - 0 - (Len(s) - i) = i /\ Len(t) - (Len(s) - i) = i - Len(t)
      BY <1>1
    <3> QED
      BY <1>1, <1>2, <2>2, <3>2, <3>3
  <2> QED
    BY <2>1, <2>2
<1> QED
  BY <1>1, <1>2, <1>3, SeqEqual

-----------------------------------------------------------------------------
(* The invariant holds at the start.                                       *)
LEMMA InitIInv == Init => IInv
<1> SUFFICES ASSUME Init PROVE IInv
  OBVIOUS
<1>1. Len(<<>>) = 0 /\ <<>> \in Seq(Digits)
  BY EmptySeq
<1>2. Types
  <2>1. 0 \in Digits /\ 0 \in 0..(Modulus - 1) /\ MinLength \in MinLength..MaxLength /\ 0 <= 2 * MinLength
    BY DEF Digits
  <2>2. Len(keys) <= Keys /\ Len(pressed) <= 2 * length
    BY <1>1, <2>1 DEF Init
  <2> QED
    BY <1>1, <2>1, <2>2, Zenon DEF Init, Types
<1>3. Pad /\ Typing /\ Giving
  BY <1>1 DEF Init, Pad, Typing, Giving
<1> QED
  BY <1>2, <1>3 DEF IInv

(* An empty pin ends everything.                                           *)
LEMMA EndsEmpty == ASSUME NEW s \in Seq(Digits) PROVE EndsWith(s, <<>>, 0)
BY EmptySeq, LenProperties DEF EndsWith

(* A new pad: the keys are free, and nothing of the pin is typed.          *)
LEMMA NewPadStep ==
    ASSUME IInv, AskLength \/ TypeAgain \/ Restart
    PROVE  IInv'
<1>1. Len(<<>>) = 0 /\ <<>> \in Seq(Digits) /\ length \in Nat /\ length > 0
  BY EmptySeq DEF IInv, Types
<1>2. keys' = <<>> /\ pin' = <<>> /\ active_idx' = 0 /\ state' = state /\ pc' = "pad"
  BY DEF AskLength, TypeAgain, Restart, NewPad
<1>3. pressed' \in Seq(Digits) /\ pin_code' \in Seq(Digits) /\ given' \in Seq(Digits)
  BY <1>1 DEF AskLength, TypeAgain, Restart, IInv, Types
<1>4. given' = <<>>
  BY DEF AskLength, TypeAgain, Restart, IInv, Giving
<1>5. setup' \in BOOLEAN /\ length' \in MinLength..MaxLength /\ Len(pressed') <= 2 * length'
  BY <1>1 DEF AskLength, TypeAgain, Restart, IInv, Types
<1>6. Types'
  BY <1>1, <1>2, <1>3, <1>5 DEF IInv, Types, Digits
<1>7. Pad'
  BY <1>1, <1>2 DEF Pad
<1>8. EndsWith(pressed', <<>>, 0)
  BY <1>3, EndsEmpty
<1>9. Typing'
  <2>1. Len(pin') = 0 /\ 0 < length'
    BY <1>1, <1>2, <1>5
  <2>2. CASE pin_code' = <<>>
    <3>1. EndsWith(pressed', pin', 0) /\ EndsWith(pressed', pin_code', Len(pin'))
      BY <1>2, <1>8, <2>1, <2>2, Zenon
    <3> QED
      BY <1>2, <1>5, <2>1, <2>2, <3>1 DEF Typing
  <2>3. CASE pin_code' # <<>>
    <3>1. TypeAgain
      BY <2>3 DEF AskLength, Restart
    <3>2. UNCHANGED <<setup, length, pin_code, pressed>> /\ pc = "again"
      BY <3>1 DEF TypeAgain
    <3> QED
      BY <1>2, <1>8, <2>1, <3>2 DEF IInv, Typing
  <2> QED
    BY <2>2, <2>3
<1> QED
  BY <1>4, <1>6, <1>7, <1>9 DEF IInv, Giving

(* A digit is drawn: on the pad if it is not there yet.                    *)
LEMMA DrawDigitStep == ASSUME IInv, DrawDigit PROVE IInv'
<1> DEFINE result == (Multiplier * state + Increment) % Modulus
           digit == result % Keys
<1>1. result \in 0..(Modulus - 1)
  <2>0. state \in Nat
    BY DEF IInv, Types
  <2>1. \A a, b, c \in Nat : a * b + c \in Nat
    OBVIOUS
  <2>2. Multiplier * state + Increment \in Nat
    BY <2>0, <2>1
  <2> DEFINE drawn == Multiplier * state + Increment
  <2>3. drawn \in Nat
    BY <2>2
  <2> HIDE DEF drawn
  <2>4. drawn % Modulus \in 0..(Modulus - 1)
    BY <2>3
  <2> QED
    BY <2>4 DEF drawn
<1>2. digit \in Digits
  <2> HIDE DEF result
  <2> QED
    BY <1>1 DEF Digits
<1>3. /\ pc = "pad" /\ state' = result
      /\ \/ keys' = keys
         \/ keys' = Append(keys, digit) /\ digit \notin Values(keys)
      /\ pc' = IF Len(keys') = Keys THEN "enter" ELSE "pad"
      /\ UNCHANGED <<setup, length, active_idx, pin, pin_code, given, pressed>>
  BY Zenon DEF DrawDigit
<1> HIDE DEF result, digit
<1>4. Len(keys') <= Keys /\ keys' \in Seq(Digits)
      /\ \A i, j \in 1..Len(keys') : keys'[i] = keys'[j] => i = j
  <2>1. CASE keys' = keys
    BY <2>1 DEF IInv, Types, Pad
  <2>2. CASE keys' = Append(keys, digit) /\ digit \notin Values(keys)
    <3>1. /\ keys' \in Seq(Digits) /\ Len(keys') = Len(keys) + 1 /\ Len(keys) \in Nat
          /\ \A i \in 1..Len(keys) : keys'[i] = keys[i]
          /\ keys'[Len(keys) + 1] = digit
      BY <1>2, <2>2, AppendProperties, LenProperties DEF IInv, Types
    <3>2. \A i \in 1..Len(keys) : keys[i] # digit
      BY <2>2 DEF Values
    <3>3. \A i, j \in 1..Len(keys') : keys'[i] = keys'[j] => i = j
      <4> SUFFICES ASSUME NEW i \in 1..Len(keys'), NEW j \in 1..Len(keys'), keys'[i] = keys'[j]
                   PROVE  i = j
        OBVIOUS
      <4>1. (i \in 1..Len(keys) \/ i = Len(keys) + 1) /\ (j \in 1..Len(keys) \/ j = Len(keys) + 1)
        BY <3>1
      <4> QED
        BY <3>1, <3>2, <4>1 DEF IInv, Pad
    <3>4. Len(keys) # Keys
      <4> SUFFICES ASSUME Len(keys) = Keys PROVE FALSE
        OBVIOUS
      <4>1. Values(keys) = Digits
        BY FullPad DEF IInv, Types, Pad
      <4> QED
        BY <1>2, <2>2, <4>1
    <3> QED
      BY <3>1, <3>3, <3>4 DEF IInv, Types
  <2> QED
    BY <1>3, <2>1, <2>2
<1>5. Types'
  BY <1>1, <1>3, <1>4 DEF IInv, Types
<1>6. Pad'
  BY <1>3, <1>4 DEF Pad
<1>7. Typing' /\ Giving'
  BY <1>3 DEF IInv, Typing, Giving
<1> QED
  BY <1>5, <1>6, <1>7 DEF IInv

(* RIGHT: the digit ends the pin and the history.                          *)
LEMMA PressRightStep == ASSUME IInv, PressRight PROVE IInv'
<1> DEFINE d == keys[active_idx + 1]
           all == Append(pressed, d)
<1>1. /\ pc = "enter" /\ pin' = Append(pin, d)
      /\ pressed' = IF Len(all) > 2 * length THEN Last(all, 2 * length) ELSE all
      /\ UNCHANGED <<setup, length, state, keys, active_idx>>
  BY DEF PressRight, pad
<1>2. d \in Digits
  <2>1. active_idx + 1 \in 1..Len(keys)
    BY <1>1 DEF IInv, Types, Pad, Digits
  <2> QED
    BY <2>1, ElementOfSeq DEF IInv, Types
<1> HIDE DEF d
<1>3. length \in Nat /\ length > 0 /\ Len(pressed) \in Nat /\ Len(pin) \in Nat /\ 2 * length \in Nat
      /\ Len(pin_code) \in Nat
  BY LenProperties DEF IInv, Types
<1>4. /\ pin' \in Seq(Digits) /\ Len(pin') = Len(pin) + 1 /\ Len(pin') <= length
      /\ pin' # <<>>
  <2>1. pin \in Seq(Digits) /\ Len(pin) < length
    BY <1>1 DEF IInv, Types, Typing
  <2>2. /\ Append(pin, d) \in Seq(Digits) /\ Append(pin, d) # <<>>
        /\ Len(Append(pin, d)) = Len(pin) + 1
    BY <1>2, <2>1, AppendProperties
  <2> QED
    BY <1>1, <1>3, <2>1, <2>2
<1>5. /\ pressed' \in Seq(Digits) /\ Len(pressed') <= 2 * length
      /\ Len(pressed') <= Len(pressed) + 1
      /\ Len(pressed') = Len(pressed) + 1 \/ Len(pressed') = 2 * length
      /\ pressed'[Len(pressed')] = d
      /\ \A i \in 1..(Len(pressed') - 1) :
            pressed'[Len(pressed') - i] = pressed[Len(pressed) - i + 1]
  <2>1. pressed \in Seq(Digits) /\ Len(pressed) <= 2 * length /\ 2 * length > 0
    BY <1>3 DEF IInv, Types
  <2> DEFINE m == 2 * length
  <2>2. m \in Nat /\ Len(pressed) <= m /\ m > 0
    BY <1>3, <2>1
  <2>3. pressed' = IF Len(Append(pressed, d)) > m THEN Last(Append(pressed, d), m)
                   ELSE Append(pressed, d)
    BY <1>1
  <2> HIDE DEF m
  <2>4. /\ pressed' \in Seq(Digits) /\ Len(pressed') <= m
        /\ Len(pressed') <= Len(pressed) + 1
        /\ Len(pressed') = Len(pressed) + 1 \/ Len(pressed') = m
        /\ pressed'[Len(pressed')] = d
        /\ \A i \in 1..(Len(pressed') - 1) :
              pressed'[Len(pressed') - i] = pressed[Len(pressed) - i + 1]
    BY <1>2, <2>1, <2>2, <2>3, PressMore
  <2> QED
    BY <2>4 DEF m
<1>6. EndsWith(pressed', pin', 0)
  <2>1. EndsWith(pressed, pin, 0) /\ Len(pin) < Len(pressed')
    BY <1>1, <1>3, <1>4, <1>5 DEF IInv, Typing, EndsWith
  <2> QED
    BY <1>1, <1>2, <1>5, <2>1, PinMore DEF IInv, Types
<1>7. EndsWith(pressed', pin_code, Len(pin'))
  <2>1. EndsWith(pressed, pin_code, Len(pin)) /\ pin_code \in Seq(Digits) /\ pressed \in Seq(Digits)
    BY <1>1 DEF IInv, Types, Typing
  <2>2. Len(pin_code) + Len(pin) < Len(pressed')
    <3>1. Len(pin_code) <= length /\ Len(pin) < length
      BY <1>1, <1>3, EmptySeq DEF IInv, Typing
    <3>2. Len(pin_code) + Len(pin) <= Len(pressed)
      BY <2>1 DEF EndsWith
    <3> QED
      BY <1>3, <1>5, <3>1, <3>2
  <2>3. EndsWith(pressed', pin_code, Len(pin) + 1)
    BY <1>3, <1>5, <2>1, <2>2, EndsMore
  <2> QED
    BY <1>4, <2>3
<1>8. Types' /\ Pad'
  <2>1. pc' \in {"idle", "enter", "again", "mismatch"}
    BY <1>1, <1>3, <1>4 DEF PressRight
  <2>2. pin_code' \in {pin_code, pin'} /\ given' \in {given, pin_code, pin'}
    BY <1>3, <1>4 DEF PressRight
  <2> QED
    BY <1>1, <1>4, <1>5, <2>1, <2>2 DEF IInv, Types, Pad
<1>9. given = <<>>
  BY <1>1 DEF IInv, Giving
<1>10. CASE Len(pin') <= length - 1
  <2>1. pc' = "enter" /\ pin_code' = pin_code /\ given' = given
    BY <1>1, <1>3, <1>4, <1>10 DEF PressRight
  <2> QED
    BY <1>1, <1>3, <1>4, <1>6, <1>7, <1>8, <1>9, <1>10, <2>1 DEF IInv, Typing, Giving
<1>11. CASE Len(pin') > length - 1 /\ setup /\ pin_code = <<>>
  <2>1. Len(pin') = length /\ ~(Len(pin') <= length - 1)
    BY <1>3, <1>4, <1>11
  <2>2. pc' = "again" /\ pin_code' = pin' /\ given' = given
    BY <1>11, <2>1, Zenon DEF PressRight
  <2> QED
    BY <1>1, <1>3, <1>4, <1>6, <1>8, <1>9, <1>11, <2>1, <2>2 DEF IInv, Typing, Giving
<1>12. CASE Len(pin') > length - 1 /\ setup /\ pin_code # <<>>
  <2>0. Len(pin') = length /\ Len(pin_code) = length
    BY <1>3, <1>4, <1>12 DEF IInv, Typing
  <2>1. CASE ComparePinCodes(pin_code, pin')
    <3>1. pc' = "idle" /\ given' = pin_code /\ pin_code' = pin_code
      BY <1>1, <1>3, <1>4, <1>12, <2>1 DEF PressRight
    <3>2. pin_code = pin'
      BY <1>4, <2>1, SeqEqual DEF ComparePinCodes, IInv, Types
    <3> QED
      BY <1>1, <1>3, <1>4, <1>6, <1>7, <1>8, <1>12, <2>0, <3>1, <3>2 DEF IInv, Typing, Giving
  <2>2. CASE ~ComparePinCodes(pin_code, pin')
    <3>1. pc' = "mismatch" /\ given' = given /\ pin_code' = pin_code
      BY <1>1, <1>3, <1>4, <1>12, <2>2 DEF PressRight
    <3> QED
      BY <1>1, <1>3, <1>4, <1>8, <1>9, <1>12, <2>0, <3>1 DEF IInv, Typing, Giving
  <2> QED
    BY <2>1, <2>2
<1>13. CASE Len(pin') > length - 1 /\ ~setup
  <2>1. Len(pin') = length /\ ~(Len(pin') <= length - 1)
    BY <1>3, <1>4, <1>13
  <2>2. pc' = "idle" /\ given' = pin' /\ pin_code' = pin_code
    BY <1>13, <2>1, Zenon DEF PressRight
  <2> QED
    BY <1>1, <1>3, <1>4, <1>6, <1>8, <1>13, <2>1, <2>2 DEF IInv, Typing, Giving
<1> QED
  BY <1>3, <1>4, <1>10, <1>11, <1>12, <1>13 DEF IInv, Types

(* LEFT stays on the pad.                                                  *)
LEMMA PressLeftStep == ASSUME IInv, PressLeft PROVE IInv'
<1>1. active_idx' \in Digits
  BY DEF PressLeft, IInv, Types, Digits
<1>2. UNCHANGED <<pc, setup, length, state, keys, pin, pin_code, given, pressed>>
  BY DEF PressLeft, pad
<1>3. Types' /\ Pad'
  BY <1>1, <1>2 DEF IInv, Types, Pad
<1>4. Typing' /\ Giving'
  BY <1>2 DEF IInv, Typing, Giving
<1> QED
  BY <1>3, <1>4 DEF IInv

(* The invariant is inductive.                                             *)
THEOREM Inductive == Spec => []IInv
<1>1. IInv /\ [Next]_vars => IInv'
  <2> SUFFICES ASSUME IInv, [Next]_vars PROVE IInv'
    OBVIOUS
  <2>1. CASE UNCHANGED vars
    <3>1. UNCHANGED <<pc, setup, length, state, keys, active_idx, pin, pin_code, given, pressed>>
      BY <2>1 DEF vars, pad
    <3>2. Types' /\ Pad'
      BY <3>1 DEF IInv, Types, Pad
    <3>3. Typing' /\ Giving'
      BY <3>1 DEF IInv, Typing, Giving
    <3> QED
      BY <3>2, <3>3 DEF IInv
  <2> QED
    BY <2>1, NewPadStep, DrawDigitStep, PressRightStep, PressLeftStep DEF Next
<1> QED
  BY InitIInv, <1>1, PTL DEF Spec

(* The types of the screen's state, for every generator and every length.  *)
THEOREM TypeCorrect == Spec => []TypeOK
<1>1. IInv => TypeOK
  <2> SUFFICES ASSUME IInv PROVE TypeOK
    OBVIOUS
  <2>1. Len(pin_code) <= length /\ Len(given) <= length /\ Len(pin) <= length
    BY EmptySeq DEF IInv, Types, Typing, Giving
  <2> QED
    BY <2>1 DEF IInv, Types, TypeOK
<1> QED
  BY <1>1, Inductive, PTL

(* A pad that is shown holds every digit exactly once.                     *)
THEOREM PadIsComplete == Spec => []PadHoldsEveryDigit
<1>1. IInv => PadHoldsEveryDigit
  BY FullPad DEF IInv, Types, Pad, PadHoldsEveryDigit
<1> QED
  BY <1>1, Inductive, PTL

(* The pin returned is what was pressed last, twice in a row for a new one.*)
THEOREM PinIsAsTyped == Spec => []GivenAsTyped
<1>1. IInv => GivenAsTyped
  <2> SUFFICES ASSUME IInv, pc = "idle", given # <<>>
               PROVE  Last(pressed, length) = given /\ (setup => pressed = given \o given)
    BY DEF GivenAsTyped
  <2>1. /\ given \in Seq(Digits) /\ pressed \in Seq(Digits) /\ Len(given) = length
        /\ EndsWith(pressed, given, 0) /\ Len(pressed) <= 2 * length
    BY DEF IInv, Types, Giving
  <2>2. Last(pressed, length) = given
    BY <2>1, EndOf
  <2>3. ASSUME setup PROVE pressed = given \o given
    BY <2>1, <2>3, TwiceOf DEF IInv, Giving
  <2> QED
    BY <2>2, <2>3
<1> QED
  BY <1>1, Inductive, PTL
=============================================================================
