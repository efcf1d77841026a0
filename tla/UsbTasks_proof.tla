--------------------------- MODULE UsbTasks_proof ---------------------------
(***************************************************************************)
(* For every size of the queues, buffers and packets and whatever the host *)
(* says: the port of src/epmw_firmware/external_libs/usbcdc.c keeps its    *)
(* bounds, and each of its directions is a serial line that keeps order    *)
(* and loses nothing before the line breaks.                               *)
(***************************************************************************)
EXTENDS UsbTasks, Recursion, SequenceTheorems, TLAPS

(* What the port relies on.  Before the host configured the device there   *)
(* is nothing in its endpoints, and until it resets the bus the device     *)
(* stays configured; the packet to be queued has its room in usb_rxq; what *)
(* the host did not say yet is the rest of what it has to say.             *)
PortOK ==
    /\ configured => initialized
    /\ initialized /\ resets = 0 => configured
    /\ ~initialized => at = "poll" /\ inEp = <<>> /\ outEp = <<>>
    /\ at # "queue" => buf = <<>>
    /\ ReadFits
    /\ Len(unsaid) <= Len(HostText)
    /\ unsaid = SubSeq(HostText, Len(HostText) - Len(unsaid) + 1, Len(HostText))

TasksOK ==
    /\ buffer \in Seq(Symbols) /\ got \in Seq(Symbols) /\ displayed \in Seq(Symbols)
    /\ overrun \in BOOLEAN
    /\ blinks \in 0..Len(Tests)

IInv == TypeOK /\ TasksOK /\ PortOK

-----------------------------------------------------------------------------
(* Sequences                                                               *)

(* Three sequences are joined in either order.                             *)
Associates(a, b, c) == (a \o b) \o c = a \o (b \o c)

(* Joining is associative, as a fact by name.                              *)
LEMMA Associate ==
    ASSUME NEW S, NEW a \in Seq(S), NEW b \in Seq(S), NEW c \in Seq(S)
    PROVE  Associates(a, b, c)
<1>1. (a \o b) \o c = a \o (b \o c)
  BY ConcatAssociative, SMTT(30)
<1> QED
  BY <1>1 DEF Associates

(* Putting a sequence together from three parts does not depend on the     *)
(* order in which they are joined, and the parts can be found again.       *)
LEMMA Joined ==
    ASSUME NEW S, NEW a \in Seq(S), NEW b \in Seq(S)
    PROVE  /\ a \o b \in Seq(S) /\ Len(a \o b) = Len(a) + Len(b)
           /\ SubSeq(a \o b, 1, Len(a)) = a
           /\ SubSeq(a \o b, Len(a) + 1, Len(a \o b)) = b
<1> DEFINE p == a \o b
<1>1. /\ p \in Seq(S) /\ Len(p) = Len(a) + Len(b) /\ Len(a) \in Nat /\ Len(b) \in Nat
      /\ \A i \in 1..(Len(a) + Len(b)) : p[i] = IF i <= Len(a) THEN a[i] ELSE b[i - Len(a)]
  BY ConcatProperties, LenProperties
<1> HIDE DEF p
<1>2. \A i \in 1..Len(p) : p[i] \in S
  BY <1>1, ElementOfSeq
<1>3. SubSeq(p, 1, Len(a)) = a
  <2> DEFINE q == SubSeq(p, 1, Len(a))
  <2>1. /\ q \in Seq(S) /\ Len(q) = IF 1 <= Len(a) THEN Len(a) - 1 + 1 ELSE 0
        /\ \A i \in 1..(Len(a) - 1 + 1) : q[i] = p[1 + i - 1]
    <3>1. \A i \in 1..Len(a) : p[i] \in S
      BY <1>1, <1>2
    <3> QED
      BY <1>1, <3>1, SubSeqProperties
  <2> HIDE DEF q
  <2>2. Len(q) = Len(a)
    BY <1>1, <2>1
  <2>3. \A i \in 1..Len(q) : q[i] = a[i]
    BY <1>1, <2>1, <2>2
  <2>4. q = a
    BY <2>1, <2>2, <2>3, SeqEqual
  <2> QED
    BY <2>4 DEF q
<1>4. SubSeq(p, Len(a) + 1, Len(p)) = b
  <2> DEFINE q == SubSeq(p, Len(a) + 1, Len(p))
  <2>1. /\ q \in Seq(S)
        /\ Len(q) = IF Len(a) + 1 <= Len(p) THEN Len(p) - (Len(a) + 1) + 1 ELSE 0
        /\ \A i \in 1..(Len(p) - (Len(a) + 1) + 1) : q[i] = p[Len(a) + 1 + i - 1]
    <3>1. \A i \in (Len(a) + 1)..Len(p) : p[i] \in S
      BY <1>1, <1>2
    <3> QED
      BY <1>1, <3>1, SubSeqProperties
  <2> HIDE DEF q
  <2>2. Len(q) = Len(b)
    BY <1>1, <2>1
  <2>3. \A i \in 1..Len(q) : q[i] = b[i]
    <3> SUFFICES ASSUME NEW i \in 1..Len(q) PROVE q[i] = b[i]
      OBVIOUS
    <3>1. /\ i \in 1..(Len(p) - (Len(a) + 1) + 1) /\ Len(a) + 1 + i - 1 = Len(a) + i
          /\ Len(a) + i \in 1..(Len(a) + Len(b)) /\ ~(Len(a) + i <= Len(a))
          /\ Len(a) + i - Len(a) = i
      BY <1>1, <2>2
    <3>2. q[i] = p[Len(a) + i] /\ p[Len(a) + i] = b[Len(a) + i - Len(a)]
      BY <1>1, <2>1, <3>1, SMTT(30)
    <3> QED
      BY <3>1, <3>2
  <2>4. q = b
    BY <2>1, <2>2, <2>3, SeqEqual, SMTT(30)
  <2> QED
    BY <2>4 DEF q
<1> QED
  BY <1>1, <1>3, <1>4 DEF p

(* A piece of a sequence, place by place.                                  *)
LEMMA Piece ==
    ASSUME NEW S, NEW s \in Seq(S), NEW i \in Nat, NEW j \in Nat, i <= j, j <= Len(s)
    PROVE  /\ SubSeq(s, i + 1, j) \in Seq(S)
           /\ Len(SubSeq(s, i + 1, j)) = j - i
           /\ \A k \in 1..(j - i) : SubSeq(s, i + 1, j)[k] = s[i + k]
<1>1. \A k \in (i + 1)..j : s[k] \in S
  BY LenProperties, ElementOfSeq
<1> DEFINE q == SubSeq(s, i + 1, j)
<1>2. /\ q \in Seq(S) /\ Len(q) = IF i + 1 <= j THEN j - (i + 1) + 1 ELSE 0
      /\ \A k \in 1..(j - (i + 1) + 1) : q[k] = s[i + 1 + k - 1]
  BY <1>1, SubSeqProperties
<1> HIDE DEF q
<1>3. Len(q) = j - i /\ \A k \in 1..(j - i) : q[k] = s[i + k]
  BY <1>2
<1> QED
  BY <1>2, <1>3 DEF q

(* A longer beginning of a sequence continues the shorter one.             *)
LEMMA Beginnings ==
    ASSUME NEW S, NEW s \in Seq(S), NEW i \in Nat, NEW j \in Nat, i < j, j <= Len(s)
    PROVE  /\ IsStrictPrefix(SubSeq(s, 1, i), SubSeq(s, 1, j))
           /\ SubSeq(SubSeq(s, 1, j), Len(SubSeq(s, 1, i)) + 1, Len(SubSeq(s, 1, j)))
              = SubSeq(s, i + 1, j)
<1> DEFINE a == SubSeq(s, 1, i)
           b == SubSeq(s, 1, j)
           m == SubSeq(s, i + 1, j)
<1>1. /\ a \in Seq(S) /\ Len(a) = i /\ b \in Seq(S) /\ Len(b) = j
      /\ m \in Seq(S) /\ Len(m) = j - i
      /\ \A k \in 1..i : a[k] = s[k]
      /\ \A k \in 1..j : b[k] = s[k]
      /\ \A k \in 1..(j - i) : m[k] = s[i + k]
  <2>1. Len(s) \in Nat /\ 0 + 1 = 1 /\ i - 0 = i /\ j - 0 = j /\ i <= Len(s)
    BY LenProperties
  <2>2. /\ SubSeq(s, 0 + 1, i) \in Seq(S) /\ Len(SubSeq(s, 0 + 1, i)) = i - 0
        /\ \A k \in 1..(i - 0) : SubSeq(s, 0 + 1, i)[k] = s[0 + k]
    BY <2>1, Piece
  <2>3. /\ SubSeq(s, 0 + 1, j) \in Seq(S) /\ Len(SubSeq(s, 0 + 1, j)) = j - 0
        /\ \A k \in 1..(j - 0) : SubSeq(s, 0 + 1, j)[k] = s[0 + k]
    BY <2>1, Piece
  <2>4. /\ m \in Seq(S) /\ Len(m) = j - i /\ \A k \in 1..(j - i) : m[k] = s[i + k]
    BY Piece
  <2>5. a = SubSeq(s, 0 + 1, i) /\ b = SubSeq(s, 0 + 1, j)
    BY <2>1
  <2> HIDE DEF a, b, m
  <2>6. a \in Seq(S) /\ Len(a) = i /\ \A k \in 1..i : a[k] = s[0 + k]
    BY <2>1, <2>2, <2>5
  <2>7. b \in Seq(S) /\ Len(b) = j /\ \A k \in 1..j : b[k] = s[0 + k]
    BY <2>1, <2>3, <2>5
  <2>8. \A k \in 1..i : a[k] = s[k]
    BY <2>6
  <2>9. \A k \in 1..j : b[k] = s[k]
    BY <2>7
  <2> QED
    BY <2>4, <2>6, <2>7, <2>8, <2>9
<1> HIDE DEF a, b, m
<1>2. b = a \o m
  <2> DEFINE p == a \o m
  <2>1. /\ p \in Seq(S) /\ Len(p) = j
        /\ \A k \in 1..j : p[k] = IF k <= i THEN a[k] ELSE m[k - i]
    <3>1. /\ p \in Seq(S) /\ Len(p) = Len(a) + Len(m)
          /\ \A k \in 1..(Len(a) + Len(m)) : p[k] = IF k <= Len(a) THEN a[k] ELSE m[k - Len(a)]
      BY <1>1, ConcatProperties
    <3> HIDE DEF p
    <3> QED
      BY <1>1, <3>1
  <2> HIDE DEF p
  <2>2. \A k \in 1..Len(b) : b[k] = p[k]
    <3> SUFFICES ASSUME NEW k \in 1..Len(b) PROVE b[k] = p[k]
      OBVIOUS
    <3>1. CASE k <= i
      <4>1. k \in 1..i /\ k \in 1..j
        BY <1>1, <3>1
      <4> QED
        BY <1>1, <2>1, <3>1, <4>1
    <3>2. CASE ~(k <= i)
      <4>1. k \in 1..j /\ k - i \in 1..(j - i) /\ i + (k - i) = k
        BY <1>1, <3>2
      <4>2. m[k - i] = s[i + (k - i)]
        BY <1>1, <4>1
      <4> QED
        BY <1>1, <2>1, <3>2, <4>1, <4>2
    <3> QED
      BY <3>1, <3>2
  <2>3. b = p
    BY <1>1, <2>1, <2>2, SeqEqual
  <2> QED
    BY <2>3 DEF p
<1>3. SubSeq(b, 1, Len(a)) = a /\ SubSeq(b, Len(a) + 1, Len(b)) = m
  <2>1. SubSeq(a \o m, 1, Len(a)) = a /\ SubSeq(a \o m, Len(a) + 1, Len(a \o m)) = m
    <3>1. a \in Seq(S) /\ m \in Seq(S)
      BY <1>1
    <3> QED
      BY <3>1, Joined
  <2> QED
    BY <1>2, <2>1
<1>4. SubSeq(a, 1, Len(a)) = a
  BY <1>1, SubSeqFull
<1>5. IsStrictPrefix(a, b)
  BY <1>1, <1>3, <1>4 DEF IsStrictPrefix, IsPrefix
<1> QED
  BY <1>3, <1>5 DEF a, b, m

(* One more character continues a sequence.                                *)
LEMMA OneMore ==
    ASSUME NEW S, NEW s \in Seq(S), NEW c \in S
    PROVE  /\ Append(s, c) \in Seq(S) /\ IsStrictPrefix(s, Append(s, c))
           /\ SubSeq(Append(s, c), Len(s) + 1, Len(Append(s, c))) = <<c>>
<1> DEFINE one == <<c>>
           more == Append(s, c)
<1>1. more = s \o one /\ one \in Seq(S) /\ Len(one) = 1 /\ Len(s) \in Nat
  BY AppendIsConcat, LenProperties
<1> HIDE DEF one, more
<1>2. /\ more \in Seq(S) /\ Len(more) = Len(s) + 1
      /\ SubSeq(more, 1, Len(s)) = s /\ SubSeq(more, Len(s) + 1, Len(more)) = one
  <2>1. /\ s \o one \in Seq(S) /\ Len(s \o one) = Len(s) + Len(one)
        /\ SubSeq(s \o one, 1, Len(s)) = s
        /\ SubSeq(s \o one, Len(s) + 1, Len(s \o one)) = one
    <3>1. one \in Seq(S)
      BY <1>1
    <3> QED
      BY <3>1, Joined
  <2> QED
    BY <1>1, <2>1
<1>3. SubSeq(s, 1, Len(s)) = s
  BY SubSeqFull
<1>4. Len(s) <= Len(more) /\ s # more
  <2>1. Len(s) \in Nat
    BY <1>1
  <2> QED
    BY <1>2, <2>1
<1>5. IsStrictPrefix(s, more)
  BY <1>2, <1>3, <1>4 DEF IsPrefix, IsStrictPrefix
<1> QED
  BY <1>2, <1>5 DEF one, more

(* Taking the first character from one sequence to the end of the other.   *)
LEMMA FirstMoves ==
    ASSUME NEW S, NEW s \in Seq(S), NEW t \in Seq(S), t # <<>>
    PROVE  /\ Head(t) \in S /\ Tail(t) \in Seq(S) /\ Len(Tail(t)) = Len(t) - 1
           /\ t = <<Head(t)>> \o Tail(t)
           /\ Append(s, Head(t)) \in Seq(S) /\ Len(Append(s, Head(t))) = Len(s) + 1
           /\ Append(s, Head(t)) \o Tail(t) = s \o t
<1>1. /\ Head(t) \in S /\ Tail(t) \in Seq(S) /\ Len(Tail(t)) = Len(t) - 1
      /\ \A i \in 1..Len(Tail(t)) : Tail(t)[i] = t[i + 1]
  BY HeadTailProperties
<1>2. Len(t) \in Nat /\ Len(t) > 0 /\ Head(t) = t[1]
  BY LenProperties, EmptySeq
<1> DEFINE h == <<Head(t)>>
           r == Tail(t)
           q == h \o r
<1>3. h \in Seq(S) /\ Len(h) = 1 /\ h[1] = Head(t)
  BY <1>1
<1> HIDE DEF h, r
<1>4. /\ q \in Seq(S) /\ Len(q) = Len(h) + Len(r)
      /\ \A i \in 1..(Len(h) + Len(r)) : q[i] = IF i <= Len(h) THEN h[i] ELSE r[i - Len(h)]
  <2>1. h \in Seq(S) /\ r \in Seq(S)
    BY <1>1, <1>3 DEF r
  <2> QED
    BY <2>1, ConcatProperties
<1> HIDE DEF q
<1>5. Len(q) = Len(t) /\ \A i \in 1..Len(t) : t[i] = q[i]
  <2>1. Len(h) = 1 /\ Len(r) = Len(t) - 1
    BY <1>1, <1>3 DEF r
  <2>2. q[1] = t[1]
    BY <1>2, <1>3, <1>4, <2>1
  <2>3. \A i \in 2..Len(t) : q[i] = r[i - 1]
    BY <1>2, <1>4, <2>1
  <2>4. \A i \in 2..Len(t) : r[i - 1] = t[i]
    <3> SUFFICES ASSUME NEW i \in 2..Len(t) PROVE r[i - 1] = t[i]
      OBVIOUS
    <3>1. i - 1 \in 1..Len(r) /\ (i - 1) + 1 = i
      BY <1>2, <2>1
    <3> QED
      BY <1>1, <3>1 DEF r
  <2> QED
    BY <1>2, <1>4, <2>1, <2>2, <2>3, <2>4
<1>6. t = q
  BY <1>4, <1>5, SeqEqual
<1>7. Append(s, Head(t)) = s \o h
  BY <1>1, AppendIsConcat DEF h
<1>8. (s \o h) \o r = s \o (h \o r)
  <2>1. r \in Seq(S)
    BY <1>1 DEF r
  <2> QED
    <3>1. Associates(s, h, r)
      BY <1>3, <2>1, Associate
    <3> QED
      BY <3>1 DEF Associates
<1>9. Append(s, Head(t)) \in Seq(S) /\ Len(Append(s, Head(t))) = Len(s) + 1
  BY <1>1, AppendProperties
<1> QED
  BY <1>1, <1>6, <1>7, <1>8, <1>9 DEF q, h, r

(* A sequence is what its two pieces make.                                 *)
LEMMA CutInTwo ==
    ASSUME NEW S, NEW s \in Seq(S), NEW n \in 0..Len(s)
    PROVE  /\ SubSeq(s, 1, n) \in Seq(S) /\ SubSeq(s, n + 1, Len(s)) \in Seq(S)
           /\ Len(SubSeq(s, 1, n)) = n /\ Len(SubSeq(s, n + 1, Len(s))) = Len(s) - n
           /\ SubSeq(s, 1, n) \o SubSeq(s, n + 1, Len(s)) = s
<1>1. Len(s) \in Nat /\ n \in Nat /\ n <= Len(s) /\ 0 + 1 = 1 /\ n - 0 = n /\ 0 <= n /\ 0 \in Nat
  BY LenProperties
<1>2. SubSeq(s, 0 + 1, n) \in Seq(S) /\ Len(SubSeq(s, 0 + 1, n)) = n - 0
  BY <1>1, Piece
<1>3. SubSeq(s, n + 1, Len(s)) \in Seq(S) /\ Len(SubSeq(s, n + 1, Len(s))) = Len(s) - n
  BY <1>1, Piece
<1>4. SubSeq(s, 1, n) \o SubSeq(s, n + 1, Len(s)) = SubSeq(s, 1, Len(s))
  <2>1. 1 \in 1..(Len(s) + 1) /\ n \in (1 - 1)..Len(s) /\ Len(s) \in n..Len(s)
    BY <1>1
  <2> QED
    BY <2>1, ConcatAdjacentSubSeq
<1>5. SubSeq(s, 1, Len(s)) = s
  BY SubSeqFull
<1> QED
  BY <1>1, <1>2, <1>3, <1>4, <1>5

(* The second sequence is the first with a piece cut out.                  *)
LacksPiece(p, q) ==
    \E i \in 0..Len(p), j \in 0..Len(p) :
        i < j /\ q = SubSeq(p, 1, i) \o SubSeq(p, j + 1, Len(p))

(* The end of a sequence is lost.                                          *)
LEMMA EndLost ==
    ASSUME NEW S, NEW a \in Seq(S), NEW b \in Seq(S), b # <<>>
    PROVE  LacksPiece(a \o b, a)
<1> DEFINE p == a \o b
           e == SubSeq(p, Len(p) + 1, Len(p))
<1>1. /\ p \in Seq(S) /\ Len(p) = Len(a) + Len(b) /\ SubSeq(p, 1, Len(a)) = a
      /\ Len(p) \in Nat /\ Len(a) \in Nat /\ Len(b) \in Nat /\ Len(b) > 0
  BY Joined, LenProperties, EmptySeq
<1> HIDE DEF p
<1>2. e \in Seq(S) /\ Len(e) = 0
  <2>1. p \in Seq(S) /\ Len(p) \in Nat /\ Len(p) <= Len(p) /\ Len(p) - Len(p) = 0
    BY <1>1
  <2>2. e \in Seq(S) /\ Len(e) = Len(p) - Len(p)
    BY <2>1, Piece
  <2> QED
    BY <2>1, <2>2
<1> HIDE DEF e
<1>3. a \o e = a
  <2>1. e = <<>>
    BY <1>2, EmptySeq
  <2>2. a \o <<>> = a
    BY ConcatEmptySeq
  <2> QED
    BY <2>1, <2>2
<1>4. a = SubSeq(p, 1, Len(a)) \o SubSeq(p, Len(p) + 1, Len(p))
  BY <1>1, <1>3 DEF e
<1>5. Len(a) \in 0..Len(p) /\ Len(p) \in 0..Len(p) /\ Len(a) < Len(p)
  BY <1>1
<1>6. LacksPiece(p, a)
  BY <1>4, <1>5 DEF LacksPiece
<1> QED
  BY <1>6 DEF p

(* The beginning of a sequence is lost.                                    *)
LEMMA BeginningLost ==
    ASSUME NEW S, NEW b \in Seq(S), NEW c \in Seq(S), b # <<>>
    PROVE  LacksPiece(b \o c, c)
<1> DEFINE p == b \o c
           e == SubSeq(p, 0 + 1, 0)
<1>1. /\ p \in Seq(S) /\ Len(p) = Len(b) + Len(c) /\ SubSeq(p, Len(b) + 1, Len(p)) = c
      /\ Len(p) \in Nat /\ Len(b) \in Nat /\ Len(c) \in Nat /\ Len(b) > 0
  BY Joined, LenProperties, EmptySeq
<1> HIDE DEF p
<1>2. e \in Seq(S) /\ Len(e) = 0
  <2>1. p \in Seq(S) /\ 0 \in Nat /\ 0 <= 0 /\ 0 <= Len(p) /\ 0 - 0 = 0
    BY <1>1
  <2>2. SubSeq(p, 0 + 1, 0) \in Seq(S) /\ Len(SubSeq(p, 0 + 1, 0)) = 0 - 0
    BY <2>1, Piece
  <2> QED
    BY <2>1, <2>2
<1>3. e \o c = c
  <2>1. e = <<>>
    BY <1>2, EmptySeq
  <2>2. <<>> \o c = c
    BY ConcatEmptySeq
  <2> QED
    BY <2>1, <2>2
<1>4. c = SubSeq(p, 1, 0) \o SubSeq(p, Len(b) + 1, Len(p))
  <2>1. 0 + 1 = 1
    OBVIOUS
  <2> QED
    BY <1>1, <1>3, <2>1
<1>5. 0 \in 0..Len(p) /\ Len(b) \in 0..Len(p) /\ 0 < Len(b)
  BY <1>1
<1>6. \E i \in 0..Len(p), j \in 0..Len(p) :
        i < j /\ c = SubSeq(p, 1, i) \o SubSeq(p, j + 1, Len(p))
  BY <1>4, <1>5
<1>7. LacksPiece(p, c)
  BY <1>6 DEF LacksPiece
<1> QED
  BY <1>7 DEF p

(* What is printed of a buffer is part of it.                              *)
LEMMA CStringIsText ==
    ASSUME NEW s \in Seq(Symbols) PROVE CString(s) \in Seq(Symbols)
<1> DEFINE nuls == {i \in 1..Len(s) : s[i] = Nul}
           first == CHOOSE i \in nuls : \A j \in nuls : i <= j
<1>1. CString(s) = IF nuls = {} THEN s ELSE SubSeq(s, 1, first - 1)
  BY DEF CString
<1>2. CASE nuls # {}
  <2>1. nuls \in SUBSET Nat /\ Len(s) \in Nat
    BY LenProperties
  <2>2. \E i \in nuls : \A j \in nuls : i <= j
    BY <1>2, <2>1, LeastElement
  <2>3. first \in nuls
    BY <2>2
  <2>4. first - 1 \in Nat /\ first - 1 <= Len(s) /\ 0 <= first - 1 /\ 0 + 1 = 1
    BY <2>1, <2>3
  <2> HIDE DEF first
  <2>5. SubSeq(s, 0 + 1, first - 1) \in Seq(Symbols)
    BY <2>4, Piece
  <2> HIDE DEF nuls
  <2> QED
    BY <1>1, <1>2, <2>4, <2>5
<1> QED
  BY <1>1, <1>2

-----------------------------------------------------------------------------
(* More about flattening                                                   *)

(* Flattening what two sequences make joins what they flatten to.          *)
LEMMA FlattenJoined ==
    ASSUME NEW S, NEW a \in Seq(Seq(S)), NEW b \in Seq(Seq(S))
    PROVE  FlattenSeq(a \o b) = FlattenSeq(a) \o FlattenSeq(b)
<1> DEFINE front(n) == SubSeq(b, 1, n)
           N == Len(b)
           T == {n \in 0..N : FlattenSeq(a \o front(n)) = FlattenSeq(a) \o FlattenSeq(front(n))}
<1>1. N \in Nat /\ \A n \in 1..N : b[n] \in Seq(S)
  <2>1. \A n \in 1..Len(b) : b[n] \in Seq(S)
    BY ElementOfSeq
  <2> QED
    BY <2>1, LenProperties
<1>2. \A n \in 0..N : front(n) \in Seq(Seq(S))
  BY CutInTwo
<1>3. \A n \in 0..N : n < N => front(n + 1) = Append(front(n), b[n + 1])
  <2> SUFFICES ASSUME NEW n \in 0..N, n < N PROVE front(n + 1) = Append(front(n), b[n + 1])
    OBVIOUS
  <2>1. 1 \in 1..Len(b) /\ n + 1 \in 1..Len(b) /\ (n + 1) - 1 = n /\ n + 1 \in 1..N
    BY <1>1
  <2>2. SubSeq(b, 1, n + 1) = SubSeq(b, 1, (n + 1) - 1) \o <<b[n + 1]>>
    BY <2>1, SubSeqRecursiveSecond, SMTT(30)
  <2>3. front(n + 1) = front(n) \o <<b[n + 1]>>
    BY <2>1, <2>2
  <2>4. front(n) \in Seq(Seq(S)) /\ b[n + 1] \in Seq(S)
    BY <1>1, <1>2, <2>1
  <2> HIDE DEF front
  <2> QED
    BY <2>3, <2>4, AppendIsConcat, SMTT(30)
<1> HIDE DEF front, N
<1>4. ASSUME NEW n \in 0..N, n < N, n \in T PROVE n + 1 \in T
  <2>1. n + 1 \in 0..N /\ n + 1 \in 1..N
    BY <1>1, <1>4
  <2> DEFINE x == b[n + 1]
             f == front(n)
  <2>2. x \in Seq(S) /\ f \in Seq(Seq(S)) /\ front(n + 1) = Append(f, x)
    BY <1>1, <1>2, <1>3, <1>4, <2>1
  <2> HIDE DEF x, f
  <2>3. FlattenSeq(a \o f) = FlattenSeq(a) \o FlattenSeq(f)
    BY <1>4 DEF f
  <2>4. a \o f \in Seq(Seq(S)) /\ <<x>> \in Seq(Seq(S))
    BY <2>2, ConcatProperties
  <2>5. a \o Append(f, x) = Append(a \o f, x)
    <3> DEFINE af == a \o f
    <3> DEFINE R == Seq(S)
    <3>0. af \in Seq(R) /\ f \in Seq(R) /\ x \in R
      BY <2>2, <2>4
    <3> HIDE DEF af, R
    <3>1. Append(f, x) = f \o <<x>>
      BY <3>0, AppendIsConcat, Zenon
    <3>2. Append(af, x) = af \o <<x>>
      BY <3>0, AppendIsConcat, Zenon
    <3>3. (a \o f) \o <<x>> = a \o (f \o <<x>>)
      <4> DEFINE one == <<x>>
      <4>1. a \in Seq(R) /\ f \in Seq(R) /\ one \in Seq(R)
        BY <2>4, <3>0 DEF R
      <4> HIDE DEF one
      <4>2. (a \o f) \o one = a \o (f \o one)
        <5>1. Associates(a, f, one)
          BY <4>1, Associate
        <5> QED
          BY <5>1 DEF Associates
      <4> QED
        BY <4>2, SMTT(30) DEF one
    <3> QED
      BY <3>1, <3>2, <3>3 DEF af
  <2>6. FlattenSeq(Append(a \o f, x)) = FlattenSeq(a \o f) \o x
    BY <2>2, <2>4, FlattenMore
  <2>7. FlattenSeq(Append(f, x)) = FlattenSeq(f) \o x
    BY <2>2, FlattenMore, SMTT(30)
  <2>8. FlattenSeq(a) \in Seq(S) /\ FlattenSeq(f) \in Seq(S)
    BY <2>2, FlattenType
  <2>9. (FlattenSeq(a) \o FlattenSeq(f)) \o x = FlattenSeq(a) \o (FlattenSeq(f) \o x)
    <3> DEFINE fa == FlattenSeq(a)
               ff == FlattenSeq(f)
    <3>1. fa \in Seq(S) /\ ff \in Seq(S) /\ x \in Seq(S)
      BY <2>2, <2>8
    <3> HIDE DEF fa, ff
    <3>2. (fa \o ff) \o x = fa \o (ff \o x)
      <4>1. Associates(fa, ff, x)
        BY <3>1, Associate
      <4> QED
        BY <4>1 DEF Associates
    <3> QED
      BY <3>2 DEF fa, ff
  <2> QED
    BY <2>1, <2>2, <2>3, <2>5, <2>6, <2>7, <2>9
<1>5. 0 \in T
  <2> DEFINE none == front(0)
  <2>1. none = <<>> /\ none \in Seq(Seq(S)) /\ 0 \in 0..N
    BY <1>1, <1>2, SubSeqEmpty DEF front
  <2>2. FlattenSeq(none) = <<>>
    BY <2>1 DEF FlattenSeq
  <2>3. a \o none = a
    BY <2>1, ConcatEmptySeq
  <2>4. FlattenSeq(a) \o <<>> = FlattenSeq(a)
    BY FlattenType, ConcatEmptySeq
  <2> QED
    BY <2>1, <2>2, <2>3, <2>4
<1> HIDE DEF T
<1>6. N \in T
  <2>1. \A n \in 0..N : n \in T
    BY <1>1, <1>4, <1>5, InductionUpTo
  <2> QED
    BY <1>1, <2>1
<1>7. front(N) = b
  BY SubSeqFull DEF front, N
<1> QED
  BY <1>6, <1>7 DEF T

(* A piece for every element of a sequence.                                *)
Pieces(f, s) == [i \in 1..Len(s) |-> f[s[i]]]

(* They are sequences of T's, as many as s has elements.                   *)
PiecesOf(f, s, T) == Pieces(f, s) \in Seq(Seq(T)) /\ Len(Pieces(f, s)) = Len(s)

(* The pieces and what they flatten to.                                    *)
LEMMA PiecesType ==
    ASSUME NEW S, NEW T, NEW f \in [S -> Seq(T)], NEW s \in Seq(S)
    PROVE  /\ PiecesOf(f, s, T)
           /\ FlattenSeq(Pieces(f, s)) \in Seq(T)
<1> DEFINE q == Pieces(f, s)
           R == Seq(T)
           n == Len(s)
<1>1. n \in Nat
  BY LenProperties
<1>2. q \in [1..n -> R]
  <2>1. f \in [S -> R] /\ \A i \in 1..n : s[i] \in S
    BY ElementOfSeq
  <2> HIDE DEF R
  <2> QED
    BY <2>1 DEF Pieces
<1> HIDE DEF q, R, n
<1>3. q \in Seq(R) /\ Len(q) = n
  BY <1>1, <1>2
<1>4. FlattenSeq(q) \in Seq(T)
  BY <1>3, FlattenType DEF R
<1> QED
  BY <1>3, <1>4 DEF q, R, n, PiecesOf

(* One more element adds its piece at the end.                             *)
LEMMA PiecesOfMore ==
    ASSUME NEW S, NEW T, NEW f \in [S -> Seq(T)], NEW s \in Seq(S), NEW r \in S
    PROVE  FlattenSeq(Pieces(f, Append(s, r))) = FlattenSeq(Pieces(f, s)) \o f[r]
<1> DEFINE more == Append(s, r)
           a == Pieces(f, more)
           q == Pieces(f, s)
           x == f[r]
           p == Append(q, x)
           R == Seq(T)
<1>1. /\ more \in Seq(S) /\ Len(more) = Len(s) + 1
      /\ \A i \in 1..Len(s) : more[i] = s[i]
      /\ more[Len(s) + 1] = r /\ Len(s) \in Nat
  BY AppendProperties, LenProperties
<1> HIDE DEF more
<1>2. a \in Seq(R) /\ Len(a) = Len(s) + 1 /\ q \in Seq(R) /\ Len(q) = Len(s)
  <2>1. PiecesOf(f, more, T) /\ PiecesOf(f, s, T)
    BY <1>1, PiecesType
  <2> QED
    BY <1>1, <2>1 DEF PiecesOf
<1>3. x \in R
  OBVIOUS
<1>4. /\ \A i \in 1..Len(more) : a[i] = f[more[i]]
      /\ \A i \in 1..Len(s) : q[i] = f[s[i]]
  BY DEF Pieces
<1>5. a[Len(s) + 1] = x /\ \A i \in 1..Len(s) : a[i] = q[i]
  <2>1. Len(s) + 1 \in 1..Len(more) /\ \A i \in 1..Len(s) : i \in 1..Len(more)
    BY <1>1
  <2>2. a[Len(s) + 1] = x
    BY <1>1, <1>4, <2>1
  <2> QED
    BY <1>1, <1>4, <2>1, <2>2
<1> HIDE DEF a, q, x, R
<1>6. /\ p \in Seq(R) /\ Len(p) = Len(q) + 1
      /\ \A i \in 1..Len(q) : p[i] = q[i]
      /\ p[Len(q) + 1] = x
  <2>1. q \in Seq(R)
    BY <1>2
  <2> QED
    BY <1>3, <2>1, AppendProperties
<1> HIDE DEF p
<1>7. a = p
  <2>1. Len(a) = Len(p)
    BY <1>2, <1>6
  <2>2. \A i \in 1..Len(a) : a[i] = p[i]
    <3> SUFFICES ASSUME NEW i \in 1..Len(a) PROVE a[i] = p[i]
      OBVIOUS
    <3>1. CASE i \in 1..Len(s)
      <4>1. a[i] = q[i] /\ p[i] = q[i]
        BY <1>2, <1>5, <1>6, <3>1
      <4> QED
        BY <4>1
    <3>2. CASE i = Len(s) + 1
      <4>1. a[i] = x /\ p[i] = x
        BY <1>2, <1>5, <1>6, <3>2
      <4> QED
        BY <4>1
    <3>3. i \in 1..Len(s) \/ i = Len(s) + 1
      BY <1>1, <1>2
    <3> QED
      BY <3>1, <3>2, <3>3
  <2> QED
    BY <1>2, <1>6, <2>1, <2>2, SeqEqual
<1>8. FlattenSeq(p) = FlattenSeq(q) \o x
  BY <1>2, <1>3, FlattenMore, SMTT(30) DEF R, p
<1> QED
  BY <1>7, <1>8 DEF a, more, q, x

-----------------------------------------------------------------------------
(* The invariant                                                           *)

USE SizeAssumption

(* What fits is a sequence of characters.                                  *)
LEMMA FitsIs ==
    ASSUME NEW q, NEW n \in Nat, Fits(q, n)
    PROVE  q \in Seq(Symbols) /\ Len(q) \in Nat /\ Len(q) <= n
BY LenProperties DEF Fits

(* The empty sequence fits everywhere.                                     *)
LEMMA NothingFits ==
    <<>> \in Seq(Symbols) /\ Len(<<>>) = 0 /\ \A n \in Nat : Fits(<<>>, n)
BY DEF Fits

(* At the beginning everything is empty.                                   *)
LEMMA InitInv == TasksInit => IInv
<1> SUFFICES ASSUME TasksInit PROVE IInv
  OBVIOUS
<1>1. /\ <<>> \in Seq([by : Writers, ch : Symbols, sent : BOOLEAN])
      /\ HostText \in Seq(Symbols) /\ Len(HostText) \in Nat /\ Len(Tests) \in Nat
  BY CharAssumption, TextAssumption
<1>2. TypeOK
  <2>1. /\ text \in [Writers -> Seq(Symbols)] /\ given \in [Writers -> Seq(Symbols)]
        /\ crSent \in [Writers -> BOOLEAN]
    BY NothingFits DEF TasksInit, Init
  <2>2. FlagsOK
    <3>1. 0 \in 0..MaxResets /\ 0 \in 0..MaxTimeouts
      OBVIOUS
    <3>2. /\ initialized \in BOOLEAN /\ configured \in BOOLEAN /\ cut \in BOOLEAN
          /\ resets = 0 /\ timeouts = 0 /\ at = "poll"
      BY DEF TasksInit, Init
    <3> QED
      BY <2>1, <3>1, <3>2 DEF FlagsOK
  <2>3. QueuesOK
    BY NothingFits DEF TasksInit, Init, QueuesOK
  <2>4. TextsOK
    <3>1. /\ unsaid = HostText /\ heard = <<>> /\ taken = <<>> /\ put = <<>>
          /\ <<>> \in Seq(Symbols)
      BY DEF TasksInit, Init
    <3> QED
      BY <1>1, <2>1, <3>1 DEF TextsOK
  <2> QED
    BY <2>2, <2>3, <2>4 DEF TypeOK
<1>3. TasksOK
  <2>1. /\ buffer = <<>> /\ got = <<>> /\ displayed = <<>> /\ overrun = FALSE /\ blinks = 0
        /\ <<>> \in Seq(Symbols)
    BY DEF TasksInit
  <2>2. overrun \in BOOLEAN
    BY <2>1, Zenon
  <2>3. blinks \in 0..Len(Tests)
    <3>1. blinks = 0
      BY DEF TasksInit
    <3> QED
      BY <1>1, <3>1
  <2> QED
    BY <2>1, <2>2, <2>3, Zenon DEF TasksOK
<1>4. PortOK
  <2>1. unsaid = SubSeq(HostText, Len(HostText) - Len(unsaid) + 1, Len(HostText))
    <3>1. unsaid = HostText /\ Len(HostText) - Len(HostText) + 1 = 1
      BY <1>1 DEF TasksInit, Init
    <3>2. SubSeq(HostText, 1, Len(HostText)) = HostText
      BY <1>1, SubSeqFull
    <3> QED
      BY <3>1, <3>2
  <2>2. ReadFits
    BY NothingFits DEF TasksInit, Init, ReadFits, Avail
  <2> QED
    BY <1>1, <2>1, <2>2 DEF TasksInit, Init, PortOK
<1> QED
  BY <1>2, <1>3, <1>4 DEF IInv

(* A writer's character enters a queue that has room, or is lost.          *)
LEMMA PutCharInv ==
    ASSUME IInv, NEW w \in Writers, PutChar(w), UNCHANGED <<receiver, blinks>>
    PROVE  IInv'
<1>0. FlagsOK /\ QueuesOK /\ TextsOK /\ TasksOK /\ PortOK
  BY DEF IInv, TypeOK
<1>1. PICK c \in Symbols, cr \in BOOLEAN :
        /\ Send(w, c) /\ crSent' = [crSent EXCEPT ![w] = cr]
        /\ \/ UNCHANGED text
           \/ text' = [text EXCEPT ![w] = Tail(text[w])] /\ Tail(text[w]) \in Seq(Symbols)
  <2>1. text[w] \in Seq(Symbols) /\ text[w] # <<>>
    BY <1>0 DEF TextsOK, PutChar
  <2>2. Head(text[w]) \in Symbols /\ Tail(text[w]) \in Seq(Symbols)
    BY <2>1, HeadTailProperties
  <2>3. CR \in Symbols
    BY CharAssumption
  <2>4. CASE Send(w, CR) /\ crSent' = [crSent EXCEPT ![w] = TRUE] /\ UNCHANGED text
    BY <2>3, <2>4
  <2>5. CASE /\ Send(w, Head(text[w])) /\ crSent' = [crSent EXCEPT ![w] = FALSE]
             /\ text' = [text EXCEPT ![w] = Tail(text[w])]
    BY <2>2, <2>5
  <2> QED
    BY <2>4, <2>5 DEF PutChar
<1>2. /\ Fits(usb_txq', TxQueue) /\ timeouts' \in 0..MaxTimeouts
      /\ put' \in Seq([by : Writers, ch : Symbols, sent : BOOLEAN])
  <2>1. /\ put \in Seq([by : Writers, ch : Symbols, sent : BOOLEAN])
        /\ timeouts \in 0..MaxTimeouts /\ Fits(usb_txq, TxQueue)
    BY <1>0 DEF TextsOK, FlagsOK, QueuesOK
  <2>2. CASE /\ usb_txq' = Append(usb_txq, c) /\ Len(usb_txq) < TxQueue
             /\ put' = Append(put, [by |-> w, ch |-> c, sent |-> TRUE])
             /\ timeouts' = timeouts
    <3>1. usb_txq \in Seq(Symbols) /\ Len(usb_txq) \in Nat
      BY <2>1, FitsIs
    <3>2. Append(usb_txq, c) \in Seq(Symbols) /\ Len(Append(usb_txq, c)) = Len(usb_txq) + 1
      BY <3>1, AppendProperties
    <3>3. Fits(usb_txq', TxQueue)
      BY <2>2, <3>1, <3>2 DEF Fits
    <3>4. put' \in Seq([by : Writers, ch : Symbols, sent : BOOLEAN])
      BY <2>1, <2>2
    <3> QED
      BY <2>1, <2>2, <3>3, <3>4
  <2>3. CASE /\ put' = Append(put, [by |-> w, ch |-> c, sent |-> FALSE])
             /\ usb_txq' = usb_txq /\ TimeOut
    <3>1. timeouts' \in 0..MaxTimeouts
      BY <2>1, <2>3 DEF TimeOut
    <3>2. put' \in Seq([by : Writers, ch : Symbols, sent : BOOLEAN])
      BY <2>1, <2>3
    <3> QED
      BY <2>1, <2>3, <3>1, <3>2
  <2> QED
    BY <1>1, <2>2, <2>3 DEF Send
<1>3. text' \in [Writers -> Seq(Symbols)]
  BY <1>0, <1>1 DEF TextsOK
<1>4. crSent' \in [Writers -> BOOLEAN]
  BY <1>0, <1>1 DEF FlagsOK
<1>5. /\ initialized' = initialized /\ usb_rxq' = usb_rxq /\ at' = at /\ txbuf' = txbuf
      /\ buf' = buf /\ cut' = cut /\ configured' = configured /\ resets' = resets
      /\ unsaid' = unsaid /\ given' = given /\ outEp' = outEp /\ inEp' = inEp
      /\ heard' = heard /\ buffer' = buffer /\ got' = got /\ blinks' = blinks
      /\ overrun' = overrun /\ displayed' = displayed /\ taken' = taken
  BY DEF PutChar, driver, host, receiver
<1>6. FlagsOK' /\ QueuesOK' /\ TextsOK'
  BY <1>0, <1>2, <1>3, <1>4, <1>5, SMTT(30) DEF FlagsOK, QueuesOK, TextsOK
<1>7. TasksOK' /\ PortOK'
  BY <1>0, <1>5 DEF TasksOK, PortOK, ReadFits, Avail
<1> QED
  BY <1>6, <1>7 DEF IInv, TypeOK

(* The callback reads no more than there is room for.                      *)
LEMMA ReceiveInv ==
    ASSUME IInv, Receive, UNCHANGED <<receiver, blinks>> PROVE IInv'
<1> DEFINE n == IF Len(outEp) < ToRead THEN Len(outEp) ELSE ToRead
<1>0. FlagsOK /\ QueuesOK /\ TextsOK /\ TasksOK /\ PortOK
  BY DEF IInv, TypeOK
<1>1. /\ at = "poll" /\ outEp # <<>> /\ Avail > 0
      /\ buf' = SubSeq(outEp, 1, n) /\ outEp' = <<>> /\ at' = "queue"
      /\ cut' = (cut \/ Len(outEp) > ToRead)
      /\ initialized' = initialized /\ usb_rxq' = usb_rxq /\ txbuf' = txbuf
      /\ text' = text /\ crSent' = crSent /\ given' = given
      /\ configured' = configured /\ resets' = resets /\ unsaid' = unsaid
      /\ usb_txq' = usb_txq /\ inEp' = inEp /\ put' = put /\ heard' = heard
      /\ buffer' = buffer /\ got' = got /\ blinks' = blinks
      /\ overrun' = overrun /\ displayed' = displayed /\ taken' = taken
      /\ timeouts' = timeouts
  BY DEF Receive, writers, host, receiver, waits
<1>2. /\ outEp \in Seq(Symbols) /\ Len(outEp) \in Nat
      /\ Len(usb_rxq) \in Nat /\ Len(usb_rxq) <= RxQueue
  BY <1>0, FitsIs DEF QueuesOK
<1>3. n \in Nat /\ n <= Len(outEp) /\ n <= RxBuf /\ n <= RxQueue - Len(usb_rxq)
  BY <1>1, <1>2 DEF ToRead, Avail
<1> HIDE DEF n
<1>4. buf' \in Seq(Symbols) /\ Len(buf') = n
  <2>1. 0 + 1 = 1 /\ n - 0 = n /\ 0 <= n
    BY <1>3
  <2>2. SubSeq(outEp, 0 + 1, n) \in Seq(Symbols) /\ Len(SubSeq(outEp, 0 + 1, n)) = n - 0
    BY <1>2, <1>3, <2>1, Piece
  <2> QED
    BY <1>1, <2>1, <2>2
<1>5. FlagsOK'
  BY <1>0, <1>1 DEF FlagsOK
<1>6. QueuesOK'
  <2>1. Fits(buf', RxBuf)
    BY <1>3, <1>4 DEF Fits
  <2> QED
    BY <1>0, <1>1, <2>1, NothingFits DEF QueuesOK
<1>7. TextsOK' /\ TasksOK'
  BY <1>0, <1>1 DEF TextsOK, TasksOK
<1>8. initialized /\ (resets = 0 => configured)
  BY <1>0, <1>1 DEF PortOK
<1>9. ReadFits'
  BY <1>1, <1>3, <1>4 DEF ReadFits, Avail
<1>10. PortOK'
  BY <1>0, <1>1, <1>8, <1>9 DEF PortOK
<1> QED
  BY <1>5, <1>6, <1>7, <1>10 DEF IInv, TypeOK

(* Every character that was read finds its room in usb_rxq.                *)
LEMMA QueueReceivedInv ==
    ASSUME IInv, QueueReceived, UNCHANGED <<receiver, blinks>> PROVE IInv'
<1>0. FlagsOK /\ QueuesOK /\ TextsOK /\ TasksOK /\ PortOK
  BY DEF IInv, TypeOK
<1>1. /\ at = "queue"
      /\ initialized' = initialized /\ txbuf' = txbuf /\ cut' = cut
      /\ text' = text /\ crSent' = crSent /\ given' = given
      /\ configured' = configured /\ resets' = resets /\ unsaid' = unsaid
      /\ usb_txq' = usb_txq /\ outEp' = outEp /\ inEp' = inEp /\ put' = put
      /\ heard' = heard /\ buffer' = buffer /\ got' = got /\ blinks' = blinks
      /\ overrun' = overrun /\ displayed' = displayed /\ taken' = taken
      /\ timeouts' = timeouts
  BY DEF QueueReceived, writers, host, receiver, waits
<1>2. /\ buf \in Seq(Symbols) /\ Len(buf) \in Nat /\ Len(buf) <= RxBuf
      /\ usb_rxq \in Seq(Symbols) /\ Len(usb_rxq) \in Nat /\ Len(usb_rxq) <= RxQueue
      /\ Len(buf) <= RxQueue - Len(usb_rxq)
  BY <1>0, FitsIs DEF QueuesOK, PortOK, ReadFits, Avail
<1>3. initialized /\ (resets = 0 => configured)
  BY <1>0, <1>1 DEF PortOK
<1>4. TextsOK' /\ TasksOK'
  BY <1>0, <1>1 DEF TextsOK, TasksOK
<1>5. CASE buf # <<>> /\ buf' = Tail(buf) /\ at' = at
           /\ usb_rxq' = IF Avail > 0 THEN Append(usb_rxq, Head(buf)) ELSE usb_rxq
  <2>1. Head(buf) \in Symbols /\ Tail(buf) \in Seq(Symbols) /\ Len(Tail(buf)) = Len(buf) - 1
    BY <1>2, <1>5, HeadTailProperties
  <2>2. Len(buf) > 0
    BY <1>2, <1>5, EmptySeq
  <2>3. usb_rxq' = Append(usb_rxq, Head(buf))
    BY <1>2, <1>5, <2>2 DEF Avail
  <2>4. usb_rxq' \in Seq(Symbols) /\ Len(usb_rxq') = Len(usb_rxq) + 1
    BY <1>2, <2>1, <2>3, AppendProperties
  <2>5. Fits(usb_rxq', RxQueue)
    BY <1>2, <2>2, <2>4 DEF Fits
  <2>6. Fits(buf', RxBuf)
    BY <1>2, <1>5, <2>1 DEF Fits
  <2>7. FlagsOK' /\ QueuesOK'
    BY <1>0, <1>1, <1>5, <2>5, <2>6 DEF FlagsOK, QueuesOK
  <2>8. ReadFits'
    BY <1>2, <1>5, <2>1, <2>4 DEF ReadFits, Avail
  <2>9. PortOK'
    BY <1>0, <1>1, <1>3, <1>5, <2>8 DEF PortOK
  <2> QED
    BY <1>4, <2>7, <2>9 DEF IInv, TypeOK
<1>6. CASE buf = <<>> /\ at' = (IF initialized THEN "fill" ELSE "poll")
           /\ buf' = buf /\ usb_rxq' = usb_rxq
  <2>1. FlagsOK' /\ QueuesOK'
    BY <1>0, <1>1, <1>3, <1>6 DEF FlagsOK, QueuesOK
  <2>2. PortOK'
    BY <1>0, <1>1, <1>3, <1>6 DEF PortOK, ReadFits, Avail
  <2> QED
    BY <1>4, <2>1, <2>2 DEF IInv, TypeOK
<1> QED
  BY <1>5, <1>6 DEF QueueReceived

(* usb_task moves characters between its buffers.                          *)
LEMMA SendingInv ==
    ASSUME IInv, PollNothing \/ Fill \/ Write, UNCHANGED <<receiver, blinks>> PROVE IInv'
<1>0. FlagsOK /\ QueuesOK /\ TextsOK /\ TasksOK /\ PortOK
  BY DEF IInv, TypeOK
<1>1. /\ at \in {"poll", "fill", "write"} /\ at' \in {"poll", "fill", "write"} /\ initialized
      /\ initialized' = initialized /\ usb_rxq' = usb_rxq /\ buf' = buf /\ cut' = cut
      /\ text' = text /\ crSent' = crSent /\ given' = given
      /\ configured' = configured /\ resets' = resets /\ unsaid' = unsaid
      /\ outEp' = outEp /\ put' = put /\ heard' = heard
      /\ buffer' = buffer /\ got' = got /\ blinks' = blinks
      /\ overrun' = overrun /\ displayed' = displayed /\ taken' = taken
      /\ timeouts' = timeouts
  BY <1>0 DEF PollNothing, Fill, Write, writers, host, receiver, waits, PortOK
<1>2. /\ txbuf \in Seq(Symbols) /\ Len(txbuf) \in Nat
      /\ usb_txq \in Seq(Symbols) /\ Len(usb_txq) \in Nat /\ Len(usb_txq) <= TxQueue
  BY <1>0, FitsIs DEF QueuesOK
<1>3. Fits(usb_txq', TxQueue) /\ Fits(txbuf', TxBuf) /\ Fits(inEp', TxBuf)
  <2>1. CASE UNCHANGED <<txbuf, usb_txq, inEp>>
    BY <1>0, <2>1 DEF QueuesOK
  <2>2. CASE Write
    <3>1. usb_txq' = usb_txq /\ ((inEp' = txbuf /\ txbuf' = <<>>) \/ UNCHANGED <<inEp, txbuf>>)
      BY <2>2 DEF Write
    <3> QED
      BY <1>0, <3>1, NothingFits DEF QueuesOK
  <2>3. CASE /\ Len(txbuf) < TxBuf /\ usb_txq # <<>> /\ UNCHANGED inEp
             /\ txbuf' = Append(txbuf, Head(usb_txq)) /\ usb_txq' = Tail(usb_txq)
    <3>1. /\ Tail(usb_txq) \in Seq(Symbols) /\ Len(Tail(usb_txq)) = Len(usb_txq) - 1
          /\ Append(txbuf, Head(usb_txq)) \in Seq(Symbols)
          /\ Len(Append(txbuf, Head(usb_txq))) = Len(txbuf) + 1
      BY <1>2, <2>3, FirstMoves
    <3>2. Fits(txbuf', TxBuf) /\ Fits(usb_txq', TxQueue)
      BY <1>2, <2>3, <3>1 DEF Fits
    <3> QED
      BY <1>0, <2>3, <3>2 DEF QueuesOK
  <2> QED
    BY <2>1, <2>2, <2>3 DEF PollNothing, Fill
<1>4. FlagsOK' /\ QueuesOK' /\ TextsOK'
  BY <1>0, <1>1, <1>3 DEF FlagsOK, QueuesOK, TextsOK
<1>5. PortOK' /\ TasksOK'
  BY <1>0, <1>1 DEF PortOK, TasksOK, ReadFits, Avail
<1> QED
  BY <1>4, <1>5 DEF IInv, TypeOK

(* The host configures and resets the device and reads.                    *)
LEMMA HostInv ==
    ASSUME IInv, SetConfig \/ BusReset \/ HostReads, UNCHANGED <<receiver, blinks>>
    PROVE  IInv'
<1>0. FlagsOK /\ QueuesOK /\ TextsOK /\ TasksOK /\ PortOK
  BY DEF IInv, TypeOK
<1>1. /\ usb_rxq' = usb_rxq /\ txbuf' = txbuf /\ buf' = buf /\ cut' = cut
      /\ text' = text /\ crSent' = crSent /\ given' = given
      /\ unsaid' = unsaid /\ usb_txq' = usb_txq /\ put' = put
      /\ inEp' = <<>> /\ outEp' \in {<<>>, outEp}
      /\ buffer' = buffer /\ got' = got /\ blinks' = blinks
      /\ overrun' = overrun /\ displayed' = displayed /\ taken' = taken
      /\ timeouts' = timeouts
  BY DEF SetConfig, BusReset, HostReads, driver, writers, host, receiver, waits
<1>2. TasksOK'
  BY <1>0, <1>1 DEF TasksOK
<1>3. TextsOK'
  <2>1. CASE heard' = heard
    BY <1>0, <1>1, <2>1 DEF TextsOK
  <2>2. CASE heard' = heard \o inEp
    <3>1. inEp \in Seq(Symbols) /\ heard \in Seq(Symbols)
      BY <1>0, FitsIs DEF QueuesOK, TextsOK
    <3>2. heard' \in Seq(Symbols)
      BY <2>2, <3>1, Joined
    <3> QED
      BY <1>0, <1>1, <3>2 DEF TextsOK
  <2> QED
    BY <2>1, <2>2 DEF SetConfig, BusReset, HostReads
<1>4. QueuesOK'
  BY <1>0, <1>1, NothingFits DEF QueuesOK
<1>5. CASE SetConfig
  <2>1. /\ at = "poll" /\ ~configured /\ initialized' = TRUE /\ configured' = TRUE
        /\ at' = "fill" /\ resets' = resets
    BY <1>5 DEF SetConfig
  <2>2. FlagsOK'
    BY <1>0, <1>1, <2>1 DEF FlagsOK
  <2>3. PortOK'
    BY <1>0, <1>1, <2>1 DEF PortOK, ReadFits, Avail
  <2> QED
    BY <1>2, <1>3, <1>4, <2>2, <2>3 DEF IInv, TypeOK
<1>6. CASE BusReset
  <2>1. /\ configured /\ resets < MaxResets /\ configured' = FALSE /\ resets' = resets + 1
        /\ initialized' = initialized /\ at' = at
    BY <1>6 DEF BusReset, driver
  <2>2. resets \in 0..MaxResets
    BY <1>0 DEF FlagsOK
  <2>3. resets' \in 0..MaxResets /\ resets' # 0
    BY <2>1, <2>2
  <2>4. FlagsOK'
    BY <1>0, <1>1, <2>1, <2>3 DEF FlagsOK
  <2>5. initialized
    BY <1>0, <2>1 DEF PortOK
  <2>6. PortOK'
    BY <1>0, <1>1, <2>1, <2>3, <2>5 DEF PortOK, ReadFits, Avail
  <2> QED
    BY <1>2, <1>3, <1>4, <2>4, <2>6 DEF IInv, TypeOK
<1>7. CASE HostReads
  <2>1. /\ configured' = configured /\ resets' = resets /\ outEp' = outEp
        /\ initialized' = initialized /\ at' = at
    BY <1>7 DEF HostReads, driver, host
  <2>2. FlagsOK'
    BY <1>0, <1>1, <2>1 DEF FlagsOK
  <2>3. PortOK'
    BY <1>0, <1>1, <2>1 DEF PortOK, ReadFits, Avail
  <2> QED
    BY <1>2, <1>3, <1>4, <2>2, <2>3 DEF IInv, TypeOK
<1> QED
  BY <1>5, <1>6, <1>7

(* What the host writes next continues what it said.                       *)
LEMMA NextWords ==
    ASSUME IInv, NEW n \in 1..Packet, n <= Len(unsaid)
    PROVE  /\ SubSeq(unsaid, 1, n) \in Seq(Symbols) /\ Len(SubSeq(unsaid, 1, n)) = n
           /\ SubSeq(unsaid, n + 1, Len(unsaid)) \in Seq(Symbols)
           /\ Len(SubSeq(unsaid, n + 1, Len(unsaid))) = Len(unsaid) - n
           /\ SubSeq(unsaid, 1, n)
              = SubSeq(HostText, Len(HostText) - Len(unsaid) + 1, Len(HostText) - Len(unsaid) + n)
           /\ SubSeq(unsaid, n + 1, Len(unsaid))
              = SubSeq(HostText, Len(HostText) - Len(unsaid) + n + 1, Len(HostText))
<1> DEFINE all == HostText
           k == Len(HostText) - Len(unsaid)
           m == Len(unsaid)
           first == SubSeq(unsaid, 1, n)
           rest == SubSeq(unsaid, n + 1, m)
           said == SubSeq(all, k + 1, k + n)
           more == SubSeq(all, k + n + 1, Len(all))
<1>1. /\ unsaid \in Seq(Symbols) /\ m \in Nat /\ Len(all) \in Nat /\ m <= Len(all)
      /\ k \in Nat /\ n \in Nat /\ n > 0 /\ n <= m /\ k + m = Len(all)
      /\ unsaid = SubSeq(all, k + 1, Len(all)) /\ all \in Seq(Symbols)
  <2>1. unsaid \in Seq(Symbols) /\ all \in Seq(Symbols) /\ Len(unsaid) <= Len(all)
    BY CharAssumption DEF IInv, TypeOK, TextsOK, PortOK
  <2>2. Len(unsaid) \in Nat /\ Len(all) \in Nat
    BY <2>1, LenProperties
  <2>3. unsaid = SubSeq(all, k + 1, Len(all))
    BY DEF IInv, PortOK
  <2>4. n \in Nat /\ n > 0 /\ n <= Len(unsaid)
    OBVIOUS
  <2> HIDE DEF all
  <2> QED
    BY <2>1, <2>2, <2>3, <2>4
<1> HIDE DEF all, k, m
<1>2. \A i \in 1..m : unsaid[i] = all[k + i]
  <2>1. \A i \in 1..(Len(all) - k) : SubSeq(all, k + 1, Len(all))[i] = all[k + i]
    BY <1>1, Piece
  <2> QED
    BY <1>1, <2>1
<1>3. /\ first \in Seq(Symbols) /\ Len(first) = n
      /\ \A i \in 1..n : first[i] = unsaid[i]
  <2>1. 0 + 1 = 1 /\ n - 0 = n /\ 0 <= n /\ 0 \in Nat /\ m = Len(unsaid)
    BY <1>1 DEF m
  <2>2. /\ SubSeq(unsaid, 0 + 1, n) \in Seq(Symbols)
        /\ Len(SubSeq(unsaid, 0 + 1, n)) = n - 0
        /\ \A i \in 1..(n - 0) : SubSeq(unsaid, 0 + 1, n)[i] = unsaid[0 + i]
    BY <1>1, <2>1, Piece, SMTT(30)
  <2>3. \A i \in 1..n : unsaid[0 + i] = unsaid[i]
    BY <1>1
  <2> QED
    BY <2>1, <2>2, <2>3
<1>4. /\ rest \in Seq(Symbols) /\ Len(rest) = m - n
      /\ \A i \in 1..(m - n) : rest[i] = unsaid[n + i]
  <2>1. m = Len(unsaid)
    BY DEF m
  <2> QED
    BY <1>1, <2>1, Piece, SMTT(30)
<1>5. /\ said \in Seq(Symbols) /\ Len(said) = n
      /\ \A i \in 1..n : said[i] = all[k + i]
  <2>1. k + n \in Nat /\ k <= k + n /\ k + n <= Len(all) /\ (k + n) - k = n
    BY <1>1
  <2> QED
    BY <1>1, <2>1, Piece
<1>6. /\ more \in Seq(Symbols) /\ Len(more) = m - n
      /\ \A i \in 1..(m - n) : more[i] = all[(k + n) + i]
  <2>1. k + n \in Nat /\ k + n <= Len(all) /\ Len(all) - (k + n) = m - n
    BY <1>1
  <2> QED
    BY <1>1, <2>1, Piece
<1> HIDE DEF first, rest, said, more
<1>7. first = said
  <2>1. \A i \in 1..n : first[i] = said[i]
    <3> SUFFICES ASSUME NEW i \in 1..n PROVE first[i] = said[i]
      OBVIOUS
    <3>1. i \in 1..m
      BY <1>1
    <3> QED
      BY <1>2, <1>3, <1>5, <3>1
  <2> QED
    BY <1>3, <1>5, <2>1, SeqEqual
<1>8. rest = more
  <2>1. \A i \in 1..(m - n) : rest[i] = more[i]
    <3> SUFFICES ASSUME NEW i \in 1..(m - n) PROVE rest[i] = more[i]
      OBVIOUS
    <3>1. n + i \in 1..m /\ k + (n + i) = (k + n) + i
      BY <1>1
    <3> QED
      BY <1>2, <1>4, <1>6, <3>1
  <2> QED
    BY <1>4, <1>6, <2>1, SeqEqual
<1> QED
  BY <1>1, <1>3, <1>4, <1>7, <1>8 DEF first, rest, said, more, k, m, all

(* The host writes a packet.                                               *)
LEMMA HostWritesInv ==
    ASSUME IInv, HostWrites, UNCHANGED <<receiver, blinks>> PROVE IInv'
<1>0. /\ FlagsOK /\ QueuesOK /\ TextsOK /\ TasksOK /\ PortOK
  BY DEF IInv, TypeOK
<1>1. PICK n \in 1..Packet :
        /\ configured /\ outEp = <<>> /\ n <= Len(unsaid)
        /\ outEp' = SubSeq(unsaid, 1, n)
        /\ unsaid' = SubSeq(unsaid, n + 1, Len(unsaid))
  BY DEF HostWrites
<1>2. /\ initialized' = initialized /\ usb_rxq' = usb_rxq /\ at' = at /\ txbuf' = txbuf
      /\ buf' = buf /\ cut' = cut /\ text' = text /\ crSent' = crSent /\ given' = given
      /\ configured' = configured /\ resets' = resets
      /\ usb_txq' = usb_txq /\ inEp' = inEp /\ put' = put /\ heard' = heard
      /\ buffer' = buffer /\ got' = got /\ blinks' = blinks
      /\ overrun' = overrun /\ displayed' = displayed /\ taken' = taken
      /\ timeouts' = timeouts
  BY DEF HostWrites, driver, writers, receiver, waits
<1>3. /\ outEp' \in Seq(Symbols) /\ Len(outEp') = n
      /\ unsaid' \in Seq(Symbols) /\ Len(unsaid') = Len(unsaid) - n
      /\ unsaid' = SubSeq(HostText, Len(HostText) - Len(unsaid) + n + 1, Len(HostText))
  BY <1>1, NextWords
<1>4. Len(HostText) - Len(unsaid') = Len(HostText) - Len(unsaid) + n
  <2>1. Len(unsaid) \in Nat /\ Len(HostText) \in Nat
    BY <1>0, CharAssumption, LenProperties DEF TextsOK
  <2>2. Len(unsaid') = Len(unsaid) - n
    BY <1>3
  <2> QED
    BY <2>1, <2>2
<1>5. Len(unsaid') <= Len(HostText)
  <2>1. Len(unsaid) \in Nat /\ Len(HostText) \in Nat /\ Len(unsaid) <= Len(HostText)
    BY <1>0, CharAssumption, LenProperties DEF TextsOK, PortOK
  <2>2. Len(unsaid') = Len(unsaid) - n
    BY <1>3
  <2> QED
    BY <2>1, <2>2
<1>6. unsaid' = SubSeq(HostText, Len(HostText) - Len(unsaid') + 1, Len(HostText))
  BY <1>3, <1>4
<1>7. QueuesOK'
  <2>1. n <= Packet
    OBVIOUS
  <2>2. Fits(outEp', Packet)
    BY <1>3, <2>1 DEF Fits
  <2> QED
    BY <1>0, <1>2, <2>2 DEF QueuesOK
<1>8. FlagsOK' /\ TextsOK' /\ TasksOK'
  BY <1>0, <1>2, <1>3, SMTT(30) DEF FlagsOK, TextsOK, TasksOK
<1>9. initialized
  BY <1>0, <1>1 DEF PortOK
<1>10. ReadFits'
  BY <1>0, <1>2 DEF PortOK, ReadFits, Avail
<1>11. PortOK'
  BY <1>0, <1>2, <1>5, <1>6, <1>9, <1>10 DEF PortOK
<1> QED
  BY <1>7, <1>8, <1>11 DEF IInv, TypeOK

(* A text is given to a task to put.                                       *)
LEMMA PutsKeeps ==
    ASSUME TextsOK, FlagsOK, NEW w \in Writers, NEW s \in Seq(Symbols), Puts(w, s)
    PROVE  /\ text' \in [Writers -> Seq(Symbols)] /\ given' \in [Writers -> Seq(Symbols)]
           /\ crSent' \in [Writers -> BOOLEAN]
<1>1. /\ text' = [text EXCEPT ![w] = s] /\ given' = [given EXCEPT ![w] = given[w] \o s]
      /\ crSent' = crSent
  BY DEF Puts
<1>2. /\ text \in [Writers -> Seq(Symbols)] /\ given \in [Writers -> Seq(Symbols)]
      /\ crSent \in [Writers -> BOOLEAN] /\ given[w] \in Seq(Symbols)
  BY DEF TextsOK, FlagsOK
<1>3. given[w] \o s \in Seq(Symbols)
  BY <1>2, Joined
<1>4. text' \in [Writers -> Seq(Symbols)]
  BY <1>1, <1>2
<1>5. given' \in [Writers -> Seq(Symbols)]
  BY <1>1, <1>2, <1>3
<1> QED
  BY <1>1, <1>2, <1>4, <1>5

(* usb_getc takes a character out of its queue or makes one up.            *)
LEMMA GetcKeeps ==
    ASSUME QueuesOK, TextsOK, FlagsOK, NEW c \in Symbols, Getc(c)
    PROVE  /\ Fits(usb_rxq', RxQueue) /\ Len(usb_rxq') <= Len(usb_rxq)
           /\ taken' \in Seq(Symbols) /\ timeouts' \in 0..MaxTimeouts
           /\ Len(usb_rxq') \in Nat
<1>1. /\ usb_rxq \in Seq(Symbols) /\ Len(usb_rxq) \in Nat /\ Len(usb_rxq) <= RxQueue
      /\ taken \in Seq(Symbols) /\ timeouts \in 0..MaxTimeouts
  BY FitsIs DEF QueuesOK, TextsOK, FlagsOK
<1>2. CASE usb_rxq # <<>> /\ usb_rxq' = Tail(usb_rxq) /\ taken' = Append(taken, c)
           /\ timeouts' = timeouts
  <2>1. Tail(usb_rxq) \in Seq(Symbols) /\ Len(Tail(usb_rxq)) = Len(usb_rxq) - 1
    BY <1>1, <1>2, HeadTailProperties
  <2>2. Len(usb_rxq) > 0
    BY <1>1, <1>2, EmptySeq
  <2>3. Append(taken, c) \in Seq(Symbols)
    BY <1>1
  <2> QED
    BY <1>1, <1>2, <2>1, <2>2, <2>3 DEF Fits
<1>3. CASE usb_rxq' = usb_rxq /\ taken' = taken /\ TimeOut
  BY <1>1, <1>3 DEF TimeOut, Fits
<1> QED
  BY <1>2, <1>3 DEF Getc

(* The receiver takes a character, and stores it or overruns its buffer.   *)
LEMMA ReceiveCharInv == ASSUME IInv, ReceiveChar PROVE IInv'
<1>0. FlagsOK /\ QueuesOK /\ TextsOK /\ TasksOK /\ PortOK
  BY DEF IInv, TypeOK
<1>1. PICK c \in Symbols :
        /\ Getc(c) /\ got' = Append(got, c)
        /\ Store(c) \/ Overrun
  BY DEF ReceiveChar
<1>2. /\ initialized' = initialized /\ at' = at /\ txbuf' = txbuf /\ buf' = buf /\ cut' = cut
      /\ configured' = configured /\ resets' = resets /\ unsaid' = unsaid
      /\ usb_txq' = usb_txq /\ outEp' = outEp /\ inEp' = inEp /\ put' = put
      /\ heard' = heard /\ blinks' = blinks /\ displayed' = displayed
  BY DEF ReceiveChar, host
<1>3. /\ Len(usb_rxq) \in Nat /\ Len(buf) \in Nat
      /\ buffer \in Seq(Symbols) /\ got \in Seq(Symbols) /\ overrun \in BOOLEAN
  BY <1>0, FitsIs DEF QueuesOK, TasksOK
<1>4. /\ Fits(usb_rxq', RxQueue) /\ Len(usb_rxq') <= Len(usb_rxq) /\ Len(usb_rxq') \in Nat
      /\ taken' \in Seq(Symbols) /\ timeouts' \in 0..MaxTimeouts
  BY <1>0, <1>1, GetcKeeps
<1>5. got' \in Seq(Symbols)
  BY <1>1, <1>3
<1>6. /\ buffer' \in Seq(Symbols) /\ overrun' \in BOOLEAN
      /\ UNCHANGED writers \/ Puts("receiver", Received \o CString(buffer'))
  <2>1. CASE Overrun
    BY <1>3, <2>1 DEF Overrun
  <2>2. CASE Store(c)
    <3>1. /\ buffer' = Append(buffer, c) /\ overrun' = overrun
          /\ UNCHANGED writers \/ Puts("receiver", Received \o CString(buffer'))
      BY <2>2 DEF Store
    <3>2. Append(buffer, c) \in Seq(Symbols)
      BY <1>3
    <3> QED
      BY <1>3, <3>1, <3>2
  <2> QED
    BY <1>1, <2>1, <2>2
<1>7. /\ text' \in [Writers -> Seq(Symbols)] /\ given' \in [Writers -> Seq(Symbols)]
      /\ crSent' \in [Writers -> BOOLEAN]
  <2>1. CASE UNCHANGED writers
    BY <1>0, <2>1 DEF writers, TextsOK, FlagsOK
  <2>2. CASE Puts("receiver", Received \o CString(buffer'))
    <3>1. CString(buffer') \in Seq(Symbols)
      BY <1>6, CStringIsText
    <3>2. Received \in Seq(Symbols) /\ "receiver" \in Writers
      BY TextAssumption
    <3>3. Received \o CString(buffer') \in Seq(Symbols)
      BY <3>1, <3>2, Joined
    <3> QED
      BY <1>0, <2>2, <3>2, <3>3, PutsKeeps
  <2> QED
    BY <1>6, <2>1, <2>2
<1>8. QueuesOK'
  BY <1>0, <1>2, <1>4 DEF QueuesOK
<1>9. FlagsOK' /\ TextsOK' /\ TasksOK'
  BY <1>0, <1>2, <1>4, <1>5, <1>6, <1>7, SMTT(30) DEF FlagsOK, TextsOK, TasksOK
<1>10. ReadFits'
  <2>1. Len(buf) <= RxQueue - Len(usb_rxq)
    BY <1>0 DEF PortOK, ReadFits, Avail
  <2>2. Len(buf) <= RxQueue - Len(usb_rxq')
    BY <1>3, <1>4, <2>1
  <2> QED
    BY <1>2, <2>2 DEF ReadFits, Avail
<1>11. PortOK'
  BY <1>0, <1>2, <1>10 DEF PortOK
<1> QED
  BY <1>8, <1>9, <1>11 DEF IInv, TypeOK

(* The other steps of the two tasks.                                       *)
LEMMA TaskInv == ASSUME IInv, Answered \/ Blink PROVE IInv'
<1>0. FlagsOK /\ QueuesOK /\ TextsOK /\ TasksOK /\ PortOK
  BY DEF IInv, TypeOK
<1>1. /\ initialized' = initialized /\ usb_rxq' = usb_rxq /\ at' = at /\ txbuf' = txbuf
      /\ buf' = buf /\ cut' = cut /\ configured' = configured /\ resets' = resets
      /\ unsaid' = unsaid /\ usb_txq' = usb_txq /\ outEp' = outEp /\ inEp' = inEp
      /\ put' = put /\ heard' = heard /\ got' = got /\ overrun' = overrun
      /\ taken' = taken /\ timeouts' = timeouts
  BY DEF Answered, Blink, vars, driver, host, receiver, waits
<1>2. PortOK' /\ QueuesOK'
  BY <1>0, <1>1 DEF PortOK, ReadFits, Avail, QueuesOK
<1>3. CASE Answered
  <2>1. buffer' = <<>> /\ blinks' = blinks /\ text' = text /\ given' = given /\ crSent' = crSent
    BY <1>3 DEF Answered, vars, writers
  <2>2. displayed' \in Seq(Symbols)
    BY <1>0, <1>3, CStringIsText DEF Answered, TasksOK
  <2>3. FlagsOK' /\ TextsOK' /\ TasksOK'
    BY <1>0, <1>1, <2>1, <2>2, NothingFits DEF FlagsOK, TextsOK, TasksOK
  <2> QED
    BY <1>2, <2>3 DEF IInv, TypeOK
<1>4. CASE Blink
  <2>1. /\ buffer' = buffer /\ displayed' = displayed /\ blinks' = blinks + 1 /\ blinks < Len(Tests)
        /\ Puts("blink", Tests[blinks + 1])
    BY <1>4 DEF Blink, receiver
  <2>2. Tests \in Seq(Seq(Symbols)) /\ Len(Tests) \in Nat /\ "blink" \in Writers
    BY TextAssumption
  <2>3. blinks + 1 \in 1..Len(Tests) /\ blinks + 1 \in 0..Len(Tests)
    BY <1>0, <2>1, <2>2 DEF TasksOK
  <2>4. Tests[blinks + 1] \in Seq(Symbols)
    BY <2>2, <2>3, ElementOfSeq
  <2>5. /\ text' \in [Writers -> Seq(Symbols)] /\ given' \in [Writers -> Seq(Symbols)]
        /\ crSent' \in [Writers -> BOOLEAN]
    BY <1>0, <2>1, <2>2, <2>4, PutsKeeps
  <2>6. FlagsOK' /\ TextsOK' /\ TasksOK'
    BY <1>0, <1>1, <2>1, <2>3, <2>5 DEF FlagsOK, TextsOK, TasksOK
  <2> QED
    BY <1>2, <2>6 DEF IInv, TypeOK
<1> QED
  BY <1>3, <1>4

(* Every step keeps the invariant.                                         *)
LEMMA NextInv == IInv /\ [Next]_tasksVars => IInv'
<1> SUFFICES ASSUME IInv, [Next]_tasksVars PROVE IInv'
  OBVIOUS
<1>1. CASE Tasks
  BY <1>1, ReceiveCharInv, TaskInv DEF Tasks
<1>2. CASE Port
  <2>1. UNCHANGED <<receiver, blinks>> /\ (UsbTask \/ Host \/ \E w \in Writers : PutChar(w))
    BY <1>2 DEF Port
  <2>2. CASE UsbTask
    BY <2>1, <2>2, ReceiveInv, QueueReceivedInv, SendingInv DEF UsbTask
  <2>3. CASE Host
    BY <2>1, <2>3, HostInv, HostWritesInv DEF Host
  <2>4. CASE \E w \in Writers : PutChar(w)
    BY <2>1, <2>4, PutCharInv
  <2> QED
    BY <2>1, <2>2, <2>3, <2>4
<1>3. CASE UNCHANGED tasksVars
  <2>1. /\ initialized' = initialized /\ usb_rxq' = usb_rxq /\ at' = at /\ txbuf' = txbuf
        /\ buf' = buf /\ cut' = cut /\ configured' = configured /\ resets' = resets
        /\ unsaid' = unsaid /\ usb_txq' = usb_txq /\ outEp' = outEp /\ inEp' = inEp
        /\ put' = put /\ heard' = heard /\ got' = got /\ buffer' = buffer
        /\ overrun' = overrun /\ displayed' = displayed /\ taken' = taken
        /\ timeouts' = timeouts /\ blinks' = blinks /\ text' = text /\ given' = given /\ crSent' = crSent
    BY <1>3 DEF tasksVars, vars, driver, writers, host, receiver, waits
  <2>2. FlagsOK' /\ QueuesOK' /\ TextsOK' /\ TasksOK' /\ PortOK'
    BY <2>1, SMTT(30) DEF IInv, TypeOK, FlagsOK, QueuesOK, TextsOK, TasksOK, PortOK, ReadFits, Avail
  <2> QED
    BY <2>2 DEF IInv, TypeOK
<1> QED
  BY <1>1, <1>2, <1>3 DEF Next

(* The strengthening holds in every state of the port and its tasks.       *)
THEOREM InvHolds == Spec => []IInv
BY InitInv, NextInv, PTL DEF Spec

(* No queue, buffer or packet outgrows its size.                           *)
THEOREM TypesHold == Spec => []TypeOK
<1>1. IInv => TypeOK
  BY DEF IInv
<1> QED
  BY <1>1, InvHolds, PTL

(* The callback never drops a character it has read: the room it saw is    *)
(* still there when it queues them, however the reader runs in between.    *)
THEOREM NothingReadIsDropped == Spec => []ReadFits
<1>1. IInv => ReadFits
  BY DEF IInv, PortOK
<1> QED
  BY <1>1, InvHolds, PTL

-----------------------------------------------------------------------------
(* The way out is a serial line                                            *)

(* What usb_putc sends, and what of it enters the queue.                   *)
PutRecord == [by : Writers, ch : Symbols, sent : BOOLEAN]
Entered == [r \in PutRecord |-> IF r.sent THEN <<r.ch>> ELSE <<>>]

(* The characters of what was put are those that entered the queue.        *)
LEMMA CharsIs ==
    ASSUME NEW s \in Seq(PutRecord)
    PROVE  Chars(s) = FlattenSeq(Pieces(Entered, s)) /\ Chars(s) \in Seq(Symbols)
<1>1. Entered \in [PutRecord -> Seq(Symbols)]
  BY DEF Entered, PutRecord
<1>2. [i \in 1..Len(s) |-> IF s[i].sent THEN <<s[i].ch>> ELSE <<>>] = Pieces(Entered, s)
  <2>1. \A i \in 1..Len(s) : s[i] \in PutRecord
    BY ElementOfSeq
  <2> QED
    BY <2>1 DEF Pieces, Entered
<1>3. Chars(s) = FlattenSeq(Pieces(Entered, s))
  BY <1>2 DEF Chars
<1>4. FlattenSeq(Pieces(Entered, s)) \in Seq(Symbols)
  BY <1>1, PiecesType
<1> QED
  BY <1>3, <1>4

(* One more character is put.                                              *)
LEMMA CharsOfMore ==
    ASSUME NEW s \in Seq(PutRecord), NEW r \in PutRecord
    PROVE  Chars(Append(s, r)) = IF r.sent THEN Append(Chars(s), r.ch) ELSE Chars(s)
<1>1. Entered \in [PutRecord -> Seq(Symbols)] /\ Entered[r] = IF r.sent THEN <<r.ch>> ELSE <<>>
  BY DEF Entered, PutRecord
<1>2. Append(s, r) \in Seq(PutRecord)
  OBVIOUS
<1>3. Chars(Append(s, r)) = Chars(s) \o Entered[r]
  BY <1>1, <1>2, CharsIs, PiecesOfMore
<1>4. r.ch \in Symbols /\ Chars(s) \in Seq(Symbols)
  BY CharsIs DEF PutRecord
<1> QED
  BY <1>1, <1>3, <1>4, AppendIsConcat, ConcatEmptySeq

(* The parts of what is under way are sequences of characters.             *)
LEMMA PartsOf ==
    ASSUME IInv
    PROVE  /\ inEp \in Seq(Symbols) /\ txbuf \in Seq(Symbols) /\ usb_txq \in Seq(Symbols)
           /\ outEp \in Seq(Symbols) /\ buf \in Seq(Symbols) /\ usb_rxq \in Seq(Symbols)
           /\ resets \in Nat
BY FitsIs DEF IInv, TypeOK, QueuesOK, FlagsOK

(* A step that none of its state sees is a stutter of the line.            *)
LEMMA OutgoingStutters ==
    ASSUME put' = put, ToHost' = ToHost, heard' = heard, resets' = resets
    PROVE  UNCHANGED Outgoing!vars
BY DEF Outgoing!vars, Chars

(* A character that is put enters the line at its end, or is lost before.  *)
LEMMA PutCharPuts ==
    ASSUME IInv, NEW w \in Writers, PutChar(w)
    PROVE  [Outgoing!Next]_(Outgoing!vars)
<1>1. PICK c \in Symbols : Send(w, c)
  <2>1. text[w] \in Seq(Symbols) /\ text[w] # <<>>
    BY DEF IInv, TypeOK, TextsOK, PutChar
  <2>2. Head(text[w]) \in Symbols /\ CR \in Symbols
    BY <2>1, HeadTailProperties, CharAssumption
  <2> QED
    BY <2>2 DEF PutChar
<1>2. inEp' = inEp /\ txbuf' = txbuf /\ heard' = heard /\ resets' = resets
  BY DEF PutChar, driver, host
<1>3. put \in Seq(PutRecord) /\ Chars(put) \in Seq(Symbols)
  BY CharsIs DEF IInv, TypeOK, TextsOK, PutRecord
<1>4. CASE usb_txq' = usb_txq /\ put' = Append(put, [by |-> w, ch |-> c, sent |-> FALSE])
  <2> DEFINE r == [by |-> w, ch |-> c, sent |-> FALSE]
  <2>1. r \in PutRecord /\ ~r.sent /\ put' = Append(put, r)
    BY <1>4 DEF PutRecord
  <2> HIDE DEF r
  <2>2. Chars(put') = Chars(put)
    BY <1>3, <2>1, CharsOfMore
  <2>3. Chars(put)' = Chars(put')
    BY DEF Chars
  <2>4. ToHost' = ToHost
    BY <1>2, <1>4 DEF ToHost
  <2> QED
    BY <1>2, <2>2, <2>3, <2>4 DEF Outgoing!vars
<1>5. ASSUME usb_txq' = Append(usb_txq, c),
             put' = Append(put, [by |-> w, ch |-> c, sent |-> TRUE])
      PROVE  Outgoing!Put
  <2> DEFINE r == [by |-> w, ch |-> c, sent |-> TRUE]
             front == inEp \o txbuf
  <2>1. r \in PutRecord /\ r.sent /\ r.ch = c /\ put' = Append(put, r)
    BY <1>5 DEF PutRecord
  <2> HIDE DEF r
  <2>2. Chars(put)' = Append(Chars(put), c)
    <3>1. Chars(Append(put, r)) = Append(Chars(put), r.ch)
      BY <1>3, <2>1, CharsOfMore
    <3>2. Chars(put)' = Chars(Append(put, r))
      BY <2>1 DEF Chars
    <3> QED
      BY <2>1, <3>1, <3>2
  <2>3. /\ IsStrictPrefix(Chars(put), Append(Chars(put), c))
        /\ SubSeq(Append(Chars(put), c), Len(Chars(put)) + 1, Len(Append(Chars(put), c))) = <<c>>
    BY <1>3, OneMore
  <2>4. ToHost' = ToHost \o <<c>>
    <3>1. front \in Seq(Symbols) /\ usb_txq \in Seq(Symbols) /\ <<c>> \in Seq(Symbols)
      BY PartsOf, Joined
    <3>2. ToHost' = front \o Append(usb_txq, c) /\ ToHost = front \o usb_txq
      BY <1>2, <1>5 DEF ToHost
    <3> HIDE DEF front
    <3>3. Append(usb_txq, c) = usb_txq \o <<c>>
      BY <3>1, AppendIsConcat
    <3>4. (front \o usb_txq) \o <<c>> = front \o (usb_txq \o <<c>>)
      <4>1. Associates(front, usb_txq, <<c>>)
        BY <3>1, Associate
      <4> QED
        BY <4>1 DEF Associates
    <3> QED
      BY <3>2, <3>3, <3>4
  <2> DEFINE acc == Chars(put)
             more == Append(Chars(put), c)
  <2> HIDE DEF front
  <2>5. /\ acc' = more /\ ToHost' = ToHost \o SubSeq(more, Len(acc) + 1, Len(more))
        /\ IsStrictPrefix(acc, more)
    BY <2>2, <2>3, <2>4
  <2> HIDE DEF more
  <2> QED
    BY <1>2, <2>5 DEF Outgoing!Put, Outgoing!IsStrictPrefix, Outgoing!IsPrefix,
       IsStrictPrefix, IsPrefix, acc
<1> QED
  BY <1>1, <1>4, <1>5 DEF Send, Outgoing!Next

(* usb_task keeps what is under way in its order.                          *)
LEMMA SendingStutters ==
    ASSUME IInv, UsbTask PROVE UNCHANGED Outgoing!vars
<1>1. /\ inEp \in Seq(Symbols) /\ txbuf \in Seq(Symbols) /\ usb_txq \in Seq(Symbols)
      /\ <<>> \in Seq(Symbols)
  BY PartsOf
<1>2. put' = put /\ heard' = heard /\ resets' = resets
  BY DEF UsbTask, Receive, QueueReceived, PollNothing, Fill, Write, host
<1>3. ToHost' = ToHost
  <2>1. CASE UNCHANGED <<inEp, txbuf, usb_txq>>
    BY <2>1 DEF ToHost
  <2>2. CASE inEp = <<>> /\ inEp' = txbuf /\ txbuf' = <<>> /\ usb_txq' = usb_txq
    <3>1. <<>> \o txbuf = txbuf /\ txbuf \o <<>> = txbuf
      BY <1>1, ConcatEmptySeq
    <3> QED
      BY <2>2, <3>1 DEF ToHost
  <2>3. CASE /\ usb_txq # <<>> /\ UNCHANGED inEp
             /\ txbuf' = Append(txbuf, Head(usb_txq)) /\ usb_txq' = Tail(usb_txq)
    <3> DEFINE b == Append(txbuf, Head(usb_txq))
               q == Tail(usb_txq)
    <3>1. b \in Seq(Symbols) /\ q \in Seq(Symbols) /\ b \o q = txbuf \o usb_txq
      BY <1>1, <2>3, FirstMoves, SMTT(30)
    <3>2. ToHost' = (inEp \o b) \o q
      BY <2>3 DEF ToHost
    <3> HIDE DEF b, q
    <3>3. (inEp \o b) \o q = inEp \o (b \o q)
      <4>1. inEp \in Seq(Symbols) /\ b \in Seq(Symbols) /\ q \in Seq(Symbols)
        BY <1>1, <3>1
      <4> QED
        <5>1. Associates(inEp, b, q)
          BY <4>1, Associate
        <5> QED
          BY <5>1 DEF Associates
    <3>4. (inEp \o txbuf) \o usb_txq = inEp \o (txbuf \o usb_txq)
      <4>1. Associates(inEp, txbuf, usb_txq)
        BY <1>1, Associate
      <4> QED
        BY <4>1 DEF Associates
    <3> QED
      BY <3>1, <3>2, <3>3, <3>4 DEF ToHost
  <2> QED
    BY <2>1, <2>2, <2>3 DEF UsbTask, Receive, QueueReceived, PollNothing, Fill, Write
<1> QED
  BY <1>2, <1>3, OutgoingStutters

(* The packet in the endpoint comes before everything else under way.      *)
LEMMA PacketFirst ==
    ASSUME IInv, inEp' = <<>>, txbuf' = txbuf, usb_txq' = usb_txq
    PROVE  /\ txbuf \o usb_txq \in Seq(Symbols)
           /\ ToHost = inEp \o (txbuf \o usb_txq) /\ ToHost' = txbuf \o usb_txq
<1>1. inEp \in Seq(Symbols) /\ txbuf \in Seq(Symbols) /\ usb_txq \in Seq(Symbols)
  BY PartsOf
<1>2. (inEp \o txbuf) \o usb_txq = inEp \o (txbuf \o usb_txq)
  <2>1. Associates(inEp, txbuf, usb_txq)
    BY <1>1, Associate
  <2> QED
    BY <2>1 DEF Associates
<1>3. <<>> \o txbuf = txbuf
  BY <1>1, ConcatEmptySeq
<1>4. txbuf \o usb_txq \in Seq(Symbols)
  BY <1>1, Joined
<1> QED
  BY <1>2, <1>3, <1>4 DEF ToHost

(* A packet that the host reads is delivered.                              *)
LEMMA HostReadsDelivers == ASSUME IInv, HostReads PROVE Outgoing!Deliver
<1> DEFINE rest == txbuf \o usb_txq
<1>1. /\ inEp # <<>> /\ heard' = heard \o inEp /\ inEp' = <<>> /\ txbuf' = txbuf
      /\ usb_txq' = usb_txq /\ put' = put /\ resets' = resets
  BY DEF HostReads, driver, host
<1>2. inEp \in Seq(Symbols) /\ rest \in Seq(Symbols)
  BY <1>1, PartsOf, PacketFirst
<1>3. ToHost = inEp \o rest /\ ToHost' = rest
  BY <1>1, PacketFirst, SMTT(30)
<1> HIDE DEF rest
<1>4. /\ Len(inEp \o rest) = Len(inEp) + Len(rest)
      /\ SubSeq(inEp \o rest, 1, Len(inEp)) = inEp
      /\ SubSeq(inEp \o rest, Len(inEp) + 1, Len(inEp \o rest)) = rest
  BY <1>2, Joined
<1>5. Len(inEp) \in 1..Len(ToHost)
  <2>1. Len(inEp) \in Nat /\ Len(rest) \in Nat /\ Len(inEp) > 0
    BY <1>1, <1>2, LenProperties, EmptySeq
  <2>2. Len(ToHost) = Len(inEp) + Len(rest)
    BY <1>3, <1>4
  <2> QED
    BY <2>1, <2>2
<1>6. /\ SubSeq(ToHost, 1, Len(inEp)) = inEp
      /\ SubSeq(ToHost, Len(inEp) + 1, Len(ToHost)) = rest
  BY <1>3, <1>4
<1>7. Chars(put)' = Chars(put)
  BY <1>1 DEF Chars
<1>8. /\ heard' = heard \o SubSeq(ToHost, 1, Len(inEp))
      /\ ToHost' = SubSeq(ToHost, Len(inEp) + 1, Len(ToHost))
  BY <1>1, <1>3, <1>6, SMTT(30)
<1> QED
  BY <1>1, <1>5, <1>7, <1>8, SMTT(30) DEF Outgoing!Deliver

(* A packet is lost only when the host has reset the bus.                  *)
LEMMA PacketLost ==
    ASSUME IInv, SetConfig \/ BusReset PROVE [Outgoing!Next]_(Outgoing!vars)
<1> DEFINE rest == txbuf \o usb_txq
<1>1. /\ inEp' = <<>> /\ txbuf' = txbuf /\ usb_txq' = usb_txq /\ put' = put /\ heard' = heard
  BY DEF SetConfig, BusReset, driver
<1>2. inEp \in Seq(Symbols) /\ rest \in Seq(Symbols) /\ <<>> \in Seq(Symbols) /\ resets \in Nat
  BY <1>1, PartsOf, PacketFirst
<1>3. ToHost = inEp \o rest /\ ToHost' = rest /\ Chars(put)' = Chars(put)
  BY <1>1, PacketFirst, SMTT(30) DEF Chars
<1> HIDE DEF rest
<1>4. <<>> \o rest = rest /\ <<>> \o (inEp \o rest) = inEp \o rest
  <2>1. inEp \o rest \in Seq(Symbols)
    BY <1>2, Joined
  <2> QED
    BY <1>2, <2>1, ConcatEmptySeq
<1>5. BusReset => resets' > 0
  BY <1>2 DEF BusReset
<1>6. SetConfig /\ inEp # <<>> => resets' > 0
  BY <1>2 DEF SetConfig, IInv, PortOK
<1>7. CASE inEp # <<>>
  <2>1. resets' > 0
    BY <1>5, <1>6, <1>7
  <2>2. LacksPiece(inEp \o rest, rest)
    <3>1. inEp \in Seq(Symbols) /\ rest \in Seq(Symbols)
      BY <1>2
    <3> QED
      BY <1>7, <3>1, BeginningLost
  <2>3. \E i \in 0..Len(ToHost), j \in 0..Len(ToHost) :
          i < j /\ ToHost' = SubSeq(ToHost, 1, i) \o SubSeq(ToHost, j + 1, Len(ToHost))
    <3>1. LacksPiece(ToHost, ToHost')
      BY <1>3, <2>2
    <3> QED
      BY <3>1 DEF LacksPiece
  <2>4. Outgoing!Lose
    BY <1>1, <1>3, <2>1, <2>3 DEF Outgoing!Lose
  <2> QED
    BY <2>4 DEF Outgoing!Next
<1>8. CASE inEp = <<>>
  <2>1. ToHost' = ToHost
    BY <1>3, <1>4, <1>8
  <2>2. CASE SetConfig
    BY <1>1, <2>1, <2>2, OutgoingStutters DEF SetConfig
  <2>3. CASE BusReset
    <3>1. Outgoing!Break
      BY <1>1, <1>3, <1>5, <2>1, <2>3 DEF Outgoing!Break
    <3> QED
      BY <3>1 DEF Outgoing!Next
  <2> QED
    BY <2>2, <2>3
<1> QED
  BY <1>7, <1>8

(* Every step of the port is one of the line out, or none.                 *)
LEMMA OutgoingStep ==
    IInv /\ [Next]_tasksVars => [Outgoing!Next]_(Outgoing!vars)
<1> SUFFICES ASSUME IInv, [Next]_tasksVars PROVE [Outgoing!Next]_(Outgoing!vars)
  OBVIOUS
<1>1. CASE Tasks \/ UNCHANGED tasksVars
  <2>1. /\ put' = put /\ heard' = heard /\ resets' = resets
        /\ inEp' = inEp /\ txbuf' = txbuf /\ usb_txq' = usb_txq
    BY <1>1 DEF Tasks, ReceiveChar, Answered, Blink, tasksVars, vars, driver, host
  <2>2. ToHost' = ToHost
    BY <2>1 DEF ToHost
  <2> QED
    BY <2>1, <2>2, OutgoingStutters
<1>2. CASE UsbTask
  BY <1>2, SendingStutters
<1>3. CASE Host
  <2>1. CASE HostWrites
    <3>1. /\ put' = put /\ heard' = heard /\ resets' = resets
          /\ inEp' = inEp /\ txbuf' = txbuf /\ usb_txq' = usb_txq
      BY <2>1 DEF HostWrites, driver
    <3>2. ToHost' = ToHost
      BY <3>1 DEF ToHost
    <3> QED
      BY <3>1, <3>2, OutgoingStutters
  <2> QED
    BY <1>3, <2>1, HostReadsDelivers, PacketLost DEF Host, Outgoing!Next
<1>4. CASE \E w \in Writers : PutChar(w)
  BY <1>4, PutCharPuts
<1> QED
  BY <1>1, <1>2, <1>3, <1>4 DEF Next, Port

(* At the beginning the line is empty.                                     *)
LEMMA OutgoingStart == TasksInit => Outgoing!Init
<1> SUFFICES ASSUME TasksInit PROVE Outgoing!Init
  OBVIOUS
<1>1. put = <<>> /\ inEp = <<>> /\ txbuf = <<>> /\ usb_txq = <<>> /\ heard = <<>> /\ resets = 0
  BY DEF TasksInit, Init
<1>2. Chars(put) = <<>>
  <2> DEFINE e == <<>>
             none == Pieces(Entered, e)
  <2>1. e \in Seq(PutRecord) /\ Len(e) = 0 /\ Entered \in [PutRecord -> Seq(Symbols)]
    BY DEF Entered, PutRecord
  <2> HIDE DEF e
  <2>2. Chars(e) = FlattenSeq(none)
    BY <2>1, CharsIs
  <2>3. none \in Seq(Seq(Symbols)) /\ Len(none) = 0
    <3>1. PiecesOf(Entered, e, Symbols)
      BY <2>1, PiecesType
    <3> QED
      BY <2>1, <3>1 DEF PiecesOf
  <2> HIDE DEF none
  <2>4. none = <<>>
    BY <2>3, EmptySeq
  <2> QED
    BY <1>1, <2>2, <2>4 DEF FlattenSeq, e
<1>3. ToHost = <<>>
  BY <1>1, NothingFits, ConcatEmptySeq DEF ToHost
<1> QED
  BY <1>1, <1>2, <1>3 DEF Outgoing!Init

(* What the tasks put comes out at the host as it went in: in order, each  *)
(* character once, and until the host resets the bus without a loss,       *)
(* however often the peripheral refuses a packet.                          *)
THEOREM PortSendsAsALine == Spec => OutgoingIsALine
BY OutgoingStart, OutgoingStep, InvHolds, PTL DEF Spec, OutgoingIsALine, Outgoing!Spec

-----------------------------------------------------------------------------
(* The line in                                                             *)

(* A step that none of its state sees is a stutter of the line.            *)
LEMMA IncomingStutters ==
    ASSUME unsaid' = unsaid, ToReader' = ToReader, taken' = taken, resets' = resets, cut' = cut
    PROVE  UNCHANGED Incoming!vars
BY DEF Incoming!vars, Said

(* What the host writes enters the line at its end.                        *)
LEMMA HostWritesPuts ==
    ASSUME IInv, HostWrites, UNCHANGED <<receiver, blinks>> PROVE Incoming!Put
<1>1. PICK n \in 1..Packet :
        /\ outEp = <<>> /\ n <= Len(unsaid)
        /\ outEp' = SubSeq(unsaid, 1, n)
        /\ unsaid' = SubSeq(unsaid, n + 1, Len(unsaid))
  BY DEF HostWrites
<1>2. usb_rxq' = usb_rxq /\ buf' = buf /\ cut' = cut /\ resets' = resets /\ taken' = taken
  BY DEF HostWrites, driver, receiver, waits
<1> DEFINE all == HostText
           i == Len(HostText) - Len(unsaid)
           j == i + n
           a == usb_rxq \o buf
           m == SubSeq(all, i + 1, j)
<1>3. /\ outEp' = m /\ m \in Seq(Symbols) /\ Len(unsaid') = Len(unsaid) - n
  BY <1>1, NextWords
<1>4. /\ all \in Seq(Symbols) /\ i \in Nat /\ j \in Nat /\ i < j /\ j <= Len(all)
      /\ Len(all) - Len(unsaid') = j
  <2>1. all \in Seq(Symbols) /\ unsaid \in Seq(Symbols) /\ Len(unsaid) <= Len(all)
    BY CharAssumption DEF IInv, TypeOK, TextsOK, PortOK
  <2>2. Len(unsaid) \in Nat /\ Len(all) \in Nat
    BY <2>1, LenProperties
  <2>3. n \in Nat /\ n > 0 /\ n <= Len(unsaid) /\ Len(unsaid') = Len(unsaid) - n
    BY <1>1, <1>3
  <2> HIDE DEF all
  <2>4. i \in Nat /\ j \in Nat /\ i < j /\ j <= Len(all) /\ Len(all) - Len(unsaid') = j
    BY <2>1, <2>2, <2>3 DEF all
  <2> QED
    BY <2>1, <2>4
<1>5. Said = SubSeq(all, 1, i) /\ Said' = SubSeq(all, 1, j)
  BY <1>4 DEF Said
<1> HIDE DEF all, i, j
<1>6. /\ IsStrictPrefix(SubSeq(all, 1, i), SubSeq(all, 1, j))
      /\ SubSeq(SubSeq(all, 1, j), Len(SubSeq(all, 1, i)) + 1, Len(SubSeq(all, 1, j))) = m
  BY <1>4, Beginnings
<1>7. IsStrictPrefix(Said, Said') /\ SubSeq(Said', Len(Said) + 1, Len(Said')) = m
  BY <1>5, <1>6
<1>8. ToReader = a /\ ToReader' = a \o m
  <2>1. a \in Seq(Symbols)
    <3>1. usb_rxq \in Seq(Symbols) /\ buf \in Seq(Symbols)
      BY PartsOf
    <3> QED
      BY <3>1, Joined
  <2>2. a \o <<>> = a
    BY <2>1, ConcatEmptySeq
  <2> QED
    BY <1>1, <1>2, <1>3, <2>2 DEF ToReader
<1> HIDE DEF a, m
<1> QED
  BY <1>2, <1>7, <1>8 DEF Incoming!Put, Incoming!IsStrictPrefix, Incoming!IsPrefix,
     IsStrictPrefix, IsPrefix

(* A packet that the callback reads stays under way, but for what does not *)
(* fit its space.                                                          *)
LEMMA ReceiveLoses ==
    ASSUME IInv, Receive, UNCHANGED <<receiver, blinks>>
    PROVE  [Incoming!Next]_(Incoming!vars)
<1> DEFINE n == IF Len(outEp) < ToRead THEN Len(outEp) ELSE ToRead
           rest == SubSeq(outEp, n + 1, Len(outEp))
           first == SubSeq(outEp, 1, n)
           a == usb_rxq \o first
<1>1. /\ at = "poll" /\ Avail > 0 /\ buf' = first /\ outEp' = <<>>
      /\ cut' = (cut \/ Len(outEp) > ToRead)
      /\ usb_rxq' = usb_rxq /\ resets' = resets /\ unsaid' = unsaid /\ taken' = taken
  BY DEF Receive, host, receiver, waits
<1>2. outEp \in Seq(Symbols) /\ usb_rxq \in Seq(Symbols) /\ buf = <<>>
  BY <1>1, PartsOf DEF IInv, PortOK
<1>3. n \in 0..Len(outEp) /\ (n < Len(outEp) => Len(outEp) > ToRead)
      /\ (~(n < Len(outEp)) => ~(Len(outEp) > ToRead))
  <2>1. Len(outEp) \in Nat /\ Len(usb_rxq) \in Nat
    BY <1>2, LenProperties
  <2>2. ToRead \in Nat /\ ToRead > 0
    BY <1>1, <2>1 DEF ToRead, Avail
  <2> QED
    BY <2>1, <2>2
<1> HIDE DEF n
<1>4. /\ first \in Seq(Symbols) /\ rest \in Seq(Symbols)
      /\ Len(rest) = Len(outEp) - n /\ first \o rest = outEp
  BY <1>2, <1>3, CutInTwo
<1> HIDE DEF first, rest
<1>5. a \in Seq(Symbols)
  <2>1. usb_rxq \in Seq(Symbols) /\ first \in Seq(Symbols)
    BY <1>2, <1>4
  <2> QED
    BY <2>1, Joined
<1>6. ToReader = a \o rest
  <2>1. usb_rxq \in Seq(Symbols) /\ first \in Seq(Symbols) /\ rest \in Seq(Symbols)
    BY <1>2, <1>4
  <2>2. (usb_rxq \o first) \o rest = usb_rxq \o (first \o rest)
    <3>1. Associates(usb_rxq, first, rest)
      BY <2>1, Associate
    <3> QED
      BY <3>1 DEF Associates
  <2>3. usb_rxq \o <<>> = usb_rxq
    BY <2>1, ConcatEmptySeq
  <2> QED
    BY <1>2, <1>4, <2>2, <2>3 DEF ToReader
<1>7. ToReader' = a
  <2>1. a \o <<>> = a
    BY <1>5, ConcatEmptySeq
  <2> QED
    BY <1>1, <2>1 DEF ToReader
<1>8. Said' = Said
  BY <1>1 DEF Said
<1> HIDE DEF a
<1>9. CASE n < Len(outEp)
  <2>1. rest # <<>>
    <3>1. Len(outEp) \in Nat /\ n \in Nat
      BY <1>2, <1>3, LenProperties
    <3>2. Len(rest) # 0
      BY <1>4, <1>9, <3>1
    <3> QED
      BY <3>2
  <2>2. LacksPiece(a \o rest, a)
    <3>1. a \in Seq(Symbols) /\ rest \in Seq(Symbols)
      BY <1>4, <1>5
    <3> QED
      BY <2>1, <3>1, EndLost
  <2>3. \E i \in 0..Len(ToReader), j \in 0..Len(ToReader) :
          i < j /\ ToReader' = SubSeq(ToReader, 1, i) \o SubSeq(ToReader, j + 1, Len(ToReader))
    <3>1. LacksPiece(ToReader, ToReader')
      BY <1>6, <1>7, <2>2
    <3> QED
      BY <3>1 DEF LacksPiece
  <2>4. cut'
    BY <1>1, <1>3, <1>9
  <2>5. Incoming!Lose
    BY <1>1, <1>8, <2>3, <2>4 DEF Incoming!Lose
  <2> QED
    BY <2>5 DEF Incoming!Next
<1>10. CASE ~(n < Len(outEp))
  <2>1. rest = <<>>
    <3>1. Len(rest) = 0
      <4>1. Len(outEp) \in Nat /\ n \in 0..Len(outEp)
        BY <1>2, <1>3, LenProperties
      <4> QED
        BY <1>4, <1>10, <4>1
    <3> QED
      BY <1>4, <3>1, EmptySeq
  <2>2. a \o <<>> = a
    BY <1>5, ConcatEmptySeq
  <2>3. ToReader' = ToReader
    BY <1>6, <1>7, <2>1, <2>2
  <2>4. cut' = cut
    <3>1. ~(Len(outEp) > ToRead)
      BY <1>3, <1>10
    <3>2. cut \in BOOLEAN
      BY DEF IInv, TypeOK, FlagsOK
    <3> HIDE DEF ToReader
    <3> QED
      BY <1>1, <3>1, <3>2
  <2> QED
    BY <1>1, <2>3, <2>4, IncomingStutters
<1> QED
  BY <1>9, <1>10

(* What was read enters the queue in its order, every character.           *)
LEMMA QueueingStutters ==
    ASSUME IInv, QueueReceived, UNCHANGED <<receiver, blinks>>
    PROVE  UNCHANGED Incoming!vars
<1>1. unsaid' = unsaid /\ taken' = taken /\ resets' = resets /\ cut' = cut /\ outEp' = outEp
  BY DEF QueueReceived, host, receiver, waits
<1>2. usb_rxq \in Seq(Symbols) /\ buf \in Seq(Symbols)
  BY PartsOf
<1>3. CASE buf # <<>> /\ buf' = Tail(buf)
           /\ usb_rxq' = IF Avail > 0 THEN Append(usb_rxq, Head(buf)) ELSE usb_rxq
  <2>1. Avail > 0
    <3>1. Len(buf) \in Nat /\ Len(buf) > 0 /\ Len(usb_rxq) \in Nat
      BY <1>2, <1>3, LenProperties, EmptySeq
    <3>2. Len(buf) <= RxQueue - Len(usb_rxq)
      BY DEF IInv, PortOK, ReadFits, Avail
    <3> QED
      BY <3>1, <3>2 DEF Avail
  <2>2. Append(usb_rxq, Head(buf)) \o Tail(buf) = usb_rxq \o buf
    BY <1>2, <1>3, FirstMoves, SMTT(30)
  <2>3. usb_rxq' = Append(usb_rxq, Head(buf)) /\ buf' = Tail(buf)
    BY <1>3, <2>1
  <2>4. ToReader' = ToReader
    BY <1>1, <2>2, <2>3 DEF ToReader
  <2> QED
    BY <1>1, <2>4, IncomingStutters
<1>4. CASE buf' = buf /\ usb_rxq' = usb_rxq
  <2>1. ToReader' = ToReader
    BY <1>1, <1>4 DEF ToReader
  <2> QED
    BY <1>1, <2>1, IncomingStutters
<1> QED
  BY <1>3, <1>4 DEF QueueReceived

(* The receiver takes the first character that is under way.               *)
LEMMA ReceiveCharDelivers ==
    ASSUME IInv, ReceiveChar, usb_rxq # <<>> PROVE Incoming!Deliver
<1> DEFINE c == Head(usb_rxq)
           one == <<c>>
           q == Tail(usb_rxq)
           rest == (q \o buf) \o outEp
<1>1. /\ usb_rxq # <<>> /\ usb_rxq' = q /\ taken' = Append(taken, c)
      /\ buf' = buf /\ outEp' = outEp /\ unsaid' = unsaid /\ resets' = resets /\ cut' = cut
  BY DEF ReceiveChar, Getc, host
<1>2. /\ usb_rxq \in Seq(Symbols) /\ buf \in Seq(Symbols) /\ outEp \in Seq(Symbols)
      /\ taken \in Seq(Symbols)
  BY PartsOf DEF IInv, TypeOK, TextsOK
<1>3. c \in Symbols /\ q \in Seq(Symbols) /\ usb_rxq = one \o q
  BY <1>1, <1>2, FirstMoves
<1>4. one \in Seq(Symbols) /\ Len(one) = 1
  BY <1>3
<1> HIDE DEF c, q
<1>5. taken' = taken \o one
  BY <1>1, <1>2, <1>3, AppendIsConcat
<1> HIDE DEF one
<1>6. q \o buf \in Seq(Symbols) /\ rest \in Seq(Symbols)
  <2>1. q \in Seq(Symbols) /\ buf \in Seq(Symbols) /\ outEp \in Seq(Symbols)
    BY <1>2, <1>3
  <2> QED
    BY <2>1, Joined
<1>7. ((one \o q) \o buf) \o outEp = one \o rest
  <2>1. /\ q \in Seq(Symbols) /\ buf \in Seq(Symbols) /\ outEp \in Seq(Symbols)
        /\ one \in Seq(Symbols) /\ q \o buf \in Seq(Symbols)
    BY <1>2, <1>3, <1>4, <1>6
  <2>2. (one \o q) \o buf = one \o (q \o buf)
    <3>1. Associates(one, q, buf)
      BY <2>1, Associate
    <3> QED
      BY <3>1 DEF Associates
  <2>3. (one \o (q \o buf)) \o outEp = one \o rest
    <3> DEFINE qb == q \o buf
    <3>1. one \in Seq(Symbols) /\ qb \in Seq(Symbols) /\ outEp \in Seq(Symbols)
      BY <2>1
    <3> HIDE DEF qb
    <3>2. (one \o qb) \o outEp = one \o (qb \o outEp)
      <4>1. Associates(one, qb, outEp)
        BY <3>1, Associate
      <4> QED
        BY <4>1 DEF Associates
    <3> QED
      BY <3>2 DEF qb
  <2> QED
    BY <2>2, <2>3
<1>8. ToReader = one \o rest
  BY <1>3, <1>7 DEF ToReader
<1>9. ToReader' = rest
  BY <1>1 DEF ToReader
<1> HIDE DEF rest
<1>10. /\ Len(one \o rest) = Len(one) + Len(rest)
       /\ SubSeq(one \o rest, 1, Len(one)) = one
       /\ SubSeq(one \o rest, Len(one) + 1, Len(one \o rest)) = rest
  <2>1. one \in Seq(Symbols) /\ rest \in Seq(Symbols)
    BY <1>4, <1>6
  <2> QED
    BY <2>1, Joined
<1>11. 1 \in 1..Len(ToReader)
  <2>1. Len(rest) \in Nat
    BY <1>6, LenProperties
  <2>2. Len(ToReader) = 1 + Len(rest)
    BY <1>4, <1>8, <1>10
  <2> QED
    BY <2>1, <2>2
<1>12. /\ taken' = taken \o SubSeq(ToReader, 1, 1)
       /\ ToReader' = SubSeq(ToReader, 1 + 1, Len(ToReader))
  BY <1>4, <1>5, <1>8, <1>9, <1>10
<1>13. Said' = Said
  BY <1>1 DEF Said
<1> QED
  BY <1>1, <1>11, <1>12, <1>13 DEF Incoming!Deliver

(* With none there it may get one that nobody said.                        *)
LEMMA NothingDelivered ==
    ASSUME ReceiveChar, usb_rxq = <<>> PROVE UNCHANGED Incoming!vars
<1>1. /\ usb_rxq' = usb_rxq /\ taken' = taken /\ buf' = buf /\ outEp' = outEp
      /\ unsaid' = unsaid /\ resets' = resets /\ cut' = cut
  BY DEF ReceiveChar, Getc, host
<1>2. ToReader' = ToReader
  BY <1>1 DEF ToReader
<1> QED
  BY <1>1, <1>2, IncomingStutters

(* A packet of the host is lost only when the host has reset the bus.      *)
LEMMA HostPacketLost ==
    ASSUME IInv, SetConfig \/ BusReset, UNCHANGED <<receiver, blinks>>
    PROVE  [Incoming!Next]_(Incoming!vars)
<1> DEFINE a == usb_rxq \o buf
<1>1. /\ usb_rxq' = usb_rxq /\ buf' = buf /\ unsaid' = unsaid /\ cut' = cut /\ taken' = taken
      /\ outEp' = <<>> \/ outEp' = outEp
  BY DEF SetConfig, BusReset, driver, receiver, waits
<1>2. a \in Seq(Symbols) /\ outEp \in Seq(Symbols) /\ resets \in Nat
  <2>1. /\ usb_rxq \in Seq(Symbols) /\ buf \in Seq(Symbols)
        /\ outEp \in Seq(Symbols) /\ resets \in Nat
    BY PartsOf
  <2> QED
    BY <2>1, Joined
<1>3. ToReader = a \o outEp /\ ToReader' = a \o outEp' /\ Said' = Said
  BY <1>1 DEF ToReader, Said
<1> HIDE DEF a
<1>4. a \o <<>> = a
  BY <1>2, ConcatEmptySeq
<1>5. BusReset => resets' > 0
  BY <1>2 DEF BusReset
<1>6. SetConfig /\ outEp # <<>> => resets' > 0
  BY <1>2 DEF SetConfig, IInv, PortOK
<1>7. CASE outEp # <<>> /\ outEp' = <<>>
  <2>1. resets' > 0
    BY <1>5, <1>6, <1>7
  <2>2. LacksPiece(a \o outEp, a)
    <3>1. a \in Seq(Symbols) /\ outEp \in Seq(Symbols)
      BY <1>2
    <3> QED
      BY <1>7, <3>1, EndLost
  <2>3. ToReader' = a
    BY <1>3, <1>4, <1>7
  <2>4. \E i \in 0..Len(ToReader), j \in 0..Len(ToReader) :
          i < j /\ ToReader' = SubSeq(ToReader, 1, i) \o SubSeq(ToReader, j + 1, Len(ToReader))
    <3>1. LacksPiece(ToReader, ToReader')
      BY <1>3, <2>2, <2>3
    <3> QED
      BY <3>1 DEF LacksPiece
  <2>5. Incoming!Lose
    BY <1>1, <1>3, <2>1, <2>4 DEF Incoming!Lose
  <2> QED
    BY <2>5 DEF Incoming!Next
<1>8. CASE outEp' = outEp
  <2>1. ToReader' = ToReader
    BY <1>3, <1>8
  <2>2. CASE SetConfig
    BY <1>1, <2>1, <2>2, IncomingStutters DEF SetConfig
  <2>3. CASE BusReset
    <3>1. Incoming!Break
      BY <1>1, <1>3, <1>5, <2>1, <2>3 DEF Incoming!Break
    <3> QED
      BY <3>1 DEF Incoming!Next
  <2> QED
    BY <2>2, <2>3
<1> QED
  BY <1>1, <1>7, <1>8

(* Every step of the port and its reader is one of the line in, or none.   *)
LEMMA IncomingStep ==
    IInv /\ [Next]_tasksVars => [Incoming!Next]_(Incoming!vars)
<1> SUFFICES ASSUME IInv, [Next]_tasksVars PROVE [Incoming!Next]_(Incoming!vars)
  OBVIOUS
<1>1. CASE ReceiveChar
  BY <1>1, ReceiveCharDelivers, NothingDelivered DEF Incoming!Next
<1>2. CASE Port
  <2>0. UNCHANGED <<receiver, blinks>>
    BY <1>2 DEF Port
  <2>1. CASE Receive
    BY <2>0, <2>1, ReceiveLoses
  <2>2. CASE QueueReceived
    BY <2>0, <2>2, QueueingStutters
  <2>3. CASE HostWrites
    BY <2>0, <2>3, HostWritesPuts DEF Incoming!Next
  <2>4. CASE SetConfig \/ BusReset
    BY <2>0, <2>4, HostPacketLost
  <2>5. CASE PollNothing \/ Fill \/ Write \/ HostReads \/ \E w \in Writers : PutChar(w)
    <3>1. /\ unsaid' = unsaid /\ taken' = taken /\ resets' = resets /\ cut' = cut
          /\ usb_rxq' = usb_rxq /\ buf' = buf /\ outEp' = outEp
      BY <2>0, <2>5 DEF PollNothing, Fill, Write, HostReads, PutChar, driver, host, receiver, waits
    <3>2. ToReader' = ToReader
      BY <3>1 DEF ToReader
    <3> QED
      BY <3>1, <3>2, IncomingStutters
  <2> QED
    BY <1>2, <2>1, <2>2, <2>3, <2>4, <2>5 DEF Port, UsbTask, Host
<1>3. CASE Answered \/ Blink \/ UNCHANGED tasksVars
  <2>1. /\ unsaid' = unsaid /\ taken' = taken /\ resets' = resets /\ cut' = cut
        /\ usb_rxq' = usb_rxq /\ buf' = buf /\ outEp' = outEp
    BY <1>3 DEF Answered, Blink, tasksVars, vars, driver, host, receiver, waits
  <2>2. ToReader' = ToReader
    BY <2>1 DEF ToReader
  <2> QED
    BY <2>1, <2>2, IncomingStutters
<1> QED
  BY <1>1, <1>2, <1>3 DEF Next, Tasks

(* At the beginning the host has said nothing.                             *)
LEMMA IncomingStart == TasksInit => Incoming!Init
<1> SUFFICES ASSUME TasksInit PROVE Incoming!Init
  OBVIOUS
<1>1. /\ unsaid = HostText /\ usb_rxq = <<>> /\ buf = <<>> /\ outEp = <<>> /\ taken = <<>>
      /\ resets = 0 /\ cut = FALSE
  BY DEF TasksInit, Init
<1>2. Said = <<>>
  <2>1. HostText \in Seq(Symbols) /\ Len(HostText) \in Nat
    BY CharAssumption, LenProperties
  <2>2. Len(HostText) - Len(HostText) = 0 /\ 0 + 1 = 1 /\ 0 - 0 = 0 /\ 0 \in Nat
        /\ 0 <= Len(HostText) /\ 0 <= 0
    BY <2>1
  <2>3. SubSeq(HostText, 0 + 1, 0) \in Seq(Symbols) /\ Len(SubSeq(HostText, 0 + 1, 0)) = 0 - 0
    BY <2>1, <2>2, Piece
  <2>4. SubSeq(HostText, 1, 0) = <<>>
    BY <2>2, <2>3, EmptySeq
  <2> QED
    BY <1>1, <2>2, <2>4 DEF Said
<1>3. ToReader = <<>>
  BY <1>1, NothingFits, ConcatEmptySeq DEF ToReader
<1> QED
  BY <1>1, <1>2, <1>3 DEF Incoming!Init

(* What the host says reaches the receiver as it was said: in order, each  *)
(* character once, and without a loss until the host resets the bus or a   *)
(* packet does not fit the space the callback saw.                         *)
THEOREM PortReceivesAsALine == Spec => IncomingIsALine
BY IncomingStart, IncomingStep, InvHolds, PTL DEF Spec, IncomingIsALine, Incoming!Spec

-----------------------------------------------------------------------------
(* Each writer in order                                                    *)

(* What goes ahead of a sequence is its head, the rest its tail.           *)
LEMMA OneAhead ==
    ASSUME NEW S, NEW c \in S, NEW r \in Seq(S)
    PROVE  /\ <<c>> \o r \in Seq(S) /\ <<c>> \o r # <<>>
           /\ Head(<<c>> \o r) = c /\ Tail(<<c>> \o r) = r
<1> DEFINE one == <<c>>
           t == one \o r
<1>1. one \in Seq(S) /\ Len(one) = 1 /\ one[1] = c
  OBVIOUS
<1> HIDE DEF one
<1>2. /\ t \in Seq(S) /\ Len(t) = Len(one) + Len(r)
      /\ \A i \in 1..(Len(one) + Len(r)) :
            t[i] = IF i <= Len(one) THEN one[i] ELSE r[i - Len(one)]
  BY <1>1, ConcatProperties
<1>3. Len(r) \in Nat
  BY LenProperties
<1> HIDE DEF t
<1>4. t # <<>> /\ Len(t) = Len(r) + 1 /\ t[1] = c
  <2>1. Len(t) = Len(r) + 1 /\ t[1] = c
    BY <1>1, <1>2, <1>3
  <2> QED
    BY <1>3, <2>1, EmptySeq
<1>5. /\ Head(t) = t[1] /\ Tail(t) \in Seq(S) /\ Len(Tail(t)) = Len(t) - 1
      /\ \A i \in 1..Len(Tail(t)) : Tail(t)[i] = t[i + 1]
  <2>1. Head(t) = t[1]
    BY <1>2, <1>4
  <2> QED
    BY <1>2, <1>4, <2>1, HeadTailProperties
<1> DEFINE u == Tail(t)
<1>6. u \in Seq(S) /\ Len(u) = Len(r) /\ \A i \in 1..Len(u) : u[i] = r[i]
  <2>1. u \in Seq(S) /\ Len(u) = Len(r) /\ \A i \in 1..Len(u) : u[i] = t[i + 1]
    BY <1>3, <1>4, <1>5
  <2>2. \A i \in 1..Len(r) : t[i + 1] = r[i]
    <3> SUFFICES ASSUME NEW i \in 1..Len(r) PROVE t[i + 1] = r[i]
      OBVIOUS
    <3>1. i + 1 \in 1..(Len(one) + Len(r)) /\ ~(i + 1 <= Len(one)) /\ (i + 1) - Len(one) = i
      BY <1>1, <1>3
    <3> QED
      BY <1>2, <3>1
  <2> QED
    BY <2>1, <2>2, SMTT(30)
<1> HIDE DEF u
<1>7. u = r
  BY <1>6, SeqEqual
<1> QED
  BY <1>2, <1>4, <1>5, <1>7 DEF t, one, u

(* What usb_putc makes of each character.                                  *)
CookedChar(c) == IF c = LF THEN <<CR, LF>> ELSE <<c>>
CookedChars(s) == [i \in 1..Len(s) |-> CookedChar(s[i])]

(* It is one character or two.                                             *)
LEMMA CookedCharType == ASSUME NEW c \in Symbols PROVE CookedChar(c) \in Seq(Symbols)
BY CharAssumption DEF CookedChar

(* A piece for every character.                                            *)
LEMMA CookedCharsType ==
    ASSUME NEW s \in Seq(Symbols)
    PROVE  /\ CookedChars(s) \in Seq(Seq(Symbols)) /\ Len(CookedChars(s)) = Len(s)
           /\ \A i \in 1..Len(s) : CookedChars(s)[i] = CookedChar(s[i])
           /\ Cooked(s) = FlattenSeq(CookedChars(s)) /\ Cooked(s) \in Seq(Symbols)
<1> DEFINE q == CookedChars(s)
<1>1. Len(s) \in Nat /\ \A i \in 1..Len(s) : CookedChar(s[i]) \in Seq(Symbols)
  <2>1. \A i \in 1..Len(s) : s[i] \in Symbols
    BY ElementOfSeq
  <2> QED
    BY <2>1, LenProperties, CookedCharType
<1>2. q \in [1..Len(s) -> Seq(Symbols)] /\ \A i \in 1..Len(s) : q[i] = CookedChar(s[i])
  BY <1>1 DEF CookedChars
<1>3. Cooked(s) = FlattenSeq(q)
  BY DEF Cooked, CookedChars, CookedChar
<1> HIDE DEF q
<1>4. q \in Seq(Seq(Symbols)) /\ Len(q) = Len(s)
  <2> DEFINE R == Seq(Symbols)
  <2>1. q \in [1..Len(s) -> R]
    BY <1>2
  <2> HIDE DEF R
  <2>2. q \in Seq(R) /\ Len(q) = Len(s)
    BY <1>1, <2>1
  <2> QED
    BY <2>2 DEF R
<1>5. FlattenSeq(q) \in Seq(Symbols)
  BY <1>4, FlattenType
<1> QED
  BY <1>2, <1>3, <1>4, <1>5 DEF q

(* A text is cooked piece by piece.                                        *)
LEMMA CookedJoined ==
    ASSUME NEW s \in Seq(Symbols), NEW t \in Seq(Symbols)
    PROVE  Cooked(s \o t) = Cooked(s) \o Cooked(t)
<1> DEFINE st == s \o t
           a == CookedChars(s)
           b == CookedChars(t)
           ab == a \o b
           c == CookedChars(st)
           R == Seq(Symbols)
<1>1. /\ st \in Seq(Symbols) /\ Len(st) = Len(s) + Len(t)
      /\ \A i \in 1..(Len(s) + Len(t)) : st[i] = IF i <= Len(s) THEN s[i] ELSE t[i - Len(s)]
      /\ Len(s) \in Nat /\ Len(t) \in Nat
  BY ConcatProperties, LenProperties
<1> HIDE DEF st
<1>2. /\ a \in Seq(R) /\ Len(a) = Len(s) /\ \A i \in 1..Len(s) : a[i] = CookedChar(s[i])
      /\ b \in Seq(R) /\ Len(b) = Len(t) /\ \A i \in 1..Len(t) : b[i] = CookedChar(t[i])
      /\ c \in Seq(R) /\ Len(c) = Len(st) /\ \A i \in 1..Len(st) : c[i] = CookedChar(st[i])
  BY <1>1, CookedCharsType, SMTT(30)
<1> HIDE DEF a, b, c, R
<1>3. /\ ab \in Seq(R) /\ Len(ab) = Len(a) + Len(b)
      /\ \A i \in 1..(Len(a) + Len(b)) : ab[i] = IF i <= Len(a) THEN a[i] ELSE b[i - Len(a)]
  <2>1. a \in Seq(R) /\ b \in Seq(R)
    BY <1>2
  <2> QED
    BY <2>1, ConcatProperties
<1> HIDE DEF ab
<1>4. \A i \in 1..Len(c) : c[i] = ab[i]
  <2> SUFFICES ASSUME NEW i \in 1..Len(c) PROVE c[i] = ab[i]
    OBVIOUS
  <2>0. i \in 1..(Len(s) + Len(t))
    BY <1>1, <1>2
  <2>1. CASE i <= Len(s)
    <3>1. i \in 1..Len(s)
      BY <1>1, <2>0, <2>1
    <3>2. st[i] = s[i] /\ ab[i] = a[i]
      BY <1>1, <1>2, <1>3, <2>0, <2>1
    <3> QED
      BY <1>1, <1>2, <3>1, <3>2
  <2>2. CASE ~(i <= Len(s))
    <3>1. i - Len(s) \in 1..Len(t)
      BY <1>1, <2>0, <2>2
    <3>2. st[i] = t[i - Len(s)] /\ ab[i] = b[i - Len(s)]
      BY <1>1, <1>2, <1>3, <2>0, <2>2
    <3> QED
      BY <1>1, <1>2, <3>1, <3>2
  <2> QED
    BY <2>1, <2>2
<1>5. c = ab
  BY <1>1, <1>2, <1>3, <1>4, SeqEqual
<1>6. Cooked(st) = FlattenSeq(c) /\ Cooked(s) = FlattenSeq(a) /\ Cooked(t) = FlattenSeq(b)
  BY <1>1, CookedCharsType DEF a, b, c
<1>7. FlattenSeq(a \o b) = FlattenSeq(a) \o FlattenSeq(b)
  BY <1>2, FlattenJoined, SMTT(30) DEF R
<1> QED
  BY <1>5, <1>6, <1>7 DEF st, ab

(* Nothing cooks to nothing, and one character to its piece.               *)
LEMMA CookedFew ==
    /\ Cooked(<<>>) = <<>>
    /\ \A c \in Symbols : Cooked(<<c>>) = CookedChar(c)
<1>1. Cooked(<<>>) = <<>>
  <2> DEFINE e == <<>>
             none == CookedChars(e)
  <2>0. e \in Seq(Symbols) /\ Len(e) = 0
    OBVIOUS
  <2> HIDE DEF e
  <2>1. Cooked(e) = FlattenSeq(none) /\ none \in Seq(Seq(Symbols)) /\ Len(none) = 0
    BY <2>0, CookedCharsType
  <2> HIDE DEF none
  <2>2. none = <<>>
    BY <2>1, EmptySeq
  <2> QED
    BY <2>1, <2>2 DEF FlattenSeq, e
<1>2. ASSUME NEW c \in Symbols PROVE Cooked(<<c>>) = CookedChar(c)
  <2> DEFINE one == <<c>>
             q == CookedChars(one)
             x == CookedChar(c)
             R == Seq(Symbols)
             none == <<>>
             p == Append(none, x)
  <2>1. one \in Seq(Symbols) /\ Len(one) = 1 /\ one[1] = c /\ 1 \in 1..1
    OBVIOUS
  <2> HIDE DEF one
  <2>2. /\ q \in Seq(R) /\ Len(q) = 1 /\ q[1] = x /\ Cooked(one) = FlattenSeq(q) /\ x \in R
    BY <2>1, CookedCharsType, CookedCharType
  <2> HIDE DEF q, x
  <2>3. none \in Seq(R) /\ Len(none) = 0 /\ FlattenSeq(none) = <<>>
    BY DEF FlattenSeq
  <2> HIDE DEF R, none
  <2>4. p \in Seq(R) /\ Len(p) = 0 + 1 /\ p[0 + 1] = x
    BY <2>2, <2>3, AppendProperties
  <2> HIDE DEF p
  <2>5. q = p
    <3>1. Len(p) = 1 /\ p[1] = x
      BY <2>4
    <3>2. \A i \in 1..Len(q) : q[i] = p[i]
      BY <2>2, <3>1
    <3> QED
      BY <2>2, <2>4, <3>1, <3>2, SeqEqual
  <2>6. FlattenSeq(p) = FlattenSeq(none) \o x
    BY <2>2, <2>3, FlattenMore DEF R, p
  <2>7. <<>> \o x = x
    BY <2>2, ConcatEmptySeq DEF R
  <2> QED
    BY <2>2, <2>3, <2>5, <2>6, <2>7 DEF one, x
<1> QED
  BY <1>1, <1>2

(* The first character of a text comes first, and a LF behind its CR.      *)
LEMMA CookedFirst ==
    ASSUME NEW t \in Seq(Symbols), t # <<>>
    PROVE  /\ Cooked(Tail(t)) \in Seq(Symbols) /\ Head(t) \in Symbols
           /\ Head(t) # LF => Cooked(t) = <<Head(t)>> \o Cooked(Tail(t))
           /\ Head(t) = LF => Cooked(t) = <<CR>> \o (<<LF>> \o Cooked(Tail(t)))
<1> DEFINE h == Head(t)
           r == Tail(t)
           one == <<h>>
<1>1. h \in Symbols /\ r \in Seq(Symbols) /\ t = one \o r
  BY FirstMoves
<1> HIDE DEF h, r
<1>2. one \in Seq(Symbols)
  BY <1>1
<1>3. Cooked(t) = Cooked(one) \o Cooked(r)
  BY <1>1, <1>2, CookedJoined
<1>4. Cooked(one) = CookedChar(h)
  BY <1>1, CookedFew
<1>5. Cooked(r) \in Seq(Symbols)
  BY <1>1, CookedCharsType
<1>6. CASE h = LF
  <2> DEFINE cr == <<CR>>
             lf == <<LF>>
             more == Cooked(r)
  <2>1. Cooked(t) = <<CR, LF>> \o more
    BY <1>3, <1>4, <1>6 DEF CookedChar
  <2>2. cr \in Seq(Symbols) /\ lf \in Seq(Symbols) /\ more \in Seq(Symbols)
    BY <1>5, CharAssumption
  <2>3. <<CR, LF>> = cr \o lf
    <3> DEFINE two == <<CR, LF>>
               both == cr \o lf
    <3>1. /\ both \in Seq(Symbols) /\ Len(both) = Len(cr) + Len(lf)
          /\ \A i \in 1..(Len(cr) + Len(lf)) :
                both[i] = IF i <= Len(cr) THEN cr[i] ELSE lf[i - Len(cr)]
      <4>1. cr \in Seq(Symbols) /\ lf \in Seq(Symbols)
        BY <2>2
      <4> HIDE DEF cr, lf
      <4> QED
        BY <4>1, ConcatProperties
    <3>2. two \in Seq(Symbols) /\ Len(two) = 2 /\ two[1] = CR /\ two[2] = LF
      BY CharAssumption
    <3>3. Len(cr) = 1 /\ Len(lf) = 1 /\ cr[1] = CR /\ lf[1] = LF
      OBVIOUS
    <3> HIDE DEF two, both
    <3>4. both[1] = CR /\ both[2] = LF
      BY <3>1, <3>3
    <3>5. \A i \in 1..Len(two) : two[i] = both[i]
      BY <3>2, <3>4
    <3>6. Len(two) = Len(both)
      BY <3>1, <3>2, <3>3
    <3>7. two = both
      BY <3>1, <3>2, <3>5, <3>6, SeqEqual
    <3> QED
      BY <3>7 DEF two, both
  <2> HIDE DEF cr, lf, more
  <2>4. (cr \o lf) \o more = cr \o (lf \o more)
    <3>1. Associates(cr, lf, more)
      BY <2>2, Associate
    <3> QED
      BY <3>1 DEF Associates
  <2> QED
    BY <1>1, <1>5, <1>6, <2>1, <2>3, <2>4 DEF cr, lf, more, h, r
<1>7. CASE h # LF
  <2>1. Cooked(t) = one \o Cooked(r)
    BY <1>3, <1>4, <1>7 DEF CookedChar
  <2> QED
    BY <1>1, <1>5, <1>7, <2>1 DEF h, r
<1> QED
  BY <1>6, <1>7

(* The characters of one writer, those that were lost as well.             *)
From(w) == [r \in PutRecord |-> IF r.by = w THEN <<r.ch>> ELSE <<>>]

(* What one writer put is made of these.                                   *)
LEMMA PutByIs ==
    ASSUME NEW w, NEW s \in Seq(PutRecord)
    PROVE  /\ From(w) \in [PutRecord -> Seq(Symbols)]
           /\ FlattenSeq([i \in 1..Len(s) |-> IF s[i].by = w THEN <<s[i].ch>> ELSE <<>>])
              = FlattenSeq(Pieces(From(w), s))
<1>1. From(w) \in [PutRecord -> Seq(Symbols)]
  BY DEF From, PutRecord
<1>2. [i \in 1..Len(s) |-> IF s[i].by = w THEN <<s[i].ch>> ELSE <<>>] = Pieces(From(w), s)
  <2>1. \A i \in 1..Len(s) : s[i] \in PutRecord
    BY ElementOfSeq
  <2> QED
    BY <2>1 DEF Pieces, From
<1> QED
  BY <1>1, <1>2

(* A character moves from what its writer has left to what it put.         *)
LEMMA FirstLeftIsPut ==
    ASSUME IInv, CrAheadOfLf, NEW w \in Writers, PutChar(w)
    PROVE  \E c \in Symbols :
              /\ Send(w, c) /\ LeftOf(w)' \in Seq(Symbols)
              /\ LeftOf(w) = <<c>> \o LeftOf(w)'
              /\ crSent'[w] => text'[w] # <<>> /\ Head(text'[w]) = LF
              /\ \A v \in Writers : v # w => text'[v] = text[v] /\ crSent'[v] = crSent[v]
<1> DEFINE t == text[w]
           rest == Cooked(Tail(t))
<1>0. /\ text \in [Writers -> Seq(Symbols)] /\ crSent \in [Writers -> BOOLEAN]
      /\ t \in Seq(Symbols) /\ t # <<>> /\ CR \in Symbols /\ LF \in Symbols /\ CR # LF
  BY CharAssumption DEF IInv, TypeOK, TextsOK, FlagsOK, PutChar
<1>1. /\ rest \in Seq(Symbols) /\ Head(t) \in Symbols /\ Tail(t) \in Seq(Symbols)
      /\ Head(t) # LF => Cooked(t) = <<Head(t)>> \o rest
      /\ Head(t) = LF => Cooked(t) = <<CR>> \o (<<LF>> \o rest)
  BY <1>0, CookedFirst, HeadTailProperties
<1>2. LeftOf(w) = IF crSent[w] THEN Tail(Cooked(t)) ELSE Cooked(t)
  BY DEF LeftOf
<1>3. LeftOf(w)' = IF crSent'[w] THEN Tail(Cooked(text'[w])) ELSE Cooked(text'[w])
  BY DEF LeftOf, Cooked
<1>4. <<LF>> \o rest \in Seq(Symbols)
  BY <1>0, <1>1, OneAhead
<1>5. Tail(<<CR>> \o (<<LF>> \o rest)) = <<LF>> \o rest
  <2> DEFINE r == <<LF>> \o rest
  <2>1. r \in Seq(Symbols)
    BY <1>4
  <2> HIDE DEF r
  <2>2. Tail(<<CR>> \o r) = r
    BY <1>0, <2>1, OneAhead
  <2> QED
    BY <2>2 DEF r
<1>6. CASE NeedsCr(w)
  <2>1. /\ Send(w, CR) /\ crSent' = [crSent EXCEPT ![w] = TRUE] /\ text' = text
    BY <1>6 DEF PutChar
  <2>2. Head(t) = LF /\ ~crSent[w] /\ crSent'[w]
    BY <1>0, <1>6, <2>1 DEF NeedsCr
  <2>3. LeftOf(w) = <<CR>> \o (<<LF>> \o rest) /\ LeftOf(w)' = <<LF>> \o rest
    BY <1>1, <1>2, <1>3, <1>5, <2>1, <2>2, SMTT(30)
  <2>4. \A v \in Writers : v # w => crSent'[v] = crSent[v]
    BY <1>0, <2>1
  <2> HIDE DEF rest
  <2> QED
    BY <1>0, <1>4, <2>1, <2>2, <2>3, <2>4
<1>7. CASE ~NeedsCr(w)
  <2>1. /\ Send(w, Head(t)) /\ crSent' = [crSent EXCEPT ![w] = FALSE]
        /\ text' = [text EXCEPT ![w] = Tail(t)]
    BY <1>7 DEF PutChar
  <2>2. ~crSent'[w] /\ text'[w] = Tail(t)
    BY <1>0, <2>1
  <2>3. LeftOf(w)' = rest
    BY <1>3, <2>2
  <2>4. LeftOf(w) = <<Head(t)>> \o rest
    <3>1. CASE crSent[w]
      <4>1. Head(t) = LF
        BY <3>1 DEF CrAheadOfLf
      <4> QED
        BY <1>1, <1>2, <1>5, <3>1, <4>1
    <3>2. CASE ~crSent[w]
      <4>1. Head(t) # LF
        BY <1>7, <3>2 DEF NeedsCr
      <4> QED
        BY <1>1, <1>2, <3>2, <4>1
    <3> QED
      BY <3>1, <3>2
  <2>5. \A v \in Writers : v # w => crSent'[v] = crSent[v] /\ text'[v] = text[v]
    BY <1>0, <2>1
  <2> HIDE DEF rest
  <2> QED
    BY <1>1, <2>1, <2>2, <2>3, <2>4, <2>5, Zenon
<1> QED
  BY <1>6, <1>7

(* What was put and what is left stay what was given.                      *)
LEMMA PutCharInOrder ==
    ASSUME IInv, CrAheadOfLf, EachWriterInOrder, NEW w \in Writers, PutChar(w)
    PROVE  (CrAheadOfLf /\ EachWriterInOrder)'
<1>1. PICK c \in Symbols :
        /\ Send(w, c) /\ LeftOf(w)' \in Seq(Symbols)
        /\ LeftOf(w) = <<c>> \o LeftOf(w)'
        /\ crSent'[w] => text'[w] # <<>> /\ Head(text'[w]) = LF
        /\ \A v \in Writers : v # w => text'[v] = text[v] /\ crSent'[v] = crSent[v]
  BY FirstLeftIsPut
<1>2. CrAheadOfLf'
  BY <1>1 DEF CrAheadOfLf
<1>3. PICK sent \in BOOLEAN : put' = Append(put, [by |-> w, ch |-> c, sent |-> sent])
  BY <1>1 DEF Send
<1> DEFINE r == [by |-> w, ch |-> c, sent |-> sent]
<1>4. put \in Seq(PutRecord) /\ r \in PutRecord /\ given' = given
  BY DEF IInv, TypeOK, TextsOK, PutRecord, PutChar
<1>5. r.by = w /\ r.ch = c /\ put' = Append(put, r)
  BY <1>3
<1> HIDE DEF r
<1>6. ASSUME NEW v \in Writers
      PROVE  /\ PutBy(v) \in Seq(Symbols)
             /\ PutBy(v)' = PutBy(v) \o (IF w = v THEN <<c>> ELSE <<>>)
  <2>0. put' \in Seq(PutRecord)
    BY <1>4, <1>5
  <2>1. put' \in Seq(PutRecord) /\ From(v) \in [PutRecord -> Seq(Symbols)]
    BY <2>0, PutByIs, Zenon
  <2>2. PutBy(v) = FlattenSeq(Pieces(From(v), put))
    BY <1>4, PutByIs DEF PutBy
  <2>3. PutBy(v)' = FlattenSeq(Pieces(From(v), put'))
    BY <2>1, PutByIs DEF PutBy
  <2>4. FlattenSeq(Pieces(From(v), Append(put, r))) = FlattenSeq(Pieces(From(v), put)) \o From(v)[r]
    BY <1>4, <2>1, PiecesOfMore
  <2>5. FlattenSeq(Pieces(From(v), put)) \in Seq(Symbols)
    BY <1>4, <2>1, PiecesType
  <2>6. From(v)[r] = IF w = v THEN <<c>> ELSE <<>>
    BY <1>4, <1>5 DEF From
  <2> QED
    BY <1>5, <2>2, <2>3, <2>4, <2>5, <2>6
<1>7. ASSUME NEW v \in Writers PROVE PutBy(v)' \o LeftOf(v)' = Cooked(given'[v])
  <2>1. PutBy(v) \o LeftOf(v) = Cooked(given[v]) /\ Cooked(given'[v]) = Cooked(given[v])
    BY <1>4 DEF EachWriterInOrder
  <2>2. CASE v = w
    <3> DEFINE a == PutBy(w)
               one == <<c>>
               b == LeftOf(w)'
    <3>1. a \in Seq(Symbols) /\ one \in Seq(Symbols) /\ b \in Seq(Symbols)
      BY <1>1, <1>6
    <3>2. PutBy(w)' = a \o one /\ LeftOf(w) = one \o b
      BY <1>1, <1>6
    <3> HIDE DEF a, one, b
    <3>3. (a \o one) \o b = a \o (one \o b)
      <4>1. Associates(a, one, b)
        BY <3>1, Associate
      <4> QED
        BY <4>1 DEF Associates
    <3> QED
      BY <2>1, <2>2, <3>2, <3>3, Zenon DEF a, b
  <2>3. CASE v # w
    <3>1. LeftOf(v)' = LeftOf(v)
      BY <1>1, <2>3 DEF LeftOf, Cooked
    <3>2. PutBy(v)' = PutBy(v)
      <4>1. PutBy(v)' = PutBy(v) \o <<>> /\ PutBy(v) \in Seq(Symbols)
        BY <1>6, <2>3
      <4> QED
        BY <4>1, ConcatEmptySeq
    <3> QED
      BY <2>1, <3>1, <3>2, SMTT(30)
  <2> QED
    BY <2>2, <2>3
<1>8. EachWriterInOrder'
  <2> SUFFICES ASSUME NEW v \in Writers PROVE (PutBy(v) \o LeftOf(v) = Cooked(given[v]))'
    BY DEF EachWriterInOrder
  <2>1. Cooked(given[v])' = Cooked(given'[v])
    BY DEF Cooked
  <2> QED
    BY <1>7, <2>1
<1> QED
  BY <1>2, <1>8

(* A text that is given to a writer with nothing left is all of it left.   *)
LEMMA PutsInOrder ==
    ASSUME IInv, CrAheadOfLf, EachWriterInOrder, put' = put,
           NEW w \in Writers, NEW s \in Seq(Symbols), Puts(w, s)
    PROVE  (CrAheadOfLf /\ EachWriterInOrder)'
<1>0. /\ text \in [Writers -> Seq(Symbols)] /\ given \in [Writers -> Seq(Symbols)]
      /\ put \in Seq(PutRecord)
  BY DEF IInv, TypeOK, TextsOK, PutRecord
<1>1. /\ text[w] = <<>> /\ crSent' = crSent
      /\ text' = [text EXCEPT ![w] = s] /\ given' = [given EXCEPT ![w] = given[w] \o s]
  BY DEF Puts
<1>2. ~crSent[w]
  BY <1>1 DEF CrAheadOfLf
<1>3. CrAheadOfLf'
  BY <1>0, <1>1, <1>2 DEF CrAheadOfLf
<1>4. ASSUME NEW v \in Writers PROVE PutBy(v)' \o LeftOf(v)' = Cooked(given'[v])
  <2>1. PutBy(v) \o LeftOf(v) = Cooked(given[v]) /\ PutBy(v)' = PutBy(v)
    BY DEF EachWriterInOrder, PutBy
  <2>2. CASE v = w
    <3> DEFINE a == PutBy(w)
               g == given[w]
    <3>1. a \in Seq(Symbols) /\ g \in Seq(Symbols)
      <4>1. a = FlattenSeq(Pieces(From(w), put)) /\ From(w) \in [PutRecord -> Seq(Symbols)]
        BY <1>0, PutByIs DEF PutBy
      <4>2. FlattenSeq(Pieces(From(w), put)) \in Seq(Symbols)
        BY <1>0, <4>1, PiecesType, Zenon
      <4> QED
        BY <1>0, <4>1, <4>2
    <3>2. LeftOf(w) = <<>> /\ LeftOf(w)' = Cooked(s) /\ given'[w] = g \o s
      <4>1. LeftOf(w) = <<>>
        BY <1>1, <1>2, CookedFew DEF LeftOf
      <4>2. text'[w] = s /\ ~crSent'[w] /\ given'[w] = g \o s
        BY <1>0, <1>1, <1>2
      <4> QED
        BY <4>1, <4>2 DEF LeftOf, Cooked
    <3> HIDE DEF a, g
    <3>3. a \o <<>> = a /\ Cooked(g \o s) = Cooked(g) \o Cooked(s)
      BY <3>1, ConcatEmptySeq, CookedJoined
    <3> QED
      BY <2>1, <2>2, <3>2, <3>3 DEF a, g
  <2>3. CASE v # w
    <3>1. text'[v] = text[v] /\ crSent'[v] = crSent[v] /\ given'[v] = given[v]
      BY <1>0, <1>1, <2>3
    <3>2. LeftOf(v)' = LeftOf(v)
      BY <3>1 DEF LeftOf, Cooked
    <3> QED
      BY <2>1, <3>1, <3>2
  <2> QED
    BY <2>2, <2>3
<1>5. EachWriterInOrder'
  <2> SUFFICES ASSUME NEW v \in Writers PROVE (PutBy(v) \o LeftOf(v) = Cooked(given[v]))'
    BY DEF EachWriterInOrder
  <2>1. Cooked(given[v])' = Cooked(given'[v])
    BY DEF Cooked
  <2> QED
    BY <1>4, <2>1
<1> QED
  BY <1>3, <1>5

(* The other steps see nothing of what the writers have.                   *)
LEMMA OrderStutters ==
    ASSUME CrAheadOfLf, EachWriterInOrder, put' = put, UNCHANGED writers
    PROVE  (CrAheadOfLf /\ EachWriterInOrder)'
<1>1. text' = text /\ crSent' = crSent /\ given' = given
  BY DEF writers
<1>2. ASSUME NEW v \in Writers
      PROVE  PutBy(v)' = PutBy(v) /\ LeftOf(v)' = LeftOf(v)
             /\ Cooked(given[v])' = Cooked(given[v])
  BY <1>1 DEF PutBy, LeftOf, Cooked
<1>3. EachWriterInOrder'
  <2> SUFFICES ASSUME NEW v \in Writers PROVE (PutBy(v) \o LeftOf(v) = Cooked(given[v]))'
    BY DEF EachWriterInOrder
  <2> QED
    BY <1>2 DEF EachWriterInOrder
<1>4. CrAheadOfLf'
  BY <1>1 DEF CrAheadOfLf
<1> QED
  BY <1>3, <1>4

(* A step of the writers, the port or the tasks keeps each text in order.  *)
LEMMA OrderStep ==
    IInv /\ CrAheadOfLf /\ EachWriterInOrder /\ [Next]_tasksVars
        => (CrAheadOfLf /\ EachWriterInOrder)'
<1> SUFFICES ASSUME IInv, CrAheadOfLf, EachWriterInOrder, [Next]_tasksVars
             PROVE  (CrAheadOfLf /\ EachWriterInOrder)'
  OBVIOUS
<1>1. CASE ReceiveChar
  <2>1. PICK c \in Symbols : Store(c) \/ Overrun
    BY <1>1 DEF ReceiveChar
  <2>2. put' = put
    BY <1>1 DEF ReceiveChar
  <2>3. CASE Store(c) /\ LineDone(c)
    <3> DEFINE b == Append(buffer, c)
               n == CString(b)
               s == Received \o n
    <3>1. buffer \in Seq(Symbols)
      BY DEF IInv, TasksOK
    <3>2. b \in Seq(Symbols)
      BY <3>1, AppendProperties
    <3>3. buffer' = b
      BY <2>3 DEF Store
    <3> HIDE DEF b
    <3>4. n \in Seq(Symbols) /\ Received \in Seq(Symbols)
      BY <3>2, CStringIsText, TextAssumption
    <3>5. Puts("receiver", s)
      BY <2>3, <3>3 DEF Store
    <3> HIDE DEF n
    <3>6. s \in Seq(Symbols)
      BY <3>4, ConcatProperties
    <3>7. "receiver" \in Writers
      BY TextAssumption
    <3> HIDE DEF s
    <3> QED
      BY <2>2, <3>5, <3>6, <3>7, PutsInOrder
  <2>4. CASE Overrun \/ ~LineDone(c)
    <3>1. UNCHANGED writers
      BY <2>1, <2>4 DEF Store, Overrun
    <3> QED
      BY <2>2, <3>1, OrderStutters
  <2> QED
    BY <2>1, <2>3, <2>4
<1>2. CASE Answered
  <2>1. put' = put /\ UNCHANGED writers
    BY <1>2 DEF Answered, vars
  <2> QED
    BY <2>1, OrderStutters
<1>3. CASE Blink
  <2> DEFINE s == Tests[blinks + 1]
  <2>1. put' = put /\ Puts("blink", s)
    BY <1>3 DEF Blink
  <2>2. s \in Seq(Symbols)
    <3> DEFINE R == Seq(Symbols)
    <3>1. Tests \in Seq(R) /\ blinks + 1 \in 1..Len(Tests)
      <4>1. Tests \in Seq(R) /\ Len(Tests) \in Nat
        BY TextAssumption, LenProperties
      <4> HIDE DEF R
      <4> QED
        BY <1>3, <4>1 DEF Blink, IInv, TasksOK
    <3> HIDE DEF R
    <3>2. s \in R
      BY <3>1, ElementOfSeq
    <3> QED
      BY <3>2 DEF R
  <2>3. "blink" \in Writers
    BY TextAssumption
  <2> HIDE DEF s
  <2> QED
    BY <2>1, <2>2, <2>3, PutsInOrder
<1>4. CASE Port
  <2>1. CASE \E w \in Writers : PutChar(w)
    BY <2>1, PutCharInOrder
  <2>2. CASE UsbTask
    <3>1. put' = put /\ UNCHANGED writers
      BY <2>2 DEF UsbTask, Receive, QueueReceived, PollNothing, Fill, Write
    <3> QED
      BY <3>1, OrderStutters
  <2>3. CASE Host
    <3>1. put' = put /\ UNCHANGED writers
      BY <2>3 DEF Host, SetConfig, BusReset, HostWrites, HostReads
    <3> QED
      BY <3>1, OrderStutters
  <2> QED
    BY <1>4, <2>1, <2>2, <2>3 DEF Port
<1>5. CASE UNCHANGED tasksVars
  <2>1. put' = put /\ UNCHANGED writers
    BY <1>5 DEF tasksVars, vars
  <2> QED
    BY <2>1, OrderStutters
<1> QED
  BY <1>1, <1>2, <1>3, <1>4, <1>5 DEF Next, Tasks

(* Nothing is given and nothing put at the start.                          *)
LEMMA OrderInit == TasksInit => CrAheadOfLf /\ EachWriterInOrder
<1> SUFFICES ASSUME TasksInit PROVE CrAheadOfLf /\ EachWriterInOrder
  OBVIOUS
<1>1. /\ \A w \in Writers : text[w] = <<>> /\ given[w] = <<>> /\ ~crSent[w]
      /\ put = <<>>
  BY DEF TasksInit, Init
<1>2. CrAheadOfLf
  BY <1>1 DEF CrAheadOfLf
<1>3. ASSUME NEW w \in Writers PROVE PutBy(w) \o LeftOf(w) = Cooked(given[w])
  <2>1. LeftOf(w) = <<>> /\ Cooked(given[w]) = <<>>
    BY <1>1, CookedFew DEF LeftOf
  <2>2. PutBy(w) = <<>>
    <3> DEFINE q == Pieces(From(w), put)
               R == Seq(Symbols)
    <3>0. put \in Seq(PutRecord) /\ Len(put) = 0
      BY <1>1
    <3>1. put \in Seq(PutRecord) /\ Len(put) = 0 /\ From(w) \in [PutRecord -> R]
      BY <3>0, PutByIs, Zenon
    <3>2. q \in Seq(R) /\ Len(q) = 0
      <4>1. PiecesOf(From(w), put, Symbols)
        BY <3>1, PiecesType
      <4> QED
        BY <3>1, <4>1 DEF PiecesOf
    <3>3. PutBy(w) = FlattenSeq(q)
      BY <3>1, PutByIs DEF PutBy
    <3> HIDE DEF q, R
    <3>4. q = <<>>
      BY <3>2, EmptySeq
    <3> QED
      BY <3>3, <3>4 DEF FlattenSeq
  <2>3. <<>> \in Seq(Symbols) /\ <<>> \o <<>> = <<>>
    OBVIOUS
  <2> QED
    BY <2>1, <2>2, <2>3
<1> QED
  BY <1>2, <1>3 DEF EachWriterInOrder

(* However the writers and the port interleave, what each writer put and   *)
(* has left to put is what usb_putc makes of the texts it was given, in    *)
(* their order: none is left out, doubled or swapped among the characters  *)
(* that usb_putc sends to usb_txq, those lost there included.              *)
THEOREM WritersKeepOrder == Spec => []EachWriterInOrder
<1>1. Spec => [](CrAheadOfLf /\ EachWriterInOrder)
  BY OrderInit, OrderStep, InvHolds, PTL DEF Spec
<1> QED
  BY <1>1, PTL

-----------------------------------------------------------------------------
(* The receiver answers each line                                          *)

(* Sequences that agree up to a place have the same pieces up to there.    *)
LEMMA SamePiece ==
    ASSUME NEW S, NEW s \in Seq(S), NEW t \in Seq(S), NEW m \in Nat, NEW n \in Nat,
           m <= n, n <= Len(s), n <= Len(t), \A k \in 1..n : t[k] = s[k]
    PROVE  SubSeq(t, m + 1, n) = SubSeq(s, m + 1, n)
<1> DEFINE a == SubSeq(t, m + 1, n)
           b == SubSeq(s, m + 1, n)
<1>1. a \in Seq(S) /\ Len(a) = n - m /\ \A k \in 1..(n - m) : a[k] = t[m + k]
  BY Piece, SMTT(30)
<1>2. b \in Seq(S) /\ Len(b) = n - m /\ \A k \in 1..(n - m) : b[k] = s[m + k]
  BY Piece
<1> HIDE DEF a, b
<1>3. \A k \in 1..Len(a) : a[k] = b[k]
  <2> SUFFICES ASSUME NEW k \in 1..Len(a) PROVE a[k] = b[k]
    OBVIOUS
  <2>1. k \in 1..(n - m) /\ m + k \in 1..n
    BY <1>1
  <2> QED
    BY <1>1, <1>2, <2>1
<1>4. a = b
  BY <1>1, <1>2, <1>3, SeqEqual
<1> QED
  BY <1>4 DEF a, b

(* The last piece of a sequence grows with it.                             *)
LEMMA LongerPiece ==
    ASSUME NEW S, NEW s \in Seq(S), NEW c \in S, NEW m \in Nat, m <= Len(s)
    PROVE  Append(SubSeq(s, m + 1, Len(s)), c) = SubSeq(Append(s, c), m + 1, Len(s) + 1)
<1> DEFINE t == Append(s, c)
           n == Len(s)
           a == SubSeq(s, m + 1, n)
           ac == Append(a, c)
           b == SubSeq(t, m + 1, n + 1)
<1>0. n \in Nat
  BY LenProperties
<1>1. /\ t \in Seq(S) /\ Len(t) = n + 1 /\ t[n + 1] = c
      /\ \A i \in 1..n : t[i] = s[i]
  BY AppendProperties
<1> HIDE DEF t
<1>2. a \in Seq(S) /\ Len(a) = n - m /\ \A k \in 1..(n - m) : a[k] = s[m + k]
  BY <1>0, Piece
<1>3. b \in Seq(S) /\ Len(b) = (n + 1) - m /\ \A k \in 1..((n + 1) - m) : b[k] = t[m + k]
  <2>1. m <= n + 1 /\ n + 1 <= Len(t) /\ n + 1 \in Nat
    BY <1>0, <1>1
  <2> QED
    BY <1>1, <2>1, Piece
<1> HIDE DEF a, b, n
<1>4. /\ ac \in Seq(S) /\ Len(ac) = Len(a) + 1 /\ ac[Len(a) + 1] = c
      /\ \A k \in 1..Len(a) : ac[k] = a[k]
  BY <1>2, AppendProperties
<1> HIDE DEF ac
<1>5. \A k \in 1..Len(ac) : ac[k] = b[k]
  <2> SUFFICES ASSUME NEW k \in 1..Len(ac) PROVE ac[k] = b[k]
    OBVIOUS
  <2>1. k \in Nat /\ k \in 1..((n - m) + 1)
    BY <1>2, <1>4
  <2>2. CASE k <= n - m
    <3>1. k \in 1..(n - m) /\ k \in 1..((n + 1) - m) /\ m + k \in 1..n
      BY <1>0, <2>1, <2>2, m <= n DEF n
    <3>2. ac[k] = a[k] /\ a[k] = s[m + k] /\ b[k] = t[m + k] /\ t[m + k] = s[m + k]
      BY <1>1, <1>2, <1>3, <1>4, <3>1, SMTT(30)
    <3> QED
      BY <3>2
  <2>3. CASE ~(k <= n - m)
    <3>1. k = (n - m) + 1 /\ k \in 1..((n + 1) - m) /\ m + k = n + 1
      BY <1>0, <2>1, <2>3, m <= n DEF n
    <3>2. ac[k] = c /\ b[k] = t[m + k]
      BY <1>2, <1>3, <1>4, <3>1
    <3> QED
      BY <1>1, <3>1, <3>2
  <2> QED
    BY <2>2, <2>3
<1>6. Len(ac) = Len(b)
  BY <1>0, <1>2, <1>3, <1>4, m <= n, SMTT(30) DEF n
<1>7. ac = b
  BY <1>3, <1>4, <1>5, <1>6, SeqEqual, Zenon
<1> QED
  BY <1>7, Zenon DEF ac, a, b, t, n

(* A set of numbers up to one of them has a greatest.                      *)
LEMMA GreatestElement ==
    ASSUME NEW n \in Nat, NEW T \in SUBSET (1..n), T # {}
    PROVE  \E x \in T : \A y \in T : y <= x
<1> DEFINE U == {n - y : y \in T}
<1>1. PICK u \in U : \A v \in U : u <= v
  <2>0. \A y \in T : n - y \in Nat
    <3> SUFFICES ASSUME NEW y \in T PROVE n - y \in Nat
      OBVIOUS
    <3>1. y \in 1..n
      OBVIOUS
    <3> QED
      BY <3>1
  <2>1. U \in SUBSET Nat /\ U # {}
    BY <2>0
  <2> HIDE DEF U
  <2> QED
    BY <2>1, LeastElement
<1>2. PICK x \in T : u = n - x
  BY <1>1
<1>3. ASSUME NEW y \in T PROVE y <= x
  <2>1. n - x <= n - y
    BY <1>1, <1>2
  <2> QED
    BY <2>1
<1> QED
  BY <1>3

(* A line starts within the text, right behind the last end before it.     *)
LEMMA LineStartIs ==
    ASSUME NEW s \in Seq(Symbols), NEW i \in 1..(Len(s) + 1)
    PROVE  /\ \E m \in Nat : LineStart(s, i) = m + 1 /\ m < i
           /\ i - 1 \in Ends(s) => LineStart(s, i) = i
<1>0. Len(s) \in Nat
  BY LenProperties
<1> DEFINE before == {j \in Ends(s) : j < i}
<1>1. before \in SUBSET (1..Len(s))
  BY <1>0 DEF Ends
<1>2. CASE before = {}
  <2>1. LineStart(s, i) = 1 /\ 0 \in Nat /\ 0 < i /\ 0 + 1 = 1
    BY <1>2 DEF LineStart
  <2>2. i - 1 \notin Ends(s)
    BY <1>0, <1>2
  <2> QED
    BY <2>1, <2>2
<1>3. CASE before # {}
  <2> DEFINE last == CHOOSE j \in before : \A k \in before : k <= j
  <2>1. LineStart(s, i) = 1 + last
    BY <1>3 DEF LineStart
  <2>2. last \in before /\ \A k \in before : k <= last
    <3>1. \E j \in before : \A k \in before : k <= j
      <4> HIDE DEF before
      <4> QED
        BY <1>0, <1>1, <1>3, GreatestElement
    <3> HIDE DEF before
    <3> QED
      BY <3>1
  <2> HIDE DEF last
  <2>3. last \in Nat /\ last < i
    BY <1>1, <2>2
  <2>4. i - 1 \in Ends(s) => last = i - 1
    <3>1. i - 1 \in Ends(s) => i - 1 \in before
      BY <1>0
    <3> QED
      BY <2>2, <2>3, <3>1
  <2> QED
    BY <2>1, <2>3, <2>4
<1> QED
  BY <1>2, <1>3

(* Where a line starts depends on the ends before it alone.                *)
BehindLast(ends) == IF ends = {} THEN 1 ELSE 1 + CHOOSE j \in ends : \A k \in ends : k <= j

(* One more character moves no line that was there.                        *)
LEMMA LinesStay ==
    ASSUME NEW s \in Seq(Symbols), NEW c \in Symbols
    PROVE  LET t == Append(s, c)
           IN  /\ \A i \in 1..Len(s) : i \in Ends(t) <=> i \in Ends(s)
               /\ Len(s) + 1 \in Ends(t) <=> s # <<>> /\ s[Len(s)] = CR /\ c = LF
               /\ \A i \in 1..(Len(s) + 1) : LineStart(t, i) = LineStart(s, i)
               /\ Len(s) + 1 \notin Ends(t)
                    => LineStart(t, Len(s) + 2) = LineStart(s, Len(s) + 1)
<1> DEFINE t == Append(s, c)
           n == Len(s)
<1>0. n \in Nat /\ (s # <<>> <=> n # 0)
  BY LenProperties, EmptySeq
<1>1. t \in Seq(Symbols) /\ Len(t) = n + 1 /\ t[n + 1] = c /\ \A i \in 1..n : t[i] = s[i]
  BY AppendProperties
<1> HIDE DEF t, n
<1>2. ASSUME NEW i \in 1..n PROVE i \in Ends(t) <=> i \in Ends(s)
  <2>1. CASE i = 1
    BY <1>0, <2>1 DEF Ends, n
  <2>2. CASE i # 1
    <3>1. i \in 2..Len(s) /\ i \in 2..Len(t) /\ i - 1 \in 1..n
      BY <1>0, <1>1, <2>2 DEF n
    <3>2. t[i] = s[i] /\ t[i - 1] = s[i - 1]
      BY <1>1, <3>1
    <3> QED
      BY <3>1, <3>2 DEF Ends
  <2> QED
    BY <2>1, <2>2
<1>3. n + 1 \in Ends(t) <=> s # <<>> /\ s[n] = CR /\ c = LF
  <2>1. CASE n = 0
    BY <1>0, <1>1, <2>1 DEF Ends
  <2>2. CASE n # 0
    <3>1. n + 1 \in 2..Len(t) /\ (n + 1) - 1 = n /\ n \in 1..n
      BY <1>0, <1>1, <2>2
    <3>2. t[n] = s[n]
      BY <1>1, <3>1
    <3> QED
      BY <1>0, <1>1, <2>2, <3>1, <3>2 DEF Ends
  <2> QED
    BY <2>1, <2>2
<1>4. \A j \in Ends(t) : j \in 1..(n + 1)
  BY <1>0, <1>1 DEF Ends
<1>5. \A j \in Ends(s) : j \in 1..n
  BY <1>0 DEF Ends, n
<1>6. ASSUME NEW i \in 1..(n + 1) PROVE LineStart(t, i) = LineStart(s, i)
  <2>1. {j \in Ends(t) : j < i} = {j \in Ends(s) : j < i}
    <3>1. ASSUME NEW j \in Ends(t), j < i PROVE j \in Ends(s)
      <4>1. j \in 1..n
        BY <1>0, <1>4, <3>1
      <4> QED
        BY <1>2, <4>1
    <3>2. ASSUME NEW j \in Ends(s) PROVE j \in Ends(t)
      BY <1>2, <1>5
    <3> QED
      BY <3>1, <3>2
  <2>2. /\ LineStart(t, i) = BehindLast({j \in Ends(t) : j < i})
        /\ LineStart(s, i) = BehindLast({j \in Ends(s) : j < i})
    BY DEF LineStart, BehindLast
  <2> QED
    BY <2>1, <2>2
<1>7. ASSUME n + 1 \notin Ends(t) PROVE LineStart(t, n + 2) = LineStart(s, n + 1)
  <2>1. {j \in Ends(t) : j < n + 2} = {j \in Ends(s) : j < n + 1}
    <3>1. ASSUME NEW j \in Ends(t) PROVE j \in Ends(s) /\ j < n + 1
      <4>1. j \in 1..(n + 1) /\ j # n + 1
        BY <1>4, <1>7
      <4>2. j \in 1..n /\ j < n + 1
        BY <1>0, <4>1
      <4> QED
        BY <1>2, <4>2
    <3>2. ASSUME NEW j \in Ends(s) PROVE j \in Ends(t) /\ j < n + 2
      <4>1. j \in 1..n /\ j < n + 2
        BY <1>0, <1>5
      <4> QED
        BY <1>2, <4>1
    <3> QED
      BY <3>1, <3>2
  <2>2. /\ LineStart(t, n + 2) = BehindLast({j \in Ends(t) : j < n + 2})
        /\ LineStart(s, n + 1) = BehindLast({j \in Ends(s) : j < n + 1})
    BY DEF LineStart, BehindLast
  <2> QED
    BY <2>1, <2>2
<1> QED
  BY <1>2, <1>3, <1>6, <1>7 DEF t, n

(* Nor does it change one.                                                 *)
LEMMA LinesSame ==
    ASSUME NEW s \in Seq(Symbols), NEW c \in Symbols, NEW i \in 1..Len(s)
    PROVE  LineAt(Append(s, c), i) = LineAt(s, i)
<1> DEFINE t == Append(s, c)
           n == Len(s)
<1>0. n \in Nat
  BY LenProperties
<1>1. t \in Seq(Symbols) /\ Len(t) = n + 1 /\ \A k \in 1..n : t[k] = s[k]
  BY AppendProperties
<1>2. \A k \in 1..(n + 1) : LineStart(t, k) = LineStart(s, k)
  BY LinesStay
<1> HIDE DEF t
<1>3. /\ i \in 1..(n + 1) /\ i \in Nat /\ i <= n /\ i <= Len(t)
      /\ \A k \in 1..i : t[k] = s[k]
  BY <1>0, <1>1
<1>4. LineStart(t, i) = LineStart(s, i)
  BY <1>2, <1>3
<1>5. PICK m \in Nat : LineStart(s, i) = m + 1 /\ m < i
  BY <1>3, LineStartIs
<1>6. m <= i
  BY <1>3, <1>5
<1>7. SubSeq(t, m + 1, i) = SubSeq(s, m + 1, i)
  BY <1>1, <1>3, <1>6, SamePiece
<1> QED
  BY <1>4, <1>5, <1>7 DEF LineAt, t

(* The place a line takes in the buffer at one of its characters.          *)
Place(s, i) == Len(LineAt(s, i)) + (IF i \in Ends(s) THEN 1 ELSE 0)

(* One more character makes a line too long, or there was one before.      *)
LEMMA TooLongMore ==
    ASSUME NEW s \in Seq(Symbols), NEW c \in Symbols
    PROVE  TooLong(Append(s, c))
           <=> TooLong(s) \/ Place(Append(s, c), Len(s) + 1) > Buffer
<1> DEFINE t == Append(s, c)
           n == Len(s)
<1>0. n \in Nat /\ Len(t) = n + 1
  BY LenProperties, AppendProperties
<1>1. ASSUME NEW i \in 1..n PROVE Place(t, i) = Place(s, i)
  <2>1. LineAt(t, i) = LineAt(s, i) /\ (i \in Ends(t) <=> i \in Ends(s))
    BY LinesSame, LinesStay
  <2> HIDE DEF t
  <2> QED
    BY <2>1 DEF Place
<1>2. /\ TooLong(t) <=> \E i \in 1..Len(t) : Place(t, i) > Buffer
      /\ TooLong(s) <=> \E i \in 1..n : Place(s, i) > Buffer
  BY DEF TooLong, Place
<1> HIDE DEF t, n
<1>3. 1..Len(t) = (1..n) \cup {n + 1}
  BY <1>0
<1> QED
  BY <1>1, <1>2, <1>3 DEF t, n

(* The answers, one per character, most of them empty.                     *)
AnswerPieces(s) == [i \in 1..Len(s) |-> AnswerAt(s, i)]

(* An answer is a text.                                                    *)
LEMMA AnswerType ==
    ASSUME NEW s \in Seq(Symbols), NEW i \in 1..Len(s)
    PROVE  AnswerAt(s, i) \in Seq(Symbols)
<1>0. Len(s) \in Nat /\ i \in 1..(Len(s) + 1)
  BY LenProperties
<1>1. PICK m \in Nat : LineStart(s, i) = m + 1 /\ m < i
  BY <1>0, LineStartIs
<1> DEFINE line == SubSeq(s, LineStart(s, i), i)
           text1 == CString(line)
           whole == Received \o text1
<1>2. line \in Seq(Symbols)
  <2>1. i \in Nat /\ m <= i /\ i <= Len(s)
    BY <1>0, <1>1
  <2>2. SubSeq(s, m + 1, i) \in Seq(Symbols)
    BY <2>1, Piece
  <2> QED
    BY <1>1, <2>2
<1> HIDE DEF line
<1>3. text1 \in Seq(Symbols) /\ Received \in Seq(Symbols)
  BY <1>2, CStringIsText, TextAssumption
<1> HIDE DEF text1
<1>4. whole \in Seq(Symbols) /\ <<>> \in Seq(Symbols)
  BY <1>3, ConcatProperties
<1>5. AnswerAt(s, i) = whole \/ AnswerAt(s, i) = <<>>
  BY DEF AnswerAt, LineAt, whole, text1, line
<1> HIDE DEF whole
<1> QED
  BY <1>4, <1>5

(* A piece for every character of the text.                                *)
LEMMA AnswerPiecesType ==
    ASSUME NEW s \in Seq(Symbols)
    PROVE  /\ AnswerPieces(s) \in Seq(Seq(Symbols)) /\ Len(AnswerPieces(s)) = Len(s)
           /\ \A i \in 1..Len(s) : AnswerPieces(s)[i] = AnswerAt(s, i)
<1> DEFINE q == AnswerPieces(s)
           R == Seq(Symbols)
<1>1. \A i \in 1..Len(s) : AnswerAt(s, i) \in R
  BY AnswerType
<1> HIDE DEF R
<1>2. q \in [1..Len(s) -> R] /\ \A i \in 1..Len(s) : q[i] = AnswerAt(s, i)
  BY <1>1 DEF AnswerPieces
<1> HIDE DEF q
<1>3. q \in Seq(R) /\ Len(q) = Len(s)
  BY <1>2, LenProperties
<1> QED
  BY <1>2, <1>3 DEF q, R

(* What one more character adds to the answers.                            *)
LEMMA AnswersMore ==
    ASSUME NEW s \in Seq(Symbols), NEW c \in Symbols
    PROVE  Answers(Append(s, c)) = Answers(s) \o AnswerAt(Append(s, c), Len(s) + 1)
<1> DEFINE t == Append(s, c)
           n == Len(s)
           a == AnswerPieces(t)
           q == AnswerPieces(s)
           x == AnswerAt(t, n + 1)
           p == Append(q, x)
           R == Seq(Symbols)
<1>0. n \in Nat
  BY LenProperties
<1>1. t \in Seq(Symbols) /\ Len(t) = n + 1 /\ \A i \in 1..n : t[i] = s[i]
  BY AppendProperties
<1>2. /\ \A i \in 1..n : i \in Ends(t) <=> i \in Ends(s)
      /\ \A i \in 1..(n + 1) : LineStart(t, i) = LineStart(s, i)
  BY LinesStay
<1> HIDE DEF t
<1>3. /\ a \in Seq(R) /\ Len(a) = n + 1 /\ \A i \in 1..(n + 1) : a[i] = AnswerAt(t, i)
      /\ q \in Seq(R) /\ Len(q) = n /\ \A i \in 1..n : q[i] = AnswerAt(s, i)
      /\ x \in R
  BY <1>0, <1>1, AnswerPiecesType, AnswerType
<1> HIDE DEF n
<1>4. ASSUME NEW i \in 1..n PROVE AnswerAt(t, i) = AnswerAt(s, i)
  <2>1. LineAt(t, i) = LineAt(s, i) /\ (i \in Ends(t) <=> i \in Ends(s))
    BY <1>2, LinesSame DEF t, n
  <2> QED
    BY <2>1 DEF AnswerAt
<1> HIDE DEF a, q, x, R
<1>5. /\ p \in Seq(R) /\ Len(p) = n + 1 /\ p[n + 1] = x
      /\ \A i \in 1..n : p[i] = q[i]
  <2>1. q \in Seq(R) /\ x \in R /\ Len(q) = n
    BY <1>3
  <2>2. /\ p \in Seq(R) /\ Len(p) = Len(q) + 1 /\ p[Len(q) + 1] = x
        /\ \A i \in 1..Len(q) : p[i] = q[i]
    BY <2>1, AppendProperties
  <2> QED
    BY <2>1, <2>2
<1> HIDE DEF p
<1>6. a = p
  <2>1. \A i \in 1..Len(a) : a[i] = p[i]
    <3> SUFFICES ASSUME NEW i \in 1..Len(a) PROVE a[i] = p[i]
      OBVIOUS
    <3>1. CASE i \in 1..n
      <4>1. a[i] = AnswerAt(t, i) /\ p[i] = AnswerAt(s, i)
        BY <1>3, <1>5, <3>1
      <4> QED
        BY <1>4, <3>1, <4>1
    <3>2. CASE i = n + 1
      BY <1>3, <1>5, <3>2 DEF x
    <3>3. i \in 1..n \/ i = n + 1
      BY <1>0, <1>3
    <3> QED
      BY <3>1, <3>2, <3>3
  <2> QED
    BY <1>3, <1>5, <2>1, SeqEqual
<1>7. FlattenSeq(p) = FlattenSeq(q) \o x
  BY <1>3, FlattenMore, SMTT(30) DEF R, p
<1>8. Answers(t) = FlattenSeq(a) /\ Answers(s) = FlattenSeq(q)
  BY DEF Answers, AnswerPieces, a, q
<1> QED
  BY <1>6, <1>7, <1>8 DEF t, x, n

(* What was displayed, when no line is begun.                              *)
Shows(d, s) == \A i \in Ends(s) :
    LineStart(s, Len(s) + 1) = i + 1 => d = CString(LineAt(s, i))

(* The answers due in the next state are those to what is read then.       *)
LEMMA AnswersNext ==
    AnswersEachLine' <=>
        /\ overrun' <=> TooLong(got')
        /\ ~overrun' => given'["receiver"] = Answers(got')
        /\ ~overrun' /\ ~answering' => Shows(displayed', got')
BY DEF AnswersEachLine, Answers, AnswerAt, LineAt, LineStart, Ends, CString, TooLong, Shows

(* A character continues the line that is begun, or ends and answers it,   *)
(* or overruns the buffer.                                                 *)
LEMMA ReceiveCharAnswers ==
    ASSUME IInv, BufferIsLine, AnswersEachLine, ReceiveChar
    PROVE  (BufferIsLine /\ AnswersEachLine)'
<1> DEFINE n == Len(got)
<1>0. /\ got \in Seq(Symbols) /\ n \in Nat /\ (got # <<>> <=> n # 0)
      /\ buffer \in Seq(Symbols) /\ Len(buffer) \in Nat
  BY LenProperties, EmptySeq DEF IInv, TasksOK
<1>1. PICK c \in Symbols :
        /\ got' = Append(got, c)
        /\ IF HasRoom(c) THEN Store(c) ELSE Overrun
  BY DEF ReceiveChar
<1>2. ~answering /\ ~overrun /\ displayed' = displayed
  BY DEF ReceiveChar
<1>3. /\ buffer = SubSeq(got, LineStart(got, n + 1), n)
      /\ cr_received = (got # <<>> /\ got[n] = CR)
      /\ given["receiver"] = Answers(got) /\ Shows(displayed, got) /\ ~TooLong(got)
  BY <1>2 DEF BufferIsLine, AnswersEachLine, Shows
<1>4. /\ got' \in Seq(Symbols) /\ Len(got') = n + 1 /\ got'[n + 1] = c /\ got' # <<>>
  <2> DEFINE t == Append(got, c)
  <2>1. t \in Seq(Symbols) /\ Len(t) = n + 1 /\ t[n + 1] = c /\ t # <<>>
    BY <1>0, AppendProperties
  <2> QED
    BY <1>1, <2>1
<1>5. /\ n + 1 \in Ends(got') <=> got # <<>> /\ got[n] = CR /\ c = LF
      /\ LineStart(got', n + 1) = LineStart(got, n + 1)
      /\ n + 1 \notin Ends(got') => LineStart(got', n + 2) = LineStart(got, n + 1)
      /\ \A i \in 1..n : i \in Ends(got') <=> i \in Ends(got)
  <2> DEFINE t == Append(got, c)
  <2>1. /\ Len(got) + 1 \in Ends(t) <=> got # <<>> /\ got[Len(got)] = CR /\ c = LF
        /\ \A i \in 1..(Len(got) + 1) : LineStart(t, i) = LineStart(got, i)
        /\ Len(got) + 1 \notin Ends(t) => LineStart(t, Len(got) + 2) = LineStart(got, Len(got) + 1)
        /\ \A i \in 1..Len(got) : i \in Ends(t) <=> i \in Ends(got)
    BY <1>0, LinesStay
  <2>2. n + 1 \in 1..(n + 1)
    BY <1>0
  <2> HIDE DEF t
  <2>3. t = got'
    BY <1>1 DEF t
  <2> QED
    BY <2>1, <2>2, <2>3
<1>6. LineDone(c) <=> n + 1 \in Ends(got')
  BY <1>3, <1>5 DEF LineDone
<1> DEFINE b == Append(buffer, c)
<1>7. b = LineAt(got', n + 1)
  <2>1. n + 1 \in 1..(Len(got) + 1)
    BY <1>0
  <2>2. PICK m \in Nat : LineStart(got, n + 1) = m + 1 /\ m < n + 1
    BY <1>0, <2>1, LineStartIs
  <2>3. m <= Len(got)
    BY <1>0, <2>2
  <2>4. Append(SubSeq(got, m + 1, Len(got)), c) = SubSeq(Append(got, c), m + 1, Len(got) + 1)
    BY <1>0, <2>3, LongerPiece
  <2>5. b = SubSeq(got', LineStart(got, n + 1), n + 1)
    BY <1>1, <1>3, <2>2, <2>4, Zenon
  <2> QED
    BY <1>5, <2>5 DEF LineAt
<1>8. Answers(got') = Answers(got) \o AnswerAt(got', n + 1)
  BY <1>0, <1>1, AnswersMore
<1>9. TooLong(got') <=> ~HasRoom(c)
  <2>1. TooLong(got') <=> Place(got', n + 1) > Buffer
    BY <1>0, <1>1, <1>3, TooLongMore
  <2>2. Len(b) = Len(buffer) + 1
    BY <1>0, AppendProperties
  <2>3. Place(got', n + 1) = Len(buffer) + 1 + (IF LineDone(c) THEN 1 ELSE 0)
    BY <1>6, <1>7, <2>2 DEF Place
  <2>4. Buffer \in Nat
    BY BufferAssumption
  <2> QED
    BY <1>0, <2>1, <2>3, <2>4 DEF HasRoom
<1> HIDE DEF n
<1>10. CASE HasRoom(c) /\ LineDone(c)
  <2>1. /\ buffer' = b /\ answering' /\ overrun' = overrun
        /\ Puts("receiver", Received \o CString(buffer'))
    BY <1>1, <1>10 DEF Store
  <2>2. Len(got') \in Ends(got') /\ buffer' = LineAt(got', Len(got'))
    BY <1>4, <1>6, <1>7, <1>10, <2>1
  <2>3. AnswerAt(got', n + 1) = Received \o CString(buffer')
    BY <1>6, <1>7, <1>10, <2>1 DEF AnswerAt
  <2>4. given'["receiver"] = given["receiver"] \o (Received \o CString(buffer'))
    <3>1. given' = [given EXCEPT !["receiver"] = @ \o (Received \o CString(buffer'))]
      BY <2>1 DEF Puts
    <3>2. given \in [Writers -> Seq(Symbols)] /\ "receiver" \in Writers
      BY TextAssumption DEF IInv, TypeOK, TextsOK
    <3> QED
      BY <3>1, <3>2, Zenon
  <2>5. given'["receiver"] = Answers(got')
    BY <1>3, <1>8, <2>3, <2>4
  <2>6. ~overrun' /\ ~TooLong(got')
    BY <1>2, <1>9, <1>10, <2>1
  <2>7. BufferIsLine'
    BY <2>1, <2>2 DEF BufferIsLine, LineAt, LineStart, Ends
  <2>8. AnswersEachLine'
    BY <2>1, <2>5, <2>6, AnswersNext
  <2> QED
    BY <2>7, <2>8
<1>11. CASE HasRoom(c) /\ ~LineDone(c)
  <2>1. /\ buffer' = b /\ ~answering' /\ given' = given /\ overrun' = overrun
        /\ cr_received' = (c = CR)
    BY <1>1, <1>2, <1>11 DEF Store, writers
  <2>2. Answers(got') = Answers(got)
    <3>1. AnswerAt(got', n + 1) = <<>>
      BY <1>6, <1>11 DEF AnswerAt
    <3>2. given["receiver"] \in Seq(Symbols) /\ Answers(got) = given["receiver"]
      BY <1>3, TextAssumption DEF IInv, TypeOK, TextsOK
    <3> QED
      BY <1>8, <3>1, <3>2, ConcatEmptySeq
  <2>3. LineStart(got', Len(got') + 1) = LineStart(got, n + 1)
    <3>1. Len(got') + 1 = n + 2
      BY <1>0, <1>4 DEF n
    <3> QED
      BY <1>5, <1>6, <1>11, <3>1
  <2>4. buffer' = SubSeq(got', LineStart(got', Len(got') + 1), Len(got'))
    BY <1>4, <1>5, <1>7, <2>1, <2>3 DEF LineAt
  <2>5. cr_received' = (got' # <<>> /\ got'[Len(got')] = CR)
    BY <1>4, <2>1
  <2>6. BufferIsLine'
    BY <2>1, <2>4, <2>5 DEF BufferIsLine
  <2>7. Shows(displayed', got')
    <3> SUFFICES ASSUME NEW i \in Ends(got'), LineStart(got', Len(got') + 1) = i + 1
                 PROVE  displayed = CString(LineAt(got', i))
      BY <1>2 DEF Shows
    <3>1. i \in 1..(n + 1) /\ i # n + 1
      <4>1. i \in 1..Len(got')
        BY <1>0, <1>4 DEF Ends, n
      <4> QED
        BY <1>4, <1>6, <1>11, <4>1
    <3>2. i \in 1..n
      BY <1>0, <3>1 DEF n
    <3>3. i \in Ends(got) /\ LineStart(got, n + 1) = i + 1
      BY <1>5, <2>3, <3>2
    <3>4. LineAt(got', i) = LineAt(got, i)
      BY <1>0, <1>1, <3>2, LinesSame DEF n
    <3> QED
      BY <1>3, <3>3, <3>4 DEF Shows, n
  <2>8. ~overrun' /\ ~TooLong(got') /\ given'["receiver"] = Answers(got')
    BY <1>2, <1>3, <1>9, <1>11, <2>1, <2>2
  <2>9. AnswersEachLine'
    BY <2>7, <2>8, AnswersNext
  <2> QED
    BY <2>6, <2>9
<1>12. CASE ~HasRoom(c)
  <2>1. overrun' /\ ~answering' /\ TooLong(got')
    BY <1>1, <1>2, <1>9, <1>12 DEF Overrun
  <2>2. BufferIsLine'
    BY <2>1 DEF BufferIsLine
  <2>3. AnswersEachLine'
    BY <2>1, AnswersNext
  <2> QED
    BY <2>2, <2>3
<1> QED
  BY <1>10, <1>11, <1>12

(* When an answer is put and displayed, the next line begins: behind the   *)
(* last end.                                                               *)
LEMMA AnsweredAnswers ==
    ASSUME IInv, BufferIsLine, AnswersEachLine, Answered
    PROVE  (BufferIsLine /\ AnswersEachLine)'
<1> DEFINE n == Len(got)
<1>1. /\ n \in Ends(got) /\ got \in Seq(Symbols) /\ n \in Nat
      /\ buffer' = <<>> /\ cr_received' = FALSE /\ ~answering' /\ got' = got /\ given' = given
      /\ overrun' = overrun /\ displayed' = CString(buffer) /\ buffer = LineAt(got, n)
  BY LenProperties DEF BufferIsLine, Answered, IInv, TasksOK, vars, writers
<1>2. LineStart(got, n + 1) = n + 1
  <2>1. n + 1 \in 1..(Len(got) + 1) /\ (n + 1) - 1 \in Ends(got)
    BY <1>1
  <2> QED
    BY <1>1, <2>1, LineStartIs
<1>3. SubSeq(got, n + 1, n) = <<>>
  BY <1>1, SubSeqEmpty
<1>4. got[n] # CR
  BY <1>1, CharAssumption DEF Ends
<1>5. BufferIsLine'
  BY <1>1, <1>2, <1>3, <1>4 DEF BufferIsLine
<1>6. Shows(displayed', got')
  <2> SUFFICES ASSUME NEW i \in Ends(got), LineStart(got, n + 1) = i + 1
               PROVE  displayed' = CString(LineAt(got, i))
    BY <1>1 DEF Shows
  <2>1. i = n
    <3>1. i \in Nat
      BY <1>1 DEF Ends
    <3> QED
      BY <1>1, <1>2, <3>1
  <2> QED
    BY <1>1, <2>1
<1>7. /\ overrun' <=> TooLong(got')
      /\ ~overrun' => given'["receiver"] = Answers(got')
  BY <1>1 DEF AnswersEachLine
<1>8. AnswersEachLine'
  BY <1>6, <1>7, AnswersNext
<1> QED
  BY <1>5, <1>8

(* The other steps leave the receiver and its answers alone.               *)
LEMMA AnswersStutter ==
    ASSUME BufferIsLine, AnswersEachLine, UNCHANGED receiver,
           given'["receiver"] = given["receiver"]
    PROVE  (BufferIsLine /\ AnswersEachLine)'
<1>1. /\ buffer' = buffer /\ cr_received' = cr_received /\ got' = got
      /\ displayed' = displayed
  BY DEF receiver
<1>2. (answering' <=> answering) /\ (overrun' <=> overrun)
  BY DEF receiver
<1>3. BufferIsLine'
  BY <1>1, <1>2 DEF BufferIsLine, LineAt, LineStart, Ends
<1>4. /\ overrun' <=> TooLong(got')
      /\ ~overrun' => given'["receiver"] = Answers(got')
      /\ ~overrun' /\ ~answering' => Shows(displayed', got')
  BY <1>1, <1>2 DEF AnswersEachLine, Shows
<1> QED
  BY <1>3, <1>4, AnswersNext

(* A step of the tasks or the port keeps the answers right.                *)
LEMMA AnswersStep ==
    IInv /\ BufferIsLine /\ AnswersEachLine /\ [Next]_tasksVars
        => (BufferIsLine /\ AnswersEachLine)'
<1> SUFFICES ASSUME IInv, BufferIsLine, AnswersEachLine, [Next]_tasksVars
             PROVE  (BufferIsLine /\ AnswersEachLine)'
  OBVIOUS
<1>1. CASE ReceiveChar
  BY <1>1, ReceiveCharAnswers
<1>2. CASE Answered
  BY <1>2, AnsweredAnswers
<1>3. CASE Blink
  <2>1. UNCHANGED receiver /\ given' = [given EXCEPT !["blink"] = @ \o Tests[blinks + 1]]
    BY <1>3 DEF Blink, Puts
  <2>2. given \in [Writers -> Seq(Symbols)] /\ "receiver" \in Writers
    BY TextAssumption DEF IInv, TypeOK, TextsOK
  <2>3. given'["receiver"] = given["receiver"]
    BY <2>1, <2>2
  <2> QED
    BY <2>1, <2>3, AnswersStutter
<1>4. CASE Port
  <2>1. UNCHANGED receiver /\ given' = given
    BY <1>4 DEF Port, PutChar, UsbTask, Receive, QueueReceived, PollNothing, Fill, Write,
                Host, SetConfig, BusReset, HostWrites, HostReads, writers
  <2> QED
    BY <2>1, AnswersStutter
<1>5. CASE UNCHANGED tasksVars
  <2>1. UNCHANGED receiver /\ given' = given
    BY <1>5 DEF tasksVars, vars, writers
  <2> QED
    BY <2>1, AnswersStutter
<1> QED
  BY <1>1, <1>2, <1>3, <1>4, <1>5 DEF Next, Tasks

(* Nothing is read and nothing answered at the start.                      *)
LEMMA AnswersInit == TasksInit => BufferIsLine /\ AnswersEachLine
<1> SUFFICES ASSUME TasksInit PROVE BufferIsLine /\ AnswersEachLine
  OBVIOUS
<1> DEFINE e == got
<1>1. /\ buffer = <<>> /\ cr_received = FALSE /\ ~answering /\ e = <<>> /\ given["receiver"] = <<>>
  BY TextAssumption DEF TasksInit, Init
<1>2. e \in Seq(Symbols) /\ Len(e) = 0
  BY <1>1
<1>3. LineStart(e, 1) = 1 /\ 0 + 1 = 1
  BY <1>2 DEF LineStart, Ends
<1>4. SubSeq(e, 1, 0) = <<>>
  BY SubSeqEmpty
<1>5. BufferIsLine
  BY <1>1, <1>2, <1>3, <1>4 DEF BufferIsLine
<1>6. Answers(e) = <<>>
  <2> DEFINE q == AnswerPieces(e)
             R == Seq(Symbols)
  <2>1. q \in Seq(R) /\ Len(q) = 0
    BY <1>2, AnswerPiecesType
  <2>2. Answers(e) = FlattenSeq(q)
    BY DEF Answers, AnswerPieces
  <2> HIDE DEF q, R
  <2>3. q = <<>>
    BY <2>1, EmptySeq
  <2> QED
    BY <2>2, <2>3 DEF FlattenSeq
<1>7. ~TooLong(e) /\ Ends(e) = {}
  BY <1>2 DEF TooLong, Ends
<1>8. ~overrun
  BY DEF TasksInit
<1> HIDE DEF e
<1>9. got = e
  BY DEF e
<1> QED
  BY <1>1, <1>5, <1>6, <1>7, <1>8, <1>9 DEF AnswersEachLine

(* However packets cut what the host says, and however the writers, resets *)
(* and the port interleave, what the receiver was given to put are the     *)
(* answers to the lines completed in what it read, each whole and once,    *)
(* and the display shows the last of them: until a line is longer than the *)
(* buffer, which is exactly when the receiver writes behind its end.       *)
THEOREM LinesAreAnswered == Spec => []AnswersEachLine
<1>1. Spec => [](BufferIsLine /\ AnswersEachLine)
  BY AnswersInit, AnswersStep, InvHolds, PTL DEF Spec
<1> QED
  BY <1>1, PTL
=============================================================================
