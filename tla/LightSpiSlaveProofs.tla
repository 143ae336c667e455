------------------------- MODULE LightSpiSlaveProofs -------------------------
(***************************************************************************)
(* What holds of the SPI slave's receive ring for every buffer length, FIFO *)
(* depth, interrupt threshold, read size and number of bytes: no byte goes  *)
(* missing without a record (but on the F4), and ring and FIFO together are *)
(* the link LossyLink describes.                                            *)
(*                                                                         *)
(* Neither is inductive.  A reader copies from the ring while the interrupt *)
(* writes to it, and what it will hand over is only right because the slots *)
(* between its tail and its head are out of the interrupt's reach: RingInv  *)
(* says so, in terms of stretches of the ring, which the lemmas of the      *)
(* first part extend, split and leave alone.  A step is then classified by  *)
(* what it does to the bytes that wait (LinkStep), and both results follow  *)
(* from the class.                                                          *)
(***************************************************************************)
EXTENDS LightSpiSlave, SequenceTheorems, TLAPS

-----------------------------------------------------------------------------
(* The ring as an interval: places instead of remainders. *)

Fill(n, from, to) == IF from <= to THEN to - from ELSE to + n - from
At(n, from, i) == IF from + i <= n THEN from + i - 1 ELSE from + i - 1 - n
Advance(n, x) == IF x + 1 = n THEN 0 ELSE x + 1
Stretch(r, n, from, to) == [i \in 1 .. Fill(n, from, to) |-> r[At(n, from, i)]]

\* A remainder is found within two turns.
LEMMA RemainderIs ==
  ASSUME NEW d \in Nat \ {0}, NEW a \in Nat, a < 2 * d
  PROVE  a % d = IF a < d THEN a ELSE a - d
<1>1. a \div d \in Int /\ a % d \in 0 .. (d - 1) /\ a = d * (a \div d) + (a % d)
  OBVIOUS
<1>2. CASE a < d
  BY <1>1, <1>2
<1>3. CASE a >= d
  <2>1. a - d \in 0 .. (d - 1) /\ a = d * 1 + (a - d)
    BY <1>3
  <2> DEFINE q == a \div d  m == a % d  r == a - d
  <2>2. q \in Int /\ m \in 0 .. (d - 1) /\ r \in 0 .. (d - 1) /\ d * q + m = d * 1 + r
    BY <1>1, <2>1
  <2> HIDE DEF q, m, r
  <2>3. m = r
    BY <2>2, Z3
  <2> QED
    BY <1>3, <2>3 DEF m, r
<1> QED
  BY <1>2, <1>3

\* The step the code takes by masking.
LEMMA AdvanceIs ==
  ASSUME NEW n \in Nat \ {0, 1}, NEW x \in 0 .. (n - 1)
  PROVE  (x + 1) % n = Advance(n, x)
<1>1. x + 1 \in Nat /\ x + 1 <= n /\ x + 1 < 2 * n
  OBVIOUS
<1>2. (x + 1) % n = IF x + 1 < n THEN x + 1 ELSE (x + 1) - n
  BY <1>1, RemainderIs
<1> QED
  BY <1>2 DEF Advance

\* The model's form of it.
Turned(r, n, from, to) == [i \in 1 .. (to + n - from) % n |-> r[(from + i - 1) % n]]

\* The two forms agree.
LEMMA StretchIs ==
  ASSUME NEW n \in Nat \ {0}, NEW r, NEW from \in 0 .. (n - 1), NEW to \in 0 .. (n - 1)
  PROVE  Turned(r, n, from, to) = Stretch(r, n, from, to)
<1>1. to + n - from \in Nat /\ to + n - from < 2 * n
  OBVIOUS
<1>2. (to + n - from) % n = Fill(n, from, to)
  <2>1. (to + n - from) % n = IF to + n - from < n THEN to + n - from ELSE (to + n - from) - n
    BY <1>1, RemainderIs
  <2> QED
    BY <2>1 DEF Fill
<1>3. ASSUME NEW i \in 1 .. Fill(n, from, to)
      PROVE  (from + i - 1) % n = At(n, from, i)
  <2>1. i \in Nat /\ i >= 1 /\ i < n
    BY DEF Fill
  <2>2. from + i - 1 \in Nat /\ from + i - 1 < 2 * n
    BY <2>1
  <2>3. (from + i - 1) % n = IF from + i - 1 < n THEN from + i - 1 ELSE (from + i - 1) - n
    BY <2>2, RemainderIs
  <2> QED
    BY <2>1, <2>3 DEF At
<1> QED
  BY <1>2, <1>3 DEF Stretch, Turned

\* How many places lie between, and which.
LEMMA FillIs ==
  ASSUME NEW n \in Nat \ {0}, NEW from \in 0 .. (n - 1), NEW to \in 0 .. (n - 1)
  PROVE  /\ Fill(n, from, to) \in 0 .. (n - 1) /\ Fill(n, from, from) = 0
         /\ Advance(n, to) \in 0 .. (n - 1)
         /\ Advance(n, to) # from =>
              /\ Fill(n, from, Advance(n, to)) = Fill(n, from, to) + 1
              /\ At(n, from, Fill(n, from, to) + 1) = to
         /\ Advance(n, to) = from => Fill(n, from, to) = n - 1
         /\ \A i \in 1 .. Fill(n, from, to) :
              At(n, from, i) \in 0 .. (n - 1) /\ At(n, from, i) # to
  BY DEF Fill, Advance, At

\* The parts of it most used.
LEMMA FillBound ==
  ASSUME NEW n \in Nat \ {0}, NEW from \in 0 .. (n - 1), NEW to \in 0 .. (n - 1)
  PROVE  Fill(n, from, to) \in Nat
  BY DEF Fill

LEMMA FillNext ==
  ASSUME NEW n \in Nat \ {0}, NEW from \in 0 .. (n - 1), NEW to \in 0 .. (n - 1),
         Advance(n, to) # from
  PROVE  Fill(n, from, Advance(n, to)) = Fill(n, from, to) + 1
  BY DEF Fill, Advance

\* A place on the way splits the way in two.
LEMMA BetweenIs ==
  ASSUME NEW n \in Nat \ {0}, NEW from \in 0 .. (n - 1), NEW x \in 0 .. (n - 1),
         NEW to \in 0 .. (n - 1), Fill(n, from, x) <= Fill(n, from, to)
  PROVE  /\ Fill(n, x, to) = Fill(n, from, to) - Fill(n, from, x)
         /\ \A i \in 1 .. Fill(n, x, to) : At(n, x, i) = At(n, from, Fill(n, from, x) + i)
         /\ x # to => Fill(n, from, Advance(n, x)) = Fill(n, from, x) + 1
                      /\ Fill(n, from, x) + 1 <= Fill(n, from, to)
                      /\ At(n, from, Fill(n, from, x) + 1) = x
  BY DEF Fill, Advance, At

Byte == 1 .. MaxBytes

\* The places of a stretch hold bytes that came from the FIFO.
Written(r, n, from, to) == \A i \in 1 .. Fill(n, from, to) : r[At(n, from, i)] \in Byte

IsStretch(s, r, n, from, m) ==
  s \in Seq(Byte) /\ Len(s) = m /\ \A i \in 1 .. m : s[i] = r[At(n, from, i)]

\* A stretch of written places is a sequence of bytes.
LEMMA StretchTyped ==
  ASSUME NEW n \in Nat \ {0}, NEW r, NEW from \in 0 .. (n - 1), NEW to \in 0 .. (n - 1),
         Written(r, n, from, to)
  PROVE  IsStretch(Stretch(r, n, from, to), r, n, from, Fill(n, from, to))
<1>1. Fill(n, from, to) \in Nat
  BY FillIs
<1>2. Stretch(r, n, from, to) \in [1 .. Fill(n, from, to) -> Byte]
  BY DEF Stretch, Written
<1>3. Stretch(r, n, from, to) \in Seq(Byte)
  BY <1>1, <1>2, SeqDef
<1> QED
  BY <1>1, <1>2, <1>3, LenProperties DEF Stretch, IsStretch

\* Nowhere to go, nothing there.
LEMMA StretchEmpty ==
  ASSUME NEW n \in Nat \ {0}, NEW r, NEW x \in 0 .. (n - 1)
  PROVE  Stretch(r, n, x, x) = << >> /\ Written(r, n, x, x)
<1>1. Fill(n, x, x) = 0
  BY FillIs
<1>2. Written(r, n, x, x)
  BY <1>1 DEF Written
<1>3. Stretch(r, n, x, x) \in Seq(Byte) /\ Len(Stretch(r, n, x, x)) = 0
  <2>1. IsStretch(Stretch(r, n, x, x), r, n, x, Fill(n, x, x))
    BY <1>2, StretchTyped
  <2> QED
    BY <1>1, <2>1 DEF IsStretch
<1> QED
  BY <1>2, <1>3, EmptySeq

\* One place of the ring rewritten, the others as they were.
PutAt(q, r, n, to, b) == q[to] = b /\ \A i \in 0 .. (n - 1) : i # to => q[i] = r[i]

Grown(q, r, n, from, to, b) ==
  /\ Written(q, n, from, Advance(n, to))
  /\ Stretch(q, n, from, Advance(n, to)) = Append(Stretch(r, n, from, to), b)

\* A byte put in the place the stretch ends at makes it longer by that byte.
LEMMA StretchGrows ==
  ASSUME NEW n \in Nat \ {0}, NEW r, NEW q, NEW b \in Byte,
         NEW from \in 0 .. (n - 1), NEW to \in 0 .. (n - 1), PutAt(q, r, n, to, b),
         Written(r, n, from, to), Advance(n, to) # from
  PROVE  Grown(q, r, n, from, to, b)
<1> DEFINE next == Advance(n, to)
           m == Fill(n, from, to)
           s == Stretch(r, n, from, to)
           u == Stretch(q, n, from, next)
<1>1. /\ next \in 0 .. (n - 1) /\ m \in Nat /\ Fill(n, from, next) = m + 1
      /\ At(n, from, m + 1) = to
      /\ \A i \in 1 .. m : At(n, from, i) \in 0 .. (n - 1) /\ At(n, from, i) # to
  BY FillIs
<1>2. q[to] = b /\ \A i \in 1 .. m : q[At(n, from, i)] = r[At(n, from, i)]
  BY <1>1 DEF PutAt
<1> HIDE DEF next
<1>3. Written(q, n, from, next)
  BY <1>1, <1>2 DEF Written
<1>4. IsStretch(s, r, n, from, m)
  BY StretchTyped
<1>5. IsStretch(u, q, n, from, m + 1)
  <2>1. IsStretch(u, q, n, from, Fill(n, from, next))
    BY <1>1, <1>3, StretchTyped
  <2> QED
    BY <1>1, <2>1
<1> HIDE DEF s, u, m
<1> USE DEF IsStretch
<1>6. /\ Append(s, b) \in Seq(Byte) /\ Len(Append(s, b)) = m + 1
      /\ \A i \in 1 .. m : Append(s, b)[i] = s[i]
      /\ Append(s, b)[m + 1] = b
  BY <1>4, AppendProperties
<1>7. ASSUME NEW i \in 1 .. (m + 1)
      PROVE  u[i] = Append(s, b)[i]
  <2>1. u[i] = q[At(n, from, i)]
    BY <1>5
  <2>2. CASE i = m + 1
    BY <1>1, <1>2, <1>6, <2>1, <2>2
  <2>3. CASE i \in 1 .. m
    BY <1>2, <1>4, <1>6, <2>1, <2>3
  <2>4. m \in Nat
    BY <1>1
  <2>5. i = m + 1 \/ i \in 1 .. m
    BY <2>4
  <2> QED
    BY <2>2, <2>3, <2>5
<1>8. u = Append(s, b)
  BY <1>5, <1>6, <1>7, SeqEqual
<1> QED
  BY <1>3, <1>8 DEF next, s, u, Grown

\* A stretch inside another does not see a byte put in the place the other ends at.
LEMMA StretchUntouched ==
  ASSUME NEW n \in Nat \ {0}, NEW r, NEW q, NEW b,
         NEW from \in 0 .. (n - 1), NEW x \in 0 .. (n - 1), NEW to \in 0 .. (n - 1),
         PutAt(q, r, n, to, b), Fill(n, from, x) <= Fill(n, from, to)
  PROVE  Stretch(q, n, from, x) = Stretch(r, n, from, x)
<1>1. \A i \in 1 .. Fill(n, from, x) : At(n, from, i) \in 0 .. (n - 1) /\ At(n, from, i) # to
  <2>1. Fill(n, from, x) \in Nat /\ Fill(n, from, to) \in Nat
    BY FillBound
  <2> QED
    BY <2>1, FillIs
<1>2. \A i \in 1 .. Fill(n, from, x) : q[At(n, from, i)] = r[At(n, from, i)]
  BY <1>1 DEF PutAt
<1> QED
  BY <1>2 DEF Stretch

Split(r, n, from, x, to) ==
  /\ Written(r, n, from, x) /\ Written(r, n, x, to)
  /\ Stretch(r, n, from, to) = Stretch(r, n, from, x) \o Stretch(r, n, x, to)

\* A stretch read up to x is what has been read and the stretch from x on.
LEMMA StretchSplits ==
  ASSUME NEW n \in Nat \ {0}, NEW r, NEW from \in 0 .. (n - 1), NEW x \in 0 .. (n - 1),
         NEW to \in 0 .. (n - 1), Fill(n, from, x) <= Fill(n, from, to), Written(r, n, from, to)
  PROVE  Split(r, n, from, x, to)
<1> DEFINE k == Fill(n, from, x)
           m == Fill(n, from, to)
           s == Stretch(r, n, from, x)
           u == Stretch(r, n, x, to)
           w == Stretch(r, n, from, to)
<1>1. k \in Nat /\ m \in Nat /\ k <= m /\ Fill(n, x, to) = m - k
  BY FillIs, BetweenIs
<1>2. \A i \in 1 .. (m - k) : At(n, x, i) = At(n, from, k + i)
  BY <1>1, BetweenIs
<1>3. Written(r, n, from, x)
  BY <1>1 DEF Written
<1>4. Written(r, n, x, to)
  BY <1>1, <1>2 DEF Written
<1>5. IsStretch(s, r, n, from, k) /\ IsStretch(u, r, n, x, m - k) /\ IsStretch(w, r, n, from, m)
  <2>1. IsStretch(s, r, n, from, k) /\ IsStretch(w, r, n, from, m)
    BY <1>3, StretchTyped
  <2>2. IsStretch(u, r, n, x, Fill(n, x, to))
    BY <1>4, StretchTyped
  <2> QED
    BY <1>1, <2>1, <2>2
<1> HIDE DEF s, u, w, k, m
<1> USE DEF IsStretch
<1>6. /\ s \o u \in Seq(Byte) /\ Len(s \o u) = m
      /\ \A i \in 1 .. m : (s \o u)[i] = IF i <= k THEN s[i] ELSE u[i - k]
  <2>1. /\ s \o u \in Seq(Byte) /\ Len(s \o u) = Len(s) + Len(u)
        /\ \A i \in 1 .. Len(s) + Len(u) :
             (s \o u)[i] = IF i <= Len(s) THEN s[i] ELSE u[i - Len(s)]
    BY <1>5, ConcatProperties
  <2>2. Len(s) = k /\ Len(s) + Len(u) = m
    BY <1>1, <1>5
  <2> QED
    BY <2>1, <2>2
<1>7. ASSUME NEW i \in 1 .. m
      PROVE  w[i] = (s \o u)[i]
  <2>1. CASE i <= k
    BY <1>1, <1>5, <1>6, <2>1
  <2>2. CASE i > k
    <3>1. i - k \in 1 .. (m - k) /\ k + (i - k) = i
      BY <1>1, <2>2
    <3>2. (s \o u)[i] = u[i - k]
      BY <1>1, <1>6, <2>2
    <3>3. u[i - k] = r[At(n, x, i - k)] /\ At(n, x, i - k) = At(n, from, k + (i - k))
      BY <1>2, <1>5, <3>1
    <3>4. w[i] = r[At(n, from, i)]
      BY <1>5
    <3> QED
      BY <3>1, <3>2, <3>3, <3>4
  <2>3. i \in Int
    OBVIOUS
  <2>4. i <= k \/ i > k
    BY <1>1, <2>3
  <2> QED
    BY <2>1, <2>2, <2>4
<1>8. w = s \o u
  BY <1>5, <1>6, <1>7, SeqEqual
<1> QED
  BY <1>3, <1>4, <1>8 DEF s, u, w, Split

\* A stretch one place longer holds one byte more.
LEMMA StretchCopied ==
  ASSUME NEW n \in Nat \ {0}, NEW r, NEW from \in 0 .. (n - 1), NEW x \in 0 .. (n - 1),
         NEW to \in 0 .. (n - 1), Fill(n, from, x) <= Fill(n, from, to), x # to,
         Written(r, n, from, to)
  PROVE  /\ Advance(n, x) \in 0 .. (n - 1) /\ r[x] \in Byte
         /\ Fill(n, from, Advance(n, x)) <= Fill(n, from, to)
         /\ Stretch(r, n, from, Advance(n, x)) = Append(Stretch(r, n, from, x), r[x])
<1> DEFINE k == Fill(n, from, x)
           s == Stretch(r, n, from, x)
           u == Stretch(r, n, from, Advance(n, x))
<1>1. /\ k \in Nat /\ Fill(n, from, to) \in Nat /\ Advance(n, x) \in 0 .. (n - 1)
      /\ Fill(n, from, Advance(n, x)) = k + 1 /\ k + 1 <= Fill(n, from, to)
      /\ At(n, from, k + 1) = x
  BY FillIs, BetweenIs
<1>2. r[x] \in Byte
  BY <1>1 DEF Written
<1>3. Written(r, n, from, x) /\ Written(r, n, from, Advance(n, x))
  BY <1>1 DEF Written
<1>4. IsStretch(s, r, n, from, k) /\ IsStretch(u, r, n, from, k + 1)
  <2>1. IsStretch(s, r, n, from, k)
    BY <1>3, StretchTyped
  <2>2. IsStretch(u, r, n, from, Fill(n, from, Advance(n, x)))
    BY <1>1, <1>3, StretchTyped
  <2> QED
    BY <1>1, <2>1, <2>2
<1> HIDE DEF s, u, k
<1> USE DEF IsStretch
<1>5. /\ Append(s, r[x]) \in Seq(Byte) /\ Len(Append(s, r[x])) = k + 1
      /\ \A i \in 1 .. k : Append(s, r[x])[i] = s[i]
      /\ Append(s, r[x])[k + 1] = r[x]
  BY <1>2, <1>4, AppendProperties
<1>6. u = Append(s, r[x])
  BY <1>1, <1>4, <1>5, SeqEqual
<1> QED
  BY <1>1, <1>2, <1>6 DEF s, u, k

-----------------------------------------------------------------------------
(* Sequences of bytes. *)

\* A byte moved from the front of one sequence to the end of another before it.
LEMMA Moved ==
  ASSUME NEW s \in Seq(Byte), NEW f \in Seq(Byte), f # << >>
  PROVE  Append(s, Head(f)) \o Tail(f) = s \o f
<1> DEFINE a == Append(s, Head(f))
           u == a \o Tail(f)
           w == s \o f
<1>1. /\ Head(f) \in Byte /\ Head(f) = f[1] /\ Tail(f) \in Seq(Byte)
      /\ Len(f) \in Nat /\ Len(f) >= 1 /\ Len(s) \in Nat /\ Len(Tail(f)) = Len(f) - 1
      /\ \A i \in 1 .. (Len(f) - 1) : Tail(f)[i] = f[i + 1]
  BY HeadTailProperties, LenProperties, EmptySeq
<1>2. /\ a \in Seq(Byte) /\ Len(a) = Len(s) + 1 /\ a[Len(s) + 1] = f[1]
      /\ \A i \in 1 .. Len(s) : a[i] = s[i]
  BY <1>1, AppendProperties
<1> HIDE DEF a
<1>3. /\ u \in Seq(Byte) /\ Len(u) = Len(s) + Len(f)
      /\ \A i \in 1 .. (Len(s) + Len(f)) :
           u[i] = IF i <= Len(s) + 1 THEN a[i] ELSE Tail(f)[i - (Len(s) + 1)]
  <2>1. /\ u \in Seq(Byte) /\ Len(u) = Len(a) + Len(Tail(f))
        /\ \A i \in 1 .. Len(a) + Len(Tail(f)) :
             u[i] = IF i <= Len(a) THEN a[i] ELSE Tail(f)[i - Len(a)]
    BY <1>1, <1>2, ConcatProperties
  <2>2. Len(a) = Len(s) + 1 /\ Len(a) + Len(Tail(f)) = Len(s) + Len(f)
    BY <1>1, <1>2
  <2> QED
    BY <2>1, <2>2
<1>4. /\ w \in Seq(Byte) /\ Len(w) = Len(s) + Len(f)
      /\ \A i \in 1 .. (Len(s) + Len(f)) : w[i] = IF i <= Len(s) THEN s[i] ELSE f[i - Len(s)]
  BY <1>1, ConcatProperties
<1> HIDE DEF u, w
<1>5. ASSUME NEW i \in 1 .. (Len(s) + Len(f))
      PROVE  u[i] = w[i]
  <2>1. CASE i <= Len(s)
    BY <1>1, <1>2, <1>3, <1>4, <2>1
  <2>2. CASE i = Len(s) + 1
    <3>1. u[i] = a[Len(s) + 1]
      BY <1>1, <1>3, <2>2
    <3>2. w[i] = f[i - Len(s)] /\ i - Len(s) = 1
      BY <1>1, <1>4, <2>2
    <3> QED
      BY <1>2, <3>1, <3>2
  <2>3. CASE i > Len(s) + 1
    <3> DEFINE j == i - (Len(s) + 1)
    <3>1. j \in 1 .. (Len(f) - 1) /\ j + 1 = i - Len(s)
      BY <1>1, <2>3
    <3>2. u[i] = Tail(f)[j]
      BY <1>1, <1>3, <2>3
    <3>3. w[i] = f[i - Len(s)]
      BY <1>1, <1>4, <2>3
    <3> HIDE DEF j
    <3>4. Tail(f)[j] = f[j + 1]
      BY <1>1, <3>1
    <3> QED
      BY <3>1, <3>2, <3>3, <3>4
  <2> QED
    BY <1>1, <2>1, <2>2, <2>3
<1>6. u = w
  BY <1>3, <1>4, <1>5, SeqEqual
<1> QED
  BY <1>6 DEF u, w, a

\* A byte appended to the second of two sequences is appended to both.
LEMMA Appended ==
  ASSUME NEW s \in Seq(Byte), NEW f \in Seq(Byte), NEW b \in Byte
  PROVE  s \o Append(f, b) = Append(s \o f, b)
<1>1. <<b>> \in Seq(Byte) /\ s \o f \in Seq(Byte)
  BY ConcatProperties
<1>2. Append(f, b) = f \o <<b>> /\ Append(s \o f, b) = (s \o f) \o <<b>>
  BY <1>1, AppendIsConcat
<1> QED
  BY <1>1, <1>2, ConcatAssociative

\* The first byte of the second of two sequences taken away.
LEMMA Dropped ==
  ASSUME NEW s \in Seq(Byte), NEW f \in Seq(Byte), f # << >>
  PROVE  /\ Len(s) + 1 \in DOMAIN (s \o f)
         /\ RemoveAt(s \o f, Len(s) + 1) = s \o Tail(f)
<1> DEFINE w == s \o f
           k == Len(s)
           n == Len(f)
<1>1. /\ Tail(f) \in Seq(Byte) /\ n \in Nat /\ n >= 1 /\ k \in Nat /\ Len(Tail(f)) = n - 1
      /\ \A i \in 1 .. (n - 1) : Tail(f)[i] = f[i + 1]
  BY HeadTailProperties, LenProperties, EmptySeq
<1>2. /\ w \in Seq(Byte) /\ Len(w) = k + n
      /\ \A i \in 1 .. (k + n) : w[i] = IF i <= k THEN s[i] ELSE f[i - k]
  BY ConcatProperties
<1>3. DOMAIN w = 1 .. (k + n)
  BY <1>2, LenProperties
<1> HIDE DEF w
<1>4. SubSeq(w, 1, k) = s
  <2>1. /\ SubSeq(w, 1, k) \in Seq(Byte) /\ Len(SubSeq(w, 1, k)) = k
        /\ \A i \in 1 .. k : SubSeq(w, 1, k)[i] = w[i]
    <3>1. \A i \in 1 .. k : w[i] \in Byte
      BY <1>1, <1>2, ElementOfSeq
    <3>2. /\ SubSeq(w, 1, k) \in Seq(Byte)
          /\ Len(SubSeq(w, 1, k)) = IF 1 <= k THEN k - 1 + 1 ELSE 0
          /\ \A i \in 1 .. k - 1 + 1 : SubSeq(w, 1, k)[i] = w[1 + i - 1]
      BY <1>1, <3>1, SubSeqProperties
    <3> QED
      BY <1>1, <3>2
  <2>2. \A i \in 1 .. k : SubSeq(w, 1, k)[i] = s[i]
    BY <1>1, <1>2, <2>1
  <2> QED
    BY <2>1, <2>2, SeqEqual
<1>5. SubSeq(w, k + 2, k + n) = Tail(f)
  <2>1. /\ SubSeq(w, k + 2, k + n) \in Seq(Byte) /\ Len(SubSeq(w, k + 2, k + n)) = n - 1
        /\ \A i \in 1 .. (n - 1) : SubSeq(w, k + 2, k + n)[i] = w[k + 1 + i]
    <3>1. \A i \in (k + 2) .. (k + n) : w[i] \in Byte
      BY <1>1, <1>2, ElementOfSeq
    <3>2. /\ SubSeq(w, k + 2, k + n) \in Seq(Byte)
          /\ Len(SubSeq(w, k + 2, k + n)) = IF k + 2 <= k + n THEN (k + n) - (k + 2) + 1 ELSE 0
          /\ \A i \in 1 .. (k + n) - (k + 2) + 1 :
               SubSeq(w, k + 2, k + n)[i] = w[(k + 2) + i - 1]
      BY <1>1, <3>1, SubSeqProperties
    <3> QED
      BY <1>1, <3>2
  <2>2. ASSUME NEW i \in 1 .. (n - 1)
        PROVE  SubSeq(w, k + 2, k + n)[i] = Tail(f)[i]
    <3>1. k + 1 + i \in 1 .. (k + n) /\ k + 1 + i > k /\ (k + 1 + i) - k = i + 1
      BY <1>1
    <3> QED
      BY <1>1, <1>2, <2>1, <3>1
  <2> QED
    BY <1>1, <2>1, <2>2, SeqEqual
<1>6. RemoveAt(w, k + 1) = SubSeq(w, 1, k) \o SubSeq(w, k + 2, k + n)
  <2>1. (k + 1) - 1 = k /\ (k + 1) + 1 = k + 2
    BY <1>1
  <2>2. RemoveAt(w, k + 1) = SubSeq(w, 1, (k + 1) - 1) \o SubSeq(w, (k + 1) + 1, Len(w))
    BY DEF RemoveAt
  <2> QED
    BY <1>2, <2>1, <2>2
<1>7. k + 1 \in 1 .. (k + n)
  BY <1>1
<1> QED
  BY <1>3, <1>4, <1>5, <1>6, <1>7 DEF w

\* Two sequences taken apart again.
LEMMA Parted ==
  ASSUME NEW s \in Seq(Byte), NEW f \in Seq(Byte), s # << >>
  PROVE  /\ Len(s) \in DOMAIN (s \o f)
         /\ SubSeq(s \o f, 1, Len(s)) = s
         /\ SubSeq(s \o f, Len(s) + 1, Len(s \o f)) = f
<1>1. /\ Len(s) \in Nat /\ Len(s) >= 1 /\ Len(f) \in Nat
      /\ s \o f \in Seq(Byte) /\ Len(s \o f) = Len(s) + Len(f)
  BY EmptySeq, LenProperties, ConcatProperties
<1>2. Len(s) \in DOMAIN (s \o f)
  BY <1>1, LenProperties
<1>3. SubSeq(s \o f, 1, Len(s)) = SubSeq(s, 1, Len(s))
  BY <1>1, SubSeqOfConcat1
<1>4. SubSeq(s \o f, Len(s) + 1, Len(s) + Len(f)) = f
  <2>1. CASE f = << >>
    <3>1. Len(f) = 0
      BY <2>1, EmptySeq
    <3>2. SubSeq(s \o f, Len(s) + 1, Len(s) + Len(f)) = << >>
      BY <1>1, <3>1, SubSeqEmpty
    <3> QED
      BY <2>1, <3>2
  <2>2. CASE f # << >>
    <3>1. Len(f) >= 1
      BY <2>2, EmptySeq
    <3>2. SubSeq(s \o f, Len(s) + 1, Len(s) + Len(f)) =
          SubSeq(f, (Len(s) + 1) - Len(s), (Len(s) + Len(f)) - Len(s))
      BY <1>1, <3>1, SubSeqOfConcat2
    <3>3. (Len(s) + 1) - Len(s) = 1 /\ (Len(s) + Len(f)) - Len(s) = Len(f)
      BY <1>1
    <3> QED
      BY <3>2, <3>3, SubSeqFull
  <2> QED
    BY <2>1, <2>2
<1> QED
  BY <1>1, <1>2, <1>3, <1>4, SubSeqFull

-----------------------------------------------------------------------------
(* The invariant. *)

USE LinkAssumption

ReportRow == [at : {"report", "sample"}, room : Nat]
PollRow == [at : {"poll"}, room : Nat, out : Seq(Byte)]
CopyRow == [at : {"copy"}, room : Nat, out : Seq(Byte), head : Nat, tail : Nat]

SlaveTypes ==
  /\ port \in Ports /\ sent \in 0 .. MaxBytes
  /\ rxFifo \in Seq(Byte) /\ Len(rxFifo) <= Depth[port]
  /\ overrun \in BOOLEAN /\ irqOn \in BOOLEAN /\ overflow \in BOOLEAN
  /\ isr \in {"idle", "test", "clear", "drain"}
  /\ mode \in {"closed", "dead", "fifo", "starting", "enabling", "ring"}
  /\ size \in {0} \cup {len \in BufferSizes : len >= 2 /\ PowerOfTwo(len)}
  /\ ring \in [Slots -> 0 .. MaxBytes]
  /\ head \in Nat /\ tail \in Nat
  /\ reader \in {NoRead} \cup ReportRow \cup PollRow \cup CopyRow
  /\ delivered \in Seq(Byte)
  /\ base \in Nat

\* A ring comes with the last steps of its setup, interrupt and reader with the ring.
StageInv ==
  /\ size = 0 => head = 0 /\ tail = 0
  /\ size # 0 => head < size /\ tail < size
  /\ mode \in {"closed", "dead", "fifo"} => size = 0
  /\ mode \in {"starting", "enabling"} => size # 0 /\ head = 0 /\ tail = 0 /\ reader = NoRead
  /\ mode = "ring" => size # 0
  /\ irqOn => mode = "ring"
  /\ isr # "idle" => mode = "ring"
  /\ reader.at \in {"report", "sample", "copy"} => mode = "ring"
  /\ reader.at = "poll" => mode = "fifo"

\* What the handler has recorded by the time it clears; the F4's status goes with a byte.
HandlerInv ==
  /\ isr = "clear" => overflow = TRUE /\ overrun = TRUE
  /\ port = "f4" /\ overrun = TRUE => Len(rxFifo) = Depth[port]

\* The ring's waiting part holds bytes, and a reader has copied the first of them.
RingInv ==
  /\ mode = "ring" => Written(ring, size, tail, head)
  /\ reader.at = "copy" =>
       /\ reader.head < size /\ reader.tail < size
       /\ Fill(size, tail, reader.tail) <= Fill(size, tail, reader.head)
       /\ Fill(size, tail, reader.head) <= Fill(size, tail, head)
       /\ reader.out = Stretch(ring, size, tail, reader.tail)

CoreInv == SlaveTypes /\ StageInv /\ HandlerInv /\ RingInv

\* Where the reader is says what it carries.
LEMMA ReaderIs ==
  ASSUME SlaveTypes
  PROVE  /\ reader.at \in {"idle", "report", "sample", "poll", "copy"}
         /\ reader.at = "idle" <=> reader = NoRead
         /\ reader.at \in {"report", "sample"} => reader \in ReportRow
         /\ reader.at = "poll" => reader \in PollRow
         /\ reader.at = "copy" => reader \in CopyRow
<1>1. NoRead.at = "idle"
  BY DEF NoRead
<1> QED
  BY <1>1 DEF SlaveTypes, ReportRow, PollRow, CopyRow

\* A ring has its places.
LEMMA SizeIs ==
  ASSUME SlaveTypes
  PROVE  /\ size \in Nat /\ size # 1 /\ size \in Lengths
         /\ 0 .. size \subseteq Slots /\ Slots \subseteq Nat
  BY DEF SlaveTypes, Slots, Lengths

\* A byte taken leaves a shorter FIFO.
LEMMA TakeByteIs ==
  ASSUME SlaveTypes, rxFifo # << >>, TakeByte
  PROVE  /\ Head(rxFifo) \in Byte /\ rxFifo' \in Seq(Byte) /\ Len(rxFifo') = Len(rxFifo) - 1
         /\ Len(rxFifo') <= Depth[port] /\ overrun' \in BOOLEAN
         /\ port = "f4" => overrun' = FALSE
<1>1. /\ Head(rxFifo) \in Byte /\ Tail(rxFifo) \in Seq(Byte) /\ Len(Tail(rxFifo)) = Len(rxFifo) - 1
      /\ Len(rxFifo) \in Nat /\ Depth[port] \in Nat /\ Len(rxFifo) <= Depth[port]
  BY HeadTailProperties, LenProperties DEF SlaveTypes
<1>2. rxFifo' = Tail(rxFifo) /\ overrun' \in BOOLEAN /\ (port = "f4" => overrun' = FALSE)
  BY DEF TakeByte, SlaveTypes
<1> QED
  BY <1>1, <1>2

\* The invariant, one action at a time.
LEMMA ByteArrivesCore ==
  ASSUME CoreInv, ByteArrives
  PROVE  CoreInv'
<1> USE DEF CoreInv
<1>1. /\ sent + 1 \in Byte /\ sent + 1 \in 0 .. MaxBytes /\ sent' = sent + 1
      /\ Len(rxFifo) \in Nat /\ Depth[port] \in Nat
      /\ Append(rxFifo, sent + 1) \in Seq(Byte) /\ Len(Append(rxFifo, sent + 1)) = Len(rxFifo) + 1
  <2>1. sent + 1 \in Byte /\ sent + 1 \in 0 .. MaxBytes /\ sent' = sent + 1
    BY DEF ByteArrives, SlaveTypes, Byte
  <2> QED
    BY <2>1, AppendProperties, LenProperties DEF SlaveTypes
<1>2. /\ rxFifo' \in Seq(Byte) /\ Len(rxFifo') <= Depth[port] /\ overrun' \in BOOLEAN
      /\ overrun = TRUE => overrun' = TRUE
      /\ overrun' = TRUE => Len(rxFifo) >= Depth[port] \/ overrun = TRUE
      /\ Len(rxFifo) >= Depth[port] => rxFifo' = rxFifo
  <2>1. CASE Len(rxFifo) < Depth[port]
    <3>1. rxFifo' = Append(rxFifo, sent + 1) /\ overrun' = overrun
      BY <2>1 DEF ByteArrives
    <3> QED
      BY <1>1, <2>1, <3>1 DEF SlaveTypes
  <2>2. CASE ~(Len(rxFifo) < Depth[port])
    <3>1. rxFifo' = rxFifo /\ overrun' = TRUE
      BY <2>2 DEF ByteArrives
    <3> QED
      BY <1>1, <2>2, <3>1 DEF SlaveTypes
  <2> QED
    BY <2>1, <2>2
<1>3. SlaveTypes' /\ StageInv' /\ RingInv'
  BY <1>1, <1>2 DEF ByteArrives, SlaveTypes, StageInv, RingInv, ctx, ghosts
<1>4. HandlerInv'
  BY <1>1, <1>2 DEF ByteArrives, SlaveTypes, HandlerInv, ctx
<1> QED
  BY <1>3, <1>4

LEMMA SetupSlaveCore ==
  ASSUME CoreInv, SetupSlave
  PROVE  CoreInv'
  BY ReaderIs DEF CoreInv, SetupSlave, PortInit, SlaveTypes, StageInv, HandlerInv, RingInv, hw, ghosts

LEMMA SetRxBufferCore ==
  ASSUME CoreInv, NEW len \in BufferSizes, SetRxBuffer(len)
  PROVE  CoreInv'
<1> USE DEF CoreInv
<1>1. CASE UNCHANGED <<mode, size>> /\ mode \in {"fifo", "dead"} /\ head' = 0 /\ tail' = 0 /\ overflow' = FALSE
  BY <1>1, ReaderIs DEF SetRxBuffer, SlaveTypes, StageInv, HandlerInv, RingInv, hw, ghosts
<1>2. CASE /\ len >= 2 /\ PowerOfTwo(len) /\ mode = "fifo" /\ mode' = "starting" /\ size' = len
           /\ head' = 0 /\ tail' = 0 /\ overflow' = FALSE
  <2>1. /\ reader = NoRead /\ UNCHANGED <<port, sent, hw, isr, ring, reader, ghosts>>
        /\ len \in Nat
    BY DEF SetRxBuffer
  <2>2. NoRead.at = "idle"
    BY DEF NoRead
  <2>3. SlaveTypes'
    BY <1>2, <2>1 DEF SlaveTypes, hw, ghosts
  <2>4. isr = "idle" /\ irqOn = FALSE
    BY <1>2 DEF StageInv, SlaveTypes
  <2>5. StageInv'
    BY <1>2, <2>1, <2>2, <2>4 DEF StageInv, hw
  <2>6. HandlerInv' /\ RingInv'
    BY <1>2, <2>1, <2>2, <2>4 DEF HandlerInv, RingInv, hw
  <2> QED
    BY <2>3, <2>5, <2>6
<1> QED
  BY <1>1, <1>2 DEF SetRxBuffer

LEMMA StartRxCore ==
  ASSUME CoreInv, StartRx
  PROVE  CoreInv'
<1> USE DEF CoreInv
<1>1. CASE StartRxDiscard
  <2>1. /\ rxFifo' \in Seq(Byte) /\ Len(rxFifo') <= Depth[port] /\ overrun' \in BOOLEAN
        /\ port = "f4" => overrun' = FALSE
    BY <1>1, TakeByteIs DEF StartRxDiscard
  <2> QED
    BY <1>1, <2>1, ReaderIs
       DEF StartRxDiscard, SlaveTypes, StageInv, HandlerInv, RingInv, ctx, ghosts
<1>2. CASE StartRxDrained
  BY <1>2, ReaderIs
     DEF StartRxDrained, SlaveTypes, StageInv, HandlerInv, RingInv, hw, ghosts
<1>3. CASE StartRxEnable
  <2>1. /\ overrun' \in BOOLEAN /\ (overrun' = TRUE => overrun = TRUE) /\ irqOn' \in BOOLEAN
    BY <1>3 DEF StartRxEnable, SlaveTypes
  <2>2. size \in Nat \ {0} /\ head = 0 /\ tail = 0 /\ reader = NoRead
    BY <1>3, SizeIs DEF StartRxEnable, StageInv
  <2>3. Written(ring, size, tail, head)
    BY <2>2, StretchEmpty
  <2> QED
    BY <1>3, <2>1, <2>2, <2>3, ReaderIs
       DEF StartRxEnable, SlaveTypes, StageInv, HandlerInv, RingInv
<1> QED
  BY <1>1, <1>2, <1>3 DEF StartRx

LEMMA IsrCore ==
  ASSUME CoreInv, IsrEnter \/ IsrTestOverrun \/ IsrClearOverrun \/ IsrReturn
  PROVE  CoreInv'
<1> USE DEF CoreInv
<1>1. CASE IsrEnter
  BY <1>1 DEF IsrEnter, SlaveTypes, StageInv, HandlerInv, RingInv, hw, ctx, ghosts
<1>2. CASE IsrTestOverrun
  <2>1. overflow' \in BOOLEAN /\ (isr' = "clear" => overflow' = TRUE /\ overrun = TRUE)
    BY <1>2 DEF IsrTestOverrun, SlaveTypes
  <2>2. mode = "ring" /\ isr' \in {"clear", "drain"}
    BY <1>2 DEF IsrTestOverrun, StageInv
  <2> QED
    BY <1>2, <2>1, <2>2
       DEF IsrTestOverrun, SlaveTypes, StageInv, HandlerInv, RingInv, hw, ghosts
<1>3. CASE IsrClearOverrun
  <2>1. rxFifo' \in Seq(Byte) /\ Len(rxFifo') <= Depth[port]
    <3>1. CASE port = "f4"
      <4>1. Len(rxFifo) = Depth[port] /\ Depth[port] \in Nat \ {0} /\ rxFifo # << >>
        BY <1>3, <3>1, EmptySeq DEF IsrClearOverrun, HandlerInv, SlaveTypes
      <4> QED
        BY <1>3, <3>1, <4>1, HeadTailProperties DEF IsrClearOverrun, SlaveTypes
    <3>2. CASE port # "f4"
      BY <1>3, <3>2 DEF IsrClearOverrun, SlaveTypes
    <3> QED
      BY <3>1, <3>2
  <2> QED
    BY <1>3, <2>1 DEF IsrClearOverrun, SlaveTypes, StageInv, HandlerInv, RingInv, ctx, ghosts
<1>4. CASE IsrReturn
  BY <1>4 DEF IsrReturn, SlaveTypes, StageInv, HandlerInv, RingInv, hw, ctx, ghosts
<1> QED
  BY <1>1, <1>2, <1>3, <1>4

\* One byte from the FIFO into the ring, or nowhere.
LEMMA IsrDrainCore ==
  ASSUME CoreInv, IsrDrain
  PROVE  /\ CoreInv'
         /\ \/ /\ ring' = ring /\ head' = head /\ overflow' = TRUE
              /\ Fill(size, tail, head) = size - 1
           \/ /\ Stretch(ring', size, tail, head') = Append(Stretch(ring, size, tail, head), Head(rxFifo))
              /\ overflow' = overflow
<1> USE DEF CoreInv
<1>1. /\ isr = "drain" /\ mode = "ring" /\ rxFifo # << >> /\ TakeByte
      /\ UNCHANGED <<port, sent, irqOn, isr, mode, size, tail, reader, ghosts>>
  BY DEF IsrDrain, StageInv
<1>2. /\ size \in Nat \ {0, 1} /\ size \in Nat \ {0} /\ head \in 0 .. (size - 1) /\ tail \in 0 .. (size - 1)
      /\ 0 .. (size - 1) \subseteq Slots /\ head \in Slots
      /\ Written(ring, size, tail, head) /\ ring \in [Slots -> 0 .. MaxBytes]
  BY <1>1, SizeIs DEF SlaveTypes, StageInv, RingInv
<1>3. (head + 1) % size = Advance(size, head) /\ Advance(size, head) \in 0 .. (size - 1)
  BY <1>2, AdvanceIs, FillIs
<1>4. /\ Head(rxFifo) \in Byte /\ rxFifo' \in Seq(Byte) /\ Len(rxFifo') <= Depth[port]
      /\ overrun' \in BOOLEAN /\ (port = "f4" => overrun' = FALSE)
  BY <1>1, TakeByteIs
<1>5. CASE Advance(size, head) = tail
  <2>1. overflow' = TRUE /\ ring' = ring /\ head' = head
    BY <1>3, <1>5 DEF IsrDrain
  <2>2. Fill(size, tail, head) = size - 1
    BY <1>2, <1>5, FillIs
  <2>3. CoreInv'
    BY <1>1, <1>4, <2>1 DEF SlaveTypes, StageInv, HandlerInv, RingInv, ghosts
  <2> QED
    BY <2>1, <2>2, <2>3
<1>6. CASE Advance(size, head) # tail
  <2>1. /\ ring' = [ring EXCEPT ![head] = Head(rxFifo)] /\ head' = Advance(size, head)
        /\ overflow' = overflow
    BY <1>3, <1>6 DEF IsrDrain
  <2>2. PutAt(ring', ring, size, head, Head(rxFifo))
    BY <1>2, <2>1 DEF PutAt
  <2>3. /\ Written(ring', size, tail, head')
        /\ Stretch(ring', size, tail, head') = Append(Stretch(ring, size, tail, head), Head(rxFifo))
    <3> DEFINE n == size  r == ring  f == tail  z == head  b == Head(rxFifo)  q == ring'
    <3>1. /\ n \in Nat \ {0} /\ f \in 0 .. (n - 1) /\ z \in 0 .. (n - 1) /\ b \in Byte
          /\ Written(r, n, f, z) /\ Advance(n, z) # f
      BY <1>2, <1>4, <1>6
    <3>2. PutAt(q, r, n, z, b) /\ head' = Advance(n, z)
      BY <2>1, <2>2
    <3> HIDE DEF n, r, f, z, b, q
    <3>3. Grown(q, r, n, f, z, b)
      BY <3>1, <3>2, StretchGrows
    <3>4. Written(q, n, f, head') /\ Stretch(q, n, f, head') = Append(Stretch(r, n, f, z), b)
      BY <3>2, <3>3 DEF Grown
    <3> QED
      BY <3>4 DEF n, r, f, z, b, q
  <2>4. ring' \in [Slots -> 0 .. MaxBytes] /\ head' \in Nat /\ head' < size
    <3>1. Head(rxFifo) \in 0 .. MaxBytes
      BY <1>4 DEF Byte
    <3>2. ring' \in [Slots -> 0 .. MaxBytes]
      BY <1>2, <2>1, <3>1
    <3> QED
      BY <1>2, <1>3, <2>1, <3>2
  <2>5. SlaveTypes' /\ StageInv' /\ HandlerInv'
    BY <1>1, <1>4, <2>1, <2>4 DEF SlaveTypes, StageInv, HandlerInv, ghosts
  <2>6. ASSUME reader.at = "copy"
        PROVE  /\ Fill(size, tail, reader.head) <= Fill(size, tail, head')
               /\ Stretch(ring', size, tail, reader.tail) = Stretch(ring, size, tail, reader.tail)
    <3>1. /\ reader.head \in 0 .. (size - 1) /\ reader.tail \in 0 .. (size - 1)
          /\ Fill(size, tail, reader.tail) <= Fill(size, tail, reader.head)
          /\ Fill(size, tail, reader.head) <= Fill(size, tail, head)
      BY <1>2, <2>6, ReaderIs DEF RingInv, CopyRow
    <3> DEFINE n == size  r == ring  f == tail  x == reader.tail  y == reader.head  z == head
               b == Head(rxFifo)  q == ring'
    <3>2. /\ n \in Nat \ {0} /\ f \in 0 .. (n - 1) /\ x \in 0 .. (n - 1) /\ y \in 0 .. (n - 1)
          /\ z \in 0 .. (n - 1) /\ Advance(n, z) # f /\ PutAt(q, r, n, z, b)
          /\ Fill(n, f, x) <= Fill(n, f, y) /\ Fill(n, f, y) <= Fill(n, f, z)
      BY <1>2, <1>6, <2>2, <3>1
    <3>3. head' = Advance(n, z)
      BY <2>1
    <3> HIDE DEF n, r, f, x, y, z, b, q
    <3>4. /\ Fill(n, f, x) \in Nat /\ Fill(n, f, y) \in Nat /\ Fill(n, f, z) \in Nat
          /\ Fill(n, f, Advance(n, z)) = Fill(n, f, z) + 1
      BY <3>2, FillBound, FillNext
    <3>5. Fill(n, f, x) <= Fill(n, f, z) /\ Fill(n, f, y) <= Fill(n, f, Advance(n, z))
      BY <3>2, <3>4
    <3>6. Stretch(q, n, f, x) = Stretch(r, n, f, x)
      BY <3>2, <3>5, StretchUntouched
    <3>7. Fill(n, f, y) <= Fill(n, f, head') /\ Stretch(q, n, f, x) = Stretch(r, n, f, x)
      BY <3>3, <3>5, <3>6
    <3> QED
      BY <3>7 DEF n, r, f, x, y, z, b, q
  <2>7. RingInv'
    BY <1>1, <2>3, <2>6 DEF RingInv
  <2> QED
    BY <2>1, <2>3, <2>5, <2>7
<1> QED
  BY <1>5, <1>6

LEMMA ReadBeginCore ==
  ASSUME CoreInv, NEW max \in 1 .. MaxRead, ReadBegin(max)
  PROVE  CoreInv'
<1> USE DEF CoreInv
<1>1. UNCHANGED <<port, sent, hw, isr, ctx, ghosts>>
  BY DEF ReadBegin
<1>2. CASE mode = "ring" /\ reader' = [at |-> IF overflow THEN "report" ELSE "sample", room |-> max]
  <2>1. reader' \in ReportRow /\ reader'.at \in {"report", "sample"}
    BY <1>2 DEF ReportRow
  <2> QED
    BY <1>1, <1>2, <2>1 DEF SlaveTypes, StageInv, HandlerInv, RingInv, hw, ctx, ghosts
<1>3. CASE mode = "fifo" /\ reader' = [at |-> "poll", room |-> max, out |-> << >>]
  <2>1. reader' \in PollRow /\ reader'.at = "poll"
    BY <1>3, EmptySeq DEF PollRow
  <2> QED
    BY <1>1, <1>3, <2>1 DEF SlaveTypes, StageInv, HandlerInv, RingInv, hw, ctx, ghosts
<1> QED
  BY <1>2, <1>3 DEF ReadBegin

LEMMA ReadReportCore ==
  ASSUME CoreInv, ReadReport
  PROVE  CoreInv'
<1> USE DEF CoreInv
<1>1. /\ overflow' = FALSE /\ isr = "idle" /\ mode = "ring"
      /\ UNCHANGED <<port, sent, hw, isr, mode, size, ring, head, tail, delivered, base>>
  BY DEF ReadReport, ReaderRuns, StageInv
<1>2. reader' \in ReportRow /\ reader'.at = "sample"
  BY ReaderIs DEF ReadReport, ReportRow
<1> QED
  BY <1>1, <1>2 DEF SlaveTypes, StageInv, HandlerInv, RingInv, hw

LEMMA ReadSampleCore ==
  ASSUME CoreInv, ReadSample
  PROVE  CoreInv'
<1> USE DEF CoreInv
<1>1. /\ mode = "ring" /\ UNCHANGED <<port, sent, hw, isr, ctx, ghosts>>
      /\ reader' = [at |-> "copy", room |-> reader.room, out |-> << >>, head |-> head, tail |-> tail]
  BY DEF ReadSample, StageInv
<1>2. size \in Nat \ {0} /\ head \in 0 .. (size - 1) /\ tail \in 0 .. (size - 1)
  BY <1>1, SizeIs DEF SlaveTypes, StageInv
<1>3. /\ reader' \in CopyRow /\ reader'.at = "copy" /\ reader'.head = head /\ reader'.tail = tail
      /\ reader'.out = << >>
  BY <1>1, <1>2, ReaderIs, EmptySeq DEF ReadSample, CopyRow, ReportRow
<1>4. /\ Fill(size, tail, tail) = 0 /\ Fill(size, tail, head) >= 0
      /\ Stretch(ring, size, tail, tail) = << >>
  BY <1>2, FillIs, StretchEmpty
<1>5. SlaveTypes' /\ StageInv' /\ HandlerInv'
  BY <1>1, <1>3 DEF SlaveTypes, StageInv, HandlerInv, hw, ctx, ghosts
<1>6. Fill(size, tail, head) <= Fill(size, tail, head)
  BY <1>2, FillIs
<1>7. RingInv'
  BY <1>1, <1>2, <1>3, <1>4, <1>6 DEF RingInv, ctx
<1> QED
  BY <1>5, <1>7

\* Where a copying reader is.
LEMMA CopyIs ==
  ASSUME CoreInv, reader.at = "copy"
  PROVE  /\ mode = "ring" /\ size \in Nat \ {0, 1} /\ size \in Nat \ {0} /\ 0 .. (size - 1) \subseteq Slots
         /\ head \in 0 .. (size - 1) /\ tail \in 0 .. (size - 1)
         /\ reader \in CopyRow /\ reader.head \in 0 .. (size - 1) /\ reader.tail \in 0 .. (size - 1)
         /\ Fill(size, tail, reader.tail) <= Fill(size, tail, reader.head)
         /\ Fill(size, tail, reader.head) <= Fill(size, tail, head)
         /\ Fill(size, tail, reader.tail) <= Fill(size, tail, head)
         /\ reader.out = Stretch(ring, size, tail, reader.tail)
         /\ Written(ring, size, tail, head) /\ Written(ring, size, tail, reader.head)
<1> USE DEF CoreInv
<1>1. /\ mode = "ring" /\ size \in Nat \ {0, 1} /\ size \in Nat \ {0} /\ 0 .. (size - 1) \subseteq Slots
      /\ head \in 0 .. (size - 1) /\ tail \in 0 .. (size - 1)
  BY SizeIs DEF SlaveTypes, StageInv
<1>2. reader \in CopyRow /\ reader.head \in 0 .. (size - 1) /\ reader.tail \in 0 .. (size - 1)
  BY <1>1, ReaderIs DEF RingInv, CopyRow
<1>3. /\ Fill(size, tail, reader.tail) <= Fill(size, tail, reader.head)
      /\ Fill(size, tail, reader.head) <= Fill(size, tail, head)
      /\ reader.out = Stretch(ring, size, tail, reader.tail) /\ Written(ring, size, tail, head)
  BY <1>1 DEF RingInv
<1>4. /\ Fill(size, tail, reader.tail) \in Nat /\ Fill(size, tail, reader.head) \in Nat
      /\ Fill(size, tail, head) \in Nat
  <2> DEFINE n == size  f == tail  x == reader.tail  y == reader.head  z == head
  <2>1. n \in Nat \ {0} /\ f \in 0 .. (n - 1) /\ x \in 0 .. (n - 1) /\ y \in 0 .. (n - 1) /\ z \in 0 .. (n - 1)
    BY <1>1, <1>2
  <2> HIDE DEF n, f, x, y, z
  <2>2. Fill(n, f, x) \in Nat /\ Fill(n, f, y) \in Nat /\ Fill(n, f, z) \in Nat
    BY <2>1, FillBound
  <2> QED
    BY <2>2 DEF n, f, x, y, z
<1>5. Written(ring, size, tail, reader.head)
  BY <1>3, <1>4 DEF Written
<1> QED
  BY <1>1, <1>2, <1>3, <1>4, <1>5

LEMMA ReadCopyCore ==
  ASSUME CoreInv, ReadCopy
  PROVE  CoreInv'
<1> USE DEF CoreInv
<1>0. /\ reader.at = "copy" /\ reader.room > 0 /\ reader.tail # reader.head
      /\ UNCHANGED <<port, sent, hw, isr, ctx, ghosts>>
      /\ reader' = [reader EXCEPT !.room = @ - 1, !.tail = (@ + 1) % size,
                                  !.out = Append(@, ring[reader.tail])]
  BY DEF ReadCopy
<1>1. /\ mode = "ring" /\ size \in Nat \ {0, 1} /\ size \in Nat \ {0} /\ 0 .. (size - 1) \subseteq Slots
      /\ head \in 0 .. (size - 1) /\ tail \in 0 .. (size - 1)
      /\ reader \in CopyRow /\ reader.head \in 0 .. (size - 1) /\ reader.tail \in 0 .. (size - 1)
      /\ Fill(size, tail, reader.tail) <= Fill(size, tail, reader.head)
      /\ Fill(size, tail, reader.head) <= Fill(size, tail, head)
      /\ reader.out = Stretch(ring, size, tail, reader.tail)
      /\ Written(ring, size, tail, head) /\ Written(ring, size, tail, reader.head)
  BY <1>0, CopyIs
<1> DEFINE x == reader.tail
<1>2. (x + 1) % size = Advance(size, x)
  BY <1>1, AdvanceIs
<1>3. /\ Advance(size, x) \in 0 .. (size - 1) /\ ring[x] \in Byte
      /\ Fill(size, tail, Advance(size, x)) <= Fill(size, tail, reader.head)
      /\ Stretch(ring, size, tail, Advance(size, x)) = Append(Stretch(ring, size, tail, x), ring[x])
  <2> DEFINE n == size  f == tail  y == reader.head  r == ring
  <2>1. /\ n \in Nat \ {0} /\ f \in 0 .. (n - 1) /\ x \in 0 .. (n - 1) /\ y \in 0 .. (n - 1)
        /\ Fill(n, f, x) <= Fill(n, f, y) /\ x # y /\ Written(r, n, f, y)
    BY <1>0, <1>1
  <2> HIDE DEF n, f, x, y, r
  <2>2. /\ Advance(n, x) \in 0 .. (n - 1) /\ r[x] \in Byte
        /\ Fill(n, f, Advance(n, x)) <= Fill(n, f, y)
        /\ Stretch(r, n, f, Advance(n, x)) = Append(Stretch(r, n, f, x), r[x])
    BY <2>1, StretchCopied
  <2> QED
    BY <2>2 DEF n, f, y, r
<1>4. /\ reader.room - 1 \in Nat /\ Append(reader.out, ring[x]) \in Seq(Byte)
  BY <1>0, <1>1, <1>3, AppendProperties DEF CopyRow
<1>5. /\ reader' \in CopyRow /\ reader'.at = "copy" /\ reader'.head = reader.head
      /\ reader'.tail = Advance(size, x) /\ reader'.out = Append(reader.out, ring[x])
  <2> DEFINE r == [reader EXCEPT !.room = reader.room - 1, !.tail = Advance(size, x),
                                 !.out = Append(reader.out, ring[x])]
  <2>1. reader' = r
    BY <1>0, <1>2
  <2>2. Advance(size, x) \in Nat
    BY <1>3
  <2>3. /\ r \in CopyRow /\ r.at = "copy" /\ r.head = reader.head
        /\ r.tail = Advance(size, x) /\ r.out = Append(reader.out, ring[x])
    BY <1>0, <1>1, <1>4, <2>2 DEF CopyRow
  <2> HIDE DEF r
  <2> QED
    BY <2>1, <2>3
<1> HIDE DEF x
<1>6. SlaveTypes' /\ StageInv' /\ HandlerInv'
  BY <1>0, <1>1, <1>5 DEF SlaveTypes, StageInv, HandlerInv, hw, ctx, ghosts
<1>7. RingInv'
  BY <1>0, <1>1, <1>3, <1>5 DEF RingInv, ctx, x
<1> QED
  BY <1>6, <1>7

LEMMA ReadPublishCore ==
  ASSUME CoreInv, ReadPublish
  PROVE  /\ CoreInv'
         /\ Stretch(ring, size, tail, head) = reader.out \o Stretch(ring', size', tail', head')
<1> USE DEF CoreInv
<1>0. /\ reader.at = "copy" /\ tail' = reader.tail /\ reader' = NoRead
      /\ delivered' = delivered \o reader.out
      /\ UNCHANGED <<port, sent, hw, isr, mode, size, ring, head, overflow, reported, base>>
  BY DEF ReadPublish
<1>1. /\ mode = "ring" /\ size \in Nat \ {0, 1} /\ size \in Nat \ {0} /\ 0 .. (size - 1) \subseteq Slots
      /\ head \in 0 .. (size - 1) /\ tail \in 0 .. (size - 1)
      /\ reader \in CopyRow /\ reader.head \in 0 .. (size - 1) /\ reader.tail \in 0 .. (size - 1)
      /\ Fill(size, tail, reader.tail) <= Fill(size, tail, head)
      /\ reader.out = Stretch(ring, size, tail, reader.tail)
      /\ Written(ring, size, tail, head)
  BY <1>0, CopyIs
<1>2. /\ Written(ring, size, reader.tail, head)
      /\ Stretch(ring, size, tail, head) = reader.out \o Stretch(ring, size, reader.tail, head)
  <2> DEFINE n == size  r == ring  f == tail  x == reader.tail  z == head
  <2>1. /\ n \in Nat \ {0} /\ f \in 0 .. (n - 1) /\ x \in 0 .. (n - 1) /\ z \in 0 .. (n - 1)
        /\ Fill(n, f, x) <= Fill(n, f, z) /\ Written(r, n, f, z)
    BY <1>1
  <2>2. reader.out = Stretch(r, n, f, x)
    BY <1>1
  <2> HIDE DEF n, r, f, x, z
  <2>3. Split(r, n, f, x, z)
    BY <2>1, StretchSplits
  <2>4. Written(r, n, x, z) /\ Stretch(r, n, f, z) = reader.out \o Stretch(r, n, x, z)
    BY <2>2, <2>3 DEF Split
  <2> QED
    BY <2>4 DEF n, r, f, x, z
<1>3. delivered' \in Seq(Byte)
  BY <1>0, <1>1, ConcatProperties DEF SlaveTypes, CopyRow
<1>4. SlaveTypes' /\ StageInv' /\ HandlerInv' /\ RingInv'
  <2>1. NoRead.at = "idle" /\ reader.tail \in Nat /\ reader.tail < size
    BY <1>1 DEF NoRead
  <2>2. SlaveTypes'
    BY <1>0, <1>3, <2>1 DEF SlaveTypes, hw
  <2>3. StageInv' /\ HandlerInv'
    BY <1>0, <1>1, <2>1 DEF StageInv, HandlerInv, hw
  <2>4. RingInv'
    BY <1>0, <1>2, <2>1 DEF RingInv
  <2> QED
    BY <2>2, <2>3, <2>4
<1> QED
  BY <1>0, <1>2, <1>4

LEMMA PollByteCore ==
  ASSUME CoreInv, PollByte
  PROVE  CoreInv'
<1> USE DEF CoreInv
<1>0. /\ reader.at = "poll" /\ reader.room > 0 /\ rxFifo # << >> /\ TakeByte
      /\ reader' = [reader EXCEPT !.room = @ - 1, !.out = Append(@, Head(rxFifo))]
      /\ UNCHANGED <<port, sent, irqOn, isr, ctx, ghosts>>
  BY DEF PollByte
<1>1. reader \in PollRow /\ mode = "fifo"
  BY <1>0, ReaderIs DEF StageInv
<1>2. /\ Head(rxFifo) \in Byte /\ rxFifo' \in Seq(Byte) /\ Len(rxFifo') <= Depth[port]
      /\ overrun' \in BOOLEAN /\ (port = "f4" => overrun' = FALSE)
  BY <1>0, TakeByteIs
<1>3. reader' \in PollRow /\ reader'.at = "poll"
  <2>1. reader.room - 1 \in Nat /\ Append(reader.out, Head(rxFifo)) \in Seq(Byte)
    BY <1>0, <1>1, <1>2, AppendProperties DEF PollRow
  <2> QED
    BY <1>0, <1>1, <2>1 DEF PollRow
<1>4. isr = "idle" /\ irqOn = FALSE
  BY <1>1 DEF StageInv, SlaveTypes
<1> QED
  BY <1>0, <1>1, <1>2, <1>3, <1>4 DEF SlaveTypes, StageInv, HandlerInv, RingInv, ctx, ghosts

LEMMA PollReturnCore ==
  ASSUME CoreInv, PollReturn
  PROVE  CoreInv'
<1> USE DEF CoreInv
<1>0. /\ reader.at = "poll" /\ reader' = NoRead /\ delivered' = delivered \o reader.out
      /\ UNCHANGED <<port, sent, hw, isr, ctx, reported, base>>
  BY DEF PollReturn
<1>1. reader \in PollRow
  BY <1>0, ReaderIs
<1>2. delivered' \in Seq(Byte)
  BY <1>0, <1>1, ConcatProperties DEF SlaveTypes, PollRow
<1>3. NoRead.at = "idle"
  BY DEF NoRead
<1> QED
  BY <1>0, <1>2, <1>3 DEF SlaveTypes, StageInv, HandlerInv, RingInv, hw, ctx

\* The invariant holds at the start ...
LEMMA CoreInit == RxInit => CoreInv
<1> SUFFICES ASSUME RxInit PROVE CoreInv
  OBVIOUS
<1>1. << >> \in Seq(Byte) /\ Len(<< >>) = 0
  BY EmptySeq
<1>2. Depth[port] \in Nat /\ NoRead.at = "idle"
  BY DEF RxInit, NoRead
<1>3. SlaveTypes
  <2>1. /\ port \in Ports /\ sent = 0 /\ rxFifo = << >> /\ delivered = << >> /\ base = 0
        /\ overrun = FALSE /\ irqOn = FALSE /\ overflow = FALSE /\ isr = "idle" /\ mode = "closed"
        /\ size = 0 /\ head = 0 /\ tail = 0 /\ reader = NoRead
    BY DEF RxInit
  <2>2. ring \in [Slots -> 0 .. MaxBytes]
    BY DEF RxInit
  <2>3. rxFifo \in Seq(Byte) /\ Len(rxFifo) <= Depth[port] /\ delivered \in Seq(Byte)
    BY <1>1, <1>2, <2>1
  <2>4. overrun \in BOOLEAN /\ irqOn \in BOOLEAN /\ overflow \in BOOLEAN
    BY <2>1
  <2>5. /\ sent \in 0 .. MaxBytes /\ head \in Nat /\ tail \in Nat /\ base \in Nat
        /\ size \in {0} \cup {len \in BufferSizes : len >= 2 /\ PowerOfTwo(len)}
        /\ reader \in {NoRead} \cup ReportRow \cup PollRow \cup CopyRow
    BY <2>1
  <2>6. /\ isr \in {"idle", "test", "clear", "drain"}
        /\ mode \in {"closed", "dead", "fifo", "starting", "enabling", "ring"}
    BY <2>1
  <2> QED
    BY <2>1, <2>2, <2>3, <2>4, <2>5, <2>6 DEF SlaveTypes
<1> QED
  BY <1>1, <1>2, <1>3 DEF RxInit, CoreInv, StageInv, HandlerInv, RingInv

\* ... and after every step.
LEMMA CoreStep == CoreInv /\ [RxNext]_rxVars => CoreInv'
<1> SUFFICES ASSUME CoreInv, [RxNext]_rxVars PROVE CoreInv'
  OBVIOUS
<1>1. CASE ByteArrives
  BY <1>1, ByteArrivesCore
<1>2. CASE SetupSlave
  BY <1>2, SetupSlaveCore
<1>3. CASE \E len \in BufferSizes : SetRxBuffer(len)
  BY <1>3, SetRxBufferCore
<1>4. CASE StartRx
  BY <1>4, StartRxCore
<1>5. CASE Isr
  BY <1>5, IsrCore, IsrDrainCore DEF Isr
<1>6. CASE Poll
  BY <1>6, ReadBeginCore, ReadReportCore, ReadSampleCore, ReadCopyCore, ReadPublishCore,
     PollByteCore, PollReturnCore DEF Poll
<1>7. CASE UNCHANGED rxVars
  BY <1>7 DEF rxVars, hw, ctx, ghosts, CoreInv, SlaveTypes, StageInv, HandlerInv, RingInv
<1> QED
  BY <1>1, <1>2, <1>3, <1>4, <1>5, <1>6, <1>7 DEF RxNext

-----------------------------------------------------------------------------
(* What waits to be read, and what a step does to it. *)

\* The bytes past the FIFO: in the ring, or with a reader that polls.
Kept ==
  IF mode = "ring" THEN Stretch(ring, size, tail, head)
  ELSE IF reader.at = "poll" THEN reader.out ELSE << >>

\* What waits is what is kept and then the FIFO ...
LEMMA WaitingIs == CoreInv => /\ Waiting = Kept \o rxFifo
                              /\ Kept \in Seq(Byte) /\ rxFifo \in Seq(Byte) /\ delivered \in Seq(Byte)
<1> SUFFICES ASSUME CoreInv
             PROVE  /\ Waiting = Kept \o rxFifo
                    /\ Kept \in Seq(Byte) /\ rxFifo \in Seq(Byte) /\ delivered \in Seq(Byte)
  OBVIOUS
<1> USE DEF CoreInv
<1>1. rxFifo \in Seq(Byte) /\ delivered \in Seq(Byte) /\ << >> \o rxFifo = rxFifo /\ << >> \in Seq(Byte)
  BY ConcatEmptySeq, EmptySeq DEF SlaveTypes
<1>2. CASE mode = "ring"
  <2> DEFINE n == size  r == ring  f == tail  z == head
  <2>1. /\ n \in Nat \ {0} /\ f \in 0 .. (n - 1) /\ z \in 0 .. (n - 1) /\ Written(r, n, f, z)
    BY <1>2, SizeIs DEF SlaveTypes, StageInv, RingInv
  <2>2. Kept = Stretch(r, n, f, z)
    BY <1>2 DEF Kept
  <2>3. Waiting = Turned(r, n, f, z) \o rxFifo
    BY <1>2 DEF Waiting, Span, Turned
  <2> HIDE DEF n, r, f, z
  <2>4. Turned(r, n, f, z) = Stretch(r, n, f, z)
    BY <2>1, StretchIs
  <2>5. IsStretch(Stretch(r, n, f, z), r, n, f, Fill(n, f, z))
    BY <2>1, StretchTyped
  <2> QED
    BY <1>1, <2>2, <2>3, <2>4, <2>5 DEF IsStretch
<1>3. CASE mode # "ring" /\ reader.at = "poll"
  BY <1>1, <1>3, ReaderIs DEF Kept, Waiting, PollRow
<1>4. CASE mode # "ring" /\ reader.at # "poll"
  BY <1>1, <1>4 DEF Kept, Waiting
<1> QED
  BY <1>2, <1>3, <1>4

\* ... in the next state too.
WaitingParts ==
  /\ Waiting = Kept \o rxFifo
  /\ Kept \in Seq(Byte) /\ rxFifo \in Seq(Byte) /\ delivered \in Seq(Byte)

LEMMA WaitingNext ==
  CoreInv' => /\ Waiting' = Kept' \o rxFifo'
              /\ Kept' \in Seq(Byte) /\ rxFifo' \in Seq(Byte) /\ delivered' \in Seq(Byte)
<1>1. CoreInv => WaitingParts
  BY WaitingIs DEF WaitingParts
<1>2. CoreInv' => WaitingParts'
  BY <1>1, PTL
<1> QED
  BY <1>2 DEF WaitingParts

SameLink ==
  /\ port' = port
  /\ mode' = "ring" <=> mode = "ring"
  /\ mode = "ring" => size' = size /\ base' = base

\* What was reported or recorded stays so.
Remembers ==
  mode = "ring" /\ port # "f4" =>
    /\ reported \subseteq reported'
    /\ overflow = TRUE \/ overrun = TRUE => overflow' = TRUE \/ overrun' = TRUE

\* At least as many bytes wait as the FIFO or the ring holds.
Full == Len(Kept) + Len(rxFifo) >= Depth[port] \/ Len(Kept) + Len(rxFifo) >= size - 1

Steady == sent' = sent /\ delivered' = delivered /\ Waiting' = Waiting
Arrived == sent' = sent + 1 /\ delivered' = delivered /\ Waiting' = Append(Waiting, sent + 1)
LostNew == sent' = sent + 1 /\ delivered' = delivered /\ Waiting' = Waiting
LostOld == sent' = sent /\ delivered' = delivered /\ rxFifo # << >> /\ Waiting' = Kept \o Tail(rxFifo)
Handed(x, rest) ==
  /\ sent' = sent /\ delivered' = delivered \o x
  /\ x \in Seq(Byte) /\ rest \in Seq(Byte)
  /\ Waiting = x \o rest /\ Waiting' = rest

\* What a step is to the link.
Unseen == Steady /\ SameLink /\ (Remembers \/ Missing \subseteq reported')
Begun == Steady /\ port' = port /\ mode # "ring" /\ mode' = "ring" /\ base' = sent
InOrder == Arrived /\ SameLink /\ Remembers /\ sent + 1 \in Byte
Overrun == LostNew /\ SameLink /\ Full /\ overrun' = TRUE
Discarded ==
  /\ LostOld /\ SameLink
  /\ mode = "ring" => Full /\ (port = "f4" \/ overflow' = TRUE)
Given == SameLink /\ Remembers /\ \E x, rest : Handed(x, rest)

LinkStep == Unseen \/ Begun \/ InOrder \/ Overrun \/ Discarded \/ Given

\* Two ways for nothing to change.
LEMMA KeptSame ==
  ASSUME CoreInv, CoreInv', Kept' = Kept, rxFifo' = rxFifo
  PROVE  Waiting' = Waiting
  BY WaitingIs, WaitingNext

LEMMA KeptMoved ==
  ASSUME CoreInv, CoreInv', rxFifo # << >>, Kept' = Append(Kept, Head(rxFifo)), rxFifo' = Tail(rxFifo)
  PROVE  Waiting' = Waiting
<1>1. Append(Kept, Head(rxFifo)) \o Tail(rxFifo) = Kept \o rxFifo
  BY WaitingIs, Moved
<1> QED
  BY <1>1, WaitingIs, WaitingNext

\* The class of each action.
LEMMA ByteArrivesLink ==
  ASSUME CoreInv, CoreInv', ByteArrives
  PROVE  LinkStep
<1>1. /\ UNCHANGED <<port, irqOn, isr, ctx, reader, ghosts>> /\ sent' = sent + 1
      /\ sent + 1 \in Byte
  BY DEF ByteArrives, CoreInv, SlaveTypes, Byte
<1>2. Kept' = Kept
  BY <1>1 DEF Kept, ctx
<1>3. SameLink
  BY <1>1 DEF SameLink, ctx, ghosts
<1>4. CASE Len(rxFifo) < Depth[port]
  <2>1. rxFifo' = Append(rxFifo, sent + 1) /\ overrun' = overrun
    BY <1>4 DEF ByteArrives
  <2>2. Waiting' = Append(Waiting, sent + 1)
    <3>1. Kept \o Append(rxFifo, sent + 1) = Append(Kept \o rxFifo, sent + 1)
      BY <1>1, WaitingIs, Appended
    <3> QED
      BY <1>2, <2>1, <3>1, WaitingIs, WaitingNext
  <2>3. Remembers
    BY <1>1, <2>1 DEF Remembers, ctx, ghosts
  <2> QED
    BY <1>1, <1>3, <2>2, <2>3 DEF LinkStep, InOrder, Arrived, ghosts
<1>5. CASE ~(Len(rxFifo) < Depth[port])
  <2>1. rxFifo' = rxFifo /\ overrun' = TRUE
    BY <1>5 DEF ByteArrives
  <2>2. Waiting' = Waiting
    BY <1>2, <2>1, KeptSame
  <2>3. Full
    <3>1. Len(Kept) \in Nat /\ Len(rxFifo) \in Nat /\ Depth[port] \in Nat
      BY WaitingIs, LenProperties DEF CoreInv, SlaveTypes
    <3> QED
      BY <1>5, <3>1 DEF Full
  <2> QED
    BY <1>1, <1>3, <2>1, <2>2, <2>3 DEF LinkStep, Overrun, LostNew, ghosts
<1> QED
  BY <1>4, <1>5

LEMMA SetupLink ==
  ASSUME CoreInv, CoreInv', SetupSlave \/ \E len \in BufferSizes : SetRxBuffer(len)
  PROVE  LinkStep
<1>1. /\ UNCHANGED <<port, sent, hw, isr, ring, reader, ghosts>>
      /\ mode # "ring" /\ mode' # "ring"
  BY DEF SetupSlave, PortInit, SetRxBuffer
<1>2. Kept' = Kept
  BY <1>1 DEF Kept
<1>3. Waiting' = Waiting
  BY <1>1, <1>2, KeptSame DEF hw
<1> QED
  BY <1>1, <1>3 DEF LinkStep, Unseen, Steady, SameLink, Remembers, ghosts

LEMMA StartRxLink ==
  ASSUME CoreInv, CoreInv', StartRx
  PROVE  LinkStep
<1>1. mode \in {"starting", "enabling"} /\ reader = NoRead /\ UNCHANGED <<port, sent, reader, delivered>>
  BY DEF StartRx, StartRxDiscard, StartRxDrained, StartRxEnable, CoreInv, StageInv, ghosts
<1>2. Kept = << >> /\ NoRead.at # "poll"
  BY <1>1 DEF Kept, NoRead
<1>3. CASE StartRxDiscard
  <2>1. rxFifo # << >> /\ rxFifo' = Tail(rxFifo) /\ mode' = mode
    BY <1>3 DEF StartRxDiscard, TakeByte, ctx
  <2>2. Kept' = Kept
    BY <1>1, <1>2, <2>1 DEF Kept
  <2>3. Waiting' = Kept \o Tail(rxFifo)
    BY <2>1, <2>2, WaitingNext
  <2> QED
    BY <1>1, <2>1, <2>3 DEF LinkStep, Discarded, LostOld, SameLink
<1>4. CASE StartRxDrained
  <2>1. rxFifo' = rxFifo /\ mode' # "ring"
    BY <1>4 DEF StartRxDrained, hw
  <2>2. Kept' = Kept
    BY <1>1, <1>2, <2>1 DEF Kept
  <2>3. Waiting' = Waiting
    BY <2>1, <2>2, KeptSame
  <2> QED
    BY <1>1, <2>1, <2>3 DEF LinkStep, Unseen, Steady, SameLink, Remembers
<1>5. CASE StartRxEnable
  <2>1. rxFifo' = rxFifo /\ mode' = "ring" /\ base' = sent /\ UNCHANGED <<size, ring, head, tail>>
    BY <1>5 DEF StartRxEnable
  <2>2. size \in Nat \ {0} /\ head = 0 /\ tail = 0
    BY <1>1, SizeIs DEF CoreInv, StageInv
  <2>3. Stretch(ring, size, 0, 0) = << >>
    <3> DEFINE n == size  r == ring
    <3>1. n \in Nat \ {0} /\ 0 \in 0 .. (n - 1)
      BY <2>2
    <3> HIDE DEF n, r
    <3>2. Stretch(r, n, 0, 0) = << >>
      BY <3>1, StretchEmpty
    <3> QED
      BY <3>2 DEF n, r
  <2>4. Kept' = Kept
    BY <1>2, <2>1, <2>2, <2>3 DEF Kept
  <2>5. Waiting' = Waiting
    BY <2>1, <2>4, KeptSame
  <2> QED
    BY <1>1, <2>1, <2>5 DEF LinkStep, Begun, Steady
<1> QED
  BY <1>3, <1>4, <1>5 DEF StartRx

LEMMA IsrLink ==
  ASSUME CoreInv, CoreInv', IsrEnter \/ IsrTestOverrun \/ IsrClearOverrun \/ IsrReturn
  PROVE  LinkStep
<1>1. UNCHANGED <<port, sent, mode, size, ring, head, tail, reader, ghosts>>
  BY DEF IsrEnter, IsrTestOverrun, IsrClearOverrun, IsrReturn, ctx
<1>2. Kept' = Kept
  BY <1>1 DEF Kept
<1>3. SameLink
  BY <1>1 DEF SameLink, ghosts
<1>4. CASE IsrEnter \/ IsrReturn
  <2>1. rxFifo' = rxFifo /\ overrun' = overrun /\ overflow' = overflow
    BY <1>4 DEF IsrEnter, IsrReturn, hw, ctx
  <2>2. Waiting' = Waiting
    BY <1>2, <2>1, KeptSame
  <2> QED
    BY <1>1, <1>3, <2>1, <2>2 DEF LinkStep, Unseen, Steady, Remembers, ghosts
<1>5. CASE IsrTestOverrun
  <2>1. rxFifo' = rxFifo /\ overrun' = overrun /\ (overflow = TRUE => overflow' = TRUE)
    BY <1>5 DEF IsrTestOverrun, hw
  <2>2. Waiting' = Waiting
    BY <1>2, <2>1, KeptSame
  <2> QED
    BY <1>1, <1>3, <2>1, <2>2 DEF LinkStep, Unseen, Steady, Remembers, ghosts
<1>6. CASE IsrClearOverrun
  <2>1. /\ isr = "clear" /\ mode = "ring" /\ overflow' = overflow /\ overflow = TRUE
        /\ overrun = TRUE
    BY <1>6 DEF IsrClearOverrun, CoreInv, StageInv, HandlerInv, ctx
  <2>2. CASE port = "f4"
    <3>1. rxFifo' = Tail(rxFifo) /\ Len(rxFifo) = Depth[port] /\ Depth[port] \in Nat \ {0}
      BY <1>6, <2>1, <2>2 DEF IsrClearOverrun, CoreInv, HandlerInv, SlaveTypes
    <3>2. rxFifo # << >>
      BY <3>1, EmptySeq
    <3>3. Full
      <4>1. Len(Kept) \in Nat
        BY WaitingIs, LenProperties
      <4> QED
        BY <3>1, <4>1 DEF Full
    <3>4. Waiting' = Kept \o Tail(rxFifo)
      BY <1>2, <3>1, WaitingNext
    <3> QED
      BY <1>1, <1>3, <2>2, <3>2, <3>3, <3>4 DEF LinkStep, Discarded, LostOld, ghosts
  <2>3. CASE port # "f4"
    <3>1. rxFifo' = rxFifo
      BY <1>6, <2>3 DEF IsrClearOverrun
    <3>2. Waiting' = Waiting
      BY <1>2, <3>1, KeptSame
    <3> QED
      BY <1>1, <1>3, <2>1, <3>2 DEF LinkStep, Unseen, Steady, Remembers, ghosts
  <2> QED
    BY <2>2, <2>3
<1> QED
  BY <1>4, <1>5, <1>6

LEMMA IsrDrainLink ==
  ASSUME CoreInv, CoreInv', IsrDrain
  PROVE  LinkStep
<1>1. /\ isr = "drain" /\ mode = "ring" /\ rxFifo # << >> /\ rxFifo' = Tail(rxFifo)
      /\ UNCHANGED <<port, sent, mode, size, tail, reader, ghosts>>
      /\ port # "f4" => overrun' = overrun
  BY DEF IsrDrain, TakeByte, CoreInv, StageInv, SlaveTypes
<1>2. SameLink
  BY <1>1 DEF SameLink, ghosts
<1>3. Kept = Stretch(ring, size, tail, head) /\ Kept' = Stretch(ring', size, tail, head')
  BY <1>1 DEF Kept
<1>4. CASE /\ ring' = ring /\ head' = head /\ overflow' = TRUE /\ Fill(size, tail, head) = size - 1
  <2>1. Kept' = Kept
    BY <1>3, <1>4
  <2>2. Waiting' = Kept \o Tail(rxFifo)
    BY <1>1, <2>1, WaitingNext
  <2>3. Len(Kept) = Fill(size, tail, head)
    <3> DEFINE n == size  r == ring  f == tail  z == head
    <3>1. /\ n \in Nat \ {0} /\ f \in 0 .. (n - 1) /\ z \in 0 .. (n - 1) /\ Written(r, n, f, z)
      BY <1>1, SizeIs DEF CoreInv, SlaveTypes, StageInv, RingInv
    <3>2. Kept = Stretch(r, n, f, z)
      BY <1>3
    <3> HIDE DEF n, r, f, z
    <3>3. IsStretch(Stretch(r, n, f, z), r, n, f, Fill(n, f, z))
      BY <3>1, StretchTyped
    <3>4. Len(Kept) = Fill(n, f, z)
      BY <3>2, <3>3 DEF IsStretch
    <3> QED
      BY <3>4 DEF n, f, z
  <2>4. Full
    <3>1. Len(rxFifo) \in Nat /\ Len(Kept) = size - 1 /\ size \in Nat
      BY <1>4, <2>3, SizeIs, LenProperties DEF CoreInv, SlaveTypes
    <3> QED
      BY <3>1 DEF Full
  <2> QED
    BY <1>1, <1>2, <1>4, <2>2, <2>4 DEF LinkStep, Discarded, LostOld, ghosts
<1>5. CASE /\ Stretch(ring', size, tail, head') = Append(Stretch(ring, size, tail, head), Head(rxFifo))
           /\ overflow' = overflow
  <2>1. Waiting' = Waiting
    BY <1>1, <1>3, <1>5, KeptMoved
  <2> QED
    BY <1>1, <1>2, <1>5, <2>1 DEF LinkStep, Unseen, Steady, Remembers, ghosts
<1> QED
  BY <1>4, <1>5, IsrDrainCore

LEMMA ReadRingLink ==
  ASSUME CoreInv, CoreInv', ReadReport \/ ReadSample \/ ReadCopy
  PROVE  LinkStep
<1>1. /\ mode = "ring"
      /\ UNCHANGED <<port, sent, hw, mode, size, ring, head, tail, delivered, base>>
  BY DEF ReadReport, ReadSample, ReadCopy, CoreInv, StageInv, ctx, ghosts
<1>2. Kept' = Kept
  BY <1>1 DEF Kept
<1>3. Waiting' = Waiting
  BY <1>1, <1>2, KeptSame DEF hw
<1>4. SameLink /\ Steady
  BY <1>1, <1>3 DEF SameLink, Steady
<1>5. CASE ReadReport
  <2>1. Missing \subseteq reported'
    BY <1>5 DEF ReadReport
  <2> QED
    BY <1>4, <2>1 DEF LinkStep, Unseen
<1>6. CASE ReadSample \/ ReadCopy
  <2>1. Remembers
    BY <1>6 DEF ReadSample, ReadCopy, Remembers, hw, ctx, ghosts
  <2> QED
    BY <1>4, <2>1 DEF LinkStep, Unseen
<1> QED
  BY <1>5, <1>6

LEMMA ReadBeginLink ==
  ASSUME CoreInv, CoreInv', NEW max \in 1 .. MaxRead, ReadBegin(max)
  PROVE  LinkStep
<1>1. UNCHANGED <<port, sent, hw, isr, ctx, ghosts>> /\ reader = NoRead /\ NoRead.at # "poll"
  BY DEF ReadBegin, NoRead
<1>2. Kept' = Kept
  <2>1. CASE mode = "ring"
    BY <1>1, <2>1 DEF Kept, ctx
  <2>2. CASE mode = "fifo" /\ reader' = [at |-> "poll", room |-> max, out |-> << >>]
    BY <1>1, <2>2 DEF Kept, ctx
  <2> QED
    BY <2>1, <2>2 DEF ReadBegin
<1>3. Waiting' = Waiting
  BY <1>1, <1>2, KeptSame DEF hw
<1> QED
  BY <1>1, <1>3 DEF LinkStep, Unseen, SameLink, Steady, Remembers, hw, ctx, ghosts

LEMMA ReadPublishLink ==
  ASSUME CoreInv, CoreInv', ReadPublish
  PROVE  LinkStep
<1>1. /\ mode = "ring" /\ reader.at = "copy" /\ delivered' = delivered \o reader.out
      /\ UNCHANGED <<port, sent, hw, isr, mode, size, ring, head, overflow, reported, base>>
  BY DEF ReadPublish, CoreInv, StageInv
<1>2. Kept = reader.out \o Kept'
  BY <1>1, ReadPublishCore DEF Kept
<1>3. reader.out \in Seq(Byte) /\ Kept' \in Seq(Byte) /\ rxFifo \in Seq(Byte)
  BY <1>1, ReaderIs, WaitingIs, WaitingNext DEF CopyRow, CoreInv
<1>4. Waiting = reader.out \o (Kept' \o rxFifo)
  <2> DEFINE x == reader.out  y == Kept'  z == rxFifo
  <2>1. x \in Seq(Byte) /\ y \in Seq(Byte) /\ z \in Seq(Byte) /\ Waiting = (x \o y) \o z
    BY <1>2, <1>3, WaitingIs
  <2> HIDE DEF x, y, z
  <2>2. Waiting = x \o (y \o z)
    BY <2>1, ConcatAssociative
  <2> QED
    BY <2>2 DEF x, y, z
<1>5. Waiting' = Kept' \o rxFifo /\ Kept' \o rxFifo \in Seq(Byte)
  BY <1>1, <1>3, WaitingNext, ConcatProperties DEF hw
<1>6. Handed(reader.out, Kept' \o rxFifo)
  BY <1>1, <1>3, <1>4, <1>5 DEF Handed
<1>7. SameLink /\ Remembers
  BY <1>1 DEF SameLink, Remembers, hw
<1> QED
  BY <1>6, <1>7 DEF LinkStep, Given

LEMMA PollByteLink ==
  ASSUME CoreInv, CoreInv', PollByte
  PROVE  LinkStep
<1>1. /\ reader.at = "poll" /\ mode = "fifo" /\ rxFifo # << >> /\ rxFifo' = Tail(rxFifo)
      /\ reader' = [reader EXCEPT !.room = @ - 1, !.out = Append(@, Head(rxFifo))]
      /\ UNCHANGED <<port, sent, ctx, ghosts>> /\ reader \in PollRow
  BY ReaderIs DEF PollByte, TakeByte, CoreInv, StageInv
<1>2. Kept = reader.out /\ reader'.at = "poll" /\ reader'.out = Append(reader.out, Head(rxFifo))
  BY <1>1 DEF Kept, PollRow
<1>3. Kept' = Append(Kept, Head(rxFifo))
  BY <1>1, <1>2 DEF Kept, ctx
<1>4. Waiting' = Waiting
  BY <1>1, <1>3, KeptMoved
<1> QED
  BY <1>1, <1>4 DEF LinkStep, Unseen, SameLink, Steady, Remembers, ctx, ghosts

LEMMA PollReturnLink ==
  ASSUME CoreInv, CoreInv', PollReturn
  PROVE  LinkStep
<1>1. /\ reader.at = "poll" /\ mode = "fifo" /\ delivered' = delivered \o reader.out
      /\ reader' = NoRead /\ NoRead.at # "poll"
      /\ UNCHANGED <<port, sent, hw, ctx, reported, base>> /\ reader \in PollRow
  BY ReaderIs DEF PollReturn, CoreInv, StageInv, NoRead
<1>2. Kept = reader.out /\ Kept' = << >> /\ reader.out \in Seq(Byte)
  BY <1>1 DEF Kept, PollRow, ctx
<1>3. Waiting = reader.out \o rxFifo /\ Waiting' = rxFifo /\ rxFifo \in Seq(Byte)
  BY <1>1, <1>2, WaitingIs, WaitingNext, ConcatEmptySeq DEF hw
<1>4. Handed(reader.out, rxFifo)
  BY <1>1, <1>2, <1>3 DEF Handed
<1>5. SameLink /\ Remembers
  BY <1>1 DEF SameLink, Remembers, ctx
<1> QED
  BY <1>4, <1>5 DEF LinkStep, Given

\* Every step has a class.
LEMMA EveryStepIsLinkStep ==
  ASSUME CoreInv, CoreInv', [RxNext]_rxVars
  PROVE  LinkStep
<1>1. CASE ByteArrives
  BY <1>1, ByteArrivesLink
<1>2. CASE SetupSlave \/ \E len \in BufferSizes : SetRxBuffer(len)
  BY <1>2, SetupLink
<1>3. CASE StartRx
  BY <1>3, StartRxLink
<1>4. CASE Isr
  BY <1>4, IsrLink, IsrDrainLink DEF Isr
<1>5. CASE Poll
  BY <1>5, ReadBeginLink, ReadRingLink, ReadPublishLink, PollByteLink, PollReturnLink DEF Poll
<1>6. CASE UNCHANGED rxVars
  <2>1. UNCHANGED <<port, sent, rxFifo, overrun, ctx, reader, ghosts>>
    BY <1>6 DEF rxVars, hw
  <2>2. Kept' = Kept
    BY <2>1 DEF Kept, ctx
  <2>3. Waiting' = Waiting
    BY <2>1, <2>2, KeptSame
  <2> QED
    BY <2>1, <2>3 DEF LinkStep, Unseen, SameLink, Steady, Remembers, ctx, ghosts
<1> QED
  BY <1>1, <1>2, <1>3, <1>4, <1>5, <1>6 DEF RxNext

-----------------------------------------------------------------------------
(* No byte is lost without a record. *)

SlaveInv == CoreInv /\ (port # "f4" => NoSilentLoss)

\* One byte more.
LEMMA AppendRange ==
  ASSUME NEW s \in Seq(Byte), NEW b \in Byte
  PROVE  Range(Append(s, b)) = Range(s) \cup {b}
<1> DEFINE u == <<b>>
<1>1. u \in Seq(Byte) /\ Append(s, b) = s \o u
  BY AppendIsConcat
<1>2. Range(u) = {b}
  BY DEF Range
<1> HIDE DEF u
<1>3. Range(s \o u) = Range(s) \cup Range(u)
  BY <1>1, RangeConcatenation
<1> QED
  BY <1>1, <1>2, <1>3

\* A byte given to the caller is not missing, nor one that still waits.
LEMMA HandedKeeps ==
  ASSUME CoreInv, NEW x, NEW rest, Handed(x, rest), base' = base
  PROVE  Missing' \subseteq Missing
<1> DEFINE w == Waiting  d == delivered
<1>1. /\ x \in Seq(Byte) /\ rest \in Seq(Byte) /\ d \in Seq(Byte) /\ w = x \o rest
      /\ Waiting' = rest /\ delivered' = d \o x /\ sent' = sent
  BY WaitingIs DEF Handed
<1>2. Missing = {b \in base + 1 .. sent : b \notin Range(d) \cup Range(w)}
  BY DEF Missing
<1>3. Missing' = {b \in base + 1 .. sent : b \notin Range(d \o x) \cup Range(rest)}
  BY <1>1 DEF Missing
<1> HIDE DEF w, d
<1>4. Range(w) = Range(x) \cup Range(rest) /\ Range(d \o x) = Range(d) \cup Range(x)
  BY <1>1, RangeConcatenation
<1> QED
  BY <1>2, <1>3, <1>4

\* A byte that arrives is not missing.
LEMMA ArrivedKeeps ==
  ASSUME CoreInv, InOrder, base' = base
  PROVE  Missing' \subseteq Missing
<1> DEFINE w == Waiting  n == sent + 1
<1>1. w \in Seq(Byte)
  <2>1. w = Kept \o rxFifo /\ Kept \in Seq(Byte) /\ rxFifo \in Seq(Byte)
    BY WaitingIs
  <2> HIDE DEF w
  <2>2. Kept \o rxFifo \in Seq(Byte)
    BY <2>1, ConcatProperties
  <2> QED
    BY <2>1, <2>2
<1>2. /\ n \in Byte /\ sent' = n /\ delivered' = delivered /\ Waiting' = Append(w, n)
  BY DEF InOrder, Arrived
<1>3. sent \in Nat /\ base \in Nat
  BY DEF CoreInv, SlaveTypes
<1>4. Missing' = {b \in base + 1 .. n : b \notin Range(delivered) \cup Range(Append(w, n))}
  BY <1>2 DEF Missing
<1>5. Missing = {b \in base + 1 .. sent : b \notin Range(delivered) \cup Range(w)}
  BY DEF Missing
<1>6. ASSUME NEW b \in base + 1 .. n, b # n
      PROVE  b \in base + 1 .. sent
  BY <1>3, <1>6
<1> HIDE DEF w, n
<1>7. Range(Append(w, n)) = Range(w) \cup {n}
  BY <1>1, <1>2, AppendRange
<1> QED
  BY <1>4, <1>5, <1>6, <1>7

\* Each class keeps the record.
LEMMA LossStep ==
  ASSUME SlaveInv, CoreInv', LinkStep
  PROVE  SlaveInv'
<1> SUFFICES ASSUME port' # "f4", mode' = "ring"
             PROVE  Missing' \subseteq reported' \/ overflow' = TRUE \/ overrun' = TRUE
  BY DEF SlaveInv, NoSilentLoss
<1> DEFINE recorded == Missing \subseteq reported \/ overflow = TRUE \/ overrun = TRUE
<1>0. mode = "ring" /\ port # "f4" => recorded
  <2>1. overflow \in BOOLEAN /\ overrun \in BOOLEAN
    BY DEF SlaveInv, CoreInv, SlaveTypes
  <2> QED
    BY <2>1 DEF SlaveInv, NoSilentLoss
<1>1. ASSUME SameLink, Remembers, Missing' \subseteq Missing
      PROVE  Missing' \subseteq reported' \/ overflow' = TRUE \/ overrun' = TRUE
  BY <1>0, <1>1 DEF SameLink, Remembers
<1>2. SameLink => mode = "ring" /\ port # "f4" /\ base' = base
  BY DEF SameLink
<1>3. CASE Unseen
  <2>1. Missing' = Missing
    BY <1>2, <1>3 DEF Unseen, Steady, Missing
  <2> QED
    BY <1>1, <1>3, <2>1 DEF Unseen
<1>4. CASE Begun
  <2>1. Missing' = {}
    <3>1. base' = sent /\ sent' = sent /\ sent \in Nat
      BY <1>4 DEF Begun, Steady, SlaveInv, CoreInv, SlaveTypes
    <3> QED
      BY <3>1 DEF Missing
  <2> QED
    BY <2>1
<1>5. CASE InOrder
  <2>1. Missing' \subseteq Missing
    BY <1>2, <1>5, ArrivedKeeps DEF InOrder, SlaveInv
  <2> QED
    BY <1>1, <1>5, <2>1 DEF InOrder
<1>6. CASE Overrun
  BY <1>6 DEF Overrun
<1>7. CASE Discarded
  BY <1>2, <1>7 DEF Discarded, SameLink
<1>8. CASE Given
  <2>1. Missing' \subseteq Missing
    BY <1>2, <1>8, HandedKeeps DEF Given, SlaveInv
  <2> QED
    BY <1>1, <1>8, <2>1 DEF Given
<1> QED
  BY <1>3, <1>4, <1>5, <1>6, <1>7, <1>8 DEF LinkStep

\* SlaveInv holds in every reachable state.
THEOREM SlaveInvariance == RxSpec => []SlaveInv
<1>1. RxInit => SlaveInv
  BY CoreInit DEF SlaveInv, NoSilentLoss, RxInit
<1>2. SlaveInv /\ [RxNext]_rxVars => SlaveInv'
  <2> SUFFICES ASSUME SlaveInv, [RxNext]_rxVars
               PROVE  SlaveInv'
    OBVIOUS
  <2>1. CoreInv /\ CoreInv'
    BY CoreStep DEF SlaveInv
  <2>2. LinkStep
    BY <2>1, EveryStepIsLinkStep
  <2> QED
    BY <2>1, <2>2, LossStep
<1> QED
  BY <1>1, <1>2, PTL DEF RxSpec

\* RxTypeOK: every variable keeps its type.
THEOREM SlaveTyping == RxSpec => []RxTypeOK
<1>1. SlaveInv => RxTypeOK
  <2> SUFFICES ASSUME SlaveInv PROVE RxTypeOK
    OBVIOUS
  <2>1. head \in Slots /\ tail \in Slots /\ (size > 0 => {head, tail} \subseteq 0 .. size - 1)
    BY SizeIs DEF SlaveInv, CoreInv, SlaveTypes, StageInv
  <2>2. reader.at \in {"idle", "report", "sample", "copy", "poll"}
    BY ReaderIs DEF SlaveInv, CoreInv
  <2> QED
    BY <2>1, <2>2 DEF SlaveInv, CoreInv, SlaveTypes, RxTypeOK, Byte
<1> QED
  BY <1>1, SlaveInvariance, PTL

\* NoSilentLoss on every port but the F4, whose status register cannot be cleared without
\* taking a byte along (stm32/platform.c:699-705): a byte that arrived after buffering began
\* and will never be read has been reported, or a flag stands that will have it reported.
THEOREM RecordedUnlessF4 == RxSpec => [](port # "f4" => NoSilentLoss)
<1>1. SlaveInv => (port # "f4" => NoSilentLoss)
  BY DEF SlaveInv
<1> QED
  BY <1>1, SlaveInvariance, PTL

\* So NoSilentLoss holds of every build for the RP2 and the H7.
THEOREM LossIsRecorded ==
  ASSUME "f4" \notin Ports
  PROVE  RxSpec => []NoSilentLoss
<1>1. SlaveInv => NoSilentLoss
  BY DEF SlaveInv, CoreInv, SlaveTypes
<1> QED
  BY <1>1, SlaveInvariance, PTL

-----------------------------------------------------------------------------
(* The receiving role implements LossyLink. *)

\* The smaller of two.
LEMMA MinIs ==
  ASSUME NEW a \in Nat, NEW b \in Nat
  PROVE  Min({a, b}) \in Nat /\ Min({a, b}) <= a /\ Min({a, b}) <= b
<1>1. \E x \in {a, b} : \A y \in {a, b} : x <= y
  OBVIOUS
<1>2. Min({a, b}) \in {a, b} /\ \A y \in {a, b} : Min({a, b}) <= y
  BY <1>1 DEF Min
<1> QED
  BY <1>2

\* The backlog the link holds: LossyLink's room, as LightSpiSlave refines it.
Room == IF mode # "ring" THEN Depth[port] ELSE Min({Depth[port], size - 1})

LEMMA RoomIs ==
  ASSUME CoreInv
  PROVE  /\ Room \in Nat
         /\ mode = "ring" => Room <= Depth[port] /\ Room <= size - 1
<1>1. Depth[port] \in Nat /\ (mode = "ring" => size - 1 \in Nat)
  BY SizeIs DEF CoreInv, SlaveTypes, StageInv
<1> QED
  BY <1>1, MinIs DEF Room

RoomTyped == Room \in Nat

LEMMA RoomNext == CoreInv' => Room' \in Nat
<1>1. CoreInv => RoomTyped
  BY RoomIs DEF RoomTyped
<1>2. CoreInv' => RoomTyped'
  BY <1>1, PTL
<1> QED
  BY <1>2 DEF RoomTyped

\* The start is the link's ...
LEMMA LinkInit == RxInit => Link!Init
<1> SUFFICES ASSUME RxInit PROVE Link!Init
  OBVIOUS
<1>1. CoreInv /\ mode = "closed" /\ sent = 0 /\ delivered = << >> /\ rxFifo = << >> /\ reader = NoRead
  BY CoreInit DEF RxInit
<1>2. Waiting = << >>
  BY <1>1 DEF Waiting, NoRead
<1>3. Room \in Nat
  BY <1>1, RoomIs
<1> QED
  BY <1>1, <1>2, <1>3 DEF Link!Init, Room

\* ... and each class is a step of it, or none.
LEMMA LinkStepIs ==
  ASSUME CoreInv, CoreInv', LinkStep
  PROVE  [Link!Next]_Link!linkVars
<1> USE DEF Room
<1>1. SameLink => Room' = Room /\ (mode' = "ring") = (mode = "ring")
  BY DEF SameLink
<1>2. Full => Link!MayLose
  <2>1. Len(Waiting) = Len(Kept) + Len(rxFifo)
    BY WaitingIs, ConcatProperties
  <2>2. Len(Kept) \in Nat /\ Len(rxFifo) \in Nat
    BY WaitingIs, LenProperties
  <2>3. Room \in Nat /\ (mode = "ring" => Room <= Depth[port] /\ Room <= size - 1)
    BY RoomIs
  <2>4. Depth[port] \in Nat /\ size \in Nat
    BY SizeIs DEF CoreInv, SlaveTypes
  <2> HIDE DEF Room
  <2>5. Full => (mode = "ring" => Len(Waiting) >= Room)
    BY <2>1, <2>2, <2>3, <2>4 DEF Full
  <2> QED
    BY <2>5 DEF Link!MayLose, Room
<1>3. CASE Unseen
  BY <1>1, <1>3 DEF Unseen, Steady, Link!linkVars
<1>4. CASE Begun
  BY <1>4, RoomNext DEF Begun, Steady, Link!Next, Link!StartBuffering
<1>5. CASE InOrder
  BY <1>1, <1>5 DEF InOrder, Arrived, Link!Next, Link!Receive
<1>6. CASE Overrun
  BY <1>1, <1>2, <1>6 DEF Overrun, LostNew, Link!Next, Link!LoseArriving
<1>7. CASE Discarded
  <2>1. /\ Len(Kept) + 1 \in DOMAIN Waiting
        /\ Waiting' = RemoveAt(Waiting, Len(Kept) + 1)
    BY <1>7, WaitingIs, Dropped DEF Discarded, LostOld
  <2>2. Link!MayLose
    BY <1>2, <1>7 DEF Discarded, Link!MayLose
  <2>3. \E i \in DOMAIN Waiting : Waiting' = RemoveAt(Waiting, i)
    BY <2>1
  <2>4. UNCHANGED <<sent, delivered>> /\ Room' = Room /\ (mode' = "ring") = (mode = "ring")
    BY <1>1, <1>7 DEF Discarded, LostOld
  <2>5. \E i \in DOMAIN Waiting : Waiting' = Link!RemoveAt(Waiting, i)
    BY <2>3 DEF RemoveAt, Link!RemoveAt
  <2>6. Link!LoseWaiting
    BY <2>2, <2>4, <2>5 DEF Link!LoseWaiting
  <2> QED
    BY <2>6 DEF Link!Next
<1>8. CASE Given
  <2>1. PICK x, rest : Handed(x, rest)
    BY <1>8 DEF Given
  <2>2. CASE x = << >>
    <3>1. Waiting' = Waiting /\ delivered' = delivered
      BY <2>1, <2>2, WaitingIs, ConcatEmptySeq DEF Handed
    <3> QED
      BY <1>1, <1>8, <2>1, <3>1 DEF Given, Handed, Link!linkVars
  <2>3. CASE x # << >>
    <3>1. /\ Len(x) \in DOMAIN Waiting
          /\ x = SubSeq(Waiting, 1, Len(x))
          /\ rest = SubSeq(Waiting, Len(x) + 1, Len(Waiting))
      BY <2>1, <2>3, Parted DEF Handed
    <3> QED
      BY <1>1, <1>8, <2>1, <3>1 DEF Given, Handed, Link!Next, Link!Deliver
  <2> QED
    BY <2>2, <2>3
<1> QED
  BY <1>3, <1>4, <1>5, <1>6, <1>7, <1>8 DEF LinkStep

\* Ring, FIFO, interrupt and reader implement LossyLink, on all ports: bytes are handed over in
\* the order they came, each once, and one is lost only when min(FIFO depth, ring capacity)
\* bytes wait, or while no buffer is installed.
THEOREM Implementation == RxSpec => ImplementsLossyLink
<1>1. RxInit => Link!Init
  BY LinkInit
<1>2. SlaveInv /\ SlaveInv' /\ [RxNext]_rxVars => [Link!Next]_Link!linkVars
  <2> SUFFICES ASSUME SlaveInv, SlaveInv', [RxNext]_rxVars
               PROVE  [Link!Next]_Link!linkVars
    OBVIOUS
  <2>1. CoreInv /\ CoreInv'
    BY DEF SlaveInv
  <2>2. LinkStep
    BY <2>1, EveryStepIsLinkStep
  <2> QED
    BY <2>1, <2>2, LinkStepIs
<1> QED
  BY <1>1, <1>2, SlaveInvariance, PTL DEF RxSpec, ImplementsLossyLink, LinkSpec, Link!Spec

==============================================================================
