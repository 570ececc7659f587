---------------------------- MODULE FramingProofs -----------------------------
(***************************************************************************)
(* What the deframer and the read loop around it keep for every frame      *)
(* size, budget and cap, whatever stream comes in whatever pieces.         *)
(***************************************************************************)
EXTENDS Framing, Integers, SequenceTheorems, FiniteSetTheorems, TLAPS

LEMMA FramingConstants ==
  /\ MaxFrame \in Nat /\ MaxFrame > 0 /\ MinBody \in Nat /\ MinBody > 0
  /\ Budget \in Nat /\ HardCap \in Nat /\ HardCap > 0
  /\ MaxBurst \in Nat /\ MaxBurst > 0 /\ MaxStream \in Nat
BY FramingAssumption

Entry == [at : Nat, body : Seq(Bytes)]

LEMMA EntryTypes ==
  ASSUME NEW o \in Seq(Entry)
  PROVE  /\ Len(o) \in Nat /\ DOMAIN o = 1 .. Len(o)
         /\ \A k \in DOMAIN o : o[k] \in Entry /\ o[k].at \in Nat
<1>1. Len(o) \in Nat /\ DOMAIN o = 1 .. Len(o) /\ \A k \in DOMAIN o : o[k] \in Entry
  OBVIOUS
<1>2. \A e \in Entry : e.at \in Nat
  BY DEF Entry
<1> QED BY <1>1, <1>2

-------------------------------------------------------------------------------
\* Flags and bodies of a stream, of its suffixes and of its continuations.

LEMMA FlagPlaces ==
  ASSUME NEW s \in Seq(Bytes)
  PROVE  /\ Len(s) \in Nat /\ FlagsIn(s) \subseteq 1 .. Len(s)
         /\ FlagsIn(s) = {i \in 1 .. Len(s) : s[i] = Flag}
BY DEF FlagsIn

LEMMA FromProperties ==
  ASSUME NEW s \in Seq(Bytes), NEW i \in 1 .. Len(s) + 1
  PROVE  /\ From(s, i) \in Seq(Bytes) /\ Len(From(s, i)) = Len(s) - i + 1
         /\ \A k \in 1 .. Len(s) - i + 1 : From(s, i)[k] = s[i + k - 1]
<1>1. Len(s) \in Nat /\ Len(s) \in i - 1 .. Len(s)
  OBVIOUS
<1>2. /\ SubSeq(s, i, Len(s)) \in Seq(Bytes) /\ Len(SubSeq(s, i, Len(s))) = Len(s) - i + 1
      /\ \A k \in 1 .. Len(s) - i + 1 : SubSeq(s, i, Len(s))[k] = s[i + k - 1]
  BY <1>1, SubSeqProperties
<1> QED BY <1>2 DEF From

LEMMA BodyProperties ==
  ASSUME NEW s \in Seq(Bytes), NEW i \in 1 .. Len(s), NEW j \in 1 .. Len(s), i < j
  PROVE  /\ BodyOf(s, i, j) \in Seq(Bytes) /\ Len(BodyOf(s, i, j)) = j - i - 1
         /\ \A k \in 1 .. j - i - 1 : BodyOf(s, i, j)[k] = s[i + k]
<1>1. i + 1 \in 1 .. Len(s) + 1 /\ j - 1 \in (i + 1) - 1 .. Len(s)
  OBVIOUS
<1>2. /\ SubSeq(s, i + 1, j - 1) \in Seq(Bytes)
      /\ Len(SubSeq(s, i + 1, j - 1)) = (j - 1) - (i + 1) + 1
      /\ \A k \in 1 .. (j - 1) - (i + 1) + 1 : SubSeq(s, i + 1, j - 1)[k] = s[(i + 1) + k - 1]
  BY <1>1, SubSeqProperties
<1>3. (j - 1) - (i + 1) + 1 = j - i - 1
  OBVIOUS
<1>4. ASSUME NEW k \in 1 .. j - i - 1 PROVE SubSeq(s, i + 1, j - 1)[k] = s[i + k]
  <2>1. k \in 1 .. (j - 1) - (i + 1) + 1
    BY <1>3
  <2>2. (i + 1) + k - 1 = i + k
    OBVIOUS
  <2> QED BY <2>1, <2>2, <1>2
<1> QED BY <1>2, <1>3, <1>4 DEF BodyOf

\* The same bytes at both places are the same body.
SameBytes(s, i, j, t, m) == \A k \in 1 .. j - i - 1 : s[i + k] = t[m + k]

LEMMA SameBody ==
  ASSUME NEW s \in Seq(Bytes), NEW i \in 1 .. Len(s), NEW j \in 1 .. Len(s), i < j,
         NEW t \in Seq(Bytes), NEW m \in 1 .. Len(t), NEW n \in 1 .. Len(t), n - m = j - i,
         SameBytes(s, i, j, t, m)
  PROVE  BodyOf(s, i, j) = BodyOf(t, m, n)
<1>1. /\ BodyOf(s, i, j) \in Seq(Bytes) /\ Len(BodyOf(s, i, j)) = j - i - 1
      /\ \A k \in 1 .. j - i - 1 : BodyOf(s, i, j)[k] = s[i + k]
  BY BodyProperties
<1>2. m < n /\ n - m - 1 = j - i - 1
  OBVIOUS
<1>3. /\ BodyOf(t, m, n) \in Seq(Bytes) /\ Len(BodyOf(t, m, n)) = n - m - 1
      /\ \A k \in 1 .. n - m - 1 : BodyOf(t, m, n)[k] = t[m + k]
  BY <1>2, BodyProperties
<1>4. Len(BodyOf(s, i, j)) = Len(BodyOf(t, m, n))
  BY <1>1, <1>2, <1>3
<1>5. \A k \in 1 .. Len(BodyOf(s, i, j)) : BodyOf(s, i, j)[k] = BodyOf(t, m, n)[k]
  BY <1>1, <1>2, <1>3 DEF SameBytes
<1> QED BY <1>1, <1>3, <1>4, <1>5, SeqEqual

\* b is the end of s.
Suffix(b, s) ==
  Len(b) <= Len(s) /\ \A k \in 1 .. Len(b) : b[k] = s[Len(s) - Len(b) + k]

LEMMA SuffixFlags ==
  ASSUME NEW s \in Seq(Bytes), NEW b \in Seq(Bytes), Suffix(b, s)
  PROVE  /\ \A k \in FlagsIn(b) : Len(s) - Len(b) + k \in FlagsIn(s)
         /\ \A k \in FlagsIn(s) : k <= Len(s) - Len(b) \/ k - (Len(s) - Len(b)) \in FlagsIn(b)
<1> USE FlagPlaces DEF Suffix
<1>1. ASSUME NEW k \in FlagsIn(b) PROVE Len(s) - Len(b) + k \in FlagsIn(s)
  BY <1>1
<1>2. ASSUME NEW k \in FlagsIn(s), ~(k <= Len(s) - Len(b))
      PROVE  k - (Len(s) - Len(b)) \in FlagsIn(b)
  <2> DEFINE l == k - (Len(s) - Len(b))
  <2>1. l \in 1 .. Len(b) /\ Len(s) - Len(b) + l = k
    BY <1>2
  <2>2. b[l] = s[k]
    BY <2>1
  <2> QED BY <1>2, <2>1, <2>2
<1> QED BY <1>1, <1>2

LEMMA SuffixFrom ==
  ASSUME NEW s \in Seq(Bytes), NEW b \in Seq(Bytes), Suffix(b, s), NEW i \in 1 .. Len(b) + 1
  PROVE  /\ From(b, i) \in Seq(Bytes) /\ Suffix(From(b, i), s)
         /\ Len(From(b, i)) = Len(b) - i + 1
         /\ Len(s) - Len(From(b, i)) = Len(s) - Len(b) + i - 1
<1>1. /\ From(b, i) \in Seq(Bytes) /\ Len(From(b, i)) = Len(b) - i + 1
      /\ \A k \in 1 .. Len(b) - i + 1 : From(b, i)[k] = b[i + k - 1]
  BY FromProperties
<1>2. Len(s) \in Nat /\ Len(b) \in Nat /\ Len(b) <= Len(s)
  BY DEF Suffix
<1>3. Len(s) - Len(From(b, i)) = Len(s) - Len(b) + i - 1
  BY <1>1, <1>2
<1>4. ASSUME NEW k \in 1 .. Len(b) - i + 1
      PROVE  From(b, i)[k] = s[Len(s) - Len(b) + i - 1 + k]
  <2>1. i + k - 1 \in 1 .. Len(b)
          /\ Len(s) - Len(b) + (i + k - 1) = Len(s) - Len(b) + i - 1 + k
    BY <1>2
  <2>2. b[i + k - 1] = s[Len(s) - Len(b) + (i + k - 1)]
    BY <2>1 DEF Suffix
  <2> QED BY <1>1, <2>1, <2>2
<1>5. Len(From(b, i)) <= Len(s)
  BY <1>1, <1>2
<1> QED BY <1>1, <1>3, <1>4, <1>5 DEF Suffix

LEMMA SuffixConcat ==
  ASSUME NEW s \in Seq(Bytes), NEW b \in Seq(Bytes), Suffix(b, s), NEW d \in Seq(Bytes)
  PROVE  /\ Suffix(b \o d, s \o d) /\ b \o d \in Seq(Bytes) /\ s \o d \in Seq(Bytes)
         /\ Len(b \o d) = Len(b) + Len(d) /\ Len(s \o d) = Len(s) + Len(d)
         /\ Len(s \o d) - Len(b \o d) = Len(s) - Len(b)
<1>1. Len(s) \in Nat /\ Len(b) \in Nat /\ Len(b) <= Len(s) /\ Len(d) \in Nat
  BY DEF Suffix
<1>2. /\ b \o d \in Seq(Bytes) /\ Len(b \o d) = Len(b) + Len(d)
      /\ \A k \in 1 .. Len(b) + Len(d) : (b \o d)[k] = IF k <= Len(b) THEN b[k] ELSE d[k - Len(b)]
  BY ConcatProperties
<1>3. /\ s \o d \in Seq(Bytes) /\ Len(s \o d) = Len(s) + Len(d)
      /\ \A k \in 1 .. Len(s) + Len(d) : (s \o d)[k] = IF k <= Len(s) THEN s[k] ELSE d[k - Len(s)]
  BY ConcatProperties
<1>4. Len(s \o d) - Len(b \o d) = Len(s) - Len(b)
  BY <1>1, <1>2, <1>3
<1>5. ASSUME NEW k \in 1 .. Len(b) + Len(d)
      PROVE  (b \o d)[k] = (s \o d)[Len(s) - Len(b) + k]
  <2> DEFINE n == Len(s) - Len(b) + k
  <2>1. n \in 1 .. Len(s) + Len(d) /\ (n <= Len(s) <=> k <= Len(b)) /\ n - Len(s) = k - Len(b)
    BY <1>1
  <2>2. CASE k <= Len(b)
    <3>1. b[k] = s[n]
      BY <2>2, <1>1 DEF Suffix
    <3> QED BY <3>1, <2>1, <2>2, <1>2, <1>3
  <2>3. CASE ~(k <= Len(b))
    BY <2>1, <2>3, <1>2, <1>3
  <2> QED BY <2>2, <2>3
<1>6. Len(b \o d) <= Len(s \o d)
  BY <1>1, <1>2, <1>3
<1> QED BY <1>2, <1>3, <1>4, <1>5, <1>6 DEF Suffix

\* The first frame of what is left of a stream is a frame of the stream.
LEMMA SuffixFrame ==
  ASSUME NEW s \in Seq(Bytes), NEW b \in Seq(Bytes), Suffix(b, s),
         NEW i \in FlagsIn(b), NEW j \in FlagsIn(b),
         Consecutive(b, i, j), IsFirst(b, i)
  PROVE  LET m == Len(s) - Len(b) IN
           /\ Consecutive(s, m + i, m + j)
           /\ BodyOf(b, i, j) = BodyOf(s, m + i, m + j)
           /\ \A k \in FlagsIn(s) : k <= m \/ m + i <= k
<1> DEFINE m == Len(s) - Len(b)
<1>1. Len(s) \in Nat /\ Len(b) \in Nat /\ m \in Nat /\ m + Len(b) = Len(s)
  BY DEF Suffix
<1>2. i \in 1 .. Len(b) /\ j \in 1 .. Len(b) /\ i < j
  BY FlagPlaces DEF Consecutive
<1>3. m + i \in FlagsIn(s) /\ m + j \in FlagsIn(s)
  BY SuffixFlags
<1>4. m + i \in 1 .. Len(s) /\ m + j \in 1 .. Len(s) /\ m + i < m + j
      /\ (m + j) - (m + i) = j - i
  BY <1>1, <1>2
<1>5. \A k \in 1 .. j - i - 1 : b[i + k] = s[(m + i) + k]
  <2> SUFFICES ASSUME NEW k \in 1 .. j - i - 1 PROVE b[i + k] = s[(m + i) + k]
    OBVIOUS
  <2>1. i + k \in 1 .. Len(b) /\ m + (i + k) = (m + i) + k
    BY <1>1, <1>2
  <2> QED BY <2>1 DEF Suffix
<1>6. BodyOf(b, i, j) = BodyOf(s, m + i, m + j)
  <2> DEFINE p == m + i  q == m + j
  <2>1. /\ p \in 1 .. Len(s) /\ q \in 1 .. Len(s) /\ q - p = j - i
        /\ SameBytes(b, i, j, s, p)
    BY <1>4, <1>5 DEF SameBytes
  <2> HIDE DEF p, q
  <2>2. BodyOf(b, i, j) = BodyOf(s, p, q)
    BY <1>2, <2>1, SameBody
  <2> QED BY <2>2 DEF p, q
<1>7. ASSUME NEW k \in FlagsIn(s), ~(k <= m)
      PROVE  m + i <= k /\ (k <= m + i \/ m + j <= k)
  <2>1. k - m \in FlagsIn(b)
    BY <1>7, SuffixFlags
  <2>2. i <= k - m /\ (k - m <= i \/ j <= k - m)
    BY <2>1 DEF Consecutive, IsFirst
  <2>3. k \in Nat
    BY FlagPlaces
  <2> QED BY <2>2, <2>3, <1>1, <1>2
<1>8. ASSUME NEW k \in FlagsIn(s), k <= m PROVE k <= m + i
  <2>1. k \in Nat
    BY FlagPlaces
  <2> QED BY <2>1, <1>8, <1>1, <1>2
<1>9. Consecutive(s, m + i, m + j)
  BY <1>3, <1>4, <1>7, <1>8 DEF Consecutive
<1> QED BY <1>6, <1>7, <1>9

LEMMA LongerFlags ==
  ASSUME NEW s \in Seq(Bytes), NEW d \in Seq(Bytes)
  PROVE  /\ s \o d \in Seq(Bytes) /\ Len(s \o d) = Len(s) + Len(d)
         /\ FlagsIn(s) \subseteq FlagsIn(s \o d)
         /\ \A k \in FlagsIn(s \o d) : k \in FlagsIn(s) \/ k > Len(s)
<1>1. Len(s) \in Nat /\ Len(d) \in Nat
  OBVIOUS
<1>2. /\ s \o d \in Seq(Bytes) /\ Len(s \o d) = Len(s) + Len(d)
      /\ \A k \in 1 .. Len(s) + Len(d) : (s \o d)[k] = IF k <= Len(s) THEN s[k] ELSE d[k - Len(s)]
  BY ConcatProperties
<1>3. ASSUME NEW k \in FlagsIn(s) PROVE k \in FlagsIn(s \o d)
  <2>1. k \in 1 .. Len(s) /\ s[k] = Flag
    BY FlagPlaces
  <2>2. k \in 1 .. Len(s \o d) /\ (s \o d)[k] = Flag
    BY <2>1, <1>1, <1>2
  <2> QED BY <2>2, <1>2, FlagPlaces
<1>4. ASSUME NEW k \in FlagsIn(s \o d), ~(k > Len(s)) PROVE k \in FlagsIn(s)
  <2>1. k \in 1 .. Len(s \o d) /\ (s \o d)[k] = Flag
    BY <1>2, FlagPlaces
  <2>2. k \in 1 .. Len(s) /\ s[k] = Flag
    BY <2>1, <1>1, <1>2, <1>4
  <2> QED BY <2>2, FlagPlaces
<1> QED BY <1>2, <1>3, <1>4

\* What comes later changes no frame that is complete.
LEMMA LongerFrames ==
  ASSUME NEW s \in Seq(Bytes), NEW d \in Seq(Bytes), NEW i \in FlagsIn(s), NEW j \in FlagsIn(s)
  PROVE  /\ GoodAt(s \o d, i, j) <=> GoodAt(s, i, j)
         /\ BadAt(s \o d, i, j) <=> BadAt(s, i, j)
         /\ GoodAt(s, i, j) => BodyOf(s \o d, i, j) = BodyOf(s, i, j)
<1> DEFINE t == s \o d
<1>1. /\ t \in Seq(Bytes) /\ Len(t) = Len(s) + Len(d) /\ Len(s) \in Nat /\ Len(d) \in Nat
      /\ FlagsIn(s) \subseteq FlagsIn(t)
      /\ \A k \in FlagsIn(t) : k \in FlagsIn(s) \/ k > Len(s)
      /\ \A k \in 1 .. Len(s) : t[k] = s[k]
  BY LongerFlags, ConcatProperties
<1>2. i \in 1 .. Len(s) /\ j \in 1 .. Len(s) /\ i \in 1 .. Len(t) /\ j \in 1 .. Len(t)
  BY <1>1, FlagPlaces
<1> HIDE DEF t
<1>3. ASSUME i < j PROVE BodyOf(t, i, j) = BodyOf(s, i, j)
  <2>1. SameBytes(t, i, j, s, i)
    <3> SUFFICES ASSUME NEW k \in 1 .. j - i - 1 PROVE t[i + k] = s[i + k]
      BY DEF SameBytes
    <3>1. i + k \in 1 .. Len(s)
      BY <1>2, <1>3
    <3> QED BY <3>1, <1>1
  <2> QED BY <1>1, <1>2, <1>3, <2>1, SameBody
<1>4. ASSUME NEW k \in FlagsIn(t) PROVE k \in FlagsIn(s) \/ j <= k
  <2>1. k \in Nat
    BY <1>1, FlagPlaces
  <2> QED BY <2>1, <1>1, <1>2
<1>5. Consecutive(t, i, j) <=> Consecutive(s, i, j)
  BY <1>1, <1>4 DEF Consecutive
<1>6. Consecutive(s, i, j) => i < j
  BY DEF Consecutive
<1>7. /\ GoodAt(t, i, j) <=> GoodAt(s, i, j)
      /\ BadAt(t, i, j) <=> BadAt(s, i, j)
      /\ GoodAt(s, i, j) => BodyOf(t, i, j) = BodyOf(s, i, j)
  BY <1>3, <1>5, <1>6 DEF GoodAt, BadAt
<1> QED BY <1>7 DEF t

\* No frame has two ends.
LEMMA OneEnd ==
  ASSUME NEW s \in Seq(Bytes), NEW i \in FlagsIn(s), NEW j \in FlagsIn(s), NEW k \in FlagsIn(s),
         Consecutive(s, i, j), Consecutive(s, i, k)
  PROVE  j = k
<1>1. i \in Nat /\ j \in Nat /\ k \in Nat
  BY FlagPlaces
<1> QED BY <1>1 DEF Consecutive

-------------------------------------------------------------------------------
\* The history of the stream s up to its byte m, from which on the deframer
\* still has it: every frame that began there was dealt with.

\* What was returned was a frame that begins up to there, in order.
Returned(s, m, o) ==
  /\ \A k \in DOMAIN o :
       /\ o[k].at <= m
       /\ \E i, j \in FlagsIn(s) : GoodAt(s, i, j) /\ o[k] = [at |-> i, body |-> BodyOf(s, i, j)]
  /\ \A k, l \in DOMAIN o : k < l => o[k].at < o[l].at

\* Every frame that begins up to there and fits was returned.
Complete(s, m, o) ==
  \A i, j \in FlagsIn(s) :
    GoodAt(s, i, j) /\ j - i <= MaxFrame /\ i <= m => \E k \in DOMAIN o : o[k].at = i

\* Every bad one was counted, if nothing was dropped.
BadUpTo(s, m) == {i \in BadIn(s) : i <= m}
Counted(s, m, errors, over) == over = 0 => errors = Cardinality(BadUpTo(s, m))

\* A flag there was followed by another one, or was dropped with a full buffer.
Passed(s, m, over) ==
  \A l \in FlagsIn(s) : l <= m =>
    (\E j \in FlagsIn(s) : j > l) \/ (over > 0 /\ Len(s) - l >= MaxFrame)

History(s, m, o, errors, over) ==
  Returned(s, m, o) /\ Complete(s, m, o) /\ Counted(s, m, errors, over) /\ Passed(s, m, over)

\* Reading on leaves the history as it was: no frame that fits straddles the end
\* of what came before.
LEMMA HistoryRead ==
  ASSUME NEW s \in Seq(Bytes), NEW d \in Seq(Bytes), NEW m \in Nat, m <= Len(s),
         NEW o, NEW errors \in Nat, NEW over \in Nat, History(s, m, o, errors, over)
  PROVE  History(s \o d, m, o, errors, over)
<1> DEFINE t == s \o d
<1>1. /\ t \in Seq(Bytes) /\ Len(t) = Len(s) + Len(d) /\ Len(s) \in Nat /\ Len(d) \in Nat
      /\ FlagsIn(s) \subseteq FlagsIn(t) /\ FlagsIn(t) \subseteq Nat
      /\ \A k \in FlagsIn(t) : k \in FlagsIn(s) \/ k > Len(s)
  <2>1. /\ t \in Seq(Bytes) /\ Len(t) = Len(s) + Len(d)
        /\ FlagsIn(s) \subseteq FlagsIn(t)
        /\ \A k \in FlagsIn(t) : k \in FlagsIn(s) \/ k > Len(s)
    BY LongerFlags
  <2>2. Len(s) \in Nat /\ Len(d) \in Nat
    OBVIOUS
  <2> HIDE DEF t
  <2>3. FlagsIn(t) \subseteq Nat
    BY <2>1, FlagPlaces
  <2> QED BY <2>1, <2>2, <2>3
<1>2. ASSUME NEW i \in FlagsIn(s), NEW j \in FlagsIn(s)
      PROVE  /\ GoodAt(t, i, j) <=> GoodAt(s, i, j)
             /\ BadAt(t, i, j) <=> BadAt(s, i, j)
             /\ GoodAt(s, i, j) => BodyOf(t, i, j) = BodyOf(s, i, j)
  BY LongerFrames
<1> HIDE DEF t
<1>3. Returned(s, m, o) /\ Complete(s, m, o) /\ Counted(s, m, errors, over) /\ Passed(s, m, over)
  BY DEF History
<1>4. Returned(t, m, o)
  <2>1. ASSUME NEW k \in DOMAIN o
        PROVE  /\ o[k].at <= m
               /\ \E i, j \in FlagsIn(t) : GoodAt(t, i, j) /\ o[k] = [at |-> i, body |-> BodyOf(t, i, j)]
    <3>1. o[k].at <= m
      BY <1>3 DEF Returned
    <3>2. PICK i \in FlagsIn(s), j \in FlagsIn(s) :
            GoodAt(s, i, j) /\ o[k] = [at |-> i, body |-> BodyOf(s, i, j)]
      BY <1>3 DEF Returned
    <3>3. GoodAt(t, i, j) /\ o[k] = [at |-> i, body |-> BodyOf(t, i, j)]
      BY <3>2, <1>2
    <3>4. i \in FlagsIn(t) /\ j \in FlagsIn(t)
      BY <1>1
    <3> QED BY <3>1, <3>3, <3>4
  <2>2. \A k, l \in DOMAIN o : k < l => o[k].at < o[l].at
    BY <1>3 DEF Returned
  <2> QED BY <2>1, <2>2 DEF Returned
<1>5. Complete(t, m, o)
  <2> SUFFICES ASSUME NEW i \in FlagsIn(t), NEW j \in FlagsIn(t),
                      GoodAt(t, i, j), j - i <= MaxFrame, i <= m
               PROVE  \E k \in DOMAIN o : o[k].at = i
    BY DEF Complete
  <2>1. i \in Nat /\ j \in Nat
    BY <1>1
  <2>2. i \in FlagsIn(s)
    BY <1>1, <2>1
  <2>3. CASE j \in FlagsIn(s)
    BY <2>2, <2>3, <1>2, <1>3 DEF Complete
  <2>4. CASE j > Len(s)
    <3>1. (\E k \in FlagsIn(s) : k > i) \/ Len(s) - i >= MaxFrame
      BY <2>2, <1>3 DEF Passed
    <3>2. ~(Len(s) - i >= MaxFrame)
      BY <2>1, <2>4, <1>1, FramingConstants
    <3>3. PICK k \in FlagsIn(s) : k > i
      BY <3>1, <3>2
    <3>4. k \in 1 .. Len(s)
      BY FlagPlaces
    <3>5. j <= k
      BY <3>3, <3>4, <1>1, <2>1 DEF GoodAt, Consecutive
    <3> QED BY <3>4, <3>5, <2>4, <2>1, <1>1
  <2> QED BY <2>3, <2>4, <1>1
<1>6. Counted(t, m, errors, over)
  <2> SUFFICES ASSUME over = 0 PROVE errors = Cardinality(BadUpTo(t, m))
    BY DEF Counted
  <2>1. ASSUME NEW i \in FlagsIn(t), NEW j \in FlagsIn(t), BadAt(t, i, j), i <= m
        PROVE  i \in BadUpTo(s, m)
    <3>1. i \in Nat /\ j \in Nat
      BY <1>1
    <3>2. i \in FlagsIn(s)
      BY <1>1, <2>1, <3>1
    <3>3. PICK k \in FlagsIn(s) : k > i
      BY <3>2, <2>1, <1>3 DEF Passed
    <3>4. k \in 1 .. Len(s)
      BY FlagPlaces
    <3>5. j <= k
      BY <3>1, <3>3, <3>4, <1>1, <2>1 DEF BadAt, Consecutive
    <3>6. j \in FlagsIn(s)
      BY <3>1, <3>4, <3>5, <1>1
    <3>7. BadAt(s, i, j)
      BY <3>2, <3>6, <1>2, <2>1
    <3> QED BY <3>2, <3>6, <3>7, <2>1 DEF BadUpTo, BadIn
  <2>2. BadUpTo(t, m) \subseteq BadUpTo(s, m)
    BY <2>1 DEF BadUpTo, BadIn
  <2>3. BadUpTo(s, m) \subseteq BadUpTo(t, m)
    BY <1>1, <1>2 DEF BadUpTo, BadIn
  <2>4. BadUpTo(t, m) = BadUpTo(s, m)
    BY <2>2, <2>3
  <2> QED BY <2>4, <1>3 DEF Counted
<1>7. Passed(t, m, over)
  <2> SUFFICES ASSUME NEW l \in FlagsIn(t), l <= m
               PROVE  (\E j \in FlagsIn(t) : j > l) \/ (over > 0 /\ Len(t) - l >= MaxFrame)
    BY DEF Passed
  <2>1. l \in Nat /\ l \in FlagsIn(s)
    BY <1>1
  <2>2. (\E j \in FlagsIn(s) : j > l) \/ (over > 0 /\ Len(s) - l >= MaxFrame)
    BY <2>1, <1>3 DEF Passed
  <2>3. Len(s) - l >= MaxFrame => Len(t) - l >= MaxFrame
    BY <2>1, <1>1, FramingConstants
  <2> QED BY <2>2, <2>3, <1>1
<1>8. History(t, m, o, errors, over)
  BY <1>4, <1>5, <1>6, <1>7 DEF History
<1> QED BY <1>8 DEF t

\* Where no flag stands nothing is decided, and bytes may be dropped.
LEMMA HistorySkip ==
  ASSUME NEW s \in Seq(Bytes), NEW m \in Nat, NEW n \in Nat, m <= n,
         \A k \in FlagsIn(s) : k <= m \/ n < k,
         NEW o \in Seq(Entry), NEW errors \in Nat, NEW over \in Nat, NEW more \in {over, over + 1},
         History(s, m, o, errors, over)
  PROVE  History(s, n, o, errors, more)
<1>1. FlagsIn(s) \subseteq Nat /\ more \in Nat /\ (more = 0 => over = 0) /\ (over > 0 => more > 0)
  BY FlagPlaces
<1>2. \A k \in FlagsIn(s) : k <= m <=> k <= n
  BY <1>1
<1>3. \A k \in DOMAIN o : o[k].at \in Nat
  BY EntryTypes
<1>4. Returned(s, n, o)
  <2>1. \A k \in DOMAIN o : o[k].at <= m => o[k].at <= n
    BY <1>3
  <2> QED BY <2>1 DEF History, Returned
<1>5. Complete(s, n, o)
  BY <1>2 DEF History, Complete
<1>6. BadUpTo(s, n) = BadUpTo(s, m)
  BY <1>2 DEF BadUpTo, BadIn
<1>7. Counted(s, n, errors, more)
  BY <1>1, <1>6 DEF History, Counted
<1>8. Passed(s, n, more)
  BY <1>1, <1>2 DEF History, Passed
<1> QED BY <1>4, <1>5, <1>7, <1>8 DEF History

\* The last flag of the stream may go with a full buffer.
LEMMA HistoryDrop ==
  ASSUME NEW s \in Seq(Bytes), NEW m \in Nat, NEW l \in FlagsIn(s), m <= l,
         \A k \in FlagsIn(s) : k <= m \/ k = l, Len(s) - l >= MaxFrame,
         NEW o \in Seq(Entry), NEW errors \in Nat, NEW over \in Nat,
         History(s, m, o, errors, over)
  PROVE  History(s, l, o, errors, over + 1)
<1>1. FlagsIn(s) \subseteq Nat /\ over + 1 > 0 /\ over + 1 # 0
  BY FlagPlaces
<1>2. \A k \in DOMAIN o : o[k].at \in Nat
  BY EntryTypes
<1>3. Returned(s, l, o)
  <2>1. \A k \in DOMAIN o : o[k].at <= m => o[k].at <= l
    BY <1>1, <1>2
  <2> QED BY <2>1 DEF History, Returned
<1>4. Complete(s, l, o)
  <2> SUFFICES ASSUME NEW i \in FlagsIn(s), NEW j \in FlagsIn(s),
                      GoodAt(s, i, j), j - i <= MaxFrame, i <= l
               PROVE  \E k \in DOMAIN o : o[k].at = i
    BY DEF Complete
  <2>1. i < j
    BY DEF GoodAt, Consecutive
  <2>2. j <= m \/ j = l
    OBVIOUS
  <2>3. i <= m
    BY <2>1, <2>2, <1>1
  <2> QED BY <2>3 DEF History, Complete
<1>5. Counted(s, l, errors, over + 1)
  BY <1>1 DEF Counted
<1>6. Passed(s, l, over + 1)
  <2> SUFFICES ASSUME NEW k \in FlagsIn(s), k <= l
               PROVE  (\E j \in FlagsIn(s) : j > k) \/ (over + 1 > 0 /\ Len(s) - k >= MaxFrame)
    BY DEF Passed
  <2>1. CASE k = l
    BY <2>1, <1>1
  <2>2. CASE k # l
    BY <2>2, <1>1
  <2> QED BY <2>1, <2>2
<1> QED BY <1>3, <1>4, <1>5, <1>6 DEF History

\* The frames counted as bad are finitely many.
LEMMA BadFinite ==
  ASSUME NEW s \in Seq(Bytes), NEW m
  PROVE  IsFiniteSet(BadUpTo(s, m)) /\ Cardinality(BadUpTo(s, m)) \in Nat
<1>1. Len(s) \in Nat /\ BadUpTo(s, m) \subseteq 1 .. Len(s)
  BY FlagPlaces DEF BadUpTo, BadIn
<1>2. IsFiniteSet(1 .. Len(s))
  BY <1>1, FS_Interval
<1>3. IsFiniteSet(BadUpTo(s, m))
  BY <1>1, <1>2, FS_Subset
<1> QED BY <1>3, FS_CardinalityType

\* The next frame of the stream is returned, counted or ignored.
LEMMA HistoryFrame ==
  ASSUME NEW s \in Seq(Bytes), NEW m \in Nat,
         NEW i \in FlagsIn(s), NEW j \in FlagsIn(s), Consecutive(s, i, j), m < i,
         \A k \in FlagsIn(s) : k <= m \/ i <= k,
         NEW o \in Seq(Entry), NEW errors \in Nat, NEW over \in Nat,
         History(s, m, o, errors, over)
  PROVE  History(s, j - 1,
                 IF GoodAt(s, i, j) THEN Append(o, [at |-> i, body |-> BodyOf(s, i, j)]) ELSE o,
                 IF BadAt(s, i, j) THEN errors + 1 ELSE errors, over)
<1> DEFINE e == [at |-> i, body |-> BodyOf(s, i, j)]
           p == IF GoodAt(s, i, j) THEN Append(o, e) ELSE o
           errs == IF BadAt(s, i, j) THEN errors + 1 ELSE errors
<1>1. /\ FlagsIn(s) \subseteq Nat /\ i < j /\ m <= j - 1 /\ j - 1 \in Nat
      /\ i \in 1 .. Len(s) /\ j \in 1 .. Len(s)
  BY FlagPlaces DEF Consecutive
<1>2. \A k \in FlagsIn(s) : k <= j - 1 <=> k <= m \/ k = i
  <2>1. \A k \in FlagsIn(s) : k <= i \/ j <= k
    BY DEF Consecutive
  <2> QED BY <2>1, <1>1
<1>3. e \in Entry
  BY <1>1, BodyProperties DEF Entry
<1>4. /\ DOMAIN o = 1 .. Len(o) /\ Len(o) \in Nat
      /\ \A k \in DOMAIN o : o[k].at \in Nat /\ o[k].at <= m
  BY EntryTypes DEF History, Returned
<1>5. e.at = i
  OBVIOUS
<1> HIDE DEF e
<1>6. /\ DOMAIN Append(o, e) = 1 .. Len(o) + 1 /\ Append(o, e)[Len(o) + 1] = e
      /\ \A k \in 1 .. Len(o) : Append(o, e)[k] = o[k]
  BY <1>3
<1>7. Returned(s, j - 1, p)
  <2>1. \A k \in DOMAIN o :
          /\ o[k].at <= j - 1
          /\ \E x, y \in FlagsIn(s) : GoodAt(s, x, y) /\ o[k] = [at |-> x, body |-> BodyOf(s, x, y)]
    BY <1>1, <1>4 DEF History, Returned
  <2>2. \A k, l \in DOMAIN o : k < l => o[k].at < o[l].at
    BY DEF History, Returned
  <2>3. CASE ~GoodAt(s, i, j)
    BY <2>1, <2>2, <2>3 DEF Returned
  <2>4. CASE GoodAt(s, i, j)
    <3>1. e.at <= j - 1
      BY <1>1, <1>5
    <3>2. e = [at |-> i, body |-> BodyOf(s, i, j)]
      BY DEF e
    <3>3. ASSUME NEW k \in DOMAIN Append(o, e)
          PROVE  /\ Append(o, e)[k].at <= j - 1
                 /\ \E x, y \in FlagsIn(s) :
                      GoodAt(s, x, y) /\ Append(o, e)[k] = [at |-> x, body |-> BodyOf(s, x, y)]
      <4>1. CASE k = Len(o) + 1
        BY <4>1, <3>1, <3>2, <1>6, <2>4
      <4>2. CASE k \in 1 .. Len(o)
        BY <4>2, <2>1, <1>4, <1>6
      <4> QED BY <4>1, <4>2, <1>4, <1>6
    <3>4. ASSUME NEW k \in DOMAIN Append(o, e), NEW l \in DOMAIN Append(o, e), k < l
          PROVE  Append(o, e)[k].at < Append(o, e)[l].at
      <4>1. k \in 1 .. Len(o) /\ (l \in 1 .. Len(o) \/ l = Len(o) + 1)
        BY <3>4, <1>4, <1>6
      <4>2. CASE l \in 1 .. Len(o)
        BY <3>4, <4>1, <4>2, <2>2, <1>4, <1>6
      <4>3. CASE l = Len(o) + 1
        <5>1. o[k].at \in Nat /\ o[k].at <= m
          BY <4>1, <1>4
        <5> QED BY <5>1, <4>1, <4>3, <1>1, <1>5, <1>6
      <4> QED BY <4>1, <4>2, <4>3
    <3>5. Returned(s, j - 1, Append(o, e))
      BY <3>3, <3>4 DEF Returned
    <3> QED BY <3>5, <2>4
  <2> QED BY <2>3, <2>4
<1>8. Complete(s, j - 1, p)
  <2> SUFFICES ASSUME NEW x \in FlagsIn(s), NEW y \in FlagsIn(s),
                      GoodAt(s, x, y), y - x <= MaxFrame, x <= j - 1
               PROVE  \E k \in DOMAIN p : p[k].at = x
    BY DEF Complete
  <2>1. CASE x <= m
    <3>1. PICK k \in DOMAIN o : o[k].at = x
      BY <2>1 DEF History, Complete
    <3>2. k \in DOMAIN p /\ p[k] = o[k]
      BY <1>4, <1>6
    <3> QED BY <3>1, <3>2
  <2>2. CASE x = i
    <3>1. y = j
      BY <2>2, OneEnd DEF GoodAt
    <3>2. p = Append(o, e)
      BY <2>2, <3>1
    <3>3. Len(o) + 1 \in DOMAIN Append(o, e) /\ Append(o, e)[Len(o) + 1].at = x
      BY <1>4, <1>5, <1>6, <2>2
    <3> QED BY <3>2, <3>3
  <2> QED BY <2>1, <2>2, <1>2
<1>9. Counted(s, j - 1, errs, over)
  <2> SUFFICES ASSUME over = 0 PROVE errs = Cardinality(BadUpTo(s, j - 1))
    BY DEF Counted
  <2>1. errors = Cardinality(BadUpTo(s, m))
    BY DEF History, Counted
  <2>2. i \in BadIn(s) <=> BadAt(s, i, j)
    <3>1. \A k \in FlagsIn(s) : BadAt(s, i, k) => k = j
      BY OneEnd DEF BadAt
    <3> QED BY <3>1 DEF BadIn
  <2>3. BadIn(s) \subseteq FlagsIn(s)
    BY DEF BadIn
  <2>4. CASE BadAt(s, i, j)
    <3>1. BadUpTo(s, j - 1) = BadUpTo(s, m) \cup {i}
      BY <2>2, <2>3, <2>4, <1>2 DEF BadUpTo
    <3>2. i \notin BadUpTo(s, m)
      BY <1>1 DEF BadUpTo
    <3>3. Cardinality(BadUpTo(s, m) \cup {i}) = Cardinality(BadUpTo(s, m)) + 1
      BY <3>2, BadFinite, FS_AddElement
    <3> QED BY <2>1, <2>4, <3>1, <3>3
  <2>5. CASE ~BadAt(s, i, j)
    <3>1. BadUpTo(s, j - 1) = BadUpTo(s, m)
      BY <2>2, <2>3, <2>5, <1>2 DEF BadUpTo
    <3> QED BY <2>1, <2>5, <3>1
  <2> QED BY <2>4, <2>5
<1>10. Passed(s, j - 1, over)
  <2> SUFFICES ASSUME NEW l \in FlagsIn(s), l <= j - 1
               PROVE  (\E k \in FlagsIn(s) : k > l) \/ (over > 0 /\ Len(s) - l >= MaxFrame)
    BY DEF Passed
  <2>1. CASE l <= m
    BY <2>1 DEF History, Passed
  <2>2. CASE l = i
    BY <2>2, <1>1
  <2> QED BY <2>1, <2>2, <1>2
<1>11. History(s, j - 1, p, errs, over)
  BY <1>7, <1>8, <1>9, <1>10 DEF History
<1> QED BY <1>11 DEF e

-------------------------------------------------------------------------------
\* The inductive invariant.

Types ==
  /\ air \in Seq(Bytes) /\ came \in Seq(Bytes) /\ sent \in Seq(Bytes) /\ buf \in Seq(Bytes)
  /\ out \in Seq(Entry)
  /\ pc \in {"idle", "reading", "feeding"} /\ found \in BOOLEAN
  /\ fcsErrors \in Nat /\ overruns \in Nat /\ elapsed \in 0 .. HardCap
  /\ returned \in {"never", "frames", "cap", "budget"}

\* The transmission under way, and the time the call has left.
Transmission ==
  /\ Len(air) <= MaxBurst
  /\ pc = "reading" => elapsed < HardCap
  /\ came # <<>> => sent # <<>> /\ Last(came) = Last(sent)

\* The buffer is the end of the stream and is never emptied; what feed() leaves
\* is short or has no flag, and has none but an opening one.
Buffered ==
  /\ Suffix(buf, sent) /\ (buf = <<>> => sent = <<>>)
  /\ pc = "feeding" => \A i \in FlagsIn(buf) : Len(buf) - i < MaxFrame + MaxBurst
  /\ pc # "feeding" =>
       /\ FlagsIn(buf) \subseteq {1}
       /\ Len(buf) <= MaxFrame \/ (FlagsIn(buf) = {} /\ Len(buf) < MaxFrame + MaxBurst)

FramingInv ==
  /\ Types /\ Transmission /\ Buffered /\ ListensOn
  /\ History(sent, Len(sent) - Len(buf), out, fcsErrors, overruns)

-------------------------------------------------------------------------------
\* What a turn of _read_frames, or of the loop in feed(), does to it.

LEMMA FromFlags ==
  ASSUME NEW b \in Seq(Bytes), NEW i \in 1 .. Len(b) + 1, NEW k \in FlagsIn(From(b, i))
  PROVE  k \in 1 .. Len(b) - i + 1 /\ i + k - 1 \in FlagsIn(b)
<1>1. /\ From(b, i) \in Seq(Bytes) /\ Len(From(b, i)) = Len(b) - i + 1
      /\ \A l \in 1 .. Len(b) - i + 1 : From(b, i)[l] = b[i + l - 1]
  BY FromProperties
<1>2. k \in 1 .. Len(b) - i + 1 /\ From(b, i)[k] = Flag
  BY <1>1, FlagPlaces
<1>3. i + k - 1 \in 1 .. Len(b) /\ b[i + k - 1] = Flag
  BY <1>1, <1>2
<1> QED BY <1>2, <1>3, FlagPlaces

\* "partial" speaks of the end of the stream.
LEMMA PartialAtRest ==
  ASSUME NEW s \in Seq(Bytes), NEW b \in Seq(Bytes), Suffix(b, s), b = <<>> => s = <<>>,
         FlagsIn(b) \subseteq {1}
  PROVE  Partial(b) <=> s # <<>> /\ Last(s) # Flag
<1>1. /\ Len(s) \in Nat /\ Len(b) \in Nat /\ Len(b) <= Len(s)
      /\ DOMAIN b = 1 .. Len(b)
  BY DEF Suffix
<1>2. CASE Len(b) = 0
  <2>1. b = <<>> /\ s = <<>>
    BY <1>2
  <2> QED BY <2>1, <1>1, <1>2 DEF Partial
<1>3. CASE Len(b) > 0
  <2>1. Len(b) \in 1 .. Len(b) /\ Len(s) - Len(b) + Len(b) = Len(s) /\ s # <<>>
    BY <1>1, <1>3
  <2>2. b[Len(b)] = s[Len(s)]
    BY <2>1 DEF Suffix
  <2>3. Last(s) = b[Len(b)]
    BY <2>2 DEF Last
  <2>4. CASE Len(b) = 1
    BY <2>1, <2>3, <2>4, <1>1 DEF Partial
  <2>5. CASE Len(b) > 1
    <3>1. Len(b) \notin FlagsIn(b)
      BY <2>5
    <3>2. b[Len(b)] # Flag
      BY <3>1, <2>1, <1>1 DEF FlagsIn
    <3> QED BY <3>2, <2>1, <2>3, <1>1 DEF Partial
  <2> QED BY <2>4, <2>5, <1>1, <1>3
<1> QED BY <1>2, <1>3, <1>1

LEMMA LastOfConcat ==
  ASSUME NEW s \in Seq(Bytes), NEW d \in Seq(Bytes), Len(d) > 0
  PROVE  s \o d # <<>> /\ Last(s \o d) = d[Len(d)]
<1>1. Len(s) \in Nat /\ Len(d) \in Nat
  OBVIOUS
<1>2. /\ s \o d \in Seq(Bytes) /\ Len(s \o d) = Len(s) + Len(d)
      /\ \A k \in 1 .. Len(s) + Len(d) : (s \o d)[k] = IF k <= Len(s) THEN s[k] ELSE d[k - Len(s)]
  BY ConcatProperties
<1>3. /\ Len(s) + Len(d) \in 1 .. Len(s) + Len(d) /\ ~(Len(s) + Len(d) <= Len(s))
      /\ Len(s) + Len(d) - Len(s) = Len(d) /\ Len(s) + Len(d) > 0
  BY <1>1
<1>4. (s \o d)[Len(s \o d)] = d[Len(d)]
  BY <1>2, <1>3
<1> QED BY <1>2, <1>3, <1>4 DEF Last

LEMMA DecideTypes ==
  ASSUME Types, NEW b, NEW fresh \in BOOLEAN, NEW time \in Nat, Decide(b, fresh, time)
  PROVE  /\ pc' \in {"idle", "reading"} /\ found' \in BOOLEAN
         /\ returned' \in {"never", "frames", "cap", "budget"}
         /\ pc' = "reading" => time < HardCap
         /\ pc' = "idle" /\ returned' = "budget" /\ fresh => ~Partial(b)
<1>1. /\ Decision(found, b, fresh, time) \in {"frames", "cap", "on", "budget"}
      /\ Decision(found, b, fresh, time) = "on" => time < HardCap
      /\ Decision(found, b, fresh, time) = "budget" /\ fresh => ~Partial(b)
  BY FramingConstants DEF Decision
<1>2. found \in BOOLEAN /\ returned \in {"never", "frames", "cap", "budget"}
  BY DEF Types
<1> HIDE DEF Decision
<1>3. CASE Decision(found, b, fresh, time) = "on"
  BY <1>1, <1>2, <1>3 DEF Decide
<1>4. CASE Decision(found, b, fresh, time) # "on"
  BY <1>1, <1>2, <1>4 DEF Decide
<1> QED BY <1>3, <1>4

\* feed() returns with "c" in the buffer, the cap having been tested on "b".
LEMMA RestInv ==
  ASSUME FramingInv, NEW b \in Seq(Bytes), NEW c \in Seq(Bytes), Rest(b, c),
         Suffix(c, sent), c = <<>> => sent = <<>>, FlagsIn(c) \subseteq {1},
         Len(c) <= MaxFrame \/ (FlagsIn(c) = {} /\ Len(c) < MaxFrame + MaxBurst),
         History(sent, Len(sent) - Len(c), out, fcsErrors,
                 IF Len(b) > MaxFrame THEN overruns + 1 ELSE overruns)
  PROVE  FramingInv'
<1> USE DEF FramingInv
<1>1. /\ buf' = c /\ UNCHANGED <<air, came, sent, fcsErrors, out, elapsed>>
      /\ overruns' = IF Len(b) > MaxFrame THEN overruns + 1 ELSE overruns
      /\ Decide(c, TRUE, elapsed)
  BY DEF Rest
<1>2. elapsed \in Nat /\ elapsed <= HardCap
  BY FramingConstants DEF Types
<1>3. /\ pc' \in {"idle", "reading"} /\ found' \in BOOLEAN
      /\ returned' \in {"never", "frames", "cap", "budget"}
      /\ pc' = "reading" => elapsed < HardCap
      /\ pc' = "idle" /\ returned' = "budget" => ~Partial(c)
  BY <1>1, <1>2, DecideTypes
<1>4. overruns' \in Nat
  BY <1>1 DEF Types
<1>5. Types'
  BY <1>1, <1>3, <1>4 DEF Types
<1>6. Transmission'
  BY <1>1, <1>3 DEF Transmission
<1>7. pc' # "feeding"
  BY <1>3
<1>8. Buffered'
  BY <1>1, <1>7 DEF Buffered
<1>9. Partial(c) <=> sent # <<>> /\ Last(sent) # Flag
  BY PartialAtRest DEF Types
<1>10. ListensOn'
  BY <1>1, <1>3, <1>9 DEF ListensOn, Transmission
<1>11. History(sent, Len(sent) - Len(buf), out, fcsErrors, overruns)'
  BY <1>1
<1> QED BY <1>5, <1>6, <1>8, <1>10, <1>11

LEMMA RestOfJunkInv == FramingInv /\ RestOfJunk => FramingInv'
<1> SUFFICES ASSUME FramingInv, RestOfJunk PROVE FramingInv'
  OBVIOUS
<1> DEFINE c == JunkCapped(buf)
           more == IF Len(buf) > MaxFrame THEN overruns + 1 ELSE overruns
<1>1. /\ buf \in Seq(Bytes) /\ sent \in Seq(Bytes) /\ out \in Seq(Entry)
      /\ fcsErrors \in Nat /\ overruns \in Nat
      /\ Suffix(buf, sent) /\ (buf = <<>> => sent = <<>>)
      /\ History(sent, Len(sent) - Len(buf), out, fcsErrors, overruns)
  BY DEF FramingInv, Types, Buffered
<1>2. FlagsIn(buf) = {} /\ Rest(buf, c)
  BY DEF RestOfJunk
<1>3. Len(buf) \in Nat /\ Len(sent) \in Nat /\ Len(buf) <= Len(sent)
  BY <1>1 DEF Suffix
<1>4. more \in {overruns, overruns + 1}
  OBVIOUS
<1>5. CASE Len(buf) <= MaxFrame
  <2>1. c = buf /\ more = overruns
    BY <1>3, <1>5, FramingConstants DEF JunkCapped, Capped
  <2>2. Rest(buf, buf) /\ FlagsIn(buf) \subseteq {1} /\ Len(buf) <= MaxFrame
    BY <2>1, <1>2, <1>5
  <2>3. History(sent, Len(sent) - Len(buf), out, fcsErrors,
                IF Len(buf) > MaxFrame THEN overruns + 1 ELSE overruns)
    BY <2>1, <1>1
  <2> QED BY <2>2, <2>3, <1>1, RestInv
<1>6. CASE Len(buf) > MaxFrame
  <2>1. c = From(buf, Len(buf))
    <3>1. Len(buf) - 1 + 1 = Len(buf) /\ ~(Len(buf) <= MaxFrame)
      BY <1>3, <1>6, FramingConstants
    <3> QED BY <3>1 DEF JunkCapped, Capped
  <2>2. Len(buf) \in 1 .. Len(buf) + 1
    BY <1>3, <1>6, FramingConstants
  <2>3. /\ From(buf, Len(buf)) \in Seq(Bytes) /\ Suffix(From(buf, Len(buf)), sent)
        /\ Len(From(buf, Len(buf))) = Len(buf) - Len(buf) + 1
        /\ Len(sent) - Len(From(buf, Len(buf))) = Len(sent) - Len(buf) + Len(buf) - 1
    BY <1>1, <2>2, SuffixFrom
  <2>4. /\ c \in Seq(Bytes) /\ Suffix(c, sent) /\ Len(c) = 1
        /\ Len(sent) - Len(c) = Len(sent) - 1
    BY <2>1, <2>3, <1>3
  <2>5. \A k \in FlagsIn(c) : FALSE
    BY <2>1, <2>2, <1>1, <1>2, FromFlags
  <2> HIDE DEF c, more
  <2>6. \A k \in FlagsIn(sent) : k <= Len(sent) - Len(buf) \/ Len(sent) - 1 < k
    BY <1>1, <1>2, SuffixFlags
  <2>7. /\ Len(sent) - Len(buf) \in Nat /\ Len(sent) - 1 \in Nat
        /\ Len(sent) - Len(buf) <= Len(sent) - 1
    BY <1>3, <1>6, FramingConstants
  <2>8. History(sent, Len(sent) - 1, out, fcsErrors, more)
    <3> DEFINE m == Len(sent) - Len(buf)  n == Len(sent) - 1
    <3>1. /\ m \in Nat /\ n \in Nat /\ m <= n /\ (\A k \in FlagsIn(sent) : k <= m \/ n < k)
          /\ History(sent, m, out, fcsErrors, overruns)
      BY <2>6, <2>7, <1>1
    <3> HIDE DEF m, n
    <3>2. History(sent, n, out, fcsErrors, more)
      BY <3>1, <1>1, <1>4, HistorySkip
    <3> QED BY <3>2 DEF n
  <2>9. c # <<>> /\ FlagsIn(c) \subseteq {1} /\ Len(c) <= MaxFrame
    <3>1. c # <<>>
      BY <2>4
    <3>2. FlagsIn(c) \subseteq {1}
      BY <2>5
    <3>3. Len(c) <= MaxFrame
      BY <2>4, FramingConstants
    <3> QED BY <3>1, <3>2, <3>3
  <2>10. History(sent, Len(sent) - Len(c), out, fcsErrors, more)
    BY <2>4, <2>8
  <2> QED BY <2>4, <2>9, <2>10, <1>1, <1>2, RestInv DEF more
<1> QED BY <1>5, <1>6, <1>3, FramingConstants

LEMMA RestOfFrameInv == FramingInv /\ RestOfFrame => FramingInv'
<1> SUFFICES ASSUME FramingInv, NEW i \in FlagsIn(buf), FlagsIn(buf) = {i},
                    Rest(From(buf, i), OpenCapped(From(buf, i)))
             PROVE  FramingInv'
  BY DEF RestOfFrame
<1> DEFINE b == From(buf, i)
           c == OpenCapped(b)
           m == Len(sent) - Len(buf)
           more == IF Len(b) > MaxFrame THEN overruns + 1 ELSE overruns
<1>1. /\ buf \in Seq(Bytes) /\ sent \in Seq(Bytes) /\ out \in Seq(Entry)
      /\ fcsErrors \in Nat /\ overruns \in Nat
      /\ Suffix(buf, sent)
      /\ History(sent, m, out, fcsErrors, overruns)
  BY DEF FramingInv, Types, Buffered
<1>2. Len(buf) - i < MaxFrame + MaxBurst
  BY DEF FramingInv, Buffered, Rest
<1>3. /\ Len(buf) \in Nat /\ Len(sent) \in Nat /\ Len(buf) <= Len(sent) /\ m \in Nat
      /\ i \in 1 .. Len(buf) /\ i \in 1 .. Len(buf) + 1
  BY <1>1, FlagPlaces DEF Suffix
<1>4. /\ b \in Seq(Bytes) /\ Suffix(b, sent) /\ Len(b) = Len(buf) - i + 1
      /\ Len(sent) - Len(b) = m + i - 1
  BY <1>1, <1>3, SuffixFrom
<1>5. \A k \in FlagsIn(b) : k = 1
  <2> SUFFICES ASSUME NEW k \in FlagsIn(b) PROVE k = 1
    OBVIOUS
  <2>1. k \in 1 .. Len(buf) - i + 1 /\ i + k - 1 \in FlagsIn(buf)
    BY <1>1, <1>3, FromFlags
  <2> QED BY <2>1, <1>3
<1>6. m + i \in FlagsIn(sent) /\ \A k \in FlagsIn(sent) : k <= m \/ k = m + i
  <2>1. m + i \in FlagsIn(sent)
    BY <1>1, SuffixFlags
  <2>2. \A k \in FlagsIn(sent) : k <= m \/ k - m \in FlagsIn(buf)
    BY <1>1, SuffixFlags
  <2>3. FlagsIn(sent) \subseteq Nat
    BY <1>1, FlagPlaces
  <2> QED BY <2>1, <2>2, <2>3, <1>3
<1>7. FlagsIn(sent) \subseteq Nat
  BY <1>1, FlagPlaces
<1>8. Rest(b, c)
  OBVIOUS
<1>9. CASE Len(b) <= MaxFrame
  <2>1. c = b /\ more = overruns
    BY <1>9, <1>4, FramingConstants DEF OpenCapped, Capped
  <2>2. /\ m + i - 1 \in Nat /\ m <= m + i - 1
        /\ \A k \in FlagsIn(sent) : k <= m \/ m + i - 1 < k
    BY <1>3, <1>6, <1>7
  <2>3. History(sent, m + i - 1, out, fcsErrors, overruns)
    <3> DEFINE n == m + i - 1
    <3>1. n \in Nat /\ m <= n /\ (\A k \in FlagsIn(sent) : k <= m \/ n < k)
      BY <2>2
    <3> HIDE DEF m, n
    <3>2. History(sent, n, out, fcsErrors, overruns)
      BY <3>1, <1>1, <1>3, HistorySkip
    <3> QED BY <3>2 DEF n
  <2>4. b # <<>> /\ FlagsIn(b) \subseteq {1}
    <3>1. Len(b) > 0
      BY <1>3, <1>4
    <3> HIDE DEF b
    <3> QED BY <3>1, <1>5
  <2>5. History(sent, Len(sent) - Len(b), out, fcsErrors, more)
    BY <2>1, <2>3, <1>4
  <2>6. Rest(b, b)
    BY <2>1, <1>8
  <2> HIDE DEF b, c, m
  <2> QED BY <2>4, <2>5, <2>6, <1>4, <1>9, RestInv DEF more
<1>10. CASE Len(b) > MaxFrame
  <2>1. c = From(b, 2) /\ more = overruns + 1
    <3> HIDE DEF b
    <3>1. Len(b) - (Len(b) - 1) + 1 = 2 /\ ~(Len(b) <= MaxFrame)
      BY <1>3, <1>4, <1>10, FramingConstants
    <3> QED BY <3>1, <1>10 DEF OpenCapped, Capped
  <2>2. 2 \in 1 .. Len(b) + 1 /\ Len(b) \in Nat
    BY <1>3, <1>4, <1>10, FramingConstants
  <2>3. /\ c \in Seq(Bytes) /\ Suffix(c, sent) /\ Len(c) = Len(b) - 2 + 1
        /\ Len(sent) - Len(c) = Len(sent) - Len(b) + 2 - 1
    <3> HIDE DEF b, c
    <3> QED BY <2>1, <2>2, <1>1, <1>4, SuffixFrom
  <2>4. FlagsIn(c) = {}
    <3> SUFFICES ASSUME NEW k \in FlagsIn(From(b, 2)) PROVE FALSE
      BY <2>1
    <3>1. k \in 1 .. Len(b) - 2 + 1 /\ 2 + k - 1 \in FlagsIn(b)
      BY <1>4, <2>2, FromFlags
    <3>2. 2 + k - 1 # 1
      BY <3>1
    <3> QED BY <3>1, <3>2, <1>5
  <2>5. /\ Len(c) = Len(b) - 1 /\ Len(sent) - Len(c) = m + i /\ c # <<>>
        /\ Len(c) < MaxFrame + MaxBurst
    <3>1. Len(c) = Len(b) - 1 /\ Len(sent) - Len(c) = m + i
      BY <2>2, <2>3, <1>3, <1>4
    <3>2. Len(c) > 0 /\ Len(c) < MaxFrame + MaxBurst
      BY <3>1, <2>2, <1>2, <1>3, <1>4, <1>10, FramingConstants
    <3> HIDE DEF c, b
    <3>3. c # <<>>
      BY <3>2
    <3> QED BY <3>1, <3>2, <3>3
  <2>6. Len(sent) - (m + i) >= MaxFrame /\ m <= m + i
    BY <1>3, <1>4, <1>10, FramingConstants
  <2>7. History(sent, m + i, out, fcsErrors, overruns + 1)
    <3> DEFINE l == m + i
    <3>1. /\ l \in FlagsIn(sent) /\ m <= l /\ (\A k \in FlagsIn(sent) : k <= m \/ k = l)
          /\ Len(sent) - l >= MaxFrame
      BY <1>6, <2>6
    <3> HIDE DEF m, l
    <3>2. History(sent, l, out, fcsErrors, overruns + 1)
      BY <3>1, <1>1, <1>3, HistoryDrop
    <3> QED BY <3>2 DEF l
  <2>8. History(sent, Len(sent) - Len(c), out, fcsErrors, more)
    BY <2>1, <2>5, <2>7
  <2> HIDE DEF b, c, m
  <2> QED BY <2>3, <2>4, <2>5, <2>8, <1>4, <1>8, RestInv DEF more
<1> QED BY <1>9, <1>10, <1>3, <1>4, FramingConstants

LEMMA TakeFrameInv == FramingInv /\ TakeFrame => FramingInv'
<1> SUFFICES ASSUME FramingInv, pc = "feeding",
                    NEW i \in FlagsIn(buf), NEW j \in FlagsIn(buf),
                    Consecutive(buf, i, j), IsFirst(buf, i),
                    buf' = KeepClosingFlag(buf, j),
                    LET body == BodyOf(buf, i, j)
                        good == LongEnough(body) /\ FcsOK(body) IN
                      /\ found' = (found \/ good)
                      /\ out' = IF good
                                  THEN Append(out, [at |-> Len(sent) - Len(buf) + i, body |-> body])
                                  ELSE out
                      /\ fcsErrors' = IF LongEnough(body) /\ ~good THEN fcsErrors + 1 ELSE fcsErrors,
                    UNCHANGED <<air, came, sent, overruns, pc, elapsed, returned>>
             PROVE  FramingInv'
  BY DEF TakeFrame
<1> DEFINE m == Len(sent) - Len(buf)
           x == m + i
           y == m + j
           entry == [at |-> x, body |-> BodyOf(sent, x, y)]
<1>1. /\ buf \in Seq(Bytes) /\ sent \in Seq(Bytes) /\ out \in Seq(Entry)
      /\ fcsErrors \in Nat /\ overruns \in Nat /\ found \in BOOLEAN
      /\ Suffix(buf, sent)
      /\ History(sent, m, out, fcsErrors, overruns)
      /\ \A k \in FlagsIn(buf) : Len(buf) - k < MaxFrame + MaxBurst
  BY DEF FramingInv, Types, Buffered
<1>2. /\ Len(buf) \in Nat /\ Len(sent) \in Nat /\ Len(buf) <= Len(sent) /\ m \in Nat
      /\ i \in 1 .. Len(buf) /\ j \in 1 .. Len(buf) /\ i < j /\ j \in 1 .. Len(buf) + 1
  BY <1>1, FlagPlaces DEF Suffix, Consecutive
<1>3. /\ Consecutive(sent, x, y) /\ BodyOf(buf, i, j) = BodyOf(sent, x, y)
      /\ \A k \in FlagsIn(sent) : k <= m \/ x <= k
  BY <1>1, SuffixFrame
<1>4. x \in FlagsIn(sent) /\ y \in FlagsIn(sent)
  BY <1>1, SuffixFlags
<1>5. m < x /\ x \in Nat /\ y - 1 = m + j - 1
  BY <1>2
<1>6. /\ buf' \in Seq(Bytes) /\ Suffix(buf', sent) /\ Len(buf') = Len(buf) - j + 1
      /\ Len(sent) - Len(buf') = y - 1
  <2>1. buf' = From(buf, j)
    BY DEF KeepClosingFlag
  <2>2. /\ From(buf, j) \in Seq(Bytes) /\ Suffix(From(buf, j), sent)
        /\ Len(From(buf, j)) = Len(buf) - j + 1
        /\ Len(sent) - Len(From(buf, j)) = Len(sent) - Len(buf) + j - 1
    BY <1>1, <1>2, SuffixFrom
  <2> QED BY <2>1, <2>2, <1>5
<1>7. /\ found' \in BOOLEAN
      /\ out' = IF GoodAt(sent, x, y) THEN Append(out, entry) ELSE out
      /\ fcsErrors' = IF BadAt(sent, x, y) THEN fcsErrors + 1 ELSE fcsErrors
  <2> HIDE DEF m, x, y
  <2>1. /\ GoodAt(sent, x, y) <=> LongEnough(BodyOf(sent, x, y)) /\ FcsOK(BodyOf(sent, x, y))
        /\ BadAt(sent, x, y) <=> LongEnough(BodyOf(sent, x, y)) /\ ~FcsOK(BodyOf(sent, x, y))
    BY <1>3 DEF GoodAt, BadAt
  <2>2. Len(sent) - Len(buf) + i = x
    BY DEF m, x
  <2> QED BY <2>1, <2>2, <1>1, <1>3
<1>8. x \in 1 .. Len(sent) /\ y \in 1 .. Len(sent) /\ x < y
  BY <1>2
<1>9. entry \in Entry
  <2> HIDE DEF m, x, y
  <2>1. BodyOf(sent, x, y) \in Seq(Bytes)
    BY <1>1, <1>8, BodyProperties
  <2> QED BY <2>1, <1>5 DEF Entry
<1>10. History(sent, y - 1, out', fcsErrors', overruns)
  <2> HIDE DEF m, x, y
  <2>1. History(sent, y - 1,
                IF GoodAt(sent, x, y) THEN Append(out, [at |-> x, body |-> BodyOf(sent, x, y)]) ELSE out,
                IF BadAt(sent, x, y) THEN fcsErrors + 1 ELSE fcsErrors, overruns)
    BY <1>1, <1>2, <1>3, <1>4, <1>5, HistoryFrame
  <2> QED BY <2>1, <1>7
<1>11. Types'
  <2> HIDE DEF entry
  <2>1. out' \in Seq(Entry) /\ fcsErrors' \in Nat
    BY <1>1, <1>7, <1>9
  <2> QED BY <2>1, <1>6, <1>7 DEF FramingInv, Types
<1>12. Transmission' /\ ListensOn'
  BY DEF FramingInv, Transmission, ListensOn
<1>13. Buffered'
  <2>1. buf' # <<>>
    BY <1>2, <1>6
  <2>2. ASSUME NEW k \in FlagsIn(buf') PROVE Len(buf') - k < MaxFrame + MaxBurst
    <3>1. k \in FlagsIn(From(buf, j))
      BY <2>2 DEF KeepClosingFlag
    <3>2. k \in 1 .. Len(buf) - j + 1 /\ j + k - 1 \in FlagsIn(buf)
      BY <3>1, <1>1, <1>2, FromFlags
    <3>3. Len(buf) - (j + k - 1) < MaxFrame + MaxBurst
      BY <3>2, <1>1
    <3>4. Len(buf') - k = Len(buf) - (j + k - 1)
      BY <3>2, <1>2, <1>6
    <3> QED BY <3>3, <3>4
  <2>3. Suffix(buf', sent')
    BY <1>6
  <2> QED BY <2>1, <2>2, <2>3 DEF Buffered
<1>14. History(sent', Len(sent') - Len(buf'), out', fcsErrors', overruns')
  BY <1>6, <1>10
<1> QED BY <1>11, <1>12, <1>13, <1>14 DEF FramingInv

LEMMA ReadInv ==
  ASSUME FramingInv, NEW n \in 1 .. MaxBurst, Read(n)
  PROVE  FramingInv'
<1> DEFINE d == SubSeq(air, 1, n)
<1>1. /\ pc = "reading" /\ pc' = "feeding" /\ n \in 1 .. Len(air)
      /\ sent' = sent \o d /\ came' = came \o d /\ buf' = buf \o d
      /\ air' = From(air, n + 1)
      /\ elapsed' \in {elapsed, elapsed + 1} /\ elapsed' <= HardCap
      /\ UNCHANGED <<fcsErrors, overruns, out, found, returned>>
  BY DEF Read
<1>2. /\ air \in Seq(Bytes) /\ came \in Seq(Bytes) /\ sent \in Seq(Bytes) /\ buf \in Seq(Bytes)
      /\ elapsed \in Nat /\ Len(air) <= MaxBurst /\ Suffix(buf, sent)
      /\ fcsErrors \in Nat /\ overruns \in Nat
      /\ History(sent, Len(sent) - Len(buf), out, fcsErrors, overruns)
  BY FramingConstants DEF FramingInv, Types, Transmission, Buffered
<1>3. FlagsIn(buf) \subseteq {1} /\ (FlagsIn(buf) # {} => Len(buf) <= MaxFrame)
  BY <1>1 DEF FramingInv, Buffered
<1>4. /\ Len(air) \in Nat /\ Len(buf) \in Nat /\ Len(sent) \in Nat /\ Len(buf) <= Len(sent)
  BY <1>2 DEF Suffix
<1>5. d \in Seq(Bytes) /\ Len(d) = n
  BY <1>1, <1>2, SubSeqProperties
<1>6. /\ From(air, n + 1) \in Seq(Bytes) /\ Len(From(air, n + 1)) = Len(air) - n
  <2>1. n + 1 \in 1 .. Len(air) + 1
    BY <1>1, <1>4
  <2>2. From(air, n + 1) \in Seq(Bytes) /\ Len(From(air, n + 1)) = Len(air) - (n + 1) + 1
    BY <1>2, <2>1, FromProperties
  <2> QED BY <2>2, <1>1, <1>4
<1> HIDE DEF d
<1>7. /\ Suffix(buf \o d, sent \o d) /\ buf \o d \in Seq(Bytes) /\ sent \o d \in Seq(Bytes)
      /\ Len(buf \o d) = Len(buf) + n
      /\ Len(sent \o d) - Len(buf \o d) = Len(sent) - Len(buf)
  <2>1. /\ Suffix(buf \o d, sent \o d) /\ buf \o d \in Seq(Bytes) /\ sent \o d \in Seq(Bytes)
        /\ Len(buf \o d) = Len(buf) + Len(d)
        /\ Len(sent \o d) - Len(buf \o d) = Len(sent) - Len(buf)
    <3>1. sent \in Seq(Bytes) /\ buf \in Seq(Bytes) /\ Suffix(buf, sent) /\ d \in Seq(Bytes)
      BY <1>2, <1>5
    <3> QED BY <3>1, SuffixConcat
  <2> QED BY <2>1, <1>5
<1>8. came \o d \in Seq(Bytes)
  BY <1>2, <1>5
<1>9. elapsed' \in 0 .. HardCap
  BY <1>1, <1>2, FramingConstants
<1>10. Types'
  BY <1>1, <1>6, <1>7, <1>8, <1>9 DEF FramingInv, Types
<1>11. /\ sent \o d # <<>> /\ Last(came \o d) = Last(sent \o d)
  <2>1. Len(d) > 0
    BY <1>1, <1>4, <1>5
  <2> QED BY <2>1, <1>2, <1>5, LastOfConcat
<1>12. Len(air') <= MaxBurst
  BY <1>1, <1>2, <1>4, <1>6, FramingConstants
<1>13. Transmission'
  BY <1>1, <1>11, <1>12 DEF Transmission
<1>14. ListensOn'
  BY <1>1 DEF ListensOn
<1>15. ASSUME NEW k \in FlagsIn(buf \o d) PROVE Len(buf \o d) - k < MaxFrame + MaxBurst
  <2>1. k \in 1 .. Len(buf) + n
    BY <1>7, FlagPlaces
  <2>2. k \in FlagsIn(buf) \/ k > Len(buf)
    BY <1>2, <1>5, LongerFlags
  <2>3. CASE k \in FlagsIn(buf)
    BY <2>1, <2>3, <1>3, <1>4, <1>7, FramingConstants
  <2>4. CASE k > Len(buf)
    BY <2>1, <2>4, <1>4, <1>7, FramingConstants
  <2> QED BY <2>2, <2>3, <2>4
<1>16. buf \o d # <<>>
  BY <1>1, <1>4, <1>7
<1>17. Buffered'
  BY <1>1, <1>7, <1>15, <1>16 DEF Buffered
<1>18. History(sent \o d, Len(sent) - Len(buf), out, fcsErrors, overruns)
  <2> DEFINE m == Len(sent) - Len(buf)
  <2>1. m \in Nat /\ m <= Len(sent) /\ History(sent, m, out, fcsErrors, overruns)
    BY <1>2, <1>4
  <2> HIDE DEF m
  <2>2. History(sent \o d, m, out, fcsErrors, overruns)
    BY <2>1, <1>2, <1>5, HistoryRead
  <2> QED BY <2>2 DEF m
<1>19. History(sent', Len(sent') - Len(buf'), out', fcsErrors', overruns')
  BY <1>1, <1>7, <1>18
<1> QED BY <1>10, <1>13, <1>14, <1>17, <1>19 DEF FramingInv

LEMMA TransmitInv ==
  ASSUME FramingInv, NEW burst \in BoundedSeq(Bytes, MaxBurst), Transmit(burst)
  PROVE  FramingInv'
<1>1. burst \in Seq(Bytes) /\ Len(burst) <= MaxBurst
  <2>1. PICK n \in 0 .. MaxBurst : burst \in [1 .. n -> Bytes]
    BY DEF BoundedSeq, SeqOf
  <2>2. n \in Nat /\ burst \in Seq(Bytes) /\ Len(burst) = n
    BY <2>1, FramingConstants
  <2> QED BY <2>1, <2>2, FramingConstants
<1>2. air' = burst /\ came' = <<>> /\ UNCHANGED <<sent, deframer, pump>>
  BY DEF Transmit
<1>3. <<>> \in Seq(Bytes)
  OBVIOUS
<1>4. Types' /\ Transmission'
  BY <1>1, <1>2, <1>3 DEF FramingInv, Types, Transmission, deframer, pump
<1>5. Buffered'
  BY <1>2 DEF FramingInv, Buffered, deframer, pump
<1>6. ListensOn'
  BY <1>2 DEF ListensOn
<1>7. History(sent, Len(sent) - Len(buf), out, fcsErrors, overruns)'
  BY <1>2 DEF FramingInv, deframer
<1> QED BY <1>4, <1>5, <1>6, <1>7 DEF FramingInv

LEMMA CallInv == FramingInv /\ Call => FramingInv'
<1> SUFFICES ASSUME FramingInv, Call PROVE FramingInv'
  OBVIOUS
<1>1. /\ pc = "idle" /\ pc' = "reading" /\ elapsed' = 0
      /\ UNCHANGED <<air, came, sent, deframer, found, returned>>
  BY DEF Call
<1>2. Types' /\ Transmission'
  BY <1>1, FramingConstants DEF FramingInv, Types, Transmission, deframer
<1>3. Buffered' /\ ListensOn'
  BY <1>1 DEF FramingInv, Buffered, ListensOn, deframer
<1>4. History(sent, Len(sent) - Len(buf), out, fcsErrors, overruns)'
  BY <1>1 DEF FramingInv, deframer
<1> QED BY <1>2, <1>3, <1>4 DEF FramingInv

LEMMA ReadNothingInv == FramingInv /\ ReadNothing => FramingInv'
<1> SUFFICES ASSUME FramingInv, ReadNothing PROVE FramingInv'
  OBVIOUS
<1>1. /\ pc = "reading" /\ air = <<>> /\ elapsed' = elapsed + 1
      /\ Decide(buf, FALSE, elapsed + 1)
      /\ UNCHANGED <<air, came, sent, deframer>>
  BY DEF ReadNothing
<1>2. elapsed + 1 \in Nat /\ elapsed + 1 \in 0 .. HardCap
  BY <1>1, FramingConstants DEF FramingInv, Types, Transmission
<1>3. /\ pc' \in {"idle", "reading"} /\ found' \in BOOLEAN
      /\ returned' \in {"never", "frames", "cap", "budget"}
      /\ pc' = "reading" => elapsed + 1 < HardCap
  BY <1>1, <1>2, DecideTypes DEF FramingInv
<1>4. Types' /\ Transmission'
  BY <1>1, <1>2, <1>3 DEF FramingInv, Types, Transmission, deframer
<1>5. Buffered' /\ ListensOn'
  BY <1>1, <1>3 DEF FramingInv, Buffered, ListensOn, deframer
<1>6. History(sent, Len(sent) - Len(buf), out, fcsErrors, overruns)'
  BY <1>1 DEF FramingInv, deframer
<1> QED BY <1>4, <1>5, <1>6 DEF FramingInv

LEMMA InitInv == Init => FramingInv
<1> SUFFICES ASSUME Init PROVE FramingInv
  OBVIOUS
<1>1. Types
  <2>1. <<>> \in Seq(Bytes) /\ <<>> \in Seq(Entry) /\ 0 \in 0 .. HardCap
    BY FramingConstants
  <2> QED BY <2>1 DEF Init, Types
<1>2. /\ sent = <<>> /\ buf = <<>> /\ out = <<>> /\ Len(sent) = 0 /\ Len(buf) = 0
      /\ FlagsIn(sent) = {} /\ fcsErrors = 0 /\ overruns = 0 /\ DOMAIN out = {}
  BY DEF Init, FlagsIn
<1>3. Transmission /\ ListensOn
  BY FramingConstants DEF Init, Transmission, ListensOn
<1>4. Buffered
  BY <1>2, FramingConstants DEF Init, Buffered, Suffix
<1>5. BadUpTo(sent, Len(sent) - Len(buf)) = {}
  BY <1>2 DEF BadUpTo, BadIn
<1>6. Counted(sent, Len(sent) - Len(buf), fcsErrors, overruns)
  BY <1>2, <1>5, FS_EmptySet DEF Counted
<1>7. History(sent, Len(sent) - Len(buf), out, fcsErrors, overruns)
  BY <1>2, <1>6 DEF History, Returned, Complete, Passed
<1> QED BY <1>1, <1>3, <1>4, <1>7 DEF FramingInv

LEMMA StepInv == FramingInv /\ [Next]_vars => FramingInv'
<1> SUFFICES ASSUME FramingInv, [Next]_vars PROVE FramingInv'
  OBVIOUS
<1>1. CASE \E burst \in BoundedSeq(Bytes, MaxBurst) \ {<<>>} : Transmit(burst)
  BY <1>1, TransmitInv
<1>2. CASE \E n \in 1 .. MaxBurst : Read(n)
  BY <1>2, ReadInv
<1>3. CASE Call \/ ReadNothing
  BY <1>3, CallInv, ReadNothingInv
<1>4. CASE TakeFrame \/ RestOfJunk \/ RestOfFrame
  BY <1>4, TakeFrameInv, RestOfJunkInv, RestOfFrameInv
<1>5. CASE UNCHANGED vars
  <2>1. UNCHANGED <<air, came, sent, buf, fcsErrors, overruns, out, pc, found, elapsed, returned>>
    BY <1>5 DEF vars, deframer, pump
  <2>2. Types' /\ Transmission' /\ Buffered' /\ ListensOn'
    BY <2>1 DEF FramingInv, Types, Transmission, Buffered, ListensOn
  <2>3. History(sent, Len(sent) - Len(buf), out, fcsErrors, overruns)'
    BY <2>1 DEF FramingInv
  <2> QED BY <2>2, <2>3 DEF FramingInv
<1> QED BY <1>1, <1>2, <1>3, <1>4, <1>5 DEF Next

LEMMA Inductive == Spec => []FramingInv
BY InitInv, StepInv, PTL DEF Spec

-------------------------------------------------------------------------------
\* What follows from it.

\* The buffer stays bounded by one frame and one transmission, whatever noise
\* comes in (feed, 131-142).
THEOREM FramingTypeOK == Spec => []TypeOK
<1>1. FramingInv => TypeOK
  <2> SUFFICES ASSUME FramingInv PROVE TypeOK
    OBVIOUS
  <2>1. Types
    BY DEF FramingInv
  <2>2. ASSUME pc # "feeding" PROVE Len(buf) < MaxFrame + MaxBurst
    <3>1. Len(buf) <= MaxFrame \/ Len(buf) < MaxFrame + MaxBurst
      BY <2>2 DEF FramingInv, Buffered
    <3>2. Len(buf) \in Nat
      BY <2>1 DEF Types
    <3> QED BY <3>1, <3>2, FramingConstants
  <2> QED BY <2>1, <2>2 DEF Types, TypeOK, Entry
<1> QED BY <1>1, Inductive, PTL

\* At rest, the frames the stream completes all began before what the buffer holds.
LEMMA AtRest ==
  ASSUME FramingInv, pc # "feeding", NEW i \in FlagsIn(sent), NEW j \in FlagsIn(sent), i < j
  PROVE  i <= Len(sent) - Len(buf)
<1>1. /\ sent \in Seq(Bytes) /\ buf \in Seq(Bytes) /\ Suffix(buf, sent)
      /\ FlagsIn(buf) \subseteq {1}
  BY DEF FramingInv, Types, Buffered
<1>2. /\ i <= Len(sent) - Len(buf) \/ i - (Len(sent) - Len(buf)) \in FlagsIn(buf)
      /\ j <= Len(sent) - Len(buf) \/ j - (Len(sent) - Len(buf)) \in FlagsIn(buf)
  BY <1>1, SuffixFlags
<1>3. i \in Nat /\ j \in Nat /\ Len(sent) \in Nat /\ Len(buf) \in Nat
  BY <1>1, FlagPlaces
<1> QED BY <1>1, <1>2, <1>3

\* However a stream is cut and whatever is dropped of it, each of its frames that
\* fits the buffer is returned once and in order, nothing else is, and the bad
\* ones are counted: noise costs the frames it hits and no other (feed, 123-159).
THEOREM EveryFrameOnce == Spec => []NoiseCostsOneFrame
<1>1. FramingInv => NoiseCostsOneFrame
  <2> SUFFICES ASSUME FramingInv PROVE NoiseCostsOneFrame
    OBVIOUS
  <2>1. /\ Returned(sent, Len(sent) - Len(buf), out)
        /\ Complete(sent, Len(sent) - Len(buf), out)
        /\ Counted(sent, Len(sent) - Len(buf), fcsErrors, overruns)
    BY DEF FramingInv, History
  <2>2. ASSUME pc # "feeding", NEW i \in FlagsIn(sent), NEW j \in FlagsIn(sent),
               GoodAt(sent, i, j), j - i <= MaxFrame
        PROVE  \E k \in DOMAIN out : out[k].at = i
    <3>1. i < j
      BY <2>2 DEF GoodAt, Consecutive
    <3>2. i <= Len(sent) - Len(buf)
      BY <2>2, <3>1, AtRest
    <3> QED BY <2>1, <2>2, <3>2 DEF Complete
  <2>3. ASSUME pc # "feeding", overruns = 0 PROVE fcsErrors = Cardinality(BadIn(sent))
    <3>1. ASSUME NEW i \in BadIn(sent) PROVE i <= Len(sent) - Len(buf)
      <4>1. PICK j \in FlagsIn(sent) : i \in FlagsIn(sent) /\ BadAt(sent, i, j)
        BY <3>1 DEF BadIn
      <4>2. i < j
        BY <4>1 DEF BadAt, Consecutive
      <4> QED BY <4>1, <4>2, <2>3, AtRest
    <3>2. BadUpTo(sent, Len(sent) - Len(buf)) = BadIn(sent)
      BY <3>1 DEF BadUpTo
    <3> QED BY <2>1, <2>3, <3>2 DEF Counted
  <2> QED BY <2>1, <2>2, <2>3 DEF NoiseCostsOneFrame, Returned
<1> QED BY <1>1, Inductive, PTL

\* "partial" is true just when the stream ends inside a frame or in junk, also
\* after some of either was dropped (partial, 109-121).
THEOREM PartialSpeaksOfTail == Spec => []PartialIsTail
<1>1. FramingInv => PartialIsTail
  BY PartialAtRest DEF FramingInv, Types, Buffered, PartialIsTail
<1> QED BY <1>1, Inductive, PTL

\* A call that returns for its budget leaves no frame half read (336-356).
THEOREM BudgetLeavesNoPartial == Spec => []ListensOn
<1>1. FramingInv => ListensOn
  BY DEF FramingInv
<1> QED BY <1>1, Inductive, PTL
==============================================================================
