----------------------------- MODULE SequenceSets -----------------------------
(***************************************************************************)
(* The members of sequences that are built and taken apart: what the       *)
(* queues, lists and buffers of the service hold.                          *)
(***************************************************************************)
EXTENDS Naturals, Sequences, SequencesExt, SequenceTheorems, TLAPS

LEMMA EmptySet == ToSet(<<>>) = {} /\ IsInjective(<<>>)
BY DEF ToSet, IsInjective

LEMMA MemberTypes ==
  ASSUME NEW S, NEW q \in Seq(S)
  PROVE  ToSet(q) \subseteq S
BY DEF ToSet

LEMMA SingleSeq ==
  ASSUME NEW S, NEW s \in Seq(S), Len(s) = 1
  PROVE  s # <<>> /\ Head(s) \in S /\ s = <<Head(s)>>
<1>1. s = <<>> => Len(s) = 0
  OBVIOUS
<1>2. s # <<>>
  BY <1>1
<1>3. Head(s) \in S /\ Head(s) = s[1]
  BY <1>2
<1>4. s = <<s[1]>>
  OBVIOUS
<1> QED BY <1>2, <1>3, <1>4

LEMMA AppendSet ==
  ASSUME NEW S, NEW q \in Seq(S), NEW c \in S
  PROVE  /\ ToSet(Append(q, c)) = ToSet(q) \cup {c}
         /\ IsInjective(q) /\ c \notin ToSet(q) => IsInjective(Append(q, c))
<1>1. /\ DOMAIN q = 1 .. Len(q) /\ DOMAIN Append(q, c) = 1 .. Len(q) + 1
      /\ Append(q, c)[Len(q) + 1] = c
      /\ \A i \in 1 .. Len(q) : Append(q, c)[i] = q[i]
      /\ Len(q) \in Nat
  OBVIOUS
<1> QED BY <1>1 DEF ToSet, IsInjective

LEMMA TailSet ==
  ASSUME NEW S, NEW q \in Seq(S), q # <<>>
  PROVE  /\ ToSet(q) = ToSet(Tail(q)) \cup {Head(q)}
         /\ IsInjective(q) => IsInjective(Tail(q)) /\ Head(q) \notin ToSet(Tail(q))
<1>1. /\ DOMAIN q = 1 .. Len(q) /\ DOMAIN Tail(q) = 1 .. Len(q) - 1
      /\ Head(q) = q[1] /\ Len(q) \in Nat /\ Len(q) > 0
      /\ \A i \in 1 .. Len(q) - 1 : Tail(q)[i] = q[i + 1]
  OBVIOUS
<1>2. ToSet(q) \subseteq ToSet(Tail(q)) \cup {Head(q)}
  <2> SUFFICES ASSUME NEW i \in 1 .. Len(q), i # 1 PROVE q[i] \in ToSet(Tail(q))
    BY <1>1 DEF ToSet
  <2>1. i - 1 \in 1 .. Len(q) - 1 /\ q[i] = Tail(q)[i - 1]
    BY <1>1
  <2> QED BY <2>1, <1>1 DEF ToSet
<1>3. ToSet(Tail(q)) \cup {Head(q)} \subseteq ToSet(q)
  BY <1>1 DEF ToSet
<1>4. ASSUME IsInjective(q) PROVE IsInjective(Tail(q)) /\ Head(q) \notin ToSet(Tail(q))
  BY <1>1, <1>4 DEF ToSet, IsInjective
<1> QED BY <1>2, <1>3, <1>4

LEMMA ConcatSet ==
  ASSUME NEW S, NEW s \in Seq(S), NEW t \in Seq(S)
  PROVE  s \o t \in Seq(S) /\ ToSet(s \o t) = ToSet(s) \cup ToSet(t)
<1>1. /\ s \o t \in Seq(S) /\ Len(s) \in Nat /\ Len(t) \in Nat
      /\ DOMAIN s = 1 .. Len(s) /\ DOMAIN t = 1 .. Len(t)
      /\ DOMAIN (s \o t) = 1 .. Len(s) + Len(t)
      /\ \A i \in 1 .. Len(s) : (s \o t)[i] = s[i]
      /\ \A i \in 1 .. Len(t) : (s \o t)[i + Len(s)] = t[i]
  OBVIOUS
<1>2. \A i \in 1 .. Len(s) + Len(t) :
         i \in 1 .. Len(s) \/ (i - Len(s) \in 1 .. Len(t) /\ i = (i - Len(s)) + Len(s))
  BY <1>1
<1>3. ToSet(s \o t) \subseteq ToSet(s) \cup ToSet(t)
  BY <1>1, <1>2 DEF ToSet
<1>4. \A i \in 1 .. Len(t) : i + Len(s) \in 1 .. Len(s) + Len(t)
  BY <1>1
<1>5. \A i \in 1 .. Len(s) : i \in 1 .. Len(s) + Len(t)
  BY <1>1
<1>6. ToSet(s) \cup ToSet(t) \subseteq ToSet(s \o t)
  BY <1>1, <1>4, <1>5 DEF ToSet
<1> QED BY <1>1, <1>3, <1>6

LEMMA SubSeqSet ==
  ASSUME NEW S, NEW s \in Seq(S), NEW m \in 1 .. Len(s) + 1, NEW n \in 0 .. Len(s)
  PROVE  SubSeq(s, m, n) \in Seq(S) /\ ToSet(SubSeq(s, m, n)) \subseteq ToSet(s)
<1>1. \A i \in m .. n : i \in 1 .. Len(s) /\ s[i] \in S
  OBVIOUS
<1>2. /\ SubSeq(s, m, n) \in Seq(S)
      /\ Len(SubSeq(s, m, n)) = IF m <= n THEN n - m + 1 ELSE 0
      /\ \A i \in 1 .. n - m + 1 : SubSeq(s, m, n)[i] = s[m + i - 1]
  BY <1>1, SubSeqProperties
<1>3. \A i \in DOMAIN SubSeq(s, m, n) : m + i - 1 \in DOMAIN s /\ SubSeq(s, m, n)[i] = s[m + i - 1]
  BY <1>2
<1> QED BY <1>2, <1>3 DEF ToSet

-------------------------------------------------------------------------------
(***************************************************************************)
(* What a sequence of messages says last of a subject: M are the messages  *)
(* about it and G the right ones among them.                               *)
(***************************************************************************)
Mentions(s, M) == \E i \in DOMAIN s : s[i] \in M
EndsIn(s, M, G) ==
  \A i \in DOMAIN s :
    s[i] \in M /\ (\A j \in DOMAIN s : j > i => s[j] \notin M) => s[i] \in G

LEMMA MentionsSet ==
  ASSUME NEW s, NEW M
  PROVE  Mentions(s, M) <=> \E m \in ToSet(s) : m \in M
BY DEF Mentions, ToSet

LEMMA EmptyEnds ==
  ASSUME NEW M, NEW G
  PROVE  ~Mentions(<<>>, M) /\ EndsIn(<<>>, M, G)
BY DEF Mentions, EndsIn

LEMMA SingleEnds ==
  ASSUME NEW M, NEW G, NEW e
  PROVE  /\ Mentions(<<e>>, M) <=> e \in M
         /\ EndsIn(<<e>>, M, G) <=> (e \in M => e \in G)
BY DEF Mentions, EndsIn

LEMMA AppendEnds ==
  ASSUME NEW S, NEW s \in Seq(S), NEW e \in S, NEW M, NEW G
  PROVE  /\ Mentions(Append(s, e), M) <=> Mentions(s, M) \/ e \in M
         /\ e \in M => (EndsIn(Append(s, e), M, G) <=> e \in G)
         /\ e \notin M => (EndsIn(Append(s, e), M, G) <=> EndsIn(s, M, G))
<1>1. /\ DOMAIN s = 1 .. Len(s) /\ DOMAIN Append(s, e) = 1 .. Len(s) + 1
      /\ Append(s, e)[Len(s) + 1] = e /\ Len(s) \in Nat
      /\ \A i \in 1 .. Len(s) : Append(s, e)[i] = s[i]
  OBVIOUS
<1>2. Mentions(Append(s, e), M) <=> Mentions(s, M) \/ e \in M
  BY <1>1 DEF Mentions
<1>3. ASSUME e \in M PROVE EndsIn(Append(s, e), M, G) <=> e \in G
  BY <1>1, <1>3 DEF EndsIn
<1>4. ASSUME e \notin M, EndsIn(s, M, G) PROVE EndsIn(Append(s, e), M, G)
  BY <1>1, <1>4 DEF EndsIn
<1>5. ASSUME e \notin M, EndsIn(Append(s, e), M, G) PROVE EndsIn(s, M, G)
  <2> SUFFICES ASSUME NEW i \in 1 .. Len(s), s[i] \in M,
                      \A j \in DOMAIN s : j > i => s[j] \notin M
               PROVE  s[i] \in G
    BY <1>1 DEF EndsIn
  <2>1. \A j \in DOMAIN Append(s, e) : j > i => Append(s, e)[j] \notin M
    BY <1>1, <1>5
  <2> QED BY <1>1, <1>5, <2>1 DEF EndsIn
<1> QED BY <1>2, <1>3, <1>4, <1>5

LEMMA SuffixEnds ==
  ASSUME NEW S, NEW s \in Seq(S), NEW k \in 0 .. Len(s), NEW M, NEW G, EndsIn(s, M, G)
  PROVE  EndsIn(SubSeq(s, k + 1, Len(s)), M, G)
<1> DEFINE t == SubSeq(s, k + 1, Len(s))
<1>1. \A i \in k + 1 .. Len(s) : i \in 1 .. Len(s) /\ s[i] \in S
  OBVIOUS
<1>2. /\ DOMAIN t = 1 .. Len(s) - k /\ DOMAIN s = 1 .. Len(s) /\ Len(s) \in Nat
      /\ \A i \in 1 .. Len(s) - k : t[i] = s[k + i]
  BY <1>1, SubSeqProperties
<1> SUFFICES ASSUME NEW i \in 1 .. Len(s) - k, t[i] \in M,
                    \A j \in DOMAIN t : j > i => t[j] \notin M
             PROVE  t[i] \in G
  BY <1>2 DEF EndsIn
<1>3. ASSUME NEW j \in DOMAIN s, j > k + i PROVE s[j] \notin M
  <2>1. j - k \in 1 .. Len(s) - k /\ j - k > i /\ k + (j - k) = j
    BY <1>2, <1>3
  <2> QED BY <1>2, <2>1
<1>4. k + i \in DOMAIN s
  BY <1>2
<1> QED BY <1>2, <1>3, <1>4 DEF EndsIn

LEMMA TailEnds ==
  ASSUME NEW S, NEW s \in Seq(S), s # <<>>, NEW M, NEW G
  PROVE  /\ Mentions(s, M) <=> Head(s) \in M \/ Mentions(Tail(s), M)
         /\ EndsIn(s, M, G) => /\ EndsIn(Tail(s), M, G)
                               /\ Mentions(Tail(s), M) \/ Head(s) \notin M \/ Head(s) \in G
<1>1. /\ DOMAIN s = 1 .. Len(s) /\ DOMAIN Tail(s) = 1 .. Len(s) - 1
      /\ Head(s) = s[1] /\ Len(s) \in Nat /\ Len(s) > 0
      /\ \A i \in 1 .. Len(s) - 1 : Tail(s)[i] = s[i + 1]
  OBVIOUS
<1>2. \A i \in 1 .. Len(s) : i # 1 => i - 1 \in 1 .. Len(s) - 1 /\ s[i] = Tail(s)[i - 1]
  <2> TAKE i \in 1 .. Len(s)
  <2> HAVE i # 1
  <2>1. i - 1 \in 1 .. Len(s) - 1 /\ i = (i - 1) + 1
    BY <1>1
  <2> QED BY <1>1, <2>1
<1>3. Mentions(s, M) <=> Head(s) \in M \/ Mentions(Tail(s), M)
  BY TailSet, MentionsSet
<1>4. ASSUME EndsIn(s, M, G), ~Mentions(Tail(s), M), Head(s) \in M PROVE Head(s) \in G
  <2>1. \A j \in DOMAIN s : j > 1 => s[j] \notin M
    <3> TAKE j \in DOMAIN s
    <3> HAVE j > 1
    <3>1. j - 1 \in DOMAIN Tail(s) /\ s[j] = Tail(s)[j - 1]
      BY <1>1, <1>2
    <3> QED BY <3>1, <1>4 DEF Mentions
  <2>2. 1 \in DOMAIN s
    BY <1>1
  <2> QED BY <1>1, <1>4, <2>1, <2>2 DEF EndsIn
<1>5. ASSUME EndsIn(s, M, G) PROVE EndsIn(Tail(s), M, G)
  <2>1. Tail(s) = SubSeq(s, 1 + 1, Len(s)) /\ 1 \in 0 .. Len(s)
    BY <1>1
  <2> QED BY <1>5, <2>1, SuffixEnds
<1> QED BY <1>3, <1>4, <1>5
-------------------------------------------------------------------------------
\* From the first member of B on, no member of A.
Ordered(s, A, B) == \A i, j \in DOMAIN s : i < j /\ s[i] \in B => s[j] \notin A

LEMMA OrderedConcat ==
  ASSUME NEW S, NEW s \in Seq(S), NEW t \in Seq(S), NEW A, NEW B
  PROVE  Ordered(s \o t, A, B)
           <=> /\ Ordered(s, A, B) /\ Ordered(t, A, B)
               /\ ToSet(s) \cap B = {} \/ ToSet(t) \cap A = {}
<1> DEFINE m == Len(s) n == Len(t)
<1>1. /\ m \in Nat /\ n \in Nat /\ DOMAIN s = 1 .. m /\ DOMAIN t = 1 .. n
      /\ DOMAIN (s \o t) = 1 .. m + n
      /\ \A i \in 1 .. m : i \in 1 .. m + n /\ (s \o t)[i] = s[i]
      /\ \A i \in 1 .. n : i + m \in 1 .. m + n /\ (s \o t)[i + m] = t[i]
  OBVIOUS
<1>2. ASSUME Ordered(s \o t, A, B) PROVE Ordered(s, A, B)
  BY <1>1, <1>2 DEF Ordered
<1>3. ASSUME Ordered(s \o t, A, B) PROVE Ordered(t, A, B)
  <2> SUFFICES ASSUME NEW i \in 1 .. n, NEW j \in 1 .. n, i < j, t[i] \in B PROVE t[j] \notin A
    BY <1>1 DEF Ordered
  <2>1. i + m < j + m
    BY <1>1
  <2> QED BY <1>1, <1>3, <2>1 DEF Ordered
<1>4. ASSUME Ordered(s \o t, A, B), ToSet(s) \cap B # {} PROVE ToSet(t) \cap A = {}
  <2> SUFFICES ASSUME NEW j \in 1 .. n PROVE t[j] \notin A
    BY <1>1 DEF ToSet
  <2>1. PICK i \in 1 .. m : s[i] \in B
    BY <1>1, <1>4 DEF ToSet
  <2>2. i < j + m
    BY <1>1
  <2> QED BY <1>1, <1>4, <2>1, <2>2 DEF Ordered
<1>5. ASSUME Ordered(s, A, B), Ordered(t, A, B), ToSet(s) \cap B = {} \/ ToSet(t) \cap A = {}
      PROVE  Ordered(s \o t, A, B)
  <2> SUFFICES ASSUME NEW i \in 1 .. m + n, NEW j \in 1 .. m + n, i < j, (s \o t)[i] \in B
               PROVE  (s \o t)[j] \notin A
    BY <1>1 DEF Ordered
  <2>1. CASE j <= m
    <3>1. i \in 1 .. m /\ j \in 1 .. m
      BY <1>1, <2>1
    <3> QED BY <1>1, <1>5, <3>1 DEF Ordered
  <2>2. CASE i > m
    <3>1. i - m \in 1 .. n /\ j - m \in 1 .. n /\ i - m < j - m /\ i = (i - m) + m /\ j = (j - m) + m
      BY <1>1, <2>2
    <3>2. (s \o t)[i] = t[i - m] /\ (s \o t)[j] = t[j - m]
      BY <1>1, <3>1
    <3> QED BY <1>1, <1>5, <3>1, <3>2 DEF Ordered
  <2>3. CASE i <= m /\ j > m
    <3>1. i \in 1 .. m /\ j - m \in 1 .. n /\ j = (j - m) + m
      BY <1>1, <2>3
    <3>2. (s \o t)[i] = s[i] /\ (s \o t)[j] = t[j - m]
      BY <1>1, <3>1
    <3>3. s[i] \in ToSet(s) /\ t[j - m] \in ToSet(t)
      BY <1>1, <3>1 DEF ToSet
    <3> QED BY <1>5, <3>2, <3>3
  <2> QED BY <1>1, <2>1, <2>2, <2>3
<1> QED BY <1>2, <1>3, <1>4, <1>5

LEMMA ConsOrdered ==
  ASSUME NEW S, NEW e \in S, NEW s \in Seq(S), NEW A, NEW B
  PROVE  /\ <<e>> \o s \in Seq(S) /\ ToSet(<<e>> \o s) = {e} \cup ToSet(s)
         /\ Ordered(<<e>> \o s, A, B)
              <=> Ordered(s, A, B) /\ (e \in B => ToSet(s) \cap A = {})
<1>1. <<e>> \in Seq(S) /\ ToSet(<<e>>) = {e} /\ Ordered(<<e>>, A, B)
  BY DEF Ordered, ToSet
<1>2. <<e>> \o s \in Seq(S) /\ ToSet(<<e>> \o s) = ToSet(<<e>>) \cup ToSet(s)
  <2> DEFINE h == <<e>>
  <2>1. h \in Seq(S)
    BY <1>1
  <2> HIDE DEF h
  <2>2. h \o s \in Seq(S) /\ ToSet(h \o s) = ToSet(h) \cup ToSet(s)
    BY <2>1, ConcatSet
  <2> QED BY <2>2 DEF h
<1>3. Ordered(<<e>> \o s, A, B)
        <=> /\ Ordered(<<e>>, A, B) /\ Ordered(s, A, B)
            /\ ToSet(<<e>>) \cap B = {} \/ ToSet(s) \cap A = {}
  BY <1>1, OrderedConcat
<1> QED BY <1>1, <1>2, <1>3

LEMMA SnocOrdered ==
  ASSUME NEW S, NEW e \in S, NEW s \in Seq(S), NEW A, NEW B
  PROVE  /\ s \o <<e>> \in Seq(S) /\ ToSet(s \o <<e>>) = ToSet(s) \cup {e}
         /\ Ordered(s \o <<e>>, A, B)
              <=> Ordered(s, A, B) /\ (e \in A => ToSet(s) \cap B = {})
<1>1. <<e>> \in Seq(S) /\ ToSet(<<e>>) = {e} /\ Ordered(<<e>>, A, B)
  BY DEF Ordered, ToSet
<1>2. s \o <<e>> \in Seq(S) /\ ToSet(s \o <<e>>) = ToSet(s) \cup ToSet(<<e>>)
  <2> DEFINE h == <<e>>
  <2>1. h \in Seq(S)
    BY <1>1
  <2> HIDE DEF h
  <2>2. s \o h \in Seq(S) /\ ToSet(s \o h) = ToSet(s) \cup ToSet(h)
    BY <2>1, ConcatSet
  <2> QED BY <2>2 DEF h
<1>3. Ordered(s \o <<e>>, A, B)
        <=> /\ Ordered(s, A, B) /\ Ordered(<<e>>, A, B)
            /\ ToSet(s) \cap B = {} \/ ToSet(<<e>>) \cap A = {}
  BY <1>1, OrderedConcat
<1> QED BY <1>1, <1>2, <1>3
===============================================================================
