------------------------------ MODULE ScanProofs ------------------------------
(***************************************************************************)
(* What holds of the opening of a session for every set of devices, every  *)
(* width of a byte, depth of the scan and number of addresses, whatever    *)
(* the sessions before left on the bus: the address that is driven is held *)
(* by one device, no link is left behind, and the scan misses no device    *)
(* but by a lost frame and fails only over devices it cannot tell apart.   *)
(***************************************************************************)
EXTENDS Scan, SequenceSets, FiniteSetTheorems

-------------------------------------------------------------------------------
\* The types.  The uid of a probe is as long as its mask.
Probes == {p \in [uid : Seq(SUBSET Nat), mask : Seq(SUBSET Nat), depth : Nat] :
             Len(p.uid) = Len(p.mask)}

Steps == {"closed", "clearing", "scanning", "unresolved", "assigning", "probing",
          "trimming", "connecting", "connected", "releasing"}

BusTypes ==
  /\ present \in SUBSET Uids /\ addr \in [Uids -> Nat] /\ linked \in [Uids -> BOOLEAN]
  /\ lost \in Nat /\ garbled \in Nat

WorkTypes ==
  /\ pc \in Steps /\ own \in Nat /\ next \in Nat /\ peers \in SUBSET Nat
  /\ probes \in Seq(Probes)
  /\ found \in Seq(Uids) /\ ToSet(found) \subseteq present /\ IsInjective(found)
  /\ answered \in Seq(Addresses) /\ IsInjective(answered)

\* The addresses that answered the sweep lie below the one that is probed next,
\* and the peers of this link are those that were connected and not yet trimmed.
Swept ==
  /\ pc \in {"clearing", "probing", "trimming"} => found = <<>>
  /\ pc \in {"clearing", "scanning", "assigning"} => answered = <<>> /\ peers = {}
  /\ pc = "probing" => /\ next >= First /\ \A a \in ToSet(answered) : a < next
                       /\ peers = ToSet(answered)
  /\ pc = "trimming" => /\ next \in Addresses /\ next \notin ToSet(answered)
                        /\ peers = {next} \cup ToSet(answered)
  /\ pc = "connecting" => next \in Addresses /\ peers \subseteq {next}
  /\ pc = "connected" => own \in Addresses /\ peers = {own}

\* What a device that hears a DISC, or a SNRM, may have become.
Frees(a) ==
  /\ addr' \in [Uids -> Nat] /\ linked' \in [Uids -> BOOLEAN]
  /\ \A d \in Uids : \/ addr'[d] = addr[d] /\ linked'[d] = linked[d]
                     \/ d \in At(a) /\ addr'[d] = 0 /\ linked'[d] = FALSE
SetsUp(a) ==
  /\ addr' = addr /\ linked' \in [Uids -> BOOLEAN]
  /\ \A d \in Uids : linked'[d] = linked[d] \/ d \in At(a)

\* Faults are only counted up.
Counts == /\ lost' \in Nat /\ garbled' \in Nat
          /\ (lost = 0 \/ lost' # 0) /\ (garbled = 0 \/ garbled' # 0)

-------------------------------------------------------------------------------
\* The addresses the service gives out and probes.
LEMMA AddressFacts ==
  /\ First \in Addresses /\ First \in Nat /\ First # 0
  /\ \A a \in Addresses : a \in Nat /\ a >= First
BY ScanAssumption DEF Addresses, First

\* What an exchange leaves, by who obeyed and what became of the frames.
LEMMA FaultsCount ==
  ASSUME BusTypes, Clean \/ Lost \/ Noise
  PROVE  Counts /\ (Lost => lost' # 0) /\ (Noise => garbled' # 0)
BY DEF Clean, Lost, Noise, Counts, BusTypes

LEMMA Unheard ==
  ASSUME BusTypes, UNCHANGED <<addr, linked>>, NEW a
  PROVE  Frees(a) /\ SetsUp(a)
BY DEF BusTypes, Frees, SetsUp

LEMMA DisconnectsFrees ==
  ASSUME BusTypes, NEW a, Disconnects(a)
  PROVE  Frees(a) /\ \A d \in At(a) : addr'[d] = 0 /\ linked'[d] = FALSE
<1>1. \A d \in Uids : /\ d \in At(a) => addr'[d] = 0 /\ linked'[d] = FALSE
                      /\ d \notin At(a) => addr'[d] = addr[d] /\ linked'[d] = linked[d]
  BY DEF Disconnects, BusTypes
<1>2. addr' \in [Uids -> Nat] /\ linked' \in [Uids -> BOOLEAN]
  BY DEF Disconnects, BusTypes
<1>3. At(a) \subseteq Uids
  BY DEF At, BusTypes
<1> QED BY <1>1, <1>2, <1>3 DEF Frees

LEMMA ConnectsSetsUp ==
  ASSUME BusTypes, NEW a, Connects(a)
  PROVE  SetsUp(a) /\ \A d \in At(a) : linked'[d] = TRUE
BY DEF Connects, SetsUp, BusTypes, At

LEMMA DiscFrees ==
  ASSUME BusTypes, NEW a, Disc(a)
  PROVE  /\ Frees(a) /\ Counts /\ peers' = peers \ {a}
         /\ \/ lost' # 0
            \/ /\ \A d \in At(a) : addr'[d] = 0 /\ linked'[d] = FALSE
               /\ UNCHANGED <<lost, garbled>>
<1>1. CASE Clean /\ Disconnects(a)
  BY <1>1, DisconnectsFrees, FaultsCount DEF Disc, Clean
<1>2. CASE Lost /\ (Disconnects(a) \/ UNCHANGED <<addr, linked>>)
  BY <1>2, DisconnectsFrees, Unheard, FaultsCount DEF Disc
<1> QED BY <1>1, <1>2 DEF Disc

LEMMA SnrmSetsUp ==
  ASSUME BusTypes, NEW a, Snrm(a)
  PROVE  /\ SetsUp(a) /\ Counts /\ peers' = peers \cup {a} /\ UNCHANGED <<lost, garbled>>
         /\ Cardinality(At(a)) = 1 /\ \A d \in At(a) : linked'[d] = TRUE
BY ConnectsSetsUp, FaultsCount DEF Snrm, Clean

LEMMA NoUASetsUp ==
  ASSUME BusTypes, NEW a, NoUA(a)
  PROVE  /\ SetsUp(a) /\ Counts /\ peers' = peers
         /\ lost' # 0 \/ (At(a) = {} /\ UNCHANGED <<addr, linked, lost, garbled>>)
<1>1. CASE At(a) = {} /\ Clean /\ UNCHANGED <<addr, linked>>
  BY <1>1, Unheard, FaultsCount DEF NoUA, Clean
<1>2. CASE Lost /\ (Connects(a) \/ UNCHANGED <<addr, linked>>)
  BY <1>2, ConnectsSetsUp, Unheard, FaultsCount DEF NoUA
<1> QED BY <1>1, <1>2 DEF NoUA

LEMMA GarblesLeaves ==
  ASSUME BusTypes, NEW a, Garbles(a, Disconnects(a)) \/ Garbles(a, Connects(a))
  PROVE  (Frees(a) \/ SetsUp(a)) /\ Counts
<1>1. Clean \/ Noise
  BY DEF Garbles
<1>2. Disconnects(a) \/ Connects(a) \/ UNCHANGED <<addr, linked>>
  BY DEF Garbles
<1> QED BY <1>1, <1>2, DisconnectsFrees, ConnectsSetsUp, Unheard, FaultsCount

\* A crash leaves the bus as a DISC or a SNRM may leave it.
LEMMA CrashLeaves ==
  ASSUME BusTypes, Crash
  PROVE  /\ \E a : Frees(a) \/ SetsUp(a)
         /\ Counts /\ pc' \in {"closed", "releasing"}
         /\ UNCHANGED <<present, own, probes, found, answered, next, peers>>
<1>1. \E a : Garbles(a, Disconnects(a)) \/ Garbles(a, Connects(a))
  BY DEF Crash
<1> QED BY <1>1, GarblesLeaves DEF Crash, work

-------------------------------------------------------------------------------
\* The halves of a probe, in the terms Halves defines for itself.
NextBit(p) == ByteBits - 1 - (p.depth % ByteBits)
Longer(p)  == IF Len(p.uid) < Len(Grow(p.mask)) THEN Append(p.uid, {}) ELSE p.uid
Half(p, u) == [uid |-> u, mask |-> WithBit(Grow(p.mask), NextBit(p)), depth |-> p.depth + 1]

LEMMA HalvesAre ==
  ASSUME NEW p
  PROVE  Halves(p) = <<Half(p, Longer(p)), Half(p, WithBit(Longer(p), NextBit(p)))>>
BY DEF Halves, Half, Longer, NextBit, AskFor1

\* What the parts of a half are, element by element.
LEMMA NextBitType ==
  ASSUME NEW p \in Probes
  PROVE  NextBit(p) \in 0 .. ByteBits - 1
<1>1. p.depth \in Nat /\ ByteBits \in Nat /\ ByteBits > 0
  BY ScanAssumption DEF Probes
<1>2. p.depth % ByteBits \in 0 .. ByteBits - 1
  BY <1>1
<1> QED BY <1>1, <1>2 DEF NextBit

LEMMA WithBitType ==
  ASSUME NEW s \in Seq(SUBSET Nat), NEW bit \in Nat
  PROVE  /\ WithBit(s, bit) \in Seq(SUBSET Nat) /\ Len(WithBit(s, bit)) = Len(s)
         /\ \A i \in 1 .. Len(s) :
              WithBit(s, bit)[i] = IF i = Len(s) THEN s[i] \cup {bit} ELSE s[i]
<1>1. PICK n \in Nat : n = Len(s) /\ s \in [1 .. n -> SUBSET Nat]
  OBVIOUS
<1>2. PICK w : w = [s EXCEPT ![n] = @ \cup {bit}]
  OBVIOUS
<1>3. w \in [1 .. n -> SUBSET Nat] /\ \A i \in 1 .. n : w[i] = IF i = n THEN s[i] \cup {bit} ELSE s[i]
  BY <1>1, <1>2
<1>4. w \in Seq(SUBSET Nat)
  BY <1>3, SeqDef
<1>5. Len(w) = n
  <2>1. PICK k \in Nat : k = Len(w) /\ 1 .. k = 1 .. n
    BY <1>3, <1>4
  <2>2. (k > 0 => k \in 1 .. n) /\ (n > 0 => n \in 1 .. k)
    BY <2>1
  <2> QED BY <2>1, <2>2
<1> QED BY <1>1, <1>2, <1>3, <1>4, <1>5 DEF WithBit

LEMMA GrowType ==
  ASSUME NEW m \in Seq(SUBSET Nat)
  PROVE  /\ Grow(m) \in Seq(SUBSET Nat) /\ Len(Grow(m)) \in Len(m) .. Len(m) + 1
         /\ Len(Grow(m)) > 0
         /\ \A i \in 1 .. Len(m) : Grow(m)[i] = m[i]
         /\ Len(Grow(m)) = Len(m) + 1 => Grow(m)[Len(m) + 1] = {}
<1>1. /\ Append(m, {}) \in Seq(SUBSET Nat) /\ Len(Append(m, {})) = Len(m) + 1
      /\ \A i \in 1 .. Len(m) : Append(m, {})[i] = m[i]
      /\ Append(m, {})[Len(m) + 1] = {}
  OBVIOUS
<1>2. Len(m) \in Nat /\ (m # <<>> => Len(m) > 0)
  OBVIOUS
<1>3. CASE Grow(m) = Append(m, {})
  BY <1>1, <1>2, <1>3
<1>4. CASE Grow(m) = m /\ m # <<>>
  BY <1>2, <1>4
<1> QED BY <1>3, <1>4 DEF Grow

LEMMA LongerType ==
  ASSUME NEW p \in Probes
  PROVE  /\ Longer(p) \in Seq(SUBSET Nat) /\ Len(Longer(p)) = Len(Grow(p.mask))
         /\ \A i \in 1 .. Len(p.uid) : Longer(p)[i] = p.uid[i]
         /\ Len(Longer(p)) = Len(p.uid) + 1 => Longer(p)[Len(p.uid) + 1] = {}
<1>1. /\ p.mask \in Seq(SUBSET Nat) /\ p.uid \in Seq(SUBSET Nat)
      /\ Len(p.uid) = Len(p.mask)
  BY DEF Probes
<1>2. PICK n \in Nat : n = Len(Grow(p.mask))
  BY <1>1, GrowType
<1>3. n \in Len(p.uid) .. Len(p.uid) + 1 /\ Len(p.uid) \in Nat
  BY <1>1, <1>2, GrowType
<1>4. PICK u \in Seq(SUBSET Nat) : u = p.uid
  BY <1>1
<1>5. /\ Append(u, {}) \in Seq(SUBSET Nat) /\ Len(Append(u, {})) = Len(u) + 1
      /\ \A i \in 1 .. Len(u) : Append(u, {})[i] = u[i]
      /\ Append(u, {})[Len(u) + 1] = {}
  OBVIOUS
<1> QED BY <1>2, <1>3, <1>4, <1>5 DEF Longer

LEMMA HalfType ==
  ASSUME NEW p \in Probes,
         NEW u \in {Longer(p), WithBit(Longer(p), NextBit(p))}
  PROVE  Half(p, u) \in Probes
<1>1. p.mask \in Seq(SUBSET Nat) /\ p.depth \in Nat
  BY DEF Probes
<1>2. NextBit(p) \in Nat
  BY NextBitType
<1>3. Grow(p.mask) \in Seq(SUBSET Nat)
  BY <1>1, GrowType
<1>4. u \in Seq(SUBSET Nat) /\ Len(u) = Len(Grow(p.mask))
  <2>1. Longer(p) \in Seq(SUBSET Nat) /\ Len(Longer(p)) = Len(Grow(p.mask))
    BY LongerType
  <2> QED BY <1>2, <2>1, WithBitType
<1>5. /\ WithBit(Grow(p.mask), NextBit(p)) \in Seq(SUBSET Nat)
      /\ Len(WithBit(Grow(p.mask), NextBit(p))) = Len(Grow(p.mask))
  BY <1>2, <1>3, WithBitType
<1> QED BY <1>1, <1>4, <1>5 DEF Half, Probes

-------------------------------------------------------------------------------
\* What a step does to the bus.
BusStep == /\ present' = present /\ Counts
           /\ addr' \in [Uids -> Nat] /\ linked' \in [Uids -> BOOLEAN]

LEMMA BusTypesStep == BusTypes /\ WorkTypes /\ [Next]_vars => BusTypes' /\ BusStep
<1> SUFFICES ASSUME BusTypes, WorkTypes, [Next]_vars PROVE BusStep
  BY DEF BusTypes, BusStep, Counts
<1>0. UNCHANGED <<bus, lost, garbled>> => BusStep
  BY DEF bus, BusTypes, BusStep, Counts
<1>1. \A a : (Frees(a) \/ SetsUp(a)) /\ Counts /\ present' = present => BusStep
  BY DEF Frees, SetsUp, BusStep, BusTypes
<1>2. \A a : Disc(a) /\ present' = present => BusStep
  BY <1>1, DiscFrees
<1>3. \A a : (Snrm(a) \/ NoUA(a)) /\ present' = present => BusStep
  BY <1>1, SnrmSetsUp, NoUASetsUp
<1>4. UNCHANGED bus /\ (Clean \/ Lost \/ Noise) => BusStep
  <2>1. Clean \/ Lost \/ Noise => Counts
    BY FaultsCount
  <2> QED BY <2>1 DEF bus, BusTypes, BusStep
<1>5. CASE Open
  BY <1>0, <1>5 DEF Open
<1>6. CASE Clear
  BY <1>2, <1>6 DEF Clear
<1>7. CASE Cleared
  BY <1>0, <1>7 DEF Cleared
<1>8. CASE ProbeAnswered
  BY <1>4, <1>8 DEF ProbeAnswered, scanFrame
<1>9. CASE ProbeSilent
  BY <1>4, <1>9 DEF ProbeSilent, scanFrame
<1>10. CASE ProbeGarbled
  BY <1>4, <1>10 DEF ProbeGarbled, scanFrame
<1>11. CASE Unresolved
  BY <1>0, <1>11 DEF Unresolved
<1>12. CASE Scanned
  BY <1>0, <1>12 DEF Scanned
<1>13. CASE Assign
  <2>1. Counts
    BY <1>13, FaultsCount DEF Assign
  <2>2. TakesAddress => addr' \in [Uids -> Nat] /\ linked' = linked
    BY DEF TakesAddress, BusTypes, WorkTypes
  <2> QED BY <1>13, <2>1, <2>2 DEF Assign, BusStep, BusTypes
<1>14. CASE Assigned
  BY <1>0, <1>14 DEF Assigned
<1>15. CASE ProbeAddress
  BY <1>3, <1>15 DEF ProbeAddress
<1>16. CASE Probed
  BY <1>0, <1>16 DEF Probed
<1>17. CASE Trim
  BY <1>2, <1>17 DEF Trim
<1>18. CASE Trimmed
  BY <1>0, <1>18 DEF Trimmed
<1>19. CASE Connect
  BY <1>3, <1>19 DEF Connect
<1>20. CASE Crash
  BY <1>1, <1>20, CrashLeaves
<1>21. CASE Release
  BY <1>2, <1>21 DEF Release
<1>22. CASE UNCHANGED vars
  BY <1>0, <1>22 DEF vars
<1> QED BY <1>5, <1>6, <1>7, <1>8, <1>9, <1>10, <1>11, <1>12, <1>13, <1>14, <1>15,
           <1>16, <1>17, <1>18, <1>19, <1>20, <1>21, <1>22 DEF Next, Worker

-------------------------------------------------------------------------------
\* The worker's own state.
\* The lists, one entry less or more.
LEMMA ProbesTail ==
  ASSUME WorkTypes, probes # <<>>
  PROVE  Head(probes) \in Probes /\ Tail(probes) \in Seq(Probes)
BY DEF WorkTypes

LEMMA FirstProbe == <<[uid |-> <<>>, mask |-> <<>>, depth |-> 0]>> \in Seq(Probes)
<1>1. PICK p : p = [uid |-> <<>>, mask |-> <<>>, depth |-> 0]
  OBVIOUS
<1>2. p \in Probes
  BY <1>1 DEF Probes
<1>3. <<p>> \in Seq(Probes)
  BY <1>2
<1> QED BY <1>1, <1>3

LEMMA SplitProbe ==
  ASSUME WorkTypes, probes # <<>>
  PROVE  Halves(Head(probes)) \o Tail(probes) \in Seq(Probes)
<1>1. Head(probes) \in Probes /\ Tail(probes) \in Seq(Probes)
  BY ProbesTail
<1>2. PICK p \in Probes : p = Head(probes)
  BY <1>1
<1>3. Halves(p) \in Seq(Probes)
  <2>1. PICK h0 \in Probes : h0 = Half(p, Longer(p))
    BY HalfType
  <2>2. PICK h1 \in Probes : h1 = Half(p, WithBit(Longer(p), NextBit(p)))
    BY HalfType
  <2>3. Halves(p) = <<h0, h1>>
    BY <2>1, <2>2, HalvesAre
  <2> QED BY <2>3
<1> QED BY <1>1, <1>2, <1>3, ConcatSet

LEMMA AnsweredTail ==
  ASSUME WorkTypes, answered # <<>>
  PROVE  /\ Head(answered) \in Addresses /\ Tail(answered) \in Seq(Addresses)
         /\ IsInjective(Tail(answered)) /\ Head(answered) \notin ToSet(Tail(answered))
         /\ ToSet(answered) = {Head(answered)} \cup ToSet(Tail(answered))
<1>1. answered \in Seq(Addresses) /\ IsInjective(answered)
  BY DEF WorkTypes
<1>2. Head(answered) \in Addresses /\ Tail(answered) \in Seq(Addresses)
  BY <1>1
<1> QED BY <1>1, <1>2, TailSet

LEMMA AnsweredGrows ==
  ASSUME WorkTypes, next \in Addresses, \A a \in ToSet(answered) : a < next
  PROVE  /\ Append(answered, next) \in Seq(Addresses) /\ IsInjective(Append(answered, next))
         /\ ToSet(Append(answered, next)) = ToSet(answered) \cup {next}
         /\ \A a \in ToSet(Append(answered, next)) : a < next + 1
<1>1. answered \in Seq(Addresses) /\ IsInjective(answered) /\ next \in Nat
  BY DEF WorkTypes
<1>2. next \notin ToSet(answered) /\ ToSet(answered) \subseteq Nat
  <2>1. ToSet(answered) \subseteq Addresses
    BY <1>1, MemberTypes
  <2>2. ToSet(answered) \subseteq Nat
    BY <2>1, AddressFacts
  <2>3. ~(next < next)
    BY <1>1
  <2> QED BY <2>2, <2>3
<1>3. Append(answered, next) \in Seq(Addresses)
  BY <1>1
<1>4. ToSet(Append(answered, next)) = ToSet(answered) \cup {next}
      /\ IsInjective(Append(answered, next))
  BY <1>1, <1>2, AppendSet
<1> QED BY <1>1, <1>2, <1>3, <1>4

LEMMA FoundGrows ==
  ASSUME BusTypes, WorkTypes, NEW d \in present
  PROVE  LET new == IF Contains(found, d) THEN found ELSE Append(found, d)
         IN  /\ new \in Seq(Uids) /\ IsInjective(new) /\ new # <<>>
             /\ ToSet(new) = ToSet(found) \cup {d}
<1>1. found \in Seq(Uids) /\ IsInjective(found) /\ d \in Uids
  BY DEF WorkTypes, BusTypes
<1>2. Contains(found, d) <=> d \in ToSet(found)
  BY <1>1 DEF Contains, ToSet
<1>3. /\ Append(found, d) \in Seq(Uids) /\ ToSet(Append(found, d)) = ToSet(found) \cup {d}
      /\ d \notin ToSet(found) => IsInjective(Append(found, d))
  BY <1>1, AppendSet
<1>4. \A x : x \in ToSet(found) => found # <<>>
  BY EmptySet
<1> QED BY <1>1, <1>2, <1>3, <1>4

\* What the worker keeps stays of its type, step by step.
LEMMA WorkTypesStep == BusTypes /\ WorkTypes /\ Swept /\ [Next]_vars => WorkTypes'
<1> SUFFICES ASSUME BusTypes, WorkTypes, Swept, [Next]_vars PROVE WorkTypes'
  OBVIOUS
<1>0. present' = present
  BY BusTypesStep DEF BusStep
<1> USE <1>0 DEF WorkTypes, Steps
<1>1. CASE Open
  BY <1>1, EmptySet DEF Open
<1>2. CASE Clear
  <2>1. \A a \in NextStale : a \in Nat
    BY AddressFacts DEF NextStale, Stale
  <2> QED BY <1>2, <2>1 DEF Clear, Disc
<1>3. CASE Cleared
  BY <1>3, FirstProbe DEF Cleared
<1>4. CASE ProbeAnswered
  <2>1. PICK d \in present :
          found' = IF Contains(found, d) THEN found ELSE Append(found, d)
    BY <1>4 DEF ProbeAnswered, Answering, At
  <2>2. found' \in Seq(Uids) /\ IsInjective(found') /\ ToSet(found') \subseteq present
    BY <2>1, FoundGrows
  <2> QED BY <1>4, <2>2, ProbesTail DEF ProbeAnswered, scanFrame
<1>5. CASE ProbeSilent
  BY <1>5, ProbesTail DEF ProbeSilent, scanFrame
<1>6. CASE ProbeGarbled
  BY <1>6, SplitProbe DEF ProbeGarbled, scanFrame
<1>7. CASE Unresolved
  BY <1>7 DEF Unresolved, GiveUp
<1>8. CASE Scanned
  BY <1>8, AddressFacts DEF Scanned, WhenSilent
<1>9. CASE Assign
  BY <1>9 DEF Assign, GiveUp
<1>10. CASE Assigned
  BY <1>10, AddressFacts DEF Assigned
<1>11. CASE ProbeAddress
  <2>1. /\ Append(answered, next) \in Seq(Addresses)
        /\ IsInjective(Append(answered, next))
    BY <1>11, AnsweredGrows DEF ProbeAddress, Swept
  <2>2. peers' = peers \cup {next} \/ peers' = peers
    BY <1>11 DEF ProbeAddress, Snrm, NoUA
  <2>3. answered' \in Seq(Addresses) /\ IsInjective(answered')
    <3>1. CASE answered' = Append(answered, next)
      BY <2>1, <3>1
    <3>2. CASE answered' = answered
      BY <3>2
    <3> QED BY <1>11, <3>1, <3>2 DEF ProbeAddress
  <2>4. next' \in Nat
    BY <1>11 DEF ProbeAddress
  <2>5. peers' \in SUBSET Nat
    BY <2>2
  <2> QED BY <1>11, <2>3, <2>4, <2>5 DEF ProbeAddress
<1>12. CASE Probed
  <2>1. answered # <<>> =>
          /\ Head(answered) \in Nat /\ Tail(answered) \in Seq(Addresses)
          /\ IsInjective(Tail(answered))
    BY AnsweredTail, AddressFacts
  <2>2. next' \in Nat /\ own' \in Nat /\ answered' \in Seq(Addresses) /\ IsInjective(answered')
    <3>1. CASE answered = <<>>
      BY <1>12, <3>1 DEF Probed, GiveUp
    <3>2. CASE answered # <<>>
      BY <1>12, <2>1, <3>2 DEF Probed
    <3> QED BY <3>1, <3>2
  <2> QED BY <1>12, <2>2 DEF Probed, GiveUp
<1>13. CASE Trim
  BY <1>13, AnsweredTail DEF Trim, Disc
<1>14. CASE Trimmed
  BY <1>14 DEF Trimmed, work
<1>15. CASE Connect
  <2>1. peers' = peers \cup {next} \/ peers' = peers
    BY <1>15 DEF Connect, Snrm, NoUA
  <2>2. own' \in Nat /\ pc' \in Steps
    BY <1>15 DEF Connect, GiveUp
  <2> QED BY <1>15, <2>1, <2>2 DEF Connect
<1>16. CASE Crash
  BY <1>16, CrashLeaves
<1>17. CASE Release
  BY <1>17 DEF Release, Disc
<1>18. CASE UNCHANGED vars
  BY <1>18 DEF vars, work
<1> QED BY <1>1, <1>2, <1>3, <1>4, <1>5, <1>6, <1>7, <1>8, <1>9, <1>10, <1>11, <1>12,
           <1>13, <1>14, <1>15, <1>16, <1>17, <1>18 DEF Next, Worker

\* The sweep and the trimming keep the account of answers and peers.
LEMMA SweptStep == BusTypes /\ WorkTypes /\ Swept /\ [Next]_vars => Swept'
<1> SUFFICES ASSUME BusTypes, WorkTypes, Swept, [Next]_vars PROVE Swept'
  OBVIOUS
<1> USE DEF Swept
<1>1. CASE Open
  BY <1>1 DEF Open
<1>2. CASE Clear
  BY <1>2 DEF Clear, Disc
<1>3. CASE Cleared
  BY <1>3 DEF Cleared
<1>4. CASE ProbeAnswered
  BY <1>4 DEF ProbeAnswered, scanFrame
<1>5. CASE ProbeSilent
  BY <1>5 DEF ProbeSilent, scanFrame
<1>6. CASE ProbeGarbled
  BY <1>6 DEF ProbeGarbled, scanFrame
<1>7. CASE Unresolved
  BY <1>7 DEF Unresolved, GiveUp
<1>8. CASE Scanned
  BY <1>8, EmptySet, AddressFacts DEF Scanned, WhenSilent
<1>9. CASE Assign
  BY <1>9 DEF Assign, GiveUp
<1>10. CASE Assigned
  BY <1>10, AddressFacts DEF Assigned
<1>11. CASE ProbeAddress
  <2>1. next + 1 >= First /\ (\A a \in ToSet(answered) : a < next + 1)
    <3>1. next \in Nat /\ First \in Nat /\ ToSet(answered) \subseteq Nat
      BY AddressFacts, MemberTypes DEF WorkTypes
    <3> QED BY <1>11, <3>1 DEF ProbeAddress
  <2>2. /\ ToSet(Append(answered, next)) = ToSet(answered) \cup {next}
        /\ \A a \in ToSet(Append(answered, next)) : a < next + 1
    BY <1>11, AnsweredGrows DEF ProbeAddress
  <2> QED BY <1>11, <2>1, <2>2 DEF ProbeAddress, Snrm, NoUA
<1>12. CASE Probed
  BY <1>12, AnsweredTail DEF Probed, GiveUp
<1>13. CASE Trim
  BY <1>13, AnsweredTail DEF Trim, Disc
<1>14. CASE Trimmed
  BY <1>14, EmptySet DEF Trimmed, work
<1>15. CASE Connect
  BY <1>15 DEF Connect, Snrm, NoUA, GiveUp
<1>16. CASE Crash
  BY <1>16, CrashLeaves
<1>17. CASE Release
  BY <1>17 DEF Release, Disc
<1>18. CASE UNCHANGED vars
  BY <1>18 DEF vars, work
<1> QED BY <1>1, <1>2, <1>3, <1>4, <1>5, <1>6, <1>7, <1>8, <1>9, <1>10, <1>11, <1>12,
           <1>13, <1>14, <1>15, <1>16, <1>17, <1>18 DEF Next, Worker

-------------------------------------------------------------------------------
\* A device with a link has an address the service uses; what was found and has
\* not been assigned an address yet has none.
Held ==
  /\ \A d \in Uids : linked[d] => addr[d] \in Addresses
  /\ \A d \in Uids : d \notin present => addr[d] = 0
  /\ pc = "scanning" => \A d \in ToSet(found) : addr[d] = 0
  /\ pc = "assigning" =>
       /\ found # <<>> /\ next - First \in 0 .. Len(found)
       /\ \A i \in DOMAIN found : i > next - First => addr[found[i]] = 0

\* The steps of the scan and the assignment, by where they lead.
LEMMA ScanCases ==
  ASSUME [Next]_vars, pc' \in {"scanning", "unresolved", "assigning"}
  PROVE  \/ Cleared \/ ProbeAnswered \/ ProbeSilent \/ ProbeGarbled \/ Scanned
         \/ pc = "assigning" /\ Assign /\ Clean /\ TakesAddress /\ next' = next + 1
            /\ pc' = "assigning"
         \/ UNCHANGED vars
BY DEF Next, Worker, Open, Clear, Unresolved, GiveUp, Assign, Assigned, ProbeAddress, Probed,
       Trim, Trimmed, Connect, Crash, Release

LEMMA ClearingCases ==
  ASSUME [Next]_vars, pc' = "clearing"
  PROVE  Open \/ Clear \/ UNCHANGED vars
BY DEF Next, Worker, Cleared, ProbeAnswered, ProbeSilent, ProbeGarbled, Unresolved, GiveUp,
       Scanned, WhenSilent, Assign, Assigned, ProbeAddress, Probed, Trim, Trimmed, Connect,
       Crash, Release

\* The steps that lead from there to a link.
LEMMA SweepCases ==
  ASSUME [Next]_vars, pc' \in {"probing", "trimming", "connecting", "connected"}
  PROVE  \/ Scanned \/ Assigned \/ ProbeAddress \/ Probed \/ Trim \/ Trimmed \/ Connect
         \/ UNCHANGED vars
BY DEF Next, Worker, Open, Clear, Cleared, ProbeAnswered, ProbeSilent, ProbeGarbled,
       Unresolved, GiveUp, Assign, Crash, Release

\* The device that is given an address is one that was found and has none.
LEMMA Assigning ==
  ASSUME BusTypes, WorkTypes, Held, Assign
  PROVE  LET k == next - First + 1
         IN  /\ k \in DOMAIN found /\ Assignee = found[k] /\ Assignee \in present
             /\ addr[Assignee] = 0
             /\ \A i \in DOMAIN found : i # k => found[i] # Assignee
<1>1. next - First \in 0 .. Len(found) /\ next - First < Len(found) /\ Len(found) \in Nat
  BY DEF Assign, Held, WorkTypes
<1>2. PICK k : k = next - First + 1
  OBVIOUS
<1>3. k \in DOMAIN found /\ k > next - First
  BY <1>1, <1>2 DEF WorkTypes
<1>4. Assignee = found[k] /\ Assignee \in ToSet(found)
  BY <1>2, <1>3 DEF Assignee, ToSet
<1>5. addr[Assignee] = 0
  BY <1>3, <1>4 DEF Held, Assign
<1>6. \A i \in DOMAIN found : i # k => found[i] # Assignee
  BY <1>3, <1>4 DEF WorkTypes, IsInjective
<1> QED BY <1>2, <1>3, <1>4, <1>5, <1>6 DEF WorkTypes

\* What a step may do to the devices.
LEMMA BusChange ==
  ASSUME BusTypes, WorkTypes, Swept, [Next]_vars
  PROVE  \/ UNCHANGED <<addr, linked>>
         \/ \E a : Frees(a)
         \/ \E a \in Addresses : SetsUp(a)
         \/ Assign /\ TakesAddress
<1>1. ASSUME NEW a, Disc(a) PROVE Frees(a)
  BY <1>1, DiscFrees
<1>2. ASSUME NEW a, Snrm(a) \/ NoUA(a) PROVE SetsUp(a)
  BY <1>2, SnrmSetsUp, NoUASetsUp
<1>3. ASSUME NEW a, Garbles(a, Disconnects(a)) PROVE UNCHANGED <<addr, linked>> \/ Frees(a)
  BY <1>3, DisconnectsFrees DEF Garbles
<1>4. ASSUME NEW a, Garbles(a, Connects(a)) PROVE UNCHANGED <<addr, linked>> \/ SetsUp(a)
  BY <1>4, ConnectsSetsUp DEF Garbles
<1>5. CASE Clear \/ Trim \/ Release
  BY <1>1, <1>5 DEF Clear, Trim, Release
<1>6. CASE ProbeAddress \/ Connect
  BY <1>2, <1>6 DEF ProbeAddress, Connect, Swept
<1>7. CASE Crash
  BY <1>3, <1>4, <1>7 DEF Crash, Swept
<1>8. CASE Assign
  BY <1>8 DEF Assign
<1>9. CASE Open \/ Cleared \/ ProbeAnswered \/ ProbeSilent \/ ProbeGarbled \/ Unresolved
  BY <1>9 DEF Open, Cleared, ProbeAnswered, ProbeSilent, ProbeGarbled, Unresolved, scanFrame, bus
<1>10. CASE Scanned \/ Assigned \/ Probed \/ Trimmed \/ UNCHANGED vars
  BY <1>10 DEF Scanned, Assigned, Probed, Trimmed, vars, bus
<1> QED BY <1>5, <1>6, <1>7, <1>8, <1>9, <1>10 DEF Next, Worker

\* Links come with addresses, and the devices found without.
LEMMA HeldStep == BusTypes /\ WorkTypes /\ Swept /\ Held /\ [Next]_vars => Held'
<1> SUFFICES ASSUME BusTypes, WorkTypes, Swept, Held, [Next]_vars PROVE Held'
  OBVIOUS
<1>0. present' = present /\ 0 \notin Addresses /\ First \in Nat /\ next \in Nat
  BY BusTypesStep, AddressFacts DEF BusStep, WorkTypes, First
<1>1. ASSUME NEW d \in Uids
      PROVE  (linked'[d] => addr'[d] \in Addresses) /\ (d \notin present => addr'[d] = 0)
  <2>1. (linked[d] => addr[d] \in Addresses) /\ (d \notin present => addr[d] = 0)
    BY DEF Held
  <2>2. CASE UNCHANGED <<addr, linked>>
    BY <2>1, <2>2
  <2>3. CASE \E a : Frees(a)
    BY <2>1, <2>3 DEF Frees, At
  <2>4. CASE \E a \in Addresses : SetsUp(a)
    BY <2>1, <2>4 DEF SetsUp, At
  <2>5. CASE Assign /\ TakesAddress
    <3>1. Assignee \in present /\ addr[Assignee] = 0
      BY <2>5, Assigning
    <3>2. linked' = linked /\ (d # Assignee => addr'[d] = addr[d])
      BY <2>5 DEF TakesAddress, BusTypes
    <3> QED BY <1>0, <2>1, <3>1, <3>2
  <2> QED BY <2>2, <2>3, <2>4, <2>5, BusChange
<1>2. ASSUME pc' = "scanning" PROVE \A d \in ToSet(found') : addr'[d] = 0
  <2>1. CASE Cleared
    BY <2>1, EmptySet DEF Cleared, Swept
  <2>2. CASE ProbeAnswered
    <3>1. PICK d \in present : /\ d \in At(0)
            /\ found' = IF Contains(found, d) THEN found ELSE Append(found, d)
      BY <2>2 DEF ProbeAnswered, Answering, At
    <3>2. ToSet(found') = ToSet(found) \cup {d}
      BY <3>1, FoundGrows
    <3> QED BY <2>2, <3>1, <3>2 DEF ProbeAnswered, scanFrame, bus, At, Held
  <2>3. CASE ProbeSilent \/ ProbeGarbled \/ UNCHANGED vars
    BY <1>2, <2>3 DEF ProbeSilent, ProbeGarbled, scanFrame, bus, vars, work, Held
  <2> QED BY <1>2, <2>1, <2>2, <2>3, ScanCases DEF Scanned, WhenSilent
<1>3. ASSUME pc' = "assigning"
      PROVE  /\ found' # <<>> /\ next' - First \in 0 .. Len(found')
             /\ \A i \in DOMAIN found' : i > next' - First => addr'[found'[i]] = 0
  <2>1. CASE Scanned
    <3>1. found' = found /\ found # <<>> /\ next' = First /\ addr' = addr /\ pc = "scanning"
      BY <1>3, <2>1 DEF Scanned, WhenSilent, bus
    <3>2. \A i \in DOMAIN found : addr[found[i]] = 0
      BY <3>1 DEF Held, ToSet
    <3>3. First - First \in 0 .. Len(found)
      BY <1>0 DEF WorkTypes
    <3> QED BY <3>1, <3>2, <3>3
  <2>2. CASE pc = "assigning" /\ Assign /\ Clean /\ TakesAddress /\ next' = next + 1
    <3>1. found' = found /\ found # <<>> /\ addr' = [addr EXCEPT ![Assignee] = next]
      BY <2>2 DEF Assign, TakesAddress, Held
    <3>2. /\ next + 1 - First \in 0 .. Len(found)
          /\ \A i \in DOMAIN found : i > next + 1 - First => i > next - First /\ i # next - First + 1
      BY <1>0, <2>2 DEF Assign, Held, WorkTypes
    <3>3. \A i \in DOMAIN found : i # next - First + 1 => found[i] # Assignee
      BY <2>2, Assigning
    <3>4. \A i \in DOMAIN found : i > next - First => addr[found[i]] = 0
      BY <2>2 DEF Held
    <3>5. \A i \in DOMAIN found : found[i] \in Uids
      BY DEF WorkTypes
    <3>6. \A i \in DOMAIN found : i > next + 1 - First => addr'[found[i]] = 0
      BY <3>1, <3>2, <3>3, <3>4, <3>5 DEF BusTypes
    <3>7. found' = found /\ next' = next + 1 /\ found # <<>>
      BY <2>2, <3>1
    <3>8. found' # <<>>
      BY <3>7
    <3>9. next' - First \in 0 .. Len(found')
      BY <1>0, <3>2, <3>7
    <3>10. \A i \in DOMAIN found' : i > next' - First => addr'[found'[i]] = 0
      BY <1>0, <3>6, <3>7
    <3> QED BY <3>8, <3>9, <3>10
  <2>3. CASE UNCHANGED vars
    BY <1>3, <2>3 DEF vars, work, bus, Held
  <2> QED BY <1>3, <2>1, <2>2, <2>3, ScanCases
          DEF Cleared, ProbeAnswered, ProbeSilent, ProbeGarbled
<1> QED BY <1>0, <1>1, <1>2, <1>3 DEF Held

-------------------------------------------------------------------------------
\* Who holds the address that is driven.  After the sweep it is a device that
\* answered alone; after the assignment it is the first that was found, for the
\* address was free, if no frame was lost or garbled.
AloneSwept ==
  /\ pc = "probing" => \A a \in ToSet(answered) : Cardinality(At(a)) = 1
  /\ pc = "trimming" \/ (pc = "connecting" /\ found = <<>>) => Cardinality(At(next)) = 1
  /\ pc = "connecting" /\ found # <<>> => next = First

Undisturbed == lost = 0 /\ garbled = 0

FirstFree == \/ pc = "clearing" /\ next >= First
             \/ pc = "scanning"
             \/ pc = "assigning" /\ next = First
FirstGiven == \/ pc = "assigning" /\ next > First
              \/ pc = "connecting" /\ found # <<>>

AloneFound ==
  Undisturbed => /\ FirstFree => At(First) = {}
                 /\ FirstGiven => At(First) = {found[1]}

\* What is undisturbed has been so all along.
LEMMA UndisturbedBefore == BusTypes /\ WorkTypes /\ [Next]_vars /\ Undisturbed' => Undisturbed
BY BusTypesStep DEF BusStep, Counts, Undisturbed

\* Who holds an address after the step.
After(x) == {d \in present' : addr'[d] = x}

LEMMA AfterFrees ==
  ASSUME BusTypes, NEW a, Frees(a), present' = present, NEW x, x # a, x # 0
  PROVE  After(x) = At(x)
BY DEF After, At, Frees, BusTypes

LEMMA AfterSetsUp ==
  ASSUME BusTypes, NEW a, SetsUp(a), present' = present, NEW x
  PROVE  After(x) = At(x)
BY DEF After, At, SetsUp

LEMMA AfterSame ==
  ASSUME UNCHANGED bus, NEW x
  PROVE  After(x) = At(x)
BY DEF After, At, bus

\* Who answered alone still holds the address alone.
LEMMA AloneSweptStep ==
  BusTypes /\ WorkTypes /\ Swept /\ Held /\ AloneSwept /\ [Next]_vars => AloneSwept'
<1> SUFFICES ASSUME BusTypes, WorkTypes, Swept, Held, AloneSwept, [Next]_vars
             PROVE  AloneSwept'
  OBVIOUS
<1> DEFINE Goal == /\ pc' = "probing" => \A a \in ToSet(answered') : Cardinality(After(a)) = 1
                   /\ pc' = "trimming" \/ (pc' = "connecting" /\ found' = <<>>)
                        => Cardinality(After(next')) = 1
                   /\ pc' = "connecting" /\ found' # <<>> => next' = First
<1>1. SUFFICES Goal
  BY DEF AloneSwept, At, After
<1>2. CASE Scanned
  BY <1>2, EmptySet DEF Scanned, WhenSilent, Swept
<1>3. CASE Assigned
  BY <1>3 DEF Assigned, Held
<1>4. CASE ProbeAddress
  <2>1. \A x : After(x) = At(x)
    BY <1>4, AfterSetsUp, SnrmSetsUp, NoUASetsUp DEF ProbeAddress
  <2>2. \A a \in ToSet(answered') : Cardinality(At(a)) = 1
    <3>1. CASE Snrm(next) /\ answered' = Append(answered, next)
      BY <1>4, <3>1, AnsweredGrows, SnrmSetsUp DEF ProbeAddress, Swept, AloneSwept
    <3>2. CASE answered' = answered
      BY <1>4, <3>2 DEF ProbeAddress, AloneSwept
    <3> QED BY <1>4, <3>1, <3>2 DEF ProbeAddress
  <2> QED BY <1>4, <2>1, <2>2 DEF ProbeAddress
<1>5. CASE Probed
  <2>1. \A x : After(x) = At(x)
    BY <1>5, AfterSame DEF Probed
  <2> QED BY <1>5, <2>1, AnsweredTail DEF Probed, GiveUp, AloneSwept
<1>6. CASE Trim
  <2>1. Frees(Head(answered)) /\ present' = present
    BY <1>6, DiscFrees DEF Trim
  <2>2. next # Head(answered) /\ next # 0
    BY <1>6, AnsweredTail, AddressFacts DEF Trim, Swept, First
  <2>3. After(next) = At(next)
    BY <2>1, <2>2, AfterFrees
  <2> QED BY <1>6, <2>3 DEF Trim, AloneSwept
<1>7. CASE Trimmed
  <2>1. \A x : After(x) = At(x)
    BY <1>7, AfterSame DEF Trimmed
  <2> QED BY <1>7, <2>1 DEF Trimmed, AloneSwept, Swept, work
<1>8. CASE Connect
  BY <1>8 DEF Connect, GiveUp
<1>9. CASE UNCHANGED vars
  <2>1. \A x : After(x) = At(x)
    BY <1>9, AfterSame DEF vars
  <2> QED BY <1>9, <2>1 DEF vars, work, AloneSwept
<1> QED BY <1>2, <1>3, <1>4, <1>5, <1>6, <1>7, <1>8, <1>9, SweepCases

\* The first address is cleared, stays free, and is given once.
LEMMA AloneFoundStep ==
  BusTypes /\ WorkTypes /\ Swept /\ Held /\ AloneFound /\ [Next]_vars => AloneFound'
<1> SUFFICES ASSUME BusTypes, WorkTypes, Swept, Held, AloneFound, [Next]_vars, Undisturbed'
             PROVE  /\ FirstFree' => After(First) = {}
                    /\ FirstGiven' => After(First) = {found'[1]}
  BY DEF AloneFound, At, After
<1>0. Undisturbed /\ present' = present /\ next \in Nat /\ First \in Nat /\ First # 0
  BY UndisturbedBefore, BusTypesStep, AddressFacts DEF BusStep, WorkTypes
<1>1. ASSUME FirstFree' PROVE After(First) = {}
  <2>1. CASE Clear
    <3>1. PICK a \in NextStale : next' = a /\ Disc(a)
      BY <2>1 DEF Clear
    <3>2. Frees(a) /\ \A d \in At(a) : addr'[d] = 0
      BY <1>0, <3>1, DiscFrees DEF Undisturbed
    <3>3. a >= First
      BY <1>1, <2>1, <3>1 DEF FirstFree, Clear
    <3>4. CASE a = First
      BY <1>0, <3>2, <3>4 DEF After, At, Frees, BusTypes
    <3>5. CASE a # First
      <4>1. First \in Stale /\ a \in Nat /\ a > next
        BY <1>0 DEF Stale, NextStale, WorkTypes
      <4>2. ~(First > next)
        BY <1>0, <3>3, <3>5, <4>1 DEF NextStale
      <4>3. At(First) = {}
        BY <1>0, <2>1, <4>2 DEF AloneFound, FirstFree, Clear
      <4> QED BY <1>0, <3>2, <3>5, <4>3, AfterFrees
    <3> QED BY <3>4, <3>5
  <2>2. CASE Open
    BY <1>0, <1>1, <2>2 DEF Open, FirstFree
  <2>3. CASE Cleared
    <3>1. First <= next
      BY <1>0, <2>3 DEF Cleared, Stale
    <3> QED BY <1>0, <2>3, <3>1, AfterSame DEF Cleared, AloneFound, FirstFree
  <2>4. CASE ProbeAnswered \/ ProbeSilent \/ ProbeGarbled
    BY <1>0, <2>4, AfterSame
       DEF ProbeAnswered, ProbeSilent, ProbeGarbled, scanFrame, AloneFound, FirstFree
  <2>5. CASE Scanned
    BY <1>0, <2>5, AfterSame DEF Scanned, AloneFound, FirstFree
  <2>6. CASE pc = "assigning" /\ Assign /\ next' = next + 1
    <3>1. next - First \in 0 .. Len(found)
      BY <2>6 DEF Held
    <3>2. next + 1 # First
      BY <1>0, <3>1 DEF WorkTypes
    <3> QED BY <1>1, <2>6, <3>2 DEF FirstFree, Assign, GiveUp
  <2>7. CASE UNCHANGED vars
    BY <1>0, <1>1, <2>7, AfterSame DEF vars, work, AloneFound, FirstFree
  <2> QED BY <1>1, <2>1, <2>2, <2>3, <2>4, <2>5, <2>6, <2>7, ClearingCases, ScanCases
          DEF FirstFree
<1>2. ASSUME FirstGiven' PROVE After(First) = {found'[1]}
  <2>1. CASE pc = "assigning" /\ Assign /\ TakesAddress /\ next' = next + 1
    <3> DEFINE k == next - First + 1
    <3>1. /\ k \in DOMAIN found /\ Assignee = found[k] /\ Assignee \in present
          /\ addr[Assignee] = 0 /\ 1 \in DOMAIN found
          /\ \A i \in DOMAIN found : i # k => found[i] # Assignee
      BY <2>1, Assigning DEF WorkTypes
    <3>2. /\ found' = found /\ addr' = [addr EXCEPT ![Assignee] = next]
          /\ next - First \in 0 .. Len(found)
      BY <2>1 DEF Assign, TakesAddress, Held
    <3>3. next >= First
      BY <1>0, <3>2
    <3>4. CASE next = First
      <4>1. At(First) = {} /\ found[1] = Assignee
        BY <1>0, <2>1, <3>1, <3>4 DEF AloneFound, FirstFree
      <4>2. \A d \in present : addr'[d] = First <=> d = Assignee
        BY <1>0, <3>1, <3>2, <3>4, <4>1 DEF At, BusTypes
      <4> QED BY <1>0, <3>1, <3>2, <4>1, <4>2 DEF After
    <3>5. CASE next # First
      <4>1. At(First) = {found[1]} /\ k # 1
        BY <1>0, <2>1, <3>3, <3>5 DEF AloneFound, FirstGiven
      <4>2. \A d \in present : addr'[d] = First <=> addr[d] = First
        BY <1>0, <3>1, <3>2, <3>5 DEF BusTypes
      <4> QED BY <1>0, <3>2, <4>1, <4>2 DEF After, At
    <3> QED BY <3>4, <3>5
  <2>2. CASE Scanned
    BY <1>0, <1>2, <2>2 DEF Scanned, WhenSilent, FirstGiven
  <2>3. CASE Assigned
    <3>1. found # <<>> /\ next - First = Len(found)
      BY <2>3 DEF Assigned, Held
    <3>2. next > First
      BY <1>0, <3>1 DEF WorkTypes
    <3> QED BY <1>0, <2>3, <3>2, AfterSame DEF Assigned, AloneFound, FirstGiven
  <2>4. CASE Trimmed
    BY <1>2, <2>4 DEF Trimmed, FirstGiven, Swept, work
  <2>5. CASE UNCHANGED vars
    BY <1>0, <1>2, <2>5, AfterSame DEF vars, work, AloneFound, FirstGiven
  <2>6. CASE ProbeAddress \/ Probed \/ Trim \/ Connect
    BY <1>2, <2>6 DEF ProbeAddress, Probed, Trim, Connect, GiveUp, FirstGiven
  <2>7. CASE Cleared \/ ProbeAnswered \/ ProbeSilent \/ ProbeGarbled
    BY <1>2, <2>7 DEF Cleared, ProbeAnswered, ProbeSilent, ProbeGarbled, FirstGiven
  <2> QED BY <1>2, <2>1, <2>2, <2>3, <2>4, <2>5, <2>6, <2>7, ScanCases, SweepCases
          DEF FirstGiven
<1> QED BY <1>1, <1>2

-------------------------------------------------------------------------------
\* Where the sweep has left links, if no frame was lost or garbled: below the
\* address that is probed next only with those that answered.
LinksKnown ==
  /\ pc = "probing" =>
       \A d \in Uids : linked[d] => addr[d] \in ToSet(answered) \/ addr[d] >= next
  /\ pc = "trimming" =>
       \A d \in Uids : linked[d] => addr[d] \in ToSet(answered) \/ addr[d] = next
  /\ pc = "connecting" /\ found = <<>> => \A d \in Uids : linked[d] => addr[d] = next
  /\ pc = "connected" /\ found = <<>> =>
       \A d \in Uids : linked[d] <=> d \in At(own)

LinksInv == Undisturbed => LinksKnown

\* A device with a link is on the bus.
LEMMA LinkedPresent ==
  ASSUME BusTypes, Held, NEW d \in Uids, linked[d]
  PROVE  d \in present /\ addr[d] \in Addresses
BY AddressFacts DEF Held, BusTypes, First

\* Each SNRM and each DISC keeps the account of the links.
LEMMA LinksStep ==
  BusTypes /\ WorkTypes /\ Swept /\ Held /\ LinksInv /\ [Next]_vars => LinksInv'
<1> SUFFICES ASSUME BusTypes, WorkTypes, Swept, Held, LinksInv, [Next]_vars, Undisturbed'
             PROVE  LinksKnown'
  BY DEF LinksInv
<1> DEFINE Goal ==
      /\ pc' = "probing" =>
           \A d \in Uids : linked'[d] => addr'[d] \in ToSet(answered') \/ addr'[d] >= next'
      /\ pc' = "trimming" =>
           \A d \in Uids : linked'[d] => addr'[d] \in ToSet(answered') \/ addr'[d] = next'
      /\ pc' = "connecting" /\ found' = <<>> => \A d \in Uids : linked'[d] => addr'[d] = next'
      /\ pc' = "connected" /\ found' = <<>> => \A d \in Uids : linked'[d] <=> d \in After(own')
<1>0. SUFFICES Goal
  BY DEF LinksKnown, After, At
<1>1. Undisturbed /\ LinksKnown /\ present' = present /\ next \in Nat /\ addr \in [Uids -> Nat]
  BY UndisturbedBefore, BusTypesStep DEF BusStep, LinksInv, WorkTypes, BusTypes
<1>2. CASE Scanned
  <2>1. \A d \in Uids : linked[d] => addr[d] >= First
    BY LinkedPresent, AddressFacts
  <2> QED BY <1>2, <2>1 DEF Scanned, WhenSilent, bus
<1>3. CASE Assigned
  BY <1>3 DEF Assigned, Held
<1>4. CASE ProbeAddress
  <2>1. ASSUME NEW d \in Uids, linked'[d] PROVE addr'[d] \in ToSet(answered') \/ addr'[d] >= next'
    <3>1. CASE Snrm(next) /\ answered' = Append(answered, next)
      <4>1. addr' = addr /\ (linked[d] \/ addr[d] = next)
        BY <1>4, <2>1, <3>1, SnrmSetsUp DEF SetsUp, At
      <4>2. addr[d] \in ToSet(answered) \/ addr[d] >= next
        BY <1>1, <1>4, <4>1 DEF LinksKnown, ProbeAddress
      <4>3. addr[d] = next \/ addr[d] \in ToSet(answered) \/ addr[d] >= next + 1
        BY <1>1, <4>2
      <4>4. ToSet(answered') = ToSet(answered) \cup {next}
        BY <1>4, <3>1, AnsweredGrows DEF ProbeAddress, Swept
      <4> QED BY <1>4, <4>1, <4>3, <4>4 DEF ProbeAddress
    <3>2. CASE NoUA(next) /\ answered' = answered
      <4>1. addr' = addr /\ linked' = linked /\ At(next) = {}
        BY <1>1, <3>2, NoUASetsUp DEF Undisturbed
      <4>2. addr[d] # next
        BY <2>1, <4>1, LinkedPresent DEF At
      <4>3. addr[d] \in ToSet(answered) \/ addr[d] >= next
        BY <1>1, <1>4, <2>1, <4>1 DEF LinksKnown, ProbeAddress
      <4>4. addr[d] \in ToSet(answered) \/ addr[d] >= next + 1
        BY <1>1, <4>2, <4>3
      <4> QED BY <1>4, <3>2, <4>1, <4>4 DEF ProbeAddress
    <3> QED BY <1>4, <3>1, <3>2 DEF ProbeAddress
  <2> QED BY <1>4, <2>1 DEF ProbeAddress
<1>5. CASE Probed
  <2>1. ASSUME NEW d \in Uids, linked[d] PROVE addr[d] \in ToSet(answered)
    <3>1. addr[d] \in Addresses /\ next \notin Addresses /\ next >= First
      BY <1>5, <2>1, LinkedPresent DEF Probed, Swept
    <3>2. ~(addr[d] >= next)
      BY <1>1, <3>1, ScanAssumption DEF Addresses, First
    <3> QED BY <1>1, <1>5, <2>1, <3>2 DEF LinksKnown, Probed
  <2> QED BY <1>5, <2>1, AnsweredTail DEF Probed, GiveUp, bus
<1>6. CASE Trim
  <2>1. /\ Frees(Head(answered)) /\ \A d \in At(Head(answered)) : linked'[d] = FALSE
        /\ ToSet(answered) = {Head(answered)} \cup ToSet(Tail(answered))
    BY <1>1, <1>6, DiscFrees, AnsweredTail DEF Trim, Undisturbed
  <2>2. ASSUME NEW d \in Uids, linked'[d] PROVE addr'[d] \in ToSet(answered') \/ addr'[d] = next'
    <3>1. linked[d] /\ addr'[d] = addr[d] /\ d \notin At(Head(answered))
      BY <2>1, <2>2 DEF Frees
    <3>2. addr[d] # Head(answered)
      BY <3>1, LinkedPresent DEF At
    <3> QED BY <1>1, <1>6, <2>1, <3>1, <3>2 DEF LinksKnown, Trim
  <2> QED BY <1>6, <2>2 DEF Trim
<1>7. CASE Trimmed
  BY <1>1, <1>7, EmptySet DEF Trimmed, LinksKnown, bus, work
<1>8. CASE Connect
  <2>1. ASSUME pc' = "connected", found' = <<>>, NEW d \in Uids
        PROVE  linked'[d] <=> d \in After(own')
    <3>1. Snrm(next) /\ own' = next /\ found = <<>> /\ pc = "connecting"
      BY <1>8, <2>1 DEF Connect, GiveUp
    <3>2. SetsUp(next) /\ \A e \in At(next) : linked'[e] = TRUE
      BY <3>1, SnrmSetsUp
    <3>3. linked[d] => d \in At(next)
      BY <1>1, <3>1, LinkedPresent DEF LinksKnown, At
    <3>4. After(own') = At(next)
      BY <1>1, <3>1, <3>2, AfterSetsUp
    <3> QED BY <3>2, <3>3, <3>4 DEF SetsUp
  <2> QED BY <1>8, <2>1 DEF Connect, GiveUp
<1>9. CASE UNCHANGED vars
  <2>1. After(own') = At(own)
    BY <1>9, AfterSame DEF vars, work
  <2> QED BY <1>1, <1>9, <2>1 DEF vars, work, bus, LinksKnown
<1> QED BY <1>2, <1>3, <1>4, <1>5, <1>6, <1>7, <1>8, <1>9, SweepCases

-------------------------------------------------------------------------------
\* The scan loses no device: whoever matches a probe matches one of its halves.
LEMMA HalvesCover ==
  ASSUME NEW p \in Probes, NEW d, Matches(d, p)
  PROVE  \/ Matches(d, Half(p, Longer(p)))
         \/ Matches(d, Half(p, WithBit(Longer(p), NextBit(p))))
<1>1. PICK m \in Seq(SUBSET Nat) : m = Grow(p.mask)
  BY GrowType DEF Probes
<1>2. PICK u \in Seq(SUBSET Nat) : u = Longer(p)
  BY LongerType
<1>3. PICK n \in Nat : n = Len(p.mask) /\ n = Len(p.uid) /\ DOMAIN p.mask = 1 .. n
  BY DEF Probes
<1>4. PICK k \in Nat : k = Len(m) /\ k = Len(u) /\ k > 0 /\ k \in n .. n + 1
  BY <1>1, <1>2, <1>3, GrowType, LongerType DEF Probes
<1>5. \A i \in 1 .. k : d[i] \cap m[i] = u[i]
  <2>1. \A i \in 1 .. n : m[i] = p.mask[i] /\ u[i] = p.uid[i]
    BY <1>1, <1>2, <1>3, GrowType, LongerType DEF Probes
  <2>2. ASSUME k = n + 1 PROVE m[k] = {} /\ u[k] = {}
    <3>1. p.mask \in Seq(SUBSET Nat)
      BY DEF Probes
    <3>2. /\ Len(Grow(p.mask)) = Len(p.mask) + 1 => Grow(p.mask)[Len(p.mask) + 1] = {}
          /\ Len(Longer(p)) = Len(p.uid) + 1 => Longer(p)[Len(p.uid) + 1] = {}
      BY <3>1, GrowType, LongerType
    <3> QED BY <1>1, <1>2, <1>3, <1>4, <2>2, <3>2
  <2>3. \A i \in 1 .. n : d[i] \cap p.mask[i] = p.uid[i]
    BY <1>3 DEF Matches
  <2>4. \A i \in 1 .. k : i \in 1 .. n \/ (i = k /\ k = n + 1)
    BY <1>4
  <2> QED BY <2>1, <2>2, <2>3, <2>4
<1>6. PICK b \in Nat : b = NextBit(p)
  BY NextBitType
<1>7. ASSUME NEW s \in Seq(SUBSET Nat), Len(s) = k
      PROVE  /\ DOMAIN WithBit(s, b) = 1 .. k
             /\ \A i \in 1 .. k : WithBit(s, b)[i] = IF i = k THEN s[i] \cup {b} ELSE s[i]
  <2>1. /\ WithBit(s, b) \in Seq(SUBSET Nat) /\ Len(WithBit(s, b)) = Len(s)
        /\ \A i \in 1 .. Len(s) :
             WithBit(s, b)[i] = IF i = Len(s) THEN s[i] \cup {b} ELSE s[i]
    BY WithBitType
  <2>2. PICK w \in Seq(SUBSET Nat) : w = WithBit(s, b)
    BY <2>1
  <2> QED BY <1>7, <2>1, <2>2
<1>m. /\ DOMAIN WithBit(m, b) = 1 .. k
      /\ \A i \in 1 .. k : WithBit(m, b)[i] = IF i = k THEN m[i] \cup {b} ELSE m[i]
  BY <1>4, <1>7
<1>u. /\ DOMAIN WithBit(u, b) = 1 .. k
      /\ \A i \in 1 .. k : WithBit(u, b)[i] = IF i = k THEN u[i] \cup {b} ELSE u[i]
  BY <1>4, <1>7
<1>8. CASE b \notin d[k]
  <2>1. \A i \in 1 .. k : d[i] \cap WithBit(m, b)[i] = u[i]
    <3>1. \A D, M, U : b \notin D /\ D \cap M = U => D \cap (M \cup {b}) = U
      OBVIOUS
    <3> QED BY <1>5, <1>m, <1>8, <3>1
  <2> QED BY <1>1, <1>2, <1>4, <1>6, <1>m, <2>1 DEF Half, Matches
<1>9. CASE b \in d[k]
  <2>1. \A i \in 1 .. k : d[i] \cap WithBit(m, b)[i] = WithBit(u, b)[i]
    <3>1. \A D, M, U : b \in D /\ D \cap M = U => D \cap (M \cup {b}) = U \cup {b}
      OBVIOUS
    <3> QED BY <1>5, <1>m, <1>u, <1>9, <3>1
  <2> QED BY <1>1, <1>2, <1>4, <1>6, <1>m, <2>1 DEF Half, Matches
<1> QED BY <1>8, <1>9

\* The probes after a garbled answer.
LEMMA SplitProbes ==
  ASSUME WorkTypes, probes # <<>>
  PROVE  LET p == Head(probes)
         IN  ToSet(Halves(p) \o Tail(probes)) =
               {Half(p, Longer(p)), Half(p, WithBit(Longer(p), NextBit(p)))}
                 \cup ToSet(Tail(probes))
<1>1. Head(probes) \in Probes /\ Tail(probes) \in Seq(Probes)
  BY ProbesTail
<1>2. PICK p \in Probes : p = Head(probes)
  BY <1>1
<1>3. PICK h0 \in Probes : h0 = Half(p, Longer(p))
  BY HalfType
<1>4. PICK h1 \in Probes : h1 = Half(p, WithBit(Longer(p), NextBit(p)))
  BY HalfType
<1>5. Halves(p) = <<h0, h1>>
  BY <1>3, <1>4, HalvesAre
<1>6. <<h0, h1>> \in Seq(Probes) /\ ToSet(<<h0, h1>>) = {h0, h1}
  BY DEF ToSet
<1>7. PICK hs \in Seq(Probes) : hs = <<h0, h1>>
  BY <1>6
<1>8. ToSet(hs \o Tail(probes)) = ToSet(hs) \cup ToSet(Tail(probes))
  BY <1>1, ConcatSet
<1> QED BY <1>2, <1>3, <1>4, <1>5, <1>6, <1>7, <1>8

\* A device is found, or a probe still to be made will ask for it.
Reached(d) == d \in ToSet(found) \/ \E p \in ToSet(probes) : Matches(d, p)

ReachedInv ==
  lost = 0 => /\ pc = "scanning" => \A d \in At(0) : Reached(d)
              /\ pc = "assigning" /\ next = First => At(0) \subseteq ToSet(found)

\* An answer finds it, a collision is split, and silence means that nobody matched.
LEMMA ReachedStep ==
  BusTypes /\ WorkTypes /\ Swept /\ Held /\ ReachedInv /\ [Next]_vars => ReachedInv'
<1> SUFFICES ASSUME BusTypes, WorkTypes, Swept, Held, ReachedInv, [Next]_vars, lost' = 0
             PROVE  /\ pc' = "scanning" => \A d \in After(0) : Reached(d)'
                    /\ pc' = "assigning" /\ next' = First => After(0) \subseteq ToSet(found')
  BY DEF ReachedInv, At, After
<1>0. lost = 0 /\ First \in Nat /\ next \in Nat
  BY BusTypesStep, AddressFacts DEF BusStep, Counts, WorkTypes
<1>1. ASSUME pc = "scanning", probes # <<>>
      PROVE  \A p \in ToSet(probes) : p = Head(probes) \/ p \in ToSet(Tail(probes))
  BY <1>1, TailSet DEF WorkTypes
<1>2. CASE Cleared
  <2>1. PICK p : p = [uid |-> <<>>, mask |-> <<>>, depth |-> 0]
    OBVIOUS
  <2>2. \A d : Matches(d, p)
    BY <2>1 DEF Matches
  <2>3. p \in ToSet(probes')
    BY <1>2, <2>1 DEF Cleared, ToSet
  <2> QED BY <1>2, <2>2, <2>3 DEF Cleared, Reached
<1>3. CASE ProbeAnswered
  <2>1. PICK e \in present :
          /\ Answering(Head(probes)) = {e}
          /\ found' = IF Contains(found, e) THEN found ELSE Append(found, e)
    BY <1>3 DEF ProbeAnswered, Answering, At
  <2>2. ToSet(found') = ToSet(found) \cup {e}
    BY <2>1, FoundGrows
  <2>3. After(0) = At(0) /\ pc' = "scanning" /\ pc = "scanning" /\ probes # <<>>
        /\ probes' = Tail(probes)
    BY <1>3, AfterSame DEF ProbeAnswered, scanFrame
  <2>4. ASSUME NEW d \in At(0) PROVE Reached(d)'
    <3>1. CASE Matches(d, Head(probes))
      BY <2>1, <2>2, <3>1 DEF Answering, Reached
    <3>2. CASE ~Matches(d, Head(probes))
      BY <1>0, <1>1, <2>2, <2>3, <3>2 DEF ReachedInv, Reached
    <3> QED BY <3>1, <3>2
  <2> QED BY <2>3, <2>4
<1>4. CASE ProbeSilent
  <2>1. Answering(Head(probes)) = {}
    BY <1>0, <1>4, FaultsCount DEF ProbeSilent
  <2>2. After(0) = At(0) /\ pc' = "scanning" /\ pc = "scanning" /\ probes # <<>>
        /\ probes' = Tail(probes) /\ found' = found
    BY <1>4, AfterSame DEF ProbeSilent, scanFrame
  <2>3. ASSUME NEW d \in At(0) PROVE Reached(d)'
    BY <1>0, <1>1, <2>1, <2>2 DEF Answering, ReachedInv, Reached
  <2> QED BY <2>2, <2>3
<1>5. CASE ProbeGarbled
  <2>1. CASE pc' = "scanning"
    <3>1. /\ After(0) = At(0) /\ pc = "scanning" /\ probes # <<>> /\ found' = found
          /\ probes' = Halves(Head(probes)) \o Tail(probes)
      BY <1>5, <2>1, AfterSame DEF ProbeGarbled, scanFrame
    <3>2. PICK p \in Probes : p = Head(probes)
      BY <3>1, ProbesTail
    <3>3. ToSet(probes') = {Half(p, Longer(p)), Half(p, WithBit(Longer(p), NextBit(p)))}
                             \cup ToSet(Tail(probes))
      BY <3>1, <3>2, SplitProbes
    <3>4. ASSUME NEW d \in At(0) PROVE Reached(d)'
      <4>1. CASE Matches(d, p)
        BY <3>3, <4>1, HalvesCover DEF Reached
      <4>2. CASE ~Matches(d, p)
        BY <1>0, <1>1, <3>1, <3>2, <3>3, <4>2 DEF ReachedInv, Reached
      <4> QED BY <4>1, <4>2
    <3> QED BY <2>1, <3>1, <3>4
  <2>2. CASE pc' # "scanning"
    BY <1>5, <2>2 DEF ProbeGarbled
  <2> QED BY <2>1, <2>2
<1>6. CASE Scanned
  <2>1. After(0) = At(0) /\ found' = found /\ ToSet(probes) = {} /\ pc = "scanning"
        /\ pc' # "scanning"
    BY <1>6, AfterSame, EmptySet DEF Scanned, WhenSilent
  <2>2. At(0) \subseteq ToSet(found)
    BY <1>0, <2>1 DEF ReachedInv, Reached
  <2> QED BY <2>1, <2>2
<1>7. CASE pc = "assigning" /\ Assign /\ next' = next + 1 /\ pc' = "assigning"
  <2>1. next - First \in 0 .. Len(found)
    BY <1>7 DEF Held
  <2>2. next + 1 # First
    BY <1>0, <2>1 DEF WorkTypes
  <2> QED BY <1>7, <2>2
<1>8. CASE UNCHANGED vars
  <2>1. After(0) = At(0)
    BY <1>8, AfterSame DEF vars
  <2> QED BY <1>0, <1>8, <2>1 DEF vars, work, ReachedInv, Reached
<1> QED BY <1>2, <1>3, <1>4, <1>5, <1>6, <1>7, <1>8, ScanCases

-------------------------------------------------------------------------------
\* How far a probe of the scan tells devices apart: the bits of its mask are the
\* first depth bits, in the order in which Bits counts them, and Rest are the
\* bits of its last byte that are still to be asked for.
Rest(p) == Len(p.mask) * ByteBits - p.depth

Masked(p) ==
  /\ Rest(p) \in 0 .. ByteBits - 1
  /\ Len(p.mask) > 0 => p.mask[Len(p.mask)] = Rest(p) .. ByteBits - 1
  /\ \A k \in 0 .. p.depth - 1 :
       /\ k \div ByteBits + 1 \in 1 .. Len(p.mask)
       /\ ByteBits - 1 - (k % ByteBits) \in p.mask[k \div ByteBits + 1]

\* Quotient and remainder are what they look like.
LEMMA DivMod ==
  ASSUME NEW b \in Nat \ {0}, NEW q \in Nat, NEW r \in 0 .. b - 1
  PROVE  (q * b + r) % b = r /\ (q * b + r) \div b = q
<1>1. PICK x \in Nat : x = q * b + r
  OBVIOUS
<1>2. PICK d \in Int, m \in Int : d = x \div b /\ m = x % b
  OBVIOUS
<1>3. x = d * b + m /\ m \in 0 .. b - 1
  BY <1>1, <1>2
<1>4. d = q
  <2>1. (d - q) * b = r - m
    BY <1>1, <1>3
  <2>2. r - m < b /\ m - r < b
    BY <1>3
  <2>3. ASSUME d - q >= 1 PROVE FALSE
    <3>1. (d - q) * b >= b
      BY <2>3
    <3> QED BY <1>3, <2>1, <2>2, <3>1
  <2>4. ASSUME q - d >= 1 PROVE FALSE
    <3>1. (q - d) * b >= b /\ (q - d) * b = m - r
      BY <2>1, <2>4, <1>3
    <3> QED BY <1>3, <2>2, <3>1
  <2> QED BY <2>3, <2>4
<1> QED BY <1>1, <1>2, <1>3, <1>4

\* A half asks for one bit more, the next.
LEMMA HalfMasked ==
  ASSUME NEW p \in Probes, Masked(p), NEW u
  PROVE  Masked(Half(p, u))
<1>0. ByteBits \in Nat \ {0} /\ p.depth \in Nat /\ p.mask \in Seq(SUBSET Nat)
  BY ScanAssumption DEF Probes
<1>1. PICK n \in Nat : n = Len(p.mask)
  BY <1>0
<1>2. PICK r \in 0 .. ByteBits - 1 : r = Rest(p) /\ n * ByteBits = p.depth + r
  <2>1. PICK x \in Int : x = n * ByteBits
    BY <1>0
  <2>2. PICK r \in 0 .. ByteBits - 1 : r = Rest(p)
    BY DEF Masked
  <2>3. r = x - p.depth
    BY <1>1, <2>1, <2>2 DEF Rest
  <2>4. x = p.depth + r
    BY <1>0, <2>3
  <2> QED BY <2>1, <2>2, <2>4
<1>3. PICK m \in Seq(SUBSET Nat) : m = Grow(p.mask)
  BY <1>0, GrowType
<1>4. PICK k \in Nat : k = Len(m) /\ k > 0
  BY <1>3, <1>0, GrowType
<1>5. PICK b \in Nat : b = NextBit(p)
  BY NextBitType
<1>6. PICK w \in Seq(SUBSET Nat) :
        /\ w = WithBit(m, b) /\ Len(w) = k
        /\ \A i \in 1 .. k : w[i] = IF i = k THEN m[i] \cup {b} ELSE m[i]
  <2>1. /\ WithBit(m, b) \in Seq(SUBSET Nat) /\ Len(WithBit(m, b)) = Len(m)
        /\ \A i \in 1 .. Len(m) :
             WithBit(m, b)[i] = IF i = Len(m) THEN m[i] \cup {b} ELSE m[i]
    BY WithBitType
  <2>2. PICK w \in Seq(SUBSET Nat) : w = WithBit(m, b)
    BY <2>1
  <2> QED BY <1>4, <2>1, <2>2
<1>k. w[k] = m[k] \cup {b}
  <2>1. k \in 1 .. k
    BY <1>4
  <2>2. w[k] = IF k = k THEN m[k] \cup {b} ELSE m[k]
    BY <1>6, <2>1
  <2> QED BY <2>2
<1>7. Half(p, u).mask = w /\ Half(p, u).depth = p.depth + 1
  BY <1>3, <1>5, <1>6 DEF Half
<1>8. \A i \in 1 .. n : m[i] = p.mask[i] /\ i \in 1 .. k
  BY <1>0, <1>1, <1>3, <1>4, GrowType
<1>9. /\ p.depth \div ByteBits + 1 = k
      /\ b = ByteBits - 1 - (p.depth % ByteBits)
      /\ k * ByteBits - (p.depth + 1) = b
      /\ w[k] = b .. ByteBits - 1
  <2>1. CASE r = 0
    <3>1. n > 0 => p.mask[n] = FullByte
      BY <1>1, <1>2, <2>1 DEF Masked, FullByte
    <3>2. m = Append(p.mask, {})
      BY <1>0, <1>1, <1>3, <3>1 DEF Grow, Last
    <3>3. k = n + 1 /\ m[k] = {}
      BY <1>0, <1>1, <1>4, <3>2
    <3>4. p.depth = n * ByteBits + 0 /\ 0 \in 0 .. ByteBits - 1
      BY <1>0, <1>2, <2>1
    <3>5. p.depth % ByteBits = 0 /\ p.depth \div ByteBits = n
      <4>1. (n * ByteBits + 0) % ByteBits = 0 /\ (n * ByteBits + 0) \div ByteBits = n
        BY <1>0, <3>4, DivMod
      <4> QED BY <3>4, <4>1
    <3>6. b = ByteBits - 1 /\ (n + 1) * ByteBits = n * ByteBits + ByteBits
      BY <1>0, <1>5, <3>5 DEF NextBit
    <3>7. w[k] = {b} /\ {b} = b .. ByteBits - 1
      <4>1. {b} = b .. b
        OBVIOUS
      <4> QED BY <1>k, <3>3, <3>6, <4>1
    <3> QED BY <1>0, <3>3, <3>4, <3>5, <3>6, <3>7
  <2>2. CASE r > 0
    <3>1. n > 0
      BY <1>0, <1>2, <2>2
    <3>2. p.mask[n] = r .. ByteBits - 1 /\ 0 \notin r .. ByteBits - 1 /\ 0 \in FullByte
      BY <1>0, <1>1, <1>2, <2>2, <3>1 DEF Masked, FullByte
    <3>3. m = p.mask /\ k = n
      BY <1>0, <1>1, <1>3, <1>4, <3>1, <3>2 DEF Grow, Last
    <3>4. n * ByteBits = (n - 1) * ByteBits + ByteBits /\ n - 1 \in Nat
      BY <1>0, <3>1
    <3>5. p.depth = (n - 1) * ByteBits + (ByteBits - r) /\ ByteBits - r \in 0 .. ByteBits - 1
      <4>1. PICK x \in Int : x = (n - 1) * ByteBits
        BY <1>0, <3>4
      <4>2. p.depth + r = x + ByteBits
        BY <1>2, <3>4, <4>1
      <4>3. p.depth = x + (ByteBits - r) /\ ByteBits - r \in 0 .. ByteBits - 1
        BY <1>0, <2>2, <4>2
      <4> QED BY <4>1, <4>3
    <3>6. p.depth % ByteBits = ByteBits - r /\ p.depth \div ByteBits = n - 1
      <4>1. PICK s \in 0 .. ByteBits - 1, j \in Nat : s = ByteBits - r /\ j = n - 1
        BY <3>4, <3>5
      <4>2. (j * ByteBits + s) % ByteBits = s /\ (j * ByteBits + s) \div ByteBits = j
        BY <1>0, DivMod
      <4> QED BY <3>5, <4>1, <4>2
    <3>7. b = r - 1
      BY <1>0, <1>5, <3>6 DEF NextBit
    <3>8. w[k] = (r .. ByteBits - 1) \cup {b}
      BY <1>k, <3>2, <3>3
    <3>9. (r .. ByteBits - 1) \cup {b} = b .. ByteBits - 1
      BY <1>0, <2>2, <3>7
    <3>10. k * ByteBits - (p.depth + 1) = b
      <4>1. PICK x \in Int : x = n * ByteBits
        BY <1>0
      <4>2. x - (p.depth + 1) = b
        BY <1>0, <1>2, <3>7, <4>1
      <4> QED BY <3>3, <4>1, <4>2
    <3>11. p.depth \div ByteBits + 1 = k /\ b = ByteBits - 1 - (p.depth % ByteBits)
      BY <1>0, <3>3, <3>6, <3>7
    <3> QED BY <3>8, <3>9, <3>10, <3>11
  <2> QED BY <2>1, <2>2
<1>10. Rest(Half(p, u)) = b /\ b \in 0 .. ByteBits - 1
  BY <1>6, <1>7, <1>9, <1>5, NextBitType DEF Rest
<1>11. ASSUME NEW j \in 0 .. p.depth
       PROVE  /\ j \div ByteBits + 1 \in 1 .. k
              /\ ByteBits - 1 - (j % ByteBits) \in w[j \div ByteBits + 1]
  <2>1. CASE j = p.depth
    BY <1>0, <1>4, <1>9, <1>10, <2>1
  <2>2. CASE j \in 0 .. p.depth - 1
    <3>1. PICK i \in 1 .. n : /\ i = j \div ByteBits + 1
                              /\ ByteBits - 1 - (j % ByteBits) \in p.mask[i]
      BY <1>1, <2>2 DEF Masked
    <3>2. i \in 1 .. k /\ p.mask[i] \subseteq w[i]
      BY <1>6, <1>8
    <3> QED BY <3>1, <3>2
  <2>3. j = p.depth \/ j \in 0 .. p.depth - 1
    BY <1>0
  <2> QED BY <2>1, <2>2, <2>3
<1>12. \A j \in 0 .. (p.depth + 1) - 1 : j \in 0 .. p.depth
  BY <1>0
<1> QED BY <1>4, <1>6, <1>7, <1>9, <1>10, <1>11, <1>12 DEF Masked

\* Devices that match a probe of full depth are alike.
LEMMA MatchAlike ==
  ASSUME NEW p \in Probes, Masked(p), p.depth >= MaxDepth,
         NEW d, NEW e, Matches(d, p), Matches(e, p)
  PROVE  Alike(d, e)
<1>1. ByteBits \in Nat \ {0} /\ p.depth \in Nat /\ MaxDepth \in Nat
  BY ScanAssumption DEF Probes
<1>2. ASSUME NEW k \in 0 .. MaxDepth - 1
      PROVE  LET i == k \div ByteBits + 1
                 b == ByteBits - 1 - (k % ByteBits)
             IN  b \in d[i] <=> b \in e[i]
  <2>1. k \in 0 .. p.depth - 1
    BY <1>1
  <2>2. PICK i, b : i = k \div ByteBits + 1 /\ b = ByteBits - 1 - (k % ByteBits)
    OBVIOUS
  <2>3. i \in DOMAIN p.mask /\ b \in p.mask[i]
    BY <2>1, <2>2 DEF Masked, Probes
  <2>4. d[i] \cap p.mask[i] = p.uid[i] /\ e[i] \cap p.mask[i] = p.uid[i]
    BY <2>3 DEF Matches
  <2>5. b \in d[i] <=> b \in e[i]
    BY <2>3, <2>4
  <2> QED BY <2>2, <2>5
<1> QED BY <1>2 DEF Alike, Bits

\* A collision takes two.
LEMMA TwoAnswer ==
  ASSUME NEW who, Collides(who)
  PROVE  \E d, e \in who : d # e
<1>1. who # {}
  BY FS_EmptySet DEF Collides
<1>2. PICK d \in who : TRUE
  BY <1>1
<1>3. who # {d}
  BY FS_Singleton DEF Collides
<1> QED BY <1>2, <1>3

\* The probes still to be made are masked so, and none is deeper than scan() goes.
TwinsInv ==
  /\ \A p \in ToSet(probes) : Masked(p) /\ p.depth <= MaxDepth
  /\ FailsOnlyOnTwins

\* The scan fails only at full depth.
LEMMA TwinsStep == BusTypes /\ WorkTypes /\ Swept /\ TwinsInv /\ [Next]_vars => TwinsInv'
<1> SUFFICES ASSUME BusTypes, WorkTypes, Swept, TwinsInv, [Next]_vars
             PROVE  /\ \A p \in ToSet(probes') : Masked(p) /\ p.depth <= MaxDepth
                    /\ pc' = "unresolved" /\ garbled' = 0
                         => \E d, e \in After(0) : d # e /\ Alike(d, e)
  BY DEF TwinsInv, FailsOnlyOnTwins, At, After
<1>0. MaxDepth \in Nat /\ (garbled' = 0 => garbled = 0)
  BY ScanAssumption, BusTypesStep DEF BusStep, Counts
<1>1. probes # <<>> => ToSet(probes) = {Head(probes)} \cup ToSet(Tail(probes))
  BY TailSet DEF WorkTypes
<1>2. ASSUME probes' = probes \/ (probes # <<>> /\ probes' = Tail(probes))
      PROVE  \A p \in ToSet(probes') : Masked(p) /\ p.depth <= MaxDepth
  BY <1>1, <1>2 DEF TwinsInv
<1>3. CASE Cleared
  <2>1. PICK p : p = [uid |-> <<>>, mask |-> <<>>, depth |-> 0]
    OBVIOUS
  <2>2. Masked(p) /\ p.depth <= MaxDepth
    BY <1>0, <2>1, ScanAssumption DEF Masked, Rest
  <2>3. ToSet(probes') = {p}
    BY <1>3, <2>1 DEF Cleared, ToSet
  <2> QED BY <1>3, <2>2, <2>3 DEF Cleared
<1>4. CASE ProbeAnswered \/ ProbeSilent
  BY <1>2, <1>4 DEF ProbeAnswered, ProbeSilent
<1>5. CASE ProbeGarbled
  <2>1. PICK p \in Probes : p = Head(probes)
    BY <1>5, ProbesTail DEF ProbeGarbled
  <2>2. Masked(p) /\ p.depth <= MaxDepth
    BY <1>1, <1>5, <2>1 DEF ProbeGarbled, TwinsInv
  <2>3. CASE Deepest(p)
    <3>1. probes' = probes /\ After(0) = At(0) /\ p.depth >= MaxDepth
      BY <1>5, <2>1, <2>3, AfterSame DEF ProbeGarbled, scanFrame, Deepest
    <3>2. ASSUME garbled' = 0 PROVE \E d, e \in At(0) : d # e /\ Alike(d, e)
      <4>1. Collides(Answering(p))
        BY <1>5, <2>1, <3>2, FaultsCount DEF ProbeGarbled
      <4>2. PICK d \in Answering(p), e \in Answering(p) : d # e
        BY <4>1, TwoAnswer
      <4>3. Alike(d, e)
        BY <2>2, <3>1, <4>2, MatchAlike DEF Answering
      <4> QED BY <4>2, <4>3 DEF Answering
    <3> QED BY <1>2, <3>1, <3>2
  <2>4. CASE ~Deepest(p)
    <3>1. probes' = Halves(p) \o Tail(probes) /\ pc' = "scanning" /\ probes # <<>>
          /\ p.depth + 1 <= MaxDepth
      BY <1>0, <1>5, <2>1, <2>4 DEF ProbeGarbled, Deepest, Probes
    <3>2. ToSet(probes') = {Half(p, Longer(p)), Half(p, WithBit(Longer(p), NextBit(p)))}
                             \cup ToSet(Tail(probes))
      BY <2>1, <3>1, SplitProbes
    <3>3. \A u : Masked(Half(p, u)) /\ Half(p, u).depth <= MaxDepth
      BY <2>2, <3>1, HalfMasked DEF Half
    <3>4. \A h \in ToSet(Tail(probes)) : Masked(h) /\ h.depth <= MaxDepth
      BY <1>1, <3>1 DEF TwinsInv
    <3> QED BY <3>1, <3>2, <3>3, <3>4
  <2> QED BY <2>3, <2>4
<1>6. CASE Open
  BY <1>6, EmptySet DEF Open
<1>7. CASE Clear \/ Trim \/ Release \/ ProbeAddress \/ Connect
  BY <1>2, <1>7 DEF Clear, Trim, Release, ProbeAddress, Connect, GiveUp
<1>8. CASE Crash
  BY <1>2, <1>8, CrashLeaves
<1>9. CASE Unresolved \/ Assign \/ Assigned \/ Probed \/ Scanned
  BY <1>2, <1>9 DEF Unresolved, GiveUp, Assign, Assigned, Probed, Scanned, WhenSilent
<1>10. CASE Trimmed
  BY <1>2, <1>10 DEF Trimmed, work
<1>11. CASE UNCHANGED vars
  <2>1. After(0) = At(0)
    BY <1>11, AfterSame DEF vars
  <2> QED BY <1>0, <1>2, <1>11, <2>1 DEF vars, work, TwinsInv, FailsOnlyOnTwins
<1> QED BY <1>3, <1>4, <1>5, <1>6, <1>7, <1>8, <1>9, <1>10, <1>11 DEF Next, Worker

-------------------------------------------------------------------------------
\* All of it: each part is preserved with the help of those before it.
Inv == /\ BusTypes /\ WorkTypes /\ Swept /\ Held
       /\ AloneSwept /\ AloneFound /\ LinksInv /\ ReachedInv /\ TwinsInv

LEMMA InvInit == Init => Inv
<1> SUFFICES ASSUME Init PROVE Inv
  OBVIOUS
<1>1. BusTypes
  <2>1. \A a \in {0} \cup Addresses : a \in Nat
    BY AddressFacts
  <2>2. addr \in [Uids -> Nat]
    BY <2>1 DEF Init
  <2> QED BY <2>2 DEF Init, BusTypes
<1>2. WorkTypes
  BY EmptySet DEF Init, WorkTypes, Steps
<1>3. Swept
  BY DEF Init, Swept
<1>4. Held
  BY DEF Init, Held
<1>5. AloneSwept /\ AloneFound /\ LinksInv
  BY DEF Init, AloneSwept, AloneFound, FirstFree, FirstGiven, LinksInv, LinksKnown
<1>6. ReachedInv /\ TwinsInv
  BY EmptySet DEF Init, ReachedInv, TwinsInv, FailsOnlyOnTwins
<1> QED BY <1>1, <1>2, <1>3, <1>4, <1>5, <1>6 DEF Inv

LEMMA InvStep == Inv /\ [Next]_vars => Inv'
<1> SUFFICES ASSUME Inv, [Next]_vars PROVE Inv'
  OBVIOUS
<1> USE DEF Inv
<1>1. BusTypes' /\ WorkTypes' /\ Swept' /\ Held'
  BY BusTypesStep, WorkTypesStep, SweptStep, HeldStep
<1>2. AloneSwept' /\ AloneFound' /\ LinksInv'
  BY AloneSweptStep, AloneFoundStep, LinksStep
<1>3. ReachedInv' /\ TwinsInv'
  BY ReachedStep, TwinsStep
<1> QED BY <1>1, <1>2, <1>3

\* The invariant holds in every reachable state.
LEMMA Invariant == Spec => []Inv
BY InvInit, InvStep, PTL DEF Spec

\* The address that is about to be driven is held by one device: after
\* _clear_stale_links and the assignment of _discover because the first address
\* was free, after scan_assigned because that device answered alone.
THEOREM OneIsDriven == Spec => []DrivenAlone
<1>1. Inv => DrivenAlone
  <2> SUFFICES ASSUME Inv, pc = "connecting", lost + garbled = 0
               PROVE  Cardinality(At(next)) = 1
    BY DEF DrivenAlone
  <2>1. Undisturbed
    BY DEF Inv, BusTypes, Undisturbed
  <2>2. CASE found = <<>>
    BY <2>2 DEF Inv, AloneSwept
  <2>3. CASE found # <<>>
    <3>1. next = First /\ At(First) = {found[1]}
      BY <2>1, <2>3 DEF Inv, AloneSwept, AloneFound, FirstGiven
    <3> QED BY <3>1, FS_Singleton
  <2> QED BY <2>2, <2>3
<1> QED BY <1>1, Invariant, PTL

\* The sweep of scan_assigned and the trimming of _discover leave no link that
\* nobody will poll, neither here nor on a device.
THEOREM NoneLeft == Spec => []NoLinkLeft
<1>1. Inv => NoLinkLeft
  <2> SUFFICES ASSUME Inv, pc = "connected"
               PROVE  /\ peers = {own}
                      /\ found = <<>> /\ lost + garbled = 0
                           => {d \in present : linked[d]} = At(own)
    BY DEF NoLinkLeft
  <2>1. lost + garbled = 0 => Undisturbed
    BY DEF Inv, BusTypes, Undisturbed
  <2> QED BY <2>1 DEF Inv, Swept, LinksInv, LinksKnown, BusTypes, At
<1> QED BY <1>1, Invariant, PTL

\* The bisection of scan() finds every device without an address, unless an
\* answer is lost.
THEOREM ScanComplete == Spec => []NothingHidden
<1>1. Inv => NothingHidden
  BY DEF Inv, ReachedInv, NothingHidden
<1> QED BY <1>1, Invariant, PTL

\* scan() raises only over devices that agree in the first max_depth bits, or
\* over noise.
THEOREM ScanFailsOnTwins == Spec => []FailsOnlyOnTwins
<1>1. Inv => FailsOnlyOnTwins
  BY DEF Inv, TwinsInv
<1> QED BY <1>1, Invariant, PTL
===============================================================================
