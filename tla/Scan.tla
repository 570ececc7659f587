--------------------------------- MODULE Scan ----------------------------------
(***************************************************************************)
(* How the worker finds the device it drives: _clear_stale_links and       *)
(* _discover of openaisg/session.py over scan, assign_address,             *)
(* scan_assigned and probe_address of openaisg/link.py, up to the SNRM     *)
(* that opens the link, and its end.                                       *)
(*                                                                         *)
(* Devices are their unique IDs.  Each step is one exchange on a bus they  *)
(* share: those that are meant answer at once, and more than one answer is *)
(* a collision, a frame with a bad FCS.                                    *)
(***************************************************************************)
EXTENDS Naturals, Sequences, SequencesExt, FiniteSets

CONSTANTS Uids,      \* possible devices: sequences of bytes, each its set of 1-bits
          ByteBits,  \* bits of a byte; 8 in the code
          MaxDepth,  \* max_depth of scan()
          Count,     \* addresses scan_assigned probes
          MaxNoise   \* bound: frames garbled or lost

ASSUME ScanAssumption == /\ Uids \subseteq Seq(SUBSET (0 .. ByteBits - 1))
                         /\ {ByteBits, Count} \subseteq Nat \ {0}
                         /\ MaxDepth \in Nat /\ MaxNoise \in Nat

VARIABLES
  present,        \* the devices on the bus
  addr, linked,   \* what each holds: an address or 0; a link it believes in
  pc,             \* the step of the opening that comes next
  own,            \* self.address, 0 for None
  probes,         \* scan: the probes of the recursion still to be made
  found,          \* scan: the devices found, in order
  answered,       \* scan_assigned: the addresses that answered
  next,           \* the address that is assigned, probed or trimmed next
  peers,          \* the peers of this link whose PeerState is connected
  lost, garbled   \* frames lost and garbled so far

bus  == <<present, addr, linked>>
work == <<own, probes, found, answered, next, peers>>
vars == <<bus, pc, work, lost, garbled>>

First     == 1                     \* first_address
Addresses == First .. First + Count - 1

Init ==
  /\ present \in SUBSET Uids
  /\ addr \in [Uids -> {0} \cup Addresses] /\ linked \in [Uids -> BOOLEAN]
  \* what a session of the CLI leaves behind
  /\ \A d, e \in Uids : addr[d] # 0 /\ addr[d] = addr[e] => d = e
  /\ \A d \in Uids : (linked[d] => addr[d] # 0) /\ (d \notin present => addr[d] = 0)
  /\ pc = "closed" /\ own = 0 /\ probes = <<>> /\ found = <<>> /\ answered = <<>>
  /\ next = 0 /\ peers = {} /\ lost = 0 /\ garbled = 0

-------------------------------------------------------------------------------
\* The bus.

At(a)      == {d \in present : addr[d] = a}
Lost       == lost + garbled < MaxNoise /\ lost' = lost + 1 /\ UNCHANGED garbled
Noise      == lost + garbled < MaxNoise /\ garbled' = garbled + 1 /\ UNCHANGED lost
Clean      == UNCHANGED <<lost, garbled>>
Collides(who) == Cardinality(who) > 1

\* A device obeys, or does not hear: DISC ends the link and takes the address
\* with it, SNRM sets the link up.
Disconnects(a) ==
  /\ addr' = [d \in Uids |-> IF d \in At(a) THEN 0 ELSE addr[d]]
  /\ linked' = [d \in Uids |-> linked[d] /\ d \notin At(a)]
Connects(a) == linked' = [d \in Uids |-> linked[d] \/ d \in At(a)] /\ UNCHANGED addr

\* disconnect(a) comes back: an answer that is missing is as good as one.
Disc(a) ==
  /\ ~Collides(At(a)) /\ peers' = peers \ {a}
  /\ \/ Clean /\ Disconnects(a)
     \/ Lost /\ (Disconnects(a) \/ UNCHANGED <<addr, linked>>)

\* connect(a) comes back with a UA, or raises AisgError.
Snrm(a) == Clean /\ Cardinality(At(a)) = 1 /\ Connects(a) /\ peers' = peers \cup {a}
NoUA(a) ==
  /\ \/ At(a) = {} /\ Clean /\ UNCHANGED <<addr, linked>>
     \/ Lost /\ (Connects(a) \/ UNCHANGED <<addr, linked>>)
  /\ UNCHANGED peers

\* The answers to a frame with this effect are one bad FCS.
Garbles(a, effect) ==
  \/ Collides(At(a)) /\ Clean /\ effect
  \/ Noise /\ (effect \/ UNCHANGED <<addr, linked>>)

GiveUp == pc' = "closed" /\ own' = 0

-------------------------------------------------------------------------------
\* Opening: DISC to whoever may still believe in a link.

\* variant: only the address of the last session is cleared
StaleOwn == {own} \ {0}

Stale == {own, First} \ {0}

Open ==
  /\ pc = "closed" /\ pc' = "clearing"
  /\ probes' = <<>> /\ found' = <<>> /\ answered' = <<>> /\ next' = 0 /\ peers' = {}
  /\ UNCHANGED <<bus, own, lost, garbled>>

\* The address cleared after next, if there is one.
NextStale == {a \in Stale : a > next /\ \A x \in Stale : x > next => a <= x}

Clear ==
  /\ pc = "clearing" /\ \E a \in NextStale : next' = a /\ Disc(a)
  /\ UNCHANGED <<present, pc, own, probes, found, answered>>

\* The broadcast scan starts with a probe that matches everything.
Cleared ==
  /\ pc = "clearing" /\ \A x \in Stale : x <= next
  /\ pc' = "scanning" /\ own' = 0
  /\ probes' = <<[uid |-> <<>>, mask |-> <<>>, depth |-> 0]>>
  /\ UNCHANGED <<bus, found, answered, next, peers, lost, garbled>>

-------------------------------------------------------------------------------
\* scan(): depth-first through the unique IDs, a bit at a time.

Matches(d, p) == \A i \in DOMAIN p.mask : d[i] \cap p.mask[i] = p.uid[i]

\* Only devices without an address answer a broadcast.
Answering(p) == {d \in At(0) : Matches(d, p)}

FullByte == 0 .. ByteBits - 1

\* variant: the mask grows a byte too late
GrowLate(mask) == IF mask = <<>> THEN <<{}>> ELSE mask

\* A mask is extended by a byte when its last one is used up.
Grow(mask) == IF mask = <<>> \/ Last(mask) = FullByte THEN Append(mask, {}) ELSE mask

WithBit(s, bit) == [s EXCEPT ![Len(s)] = @ \cup {bit}]

\* variant: both halves ask for a 0
Never(uid, bit) == uid

AskFor1(uid, bit) == WithBit(uid, bit)

\* The two halves of a probe: the next bit of the mask, 0 and then 1.
Halves(p) ==
  LET bit  == ByteBits - 1 - (p.depth % ByteBits)
      mask == Grow(p.mask)
      uid  == IF Len(p.uid) < Len(mask) THEN Append(p.uid, {}) ELSE p.uid
      half(u) == [uid |-> u, mask |-> WithBit(mask, bit), depth |-> p.depth + 1]
  IN  <<half(uid), half(AskFor1(uid, bit))>>

scanFrame == <<bus, own, answered, next, peers>>

ProbeAnswered ==
  /\ pc = "scanning" /\ probes # <<>>
  /\ \E d \in Uids : /\ Answering(Head(probes)) = {d}
                     /\ found' = IF Contains(found, d) THEN found ELSE Append(found, d)
  /\ probes' = Tail(probes) /\ Clean
  /\ UNCHANGED <<scanFrame, pc>>

ProbeSilent ==
  /\ pc = "scanning" /\ probes # <<>>
  /\ IF Answering(Head(probes)) = {} THEN Clean ELSE Lost
  /\ probes' = Tail(probes)
  /\ UNCHANGED <<scanFrame, pc, found>>

Deepest(p) == p.depth >= MaxDepth

ProbeGarbled ==
  /\ pc = "scanning" /\ probes # <<>>
  /\ IF Collides(Answering(Head(probes))) THEN Clean ELSE Noise
  /\ IF Deepest(Head(probes)) THEN pc' = "unresolved" /\ UNCHANGED probes
     ELSE probes' = Halves(Head(probes)) \o Tail(probes) /\ UNCHANGED pc
  /\ UNCHANGED <<scanFrame, found>>

\* "scan collision could not be resolved"
Unresolved ==
  /\ pc = "unresolved" /\ GiveUp
  /\ UNCHANGED <<bus, probes, found, answered, next, peers, lost, garbled>>

\* variant: a bus that does not answer the broadcast is empty
NextIfSilent == "closed"

WhenSilent == "probing"

Scanned ==
  /\ pc = "scanning" /\ probes = <<>>
  /\ pc' = IF found # <<>> THEN "assigning" ELSE WhenSilent
  /\ next' = First
  /\ UNCHANGED <<bus, own, probes, found, answered, peers, lost, garbled>>

-------------------------------------------------------------------------------
\* assign_address, to each device found in turn.
Assignee == found[next - First + 1]

TakesAddress == addr' = [addr EXCEPT ![Assignee] = next] /\ UNCHANGED linked

Assign ==
  /\ pc = "assigning" /\ next - First < Len(found)
  /\ \/ Clean /\ TakesAddress /\ next' = next + 1 /\ UNCHANGED <<pc, own>>
     \/ /\ Lost \/ Noise
        /\ TakesAddress \/ UNCHANGED <<addr, linked>>
        /\ GiveUp /\ UNCHANGED next
  /\ UNCHANGED <<present, probes, found, answered, peers>>

Assigned ==
  /\ pc = "assigning" /\ next - First = Len(found)
  /\ pc' = "connecting" /\ next' = First
  /\ UNCHANGED <<bus, own, probes, found, answered, peers, lost, garbled>>

-------------------------------------------------------------------------------
\* scan_assigned, when no device answered the broadcast.
ProbeAddress ==
  /\ pc = "probing" /\ next \in Addresses /\ next' = next + 1
  /\ \/ Snrm(next) /\ answered' = Append(answered, next)
     \/ NoUA(next) /\ UNCHANGED answered
  /\ UNCHANGED <<present, pc, own, probes, found>>

\* The first that answered is kept; with none there is no device.
Probed ==
  /\ pc = "probing" /\ next \notin Addresses
  /\ IF answered = <<>> THEN GiveUp /\ UNCHANGED <<next, answered>>
     ELSE pc' = "trimming" /\ next' = Head(answered) /\ answered' = Tail(answered)
            /\ UNCHANGED own
  /\ UNCHANGED <<bus, probes, found, peers, lost, garbled>>

\* variant: the links of the sweep are left as they are
TrimForgotten ==
  /\ pc = "trimming" /\ answered # <<>>
  /\ answered' = Tail(answered)
  /\ UNCHANGED <<bus, pc, own, probes, found, next, peers, lost, garbled>>

Trim ==
  /\ pc = "trimming" /\ answered # <<>>
  /\ Disc(Head(answered)) /\ answered' = Tail(answered)
  /\ UNCHANGED <<present, pc, own, probes, found, next>>

Trimmed ==
  /\ pc = "trimming" /\ answered = <<>> /\ pc' = "connecting"
  /\ UNCHANGED <<bus, work, lost, garbled>>

-------------------------------------------------------------------------------
\* The SNRM to the device that is driven, and the end of the session.
Connect ==
  /\ pc = "connecting"
  /\ \/ Snrm(next) /\ pc' = "connected" /\ own' = next
     \/ NoUA(next) /\ GiveUp
  /\ UNCHANGED <<present, probes, found, answered, next>>

\* FrameError is no AisgError: outside of scan() it ends the attempt in run(),
\* where the link is released, with a DISC if self.address is still set.
Crash ==
  /\ \/ pc = "clearing" /\ \E a \in NextStale : Garbles(a, Disconnects(a))
     \/ /\ pc = "trimming" /\ answered # <<>>
        /\ Garbles(Head(answered), Disconnects(Head(answered)))
     \/ pc = "probing" /\ next \in Addresses /\ Garbles(next, Connects(next))
     \/ pc = "connecting" /\ Garbles(next, Connects(next))
     \/ pc = "connected" /\ Garbles(own, Disconnects(own))
  /\ pc' = IF own # 0 THEN "releasing" ELSE "closed"
  /\ UNCHANGED <<present, work>>

\* _release; module SerialWorker has the FrameError that ends the thread here.
Release ==
  /\ pc \in {"connected", "releasing"} /\ pc' = "closed" /\ Disc(own)
  /\ UNCHANGED <<present, own, probes, found, answered, next>>

-------------------------------------------------------------------------------
Worker ==
  \/ Open \/ Clear \/ Cleared
  \/ ProbeAnswered \/ ProbeSilent \/ ProbeGarbled \/ Unresolved \/ Scanned
  \/ Assign \/ Assigned \/ ProbeAddress \/ Probed \/ Trim \/ Trimmed
  \/ Connect \/ Crash \/ Release

Next == Worker
Spec == Init /\ [][Next]_vars

\* The worker runs on and opens the port again.
FairSpec == Spec /\ WF_vars(Worker)

TypeOK ==
  /\ present \subseteq Uids /\ addr \in [Uids -> Nat] /\ linked \in [Uids -> BOOLEAN]
  /\ ToSet(found) \subseteq Uids /\ IsInjective(found)
  /\ peers \subseteq Nat /\ own \in Nat /\ next \in Nat
  /\ \A i \in DOMAIN probes : /\ probes[i].depth <= MaxDepth
                              /\ Len(probes[i].uid) = Len(probes[i].mask)

-------------------------------------------------------------------------------
\* The first n bits of a unique ID, as the scan walks through them.
Bits(d, n) == {k \in 0 .. n - 1 : ByteBits - 1 - (k % ByteBits) \in d[k \div ByteBits + 1]}
Alike(d, e) == Bits(d, MaxDepth) = Bits(e, MaxDepth)

\* The scan finds every device without an address, also through noise that it
\* takes for collisions: nothing but a lost answer hides one (scan, 216-240).
NothingHidden == pc = "assigning" /\ lost = 0 /\ next = First => At(0) \subseteq ToSet(found)

\* It fails only over devices that agree in the first max_depth bits, or noise.
FailsOnlyOnTwins ==
  pc = "unresolved" /\ garbled = 0 => \E d, e \in At(0) : d # e /\ Alike(d, e)

\* The address about to be driven is held by one device, whatever the sessions
\* before left on the bus (_clear_stale_links, _discover).
DrivenAlone == pc = "connecting" /\ lost + garbled = 0 => Cardinality(At(next)) = 1

\* A sweep over addresses leaves no link that nobody will poll, neither here nor
\* on a device (link.py:264-267, session.py:595-602).
NoLinkLeft ==
  pc = "connected" =>
    /\ peers = {own}
    /\ found = <<>> /\ lost + garbled = 0 => {d \in present : linked[d]} = At(own)

\* The worker has a device in the end, again and again, if there is one to be had
\* (run, _open_and_connect).
ComesUp ==
  present # {} /\ (\A d, e \in present : Alike(d, e) => d = e) => []<>(pc = "connected")

\* protocol.md:29: secondaries "get 1..n assigned", an address each.
AddressesDistinct == \A d, e \in present : addr[d] # 0 /\ addr[d] = addr[e] => d = e
===============================================================================
