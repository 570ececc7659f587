-------------------------------- MODULE Framing --------------------------------
(***************************************************************************)
(* Bytes to frames on a half-duplex line: Deframer of openaisg/hdlc.py and *)
(* the read loop around it, _read_frames of openaisg/link.py.  Bytes come  *)
(* in whatever pieces the serial driver returns; the primary may transmit  *)
(* when _read_frames has returned.  A turn of the loop in feed() is a step. *)
(*                                                                         *)
(* A byte is a flag, a good byte or one that noise has changed; a body has *)
(* a correct FCS if it has none of the latter.  Unstuffing works on whole  *)
(* bodies, so escapes are left out.                                        *)
(***************************************************************************)
EXTENDS Naturals, Sequences, SequencesExt, FiniteSets

CONSTANTS MaxFrame,   \* max_frame of the Deframer; 512 in the code
          MinBody,    \* shortest body with address, control and FCS; 4 in the code
          Budget,     \* of a call of _read_frames, in reads that return nothing
          HardCap,    \* hard_cap
          MaxBurst,   \* bound: bytes of one transmission
          MaxStream   \* bound: bytes in a behaviour

ASSUME FramingAssumption ==
  {MaxFrame, MinBody, Budget, HardCap, MaxBurst} \subseteq Nat \ {0} /\ MaxStream \in Nat

Flag == "F"
Bytes == {Flag, "good", "noise"}

VARIABLES
  air,      \* what is still to come of the transmission under way
  came,     \* ghost: how much of it has come
  sent,     \* ghost: all bytes that have reached the primary
  buf,      \* Deframer._buf
  fcsErrors, overruns,  \* its counters
  out,      \* ghost: the frames it returned, and where in "sent" each begins
  pc,       \* "reading": inside _read_frames; "feeding": inside feed(); or "idle"
  found,    \* "frames" of _read_frames is not empty
  elapsed,  \* time since the call of _read_frames began
  returned  \* ghost: why the last call returned

deframer == <<buf, fcsErrors, overruns, out>>
pump     == <<pc, found, elapsed, returned>>
vars     == <<air, came, sent, deframer, pump>>

FlagsIn(s) == {i \in DOMAIN s : s[i] = Flag}
From(s, i) == SubSeq(s, i, Len(s))

\* A body stands between one flag and the next.
Consecutive(s, i, j) ==
  /\ {i, j} \subseteq FlagsIn(s) /\ i < j
  /\ \A k \in FlagsIn(s) : k <= i \/ j <= k
IsFirst(s, i)   == \A k \in FlagsIn(s) : i <= k
BodyOf(s, i, j) == SubSeq(s, i + 1, j - 1)

LongEnough(body) == Len(body) >= MinBody
FcsOK(body)      == "noise" \notin ToSet(body)

-------------------------------------------------------------------------------
Init ==
  /\ air = <<>> /\ came = <<>> /\ sent = <<>> /\ buf = <<>> /\ out = <<>>
  /\ fcsErrors = 0 /\ overruns = 0
  /\ pc = "idle" /\ found = FALSE /\ elapsed = 0 /\ returned = "never"

\* Somebody transmits: a device its answer, or the line some noise.
Transmit(burst) ==
  /\ air = <<>> /\ Len(sent) + Len(burst) <= MaxStream
  /\ air' = burst /\ came' = <<>>
  /\ UNCHANGED <<sent, deframer, pump>>

\* _read_frames is called, after the primary has transmitted or slept.
Call ==
  /\ pc = "idle" /\ pc' = "reading" /\ elapsed' = 0
  /\ UNCHANGED <<air, came, sent, deframer, found, returned>>

\* A read that returns bytes, which feed() adds to its buffer.  They may take
\* time, a bounded part of a read.
Read(n) ==
  /\ pc = "reading" /\ pc' = "feeding" /\ n \in 1 .. Len(air)
  /\ LET data == SubSeq(air, 1, n) IN
       sent' = sent \o data /\ came' = came \o data /\ buf' = buf \o data
  /\ air' = From(air, n + 1)
  /\ elapsed' \in {elapsed, elapsed + 1} /\ elapsed' <= HardCap
  /\ UNCHANGED <<fcsErrors, overruns, out, found, returned>>

-------------------------------------------------------------------------------
\* The end of a turn of _read_frames.

Partial(b) == \E i \in DOMAIN b : b[i] # Flag

\* variant: the budget is not extended
FixedBudget(frames, b, fresh, time) ==
  IF frames THEN "frames" ELSE IF time < Budget THEN "on" ELSE "budget"

\* What _read_frames decides after a read: it has frames, it has listened long
\* enough, a frame is arriving, or its budget is used up.
Decision(frames, b, fresh, time) ==
  IF frames THEN "frames"
  ELSE IF time >= HardCap THEN "cap"
  ELSE IF time < Budget \/ (Partial(b) /\ fresh) THEN "on"
  ELSE "budget"

Decide(b, fresh, time) ==
  LET d == Decision(found, b, fresh, time) IN
    IF d = "on" THEN pc' = "reading" /\ UNCHANGED <<found, returned>>
    ELSE pc' = "idle" /\ found' = FALSE /\ returned' = d

\* A read that times out: a transmission has no gap as long as that (idle_gap
\* is the port's own timeout).
ReadNothing ==
  /\ pc = "reading" /\ air = <<>>
  /\ elapsed' = elapsed + 1
  /\ Decide(buf, FALSE, elapsed + 1)
  /\ UNCHANGED <<air, came, sent, deframer>>

-------------------------------------------------------------------------------
\* A turn of the loop in feed().

\* variant: both flags of a frame are consumed
EatBothFlags(b, j) == From(b, j + 1)

\* The closing flag stays: the next frame may share it.
KeepClosingFlag(b, j) == From(b, j)

\* What stands between the first two flags is taken from the buffer.
TakeFrame ==
  /\ pc = "feeding"
  /\ \E i, j \in FlagsIn(buf) :
       LET body == BodyOf(buf, i, j)
           good == LongEnough(body) /\ FcsOK(body) IN
         /\ Consecutive(buf, i, j) /\ IsFirst(buf, i)
         /\ buf' = KeepClosingFlag(buf, j)
         /\ found' = (found \/ good)
         /\ out' = IF good
                     THEN Append(out, [at |-> Len(sent) - Len(buf) + i, body |-> body])
                     ELSE out
         /\ fcsErrors' = IF LongEnough(body) /\ ~good THEN fcsErrors + 1 ELSE fcsErrors
  /\ UNCHANGED <<air, came, sent, overruns, pc, elapsed, returned>>

\* variant: a frame that never ends is kept whole
Unbounded(b, keep) == b

\* The cap of an unfinished buffer: its last "keep" bytes stay.
Capped(b, keep) == IF Len(b) <= MaxFrame THEN b ELSE From(b, Len(b) - keep + 1)

\* variant: junk without a flag is dropped, its last byte too
JunkDropped(b) == Capped(b, 0)

JunkCapped(b) == Capped(b, 1)

\* A frame that is too long loses its opening flag, so it ends as junk.
OpenCapped(b) == Capped(b, Len(b) - 1)

\* feed() returns, with what is left in the buffer.
Rest(b, capped) ==
  /\ pc = "feeding" /\ buf' = capped
  /\ overruns' = IF Len(b) > MaxFrame THEN overruns + 1 ELSE overruns
  /\ Decide(capped, TRUE, elapsed)
  /\ UNCHANGED <<air, came, sent, fcsErrors, out, elapsed>>

RestOfJunk == FlagsIn(buf) = {} /\ Rest(buf, JunkCapped(buf))

RestOfFrame ==
  \E i \in FlagsIn(buf) :
    FlagsIn(buf) = {i} /\ Rest(From(buf, i), OpenCapped(From(buf, i)))

Next ==
  \/ \E burst \in BoundedSeq(Bytes, MaxBurst) \ {<<>>} : Transmit(burst)
  \/ \E n \in 1 .. MaxBurst : Read(n)
  \/ Call \/ ReadNothing \/ TakeFrame \/ RestOfJunk \/ RestOfFrame

Spec == Init /\ [][Next]_vars

-------------------------------------------------------------------------------
\* What the stream holds, whoever read it and in whatever pieces: the bodies
\* between one flag and the next.

GoodAt(s, i, j) ==
  Consecutive(s, i, j) /\ LongEnough(BodyOf(s, i, j)) /\ FcsOK(BodyOf(s, i, j))
BadAt(s, i, j) ==
  Consecutive(s, i, j) /\ LongEnough(BodyOf(s, i, j)) /\ ~FcsOK(BodyOf(s, i, j))
BadIn(s) == {i \in FlagsIn(s) : \E j \in FlagsIn(s) : BadAt(s, i, j)}

\* Types, and the bound of the buffer: noise without flags or a frame without an
\* end cannot grow it (feed, 131-144).
TypeOK ==
  /\ air \in Seq(Bytes) /\ buf \in Seq(Bytes) /\ sent \in Seq(Bytes)
  /\ out \in Seq([at : Nat, body : Seq(Bytes)])
  /\ pc \in {"idle", "reading", "feeding"} /\ found \in BOOLEAN
  /\ fcsErrors \in Nat /\ overruns \in Nat /\ elapsed \in 0 .. HardCap
  /\ returned \in {"never", "frames", "cap", "budget"}
  /\ pc # "feeding" => Len(buf) < MaxFrame + MaxBurst

\* Noise costs the frames it hits and no other.  However the stream was cut and
\* whatever was dropped, nothing is returned that was not a frame, nothing twice
\* and nothing out of order; when feed() has returned so has every frame that
\* fits the buffer with its opening flag, and each bad one was counted once if
\* nothing was dropped (feed, 129-159).
NoiseCostsOneFrame ==
  /\ \A k \in DOMAIN out : \E i, j \in FlagsIn(sent) :
       GoodAt(sent, i, j) /\ out[k] = [at |-> i, body |-> BodyOf(sent, i, j)]
  /\ \A k, l \in DOMAIN out : k < l => out[k].at < out[l].at
  /\ pc # "feeding" =>
       /\ \A i, j \in FlagsIn(sent) :
            GoodAt(sent, i, j) /\ j - i <= MaxFrame => \E k \in DOMAIN out : out[k].at = i
       /\ overruns = 0 => fcsErrors = Cardinality(BadIn(sent))

\* "partial" tells whether the stream ends inside a frame, also after junk or
\* the start of a frame was dropped (partial, 112-123, and del [:-1], 135).
PartialIsTail ==
  pc # "feeding" => (Partial(buf) <=> sent # <<>> /\ Last(sent) # Flag)

\* _read_frames returns in the middle of a transmission only with a frame in
\* hand, after the hard cap, or when no more than flags of it have come (336-356).
ListensOn ==
  pc = "idle" /\ returned = "budget" /\ air # <<>> /\ came # <<>> => Last(came) = Flag

\* hdlc.py:115-116: the caller must not transmit while a frame is part-way
\* through arriving, short of the hard cap.
NeverTalksOver ==
  pc = "idle" /\ returned # "cap" /\ air # <<>> /\ came # <<>> => ~Partial(buf)
===============================================================================
