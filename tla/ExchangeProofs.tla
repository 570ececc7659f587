---------------------------- MODULE ExchangeProofs ----------------------------
(***************************************************************************)
(* What holds of the exchange for every modulus, set of procedures, timing *)
(* and bound: what a device may answer, the types of both stations, that   *)
(* V(S) moves once per command, and that the exchange keeps its deadline.  *)
(***************************************************************************)
EXTENDS Exchange, SequenceTheorems, TLAPS

USE ModulusAssumption, ProcsAssumption, NoneAssumption, BoundsAssumption, DeviceAssumption

\* Sequence arithmetic stays in range and never stands still.
LEMMA SuccSeqNo ==
  /\ 0 \in SeqNo
  /\ \A n \in SeqNo : Succ(n) \in SeqNo /\ Succ(n) # n
BY DEF SeqNo, Succ

\* Whatever is owed to the primary is a payload, and never None.
LEMMA OwedPayload == Owed \subseteq Payload /\ None \notin Owed
BY DEF Owed, Request, AlarmReport, Payload

\* The frames either station builds are frames.
LEMMA FrameTypes ==
  /\ \A ns, nr \in SeqNo, pl \in Payload : IFrame(ns, nr, pl) \in Frame
  /\ \A k \in SKinds, nr \in SeqNo, b \in BOOLEAN : SFrame(k, nr, b) \in Frame
  /\ \A k \in UKinds : UFrame(k) \in Frame
BY SuccSeqNo DEF IFrame, SFrame, UFrame, Frame

LEMMA FrameFields ==
  ASSUME NEW f \in Frame
  PROVE  /\ f.kind \in {IKind} \cup SKinds \cup UKinds
         /\ f.ns \in SeqNo /\ f.nr \in SeqNo /\ f.poll \in BOOLEAN
         /\ f.kind = IKind => f.pl \in Payload
BY SuccSeqNo DEF Frame, IKind, SKinds, UKinds

\* A well-typed outcome: the device's record and at most a sequence of frames.
OutcomeType == [dev : Device, reply : Seq(Frame)]

LEMMA OutcomeIsTyped ==
  ASSUME NEW d \in Device, NEW f \in Frame
  PROVE  Outcome(d, <<f>>) \in OutcomeType /\ Outcome(d, <<>>) \in OutcomeType
<1>1. <<f>> \in Seq(Frame) /\ <<>> \in Seq(Frame)
  OBVIOUS
<1> QED BY <1>1 DEF Outcome, OutcomeType

LEMMA InvitedType ==
  ASSUME NEW d \in Device, NEW o \in Invited(d)
  PROVE  o \in OutcomeType
<1>1. CASE d.sent # None
  <2>1. IFrame(d.vs, d.vr, d.sent) \in Frame
    BY <1>1, FrameTypes, OwedPayload DEF Device
  <2> QED BY <1>1, <2>1, OutcomeIsTyped DEF Invited
<1>2. CASE d.sent = None /\ d.out # <<>>
  <2>1. Head(d.out) \in Owed /\ Tail(d.out) \in Seq(Owed)
    BY <1>2, HeadTailProperties DEF Device
  <2>2. [d EXCEPT !.sent = Head(d.out), !.out = Tail(d.out), !.missed = FALSE] \in Device
    BY <2>1 DEF Device
  <2>3. IFrame(d.vs, d.vr, Head(d.out)) \in Frame
    BY <2>1, FrameTypes, OwedPayload DEF Device
  <2> QED BY <1>2, <2>2, <2>3, OutcomeIsTyped DEF Invited
<1>3. CASE d.sent = None /\ d.out = <<>>
  <2>1. [d EXCEPT !.missed = FALSE] \in Device
    BY DEF Device
  <2>2. \A k \in SKinds : SFrame(k, d.vr, TRUE) \in Frame
    BY FrameTypes DEF Device
  <2>3. PICK k \in SKinds : o = Outcome([d EXCEPT !.missed = FALSE], <<SFrame(k, d.vr, TRUE)>>)
    BY <1>3 DEF Invited
  <2> QED BY <2>1, <2>2, <2>3, OutcomeIsTyped
<1> QED BY <1>1, <1>2, <1>3

LEMMA AckedType ==
  ASSUME NEW d \in Device, NEW nr \in SeqNo
  PROVE  Acked(d, nr) \in Device
<1>1. CASE d.sent # None /\ d.sent.proc = Alarm /\ nr = Succ(d.vs)
  <2>1. d.sent.id \in 1 .. MaxAlarm
    BY <1>1 DEF Device, Owed, Request, AlarmReport
  <2>2. Acked(d, nr) = [d EXCEPT !.vs = nr, !.sent = None, !.freed = @ \cup {d.sent.id}]
    BY <1>1 DEF Acked
  <2>3. d.freed \cup {d.sent.id} \in SUBSET (1 .. MaxAlarm)
    BY <2>1 DEF Device
  <2> QED BY <2>2, <2>3 DEF Device
<1>2. CASE d.sent # None /\ d.sent.proc # Alarm /\ nr = Succ(d.vs)
  <2>1. Acked(d, nr) = [d EXCEPT !.vs = nr, !.sent = None, !.freed = @]
    BY <1>2 DEF Acked
  <2> QED BY <2>1 DEF Device
<1>3. CASE ~(d.sent # None /\ nr = Succ(d.vs))
  BY <1>3 DEF Acked
<1> QED BY <1>1, <1>2, <1>3

LEMMA TakenType ==
  ASSUME NEW d \in Device, NEW f \in Frame, f.pl \in Request
  PROVE  /\ Taken(d, f) \in Device
         /\ [Taken(d, f) EXCEPT !.out = Append(@, f.pl)] \in Device
         /\ [Taken(d, f) EXCEPT !.todo = @ \cup {f.pl}] \in Device
<1>1. f.pl.id \in 1 .. MaxReq /\ f.pl \in Owed
  BY DEF Request, Owed
<1>2. [d.execs EXCEPT ![f.pl.id] = @ + 1] \in [1 .. MaxReq -> Nat]
  BY <1>1 DEF Device
<1>3. Taken(d, f) \in Device
  BY <1>2, SuccSeqNo, FrameFields DEF Taken, Device
<1>4. Append(Taken(d, f).out, f.pl) \in Seq(Owed)
  BY <1>1, <1>3 DEF Device
<1> QED BY <1>1, <1>3, <1>4 DEF Device

\* The device's reaction to any frame is well typed.
THEOREM RespondType ==
  ASSUME NEW d \in Device, NEW f \in Frame, f.kind = IKind => f.pl \in Request,
         NEW o \in Respond(d, f)
  PROVE  o.dev \in Device /\ o.reply \in Seq(Frame)
<1>1. \A x \in Device : Silent(x) \subseteq OutcomeType
  BY OutcomeIsTyped DEF Silent
<1>0. UFrame("FRMR") \in Frame /\ UFrame("DM") \in Frame
  BY FrameTypes DEF UKinds
<1>2. ASSUME NEW x \in Device PROVE Rejects(x) \subseteq OutcomeType
  <2>1. [x EXCEPT !.conn = FALSE, !.frmr = TRUE] \in Device
    BY DEF Device
  <2> QED BY <1>0, <2>1, OutcomeIsTyped DEF Rejects
<1>3. \A x \in Device : Invited(x) \subseteq OutcomeType
  BY InvitedType
<1>4. Acked(d, f.nr) \in Device
  BY AckedType, FrameFields
<1>5. CASE ~d.conn
  <2>1. o \in OutcomeType
    BY <1>0, <1>1, <1>5, OutcomeIsTyped DEF Respond
  <2> QED BY <2>1 DEF OutcomeType
<1>6. CASE d.conn /\ d.strict /\ ~ValidNr(d, f.nr)
  BY <1>2, <1>6 DEF Respond, OutcomeType
<1>7. CASE d.conn /\ ~(d.strict /\ ~ValidNr(d, f.nr)) /\ f.kind = IKind
  <2> DEFINE a == Acked(d, f.nr)
  <2>1. o \in HeardI(a, f)
    BY <1>7 DEF Respond
  <2>2. Accepts(a, f) \subseteq OutcomeType
    BY <1>3, <1>4, <1>7, TakenType DEF Accepts
  <2> QED BY <1>2, <1>3, <1>4, <2>1, <2>2 DEF HeardI, OutcomeType
<1>8. CASE d.conn /\ ~(d.strict /\ ~ValidNr(d, f.nr)) /\ f.kind # IKind
  BY <1>1, <1>3, <1>4, <1>8 DEF Respond, HeardS, OutcomeType
<1> QED BY <1>5, <1>6, <1>7, <1>8

\* So is what the device does without being heard.
LEMMA OwnStepsType ==
  ASSUME NEW d \in Device
  PROVE  /\ Snrm(d) \in Device /\ Disc(d) \in Device
         /\ \A f : Garbled(d, f) \in Device
         /\ \A r \in d.todo : Finished(d, r) \in Device
         /\ d.raised < MaxAlarm => AlarmRaised(d) \in Device
<1>1. Snrm(d) \in Device /\ Disc(d) \in Device
  <2>1. Unlinked(d) \in Device
    <3> DEFINE u == [d EXCEPT !.vs = 0, !.vr = 0, !.sent = None, !.out = <<>>]
    <3>4. 0 \in SeqNo /\ <<>> \in Seq(Owed)
      BY SuccSeqNo
    <3>1. u \in Device
      BY <3>4 DEF Device
    <3>2. Unlinked(d) = [u EXCEPT !.todo = {}, !.missed = FALSE, !.frmr = FALSE]
      BY DEF Unlinked
    <3>3. {} \in SUBSET Request
      OBVIOUS
    <3> HIDE DEF u
    <3> QED BY <3>1, <3>2, <3>3 DEF Device
  <2> QED BY <2>1 DEF Snrm, Disc, Device
<1>2. \A f : Garbled(d, f) \in Device
  BY DEF Garbled, Device
<1>3. ASSUME NEW r \in d.todo PROVE Finished(d, r) \in Device
  <2>1. r \in Owed
    BY DEF Device, Owed
  <2>2. Append(d.out, r) \in Seq(Owed)
    BY <2>1 DEF Device
  <2> QED BY <2>2 DEF Finished, Device
<1>4. ASSUME d.raised < MaxAlarm PROVE AlarmRaised(d) \in Device
  <2> DEFINE a == [proc |-> Alarm, id |-> d.raised + 1]
  <2>1. d.raised + 1 \in 1 .. MaxAlarm
    BY <1>4 DEF Device
  <2>2. a \in Owed
    BY <2>1 DEF Owed, AlarmReport
  <2>3. Append(d.out, a) \in Seq(Owed)
    BY <2>2 DEF Device
  <2>4. d.raised + 1 \in 0 .. MaxAlarm
    BY <1>4 DEF Device
  <2> QED BY <2>3, <2>4 DEF AlarmRaised, Device
<1> QED BY <1>1, <1>2, <1>3, <1>4

-------------------------------------------------------------------------------
\* The exchange.

LEMMA Constants ==
  /\ Timeout \in Nat /\ RetxDelay \in Nat /\ RetxDelay > 0 /\ Extension \in Nat
  /\ DrainBudget \in Nat /\ MaxRetx \in Nat /\ MaxLoss \in Nat /\ MaxRestart \in Nat
  /\ MaxReq \in Nat /\ MaxAlarm \in Nat
BY TimingAssumption, BoundsAssumption

USE Constants

\* A frame the primary may write: a poll or ack, or an I-frame with a request.
Writable(f) == f \in Frame /\ (f.kind = IKind => f.pl \in Request)

LEMMA WriteType ==
  ASSUME dev \in Device, wire \in Seq(Frame), lost \in 0 .. MaxLoss,
         NEW f, Writable(f), Write(f)
  PROVE  dev' \in Device /\ wire' \in Seq(Frame) /\ lost' \in 0 .. MaxLoss
<1>1. CASE Delivered(f)
  BY <1>1, RespondType DEF Delivered, Writable
<1>2. CASE LostOut(f)
  <2>1. Garbled(dev, f) \in Device
    BY OwnStepsType
  <2> QED BY <1>2, <2>1 DEF LostOut, Noise
<1>3. CASE LostBack(f)
  BY <1>3, RespondType DEF LostBack, Noise, Writable
<1> QED BY <1>1, <1>2, <1>3 DEF Write

LEMMA AckWritable ==
  ASSUME NEW n \in SeqNo, NEW b \in BOOLEAN
  PROVE  Writable(SFrame("RR", n, b))
BY FrameTypes DEF Writable, SFrame, SKinds, IKind

\* Taking the first k frames off the wire leaves two sequences of frames.
LEMMA TakeFromType ==
  ASSUME wire \in Seq(Frame), NEW k \in 0 .. Len(wire), TakeFrom(k)
  PROVE  batch' \in Seq(Frame) /\ wire' \in Seq(Frame)
<1>1. \A i \in 1 .. Len(wire) : wire[i] \in Frame
  BY ElementOfSeq
<1>2. SubSeq(wire, 1, k) \in Seq(Frame)
  BY <1>1, SubSeqProperties
<1>3. SubSeq(wire, k + 1, Len(wire)) \in Seq(Frame)
  <2>1. \A i \in k + 1 .. Len(wire) : wire[i] \in Frame
    BY <1>1
  <2> QED BY <2>1, SubSeqProperties
<1> QED BY <1>2, <1>3 DEF TakeFrom

LEMMA ReadFramesType ==
  ASSUME wire \in Seq(Frame), elapsed \in Nat, ReadFrames
  PROVE  batch' \in Seq(Frame) /\ wire' \in Seq(Frame) /\ elapsed' \in Nat
<1>1. CASE CanBeSilent /\ TakeFrom(0) /\ elapsed' = elapsed + 1
  BY <1>1, TakeFromType
<1>2. CASE (\E k \in 1 .. Len(wire) : TakeFrom(k)) /\ UNCHANGED elapsed
  BY <1>2, TakeFromType
<1> QED BY <1>1, <1>2 DEF ReadFrames

\* What a handler of the batch finds at its head.
LEMMA HeadOfBatch ==
  ASSUME batch \in Seq(Frame), batch # <<>>
  PROVE  /\ Head(batch) \in Frame /\ Tail(batch) \in Seq(Frame)
         /\ Head(batch).ns \in SeqNo /\ Succ(Head(batch).ns) \in SeqNo
         /\ Head(batch).kind = IKind => Head(batch).pl \in Payload
BY HeadTailProperties, FrameFields, SuccSeqNo

\* The command's frame stays as long as exchange() runs, and goes with it.
LEMMA CommandKept ==
  ASSUME CommandOK, pc \in {"reading", "frames"}, pc' \in {"reading", "frames"},
         UNCHANGED <<req, iframe>>
  PROVE  CommandOK'
BY DEF CommandOK, InExchange

LEMMA CommandGone ==
  ASSUME pc' \notin {"reading", "frames"}, req' = None, iframe' = None
  PROVE  CommandOK'
BY DEF CommandOK, InExchange

LEMMA CommandAbsent ==
  ASSUME CommandOK, pc \notin {"reading", "frames"}
  PROVE  req = None /\ iframe = None
BY DEF CommandOK, InExchange

LEMMA CommandPresent ==
  ASSUME TypeOK, pc \in {"reading", "frames"}
  PROVE  /\ req \in Request /\ iframe \in Frame /\ iframe.kind = IKind /\ iframe.pl = req
         /\ Writable(iframe) /\ sentNs \in SeqNo /\ Succ(sentNs) \in SeqNo
BY FrameFields, SuccSeqNo DEF TypeOK, CommandOK, InExchange, Writable, sentNs

LEMMA InitTypeOK == Init => TypeOK
<1>1. \A strict \in BOOLEAN : FreshDevice(strict) \in Device
  <2>1. 0 \in SeqNo /\ <<>> \in Seq(Owed) /\ 0 \in 0 .. MaxAlarm
    BY SuccSeqNo
  <2>2. [i \in 1 .. MaxReq |-> 0] \in [1 .. MaxReq -> Nat]
    OBVIOUS
  <2> QED BY <2>1, <2>2 DEF FreshDevice, Device
<1>2. Init => /\ up \in BOOLEAN /\ acked \in BOOLEAN /\ missing \in BOOLEAN
              /\ abandoned \in BOOLEAN
  BY DEF Init
<1>3. Init => CommandOK /\ pc \in PCs
  BY DEF Init, CommandOK, InExchange, PCs
<1>4. Init => wire \in Seq(Frame) /\ batch \in Seq(Frame) /\ reported \in Seq(Nat)
  BY DEF Init
<1>5. Init => /\ retxLeft \in 0 .. MaxRetx /\ issued \in 0 .. MaxReq
              /\ lost \in 0 .. MaxLoss /\ restarts \in 0 .. MaxRestart
              /\ vs \in SeqNo /\ vr \in SeqNo
              /\ retxAt \in Nat /\ deadline \in Nat /\ elapsed \in Nat
  BY SuccSeqNo DEF Init
<1>6. Init => dev \in Device /\ answer \in Nat \cup {None}
  BY <1>1, DeviceAssumption DEF Init
<1> QED BY <1>2, <1>3, <1>4, <1>5, <1>6 DEF TypeOK

LEMMA CallerTypeOK == TypeOK /\ Caller => TypeOK'
<1> SUFFICES ASSUME TypeOK, Caller PROVE TypeOK'
  OBVIOUS
<1> USE SuccSeqNo DEF TypeOK, PCs, peer, locals, ghosts
<1>1. CASE Connect
  <2>1. up' \in BOOLEAN /\ abandoned' \in BOOLEAN
    BY <1>1 DEF Connect, Linked
  <2>2. dev' \in Device
    BY <1>1, OwnStepsType DEF Connect
  <2>3. wire' = <<>> /\ wire' \in Seq(Frame) /\ lost' \in 0 .. MaxLoss
    BY <1>1 DEF Connect
  <2>4. pc \notin {"reading", "frames"} /\ pc' \notin {"reading", "frames"} /\ pc' \in PCs
    BY <1>1 DEF Connect, Linked
  <2>5. CommandOK'
    BY <1>1, <2>4, CommandAbsent, CommandGone DEF Connect
  <2>6. vs' \in SeqNo /\ vr' \in SeqNo /\ answer' \in Nat \cup {None}
    BY <1>1 DEF Connect, Linked
  <2> QED BY <1>1, <2>1, <2>2, <2>3, <2>4, <2>5, <2>6 DEF Connect
<1>2. CASE Release
  <2>1. up' \in BOOLEAN
    BY <1>2 DEF Release
  <2>2. dev' \in Device
    BY <1>2, OwnStepsType DEF Release
  <2>3. wire' \in Seq(Frame) /\ lost' \in 0 .. MaxLoss
    BY <1>2 DEF Release
  <2>4. CommandOK'
    BY <1>2, CommandAbsent, CommandGone DEF Release
  <2> QED BY <1>2, <2>1, <2>2, <2>3, <2>4 DEF Release
<1>3. CASE Keepalive
  BY <1>3, WriteType, AckWritable, CommandAbsent, CommandGone DEF Keepalive, RR
<1>4. ASSUME NEW p \in Procs, Start(p) PROVE TypeOK'
  <2> DEFINE r == [proc |-> p, id |-> issued + 1]
             f == IFrame(vs, vr, r)
  <2>1. r \in Request /\ r \in Payload
    BY <1>4 DEF Start, Request, Payload
  <2>2. f \in Frame /\ f.kind = IKind /\ f.pl = r
    BY <2>1, FrameTypes DEF IFrame
  <2>3. req' = r /\ iframe' = f /\ Write(f)
    BY <1>4 DEF Start
  <2>4. dev' \in Device /\ wire' \in Seq(Frame) /\ lost' \in 0 .. MaxLoss
    BY <2>1, <2>2, <2>3, WriteType DEF Writable
  <2>5. CommandOK'
    BY <1>4, <2>1, <2>2, <2>3 DEF Start, CommandOK, InExchange
  <2> HIDE DEF r, f
  <2>6. missing' \in BOOLEAN /\ acked' \in BOOLEAN
    BY <1>4 DEF Start
  <2> QED BY <1>4, <2>4, <2>5, <2>6 DEF Start
<1> QED BY <1>1, <1>2, <1>3, <1>4 DEF Caller

LEMMA ExchangeTypeOK == TypeOK /\ ExchangeStep => TypeOK'
<1> SUFFICES ASSUME TypeOK, ExchangeStep PROVE TypeOK'
  OBVIOUS
<1> USE SuccSeqNo DEF TypeOK, PCs, peer, locals, ghosts, NoLocals
<1>1. CASE Read
  BY <1>1, ReadFramesType, CommandKept DEF Read
<1>2. CASE HandleReset
  <2>1. missing' \in BOOLEAN /\ acked' \in BOOLEAN /\ up' \in BOOLEAN
    BY <1>2 DEF HandleReset
  <2> QED BY <1>2, <2>1, CommandGone DEF HandleReset, Handling
<1>3. CASE HandleRR
  BY <1>3, CommandPresent, CommandKept, HeadOfBatch DEF HandleRR, Handling, NoteNr, AfterHead
<1>4. CASE HandleRej
  BY <1>4, CommandPresent, CommandKept, HeadOfBatch, WriteType DEF HandleRej, Handling, NoteNr, AfterHead
<1>5. CASE HandleDuplicate
  BY <1>5, CommandPresent, CommandKept, HeadOfBatch, WriteType, AckWritable
  DEF HandleDuplicate, Handling, NoteNr, AfterHead, RR
<1>6. CASE HandleResponse
  <2>1. Head(batch).pl.id \in Nat
    BY <1>6, HeadOfBatch DEF HandleResponse, HandleNew, Handling, Payload
  <2>2. missing' \in BOOLEAN /\ acked' \in BOOLEAN
    BY <1>6 DEF HandleResponse
  <2>3. vr' \in SeqNo /\ vs' \in SeqNo
    BY <1>6, CommandPresent, HeadOfBatch DEF HandleResponse, HandleNew, Handling
  <2>4. dev' \in Device /\ wire' \in Seq(Frame) /\ lost' \in 0 .. MaxLoss
    BY <1>6, <2>3, WriteType, AckWritable DEF HandleResponse
  <2> QED BY <1>6, <2>1, <2>2, <2>3, <2>4, CommandGone DEF HandleResponse, HandleNew, Handling
<1>7. CASE HandleIndication
  <2>1. Head(batch).pl.id \in Nat
    BY <1>7, HeadOfBatch DEF HandleIndication, HandleNew, Handling, Payload
  <2>2. reported' \in Seq(Nat) /\ deadline' \in Nat
    BY <1>7, <2>1 DEF HandleIndication, Least
  <2>3. vr' \in SeqNo /\ batch' \in Seq(Frame)
    BY <1>7, HeadOfBatch DEF HandleIndication, HandleNew, Handling, AfterHead
  <2>4. dev' \in Device /\ wire' \in Seq(Frame) /\ lost' \in 0 .. MaxLoss
    BY <1>7, <2>3, WriteType, AckWritable DEF HandleIndication
  <2> QED BY <1>7, <2>2, <2>3, <2>4, CommandPresent, CommandKept DEF HandleIndication, HandleNew, Handling, NoteNr
<1>8. CASE HandleUnexpected
  BY <1>8, CommandPresent, CommandKept, HeadOfBatch, WriteType, AckWritable
  DEF HandleUnexpected, HandleNew, Handling, NoteNr, AfterHead
<1>9. CASE Resend
  <2>1. missing' \in BOOLEAN /\ acked' \in BOOLEAN
    BY <1>9 DEF Resend
  <2>2. dev' \in Device /\ wire' \in Seq(Frame) /\ lost' \in 0 .. MaxLoss
    BY <1>9, CommandPresent, WriteType DEF Resend, Decide
  <2> QED BY <1>9, <2>1, <2>2, CommandKept DEF Resend, Decide, ResendGuard
<1>10. CASE Expire
  <2>1. missing' \in BOOLEAN /\ acked' \in BOOLEAN /\ abandoned' \in BOOLEAN
    BY <1>10 DEF Expire
  <2> QED BY <1>10, <2>1, CommandGone DEF Expire, Decide
<1>11. CASE Poll
  <2>1. dev' \in Device /\ wire' \in Seq(Frame) /\ lost' \in 0 .. MaxLoss
    BY <1>11, WriteType, AckWritable DEF Poll, RR
  <2> QED BY <1>11, <2>1, CommandKept DEF Poll, Decide
<1> QED BY <1>1, <1>2, <1>3, <1>4, <1>5, <1>6, <1>7, <1>8, <1>9, <1>10, <1>11 DEF ExchangeStep

LEMMA DrainTypeOK == TypeOK /\ DrainStep => TypeOK'
<1> SUFFICES ASSUME TypeOK, DrainStep PROVE TypeOK'
  OBVIOUS
<1> USE DEF TypeOK, PCs, peer, locals, ghosts
<1>1. CASE DrainRead
  <2>1. batch' \in Seq(Frame) /\ wire' \in Seq(Frame) /\ elapsed' \in Nat
    BY <1>1, TakeFromType DEF DrainRead
  <2> QED BY <1>1, <2>1, CommandAbsent, CommandGone DEF DrainRead
<1>2. CASE DrainFrame
  <2>1. Head(batch) \in Frame /\ batch' \in Seq(Frame) /\ Succ(Head(batch).ns) \in SeqNo
    BY <1>2, HeadOfBatch DEF DrainFrame, AfterHead
  <2>2. vr' \in SeqNo /\ dev' \in Device /\ wire' \in Seq(Frame) /\ lost' \in 0 .. MaxLoss
    BY <1>2, <2>1, WriteType, AckWritable DEF DrainFrame
  <2> QED BY <1>2, <2>1, <2>2, CommandAbsent, CommandGone DEF DrainFrame
<1>3. CASE DrainNext
  BY <1>3, CommandAbsent, CommandGone DEF DrainNext
<1> QED BY <1>1, <1>2, <1>3 DEF DrainStep

LEMMA KeepaliveTypeOK == TypeOK /\ KeepaliveStep => TypeOK'
<1> SUFFICES ASSUME TypeOK, KeepaliveStep PROVE TypeOK'
  OBVIOUS
<1> USE DEF TypeOK, PCs, peer, locals, ghosts
<1>1. CASE KeepaliveRead
  <2>1. batch' \in Seq(Frame) /\ wire' \in Seq(Frame)
    BY <1>1, TakeFromType DEF KeepaliveRead
  <2> QED BY <1>1, <2>1, CommandAbsent, CommandGone DEF KeepaliveRead
<1>2. CASE KeepaliveFrame
  <2>1. Head(batch) \in Frame /\ Tail(batch) \in Seq(Frame) /\ Succ(Head(batch).ns) \in SeqNo
    BY <1>2, HeadOfBatch DEF KeepaliveFrame
  <2>2. Head(batch).kind = IKind => Head(batch).pl.id \in Nat
    BY <1>2, HeadOfBatch DEF KeepaliveFrame, Payload
  <2>3. vr' \in SeqNo /\ dev' \in Device /\ wire' \in Seq(Frame) /\ lost' \in 0 .. MaxLoss
    BY <1>2, <2>1, WriteType, AckWritable DEF KeepaliveFrame
  <2>4. reported' \in Seq(Nat)
    <3>1. CASE reported' = Append(reported, Head(batch).pl.id) /\ Head(batch).kind = IKind
      BY <2>2, <3>1
    <3>2. CASE reported' = reported
      BY <3>2
    <3> QED BY <1>2, <3>1, <3>2 DEF KeepaliveFrame
  <2>5. batch' \in Seq(Frame)
    <3>1. batch' = <<>> \/ batch' = Tail(batch)
      BY <1>2 DEF KeepaliveFrame, AfterHead
    <3>2. <<>> \in Seq(Frame)
      OBVIOUS
    <3> QED BY <2>1, <3>1, <3>2
  <2>6. pc = "pollFrames" /\ pc' \in {"pollFrames", "failed"}
    BY <1>2 DEF KeepaliveFrame
  <2> QED BY <1>2, <2>3, <2>4, <2>5, <2>6, CommandAbsent, CommandGone DEF KeepaliveFrame
<1>3. CASE KeepaliveDone
  BY <1>3, CommandAbsent, CommandGone DEF KeepaliveDone
<1> QED BY <1>1, <1>2, <1>3 DEF KeepaliveStep

\* A step that leaves the primary alone leaves its command alone.
LEMMA CommandUntouched ==
  ASSUME CommandOK, UNCHANGED <<pc, req, iframe>>
  PROVE  CommandOK'
BY DEF CommandOK, InExchange

LEMMA DeviceTypeOK == TypeOK /\ DeviceStep => TypeOK'
<1> SUFFICES ASSUME TypeOK, DeviceStep PROVE TypeOK'
  OBVIOUS
<1>1. dev' \in Device
  BY OwnStepsType DEF TypeOK, DeviceStep, DevFinish, DevAlarm, DevRestart, Restarted
<1>2. restarts' \in 0 .. MaxRestart
  BY DEF TypeOK, DeviceStep, DevFinish, DevAlarm, DevRestart, ghosts
<1>3. UNCHANGED <<pc, peer, wire, batch, locals, issued, answer, abandoned, reported, lost>>
  BY DEF DeviceStep, DevFinish, DevAlarm, DevRestart, ghosts
<1> QED BY <1>1, <1>2, <1>3, CommandUntouched DEF TypeOK, peer, locals

\* Every variable keeps its type: the sequence numbers stay in range, the
\* resend counter never goes below zero, and the I-frame that is resent is
\* always the one built for the request being exchanged.
THEOREM TypeCorrect == Spec => []TypeOK
<1>1. TypeOK /\ UNCHANGED vars => TypeOK'
  BY DEF TypeOK, CommandOK, InExchange, vars, peer, locals, ghosts
<1>2. TypeOK /\ [Next]_vars => TypeOK'
  BY <1>1, CallerTypeOK, ExchangeTypeOK, DrainTypeOK, KeepaliveTypeOK, DeviceTypeOK DEF Next
<1> QED BY <1>2, InitTypeOK, PTL DEF Spec

-------------------------------------------------------------------------------
LEMMA VsStep == TypeOK /\ VsAdvancesOnce /\ [Next]_vars => VsAdvancesOnce'
<1> SUFFICES ASSUME TypeOK, VsAdvancesOnce, [Next]_vars, InExchange'
             PROVE  vs' = IF acked' THEN Succ(sentNs') ELSE sentNs'
  BY DEF VsAdvancesOnce
<1>1. ASSUME InExchange, UNCHANGED <<vs, acked, iframe>>
      PROVE  vs' = IF acked' THEN Succ(sentNs') ELSE sentNs'
  BY <1>1 DEF VsAdvancesOnce, sentNs
<1>2. ASSUME InExchange, UNCHANGED iframe, NEW f, NoteNr(f)
      PROVE  vs' = IF acked' THEN Succ(sentNs') ELSE sentNs'
  BY <1>2 DEF VsAdvancesOnce, NoteNr, sentNs
<1>3. CASE Caller
  <2>1. PICK p \in Procs : Start(p)
    BY <1>3 DEF Caller, Connect, Linked, Release, Keepalive, InExchange
  <2>2. iframe' = IFrame(vs, vr, [proc |-> p, id |-> issued + 1]) /\ acked' = FALSE /\ vs' = vs
    BY <2>1 DEF Start, peer
  <2>3. sentNs' = vs
    BY <2>2 DEF sentNs, IFrame
  <2> QED BY <2>2, <2>3
<1>4. CASE ExchangeStep
  <2>1. CASE HandleRR \/ HandleRej \/ HandleDuplicate \/ HandleIndication \/ HandleUnexpected
    BY <2>1, <1>2 DEF HandleRR, HandleRej, HandleDuplicate, HandleIndication,
                      HandleUnexpected, HandleNew, Handling, InExchange
  <2>2. CASE Read \/ Resend \/ Poll
    BY <2>2, <1>1 DEF Read, Resend, Poll, Decide, InExchange, peer
  <2>3. CASE HandleReset \/ HandleResponse \/ Expire
    BY <2>3 DEF HandleReset, HandleResponse, Expire, InExchange
  <2> QED BY <1>4, <2>1, <2>2, <2>3 DEF ExchangeStep
<1>5. CASE DrainStep
  BY <1>5 DEF DrainStep, DrainRead, DrainFrame, DrainNext, InExchange
<1>6. CASE KeepaliveStep
  BY <1>6 DEF KeepaliveStep, KeepaliveRead, KeepaliveFrame, KeepaliveDone, InExchange
<1>7. CASE DeviceStep
  BY <1>7, <1>1 DEF DeviceStep, DevFinish, DevAlarm, DevRestart, InExchange, peer, locals
<1>8. CASE UNCHANGED vars
  BY <1>8, <1>1 DEF vars, peer, locals, InExchange
<1> QED BY <1>3, <1>4, <1>5, <1>6, <1>7, <1>8 DEF Next

\* V(S) is N(S) of the command until it is acknowledged, and one more from
\* then on: neither an RR after an RR nor the response moves it twice.
THEOREM VsCorrect == Spec => []VsAdvancesOnce
<1>1. Init => VsAdvancesOnce
  BY DEF Init, VsAdvancesOnce, InExchange
<1> QED BY <1>1, VsStep, TypeCorrect, PTL DEF Spec

-------------------------------------------------------------------------------
\* DeadlineHolds is not inductive: how far past the deadline a pass may be
\* depends on where in the pass it is, and a pass that resent a command late
\* cannot resend again before it expires.
DeadlineInv ==
  /\ InExchange => /\ deadline <= elapsed + Timeout
                   /\ deadline <= Timeout + Extension * Len(reported)
  /\ pc = "reading" => \/ elapsed <= deadline + 1
                       \/ elapsed <= deadline + 2 /\ elapsed < retxAt
  /\ pc = "frames" => \/ elapsed <= deadline + 2
                      \/ elapsed <= deadline + 3 /\ elapsed <= retxAt

LEMMA ExtensionStep ==
  ASSUME NEW n \in Nat
  PROVE  Extension * (n + 1) = Extension * n + Extension /\ Extension * n \in Nat
OBVIOUS

LEMMA LaterIsWithin ==
  ASSUME NEW d \in Nat, NEW a \in Nat, NEW b \in Nat, NEW t \in Nat, a <= b, d <= a + t
  PROVE  d <= b + t
OBVIOUS

LEMMA DeadlineStep == TypeOK /\ DeadlineInv /\ [Next]_vars => DeadlineInv'
<1> SUFFICES ASSUME TypeOK, DeadlineInv, [Next]_vars PROVE DeadlineInv'
  OBVIOUS
<1>0. /\ elapsed \in Nat /\ deadline \in Nat /\ retxAt \in Nat
      /\ reported \in Seq(Nat) /\ Len(reported) \in Nat
  BY DEF TypeOK
<1>1. ASSUME InExchange, UNCHANGED <<pc, deadline, elapsed, retxAt, reported>>
      PROVE  DeadlineInv'
  BY <1>1 DEF DeadlineInv, InExchange
<1>2. ASSUME ~InExchange' PROVE DeadlineInv'
  BY <1>2 DEF DeadlineInv, InExchange
<1>3. CASE Caller
  <2>1. CASE Connect \/ Release \/ Keepalive
    BY <2>1, <1>2 DEF Connect, Linked, Release, Keepalive, InExchange
  <2>2. ASSUME NEW p \in Procs, Start(p) PROVE DeadlineInv'
    <3>1. /\ pc' = "reading" /\ elapsed' = 0 /\ deadline' = Timeout /\ reported' = reported
      BY <2>2 DEF Start
    <3> QED BY <1>0, <3>1, ExtensionStep DEF DeadlineInv, InExchange
  <2> QED BY <1>3, <2>1, <2>2 DEF Caller
<1>4. CASE ExchangeStep
  <2>1. CASE Read
    <3>1. /\ pc = "reading" /\ pc' = "frames" /\ elapsed' \in {elapsed, elapsed + 1}
          /\ UNCHANGED <<deadline, retxAt, reported>>
      BY <2>1 DEF Read, ReadFrames, ghosts
    <3>2. deadline' <= elapsed' + Timeout /\ deadline' <= Timeout + Extension * Len(reported')
      <4>1. deadline <= Timeout + Extension * Len(reported)
        BY <3>1 DEF DeadlineInv, InExchange
      <4>2. deadline <= elapsed + Timeout
        BY <3>1 DEF DeadlineInv, InExchange
      <4>3. deadline' = deadline /\ reported' = reported
        BY <3>1
      <4>4. elapsed' \in Nat /\ elapsed <= elapsed'
        BY <1>0, <3>1
      <4>5. deadline <= elapsed' + Timeout
        BY <1>0, <4>2, <4>4, LaterIsWithin
      <4> QED BY <4>1, <4>3, <4>5
    <3>3. \/ elapsed' <= deadline' + 2
          \/ elapsed' <= deadline' + 3 /\ elapsed' <= retxAt'
      BY <1>0, <3>1 DEF DeadlineInv
    <3> QED BY <3>1, <3>2, <3>3 DEF DeadlineInv, InExchange
  <2>2. CASE HandleRR \/ HandleRej \/ HandleDuplicate \/ HandleUnexpected
    BY <2>2, <1>1 DEF HandleRR, HandleRej, HandleDuplicate, HandleUnexpected, HandleNew,
                      Handling, InExchange, ghosts
  <2>3. CASE HandleIndication
    <3>1. /\ pc = "frames" /\ UNCHANGED <<pc, elapsed, retxAt>>
          /\ deadline' = Least(deadline + Extension, elapsed + Timeout)
          /\ reported' = Append(reported, Head(batch).pl.id)
      BY <2>3 DEF HandleIndication, HandleNew, Handling
    <3>2. Len(reported') = Len(reported) + 1
      BY <1>0, <3>1
    <3>3. deadline <= deadline' /\ deadline' <= elapsed + Timeout
          /\ deadline' <= deadline + Extension
      BY <1>0, <3>1 DEF DeadlineInv, InExchange, Least
    <3>4. Extension * Len(reported') = Extension * Len(reported) + Extension
      BY <1>0, <3>2, ExtensionStep
    <3>5. deadline' \in Nat /\ Extension * Len(reported) \in Nat
      BY <1>0, <3>1, ExtensionStep DEF Least
    <3> QED BY <1>0, <3>1, <3>3, <3>4, <3>5 DEF DeadlineInv, InExchange
  <2>4. CASE Resend
    <3>1. /\ pc = "frames" /\ pc' = "reading" /\ elapsed > retxAt /\ retxAt' = elapsed + RetxDelay
          /\ UNCHANGED <<deadline, elapsed, reported>>
      BY <2>4 DEF Resend, Decide, ResendGuard, ghosts
    <3> QED BY <1>0, <3>1 DEF DeadlineInv, InExchange
  <2>5. CASE Poll
    <3>1. /\ pc = "frames" /\ pc' = "reading" /\ elapsed <= deadline /\ elapsed' = elapsed + 1
          /\ UNCHANGED <<deadline, retxAt, reported>>
      BY <2>5 DEF Poll, Decide, ghosts
    <3> QED BY <1>0, <3>1 DEF DeadlineInv, InExchange
  <2>6. CASE HandleReset \/ HandleResponse \/ Expire
    BY <2>6, <1>2 DEF HandleReset, HandleResponse, Expire, InExchange
  <2> QED BY <1>4, <2>1, <2>2, <2>3, <2>4, <2>5, <2>6 DEF ExchangeStep
<1>5. CASE DrainStep
  BY <1>5, <1>2 DEF DrainStep, DrainRead, DrainFrame, DrainNext, InExchange
<1>6. CASE KeepaliveStep
  BY <1>6, <1>2 DEF KeepaliveStep, KeepaliveRead, KeepaliveFrame, KeepaliveDone, InExchange
<1>7. CASE DeviceStep
  BY <1>7, <1>1, <1>2 DEF DeviceStep, DevFinish, DevAlarm, DevRestart, InExchange, locals, ghosts
<1>8. CASE UNCHANGED vars
  BY <1>8, <1>1, <1>2 DEF vars, locals, ghosts, InExchange
<1> QED BY <1>3, <1>4, <1>5, <1>6, <1>7, <1>8 DEF Next

\* exchange() never outlives its deadline by more than a pass and a read, and
\* every extension of the deadline is paid for by one reported indication.
THEOREM DeadlineCorrect == Spec => []DeadlineHolds
<1>1. Init => DeadlineInv
  BY DEF Init, DeadlineInv, InExchange
<1>2. TypeOK /\ DeadlineInv => DeadlineHolds
  <2> SUFFICES ASSUME TypeOK, DeadlineInv, InExchange PROVE DeadlineHolds
    BY DEF DeadlineHolds
  <2>1. elapsed \in Nat /\ deadline \in Nat
    BY DEF TypeOK
  <2> QED BY <2>1 DEF DeadlineInv, DeadlineHolds, InExchange
<1> QED BY <1>1, <1>2, DeadlineStep, TypeCorrect, PTL DEF Spec
===============================================================================
