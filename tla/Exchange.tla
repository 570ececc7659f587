------------------------------- MODULE Exchange -------------------------------
(***************************************************************************)
(* The layer-7 exchange of openaisg/link.py against one secondary: a       *)
(* stop-and-wait request and response over a noisy half-duplex line, with  *)
(* the three other things the session does on the same link: quarantine    *)
(* after a timeout (session.py _drain), the keepalive poll, and            *)
(* disconnecting.  Both ends are modelled; frames on their way to the      *)
(* primary wait in `wire`, in order.                                       *)
(*                                                                         *)
(* Time is counted in poll intervals (50 ms): an unanswered read costs     *)
(* one, the sleep before each poll costs one.                              *)
(***************************************************************************)
EXTENDS Secondary

CONSTANTS Timeout,      \* the caller's budget
          RetxDelay,    \* how long a command is left before it is resent: 1.0 s
          Extension,    \* what one indication adds to the deadline: 4 intervals
          MaxRetx,      \* resends of one command: 3 in the code
          DrainBudget,  \* how long _drain may listen: 1.5 s
          Late,         \* TRUE: a frame may take longer than a read to arrive
          WireCap,      \* bound: frames in transit when Late
          MaxLoss,      \* bound: frames lost to noise in a behaviour
          MaxRestart    \* bound: power cycles of the device in a behaviour

ASSUME TimingAssumption == /\ {Timeout, RetxDelay, Extension, DrainBudget} \subseteq Nat
                           /\ RetxDelay > 0
                           /\ MaxRetx \in Nat /\ WireCap \in Nat
                           /\ MaxLoss \in Nat /\ MaxRestart \in Nat
                           /\ Late \in BOOLEAN

VARIABLES
  pc,         \* where the primary is
  vs, vr,     \* PeerState: V(S), V(R)
  up,         \* PeerState.connected
  wire,       \* frames in transit to the primary
  batch,      \* frames the last _read_frames returned, not yet handled
  req,        \* the request being exchanged
  iframe,     \* the I-frame exchange() built for it, once
  acked, missing, retxLeft, retxAt, deadline,   \* the locals of exchange()
  elapsed,    \* time since the I-frame was first written
  dev,        \* the secondary
  \* what properties are stated with; no action reads these
  issued,     \* requests issued
  answer,     \* id of the payload the latest request on this link got, or None
  abandoned,  \* some request since SNRM was given up
  reported,   \* ids of the alarms handed up, in order
  lost, restarts

peer   == <<vs, vr, up>>
locals == <<req, iframe, acked, missing, retxLeft, retxAt, deadline, elapsed>>
ghosts == <<issued, answer, abandoned, reported, restarts>>
vars   == <<pc, peer, wire, batch, locals, dev, ghosts, lost>>

InExchange == pc \in {"reading", "frames"}

sentNs == iframe.ns

RR(poll) == SFrame("RR", vr, poll)

\* Leaving exchange(), by return or by exception, its locals are gone.
NoLocals ==
  /\ req' = None /\ iframe' = None
  /\ acked' = FALSE /\ missing' = FALSE /\ retxLeft' = 0 /\ retxAt' = 0
  /\ deadline' = 0 /\ elapsed' = 0

Init ==
  /\ pc = "closed"
  /\ vs = 0 /\ vr = 0 /\ up = FALSE
  /\ wire = <<>> /\ batch = <<>>
  /\ req = None /\ iframe = None
  /\ acked = FALSE /\ missing = FALSE /\ retxLeft = 0 /\ retxAt = 0
  /\ deadline = 0 /\ elapsed = 0
  /\ \E strict \in Strictness : dev = FreshDevice(strict)
  /\ issued = 0 /\ answer = None /\ abandoned = FALSE /\ reported = <<>>
  /\ lost = 0 /\ restarts = 0

-------------------------------------------------------------------------------
\* Writing a frame: the device hears it and its answer travels back, unless
\* noise takes the frame or the answer.
Delivered(f) == \E o \in Respond(dev, f) :
                  dev' = o.dev /\ wire' = wire \o o.reply /\ UNCHANGED lost
Noise        == lost < MaxLoss /\ lost' = lost + 1 /\ UNCHANGED wire
LostOut(f)   == Noise /\ dev' = Garbled(dev, f)
LostBack(f)  == Noise /\ \E o \in Respond(dev, f) : o.reply # <<>> /\ dev' = o.dev
Write(f)     == Delivered(f) \/ LostOut(f) \/ LostBack(f)

\* _read_frames: whatever has arrived, at least one frame if any has; only
\* silence uses up the read's budget.
TakeFrom(k) == /\ batch' = SubSeq(wire, 1, k)
               /\ wire' = SubSeq(wire, k + 1, Len(wire))
CanBeSilent == wire = <<>> \/ (Late /\ Len(wire) < WireCap)
ReadFrames  == \/ /\ CanBeSilent
                  /\ TakeFrom(0) /\ elapsed' = elapsed + 1
               \/ /\ \E k \in 1 .. Len(wire) : TakeFrom(k)
                  /\ UNCHANGED elapsed

-------------------------------------------------------------------------------
\* connect(): SNRM on a flushed line.  Without a UA it raises, and the device
\* may or may not have reset its side.
Linked == /\ vs' = 0 /\ vr' = 0 /\ up' = TRUE /\ pc' = "idle"
          /\ abandoned' = FALSE /\ answer' = None
Connect ==
  /\ pc = "closed"
  /\ \/ dev' = Snrm(dev) /\ Linked /\ UNCHANGED lost
     \/ /\ lost < MaxLoss /\ lost' = lost + 1
        /\ dev' \in {dev, Snrm(dev)}
        /\ UNCHANGED <<peer, pc, abandoned, answer>>
  /\ wire' = <<>>
  /\ UNCHANGED <<batch, locals, issued, reported, restarts>>

\* _release(): DISC, answered or not, and the port is closed.
Release ==
  /\ pc \in {"idle", "failed"}
  /\ \/ dev' = Disc(dev) /\ UNCHANGED lost
     \/ lost < MaxLoss /\ lost' = lost + 1 /\ dev' \in {dev, Disc(dev)}
  /\ vs' = 0 /\ vr' = 0 /\ up' = FALSE
  /\ wire' = <<>> /\ pc' = "closed"
  /\ UNCHANGED <<batch, locals, ghosts>>

-------------------------------------------------------------------------------
\* exchange(): build the I-frame, write it, start the clock.
Start(p) ==
  /\ pc = "idle" /\ issued < MaxReq
  /\ LET r == [proc |-> p, id |-> issued + 1]
         f == IFrame(vs, vr, r)
     IN req' = r /\ iframe' = f /\ Write(f)
  /\ acked' = FALSE /\ missing' = FALSE
  /\ retxLeft' = MaxRetx /\ retxAt' = RetxDelay
  /\ deadline' = Timeout /\ elapsed' = 0
  /\ issued' = issued + 1 /\ answer' = None
  /\ pc' = "reading"
  /\ UNCHANGED <<peer, batch, abandoned, reported, restarts>>

Read ==
  /\ pc = "reading" /\ ReadFrames
  /\ pc' = "frames"
  /\ UNCHANGED <<peer, req, iframe, acked, missing, retxLeft, retxAt, deadline, dev,
                 ghosts, lost>>

\* The frames of a batch are handled in order.
Handling(kinds) == pc = "frames" /\ batch # <<>> /\ Head(batch).kind \in kinds
AfterHead       == batch' = Tail(batch)

\* DM or FRMR: forget the link, drop the rest of the batch, raise LinkReset.
HandleReset ==
  /\ Handling(UKinds)
  /\ vs' = 0 /\ vr' = 0 /\ up' = FALSE
  /\ batch' = <<>> /\ pc' = "failed" /\ NoLocals
  /\ UNCHANGED <<wire, dev, ghosts, lost>>

\* _apply_ack: an N(R) one past our N(S) acknowledges the command and moves
\* V(S); an N(R) equal to our N(S) asks for the command again.
AcksAny(f) == f.nr = sentNs                \* variant: off by one
Acks(f) == f.nr = Succ(sentNs)
Asks(f) == f.nr = sentNs
NoteNrEach(f) ==                           \* variant: V(S) moves on every ack
  /\ missing' = (missing \/ Asks(f))
  /\ acked' = (acked \/ Acks(f))
  /\ vs' = IF Acks(f) THEN Succ(vs) ELSE vs
NoteNr(f) ==
  /\ missing' = (missing \/ Asks(f))
  /\ acked' = (acked \/ Acks(f))
  /\ vs' = IF ~acked /\ Acks(f) THEN Succ(sentNs) ELSE vs

\* RR and RNR only carry an N(R).
HandleRR ==
  /\ Handling({"RR", "RNR"})
  /\ NoteNr(Head(batch)) /\ AfterHead
  /\ UNCHANGED <<pc, vr, up, wire, req, iframe, retxLeft, retxAt, deadline, elapsed, dev,
                 ghosts, lost>>

\* REJ: resend at once, if the command was never acked and resends are left.
HandleRej ==
  /\ Handling({"REJ"})
  /\ NoteNr(Head(batch)) /\ AfterHead
  /\ IF ~acked' /\ retxLeft > 0
     THEN Write(iframe) /\ retxLeft' = retxLeft - 1
     ELSE UNCHANGED <<dev, wire, lost, retxLeft>>
  /\ UNCHANGED <<pc, vr, up, req, iframe, retxAt, deadline, elapsed, ghosts>>

\* An I-frame seen before (or out of sequence): acknowledge again, drop it.
HandleDuplicate ==
  /\ Handling({IKind}) /\ Head(batch).ns # vr
  /\ NoteNr(Head(batch)) /\ AfterHead
  /\ Write(RR(TRUE))
  /\ UNCHANGED <<pc, vr, up, req, iframe, retxLeft, retxAt, deadline, elapsed, ghosts>>

\* RetapRouter: the procedure code alone decides what an I-frame is.
VerdictNoDemux(pl) ==                      \* variant: indications not recognised
  IF pl.proc = req.proc THEN "accept" ELSE "unexpected"
Verdict(pl) == IF pl.proc = Alarm THEN "indication"
               ELSE IF pl.proc = req.proc THEN "accept" ELSE "unexpected"
HandleNewAnyNs(verdict) ==                 \* variant: N(S) not compared
  /\ Handling({IKind})
  /\ Verdict(Head(batch).pl) = verdict
  /\ vr' = Succ(Head(batch).ns)
HandleNew(verdict) ==
  /\ Handling({IKind}) /\ Head(batch).ns = vr
  /\ Verdict(Head(batch).pl) = verdict
  /\ vr' = Succ(Head(batch).ns)

\* The response: final ack without P, V(S) moved if no N(R) had moved it, and
\* the rest of the batch is dropped.
HandleResponseTwice ==                     \* variant: V(S) moved again on the response
  /\ HandleNew("accept")
  /\ vs' = Succ(vs)
  /\ Write(SFrame("RR", vr', FALSE))
  /\ answer' = Head(batch).pl.id
  /\ batch' = <<>> /\ pc' = "idle" /\ NoLocals
  /\ UNCHANGED <<up, issued, abandoned, reported, restarts>>
HandleResponse ==
  /\ HandleNew("accept")
  /\ vs' = IF acked THEN vs ELSE Succ(sentNs)
  /\ Write(SFrame("RR", vr', FALSE))
  /\ answer' = Head(batch).pl.id
  /\ batch' = <<>> /\ pc' = "idle" /\ NoLocals
  /\ UNCHANGED <<up, issued, abandoned, reported, restarts>>

\* An AlarmIndication: acknowledge (inviting the next frame), hand it up, and
\* give the response longer.
Most(a, b)  == IF a < b THEN b ELSE a      \* variant of Least: max for min
Least(a, b) == IF a < b THEN a ELSE b
HandleIndication ==
  /\ HandleNew("indication")
  /\ NoteNr(Head(batch)) /\ AfterHead
  /\ Write(SFrame("RR", vr', TRUE))
  /\ reported' = Append(reported, Head(batch).pl.id)
  /\ deadline' = Least(deadline + Extension, elapsed + Timeout)
  /\ UNCHANGED <<pc, up, req, iframe, retxLeft, retxAt, elapsed, issued, answer, abandoned,
                 restarts>>

\* A response to some other procedure: acknowledge it and drop it.
HandleUnexpected ==
  /\ HandleNew("unexpected")
  /\ NoteNr(Head(batch)) /\ AfterHead
  /\ Write(SFrame("RR", vr', TRUE))
  /\ UNCHANGED <<pc, up, req, iframe, retxLeft, retxAt, deadline, elapsed, ghosts>>

\* When the batch is empty: resend, give up, or poll.
Decide      == pc = "frames" /\ batch = <<>>
ResendOnSilence  == ~acked /\ elapsed > retxAt /\ retxLeft > 0   \* variant: nobody asked
ResendThoughAcked == missing /\ elapsed > retxAt /\ retxLeft > 0  \* variant: acked or not
ResendGuard == ~acked /\ missing /\ elapsed > retxAt /\ retxLeft > 0

Resend ==
  /\ Decide /\ ResendGuard
  /\ Write(iframe)
  /\ retxLeft' = retxLeft - 1 /\ retxAt' = elapsed + RetxDelay /\ missing' = FALSE
  /\ pc' = "reading"
  /\ UNCHANGED <<peer, batch, req, iframe, acked, deadline, elapsed, ghosts>>

\* AisgTimeout; the session quarantines the link only if the command was acked.
Expire ==
  /\ Decide /\ ~ResendGuard /\ elapsed > deadline
  /\ abandoned' = TRUE
  /\ pc' = IF acked THEN "draining" ELSE "idle"
  /\ NoLocals
  /\ UNCHANGED <<peer, wire, batch, dev, issued, answer, reported, restarts, lost>>

Poll ==
  /\ Decide /\ ~ResendGuard /\ elapsed <= deadline
  /\ Write(RR(TRUE))
  /\ elapsed' = elapsed + 1
  /\ pc' = "reading"
  /\ UNCHANGED <<peer, batch, req, iframe, acked, missing, retxLeft, retxAt, deadline, ghosts>>

-------------------------------------------------------------------------------
\* session._drain: listen until a read comes back empty or the budget is gone,
\* acknowledging every I-frame unseen.
DrainReadOn ==                             \* variant: silence does not end it
  /\ pc = "draining"
  /\ \/ CanBeSilent /\ TakeFrom(0) /\ UNCHANGED <<elapsed, pc>>
     \/ /\ \E k \in 1 .. Len(wire) : TakeFrom(k)
        /\ elapsed' = elapsed + 1 /\ pc' = "drainFrames"
  /\ UNCHANGED <<peer, req, iframe, acked, missing, retxLeft, retxAt, deadline, dev,
                 ghosts, lost>>
DrainRead ==
  /\ pc = "draining"
  /\ \/ CanBeSilent /\ TakeFrom(0) /\ elapsed' = 0 /\ pc' = "idle"
     \/ /\ \E k \in 1 .. Len(wire) : TakeFrom(k)
        /\ elapsed' = elapsed + 1 /\ pc' = "drainFrames"
  /\ UNCHANGED <<peer, req, iframe, acked, missing, retxLeft, retxAt, deadline, dev,
                 ghosts, lost>>
DrainFrame ==
  /\ pc = "drainFrames" /\ batch # <<>>
  /\ AfterHead
  /\ IF Head(batch).kind = IKind
     THEN vr' = Succ(Head(batch).ns) /\ Write(SFrame("RR", vr', TRUE))
     ELSE UNCHANGED <<vr, dev, wire, lost>>
  /\ UNCHANGED <<pc, vs, up, locals, ghosts>>
DrainNext ==
  /\ pc = "drainFrames" /\ batch = <<>>
  /\ \/ elapsed < DrainBudget /\ pc' = "draining" /\ UNCHANGED elapsed
     \/ elapsed >= DrainBudget /\ pc' = "idle" /\ elapsed' = 0
  /\ UNCHANGED <<peer, wire, batch, req, iframe, acked, missing, retxLeft, retxAt, deadline,
                 dev, ghosts, lost>>

-------------------------------------------------------------------------------
\* session._keepalive_poll: one RR poll and one read.
Keepalive ==
  /\ pc = "idle"
  /\ Write(RR(TRUE)) /\ pc' = "polling"
  /\ UNCHANGED <<peer, batch, locals, ghosts>>
KeepaliveRead ==
  /\ pc = "polling"
  /\ (CanBeSilent /\ TakeFrom(0)) \/ \E k \in 1 .. Len(wire) : TakeFrom(k)
  /\ pc' = "pollFrames"
  /\ UNCHANGED <<peer, locals, dev, ghosts, lost>>
KeepaliveFrame ==
  /\ pc = "pollFrames" /\ batch # <<>>
  /\ LET f == Head(batch) IN
     \/ /\ f.kind \in UKinds
        /\ batch' = <<>> /\ pc' = "failed"
        /\ UNCHANGED <<vr, reported, dev, wire, lost>>
     \/ /\ f.kind = IKind /\ f.ns = vr
        /\ vr' = Succ(f.ns) /\ Write(SFrame("RR", vr', FALSE))
        /\ reported' = IF f.pl.proc = Alarm THEN Append(reported, f.pl.id) ELSE reported
        /\ AfterHead /\ UNCHANGED pc
     \/ /\ f.kind \in SKinds \/ (f.kind = IKind /\ f.ns # vr)
        /\ AfterHead
        /\ UNCHANGED <<pc, vr, reported, dev, wire, lost>>
  /\ UNCHANGED <<vs, up, locals, issued, answer, abandoned, restarts>>
KeepaliveDone ==
  /\ pc = "pollFrames" /\ batch = <<>> /\ pc' = "idle"
  /\ UNCHANGED <<peer, wire, batch, locals, dev, ghosts, lost>>

-------------------------------------------------------------------------------
\* The device on its own.
DevFinish ==
  /\ \E r \in dev.todo : dev' = Finished(dev, r)
  /\ UNCHANGED <<pc, peer, wire, batch, locals, ghosts, lost>>
DevAlarm ==
  /\ dev.conn /\ dev.raised < MaxAlarm
  /\ dev' = AlarmRaised(dev)
  /\ UNCHANGED <<pc, peer, wire, batch, locals, ghosts, lost>>
DevRestart ==
  /\ dev.conn /\ restarts < MaxRestart
  /\ dev' = Restarted(dev) /\ restarts' = restarts + 1
  /\ UNCHANGED <<pc, peer, wire, batch, locals, issued, answer, abandoned, reported, lost>>

Caller == Connect \/ Release \/ Keepalive \/ (\E p \in Procs : Start(p))
ExchangeStep ==
  \/ Read \/ HandleReset \/ HandleRR \/ HandleRej \/ HandleDuplicate
  \/ HandleResponse \/ HandleIndication \/ HandleUnexpected
  \/ Resend \/ Expire \/ Poll
DrainStep     == DrainRead \/ DrainFrame \/ DrainNext
KeepaliveStep == KeepaliveRead \/ KeepaliveFrame \/ KeepaliveDone
DeviceStep    == DevFinish \/ DevAlarm \/ DevRestart

Next == Caller \/ ExchangeStep \/ DrainStep \/ KeepaliveStep \/ DeviceStep

Spec == Init /\ [][Next]_vars

\* The worker thread is never descheduled for good while it is inside a call:
\* reads time out and sleeps end.  Nothing obliges it to start another call.
FairSpec == Spec /\ WF_vars(ExchangeStep) /\ WF_vars(DrainStep) /\ WF_vars(KeepaliveStep)

-------------------------------------------------------------------------------
(***************************************************************************)
(* Properties.  `abandoned` stands for "some request on this link was given *)
(* up with AisgTimeout": what holds until then, and what does not after,   *)
(* is most of what there is to say about this protocol.                    *)
(***************************************************************************)

PCs == {"closed", "idle", "failed", "reading", "frames", "draining", "drainFrames",
        "polling", "pollFrames"}

\* While a command is out, its frame is the I-frame built for it.
CommandOK ==
  IF InExchange
  THEN req \in Request /\ iframe \in Frame /\ iframe.kind = IKind /\ iframe.pl = req
  ELSE req = None /\ iframe = None

\* Types: each variable of the exchange, and the record of the device.
TypeOK ==
  /\ pc \in PCs
  /\ vs \in SeqNo /\ vr \in SeqNo /\ up \in BOOLEAN
  /\ wire \in Seq(Frame) /\ batch \in Seq(Frame)
  /\ CommandOK
  /\ acked \in BOOLEAN /\ missing \in BOOLEAN
  /\ retxLeft \in 0 .. MaxRetx
  /\ retxAt \in Nat /\ deadline \in Nat /\ elapsed \in Nat
  /\ dev \in Device
  /\ issued \in 0 .. MaxReq /\ answer \in Nat \cup {None} /\ abandoned \in BOOLEAN
  /\ reported \in Seq(Nat)
  /\ lost \in 0 .. MaxLoss /\ restarts \in 0 .. MaxRestart

\* V(S) moves once per command however its acknowledgement arrives, by an RR
\* or by the response itself (_apply_ack and the accept branch of exchange()).
VsAdvancesOnce ==
  InExchange => vs = IF acked THEN Succ(sentNs) ELSE sentNs

\* Between two exchanges both stations agree on the next command's number, and
\* the device has at most one frame the primary has not seen or not acked.
SequenceInSync ==
  pc = "idle" /\ dev.conn /\ ~abandoned =>
    /\ vs = dev.vr
    /\ vr = dev.vs \/ (dev.sent # None /\ vr = Succ(dev.vs))

\* A command exchange() believes acknowledged has reached the device
\* (AisgTimeout.acked: "the device has the command").
AckedMeansReceived ==
  InExchange /\ acked /\ ~abandoned => dev.execs[req.id] > 0

\* The payload exchange() returns answers the request it was called with.
ResponseMatches == answer # None /\ ~abandoned => answer = issued

\* The same across timeouts: _drain exists so that a late response is not
\* taken for the next command's.
ResponseAlwaysMatches == answer # None => answer = issued

\* No command moves the actuator twice, on a device that executes whatever
\* I-frame it is sent (REJ and N(R)-driven resends of exchange()).
ExecutedAtMostOnce == \A i \in 1 .. MaxReq : dev.execs[i] <= 1

\* Once exchange() has seen the acknowledgement it never causes another
\* execution of that command (test_acked_command_is_never_retransmitted).
AckedNotReexecuted ==
  [][ \A i \in 1 .. MaxReq :
        InExchange /\ InExchange' /\ acked' /\ req.id = i => dev'.execs[i] = dev.execs[i] ]_vars

\* Each alarm is handed up once and in the order it was raised, through
\* retransmissions, re-polls and both receivers (exchange and keepalive).
AlarmsInOrder ==
  \A i, j \in 1 .. Len(reported) : i < j => reported[i] < reported[j]

\* An acknowledgement lets the device forget an alarm, so only alarms handed
\* up may be acknowledged, as long as nothing was quarantined.
FreedOnceReported ==
  [][ \A a \in dev'.freed \ dev.freed :
        abandoned \/ \E i \in 1 .. Len(reported') : reported'[i] = a ]_vars

\* The same with the quarantine (_drain) included.
FreedAlwaysReported ==
  [][ \A a \in dev'.freed \ dev.freed : \E i \in 1 .. Len(reported') : reported'[i] = a ]_vars

\* A device that enforces sequence numbers never has cause to send FRMR while
\* no command has been given up and it raises no alarm: resends happen only on
\* an N(R) that asks (exchange, 475-490).
NoFrameReject == dev.frmr => abandoned \/ dev.raised > 0

\* exchange() returns or raises within its deadline plus one pass of its loop,
\* and one more read when that pass resends (the resend branch skips the
\* deadline test); an indication pushes the deadline by Extension at most.
DeadlineHolds ==
  InExchange => /\ elapsed <= deadline + 3
                /\ deadline <= Timeout + Extension * Len(reported)

\* A call into the link layer comes back: with a response, an exception, or
\* (drain, keepalive) on its own.
CallReturns == pc \notin {"idle", "closed", "failed"} ~> pc \in {"idle", "closed", "failed"}
===============================================================================
