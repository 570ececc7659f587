------------------------------ MODULE LinkProofs ------------------------------
(***************************************************************************)
(* What holds of both stations and the line between them, for every        *)
(* modulus, set of procedures, timing and number of losses: the numbers of *)
(* either direction agree, a command acknowledged was received, a response *)
(* is that of its request, and alarms arrive once, in order and before the *)
(* device may forget them.                                                 *)
(***************************************************************************)
EXTENDS ExchangeProofs, SequenceSets

-------------------------------------------------------------------------------
\* What is on its way to the primary, handled or not.
Line == batch \o wire
OnLink == pc \notin {"closed", "failed"}

\* The I-frames on the line: New to a primary that expects n, or heard before.
New(n) == {f \in Frame : f.kind = IKind /\ f.ns = n}
Old(n) == {f \in Frame : f.kind = IKind /\ f.ns # n}

\* The numbers of the device's direction.  Copies of the frame heard last come
\* before copies of the one expected next, and of that there is only one: the
\* device keeps it, and sends no other, until it is acknowledged.
Numbered(n, s, d) ==
  /\ \A f \in ToSet(s) \cap Old(n) : Succ(f.ns) = n
  /\ Ordered(s, Old(n), New(n))
  /\ \A f, g \in ToSet(s) \cap New(n) : f.pl = g.pl
  /\ d.conn => /\ d.vs # n => d.sent # None /\ Succ(d.vs) = n
               /\ \A f \in ToSet(s) \cap New(n) : d.vs = n /\ d.sent = f.pl

\* What the device still has to say that a primary that expects n did not hear.
Unseen(n, d) == IF d.sent = None \/ d.vs # n THEN d.out ELSE <<d.sent>> \o d.out

LEMMA DeviceFields ==
  ASSUME NEW d \in Device
  PROVE  /\ d.strict \in BOOLEAN /\ d.conn \in BOOLEAN /\ d.vs \in SeqNo /\ d.vr \in SeqNo
         /\ d.sent \in Owed \cup {None} /\ d.out \in Seq(Owed) /\ d.todo \in SUBSET Request
         /\ d.raised \in 0 .. MaxAlarm /\ d.freed \in SUBSET (1 .. MaxAlarm)
         /\ d.execs \in [1 .. MaxReq -> Nat]
BY DEF Device

LEMMA UnseenType ==
  ASSUME NEW d \in Device, NEW n
  PROVE  Unseen(n, d) \in Seq(Owed)
<1>1. CASE d.sent = None \/ d.vs # n
  BY <1>1, DeviceFields DEF Unseen
<1>2. CASE ~(d.sent = None \/ d.vs # n)
  <2>1. <<d.sent>> \in Seq(Owed) /\ d.out \in Seq(Owed)
    BY <1>2, DeviceFields
  <2> QED BY <1>2, <2>1, ConcatSet DEF Unseen
<1> QED BY <1>1, <1>2

\* A part of the line is numbered as the whole is.
LEMMA NumberedParts ==
  ASSUME NEW s \in Seq(Frame), NEW t \in Seq(Frame), NEW n, NEW d, Numbered(n, s \o t, d)
  PROVE  Numbered(n, s, d) /\ Numbered(n, t, d)
<1>1. ToSet(s \o t) = ToSet(s) \cup ToSet(t)
  BY ConcatSet
<1>2. Ordered(s, Old(n), New(n)) /\ Ordered(t, Old(n), New(n))
  BY OrderedConcat DEF Numbered
<1> QED BY <1>1, <1>2 DEF Numbered

\* Once the frame expected was heard, all behind it is old.
LEMMA NumberedHeard ==
  ASSUME NEW h \in Frame, NEW t \in Seq(Frame), NEW n \in SeqNo, NEW d,
         Numbered(n, <<h>> \o t, d), h \in New(n)
  PROVE  /\ Numbered(Succ(n), t, d) /\ ToSet(t) \cap New(Succ(n)) = {}
         /\ d.conn => d.vs = n /\ d.sent = h.pl /\ d.sent # None
<1>2. ToSet(<<h>> \o t) = {h} \cup ToSet(t)
  BY ConsOrdered
<1>3. ToSet(t) \cap Old(n) = {}
  BY ConsOrdered DEF Numbered
<1>4. Succ(n) # n /\ ToSet(t) \subseteq Frame
  BY SuccSeqNo, MemberTypes
<1>5. ToSet(t) \cap New(Succ(n)) = {}
  BY <1>3, <1>4 DEF New, Old
<1>6. \A f \in ToSet(t) \cap Old(Succ(n)) : f.ns = n
  BY <1>3, <1>4 DEF Old
<1>7. d.conn => d.vs = n /\ d.sent = h.pl
  BY <1>2 DEF Numbered
<1>8. h.pl # None
  BY FrameFields, NoneAssumption DEF New
<1>9. Ordered(t, Old(Succ(n)), New(Succ(n)))
  BY <1>5, MemberTypes DEF Ordered, ToSet
<1> QED BY <1>4, <1>5, <1>6, <1>7, <1>8, <1>9 DEF Numbered

\* What the device does to other fields leaves the numbers alone.
LEMMA NumberedSame ==
  ASSUME NEW n, NEW s, NEW d, NEW e, Numbered(n, s, d), e.conn => d.conn,
         e.vs = d.vs, e.sent = d.sent
  PROVE  Numbered(n, s, e)
BY DEF Numbered

\* A frame the device adds is new if it is the one it keeps, or has no number.
LEMMA NumberedReply ==
  ASSUME NEW n \in SeqNo, NEW s \in Seq(Frame), NEW d, NEW g \in Frame, Numbered(n, s, d),
         g.kind = IKind => d.conn /\ g.ns = d.vs /\ g.pl = d.sent
  PROVE  Numbered(n, s \o <<g>>, d)
<1>2. ToSet(s \o <<g>>) = ToSet(s) \cup {g}
  BY SnocOrdered
<1>3. g \in Old(n) => ToSet(s) \cap New(n) = {} /\ Succ(g.ns) = n
  BY DEF Numbered, Old
<1>4. Ordered(s \o <<g>>, Old(n), New(n))
  BY <1>3, SnocOrdered DEF Numbered
<1>5. g \in New(n) => d.vs = n /\ g.pl = d.sent /\ d.conn
  BY DEF New
<1> QED BY <1>2, <1>3, <1>4, <1>5 DEF Numbered

-------------------------------------------------------------------------------
\* The device's reaction, step by step.  First what an N(R) does to it.
LEMMA AckedFields ==
  ASSUME NEW d \in Device, NEW nr \in SeqNo
  PROVE  /\ Acked(d, nr).strict = d.strict /\ Acked(d, nr).conn = d.conn
         /\ Acked(d, nr).vr = d.vr /\ Acked(d, nr).out = d.out /\ Acked(d, nr).todo = d.todo
         /\ Acked(d, nr).raised = d.raised /\ Acked(d, nr).execs = d.execs
         /\ IF d.sent # None /\ nr = Succ(d.vs)
            THEN /\ Acked(d, nr).vs = nr /\ Acked(d, nr).sent = None
                 /\ \A a \in Acked(d, nr).freed :
                      a \in d.freed \/ (d.sent.proc = Alarm /\ a = d.sent.id)
            ELSE Acked(d, nr) = d
BY DEF Acked, Device

\* Only what the primary heard is acknowledged, so that what it has not heard
\* stays to be said.
LEMMA AckedNumbered ==
  ASSUME NEW d \in Device, NEW n \in SeqNo, NEW s \in Seq(Frame), Numbered(n, s, d), d.conn,
         NEW nr \in SeqNo, nr = n \/ Succ(n) # nr
  PROVE  /\ Numbered(n, s, Acked(d, nr)) /\ Unseen(n, Acked(d, nr)) = Unseen(n, d)
         /\ Acked(d, nr) = d \/ (d.vs # n /\ d.sent # None /\ Acked(d, nr).sent = None)
<1>1. CASE d.sent = None \/ nr # Succ(d.vs)
  BY <1>1, AckedFields
<1>2. CASE d.sent # None /\ nr = Succ(d.vs)
  <2>1. d.vs # n
    BY <1>2, SuccSeqNo
  <2>2. nr = n /\ ToSet(s) \cap New(n) = {}
    BY <1>2, <2>1 DEF Numbered
  <2>3. /\ Acked(d, nr).vs = n /\ Acked(d, nr).sent = None
        /\ Acked(d, nr).out = d.out
    BY <1>2, <2>2, AckedFields
  <2>4. Numbered(n, s, Acked(d, nr))
    BY <2>2, <2>3 DEF Numbered
  <2>5. Unseen(n, Acked(d, nr)) = Unseen(n, d)
    BY <2>1, <2>3 DEF Unseen
  <2> QED BY <1>2, <2>1, <2>3, <2>4, <2>5
<1> QED BY <1>1, <1>2

\* What it says when it is invited.
LEMMA InvitedFields ==
  ASSUME NEW d \in Device, NEW o \in Invited(d)
  PROVE  /\ o.dev.strict = d.strict /\ o.dev.conn = d.conn /\ o.dev.vs = d.vs
         /\ o.dev.vr = d.vr /\ o.dev.todo = d.todo /\ o.dev.raised = d.raised
         /\ o.dev.execs = d.execs /\ o.dev.freed = d.freed
         /\ \E g \in Frame :
              /\ o.reply = <<g>> /\ g.nr = d.vr
              /\ \/ /\ d.sent # None /\ o.dev.sent = d.sent /\ o.dev.out = d.out
                    /\ g.kind = IKind /\ g.ns = d.vs /\ g.pl = d.sent
                 \/ /\ d.sent = None /\ d.out # <<>>
                    /\ o.dev.sent = Head(d.out) /\ o.dev.out = Tail(d.out)
                    /\ g.kind = IKind /\ g.ns = d.vs /\ g.pl = Head(d.out)
                 \/ /\ d.sent = None /\ o.dev.sent = None /\ o.dev.out = d.out
                    /\ g.kind \in SKinds
<1>1. CASE d.sent # None
  <2>1. IFrame(d.vs, d.vr, d.sent) \in Frame
    BY <1>1, FrameTypes, OwedPayload, DeviceFields
  <2>2. o = Outcome(d, <<IFrame(d.vs, d.vr, d.sent)>>)
    BY <1>1 DEF Invited
  <2>3. o.dev = d /\ o.reply = <<IFrame(d.vs, d.vr, d.sent)>>
    BY <2>2 DEF Outcome
  <2> QED BY <1>1, <2>1, <2>3 DEF IFrame
<1>2. CASE d.sent = None /\ d.out # <<>>
  <2>1. Head(d.out) \in Owed
    BY <1>2, DeviceFields
  <2>2. IFrame(d.vs, d.vr, Head(d.out)) \in Frame
    BY <2>1, FrameTypes, OwedPayload, DeviceFields
  <2>3. o = Outcome([d EXCEPT !.sent = Head(d.out), !.out = Tail(d.out), !.missed = FALSE],
                    <<IFrame(d.vs, d.vr, Head(d.out))>>)
    BY <1>2 DEF Invited
  <2>4. /\ o.dev = [d EXCEPT !.sent = Head(d.out), !.out = Tail(d.out), !.missed = FALSE]
        /\ o.reply = <<IFrame(d.vs, d.vr, Head(d.out))>>
    BY <2>3 DEF Outcome
  <2> QED BY <1>2, <2>2, <2>4 DEF IFrame, Device
<1>3. CASE d.sent = None /\ d.out = <<>>
  <2>1. PICK k \in SKinds : o = Outcome([d EXCEPT !.missed = FALSE], <<SFrame(k, d.vr, TRUE)>>)
    BY <1>3 DEF Invited
  <2>2. SFrame(k, d.vr, TRUE) \in Frame
    BY FrameTypes, DeviceFields
  <2>3. o.dev = [d EXCEPT !.missed = FALSE] /\ o.reply = <<SFrame(k, d.vr, TRUE)>>
    BY <2>1 DEF Outcome
  <2> QED BY <1>3, <2>2, <2>3 DEF SFrame, Device
<1> QED BY <1>1, <1>2, <1>3

LEMMA InvitedNumbered ==
  ASSUME NEW d \in Device, NEW n \in SeqNo, NEW s \in Seq(Frame), Numbered(n, s, d), d.conn,
         NEW o \in Invited(d)
  PROVE  /\ Numbered(n, s \o o.reply, o.dev) /\ Numbered(n, s, o.dev)
         /\ Unseen(n, o.dev) = Unseen(n, d)
         /\ d.vs # n => o.dev.sent = d.sent
<1> USE InvitedFields
<1>1. PICK g \in Frame :
        /\ o.reply = <<g>>
        /\ \/ /\ d.sent # None /\ o.dev.sent = d.sent /\ o.dev.out = d.out
              /\ g.kind = IKind /\ g.ns = d.vs /\ g.pl = d.sent
           \/ /\ d.sent = None /\ d.out # <<>>
              /\ o.dev.sent = Head(d.out) /\ o.dev.out = Tail(d.out)
              /\ g.kind = IKind /\ g.ns = d.vs /\ g.pl = Head(d.out)
           \/ d.sent = None /\ o.dev.sent = None /\ o.dev.out = d.out /\ g.kind \in SKinds
  OBVIOUS
<1>2. o.dev.vs = d.vs /\ o.dev.conn
  OBVIOUS
<1>3. d.vs # n => d.sent # None
  BY DEF Numbered
<1>4. CASE o.dev.sent = d.sent /\ o.dev.out = d.out
  <2>1. Numbered(n, s, o.dev)
    BY <1>2, <1>4, NumberedSame
  <2>2. g.kind = IKind => g.ns = o.dev.vs /\ g.pl = o.dev.sent
    BY <1>1, <1>2, <1>4 DEF SKinds, IKind
  <2>3. Numbered(n, s \o <<g>>, o.dev)
    BY <1>2, <2>1, <2>2, NumberedReply
  <2>4. Unseen(n, o.dev) = Unseen(n, d)
    BY <1>2, <1>4 DEF Unseen
  <2> QED BY <1>1, <1>4, <2>1, <2>3, <2>4
<1>5. CASE d.sent = None /\ d.out # <<>> /\ o.dev.sent = Head(d.out) /\ o.dev.out = Tail(d.out)
  <2>1. d.vs = n
    BY <1>3, <1>5
  <2>2. ToSet(s) \cap New(n) = {}
    <3>1. \A f \in New(n) : f.pl # None
      BY FrameFields, NoneAssumption DEF New
    <3> QED BY <1>5, <3>1 DEF Numbered
  <2>3. Head(d.out) \in Owed /\ Head(d.out) # None /\ d.out = <<Head(d.out)>> \o Tail(d.out)
    <3>1. Head(d.out) \in Owed
      BY <1>5, DeviceFields
    <3>2. d.out = <<Head(d.out)>> \o Tail(d.out)
      BY <1>5, DeviceFields
    <3> QED BY <3>1, <3>2, OwedPayload
  <2>4. Numbered(n, s, o.dev)
    BY <1>2, <1>5, <2>1, <2>2 DEF Numbered
  <2>5. g.kind = IKind => g.ns = o.dev.vs /\ g.pl = o.dev.sent
    BY <1>1, <1>2, <1>5 DEF SKinds, IKind
  <2>6. Numbered(n, s \o <<g>>, o.dev)
    BY <1>2, <2>4, <2>5, NumberedReply
  <2>7. Unseen(n, o.dev) = Unseen(n, d)
    BY <1>2, <1>5, <2>1, <2>3 DEF Unseen
  <2> QED BY <1>1, <1>5, <2>1, <2>4, <2>6, <2>7
<1> QED BY <1>1, <1>4, <1>5

\* What a frame f does to a device d: nothing but an acknowledgement and the
\* choice of what is said next, or the command in it is taken.
Takes(n, f, d, e) ==
  /\ f.kind = IKind /\ d.conn /\ (d.strict => f.ns = d.vr)
  /\ e.vr = Succ(f.ns) /\ e.execs = [d.execs EXCEPT ![f.pl.id] = @ + 1]
  /\ \/ e.todo = d.todo /\ Unseen(n, e) = Append(Unseen(n, d), f.pl)
     \/ e.todo = d.todo \cup {f.pl} /\ Unseen(n, e) = Unseen(n, d)

Keeps(n, d, e) == /\ e.vr = d.vr /\ e.todo = d.todo /\ e.execs = d.execs
                  /\ e.conn => Unseen(n, e) = Unseen(n, d)

Heard(n, f, d, e) ==
  /\ e.strict = d.strict /\ e.raised = d.raised /\ (e.conn => d.conn)
  /\ Keeps(n, d, e) \/ Takes(n, f, d, e)
  /\ \A a \in e.freed \ d.freed : /\ d.conn /\ d.vs # n /\ d.sent # None
                                  /\ d.sent.proc = Alarm /\ a = d.sent.id
  /\ e.conn /\ e.vs # n /\ e.sent # None => e.sent = d.sent /\ d.vs # n

\* What the device says carries its V(R).
Says(r, e) ==
  r = <<>> \/ \E g \in Frame : r = <<g>> /\ (g.kind \notin UKinds => e.conn /\ g.nr = e.vr)

Reacts(n, f, s, d, o) == /\ Numbered(n, s, o.dev) /\ Numbered(n, s \o o.reply, o.dev)
                         /\ Heard(n, f, d, o.dev) /\ Says(o.reply, o.dev)

\* The acknowledgement is nothing but that.
LEMMA AckedHeard ==
  ASSUME NEW d \in Device, NEW n \in SeqNo, NEW s \in Seq(Frame), Numbered(n, s, d), d.conn,
         NEW f \in Frame, f.nr = n \/ Succ(n) # f.nr
  PROVE  /\ Numbered(n, s, Acked(d, f.nr)) /\ Heard(n, f, d, Acked(d, f.nr))
         /\ Keeps(n, d, Acked(d, f.nr)) /\ Acked(d, f.nr).conn /\ Acked(d, f.nr) \in Device
<1> DEFINE a == Acked(d, f.nr)
<1>0. f.nr \in SeqNo
  BY FrameFields
<1>1. /\ Numbered(n, s, a) /\ Unseen(n, a) = Unseen(n, d)
      /\ a = d \/ (d.vs # n /\ d.sent # None /\ a.sent = None)
  BY <1>0, AckedNumbered
<1>2. a \in Device
  BY <1>0, AckedType
<1>3. /\ a.strict = d.strict /\ a.conn = d.conn /\ a.vr = d.vr /\ a.todo = d.todo
      /\ a.raised = d.raised /\ a.execs = d.execs
  BY <1>0, AckedFields
<1>4. a # d => \A x \in a.freed : x \in d.freed \/ (d.sent.proc = Alarm /\ x = d.sent.id)
  BY <1>0, AckedFields
<1> QED BY <1>1, <1>2, <1>3, <1>4 DEF Heard, Keeps

\* Reactions of an acknowledged device are reactions of the device.
LEMMA HeardAfter ==
  ASSUME NEW n, NEW f, NEW d, NEW a, NEW e, Keeps(n, d, a), Heard(n, f, d, a), a.conn,
         Heard(n, f, a, e), e.freed = a.freed
  PROVE  Heard(n, f, d, e)
<1>1. ASSUME Keeps(n, a, e) PROVE Keeps(n, d, e)
  BY <1>1 DEF Keeps
<1>2. ASSUME Takes(n, f, a, e) PROVE Takes(n, f, d, e)
  BY <1>2 DEF Takes, Keeps, Heard
<1>3. e.conn /\ e.vs # n /\ e.sent # None => e.sent = d.sent /\ d.vs # n
  BY DEF Heard
<1> QED BY <1>1, <1>2, <1>3 DEF Heard

LEMMA InvitedReacts ==
  ASSUME NEW d \in Device, NEW n \in SeqNo, NEW s \in Seq(Frame), Numbered(n, s, d), d.conn,
         NEW f, NEW o \in Invited(d)
  PROVE  Reacts(n, f, s, d, o) /\ o.dev.freed = d.freed
<1>1. /\ o.dev.strict = d.strict /\ o.dev.conn = d.conn /\ o.dev.vs = d.vs
      /\ o.dev.vr = d.vr /\ o.dev.todo = d.todo /\ o.dev.raised = d.raised
      /\ o.dev.execs = d.execs /\ o.dev.freed = d.freed
      /\ \E g \in Frame : o.reply = <<g>> /\ g.nr = d.vr
  BY InvitedFields
<1>2. /\ Numbered(n, s \o o.reply, o.dev) /\ Numbered(n, s, o.dev)
      /\ Unseen(n, o.dev) = Unseen(n, d) /\ (d.vs # n => o.dev.sent = d.sent)
  BY InvitedNumbered
<1>3. Says(o.reply, o.dev)
  BY <1>1 DEF Says
<1>4. Keeps(n, d, o.dev)
  BY <1>1, <1>2 DEF Keeps
<1> QED BY <1>1, <1>2, <1>3, <1>4 DEF Reacts, Heard

LEMMA RejectsReacts ==
  ASSUME NEW d \in Device, NEW n \in SeqNo, NEW s \in Seq(Frame), Numbered(n, s, d), d.conn,
         NEW f, NEW o \in Rejects(d)
  PROVE  Reacts(n, f, s, d, o) /\ o.dev.freed = d.freed
<1> DEFINE e == [d EXCEPT !.conn = FALSE, !.frmr = TRUE]
           g == UFrame("FRMR")
<1>1. o.dev = e /\ o.reply = <<g>>
  BY DEF Rejects, Outcome
<1>2. g \in Frame /\ g.kind \in UKinds /\ g.kind # IKind
  BY FrameTypes DEF UKinds, UFrame, IKind
<1>3. /\ ~e.conn /\ e.vs = d.vs /\ e.sent = d.sent /\ e.strict = d.strict /\ e.vr = d.vr
      /\ e.todo = d.todo /\ e.raised = d.raised /\ e.execs = d.execs /\ e.freed = d.freed
  BY DEF Device
<1> HIDE DEF e, g
<1>4. Numbered(n, s, e)
  BY <1>3, NumberedSame
<1>5. Numbered(n, s \o <<g>>, e)
  BY <1>2, <1>4, NumberedReply
<1>6. Heard(n, f, d, e) /\ Says(<<g>>, e)
  BY <1>2, <1>3 DEF Heard, Keeps, Says
<1> QED BY <1>1, <1>3, <1>4, <1>5, <1>6 DEF Reacts

LEMMA SilentReacts ==
  ASSUME NEW n \in SeqNo, NEW s \in Seq(Frame), NEW d, Numbered(n, s, d), NEW f, NEW o \in Silent(d)
  PROVE  Reacts(n, f, s, d, o) /\ o.dev.freed = d.freed
<1>1. o.dev = d /\ o.reply = <<>> /\ s \o <<>> = s
  BY ConcatEmptySeq DEF Silent, Outcome
<1>2. Heard(n, f, d, d) /\ Says(<<>>, d)
  BY DEF Heard, Keeps, Says
<1> QED BY <1>1, <1>2 DEF Reacts

\* Taking a command; its answer is said last of what the device has to say.
LEMMA TakenFields ==
  ASSUME NEW d \in Device, NEW f \in Frame, f.pl \in Request,
         NEW t \in {[Taken(d, f) EXCEPT !.out = Append(@, f.pl)],
                    [Taken(d, f) EXCEPT !.todo = @ \cup {f.pl}]}
  PROVE  /\ t.strict = d.strict /\ t.conn = d.conn /\ t.vs = d.vs /\ t.sent = d.sent
         /\ t.vr = Succ(f.ns) /\ t.raised = d.raised /\ t.freed = d.freed
         /\ t.execs = [d.execs EXCEPT ![f.pl.id] = @ + 1]
         /\ \/ t.out = Append(d.out, f.pl) /\ t.todo = d.todo
            \/ t.out = d.out /\ t.todo = d.todo \cup {f.pl}
<1> DEFINE k == Taken(d, f)
<1>1. /\ k.strict = d.strict /\ k.conn = d.conn /\ k.vs = d.vs /\ k.sent = d.sent
      /\ k.vr = Succ(f.ns) /\ k.raised = d.raised /\ k.freed = d.freed
      /\ k.execs = [d.execs EXCEPT ![f.pl.id] = @ + 1] /\ k.out = d.out /\ k.todo = d.todo
  BY DEF Taken, Device
<1>2. k \in Device
  BY TakenType
<1> HIDE DEF k
<1>3. CASE t = [k EXCEPT !.out = Append(@, f.pl)]
  BY <1>1, <1>2, <1>3 DEF Device
<1>4. CASE t = [k EXCEPT !.todo = @ \cup {f.pl}]
  BY <1>1, <1>2, <1>4 DEF Device
<1> QED BY <1>3, <1>4 DEF k

LEMMA UnseenAppend ==
  ASSUME NEW n, NEW d \in Device, NEW e, NEW r \in Owed, e.vs = d.vs, e.sent = d.sent,
         e.out = Append(d.out, r)
  PROVE  Unseen(n, e) = Append(Unseen(n, d), r)
<1>1. CASE d.sent = None \/ d.vs # n
  BY <1>1 DEF Unseen
<1>2. CASE ~(d.sent = None \/ d.vs # n)
  <2>1. d.sent \in Owed /\ d.out \in Seq(Owed)
    BY <1>2, DeviceFields
  <2>2. <<d.sent>> \o Append(d.out, r) = Append(<<d.sent>> \o d.out, r)
    BY <2>1
  <2> QED BY <1>2, <2>2 DEF Unseen
<1> QED BY <1>1, <1>2

LEMMA AcceptsReacts ==
  ASSUME NEW d \in Device, NEW n \in SeqNo, NEW s \in Seq(Frame), Numbered(n, s, d), d.conn,
         NEW f \in Frame, f.kind = IKind, f.pl \in Request, d.strict => f.ns = d.vr,
         NEW o \in Accepts(d, f)
  PROVE  Reacts(n, f, s, d, o) /\ o.dev.freed = d.freed
<1> DEFINE T == {[Taken(d, f) EXCEPT !.out = Append(@, f.pl)],
                 [Taken(d, f) EXCEPT !.todo = @ \cup {f.pl}]}
<1>1. PICK t \in T : o \in Invited(t)
  BY DEF Accepts
<1>2. /\ t.strict = d.strict /\ t.conn = d.conn /\ t.vs = d.vs /\ t.sent = d.sent
      /\ t.vr = Succ(f.ns) /\ t.raised = d.raised /\ t.freed = d.freed
      /\ t.execs = [d.execs EXCEPT ![f.pl.id] = @ + 1]
      /\ \/ t.out = Append(d.out, f.pl) /\ t.todo = d.todo
         \/ t.out = d.out /\ t.todo = d.todo \cup {f.pl}
  BY TakenFields
<1>3. t \in Device
  BY TakenType
<1>4. Numbered(n, s, t)
  BY <1>2, NumberedSame
<1>5. Reacts(n, f, s, t, o) /\ o.dev.freed = t.freed /\ Heard(n, f, t, o.dev)
  BY <1>1, <1>2, <1>3, <1>4, InvitedReacts DEF Reacts
<1>6. \/ t.todo = d.todo /\ Unseen(n, t) = Append(Unseen(n, d), f.pl)
      \/ t.todo = d.todo \cup {f.pl} /\ Unseen(n, t) = Unseen(n, d)
  <2>1. t.out = d.out => Unseen(n, t) = Unseen(n, d)
    BY <1>2 DEF Unseen
  <2>2. t.out = Append(d.out, f.pl) => Unseen(n, t) = Append(Unseen(n, d), f.pl)
    <3>1. f.pl \in Owed
      BY DEF Owed
    <3> QED BY <1>2, <3>1, UnseenAppend
  <2> QED BY <1>2, <2>1, <2>2
<1>7. Keeps(n, t, o.dev) /\ o.dev.conn
  BY <1>1, <1>2, <1>3, <1>4, InvitedFields, InvitedNumbered DEF Keeps
<1>8. Takes(n, f, d, o.dev)
  BY <1>2, <1>6, <1>7 DEF Keeps, Takes
<1> QED BY <1>2, <1>5, <1>8 DEF Reacts, Heard

\* A command or poll that acknowledges no more than was heard.
LEMMA RespondReacts ==
  ASSUME NEW d \in Device, NEW n \in SeqNo, NEW s \in Seq(Frame), Numbered(n, s, d),
         NEW f, Writable(f), f.nr = n \/ Succ(n) # f.nr, NEW o \in Respond(d, f)
  PROVE  Reacts(n, f, s, d, o)
<1> DEFINE a == Acked(d, f.nr)
<1>0. f \in Frame /\ (f.kind = IKind => f.pl \in Request)
  BY DEF Writable
<1>1. CASE ~d.conn
  <2>1. CASE o \in Silent(d)
    BY <2>1, SilentReacts
  <2>2. CASE o = Outcome(d, <<UFrame("DM")>>)
    <3>1. o.dev = d /\ o.reply = <<UFrame("DM")>>
      BY <2>2 DEF Outcome
    <3>2. PICK g \in Frame : g = UFrame("DM") /\ g.kind \in UKinds /\ g.kind # IKind
      BY FrameTypes DEF UKinds, UFrame, IKind
    <3>3. Numbered(n, s \o <<g>>, d)
      BY <3>2, NumberedReply
    <3>4. Heard(n, f, d, d) /\ Says(<<g>>, d)
      BY <3>2 DEF Heard, Keeps, Says
    <3> QED BY <3>1, <3>2, <3>3, <3>4 DEF Reacts
  <2> QED BY <1>1, <2>1, <2>2 DEF Respond
<1>2. CASE d.conn /\ d.strict /\ ~ValidNr(d, f.nr)
  BY <1>2, RejectsReacts DEF Respond
<1>3. CASE d.conn /\ ~(d.strict /\ ~ValidNr(d, f.nr))
  <2>1. /\ Numbered(n, s, a) /\ Heard(n, f, d, a) /\ Keeps(n, d, a) /\ a.conn /\ a \in Device
    BY <1>0, <1>3, AckedHeard
  <2> HIDE DEF a
  <2>2. Reacts(n, f, s, a, o) /\ o.dev.freed = a.freed
    <3>1. CASE f.kind # IKind
      <4>1. o \in Invited(a) \/ o \in Silent(a)
        BY <1>3, <3>1 DEF Respond, HeardS, a
      <4> QED BY <2>1, <4>1, InvitedReacts, SilentReacts
    <3>2. CASE f.kind = IKind
      <4>1. o \in HeardI(a, f)
        BY <1>3, <3>2 DEF Respond, a
      <4>2. CASE o \in Invited(a) \/ o \in Rejects(a)
        BY <2>1, <4>2, InvitedReacts, RejectsReacts
      <4>3. CASE o \in Accepts(a, f) /\ (a.strict => f.ns = a.vr)
        <5>1. f.pl \in Request
          BY <1>0, <3>2
        <5> QED BY <1>0, <2>1, <3>2, <4>3, <5>1, AcceptsReacts
      <4>4. a.strict \in BOOLEAN
        BY <2>1, DeviceFields
      <4> QED BY <4>1, <4>2, <4>3, <4>4 DEF HeardI
    <3> QED BY <3>1, <3>2
  <2>3. Heard(n, f, d, o.dev)
    <3>1. Heard(n, f, a, o.dev)
      BY <2>2 DEF Reacts
    <3> QED BY <2>1, <2>2, <3>1, HeardAfter
  <2> QED BY <2>2, <2>3 DEF Reacts
<1>4. d.strict \in BOOLEAN
  BY DeviceFields
<1> QED BY <1>1, <1>2, <1>3, <1>4

-------------------------------------------------------------------------------
\* Writing a frame while b is still to be handled: noise may take it or the
\* answer, and what is then on the line is numbered.
Fits(n, f) == Writable(f) /\ (f.nr = n \/ Succ(n) # f.nr)

Written(n, f, b) ==
  \E r \in Seq(Frame) : /\ Says(r, dev') /\ wire' = wire \o r
                       /\ b \o wire' = (b \o wire) \o r
                       /\ Heard(n, f, dev, dev') /\ Numbered(n, b \o wire', dev')

LEMMA WriteReacts ==
  ASSUME dev \in Device, wire \in Seq(Frame), NEW n \in SeqNo, NEW b \in Seq(Frame),
         Numbered(n, b \o wire, dev), NEW f, Fits(n, f), Write(f)
  PROVE  Written(n, f, b)
<1> DEFINE s == b \o wire
<1>1. s \in Seq(Frame)
  BY ConcatSet
<1>2. \A r \in Seq(Frame) : b \o (wire \o r) = s \o r
  BY ConcatAssociative
<1>3. <<>> \in Seq(Frame) /\ wire \o <<>> = wire /\ s \o <<>> = s
  BY <1>1, ConcatEmptySeq
<1> HIDE DEF s
<1>4. \A o \in Respond(dev, f) : Reacts(n, f, s, dev, o) /\ o.reply \in Seq(Frame)
  BY <1>1, RespondReacts, RespondType DEF Fits, Writable, s
<1>5. CASE Delivered(f)
  BY <1>2, <1>4, <1>5 DEF Delivered, Written, Reacts, s
<1>6. CASE LostBack(f)
  <2>2. Numbered(n, s, dev') /\ Heard(n, f, dev, dev') /\ wire' = wire
    BY <1>4, <1>6 DEF LostBack, Reacts, Noise
  <2>3. Says(<<>>, dev')
    BY DEF Says
  <2> QED BY <1>2, <1>3, <2>2, <2>3 DEF Written, s
<1>7. CASE LostOut(f)
  <2>1. wire' = wire /\ dev' = Garbled(dev, f)
    BY <1>7 DEF LostOut, Noise
  <2>2. /\ dev'.strict = dev.strict /\ dev'.conn = dev.conn /\ dev'.vs = dev.vs
        /\ dev'.vr = dev.vr /\ dev'.sent = dev.sent /\ dev'.out = dev.out
        /\ dev'.todo = dev.todo /\ dev'.raised = dev.raised /\ dev'.freed = dev.freed
        /\ dev'.execs = dev.execs
    BY <2>1 DEF Garbled, Device
  <2>3. Numbered(n, s, dev')
    BY <2>2, NumberedSame DEF s
  <2>4. Heard(n, f, dev, dev') /\ Says(<<>>, dev')
    BY <2>2 DEF Heard, Keeps, Says, Unseen
  <2> QED BY <1>2, <1>3, <2>1, <2>3, <2>4 DEF Written, s
<1> QED BY <1>5, <1>6, <1>7 DEF Write

-------------------------------------------------------------------------------
\* Only where frames are handled is anything in the batch; the quarantine
\* follows a request that was given up.
Emptied ==
  /\ pc \notin {"frames", "drainFrames", "pollFrames"} => batch = <<>>
  /\ pc \in {"draining", "drainFrames"} => abandoned

LEMMA EmptiedStep == TypeOK /\ Emptied /\ [Next]_vars => Emptied'
<1> SUFFICES ASSUME TypeOK, Emptied, [Next]_vars PROVE Emptied'
  OBVIOUS
<1> USE DEF Emptied, peer, locals, ghosts
<1>0. TakeFrom(0) => batch' = <<>>
  <2>1. SubSeq(wire, 1, 0) = <<>>
    BY SubSeqEmpty
  <2> QED BY <2>1 DEF TakeFrom
<1>1. CASE Caller
  BY <1>1 DEF Caller, Connect, Linked, Release, Keepalive, Start
<1>2. CASE ExchangeStep
  BY <1>2 DEF ExchangeStep, Read, HandleReset, HandleRR, HandleRej, HandleDuplicate, HandleResponse,
              HandleIndication, HandleUnexpected, HandleNew, Handling, Resend, Expire, Poll, Decide
<1>3. CASE DrainStep
  BY <1>0, <1>3 DEF DrainStep, DrainRead, DrainFrame, DrainNext
<1>4. CASE KeepaliveStep
  BY <1>4 DEF KeepaliveStep, KeepaliveRead, KeepaliveFrame, KeepaliveDone
<1>5. CASE DeviceStep
  BY <1>5 DEF DeviceStep, DevFinish, DevAlarm, DevRestart
<1>6. CASE UNCHANGED vars
  BY <1>6 DEF vars
<1> QED BY <1>1, <1>2, <1>3, <1>4, <1>5, <1>6 DEF Next

\* A read takes frames over as they are.
LEMMA TakenLine ==
  ASSUME wire \in Seq(Frame), batch = <<>>, NEW k \in 0 .. Len(wire), TakeFrom(k)
  PROVE  Line' = Line
<1>1. SubSeq(wire, 1, k) \o SubSeq(wire, k + 1, Len(wire)) = SubSeq(wire, 1, Len(wire))
  <2>1. 1 \in 1 .. Len(wire) + 1 /\ k \in 1 - 1 .. Len(wire) /\ Len(wire) \in k .. Len(wire)
    OBVIOUS
  <2> QED BY <2>1, ConcatAdjacentSubSeq
<1>2. SubSeq(wire, 1, Len(wire)) = wire /\ <<>> \o wire = wire
  BY SubSeqFull, ConcatEmptySeq
<1> QED BY <1>1, <1>2 DEF TakeFrom, Line

\* Handling a frame shortens the line at its head.
LEMMA HandledLine ==
  ASSUME batch \in Seq(Frame), wire \in Seq(Frame), batch # <<>>
  PROVE  /\ Line = <<Head(batch)>> \o (Tail(batch) \o wire)
         /\ Head(batch) \in Frame /\ Tail(batch) \in Seq(Frame)
         /\ Tail(batch) \o wire \in Seq(Frame)
<1>1. Head(batch) \in Frame /\ Tail(batch) \in Seq(Frame)
  BY HeadTailProperties
<1>2. <<Head(batch)>> \in Seq(Frame) /\ batch = <<Head(batch)>> \o Tail(batch)
  BY <1>1
<1>3. (<<Head(batch)>> \o Tail(batch)) \o wire = <<Head(batch)>> \o (Tail(batch) \o wire)
  BY <1>1, <1>2, ConcatAssociative
<1> QED BY <1>1, <1>2, <1>3, ConcatSet DEF Line

-------------------------------------------------------------------------------
\* The N(R) of the I-frame of exchange(), built once and resent as it is, has not
\* come round: fewer than Modulus - 1 frames of the device were heard since.
NoWrap == InExchange => Succ(vr) # iframe.nr

\* What a step of the link does to the device's direction.
Stays == Line' = Line /\ UNCHANGED <<vr, dev, reported>> /\ (abandoned => abandoned')

Speaks(f) == /\ Fits(vr, f) /\ Write(f)
             /\ UNCHANGED <<vr, batch, reported, abandoned>>

Skips == /\ batch # <<>> /\ Head(batch) \notin New(vr) /\ AfterHead
         /\ UNCHANGED <<vr, wire, dev, reported, abandoned>>

SkipsAndSpeaks(f) == /\ batch # <<>> /\ Head(batch) \notin New(vr) /\ AfterHead
                     /\ Fits(vr, f) /\ Write(f)
                     /\ UNCHANGED <<vr, reported, abandoned>>

Hears(f) ==
  /\ batch # <<>> /\ Head(batch) \in New(vr) /\ vr' = Succ(vr)
  /\ AfterHead \/ batch' = <<>>
  /\ f.nr = vr' /\ Fits(vr', f) /\ Write(f)
  /\ UNCHANGED abandoned
  /\ \/ reported' = reported /\ (abandoned \/ Head(batch).pl.proc # Alarm)
     \/ reported' = Append(reported, Head(batch).pl.id) /\ Head(batch).pl.proc = Alarm

Opens == /\ batch' = <<>> /\ wire' = <<>> /\ dev' = Snrm(dev) /\ vr' = 0
         /\ pc' = "idle" /\ UNCHANGED reported

NumberedInv == OnLink => Numbered(vr, Line, dev)

LEMMA HeadNumbered ==
  ASSUME TypeOK, OnLink, NumberedInv, batch # <<>>, Head(batch).kind = IKind
  PROVE  IF Head(batch).ns = vr THEN Head(batch) \in New(vr)
         ELSE Head(batch) \notin New(vr) /\ Succ(Head(batch).ns) = vr
<1>1. /\ Line = <<Head(batch)>> \o (Tail(batch) \o wire)
      /\ Head(batch) \in Frame /\ Tail(batch) \o wire \in Seq(Frame)
  BY HandledLine DEF TypeOK
<1>2. \A h \in Frame, t \in Seq(Frame) : ToSet(<<h>> \o t) = {h} \cup ToSet(t)
  BY ConsOrdered
<1>3. Head(batch) \in ToSet(Line)
  BY <1>1, <1>2
<1> QED BY <1>1, <1>3 DEF NumberedInv, Numbered, New, Old

LEMMA AckFits == ASSUME NEW n \in SeqNo, NEW b \in BOOLEAN
                 PROVE  Fits(n, SFrame("RR", n, b)) /\ SFrame("RR", n, b).nr = n
BY AckWritable DEF Fits, SFrame

LEMMA LinkCaller ==
  ASSUME TypeOK, Emptied, OnLink', Caller
  PROVE  (OnLink /\ \E f : Speaks(f)) \/ Opens
<1> USE DEF OnLink, peer, locals, ghosts
<1>1. CASE Connect
  BY <1>1 DEF Connect, Linked, Opens, Emptied
<1>2. CASE Release
  BY <1>2 DEF Release
<1>3. CASE Keepalive
  <2>1. Fits(vr, RR(TRUE))
    BY AckFits DEF RR, TypeOK
  <2>2. Speaks(RR(TRUE)) /\ pc = "idle"
    BY <1>3, <2>1 DEF Keepalive, Speaks
  <2> QED BY <2>2
<1>4. ASSUME NEW p \in Procs, Start(p) PROVE OnLink /\ \E f : Speaks(f)
  <2> DEFINE r == [proc |-> p, id |-> issued + 1]
             f == IFrame(vs, vr, r)
  <2>1. issued + 1 \in 1 .. MaxReq /\ issued + 1 \in Nat
    BY <1>4, BoundsAssumption DEF Start, TypeOK
  <2>a. r \in Request /\ r \in Payload
    BY <2>1 DEF Request, Payload
  <2>2. f \in Frame /\ f.kind = IKind /\ f.pl = r /\ f.nr = vr
    BY <2>a, FrameTypes DEF IFrame, TypeOK
  <2>3. Write(f) /\ pc = "idle" /\ UNCHANGED <<vr, batch, reported, abandoned>>
    BY <1>4 DEF Start
  <2>4. Speaks(f)
    BY <2>a, <2>2, <2>3, SuccSeqNo DEF Speaks, Fits, Writable, TypeOK
  <2> QED BY <2>3, <2>4
<1> QED BY <1>1, <1>2, <1>3, <1>4 DEF Caller

LEMMA LinkExchange ==
  ASSUME TypeOK, Emptied, NumberedInv, NoWrap, OnLink', ExchangeStep
  PROVE  /\ OnLink
         /\ \/ Stays \/ Skips
            \/ \E f : Speaks(f) \/ SkipsAndSpeaks(f) \/ Hears(f)
<1> USE DEF OnLink, peer, locals, ghosts
<1>0. OnLink
  BY DEF ExchangeStep, Read, HandleReset, HandleRR, HandleRej, HandleDuplicate, HandleResponse,
         HandleIndication, HandleUnexpected, HandleNew, Handling, Resend, Expire, Poll, Decide
<1>a. vr \in SeqNo /\ wire \in Seq(Frame) /\ batch \in Seq(Frame)
  BY DEF TypeOK
<1>b. InExchange => Fits(vr, iframe)
  BY CommandPresent DEF Fits, NoWrap, InExchange
<1>c. ASSUME NEW kinds, Handling(kinds)
      PROVE  pc = "frames" /\ batch # <<>> /\ Head(batch).kind \in kinds
  BY <1>c DEF Handling
<1>d. ASSUME NEW verdict, HandleNew(verdict)
      PROVE  /\ pc = "frames" /\ batch # <<>> /\ Head(batch) \in New(vr)
             /\ vr' = Succ(vr) /\ vr' \in SeqNo /\ Verdict(Head(batch).pl) = verdict
  <2>1. pc = "frames" /\ batch # <<>> /\ Head(batch).kind = IKind /\ Head(batch).ns = vr
    BY <1>d DEF HandleNew, Handling
  <2> QED BY <1>0, <1>a, <1>d, <2>1, HeadNumbered, SuccSeqNo DEF HandleNew
<1>1. CASE Read
  <2>1. batch = <<>>
    BY <1>1 DEF Read, Emptied
  <2>2. PICK k \in 0 .. Len(wire) : TakeFrom(k)
    BY <1>1, <1>a DEF Read, ReadFrames
  <2>3. Line' = Line
    BY <1>a, <2>1, <2>2, TakenLine
  <2> QED BY <1>0, <1>1, <2>3 DEF Read, Stays
<1>2. CASE HandleReset
  BY <1>2 DEF HandleReset
<1>3. CASE HandleRR
  <2>1. batch # <<>> /\ Head(batch).kind \in {"RR", "RNR"}
    BY <1>3 DEF HandleRR, Handling
  <2>2. Head(batch) \notin New(vr)
    BY <2>1 DEF New, IKind
  <2> QED BY <1>0, <1>3, <2>1, <2>2 DEF HandleRR, Skips
<1>4. CASE HandleRej
  <2>1. batch # <<>> /\ Head(batch).kind = "REJ" /\ InExchange
    BY <1>4 DEF HandleRej, Handling, InExchange
  <2>2. Head(batch) \notin New(vr)
    BY <2>1 DEF New, IKind
  <2>3. Skips \/ SkipsAndSpeaks(iframe)
    BY <1>4, <1>b, <2>1, <2>2 DEF HandleRej, Skips, SkipsAndSpeaks
  <2> QED BY <1>0, <2>3
<1>5. CASE HandleDuplicate
  <2>1. batch # <<>> /\ Head(batch).ns # vr
    BY <1>5 DEF HandleDuplicate, Handling
  <2>2. Head(batch) \notin New(vr)
    BY <2>1 DEF New
  <2>3. Fits(vr, RR(TRUE))
    BY <1>a, AckFits DEF RR
  <2>4. SkipsAndSpeaks(RR(TRUE))
    BY <1>5, <2>1, <2>2, <2>3 DEF HandleDuplicate, SkipsAndSpeaks
  <2> QED BY <1>0, <2>4
<1>6. CASE HandleResponse
  <2>1. HandleNew("accept")
    BY <1>6 DEF HandleResponse
  <2>2. Head(batch).pl.proc # Alarm
    BY <1>d, <2>1 DEF Verdict
  <2>3. Fits(vr', SFrame("RR", vr', FALSE)) /\ SFrame("RR", vr', FALSE).nr = vr'
    BY <1>d, <2>1, AckFits
  <2>4. Hears(SFrame("RR", vr', FALSE))
    BY <1>6, <1>d, <2>1, <2>2, <2>3 DEF HandleResponse, Hears
  <2> QED BY <1>0, <2>4
<1>7. CASE HandleIndication
  <2>1. HandleNew("indication")
    BY <1>7 DEF HandleIndication
  <2>2. Head(batch).pl.proc = Alarm
    BY <1>d, <2>1 DEF Verdict
  <2>3. Fits(vr', SFrame("RR", vr', TRUE)) /\ SFrame("RR", vr', TRUE).nr = vr'
    BY <1>d, <2>1, AckFits
  <2>4. Hears(SFrame("RR", vr', TRUE))
    BY <1>7, <1>d, <2>1, <2>2, <2>3 DEF HandleIndication, Hears
  <2> QED BY <1>0, <2>4
<1>8. CASE HandleUnexpected
  <2>1. HandleNew("unexpected")
    BY <1>8 DEF HandleUnexpected
  <2>2. Head(batch).pl.proc # Alarm
    BY <1>d, <2>1 DEF Verdict
  <2>3. Fits(vr', SFrame("RR", vr', TRUE)) /\ SFrame("RR", vr', TRUE).nr = vr'
    BY <1>d, <2>1, AckFits
  <2>4. Hears(SFrame("RR", vr', TRUE))
    BY <1>8, <1>d, <2>1, <2>2, <2>3 DEF HandleUnexpected, Hears
  <2> QED BY <1>0, <2>4
<1>9. CASE Resend
  <2>1. Speaks(iframe)
    BY <1>9, <1>b DEF Resend, Decide, InExchange, Speaks
  <2> QED BY <1>0, <2>1
<1>10. CASE Expire
  <2>1. Stays
    BY <1>10 DEF Expire, Stays, Line
  <2> QED BY <1>0, <2>1
<1>11. CASE Poll
  <2>1. Fits(vr, RR(TRUE))
    BY <1>a, AckFits DEF RR
  <2>2. Speaks(RR(TRUE))
    BY <1>11, <2>1 DEF Poll, Speaks
  <2> QED BY <1>0, <2>2
<1> QED BY <1>1, <1>2, <1>3, <1>4, <1>5, <1>6, <1>7, <1>8, <1>9, <1>10, <1>11 DEF ExchangeStep

LEMMA LinkDrain ==
  ASSUME TypeOK, Emptied, NumberedInv, DrainStep
  PROVE  OnLink /\ (Stays \/ Skips \/ \E f : SkipsAndSpeaks(f) \/ Hears(f))
<1> USE DEF OnLink, peer, locals, ghosts
<1>0. OnLink /\ abandoned
  BY DEF DrainStep, DrainRead, DrainFrame, DrainNext, Emptied
<1>a. vr \in SeqNo /\ wire \in Seq(Frame) /\ batch \in Seq(Frame)
  BY DEF TypeOK
<1>1. CASE DrainRead
  <2>1. batch = <<>>
    BY <1>1 DEF DrainRead, Emptied
  <2>2. PICK k \in 0 .. Len(wire) : TakeFrom(k)
    BY <1>1, <1>a DEF DrainRead
  <2>3. Line' = Line
    BY <1>a, <2>1, <2>2, TakenLine
  <2> QED BY <1>0, <1>1, <2>3 DEF DrainRead, Stays
<1>2. CASE DrainFrame /\ Head(batch).kind = IKind
  <2> DEFINE f == SFrame("RR", vr', TRUE)
  <2>1. /\ batch # <<>> /\ vr' = Succ(Head(batch).ns) /\ Write(f) /\ AfterHead
        /\ UNCHANGED <<reported, abandoned>>
    BY <1>2 DEF DrainFrame
  <2>2. vr' \in SeqNo
    BY <1>a, <2>1, HeadOfBatch
  <2>3. Fits(vr', f) /\ f.nr = vr'
    BY <2>2, AckFits
  <2>4. CASE Head(batch).ns = vr
    <3>1. Hears(f)
      BY <1>0, <1>2, <2>1, <2>3, <2>4, HeadNumbered DEF Hears
    <3> QED BY <1>0, <3>1
  <2>5. CASE Head(batch).ns # vr
    <3>1. vr' = vr /\ Head(batch) \notin New(vr)
      BY <1>0, <1>2, <2>1, <2>5, HeadNumbered
    <3>2. SkipsAndSpeaks(f)
      BY <2>1, <2>3, <3>1 DEF SkipsAndSpeaks
    <3> QED BY <1>0, <3>2
  <2> QED BY <2>4, <2>5
<1>3. CASE DrainFrame /\ Head(batch).kind # IKind
  <2>1. Head(batch) \notin New(vr)
    BY <1>3 DEF New
  <2> QED BY <1>0, <1>3, <2>1 DEF DrainFrame, Skips
<1>4. CASE DrainNext
  BY <1>0, <1>4 DEF DrainNext, Stays, Line
<1> QED BY <1>1, <1>2, <1>3, <1>4 DEF DrainStep

LEMMA LinkKeepalive ==
  ASSUME TypeOK, Emptied, NumberedInv, OnLink', KeepaliveStep
  PROVE  OnLink /\ (Stays \/ Skips \/ \E f : Hears(f))
<1> USE DEF OnLink, peer, locals, ghosts
<1>0. OnLink
  BY DEF KeepaliveStep, KeepaliveRead, KeepaliveFrame, KeepaliveDone
<1>a. vr \in SeqNo /\ wire \in Seq(Frame) /\ batch \in Seq(Frame)
  BY DEF TypeOK
<1>1. CASE KeepaliveRead
  <2>1. batch = <<>>
    BY <1>1 DEF KeepaliveRead, Emptied
  <2>2. PICK k \in 0 .. Len(wire) : TakeFrom(k)
    BY <1>1, <1>a DEF KeepaliveRead
  <2>3. Line' = Line
    BY <1>a, <2>1, <2>2, TakenLine
  <2> QED BY <1>0, <1>1, <2>3 DEF KeepaliveRead, Stays
<1>2. CASE KeepaliveFrame
  <2> DEFINE f == SFrame("RR", vr', FALSE)
  <2>1. batch # <<>> /\ UNCHANGED abandoned
    BY <1>2 DEF KeepaliveFrame
  <2>2. CASE /\ Head(batch).kind = IKind /\ Head(batch).ns = vr
             /\ vr' = Succ(Head(batch).ns) /\ Write(f) /\ AfterHead
             /\ reported' = IF Head(batch).pl.proc = Alarm
                            THEN Append(reported, Head(batch).pl.id) ELSE reported
    <3>1. Head(batch) \in New(vr) /\ vr' = Succ(vr) /\ vr' \in SeqNo
      BY <1>0, <1>a, <2>1, <2>2, HeadNumbered, SuccSeqNo
    <3>2. Fits(vr', f) /\ f.nr = vr'
      BY <3>1, AckFits
    <3>3. Hears(f)
      BY <2>1, <2>2, <3>1, <3>2 DEF Hears
    <3> QED BY <1>0, <3>3
  <2>3. CASE /\ Head(batch).kind \in SKinds \/ (Head(batch).kind = IKind /\ Head(batch).ns # vr)
             /\ AfterHead /\ UNCHANGED <<vr, reported, dev, wire>>
    <3>1. Head(batch) \notin New(vr)
      BY <2>3 DEF New, SKinds, IKind
    <3> QED BY <1>0, <2>1, <2>3, <3>1 DEF Skips
  <2> QED BY <1>2, <2>2, <2>3 DEF KeepaliveFrame
<1>3. CASE KeepaliveDone
  BY <1>0, <1>3 DEF KeepaliveDone, Stays, Line
<1> QED BY <1>1, <1>2, <1>3 DEF KeepaliveStep

\* All of them alike: t is left of the line, r is added to it, and either the
\* frame expected was heard or nothing was.
Same == vr' = vr /\ reported' = reported

Counts(t, h) ==
  /\ h \in ToSet(Line) \cap New(vr) /\ vr' = Succ(vr) /\ ToSet(t) \cap New(vr') = {}
  /\ dev.conn => dev.vs = vr /\ dev.sent = h.pl /\ dev.sent # None

Advances(t, h) ==
  /\ Counts(t, h)
  /\ \/ reported' = reported /\ (abandoned \/ h.pl.proc # Alarm)
     \/ reported' = Append(reported, h.pl.id) /\ h.pl.proc = Alarm

Answered(t, r, f) ==
  /\ Writable(f) /\ Line' = t \o r /\ ToSet(t) \subseteq ToSet(Line)
  /\ Says(r, dev') /\ Heard(vr', f, dev, dev') /\ Numbered(vr', Line', dev')

Moves ==
  /\ abandoned => abandoned'
  /\ \E f : \E t, r \in Seq(Frame) : Answered(t, r, f) /\ (Same \/ \E h : Advances(t, h))

LEMMA WrittenAnswered ==
  ASSUME TypeOK, NEW b \in Seq(Frame), NEW f, Writable(f), Written(vr', f, b), batch' = b,
         ToSet(b \o wire) \subseteq ToSet(Line)
  PROVE  \E r \in Seq(Frame) : Answered(b \o wire, r, f)
BY DEF Written, Answered, Line

LEMMA Quiet ==
  ASSUME NEW t \in Seq(Frame), Line' = t, ToSet(t) \subseteq ToSet(Line), UNCHANGED dev,
         Numbered(vr', t, dev)
  PROVE  \E f : Answered(t, <<>>, f)
<1>1. t \o <<>> = t
  BY ConcatEmptySeq
<1>2. PICK f : Writable(f)
  BY AckWritable, SuccSeqNo
<1>3. Heard(vr', f, dev, dev') /\ Says(<<>>, dev')
  BY DEF Heard, Keeps, Says
<1> QED BY <1>1, <1>2, <1>3 DEF Answered

LEMMA StaysMoves ==
  ASSUME TypeOK, OnLink, NumberedInv, Stays
  PROVE  Moves
<1>1. Line \in Seq(Frame) /\ <<>> \in Seq(Frame)
  BY ConcatSet DEF TypeOK, Line
<1>2. vr' = vr /\ Line' = Line /\ UNCHANGED dev /\ Numbered(vr', Line, dev)
  BY DEF Stays, NumberedInv
<1>3. \E f : Answered(Line, <<>>, f)
  BY <1>1, <1>2, Quiet
<1> QED BY <1>1, <1>3 DEF Moves, Stays, Same

\* What is left behind the head.
LEMMA BehindHead ==
  ASSUME TypeOK, OnLink, NumberedInv, batch # <<>>
  PROVE  /\ Head(batch) \in Frame /\ Tail(batch) \in Seq(Frame)
         /\ Tail(batch) \o wire \in Seq(Frame)
         /\ Line = <<Head(batch)>> \o (Tail(batch) \o wire)
         /\ ToSet(Line) = {Head(batch)} \cup ToSet(Tail(batch) \o wire)
         /\ Numbered(vr, Tail(batch) \o wire, dev)
<1> DEFINE h == Head(batch)
           t == Tail(batch) \o wire
<1>1. Line = <<h>> \o t /\ h \in Frame /\ Tail(batch) \in Seq(Frame) /\ t \in Seq(Frame)
  BY HandledLine DEF TypeOK
<1>2. Numbered(vr, Line, dev)
  BY DEF NumberedInv
<1> HIDE DEF h, t
<1>3. \A g \in Frame, q \in Seq(Frame) :
        <<g>> \in Seq(Frame) /\ ToSet(<<g>> \o q) = {g} \cup ToSet(q)
  BY ConsOrdered
<1>4. Numbered(vr, t, dev)
  BY <1>1, <1>2, <1>3, NumberedParts
<1> QED BY <1>1, <1>3, <1>4 DEF h, t

LEMMA SkipsMoves ==
  ASSUME TypeOK, OnLink, NumberedInv, Skips
  PROVE  Moves
<1> DEFINE t == Tail(batch) \o wire
<1>1. t \in Seq(Frame) /\ <<>> \in Seq(Frame) /\ ToSet(t) \subseteq ToSet(Line) /\ Numbered(vr, t, dev)
  BY BehindHead DEF Skips
<1>2. Line' = t /\ UNCHANGED dev /\ vr' = vr
  BY DEF Skips, AfterHead, Line
<1> HIDE DEF t
<1>3. \E f : Answered(t, <<>>, f)
  BY <1>1, <1>2, Quiet
<1> QED BY <1>1, <1>3 DEF Moves, Skips, Same

LEMMA SpeaksMoves ==
  ASSUME TypeOK, OnLink, NumberedInv, NEW f, Speaks(f)
  PROVE  Moves
<1>1. /\ dev \in Device /\ wire \in Seq(Frame) /\ vr \in SeqNo /\ batch \in Seq(Frame)
      /\ Line \in Seq(Frame) /\ batch \o wire = Line
  BY ConcatSet DEF TypeOK, Line
<1>2. Numbered(vr, batch \o wire, dev) /\ Fits(vr, f) /\ Write(f) /\ vr' = vr /\ batch' = batch
  BY <1>1 DEF NumberedInv, Speaks
<1>3. Written(vr', f, batch)
  BY <1>1, <1>2, WriteReacts
<1>4. \E r \in Seq(Frame) : Answered(Line, r, f)
  BY <1>1, <1>2, <1>3, WrittenAnswered DEF Fits
<1> QED BY <1>1, <1>2, <1>4 DEF Moves, Speaks, Same

LEMMA SkipsAndSpeaksMoves ==
  ASSUME TypeOK, OnLink, NumberedInv, NEW f, SkipsAndSpeaks(f)
  PROVE  Moves
<1> DEFINE b == Tail(batch)
<1>1. dev \in Device /\ wire \in Seq(Frame) /\ vr \in SeqNo
  BY DEF TypeOK
<1>2. Fits(vr, f) /\ Write(f) /\ vr' = vr /\ batch' = b /\ batch # <<>> /\ reported' = reported
  BY DEF SkipsAndSpeaks, AfterHead
<1>3. /\ b \in Seq(Frame) /\ b \o wire \in Seq(Frame) /\ Numbered(vr, b \o wire, dev)
      /\ ToSet(b \o wire) \subseteq ToSet(Line)
  BY <1>2, BehindHead
<1> HIDE DEF b
<1>4. Written(vr', f, b)
  BY <1>1, <1>2, <1>3, WriteReacts
<1>5. \E r \in Seq(Frame) : Answered(b \o wire, r, f)
  BY <1>2, <1>3, <1>4, WrittenAnswered DEF Fits
<1> QED BY <1>2, <1>3, <1>5 DEF Moves, SkipsAndSpeaks, Same

LEMMA HearsMoves ==
  ASSUME TypeOK, OnLink, NumberedInv, NEW f, Hears(f)
  PROVE  Moves
<1> DEFINE h == Head(batch)
           t == Tail(batch) \o wire
<1>1. dev \in Device /\ wire \in Seq(Frame) /\ vr \in SeqNo /\ Succ(vr) \in SeqNo
  BY SuccSeqNo DEF TypeOK
<1>2. batch # <<>> /\ h \in New(vr) /\ vr' = Succ(vr) /\ Fits(vr', f) /\ Write(f)
  BY DEF Hears
<1>3. /\ h \in Frame /\ t \in Seq(Frame) /\ Tail(batch) \in Seq(Frame)
      /\ Line = <<h>> \o t /\ ToSet(Line) = {h} \cup ToSet(t)
  BY <1>2, BehindHead
<1>4. Numbered(vr, <<h>> \o t, dev)
  BY <1>3 DEF NumberedInv
<1> HIDE DEF h
<1>5. /\ Numbered(Succ(vr), t, dev) /\ ToSet(t) \cap New(Succ(vr)) = {}
      /\ dev.conn => dev.vs = vr /\ dev.sent = h.pl /\ dev.sent # None
  <2> HIDE DEF t
  <2> QED BY <1>1, <1>2, <1>3, <1>4, NumberedHeard
<1>6. ASSUME NEW b \in Seq(Frame), batch' = b, ToSet(b \o wire) \subseteq ToSet(t),
             Numbered(Succ(vr), b \o wire, dev)
      PROVE  Moves
  <2> DEFINE u == b \o wire
  <2> HIDE DEF t
  <2>1. u \in Seq(Frame)
    BY <1>1, ConcatSet
  <2>2. Written(vr', f, b)
    BY <1>1, <1>2, <1>6, WriteReacts
  <2>3. \E r \in Seq(Frame) : Answered(u, r, f)
    BY <1>2, <1>3, <1>6, <2>2, WrittenAnswered DEF Fits
  <2> HIDE DEF u
  <2>4. ToSet(u) \cap New(vr') = {}
    BY <1>2, <1>5, <1>6 DEF u
  <2>5. Advances(u, h)
    BY <1>2, <1>3, <1>5, <2>4 DEF Hears, Advances, Counts, h
  <2> QED BY <2>1, <2>3, <2>5 DEF Moves, Hears
<1>7. CASE AfterHead
  BY <1>3, <1>5, <1>6, <1>7 DEF AfterHead
<1>8. CASE batch' = <<>>
  <2>1. <<>> \in Seq(Frame) /\ <<>> \o wire = wire
    BY <1>1, ConcatEmptySeq
  <2>2. ToSet(wire) \subseteq ToSet(t) /\ Numbered(Succ(vr), wire, dev)
    <3>0. \A q, w \in Seq(Frame) : ToSet(q \o w) = ToSet(q) \cup ToSet(w)
      BY ConcatSet
    <3>1. ToSet(t) = ToSet(Tail(batch)) \cup ToSet(wire)
      BY <1>1, <1>3, <3>0
    <3>2. Numbered(Succ(vr), wire, dev)
      BY <1>1, <1>3, <1>5, NumberedParts
    <3> QED BY <3>1, <3>2
  <2> HIDE DEF t
  <2> QED BY <1>6, <1>8, <2>1, <2>2
<1> QED BY <1>7, <1>8 DEF Hears

\* A step that ends with a link moves the line, opens the link, or is the
\* device's own.
LEMMA LinkStep ==
  ASSUME TypeOK, Emptied, NumberedInv, NoWrap, [Next]_vars, OnLink'
  PROVE  (OnLink /\ (Moves \/ DeviceStep)) \/ Opens
<1>1. CASE Caller
  BY <1>1, LinkCaller, SpeaksMoves
<1>2. CASE ExchangeStep
  BY <1>2, LinkExchange, StaysMoves, SkipsMoves, SpeaksMoves, SkipsAndSpeaksMoves, HearsMoves
<1>3. CASE DrainStep
  BY <1>3, LinkDrain, StaysMoves, SkipsMoves, SkipsAndSpeaksMoves, HearsMoves
<1>4. CASE KeepaliveStep
  BY <1>4, LinkKeepalive, StaysMoves, SkipsMoves, HearsMoves
<1>5. CASE DeviceStep
  <2>1. pc' = pc
    BY <1>5 DEF DeviceStep, DevFinish, DevAlarm, DevRestart
  <2> QED BY <1>5, <2>1 DEF OnLink
<1>6. CASE UNCHANGED vars
  <2>1. OnLink /\ Stays
    BY <1>6 DEF vars, peer, ghosts, Stays, Line, OnLink
  <2> QED BY <2>1, StaysMoves
<1> QED BY <1>1, <1>2, <1>3, <1>4, <1>5, <1>6 DEF Next

\* A new link: nothing on the line, and nothing owed.
LEMMA OpensFields ==
  ASSUME TypeOK, Opens
  PROVE  /\ Line' = <<>> /\ vr' = 0 /\ reported' = reported
         /\ dev'.conn /\ dev'.strict = dev.strict /\ dev'.vs = 0 /\ dev'.vr = 0
         /\ dev'.sent = None /\ dev'.out = <<>> /\ dev'.todo = {} /\ dev'.raised = dev.raised
         /\ dev'.freed = dev.freed /\ dev'.execs = dev.execs
<1>1. <<>> \o <<>> = <<>>
  BY ConcatEmptySeq
<1>2. dev' = Snrm(dev) /\ dev \in Device
  BY DEF Opens, TypeOK
<1> QED BY <1>1, <1>2 DEF Opens, Line, Snrm, Unlinked, Device

\* What the device does on its own: it owes one payload more, or is gone.
LEMMA OwnFields ==
  ASSUME TypeOK, DeviceStep
  PROVE  /\ Line' = Line
         /\ UNCHANGED <<pc, vs, vr, req, iframe, acked, reported, abandoned, issued, answer>>
         /\ dev'.strict = dev.strict /\ dev'.freed = dev.freed /\ dev'.execs = dev.execs
         /\ (dev'.conn => dev.conn)
         /\ \/ ~dev'.conn /\ dev'.raised = dev.raised
            \/ /\ dev'.vs = dev.vs /\ dev'.vr = dev.vr /\ dev'.sent = dev.sent
               /\ \E r \in Owed :
                    /\ dev'.out = Append(dev.out, r)
                    /\ \/ /\ dev'.raised = dev.raised /\ r \in dev.todo
                          /\ dev'.todo = dev.todo \ {r}
                       \/ /\ dev'.raised = dev.raised + 1 /\ dev'.todo = dev.todo
                          /\ r = [proc |-> Alarm, id |-> dev.raised + 1]
<1> USE DEF peer, locals, ghosts, Line
<1>0. dev \in Device
  BY DEF TypeOK
<1>1. CASE DevFinish
  <2>1. PICK r \in dev.todo : dev' = Finished(dev, r)
    BY <1>1 DEF DevFinish
  <2>2. r \in Owed
    BY <1>0, <2>1 DEF Device, Owed
  <2> QED BY <1>0, <1>1, <2>1, <2>2 DEF DevFinish, Finished, Device
<1>2. CASE DevAlarm
  <2> DEFINE r == [proc |-> Alarm, id |-> dev.raised + 1]
  <2>1. dev' = AlarmRaised(dev) /\ dev.raised \in 0 .. MaxAlarm /\ dev.raised < MaxAlarm
    BY <1>0, <1>2 DEF DevAlarm, Device
  <2>2. r \in Owed
    <3>1. \A x \in 0 .. MaxAlarm : x < MaxAlarm => x + 1 \in 1 .. MaxAlarm
      BY BoundsAssumption
    <3> QED BY <2>1, <3>1 DEF Owed, AlarmReport
  <2>3. /\ dev'.out = Append(dev.out, r) /\ dev'.raised = dev.raised + 1
        /\ dev'.strict = dev.strict /\ dev'.freed = dev.freed /\ dev'.execs = dev.execs
        /\ dev'.conn = dev.conn /\ dev'.todo = dev.todo
        /\ dev'.vs = dev.vs /\ dev'.vr = dev.vr /\ dev'.sent = dev.sent
    BY <1>0, <2>1 DEF AlarmRaised, Device
  <2> QED BY <1>2, <2>2, <2>3 DEF DevAlarm
<1>3. CASE DevRestart
  BY <1>0, <1>3 DEF DevRestart, Restarted, Disc, Unlinked, Device
<1> QED BY <1>1, <1>2, <1>3 DEF DeviceStep

LEMMA NumberedStep ==
  TypeOK /\ Emptied /\ NumberedInv /\ NoWrap /\ [Next]_vars => NumberedInv'
<1> SUFFICES ASSUME TypeOK, Emptied, NumberedInv, NoWrap, [Next]_vars, OnLink'
             PROVE  Numbered(vr', Line', dev')
  BY DEF NumberedInv
<1>1. CASE Moves
  BY <1>1 DEF Moves, Answered
<1>2. CASE OnLink /\ DeviceStep
  <2>1. Numbered(vr, Line, dev)
    BY <1>2 DEF NumberedInv
  <2>2. CASE ~dev'.conn
    BY <1>2, <2>1, <2>2, OwnFields DEF Numbered
  <2>3. CASE dev'.conn
    BY <1>2, <2>1, <2>3, OwnFields, NumberedSame
  <2> QED BY <2>2, <2>3
<1>3. CASE Opens
  BY <1>3, OpensFields, EmptySet DEF Numbered, Ordered
<1> QED BY <1>1, <1>2, <1>3, LinkStep

-------------------------------------------------------------------------------
(***************************************************************************)
(* Alarms.  Those the device has still to tell, and those on the line that *)
(* were not heard, are younger than all that were handed up, and in order. *)
(***************************************************************************)
Ahead(told, u, top) ==
  /\ \A i, j \in DOMAIN u : i < j /\ u[i].proc = Alarm /\ u[j].proc = Alarm => u[i].id < u[j].id
  /\ \A i \in DOMAIN u :
       u[i].proc = Alarm => u[i].id <= top /\ \A k \in DOMAIN told : told[k] < u[i].id

InOrder(told, top) == /\ \A i, j \in 1 .. Len(told) : i < j => told[i] < told[j]
                      /\ \A k \in DOMAIN told : told[k] <= top

Younger(told, n, s, d) ==
  /\ \A f \in ToSet(s) \cap New(n) :
       f.pl.proc = Alarm => f.pl.id <= d.raised /\ \A k \in DOMAIN told : told[k] < f.pl.id
  /\ d.conn => Ahead(told, Unseen(n, d), d.raised)

AlarmInv == /\ InOrder(reported, dev.raised)
            /\ OnLink => Younger(reported, vr, Line, dev)

\* An alarm acknowledged was handed up: the primary acknowledges what it heard.
ToldInv ==
  OnLink /\ dev.conn /\ ~abandoned /\ dev.sent # None /\ dev.sent.proc = Alarm /\ dev.vs # vr
    => dev.sent.id \in ToSet(reported)

LEMMA OwedFields ==
  ASSUME NEW r \in Owed
  PROVE  r.id \in Nat /\ (r.proc = Alarm => r.id \in 1 .. MaxAlarm) /\ (r \in Request => r.proc # Alarm)
BY ProcsAssumption DEF Owed, Request, AlarmReport

LEMMA AheadAppend ==
  ASSUME NEW told \in Seq(Nat), NEW u \in Seq(Owed), NEW top \in Nat, NEW r \in Owed,
         Ahead(told, u, top),
         r.proc = Alarm => r.id = top + 1 /\ \A k \in DOMAIN told : told[k] <= top
  PROVE  /\ Ahead(told, Append(u, r), top + 1)
         /\ r.proc # Alarm => Ahead(told, Append(u, r), top)
<1> DEFINE n == Len(u)
           v == Append(u, r)
<1>1. /\ n \in Nat /\ DOMAIN u = 1 .. n /\ DOMAIN v = 1 .. n + 1
      /\ v[n + 1] = r /\ \A i \in 1 .. n : v[i] = u[i] /\ u[i] \in Owed
  OBVIOUS
<1>2. \A i \in 1 .. n : u[i].id \in Nat
  BY <1>1, OwedFields
<1>3. \A k \in DOMAIN told : told[k] \in Nat
  OBVIOUS
<1> HIDE DEF n, v
<1>4. \A i \in 1 .. n + 1 : i \in 1 .. n \/ i = n + 1
  BY <1>1
<1>5. \A i \in 1 .. n : u[i].proc = Alarm =>
        u[i].id <= top /\ u[i].id < top + 1 /\ \A k \in DOMAIN told : told[k] < u[i].id
  <2>1. \A x \in Nat : x <= top => x < top + 1
    OBVIOUS
  <2> QED BY <1>1, <1>2, <2>1 DEF Ahead
<1>6. r.proc = Alarm => r.id = top + 1 /\ \A k \in DOMAIN told : told[k] < r.id
  BY <1>3
<1>7. ASSUME NEW i \in DOMAIN v, NEW j \in DOMAIN v, i < j, v[i].proc = Alarm, v[j].proc = Alarm
      PROVE  v[i].id < v[j].id
  <2>1. i \in 1 .. n
    BY <1>1, <1>4, <1>7
  <2>2. CASE j \in 1 .. n
    BY <1>1, <1>7, <2>1, <2>2 DEF Ahead
  <2>3. CASE j = n + 1
    BY <1>1, <1>5, <1>6, <1>7, <2>1, <2>3
  <2> QED BY <1>1, <1>4, <2>2, <2>3
<1>8. ASSUME NEW i \in DOMAIN v, v[i].proc = Alarm
      PROVE  /\ v[i].id <= top + 1 /\ \A k \in DOMAIN told : told[k] < v[i].id
             /\ r.proc # Alarm => v[i].id <= top
  <2>1. CASE i \in 1 .. n
    BY <1>1, <1>2, <1>5, <1>8, <2>1
  <2>2. CASE i = n + 1
    BY <1>1, <1>6, <1>8, <2>2
  <2> QED BY <1>1, <1>4, <2>1, <2>2
<1>9. QED BY <1>7, <1>8 DEF Ahead, v

\* The first of them is handed up, or passed over.
LEMMA AheadTail ==
  ASSUME NEW told \in Seq(Nat), NEW a \in Owed, NEW u \in Seq(Owed), NEW top \in Nat,
         Ahead(told, <<a>> \o u, top)
  PROVE  /\ Ahead(told, u, top)
         /\ a.proc = Alarm => Ahead(Append(told, a.id), u, top)
<1> DEFINE n == Len(u)
           v == <<a>> \o u
           w == Append(told, a.id)
<1>1. /\ n \in Nat /\ DOMAIN u = 1 .. n /\ DOMAIN v = 1 .. n + 1 /\ v[1] = a
      /\ \A i \in 1 .. n : v[i + 1] = u[i] /\ u[i] \in Owed
  OBVIOUS
<1>2. \A i \in 1 .. n : i + 1 \in 1 .. n + 1 /\ 1 < i + 1
  BY <1>1
<1>3. a.id \in Nat
  BY OwedFields
<1>4. \A k \in DOMAIN w : k \in DOMAIN told \/ w[k] = a.id
  BY <1>3
<1>5. \A k \in DOMAIN told : w[k] = told[k]
  BY <1>3
<1> HIDE DEF n, v, w
<1>6. \A i, j \in 1 .. n : i < j /\ u[i].proc = Alarm /\ u[j].proc = Alarm => u[i].id < u[j].id
  <2> TAKE i, j \in 1 .. n
  <2>1. i < j => i + 1 < j + 1
    BY <1>1
  <2> QED BY <1>1, <1>2, <2>1 DEF Ahead, v
<1>7. \A i \in 1 .. n : u[i].proc = Alarm =>
        u[i].id <= top /\ \A k \in DOMAIN told : told[k] < u[i].id
  BY <1>1, <1>2 DEF Ahead, v
<1>8. \A i \in 1 .. n : u[i].proc = Alarm /\ a.proc = Alarm => a.id < u[i].id
  <2>1. 1 \in 1 .. n + 1
    BY <1>1
  <2> QED BY <1>1, <1>2, <2>1 DEF Ahead, v
<1> QED BY <1>1, <1>4, <1>5, <1>6, <1>7, <1>8 DEF Ahead, w

\* How what the device owes grows with what it hears.
LEMMA HeardUnseen ==
  ASSUME NEW n, NEW f, Writable(f), NEW d \in Device, NEW e \in Device, Heard(n, f, d, e), e.conn
  PROVE  \/ Unseen(n, e) = Unseen(n, d)
         \/ f.pl \in Request /\ Unseen(n, e) = Append(Unseen(n, d), f.pl)
BY DEF Heard, Keeps, Takes, Writable

LEMMA HeardAhead ==
  ASSUME NEW n, NEW f, Writable(f), NEW d \in Device, NEW e \in Device, Heard(n, f, d, e), e.conn,
         NEW told \in Seq(Nat), Ahead(told, Unseen(n, d), d.raised)
  PROVE  Ahead(told, Unseen(n, e), e.raised)
<1>1. e.raised = d.raised /\ d.raised \in Nat
  BY DeviceFields DEF Heard
<1>2. CASE Unseen(n, e) = Unseen(n, d)
  BY <1>1, <1>2
<1>3. CASE f.pl \in Request /\ Unseen(n, e) = Append(Unseen(n, d), f.pl)
  <2>1. f.pl \in Owed /\ f.pl.proc # Alarm
    BY <1>3, OwedFields DEF Owed
  <2>2. Unseen(n, d) \in Seq(Owed)
    BY UnseenType
  <2> QED BY <1>1, <1>3, <2>1, <2>2, AheadAppend
<1> QED BY <1>2, <1>3, HeardUnseen

LEMMA SentAhead ==
  ASSUME NEW n, NEW d \in Device, NEW told, NEW top, Ahead(told, Unseen(n, d), top),
         d.vs = n, d.sent # None
  PROVE  /\ d.sent \in Owed /\ Unseen(n, d) = <<d.sent>> \o d.out
         /\ d.sent.proc = Alarm =>
              d.sent.id <= top /\ \A k \in DOMAIN told : told[k] < d.sent.id
<1>1. d.sent \in Owed /\ d.out \in Seq(Owed) /\ Unseen(n, d) = <<d.sent>> \o d.out
  BY DeviceFields DEF Unseen
<1>2. 1 \in DOMAIN (<<d.sent>> \o d.out) /\ (<<d.sent>> \o d.out)[1] = d.sent
  BY <1>1
<1> QED BY <1>1, <1>2 DEF Ahead

LEMMA HandedUp ==
  ASSUME NEW told \in Seq(Nat), NEW top \in Nat, InOrder(told, top),
         NEW a \in Nat, a <= top, \A k \in DOMAIN told : told[k] < a
  PROVE  InOrder(Append(told, a), top)
<1> DEFINE n == Len(told)
           w == Append(told, a)
<1>1. /\ n \in Nat /\ DOMAIN told = 1 .. n /\ DOMAIN w = 1 .. n + 1 /\ Len(w) = n + 1
      /\ w[n + 1] = a /\ \A i \in 1 .. n : w[i] = told[i]
  OBVIOUS
<1>2. \A i \in 1 .. n + 1 : i \in 1 .. n \/ i = n + 1
  BY <1>1
<1>3. /\ \A i, j \in 1 .. n : i < j => told[i] < told[j]
      /\ \A k \in 1 .. n : told[k] <= top
  BY <1>1 DEF InOrder
<1> HIDE DEF n, w
<1>4. ASSUME NEW i \in 1 .. n + 1, NEW j \in 1 .. n + 1, i < j PROVE w[i] < w[j]
  <2>1. i \in 1 .. n
    BY <1>1, <1>2, <1>4
  <2>2. CASE j = n + 1
    BY <1>1, <2>1, <2>2
  <2>3. CASE j \in 1 .. n
    BY <1>1, <1>3, <1>4, <2>1, <2>3
  <2> QED BY <1>2, <2>2, <2>3
<1>5. \A k \in DOMAIN w : w[k] <= top
  BY <1>1, <1>2, <1>3
<1> QED BY <1>1, <1>4, <1>5 DEF w, InOrder

\* What was heard is handed up, or passed over, and the rest stays younger.
LEMMA AlarmAdvances ==
  ASSUME NEW told \in Seq(Nat), NEW n \in SeqNo, NEW d \in Device, NEW s \in Seq(Frame),
         InOrder(told, d.raised), Younger(told, n, s, d),
         NEW h \in ToSet(s) \cap New(n), d.conn => d.vs = n /\ d.sent = h.pl /\ d.sent # None,
         NEW new, new = told \/ (new = Append(told, h.pl.id) /\ h.pl.proc = Alarm)
  PROVE  /\ InOrder(new, d.raised)
         /\ d.conn => Ahead(new, Unseen(Succ(n), d), d.raised)
<1>1. /\ d.raised \in Nat /\ d.out \in Seq(Owed) /\ h.pl \in Payload
  BY DeviceFields, FrameFields DEF New
<1>2. InOrder(new, d.raised)
  <2>1. CASE new = told
    BY <2>1
  <2>2. CASE new = Append(told, h.pl.id) /\ h.pl.proc = Alarm
    <3>1. h.pl.id \in Nat /\ h.pl.id <= d.raised /\ \A k \in DOMAIN told : told[k] < h.pl.id
      BY <1>1, <2>2 DEF Younger, Payload
    <3> QED BY <1>1, <2>2, <3>1, HandedUp
  <2> QED BY <2>1, <2>2
<1>3. ASSUME d.conn PROVE Ahead(new, Unseen(Succ(n), d), d.raised)
  <2>1. Ahead(told, Unseen(n, d), d.raised)
    BY <1>3 DEF Younger
  <2>2. d.sent \in Owed /\ Ahead(told, <<d.sent>> \o d.out, d.raised)
    BY <1>3, <2>1, SentAhead
  <2>3. Unseen(Succ(n), d) = d.out
    BY <1>3, SuccSeqNo DEF Unseen
  <2>4. /\ Ahead(told, d.out, d.raised)
        /\ d.sent.proc = Alarm => Ahead(Append(told, d.sent.id), d.out, d.raised)
    BY <1>1, <2>2, AheadTail
  <2> QED BY <1>3, <2>3, <2>4
<1> QED BY <1>2, <1>3

\* While the primary and the device talk.
LEMMA MovesTypes ==
  ASSUME TypeOK, TypeOK', NEW t, NEW r, NEW f, Answered(t, r, f)
  PROVE  /\ dev \in Device /\ dev' \in Device /\ reported \in Seq(Nat) /\ vr \in SeqNo
         /\ reported' \in Seq(Nat) /\ dev.raised \in Nat /\ dev'.raised = dev.raised
         /\ (dev'.conn => dev.conn) /\ Writable(f) /\ Heard(vr', f, dev, dev')
<1>1. dev \in Device /\ dev' \in Device /\ reported \in Seq(Nat) /\ reported' \in Seq(Nat) /\ vr \in SeqNo
  BY DEF TypeOK
<1>2. dev.raised \in Nat
  BY <1>1, DeviceFields
<1> QED BY <1>1, <1>2 DEF Answered, Heard

LEMMA YoungerMoves ==
  ASSUME TypeOK, TypeOK', NEW told \in Seq(Nat), NEW new \in Seq(Nat),
         InOrder(told, dev.raised), Younger(told, vr, Line, dev),
         NEW t \in Seq(Frame), NEW r \in Seq(Frame), NEW f, Answered(t, r, f),
         \/ vr' = vr /\ new = told
         \/ \E h : /\ Counts(t, h)
                   /\ new = told \/ (new = Append(told, h.pl.id) /\ h.pl.proc = Alarm)
  PROVE  InOrder(new, dev'.raised) /\ Younger(new, vr', Line', dev')
<1>1. /\ dev \in Device /\ dev' \in Device
      /\ dev'.raised = dev.raised /\ (dev'.conn => dev.conn) /\ vr \in SeqNo
      /\ Writable(f) /\ Heard(vr', f, dev, dev')
  BY MovesTypes
<1>2. /\ InOrder(new, dev.raised)
      /\ dev.conn => Ahead(new, Unseen(vr', dev), dev.raised)
      /\ \A g \in ToSet(t) \cap New(vr') : g.pl.proc = Alarm =>
           g.pl.id <= dev.raised /\ \A k \in DOMAIN new : new[k] < g.pl.id
  <2>1. CASE vr' = vr /\ new = told
    <3>1. ToSet(t) \cap New(vr') \subseteq ToSet(Line) \cap New(vr)
      BY <2>1 DEF Answered
    <3> QED BY <2>1, <3>1 DEF Younger
  <2>2. ASSUME NEW h, Counts(t, h),
               new = told \/ (new = Append(told, h.pl.id) /\ h.pl.proc = Alarm)
        PROVE  /\ InOrder(new, dev.raised)
               /\ dev.conn => Ahead(new, Unseen(vr', dev), dev.raised)
               /\ ToSet(t) \cap New(vr') = {}
    <3>1. /\ h \in ToSet(Line) \cap New(vr) /\ vr' = Succ(vr) /\ ToSet(t) \cap New(vr') = {}
          /\ dev.conn => dev.vs = vr /\ dev.sent = h.pl /\ dev.sent # None
      BY <2>2 DEF Counts
    <3>2. Line \in Seq(Frame)
      BY ConcatSet DEF TypeOK, Line
    <3> QED BY <1>1, <2>2, <3>1, <3>2, AlarmAdvances
  <2> QED BY <2>1, <2>2
<1>3. dev'.conn => Ahead(new, Unseen(vr', dev'), dev'.raised)
  BY <1>1, <1>2, HeardAhead
<1>4. ASSUME NEW g \in ToSet(Line') \cap New(vr'), g.pl.proc = Alarm
      PROVE  g.pl.id <= dev'.raised /\ \A k \in DOMAIN new : new[k] < g.pl.id
  <2>1. CASE dev'.conn
    <3>1. dev'.vs = vr' /\ dev'.sent = g.pl
      BY <1>4, <2>1 DEF Answered, Numbered
    <3>2. g.pl # None
      BY <1>4, FrameFields, NoneAssumption DEF New
    <3> QED BY <1>1, <1>3, <1>4, <2>1, <3>1, <3>2, SentAhead
  <2>2. CASE ~dev'.conn
    <3>1. Line' = t \o r /\ Says(r, dev')
      BY DEF Answered
    <3>2. ToSet(Line') = ToSet(t) \cup ToSet(r)
      BY <3>1, ConcatSet
    <3>3. ToSet(r) \cap New(vr') = {}
      <4>1. CASE r = <<>>
        BY <4>1, EmptySet
      <4>2. ASSUME NEW x \in Frame, r = <<x>>, x.kind \in UKinds
            PROVE  ToSet(r) \cap New(vr') = {}
        <5>1. ToSet(<<x>>) = {x}
          BY DEF ToSet
        <5> QED BY <4>2, <5>1 DEF New, IKind, UKinds
      <4> QED BY <2>2, <3>1, <4>1, <4>2 DEF Says
    <3> QED BY <1>1, <1>2, <1>4, <3>2, <3>3
  <2> QED BY <2>1, <2>2
<1> QED BY <1>1, <1>2, <1>3, <1>4 DEF Younger

LEMMA AlarmMoves ==
  ASSUME TypeOK, TypeOK', OnLink, AlarmInv, Moves
  PROVE  InOrder(reported', dev'.raised) /\ Younger(reported', vr', Line', dev')
<1>1. PICK f : \E t, r \in Seq(Frame) : Answered(t, r, f) /\ (Same \/ \E h : Advances(t, h))
  BY DEF Moves
<1>2. PICK t \in Seq(Frame), r \in Seq(Frame) : Answered(t, r, f) /\ (Same \/ \E h : Advances(t, h))
  BY <1>1
<1>3. /\ reported \in Seq(Nat) /\ reported' \in Seq(Nat)
      /\ InOrder(reported, dev.raised) /\ Younger(reported, vr, Line, dev)
  BY DEF TypeOK, AlarmInv
<1>4. CASE Same
  BY <1>2, <1>3, <1>4, YoungerMoves DEF Same
<1>5. ASSUME NEW h, Advances(t, h)
      PROVE  InOrder(reported', dev'.raised) /\ Younger(reported', vr', Line', dev')
  <2>1. /\ Counts(t, h)
        /\ reported' = reported \/ (reported' = Append(reported, h.pl.id) /\ h.pl.proc = Alarm)
    BY <1>5 DEF Advances
  <2> QED BY <1>2, <1>3, <2>1, YoungerMoves
<1> QED BY <1>2, <1>4, <1>5

\* On its own the device may only raise one alarm more.
LEMMA YoungerOwn ==
  ASSUME TypeOK, TypeOK', NEW told \in Seq(Nat), InOrder(told, dev.raised), DeviceStep
  PROVE  /\ InOrder(told, dev'.raised)
         /\ Younger(told, vr, Line, dev) => Younger(told, vr', Line', dev')
<1>1. /\ dev \in Device /\ dev' \in Device /\ dev.raised \in Nat
      /\ vr' = vr /\ Line' = Line /\ (dev'.conn => dev.conn)
  BY OwnFields, DeviceFields DEF TypeOK
<1>2. dev'.raised = dev.raised \/ dev'.raised = dev.raised + 1
  BY OwnFields
<1>3. \A x \in Nat : x <= dev.raised => x <= dev'.raised
  BY <1>1, <1>2
<1>4. InOrder(told, dev'.raised)
  <2>1. \A k \in DOMAIN told : told[k] \in Nat
    BY <1>1
  <2> QED BY <1>1, <1>3, <2>1 DEF InOrder
<1>5. ASSUME Younger(told, vr, Line, dev) PROVE Younger(told, vr', Line', dev')
  <2>1. \A f \in ToSet(Line) \cap New(vr) : f.pl.proc = Alarm =>
          f.pl.id <= dev'.raised /\ \A k \in DOMAIN told : told[k] < f.pl.id
    <3>1. \A f \in New(vr) : f.pl.id \in Nat
      BY FrameFields DEF New, Payload
    <3> QED BY <1>3, <1>5, <3>1 DEF Younger
  <2>2. ASSUME dev'.conn PROVE Ahead(told, Unseen(vr, dev'), dev'.raised)
    <3>1. PICK r \in Owed :
            /\ dev'.vs = dev.vs /\ dev'.sent = dev.sent /\ dev'.out = Append(dev.out, r)
            /\ \/ dev'.raised = dev.raised /\ r \in dev.todo
               \/ dev'.raised = dev.raised + 1 /\ r = [proc |-> Alarm, id |-> dev.raised + 1]
      BY <2>2, OwnFields
    <3>2. Unseen(vr, dev') = Append(Unseen(vr, dev), r) /\ Unseen(vr, dev) \in Seq(Owed)
      BY <1>1, <3>1, UnseenAppend, UnseenType
    <3>3. Ahead(told, Unseen(vr, dev), dev.raised)
      BY <1>1, <1>5, <2>2 DEF Younger
    <3>4. r \in dev.todo => r.proc # Alarm
      BY <1>1, DeviceFields, OwedFields
    <3>5. r.proc = Alarm => r.id = dev.raised + 1 /\ \A k \in DOMAIN told : told[k] <= dev.raised
      BY <3>1, <3>4 DEF InOrder
    <3>6. /\ Ahead(told, Append(Unseen(vr, dev), r), dev.raised + 1)
          /\ r.proc # Alarm => Ahead(told, Append(Unseen(vr, dev), r), dev.raised)
      BY <1>1, <3>2, <3>3, <3>5, AheadAppend
    <3> QED BY <3>1, <3>2, <3>4, <3>6
  <2> QED BY <1>1, <2>1, <2>2 DEF Younger
<1> QED BY <1>4, <1>5

LEMMA AlarmOwn ==
  ASSUME TypeOK, TypeOK', AlarmInv, DeviceStep
  PROVE  /\ InOrder(reported', dev'.raised)
         /\ OnLink => Younger(reported', vr', Line', dev')
<1>1. /\ reported \in Seq(Nat) /\ InOrder(reported, dev.raised) /\ reported' = reported
      /\ OnLink => Younger(reported, vr, Line, dev)
  BY OwnFields DEF TypeOK, AlarmInv
<1> QED BY <1>1, YoungerOwn

\* Without a link, nothing is handed up.
LEMMA LinkDown ==
  ASSUME TypeOK, ~OnLink', [Next]_vars
  PROVE  DeviceStep \/ (reported' = reported /\ dev'.raised = dev.raised /\ dev'.freed = dev.freed)
<1> USE DEF OnLink, peer, locals, ghosts
<1>0. \A d \in Device : /\ Snrm(d).raised = d.raised /\ Disc(d).raised = d.raised
                        /\ Snrm(d).freed = d.freed /\ Disc(d).freed = d.freed
  BY DEF Snrm, Disc, Unlinked, Device
<1>1. CASE Caller
  <2>1. (Connect \/ Release) /\ dev \in Device
    BY <1>1 DEF Caller, Keepalive, Start, TypeOK
  <2> QED BY <1>0, <2>1 DEF Connect, Release
<1>2. CASE ExchangeStep
  BY <1>2 DEF ExchangeStep, Read, HandleReset, HandleRR, HandleRej, HandleDuplicate, HandleResponse,
              HandleIndication, HandleUnexpected, HandleNew, Handling, Resend, Expire, Poll, Decide
<1>3. CASE DrainStep
  BY <1>3 DEF DrainStep, DrainRead, DrainFrame, DrainNext
<1>4. CASE KeepaliveStep
  BY <1>4 DEF KeepaliveStep, KeepaliveRead, KeepaliveFrame, KeepaliveDone
<1>5. CASE UNCHANGED vars
  BY <1>5 DEF vars
<1> QED BY <1>1, <1>2, <1>3, <1>4, <1>5 DEF Next

LEMMA AlarmStep ==
  TypeOK /\ TypeOK' /\ Emptied /\ NumberedInv /\ AlarmInv /\ NoWrap /\ [Next]_vars => AlarmInv'
<1> SUFFICES ASSUME TypeOK, TypeOK', Emptied, NumberedInv, AlarmInv, NoWrap, [Next]_vars
             PROVE  InOrder(reported', dev'.raised) /\ (OnLink' => Younger(reported', vr', Line', dev'))
  BY DEF AlarmInv, InOrder, Younger, Ahead
<1>1. CASE OnLink /\ Moves
  BY <1>1, AlarmMoves
<1>2. CASE DeviceStep
  <2>1. OnLink' = OnLink
    BY <1>2, OwnFields DEF OnLink
  <2> QED BY <1>2, <2>1, AlarmOwn
<1>3. CASE Opens
  <2>1. /\ reported' = reported /\ dev'.raised = dev.raised /\ ToSet(Line') = {}
        /\ Unseen(vr', dev') = <<>>
    BY <1>3, OpensFields, EmptySet DEF Unseen
  <2>2. Ahead(reported', <<>>, dev'.raised)
    BY DEF Ahead
  <2> QED BY <2>1, <2>2 DEF AlarmInv, Younger
<1>4. CASE ~OnLink' /\ ~DeviceStep
  BY <1>4, LinkDown DEF AlarmInv
<1> QED BY <1>1, <1>2, <1>3, <1>4, LinkStep

-------------------------------------------------------------------------------
LEMMA ToldMoves ==
  ASSUME TypeOK, OnLink, ToldInv, Moves
  PROVE  /\ ToldInv'
         /\ \A a \in dev'.freed \ dev.freed : abandoned \/ a \in ToSet(reported')
<1>1. PICK f : \E t, r \in Seq(Frame) : Answered(t, r, f) /\ (Same \/ \E h : Advances(t, h))
  BY DEF Moves
<1>2. PICK t \in Seq(Frame), r \in Seq(Frame) : Answered(t, r, f) /\ (Same \/ \E h : Advances(t, h))
  BY <1>1
<1>3. /\ dev'.conn => dev.conn
      /\ dev'.conn /\ dev'.vs # vr' /\ dev'.sent # None => dev'.sent = dev.sent /\ dev.vs # vr'
      /\ \A a \in dev'.freed \ dev.freed : /\ dev.conn /\ dev.vs # vr' /\ dev.sent # None
                                           /\ dev.sent.proc = Alarm /\ a = dev.sent.id
  BY <1>2 DEF Answered, Heard
<1>4. dev.conn /\ dev.vs # vr' /\ dev.sent # None /\ dev.sent.proc = Alarm
        => abandoned \/ dev.sent.id \in ToSet(reported')
  <2>1. CASE Same
    BY <2>1 DEF Same, ToldInv
  <2>2. ASSUME NEW h, Advances(t, h), dev.conn, dev.sent.proc = Alarm
        PROVE  abandoned \/ dev.sent.id \in ToSet(reported')
    <3>1. dev.sent = h.pl /\ h \in New(vr) /\ reported \in Seq(Nat)
      BY <2>2 DEF Advances, Counts, TypeOK
    <3>2. h.pl.id \in Nat
      BY <3>1, FrameFields DEF New, Payload
    <3>3. abandoned \/ reported' = Append(reported, h.pl.id)
      BY <2>2, <3>1 DEF Advances
    <3>4. h.pl.id \in ToSet(Append(reported, h.pl.id))
      BY <3>1, <3>2, AppendSet
    <3> QED BY <3>1, <3>3, <3>4
  <2> QED BY <1>2, <2>1, <2>2
<1>5. abandoned => abandoned'
  BY DEF Moves
<1>6. ToldInv'
  BY <1>3, <1>4, <1>5 DEF ToldInv
<1> QED BY <1>3, <1>4, <1>6

LEMMA ToldStep ==
  ASSUME TypeOK, Emptied, NumberedInv, ToldInv, NoWrap, [Next]_vars
  PROVE  /\ ToldInv'
         /\ \A a \in dev'.freed \ dev.freed : abandoned \/ a \in ToSet(reported')
<1>1. CASE OnLink /\ Moves
  BY <1>1, ToldMoves
<1>2. CASE DeviceStep
  BY <1>2, OwnFields DEF ToldInv, OnLink
<1>3. CASE Opens
  BY <1>3, OpensFields DEF ToldInv
<1>4. CASE ~OnLink' /\ ~DeviceStep
  BY <1>4, LinkDown DEF ToldInv
<1> QED BY <1>1, <1>2, <1>3, <1>4, LinkStep

LEMMA InitLink == Init => Emptied /\ NumberedInv /\ AlarmInv /\ ToldInv
<1> SUFFICES ASSUME Init PROVE Emptied /\ NumberedInv /\ AlarmInv /\ ToldInv
  OBVIOUS
<1>1. /\ pc = "closed" /\ batch = <<>> /\ reported = <<>>
      /\ \A i \in DOMAIN reported : i \in 1 .. 0
  BY DEF Init
<1> QED BY <1>1 DEF Emptied, NumberedInv, AlarmInv, ToldInv, OnLink, InOrder

\* What the alarms rest on.
LinkInv == Emptied /\ NumberedInv /\ AlarmInv /\ ToldInv

LEMMA LinkInvStep == TypeOK /\ TypeOK' /\ LinkInv /\ NoWrap /\ [Next]_vars => LinkInv'
BY EmptiedStep, NumberedStep, AlarmStep, ToldStep DEF LinkInv

\* Both receivers, exchange() and the keepalive poll, hand up each alarm once
\* and in the order the device raised them, whatever is lost, resent or polled
\* again, on any device, across links and power cycles: no N(S) is taken twice.
THEOREM AlarmsCorrect == Spec /\ []NoWrap => []AlarmsInOrder
<1>1. LinkInv => AlarmsInOrder
  BY DEF LinkInv, AlarmInv, InOrder, AlarmsInOrder
<1>2. Init => LinkInv
  BY InitLink DEF LinkInv
<1> QED BY <1>1, <1>2, LinkInvStep, TypeCorrect, PTL DEF Spec

\* No frame exchange(), the keepalive poll or a disconnect writes lets the
\* device forget an alarm that was not handed up, unless a request was given up
\* and _drain took the alarm.
THEOREM ForgottenAreTold == Spec /\ []NoWrap => FreedOnceReported
<1>1. TypeOK /\ TypeOK' /\ LinkInv /\ NoWrap /\ [Next]_vars =>
        [ \A a \in dev'.freed \ dev.freed :
            abandoned \/ \E i \in 1 .. Len(reported') : reported'[i] = a ]_vars
  <2> SUFFICES ASSUME TypeOK, TypeOK', LinkInv, NoWrap, [Next]_vars,
                      NEW a \in dev'.freed \ dev.freed, ~abandoned
               PROVE  \E i \in 1 .. Len(reported') : reported'[i] = a
    OBVIOUS
  <2>1. a \in ToSet(reported')
    BY ToldStep DEF LinkInv
  <2> QED BY <2>1 DEF ToSet, TypeOK
<1>2. Init => LinkInv
  BY InitLink DEF LinkInv
<1> QED BY <1>1, <1>2, LinkInvStep, TypeCorrect, PTL DEF Spec, FreedOnceReported

-------------------------------------------------------------------------------
(***************************************************************************)
(* The primary's direction, with a device that enforces N(S).  Before it   *)
(* takes command m everything on the line asks for m, and it owes alarms   *)
(* only; after that it asks for the next, frame by frame, and owes the     *)
(* response once.                                                          *)
(***************************************************************************)
Bearing(m)  == {f \in Frame : f.kind \notin UKinds /\ f.nr = m}
Bears(s, m) == \A f \in ToSet(s) : f.kind \notin UKinds => f.nr = m

Settled(u, todo) == todo = {} /\ ToSet(u) \cap Request = {}

Awaited(q, u, todo) ==
  /\ todo \subseteq {q} /\ Ordered(u, Request, Request)
  /\ \A x \in ToSet(u) \cap Request : x = q /\ todo = {}

Between(m, n, s, d) ==
  /\ Bears(s, m) /\ \A f \in ToSet(s) \cap New(n) : f.pl.proc = Alarm
  /\ d.conn => d.vr = m /\ Settled(Unseen(n, d), d.todo)

During(q, m, n, s, d) ==
  /\ \A f \in ToSet(s) : f.kind \notin UKinds => f.nr \in {m, Succ(m)}
  /\ Ordered(s, Bearing(m), Bearing(Succ(m)))
  /\ \A f \in ToSet(s) \cap New(n) : f.pl.proc # Alarm => f.pl = q /\ f.nr = Succ(m)
  /\ d.conn => d.vr = Succ(m) /\ Awaited(q, Unseen(n, d), d.todo)

\* Where command q, number m, stands while it is exchanged.
Standing(q, m, n, s, d, ack) ==
  IF d.execs[q.id] > 0
  THEN During(q, m, n, s, d) /\ (ack => Bears(s, Succ(m)))
  ELSE Between(m, n, s, d) /\ ~ack

CommandInv ==
  OnLink /\ ~abandoned /\ dev.strict =>
    IF InExchange THEN Standing(req, sentNs, vr, Line, dev, acked)
    ELSE Between(vs, vr, Line, dev)

LEMMA HeadSet == \A x \in Frame, u \in Seq(Frame) : ToSet(<<x>> \o u) = {x} \cup ToSet(u)
BY ConsOrdered

LEMMA SaysNumbers ==
  ASSUME NEW r, NEW e, Says(r, e), NEW g \in ToSet(r), g.kind \notin UKinds
  PROVE  e.conn /\ g.nr = e.vr
<1>1. r # <<>>
  BY EmptySet
<1>2. PICK x \in Frame : r = <<x>> /\ (x.kind \notin UKinds => e.conn /\ x.nr = e.vr)
  BY <1>1 DEF Says
<1>3. ToSet(<<x>>) = {x}
  BY DEF ToSet
<1> QED BY <1>2, <1>3

\* What a new frame carries is the first thing the device owes.
LEMMA FirstOwed ==
  ASSUME NEW n \in SeqNo, NEW s, NEW d \in Device, Numbered(n, s, d), d.conn,
         NEW g \in ToSet(s) \cap New(n)
  PROVE  g.pl \in Owed /\ g.pl \in ToSet(Unseen(n, d))
<1>1. d.vs = n /\ d.sent = g.pl
  BY DEF Numbered
<1>2. g.pl # None
  BY FrameFields, NoneAssumption DEF New
<1>3. d.sent \in Owed /\ d.out \in Seq(Owed) /\ Unseen(n, d) = <<d.sent>> \o d.out
  BY <1>1, <1>2, DeviceFields DEF Unseen
<1>4. \A x \in Owed, u \in Seq(Owed) : ToSet(<<x>> \o u) = {x} \cup ToSet(u)
  BY ConsOrdered
<1> QED BY <1>1, <1>3, <1>4

LEMMA OwedKinds == \A x \in Owed : x \in Request <=> x.proc # Alarm
BY ProcsAssumption DEF Owed, Request, AlarmReport

LEMMA BetweenReply ==
  ASSUME NEW m \in SeqNo, NEW n \in SeqNo, NEW s \in Seq(Frame), NEW r \in Seq(Frame),
         NEW d \in Device, NEW e \in Device, Between(m, n, s, d), (e.conn => d.conn),
         Keeps(n, d, e), Says(r, e), Numbered(n, s \o r, e)
  PROVE  Between(m, n, s \o r, e)
<1>1. ToSet(s \o r) = ToSet(s) \cup ToSet(r)
  BY ConcatSet
<1>2. e.conn => e.vr = m /\ Settled(Unseen(n, e), e.todo)
  BY DEF Keeps, Between
<1>3. Bears(s \o r, m)
  BY <1>1, <1>2, SaysNumbers DEF Bears, Between
<1>4. ASSUME NEW g \in ToSet(s \o r) \cap New(n) PROVE g.pl.proc = Alarm
  <2>1. CASE g \in ToSet(s)
    BY <1>4, <2>1 DEF Between
  <2>2. CASE g \in ToSet(r)
    <3>1. e.conn
      BY <1>4, <2>2, SaysNumbers DEF New, IKind, UKinds
    <3>2. g.pl \in Owed /\ g.pl \in ToSet(Unseen(n, e))
      BY <1>4, <3>1, FirstOwed
    <3> QED BY <1>2, <3>1, <3>2, OwedKinds DEF Settled
  <2> QED BY <1>1, <1>4, <2>1, <2>2
<1> QED BY <1>2, <1>3, <1>4 DEF Between

LEMMA DuringReply ==
  ASSUME NEW m \in SeqNo, NEW n \in SeqNo, NEW s \in Seq(Frame), NEW r \in Seq(Frame),
         NEW d \in Device, NEW e \in Device, NEW q, Says(r, e), Numbered(n, s \o r, e),
         \A f \in ToSet(s) : f.kind \notin UKinds => f.nr \in {m, Succ(m)},
         Ordered(s, Bearing(m), Bearing(Succ(m))),
         \A f \in ToSet(s) \cap New(n) : f.pl.proc # Alarm => f.pl = q /\ f.nr = Succ(m),
         e.conn => e.vr = Succ(m) /\ Awaited(q, Unseen(n, e), e.todo)
  PROVE  During(q, m, n, s \o r, e) /\ (Bears(s, Succ(m)) => Bears(s \o r, Succ(m)))
<1>1. ToSet(s \o r) = ToSet(s) \cup ToSet(r)
  BY ConcatSet
<1>2. \A g \in ToSet(r) : g.kind \notin UKinds => e.conn /\ g.nr = Succ(m)
  BY SaysNumbers
<1>3. /\ \A f \in ToSet(s \o r) : f.kind \notin UKinds => f.nr \in {m, Succ(m)}
      /\ Bears(s, Succ(m)) => Bears(s \o r, Succ(m))
  BY <1>1, <1>2 DEF Bears
<1>4. Ordered(s \o r, Bearing(m), Bearing(Succ(m)))
  <2>1. ToSet(r) \cap Bearing(m) = {}
    BY <1>2, SuccSeqNo DEF Bearing
  <2>2. Ordered(r, Bearing(m), Bearing(Succ(m)))
    BY <2>1 DEF Ordered, ToSet
  <2> QED BY <2>1, <2>2, OrderedConcat
<1>5. ASSUME NEW g \in ToSet(s \o r) \cap New(n), g.pl.proc # Alarm
      PROVE  g.pl = q /\ g.nr = Succ(m)
  <2>1. CASE g \in ToSet(s)
    BY <1>5, <2>1
  <2>2. CASE g \in ToSet(r)
    <3>1. e.conn /\ g.nr = Succ(m)
      BY <1>2, <1>5, <2>2 DEF New, IKind, UKinds
    <3>2. g.pl \in Owed /\ g.pl \in ToSet(Unseen(n, e))
      BY <1>5, <3>1, FirstOwed
    <3> QED BY <1>5, <3>1, <3>2, OwedKinds DEF Awaited
  <2> QED BY <1>1, <1>5, <2>1, <2>2
<1> QED BY <1>3, <1>4, <1>5 DEF During

LEMMA TakenAwaited ==
  ASSUME NEW q \in Request, NEW u \in Seq(Owed), NEW todo, Settled(u, todo), NEW v, NEW new,
         \/ new = todo /\ v = Append(u, q)
         \/ new = todo \cup {q} /\ v = u
  PROVE  Awaited(q, v, new)
<1>1. Ordered(u, Request, Request)
  BY DEF Settled, Ordered, ToSet
<1>2. CASE new = todo \cup {q} /\ v = u
  BY <1>1, <1>2 DEF Settled, Awaited
<1>3. CASE new = todo /\ v = Append(u, q)
  <2>1. q \in Owed /\ Append(u, q) = u \o <<q>>
    BY DEF Owed
  <2>2. ToSet(v) = ToSet(u) \cup {q} /\ Ordered(v, Request, Request)
    BY <1>1, <1>3, <2>1, SnocOrdered DEF Settled
  <2> QED BY <1>3, <2>2 DEF Settled, Awaited
<1> QED BY <1>2, <1>3

\* The device hears the command, or a poll: it takes the command once.
LEMMA StandingReply ==
  ASSUME NEW m \in SeqNo, NEW n \in SeqNo, NEW s \in Seq(Frame), NEW r \in Seq(Frame),
         NEW d \in Device, NEW e \in Device, NEW q \in Request, NEW ack \in BOOLEAN,
         Standing(q, m, n, s, d, ack), d.strict, NEW f, Heard(n, f, d, e), Says(r, e),
         Numbered(n, s \o r, e), f.kind = IKind => f.ns = m /\ f.pl = q
  PROVE  Standing(q, m, n, s \o r, e, ack)
<1>1. (e.conn => d.conn) /\ q.id \in 1 .. MaxReq /\ d.execs \in [1 .. MaxReq -> Nat]
  BY DeviceFields DEF Heard, Request
<1>2. CASE d.execs[q.id] > 0
  <2>1. During(q, m, n, s, d) /\ (ack => Bears(s, Succ(m)))
    BY <1>2 DEF Standing
  <2>2. Keeps(n, d, e)
    BY <2>1, SuccSeqNo DEF Heard, Takes, During
  <2>3. /\ \A x \in ToSet(s) : x.kind \notin UKinds => x.nr \in {m, Succ(m)}
        /\ Ordered(s, Bearing(m), Bearing(Succ(m)))
        /\ \A x \in ToSet(s) \cap New(n) : x.pl.proc # Alarm => x.pl = q /\ x.nr = Succ(m)
        /\ e.conn => e.vr = Succ(m) /\ Awaited(q, Unseen(n, e), e.todo)
    BY <1>1, <2>1, <2>2 DEF During, Keeps
  <2>4. During(q, m, n, s \o r, e) /\ (Bears(s, Succ(m)) => Bears(s \o r, Succ(m)))
    BY <2>3, DuringReply
  <2> QED BY <1>2, <2>1, <2>2, <2>4 DEF Keeps, Standing
<1>3. CASE ~(d.execs[q.id] > 0)
  <2>1. Between(m, n, s, d) /\ ~ack
    BY <1>3 DEF Standing
  <2>2. CASE Keeps(n, d, e)
    <3>1. Between(m, n, s \o r, e)
      BY <1>1, <2>1, <2>2, BetweenReply
    <3> QED BY <1>3, <2>1, <2>2, <3>1 DEF Keeps, Standing
  <2>3. CASE Takes(n, f, d, e)
    <3>1. f.ns = m /\ f.pl = q /\ d.conn /\ e.vr = Succ(m) /\ e.execs = [d.execs EXCEPT ![q.id] = @ + 1]
      BY <2>3 DEF Takes
    <3>2. Settled(Unseen(n, d), d.todo) /\ Unseen(n, d) \in Seq(Owed)
      BY <2>1, <3>1, UnseenType DEF Between
    <3>3. Awaited(q, Unseen(n, e), e.todo)
      BY <2>3, <3>1, <3>2, TakenAwaited DEF Takes
    <3>4. Bears(s, m) /\ \A x \in ToSet(s) \cap New(n) : x.pl.proc = Alarm
      BY <2>1 DEF Between
    <3>5. Ordered(s, Bearing(m), Bearing(Succ(m)))
      BY <3>4, SuccSeqNo DEF Ordered, Bears, Bearing, ToSet
    <3>6. \A x \in ToSet(s) : x.kind \notin UKinds => x.nr \in {m, Succ(m)}
      BY <3>4 DEF Bears
    <3>7. During(q, m, n, s \o r, e)
      BY <3>1, <3>3, <3>4, <3>5, <3>6, DuringReply
    <3>8. e.execs[q.id] > 0
      <4>1. \A x \in [1 .. MaxReq -> Nat], i \in 1 .. MaxReq : [x EXCEPT ![i] = @ + 1][i] > 0
        OBVIOUS
      <4> QED BY <1>1, <3>1, <4>1
    <3> QED BY <2>1, <3>7, <3>8 DEF Standing
  <2> QED BY <2>2, <2>3 DEF Heard
<1> QED BY <1>2, <1>3

-------------------------------------------------------------------------------
\* What is behind a frame that is dropped stands as the line did.
LEMMA BetweenPart ==
  ASSUME NEW m, NEW n, NEW s \in Seq(Frame), NEW h \in Seq(Frame), NEW d, Between(m, n, h \o s, d)
  PROVE  Between(m, n, s, d)
<1>1. ToSet(h \o s) = ToSet(h) \cup ToSet(s)
  BY ConcatSet
<1> QED BY <1>1 DEF Between, Bears

LEMMA DuringPart ==
  ASSUME NEW q, NEW m, NEW n, NEW s \in Seq(Frame), NEW h \in Seq(Frame), NEW d,
         During(q, m, n, h \o s, d)
  PROVE  /\ During(q, m, n, s, d) /\ (Bears(h \o s, Succ(m)) => Bears(s, Succ(m)))
         /\ ToSet(h) \cap Bearing(Succ(m)) # {} => Bears(s, Succ(m))
<1>1. ToSet(h \o s) = ToSet(h) \cup ToSet(s)
  BY ConcatSet
<1>2. /\ Ordered(s, Bearing(m), Bearing(Succ(m)))
      /\ ToSet(h) \cap Bearing(Succ(m)) = {} \/ ToSet(s) \cap Bearing(m) = {}
  BY OrderedConcat DEF During
<1>3. ToSet(s) \subseteq Frame
  BY MemberTypes
<1> QED BY <1>1, <1>2, <1>3 DEF During, Bears, Bearing

\* What is owed once the frame expected was heard.
LEMMA UnseenHeard ==
  ASSUME NEW n \in SeqNo, NEW d \in Device, d.vs = n, d.sent # None
  PROVE  /\ d.sent \in Owed /\ Unseen(Succ(n), d) = d.out
         /\ ToSet(Unseen(n, d)) = {d.sent} \cup ToSet(d.out)
         /\ Ordered(Unseen(n, d), Request, Request)
              => /\ Ordered(d.out, Request, Request)
                 /\ d.sent \in Request => ToSet(d.out) \cap Request = {}
<1>1. d.sent \in Owed /\ d.out \in Seq(Owed) /\ Unseen(n, d) = <<d.sent>> \o d.out
  BY DeviceFields DEF Unseen
<1>2. Unseen(Succ(n), d) = d.out
  BY SuccSeqNo DEF Unseen
<1>3. \A x \in Owed, u \in Seq(Owed) :
        /\ ToSet(<<x>> \o u) = {x} \cup ToSet(u)
        /\ Ordered(<<x>> \o u, Request, Request)
             => Ordered(u, Request, Request) /\ (x \in Request => ToSet(u) \cap Request = {})
  BY ConsOrdered
<1> QED BY <1>1, <1>2, <1>3

\* The frame expected, when it is an alarm.
LEMMA BetweenHears ==
  ASSUME NEW m, NEW n \in SeqNo, NEW s, NEW d \in Device, Between(m, n, s, d),
         NEW h, d.conn => d.vs = n /\ d.sent = h.pl /\ d.sent # None,
         ToSet(s) \cap New(Succ(n)) = {}
  PROVE  Between(m, Succ(n), s, d)
BY UnseenHeard DEF Between, Settled

LEMMA DuringHears ==
  ASSUME NEW q, NEW m, NEW n \in SeqNo, NEW s, NEW d \in Device, During(q, m, n, s, d),
         NEW h, d.conn => d.vs = n /\ d.sent = h.pl /\ d.sent # None,
         ToSet(s) \cap New(Succ(n)) = {}
  PROVE  During(q, m, Succ(n), s, d)
<1>1. ASSUME d.conn PROVE Awaited(q, Unseen(Succ(n), d), d.todo)
  BY <1>1, UnseenHeard DEF During, Awaited
<1> QED BY <1>1 DEF During

\* The frame expected, when it is the response: it was the only one.
LEMMA ResponseHeard ==
  ASSUME NEW q \in Request, NEW m \in SeqNo, NEW n \in SeqNo, NEW h \in Frame,
         NEW s \in Seq(Frame), NEW d \in Device, NEW ack,
         Standing(q, m, n, <<h>> \o s, d, ack), h \in New(n), h.pl.proc # Alarm,
         d.conn => d.vs = n /\ d.sent = h.pl /\ d.sent # None,
         ToSet(s) \cap New(Succ(n)) = {}
  PROVE  h.pl = q /\ Between(Succ(m), Succ(n), s, d)
<1>1. <<h>> \in Seq(Frame) /\ ToSet(<<h>>) = {h}
  BY DEF ToSet
<1>2. ToSet(<<h>> \o s) = {h} \cup ToSet(s)
  BY HeadSet
<1>3. During(q, m, n, <<h>> \o s, d)
  BY <1>2 DEF Standing, Between
<1>4. h.pl = q /\ h.nr = Succ(m)
  BY <1>2, <1>3 DEF During
<1>5. h \in Bearing(Succ(m))
  BY <1>4 DEF Bearing, New, IKind, UKinds
<1>6. Bears(s, Succ(m))
  BY <1>1, <1>3, <1>5, DuringPart
<1>7. ASSUME d.conn PROVE d.vr = Succ(m) /\ Settled(Unseen(Succ(n), d), d.todo)
  <2>1. d.vr = Succ(m) /\ Awaited(q, Unseen(n, d), d.todo)
    BY <1>3, <1>7 DEF During
  <2>2. d.sent = q /\ d.sent \in ToSet(Unseen(n, d))
    BY <1>4, <1>7, UnseenHeard
  <2>3. d.todo = {}
    BY <2>1, <2>2 DEF Awaited
  <2>4. ToSet(Unseen(Succ(n), d)) \cap Request = {}
    BY <1>7, <2>1, <2>2, UnseenHeard DEF Awaited
  <2> QED BY <2>1, <2>3, <2>4 DEF Settled
<1> QED BY <1>4, <1>6, <1>7 DEF Between

-------------------------------------------------------------------------------
\* A device executes a command when it takes it, and only a command.
Executes(f, d, e) ==
  /\ f.kind = IKind /\ d.conn /\ (d.strict => f.ns = d.vr)
  /\ e.vr = Succ(f.ns) /\ e.execs = [d.execs EXCEPT ![f.pl.id] = @ + 1]

LEMMA AcceptsExecs ==
  ASSUME NEW d \in Device, NEW f \in Frame, f.pl \in Request, NEW o \in Accepts(d, f)
  PROVE  /\ o.dev.strict = d.strict /\ o.dev.conn = d.conn /\ o.dev.vr = Succ(f.ns)
         /\ o.dev.execs = [d.execs EXCEPT ![f.pl.id] = @ + 1]
<1> DEFINE T == {[Taken(d, f) EXCEPT !.out = Append(@, f.pl)],
                 [Taken(d, f) EXCEPT !.todo = @ \cup {f.pl}]}
<1>1. PICK t \in T : o \in Invited(t)
  BY DEF Accepts
<1>2. /\ t.strict = d.strict /\ t.conn = d.conn /\ t.vs = d.vs /\ t.sent = d.sent
      /\ t.vr = Succ(f.ns) /\ t.raised = d.raised /\ t.freed = d.freed
      /\ t.execs = [d.execs EXCEPT ![f.pl.id] = @ + 1]
      /\ \/ t.out = Append(d.out, f.pl) /\ t.todo = d.todo
         \/ t.out = d.out /\ t.todo = d.todo \cup {f.pl}
  BY TakenFields
<1>3. t \in Device
  BY TakenType
<1> QED BY <1>1, <1>2, <1>3, InvitedFields

LEMMA RespondExecs ==
  ASSUME NEW d \in Device, NEW f, Writable(f), NEW o \in Respond(d, f)
  PROVE  /\ o.dev.strict = d.strict /\ (o.dev.conn => d.conn)
         /\ (o.dev.vr = d.vr /\ o.dev.execs = d.execs) \/ Executes(f, d, o.dev)
<1> DEFINE a == Acked(d, f.nr)
           Alike(e) == /\ e.strict = d.strict /\ (e.conn => d.conn)
                      /\ e.vr = d.vr /\ e.execs = d.execs
<1>0. f \in Frame /\ f.nr \in SeqNo /\ (f.kind = IKind => f.pl \in Request)
  BY FrameFields DEF Writable
<1>1. a \in Device /\ Alike(a) /\ (a.conn => d.conn)
  BY <1>0, AckedFields, AckedType
<1>2. \A x \in Device : Alike(x) => \A p \in Invited(x) \cup Silent(x) \cup Rejects(x) : Alike(p.dev)
  <2> SUFFICES ASSUME NEW x \in Device, Alike(x), NEW p \in Invited(x) \cup Silent(x) \cup Rejects(x)
               PROVE  Alike(p.dev)
    OBVIOUS
  <2>1. CASE p \in Invited(x)
    BY <2>1, InvitedFields
  <2>2. CASE p \in Silent(x)
    BY <2>2 DEF Silent, Outcome
  <2>3. CASE p \in Rejects(x)
    <3>1. p.dev = [x EXCEPT !.conn = FALSE, !.frmr = TRUE]
      BY <2>3 DEF Rejects, Outcome
    <3> QED BY <3>1 DEF Device
  <2> QED BY <2>1, <2>2, <2>3
<1> HIDE DEF a
<1>3. CASE o \in Invited(a) \cup Silent(a) \cup Rejects(a) \cup Silent(d) \cup Rejects(d)
  <2>1. Alike(d)
    OBVIOUS
  <2> QED BY <1>1, <1>2, <1>3, <2>1
<1>4. CASE o = Outcome(d, <<UFrame("DM")>>)
  BY <1>4 DEF Outcome
<1>5. CASE f.kind = IKind /\ d.conn /\ (d.strict => f.ns = d.vr) /\ o \in Accepts(a, f)
  BY <1>0, <1>1, <1>5, AcceptsExecs DEF Executes
<1>6. d.strict \in BOOLEAN /\ a.strict \in BOOLEAN
  BY <1>1, DeviceFields
<1> QED BY <1>1, <1>3, <1>4, <1>5, <1>6 DEF Respond, HeardI, HeardS, a

LEMMA WriteExecs ==
  ASSUME dev \in Device, NEW f, Writable(f), Write(f)
  PROVE  /\ dev'.strict = dev.strict /\ (dev'.conn => dev.conn)
         /\ (dev'.vr = dev.vr /\ dev'.execs = dev.execs) \/ Executes(f, dev, dev')
<1>1. CASE Delivered(f)
  BY <1>1, RespondExecs DEF Delivered
<1>2. CASE LostOut(f)
  BY <1>2 DEF LostOut, Garbled, Device
<1>3. CASE LostBack(f)
  BY <1>3, RespondExecs DEF LostBack
<1> QED BY <1>1, <1>2, <1>3 DEF Write

\* The I-frame of a command is written where it is issued and where it is
\* resent; elsewhere the device hears polls and acknowledgements.
Mute ==
  /\ dev'.execs = dev.execs /\ dev'.strict = dev.strict /\ issued' = issued
  /\ InExchange' => /\ InExchange /\ UNCHANGED <<req, iframe>>
                    /\ dev'.conn => dev.conn /\ dev'.vr = dev.vr

Repeats == /\ InExchange /\ InExchange' /\ Write(iframe) /\ ~acked'
           /\ UNCHANGED <<req, iframe, issued>>

LEMMA AckWrites ==
  ASSUME TypeOK, NEW n \in SeqNo, NEW b \in BOOLEAN, Write(SFrame("RR", n, b))
  PROVE  /\ dev'.strict = dev.strict /\ (dev'.conn => dev.conn)
         /\ dev'.vr = dev.vr /\ dev'.execs = dev.execs
<1>1. Writable(SFrame("RR", n, b)) /\ SFrame("RR", n, b).kind # IKind
  BY AckWritable DEF SFrame, IKind
<1> QED BY <1>1, WriteExecs DEF TypeOK, Executes

LEMMA CommandSteps ==
  ASSUME TypeOK, TypeOK', [Next]_vars
  PROVE  Mute \/ Repeats \/ \E p \in Procs : Start(p)
<1> USE DEF peer, locals, ghosts
<1>0. dev \in Device /\ vr \in SeqNo /\ vr' \in SeqNo
  BY DEF TypeOK
<1>a. UNCHANGED dev /\ issued' = issued /\ (InExchange' => InExchange /\ UNCHANGED <<req, iframe>>) => Mute
  BY DEF Mute
<1>b. ASSUME NEW n \in SeqNo, NEW b \in BOOLEAN, Write(SFrame("RR", n, b)), issued' = issued,
             InExchange' => InExchange /\ UNCHANGED <<req, iframe>>
      PROVE  Mute
  BY <1>b, AckWrites DEF Mute
<1>1. CASE Caller
  <2>1. CASE Connect \/ Release
    <3>1. ~InExchange' /\ issued' = issued
      BY <2>1 DEF Connect, Linked, Release, InExchange
    <3>2. dev' \in {dev, Snrm(dev), Disc(dev)}
      BY <2>1 DEF Connect, Release
    <3>3. dev'.execs = dev.execs /\ dev'.strict = dev.strict
      BY <1>0, <3>2 DEF Snrm, Disc, Unlinked, Device
    <3> QED BY <3>1, <3>3 DEF Mute
  <2>2. CASE Keepalive
    BY <1>0, <1>b, <2>2 DEF Keepalive, RR, InExchange
  <2> QED BY <1>1, <2>1, <2>2 DEF Caller
<1>2. CASE ExchangeStep
  <2>1. CASE Read \/ HandleReset \/ HandleRR \/ Expire
    BY <1>a, <2>1 DEF Read, HandleReset, HandleRR, Expire, Handling, InExchange
  <2>2. CASE HandleRej
    BY <1>a, <2>2 DEF HandleRej, Handling, InExchange, Repeats
  <2>3. CASE HandleDuplicate \/ Poll
    BY <1>0, <1>b, <2>3 DEF HandleDuplicate, Poll, Decide, RR, Handling, InExchange
  <2>4. CASE HandleResponse \/ HandleIndication \/ HandleUnexpected
    BY <1>0, <1>b, <2>4 DEF HandleResponse, HandleIndication, HandleUnexpected, HandleNew,
                            Handling, InExchange
  <2>5. CASE Resend
    BY <2>5 DEF Resend, ResendGuard, Decide, InExchange, Repeats
  <2> QED BY <1>2, <2>1, <2>2, <2>3, <2>4, <2>5 DEF ExchangeStep
<1>3. CASE DrainStep
  <2>1. ~InExchange' /\ issued' = issued
    BY <1>3 DEF DrainStep, DrainRead, DrainFrame, DrainNext, InExchange
  <2>2. UNCHANGED dev \/ Write(SFrame("RR", vr', TRUE))
    BY <1>3 DEF DrainStep, DrainRead, DrainFrame, DrainNext
  <2> QED BY <1>0, <1>a, <1>b, <2>1, <2>2
<1>4. CASE KeepaliveStep
  <2>1. ~InExchange' /\ issued' = issued
    BY <1>4 DEF KeepaliveStep, KeepaliveRead, KeepaliveFrame, KeepaliveDone, InExchange
  <2>2. UNCHANGED dev \/ Write(SFrame("RR", vr', FALSE))
    BY <1>4 DEF KeepaliveStep, KeepaliveRead, KeepaliveFrame, KeepaliveDone
  <2> QED BY <1>0, <1>a, <1>b, <2>1, <2>2
<1>5. CASE DeviceStep
  <2>1. /\ UNCHANGED <<pc, issued, req, iframe>> /\ dev'.strict = dev.strict
        /\ dev'.execs = dev.execs /\ (dev'.conn => dev.conn /\ dev'.vr = dev.vr)
    BY <1>5, OwnFields
  <2> QED BY <2>1 DEF Mute, InExchange
<1>6. CASE UNCHANGED vars
  BY <1>a, <1>6 DEF vars, InExchange
<1> QED BY <1>1, <1>2, <1>3, <1>4, <1>5, <1>6 DEF Next

\* Once executed, a command is not what a device that enforces N(S) expects.
ExecsInv ==
  /\ \A i \in 1 .. MaxReq : dev.execs[i] > 0 => i <= issued
  /\ InExchange => req.id = issued
  /\ dev.strict => ExecutedAtMostOnce
  /\ dev.strict /\ InExchange /\ dev.conn => dev.execs[req.id] = 0 \/ dev.vr # sentNs

LEMMA ExecutesOnce ==
  ASSUME TypeOK, TypeOK', InExchange', req'.id = issued', req' = iframe'.pl,
         NEW f, f = iframe', Executes(f, dev, dev'),
         \A i \in 1 .. MaxReq : dev.execs[i] > 0 => i <= issued',
         dev'.strict = dev.strict, dev.strict => ExecutedAtMostOnce,
         dev.strict /\ dev.vr = f.ns => dev.execs[req'.id] = 0
  PROVE  ExecsInv'
<1>1. /\ req'.id \in 1 .. MaxReq /\ f.ns \in SeqNo /\ sentNs' = f.ns /\ f.pl.id = req'.id
      /\ dev.execs \in [1 .. MaxReq -> Nat] /\ f.pl = req'
  <2>1. req' \in Request /\ iframe' \in Frame
    BY DEF TypeOK, CommandOK
  <2>2. dev \in Device
    BY DEF TypeOK
  <2> QED BY <2>1, <2>2, FrameFields, DeviceFields DEF Request, sentNs
<1>2. dev'.vr = Succ(f.ns) /\ dev'.execs = [dev.execs EXCEPT ![req'.id] = @ + 1]
      /\ (dev.strict => dev.execs[req'.id] = 0)
  BY <1>1 DEF Executes
<1>3. /\ \A i \in 1 .. MaxReq : i # req'.id => dev'.execs[i] = dev.execs[i]
      /\ dev'.execs[req'.id] = dev.execs[req'.id] + 1
  <2>1. \A x \in [1 .. MaxReq -> Nat], k \in 1 .. MaxReq :
          LET y == [x EXCEPT ![k] = @ + 1]
          IN y[k] = x[k] + 1 /\ \A i \in 1 .. MaxReq : i # k => y[i] = x[i]
    OBVIOUS
  <2> QED BY <1>1, <1>2, <2>1
<1>4. \A i \in 1 .. MaxReq : dev'.execs[i] > 0 => i <= issued'
  <2>1. req'.id <= issued' /\ issued' \in Nat
    BY DEF TypeOK
  <2> QED BY <1>3, <2>1
<1>5. dev.strict => \A i \in 1 .. MaxReq : dev'.execs[i] <= 1
  BY <1>1, <1>2, <1>3 DEF ExecutedAtMostOnce
<1>6. dev'.vr # sentNs'
  BY <1>1, <1>2, SuccSeqNo
<1> QED BY <1>4, <1>5, <1>6 DEF ExecsInv, ExecutedAtMostOnce

LEMMA ExecsStep == TypeOK /\ TypeOK' /\ ExecsInv /\ [Next]_vars => ExecsInv'
<1> SUFFICES ASSUME TypeOK, TypeOK', ExecsInv, [Next]_vars PROVE ExecsInv'
  OBVIOUS
<1>0. dev \in Device /\ dev.execs \in [1 .. MaxReq -> Nat] /\ issued \in Nat
  <2>1. dev \in Device /\ issued \in Nat
    BY DEF TypeOK
  <2> QED BY <2>1, DeviceFields
<1>1. CASE Mute
  BY <1>1 DEF Mute, ExecsInv, ExecutedAtMostOnce, sentNs
<1>2. CASE Repeats
  <2>1. /\ InExchange /\ InExchange' /\ Write(iframe) /\ req' = req /\ iframe' = iframe
        /\ issued' = issued /\ Writable(iframe) /\ iframe.pl = req
    BY <1>2, CommandPresent DEF Repeats, InExchange
  <2>2. /\ dev'.strict = dev.strict /\ (dev'.conn => dev.conn)
        /\ (dev'.vr = dev.vr /\ dev'.execs = dev.execs) \/ Executes(iframe, dev, dev')
    BY <1>0, <2>1, WriteExecs
  <2>3. CASE dev'.vr = dev.vr /\ dev'.execs = dev.execs
    BY <2>1, <2>2, <2>3 DEF ExecsInv, ExecutedAtMostOnce, sentNs
  <2>4. CASE Executes(iframe, dev, dev')
    BY <2>1, <2>2, <2>4, ExecutesOnce DEF ExecsInv, Executes, sentNs
  <2> QED BY <2>2, <2>3, <2>4
<1>3. ASSUME NEW p \in Procs, Start(p) PROVE ExecsInv'
  <2>1. /\ InExchange' /\ Write(iframe') /\ issued' = issued + 1 /\ req'.id = issued + 1
        /\ iframe'.pl = req' /\ sentNs' = iframe'.ns
    BY <1>3 DEF Start, IFrame, InExchange, sentNs
  <2>2. req' \in Request /\ Writable(iframe') /\ req'.id \in 1 .. MaxReq
    BY <2>1 DEF TypeOK, CommandOK, Writable, Request
  <2>3. /\ dev'.strict = dev.strict /\ (dev'.conn => dev.conn)
        /\ (dev'.vr = dev.vr /\ dev'.execs = dev.execs) \/ Executes(iframe', dev, dev')
    BY <1>0, <2>1, <2>2, WriteExecs
  <2>4. dev.execs[req'.id] = 0 /\ \A i \in 1 .. MaxReq : dev.execs[i] > 0 => i <= issued'
    <3>1. PICK k \in 1 .. MaxReq : k = req'.id
      BY <2>2
    <3>2. k = issued + 1 /\ dev.execs[k] \in Nat
      BY <1>0, <2>1, <3>1
    <3>3. \A i \in 1 .. MaxReq : dev.execs[i] > 0 => i <= issued
      BY DEF ExecsInv
    <3>4. ~(dev.execs[k] > 0)
      BY <1>0, <3>2, <3>3
    <3> QED BY <1>0, <2>1, <3>1, <3>2, <3>3, <3>4
  <2>5. CASE dev'.vr = dev.vr /\ dev'.execs = dev.execs
    BY <2>1, <2>3, <2>4, <2>5 DEF ExecsInv, ExecutedAtMostOnce
  <2>6. CASE Executes(iframe', dev, dev')
    <3>1. dev.strict => ExecutedAtMostOnce
      BY DEF ExecsInv
    <3> QED BY <2>1, <2>3, <2>4, <2>6, <3>1, ExecutesOnce
  <2> QED BY <2>3, <2>5, <2>6
<1> QED BY <1>1, <1>2, <1>3, CommandSteps

LEMMA InitExecs == Init => ExecsInv
BY DEF Init, ExecsInv, InExchange, FreshDevice, ExecutedAtMostOnce

\* A device that enforces N(S) moves its actuator at most once for a command,
\* however often exchange() resends it and whatever was given up before.
THEOREM MovesOnce == Spec => [](dev.strict => ExecutedAtMostOnce)
<1>1. ExecsInv => (dev.strict => ExecutedAtMostOnce)
  BY DEF ExecsInv
<1> QED BY <1>1, InitExecs, ExecsStep, TypeCorrect, PTL DEF Spec

\* exchange() resends an unacknowledged command only: on any device, no step of
\* an exchange that has its acknowledgement executes the command again.
THEOREM AckedIsDone == Spec => AckedNotReexecuted
<1>1. TypeOK /\ TypeOK' /\ [Next]_vars =>
        [ \A i \in 1 .. MaxReq :
            InExchange /\ InExchange' /\ acked' /\ req.id = i
              => dev'.execs[i] = dev.execs[i] ]_vars
  <2> SUFFICES ASSUME TypeOK, TypeOK', [Next]_vars, NEW i \in 1 .. MaxReq,
                      InExchange, InExchange', acked'
               PROVE  dev'.execs[i] = dev.execs[i]
    OBVIOUS
  <2>1. Mute
    BY CommandSteps DEF Repeats, Start, InExchange
  <2> QED BY <2>1 DEF Mute
<1> QED BY <1>1, TypeCorrect, PTL DEF Spec, AckedNotReexecuted

-------------------------------------------------------------------------------
\* The two halves of a step: what was read goes, what is written is answered.
LEMMA StandingSkips ==
  ASSUME NEW q \in Request, NEW m \in SeqNo, NEW n, NEW h \in Frame, NEW t \in Seq(Frame), NEW d,
         NEW ack, NEW new, h.kind \notin UKinds, new <=> ack \/ h.nr = Succ(m),
         Standing(q, m, n, <<h>> \o t, d, ack)
  PROVE  Standing(q, m, n, t, d, new)
<1>1. <<h>> \in Seq(Frame) /\ ToSet(<<h>>) = {h}
  BY DEF ToSet
<1>2. ToSet(<<h>> \o t) = {h} \cup ToSet(t)
  BY HeadSet
<1>3. CASE d.execs[q.id] > 0
  <2>1. During(q, m, n, <<h>> \o t, d) /\ (ack => Bears(<<h>> \o t, Succ(m)))
    BY <1>3 DEF Standing
  <2>2. During(q, m, n, t, d) /\ (ack => Bears(t, Succ(m)))
    BY <1>1, <2>1, DuringPart
  <2>3. h.nr = Succ(m) => Bears(t, Succ(m))
    BY <1>1, <2>1, DuringPart DEF Bearing
  <2> QED BY <1>3, <2>2, <2>3 DEF Standing
<1>4. CASE ~(d.execs[q.id] > 0)
  <2>1. Between(m, n, <<h>> \o t, d) /\ ~ack
    BY <1>4 DEF Standing
  <2>2. h.nr = m
    BY <1>2, <2>1 DEF Between, Bears
  <2>3. Between(m, n, t, d)
    BY <1>1, <2>1, BetweenPart
  <2> QED BY <1>4, <2>1, <2>2, <2>3, SuccSeqNo DEF Standing
<1> QED BY <1>3, <1>4

LEMMA StandingHears ==
  ASSUME NEW q, NEW m, NEW n \in SeqNo, NEW s, NEW d \in Device, NEW ack,
         Standing(q, m, n, s, d, ack),
         NEW h, d.conn => d.vs = n /\ d.sent = h.pl /\ d.sent # None,
         ToSet(s) \cap New(Succ(n)) = {}
  PROVE  Standing(q, m, Succ(n), s, d, ack)
BY BetweenHears, DuringHears DEF Standing

LEMMA WriteAnswered ==
  ASSUME TypeOK, TypeOK', NEW b \in Seq(Frame), batch' = b, Numbered(vr', b \o wire, dev),
         NEW f, Fits(vr', f), Write(f)
  PROVE  \E r \in Seq(Frame) :
           /\ Line' = (b \o wire) \o r /\ Says(r, dev') /\ Heard(vr', f, dev, dev')
           /\ Numbered(vr', (b \o wire) \o r, dev')
<1>1. dev \in Device /\ wire \in Seq(Frame) /\ vr' \in SeqNo
  BY DEF TypeOK
<1>2. Written(vr', f, b)
  BY <1>1, WriteReacts
<1> QED BY <1>2 DEF Written, Line

LEMMA StandingWrites ==
  ASSUME TypeOK, TypeOK', NEW b \in Seq(Frame), batch' = b, Numbered(vr', b \o wire, dev),
         NEW f, Fits(vr', f), Write(f), NEW q \in Request, NEW m \in SeqNo, NEW ack \in BOOLEAN,
         dev.strict, Standing(q, m, vr', b \o wire, dev, ack),
         f.kind = IKind => f.ns = m /\ f.pl = q
  PROVE  Standing(q, m, vr', Line', dev', ack)
<1> DEFINE s == b \o wire
<1>1. dev \in Device /\ dev' \in Device /\ vr' \in SeqNo /\ s \in Seq(Frame)
  BY ConcatSet DEF TypeOK
<1>2. PICK r \in Seq(Frame) : /\ Line' = s \o r /\ Says(r, dev') /\ Heard(vr', f, dev, dev')
                              /\ Numbered(vr', s \o r, dev')
  BY WriteAnswered
<1>3. Standing(q, m, vr', s, dev, ack)
  OBVIOUS
<1> HIDE DEF s
<1> QED BY <1>1, <1>2, <1>3, StandingReply

LEMMA BetweenWrites ==
  ASSUME TypeOK, TypeOK', NEW b \in Seq(Frame), batch' = b, Numbered(vr', b \o wire, dev),
         NEW f, Fits(vr', f), Write(f), f.kind # IKind, NEW m \in SeqNo,
         Between(m, vr', b \o wire, dev)
  PROVE  Between(m, vr', Line', dev')
<1> DEFINE s == b \o wire
<1>1. dev \in Device /\ dev' \in Device /\ vr' \in SeqNo /\ s \in Seq(Frame)
  BY ConcatSet DEF TypeOK
<1>2. PICK r \in Seq(Frame) : /\ Line' = s \o r /\ Says(r, dev') /\ Heard(vr', f, dev, dev')
                              /\ Numbered(vr', s \o r, dev')
  BY WriteAnswered
<1>3. Between(m, vr', s, dev)
  OBVIOUS
<1> HIDE DEF s
<1>4. Keeps(vr', dev, dev') /\ (dev'.conn => dev.conn)
  BY <1>2 DEF Heard, Takes
<1> QED BY <1>1, <1>2, <1>3, <1>4, BetweenReply

\* The head of the batch, with the rest of the line behind it.
LEMMA HeadIsNew ==
  ASSUME TypeOK, OnLink, NumberedInv, batch # <<>>, Head(batch).kind = IKind, Head(batch).ns = vr
  PROVE  LET h == Head(batch)
             t == Tail(batch) \o wire
         IN /\ h \in New(vr) /\ Numbered(Succ(vr), t, dev) /\ ToSet(t) \cap New(Succ(vr)) = {}
            /\ dev.conn => dev.vs = vr /\ dev.sent = h.pl /\ dev.sent # None
<1> DEFINE h == Head(batch)
           t == Tail(batch) \o wire
<1>1. vr \in SeqNo /\ h \in New(vr)
  BY HeadNumbered DEF TypeOK
<1>2. h \in Frame /\ t \in Seq(Frame) /\ Numbered(vr, <<h>> \o t, dev)
  BY BehindHead DEF NumberedInv
<1> HIDE DEF h, t
<1>3. /\ Numbered(Succ(vr), t, dev) /\ ToSet(t) \cap New(Succ(vr)) = {}
      /\ dev.conn => dev.vs = vr /\ dev.sent = h.pl /\ dev.sent # None
  BY <1>1, <1>2, NumberedHeard
<1> QED BY <1>1, <1>3 DEF h, t

LEMMA StrictKept ==
  ASSUME TypeOK, TypeOK', [Next]_vars
  PROVE  dev'.strict = dev.strict
<1>1. CASE Mute
  BY <1>1 DEF Mute
<1>2. CASE Repeats
  BY <1>2, CommandPresent, WriteExecs DEF Repeats, InExchange, TypeOK
<1>3. ASSUME NEW p \in Procs, Start(p) PROVE dev'.strict = dev.strict
  <2>1. Write(iframe') /\ Writable(iframe')
    BY <1>3 DEF Start, TypeOK, CommandOK, InExchange, Writable
  <2> QED BY <2>1, WriteExecs DEF TypeOK
<1> QED BY <1>1, <1>2, <1>3, CommandSteps

\* While a command is exchanged: what is left of the line stands as the line
\* did, and so does what is said next.
LEMMA DuringExchange ==
  ASSUME TypeOK, TypeOK', Emptied, NumberedInv, NoWrap, ExchangeStep, OnLink', dev.strict,
         Standing(req, sentNs, vr, Line, dev, acked), VsAdvancesOnce
  PROVE  IF InExchange' THEN Standing(req', sentNs', vr', Line', dev', acked')
         ELSE abandoned' \/ Between(vs', vr', Line', dev')
<1> USE DEF peer, locals, ghosts
<1>0. /\ OnLink /\ InExchange /\ dev \in Device /\ vr \in SeqNo /\ wire \in Seq(Frame)
      /\ batch \in Seq(Frame) /\ acked \in BOOLEAN /\ acked' \in BOOLEAN
  BY DEF ExchangeStep, Read, HandleReset, HandleRR, HandleRej, HandleDuplicate, HandleResponse,
         HandleIndication, HandleUnexpected, HandleNew, Handling, Resend, Expire, Poll, Decide,
         OnLink, InExchange, TypeOK
<1>1. /\ req \in Request /\ iframe.kind = IKind /\ iframe.pl = req /\ iframe.ns = sentNs
      /\ sentNs \in SeqNo /\ Fits(vr, iframe)
  BY <1>0, CommandPresent DEF Fits, NoWrap, InExchange, sentNs
\* Nothing is handled: what f says is answered.
<1>3. ASSUME NEW f, f = iframe \/ f.kind # IKind, Fits(vr, f), Write(f), UNCHANGED <<vr, batch, acked>>
      PROVE  Standing(req, sentNs, vr', Line', dev', acked')
  <2>1. Numbered(vr', batch \o wire, dev) /\ Standing(req, sentNs, vr', batch \o wire, dev, acked')
    BY <1>0, <1>3 DEF NumberedInv, Line
  <2> QED BY <1>0, <1>1, <1>3, <2>1, StandingWrites
\* A frame is dropped.
<1>4. ASSUME batch # <<>>, Head(batch).kind \notin UKinds, NoteNr(Head(batch))
      PROVE  Standing(req, sentNs, vr, Tail(batch) \o wire, dev, acked')
  <2> DEFINE h == Head(batch)
             t == Tail(batch) \o wire
  <2>1. h \in Frame /\ t \in Seq(Frame) /\ Standing(req, sentNs, vr, <<h>> \o t, dev, acked)
    BY <1>0, <1>4, BehindHead
  <2>2. acked' <=> acked \/ h.nr = Succ(sentNs)
    BY <1>4 DEF NoteNr, Acks
  <2> HIDE DEF h, t
  <2>3. h.kind \notin UKinds
    BY <1>4 DEF h
  <2>4. Standing(req, sentNs, vr, t, dev, acked')
    BY <1>1, <2>1, <2>2, <2>3, StandingSkips
  <2> QED BY <2>4 DEF t
<1>5. ASSUME batch # <<>>, Head(batch).kind \notin UKinds, Head(batch) \notin New(vr),
             NoteNr(Head(batch)), AfterHead, vr' = vr,
             \/ UNCHANGED <<dev, wire>>
             \/ \E f : (f = iframe \/ f.kind # IKind) /\ Fits(vr, f) /\ Write(f)
      PROVE  Standing(req, sentNs, vr', Line', dev', acked')
  <2> DEFINE b == Tail(batch)
  <2>1. Standing(req, sentNs, vr', b \o wire, dev, acked') /\ batch' = b
    BY <1>4, <1>5 DEF AfterHead
  <2>2. Numbered(vr', b \o wire, dev) /\ b \in Seq(Frame)
    BY <1>0, <1>5, BehindHead
  <2> HIDE DEF b
  <2>3. CASE UNCHANGED <<dev, wire>>
    BY <2>1, <2>3 DEF Line
  <2>4. ASSUME NEW f, f = iframe \/ f.kind # IKind, Fits(vr, f), Write(f)
        PROVE  Standing(req, sentNs, vr', Line', dev', acked')
    <3>1. Fits(vr', f) /\ (f.kind = IKind => f.ns = sentNs /\ f.pl = req)
      BY <1>1, <1>5, <2>4
    <3> QED BY <1>0, <1>1, <2>1, <2>2, <2>4, <3>1, StandingWrites
  <2> QED BY <1>5, <2>3, <2>4
<1>6. ASSUME UNCHANGED <<req, iframe>>, pc' \in {"reading", "frames"},
             Standing(req, sentNs, vr', Line', dev', acked')
      PROVE  InExchange' /\ Standing(req', sentNs', vr', Line', dev', acked')
  BY <1>6 DEF InExchange, sentNs

\* The frame expected was heard: an alarm, or the response.
<1>7. ASSUME NEW verdict, HandleNew(verdict)
      PROVE  LET h == Head(batch)
                 t == Tail(batch) \o wire
             IN /\ h \in New(vr) /\ h \in Frame /\ t \in Seq(Frame) /\ batch # <<>>
                /\ Tail(batch) \in Seq(Frame)
                /\ vr' = Succ(vr) /\ Verdict(h.pl) = verdict /\ pc = "frames"
                /\ Standing(req, sentNs, vr, <<h>> \o t, dev, acked)
                /\ Numbered(Succ(vr), t, dev) /\ ToSet(t) \cap New(Succ(vr)) = {}
                /\ dev.conn => dev.vs = vr /\ dev.sent = h.pl /\ dev.sent # None
  <2>1. /\ pc = "frames" /\ batch # <<>> /\ Head(batch).kind = IKind /\ Head(batch).ns = vr
        /\ vr' = Succ(vr) /\ Verdict(Head(batch).pl) = verdict
    BY <1>7 DEF HandleNew, Handling
  <2> QED BY <1>0, <2>1, HeadIsNew, BehindHead
<1>8. ASSUME NEW verdict, HandleNew(verdict), Verdict(Head(batch).pl) # "indication"
      PROVE  LET t == Tail(batch) \o wire
             IN Head(batch).pl = req /\ Between(Succ(sentNs), Succ(vr), t, dev)
  <2> DEFINE h == Head(batch)
             t == Tail(batch) \o wire
  <2>1. /\ h \in New(vr) /\ h \in Frame /\ t \in Seq(Frame)
        /\ Standing(req, sentNs, vr, <<h>> \o t, dev, acked)
        /\ ToSet(t) \cap New(Succ(vr)) = {}
        /\ dev.conn => dev.vs = vr /\ dev.sent = h.pl /\ dev.sent # None
    BY <1>7, <1>8
  <2>2. h.pl.proc # Alarm
    BY <1>8 DEF Verdict
  <2> HIDE DEF h, t
  <2>3. h.pl = req /\ Between(Succ(sentNs), Succ(vr), t, dev)
    BY <1>0, <1>1, <2>1, <2>2, ResponseHeard
  <2> QED BY <2>3 DEF h, t
<1>9. CASE Read
  <2>1. batch = <<>> /\ pc' = "frames" /\ UNCHANGED <<vr, req, iframe, acked, dev>>
    BY <1>9 DEF Read, Emptied
  <2>2. PICK k \in 0 .. Len(wire) : TakeFrom(k)
    BY <1>0, <1>9 DEF Read, ReadFrames
  <2>3. Line' = Line
    BY <1>0, <2>1, <2>2, TakenLine
  <2> QED BY <1>6, <2>1, <2>3
<1>10. CASE HandleReset
  BY <1>10 DEF HandleReset, OnLink
<1>11. CASE HandleRR \/ HandleRej \/ HandleDuplicate
  <2>1. /\ pc' = "frames" /\ batch # <<>> /\ UNCHANGED <<vr, req, iframe>>
        /\ NoteNr(Head(batch)) /\ AfterHead
        /\ \/ Head(batch).kind \in SKinds
           \/ Head(batch).kind = IKind /\ Head(batch).ns # vr
    BY <1>11 DEF HandleRR, HandleRej, HandleDuplicate, Handling, SKinds
  <2>2. Head(batch).kind \notin UKinds /\ Head(batch) \notin New(vr)
    BY <2>1 DEF New, SKinds, UKinds, IKind
  <2>3. Fits(vr, RR(TRUE)) /\ RR(TRUE).kind # IKind
    BY <1>0, AckFits DEF RR, SFrame, IKind
  <2>4. UNCHANGED <<dev, wire>> \/ Write(iframe) \/ Write(RR(TRUE))
    BY <1>11 DEF HandleRR, HandleRej, HandleDuplicate
  <2>5. Standing(req, sentNs, vr', Line', dev', acked')
    BY <1>1, <1>5, <2>1, <2>2, <2>3, <2>4
  <2> QED BY <1>6, <2>1, <2>5
<1>12. CASE HandleIndication
  <2> DEFINE b == Tail(batch)
             f == SFrame("RR", vr', TRUE)
  <2>1. /\ HandleNew("indication") /\ NoteNr(Head(batch)) /\ AfterHead /\ Write(f)
        /\ UNCHANGED <<pc, req, iframe>>
    BY <1>12 DEF HandleIndication
  <2>2. Standing(req, sentNs, vr, b \o wire, dev, acked')
    BY <1>4, <1>7, <2>1 DEF New, IKind, UKinds
  <2>3. /\ vr' = Succ(vr) /\ Numbered(vr', b \o wire, dev) /\ b \in Seq(Frame)
        /\ ToSet(b \o wire) \cap New(Succ(vr)) = {} /\ batch' = b /\ pc = "frames"
        /\ dev.conn => dev.vs = vr /\ dev.sent = Head(batch).pl /\ dev.sent # None
    BY <1>7, <2>1 DEF AfterHead
  <2>4. Fits(vr', f) /\ f.kind # IKind
    BY <1>0, <2>3, AckFits, SuccSeqNo DEF SFrame, IKind
  <2> HIDE DEF b, f
  <2>5. Standing(req, sentNs, vr', b \o wire, dev, acked')
    BY <1>0, <2>2, <2>3, StandingHears
  <2>6. Standing(req, sentNs, vr', Line', dev', acked')
    BY <1>0, <1>1, <2>1, <2>3, <2>4, <2>5, StandingWrites
  <2> QED BY <1>6, <2>1, <2>3, <2>6
<1>13. CASE HandleUnexpected
  <2>1. HandleNew("unexpected")
    BY <1>13 DEF HandleUnexpected
  <2>2. Verdict(Head(batch).pl) = "unexpected"
    BY <1>7, <2>1
  <2>3. Head(batch).pl = req
    BY <1>8, <2>1, <2>2
  <2> QED BY <2>2, <2>3 DEF Verdict
<1>14. CASE HandleResponse
  <2> DEFINE b == Tail(batch)
             f == SFrame("RR", vr', FALSE)
  <2>1. /\ HandleNew("accept") /\ Write(f) /\ batch' = <<>> /\ pc' = "idle"
        /\ vs' = IF acked THEN vs ELSE Succ(sentNs)
    BY <1>14 DEF HandleResponse
  <2>2. vs' = Succ(sentNs) /\ ~InExchange'
    BY <1>0, <2>1 DEF VsAdvancesOnce, InExchange
  <2>3. /\ vr' = Succ(vr) /\ Numbered(vr', b \o wire, dev) /\ b \in Seq(Frame)
        /\ Verdict(Head(batch).pl) = "accept"
    BY <1>7, <2>1
  <2>4. Between(vs', vr', b \o wire, dev)
    BY <1>8, <2>1, <2>2, <2>3
  <2>5. <<>> \in Seq(Frame) /\ <<>> \o wire = wire
    BY <1>0, ConcatEmptySeq
  <2>6. Between(vs', vr', <<>> \o wire, dev) /\ Numbered(vr', <<>> \o wire, dev)
    <3> HIDE DEF b
    <3>1. Between(vs', vr', wire, dev)
      BY <1>0, <2>3, <2>4, BetweenPart
    <3>2. Numbered(vr', wire, dev)
      BY <1>0, <2>3, NumberedParts
    <3> QED BY <2>5, <3>1, <3>2
  <2>7. Fits(vr', f) /\ f.kind # IKind /\ vs' \in SeqNo
    BY <1>0, <1>1, <2>2, <2>3, AckFits, SuccSeqNo DEF SFrame, IKind
  <2> HIDE DEF b, f
  <2>8. Between(vs', vr', Line', dev')
    BY <2>1, <2>5, <2>6, <2>7, BetweenWrites
  <2> QED BY <2>2, <2>8
<1>15. CASE Resend
  <2>1. Write(iframe) /\ UNCHANGED <<vr, batch, acked, req, iframe>> /\ pc' = "reading"
    BY <1>15 DEF Resend
  <2>2. Standing(req, sentNs, vr', Line', dev', acked')
    BY <1>1, <1>3, <2>1
  <2> QED BY <1>6, <2>1, <2>2
<1>16. CASE Expire
  <2>1. abandoned' /\ ~InExchange'
    BY <1>16 DEF Expire, InExchange
  <2> QED BY <2>1
<1>17. CASE Poll
  <2>1. Write(RR(TRUE)) /\ UNCHANGED <<vr, batch, acked, req, iframe>> /\ pc' = "reading"
    BY <1>17 DEF Poll
  <2>2. Fits(vr, RR(TRUE)) /\ RR(TRUE).kind # IKind
    BY <1>0, AckFits DEF RR, SFrame, IKind
  <2>3. Standing(req, sentNs, vr', Line', dev', acked')
    BY <1>3, <2>1, <2>2
  <2> QED BY <1>6, <2>1, <2>3
<1> QED BY <1>9, <1>10, <1>11, <1>12, <1>13, <1>14, <1>15, <1>16, <1>17 DEF ExchangeStep

\* The device finishes a command or raises an alarm.
LEMMA OwnAwaited ==
  ASSUME NEW q, NEW u \in Seq(Owed), NEW todo, NEW r \in Owed, NEW new,
         \/ r \in todo /\ new = todo \ {r} /\ todo \subseteq Request
         \/ r.proc = Alarm /\ new = todo
  PROVE  /\ Settled(u, todo) => Settled(Append(u, r), new)
         /\ Awaited(q, u, todo) => Awaited(q, Append(u, r), new)
<1>1. Append(u, r) = u \o <<r>>
  OBVIOUS
<1>2. /\ ToSet(Append(u, r)) = ToSet(u) \cup {r}
      /\ Ordered(Append(u, r), Request, Request)
           <=> Ordered(u, Request, Request) /\ (r \in Request => ToSet(u) \cap Request = {})
  BY <1>1, SnocOrdered
<1>3. r.proc = Alarm => r \notin Request
  BY OwedKinds
<1>4. ASSUME Settled(u, todo) PROVE Settled(Append(u, r), new)
  BY <1>2, <1>3, <1>4 DEF Settled
<1>5. ASSUME Awaited(q, u, todo) PROVE Awaited(q, Append(u, r), new)
  <2>1. CASE r.proc = Alarm /\ new = todo
    BY <1>2, <1>3, <1>5, <2>1 DEF Awaited
  <2>2. CASE r \in todo /\ new = todo \ {r}
    <3>1. r = q /\ new = {} /\ ToSet(u) \cap Request = {}
      BY <1>5, <2>2 DEF Awaited
    <3> QED BY <1>2, <1>5, <3>1 DEF Awaited
  <2> QED BY <2>1, <2>2
<1> QED BY <1>4, <1>5

LEMMA StandingOwn ==
  ASSUME TypeOK, DeviceStep, NEW m, NEW n
  PROVE  /\ Between(m, n, Line, dev) => Between(m, n, Line, dev')
         /\ \A q, ack : Standing(q, m, n, Line, dev, ack) => Standing(q, m, n, Line, dev', ack)
<1>1. dev \in Device /\ dev'.execs = dev.execs /\ (dev'.conn => dev.conn)
  BY OwnFields DEF TypeOK
<1>2. ASSUME dev'.conn
      PROVE  /\ dev'.vr = dev.vr
             /\ Settled(Unseen(n, dev), dev.todo) => Settled(Unseen(n, dev'), dev'.todo)
             /\ \A q : Awaited(q, Unseen(n, dev), dev.todo) => Awaited(q, Unseen(n, dev'), dev'.todo)
  <2>1. PICK r \in Owed :
          /\ dev'.vs = dev.vs /\ dev'.vr = dev.vr /\ dev'.sent = dev.sent
          /\ dev'.out = Append(dev.out, r)
          /\ \/ r \in dev.todo /\ dev'.todo = dev.todo \ {r}
             \/ r = [proc |-> Alarm, id |-> dev.raised + 1] /\ dev'.todo = dev.todo
    BY <1>2, OwnFields
  <2>2. Unseen(n, dev') = Append(Unseen(n, dev), r) /\ Unseen(n, dev) \in Seq(Owed)
    BY <1>1, <2>1, UnseenAppend, UnseenType
  <2>3. dev.todo \subseteq Request
    BY <1>1, DeviceFields
  <2> DEFINE u == Unseen(n, dev)
             todo == dev.todo
             new == dev'.todo
  <2>4. \/ r \in todo /\ new = todo \ {r} /\ todo \subseteq Request
        \/ r.proc = Alarm /\ new = todo
    BY <2>1, <2>3
  <2>5. u \in Seq(Owed) /\ Unseen(n, dev') = Append(u, r)
    BY <2>2
  <2> HIDE DEF u, todo, new
  <2>6. Settled(u, todo) => Settled(Append(u, r), new)
    BY <2>4, <2>5, OwnAwaited
  <2>7. ASSUME NEW q PROVE Awaited(q, u, todo) => Awaited(q, Append(u, r), new)
    BY <2>4, <2>5, OwnAwaited
  <2> QED BY <2>1, <2>5, <2>6, <2>7 DEF u, todo, new
<1>3. Between(m, n, Line, dev) => Between(m, n, Line, dev')
  BY <1>1, <1>2 DEF Between
<1>4. \A q : During(q, m, n, Line, dev) => During(q, m, n, Line, dev')
  BY <1>1, <1>2 DEF During
<1> QED BY <1>1, <1>3, <1>4 DEF Standing

\* Between two commands the keepalive poll may be out.
LEMMA OutsideExchange ==
  ASSUME TypeOK, TypeOK', Emptied, NumberedInv, OnLink', Keepalive \/ KeepaliveStep,
         Between(vs, vr, Line, dev)
  PROVE  ~InExchange' /\ Between(vs', vr', Line', dev')
<1> USE DEF peer, locals, ghosts
<1>0. /\ OnLink /\ ~InExchange' /\ vs' = vs
      /\ dev \in Device /\ vr \in SeqNo /\ vs \in SeqNo /\ wire \in Seq(Frame) /\ batch \in Seq(Frame)
  BY DEF Keepalive, KeepaliveStep, KeepaliveRead, KeepaliveFrame, KeepaliveDone, OnLink, InExchange,
         TypeOK
<1>1. CASE Keepalive
  <2>1. Write(RR(TRUE)) /\ UNCHANGED <<vr, batch>> /\ Fits(vr', RR(TRUE)) /\ RR(TRUE).kind # IKind
    BY <1>0, <1>1, AckFits DEF Keepalive, RR, SFrame, IKind
  <2>2. Between(vs, vr', batch \o wire, dev) /\ Numbered(vr', batch \o wire, dev)
    BY <1>0, <2>1 DEF NumberedInv, Line
  <2> QED BY <1>0, <2>1, <2>2, BetweenWrites
<1>2. CASE KeepaliveRead
  <2>1. batch = <<>> /\ UNCHANGED <<vr, dev>>
    BY <1>2 DEF KeepaliveRead, Emptied
  <2>2. PICK k \in 0 .. Len(wire) : TakeFrom(k)
    BY <1>0, <1>2 DEF KeepaliveRead
  <2>3. Line' = Line
    BY <1>0, <2>1, <2>2, TakenLine
  <2> QED BY <1>0, <2>1, <2>3
<1>3. CASE KeepaliveFrame
  <2> DEFINE h == Head(batch)
             b == Tail(batch)
             f == SFrame("RR", vr', FALSE)
  <2>1. batch # <<>> /\ AfterHead
    BY <1>3 DEF KeepaliveFrame, OnLink
  <2>2. /\ h \in Frame /\ b \in Seq(Frame) /\ b \o wire \in Seq(Frame) /\ batch' = b
        /\ Line = <<h>> \o (b \o wire) /\ ToSet(Line) = {h} \cup ToSet(b \o wire)
        /\ Numbered(vr, b \o wire, dev)
    BY <1>0, <2>1, BehindHead DEF AfterHead
  <2>3. <<h>> \in Seq(Frame)
    BY <2>2
  <2>4. Between(vs, vr, b \o wire, dev)
    <3> HIDE DEF h, b
    <3> QED BY <2>2, <2>3, BetweenPart
  <2>5. CASE h.kind = IKind /\ h.ns = vr /\ vr' = Succ(h.ns) /\ Write(f)
    <3>1. /\ Numbered(Succ(vr), b \o wire, dev) /\ ToSet(b \o wire) \cap New(Succ(vr)) = {}
          /\ dev.conn => dev.vs = vr /\ dev.sent = h.pl /\ dev.sent # None
      BY <1>0, <2>1, <2>5, HeadIsNew
    <3>2. Fits(vr', f) /\ f.kind # IKind /\ vr' = Succ(vr)
      BY <1>0, <2>5, AckFits, SuccSeqNo DEF SFrame, IKind
    <3> HIDE DEF h, b, f
    <3>3. Between(vs, vr', b \o wire, dev)
      BY <1>0, <2>4, <3>1, <3>2, BetweenHears
    <3>4. Between(vs, vr', Line', dev')
      BY <1>0, <2>2, <2>5, <3>1, <3>2, <3>3, BetweenWrites
    <3> QED BY <1>0, <3>4
  <2>6. CASE UNCHANGED <<vr, dev, wire>>
    BY <1>0, <2>2, <2>4, <2>6 DEF Line
  <2> QED BY <1>3, <2>5, <2>6 DEF KeepaliveFrame, OnLink
<1>4. CASE KeepaliveDone
  BY <1>0, <1>4 DEF KeepaliveDone, Line
<1> QED BY <1>1, <1>2, <1>3, <1>4 DEF KeepaliveStep

\* A command is issued.
LEMMA AtStart ==
  ASSUME TypeOK, TypeOK', Emptied, NumberedInv, ExecsInv, NEW p \in Procs, Start(p), dev.strict,
         Between(vs, vr, Line, dev)
  PROVE  InExchange' /\ Standing(req', sentNs', vr', Line', dev', acked')
<1> USE DEF peer, locals, ghosts
<1>1. /\ InExchange' /\ OnLink /\ Write(iframe') /\ UNCHANGED <<vr, batch>>
      /\ iframe' = IFrame(vs, vr, req') /\ req'.id = issued + 1 /\ acked' = FALSE
  BY DEF Start, InExchange, OnLink
<1>2. /\ iframe'.ns = vs /\ iframe'.nr = vr /\ iframe'.pl = req' /\ iframe'.kind = IKind /\ sentNs' = vs
  BY <1>1 DEF IFrame, sentNs
<1>3. /\ req' \in Request /\ iframe' \in Frame /\ vs \in SeqNo /\ vr \in SeqNo /\ Fits(vr', iframe')
      /\ batch \in Seq(Frame) /\ acked' \in BOOLEAN
  BY <1>1, <1>2, SuccSeqNo DEF TypeOK, CommandOK, Fits, Writable
<1>4. ~(dev.execs[req'.id] > 0)
  <2>1. PICK k \in 1 .. MaxReq : k = req'.id
    BY <1>3 DEF Request
  <2>2. ~(k <= issued) /\ issued \in Nat
    BY <1>1, <2>1 DEF TypeOK
  <2> QED BY <2>1, <2>2 DEF ExecsInv
<1>5. Standing(req', vs, vr', batch \o wire, dev, acked') /\ Numbered(vr', batch \o wire, dev)
  BY <1>1, <1>4 DEF Standing, NumberedInv, Line
<1> QED BY <1>1, <1>2, <1>3, <1>5, StandingWrites

LEMMA CommandStep ==
  TypeOK /\ TypeOK' /\ Emptied /\ NumberedInv /\ NoWrap /\ VsAdvancesOnce /\ ExecsInv
    /\ CommandInv /\ [Next]_vars => CommandInv'
<1> SUFFICES ASSUME TypeOK, TypeOK', Emptied, NumberedInv, NoWrap, VsAdvancesOnce, ExecsInv,
                    CommandInv, [Next]_vars, OnLink', ~abandoned', dev'.strict
             PROVE  IF InExchange' THEN Standing(req', sentNs', vr', Line', dev', acked')
                    ELSE Between(vs', vr', Line', dev')
  BY DEF CommandInv
<1>0. dev.strict
  BY StrictKept
<1>1. CASE Connect \/ Release
  <2>1. Connect /\ Linked
    BY <1>1 DEF Connect, Release, OnLink
  <2>2. vs' = 0 /\ ~InExchange'
    BY <2>1 DEF Linked, InExchange
  <2>3. Opens
    BY <2>1 DEF Connect, Linked, Opens, Emptied, OnLink, peer, locals, ghosts
  <2>4. Line' = <<>> /\ dev'.vr = 0 /\ dev'.todo = {} /\ Unseen(vr', dev') = <<>>
    BY <2>3, OpensFields DEF Unseen
  <2>5. Between(vs', vr', Line', dev')
    BY <2>2, <2>4, EmptySet DEF Between, Bears, Settled
  <2> QED BY <2>2, <2>5
<1>2. CASE Keepalive \/ KeepaliveStep
  <2>1. OnLink /\ ~InExchange /\ abandoned' = abandoned
    BY <1>2 DEF Keepalive, KeepaliveStep, KeepaliveRead, KeepaliveFrame, KeepaliveDone, OnLink,
                InExchange, ghosts
  <2>2. Between(vs, vr, Line, dev)
    BY <1>0, <2>1 DEF CommandInv
  <2> QED BY <1>2, <2>2, OutsideExchange
<1>3. ASSUME NEW p \in Procs, Start(p)
      PROVE  IF InExchange' THEN Standing(req', sentNs', vr', Line', dev', acked')
             ELSE Between(vs', vr', Line', dev')
  <2>1. OnLink /\ ~InExchange /\ abandoned' = abandoned
    BY <1>3 DEF Start, OnLink, InExchange
  <2>2. Between(vs, vr, Line, dev)
    BY <1>0, <2>1 DEF CommandInv
  <2> QED BY <1>0, <1>3, <2>2, AtStart
<1>4. CASE ExchangeStep
  <2>0. OnLink /\ InExchange
    BY <1>4 DEF ExchangeStep, Read, HandleReset, HandleRR, HandleRej, HandleDuplicate,
                HandleResponse, HandleIndication, HandleUnexpected, HandleNew, Handling, Resend,
                Expire, Poll, Decide, OnLink, InExchange
  <2>1. abandoned => abandoned'
    BY <1>4 DEF ExchangeStep, Read, HandleReset, HandleRR, HandleRej, HandleDuplicate,
                HandleResponse, HandleIndication, HandleUnexpected, Resend, Expire, Poll, ghosts
  <2>2. Standing(req, sentNs, vr, Line, dev, acked)
    BY <1>0, <2>0, <2>1 DEF CommandInv
  <2> QED BY <1>0, <1>4, <2>2, DuringExchange
<1>5. CASE DrainStep
  BY <1>5 DEF DrainStep, DrainRead, DrainFrame, DrainNext, Emptied, ghosts
<1>6. CASE DeviceStep
  <2>1. /\ UNCHANGED <<pc, vs, vr, req, iframe, acked, abandoned>> /\ Line' = Line
        /\ InExchange' = InExchange /\ OnLink /\ ~abandoned /\ sentNs' = sentNs
    BY <1>6, OwnFields DEF InExchange, OnLink, sentNs
  <2>2. CASE InExchange
    <3>1. Standing(req, sentNs, vr, Line, dev, acked)
      BY <1>0, <2>1, <2>2 DEF CommandInv
    <3>2. Standing(req, sentNs, vr, Line, dev', acked)
      BY <1>6, <3>1, StandingOwn
    <3> QED BY <2>1, <2>2, <3>2
  <2>3. CASE ~InExchange
    <3>1. Between(vs, vr, Line, dev)
      BY <1>0, <2>1, <2>3 DEF CommandInv
    <3>2. Between(vs, vr, Line, dev')
      BY <1>6, <3>1, StandingOwn
    <3> QED BY <2>1, <2>3, <3>2
  <2> QED BY <2>2, <2>3
<1>7. CASE UNCHANGED vars
  <2>1. /\ UNCHANGED <<vs, vr, acked, abandoned, dev, req>> /\ Line' = Line /\ sentNs' = sentNs
        /\ InExchange' = InExchange /\ OnLink /\ ~abandoned
    BY <1>7 DEF vars, peer, locals, ghosts, InExchange, OnLink, sentNs, Line
  <2> QED BY <1>0, <2>1 DEF CommandInv
<1> QED BY <1>1, <1>2, <1>3, <1>4, <1>5, <1>6, <1>7 DEF Next, Caller

-------------------------------------------------------------------------------
\* The payload exchange() took for the response is that of the command out.
AnswerInv == dev.strict /\ answer # None /\ ~abandoned => answer = issued

LEMMA TakenIsOwn ==
  ASSUME TypeOK, NumberedInv, CommandInv, dev.strict, ~abandoned,
         NEW verdict, HandleNew(verdict), verdict # "indication"
  PROVE  Head(batch).pl = req /\ InExchange /\ verdict = "accept"
<1> DEFINE h == Head(batch)
           t == Tail(batch) \o wire
<1>1. /\ pc = "frames" /\ batch # <<>> /\ h.kind = IKind /\ h.ns = vr
      /\ Verdict(h.pl) = verdict
  BY DEF HandleNew, Handling
<1>2. OnLink /\ InExchange /\ batch \in Seq(Frame) /\ dev \in Device /\ vr \in SeqNo
  BY <1>1 DEF OnLink, InExchange, TypeOK
<1>3. Standing(req, sentNs, vr, Line, dev, acked)
  BY <1>2 DEF CommandInv
<1>4. req \in Request /\ sentNs \in SeqNo
  BY <1>2, CommandPresent DEF InExchange, sentNs
<1>5. h \in Frame /\ t \in Seq(Frame) /\ Line = <<h>> \o t
  BY <1>1, <1>2, BehindHead
<1>6. /\ h \in New(vr) /\ ToSet(t) \cap New(Succ(vr)) = {}
      /\ dev.conn => dev.vs = vr /\ dev.sent = h.pl /\ dev.sent # None
  BY <1>1, <1>2, HeadIsNew
<1>7. h.pl.proc # Alarm
  BY <1>1 DEF Verdict
<1> HIDE DEF h, t
<1>8. Standing(req, sentNs, vr, <<h>> \o t, dev, acked)
  BY <1>3, <1>5
<1>9. h.pl = req
  BY <1>2, <1>4, <1>5, <1>6, <1>7, <1>8, ResponseHeard
<1>10. verdict = "accept"
  BY <1>1, <1>7, <1>9 DEF Verdict
<1> QED BY <1>2, <1>9, <1>10 DEF h

LEMMA AnswerTaken ==
  ASSUME TypeOK, NumberedInv, ExecsInv, CommandInv, dev.strict, ~abandoned, HandleResponse
  PROVE  answer' = issued' /\ issued' = issued
<1>1. HandleNew("accept") /\ answer' = Head(batch).pl.id /\ issued' = issued
  BY DEF HandleResponse
<1>2. Head(batch).pl = req /\ InExchange
  BY <1>1, TakenIsOwn
<1> QED BY <1>1, <1>2 DEF ExecsInv

LEMMA AnswerStep ==
  TypeOK /\ TypeOK' /\ NumberedInv /\ ExecsInv /\ CommandInv /\ AnswerInv /\ [Next]_vars
    => AnswerInv'
<1> SUFFICES ASSUME TypeOK, TypeOK', NumberedInv, ExecsInv, CommandInv, AnswerInv, [Next]_vars,
                    dev'.strict, answer' # None, ~abandoned'
             PROVE  answer' = issued'
  BY DEF AnswerInv
<1> USE DEF ghosts
<1>0. dev.strict
  BY StrictKept
<1>a. UNCHANGED <<answer, abandoned, issued>> => answer' = issued'
  BY <1>0 DEF AnswerInv
<1>1. CASE Caller
  BY <1>1, <1>a DEF Caller, Connect, Linked, Release, Keepalive, Start
<1>2. CASE HandleResponse
  <2>1. ~abandoned
    BY <1>2 DEF HandleResponse
  <2> QED BY <1>0, <1>2, <2>1, AnswerTaken
<1>3. CASE ExchangeStep /\ ~HandleResponse
  BY <1>3, <1>a DEF ExchangeStep, Read, HandleReset, HandleRR, HandleRej, HandleDuplicate,
                    HandleIndication, HandleUnexpected, Resend, Expire, Poll
<1>4. CASE DrainStep
  BY <1>4, <1>a DEF DrainStep, DrainRead, DrainFrame, DrainNext
<1>5. CASE KeepaliveStep
  BY <1>5, <1>a DEF KeepaliveStep, KeepaliveRead, KeepaliveFrame, KeepaliveDone
<1>6. CASE DeviceStep
  BY <1>6, <1>a, OwnFields
<1>7. CASE UNCHANGED vars
  BY <1>7, <1>a DEF vars
<1> QED BY <1>1, <1>2, <1>3, <1>4, <1>5, <1>6, <1>7 DEF Next

LEMMA InitCommand == Init => CommandInv /\ AnswerInv
BY DEF Init, CommandInv, AnswerInv, OnLink

\* What both directions rest on.
SyncInv == /\ Emptied /\ NumberedInv /\ VsAdvancesOnce /\ ExecsInv
           /\ CommandInv /\ AnswerInv

LEMMA SyncInvStep == TypeOK /\ TypeOK' /\ SyncInv /\ NoWrap /\ [Next]_vars => SyncInv'
BY EmptiedStep, NumberedStep, VsStep, ExecsStep, CommandStep, AnswerStep DEF SyncInv

LEMMA SyncCorrect == Spec /\ []NoWrap => []SyncInv
<1>1. Init => SyncInv
  <2>1. Init => VsAdvancesOnce
    BY DEF Init, VsAdvancesOnce, InExchange
  <2> QED BY <2>1, InitLink, InitExecs, InitCommand DEF SyncInv
<1> QED BY <1>1, SyncInvStep, TypeCorrect, PTL DEF Spec

\* What it means that the stations agree.
LEMMA AgreeMeans ==
  TypeOK /\ NumberedInv /\ CommandInv /\ dev.strict => SequenceInSync /\ AckedMeansReceived
<1> SUFFICES ASSUME TypeOK, NumberedInv, CommandInv, dev.strict
             PROVE  SequenceInSync /\ AckedMeansReceived
  OBVIOUS
<1>1. SequenceInSync
  <2> SUFFICES ASSUME pc = "idle", dev.conn, ~abandoned
               PROVE  vs = dev.vr /\ (vr = dev.vs \/ (dev.sent # None /\ vr = Succ(dev.vs)))
    BY DEF SequenceInSync
  <2>1. OnLink /\ ~InExchange
    BY DEF OnLink, InExchange
  <2>2. Between(vs, vr, Line, dev) /\ Numbered(vr, Line, dev)
    BY <2>1 DEF CommandInv, NumberedInv
  <2> QED BY <2>2 DEF Between, Numbered
<1>2. AckedMeansReceived
  <2> SUFFICES ASSUME InExchange, acked, ~abandoned
               PROVE  dev.execs[req.id] > 0
    BY DEF AckedMeansReceived
  <2>1. OnLink
    BY DEF OnLink, InExchange
  <2> QED BY <2>1 DEF CommandInv, Standing
<1> QED BY <1>1, <1>2

\* Whatever the line lost, when exchange() has returned the device that enforces
\* N(S) expects the number the next I-frame will carry, and its own frame is at
\* most one ahead: connect() need not be called again until a request is given up.
THEOREM InSync == Spec /\ []NoWrap => [](dev.strict => SequenceInSync)
BY AgreeMeans, SyncCorrect, TypeCorrect, PTL DEF SyncInv

\* AisgTimeout.acked tells the truth: an N(R) one past the command's N(S) is
\* sent by a device that took the command, and never by a stale frame.
THEOREM AckedIsReceived == Spec /\ []NoWrap => [](dev.strict => AckedMeansReceived)
BY AgreeMeans, SyncCorrect, TypeCorrect, PTL DEF SyncInv

\* The router matches a response by its procedure code alone, and that is
\* enough: what exchange() returns is the response to its own request, as long as
\* no request of this link was given up.
THEOREM AnswersMatch == Spec /\ []NoWrap => [](dev.strict => ResponseMatches)
<1>1. SyncInv => (dev.strict => ResponseMatches)
  BY DEF SyncInv, AnswerInv, ResponseMatches
<1> QED BY <1>1, SyncCorrect, PTL

-------------------------------------------------------------------------------
(***************************************************************************)
(* A device that enforces its numbers has no cause to reject a frame, while *)
(* answers come within the read that waits for them, no REJ is said, no     *)
(* alarm is raised and no request was given up.  Then there is one frame on *)
(* the line at most, and it is what the primary expects.                   *)
(***************************************************************************)
Calm == dev.strict /\ ~abandoned /\ dev.raised = 0

\* The device has seen nothing to complain of, and owes responses only.
Orderly(d) == /\ ~d.frmr /\ ~d.missed
              /\ d.sent \in Request \cup {None} /\ d.out \in Seq(Request)

\* A frame a primary that expects n can go on from.
Welcome(g, n) == g.kind # "REJ" /\ (g.kind = IKind => g.ns = n /\ g.pl \in Request)
Alone(s, n) == s = <<>> \/ \E g \in Frame : s = <<g>> /\ Welcome(g, n)

\* A response taken by the device is not asked for again, by nothing that is on
\* the line or was noted.
Undisturbed ==
  /\ Orderly(dev) /\ Alone(Line, vr)
  /\ wire # <<>> => pc \in {"reading", "polling"}
  /\ InExchange => /\ iframe.nr = vr
                   /\ dev.execs[req.id] > 0 => ~missing /\ Bears(Line, Succ(sentNs))

CalmInv == /\ Calm => NumberedInv /\ CommandInv /\ Undisturbed
           /\ dev.frmr => dev.strict

LEMMA RequestsOwed == Request \subseteq Owed /\ Request \subseteq Payload /\ None \notin Request
BY OwedPayload DEF Owed

\* What such a device says when it is invited.
LEMMA OrderlyInvited ==
  ASSUME NEW d \in Device, Orderly(d), NEW o \in Invited(d)
  PROVE  Orderly(o.dev) /\ \E g \in Frame : o.reply = <<g>> /\ Welcome(g, d.vs)
<1>1. CASE d.sent # None
  <2>1. d.sent \in Request /\ IFrame(d.vs, d.vr, d.sent) \in Frame
    BY <1>1, FrameTypes, OwedPayload, DeviceFields DEF Orderly
  <2>2. o.dev = d /\ o.reply = <<IFrame(d.vs, d.vr, d.sent)>>
    BY <1>1 DEF Invited, Outcome
  <2>3. Welcome(IFrame(d.vs, d.vr, d.sent), d.vs)
    BY <2>1 DEF Welcome, IFrame, IKind
  <2> QED BY <2>1, <2>2, <2>3
<1>2. CASE d.sent = None /\ d.out # <<>>
  <2>1. Head(d.out) \in Request /\ Tail(d.out) \in Seq(Request)
    BY <1>2 DEF Orderly
  <2>2. IFrame(d.vs, d.vr, Head(d.out)) \in Frame
    BY <2>1, FrameTypes, RequestsOwed, DeviceFields
  <2>3. /\ o.dev = [d EXCEPT !.sent = Head(d.out), !.out = Tail(d.out), !.missed = FALSE]
        /\ o.reply = <<IFrame(d.vs, d.vr, Head(d.out))>>
    BY <1>2 DEF Invited, Outcome
  <2>4. Welcome(IFrame(d.vs, d.vr, Head(d.out)), d.vs)
    BY <2>1 DEF Welcome, IFrame, IKind
  <2>5. Orderly(o.dev)
    BY <2>1, <2>3 DEF Orderly, Device
  <2> QED BY <2>2, <2>3, <2>4, <2>5
<1>3. CASE d.sent = None /\ d.out = <<>>
  <2>1. PICK k \in {x \in SKinds : (x = "RNR" => d.todo # {}) /\ (x = "REJ" => d.missed)} :
             o = Outcome([d EXCEPT !.missed = FALSE], <<SFrame(k, d.vr, TRUE)>>)
    BY <1>3 DEF Invited
  <2>2. SFrame(k, d.vr, TRUE) \in Frame /\ k # "REJ" /\ k # IKind
    BY <2>1, FrameTypes, DeviceFields DEF Orderly, SKinds, IKind
  <2>3. Welcome(SFrame(k, d.vr, TRUE), d.vs)
    BY <2>2 DEF Welcome, SFrame
  <2>4. o.dev = [d EXCEPT !.missed = FALSE] /\ o.reply = <<SFrame(k, d.vr, TRUE)>>
    BY <2>1 DEF Outcome
  <2>5. Orderly(o.dev)
    BY <2>4 DEF Orderly, Device
  <2> QED BY <2>2, <2>3, <2>4, <2>5
<1> QED BY <1>1, <1>2, <1>3

\* A frame with the numbers the device expects is neither rejected nor answered
\* with anything but what the primary expects.
LEMMA OrderlyResponds ==
  ASSUME NEW d \in Device, d.strict, Orderly(d), NEW f, Writable(f), NEW n \in SeqNo, f.nr = n,
         d.conn => d.vs = n \/ (d.sent # None /\ Succ(d.vs) = n),
         f.kind = IKind /\ d.conn => f.ns = d.vr, NEW o \in Respond(d, f)
  PROVE  /\ Orderly(o.dev) /\ Alone(o.reply, n)
         /\ f.kind # IKind /\ ~f.poll => o.reply = <<>>
<1> DEFINE a == Acked(d, n)
<1>0. f \in Frame /\ (f.kind = IKind => f.pl \in Request)
  BY DEF Writable
<1>1. CASE ~d.conn
  <2>1. (o = Outcome(d, <<UFrame("DM")>>) /\ f.poll) \/ o \in Silent(d)
    BY <1>1 DEF Respond
  <2>2. UFrame("DM") \in Frame /\ Welcome(UFrame("DM"), n)
    BY FrameTypes DEF UKinds, UFrame, IKind, Welcome
  <2>3. f.kind = IKind => f.poll
    BY <1>0 DEF Frame, IKind, SKinds, UKinds
  <2> QED BY <2>1, <2>2, <2>3 DEF Outcome, Silent, Alone
<1>2. CASE d.conn
  <2>1. ValidNr(d, f.nr)
    BY <1>2 DEF ValidNr
  <2>2. /\ a \in Device /\ a.strict = d.strict /\ a.vr = d.vr /\ a.vs = n /\ Orderly(a)
    <3>1. a \in Device /\ a.strict = d.strict /\ a.vr = d.vr
      BY AckedFields, AckedType
    <3>2. a.vs = n
      BY <1>2, AckedFields, SuccSeqNo
    <3>3. Orderly(a)
      BY DEF Orderly, Acked, Device
    <3> QED BY <3>1, <3>2, <3>3
  <2> HIDE DEF a
  <2>3. CASE o \in Silent(a) /\ f.kind # IKind
    BY <2>2, <2>3 DEF Silent, Outcome, Alone
  <2>4. CASE o \in Invited(a) /\ (f.kind = IKind \/ f.poll)
    BY <2>2, <2>4, OrderlyInvited DEF Alone
  <2>5. CASE f.kind = IKind /\ o \in Accepts(a, f)
    <3> DEFINE T == {[Taken(a, f) EXCEPT !.out = Append(@, f.pl)],
                     [Taken(a, f) EXCEPT !.todo = @ \cup {f.pl}]}
    <3>1. PICK t \in T : o \in Invited(t)
      BY <2>5 DEF Accepts
    <3>0. f.pl \in Request
      BY <1>0, <2>5
    <3>2. t \in Device
      BY <1>0, <2>2, <3>0, TakenType
    <3>4. t.vs = n
      <4>1. CASE t = [Taken(a, f) EXCEPT !.out = Append(@, f.pl)]
        BY <2>2, <4>1 DEF Taken, Device
      <4>2. CASE t = [Taken(a, f) EXCEPT !.todo = @ \cup {f.pl}]
        BY <2>2, <4>2 DEF Taken, Device
      <4> QED BY <4>1, <4>2
    <3>3. Orderly(t)
      <4>1. a.out \in Seq(Request) /\ Append(a.out, f.pl) \in Seq(Request)
        BY <1>0, <2>2, <2>5 DEF Orderly
      <4> QED BY <2>2, <4>1 DEF Orderly, Taken, Device
    <3> QED BY <2>5, <3>1, <3>2, <3>3, <3>4, OrderlyInvited DEF Alone
  <2>6. f.kind = IKind => f.ns = a.vr
    BY <1>2, <2>2
  <2> QED BY <1>2, <2>1, <2>3, <2>4, <2>5, <2>6 DEF Respond, HeardI, HeardS, a
<1> QED BY <1>1, <1>2


\* Any device, and any frame: no alarm is raised by it, and only a device that
\* enforces N(S) and N(R) rejects.
Unmoved(d, e) == e.strict = d.strict /\ e.raised = d.raised /\ (d.strict \/ e.frmr = d.frmr)

LEMMA InvitedUnmoved ==
  ASSUME NEW d \in Device, NEW o \in Invited(d)
  PROVE  Unmoved(d, o.dev)
<1>1. o.dev \in {d, [d EXCEPT !.missed = FALSE],
                 [d EXCEPT !.sent = Head(d.out), !.out = Tail(d.out), !.missed = FALSE]}
  <2>1. CASE d.sent # None
    BY <2>1 DEF Invited, Outcome
  <2>2. CASE d.sent = None /\ d.out # <<>>
    BY <2>2 DEF Invited, Outcome
  <2>3. CASE d.sent = None /\ d.out = <<>>
    <3>1. PICK k \in SKinds : o = Outcome([d EXCEPT !.missed = FALSE], <<SFrame(k, d.vr, TRUE)>>)
      BY <2>3 DEF Invited
    <3> QED BY <3>1 DEF Outcome
  <2> QED BY <2>1, <2>2, <2>3
<1> QED BY <1>1 DEF Unmoved, Device

LEMMA RespondUnmoved ==
  ASSUME NEW d \in Device, NEW f, Writable(f), NEW o \in Respond(d, f)
  PROVE  Unmoved(d, o.dev)
<1> DEFINE a == Acked(d, f.nr)
<1>0. f \in Frame /\ f.nr \in SeqNo /\ (f.kind = IKind => f.pl \in Request)
  BY FrameFields DEF Writable
<1>1. a \in Device /\ Unmoved(d, a)
  <2>1. a \in Device
    BY <1>0, AckedType
  <2>2. Unmoved(d, a)
    BY DEF Acked, Unmoved, Device
  <2> QED BY <2>1, <2>2
<1> HIDE DEF a
<1>2. CASE o.dev = d \/ o.dev = a
  BY <1>1, <1>2 DEF Unmoved
<1>3. CASE o \in Invited(a)
  BY <1>1, <1>3, InvitedUnmoved DEF Unmoved
<1>4. ASSUME NEW x \in Device, Unmoved(d, x), x.strict, o \in Rejects(x) PROVE Unmoved(d, o.dev)
  <2>1. o.dev = [x EXCEPT !.conn = FALSE, !.frmr = TRUE]
    BY <1>4 DEF Rejects, Outcome
  <2>2. o.dev.strict = x.strict /\ o.dev.raised = x.raised
    BY <1>4, <2>1 DEF Device
  <2> QED BY <1>4, <2>2 DEF Unmoved
<1>5. CASE f.kind = IKind /\ o \in Accepts(a, f)
  <2> DEFINE T == {[Taken(a, f) EXCEPT !.out = Append(@, f.pl)],
                   [Taken(a, f) EXCEPT !.todo = @ \cup {f.pl}]}
  <2>1. PICK t \in T : o \in Invited(t)
    BY <1>5 DEF Accepts
  <2>2. f.pl \in Request
    BY <1>0, <1>5
  <2>3. t \in Device
    BY <1>0, <1>1, <2>2, TakenType
  <2>4. Unmoved(a, t)
    BY <1>1 DEF Taken, Unmoved, Device
  <2> QED BY <1>1, <2>1, <2>3, <2>4, InvitedUnmoved DEF Unmoved
<1>6. Unmoved(d, d) /\ d.strict \in BOOLEAN /\ a.strict \in BOOLEAN
  BY <1>1, DeviceFields DEF Unmoved
<1>7. \/ o.dev = d \/ o.dev = a \/ o \in Invited(a) \/ (f.kind = IKind /\ o \in Accepts(a, f))
      \/ (d.strict /\ o \in Rejects(d)) \/ (a.strict /\ o \in Rejects(a))
  BY <1>6 DEF Respond, HeardI, HeardS, Silent, Outcome, a
<1> QED BY <1>1, <1>2, <1>3, <1>4, <1>5, <1>6, <1>7

\* All that can happen to the device in a step.
LEMMA DeviceChanges ==
  ASSUME TypeOK, TypeOK', [Next]_vars
  PROVE  \/ dev' \in {dev, Snrm(dev), Disc(dev)}
         \/ \E f : Writable(f) /\ Write(f)
         \/ DeviceStep
<1> USE DEF peer, locals, ghosts
<1>0. /\ \A n \in SeqNo, b \in BOOLEAN : Writable(SFrame("RR", n, b))
      /\ vr \in SeqNo /\ vr' \in SeqNo
  BY AckWritable DEF TypeOK
<1>1. CASE Caller
  <2>1. ASSUME NEW p \in Procs, Start(p) PROVE \E f : Writable(f) /\ Write(f)
    BY <2>1 DEF Start, TypeOK, CommandOK, InExchange, Writable
  <2> QED BY <1>0, <1>1, <2>1 DEF Caller, Connect, Release, Keepalive, RR
<1>2. CASE ExchangeStep
  <2>1. CASE UNCHANGED dev
    BY <2>1
  <2>2. CASE InExchange /\ Write(iframe)
    BY <2>2, CommandPresent DEF InExchange
  <2>3. \/ UNCHANGED dev \/ (InExchange /\ Write(iframe)) \/ Write(RR(TRUE))
        \/ Write(SFrame("RR", vr', FALSE)) \/ Write(SFrame("RR", vr', TRUE))
    BY <1>2 DEF ExchangeStep, Read, HandleReset, HandleRR, HandleRej, HandleDuplicate,
                HandleResponse, HandleIndication, HandleUnexpected, Handling, Resend, Expire,
                Poll, Decide, InExchange
  <2> QED BY <1>0, <2>1, <2>2, <2>3 DEF RR
<1>3. CASE DrainStep \/ KeepaliveStep
  BY <1>0, <1>3 DEF DrainStep, DrainRead, DrainFrame, DrainNext, KeepaliveStep, KeepaliveRead,
                    KeepaliveFrame, KeepaliveDone
<1>4. CASE UNCHANGED vars
  BY <1>4 DEF vars
<1> QED BY <1>1, <1>2, <1>3, <1>4 DEF Next

LEMMA WriteUnmoved ==
  ASSUME dev \in Device, NEW f, Writable(f), Write(f)
  PROVE  Unmoved(dev, dev')
<1>1. CASE Delivered(f)
  BY <1>1, RespondUnmoved DEF Delivered
<1>2. CASE LostOut(f)
  BY <1>2 DEF LostOut, Garbled, Device, Unmoved
<1>3. CASE LostBack(f)
  BY <1>3, RespondUnmoved DEF LostBack
<1> QED BY <1>1, <1>2, <1>3 DEF Write

\* Alarms are not taken back, and a lenient device never rejects.
LEMMA DeviceGoesOn ==
  ASSUME TypeOK, TypeOK', [Next]_vars
  PROVE  /\ dev'.strict = dev.strict /\ (dev'.raised = 0 => dev.raised = 0)
         /\ dev'.frmr => dev.strict \/ dev.frmr
<1>0. dev \in Device /\ dev.raised \in Nat
  <2>1. dev \in Device
    BY DEF TypeOK
  <2> QED BY <2>1, BoundsAssumption DEF Device
<1>1. CASE dev' \in {dev, Snrm(dev), Disc(dev)}
  BY <1>0, <1>1 DEF Snrm, Disc, Unlinked, Device
<1>2. ASSUME NEW f, Writable(f), Write(f)
      PROVE  /\ dev'.strict = dev.strict /\ (dev'.raised = 0 => dev.raised = 0)
             /\ dev'.frmr => dev.strict \/ dev.frmr
  BY <1>0, <1>2, WriteUnmoved DEF Unmoved
<1>3. CASE DeviceStep
  <2>1. CASE DevFinish
    BY <1>0, <2>1 DEF DevFinish, Finished, Device
  <2>2. CASE DevAlarm
    BY <1>0, <2>2 DEF DevAlarm, AlarmRaised, Device
  <2>3. CASE DevRestart
    BY <1>0, <2>3 DEF DevRestart, Restarted, Disc, Unlinked, Device
  <2> QED BY <1>3, <2>1, <2>2, <2>3 DEF DeviceStep
<1> QED BY <1>1, <1>2, <1>3, DeviceChanges

-------------------------------------------------------------------------------
\* What is written to an empty line leaves one welcome frame on it, or none; and
\* if the device has the command then, the frame says so.
LEMMA CalmWrites ==
  ASSUME ~SaysRej, TypeOK, TypeOK', dev.strict, Orderly(dev), wire = <<>>, batch' = <<>>,
         Numbered(vr', <<>>, dev), NEW f, Writable(f), f.nr = vr',
         f.kind = IKind /\ dev.conn => f.ns = dev.vr, Write(f)
  PROVE  /\ Orderly(dev') /\ Alone(Line', vr')
         /\ f.kind # IKind /\ ~f.poll => wire' = <<>>
         /\ \A m \in SeqNo : (dev'.conn => dev'.vr = Succ(m)) => Bears(Line', Succ(m))
<1>0. /\ dev \in Device /\ vr' \in SeqNo /\ wire' \in Seq(Frame) /\ Line' = wire'
      /\ <<>> \in Seq(Frame) /\ \A r \in Seq(Frame) : <<>> \o r = r
  BY ConcatEmptySeq DEF TypeOK, Line
<1>1. dev.conn => dev.vs = vr' \/ (dev.sent # None /\ Succ(dev.vs) = vr')
  BY DEF Numbered
<1>2. ASSUME NEW o \in Respond(dev, f)
      PROVE  /\ Orderly(o.dev) /\ Alone(o.reply, vr') /\ o.reply \in Seq(Frame)
             /\ f.kind # IKind /\ ~f.poll => o.reply = <<>>
  <2>1. o.reply \in Seq(Frame)
    BY <1>0, RespondType DEF Writable
  <2> QED BY <1>0, <1>1, <1>2, <2>1, OrderlyResponds
<1>3. /\ Orderly(dev') /\ Alone(wire', vr')
      /\ f.kind # IKind /\ ~f.poll => wire' = <<>>
  <2>1. CASE Delivered(f)
    BY <1>0, <1>2, <2>1 DEF Delivered
  <2>2. CASE LostOut(f)
    BY <1>0, <2>2 DEF LostOut, Noise, Garbled, Orderly, Alone, Device
  <2>3. CASE LostBack(f)
    BY <1>2, <2>3 DEF LostBack, Noise, Alone
  <2> QED BY <2>1, <2>2, <2>3 DEF Write
<1>4. PICK r \in Seq(Frame) : Says(r, dev') /\ wire' = wire \o r
  <2>1. Fits(vr', f)
    BY <1>0, SuccSeqNo DEF Fits
  <2>2. Written(vr', f, <<>>)
    BY <1>0, <2>1, WriteReacts DEF TypeOK
  <2> QED BY <2>2 DEF Written
<1>5. ASSUME NEW m \in SeqNo, dev'.conn => dev'.vr = Succ(m) PROVE Bears(Line', Succ(m))
  <2>1. Line' = r
    BY <1>0, <1>4
  <2> QED BY <1>4, <1>5, <2>1, SaysNumbers DEF Bears
<1> QED BY <1>0, <1>3, <1>5

\* The one frame in hand is all there is.
LEMMA Sole ==
  ASSUME TypeOK, Undisturbed, batch # <<>>, wire = <<>>
  PROVE  /\ Line = <<Head(batch)>> /\ Tail(batch) = <<>> /\ ToSet(Line) = {Head(batch)}
         /\ Head(batch) \in Frame /\ Welcome(Head(batch), vr)
<1>1. Line = batch
  BY ConcatEmptySeq DEF TypeOK, Line
<1>2. PICK g \in Frame : batch = <<g>> /\ Welcome(g, vr)
  BY <1>1 DEF Undisturbed, Alone
<1>3. Head(<<g>>) = g /\ Tail(<<g>>) = <<>> /\ ToSet(<<g>>) = {g}
  BY DEF ToSet
<1> QED BY <1>1, <1>2, <1>3

\* A read takes all there is, since nothing comes later.
LEMMA CalmReads ==
  ASSUME ~Late, TypeOK, Undisturbed, batch = <<>>, NEW k \in 0 .. Len(wire), TakeFrom(k),
         k = 0 => CanBeSilent
  PROVE  Line' = Line /\ wire' = <<>>
<1>0. wire \in Seq(Frame) /\ Line = wire
  BY ConcatEmptySeq DEF TypeOK, Line
<1>1. Line' = Line
  BY <1>0, TakenLine
<1>2. k = Len(wire)
  <2>1. CASE wire = <<>>
    BY <2>1
  <2>2. CASE wire # <<>>
    <3>1. PICK g \in Frame : wire = <<g>>
      BY <1>0, <2>2 DEF Undisturbed, Alone
    <3>2. Len(wire) = 1
      BY <3>1
    <3> QED BY <2>2, <3>2 DEF CanBeSilent
  <2> QED BY <2>1, <2>2
<1>3. SubSeq(wire, Len(wire) + 1, Len(wire)) = <<>>
  BY <1>0, SubSeqEmpty
<1> QED BY <1>1, <1>2, <1>3 DEF TakeFrom

\* Outside of an exchange.
LEMMA CalmCaller ==
  ASSUME ~SaysRej, TypeOK, TypeOK', Emptied, NumberedInv, CommandInv, CommandInv', Undisturbed,
         Calm, Calm', Caller
  PROVE  Undisturbed'
<1> USE DEF peer, locals, ghosts
<1>0. /\ batch = <<>> /\ batch' = <<>> /\ Line' = wire' /\ dev.strict /\ ~abandoned'
      /\ dev'.strict /\ Orderly(dev)
  <2>1. batch = <<>> /\ batch' = <<>>
    BY DEF Emptied, Caller, Connect, Release, Keepalive, Start
  <2> QED BY <2>1, ConcatEmptySeq DEF Calm, Undisturbed, Line, TypeOK
<1>1. CASE Connect \/ Release
  <2>1. dev' \in {dev, Snrm(dev), Disc(dev)} /\ wire' = <<>> /\ ~InExchange'
    BY <1>1 DEF Connect, Linked, Release, InExchange
  <2>2. Orderly(dev')
    <3>1. <<>> \in Seq(Request) /\ dev \in Device
      BY DEF TypeOK
    <3> QED BY <1>0, <2>1, <3>1 DEF Snrm, Disc, Unlinked, Orderly, Device
  <2> QED BY <1>0, <2>1, <2>2 DEF Undisturbed, Alone
<1>2. CASE Keepalive \/ \E p \in Procs : Start(p)
  <2>1. /\ pc = "idle" /\ OnLink /\ ~InExchange /\ vr' = vr /\ vr \in SeqNo
        /\ pc' \in {"reading", "polling"}
    BY <1>2 DEF Keepalive, Start, OnLink, InExchange, TypeOK
  <2>2. wire = <<>> /\ Line = <<>>
    BY <1>0, <2>1, ConcatEmptySeq DEF Undisturbed, Line
  <2>3. Numbered(vr', <<>>, dev) /\ Between(vs, vr, Line, dev)
    BY <1>0, <2>1, <2>2 DEF NumberedInv, CommandInv, Calm
  <2>4. CASE Keepalive
    <3>1. /\ Write(RR(TRUE)) /\ ~InExchange' /\ Writable(RR(TRUE)) /\ RR(TRUE).nr = vr'
          /\ RR(TRUE).kind # IKind
      BY <2>1, <2>4, AckWritable DEF Keepalive, RR, SFrame, IKind, InExchange
    <3>2. Orderly(dev') /\ Alone(Line', vr')
      BY <1>0, <2>2, <2>3, <3>1, CalmWrites
    <3> QED BY <2>1, <3>1, <3>2 DEF Undisturbed
  <2>5. ASSUME NEW p \in Procs, Start(p) PROVE Undisturbed'
    <3>1. /\ Write(iframe') /\ Writable(iframe') /\ iframe'.nr = vr' /\ iframe'.ns = vs
          /\ InExchange' /\ OnLink' /\ missing' = FALSE /\ sentNs' = vs /\ vs \in SeqNo
      BY <2>1, <2>5 DEF Start, IFrame, InExchange, OnLink, sentNs, Writable, TypeOK, CommandOK
    <3>2. /\ Orderly(dev') /\ Alone(Line', vr')
          /\ \A m \in SeqNo : (dev'.conn => dev'.vr = Succ(m)) => Bears(Line', Succ(m))
      BY <1>0, <2>2, <2>3, <3>1, CalmWrites DEF Between
    <3>3. dev'.execs[req'.id] > 0 => (dev'.conn => dev'.vr = Succ(sentNs'))
      BY <1>0, <3>1 DEF CommandInv, Standing, During
    <3> QED BY <2>1, <3>1, <3>2, <3>3 DEF Undisturbed
  <2> QED BY <1>2, <2>4, <2>5
<1> QED BY <1>1, <1>2 DEF Caller

\* A frame is handled: the line is empty, or holds that frame alone.
LEMMA CalmHandles ==
  ASSUME ~SaysRej, TypeOK, TypeOK', Emptied, NumberedInv, CommandInv, Undisturbed,
         Calm, Calm', ExchangeStep, pc = "frames", batch # <<>>
  PROVE  Undisturbed'
<1> USE DEF peer, locals, ghosts
<1> DEFINE h == Head(batch)
<1>0. /\ OnLink /\ InExchange /\ wire = <<>> /\ vr \in SeqNo /\ dev.strict /\ ~abandoned
      /\ Orderly(dev) /\ Alone(<<>>, vr')
  BY DEF OnLink, InExchange, Undisturbed, Calm, TypeOK, Alone
<1>1. /\ Line = <<h>> /\ Tail(batch) = <<>> /\ ToSet(Line) = {h}
      /\ h \in Frame /\ Welcome(h, vr)
  BY <1>0, Sole
<1>2. Standing(req, sentNs, vr, Line, dev, acked)
  BY <1>0 DEF CommandInv
<1>3. batch' = <<>> => Line' = wire'
  BY ConcatEmptySeq DEF TypeOK, Line
<1>4. \A m : Bears(<<>>, m)
  BY EmptySet DEF Bears
<1>5. CASE HandleReset
  <2>1. batch' = <<>> /\ UNCHANGED <<wire, dev>> /\ ~InExchange'
    BY <1>5 DEF HandleReset, InExchange
  <2> QED BY <1>0, <1>3, <2>1 DEF Undisturbed
<1>6. CASE HandleRR
  <2>1. /\ batch' = <<>> /\ UNCHANGED <<vr, wire, dev, req, iframe>> /\ sentNs' = sentNs
        /\ missing' = (missing \/ h.nr = sentNs) /\ h.kind \notin UKinds
    BY <1>1, <1>6 DEF HandleRR, Handling, AfterHead, NoteNr, Asks, sentNs, UKinds
  <2>2. /\ iframe.nr = vr
        /\ dev.execs[req.id] > 0 => ~missing /\ Bears(Line, Succ(sentNs))
    BY <1>0 DEF Undisturbed
  <2>3. sentNs \in SeqNo
    BY <1>0, CommandPresent DEF InExchange, sentNs
  <2>4. dev.execs[req.id] > 0 => ~missing'
    BY <1>1, <2>1, <2>2, <2>3, SuccSeqNo DEF Bears
  <2> QED BY <1>0, <1>3, <1>4, <2>1, <2>2, <2>4 DEF Undisturbed
<1>7. CASE HandleRej
  BY <1>1, <1>7 DEF HandleRej, Handling, Welcome
<1>8. CASE HandleDuplicate
  BY <1>1, <1>8 DEF HandleDuplicate, Handling, Welcome
<1>9. CASE HandleIndication \/ HandleUnexpected
  <2>1. /\ h.kind = IKind /\ h.ns = vr /\ Verdict(h.pl) # "accept"
    BY <1>9 DEF HandleIndication, HandleUnexpected, HandleNew, Handling
  <2>2. h.pl \in Request /\ h \in New(vr)
    BY <1>1, <2>1 DEF Welcome, New
  <2>3. h.pl.proc # Alarm
    BY <2>2, ProcsAssumption DEF Request
  <2>4. h.pl = req
    BY <1>1, <1>2, <2>2, <2>3 DEF Standing, During, Between
  <2> QED BY <2>1, <2>3, <2>4 DEF Verdict
<1>10. CASE HandleResponse
  <2> DEFINE f == SFrame("RR", vr', FALSE)
  <2>1. /\ h.kind = IKind /\ h.ns = vr /\ vr' = Succ(vr) /\ batch' = <<>> /\ ~InExchange'
        /\ Write(f) /\ vr' \in SeqNo
    BY <1>10 DEF HandleResponse, HandleNew, Handling, InExchange, TypeOK
  <2>2. Writable(f) /\ f.nr = vr' /\ f.kind # IKind /\ ~f.poll
    BY <2>1, AckWritable DEF SFrame, IKind
  <2>3. Numbered(vr', <<>>, dev)
    <3>1. <<>> \o <<>> = <<>>
      BY ConcatEmptySeq
    <3>2. Numbered(Succ(vr), Tail(batch) \o wire, dev)
      BY <1>0, <2>1, HeadIsNew
    <3> QED BY <1>0, <1>1, <2>1, <3>1, <3>2
  <2> HIDE DEF f
  <2>4. Orderly(dev') /\ Alone(Line', vr') /\ wire' = <<>>
    BY <1>0, <2>1, <2>2, <2>3, CalmWrites
  <2> QED BY <2>1, <2>4 DEF Undisturbed
<1> QED BY <1>0, <1>5, <1>6, <1>7, <1>8, <1>9, <1>10
        DEF ExchangeStep, Read, Resend, Expire, Poll, Decide

\* The batch is empty: the command is written again only while the device has
\* not taken it.
LEMMA CalmExchange ==
  ASSUME ~Late, ~SaysRej, TypeOK, TypeOK', Emptied, NumberedInv, CommandInv, CommandInv',
         Undisturbed, Calm, Calm', ExchangeStep
  PROVE  Undisturbed'
<1> USE DEF peer, locals, ghosts
<1>1. CASE Read
  <2>1. /\ batch = <<>> /\ InExchange /\ pc' = "frames"
        /\ UNCHANGED <<vr, dev, req, iframe, missing>> /\ sentNs' = sentNs
    BY <1>1 DEF Read, Emptied, InExchange, sentNs
  <2>2. Line' = Line /\ wire' = <<>>
    <3>1. wire \in Seq(Frame)
      BY DEF TypeOK
    <3>2. CASE CanBeSilent /\ TakeFrom(0)
      BY <2>1, <3>1, <3>2, CalmReads
    <3>3. CASE \E k \in 1 .. Len(wire) : TakeFrom(k)
      <4>1. PICK k \in 1 .. Len(wire) : TakeFrom(k)
        BY <3>3
      <4>2. k \in 0 .. Len(wire) /\ k # 0
        BY <3>1, <4>1
      <4> QED BY <2>1, <4>1, <4>2, CalmReads
    <3> QED BY <1>1, <3>2, <3>3 DEF Read, ReadFrames
  <2> QED BY <2>1, <2>2 DEF Undisturbed
<1>2. CASE pc = "frames" /\ batch # <<>>
  BY <1>2, CalmHandles
<1>3. CASE Resend \/ Poll
  <2>1. /\ pc = "frames" /\ batch = <<>> /\ batch' = <<>> /\ pc' = "reading" /\ vr' = vr
        /\ UNCHANGED <<req, iframe>> /\ sentNs' = sentNs
    BY <1>3 DEF Resend, Poll, Decide, sentNs
  <2>2. /\ InExchange /\ InExchange' /\ OnLink /\ OnLink' /\ wire = <<>> /\ Line = <<>>
        /\ dev.strict /\ dev'.strict /\ ~abandoned /\ ~abandoned' /\ Orderly(dev)
    BY <2>1, ConcatEmptySeq DEF InExchange, OnLink, Undisturbed, Calm, Line
  <2>3. /\ Standing(req, sentNs, vr, Line, dev, acked) /\ Numbered(vr', <<>>, dev)
        /\ Standing(req, sentNs, vr', Line', dev', acked')
    BY <2>1, <2>2 DEF CommandInv, NumberedInv
  <2>4. /\ iframe.nr = vr /\ iframe.kind = IKind /\ iframe.ns = sentNs /\ Writable(iframe)
        /\ sentNs \in SeqNo
        /\ dev.execs[req.id] > 0 => ~missing
    BY <2>1, <2>2, CommandPresent DEF Undisturbed, InExchange, sentNs
  <2>5. dev'.execs[req.id] > 0 => (dev'.conn => dev'.vr = Succ(sentNs))
    BY <2>3 DEF Standing, During
  <2>6. CASE Resend
    <3>1. Write(iframe) /\ missing /\ missing' = FALSE
      BY <2>6 DEF Resend, ResendGuard
    <3>2. dev.conn => dev.vr = sentNs
      BY <2>3, <2>4, <3>1 DEF Standing, Between
    <3>3. /\ Orderly(dev') /\ Alone(Line', vr')
          /\ \A m \in SeqNo : (dev'.conn => dev'.vr = Succ(m)) => Bears(Line', Succ(m))
      BY <2>1, <2>2, <2>3, <2>4, <3>1, <3>2, CalmWrites
    <3> QED BY <2>1, <2>4, <2>5, <3>1, <3>3 DEF Undisturbed
  <2>7. CASE Poll
    <3>1. /\ Write(RR(TRUE)) /\ missing' = missing /\ vr \in SeqNo
          /\ Writable(RR(TRUE)) /\ RR(TRUE).nr = vr' /\ RR(TRUE).kind # IKind
      BY <2>1, <2>7, AckWritable DEF Poll, RR, SFrame, IKind, TypeOK
    <3>2. dev'.execs = dev.execs
      BY <3>1, AckWrites DEF RR
    <3>3. /\ Orderly(dev') /\ Alone(Line', vr')
          /\ \A m \in SeqNo : (dev'.conn => dev'.vr = Succ(m)) => Bears(Line', Succ(m))
      BY <2>1, <2>2, <2>3, <3>1, CalmWrites
    <3> QED BY <2>1, <2>4, <2>5, <3>1, <3>2, <3>3 DEF Undisturbed
  <2> QED BY <1>3, <2>6, <2>7
<1>4. CASE Expire
  BY <1>4 DEF Expire, Calm
<1> QED BY <1>1, <1>2, <1>3, <1>4
        DEF ExchangeStep, HandleReset, HandleRR, HandleRej, HandleDuplicate, HandleResponse,
            HandleIndication, HandleUnexpected, HandleNew, Handling

LEMMA CalmKeepalive ==
  ASSUME ~Late, TypeOK, TypeOK', Emptied, CommandInv, Undisturbed, Calm, KeepaliveStep
  PROVE  Undisturbed'
<1> USE DEF peer, locals, ghosts
<1>0. OnLink /\ ~InExchange /\ ~InExchange'
  BY DEF KeepaliveStep, KeepaliveRead, KeepaliveFrame, KeepaliveDone, OnLink, InExchange
<1>1. CASE KeepaliveRead
  <2>1. batch = <<>> /\ UNCHANGED <<vr, dev>> /\ wire \in Seq(Frame)
    BY <1>1 DEF KeepaliveRead, Emptied, TypeOK
  <2>2. Line' = Line /\ wire' = <<>>
    <3>1. CASE CanBeSilent /\ TakeFrom(0)
      BY <2>1, <3>1, CalmReads
    <3>2. CASE \E k \in 1 .. Len(wire) : TakeFrom(k)
      <4>1. PICK k \in 1 .. Len(wire) : TakeFrom(k)
        BY <3>2
      <4>2. k \in 0 .. Len(wire) /\ k # 0
        BY <2>1, <4>1
      <4> QED BY <2>1, <4>1, <4>2, CalmReads
    <3> QED BY <1>1, <3>1, <3>2 DEF KeepaliveRead
  <2> QED BY <1>0, <2>1, <2>2 DEF Undisturbed
<1>2. CASE KeepaliveFrame
  <2> DEFINE h == Head(batch)
  <2>1. /\ pc = "pollFrames" /\ batch # <<>> /\ wire = <<>>
    BY <1>2 DEF KeepaliveFrame, Undisturbed
  <2>2. /\ Line = <<h>> /\ Tail(batch) = <<>> /\ ToSet(Line) = {h}
        /\ h \in Frame /\ Welcome(h, vr)
    BY <2>1, Sole
  <2>3. Between(vs, vr, Line, dev)
    BY <1>0 DEF CommandInv, Calm
  <2>4. h.kind # IKind
    <3> SUFFICES ASSUME h.kind = IKind PROVE FALSE
      OBVIOUS
    <3>1. h \in New(vr) /\ h.pl \in Request
      BY <2>2 DEF Welcome, New
    <3>2. h.pl.proc = Alarm
      BY <2>2, <2>3, <3>1 DEF Between
    <3> QED BY <3>1, <3>2, ProcsAssumption DEF Request
  <2>5. batch' = <<>> /\ UNCHANGED <<vr, dev, wire>>
    BY <1>2, <2>2, <2>4 DEF KeepaliveFrame, AfterHead
  <2>6. Line' = <<>>
    BY <2>1, <2>5, ConcatEmptySeq DEF Line
  <2> QED BY <1>0, <2>1, <2>5, <2>6 DEF Undisturbed, Alone
<1>3. CASE KeepaliveDone
  BY <1>0, <1>3 DEF KeepaliveDone, Undisturbed, Line
<1> QED BY <1>1, <1>2, <1>3 DEF KeepaliveStep

LEMMA CalmDevice ==
  ASSUME TypeOK, Undisturbed, Calm', DeviceStep
  PROVE  Undisturbed'
<1> USE DEF peer, locals, ghosts
<1>0. dev \in Device /\ dev.raised \in Nat /\ Line' = Line /\ dev'.execs = dev.execs
  <2>1. dev \in Device
    BY DEF TypeOK
  <2> QED BY <2>1, OwnFields, BoundsAssumption DEF Device
<1>1. UNCHANGED <<pc, vr, wire, req, iframe, missing>> /\ sentNs' = sentNs /\ InExchange' = InExchange
  BY DEF DeviceStep, DevFinish, DevAlarm, DevRestart, sentNs, InExchange
<1>2. Orderly(dev')
  <2>0. Orderly(dev)
    BY DEF Undisturbed
  <2>1. CASE DevFinish
    <3>1. PICK r \in dev.todo : dev' = Finished(dev, r)
      BY <2>1 DEF DevFinish
    <3>2. r \in Request /\ Append(dev.out, r) \in Seq(Request)
      BY <1>0, <2>0, <3>1 DEF Device, Orderly
    <3> QED BY <1>0, <2>0, <3>1, <3>2 DEF Finished, Orderly, Device
  <2>2. CASE DevAlarm
    BY <1>0, <2>2 DEF DevAlarm, AlarmRaised, Calm, Device
  <2>3. CASE DevRestart
    BY <1>0, <2>3 DEF DevRestart, Restarted, Disc, Unlinked, Orderly, Device
  <2> QED BY <2>1, <2>2, <2>3 DEF DeviceStep
<1> QED BY <1>0, <1>1, <1>2 DEF Undisturbed

LEMMA CalmStep ==
  ASSUME ~Late, ~SaysRej
  PROVE  TypeOK /\ TypeOK' /\ Emptied /\ VsAdvancesOnce /\ ExecsInv /\ CalmInv /\ [Next]_vars
           => CalmInv'
<1> SUFFICES ASSUME TypeOK, TypeOK', Emptied, VsAdvancesOnce, ExecsInv, CalmInv, [Next]_vars
             PROVE  CalmInv'
  OBVIOUS
<1>1. dev'.frmr => dev'.strict
  BY DeviceGoesOn DEF CalmInv
<1>2. ASSUME Calm' PROVE NumberedInv' /\ CommandInv' /\ Undisturbed'
  <2>1. dev.strict /\ dev.raised = 0
    BY <1>2, DeviceGoesOn DEF Calm
  <2>2. CASE abandoned
    <3>1. Connect /\ Linked
      BY <1>2, <2>2 DEF Calm, Next, Caller, Connect, Release, Keepalive, Start, ExchangeStep, Read,
            HandleReset, HandleRR, HandleRej, HandleDuplicate, HandleResponse, HandleIndication,
            HandleUnexpected, Resend, Expire, Poll, DrainStep, DrainRead, DrainFrame, DrainNext,
            KeepaliveStep, KeepaliveRead, KeepaliveFrame, KeepaliveDone,
            DeviceStep, DevFinish, DevAlarm, DevRestart, vars, ghosts
    <3>2. ~OnLink /\ ~InExchange /\ batch = <<>> /\ batch' = <<>> /\ ~InExchange'
      BY <3>1 DEF Connect, Linked, OnLink, InExchange, Emptied
    <3>3. NumberedInv /\ CommandInv /\ NoWrap
      BY <3>2 DEF NumberedInv, CommandInv, NoWrap
    <3>4. NumberedInv' /\ CommandInv'
      BY <3>3, NumberedStep, CommandStep
    <3>5. dev' = Snrm(dev) /\ wire' = <<>> /\ Line' = <<>> /\ dev \in Device /\ <<>> \in Seq(Request)
      <4>1. dev' = Snrm(dev) /\ wire' = <<>>
        BY <1>2, <2>2, <3>1 DEF Connect, Calm
      <4>2. <<>> \o <<>> = <<>>
        BY ConcatEmptySeq
      <4> QED BY <3>2, <4>1, <4>2 DEF Line, TypeOK
    <3>6. Orderly(dev')
      BY <3>5 DEF Snrm, Unlinked, Orderly, Device
    <3> QED BY <3>2, <3>4, <3>5, <3>6 DEF Undisturbed, Alone
  <2>3. CASE ~abandoned
    <3>1. Calm /\ NumberedInv /\ CommandInv /\ Undisturbed
      BY <2>1, <2>3 DEF Calm, CalmInv
    <3>2. NoWrap
      BY <3>1, SuccSeqNo DEF NoWrap, Undisturbed, TypeOK
    <3>3. NumberedInv' /\ CommandInv'
      BY <3>1, <3>2, NumberedStep, CommandStep
    <3>4. Undisturbed'
      <4>1. CASE Caller
        BY <1>2, <3>1, <3>3, <4>1, CalmCaller
      <4>2. CASE ExchangeStep
        BY <1>2, <3>1, <3>3, <4>2, CalmExchange
      <4>3. CASE DrainStep
        BY <2>3, <4>3 DEF DrainStep, DrainRead, DrainFrame, DrainNext, Emptied
      <4>4. CASE KeepaliveStep
        BY <3>1, <4>4, CalmKeepalive
      <4>5. CASE DeviceStep
        BY <1>2, <3>1, <4>5, CalmDevice
      <4>6. CASE UNCHANGED vars
        BY <3>1, <4>6 DEF vars, peer, locals, Undisturbed, Line, InExchange, sentNs
      <4> QED BY <4>1, <4>2, <4>3, <4>4, <4>5, <4>6 DEF Next
    <3> QED BY <3>3, <3>4
  <2> QED BY <2>2, <2>3
<1> QED BY <1>1, <1>2 DEF CalmInv

\* resends happen only on an N(R) that asks, and so no frame earns an FRMR
\* (exchange, 475-478): for every device and every loss, until a request is given
\* up or an alarm raised, where answers are in time and no REJ is said.
THEOREM NeverRejected ==
  ASSUME ~Late, ~SaysRej
  PROVE  Spec => []NoFrameReject
<1>1. Init => CalmInv
  <2>1. Init => Orderly(dev) /\ wire = <<>> /\ Line = <<>> /\ ~InExchange /\ ~OnLink /\ ~dev.frmr
    <3>1. <<>> \in Seq(Request) /\ <<>> \o <<>> = <<>>
      BY ConcatEmptySeq
    <3> QED BY <3>1 DEF Init, FreshDevice, Orderly, Line, InExchange, OnLink
  <2> QED BY <2>1 DEF CalmInv, NumberedInv, CommandInv, Undisturbed, Alone
<1>2. Init => Emptied /\ VsAdvancesOnce /\ ExecsInv
  BY InitLink, InitExecs DEF Init, VsAdvancesOnce, InExchange
<1>3. TypeOK /\ Emptied /\ [Next]_vars => Emptied'
  BY EmptiedStep
<1>4. TypeOK /\ VsAdvancesOnce /\ [Next]_vars => VsAdvancesOnce'
  BY VsStep
<1>5. TypeOK /\ TypeOK' /\ ExecsInv /\ [Next]_vars => ExecsInv'
  BY ExecsStep
<1>6. TypeOK /\ TypeOK' /\ Emptied /\ VsAdvancesOnce /\ ExecsInv /\ CalmInv /\ [Next]_vars
        => CalmInv'
  BY CalmStep
<1>7. TypeOK /\ CalmInv => NoFrameReject
  <2>1. ASSUME TypeOK PROVE dev.raised \in Nat
    <3>1. dev \in Device
      BY <2>1 DEF TypeOK
    <3> QED BY <3>1, DeviceFields, BoundsAssumption
  <2>2. ASSUME CalmInv, dev.frmr, ~abandoned PROVE dev.raised # 0
    BY <2>2 DEF CalmInv, Calm, Undisturbed, Orderly
  <2> QED BY <2>1, <2>2 DEF NoFrameReject
<1> QED BY <1>1, <1>2, <1>3, <1>4, <1>5, <1>6, <1>7, TypeCorrect, PTL DEF Spec

-------------------------------------------------------------------------------
(***************************************************************************)
(* With fewer alarms than the modulus leaves numbers, an N(R) cannot come  *)
(* round while a command is exchanged: a device that enforces its numbers  *)
(* adds nothing but alarms to the line before it answers.  This takes the  *)
(* hypothesis on behaviours, []NoWrap, from the theorems above.            *)
(***************************************************************************)
Plus(n, k) == IF n + k < Modulus THEN n + k ELSE n + k - Modulus

\* Of the alarms heard on this link "last" is the youngest, and k were heard in
\* this call; each is younger than the one before it, so that k <= last.
CountedTo(last, k) ==
  /\ k <= last /\ last <= dev.raised
  /\ Younger(<<last>>, vr, Line, dev)
  /\ InExchange => vr = Plus(iframe.nr, k)

Counted == \E last, k \in Nat : CountedTo(last, k)

LEMMA PlusNumbers ==
  ASSUME NEW n \in SeqNo
  PROVE  /\ Plus(n, 0) = n
         /\ \A k \in Nat : k + 1 < Modulus => /\ Succ(Plus(n, k)) = Plus(n, k + 1)
                                              /\ Plus(n, k + 1) # n
<1>1. Modulus \in Nat /\ n \in Nat /\ n < Modulus /\ Modulus > 1
  BY ModulusAssumption DEF SeqNo
<1>2. ASSUME NEW m \in Nat, m < Modulus
      PROVE  Succ(m) = IF m + 1 < Modulus THEN m + 1 ELSE 0
  <2>1. CASE m + 1 < Modulus
    BY <1>1, <1>2, <2>1 DEF Succ
  <2>2. CASE m + 1 = Modulus
    BY <1>1, <1>2, <2>2 DEF Succ
  <2> QED BY <1>1, <1>2, <2>1, <2>2
<1>3. ASSUME NEW k \in Nat, k + 1 < Modulus
      PROVE  Succ(Plus(n, k)) = Plus(n, k + 1) /\ Plus(n, k + 1) # n
  <2>1. Plus(n, k) \in Nat /\ Plus(n, k) < Modulus
    BY <1>1, <1>3 DEF Plus
  <2>2. Succ(Plus(n, k)) = IF Plus(n, k) + 1 < Modulus THEN Plus(n, k) + 1 ELSE 0
    BY <1>2, <2>1
  <2> QED BY <1>1, <1>3, <2>2 DEF Plus
<1> QED BY <1>1, <1>3 DEF Plus

LEMMA FewNoWrap ==
  ASSUME MaxAlarm + 1 < Modulus, TypeOK, NEW last \in Nat, NEW k \in Nat, CountedTo(last, k)
  PROVE  NoWrap /\ k + 1 < Modulus
<1>1. dev.raised \in 0 .. MaxAlarm /\ MaxAlarm \in Nat /\ Modulus \in Nat
  BY BoundsAssumption, ModulusAssumption DEF TypeOK, Device
<1>2. k + 1 < Modulus
  BY <1>1 DEF CountedTo
<1>3. ASSUME InExchange PROVE Succ(vr) # iframe.nr
  <2>1. iframe.nr \in SeqNo
    BY <1>3, CommandPresent, FrameFields DEF InExchange
  <2> QED BY <1>2, <1>3, <2>1, PlusNumbers DEF CountedTo
<1> QED BY <1>2, <1>3 DEF NoWrap

\* Only the youngest alarm matters.
LEMMA OnlyYoungest ==
  ASSUME NEW last \in Nat, NEW a \in Nat, NEW n, NEW s, NEW d,
         InOrder(Append(<<last>>, a), d.raised), Younger(Append(<<last>>, a), n, s, d)
  PROVE  last < a /\ a <= d.raised /\ Younger(<<a>>, n, s, d)
<1> DEFINE w == Append(<<last>>, a)
<1>1. /\ Len(w) = 2 /\ DOMAIN w = 1 .. 2 /\ w[1] = last /\ w[2] = a
      /\ DOMAIN <<a>> = 1 .. 1 /\ <<a>>[1] = a
  OBVIOUS
<1>2. 1 \in 1 .. 2 /\ 2 \in 1 .. 2 /\ 1 < 2 /\ \A i \in 1 .. 1 : i = 1
  OBVIOUS
<1> HIDE DEF w
<1>3. last < a /\ a <= d.raised
  BY <1>1, <1>2 DEF InOrder, w
<1>4. \A x : (\A k \in DOMAIN w : w[k] < x) => \A k \in DOMAIN <<a>> : <<a>>[k] < x
  BY <1>1, <1>2
<1>5. Younger(w, n, s, d)
  BY DEF w
<1>6. d.conn => Ahead(<<a>>, Unseen(n, d), d.raised)
  BY <1>4, <1>5 DEF Younger, Ahead
<1>7. \A f \in ToSet(s) \cap New(n) :
        f.pl.proc = Alarm => f.pl.id <= d.raised /\ \A k \in DOMAIN <<a>> : <<a>>[k] < f.pl.id
  BY <1>4, <1>5 DEF Younger
<1> QED BY <1>3, <1>6, <1>7 DEF Younger

LEMMA CountMoves ==
  ASSUME MaxAlarm + 1 < Modulus, TypeOK, TypeOK', Counted, Moves,
         InExchange' => \/ ~InExchange /\ vr' = vr /\ iframe'.nr = vr
                        \/ InExchange /\ iframe' = iframe /\ (vr' = vr \/ reported' # reported)
  PROVE  Counted'
<1>1. PICK last \in Nat, k \in Nat : CountedTo(last, k)
  BY DEF Counted
<1>2. PICK f : \E t, r \in Seq(Frame) : Answered(t, r, f) /\ (Same \/ \E h : Advances(t, h))
  BY DEF Moves
<1>3. PICK t \in Seq(Frame), r \in Seq(Frame) : Answered(t, r, f) /\ (Same \/ \E h : Advances(t, h))
  BY <1>2
<1>4. dev'.raised = dev.raised /\ dev.raised \in Nat /\ vr \in SeqNo
  BY <1>3, MovesTypes
<1>5. <<last>> \in Seq(Nat) /\ InOrder(<<last>>, dev.raised) /\ Younger(<<last>>, vr, Line, dev)
  BY <1>1 DEF CountedTo, InOrder
<1>6. ASSUME vr' = vr PROVE Counted'
  <2>1. Younger(<<last>>, vr', Line', dev')
    BY <1>3, <1>5, <1>6, YoungerMoves
  <2>2. CASE InExchange' /\ ~InExchange
    <3>1. 0 <= last /\ vr' = Plus(iframe'.nr, 0)
      BY <1>4, <1>6, <2>2, PlusNumbers
    <3>2. CountedTo(last, 0)'
      BY <1>1, <1>4, <2>1, <3>1 DEF CountedTo
    <3> QED BY <3>2 DEF Counted
  <2>3. CASE ~InExchange' \/ InExchange
    <3>1. CountedTo(last, k)'
      BY <1>1, <1>4, <1>6, <2>1, <2>3 DEF CountedTo
    <3> QED BY <3>1 DEF Counted
  <2> QED BY <2>2, <2>3
<1>7. ASSUME NEW h, Advances(t, h) PROVE Counted'
  <2>1. /\ Counts(t, h) /\ vr' = Succ(vr) /\ vr' # vr /\ h \in New(vr)
        /\ \/ reported' = reported
           \/ reported' = Append(reported, h.pl.id) /\ h.pl.proc = Alarm
    BY <1>4, <1>7, SuccSeqNo DEF Advances, Counts
  <2>2. CASE reported' = reported
    <3>1. Younger(<<last>>, vr', Line', dev') /\ ~InExchange'
      BY <1>3, <1>5, <2>1, <2>2, YoungerMoves
    <3>2. CountedTo(last, k)'
      BY <1>1, <1>4, <3>1 DEF CountedTo
    <3> QED BY <3>2 DEF Counted
  <2>3. CASE h.pl.proc = Alarm
    <3> DEFINE a == h.pl.id
               w == Append(<<last>>, a)
    <3>1. a \in Nat
      BY <2>1, FrameFields DEF New, Payload
    <3>2. w \in Seq(Nat)
      BY <3>1
    <3>3. InOrder(w, dev'.raised) /\ Younger(w, vr', Line', dev')
      BY <1>3, <1>5, <2>1, <2>3, <3>2, YoungerMoves
    <3>4. last < a /\ a <= dev'.raised /\ Younger(<<a>>, vr', Line', dev')
      BY <3>1, <3>3, OnlyYoungest
    <3> HIDE DEF a, w
    <3>5. k + 1 <= a /\ k + 1 \in Nat
      BY <1>1, <3>1, <3>4 DEF CountedTo
    <3>6. InExchange' => vr' = Plus(iframe'.nr, k + 1)
      <4>1. ASSUME InExchange' PROVE vr' = Plus(iframe'.nr, k + 1)
        <5>1. InExchange /\ iframe' = iframe /\ vr = Plus(iframe.nr, k)
          BY <1>1, <2>1, <4>1 DEF CountedTo
        <5>2. iframe.nr \in SeqNo
          BY <5>1, CommandPresent, FrameFields DEF InExchange
        <5>3. k + 1 < Modulus
          BY <1>1, FewNoWrap
        <5> QED BY <2>1, <5>1, <5>2, <5>3, PlusNumbers
      <4> QED BY <4>1
    <3>7. CountedTo(a, k + 1)'
      BY <3>4, <3>5, <3>6 DEF CountedTo
    <3> QED BY <3>1, <3>5, <3>7 DEF Counted
  <2> QED BY <2>1, <2>2, <2>3
<1> QED BY <1>3, <1>6, <1>7 DEF Same

LEMMA CountOwn ==
  ASSUME TypeOK, TypeOK', Counted, DeviceStep
  PROVE  Counted'
<1>1. PICK last \in Nat, k \in Nat : CountedTo(last, k)
  BY DEF Counted
<1>2. <<last>> \in Seq(Nat) /\ InOrder(<<last>>, dev.raised) /\ <<last>>[1] = last /\ 1 \in DOMAIN <<last>>
  BY <1>1 DEF CountedTo, InOrder
<1>3. InOrder(<<last>>, dev'.raised) /\ Younger(<<last>>, vr', Line', dev')
  BY <1>1, <1>2, YoungerOwn DEF CountedTo
<1>4. last <= dev'.raised
  BY <1>2, <1>3 DEF InOrder
<1>5. InExchange' = InExchange /\ vr' = vr /\ iframe' = iframe
  BY OwnFields DEF InExchange
<1>6. CountedTo(last, k)'
  BY <1>1, <1>3, <1>4, <1>5 DEF CountedTo
<1> QED BY <1>6 DEF Counted

LEMMA CountOpens == TypeOK /\ TypeOK' /\ Opens => Counted'
<1> SUFFICES ASSUME TypeOK, TypeOK', Opens PROVE Counted'
  OBVIOUS
<1>1. Line' = <<>> /\ ToSet(Line') = {} /\ Unseen(vr', dev') = <<>>
  BY OpensFields, EmptySet DEF Unseen
<1>2. ~InExchange' /\ dev'.raised \in Nat
  BY DeviceFields DEF Opens, InExchange, TypeOK
<1>3. Younger(<<0>>, vr', Line', dev')
  BY <1>1 DEF Younger, Ahead
<1>4. CountedTo(0, 0)'
  BY <1>2, <1>3 DEF CountedTo
<1> QED BY <1>4 DEF Counted

\* In a call V(R) moves for an alarm, or with the response, which ends it.
LEMMA CallHears ==
  ASSUME TypeOK, NumberedInv, CommandInv, dev.strict, ~abandoned, OnLink, [Next]_vars, InExchange'
  PROVE  \/ ~InExchange /\ vr' = vr /\ iframe'.nr = vr
         \/ InExchange /\ iframe' = iframe /\ (vr' = vr \/ reported' # reported)
<1> USE DEF InExchange, peer, locals, ghosts
<1>1. CASE Caller
  <2>1. ASSUME NEW p \in Procs, Start(p)
        PROVE  ~InExchange /\ vr' = vr /\ iframe'.nr = vr
    BY <2>1 DEF Start, IFrame
  <2>2. ~Connect /\ ~Release /\ ~Keepalive
    BY DEF Connect, Linked, Release, Keepalive, OnLink
  <2> QED BY <1>1, <2>1, <2>2 DEF Caller
<1>2. CASE Read \/ HandleReset \/ HandleRR \/ HandleRej \/ HandleDuplicate \/ Resend \/ Expire \/ Poll
  BY <1>2 DEF Read, HandleReset, HandleRR, HandleRej, HandleDuplicate, Handling, Resend, Expire,
              Poll, Decide
<1>3. CASE HandleIndication
  <2>1. \A x : Append(reported, x) # reported
    BY DEF TypeOK
  <2> QED BY <1>3, <2>1 DEF HandleIndication, HandleNew, Handling
<1>4. CASE HandleUnexpected
  BY <1>4, TakenIsOwn DEF HandleUnexpected
<1>5. CASE HandleResponse
  BY <1>5 DEF HandleResponse
<1>6. CASE DrainStep
  BY <1>6 DEF DrainStep, DrainRead, DrainFrame, DrainNext
<1>7. CASE KeepaliveStep
  BY <1>7 DEF KeepaliveStep, KeepaliveRead, KeepaliveFrame, KeepaliveDone
<1>8. CASE DeviceStep
  BY <1>8, OwnFields
<1>9. CASE UNCHANGED vars
  BY <1>9 DEF vars
<1> QED BY <1>1, <1>2, <1>3, <1>4, <1>5, <1>6, <1>7, <1>8, <1>9 DEF Next, ExchangeStep

LEMMA CountStep ==
  ASSUME MaxAlarm + 1 < Modulus, TypeOK, TypeOK', Emptied, NumberedInv, NoWrap, CommandInv,
         OnLink => Counted, dev.strict, ~abandoned, [Next]_vars, OnLink'
  PROVE  Counted'
<1>1. CASE OnLink /\ Moves
  BY <1>1, CallHears, CountMoves
<1>2. CASE OnLink /\ DeviceStep
  BY <1>2, CountOwn
<1>3. CASE Opens
  BY <1>3, CountOpens
<1> QED BY <1>1, <1>2, <1>3, LinkStep

\* Both directions, while no request was given up.
FewInv ==
  dev.strict /\ ~abandoned =>
    NumberedInv /\ CommandInv /\ AnswerInv /\ ToldInv /\ (OnLink => Counted)

LEMMA FewStep ==
  ASSUME MaxAlarm + 1 < Modulus
  PROVE  TypeOK /\ TypeOK' /\ Emptied /\ VsAdvancesOnce /\ ExecsInv /\ FewInv /\ [Next]_vars
           => FewInv'
<1> SUFFICES ASSUME TypeOK, TypeOK', Emptied, VsAdvancesOnce, ExecsInv, FewInv, [Next]_vars,
                    dev'.strict, ~abandoned'
             PROVE  NumberedInv' /\ CommandInv' /\ AnswerInv' /\ ToldInv' /\ (OnLink' => Counted')
  BY DEF FewInv
<1>1. dev.strict
  BY StrictKept
<1>2. ASSUME NumberedInv, CommandInv, AnswerInv, ToldInv, NoWrap
      PROVE  NumberedInv' /\ CommandInv' /\ AnswerInv' /\ ToldInv'
  BY <1>2, NumberedStep, CommandStep, AnswerStep, ToldStep
<1>3. CASE abandoned
  <2>1. Connect /\ Linked
    BY <1>3 DEF Next, Caller, Connect, Release, Keepalive, Start, ExchangeStep, Read,
          HandleReset, HandleRR, HandleRej, HandleDuplicate, HandleResponse, HandleIndication,
          HandleUnexpected, Resend, Expire, Poll, DrainStep, DrainRead, DrainFrame, DrainNext,
          KeepaliveStep, KeepaliveRead, KeepaliveFrame, KeepaliveDone,
          DeviceStep, DevFinish, DevAlarm, DevRestart, vars, ghosts
  <2>2. ~OnLink /\ ~InExchange /\ Opens
    BY <1>3, <2>1 DEF Connect, Linked, OnLink, InExchange, Emptied, Opens, peer, locals, ghosts
  <2>3. NumberedInv /\ CommandInv /\ AnswerInv /\ ToldInv /\ NoWrap
    BY <1>3, <2>2 DEF NumberedInv, CommandInv, AnswerInv, ToldInv, NoWrap
  <2> QED BY <1>2, <2>2, <2>3, CountOpens
<1>4. CASE ~abandoned
  <2>1. NumberedInv /\ CommandInv /\ AnswerInv /\ ToldInv /\ (OnLink => Counted)
    BY <1>1, <1>4 DEF FewInv
  <2>2. NoWrap
    <3>1. InExchange => OnLink
      BY DEF InExchange, OnLink
    <3> QED BY <2>1, <3>1, FewNoWrap DEF Counted, NoWrap
  <2>3. OnLink' => Counted'
    BY <1>1, <1>4, <2>1, <2>2, CountStep
  <2> QED BY <1>2, <2>1, <2>2, <2>3
<1> QED BY <1>3, <1>4

LEMMA FewCorrect ==
  ASSUME MaxAlarm + 1 < Modulus, FALSE \notin Strictness
  PROVE  Spec => [](TypeOK /\ Emptied /\ FewInv /\ dev.strict)
<1>1. Init => Emptied /\ VsAdvancesOnce /\ ExecsInv /\ FewInv /\ dev.strict
  <2>1. Init => VsAdvancesOnce
    BY DEF Init, VsAdvancesOnce, InExchange
  <2>2. Init => dev.strict /\ ~OnLink
    <3> SUFFICES ASSUME Init PROVE dev.strict /\ ~OnLink
      OBVIOUS
    <3>1. PICK strict \in Strictness : dev = FreshDevice(strict)
      BY DEF Init
    <3>2. strict = TRUE
      BY DeviceAssumption
    <3> QED BY <3>1, <3>2 DEF Init, FreshDevice, OnLink
  <2> QED BY <2>1, <2>2, InitLink, InitExecs, InitCommand DEF FewInv
<1>2. TypeOK /\ TypeOK' /\ dev.strict /\ [Next]_vars => dev'.strict
  BY StrictKept
<1> DEFINE I == Emptied /\ VsAdvancesOnce /\ ExecsInv /\ FewInv /\ dev.strict
<1>3. TypeOK /\ TypeOK' /\ I /\ [Next]_vars => I'
  BY <1>2, EmptiedStep, VsStep, ExecsStep, FewStep
<1>4. Init => I
  BY <1>1
<1>5. I => Emptied /\ FewInv /\ dev.strict
  OBVIOUS
<1> HIDE DEF I
<1> QED BY <1>3, <1>4, <1>5, TypeCorrect, PTL DEF Spec

\* With devices that enforce N(S) and N(R), and fewer alarms than numbers, no loss,
\* resend, power cycle or late answer parts the stations: after exchange() both
\* agree on the next N(S), what it took as acknowledged was received, and what it
\* returned answers its request, until a request of the link is given up.
THEOREM StrictAgree ==
  ASSUME MaxAlarm + 1 < Modulus, FALSE \notin Strictness
  PROVE  Spec => [](SequenceInSync /\ AckedMeansReceived /\ ResponseMatches)
<1>1. TypeOK /\ FewInv /\ dev.strict => SequenceInSync /\ AckedMeansReceived /\ ResponseMatches
  <2>1. CASE abandoned
    BY <2>1 DEF SequenceInSync, AckedMeansReceived, ResponseMatches
  <2>2. CASE ~abandoned
    BY <2>2, AgreeMeans DEF FewInv, AnswerInv, ResponseMatches
  <2> QED BY <2>1, <2>2
<1> QED BY <1>1, FewCorrect, PTL

\* Nor is any alarm acknowledged that was not handed up, by whatever frame, as long
\* as no request was given up and no quarantine was entered (link.py:315-318).
THEOREM StrictTells ==
  ASSUME MaxAlarm + 1 < Modulus, FALSE \notin Strictness
  PROVE  Spec => FreedOnceReported
<1>1. TypeOK /\ Emptied /\ FewInv /\ dev.strict /\ [Next]_vars
        => [ \A a \in dev'.freed \ dev.freed :
               abandoned \/ \E i \in 1 .. Len(reported') : reported'[i] = a ]_vars
  <2> SUFFICES ASSUME TypeOK, Emptied, FewInv, dev.strict, [Next]_vars, ~abandoned
               PROVE  \A a \in dev'.freed \ dev.freed : \E i \in 1 .. Len(reported') : reported'[i] = a
    OBVIOUS
  <2>1. NumberedInv /\ ToldInv /\ NoWrap
    <3>1. InExchange => OnLink
      BY DEF InExchange, OnLink
    <3> QED BY <3>1, FewNoWrap DEF FewInv, Counted, NoWrap
  <2>2. \A a \in dev'.freed \ dev.freed : a \in ToSet(reported')
    BY <2>1, ToldStep
  <2> QED BY <2>2 DEF ToSet
<1> QED BY <1>1, FewCorrect, PTL DEF Spec, FreedOnceReported
===============================================================================
