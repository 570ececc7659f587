------------------------------ MODULE Secondary -------------------------------
(***************************************************************************)
(* The secondary station at the other end of the bus: what an AISG device  *)
(* in Normal Response Mode may do with a frame it hears.  It never speaks  *)
(* first.  The repository's own statement of that behaviour is the device  *)
(* its tests run against (tests/fake_secondary.py), which this module      *)
(* follows, widened by what link.py says real devices do: a lenient one    *)
(* accepts any N(S), a strict one may answer FRMR or REJ.                  *)
(*                                                                         *)
(* The device is one record, and its reaction to a frame is the set of     *)
(* outcomes [dev, reply] it may choose from: how fast a procedure runs,    *)
(* and how a device words "nothing yet", are its own business.             *)
(***************************************************************************)
EXTENDS Hdlc

CONSTANTS MaxReq,    \* bound: requests issued in a behaviour
          MaxAlarm,  \* bound: alarms the device raises in a behaviour
          Strictness,\* the kinds of device a behaviour may have: TRUE enforces
                     \* N(S) and N(R); FALSE is the lab RET, lenient
          SaysRej    \* TRUE: answers REJ to the poll after a garbled I-frame

ASSUME BoundsAssumption == MaxReq \in Nat /\ MaxAlarm \in Nat
ASSUME DeviceAssumption == Strictness \subseteq BOOLEAN /\ SaysRej \in BOOLEAN

Request     == [proc : Procs, id : 1 .. MaxReq]
AlarmReport == [proc : {Alarm}, id : 1 .. MaxAlarm]
Owed        == Request \cup AlarmReport   \* a response carries its request's identity

Device == [strict : BOOLEAN,               \* enforces N(S) and N(R)
           conn   : BOOLEAN,               \* between SNRM and DISC
           vs     : SeqNo,                 \* N(S) of the oldest I-frame not acked
           vr     : SeqNo,                 \* N(S) expected next
           sent   : Owed \cup {None},      \* in flight, kept until acked: window 1
           out    : Seq(Owed),             \* waiting for a poll
           todo   : SUBSET Request,        \* being executed
           missed : BOOLEAN,               \* an I-frame arrived garbled
           frmr   : BOOLEAN,               \* it has rejected a frame with FRMR
           raised : 0 .. MaxAlarm,         \* alarms raised so far
           freed  : SUBSET (1 .. MaxAlarm),\* alarms acknowledged by the primary
           execs  : [1 .. MaxReq -> Nat]]  \* times each request was executed

FreshDevice(strict) ==
  [strict |-> strict, conn |-> FALSE, vs |-> 0, vr |-> 0, sent |-> None, out |-> <<>>, todo |-> {},
   missed |-> FALSE, frmr |-> FALSE, raised |-> 0, freed |-> {},
   execs |-> [i \in 1 .. MaxReq |-> 0]]

Outcome(d, reply) == [dev |-> d, reply |-> reply]
Silent(d)         == {Outcome(d, <<>>)}

\* SNRM and DISC put the link's state back to nothing; what the device has
\* executed, and which alarms it has been told are safe to forget, stays.
Unlinked(d) == [d EXCEPT !.vs = 0, !.vr = 0, !.sent = None, !.out = <<>>,
                         !.todo = {}, !.missed = FALSE, !.frmr = FALSE]
Snrm(d) == [Unlinked(d) EXCEPT !.conn = TRUE]
Disc(d) == [Unlinked(d) EXCEPT !.conn = FALSE]

\* What the device says when the P bit invites it: its unacknowledged I-frame
\* again, else the next one it owes, else that it has nothing yet.
Invited(d) ==
  IF d.sent # None THEN {Outcome(d, <<IFrame(d.vs, d.vr, d.sent)>>)}
  ELSE IF d.out # <<>> THEN
    {Outcome([d EXCEPT !.sent = Head(d.out), !.out = Tail(d.out), !.missed = FALSE],
             <<IFrame(d.vs, d.vr, Head(d.out))>>)}
  ELSE {Outcome([d EXCEPT !.missed = FALSE], <<SFrame(k, d.vr, TRUE)>>) :
          k \in {x \in SKinds : /\ x = "RNR" => d.todo # {}
                                /\ x = "REJ" => d.missed}}

Rejects(d) == {Outcome([d EXCEPT !.conn = FALSE, !.frmr = TRUE], <<UFrame("FRMR")>>)}

\* An N(R) acknowledges the I-frame in flight, or acknowledges nothing.
ValidNr(d, nr) == nr = d.vs \/ (d.sent # None /\ nr = Succ(d.vs))
Acked(d, nr) ==
  IF d.sent # None /\ nr = Succ(d.vs)
  THEN [d EXCEPT !.vs = nr, !.sent = None,
                 !.freed = IF d.sent.proc = Alarm THEN @ \cup {d.sent.id} ELSE @]
  ELSE d

\* Taking a command: execution starts now; the answer may be ready at once or
\* only after any number of polls.
Taken(d, f) == [d EXCEPT !.vr = Succ(f.ns), !.missed = FALSE,
                         !.execs[f.pl.id] = @ + 1]
Accepts(d, f) ==
  LET t == Taken(d, f) IN
    Invited([t EXCEPT !.out = Append(@, f.pl)]) \cup Invited([t EXCEPT !.todo = @ \cup {f.pl}])

HeardI(d, f) ==
  IF f.ns = d.vr \/ ~d.strict THEN Accepts(d, f)
  ELSE Invited(d) \cup Rejects(d)    \* out of sequence: discard it, or FRMR

HeardS(d, f) == IF f.poll THEN Invited(d) ELSE Silent(d)

Respond(d, f) ==
  IF ~d.conn THEN IF f.poll THEN {Outcome(d, <<UFrame("DM")>>)} ELSE Silent(d)
  ELSE IF d.strict /\ ~ValidNr(d, f.nr) THEN Rejects(d)
  ELSE IF f.kind = IKind THEN HeardI(Acked(d, f.nr), f)
  ELSE HeardS(Acked(d, f.nr), f)

\* Noise on the way to the device: the frame fails its FCS and is not heard.
Garbled(d, f) == [d EXCEPT !.missed = @ \/ (SaysRej /\ d.conn /\ f.kind = IKind)]

\* What the device does on its own: a procedure finishes, an alarm is raised,
\* the power goes.  None of it transmits.
Finished(d, r) == [d EXCEPT !.todo = @ \ {r}, !.out = Append(@, r)]
AlarmRaised(d) == [d EXCEPT !.raised = @ + 1,
                            !.out = Append(@, [proc |-> Alarm, id |-> d.raised + 1])]
Restarted(d)   == Disc(d)
===============================================================================
