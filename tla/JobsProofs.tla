------------------------------ MODULE JobsProofs ------------------------------
(***************************************************************************)
(* What holds of the event stream and of the jobs for every finite set of  *)
(* alarms, every set of requests, any length of the queue and of the ring  *)
(* and any number of changes and connections: a client that applied what   *)
(* it was sent knows the active alarms unless a resync forgot a drop, and  *)
(* neither a reader of a record nor a follower of the stream learns of a   *)
(* job before its outcome is there.                                        *)
(***************************************************************************)
EXTENDS Jobs, SequenceSets, FiniteSetTheorems

-------------------------------------------------------------------------------
\* The types: the events of the stream, with and without their numbers, and
\* what a client keeps.
Events  == EdgeEvents \cup {Notice(r) : r \in Reqs}
Notices == {Notice(r) : r \in Reqs}
Stamped == [n : Nat, ev : Events]

Clients == [alarms : SUBSET Names, jobs : SUBSET Notices, last : Nat]

FeedTypes ==
  /\ unsent \in Seq(EdgeEvents) /\ ready \in Seq(Events) /\ seq \in Nat
  /\ ring \in Seq(Stamped) /\ q \in Seq(Stamped) /\ inHand \in Seq(Stamped)
  /\ dropped \in Nat /\ announced \in Nat /\ hole \in BOOLEAN
  /\ client \in Clients
  /\ active \in SUBSET Names

\* What the handler has in hand where, and that drops are counted only while
\* the queue that overflowed holds something, or until the marker is out.
HandlerInv ==
  /\ handler \in {"away", "greeted", "replaying", "waiting", "resync", "resynced"}
  /\ handler = "away" => q = <<>> /\ dropped = 0
  /\ handler \in {"away", "greeted", "waiting"} => inHand = <<>>
  /\ handler \in {"resync", "resynced"} => Len(inHand) = 1
  /\ handler = "resync" => announced <= dropped
  /\ handler # "resync" /\ q = <<>> => dropped = 0

\* The subscriber's queue is bounded.
Short == Len(q) <= Depth

\* The invariant behind ViewIsRight, alarm by alarm.  On its way to the client an
\* edge passes unsent, ready, q or the ring, and inHand.  Wherever edges of a
\* wait, the last of them tells the truth, or a later one is Coming; and if
\* none waits the client knows, or a drop is on record that a resync will mend.
Tells(a) == {Edge(a, TRUE), Edge(a, FALSE)}
Truth(a) == IF a \in active THEN {Edge(a, TRUE)} ELSE {Edge(a, FALSE)}
Stamp(S) == [n : Nat, ev : S]

Coming(a) == Mentions(unsent, Tells(a)) \/ Mentions(ready, Tells(a))

Knows(a) ==
  /\ EndsIn(unsent, Tells(a), Truth(a))
  /\ EndsIn(ready, Tells(a), Truth(a)) \/ Mentions(unsent, Tells(a))
  /\ EndsIn(ring, Stamp(Tells(a)), Stamp(Truth(a))) \/ Coming(a)
  /\ EndsIn(q, Stamp(Tells(a)), Stamp(Truth(a))) \/ Coming(a)
  /\ (~hole /\ dropped = 0) \/ (handler = "resync" /\ dropped = announced)
     => \/ EndsIn(inHand, Stamp(Tells(a)), Stamp(Truth(a)))
        \/ Mentions(q, Stamp(Tells(a))) \/ Coming(a)
  /\ ~hole /\ dropped = 0 /\ handler \notin {"away", "resync"}
     => \/ a \in client.alarms <=> a \in active
        \/ Mentions(inHand, Stamp(Tells(a))) \/ Mentions(q, Stamp(Tells(a))) \/ Coming(a)

ViewInv == \A a \in Names : Knows(a)

-------------------------------------------------------------------------------
\* The invariant behind the properties of the jobs.  What is in the stream or
\* has left it for the client:
InStream ==
  ToSet(ready) \cup client.jobs
    \cup {e.ev : e \in ToSet(ring) \cup ToSet(q) \cup ToSet(inHand)}

JobRecords == [state : JobState, outcome : Settled \cup {None}, finished : BOOLEAN]

JobTypes ==
  /\ fut \in [Reqs -> {"none", "pending"} \cup Settled]
  /\ answer \in [Reqs -> {"none", "awaited", "job"} \cup Settled]
  /\ job \in [Reqs -> JobRecords]
  /\ callbacks \in SUBSET Reqs /\ finishing \in Reqs \cup {None}

\* The stages of finish().
Recorded(r) == [state |-> "running", outcome |-> fut[r], finished |-> FALSE]
Stated(r)   == [state |-> StateFor(r), outcome |-> fut[r], finished |-> FALSE]

Over(r) == answer[r] = "job" /\ fut[r] \in Settled /\ job[r] = Whole(r)

\* A record is fresh, in the hands of finish(), or over; with its future settled
\* it is never left fresh.
Record(r) ==
  /\ fut[r] = "none" <=> answer[r] = "none"
  /\ finishing = r => answer[r] = "job" /\ fut[r] \in Settled
  /\ answer[r] = "job" => fut[r] \in Settled \/ r \in callbacks
  /\ r \in callbacks => answer[r] = "job"
  /\ \/ job[r] = Fresh /\ (answer[r] = "job" /\ fut[r] \in Settled => finishing = r)
     \/ finishing = r /\ job[r] \in {Recorded(r), Stated(r)}
     \/ Over(r)
RecordInv == \A r \in Reqs : Record(r)

\* A reader that has seen a job over finds its outcome, the one it is shown.
ReadingInv ==
  reading # None /\ reading.state # "running" =>
    /\ reading.r \in Reqs /\ fut[reading.r] \in Settled
    /\ job[reading.r].outcome = fut[reading.r]

SeenInv ==
  \A r \in Reqs, state \in {"done", "failed"}, outcome \in Settled \cup {None} :
    seen = Shown(r, state, outcome) => fut[r] \in Settled /\ outcome = fut[r]

\* A job is over before its notice is posted.
NoticeInv == \A r \in Reqs : Notice(r) \in InStream => Over(r)

-------------------------------------------------------------------------------
\* The end of a sequence that a bounded queue or ring keeps.
LEMMA LastOfType ==
  ASSUME NEW S, NEW s \in Seq(S), NEW n \in Nat
  PROVE  /\ LastOf(s, n) \in Seq(S) /\ ToSet(LastOf(s, n)) \subseteq ToSet(s)
         /\ Len(LastOf(s, n)) <= n /\ (s # <<>> /\ n > 0 => LastOf(s, n) # <<>>)
         /\ Len(s) <= n => LastOf(s, n) = s
         /\ \A M, G : EndsIn(s, M, G) => EndsIn(LastOf(s, n), M, G)
<1>1. Len(s) \in Nat /\ (s # <<>> => Len(s) > 0)
  OBVIOUS
<1>2. \E k \in 0 .. Len(s) : /\ LastOf(s, n) = SubSeq(s, k + 1, Len(s))
                             /\ Len(s) - k <= n /\ (Len(s) <= n => k = 0)
                             /\ (n > 0 /\ Len(s) > 0 => k < Len(s))
  <2>1. CASE Len(s) < n
    <3>1. LastOf(s, n) = SubSeq(s, 0 + 1, Len(s))
      BY <1>1, <2>1 DEF LastOf
    <3> QED BY <1>1, <2>1, <3>1
  <2>2. CASE ~(Len(s) < n)
    <3>1. LastOf(s, n) = SubSeq(s, (Len(s) - n) + 1, Len(s))
      <4>1. 1 + Len(s) - n = (Len(s) - n) + 1
        BY <1>1
      <4> QED BY <2>2, <4>1 DEF LastOf
    <3>2. Len(s) - n \in 0 .. Len(s)
      BY <1>1, <2>2
    <3>3. Len(s) - (Len(s) - n) = n /\ (Len(s) <= n => Len(s) - n = 0)
          /\ (n > 0 => Len(s) - n < Len(s))
      BY <1>1, <2>2
    <3> QED BY <3>1, <3>2, <3>3
  <2> QED BY <2>1, <2>2
<1>3. PICK k \in 0 .. Len(s) : /\ LastOf(s, n) = SubSeq(s, k + 1, Len(s))
                               /\ Len(s) - k <= n /\ (Len(s) <= n => k = 0)
                               /\ (n > 0 /\ Len(s) > 0 => k < Len(s))
  BY <1>2
<1>4. k + 1 \in 1 .. Len(s) + 1 /\ Len(s) \in 0 .. Len(s)
  BY <1>1
<1>5. LastOf(s, n) \in Seq(S) /\ ToSet(LastOf(s, n)) \subseteq ToSet(s)
  BY <1>3, <1>4, SubSeqSet
<1>6. \A M, G : EndsIn(s, M, G) => EndsIn(LastOf(s, n), M, G)
  BY <1>3, SuffixEnds
<1>7. \A i \in k + 1 .. Len(s) : s[i] \in S
  BY <1>1
<1>8. Len(LastOf(s, n)) = Len(s) - k
  BY <1>1, <1>3, <1>7, SubSeqProperties
<1>9. Len(s) <= n => LastOf(s, n) = s
  <2> HAVE Len(s) <= n
  <2>1. LastOf(s, n) = SubSeq(s, 1, Len(s))
    BY <1>3
  <2> QED BY <2>1
<1>10. s # <<>> /\ n > 0 => LastOf(s, n) # <<>>
  <2> HAVE s # <<>> /\ n > 0
  <2>1. Len(LastOf(s, n)) > 0
    BY <1>1, <1>3, <1>8
  <2> QED BY <2>1
<1>11. Len(LastOf(s, n)) <= n
  BY <1>3, <1>8
<1> QED BY <1>5, <1>6, <1>9, <1>10, <1>11

\* Notices and edges are apart, and an edge is an event.
LEMMA NoticesAreNoEdges ==
  ASSUME NEW r \in Reqs
  PROVE  /\ Notice(r) \notin EdgeEvents
         /\ \A a \in Names : Notice(r) \notin Tells(a)
BY DEF Notice, EdgeEvents, Tells, Edge

LEMMA EdgeTypes ==
  \A a \in Names : Tells(a) \subseteq EdgeEvents /\ EdgeEvents \subseteq Events
BY DEF Tells, Edge, EdgeEvents, Events

\* SetToSeq lists a finite set.
LEMMA ListType ==
  ASSUME NEW S, IsFiniteSet(S)
  PROVE  SetToSeq(S) \in Seq(S) /\ ToSet(SetToSeq(S)) = S
<1> DEFINE n == Cardinality(S)
<1>1. n \in Nat /\ ExistsBijection(1 .. n, S)
  BY FS_CardinalityType
<1>2. PICK b \in Bijection(1 .. n, S) : TRUE
  BY <1>1 DEF ExistsBijection
<1>3. b \in [1 .. n -> S] /\ IsInjective(b)
  BY <1>2 DEF Bijection, Injection, Surjection, IsInjective
<1>4. SetToSeq(S) \in [1 .. n -> S] /\ IsInjective(SetToSeq(S))
  BY <1>3 DEF SetToSeq
<1>5. SetToSeq(S) \in Injection(1 .. n, S)
  BY <1>4 DEF Injection, IsInjective
<1>6. IsFiniteSet(1 .. n) /\ Cardinality(1 .. n) = n
  BY <1>1, FS_Interval
<1>7. SetToSeq(S) \in Surjection(1 .. n, S)
  BY <1>5, <1>6, FS_Injection
<1>8. SetToSeq(S) \in Seq(S)
  BY <1>1, <1>4
<1>9. DOMAIN SetToSeq(S) = 1 .. n
  BY <1>4
<1> QED BY <1>4, <1>7, <1>8, <1>9 DEF Surjection, ToSet

\* What ChangeAlarms lists.
LEMMA EdgesFinite ==
  ASSUME NEW D \in SUBSET Names, NEW on \in BOOLEAN
  PROVE  IsFiniteSet({Edge(a, on) : a \in D})
<1> DEFINE T == {Edge(a, on) : a \in D}
           f == [a \in D |-> Edge(a, on)]
<1>1. IsFiniteSet(D)
  BY FS_Subset, NamesAssumption
<1>2. f \in Surjection(D, T)
  BY DEF Surjection
<1> QED BY <1>1, <1>2, FS_Surjection

\* The edges of a change of the active set tell the new set, and all of it.
LEMMA ChangeTells ==
  ASSUME NEW new \in SUBSET Names, active \subseteq Names, ChangeAlarms(new)
  PROVE  /\ unsent' \in Seq(EdgeEvents)
         /\ ToSet(unsent') = {Edge(a, TRUE) : a \in new \ active}
                               \cup {Edge(a, FALSE) : a \in active \ new}
<1> DEFINE up == {Edge(a, TRUE) : a \in new \ active}
           down == {Edge(a, FALSE) : a \in active \ new}
<1>1. IsFiniteSet(up) /\ IsFiniteSet(down)
  BY EdgesFinite
<1>2. up \in SUBSET EdgeEvents /\ down \in SUBSET EdgeEvents
  <2>1. \A a \in Names : Edge(a, TRUE) \in EdgeEvents /\ Edge(a, FALSE) \in EdgeEvents
    BY DEF EdgeEvents, Edge
  <2> QED BY <2>1
<1>3. unsent' = SetToSeq(up) \o SetToSeq(down)
  BY DEF ChangeAlarms
<1>4. \A S \in SUBSET EdgeEvents : IsFiniteSet(S) =>
         SetToSeq(S) \in Seq(EdgeEvents) /\ ToSet(SetToSeq(S)) = S
  BY ListType
<1>5. /\ SetToSeq(up) \in Seq(EdgeEvents) /\ ToSet(SetToSeq(up)) = up
      /\ SetToSeq(down) \in Seq(EdgeEvents) /\ ToSet(SetToSeq(down)) = down
  BY <1>1, <1>2, <1>4
<1>6. SetToSeq(up) \o SetToSeq(down) \in Seq(EdgeEvents)
      /\ ToSet(SetToSeq(up) \o SetToSeq(down)) = up \cup down
  <2> HIDE DEF up, down
  <2> QED BY <1>5, ConcatSet
<1> QED BY <1>3, <1>6

-------------------------------------------------------------------------------
\* What a step does to the stream: one of its own, or finish() posts a notice.
PostsNotice ==
  \E r \in Reqs : /\ Post(Notice(r))
                  /\ UNCHANGED <<active, unsent, seq, ring, q, dropped, handlerVars>>

LEMMA FeedCases ==
  ASSUME [Next]_vars, finishing \in Reqs \cup {None}
  PROVE  \/ \E new \in SUBSET Names : ChangeAlarms(new)
         \/ EmitEdge \/ Publish \/ (\E since \in BOOLEAN : Connect(since))
         \/ TakeReplay \/ SendReplay \/ EndReplay \/ Take \/ Resync \/ SendInHand
         \/ Disconnect \/ PostsNotice
         \/ UNCHANGED <<active, unsent, busVars, handlerVars>>
<1>1. ASSUME Stream PROVE \/ \E new \in SUBSET Names : ChangeAlarms(new)
                          \/ EmitEdge \/ Publish \/ (\E since \in BOOLEAN : Connect(since))
                          \/ TakeReplay \/ SendReplay \/ EndReplay \/ Take \/ Resync
                          \/ SendInHand \/ Disconnect
  BY <1>1 DEF Stream, WorkerFeeds, LoopFeeds, Serve
<1>2. ASSUME Worker PROVE PostsNotice \/ UNCHANGED <<active, unsent, busVars, handlerVars>>
  <2>1. CASE EmitNotice
    BY <2>1 DEF EmitNotice, PostsNotice
  <2>2. CASE Write
    BY <2>2 DEF Write, feedVars
  <2>3. CASE \E r \in Reqs, o \in Settled : Settle(r, o)
    BY <2>3 DEF Settle, feedVars
  <2> QED BY <1>2, <2>1, <2>2, <2>3 DEF Worker
<1>3. ASSUME Loop PROVE PostsNotice \/ UNCHANGED <<active, unsent, busVars, handlerVars>>
  <2>1. CASE ReadRest
    BY <2>1 DEF ReadRest, feedVars
  <2>2. ASSUME NEW r \in Reqs, Submit(r) \/ Answered(r) \/ ReadState(r)
        PROVE  UNCHANGED <<active, unsent, busVars, handlerVars>>
    BY <2>2 DEF Submit, Answered, ReadState, feedVars
  <2>3. ASSUME NEW r \in Reqs, BudgetExpires(r)
        PROVE  PostsNotice \/ UNCHANGED <<active, unsent, busVars, handlerVars>>
    BY <2>3 DEF BudgetExpires, Register, PostsNotice, busVars
  <2> QED BY <1>3, <2>1, <2>2, <2>3 DEF Loop
<1>4. CASE UNCHANGED vars
  BY <1>4 DEF vars, feedVars
<1> QED BY <1>1, <1>2, <1>3, <1>4 DEF Next

-------------------------------------------------------------------------------
\* What receiving an event makes of the client.
LEMMA ReceiveType ==
  ASSUME client \in Clients, NEW e \in Stamped, Receive(e)
  PROVE  client' \in Clients /\ client'.jobs \subseteq client.jobs \cup {e.ev}
<1>1. CASE e.ev \in EdgeEvents
  <2>1. client' = [client EXCEPT !.alarms = Applied(client.alarms, e.ev), !.last = e.n]
    BY <1>1 DEF Receive
  <2>2. Applied(client.alarms, e.ev) \in SUBSET Names /\ e.n \in Nat
    BY <1>1 DEF Applied, Clients, EdgeEvents, Stamped
  <2> QED BY <2>1, <2>2 DEF Clients
<1>2. CASE e.ev \notin EdgeEvents
  <2>1. client' = [client EXCEPT !.jobs = client.jobs \cup {e.ev}, !.last = e.n]
    BY <1>2 DEF Receive
  <2>2. e.ev \in Notices /\ e.n \in Nat
    BY <1>2 DEF Stamped, Events, Notices
  <2> QED BY <2>1, <2>2 DEF Clients
<1> QED BY <1>1, <1>2

LEMMA ReceiveTells ==
  ASSUME client \in Clients, NEW e \in Stamped, Receive(e), NEW a \in Names
  PROVE  /\ e \in Stamp(Tells(a)) => (a \in client'.alarms <=> e.ev = Edge(a, TRUE))
         /\ e \notin Stamp(Tells(a)) => (a \in client'.alarms <=> a \in client.alarms)
<1>1. CASE e.ev \in EdgeEvents
  <2>1. client'.alarms = Applied(client.alarms, e.ev)
    BY <1>1 DEF Receive, Clients
  <2>2. PICK b \in Names, on \in BOOLEAN : e.ev = Edge(b, on)
    BY <1>1 DEF EdgeEvents, Edge
  <2>3. /\ on = TRUE  => client'.alarms = client.alarms \cup {b}
        /\ on = FALSE => client'.alarms = client.alarms \ {b}
    BY <2>1, <2>2 DEF Applied, Edge
  <2>4. e \in Stamp(Tells(a)) <=> e.ev \in Tells(a)
    BY DEF Stamp, Stamped
  <2>5. /\ e.ev.alarm = b /\ Edge(a, TRUE).alarm = a /\ Edge(a, FALSE).alarm = a
        /\ e.ev.on = on /\ Edge(a, TRUE).on = TRUE /\ Edge(a, FALSE).on = FALSE
    BY <2>2 DEF Edge
  <2>6. on = TRUE \/ on = FALSE
    OBVIOUS
  <2>7. /\ e.ev \in Tells(a) <=> a = b
        /\ a = b => (e.ev = Edge(a, TRUE) <=> on = TRUE)
    BY <2>2, <2>5, <2>6 DEF Tells
  <2> QED BY <2>3, <2>4, <2>6, <2>7
<1>2. CASE e.ev \notin EdgeEvents
  <2>1. client'.alarms = client.alarms
    BY <1>2 DEF Receive, Clients
  <2>2. e \notin Stamp(Tells(a))
    BY <1>2, EdgeTypes DEF Stamp
  <2> QED BY <2>1, <2>2
<1> QED BY <1>1, <1>2

-------------------------------------------------------------------------------
\* The types of the stream, the handler's places and the bound on the queue.
LEMMA FeedTypesStep ==
  FeedTypes /\ HandlerInv /\ finishing \in Reqs \cup {None} /\ [Next]_vars => FeedTypes'
<1> SUFFICES ASSUME FeedTypes, HandlerInv, finishing \in Reqs \cup {None}, [Next]_vars
             PROVE  FeedTypes'
  OBVIOUS
<1> USE DEF FeedTypes
<1>0. \A M : <<>> \in Seq(M)
  OBVIOUS
<1>1. ASSUME NEW new \in SUBSET Names, ChangeAlarms(new) PROVE FeedTypes'
  BY <1>1, ChangeTells DEF ChangeAlarms, busVars, handlerVars
<1>2. CASE EmitEdge
  <2>1. Head(unsent) \in Events /\ unsent' \in Seq(EdgeEvents)
    BY <1>2, EdgeTypes, HeadTailProperties DEF EmitEdge, Events
  <2>2. ready' \in Seq(Events)
    BY <1>2, <2>1 DEF EmitEdge, Post
  <2> QED BY <1>2, <2>1, <2>2 DEF EmitEdge, handlerVars
<1>3. CASE Publish
  <2> DEFINE e == Numbered(seq + 1, Head(ready))
  <2>1. Head(ready) \in Events /\ ready' \in Seq(Events)
    BY <1>3 DEF Publish
  <2>2. e \in Stamped /\ seq' \in Nat
    BY <1>3, <2>1 DEF Publish, Numbered, Stamped
  <2>3. Append(ring, e) \in Seq(Stamped) /\ Append(q, e) \in Seq(Stamped)
    BY <2>2
  <2>4. ring' = LastOf(Append(ring, e), Replay) /\ (q' = q \/ q' = LastOf(Append(q, e), Depth))
    BY <1>3 DEF Publish, Put
  <2>5. ring' \in Seq(Stamped) /\ q' \in Seq(Stamped)
    <3>1. /\ LastOf(Append(ring, e), Replay) \in Seq(Stamped)
          /\ LastOf(Append(q, e), Depth) \in Seq(Stamped)
      BY <2>3, LastOfType, DepthAssumption
    <3> QED BY <2>4, <3>1
  <2>6. dropped' \in Nat
    BY <1>3 DEF Publish, Put
  <2> QED BY <1>3, <2>1, <2>2, <2>5, <2>6 DEF Publish, handlerVars
<1>4. ASSUME NEW since \in BOOLEAN, Connect(since) PROVE FeedTypes'
  <2>1. client' \in Clients /\ q' \in Seq(Stamped)
    BY <1>4, <1>0 DEF Connect, ApplySnapshot, Clients
  <2> QED BY <1>4, <2>1 DEF Connect
<1>5. CASE TakeReplay
  <2>1. inHand' \in Seq(Stamped)
    <3>1. PICK old \in 0 .. Len(ring) : inHand' = SubSeq(ring, old + 1, Len(ring))
      BY <1>5 DEF TakeReplay
    <3>2. old + 1 \in 1 .. Len(ring) + 1 /\ Len(ring) \in 0 .. Len(ring)
      OBVIOUS
    <3> QED BY <3>1, <3>2, SubSeqSet
  <2> QED BY <1>5, <2>1 DEF TakeReplay, busVars
<1>6. CASE SendReplay
  <2>1. Head(inHand) \in Stamped /\ inHand' \in Seq(Stamped) /\ Receive(Head(inHand))
    BY <1>6 DEF SendReplay
  <2> QED BY <1>6, <2>1, ReceiveType DEF SendReplay, busVars
<1>7. CASE EndReplay
  BY <1>7 DEF EndReplay, busVars
<1>8. CASE Take
  <2>1. Head(q) \in Stamped /\ q' \in Seq(Stamped)
    BY <1>8 DEF Take
  <2>2. client' \in Clients /\ inHand' \in Seq(Stamped) /\ announced' \in Nat
    <3>1. <<Head(q)>> \in Seq(Stamped)
      BY <2>1
    <3>2. Receive(Head(q)) => client' \in Clients
      BY <2>1, ReceiveType
    <3> QED BY <1>8, <3>1, <3>2 DEF Take
  <2> QED BY <1>8, <2>1, <2>2 DEF Take
<1>9. CASE Resync
  <2>1. client' \in Clients
    BY <1>9 DEF Resync, ApplySnapshot, Clients
  <2> QED BY <1>9, <2>1 DEF Resync
<1>10. CASE SendInHand
  <2>0. inHand # <<>>
    <3>1. Len(inHand) = 1
      BY <1>10 DEF SendInHand, HandlerInv
    <3>2. inHand = <<>> => Len(inHand) = 0
      OBVIOUS
    <3> QED BY <3>1, <3>2
  <2>1. Head(inHand) \in Stamped /\ Receive(Head(inHand))
    BY <1>10, <2>0 DEF SendInHand
  <2> QED BY <1>0, <1>10, <2>1, ReceiveType DEF SendInHand, busVars
<1>11. CASE Disconnect
  BY <1>0, <1>11 DEF Disconnect
<1>12. CASE PostsNotice
  BY <1>12 DEF PostsNotice, Post, Events, handlerVars
<1>13. CASE UNCHANGED <<active, unsent, busVars, handlerVars>>
  BY <1>13 DEF busVars, handlerVars
<1> QED BY <1>1, <1>2, <1>3, <1>4, <1>5, <1>6, <1>7, <1>8, <1>9, <1>10, <1>11, <1>12, <1>13, FeedCases

LEMMA HandlerStep ==
  FeedTypes /\ HandlerInv /\ finishing \in Reqs \cup {None} /\ [Next]_vars => HandlerInv'
<1> SUFFICES ASSUME FeedTypes, HandlerInv, finishing \in Reqs \cup {None}, [Next]_vars
             PROVE  HandlerInv'
  OBVIOUS
<1> USE DEF HandlerInv
<1>t. q \in Seq(Stamped) /\ dropped \in Nat /\ announced \in Nat /\ ready \in Seq(Events) /\ seq \in Nat
  BY DEF FeedTypes
<1>1. ASSUME NEW new \in SUBSET Names, ChangeAlarms(new) PROVE HandlerInv'
  BY <1>1 DEF ChangeAlarms, busVars, handlerVars
<1>2. CASE EmitEdge
  BY <1>2 DEF EmitEdge, handlerVars
<1>3. CASE Publish
  <2> DEFINE e == Numbered(seq + 1, Head(ready))
  <2>1. e \in Stamped
    BY <1>3, <1>t DEF Publish, Numbered, Stamped
  <2>2. Append(q, e) \in Seq(Stamped) /\ Append(q, e) # <<>>
    BY <1>t, <2>1
  <2>3. LastOf(Append(q, e), Depth) # <<>>
    <3>1. \A s \in Seq(Stamped) : s # <<>> => LastOf(s, Depth) # <<>>
      BY LastOfType, DepthAssumption
    <3> QED BY <2>2, <3>1
  <2>4. CASE Subscribed
    <3>1. q' # <<>> /\ dropped' \in {dropped, dropped + 1}
      BY <1>3, <2>3, <2>4 DEF Publish, Put
    <3> QED BY <1>3, <1>t, <2>4, <3>1 DEF Publish, handlerVars, Subscribed
  <2>5. CASE ~Subscribed
    BY <1>3, <2>5 DEF Publish, handlerVars
  <2> QED BY <2>4, <2>5
<1>4. ASSUME NEW since \in BOOLEAN, Connect(since) PROVE HandlerInv'
  <2>1. handler' \in {"greeted", "waiting"} /\ q' = <<>> /\ dropped' = 0 /\ inHand' = <<>>
    BY <1>4 DEF Connect
  <2> QED BY <2>1
<1>5. CASE TakeReplay
  BY <1>5 DEF TakeReplay, busVars
<1>6. CASE SendReplay
  BY <1>6 DEF SendReplay, busVars
<1>7. CASE EndReplay
  BY <1>7 DEF EndReplay, busVars
<1>8. CASE Take
  <2>1. CASE dropped = 0
    BY <1>8, <2>1 DEF Take
  <2>2. CASE dropped # 0
    BY <1>8, <2>2, <1>t DEF Take
  <2> QED BY <2>1, <2>2
<1>9. CASE Resync
  BY <1>9 DEF Resync
<1>10. CASE SendInHand
  BY <1>10 DEF SendInHand, busVars
<1>11. CASE Disconnect
  BY <1>11 DEF Disconnect
<1>12. CASE PostsNotice
  BY <1>12 DEF PostsNotice, handlerVars
<1>13. CASE UNCHANGED <<active, unsent, busVars, handlerVars>>
  BY <1>13 DEF busVars, handlerVars
<1> QED BY <1>1, <1>2, <1>3, <1>4, <1>5, <1>6, <1>7, <1>8, <1>9, <1>10, <1>11, <1>12, <1>13, FeedCases

LEMMA ShortStep ==
  FeedTypes /\ Short /\ finishing \in Reqs \cup {None} /\ [Next]_vars => Short'
<1> SUFFICES ASSUME FeedTypes, Short, finishing \in Reqs \cup {None}, [Next]_vars PROVE Short'
  OBVIOUS
<1>1. q \in Seq(Stamped) /\ ready \in Seq(Events) /\ seq \in Nat
  BY DEF FeedTypes
<1>2. q' = <<>> => Short'
  BY DepthAssumption DEF Short
<1>3. q' = q => Short'
  BY DEF Short
<1>4. CASE Publish
  <2> DEFINE e == Numbered(seq + 1, Head(ready))
  <2>1. e \in Stamped
    BY <1>1, <1>4 DEF Publish, Numbered, Stamped
  <2>2. \A s \in Seq(Stamped) : Len(LastOf(s, Depth)) <= Depth
    BY LastOfType, DepthAssumption
  <2>3. Len(LastOf(Append(q, e), Depth)) <= Depth
    <3> HIDE DEF e
    <3>1. Append(q, e) \in Seq(Stamped)
      BY <1>1, <2>1
    <3> QED BY <2>2, <3>1
  <2>4. q' = q \/ q' = LastOf(Append(q, e), Depth)
    BY <1>4 DEF Publish, Put
  <2> QED BY <1>3, <2>3, <2>4 DEF Short
<1>5. CASE Take
  <2>1. q' = Tail(q) /\ q # <<>>
    BY <1>5 DEF Take
  <2> QED BY <1>1, <2>1, DepthAssumption DEF Short
<1>6. CASE (\E since \in BOOLEAN : Connect(since)) \/ Disconnect
  BY <1>2, <1>6 DEF Connect, Disconnect
<1>7. CASE PostsNotice \/ (\E new \in SUBSET Names : ChangeAlarms(new)) \/ EmitEdge
           \/ TakeReplay \/ SendReplay \/ EndReplay \/ Resync \/ SendInHand
           \/ UNCHANGED <<active, unsent, busVars, handlerVars>>
  BY <1>3, <1>7 DEF PostsNotice, ChangeAlarms, EmitEdge, TakeReplay, SendReplay, EndReplay,
     Resync, SendInHand, busVars
<1> QED BY <1>4, <1>5, <1>6, <1>7, FeedCases

-------------------------------------------------------------------------------
\* Knows, step by step.
LEMMA TellsAll ==
  ASSUME NEW s, NEW M, NEW G, \A m \in ToSet(s) : m \in M => m \in G
  PROVE  EndsIn(s, M, G)
BY DEF EndsIn, ToSet

LEMMA StampTells ==
  ASSUME NEW e \in Stamped, NEW a \in Names
  PROVE  /\ e \in Stamp(Tells(a)) <=> e.ev \in Tells(a)
         /\ e \in Stamp(Truth(a)) <=> e.ev \in Truth(a)
BY DEF Stamp, Stamped

\* An edge about an alarm that is no edge of the truth is the other one.
LEMMA TruthTold ==
  ASSUME NEW a \in Names
  PROVE  /\ a \in active <=> Edge(a, TRUE) \in Truth(a)
         /\ Truth(a) \subseteq Tells(a)
         /\ \A m \in Truth(a) : m = Edge(a, TRUE) <=> a \in active
<1>1. Edge(a, TRUE) # Edge(a, FALSE)
  <2>1. Edge(a, TRUE).on = TRUE /\ Edge(a, FALSE).on = FALSE
    BY DEF Edge
  <2> QED BY <2>1
<1> QED BY <1>1 DEF Truth, Tells

\* The alarm set changes: what was true of a changed alarm is coming.
LEMMA ChangeKnows ==
  ASSUME FeedTypes, HandlerInv, NEW a \in Names, Knows(a),
         NEW new \in SUBSET Names, ChangeAlarms(new)
  PROVE  Knows(a)'
<1>1. ToSet(unsent') = {Edge(b, TRUE) : b \in new \ active}
                         \cup {Edge(b, FALSE) : b \in active \ new}
  BY ChangeTells DEF FeedTypes
<1>2. /\ unsent = <<>> /\ active' = new
      /\ UNCHANGED <<ready, ring, q, dropped, handler, inHand, announced, client, hole>>
  BY DEF ChangeAlarms, busVars, handlerVars
<1>3. \A b \in Names, on \in BOOLEAN : Edge(b, on).alarm = b /\ Edge(b, on).on = on
  BY DEF Edge
<1>4. \A m \in ToSet(unsent') :
         m \in Tells(a) => \/ a \in new \ active /\ m = Edge(a, TRUE)
                           \/ a \in active \ new /\ m = Edge(a, FALSE)
  <2> TAKE m \in ToSet(unsent')
  <2> HAVE m \in Tells(a)
  <2>1. m.alarm = a
    BY <1>3 DEF Tells
  <2>2. ASSUME NEW b \in new \ active, m = Edge(b, TRUE) PROVE a = b
    BY <1>3, <2>1, <2>2
  <2>3. ASSUME NEW b \in active \ new, m = Edge(b, FALSE) PROVE a = b
    BY <1>3, <2>1, <2>3 DEF FeedTypes
  <2> QED BY <1>1, <2>2, <2>3
<1>t. Truth(a)' = IF a \in new THEN {Edge(a, TRUE)} ELSE {Edge(a, FALSE)}
  BY <1>2 DEF Truth
<1>5. EndsIn(unsent', Tells(a), Truth(a)')
  BY <1>4, <1>t, TellsAll
<1>6. CASE a \in new <=> a \in active
  <2>1. Truth(a)' = Truth(a)
    BY <1>2, <1>6 DEF Truth
  <2>2. \A m \in ToSet(unsent') : m \notin Tells(a)
    BY <1>4, <1>6
  <2>3. ~Mentions(unsent', Tells(a)) /\ ~Mentions(unsent, Tells(a))
    BY <1>2, <2>2, MentionsSet, EmptyEnds
  <2> QED BY <1>2, <1>5, <1>6, <2>1, <2>3 DEF Knows, Coming
<1>7. CASE ~(a \in new <=> a \in active)
  <2>1. \E m \in ToSet(unsent') : m \in Tells(a)
    BY <1>1, <1>7 DEF Tells
  <2>2. Mentions(unsent', Tells(a))
    BY <2>1, MentionsSet
  <2> QED BY <1>5, <2>2 DEF Knows, Coming
<1> QED BY <1>6, <1>7

\* An edge moves into the event loop.
LEMMA EmitKnows ==
  ASSUME FeedTypes, HandlerInv, NEW a \in Names, Knows(a), EmitEdge
  PROVE  Knows(a)'
<1> DEFINE e == Head(unsent)
<1>1. /\ ready' = Append(ready, e) /\ unsent' = Tail(unsent)
      /\ UNCHANGED <<active, ring, q, dropped, handler, inHand, announced, client, hole>>
  BY DEF EmitEdge, Post, handlerVars
<1>2. unsent # <<>> /\ unsent \in Seq(EdgeEvents) /\ ready \in Seq(Events) /\ e \in Events
  BY EdgeTypes DEF EmitEdge, FeedTypes, Events
<1>3. Truth(a)' = Truth(a)
  BY <1>1 DEF Truth
<1>4. /\ Mentions(unsent, Tells(a)) <=> e \in Tells(a) \/ Mentions(unsent', Tells(a))
      /\ EndsIn(unsent, Tells(a), Truth(a)) =>
           /\ EndsIn(unsent', Tells(a), Truth(a))
           /\ Mentions(unsent', Tells(a)) \/ e \notin Tells(a) \/ e \in Truth(a)
  BY <1>1, <1>2, TailEnds
<1>5. /\ Mentions(ready', Tells(a)) <=> Mentions(ready, Tells(a)) \/ e \in Tells(a)
      /\ e \in Tells(a) => (EndsIn(ready', Tells(a), Truth(a)) <=> e \in Truth(a))
      /\ e \notin Tells(a) => (EndsIn(ready', Tells(a), Truth(a)) <=> EndsIn(ready, Tells(a), Truth(a)))
  BY <1>1, <1>2, AppendEnds
<1> HIDE DEF e
<1> QED BY <1>1, <1>3, <1>4, <1>5 DEF Knows, Coming

\* publish_nowait: the last edge stays last, whatever makes room for it.
LEMMA PublishKnows ==
  ASSUME FeedTypes, HandlerInv, Short, NEW a \in Names, Knows(a), Publish
  PROVE  Knows(a)'
<1> DEFINE h == Head(ready)
           e == Numbered(seq + 1, h)
           M == Stamp(Tells(a))
           G == Stamp(Truth(a))
<1>1. /\ ready # <<>> /\ ready' = Tail(ready) /\ ring' = LastOf(Append(ring, e), Replay)
      /\ UNCHANGED <<unsent, active, handler, inHand, announced, client, hole>>
  BY DEF Publish, handlerVars
<1>2. ready \in Seq(Events) /\ ring \in Seq(Stamped) /\ q \in Seq(Stamped) /\ dropped \in Nat
  BY DEF FeedTypes
<1>3. h \in Events /\ e \in Stamped /\ e.ev = h
  BY <1>1, <1>2 DEF Numbered, Stamped, FeedTypes
<1>4. Truth(a)' = Truth(a)
  BY <1>1 DEF Truth
<1>5. /\ Mentions(ready, Tells(a)) <=> h \in Tells(a) \/ Mentions(ready', Tells(a))
      /\ EndsIn(ready, Tells(a), Truth(a)) =>
           /\ EndsIn(ready', Tells(a), Truth(a))
           /\ Mentions(ready', Tells(a)) \/ h \notin Tells(a) \/ h \in Truth(a)
  BY <1>1, <1>2, TailEnds
<1>6. (e \in M <=> h \in Tells(a)) /\ (e \in G <=> h \in Truth(a))
  BY <1>3, StampTells
<1>7. ASSUME NEW s \in Seq(Stamped), NEW n \in Nat
      PROVE  /\ e \in M /\ e \in G => EndsIn(LastOf(Append(s, e), n), M, G)
             /\ e \notin M /\ EndsIn(s, M, G) => EndsIn(LastOf(Append(s, e), n), M, G)
  <2> HIDE DEF e, M, G
  <2>1. Append(s, e) \in Seq(Stamped)
    BY <1>3
  <2>2. EndsIn(Append(s, e), M, G) => EndsIn(LastOf(Append(s, e), n), M, G)
    BY <2>1, LastOfType
  <2> QED BY <1>3, <2>2, AppendEnds
<1>8. EndsIn(ring', M, G) \/ Mentions(unsent', Tells(a)) \/ Mentions(ready', Tells(a))
  <2> HIDE DEF e, M, G, h
  <2>1. /\ e \in M /\ e \in G => EndsIn(ring', M, G)
        /\ e \notin M /\ EndsIn(ring, M, G) => EndsIn(ring', M, G)
    BY <1>1, <1>2, <1>7, DepthAssumption
  <2> QED BY <1>1, <1>5, <1>6, <2>1 DEF Knows, Coming, M, G
<1>9. CASE Subscribed
  <2>1. q' = LastOf(Append(q, e), Depth)
        /\ dropped' = IF Len(q) = Depth THEN dropped + 1 ELSE dropped
    BY <1>9 DEF Publish, Put
  <2>2. EndsIn(q', M, G) \/ Mentions(unsent', Tells(a)) \/ Mentions(ready', Tells(a))
    <3> HIDE DEF e, M, G, h
    <3>1. /\ e \in M /\ e \in G => EndsIn(q', M, G)
          /\ e \notin M /\ EndsIn(q, M, G) => EndsIn(q', M, G)
      BY <2>1, <1>2, <1>7, DepthAssumption
    <3> QED BY <1>1, <1>5, <1>6, <3>1 DEF Knows, Coming, M, G
  <2>3. CASE Len(q) < Depth
    <3>1. q' = Append(q, e) /\ dropped' = dropped
      <4>1. Append(q, e) \in Seq(Stamped) /\ Len(Append(q, e)) <= Depth
        BY <1>2, <1>3, <2>3, DepthAssumption
      <4> HIDE DEF e
      <4>2. LastOf(Append(q, e), Depth) = Append(q, e)
        BY <4>1, LastOfType, DepthAssumption
      <4> QED BY <2>1, <2>3, <4>2, <1>2, DepthAssumption
    <3>2. Mentions(q', M) <=> Mentions(q, M) \/ h \in Tells(a)
      <4> HIDE DEF e, M, h
      <4> QED BY <1>2, <1>3, <1>6, <3>1, AppendEnds
    <3> HIDE DEF h
    <3> QED BY <1>1, <1>4, <1>5, <1>8, <2>2, <3>1, <3>2 DEF Knows, Coming
  <2>4. CASE Len(q) = Depth
    <3>1. dropped' = dropped + 1
      BY <2>1, <2>4
    <3>2. dropped' # 0 /\ (handler = "resync" => dropped' # announced)
      BY <1>2, <3>1 DEF HandlerInv, FeedTypes
    <3> HIDE DEF h
    <3> QED BY <1>1, <1>4, <1>5, <1>8, <2>2, <3>2 DEF Knows, Coming
  <2>5. Len(q) <= Depth
    BY DEF Short
  <2>6. Len(q) \in Nat
    BY <1>2
  <2> QED BY <2>3, <2>4, <2>5, <2>6, DepthAssumption
<1>10. CASE ~Subscribed
  <2>1. q' = q /\ dropped' = dropped /\ handler = "away"
    BY <1>10 DEF Publish, Subscribed
  <2>2. q = <<>> /\ inHand = <<>>
    BY <2>1 DEF HandlerInv
  <2>3. EndsIn(q', M, G) /\ EndsIn(inHand', M, G)
    BY <1>1, <2>1, <2>2, EmptyEnds
  <2> HIDE DEF h
  <2> QED BY <1>1, <1>4, <1>5, <1>8, <2>1, <2>3 DEF Knows, Coming
<1> QED BY <1>9, <1>10

\* The handler: snapshot, replay, queue and resync.
LEMMA HandlerKnows ==
  ASSUME FeedTypes, HandlerInv, NEW a \in Names, Knows(a),
         \/ \E since \in BOOLEAN : Connect(since)
         \/ TakeReplay \/ SendReplay \/ EndReplay \/ Take \/ Resync \/ SendInHand \/ Disconnect
  PROVE  Knows(a)'
<1> DEFINE M == Stamp(Tells(a))
           G == Stamp(Truth(a))
<1>1. UNCHANGED <<active, unsent, ready, ring>>
  BY DEF Connect, TakeReplay, SendReplay, EndReplay, Take, Resync, SendInHand, Disconnect, busVars
<1>2. Truth(a)' = Truth(a)
  BY <1>1 DEF Truth
<1>3. ring \in Seq(Stamped) /\ q \in Seq(Stamped) /\ inHand \in Seq(Stamped) /\ client \in Clients
  BY DEF FeedTypes
<1>e. ~Mentions(<<>>, M) /\ EndsIn(<<>>, M, G)
  BY EmptyEnds
<1>r. ASSUME NEW e \in Stamped, Receive(e)
      PROVE  /\ e \in M /\ e \in G => (a \in client'.alarms <=> a \in active)
             /\ e \notin M => (a \in client'.alarms <=> a \in client.alarms)
  <2>1. e \in G => (e.ev = Edge(a, TRUE) <=> a \in active)
    BY StampTells, TruthTold
  <2> QED BY <1>3, <1>r, <2>1, ReceiveTells
\* q, ready and unsent are as they were.
<1>q. ASSUME UNCHANGED q PROVE EndsIn(q', M, G) \/ Coming(a)'
  BY <1>1, <1>q DEF Knows, Coming
<1>4. ASSUME NEW since \in BOOLEAN, Connect(since) PROVE Knows(a)'
  <2>1. /\ q' = <<>> /\ inHand' = inHand /\ inHand = <<>> /\ client'.alarms = active
    BY <1>3, <1>4 DEF Connect, HandlerInv, ApplySnapshot, Clients
  <2> QED BY <1>1, <1>2, <1>e, <2>1 DEF Knows, Coming
<1>5. CASE TakeReplay
  <2>1. PICK old \in 0 .. Len(ring) : inHand' = SubSeq(ring, old + 1, Len(ring))
    BY <1>5 DEF TakeReplay
  <2>2. EndsIn(ring, M, G) => EndsIn(inHand', M, G)
    BY <1>3, <2>1, SuffixEnds
  <2>3. /\ UNCHANGED <<q, dropped, client, hole, announced>>
        /\ inHand = <<>> /\ handler = "greeted" /\ handler' = "replaying"
    BY <1>5 DEF TakeReplay, busVars, HandlerInv
  <2> QED BY <1>1, <1>2, <1>e, <1>q, <2>2, <2>3 DEF Knows, Coming
<1>6. CASE SendReplay
  <2>1. /\ inHand # <<>> /\ inHand' = Tail(inHand) /\ Receive(Head(inHand))
        /\ handler = "replaying"
        /\ UNCHANGED <<q, dropped, handler, announced, hole>>
    BY <1>6 DEF SendReplay, busVars
  <2>2. /\ Mentions(inHand, M) <=> Head(inHand) \in M \/ Mentions(inHand', M)
        /\ EndsIn(inHand, M, G) =>
             /\ EndsIn(inHand', M, G)
             /\ Mentions(inHand', M) \/ Head(inHand) \notin M \/ Head(inHand) \in G
    BY <1>3, <2>1, TailEnds
  <2>3. /\ Head(inHand) \in M /\ Head(inHand) \in G => (a \in client'.alarms <=> a \in active)
        /\ Head(inHand) \notin M => (a \in client'.alarms <=> a \in client.alarms)
    BY <1>3, <2>1, <1>r
  <2> QED BY <1>1, <1>2, <1>q, <2>1, <2>2, <2>3 DEF Knows, Coming
<1>7. CASE EndReplay
  <2>1. /\ UNCHANGED <<q, dropped, inHand, announced, client, hole>>
        /\ handler = "replaying" /\ handler' = "waiting"
    BY <1>7 DEF EndReplay, busVars
  <2> QED BY <1>1, <1>2, <2>1 DEF Knows, Coming
<1>8. CASE Take
  <2>1. /\ q # <<>> /\ q' = Tail(q) /\ handler = "waiting" /\ inHand = <<>>
        /\ UNCHANGED <<dropped, hole>>
    BY <1>8 DEF Take, HandlerInv
  <2>2. /\ Mentions(q, M) <=> Head(q) \in M \/ Mentions(q', M)
        /\ EndsIn(q, M, G) =>
             /\ EndsIn(q', M, G)
             /\ Mentions(q', M) \/ Head(q) \notin M \/ Head(q) \in G
    BY <1>3, <2>1, TailEnds
  <2>3. CASE dropped = 0
    <3>1. Receive(Head(q)) /\ UNCHANGED <<handler, inHand, announced>>
      BY <1>8, <2>3 DEF Take
    <3>2. /\ Head(q) \in M /\ Head(q) \in G => (a \in client'.alarms <=> a \in active)
          /\ Head(q) \notin M => (a \in client'.alarms <=> a \in client.alarms)
      BY <1>3, <2>1, <3>1, <1>r
    <3> QED BY <1>1, <1>2, <1>e, <2>1, <2>2, <3>1, <3>2 DEF Knows, Coming
  <2>4. CASE dropped # 0
    <3>1. inHand' = <<Head(q)>> /\ handler' = "resync"
      BY <1>8, <2>4 DEF Take
    <3>2. EndsIn(inHand', M, G) <=> (Head(q) \in M => Head(q) \in G)
      BY <3>1, SingleEnds
    <3> QED BY <1>1, <1>2, <2>1, <2>2, <2>4, <3>1, <3>2 DEF Knows, Coming
  <2> QED BY <2>3, <2>4
<1>9. CASE Resync
  <2>1. /\ UNCHANGED <<q, inHand, announced>> /\ dropped' = 0 /\ handler = "resync"
        /\ handler' = "resynced" /\ (hole' <=> dropped # announced)
        /\ client'.alarms = active
    BY <1>3, <1>9 DEF Resync, ApplySnapshot, Clients
  <2> QED BY <1>1, <1>2, <2>1 DEF Knows, Coming
<1>10. CASE SendInHand
  <2>1. /\ inHand' = <<>> /\ Receive(Head(inHand)) /\ Len(inHand) = 1
        /\ handler = "resynced" /\ handler' = "waiting"
        /\ UNCHANGED <<q, dropped, announced, hole>>
    BY <1>10 DEF SendInHand, busVars, HandlerInv
  <2>2. Head(inHand) \in Stamped /\ inHand = <<Head(inHand)>>
    BY <1>3, <2>1, SingleSeq
  <2>3. /\ Mentions(inHand, M) <=> Head(inHand) \in M
        /\ EndsIn(inHand, M, G) <=> (Head(inHand) \in M => Head(inHand) \in G)
    BY <2>2, SingleEnds
  <2>4. /\ Head(inHand) \in M /\ Head(inHand) \in G => (a \in client'.alarms <=> a \in active)
        /\ Head(inHand) \notin M => (a \in client'.alarms <=> a \in client.alarms)
    BY <2>1, <2>2, <1>r
  <2> QED BY <1>1, <1>2, <1>e, <1>q, <2>1, <2>3, <2>4 DEF Knows, Coming
<1>11. CASE Disconnect
  <2>1. q' = <<>> /\ inHand' = <<>> /\ handler' = "away"
    BY <1>11 DEF Disconnect
  <2> QED BY <1>1, <1>2, <1>e, <2>1 DEF Knows, Coming
<1> QED BY <1>4, <1>5, <1>6, <1>7, <1>8, <1>9, <1>10, <1>11

\* A notice says nothing of alarms.
LEMMA PostKnows ==
  ASSUME FeedTypes, NEW a \in Names, Knows(a), PostsNotice
  PROVE  Knows(a)'
<1>1. PICK r \in Reqs : /\ Post(Notice(r))
                        /\ UNCHANGED <<active, unsent, seq, ring, q, dropped, handlerVars>>
  BY DEF PostsNotice
<1>2. ready \in Seq(Events) /\ Notice(r) \in Events /\ Notice(r) \notin Tells(a)
  BY NoticesAreNoEdges DEF FeedTypes, Events
<1>3. ready' = Append(ready, Notice(r))
  BY <1>1 DEF Post
<1>4. Truth(a)' = Truth(a)
  BY <1>1 DEF Truth
<1>5. /\ Mentions(ready', Tells(a)) <=> Mentions(ready, Tells(a))
      /\ EndsIn(ready', Tells(a), Truth(a)) <=> EndsIn(ready, Tells(a), Truth(a))
  BY <1>2, <1>3, AppendEnds
<1> QED BY <1>1, <1>4, <1>5 DEF Knows, Coming, handlerVars

LEMMA ViewStep ==
  FeedTypes /\ HandlerInv /\ Short /\ ViewInv /\ finishing \in Reqs \cup {None} /\ [Next]_vars
    => ViewInv'
<1> SUFFICES ASSUME FeedTypes, HandlerInv, Short, ViewInv, finishing \in Reqs \cup {None},
                    [Next]_vars, NEW a \in Names
             PROVE  Knows(a)'
  BY DEF ViewInv
<1>1. Knows(a)
  BY DEF ViewInv
<1>2. CASE UNCHANGED <<active, unsent, busVars, handlerVars>>
  <2>1. Truth(a)' = Truth(a)
    BY <1>2 DEF Truth
  <2> QED BY <1>1, <1>2, <2>1 DEF Knows, Coming, busVars, handlerVars
<1> QED BY <1>1, <1>2, ChangeKnows, EmitKnows, PublishKnows, HandlerKnows, PostKnows, FeedCases

-------------------------------------------------------------------------------
\* The client, when nothing is under way, knows the active alarms.
LEMMA ViewMeans == FeedTypes /\ HandlerInv /\ ViewInv => ViewIsRight
<1> SUFFICES ASSUME FeedTypes, HandlerInv, ViewInv, Quiet, ~hole PROVE client.alarms = active
  BY DEF ViewIsRight
<1>1. /\ unsent = <<>> /\ ready = <<>> /\ q = <<>> /\ inHand = <<>>
      /\ dropped = 0 /\ handler = "waiting"
  BY DEF Quiet, HandlerInv
<1>2. \A M : ~Mentions(<<>>, M)
  BY EmptyEnds
<1>3. \A a \in Names : a \in client.alarms <=> a \in active
  BY <1>1, <1>2 DEF ViewInv, Knows, Coming
<1> QED BY <1>3 DEF FeedTypes, Clients

-------------------------------------------------------------------------------
\* Every step of the jobs, one case each.
LEMMA JobCases ==
  ASSUME [Next]_vars
  PROVE  \/ UNCHANGED jobVars /\ (WorkerFeeds \/ LoopFeeds \/ UNCHANGED feedVars)
         \/ Write \/ EmitNotice \/ ReadRest
         \/ \E r \in Reqs : \/ \E o \in Settled : Settle(r, o)
                            \/ Submit(r) \/ Answered(r) \/ BudgetExpires(r) \/ ReadState(r)
BY DEF Next, Stream, Worker, Loop, vars

\* The types of the jobs.
LEMMA JobTypesStep == JobTypes /\ RecordInv /\ [Next]_vars => JobTypes'
<1> SUFFICES ASSUME JobTypes, RecordInv, [Next]_vars PROVE JobTypes'
  OBVIOUS
<1> USE DEF JobTypes, JobRecords
<1>1. CASE UNCHANGED jobVars
  BY <1>1 DEF jobVars
<1>2. CASE Write
  <2>1. finishing \in Reqs /\ fut[finishing] \in Settled
    BY <1>2 DEF Write, RecordInv, Record
  <2>2. NextWrite(finishing, job[finishing])
          \in [state : JobState, outcome : Settled \cup {None}, finished : BOOLEAN]
    BY <2>1 DEF NextWrite, StateFor, JobState
  <2> QED BY <1>2, <2>1, <2>2 DEF Write
<1>3. CASE EmitNotice
  BY <1>3 DEF EmitNotice
<1>4. CASE ReadRest
  BY <1>4 DEF ReadRest
<1>5. ASSUME NEW r \in Reqs, NEW o \in Settled, Settle(r, o) PROVE JobTypes'
  BY <1>5 DEF Settle
<1>6. ASSUME NEW r \in Reqs, Submit(r) PROVE JobTypes'
  BY <1>6 DEF Submit
<1>7. ASSUME NEW r \in Reqs, Answered(r) PROVE JobTypes'
  BY <1>7 DEF Answered
<1>8. ASSUME NEW r \in Reqs, BudgetExpires(r) PROVE JobTypes'
  <2>1. fut[r] \in Settled =>
          Whole(r) \in [state : JobState, outcome : Settled \cup {None}, finished : BOOLEAN]
    BY DEF Whole, StateFor, JobState
  <2>2. /\ UNCHANGED <<fut, finishing>> /\ answer' = [answer EXCEPT ![r] = "job"] /\ Register(r)
    BY <1>8 DEF BudgetExpires
  <2> QED BY <2>1, <2>2 DEF Register
<1>9. ASSUME NEW r \in Reqs, ReadState(r) PROVE JobTypes'
  BY <1>9 DEF ReadState
<1> QED BY <1>1, <1>2, <1>3, <1>4, <1>5, <1>6, <1>7, <1>8, <1>9, JobCases

\* What finish() writes, in order.
LEMMA WriteOutcome ==
  ASSUME NEW r \in Reqs, NEW f \in JobRecords, fut[r] \in Settled, NEW g, g = NextWrite(r, f),
         f.outcome = None
  PROVE  g \in JobRecords /\ g.outcome = fut[r] /\ g.state = f.state /\ g.finished = f.finished
<1>1. g = [f EXCEPT !.outcome = fut[r]]
  BY DEF NextWrite
<1> QED BY <1>1 DEF JobRecords

LEMMA WriteState ==
  ASSUME NEW r \in Reqs, NEW f \in JobRecords, fut[r] \in Settled, NEW g, g = NextWrite(r, f),
         f.outcome # None, f.state = "running"
  PROVE  g \in JobRecords /\ g.outcome = f.outcome /\ g.state = StateFor(r) /\ g.finished = f.finished
<1>1. g = [f EXCEPT !.state = StateFor(r)]
  BY DEF NextWrite
<1>2. StateFor(r) \in JobState
  BY DEF StateFor, JobState
<1> QED BY <1>1, <1>2 DEF JobRecords

LEMMA WriteFinished ==
  ASSUME NEW r \in Reqs, NEW f \in JobRecords, fut[r] \in Settled, NEW g, g = NextWrite(r, f),
         f.outcome # None, f.state # "running"
  PROVE  g \in JobRecords /\ g.outcome = f.outcome /\ g.state = f.state /\ g.finished = TRUE
<1>1. g = [f EXCEPT !.finished = TRUE]
  BY DEF NextWrite
<1> QED BY <1>1 DEF JobRecords

LEMMA SameFields ==
  ASSUME NEW f \in JobRecords, NEW g \in JobRecords,
         f.state = g.state, f.outcome = g.outcome, f.finished = g.finished
  PROVE  f = g
BY DEF JobRecords

LEMMA Writes ==
  ASSUME NEW r \in Reqs, fut[r] \in Settled
  PROVE  /\ NextWrite(r, Fresh) = Recorded(r)
         /\ NextWrite(r, Recorded(r)) = Stated(r)
         /\ NextWrite(r, Stated(r)) = Whole(r)
<1>1. fut[r] # None /\ StateFor(r) # "running" /\ StateFor(r) \in JobState
  BY NoneAssumption DEF StateFor, JobState
<1>2. /\ Fresh \in JobRecords /\ Recorded(r) \in JobRecords
      /\ Stated(r) \in JobRecords /\ Whole(r) \in JobRecords
  BY <1>1 DEF Fresh, Recorded, Stated, Whole, JobRecords, JobState
<1>3. /\ Fresh.state = "running" /\ Fresh.outcome = None /\ Fresh.finished = FALSE
      /\ Recorded(r).state = "running" /\ Recorded(r).outcome = fut[r] /\ Recorded(r).finished = FALSE
      /\ Stated(r).state = StateFor(r) /\ Stated(r).outcome = fut[r] /\ Stated(r).finished = FALSE
      /\ Whole(r).state = StateFor(r) /\ Whole(r).outcome = fut[r] /\ Whole(r).finished = TRUE
  BY DEF Fresh, Recorded, Stated, Whole
<1>4. NextWrite(r, Fresh) = Recorded(r)
  <2>1. PICK g : g = NextWrite(r, Fresh)
    OBVIOUS
  <2>2. Fresh \in JobRecords /\ Fresh.outcome = None
    BY <1>1, <1>2, <1>3
  <2>3. g \in JobRecords /\ g.outcome = fut[r] /\ g.state = Fresh.state /\ g.finished = Fresh.finished
    BY <2>1, <2>2, WriteOutcome
  <2>4. g.state = Recorded(r).state /\ g.outcome = Recorded(r).outcome /\ g.finished = Recorded(r).finished
    BY <1>3, <2>3
  <2> QED BY <1>2, <2>1, <2>3, <2>4, SameFields
<1>5. NextWrite(r, Recorded(r)) = Stated(r)
  <2>1. PICK g : g = NextWrite(r, Recorded(r))
    OBVIOUS
  <2>2. Recorded(r) \in JobRecords /\ Recorded(r).outcome # None /\ Recorded(r).state = "running"
    BY <1>1, <1>2, <1>3
  <2>3. g \in JobRecords /\ g.outcome = Recorded(r).outcome /\ g.state = StateFor(r) /\ g.finished = Recorded(r).finished
    BY <2>1, <2>2, WriteState
  <2>4. g.state = Stated(r).state /\ g.outcome = Stated(r).outcome /\ g.finished = Stated(r).finished
    BY <1>3, <2>3
  <2> QED BY <1>2, <2>1, <2>3, <2>4, SameFields
<1>6. NextWrite(r, Stated(r)) = Whole(r)
  <2>1. PICK g : g = NextWrite(r, Stated(r))
    OBVIOUS
  <2>2. Stated(r) \in JobRecords /\ Stated(r).outcome # None /\ Stated(r).state # "running"
    BY <1>1, <1>2, <1>3
  <2>3. g \in JobRecords /\ g.outcome = Stated(r).outcome /\ g.state = Stated(r).state /\ g.finished = TRUE
    BY <2>1, <2>2, WriteFinished
  <2>4. g.state = Whole(r).state /\ g.outcome = Whole(r).outcome /\ g.finished = Whole(r).finished
    BY <1>3, <2>3
  <2> QED BY <1>2, <2>1, <2>3, <2>4, SameFields
<1> QED BY <1>4, <1>5, <1>6

\* The record of a job through the stages of finish().
LEMMA RecordStep == JobTypes /\ RecordInv /\ [Next]_vars => RecordInv'
<1> SUFFICES ASSUME JobTypes, RecordInv, [Next]_vars, NEW s \in Reqs PROVE Record(s)'
  BY DEF RecordInv
<1>0. Record(s) /\ (finishing \in Reqs => Record(finishing))
  BY DEF RecordInv
<1>t. /\ fut \in [Reqs -> {"none", "pending"} \cup Settled]
      /\ answer \in [Reqs -> {"none", "awaited", "job"} \cup Settled]
      /\ DOMAIN job = Reqs
  BY DEF JobTypes
<1> USE DEF Record, Over, Recorded, Stated, Whole, StateFor
<1>1. CASE UNCHANGED jobVars
  BY <1>0, <1>1 DEF jobVars
<1>2. CASE Write
  <2>1. /\ finishing \in Reqs /\ job' = [job EXCEPT ![finishing] = NextWrite(finishing, job[finishing])]
        /\ ~job[finishing].finished
        /\ UNCHANGED <<fut, answer, callbacks, finishing>>
    BY <1>2 DEF Write, JobTypes
  <2>2. CASE s # finishing
    BY <1>0, <1>t, <2>1, <2>2
  <2>3. CASE s = finishing
    <3>1. /\ answer[s] = "job" /\ fut[s] \in Settled
          /\ fut[s] # None
          /\ job'[s] = NextWrite(s, job[s])
      BY <1>0, <1>t, <2>1, <2>3, NoneAssumption
    <3>2. CASE job[s] = Fresh
      <4>1. job'[s] = Recorded(s)
        BY <3>1, <3>2, Writes
      <4> QED BY <1>0, <2>1, <2>3, <3>1, <4>1
    <3>3. CASE job[s] = Recorded(s)
      <4>1. job'[s] = Stated(s)
        BY <3>1, <3>3, Writes
      <4> QED BY <1>0, <2>1, <2>3, <3>1, <4>1
    <3>4. CASE job[s] = Stated(s)
      <4>1. job'[s] = Whole(s)
        BY <3>1, <3>4, Writes
      <4> QED BY <1>0, <2>1, <2>3, <3>1, <4>1
    <3>5. CASE Over(s)
      BY <2>1, <2>3, <3>5
    <3> QED BY <1>0, <3>2, <3>3, <3>4, <3>5
  <2> QED BY <2>2, <2>3
<1>3. CASE EmitNotice
  <2>1. finishing \in Reqs /\ job[finishing].finished /\ finishing' = None
        /\ UNCHANGED <<fut, answer, job, callbacks>>
    BY <1>3 DEF EmitNotice, Complete, JobTypes
  <2>2. s # None
    BY NoneAssumption
  <2>3. s = finishing => Over(s)
    BY <1>0, <2>1 DEF Fresh
  <2> QED BY <1>0, <2>1, <2>2, <2>3
<1>4. CASE ReadRest
  BY <1>0, <1>4 DEF ReadRest
<1>5. ASSUME NEW r \in Reqs, NEW o \in Settled, Settle(r, o) PROVE Record(s)'
  <2>1. /\ fut[r] = "pending" /\ finishing = None /\ fut' = [fut EXCEPT ![r] = o]
        /\ finishing' = (IF r \in callbacks THEN r ELSE None)
        /\ UNCHANGED <<answer, job, callbacks>> /\ s # None
    BY <1>5, NoneAssumption DEF Settle, WorkerFree
  <2>2. CASE s = r
    <3>1. job[s] = Fresh /\ fut'[s] = o /\ fut[s] \notin Settled
      BY <1>0, <1>t, <2>1, <2>2 DEF Settled
    <3>2. o # "none"
      BY DEF Settled
    <3> QED BY <1>0, <2>1, <2>2, <3>1, <3>2
  <2>3. CASE s # r
    BY <1>0, <1>t, <2>1, <2>3
  <2> QED BY <2>2, <2>3
<1>6. ASSUME NEW r \in Reqs, Submit(r) PROVE Record(s)'
  <2>1. /\ fut[r] = "none" /\ fut' = [fut EXCEPT ![r] = "pending"]
        /\ answer' = [answer EXCEPT ![r] = "awaited"]
        /\ UNCHANGED <<job, callbacks, finishing>>
    BY <1>6 DEF Submit
  <2>2. CASE s = r
    BY <1>0, <1>t, <2>1, <2>2 DEF Settled
  <2>3. CASE s # r
    BY <1>0, <1>t, <2>1, <2>3
  <2> QED BY <2>2, <2>3
<1>7. ASSUME NEW r \in Reqs, Answered(r) PROVE Record(s)'
  <2>1. /\ answer[r] = "awaited" /\ fut[r] \in Settled /\ answer' = [answer EXCEPT ![r] = fut[r]]
        /\ UNCHANGED <<fut, job, callbacks, finishing>>
    BY <1>7 DEF Answered
  <2>2. CASE s = r
    BY <1>0, <1>t, <2>1, <2>2 DEF Settled
  <2>3. CASE s # r
    BY <1>0, <1>t, <2>1, <2>3
  <2> QED BY <2>2, <2>3
<1>8. ASSUME NEW r \in Reqs, BudgetExpires(r) PROVE Record(s)'
  <2>1. /\ answer[r] = "awaited" /\ answer' = [answer EXCEPT ![r] = "job"] /\ Register(r)
        /\ UNCHANGED <<fut, finishing>>
    BY <1>8 DEF BudgetExpires
  <2>2. CASE s = r
    <3>1. job[s] = Fresh /\ finishing # s /\ fut[s] # "none" /\ answer'[s] = "job"
      BY <1>0, <1>t, <2>1, <2>2
    <3>2. CASE fut[s] \in Settled
      <4>1. job' = [job EXCEPT ![s] = Whole(s)] /\ callbacks' = callbacks
        BY <2>1, <2>2, <3>2 DEF Register
      <4>2. job'[s] = Whole(s)
        BY <1>t, <4>1
      <4> QED BY <2>1, <3>1, <3>2, <4>1, <4>2
    <3>3. CASE fut[s] \notin Settled
      <4>1. callbacks' = callbacks \cup {s} /\ job' = job
        BY <2>1, <2>2, <3>3 DEF Register
      <4> QED BY <2>1, <3>1, <3>3, <4>1
    <3> QED BY <3>2, <3>3
  <2>3. CASE s # r
    <3>1. job'[s] = job[s] /\ (s \in callbacks' <=> s \in callbacks) /\ answer'[s] = answer[s]
      BY <1>t, <2>1, <2>3 DEF Register
    <3> QED BY <1>0, <2>1, <3>1
  <2> QED BY <2>2, <2>3
<1>9. ASSUME NEW r \in Reqs, ReadState(r) PROVE Record(s)'
  BY <1>0, <1>9 DEF ReadState
<1> QED BY <1>1, <1>2, <1>3, <1>4, <1>5, <1>6, <1>7, <1>8, <1>9, JobCases

-------------------------------------------------------------------------------
\* What is settled, written and over stays so.
LEMMA Lasting ==
  ASSUME JobTypes, RecordInv, [Next]_vars, NEW r \in Reqs, fut[r] \in Settled
  PROVE  /\ fut'[r] = fut[r]
         /\ job[r].outcome = fut[r] => job'[r].outcome = fut[r]
         /\ Over(r) => Over(r)'
<1>0. /\ fut \in [Reqs -> {"none", "pending"} \cup Settled] /\ DOMAIN job = Reqs
      /\ answer \in [Reqs -> {"none", "awaited", "job"} \cup Settled]
      /\ job[r] \in JobRecords
  BY DEF JobTypes, JobRecords
<1>1. fut'[r] = fut[r] /\ (answer[r] = "job" => answer'[r] = "job")
  <2>1. ASSUME NEW s \in Reqs, \/ \E o \in Settled : Settle(s, o)
                               \/ Submit(s) \/ Answered(s) \/ BudgetExpires(s) \/ ReadState(s)
        PROVE  fut'[r] = fut[r] /\ (answer[r] = "job" => answer'[r] = "job")
    BY <1>0, <2>1 DEF Settle, Submit, Answered, BudgetExpires, ReadState, Settled
  <2>2. ASSUME UNCHANGED jobVars \/ Write \/ EmitNotice \/ ReadRest
        PROVE  fut'[r] = fut[r] /\ answer'[r] = answer[r]
    BY <2>2 DEF jobVars, Write, EmitNotice, ReadRest
  <2> QED BY <2>1, <2>2, JobCases
<1>2. CASE Write /\ finishing = r
  <2>1. job'[r] = NextWrite(r, job[r]) /\ ~job[r].finished
    BY <1>0, <1>2 DEF Write
  <2>2. job[r].outcome = fut[r] => job'[r].outcome = fut[r]
    <3> HAVE job[r].outcome = fut[r]
    <3>1. job[r].outcome # None
      BY NoneAssumption
    <3>a. PICK f \in JobRecords : f = job[r]
      BY <1>0
    <3>b. PICK g : g = NextWrite(r, f)
      OBVIOUS
    <3>2. f = job[r] /\ g = NextWrite(r, f)
      BY <3>a, <3>b
    <3>3. f.outcome # None => g.outcome = f.outcome
      <4>1. f.outcome # None /\ f.state = "running" => g.outcome = f.outcome
        BY <3>2, WriteState
      <4>2. f.outcome # None /\ f.state # "running" => g.outcome = f.outcome
        BY <3>2, WriteFinished
      <4> QED BY <4>1, <4>2
    <3> QED BY <2>1, <3>1, <3>2, <3>3
  <2>3. ~Over(r)
    BY <2>1 DEF Over, Whole
  <2> QED BY <1>1, <2>2, <2>3
<1>3. CASE job'[r] = job[r]
  BY <1>1, <1>3 DEF Over, Whole, StateFor
<1>4. CASE BudgetExpires(r)
  <2>1. answer[r] = "awaited" /\ Register(r)
    BY <1>4 DEF BudgetExpires
  <2>2. job'[r] = Whole(r)
    BY <1>0, <2>1 DEF Register
  <2> QED BY <1>1, <2>1, <2>2 DEF Whole, Over
<1>5. \/ job'[r] = job[r] \/ (Write /\ finishing = r) \/ BudgetExpires(r)
  <2>1. ASSUME NEW s \in Reqs, s # r, BudgetExpires(s) PROVE job'[r] = job[r]
    BY <1>0, <2>1 DEF BudgetExpires, Register
  <2>2. ASSUME NEW s \in Reqs, \/ \E o \in Settled : Settle(s, o)
                               \/ Submit(s) \/ Answered(s) \/ ReadState(s)
        PROVE  job'[r] = job[r]
    BY <2>2 DEF Settle, Submit, Answered, ReadState
  <2>3. ASSUME UNCHANGED jobVars \/ EmitNotice \/ ReadRest PROVE job'[r] = job[r]
    BY <2>3 DEF jobVars, EmitNotice, ReadRest
  <2>4. ASSUME Write, finishing # r PROVE job'[r] = job[r]
    BY <1>0, <2>4 DEF Write
  <2> QED BY <2>1, <2>2, <2>3, <2>4, JobCases
<1> QED BY <1>2, <1>3, <1>4, <1>5

\* A record that is not running has its outcome.
LEMMA StatedHasOutcome ==
  ASSUME NEW r \in Reqs, Record(r), job[r].state # "running"
  PROVE  fut[r] \in Settled /\ job[r].outcome = fut[r]
BY DEF Record, Over, Fresh, Recorded, Stated, Whole

\* as_dict reads the state first.
LEMMA ReaderStep ==
  JobTypes /\ RecordInv /\ ReadingInv /\ SeenInv /\ [Next]_vars => ReadingInv' /\ SeenInv'
<1> SUFFICES ASSUME JobTypes, RecordInv, ReadingInv, SeenInv, [Next]_vars
             PROVE  ReadingInv' /\ SeenInv'
  OBVIOUS
<1>1. ASSUME UNCHANGED reading PROVE ReadingInv'
  BY <1>1, Lasting DEF ReadingInv
<1>2. ASSUME UNCHANGED seen PROVE SeenInv'
  BY <1>2, Lasting DEF SeenInv
<1>3. ASSUME NEW r \in Reqs, ReadState(r) PROVE ReadingInv' /\ SeenInv'
  <2>1. UNCHANGED <<fut, job>> /\ Record(r)
    BY <1>3 DEF ReadState, RecordInv
  <2>2. CASE reading' = [r |-> r, state |-> job[r].state] /\ UNCHANGED seen
    BY <1>2, <2>1, <2>2, StatedHasOutcome DEF ReadingInv
  <2>3. CASE seen' = Shown(r, "404", None) /\ UNCHANGED reading
    <3>1. \A s, st, oc : seen' = Shown(s, st, oc) => st = "404"
      BY <2>3 DEF Shown
    <3> QED BY <1>1, <2>3, <3>1 DEF SeenInv
  <2> QED BY <1>3, <2>2, <2>3 DEF ReadState
<1>4. CASE ReadRest
  <2>1. /\ reading # None /\ reading' = None /\ UNCHANGED <<fut, job>>
        /\ seen' = Shown(reading.r, reading.state, job[reading.r].outcome)
    BY <1>4 DEF ReadRest
  <2>2. \A s, st, oc : seen' = Shown(s, st, oc) =>
           s = reading.r /\ st = reading.state /\ oc = job[reading.r].outcome
    BY <2>1 DEF Shown
  <2>3. ReadingInv'
    BY <2>1 DEF ReadingInv
  <2>4. SeenInv'
    BY <2>1, <2>2 DEF SeenInv, ReadingInv
  <2> QED BY <2>3, <2>4
<1>5. \/ ReadRest \/ (\E r \in Reqs : ReadState(r)) \/ UNCHANGED <<reading, seen>>
  <2>1. ASSUME NEW s \in Reqs, \/ \E o \in Settled : Settle(s, o)
                               \/ Submit(s) \/ Answered(s) \/ BudgetExpires(s)
        PROVE  UNCHANGED <<reading, seen>>
    BY <2>1 DEF Settle, Submit, Answered, BudgetExpires
  <2>2. ASSUME UNCHANGED jobVars \/ Write \/ EmitNotice PROVE UNCHANGED <<reading, seen>>
    BY <2>2 DEF jobVars, Write, EmitNotice
  <2> QED BY <2>1, <2>2, JobCases
<1> QED BY <1>1, <1>2, <1>3, <1>4, <1>5

-------------------------------------------------------------------------------
\* The stream makes no event of its own but edges.
Carried == InStream \cup EdgeEvents

LEMMA StreamKeeps ==
  ASSUME FeedTypes, HandlerInv, WorkerFeeds \/ LoopFeeds
  PROVE  InStream' \subseteq Carried
<1> DEFINE Fine(s) == \A e \in ToSet(s) : e.ev \in Carried
<1>t. /\ ready \in Seq(Events) /\ ring \in Seq(Stamped) /\ q \in Seq(Stamped)
      /\ inHand \in Seq(Stamped) /\ client \in Clients /\ unsent \in Seq(EdgeEvents)
  BY DEF FeedTypes
<1>0. /\ Fine(ring) /\ Fine(q) /\ Fine(inHand) /\ Fine(<<>>)
      /\ ToSet(ready) \subseteq Carried /\ client.jobs \subseteq Carried
  BY EmptySet DEF Carried, InStream
<1>s. ASSUME ToSet(ready') \subseteq Carried, client'.jobs \subseteq Carried,
             Fine(ring'), Fine(q'), Fine(inHand')
      PROVE  InStream' \subseteq Carried
  BY <1>s DEF InStream
<1>r. ASSUME NEW e \in Stamped, e.ev \in Carried, Receive(e) PROVE client'.jobs \subseteq Carried
  BY <1>t, <1>0, <1>r, ReceiveType
<1>h. ASSUME NEW s \in Seq(Stamped), s # <<>>, Fine(s)
      PROVE  Head(s) \in Stamped /\ Head(s).ev \in Carried /\ Fine(Tail(s)) /\ Fine(<<Head(s)>>)
  <2>1. ToSet(s) = ToSet(Tail(s)) \cup {Head(s)} /\ Head(s) \in Stamped
    BY <1>h, TailSet
  <2>2. ToSet(<<Head(s)>>) = {Head(s)}
    BY DEF ToSet
  <2> QED BY <1>h, <2>1, <2>2
<1> HIDE DEF Fine
<1>1. ASSUME NEW new \in SUBSET Names, ChangeAlarms(new) PROVE InStream' \subseteq Carried
  BY <1>0, <1>1, <1>s DEF ChangeAlarms, busVars, handlerVars
<1>2. CASE EmitEdge
  <2>1. Head(unsent) \in EdgeEvents /\ ready' = Append(ready, Head(unsent))
    BY <1>2, <1>t DEF EmitEdge, Post
  <2>2. ToSet(ready') = ToSet(ready) \cup {Head(unsent)}
    BY <1>t, <2>1, EdgeTypes, AppendSet DEF Events
  <2>3. ToSet(ready') \subseteq Carried
    BY <1>0, <2>1, <2>2 DEF Carried
  <2>4. UNCHANGED <<client, ring, q, inHand>>
    BY <1>2 DEF EmitEdge, handlerVars
  <2> QED BY <1>0, <1>s, <2>3, <2>4
<1>3. CASE Publish
  <2> DEFINE e == Numbered(seq + 1, Head(ready))
  <2>1. /\ ready # <<>> /\ ready' = Tail(ready) /\ ring' = LastOf(Append(ring, e), Replay)
        /\ q' = q \/ q' = LastOf(Append(q, e), Depth)
        /\ UNCHANGED <<client, inHand>>
    BY <1>3 DEF Publish, Put, handlerVars
  <2>2. ToSet(ready) = ToSet(ready') \cup {Head(ready)} /\ Head(ready) \in Events
    BY <1>t, <2>1, TailSet
  <2>3. e \in Stamped /\ e.ev \in Carried
    BY <1>0, <2>2 DEF Numbered, Stamped, FeedTypes
  <2> HIDE DEF e
  <2>4. ASSUME NEW s \in Seq(Stamped), NEW n \in Nat, Fine(s) PROVE Fine(LastOf(Append(s, e), n))
    <3>1. Append(s, e) \in Seq(Stamped) /\ ToSet(Append(s, e)) = ToSet(s) \cup {e}
      BY <2>3, AppendSet
    <3>2. ToSet(LastOf(Append(s, e), n)) \subseteq ToSet(Append(s, e))
      BY <3>1, LastOfType
    <3> QED BY <2>3, <2>4, <3>1, <3>2 DEF Fine
  <2>5. Fine(ring') /\ Fine(q')
    BY <1>t, <1>0, <2>1, <2>4, DepthAssumption
  <2> QED BY <1>0, <1>s, <2>1, <2>2, <2>5
<1>4. ASSUME NEW since \in BOOLEAN, Connect(since) PROVE InStream' \subseteq Carried
  <2>1. /\ q' = <<>> /\ client'.jobs = client.jobs /\ UNCHANGED <<ready, ring, inHand>>
    BY <1>t, <1>4 DEF Connect, ApplySnapshot, Clients
  <2> QED BY <1>0, <1>s, <2>1
<1>5. CASE TakeReplay
  <2>1. PICK old \in 0 .. Len(ring) : inHand' = SubSeq(ring, old + 1, Len(ring))
    BY <1>5 DEF TakeReplay
  <2>2. old + 1 \in 1 .. Len(ring) + 1 /\ Len(ring) \in 0 .. Len(ring)
    BY <1>t
  <2>3. ToSet(inHand') \subseteq ToSet(ring)
    BY <1>t, <2>1, <2>2, SubSeqSet
  <2>4. Fine(inHand')
    BY <1>0, <2>3 DEF Fine
  <2> QED BY <1>0, <1>5, <1>s, <2>4 DEF TakeReplay, busVars
<1>6. CASE SendReplay
  <2>1. /\ inHand # <<>> /\ inHand' = Tail(inHand) /\ Receive(Head(inHand))
        /\ UNCHANGED <<ready, ring, q>>
    BY <1>6 DEF SendReplay, busVars
  <2>2. Fine(inHand') /\ client'.jobs \subseteq Carried
    BY <1>t, <1>0, <1>r, <1>h, <2>1
  <2> QED BY <1>0, <1>s, <2>1, <2>2
<1>7. CASE EndReplay
  BY <1>0, <1>7, <1>s DEF EndReplay, busVars
<1>8. CASE Take
  <2>1. /\ q # <<>> /\ q' = Tail(q) /\ UNCHANGED <<ready, ring>>
        /\ \/ Receive(Head(q)) /\ UNCHANGED inHand
           \/ inHand' = <<Head(q)>> /\ UNCHANGED client
    BY <1>8 DEF Take
  <2>2. Head(q) \in Stamped /\ Head(q).ev \in Carried /\ Fine(q') /\ Fine(<<Head(q)>>)
    BY <1>t, <1>0, <1>h, <2>1
  <2>3. Fine(inHand') /\ client'.jobs \subseteq Carried
    BY <1>0, <1>r, <2>1, <2>2
  <2> QED BY <1>0, <1>s, <2>1, <2>2, <2>3
<1>9. CASE Resync
  <2>1. client'.jobs = client.jobs /\ UNCHANGED <<ready, ring, q, inHand>>
    BY <1>t, <1>9 DEF Resync, ApplySnapshot, Clients
  <2> QED BY <1>0, <1>s, <2>1
<1>10. CASE SendInHand
  <2>1. /\ inHand' = <<>> /\ Receive(Head(inHand)) /\ Len(inHand) = 1 /\ UNCHANGED <<ready, ring, q>>
    BY <1>10 DEF SendInHand, busVars, HandlerInv
  <2>2. inHand # <<>>
    BY <1>t, <2>1, SingleSeq
  <2>3. client'.jobs \subseteq Carried
    BY <1>t, <1>0, <1>r, <1>h, <2>1, <2>2
  <2> QED BY <1>0, <1>s, <2>1, <2>3
<1>11. CASE Disconnect
  BY <1>0, <1>11, <1>s DEF Disconnect
<1> QED BY <1>1, <1>2, <1>3, <1>4, <1>5, <1>6, <1>7, <1>8, <1>9, <1>10, <1>11
        DEF WorkerFeeds, LoopFeeds, Serve

\* The notice is the last that finish() does.
LEMMA NoticeStep ==
  ASSUME FeedTypes, HandlerInv, JobTypes, RecordInv, NoticeInv, [Next]_vars
  PROVE  NoticeInv'
<1>1. ASSUME NEW r \in Reqs, Notice(r) \in InStream PROVE Over(r)'
  BY <1>1, Lasting DEF NoticeInv, Over
<1>2. ASSUME InStream' \subseteq Carried PROVE NoticeInv'
  <2>1. \A r \in Reqs : Notice(r) \in InStream' => Notice(r) \in InStream
    BY <1>2, NoticesAreNoEdges DEF Carried
  <2> QED BY <1>1, <2>1 DEF NoticeInv
<1>3. ASSUME UNCHANGED feedVars PROVE NoticeInv'
  <2>1. InStream' = InStream
    BY <1>3 DEF feedVars, busVars, handlerVars, InStream
  <2> QED BY <1>2, <2>1 DEF Carried
\* A notice that is posted is of a job that is over.
<1>4. ASSUME NEW r \in Reqs, Post(Notice(r)), Over(r)', UNCHANGED <<ring, q, handlerVars>>
      PROVE  NoticeInv'
  <2>1. ready \in Seq(Events) /\ Notice(r) \in Events
    BY DEF FeedTypes, Events
  <2>2. ToSet(ready') = ToSet(ready) \cup {Notice(r)}
    BY <1>4, <2>1, AppendSet DEF Post
  <2>3. InStream' = InStream \cup {Notice(r)}
    BY <1>4, <2>2 DEF InStream, handlerVars
  <2>4. \A s \in Reqs : Notice(s) = Notice(r) => s = r
    <3>1. \A s \in Reqs : Notice(s).job = s
      BY DEF Notice
    <3> QED BY <3>1
  <2> QED BY <1>1, <1>4, <2>3, <2>4 DEF NoticeInv
<1>5. CASE Stream
  BY <1>2, <1>5, StreamKeeps DEF Stream
<1>6. CASE UNCHANGED vars
  BY <1>3, <1>6 DEF vars
<1>7. CASE EmitNotice
  <2>1. PICK r \in Reqs : r = finishing
    BY <1>7 DEF EmitNotice, JobTypes
  <2>2. /\ job[r].finished /\ Post(Notice(r))
        /\ UNCHANGED <<ring, q, handlerVars, fut, answer, job>>
    BY <1>7, <2>1 DEF EmitNotice, Complete
  <2>3. Over(r)
    BY <2>2 DEF RecordInv, Record, Fresh, Recorded, Stated
  <2>4. Over(r)'
    BY <2>2, <2>3 DEF Over, Whole, StateFor
  <2> QED BY <1>4, <2>2, <2>4
<1>8. ASSUME NEW r \in Reqs, BudgetExpires(r) PROVE NoticeInv'
  <2>1. /\ answer' = [answer EXCEPT ![r] = "job"] /\ Register(r)
        /\ UNCHANGED <<active, unsent, seq, ring, q, dropped, handlerVars, changes, connects, fut>>
    BY <1>8 DEF BudgetExpires
  <2>2. CASE fut[r] \in Settled
    <3>1. job' = [job EXCEPT ![r] = Whole(r)] /\ Post(Notice(r))
      BY <2>1, <2>2 DEF Register
    <3>2. job'[r] = Whole(r) /\ answer'[r] = "job"
      BY <2>1, <3>1 DEF JobTypes
    <3>3. Over(r)'
      BY <2>1, <2>2, <3>2 DEF Over, Whole, StateFor
    <3> QED BY <1>4, <2>1, <3>1, <3>3
  <2>3. CASE fut[r] \notin Settled
    BY <1>3, <2>1, <2>3 DEF Register, feedVars, busVars
  <2> QED BY <2>2, <2>3
<1>9. CASE Write \/ ReadRest
  BY <1>3, <1>9 DEF Write, ReadRest
<1>10. ASSUME NEW r \in Reqs, \/ \E o \in Settled : Settle(r, o)
                              \/ Submit(r) \/ Answered(r) \/ ReadState(r)
       PROVE  NoticeInv'
  BY <1>3, <1>10 DEF Settle, Submit, Answered, ReadState
<1> QED BY <1>5, <1>6, <1>7, <1>8, <1>9, <1>10 DEF Next, Worker, Loop

-------------------------------------------------------------------------------
\* All of it: each part is preserved with the help of those before it.
Inv == /\ FeedTypes /\ HandlerInv /\ Short /\ ViewInv
       /\ JobTypes /\ RecordInv /\ ReadingInv /\ SeenInv /\ NoticeInv

LEMMA InvInit == Init => Inv
<1> SUFFICES ASSUME Init PROVE Inv
  OBVIOUS
<1> USE DEF Init, FeedInit, JobInit
<1>1. FeedTypes
  <2>1. client \in Clients
    BY DEF Clients
  <2>2. \A S : <<>> \in Seq(S)
    OBVIOUS
  <2> QED BY <2>1, <2>2 DEF FeedTypes
<1>2. HandlerInv /\ Short
  BY DepthAssumption DEF HandlerInv, Short
<1>3. ViewInv
  BY EmptyEnds DEF ViewInv, Knows, Coming
<1>4. JobTypes
  BY DEF JobTypes, JobRecords, Fresh, JobState
<1>5. RecordInv
  BY NoneAssumption DEF RecordInv, Record
<1>6. ReadingInv
  BY DEF ReadingInv
<1>7. SeenInv
  BY NoneAssumption DEF SeenInv, Shown
<1>8. NoticeInv
  BY EmptySet DEF NoticeInv, InStream
<1> QED BY <1>1, <1>2, <1>3, <1>4, <1>5, <1>6, <1>7, <1>8 DEF Inv

LEMMA InvStep == Inv /\ [Next]_vars => Inv'
<1> SUFFICES ASSUME Inv, [Next]_vars PROVE Inv'
  OBVIOUS
<1> USE DEF Inv
<1>0. finishing \in Reqs \cup {None}
  BY DEF JobTypes
<1>1. FeedTypes' /\ HandlerInv' /\ Short' /\ ViewInv'
  BY <1>0, FeedTypesStep, HandlerStep, ShortStep, ViewStep
<1>2. JobTypes' /\ RecordInv' /\ ReadingInv' /\ SeenInv' /\ NoticeInv'
  BY JobTypesStep, RecordStep, ReaderStep, NoticeStep
<1> QED BY <1>1, <1>2

\* The invariant holds in every reachable state.
LEMMA Invariant == Spec => []Inv
BY InvInit, InvStep, PTL DEF Spec

\* A client that applied what events() and publish_nowait sent it knows the active
\* alarms, unless a resync marker forgot a drop.
THEOREM ClientKnows == Spec => []ViewIsRight
<1>1. Inv => ViewIsRight
  BY ViewMeans DEF Inv
<1> QED BY <1>1, Invariant, PTL

\* No reader of as_dict sees a job that is over without its outcome, wherever
\* finish() is between two of its writes.
THEOREM NoTornRead == Spec => []OverHasOutcome
<1>1. Inv => OverHasOutcome
  BY DEF Inv, SeenInv, OverHasOutcome
<1> QED BY <1>1, Invariant, PTL

\* A client that was sent the event finish() emits finds the job over, by
\* whichever way the event reached it: queue, replay or resync.
THEOREM NoticeLast == Spec => []NoticeComesLast
<1>1. Inv => NoticeComesLast
  BY DEF Inv, NoticeInv, InStream, NoticeComesLast, Over
<1> QED BY <1>1, Invariant, PTL

\* The outcome of a command reaches the job that _run answered with, also when
\* the future settles as the budget runs out.
THEOREM OutcomeKept == Spec => []OutcomeNotLost
<1>1. Inv => OutcomeNotLost
  BY DEF Inv, RecordInv, Record, Over, OutcomeNotLost
<1> QED BY <1>1, Invariant, PTL
===============================================================================
