------------------------------- MODULE EventBus -------------------------------
(***************************************************************************)
(* The event stream of the service: WorkerBridge and EventBus of           *)
(* api/events.py, the WebSocket handler of api/app.py, and what a client   *)
(* that applies the stream knows of the active alarms.                     *)
(*                                                                         *)
(* Two threads: the worker changes the alarm set and then posts the edges, *)
(* one by one, into the event loop; the loop runs posted callbacks and the *)
(* handler.  A step of the loop is the code between two awaits.            *)
(***************************************************************************)
EXTENDS Naturals, Sequences, SequencesExt, FiniteSets

CONSTANTS Names,       \* alarms
          Depth,       \* QUEUE_DEPTH of a subscriber
          Replay,      \* length of the replay ring
          MaxChange,   \* bound: changes of the alarm set
          MaxConnect,  \* bound: connections the client makes
          None

ASSUME NamesAssumption == IsFiniteSet(Names)
ASSUME DepthAssumption == Depth \in Nat \ {0} /\ Replay \in Nat
ASSUME ConnectAssumption == MaxChange \in Nat /\ MaxConnect \in Nat

VARIABLES
  active, unsent,        \* AlarmTracker.active; edges the worker has yet to emit
  ready,                 \* callbacks the event loop has yet to run, in order
  seq, ring,             \* EventBus._seq, _ring
  q, dropped,            \* Subscriber.q, Subscriber.dropped
  handler,               \* where events() is
  inHand,                \* the event it has taken, or the replay it has left
  announced,             \* ghost: the count in the last resync marker
  client,                \* what it knows: alarms, finished jobs, last seq seen
  hole,                  \* ghost: the last resync forgot a drop
  changes, connects

busVars     == <<ready, seq, ring, q, dropped>>
handlerVars == <<handler, inHand, announced, client, hole>>
feedVars    == <<active, unsent, busVars, handlerVars, changes, connects>>

Edge(a, on) == [alarm |-> a, on |-> on]
EdgeEvents  == [alarm : Names, on : BOOLEAN]

\* A published event has a number.
Numbered(n, ev) == [n |-> n, ev |-> ev]

Subscribed == handler # "away"

FeedInit ==
  /\ active = {} /\ unsent = <<>> /\ ready = <<>> /\ seq = 0 /\ ring = <<>>
  /\ q = <<>> /\ dropped = 0 /\ handler = "away" /\ inHand = <<>>
  /\ announced = 0 /\ client = [alarms |-> {}, jobs |-> {}, last |-> 0] /\ hole = FALSE
  /\ changes = 0 /\ connects = 0

-------------------------------------------------------------------------------
\* The worker thread.

\* snapshot() of the tracker: the set is replaced, then the events are emitted.
ChangeAlarms(new) ==
  /\ changes < MaxChange /\ unsent = <<>> /\ new # active
  /\ changes' = changes + 1 /\ active' = new
  /\ unsent' = SetToSeq({Edge(a, TRUE) : a \in new \ active})
                 \o SetToSeq({Edge(a, FALSE) : a \in active \ new})
  /\ UNCHANGED <<busVars, handlerVars, connects>>

\* WorkerBridge.emit, by call_soon_threadsafe.
Post(ev) == ready' = Append(ready, ev)

EmitEdge ==
  /\ unsent # <<>> /\ Post(Head(unsent)) /\ unsent' = Tail(unsent)
  /\ UNCHANGED <<active, seq, ring, q, dropped, handlerVars, changes, connects>>

-------------------------------------------------------------------------------
\* The event loop: publish_nowait.

LastOf(s, n) == SubSeq(s, 1 + Len(s) - (IF Len(s) < n THEN Len(s) ELSE n), Len(s))

\* variant: the oldest event makes room and nobody counts it
PutUncounted(e) == q' = LastOf(Append(q, e), Depth) /\ UNCHANGED dropped

\* Never block the publisher: the oldest event makes room.
Put(e) ==
  /\ q' = LastOf(Append(q, e), Depth)
  /\ dropped' = IF Len(q) = Depth THEN dropped + 1 ELSE dropped

Publish ==
  /\ ready # <<>> /\ ready' = Tail(ready)
  /\ seq' = seq + 1
  /\ LET e == Numbered(seq + 1, Head(ready)) IN
       /\ ring' = LastOf(Append(ring, e), Replay)
       /\ IF Subscribed THEN Put(e) ELSE UNCHANGED <<q, dropped>>
  /\ UNCHANGED <<active, unsent, handlerVars, changes, connects>>

-------------------------------------------------------------------------------
\* The event loop: the handler.  The client applies what it is sent: a snapshot
\* replaces its view, an alarm edge changes it, any other event does not.

Applied(alarms, ev) == IF ev.on THEN alarms \cup {ev.alarm} ELSE alarms \ {ev.alarm}

ApplySnapshot == client' = [client EXCEPT !.alarms = active]

Receive(e) ==
  client' = IF e.ev \in EdgeEvents
            THEN [client EXCEPT !.alarms = Applied(@, e.ev), !.last = e.n]
            ELSE [client EXCEPT !.jobs = @ \cup {e.ev}, !.last = e.n]

\* subscribe() and the first snapshot, with no await in between.
Connect(since) ==
  /\ handler = "away" /\ connects < MaxConnect /\ connects' = connects + 1
  /\ handler' = IF since THEN "greeted" ELSE "waiting"
  /\ q' = <<>> /\ dropped' = 0 /\ ApplySnapshot
  /\ announced' = 0 /\ hole' = FALSE
  /\ UNCHANGED <<active, unsent, ready, seq, ring, inHand, changes>>

\* replay_since(since), taken once the snapshot is out.  The ring is in order, so
\* the events after since are its last ones.
TakeReplay ==
  /\ handler = "greeted" /\ handler' = "replaying"
  /\ \E old \in 0 .. Len(ring) :
       /\ \A i \in DOMAIN ring : ring[i].n > client.last <=> i > old
       /\ inHand' = SubSeq(ring, old + 1, Len(ring))
  /\ UNCHANGED <<active, unsent, busVars, announced, client, hole, changes,
                 connects>>

SendReplay ==
  /\ handler = "replaying" /\ inHand # <<>>
  /\ Receive(Head(inHand)) /\ inHand' = Tail(inHand)
  /\ UNCHANGED <<active, unsent, busVars, handler, announced, hole, changes,
                 connects>>

EndReplay ==
  /\ handler = "replaying" /\ inHand = <<>> /\ handler' = "waiting"
  /\ UNCHANGED <<active, unsent, busVars, inHand, announced, client, hole,
                 changes, connects>>

\* q.get(): sent at once if nothing was dropped, else after a resync marker.
Take ==
  /\ handler = "waiting" /\ q # <<>>
  /\ q' = Tail(q)
  /\ IF dropped = 0
     THEN Receive(Head(q)) /\ UNCHANGED <<handler, inHand, announced>>
     ELSE /\ handler' = "resync" /\ inHand' = <<Head(q)>> /\ announced' = dropped
          /\ UNCHANGED client
  /\ UNCHANGED <<active, unsent, ready, seq, ring, dropped, hole, changes, connects>>

\* The marker is out: the count is reset, whatever was dropped meanwhile.
Resync ==
  /\ handler = "resync" /\ handler' = "resynced"
  /\ dropped' = 0 /\ ApplySnapshot /\ hole' = (dropped # announced)
  /\ UNCHANGED <<active, unsent, ready, seq, ring, q, inHand, announced,
                 changes, connects>>

\* The event that was in hand when the drop was noticed follows the snapshot.
SendInHand ==
  /\ handler = "resynced" /\ handler' = "waiting"
  /\ Receive(Head(inHand)) /\ inHand' = <<>>
  /\ UNCHANGED <<active, unsent, busVars, announced, hole, changes, connects>>

Disconnect ==
  /\ Subscribed /\ handler' = "away" /\ q' = <<>> /\ dropped' = 0 /\ inHand' = <<>>
  /\ UNCHANGED <<active, unsent, ready, seq, ring, announced, client, hole,
                 changes, connects>>

-------------------------------------------------------------------------------
WorkerFeeds == EmitEdge \/ \E new \in SUBSET Names : ChangeAlarms(new)
Serve == TakeReplay \/ SendReplay \/ EndReplay \/ Take \/ Resync \/ SendInHand
LoopFeeds ==
  Publish \/ Serve \/ Disconnect \/ \E since \in BOOLEAN : Connect(since)

FeedSpec == FeedInit /\ [][WorkerFeeds \/ LoopFeeds]_feedVars

FeedTypeOK ==
  /\ active \subseteq Names /\ client.alarms \subseteq Names
  /\ Len(q) <= Depth /\ Len(ring) <= Replay
  /\ dropped \in Nat /\ seq \in Nat /\ client.last \in 0 .. seq
  /\ handler \in {"away", "greeted", "replaying", "waiting", "resync", "resynced"}

-------------------------------------------------------------------------------
\* Every event is out and the handler waits for the next.
Quiet == unsent = <<>> /\ ready = <<>> /\ q = <<>> /\ handler = "waiting"

\* A client that applied everything it was sent knows the active alarms: through
\* the snapshot that races with the worker, the replay that repeats what the
\* queue holds, and the events dropped (events(), publish_nowait).
ViewIsRight == Quiet => client.alarms = active \/ hole

\* app.py:389-390: a client that lost events is told, "rather than letting it
\* silently miss an alarm".
MissesNoAlarm == Quiet => client.alarms = active
===============================================================================
