-------------------------- MODULE SerialWorkerProofs --------------------------
(***************************************************************************)
(* What holds of the worker for every set of clients, every configuration  *)
(* and every fault: in the states that promise a free port the port is     *)
(* free, no path drops a command, and commands are served in order, one at *)
(* a time and once.  A future is running only while its command is served  *)
(* or after a crash stranded it, a leased port is not taken back, and, but *)
(* for what the worker's own requests ignore, a connected link is real and *)
(* a late answer is quarantined before the next command.                   *)
(***************************************************************************)
EXTENDS SerialWorker, SequenceSets

-------------------------------------------------------------------------------
\* The type invariant, in the two halves its proof takes.
Flags ==
  /\ stop \in BOOLEAN /\ link \in BOOLEAN /\ peerUp \in BOOLEAN
  /\ addressed \in BOOLEAN /\ subscribed \in BOOLEAN /\ owing \in BOOLEAN
  /\ want \in BOOLEAN /\ armed \in BOOLEAN /\ lease \in BOOLEAN
  /\ monitorDue \in BOOLEAN /\ keepaliveDue \in BOOLEAN /\ idle \in BOOLEAN

Control ==
  /\ pc \in {"top", "take", "try", "exec", "step", "opening", "discovering",
             "connecting", "entering", "draining", "house", "polled", "tail",
             "releasing", "stopped", "dead"}
  /\ IF pc \in {"releasing", "dead"} THEN after \in Sequels ELSE after = None
  /\ state \in LinkStates /\ monitor \in AllMonitors

Commands ==
  /\ head \in Cmds \cup {None}
  /\ queue \in Seq(Cmds) /\ late \subseteq Cmds
  /\ fut \in [Cmds -> Settled \cup {"none", "pending", "running"}]

LEMMA TypeParts == TypeOK <=> Flags /\ Control /\ Commands
BY DEF TypeOK, Flags, Control, Commands

LEMMA FlagsStep == Flags /\ [Next]_vars => Flags'
<1> SUFFICES ASSUME Flags, [Next]_vars PROVE Flags'
  OBVIOUS
<1> USE DEF Flags, linkVars, dueVars
<1>1. CASE Loop
  <2>1. CASE Top
    BY <2>1 DEF Top
  <2>2. CASE Take
    BY <2>2 DEF Take
  <2>3. CASE TryRun
    BY <2>3 DEF TryRun
  <2>4. CASE TryAbandon
    BY <2>4 DEF TryAbandon
  <2>5. CASE TryClaimTwice
    BY <2>5 DEF TryClaimTwice
  <2>6. CASE TryLater
    BY <2>6 DEF TryLater
  <2> QED BY <1>1, <2>1, <2>2, <2>3, <2>4, <2>5, <2>6 DEF Loop
<1>2. CASE Execute
  <2>1. CASE ExecuteDone
    BY <2>1 DEF ExecuteDone
  <2>2. CASE ExecuteReset
    BY <2>2 DEF ExecuteReset
  <2>3. CASE ExecuteTimeout
    BY <2>3 DEF ExecuteTimeout
  <2>4. CASE ExecuteError
    BY <2>4 DEF ExecuteError
  <2>5. CASE ExecuteCrash
    BY <2>5 DEF ExecuteCrash
  <2> QED BY <1>2, <2>1, <2>2, <2>3, <2>4, <2>5 DEF Execute
<1>3. CASE Step
  BY <1>3 DEF Step, StepLeased, StepOpen, StepNothing, StepBackoff, StepSession, stepFrame
<1>4. CASE Session
  <2>1. CASE Open
    BY <2>1 DEF Open, openFrame
  <2>2. CASE OpenFail
    BY <2>2 DEF OpenFail, openFrame
  <2>3. CASE OpenCrash
    BY <2>3 DEF OpenCrash, openFrame
  <2>4. CASE Discover
    BY <2>4 DEF Discover, openFrame
  <2>5. CASE DiscoverFail
    BY <2>5 DEF DiscoverFail, openFrame
  <2>6. CASE Connect
    BY <2>6 DEF Connect, openFrame
  <2>7. CASE ConnectFail
    BY <2>7 DEF ConnectFail, openFrame
  <2>8. CASE EnterDone
    BY <2>8 DEF EnterDone, openFrame
  <2>9. CASE EnterReset
    BY <2>9 DEF EnterReset, openFrame
  <2>10. CASE EnterCrash
    BY <2>10 DEF EnterCrash, openFrame
  <2>11. CASE DrainQuiet
    BY <2>11 DEF DrainQuiet, openFrame
  <2>12. CASE DrainFail
    BY <2>12 DEF DrainFail, stepFrame
  <2> QED BY <1>4, <2>1, <2>2, <2>3, <2>4, <2>5, <2>6, <2>7, <2>8, <2>9, <2>10, <2>11, <2>12 DEF Session
<1>5. CASE House
  <2>1. CASE PollAlarms
    BY <2>1 DEF PollAlarms, houseFrame
  <2>2. CASE PollAlarmsFail
    BY <2>2 DEF PollAlarmsFail, houseFrame
  <2>3. CASE Polled
    BY <2>3 DEF Polled, houseFrame
  <2>4. CASE NoPoll
    BY <2>4 DEF NoPoll, houseFrame
  <2>5. CASE Keepalive
    BY <2>5 DEF Keepalive, houseFrame
  <2>6. CASE KeepaliveFail
    BY <2>6 DEF KeepaliveFail, houseFrame
  <2>7. CASE IdleRelease
    BY <2>7 DEF IdleRelease, houseFrame
  <2>8. CASE NothingDue
    BY <2>8 DEF NothingDue, houseFrame
  <2> QED BY <1>5, <2>1, <2>2, <2>3, <2>4, <2>5, <2>6, <2>7, <2>8 DEF House
<1>6. CASE Ending
  <2>1. CASE Released
    <3>1. armed' \in BOOLEAN
      BY <2>1, ZenonT(30) DEF Released
    <3> QED BY <2>1, <3>1 DEF Released
  <2>2. CASE ReleaseGarbled
    BY <2>2 DEF ReleaseGarbled
  <2>3. CASE Teardown
    <3>1. UNCHANGED <<stop, linkVars, want, armed, lease, dueVars>>
      BY <2>3 DEF Teardown
    <3> QED BY <3>1
  <2> QED BY <1>6, <2>1, <2>2, <2>3 DEF Ending
<1>7. CASE Client
  <2>1. ASSUME NEW c \in Cmds, Submit(c) \/ Cancel(c) \/ Collect(c) PROVE Flags'
    BY <2>1 DEF Submit, Cancel, Collect, workerVars
  <2>2. ASSUME NEW on \in BOOLEAN, SetLease(on) PROVE Flags'
    BY <2>2 DEF SetLease, workerVars
  <2>3. CASE Stop
    BY <2>3 DEF Stop, workerVars
  <2> QED BY <1>7, <2>1, <2>2, <2>3 DEF Client
<1>8. CASE Clock
  <2>1. CASE BackoffElapses
    BY <2>1 DEF BackoffElapses, workerVars
  <2>2. CASE MonitorFallsDue
    BY <2>2 DEF MonitorFallsDue, workerVars
  <2>3. CASE KeepaliveFallsDue
    BY <2>3 DEF KeepaliveFallsDue, workerVars
  <2>4. CASE IdleFallsDue
    BY <2>4 DEF IdleFallsDue, workerVars
  <2>5. ASSUME NEW c \in Cmds, DeadlinePasses(c) PROVE Flags'
    BY <2>5 DEF DeadlinePasses, workerVars
  <2> QED BY <1>8, <2>1, <2>2, <2>3, <2>4, <2>5 DEF Clock
<1>9. CASE UNCHANGED vars
  BY <1>9 DEF vars
<1> QED BY <1>1, <1>2, <1>3, <1>4, <1>5, <1>6, <1>7, <1>8, <1>9 DEF Next, Worker

\* Actions of other threads and of the clock leave the worker's own state alone.
LEMMA BystanderStep == Client \/ Clock => UNCHANGED workerVars
BY DEF Client, Clock, Submit, Cancel, Collect, SetLease, Stop, DeadlinePasses,
       BackoffElapses, MonitorFallsDue, KeepaliveFallsDue, IdleFallsDue

LEMMA ReleaseType ==
  ASSUME state \in LinkStates, NEW next, Release(next)
  PROVE  pc' = "releasing" /\ after' = next /\ state' \in LinkStates
BY DEF Release, LinkStates

LEMMA ControlStep == Control /\ [Next]_vars => Control'
<1> SUFFICES ASSUME Control, [Next]_vars PROVE Control'
  OBVIOUS
<1>0. /\ {"closed", "backoff", "leased", "opening", "discovering", "connecting", "connected",
          "draining", "releasing", "no_devices", "port_busy", "port_lost", "shutdown"}
           \subseteq LinkStates
      /\ RefreshLease \in LinkStates
  BY DEF LinkStates, FailFast, Unavailable, RefreshLease, Control
<1> USE <1>0, ReleaseType DEF Control, Sequels
<1>1. CASE Loop
  BY <1>1 DEF Loop, Top, Take, TryRun, TryAbandon, TryClaimTwice, TryLater, Dismiss, Crash
<1>2. CASE Execute
  BY <1>2 DEF Execute, ExecuteDone, ExecuteReset, ExecuteTimeout, ExecuteError, ExecuteCrash,
              Answered, Dismiss, Crash, AfterTimeout
<1>3. CASE Step
  BY <1>3 DEF Step, StepLeased, StepOpen, StepNothing, StepBackoff, StepSession, stepFrame,
              Unleased, BackoffNext
<1>4. CASE Session
  <2>1. CASE Open \/ OpenFail \/ OpenCrash \/ Discover \/ DiscoverFail \/ Connect \/ ConnectFail
    BY <2>1 DEF Open, OpenFail, OpenCrash, Discover, DiscoverFail, Connect, ConnectFail,
                openFrame, Crash
  <2>2. CASE EnterDone \/ EnterReset \/ EnterCrash \/ DrainQuiet \/ DrainFail
    BY <2>2 DEF EnterDone, EnterReset, EnterCrash, EnterRefuses, DrainQuiet, DrainFail,
                openFrame, stepFrame, Crash
  <2> QED BY <1>4, <2>1, <2>2 DEF Session
<1>5. CASE House
  BY <1>5 DEF House, PollAlarms, PollAlarmsFail, Polled, NoPoll, Keepalive, KeepaliveFail,
              IdleRelease, NothingDue, houseFrame, Crash
<1>6. CASE Ending
  <2>1. CASE Released
    BY <2>1 DEF Released, StateAfter, PcAfter
  <2>2. CASE ReleaseGarbled \/ Teardown
    BY <2>2 DEF ReleaseGarbled, Teardown
  <2> QED BY <1>6, <2>1, <2>2 DEF Ending
<1>7. CASE Client \/ Clock \/ UNCHANGED vars
  BY <1>7, BystanderStep DEF workerVars, vars
<1> QED BY <1>1, <1>2, <1>3, <1>4, <1>5, <1>6, <1>7 DEF Next, Worker

Futures == [Cmds -> Settled \cup {"none", "pending", "running"}]

LEMMA Settling ==
  ASSUME fut \in Futures, NEW c, NEW how \in Settled \cup {"none", "pending", "running"}
  PROVE  [fut EXCEPT ![c] = how] \in Futures
BY DEF Futures

LEMMA CommandsStep == Commands /\ [Next]_vars => Commands'
<1> SUFFICES ASSUME Commands, [Next]_vars PROVE Commands'
  OBVIOUS
<1>0. /\ fut \in Futures /\ head \in Cmds \cup {None} /\ queue \in Seq(Cmds)
      /\ late \subseteq Cmds /\ <<>> \in Seq(Cmds)
      /\ {"done", "failed", "cancelled"} \subseteq Settled
  BY DEF Commands, Futures, Settled
<1>k. ASSUME UNCHANGED <<head, cmdVars>> PROVE Commands'
  BY <1>k DEF Commands, cmdVars
<1>a. ASSUME UNCHANGED <<queue, late>>, head' \in {head, None}, fut' \in Futures
      PROVE  Commands'
  BY <1>a, <1>0 DEF Commands, Futures
<1>1. CASE Loop
  <2>1. CASE Top \/ TryClaimTwice \/ TryLater
    BY <2>1, <1>k DEF Top, TryClaimTwice, TryLater
  <2>2. CASE Take
    <3>1. CASE queue = <<>>
      BY <2>2, <3>1, <1>k DEF Take, cmdVars
    <3>2. CASE queue # <<>>
      <4>1. Head(queue) \in Cmds /\ Tail(queue) \in Seq(Cmds)
        BY <3>2, <1>0, HeadTailProperties
      <4> QED BY <2>2, <3>2, <4>1, <1>0 DEF Take, Commands
    <3> QED BY <3>1, <3>2
  <2>3. CASE TryRun
    <3>1. fut' = [fut EXCEPT ![head] = "running"]
      BY <2>3 DEF TryRun
    <3>2. fut' \in Futures
      BY <3>1, <1>0, Settling
    <3>3. UNCHANGED <<head, queue, late>>
      BY <2>3 DEF TryRun
    <3> QED BY <3>2, <3>3, <1>a
  <2>4. CASE TryAbandon
    <3>1. fut' \in Futures
      BY <2>4, <1>0 DEF TryAbandon, Futures
    <3> QED BY <2>4, <3>1, <1>0, <1>a DEF TryAbandon, Dismiss
  <2> QED BY <1>1, <2>1, <2>2, <2>3, <2>4 DEF Loop
<1>2. CASE Execute
  <2>1. CASE ExecuteReset \/ ExecuteCrash
    BY <2>1, <1>k DEF ExecuteReset, ExecuteCrash
  <2>2. CASE ExecuteDone \/ ExecuteTimeout \/ ExecuteError
    <3>1. PICK how \in Settled : Answered(how)
      BY <2>2, <1>0 DEF ExecuteDone, ExecuteTimeout, ExecuteError
    <3>2. UNCHANGED <<queue, late>>
      BY <2>2 DEF ExecuteDone, ExecuteTimeout, ExecuteError
    <3> QED BY <3>1, <3>2, <1>0, <1>a, Settling DEF Answered, Dismiss
  <2> QED BY <1>2, <2>1, <2>2 DEF Execute
<1>3. CASE Step
  BY <1>3, <1>k DEF Step, StepLeased, StepOpen, StepNothing, StepBackoff, StepSession, stepFrame
<1>4. CASE Session
  BY <1>4, <1>k DEF Session, Open, OpenFail, OpenCrash, Discover, DiscoverFail, Connect,
                    ConnectFail, EnterDone, EnterReset, EnterCrash, DrainQuiet, DrainFail,
                    openFrame, stepFrame
<1>5. CASE House
  BY <1>5, <1>k DEF House, PollAlarms, PollAlarmsFail, Polled, NoPoll, Keepalive,
                    KeepaliveFail, IdleRelease, NothingDue, houseFrame
<1>6. CASE Ending
  <2>1. CASE Released
    <3>1. CASE after = "reset"
      <4>1. fut' = [fut EXCEPT ![head] = "failed"]
        BY <2>1, <3>1 DEF Released
      <4>2. fut' \in Futures
        BY <4>1, <1>0, Settling
      <4>3. UNCHANGED <<queue, late>> /\ head' = None
        BY <2>1, <3>1 DEF Released
      <4> QED BY <4>2, <4>3, <1>a
    <3>2. CASE after # "reset"
      BY <2>1, <3>2, <1>k DEF Released, cmdVars
    <3> QED BY <3>1, <3>2
  <2>2. CASE ReleaseGarbled
    BY <2>2, <1>k DEF ReleaseGarbled
  <2>3. CASE Teardown
    <3>1. fut' \in Futures
      BY <2>3, <1>0 DEF Teardown, Futures
    <3> QED BY <2>3, <3>1, <1>0 DEF Teardown, Commands, Futures
  <2> QED BY <1>6, <2>1, <2>2, <2>3 DEF Ending
<1>7. CASE Client
  <2>1. ASSUME NEW c \in Cmds, Submit(c) PROVE Commands'
    <3>1. Append(queue, c) \in Seq(Cmds)
      BY <2>1, <1>0
    <3>2. fut' = [fut EXCEPT ![c] = "pending"]
      BY <2>1 DEF Submit
    <3>3. fut' \in Futures
      BY <3>2, <1>0, Settling
    <3> QED BY <2>1, <3>1, <3>3, <1>0 DEF Submit, Commands, Futures, workerVars
  <2>2. ASSUME NEW c \in Cmds, Cancel(c) \/ Collect(c) PROVE Commands'
    <3>1. fut' \in Futures
      BY <2>2, <1>0, Settling DEF Cancel, Collect
    <3> QED BY <2>2, <3>1, <1>0, <1>a DEF Cancel, Collect, workerVars
  <2>3. ASSUME NEW on \in BOOLEAN, SetLease(on) PROVE Commands'
    BY <2>3, <1>k DEF SetLease, workerVars
  <2>4. CASE Stop
    BY <2>4, <1>k DEF Stop, workerVars
  <2> QED BY <1>7, <2>1, <2>2, <2>3, <2>4 DEF Client
<1>8. CASE Clock
  <2>1. ASSUME NEW c \in Cmds, DeadlinePasses(c) PROVE Commands'
    BY <2>1, <1>0 DEF DeadlinePasses, workerVars, Commands
  <2>2. CASE BackoffElapses \/ MonitorFallsDue \/ KeepaliveFallsDue \/ IdleFallsDue
    BY <2>2, <1>k DEF BackoffElapses, MonitorFallsDue, KeepaliveFallsDue, IdleFallsDue,
                      workerVars
  <2> QED BY <1>8, <2>1, <2>2 DEF Clock
<1>9. CASE UNCHANGED vars
  BY <1>9, <1>k DEF vars
<1> QED BY <1>1, <1>2, <1>3, <1>4, <1>5, <1>6, <1>7, <1>8, <1>9 DEF Next, Worker

\* Everything keeps its type: in particular head and the queue hold commands
\* and every future has one of its six states, on every path of run().
THEOREM WorkerTypes == Spec => []TypeOK
<1>1. Init => Flags /\ Control /\ Commands
  <2>1. <<>> \in Seq(Cmds)
    OBVIOUS
  <2>2. Init => Flags
    BY DEF Init, Flags
  <2>3. Init => Control
    BY MonitorsAssumption DEF Init, Control, LinkStates
  <2>4. Init => Commands
    BY <2>1 DEF Init, Commands
  <2> QED BY <2>2, <2>3, <2>4
<1> QED BY <1>1, FlagsStep, ControlStep, CommandsStep, TypeParts, PTL DEF Spec

-------------------------------------------------------------------------------
\* Where the worker is and what the advertised state says, against the port.
SessionInv ==
  /\ ClosedMeansReleased
  /\ pc \in {"discovering", "connecting"} => link
  /\ state \in {"connected", "draining"} => link /\ addressed

LEMMA SessionStep == Control /\ SessionInv /\ [Next]_vars => SessionInv'
<1> SUFFICES ASSUME Control, SessionInv, [Next]_vars PROVE SessionInv'
  OBVIOUS
<1> USE DEF SessionInv, ClosedMeansReleased, FailFast, Unavailable, linkVars
<1>1. CASE Loop
  <2>1. CASE Top
    BY <2>1 DEF Top, RefreshLease
  <2>2. CASE Take
    BY <2>2 DEF Take
  <2>3. CASE TryRun
    BY <2>3 DEF TryRun, RefreshLease
  <2>4. CASE TryAbandon
    BY <2>4 DEF TryAbandon, RefreshLease, Dismiss
  <2>5. CASE TryClaimTwice
    BY <2>5 DEF TryClaimTwice, Crash, Release
  <2>6. CASE TryLater
    BY <2>6 DEF TryLater, RefreshLease
  <2> QED BY <1>1, <2>1, <2>2, <2>3, <2>4, <2>5, <2>6 DEF Loop
<1>2. CASE Execute
  <2>1. CASE ExecuteDone \/ ExecuteTimeout \/ ExecuteError
    BY <2>1 DEF ExecuteDone, ExecuteTimeout, ExecuteError, AfterTimeout, Answered, Dismiss
  <2>2. CASE ExecuteReset \/ ExecuteCrash
    BY <2>2 DEF ExecuteReset, ExecuteCrash, Crash, Release
  <2> QED BY <1>2, <2>1, <2>2 DEF Execute
<1>3. CASE Step
  BY <1>3 DEF Step, StepLeased, StepOpen, StepNothing, StepBackoff, StepSession, stepFrame,
              Release, Unleased, Closable, BackoffNext
<1>4. CASE Session
  <2>1. CASE Open \/ OpenFail \/ OpenCrash
    BY <2>1 DEF Open, OpenFail, OpenCrash, openFrame
  <2>2. CASE Discover \/ DiscoverFail \/ Connect \/ ConnectFail
    BY <2>2 DEF Discover, DiscoverFail, Connect, ConnectFail, openFrame, Crash, Release
  <2>3. CASE EnterDone \/ EnterReset \/ EnterCrash
    BY <2>3 DEF EnterDone, EnterReset, EnterCrash, EnterRefuses, openFrame, Crash, Release
  <2>4. CASE DrainQuiet \/ DrainFail
    BY <2>4 DEF DrainQuiet, DrainFail, stepFrame, Release
  <2> QED BY <1>4, <2>1, <2>2, <2>3, <2>4 DEF Session
<1>5. CASE House
  <2>1. CASE PollAlarms \/ PollAlarmsFail \/ Polled \/ NoPoll
    BY <2>1 DEF PollAlarms, PollAlarmsFail, Polled, NoPoll, houseFrame, Crash, Release
  <2>2. CASE Keepalive \/ KeepaliveFail \/ IdleRelease \/ NothingDue
    BY <2>2 DEF Keepalive, KeepaliveFail, IdleRelease, NothingDue, houseFrame, Crash, Release
  <2> QED BY <1>5, <2>1, <2>2 DEF House
<1>6. CASE Ending
  BY <1>6 DEF Ending, Released, ReleaseGarbled, Teardown, Release, StateAfter, PcAfter, Control, Sequels
<1>7. CASE Client \/ Clock \/ UNCHANGED vars
  BY <1>7, BystanderStep DEF workerVars, vars
<1> QED BY <1>1, <1>2, <1>3, <1>4, <1>5, <1>6, <1>7 DEF Next, Worker

\* In every state that tells an operator the port is free it is free, the port
\* is opened only when it is not open, and every exchange has a link and an
\* address to go to, whatever fails on the way.
THEOREM FreeWhenSaid == Spec => []ClosedMeansReleased
<1>1. Init => SessionInv
  BY DEF Init, SessionInv, ClosedMeansReleased
<1>2. SessionInv => ClosedMeansReleased
  BY DEF SessionInv
<1>3. TypeOK => Control
  BY TypeParts
<1> QED BY <1>1, <1>2, <1>3, SessionStep, WorkerTypes, PTL DEF Spec
-------------------------------------------------------------------------------
\* NoOrphan needs to know that what waits in the queue is not claimed yet, that
\* a client without a command is not at its head, and that run() takes a command
\* only when none is parked.
CustodyInv ==
  /\ NoOrphan
  /\ \A c \in Cmds : InQueue(c) => fut[c] \in {"pending", "cancelled"}
  /\ \A c \in Cmds : fut[c] = "none" => head # c
  /\ pc = "take" => head = None

Unsettled == {"pending", "running"}

LEMMA CustodyStep == TypeOK /\ CustodyInv /\ [Next]_vars => CustodyInv'
<1> SUFFICES ASSUME TypeOK, CustodyInv, [Next]_vars PROVE CustodyInv'
  OBVIOUS
<1>0. /\ head \in Cmds \cup {None} /\ queue \in Seq(Cmds) /\ None \notin ToSet(queue)
      /\ fut \in [Cmds -> Settled \cup {"none", "pending", "running"}]
  BY NoCommandAssumption DEF TypeOK, ToSet
<1>k. ASSUME UNCHANGED <<head, queue, fut>>, pc' = "take" => pc = "take" \/ head = None
      PROVE  CustodyInv'
  BY <1>k DEF CustodyInv, NoOrphan, InQueue
\* The head is settled and dismissed.
<1>d. ASSUME UNCHANGED queue, head' = None, pc' = "top",
             \E how \in Settled : fut' = [fut EXCEPT ![head] = how]
      PROVE  CustodyInv'
  <2>1. \A c \in Cmds : IF c = head THEN fut'[c] \in Settled ELSE fut'[c] = fut[c]
    BY <1>d, <1>0
  <2>2. ~InQueue(head) /\ ~InQueue(None) /\ IsInjective(queue)
    BY <1>0 DEF CustodyInv, NoOrphan, InQueue
  <2>3. \A c \in Cmds : InQueue(c)' <=> InQueue(c)
    BY <1>d DEF InQueue
  <2>4. NoOrphan'
    BY <1>d, <2>1, <2>2 DEF CustodyInv, NoOrphan, InQueue, Settled
  <2>5. \A c \in Cmds : InQueue(c)' => fut'[c] \in {"pending", "cancelled"}
    BY <2>1, <2>2, <2>3 DEF CustodyInv, InQueue
  <2> QED BY <1>d, <2>4, <2>5, NoCommandAssumption DEF CustodyInv
<1>1. CASE Loop
  <2>1. CASE Top \/ TryClaimTwice \/ TryLater
    BY <2>1, <1>k DEF Top, TryClaimTwice, TryLater, cmdVars, Crash, Release
  <2>2. CASE Take
    <3>1. CASE queue = <<>>
      BY <2>2, <3>1, <1>k DEF Take
    <3>2. CASE queue # <<>>
      <4>1. head = None /\ head' = Head(queue) /\ queue' = Tail(queue) /\ fut' = fut
            /\ pc' = "try"
        BY <2>2, <3>2 DEF Take, CustodyInv
      <4>2. /\ ToSet(queue) = ToSet(queue') \cup {head'}
            /\ IsInjective(queue') /\ head' \notin ToSet(queue')
        BY <4>1, <3>2, <1>0, TailSet DEF CustodyInv, NoOrphan
      <4>3. NoOrphan'
        BY <4>1, <4>2, <1>0, NoCommandAssumption DEF CustodyInv, NoOrphan, InQueue
      <4>4. fut[head'] \in {"pending", "cancelled"}
        BY <4>2, <4>1, <1>0, HeadTailProperties, <3>2 DEF CustodyInv, InQueue, NoOrphan
      <4> QED BY <4>1, <4>2, <4>3, <4>4 DEF CustodyInv, InQueue
    <3> QED BY <3>1, <3>2
  <2>3. CASE TryRun
    BY <2>3, <1>0 DEF TryRun, CustodyInv, NoOrphan, InQueue
  <2>4. CASE TryAbandon
    <3>1. fut' = [fut EXCEPT ![head] = IF @ = "pending" THEN "failed" ELSE @]
          /\ fut[head] \in {"pending", "cancelled"}
      BY <2>4 DEF TryAbandon, Claimable
    <3>2. \E how \in Settled : fut' = [fut EXCEPT ![head] = how]
      BY <3>1 DEF Settled
    <3> QED BY <2>4, <3>2, <1>d DEF TryAbandon, Dismiss
  <2> QED BY <1>1, <2>1, <2>2, <2>3, <2>4 DEF Loop
<1>2. CASE Execute
  <2>1. CASE ExecuteReset \/ ExecuteCrash
    BY <2>1, <1>k DEF ExecuteReset, ExecuteCrash, cmdVars, Crash, Release
  <2>2. CASE ExecuteDone \/ ExecuteTimeout \/ ExecuteError
    <3>1. PICK how \in {"done", "failed"} : Answered(how)
      BY <2>2 DEF ExecuteDone, ExecuteTimeout, ExecuteError
    <3>2. UNCHANGED queue
      BY <2>2 DEF ExecuteDone, ExecuteTimeout, ExecuteError
    <3> QED BY <3>1, <3>2, <1>d DEF Answered, Dismiss, Settled
  <2> QED BY <1>2, <2>1, <2>2 DEF Execute
<1>3. CASE Step
  BY <1>3, <1>k DEF Step, StepLeased, StepOpen, StepNothing, StepBackoff, StepSession,
                    stepFrame, cmdVars, Release
<1>4. CASE Session
  BY <1>4, <1>k DEF Session, Open, OpenFail, OpenCrash, Discover, DiscoverFail, Connect,
                    ConnectFail, EnterDone, EnterReset, EnterCrash, EnterRefuses, DrainQuiet,
                    DrainFail, openFrame, stepFrame, cmdVars, Release, Crash
<1>5. CASE House
  BY <1>5, <1>k DEF House, PollAlarms, PollAlarmsFail, Polled, NoPoll, Keepalive,
                    KeepaliveFail, IdleRelease, NothingDue, houseFrame, cmdVars, Release,
                    Crash
<1>6. CASE Ending
  <2>1. CASE Released
    <3>1. CASE after = "reset"
      <4>1. fut' = [fut EXCEPT ![head] = "failed"] /\ head' = None /\ queue' = queue
            /\ pc' = "top"
        BY <2>1, <3>1 DEF Released, PcAfter
      <4> QED BY <4>1, <1>d DEF Settled
    <3>2. CASE after # "reset"
      BY <2>1, <3>2, <1>k DEF Released, PcAfter
    <3> QED BY <3>1, <3>2
  <2>2. CASE ReleaseGarbled
    BY <2>2, <1>k DEF ReleaseGarbled, cmdVars
  <2>3. CASE Teardown
    <3>1. /\ queue' = <<>> /\ head' = head /\ pc' = "releasing"
          /\ fut' = [c \in Cmds |-> IF InQueue(c) /\ fut[c] = "pending" THEN "failed"
                                    ELSE fut[c]]
      BY <2>3 DEF Teardown, Release
    <3>2. ToSet(queue') = {} /\ IsInjective(queue')
      BY <3>1 DEF ToSet, IsInjective
    <3>3. \A c \in Cmds : fut'[c] \in Unsettled => head = c
      <4> SUFFICES ASSUME NEW c \in Cmds, fut'[c] \in Unsettled, head # c PROVE FALSE
        OBVIOUS
      <4>1. fut[c] \in Unsettled /\ InQueue(c)
        BY <3>1 DEF CustodyInv, NoOrphan, Unsettled
      <4>2. fut[c] = "running"
        BY <3>1, <4>1 DEF Unsettled
      <4> QED BY <4>1, <4>2 DEF CustodyInv, InQueue
    <3>4. \A c \in Cmds : fut'[c] = "none" => head # c
      BY <3>1 DEF CustodyInv, InQueue, Settled
    <3> QED BY <3>1, <3>2, <3>3, <3>4 DEF CustodyInv, NoOrphan, InQueue, Unsettled
  <2> QED BY <1>6, <2>1, <2>2, <2>3 DEF Ending
<1>7. CASE Client
  <2>1. ASSUME NEW c \in Cmds, Submit(c) PROVE CustodyInv'
    <3>1. /\ fut[c] = "none" /\ fut' = [fut EXCEPT ![c] = "pending"]
          /\ queue' = Append(queue, c) /\ head' = head /\ pc' = pc
      BY <2>1 DEF Submit, workerVars
    <3>2. c \notin ToSet(queue) /\ head # c
      BY <3>1 DEF CustodyInv, InQueue, NoOrphan
    <3>3. ToSet(queue') = ToSet(queue) \cup {c} /\ IsInjective(queue')
      BY <3>1, <3>2, <1>0, AppendSet DEF CustodyInv, NoOrphan
    <3> QED BY <3>1, <3>2, <3>3, <1>0 DEF CustodyInv, NoOrphan, InQueue
  <2>2. ASSUME NEW c \in Cmds, Cancel(c) PROVE CustodyInv'
    BY <2>2, <1>0 DEF Cancel, workerVars, CustodyInv, NoOrphan, InQueue
  <2>3. ASSUME NEW c \in Cmds, Collect(c) PROVE CustodyInv'
    BY <2>3, <1>0 DEF Collect, workerVars, CustodyInv, NoOrphan, InQueue
  <2>4. ASSUME NEW on \in BOOLEAN, SetLease(on) PROVE CustodyInv'
    BY <2>4, <1>k DEF SetLease, workerVars, cmdVars
  <2>5. CASE Stop
    BY <2>5, <1>k DEF Stop, workerVars, cmdVars
  <2> QED BY <1>7, <2>1, <2>2, <2>3, <2>4, <2>5 DEF Client
<1>8. CASE Clock
  BY <1>8, <1>k DEF Clock, DeadlinePasses, BackoffElapses, MonitorFallsDue,
                    KeepaliveFallsDue, IdleFallsDue, workerVars, cmdVars
<1>9. CASE UNCHANGED vars
  BY <1>9, <1>k DEF vars, cmdVars
<1> QED BY <1>1, <1>2, <1>3, <1>4, <1>5, <1>6, <1>7, <1>8, <1>9 DEF Next, Worker

\* No path of the worker drops a command: until its future is settled it is in
\* the queue or parked in run(), once.
THEOREM NoneLost == Spec => []NoOrphan
<1>1. Init => CustodyInv
  BY NoCommandAssumption DEF Init, CustodyInv, NoOrphan, InQueue, ToSet, IsInjective
<1>2. CustodyInv => NoOrphan
  BY DEF CustodyInv
<1> QED BY <1>1, <1>2, CustodyStep, WorkerTypes, PTL DEF Spec
-------------------------------------------------------------------------------
\* The line of commands when one is parked.
LEMMA ConsFacts ==
  ASSUME NEW S, NEW q \in Seq(S), NEW h \in S, NEW c \in S
  PROVE  /\ <<h>> \o q \in Seq(S) /\ <<h>> \o q # <<>>
         /\ Head(<<h>> \o q) = h /\ Tail(<<h>> \o q) = q
         /\ Append(<<h>> \o q, c) = <<h>> \o Append(q, c)
         /\ ToSet(<<h>> \o q) = {h} \cup ToSet(q)
<1> DEFINE t == <<h>> \o q
<1>1. /\ t \in Seq(S) /\ Len(t) = Len(q) + 1 /\ Len(q) \in Nat /\ t # <<>>
      /\ t[1] = h /\ \A i \in 1 .. Len(q) : t[i + 1] = q[i]
  OBVIOUS
<1>2. Head(t) = h /\ Tail(t) = q
  BY <1>1
<1>3. Append(t, c) = <<h>> \o Append(q, c)
  OBVIOUS
<1>4. ToSet(t) = {h} \cup ToSet(q)
  <2>1. DOMAIN t = 1 .. Len(q) + 1 /\ DOMAIN q = 1 .. Len(q)
    BY <1>1
  <2>2. \A i \in 1 .. Len(q) + 1 : i = 1 \/ (i - 1 \in 1 .. Len(q) /\ t[i] = q[i - 1])
    BY <1>1
  <2> HIDE DEF t
  <2>3. ToSet(t) \subseteq {h} \cup ToSet(q)
    BY <1>1, <2>1, <2>2 DEF ToSet
  <2>4. \A i \in 1 .. Len(q) : i + 1 \in 1 .. Len(q) + 1
    BY <1>1
  <2>5. 1 \in 1 .. Len(q) + 1
    BY <1>1
  <2>6. {h} \cup ToSet(q) \subseteq ToSet(t)
    BY <1>1, <2>1, <2>4, <2>5 DEF ToSet
  <2> QED BY <2>3, <2>6
<1> QED BY <1>1, <1>2, <1>3, <1>4

\* Where a command is tried there is one, and where it is served, or waits for
\* the release to be failed, it is claimed.
InHandInv ==
  /\ pc = "try" => head \in Cmds
  /\ pc = "exec" \/ (pc = "releasing" /\ after = "reset")
       => head \in Cmds /\ fut[head] = "running"

LEMMA InHandStep == TypeOK /\ InHandInv /\ [Next]_vars => InHandInv'
<1> SUFFICES ASSUME TypeOK, InHandInv, [Next]_vars PROVE InHandInv'
  OBVIOUS
<1>0. /\ head \in Cmds \cup {None} /\ queue \in Seq(Cmds)
      /\ fut \in [Cmds -> Settled \cup {"none", "pending", "running"}]
  BY DEF TypeOK
\* Nothing comes to hand, and what is in it stays as it is.
<1>k. ASSUME UNCHANGED <<head, fut>>, pc' \in {"try", "exec"} => pc' = pc,
             pc' = "releasing" /\ after' = "reset" => pc = pc' /\ after = after'
      PROVE  InHandInv'
  BY <1>k DEF InHandInv
<1>i. ASSUME pc' \notin {"try", "exec"}, pc' = "releasing" => after' # "reset"
      PROVE  InHandInv'
  BY <1>i DEF InHandInv
<1>1. CASE Loop
  <2>1. CASE Top
    BY <2>1, <1>0 DEF Top, InHandInv
  <2>2. CASE Take
    <3>1. queue # <<>> => Head(queue) \in Cmds
      BY <1>0
    <3> QED BY <2>2, <3>1 DEF Take, InHandInv
  <2>3. CASE TryRun
    BY <2>3, <1>0 DEF TryRun, InHandInv
  <2>4. CASE TryAbandon \/ TryClaimTwice \/ TryLater
    BY <2>4, <1>i DEF TryAbandon, Dismiss, TryClaimTwice, Crash, Release, TryLater
  <2> QED BY <1>1, <2>1, <2>2, <2>3, <2>4 DEF Loop
<1>2. CASE Execute
  <2>1. CASE ExecuteReset
    BY <2>1 DEF ExecuteReset, Release, cmdVars, InHandInv
  <2>2. CASE ExecuteDone \/ ExecuteTimeout \/ ExecuteError \/ ExecuteCrash
    BY <2>2, <1>i DEF ExecuteDone, ExecuteTimeout, ExecuteError, ExecuteCrash, Answered,
                      Dismiss, Crash, Release
  <2> QED BY <1>2, <2>1, <2>2 DEF Execute
<1>3. CASE Step
  BY <1>3, <1>i DEF Step, StepLeased, StepOpen, StepNothing, StepBackoff, StepSession,
                    Release
<1>4. CASE Session
  BY <1>4, <1>i DEF Session, Open, OpenFail, OpenCrash, Discover, DiscoverFail, Connect,
                    ConnectFail, EnterDone, EnterReset, EnterCrash, EnterRefuses, DrainQuiet,
                    DrainFail, Release, Crash
<1>5. CASE House
  BY <1>5, <1>i DEF House, PollAlarms, PollAlarmsFail, Polled, NoPoll, Keepalive,
                    KeepaliveFail, IdleRelease, NothingDue, Release, Crash
<1>6. CASE Ending
  <2>1. CASE Released
    BY <2>1, <1>i DEF Released, PcAfter
  <2>2. CASE ReleaseGarbled
    BY <2>2, <1>i DEF ReleaseGarbled
  <2>3. CASE Teardown
    BY <2>3, <1>i DEF Teardown, Release
  <2> QED BY <1>6, <2>1, <2>2, <2>3 DEF Ending
<1>7. CASE Client
  <2>1. ASSUME NEW c \in Cmds, Submit(c) \/ Cancel(c) \/ Collect(c) PROVE InHandInv'
    <3>1. /\ UNCHANGED <<pc, after, head>> /\ fut[c] # "running"
          /\ \A d \in Cmds : d # c => fut'[d] = fut[d]
      BY <2>1, <1>0 DEF Submit, Cancel, Collect, workerVars, Settled
    <3> QED BY <3>1 DEF InHandInv
  <2>2. ASSUME NEW on \in BOOLEAN, SetLease(on) PROVE InHandInv'
    BY <2>2, <1>k DEF SetLease, workerVars, cmdVars
  <2>3. CASE Stop
    BY <2>3, <1>k DEF Stop, workerVars, cmdVars
  <2> QED BY <1>7, <2>1, <2>2, <2>3 DEF Client
<1>8. CASE Clock
  BY <1>8, <1>k DEF Clock, DeadlinePasses, BackoffElapses, MonitorFallsDue,
                    KeepaliveFallsDue, IdleFallsDue, workerVars, cmdVars
<1>9. CASE UNCHANGED vars
  BY <1>9, <1>k DEF vars, cmdVars
<1> QED BY <1>1, <1>2, <1>3, <1>4, <1>5, <1>6, <1>7, <1>8, <1>9 DEF Next, Worker

LEMMA LineStep ==
  TypeOK /\ CustodyInv /\ InHandInv /\ [Next]_vars => [Promise!Next]_<<fut, Line, stop>>
<1> SUFFICES ASSUME TypeOK, CustodyInv, InHandInv, [Next]_vars
             PROVE  Promise!Next \/ UNCHANGED <<fut, Line, stop>>
  OBVIOUS
<1>0. /\ head \in Cmds \cup {None} /\ queue \in Seq(Cmds) /\ None \notin Cmds
      /\ fut \in [Cmds -> Settled \cup {"none", "pending", "running"}]
  BY NoCommandAssumption DEF TypeOK
\* The line has the parked command at its head.
<1>h. ASSUME head \in Cmds
      PROVE  Line = <<head>> \o queue /\ Line # <<>> /\ Head(Line) = head /\ Tail(Line) = queue
  BY <1>h, <1>0, ConsFacts DEF Line
<1>s. ASSUME UNCHANGED <<head, queue, fut, stop>> PROVE UNCHANGED <<fut, Line, stop>>
  BY <1>s DEF Line
<1>d. ASSUME NEW how \in {"done", "failed"}, UNCHANGED <<queue, stop>>, head' = None,
             head \in Cmds, fut[head] = "running", fut' = [fut EXCEPT ![head] = how]
      PROVE  Promise!Settle(how)
  BY <1>d, <1>h DEF Promise!Settle, Line
<1>1. CASE Loop
  <2>1. CASE Top \/ TryClaimTwice \/ TryLater
    BY <2>1, <1>s DEF Top, TryClaimTwice, TryLater, cmdVars
  <2>2. CASE Take
    <3>1. CASE queue = <<>>
      BY <2>2, <3>1, <1>s DEF Take
    <3>2. CASE queue # <<>>
      <4>1. /\ head = None /\ head' = Head(queue) /\ queue' = Tail(queue)
            /\ UNCHANGED <<fut, stop>>
        BY <2>2, <3>2 DEF Take, CustodyInv
      <4>2. Head(queue) \in Cmds /\ <<Head(queue)>> \o Tail(queue) = queue
        BY <3>2, <1>0
      <4>3. UNCHANGED Line
        <5>1. Line = queue /\ head' # None
          BY <4>1, <4>2, <1>0 DEF Line
        <5>2. Line' = <<Head(queue)>> \o Tail(queue)
          BY <4>1, <5>1 DEF Line
        <5> QED BY <4>2, <5>1, <5>2
      <4> QED BY <4>1, <4>3
    <3> QED BY <3>1, <3>2
  <2>3. CASE TryRun
    <3>1. Promise!Claim
      BY <2>3, <1>h DEF TryRun, InHandInv, Promise!Claim, Line
    <3> QED BY <3>1 DEF Promise!Next
  <2>4. CASE TryAbandon
    <3>1. /\ head \in Cmds /\ fut[head] \in {"pending", "cancelled"}
          /\ fut' = [fut EXCEPT ![head] = IF @ = "pending" THEN "failed" ELSE @]
          /\ head' = None /\ UNCHANGED <<queue, stop>>
      BY <2>4 DEF TryAbandon, Claimable, Dismiss, InHandInv
    <3>2. Line # <<>> /\ Head(Line) = head /\ Line' = Tail(Line)
      BY <3>1, <1>h DEF Line
    <3>3. Promise!Refuse
      BY <3>1, <3>2 DEF Promise!Refuse
    <3> QED BY <3>3 DEF Promise!Next
  <2> QED BY <1>1, <2>1, <2>2, <2>3, <2>4 DEF Loop
<1>2. CASE Execute
  <2>1. CASE ExecuteReset \/ ExecuteCrash
    BY <2>1, <1>s DEF ExecuteReset, ExecuteCrash, cmdVars
  <2>2. CASE ExecuteDone \/ ExecuteTimeout \/ ExecuteError
    <3>1. PICK how \in {"done", "failed"} : Answered(how)
      BY <2>2 DEF ExecuteDone, ExecuteTimeout, ExecuteError
    <3>2. UNCHANGED <<queue, stop>> /\ pc = "exec"
      BY <2>2 DEF ExecuteDone, ExecuteTimeout, ExecuteError
    <3>3. Promise!Settle(how)
      BY <3>1, <3>2, <1>d DEF Answered, Dismiss, InHandInv
    <3> QED BY <3>3 DEF Promise!Next
  <2> QED BY <1>2, <2>1, <2>2 DEF Execute
<1>3. CASE Step
  BY <1>3, <1>s DEF Step, StepLeased, StepOpen, StepNothing, StepBackoff, StepSession,
                    stepFrame, cmdVars
<1>4. CASE Session
  BY <1>4, <1>s DEF Session, Open, OpenFail, OpenCrash, Discover, DiscoverFail, Connect,
                    ConnectFail, EnterDone, EnterReset, EnterCrash, DrainQuiet, DrainFail,
                    openFrame, stepFrame, cmdVars
<1>5. CASE House
  BY <1>5, <1>s DEF House, PollAlarms, PollAlarmsFail, Polled, NoPoll, Keepalive,
                    KeepaliveFail, IdleRelease, NothingDue, houseFrame, cmdVars
<1>6. CASE Ending
  <2>1. CASE Released
    <3>1. CASE after = "reset"
      <4>1. Promise!Settle("failed")
        BY <2>1, <3>1, <1>d DEF Released, InHandInv
      <4> QED BY <4>1 DEF Promise!Next
    <3>2. CASE after # "reset"
      BY <2>1, <3>2, <1>s DEF Released
    <3> QED BY <3>1, <3>2
  <2>2. CASE ReleaseGarbled
    BY <2>2, <1>s DEF ReleaseGarbled, cmdVars
  <2>3. CASE Teardown
    <3>1. /\ stop /\ queue' = <<>> /\ UNCHANGED <<head, stop>>
          /\ fut' = [c \in Cmds |-> IF InQueue(c) /\ fut[c] = "pending" THEN "failed"
                                    ELSE fut[c]]
      BY <2>3 DEF Teardown
    <3>2. CASE head = None
      <4>1. Line = queue /\ Line' = <<>>
        BY <3>1, <3>2 DEF Line
      <4>2. Line # <<>> => fut[Head(Line)] # "running"
        <5>1. queue # <<>> => Head(queue) \in Cmds /\ Head(queue) \in ToSet(queue)
          BY <1>0, TailSet
        <5> QED BY <4>1, <5>1 DEF CustodyInv, InQueue
      <4>3. Promise!ToSet(Line) = ToSet(queue) /\ Promise!ToSet(Line') = {}
        BY <4>1 DEF Promise!ToSet, ToSet
      <4>4. Promise!Sweep
        BY <3>1, <4>1, <4>2, <4>3 DEF Promise!Sweep, InQueue
      <4> QED BY <4>4 DEF Promise!Next
    <3>3. CASE head \in Cmds
      <4>1. Line # <<>> /\ Head(Line) = head /\ Line' = <<head>>
        BY <3>1, <3>3, <1>h, <1>0 DEF Line
      <4>2. Promise!ToSet(Line) = {head} \cup ToSet(queue) /\ Promise!ToSet(Line') = {head}
        <5>1. ToSet(Line) = {head} \cup ToSet(queue)
          <6>1. ToSet(<<head>> \o queue) = {head} \cup ToSet(queue)
            BY <3>3, <1>0, ConsFacts
          <6>2. Line = <<head>> \o queue
            BY <3>3, <1>h
          <6> QED BY <6>1, <6>2
        <5>2. ToSet(Line') = {head}
          BY <4>1 DEF ToSet
        <5> QED BY <5>1, <5>2 DEF Promise!ToSet, ToSet
      <4>3. head \notin ToSet(queue)
        BY DEF CustodyInv, NoOrphan, InQueue
      <4>4. Promise!Sweep
        BY <3>1, <4>1, <4>2, <4>3 DEF Promise!Sweep, InQueue
      <4> QED BY <4>4 DEF Promise!Next
    <3> QED BY <3>2, <3>3, <1>0
  <2> QED BY <1>6, <2>1, <2>2, <2>3 DEF Ending
<1>7. CASE Client
  <2>1. ASSUME NEW c \in Cmds, Submit(c) PROVE Promise!Next
    <3>1. /\ fut[c] = "none" /\ ~stop /\ UNCHANGED <<head, stop>>
          /\ queue' = Append(queue, c) /\ fut' = [fut EXCEPT ![c] = "pending"]
      BY <2>1 DEF Submit, workerVars
    <3>2. Line' = Append(Line, c)
      <4>1. head \in Cmds => <<head>> \o Append(queue, c) = Append(<<head>> \o queue, c)
        BY <1>0, ConsFacts
      <4> QED BY <3>1, <4>1, <1>0 DEF Line
    <3>3. Promise!Submit(c)
      BY <3>1, <3>2 DEF Promise!Submit
    <3> QED BY <3>3 DEF Promise!Next
  <2>2. ASSUME NEW c \in Cmds, Cancel(c) PROVE Promise!Next
    <3>1. Promise!Cancel(c)
      BY <2>2 DEF Cancel, workerVars, Promise!Cancel, Line
    <3> QED BY <3>1 DEF Promise!Next
  <2>3. ASSUME NEW c \in Cmds, Collect(c) PROVE Promise!Next
    <3>1. c \notin ToSet(queue) /\ head # c
      BY <2>3 DEF Collect, InQueue
    <3>2. c \notin Promise!ToSet(Line)
      <4>1. head \in Cmds => ToSet(<<head>> \o queue) = {head} \cup ToSet(queue)
        BY <1>0, <2>3, ConsFacts
      <4>2. Promise!ToSet(Line) = ToSet(Line)
        BY DEF Promise!ToSet, ToSet
      <4> QED BY <3>1, <4>1, <4>2, <1>0 DEF Line
    <3>3. Promise!Collect(c)
      BY <2>3, <3>2 DEF Collect, workerVars, Settled, Promise!Collect, Promise!Settled, Line
    <3> QED BY <3>3 DEF Promise!Next
  <2>4. ASSUME NEW on \in BOOLEAN, SetLease(on) PROVE UNCHANGED <<fut, Line, stop>>
    BY <2>4, <1>s DEF SetLease, workerVars, cmdVars
  <2>5. CASE Stop
    <3>1. Promise!Close
      BY <2>5 DEF Stop, workerVars, cmdVars, Promise!Close, Line
    <3> QED BY <3>1 DEF Promise!Next
  <2> QED BY <1>7, <2>1, <2>2, <2>3, <2>4, <2>5 DEF Client
<1>8. CASE Clock
  <2>1. ASSUME NEW c \in Cmds, DeadlinePasses(c) PROVE UNCHANGED <<fut, Line, stop>>
    BY <2>1, <1>s DEF DeadlinePasses, workerVars
  <2> QED BY <1>8, <2>1, <1>s DEF Clock, BackoffElapses, MonitorFallsDue,
                    KeepaliveFallsDue, IdleFallsDue, workerVars, cmdVars
<1>9. CASE UNCHANGED vars
  BY <1>9, <1>s DEF vars, cmdVars
<1> QED BY <1>1, <1>2, <1>3, <1>4, <1>5, <1>6, <1>7, <1>8, <1>9 DEF Next, Worker

\* Whatever fails on the link, and whenever clients submit and cancel, leases
\* come and the worker is stopped: commands are claimed in the order they were
\* submitted, one at a time and once.
THEOREM ServesInOrderCorrect == Spec => ServesInOrder
<1>1. Init => CustodyInv /\ InHandInv
  BY NoCommandAssumption
  DEF Init, CustodyInv, NoOrphan, InQueue, ToSet, IsInjective, InHandInv
<1>2. Init => Promise!Init
  BY DEF Init, Promise!Init, Line
<1>3. Spec => [](TypeOK /\ CustodyInv /\ InHandInv)
  BY <1>1, CustodyStep, InHandStep, WorkerTypes, PTL DEF Spec
<1>4. TypeOK /\ CustodyInv /\ InHandInv /\ [Next]_vars => [Promise!Next]_Promise!vars
  BY LineStep DEF Promise!vars
<1> QED BY <1>2, <1>3, <1>4, PTL DEF Spec, ServesInOrder, Promise!Spec
-------------------------------------------------------------------------------
\* A command the worker holds is not settled: only run() settles what it holds,
\* and then it lets go of it.
HeadInv == head \in Cmds => fut[head] \in {"pending", "cancelled", "running"}

LEMMA HeadStep == TypeOK /\ CustodyInv /\ HeadInv /\ [Next]_vars => HeadInv'
<1> SUFFICES ASSUME TypeOK, CustodyInv, HeadInv, [Next]_vars PROVE HeadInv'
  OBVIOUS
<1>0. /\ head \in Cmds \cup {None} /\ queue \in Seq(Cmds) /\ None \notin Cmds
      /\ fut \in [Cmds -> Settled \cup {"none", "pending", "running"}]
  BY NoCommandAssumption DEF TypeOK
<1>k. ASSUME UNCHANGED <<head, fut>> PROVE HeadInv'
  BY <1>k DEF HeadInv
<1>d. ASSUME head' = None PROVE HeadInv'
  BY <1>d, <1>0 DEF HeadInv
<1>1. CASE Loop
  <2>1. CASE Top \/ TryClaimTwice \/ TryLater
    BY <2>1, <1>k DEF Top, TryClaimTwice, TryLater, cmdVars
  <2>2. CASE Take
    <3>1. CASE queue = <<>>
      BY <2>2, <3>1, <1>k DEF Take
    <3>2. CASE queue # <<>>
      <4>1. Head(queue) \in Cmds /\ InQueue(Head(queue))
        BY <3>2, <1>0, TailSet DEF InQueue
      <4> QED BY <2>2, <3>2, <4>1 DEF Take, CustodyInv, HeadInv
    <3> QED BY <3>1, <3>2
  <2>3. CASE TryRun
    BY <2>3, <1>0 DEF TryRun, HeadInv
  <2>4. CASE TryAbandon
    BY <2>4, <1>d DEF TryAbandon, Dismiss
  <2> QED BY <1>1, <2>1, <2>2, <2>3, <2>4 DEF Loop
<1>2. CASE Execute
  BY <1>2, <1>k, <1>d DEF Execute, ExecuteDone, ExecuteReset, ExecuteTimeout, ExecuteError,
                          ExecuteCrash, Answered, Dismiss, cmdVars
<1>3. CASE Step
  BY <1>3, <1>k DEF Step, StepLeased, StepOpen, StepNothing, StepBackoff, StepSession,
                    stepFrame, cmdVars
<1>4. CASE Session
  BY <1>4, <1>k DEF Session, Open, OpenFail, OpenCrash, Discover, DiscoverFail, Connect,
                    ConnectFail, EnterDone, EnterReset, EnterCrash, DrainQuiet, DrainFail,
                    openFrame, stepFrame, cmdVars
<1>5. CASE House
  BY <1>5, <1>k DEF House, PollAlarms, PollAlarmsFail, Polled, NoPoll, Keepalive,
                    KeepaliveFail, IdleRelease, NothingDue, houseFrame, cmdVars
<1>6. CASE Ending
  <2>1. CASE Released \/ ReleaseGarbled
    BY <2>1, <1>k, <1>d DEF Released, ReleaseGarbled, cmdVars
  <2>2. CASE Teardown
    <3>1. /\ head' = head
          /\ fut' = [c \in Cmds |-> IF InQueue(c) /\ fut[c] = "pending" THEN "failed"
                                    ELSE fut[c]]
      BY <2>2 DEF Teardown
    <3>2. ~InQueue(head)
      BY DEF CustodyInv, NoOrphan
    <3> QED BY <3>1, <3>2 DEF HeadInv
  <2> QED BY <1>6, <2>1, <2>2 DEF Ending
<1>7. CASE Client
  <2>1. ASSUME NEW c \in Cmds, Submit(c) \/ Cancel(c) \/ Collect(c) PROVE HeadInv'
    <3>1. head' = head /\ \A d \in Cmds : d # c => fut'[d] = fut[d]
      BY <2>1, <1>0 DEF Submit, Cancel, Collect, workerVars
    <3>2. head = c => fut'[c] = "cancelled"
      BY <2>1, <1>0 DEF Submit, Cancel, Collect, CustodyInv
    <3> QED BY <3>1, <3>2 DEF HeadInv
  <2>2. ASSUME NEW on \in BOOLEAN, SetLease(on) PROVE HeadInv'
    BY <2>2, <1>k DEF SetLease, workerVars, cmdVars
  <2>3. CASE Stop
    BY <2>3, <1>k DEF Stop, workerVars, cmdVars
  <2> QED BY <1>7, <2>1, <2>2, <2>3 DEF Client
<1>8. CASE Clock
  BY <1>8, <1>k DEF Clock, DeadlinePasses, BackoffElapses, MonitorFallsDue,
                    KeepaliveFallsDue, IdleFallsDue, workerVars, cmdVars
<1>9. CASE UNCHANGED vars
  BY <1>9, <1>k DEF vars, cmdVars
<1> QED BY <1>1, <1>2, <1>3, <1>4, <1>5, <1>6, <1>7, <1>8, <1>9 DEF Next, Worker

\* Where the worker may be while a future is running.  After a crash the link is
\* released into BACKOFF with the command still parked; each claim of it crashes
\* again, so run() gets no further than the claim until it is stopped.
Stranded ==
  \/ pc = "exec"
  \/ pc \in {"top", "try"} /\ state = "backoff"
  \/ /\ pc \in {"releasing", "dead"} /\ after \in {"reset", "internal", "shutdown"}
     /\ state \in {"releasing", "backoff"}
  \/ pc = "stopped" /\ state = "shutdown"

RunningInv == \A c \in Cmds : fut[c] = "running" => head = c /\ Stranded

LEMMA RunningStep ==
  TypeOK /\ SessionInv /\ RunningInv /\ [Next]_vars => RunningInv'
<1> SUFFICES ASSUME TypeOK, SessionInv, RunningInv, [Next]_vars PROVE RunningInv'
  OBVIOUS
<1>0. /\ head \in Cmds \cup {None} /\ None \notin Cmds /\ link \in BOOLEAN
      /\ fut \in [Cmds -> Settled \cup {"none", "pending", "running"}]
      /\ state = "backoff" => ~link
      /\ pc = "exec" => link
  BY NoCommandAssumption
  DEF TypeOK, SessionInv, ClosedMeansReleased, FailFast
\* Nothing new is claimed, and the worker stays where a running command may be.
<1>k. ASSUME UNCHANGED head, Stranded => Stranded',
             \A c \in Cmds : fut'[c] = "running" => fut[c] = "running"
      PROVE  RunningInv'
  BY <1>k DEF RunningInv
\* No future is running where the worker is.
<1>n. ASSUME ~Stranded, \A c \in Cmds : fut'[c] = "running" => fut[c] = "running"
      PROVE  RunningInv'
  BY <1>n DEF RunningInv
<1>d. ASSUME NEW how \in Settled, fut' = [fut EXCEPT ![head] = how]
      PROVE  RunningInv'
  BY <1>d, <1>0 DEF RunningInv, Settled
<1>1. CASE Loop
  <2>1. CASE Top
    <3>1. Stranded => state' = "backoff" /\ pc' = IF head = None THEN "take" ELSE "try"
      BY <2>1 DEF Top, Stranded, RefreshLease
    <3>2. UNCHANGED <<head, fut>>
      BY <2>1 DEF Top, cmdVars
    <3> QED BY <3>1, <3>2, <1>0 DEF RunningInv, Stranded
  <2>2. CASE Take
    BY <2>2, <1>n DEF Take, Stranded
  <2>3. CASE TryRun
    <3>1. ~Stranded /\ pc' = "exec" /\ head' = head /\ fut' = [fut EXCEPT ![head] = "running"]
      BY <2>3 DEF TryRun, Stranded, RefreshLease
    <3>2. \A c \in Cmds : c # head => fut'[c] = fut[c]
      BY <3>1, <1>0
    <3> QED BY <3>1, <3>2 DEF RunningInv, Stranded
  <2>4. CASE TryAbandon
    <3>1. \E how \in Settled : fut' = [fut EXCEPT ![head] = how]
      BY <2>4 DEF TryAbandon, Claimable, Settled
    <3> QED BY <3>1, <1>d
  <2>5. CASE TryClaimTwice
    <3>1. UNCHANGED <<head, fut>> /\ pc = "try" /\ pc' = "releasing" /\ after' = "internal"
          /\ state' = IF link THEN "releasing" ELSE state
      BY <2>5 DEF TryClaimTwice, Crash, Release, cmdVars
    <3> QED BY <3>1, <1>0, <1>k DEF Stranded
  <2>6. CASE TryLater
    BY <2>6, <1>n DEF TryLater, Stranded, RefreshLease, GiveUp, FailFast, cmdVars
  <2> QED BY <1>1, <2>1, <2>2, <2>3, <2>4, <2>5, <2>6 DEF Loop
<1>2. CASE Execute
  <2>1. CASE ExecuteDone \/ ExecuteTimeout \/ ExecuteError
    <3>1. PICK how \in {"done", "failed"} : Answered(how)
      BY <2>1 DEF ExecuteDone, ExecuteTimeout, ExecuteError
    <3> QED BY <3>1, <1>d DEF Answered, Settled
  <2>2. CASE ExecuteReset \/ ExecuteCrash
    BY <2>2, <1>0, <1>k DEF ExecuteReset, ExecuteCrash, Crash, Release, cmdVars, Stranded
  <2> QED BY <1>2, <2>1, <2>2 DEF Execute
<1>3. CASE Step
  BY <1>3, <1>n DEF Step, StepLeased, StepOpen, StepNothing, StepBackoff, StepSession,
                    stepFrame, cmdVars, Stranded
<1>4. CASE Session
  BY <1>4, <1>n DEF Session, Open, OpenFail, OpenCrash, Discover, DiscoverFail, Connect,
                    ConnectFail, EnterDone, EnterReset, EnterCrash, DrainQuiet, DrainFail,
                    openFrame, stepFrame, cmdVars, Stranded
<1>5. CASE House
  BY <1>5, <1>n DEF House, PollAlarms, PollAlarmsFail, Polled, NoPoll, Keepalive,
                    KeepaliveFail, IdleRelease, NothingDue, houseFrame, cmdVars, Stranded
<1>6. CASE Ending
  <2>1. CASE Released
    <3>1. CASE after = "reset"
      BY <2>1, <3>1, <1>d DEF Released, Settled
    <3>2. CASE after # "reset"
      <4>1. UNCHANGED <<head, fut>>
        BY <2>1, <3>2 DEF Released
      <4>2. CASE ~Stranded
        BY <4>1, <4>2, <1>n
      <4>3. CASE Stranded
        <5>1. after \in {"internal", "shutdown"}
          BY <2>1, <3>2, <4>3 DEF Released, Stranded
        <5>2. \/ pc' = "top" /\ state' = "backoff"
              \/ pc' = "stopped" /\ state' = "shutdown"
          BY <2>1, <5>1 DEF Released, StateAfter, PcAfter
        <5> QED BY <4>1, <5>2, <1>k DEF Stranded
      <4> QED BY <4>2, <4>3
    <3> QED BY <3>1, <3>2
  <2>2. CASE ReleaseGarbled
    BY <2>2, <1>k DEF ReleaseGarbled, cmdVars, Stranded
  <2>3. CASE Teardown
    <3>1. /\ head' = head /\ pc = "top" /\ pc' = "releasing" /\ after' = "shutdown"
          /\ state' = IF link THEN "releasing" ELSE state
          /\ \A c \in Cmds : fut'[c] = "running" => fut[c] = "running"
      BY <2>3 DEF Teardown, Release
    <3> QED BY <3>1, <1>0, <1>k DEF Stranded
  <2> QED BY <1>6, <2>1, <2>2, <2>3 DEF Ending
<1>7. CASE Client \/ Clock
  <2>1. UNCHANGED <<pc, after, head, state>>
    BY <1>7, BystanderStep DEF workerVars
  <2>2. \A c \in Cmds : fut'[c] = "running" => fut[c] = "running"
    BY <1>7, <1>0 DEF Client, Clock, Submit, Cancel, Collect, SetLease, Stop, DeadlinePasses,
       BackoffElapses, MonitorFallsDue, KeepaliveFallsDue, IdleFallsDue, cmdVars
  <2> QED BY <2>1, <2>2, <1>k DEF Stranded
<1>8. CASE UNCHANGED vars
  BY <1>8, <1>k DEF vars, cmdVars, Stranded
<1> QED BY <1>1, <1>2, <1>3, <1>4, <1>5, <1>6, <1>7, <1>8 DEF Next, Worker

\* A future is running only while its command is on the link.  One that a crash
\* left running is never put on another link, whatever is submitted behind it.
THEOREM RunningServed == Spec => []RunningIsServed
<1>1. Init => SessionInv /\ RunningInv
  BY DEF Init, SessionInv, ClosedMeansReleased, RunningInv
<1>2. TypeOK => Control
  BY TypeParts
<1>3. RunningInv => RunningIsServed
  BY DEF RunningInv, Stranded, RunningIsServed
<1> QED BY <1>1, <1>2, <1>3, SessionStep, RunningStep, WorkerTypes, PTL DEF Spec
-------------------------------------------------------------------------------
\* The peer of a link that is advertised, or quarantined to be advertised again,
\* has not dropped it.
PeerInv == state \in {"connected", "draining"} \/ pc = "draining" => peerUp

LEMMA PeerStep ==
  ASSUME "swallow" \notin Faults
  PROVE  Control /\ SessionInv /\ PeerInv /\ [Next]_vars => PeerInv'
<1> SUFFICES ASSUME Control, SessionInv, PeerInv, [Next]_vars PROVE PeerInv'
  OBVIOUS
<1> DEFINE Live == {"connected", "draining"}
<1>0. /\ state \in Live => link
      /\ pc \in {"exec", "entering", "draining", "house"} => link
      /\ RefreshLease \in Live => state = RefreshLease
  BY DEF SessionInv, ClosedMeansReleased, RefreshLease
<1>k. ASSUME state' \in Live \/ pc' = "draining" => state \in Live \/ pc = "draining",
             UNCHANGED peerUp
      PROVE  PeerInv'
  BY <1>k DEF PeerInv
\* A release closes the port, whatever the state was.
<1>r. ASSUME NEW next, Release(next) PROVE pc' # "draining" /\ (state' \in Live => state \in Live /\ ~link)
  BY <1>r DEF Release
<1>1. CASE Loop
  BY <1>1, <1>0, <1>k, <1>r DEF Loop, Top, Take, TryRun, TryAbandon, TryClaimTwice, TryLater,
                                Crash, Dismiss, linkVars
<1>2. CASE Execute
  <2>1. CASE ExecuteDone
    BY <2>1 DEF ExecuteDone, Fault, PeerInv
  <2>2. CASE ExecuteTimeout
    BY <2>2 DEF ExecuteTimeout, PeerInv
  <2>3. CASE ExecuteReset \/ ExecuteCrash
    BY <2>3, <1>0, <1>r DEF ExecuteReset, ExecuteCrash, Crash, PeerInv
  <2>4. CASE ExecuteError
    BY <2>4, <1>k DEF ExecuteError, Answered, Dismiss, linkVars
  <2> QED BY <1>2, <2>1, <2>2, <2>3, <2>4 DEF Execute
<1>3. CASE Step
  BY <1>3, <1>k, <1>r DEF Step, StepLeased, StepOpen, StepNothing, StepBackoff, StepSession,
                          stepFrame, linkVars, Unleased, BackoffNext
<1>4. CASE Session
  <2>1. CASE Open \/ OpenFail \/ OpenCrash \/ Discover
    BY <2>1 DEF Open, OpenFail, OpenCrash, Discover, PeerInv
  <2>2. CASE Connect \/ EnterDone
    <3>1. EnterDone => \E alive \in {TRUE} : peerUp' = alive
      BY DEF EnterDone, Fault
    <3>2. peerUp' = TRUE
      BY <2>2, <3>1 DEF Connect
    <3> QED BY <3>2 DEF PeerInv
  <2>3. CASE DiscoverFail \/ ConnectFail \/ EnterCrash
    BY <2>3, <1>k, <1>r DEF DiscoverFail, ConnectFail, EnterCrash, Crash, linkVars
  <2>4. CASE EnterReset
    BY <2>4, <1>0, <1>r DEF EnterReset, EnterRefuses, PeerInv
  <2>5. CASE DrainQuiet
    BY <2>5 DEF DrainQuiet, PeerInv
  <2>6. CASE DrainFail
    BY <2>6, <1>k, <1>r DEF DrainFail, stepFrame, linkVars
  <2> QED BY <1>4, <2>1, <2>2, <2>3, <2>4, <2>5, <2>6 DEF Session
<1>5. CASE House
  <2>1. CASE PollAlarmsFail
    BY <2>1, <1>0, <1>r DEF PollAlarmsFail, Crash, PeerInv
  <2>2. CASE House /\ ~PollAlarmsFail
    BY <2>2, <1>k, <1>r DEF House, PollAlarms, Polled, NoPoll, Keepalive, KeepaliveFail,
                            IdleRelease, NothingDue, houseFrame, linkVars, Crash
  <2> QED BY <1>5, <2>1, <2>2
<1>6. CASE Ending
  <2>1. CASE Released
    <3>1. after \in Sequels
      BY <2>1 DEF Released, Control
    <3>2. state' \notin Live
      BY <2>1, <3>1 DEF Released, StateAfter, Sequels
    <3> QED BY <2>1, <3>1, <3>2 DEF PeerInv, Released, PcAfter
  <2>2. CASE ReleaseGarbled \/ Teardown
    BY <2>2, <1>k, <1>r DEF ReleaseGarbled, Teardown, linkVars
  <2> QED BY <1>6, <2>1, <2>2 DEF Ending
<1>7. CASE Client \/ Clock \/ UNCHANGED vars
  BY <1>7, BystanderStep, <1>k DEF workerVars, vars, linkVars
<1> QED BY <1>1, <1>2, <1>3, <1>4, <1>5, <1>6, <1>7 DEF Next, Worker

\* The state the service advertises as connected has an open port and a peer
\* that did not drop the link, as long as no call of the worker's own swallows
\* a LinkReset (_sweep_device_data and _subscribe do: the fault "swallow").
THEOREM ConnectedReal ==
  ASSUME "swallow" \notin Faults
  PROVE  Spec => []ConnectedIsReal
<1>1. Init => SessionInv /\ PeerInv
  BY DEF Init, SessionInv, ClosedMeansReleased, PeerInv
<1>2. TypeOK => Control
  BY TypeParts
<1>3. SessionInv /\ PeerInv => ConnectedIsReal
  BY DEF SessionInv, PeerInv, ConnectedIsReal
<1> QED BY <1>1, <1>2, <1>3, SessionStep, PeerStep, WorkerTypes, PTL DEF Spec

\* A request that was given up is owed an answer only in quarantine, or while the
\* link it would come on is being released.
OwingInv ==
  owing => \/ state = "draining" /\ pc \in {"top", "take", "try", "step", "draining"}
           \/ state = "releasing" /\ pc \in {"releasing", "dead"}

LEMMA OwingStep ==
  ASSUME "laggard" \notin Faults
  PROVE  TypeOK /\ SessionInv /\ OwingInv /\ [Next]_vars => OwingInv'
<1> SUFFICES ASSUME TypeOK, SessionInv, OwingInv, [Next]_vars PROVE OwingInv'
  OBVIOUS
<1>0. owing \in BOOLEAN /\ link \in BOOLEAN /\ (state = "draining" => link)
  BY DEF TypeOK, SessionInv
\* Nothing is owed where the worker is, and no request is given up.
<1>n. ASSUME pc \notin {"top", "take", "try", "step", "draining", "releasing", "dead"},
             owing' => owing
      PROVE  OwingInv'
  BY <1>n, <1>0 DEF OwingInv
<1>1. CASE Loop
  BY <1>1, <1>0 DEF Loop, Top, Take, TryRun, TryAbandon, TryClaimTwice, TryLater, Crash,
                    Release, Dismiss, RefreshLease, linkVars, OwingInv
<1>2. CASE Execute
  <2>1. CASE ExecuteTimeout
    BY <2>1 DEF ExecuteTimeout, AfterTimeout, Answered, Dismiss, OwingInv
  <2>2. CASE ExecuteDone \/ ExecuteReset \/ ExecuteError \/ ExecuteCrash
    <3>1. pc = "exec" /\ owing' = owing
      BY <2>2 DEF ExecuteDone, ExecuteReset, ExecuteError, ExecuteCrash, linkVars
    <3> QED BY <3>1, <1>n
  <2> QED BY <1>2, <2>1, <2>2 DEF Execute
<1>3. CASE Step
  BY <1>3, <1>0 DEF Step, StepLeased, StepOpen, StepNothing, StepBackoff, StepSession,
                    stepFrame, linkVars, Release, Unleased, Closable, Unavailable, OwingInv
<1>4. CASE Session
  <2>1. CASE DrainQuiet \/ DrainFail
    BY <2>1, <1>0 DEF DrainQuiet, DrainFail, stepFrame, linkVars, Release, OwingInv
  <2>2. CASE Session /\ ~(DrainQuiet \/ DrainFail)
    <3>1. CASE EnterDone
      <4>1. pc = "entering" /\ \E lag \in {FALSE} : owing' = lag
        BY <3>1 DEF EnterDone, Fault
      <4> QED BY <4>1, <1>n
    <3>2. CASE Session /\ ~(EnterDone \/ DrainQuiet \/ DrainFail)
      <4>1. pc \in {"opening", "discovering", "connecting", "entering"} /\ owing' = owing
        BY <3>2 DEF Session, Open, OpenFail, OpenCrash, Discover, DiscoverFail, Connect,
                    ConnectFail, EnterReset, EnterCrash, linkVars
      <4> QED BY <4>1, <1>n
    <3> QED BY <2>2, <3>1, <3>2
  <2> QED BY <1>4, <2>1, <2>2
<1>5. CASE House
  BY <1>5, <1>n, <1>0 DEF House, PollAlarms, PollAlarmsFail, Polled, NoPoll, Keepalive,
                    KeepaliveFail, IdleRelease, NothingDue, houseFrame, linkVars, Fault
<1>6. CASE Ending
  BY <1>6, <1>0 DEF Ending, Released, ReleaseGarbled, Teardown, Release, linkVars, OwingInv
<1>7. CASE Client \/ Clock \/ UNCHANGED vars
  BY <1>7, BystanderStep DEF workerVars, vars, linkVars, OwingInv
<1> QED BY <1>1, <1>2, <1>3, <1>4, <1>5, <1>6, <1>7 DEF Next, Worker

\* No command runs between an acknowledged request that was given up and the
\* quarantine that disposes of its late answer, as long as the worker gives up
\* no request of its own (the fault "laggard").
THEOREM Quarantined ==
  ASSUME "laggard" \notin Faults
  PROVE  Spec => []QuarantinedFirst
<1>1. Init => SessionInv /\ OwingInv
  BY DEF Init, SessionInv, ClosedMeansReleased, OwingInv
<1>2. TypeOK => Control
  BY TypeParts
<1>3. TypeOK /\ OwingInv => QuarantinedFirst
  BY DEF OwingInv, QuarantinedFirst, TypeOK
<1> QED BY <1>1, <1>2, <1>3, SessionStep, OwingStep, WorkerTypes, PTL DEF Spec
-------------------------------------------------------------------------------
\* A port that is handed over is not held, and the worker passes through its
\* loop without a session, or stops.
LeasedInv ==
  state = "leased" => pc \in {"top", "take", "try", "step"}
                        \/ (pc = "releasing" /\ after = "shutdown")

\* What is parked while the port is handed over can be claimed.
LEMMA LeasedClaimable ==
  ASSUME TypeOK, InHandInv, HeadInv, RunningInv, state = "leased", pc = "try"
  PROVE  Claimable
<1>1. head \in Cmds
  BY DEF InHandInv
<1>2. fut[head] # "running"
  BY <1>1 DEF RunningInv, Stranded
<1> QED BY <1>1, <1>2 DEF HeadInv, Claimable

LEMMA LeasedStep ==
  TypeOK /\ SessionInv /\ InHandInv /\ HeadInv /\ RunningInv /\ LeasedInv /\ [Next]_vars
    => LeasedInv'
<1> SUFFICES ASSUME TypeOK, SessionInv, InHandInv, HeadInv, RunningInv, LeasedInv, [Next]_vars
             PROVE  LeasedInv'
  OBVIOUS
<1>0. pc = "releasing" => after \in Sequels
  BY DEF TypeOK
\* The state does not become "leased" on the way.
<1>n. ASSUME state # "leased", state' = "leased" => state = "leased" PROVE LeasedInv'
  BY <1>n DEF LeasedInv
<1>1. CASE Loop
  <2>1. CASE TryClaimTwice
    <3>1. state # "leased"
      BY <2>1, LeasedClaimable DEF TryClaimTwice
    <3> QED BY <2>1, <3>1, <1>n DEF TryClaimTwice, Crash, Release
  <2>2. CASE Loop /\ ~TryClaimTwice
    BY <2>2 DEF Loop, Top, Take, TryRun, TryAbandon, TryLater, RefreshLease, Dismiss, LeasedInv
  <2> QED BY <1>1, <2>1, <2>2
<1>2. CASE Execute
  BY <1>2, <1>n DEF Execute, ExecuteDone, ExecuteReset, ExecuteTimeout, ExecuteError,
                    ExecuteCrash, Crash, Release, AfterTimeout, LeasedInv
<1>3. CASE Step
  BY <1>3 DEF Step, StepLeased, StepOpen, StepNothing, StepBackoff, StepSession, Release,
              Unleased, BackoffNext, LeasedInv
<1>4. CASE Session
  BY <1>4, <1>n DEF Session, Open, OpenFail, OpenCrash, Discover, DiscoverFail, Connect,
                    ConnectFail, EnterDone, EnterReset, EnterCrash, EnterRefuses, DrainQuiet,
                    DrainFail, Crash, Release, LeasedInv
<1>5. CASE House
  BY <1>5, <1>n DEF House, PollAlarms, PollAlarmsFail, Polled, NoPoll, Keepalive,
                    KeepaliveFail, IdleRelease, NothingDue, Crash, Release, LeasedInv
<1>6. CASE Ending
  <2>1. CASE Released
    BY <2>1, <1>0 DEF Released, StateAfter, PcAfter, Sequels, LeasedInv
  <2>2. CASE ReleaseGarbled
    BY <2>2 DEF ReleaseGarbled, SessionInv, ClosedMeansReleased, FailFast, LeasedInv
  <2>3. CASE Teardown
    BY <2>3 DEF Teardown, Release, LeasedInv
  <2> QED BY <1>6, <2>1, <2>2, <2>3 DEF Ending
<1>7. CASE Client \/ Clock \/ UNCHANGED vars
  BY <1>7, BystanderStep DEF workerVars, vars, LeasedInv
<1> QED BY <1>1, <1>2, <1>3, <1>4, <1>5, <1>6, <1>7 DEF Next, Worker

\* Once handed over, the port stays with the operator until the lease ends: no
\* command, monitor tick, retry or crash takes it back.
THEOREM LeaseKept == Spec => LeaseNotLost
<1> DEFINE Kept == state = "leased" /\ lease => state' \in {"leased", "shutdown"} /\ ~link'
<1>1. Init => SessionInv /\ RunningInv /\ CustodyInv /\ InHandInv /\ HeadInv /\ LeasedInv
  BY NoCommandAssumption
  DEF Init, SessionInv, ClosedMeansReleased, RunningInv, CustodyInv, NoOrphan, InQueue, ToSet,
      IsInjective, InHandInv, HeadInv, LeasedInv
<1>2. TypeOK => Control
  BY TypeParts
<1>3. TypeOK /\ SessionInv /\ InHandInv /\ HeadInv /\ RunningInv /\ LeasedInv /\ [Next]_vars
        => [Kept]_vars
  <2> SUFFICES ASSUME TypeOK, SessionInv, InHandInv, HeadInv, RunningInv, LeasedInv, Next,
                      state = "leased", lease
               PROVE  state' \in {"leased", "shutdown"} /\ ~link'
    OBVIOUS
  <2>0. /\ ~link
        /\ pc \in {"top", "take", "try", "step"} \/ (pc = "releasing" /\ after = "shutdown")
    BY DEF SessionInv, ClosedMeansReleased, FailFast, LeasedInv
  <2>1. CASE Loop
    <3>1. ~TryClaimTwice
      <4> SUFFICES ASSUME TryClaimTwice PROVE FALSE
        OBVIOUS
      <4> QED BY LeasedClaimable DEF TryClaimTwice
    <3>2. RefreshLease = "leased"
      BY DEF RefreshLease
    <3>3. state' = "leased" /\ link' = link
      BY <2>1, <3>1, <3>2 DEF Loop, Top, Take, TryRun, TryAbandon, TryLater, linkVars
    <3> QED BY <2>0, <3>3
  <2>2. CASE Execute
    BY <2>0, <2>2 DEF Execute, ExecuteDone, ExecuteReset, ExecuteTimeout, ExecuteError,
                      ExecuteCrash
  <2>3. CASE Step
    BY <2>0, <2>3 DEF Step, StepLeased, StepOpen, StepNothing, StepBackoff, StepSession,
                      stepFrame, linkVars
  <2>4. CASE Session
    BY <2>0, <2>4 DEF Session, Open, OpenFail, OpenCrash, Discover, DiscoverFail, Connect,
                      ConnectFail, EnterDone, EnterReset, EnterCrash, DrainQuiet, DrainFail
  <2>5. CASE House
    BY <2>0, <2>5 DEF House, PollAlarms, PollAlarmsFail, Polled, NoPoll, Keepalive,
                      KeepaliveFail, IdleRelease, NothingDue
  <2>6. CASE Ending
    <3>1. CASE Released
      BY <2>0, <3>1 DEF Released, StateAfter
    <3>2. CASE Teardown
      BY <2>0, <3>2 DEF Teardown, Release, linkVars
    <3>3. ~ReleaseGarbled
      BY <2>0 DEF ReleaseGarbled
    <3> QED BY <2>6, <3>1, <3>2, <3>3 DEF Ending
  <2>7. CASE Client \/ Clock
    BY <2>0, <2>7, BystanderStep DEF workerVars, linkVars
  <2> QED BY <2>1, <2>2, <2>3, <2>4, <2>5, <2>6, <2>7 DEF Next, Worker
<1> QED BY <1>1, <1>2, <1>3, SessionStep, RunningStep, CustodyStep, InHandStep, HeadStep,
           LeasedStep, WorkerTypes, PTL DEF Spec, LeaseNotLost
===============================================================================
