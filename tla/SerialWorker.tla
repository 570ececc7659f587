----------------------------- MODULE SerialWorker -----------------------------
(***************************************************************************)
(* The worker thread of openaisg/session.py: the sole owner of the serial  *)
(* port and of the AISG link.  Other threads submit commands and wait on   *)
(* their futures, take and drop a lease on the port, and ask the worker to *)
(* stop.  The exchanges the worker makes on the link are outcomes here;    *)
(* module Exchange models them frame by frame.                             *)
(*                                                                         *)
(* An action is the code between two points where the worker can block (a  *)
(* queue wait, an exchange on the link, opening or closing the port), so   *)
(* the other threads act between any two of them.                          *)
(***************************************************************************)
EXTENDS Naturals, Sequences, SequencesExt

CONSTANTS Cmds,       \* clients; each has at most one command outstanding
          Monitors,   \* the monitoring modes a behaviour may be configured with
          Faults,     \* what may go wrong in a behaviour
          Resubmit,   \* TRUE: a client may submit again once it was answered
          Requests,   \* what other threads ask for, besides submitting
          None

AllMonitors == {"off", "duty-cycled", "continuous"}

AllFaults ==
  {"busy",      \* another process holds the port's lock
   "lost",      \* the adapter does not answer
   "nodev",     \* no device answers the scan
   "reset",     \* the device drops the link (DM or FRMR)
   "swallow",   \* as reset, inside a call that ignores every AisgError
   "timeout",   \* a command was acknowledged and never answered
   "laggard",   \* as timeout, in one of the worker's own requests
   "error",     \* any other AisgError
   "io",        \* an exception that is not an AisgError (OSError, ValueError)
   "garble"}    \* a U-frame answer has a bad FCS: FrameError, no AisgError either

ASSUME MonitorsAssumption == Monitors \subseteq AllMonitors
ASSUME FaultsAssumption == Faults \subseteq AllFaults
ASSUME RequestsAssumption == Requests \subseteq {"lease", "stop", "cancel"}
ASSUME ResubmitAssumption == Resubmit \in BOOLEAN
ASSUME NoCommandAssumption == None \notin Cmds

VARIABLES
  pc, after,                     \* where run() is; what follows a release
  head, stop,                    \* run()'s parked command; _stop
  queue, fut, late,              \* _q; futures; past their link_deadline
  state, link, peerUp,           \* self.state, self.link, PeerState.connected
  addressed, subscribed,         \* self.address, self.alarm_mode
  want, armed, lease,            \* _want_link, now < _backoff_until, _lease_until
  monitor,                       \* self.monitor
  monitorDue, keepaliveDue, idle, \* the timers of _connected_housekeeping
  owing                          \* ghost: an acknowledged request was given up,
                                 \* and the link not quarantined since

cmdVars  == <<queue, fut, late>>
linkVars == <<link, peerUp, addressed, subscribed, owing>>
dueVars  == <<monitorDue, keepaliveDue, idle>>
vars     == <<pc, after, head, stop, cmdVars, state, linkVars,
              want, armed, lease, monitor, dueVars>>

Unavailable == {"port_busy", "port_lost", "no_devices"}
FailFast    == Unavailable \cup {"backoff", "leased", "shutdown"}
LinkStates  == FailFast \cup {"closed", "opening", "discovering", "connecting",
                              "connected", "draining", "releasing"}

Settled == {"done", "failed", "cancelled"}

Fault(f) == f \in Faults

Init ==
  /\ pc = "top" /\ after = None /\ head = None /\ stop = FALSE
  /\ queue = <<>> /\ fut = [c \in Cmds |-> "none"] /\ late = {}
  /\ state = "closed" /\ link = FALSE /\ peerUp = FALSE
  /\ addressed = FALSE /\ subscribed = FALSE /\ owing = FALSE
  /\ want = FALSE /\ armed = FALSE /\ lease = FALSE
  /\ monitor \in Monitors
  /\ monitorDue = (monitor # "off") /\ keepaliveDue = (monitor = "continuous")
  /\ idle = (monitor = "off")

-------------------------------------------------------------------------------
Sequels == {"failed", "reset", "internal", "polled", "nodev", "leased", "closed",
            "shutdown"}

\* variant: a failure does not set BACKOFF
StateAfterUnnamed(next) == IF next = "nodev" THEN "no_devices" ELSE next

StateAfter(next) ==
  CASE next \in {"failed", "reset", "internal", "polled"} -> "backoff"
    [] next = "nodev" -> "no_devices"
    [] OTHER          -> next

\* variant: the final state is announced before the port is closed
ReleaseAnnounced(next) ==
  /\ pc' = "releasing" /\ after' = next
  /\ state' = StateAfter(next)

\* _release, and what its caller does next.  Closing the port takes a DISC
\* exchange, during which the state is "releasing".
Release(next) ==
  /\ pc' = "releasing" /\ after' = next
  /\ state' = IF link THEN "releasing" ELSE state

\* The except clause of run(): _fail_link("internal error").
Crash == Release("internal")

PcAfter(next) == CASE next = "polled"   -> "polled"
                   [] next = "shutdown" -> "stopped"
                   [] OTHER             -> "top"

ArmsBackoff(next) == next \in {"failed", "reset", "internal", "polled", "nodev"}

\* A reset fails the command only once the link is released (430).
Released ==
  /\ pc = "releasing"
  /\ link' = FALSE /\ peerUp' = FALSE /\ owing' = FALSE
  /\ state' = StateAfter(after) /\ pc' = PcAfter(after) /\ after' = None
  /\ armed' = (armed \/ ArmsBackoff(after))
  /\ IF after = "reset"
     THEN fut' = [fut EXCEPT ![head] = "failed"] /\ head' = None
     ELSE UNCHANGED <<fut, head>>
  /\ UNCHANGED <<stop, queue, late, addressed, subscribed, want, lease, monitor,
                 dueVars>>

\* FrameError is not an AisgError, so _release does not catch it: run()'s
\* except clause releases again, and an exception there ends the thread.
ReleaseGarbled ==
  /\ pc = "releasing" /\ Fault("garble") /\ link /\ addressed
  /\ IF after \in {"internal", "shutdown"}
     THEN pc' = "dead" /\ UNCHANGED after
     ELSE after' = "internal" /\ UNCHANGED pc
  /\ UNCHANGED <<head, stop, cmdVars, state, linkVars, want, armed, lease,
                 monitor, dueVars>>

-------------------------------------------------------------------------------
\* The loop of run().
\* variant: the deadline of the lease is not compared
RefreshBlindly == IF state = "leased" THEN "closed" ELSE state

RefreshLease == IF state = "leased" /\ ~lease THEN "closed" ELSE state

\* variant: the parked command is overwritten by the next one
TopAlwaysTakes ==
  /\ pc = "top" /\ ~stop
  /\ state' = RefreshLease
  /\ pc' = "take"
  /\ UNCHANGED <<after, head, stop, cmdVars, linkVars, want, armed, lease,
                 monitor, dueVars>>

Top ==
  /\ pc = "top" /\ ~stop
  /\ state' = RefreshLease
  /\ pc' = IF head = None THEN "take" ELSE "try"
  /\ UNCHANGED <<after, head, stop, cmdVars, linkVars, want, armed, lease,
                 monitor, dueVars>>

\* variant: the newest command is served first
TakeNewest ==
  /\ pc = "take"
  /\ IF queue = <<>>
     THEN pc' = "step" /\ UNCHANGED <<head, queue>>
     ELSE pc' = "try" /\ head' = Last(queue) /\ queue' = Front(queue)
  /\ UNCHANGED <<after, stop, fut, late, state, linkVars, want, armed, lease,
                 monitor, dueVars>>

Take ==
  /\ pc = "take"
  /\ IF queue = <<>>
     THEN pc' = "step" /\ UNCHANGED <<head, queue>>
     ELSE pc' = "try" /\ head' = Head(queue) /\ queue' = Tail(queue)
  /\ UNCHANGED <<after, stop, fut, late, state, linkVars, want, armed, lease,
                 monitor, dueVars>>

\* _try_execute.  set_running_or_notify_cancel raises unless the future is
\* pending or cancelled.
Claimable == fut[head] \in {"pending", "cancelled"}

\* variant: no link_deadline
GiveUpWithoutDeadline == RefreshLease \in FailFast

GiveUp == RefreshLease \in FailFast \/ head \in late

Dismiss == pc' = "top" /\ head' = None /\ UNCHANGED after

TryRun ==
  /\ pc = "try" /\ RefreshLease = "connected" /\ fut[head] = "pending"
  /\ fut' = [fut EXCEPT ![head] = "running"] /\ pc' = "exec"
  /\ UNCHANGED <<after, head, stop, queue, late, state, linkVars, want, armed,
                 lease, monitor, dueVars>>

TryAbandon ==
  /\ pc = "try" /\ Claimable
  /\ IF RefreshLease = "connected" THEN fut[head] = "cancelled" ELSE GiveUp
  /\ fut' = [fut EXCEPT ![head] = IF @ = "pending" THEN "failed" ELSE @]
  /\ state' = RefreshLease /\ Dismiss
  /\ UNCHANGED <<stop, queue, late, linkVars, want, armed, lease, monitor, dueVars>>

TryClaimTwice ==
  /\ pc = "try" /\ ~Claimable
  /\ RefreshLease = "connected" \/ GiveUp
  /\ Crash
  /\ UNCHANGED <<head, stop, cmdVars, linkVars, want, armed, lease, monitor, dueVars>>

\* variant: the future is claimed before the link is up
TryLaterClaims ==
  /\ pc = "try" /\ RefreshLease # "connected" /\ ~GiveUp
  /\ want' = TRUE /\ state' = RefreshLease /\ pc' = "step"
  /\ fut' = [fut EXCEPT ![head] = IF @ = "pending" THEN "running" ELSE @]
  /\ UNCHANGED <<after, head, stop, queue, late, linkVars, armed, lease, monitor, dueVars>>

TryLater ==
  /\ pc = "try" /\ RefreshLease # "connected" /\ ~GiveUp
  /\ want' = TRUE /\ state' = RefreshLease /\ pc' = "step"
  /\ UNCHANGED <<after, head, stop, cmdVars, linkVars, armed, lease, monitor, dueVars>>

-------------------------------------------------------------------------------
\* _execute: the command's exchanges, by how they end.
Answered(how) == fut' = [fut EXCEPT ![head] = how] /\ Dismiss

ExecuteDone ==
  /\ pc = "exec" /\ peerUp
  /\ Answered("done")
  /\ idle' = FALSE
  /\ \E alive \in IF Fault("swallow") THEN BOOLEAN ELSE {TRUE} : peerUp' = alive
  /\ UNCHANGED <<stop, queue, late, state, link, addressed, subscribed, owing, want,
                 armed, lease, monitor, monitorDue, keepaliveDue>>

ExecuteReset ==
  /\ pc = "exec" /\ (Fault("reset") \/ ~peerUp)
  /\ peerUp' = FALSE /\ idle' = FALSE
  /\ UNCHANGED <<head, stop, cmdVars, link, addressed, subscribed, owing, want,
                 armed, lease, monitor, monitorDue, keepaliveDue>>
  /\ Release("reset")

\* variant: no quarantine
AfterTimeoutUnchanged == "connected"

\* Acknowledged, so the device may still answer: the link is quarantined.
AfterTimeout == "draining"

ExecuteTimeout ==
  /\ pc = "exec" /\ Fault("timeout") /\ peerUp
  /\ Answered("failed")
  /\ state' = AfterTimeout /\ owing' = TRUE /\ idle' = FALSE
  /\ UNCHANGED <<stop, queue, late, link, peerUp, addressed, subscribed, want, armed,
                 lease, monitor, monitorDue, keepaliveDue>>

ExecuteError ==
  /\ pc = "exec" /\ Fault("error")
  /\ Answered("failed")
  /\ idle' = FALSE
  /\ UNCHANGED <<stop, queue, late, state, linkVars, want, armed, lease, monitor,
                 monitorDue, keepaliveDue>>

\* No clause of _execute settles the future, and run() keeps its head.
ExecuteCrash ==
  /\ pc = "exec" /\ Fault("io")
  /\ idle' = FALSE
  /\ UNCHANGED <<head, stop, cmdVars, linkVars, want, armed, lease, monitor,
                 monitorDue, keepaliveDue>>
  /\ Crash

-------------------------------------------------------------------------------
\* _step, and the states it dispatches on.
Closable == {"closed"} \cup Unavailable

ShouldOpen == \/ want \/ queue # <<>>
              \/ monitor = "continuous"
              \/ monitor = "duty-cycled" /\ monitorDue

stepFrame == <<head, stop, cmdVars, linkVars, want, armed, lease, monitor, dueVars>>

\* variant: the state changes and the port stays open
StepLeasedKeepsPort ==
  /\ pc = "step" /\ lease
  /\ pc' = "top" /\ state' = "leased"
  /\ UNCHANGED <<after, stepFrame>>

StepLeased ==
  /\ pc = "step" /\ lease
  /\ IF state \in {"leased", "closed"} \/ ~link
     THEN pc' = "top" /\ state' = "leased" /\ UNCHANGED after
     ELSE Release("leased")
  /\ UNCHANGED stepFrame

\* The state _step goes on with: a lapsed lease leaves the port closed.
Unleased == IF state = "leased" THEN "closed" ELSE state

StepOpen ==
  /\ pc = "step" /\ ~lease /\ Unleased \in Closable /\ ShouldOpen
  /\ pc' = "opening" /\ state' = "opening"
  /\ UNCHANGED <<after, stepFrame>>

StepNothing ==
  /\ pc = "step" /\ ~lease /\ Unleased \in Closable /\ ~ShouldOpen
  /\ pc' = "top" /\ state' = Unleased
  /\ UNCHANGED <<after, stepFrame>>

BackoffNext == IF armed THEN "backoff" ELSE "closed"

StepBackoff ==
  /\ pc = "step" /\ ~lease /\ state = "backoff"
  /\ pc' = "top" /\ state' = BackoffNext
  /\ UNCHANGED <<after, stepFrame>>

StepSession ==
  /\ pc = "step" /\ ~lease /\ state \in {"draining", "connected"}
  /\ pc' = IF state = "draining" THEN "draining" ELSE "house"
  /\ UNCHANGED <<after, state, stepFrame>>

\* _drain; what it reads is module Exchange's business.
DrainQuiet ==
  /\ pc = "draining"
  /\ pc' = "top" /\ state' = "connected" /\ owing' = FALSE
  /\ UNCHANGED <<after, head, stop, cmdVars, link, peerUp, addressed, subscribed,
                 want, armed, lease, monitor, dueVars>>

DrainFail ==
  /\ pc = "draining" /\ Fault("io")
  /\ Release("failed")
  /\ UNCHANGED stepFrame

-------------------------------------------------------------------------------
\* _open_and_connect, one action per thing it waits for.
openFrame == <<head, stop, cmdVars, lease, monitor, dueVars>>

Open ==
  /\ pc = "opening"
  /\ pc' = "discovering" /\ state' = "discovering"
  /\ link' = TRUE /\ addressed' = FALSE
  /\ UNCHANGED <<after, openFrame, peerUp, subscribed, owing, want, armed>>

OpenFail ==
  /\ pc = "opening" /\ pc' = "top" /\ armed' = TRUE
  /\ \/ Fault("busy") /\ state' = "port_busy"
     \/ Fault("lost") /\ state' = "port_lost"
     \/ Fault("error") /\ state' = "backoff"
  /\ UNCHANGED <<after, openFrame, linkVars, want>>

\* _clear_stale_links, like the rest of this, catches AisgError only.
Escapes == Fault("io") \/ Fault("garble")

OpenCrash ==
  /\ pc = "opening" /\ Escapes
  /\ pc' = "releasing" /\ after' = "internal"
  /\ link' = TRUE /\ state' = "releasing"
  /\ UNCHANGED <<openFrame, peerUp, addressed, subscribed, owing, want, armed>>

Discover ==
  /\ pc = "discovering"
  /\ pc' = "connecting" /\ state' = "connecting"
  /\ UNCHANGED <<after, openFrame, linkVars, want, armed>>

DiscoverFail ==
  /\ pc = "discovering"
  /\ UNCHANGED <<openFrame, linkVars, want, armed>>
  /\ \/ Fault("nodev") /\ Release("nodev")
     \/ Fault("error") /\ Release("failed")
     \/ Escapes /\ Crash

Connect ==
  /\ pc = "connecting" /\ pc' = "entering"
  /\ addressed' = TRUE /\ peerUp' = TRUE /\ want' = FALSE
  /\ UNCHANGED <<after, openFrame, state, link, subscribed, owing, armed>>

ConnectFail ==
  /\ pc = "connecting"
  /\ UNCHANGED <<openFrame, linkVars, want, armed>>
  /\ \/ Fault("error") /\ Release("failed")
     \/ Escapes /\ Crash

\* _on_connected: an AisgError among the entry actions is not a reason to
\* refuse the session, a LinkReset is.  One that _sweep_device_data or
\* _subscribe ignores is noticed by the requests after it, unless they fail too.
EnterDone ==
  /\ pc = "entering"
  /\ pc' = "top" /\ state' = "connected"
  /\ subscribed' \in BOOLEAN
  /\ \E alive \in IF Fault("swallow") /\ Fault("error") THEN BOOLEAN ELSE {TRUE} : peerUp' = alive
  /\ \E lag \in IF Fault("laggard") THEN BOOLEAN ELSE {FALSE} : owing' = lag
  /\ UNCHANGED <<after, openFrame, link, addressed, want, armed>>

\* variant: the result of _on_connected is ignored
EnterAdvertises == state' = "connected" /\ pc' = "top" /\ UNCHANGED after

EnterRefuses == Release("failed")

EnterReset ==
  /\ pc = "entering" /\ Fault("reset")
  /\ peerUp' = FALSE
  /\ UNCHANGED <<openFrame, link, addressed, subscribed, owing, want, armed>>
  /\ EnterRefuses

EnterCrash ==
  /\ pc = "entering" /\ Fault("io")
  /\ UNCHANGED <<openFrame, linkVars, want, armed>>
  /\ Crash

-------------------------------------------------------------------------------
\* _connected_housekeeping.
houseFrame == <<head, stop, cmdVars, want, armed, lease, monitor>>

MonitorDue == monitorDue /\ (\/ monitor = "duty-cycled"
                             \/ monitor = "continuous" /\ ~subscribed)

PollAlarms ==
  /\ pc = "house" /\ MonitorDue
  /\ monitorDue' = FALSE /\ idle' = FALSE
  /\ pc' = "polled"
  /\ \E lag \in IF Fault("laggard") THEN BOOLEAN ELSE {owing} : owing' = (owing \/ lag)
  /\ UNCHANGED <<after, houseFrame, state, link, peerUp, addressed, subscribed,
                 keepaliveDue>>

PollAlarmsFail ==
  /\ pc = "house" /\ MonitorDue
  /\ monitorDue' = FALSE /\ idle' = FALSE
  /\ UNCHANGED <<houseFrame, link, addressed, subscribed, owing, keepaliveDue>>
  /\ \/ (Fault("reset") \/ ~peerUp) /\ peerUp' = FALSE /\ Release("polled")
     \/ Fault("io") /\ UNCHANGED peerUp /\ Crash

\* variant: the duty cycle keeps the port
DutyCycleForgotten == FALSE

\* The duty cycle gives the port back, also when the poll lost the link and
\* the state is "backoff" by now.
DutyCycleDone == monitor = "duty-cycled" /\ queue = <<>>

Polled ==
  /\ pc = "polled"
  /\ IF ~DutyCycleDone THEN pc' = "tail" /\ UNCHANGED <<after, state>>
     ELSE IF link THEN Release("closed")
     ELSE pc' = "top" /\ state' = "closed" /\ UNCHANGED after
  /\ UNCHANGED <<houseFrame, linkVars, dueVars>>

NoPoll ==
  /\ pc = "house" /\ ~MonitorDue
  /\ pc' = "tail"
  /\ UNCHANGED <<after, houseFrame, state, linkVars, dueVars>>

KeepaliveDue == monitor = "continuous" /\ keepaliveDue

IdleDue == monitor = "off" /\ idle

Keepalive ==
  /\ pc = "tail" /\ KeepaliveDue /\ link
  /\ keepaliveDue' = FALSE /\ pc' = "top"
  /\ UNCHANGED <<after, houseFrame, state, linkVars, monitorDue, idle>>

\* DM or FRMR, an OSError, or no link left to poll (AttributeError).
KeepaliveFail ==
  /\ pc = "tail" /\ KeepaliveDue
  /\ keepaliveDue' = FALSE
  /\ UNCHANGED <<houseFrame, linkVars, monitorDue, idle>>
  /\ \/ link /\ (Fault("reset") \/ Fault("io") \/ ~peerUp) /\ Release("failed")
     \/ ~link /\ Crash

IdleRelease ==
  /\ pc = "tail" /\ IdleDue
  /\ Release("closed")
  /\ UNCHANGED <<houseFrame, linkVars, dueVars>>

NothingDue ==
  /\ pc = "tail" /\ ~KeepaliveDue /\ ~IdleDue
  /\ pc' = "top"
  /\ UNCHANGED <<after, houseFrame, state, linkVars, dueVars>>

-------------------------------------------------------------------------------
\* The end of run(): _teardown, then the release, then SHUTDOWN.
InQueue(c) == c \in ToSet(queue)

Teardown ==
  /\ pc = "top" /\ stop
  /\ fut' = [c \in Cmds |-> IF InQueue(c) /\ fut[c] = "pending" THEN "failed"
                            ELSE fut[c]]
  /\ queue' = <<>>
  /\ Release("shutdown")
  /\ UNCHANGED <<head, stop, late, linkVars, want, armed, lease, monitor, dueVars>>

-------------------------------------------------------------------------------
\* The other threads, and time.  A timer runs in the modes that read it.
workerVars == <<pc, after, head, state, linkVars, want, monitor>>

\* submit
Submit(c) ==
  /\ fut[c] = "none" /\ ~stop
  /\ fut' = [fut EXCEPT ![c] = "pending"] /\ queue' = Append(queue, c)
  /\ late' = late \ {c}
  /\ UNCHANGED <<workerVars, stop, armed, lease, dueVars>>

Cancel(c) ==
  /\ "cancel" \in Requests /\ fut[c] = "pending"
  /\ fut' = [fut EXCEPT ![c] = "cancelled"]
  /\ UNCHANGED <<workerVars, stop, queue, late, armed, lease, dueVars>>

\* A client is free for another command once the worker is done with this one.
Collect(c) ==
  /\ Resubmit /\ fut[c] \in Settled /\ ~InQueue(c) /\ head # c
  /\ fut' = [fut EXCEPT ![c] = "none"]
  /\ UNCHANGED <<workerVars, stop, queue, late, armed, lease, dueVars>>

\* lease and unlease; a lease also lapses by itself.
SetLease(on) ==
  /\ "lease" \in Requests /\ lease # on /\ lease' = on
  /\ UNCHANGED <<workerVars, stop, cmdVars, armed, dueVars>>

Stop ==
  /\ "stop" \in Requests /\ ~stop /\ stop' = TRUE
  /\ UNCHANGED <<workerVars, cmdVars, armed, lease, dueVars>>

DeadlinePasses(c) ==
  /\ InQueue(c) \/ head = c
  /\ c \notin late /\ late' = late \cup {c}
  /\ UNCHANGED <<workerVars, stop, queue, fut, armed, lease, dueVars>>

BackoffElapses ==
  /\ armed /\ armed' = FALSE
  /\ UNCHANGED <<workerVars, stop, cmdVars, lease, dueVars>>

MonitorFallsDue ==
  /\ monitor # "off" /\ ~monitorDue /\ monitorDue' = TRUE
  /\ UNCHANGED <<workerVars, stop, cmdVars, armed, lease, keepaliveDue, idle>>

KeepaliveFallsDue ==
  /\ monitor = "continuous" /\ ~keepaliveDue /\ keepaliveDue' = TRUE
  /\ UNCHANGED <<workerVars, stop, cmdVars, armed, lease, monitorDue, idle>>

IdleFallsDue ==
  /\ monitor = "off" /\ ~idle /\ idle' = TRUE
  /\ UNCHANGED <<workerVars, stop, cmdVars, armed, lease, monitorDue, keepaliveDue>>

-------------------------------------------------------------------------------
Loop    == Top \/ Take \/ TryRun \/ TryAbandon \/ TryClaimTwice \/ TryLater
Execute == ExecuteDone \/ ExecuteReset \/ ExecuteTimeout \/ ExecuteError \/ ExecuteCrash
Step    == StepLeased \/ StepOpen \/ StepNothing \/ StepBackoff \/ StepSession
Session == Open \/ OpenFail \/ OpenCrash \/ Discover \/ DiscoverFail \/ Connect
           \/ ConnectFail \/ EnterDone \/ EnterReset \/ EnterCrash
           \/ DrainQuiet \/ DrainFail
House   == PollAlarms \/ PollAlarmsFail \/ Polled \/ NoPoll \/ Keepalive
           \/ KeepaliveFail \/ IdleRelease \/ NothingDue
Ending  == Released \/ ReleaseGarbled \/ Teardown

Worker == Loop \/ Execute \/ Step \/ Session \/ House \/ Ending

Client == \/ \E c \in Cmds : Submit(c) \/ Cancel(c) \/ Collect(c)
          \/ \E on \in BOOLEAN : SetLease(on)
          \/ Stop

Clock == \/ \E c \in Cmds : DeadlinePasses(c)
         \/ BackoffElapses \/ MonitorFallsDue \/ KeepaliveFallsDue \/ IdleFallsDue

Next == Worker \/ Client \/ Clock

Spec == Init /\ [][Next]_vars

\* The thread keeps running, and the deadlines it compares with pass.  Nothing
\* is assumed of clients or of the link.
FairSpec == /\ Spec
            /\ WF_vars(Worker)
            /\ \A c \in Cmds : WF_vars(DeadlinePasses(c))
            /\ WF_vars(BackoffElapses)
            /\ WF_vars(MonitorFallsDue) /\ WF_vars(IdleFallsDue)

-------------------------------------------------------------------------------
\* Properties.

\* Everything has its type (session.py __init__, 225-269).
TypeOK ==
  /\ pc \in {"top", "take", "try", "exec", "step", "opening", "discovering",
             "connecting", "entering", "draining", "house", "polled", "tail",
             "releasing", "stopped", "dead"}
  /\ IF pc \in {"releasing", "dead"} THEN after \in Sequels ELSE after = None
  /\ head \in Cmds \cup {None}
  /\ queue \in Seq(Cmds) /\ late \subseteq Cmds
  /\ fut \in [Cmds -> Settled \cup {"none", "pending", "running"}]
  /\ state \in LinkStates
  /\ stop \in BOOLEAN /\ link \in BOOLEAN /\ peerUp \in BOOLEAN
  /\ addressed \in BOOLEAN /\ subscribed \in BOOLEAN /\ owing \in BOOLEAN
  /\ want \in BOOLEAN /\ armed \in BOOLEAN /\ lease \in BOOLEAN
  /\ monitorDue \in BOOLEAN /\ keepaliveDue \in BOOLEAN /\ idle \in BOOLEAN
  /\ monitor \in AllMonitors

\* A command whose future is unsettled is held in exactly one place, the queue
\* or run()'s head (338-354): on no path is it dropped without an answer.
NoOrphan ==
  /\ \A c \in Cmds : fut[c] \in {"pending", "running"} => InQueue(c) \/ head = c
  /\ ~InQueue(head) /\ IsInjective(queue)

\* A future is running only while its command is on the link; one that a crash
\* left running keeps the link from coming back, so it is never put on another
\* (_try_execute, _execute, 388-446).
RunningIsServed ==
  \A c \in Cmds : fut[c] = "running" =>
    head = c /\ (pc = "exec" \/ state \in {"releasing", "backoff", "shutdown"})

\* The state the service advertises as connected has a port and a peer that
\* did not drop the link (_open_and_connect, 556-560).
ConnectedIsReal == state = "connected" => link /\ peerUp

\* In the states that tell an operator the port is free, it is: "no fd, no lock"
\* (LinkState, 47); and it is opened only when it is not open already.
ClosedMeansReleased ==
  /\ state \in FailFast \cup {"closed"} => ~link
  /\ pc = "opening" => ~link
  /\ pc \in {"exec", "entering", "draining", "house"} => link /\ addressed

\* Once handed over, the port stays with the operator until the lease ends:
\* no command, monitor tick or retry takes it back (lease, 284-293).
LeaseNotLost ==
  [][state = "leased" /\ lease => state' \in {"leased", "shutdown"} /\ ~link']_vars

\* No command runs between an acknowledged request that was given up and the
\* quarantine that disposes of its late answer (_execute, 433-437).
QuarantinedFirst == pc = "exec" => ~owing

\* After a failure the port is not opened again before the backoff ends
\* (_arm_backoff, 735-740).
BackoffHonoured == [][pc = "step" /\ pc' = "opening" => ~armed]_vars

\* The worker's loop, its parked command and its queue serve commands in order,
\* each claimed at most once (_q, run, 334-354): the detail behind Commands.
Line == IF head = None THEN queue ELSE <<head>> \o queue

Promise == INSTANCE Commands WITH line <- Line, closing <- stop

ServesInOrder == Promise!Spec

\* The loop survives whatever the link does (run, 355).
NeverDies == pc # "dead"

\* Every command is answered or refused in the end: nobody hangs (FAIL_FAST,
\* link_deadline, 68-72 and 394-399).
EveryCommandSettles ==
  \A c \in Cmds : (fut[c] = "pending") ~> (fut[c] \in Settled)

\* Unless monitoring is continuous the port is given back (657-669, and the
\* module's docstring, 17-20).
PortGivenBack == (monitor # "continuous" /\ link) ~> ~link

\* A lease gets the operator the port (_step, 479-483).
LeaseHonoured == lease ~> (~link \/ ~lease)
=============================================================================
