-------------------------------- MODULE Alarms --------------------------------
(***************************************************************************)
(* How an alarm on the device becomes the active set the service reports:  *)
(* AlarmTracker of openaisg/session.py and the three ways the worker feeds *)
(* it, the silent baseline of a fresh link, the poll of GetAlarmStatus and *)
(* the indications a subscribed device sends when it is polled.  Module    *)
(* SerialWorker has the worker's other duties, module Exchange the frames  *)
(* of an exchange; an exchange is one step here.                           *)
(***************************************************************************)
EXTENDS Naturals, Sequences, SequencesExt, FiniteSets

CONSTANTS Names,      \* alarms
          Modes,      \* monitoring modes a behaviour may be configured with
          MaxChange,  \* bound: alarms raised and cleared on the device
          MaxFault    \* bound: failed exchanges, lost links and early releases

ASSUME NamesAssumption == IsFiniteSet(Names)
ASSUME ModesAssumption == Modes \subseteq {"off", "duty-cycled", "continuous"}
ASSUME LimitsAssumption == MaxChange \in Nat /\ MaxFault \in Nat

VARIABLES
  dev, linked, out,      \* device: alarms standing, link up, indications to send
  subscribed,            \* the device accepted AlarmSubscribe on this link
  pc,                    \* worker: "down" without a link, "up" when CONNECTED,
                         \* else the exchange that comes next
  mode, unsupported,     \* self.monitor, _subscribe_unsupported
  active, parked,        \* AlarmTracker.active, _indications
  alarmMode,             \* self.alarm_mode
  told,                  \* ghost: the active set as a follower of the events has it
  gap,                   \* ghost: what the follower could not know after a baseline
  blind,                 \* ghost: no full answer on this link, or a report lost since
  stood,                 \* ghost: alarms that stood since nothing was parked
  changes, faults

devVars    == <<dev, linked, out, subscribed>>
workerVars == <<pc, mode, unsupported, active, parked, alarmMode>>
ghosts     == <<told, gap, blind>>
vars       == <<devVars, workerVars, ghosts, stood, changes, faults>>

TypeOK ==
  /\ dev \subseteq Names /\ active \subseteq Names /\ told \subseteq Names
  /\ gap \subseteq Names /\ stood \subseteq Names
  /\ out \in Seq(Names) /\ parked \in Seq(Names)
  /\ linked \in BOOLEAN /\ subscribed \in BOOLEAN
  /\ unsupported \in BOOLEAN /\ blind \in BOOLEAN
  /\ pc \in {"down", "subscribe", "baseline", "tilt", "up", "polling"}
  /\ mode \in Modes /\ alarmMode \in {"unknown", "subscribed", "polled"}
  /\ changes \in 0 .. MaxChange /\ faults \in 0 .. MaxFault

Init ==
  /\ dev = {} /\ linked = FALSE /\ out = <<>> /\ subscribed = FALSE
  /\ pc = "down" /\ mode \in Modes /\ unsupported = FALSE
  /\ active = {} /\ parked = <<>> /\ alarmMode = "unknown"
  /\ told = {} /\ gap = {} /\ blind = TRUE /\ stood = {}
  /\ changes = 0 /\ faults = 0

Fault == faults < MaxFault /\ faults' = faults + 1

Unknown(s, t) == (s \ t) \cup (t \ s)

-------------------------------------------------------------------------------
\* The device.  An indication names the alarm that was raised; it waits for a
\* poll, as everything does in Normal Response Mode.

Raise(a) ==
  /\ changes < MaxChange /\ a \notin dev
  /\ changes' = changes + 1 /\ dev' = dev \cup {a} /\ stood' = stood \cup {a}
  /\ out' = IF subscribed THEN Append(out, a) ELSE out
  /\ UNCHANGED <<linked, subscribed, workerVars, ghosts, faults>>

Clear(a) ==
  /\ changes < MaxChange /\ a \in dev
  /\ changes' = changes + 1 /\ dev' = dev \ {a}
  /\ UNCHANGED <<linked, out, subscribed, workerVars, ghosts, stood, faults>>

Unlinked == linked' = FALSE /\ out' = <<>> /\ subscribed' = FALSE

\* A restart, or a frame it rejects: the next thing it answers is DM or FRMR.
DropLink ==
  /\ linked /\ Fault /\ Unlinked
  /\ UNCHANGED <<dev, workerVars, ghosts, stood, changes>>

\* An answered exchange delivers the indications queued before the answer; a
\* failed one, some of them.
SomeDelivered(reports) ==
  \E n \in 0 .. Len(out) : /\ reports = SubSeq(out, 1, n)
                           /\ out' = SubSeq(out, n + 1, Len(out))
Reports == {SubSeq(out, 1, n) : n \in 0 .. Len(out)}

-------------------------------------------------------------------------------
\* AlarmTracker.

\* The codes of a report that name an alarm.
Named(codes) == codes \ {"OK"}

\* The body of GetAlarmStatus, and of an indication after the length.
Answer          == dev \cup {"OK"}
Indicated(rs)   == ToSet(rs) \cup {"OK"}

\* variant: the names are added to the known set, and nothing is ever cleared
Accumulate(names) ==
  active' = active \cup names /\ told' = told \cup (names \ active)

\* snapshot(names), every event of which is emitted.
Snapshot(names) ==
  active' = names /\ told' = (told \cup (names \ active)) \ (active \ names)

\* variant: the baseline only adds what is new
BaselineAdds ==
  /\ active' = active \cup Named(Answer)
  /\ gap' = Unknown(told, active')

\* snapshot(names, emit=False), of what the device just answered.
Baseline == active' = Named(Answer) /\ gap' = Unknown(told, active')

\* variant: the set is updated first, so that no difference is left to emit
AbsorbSilently(reports) ==
  active' = active \cup Named(Indicated(reports)) /\ UNCHANGED told

\* indicate(payload) for each report in turn: an indication only ever adds.
Indicate(reports) == Snapshot(active \cup Named(Indicated(reports)))

\* _queue_indication, inside an answered exchange.
Parks == parked' = parked \o out /\ out' = <<>>

\* _drain_indications, in a finally clause.
Drains(reports) == Indicate(parked \o reports) /\ parked' = <<>>

-------------------------------------------------------------------------------
\* Opening the link, and the entry actions (_on_connected).

\* _open_and_connect up to the SNRM, which takes the device's link state to
\* nothing.  Indications parked on the last link stay parked.
Connect ==
  /\ pc = "down" /\ pc' = "subscribe"
  /\ linked' = TRUE /\ out' = <<>> /\ blind' = TRUE
  /\ stood' = IF parked = <<>> THEN dev ELSE stood \cup dev
  /\ UNCHANGED <<dev, subscribed, mode, unsupported, active, parked, alarmMode,
                 told, gap, changes, faults>>

\* _subscribe: every AisgError means "poll instead", a reset included; only a
\* rejection for ever is remembered.
Subscribe ==
  /\ pc = "subscribe" /\ pc' = "baseline"
  /\ \/ /\ unsupported \/ ~linked
        /\ alarmMode' = "polled" /\ UNCHANGED <<subscribed, unsupported, faults>>
     \/ /\ ~unsupported /\ linked
        /\ alarmMode' = "subscribed" /\ subscribed' = TRUE
        /\ UNCHANGED <<unsupported, faults>>
     \/ /\ ~unsupported /\ linked /\ Fault
        /\ alarmMode' = "polled" /\ unsupported' \in BOOLEAN
        /\ subscribed' \in IF unsupported' THEN {FALSE} ELSE BOOLEAN
  /\ UNCHANGED <<dev, linked, out, mode, active, parked, ghosts, stood, changes>>

TakeBaseline ==
  /\ pc = "baseline" /\ linked
  /\ Parks /\ Baseline /\ blind' = FALSE /\ pc' = "tilt"
  /\ UNCHANGED <<dev, linked, subscribed, mode, unsupported, alarmMode, told,
                 stood, changes, faults>>

ReadTilt ==
  /\ pc = "tilt" /\ linked /\ Parks /\ pc' = "up"
  /\ UNCHANGED <<dev, linked, subscribed, mode, unsupported, active, alarmMode,
                 ghosts, stood, changes, faults>>

\* The requests before the subscription are made until they first succeed.
\* After one fails the rest is skipped, and the link is used all the same.
Asking == pc \in {"baseline", "tilt"} \/ (pc = "subscribe" /\ alarmMode = "unknown")

EntryFails ==
  /\ Asking /\ linked /\ Fault /\ pc' = "up"
  /\ \E r \in Reports : SomeDelivered(r) /\ parked' = parked \o r
  /\ UNCHANGED <<dev, linked, subscribed, mode, unsupported, active, alarmMode,
                 ghosts, stood, changes>>

\* DM or FRMR in place of an answer: LinkReset, and the link is released.
\* _keepalive_poll meets it in the same way.
Reset ==
  /\ Asking \/ (pc = "up" /\ mode = "continuous")
  /\ ~linked /\ pc' = "down"
  /\ UNCHANGED <<devVars, mode, unsupported, active, parked, alarmMode, ghosts,
                 stood, changes, faults>>

-------------------------------------------------------------------------------
\* The link is up.

\* Which links _connected_housekeeping polls at all.
Polls == mode = "duty-cycled" \/ (mode = "continuous" /\ alarmMode = "polled")

\* _poll_alarms: GetAlarmStatus.
PollStatus ==
  /\ pc = "up" /\ Polls /\ linked
  /\ Parks /\ Snapshot(Named(Answer)) /\ blind' = FALSE /\ pc' = "polling"
  /\ UNCHANGED <<dev, linked, subscribed, mode, unsupported, alarmMode, gap,
                 stood, changes, faults>>

\* What follows a poll: a duty cycle gives the port back, unless a command waits.
AfterPoll ==
  \/ linked /\ pc' = "up" /\ UNCHANGED <<linked, subscribed>>
  \/ (~linked \/ mode = "duty-cycled") /\ pc' = "down"
     /\ linked' = FALSE /\ subscribed' = FALSE

\* The end of _poll_alarms: GetTilt is answered, ...
PollTilt ==
  /\ pc = "polling" /\ linked
  /\ Drains(out) /\ out' = <<>> /\ AfterPoll
  /\ UNCHANGED <<dev, mode, unsupported, alarmMode, gap, blind, stood, changes,
                 faults>>

\* ... or one of its two requests fails, or meets a reset.
PollFails ==
  /\ pc \in {"up", "polling"} /\ Polls
  /\ IF linked THEN Fault ELSE UNCHANGED faults
  /\ \E r \in Reports : SomeDelivered(r) /\ Drains(r)
  /\ AfterPoll
  /\ UNCHANGED <<dev, mode, unsupported, alarmMode, gap, blind, stood, changes>>

\* variant: the frame is acknowledged, its payload is not looked at
KeepaliveAcks == out' = Tail(out) /\ UNCHANGED <<active, told>>

\* One RR brings at most one I-frame, which goes straight to the tracker.
KeepaliveHears == out' = Tail(out) /\ Indicate(<<Head(out)>>)

Keepalive ==
  /\ pc = "up" /\ mode = "continuous" /\ out # <<>>
  /\ KeepaliveHears
  /\ UNCHANGED <<dev, linked, subscribed, pc, mode, unsupported, parked,
                 alarmMode, gap, blind, stood, changes, faults>>

\* _execute of a command that is answered, and the status event of _absorb,
\* which carries the active set.  clear_alarms acts on the device alone: the
\* tracker learns of it from a later poll.
Command(name) ==
  /\ pc = "up" /\ linked
  /\ active' = (IF name = "get_alarm_status" THEN Named(Answer) ELSE active)
                  \cup Named(Indicated(parked \o out))
  /\ dev' = IF name = "clear_alarms" THEN {} ELSE dev
  /\ blind' = (blind /\ name # "get_alarm_status")
  /\ told' = active' /\ gap' = {} /\ parked' = <<>> /\ out' = <<>>
  /\ UNCHANGED <<linked, subscribed, pc, mode, unsupported, alarmMode, stood,
                 changes, faults>>

CommandNames == {"get_alarm_status", "clear_alarms", "get_tilt"}

\* A command that failed has nothing to absorb; a reset releases the link.
CommandFails ==
  /\ pc = "up"
  /\ IF linked THEN Fault /\ pc' = "up" ELSE pc' = "down" /\ UNCHANGED faults
  /\ \E r \in Reports : SomeDelivered(r) /\ Drains(r)
  /\ UNCHANGED <<dev, linked, subscribed, mode, unsupported, alarmMode, gap,
                 blind, stood, changes>>

\* After an acknowledged command that timed out, the quarantine (_drain)
\* acknowledges what the device still sends, indications included, and drops it.
Quarantine ==
  /\ pc = "up" /\ linked /\ Fault
  /\ \E r \in Reports : Drains(r) /\ blind' = (blind \/ r # out)
  /\ out' = <<>>
  /\ UNCHANGED <<dev, linked, subscribed, pc, mode, unsupported, alarmMode, gap,
                 stood, changes>>

\* The port is given back without a poll: a lease, or an idle link in "off".
Release ==
  /\ pc = "up" /\ pc' = "down" /\ Unlinked
  /\ IF mode = "off" THEN UNCHANGED faults ELSE Fault
  /\ UNCHANGED <<dev, mode, unsupported, active, parked, alarmMode, ghosts, stood,
                 changes>>

-------------------------------------------------------------------------------
Device == DropLink \/ \E a \in Names : Raise(a) \/ Clear(a)

Worker ==
  \/ Connect \/ Subscribe \/ TakeBaseline \/ ReadTilt \/ EntryFails \/ Reset
  \/ PollStatus \/ PollTilt \/ PollFails \/ Keepalive
  \/ CommandFails \/ Quarantine \/ Release
  \/ \E name \in CommandNames : Command(name)

Next == Device \/ Worker
Spec == Init /\ [][Next]_vars

\* The worker thread runs on, and its timers come due.  In "off" only commands
\* open the link, and nothing promises any.
FairSpec ==
  /\ Spec
  /\ WF_vars(mode # "off" /\ Connect)
  /\ WF_vars(Subscribe) /\ WF_vars(TakeBaseline) /\ WF_vars(ReadTilt)
  /\ WF_vars(PollStatus) /\ WF_vars(PollTilt) /\ WF_vars(~linked /\ PollFails)
  /\ WF_vars(Reset) /\ WF_vars(Keepalive)

-------------------------------------------------------------------------------
\* What an event follower is not told is exactly what a silent baseline
\* changed: every later change of the active set, by a poll, a drained or a
\* direct indication or a command, reaches it (snapshot, indicate, _absorb).
ToldSinceBaseline == Unknown(told, active) \subseteq gap

\* No alarm from the past: on a link that has heard the device out, an active
\* alarm stood on the device since the link was opened, or since an indication
\* was parked on an earlier one (_on_connected, _poll_alarms, the two lists).
NoPhantom == (pc = "up" /\ ~blind) => active \subseteq stood

\* Where the worker polls, the active set is in the end what stands on the
\* device, whatever was parked or missed on the way (_connected_housekeeping).
PollingConverges == <>[](Polls => active = dev)

\* A subscribed, continuous link that has its baseline misses no alarm: it is
\* active in the end, or parked (_keepalive_poll, _queue_indication).
NoAlarmMissed ==
  <>[](mode = "continuous" /\ alarmMode = "subscribed" /\ ~blind
         => dev \subseteq active \cup ToSet(parked))

\* Every monitoring mode tells a follower of the event stream of an alarm that
\* stays (session.py:20-22 gives the latency, app.py:372 promises "every state
\* change, alarm edge").
AlarmsAnnounced == \A a \in Names : <>[](a \in dev) => <>(a \in told)
===============================================================================
