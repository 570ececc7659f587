----------------------------- MODULE AlarmsProofs -----------------------------
(***************************************************************************)
(* What holds of the alarm tracker for every set of alarms, every mode and *)
(* any number of changes and faults: its types, that a follower of the     *)
(* events misses exactly what a silent baseline changed, and that no alarm *)
(* from before the link is reported on it.                                 *)
(***************************************************************************)
EXTENDS Alarms, SequenceSets

-------------------------------------------------------------------------------
\* What the answered and the failed exchanges do to the indications.
LEMMA ReportsType ==
  ASSUME out \in Seq(Names), NEW r \in Reports
  PROVE  r \in Seq(Names) /\ ToSet(r) \subseteq ToSet(out)
<1>1. PICK n \in 0 .. Len(out) : r = SubSeq(out, 1, n)
  BY DEF Reports
<1>2. 1 \in 1 .. Len(out) + 1
  OBVIOUS
<1> QED BY <1>1, <1>2, SubSeqSet

LEMMA DeliveredType ==
  ASSUME out \in Seq(Names), NEW r, SomeDelivered(r)
  PROVE  out' \in Seq(Names) /\ ToSet(out') \subseteq ToSet(out)
BY SubSeqSet DEF SomeDelivered

\* The names in a sequence of indications.
LEMMA NamesIndicated ==
  ASSUME NEW rs \in Seq(Names)
  PROVE  Named(Indicated(rs)) \subseteq ToSet(rs) /\ Named(Indicated(rs)) \subseteq Names
BY MemberTypes DEF Named, Indicated

LEMMA NamesAnswered == Named(Answer) \subseteq dev
BY DEF Named, Answer

LEMMA DrainsType ==
  ASSUME parked \in Seq(Names), active \subseteq Names, told \subseteq Names,
         NEW rs \in Seq(Names), Drains(rs)
  PROVE  /\ active' \subseteq Names /\ told' \subseteq Names /\ parked' = <<>>
         /\ active' \subseteq active \cup ToSet(parked) \cup ToSet(rs)
<1>1. parked \o rs \in Seq(Names) /\ ToSet(parked \o rs) = ToSet(parked) \cup ToSet(rs)
  BY ConcatSet
<1> QED BY <1>1, NamesIndicated DEF Drains, Indicate, Snapshot

-------------------------------------------------------------------------------
\* The type invariant, by what the actions change together.
Sets  == /\ dev \subseteq Names /\ active \subseteq Names /\ told \subseteq Names
         /\ gap \subseteq Names /\ stood \subseteq Names
Lists == out \in Seq(Names) /\ parked \in Seq(Names)
Flags == /\ linked \in BOOLEAN /\ subscribed \in BOOLEAN
         /\ unsupported \in BOOLEAN /\ blind \in BOOLEAN
Modal == /\ pc \in {"down", "subscribe", "baseline", "tilt", "up", "polling"}
         /\ mode \in Modes /\ alarmMode \in {"unknown", "subscribed", "polled"}
Bound == changes \in 0 .. MaxChange /\ faults \in 0 .. MaxFault

LEMMA TypeParts == TypeOK <=> Sets /\ Lists /\ Flags /\ Modal /\ Bound
BY DEF TypeOK, Sets, Lists, Flags, Modal, Bound

\* Every step, one case each.
LEMMA StepCases ==
  ASSUME [Next]_vars
  PROVE  \/ \E a \in Names : Raise(a) \/ Clear(a)
         \/ DropLink \/ Connect \/ Subscribe \/ TakeBaseline \/ ReadTilt \/ EntryFails
         \/ Reset \/ PollStatus \/ PollTilt \/ PollFails \/ Keepalive \/ CommandFails
         \/ Quarantine \/ Release
         \/ \E name \in CommandNames : Command(name)
         \/ UNCHANGED vars
BY DEF Next, Device, Worker

LEMMA CollectionsStep == Sets /\ Lists /\ [Next]_vars => Sets' /\ Lists'
<1> SUFFICES ASSUME Sets, Lists, [Next]_vars PROVE Sets' /\ Lists'
  OBVIOUS
<1> USE DEF Sets, Lists
<1>0. <<>> \in Seq(Names) /\ Named(Answer) \subseteq Names
      /\ \A s, t \in SUBSET Names : Unknown(s, t) \subseteq Names
  BY NamesAnswered DEF Unknown
<1>1. ASSUME NEW a \in Names, Raise(a) \/ Clear(a) PROVE Sets' /\ Lists'
  <2>1. Append(out, a) \in Seq(Names)
    OBVIOUS
  <2> QED BY <1>1, <2>1 DEF Raise, Clear, workerVars, ghosts
<1>2. CASE DropLink
  BY <1>2, <1>0 DEF DropLink, Unlinked, workerVars, ghosts
<1>3. CASE Connect
  BY <1>3, <1>0 DEF Connect
<1>4. CASE Subscribe
  BY <1>4 DEF Subscribe, ghosts
<1>5. CASE TakeBaseline
  BY <1>5, <1>0, ConcatSet DEF TakeBaseline, Parks, Baseline
<1>6. CASE ReadTilt
  BY <1>6, <1>0, ConcatSet DEF ReadTilt, Parks, ghosts
<1>7. CASE EntryFails
  BY <1>7, ReportsType, DeliveredType, ConcatSet DEF EntryFails, ghosts
<1>8. CASE Reset
  BY <1>8 DEF Reset, devVars, ghosts
<1>9. CASE PollStatus
  BY <1>9, <1>0, ConcatSet DEF PollStatus, Parks, Snapshot
<1>10. CASE PollTilt
  BY <1>10, <1>0, DrainsType DEF PollTilt
<1>11. CASE PollFails
  BY <1>11, <1>0, ReportsType, DeliveredType, DrainsType DEF PollFails
<1>12. CASE Keepalive
  <2>1. Tail(out) \in Seq(Names) /\ <<Head(out)>> \in Seq(Names)
    BY <1>12 DEF Keepalive
  <2> QED BY <1>12, <2>1, NamesIndicated DEF Keepalive, KeepaliveHears, Indicate, Snapshot
<1>13. CASE CommandFails
  BY <1>13, <1>0, ReportsType, DeliveredType, DrainsType DEF CommandFails
<1>14. CASE Quarantine
  BY <1>14, <1>0, ReportsType, DrainsType DEF Quarantine
<1>15. CASE Release
  BY <1>15, <1>0 DEF Release, Unlinked, ghosts
<1>16. ASSUME NEW name \in CommandNames, Command(name) PROVE Sets' /\ Lists'
  <2>1. Named(Indicated(parked \o out)) \subseteq Names
    BY ConcatSet, NamesIndicated
  <2> QED BY <1>16, <1>0, <2>1 DEF Command
<1>17. CASE UNCHANGED vars
  BY <1>17 DEF vars, devVars, workerVars, ghosts
<1> QED BY <1>1, <1>2, <1>3, <1>4, <1>5, <1>6, <1>7, <1>8, <1>9, <1>10, <1>11, <1>12, <1>13,
           <1>14, <1>15, <1>16, <1>17, StepCases

LEMMA FlagsStep == Flags /\ [Next]_vars => Flags'
<1> SUFFICES ASSUME Flags, [Next]_vars PROVE Flags'
  OBVIOUS
<1> USE DEF Flags, Raise, Clear, workerVars, ghosts, devVars, AfterPoll, Unlinked
<1>1. CASE DropLink \/ Connect \/ TakeBaseline \/ ReadTilt \/ EntryFails \/ Reset
  BY <1>1 DEF DropLink, Connect, TakeBaseline, ReadTilt, EntryFails, Reset
<1>2. CASE Subscribe
  BY <1>2 DEF Subscribe
<1>3. CASE PollStatus \/ PollTilt \/ PollFails \/ Keepalive
  BY <1>3 DEF PollStatus, PollTilt, PollFails, Keepalive
<1>4. CASE CommandFails \/ Release
  BY <1>4 DEF CommandFails, Release
<1>5. CASE Quarantine
  <2>1. PICK r \in Reports : blind' = (blind \/ r # out)
    BY <1>5 DEF Quarantine
  <2> QED BY <1>5, <2>1, Zenon DEF Quarantine
<1>6. ASSUME NEW name \in CommandNames, Command(name) PROVE Flags'
  <2>1. blind' = (blind /\ name # "get_alarm_status")
    BY <1>6 DEF Command
  <2> QED BY <1>6, <2>1, Zenon DEF Command
<1>7. CASE UNCHANGED vars
  BY <1>7 DEF vars
<1>8. ASSUME NEW a \in Names, Raise(a) \/ Clear(a) PROVE Flags'
  BY <1>8
<1> QED BY <1>1, <1>2, <1>3, <1>4, <1>5, <1>6, <1>7, <1>8, StepCases

LEMMA ModalStep == Modal /\ Bound /\ [Next]_vars => Modal' /\ Bound'
<1> SUFFICES ASSUME Modal, Bound, [Next]_vars PROVE Modal' /\ Bound'
  OBVIOUS
<1>0. MaxChange \in Nat /\ MaxFault \in Nat
  BY LimitsAssumption
<1> USE <1>0 DEF Modal, Bound, Fault, workerVars
<1>1. ASSUME NEW a \in Names, Raise(a) \/ Clear(a) PROVE Modal' /\ Bound'
  BY <1>1 DEF Raise, Clear
<1>2. CASE DropLink \/ Connect \/ TakeBaseline \/ ReadTilt
  BY <1>2 DEF DropLink, Connect, TakeBaseline, ReadTilt
<1>3. CASE Subscribe
  <2>1. pc' = "baseline" /\ mode' = mode /\ changes' = changes
        /\ alarmMode' \in {"polled", "subscribed"}
    BY <1>3 DEF Subscribe
  <2>2. faults' = faults \/ (faults < MaxFault /\ faults' = faults + 1)
    BY <1>3 DEF Subscribe
  <2> QED BY <2>1, <2>2
<1>4. CASE EntryFails \/ Reset \/ Release
  BY <1>4 DEF EntryFails, Reset, Release
<1>5. CASE PollStatus \/ PollTilt \/ PollFails \/ Keepalive
  BY <1>5 DEF PollStatus, PollTilt, PollFails, Keepalive, AfterPoll
<1>6. CASE CommandFails \/ Quarantine
  BY <1>6 DEF CommandFails, Quarantine
<1>7. ASSUME NEW name \in CommandNames, Command(name) PROVE Modal' /\ Bound'
  BY <1>7 DEF Command
<1>8. CASE UNCHANGED vars
  BY <1>8 DEF vars
<1> QED BY <1>1, <1>2, <1>3, <1>4, <1>5, <1>6, <1>7, <1>8, StepCases

\* Everything keeps its type: in particular what is active, parked and told are
\* alarms, never the code "OK" of an answer without any.
THEOREM AlarmTypes == Spec => []TypeOK
<1>1. Init => Sets /\ Lists /\ Flags /\ Modal /\ Bound
  <2>1. Init => Sets /\ Lists
    BY DEF Init, Sets, Lists
  <2>2. Init => Flags
    BY DEF Init, Flags
  <2>3. Init => Modal /\ Bound
    BY LimitsAssumption DEF Init, Modal, Bound
  <2> QED BY <2>1, <2>2, <2>3
<1> QED BY <1>1, CollectionsStep, FlagsStep, ModalStep, TypeParts, PTL DEF Spec

-------------------------------------------------------------------------------
\* An event that is emitted tells all of a change; a command's status event tells
\* everything; a baseline remembers what it did not tell.
LEMMA SnapshotTells ==
  ASSUME NEW names, Snapshot(names)
  PROVE  Unknown(told, active)' \subseteq Unknown(told, active)
BY DEF Snapshot, Unknown

LEMMA ToldStep == ToldSinceBaseline /\ [Next]_vars => ToldSinceBaseline'
<1> SUFFICES ASSUME ToldSinceBaseline, [Next]_vars PROVE ToldSinceBaseline'
  OBVIOUS
<1>k. ASSUME UNCHANGED <<told, active, gap>> PROVE ToldSinceBaseline'
  BY <1>k DEF ToldSinceBaseline, Unknown
<1>s. ASSUME NEW names, Snapshot(names), UNCHANGED gap PROVE ToldSinceBaseline'
  BY <1>s, SnapshotTells DEF ToldSinceBaseline
<1>1. ASSUME NEW a \in Names, Raise(a) \/ Clear(a) PROVE ToldSinceBaseline'
  BY <1>1, <1>k DEF Raise, Clear, workerVars, ghosts
<1>2. CASE DropLink \/ Connect \/ Subscribe \/ ReadTilt \/ EntryFails \/ Reset \/ Release
  BY <1>2, <1>k DEF DropLink, Connect, Subscribe, ReadTilt, EntryFails, Reset, Release,
                    workerVars, ghosts
<1>3. CASE TakeBaseline
  BY <1>3 DEF TakeBaseline, Baseline, ToldSinceBaseline, Unknown
<1>4. CASE PollStatus
  BY <1>4, <1>s DEF PollStatus
<1>5. CASE PollTilt \/ PollFails \/ CommandFails \/ Quarantine
  BY <1>5, <1>s DEF PollTilt, PollFails, CommandFails, Quarantine, Drains, Indicate
<1>6. CASE Keepalive
  BY <1>6, <1>s DEF Keepalive, KeepaliveHears, Indicate
<1>7. ASSUME NEW name \in CommandNames, Command(name) PROVE ToldSinceBaseline'
  BY <1>7 DEF Command, ToldSinceBaseline, Unknown
<1>8. CASE UNCHANGED vars
  BY <1>8, <1>k DEF vars, workerVars, ghosts
<1> QED BY <1>1, <1>2, <1>3, <1>4, <1>5, <1>6, <1>7, <1>8, StepCases

\* However polls, indications, commands, faults and links follow each other, a
\* follower of the events is wrong only about what a silent baseline changed.
THEOREM ToldExceptBaseline == Spec => []ToldSinceBaseline
<1>1. Init => ToldSinceBaseline
  BY DEF Init, ToldSinceBaseline, Unknown
<1> QED BY <1>1, ToldStep, PTL DEF Spec

-------------------------------------------------------------------------------
\* What an active alarm may have come from: the device, an indication under way,
\* one that is parked.  Each stood since nothing was parked.
StoodInv ==
  /\ dev \subseteq stood /\ ToSet(out) \subseteq stood /\ ToSet(parked) \subseteq stood
  /\ ~blind => active \subseteq stood

LEMMA ParksStood ==
  ASSUME Lists, StoodInv, Parks
  PROVE  ToSet(out') = {} /\ ToSet(parked') \subseteq stood
BY ConcatSet, EmptySet DEF Lists, StoodInv, Parks

LEMMA DrainsStood ==
  ASSUME Lists, StoodInv, NEW r \in Seq(Names), ToSet(r) \subseteq ToSet(out), Drains(r)
  PROVE  ToSet(parked') = {} /\ (~blind => active' \subseteq stood)
<1>1. parked \o r \in Seq(Names) /\ ToSet(parked \o r) \subseteq stood
  BY ConcatSet DEF Lists, StoodInv
<1>2. Named(Indicated(parked \o r)) \subseteq stood
  BY <1>1, NamesIndicated
<1> QED BY <1>2, EmptySet DEF Drains, Indicate, Snapshot, StoodInv

LEMMA StoodStep == Sets /\ Lists /\ StoodInv /\ [Next]_vars => StoodInv'
<1> SUFFICES ASSUME Sets, Lists, StoodInv, [Next]_vars PROVE StoodInv'
  OBVIOUS
<1>0. out \in Seq(Names) /\ parked \in Seq(Names) /\ ToSet(<<>>) = {}
      /\ Named(Answer) \subseteq stood
  BY EmptySet, NamesAnswered DEF Lists, StoodInv
<1>k. ASSUME UNCHANGED <<dev, out, active, parked, blind, stood>> PROVE StoodInv'
  BY <1>k DEF StoodInv
\* What may have changed, against the same memory.
<1>s. ASSUME UNCHANGED stood, dev' \subseteq stood, ToSet(out') \subseteq stood,
             ToSet(parked') \subseteq stood, ~blind' => active' \subseteq stood
      PROVE  StoodInv'
  BY <1>s DEF StoodInv
<1>1. ASSUME NEW a \in Names, Raise(a) PROVE StoodInv'
  <2>1. ToSet(Append(out, a)) = ToSet(out) \cup {a}
    BY <1>0, AppendSet
  <2> QED BY <1>1, <2>1 DEF Raise, workerVars, ghosts, StoodInv
<1>2. ASSUME NEW a \in Names, Clear(a) PROVE StoodInv'
  BY <1>2, <1>s DEF Clear, workerVars, ghosts, StoodInv
<1>3. CASE DropLink
  BY <1>3, <1>0, <1>s DEF DropLink, Unlinked, workerVars, ghosts, StoodInv
<1>4. CASE Connect
  BY <1>4, <1>0 DEF Connect, StoodInv
<1>5. CASE Subscribe \/ Reset
  BY <1>5, <1>k DEF Subscribe, Reset, devVars, ghosts
<1>6. CASE TakeBaseline
  BY <1>6, <1>0, <1>s, ParksStood DEF TakeBaseline, Baseline, StoodInv
<1>7. CASE ReadTilt
  BY <1>7, <1>0, <1>s, ParksStood DEF ReadTilt, ghosts, StoodInv
<1>8. CASE EntryFails
  <2>1. PICK r \in Reports : SomeDelivered(r) /\ parked' = parked \o r
    BY <1>8 DEF EntryFails
  <2>2. ToSet(out') \subseteq stood /\ ToSet(parked') \subseteq stood
    BY <1>0, <2>1, ReportsType, DeliveredType, ConcatSet DEF StoodInv
  <2>3. UNCHANGED <<dev, active, blind, stood>>
    BY <1>8 DEF EntryFails, ghosts
  <2> QED BY <2>2, <2>3, <1>s DEF StoodInv
<1>9. CASE PollStatus
  BY <1>9, <1>0, <1>s, ParksStood DEF PollStatus, Snapshot, StoodInv
<1>10. CASE PollTilt
  BY <1>10, <1>0, <1>s, DrainsStood DEF PollTilt, StoodInv
<1>11. CASE PollFails \/ CommandFails
  <2>1. PICK r \in Reports : SomeDelivered(r) /\ Drains(r)
    BY <1>11 DEF PollFails, CommandFails
  <2>2. /\ ToSet(out') \subseteq stood /\ ToSet(parked') \subseteq stood
        /\ ~blind => active' \subseteq stood
    BY <1>0, <2>1, ReportsType, DeliveredType, DrainsStood DEF StoodInv
  <2>3. UNCHANGED <<dev, blind, stood>>
    BY <1>11 DEF PollFails, CommandFails
  <2> QED BY <2>2, <2>3, <1>s DEF StoodInv
<1>12. CASE Keepalive
  <2>1. out # <<>> /\ out' = Tail(out) /\ Indicate(<<Head(out)>>)
        /\ UNCHANGED <<dev, parked, blind, stood>>
    BY <1>12 DEF Keepalive, KeepaliveHears
  <2>2. ToSet(out) = ToSet(out') \cup {Head(out)}
    BY <1>0, <2>1, TailSet
  <2>3. <<Head(out)>> \in Seq(Names) /\ ToSet(<<Head(out)>>) = {Head(out)}
    BY <1>0, <2>1, HeadTailProperties DEF ToSet
  <2>4. Named(Indicated(<<Head(out)>>)) \subseteq stood
    BY <2>2, <2>3, NamesIndicated DEF StoodInv
  <2> QED BY <2>1, <2>2, <2>4, <1>s DEF Indicate, Snapshot, StoodInv
<1>13. CASE Quarantine
  <2>1. PICK r \in Reports : Drains(r) /\ blind' = (blind \/ r # out)
    BY <1>13 DEF Quarantine
  <2>2. ToSet(parked') = {} /\ (~blind => active' \subseteq stood)
    BY <1>0, <2>1, ReportsType, DrainsStood
  <2>3. UNCHANGED <<dev, stood>> /\ out' = <<>>
    BY <1>13 DEF Quarantine
  <2> QED BY <1>0, <2>1, <2>2, <2>3, <1>s DEF StoodInv
<1>14. CASE Release
  BY <1>14, <1>0, <1>s DEF Release, Unlinked, ghosts, StoodInv
<1>15. ASSUME NEW name \in CommandNames, Command(name) PROVE StoodInv'
  <2>0. parked \o out \in Seq(Names) /\ ToSet(parked \o out) \subseteq stood
    BY <1>0, ConcatSet DEF StoodInv
  <2>1. Named(Indicated(parked \o out)) \subseteq stood
    BY <2>0, NamesIndicated
  <2>2. /\ active' = (IF name = "get_alarm_status" THEN Named(Answer) ELSE active)
                        \cup Named(Indicated(parked \o out))
        /\ (dev' = {} \/ dev' = dev) /\ out' = <<>> /\ parked' = <<>> /\ stood' = stood
        /\ ~blind' => ~blind \/ name = "get_alarm_status"
    BY <1>15 DEF Command
  <2> QED BY <1>0, <2>1, <2>2, <1>s DEF StoodInv
<1>16. CASE UNCHANGED vars
  BY <1>16, <1>k DEF vars, devVars, workerVars, ghosts
<1> QED BY <1>1, <1>2, <1>3, <1>4, <1>5, <1>6, <1>7, <1>8, <1>9, <1>10, <1>11, <1>12, <1>13,
           <1>14, <1>15, <1>16, StepCases

\* No alarm from the past: on a link that has heard the device out an active
\* alarm stood since the link was opened, or since a report of it was parked.
THEOREM NoAlarmFromThePast == Spec => []NoPhantom
<1>1. Init => Sets /\ Lists /\ StoodInv
  BY EmptySet DEF Init, Sets, Lists, StoodInv
<1>2. StoodInv => NoPhantom
  BY DEF StoodInv, NoPhantom
<1> QED BY <1>1, <1>2, CollectionsStep, StoodStep, PTL DEF Spec
===============================================================================
