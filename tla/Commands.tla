------------------------------- MODULE Commands --------------------------------
(***************************************************************************)
(* What the worker of openaisg/session.py promises its clients, without    *)
(* the port and the link: commands are served one at a time, in the order  *)
(* they were submitted; each is claimed at most once and then settled, or  *)
(* refused without having been claimed; shutting down refuses those that   *)
(* nobody has taken up.  SerialWorker implements it.                       *)
(***************************************************************************)
EXTENDS Sequences, SequencesExt

CONSTANT Cmds

VARIABLES fut,      \* the futures the clients hold
          line,     \* the commands the worker is answerable for, oldest first
          closing   \* it was told to stop

vars == <<fut, line, closing>>

Settled == {"done", "failed", "cancelled"}

Init == fut = [c \in Cmds |-> "none"] /\ line = <<>> /\ closing = FALSE

\* submit, and what else a client may do
Submit(c) ==
  /\ fut[c] = "none" /\ ~closing
  /\ fut' = [fut EXCEPT ![c] = "pending"] /\ line' = Append(line, c)
  /\ UNCHANGED closing

Cancel(c) ==
  /\ fut[c] = "pending" /\ fut' = [fut EXCEPT ![c] = "cancelled"]
  /\ UNCHANGED <<line, closing>>

Collect(c) ==
  /\ fut[c] \in Settled /\ c \notin ToSet(line)
  /\ fut' = [fut EXCEPT ![c] = "none"] /\ UNCHANGED <<line, closing>>

Close == ~closing /\ closing' = TRUE /\ UNCHANGED <<fut, line>>

\* _try_execute: only the oldest command is claimed, and only while pending
Claim ==
  /\ line # <<>> /\ fut[Head(line)] = "pending"
  /\ fut' = [fut EXCEPT ![Head(line)] = "running"] /\ UNCHANGED <<line, closing>>

\* _execute: the end of the claimed command
Settle(how) ==
  /\ line # <<>> /\ fut[Head(line)] = "running" /\ line' = Tail(line)
  /\ fut' = [fut EXCEPT ![Head(line)] = how] /\ UNCHANGED closing

\* _abandon, and a command cancelled before its turn
Refuse ==
  /\ line # <<>> /\ fut[Head(line)] \in {"pending", "cancelled"} /\ line' = Tail(line)
  /\ fut' = [fut EXCEPT ![Head(line)] = IF @ = "pending" THEN "failed" ELSE @]
  /\ UNCHANGED closing

\* _teardown: all but the command taken up, if there is one
Sweep ==
  /\ closing
  /\ \/ line' = <<>> /\ (line # <<>> => fut[Head(line)] # "running")
     \/ line # <<>> /\ line' = <<Head(line)>>
  /\ fut' = [c \in Cmds |-> IF /\ c \in ToSet(line) \ ToSet(line')
                               /\ fut[c] = "pending"
                            THEN "failed" ELSE fut[c]]
  /\ UNCHANGED closing

Next == \/ \E c \in Cmds : Submit(c) \/ Cancel(c) \/ Collect(c)
        \/ \E how \in {"done", "failed"} : Settle(how)
        \/ Claim \/ Refuse \/ Sweep \/ Close

Spec == Init /\ [][Next]_vars
===============================================================================
