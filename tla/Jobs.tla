--------------------------------- MODULE Jobs ---------------------------------
(***************************************************************************)
(* How the outcome of a command reaches the HTTP client that asked for it: *)
(* _run and the job endpoints of api/app.py over the records of            *)
(* api/jobs.py, composed with the event stream of module EventBus.         *)
(*                                                                         *)
(* A command that outlives its request's budget becomes a job.  Its record *)
(* is written by the callback of the future, on the worker thread, while   *)
(* the event loop may be reading it field by field.                        *)
(***************************************************************************)
EXTENDS EventBus

CONSTANTS Reqs,   \* commands submitted over HTTP, one each
          Limit   \* JobStore._limit

ASSUME LimitAssumption == Limit \in Nat \ {0}

VARIABLES
  fut,        \* the command's future
  answer,     \* what the client was answered
  job,        \* Job: the fields finish() writes
  order,      \* JobStore._order: the jobs kept, oldest first
  callbacks,  \* futures that finish() is registered with
  finishing,  \* the request whose finish() the worker thread is running
  reading,    \* the record as_dict is reading, and the state it has read
  seen        \* what the last reader was shown

jobVars  == <<fut, answer, job, order, callbacks, finishing, reading, seen>>
vars     == <<feedVars, jobVars>>

Settled == {"ok", "error"}
Fresh   == [state |-> "running", outcome |-> None, finished |-> FALSE]
Notice(r) == [job |-> r]
Shown(r, state, outcome) == [r |-> r, state |-> state, outcome |-> outcome]

ASSUME NoneAssumption ==
  /\ None \notin Reqs \cup Settled
  /\ None \notin [r : Reqs, state : {"done", "failed"}, outcome : Settled \cup {None}]

JobInit ==
  /\ fut = [r \in Reqs |-> "none"] /\ answer = [r \in Reqs |-> "none"]
  /\ job = [r \in Reqs |-> Fresh] /\ order = <<>> /\ callbacks = {}
  /\ finishing = None /\ reading = None
  /\ seen = None

Init == FeedInit /\ JobInit

-------------------------------------------------------------------------------
\* The worker thread: it settles the future, which runs the callbacks.

Submit(r) ==
  /\ fut[r] = "none" /\ reading = None
  /\ fut' = [fut EXCEPT ![r] = "pending"] /\ answer' = [answer EXCEPT ![r] = "awaited"]
  /\ UNCHANGED <<feedVars, job, order, callbacks, finishing, reading, seen>>

WorkerFree == finishing = None /\ unsent = <<>>

Settle(r, outcome) ==
  /\ fut[r] = "pending" /\ WorkerFree
  /\ fut' = [fut EXCEPT ![r] = outcome]
  /\ finishing' = IF r \in callbacks THEN r ELSE None
  /\ UNCHANGED <<feedVars, answer, job, order, callbacks, reading, seen>>

StateFor(r) == IF fut[r] = "ok" THEN "done" ELSE "failed"

\* variant: the state is announced before what it is about
StateFirst(r, f) ==
  IF f.state = "running" THEN [f EXCEPT !.state = StateFor(r)]
  ELSE IF f.outcome = None THEN [f EXCEPT !.outcome = fut[r]]
  ELSE [f EXCEPT !.finished = TRUE]

\* finish(f): the outcome, the state, then the time, each a write of its own.
NextWrite(r, f) ==
  IF f.outcome = None THEN [f EXCEPT !.outcome = fut[r]]
  ELSE IF f.state = "running" THEN [f EXCEPT !.state = StateFor(r)]
  ELSE [f EXCEPT !.finished = TRUE]

Write ==
  /\ finishing # None /\ ~job[finishing].finished
  /\ job' = [job EXCEPT ![finishing] = NextWrite(finishing, @)]
  /\ UNCHANGED <<feedVars, fut, answer, order, callbacks, finishing, reading, seen>>

\* variant: the event goes out as soon as the outcome is known
Announceable(f) == f.outcome # None

Complete(f) == f.finished

EmitNotice ==
  /\ finishing # None /\ Complete(job[finishing])
  /\ Post(Notice(finishing)) /\ finishing' = None
  /\ UNCHANGED <<active, unsent, seq, ring, q, dropped, handlerVars, changes,
                 connects, fut, answer, job, order, callbacks, reading, seen>>

-------------------------------------------------------------------------------
\* The event loop: _run and the endpoints.

Answered(r) ==
  /\ answer[r] = "awaited" /\ fut[r] \in Settled /\ reading = None
  /\ answer' = [answer EXCEPT ![r] = fut[r]]
  /\ UNCHANGED <<feedVars, fut, job, order, callbacks, finishing, reading, seen>>

Whole(r) == [state |-> StateFor(r), outcome |-> fut[r], finished |-> TRUE]

\* variant: finish() is only registered with a future that is not done
RegisterIfPending(r) ==
  /\ callbacks' = callbacks \cup {r} /\ UNCHANGED <<job, ready>>

\* add_done_callback: a future that settled meanwhile runs finish() at once,
\* here on the event loop.
Register(r) ==
  IF fut[r] \in Settled
  THEN job' = [job EXCEPT ![r] = Whole(r)] /\ Post(Notice(r)) /\ UNCHANGED callbacks
  ELSE callbacks' = callbacks \cup {r} /\ UNCHANGED <<job, ready>>

\* The budget runs out, even as the future settles: JobStore.create, 202.
BudgetExpires(r) ==
  /\ answer[r] = "awaited" /\ reading = None
  /\ answer' = [answer EXCEPT ![r] = "job"]
  /\ order' = LastOf(Append(order, r), Limit)
  /\ Register(r)
  /\ UNCHANGED <<active, unsent, seq, ring, q, dropped, handlerVars, changes,
                 connects, fut, finishing, reading, seen>>

\* GET /jobs/{id}: as_dict reads the state, and the rest only then.
ReadState(r) ==
  /\ answer[r] = "job" /\ reading = None
  /\ IF \E i \in DOMAIN order : order[i] = r
     THEN reading' = [r |-> r, state |-> job[r].state] /\ UNCHANGED seen
     ELSE seen' = Shown(r, "404", None) /\ UNCHANGED reading
  /\ UNCHANGED <<feedVars, fut, answer, job, order, callbacks, finishing>>

ReadRest ==
  /\ reading # None /\ reading' = None
  /\ seen' = Shown(reading.r, reading.state, job[reading.r].outcome)
  /\ UNCHANGED <<feedVars, fut, answer, job, order, callbacks, finishing>>

-------------------------------------------------------------------------------
\* The stream beside it.  as_dict and finish() do not await: neither thread does
\* anything else in the middle of one.
Stream ==
  /\ (finishing = None /\ WorkerFeeds) \/ (reading = None /\ LoopFeeds)
  /\ UNCHANGED jobVars

Worker == Write \/ EmitNotice \/ \E r \in Reqs, o \in Settled : Settle(r, o)
Loop   == ReadRest \/ \E r \in Reqs :
            Submit(r) \/ Answered(r) \/ BudgetExpires(r) \/ ReadState(r)

Next == Stream \/ Worker \/ Loop

Spec == Init /\ [][Next]_vars

JobState == {"running", "done", "failed"}

JobsTypeOK ==
  /\ FeedTypeOK
  /\ fut \in [Reqs -> {"none", "pending"} \cup Settled]
  /\ answer \in [Reqs -> {"none", "awaited", "job"} \cup Settled]
  /\ job \in [Reqs -> [state : JobState, outcome : Settled \cup {None},
                       finished : BOOLEAN]]
  /\ order \in Seq(Reqs) /\ Len(order) <= Limit
  /\ finishing \in Reqs \cup {None} /\ callbacks \subseteq Reqs

-------------------------------------------------------------------------------
\* A reader never sees a job that is over without its outcome, though the
\* record is written and read field by field by two threads (finish, as_dict).
OverHasOutcome ==
  \A r \in Reqs, state \in {"done", "failed"}, outcome \in Settled \cup {None} :
    seen = Shown(r, state, outcome) => outcome = fut[r]

\* A client that was sent the event of a job finds the job over, whatever the
\* thread that emitted it, the queue and the replay did (finish, emit).
NoticeComesLast == \A r \in Reqs : Notice(r) \in client.jobs => job[r] = Whole(r)

\* The outcome of a command is not lost between the answer and the job, when the
\* future settles in the very moment the budget runs out: once it has settled,
\* the job has the outcome or its finish() is under way (_run).
OutcomeNotLost ==
  \A r \in Reqs : answer[r] = "job" /\ fut[r] \in Settled
                  => finishing = r \/ job[r] = Whole(r)

\* jobs.py:44: the record "outlives the HTTP request that created it"; a client
\* "must not lose the outcome".
RunningJobKept ==
  \A r \in Reqs : answer[r] = "job" /\ job[r].state = "running"
                  => \E i \in DOMAIN order : order[i] = r
===============================================================================
