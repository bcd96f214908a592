------------------------------ MODULE JobQueue ------------------------------
(***************************************************************************)
(* The part of BullMQ that the API and the worker rely on.  BullMQ is a    *)
(* library: it is modelled from how src/ uses it (every add gives a jobId, *)
(* attempts, removeOnComplete: true and removeOnFail: false).              *)
(*                                                                         *)
(* A job is identified by its jobId, so a queue is a function from job ids *)
(* to job records and an id without a job has the record NoJob.  "waiting" *)
(* stands for BullMQ's waiting and delayed states: an add is ignored in    *)
(* both and a worker may take the job when the backoff is over.            *)
(***************************************************************************)
EXTENDS Naturals

CONSTANTS
  Attempts,   \* the "attempts" option: how often a job may fail (8 in the code)
  MaxStalls   \* BullMQ's maxStalledCount (1 by default)

ASSUME QueueAssumption == Attempts \in Nat \ {0} /\ MaxStalls \in Nat

JobState == {"none", "waiting", "active", "failed"}

Job == [state: JobState, left: 0..Attempts, stalls: 0..MaxStalls]

\* A completed job is removed, so "completed" and "never added" are one state.
NoJob == [state |-> "none", left |-> 0, stalls |-> 0]

Exists(j) == j.state # "none"

\* queue.add(name, data, {jobId}): an id that exists, in any state, is left alone.
Add(j) ==
  IF Exists(j) THEN j
  ELSE [state |-> "waiting", left |-> Attempts, stalls |-> 0]

\* A worker takes the job and holds its lock.
Take(j) == [j EXCEPT !.state = "active"]

\* Mutant: a job fails for ever and is never parked.
FailForever(j) ==
  [state |-> "waiting", left |-> j.left - 1, stalls |-> j.stalls]

\* The processor threw: back to the queue while attempts are left, then parked
\* among the failed jobs, which are kept (removeOnFail: false).
Fail(j) ==
  IF j.left > 1
  THEN [state |-> "waiting", left |-> j.left - 1, stalls |-> j.stalls]
  ELSE [state |-> "failed",  left |-> 0,          stalls |-> j.stalls]

\* The lock of a dead worker has run out: the stalled check requeues the job,
\* and parks it when that has happened too often.
Stall(j) ==
  IF j.stalls < MaxStalls
  THEN [state |-> "waiting", left |-> j.left, stalls |-> j.stalls + 1]
  ELSE [state |-> "failed",  left |-> j.left, stalls |-> j.stalls]

\* job.retry() on a failed job; the attempts already made are not forgotten.
Requeue(j) == [j EXCEPT !.state = "waiting"]
=============================================================================
