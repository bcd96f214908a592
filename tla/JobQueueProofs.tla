--------------------------- MODULE JobQueueProofs ---------------------------
(* Facts about the operations on a job record, for every Attempts and       *)
(* MaxStalls.                                                               *)
EXTENDS JobQueue, TLAPS

\* The empty slot is a job record.
LEMMA NoJobType == NoJob \in Job /\ ~Exists(NoJob)
  BY QueueAssumption DEF NoJob, Job, JobState, Exists

\* An add leaves a job behind, and leaves an existing one as it is: this is
\* what makes a fixed jobId deduplicate (and lose) adds.
LEMMA AddFacts ==
  ASSUME NEW j \in Job
  PROVE  /\ Add(j) \in Job
         /\ Exists(Add(j))
         /\ Exists(j) => Add(j) = j
         /\ ~Exists(j) => Add(j).state = "waiting"
  BY QueueAssumption DEF Add, Exists, Job, JobState

\* A taken job is active.
LEMMA TakeFacts ==
  ASSUME NEW j \in Job
  PROVE  Take(j) \in Job /\ Take(j).state = "active"
  BY DEF Take, Job, JobState

\* A job that fails or stalls is kept, and no worker runs it.
LEMMA FailFacts ==
  ASSUME NEW j \in Job
  PROVE  Fail(j) \in Job /\ Fail(j).state \in {"waiting", "failed"}
<1>1. j.state \in JobState /\ j.left \in 0..Attempts /\ j.stalls \in 0..MaxStalls
  BY DEF Job
<1>2. CASE j.left > 1
  BY <1>1, <1>2, QueueAssumption DEF Fail, Job, JobState
<1>3. CASE ~(j.left > 1)
  BY <1>1, <1>3, QueueAssumption DEF Fail, Job, JobState
<1>4. QED
  BY <1>2, <1>3

\* The same for a job whose worker has died.
LEMMA StallFacts ==
  ASSUME NEW j \in Job
  PROVE  Stall(j) \in Job /\ Stall(j).state \in {"waiting", "failed"}
<1>1. j.state \in JobState /\ j.left \in 0..Attempts /\ j.stalls \in 0..MaxStalls
  BY DEF Job
<1>2. CASE j.stalls < MaxStalls
  BY <1>1, <1>2, QueueAssumption DEF Stall, Job, JobState
<1>3. CASE ~(j.stalls < MaxStalls)
  BY <1>1, <1>3, QueueAssumption DEF Stall, Job, JobState
<1>4. QED
  BY <1>2, <1>3

\* A requeued job waits for a worker.
LEMMA RequeueFacts ==
  ASSUME NEW j \in Job
  PROVE  Requeue(j) \in Job /\ Requeue(j).state = "waiting"
  BY DEF Requeue, Job, JobState
=============================================================================
