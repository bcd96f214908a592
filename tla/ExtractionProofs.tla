-------------------------- MODULE ExtractionProofs --------------------------
(* Theorems about Extraction, for every set of documents and contents,      *)
(* every number of simultaneous requests, faults at any place and any bound *)
(* on their number, and every retry configuration of the queues.            *)
EXTENDS Extraction, JobQueueProofs

\* Every job operation yields a job record: what the typing steps need.
LEMMA JobOps ==
  ASSUME NEW j \in Job
  PROVE  /\ Add(j) \in Job /\ Take(j) \in Job /\ Fail(j) \in Job
         /\ Stall(j) \in Job /\ Requeue(j) \in Job
  BY AddFacts, TakeFacts, FailFacts, StallFacts, RequeueFacts

\* A handler's next step is well typed.
LEMMA HandlerType ==
  ASSUME NEW pc \in Pc, NEW t \in Texts \cup {NoText}
  PROVE  [pc |-> pc, text |-> t] \in Handler
  BY DEF Handler

\* The two shapes of update of the nested functions job and run.
LEMMA JobUpdate ==
  ASSUME NEW q \in Stages, NEW d \in Docs, NEW j \in Job, TypeOK,
         job' = [job EXCEPT ![q][d] = j]
  PROVE  job' \in [Stages -> [Docs -> Job]]
  BY DEF TypeOK

\* The same for a handler.
LEMMA RunUpdate ==
  ASSUME NEW q \in Stages, NEW d \in Docs, NEW h \in Handler, TypeOK,
         run' = [run EXCEPT ![q][d] = h]
  PROVE  run' \in [Stages -> [Docs -> Handler]]
  BY DEF TypeOK

\* The handler of a job that nobody holds is a handler.
LEMMA IdleType == Idle \in Handler
  BY DEF Idle, Handler, Pc

\* The three queues by name.
LEMMA StageNames == /\ "doc_extract" \in Stages
                    /\ "normalize" \in Stages
                    /\ "tx_upsert" \in Stages
  BY DEF Stages

\* Before the first upload the state is well typed.
LEMMA InitType == Init => TypeOK
  BY NoJobType, IdleType, ExtractionAssumption DEF Init, TypeOK, Status

\* Every request, processor step, fault and retry keeps the state well typed.
LEMMA StepType == TypeOK /\ [Next]_vars => TypeOK'
<1> SUFFICES ASSUME TypeOK, [Next]_vars PROVE TypeOK'
  OBVIOUS
<1> USE StageNames DEF rowVars, extVars, bounds
<1>a. \A q \in Stages, d \in Docs :
        /\ job[q][d] \in Job
        /\ run[q][d] \in Handler
        /\ run[q][d].text \in Texts \cup {NoText}
  BY DEF TypeOK, Handler
<1>b. ASSUME NEW q \in Stages, NEW d \in Docs, NEW pc \in Pc,
             NEW t \in Texts \cup {NoText}, GoOn(q, d, pc, t)
      PROVE  run' \in [Stages -> [Docs -> Handler]]
  BY <1>b, HandlerType, RunUpdate DEF GoOn
<1>c. ASSUME NEW q \in Stages, NEW d \in Docs, NEW pc \in Pc,
             NEW t \in Texts \cup {NoText}, Start(q, d, pc, t)
      PROVE  /\ job' \in [Stages -> [Docs -> Job]]
             /\ run' \in [Stages -> [Docs -> Handler]]
  BY <1>a, <1>b, <1>c, JobOps, JobUpdate DEF Start
<1>d. ASSUME NEW q \in Stages, NEW d \in Docs,
             \/ job' = [job EXCEPT ![q][d] = Add(@)]
             \/ job' = [job EXCEPT ![q][d] = Fail(@)]
             \/ job' = [job EXCEPT ![q][d] = Stall(@)]
             \/ job' = [job EXCEPT ![q][d] = Requeue(@)]
             \/ job' = [job EXCEPT ![q][d] = NoJob]
      PROVE  job' \in [Stages -> [Docs -> Job]]
  BY <1>a, <1>d, JobOps, NoJobType, JobUpdate
<1>1. ASSUME NEW d \in Docs, CreateUploadUrl(d) PROVE TypeOK'
  BY <1>1 DEF TypeOK, CreateUploadUrl
<1>2. ASSUME NEW d \in Docs, NEW t \in Texts, PutObject(d, t) PROVE TypeOK'
  BY <1>2 DEF TypeOK, PutObject
<1>3. ASSUME NEW d \in Docs, SoftDelete(d) PROVE TypeOK'
  BY <1>3 DEF TypeOK, SoftDelete
<1>4. ASSUME NEW d \in Docs, NEW r \in Requests, BeginComplete(r, d)
      PROVE  TypeOK'
  BY <1>4, ExtractionAssumption DEF TypeOK, BeginComplete
<1>5. ASSUME NEW d \in Docs, NEW r \in Requests, ResetExtraction(r, d)
      PROVE  TypeOK'
  BY <1>5 DEF TypeOK, ResetExtraction, Status
<1>6. ASSUME NEW d \in Docs, NEW r \in Requests, EnqueueExtract(r, d)
      PROVE  TypeOK'
  BY <1>6, <1>d DEF TypeOK, EnqueueExtract
<1>7. ASSUME NEW d \in Docs, ExtractStart(d) PROVE TypeOK'
  BY <1>7, <1>c DEF TypeOK, ExtractStart, Pc
<1>8. ASSUME NEW d \in Docs, ExtractClaim(d) PROVE TypeOK'
  BY <1>8, <1>b DEF TypeOK, ExtractClaim, Pc, Status
<1>9. ASSUME NEW d \in Docs, ExtractLoad(d) PROVE TypeOK'
  BY <1>9, <1>b DEF TypeOK, ExtractLoad, Pc
<1>10. ASSUME NEW d \in Docs, ExtractStore(d) PROVE TypeOK'
  BY <1>10, <1>a, <1>b DEF TypeOK, ExtractStore, Pc, Status
<1>11. ASSUME NEW d \in Docs, NEW p \in Stages, NEW q \in Stages,
              EnqueueNext(p, q, d)
       PROVE  TypeOK'
  BY <1>11, <1>b, <1>d DEF TypeOK, EnqueueNext, Pc
<1>12. ASSUME NEW d \in Docs, NEW q \in Stages, Ack(q, d) PROVE TypeOK'
  BY <1>12, <1>d, IdleType, RunUpdate DEF TypeOK, Ack
<1>13. ASSUME NEW d \in Docs, NEW q \in Stages,
              RecoverStalled(q, d) \/ RetryJob(q, d) \/ ReadThrows(q, d)
       PROVE  TypeOK'
  <2>1. CASE RecoverStalled(q, d) \/ RetryJob(q, d)
    BY <2>1, <1>d DEF TypeOK, RecoverStalled, RetryJob
  <2>2. CASE ReadThrows(q, d)
    <3>1. job' \in [Stages -> [Docs -> Job]]
      BY <2>2, <1>d DEF ReadThrows
    <3>2. faults' \in 0..MaxFaults
      BY <2>2, ExtractionAssumption DEF ReadThrows, TypeOK
    <3>3. QED
      BY <2>2, <3>1, <3>2 DEF TypeOK, ReadThrows
  <2>3. QED
    BY <1>13, <2>1, <2>2
<1>14. ASSUME NEW d \in Docs, NormalizeStart(d) PROVE TypeOK'
  BY <1>14, <1>c DEF TypeOK, NormalizeStart, Pc
<1>15. ASSUME NEW d \in Docs, NormalizeNotReady(d) PROVE TypeOK'
  BY <1>15, <1>d DEF TypeOK, NormalizeNotReady
<1>16. ASSUME NEW d \in Docs, NormalizeWrite(d) PROVE TypeOK'
  BY <1>16, <1>a, <1>b DEF TypeOK, NormalizeWrite, Pc, Status
<1>17. ASSUME NEW d \in Docs, TxUpsertStart(d) PROVE TypeOK'
  BY <1>17, <1>c DEF TypeOK, TxUpsertStart, Pc
<1>18. ASSUME NEW d \in Docs, TxUpsertWrite(d) PROVE TypeOK'
  BY <1>18, <1>a, <1>b DEF TypeOK, TxUpsertWrite, Pc
<1>19. ASSUME NEW d \in Docs, NEW r \in Requests, CompleteFails(r, d)
       PROVE  TypeOK'
  BY <1>19, ExtractionAssumption DEF TypeOK, CompleteFails
<1>20. ASSUME NEW d \in Docs, NEW q \in Stages, JobThrows(q, d) PROVE TypeOK'
  <2>1. job' \in [Stages -> [Docs -> Job]]
    BY <1>20, <1>d DEF JobThrows
  <2>2. run' \in [Stages -> [Docs -> Handler]]
    BY <1>20, IdleType, RunUpdate DEF JobThrows
  <2>3. faults' \in 0..MaxFaults
    BY <1>20, ExtractionAssumption DEF JobThrows, MayFault, TypeOK
  <2>4. QED
    BY <1>20, <2>1, <2>2, <2>3 DEF TypeOK, JobThrows
<1>21. ASSUME NEW d \in Docs, NEW q \in Stages, WorkerDies(q, d) PROVE TypeOK'
  BY <1>21, IdleType, RunUpdate, ExtractionAssumption
  DEF TypeOK, WorkerDies, MayFault
<1>22. ASSUME NEW d \in Docs, ExtractCatches(d) PROVE TypeOK'
  BY <1>22, <1>b, ExtractionAssumption DEF TypeOK, ExtractCatches, MayFault, Pc
<1>23. ASSUME NEW d \in Docs, NEW r \in Requests, CheckObject(r, d)
       PROVE  TypeOK'
  BY <1>23 DEF TypeOK, CheckObject
<1>24. CASE UNCHANGED vars
  BY <1>24 DEF TypeOK, vars
<1>25. QED
  BY <1>1, <1>2, <1>3, <1>4, <1>5, <1>6, <1>7, <1>8, <1>9, <1>10, <1>11,
     <1>12, <1>13, <1>14, <1>15, <1>16, <1>17, <1>18, <1>19, <1>20, <1>21,
     <1>22, <1>23, <1>24
  DEF Next, DocNext, Client, Api, Worker, ExtractStage, NormalizeStage, TxUpsertStage,
      Fault, Admin, EnqueueNormalize, EnqueueTxUpsert

\* Type correctness: every column, job and handler stays within its type.
THEOREM TypeCorrect == Spec => []TypeOK
<1>1. QED
  BY InitType, StepType, PTL DEF Spec
-----------------------------------------------------------------------------
(* The inductive invariant, one document at a time.                         *)

\* A handler runs only under the lock of its job.
HandlerOwnsJob(d) ==
  \A q \in Stages : run[q][d].pc # "idle" => job[q][d].state = "active"

\* The claim of doc_extract is overwritten before its handler can finish.
ClaimIsOpen(d) ==
  status[d] = "PROCESSING" =>
    /\ Exists(job["doc_extract"][d])
    /\ run["doc_extract"][d].pc \notin {"enqueue", "ack"}

\* normalize works on a text, which stays in the row while it does.
TextIsThere(d) ==
  /\ status[d] = "SUCCEEDED" => extractedText[d] # NoText
  /\ run["normalize"][d].pc = "write" =>
       run["normalize"][d].text # NoText /\ extractedText[d] # NoText

StatusInv(d) == HandlerOwnsJob(d) /\ ClaimIsOpen(d) /\ TextIsThere(d)

\* Nothing of a document e changes in a step of another document.
Same(e) ==
  /\ row'[e] = row[e]
  /\ readable'[e] = readable[e]
  /\ object'[e] = object[e]
  /\ uploaded'[e] = uploaded[e]
  /\ status'[e] = status[e]
  /\ extractedText'[e] = extractedText[e]
  /\ normalizedJson'[e] = normalizedJson[e]
  /\ booked'[e] = booked[e]
  /\ \A q \in Stages : job'[q][e] = job[q][e] /\ run'[q][e] = run[q][e]

\* An update of one document's job leaves the jobs of another document alone.
LEMMA JobFrame ==
  ASSUME TypeOK, NEW q \in Stages, NEW d \in Docs, NEW e \in Docs, d # e,
         NEW j, job' = [job EXCEPT ![q][d] = j]
  PROVE  \A p \in Stages : job'[p][e] = job[p][e]
  BY DEF TypeOK

\* An update of one document's handler leaves another document's alone.
LEMMA RunFrame ==
  ASSUME TypeOK, NEW q \in Stages, NEW d \in Docs, NEW e \in Docs, d # e,
         NEW h, run' = [run EXCEPT ![q][d] = h]
  PROVE  \A p \in Stages : run'[p][e] = run[p][e]
  BY DEF TypeOK

\* A step of document d leaves every other document e as it is.
LEMMA Frame ==
  ASSUME TypeOK, NEW d \in Docs, NEW e \in Docs, d # e, DocNext(d)
  PROVE  Same(e)
<1> USE StageNames DEF rowVars, extVars, bounds
<1>a. ASSUME NEW q \in Stages, NEW pc, NEW t, GoOn(q, d, pc, t)
      PROVE  \A p \in Stages : run'[p][e] = run[p][e]
  BY <1>a, RunFrame DEF GoOn
<1>b. ASSUME NEW q \in Stages, NEW pc, NEW t, Start(q, d, pc, t)
      PROVE  \A p \in Stages : job'[p][e] = job[p][e] /\ run'[p][e] = run[p][e]
  BY <1>a, <1>b, JobFrame DEF Start
<1>1. CASE Client(d)
  BY <1>1 DEF Client, CreateUploadUrl, PutObject, SoftDelete, BeginComplete,
              TypeOK, Same
<1>2. ASSUME NEW r \in Requests, Api(r, d) PROVE Same(e)
  <2>1. CASE ResetExtraction(r, d)
    BY <2>1 DEF ResetExtraction, TypeOK, Same
  <2>2. CASE EnqueueExtract(r, d)
    BY <2>2, JobFrame DEF EnqueueExtract, Same
  <2>3. CASE CheckObject(r, d)
    BY <2>3 DEF CheckObject, TypeOK, Same
  <2>4. QED
    BY <1>2, <2>1, <2>2, <2>3 DEF Api
<1>3. CASE ExtractStart(d)
  BY <1>3, <1>b DEF ExtractStart, Same
<1>4. CASE ExtractClaim(d) \/ ExtractLoad(d)
  BY <1>4, <1>a DEF ExtractClaim, ExtractLoad, TypeOK, Same
<1>5. CASE ExtractStore(d)
  BY <1>5, <1>a DEF ExtractStore, TypeOK, Same
<1>6. ASSUME NEW p \in Stages, NEW q \in Stages, EnqueueNext(p, q, d)
      PROVE  Same(e)
  BY <1>6, <1>a, JobFrame DEF EnqueueNext, Same
<1>7. ASSUME NEW q \in Stages, Ack(q, d) PROVE Same(e)
  BY <1>7, JobFrame, RunFrame DEF Ack, Same
<1>8. ASSUME NEW q \in Stages, RecoverStalled(q, d) \/ RetryJob(q, d) \/ ReadThrows(q, d)
      PROVE  Same(e)
  BY <1>8, JobFrame DEF RecoverStalled, RetryJob, ReadThrows, Same
<1>9. CASE NormalizeStart(d)
  BY <1>9, <1>b DEF NormalizeStart, Same
<1>10. CASE NormalizeNotReady(d)
  BY <1>10, JobFrame DEF NormalizeNotReady, Same
<1>11. CASE NormalizeWrite(d)
  BY <1>11, <1>a DEF NormalizeWrite, TypeOK, Same
<1>12. CASE TxUpsertStart(d)
  BY <1>12, <1>b DEF TxUpsertStart, Same
<1>13. CASE TxUpsertWrite(d)
  BY <1>13, <1>a DEF TxUpsertWrite, TypeOK, Same
<1>14. ASSUME NEW r \in Requests, CompleteFails(r, d) PROVE Same(e)
  BY <1>14 DEF CompleteFails, Same
<1>15. ASSUME NEW q \in Stages, JobThrows(q, d) \/ WorkerDies(q, d)
       PROVE  Same(e)
  <2>1. CASE JobThrows(q, d)
    BY <2>1, JobFrame, RunFrame DEF JobThrows, Same
  <2>2. CASE WorkerDies(q, d)
    BY <2>2, RunFrame DEF WorkerDies, Same
  <2>3. QED
    BY <1>15, <2>1, <2>2
<1>16. CASE ExtractCatches(d)
  BY <1>16, <1>a DEF ExtractCatches, Same
<1>17. QED
  BY <1>1, <1>2, <1>3, <1>4, <1>5, <1>6, <1>7, <1>8, <1>9, <1>10, <1>11,
     <1>12, <1>13, <1>14, <1>15, <1>16
  DEF DocNext, Worker, ExtractStage, NormalizeStage, TxUpsertStage, Fault,
      Admin, EnqueueNormalize, EnqueueTxUpsert
-----------------------------------------------------------------------------
(* What an update of the job or the handler of a document does to it.       *)

\* An update of the job of <<q, d>> is one of that job alone.
LEMMA JobAt ==
  ASSUME TypeOK, NEW q \in Stages, NEW d \in Docs, NEW j,
         job' = [job EXCEPT ![q][d] = j]
  PROVE  \A p \in Stages : job'[p][d] = IF p = q THEN j ELSE job[p][d]
  BY DEF TypeOK

\* A handler that goes on has the new step and text; the other stages do not move.
LEMMA GoOnAt ==
  ASSUME TypeOK, NEW q \in Stages, NEW d \in Docs, NEW pc, NEW t,
         GoOn(q, d, pc, t)
  PROVE  \A p \in Stages :
           /\ run'[p][d].pc = IF p = q THEN pc ELSE run[p][d].pc
           /\ run'[p][d].text = IF p = q THEN t ELSE run[p][d].text
<1>1. \A p \in Stages : run'[p][d] = IF p = q THEN [pc |-> pc, text |-> t]
                                     ELSE run[p][d]
  BY DEF GoOn, TypeOK
<1>2. QED
  BY <1>1

\* A job that is taken is active, and its handler is at the first step.
LEMMA StartAt ==
  ASSUME TypeOK, NEW q \in Stages, NEW d \in Docs, NEW pc, NEW t,
         Start(q, d, pc, t)
  PROVE  /\ job[q][d].state = "waiting"
         /\ job'[q][d].state = "active"
         /\ \A p \in Stages : p # q => job'[p][d] = job[p][d]
         /\ GoOn(q, d, pc, t)
  BY JobAt, TakeFacts DEF Start, TypeOK

\* After an add the job is there, and an active job is still active.
LEMMA AddAt ==
  ASSUME TypeOK, NEW q \in Stages, NEW d \in Docs,
         job' = [job EXCEPT ![q][d] = Add(@)]
  PROVE  /\ Exists(job'[q][d])
         /\ \A p \in Stages : job[p][d].state = "active" => job'[p][d] = job[p][d]
         /\ \A p \in Stages : Exists(job[p][d]) => Exists(job'[p][d])
         /\ \A p \in Stages : p # q => job'[p][d] = job[p][d]
<1>1. job[q][d] \in Job
  BY DEF TypeOK
<1>2. \A p \in Stages :
        job'[p][d] = IF p = q THEN Add(job[q][d]) ELSE job[p][d]
  BY DEF TypeOK
<1>3. QED
  BY <1>1, <1>2, AddFacts DEF Exists

\* A job that fails, is found stalled or is requeued is kept, not active.
LEMMA KeepAt ==
  ASSUME TypeOK, NEW q \in Stages, NEW d \in Docs,
         \/ job' = [job EXCEPT ![q][d] = Fail(@)]
         \/ job' = [job EXCEPT ![q][d] = Stall(@)]
         \/ job' = [job EXCEPT ![q][d] = Requeue(@)]
  PROVE  /\ job'[q][d].state \in {"waiting", "failed"}
         /\ Exists(job'[q][d])
         /\ \A p \in Stages : p # q => job'[p][d] = job[p][d]
<1>1. job[q][d] \in Job
  BY DEF TypeOK
<1>2. /\ \/ job'[q][d] = Fail(job[q][d])
         \/ job'[q][d] = Stall(job[q][d])
         \/ job'[q][d] = Requeue(job[q][d])
      /\ \A p \in Stages : p # q => job'[p][d] = job[p][d]
  BY DEF TypeOK
<1>3. QED
  BY <1>1, <1>2, FailFacts, StallFacts, RequeueFacts DEF Exists

\* The handler returns to idle.
LEMMA IdleAt ==
  ASSUME TypeOK, NEW q \in Stages, NEW d \in Docs,
         run' = [run EXCEPT ![q][d] = Idle]
  PROVE  /\ run'[q][d].pc = "idle" /\ run'[q][d].text = NoText
         /\ \A p \in Stages : p # q => run'[p][d] = run[p][d]
<1>1. \A p \in Stages : run'[p][d] = IF p = q THEN Idle ELSE run[p][d]
  BY DEF TypeOK
<1>2. QED
  BY <1>1 DEF Idle
-----------------------------------------------------------------------------
(* StatusInv is inductive: one step per action.                             *)

\* Every step of document d keeps what ties its status to its job and its text.
LEMMA StatusStep ==
  ASSUME TypeOK, NEW d \in Docs, StatusInv(d), DocNext(d)
  PROVE  StatusInv(d)'
<1> USE StageNames DEF rowVars, extVars, bounds, StatusInv, HandlerOwnsJob,
        ClaimIsOpen, TextIsThere
<1>t. /\ status \in [Docs -> Status]
      /\ extractedText \in [Docs -> Texts \cup {NoText}]
      /\ \A q \in Stages : job[q][d] \in Job
  BY DEF TypeOK
<1>1. CASE Client(d)
  BY <1>1 DEF Client, CreateUploadUrl, PutObject, SoftDelete, BeginComplete
<1>2. ASSUME NEW r \in Requests, CheckObject(r, d) \/ ResetExtraction(r, d)
      PROVE  StatusInv(d)'
  BY <1>2, <1>t DEF CheckObject, ResetExtraction
<1>3. ASSUME NEW r \in Requests, EnqueueExtract(r, d) PROVE StatusInv(d)'
  <2>1. job' = [job EXCEPT !["doc_extract"][d] = Add(@)]
    BY <1>3 DEF EnqueueExtract
  <2>2. UNCHANGED <<status, extractedText, run>>
    BY <1>3 DEF EnqueueExtract
  <2>3. /\ Exists(job'["doc_extract"][d])
        /\ \A q \in Stages : job[q][d].state = "active" => job'[q][d] = job[q][d]
    BY <2>1, AddAt
  <2>4. QED
    BY <2>2, <2>3
<1>4. CASE ExtractStart(d)
  <2>1. PICK pc \in {"ack", "claim"} :
          /\ Start("doc_extract", d, pc, NoText)
          /\ status[d] = "SUCCEEDED" <=> pc = "ack"
          /\ UNCHANGED <<status, extractedText>>
    BY <1>4 DEF ExtractStart
  <2>2. /\ job'["doc_extract"][d].state = "active"
        /\ \A q \in Stages : q # "doc_extract" => job'[q][d] = job[q][d]
        /\ run'["doc_extract"][d].pc = pc
        /\ \A q \in Stages : q # "doc_extract" =>
             run'[q][d].pc = run[q][d].pc /\ run'[q][d].text = run[q][d].text
    BY <2>1, StartAt, GoOnAt
  <2>3. QED
    BY <2>1, <2>2 DEF Exists
<1>5. CASE ExtractClaim(d)
  BY <1>5, <1>t, GoOnAt DEF ExtractClaim, Exists
<1>6. CASE ExtractLoad(d)
  BY <1>6, GoOnAt DEF ExtractLoad
<1>7. CASE ExtractStore(d)
  BY <1>7, <1>t, GoOnAt DEF ExtractStore
<1>8. ASSUME NEW p \in Stages, NEW q \in Stages, EnqueueNext(p, q, d)
      PROVE  StatusInv(d)'
  <2>1. /\ \A s \in Stages : job[s][d].state = "active" => job'[s][d] = job[s][d]
        /\ \A s \in Stages : Exists(job[s][d]) => Exists(job'[s][d])
    BY <1>8, AddAt DEF EnqueueNext
  <2>2. /\ run[p][d].pc = "enqueue"
        /\ run'[p][d].pc = "ack"
        /\ \A s \in Stages : s # p => /\ run'[s][d].pc = run[s][d].pc
                                     /\ run'[s][d].text = run[s][d].text
    BY <1>8, GoOnAt DEF EnqueueNext
  <2>3. UNCHANGED <<status, extractedText>>
    BY <1>8 DEF EnqueueNext
  <2>4. QED
    BY <2>1, <2>2, <2>3
<1>9. ASSUME NEW q \in Stages, Ack(q, d) PROVE StatusInv(d)'
  <2>1. \A p \in Stages : p # q => job'[p][d] = job[p][d]
    BY <1>9 DEF Ack, TypeOK
  <2>2. /\ run'[q][d].pc = "idle"
        /\ \A p \in Stages : p # q => run'[p][d] = run[p][d]
    BY <1>9, IdleAt DEF Ack
  <2>3. /\ run[q][d].pc = "ack"
        /\ UNCHANGED <<status, extractedText>>
    BY <1>9 DEF Ack
  <2>4. QED
    BY <2>1, <2>2, <2>3
<1>10. ASSUME NEW q \in Stages, RecoverStalled(q, d) \/ RetryJob(q, d) \/ ReadThrows(q, d)
       PROVE  StatusInv(d)'
  BY <1>10, KeepAt DEF RecoverStalled, RetryJob, ReadThrows
<1>11. CASE NormalizeStart(d)
  BY <1>11, StartAt, GoOnAt DEF NormalizeStart
<1>12. CASE NormalizeNotReady(d)
  BY <1>12, KeepAt DEF NormalizeNotReady
<1>13. CASE NormalizeWrite(d)
  BY <1>13, <1>t, GoOnAt DEF NormalizeWrite
<1>14. CASE TxUpsertStart(d)
  BY <1>14, StartAt, GoOnAt DEF TxUpsertStart
<1>15. CASE TxUpsertWrite(d)
  BY <1>15, GoOnAt DEF TxUpsertWrite
<1>16. ASSUME NEW r \in Requests, CompleteFails(r, d) PROVE StatusInv(d)'
  BY <1>16 DEF CompleteFails
<1>17. ASSUME NEW q \in Stages, JobThrows(q, d) PROVE StatusInv(d)'
  <2>1. /\ Exists(job'[q][d])
        /\ \A p \in Stages : p # q => job'[p][d] = job[p][d]
    BY <1>17, KeepAt DEF JobThrows
  <2>2. /\ run'[q][d].pc = "idle"
        /\ \A p \in Stages : p # q => run'[p][d] = run[p][d]
    BY <1>17, IdleAt DEF JobThrows
  <2>3. UNCHANGED <<status, extractedText>>
    BY <1>17 DEF JobThrows
  <2>4. QED
    BY <2>1, <2>2, <2>3
<1>18. ASSUME NEW q \in Stages, WorkerDies(q, d) PROVE StatusInv(d)'
  <2>1. /\ run'[q][d].pc = "idle"
        /\ \A p \in Stages : p # q => run'[p][d] = run[p][d]
    BY <1>18, IdleAt DEF WorkerDies
  <2>2. UNCHANGED <<status, extractedText, job>>
    BY <1>18 DEF WorkerDies
  <2>3. QED
    BY <2>1, <2>2
<1>19. CASE ExtractCatches(d)
  BY <1>19, GoOnAt DEF ExtractCatches
<1>20. QED
  BY <1>1, <1>2, <1>3, <1>4, <1>5, <1>6, <1>7, <1>8, <1>9, <1>10, <1>11,
     <1>12, <1>13, <1>14, <1>15, <1>16, <1>17, <1>18, <1>19
  DEF DocNext, Api, Worker, ExtractStage, NormalizeStage, TxUpsertStage,
      Fault, Admin, EnqueueNormalize, EnqueueTxUpsert
-----------------------------------------------------------------------------
(* Where texts come from.                                                   *)

\* Every text in the columns and handlers of a document was uploaded to it and
\* is of a type that is read; tx_upsert works on texts with transactions.
TextsWereUploaded(d) ==
  /\ object[d] \in uploaded[d] \cup {NoText}
  /\ extractedText[d] # NoText => extractedText[d] \in uploaded[d] /\ readable[d]
  /\ normalizedJson[d] # NoText => normalizedJson[d] \in uploaded[d] /\ readable[d]
  /\ \A q \in Stages : run[q][d].text # NoText =>
       run[q][d].text \in uploaded[d] /\ readable[d]
  /\ run["tx_upsert"][d].pc = "write" => run["tx_upsert"][d].text \in Texts \ Blank
  /\ booked[d] \subseteq uploaded[d] \ Blank
  /\ booked[d] # {} => readable[d]

\* Nothing is uploaded before the document's row is there.
RowFirst(d) == uploaded[d] # {} => row[d] # "absent"

\* Every step of document d keeps that.
LEMMA RowStep ==
  ASSUME TypeOK, NEW d \in Docs, RowFirst(d), DocNext(d)
  PROVE  RowFirst(d)'
<1> USE DEF rowVars, RowFirst
<1>1. CASE Client(d)
  BY <1>1 DEF TypeOK, Client, CreateUploadUrl, PutObject, SoftDelete,
              BeginComplete
<1>2. CASE \E r \in Requests : Api(r, d)
  BY <1>2 DEF Api, CheckObject, ResetExtraction, EnqueueExtract
<1>3. CASE Worker(d)
  BY <1>3
  DEF Worker, ExtractStage, NormalizeStage, TxUpsertStage, ExtractStart,
      ExtractClaim, ExtractLoad, ExtractStore, EnqueueNormalize,
      EnqueueTxUpsert, EnqueueNext, Ack, RecoverStalled, NormalizeStart,
      NormalizeNotReady, NormalizeWrite, TxUpsertStart, TxUpsertWrite
<1>4. CASE Fault(d) \/ Admin(d)
  BY <1>4 DEF Fault, CompleteFails, ReadThrows, JobThrows, WorkerDies,
              ExtractCatches, Admin, RetryJob
<1>5. QED
  BY <1>1, <1>2, <1>3, <1>4 DEF DocNext

\* Every step of document d moves only texts that were uploaded.  A row that is
\* created gives the type of nothing that was uploaded before.
LEMMA TextsStep ==
  ASSUME TypeOK, NEW d \in Docs, StatusInv(d), TextsWereUploaded(d), DocNext(d),
         CreateUploadUrl(d) => uploaded[d] = {}
  PROVE  TextsWereUploaded(d)'
<1> USE StageNames DEF rowVars, extVars, bounds, TextsWereUploaded
<1>t. /\ row \in [Docs -> {"absent", "live", "deleted"}]
      /\ readable \in [Docs -> BOOLEAN]
      /\ object \in [Docs -> Texts \cup {NoText}]
      /\ uploaded \in [Docs -> SUBSET Texts]
      /\ extractedText \in [Docs -> Texts \cup {NoText}]
      /\ normalizedJson \in [Docs -> Texts \cup {NoText}]
      /\ booked \in [Docs -> SUBSET (Texts \cup {NoText})]
      /\ NoText \notin Texts
  BY ExtractionAssumption DEF TypeOK
<1>1. CASE CreateUploadUrl(d)
  BY <1>1, <1>t DEF CreateUploadUrl
<1>2. ASSUME NEW t \in Texts, PutObject(d, t) PROVE TextsWereUploaded(d)'
  BY <1>2, <1>t DEF PutObject
<1>3. CASE SoftDelete(d)
  BY <1>3, <1>t DEF SoftDelete
<1>4. ASSUME NEW r \in Requests,
             BeginComplete(r, d) \/ Api(r, d) \/ CompleteFails(r, d)
      PROVE  TextsWereUploaded(d)'
  BY <1>4 DEF BeginComplete, CheckObject, Api, ResetExtraction, EnqueueExtract,
              CompleteFails
<1>5. CASE ExtractStart(d)
  BY <1>5, StartAt, GoOnAt DEF ExtractStart
<1>6. CASE ExtractClaim(d)
  BY <1>6, GoOnAt DEF ExtractClaim
<1>7. CASE ExtractLoad(d)
  BY <1>7, GoOnAt DEF ExtractLoad
<1>8. CASE ExtractStore(d)
  BY <1>8, <1>t, GoOnAt DEF ExtractStore
<1>9. ASSUME NEW p \in Stages, NEW q \in Stages, EnqueueNext(p, q, d)
      PROVE  TextsWereUploaded(d)'
  BY <1>9, GoOnAt DEF EnqueueNext
<1>10. ASSUME NEW q \in Stages, Ack(q, d) \/ JobThrows(q, d) \/ WorkerDies(q, d)
       PROVE  TextsWereUploaded(d)'
  <2>1. /\ run'[q][d].pc = "idle" /\ run'[q][d].text = NoText
        /\ \A p \in Stages : p # q => run'[p][d] = run[p][d]
    BY <1>10, IdleAt DEF Ack, JobThrows, WorkerDies
  <2>2. UNCHANGED <<rowVars, extractedText, normalizedJson, booked>>
    BY <1>10 DEF Ack, JobThrows, WorkerDies
  <2>3. QED
    BY <2>1, <2>2
<1>11. ASSUME NEW q \in Stages, RecoverStalled(q, d) \/ RetryJob(q, d) \/ ReadThrows(q, d)
       PROVE  TextsWereUploaded(d)'
  BY <1>11 DEF RecoverStalled, RetryJob, ReadThrows
<1>12. CASE NormalizeStart(d)
  BY <1>12, StartAt, GoOnAt DEF NormalizeStart
<1>13. CASE NormalizeNotReady(d)
  BY <1>13 DEF NormalizeNotReady
<1>14. CASE NormalizeWrite(d)
  BY <1>14, <1>t, GoOnAt DEF NormalizeWrite
<1>15. CASE TxUpsertStart(d)
  BY <1>15, <1>t, StartAt, GoOnAt DEF TxUpsertStart, NormalizedOk
<1>16. CASE TxUpsertWrite(d)
  BY <1>16, <1>t, GoOnAt DEF TxUpsertWrite
<1>17. CASE ExtractCatches(d)
  BY <1>17, GoOnAt DEF ExtractCatches
<1>18. QED
  BY <1>1, <1>2, <1>3, <1>4, <1>5, <1>6, <1>7, <1>8, <1>9, <1>10, <1>11,
     <1>12, <1>13, <1>14, <1>15, <1>16, <1>17
  DEF DocNext, Client, Worker, ExtractStage, NormalizeStage, TxUpsertStage,
      Fault, Admin, EnqueueNormalize, EnqueueTxUpsert
-----------------------------------------------------------------------------
(* Nothing normalized is dropped, for a document whose object is put once.  *)

\* The document's only text stays normalized once it is; the tx_upsert job
\* exists only then, and its handler is done only when the text is booked.
NormalizedReaches(d) ==
  /\ run["normalize"][d].pc = "enqueue" => NormalizedOk(d)
  /\ Exists(job["tx_upsert"][d]) => NormalizedOk(d)
  /\ run["tx_upsert"][d].pc = "ack" => normalizedJson[d] \in booked[d]
  /\ NormalizedOk(d) /\ normalizedJson[d] \notin booked[d] =>
       \/ Exists(job["tx_upsert"][d])
       \/ Exists(job["normalize"][d]) /\ run["normalize"][d].pc # "ack"

PursuitInv(d) == PutOnce(d) => NormalizedReaches(d)

\* No step forgets a content that was put.
LEMMA UploadedGrows ==
  ASSUME TypeOK, NEW d \in Docs, DocNext(d)
  PROVE  uploaded[d] \subseteq uploaded'[d]
<1> USE DEF rowVars, extVars
<1>1. ASSUME NEW t \in Texts, PutObject(d, t)
      PROVE  uploaded[d] \subseteq uploaded'[d]
  BY <1>1 DEF PutObject, TypeOK
<1>2. ASSUME NEW r \in Requests, BeginComplete(r, d) \/ Api(r, d) \/ CompleteFails(r, d)
      PROVE  uploaded' = uploaded
  BY <1>2 DEF Api, BeginComplete, CheckObject, ResetExtraction, EnqueueExtract,
              CompleteFails
<1>3. CASE CreateUploadUrl(d) \/ SoftDelete(d)
  BY <1>3 DEF CreateUploadUrl, SoftDelete
<1>4. ASSUME NEW q \in Stages,
             \/ Ack(q, d) \/ RecoverStalled(q, d) \/ RetryJob(q, d)
             \/ ReadThrows(q, d) \/ JobThrows(q, d) \/ WorkerDies(q, d)
      PROVE  uploaded' = uploaded
  BY <1>4 DEF Ack, RecoverStalled, RetryJob, ReadThrows, JobThrows, WorkerDies
<1>5. CASE \/ ExtractStart(d) \/ ExtractClaim(d) \/ ExtractLoad(d)
           \/ ExtractStore(d) \/ ExtractCatches(d) \/ EnqueueNormalize(d)
  BY <1>5 DEF ExtractStart, ExtractClaim, ExtractLoad, ExtractStore,
              ExtractCatches, EnqueueNormalize, EnqueueNext
<1>6. CASE \/ NormalizeStart(d) \/ NormalizeNotReady(d) \/ NormalizeWrite(d)
           \/ EnqueueTxUpsert(d) \/ TxUpsertStart(d) \/ TxUpsertWrite(d)
  BY <1>6 DEF NormalizeStart, NormalizeNotReady, NormalizeWrite, EnqueueTxUpsert,
              EnqueueNext, TxUpsertStart, TxUpsertWrite
<1>7. QED
  BY <1>1, <1>2, <1>3, <1>4, <1>5, <1>6, StageNames
  DEF DocNext, Client, Worker, ExtractStage, NormalizeStage, TxUpsertStage,
      Fault, Admin

\* Every step of document d keeps a normalized text booked or pursued.
LEMMA PursuitStep ==
  ASSUME TypeOK, NEW d \in Docs, StatusInv(d), TextsWereUploaded(d),
         PursuitInv(d), DocNext(d)
  PROVE  PursuitInv(d)'
<1> SUFFICES ASSUME PutOnce(d)' PROVE NormalizedReaches(d)'
  BY DEF PursuitInv
<1> USE StageNames DEF rowVars, extVars, bounds, NormalizedReaches, PutOnce,
        NormalizedOk
<1>i. PutOnce(d) /\ NormalizedReaches(d)
  BY UploadedGrows DEF PursuitInv
<1>t. /\ uploaded \in [Docs -> SUBSET Texts]
      /\ normalizedJson \in [Docs -> Texts \cup {NoText}]
      /\ booked \in [Docs -> SUBSET (Texts \cup {NoText})]
      /\ NoText \notin Texts
  BY ExtractionAssumption DEF TypeOK
\* All texts of the document are one.
<1>o. /\ normalizedJson[d] # NoText => normalizedJson[d] \in uploaded[d]
      /\ \A q \in Stages : run[q][d].text # NoText => run[q][d].text \in uploaded[d]
      /\ run["normalize"][d].pc = "write" => run["normalize"][d].text # NoText
      /\ run["tx_upsert"][d].pc = "write" =>
           run["tx_upsert"][d].text \in Texts \ Blank
      /\ \A q \in Stages : run[q][d].pc # "idle" => job[q][d].state = "active"
  BY DEF TextsWereUploaded, StatusInv, TextIsThere, HandlerOwnsJob
<1>1. ASSUME CreateUploadUrl(d) \/ SoftDelete(d)
      PROVE  NormalizedReaches(d)'
  BY <1>1, <1>i DEF CreateUploadUrl, SoftDelete
<1>2. ASSUME NEW t \in Texts, PutObject(d, t)
      PROVE  NormalizedReaches(d)'
  BY <1>2, <1>i, <1>t DEF PutObject
<1>3. ASSUME NEW r \in Requests,
             \/ BeginComplete(r, d) \/ CheckObject(r, d)
             \/ ResetExtraction(r, d) \/ CompleteFails(r, d)
      PROVE  NormalizedReaches(d)'
  BY <1>3, <1>i DEF BeginComplete, CheckObject, ResetExtraction, CompleteFails
<1>4. ASSUME NEW r \in Requests, EnqueueExtract(r, d)
      PROVE  NormalizedReaches(d)'
  BY <1>4, <1>i, AddAt DEF EnqueueExtract
<1>5. CASE ExtractStart(d)
  BY <1>5, <1>i, StartAt, GoOnAt DEF ExtractStart
<1>6. CASE ExtractClaim(d) \/ ExtractLoad(d) \/ ExtractCatches(d)
  BY <1>6, <1>i, GoOnAt DEF ExtractClaim, ExtractLoad, ExtractCatches
<1>7. CASE ExtractStore(d)
  BY <1>7, <1>i, GoOnAt DEF ExtractStore
<1>8. CASE EnqueueNormalize(d)
  <2>1. /\ \A s \in Stages : Exists(job[s][d]) => Exists(job'[s][d])
        /\ job'["tx_upsert"][d] = job["tx_upsert"][d]
    BY <1>8, AddAt DEF EnqueueNormalize, EnqueueNext
  <2>2. \A s \in {"normalize", "tx_upsert"} : run'[s][d].pc = run[s][d].pc
    BY <1>8, GoOnAt DEF EnqueueNormalize, EnqueueNext
  <2>3. UNCHANGED <<uploaded, normalizedJson, booked>>
    BY <1>8 DEF EnqueueNormalize, EnqueueNext
  <2>4. QED
    BY <1>i, <2>1, <2>2, <2>3
<1>9. CASE EnqueueTxUpsert(d)
  <2>1. run["normalize"][d].pc = "enqueue" /\ Exists(job'["tx_upsert"][d])
    BY <1>9, AddAt DEF EnqueueTxUpsert, EnqueueNext
  <2>2. /\ run'["normalize"][d].pc = "ack"
        /\ run'["tx_upsert"][d].pc = run["tx_upsert"][d].pc
    BY <1>9, GoOnAt DEF EnqueueTxUpsert, EnqueueNext
  <2>3. UNCHANGED <<uploaded, normalizedJson, booked>>
    BY <1>9 DEF EnqueueTxUpsert, EnqueueNext
  <2>4. QED
    BY <1>i, <2>1, <2>2, <2>3
<1>10. ASSUME NEW q \in Stages, Ack(q, d)
       PROVE  NormalizedReaches(d)'
  <2>1. /\ job'[q][d] = NoJob
        /\ \A p \in Stages : p # q => job'[p][d] = job[p][d]
    BY <1>10 DEF Ack, TypeOK
  <2>2. /\ run'[q][d].pc = "idle"
        /\ \A p \in Stages : p # q => run'[p][d] = run[p][d]
    BY <1>10, IdleAt DEF Ack
  <2>3. /\ run[q][d].pc = "ack"
        /\ UNCHANGED <<uploaded, normalizedJson, booked>>
    BY <1>10 DEF Ack
  <2>4. QED
    BY <1>i, <2>1, <2>2, <2>3, NoJobType
<1>11. ASSUME NEW q \in Stages, JobThrows(q, d)
       PROVE  NormalizedReaches(d)'
  <2>1. /\ Exists(job'[q][d])
        /\ \A p \in Stages : p # q => job'[p][d] = job[p][d]
    BY <1>11, KeepAt DEF JobThrows
  <2>2. /\ run'[q][d].pc = "idle"
        /\ \A p \in Stages : p # q => run'[p][d] = run[p][d]
    BY <1>11, IdleAt DEF JobThrows
  <2>3. Exists(job[q][d]) /\ UNCHANGED <<uploaded, normalizedJson, booked>>
    BY <1>11, <1>o DEF JobThrows, MayFault, Exists
  <2>4. QED
    BY <1>i, <2>1, <2>2, <2>3
<1>12. ASSUME NEW q \in Stages, WorkerDies(q, d)
       PROVE  NormalizedReaches(d)'
  <2>1. /\ run'[q][d].pc = "idle"
        /\ \A p \in Stages : p # q => run'[p][d] = run[p][d]
    BY <1>12, IdleAt DEF WorkerDies
  <2>2. UNCHANGED <<uploaded, normalizedJson, booked, job>>
    BY <1>12 DEF WorkerDies
  <2>3. QED
    BY <1>i, <2>1, <2>2
<1>13. ASSUME NEW q \in Stages, RecoverStalled(q, d) \/ RetryJob(q, d) \/ ReadThrows(q, d)
       PROVE  NormalizedReaches(d)'
  <2>1. /\ Exists(job'[q][d]) /\ Exists(job[q][d])
        /\ \A p \in Stages : p # q => job'[p][d] = job[p][d]
    BY <1>13, KeepAt DEF RecoverStalled, RetryJob, ReadThrows, Exists
  <2>2. UNCHANGED <<uploaded, normalizedJson, booked, run>>
    BY <1>13 DEF RecoverStalled, RetryJob, ReadThrows
  <2>3. QED
    BY <1>i, <2>1, <2>2
<1>14. CASE NormalizeStart(d)
  BY <1>14, <1>i, StartAt, GoOnAt DEF NormalizeStart, Exists
<1>15. CASE NormalizeNotReady(d)
  <2>a. job' = [job EXCEPT !["normalize"][d] = Fail(@)]
    BY <1>15 DEF NormalizeNotReady
  <2>b. Exists(job["normalize"][d])
    BY <1>15 DEF NormalizeNotReady, Exists
  <2>1. /\ Exists(job'["normalize"][d])
        /\ job'["tx_upsert"][d] = job["tx_upsert"][d]
    <3>1. /\ job'["normalize"][d] = Fail(job["normalize"][d])
          /\ job'["tx_upsert"][d] = job["tx_upsert"][d]
      BY <2>a DEF TypeOK
    <3>2. job["normalize"][d] \in Job
      BY DEF TypeOK
    <3>3. QED
      BY <3>1, <3>2, FailFacts DEF Exists
  <2>2. run["normalize"][d].pc = "idle"
    BY <1>15, <1>o DEF NormalizeNotReady
  <2>3. UNCHANGED <<uploaded, normalizedJson, booked, run>>
    BY <1>15 DEF NormalizeNotReady
  <2>4. QED
    BY <1>i, <2>b, <2>1, <2>2, <2>3
<1>16. CASE NormalizeWrite(d)
  <2> DEFINE text == run["normalize"][d].text
  <2>1. /\ job["normalize"][d].state = "active"
        /\ text \in uploaded[d] /\ text \in Texts
    BY <1>16, <1>o, <1>t DEF NormalizeWrite
  <2>2. NormalizedOk(d) => normalizedJson[d] = text
    BY <2>1, <1>i, <1>o, <1>t
  <2>3. /\ normalizedJson'[d] = text
        /\ UNCHANGED <<uploaded, booked, job>>
    BY <1>16, <1>t DEF NormalizeWrite
  <2>4. /\ run'["tx_upsert"][d].pc = run["tx_upsert"][d].pc
        /\ text \in Blank => run'["normalize"][d].pc = "ack"
        /\ text \notin Blank => run'["normalize"][d].pc = "enqueue"
    BY <1>16, GoOnAt DEF NormalizeWrite
  <2>5. CASE text \in Blank
    \* Then nothing was ever parsed from this document's text.
    <3>1. ~NormalizedOk(d)
      BY <2>2, <2>5
    <3>2. run["tx_upsert"][d].pc = "idle"
      BY <3>1, <1>i, <1>o DEF Exists
    <3>3. QED
      BY <1>i, <2>3, <2>4, <2>5, <3>1, <3>2
  <2>6. CASE text \notin Blank
    <3>1. run["tx_upsert"][d].pc = "ack" => normalizedJson[d] = text
      BY <1>i, <1>o, <2>2 DEF Exists
    <3>2. QED
      BY <1>i, <2>1, <2>3, <2>4, <2>6, <3>1 DEF Exists
  <2>7. QED
    BY <2>5, <2>6
<1>17. CASE TxUpsertStart(d)
  BY <1>17, <1>i, StartAt, GoOnAt DEF TxUpsertStart, Exists
<1>18. CASE TxUpsertWrite(d)
  <2>1. /\ job["tx_upsert"][d].state = "active"
        /\ run["tx_upsert"][d].text \in uploaded[d]
    BY <1>18, <1>o, <1>t DEF TxUpsertWrite
  <2>2. normalizedJson[d] = run["tx_upsert"][d].text
    BY <2>1, <1>i, <1>o, <1>t DEF Exists
  <2>3. /\ booked'[d] = booked[d] \cup {run["tx_upsert"][d].text}
        /\ UNCHANGED <<uploaded, normalizedJson, job>>
    BY <1>18, <1>t DEF TxUpsertWrite
  <2>4. \A q \in Stages : q # "tx_upsert" => run'[q][d].pc = run[q][d].pc
    BY <1>18, GoOnAt DEF TxUpsertWrite
  <2>5. QED
    BY <1>i, <2>2, <2>3, <2>4
<1>19. QED
  BY <1>1, <1>2, <1>3, <1>4, <1>5, <1>6, <1>7, <1>8, <1>9, <1>10, <1>11,
     <1>12, <1>13, <1>14, <1>15, <1>16, <1>17, <1>18
  DEF DocNext, Client, Api, Worker, ExtractStage, NormalizeStage,
      TxUpsertStage, Fault, Admin
-----------------------------------------------------------------------------
(* Nothing extracted is dropped, where no fault falls between the store and  *)
(* the add of doc_extract.                                                  *)

\* A handler of normalize past its write has left a result, and a SUCCEEDED row
\* without one is doc_extract's, whose normalize job is there or about to be.
ExtractedReaches(d) ==
  /\ run["normalize"][d].pc \in {"enqueue", "ack"} => normalizedJson[d] # NoText
  /\ status[d] = "SUCCEEDED" /\ normalizedJson[d] = NoText =>
       Exists(job["normalize"][d]) \/ run["doc_extract"][d].pc = "enqueue"

WindowIsSafe == <<"doc_extract", "enqueue">> \notin FaultPoints

ExtractInv(d) == WindowIsSafe => ExtractedReaches(d)

\* Every step of document d keeps an extracted text normalized or pursued.
LEMMA ExtractedStep ==
  ASSUME TypeOK, NEW d \in Docs, StatusInv(d), ExtractInv(d), DocNext(d)
  PROVE  ExtractInv(d)'
<1> SUFFICES ASSUME WindowIsSafe PROVE ExtractedReaches(d)'
  BY DEF ExtractInv, WindowIsSafe
<1> USE StageNames DEF rowVars, extVars, bounds, ExtractedReaches
<1>i. ExtractedReaches(d)
  BY DEF ExtractInv
<1>t. /\ status \in [Docs -> Status]
      /\ normalizedJson \in [Docs -> Texts \cup {NoText}]
  BY DEF TypeOK
<1>o. /\ run["normalize"][d].pc = "write" => run["normalize"][d].text # NoText
      /\ \A q \in Stages : run[q][d].pc # "idle" => job[q][d].state = "active"
  BY DEF StatusInv, TextIsThere, HandlerOwnsJob
<1>1. CASE Client(d)
  BY <1>1, <1>i DEF Client, CreateUploadUrl, PutObject, SoftDelete, BeginComplete
<1>2. ASSUME NEW r \in Requests,
             CheckObject(r, d) \/ ResetExtraction(r, d) \/ CompleteFails(r, d)
      PROVE  ExtractedReaches(d)'
  BY <1>2, <1>i, <1>t DEF CheckObject, ResetExtraction, CompleteFails
<1>3. ASSUME NEW r \in Requests, EnqueueExtract(r, d)
      PROVE  ExtractedReaches(d)'
  BY <1>3, <1>i, AddAt DEF EnqueueExtract
<1>4. CASE ExtractStart(d)
  \* The handler was idle, hence not about to add.
  BY <1>4, <1>i, <1>o, StartAt, GoOnAt DEF ExtractStart
<1>5. CASE ExtractClaim(d)
  BY <1>5, <1>i, <1>t, GoOnAt DEF ExtractClaim
<1>6. CASE ExtractLoad(d)
  BY <1>6, <1>i, GoOnAt DEF ExtractLoad
<1>7. CASE ExtractCatches(d)
  BY <1>7, <1>i, GoOnAt DEF ExtractCatches
<1>8. CASE ExtractStore(d)
  BY <1>8, <1>i, <1>t, GoOnAt DEF ExtractStore
<1>9. CASE EnqueueNormalize(d)
  <2>1. Exists(job'["normalize"][d])
    BY <1>9, AddAt DEF EnqueueNormalize, EnqueueNext
  <2>2. /\ run'["normalize"][d].pc = run["normalize"][d].pc
        /\ UNCHANGED <<status, normalizedJson>>
    BY <1>9, GoOnAt DEF EnqueueNormalize, EnqueueNext
  <2>3. QED
    BY <1>i, <2>1, <2>2
<1>10. CASE EnqueueTxUpsert(d)
  <2>1. job'["normalize"][d] = job["normalize"][d]
    BY <1>10, AddAt DEF EnqueueTxUpsert, EnqueueNext
  <2>2. /\ run["normalize"][d].pc = "enqueue"
        /\ run'["doc_extract"][d].pc = run["doc_extract"][d].pc
        /\ UNCHANGED <<status, normalizedJson>>
    BY <1>10, GoOnAt DEF EnqueueTxUpsert, EnqueueNext
  <2>3. QED
    BY <1>i, <2>1, <2>2
<1>11. ASSUME NEW q \in Stages, Ack(q, d)
       PROVE  ExtractedReaches(d)'
  <2>1. /\ run[q][d].pc = "ack" /\ run'[q][d].pc = "idle"
        /\ \A p \in Stages : p # q => run'[p][d] = run[p][d]
    BY <1>11, IdleAt DEF Ack
  <2>2. \A p \in Stages : p # q => job'[p][d] = job[p][d]
    BY <1>11, JobAt DEF Ack
  <2>3. UNCHANGED <<status, normalizedJson>>
    BY <1>11 DEF Ack
  <2>4. QED
    BY <1>i, <2>1, <2>2, <2>3
<1>12. ASSUME NEW q \in Stages, JobThrows(q, d) \/ WorkerDies(q, d)
       PROVE  ExtractedReaches(d)'
  <2>1. <<q, run[q][d].pc>> \in FaultPoints
    BY <1>12 DEF JobThrows, WorkerDies, MayFault
  <2>2. q = "doc_extract" => run[q][d].pc # "enqueue"
    BY <2>1 DEF WindowIsSafe
  <2>3. /\ run'[q][d].pc = "idle"
        /\ \A p \in Stages : p # q => run'[p][d] = run[p][d]
    BY <1>12, IdleAt DEF JobThrows, WorkerDies
  <2>4. Exists(job["normalize"][d]) => Exists(job'["normalize"][d])
    BY <1>12, KeepAt DEF JobThrows, WorkerDies
  <2>5. UNCHANGED <<status, normalizedJson>>
    BY <1>12 DEF JobThrows, WorkerDies
  <2>6. QED
    BY <1>i, <2>2, <2>3, <2>4, <2>5
<1>13. ASSUME NEW q \in Stages, RecoverStalled(q, d) \/ RetryJob(q, d) \/ ReadThrows(q, d)
       PROVE  ExtractedReaches(d)'
  <2>1. Exists(job["normalize"][d]) => Exists(job'["normalize"][d])
    BY <1>13, KeepAt DEF RecoverStalled, RetryJob, ReadThrows
  <2>2. UNCHANGED <<status, normalizedJson, run>>
    BY <1>13 DEF RecoverStalled, RetryJob, ReadThrows
  <2>3. QED
    BY <1>i, <2>1, <2>2
<1>14. CASE NormalizeStart(d)
  BY <1>14, <1>i, StartAt, GoOnAt DEF NormalizeStart, Exists
<1>15. CASE NormalizeNotReady(d)
  BY <1>15, <1>i DEF NormalizeNotReady
<1>16. CASE NormalizeWrite(d)
  BY <1>16, <1>o, <1>t DEF NormalizeWrite
<1>17. CASE TxUpsertStart(d)
  BY <1>17, <1>i, StartAt, GoOnAt DEF TxUpsertStart
<1>18. CASE TxUpsertWrite(d)
  BY <1>18, <1>i, GoOnAt DEF TxUpsertWrite
<1>19. QED
  BY <1>1, <1>2, <1>3, <1>4, <1>5, <1>6, <1>7, <1>8, <1>9, <1>10, <1>11,
     <1>12, <1>13, <1>14, <1>15, <1>16, <1>17, <1>18
  DEF DocNext, Api, Worker, ExtractStage, NormalizeStage, TxUpsertStage,
      Fault, Admin
-----------------------------------------------------------------------------
(* The theorems.                                                            *)

IInv ==
  /\ TypeOK
  /\ \A d \in Docs :
       /\ StatusInv(d) /\ RowFirst(d) /\ TextsWereUploaded(d)
       /\ PursuitInv(d) /\ ExtractInv(d)

\* The inductive invariant holds before the first upload.
LEMMA InitIInv == Init => IInv
<1> SUFFICES ASSUME Init PROVE IInv
  OBVIOUS
<1>1. TypeOK
  BY InitType
<1>2. ASSUME NEW d \in Docs
      PROVE  /\ StatusInv(d) /\ RowFirst(d) /\ TextsWereUploaded(d)
             /\ PursuitInv(d) /\ ExtractInv(d)
  <2>1. /\ status[d] = "none" /\ extractedText[d] = NoText
        /\ normalizedJson[d] = NoText /\ booked[d] = {}
        /\ uploaded[d] = {} /\ object[d] = NoText
        /\ \A q \in Stages : job[q][d] = NoJob /\ run[q][d] = Idle
    BY DEF Init
  <2>2. NoText \notin Texts /\ ~Exists(NoJob)
    BY ExtractionAssumption, NoJobType
  <2>3. StatusInv(d)
    BY <2>1, StageNames
    DEF StatusInv, HandlerOwnsJob, ClaimIsOpen, TextIsThere, Idle
  <2>4. TextsWereUploaded(d)
    BY <2>1, StageNames DEF TextsWereUploaded, Idle
  <2>5. PursuitInv(d)
    BY <2>1, <2>2, StageNames
    DEF PursuitInv, PutOnce, NormalizedReaches, NormalizedOk, Idle
  <2>6. RowFirst(d)
    BY <2>1 DEF RowFirst
  <2>7. ExtractInv(d)
    BY <2>1, StageNames DEF ExtractInv, ExtractedReaches, Idle
  <2>8. QED
    BY <2>3, <2>4, <2>5, <2>6, <2>7
<1>3. QED
  BY <1>1, <1>2 DEF IInv

\* A step is one of some document: the lemmas above for it, Frame for the others.
LEMMA StepIInv == IInv /\ [Next]_vars => IInv'
<1> SUFFICES ASSUME IInv, [Next]_vars PROVE IInv'
  OBVIOUS
<1>1. TypeOK'
  BY StepType DEF IInv
<1>2. ASSUME NEW d \in Docs, NEW e \in Docs, DocNext(d)
      PROVE  (/\ StatusInv(e) /\ RowFirst(e) /\ TextsWereUploaded(e)
              /\ PursuitInv(e) /\ ExtractInv(e))'
  <2>1. CASE d = e
    <3>1. CreateUploadUrl(d) => uploaded[d] = {}
      BY DEF IInv, RowFirst, CreateUploadUrl
    <3>2. QED
      BY <1>2, <2>1, <3>1, StatusStep, RowStep, TextsStep, PursuitStep,
         ExtractedStep DEF IInv
  <2>2. CASE d # e
    <3>1. Same(e)
      BY <1>2, <2>2, Frame DEF IInv
    <3>2. StatusInv(e)'
      BY <3>1, StageNames
      DEF IInv, Same, StatusInv, HandlerOwnsJob, ClaimIsOpen, TextIsThere
    <3>3. TextsWereUploaded(e)'
      BY <3>1, StageNames DEF IInv, Same, TextsWereUploaded
    <3>4. PursuitInv(e)'
      BY <3>1, StageNames
      DEF IInv, Same, PursuitInv, PutOnce, NormalizedReaches, NormalizedOk
    <3>5. RowFirst(e)'
      BY <3>1 DEF IInv, Same, RowFirst
    <3>6. ExtractInv(e)'
      BY <3>1, StageNames DEF IInv, Same, ExtractInv, ExtractedReaches, WindowIsSafe
    <3>7. QED
      BY <3>2, <3>3, <3>4, <3>5, <3>6
  <2>3. QED
    BY <2>1, <2>2
<1>3. CASE Next
  BY <1>1, <1>2, <1>3 DEF Next, IInv
<1>4. CASE UNCHANGED vars
  BY <1>1, <1>4
  DEF vars, IInv, StatusInv, HandlerOwnsJob, ClaimIsOpen, TextIsThere,
      TextsWereUploaded, PursuitInv, PutOnce, NormalizedReaches, NormalizedOk,
      RowFirst, ExtractInv, ExtractedReaches, WindowIsSafe
<1>5. QED
  BY <1>3, <1>4

\* The inductive invariant from which the theorems below follow.
THEOREM Invariance == Spec => []IInv
<1>1. QED
  BY InitIInv, StepIInv, PTL DEF Spec

\* A PROCESSING row always has its doc_extract job, whatever throws or dies:
\* no document hangs in PROCESSING out of everybody's sight.
THEOREM ProcessingAlwaysOwned == Spec => []ProcessingIsOwned
<1>1. IInv => ProcessingIsOwned
  BY DEF IInv, StatusInv, ClaimIsOpen, ProcessingIsOwned
<1>2. QED
  BY <1>1, Invariance, PTL

\* A SUCCEEDED row always has a text, though two processors write SUCCEEDED and
\* the API resets the row at any time.
THEOREM SucceededAlwaysHasText == Spec => []SucceededHasText
<1>1. IInv => SucceededHasText
  BY DEF IInv, StatusInv, TextIsThere, SucceededHasText
<1>2. QED
  BY <1>1, Invariance, PTL

\* Only uploaded, readable texts with transactions are booked.
THEOREM BookedAlwaysUploaded == Spec => []BookedWasUploaded
<1>1. IInv => BookedWasUploaded
  BY DEF IInv, TextsWereUploaded, BookedWasUploaded
<1>2. QED
  BY <1>1, Invariance, PTL

\* Of a document whose object was put once, what normalize has parsed is either
\* booked or still has a job: crashes, retries and repeated completeUpload calls
\* at any place do not drop it.
THEOREM NormalizedAlwaysPursued == Spec => []NormalizedIsPursued
<1>1. IInv => NormalizedIsPursued
  BY DEF IInv, PursuitInv, NormalizedReaches, NormalizedIsPursued
<1>2. QED
  BY <1>1, Invariance, PTL

\* Where no fault falls between doc_extract's SUCCEEDED write and its add of the
\* normalize job, a text that was extracted and not yet normalized has a normalize
\* job, or still the doc_extract job: that window is the only way to lose one.
THEOREM ExtractedAlwaysPursued ==
  ASSUME WindowIsSafe
  PROVE  Spec => []ExtractedIsPursued
<1>1. IInv => ExtractedIsPursued
  BY StageNames
  DEF IInv, ExtractInv, ExtractedReaches, ExtractedIsPursued, StatusInv,
      HandlerOwnsJob, Exists
<1>2. QED
  BY <1>1, Invariance, PTL
-----------------------------------------------------------------------------
(* The refinement of DocumentLife.                                          *)

\* The stages come in their order: a document that is scheduled has its row and
\* an object, one that is worked on or has a text was scheduled, and what
\* tx_upsert writes was parsed.
InOrder(d) ==
  /\ status[d] # "none" => row[d] # "absent" /\ uploaded[d] # {}
  /\ Exists(job["doc_extract"][d]) => status[d] # "none"
  /\ extractedText[d] # NoText => status[d] # "none"
  /\ run["tx_upsert"][d].pc = "write" => normalizedJson[d] # NoText

\* What a completeUpload call has found out still holds.
RequestsInOrder(d) ==
  \A r \in Requests :
    /\ req[r][d] \in {"looking", "checked", "reset"} => row[d] # "absent"
    /\ req[r][d] = "checked" => uploaded[d] # {}
    /\ req[r][d] = "reset" => status[d] # "none"

\* What happens to a document but for its creation, uploads and completeUpload.
PipelineStep(d) == SoftDelete(d) \/ Worker(d) \/ Fault(d) \/ Admin(d)

\* The pipeline keeps the order.
LEMMA OrderStep ==
  ASSUME TypeOK, NEW d \in Docs, StatusInv(d), TextsWereUploaded(d), InOrder(d),
         PipelineStep(d)
  PROVE  InOrder(d)'
<1> USE StageNames DEF rowVars, extVars, bounds, InOrder
<1>t. /\ row \in [Docs -> {"absent", "live", "deleted"}]
      /\ status \in [Docs -> Status]
      /\ extractedText \in [Docs -> Texts \cup {NoText}]
      /\ normalizedJson \in [Docs -> Texts \cup {NoText}]
      /\ NoText \notin Texts
      /\ \A q \in Stages : job[q][d] \in Job
  BY ExtractionAssumption DEF TypeOK
<1>o. \A q \in Stages : run[q][d].pc # "idle" => Exists(job[q][d])
  BY DEF StatusInv, HandlerOwnsJob, Exists
<1>n. run["normalize"][d].pc = "write" =>
        run["normalize"][d].text # NoText /\ extractedText[d] # NoText
  BY DEF StatusInv, TextIsThere
<1>1. CASE SoftDelete(d)
  BY <1>1, <1>t DEF SoftDelete
<1>2. CASE ExtractStart(d)
  <2>1. PICK pc : Start("doc_extract", d, pc, NoText)
    BY <1>2 DEF ExtractStart
  <2>2. /\ Exists(job["doc_extract"][d])
        /\ \A q \in Stages : q # "doc_extract" => run'[q][d].pc = run[q][d].pc
    BY <2>1, StartAt, GoOnAt DEF Exists
  <2>3. UNCHANGED <<row, uploaded, status, extractedText, normalizedJson>>
    BY <1>2 DEF ExtractStart
  <2>4. QED
    BY <2>2, <2>3
<1>3. CASE ExtractClaim(d)
  BY <1>3, <1>t, <1>o, GoOnAt DEF ExtractClaim
<1>4. CASE ExtractLoad(d) \/ ExtractCatches(d)
  BY <1>4, GoOnAt DEF ExtractLoad, ExtractCatches
<1>5. CASE ExtractStore(d)
  BY <1>5, <1>t, <1>o, GoOnAt DEF ExtractStore
<1>6. ASSUME NEW p \in Stages, NEW q \in Stages \ {"doc_extract"}, EnqueueNext(p, q, d)
      PROVE  InOrder(d)'
  <2>1. job'["doc_extract"][d] = job["doc_extract"][d]
    BY <1>6, AddAt DEF EnqueueNext
  <2>2. run'["tx_upsert"][d].pc = "write" => run["tx_upsert"][d].pc = "write"
    BY <1>6, GoOnAt DEF EnqueueNext
  <2>3. UNCHANGED <<row, uploaded, status, extractedText, normalizedJson>>
    BY <1>6 DEF EnqueueNext
  <2>4. QED
    BY <2>1, <2>2, <2>3
<1>7. ASSUME NEW q \in Stages, Ack(q, d) \/ JobThrows(q, d) \/ WorkerDies(q, d)
      PROVE  InOrder(d)'
  <2>1. /\ run'[q][d].pc = "idle"
        /\ \A p \in Stages : p # q => run'[p][d] = run[p][d]
    BY <1>7, IdleAt DEF Ack, JobThrows, WorkerDies
  <2>2. run[q][d].pc # "idle"
    BY <1>7 DEF Ack, JobThrows, WorkerDies, MayFault
  <2>3. \A p \in Stages : p # q => job'[p][d] = job[p][d]
    BY <1>7, JobAt DEF Ack, JobThrows, WorkerDies
  <2>4. UNCHANGED <<row, uploaded, status, extractedText, normalizedJson>>
    BY <1>7 DEF Ack, JobThrows, WorkerDies
  <2>5. QED
    BY <1>o, <2>1, <2>2, <2>3, <2>4
<1>8. ASSUME NEW q \in Stages, RecoverStalled(q, d) \/ RetryJob(q, d) \/ ReadThrows(q, d)
      PROVE  InOrder(d)'
  <2>1. /\ Exists(job[q][d])
        /\ \A p \in Stages : p # q => job'[p][d] = job[p][d]
    BY <1>8, KeepAt DEF RecoverStalled, RetryJob, ReadThrows, Exists
  <2>2. UNCHANGED <<row, uploaded, status, extractedText, normalizedJson, run>>
    BY <1>8 DEF RecoverStalled, RetryJob, ReadThrows
  <2>3. QED
    BY <2>1, <2>2
<1>9. CASE NormalizeStart(d)
  BY <1>9, StartAt, GoOnAt DEF NormalizeStart
<1>10. CASE NormalizeNotReady(d)
  BY <1>10, KeepAt DEF NormalizeNotReady
<1>11. CASE NormalizeWrite(d)
  BY <1>11, <1>t, <1>n, GoOnAt DEF NormalizeWrite
<1>12. CASE TxUpsertStart(d)
  BY <1>12, <1>t, StartAt, GoOnAt DEF TxUpsertStart, NormalizedOk
<1>13. CASE TxUpsertWrite(d)
  BY <1>13, GoOnAt DEF TxUpsertWrite
<1>14. ASSUME NEW r \in Requests, CompleteFails(r, d) PROVE InOrder(d)'
  BY <1>14 DEF CompleteFails
<1>15. QED
  BY <1>1, <1>2, <1>3, <1>4, <1>5, <1>6, <1>7, <1>8, <1>9, <1>10, <1>11, <1>12,
     <1>13, <1>14
  DEF PipelineStep, Worker, ExtractStage, NormalizeStage, TxUpsertStage, Fault, Admin,
      EnqueueNormalize, EnqueueTxUpsert

\* Every step of the pipeline is one of the document's life, or none.
LEMMA LifeStep ==
  ASSUME TypeOK, NEW d \in Docs, StatusInv(d), TextsWereUploaded(d), InOrder(d),
         PipelineStep(d)
  PROVE  [Life!Next]_(Life!vars)
<1> USE StageNames DEF rowVars, extVars, bounds
<1>t. /\ status \in [Docs -> Status] /\ NoText \notin Texts
      /\ extractedText \in [Docs -> Texts \cup {NoText}]
  BY ExtractionAssumption DEF TypeOK
<1>o. run["doc_extract"][d].pc # "idle" => status[d] # "none"
  BY DEF StatusInv, HandlerOwnsJob, Exists, InOrder
<1>u. \A q \in Stages : run[q][d].text # NoText =>
        run[q][d].text \in uploaded[d] /\ readable[d]
  BY DEF TextsWereUploaded
<1>1. CASE ExtractClaim(d)
  <2>1. Life!Work(d)
    BY <1>1, <1>o DEF ExtractClaim, Life!Work
  <2>2. QED
    BY <2>1 DEF Life!Next
<1>2. CASE ExtractStore(d)
  <2> DEFINE t == run["doc_extract"][d].text
  <2>1. CASE t # NoText
    <3>1. Life!Extract(d)
      BY <1>2, <1>o, <1>u, <2>1 DEF ExtractStore, Life!Extract
    <3>2. QED
      BY <3>1 DEF Life!Next
  <2>2. CASE t = NoText
    <3>1. Life!Work(d)
      BY <1>2, <1>o, <2>2 DEF ExtractStore, Life!Work
    <3>2. QED
      BY <3>1 DEF Life!Next
  <2>3. QED
    BY <2>1, <2>2
<1>3. CASE NormalizeWrite(d)
  <2> DEFINE t == run["normalize"][d].text
  <2>1. t \in uploaded[d] /\ extractedText[d] # NoText
    BY <1>3, <1>u DEF NormalizeWrite, StatusInv, TextIsThere
  <2>2. /\ normalizedJson' = [normalizedJson EXCEPT ![d] = t]
        /\ status' = [status EXCEPT ![d] = IF t \in Blank THEN "FAILED" ELSE "SUCCEEDED"]
        /\ UNCHANGED <<readable, uploaded, extractedText, booked>>
    BY <1>3 DEF NormalizeWrite
  <2> HIDE DEF t
  <2>3. Life!Parse(d)
    BY <2>1, <2>2 DEF Life!Parse
  <2>4. QED
    BY <2>3 DEF Life!Next
<1>4. CASE TxUpsertWrite(d)
  <2> DEFINE t == run["tx_upsert"][d].text
  <2>1. /\ t \in uploaded[d] \ Blank /\ normalizedJson[d] # NoText
        /\ booked' = [booked EXCEPT ![d] = @ \cup {t}]
        /\ UNCHANGED <<readable, uploaded, status, extractedText, normalizedJson>>
    BY <1>4, <1>t, <1>u DEF TxUpsertWrite, InOrder, TextsWereUploaded
  <2> HIDE DEF t
  <2>2. Life!Book(d)
    BY <2>1 DEF Life!Book
  <2>3. QED
    BY <2>2 DEF Life!Next
<1>5. CASE UNCHANGED <<readable, uploaded, status, extractedText, normalizedJson, booked>>
  BY <1>5 DEF Life!vars
<1>6. QED
  BY <1>1, <1>2, <1>3, <1>4, <1>5
  DEF PipelineStep, SoftDelete, Worker, ExtractStage, NormalizeStage, TxUpsertStage,
      Fault, Admin, ExtractStart, ExtractLoad, ExtractCatches, EnqueueNormalize,
      EnqueueTxUpsert, EnqueueNext, Ack, RecoverStalled, NormalizeStart,
      NormalizeNotReady, TxUpsertStart, CompleteFails, ReadThrows, JobThrows,
      WorkerDies, RetryJob

LInv == IInv /\ \A d \in Docs : InOrder(d) /\ RequestsInOrder(d)

\* A client's or a request's step keeps the order, too, and is a step of life.
LEMMA RequestStep ==
  ASSUME IInv, NEW d \in Docs, InOrder(d), RequestsInOrder(d),
         Client(d) \/ \E r \in Requests : Api(r, d)
  PROVE  InOrder(d)' /\ RequestsInOrder(d)' /\ [Life!Next]_(Life!vars)
<1> USE StageNames DEF rowVars, extVars, bounds, InOrder, RequestsInOrder
<1>t. /\ TypeOK
      /\ row \in [Docs -> {"absent", "live", "deleted"}]
      /\ uploaded \in [Docs -> SUBSET Texts]
      /\ status \in [Docs -> Status]
      /\ req \in [Requests -> [Docs -> {"idle", "looking", "checked", "reset"}]]
      /\ uploaded[d] # {} => row[d] # "absent"
      /\ object[d] # NoText => uploaded[d] # {}
  BY DEF IInv, TypeOK, RowFirst, TextsWereUploaded
<1>1. CASE CreateUploadUrl(d)
  <2>1. InOrder(d)' /\ RequestsInOrder(d)'
    BY <1>1, <1>t DEF CreateUploadUrl
  <2>2. Life!Settle(d)
    BY <1>1 DEF CreateUploadUrl, Life!Settle
  <2>3. QED
    BY <2>1, <2>2 DEF Life!Next
<1>2. ASSUME NEW t \in Texts, PutObject(d, t)
      PROVE  InOrder(d)' /\ RequestsInOrder(d)' /\ [Life!Next]_(Life!vars)
  <2>1. InOrder(d)' /\ RequestsInOrder(d)'
    BY <1>2, <1>t DEF PutObject
  <2>2. Life!Upload(d)
    BY <1>2 DEF PutObject, Life!Upload
  <2>3. QED
    BY <2>1, <2>2 DEF Life!Next
<1>3. CASE SoftDelete(d)
  BY <1>3, <1>t DEF SoftDelete, Life!vars
<1>4. ASSUME NEW r \in Requests, BeginComplete(r, d)
      PROVE  InOrder(d)' /\ RequestsInOrder(d)' /\ [Life!Next]_(Life!vars)
  BY <1>4, <1>t DEF BeginComplete, Life!vars
<1>5. ASSUME NEW r \in Requests, CheckObject(r, d)
      PROVE  InOrder(d)' /\ RequestsInOrder(d)' /\ [Life!Next]_(Life!vars)
  BY <1>5, <1>t DEF CheckObject, Life!vars
<1>6. ASSUME NEW r \in Requests, ResetExtraction(r, d)
      PROVE  InOrder(d)' /\ RequestsInOrder(d)' /\ [Life!Next]_(Life!vars)
  <2>1. InOrder(d)' /\ RequestsInOrder(d)'
    BY <1>6, <1>t DEF ResetExtraction
  <2>2. Life!Schedule(d)
    BY <1>6 DEF ResetExtraction, Life!Schedule
  <2>3. QED
    BY <2>1, <2>2 DEF Life!Next
<1>7. ASSUME NEW r \in Requests, EnqueueExtract(r, d)
      PROVE  InOrder(d)' /\ RequestsInOrder(d)' /\ [Life!Next]_(Life!vars)
  BY <1>7, <1>t DEF EnqueueExtract, Life!vars
<1>8. QED
  BY <1>1, <1>2, <1>3, <1>4, <1>5, <1>6, <1>7 DEF Client, Api

\* The pipeline takes nothing away that a request has found out.
LEMMA RequestsKept ==
  ASSUME TypeOK, NEW d \in Docs, StatusInv(d), InOrder(d), RequestsInOrder(d),
         PipelineStep(d)
  PROVE  RequestsInOrder(d)'
<1> USE StageNames DEF rowVars, extVars, bounds, RequestsInOrder
<1>t. /\ row \in [Docs -> {"absent", "live", "deleted"}]
      /\ status \in [Docs -> Status]
      /\ req \in [Requests -> [Docs -> {"idle", "looking", "checked", "reset"}]]
  BY DEF TypeOK
<1>1. CASE SoftDelete(d)
  BY <1>1, <1>t DEF SoftDelete
<1>2. ASSUME NEW r \in Requests, CompleteFails(r, d) PROVE RequestsInOrder(d)'
  BY <1>2, <1>t DEF CompleteFails
<1>3. CASE ExtractClaim(d) \/ ExtractStore(d) \/ NormalizeWrite(d)
  BY <1>3, <1>t DEF ExtractClaim, ExtractStore, NormalizeWrite
<1>4. CASE UNCHANGED <<row, uploaded, status, req>>
  BY <1>4
<1>5. QED
  BY <1>1, <1>2, <1>3, <1>4
  DEF PipelineStep, Worker, ExtractStage, NormalizeStage, TxUpsertStage,
      Fault, Admin, ExtractStart, ExtractLoad, ExtractCatches, EnqueueNormalize,
      EnqueueTxUpsert, EnqueueNext, Ack, RecoverStalled, NormalizeStart,
      NormalizeNotReady, TxUpsertStart, TxUpsertWrite, ReadThrows, JobThrows,
      WorkerDies, RetryJob

\* A step of document d leaves the requests of another document alone.
LEMMA RequestFrame ==
  ASSUME TypeOK, NEW d \in Docs, NEW e \in Docs, d # e, DocNext(d)
  PROVE  \A r \in Requests : req'[r][e] = req[r][e]
<1>1. ASSUME NEW q \in Requests,
             \/ BeginComplete(q, d) \/ CheckObject(q, d) \/ ResetExtraction(q, d)
             \/ EnqueueExtract(q, d) \/ CompleteFails(q, d)
      PROVE  \A r \in Requests : req'[r][e] = req[r][e]
  <2>1. \E v : req' = [req EXCEPT ![q][d] = v]
    BY <1>1 DEF BeginComplete, CheckObject, ResetExtraction, EnqueueExtract,
                CompleteFails
  <2>2. req \in [Requests -> [Docs -> {"idle", "looking", "checked", "reset"}]]
    BY DEF TypeOK
  <2>3. QED
    BY <2>1, <2>2
<1>2. CASE UNCHANGED req
  BY <1>2
<1>3. QED
  BY <1>1, <1>2
  DEF DocNext, Client, Api, Worker, ExtractStage, NormalizeStage, TxUpsertStage,
      Fault, Admin, CreateUploadUrl, PutObject, SoftDelete, ExtractStart,
      ExtractClaim, ExtractLoad, ExtractCatches, ExtractStore, EnqueueNormalize,
      EnqueueTxUpsert, EnqueueNext, Ack, RecoverStalled, NormalizeStart,
      NormalizeNotReady, NormalizeWrite, TxUpsertStart, TxUpsertWrite, ReadThrows,
      JobThrows, WorkerDies, RetryJob

\* No document has begun.
LEMMA InitLInv == Init => LInv
<1> SUFFICES ASSUME Init PROVE LInv
  OBVIOUS
<1>1. IInv
  BY InitIInv
<1>2. ASSUME NEW d \in Docs PROVE InOrder(d) /\ RequestsInOrder(d)
  <2>1. /\ status[d] = "none" /\ extractedText[d] = NoText
        /\ \A q \in Stages : job[q][d] = NoJob /\ run[q][d] = Idle
        /\ \A r \in Requests : req[r][d] = "idle"
    BY DEF Init
  <2>2. QED
    BY <2>1, StageNames, NoJobType DEF InOrder, RequestsInOrder, Idle
<1>3. QED
  BY <1>1, <1>2 DEF LInv

\* Every step keeps the order of every document.
LEMMA StepLInv == LInv /\ [Next]_vars => LInv' /\ [Life!Next]_(Life!vars)
<1> SUFFICES ASSUME LInv, [Next]_vars PROVE LInv' /\ [Life!Next]_(Life!vars)
  OBVIOUS
<1>1. IInv' /\ TypeOK
  BY StepIInv DEF LInv, IInv
<1>2. ASSUME NEW d \in Docs, DocNext(d)
      PROVE  InOrder(d)' /\ RequestsInOrder(d)' /\ [Life!Next]_(Life!vars)
  <2>1. IInv /\ StatusInv(d) /\ TextsWereUploaded(d) /\ InOrder(d) /\ RequestsInOrder(d)
    BY DEF LInv, IInv
  <2>2. CASE PipelineStep(d)
    BY <1>1, <2>1, <2>2, OrderStep, LifeStep, RequestsKept
  <2>3. CASE Client(d) \/ \E r \in Requests : Api(r, d)
    BY <2>1, <2>3, RequestStep
  <2>4. QED
    BY <1>2, <2>2, <2>3 DEF DocNext, PipelineStep
<1>3. ASSUME NEW d \in Docs, NEW e \in Docs, d # e, DocNext(d)
      PROVE  InOrder(e)' /\ RequestsInOrder(e)'
  <2>1. Same(e) /\ \A r \in Requests : req'[r][e] = req[r][e]
    BY <1>1, <1>3, Frame, RequestFrame
  <2>2. QED
    BY <2>1, StageNames DEF LInv, Same, InOrder, RequestsInOrder
<1>4. CASE UNCHANGED vars
  BY <1>1, <1>4 DEF LInv, vars, InOrder, RequestsInOrder, Life!vars
<1>5. CASE Next
  <2>1. PICK d \in Docs : DocNext(d)
    BY <1>5 DEF Next
  <2>2. \A e \in Docs : InOrder(e)' /\ RequestsInOrder(e)'
    BY <1>2, <1>3, <2>1
  <2>3. QED
    BY <1>1, <1>2, <2>1, <2>2 DEF LInv
<1>6. QED
  BY <1>4, <1>5

\* The stages, the API and their retries together do to every document what
\* DocumentLife allows, one step after the other, also with objects that change.
THEOREM LifeImplemented == Spec => ImplementsLife
<1>1. Init => Life!Init
  BY DEF Init, Life!Init
<1>2. LInv /\ [Next]_vars => LInv' /\ [Life!Next]_(Life!vars)
  BY StepLInv
<1>3. QED
  BY <1>1, <1>2, InitLInv, PTL DEF Spec, ImplementsLife, Life!Spec
=============================================================================
