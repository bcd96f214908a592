----------------------------- MODULE Extraction -----------------------------
(***************************************************************************)
(* From an uploaded document to its booked transactions: the documents API *)
(* (apps/api/src/modules/documents) and the worker stages doc_extract,     *)
(* normalize and tx_upsert (apps/worker/src), joined by BullMQ jobs with   *)
(* one fixed job id per document and stage.                                *)
(*                                                                         *)
(* Every await between two effects ends a step: a processor's database     *)
(* read, its database write, the add to the next queue and the completion  *)
(* of its own job are separate actions, and the API's requests, the other  *)
(* stages and a dying worker may act between any two of them.              *)
(*                                                                         *)
(* Abstractions.  The bytes of an object, the text extracted from it and   *)
(* the transactions parsed from that text are one value of Texts; a text   *)
(* in Blank is one in which normalize finds no transaction.  tx_upsert's   *)
(* loop over the transactions is one step here (Ledger has the loop).  No  *)
(* worker slot is modelled: any number of jobs run, at most one per job    *)
(* id, which covers every number of worker processes.                      *)
(***************************************************************************)
EXTENDS JobQueue

CONSTANTS
  Docs,         \* document ids
  Texts,        \* object contents
  Blank,        \* the contents without a recognisable transaction
  NoText,       \* a null column, a missing object, a failed read
  Requests,     \* simultaneous POST /documents/:id/complete calls per document
  FaultPoints,  \* <<queue, pc>>: where a worker may throw or die
  MaxFaults,    \* bound: faults per behaviour
  MaxCompletes, \* bound: completeUpload calls per document
  Reput         \* may a client use its presigned PUT URL again?

ASSUME ExtractionAssumption ==
  /\ Blank \subseteq Texts
  /\ NoText \notin Texts
  /\ MaxFaults \in Nat
  /\ MaxCompletes \in Nat
  /\ Reput \in BOOLEAN

VARIABLES
  row,            \* documents: "absent", "live", or "deleted" (deletedAt set)
  readable,       \* mimeType is text/* or a PDF that pdf-parse can read
  object,         \* the object store, under the document's storageKey
  uploaded,       \* history: every content the object has had
  status,         \* extractions.status; "none": no extraction row yet
  extractedText,  \* extractions.extractedText
  normalizedJson, \* extractions.normalizedJson, as the text it was made from
  booked,         \* the texts whose transactions tx_upsert has written
  job,            \* the three queues: job[q][d]
  run,            \* the processor that holds job <<q, d>>: its step and data
  req,            \* completeUpload calls in progress, and their step
  completes,      \* completeUpload calls so far
  faults          \* faults so far

vars == <<row, readable, object, uploaded, status, extractedText,
          normalizedJson, booked, job, run, req, completes, faults>>

rowVars   == <<row, readable, object, uploaded>>
extVars   == <<status, extractedText, normalizedJson>>
bounds    == <<completes, faults>>
-----------------------------------------------------------------------------
Stages == {"doc_extract", "normalize", "tx_upsert"}

Status == {"none", "PENDING", "PROCESSING", "SUCCEEDED", "FAILED"}

\* Steps of a processor: claim the row, load the object, store the result or
\* write the rows, enqueue the next stage, acknowledge (complete) the job.
Pc == {"idle", "claim", "load", "store", "write", "enqueue", "ack"}

Handler == [pc: Pc, text: Texts \cup {NoText}]

Idle == [pc |-> "idle", text |-> NoText]

\* Type invariant: every column, job, handler and request stays within its
\* type.  In particular no job has more attempts or stalls than BullMQ allows.
TypeOK ==
  /\ row \in [Docs -> {"absent", "live", "deleted"}]
  /\ readable \in [Docs -> BOOLEAN]
  /\ object \in [Docs -> Texts \cup {NoText}]
  /\ uploaded \in [Docs -> SUBSET Texts]
  /\ status \in [Docs -> Status]
  /\ extractedText \in [Docs -> Texts \cup {NoText}]
  /\ normalizedJson \in [Docs -> Texts \cup {NoText}]
  /\ booked \in [Docs -> SUBSET (Texts \cup {NoText})]
  /\ job \in [Stages -> [Docs -> Job]]
  /\ run \in [Stages -> [Docs -> Handler]]
  /\ req \in [Requests -> [Docs -> {"idle", "looking", "checked", "reset"}]]
  /\ completes \in [Docs -> 0..MaxCompletes]
  /\ faults \in 0..MaxFaults

Init ==
  /\ row = [d \in Docs |-> "absent"]
  /\ readable = [d \in Docs |-> FALSE]
  /\ object = [d \in Docs |-> NoText]
  /\ uploaded = [d \in Docs |-> {}]
  /\ status = [d \in Docs |-> "none"]
  /\ extractedText = [d \in Docs |-> NoText]
  /\ normalizedJson = [d \in Docs |-> NoText]
  /\ booked = [d \in Docs |-> {}]
  /\ job = [q \in Stages |-> [d \in Docs |-> NoJob]]
  /\ run = [q \in Stages |-> [d \in Docs |-> Idle]]
  /\ req = [r \in Requests |-> [d \in Docs |-> "idle"]]
  /\ completes = [d \in Docs |-> 0]
  /\ faults = 0
-----------------------------------------------------------------------------
(* The documents API and its client. *)

\* POST /documents/upload-url: the row, and a presigned PUT URL for the client.
CreateUploadUrl(d) ==
  /\ row[d] = "absent"
  /\ row' = [row EXCEPT ![d] = "live"]
  /\ \E m \in BOOLEAN : readable' = [readable EXCEPT ![d] = m]
  /\ UNCHANGED <<object, uploaded, extVars, booked, job, run, req, bounds>>

\* The client PUTs to the presigned URL.  Putting a content the object has had
\* before is not modelled (bound: each content once).
PutObject(d, t) ==
  /\ row[d] # "absent"
  /\ t \notin uploaded[d]
  /\ uploaded[d] = {} \/ Reput
  /\ object' = [object EXCEPT ![d] = t]
  /\ uploaded' = [uploaded EXCEPT ![d] = @ \cup {t}]
  /\ UNCHANGED <<row, readable, extVars, booked, job, run, req, bounds>>

\* DELETE /documents/:id: sets deletedAt and nothing else.
SoftDelete(d) ==
  /\ row[d] = "live"
  /\ row' = [row EXCEPT ![d] = "deleted"]
  /\ UNCHANGED <<readable, object, uploaded, extVars, booked, job, run, req,
                 bounds>>

\* completeUpload finds the row; a deleted one is answered with 404.
BeginComplete(r, d) ==
  /\ req[r][d] = "idle"
  /\ completes[d] < MaxCompletes
  /\ row[d] = "live"
  /\ req' = [req EXCEPT ![r][d] = "looking"]
  /\ completes' = [completes EXCEPT ![d] = @ + 1]
  /\ UNCHANGED <<rowVars, extVars, booked, job, run, faults>>

\* completeUpload's last look for the object, up to six seconds later; without
\* one the request ends with 400 and nothing has changed.
CheckObject(r, d) ==
  /\ req[r][d] = "looking"
  /\ req' = [req EXCEPT ![r][d] = IF object[d] = NoText THEN "idle"
                                                       ELSE "checked"]
  /\ UNCHANGED <<rowVars, extVars, booked, job, run, bounds>>

\* Mutant: the reset also clears the text of the earlier result.
ResetClears(r, d) ==
  /\ req[r][d] = "checked"
  /\ status' = [status EXCEPT ![d] = "PENDING"]
  /\ extractedText' = [extractedText EXCEPT ![d] = NoText]
  /\ req' = [req EXCEPT ![r][d] = "reset"]
  /\ UNCHANGED <<rowVars, normalizedJson, booked, job, run, bounds>>

\* completeUpload's upsert: the columns of an earlier result stay.
ResetExtraction(r, d) ==
  /\ req[r][d] = "checked"
  /\ status' = [status EXCEPT ![d] = "PENDING"]
  /\ req' = [req EXCEPT ![r][d] = "reset"]
  /\ UNCHANGED <<rowVars, extractedText, normalizedJson, booked, job, run,
                 bounds>>

\* completeUpload's add; the request answers.
EnqueueExtract(r, d) ==
  /\ req[r][d] = "reset"
  /\ job' = [job EXCEPT !["doc_extract"][d] = Add(@)]
  /\ req' = [req EXCEPT ![r][d] = "idle"]
  /\ UNCHANGED <<rowVars, extVars, booked, run, bounds>>

\* The API process dies, or the database or Redis refuses: the client sees an
\* error (or nothing) and the extraction row may be left PENDING.
CompleteFails(r, d) ==
  /\ req[r][d] # "idle"
  /\ <<"api", req[r][d]>> \in FaultPoints
  /\ faults < MaxFaults
  /\ req' = [req EXCEPT ![r][d] = "idle"]
  /\ faults' = faults + 1
  /\ UNCHANGED <<rowVars, extVars, booked, job, run, completes>>
-----------------------------------------------------------------------------
(* What every worker does with its job. *)

\* The handler of <<q, d>> goes on with step pc, holding text t.
GoOn(q, d, pc, t) == run' = [run EXCEPT ![q][d] = [pc |-> pc, text |-> t]]

\* A worker takes the job and the handler starts with step pc and text t.
Start(q, d, pc, t) ==
  /\ job[q][d].state = "waiting"
  /\ job' = [job EXCEPT ![q][d] = Take(@)]
  /\ GoOn(q, d, pc, t)

\* The add of the job of stage q, which ends the handler of stage p.
EnqueueNext(p, q, d) ==
  /\ run[p][d].pc = "enqueue"
  /\ job' = [job EXCEPT ![q][d] = Add(@)]
  /\ GoOn(p, d, "ack", NoText)
  /\ UNCHANGED <<rowVars, extVars, booked, req, bounds>>

\* The handler returned: the job is completed, hence removed.
Ack(q, d) ==
  /\ run[q][d].pc = "ack"
  /\ job' = [job EXCEPT ![q][d] = NoJob]
  /\ run' = [run EXCEPT ![q][d] = Idle]
  /\ UNCHANGED <<rowVars, extVars, booked, req, bounds>>

\* A worker's fault may happen where <<q, d>> is.
MayFault(q, d) ==
  /\ run[q][d].pc # "idle"
  /\ <<q, run[q][d].pc>> \in FaultPoints
  /\ faults < MaxFaults
  /\ faults' = faults + 1

\* The database or Redis refuses and the handler throws.
JobThrows(q, d) ==
  /\ run[q][d].pc # "ack"
  /\ MayFault(q, d)
  /\ job' = [job EXCEPT ![q][d] = Fail(@)]
  /\ run' = [run EXCEPT ![q][d] = Idle]
  /\ UNCHANGED <<rowVars, extVars, booked, req, completes>>

\* The handler's first read throws, whatever it would have found.
ReadThrows(q, d) ==
  /\ job[q][d].state = "waiting"
  /\ <<q, "read">> \in FaultPoints
  /\ faults < MaxFaults
  /\ faults' = faults + 1
  /\ job' = [job EXCEPT ![q][d] = Fail(@)]
  /\ UNCHANGED <<rowVars, extVars, booked, run, req, completes>>

\* The worker process dies; the job stays active until the stalled check.
WorkerDies(q, d) ==
  /\ MayFault(q, d)
  /\ run' = [run EXCEPT ![q][d] = Idle]
  /\ UNCHANGED <<rowVars, extVars, booked, job, req, completes>>

\* BullMQ's stalled check finds an active job whose worker is gone.
RecoverStalled(q, d) ==
  /\ job[q][d].state = "active"
  /\ run[q][d].pc = "idle"
  /\ job' = [job EXCEPT ![q][d] = Stall(@)]
  /\ UNCHANGED <<rowVars, extVars, booked, run, req, bounds>>

\* POST /admin/jobs/:queue/:jobId/retry.
RetryJob(q, d) ==
  /\ job[q][d].state = "failed"
  /\ job' = [job EXCEPT ![q][d] = Requeue(@)]
  /\ UNCHANGED <<rowVars, extVars, booked, run, req, bounds>>
-----------------------------------------------------------------------------
(* doc_extract *)

\* Mutant: a row somebody has begun is left alone, too.
ExtractStartOnce(d) ==
  /\ Start("doc_extract", d,
           IF status[d] \in {"PROCESSING", "SUCCEEDED"} THEN "ack" ELSE "claim",
           NoText)
  /\ UNCHANGED <<rowVars, extVars, booked, req, bounds>>

\* processDocExtract reads the row; a finished extraction is left alone.
ExtractStart(d) ==
  /\ Start("doc_extract", d,
           IF status[d] = "SUCCEEDED" THEN "ack" ELSE "claim", NoText)
  /\ UNCHANGED <<rowVars, extVars, booked, req, bounds>>

ExtractClaim(d) ==
  /\ run["doc_extract"][d].pc = "claim"
  /\ status' = [status EXCEPT ![d] = "PROCESSING"]
  /\ GoOn("doc_extract", d, "load", NoText)
  /\ UNCHANGED <<rowVars, extractedText, normalizedJson, booked, job, req,
                 bounds>>

\* Mutant: without a text the processor returns.
ExtractLoadReturns(d) ==
  LET text == IF row[d] = "live" /\ readable[d] THEN object[d] ELSE NoText IN
  /\ run["doc_extract"][d].pc = "load"
  /\ GoOn("doc_extract", d, IF text = NoText THEN "ack" ELSE "store", text)
  /\ UNCHANGED <<rowVars, extVars, booked, job, req, bounds>>

\* Mutant: every type is decoded as text.
ExtractLoadAny(d) ==
  /\ run["doc_extract"][d].pc = "load"
  /\ GoOn("doc_extract", d, "store",
          IF row[d] = "live" THEN object[d] ELSE NoText)
  /\ UNCHANGED <<rowVars, extVars, booked, job, req, bounds>>

\* Document row, object, text.  A deleted document and a type that is not read
\* leave no text, and the next step records a failure.
ExtractLoad(d) ==
  /\ run["doc_extract"][d].pc = "load"
  /\ GoOn("doc_extract", d, "store",
          IF row[d] = "live" /\ readable[d] THEN object[d] ELSE NoText)
  /\ UNCHANGED <<rowVars, extVars, booked, job, req, bounds>>

\* The storage or the database refuses inside the try block: the catch block
\* goes on to record a failure.
ExtractCatches(d) ==
  /\ run["doc_extract"][d].pc \in {"load", "store"}
  /\ MayFault("doc_extract", d)
  /\ GoOn("doc_extract", d, "store", NoText)
  /\ UNCHANGED <<rowVars, extVars, booked, job, req, completes>>

\* Mutant: a text is stored and its normalize job is not added.
ExtractStoreEnds(d) ==
  LET text == run["doc_extract"][d].text IN
  /\ run["doc_extract"][d].pc = "store"
  /\ status' = [status EXCEPT ![d] = IF text = NoText THEN "FAILED"
                                                     ELSE "SUCCEEDED"]
  /\ extractedText' = [extractedText EXCEPT ![d] =
                         IF text = NoText THEN @ ELSE text]
  /\ GoOn("doc_extract", d, "ack", NoText)
  /\ UNCHANGED <<rowVars, normalizedJson, booked, job, req, bounds>>

\* Mutant: a failure is stored with its empty text.
ExtractStoreClears(d) ==
  LET text == run["doc_extract"][d].text IN
  /\ run["doc_extract"][d].pc = "store"
  /\ status' = [status EXCEPT ![d] = IF text = NoText THEN "FAILED"
                                                     ELSE "SUCCEEDED"]
  /\ extractedText' = [extractedText EXCEPT ![d] = text]
  /\ GoOn("doc_extract", d, IF text = NoText THEN "ack" ELSE "enqueue", NoText)
  /\ UNCHANGED <<rowVars, normalizedJson, booked, job, req, bounds>>

\* One update: SUCCEEDED with the text, or FAILED beside the earlier text.  Only
\* a success adds a normalize job.
ExtractStore(d) ==
  LET text == run["doc_extract"][d].text IN
  /\ run["doc_extract"][d].pc = "store"
  /\ \/ /\ text # NoText
        /\ status' = [status EXCEPT ![d] = "SUCCEEDED"]
        /\ extractedText' = [extractedText EXCEPT ![d] = text]
        /\ GoOn("doc_extract", d, "enqueue", NoText)
     \/ /\ text = NoText
        /\ status' = [status EXCEPT ![d] = "FAILED"]
        /\ GoOn("doc_extract", d, "ack", NoText)
        /\ UNCHANGED extractedText
  /\ UNCHANGED <<rowVars, normalizedJson, booked, job, req, bounds>>

EnqueueNormalize(d) == EnqueueNext("doc_extract", "normalize", d)
-----------------------------------------------------------------------------
(* normalize *)

\* Mutant: a text that is normalized already is left alone.
NormalizeStartOnce(d) ==
  /\ status[d] = "SUCCEEDED"
  /\ Start("normalize", d,
           IF normalizedJson[d] = extractedText[d] THEN "ack" ELSE "write",
           extractedText[d])
  /\ UNCHANGED <<rowVars, extVars, booked, req, bounds>>

\* processNormalize reads the row: it parses the text of a finished extraction
\* and throws "Extraction not ready" for any other.
NormalizeStart(d) ==
  /\ status[d] = "SUCCEEDED"
  /\ Start("normalize", d, "write", extractedText[d])
  /\ UNCHANGED <<rowVars, extVars, booked, req, bounds>>

NormalizeNotReady(d) ==
  /\ job["normalize"][d].state = "waiting"
  /\ status[d] # "SUCCEEDED"
  /\ job' = [job EXCEPT !["normalize"][d] = Fail(@)]
  /\ UNCHANGED <<rowVars, extVars, booked, run, req, bounds>>

\* Both updates are by id alone: they overwrite whatever status is there.
NormalizeWrite(d) ==
  LET text == run["normalize"][d].text IN
  /\ run["normalize"][d].pc = "write"
  /\ normalizedJson' = [normalizedJson EXCEPT ![d] = text]
  /\ \/ /\ text \in Blank
        /\ status' = [status EXCEPT ![d] = "FAILED"]
        /\ GoOn("normalize", d, "ack", NoText)
     \/ /\ text \notin Blank
        /\ status' = [status EXCEPT ![d] = "SUCCEEDED"]
        /\ GoOn("normalize", d, "enqueue", NoText)
  /\ UNCHANGED <<rowVars, extractedText, booked, job, req, bounds>>

EnqueueTxUpsert(d) == EnqueueNext("normalize", "tx_upsert", d)
-----------------------------------------------------------------------------
(* tx_upsert *)

\* normalizedJson.ok
NormalizedOk(d) == normalizedJson[d] \in Texts \ Blank

TxUpsertStart(d) ==
  /\ \/ NormalizedOk(d) /\ Start("tx_upsert", d, "write", normalizedJson[d])
     \/ ~NormalizedOk(d) /\ Start("tx_upsert", d, "ack", NoText)
  /\ UNCHANGED <<rowVars, extVars, booked, req, bounds>>

TxUpsertWrite(d) ==
  /\ run["tx_upsert"][d].pc = "write"
  /\ booked' = [booked EXCEPT ![d] = @ \cup {run["tx_upsert"][d].text}]
  /\ GoOn("tx_upsert", d, "ack", NoText)
  /\ UNCHANGED <<rowVars, extVars, job, req, bounds>>
-----------------------------------------------------------------------------
Client(d) ==
  \/ CreateUploadUrl(d)
  \/ \E t \in Texts : PutObject(d, t)
  \/ SoftDelete(d)
  \/ \E r \in Requests : BeginComplete(r, d)

Api(r, d) ==
  CheckObject(r, d) \/ ResetExtraction(r, d) \/ EnqueueExtract(r, d)

ExtractStage(d) ==
  \/ ExtractStart(d) \/ ExtractClaim(d) \/ ExtractLoad(d) \/ ExtractStore(d)
  \/ EnqueueNormalize(d)
  \/ Ack("doc_extract", d) \/ RecoverStalled("doc_extract", d)

NormalizeStage(d) ==
  \/ NormalizeStart(d) \/ NormalizeNotReady(d) \/ NormalizeWrite(d)
  \/ EnqueueTxUpsert(d)
  \/ Ack("normalize", d) \/ RecoverStalled("normalize", d)

TxUpsertStage(d) ==
  \/ TxUpsertStart(d) \/ TxUpsertWrite(d)
  \/ Ack("tx_upsert", d) \/ RecoverStalled("tx_upsert", d)

Worker(d) == ExtractStage(d) \/ NormalizeStage(d) \/ TxUpsertStage(d)

Fault(d) ==
  \/ \E r \in Requests : CompleteFails(r, d)
  \/ \E q \in Stages : ReadThrows(q, d) \/ JobThrows(q, d) \/ WorkerDies(q, d)
  \/ ExtractCatches(d)

Admin(d) == \E q \in Stages : RetryJob(q, d)

DocNext(d) ==
  \/ Client(d)
  \/ \E r \in Requests : Api(r, d)
  \/ Worker(d)
  \/ Fault(d)
  \/ Admin(d)

Next == \E d \in Docs : DocNext(d)

Spec == Init /\ [][Next]_vars

\* The event loop goes on with a request it has begun, and a running worker
\* takes every job of its queues and finds the stalled ones.  Nobody has to
\* upload, delete, complete or retry, and no fault has to happen.
Fairness ==
  \A d \in Docs :
    /\ \A r \in Requests : WF_vars(Api(r, d))
    /\ WF_vars(ExtractStage(d))
    /\ WF_vars(NormalizeStage(d))
    /\ WF_vars(TxUpsertStage(d))

LiveSpec == Spec /\ Fairness
-----------------------------------------------------------------------------
(* Safety *)

\* A row is PROCESSING only while its doc_extract job is there: waiting for
\* another attempt, running, stalled, or parked where an administrator sees it.
\* A processor that left the row behind in PROCESSING would never be noticed.
\* (doc-extract.processor.ts claims the row before the try block and must
\* overwrite the claim on every way out that completes the job.)
ProcessingIsOwned ==
  \A d \in Docs : status[d] = "PROCESSING" => Exists(job["doc_extract"][d])

\* A SUCCEEDED extraction has a text, whoever wrote the status last: normalize
\* writes SUCCEEDED too, and an API call may reset the row at any moment.
SucceededHasText ==
  \A d \in Docs : status[d] = "SUCCEEDED" => extractedText[d] # NoText

\* The client has used its presigned URL for one content at most.
PutOnce(d) == \A s, t \in uploaded[d] : s = t

\* What normalize has parsed is not dropped on the way to the ledger: as long
\* as it is not booked, a normalize or tx_upsert job of the document is there,
\* if only as a failed job.  (An object that changed while the document was
\* worked on may leave a text whose tx_upsert add met the job of another one.)
NormalizedIsPursued ==
  \A d \in Docs :
    PutOnce(d) /\ NormalizedOk(d) /\ normalizedJson[d] \notin booked[d] =>
      Exists(job["normalize"][d]) \/ Exists(job["tx_upsert"][d])

\* Only what the client uploaded to a readable document, and what has
\* transactions in it, is ever booked.
BookedWasUploaded ==
  \A d \in Docs :
    /\ booked[d] \subseteq uploaded[d] \ Blank
    /\ booked[d] # {} => readable[d]

\* The same promise one stage earlier: an extraction that succeeded and was
\* never normalized has a job that will normalize it, or still has the
\* doc_extract job, whose present or next run may add that one.
ExtractedIsPursued ==
  \A d \in Docs :
    status[d] = "SUCCEEDED" /\ normalizedJson[d] = NoText =>
      Exists(job["normalize"][d]) \/ Exists(job["doc_extract"][d])

\* A row that completeUpload has reset to PENDING has a doc_extract job, once
\* no completeUpload call is about to add it.
PendingIsScheduled ==
  \A d \in Docs :
    /\ status[d] = "PENDING"
    /\ \A r \in Requests : req[r][d] # "reset"
    => Exists(job["doc_extract"][d])
-----------------------------------------------------------------------------
(* The refinement. *)

Life == INSTANCE DocumentLife

\* Three stages, an API and their retries, each with rows and texts in memory that
\* may be out of date, do to a document's columns no more than one step after the
\* other: no interleaving takes a text back, lets a stage run before the one
\* it needs, or carries a text over from where it was not uploaded.
ImplementsLife == Life!Spec
-----------------------------------------------------------------------------
(* Liveness *)

\* Recorded as failed or as without transactions, booked, or parked as a failed
\* job where an administrator sees it.
Resolved(d) ==
  \/ status[d] = "FAILED"
  \/ normalizedJson[d] \in Blank
  \/ booked[d] # {}
  \/ \E q \in Stages : job[q][d].state = "failed"

\* Every document whose extraction waits to be run reaches such an end, whatever
\* other calls reset its row or delete it meanwhile.
ScheduledIsResolved ==
  \A d \in Docs : job["doc_extract"][d].state = "waiting" ~> Resolved(d)
=============================================================================
