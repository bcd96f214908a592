---------------------------- MODULE EmailIngest ----------------------------
(***************************************************************************)
(* From a mailbox to booked transactions: the email integrations API       *)
(* (apps/api/src/modules/integrations/email) and the worker stages         *)
(* email_sync and email_parse, which feed the stages of Extraction.  An    *)
(* attachment's document is one of Docs, under the storage key that        *)
(* email_parse gives it; everything that happens to it afterwards is       *)
(* Extraction's Worker, beside a user who deletes documents.               *)
(*                                                                         *)
(* As in Extraction every await between two effects ends a step, and the   *)
(* position in the loop over messages or attachments is in the memory of   *)
(* the handler: an attempt starts with the first again.                    *)
(*                                                                         *)
(* Abstractions.  A message is its row's key, (connectedId, providerMsgId);*)
(* what a mailbox holds under it does not change.  completeUpload on an    *)
(* attachment's document is left to Extraction.  Tokens and lastSyncAt,    *)
(* which nothing reads back, are left out.                                 *)
(***************************************************************************)
EXTENDS Extraction, Sequences

CONSTANTS
  Accounts,     \* connected email accounts
  Msgs,         \* messages
  Attachments,  \* Attachments[m]: [doc, text] in the message's order
  Readable,     \* the documents whose type doc_extract reads
  Hash,         \* Hash[m]: the sha256 of the message
  NoHash,       \* no sha256 was given
  Syncs,        \* bound: the sync jobs that are ever added
  Source,       \* Source[s]: the account of sync s
  Batch,        \* Batch[s]: the messages that sync s brings
  NoMessages    \* none are given: fetching them is not implemented

ASSUME EmailAssumption ==
  /\ Attachments \in [Msgs -> Seq([doc: Docs, text: Texts])]
  /\ Readable \subseteq Docs
  /\ Source \in [Syncs -> Accounts]
  /\ Batch \in [Syncs -> Seq(Msgs) \cup {NoMessages}]
  /\ NoMessages \notin Seq(Msgs) \cup Seq([doc: Docs, text: Texts])
  /\ Syncs \cap Msgs = {}

VARIABLES
  account,  \* connectedEmailAccount.status by account; "none": no row
  message,  \* the emailMessage rows
  asked,    \* the syncs that users have asked for
  mailJob,  \* the queues email_sync and email_parse
  hand,     \* the processor that holds mailJob[k]: its step, its position
  dropped   \* history: the last doc_extract add met a job past its store

mailVars == <<account, message, asked, mailJob, hand, dropped>>

allVars == <<vars, mailVars>>
-----------------------------------------------------------------------------
\* Job ids.  A sync has one of its own, a message one for all its parses.
Keys == Syncs \cup Msgs

Queue(k) == IF k \in Syncs THEN "email_sync" ELSE "email_parse"

\* email_sync: upsert the message, add its parse job; email_parse: put the
\* object, upsert the document, reset the extraction, add its job.
MailPc == {"idle", "message", "put", "document", "reset", "add", "ack"}

Hand == [pc: MailPc, at: Nat]

NoHand == [pc |-> "idle", at |-> 0]

\* The array that the handler of k loops over.
List(k) == IF k \in Syncs THEN Batch[k] ELSE Attachments[k]

First(k) == IF k \in Syncs THEN "message" ELSE "put"

\* Type invariant.  In particular no loop leaves its array.
MailTypeOK ==
  /\ account \in [Accounts -> {"none", "CONNECTED", "REVOKED"}]
  /\ message \in SUBSET Msgs
  /\ asked \in SUBSET Syncs
  /\ mailJob \in [Keys -> Job]
  /\ hand \in [Keys -> Hand]
  /\ \A k \in Keys : hand[k].pc \notin {"idle", "ack"} =>
       List(k) # NoMessages /\ hand[k].at \in DOMAIN List(k)
  /\ dropped \in [Docs -> BOOLEAN]

MailInit ==
  /\ Init
  /\ account = [a \in Accounts |-> "none"]
  /\ message = {}
  /\ asked = {}
  /\ mailJob = [k \in Keys |-> NoJob]
  /\ hand = [k \in Keys |-> NoHand]
  /\ dropped = [d \in Docs |-> FALSE]
-----------------------------------------------------------------------------
(* The email integrations API. *)

\* callback: the upsert connects a new account, or one that was revoked.
Connect(a) ==
  /\ account' = [account EXCEPT ![a] = "CONNECTED"]
  /\ UNCHANGED <<vars, message, asked, mailJob, hand, dropped>>

\* syncNow, for a connected account.  The job's id has the time in it.
SyncNow(s) ==
  /\ s \notin asked
  /\ account[Source[s]] = "CONNECTED"
  /\ asked' = asked \cup {s}
  /\ mailJob' = [mailJob EXCEPT ![s] = Add(@)]
  /\ UNCHANGED <<vars, account, message, hand, dropped>>

\* disconnect; the jobs of the account stay.
Disconnect(a) ==
  /\ account[a] # "none"
  /\ account' = [account EXCEPT ![a] = "REVOKED"]
  /\ UNCHANGED <<vars, message, asked, mailJob, hand, dropped>>
-----------------------------------------------------------------------------
(* What the two processors have in common. *)

\* The handler of k goes on with a step for its current element.
Step(k, pc) == hand' = [hand EXCEPT ![k].pc = pc]

\* A worker takes the job and begins with the first element.
StartLoop(k) ==
  /\ mailJob[k].state = "waiting"
  /\ mailJob' = [mailJob EXCEPT ![k] = Take(@)]
  /\ hand' = [hand EXCEPT ![k] =
                IF List(k) = << >> THEN [pc |-> "ack", at |-> 0]
                                   ELSE [pc |-> First(k), at |-> 1]]

\* Mutant: the loop ends behind the last element.
NextElementLong(k) ==
  hand' = [hand EXCEPT ![k] =
    IF @.at > Len(List(k)) THEN [pc |-> "ack", at |-> 0]
                           ELSE [pc |-> First(k), at |-> @.at + 1]]

\* The handler is done with an element.
NextElement(k) ==
  hand' = [hand EXCEPT ![k] =
    IF @.at = Len(List(k)) THEN [pc |-> "ack", at |-> 0]
                           ELSE [pc |-> First(k), at |-> @.at + 1]]

\* The handler returned: the job is completed, hence removed.
MailAck(k) ==
  /\ hand[k].pc = "ack"
  /\ mailJob' = [mailJob EXCEPT ![k] = NoJob]
  /\ hand' = [hand EXCEPT ![k] = NoHand]
  /\ UNCHANGED <<vars, account, message, asked, dropped>>

MailFault(k) ==
  /\ hand[k].pc # "idle"
  /\ <<Queue(k), hand[k].pc>> \in FaultPoints
  /\ faults < MaxFaults
  /\ faults' = faults + 1
  /\ UNCHANGED <<rowVars, extVars, booked, job, run, req, completes,
                 account, message, asked, dropped>>

\* Mutant: the handler catches the error and the job completes.
MailSwallows(k) ==
  /\ hand[k].pc # "ack"
  /\ MailFault(k)
  /\ mailJob' = [mailJob EXCEPT ![k] = NoJob]
  /\ hand' = [hand EXCEPT ![k] = NoHand]

\* The database, the object store or Redis refuses and the handler throws.
MailThrows(k) ==
  /\ hand[k].pc # "ack"
  /\ MailFault(k)
  /\ mailJob' = [mailJob EXCEPT ![k] = Fail(@)]
  /\ hand' = [hand EXCEPT ![k] = NoHand]

\* The worker process dies; the job stays active until the stalled check.
MailDies(k) ==
  /\ MailFault(k)
  /\ hand' = [hand EXCEPT ![k] = NoHand]
  /\ UNCHANGED mailJob

MailRecover(k) ==
  /\ mailJob[k].state = "active"
  /\ hand[k].pc = "idle"
  /\ mailJob' = [mailJob EXCEPT ![k] = Stall(@)]
  /\ UNCHANGED <<vars, account, message, asked, hand, dropped>>

\* POST /admin/jobs/:queue/:jobId/retry.
MailRetry(k) ==
  /\ mailJob[k].state = "failed"
  /\ mailJob' = [mailJob EXCEPT ![k] = Requeue(@)]
  /\ UNCHANGED <<vars, account, message, asked, hand, dropped>>
-----------------------------------------------------------------------------
(* email_sync *)

\* processEmailSync reads the account once per attempt.
MaySync(s) == account[Source[s]] = "CONNECTED" /\ Batch[s] # NoMessages

SyncStart(s) ==
  /\ MaySync(s)
  /\ StartLoop(s)
  /\ UNCHANGED <<vars, account, message, asked, dropped>>

\* Mutant: the processor returns for an account that is not connected.
SyncReturns(s) ==
  /\ mailJob[s].state = "waiting"
  /\ ~MaySync(s)
  /\ mailJob' = [mailJob EXCEPT ![s] = NoJob]
  /\ UNCHANGED <<vars, account, message, asked, hand, dropped>>

\* "not in CONNECTED status", "Provider fetching not implemented".
SyncRefused(s) ==
  /\ mailJob[s].state = "waiting"
  /\ ~MaySync(s)
  /\ mailJob' = [mailJob EXCEPT ![s] = Fail(@)]
  /\ UNCHANGED <<vars, account, message, asked, hand, dropped>>

\* sha256 is unique among all messages of all accounts.
Clash(m) == \E n \in message \ {m} : Hash[n] = Hash[m] /\ Hash[m] # NoHash

\* The upsert of the message's row.
SyncMessage(s) ==
  LET m == Batch[s][hand[s].at] IN
  /\ hand[s].pc = "message"
  /\ ~Clash(m)
  /\ message' = message \cup {m}
  /\ Step(s, "add")
  /\ UNCHANGED <<vars, account, asked, mailJob, dropped>>

\* Mutant: a message that violates the unique key is skipped.
SyncSkipsClash(s) ==
  /\ hand[s].pc = "message"
  /\ Clash(Batch[s][hand[s].at])
  /\ NextElement(s)
  /\ UNCHANGED <<vars, account, message, asked, mailJob, dropped>>

\* The upsert violates the unique key, and the handler throws.
SyncClashes(s) ==
  /\ hand[s].pc = "message"
  /\ Clash(Batch[s][hand[s].at])
  /\ mailJob' = [mailJob EXCEPT ![s] = Fail(@)]
  /\ hand' = [hand EXCEPT ![s] = NoHand]
  /\ UNCHANGED <<vars, account, message, asked, dropped>>

\* The add of the message's parse job, whether or not the row is new.
SyncAdd(s) ==
  /\ hand[s].pc = "add"
  /\ mailJob' = [mailJob EXCEPT ![Batch[s][hand[s].at]] = Add(@)]
  /\ NextElement(s)
  /\ UNCHANGED <<vars, account, message, asked, dropped>>
-----------------------------------------------------------------------------
(* email_parse; d and t are the attachment's document and content. *)

\* Mutant: a message whose documents are there is not parsed again.
ParseStartOnce(m) ==
  /\ mailJob[m].state = "waiting"
  /\ mailJob' = [mailJob EXCEPT ![m] = Take(@)]
  /\ hand' = [hand EXCEPT ![m] =
       IF \A i \in DOMAIN Attachments[m] : row[Attachments[m][i].doc] # "absent"
       THEN [pc |-> "ack", at |-> 0]
       ELSE [pc |-> "put", at |-> 1]]
  /\ UNCHANGED <<vars, account, message, asked, dropped>>

ParseStart(m) ==
  /\ StartLoop(m)
  /\ UNCHANGED <<vars, account, message, asked, dropped>>

Attached(m) == Attachments[m][hand[m].at]

ParsePut(m) ==
  LET d == Attached(m).doc
      t == Attached(m).text IN
  /\ hand[m].pc = "put"
  /\ object' = [object EXCEPT ![d] = t]
  /\ uploaded' = [uploaded EXCEPT ![d] = @ \cup {t}]
  /\ Step(m, "document")
  /\ UNCHANGED <<row, readable, extVars, booked, job, run, req, bounds,
                 account, message, asked, mailJob, dropped>>

\* The document's upsert, by storage key; an update clears deletedAt.
ParseDocument(m) ==
  LET d == Attached(m).doc IN
  /\ hand[m].pc = "document"
  /\ row' = [row EXCEPT ![d] = "live"]
  /\ readable' = [readable EXCEPT ![d] = d \in Readable]
  /\ Step(m, "reset")
  /\ UNCHANGED <<object, uploaded, extVars, booked, job, run, req, bounds,
                 account, message, asked, mailJob, dropped>>

\* Mutant: the upsert puts a new extraction in place of the old one.
ParseResetClears(m) ==
  LET d == Attached(m).doc IN
  /\ hand[m].pc = "reset"
  /\ status' = [status EXCEPT ![d] = "PENDING"]
  /\ extractedText' = [extractedText EXCEPT ![d] = NoText]
  /\ Step(m, "add")
  /\ UNCHANGED <<rowVars, normalizedJson, booked, job, run, req, bounds,
                 account, message, asked, mailJob, dropped>>

\* The extraction's upsert; the columns of an earlier result stay.
ParseReset(m) ==
  LET d == Attached(m).doc IN
  /\ hand[m].pc = "reset"
  /\ status' = [status EXCEPT ![d] = "PENDING"]
  /\ Step(m, "add")
  /\ UNCHANGED <<rowVars, extractedText, normalizedJson, booked, job, run, req,
                 bounds, account, message, asked, mailJob, dropped>>

\* The add of the document's doc_extract job.
ParseAdd(m) ==
  LET d == Attached(m).doc IN
  /\ hand[m].pc = "add"
  /\ job' = [job EXCEPT !["doc_extract"][d] = Add(@)]
  /\ dropped' = [dropped EXCEPT ![d] =
                   Exists(job["doc_extract"][d])
                   /\ (@ \/ run["doc_extract"][d].pc \in {"enqueue", "ack"})]
  /\ NextElement(m)
  /\ UNCHANGED <<rowVars, extVars, booked, run, req, bounds,
                 account, message, asked, mailJob>>
-----------------------------------------------------------------------------
SyncStage(s) ==
  \/ SyncStart(s) \/ SyncRefused(s) \/ SyncMessage(s) \/ SyncClashes(s)
  \/ SyncAdd(s) \/ MailAck(s) \/ MailRecover(s)

ParseStage(m) ==
  \/ ParseStart(m) \/ ParsePut(m) \/ ParseDocument(m) \/ ParseReset(m)
  \/ ParseAdd(m) \/ MailAck(m) \/ MailRecover(m)

MailUser == \E a \in Accounts : Connect(a) \/ Disconnect(a)

\* What else happens to an attachment's document.
DocumentStep(d) == SoftDelete(d) \/ Worker(d) \/ Fault(d) \/ Admin(d)

MailNext ==
  \/ MailUser
  \/ \E s \in Syncs : SyncNow(s) \/ SyncStage(s)
  \/ \E m \in Msgs : ParseStage(m)
  \/ \E k \in Keys : MailThrows(k) \/ MailDies(k) \/ MailRetry(k)
  \/ \E d \in Docs : DocumentStep(d) /\ UNCHANGED mailVars

MailSpec == MailInit /\ [][MailNext]_allVars

\* A running worker takes every job of its queues, goes on with it, and finds
\* the stalled ones: of the two queues here and the three of Extraction.
MailFairness ==
  /\ \A s \in Syncs : WF_allVars(SyncStage(s))
  /\ \A m \in Msgs : WF_allVars(ParseStage(m))
  /\ \A d \in Docs :
       /\ WF_allVars(ExtractStage(d) /\ UNCHANGED mailVars)
       /\ WF_allVars(NormalizeStage(d) /\ UNCHANGED mailVars)
       /\ WF_allVars(TxUpsertStage(d) /\ UNCHANGED mailVars)

MailLiveSpec == MailSpec /\ MailFairness
-----------------------------------------------------------------------------
(* Safety *)

\* The handler of k has still to work on element i, in this attempt or in
\* another one.
Ahead(k, i) ==
  /\ Exists(mailJob[k])
  /\ hand[k].pc # "ack"
  /\ hand[k].pc # "idle" => hand[k].at <= i

\* The messages of sync s, if any are given.
Given(s) == IF Batch[s] = NoMessages THEN << >> ELSE Batch[s]

Ingested(d) == row[d] # "absent" /\ object[d] # NoText /\ status[d] # "none"

\* A message whose row is stored reaches the pipeline: every attachment has its
\* object, document and extraction, or the parse job or a sync that will add it
\* is there, if only as a failed job, wherever a worker throws or dies.
MessageIsPursued ==
  \A m \in message :
    \/ \A i \in DOMAIN Attachments[m] :
         Ahead(m, i) \/ Ingested(Attachments[m][i].doc)
    \/ \E s \in Syncs : \E i \in DOMAIN Given(s) :
         Given(s)[i] = m /\ Ahead(s, i)

\* A sync whose job is gone has stored every message that it was given: one that
\* cannot be stored keeps those behind it out, in every attempt, but never out
\* of sight, as the sync then stays behind as a failed job.
SyncIsComplete ==
  \A s \in asked :
    ~Exists(mailJob[s]) => \A i \in DOMAIN Given(s) : Given(s)[i] \in message

\* An extraction that email_parse has reset to PENDING has a doc_extract job or
\* a parse that has still to add one, but for one case: the add met a job that
\* was past its store, and was dropped.
PendingIsScheduledOrDropped ==
  \A d \in Docs :
    status[d] = "PENDING" =>
      \/ Exists(job["doc_extract"][d])
      \/ \E m \in Msgs : \E i \in DOMAIN Attachments[m] :
           Attachments[m][i].doc = d /\ Ahead(m, i)
      \/ dropped[d]
-----------------------------------------------------------------------------
(* Liveness *)

\* Every message that a sync has stored ends with all its attachments booked or
\* recorded as failed or without transactions, or a job that is parked as
\* failed shows why not; an attachment may be left out when its add was dropped.
MessageIsResolved ==
  \A m \in Msgs :
    m \in message ~>
      \/ \A i \in DOMAIN Attachments[m] :
           LET d == Attachments[m][i].doc IN Resolved(d) \/ dropped[d]
      \/ mailJob[m].state = "failed"
      \/ \E s \in Syncs : \E i \in DOMAIN Given(s) :
           Given(s)[i] = m /\ mailJob[s].state = "failed"
=============================================================================
