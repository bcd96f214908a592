# A TLA+ model of famfinance

famfinance is a backend for family finances: a NestJS API (`apps/api`), a worker
process with seven BullMQ queues (`apps/worker`), PostgreSQL through Prisma
(`packages/db`), Redis and an S3 store. This directory holds TLA+ modules that
model the parts in which several actors change the same state, TLC
configurations that check them on small instances, and proofs, checked by
TLAPS, of the most important invariants for every instance. Paths below are
relative to the repository.

## 1. Inventory

| component | state | operations | model |
|---|---|---|---|
| Job queues (BullMQ, Redis) | jobs by id: waiting, active, failed | add with a fixed `jobId`, take, fail with backoff, stalled check, retry | `JobQueue` (external) |
| Documents API | `documents` row, presigned upload, `extractions` row | createUploadUrl, completeUpload, softDelete | `Extraction` |
| doc_extract, normalize | `extractions.status`, `extractedText`, `normalizedJson` | claim, load, store, enqueue; parse, write, enqueue | `Extraction`, abstractly `DocumentLife` |
| Text parsing in normalize | none but the scanner's line in memory | dates, amounts, wrapped lines, removal of repeats, fallback | `NormalizeText` |
| tx_upsert | `transactions`, `merchants` | upsert line by line, enqueue rollups | `Ledger` (one step in `Extraction`) |
| rollup_monthly | `analyticsMonthlyRollup` | read the month, replace the sums | `Ledger` |
| Transactions API, analytics | `transactions`, `merchants`, rollups | create, update, soft delete, summary | `Ledger` |
| Email integrations API | connected accounts | callback, syncNow, disconnect | `EmailIngest` |
| email_sync, email_parse | `emailMessage` rows; objects, documents and extractions of attachments | upsert messages and add parse jobs; put, upsert, reset, add per attachment | `EmailIngest` |
| Subscriptions API, subscription_detect | `subscriptions` | enqueueDetect, update; search and write per recurring group | `Subscriptions` |
| Admin | failed jobs | retry | `Extraction`, `Ledger`, `EmailIngest`, `Subscriptions` |
| Workspaces, members, guards | `workspaceMember` | create workspace, change role, remove member | `Membership`, abstractly `Roster` |
| Invites | `workspaceInvite` | create, revoke, accept, expiry | `Membership`, abstractly `Roster` |
| Users from tokens, rate limiter, categories, audit log, authentication, HTTP, health, encryption, infrastructure | single upserts, appends, counters in memory, or none | | not modelled (section 6) |

How the parts interact. The API writes a row and adds a job; a worker takes the
job, reads the row, writes it and adds the job of the next stage:

    POST .../complete -> doc_extract -> normalize -> tx_upsert -> rollup_monthly
    POST .../sync     -> email_sync -> email_parse -> doc_extract
    POST .../detect   -> subscription_detect

Users edit the same transactions that tx_upsert writes and the same
subscriptions that subscription_detect writes, delete documents that are being
worked on, and read the rollups that rollup_monthly writes. There are no locks
and, but for acceptInvite, no transactions: what orders the actors is the job ids. A
job id is fixed per document and stage (per message for email_parse, per month
for rollups, per workspace for subscription_detect), so at most one job of an id
exists, and an add that meets one, waiting, active or failed, is dropped without a
word.

What is hard here, and which property is about it, is the list `hazards` in
PROJECT.json. In short:

* an add that is dropped because the job exists, although the job is past the
  point at which it would have seen the new state;
* a row that is written and a job that is added afterwards, with a crash or an
  error of Redis in between;
* a merchant's name, which every upload and every manual creation overwrites for
  all months at once, while the sums of other months were computed under the old one;
* loops that write element by element and start from the first again in the next
  attempt, while users have changed what the earlier attempt wrote;
* two processors and an API call that write the same status column;
* roles, rows and invites that are read first and written by id later;
* a parser that must decide with one line of memory.

What makes each component correct:

* Extraction: no row is left behind without a job that moves it; SUCCEEDED
  means that there is a text; what was extracted is normalized and what was
  normalized is booked; nothing is booked that was not uploaded; every scheduled
  document reaches an end somebody can see.
* EmailIngest: a stored message's attachments reach that pipeline, or a job that
  will bring them there is kept; a sync that is over has stored all its messages; a
  reset extraction has a job.
* NormalizeText: a text yields exactly its charges, each from lines of its own, and
  only repeats are removed.
* Ledger: the summary of a month is that of its transactions, under their
  merchants' names, up to changes and renamings since it was computed; a document's transactions are complete before its
  rollups are asked for; a retry does not undo what users did.
* Subscriptions: detection makes no second active row for a merchant and
  currency, and leaves nothing out that recurs in what it read.
* Membership: an OWNER stays OWNER, members have been invited, an invite is used
  once and not after it was revoked.

## 2. The modules

* `JobQueue`: a job as a record and the operations on it, each a function from
  job to job. `Add` leaves an existing job alone. Failed jobs are kept
  (`removeOnFail: false`), completed ones are removed (`removeOnComplete: true`), so that
  "completed" and "never added" are the same record `NoJob`. Waiting and
  delayed are one state. A retry by the administrator does not forget the
  attempts already made (bullmq 5.66.1), and a job stalls at most `MaxStalls`
  times.
* `Extraction`: documents API, doc_extract, normalize, tx_upsert. Each await
  between two effects ends a step: `run[q][d].pc` says where the handler of a
  job is and `.text` what it holds in memory, which is lost when the worker dies.
  completeUpload is four steps (`BeginComplete`, `CheckObject`,
  `ResetExtraction`, `EnqueueExtract`); several calls may run at once.
  The errors of the code are actions: `JobThrows` (the handler rejects),
  `ReadThrows` (at its first read), `ExtractCatches` (the catch block of
  processDocExtract), `WorkerDies` with `RecoverStalled`, `CompleteFails` (the
  API).
* `DocumentLife`: the abstract specification of what becomes of a document, with no
  job, handler or request in sight: its type is settled (`Settle`), contents are
  uploaded (`Upload`), it is scheduled when there is one (`Schedule`), worked on or
  given up (`Work`), and its text is extracted, parsed and booked (`Extract`, `Parse`,
  `Book`), each in one step, each only after the one it needs, each with a content
  that was uploaded, none taking back what an earlier one did. `Extraction`
  implements it, with its own variables as the mapping (`ImplementsLife`): a
  step that writes one of these columns is a step of the life, every other one a
  stutter. `EmailIngest` implements it, too.
* `EmailIngest` EXTENDS `Extraction` and composes it with the mailbox. A sync and a
  message are the keys of the two mail queues; `hand[k]` is the step and the
  position of the processor that holds the job, which an attempt loses. email_sync:
  `SyncStart`, then `SyncMessage` and `SyncAdd` per message; email_parse:
  `ParseStart`, then `ParsePut`, `ParseDocument`, `ParseReset` and `ParseAdd` per
  attachment. `SyncRefused` is an account that is not CONNECTED, or a sync
  without given messages, which the code does not implement and throws for;
  `SyncClashes` is the unique sha256 of another message. The last three steps
  of a parse write Extraction's `row`, `status` and doc_extract job, and
  Extraction's own stages, a user's `SoftDelete` and the administrator do the
  rest. `dropped[d]` is history: the add met a job that had stored its result.
* `NormalizeText`: `extractTransactionsFromText` as a scanner that reads a line a
  step: a line is skipped (`SkipSummary`), taken (`TakeLine`), held (`HoldLine`),
  joined with the held one (`TakeWrapped`) or passed (`PassLine`). `Finish` removes
  repeats or falls back to the first TOTAL, and sets the status. Lines are
  sequences of tokens; `Amounts`, `Value`, `Chosen` and `Name` are what the
  regular expressions take from such a line, the blank that
  counts as a thousands separator included (`Joined`).
* `Ledger`: tx_upsert with its loop and its adds one by one, rollup_monthly with
  its read and its write, users' calls. The merchants' table is `name[k]` by
  normalized name. A turn of the loop is `UpsertMerchant`, which gives the merchant the
  name that the line spells, and `UpsertLine`, which writes the transaction; a
  manual creation is `NameManual` and `CreateManual`. Sums are abstracted to the set of the
  rows summed up, each with the name and the category it is summed up under
  (`Snapshot`), as rollup_monthly and the summary key them: two different sets are what
  two different sums show. The variables `wrote`, `missed` and `ignored` are history
  and guard nothing. `missed[m]` is who has changed month m since its rollup was
  read: an upload, a user, or a renaming of one of its merchants in whatever month.
* `Subscriptions`: one workspace's rows, its transactions and its one detection
  job. `DetectStart` reads the transactions and groups them by merchant,
  currency and 50-cent bucket; then `DetectFind` and `DetectUpdate` or
  `DetectCreate` per recurring group, with users' `Update` and changes of the
  transactions between any two. Intervals, medians and due dates are computed
  (`GuessInterval`, `Median`, `AddInterval` with months of their lengths and the
  overflow of a JavaScript Date). `touched` and `reactivated` are history.
* `Membership`: a request is `Guard` (the caller's role is read and kept), a
  read in the service, and a write by row id. A row that was removed and
  created again has another id. acceptInvite is a READ COMMITTED transaction: its
  reads see what is committed, and its two writes become visible together
  (`Accept`). Its EXPIRED branch writes and throws, which rolls the write back: the
  status EXPIRED is never committed, and an invite past its time is PENDING and
  not `fresh`.
* `Roster`: the abstract specification of a workspace: who joins was invited to
  the role they get, an OWNER is OWNER for good, everybody else changes role or
  leaves, each in one step. `Membership` implements it: `ImplementsRoster` maps
  the member rows to the roster's roles and the invite rows, open or not, to
  what was ever invited.
* `MC*`: instances for TLC. `*Proofs`: the theorems. `OrderLemmas`: what their
  proofs use of least and greatest numbers, ranks and images of finite sets.

`Extraction` and `Ledger` share `JobQueue` and meet at tx_upsert: for
`Extraction` it is one step that books a text; `Ledger` starts from a document
that is normalized and has the loop. `NormalizeText` refines the step in which
`Extraction` decides whether a text is one of `Blank` (no transactions in it).
Operators whose comment begins with "Mutant:" are not part of the model: each is a
variant of the definition after it with a plausible bug, by which it is confirmed
that a property can fail.

## 3. The runs

| run | shows | instance |
|---|---|---|
| extraction_safety | `TypeOK`, `ProcessingIsOwned`, `SucceededHasText`, `NormalizedIsPursued`, `BookedWasUploaded`, `ExtractedIsPursued`; the refinement `ImplementsLife`; liveness `ScheduledIsResolved` | 1 document, a parsable and a blank content that may be put one after the other, 2 concurrent completeUpload calls, 2 attempts, 1 stall, 2 faults at any step of the API and the stages but in the window below; 228,250 states |
| extraction_crash | violated: `ExtractedIsPursued` | one fault between the SUCCEEDED write and the normalize add, 2 attempts |
| extraction_twice | violated: `PendingIsScheduled` | two completeUpload calls, no fault |
| email | `MailTypeOK`, `MessageIsPursued`, `SyncIsComplete`, `PendingIsScheduledOrDropped`; the refinement `ImplementsLife`; liveness `MessageIsResolved` | 1 account, 2 syncs that bring the same message, one of them behind a message with the same sha256, 1 attachment, 1 attempt, 1 fault anywhere in email_sync and email_parse; 82,283 states |
| normalize | `TypeOK`, `ScanIsReference`, `LinesAreTakenOnce`, `OnlyRepeatsAreDropped` | every text of up to 4 lines of 10 kinds; 22,222 states |
| normalize_wrapped | violated: `WrappedIsBooked` | the same with 6 kinds |
| ledger | `TypeOK`, `SummaryIsExplained`, `RollupFollowsOrIgnored`, `EnqueuedIsBooked`; liveness `UploadsAreRolledUp` | 2 documents of one month that share a transaction and spell its merchant in two ways, an invalid line, 1 transaction that a user creates in another month, 1 call of a user, 1 fault anywhere in both stages; 288,588 states |
| ledger_lost | violated: `RollupFollowsUpload` | 2 documents, 1 month, no fault |
| ledger_retry | violated: `RetriesAreSafe` | 1 document, 1 edit, 1 fault |
| subscriptions | `TypeOK`, `SecondActiveWasReactivated`, `DetectionIsComplete`, `DueKeepsInterval`; liveness `RecurringIsListed` | a merchant with two monthly prices, one at the end of the month, and a weekly one; 1 transaction that comes or goes, 2 edits, 1 fault; 28,175 states |
| membership | `TypeOK`, `MembersWereInvited`, `UsedIsClosed`, `OwnersStay`, the refinement `ImplementsRoster` | 3 users, 2 invites, 2 concurrent requests; 376,434 states |
| membership_revoke | violated: `AcceptedWhilePending` | 1 invite, 2 requests |

The violated properties state what the documents, comments and tests of the
repository promise; each has an entry under `findings` in PROJECT.json with the
quotation, and the trace TLC prints is the story:

* extraction_crash: doc_extract stores SUCCEEDED and throws before it adds the
  normalize job. The next attempt finds SUCCEEDED, returns `already_succeeded`,
  adds nothing and completes; only then is the property violated, as up to
  there the doc_extract job might still have added the normalize job.
* extraction_twice: doc_extract has stored its result when a second
  completeUpload resets the row; its add meets the job that is still active.
  The job then completes, and the row is PENDING without a job.
* normalize_wrapped: "Shop 21/12/2025" and, on the next line, "345.00": a blank may
  separate thousands, so 25,345.00 is booked.
* ledger_lost: the month's rollup has read when a second document is written;
  the second document's add is dropped, and the older sums are written.
* ledger_retry: a line is written, the worker throws, the user deletes or edits
  the transaction, and the next attempt writes it again.
* membership_revoke: a revoke commits between acceptInvite's read and its commit.

A passing run sits beside each of these where the rest still holds:
`RollupFollowsOrIgnored` is `RollupFollowsUpload` with the one way in which it
fails named, `PendingIsScheduledOrDropped` names the dropped add of
extraction_twice for email_parse, `SyncIsComplete` says that a message which can
never be stored keeps its sync in sight as a failed job, and extraction_safety checks
`ExtractedIsPursued` with faults everywhere but in the one window. The theorems
show that there is no other way.

Further disagreements between what the code does and what one may expect, which no
text of the repository decides, are hazards with a note: a subscription that a
user deactivated is created anew by the next detection; an interval that a user
set is overwritten; a merchant with two prices gets the median of both; a price
that moves across the border of a bucket is no recurring charge; the charge
after January 31 is due in March, and `DueKeepsInterval` says only that a charge on
that day would still be taken for a monthly one; the fallback reads "TOTAL 1,234.56" as 1.23.

Bounds. Documents share nothing in `Extraction` (jobs, rows and objects are
per document), so one is enough for TLC; the theorems are for all. Two calls of
completeUpload suffice for one to reset what the other has begun. Two attempts
distinguish "again" from "parked", and two faults let a retry fail in its turn.
In the passing runs of `Ledger`, `EmailIngest` and `Subscriptions` one attempt
suffices: a throw parks the job, and the administrator's retry runs it again. `Ledger` has one stall, so
that a death is followed by a second run; in `EmailIngest` and `Subscriptions` a
stalled job is parked at once and retried. Two documents are needed in `Ledger`
for an add that meets an active rollup, and two spellings of one merchant for a
renaming; the one from another month comes from a user's creation there, as a second
month of uploads is more than a million states. One that comes from an upload in
another month is the same step (`NameMerchant`), and the theorem has it. Two syncs of one message are what it
takes in `EmailIngest` for an add to meet a parse that runs; two messages with one
sha256, for a sync that fails in every attempt until the other is first. One
attachment is one turn of the loop; loops of any length, and attachments that share
a document, are left to the theorems. In
`Subscriptions` the two prices are the two groups of one key that overwrite each
other's row, and the moving transactions decide whether a group is large enough. Four
lines are a wrapped charge with a line in between and one behind it. Two invites
and two requests are what every race of `Membership` takes: one holds a
stale row or role while the other changes it.

Deadlock. `CHECK_DEADLOCK FALSE` for `Extraction`, `Ledger` and `EmailIngest`: when
the bounds on calls and faults are used up and all jobs are done, the system
rests; and for `NormalizeText`, which ends. In `Membership` and `Subscriptions` a
request is always possible, and deadlock is checked.

Symmetry (invites, requests, users other than the creator) is used in the run
membership only, which checks no liveness.

Fairness. Weak fairness of each request the API has begun (`Extraction`), and of
each stage: per document in `Extraction`, per document or month in `Ledger`, per sync
and message in `EmailIngest` together with Extraction's stages (`MailFairness`), of
the one handler in `Subscriptions`. The code justifies it:
`apps/worker/src/main.ts` starts a BullMQ worker per queue that takes every job in
turn and runs the stalled check. Nothing else is fair: nobody has to upload,
complete, sync, edit or retry, and no fault has to occur. `Membership` and
`NormalizeText` have no fairness, and no liveness is claimed for them.

## 4. The theorems

All theorems are of the form `Spec => []Inv`, or `Spec => [][A]_vars`, or
`Spec => ImplementsRoster` or `Spec => ImplementsLife`, for every value of the constants that satisfies the
named assumptions of the modules (`QueueAssumption`, `ExtractionAssumption`,
`EmailAssumption`, `TextAssumption`, `LedgerAssumption`,
`SubscriptionAssumption`, `NoRowAssumption`, `MembershipAssumption`): any sets of documents, contents,
messages, lines, transactions, months, users, invites and requests, any bounds,
any fault points.

`ExtractionProofs`: `TypeCorrect`, `ProcessingAlwaysOwned`,
`SucceededAlwaysHasText`, `BookedAlwaysUploaded`, `NormalizedAlwaysPursued`,
`ExtractedAlwaysPursued`, which assumes that no fault
falls into the window (`WindowIsSafe`), and `LifeImplemented`. The inductive invariant is per document:

* `StatusInv`: the properties alone are not inductive, because a handler that is
  about to write does not know what the row has become. What makes them so is that
  a handler that is not idle has an active job (so at most one handler per
  job id, and a job that cannot vanish under it), and that a handler of normalize
  past its read implies that the document has a text.
* `TextsWereUploaded`: every text held by a handler, a column or the ledger has
  been uploaded; the ones that reach tx_upsert are not blank.
* `PursuitInv`: if the document's object was put once (`PutOnce`), every text of it is
  the same, so what any handler writes agrees with what is there; a normalized
  text is booked, or has a job that is not past the step that would pursue it.
* `ExtractInv`: a text that is stored and not normalized has a doc_extract handler at
  its add, or a normalize job. It is stronger than the property, for which any
  doc_extract job will do: one whose next attempt finds SUCCEEDED would not add.

* `InOrder` and `RequestsInOrder`, for the refinement: a document with an
  extraction has its row and an object; a doc_extract job, or a text, belongs to a
  document that was scheduled; tx_upsert writes only what was parsed; and what a
  completeUpload call has found out (the row, then the object, then the reset) still
  holds when it goes on. With `TextsWereUploaded` they are the guards of
  `DocumentLife`'s steps, which no single action of the code checks: doc_extract,
  for one, writes SUCCEEDED by id without looking whether anything was uploaded.

A step of one document changes nothing of another (`Frame`), so that the step
lemmas are about one document.

`EmailProofs`: `MailTypeCorrect`, `MessageAlwaysPursued`, `SyncAlwaysComplete`,
`PendingAlwaysScheduledOrDropped`, `MailProcessingAlwaysOwned`,
`MailLifeImplemented`; attachments may share a document. `MailIInv` adds to the properties that a handler holds an
active job (`HandOwnsJob`) and stands at an element of its own queue's array
(`HandsFit`), and that a parse has brought the attachments behind it into the
pipeline, and the one it is at as far as its step says (`ParsesDone`): that is why it
may finish. `SyncInv` says the same of a sync: its handler has stored the messages
behind it, and the one it is at when only the parse job is missing; no step but its
end makes the job go. `DocsInv` is Extraction's `StatusInv` again, now preserved by the steps of
email_parse, too, and for each document that a PENDING extraction has a doc_extract
job that is not past its store, or a parse that has still to add one, or a dropped
add. `LifeInv`, for the refinement, is `TextsWereUploaded` and `InOrder` again, and
that the type of a document comes with its key (`TypeIsFixed`): a second parse of
the same attachment writes the type again, under a running extraction, but it is the same
one, so its step is a stutter. A parse may schedule because its handler remembers having put the object (`ParsesDone`).

`NormalizeProofs`: `TypeCorrect`, `ScanAlwaysReference`, `LinesAlwaysTakenOnce`,
`OnlyRepeatsAlwaysDropped`. The invariant says
what the one line of memory is worth: `PendingWaits`, `pending` is the one line with
a date and no amount that nothing but summary lines and lines without either has
followed, and `TakenBehind`, whatever was taken ends before it. `ResultInv` says that,
when charges were pushed, the finished result is what the removal of repeats makes of
them. The operators behind it are recursive in the library
(FlattenSeq) or work by the rank of a position (`At`, `Deduplicated`): that
they yield sequences of charges is shown by a least counterexample, and that the
element of rank k is the one position with k - 1 of its kind before it, by
`RankIsUnique` of `OrderLemmas`.

`LedgerProofs`: `TypeCorrect`, `EnqueuedAlwaysBooked`, `SummaryAlwaysExplained`,
`RollupAlwaysFollowsOrIgnored`. The inductive invariant adds:

* per document, `OwnsUpsert` (a processor that is not idle holds an active job),
  `LinesDone` (the valid lines behind it are in the ledger) and `KeysNoted` (their
  months are among those it will ask for). Without the last, the end of the loop
  could forget a month that an earlier line had promised.
* `NamesInv`: a merchant that a row, a manual creation or the turn of a loop refers
  to has a name, and one that normalizes to it. That is why a month whose
  merchants were only renamed still shows the same transactions under names
  of the same merchants: the second part of `SummaryIsExplained`.
* per month, `OwnsRollup`, `ReadIsCurrent` (what was read is the month, while
  nobody has changed it since, and is it up to the merchants' names, while those alone
  have changed) and `SinceIsMissed` (whoever has changed it since
  the read has changed it since the rollup was computed).

The upsert of a merchant changes the live months of all its transactions and is
noted in each of them; one that gives it the name it has changes nothing. With any
number of documents, faults and retries, a month whose rollup misses an
upload gets a new one, except after an add that met a running job.

`SubscriptionsProofs`: `TypeCorrect`, `SecondActiveAlwaysReactivated`,
`DetectionAlwaysComplete`, `DueAlwaysKeepsInterval`. `SearchStands`: between the search and the write the row
found is still one of the key, and the key has no other active row unless a user
activated one; users change neither keys nor the number of rows. `LoopInv`: a
group behind the loop comes before those ahead and is covered by a row, by a
later group of its key, or by a user's edit; a write by id overwrites a row of
its own key only, hence uncovers only groups that came before. That the loop has one
group at a time (`OneGroup`) rests on the least element of a set of numbers
(`LeastNumber`). `TInv` is the type invariant on top of that: the groups
are finite, not empty and of one key (`GroupFacts`), so that the columns of a row to
write have values of their types (the k-th smallest amount exists, `KthType`). It
does not say that an amount is positive: refunds are transactions, too. The
first day of a month is a recursive function; a least counterexample shows that it
exists and grows by the length of the month (`MonthStartFacts`), from which the
distance of a due date follows for each interval, the days that run over
into the next month included: that is `DueKeepsInterval`.

`MembershipProofs`: `TypeCorrect`, `MembersAlwaysInvited`, `UsedAlwaysClosed`,
`OwnersAlwaysStay`, `RosterImplemented`. The inductive invariant adds to the
properties what a request holds: `HeldRow` (a row id that was read is one the user
has or has had, and as long as it is the user's row its role is not OWNER) and
`HeldInvite` (an invite that was read is not absent any more). The first is why a
stale read cannot demote an owner: a row becomes OWNER only when it is created, and
then its id is new. With the invariant, every step of `Membership` is a step of
`Roster` or leaves the roster alone.

Only model-checked: liveness (`ScheduledIsResolved`, `MessageIsResolved`,
`UploadsAreRolledUp`, `RecurringIsListed`), since liveness under fairness is out of this
prover's reach. Every invariant, action property and refinement that a passing run
checks is a theorem. `SucceededHasText` and the other properties of `Extraction` are not
derived from `DocumentLife`, which is about the order of things and knows no jobs: that
a document does not get lost is said by the invariants about jobs.

## 5. What the modelled parts leave out

* Two handlers on one job id. A handler that outlives its lock (a pdf-parse that
  blocks the process) may run beside its successor. The model assumes that a worker
  loses its job only by dying.
* An object that changes. The presigned URL may be used again, and the run and all
  theorems have that. Only `NormalizedIsPursued` is restricted to documents whose
  object was put once: with a second PUT, normalize can write over a row that was
  just reset, and its add can be dropped. Putting the same content back after
  another is not modelled.
* doc_extract that dies at its acknowledgement after a blank text was normalized
  runs again, as FAILED is not SUCCEEDED, and leaves SUCCEEDED beside
  `normalizedJson.ok = false`; this is reached in the model and is why `Resolved` accepts
  a blank `normalizedJson` whatever the status.
* `EmailIngest`: what a mailbox holds under a message does not change;
  completeUpload on an attachment's document is in `Extraction` only. The instance
  has no attachments that share a document (the theorems have) and no sync without
  given messages (its effect is that of a refused one). That a parse restores a
  document its user has deleted is in the model, but no property is about it.
* `NormalizeText`: amounts of a million and more, currencies, signs, dates that begin with the year, the lines
  `MERCHANT:` and `FROM:`, summary lines of 220 and more characters, the
  maximal lengths of descriptions.
* `Subscriptions`: leap years; the window of 180 days, abstracted to the
  transactions that the query finds; updatedAt, where any of several active rows
  may be found first.
* Error codes and messages, timestamps, file names, links between rows; amounts in
  `Ledger` and the 32-bit columns. The categories' table: a category is created once
  and never renamed.
* The updates of transactions by users are one step each: the find and the
  update by id could be apart, but any write between them could as well come first.
  rollup_monthly's findMany reads the transactions and their merchants' names in one
  step: a merchant renamed between Prisma's queries counts as renamed behind them.
* `Extraction not found` and `engine mismatch`: rows are never deleted and the
  engine is constant.

## 6. Not modelled

* Users from tokens: find-then-create on a unique key. Its one race ends in a
  refused request and leaves no state; the other modules start with users who exist.
* Rate limiter: counters in the memory of one process. No other state depends on
  them.
* Categories, updateWorkspace: single writes by a unique key.
* Audit log: rows appended after the act, read by nobody.
* Authentication, HTTP, health, logging, encryption and environment helpers,
  infrastructure: no state that another component reads.

## 7. The plan

Done: `JobQueue`, `Extraction`, `EmailIngest`, `NormalizeText`, `Ledger`,
`Subscriptions`, `Membership`, `Roster`, `DocumentLife`, with their proofs.

What could follow: `Ledger`'s loop as an implementation of the step in which
`Extraction` books a text, and the summary as an atomic view of a month; amounts with
their width in `Ledger`; the lines `MERCHANT:` and currencies in `NormalizeText`.
