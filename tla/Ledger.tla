------------------------------- MODULE Ledger -------------------------------
(***************************************************************************)
(* The ledger of one workspace: the worker stage tx_upsert, which writes   *)
(* the transactions of a normalized document one by one, the stage         *)
(* rollup_monthly, which recomputes a month's summary, and the API calls   *)
(* by which a user creates, edits and deletes transactions and reads the   *)
(* summary.  A normalized document is given: Extraction is the part before.*)
(*                                                                         *)
(* A transaction is identified by its fingerprint (a manual one by its     *)
(* id), and a rollup by year, month and currency, here one value of        *)
(* Months.  A merchant is identified by its normalized name, has the name  *)
(* it was last given, in whatever month, and shows under it in every sum.  *)
(* The sums of a rollup are abstracted to the rows summed up, each with    *)
(* the name and the category it is summed up under: equal sets have equal  *)
(* sums.  The find and the update of one API call are one step: the update *)
(* is by id and overwrites, so that a write between the two could as well  *)
(* be first.  The transactions and their merchants' names are read in one  *)
(* step; a merchant that is renamed between the two queries counts as one  *)
(* that is renamed behind them.                                            *)
(***************************************************************************)
EXTENDS JobQueue, Sequences

CONSTANTS
  Docs,         \* documents with a normalizedJson that is ok
  Uploads,      \* fingerprints of the transactions in documents
  Manual,       \* ids of the transactions that users create
  Names,        \* merchants' names, as documents and users spell them
  Merchants,    \* merchants' normalized names
  MerchantOf,   \* MerchantOf[n]: the normalized form of name n
  Unknown,      \* no merchant, and the name it is summed up under
  Lines,        \* Lines[d]: the transactions of d and their merchants' names
  Skipped,      \* Uploads with an invalid date, amount or merchant name
  Months,       \* the rollups' keys
  MonthOf,      \* MonthOf[x]: where transaction x is counted
  NoRollup,     \* no rollup row
  FaultPoints,  \* where a worker may throw or die
  MaxFaults,    \* bound: faults per behaviour
  MaxUpserts,   \* bound: tx_upsert adds per document
  MaxEdits      \* bound: calls by users

Txns == Uploads \cup Manual

ASSUME LedgerAssumption ==
  /\ MerchantOf \in [Names -> Merchants]
  /\ Unknown \notin Names \cup Merchants
  /\ Lines \in [Docs -> Seq([txn: Uploads, name: Names])]
  /\ \A d \in Docs : Lines[d] # <<>>
  /\ Skipped \subseteq Uploads
  /\ Uploads \cap Manual = {}
  /\ MonthOf \in [Txns -> Months]
  /\ MaxFaults \in Nat /\ MaxUpserts \in Nat /\ MaxEdits \in Nat

VARIABLES
  txn,        \* transactions: txn[x]
  name,       \* merchants: name[k], or Unknown when there is no row
  post,       \* the merchant that a POST of x has upserted before its create
  rollup,     \* analyticsMonthlyRollup: rollup[m], as the rows summed up
  upsertJob,  \* the queue tx_upsert, by document
  rollupJob,  \* the queue rollup_monthly, by month
  upsert,     \* the processor that holds upsertJob[d]
  roll,       \* the processor that holds rollupJob[m]
  wrote,      \* history: what upsertJob[d] has written in all its attempts
  missed,     \* history: who has changed month m since rollup[m] was read
  ignored,    \* history: an add for m met a job that had read before
  upserts,    \* tx_upsert adds so far
  edits,      \* users' calls so far
  faults      \* faults so far

vars == <<txn, name, post, rollup, upsertJob, rollupJob, upsert, roll, wrote,
          missed, ignored, upserts, edits, faults>>

books      == <<txn, name, post>>
upsertVars == <<upsertJob, upsert, wrote>>
bounds     == <<upserts, edits, faults>>
-----------------------------------------------------------------------------
Row == [state: {"absent", "live", "deleted"},
        merchant: Merchants \cup {Unknown},
        category: {"none", "chosen"}]

NoRow == [state |-> "absent", merchant |-> Unknown, category |-> "none"]

\* The live transactions of a month: deletedAt is null, the date is in the month.
Live(m) == {x \in Txns : MonthOf[x] = m /\ txn[x].state = "live"}

\* The name that a transaction is summed up under.
Shown(x) == IF txn[x].merchant = Unknown THEN Unknown ELSE name[txn[x].merchant]

\* What a rollup of month m sums up.
Snapshot(m) == {<<x, Shown(x), txn[x].category>> : x \in Live(m)}

Sums == SUBSET (Txns \X (Names \cup {Unknown}) \X {"none", "chosen"})

Causes == {"upload", "user", "rename"}

\* tx_upsert: the line it is at and the rollups it has to enqueue.
Upserter == [pc: {"idle", "merchant", "upsert", "enqueue"},
             line: Nat,
             keys: SUBSET Months]

NotUpserting == [pc |-> "idle", line |-> 0, keys |-> {}]

\* rollup_monthly: what it has read and who has changed the month since.
Roller == [pc: {"idle", "write", "ack"}, read: Sums, since: SUBSET Causes]

NotRolling == [pc |-> "idle", read |-> {}, since |-> {}]

\* The transaction and the merchant's name in line i of d.
TxnAt(d, i)  == Lines[d][i].txn
NameAt(d, i) == Lines[d][i].name

InLoop(d) == upsert[d].pc \in {"merchant", "upsert"}

\* Type invariant.  In particular the loop of tx_upsert never leaves the array
\* of the document's transactions.
TypeOK ==
  /\ txn \in [Txns -> Row]
  /\ name \in [Merchants -> Names \cup {Unknown}]
  /\ post \in [Manual -> Merchants \cup {Unknown}]
  /\ rollup \in [Months -> Sums \cup {NoRollup}]
  /\ upsertJob \in [Docs -> Job]
  /\ rollupJob \in [Months -> Job]
  /\ upsert \in [Docs -> Upserter]
  /\ \A d \in Docs : InLoop(d) => upsert[d].line \in DOMAIN Lines[d]
  /\ roll \in [Months -> Roller]
  /\ wrote \in [Docs -> SUBSET Uploads]
  /\ missed \in [Months -> SUBSET Causes]
  /\ ignored \in [Months -> BOOLEAN]
  /\ upserts \in [Docs -> 0..MaxUpserts]
  /\ edits \in 0..MaxEdits
  /\ faults \in 0..MaxFaults

Init ==
  /\ txn = [x \in Txns |-> NoRow]
  /\ name = [k \in Merchants |-> Unknown]
  /\ post = [x \in Manual |-> Unknown]
  /\ rollup = [m \in Months |-> NoRollup]
  /\ upsertJob = [d \in Docs |-> NoJob]
  /\ rollupJob = [m \in Months |-> NoJob]
  /\ upsert = [d \in Docs |-> NotUpserting]
  /\ roll = [m \in Months |-> NotRolling]
  /\ wrote = [d \in Docs |-> {}]
  /\ missed = [m \in Months |-> {}]
  /\ ignored = [m \in Months |-> FALSE]
  /\ upserts = [d \in Docs |-> 0]
  /\ edits = 0
  /\ faults = 0
-----------------------------------------------------------------------------
\* The months M have changed: a rollup that was read or written before shows what
\* they were.
Note(M, cause) ==
  /\ missed' = [m \in Months |->
                  IF m \in M THEN missed[m] \cup {cause} ELSE missed[m]]
  /\ roll' = [m \in Months |->
                IF m \in M /\ roll[m].pc = "write"
                THEN [roll[m] EXCEPT !.since = @ \cup {cause}] ELSE roll[m]]

\* Transaction x becomes row r, by an upload or by a user.
Put(x, r, cause) ==
  /\ txn' = [txn EXCEPT ![x] = r]
  /\ Note({MonthOf[x]}, cause)

\* The upsert of a merchant by its normalized name: it is called n from now on,
\* in every month in which it has transactions.
NameMerchant(n) ==
  LET k == MerchantOf[n] IN
  /\ name' = [name EXCEPT ![k] = n]
  /\ Note({MonthOf[x] : x \in {y \in Txns : /\ txn[y].state = "live"
                                            /\ txn[y].merchant = k
                                            /\ name[k] # n}}, "rename")

\* A POST, PATCH or DELETE by a user, none of which asks for a rollup.
Edit == edits < MaxEdits /\ edits' = edits + 1

UserChanges(x, r) ==
  /\ Put(x, r, "user")
  /\ UNCHANGED <<name, rollup, rollupJob, upsertVars, ignored, upserts, faults>>

\* A POST upserts the merchant it names, if any, and then creates the row.
NameManual(x) ==
  /\ x \in Manual
  /\ txn[x].state = "absent" /\ post[x] = Unknown
  /\ Edit
  /\ \E n \in Names : NameMerchant(n) /\ post' = [post EXCEPT ![x] = MerchantOf[n]]
  /\ UNCHANGED <<txn, rollup, rollupJob, upsertVars, ignored, upserts, faults>>

CreateManual(x) ==
  /\ x \in Manual
  /\ txn[x].state = "absent"
  /\ IF post[x] = Unknown THEN Edit ELSE UNCHANGED edits
  /\ post' = [post EXCEPT ![x] = Unknown]
  /\ \E c \in {"none", "chosen"} :
       UserChanges(x, [state |-> "live", merchant |-> post[x], category |-> c])

\* A PATCH sets the merchant, to one that exists or to none, or the category.
UpdateTransaction(x) ==
  /\ txn[x].state = "live"
  /\ Edit
  /\ \/ \E k \in Merchants \cup {Unknown} :
          /\ k # Unknown => name[k] # Unknown
          /\ UserChanges(x, [txn[x] EXCEPT !.merchant = k])
     \/ \E c \in {"none", "chosen"} : UserChanges(x, [txn[x] EXCEPT !.category = c])
  /\ UNCHANGED post

SoftDelete(x) ==
  /\ txn[x].state = "live"
  /\ Edit
  /\ UserChanges(x, [txn[x] EXCEPT !.state = "deleted"])
  /\ UNCHANGED post

\* summary: the rollup when there is one, the transactions themselves if not.
Summary(m) == IF rollup[m] = NoRollup THEN Snapshot(m) ELSE rollup[m]
-----------------------------------------------------------------------------
(* tx_upsert *)

\* normalize adds the job.
Normalized(d) ==
  /\ upserts[d] < MaxUpserts
  /\ upserts' = [upserts EXCEPT ![d] = @ + 1]
  /\ upsertJob' = [upsertJob EXCEPT ![d] = Add(@)]
  /\ UNCHANGED <<books, rollup, rollupJob, upsert, roll, wrote, missed, ignored,
                 edits, faults>>

\* Every attempt starts with the first transaction.
UpsertStart(d) ==
  /\ upsertJob[d].state = "waiting"
  /\ upsertJob' = [upsertJob EXCEPT ![d] = Take(@)]
  /\ upsert' = [upsert EXCEPT ![d] = [pc |-> "merchant", line |-> 1, keys |-> {}]]
  /\ UNCHANGED <<books, rollup, rollupJob, roll, wrote, missed, ignored, bounds>>

\* What the upsert makes of the row: an update clears deletedAt and sets the
\* merchant and the description, and leaves the category alone.
Upserted(x, k) == [state |-> "live", merchant |-> k, category |-> txn[x].category]

\* Mutant: the loop ends behind the last line.
NextLineLong(d, keys) ==
  upsert' = [upsert EXCEPT ![d] =
    IF @.line > Len(Lines[d])
    THEN [pc |-> "enqueue",  line |-> 0,           keys |-> keys]
    ELSE [pc |-> "merchant", line |-> @.line + 1,  keys |-> keys]]

\* Mutant: the loop ends before the last line.
NextLineShort(d, keys) ==
  upsert' = [upsert EXCEPT ![d] =
    IF @.line >= Len(Lines[d]) - 1
    THEN [pc |-> "enqueue",  line |-> 0,           keys |-> keys]
    ELSE [pc |-> "merchant", line |-> @.line + 1,  keys |-> keys]]

\* The processor goes on behind a line, with these rollups to enqueue.
NextLine(d, keys) ==
  upsert' = [upsert EXCEPT ![d] =
    IF @.line = Len(Lines[d])
    THEN [pc |-> "enqueue",  line |-> 0,           keys |-> keys]
    ELSE [pc |-> "merchant", line |-> @.line + 1,  keys |-> keys]]

\* The first half of a turn of the loop: the merchant's upsert.
UpsertMerchant(d) ==
  /\ upsert[d].pc = "merchant"
  /\ TxnAt(d, upsert[d].line) \notin Skipped
  /\ NameMerchant(NameAt(d, upsert[d].line))
  /\ upsert' = [upsert EXCEPT ![d].pc = "upsert"]
  /\ UNCHANGED <<txn, post, rollup, upsertJob, rollupJob, wrote, ignored, bounds>>

\* Mutant: the month is noted only when the transaction is new.
UpsertLineNotesNew(d) ==
  LET x == TxnAt(d, upsert[d].line) IN
  /\ upsert[d].pc = "upsert"
  /\ Put(x, Upserted(x, MerchantOf[NameAt(d, upsert[d].line)]), "upload")
  /\ wrote' = [wrote EXCEPT ![d] = @ \cup {x}]
  /\ NextLine(d, IF txn[x].state = "absent"
                 THEN upsert[d].keys \cup {MonthOf[x]} ELSE upsert[d].keys)
  /\ UNCHANGED <<name, post, rollup, upsertJob, rollupJob, ignored, bounds>>

\* The second half: the transaction's upsert, and its month is noted.
UpsertLine(d) ==
  LET x == TxnAt(d, upsert[d].line) IN
  /\ upsert[d].pc = "upsert"
  /\ Put(x, Upserted(x, MerchantOf[NameAt(d, upsert[d].line)]), "upload")
  /\ wrote' = [wrote EXCEPT ![d] = @ \cup {x}]
  /\ NextLine(d, upsert[d].keys \cup {MonthOf[x]})
  /\ UNCHANGED <<name, post, rollup, upsertJob, rollupJob, ignored, bounds>>

SkipLine(d) ==
  /\ upsert[d].pc = "merchant"
  /\ TxnAt(d, upsert[d].line) \in Skipped
  /\ NextLine(d, upsert[d].keys)
  /\ UNCHANGED <<books, rollup, upsertJob, rollupJob, roll, wrote, missed,
                 ignored, bounds>>

\* The add of one rollup job.  An add that meets a job whose processor has read
\* the month before this upload's writes is ignored all the same.
EnqueueRollup(d, m) ==
  /\ upsert[d].pc = "enqueue"
  /\ m \in upsert[d].keys
  /\ rollupJob' = [rollupJob EXCEPT ![m] = Add(@)]
  /\ ignored' = [ignored EXCEPT ![m] =
                   \/ @
                   \/ roll[m].pc = "write" /\ "upload" \in roll[m].since
                   \/ roll[m].pc = "ack" /\ "upload" \in missed[m]]
  /\ upsert' = [upsert EXCEPT ![d] =
                  [pc |-> "enqueue", line |-> 0, keys |-> @.keys \ {m}]]
  /\ UNCHANGED <<books, rollup, upsertJob, roll, wrote, missed, bounds>>

\* The handler returned: the job is completed, hence removed.
UpsertAck(d) ==
  /\ upsert[d].pc = "enqueue"
  /\ upsert[d].keys = {}
  /\ upsertJob' = [upsertJob EXCEPT ![d] = NoJob]
  /\ upsert' = [upsert EXCEPT ![d] = NotUpserting]
  /\ wrote' = [wrote EXCEPT ![d] = {}]
  /\ UNCHANGED <<books, rollup, rollupJob, roll, missed, ignored, bounds>>
-----------------------------------------------------------------------------
(* rollup_monthly *)

\* One findMany reads the month.
RollupStart(m) ==
  /\ rollupJob[m].state = "waiting"
  /\ rollupJob' = [rollupJob EXCEPT ![m] = Take(@)]
  /\ roll' = [roll EXCEPT ![m] =
                [pc |-> "write", read |-> Snapshot(m), since |-> {}]]
  /\ ignored' = [ignored EXCEPT ![m] = FALSE]
  /\ UNCHANGED <<books, rollup, upsertVars, missed, bounds>>

\* Mutant: an existing rollup is added to.
RollupWriteAdds(m) ==
  /\ roll[m].pc = "write"
  /\ rollup' = [rollup EXCEPT ![m] =
                  IF @ = NoRollup THEN roll[m].read ELSE @ \cup roll[m].read]
  /\ missed' = [missed EXCEPT ![m] = roll[m].since]
  /\ roll' = [roll EXCEPT ![m] = [pc |-> "ack", read |-> {}, since |-> {}]]
  /\ UNCHANGED <<books, rollupJob, upsertVars, ignored, bounds>>

\* The upsert of the rollup row replaces all three columns.
RollupWrite(m) ==
  /\ roll[m].pc = "write"
  /\ rollup' = [rollup EXCEPT ![m] = roll[m].read]
  /\ missed' = [missed EXCEPT ![m] = roll[m].since]
  /\ roll' = [roll EXCEPT ![m] = [pc |-> "ack", read |-> {}, since |-> {}]]
  /\ UNCHANGED <<books, rollupJob, upsertVars, ignored, bounds>>

RollupAck(m) ==
  /\ roll[m].pc = "ack"
  /\ rollupJob' = [rollupJob EXCEPT ![m] = NoJob]
  /\ roll' = [roll EXCEPT ![m] = NotRolling]
  /\ UNCHANGED <<books, rollup, upsertVars, missed, ignored, bounds>>
-----------------------------------------------------------------------------
(* Faults, the stalled check and the administrator, as in Extraction.       *)

MayFault(point) ==
  /\ point \in FaultPoints
  /\ faults < MaxFaults
  /\ faults' = faults + 1

\* The database or Redis refuses, between any two lines or adds.
UpsertThrows(d) ==
  /\ upsert[d].pc # "idle"
  /\ MayFault("tx_upsert")
  /\ upsertJob' = [upsertJob EXCEPT ![d] = Fail(@)]
  /\ upsert' = [upsert EXCEPT ![d] = NotUpserting]
  /\ UNCHANGED <<books, rollup, rollupJob, roll, wrote, missed, ignored, upserts,
                 edits>>

UpsertDies(d) ==
  /\ upsert[d].pc # "idle"
  /\ MayFault("tx_upsert")
  /\ upsert' = [upsert EXCEPT ![d] = NotUpserting]
  /\ UNCHANGED <<books, rollup, upsertJob, rollupJob, roll, wrote, missed,
                 ignored, upserts, edits>>

UpsertRecover(d) ==
  /\ upsertJob[d].state = "active"
  /\ upsert[d].pc = "idle"
  /\ upsertJob' = [upsertJob EXCEPT ![d] = Stall(@)]
  /\ UNCHANGED <<books, rollup, rollupJob, upsert, roll, wrote, missed, ignored,
                 bounds>>

RetryUpsert(d) ==
  /\ upsertJob[d].state = "failed"
  /\ upsertJob' = [upsertJob EXCEPT ![d] = Requeue(@)]
  /\ UNCHANGED <<books, rollup, rollupJob, upsert, roll, wrote, missed, ignored,
                 bounds>>

\* Mutant: the processor catches the error, and the job completes.
RollupSwallows(m) ==
  /\ roll[m].pc = "write"
  /\ MayFault("rollup_monthly")
  /\ rollupJob' = [rollupJob EXCEPT ![m] = NoJob]
  /\ roll' = [roll EXCEPT ![m] = NotRolling]
  /\ UNCHANGED <<books, rollup, upsertVars, missed, ignored, upserts, edits>>

RollupThrows(m) ==
  /\ roll[m].pc = "write"
  /\ MayFault("rollup_monthly")
  /\ rollupJob' = [rollupJob EXCEPT ![m] = Fail(@)]
  /\ roll' = [roll EXCEPT ![m] = NotRolling]
  /\ UNCHANGED <<books, rollup, upsertVars, missed, ignored, upserts, edits>>

RollupDies(m) ==
  /\ roll[m].pc # "idle"
  /\ MayFault("rollup_monthly")
  /\ roll' = [roll EXCEPT ![m] = NotRolling]
  /\ UNCHANGED <<books, rollup, rollupJob, upsertVars, missed, ignored, upserts,
                 edits>>

RollupRecover(m) ==
  /\ rollupJob[m].state = "active"
  /\ roll[m].pc = "idle"
  /\ rollupJob' = [rollupJob EXCEPT ![m] = Stall(@)]
  /\ UNCHANGED <<books, rollup, upsertVars, roll, missed, ignored, bounds>>

RetryRollup(m) ==
  /\ rollupJob[m].state = "failed"
  /\ rollupJob' = [rollupJob EXCEPT ![m] = Requeue(@)]
  /\ UNCHANGED <<books, rollup, upsertVars, roll, missed, ignored, bounds>>
-----------------------------------------------------------------------------
User(x) ==
  NameManual(x) \/ CreateManual(x) \/ UpdateTransaction(x) \/ SoftDelete(x)

UpsertStage(d) ==
  \/ UpsertStart(d) \/ UpsertMerchant(d) \/ UpsertLine(d) \/ SkipLine(d)
  \/ \E m \in Months : EnqueueRollup(d, m)
  \/ UpsertAck(d) \/ UpsertRecover(d)

RollupStage(m) ==
  RollupStart(m) \/ RollupWrite(m) \/ RollupAck(m) \/ RollupRecover(m)

Next ==
  \/ \E x \in Txns : User(x)
  \/ \E d \in Docs :
       Normalized(d) \/ UpsertStage(d) \/ UpsertThrows(d) \/ UpsertDies(d)
       \/ RetryUpsert(d)
  \/ \E m \in Months :
       RollupStage(m) \/ RollupThrows(m) \/ RollupDies(m) \/ RetryRollup(m)

Spec == Init /\ [][Next]_vars

\* A running worker takes every job of its queues, goes on with it, and finds
\* the stalled ones.
Fairness ==
  /\ \A d \in Docs : WF_vars(UpsertStage(d))
  /\ \A m \in Months : WF_vars(RollupStage(m))

LiveSpec == Spec /\ Fairness
-----------------------------------------------------------------------------
(* Safety *)

\* The rows by merchant, and by the merchant whose name they are summed up under.
Booked(m) == {<<x, txn[x].merchant, txn[x].category>> : x \in Live(m)}

Unspelled(rows) ==
  {<<r[1], IF r[2] = Unknown THEN Unknown ELSE MerchantOf[r[2]], r[3]>> : r \in rows}

\* The summary shows exactly the live transactions of the month under their
\* merchants' names, unless the month has changed since the rollup was computed:
\* read at one moment, written at a later one, with uploads, edits, deletions,
\* crashes and other attempts between the two.  If nothing has happened since but
\* that merchants were renamed, by documents or users of any month, it shows the
\* same transactions, each under a name of its merchant.
SummaryIsExplained ==
  \A m \in Months :
    /\ missed[m] = {} => Summary(m) = Snapshot(m)
    /\ missed[m] \subseteq {"rename"} => Unspelled(Summary(m)) = Booked(m)

\* tx_upsert will still ask for a rollup of m.
WillEnqueue(d, m) ==
  /\ Exists(upsertJob[d])
  /\ \E i \in DOMAIN Lines[d] :
       TxnAt(d, i) \notin Skipped /\ MonthOf[TxnAt(d, i)] = m
  /\ upsert[d].pc = "enqueue" => m \in upsert[d].keys

\* The job of m is parked, or will read the month again, or has read every
\* upload's write.
WillCover(m) ==
  /\ Exists(rollupJob[m])
  /\ roll[m].pc = "write" => "upload" \notin roll[m].since
  /\ roll[m].pc # "ack"

\* A month in which uploads have changed something the rollup does not show
\* gets a new rollup, whatever throws or dies between two lines, two adds or a
\* read and a write.
RollupFollowsUpload ==
  \A m \in Months :
    "upload" \in missed[m] =>
      (\E d \in Docs : WillEnqueue(d, m)) \/ WillCover(m)

\* The same, but for the one case in which it fails: an add that was ignored
\* because the month's job was running and had read before.
RollupFollowsOrIgnored ==
  \A m \in Months :
    "upload" \in missed[m] =>
      (\E d \in Docs : WillEnqueue(d, m)) \/ WillCover(m) \/ ignored[m]

\* When tx_upsert asks for rollups, and hence when its job completes, every
\* valid transaction of the document is in the ledger, though the attempt may be
\* one of many that were cut short, and users delete meanwhile.
EnqueuedIsBooked ==
  \A d \in Docs :
    upsert[d].pc = "enqueue" =>
      \A i \in DOMAIN Lines[d] :
        TxnAt(d, i) \notin Skipped => txn[TxnAt(d, i)].state # "absent"

\* A retry is safe: an attempt that comes to a transaction which an earlier
\* attempt of the same job has written leaves it as it is, that is, as a user may
\* have made it since.
RetriesAreSafe ==
  [][\A d \in Docs : UpsertLine(d) =>
       LET x == TxnAt(d, upsert[d].line) IN
       x \in wrote[d] => txn'[x] = txn[x]]_vars
-----------------------------------------------------------------------------
(* Liveness *)

\* Uploads show in the rollup in the end, or a parked job or an ignored add
\* keeps them out.
UploadsAreRolledUp ==
  \A m \in Months :
    "upload" \in missed[m] ~>
      \/ "upload" \notin missed[m]
      \/ ignored[m]
      \/ rollupJob[m].state = "failed"
      \/ \E d \in Docs : upsertJob[d].state = "failed"
=============================================================================
