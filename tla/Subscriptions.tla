--------------------------- MODULE Subscriptions ---------------------------
(***************************************************************************)
(* The subscriptions of one workspace: the API that asks for a detection   *)
(* and edits rows (apps/api/src/modules/subscriptions) and the worker that *)
(* finds recurring charges (subscription-detect.processor.ts), under one   *)
(* fixed job id per workspace.                                             *)
(*                                                                         *)
(* The processor reads the transactions once and then awaits a search and  *)
(* a write for every recurring group; users act between any two of these   *)
(* steps, and the position in the loop is in the memory of the handler.    *)
(*                                                                         *)
(* Abstractions.  Transactions are numbered in order of occurredAt, and    *)
(* one that is deleted or older than the window is one that the query does *)
(* not find.  A merchant with its name and a currency are one key.  A year *)
(* has 365 days.  updatedAt is not kept: where it would order several      *)
(* active rows of one key, any of them may be the first.                   *)
(***************************************************************************)
EXTENDS JobQueue, Integers, Sequences, FiniteSetsExt

CONSTANTS
  Keys,        \* <<merchantId, currency>>
  Txn,         \* Txn[i]: [key, cents, date], ordered by date
  NoRow,       \* no row to write
  Booked,      \* the transactions that are there in the beginning
  Overrides,   \* the intervals that users set
  Moving,      \* bound: the transactions that come or go later
  MaxChanges,  \* bound: how often one does
  MaxEdits,    \* bound: updates by users
  MaxFaults    \* bound: faults of the worker

\* month counts from a January.
Date == [month: Nat, day: 1..31]

Intervals == {"UNKNOWN", "WEEKLY", "MONTHLY", "YEARLY"}

ASSUME SubscriptionAssumption ==
  /\ Txn \in Seq([key: Keys, cents: Int, date: Date])
  /\ Booked \subseteq DOMAIN Txn /\ Moving \subseteq DOMAIN Txn
  /\ Overrides \subseteq Intervals
  /\ MaxChanges \in Nat /\ MaxEdits \in Nat /\ MaxFaults \in Nat

VARIABLES
  ledger,      \* the transactions that the query finds
  subs,        \* the subscription rows, in order of creation
  job,         \* the workspace's subscription_detect job
  run,         \* its handler, see Handler
  touched,     \* history: the keys that users edited since the handler began
  reactivated, \* history: the keys of rows that users activated again
  changes, edits, faults

vars == <<ledger, subs, job, run, touched, reactivated, changes, edits, faults>>
-----------------------------------------------------------------------------
(* Dates *)

MonthDays == <<31, 28, 31, 30, 31, 30, 31, 31, 30, 31, 30, 31>>

MonthStart[m \in Nat] ==
  IF m = 0 THEN 0 ELSE MonthStart[m - 1] + MonthDays[((m - 1) % 12) + 1]

\* A day behind the end of its month is one of the next month, as in a Date.
DayNumber(date) == MonthStart[date.month] + date.day - 1

\* guessInterval, of the distances between charges in days.
GuessInterval(diffs) ==
  LET within(target, tolerance) ==
        \A d \in diffs : d - target \in -tolerance..tolerance
  IN  CASE within(7, 2)    -> "WEEKLY"
        [] within(30, 7)   -> "MONTHLY"
        [] within(365, 30) -> "YEARLY"
        [] OTHER           -> "UNKNOWN"

\* Mutant: months counted from 1 are added to months counted from 0.
AddIntervalLate(date, interval) ==
  CASE interval = "WEEKLY"  -> DayNumber(date) + 7
    [] interval = "MONTHLY" -> DayNumber([date EXCEPT !.month = @ + 2])
    [] interval = "YEARLY"  -> DayNumber([date EXCEPT !.month = @ + 13])

\* addInterval, as a day number.
AddInterval(date, interval) ==
  CASE interval = "WEEKLY"  -> DayNumber(date) + 7
    [] interval = "MONTHLY" -> DayNumber([date EXCEPT !.month = @ + 1])
    [] interval = "YEARLY"  -> DayNumber([date EXCEPT !.month = @ + 12])
-----------------------------------------------------------------------------
(* What detection finds in a set S of transactions. *)

\* Math.round(cents / 50) * 50
Bucket(cents) == ((cents + 25) \div 50) * 50

SameGroup(i, j) ==
  Txn[i].key = Txn[j].key /\ Bucket(Txn[i].cents) = Bucket(Txn[j].cents)

Groups(S) == {{j \in S : SameGroup(i, j)} : i \in S}

\* The k-th smallest amount of S.
Kth(S, k) ==
  CHOOSE c \in {Txn[i].cents : i \in S} :
    /\ Cardinality({i \in S : Txn[i].cents < c}) < k
    /\ Cardinality({i \in S : Txn[i].cents <= c}) >= k

Median(S) ==
  LET n == Cardinality(S) IN
  IF n % 2 = 1 THEN Kth(S, n \div 2 + 1)
  ELSE (Kth(S, n \div 2) + Kth(S, n \div 2 + 1) + 1) \div 2

\* The last two distances of a group, in days.
LastDiffs(G) ==
  LET Later(j) == Cardinality({k \in G : k > j}) IN
  {DayNumber(Txn[p[2]].date) - DayNumber(Txn[p[1]].date) :
     p \in {q \in G \X G :
             Later(q[1]) <= 2 /\ Later(q[2]) = Later(q[1]) - 1}}

\* The groups that are not skipped.
Recurring(S) ==
  {G \in Groups(S) : /\ Cardinality(G) >= 3
                     /\ GuessInterval(LastDiffs(G)) # "UNKNOWN"}

\* The Map that the processor loops over has its groups in the order of their
\* first transactions.
Before(G, H) == Min(G) < Min(H)

KeyOf(G) == Txn[Min(G)].key

\* The row for group G.  The amount is the median of all charges of the key,
\* those of its other groups included.
Detected(S, G) ==
  LET last     == Txn[Max(G)].date
      interval == GuessInterval(LastDiffs(G)) IN
  [key      |-> KeyOf(G),
   interval |-> interval,
   cents    |-> Median({j \in S : Txn[j].key = KeyOf(G)}),
   last     |-> last,
   due      |-> AddInterval(last, interval),
   active   |-> TRUE]
-----------------------------------------------------------------------------
Row == [key: Keys, interval: Intervals, cents: Int, last: Date, due: Int,
        active: BOOLEAN]

ASSUME NoRowAssumption == NoRow \notin Row

\* The handler's next step, the transactions it has read, the groups that it
\* has not done yet, the row to write for the first of them, and the id of the
\* row that the search has found, 0 for none.
Handler == [pc: {"idle", "find", "write", "ack"}, seen: SUBSET DOMAIN Txn,
            todo: SUBSET SUBSET DOMAIN Txn, new: Row \cup {NoRow}, found: Nat]

Idle == [pc |-> "idle", seen |-> {}, todo |-> {}, new |-> NoRow, found |-> 0]

\* Type invariant.  In particular the loop has a group to work on,
\* and a row that the handler has found exists.
TypeOK ==
  /\ ledger \in SUBSET DOMAIN Txn
  /\ subs \in Seq(Row)
  /\ job \in Job
  /\ run \in Handler
  /\ UNION run.todo \subseteq run.seen
  /\ run.pc \in {"find", "write"} <=> run.todo # {}
  /\ run.found \in 0..Len(subs)
  /\ run.pc = "write" <=> run.new # NoRow
  /\ touched \in SUBSET Keys
  /\ reactivated \in SUBSET Keys
  /\ changes \in 0..MaxChanges /\ edits \in 0..MaxEdits /\ faults \in 0..MaxFaults

Init ==
  /\ ledger = Booked
  /\ subs = << >>
  /\ job = NoJob
  /\ run = Idle
  /\ touched = {}
  /\ reactivated = {}
  /\ changes = 0 /\ edits = 0 /\ faults = 0
-----------------------------------------------------------------------------
(* The users and the API *)

\* A transaction is booked, or it is deleted or leaves the window.
Change ==
  /\ changes < MaxChanges
  /\ changes' = changes + 1
  /\ \E i \in Moving :
       ledger' = IF i \in ledger THEN ledger \ {i} ELSE ledger \cup {i}
  /\ UNCHANGED <<subs, job, run, touched, reactivated, edits, faults>>

\* enqueueDetect
EnqueueDetect ==
  /\ job' = Add(job)
  /\ UNCHANGED <<ledger, subs, run, touched, reactivated, changes, edits, faults>>

\* update, of the row s: what the body does not give stays.
Update(s, active, interval) ==
  /\ edits < MaxEdits
  /\ edits' = edits + 1
  /\ subs' = [subs EXCEPT ![s].active = active, ![s].interval = interval]
  /\ touched' = touched \cup {subs[s].key}
  /\ reactivated' = IF active /\ ~subs[s].active
                    THEN reactivated \cup {subs[s].key} ELSE reactivated
  /\ UNCHANGED <<ledger, job, run, changes, faults>>
-----------------------------------------------------------------------------
(* The worker *)

\* A worker takes the job, reads the transactions and groups them.
DetectStart ==
  /\ job.state = "waiting"
  /\ job' = Take(job)
  /\ run' = [pc    |-> IF Recurring(ledger) = {} THEN "ack" ELSE "find",
             seen  |-> ledger,
             todo  |-> Recurring(ledger),
             new   |-> NoRow,
             found |-> 0]
  /\ touched' = {}
  /\ UNCHANGED <<ledger, subs, reactivated, changes, edits, faults>>

ActiveRows(key) == {s \in DOMAIN subs : subs[s].key = key /\ subs[s].active}

\* The first of the groups that the handler has not done yet.
AtGroup(G) == G \in run.todo /\ \A H \in run.todo \ {G} : Before(G, H)

\* Mutant: the search asks for the interval, too.
DetectFindInterval(G) ==
  LET new  == Detected(run.seen, G)
      rows == {s \in ActiveRows(new.key) : subs[s].interval = new.interval} IN
  /\ run.pc = "find"
  /\ AtGroup(G)
  /\ \E s \in IF rows = {} THEN {0} ELSE rows :
       run' = [run EXCEPT !.pc = "write", !.new = new, !.found = s]
  /\ UNCHANGED <<ledger, subs, job, touched, reactivated, changes, edits, faults>>

\* The search for an active row of group G's merchant and currency.
DetectFind(G) ==
  LET rows == ActiveRows(KeyOf(G)) IN
  /\ run.pc = "find"
  /\ AtGroup(G)
  /\ \E s \in IF rows = {} THEN {0} ELSE rows :
       run' = [run EXCEPT !.pc = "write", !.new = Detected(run.seen, G),
                          !.found = s]
  /\ UNCHANGED <<ledger, subs, job, touched, reactivated, changes, edits, faults>>

\* The handler has done the group and goes on with those of rest.
GoOn(rest) ==
  run' = [run EXCEPT !.pc = IF rest = {} THEN "ack" ELSE "find",
                     !.todo = rest, !.new = NoRow, !.found = 0]

\* Mutant: a key is done with its first group.
NextGroupOfOther(G) == GoOn({H \in run.todo : KeyOf(H) # KeyOf(G)})

\* Mutant: the handler looks for a group when there is none left.
NextGroupAlways(G) ==
  run' = [run EXCEPT !.pc = "find", !.todo = @ \ {G}, !.new = NoRow, !.found = 0]

NextGroup(G) == GoOn(run.todo \ {G})

\* The update by id, whatever has become of the row since the search.
DetectUpdate(G) ==
  /\ run.pc = "write"
  /\ AtGroup(G)
  /\ run.found # 0
  /\ subs' = [subs EXCEPT ![run.found] = run.new]
  /\ NextGroup(G)
  /\ UNCHANGED <<ledger, job, touched, reactivated, changes, edits, faults>>

DetectCreate(G) ==
  /\ run.pc = "write"
  /\ AtGroup(G)
  /\ run.found = 0
  /\ subs' = Append(subs, run.new)
  /\ NextGroup(G)
  /\ UNCHANGED <<ledger, job, touched, reactivated, changes, edits, faults>>

\* The handler returned: the job is completed, hence removed.
Ack ==
  /\ run.pc = "ack"
  /\ job' = NoJob
  /\ run' = Idle
  /\ UNCHANGED <<ledger, subs, touched, reactivated, changes, edits, faults>>

MayFault ==
  /\ run.pc # "idle"
  /\ faults < MaxFaults
  /\ faults' = faults + 1
  /\ run' = Idle
  /\ UNCHANGED <<ledger, subs, touched, reactivated, changes, edits>>

\* Mutant: the handler catches the error and the job completes.
DetectSwallows ==
  /\ run.pc # "ack"
  /\ MayFault
  /\ job' = NoJob

\* The database refuses and the handler throws.
DetectThrows ==
  /\ run.pc # "ack"
  /\ MayFault
  /\ job' = Fail(job)

\* The worker process dies; the job stays active until the stalled check.
DetectDies == MayFault /\ UNCHANGED job

RecoverStalled ==
  /\ job.state = "active"
  /\ run.pc = "idle"
  /\ job' = Stall(job)
  /\ UNCHANGED <<ledger, subs, run, touched, reactivated, changes, edits, faults>>

\* POST /admin/jobs/:queue/:jobId/retry.
RetryJob ==
  /\ job.state = "failed"
  /\ job' = Requeue(job)
  /\ UNCHANGED <<ledger, subs, run, touched, reactivated, changes, edits, faults>>
-----------------------------------------------------------------------------
User ==
  \/ Change
  \/ EnqueueDetect
  \/ \E s \in DOMAIN subs, active \in BOOLEAN :
       \E interval \in Overrides \cup {subs[s].interval} :
         Update(s, active, interval)

Detect ==
  \/ DetectStart
  \/ \E G \in run.todo : DetectFind(G) \/ DetectUpdate(G) \/ DetectCreate(G)
  \/ Ack \/ RecoverStalled

Next == User \/ Detect \/ DetectThrows \/ DetectDies \/ RetryJob

Spec == Init /\ [][Next]_vars

\* A running worker takes the job, goes on with it, and finds it stalled.
LiveSpec == Spec /\ WF_vars(Detect)
-----------------------------------------------------------------------------
(* Safety *)

\* Detection never gives a merchant a second active subscription in one
\* currency: no retry, crash or second price of the merchant leads to one.
\* Only a user does, by activating a row that detection has replaced.
SecondActiveWasReactivated ==
  \A s, t \in DOMAIN subs :
    /\ s # t
    /\ subs[s].key = subs[t].key
    /\ subs[s].active /\ subs[t].active
    => subs[s].key \in reactivated

\* A handler that has come to its end has left every key that recurs in what it
\* read an active row, and the row shows the key's group that began last, unless
\* a user has edited the key's rows in between.
DetectionIsComplete ==
  run.pc = "ack" =>
    \A G \in Recurring(run.seen) :
      \/ KeyOf(G) \in touched
      \/ \E H \in Recurring(run.seen) : KeyOf(H) = KeyOf(G) /\ Before(G, H)
      \/ \E s \in DOMAIN subs : subs[s] = Detected(run.seen, G)

\* The due date keeps the pattern it is computed from: a charge on that day
\* would be found regular again, also where the month has no such day and the
\* date runs over into the next one.
DueKeepsInterval ==
  run.pc = "write" =>
    GuessInterval({run.new.due - DayNumber(run.new.last)}) = run.new.interval
-----------------------------------------------------------------------------
(* Liveness *)

RecursIn(S, key) == Recurring({i \in S : Txn[i].key = key}) # {}

\* A charge that recurs when a detection is waiting gets an active row, or the
\* job is parked as failed, or the charge has ceased to recur before the read.
RecurringIsListed ==
  \A key \in Keys :
    job.state = "waiting" /\ RecursIn(ledger, key) ~>
      \/ ActiveRows(key) # {}
      \/ job.state = "failed"
      \/ ~RecursIn(ledger, key)
=============================================================================
