---------------------------- MODULE LedgerProofs ----------------------------
(***************************************************************************)
(* What TLAPS proves about Ledger, for every value of its constants.       *)
(***************************************************************************)
EXTENDS Ledger, JobQueueProofs

\* Every job operation yields a job record.
LEMMA JobOps ==
  ASSUME NEW j \in Job
  PROVE  /\ Add(j) \in Job
         /\ j.state = "waiting" => Take(j) \in Job
         /\ j.state # "none" => Fail(j) \in Job /\ Stall(j) \in Job
         /\ Requeue(j) \in Job
  BY AddFacts, TakeFacts, FailFacts, StallFacts, RequeueFacts

\* A document has lines, each is a transaction and belongs to a month.
LEMMA LineFacts ==
  ASSUME NEW d \in Docs
  PROVE  /\ Len(Lines[d]) \in Nat /\ Len(Lines[d]) # 0
         /\ DOMAIN Lines[d] = 1..Len(Lines[d])
         /\ \A i \in DOMAIN Lines[d] :
              /\ TxnAt(d, i) \in Uploads
              /\ TxnAt(d, i) \in Txns
              /\ MonthOf[TxnAt(d, i)] \in Months
              /\ NameAt(d, i) \in Names
              /\ MerchantOf[NameAt(d, i)] \in Merchants
<1> DEFINE Line == [txn: Uploads, name: Names]
<1>1. Lines[d] \in Seq(Line) /\ Lines[d] # <<>>
  BY LedgerAssumption
<1> HIDE DEF Line
<1>2. Len(Lines[d]) \in Nat /\ DOMAIN Lines[d] = 1..Len(Lines[d])
  BY <1>1
<1>3. Len(Lines[d]) # 0
  BY <1>1
<1>4. \A i \in DOMAIN Lines[d] : Lines[d][i] \in Line
  BY <1>1
<1>5. \A i \in DOMAIN Lines[d] : TxnAt(d, i) \in Uploads /\ NameAt(d, i) \in Names
  BY <1>4 DEF TxnAt, NameAt, Line
<1>6. QED
  BY <1>2, <1>3, <1>5, LedgerAssumption DEF Txns

\* What a rollup reads is a set of rows as the rollup table may hold.
LEMMA SnapshotType ==
  ASSUME txn \in [Txns -> Row], name \in [Merchants -> Names \cup {Unknown}],
         NEW m \in Months
  PROVE  Snapshot(m) \in Sums
<1>1. \A x \in Txns : Shown(x) \in Names \cup {Unknown}
  BY DEF Shown, Row
<1>2. \A x \in Live(m) : x \in Txns /\ txn[x].category \in {"none", "chosen"}
  BY DEF Live, Row
<1>3. QED
  BY <1>1, <1>2 DEF Snapshot, Sums

\* A user's call puts a row that is live or deleted, or names a merchant.
UserPut(x) ==
  \E r \in Row :
    /\ r.state # "absent"
    /\ \/ r.merchant = Unknown
       \/ r.merchant = txn[x].merchant
       \/ name[r.merchant] # Unknown
       \/ x \in Manual /\ r.merchant = post[x]
    /\ UserChanges(x, r)

LEMMA UserPuts ==
  ASSUME TypeOK, NEW x \in Txns, User(x)
  PROVE  /\ edits' \in 0..MaxEdits
         /\ \/ UserPut(x) /\ post' \in [Manual -> Merchants \cup {Unknown}]
               /\ \A y \in Manual : post'[y] # Unknown => post'[y] = post[y]
            \/ NameManual(x)
<1>1. txn[x] \in Row
  BY DEF TypeOK
<1>2. Edit => edits' \in 0..MaxEdits
  BY LedgerAssumption DEF Edit, TypeOK
<1>3. CASE CreateManual(x)
  <2>1. PICK c \in {"none", "chosen"} :
          UserChanges(x, [state |-> "live", merchant |-> post[x], category |-> c])
    BY <1>3 DEF CreateManual
  <2> DEFINE r == [state |-> "live", merchant |-> post[x], category |-> c]
  <2>2. x \in Manual /\ r \in Row
    BY <1>3 DEF CreateManual, TypeOK, Row
  <2>3. UserPut(x)
    BY <2>1, <2>2 DEF UserPut
  <2>4. /\ post' \in [Manual -> Merchants \cup {Unknown}]
        /\ \A y \in Manual : post'[y] # Unknown => post'[y] = post[y]
    BY <1>3 DEF CreateManual, TypeOK
  <2>5. edits' \in 0..MaxEdits
    BY <1>2, <1>3 DEF CreateManual, TypeOK
  <2>6. QED
    BY <2>3, <2>4, <2>5
<1>4. CASE UpdateTransaction(x)
  <2>1. ASSUME \E k \in Merchants \cup {Unknown} :
                 /\ k # Unknown => name[k] # Unknown
                 /\ UserChanges(x, [txn[x] EXCEPT !.merchant = k])
        PROVE  UserPut(x)
    <3>1. PICK k \in Merchants \cup {Unknown} :
               /\ k # Unknown => name[k] # Unknown
               /\ UserChanges(x, [txn[x] EXCEPT !.merchant = k])
      BY <2>1
    <3> DEFINE r == [txn[x] EXCEPT !.merchant = k]
    <3>2. r \in Row /\ r.state # "absent" /\ r.merchant = k
      BY <1>1, <1>4 DEF UpdateTransaction, Row
    <3>3. QED
      BY <3>1, <3>2 DEF UserPut
  <2>2. ASSUME \E c \in {"none", "chosen"} :
                 UserChanges(x, [txn[x] EXCEPT !.category = c])
        PROVE  UserPut(x)
    <3>1. PICK c \in {"none", "chosen"} :
            UserChanges(x, [txn[x] EXCEPT !.category = c])
      BY <2>2
    <3> DEFINE r == [txn[x] EXCEPT !.category = c]
    <3>2. r \in Row /\ r.state # "absent" /\ r.merchant = txn[x].merchant
      BY <1>1, <1>4 DEF UpdateTransaction, Row
    <3>3. QED
      BY <3>1, <3>2 DEF UserPut
  <2>3. QED
    BY <1>2, <1>4, <2>1, <2>2 DEF UpdateTransaction, TypeOK
<1>5. CASE SoftDelete(x)
  <2> DEFINE r == [txn[x] EXCEPT !.state = "deleted"]
  <2>1. r \in Row /\ r.state # "absent" /\ r.merchant = txn[x].merchant
    BY <1>1 DEF Row
  <2>2. UserPut(x)
    BY <1>5, <2>1 DEF SoftDelete, UserPut
  <2>3. QED
    BY <1>2, <1>5, <2>2 DEF SoftDelete, TypeOK
<1>6. CASE NameManual(x)
  BY <1>2, <1>6 DEF NameManual
<1>7. QED
  BY <1>3, <1>4, <1>5, <1>6 DEF User
-----------------------------------------------------------------------------
(* Types. *)

\* An empty ledger is well typed.
LEMMA InitType == Init => TypeOK
  BY NoJobType, LedgerAssumption
  DEF Init, TypeOK, NoRow, Row, NotUpserting, Upserter, NotRolling, Roller, Sums,
      InLoop

\* A change that is noted leaves the rollups' history and processors well typed.
LEMMA NoteType ==
  ASSUME TypeOK, NEW M, NEW cause \in Causes, Note(M, cause)
  PROVE  /\ missed' \in [Months -> SUBSET Causes]
         /\ roll' \in [Months -> Roller]
<1>1. ASSUME NEW m \in Months
      PROVE  [roll[m] EXCEPT !.since = @ \cup {cause}] \in Roller /\ roll[m] \in Roller
  BY DEF TypeOK, Roller
<1>2. roll' \in [Months -> Roller]
  BY <1>1 DEF Note
<1>3. QED
  BY <1>2 DEF Note, TypeOK

\* A row that is put leaves the ledger well typed.
LEMMA PutType ==
  ASSUME TypeOK, NEW x \in Txns, NEW r \in Row, NEW cause \in Causes,
         Put(x, r, cause)
  PROVE  /\ txn' \in [Txns -> Row]
         /\ missed' \in [Months -> SUBSET Causes]
         /\ roll' \in [Months -> Roller]
  BY NoteType DEF Put, TypeOK

\* So does a merchant that is named.
LEMMA NameType ==
  ASSUME TypeOK, NEW n \in Names, NameMerchant(n)
  PROVE  /\ name' \in [Merchants -> Names \cup {Unknown}]
         /\ MerchantOf[n] \in Merchants
         /\ missed' \in [Months -> SUBSET Causes]
         /\ roll' \in [Months -> Roller]
<1>1. missed' \in [Months -> SUBSET Causes] /\ roll' \in [Months -> Roller]
  BY NoteType DEF NameMerchant, Causes
<1>2. QED
  BY <1>1, LedgerAssumption DEF NameMerchant, TypeOK

\* The loop stays within the lines.
LEMMA NextLineType ==
  ASSUME TypeOK, NEW d \in Docs, InLoop(d),
         NEW keys \in SUBSET Months, NextLine(d, keys)
  PROVE  /\ upsert' \in [Docs -> Upserter]
         /\ \A e \in Docs : InLoop(e)' => upsert'[e].line \in DOMAIN Lines[e]
<1>1. /\ upsert[d].line \in 1..Len(Lines[d])
      /\ Len(Lines[d]) \in Nat /\ DOMAIN Lines[d] = 1..Len(Lines[d])
  BY LineFacts DEF TypeOK
<1>2. upsert'[d] = IF upsert[d].line = Len(Lines[d])
                   THEN [pc |-> "enqueue", line |-> 0, keys |-> keys]
                   ELSE [pc |-> "merchant", line |-> upsert[d].line + 1, keys |-> keys]
  BY DEF NextLine, TypeOK
<1>3. upsert'[d] \in Upserter
  BY <1>1, <1>2 DEF Upserter
<1>4. InLoop(d)' => upsert'[d].line \in DOMAIN Lines[d]
  BY <1>1, <1>2 DEF InLoop
<1>5. /\ upsert' \in [Docs -> Upserter]
      /\ \A e \in Docs \ {d} : upsert'[e] = upsert[e]
  BY <1>3 DEF NextLine, TypeOK
<1>6. QED
  BY <1>4, <1>5 DEF TypeOK, InLoop

\* A fault stays within its bound.
LEMMA FaultType ==
  ASSUME TypeOK, NEW point, MayFault(point)
  PROVE  faults' \in 0..MaxFaults
  BY LedgerAssumption DEF MayFault, TypeOK

\* A user's call keeps the types.
LEMMA UserKeepsType ==
  ASSUME TypeOK, NEW x \in Txns, User(x)
  PROVE  TypeOK'
<1>1. edits' \in 0..MaxEdits
  BY UserPuts
<1>2. CASE UserPut(x) /\ post' \in [Manual -> Merchants \cup {Unknown}]
  <2>1. PICK r \in Row : UserChanges(x, r)
    BY <1>2 DEF UserPut
  <2>2. /\ txn' \in [Txns -> Row]
        /\ missed' \in [Months -> SUBSET Causes]
        /\ roll' \in [Months -> Roller]
    BY <2>1, PutType DEF UserChanges, Causes
  <2>3. UNCHANGED <<name, rollup, rollupJob, upsertJob, upsert, wrote, ignored,
                    upserts, faults>>
    BY <2>1 DEF UserChanges, upsertVars
  <2>4. QED
    BY <1>1, <1>2, <2>2, <2>3 DEF TypeOK, InLoop
<1>3. CASE NameManual(x)
  <2>1. PICK n \in Names : NameMerchant(n) /\ post' = [post EXCEPT ![x] = MerchantOf[n]]
    BY <1>3 DEF NameManual
  <2>2. /\ name' \in [Merchants -> Names \cup {Unknown}]
        /\ missed' \in [Months -> SUBSET Causes]
        /\ roll' \in [Months -> Roller]
        /\ post' \in [Manual -> Merchants \cup {Unknown}]
    BY <1>3, <2>1, NameType DEF NameManual, TypeOK
  <2>3. UNCHANGED <<txn, rollup, rollupJob, upsertJob, upsert, wrote, ignored,
                    upserts, faults>>
    BY <1>3 DEF NameManual, upsertVars
  <2>4. QED
    BY <1>1, <2>2, <2>3 DEF TypeOK, InLoop
<1>4. QED
  BY <1>2, <1>3, UserPuts

\* So does every step of tx_upsert.
LEMMA UpsertKeepsType ==
  ASSUME TypeOK, NEW d \in Docs,
         \/ Normalized(d) \/ UpsertStage(d) \/ UpsertThrows(d) \/ UpsertDies(d)
         \/ RetryUpsert(d)
  PROVE  TypeOK'
<1>1. upsertJob[d] \in Job /\ upsert[d] \in Upserter
  BY DEF TypeOK
<1>2. NotUpserting \in Upserter
  BY DEF NotUpserting, Upserter
<1>3. CASE Normalized(d)
  <2>1. Add(upsertJob[d]) \in Job
    BY <1>1, JobOps
  <2>2. upserts[d] + 1 \in 0..MaxUpserts
    BY <1>3, LedgerAssumption DEF Normalized, TypeOK
  <2>3. QED
    BY <1>3, <2>1, <2>2 DEF Normalized, TypeOK, books, InLoop
<1>4. CASE UpsertStart(d)
  <2>1. Take(upsertJob[d]) \in Job
    BY <1>1, <1>4, JobOps DEF UpsertStart
  <2>2. [pc |-> "merchant", line |-> 1, keys |-> {}] \in Upserter
    BY DEF Upserter
  <2>3. 1 \in DOMAIN Lines[d]
    BY LineFacts
  <2>4. QED
    BY <1>4, <2>1, <2>2, <2>3 DEF UpsertStart, TypeOK, bounds, books, InLoop
<1>5. CASE UpsertLine(d)
  <2> DEFINE x == TxnAt(d, upsert[d].line)
             k == MerchantOf[NameAt(d, upsert[d].line)]
  <2>1. InLoop(d) /\ upsert[d].line \in DOMAIN Lines[d]
    BY <1>5 DEF UpsertLine, TypeOK, InLoop
  <2>2. x \in Uploads /\ x \in Txns /\ MonthOf[x] \in Months /\ k \in Merchants
    BY <2>1, LineFacts
  <2>3. Upserted(x, k) \in Row
    BY <2>2 DEF Upserted, Row, TypeOK
  <2>4. /\ txn' \in [Txns -> Row]
        /\ missed' \in [Months -> SUBSET Causes]
        /\ roll' \in [Months -> Roller]
    BY <1>5, <2>2, <2>3, PutType DEF UpsertLine, Causes
  <2>5. upsert[d].keys \cup {MonthOf[x]} \in SUBSET Months
    BY <1>1, <2>2 DEF Upserter
  <2>6. /\ upsert' \in [Docs -> Upserter]
        /\ \A e \in Docs : InLoop(e)' => upsert'[e].line \in DOMAIN Lines[e]
    BY <1>5, <2>1, <2>5, NextLineType DEF UpsertLine
  <2>7. wrote' \in [Docs -> SUBSET Uploads]
    BY <1>5, <2>2 DEF UpsertLine, TypeOK
  <2>8. UNCHANGED <<name, post, rollup, upsertJob, rollupJob, ignored, upserts,
                    edits, faults>>
    BY <1>5 DEF UpsertLine, bounds
  <2>9. QED
    BY <2>4, <2>6, <2>7, <2>8 DEF TypeOK
<1>6. CASE SkipLine(d)
  <2>1. /\ upsert' \in [Docs -> Upserter]
        /\ \A e \in Docs : InLoop(e)' => upsert'[e].line \in DOMAIN Lines[e]
    BY <1>1, <1>6, NextLineType DEF SkipLine, Upserter, InLoop
  <2>2. QED
    BY <1>6, <2>1 DEF SkipLine, TypeOK, bounds, books
<1>7. ASSUME NEW m \in Months, EnqueueRollup(d, m)
      PROVE  TypeOK'
  <2>1. Add(rollupJob[m]) \in Job
    BY JobOps DEF TypeOK
  <2>2. [pc |-> "enqueue", line |-> 0, keys |-> upsert[d].keys \ {m}] \in Upserter
    BY <1>1 DEF Upserter
  <2>3. upsert' \in [Docs -> Upserter]
    BY <1>7, <2>2 DEF EnqueueRollup, TypeOK
  <2>4. \A e \in Docs : InLoop(e)' => upsert'[e].line \in DOMAIN Lines[e]
    BY <1>7 DEF EnqueueRollup, TypeOK, InLoop
  <2>5. ignored' \in [Months -> BOOLEAN]
    BY <1>7 DEF EnqueueRollup, TypeOK
  <2>6. QED
    BY <1>7, <2>1, <2>3, <2>4, <2>5 DEF EnqueueRollup, TypeOK, bounds, books
<1>8. CASE UpsertAck(d)
  BY <1>2, <1>8, NoJobType DEF UpsertAck, TypeOK, bounds, books, NotUpserting, InLoop
<1>9. CASE UpsertRecover(d)
  BY <1>1, <1>9, JobOps DEF UpsertRecover, TypeOK, bounds, books, InLoop
<1>10. CASE UpsertThrows(d)
  <2>1. upsertJob'  \in [Docs -> Job]
    <3>1. Fail(upsertJob[d]) \in Job
      BY <1>1, FailFacts
    <3>2. QED
      BY <1>10, <3>1 DEF UpsertThrows, TypeOK
  <2>2. QED
    BY <1>2, <1>10, <2>1, FaultType DEF UpsertThrows, TypeOK, NotUpserting, books, InLoop
<1>11. CASE UpsertDies(d)
  BY <1>2, <1>11, FaultType DEF UpsertDies, TypeOK, NotUpserting, books, InLoop
<1>12. CASE RetryUpsert(d)
  BY <1>1, <1>12, JobOps DEF RetryUpsert, TypeOK, bounds, books, InLoop
<1>13. CASE UpsertMerchant(d)
  <2>1. NameAt(d, upsert[d].line) \in Names
    BY <1>13, LineFacts DEF UpsertMerchant, TypeOK, InLoop
  <2>2. /\ name' \in [Merchants -> Names \cup {Unknown}]
        /\ missed' \in [Months -> SUBSET Causes]
        /\ roll' \in [Months -> Roller]
    BY <1>13, <2>1, NameType DEF UpsertMerchant
  <2>3. [upsert[d] EXCEPT !.pc = "upsert"] \in Upserter
    BY <1>1 DEF Upserter
  <2>4. /\ upsert' \in [Docs -> Upserter]
        /\ upsert'[d].line = upsert[d].line
        /\ \A e \in Docs \ {d} : upsert'[e] = upsert[e]
    BY <1>13, <2>3 DEF UpsertMerchant, TypeOK, Upserter
  <2>5. \A e \in Docs : InLoop(e)' => upsert'[e].line \in DOMAIN Lines[e]
    BY <1>13, <2>4 DEF UpsertMerchant, TypeOK, InLoop
  <2>6. QED
    BY <1>13, <2>2, <2>4, <2>5 DEF UpsertMerchant, TypeOK, bounds
<1>14. QED
  BY <1>3, <1>4, <1>5, <1>6, <1>7, <1>8, <1>9, <1>10, <1>11, <1>12, <1>13
  DEF UpsertStage

\* And every step of rollup_monthly.
LEMMA RollupKeepsType ==
  ASSUME TypeOK, NEW m \in Months,
         RollupStage(m) \/ RollupThrows(m) \/ RollupDies(m) \/ RetryRollup(m)
  PROVE  TypeOK'
<1>1. rollupJob[m] \in Job /\ roll[m] \in Roller
  BY DEF TypeOK
<1>2. NotRolling \in Roller
  BY DEF NotRolling, Roller, Sums
<1>3. CASE RollupStart(m)
  <2>1. Take(rollupJob[m]) \in Job
    BY <1>1, TakeFacts
  <2>2. [pc |-> "write", read |-> Snapshot(m), since |-> {}] \in Roller
    BY SnapshotType DEF TypeOK, Roller
  <2>3. QED
    BY <1>3, <2>1, <2>2 DEF RollupStart, TypeOK, upsertVars, books, InLoop, bounds
<1>4. CASE RollupWrite(m)
  <2>1. [pc |-> "ack", read |-> {}, since |-> {}] \in Roller
    BY DEF Roller, Sums
  <2>2. roll[m].read \in Sums /\ roll[m].since \in SUBSET Causes
    BY <1>1 DEF Roller
  <2>3. QED
    BY <1>4, <2>1, <2>2 DEF RollupWrite, TypeOK, upsertVars, books, InLoop, bounds
<1>5. CASE RollupAck(m)
  BY <1>2, <1>5, NoJobType DEF RollupAck, TypeOK, upsertVars, books, InLoop, bounds
<1>6. CASE RollupRecover(m)
  BY <1>1, <1>6, StallFacts DEF RollupRecover, TypeOK, upsertVars, books, InLoop, bounds
<1>7. CASE RollupThrows(m)
  BY <1>1, <1>2, <1>7, FailFacts, FaultType DEF RollupThrows, TypeOK, upsertVars, books, InLoop
<1>8. CASE RollupDies(m)
  BY <1>2, <1>8, FaultType DEF RollupDies, TypeOK, upsertVars, books, InLoop
<1>9. CASE RetryRollup(m)
  BY <1>1, <1>9, RequeueFacts DEF RetryRollup, TypeOK, upsertVars, books, InLoop, bounds
<1>10. QED
  BY <1>3, <1>4, <1>5, <1>6, <1>7, <1>8, <1>9 DEF RollupStage

\* Every step keeps the types.
LEMMA StepType == TypeOK /\ [Next]_vars => TypeOK'
<1> SUFFICES ASSUME TypeOK, [Next]_vars PROVE TypeOK'
  OBVIOUS
<1>1. CASE UNCHANGED vars
  BY <1>1 DEF vars, TypeOK, InLoop
<1>2. CASE Next
  BY <1>2, UserKeepsType, UpsertKeepsType, RollupKeepsType DEF Next
<1>3. QED
  BY <1>1, <1>2

\* The ledger, the two queues and their processors keep their types; tx_upsert
\* never reads behind the last transaction of its document.
THEOREM TypeCorrect == Spec => []TypeOK
  BY InitType, StepType, PTL DEF Spec
-----------------------------------------------------------------------------
(* The inductive invariant. *)

Valid(d, i) == TxnAt(d, i) \notin Skipped

\* Who runs tx_upsert for d holds its job; the lines behind it are in the
\* ledger, and their months are among those it will ask rollups for; it has named
\* a merchant only for a valid line.
OwnsUpsert(d) == upsert[d].pc # "idle" => upsertJob[d].state = "active"

LinesDone(d) ==
  \A i \in DOMAIN Lines[d] :
    /\ Valid(d, i)
    /\ \/ upsert[d].pc = "enqueue"
       \/ InLoop(d) /\ i < upsert[d].line
    => txn[TxnAt(d, i)].state # "absent"

KeysNoted(d) ==
  /\ upsert[d].pc = "upsert" => Valid(d, upsert[d].line)
  /\ \A i \in DOMAIN Lines[d] :
       Valid(d, i) /\ InLoop(d) /\ i < upsert[d].line
       => MonthOf[TxnAt(d, i)] \in upsert[d].keys

\* The merchants that rows, requests and processors refer to have a row, and its
\* name is one that normalizes to the merchant.
Named(k) == k = Unknown \/ name[k] # Unknown

NamesInv ==
  /\ \A k \in Merchants : name[k] # Unknown => MerchantOf[name[k]] = k
  /\ \A x \in Txns : Named(txn[x].merchant)
  /\ \A x \in Manual : Named(post[x])
  /\ \A d \in Docs :
       upsert[d].pc = "upsert" => Named(MerchantOf[NameAt(d, upsert[d].line)])

\* Who runs rollup_monthly for m holds its job; while nobody has changed the
\* month since it was read, what was read is the month, up to the names of
\* merchants if only those have changed; and whoever has changed it since has also
\* changed it since the rollup was computed.
OwnsRollup(m) == roll[m].pc # "idle" => rollupJob[m].state = "active"

ReadIsCurrent(m) ==
  roll[m].pc = "write" =>
    /\ roll[m].since = {} => roll[m].read = Snapshot(m)
    /\ roll[m].since \subseteq {"rename"} => Unspelled(roll[m].read) = Booked(m)

SinceIsMissed(m) == roll[m].pc = "write" => roll[m].since \subseteq missed[m]

UpsertInv == \A d \in Docs : OwnsUpsert(d) /\ LinesDone(d) /\ KeysNoted(d)

RollInv == \A m \in Months : OwnsRollup(m) /\ ReadIsCurrent(m) /\ SinceIsMissed(m)

IInv ==
  /\ TypeOK /\ UpsertInv /\ NamesInv /\ RollInv
  /\ SummaryIsExplained /\ RollupFollowsOrIgnored

\* The rows that are summed up, by merchant, are those of the month.
LEMMA SnapshotIsBooked ==
  TypeOK /\ NamesInv => \A m \in Months : Unspelled(Snapshot(m)) = Booked(m)
<1> SUFFICES ASSUME TypeOK, NamesInv, NEW m \in Months
             PROVE  Unspelled(Snapshot(m)) = Booked(m)
  OBVIOUS
<1> DEFINE Under(n) == IF n = Unknown THEN Unknown ELSE MerchantOf[n]
<1>1. ASSUME NEW x \in Live(m)
      PROVE  Under(Shown(x)) = txn[x].merchant
  <2>1. /\ txn[x].merchant \in Merchants \cup {Unknown}
        /\ Named(txn[x].merchant)
    BY DEF Live, TypeOK, Row, NamesInv
  <2>2. CASE txn[x].merchant = Unknown
    BY <2>2 DEF Shown
  <2>3. CASE txn[x].merchant # Unknown
    BY <2>1, <2>3 DEF Shown, Named, NamesInv
  <2>4. QED
    BY <2>2, <2>3
<1>2. Unspelled(Snapshot(m)) = {<<r[1], Under(r[2]), r[3]>> : r \in Snapshot(m)}
  BY DEF Unspelled
<1> HIDE DEF Under
<1>3. {<<r[1], Under(r[2]), r[3]>> : r \in Snapshot(m)}
        = {<<x, Under(Shown(x)), txn[x].category>> : x \in Live(m)}
  <2>1. ASSUME NEW x \in Live(m)
        PROVE  \E r \in Snapshot(m) :
                 <<r[1], Under(r[2]), r[3]>> = <<x, Under(Shown(x)), txn[x].category>>
    <3>1. <<x, Shown(x), txn[x].category>> \in Snapshot(m)
      BY DEF Snapshot
    <3>2. QED
      BY <3>1
  <2>2. ASSUME NEW r \in Snapshot(m)
        PROVE  \E x \in Live(m) :
                 <<r[1], Under(r[2]), r[3]>> = <<x, Under(Shown(x)), txn[x].category>>
    <3>1. PICK x \in Live(m) : r = <<x, Shown(x), txn[x].category>>
      BY DEF Snapshot
    <3>2. r[1] = x /\ r[2] = Shown(x) /\ r[3] = txn[x].category
      BY <3>1
    <3>3. QED
      BY <3>2
  <2>3. QED
    BY <2>1, <2>2
<1>4. {<<x, Under(Shown(x)), txn[x].category>> : x \in Live(m)} = Booked(m)
  BY <1>1 DEF Booked
<1>5. QED
  BY <1>2, <1>3, <1>4

\* The same of the next state.
LEMMA SnapshotIsBookedNext ==
  TypeOK' /\ NamesInv' => (\A m \in Months : Unspelled(Snapshot(m)) = Booked(m))'
  BY SnapshotIsBooked, PTL

\* It holds of the empty ledger.
LEMMA InitIInv == Init => IInv
<1> SUFFICES ASSUME Init PROVE IInv
  OBVIOUS
<1>1. UpsertInv
  BY DEF Init, UpsertInv, OwnsUpsert, LinesDone, KeysNoted, NotUpserting, InLoop
<1>2. RollInv
  BY DEF Init, RollInv, OwnsRollup, ReadIsCurrent, SinceIsMissed, NotRolling
<1>3. NamesInv
  BY DEF Init, NamesInv, Named, NoRow, NotUpserting
<1>4. SummaryIsExplained
  BY <1>3, InitType, SnapshotIsBooked DEF Init, SummaryIsExplained, Summary
<1>5. RollupFollowsOrIgnored
  BY DEF Init, RollupFollowsOrIgnored
<1>6. QED
  BY <1>1, <1>2, <1>3, <1>4, <1>5, InitType DEF IInv
-----------------------------------------------------------------------------
(* Steps of tx_upsert and of the others, as seen by a document. *)

DocStep(d) ==
  Normalized(d) \/ UpsertStage(d) \/ UpsertThrows(d) \/ UpsertDies(d) \/ RetryUpsert(d)

MonthStep(m) ==
  RollupStage(m) \/ RollupThrows(m) \/ RollupDies(m) \/ RetryRollup(m)

\* No row of the ledger ever vanishes.
Kept == \A x \in Txns : txn[x].state # "absent" => txn'[x].state # "absent"

\* A row that is put is kept, as are the others.
LEMMA PutKeeps ==
  ASSUME TypeOK, NEW x \in Txns, NEW r \in Row, r.state # "absent", NEW cause,
         Put(x, r, cause)
  PROVE  Kept /\ txn'[x] = r
  BY DEF Put, TypeOK, Kept

\* A line that is booked is a row put by an upload.
LEMMA LinePuts ==
  ASSUME TypeOK, NEW d \in Docs, UpsertLine(d)
  PROVE  \E x \in Txns, r \in Row :
           /\ x = TxnAt(d, upsert[d].line) /\ r.state # "absent"
           /\ r.merchant = MerchantOf[NameAt(d, upsert[d].line)]
           /\ Put(x, r, "upload")
<1> DEFINE x == TxnAt(d, upsert[d].line)
           r == Upserted(x, MerchantOf[NameAt(d, upsert[d].line)])
<1>1. upsert[d].line \in DOMAIN Lines[d]
  BY DEF UpsertLine, TypeOK, InLoop
<1>2. x \in Txns /\ MerchantOf[NameAt(d, upsert[d].line)] \in Merchants
  BY <1>1, LineFacts
<1>3. r \in Row /\ r.state # "absent" /\ r.merchant = MerchantOf[NameAt(d, upsert[d].line)]
  BY <1>2 DEF Upserted, Row, TypeOK
<1>4. Put(x, r, "upload")
  BY DEF UpsertLine
<1>5. QED
  BY <1>2, <1>3, <1>4

\* A step of one document leaves the processors and jobs of the others alone.
LEMMA DocFrame ==
  ASSUME TypeOK, NEW d \in Docs, DocStep(d)
  PROVE  /\ \A e \in Docs \ {d} :
              upsert'[e] = upsert[e] /\ upsertJob'[e] = upsertJob[e]
         /\ Kept
<1>1. CASE Normalized(d)
  BY <1>1 DEF Normalized, TypeOK, Kept, books
<1>2. CASE UpsertStart(d)
  BY <1>2 DEF UpsertStart, TypeOK, Kept, books
<1>3. CASE UpsertLine(d)
  <2>1. PICK x \in Txns, r \in Row : r.state # "absent" /\ Put(x, r, "upload")
    BY <1>3, LinePuts
  <2>2. Kept
    BY <2>1, PutKeeps
  <2>3. QED
    BY <1>3, <2>2 DEF UpsertLine, NextLine, TypeOK
<1>4. CASE SkipLine(d) \/ UpsertMerchant(d)
  BY <1>4 DEF SkipLine, UpsertMerchant, NextLine, TypeOK, Kept, books
<1>5. CASE \E m \in Months : EnqueueRollup(d, m)
  BY <1>5 DEF EnqueueRollup, TypeOK, Kept, books
<1>6. CASE UpsertAck(d)
  BY <1>6 DEF UpsertAck, TypeOK, Kept, books
<1>7. CASE UpsertRecover(d)
  BY <1>7 DEF UpsertRecover, TypeOK, Kept, books
<1>8. CASE UpsertThrows(d)
  BY <1>8 DEF UpsertThrows, TypeOK, Kept, books
<1>9. CASE UpsertDies(d)
  BY <1>9 DEF UpsertDies, TypeOK, Kept, books
<1>10. CASE RetryUpsert(d)
  BY <1>10 DEF RetryUpsert, TypeOK, Kept, books
<1>11. QED
  BY <1>1, <1>2, <1>3, <1>4, <1>5, <1>6, <1>7, <1>8, <1>9, <1>10
  DEF DocStep, UpsertStage

\* While nothing vanishes, a document that is left alone keeps its invariant.
LEMMA UpsertFrame ==
  ASSUME NEW d \in Docs, OwnsUpsert(d), LinesDone(d), KeysNoted(d), Kept,
         upsert'[d] = upsert[d],
         upsert[d].pc # "idle" => upsertJob'[d].state = "active"
  PROVE  OwnsUpsert(d)' /\ LinesDone(d)' /\ KeysNoted(d)'
<1>1. OwnsUpsert(d)'
  BY DEF OwnsUpsert
<1>2. LinesDone(d)'
  BY LineFacts DEF LinesDone, Valid, Kept, InLoop
<1>3. KeysNoted(d)'
  BY DEF KeysNoted, Valid, InLoop
<1>4. QED
  BY <1>1, <1>2, <1>3

\* A processor that stops has nothing to keep.
LEMMA UpsertStops ==
  ASSUME NEW d \in Docs, upsert'[d].pc = "idle"
  PROVE  OwnsUpsert(d)' /\ LinesDone(d)' /\ KeysNoted(d)'
  BY DEF OwnsUpsert, LinesDone, KeysNoted, InLoop

\* The loop goes on behind a line that is skipped, or booked and noted.
LEMMA NextLineKeeps ==
  ASSUME TypeOK, NEW d \in Docs, OwnsUpsert(d), LinesDone(d), KeysNoted(d), Kept,
         InLoop(d), upsertJob' = upsertJob,
         NEW keys, upsert[d].keys \subseteq keys, NextLine(d, keys),
         Valid(d, upsert[d].line) =>
           /\ txn'[TxnAt(d, upsert[d].line)].state # "absent"
           /\ MonthOf[TxnAt(d, upsert[d].line)] \in keys
  PROVE  /\ OwnsUpsert(d)' /\ LinesDone(d)' /\ KeysNoted(d)'
         /\ \A i \in DOMAIN Lines[d] :
              Valid(d, i) /\ upsert'[d].pc = "enqueue"
              => MonthOf[TxnAt(d, i)] \in upsert'[d].keys
<1> DEFINE l == upsert[d].line
<1>1. /\ l \in 1..Len(Lines[d])
      /\ Len(Lines[d]) \in Nat /\ DOMAIN Lines[d] = 1..Len(Lines[d])
  BY LineFacts DEF TypeOK
<1>2. upsert'[d] = IF l = Len(Lines[d])
                   THEN [pc |-> "enqueue", line |-> 0, keys |-> keys]
                   ELSE [pc |-> "merchant", line |-> l + 1, keys |-> keys]
  BY DEF NextLine, TypeOK
<1>3. \A i \in DOMAIN Lines[d] :
        Valid(d, i) /\ i <= l => /\ txn'[TxnAt(d, i)].state # "absent"
                                 /\ MonthOf[TxnAt(d, i)] \in keys
  <2> SUFFICES ASSUME NEW i \in DOMAIN Lines[d], Valid(d, i), i <= l
               PROVE  /\ txn'[TxnAt(d, i)].state # "absent"
                      /\ MonthOf[TxnAt(d, i)] \in keys
    OBVIOUS
  <2>1. CASE i = l
    BY <2>1
  <2>2. CASE i < l
    BY <2>2, LineFacts DEF LinesDone, KeysNoted, Kept
  <2>3. QED
    BY <1>1, <2>1, <2>2
<1>4. OwnsUpsert(d)'
  BY DEF OwnsUpsert, InLoop
<1>5. CASE l = Len(Lines[d])
  <2>1. upsert'[d] = [pc |-> "enqueue", line |-> 0, keys |-> keys]
    BY <1>2, <1>5
  <2>2. \A i \in DOMAIN Lines[d] : i <= l
    BY <1>1, <1>5
  <2>3. QED
    BY <1>3, <1>4, <2>1, <2>2 DEF LinesDone, KeysNoted, Valid, InLoop
<1>6. CASE l # Len(Lines[d])
  <2>1. upsert'[d] = [pc |-> "merchant", line |-> l + 1, keys |-> keys]
    BY <1>2, <1>6
  <2>2. \A i \in DOMAIN Lines[d] : i < l + 1 => i <= l
    BY <1>1
  <2>3. QED
    BY <1>3, <1>4, <2>1, <2>2 DEF LinesDone, KeysNoted, Valid, InLoop
<1>7. QED
  BY <1>5, <1>6

\* One turn of the loop books the line and notes its month, or skips it.
LEMMA UpsertLineKeeps ==
  ASSUME TypeOK, NEW d \in Docs, OwnsUpsert(d), LinesDone(d), KeysNoted(d),
         UpsertLine(d) \/ SkipLine(d)
  PROVE  /\ OwnsUpsert(d)' /\ LinesDone(d)' /\ KeysNoted(d)'
         /\ \A i \in DOMAIN Lines[d] :
              Valid(d, i) /\ upsert'[d].pc = "enqueue"
              => MonthOf[TxnAt(d, i)] \in upsert'[d].keys
<1> DEFINE x == TxnAt(d, upsert[d].line)
<1>1. InLoop(d) /\ upsertJob' = upsertJob
  BY DEF UpsertLine, SkipLine, bounds, InLoop
<1>2. upsert[d].line \in DOMAIN Lines[d] /\ x \in Txns
  BY <1>1, LineFacts DEF TypeOK
<1>3. CASE UpsertLine(d)
  <2>1. PICK r \in Row : r.state # "absent" /\ Put(x, r, "upload")
    BY <1>3, LinePuts
  <2>2. Kept /\ txn'[x].state # "absent"
    BY <1>2, <2>1, PutKeeps
  <2>3. NextLine(d, upsert[d].keys \cup {MonthOf[x]})
    BY <1>3 DEF UpsertLine
  <2>4. QED
    BY <1>1, <2>2, <2>3, NextLineKeeps
<1>4. CASE SkipLine(d)
  <2>1. Kept
    BY <1>4 DEF SkipLine, Kept, books
  <2>2. ~Valid(d, upsert[d].line) /\ NextLine(d, upsert[d].keys)
    BY <1>4 DEF SkipLine, Valid
  <2>3. QED
    BY <1>1, <2>1, <2>2, NextLineKeeps
<1>5. QED
  BY <1>3, <1>4

\* Every step of tx_upsert keeps the invariant of its document.
LEMMA DocKeepsOwn ==
  ASSUME TypeOK, NEW d \in Docs, OwnsUpsert(d), LinesDone(d), KeysNoted(d), DocStep(d)
  PROVE  OwnsUpsert(d)' /\ LinesDone(d)' /\ KeysNoted(d)'
<1>1. upsertJob[d] \in Job /\ Kept
  BY DocFrame DEF TypeOK
<1>2. CASE Normalized(d)
  <2>1. upsertJob[d].state = "active" => Add(upsertJob[d]) = upsertJob[d]
    BY <1>1, AddFacts DEF Exists
  <2>2. upsert' = upsert /\ upsertJob'[d] = Add(upsertJob[d])
    BY <1>2 DEF Normalized, TypeOK
  <2>3. QED
    BY <1>1, <2>1, <2>2, UpsertFrame DEF OwnsUpsert
<1>3. CASE UpsertStart(d)
  <2>1. /\ upsert'[d] = [pc |-> "merchant", line |-> 1, keys |-> {}]
        /\ upsertJob'[d] = Take(upsertJob[d])
    BY <1>3 DEF UpsertStart, TypeOK
  <2>2. \A i \in DOMAIN Lines[d] : ~(i < 1)
    BY LineFacts
  <2>3. QED
    BY <1>1, <2>1, <2>2, TakeFacts DEF OwnsUpsert, LinesDone, KeysNoted, InLoop
<1>4. CASE UpsertLine(d) \/ SkipLine(d)
  BY <1>4, UpsertLineKeeps
<1>5. CASE \E m \in Months : EnqueueRollup(d, m)
  <2>1. PICK m \in Months : EnqueueRollup(d, m)
    BY <1>5
  <2>2. /\ upsert[d].pc = "enqueue" /\ upsertJob' = upsertJob
        /\ upsert'[d].pc = "enqueue"
    BY <2>1 DEF EnqueueRollup, TypeOK, bounds
  <2>3. OwnsUpsert(d)' /\ KeysNoted(d)'
    BY <2>2 DEF OwnsUpsert, KeysNoted, InLoop
  <2>4. LinesDone(d)'
    BY <1>1, <2>2, LineFacts DEF LinesDone, Valid, Kept, InLoop
  <2>5. QED
    BY <2>3, <2>4
<1>6. CASE UpsertAck(d)
  BY <1>6, UpsertStops DEF UpsertAck, NotUpserting, TypeOK
<1>7. CASE UpsertRecover(d)
  BY <1>1, <1>7, UpsertFrame DEF UpsertRecover
<1>8. CASE UpsertThrows(d)
  BY <1>8, UpsertStops DEF UpsertThrows, NotUpserting, TypeOK
<1>9. CASE UpsertDies(d)
  BY <1>9, UpsertStops DEF UpsertDies, NotUpserting, TypeOK
<1>10. CASE RetryUpsert(d)
  <2>1. upsert[d].pc = "idle"
    BY <1>10 DEF RetryUpsert, OwnsUpsert
  <2>2. QED
    BY <1>1, <1>10, <2>1, UpsertFrame DEF RetryUpsert
<1>11. CASE UpsertMerchant(d)
  <2>1. /\ upsert[d].pc = "merchant" /\ upsert'[d].pc = "upsert"
        /\ upsert'[d].line = upsert[d].line /\ upsert'[d].keys = upsert[d].keys
        /\ upsertJob' = upsertJob /\ Valid(d, upsert[d].line)
    BY <1>11 DEF UpsertMerchant, TypeOK, Upserter, Valid
  <2>2. OwnsUpsert(d)' /\ KeysNoted(d)'
    BY <2>1 DEF OwnsUpsert, KeysNoted, InLoop, Valid
  <2>3. LinesDone(d)'
    BY <1>1, <2>1, LineFacts DEF LinesDone, InLoop, Valid, Kept
  <2>4. QED
    BY <2>2, <2>3
<1>12. QED
  BY <1>2, <1>3, <1>4, <1>5, <1>6, <1>7, <1>8, <1>9, <1>10, <1>11
  DEF DocStep, UpsertStage

\* A rollup job and its processor never touch the transactions or tx_upsert.
LEMMA MonthLeavesDocs ==
  ASSUME NEW m \in Months, MonthStep(m)
  PROVE  UNCHANGED <<txn, name, post, upsertJob, upsert>>
  BY DEF MonthStep, RollupStage, RollupStart, RollupWrite, RollupAck, RollupRecover,
         RollupThrows, RollupDies, RetryRollup, upsertVars, bounds, books

\* A user's call only changes rows, months and the processors' reads.
LEMMA UserLeavesDocs ==
  ASSUME TypeOK, NEW x \in Txns, User(x)
  PROVE  Kept /\ UNCHANGED <<upsertJob, upsert>>
<1>1. CASE UserPut(x)
  <2>1. PICK r \in Row : r.state # "absent" /\ UserChanges(x, r)
    BY <1>1 DEF UserPut
  <2>2. Kept
    BY <2>1, PutKeeps DEF UserChanges
  <2>3. QED
    BY <2>1, <2>2 DEF UserChanges, upsertVars
<1>2. CASE NameManual(x)
  BY <1>2 DEF NameManual, Kept, upsertVars
<1>3. QED
  BY <1>1, <1>2, UserPuts

\* Every step keeps the invariant of every document.
LEMMA StepUpsertInv ==
  ASSUME TypeOK, UpsertInv, Next
  PROVE  UpsertInv'
<1> SUFFICES ASSUME NEW d \in Docs
             PROVE  OwnsUpsert(d)' /\ LinesDone(d)' /\ KeysNoted(d)'
  BY DEF UpsertInv
<1>1. OwnsUpsert(d) /\ LinesDone(d) /\ KeysNoted(d)
  BY DEF UpsertInv
<1>2. CASE \E x \in Txns : User(x)
  BY <1>1, <1>2, UserLeavesDocs, UpsertFrame DEF OwnsUpsert
<1>3. ASSUME NEW e \in Docs, DocStep(e)
      PROVE  OwnsUpsert(d)' /\ LinesDone(d)' /\ KeysNoted(d)'
  <2>1. CASE e = d
    BY <1>1, <1>3, <2>1, DocKeepsOwn
  <2>2. CASE e # d
    BY <1>1, <1>3, <2>2, DocFrame, UpsertFrame DEF OwnsUpsert
  <2>3. QED
    BY <2>1, <2>2
<1>4. CASE \E m \in Months : MonthStep(m)
  BY <1>1, <1>4, MonthLeavesDocs, UpsertFrame DEF OwnsUpsert, Kept
<1>5. QED
  BY <1>2, <1>3, <1>4 DEF Next, DocStep, MonthStep
-----------------------------------------------------------------------------
(* The rollup of a month against the month. *)

Explained(m) ==
  /\ missed[m] = {} => Summary(m) = Snapshot(m)
  /\ missed[m] \subseteq {"rename"} => Unspelled(Summary(m)) = Booked(m)

\* A month is the same while its transactions and their merchants' names are, or a
\* transaction of another month is put.
LEMMA SnapshotFrame ==
  ASSUME TypeOK, NEW m \in Months, name' = name,
         \/ txn' = txn
         \/ \E x \in Txns, r \in Row, cause \in Causes :
              MonthOf[x] # m /\ Put(x, r, cause)
  PROVE  Snapshot(m)' = Snapshot(m) /\ Booked(m)' = Booked(m)
<1>1. CASE txn' = txn
  BY <1>1 DEF Snapshot, Booked, Live, Shown
<1>2. ASSUME NEW x \in Txns, NEW r \in Row, NEW cause \in Causes,
             MonthOf[x] # m, Put(x, r, cause)
      PROVE  Snapshot(m)' = Snapshot(m) /\ Booked(m)' = Booked(m)
  <2>1. \A y \in Txns : MonthOf[y] = m => txn'[y] = txn[y]
    BY <1>2 DEF Put, TypeOK
  <2>2. Live(m)' = Live(m)
    BY <2>1 DEF Live
  <2>3. \A y \in Live(m) : txn'[y] = txn[y] /\ Shown(y)' = Shown(y)
    BY <2>1 DEF Live, Shown
  <2>4. Snapshot(m)' = Snapshot(m)
    BY <2>2, <2>3 DEF Snapshot
  <2>5. Booked(m)' = Booked(m)
    BY <2>2, <2>3 DEF Booked
  <2>6. QED
    BY <2>4, <2>5
<1>3. QED
  BY <1>1, <1>2

\* A month that is left alone keeps its invariant.
LEMMA RollFrame ==
  ASSUME NEW m \in Months,
         OwnsRollup(m), ReadIsCurrent(m), SinceIsMissed(m), Explained(m),
         Snapshot(m)' = Snapshot(m), Booked(m)' = Booked(m),
         roll'[m] = roll[m], missed'[m] = missed[m], rollup'[m] = rollup[m],
         roll[m].pc # "idle" => rollupJob'[m].state = "active"
  PROVE  OwnsRollup(m)' /\ ReadIsCurrent(m)' /\ SinceIsMissed(m)' /\ Explained(m)'
<1>1. Summary(m)' = Summary(m)
  BY DEF Summary
<1>2. Unspelled(Summary(m))' = Unspelled(Summary(m))
  BY <1>1 DEF Unspelled
<1>3. Unspelled(roll[m].read)' = Unspelled(roll[m].read)
  BY DEF Unspelled
<1>4. OwnsRollup(m)' /\ SinceIsMissed(m)'
  BY DEF OwnsRollup, SinceIsMissed
<1>5. ReadIsCurrent(m)'
  BY <1>3 DEF ReadIsCurrent
<1>6. Explained(m)'
  BY <1>1, <1>2 DEF Explained
<1>7. QED
  BY <1>4, <1>5, <1>6

\* What a change that is noted does to the history of a month.
LEMMA NoteFacts ==
  ASSUME TypeOK, NEW M, NEW cause \in Causes, Note(M, cause), NEW m \in Months
  PROVE  /\ m \notin M => missed'[m] = missed[m] /\ roll'[m] = roll[m]
         /\ m \in M => missed'[m] = missed[m] \cup {cause}
         /\ m \in M /\ roll[m].pc # "write" => roll'[m] = roll[m]
         /\ m \in M /\ roll[m].pc = "write" =>
              /\ roll'[m].pc = "write" /\ roll'[m].read = roll[m].read
              /\ roll'[m].since = roll[m].since \cup {cause}
         /\ roll'[m].pc = roll[m].pc
<1>1. roll[m] \in Roller
  BY DEF TypeOK
<1>2. roll'[m] = IF m \in M /\ roll[m].pc = "write"
                 THEN [roll[m] EXCEPT !.since = @ \cup {cause}] ELSE roll[m]
  BY DEF Note
<1>3. missed'[m] = IF m \in M THEN missed[m] \cup {cause} ELSE missed[m]
  BY DEF Note
<1>4. QED
  BY <1>1, <1>2, <1>3 DEF Roller

\* A row that is put is a change the rollup misses, and so does a processor that
\* has read the month.
LEMMA PutKeepsRoll ==
  ASSUME TypeOK, NEW x \in Txns, NEW r \in Row, NEW cause \in {"upload", "user"},
         Put(x, r, cause), UNCHANGED <<name, rollup, rollupJob>>, NEW m \in Months,
         OwnsRollup(m), ReadIsCurrent(m), SinceIsMissed(m), Explained(m)
  PROVE  OwnsRollup(m)' /\ ReadIsCurrent(m)' /\ SinceIsMissed(m)' /\ Explained(m)'
<1>1. cause \in Causes /\ Note({MonthOf[x]}, cause)
  BY DEF Put, Causes
<1>2. CASE MonthOf[x] # m
  <2>1. roll'[m] = roll[m] /\ missed'[m] = missed[m]
    BY <1>1, <1>2, NoteFacts
  <2>2. Snapshot(m)' = Snapshot(m) /\ Booked(m)' = Booked(m)
    BY <1>1, <1>2, SnapshotFrame
  <2>3. QED
    BY <2>1, <2>2, RollFrame DEF OwnsRollup
<1>3. CASE MonthOf[x] = m
  <2>1. /\ missed'[m] = missed[m] \cup {cause}
        /\ roll[m].pc # "write" => roll'[m] = roll[m]
        /\ roll[m].pc = "write" => /\ roll'[m].pc = "write"
                                   /\ roll'[m].since = roll[m].since \cup {cause}
    BY <1>1, <1>3, NoteFacts
  <2>2. Explained(m)'
    BY <2>1 DEF Explained
  <2>3. OwnsRollup(m)' /\ ReadIsCurrent(m)' /\ SinceIsMissed(m)'
    BY <2>1 DEF OwnsRollup, ReadIsCurrent, SinceIsMissed
  <2>4. QED
    BY <2>2, <2>3
<1>4. QED
  BY <1>2, <1>3

\* A merchant that is named is a change of every month in which it shows under
\* another name; the others stay as they are, and all stay the same by merchant.
LEMMA NameKeepsRoll ==
  ASSUME TypeOK, TypeOK', NamesInv, NamesInv', NEW n \in Names, NameMerchant(n),
         UNCHANGED <<txn, rollup, rollupJob>>, NEW m \in Months,
         OwnsRollup(m), ReadIsCurrent(m), SinceIsMissed(m), Explained(m)
  PROVE  OwnsRollup(m)' /\ ReadIsCurrent(m)' /\ SinceIsMissed(m)' /\ Explained(m)'
<1> DEFINE k == MerchantOf[n]
           M == {MonthOf[x] : x \in {y \in Txns : /\ txn[y].state = "live"
                                                 /\ txn[y].merchant = k
                                                 /\ name[k] # n}}
<1>1. Note(M, "rename") /\ name' = [name EXCEPT ![k] = n] /\ k \in Merchants
  BY LedgerAssumption DEF NameMerchant
<1>2. Booked(m)' = Booked(m) /\ Live(m)' = Live(m)
  BY DEF Booked, Live
<1>3. Unspelled(Snapshot(m))' = Booked(m)'
  BY SnapshotIsBookedNext
<1>4. CASE m \notin M
  <2>1. roll'[m] = roll[m] /\ missed'[m] = missed[m]
    BY <1>1, <1>4, NoteFacts DEF Causes
  <2>2. ASSUME NEW x \in Live(m)
        PROVE  Shown(x)' = Shown(x)
    <3>1. x \in Txns /\ MonthOf[x] = m /\ txn[x].state = "live"
      BY DEF Live
    <3>2. txn[x].merchant = k => name[k] = n
      BY <1>4, <3>1
    <3>3. txn[x].merchant \in Merchants \cup {Unknown}
      BY <3>1 DEF TypeOK, Row
    <3>4. QED
      BY <1>1, <3>2, <3>3 DEF Shown, TypeOK
  <2>3. Snapshot(m)' = Snapshot(m)
    BY <1>2, <2>2 DEF Snapshot
  <2>4. QED
    BY <1>2, <2>1, <2>3, RollFrame DEF OwnsRollup
<1>5. CASE m \in M
  <2>1. /\ missed'[m] = missed[m] \cup {"rename"}
        /\ roll[m].pc # "write" => roll'[m] = roll[m]
        /\ roll[m].pc = "write" =>
             /\ roll'[m].pc = "write" /\ roll'[m].read = roll[m].read
             /\ roll'[m].since = roll[m].since \cup {"rename"}
    BY <1>1, <1>5, NoteFacts DEF Causes
  <2>2. OwnsRollup(m)' /\ SinceIsMissed(m)'
    BY <2>1 DEF OwnsRollup, SinceIsMissed
  <2>3. ReadIsCurrent(m)'
    <3>1. Unspelled(roll[m].read)' = Unspelled(roll'[m].read)
      BY DEF Unspelled
    <3>2. roll'[m].pc = "write" /\ roll'[m].since \subseteq {"rename"}
            => Unspelled(roll'[m].read) = Booked(m)'
      BY <1>2, <2>1 DEF ReadIsCurrent
    <3>3. roll'[m].pc = "write" => roll'[m].since # {}
      BY <2>1
    <3>4. QED
      BY <3>2, <3>3 DEF ReadIsCurrent
  <2>4. Explained(m)'
    <3>1. missed'[m] # {}
      BY <2>1
    <3>2. ASSUME missed'[m] \subseteq {"rename"}
          PROVE  Unspelled(Summary(m))' = Booked(m)'
      <4>1. Unspelled(Summary(m)) = Booked(m)
        BY <2>1, <3>2 DEF Explained
      <4>2. CASE rollup[m] = NoRollup
        <5>1. Summary(m)' = Snapshot(m)'
          BY <4>2 DEF Summary
        <5>2. QED
          BY <1>3, <5>1 DEF Unspelled
      <4>3. CASE rollup[m] # NoRollup
        <5>1. Summary(m)' = Summary(m)
          BY <4>3 DEF Summary
        <5>2. QED
          BY <1>2, <4>1, <5>1 DEF Unspelled
      <4>4. QED
        BY <4>2, <4>3
    <3>3. QED
      BY <3>1, <3>2 DEF Explained
  <2>5. QED
    BY <2>2, <2>3, <2>4
<1>6. QED
  BY <1>4, <1>5

\* A step of rollup_monthly for one month leaves the others alone.
LEMMA MonthFrame ==
  ASSUME TypeOK, NEW m \in Months, MonthStep(m)
  PROVE  \A n \in Months \ {m} :
           /\ roll'[n] = roll[n] /\ missed'[n] = missed[n]
           /\ rollup'[n] = rollup[n] /\ rollupJob'[n] = rollupJob[n]
           /\ ignored'[n] = ignored[n]
  BY DEF MonthStep, RollupStage, RollupStart, RollupWrite, RollupAck, RollupRecover,
         RollupThrows, RollupDies, RetryRollup, upsertVars, bounds, TypeOK

\* A month stays explained while it, its rollup and what the rollup misses do.
LEMMA SameExplained ==
  ASSUME NEW m \in Months, Explained(m), rollup'[m] = rollup[m], missed'[m] = missed[m],
         Snapshot(m)' = Snapshot(m), Booked(m)' = Booked(m)
  PROVE  Explained(m)'
<1>1. Summary(m)' = Summary(m)
  BY DEF Summary
<1>2. Unspelled(Summary(m))' = Unspelled(Summary(m))
  BY <1>1 DEF Unspelled
<1>3. QED
  BY <1>1, <1>2 DEF Explained

\* Every step of rollup_monthly keeps the invariant of its month: what it writes
\* is what it has read, and its misses are those since.
LEMMA MonthKeepsOwn ==
  ASSUME TypeOK, NamesInv, NEW m \in Months,
         OwnsRollup(m), ReadIsCurrent(m), SinceIsMissed(m), Explained(m), MonthStep(m)
  PROVE  OwnsRollup(m)' /\ ReadIsCurrent(m)' /\ SinceIsMissed(m)' /\ Explained(m)'
<1>1. /\ Snapshot(m)' = Snapshot(m) /\ Booked(m)' = Booked(m)
      /\ Unspelled(Snapshot(m)) = Booked(m)
      /\ Unspelled(Snapshot(m))' = Booked(m)'
  <2>1. Snapshot(m)' = Snapshot(m) /\ Booked(m)' = Booked(m)
    BY MonthLeavesDocs, SnapshotFrame
  <2>2. Unspelled(Snapshot(m)) = Booked(m)
    BY SnapshotIsBooked
  <2>3. QED
    BY <2>1, <2>2 DEF Unspelled
<1>2. rollupJob[m] \in Job
  BY DEF TypeOK
<1>3. ASSUME roll'[m].pc = "idle", rollup' = rollup, missed' = missed
      PROVE  OwnsRollup(m)' /\ ReadIsCurrent(m)' /\ SinceIsMissed(m)' /\ Explained(m)'
  <2>1. Explained(m)'
    BY <1>1, <1>3, SameExplained
  <2>2. QED
    BY <1>3, <2>1 DEF OwnsRollup, ReadIsCurrent, SinceIsMissed
<1>4. CASE RollupStart(m)
  <2>1. /\ roll'[m] = [pc |-> "write", read |-> Snapshot(m), since |-> {}]
        /\ rollupJob'[m] = Take(rollupJob[m])
        /\ missed' = missed /\ rollup' = rollup
    BY <1>4 DEF RollupStart, TypeOK
  <2>2. roll'[m].read = Snapshot(m)' /\ roll'[m].since = {} /\ roll'[m].pc = "write"
    BY <1>1, <2>1
  <2>3. Unspelled(roll[m].read)' = Booked(m)'
    BY <1>1, <2>2 DEF Unspelled
  <2>4. OwnsRollup(m)' /\ ReadIsCurrent(m)' /\ SinceIsMissed(m)'
    BY <1>2, <2>1, <2>2, <2>3, TakeFacts DEF OwnsRollup, ReadIsCurrent, SinceIsMissed
  <2>5. Explained(m)'
    BY <1>1, <2>1, SameExplained
  <2>6. QED
    BY <2>4, <2>5
<1>5. CASE RollupWrite(m)
  <2>1. /\ roll'[m].pc = "ack" /\ rollup'[m] = roll[m].read
        /\ missed'[m] = roll[m].since /\ rollupJob' = rollupJob
        /\ roll[m].pc = "write"
    BY <1>5 DEF RollupWrite, TypeOK
  <2>2. OwnsRollup(m)' /\ ReadIsCurrent(m)' /\ SinceIsMissed(m)'
    BY <2>1 DEF OwnsRollup, ReadIsCurrent, SinceIsMissed
  <2>3. missed'[m] = {} => rollup'[m] = Snapshot(m)
    BY <2>1 DEF ReadIsCurrent
  <2>4. missed'[m] \subseteq {"rename"} => Unspelled(rollup'[m]) = Booked(m)
    BY <2>1 DEF ReadIsCurrent
  <2>5. Summary(m)' = IF rollup'[m] = NoRollup THEN Snapshot(m)' ELSE rollup'[m]
    BY DEF Summary
  <2>6. missed'[m] = {} => Summary(m)' = Snapshot(m)'
    BY <1>1, <2>3, <2>5
  <2>7. missed'[m] \subseteq {"rename"} => Unspelled(Summary(m))' = Booked(m)'
    BY <1>1, <2>4, <2>5 DEF Unspelled
  <2>8. QED
    BY <2>2, <2>6, <2>7 DEF Explained
<1>6. CASE RollupAck(m)
  BY <1>3, <1>6 DEF RollupAck, NotRolling, TypeOK
<1>7. CASE RollupRecover(m)
  BY <1>1, <1>7, RollFrame DEF RollupRecover
<1>8. CASE RollupThrows(m)
  BY <1>3, <1>8 DEF RollupThrows, NotRolling, TypeOK
<1>9. CASE RollupDies(m)
  BY <1>3, <1>9 DEF RollupDies, NotRolling, TypeOK
<1>10. CASE RetryRollup(m)
  <2>1. roll[m].pc = "idle"
    BY <1>10 DEF RetryRollup, OwnsRollup
  <2>2. QED
    BY <1>1, <1>10, <2>1, RollFrame DEF RetryRollup
<1>11. QED
  BY <1>4, <1>5, <1>6, <1>7, <1>8, <1>9, <1>10 DEF MonthStep, RollupStage

\* The steps of tx_upsert that write neither a transaction nor a merchant leave the
\* books alone, and touch of the rollups only their queue, by adds.
LEMMA DocLeavesMonths ==
  ASSUME TypeOK, NEW d \in Docs, DocStep(d), ~UpsertLine(d), ~UpsertMerchant(d)
  PROVE  /\ UNCHANGED <<txn, name, post, rollup, roll, missed>>
         /\ \A m \in Months : rollupJob'[m] \in {rollupJob[m], Add(rollupJob[m])}
<1>1. CASE \E m \in Months : EnqueueRollup(d, m)
  BY <1>1 DEF EnqueueRollup, TypeOK, books
<1>2. CASE Normalized(d) \/ UpsertStart(d) \/ SkipLine(d) \/ UpsertAck(d)
  BY <1>2 DEF Normalized, UpsertStart, SkipLine, UpsertAck, bounds, books
<1>3. CASE UpsertRecover(d) \/ UpsertThrows(d) \/ UpsertDies(d) \/ RetryUpsert(d)
  BY <1>3 DEF UpsertRecover, UpsertThrows, UpsertDies, RetryUpsert, bounds, books
<1>4. QED
  BY <1>1, <1>2, <1>3 DEF DocStep, UpsertStage

\* A merchant that is named has a name of its own, and the others keep theirs.
LEMMA NameKeepsNames ==
  ASSUME TypeOK, NamesInv, NEW n \in Names, NameMerchant(n)
  PROVE  /\ \A k \in Merchants : name'[k] # Unknown => MerchantOf[name'[k]] = k
         /\ \A k \in Merchants \cup {Unknown} : Named(k) => Named(k)'
         /\ Named(MerchantOf[n])'
<1>1. /\ n # Unknown /\ MerchantOf[n] \in Merchants
      /\ name' = [name EXCEPT ![MerchantOf[n]] = n]
  BY LedgerAssumption DEF NameMerchant
<1>2. QED
  BY <1>1 DEF Named, NamesInv, TypeOK

\* Every step keeps the merchants' names, and refers to merchants that have one.
LEMMA StepNamesInv ==
  ASSUME TypeOK, NamesInv, Next
  PROVE  NamesInv'
<1> DEFINE Held(d) == MerchantOf[NameAt(d, upsert[d].line)]
<1>1. /\ \A x \in Txns : txn[x].merchant \in Merchants \cup {Unknown}
      /\ \A x \in Manual : post[x] \in Merchants \cup {Unknown}
      /\ \A d \in Docs : upsert[d].pc = "upsert" => Held(d) \in Merchants
  BY LineFacts DEF TypeOK, Row, InLoop
<1>2. ASSUME UNCHANGED <<txn, name, post>>,
             \A d \in Docs : upsert'[d].pc = "upsert" => upsert'[d] = upsert[d]
      PROVE  NamesInv'
  BY <1>2 DEF NamesInv, Named
<1>3. ASSUME NEW x \in Txns, User(x)
      PROVE  NamesInv'
  <2>1. upsert' = upsert
    BY <1>3, UserLeavesDocs
  <2>2. CASE UserPut(x) /\ \A y \in Manual : post'[y] # Unknown => post'[y] = post[y]
    <3>1. PICK r \in Row :
            /\ \/ r.merchant = Unknown
               \/ r.merchant = txn[x].merchant
               \/ name[r.merchant] # Unknown
               \/ x \in Manual /\ r.merchant = post[x]
            /\ UserChanges(x, r)
      BY <2>2 DEF UserPut
    <3>2. Named(r.merchant) /\ name' = name /\ txn' = [txn EXCEPT ![x] = r]
      BY <3>1 DEF Named, NamesInv, UserChanges, Put
    <3>3. \A y \in Txns : Named(txn[y].merchant)'
      BY <3>2 DEF NamesInv, Named, TypeOK
    <3>4. \A y \in Manual : Named(post[y])'
      BY <2>2, <3>2 DEF NamesInv, Named
    <3>5. QED
      BY <2>1, <3>2, <3>3, <3>4 DEF NamesInv, Named
  <2>3. CASE NameManual(x)
    <3>1. PICK n \in Names : NameMerchant(n) /\ post' = [post EXCEPT ![x] = MerchantOf[n]]
      BY <2>3 DEF NameManual
    <3>2. txn' = txn /\ x \in Manual
      BY <2>3 DEF NameManual
    <3>3. /\ \A k \in Merchants : name'[k] # Unknown => MerchantOf[name'[k]] = k
          /\ \A k \in Merchants \cup {Unknown} : Named(k) => Named(k)'
          /\ Named(MerchantOf[n])'
      BY <3>1, NameKeepsNames
    <3>4. \A y \in Manual : Named(post[y])'
      <4> SUFFICES ASSUME NEW y \in Manual PROVE Named(post[y])'
        OBVIOUS
      <4>1. CASE y = x
        BY <3>1, <3>3, <4>1 DEF TypeOK, Named
      <4>2. CASE y # x
        BY <1>1, <3>1, <3>3, <4>2 DEF TypeOK, Named, NamesInv
      <4>3. QED
        BY <4>1, <4>2
    <3>5. QED
      BY <1>1, <2>1, <3>2, <3>3, <3>4 DEF NamesInv, Named
  <2>4. QED
    BY <1>3, <2>2, <2>3, UserPuts
<1>4. ASSUME NEW d \in Docs, DocStep(d)
      PROVE  NamesInv'
  <2>1. \A e \in Docs \ {d} : upsert'[e] = upsert[e]
    BY <1>4, DocFrame
  <2>2. CASE UpsertLine(d)
    <3>1. PICK x \in Txns, r \in Row :
            r.merchant = MerchantOf[NameAt(d, upsert[d].line)] /\ Put(x, r, "upload")
      BY <2>2, LinePuts
    <3>2. /\ name' = name /\ post' = post /\ txn' = [txn EXCEPT ![x] = r]
          /\ upsert[d].pc = "upsert" /\ Named(r.merchant)
      BY <2>2, <3>1 DEF UpsertLine, Put, NamesInv
    <3>3. upsert'[d].pc # "upsert"
      BY <2>2 DEF UpsertLine, NextLine, TypeOK
    <3>4. \A y \in Txns : Named(txn[y].merchant)'
      BY <3>2 DEF NamesInv, Named, TypeOK
    <3>5. QED
      BY <2>1, <3>2, <3>3, <3>4 DEF NamesInv, Named
  <2>3. CASE UpsertMerchant(d)
    <3>1. PICK n \in Names : n = NameAt(d, upsert[d].line) /\ NameMerchant(n)
      BY <2>3, LineFacts DEF UpsertMerchant, TypeOK, InLoop
    <3>2. /\ txn' = txn /\ post' = post
          /\ upsert'[d].line = upsert[d].line
      BY <2>3 DEF UpsertMerchant, TypeOK, Upserter
    <3>3. /\ \A k \in Merchants : name'[k] # Unknown => MerchantOf[name'[k]] = k
          /\ \A k \in Merchants \cup {Unknown} : Named(k) => Named(k)'
          /\ Named(MerchantOf[n])'
      BY <3>1, NameKeepsNames
    <3>4. \A e \in Docs : upsert'[e].pc = "upsert"
                             => Named(MerchantOf[NameAt(e, upsert[e].line)])'
      <4> SUFFICES ASSUME NEW e \in Docs, upsert'[e].pc = "upsert"
                   PROVE  Named(MerchantOf[NameAt(e, upsert[e].line)])'
        OBVIOUS
      <4>1. CASE e = d
        BY <3>1, <3>2, <3>3, <4>1 DEF Named
      <4>2. CASE e # d
        <5>1. upsert'[e] = upsert[e]
          BY <2>1, <4>2
        <5>2. Held(e) \in Merchants /\ Named(Held(e))
          BY <1>1, <5>1 DEF NamesInv
        <5>3. Named(Held(e))'
          BY <3>3, <5>1, <5>2 DEF Named
        <5>4. QED
          BY <5>3
      <4>3. QED
        BY <4>1, <4>2
    <3>5. QED
      BY <1>1, <3>2, <3>3, <3>4 DEF NamesInv, Named
  <2>4. CASE ~UpsertLine(d) /\ ~UpsertMerchant(d)
    <3>1. UNCHANGED <<txn, name, post>>
      BY <1>4, <2>4, DocLeavesMonths
    <3>2. upsert'[d].pc = "upsert" => upsert'[d] = upsert[d]
      BY <1>4, <2>4 DEF DocStep, UpsertStage, Normalized, UpsertStart, SkipLine, NextLine,
         EnqueueRollup, UpsertAck, UpsertRecover, UpsertThrows, UpsertDies, RetryUpsert,
         NotUpserting, TypeOK
    <3>3. QED
      BY <1>2, <2>1, <3>1, <3>2
  <2>5. QED
    BY <2>2, <2>3, <2>4
<1>5. ASSUME NEW m \in Months, MonthStep(m)
      PROVE  NamesInv'
  BY <1>2, <1>5, MonthLeavesDocs
<1>6. QED
  BY <1>3, <1>4, <1>5 DEF Next, DocStep, MonthStep

\* Every step keeps the invariant of every month, and its rollup explained.
LEMMA StepRollInv ==
  ASSUME TypeOK, TypeOK', NamesInv, NamesInv', RollInv, SummaryIsExplained, Next
  PROVE  RollInv' /\ SummaryIsExplained'
<1> SUFFICES ASSUME NEW m \in Months
             PROVE  OwnsRollup(m)' /\ ReadIsCurrent(m)' /\ SinceIsMissed(m)' /\ Explained(m)'
  BY DEF RollInv, SummaryIsExplained, Explained
<1>1. OwnsRollup(m) /\ ReadIsCurrent(m) /\ SinceIsMissed(m) /\ Explained(m)
  BY DEF RollInv, SummaryIsExplained, Explained
<1>2. ASSUME NEW x \in Txns, User(x)
      PROVE  OwnsRollup(m)' /\ ReadIsCurrent(m)' /\ SinceIsMissed(m)' /\ Explained(m)'
  <2>1. CASE UserPut(x)
    <3>1. PICK r \in Row : UserChanges(x, r)
      BY <2>1 DEF UserPut
    <3>2. Put(x, r, "user") /\ UNCHANGED <<name, rollup, rollupJob>>
      BY <3>1 DEF UserChanges
    <3>3. QED
      BY <1>1, <3>2, PutKeepsRoll
  <2>2. CASE NameManual(x)
    <3>1. PICK n \in Names : NameMerchant(n)
      BY <2>2 DEF NameManual
    <3>2. UNCHANGED <<txn, rollup, rollupJob>>
      BY <2>2 DEF NameManual
    <3>3. QED
      BY <1>1, <3>1, <3>2, NameKeepsRoll
  <2>3. QED
    BY <1>2, <2>1, <2>2, UserPuts
<1>3. ASSUME NEW d \in Docs, DocStep(d)
      PROVE  OwnsRollup(m)' /\ ReadIsCurrent(m)' /\ SinceIsMissed(m)' /\ Explained(m)'
  <2>1. CASE UpsertLine(d)
    <3>1. UNCHANGED <<name, rollup, rollupJob>>
      BY <2>1 DEF UpsertLine
    <3>2. PICK x \in Txns, r \in Row : Put(x, r, "upload")
      BY <2>1, LinePuts
    <3>3. QED
      BY <1>1, <3>1, <3>2, PutKeepsRoll
  <2>2. CASE UpsertMerchant(d)
    <3>1. NameAt(d, upsert[d].line) \in Names /\ UNCHANGED <<txn, rollup, rollupJob>>
      BY <2>2, LineFacts DEF UpsertMerchant, TypeOK, InLoop
    <3>2. NameMerchant(NameAt(d, upsert[d].line))
      BY <2>2 DEF UpsertMerchant
    <3>3. QED
      BY <1>1, <3>1, <3>2, NameKeepsRoll
  <2>3. CASE ~UpsertLine(d) /\ ~UpsertMerchant(d)
    <3>1. UNCHANGED <<txn, name, rollup, roll, missed>>
      BY <1>3, <2>3, DocLeavesMonths
    <3>2. Snapshot(m)' = Snapshot(m) /\ Booked(m)' = Booked(m)
      BY <3>1, SnapshotFrame
    <3>3. rollupJob[m].state = "active" => rollupJob'[m].state = "active"
      BY <1>3, <2>3, DocLeavesMonths, AddFacts DEF TypeOK, Exists
    <3>4. QED
      BY <1>1, <3>1, <3>2, <3>3, RollFrame DEF OwnsRollup
  <2>4. QED
    BY <2>1, <2>2, <2>3
<1>4. ASSUME NEW n \in Months, MonthStep(n)
      PROVE  OwnsRollup(m)' /\ ReadIsCurrent(m)' /\ SinceIsMissed(m)' /\ Explained(m)'
  <2>1. CASE n = m
    BY <1>1, <1>4, <2>1, MonthKeepsOwn
  <2>2. CASE n # m
    <3>1. Snapshot(m)' = Snapshot(m) /\ Booked(m)' = Booked(m)
      BY <1>4, MonthLeavesDocs, SnapshotFrame
    <3>2. QED
      BY <1>1, <1>4, <2>2, <3>1, MonthFrame, RollFrame DEF OwnsRollup
  <2>3. QED
    BY <2>1, <2>2
<1>5. QED
  BY <1>2, <1>3, <1>4 DEF Next, DocStep, MonthStep
-----------------------------------------------------------------------------
(* A new rollup follows an upload, or its add was ignored. *)

Covered(m) == (\E d \in Docs : WillEnqueue(d, m)) \/ WillCover(m) \/ ignored[m]

Follows(m) == "upload" \in missed[m] => Covered(m)

\* A document goes on to ask for m while it keeps its job and, at the end of the
\* loop, the month.
LEMMA WillEnqueueFrame ==
  ASSUME NEW d \in Docs, NEW m \in Months, WillEnqueue(d, m),
         Exists(upsertJob'[d]),
         upsert'[d].pc = "enqueue" =>
           upsert'[d] = upsert[d] \/ m \in upsert'[d].keys
  PROVE  WillEnqueue(d, m)'
  BY DEF WillEnqueue, Exists

\* A month stays covered while its job, its processor's position and what uploads
\* have done since are the same.
LEMMA WillCoverFrame ==
  ASSUME NEW m \in Months, WillCover(m), Exists(rollupJob'[m]),
         roll'[m].pc = roll[m].pc,
         "upload" \in roll'[m].since => "upload" \in roll[m].since
  PROVE  WillCover(m)'
  BY DEF WillCover, Exists

\* A change that is not an upload's keeps a month covered.
LEMMA OtherChangeFollows ==
  ASSUME TypeOK, NEW M, NEW cause \in {"user", "rename"}, Note(M, cause),
         UNCHANGED <<rollupJob, ignored>>, NEW m \in Months, Follows(m),
         \A d \in Docs : WillEnqueue(d, m) => WillEnqueue(d, m)'
  PROVE  Follows(m)'
<1>1. cause \in Causes /\ cause # "upload"
  BY DEF Causes
<1>2. /\ "upload" \in missed'[m] => "upload" \in missed[m]
      /\ roll'[m].pc = roll[m].pc
      /\ roll[m].pc = "write" /\ "upload" \in roll'[m].since => "upload" \in roll[m].since
  BY <1>1, NoteFacts
<1>3. WillCover(m) => WillCover(m)'
  BY <1>2 DEF WillCover
<1>4. QED
  BY <1>2, <1>3 DEF Follows, Covered

\* In particular a user's call, a merchant's name included.
LEMMA UserFollows ==
  ASSUME TypeOK, NEW x \in Txns, User(x), NEW m \in Months, Follows(m)
  PROVE  Follows(m)'
<1>1. UNCHANGED <<upsertJob, upsert>>
  BY UserLeavesDocs
<1>2. \A d \in Docs : WillEnqueue(d, m) => WillEnqueue(d, m)'
  BY <1>1, WillEnqueueFrame DEF WillEnqueue
<1>3. CASE UserPut(x)
  <2>1. PICK r \in Row : UserChanges(x, r)
    BY <1>3 DEF UserPut
  <2>2. Note({MonthOf[x]}, "user") /\ UNCHANGED <<rollupJob, ignored>>
    BY <2>1 DEF UserChanges, Put
  <2>3. QED
    BY <1>2, <2>2, OtherChangeFollows
<1>4. CASE NameManual(x)
  <2>1. UNCHANGED <<rollupJob, ignored>>
    BY <1>4 DEF NameManual
  <2>2. \E M : Note(M, "rename")
    BY <1>4 DEF NameManual, NameMerchant
  <2>3. QED
    BY <1>2, <2>1, <2>2, OtherChangeFollows
<1>5. QED
  BY <1>3, <1>4, UserPuts

\* While a document is in its loop it will ask for the month of every valid line;
\* what another document will ask for is not affected.
LEMMA OthersFollow ==
  ASSUME TypeOK, NEW d \in Docs, DocStep(d), NEW m \in Months,
         \E e \in Docs \ {d} : WillEnqueue(e, m)
  PROVE  Covered(m)'
<1>1. PICK e \in Docs \ {d} : WillEnqueue(e, m)
  OBVIOUS
<1>2. upsert'[e] = upsert[e] /\ upsertJob'[e] = upsertJob[e]
  BY DocFrame
<1>3. WillEnqueue(e, m)'
  BY <1>1, <1>2, WillEnqueueFrame DEF WillEnqueue
<1>4. QED
  BY <1>3 DEF Covered

\* The month of the line that is booked will be asked for; a month that was to be
\* asked for still is, the last line included.
LEMMA LineFollows ==
  ASSUME TypeOK, NEW d \in Docs, OwnsUpsert(d), LinesDone(d), KeysNoted(d),
         UpsertLine(d) \/ SkipLine(d), NEW m \in Months, Follows(m)
  PROVE  Follows(m)'
<1> DEFINE l == upsert[d].line
<1>1. /\ InLoop(d) /\ l \in DOMAIN Lines[d]
      /\ UNCHANGED <<upsertJob, rollupJob, ignored>>
  BY DEF UpsertLine, SkipLine, bounds, TypeOK, InLoop
<1>2. Exists(upsertJob'[d])
  BY <1>1 DEF OwnsUpsert, Exists, InLoop
<1>3. \A i \in DOMAIN Lines[d] :
        Valid(d, i) /\ upsert'[d].pc = "enqueue"
        => MonthOf[TxnAt(d, i)] \in upsert'[d].keys
  BY UpsertLineKeeps
<1>4. \A i \in DOMAIN Lines[d] :
        Valid(d, i) /\ MonthOf[TxnAt(d, i)] = m => WillEnqueue(d, m)'
  BY <1>2, <1>3 DEF WillEnqueue, Valid, Exists
<1>5. CASE UpsertLine(d) /\ MonthOf[TxnAt(d, l)] = m
  BY <1>1, <1>4, <1>5 DEF UpsertLine, KeysNoted, Follows, Covered
<1>6. CASE SkipLine(d) \/ MonthOf[TxnAt(d, l)] # m
  <2>1. missed'[m] = missed[m] /\ roll'[m] = roll[m]
    <3>1. CASE SkipLine(d)
      BY <3>1 DEF SkipLine
    <3>2. CASE UpsertLine(d) /\ MonthOf[TxnAt(d, l)] # m
      <4>1. PICK x \in Txns, r \in Row : MonthOf[x] # m /\ Put(x, r, "upload")
        BY <3>2, LinePuts
      <4>2. QED
        BY <4>1, NoteFacts DEF Put, Causes
    <3>3. QED
      BY <1>6, <3>1, <3>2
  <2>2. WillEnqueue(d, m) => WillEnqueue(d, m)'
    BY <1>4 DEF WillEnqueue, Valid
  <2>3. WillCover(m) => WillCover(m)'
    BY <1>1, <2>1, WillCoverFrame DEF WillCover
  <2>4. DocStep(d)
    BY DEF DocStep, UpsertStage
  <2>5. QED
    BY <1>1, <2>1, <2>2, <2>3, <2>4, OthersFollow DEF Follows, Covered
<1>7. QED
  BY <1>5, <1>6

\* A merchant that is named between two lines is not an upload's change of a month,
\* and the document goes on to ask for what it would ask for.
LEMMA MerchantFollows ==
  ASSUME TypeOK, NEW d \in Docs, UpsertMerchant(d), NEW m \in Months, Follows(m)
  PROVE  Follows(m)'
<1>1. UNCHANGED <<upsertJob, rollupJob, ignored>> /\ DocStep(d)
  BY DEF UpsertMerchant, bounds, DocStep, UpsertStage
<1>2. /\ \A e \in Docs \ {d} : upsert'[e] = upsert[e]
      /\ upsert'[d].pc = "upsert"
  BY <1>1, DocFrame DEF UpsertMerchant, TypeOK, Upserter
<1>3. \A e \in Docs : WillEnqueue(e, m) => WillEnqueue(e, m)'
  BY <1>1, <1>2 DEF WillEnqueue
<1>4. \E M : Note(M, "rename")
  BY DEF UpsertMerchant, NameMerchant
<1>5. QED
  BY <1>1, <1>3, <1>4, OtherChangeFollows

\* The add of a month's rollup: a job is there in any case.  It reads what
\* uploads have done, or the add is one that was ignored.
LEMMA EnqueueFollows ==
  ASSUME TypeOK, NEW d \in Docs, NEW n \in Months, EnqueueRollup(d, n),
         NEW m \in Months, Follows(m)
  PROVE  Follows(m)'
<1>1. /\ upsert[d].pc = "enqueue"
      /\ upsert'[d] = [pc |-> "enqueue", line |-> 0, keys |-> upsert[d].keys \ {n}]
      /\ UNCHANGED <<upsertJob, roll, missed>>
  BY DEF EnqueueRollup, TypeOK, bounds
<1>2. DocStep(d)
  BY DEF DocStep, UpsertStage
<1>3. CASE m = n
  <2>1. Exists(rollupJob'[m])
    BY <1>3, AddFacts DEF EnqueueRollup, TypeOK
  <2>2. ignored'[m] = \/ ignored[m]
                      \/ roll[m].pc = "write" /\ "upload" \in roll[m].since
                      \/ roll[m].pc = "ack" /\ "upload" \in missed[m]
    BY <1>3 DEF EnqueueRollup, TypeOK
  <2>3. "upload" \in missed[m] => WillCover(m)' \/ ignored'[m]
    BY <1>1, <2>1, <2>2 DEF WillCover, Exists
  <2>4. QED
    BY <1>1, <2>3 DEF Follows, Covered
<1>4. CASE m # n
  <2>1. rollupJob'[m] = rollupJob[m] /\ ignored'[m] = ignored[m]
    BY <1>4 DEF EnqueueRollup, TypeOK
  <2>2. WillCover(m) => WillCover(m)'
    BY <1>1, <2>1, WillCoverFrame DEF WillCover
  <2>3. WillEnqueue(d, m) => WillEnqueue(d, m)'
    BY <1>1, <1>4, WillEnqueueFrame DEF WillEnqueue
  <2>4. QED
    BY <1>1, <1>2, <2>1, <2>2, <2>3, OthersFollow DEF Follows, Covered
<1>5. QED
  BY <1>3, <1>4

\* The job of a document is created, taken, failed, recovered or retried: it
\* exists, and an attempt that was cut short starts again.  When it completes
\* no add is left.
LEMMA JobFollows ==
  ASSUME TypeOK, NEW d \in Docs, OwnsUpsert(d), NEW m \in Months, Follows(m),
         \/ Normalized(d) \/ UpsertStart(d) \/ UpsertAck(d) \/ UpsertRecover(d)
         \/ UpsertThrows(d) \/ UpsertDies(d) \/ RetryUpsert(d)
  PROVE  Follows(m)'
<1>1. DocStep(d) /\ upsertJob[d] \in Job
  BY DEF DocStep, UpsertStage, TypeOK
<1>2. UNCHANGED <<rollupJob, roll, missed, ignored>>
  BY DEF Normalized, UpsertStart, UpsertAck, UpsertRecover, UpsertThrows, UpsertDies,
         RetryUpsert, bounds
<1>3. WillCover(m) => WillCover(m)'
  BY <1>2, WillCoverFrame DEF WillCover
<1>4. WillEnqueue(d, m) => WillEnqueue(d, m)'
  <2>1. CASE UpsertAck(d)
    BY <2>1 DEF UpsertAck, WillEnqueue
  <2>2. CASE Normalized(d)
    BY <1>1, <2>2, AddFacts, WillEnqueueFrame DEF Normalized, TypeOK
  <2>3. CASE UpsertStart(d)
    BY <1>1, <2>3, TakeFacts, WillEnqueueFrame DEF UpsertStart, TypeOK, Exists
  <2>4. CASE UpsertRecover(d)
    BY <1>1, <2>4, StallFacts, WillEnqueueFrame DEF UpsertRecover, TypeOK, Exists
  <2>5. CASE UpsertThrows(d)
    BY <1>1, <2>5, FailFacts, WillEnqueueFrame
    DEF UpsertThrows, TypeOK, Exists, NotUpserting
  <2>6. CASE UpsertDies(d)
    BY <2>6, WillEnqueueFrame DEF UpsertDies, TypeOK, WillEnqueue, NotUpserting
  <2>7. CASE RetryUpsert(d)
    BY <1>1, <2>7, RequeueFacts, WillEnqueueFrame DEF RetryUpsert, TypeOK, Exists
  <2>8. QED
    BY <2>1, <2>2, <2>3, <2>4, <2>5, <2>6, <2>7
<1>5. QED
  BY <1>1, <1>2, <1>3, <1>4, OthersFollow DEF Follows, Covered

\* Every step of tx_upsert keeps every month covered.
LEMMA DocFollows ==
  ASSUME TypeOK, UpsertInv, NEW d \in Docs, DocStep(d), NEW m \in Months, Follows(m)
  PROVE  Follows(m)'
  BY LineFollows, MerchantFollows, EnqueueFollows, JobFollows DEF DocStep, UpsertStage, UpsertInv

\* A rollup job that starts reads everything; one that fails, stalls or is
\* retried is kept and will read again; one that has written or completes
\* leaves a month that is covered by somebody else.
LEMMA MonthFollows ==
  ASSUME TypeOK, NEW n \in Months, OwnsRollup(n), SinceIsMissed(n), MonthStep(n),
         NEW m \in Months, Follows(m)
  PROVE  Follows(m)'
<1>1. \A d \in Docs : WillEnqueue(d, m)' <=> WillEnqueue(d, m)
  BY MonthLeavesDocs DEF WillEnqueue
<1>2. rollupJob[n] \in Job
  BY DEF TypeOK
<1>3. CASE m # n
  <2>1. /\ roll'[m] = roll[m] /\ missed'[m] = missed[m]
        /\ rollupJob'[m] = rollupJob[m] /\ ignored'[m] = ignored[m]
    BY <1>3, MonthFrame
  <2>2. WillCover(m) => WillCover(m)'
    BY <2>1, WillCoverFrame DEF WillCover
  <2>3. QED
    BY <1>1, <2>1, <2>2 DEF Follows, Covered
<1>4. CASE m = n
  <2>1. CASE RollupStart(n)
    <3>1. /\ roll'[n] = [pc |-> "write", read |-> Snapshot(n), since |-> {}]
          /\ rollupJob'[n] = Take(rollupJob[n])
      BY <2>1 DEF RollupStart, TypeOK
    <3>2. WillCover(n)'
      BY <1>2, <3>1, TakeFacts DEF WillCover, Exists
    <3>3. QED
      BY <1>4, <3>2 DEF Follows, Covered
  <2>2. CASE RollupWrite(n)
    <3>1. /\ roll[n].pc = "write" /\ missed'[n] = roll[n].since /\ ignored' = ignored
      BY <2>2 DEF RollupWrite, TypeOK
    <3>2. "upload" \in missed'[n] => "upload" \in missed[n] /\ ~WillCover(n)
      BY <3>1 DEF SinceIsMissed, WillCover
    <3>3. QED
      BY <1>1, <1>4, <3>1, <3>2 DEF Follows, Covered
  <2>3. CASE RollupAck(n)
    <3>1. ~WillCover(n) /\ UNCHANGED <<missed, ignored>>
      BY <2>3 DEF RollupAck, WillCover
    <3>2. QED
      BY <1>1, <1>4, <3>1 DEF Follows, Covered
  <2>4. CASE RollupRecover(n) \/ RetryRollup(n)
    <3>1. UNCHANGED <<roll, missed, ignored>>
      BY <2>4 DEF RollupRecover, RetryRollup, bounds
    <3>2. Exists(rollupJob'[n])
      BY <1>2, <2>4, StallFacts, RequeueFacts
      DEF RollupRecover, RetryRollup, Exists, TypeOK
    <3>3. WillCover(n) => WillCover(n)'
      BY <3>1, <3>2, WillCoverFrame
    <3>4. QED
      BY <1>1, <1>4, <3>1, <3>3 DEF Follows, Covered
  <2>5. CASE RollupThrows(n) \/ RollupDies(n)
    <3>1. roll'[n] = NotRolling
      BY <2>5 DEF RollupThrows, RollupDies, TypeOK
    <3>2. Exists(rollupJob'[n])
      BY <1>2, <2>5, FailFacts
      DEF RollupThrows, RollupDies, Exists, TypeOK, OwnsRollup
    <3>3. WillCover(n)'
      BY <3>1, <3>2 DEF WillCover, NotRolling, Exists
    <3>4. QED
      BY <1>4, <3>3 DEF Follows, Covered
  <2>6. QED
    BY <2>1, <2>2, <2>3, <2>4, <2>5 DEF MonthStep, RollupStage
<1>5. QED
  BY <1>3, <1>4

\* Every step keeps every month covered.
LEMMA StepFollows ==
  ASSUME TypeOK, UpsertInv, RollInv, RollupFollowsOrIgnored, Next
  PROVE  RollupFollowsOrIgnored'
<1> SUFFICES ASSUME NEW m \in Months PROVE Follows(m)'
  BY DEF RollupFollowsOrIgnored, Follows, Covered
<1>1. Follows(m)
  BY DEF RollupFollowsOrIgnored, Follows, Covered
<1>2. QED
  BY <1>1, UserFollows, DocFollows, MonthFollows DEF Next, DocStep, MonthStep, RollInv
-----------------------------------------------------------------------------
(* The theorems. *)

\* Every step keeps the invariant.
LEMMA StepIInv == IInv /\ [Next]_vars => IInv'
<1> SUFFICES ASSUME IInv, [Next]_vars PROVE IInv'
  OBVIOUS
<1>1. CASE Next
  BY <1>1, StepType, StepUpsertInv, StepNamesInv, StepRollInv, StepFollows DEF IInv
<1>2. CASE UNCHANGED vars
  <2>1. TypeOK'
    BY StepType DEF IInv
  <2>2. UpsertInv'
    BY <1>2 DEF vars, IInv, UpsertInv, OwnsUpsert, LinesDone, KeysNoted, InLoop, Valid
  <2>3. RollInv' /\ SummaryIsExplained'
    BY <1>2 DEF vars, IInv, RollInv, OwnsRollup, ReadIsCurrent, SinceIsMissed,
                SummaryIsExplained, Summary, Snapshot, Booked, Unspelled, Live, Shown
  <2>4. NamesInv'
    BY <1>2 DEF vars, IInv, NamesInv, Named
  <2>5. RollupFollowsOrIgnored'
    BY <1>2 DEF vars, IInv, RollupFollowsOrIgnored, WillEnqueue, WillCover
  <2>6. QED
    BY <2>1, <2>2, <2>3, <2>4, <2>5 DEF IInv
<1>3. QED
  BY <1>1, <1>2

\* The invariant holds in every reachable state, with any documents, months and
\* lines, and any number of faults, retries and calls by users.
THEOREM Invariance == Spec => []IInv
  BY InitIInv, StepIInv, PTL DEF Spec

\* When tx_upsert asks for rollups, every valid transaction of its document is in
\* the ledger.
THEOREM EnqueuedAlwaysBooked == Spec => []EnqueuedIsBooked
<1>1. IInv => EnqueuedIsBooked
  BY DEF IInv, UpsertInv, LinesDone, Valid, EnqueuedIsBooked
<1>2. QED
  BY <1>1, Invariance, PTL

\* The summary of a month shows its live transactions under their merchants' names,
\* unless the month has changed since its rollup was computed; if only merchants
\* were renamed, it shows them under names of the same merchants.
THEOREM SummaryAlwaysExplained == Spec => []SummaryIsExplained
<1>1. IInv => SummaryIsExplained
  BY DEF IInv
<1>2. QED
  BY <1>1, Invariance, PTL

\* A month whose rollup misses an upload's writes gets a new rollup, or its add
\* has met a running job and was ignored: nothing else can lose it.
THEOREM RollupAlwaysFollowsOrIgnored == Spec => []RollupFollowsOrIgnored
<1>1. IInv => RollupFollowsOrIgnored
  BY DEF IInv
<1>2. QED
  BY <1>1, Invariance, PTL
=============================================================================
