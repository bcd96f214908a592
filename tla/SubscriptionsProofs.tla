------------------------ MODULE SubscriptionsProofs ------------------------
(* Theorems about Subscriptions, for every set of transactions and every     *)
(* number of changes, edits, faults and retries.                             *)
EXTENDS Subscriptions, JobQueueProofs, OrderLemmas, TLAPS

\* A subscription row has its six columns.
IsRow(r) ==
  r = [key |-> r.key, interval |-> r.interval, cents |-> r.cents,
       last |-> r.last, due |-> r.due, active |-> r.active]

\* The handler has its five fields, and a row to write has its columns.
HandlerShape ==
  /\ run = [pc |-> run.pc, seen |-> run.seen, todo |-> run.todo,
            new |-> run.new, found |-> run.found]
  /\ run.pc = "write" => IsRow(run.new)

\* Rows are never removed and never lose a column.
RowShape ==
  /\ \E S : subs \in Seq(S)
  /\ \A s \in DOMAIN subs : IsRow(subs[s])

\* Between the search and the write: the row found is still one of the key, and
\* the key has no other active row, unless a user has activated one.
SearchStands ==
  run.pc = "write" =>
    /\ run.found # 0 =>
         run.found \in DOMAIN subs /\ subs[run.found].key = run.new.key
    /\ run.new.key \notin reactivated =>
         \A s \in DOMAIN subs :
           subs[s].key = run.new.key /\ subs[s].active => s = run.found

IInv == HandlerShape /\ RowShape /\ SearchStands /\ SecondActiveWasReactivated

\* There are no rows and no handler in the beginning.
LEMMA InitIInv == Init => IInv
<1> SUFFICES ASSUME Init PROVE IInv
  OBVIOUS
<1>1. subs = << >> /\ run = Idle
  BY DEF Init
<1>2. subs \in Seq({}) /\ DOMAIN subs = {}
  BY <1>1
<1>3. RowShape
  BY <1>2 DEF RowShape
<1>4. HandlerShape /\ SearchStands
  BY <1>1 DEF Idle, HandlerShape, SearchStands
<1>5. SecondActiveWasReactivated
  BY <1>2 DEF SecondActiveWasReactivated
<1>6. QED
  BY <1>3, <1>4, <1>5 DEF IInv

\* A row that detection computes has its columns and is active.
LEMMA DetectedIsRow ==
  ASSUME NEW S, NEW G
  PROVE  /\ IsRow(Detected(S, G))
         /\ Detected(S, G).key = KeyOf(G)
         /\ Detected(S, G).active = TRUE
  BY DEF Detected, IsRow

\* Writing to a row that exists: the other rows stay.
LEMMA UpdatedRows ==
  ASSUME NEW S, subs \in Seq(S), NEW f \in DOMAIN subs, NEW r,
         subs' = [subs EXCEPT ![f] = r]
  PROVE  /\ \E T : subs' \in Seq(T)
         /\ DOMAIN subs' = DOMAIN subs
         /\ subs'[f] = r
         /\ \A s \in DOMAIN subs \ {f} : subs'[s] = subs[s]
<1>1. subs \in Seq(S \cup {r})
  OBVIOUS
<1>2. subs' \in Seq(S \cup {r})
  BY <1>1
<1>3. QED
  BY <1>2

\* A new row comes behind the others.
LEMMA AppendedRows ==
  ASSUME NEW S, subs \in Seq(S), NEW r, subs' = Append(subs, r)
  PROVE  /\ \E T : subs' \in Seq(T)
         /\ DOMAIN subs' = DOMAIN subs \cup {Len(subs) + 1}
         /\ subs'[Len(subs) + 1] = r
         /\ \A s \in DOMAIN subs : subs'[s] = subs[s] /\ s # Len(subs) + 1
<1>1. subs \in Seq(S \cup {r})
  OBVIOUS
<1>2. subs' \in Seq(S \cup {r})
  BY <1>1
<1>3. DOMAIN subs = 1..Len(subs) /\ DOMAIN subs' = 1..(Len(subs) + 1)
  BY <1>1
<1>4. QED
  BY <1>1, <1>2, <1>3

\* A user's update keeps the key of the row and is remembered when it activates.
LEMMA UpdateStep ==
  ASSUME IInv, NEW f \in DOMAIN subs, NEW active \in BOOLEAN, NEW interval,
         Update(f, active, interval)
  PROVE  IInv'
<1> DEFINE r == [subs[f] EXCEPT !.active = active, !.interval = interval]
<1>1. subs' = [subs EXCEPT ![f] = r]
  BY DEF Update
<1>2. /\ r.key = subs[f].key /\ r.active = active /\ IsRow(r)
  <2>1. subs[f] = [key |-> subs[f].key, interval |-> subs[f].interval,
                   cents |-> subs[f].cents, last |-> subs[f].last,
                   due |-> subs[f].due, active |-> subs[f].active]
    BY DEF IInv, RowShape, IsRow
  <2> DEFINE a == [subs[f] EXCEPT !.active = active]
  <2>a. a = [key |-> subs[f].key, interval |-> subs[f].interval,
             cents |-> subs[f].cents, last |-> subs[f].last,
             due |-> subs[f].due, active |-> active]
    BY <2>1
  <2>b. r = [a EXCEPT !.interval = interval]
    OBVIOUS
  <2> HIDE DEF a, r
  <2>2. r = [key |-> subs[f].key, interval |-> interval,
             cents |-> subs[f].cents, last |-> subs[f].last,
             due |-> subs[f].due, active |-> active]
    BY <2>a, <2>b
  <2>3. QED
    BY <2>2 DEF IsRow
<1>3. /\ RowShape'
      /\ DOMAIN subs' = DOMAIN subs
      /\ \A s \in DOMAIN subs : subs'[s].key = subs[s].key
      /\ subs'[f].active = active
      /\ \A s \in DOMAIN subs \ {f} : subs'[s].active = subs[s].active
  BY <1>1, <1>2, UpdatedRows DEF IInv, RowShape
<1>4. /\ run' = run
      /\ reactivated' = IF active /\ ~subs[f].active
                        THEN reactivated \cup {subs[f].key} ELSE reactivated
  BY DEF Update
<1>5. HandlerShape'
  BY <1>4 DEF IInv, HandlerShape
<1>6. \A s \in DOMAIN subs :
        subs'[s].active /\ subs'[s].key \notin reactivated' => subs[s].active
  BY <1>3, <1>4
<1>7. SearchStands'
  BY <1>3, <1>4, <1>6 DEF IInv, SearchStands
<1>8. SecondActiveWasReactivated'
  BY <1>3, <1>4, <1>6 DEF IInv, SecondActiveWasReactivated
<1>9. QED
  BY <1>3, <1>5, <1>7, <1>8 DEF IInv

\* The search establishes SearchStands.
LEMMA FindStep ==
  ASSUME IInv, NEW G, DetectFind(G)
  PROVE  IInv'
<1> DEFINE new == Detected(run.seen, G)
<1>1. PICK f \in (IF ActiveRows(KeyOf(G)) = {} THEN {0} ELSE ActiveRows(KeyOf(G))) :
        run' = [run EXCEPT !.pc = "write", !.new = new, !.found = f]
  BY DEF DetectFind
<1>2. run' = [pc |-> "write", seen |-> run.seen, todo |-> run.todo,
              new |-> new, found |-> f]
  BY <1>1 DEF IInv, HandlerShape
<1>3. /\ run'.pc = "write" /\ run'.new = new /\ run'.found = f
      /\ run'.new.key = KeyOf(G)
  BY <1>2, DetectedIsRow
<1>4. HandlerShape'
  BY <1>2, DetectedIsRow DEF HandlerShape
<1>5. subs' = subs /\ reactivated' = reactivated
  BY DEF DetectFind
<1>6. RowShape' /\ SecondActiveWasReactivated'
  BY <1>5 DEF IInv, RowShape, SecondActiveWasReactivated
<1>7. 0 \notin DOMAIN subs
  BY DEF IInv, RowShape
<1>8. f # 0 => f \in DOMAIN subs /\ subs[f].key = KeyOf(G)
  BY <1>1 DEF ActiveRows
<1>9. KeyOf(G) \notin reactivated =>
        \A s \in DOMAIN subs :
          subs[s].key = KeyOf(G) /\ subs[s].active => s = f
  BY <1>1, <1>7 DEF IInv, SecondActiveWasReactivated, ActiveRows
<1>10. SearchStands'
  BY <1>3, <1>5, <1>8, <1>9 DEF SearchStands
<1>11. QED
  BY <1>4, <1>6, <1>10 DEF IInv

\* After a write the handler is at a search or at its end.
LEMMA GoOnShape ==
  ASSUME HandlerShape, NEW rest, GoOn(rest)
  PROVE  HandlerShape' /\ run'.pc # "write"
<1>1. run' = [pc |-> IF rest = {} THEN "ack" ELSE "find", seen |-> run.seen,
              todo |-> rest, new |-> NoRow, found |-> 0]
  BY DEF HandlerShape, GoOn
<1>2. QED
  BY <1>1 DEF HandlerShape

\* Both writes leave the key with the one row that is written.
LEMMA WriteStep ==
  ASSUME IInv, NEW G, DetectUpdate(G) \/ DetectCreate(G)
  PROVE  IInv'
<1>1. HandlerShape' /\ run'.pc # "write"
  BY GoOnShape DEF IInv, DetectUpdate, DetectCreate, NextGroup
<1>2. /\ run.pc = "write" /\ IsRow(run.new) /\ reactivated' = reactivated
  BY DEF IInv, HandlerShape, DetectUpdate, DetectCreate
<1>3. SearchStands'
  BY <1>1 DEF SearchStands
<1>4. PICK S : subs \in Seq(S)
  BY DEF IInv, RowShape
<1>5. CASE DetectUpdate(G)
  <2>1. /\ run.found \in DOMAIN subs
        /\ subs' = [subs EXCEPT ![run.found] = run.new]
    BY <1>2, <1>5 DEF IInv, SearchStands, DetectUpdate
  <2>2. /\ \E T : subs' \in Seq(T)
        /\ DOMAIN subs' = DOMAIN subs
        /\ subs'[run.found] = run.new
        /\ \A s \in DOMAIN subs \ {run.found} : subs'[s] = subs[s]
    BY <1>4, <2>1, UpdatedRows
  <2>3. RowShape'
    BY <1>2, <2>2 DEF IInv, RowShape
  <2>4. SecondActiveWasReactivated'
    BY <1>2, <2>1, <2>2 DEF IInv, SearchStands, SecondActiveWasReactivated
  <2>5. QED
    BY <1>1, <1>3, <2>3, <2>4 DEF IInv
<1>6. CASE DetectCreate(G)
  <2>1. run.found = 0 /\ subs' = Append(subs, run.new)
    BY <1>6 DEF DetectCreate
  <2>2. /\ \E T : subs' \in Seq(T)
        /\ DOMAIN subs' = DOMAIN subs \cup {Len(subs) + 1}
        /\ subs'[Len(subs) + 1] = run.new
        /\ \A s \in DOMAIN subs : subs'[s] = subs[s] /\ s # Len(subs) + 1
    BY <1>4, <2>1, AppendedRows
  <2>3. RowShape'
    BY <1>2, <2>2 DEF IInv, RowShape
  <2>4. 0 \notin DOMAIN subs
    BY <1>4
  <2>5. SecondActiveWasReactivated'
    BY <1>2, <2>1, <2>2, <2>4 DEF IInv, SearchStands, SecondActiveWasReactivated
  <2>6. QED
    BY <1>1, <1>3, <2>3, <2>5 DEF IInv
<1>7. QED
  BY <1>5, <1>6

\* Every other step leaves the rows alone and no write open that was not.
LEMMA StepIInv == IInv /\ [Next]_vars => IInv'
<1> SUFFICES ASSUME IInv, [Next]_vars PROVE IInv'
  OBVIOUS
<1>a. ASSUME subs' = subs, reactivated' = reactivated, HandlerShape',
             run' = run \/ run'.pc # "write"
      PROVE  IInv'
  BY <1>a DEF IInv, RowShape, SearchStands, SecondActiveWasReactivated
<1>b. ASSUME run' = Idle PROVE HandlerShape' /\ run'.pc # "write"
  BY <1>b DEF Idle, HandlerShape
<1>c. ASSUME run' = run PROVE HandlerShape'
  BY <1>c DEF IInv, HandlerShape
<1>1. CASE Change \/ EnqueueDetect \/ RecoverStalled \/ RetryJob
  BY <1>1, <1>a, <1>c DEF Change, EnqueueDetect, RecoverStalled, RetryJob
<1>2. ASSUME NEW s \in DOMAIN subs, NEW active \in BOOLEAN,
             NEW interval \in Overrides \cup {subs[s].interval},
             Update(s, active, interval)
      PROVE  IInv'
  BY <1>2, UpdateStep
<1>3. CASE DetectStart
  <2>1. HandlerShape' /\ run'.pc # "write"
    BY <1>3 DEF DetectStart, HandlerShape
  <2>2. QED
    BY <1>3, <2>1, <1>a DEF DetectStart
<1>4. ASSUME NEW G \in run.todo, DetectFind(G) PROVE IInv'
  BY <1>4, FindStep
<1>5. ASSUME NEW G \in run.todo, DetectUpdate(G) \/ DetectCreate(G) PROVE IInv'
  BY <1>5, WriteStep
<1>6. CASE Ack
  BY <1>6, <1>a, <1>b DEF Ack
<1>7. CASE DetectThrows \/ DetectDies
  BY <1>7, <1>a, <1>b DEF DetectThrows, DetectDies, MayFault
<1>8. CASE UNCHANGED vars
  BY <1>8, <1>a, <1>c DEF vars
<1>9. QED
  BY <1>1, <1>2, <1>3, <1>4, <1>5, <1>6, <1>7, <1>8 DEF Next, User, Detect

\* Whatever is retried, dies or runs beside users: a merchant has two active
\* subscriptions in one currency only after a user has activated one again.
THEOREM SecondActiveAlwaysReactivated == Spec => []SecondActiveWasReactivated
<1>1. IInv => SecondActiveWasReactivated
  BY DEF IInv
<1>2. QED
  BY <1>1, InitIInv, StepIInv, PTL DEF Spec
-----------------------------------------------------------------------------
(* The loop over the groups *)

\* The group shows in a row, or need not: a user has edited the key's rows, or
\* the key has a later group.
Covered(G) ==
  \/ KeyOf(G) \in touched
  \/ \E H \in Recurring(run.seen) : KeyOf(H) = KeyOf(G) /\ Before(G, H)
  \/ \E s \in DOMAIN subs : subs[s] = Detected(run.seen, G)

\* A group behind the loop comes before those ahead, and is covered.
Done(G) ==
  /\ \A H \in run.todo : Before(G, H)
  /\ Covered(G)

LoopInv ==
  run.pc # "idle" =>
    /\ run.seen \subseteq DOMAIN Txn
    /\ run.todo \subseteq Recurring(run.seen)
    /\ run.pc = "ack" => run.todo = {}
    /\ \A G \in Recurring(run.seen) \ run.todo : Done(G)
    /\ run.pc = "write" =>
         \A G : AtGroup(G) => run.new = Detected(run.seen, G)

LInv == IInv /\ ledger \subseteq DOMAIN Txn /\ LoopInv

\* What a step leaves of the loop: the groups and the keys that users edited.
LEMMA DoneStays ==
  ASSUME NEW G, Done(G), run'.seen = run.seen, run'.todo \subseteq run.todo,
         touched \subseteq touched',
         \A s \in DOMAIN subs :
           subs[s].key = KeyOf(G) /\ KeyOf(G) \notin touched' =>
             s \in DOMAIN subs' /\ subs'[s] = subs[s]
  PROVE  Done(G)'
<1>1. CASE \E s \in DOMAIN subs : subs[s] = Detected(run.seen, G)
  <2>1. PICK s \in DOMAIN subs : subs[s] = Detected(run.seen, G)
    BY <1>1
  <2>2. Detected(run.seen, G).key = KeyOf(G)
    BY DetectedIsRow
  <2>3. subs[s].key = KeyOf(G)
    BY <2>1, <2>2
  <2>4. QED
    BY <2>1, <2>3 DEF Done, Covered
<1>2. CASE ~\E s \in DOMAIN subs : subs[s] = Detected(run.seen, G)
  BY <1>2 DEF Done, Covered
<1>3. QED
  BY <1>1, <1>2

\* No two groups come each before the other: the loop has one group at a time.
LEMMA OneGroup ==
  ASSUME NEW S, S \subseteq DOMAIN Txn,
         NEW G \in Recurring(S), NEW H \in Recurring(S), Before(G, H)
  PROVE  ~Before(H, G)
<1>1. DOMAIN Txn \subseteq Nat
  BY SubscriptionAssumption DEF SubscriptionAssumption
<1>2. G \in Groups(S) /\ H \in Groups(S)
  BY DEF Recurring
<1>3. ASSUME NEW K \in Groups(S) PROVE K \subseteq Nat /\ K # {}
  <2>1. PICK i \in S : K = {j \in S : SameGroup(i, j)}
    BY <1>3 DEF Groups
  <2>2. i \in K
    BY <2>1 DEF SameGroup
  <2>3. QED
    BY <1>1, <2>1, <2>2
<1>4. Min(G) \in Nat /\ Min(H) \in Nat
  BY <1>2, <1>3, MinFacts
<1>5. QED
  BY <1>4 DEF Before

\* Nothing runs in the beginning.
LEMMA InitLInv == Init => LInv
<1> SUFFICES ASSUME Init PROVE LInv
  OBVIOUS
<1>1. ledger = Booked /\ run.pc = "idle"
  BY DEF Init, Idle
<1>2. QED
  BY <1>1, InitIInv, SubscriptionAssumption DEF LInv, LoopInv, SubscriptionAssumption

\* A step that leaves the handler alone, or ends it.
LEMMA RestLoop ==
  ASSUME LoopInv, \/ run' = Idle
                  \/ UNCHANGED <<run, subs, touched>>
  PROVE  LoopInv'
<1>1. CASE run' = Idle
  BY <1>1 DEF Idle, LoopInv
<1>2. CASE UNCHANGED <<run, subs, touched>>
  BY <1>2 DEF LoopInv, Done, Covered, AtGroup
<1>3. QED
  BY <1>1, <1>2

\* What a user edits is remembered.
LEMMA UpdateLoop ==
  ASSUME LInv, NEW f \in DOMAIN subs, NEW active, NEW interval,
         Update(f, active, interval)
  PROVE  LoopInv'
<1>1. /\ run' = run /\ touched' = touched \cup {subs[f].key}
      /\ DOMAIN subs' = DOMAIN subs
      /\ \A s \in DOMAIN subs \ {f} : subs'[s] = subs[s]
  BY DEF Update
<1>2. \A G : Done(G) => Done(G)'
  BY <1>1, DoneStays
<1>3. QED
  BY <1>1, <1>2 DEF LInv, LoopInv, AtGroup

\* The handler starts with every recurring group ahead.
LEMMA StartLoop ==
  ASSUME LInv, DetectStart
  PROVE  LoopInv'
<1>1. /\ run'.pc = IF Recurring(ledger) = {} THEN "ack" ELSE "find"
      /\ run'.seen = ledger /\ run'.todo = Recurring(ledger)
  BY DEF DetectStart
<1>2. QED
  BY <1>1 DEF LInv, LoopInv

\* What the search computes is the row of the one group that comes next.
LEMMA FindLoop ==
  ASSUME LInv, NEW G, DetectFind(G)
  PROVE  LoopInv'
<1>1. \E f : run' = [run EXCEPT !.pc = "write", !.new = Detected(run.seen, G),
                                !.found = f]
  BY DEF DetectFind
<1>2. /\ run'.pc = "write" /\ run'.seen = run.seen /\ run'.todo = run.todo
      /\ run'.new = Detected(run.seen, G)
  BY <1>1 DEF LInv, IInv, HandlerShape
<1>3. /\ run.pc # "idle" /\ AtGroup(G)
      /\ UNCHANGED <<subs, touched>>
  BY DEF DetectFind
<1>4. \A H : Done(H) => Done(H)'
  BY <1>2, <1>3, DoneStays
<1>5. ASSUME NEW H, AtGroup(H) PROVE H = G
  <2>1. G \in Recurring(run.seen) /\ H \in Recurring(run.seen)
    BY <1>3, <1>5 DEF LInv, LoopInv, AtGroup
  <2>2. H # G => Before(G, H) /\ Before(H, G)
    BY <1>3, <1>5 DEF AtGroup
  <2>3. QED
    BY <1>3, <2>1, <2>2, OneGroup DEF LInv, LoopInv
<1>6. \A H : AtGroup(H)' => AtGroup(H)
  BY <1>2 DEF AtGroup
<1>7. QED
  BY <1>2, <1>3, <1>4, <1>5, <1>6 DEF LInv, LoopInv

\* The write covers its group; the row it overwrites is one of the same key, so
\* that it can only uncover a group that came before.
LEMMA WriteLoop ==
  ASSUME LInv, NEW G, DetectUpdate(G) \/ DetectCreate(G)
  PROVE  LoopInv'
<1>1. run.pc = "write" /\ AtGroup(G) /\ touched' = touched
  BY DEF DetectUpdate, DetectCreate
<1>2. run' = [pc |-> IF run.todo \ {G} = {} THEN "ack" ELSE "find",
              seen |-> run.seen, todo |-> run.todo \ {G}, new |-> NoRow,
              found |-> 0]
  BY DEF DetectUpdate, DetectCreate, NextGroup, GoOn, LInv, IInv, HandlerShape
<1>3. /\ run'.pc \in {"ack", "find"}
      /\ run'.pc = "ack" => run'.todo = {}
      /\ run'.seen = run.seen /\ run'.todo = run.todo \ {G}
  BY <1>2
<1>4. /\ run.seen \subseteq DOMAIN Txn /\ G \in Recurring(run.seen)
      /\ run.new = Detected(run.seen, G) /\ run.new.key = KeyOf(G)
  BY <1>1, DetectedIsRow DEF LInv, LoopInv, AtGroup
<1>5. PICK w : /\ w \in DOMAIN subs' /\ subs'[w] = run.new
               /\ \A s \in DOMAIN subs \ {w} :
                    s \in DOMAIN subs' /\ subs'[s] = subs[s]
               /\ w \in DOMAIN subs => subs[w].key = KeyOf(G)
  <2>0. PICK S : subs \in Seq(S)
    BY DEF LInv, IInv, RowShape
  <2>1. CASE DetectUpdate(G)
    <3>1. /\ run.found \in DOMAIN subs /\ subs[run.found].key = KeyOf(G)
          /\ subs' = [subs EXCEPT ![run.found] = run.new]
      BY <1>1, <1>4, <2>1 DEF LInv, IInv, SearchStands, DetectUpdate
    <3>2. QED
      BY <2>0, <3>1, UpdatedRows
  <2>2. CASE DetectCreate(G)
    <3>1. subs' = Append(subs, run.new)
      BY <2>2 DEF DetectCreate
    <3>2. QED
      BY <2>0, <3>1, AppendedRows
  <2>3. QED
    BY <2>1, <2>2
<1>6. Done(G)'
  <2>1. \A H \in run'.todo : Before(G, H)
    BY <1>1, <1>3 DEF AtGroup
  <2>2. Covered(G)'
    BY <1>3, <1>4, <1>5 DEF Covered
  <2>3. QED
    BY <2>1, <2>2 DEF Done
<1>7. ASSUME NEW H \in Recurring(run.seen) \ run.todo PROVE Done(H)'
  <2>1. Done(H) /\ Before(H, G)
    BY <1>1, <1>7 DEF LInv, LoopInv, AtGroup, Done
  <2>2. CASE KeyOf(H) = KeyOf(G)
    <3>1. Covered(H)'
      BY <1>3, <1>4, <2>1, <2>2 DEF Covered
    <3>2. QED
      BY <1>3, <2>1, <3>1 DEF Done
  <2>3. CASE KeyOf(H) # KeyOf(G)
    BY <1>1, <1>3, <1>5, <2>1, <2>3, DoneStays
  <2>4. QED
    BY <2>2, <2>3
<1>8. \A H \in Recurring(run'.seen) \ run'.todo : Done(H)'
  BY <1>3, <1>6, <1>7
<1>9. run'.todo \subseteq Recurring(run'.seen)
  BY <1>1, <1>3 DEF LInv, LoopInv
<1>10. QED
  BY <1>3, <1>4, <1>8, <1>9 DEF LoopInv

\* Every step keeps the loop in order.
LEMMA StepLInv == LInv /\ [Next]_vars => LInv'
<1> SUFFICES ASSUME LInv, [Next]_vars PROVE LInv'
  OBVIOUS
<1>1. IInv'
  BY StepIInv DEF LInv
<1>2. (ledger \subseteq DOMAIN Txn)'
  <2>1. CASE Change
    BY <2>1, SubscriptionAssumption DEF Change, LInv, SubscriptionAssumption
  <2>2. CASE ~Change
    <3>1. ledger' = ledger
      BY <2>2 DEF Next, User, Detect, EnqueueDetect, Update, DetectStart, DetectFind,
                  DetectUpdate, DetectCreate, Ack, RecoverStalled, DetectThrows,
                  DetectDies, MayFault, RetryJob, vars
    <3>2. QED
      BY <3>1 DEF LInv
  <2>3. QED
    BY <2>1, <2>2
<1>3. LoopInv'
  <2>1. CASE Change \/ EnqueueDetect \/ RecoverStalled \/ RetryJob \/ UNCHANGED vars
    BY <2>1, RestLoop
    DEF LInv, Change, EnqueueDetect, RecoverStalled, RetryJob, vars
  <2>2. ASSUME NEW s \in DOMAIN subs, NEW active \in BOOLEAN,
               NEW interval \in Overrides \cup {subs[s].interval},
               Update(s, active, interval)
        PROVE  LoopInv'
    BY <2>2, UpdateLoop
  <2>3. CASE DetectStart
    BY <2>3, StartLoop
  <2>4. ASSUME NEW G \in run.todo, DetectFind(G) PROVE LoopInv'
    BY <2>4, FindLoop
  <2>5. ASSUME NEW G \in run.todo, DetectUpdate(G) \/ DetectCreate(G) PROVE LoopInv'
    BY <2>5, WriteLoop
  <2>6. CASE Ack \/ DetectThrows \/ DetectDies
    BY <2>6, RestLoop DEF LInv, Ack, DetectThrows, DetectDies, MayFault
  <2>7. QED
    BY <2>1, <2>2, <2>3, <2>4, <2>5, <2>6 DEF Next, User, Detect
<1>4. QED
  BY <1>1, <1>2, <1>3 DEF LInv

\* A detection that comes to its end shows every key that recurs in what it read,
\* whatever was done to rows and transactions meanwhile.
THEOREM DetectionAlwaysComplete == Spec => []DetectionIsComplete
<1>1. LInv => DetectionIsComplete
  BY DEF LInv, LoopInv, Done, Covered, DetectionIsComplete
<1>2. QED
  BY <1>1, InitLInv, StepLInv, PTL DEF Spec
-----------------------------------------------------------------------------
(* Dates *)

\* The days of a year before each month.
Elapsed == <<0, 31, 59, 90, 120, 151, 181, 212, 243, 273, 304, 334>>

\* Dividing by twelve, one number and the next.
LEMMA NextMonth ==
  ASSUME NEW m \in Nat
  PROVE  /\ m % 12 \in 0..11 /\ m \div 12 \in Nat
         /\ m % 12 < 11 => /\ (m + 1) % 12 = (m % 12) + 1
                           /\ (m + 1) \div 12 = m \div 12
         /\ m % 12 = 11 => /\ (m + 1) % 12 = 0
                           /\ (m + 1) \div 12 = (m \div 12) + 1
         /\ (m + 12) % 12 = m % 12
  OBVIOUS

\* A month takes from 28 to 31 days.
LEMMA MonthDaysFacts ==
  ASSUME NEW r \in 0..11
  PROVE  /\ MonthDays[r + 1] \in 28..31
         /\ Elapsed[r + 1] \in Nat
         /\ r < 11 => Elapsed[r + 2] = Elapsed[r + 1] + MonthDays[r + 1]
         /\ r = 11 => 365 = Elapsed[r + 1] + MonthDays[r + 1]
<1>1. r \in {0, 1, 2, 3, 4, 5, 6, 7, 8, 9, 10, 11}
  OBVIOUS
<1>2. QED
  BY <1>1 DEF MonthDays, Elapsed

\* The recursion of MonthStart has a solution, which its CHOOSE finds.
LEMMA MonthStartIsRecursive ==
  MonthStart = [m \in Nat |-> IF m = 0 THEN 0
                              ELSE MonthStart[m - 1] + MonthDays[((m - 1) % 12) + 1]]
<1> DEFINE M == [m \in Nat |-> 365 * (m \div 12) + Elapsed[(m % 12) + 1]]
           Step(f, m) == IF m = 0 THEN 0
                         ELSE f[m - 1] + MonthDays[((m - 1) % 12) + 1]
<1>1. ASSUME NEW m \in Nat, m # 0 PROVE M[m] = M[m - 1] + MonthDays[((m - 1) % 12) + 1]
  <2>1. PICK k \in Nat : m = k + 1 /\ m - 1 = k
    <3>1. m - 1 \in Nat /\ m = (m - 1) + 1
      BY <1>1
    <3>2. QED
      BY <3>1
  <2>2. /\ M[k] = 365 * (k \div 12) + Elapsed[(k % 12) + 1]
        /\ M[k + 1] = 365 * ((k + 1) \div 12) + Elapsed[((k + 1) % 12) + 1]
    OBVIOUS
  <2> HIDE DEF M
  <2>3. PICK r \in 0..11, q \in Nat : k % 12 = r /\ k \div 12 = q
    BY NextMonth
  <2>4. /\ MonthDays[r + 1] \in 28..31 /\ Elapsed[r + 1] \in Nat
        /\ r < 11 => Elapsed[r + 2] = Elapsed[r + 1] + MonthDays[r + 1]
        /\ r = 11 => 365 = Elapsed[r + 1] + MonthDays[r + 1]
    BY MonthDaysFacts
  <2>5. CASE r < 11
    <3>1. (k + 1) % 12 = r + 1 /\ (k + 1) \div 12 = q /\ (r + 1) + 1 = r + 2
      BY <2>3, <2>5, NextMonth
    <3>2. QED
      BY <2>1, <2>2, <2>3, <2>4, <2>5, <3>1
  <2>6. CASE r = 11
    <3>1. (k + 1) % 12 = 0 /\ (k + 1) \div 12 = q + 1 /\ 0 + 1 = 1
      BY <2>3, <2>6, NextMonth
    <3>2. Elapsed[1] = 0
      BY DEF Elapsed
    <3>3. QED
      BY <2>1, <2>2, <2>3, <2>4, <2>6, <3>1, <3>2
  <2>7. QED
    BY <2>5, <2>6
<1>2. M[0] = 0
  BY DEF Elapsed
<1>3. \A m \in Nat : M[m] = Step(M, m)
  BY <1>1, <1>2
<1>4. M = [m \in Nat |-> Step(M, m)]
  <2>1. M = [m \in Nat |-> M[m]]
    OBVIOUS
  <2> HIDE DEF M, Step
  <2>2. QED
    BY <1>3, <2>1
<1> HIDE DEF M
<1>5. \E f : f = [m \in Nat |-> Step(f, m)]
  BY <1>4
<1>6. QED
  BY <1>5 DEF MonthStart

\* A month begins when the month before it is over.
LEMMA MonthStartFacts ==
  /\ MonthStart[0] = 0
  /\ \A m \in Nat : /\ MonthStart[m] \in Int
                    /\ MonthStart[m + 1] = MonthStart[m] + MonthDays[(m % 12) + 1]
                    /\ MonthDays[(m % 12) + 1] \in 28..31
<1>1. MonthStart[0] = 0
  BY MonthStartIsRecursive
<1>2. ASSUME NEW m \in Nat
      PROVE  MonthStart[m + 1] = MonthStart[m] + MonthDays[(m % 12) + 1]
  <2>1. m + 1 \in Nat /\ m + 1 # 0 /\ (m + 1) - 1 = m
    OBVIOUS
  <2>2. MonthStart[m + 1] = MonthStart[(m + 1) - 1] + MonthDays[(((m + 1) - 1) % 12) + 1]
    BY <2>1, MonthStartIsRecursive
  <2>3. QED
    BY <2>1, <2>2
<1>3. ASSUME NEW m \in Nat PROVE MonthDays[(m % 12) + 1] \in 28..31
  <2>1. m % 12 \in 0..11
    OBVIOUS
  <2>2. QED
    BY <2>1, MonthDaysFacts
<1> DEFINE Bad == {m \in Nat : MonthStart[m] \notin Int}
<1>4. ASSUME Bad # {} PROVE FALSE
  <2>1. PICK m \in Bad : \A k \in Bad : m =< k
    BY <1>4, LeastNumber
  <2>2. m # 0
    BY <1>1, <2>1
  <2>3. m - 1 \in Nat /\ m = (m - 1) + 1 /\ ~(m =< m - 1)
    BY <2>2
  <2>4. MonthStart[m - 1] \in Int
    BY <2>1, <2>3
  <2>5. MonthStart[m] \in Int
    BY <1>2, <1>3, <2>3, <2>4
  <2>6. QED
    BY <2>1, <2>5
<1>5. QED
  BY <1>1, <1>2, <1>3, <1>4

\* Twelve months are 365 days, from whichever month on.
LEMMA YearLength ==
  ASSUME NEW m \in Nat
  PROVE  MonthStart[m + 12] = MonthStart[m] + 365
<1> DEFINE Bad == {k \in Nat : MonthStart[k + 12] # MonthStart[k] + 365}
<1>1. MonthStart[0 + 12] = MonthStart[0] + 365
  <2>1. \A k \in 0..11 : MonthStart[k + 1] = MonthStart[k] + MonthDays[k + 1]
    <3>1. \A k \in 0..11 : k \in Nat /\ k % 12 = k
      OBVIOUS
    <3>2. QED
      BY <3>1, MonthStartFacts
  <2>2. /\ MonthStart[0] = 0
        /\ MonthStart[1] = MonthStart[0] + 31
        /\ MonthStart[2] = MonthStart[1] + 28
        /\ MonthStart[3] = MonthStart[2] + 31
        /\ MonthStart[4] = MonthStart[3] + 30
        /\ MonthStart[5] = MonthStart[4] + 31
        /\ MonthStart[6] = MonthStart[5] + 30
        /\ MonthStart[7] = MonthStart[6] + 31
        /\ MonthStart[8] = MonthStart[7] + 31
        /\ MonthStart[9] = MonthStart[8] + 30
        /\ MonthStart[10] = MonthStart[9] + 31
        /\ MonthStart[11] = MonthStart[10] + 30
        /\ MonthStart[12] = MonthStart[11] + 31
    BY <2>1, MonthStartFacts DEF MonthDays
  <2>3. MonthStart[12] = 365
    BY <2>2
  <2>4. QED
    BY <2>2, <2>3
<1>2. ASSUME Bad # {} PROVE FALSE
  <2>1. PICK l \in Bad : \A k \in Bad : l =< k
    BY <1>2, LeastNumber
  <2>2. l # 0
    BY <1>1, <2>1
  <2>3. PICK k \in Nat : l = k + 1 /\ k \notin Bad
    <3>1. l - 1 \in Nat /\ l = (l - 1) + 1 /\ ~(l =< l - 1)
      BY <2>2
    <3>2. QED
      BY <2>1, <3>1
  <2>4. MonthStart[k + 12] = MonthStart[k] + 365
    BY <2>3
  <2>5. /\ k + 12 \in Nat /\ l + 12 = (k + 12) + 1
        /\ (k + 12) % 12 = k % 12
    BY <2>3, NextMonth
  <2>6. /\ MonthStart[l] = MonthStart[k] + MonthDays[(k % 12) + 1]
        /\ MonthStart[l + 12] = MonthStart[k + 12] + MonthDays[(k % 12) + 1]
        /\ MonthStart[k] \in Int /\ MonthDays[(k % 12) + 1] \in 28..31
    BY <2>3, <2>5, MonthStartFacts
  <2>7. MonthStart[l + 12] = MonthStart[l] + 365
    BY <2>4, <2>6
  <2>8. QED
    BY <2>1, <2>7
<1>3. QED
  BY <1>2
-----------------------------------------------------------------------------
\* A pattern is one of the intervals.
LEMMA GuessType ==
  ASSUME NEW D
  PROVE  GuessInterval(D) \in Intervals
  BY DEF GuessInterval, Intervals

\* One distance shows its pattern.
LEMMA GuessOne ==
  ASSUME NEW d \in Int
  PROVE  /\ d = 7 => GuessInterval({d}) = "WEEKLY"
         /\ d \in 28..31 => GuessInterval({d}) = "MONTHLY"
         /\ d = 365 => GuessInterval({d}) = "YEARLY"
<1> DEFINE within(target, tolerance) ==
             \A e \in {d} : e - target \in -tolerance..tolerance
<1>1. GuessInterval({d}) = CASE within(7, 2)    -> "WEEKLY"
                             [] within(30, 7)   -> "MONTHLY"
                             [] within(365, 30) -> "YEARLY"
                             [] OTHER           -> "UNKNOWN"
  BY DEF GuessInterval
<1>2. /\ within(7, 2) <=> 5 <= d /\ d <= 9
      /\ within(30, 7) <=> 23 <= d /\ d <= 37
      /\ within(365, 30) <=> 335 <= d /\ d <= 395
  OBVIOUS
<1> HIDE DEF within
<1>3. CASE d = 7
  BY <1>1, <1>2, <1>3
<1>4. CASE d \in 28..31
  BY <1>1, <1>2, <1>4
<1>5. CASE d = 365
  BY <1>1, <1>2, <1>5
<1>6. QED
  BY <1>3, <1>4, <1>5

\* The due date is as far from the charge as the interval asks for.
LEMMA DueFacts ==
  ASSUME NEW date \in Date, NEW interval \in Intervals, interval # "UNKNOWN"
  PROVE  /\ AddInterval(date, interval) \in Int
         /\ GuessInterval({AddInterval(date, interval) - DayNumber(date)}) = interval
<1>1. /\ date.month \in Nat /\ date.day \in Int
      /\ [date EXCEPT !.month = @ + 1] = [month |-> date.month + 1, day |-> date.day]
      /\ [date EXCEPT !.month = @ + 12] = [month |-> date.month + 12, day |-> date.day]
  BY DEF Date
<1>2. PICK m \in Nat, k \in Int : m = date.month /\ k = date.day
  BY <1>1
<1>3. /\ DayNumber(date) = MonthStart[m] + k - 1
      /\ DayNumber([date EXCEPT !.month = @ + 1]) = MonthStart[m + 1] + k - 1
      /\ DayNumber([date EXCEPT !.month = @ + 12]) = MonthStart[m + 12] + k - 1
  BY <1>1, <1>2 DEF DayNumber
<1>4. PICK n \in 28..31 : MonthStart[m] \in Int /\ MonthStart[m + 1] = MonthStart[m] + n
  BY MonthStartFacts
<1>5. MonthStart[m + 12] = MonthStart[m] + 365
  BY YearLength
<1>6. CASE interval = "WEEKLY"
  <2>1. AddInterval(date, interval) = DayNumber(date) + 7
    BY <1>6 DEF AddInterval
  <2>2. AddInterval(date, interval) \in Int /\ AddInterval(date, interval) - DayNumber(date) = 7
    BY <2>1, <1>3, <1>4
  <2>3. QED
    BY <2>2, <1>6, GuessOne
<1>7. CASE interval = "MONTHLY"
  <2>1. AddInterval(date, interval) = DayNumber([date EXCEPT !.month = @ + 1])
    BY <1>7 DEF AddInterval
  <2>2. AddInterval(date, interval) \in Int /\ AddInterval(date, interval) - DayNumber(date) = n
    BY <2>1, <1>3, <1>4
  <2>3. QED
    BY <2>2, <1>7, GuessOne
<1>8. CASE interval = "YEARLY"
  <2>1. AddInterval(date, interval) = DayNumber([date EXCEPT !.month = @ + 12])
    BY <1>8 DEF AddInterval
  <2>2. AddInterval(date, interval) \in Int /\ AddInterval(date, interval) - DayNumber(date) = 365
    BY <2>1, <1>3, <1>4, <1>5
  <2>3. QED
    BY <2>2, <1>8, GuessOne
<1>9. QED
  BY <1>6, <1>7, <1>8 DEF Intervals
-----------------------------------------------------------------------------
(* Amounts *)

\* The transactions are finitely many, numbered, and typed.
LEMMA TxnFacts ==
  /\ \A i \in DOMAIN Txn :
       /\ i \in Nat
       /\ Txn[i].key \in Keys /\ Txn[i].cents \in Int /\ Txn[i].date \in Date
  /\ \E n \in Nat : DOMAIN Txn \subseteq 0..n
  /\ \A S \in SUBSET DOMAIN Txn : IsFiniteSet(S) /\ Cardinality(S) \in Nat
<1>1. PICK n \in Nat : DOMAIN Txn = 1..n
  BY SubscriptionAssumption DEF SubscriptionAssumption
<1>2. IsFiniteSet(DOMAIN Txn)
  BY <1>1, FS_Interval
<1>3. \A S \in SUBSET DOMAIN Txn : IsFiniteSet(S) /\ Cardinality(S) \in Nat
  BY <1>2, FS_Subset, FS_CardinalityType
<1>4. \A i \in DOMAIN Txn : Txn[i] \in [key: Keys, cents: Int, date: Date]
  <2> DEFINE T == [key: Keys, cents: Int, date: Date]
  <2>1. Txn \in Seq(T)
    BY SubscriptionAssumption DEF SubscriptionAssumption
  <2> HIDE DEF T
  <2>2. \A i \in DOMAIN Txn : Txn[i] \in T
    BY <2>1
  <2>3. QED
    BY <2>2 DEF T
<1>5. \A i \in DOMAIN Txn :
        /\ i \in Nat
        /\ Txn[i].key \in Keys /\ Txn[i].cents \in Int /\ Txn[i].date \in Date
  BY <1>1, <1>4
<1>6. DOMAIN Txn \subseteq 0..n
  BY <1>1
<1>7. QED
  BY <1>3, <1>5, <1>6

\* There is a k-th smallest amount: the least one that k amounts do not exceed.
\* Were k amounts less than it, the greatest of those would be one, too.
LEMMA KthType ==
  ASSUME NEW S \in SUBSET DOMAIN Txn, NEW k \in 1..Cardinality(S)
  PROVE  Kth(S, k) \in {Txn[i].cents : i \in S}
<1> DEFINE C == {Txn[i].cents : i \in S}
           UpTo(c) == {i \in S : Txn[i].cents <= c}
           Under(c) == {i \in S : Txn[i].cents < c}
           D == {c \in C : Cardinality(UpTo(c)) >= k}
<1>1. /\ IsFiniteSet(S) /\ Cardinality(S) \in Nat /\ k \in Nat /\ k >= 1
      /\ \A i \in S : Txn[i].cents \in Int
  BY TxnFacts
<1>2. \A c : /\ IsFiniteSet(Under(c)) /\ Cardinality(Under(c)) \in Nat
             /\ Cardinality(UpTo(c)) \in Nat
  BY <1>1, FS_Subset, FS_CardinalityType
<1>3. C \subseteq Int /\ \A B \in SUBSET C : IsFiniteSet(B)
  <2>1. IsFiniteSet(C)
    <3> DEFINE f == [i \in S |-> Txn[i].cents]
    <3>1. IsFiniteSet({f[i] : i \in S})
      BY <1>1, FiniteImage
    <3>2. {f[i] : i \in S} = C
      OBVIOUS
    <3>3. QED
      BY <3>1, <3>2
  <2>2. QED
    BY <1>1, <2>1, FS_Subset
<1>4. D # {}
  <2>1. S # {}
    BY <1>1, FS_EmptySet
  <2>2. PICK c \in C : \A d \in C : d <= c
    BY <2>1, <1>3, GreatestInteger
  <2>3. UpTo(c) = S
    BY <2>2
  <2>4. QED
    BY <2>3
<1>5. D \subseteq Int /\ IsFiniteSet(D)
  BY <1>3
<1>6. PICK c \in D : \A d \in D : c <= d
  BY <1>4, <1>5, LeastInteger
<1>7. ASSUME Cardinality(Under(c)) >= k PROVE FALSE
  <2> DEFINE B == {d \in C : d < c}
  <2>1. Under(c) # {}
    <3>1. Cardinality({}) = 0
      BY FS_EmptySet
    <3> HIDE DEF Under
    <3>2. QED
      BY <1>1, <1>7, <3>1
  <2>2. B # {} /\ B \subseteq Int /\ IsFiniteSet(B)
    BY <2>1, <1>3
  <2>3. PICK d \in B : \A e \in B : e <= d
    BY <2>2, GreatestInteger
  <2>4. Under(c) \subseteq UpTo(d)
    BY <2>3
  <2>5. Cardinality(Under(c)) <= Cardinality(UpTo(d))
    <3>1. IsFiniteSet(UpTo(d))
      BY <1>1, FS_Subset
    <3>2. QED
      BY <2>4, <3>1, FS_Subset
  <2>6. Cardinality(UpTo(d)) >= k
    <3>1. Cardinality(Under(c)) \in Nat /\ Cardinality(UpTo(d)) \in Nat
      BY <1>2
    <3> HIDE DEF Under, UpTo
    <3>2. QED
      BY <1>1, <1>7, <2>5, <3>1
  <2>7. d \in D /\ d < c
    BY <2>3, <2>6
  <2>8. c <= d /\ c \in Int /\ d \in Int
    BY <1>5, <1>6, <2>7
  <2>9. QED
    BY <2>7, <2>8
<1>8. c \in C /\ Cardinality(Under(c)) < k /\ Cardinality(UpTo(c)) >= k
  BY <1>1, <1>2, <1>6, <1>7
<1>9. QED
  BY <1>8 DEF Kth

\* The median of some amounts is an amount.
LEMMA MedianType ==
  ASSUME NEW S \in SUBSET DOMAIN Txn, S # {}
  PROVE  Median(S) \in Int
<1>1. PICK n \in Nat : n = Cardinality(S) /\ n >= 1
  <2>1. IsFiniteSet(S) /\ Cardinality(S) \in Nat
    BY TxnFacts
  <2>2. Cardinality(S) # 0
    BY <2>1, FS_EmptySet
  <2>3. QED
    BY <2>1, <2>2
<1>2. \A k \in 1..n : Kth(S, k) \in Int
  <2>1. \A i \in S : Txn[i].cents \in Int
    BY TxnFacts
  <2>2. \A k \in 1..n : Kth(S, k) \in {Txn[i].cents : i \in S}
    BY <1>1, KthType
  <2>3. QED
    BY <2>1, <2>2
<1>3. CASE n % 2 = 1
  <2>1. n \div 2 + 1 \in 1..n
    BY <1>1, <1>3
  <2>2. Median(S) = Kth(S, n \div 2 + 1)
    BY <1>1, <1>3 DEF Median
  <2>3. QED
    BY <1>2, <2>1, <2>2
<1>4. CASE n % 2 # 1
  <2>1. n \div 2 \in 1..n /\ n \div 2 + 1 \in 1..n
    BY <1>1, <1>4
  <2>2. PICK a \in Int, b \in Int :
          a = Kth(S, n \div 2) /\ b = Kth(S, n \div 2 + 1)
    BY <1>2, <2>1
  <2>3. Median(S) = (a + b + 1) \div 2
    BY <1>1, <1>4, <2>2 DEF Median
  <2>4. QED
    BY <2>3
<1>5. QED
  BY <1>3, <1>4
-----------------------------------------------------------------------------
\* A group that recurs in S is a part of it, with a first and a last charge.
LEMMA GroupFacts ==
  ASSUME NEW S \in SUBSET DOMAIN Txn, NEW G \in Recurring(S)
  PROVE  /\ G \subseteq S
         /\ Min(G) \in G /\ Max(G) \in G
         /\ GuessInterval(LastDiffs(G)) \in Intervals \ {"UNKNOWN"}
<1>1. G \in Groups(S) /\ GuessInterval(LastDiffs(G)) # "UNKNOWN"
  BY DEF Recurring
<1>2. PICK i \in S : G = {j \in S : SameGroup(i, j)}
  BY <1>1 DEF Groups
<1>3. i \in G /\ G \subseteq S
  BY <1>2 DEF SameGroup
<1>4. PICK n \in Nat : DOMAIN Txn \subseteq 0..n
  BY TxnFacts
<1>5. G \subseteq 0..n /\ G # {}
  BY <1>3, <1>4
<1>6. G \subseteq Nat
  BY <1>5
<1>7. Min(G) \in G /\ Max(G) \in G
  BY <1>5, <1>6, MinFacts, MaxFacts
<1>8. QED
  BY <1>1, <1>3, <1>7, GuessType

\* What detection finds is a row, and its due date keeps the pattern.
LEMMA DetectedFacts ==
  ASSUME NEW S \in SUBSET DOMAIN Txn, NEW G \in Recurring(S)
  PROVE  /\ Detected(S, G) \in Row
         /\ GuessInterval({Detected(S, G).due - DayNumber(Detected(S, G).last)})
              = Detected(S, G).interval
<1> DEFINE last == Txn[Max(G)].date
           interval == GuessInterval(LastDiffs(G))
           charges == {j \in S : Txn[j].key = KeyOf(G)}
<1>1. /\ G \subseteq S /\ Min(G) \in G /\ Max(G) \in G
      /\ interval \in Intervals /\ interval # "UNKNOWN"
  BY GroupFacts
<1>2. last \in Date /\ KeyOf(G) \in Keys
  BY <1>1, TxnFacts DEF KeyOf
<1>3. charges \in SUBSET DOMAIN Txn /\ Min(G) \in charges
  BY <1>1 DEF KeyOf
<1>4. Median(charges) \in Int
  BY <1>3, MedianType
<1>5. /\ AddInterval(last, interval) \in Int
      /\ GuessInterval({AddInterval(last, interval) - DayNumber(last)}) = interval
  BY <1>1, <1>2, DueFacts
<1>6. Detected(S, G) = [key |-> KeyOf(G), interval |-> interval,
                        cents |-> Median(charges), last |-> last,
                        due |-> AddInterval(last, interval), active |-> TRUE]
  BY DEF Detected
<1> HIDE DEF last, interval, charges
<1>7. QED
  BY <1>1, <1>2, <1>4, <1>5, <1>6 DEF Row
-----------------------------------------------------------------------------
(* The types and the due dates *)

\* What TypeOK says of the handler alone.
HandlerOK ==
  /\ run \in Handler
  /\ UNION run.todo \subseteq run.seen
  /\ run.pc \in {"find", "write"} <=> run.todo # {}
  /\ run.pc = "write" <=> run.new # NoRow

TInv == LInv /\ TypeOK /\ DueKeepsInterval

\* An idle handler, and one at the end of a group, have nothing to write.
LEMMA IdleOK ==
  ASSUME run' = Idle
  PROVE  HandlerOK' /\ run'.found = 0 /\ run'.pc # "write"
  BY DEF Idle, HandlerOK, Handler

LEMMA GoOnOK ==
  ASSUME HandlerOK, NEW rest, rest \subseteq run.todo, GoOn(rest)
  PROVE  HandlerOK' /\ run'.found = 0 /\ run'.pc # "write"
<1>1. run' = [pc |-> IF rest = {} THEN "ack" ELSE "find", seen |-> run.seen,
              todo |-> rest, new |-> NoRow, found |-> 0]
  BY DEF HandlerOK, Handler, GoOn
<1>2. /\ run.seen \in SUBSET DOMAIN Txn
      /\ run.todo \in SUBSET SUBSET DOMAIN Txn
      /\ UNION run.todo \subseteq run.seen
  BY DEF HandlerOK, Handler
<1>3. rest \in SUBSET SUBSET DOMAIN Txn /\ UNION rest \subseteq run.seen
  BY <1>2
<1>4. QED
  BY <1>1, <1>2, <1>3 DEF HandlerOK, Handler

\* Before anything has run.
LEMMA InitTInv == Init => TInv
<1> SUFFICES ASSUME Init PROVE TInv
  OBVIOUS
<1>1. HandlerOK /\ run.found = 0 /\ run.pc # "write"
  BY DEF Init, Idle, HandlerOK, Handler
<1>2. /\ subs \in Seq(Row) /\ Len(subs) = 0
      /\ ledger \in SUBSET DOMAIN Txn
      /\ touched \in SUBSET Keys /\ reactivated \in SUBSET Keys
      /\ changes \in 0..MaxChanges /\ edits \in 0..MaxEdits /\ faults \in 0..MaxFaults
  BY SubscriptionAssumption DEF Init, SubscriptionAssumption
<1>3. job \in Job
  BY NoJobType DEF Init
<1>4. TypeOK
  BY <1>1, <1>2, <1>3 DEF TypeOK, HandlerOK
<1>5. QED
  BY <1>1, <1>4, InitLInv DEF TInv, DueKeepsInterval

\* A step that leaves the rows and the handler alone, or ends the handler.
LEMMA RestType ==
  ASSUME TInv,
         \/ Change \/ EnqueueDetect \/ RecoverStalled \/ RetryJob
         \/ Ack \/ DetectThrows \/ DetectDies \/ UNCHANGED vars
  PROVE  TypeOK' /\ DueKeepsInterval'
<1>1. TypeOK /\ DueKeepsInterval /\ ledger' \subseteq DOMAIN Txn
  <2>1. ledger' \subseteq DOMAIN Txn
    BY SubscriptionAssumption
    DEF TInv, TypeOK, SubscriptionAssumption, Change, EnqueueDetect, RecoverStalled,
        RetryJob, Ack, DetectThrows, DetectDies, MayFault, vars
  <2>2. QED
    BY <2>1 DEF TInv
<1>2. job' \in Job
  BY <1>1, NoJobType, AddFacts, StallFacts, RequeueFacts, FailFacts
  DEF TypeOK, Change, EnqueueDetect, RecoverStalled, RetryJob, Ack, DetectThrows,
      DetectDies, MayFault, vars
<1>3. /\ changes' \in 0..MaxChanges /\ edits' \in 0..MaxEdits
      /\ faults' \in 0..MaxFaults
  BY <1>1, SubscriptionAssumption
  DEF TypeOK, SubscriptionAssumption, Change, EnqueueDetect, RecoverStalled,
      RetryJob, Ack, DetectThrows, DetectDies, MayFault, vars
<1>4. UNCHANGED <<subs, touched, reactivated>> /\ (run' = run \/ run' = Idle)
  BY DEF Change, EnqueueDetect, RecoverStalled, RetryJob, Ack, DetectThrows,
         DetectDies, MayFault, vars
<1>5. HandlerOK' /\ run'.found \in 0..Len(subs)
  <2>1. CASE run' = run
    BY <1>1, <2>1 DEF TypeOK, HandlerOK
  <2>2. CASE run' = Idle
    BY <1>1, <2>2, IdleOK DEF TypeOK
  <2>3. QED
    BY <1>4, <2>1, <2>2
<1>6. TypeOK'
  BY <1>1, <1>2, <1>3, <1>4, <1>5 DEF TypeOK, HandlerOK
<1>7. DueKeepsInterval'
  BY <1>1, <1>4, IdleOK DEF DueKeepsInterval
<1>8. QED
  BY <1>6, <1>7

\* A user's update sets one of the intervals.
LEMMA UpdateType ==
  ASSUME TInv, NEW s \in DOMAIN subs, NEW active \in BOOLEAN,
         NEW interval \in Overrides \cup {subs[s].interval},
         Update(s, active, interval)
  PROVE  TypeOK' /\ DueKeepsInterval'
<1>1. TypeOK /\ DueKeepsInterval
  BY DEF TInv
<1>2. subs[s] \in Row /\ subs[s].key \in Keys /\ interval \in Intervals
  <2>1. subs[s] \in Row
    BY <1>1 DEF TypeOK
  <2>2. subs[s].key \in Keys /\ subs[s].interval \in Intervals
    BY <2>1 DEF Row
  <2>3. QED
    BY <2>1, <2>2, SubscriptionAssumption DEF SubscriptionAssumption
<1> DEFINE r == [subs[s] EXCEPT !.active = active, !.interval = interval]
<1>3. r \in Row
  BY <1>2 DEF Row
<1>4. subs' = [subs EXCEPT ![s] = r]
  BY DEF Update
<1> HIDE DEF r
<1>5. subs' \in Seq(Row) /\ Len(subs') = Len(subs)
  BY <1>1, <1>3, <1>4 DEF TypeOK
<1>6. /\ touched' \in SUBSET Keys /\ reactivated' \in SUBSET Keys
      /\ edits' \in 0..MaxEdits
      /\ UNCHANGED <<ledger, job, run, changes, faults>>
  BY <1>1, <1>2, SubscriptionAssumption DEF TypeOK, Update, SubscriptionAssumption
<1>7. QED
  BY <1>1, <1>5, <1>6 DEF TypeOK, DueKeepsInterval

\* The handler starts with groups of what it has read.
LEMMA StartType ==
  ASSUME TInv, DetectStart
  PROVE  TypeOK' /\ DueKeepsInterval'
<1>1. TypeOK /\ ledger \in SUBSET DOMAIN Txn
  BY DEF TInv, TypeOK
<1>2. job' \in Job
  BY <1>1, TakeFacts DEF TypeOK, DetectStart
<1>3. run' = [pc    |-> IF Recurring(ledger) = {} THEN "ack" ELSE "find",
              seen  |-> ledger,
              todo  |-> Recurring(ledger),
              new   |-> NoRow,
              found |-> 0]
  BY DEF DetectStart
<1>4. \A G \in Recurring(ledger) : G \subseteq ledger
  BY <1>1, GroupFacts
<1>5. /\ Recurring(ledger) \in SUBSET SUBSET DOMAIN Txn
      /\ UNION Recurring(ledger) \subseteq ledger
  BY <1>1, <1>4
<1>6. HandlerOK' /\ run'.found = 0 /\ run'.pc # "write"
  BY <1>1, <1>3, <1>5 DEF HandlerOK, Handler
<1>7. /\ touched' = {}
      /\ UNCHANGED <<ledger, subs, reactivated, changes, edits, faults>>
  BY DEF DetectStart
<1>8. QED
  BY <1>1, <1>2, <1>6, <1>7 DEF TypeOK, HandlerOK, DueKeepsInterval

\* The search has a row to write, for a group that recurs in what was read.
LEMMA FindType ==
  ASSUME TInv, NEW G, DetectFind(G)
  PROVE  TypeOK' /\ DueKeepsInterval'
<1> DEFINE new == Detected(run.seen, G)
<1>1. /\ TypeOK /\ HandlerOK
      /\ G \in run.todo /\ run.pc = "find" /\ run.seen \in SUBSET DOMAIN Txn
      /\ UNCHANGED <<ledger, subs, job, touched, reactivated, changes, edits, faults>>
  BY DEF TInv, TypeOK, HandlerOK, Handler, DetectFind, AtGroup
<1>2. G \in Recurring(run.seen)
  BY <1>1 DEF TInv, LInv, LoopInv
<1>3. /\ new \in Row
      /\ GuessInterval({new.due - DayNumber(new.last)}) = new.interval
  BY <1>1, <1>2, DetectedFacts
<1>4. PICK f \in (IF ActiveRows(KeyOf(G)) = {} THEN {0} ELSE ActiveRows(KeyOf(G))) :
        run' = [run EXCEPT !.pc = "write", !.new = new, !.found = f]
  BY DEF DetectFind
<1>5. f \in 0..Len(subs)
  <2>1. \A s \in DOMAIN subs : s \in 0..Len(subs)
    BY <1>1 DEF TypeOK
  <2>2. 0 \in 0..Len(subs)
    BY <1>1 DEF TypeOK
  <2>3. QED
    BY <2>1, <2>2 DEF ActiveRows
<1> HIDE DEF new
<1>6. run' = [pc |-> "write", seen |-> run.seen, todo |-> run.todo,
              new |-> new, found |-> f]
  BY <1>1, <1>4 DEF HandlerOK, Handler
<1>7. f \in Nat /\ new # NoRow
  BY <1>3, <1>5, NoRowAssumption DEF NoRowAssumption
<1>8. HandlerOK'
  BY <1>1, <1>3, <1>6, <1>7 DEF HandlerOK, Handler
<1>9. run'.found \in 0..Len(subs) /\ DueKeepsInterval'
  BY <1>3, <1>5, <1>6 DEF DueKeepsInterval
<1>10. QED
  BY <1>1, <1>8, <1>9 DEF TypeOK, HandlerOK

\* The write puts the row where it belongs.
LEMMA WriteType ==
  ASSUME TInv, NEW G, DetectUpdate(G) \/ DetectCreate(G)
  PROVE  TypeOK' /\ DueKeepsInterval'
<1>1. /\ TypeOK /\ HandlerOK /\ run.pc = "write"
      /\ UNCHANGED <<ledger, job, touched, reactivated, changes, edits, faults>>
  BY DEF TInv, TypeOK, HandlerOK, DetectUpdate, DetectCreate
<1>2. run.new \in Row
  BY <1>1 DEF HandlerOK, Handler
<1>3. subs' \in Seq(Row)
  <2>1. /\ subs \in Seq(Row)
        /\ run.found # 0 => run.found \in DOMAIN subs
    BY <1>1 DEF TypeOK
  <2>2. CASE DetectUpdate(G)
    <3>1. subs' = [subs EXCEPT ![run.found] = run.new] /\ run.found # 0
      BY <2>2 DEF DetectUpdate
    <3>2. QED
      BY <1>2, <2>1, <3>1
  <2>3. CASE DetectCreate(G)
    <3>1. subs' = Append(subs, run.new)
      BY <2>3 DEF DetectCreate
    <3>2. QED
      BY <1>2, <2>1, <3>1
  <2>4. QED
    BY <2>2, <2>3
<1>4. HandlerOK' /\ run'.found = 0 /\ run'.pc # "write"
  <2>1. GoOn(run.todo \ {G})
    BY DEF DetectUpdate, DetectCreate, NextGroup
  <2>2. QED
    BY <1>1, <2>1, GoOnOK
<1>5. run'.found \in 0..Len(subs')
  BY <1>3, <1>4
<1>6. QED
  BY <1>1, <1>3, <1>4, <1>5 DEF TypeOK, HandlerOK, DueKeepsInterval

\* Every step keeps the types and the due dates.
LEMMA StepTInv == TInv /\ [Next]_vars => TInv'
<1> SUFFICES ASSUME TInv, [Next]_vars PROVE TInv'
  OBVIOUS
<1>1. LInv'
  BY StepLInv DEF TInv
<1>2. TypeOK' /\ DueKeepsInterval'
  BY RestType, UpdateType, StartType, FindType, WriteType DEF Next, User, Detect
<1>3. QED
  BY <1>1, <1>2 DEF TInv

\* Every reachable state has its type: a job record, rows with all their columns,
\* a row to write exactly between a search and its write, and a row found that
\* still exists.
THEOREM TypeCorrect == Spec => []TypeOK
<1>1. TInv => TypeOK
  BY DEF TInv
<1>2. QED
  BY <1>1, InitTInv, StepTInv, PTL DEF Spec

\* Every due date that detection writes keeps the pattern it comes from, from any
\* day of any month.
THEOREM DueAlwaysKeepsInterval == Spec => []DueKeepsInterval
<1>1. TInv => DueKeepsInterval
  BY DEF TInv
<1>2. QED
  BY <1>1, InitTInv, StepTInv, PTL DEF Spec
=============================================================================
