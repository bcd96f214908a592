-------------------------- MODULE NormalizeProofs --------------------------
(* Theorems about NormalizeText, for texts of any length over any set of     *)
(* lines: the scanner, the types, and the removal of repeats.                *)
EXTENDS NormalizeText, OrderLemmas, SequenceTheorems, TLAPS

\* The transactions that pushTxn could make of any text.
Charges == {Charge(l, i, j) : l \in Seq(Token), i \in Nat, j \in Nat}

Shape ==
  /\ lines \in Seq(Lines)
  /\ pending \in 0..Len(lines)
  /\ txns \in Seq(Charges)

\* Every transaction is from lines that have been read, and is behind the line
\* that waits.
TakenBehind ==
  \A n \in DOMAIN txns :
    /\ txns[n].from \in Nat /\ txns[n].to \in Nat
    /\ txns[n].from <= txns[n].to
    /\ txns[n].to <= Len(lines)
    /\ pending # 0 => txns[n].to < pending

\* Line i has a date and no amount, and nothing has followed that ends the wait.
Waiting(i) ==
  /\ DateOnly(lines[i])
  /\ \A k \in (i + 1)..Len(lines) : Neither(lines[k])

\* The scanner's memory is the line that waits, of which there is at most one.
PendingWaits == \A i \in 1..Len(lines) : Waiting(i) <=> i = pending

IInv == Shape /\ TakenBehind /\ LinesAreTakenOnce /\ PendingWaits /\ ScanIsReference
-----------------------------------------------------------------------------
(* Lines *)

\* The kinds of lines exclude each other.
LEMMA Kinds ==
  ASSUME NEW l
  PROVE  /\ Dated(l) => ~DateOnly(l) /\ ~AmountOnly(l) /\ ~Neither(l)
         /\ DateOnly(l) => ~AmountOnly(l) /\ ~Neither(l)
         /\ AmountOnly(l) => ~Neither(l)
         /\ Dated(l) \/ DateOnly(l) \/ AmountOnly(l) \/ Neither(l)
  BY DEF Dated, DateOnly, AmountOnly, Neither

\* Reading a line puts it behind the others.
LEMMA ReadLine ==
  ASSUME Shape, NEW l \in Lines, Read(l)
  PROVE  /\ Len(lines) \in Nat
         /\ lines' \in Seq(Lines)
         /\ Len(lines') = Len(lines) + 1
         /\ \A i \in 1..Len(lines) : lines'[i] = lines[i] /\ lines[i] \in Lines
         /\ lines'[Len(lines) + 1] = l
  BY DEF Shape, Read

\* A charge knows its lines.
LEMMA ChargeLines ==
  ASSUME NEW l, NEW i, NEW j
  PROVE  Charge(l, i, j).from = i /\ Charge(l, i, j).to = j
  BY DEF Charge

\* A line with date and amount is a charge of its own; the others are none.
LEMMA OwnStep ==
  ASSUME Shape, NEW l \in Lines, Read(l)
  PROVE  OwnCharges' =
           OwnCharges \cup
             (IF Dated(l) THEN {Charge(l, Len(lines) + 1, Len(lines) + 1)} ELSE {})
<1> DEFINE N == Len(lines)
<1>1. /\ N \in Nat /\ Len(lines') = N + 1
      /\ DOMAIN lines = 1..N /\ DOMAIN lines' = 1..(N + 1)
      /\ \A i \in 1..N : lines'[i] = lines[i]
      /\ lines'[N + 1] = l
  BY ReadLine DEF Shape
<1>2. OwnCharges = {Charge(lines[i], i, i) : i \in {n \in 1..N : Dated(lines[n])}}
  BY <1>1 DEF OwnCharges
<1>3. OwnCharges' =
        {Charge(lines'[i], i, i) : i \in {n \in 1..(N + 1) : Dated(lines'[n])}}
  BY <1>1 DEF OwnCharges
<1> HIDE DEF N
<1>4. \A i : i \in 1..(N + 1) <=> i \in 1..N \/ i = N + 1
  BY <1>1
<1>5. OwnCharges' = OwnCharges \cup (IF Dated(l) THEN {Charge(l, N + 1, N + 1)} ELSE {})
  BY <1>1, <1>2, <1>3, <1>4
<1>6. QED
  BY <1>5 DEF N

\* The charges of wrapped lines, by the two lines.
LEMMA WrappedElements ==
  \A t : t \in WrappedCharges <=>
    \E i, j \in 1..Len(lines) :
      Wrapped(i, j) /\ t = Charge(lines[i] \o lines[j], i, j)
<1> DEFINE Pairs == {q \in (1..Len(lines)) \X (1..Len(lines)) : Wrapped(q[1], q[2])}
<1> SUFFICES ASSUME NEW t
             PROVE  t \in WrappedCharges <=>
                      \E i, j \in 1..Len(lines) :
                        Wrapped(i, j) /\ t = Charge(lines[i] \o lines[j], i, j)
  OBVIOUS
<1>1. t \in WrappedCharges <=>
        \E q \in Pairs : t = Charge(lines[q[1]] \o lines[q[2]], q[1], q[2])
  BY DEF WrappedCharges
<1>2. \A i, j : <<i, j>> \in Pairs <=>
        i \in 1..Len(lines) /\ j \in 1..Len(lines) /\ Wrapped(i, j)
  OBVIOUS
<1>3. \A q \in Pairs : q = <<q[1], q[2]>>
  OBVIOUS
<1> HIDE DEF Pairs
<1>4. ASSUME t \in WrappedCharges
      PROVE  \E i, j \in 1..Len(lines) :
               Wrapped(i, j) /\ t = Charge(lines[i] \o lines[j], i, j)
  <2>1. PICK q \in Pairs : t = Charge(lines[q[1]] \o lines[q[2]], q[1], q[2])
    BY <1>1, <1>4
  <2>2. <<q[1], q[2]>> \in Pairs
    BY <1>3
  <2>3. QED
    BY <2>1, <2>2, <1>2
<1>5. ASSUME NEW i \in 1..Len(lines), NEW j \in 1..Len(lines), Wrapped(i, j),
             t = Charge(lines[i] \o lines[j], i, j)
      PROVE  t \in WrappedCharges
  <2>1. <<i, j>> \in Pairs
    BY <1>2, <1>5
  <2>2. <<i, j>>[1] = i /\ <<i, j>>[2] = j
    OBVIOUS
  <2>3. QED
    BY <2>1, <2>2, <1>1, <1>5
<1>6. QED
  BY <1>4, <1>5

\* An amount without a date makes a charge with the line that waits, if one
\* does; other lines end no wait.
LEMMA WrappedStep ==
  ASSUME Shape, PendingWaits, NEW l \in Lines, Read(l)
  PROVE  WrappedCharges' =
           WrappedCharges \cup
             (IF AmountOnly(l) /\ pending # 0
              THEN {Charge(lines[pending] \o l, pending, Len(lines) + 1)} ELSE {})
<1>0. PICK N \in Nat : N = Len(lines)
  BY ReadLine
<1>1. /\ Len(lines) = N /\ Len(lines') = N + 1
      /\ \A i \in 1..N : lines'[i] = lines[i]
      /\ lines'[N + 1] = l
      /\ pending \in 0..N
  BY <1>0, ReadLine DEF Shape
<1>2. ASSUME NEW i \in 1..(N + 1), NEW j \in 1..N
      PROVE  Wrapped(i, j)' <=> i \in 1..N /\ Wrapped(i, j)
  BY <1>1 DEF Wrapped
<1>3. ASSUME NEW i \in 1..(N + 1)
      PROVE  Wrapped(i, N + 1)' <=> AmountOnly(l) /\ i \in 1..N /\ Waiting(i)
  <2>1. CASE i = N + 1
    BY <2>1, <1>1 DEF Wrapped
  <2>2. CASE i \in 1..N
    <3>1. (i + 1)..((N + 1) - 1) = (i + 1)..N
      BY <1>1
    <3>2. \A k \in (i + 1)..N : k \in 1..N
      BY <1>1, <2>2
    <3>3. Wrapped(i, N + 1)' <=>
            /\ i < N + 1
            /\ DateOnly(lines'[i]) /\ AmountOnly(lines'[N + 1])
            /\ \A k \in (i + 1)..N : Neither(lines'[k])
      BY <3>1, <1>1 DEF Wrapped
    <3>4. QED
      BY <3>2, <3>3, <2>2, <1>1 DEF Waiting
  <2>3. QED
    BY <2>1, <2>2, <1>1
<1>4. ASSUME NEW i \in 1..(N + 1)
      PROVE  Wrapped(i, N + 1)' <=> AmountOnly(l) /\ pending # 0 /\ i = pending
  BY <1>1, <1>3 DEF PendingWaits
<1>5. \A t : t \in WrappedCharges <=>
        \E i, j \in 1..N : Wrapped(i, j) /\ t = Charge(lines[i] \o lines[j], i, j)
  BY <1>1, WrappedElements
<1>6. \A t : t \in WrappedCharges' <=>
        \E i, j \in 1..(N + 1) :
          Wrapped(i, j)' /\ t = Charge(lines'[i] \o lines'[j], i, j)
  <2>1. (\A t : t \in WrappedCharges <=>
          \E i, j \in 1..Len(lines) :
            Wrapped(i, j) /\ t = Charge(lines[i] \o lines[j], i, j))'
    BY WrappedElements, PTL
  <2>2. QED
    BY <2>1, <1>1
<1>7. \A t : t \in WrappedCharges' <=>
        \/ t \in WrappedCharges
        \/ /\ AmountOnly(l) /\ pending # 0
           /\ t = Charge(lines[pending] \o l, pending, N + 1)
  <2> SUFFICES ASSUME NEW t
               PROVE  t \in WrappedCharges' <=>
                        \/ t \in WrappedCharges
                        \/ /\ AmountOnly(l) /\ pending # 0
                           /\ t = Charge(lines[pending] \o l, pending, N + 1)
    OBVIOUS
  <2>1. \A i : i \in 1..(N + 1) <=> i \in 1..N \/ i = N + 1
    BY <1>1
  <2>2. t \in WrappedCharges' <=>
          \/ \E i, j \in 1..N : Wrapped(i, j) /\ t = Charge(lines[i] \o lines[j], i, j)
          \/ \E i \in 1..(N + 1) :
               Wrapped(i, N + 1)' /\ t = Charge(lines'[i] \o lines'[N + 1], i, N + 1)
    BY <2>1, <1>1, <1>2, <1>6
  <2>3. pending # 0 => pending \in 1..N /\ pending \in 1..(N + 1)
    BY <1>1
  <2>4. QED
    BY <2>2, <2>3, <1>1, <1>4, <1>5
<1>8. QED
  BY <1>7, <1>1
-----------------------------------------------------------------------------
(* The scanner *)

Pushed == {txns[n] : n \in DOMAIN txns}

\* What pushTxn does: a charge with a name is put behind the others.
LEMMA PushStep ==
  ASSUME Shape, TakenBehind, LinesAreTakenOnce,
         NEW l \in Seq(Token), NEW i \in Nat, NEW j \in Nat, Push(l, i, j),
         i <= j, \A n \in DOMAIN txns : txns[n].to < i
  PROVE  /\ txns' \in Seq(Charges)
         /\ LinesAreTakenOnce'
         /\ \A n \in DOMAIN txns' :
              (n \in DOMAIN txns /\ txns'[n] = txns[n]) \/ txns'[n] = Charge(l, i, j)
         /\ Pushed' = Pushed \cup {t \in {Charge(l, i, j)} : HasName(t)}
<1> DEFINE t == Charge(l, i, j)
<1>1. t \in Charges /\ t.from = i /\ t.to = j
  BY ChargeLines DEF Charges
<1>2. txns \in Seq(Charges)
  BY DEF Shape
<1>3. txns' = IF HasName(t) THEN Append(txns, t) ELSE txns
  BY DEF Push
<1> HIDE DEF t
<1>4. CASE ~HasName(t)
  BY <1>2, <1>3, <1>4 DEF Pushed, LinesAreTakenOnce, t
<1>5. CASE HasName(t)
  <2>1. /\ txns' \in Seq(Charges)
        /\ Len(txns') = Len(txns) + 1
        /\ \A n \in 1..Len(txns) : txns'[n] = txns[n]
        /\ txns'[Len(txns) + 1] = t
    BY <1>1, <1>2, <1>3, <1>5, AppendProperties
  <2>2. /\ Len(txns) \in Nat
        /\ DOMAIN txns = 1..Len(txns) /\ DOMAIN txns' = 1..(Len(txns) + 1)
    BY <2>1, <1>2
  <2>3. \A n : n \in DOMAIN txns' <=> n \in DOMAIN txns \/ n = Len(txns) + 1
    BY <2>2
  <2>4. \A n \in DOMAIN txns' :
          (n \in DOMAIN txns /\ txns'[n] = txns[n]) \/ txns'[n] = t
    BY <2>1, <2>2, <2>3
  <2>5. Pushed' = Pushed \cup {t}
    BY <2>1, <2>2, <2>3 DEF Pushed
  <2>6. LinesAreTakenOnce'
    <3> SUFFICES ASSUME NEW m \in DOMAIN txns', NEW n \in DOMAIN txns', m < n
                 PROVE  txns'[m].to < txns'[n].from
      BY DEF LinesAreTakenOnce
    <3>1. m \in DOMAIN txns
      BY <2>2
    <3>2. txns'[m] = txns[m]
      BY <3>1, <2>1, <2>2
    <3>3. CASE n \in DOMAIN txns
      BY <3>1, <3>2, <3>3, <2>1, <2>2 DEF LinesAreTakenOnce
    <3>4. CASE n = Len(txns) + 1
      BY <3>1, <3>2, <3>4, <2>1, <1>1
    <3>5. QED
      BY <3>3, <3>4, <2>3
  <2>7. QED
    BY <2>1, <2>4, <2>5, <2>6, <1>5 DEF t
<1>6. QED
  BY <1>4, <1>5

\* Nothing has been read in the beginning.
LEMMA InitIInv == Init => IInv
<1> SUFFICES ASSUME Init PROVE IInv
  OBVIOUS
<1>1. lines = << >> /\ pending = 0 /\ txns = << >>
  BY DEF Init
<1>2. Shape
  BY <1>1 DEF Shape
<1>3. TakenBehind /\ LinesAreTakenOnce /\ PendingWaits
  BY <1>1 DEF TakenBehind, LinesAreTakenOnce, PendingWaits
<1>4. OwnCharges = {}
  BY <1>1 DEF OwnCharges
<1>5. WrappedCharges = {}
  BY <1>1, WrappedElements
<1>6. ScanIsReference
  BY <1>1, <1>4, <1>5 DEF ScanIsReference
<1>7. QED
  BY <1>2, <1>3, <1>6 DEF IInv

\* A line is a sequence of tokens.
LEMMA LineTokens == \A l \in Lines : l \in Seq(Token)
  BY TextAssumption

\* The line that waits after reading l.
NextWaiting(l) ==
  IF DateOnly(l) THEN Len(lines) + 1 ELSE IF Neither(l) THEN pending ELSE 0

\* A line with a date only begins a wait, and any but a line with neither ends one.
LEMMA WaitStep ==
  ASSUME Shape, PendingWaits, NEW l \in Lines, Read(l), pending' = NextWaiting(l)
  PROVE  PendingWaits' /\ pending' \in 0..Len(lines')
<1>0. PICK N \in Nat : N = Len(lines)
  BY ReadLine
<1>1. /\ Len(lines) = N /\ Len(lines') = N + 1
      /\ \A i \in 1..N : lines'[i] = lines[i]
      /\ lines'[N + 1] = l
      /\ pending \in 0..N
  BY <1>0, ReadLine DEF Shape
<1>2. pending' = IF DateOnly(l) THEN N + 1 ELSE IF Neither(l) THEN pending ELSE 0
  BY <1>1 DEF NextWaiting
<1>3. ASSUME NEW i \in 1..N
      PROVE  Waiting(i)' <=> Waiting(i) /\ Neither(l)
  <2>1. \A k \in (i + 1)..N : k \in 1..N
    BY <1>1
  <2>2. \A k : k \in (i + 1)..(N + 1) <=> k \in (i + 1)..N \/ k = N + 1
    BY <1>1
  <2>3. Waiting(i)' <=> DateOnly(lines'[i]) /\ \A k \in (i + 1)..(N + 1) : Neither(lines'[k])
    BY <1>1 DEF Waiting
  <2>4. QED
    BY <2>1, <2>2, <2>3, <1>1 DEF Waiting
<1>4. Waiting(N + 1)' <=> DateOnly(l)
  <2>1. (N + 1 + 1)..(N + 1) = {}
    BY <1>1
  <2>2. Waiting(N + 1)' <=> DateOnly(lines'[N + 1])
                            /\ \A k \in (N + 1 + 1)..(N + 1) : Neither(lines'[k])
    BY <1>1 DEF Waiting
  <2>3. QED
    BY <2>1, <2>2, <1>1
<1>5. DateOnly(l) => ~Neither(l)
  BY Kinds
<1>6. ASSUME NEW i \in 1..(N + 1)
      PROVE  Waiting(i)' <=> i = pending'
  <2>1. CASE i = N + 1
    BY <2>1, <1>1, <1>2, <1>4
  <2>2. CASE i \in 1..N
    <3>1. Waiting(i) <=> i = pending
      BY <2>2, <1>1 DEF PendingWaits
    <3>2. QED
      BY <3>1, <2>2, <1>1, <1>2, <1>3, <1>5
  <2>3. QED
    BY <2>1, <2>2
<1>7. QED
  BY <1>1, <1>2, <1>6 DEF PendingWaits

\* Between two transactions, or a transaction and the text read so far.
LEMMA BehindStep ==
  ASSUME Shape, TakenBehind, NEW l \in Lines, Read(l), UNCHANGED txns,
         pending' = pending \/ pending' = Len(lines) + 1
  PROVE  TakenBehind'
  BY ReadLine DEF TakenBehind, Shape

\* A line that is not taken adds no transaction, and none is missing.
LEMMA UntakenStep ==
  ASSUME IInv, NEW l \in Lines, Read(l), UNCHANGED txns,
         ~Dated(l), AmountOnly(l) => pending = 0, pending' = NextWaiting(l),
         pending' = pending \/ pending' = Len(lines) + 1
  PROVE  IInv'
<1>1. Shape /\ TakenBehind /\ LinesAreTakenOnce /\ PendingWaits /\ ScanIsReference
  BY DEF IInv
<1>2. PendingWaits' /\ Shape'
  BY <1>1, WaitStep, ReadLine DEF Shape
<1>3. TakenBehind'
  BY <1>1, BehindStep
<1>4. LinesAreTakenOnce'
  BY <1>1 DEF LinesAreTakenOnce
<1>5. OwnCharges' = OwnCharges /\ WrappedCharges' = WrappedCharges
  BY <1>1, OwnStep, WrappedStep
<1>6. ScanIsReference'
  BY <1>1, <1>5 DEF ScanIsReference
<1>7. QED
  BY <1>2, <1>3, <1>4, <1>6 DEF IInv

LEMMA SkipSummaryStep ==
  ASSUME IInv, NEW l \in Lines, SkipSummary(l)
  PROVE  IInv'
<1>1. Neither(l) /\ ~Dated(l) /\ ~AmountOnly(l) /\ ~DateOnly(l)
  BY DEF SkipSummary, Neither, Dated, AmountOnly, DateOnly
<1>2. Read(l) /\ UNCHANGED <<pending, txns>>
  BY DEF SkipSummary
<1>3. QED
  BY <1>1, <1>2, UntakenStep DEF NextWaiting

LEMMA HoldLineStep ==
  ASSUME IInv, NEW l \in Lines, HoldLine(l)
  PROVE  IInv'
<1>1. DateOnly(l) /\ ~Dated(l) /\ ~AmountOnly(l)
  BY DEF HoldLine, Dated, AmountOnly, DateOnly
<1>2. Read(l) /\ UNCHANGED txns /\ pending' = Len(lines')
  BY DEF HoldLine
<1>3. Len(lines') = Len(lines) + 1
  BY <1>2, ReadLine DEF IInv
<1>4. QED
  BY <1>1, <1>2, <1>3, UntakenStep DEF NextWaiting

LEMMA PassLineStep ==
  ASSUME IInv, NEW l \in Lines, PassLine(l)
  PROVE  IInv'
<1>1. ~DateOnly(l) /\ ~Dated(l) /\ (Neither(l) \/ (AmountOnly(l) /\ pending = 0))
  BY DEF PassLine, Dated, AmountOnly, DateOnly, Neither
<1>2. Read(l) /\ UNCHANGED <<pending, txns>>
  BY DEF PassLine
<1>3. Neither(l) => ~AmountOnly(l)
  BY Kinds
<1>4. QED
  BY <1>1, <1>2, <1>3, UntakenStep DEF NextWaiting

\* A charge of the text l from line i to the new line.
LEMMA TakenStep ==
  ASSUME IInv, NEW l \in Lines, Read(l), NEW text \in Seq(Token), NEW i \in Nat,
         Push(text, i, Len(lines) + 1), pending' = 0, pending' = NextWaiting(l),
         i <= Len(lines) + 1, \A n \in DOMAIN txns : txns[n].to < i,
         OwnCharges' \cup WrappedCharges'
           = OwnCharges \cup WrappedCharges \cup {Charge(text, i, Len(lines) + 1)}
  PROVE  IInv'
<1> DEFINE t == Charge(text, i, Len(lines) + 1)
<1>1. Shape /\ TakenBehind /\ LinesAreTakenOnce /\ PendingWaits /\ ScanIsReference
  BY DEF IInv
<1>2. /\ Len(lines) \in Nat /\ Len(lines') = Len(lines) + 1
      /\ Len(lines) + 1 \in Nat /\ lines' \in Seq(Lines)
  BY <1>1, ReadLine
<1>3. /\ txns' \in Seq(Charges)
      /\ LinesAreTakenOnce'
      /\ \A n \in DOMAIN txns' :
           (n \in DOMAIN txns /\ txns'[n] = txns[n]) \/ txns'[n] = t
      /\ Pushed' = Pushed \cup {u \in {t} : HasName(u)}
  BY <1>1, <1>2, PushStep
<1>4. PendingWaits' /\ Shape'
  BY <1>1, <1>2, <1>3, WaitStep DEF Shape
<1>5. t.from = i /\ t.to = Len(lines) + 1
  BY ChargeLines
<1> HIDE DEF t
<1>6. TakenBehind'
  BY <1>1, <1>2, <1>3, <1>5 DEF TakenBehind
<1>7. Pushed = {u \in OwnCharges \cup WrappedCharges : HasName(u)}
  BY <1>1 DEF Pushed, ScanIsReference
<1>8. Pushed' = {u \in OwnCharges' \cup WrappedCharges' : HasName(u)}
  BY <1>3, <1>7 DEF t
<1>9. ScanIsReference'
  BY <1>8 DEF Pushed, ScanIsReference
<1>10. QED
  BY <1>3, <1>4, <1>6, <1>9 DEF IInv

LEMMA TakeLineStep ==
  ASSUME IInv, NEW l \in Lines, TakeLine(l)
  PROVE  IInv'
<1>1. Dated(l) /\ ~DateOnly(l) /\ ~Neither(l) /\ ~AmountOnly(l)
  BY DEF TakeLine, Dated, DateOnly, Neither, AmountOnly
<1>2. Shape /\ TakenBehind /\ PendingWaits /\ Read(l) /\ pending' = 0
  BY DEF IInv, TakeLine
<1>3. Len(lines) \in Nat /\ Len(lines') = Len(lines) + 1
  BY <1>2, ReadLine
<1>4. Push(l, Len(lines) + 1, Len(lines) + 1)
  BY <1>3 DEF TakeLine
<1>5. OwnCharges' = OwnCharges \cup {Charge(l, Len(lines) + 1, Len(lines) + 1)}
  BY <1>1, <1>2, OwnStep
<1>6. WrappedCharges' = WrappedCharges
  BY <1>1, <1>2, WrappedStep
<1>7. \A n \in DOMAIN txns : txns[n].to < Len(lines) + 1
  BY <1>2, <1>3 DEF TakenBehind
<1>8. l \in Seq(Token) /\ pending' = NextWaiting(l)
  BY <1>1, <1>2, LineTokens DEF NextWaiting
<1>9. OwnCharges' \cup WrappedCharges'
        = OwnCharges \cup WrappedCharges \cup {Charge(l, Len(lines) + 1, Len(lines) + 1)}
  BY <1>5, <1>6
<1>10. QED
  BY <1>2, <1>3, <1>4, <1>7, <1>8, <1>9, TakenStep

LEMMA TakeWrappedStep ==
  ASSUME IInv, NEW l \in Lines, TakeWrapped(l)
  PROVE  IInv'
<1> DEFINE text == lines[pending] \o l
<1>1. AmountOnly(l) /\ ~Dated(l) /\ ~DateOnly(l) /\ ~Neither(l)
  BY DEF TakeWrapped, Dated, DateOnly, Neither, AmountOnly
<1>2. Shape /\ TakenBehind /\ PendingWaits /\ Read(l) /\ pending # 0 /\ pending' = 0
  BY DEF IInv, TakeWrapped
<1>3. /\ Len(lines) \in Nat /\ Len(lines') = Len(lines) + 1
      /\ pending \in 1..Len(lines) /\ lines[pending] \in Lines
  BY <1>2, ReadLine DEF Shape
<1>4. Push(text, pending, Len(lines) + 1)
  BY <1>3 DEF TakeWrapped
<1>5. OwnCharges' = OwnCharges
  BY <1>1, <1>2, OwnStep
<1>6. WrappedCharges' = WrappedCharges \cup {Charge(text, pending, Len(lines) + 1)}
  BY <1>1, <1>2, WrappedStep
<1>7. \A n \in DOMAIN txns : txns[n].to < pending
  BY <1>2 DEF TakenBehind
<1>8. text \in Seq(Token) /\ pending' = NextWaiting(l)
  BY <1>1, <1>2, <1>3, LineTokens DEF NextWaiting
<1>9. OwnCharges' \cup WrappedCharges'
        = OwnCharges \cup WrappedCharges \cup {Charge(text, pending, Len(lines) + 1)}
  BY <1>5, <1>6
<1> HIDE DEF text
<1>10. QED
  BY <1>2, <1>3, <1>4, <1>7, <1>8, <1>9, TakenStep
-----------------------------------------------------------------------------
\* One case per action.
LEMMA NextIInv == IInv /\ [Next]_vars => IInv'
<1> SUFFICES ASSUME IInv, [Next]_vars PROVE IInv'
  OBVIOUS
<1>1. ASSUME NEW l \in Lines,
             SkipSummary(l) \/ TakeLine(l) \/ HoldLine(l) \/ TakeWrapped(l) \/ PassLine(l)
      PROVE  IInv'
  BY <1>1, SkipSummaryStep, TakeLineStep, HoldLineStep, TakeWrappedStep, PassLineStep
<1>2. ASSUME UNCHANGED <<lines, pending, txns>>
      PROVE  IInv'
  BY <1>2 DEF IInv, Shape, TakenBehind, LinesAreTakenOnce, PendingWaits, Waiting,
              ScanIsReference, OwnCharges, WrappedCharges, Wrapped
<1>3. CASE Finish
  BY <1>2, <1>3 DEF Finish
<1>4. CASE UNCHANGED vars
  BY <1>2, <1>4 DEF vars
<1>5. QED
  BY <1>1, <1>3, <1>4 DEF Next

THEOREM AlwaysIInv == Spec => []IInv
<1>1. QED
  BY InitIInv, NextIInv, PTL DEF Spec

\* After any number of lines of any kinds the scanner of
\* extractTransactionsFromText has pushed exactly the charges of the text so far.
THEOREM ScanAlwaysReference == Spec => []ScanIsReference
<1>1. IInv => ScanIsReference
  BY DEF IInv
<1>2. QED
  BY <1>1, AlwaysIInv, PTL

\* In a text of any length no line is in two transactions.
THEOREM LinesAlwaysTakenOnce == Spec => []LinesAreTakenOnce
<1>1. IInv => LinesAreTakenOnce
  BY DEF IInv
<1>2. QED
  BY <1>1, AlwaysIInv, PTL
-----------------------------------------------------------------------------
(* What is taken from a line has its type. *)

\* A selection of a sequence is one of its elements, each by its rank.
LEMMA AtFacts ==
  ASSUME NEW S, NEW s \in Seq(S), NEW N, N \subseteq DOMAIN s
  PROVE  /\ Cardinality(N) \in Nat
         /\ At(s, N) \in Seq(S)
         /\ DOMAIN At(s, N) = 1..Cardinality(N)
         /\ \A n \in 1..Cardinality(N) :
              \E k \in N : Rank(N, k) = n /\ At(s, N)[n] = s[k]
<1>1. PICK m \in Nat : DOMAIN s = 1..m /\ \A k \in 1..m : s[k] \in S
  OBVIOUS
<1>2. Cardinality(N) \in Nat
  BY <1>1, RankFacts
<1> DEFINE nth(n) == CHOOSE k \in N : Rank(N, k) = n
<1>3. At(s, N) = [n \in 1..Cardinality(N) |-> s[nth(n)]]
  BY DEF At, Rank
<1>4. ASSUME NEW n \in 1..Cardinality(N)
      PROVE  nth(n) \in N /\ Rank(N, nth(n)) = n
  BY <1>1, RankExists
<1> HIDE DEF nth
<1>5. \A n \in 1..Cardinality(N) : s[nth(n)] \in S
  BY <1>1, <1>4
<1>6. QED
  BY <1>2, <1>3, <1>4, <1>5

\* Dates and amounts have numbers.
LEMMA TokenNumber ==
  ASSUME NEW t \in Token, t.is \notin {"word", "total"}
  PROVE  t.v \in Nat
  BY TextAssumption DEF Token

\* The first date of a line, and the amount that is chosen, are there.
LEMMA LineFacts ==
  ASSUME NEW l \in Seq(Token)
  PROVE  /\ Dates(l) # {} => Min(Dates(l)) \in DOMAIN l /\ IsDate(l[Min(Dates(l))])
         /\ Amounts(l) # {} => Chosen(l) \in Amounts(l)
<1>1. PICK m \in Nat : DOMAIN l = 1..m
  OBVIOUS
<1>2. Dates(l) \subseteq Nat
  BY <1>1 DEF Dates
<1>3. Dates(l) # {} => Min(Dates(l)) \in Dates(l)
  BY <1>2, MinFacts
<1> DEFINE nonZero == {k \in Amounts(l) : Value(l, k) # 0}
           C == IF nonZero # {} THEN nonZero ELSE Amounts(l)
<1>4. C \subseteq Amounts(l) /\ C \subseteq 0..m /\ (Amounts(l) # {} => C # {})
  BY <1>1 DEF Amounts
<1>5. C # {} => Max(C) \in C
  BY <1>4, MaxFacts
<1>6. Chosen(l) = Max(C)
  BY DEF Chosen
<1>7. QED
  BY <1>3, <1>4, <1>5, <1>6 DEF Dates

\* An amount is a number of cents, be it joined with the digits of a year.
LEMMA ValueType ==
  ASSUME NEW l \in Seq(Token), NEW k \in Amounts(l)
  PROVE  Value(l, k) \in Nat
<1>1. l[k] \in Token /\ l[k].is \notin {"word", "total"}
  BY DEF Amounts
<1>2. l[k].v \in Nat
  BY <1>1, TokenNumber
<1>3. /\ 2500000 * (IF l[k].v < 100000 THEN 1 ELSE 1000) + l[k].v \in Nat
      /\ l[k].v % 100000 \in Nat
  BY <1>2
<1>4. QED
  BY <1>2, <1>3 DEF Value

\* What pushTxn makes of a text with a date and an amount is a transaction.
LEMMA ChargeType ==
  ASSUME NEW l \in Seq(Token), Dates(l) # {}, Amounts(l) # {},
         NEW i \in Nat, NEW j \in Nat
  PROVE  Charge(l, i, j) \in Txn
<1>1. l[Min(Dates(l))].v \in Nat
  <2>1. l[Min(Dates(l))] \in Token /\ IsDate(l[Min(Dates(l))])
    BY LineFacts
  <2>2. QED
    BY <2>1, TokenNumber DEF IsDate
<1>2. Value(l, Chosen(l)) \in Nat
  BY LineFacts, ValueType
<1>3. Name(l) \in Seq(Token)
  <2> DEFINE N == DOMAIN l \ ({Min(Dates(l))} \cup
                    {k \in {Chosen(l)} : l[k].is = "amount" /\ ~Joined(l, k)})
  <2>1. N \subseteq DOMAIN l
    OBVIOUS
  <2>2. Name(l) = At(l, N)
    BY DEF Name
  <2> HIDE DEF N
  <2>3. QED
    BY <2>1, <2>2, AtFacts
<1>4. QED
  BY <1>1, <1>2, <1>3 DEF Charge, Txn

\* A wrapped line has the date of its first part and the amount of its second.
LEMMA WrappedLine ==
  ASSUME NEW l \in Seq(Token), NEW r \in Seq(Token)
  PROVE  /\ l \o r \in Seq(Token)
         /\ Dates(l) # {} => Dates(l \o r) # {}
         /\ Amounts(r) # {} => Amounts(l \o r) # {}
<1>1. PICK m \in Nat, n \in Nat : Len(l) = m /\ Len(r) = n
  OBVIOUS
<1>2. /\ l \o r \in Seq(Token) /\ DOMAIN (l \o r) = 1..(m + n)
      /\ DOMAIN l = 1..m /\ DOMAIN r = 1..n
      /\ \A k \in 1..m : (l \o r)[k] = l[k]
      /\ \A k \in 1..n : (l \o r)[m + k] = r[k]
  BY <1>1
<1>3. /\ \A k \in 1..m : k \in 1..(m + n)
      /\ \A k \in 1..n : m + k \in 1..(m + n)
  OBVIOUS
<1>4. \A k \in Dates(l) : k \in Dates(l \o r)
  BY <1>2, <1>3 DEF Dates
<1>5. \A k \in Amounts(r) : m + k \in Amounts(l \o r)
  BY <1>2, <1>3 DEF Amounts
<1>6. QED
  BY <1>2, <1>4, <1>5
-----------------------------------------------------------------------------
(* The end of the text. *)

\* What FlattenSeq computes from left to right, up to the n-th sequence of ss.
Flattens(f, ss, n) ==
  f = [i \in 1..n |-> IF i = 1 THEN ss[i] ELSE f[i - 1] \o ss[i]]

\* It can be computed, as there is no least n for which it cannot.
LEMMA FlattensExists ==
  ASSUME NEW ss, NEW n \in Nat
  PROVE  \E f : Flattens(f, ss, n)
<1> DEFINE Bad == {k \in Nat : ~\E f : Flattens(f, ss, k)}
<1>1. SUFFICES ASSUME Bad # {} PROVE FALSE
  OBVIOUS
<1>2. PICK k \in Bad : \A j \in Bad : k =< j
  BY <1>1, LeastNumber
<1>3. k # 0
  <2>1. Flattens([i \in 1..0 |-> 0], ss, 0)
    BY DEF Flattens
  <2>2. QED
    BY <1>2, <2>1
<1>4. PICK j \in Nat : k = j + 1
  <2>1. k - 1 \in Nat /\ k = (k - 1) + 1
    BY <1>3
  <2>2. QED
    BY <2>1
<1>5. PICK f : Flattens(f, ss, j)
  BY <1>2, <1>4
<1> DEFINE g == [i \in 1..k |-> IF i = k THEN (IF i = 1 THEN ss[i] ELSE f[j] \o ss[i])
                                         ELSE f[i]]
<1>6. ASSUME NEW i \in 1..k
      PROVE  g[i] = IF i = 1 THEN ss[i] ELSE g[i - 1] \o ss[i]
  <2>1. CASE i = k
    <3>1. i # 1 => j \in 1..k /\ j # k /\ i - 1 = j
      BY <1>4, <2>1
    <3>2. QED
      BY <2>1, <3>1
  <2>2. CASE i # k
    <3>1. i \in 1..j /\ (i # 1 => i - 1 \in 1..k /\ i - 1 # k)
      BY <1>4, <2>2
    <3>2. f[i] = IF i = 1 THEN ss[i] ELSE f[i - 1] \o ss[i]
      BY <1>5, <3>1 DEF Flattens
    <3>3. QED
      BY <2>2, <3>1, <3>2
  <2>3. QED
    BY <2>1, <2>2
<1>7. g = [i \in 1..k |-> IF i = 1 THEN ss[i] ELSE g[i - 1] \o ss[i]]
  <2>1. g = [i \in 1..k |-> g[i]]
    OBVIOUS
  <2> HIDE DEF g
  <2>2. QED
    BY <2>1, <1>6
<1> HIDE DEF g
<1>8. Flattens(g, ss, k)
  BY <1>7 DEF Flattens
<1>9. QED
  BY <1>2, <1>8

\* The lines of a text, one behind the other, are a sequence of their tokens.
LEMMA FlattenType ==
  ASSUME NEW S, NEW ss \in Seq(Seq(S))
  PROVE  FlattenSeq(ss) \in Seq(S)
<1>1. CASE Len(ss) = 0
  <2>1. ss = << >>
    BY <1>1
  <2>2. QED
    BY <1>1, <2>1 DEF FlattenSeq
<1>2. CASE Len(ss) # 0
  <2> DEFINE n == Len(ss)
             f == CHOOSE g : Flattens(g, ss, n)
             Bad == {k \in 1..n : f[k] \notin Seq(S)}
  <2>1. n \in Nat /\ n # 0 /\ \A k \in 1..n : ss[k] \in Seq(S)
    BY <1>2
  <2>2. FlattenSeq(ss) = f[n]
    BY <1>2 DEF FlattenSeq, Flattens
  <2>3. Flattens(f, ss, n)
    BY <2>1, FlattensExists
  <2> HIDE DEF f, n
  <2>4. \A k \in 1..n : f[k] = IF k = 1 THEN ss[k] ELSE f[k - 1] \o ss[k]
    BY <2>3 DEF Flattens
  <2>5. ASSUME Bad # {} PROVE FALSE
    <3>1. Bad \subseteq Nat
      BY <2>1
    <3>2. PICK k \in Bad : \A j \in Bad : k =< j
      BY <2>5, <3>1, LeastNumber
    <3>3. k # 1
      BY <2>1, <2>4, <3>2
    <3>4. k - 1 \in 1..n /\ ~(k =< k - 1)
      BY <2>1, <3>2, <3>3
    <3>5. f[k - 1] \in Seq(S) /\ ss[k] \in Seq(S)
      BY <2>1, <3>2, <3>4
    <3>6. f[k] = f[k - 1] \o ss[k]
      BY <2>4, <3>2, <3>3
    <3>7. f[k - 1] \o ss[k] \in Seq(S)
      BY <3>5
    <3>8. QED
      BY <3>2, <3>6, <3>7
  <2>6. n \in 1..n
    BY <2>1
  <2>7. QED
    BY <2>2, <2>5, <2>6
<1>3. QED
  BY <1>1, <1>2

\* The fallback makes one transaction or none; where it makes one, the text has a
\* first line to name it.
LEMMA FallbackType ==
  ASSUME Shape
  PROVE  Fallback(FlattenSeq(lines)) \in Seq(Txn)
<1> DEFINE text == FlattenSeq(lines)
           totals == {k \in 1..(Len(text) - 1) :
                        text[k].is = "total" /\ text[k + 1].is \notin {"word", "total"}}
           slashed == {k \in DOMAIN text : text[k].is = "date"}
           date == text[Min(slashed)]
           total == text[Min(totals) + 1]
<1>1. lines \in Seq(Seq(Token)) /\ lines \in Seq(Lines)
  BY TextAssumption DEF Shape, TextAssumption
<1>2. text \in Seq(Token)
  BY <1>1, FlattenType
<1>3. lines = << >> => slashed = {}
  <2>1. FlattenSeq(<< >>) = << >>
    BY DEF FlattenSeq
  <2>2. QED
    BY <2>1
<1>4. Fallback(text) = IF totals = {} \/ slashed = {} THEN << >>
                       ELSE <<[date |-> date.v, cents |-> TotalValue(total),
                               name |-> lines[1], from |-> 0, to |-> 0]>>
  BY DEF Fallback
<1> SUFFICES Fallback(text) \in Seq(Txn)
  OBVIOUS
<1> HIDE DEF text
<1>5. CASE totals = {} \/ slashed = {}
  BY <1>4, <1>5
<1>6. CASE totals # {} /\ slashed # {}
  <2>1. PICK m \in Nat : DOMAIN text = 1..m /\ Len(text) = m
    BY <1>2
  <2>2. totals \subseteq Nat /\ slashed \subseteq Nat
    BY <2>1
  <2>3. Min(totals) \in totals /\ Min(slashed) \in slashed
    BY <1>6, <2>2, MinFacts
  <2> HIDE DEF date, total
  <2>4. total \in Token /\ total.is \notin {"word", "total"}
    BY <1>2, <2>1, <2>3 DEF total
  <2>5. date \in Token /\ date.is = "date"
    BY <1>2, <2>1, <2>3 DEF date
  <2>6. date.v \in Nat /\ total.v \in Nat
    BY <2>4, <2>5, TokenNumber
  <2>7. TotalValue(total) \in Nat
    <3>1. (total.v \div 100) * 100 \in Nat /\ total.v \div 1000 \in Nat
      BY <2>6
    <3>2. QED
      BY <2>6, <3>1 DEF TotalValue
  <2>8. lines[1] \in Seq(Token)
    <3>1. Len(lines) \in Nat /\ lines # << >>
      BY <1>1, <1>3, <1>6
    <3>2. QED
      BY <1>1, <3>1
  <2>9. [date |-> date.v, cents |-> TotalValue(total), name |-> lines[1],
         from |-> 0, to |-> 0] \in Txn
    BY <2>6, <2>7, <2>8 DEF Txn
  <2>10. QED
    BY <1>4, <1>6, <2>9
<1>7. QED
  BY <1>5, <1>6
-----------------------------------------------------------------------------
(* The removal of repeats. *)

\* The indices of the transactions that stay.
Firsts(ts) == {n \in DOMAIN ts : \A m \in 1..(n - 1) : Key(ts[m]) # Key(ts[n])}

\* Every key is that of one transaction that stays.
LEMMA FirstOfKey ==
  ASSUME NEW S, NEW ts \in Seq(S), NEW n \in DOMAIN ts
  PROVE  \E k \in Firsts(ts) :
           /\ Key(ts[k]) = Key(ts[n])
           /\ \A j \in Firsts(ts) : Key(ts[j]) = Key(ts[n]) => j = k
<1> DEFINE Same == {j \in DOMAIN ts : Key(ts[j]) = Key(ts[n])}
<1>1. PICK m \in Nat : DOMAIN ts = 1..m
  OBVIOUS
<1>2. Same \subseteq Nat /\ n \in Same
  BY <1>1
<1>3. PICK k \in Same : \A j \in Same : k =< j
  BY <1>2, LeastNumber
<1>4. k \in Firsts(ts)
  <2>1. ASSUME NEW j \in 1..(k - 1) PROVE Key(ts[j]) # Key(ts[k])
    <3>1. j \in DOMAIN ts /\ ~(k =< j)
      BY <1>1
    <3>2. QED
      BY <1>3, <3>1
  <2>2. QED
    BY <2>1 DEF Firsts
<1>5. ASSUME NEW j \in Firsts(ts), Key(ts[j]) = Key(ts[n]) PROVE j = k
  <2>1. j \in Same /\ j \in 1..m /\ k \in 1..m
    BY <1>1, <1>5 DEF Firsts
  <2>2. k =< j
    BY <1>3, <2>1
  <2>3. k < j => k \in 1..(j - 1)
    BY <2>1
  <2>4. ~(k < j)
    BY <1>5, <2>3 DEF Firsts
  <2>5. QED
    BY <2>1, <2>2, <2>4
<1>6. QED
  BY <1>3, <1>4, <1>5

\* What is left has its type, is from what was there, and has each key once.
LEMMA DeduplicatedFacts ==
  ASSUME NEW S, NEW ts \in Seq(S)
  PROVE  /\ Deduplicated(ts) \in Seq(S)
         /\ \A p \in DOMAIN Deduplicated(ts) :
              \E n \in DOMAIN ts : Deduplicated(ts)[p] = ts[n]
         /\ \A n \in DOMAIN ts :
              Cardinality({p \in DOMAIN Deduplicated(ts) :
                             Key(Deduplicated(ts)[p]) = Key(ts[n])}) = 1
<1> DEFINE r == Deduplicated(ts)
           N == Firsts(ts)
<1>1. PICK m \in Nat : DOMAIN ts = 1..m
  OBVIOUS
<1>2. N \subseteq DOMAIN ts /\ r = At(ts, N)
  BY DEF Deduplicated, Firsts
<1> HIDE DEF r, N
<1>3. /\ Cardinality(N) \in Nat
      /\ r \in Seq(S)
      /\ DOMAIN r = 1..Cardinality(N)
      /\ \A p \in 1..Cardinality(N) :
           \E k \in N : Rank(N, k) = p /\ r[p] = ts[k]
  BY <1>2, AtFacts
<1>4. ASSUME NEW n \in DOMAIN ts
      PROVE  \E q : {p \in DOMAIN r : Key(r[p]) = Key(ts[n])} = {q}
  <2>1. PICK k \in N : /\ Key(ts[k]) = Key(ts[n])
                       /\ \A j \in N : Key(ts[j]) = Key(ts[n]) => j = k
    BY FirstOfKey DEF N
  <2>2. Rank(N, k) \in 1..Cardinality(N)
    BY <1>1, <1>2, RankBounds
  <2>3. PICK j \in N : Rank(N, j) = Rank(N, k) /\ r[Rank(N, k)] = ts[j]
    BY <1>3, <2>2
  <2>4. j = k
    BY <1>1, <1>2, <2>3, RankIsUnique
  <2>5. Key(r[Rank(N, k)]) = Key(ts[n])
    BY <2>1, <2>3, <2>4
  <2>6. ASSUME NEW p \in DOMAIN r, Key(r[p]) = Key(ts[n]) PROVE p = Rank(N, k)
    <3>1. PICK i \in N : Rank(N, i) = p /\ r[p] = ts[i]
      BY <1>3
    <3>2. QED
      BY <2>1, <2>6, <3>1
  <2>7. Rank(N, k) \in DOMAIN r
    BY <1>3, <2>2
  <2>8. {p \in DOMAIN r : Key(r[p]) = Key(ts[n])} = {Rank(N, k)}
    BY <2>5, <2>6, <2>7
  <2>9. QED
    BY <2>8
<1>5. \A n \in DOMAIN ts :
        Cardinality({p \in DOMAIN r : Key(r[p]) = Key(ts[n])}) = 1
  BY <1>4, FS_Singleton
<1>6. \A p \in DOMAIN r : \E n \in DOMAIN ts : r[p] = ts[n]
  BY <1>2, <1>3
<1>7. QED
  BY <1>3, <1>5, <1>6 DEF r
-----------------------------------------------------------------------------
(* The types and the result. *)

\* At the end the result is what is left of the transactions.
ResultInv ==
  status # "reading" /\ txns # << >> => result = Deduplicated(txns)

TInv == IInv /\ TypeOK /\ ResultInv

LEMMA InitTInv == Init => TInv
<1> SUFFICES ASSUME Init PROVE TInv
  OBVIOUS
<1>1. /\ lines = << >> /\ pending = 0 /\ txns = << >>
      /\ status = "reading" /\ result = << >>
  BY DEF Init
<1>2. TypeOK /\ ResultInv
  BY <1>1, TextAssumption DEF TypeOK, ResultInv
<1>3. QED
  BY <1>2, InitIInv DEF TInv

\* A line that is read counts, and changes no result.
LEMMA ReadType ==
  ASSUME TInv, IInv', NEW l \in Lines, Read(l), txns' \in Seq(Txn)
  PROVE  TInv'
<1>1. Shape /\ Shape'
  BY DEF TInv, IInv
<1>2. Len(lines') = Len(lines) + 1 /\ Len(lines) \in Nat /\ MaxLines \in Nat
  BY <1>1, ReadLine, TextAssumption
<1>3. lines' \in Seq(Lines) /\ Len(lines') <= MaxLines /\ pending' \in 0..Len(lines')
  BY <1>1, <1>2 DEF Read, Shape
<1>4. status' = status /\ result' = result /\ status = "reading"
  BY DEF Read
<1>5. TypeOK' /\ ResultInv'
  BY <1>3, <1>4 DEF TInv, TypeOK, ResultInv
<1>6. QED
  BY <1>5 DEF TInv

\* pushTxn pushes a transaction.
LEMMA PushType ==
  ASSUME txns \in Seq(Txn), NEW l \in Seq(Token), Dates(l) # {}, Amounts(l) # {},
         NEW i \in Nat, NEW j \in Nat, Push(l, i, j)
  PROVE  txns' \in Seq(Txn)
<1> DEFINE c == Charge(l, i, j)
<1>1. c \in Txn
  BY ChargeType
<1>2. txns' = IF HasName(c) THEN Append(txns, c) ELSE txns
  BY DEF Push
<1> HIDE DEF c
<1>3. QED
  BY <1>1, <1>2

LEMMA StepTInv == TInv /\ [Next]_vars => TInv'
<1> SUFFICES ASSUME TInv, [Next]_vars PROVE TInv'
  OBVIOUS
<1>1. IInv'
  BY NextIInv DEF TInv
<1>2. /\ IInv /\ Shape /\ PendingWaits /\ lines \in Seq(Lines)
      /\ txns \in Seq(Txn)
  BY DEF TInv, IInv, TypeOK, Shape
<1>3. ASSUME NEW l \in Lines, SkipSummary(l) \/ HoldLine(l) \/ PassLine(l)
      PROVE  TInv'
  <2>1. Read(l) /\ txns' = txns
    BY <1>3 DEF SkipSummary, HoldLine, PassLine
  <2>2. QED
    BY <1>1, <1>2, <2>1, ReadType
<1>4. ASSUME NEW l \in Lines, TakeLine(l)
      PROVE  TInv'
  <2>1. /\ Read(l) /\ Dates(l) # {} /\ Amounts(l) # {}
        /\ Push(l, Len(lines'), Len(lines')) /\ l \in Seq(Token)
    BY <1>4, LineTokens DEF TakeLine
  <2>2. Len(lines') \in Nat
    BY <1>2, <2>1, ReadLine
  <2>3. txns' \in Seq(Txn)
    BY <1>2, <2>1, <2>2, PushType
  <2>4. QED
    BY <1>1, <2>1, <2>3, ReadType
<1>5. ASSUME NEW l \in Lines, TakeWrapped(l)
      PROVE  TInv'
  <2>1. /\ Read(l) /\ Amounts(l) # {} /\ pending # 0 /\ l \in Seq(Token)
        /\ Push(lines[pending] \o l, pending, Len(lines'))
    BY <1>5, LineTokens DEF TakeWrapped
  <2>2. /\ Len(lines) \in Nat /\ Len(lines') \in Nat
        /\ pending \in 1..Len(lines)
    BY <1>2, <2>1, ReadLine DEF Shape
  <2>3. lines[pending] \in Seq(Token) /\ pending \in Nat
    BY <1>2, <2>2, LineTokens
  <2>4. Dates(lines[pending]) # {}
    BY <1>2, <2>2 DEF PendingWaits, Waiting, DateOnly
  <2>5. /\ lines[pending] \o l \in Seq(Token)
        /\ Dates(lines[pending] \o l) # {} /\ Amounts(lines[pending] \o l) # {}
    BY <2>1, <2>3, <2>4, WrappedLine
  <2>6. txns' \in Seq(Txn)
    BY <1>2, <2>1, <2>2, <2>3, <2>5, PushType
  <2>7. QED
    BY <1>1, <2>1, <2>6, ReadType
<1>6. CASE Finish
  <2>1. /\ result' = IF txns # << >> THEN Deduplicated(txns)
                     ELSE Fallback(FlattenSeq(lines))
        /\ status' \in {"SUCCEEDED", "FAILED"}
        /\ UNCHANGED <<lines, pending, txns>>
    BY <1>6 DEF Finish
  <2>2. Deduplicated(txns) \in Seq(Txn) /\ Fallback(FlattenSeq(lines)) \in Seq(Txn)
    BY <1>2, DeduplicatedFacts, FallbackType
  <2>3. result' \in Seq(Txn)
    BY <2>1, <2>2
  <2>4. TypeOK' /\ ResultInv'
    BY <2>1, <2>3 DEF TInv, TypeOK, ResultInv
  <2>5. QED
    BY <1>1, <2>4 DEF TInv
<1>7. CASE UNCHANGED vars
  BY <1>1, <1>7 DEF TInv, TypeOK, ResultInv, vars
<1>8. QED
  BY <1>3, <1>4, <1>5, <1>6, <1>7 DEF Next

\* Every transaction of normalizedJson has a date, an amount and a name, whether
\* it is from a line, from two, or from the fallback.
THEOREM TypeCorrect == Spec => []TypeOK
<1>1. TInv => TypeOK
  BY DEF TInv
<1>2. QED
  BY <1>1, InitTInv, StepTInv, PTL DEF Spec

\* In a text of any length the removal of repeats removes nothing but repeats, and
\* all of them.
THEOREM OnlyRepeatsAlwaysDropped == Spec => []OnlyRepeatsAreDropped
<1>1. TInv => OnlyRepeatsAreDropped
  <2> SUFFICES ASSUME TInv, status = "SUCCEEDED", txns # << >>
               PROVE  /\ \A n \in DOMAIN txns :
                           Cardinality({m \in DOMAIN result :
                                          /\ result[m].date = txns[n].date
                                          /\ result[m].cents = txns[n].cents
                                          /\ result[m].name = txns[n].name}) = 1
                      /\ \A m \in DOMAIN result :
                           \E n \in DOMAIN txns : result[m] = txns[n]
    BY DEF OnlyRepeatsAreDropped
  <2>1. result = Deduplicated(txns) /\ txns \in Seq(Txn)
    BY DEF TInv, ResultInv, TypeOK
  <2>2. \A m, n :
          /\ result[m].date = txns[n].date
          /\ result[m].cents = txns[n].cents
          /\ result[m].name = txns[n].name
          <=> Key(result[m]) = Key(txns[n])
    BY DEF Key
  <2>3. \A n \in DOMAIN txns :
          {m \in DOMAIN result : /\ result[m].date = txns[n].date
                                 /\ result[m].cents = txns[n].cents
                                 /\ result[m].name = txns[n].name}
            = {m \in DOMAIN result : Key(result[m]) = Key(txns[n])}
    BY <2>2
  <2>4. QED
    BY <2>1, <2>3, DeduplicatedFacts
<1>2. QED
  BY <1>1, InitTInv, StepTInv, PTL DEF Spec
=============================================================================
