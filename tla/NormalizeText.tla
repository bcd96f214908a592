--------------------------- MODULE NormalizeText ---------------------------
(***************************************************************************)
(* How normalize turns the text of an extraction into transactions         *)
(* (apps/worker/src/processors/normalize.processor.ts): a scanner that     *)
(* goes through the lines with one line of memory, a removal of repeats,   *)
(* and a fallback for a text without transaction lines.  A step reads one  *)
(* line, which may be any line of Lines.                                   *)
(*                                                                         *)
(* Abstractions.  A line is a sequence of tokens between blanks; the       *)
(* regular expressions are modelled by what they take from such a line.    *)
(* A date is dd/mm/2025 or dd.mm.2025; an amount has two decimals and is   *)
(* below a million, and no two amounts of a line are equal.  Currencies,   *)
(* signs, the MERCHANT: and FROM: lines and the maximal lengths are left   *)
(* out.                                                                    *)
(***************************************************************************)
EXTENDS Integers, Sequences, SequencesExt, FiniteSetsExt

CONSTANTS
  Words,     \* words, none of which is a summary word
  Numbers,   \* amounts in cents, and days as in 2112 for December 21
  Lines,     \* the lines that a text can have
  MaxLines   \* bound: lines per text

\* "date" has slashes, "dotted" has dots; "total" is the word TOTAL;
\* "amount" has separators where it has thousands, "plain" has none and needs
\* them.
Token ==
  [is: {"date", "dotted", "amount", "plain"}, v: Numbers]
    \cup [is: {"word"}, v: Words] \cup [is: {"total"}]

ASSUME TextAssumption ==
  /\ \A n \in Numbers : n \in Nat /\ n \div 100 < 1000000
  /\ Lines \subseteq Seq(Token) \ {<< >>}
  /\ MaxLines \in Nat

VARIABLES
  lines,    \* the lines read so far
  pending,  \* the number of the line with a date that waits for an amount, or 0
  txns,     \* the transactions pushed, each with the lines it is from
  status,   \* "reading" until the end of the text, then the extraction's
  result    \* the transactions of normalizedJson

vars == <<lines, pending, txns, status, result>>
-----------------------------------------------------------------------------
(* What the regular expressions find on a line l. *)

IsDate(t) == t.is \in {"date", "dotted"}

\* looksLikeSummaryLine
Summary(l) == \E k \in DOMAIN l : l[k].is = "total"

\* parseDateFromLine
Dates(l) == {k \in DOMAIN l : IsDate(l[k])}

\* extractAmountsFromLine: the dots of a date make it an amount, too.
Amounts(l) == {k \in DOMAIN l : l[k].is \in {"dotted", "amount", "plain"}}

\* Three digits behind a blank are a thousands group: an amount that begins with
\* three digits, 345.00 or 123,456.00, is read together with the last digits of
\* the year before it.
Joined(l, k) ==
  /\ k > 1 /\ IsDate(l[k - 1])
  /\ l[k].is = "amount"
  /\ l[k].v \div 100 \in 100..999 \/ l[k].v \div 100000 \in 100..999

\* parseMoneyAmount.  Without separators only three digits are taken.
Value(l, k) ==
  CASE Joined(l, k)       ->
         2500000 * (IF l[k].v < 100000 THEN 1 ELSE 1000) + l[k].v
    [] l[k].is = "plain"  -> l[k].v % 100000
    [] OTHER              -> l[k].v

\* The last amount that is not zero, or the last one.
Chosen(l) ==
  LET nonZero == {k \in Amounts(l) : Value(l, k) # 0} IN
  Max(IF nonZero # {} THEN nonZero ELSE Amounts(l))

\* The elements of s at the indices in N, in their order.
At(s, N) ==
  [n \in 1..Cardinality(N) |->
     s[CHOOSE k \in N : Cardinality({j \in N : j <= k}) = n]]

\* The description, which is the merchant's name: what is left of the line
\* without its first date and, where that can be found again, the amount.
\* << >> stands for Unknown.
Name(l) ==
  At(l, DOMAIN l \ ({Min(Dates(l))} \cup
                    {k \in {Chosen(l)} : l[k].is = "amount" /\ ~Joined(l, k)}))

\* The transaction that pushTxn makes of l, the text of lines i to j.
Charge(l, i, j) ==
  [date |-> l[Min(Dates(l))].v, cents |-> Value(l, Chosen(l)), name |-> Name(l),
   from |-> i, to |-> j]

\* pushTxn drops a transaction whose name is there and has no letter.
HasName(t) == t.name = << >> \/ \E k \in DOMAIN t.name : t.name[k].is = "word"

Push(l, i, j) ==
  LET t == Charge(l, i, j) IN
  txns' = IF HasName(t) THEN Append(txns, t) ELSE txns
-----------------------------------------------------------------------------
(* The scanner, extractTransactionsFromText. *)

Txn == [date: Nat, cents: Nat, name: Seq(Token), from: Nat, to: Nat]

\* Type invariant.  In particular a line that waits has been read.
TypeOK ==
  /\ lines \in Seq(Lines)
  /\ Len(lines) <= MaxLines
  /\ pending \in 0..Len(lines)
  /\ txns \in Seq(Txn)
  /\ status \in {"reading", "SUCCEEDED", "FAILED"}
  /\ result \in Seq(Txn)

Init ==
  /\ lines = << >> /\ pending = 0 /\ txns = << >>
  /\ status = "reading" /\ result = << >>

Read(l) ==
  /\ status = "reading"
  /\ Len(lines) < MaxLines
  /\ lines' = Append(lines, l)
  /\ UNCHANGED <<status, result>>

\* Mutant: a summary line ends the wait.
SkipSummaryResets(l) ==
  /\ Read(l) /\ Summary(l)
  /\ pending' = 0
  /\ UNCHANGED txns

SkipSummary(l) ==
  /\ Read(l) /\ Summary(l)
  /\ UNCHANGED <<pending, txns>>

\* A date and an amount.
TakeLine(l) ==
  /\ Read(l) /\ ~Summary(l)
  /\ Dates(l) # {} /\ Amounts(l) # {}
  /\ Push(l, Len(lines'), Len(lines'))
  /\ pending' = 0

\* Mutant: the number of the line is off by one.
HoldLineAfter(l) ==
  /\ Read(l) /\ ~Summary(l)
  /\ Dates(l) # {} /\ Amounts(l) = {}
  /\ pending' = Len(lines') + 1
  /\ UNCHANGED txns

\* A date without an amount waits for one.
HoldLine(l) ==
  /\ Read(l) /\ ~Summary(l)
  /\ Dates(l) # {} /\ Amounts(l) = {}
  /\ pending' = Len(lines')
  /\ UNCHANGED txns

\* Mutant: the line that waited goes on waiting.
TakeWrappedAgain(l) ==
  /\ Read(l) /\ ~Summary(l)
  /\ Dates(l) = {} /\ Amounts(l) # {} /\ pending # 0
  /\ Push(lines[pending] \o l, pending, Len(lines'))
  /\ UNCHANGED pending

\* An amount for the line that waits.
TakeWrapped(l) ==
  /\ Read(l) /\ ~Summary(l)
  /\ Dates(l) = {} /\ Amounts(l) # {} /\ pending # 0
  /\ Push(lines[pending] \o l, pending, Len(lines'))
  /\ pending' = 0

PassLine(l) ==
  /\ Read(l) /\ ~Summary(l)
  /\ Dates(l) = {}
  /\ Amounts(l) # {} => pending = 0
  /\ UNCHANGED <<pending, txns>>
-----------------------------------------------------------------------------
(* The end of the text. *)

\* Mutant: the key leaves out the merchant.
KeyWithoutMerchant(t) == <<t.date, t.cents>>

Key(t) == <<t.date, t.cents, t.name>>

\* The first transaction of every key.
Deduplicated(ts) ==
  At(ts, {n \in DOMAIN ts : \A m \in 1..(n - 1) : Key(ts[m]) # Key(ts[n])})

\* What parseMoneyAmount makes of the digits behind TOTAL, and of at most one
\* separator with two digits: 21 of 21/12/2025, 1,23 of 1,234.56.
TotalValue(t) ==
  CASE t.is = "date"                      -> (t.v \div 100) * 100
    [] t.is = "amount" /\ t.v >= 100000  -> t.v \div 1000
    [] OTHER                              -> t.v

\* parseSingleTransactionFallback: the first TOTAL that has a number behind it,
\* be it on the next line, and the first date with slashes.
Fallback(text) ==
  LET totals == {k \in 1..(Len(text) - 1) :
                   text[k].is = "total" /\ text[k + 1].is \notin {"word", "total"}}
      slashed == {k \in DOMAIN text : text[k].is = "date"}
  IN  IF totals = {} \/ slashed = {}
      THEN << >>
      ELSE <<[date |-> text[Min(slashed)].v,
              cents |-> TotalValue(text[Min(totals) + 1]),
              name |-> lines[1], from |-> 0, to |-> 0]>>

Finish ==
  /\ status = "reading"
  /\ result' = IF txns # << >> THEN Deduplicated(txns) ELSE Fallback(FlattenSeq(lines))
  /\ status' = IF result' = << >> THEN "FAILED" ELSE "SUCCEEDED"
  /\ UNCHANGED <<lines, pending, txns>>

Next ==
  \/ \E l \in Lines : SkipSummary(l) \/ TakeLine(l) \/ HoldLine(l) \/ TakeWrapped(l)
                       \/ PassLine(l)
  \/ Finish

Spec == Init /\ [][Next]_vars
-----------------------------------------------------------------------------
(* Properties. *)

Dated(l) == ~Summary(l) /\ Dates(l) # {} /\ Amounts(l) # {}
DateOnly(l) == ~Summary(l) /\ Dates(l) # {} /\ Amounts(l) = {}
AmountOnly(l) == ~Summary(l) /\ Dates(l) = {} /\ Amounts(l) # {}
Neither(l) == Summary(l) \/ (Dates(l) = {} /\ Amounts(l) = {})

\* The charges of a text, without a scanner: a line with a date and an amount, or
\* a date and the amount on a later line with nothing but summary lines and lines
\* without either in between.
OwnCharges ==
  {Charge(lines[i], i, i) : i \in {n \in DOMAIN lines : Dated(lines[n])}}

Wrapped(i, j) ==
  /\ i < j
  /\ DateOnly(lines[i]) /\ AmountOnly(lines[j])
  /\ \A k \in (i + 1)..(j - 1) : Neither(lines[k])

WrappedCharges ==
  {Charge(lines[p[1]] \o lines[p[2]], p[1], p[2]) :
     p \in {q \in (1..Len(lines)) \X (1..Len(lines)) : Wrapped(q[1], q[2])}}

\* The one line of memory is enough, and never too much: after any lines the
\* scanner has pushed exactly the charges of the text so far that have a name, and
\* a date that waits is neither lost to the lines between it and its amount, nor
\* given to a second amount.
ScanIsReference ==
  {txns[n] : n \in DOMAIN txns} = {t \in OwnCharges \cup WrappedCharges : HasName(t)}

\* No line is in two transactions, and they come in the order of the text.
LinesAreTakenOnce ==
  \A m, n \in DOMAIN txns : m < n => txns[m].to < txns[n].from

\* The removal of repeats loses nothing else: every transaction that was pushed has
\* exactly one with its date, amount and merchant in the result, and what was not
\* pushed is not in there.
OnlyRepeatsAreDropped ==
  status = "SUCCEEDED" /\ txns # << >> =>
    /\ \A n \in DOMAIN txns :
         Cardinality({m \in DOMAIN result :
                        /\ result[m].date = txns[n].date
                        /\ result[m].cents = txns[n].cents
                        /\ result[m].name = txns[n].name}) = 1
    /\ \A m \in DOMAIN result : \E n \in DOMAIN txns : result[m] = txns[n]

\* The amounts as they are printed on a line.
Printed(l) == {l[k].v : k \in {n \in DOMAIN l : l[n].is \in {"amount", "plain"}}}

\* "Handle wrapped lines: a date line followed by an amount line": a line with a
\* merchant and a date, followed by a line with nothing but an amount, is booked
\* with that amount.
WrappedIsBooked ==
  \A i \in 1..(Len(lines) - 1) :
    LET l == lines[i]
        next == lines[i + 1] IN
    /\ ~Summary(l) /\ Dates(l) # {} /\ Printed(l) = {}
    /\ \E k \in DOMAIN l : l[k].is = "word"
    /\ Len(next) = 1 /\ next[1].is = "amount"
    => \E n \in DOMAIN txns :
         txns[n].from = i /\ txns[n].to = i + 1 /\ txns[n].cents = next[1].v
=============================================================================
