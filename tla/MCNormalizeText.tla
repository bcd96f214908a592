-------------------------- MODULE MCNormalizeText --------------------------
(* Texts over lines of each kind. *)
EXTENDS NormalizeText

CONSTANTS shop, bar

Date(v) == [is |-> "date", v |-> v]
Dotted(v) == [is |-> "dotted", v |-> v]
Amount(v) == [is |-> "amount", v |-> v]
Word(w) == [is |-> "word", v |-> w]
Total == [is |-> "total"]

\* For the scanner and the removal of repeats: amounts of 12.50,
\* 0.00, 345.00 and 1,234.56, and December 21.
StatementLines ==
  { <<Date(2112), Word(shop), Amount(1250)>>,
    <<Date(2112), Word(bar), Amount(1250), Amount(0)>>,
    <<Word(shop), Date(2112)>>,
    <<Date(2112), Amount(1250)>>,
    <<Dotted(2112), Word(bar)>>,
    <<Amount(34500)>>,
    <<Word(shop), Amount(1250)>>,
    <<Word(bar)>>,
    <<Total, Amount(123456)>>,
    <<Total>> }

\* For the wrapped lines: a date with dots or slashes, at the end of the line or
\* not, and an amount with three digits or two.
WrappedLines ==
  { <<Word(shop), Date(2112)>>, <<Date(2112), Word(shop)>>, <<Dotted(2112), Word(shop)>>,
    <<Amount(34500)>>, <<Amount(1250)>>, <<Word(bar)>> }

StatementNumbers == {0, 1250, 2112, 34500, 123456}
StatementWords == {shop, bar}
=============================================================================
