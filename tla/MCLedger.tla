------------------------------ MODULE MCLedger ------------------------------
(* Instances of Ledger for TLC: two documents that share a transaction and  *)
(* spell the one merchant in two ways.                                      *)
EXTENDS Ledger, TLC

CONSTANTS d1, d2, x1, x2, bad, u1, m1, m2, k1, n1, n2

\* d1 has both transactions, d2 an invalid line and one of them again, under
\* the other name.
TwoDocs ==
  (d1 :> <<[txn |-> x1, name |-> n1], [txn |-> x2, name |-> n1]>>) @@
  (d2 :> <<[txn |-> bad, name |-> n2], [txn |-> x2, name |-> n2]>>)

OneDoc == d1 :> <<[txn |-> x1, name |-> n1]>>

OneMerchant == [n \in Names |-> k1]

OneMonth == [x \in Uploads \cup Manual |-> m1]

\* What users create is in another month than the documents.
TwoMonths == [x \in Uploads \cup Manual |-> IF x \in Uploads THEN m1 ELSE m2]
=============================================================================
