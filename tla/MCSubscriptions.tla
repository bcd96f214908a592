-------------------------- MODULE MCSubscriptions --------------------------
(* An instance of Subscriptions for TLC. *)
EXTENDS Subscriptions

CONSTANTS plan, gym

Charge(key, cents, month, day) ==
  [key |-> key, cents |-> cents, date |-> [month |-> month, day |-> day]]

\* Two monthly prices of one merchant, a few cents apart or many, one of them
\* at the end of the month, and a weekly charge of another merchant.
Charges ==
  <<Charge(plan, 1000, 0, 31), Charge(plan, 1525, 1, 10),
    Charge(plan, 1010, 1, 28), Charge(plan, 1530, 2, 10),
    Charge(plan, 1000, 2, 31), Charge(gym, 300, 3, 1),
    Charge(gym, 300, 3, 8),    Charge(plan, 1525, 3, 10),
    Charge(gym, 310, 3, 15)>>

AllButOne == 1..8
=============================================================================
