SPECIFICATION LiveSpec
CONSTANTS
  Attempts = 1
  MaxStalls = 0
  plan = plan
  gym = gym
  NoRow = NoRow
  Keys = {plan, gym}
  Txn <- Charges
  Booked <- AllButOne
  Moving = {3, 9}
  Overrides = {"YEARLY"}
  MaxChanges = 1
  MaxEdits = 2
  MaxFaults = 1
INVARIANTS
  TypeOK
  SecondActiveWasReactivated
  DetectionIsComplete
  DueKeepsInterval
PROPERTY RecurringIsListed
