SPECIFICATION Spec
CONSTANTS
  Attempts = 2
  MaxStalls = 1
  d1 = d1
  d2 = d2
  x1 = x1
  x2 = x2
  bad = bad
  u1 = u1
  m1 = m1
  m2 = m2
  k1 = k1
  n1 = n1
  n2 = n2
  NoRollup = NoRollup
  Unknown = Unknown
  Names = {n1}
  Merchants = {k1}
  MerchantOf <- OneMerchant
  Docs = {d1}
  Uploads = {x1}
  Manual = {}
  Lines <- OneDoc
  Skipped = {}
  Months = {m1}
  MonthOf <- OneMonth
  FaultPoints = {"tx_upsert"}
  MaxFaults = 1
  MaxUpserts = 1
  MaxEdits = 1
CHECK_DEADLOCK FALSE
PROPERTY RetriesAreSafe
