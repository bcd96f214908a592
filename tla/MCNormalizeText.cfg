SPECIFICATION Spec
CONSTANTS
  shop = shop
  bar = bar
  Words <- StatementWords
  Numbers <- StatementNumbers
  Lines <- StatementLines
  MaxLines = 4
CHECK_DEADLOCK FALSE
INVARIANTS TypeOK ScanIsReference LinesAreTakenOnce OnlyRepeatsAreDropped
