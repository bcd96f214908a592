SPECIFICATION Spec
CONSTANTS
  shop = shop
  bar = bar
  Words <- StatementWords
  Numbers <- StatementNumbers
  Lines <- WrappedLines
  MaxLines = 4
CHECK_DEADLOCK FALSE
INVARIANT WrappedIsBooked
