SPECIFICATION SemSpec
CONSTANTS
  r1 = r1
  r2 = r2
  r3 = r3
  r4 = r4
  NoMax = NoMax
  Limits <- One
  Requests <- Three
  Impatient <- Three

PROPERTIES
  PassedToAWaiter
