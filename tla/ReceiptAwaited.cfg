SPECIFICATION Spec
CONSTANTS
  Post = {p1}
  Term = 1
  MaxPayments = 2
  MaxUnpins = 2
  MaxTime = 2
  MaxHandlers = 2
  MaxRestarts = 1
INVARIANTS
  ReceiptAwaited
CHECK_DEADLOCK FALSE
