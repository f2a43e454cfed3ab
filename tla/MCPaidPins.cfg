SPECIFICATION FairSpec
CONSTANTS
  Post = {p1}
  Term = 1
  MaxPayments = 1
  MaxUnpins = 2
  MaxTime = 2
  MaxHandlers = 2
  MaxRestarts = 1
INVARIANTS
  TypeOK
  PinnedHasEnd
PROPERTIES
  EveryPinEnds
