SPECIFICATION FairSpec
CONSTANTS
  Event = {m1, m2}
  Umo = Umo
  MaxSteps = 1
PROPERTIES
  TicketResolved
