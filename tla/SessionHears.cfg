SPECIFICATION WaiterSpec
CONSTANTS
  e1 = e1
  e2 = e2
  e3 = e3
  d1 = d1
  U = U
  V = V
  Input = {e1, e2, e3, d1}
  Umos = {U, V}
  Of <- MCOf
  Nobody = Nobody
INVARIANTS
  SessionHears
CHECK_DEADLOCK FALSE
