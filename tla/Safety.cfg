SPECIFICATION SafetySpec
CONSTANTS
  Vacancy = {v1}
  Field = {"salary", "schedule", "contacts"}
  Text = {x, y}
  MaxHandlers = 2
  MaxPrompts = 1
  e1 = e1
  e2 = e2
  e3 = e3
  d1 = d1
  U = U
  V = V
  Input = {e1, e2, e3, d1}
  Umos = {U, V}
  Of <- MCOf
  Nobody = Nobody
  Caller = {c1, c2}
  Execution = {x1, x2}
  MaxVersions = 2
  MaxOutages = 1
  Arrivals = 6
  Limit = 2
  Window = 2
  MaxClock = 4
SYMMETRY Texts
INVARIANTS
  SafetyTypeOK
  StateHasItsData
  SalaryWhole
  SavedWasShown
  WaiterReachable
  HandledOnce
  ScheduleMatchesRow
  RunsOnce
  WithinRate
CHECK_DEADLOCK FALSE
