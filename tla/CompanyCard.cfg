SPECIFICATION Spec
CONSTANTS
  User = {u1}
  MaxHandlers = 1
  MaxVacancies = 1
  MaxCompanies = 1
INVARIANTS
  CompanyCardOptional
CHECK_DEADLOCK FALSE
