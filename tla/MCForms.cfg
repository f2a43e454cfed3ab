SPECIFICATION FairSpec
CONSTANTS
  User = {u1}
  MaxHandlers = 2
  MaxVacancies = 2
  MaxCompanies = 1
INVARIANTS
  TypeOK
  FormInOrder
  VacancyReachesModerators
PROPERTIES
  VacancyDecided
