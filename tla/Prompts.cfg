SPECIFICATION Spec
CONSTANTS
  Vacancy = {v1, v2}
  Field = {"salary", "schedule", "contacts"}
  Text = {x}
  MaxHandlers = 1
  MaxPrompts = 1
INVARIANTS
  PromptHonoured
CHECK_DEADLOCK FALSE
