SPECIFICATION Spec
CONSTANTS
  Timeout = 5
  Poll = 2
  MaxFetch = 3
INVARIANTS
  TypeOK
  SearchTime
  OutcomeIsTrue
