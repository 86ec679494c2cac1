SPECIFICATION Spec
CONSTANT
  NoAddress = NoAddress
INVARIANTS
  MappingIsTrue
  FilterNotTooOpen
  VerdictNotTooGood
  ExactWithoutLoss
