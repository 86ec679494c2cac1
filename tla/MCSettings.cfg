SPECIFICATION Spec
CONSTANTS
  MaxChoices <- MCMaxChoices
  MaxFaults = 2
  Absent = Absent
INVARIANTS
  ShownInRange
  LoadedIsStored
  ChangesMarked
