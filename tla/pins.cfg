SPECIFICATION FairSpec
CONSTANTS
  NumPins = 3
  KeyMax <- MCKeyMax
  Default <- MCDefault
  FormCounts = {1, 2, 3, 4}
  MaxChanges = 3
  MaxRestarts = 3
INVARIANTS TypeOK PinsApart NoGaps AllUnitsLoaded AbortsOvercommittedOnly
PROPERTY Boots
CHECK_DEADLOCK FALSE
