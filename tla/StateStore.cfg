SPECIFICATION MCSpec
CONSTANTS
  i1 = i1
  i2 = i2
  i3 = i3
  i4 = i4
  Invocations <- FourInvocations
  Groups <- TwoGroups
  Jobs <- AllJobs
  Phrases <- TwoPhrases
  MaxKills = 1
SYMMETRY Symmetry
INVARIANTS
  TypeOK
  AtRestWhole
  EachKeyOnce
  KeysGoToOneOperator
  ServedKeysAreRecorded
PROPERTIES
  SerialUnlessDisturbed
