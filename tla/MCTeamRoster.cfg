CONSTANTS
  ana = ana
  ben = ben
  a1 = a1
  b1 = b1
  c1 = c1
  c2 = c2
  People = {ana, ben}
  Founder = ana
  Tabs = {a1, b1}
  PersonOf <- MCPersonOf
  Codes = {c1, c2}
  MaxEvents = 2
  MaxWire = 1
  MaxSeats = 2
  MaxDrops = 1
SYMMETRY MCSymmetry
SPECIFICATION Spec
INVARIANTS TypeOK ApproversAreMembers PresenceCurrent TranscriptInOrder
PROPERTIES SeatsAreGranted OnlyMembersTold
CHECK_DEADLOCK FALSE
