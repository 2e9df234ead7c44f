SPECIFICATION Spec
CONSTANTS
  Opids = {o1, o2}
  Wids = {w1, w2}
  SealMaps = {s1}
  Anchors = {x1}
  Nothing = Nothing
  Absent = Absent
  Torn = Torn
  MaxLinks = 2
  MaxUncommitted = 2
SYMMETRY Symmetry
INVARIANTS LinksSymmetric LinkedWitnessesKnown
PROPERTIES LoadRestoresCommit
CHECK_DEADLOCK FALSE
