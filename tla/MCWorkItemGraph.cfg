SPECIFICATION Spec
CONSTANTS
  i1 = i1
  i2 = i2
  i3 = i3
  a1 = a1
  p1 = p1
  p2 = p2
  null = null
  Items = {i1, i2, i3}
  Activities = {a1}
  Projects = {p1, p2}
  None = null
  InputKinds = {"none", "epic", "story", "task"}
  MaxBlocks = 3
SYMMETRY Symmetry
INVARIANTS
  HierarchyHolds
  StoryMapHolds
  DependenciesHold
CHECK_DEADLOCK FALSE
