SPECIFICATION Spec
CONSTANTS
  t1 = t1
  t2 = t2
  c1 = c1
  c2 = c2
  None = None
  Tabs = {t1, t2}
  Calls = {c1, c2}
  Messages = {"m"}
  Pages = {"home", "shop"}
  Home = "home"
  Ids = {"a"}
  Variants = {"red"}
  Patches <- MCPatches
  MaxVersion = 2
SYMMETRY Symmetric
INVARIANTS
  EventsTellState
  RevisionNamesOneState
  MessageOnce
