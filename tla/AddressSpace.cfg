SPECIFICATION Spec
CONSTANTS
  Root = r
  State = {r, s2}
  MO = {ctype, fixed, a}
  Global = {ctype}
  ReadOnly = {ctype}
  UserSpecified = {fixed}
  Value = {v0, v1}
  Initial = v0
  Symbolic = Symbolic
  Unbound = Unbound
  OS = {l1, l2, l3, l4, l5, l6}
  NoOS = NoOS
  Allocate <- FirstFit
  MaxKey = 2
  MaxFrames = 2
  MaxWrites = 1
VIEW SlotFreeView
INVARIANTS TypeOK OwnedIsPrivate LocalsOnStack
PROPERTY PrivateSpec
CHECK_DEADLOCK FALSE
