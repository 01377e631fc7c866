CONSTANTS
  Client = {c1, c2, c3}
  Machine = {m1, m2}
  MaxLockId = 1
  Inode = {i1, i2, i3, i4, i5}
  None = None
SPECIFICATION Spec
SYMMETRY Symmetry
INVARIANTS MutualExclusion DistinctLockIds
PROPERTY NeverUnlinksALiveLock
