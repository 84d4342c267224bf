SPECIFICATION StateSpec
SYMMETRY PodSymmetry
CONSTANTS
  Pods = {p1, p2, p3}
  Mutations = {m1, m2, m3}
  Legacy = {l1}
  NoPod = noPod
INVARIANT LegacyIsKept
PROPERTY OnlyMigrationForgets
