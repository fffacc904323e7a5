SPECIFICATION Spec
CONSTANTS
  Resources = {r1}
  Keys = {k1}
  SecretNames = {n1, n2}
  SecretKeys = {s1}
  Theirs = Theirs
  Configs = {c1}
  Provided <- NoRefs
  Versions = {1, 2, 3, 4, 5}
  Specs <- KeySpecs
  Currents <- Current
  Nil = Nil
  Absent = Absent
  MaxLag = 1
INVARIANTS TypeOK CallInv
PROPERTY FollowsLifecycle
SYMMETRY NameSymmetry
