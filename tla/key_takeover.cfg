SPECIFICATION OwnershipSpec
CONSTANTS
  Resources = {r1}
  Keys = {k1, k2}
  SecretNames = {n1}
  SecretKeys = {s1}
  Theirs = Theirs
  Configs = {c1, c2}
  Provided <- NoRefs
  Versions = {1, 2, 3, 4, 5}
  Specs <- KeySpecs
  Currents <- Current
  Nil = Nil
  Absent = Absent
  MaxLag = 0
PROPERTY ForeignUntouched
