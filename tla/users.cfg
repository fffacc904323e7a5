SPECIFICATION LiveSpec
CONSTANTS
  Resources = {r1}
  Specs <- MCSpecs
  Currents <- Current
  PolicyNames = {}
  Contents = {}
  Groups = {}
  Users = {u1}
  SecretKeys = {1, 2}
  SecretData <- MCData
  SecretNames = {n1}
  MaxRevision = 3
  NoEntry = NoEntry
  Nil = Nil
  Absent = Absent
  MaxLag = 1
INVARIANTS TypeOK CallInv KeyFollowsSecret
PROPERTIES FollowsLifecycle OverwritesOnlyLate UserConverges
