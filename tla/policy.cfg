SPECIFICATION LiveSpec
CONSTANTS
  Resources = {r1}
  PolicyNames = {1, 2}
  Statements = {1, 2}
  Contents <- MCContents
  Orders = {1, 2}
  Users = {u1}
  Groups = {}
  SecretKeys = {k1}
  NoEntry = NoEntry
  Specs <- DocSpecs
  Currents <- Current
  Nil = Nil
  Absent = Absent
  MaxLag = 1
INVARIANTS TypeOK CallInv
PROPERTIES FollowsLifecycle DocumentConverges DeletionCompletes
