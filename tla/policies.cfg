SPECIFICATION LiveSpec
CONSTANTS
  PolicyResources = {r1}
  PolicySpecs <- MCPolicySpecs
  PolicyCurrents <- MCPolicySpecs
  PolicyMaxLag = 0
  BindingResources = {b1}
  BindingSpecs <- MCBindingSpecs
  BindingCurrents <- MCBindingCurrents
  BindingMaxLag = 1
  PolicyNames = {p1}
  Statements = {c1}
  Contents <- MCContents
  Orders = {1}
  Shared = {u1}
  Users = {u1}
  Groups = {g1}
  SecretKeys = {k1}
  NoEntry = NoEntry
  Nil = Nil
  Absent = Absent
INVARIANTS CallInv RecordedIsOwned
PROPERTIES FollowsLifecycle FreshCallSparesForeign BindingConverges PolicyWaitsOnlyForOthers BindingFollowsPolicy
