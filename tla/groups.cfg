SPECIFICATION LiveSpec
CONSTANTS
  GroupResources = {r1}
  GroupSpecs <- MCGroupSpecs
  GroupCurrents <- MCGroupCurrents
  GroupMaxLag = 0
  BindingResources = {b1}
  BindingSpecs <- MCBindingSpecs
  BindingCurrents <- MCBindingCurrents
  BindingMaxLag = 1
  Shared = {1}
  PolicyNames = {}
  Contents = {}
  Users = {u1}
  Groups = {1, 2}
  SecretKeys = {k1}
  NoEntry = NoEntry
  Nil = Nil
  Absent = Absent
INVARIANT CallInv
PROPERTIES FollowsLifecycle BindingConverges GroupWaitsOnlyForOthers BindingFollowsGroup
