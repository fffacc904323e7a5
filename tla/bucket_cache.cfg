SPECIFICATION Spec
CONSTANTS
  Resources = {r1}
  Names = {1, 2}
  Specs <- OwnershipSpecs
  Currents <- Current
  Rule = rule
  Drifting = {1}
  Nil = Nil
  Absent = Absent
  MaxLag = 1
PROPERTIES FollowsLifecycle FreshCallSparesForeign
INVARIANTS CallInv RecordedIsOwned
