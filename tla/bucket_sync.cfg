SPECIFICATION LiveSpec
CONSTANTS
  Resources = {r1}
  Names = {n1}
  Specs <- ConfigSpecs
  Currents <- Current
  Rule = rule
  Drifting = {n1}
  Nil = Nil
  Absent = Absent
  MaxLag = 0
INVARIANT TypeOK
PROPERTIES ConfigConverges DeletionCompletes
