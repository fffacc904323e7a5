SPECIFICATION LiveSpec
CONSTANTS
  Resources = {r1}
  Keys = {k1}
  SecretNames = {n1}
  SecretKeys = {1, 2}
  Theirs = Theirs
  Configs = {1, 2}
  Provided <- MCProvided
  Versions = {1, 2, 3}
  Specs <- RotateSpecs
  Currents <- Current
  Nil = Nil
  Absent = Absent
  MaxLag = 0
PROPERTIES CredentialsConverge CreationCompletesOrBlocked DeletionCompletes
