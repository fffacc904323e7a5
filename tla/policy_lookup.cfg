SPECIFICATION OwnershipSpec
CONSTANTS
  Resources = {r1}
  PolicyNames = {p1}
  Statements = {1, 2}
  Contents <- PlainContents
  Orders = {1}
  Users = {u1}
  Groups = {}
  SecretKeys = {k1}
  NoEntry = NoEntry
  Specs <- NameSpecs
  Currents <- Current
  Nil = Nil
  Absent = Absent
  MaxLag = 0
PROPERTY ForeignUntouched
