SPECIFICATION LiveSpec
CONSTANTS
  Tenants <- MCTenants
  SecretNames = {"config"}
  SecretData <- MCSecretData
  CaSecrets = {"operator-ca-tls", "external"}
  Prefixed = {"operator-ca-tls"}
  MaxEdits = 2
  Failed = Failed
  Nil = Nil
  Absent = Absent
INVARIANTS TypeOK
PROPERTIES ConsistentInfo TrustsItsSources DiscoverySettles
