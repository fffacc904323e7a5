------------------------------ MODULE MCTenant ------------------------------
(* Bounds for TLC: which tenants and secrets users deploy. *)
EXTENDS Tenant

External(type) == {[name |-> "external", type |-> type]}

\* TLS asked for, brought along and not wanted, with no external CA, one that
\* counts and one that does not; and no configuration.
MCTenants ==
    {[RequestAutoCert |-> TRUE, ExternalCertSecret |-> FALSE, Configuration |-> "config",
      ExternalCaCertSecret |-> {}],
     [RequestAutoCert |-> Nil, ExternalCertSecret |-> TRUE, Configuration |-> "config",
      ExternalCaCertSecret |-> External("kubernetes.io/tls")],
     [RequestAutoCert |-> FALSE, ExternalCertSecret |-> FALSE, Configuration |-> "config",
      ExternalCaCertSecret |-> External("other")],
     [RequestAutoCert |-> Nil, ExternalCertSecret |-> FALSE, Configuration |-> Nil,
      ExternalCaCertSecret |-> {}]}

\* A complete file, one without a password, and one that does not parse.
MCSecretData ==
    {[env |-> TRUE, MINIO_ROOT_USER |-> 1, MINIO_ROOT_PASSWORD |-> p] : p \in {1, Nil}}
      \cup {[env |-> FALSE, MINIO_ROOT_USER |-> Nil, MINIO_ROOT_PASSWORD |-> Nil]}
=============================================================================
