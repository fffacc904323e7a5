------------------------------- MODULE Tenant -------------------------------
(***************************************************************************)
(* getMinioTenantClientInfo, with which every remote call of every         *)
(* reconciler begins: a chain of reads past the cache, one action each,    *)
(* that ends in the data of a MinIO client or in an error, while users     *)
(* edit what is read.                                                      *)
(*                                                                         *)
(* A source of CA certificates is read as a whole and has one certificate  *)
(* or none, which goes by the source's name; a port goes by its name.  The *)
(* root certificates of the system the operator runs on are one source.    *)
(***************************************************************************)
EXTENDS Naturals

CONSTANTS
    Tenants,       \* the tenants users deploy
    SecretNames,   \* the secrets in the tenant's namespace
    SecretData,    \* what users put into them
    CaSecrets,     \* the secrets in the MinIO operator's namespace
    Prefixed,      \* those whose name begins with operator-ca-tls
    MaxEdits,      \* bound: edits during one call
    Failed,        \* the call returned an error
    Nil, Absent

VARIABLES
    tenant, secrets, service,   \* in Kubernetes
    cas,        \* the sources of CA certificates that have one
    pc,         \* the read that comes next
    t,          \* the call's copy of the tenant
    keys,       \* the access and secret key it found
    e,          \* the port of its endpoint
    cbp,        \* its pool of certificates
    todo,       \* the external CA secrets it has yet to read
    outcome,    \* what the last call returned, until the next
    seen,       \* history: the versions there were during the call
    denied,     \* history: the sources of CA certificates it failed to read
    edits       \* history: how many edits

clusterVars == <<tenant, secrets, service, cas>>
callVars == <<pc, t, keys, e, cbp, todo, outcome>>
historyVars == <<seen, denied, edits>>
vars == <<clusterVars, callVars, historyVars>>

PortNames == {"http-minio", "https-minio"}
CaTypes == {"kubernetes.io/tls", "other"}
Sources == {"system", "kube-root-ca.crt"} \cup CaSecrets

\* ExternalCertSecret by whether it lists any.
Tenant == [RequestAutoCert: BOOLEAN \cup {Nil}, ExternalCertSecret: BOOLEAN,
           Configuration: SecretNames \cup {Nil},
           ExternalCaCertSecret: SUBSET [name: CaSecrets, type: CaTypes]]

\* config.env by whether it is there and parses, and what it sets.
Secret == [env: BOOLEAN, MINIO_ROOT_USER: Nat \cup {Nil}, MINIO_ROOT_PASSWORD: Nat \cup {Nil}]

ASSUME TenantAssumption ==
    /\ Tenants \subseteq Tenant
    /\ SecretData \subseteq Secret
    /\ Prefixed \subseteq CaSecrets
    /\ {"system", "kube-root-ca.crt"} \cap CaSecrets = {}
    /\ MaxEdits \in Nat
    /\ Nil \notin Nat \cup SecretNames \cup BOOLEAN
    /\ Absent \notin Tenant \cup Secret
    /\ \A ports \in SUBSET PortNames : ports # Absent

Keys == [AccessKey: Nat, SecretKey: Nat]
Info == [keys: Keys, Endpoint: PortNames, Secure: BOOLEAN, CaBundle: SUBSET Sources]

TypeOK ==
    /\ tenant \in Tenants \cup {Absent}
    /\ secrets \in [SecretNames -> SecretData \cup {Absent}]
    /\ service = Absent \/ service \subseteq PortNames
    /\ {"system"} \subseteq cas /\ cas \subseteq Sources
    /\ pc \in {"idle", "tenant", "secret", "service", "rootCa", "operatorCas", "externalCas"}
    /\ t \in Tenants \cup {Absent}
    /\ keys \in Keys \cup {Nil}
    /\ e \in PortNames \cup {Nil}
    /\ cbp \subseteq Sources
    /\ todo \subseteq CaSecrets
    /\ outcome \in Info \cup {Nil, Failed}
    /\ denied \subseteq Sources
    /\ edits \in 0..MaxEdits

Locals == <<t, keys, e, cbp, todo>>

Now == [tenant |-> tenant, secrets |-> secrets, service |-> service, cas |-> cas]

Init ==
    /\ tenant = Absent
    /\ secrets = [n \in SecretNames |-> Absent]
    /\ service = Absent
    /\ cas = {"system"}
    /\ pc = "idle"
    /\ t = Absent /\ keys = Nil /\ e = Nil /\ cbp = {} /\ todo = {}
    /\ outcome = Nil
    /\ seen = {} /\ denied = {} /\ edits = 0

-----------------------------------------------------------------------------
(* getMinioTenantClientInfo.                                               *)

\* The call ends; what it read and what happened meanwhile is gone.
Return(value) ==
    /\ pc' = "idle"
    /\ outcome' = value
    /\ t' = Absent /\ keys' = Nil /\ e' = Nil /\ cbp' = {} /\ todo' = {}
    /\ seen' = {} /\ denied' = {} /\ edits' = 0

Fail == Return(Failed)

Start ==
    /\ pc = "idle"
    /\ pc' = "tenant"
    /\ outcome' = Nil
    /\ seen' = {Now}
    /\ UNCHANGED <<clusterVars, Locals, denied, edits>>

\* A tenant without a configuration ends the call as an error does: the panic
\* is recovered by the controller.
GetTenant ==
    /\ pc = "tenant"
    /\ IF tenant = Absent THEN Fail
       ELSE IF tenant.Configuration = Nil THEN Fail
       ELSE t' = tenant /\ pc' = "secret" /\ UNCHANGED <<keys, e, cbp, todo, outcome, historyVars>>
    /\ UNCHANGED clusterVars

\* Mutant: automatic certificates alone decide.
SecureIfAutomatic(tn) == tn.RequestAutoCert = TRUE

Secure(tn) == tn.RequestAutoCert = TRUE \/ tn.ExternalCertSecret

\* Mutant: an unset password is not noticed.
GetSecretUnchecked ==
    /\ pc = "secret"
    /\ LET s == secrets[t.Configuration]
       IN IF s = Absent THEN Fail
          ELSE IF ~s.env \/ s.MINIO_ROOT_USER = Nil THEN Fail
          ELSE /\ keys' = [AccessKey |-> s.MINIO_ROOT_USER, SecretKey |-> s.MINIO_ROOT_PASSWORD]
               /\ pc' = "service"
               /\ UNCHANGED <<t, e, cbp, todo, outcome, historyVars>>
    /\ UNCHANGED clusterVars

\* The secret that the copy of the tenant names.
GetSecret ==
    /\ pc = "secret"
    /\ LET s == secrets[t.Configuration]
       IN IF s = Absent THEN Fail
          ELSE IF ~s.env \/ s.MINIO_ROOT_USER = Nil \/ s.MINIO_ROOT_PASSWORD = Nil THEN Fail
          ELSE /\ keys' = [AccessKey |-> s.MINIO_ROOT_USER, SecretKey |-> s.MINIO_ROOT_PASSWORD]
               /\ pc' = "service"
               /\ UNCHANGED <<t, e, cbp, todo, outcome, historyVars>>
    /\ UNCHANGED clusterVars

\* A read of CA certificates that fails is skipped.
AppendCerts(sources) ==
    \/ cbp' = cbp \cup (sources \cap cas) /\ UNCHANGED denied
    \/ denied' = denied \cup sources /\ UNCHANGED cbp

\* The port is the one of the copy's scheme, or none.  The pool begins with the
\* system's certificates, or with nothing if they cannot be had.
GetService ==
    /\ pc = "service"
    /\ LET port == IF Secure(t) THEN "https-minio" ELSE "http-minio"
       IN IF service = Absent THEN Fail
          ELSE IF port \notin service THEN Fail
          ELSE /\ e' = port
               /\ AppendCerts({"system"})
               /\ pc' = "rootCa"
               /\ UNCHANGED <<t, keys, todo, outcome, seen, edits>>
    /\ UNCHANGED clusterVars

GetRootCa ==
    /\ pc = "rootCa"
    /\ AppendCerts({"kube-root-ca.crt"})
    /\ pc' = "operatorCas"
    /\ UNCHANGED <<clusterVars, t, keys, e, todo, outcome, seen, edits>>

\* Mutant: every secret of the operator's namespace is taken for a CA.
ListAllSecrets ==
    /\ pc = "operatorCas"
    /\ AppendCerts(CaSecrets)
    /\ todo' = {eca.name : eca \in {x \in t.ExternalCaCertSecret : x.type = "kubernetes.io/tls"}}
    /\ pc' = "externalCas"
    /\ UNCHANGED <<clusterVars, t, keys, e, outcome, seen, edits>>

\* One list of the operator's namespace.
ListOperatorCas ==
    /\ pc = "operatorCas"
    /\ AppendCerts(Prefixed)
    /\ todo' = {eca.name : eca \in {x \in t.ExternalCaCertSecret : x.type = "kubernetes.io/tls"}}
    /\ pc' = "externalCas"
    /\ UNCHANGED <<clusterVars, t, keys, e, outcome, seen, edits>>

\* Mutant: an external CA that cannot be read is an error.
GetExternalCaOrFail(n) ==
    /\ pc = "externalCas" /\ n \in todo
    /\ \/ /\ cbp' = cbp \cup ({n} \cap cas)
          /\ todo' = todo \ {n}
          /\ UNCHANGED <<pc, t, keys, e, outcome, historyVars>>
       \/ Fail
    /\ UNCHANGED clusterVars

GetExternalCa(n) ==
    /\ pc = "externalCas" /\ n \in todo
    /\ AppendCerts({n})
    /\ todo' = todo \ {n}
    /\ UNCHANGED <<clusterVars, pc, t, keys, e, outcome, seen, edits>>

ReturnInfo ==
    /\ pc = "externalCas" /\ todo = {}
    /\ Return([keys |-> keys, Endpoint |-> e, Secure |-> Secure(t), CaBundle |-> cbp])
    /\ UNCHANGED clusterVars

Discover ==
    \/ Start
    \/ GetTenant \/ GetSecret \/ GetService
    \/ GetRootCa \/ ListOperatorCas
    \/ \E n \in CaSecrets : GetExternalCa(n)
    \/ ReturnInfo

\* A read that the call cannot do without fails, or the process ends.
Fault ==
    /\ pc \in {"tenant", "secret", "service"}
    /\ Fail
    /\ UNCHANGED clusterVars

-----------------------------------------------------------------------------
(* Whoever deploys and edits tenants.                                      *)

\* What there is from now on is remembered while a call is in progress.
Remember ==
    /\ IF pc = "idle" THEN UNCHANGED <<seen, edits>>
       ELSE /\ edits < MaxEdits
            /\ edits' = edits + 1
            /\ seen' = seen \cup {Now'}
    /\ UNCHANGED <<callVars, denied>>

EditTenant ==
    /\ \E tn \in (Tenants \cup {Absent}) \ {tenant} : tenant' = tn
    /\ UNCHANGED <<secrets, service, cas>>
    /\ Remember

EditSecret(n) ==
    /\ \E d \in (SecretData \cup {Absent}) \ {secrets[n]} : secrets' = [secrets EXCEPT ![n] = d]
    /\ UNCHANGED <<tenant, service, cas>>
    /\ Remember

EditService ==
    /\ \E ports \in ((SUBSET PortNames) \cup {Absent}) \ {service} : service' = ports
    /\ UNCHANGED <<tenant, secrets, cas>>
    /\ Remember

EditCa(source) ==
    /\ cas' = IF source \in cas THEN cas \ {source} ELSE cas \cup {source}
    /\ UNCHANGED <<tenant, secrets, service>>
    /\ Remember

Edit ==
    \/ EditTenant
    \/ \E n \in SecretNames : EditSecret(n)
    \/ EditService
    \/ \E source \in Sources \ {"system"} : EditCa(source)

Next == Discover \/ Fault \/ Edit

Spec == Init /\ [][Next]_vars

\* A reconciler goes on, and its resource comes up again.
LiveSpec == Spec /\ WF_vars(Discover)

-----------------------------------------------------------------------------
(* Safety, as the call ends.                                               *)

Answers == pc # "idle" /\ pc' = "idle" /\ outcome' # Failed

\* TLS for a tenant that has certificates, whoever issues them.
NeedsTLS(tn) == (tn.RequestAutoCert # Nil /\ tn.RequestAutoCert) \/ tn.ExternalCertSecret

\* However the cluster was edited meanwhile, a client's data fit together:
\* there was a tenant during the call, with a secret, and a service, such
\* that scheme, port and keys are theirs.  In particular no client goes
\* without TLS to a tenant that had certificates all the time.
ConsistentInfo ==
    [][Answers
       => \E w \in seen : /\ w.tenant # Absent /\ w.tenant.Configuration # Nil
                          /\ outcome'.Secure = NeedsTLS(w.tenant)
                          /\ outcome'.Secure = (outcome'.Endpoint = "https-minio")
                          /\ \E x \in seen :
                                LET s == x.secrets[w.tenant.Configuration]
                                IN s # Absent
                                   /\ outcome'.keys = [AccessKey |-> s.MINIO_ROOT_USER,
                                                       SecretKey |-> s.MINIO_ROOT_PASSWORD]
                          /\ \E x \in seen : x.service # Absent /\ outcome'.Endpoint \in x.service]_vars

\* The sources of CA certificates for a tenant: the system's and the cluster's,
\* those of the MinIO operator and the tenant's own.
TrustedFor(tn) ==
    {"system", "kube-root-ca.crt"} \cup Prefixed
      \cup {n \in CaSecrets : [name |-> n, type |-> "kubernetes.io/tls"] \in tn.ExternalCaCertSecret}

\* A client trusts the root certificates of the system the operator runs on,
\* those of the cluster and of the MinIO operator, those its tenant lists, and
\* no others: all that were there throughout and could be read, and none that
\* never was.
TrustsItsSources ==
    [][Answers
       => \E w \in seen :
            /\ w.tenant # Absent
            /\ outcome'.CaBundle \subseteq TrustedFor(w.tenant) \cap UNION {x.cas : x \in seen}
            /\ \A source \in TrustedFor(w.tenant) \ denied :
                  (\A x \in seen : source \in x.cas) => source \in outcome'.CaBundle]_vars

-----------------------------------------------------------------------------
(* Liveness.                                                               *)

\* What it takes, as the cluster is now.
Discoverable ==
    /\ tenant # Absent
    /\ tenant.Configuration # Nil
    /\ LET s == secrets[tenant.Configuration]
       IN s # Absent /\ s.env /\ Nil \notin {s.MINIO_ROOT_USER, s.MINIO_ROOT_PASSWORD}
    /\ service # Absent
    /\ (IF NeedsTLS(tenant) THEN "https-minio" ELSE "http-minio") \in service

\* Once the cluster is left alone and answers, every call ends in a client if
\* it can, whatever CA certificates are missing or refused; and if it cannot,
\* every call fails: a resource of a tenant that is gone keeps its finalizer.
DiscoverySettles ==
    <>[][Discover]_vars
    => /\ []<>(outcome # Nil)
       /\ <>[](outcome # Nil => (outcome = Failed <=> ~Discoverable))
=============================================================================
