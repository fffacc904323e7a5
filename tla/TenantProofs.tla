---------------------------- MODULE TenantProofs ----------------------------
(***************************************************************************)
(* Proofs about the discovery of a tenant's client, for any tenants,       *)
(* secrets and sources of certificates and any number of edits.            *)
(***************************************************************************)
EXTENDS Tenant, TLAPS

\* The reads that come after a value is there.
WithTenant == {"secret", "service", "rootCa", "operatorCas", "externalCas"}
WithKeys == WithTenant \ {"secret"}
WithPort == WithKeys \ {"service"}

TheKeys(s) == [AccessKey |-> s.MINIO_ROOT_USER, SecretKey |-> s.MINIO_ROOT_PASSWORD]
Port(tn) == IF Secure(tn) THEN "https-minio" ELSE "http-minio"

\* Whatever the call holds was in the cluster at some time during the call.
TenantSeen ==
    pc \in WithTenant
    => t \in Tenants /\ t.Configuration \in SecretNames /\ \E w \in seen : w.tenant = t

KeysSeen ==
    pc \in WithKeys
    => /\ keys \in Keys
       /\ \E x \in seen : /\ x.secrets[t.Configuration] # Absent
                          /\ keys = TheKeys(x.secrets[t.Configuration])

PortSeen ==
    pc \in WithPort
    => e = Port(t) /\ \E x \in seen : x.service # Absent /\ e \in x.service

\* The sources the call has been through; no source has been taken for one.
Read == IF pc = "externalCas" THEN TrustedFor(t) \ todo
        ELSE IF pc = "operatorCas" THEN {"system", "kube-root-ca.crt"}
        ELSE {"system"}

CasSeen ==
    /\ pc \notin WithPort => cbp = {}
    /\ pc \in WithPort
       => /\ cbp \subseteq TrustedFor(t) \cap UNION {x.cas : x \in seen}
          /\ pc = "externalCas" => todo \subseteq TrustedFor(t)
          /\ \A source \in Read \ denied :
                (\A x \in seen : source \in x.cas) => source \in cbp

\* What is in the cluster now is remembered.
NowSeen == pc # "idle" => Now \in seen

Inv == TypeOK /\ NowSeen /\ TenantSeen /\ KeysSeen /\ PortSeen /\ CasSeen

\* A call starts with nothing.
LEMMA InitInv == Init => Inv
<1> SUFFICES ASSUME Init PROVE Inv
  OBVIOUS
<1>1. MaxEdits \in Nat
  BY TenantAssumption
<1>2. TypeOK
  BY <1>1 DEF Init, TypeOK, Sources
<1>3. pc = "idle" /\ cbp = {}
  BY DEF Init
<1>4. QED BY <1>2, <1>3 DEF Inv, NowSeen, TenantSeen, KeysSeen, PortSeen, CasSeen,
             WithTenant, WithKeys, WithPort

\* The call ends, with an error or a client's data.
LEMMA ReturnStep ==
    ASSUME Inv, NEW value \in Info \cup {Failed}, Return(value), UNCHANGED clusterVars
    PROVE  Inv'
<1>1. MaxEdits \in Nat
  BY TenantAssumption
<1>2. TypeOK'
  BY <1>1 DEF Return, clusterVars, Inv, TypeOK
<1>3. pc' = "idle" /\ cbp' = {}
  BY DEF Return
<1>4. QED BY <1>2, <1>3 DEF Inv, NowSeen, TenantSeen, KeysSeen, PortSeen, CasSeen,
             WithTenant, WithKeys, WithPort

\* An error ends it from anywhere.
LEMMA FailStep == ASSUME Inv, Fail, UNCHANGED clusterVars PROVE Inv'
BY ReturnStep DEF Fail

\* The cluster as it is when the call starts is seen.
LEMMA StartStep == ASSUME Inv, Start PROVE Inv'
<1>1. pc = "idle" /\ pc' = "tenant" /\ UNCHANGED <<clusterVars, Locals>> /\ seen' = {Now}
  BY DEF Start
<1>2. TypeOK'
  BY DEF Start, Inv, TypeOK, clusterVars, Locals
<1>3. Now' = Now
  BY <1>1 DEF Now, clusterVars
<1>4. CasSeen'
  BY <1>1 DEF Inv, CasSeen, Locals, WithTenant, WithKeys, WithPort
<1>5. QED BY <1>1, <1>2, <1>3, <1>4 DEF Inv, NowSeen, TenantSeen, KeysSeen, PortSeen,
             WithTenant, WithKeys, WithPort

\* The tenant that is read is one of those seen.
LEMMA GetTenantStep == ASSUME Inv, GetTenant PROVE Inv'
<1>1. CASE Fail
  BY <1>1, FailStep DEF GetTenant
<1>2. CASE ~Fail
  <2>1. /\ pc = "tenant" /\ pc' = "secret" /\ t' = tenant /\ tenant # Absent
        /\ tenant.Configuration # Nil
        /\ UNCHANGED <<clusterVars, keys, e, cbp, todo, outcome, historyVars>>
    BY <1>2 DEF GetTenant
  <2>2. tenant \in Tenants /\ tenant.Configuration \in SecretNames
    BY <2>1, TenantAssumption DEF Inv, TypeOK, Tenant
  <2>3. TypeOK'
    BY <2>1, <2>2 DEF Inv, TypeOK, clusterVars, historyVars
  <2>4. Now' = Now /\ seen' = seen /\ Now \in seen /\ Now.tenant = tenant
    BY <2>1 DEF Now, clusterVars, historyVars, Inv, NowSeen
  <2>5. NowSeen' /\ TenantSeen'
    BY <2>1, <2>2, <2>4 DEF NowSeen, TenantSeen
  <2>6. QED BY <2>1, <2>3, <2>5 DEF Inv, KeysSeen, PortSeen, CasSeen,
               WithTenant, WithKeys, WithPort
<1>3. QED BY <1>1, <1>2

\* The keys are those of a secret that the copy of the tenant names.
LEMMA GetSecretStep == ASSUME Inv, GetSecret PROVE Inv'
<1>1. CASE Fail
  BY <1>1, FailStep DEF GetSecret
<1>2. CASE ~Fail
  <2> DEFINE s == secrets[t.Configuration]
  <2>1. /\ pc = "secret" /\ pc' = "service" /\ s # Absent
        /\ s.MINIO_ROOT_USER # Nil /\ s.MINIO_ROOT_PASSWORD # Nil
        /\ keys' = TheKeys(s)
        /\ UNCHANGED <<clusterVars, t, e, cbp, todo, outcome, historyVars>>
    BY <1>2 DEF GetSecret, TheKeys
  <2>2. t \in Tenants /\ t.Configuration \in SecretNames /\ \E w \in seen : w.tenant = t
    BY <2>1 DEF Inv, TenantSeen, WithTenant
  <2>3. s \in Secret
    BY <2>1, <2>2, TenantAssumption DEF Inv, TypeOK
  <2>4. keys' \in Keys
    BY <2>1, <2>3 DEF Secret, Keys, TheKeys
  <2>5. TypeOK'
    BY <2>1, <2>4 DEF Inv, TypeOK, clusterVars, historyVars
  <2>6. Now' = Now /\ seen' = seen /\ Now \in seen /\ Now.secrets[t.Configuration] = s
    BY <2>1 DEF Now, clusterVars, historyVars, Inv, NowSeen
  <2>7. NowSeen' /\ TenantSeen'
    BY <2>1, <2>2, <2>6 DEF NowSeen, TenantSeen
  <2>8. KeysSeen'
    BY <2>1, <2>4, <2>6 DEF KeysSeen
  <2>9. QED BY <2>1, <2>5, <2>7, <2>8 DEF Inv, PortSeen, CasSeen,
               WithTenant, WithKeys, WithPort
<1>3. QED BY <1>1, <1>2

\* The port is the one of the scheme the copy of the tenant asks for.
LEMMA GetServiceStep == ASSUME Inv, GetService PROVE Inv'
<1>1. CASE Fail
  BY <1>1, FailStep DEF GetService
<1>2. CASE ~Fail
  <2>1. /\ pc = "service" /\ pc' = "rootCa" /\ service # Absent
        /\ e' = Port(t) /\ Port(t) \in service
        /\ AppendCerts({"system"})
        /\ UNCHANGED <<clusterVars, t, keys, todo, outcome, seen, edits>>
    BY <1>2 DEF GetService, Port
  <2>2. TypeOK'
    BY <2>1 DEF Inv, TypeOK, clusterVars, AppendCerts, Sources, Port, PortNames
  <2>3. /\ Now' = Now /\ seen' = seen /\ Now \in seen
        /\ Now.service = service /\ Now.cas = cas
    BY <2>1 DEF Now, clusterVars, Inv, NowSeen
  <2>4. NowSeen' /\ TenantSeen' /\ KeysSeen'
    BY <2>1, <2>3 DEF Inv, NowSeen, TenantSeen, KeysSeen, WithTenant, WithKeys
  <2>5. PortSeen'
    BY <2>1, <2>3 DEF PortSeen, Port, Secure
  <2>6. CasSeen'
    <3>1. cbp = {} /\ pc' \in WithPort /\ pc' # "externalCas" /\ Read' = {"system"}
      BY <2>1 DEF Inv, CasSeen, Read, WithTenant, WithKeys, WithPort
    <3>2. TrustedFor(t)' = TrustedFor(t) /\ "system" \in TrustedFor(t)
      BY <2>1 DEF TrustedFor
    <3>3. \/ cbp' = {"system"} \cap cas
          \/ cbp' = {} /\ "system" \in denied'
      BY <2>1, <3>1 DEF AppendCerts
    <3>4. QED BY <2>3, <3>1, <3>2, <3>3 DEF CasSeen
  <2>7. QED BY <2>2, <2>4, <2>5, <2>6 DEF Inv
<1>3. QED BY <1>1, <1>2

\* Certificates are added, or the read of them failed.
LEMMA AppendCertsStep ==
    ASSUME Inv, NEW sources \in SUBSET Sources, AppendCerts(sources), pc \in WithPort, pc' \in WithPort,
           UNCHANGED <<clusterVars, t, keys, e, outcome, seen, edits>>,
           sources \subseteq TrustedFor(t), Read' \subseteq Read \cup sources,
           todo' \in SUBSET CaSecrets, pc' = "externalCas" => todo' \subseteq TrustedFor(t)
    PROVE  Inv'
<1>1. /\ cbp \subseteq TrustedFor(t) \cap UNION {x.cas : x \in seen}
      /\ \A source \in Read \ denied :
            (\A x \in seen : source \in x.cas) => source \in cbp
  BY DEF Inv, CasSeen
<1>2. Now' = Now /\ Now \in seen /\ Now.cas = cas /\ pc # "idle" /\ pc' # "idle"
  BY DEF Now, clusterVars, Inv, NowSeen, WithPort, WithKeys, WithTenant
<1>3. /\ cbp' \subseteq TrustedFor(t) \cap UNION {x.cas : x \in seen}
      /\ denied \subseteq denied' /\ cbp \subseteq cbp'
      /\ \A source \in sources \ denied' :
            (\A x \in seen : source \in x.cas) => source \in cbp'
  BY <1>1, <1>2 DEF AppendCerts
<1>4. TrustedFor(t)' = TrustedFor(t)
  BY DEF TrustedFor
<1>5. CasSeen'
  BY <1>1, <1>3, <1>4 DEF CasSeen
<1>6. TypeOK'
  BY DEF Inv, TypeOK, clusterVars, AppendCerts, WithTenant, WithKeys, WithPort
<1>7. NowSeen' /\ TenantSeen' /\ KeysSeen' /\ PortSeen'
  BY <1>2 DEF Inv, NowSeen, TenantSeen, KeysSeen, PortSeen, Port, Secure, WithTenant,
              WithKeys, WithPort
<1>8. QED BY <1>5, <1>6, <1>7 DEF Inv

\* The cluster's own certificate.
LEMMA GetRootCaStep == ASSUME Inv, GetRootCa PROVE Inv'
<1>1. /\ pc = "rootCa" /\ pc' = "operatorCas" /\ AppendCerts({"kube-root-ca.crt"})
      /\ UNCHANGED <<clusterVars, t, keys, e, todo, outcome, seen, edits>>
  BY DEF GetRootCa
<1>2. {"kube-root-ca.crt"} \in SUBSET Sources /\ {"kube-root-ca.crt"} \subseteq TrustedFor(t)
  BY DEF Sources, TrustedFor
<1>3. /\ Read' \subseteq Read \cup {"kube-root-ca.crt"}
      /\ pc \in WithPort /\ pc' \in WithPort /\ pc' # "externalCas"
  BY <1>1 DEF Read, WithPort, WithKeys, WithTenant
<1>4. todo' \in SUBSET CaSecrets
  BY <1>1 DEF Inv, TypeOK
<1>5. QED BY <1>1, <1>2, <1>3, <1>4, AppendCertsStep

\* Those of the MinIO operator; what is left then are the tenant's own.
LEMMA ListOperatorCasStep == ASSUME Inv, ListOperatorCas PROVE Inv'
<1>1. /\ pc = "operatorCas" /\ pc' = "externalCas" /\ AppendCerts(Prefixed)
      /\ todo' = {eca.name : eca \in {x \in t.ExternalCaCertSecret : x.type = "kubernetes.io/tls"}}
      /\ UNCHANGED <<clusterVars, t, keys, e, outcome, seen, edits>>
  BY DEF ListOperatorCas
<1>2. pc \in WithPort /\ pc' \in WithPort
  BY <1>1 DEF WithPort, WithKeys, WithTenant
<1>3. t \in Tenant
  BY <1>2, TenantAssumption DEF Inv, TenantSeen, WithPort, WithKeys
<1>4. todo' \in SUBSET CaSecrets
  BY <1>1, <1>3 DEF Tenant
<1>5. {n \in CaSecrets : [name |-> n, type |-> "kubernetes.io/tls"] \in t.ExternalCaCertSecret}
        \subseteq todo'
  BY <1>1
<1>6. Read' \subseteq Read \cup Prefixed
  BY <1>1, <1>5 DEF Read, TrustedFor
<1>7. Prefixed \in SUBSET Sources /\ Prefixed \subseteq TrustedFor(t)
  BY TenantAssumption DEF Sources, TrustedFor
<1>8. todo' \subseteq TrustedFor(t)
  <2> SUFFICES ASSUME NEW eca \in t.ExternalCaCertSecret, eca.type = "kubernetes.io/tls"
               PROVE  eca.name \in TrustedFor(t)
    BY <1>1
  <2>1. eca \in [name: CaSecrets, type: CaTypes]
    BY <1>3 DEF Tenant
  <2>2. eca = [name |-> eca.name, type |-> eca.type]
    BY <2>1
  <2>3. QED BY <2>1, <2>2 DEF TrustedFor
<1>9. QED BY <1>1, <1>2, <1>4, <1>6, <1>7, <1>8, AppendCertsStep

\* The tenant's own, one at a time.
LEMMA GetExternalCaStep == ASSUME Inv, NEW n \in CaSecrets, GetExternalCa(n) PROVE Inv'
<1>1. /\ pc = "externalCas" /\ n \in todo /\ AppendCerts({n}) /\ todo' = todo \ {n}
      /\ UNCHANGED <<clusterVars, pc, t, keys, e, outcome, seen, edits>>
  BY DEF GetExternalCa
<1>2. pc \in WithPort /\ pc' \in WithPort
  BY <1>1 DEF WithPort, WithKeys, WithTenant
<1>3. todo' \in SUBSET CaSecrets /\ {n} \in SUBSET Sources
  BY <1>1 DEF Inv, TypeOK, Sources
<1>4. Read' \subseteq Read \cup {n}
  BY <1>1 DEF Read, TrustedFor
<1>5. {n} \cup todo \subseteq TrustedFor(t)
  BY <1>1, <1>2 DEF Inv, CasSeen
<1>6. QED BY <1>1, <1>2, <1>3, <1>4, <1>5, AppendCertsStep

\* An edit leaves the call alone, and what there is then is seen, too.
LEMMA EditStep ==
    ASSUME Inv, TypeOK', UNCHANGED <<pc, t, keys, e, cbp, todo, denied>>,
           pc # "idle" => seen \subseteq seen' /\ Now' \in seen'
    PROVE  Inv'
<1>1. pc \in WithTenant => pc # "idle"
  BY DEF WithTenant
<1>2. NowSeen' /\ TenantSeen' /\ KeysSeen'
  BY <1>1 DEF Inv, NowSeen, TenantSeen, KeysSeen, WithKeys
<1>3. PortSeen'
  BY <1>1 DEF Inv, PortSeen, Port, Secure, WithPort, WithKeys
<1>4. CasSeen'
  BY <1>1 DEF Inv, CasSeen, Read, TrustedFor, WithPort, WithKeys
<1>5. QED BY <1>2, <1>3, <1>4 DEF Inv

\* Whatever is edited is what it was before, of another value.
LEMMA EditsStep == ASSUME Inv, Edit PROVE Inv'
<1>0. MaxEdits \in Nat /\ edits \in 0..MaxEdits
  BY TenantAssumption DEF Inv, TypeOK
<1>1. Remember
  BY DEF Edit, EditTenant, EditSecret, EditService, EditCa
<1>2. /\ UNCHANGED <<pc, t, keys, e, cbp, todo, outcome, denied>>
      /\ edits' \in 0..MaxEdits
      /\ pc # "idle" => seen \subseteq seen' /\ Now' \in seen'
  BY <1>0, <1>1 DEF Remember, callVars
<1>3. /\ tenant' \in Tenants \cup {Absent}
      /\ secrets' \in [SecretNames -> SecretData \cup {Absent}]
      /\ service' = Absent \/ service' \subseteq PortNames
      /\ {"system"} \subseteq cas' /\ cas' \subseteq Sources
  BY DEF Edit, EditTenant, EditSecret, EditService, EditCa, Inv, TypeOK
<1>4. TypeOK'
  BY <1>2, <1>3 DEF Inv, TypeOK
<1>5. QED BY <1>2, <1>4, EditStep

\* Any step.
LEMMA NextStep == ASSUME Inv, [Next]_vars PROVE Inv'
<1>1. CASE ReturnInfo
  <2>1. pc = "externalCas" /\ t \in Tenant /\ keys \in Keys /\ e \in PortNames /\ cbp \in SUBSET Sources
    BY <1>1, TenantAssumption DEF ReturnInfo, Inv, TenantSeen, KeysSeen, PortSeen, TypeOK, Port,
       PortNames, WithTenant, WithKeys, WithPort
  <2>2. Secure(t) \in BOOLEAN
    BY <2>1 DEF Secure, Tenant
  <2>3. [keys |-> keys, Endpoint |-> e, Secure |-> Secure(t), CaBundle |-> cbp] \in Info
    BY <2>1, <2>2 DEF Info
  <2>4. QED BY <1>1, <2>3, ReturnStep DEF ReturnInfo
<1>2. CASE Fault
  BY <1>2, FailStep DEF Fault
<1>3. CASE UNCHANGED vars
  <2>1. TypeOK'
    BY <1>3 DEF Inv, TypeOK, vars, clusterVars, callVars, historyVars
  <2>2. Now' = Now
    BY <1>3 DEF Now, vars, clusterVars
  <2>3. QED BY <1>3, <2>1, <2>2, EditStep DEF vars, callVars, historyVars, Inv, NowSeen
<1>4. QED BY <1>1, <1>2, <1>3, StartStep, GetTenantStep, GetSecretStep, GetServiceStep,
             GetRootCaStep, ListOperatorCasStep, GetExternalCaStep, EditsStep
          DEF Next, Discover

\* What the call reads, holds and returns is always of the declared type: in
\* particular no client's data come without keys or with another port.
THEOREM TypeCorrect == Spec => []TypeOK
<1>1. Init => Inv
  BY InitInv
<1>2. Inv /\ [Next]_vars => Inv'
  BY NextStep
<1>3. Inv => TypeOK
  BY DEF Inv
<1>4. QED BY <1>1, <1>2, <1>3, PTL DEF Spec

\* Only ReturnInfo answers.
LEMMA Answer ==
    ASSUME Inv, [Next]_vars, Answers
    PROVE  /\ pc = "externalCas" /\ todo = {}
           /\ outcome' = [keys |-> keys, Endpoint |-> e, Secure |-> Secure(t), CaBundle |-> cbp]
<1>1. CASE ReturnInfo
  BY <1>1 DEF ReturnInfo, Return
<1>2. CASE Fail
  BY <1>2 DEF Fail, Return, Answers
<1>3. ASSUME Start \/ GetRootCa \/ ListOperatorCas \/ \E n \in CaSecrets : GetExternalCa(n)
      PROVE  FALSE
  BY <1>3 DEF Start, GetRootCa, ListOperatorCas, GetExternalCa, Answers
<1>4. ASSUME Edit PROVE FALSE
  BY <1>4 DEF Edit, EditTenant, EditSecret, EditService, EditCa, Remember, callVars, Answers
<1>5. ASSUME GetTenant \/ GetSecret \/ GetService \/ Fault PROVE Fail
  BY <1>5 DEF GetTenant, GetSecret, GetService, Fault, Answers
<1>6. ASSUME UNCHANGED vars PROVE FALSE
  BY <1>6 DEF vars, callVars, Answers
<1>7. QED BY <1>1, <1>2, <1>3, <1>4, <1>5, <1>6 DEF Next, Discover

\* The code's test for TLS is the one for certificates.
LEMMA SecureMeansTLS == ASSUME NEW tn \in Tenants PROVE Secure(tn) = NeedsTLS(tn)
<1>1. tn.RequestAutoCert \in BOOLEAN \cup {Nil} /\ Nil \notin BOOLEAN
  BY TenantAssumption DEF Tenant
<1>2. (tn.RequestAutoCert = TRUE) <=> (tn.RequestAutoCert # Nil /\ tn.RequestAutoCert)
  BY <1>1
<1>3. Secure(tn) <=> NeedsTLS(tn)
  BY <1>2 DEF Secure, NeedsTLS
<1>4. QED BY <1>3 DEF Secure, NeedsTLS

\* However often and whenever tenant, secrets and services are edited while
\* the five reads go on, the client's scheme, port and keys are those of one
\* tenant that was there, of its secret and of its service: the later reads go
\* by the copy of the tenant, never by another look at it.
THEOREM InfoConsistent == Spec => ConsistentInfo
<1>1. Init => Inv
  BY InitInv
<1>2. Inv /\ [Next]_vars => Inv'
  BY NextStep
<1>3. ASSUME Inv, [Next]_vars, Answers
      PROVE  \E w \in seen : /\ w.tenant # Absent /\ w.tenant.Configuration # Nil
                             /\ outcome'.Secure = NeedsTLS(w.tenant)
                             /\ outcome'.Secure = (outcome'.Endpoint = "https-minio")
                             /\ \E x \in seen :
                                   LET s == x.secrets[w.tenant.Configuration]
                                   IN s # Absent
                                      /\ outcome'.keys = [AccessKey |-> s.MINIO_ROOT_USER,
                                                          SecretKey |-> s.MINIO_ROOT_PASSWORD]
                             /\ \E x \in seen : x.service # Absent /\ outcome'.Endpoint \in x.service
  <2>1. pc \in WithTenant /\ pc \in WithKeys /\ pc \in WithPort
    BY <1>3, Answer DEF WithTenant, WithKeys, WithPort
  <2>2. PICK w \in seen : w.tenant = t
    BY <1>3, <2>1 DEF Inv, TenantSeen
  <2>3. t \in Tenants /\ t # Absent /\ t.Configuration # Nil
    BY <1>3, <2>1, TenantAssumption DEF Inv, TenantSeen
  <2>4. outcome'.Secure = Secure(t) /\ outcome'.Endpoint = e /\ outcome'.keys = keys
    BY <1>3, Answer
  <2>5. outcome'.Secure = (outcome'.Endpoint = "https-minio")
    <3>1. e = Port(t)
      BY <1>3, <2>1 DEF Inv, PortSeen
    <3>2. Secure(t) <=> (e = "https-minio")
      BY <3>1 DEF Port
    <3>3. Secure(t) = (e = "https-minio")
      BY <3>2 DEF Secure
    <3>4. QED BY <2>4, <3>3
  <2>6. \E x \in seen : LET s == x.secrets[t.Configuration]
                        IN s # Absent
                           /\ outcome'.keys = [AccessKey |-> s.MINIO_ROOT_USER,
                                               SecretKey |-> s.MINIO_ROOT_PASSWORD]
    BY <1>3, <2>1, <2>4 DEF Inv, KeysSeen, TheKeys
  <2>7. \E x \in seen : x.service # Absent /\ outcome'.Endpoint \in x.service
    BY <1>3, <2>1, <2>4 DEF Inv, PortSeen
  <2>8. outcome'.Secure = NeedsTLS(t)
    BY <2>3, <2>4, SecureMeansTLS
  <2>9. QED BY <2>2, <2>3, <2>5, <2>6, <2>7, <2>8
<1>4. QED BY <1>1, <1>2, <1>3, PTL DEF Spec, ConsistentInfo

\* A client trusts the root certificates of the system the operator runs on,
\* those of the cluster and of the MinIO operator, those its tenant lists, and
\* no others, however the certificates come and go and whichever reads of them
\* fail.
THEOREM SourcesTrusted == Spec => TrustsItsSources
<1>1. Init => Inv
  BY InitInv
<1>2. Inv /\ [Next]_vars => Inv'
  BY NextStep
<1>3. ASSUME Inv, [Next]_vars, Answers
      PROVE  \E w \in seen :
               /\ w.tenant # Absent
               /\ outcome'.CaBundle \subseteq TrustedFor(w.tenant) \cap UNION {x.cas : x \in seen}
               /\ \A source \in TrustedFor(w.tenant) \ denied :
                     (\A x \in seen : source \in x.cas) => source \in outcome'.CaBundle
  <2>1. pc \in WithTenant /\ pc \in WithPort /\ pc = "externalCas" /\ todo = {}
    BY <1>3, Answer DEF WithTenant, WithKeys, WithPort
  <2>2. PICK w \in seen : w.tenant = t
    BY <1>3, <2>1 DEF Inv, TenantSeen
  <2>3. t # Absent
    BY <1>3, <2>1, TenantAssumption DEF Inv, TenantSeen
  <2>4. outcome'.CaBundle = cbp
    BY <1>3, Answer
  <2>5. Read = TrustedFor(t)
    BY <2>1 DEF Read
  <2>6. QED BY <1>3, <2>1, <2>2, <2>3, <2>4, <2>5 DEF Inv, CasSeen
<1>4. QED BY <1>1, <1>2, <1>3, PTL DEF Spec, TrustsItsSources
=============================================================================
