------------------------------ MODULE AccessKey -----------------------------
(***************************************************************************)
(* minioAccessKeyReconciler: one action per remote call of Reconcile, over *)
(* the Kubernetes side of module Kube, the secrets it generates and the    *)
(* service accounts of the MinIO tenants.                                  *)
(*                                                                         *)
(* A "config" is an account's name, description, expiration and policy, as *)
(* far as a spec can give them.  The secrets that an accessKeyRef and a    *)
(* secretKeyRef name come, change and go at any time; a key that is there  *)
(* is not empty.  A secret key that somebody else gave an account is none  *)
(* that the operator would.  Secrets are read from the API server and not  *)
(* from the cache.  Of a generated secret's resourceVersion only equality  *)
(* matters: a write gives it any version that nobody remembers.            *)
(***************************************************************************)
EXTENDS Kube

CONSTANTS
    Keys,          \* access keys
    SecretNames,   \* names of generated secrets
    SecretKeys,    \* secret keys the operator sets
    Theirs,        \* a secret key somebody else set
    Configs,       \* values of the other fields
    Provided,      \* what accessKeyRef and secretKeyRef can lead to
    Versions       \* bound: resourceVersions of generated secrets

VARIABLES
    secrets,    \* the generated secrets
    accounts,   \* the service accounts
    provided,   \* what the refs lead to, Nil for a secret or key that is missing
    creds,      \* the call's copy of the generated secret
    desired,    \* the access key that getDesiredCredentials has determined
    migrated    \* history: the accounts that a resource took over with the
                \* secret key an earlier one gave them, not written since

minioVars == <<secrets, accounts, provided, migrated>>
vars == <<kubeVars, minioVars, creds, desired>>

AccessKeySpec == [secretName: SecretNames, accessKey: Keys \cup {Nil}, accessKeyRef: BOOLEAN,
                  secretKeyRef: BOOLEAN, migrate: BOOLEAN, config: Configs]

\* The recorded spec, and the recorded resourceVersion of the generated secret.
Current == [spec: {s \in AccessKeySpec : ~s.migrate}, version: Versions]

Secret == [accessKey: Keys, secretKey: SecretKeys, version: Versions]
Account == [config: Configs, secretKey: SecretKeys \cup {Theirs}]

ASSUME AccessKeyAssumption ==
    /\ Specs \subseteq AccessKeySpec
    /\ \A s \in Specs : \A k \in Keys \cup {s.accessKey} :
          [s EXCEPT !.migrate = FALSE, !.accessKey = k] \in Specs
    /\ Currents = Current
    /\ Provided \subseteq [accessKey: Keys \cup {Nil}, secretKey: SecretKeys \cup {Nil}]
    /\ Nil \notin Keys \cup SecretKeys
    /\ Theirs \notin SecretKeys
    /\ Absent \notin Secret
    /\ Absent \notin Account

\* The calls on the way to a record, those on one, and the one that records
\* the spec again, after a lost account even when the status was just cleared.
Making == {"addAccount", "undoSecret", "newStatus"}
Holding == {"findAccount", "deleteAccount", "getSecret", "dropSecret", "moveSecret",
            "updateSecret", "dropMigrate", "check", "resetAccount", "updateAccount",
            "regetSecret", "redropSecret", "unsetStatus"}
Either == {"desire", "desireSecretKey", "createSecret", "setStatus"}

TypeOK ==
    /\ KubeTypeOK
    /\ secrets \in [SecretNames -> Secret \cup {Absent}]
    /\ accounts \in [Keys -> Account \cup {Absent}]
    /\ provided \in Provided
    /\ creds \in Secret \cup {Absent}
    /\ desired \in Keys \cup {Nil}
    /\ migrated \subseteq Keys
    /\ pc \in {"idle", "addFinalizer", "clearStatus", "clearFinalizer"}
                \cup Making \cup Holding \cup Either

Init ==
    /\ KubeInit
    /\ secrets = [n \in SecretNames |-> Absent]
    /\ accounts \in [Keys -> {a \in Account : a.secretKey = Theirs} \cup {Absent}]
    /\ provided \in Provided
    /\ creds = Absent
    /\ desired = Nil
    /\ migrated = {}

-----------------------------------------------------------------------------
(* Reconcile.                                                              *)

Stop == Return /\ creds' = Absent
Go(next) == Proceed(next) /\ UNCHANGED creds
Keep == UNCHANGED <<store, lag, minioVars>>

recorded == obj.currentSpec.spec

\* The resourceVersions that neither a secret nor a resource, nor an old version
\* of one, nor the call has; which one is next does not matter, and a write
\* waits for one, for there are only so many.
FreeVersions ==
    {v \in Versions :
        /\ \A n \in SecretNames : secrets[n] # Absent => secrets[n].version # v
        /\ \A o \in {obj} \cup {store[r] : r \in Resources}
                     \cup UNION {{lag[r][i] : i \in 1..Len(lag[r])} : r \in Resources} :
              o # Absent /\ o.currentSpec # Nil => o.currentSpec.version # v
        /\ creds # Absent => creds.version # v}

NewVersion == CHOOSE v \in FreeVersions : TRUE

\* A generated key is nobody's.
NewKey(k) ==
    /\ accounts[k] = Absent
    /\ \A n \in SecretNames : secrets[n] # Absent => secrets[n].accessKey # k

\* Mutant: the account is made before the finalizer is there.
FirstCallWithoutFinalizer(o) ==
    IF o.deleting THEN IF o.currentSpec # Nil THEN "findAccount" ELSE "clearStatus"
    ELSE IF o.currentSpec # Nil THEN "getSecret"
    ELSE "desire"

FirstCall(o) ==
    IF o.deleting THEN IF o.currentSpec # Nil THEN "findAccount" ELSE "clearStatus"
    ELSE IF ~o.finalizer THEN "addFinalizer"
    ELSE IF o.currentSpec # Nil THEN "getSecret"
    ELSE "desire"

Start(r) ==
    /\ Get(r)
    /\ pc' = FirstCall(Cached(r))
    /\ UNCHANGED <<minioVars, creds, desired>>

-----------------------------------------------------------------------------
(* deleteAccessKey, and the two updates that follow it.                    *)

\* Mutant: a secret that is gone is an error.
FindAccountOrFail ==
    /\ pc = "findAccount"
    /\ IF secrets[recorded.secretName] = Absent THEN Stop
       ELSE creds' = secrets[recorded.secretName] /\ Proceed("deleteAccount")
    /\ Keep

\* Without the secret the access key is not known, and stays in MinIO.
FindAccount ==
    /\ pc = "findAccount"
    /\ creds' = secrets[recorded.secretName]
    /\ Proceed(IF creds' = Absent THEN "clearStatus" ELSE "deleteAccount")
    /\ Keep

DeleteAccount ==
    /\ pc = "deleteAccount"
    /\ accounts' = [accounts EXCEPT ![creds.accessKey] = Absent]
    /\ migrated' = migrated \ {creds.accessKey}
    /\ Go("clearStatus")
    /\ UNCHANGED <<store, lag, secrets, provided>>

\* After an update that ends the call, or is refused, the copy is gone.
UpdateResource(o, next) ==
    /\ Update(o, next)
    /\ creds' = IF pc' = "idle" THEN Absent ELSE creds
    /\ UNCHANGED minioVars

\* Mutant: the finalizer goes while the status is still set.
ClearRecordLater ==
    /\ pc = "clearStatus"
    /\ UpdateResource(obj, "clearFinalizer")

ClearRecord ==
    /\ pc = "clearStatus"
    /\ UpdateResource([obj EXCEPT !.currentSpec = Nil], "clearFinalizer")

-----------------------------------------------------------------------------
(* updateCredentialsSecret and createCredentialsSecret.                    *)

GetSecret ==
    /\ pc = "getSecret"
    /\ creds' = secrets[recorded.secretName]
    /\ Proceed(IF obj.spec.secretName # recorded.secretName THEN "dropSecret" ELSE "desire")
    /\ Keep

\* Deleting a secret that Get did not find is refused for want of a name.
DropSecret ==
    /\ pc = "dropSecret"
    /\ IF creds = Absent THEN Stop /\ UNCHANGED secrets
       ELSE /\ secrets' = [secrets EXCEPT ![recorded.secretName] = Absent]
            /\ creds' = Absent
            /\ Proceed("moveSecret")
    /\ UNCHANGED <<store, lag, accounts, provided, migrated>>

MoveSecret ==
    /\ pc = "moveSecret"
    /\ UpdateResource([obj EXCEPT !.currentSpec.spec.secretName = obj.spec.secretName], "desire")

AfterSecret ==
    IF obj.currentSpec = Nil THEN "addAccount"
    ELSE IF obj.spec.migrate THEN "dropMigrate"
    ELSE "check"

\* getDesiredCredentials determines the access key first: what the spec gives,
\* outright or by a ref, else what the secret has, else (unless the resource is
\* to migrate) something random.
GivenKey(spec) ==
    IF spec.accessKey # Nil THEN spec.accessKey
    ELSE IF spec.accessKeyRef THEN provided.accessKey
    ELSE Nil

\* A secret that a ref names, or the key in it, is missing.
AccessKeyMissing(spec) == spec.accessKey = Nil /\ spec.accessKeyRef /\ provided.accessKey = Nil
SecretKeyMissing(spec) == spec.secretKeyRef /\ provided.secretKey = Nil

DesiredAccessKeys ==
    IF GivenKey(obj.spec) # Nil THEN {GivenKey(obj.spec)}
    ELSE IF creds # Absent THEN {creds.accessKey}
    ELSE IF obj.spec.migrate THEN {Nil}
    ELSE {k \in Keys : NewKey(k)}

\* A missing ref is an error; so is, in the model, that none of the bounded set
\* of keys is left.
Desire ==
    /\ pc = "desire"
    /\ \/ /\ AccessKeyMissing(obj.spec) \/ DesiredAccessKeys = {}
          /\ Stop
          /\ UNCHANGED desired
       \/ /\ ~AccessKeyMissing(obj.spec)
          /\ desired' \in DesiredAccessKeys
          /\ Go("desireSecretKey")
    /\ Keep

\* Then the secret key, in the same way.
DesiredSecretKeys ==
    IF obj.spec.secretKeyRef THEN {provided.secretKey}
    ELSE IF creds # Absent THEN {creds.secretKey}
    ELSE {k \in SecretKeys : ~obj.spec.migrate}

\* A missing ref is an error, and so is a migrated resource without both keys.
\* Without a copy of the secret one is created, else it is updated if need be.
DesireSecretKey ==
    /\ pc = "desireSecretKey"
    /\ \/ /\ SecretKeyMissing(obj.spec) \/ desired = Nil \/ DesiredSecretKeys = {}
          /\ Stop
       \/ /\ ~SecretKeyMissing(obj.spec) /\ desired # Nil
          /\ \E s \in DesiredSecretKeys :
               IF creds = Absent
               THEN /\ FreeVersions # {}
                    /\ creds' = [accessKey |-> desired, secretKey |-> s, version |-> NewVersion]
                    /\ Proceed("createSecret")
               ELSE /\ creds' = [creds EXCEPT !.accessKey = desired, !.secretKey = s]
                    /\ Proceed(IF creds' = creds THEN AfterSecret ELSE "updateSecret")
    /\ desired' = Nil
    /\ Keep

CreateSecret ==
    /\ pc = "createSecret"
    /\ IF secrets[obj.spec.secretName] # Absent THEN Stop /\ UNCHANGED secrets
       ELSE /\ secrets' = [secrets EXCEPT ![obj.spec.secretName] = creds]
            /\ Go(AfterSecret)
    /\ UNCHANGED <<store, lag, accounts, provided, migrated>>

UpdateSecret ==
    /\ pc = "updateSecret"
    /\ LET n == recorded.secretName
       IN IF secrets[n] = Absent \/ secrets[n].version # creds.version
          THEN Stop /\ UNCHANGED secrets
          ELSE /\ FreeVersions # {}
               /\ creds' = [creds EXCEPT !.version = NewVersion]
               /\ secrets' = [secrets EXCEPT ![n] = creds']
               /\ Proceed(AfterSecret)
    /\ UNCHANGED <<store, lag, accounts, provided, migrated>>

-----------------------------------------------------------------------------
(* updateAccessKey, and the update that follows it.                        *)

\* The spec or the secret is not the recorded one.
Changed == recorded.config # obj.spec.config \/ creds.version # obj.currentSpec.version

\* Mutant: a secret with a new resourceVersion is not a change.
CheckAccountOnly ==
    /\ pc = "check"
    /\ LET a == accounts[creds.accessKey]
       IN Go(IF a = Absent THEN "regetSecret"
             ELSE IF a.config # recorded.config THEN "resetAccount"
             ELSE IF recorded.config # obj.spec.config THEN "updateAccount"
             ELSE "setStatus")
    /\ Keep

CheckAccount ==
    /\ pc = "check"
    /\ LET a == accounts[creds.accessKey]
       IN Go(IF a = Absent THEN "regetSecret"
             ELSE IF a.config # recorded.config THEN "resetAccount"
             ELSE IF Changed THEN "updateAccount"
             ELSE "setStatus")
    /\ Keep

UpdateServiceAccount(config, next) ==
    /\ LET k == creds.accessKey
       IN IF accounts[k] = Absent THEN Stop /\ UNCHANGED accounts
          ELSE /\ accounts' = [accounts EXCEPT ![k] =
                                 [config |-> config, secretKey |-> creds.secretKey]]
               /\ Go(next)
    /\ migrated' = migrated \ {creds.accessKey}
    /\ UNCHANGED <<store, lag, secrets, provided>>

ResetAccount ==
    /\ pc = "resetAccount"
    /\ UpdateServiceAccount(recorded.config, IF Changed THEN "updateAccount" ELSE "setStatus")

UpdateAccount ==
    /\ pc = "updateAccount"
    /\ UpdateServiceAccount(obj.spec.config, "setStatus")

RegetSecret ==
    /\ pc = "regetSecret"
    /\ Go(IF secrets[recorded.secretName] # Absent THEN "redropSecret" ELSE "unsetStatus")
    /\ Keep

RedropSecret ==
    /\ pc = "redropSecret"
    /\ IF secrets[recorded.secretName] = Absent THEN Stop /\ UNCHANGED secrets
       ELSE /\ secrets' = [secrets EXCEPT ![recorded.secretName] = Absent]
            /\ Go("unsetStatus")
    /\ UNCHANGED <<store, lag, accounts, provided, migrated>>

\* updateAccessKey returns no error, and Reconcile records the spec again.
UnsetStatus ==
    /\ pc = "unsetStatus"
    /\ UpdateResource([obj EXCEPT !.currentSpec = Nil], "setStatus")

RecordSpec ==
    /\ pc = "setStatus"
    /\ UpdateResource([obj EXCEPT !.currentSpec =
                         [spec |-> obj.spec, version |-> creds.version]], "idle")

-----------------------------------------------------------------------------
(* createAccessKey, and what follows it.                                   *)

\* Mutant: an account that exists is an error, migrate or not.
AddNewAccount ==
    /\ pc = "addAccount"
    /\ LET k == creds.accessKey
           new == [config |-> obj.spec.config, secretKey |-> creds.secretKey]
       IN IF accounts[k] = Absent
          THEN accounts' = [accounts EXCEPT ![k] = new] /\ Go("newStatus")
          ELSE Go("undoSecret") /\ UNCHANGED accounts
    /\ UNCHANGED <<store, lag, secrets, provided, migrated>>

AddAccount ==
    /\ pc = "addAccount"
    /\ LET k == creds.accessKey
           new == [config |-> obj.spec.config, secretKey |-> creds.secretKey]
       IN \/ /\ accounts[k] = Absent
             /\ accounts' = [accounts EXCEPT ![k] = new]
             /\ Go("newStatus")
             /\ UNCHANGED migrated
          \/ /\ accounts[k] # Absent
             /\ Go(IF obj.spec.migrate THEN "newStatus" ELSE "undoSecret")
             /\ migrated' = IF obj.spec.migrate /\ accounts[k].secretKey # Theirs
                            THEN migrated \cup {k} ELSE migrated
             /\ UNCHANGED accounts
    /\ UNCHANGED <<store, lag, secrets, provided>>

\* AddServiceAccount fails, or succeeds and its reply is lost.
AddAccountFails ==
    /\ pc = "addAccount"
    /\ \/ UNCHANGED accounts
       \/ /\ accounts[creds.accessKey] = Absent
          /\ accounts' = [accounts EXCEPT ![creds.accessKey] =
                            [config |-> obj.spec.config, secretKey |-> creds.secretKey]]
    /\ Go("undoSecret")
    /\ UNCHANGED <<store, lag, secrets, provided, migrated>>

UndoSecret ==
    /\ pc = "undoSecret"
    /\ secrets' = [secrets EXCEPT ![obj.spec.secretName] = Absent]
    /\ Stop
    /\ UNCHANGED <<store, lag, accounts, provided, migrated>>

\* Mutant: the secret's resourceVersion is not recorded.
NewStatusUnversioned ==
    /\ pc = "newStatus"
    /\ LET s == [obj.spec EXCEPT !.migrate = FALSE, !.accessKey = creds.accessKey]
       IN UpdateResource([obj EXCEPT !.spec = s,
                            !.currentSpec = [spec |-> s, version |-> Nil]], "idle")

NewStatus ==
    /\ pc = "newStatus"
    /\ LET s == [obj.spec EXCEPT !.migrate = FALSE, !.accessKey = creds.accessKey]
       IN UpdateResource([obj EXCEPT !.spec = s,
                            !.currentSpec = [spec |-> s, version |-> creds.version]], "idle")

\* The calls to Kubernetes and MinIO that come before or after
\* getDesiredCredentials.
OtherCall ==
    \/ (AddFinalizer \/ ClearFinalizer) /\ creds' = Absent /\ UNCHANGED minioVars
    \/ DropMigrate /\ creds' = (IF pc' = "idle" THEN Absent ELSE creds) /\ UNCHANGED minioVars
    \/ FindAccount \/ DeleteAccount \/ ClearRecord
    \/ GetSecret \/ DropSecret \/ MoveSecret \/ CreateSecret \/ UpdateSecret
    \/ CheckAccount \/ ResetAccount \/ UpdateAccount
    \/ RegetSecret \/ RedropSecret \/ UnsetStatus \/ RecordSpec
    \/ AddAccount \/ UndoSecret \/ NewStatus

Reconcile == Desire \/ DesireSecretKey \/ (OtherCall /\ UNCHANGED desired)

Controller ==
    \/ Reconcile
    \/ \E r \in Resources : Start(r)
    \/ \E r \in Resources : Deliver(r) /\ UNCHANGED <<minioVars, creds, desired>>

-----------------------------------------------------------------------------
(* The environment: users of the resources, of the secrets and of MinIO.   *)

\* A resource or a call leads to the account, through its secret or the spec.
Claimed(k) ==
    \/ \E n \in SecretNames : secrets[n] # Absent /\ secrets[n].accessKey = k
    \/ \E r \in Resources : Recorded(r) /\ store[r].currentSpec.spec.accessKey = k
    \/ pc # "idle" /\ (desired = k \/ (creds # Absent /\ creds.accessKey = k))

\* Nobody else makes an account under a key in use.
ExternalAdd(k) ==
    /\ accounts[k] = Absent
    /\ ~Claimed(k)
    /\ \E c \in Configs :
          accounts' = [accounts EXCEPT ![k] = [config |-> c, secretKey |-> Theirs]]
    /\ UNCHANGED <<secrets, provided, migrated>>

\* Drift of the config, which InfoServiceAccount shows, and of the secret key,
\* which it does not.  The secret key stands for all that does not show: of the
\* account's policy the elements that MinioPolicyStatement lacks do not either.
ExternalChange(k) ==
    /\ accounts[k] # Absent
    /\ \E c \in Configs, s \in {accounts[k].secretKey, Theirs} :
          /\ accounts' = [accounts EXCEPT ![k] = [config |-> c, secretKey |-> s]]
          /\ migrated' = IF s = Theirs THEN migrated \ {k} ELSE migrated
    /\ UNCHANGED <<secrets, provided>>

ExternalRemove(k) ==
    /\ accounts[k] # Absent
    /\ accounts' = [accounts EXCEPT ![k] = Absent]
    /\ migrated' = migrated \ {k}
    /\ UNCHANGED <<secrets, provided>>

\* By a user, or by the garbage collector once the owner is gone.
RemoveSecret(n) ==
    /\ secrets[n] # Absent
    /\ secrets' = [secrets EXCEPT ![n] = Absent]
    /\ UNCHANGED <<accounts, provided, migrated>>

\* A secret that a ref names comes, goes, or gets another key.
ProvideKey ==
    /\ \E p \in Provided : provided' = p
    /\ UNCHANGED <<secrets, accounts, migrated>>

Environment ==
    \/ Fault /\ creds' = Absent /\ desired' = Nil /\ UNCHANGED minioVars
    \/ AddAccountFails /\ UNCHANGED desired
    \/ (\E r \in Resources : UserStep(r)) /\ UNCHANGED <<minioVars, creds, desired>>
    \/ /\ \/ \E k \in Keys : ExternalAdd(k) \/ ExternalChange(k) \/ ExternalRemove(k)
          \/ \E n \in SecretNames : RemoveSecret(n)
          \/ ProvideKey
       /\ UNCHANGED <<kubeVars, creds, desired>>

Next == Controller \/ Environment

Spec == Init /\ [][Next]_vars

\* As for buckets: the call in progress goes on, the watch delivers, and the
\* work queue brings every resource up again.
Fairness ==
    /\ WF_vars(Reconcile)
    /\ \A r \in Resources : /\ SF_vars(Start(r))
                            /\ WF_vars(Deliver(r) /\ UNCHANGED <<minioVars, creds, desired>>)

LiveSpec == Spec /\ Fairness

-----------------------------------------------------------------------------
(* Safety.                                                                 *)

\* Reconcile is only ever at a call its copy of the resource entitles it to
\* (module Kube), and has credentials whenever the call names an access key
\* or a resourceVersion: in every order of lost secrets, lost accounts,
\* conflicts and restarts it neither acts on nothing nor drops the finalizer
\* of a resource that records an account.
CallInv ==
    /\ KubeInv
    /\ Entitled(Making, Holding)
    /\ pc \in Either => obj.finalizer
    /\ pc \in {"deleteAccount", "createSecret", "updateSecret", "dropMigrate", "check",
               "resetAccount", "updateAccount", "regetSecret", "redropSecret", "unsetStatus",
               "setStatus"} \cup Making
       => creds # Absent

\* The controller implements module Lifecycle, with no name to a record (the
\* secret's name and the access key may be edited): a MinioAccessKey is held
\* before it records anything, records nothing once it is deleted, and goes
\* only when it records nothing.
keyRecord == [r \in Resources |-> IF Recorded(r) THEN {"account"} ELSE {}]
KeyLife == INSTANCE Lifecycle WITH record <- keyRecord, Names <- {"account"}
FollowsLifecycle == KeyLife!Spec

-----------------------------------------------------------------------------
(* Liveness, once users stop editing and calls stop failing.               *)

Quiet == <>[][Controller]_vars

\* The secret of a recorded resource, and an account it leads to, end up with
\* the credentials and the config of the spec: a rotation that stopped between
\* the secret and the account is finished, drift that shows is undone, and a
\* lost secret made again, unless a ref of the spec leads nowhere.  Three
\* things the code does not see to: an account that is lost stays lost, and the
\* secret key that an account had when it was migrated, or that somebody else
\* gave it since, stays until the account is written for another reason.
CredentialsConverge ==
    Quiet => <>[](\A r \in Resources :
                    LET o == store[r]
                        secret == secrets[o.spec.secretName]
                        account == accounts[secret.accessKey]
                    IN /\ Recorded(r) /\ ~o.deleting /\ secret # Absent
                       /\ ~AccessKeyMissing(o.spec) /\ ~SecretKeyMissing(o.spec)
                       => /\ GivenKey(o.spec) \in {Nil, secret.accessKey}
                          /\ o.spec.secretKeyRef => secret.secretKey = provided.secretKey
                          /\ account # Absent
                             => /\ account.config = o.spec.config
                                /\ \/ account.secretKey \in {secret.secretKey, Theirs}
                                   \/ secret.accessKey \in migrated)

Unrecorded(r) == store[r] # Absent /\ ~store[r].deleting /\ ~Recorded(r)

\* There are no credentials to make an account with: a ref leads nowhere, or a
\* resource is to migrate and does not give both keys.
Undetermined(spec) ==
    \/ AccessKeyMissing(spec) \/ SecretKeyMissing(spec)
    \/ spec.migrate /\ (GivenKey(spec) = Nil \/ ~spec.secretKeyRef)

\* A resource in use is recorded sooner or later, again and again, unless
\* there is a secret of its secret's name for good (the one that a call made
\* which then failed to record it is enough), an account of its access key
\* that it is not told to migrate, or nothing that determines its credentials.
CreationCompletesOrBlocked ==
    Quiet => \A r \in Resources :
                \/ []<>~Unrecorded(r)
                \/ <>[](Unrecorded(r) /\ secrets[store[r].spec.secretName] # Absent)
                \/ <>[](/\ Unrecorded(r) /\ ~store[r].spec.migrate
                        /\ GivenKey(store[r].spec) # Nil
                        /\ accounts[GivenKey(store[r].spec)] # Absent)
                \/ <>[](Unrecorded(r) /\ Undetermined(store[r].spec))

\* A deleted resource goes away, with its secret or without.
DeletionCompletes ==
    Quiet => <>[](\A r \in Resources : store[r] = Absent \/ ~store[r].deleting)
=============================================================================
