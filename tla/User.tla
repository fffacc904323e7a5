-------------------------------- MODULE User --------------------------------
(***************************************************************************)
(* minioUserReconciler: one action per remote call of Reconcile, over the  *)
(* Kubernetes side of module Kube and MinIO's identities of module Iam.    *)
(*                                                                         *)
(* The secrets a spec refers to are read past the cache.  Their            *)
(* resourceVersion is modelled, for the status remembers it: it is the     *)
(* number of the write, as the API server counts them.  The status always  *)
(* has the resolved access key, whatever way the spec gave it, so a        *)
(* recorded user is found without a secret.                                *)
(***************************************************************************)
EXTENDS Kube, Iam

CONSTANTS
    SecretNames,   \* the secrets a spec can refer to
    SecretData,    \* what users put into them
    MaxRevision    \* bound: how often secrets are written

VARIABLES
    secrets,     \* the secrets users keep in Kubernetes
    revision,    \* the number of writes of secrets
    accessKey,   \* the call's resolved access key
    us,          \* the call's copy of the secret of the secret key
    others,      \* history: the users somebody else made or changed last
    late         \* history: those of them since the call's GetUserInfo

localVars == <<accessKey, us>>
historyVars == <<others, late>>
vars == <<kubeVars, iamVars, secrets, revision, localVars, historyVars>>

Secret == [data: SecretData, version: Nat]

UserSpec == [accessKey: Users \cup {Nil}, accessKeyRef: SecretNames \cup {Nil},
             secretKeyRef: SecretNames, migrate: BOOLEAN]

\* The recorded spec, as far as it is read again, and the version of the
\* secret that was last used.
Current == [name: Users, secretKeyRef: SecretNames, version: 1..MaxRevision]

ASSUME UserAssumption ==
    /\ Specs \subseteq UserSpec
    /\ \A s \in Specs, u \in Users :
          /\ [s EXCEPT !.migrate = FALSE] \in Specs
          /\ [s EXCEPT !.accessKey = u, !.migrate = FALSE] \in Specs
    /\ Currents = Current
    \* What is under the keys that refs name; either may be missing.
    /\ SecretData \subseteq [accessKey: Users \cup {Nil}, secretKey: SecretKeys \cup {Nil}]
    /\ MaxRevision \in Nat
    /\ Nil \notin Users \cup SecretKeys \cup SecretNames
    /\ Absent \notin Secret

\* The calls on the way to a recorded user, and those on a recorded one.
Making == {"create", "lookup", "getSecret", "add", "setStatus"}
Holding == {"remove", "clearStatus", "dropMigrate", "check", "compare", "rotate", "setVersion"}

TypeOK ==
    /\ KubeTypeOK
    /\ IamTypeOK
    /\ pc \in {"idle", "addFinalizer", "clearFinalizer"} \cup Making \cup Holding
    /\ secrets \in [SecretNames -> Secret \cup {Absent}]
    /\ revision \in 0..MaxRevision
    /\ \A n \in SecretNames : secrets[n] # Absent => secrets[n].version \in 1..revision
    /\ accessKey \in Users \cup {Nil}
    /\ us \in Secret \cup {Absent}
    /\ others \subseteq Users
    /\ late \subseteq others

\* MinIO may have users before the operator is installed; no secret is there.
Init ==
    /\ KubeInit
    /\ policies = [n \in PolicyNames |-> NoEntry]
    /\ users \in [Users -> SecretKeys \cup {NoEntry}]
    /\ groups = [g \in Groups |-> NoEntry]
    /\ attached = {}
    /\ secrets = [n \in SecretNames |-> Absent]
    /\ revision = 0
    /\ accessKey = Nil
    /\ us = Absent
    /\ others = {u \in Users : HasUser(u)}
    /\ late = {}

-----------------------------------------------------------------------------
(* Reconcile.                                                              *)

\* Reconcile returns, and what it had read is gone.
End == Return /\ accessKey' = Nil /\ us' = Absent /\ late' = {}
GoOn(next) == Proceed(next) /\ UNCHANGED localVars

\* An update forgets what was read, too, for it is the call's last one.
Finish(o) == Update(o, "idle") /\ accessKey' = Nil /\ us' = Absent

Start(r) == Begin(r) /\ UNCHANGED <<iamVars, secrets, revision, localVars, historyVars>>

\* Mutant: a user that is gone is an error.
RemoveUserOnce ==
    /\ pc = "remove"
    /\ LET u == obj.currentSpec.name
       IN IF ~HasUser(u) THEN End /\ UNCHANGED <<iamVars, others>>
          ELSE /\ DropUser(u)
               /\ others' = others \ {u}
               /\ GoOn("clearStatus")
               /\ UNCHANGED late
    /\ UNCHANGED <<store, lag, secrets, revision>>

\* RemoveUser; a user that is gone is no error.
RemoveUser ==
    /\ pc = "remove"
    /\ LET u == obj.currentSpec.name
       IN /\ IF HasUser(u) THEN DropUser(u) ELSE UNCHANGED iamVars
          /\ others' = others \ {u}
    /\ GoOn("clearStatus")
    /\ UNCHANGED <<store, lag, secrets, revision, late>>

\* GetUserInfo of the recorded user.
CheckUser ==
    /\ pc = "check"
    /\ GoOn(IF HasUser(obj.currentSpec.name) THEN "compare" ELSE "clearStatus")
    /\ UNCHANGED <<store, lag, iamVars, secrets, revision, historyVars>>

\* The secret is got again, and its resourceVersion compared with the
\* recorded one.
CompareSecret ==
    /\ pc = "compare"
    /\ LET s == secrets[obj.currentSpec.secretKeyRef]
       IN IF s = Absent THEN End
          ELSE IF s.version = obj.currentSpec.version THEN End
          ELSE us' = s /\ Proceed("rotate") /\ UNCHANGED <<accessKey, late>>
    /\ UNCHANGED <<store, lag, iamVars, secrets, revision, others>>

\* AddUser with a missing secret key is refused.
Add(u, next) ==
    /\ IF us.data.secretKey = Nil THEN End /\ UNCHANGED <<iamVars, others>>
       ELSE /\ AddUser(u, us.data.secretKey)
            /\ others' = others \ {u} /\ late' = {}
            /\ GoOn(next)
    /\ UNCHANGED <<store, lag, secrets, revision>>

RotateKey == pc = "rotate" /\ Add(obj.currentSpec.name, "setVersion")

\* Mutant: the resourceVersion is that of the secret by now.
SetLatestVersion ==
    /\ pc = "setVersion"
    /\ LET s == secrets[obj.currentSpec.secretKeyRef]
       IN Finish([obj EXCEPT !.currentSpec.version = IF s = Absent THEN @ ELSE s.version])
    /\ UNCHANGED <<iamVars, secrets, revision, historyVars>>

SetVersion ==
    /\ pc = "setVersion"
    /\ Finish([obj EXCEPT !.currentSpec.version = us.version])
    /\ UNCHANGED <<iamVars, secrets, revision, historyVars>>

\* The access key the spec gives, or the secret it refers to: Nil when there is
\* neither, or no such secret, or nothing in it.
getAccessKey(s) ==
    IF s.accessKey # Nil THEN s.accessKey
    ELSE IF s.accessKeyRef = Nil THEN Nil
    ELSE IF secrets[s.accessKeyRef] = Absent THEN Nil
    ELSE secrets[s.accessKeyRef].data.accessKey

ResolveAccessKey ==
    /\ pc = "create"
    /\ LET key == getAccessKey(obj.spec)
       IN IF key = Nil THEN End
          ELSE accessKey' = key /\ Proceed("lookup") /\ UNCHANGED <<us, late>>
    /\ UNCHANGED <<store, lag, iamVars, secrets, revision, others>>

\* Mutant: an existing user is taken over, migrate or not.
LookupAnyUser ==
    /\ pc = "lookup"
    /\ GoOn("getSecret")
    /\ UNCHANGED <<store, lag, iamVars, secrets, revision, historyVars>>

\* GetUserInfo of the user to be made.
LookupUser ==
    /\ pc = "lookup"
    /\ IF HasUser(accessKey) /\ ~obj.spec.migrate THEN End
       ELSE GoOn("getSecret") /\ UNCHANGED late
    /\ UNCHANGED <<store, lag, iamVars, secrets, revision, others>>

GetSecret ==
    /\ pc = "getSecret"
    /\ LET s == secrets[obj.spec.secretKeyRef]
       IN IF s = Absent THEN End
          ELSE us' = s /\ Proceed("add") /\ UNCHANGED <<accessKey, late>>
    /\ UNCHANGED <<store, lag, iamVars, secrets, revision, others>>

MakeUser == pc = "add" /\ Add(accessKey, "setStatus")

\* Mutant: the access key is recorded as the spec gives it.
SetStatusUnresolved ==
    /\ pc = "setStatus"
    /\ Finish([obj EXCEPT
                 !.spec.migrate = FALSE,
                 !.currentSpec = [name |-> obj.spec.accessKey,
                                  secretKeyRef |-> obj.spec.secretKeyRef,
                                  version |-> us.version]])
    /\ UNCHANGED <<iamVars, secrets, revision, historyVars>>

\* The spec is recorded with the access key filled in.
SetUserStatus ==
    /\ pc = "setStatus"
    /\ Finish([obj EXCEPT
                 !.spec.accessKey = accessKey,
                 !.spec.migrate = FALSE,
                 !.currentSpec = [name |-> accessKey, secretKeyRef |-> obj.spec.secretKeyRef,
                                  version |-> us.version]])
    /\ UNCHANGED <<iamVars, secrets, revision, historyVars>>

KubeOnly == UNCHANGED <<iamVars, secrets, revision, localVars, historyVars>>

Reconcile ==
    \/ (AddFinalizer \/ ClearFinalizer \/ ClearStatus \/ DropMigrate) /\ KubeOnly
    \/ RemoveUser
    \/ CheckUser \/ CompareSecret \/ RotateKey \/ SetVersion
    \/ ResolveAccessKey \/ LookupUser \/ GetSecret \/ MakeUser \/ SetUserStatus

Watch(r) == Deliver(r) /\ KubeOnly

Controller ==
    \/ Reconcile
    \/ \E r \in Resources : Start(r)
    \/ \E r \in Resources : Watch(r)

-----------------------------------------------------------------------------
(* The environment: users of the resources, of the secrets and of MinIO.   *)

WriteSecret(n) ==
    /\ revision < MaxRevision
    /\ revision' = revision + 1
    /\ \E d \in SecretData :
           secrets' = [secrets EXCEPT ![n] = [data |-> d, version |-> revision + 1]]
    /\ UNCHANGED <<kubeVars, iamVars, localVars, historyVars>>

DeleteSecret(n) ==
    /\ secrets[n] # Absent
    /\ secrets' = [secrets EXCEPT ![n] = Absent]
    /\ UNCHANGED <<kubeVars, iamVars, revision, localVars, historyVars>>

ExternalUser(u) ==
    /\ \/ /\ \E k \in SecretKeys : users[u] # k /\ AddUser(u, k)
          /\ others' = others \cup {u}
          /\ late' = IF pc \in {"getSecret", "add"} THEN late \cup {u} ELSE late
       \/ /\ HasUser(u) /\ DropUser(u)
          /\ others' = others \ {u} /\ late' = late \ {u}
    /\ UNCHANGED <<kubeVars, secrets, revision, localVars>>

FaultStep ==
    /\ Fault
    /\ End
    /\ UNCHANGED <<iamVars, secrets, revision, others>>

Environment ==
    \/ FaultStep
    \/ (\E r \in Resources : UserStep(r)) /\ KubeOnly
    \/ \E n \in SecretNames : WriteSecret(n) \/ DeleteSecret(n)
    \/ \E u \in Users : ExternalUser(u)

Next == Controller \/ Environment

Spec == Init /\ [][Next]_vars

\* As for buckets: the call in progress goes on, the watch delivers, and the
\* work queue brings every resource up again.
Fairness ==
    /\ WF_vars(Reconcile)
    /\ \A r \in Resources : SF_vars(Start(r)) /\ WF_vars(Watch(r))

LiveSpec == Spec /\ Fairness

-----------------------------------------------------------------------------
(* Safety.                                                                 *)

\* Reconcile is only ever at a call its copy of the resource entitles it to
\* (module Kube), and adds a user only with its access key and secret in hand.
CallInv ==
    /\ KubeInv
    /\ Entitled(Making, Holding)
    /\ pc \in Making \ {"create"} => accessKey # Nil
    /\ pc \in {"add", "setStatus", "rotate", "setVersion"} => us # Absent

\* The controller implements module Lifecycle: a MinioUser is held before it
\* records a user, keeps the recorded access key (README, Limitations:
\* spec changes are ignored) and goes only when it records none.
FollowsLifecycle == Life!Spec

\* The rotation misses no change: a recorded user whose record has the
\* secret's current resourceVersion has the secret key of that version, unless
\* somebody else changed it in MinIO, however often calls were interrupted or
\* ran on an old copy of the resource and whenever the secret was written.
KeyFollowsSecret ==
    \A r \in Resources :
        Recorded(r)
        => LET c == store[r].currentSpec
               s == secrets[c.secretKeyRef]
           IN s # Absent /\ s.version = c.version /\ HasUser(c.name) /\ c.name \notin others
              => users[c.name] = s.data.secretKey

\* The call that creates the user of a resource that is not told to migrate
\* overwrites none but one that appeared after the call asked whether there was
\* one.  (A rotation overwrites the recorded user: that is what it is for.)
OverwritesOnlyLate ==
    [][pc = "add" /\ ~obj.spec.migrate /\ users' # users /\ pc' = "setStatus"
         => ~HasUser(accessKey) \/ accessKey \in late]_vars

-----------------------------------------------------------------------------
(* Liveness, once users stop editing and calls stop failing.               *)

Quiet == <>[][Controller]_vars

\* Why a user is not made: its access key or its secret key is nowhere to be
\* found, or there is such a user and the resource is not told to migrate it.
Blocked(s) ==
    \/ getAccessKey(s) = Nil
    \/ HasUser(getAccessKey(s)) /\ ~s.migrate
    \/ secrets[s.secretKeyRef] = Absent
    \/ secrets[s.secretKeyRef].data.secretKey = Nil

\* Every deleted resource goes away, secrets or not.  Every other one ends up
\* blocked, or with its user in MinIO and the latest version of its secret,
\* if there is one, recorded.  A secret key that somebody else changed in MinIO
\* does not show and is not restored.
UserConverges ==
    Quiet => <>[](\A r \in Resources :
                    store[r] # Absent
                    => /\ ~store[r].deleting
                       /\ \/ ~Recorded(r) /\ Blocked(store[r].spec)
                          \/ /\ Recorded(r)
                             /\ HasUser(store[r].currentSpec.name)
                             /\ LET s == secrets[store[r].currentSpec.secretKeyRef]
                                IN \/ s = Absent \/ s.data.secretKey = Nil
                                   \/ s.version = store[r].currentSpec.version)
=============================================================================
