----------------------------- MODULE UserProofs -----------------------------
(***************************************************************************)
(* Proofs about the user reconciler, for any resources, secrets, users and *)
(* cache lag.                                                              *)
(***************************************************************************)
EXTENDS User, KubeProofs

\* What others have: identities in MinIO, secrets in Kubernetes.
OthersOK ==
    /\ IamTypeOK
    /\ secrets \in [SecretNames -> Secret \cup {Absent}]
    /\ revision \in 0..MaxRevision
    /\ \A n \in SecretNames : secrets[n] # Absent => secrets[n].version \in 1..revision
    /\ others \subseteq Users

\* What the call has.  A secret it holds was written, so its version may be
\* recorded; somebody else is noticed only between GetUserInfo and AddUser.
LocalsOK ==
    /\ accessKey \in Users \cup {Nil}
    /\ us \in Secret \cup {Absent}
    /\ us # Absent => us.version \in 1..revision
    /\ late \subseteq others
    /\ late # {} => pc \in {"getSecret", "add"}
    /\ pc \in Making \ {"create"} => accessKey # Nil
    /\ pc \in {"add", "setStatus", "rotate", "setVersion"} => us # Absent

CallNames == {"idle", "addFinalizer", "clearFinalizer"} \cup Making \cup Holding

\* TypeOK and CallInv with what LocalsOK adds.
Inv == CallOK(Making, Holding) /\ pc \in CallNames /\ OthersOK /\ LocalsOK

\* Every step keeps the invariant and is a step of Lifecycle, or shows nothing
\* there.
Safe == Inv' /\ Kept

\* The sets of calls are as the lemmas of KubeProofs expect.
LEMMA Calls == Partition(Making, Holding)
BY DEF Making, Holding, Partition

\* Secrets are written a bounded number of times.
LEMMA Revisions == MaxRevision \in Nat
BY UserAssumption

\* The invariant implies what the runs check.
LEMMA InvImplies == Inv => TypeOK /\ CallInv
BY DEF Inv, TypeOK, CallInv, CallOK, OthersOK, LocalsOK, CallNames

\* What a call finds in its copy.
LEMMA Copy ==
    ASSUME Inv
    PROVE  /\ pc \in Making \cup Holding => obj \in Object /\ obj.spec \in Specs /\ obj.spec \in UserSpec
           /\ pc \in Holding => obj.currentSpec \in Current /\ obj.currentSpec.name \in Users
                                /\ obj.currentSpec.secretKeyRef \in SecretNames
           /\ \A s \in UserSpec : s.secretKeyRef \in SecretNames
<1>1. \A s \in UserSpec : s.secretKeyRef \in SecretNames
  BY DEF UserSpec
<1>2. \A c \in Current : c.name \in Users /\ c.secretKeyRef \in SecretNames
  BY DEF Current
<1>3. QED BY <1>1, <1>2, Calls, CallCopy, UserAssumption DEF Inv

\* Making and removing a user keeps the type of MinIO's identities.
LEMMA UserType ==
    ASSUME IamTypeOK, NEW u \in Users, DropUser(u) \/ \E k \in SecretKeys : AddUser(u, k)
    PROVE  IamTypeOK'
<1>1. CASE DropUser(u)
  <2>1. \A g \in Groups : HasGroup(g) => groups[g] \ {u} \in SUBSET Users
    BY DEF HasGroup, IamTypeOK
  <2>2. groups' \in [Groups -> {NoEntry} \cup SUBSET Users]
    BY <1>1, <2>1 DEF DropUser
  <2>3. QED BY <1>1, <2>2 DEF DropUser, IamTypeOK
<1>2. CASE \E k \in SecretKeys : AddUser(u, k)
  BY <1>2 DEF AddUser, IamTypeOK
<1>3. QED BY <1>1, <1>2

\* Nothing of what others have changes.
LEMMA OthersSame ==
    ASSUME OthersOK, UNCHANGED <<iamVars, secrets, revision, others>> PROVE OthersOK'
BY DEF OthersOK, IamTypeOK, iamVars

\* MinIO starts with whatever users others have made.
LEMMA InitInv == Init => Inv
<1> SUFFICES ASSUME Init PROVE Inv
  OBVIOUS
<1>1. CallOK(Making, Holding)
  BY Calls, InitialCall DEF Init
<1>2. OthersOK
  <2>1. IamTypeOK
    BY DEF Init, IamTypeOK
  <2>2. revision \in 0..MaxRevision
    BY Revisions DEF Init
  <2>3. QED BY <2>1, <2>2 DEF Init, OthersOK
<1>3. pc = "idle" /\ LocalsOK
  BY DEF Init, KubeInit, LocalsOK, Making
<1>4. QED BY <1>1, <1>2, <1>3 DEF Inv, CallNames

\* Reconcile returns.
LEMMA Ends == ASSUME Inv, End, UNCHANGED <<store, lag>>, OthersOK' PROVE Safe
<1>1. CallOK(Making, Holding)' /\ Kept
  BY Calls, ReturnStep DEF End, Inv
<1>2. pc' = "idle" /\ LocalsOK'
  BY DEF End, Return, LocalsOK, Making
<1>3. QED BY <1>1, <1>2 DEF Safe, Inv, CallNames

\* Reconcile goes on, making a user or tending one.
LEMMA GoesOn ==
    ASSUME Inv, NEW next, Proceed(next), UNCHANGED <<store, lag>>, OthersOK', LocalsOK',
           \/ pc \in Making /\ next \in Making
           \/ pc \in Holding /\ next \in Holding
    PROVE  Safe
<1>1. CallOK(Making, Holding)' /\ Kept
  BY Calls, ProceedStep DEF Inv
<1>2. QED BY <1>1 DEF Proceed, Safe, Inv, CallNames

-----------------------------------------------------------------------------
(* The steps.                                                              *)

\* A secret read by the call is one that was written.
LEMMA SecretRead ==
    ASSUME Inv, NEW n \in SecretNames, secrets[n] # Absent
    PROVE  secrets[n] \in Secret /\ secrets[n].version \in 1..revision
BY DEF Inv, OthersOK

\* Removing the recorded user leaves the record in place until it is cleared.
LEMMA RemoveUserStep == ASSUME Inv, RemoveUser PROVE Safe
<1>1. pc = "remove" /\ pc \in Holding /\ "clearStatus" \in Holding /\ late = {}
  BY DEF RemoveUser, Holding, Inv, LocalsOK
<1>2. obj.currentSpec.name \in Users
  BY <1>1, Copy
<1>3. IamTypeOK'
  BY <1>2, UserType DEF RemoveUser, Inv, OthersOK, IamTypeOK, iamVars
<1>4. OthersOK'
  BY <1>3 DEF RemoveUser, Inv, OthersOK
<1>5. LocalsOK'
  BY <1>1 DEF RemoveUser, GoOn, Proceed, localVars, Inv, LocalsOK, Making
<1>6. QED BY <1>1, <1>4, <1>5, GoesOn DEF RemoveUser, GoOn

\* Asking for the recorded user changes nothing.
LEMMA CheckUserStep == ASSUME Inv, CheckUser PROVE Safe
<1>1. pc = "check" /\ pc \in Holding /\ {"compare", "clearStatus"} \subseteq Holding
  BY DEF CheckUser, Holding
<1>2. OthersOK'
  BY OthersSame DEF CheckUser, historyVars, Inv
<1>3. PICK next \in {"compare", "clearStatus"} : GoOn(next)
  BY DEF CheckUser
<1>4. LocalsOK'
  BY <1>1, <1>3 DEF CheckUser, GoOn, Proceed, localVars, historyVars, Inv, LocalsOK, Making
<1>5. QED BY <1>1, <1>2, <1>3, <1>4, GoesOn DEF CheckUser, GoOn

\* Neither does a look at its secret.
LEMMA CompareSecretStep == ASSUME Inv, CompareSecret PROVE Safe
<1> DEFINE s == secrets[obj.currentSpec.secretKeyRef]
<1>1. pc = "compare" /\ pc \in Holding /\ "rotate" \in Holding
  BY DEF CompareSecret, Holding
<1>2. OthersOK'
  BY OthersSame DEF CompareSecret, Inv
<1>3. CASE End
  BY <1>2, <1>3, Ends DEF CompareSecret
<1>4. CASE s # Absent /\ us' = s /\ Proceed("rotate") /\ UNCHANGED <<accessKey, late>>
  <2>1. s \in Secret /\ s.version \in 1..revision
    BY <1>1, <1>4, Copy, SecretRead
  <2>2. LocalsOK'
    BY <1>1, <1>4, <2>1 DEF CompareSecret, Proceed, Inv, LocalsOK, Making
  <2>3. QED BY <1>1, <1>2, <1>4, <2>2, GoesOn DEF CompareSecret
<1>5. QED BY <1>3, <1>4 DEF CompareSecret

\* AddUser with the secret in hand, for a user that is recorded or soon will be.
LEMMA AddStep ==
    ASSUME Inv, NEW u \in Users, NEW next, Add(u, next), us # Absent,
           \/ pc \in Making /\ pc # "create" /\ next = "setStatus"
           \/ pc \in Holding /\ next = "setVersion"
    PROVE  Safe
<1>0. us \in Secret /\ us.data \in SecretData
  BY DEF Inv, LocalsOK, Secret
<1>1. CASE us.data.secretKey = Nil
  <2>1. OthersOK'
    BY <1>1, OthersSame DEF Add, Inv
  <2>2. QED BY <1>1, <2>1, Ends DEF Add
<1>2. CASE us.data.secretKey # Nil
  <2>1. us.data.secretKey \in SecretKeys
    BY <1>0, <1>2, UserAssumption
  <2>2. IamTypeOK'
    BY <1>2, <2>1, UserType DEF Add, Inv, OthersOK
  <2>3. OthersOK'
    BY <1>2, <2>2 DEF Add, Inv, OthersOK
  <2>4. LocalsOK'
    BY <1>2 DEF Add, GoOn, Proceed, localVars, Inv, LocalsOK, Making
  <2>5. \/ pc \in Making /\ next \in Making
        \/ pc \in Holding /\ next \in Holding
    BY DEF Making, Holding
  <2>6. QED BY <1>2, <2>3, <2>4, <2>5, GoesOn DEF Add, GoOn
<1>3. QED BY <1>1, <1>2

\* A rotated key is that of a recorded user.
LEMMA RotateKeyStep == ASSUME Inv, RotateKey PROVE Safe
<1>1. pc = "rotate" /\ pc \in Holding /\ us # Absent
  BY DEF RotateKey, Holding, Inv, LocalsOK
<1>2. QED BY <1>1, Copy, AddStep DEF RotateKey

\* A new user has the resolved access key.
LEMMA MakeUserStep == ASSUME Inv, MakeUser PROVE Safe
<1>1. pc = "add" /\ pc \in Making /\ us # Absent /\ accessKey \in Users
  BY DEF MakeUser, Making, Inv, LocalsOK
<1>2. QED BY <1>1, AddStep DEF MakeUser

\* Resolving the access key changes nothing.
LEMMA ResolveAccessKeyStep == ASSUME Inv, ResolveAccessKey PROVE Safe
<1> DEFINE key == getAccessKey(obj.spec)
<1>1. pc = "create" /\ pc \in Making /\ "lookup" \in Making
  BY DEF ResolveAccessKey, Making
<1>2. OthersOK'
  BY OthersSame DEF ResolveAccessKey, Inv
<1>3. CASE End
  BY <1>2, <1>3, Ends DEF ResolveAccessKey
<1>4. CASE key # Nil /\ accessKey' = key /\ Proceed("lookup") /\ UNCHANGED <<us, late>>
  <2>1. obj.spec.accessKey \in Users \cup {Nil} /\ obj.spec.accessKeyRef \in SecretNames \cup {Nil}
    BY <1>1, Copy DEF UserSpec
  <2>2. \A n \in SecretNames : secrets[n] # Absent => secrets[n].data.accessKey \in Users \cup {Nil}
    BY SecretRead, UserAssumption DEF Secret
  <2>3. key \in Users \cup {Nil}
    BY <2>1, <2>2 DEF getAccessKey
  <2>4. LocalsOK'
    BY <1>1, <1>4, <2>3 DEF ResolveAccessKey, Proceed, Inv, LocalsOK, Making
  <2>5. QED BY <1>1, <1>2, <1>4, <2>4, GoesOn DEF ResolveAccessKey
<1>5. QED BY <1>3, <1>4 DEF ResolveAccessKey

\* Nor does asking whether there is such a user.
LEMMA LookupUserStep == ASSUME Inv, LookupUser PROVE Safe
<1>1. pc = "lookup" /\ pc \in Making /\ "getSecret" \in Making
  BY DEF LookupUser, Making
<1>2. OthersOK'
  BY OthersSame DEF LookupUser, Inv
<1>3. CASE End
  BY <1>2, <1>3, Ends DEF LookupUser
<1>4. CASE GoOn("getSecret") /\ UNCHANGED late
  <2>1. LocalsOK'
    BY <1>1, <1>4 DEF LookupUser, GoOn, Proceed, localVars, Inv, LocalsOK, Making
  <2>2. QED BY <1>1, <1>2, <1>4, <2>1, GoesOn DEF LookupUser, GoOn
<1>5. QED BY <1>3, <1>4 DEF LookupUser

\* Nor does getting the secret.
LEMMA GetSecretStep == ASSUME Inv, GetSecret PROVE Safe
<1> DEFINE s == secrets[obj.spec.secretKeyRef]
<1>1. pc = "getSecret" /\ pc \in Making /\ "add" \in Making
  BY DEF GetSecret, Making
<1>2. OthersOK'
  BY OthersSame DEF GetSecret, Inv
<1>3. CASE End
  BY <1>2, <1>3, Ends DEF GetSecret
<1>4. CASE s # Absent /\ us' = s /\ Proceed("add") /\ UNCHANGED <<accessKey, late>>
  <2>1. s \in Secret /\ s.version \in 1..revision
    BY <1>1, <1>4, Copy, SecretRead
  <2>2. LocalsOK'
    BY <1>1, <1>4, <2>1 DEF GetSecret, Proceed, Inv, LocalsOK, Making
  <2>3. QED BY <1>1, <1>2, <1>4, <2>2, GoesOn DEF GetSecret
<1>5. QED BY <1>3, <1>4 DEF GetSecret

\* A secret in hand has a version that can be recorded.
LEMMA UsedVersion == ASSUME Inv, us # Absent PROVE us.version \in 1..MaxRevision
<1>1. us.version \in 1..revision /\ revision \in 0..MaxRevision
  BY DEF Inv, LocalsOK, OthersOK
<1>2. QED BY <1>1, Revisions

\* The status is updated with the version of the secret that was used.
LEMMA SetVersionStep == ASSUME Inv, SetVersion PROVE Safe
<1> DEFINE c == [obj.currentSpec EXCEPT !.version = us.version]
           o == [obj EXCEPT !.currentSpec = c]
<1>1. pc = "setVersion" /\ pc \in Holding /\ late = {} /\ us.version \in 1..MaxRevision
  BY UsedVersion DEF SetVersion, Holding, Inv, LocalsOK
<1>2. c \in Current /\ c.name = obj.currentSpec.name
  BY <1>1, Copy DEF Current
<1>3. c \in Currents /\ c # Nil
  BY <1>2, KubeAssumption, UserAssumption
<1>4. Update(o, "idle") /\ accessKey' = Nil /\ us' = Absent
  BY DEF SetVersion, Finish
<1>5. /\ o \in Object /\ o.finalizer = obj.finalizer /\ o.deleting = obj.deleting
      /\ o.currentSpec = c
  BY <1>1, <1>3, Copy DEF Object
<1> HIDE DEF o, c
<1>6. CallOK(Making, Holding)' /\ Kept /\ pc' = "idle"
  BY <1>1, <1>2, <1>3, <1>4, <1>5, Calls, RecordStep DEF Inv
<1>7. OthersOK'
  BY OthersSame DEF SetVersion, historyVars, Inv
<1>8. LocalsOK'
  BY <1>1, <1>4, <1>6 DEF SetVersion, historyVars, LocalsOK, Inv, Making
<1>9. QED BY <1>6, <1>7, <1>8 DEF Safe, Inv, CallNames

\* The new user is recorded under its access key.
LEMMA SetUserStatusStep == ASSUME Inv, SetUserStatus PROVE Safe
<1> DEFINE s == [obj.spec EXCEPT !.accessKey = accessKey, !.migrate = FALSE]
           c == [name |-> accessKey, secretKeyRef |-> obj.spec.secretKeyRef,
                 version |-> us.version]
           o == [obj EXCEPT !.spec = s, !.currentSpec = c]
<1>1. /\ pc = "setStatus" /\ pc \in Making /\ late = {} /\ us.version \in 1..MaxRevision
      /\ accessKey \in Users
  BY UsedVersion DEF SetUserStatus, Making, Inv, LocalsOK
<1>2. obj \in Object /\ obj.spec \in Specs /\ obj.spec.secretKeyRef \in SecretNames
  BY <1>1, Copy
<1>3. s \in Specs
  BY <1>1, <1>2, UserAssumption
<1>4. c \in Currents
  BY <1>1, <1>2, UserAssumption DEF Current
<1>5. Update(o, "idle") /\ accessKey' = Nil /\ us' = Absent
  BY DEF SetUserStatus, Finish
<1>6. /\ o \in Object /\ o.finalizer = obj.finalizer /\ o.deleting = obj.deleting
      /\ o.currentSpec = c
  BY <1>2, <1>3, <1>4 DEF Object
<1> HIDE DEF o, c, s
<1>7. CallOK(Making, Holding)' /\ Kept /\ pc' = "idle"
  BY <1>1, <1>4, <1>5, <1>6, Calls, NewRecordStep DEF Inv
<1>8. OthersOK'
  BY OthersSame DEF SetUserStatus, historyVars, Inv
<1>9. LocalsOK'
  BY <1>1, <1>5, <1>7 DEF SetUserStatus, historyVars, LocalsOK, Inv, Making
<1>10. QED BY <1>7, <1>8, <1>9 DEF Safe, Inv, CallNames

\* A step of the Kubernetes side alone is safe if the call it leaves is one
\* that needs neither access key nor secret.
LEMMA KubeOnlySafe ==
    ASSUME Inv, KubeOnly, CallOK(Making, Holding)', Kept, pc' \in CallNames,
           pc' = pc \/ (late = {} /\ pc' \notin {"lookup", "getSecret", "add", "setStatus",
                                                 "rotate", "setVersion"})
    PROVE  Safe
<1>1. OthersOK'
  BY OthersSame DEF KubeOnly, historyVars, Inv
<1>2. LocalsOK'
  BY DEF KubeOnly, localVars, historyVars, Inv, LocalsOK, Making
<1>3. QED BY <1>1, <1>2 DEF Safe, Inv

\* The updates that leave MinIO alone.
LEMMA BookkeepingSafe ==
    ASSUME Inv, AddFinalizer \/ ClearFinalizer \/ ClearStatus \/ DropMigrate, KubeOnly
    PROVE  Safe
<1>1. late = {}
  BY DEF AddFinalizer, ClearFinalizer, ClearStatus, DropMigrate, Inv, LocalsOK
<1>2. CallOK(Making, Holding)' /\ Kept /\ pc' \in {"idle", "check"}
  <2>1. CASE AddFinalizer
    BY <2>1, Calls, AddFinalizerStep DEF Inv
  <2>2. CASE ClearFinalizer
    BY <2>2, Calls, ClearFinalizerStep DEF Inv
  <2>3. CASE ClearStatus
    BY <2>3, Calls, ClearStatusStep DEF Inv
  <2>4. CASE DropMigrate
    <3>1. pc \in Holding
      BY <2>4 DEF DropMigrate, Holding
    <3>2. \A s \in Specs : [s EXCEPT !.migrate = FALSE] \in Specs
      BY <3>1, Copy, UserAssumption
    <3>3. QED BY <2>4, <3>2, Calls, DropMigrateStep DEF Inv
  <2>5. QED BY <2>1, <2>2, <2>3, <2>4
<1>3. QED BY <1>1, <1>2, KubeOnlySafe DEF CallNames, Holding

\* Every step of the controller is safe.
LEMMA ControllerStep == ASSUME Inv, Controller PROVE Safe
<1>1. ASSUME NEW r \in Resources, Start(r) PROVE Safe
  <2>1. KubeOnly /\ Begin(r) /\ late = {}
    BY <1>1 DEF Start, KubeOnly, Begin, Get, Inv, LocalsOK
  <2>2. CallOK(Making, Holding)' /\ Kept
    BY <2>1, Calls, BeginStep DEF Inv
  <2>3. pc' \in {"addFinalizer", "clearFinalizer", "create", "remove", "dropMigrate", "check"}
    BY <2>1 DEF Begin, Branch
  <2>4. QED BY <2>1, <2>2, <2>3, KubeOnlySafe DEF CallNames, Making, Holding
<1>2. ASSUME NEW r \in Resources, Watch(r) PROVE Safe
  <2>1. CallOK(Making, Holding)' /\ Kept /\ pc' = pc
    BY <1>2, DeliverStep DEF Watch, Deliver, callVars, Inv
  <2>2. QED BY <1>2, <2>1, KubeOnlySafe DEF Watch, Inv
<1>3. QED BY <1>1, <1>2, BookkeepingSafe, RemoveUserStep, CheckUserStep, CompareSecretStep,
             RotateKeyStep, SetVersionStep, ResolveAccessKeyStep, LookupUserStep,
             GetSecretStep, MakeUserStep, SetUserStatusStep
          DEF Controller, Reconcile

\* What others write into secrets and MinIO touches neither resources nor call.
LEMMA ElsewhereSafe ==
    ASSUME Inv, UNCHANGED <<kubeVars, localVars>>, OthersOK', revision' \in {revision, revision + 1},
           late' \subseteq others', late' # {} => late # {} \/ pc \in {"getSecret", "add"}
    PROVE  Safe
<1>1. CallOK(Making, Holding)' /\ Kept
  BY ElsewhereStep DEF Inv
<1>2. 1..revision \subseteq 1..revision'
  BY DEF Inv, OthersOK
<1>3. LocalsOK'
  BY <1>2 DEF kubeVars, localVars, Inv, LocalsOK
<1>4. QED BY <1>1, <1>3 DEF kubeVars, Safe, Inv

\* A secret gets a version of its own.
LEMMA WriteSecretStep ==
    ASSUME Inv, NEW n \in SecretNames, WriteSecret(n) \/ DeleteSecret(n) PROVE Safe
<1>0. revision \in 0..MaxRevision /\ MaxRevision \in Nat
  BY Revisions DEF Inv, OthersOK
<1>1. IamTypeOK'
  BY DEF WriteSecret, DeleteSecret, iamVars, Inv, OthersOK, IamTypeOK
<1>2. CASE WriteSecret(n)
  <2>1. PICK d \in SecretData :
          secrets' = [secrets EXCEPT ![n] = [data |-> d, version |-> revision + 1]]
    BY <1>2 DEF WriteSecret
  <2>2. [data |-> d, version |-> revision + 1] \in Secret
    BY <1>0 DEF Secret
  <2>3. revision' = revision + 1 /\ revision' \in 0..MaxRevision
    BY <1>0, <1>2 DEF WriteSecret
  <2>4. OthersOK'
    BY <1>0, <1>1, <1>2, <2>1, <2>2, <2>3 DEF WriteSecret, historyVars, Inv, OthersOK
  <2>5. QED BY <1>2, <2>3, <2>4, ElsewhereSafe DEF WriteSecret, historyVars, Inv, LocalsOK
<1>3. CASE DeleteSecret(n)
  <2>1. OthersOK'
    BY <1>1, <1>3 DEF DeleteSecret, historyVars, Inv, OthersOK
  <2>2. QED BY <1>3, <2>1, ElsewhereSafe DEF DeleteSecret, historyVars, Inv, LocalsOK
<1>4. QED BY <1>2, <1>3

\* Somebody else makes, changes or removes a user.
LEMMA ExternalUserStep == ASSUME Inv, NEW u \in Users, ExternalUser(u) PROVE Safe
<1>1. IamTypeOK'
  BY UserType DEF ExternalUser, Inv, OthersOK
<1>2. OthersOK'
  BY <1>1 DEF ExternalUser, Inv, OthersOK
<1>3. late' \subseteq others' /\ (late' # {} => late # {} \/ pc \in {"getSecret", "add"})
  BY DEF ExternalUser, Inv, LocalsOK
<1>4. QED BY <1>2, <1>3, ElsewhereSafe DEF ExternalUser

\* Every step of the environment is safe.
LEMMA EnvironmentStep == ASSUME Inv, Environment PROVE Safe
<1>1. CASE FaultStep
  <2>1. OthersOK'
    BY <1>1, OthersSame DEF FaultStep, Inv
  <2>2. QED BY <1>1, <2>1, Ends DEF FaultStep, Fault
<1>2. ASSUME NEW r \in Resources, UserStep(r), KubeOnly PROVE Safe
  <2>1. CallOK(Making, Holding)' /\ Kept
    BY <1>2, UserStepStep DEF Inv
  <2>2. pc' = pc
    BY <1>2 DEF UserStep, CreateResource, EditSpec, DeleteResource, UserCommit
  <2>3. QED BY <1>2, <2>1, <2>2, KubeOnlySafe DEF Inv
<1>3. QED BY <1>1, <1>2, WriteSecretStep, ExternalUserStep DEF Environment

\* The invariant is inductive, and every step is safe.
LEMMA NextStep == ASSUME Inv, [Next]_vars PROVE Safe
<1>1. CASE Next
  BY <1>1, ControllerStep, EnvironmentStep DEF Next
<1>2. CASE UNCHANGED vars
  <2>1. OthersOK'
    BY <1>2, OthersSame DEF vars, historyVars, Inv
  <2>2. QED BY <1>2, <2>1, ElsewhereSafe DEF vars, historyVars, Inv, LocalsOK
<1>3. QED BY <1>1, <1>2

-----------------------------------------------------------------------------
(* The theorems of the call.                                               *)

\* The reconciler's state, the resources, the secrets and MinIO's identities
\* are always of the declared type: in particular every recorded user has an
\* access key, wherever the spec found it, and the version of a secret.
THEOREM TypeCorrect == Spec => []TypeOK
<1>1. Init => Inv
  BY InitInv
<1>2. Inv /\ [Next]_vars => Inv'
  BY NextStep DEF Safe
<1>3. Inv => TypeOK
  BY InvImplies
<1>4. QED BY <1>1, <1>2, <1>3, PTL DEF Spec

\* Whatever the cache showed it and wherever it is interrupted, Reconcile is
\* always at a call its copy of the MinioUser entitles it to, and has an
\* access key and a secret whenever it adds a user.
THEOREM CallsEntitled == Spec => []CallInv
<1>1. Init => Inv
  BY InitInv
<1>2. Inv /\ [Next]_vars => Inv'
  BY NextStep DEF Safe
<1>3. Inv => CallInv
  BY InvImplies
<1>4. QED BY <1>1, <1>2, <1>3, PTL DEF Spec

\* The controller of a MinioUser implements module Lifecycle: whatever the
\* cache showed and wherever calls are cut short, the resource is held before
\* it records a user, keeps the recorded access key, and goes only without a
\* record.
THEOREM Refinement == Spec => FollowsLifecycle
<1>1. Init => Inv /\ Life!Init
  BY InitInv, InitialLife DEF Init
<1>2. Inv /\ [Next]_vars => Inv' /\ [Life!Next]_(Life!lifeVars)
  BY NextStep DEF Safe, Kept
<1>3. QED BY <1>1, <1>2, PTL DEF Spec, FollowsLifecycle, Life!Spec

-----------------------------------------------------------------------------
(* Whose users are overwritten.                                            *)

\* A user that is there when the call is about to add it, and not told to
\* migrate it, came after the call asked for it.
Asked ==
    pc \in {"getSecret", "add"} /\ ~obj.spec.migrate /\ HasUser(accessKey) => accessKey \in late

\* Only a successful GetUserInfo leads there, and ExternalUser keeps count.
LEMMA AskedStep == ASSUME Inv, Asked, [Next]_vars PROVE Asked'
<1>1. CASE UNCHANGED <<pc, obj, accessKey, users, late>>
  BY <1>1 DEF Asked, HasUser
<1>2. CASE pc' \notin {"getSecret", "add"}
  BY <1>2 DEF Asked
<1>3. CASE LookupUser
  BY <1>3 DEF LookupUser, GoOn, Proceed, End, Return, localVars, iamVars, Asked, HasUser
<1>4. CASE GetSecret
  BY <1>4 DEF GetSecret, Proceed, End, Return, iamVars, Asked, HasUser
<1>5. ASSUME NEW u \in Users, ExternalUser(u) PROVE Asked'
  <2>1. UNCHANGED <<pc, obj, accessKey>>
    BY <1>5 DEF ExternalUser, kubeVars, localVars
  <2>2. users \in [Users -> SecretKeys \cup {NoEntry}]
    BY DEF Inv, OthersOK, IamTypeOK
  <2>3. CASE (\E k \in SecretKeys : AddUser(u, k)) /\ late' = IF pc \in {"getSecret", "add"} THEN late \cup {u} ELSE late
    BY <2>1, <2>2, <2>3 DEF AddUser, Asked, HasUser
  <2>4. CASE DropUser(u) /\ late' = late \ {u}
    BY <2>1, <2>2, <2>4 DEF DropUser, Asked, HasUser
  <2>5. QED BY <1>5, <2>3, <2>4 DEF ExternalUser
<1>6. ASSUME NEW r \in Resources, Start(r) PROVE pc' \notin {"getSecret", "add"}
  BY <1>6 DEF Start, Begin, Branch
<1>7. ASSUME NEW r \in Resources, Watch(r) \/ (UserStep(r) /\ KubeOnly)
      PROVE  UNCHANGED <<pc, obj, accessKey, users, late>>
  BY <1>7 DEF Watch, Deliver, callVars, UserStep, CreateResource, EditSpec, DeleteResource,
              UserCommit, KubeOnly, iamVars, localVars, historyVars
<1>8. ASSUME NEW n \in SecretNames, WriteSecret(n) \/ DeleteSecret(n)
      PROVE  UNCHANGED <<pc, obj, accessKey, users, late>>
  BY <1>8 DEF WriteSecret, DeleteSecret, kubeVars, iamVars, localVars, historyVars
<1>9. ASSUME AddFinalizer \/ ClearFinalizer \/ ClearStatus \/ DropMigrate \/ SetVersion \/ SetUserStatus
      PROVE  pc' \notin {"getSecret", "add"}
  <2>1. ASSUME NEW o, NEW next \in {"idle", "check"}, Update(o, next)
        PROVE  pc' \in {"idle", "check"}
    BY <2>1 DEF Update, UpdateAccepted, UpdateRejected, Return
  <2>2. QED BY <1>9, <2>1 DEF AddFinalizer, ClearFinalizer, ClearStatus, DropMigrate,
                              SetVersion, SetUserStatus, Finish
<1>10. ASSUME RemoveUser \/ CheckUser \/ CompareSecret \/ RotateKey \/ ResolveAccessKey
              \/ MakeUser \/ FaultStep
       PROVE  pc' \notin {"getSecret", "add"}
  BY <1>10 DEF RemoveUser, CheckUser, CompareSecret, RotateKey, ResolveAccessKey, MakeUser,
               Add, GoOn, Proceed, FaultStep, End, Return
<1>11. CASE UNCHANGED vars
  BY <1>1, <1>11 DEF vars, kubeVars, iamVars, localVars, historyVars
<1>12. CASE Controller
  BY <1>2, <1>3, <1>4, <1>1, <1>6, <1>7, <1>9, <1>10, <1>12 DEF Controller, Reconcile
<1>13. CASE Environment
  BY <1>1, <1>2, <1>5, <1>7, <1>8, <1>10, <1>13 DEF Environment
<1>14. QED BY <1>11, <1>12, <1>13 DEF Next

\* Whoever else makes users at whatever moment: the call that creates the user
\* of a resource that is not told to migrate overwrites one only if it appeared
\* between the call's GetUserInfo and its AddUser, the window the code leaves
\* open.
THEOREM OverwritesLate == Spec => OverwritesOnlyLate
<1>1. Init => Inv /\ Asked
  BY InitInv DEF Init, KubeInit, Asked
<1>2. Inv /\ Asked /\ [Next]_vars => (Inv /\ Asked)'
  BY NextStep, AskedStep DEF Safe
<1>3. Inv /\ Asked /\ [Next]_vars
      => [pc = "add" /\ ~obj.spec.migrate /\ users' # users /\ pc' = "setStatus"
            => ~HasUser(accessKey) \/ accessKey \in late]_vars
  BY DEF Asked
<1>4. QED BY <1>1, <1>2, <1>3, PTL DEF Spec, OverwritesOnlyLate

-----------------------------------------------------------------------------
(* Whether the key in MinIO is that of the secret.  A record is never      *)
(* newer than its secret, nor than the secret a call has in hand, so a     *)
(* call cannot bring back a key that was replaced; and whatever version of *)
(* a recorded resource the cache still shows, it names the same secret.    *)

\* The secret a version of the resource leads to, and the user a call adds.
Ref(o) == IF o.currentSpec = Nil THEN o.spec.secretKeyRef ELSE o.currentSpec.secretKeyRef
Target == IF pc \in Making THEN accessKey ELSE obj.currentSpec.name

InHand == {"add", "setStatus", "rotate", "setVersion"}

\* No call gives a user that another resource records the key of another
\* secret: two resources that disagree on one user overwrite each other.
Unshared ==
    pc \in {"add", "rotate"}
    => \A r \in Resources \ {req} :
          Recorded(r) /\ store[r].currentSpec.name = Target
          => store[r].currentSpec.secretKeyRef = Ref(obj)

SameSecret ==
    \A r \in Resources :
        Recorded(r)
        => /\ \A o \in Backlog(r) : o # Absent => Ref(o) = store[r].currentSpec.secretKeyRef
           /\ req = r => Ref(obj) = store[r].currentSpec.secretKeyRef

\* A call that is to make a user has written nothing yet.
NothingWritten == pc \in Making /\ fresh => lag[req] = <<>>

RecordsOld ==
    \A r \in Resources :
        Recorded(r)
        => LET c == store[r].currentSpec
               s == secrets[c.secretKeyRef]
           IN c.version <= revision /\ (s # Absent => c.version <= s.version)

SecretInHand ==
    pc \in InHand
    => LET s == secrets[Ref(obj)]
       IN /\ s # Absent => us.version <= s.version /\ (us.version = s.version => us = s)
          /\ \A r \in Resources :
                Recorded(r) /\ store[r].currentSpec.secretKeyRef = Ref(obj)
                => store[r].currentSpec.version <= us.version

KeyAdded ==
    pc \in {"setStatus", "setVersion"} /\ HasUser(Target) /\ Target \notin others
    => users[Target] = us.data.secretKey

CopiesOK == SameSecret /\ NothingWritten
KeyInv == Inv /\ CopiesOK /\ RecordsOld /\ SecretInHand /\ KeyAdded /\ KeyFollowsSecret

\* What a step may do to the resources but for making and renewing records:
\* records stay or go, and what is to be read was there before.
Tends ==
    \A r \in Resources :
        /\ Recorded(r)' => Recorded(r) /\ store'[r].currentSpec = store[r].currentSpec
        /\ Backlog(r)' \subseteq Backlog(r) \cup {store[r]}
        /\ req' = r => \/ req = r /\ Ref(obj') = Ref(obj)
                       \/ obj' \in Backlog(r) \cup {store[r]} /\ obj' # Absent

\* Such a step leaves every copy of a record with the same secret.
LEMMA TendsSame == ASSUME SameSecret, Tends PROVE SameSecret'
<1> SUFFICES ASSUME NEW r \in Resources, Recorded(r)'
             PROVE  /\ \A o \in Backlog(r)' : o # Absent => Ref(o) = store'[r].currentSpec.secretKeyRef
                    /\ req' = r => Ref(obj') = store'[r].currentSpec.secretKeyRef
  BY DEF SameSecret, Ref
<1>1. Recorded(r) /\ store'[r].currentSpec = store[r].currentSpec
  BY DEF Tends
<1>2. \A o \in Backlog(r) \cup {store[r]} :
        o # Absent => Ref(o) = store[r].currentSpec.secretKeyRef
  BY <1>1 DEF SameSecret, Ref, Recorded
<1>3. QED BY <1>1, <1>2 DEF SameSecret, Tends

\* A step that leaves the resources alone.
LEMMA StillTends ==
    ASSUME UNCHANGED <<store, lag>>, UNCHANGED <<req, obj>> \/ req' = Nil
    PROVE  Tends
BY KubeAssumption DEF Tends, Recorded, Backlog

\* An update that does not make or renew a record.
LEMMA UpdateTends ==
    ASSUME Inv, pc # "idle", NEW o \in Object, NEW next, Update(o, next), next \notin Making,
           o.currentSpec = Nil \/ o.currentSpec = obj.currentSpec,
           next = "idle" \/ (o.currentSpec = obj.currentSpec /\ obj.currentSpec # Nil)
    PROVE  Tends /\ NothingWritten'
<1>0. req \in Resources /\ KubeTypeOK
  BY DEF Inv, CallOK, KubeInv, KubeTypeOK
<1>1. pc' \in {"idle", next} /\ (req' = Nil \/ (req' = req /\ obj' = o /\ next # "idle"))
  BY DEF Update, UpdateAccepted, UpdateRejected, Return
<1>2. req' = Nil \/ (req' = req /\ Ref(obj') = Ref(obj))
  BY <1>1 DEF Ref
<1>3. NothingWritten'
  BY <1>1 DEF NothingWritten, Making
<1>4. CASE UNCHANGED <<store, lag>>
  <2>1. \A r \in Resources : /\ Recorded(r)' = Recorded(r) /\ store'[r] = store[r]
                             /\ Backlog(r)' = Backlog(r)
    BY <1>4 DEF Recorded, Backlog
  <2>2. QED BY <1>2, <1>3, <2>1, KubeAssumption DEF Tends
<1>5. CASE fresh /\ Commit(req, Stored(o))
  <2>1. obj = store[req] /\ obj # Absent
    BY <1>5 DEF Inv, CallOK, KubeInv
  <2>2. store' = [store EXCEPT ![req] = Stored(o)] /\ Stored(o) \in {Absent, o}
    BY <1>5 DEF Commit, Stored
  <2>3. \A r \in Resources : Recorded(r)' => Recorded(r) /\ store'[r].currentSpec = store[r].currentSpec
    BY <1>0, <2>1, <2>2 DEF Recorded, KubeTypeOK
  <2>4. \A r \in Resources : Backlog(r)' \subseteq Backlog(r) \cup {store[r]}
    BY <1>0, <1>5, CommitBacklog
  <2>5. QED BY <1>2, <1>3, <2>3, <2>4, KubeAssumption DEF Tends
<1>6. QED BY <1>3, <1>4, <1>5 DEF Update, UpdateAccepted, UpdateRejected

\* What users write has the old status or none.
LEMMA UserTends ==
    ASSUME Inv, NothingWritten, NEW r \in Resources, UserStep(r) PROVE Tends /\ NothingWritten'
<1>0. KubeTypeOK /\ store[r] \in Version /\ (pc \in Making => pc # "idle")
  BY DEF Inv, CallOK, KubeTypeOK, Making
<1>1. PICK v : /\ UserCommit(r, v)
               /\ v # Absent /\ v.currentSpec # Nil
                  => store[r] # Absent /\ v.currentSpec = store[r].currentSpec
  <2>1. CASE CreateResource(r)
    <3>1. PICK s \in Specs : UserCommit(r, [spec |-> s, currentSpec |-> Nil,
                                            finalizer |-> FALSE, deleting |-> FALSE])
      BY <2>1 DEF CreateResource
    <3>2. QED BY <3>1
  <2>2. CASE EditSpec(r)
    <3>1. PICK s \in Specs : UserCommit(r, [store[r] EXCEPT !.spec = s])
      BY <2>2 DEF EditSpec
    <3>2. store[r] \in Object /\ store[r] # Absent
      BY <1>0, <2>2 DEF EditSpec, Version
    <3>3. [store[r] EXCEPT !.spec = s].currentSpec = store[r].currentSpec
      BY <3>2 DEF Object
    <3>4. QED BY <3>1, <3>2, <3>3
  <2>3. CASE DeleteResource(r)
    <3>1. store[r] \in Object /\ store[r] # Absent
      BY <1>0, <2>3 DEF DeleteResource, Version
    <3>2. [store[r] EXCEPT !.deleting = TRUE].currentSpec = store[r].currentSpec
      BY <3>1 DEF Object
    <3>3. QED BY <2>3, <3>1, <3>2 DEF DeleteResource
  <2>4. QED BY <2>1, <2>2, <2>3 DEF UserStep
<1>2. Commit(r, v) /\ UNCHANGED <<req, obj, pc>> /\ fresh' = (fresh /\ req # r)
  BY <1>1 DEF UserCommit
<1>3. \A q \in Resources : Recorded(q)' => Recorded(q) /\ store'[q].currentSpec = store[q].currentSpec
  BY <1>0, <1>1, <1>2 DEF Commit, Recorded, KubeTypeOK
<1>4. \A q \in Resources : Backlog(q)' \subseteq Backlog(q) \cup {store[q]}
  BY <1>0, <1>2, CommitBacklog
<1>5. NothingWritten'
  BY <1>0, <1>2 DEF Commit, NothingWritten, Inv, CallOK, KubeTypeOK, KubeInv
<1>6. QED BY <1>2, <1>3, <1>4, <1>5 DEF Tends

\* Reading and the watch.
LEMMA ReadTends ==
    ASSUME Inv, NothingWritten, NEW r \in Resources, Begin(r) \/ Deliver(r)
    PROVE  Tends /\ NothingWritten'
<1>0. KubeTypeOK
  BY DEF Inv, CallOK
<1>1. CASE Begin(r)
  <2>1. UNCHANGED <<store, lag>> /\ req' = r /\ obj' = Cached(r) /\ Cached(r) # Absent
        /\ fresh' = (lag[r] = <<>>)
    BY <1>1 DEF Begin, Get
  <2>2. Tends
    BY <1>0, <2>1, CachedBacklog DEF Tends, Recorded, Backlog
  <2>3. QED BY <2>1, <2>2 DEF NothingWritten
<1>2. CASE Deliver(r)
  <2>1. UNCHANGED <<store, req, obj, fresh, pc>> /\ lag[r] # <<>>
        /\ lag' = [lag EXCEPT ![r] = Tail(@)]
    BY <1>2 DEF Deliver, callVars
  <2>2. Tends
    BY <1>0, <1>2, <2>1, DeliverBacklog DEF Tends, Recorded
  <2>3. NothingWritten'
    BY <2>1 DEF NothingWritten
  <2>4. QED BY <2>2, <2>3
<1>3. QED BY <1>1, <1>2

\* What a record says.
LEMMA RecordType ==
    ASSUME Inv, NEW r \in Resources, Recorded(r)
    PROVE  /\ store[r].currentSpec.name \in Users
           /\ store[r].currentSpec.secretKeyRef \in SecretNames
           /\ store[r].currentSpec.version \in Nat
<1>1. store[r].currentSpec \in Currents
  BY DEF Inv, CallOK, KubeTypeOK, Version, Object, Recorded
<1>2. store[r].currentSpec \in Current
  BY <1>1, UserAssumption
<1>3. QED BY <1>2 DEF Current

\* Where a call has a secret in hand, it is one of the secrets.
LEMMA SecretType ==
    ASSUME Inv
    PROVE  /\ \A n \in SecretNames : secrets[n] # Absent => secrets[n].version \in Nat
           /\ pc \in InHand => us \in Secret /\ us.version \in Nat /\ us.version <= revision
           /\ pc \in InHand \cup {"compare", "getSecret"} => Ref(obj) \in SecretNames
           /\ revision \in Nat
<1>1. \A n \in SecretNames : secrets[n] # Absent => secrets[n].version \in Nat
  BY DEF Inv, OthersOK
<1>2. pc \in InHand => us \in Secret /\ us.version \in 1..revision
  BY DEF Inv, LocalsOK, InHand
<1>3. revision \in Nat
  BY DEF Inv, OthersOK
<1>4. pc \in InHand \cup {"compare", "getSecret"}
      => pc \in Making \cup Holding
  BY DEF InHand, Making, Holding
<1>5. pc \in InHand \cup {"compare", "getSecret"} => Ref(obj) \in SecretNames
  <2>1. pc \in Holding => obj.currentSpec \in Currents
    BY Calls, CallCopy DEF Inv
  <2>2. pc \in Making => obj.currentSpec = Nil
    BY Calls, CallCopy DEF Inv
  <2>3. QED BY <1>4, <2>1, <2>2, Copy, KubeAssumption DEF Ref
<1>6. QED BY <1>1, <1>2, <1>3, <1>5

\* The user a call adds is one.
LEMMA TargetType == ASSUME Inv, pc \in InHand PROVE Target \in Users
<1>1. pc \in Making \/ pc \in Holding
  BY DEF InHand, Making, Holding
<1>2. CASE pc \in Making
  BY <1>2 DEF InHand, Making, Target, Inv, LocalsOK
<1>3. CASE pc \in Holding
  BY <1>3, Copy DEF Making, Holding, Target
<1>4. QED BY <1>1, <1>2, <1>3

\* What may become of the users but for what the operator writes: a user goes,
\* or somebody else gives it a key.
KeysStay ==
    \A u \in Users : HasUser(u)' /\ u \notin others' => users'[u] = users[u] /\ u \notin others

\* A step that neither writes a key or a secret nor makes or renews a record.
LEMMA CalmStep ==
    ASSUME KeyInv, Inv', Tends, NothingWritten', UNCHANGED <<secrets, revision>>, KeysStay,
           pc' \notin InHand \/ UNCHANGED <<pc, obj, accessKey, us>>
    PROVE  KeyInv'
<1>0. Inv
  BY DEF KeyInv
<1>1. CopiesOK'
  BY TendsSame DEF KeyInv, CopiesOK
<1>2. \A r \in Resources : Recorded(r)' => Recorded(r) /\ store'[r].currentSpec = store[r].currentSpec
  BY DEF Tends
<1>3. RecordsOld'
  BY <1>2 DEF KeyInv, RecordsOld
<1>4. SecretInHand'
  BY <1>2 DEF KeyInv, SecretInHand, Ref
<1>5. KeyAdded'
  <2>1. CASE pc' \notin InHand
    BY <2>1 DEF KeyAdded, InHand
  <2>2. CASE UNCHANGED <<pc, obj, accessKey, us>>
    <3>1. Target' = Target /\ (pc \in InHand => Target \in Users)
      BY <1>0, <2>2, TargetType DEF Target
    <3>2. QED BY <2>2, <3>1 DEF KeyInv, KeyAdded, KeysStay, HasUser, InHand
  <2>3. QED BY <2>1, <2>2
<1>6. KeyFollowsSecret'
  BY <1>0, <1>2, RecordType DEF KeyInv, KeyFollowsSecret, HasUser, KeysStay
<1>7. QED BY <1>1, <1>3, <1>4, <1>5, <1>6 DEF KeyInv

\* Reconcile returns, or goes on without a secret in hand.
LEMMA CalmCall ==
    ASSUME KeyInv, Inv', UNCHANGED <<store, lag, secrets, revision>>, KeysStay,
           End \/ \E next : Proceed(next) /\ (next \in Making => pc \in Making), pc' \notin InHand
    PROVE  KeyInv'
<1>1. Tends
  BY StillTends DEF End, Return, Proceed
<1>2. NothingWritten'
  BY DEF End, Return, Proceed, KeyInv, CopiesOK, NothingWritten, Making
<1>3. QED BY <1>1, <1>2, CalmStep

\* A secret is read: none that is recorded is newer.
LEMMA SecretGot ==
    ASSUME KeyInv, Inv', UNCHANGED <<store, lag, users, secrets, revision, others, accessKey>>,
           secrets[Ref(obj)] # Absent, us' = secrets[Ref(obj)], UNCHANGED <<req, obj, fresh>>,
           (pc = "compare" /\ pc' = "rotate") \/ (pc = "getSecret" /\ pc' = "add")
    PROVE  KeyInv'
<1>0. Inv /\ CopiesOK /\ RecordsOld /\ KeyFollowsSecret
  BY DEF KeyInv
<1>1. Tends
  BY StillTends
<1>2. CopiesOK'
  BY <1>0, <1>1, TendsSame DEF CopiesOK, NothingWritten, Making
<1>3. RecordsOld'
  BY <1>0 DEF RecordsOld, Recorded
<1>4. SecretInHand'
  <2>1. Ref(obj) \in SecretNames /\ us'.version \in Nat
    BY <1>0, SecretType
  <2>2. \A r \in Resources :
          Recorded(r) /\ store[r].currentSpec.secretKeyRef = Ref(obj)
          => store[r].currentSpec.version <= us'.version
    BY <1>0 DEF RecordsOld
  <2>3. QED BY <2>1, <2>2 DEF SecretInHand, Ref, Recorded
<1>5. KeyAdded'
  BY DEF KeyAdded
<1>6. KeyFollowsSecret'
  BY <1>0 DEF KeyFollowsSecret, Recorded, HasUser
<1>7. QED BY <1>2, <1>3, <1>4, <1>5, <1>6 DEF KeyInv

\* A user gets the key of the secret in hand: where that is not the current
\* one, every record of the user is old, too.
LEMMA KeyWritten ==
    ASSUME KeyInv, Unshared, Inv', UNCHANGED <<store, lag, secrets, revision, accessKey, us>>,
           UNCHANGED <<req, obj, fresh>>, Target \in Users,
           users' = [users EXCEPT ![Target] = us.data.secretKey], others' = others \ {Target},
           (pc = "add" /\ pc' = "setStatus") \/ (pc = "rotate" /\ pc' = "setVersion")
    PROVE  KeyInv'
<1>0. Inv /\ CopiesOK /\ RecordsOld /\ SecretInHand /\ KeyFollowsSecret
  BY DEF KeyInv
<1>1. Tends
  BY StillTends
<1>2. CopiesOK'
  BY <1>0, <1>1, TendsSame DEF CopiesOK, NothingWritten, Making
<1>3. RecordsOld'
  BY <1>0 DEF RecordsOld, Recorded
<1>4. SecretInHand'
  BY <1>0 DEF SecretInHand, InHand, Ref, Recorded
<1>5. Target' = Target /\ users \in [Users -> SecretKeys \cup {NoEntry}]
  BY <1>0 DEF Target, Making, Inv, OthersOK, IamTypeOK
<1>6. KeyAdded'
  BY <1>5 DEF KeyAdded
<1>7. ASSUME NEW r \in Resources, Recorded(r), store[r].currentSpec.name = Target,
             secrets[store[r].currentSpec.secretKeyRef] # Absent,
             secrets[store[r].currentSpec.secretKeyRef].version = store[r].currentSpec.version
      PROVE  us = secrets[store[r].currentSpec.secretKeyRef]
  <2>1. store[r].currentSpec.secretKeyRef = Ref(obj)
    BY <1>0, <1>7 DEF CopiesOK, SameSecret, Unshared
  <2>2. pc \in InHand
    BY DEF InHand
  <2>3. us.version = store[r].currentSpec.version
    BY <1>0, <1>7, <2>1, <2>2, RecordType, SecretType DEF SecretInHand
  <2>4. QED BY <1>0, <1>7, <2>1, <2>2, <2>3 DEF SecretInHand
<1>8. KeyFollowsSecret'
  <2> SUFFICES ASSUME NEW r \in Resources, Recorded(r),
                      secrets[store[r].currentSpec.secretKeyRef] # Absent,
                      secrets[store[r].currentSpec.secretKeyRef].version = store[r].currentSpec.version,
                      users'[store[r].currentSpec.name] # NoEntry,
                      store[r].currentSpec.name \notin others'
               PROVE  users'[store[r].currentSpec.name]
                        = secrets[store[r].currentSpec.secretKeyRef].data.secretKey
    BY DEF KeyFollowsSecret, Recorded, HasUser
  <2>1. CASE store[r].currentSpec.name = Target
    BY <1>5, <1>7, <2>1
  <2>2. CASE store[r].currentSpec.name # Target
    BY <1>0, <1>5, <2>2, RecordType DEF KeyFollowsSecret, HasUser
  <2>3. QED BY <2>1, <2>2
<1>9. QED BY <1>2, <1>3, <1>4, <1>6, <1>8 DEF KeyInv

\* The version of the secret in hand is recorded, with the user that has its
\* key.
LEMMA VersionRecorded ==
    ASSUME KeyInv, Inv', NEW o \in Object, fresh, Commit(req, o), Return,
           pc \in {"setStatus", "setVersion"}, o.currentSpec # Nil,
           o.currentSpec.name = Target, o.currentSpec.secretKeyRef = Ref(obj),
           o.currentSpec.version = us.version, UNCHANGED <<users, secrets, revision, others>>
    PROVE  KeyInv'
<1>0. Inv /\ CopiesOK /\ RecordsOld /\ SecretInHand /\ KeyAdded /\ KeyFollowsSecret
  BY DEF KeyInv
<1>1. req \in Resources /\ KubeTypeOK /\ obj = store[req] /\ obj # Absent /\ o # Absent
  BY <1>0, KubeAssumption DEF Inv, CallOK, KubeInv, KubeTypeOK
<1>2. PICK q \in Resources : q = req
  BY <1>1
<1>3. /\ store'[q] = o /\ Recorded(q)'
      /\ \A r \in Resources \ {q} : store'[r] = store[r] /\ Recorded(r)' = Recorded(r)
  BY <1>1, <1>2 DEF Commit, Recorded, KubeTypeOK
<1>4. /\ Backlog(q)' \subseteq Backlog(q) \cup {store[q]}
      /\ \A r \in Resources \ {q} : Backlog(r)' = Backlog(r)
  BY <1>1, <1>2, CommitBacklog
<1>5. pc \in InHand
  BY DEF InHand
<1>6. SameSecret'
  <2>1. ASSUME NEW x \in Backlog(q)', x # Absent PROVE Ref(x) = Ref(obj)
    <3>1. x \in Backlog(q) \cup {obj}
      BY <1>1, <1>2, <1>4, <2>1
    <3>2. CASE Recorded(q)
      BY <1>0, <1>1, <1>2, <2>1, <3>1, <3>2 DEF CopiesOK, SameSecret
    <3>3. CASE ~Recorded(q)
      <4>1. pc \in Making
        BY <1>0, <1>1, <1>2, <3>3, Calls, CallCopy, KubeAssumption DEF Recorded, Inv, Making, Holding
      <4>2. lag[q] = <<>>
        BY <1>0, <1>2, <4>1 DEF CopiesOK, NothingWritten
      <4>3. Backlog(q) = {}
        BY <4>2 DEF Backlog
      <4>4. QED BY <3>1, <4>3
    <3>4. QED BY <3>2, <3>3
  <2>2. req' = Nil
    BY DEF Return
  <2>3. store'[q].currentSpec.secretKeyRef = Ref(obj)
    BY <1>3
  <2>4. \A r \in Resources \ {q} : Recorded(r)' =>
          \A x \in Backlog(r)' : x # Absent => Ref(x) = store'[r].currentSpec.secretKeyRef
    BY <1>0, <1>3, <1>4 DEF CopiesOK, SameSecret
  <2>5. SameSecret' <=>
          \A r \in Resources : Recorded(r)' =>
            /\ \A x \in Backlog(r)' : x # Absent => Ref(x) = store'[r].currentSpec.secretKeyRef
            /\ req' = r => Ref(obj') = store'[r].currentSpec.secretKeyRef
    BY DEF SameSecret, Ref
  <2>6. QED BY <2>1, <2>2, <2>3, <2>4, <2>5, KubeAssumption
<1>7. NothingWritten' /\ SecretInHand' /\ KeyAdded'
  BY DEF Return, NothingWritten, SecretInHand, KeyAdded, InHand, Making
<1>8. RecordsOld'
  BY <1>0, <1>1, <1>2, <1>3, <1>5, SecretType DEF RecordsOld, SecretInHand
<1>9. KeyFollowsSecret'
  <2>1. ASSUME NEW r \in Resources \ {q}, Recorded(r)'
        PROVE  LET c == store[r].currentSpec
                   s == secrets[c.secretKeyRef]
               IN s # Absent /\ s.version = c.version /\ HasUser(c.name) /\ c.name \notin others
                  => users[c.name] = s.data.secretKey
    BY <1>0, <1>3, <2>1 DEF KeyFollowsSecret
  <2>2. LET s == secrets[Ref(obj)]
        IN s # Absent /\ s.version = us.version /\ HasUser(Target) /\ Target \notin others
           => users[Target] = s.data.secretKey
    BY <1>0, <1>5 DEF SecretInHand, KeyAdded
  <2>3. QED BY <1>1, <1>2, <1>3, <2>1, <2>2 DEF KeyFollowsSecret, HasUser
<1>10. QED BY <1>6, <1>7, <1>8, <1>9 DEF KeyInv, CopiesOK

\* SetVersion and SetUserStatus.
LEMMA RecordWritten ==
    ASSUME KeyInv, Inv', NEW o \in Object, Update(o, "idle"),
           pc \in {"setStatus", "setVersion"}, o.currentSpec # Nil,
           o.finalizer = obj.finalizer, o.deleting = obj.deleting,
           o.currentSpec.name = Target, o.currentSpec.secretKeyRef = Ref(obj),
           o.currentSpec.version = us.version, UNCHANGED <<users, secrets, revision, others>>
    PROVE  KeyInv'
<1>1. Return
  BY DEF Update, UpdateAccepted, UpdateRejected
<1>2. CASE UNCHANGED <<store, lag>>
  <2>1. Tends
    BY <1>1, <1>2, StillTends DEF Return
  <2>2. NothingWritten' /\ pc' \notin InHand
    BY <1>1 DEF Return, NothingWritten, Making, InHand
  <2>3. KeysStay
    BY DEF KeysStay
  <2>4. QED BY <2>1, <2>2, <2>3, CalmStep
<1>3. CASE fresh /\ Commit(req, Stored(o))
  <2>1. pc \in Making \/ pc \in Holding
    BY DEF Making, Holding
  <2>2. Stored(o) = o
    BY <2>1, Calls, CallCopy DEF Stored, KeyInv, Inv
  <2>3. QED BY <1>1, <1>3, <2>2, VersionRecorded
<1>4. QED BY <1>2, <1>3 DEF Update, UpdateAccepted, UpdateRejected

\* The rotated key's version is recorded.
LEMMA SetVersionKey == ASSUME KeyInv, Inv', SetVersion PROVE KeyInv'
<1> DEFINE c == [obj.currentSpec EXCEPT !.version = us.version]
           o == [obj EXCEPT !.currentSpec = c]
<1>0. Inv /\ pc = "setVersion" /\ pc \in Holding /\ pc \notin Making
      /\ us.version \in 1..MaxRevision
  BY UsedVersion DEF SetVersion, Making, Holding, KeyInv, Inv, LocalsOK
<1>1. obj \in Object /\ obj.currentSpec \in Current /\ obj.currentSpec # Nil
  BY <1>0, Copy, KubeAssumption, UserAssumption
<1>2. c \in Current /\ c.name = obj.currentSpec.name /\ c.version = us.version
      /\ c.secretKeyRef = obj.currentSpec.secretKeyRef
  BY <1>0, <1>1 DEF Current
<1>3. c \in Currents /\ c # Nil
  BY <1>2, KubeAssumption, UserAssumption
<1>4. Update(o, "idle")
  BY DEF SetVersion, Finish
<1>5. /\ o \in Object /\ o.finalizer = obj.finalizer /\ o.deleting = obj.deleting
      /\ o.currentSpec = c
  BY <1>1, <1>3 DEF Object
<1> HIDE DEF o, c
<1>6. c.name = Target /\ c.secretKeyRef = Ref(obj)
  BY <1>0, <1>1, <1>2 DEF Target, Ref
<1>7. UNCHANGED <<users, secrets, revision, others>>
  BY DEF SetVersion, iamVars, historyVars
<1>8. QED BY <1>0, <1>2, <1>3, <1>4, <1>5, <1>6, <1>7, RecordWritten

\* The new user is recorded with the version its key is from.
LEMMA SetUserStatusKey == ASSUME KeyInv, Inv', SetUserStatus PROVE KeyInv'
<1> DEFINE s == [obj.spec EXCEPT !.accessKey = accessKey, !.migrate = FALSE]
           c == [name |-> accessKey, secretKeyRef |-> obj.spec.secretKeyRef,
                 version |-> us.version]
           o == [obj EXCEPT !.spec = s, !.currentSpec = c]
<1>0. /\ Inv /\ pc = "setStatus" /\ pc \in Making /\ us.version \in 1..MaxRevision
      /\ accessKey \in Users
  BY UsedVersion DEF SetUserStatus, Making, KeyInv, Inv, LocalsOK
<1>1. /\ obj \in Object /\ obj.spec \in Specs /\ obj.spec.secretKeyRef \in SecretNames
      /\ obj.currentSpec = Nil
  BY <1>0, Copy, Calls, CallCopy DEF Inv
<1>2. s \in Specs
  BY <1>0, <1>1, UserAssumption
<1>3. c \in Currents
  BY <1>0, <1>1, UserAssumption DEF Current
<1>4. c.name = accessKey /\ c.version = us.version /\ c.secretKeyRef = obj.spec.secretKeyRef
  OBVIOUS
<1>5. Update(o, "idle")
  BY DEF SetUserStatus, Finish
<1>6. /\ o \in Object /\ o.finalizer = obj.finalizer /\ o.deleting = obj.deleting
      /\ o.currentSpec = c
  BY <1>1, <1>2, <1>3 DEF Object
<1> HIDE DEF o, c, s
<1>7. c.name = Target /\ c.secretKeyRef = Ref(obj)
  BY <1>0, <1>1, <1>4 DEF Target, Ref
<1>8. UNCHANGED <<users, secrets, revision, others>>
  BY DEF SetUserStatus, iamVars, historyVars
<1>9. c # Nil
  BY <1>3, KubeAssumption
<1>10. QED BY <1>0, <1>3, <1>4, <1>5, <1>6, <1>7, <1>8, <1>9, RecordWritten

\* A secret is written or deleted: its new version is newer than any that is
\* recorded or in hand.
LEMMA SecretWrittenKey ==
    ASSUME KeyInv, Inv', NEW n \in SecretNames, WriteSecret(n) \/ DeleteSecret(n) PROVE KeyInv'
<1>0. Inv /\ CopiesOK /\ RecordsOld /\ SecretInHand /\ KeyAdded /\ KeyFollowsSecret
  BY DEF KeyInv
<1>1. UNCHANGED <<store, lag, req, obj, fresh, pc, users, accessKey, us, others>>
  BY DEF WriteSecret, DeleteSecret, kubeVars, iamVars, localVars, historyVars
<1>2. CopiesOK'
  BY <1>0, <1>1, StillTends, TendsSame DEF CopiesOK, NothingWritten
<1>3. KeyAdded'
  BY <1>0, <1>1 DEF KeyAdded, HasUser, Target
<1>4. /\ revision \in Nat /\ revision' \in Nat /\ revision <= revision'
      /\ \A m \in SecretNames :
            \/ secrets'[m] = secrets[m] \/ secrets'[m] = Absent
            \/ secrets'[m].version = revision + 1
  <2>1. revision \in Nat /\ secrets \in [SecretNames -> Secret \cup {Absent}]
    BY <1>0 DEF Inv, OthersOK
  <2>2. CASE WriteSecret(n)
    <3>1. PICK d \in SecretData :
            secrets' = [secrets EXCEPT ![n] = [data |-> d, version |-> revision + 1]]
      BY <2>2 DEF WriteSecret
    <3>2. QED BY <2>1, <2>2, <3>1 DEF WriteSecret
  <2>3. CASE DeleteSecret(n)
    BY <2>1, <2>3 DEF DeleteSecret
  <2>4. QED BY <2>2, <2>3
<1>5. \A r \in Resources :
        Recorded(r) => /\ store[r].currentSpec.version \in Nat
                       /\ store[r].currentSpec.version <= revision
                       /\ store[r].currentSpec.secretKeyRef \in SecretNames
  BY <1>0, RecordType DEF RecordsOld
<1>6. RecordsOld'
  <2> SUFFICES ASSUME NEW r \in Resources, Recorded(r)
               PROVE  LET c == store[r].currentSpec
                          s == secrets'[c.secretKeyRef]
                      IN c.version <= revision' /\ (s # Absent => c.version <= s.version)
    BY <1>1 DEF RecordsOld, Recorded
  <2> DEFINE c == store[r].currentSpec
             s == secrets[c.secretKeyRef]
  <2>1. c.version \in Nat /\ c.version <= revision /\ c.secretKeyRef \in SecretNames
    BY <1>5
  <2>2. s # Absent => c.version <= s.version
    BY <1>0 DEF RecordsOld
  <2> HIDE DEF c, s
  <2>3. secrets'[c.secretKeyRef] = s \/ secrets'[c.secretKeyRef] = Absent
        \/ secrets'[c.secretKeyRef].version = revision + 1
    BY <1>4, <2>1 DEF s
  <2>4. c.version <= revision' /\ (secrets'[c.secretKeyRef] # Absent
                                   => c.version <= secrets'[c.secretKeyRef].version)
    BY <1>4, <2>1, <2>2, <2>3
  <2>5. QED BY <2>4 DEF c
<1>7. SecretInHand'
  <2> SUFFICES ASSUME pc \in InHand, secrets'[Ref(obj)] # Absent
               PROVE  LET s == secrets'[Ref(obj)]
                      IN us.version <= s.version /\ (us.version = s.version => us = s)
    BY <1>0, <1>1 DEF SecretInHand, Recorded, Ref
  <2>1. Ref(obj) \in SecretNames /\ us.version \in Nat /\ us.version <= revision
    BY <1>0, SecretType
  <2>2. CASE secrets'[Ref(obj)] = secrets[Ref(obj)]
    BY <1>0, <2>2 DEF SecretInHand
  <2>3. CASE secrets'[Ref(obj)].version = revision + 1
    BY <1>4, <2>1, <2>3
  <2>4. QED BY <1>4, <2>1, <2>2, <2>3
<1>8. KeyFollowsSecret'
  <2> SUFFICES ASSUME NEW r \in Resources, Recorded(r),
                      secrets'[store[r].currentSpec.secretKeyRef] # Absent,
                      secrets'[store[r].currentSpec.secretKeyRef].version
                        = store[r].currentSpec.version
               PROVE  secrets'[store[r].currentSpec.secretKeyRef]
                        = secrets[store[r].currentSpec.secretKeyRef]
    BY <1>0, <1>1 DEF KeyFollowsSecret, Recorded, HasUser
  <2>1. secrets'[store[r].currentSpec.secretKeyRef].version # revision + 1
    BY <1>4, <1>5
  <2>2. QED BY <1>4, <1>5, <2>1
<1>9. QED BY <1>2, <1>3, <1>6, <1>7, <1>8 DEF KeyInv

\* Somebody else's keys are not held against the operator.
LEMMA ExternalUserKey ==
    ASSUME KeyInv, Inv', NEW u \in Users, ExternalUser(u) PROVE KeyInv'
<1>1. UNCHANGED <<store, lag, req, obj, fresh, pc, secrets, revision, accessKey, us>>
  BY DEF ExternalUser, kubeVars, localVars
<1>2. users \in [Users -> SecretKeys \cup {NoEntry}]
  BY DEF KeyInv, Inv, OthersOK, IamTypeOK
<1>3. KeysStay
  BY <1>2 DEF ExternalUser, AddUser, DropUser, KeysStay, HasUser
<1>4. Tends /\ NothingWritten'
  BY <1>1, StillTends DEF KeyInv, CopiesOK, NothingWritten
<1>5. QED BY <1>1, <1>3, <1>4, CalmStep

\* Neither is a user that is removed.
LEMMA RemoveUserKey == ASSUME KeyInv, Inv', RemoveUser PROVE KeyInv'
<1>0. pc = "remove" /\ pc \in Holding
  BY DEF RemoveUser, Holding
<1>1. obj.currentSpec.name \in Users /\ users \in [Users -> SecretKeys \cup {NoEntry}]
  BY <1>0, Copy DEF KeyInv, Inv, OthersOK, IamTypeOK
<1>2. KeysStay
  BY <1>1 DEF RemoveUser, DropUser, iamVars, KeysStay, HasUser
<1>3. Proceed("clearStatus") /\ pc' \notin InHand /\ "clearStatus" \notin Making
  BY DEF RemoveUser, GoOn, Proceed, InHand, Making
<1>4. QED BY <1>2, <1>3, CalmCall DEF RemoveUser

\* The calls that only read.
LEMMA ReadingKey ==
    ASSUME KeyInv, Inv', CheckUser \/ CompareSecret \/ ResolveAccessKey \/ LookupUser \/ GetSecret
    PROVE  KeyInv'
<1>0. UNCHANGED <<store, lag, users, secrets, revision, others>> /\ KeysStay /\ Inv
  BY DEF CheckUser, CompareSecret, ResolveAccessKey, LookupUser, GetSecret, iamVars,
         historyVars, KeysStay, KeyInv
<1>1. CASE End
  <2>1. pc' \notin InHand
    BY <1>1 DEF End, Return, InHand
  <2>2. QED BY <1>0, <1>1, <2>1, CalmCall
<1>2. CASE \E next \in {"compare", "clearStatus", "lookup", "getSecret"} :
             Proceed(next) /\ (next \in {"lookup", "getSecret"} => pc \in Making)
  <2>1. pc' \notin InHand
    BY <1>2 DEF Proceed, InHand
  <2>2. \E next : Proceed(next) /\ (next \in Making => pc \in Making)
    BY <1>2 DEF Making
  <2>3. QED BY <1>0, <2>1, <2>2, CalmCall
<1>3. CASE CompareSecret /\ ~End
  <2>1. pc = "compare" /\ pc \in Holding
    BY <1>3 DEF CompareSecret, Holding
  <2>2. Ref(obj) = obj.currentSpec.secretKeyRef
    BY <1>0, <2>1, Calls, CallCopy, KubeAssumption DEF Ref, Inv
  <2>3. QED BY <1>0, <1>3, <2>1, <2>2, SecretGot DEF CompareSecret, Proceed
<1>4. CASE GetSecret /\ ~End
  <2>1. pc = "getSecret" /\ pc \in Making
    BY <1>4 DEF GetSecret, Making
  <2>2. Ref(obj) = obj.spec.secretKeyRef
    BY <1>0, <2>1, Calls, CallCopy, KubeAssumption DEF Ref, Inv
  <2>3. QED BY <1>0, <1>4, <2>1, <2>2, SecretGot DEF GetSecret, Proceed
<1>5. QED BY <1>1, <1>2, <1>3, <1>4 DEF CheckUser, ResolveAccessKey, LookupUser, GoOn, Making

\* AddUser for a new user and for one whose secret changed.
LEMMA AddKey == ASSUME KeyInv, Unshared, Inv', RotateKey \/ MakeUser PROVE KeyInv'
<1>0. Inv /\ pc \in InHand
  BY DEF RotateKey, MakeUser, InHand, KeyInv
<1>1. Add(Target, IF pc = "add" THEN "setStatus" ELSE "setVersion") /\ pc \in {"add", "rotate"}
  BY DEF RotateKey, MakeUser, Target, Making
<1>2. CASE us.data.secretKey = Nil
  <2>1. End /\ UNCHANGED <<store, lag, users, secrets, revision, others>>
    BY <1>1, <1>2 DEF Add, iamVars
  <2>2. KeysStay /\ pc' \notin InHand
    BY <2>1 DEF KeysStay, End, Return, InHand
  <2>3. QED BY <2>1, <2>2, CalmCall
<1>3. CASE us.data.secretKey # Nil
  BY <1>0, <1>1, <1>3, TargetType, KeyWritten DEF Add, AddUser, GoOn, Proceed, localVars
<1>4. QED BY <1>2, <1>3

\* The updates that leave MinIO alone, reading, the watch and the users of the
\* resources.
LEMMA KubeOnlyKey ==
    ASSUME KeyInv, Inv', KubeOnly,
           \/ AddFinalizer \/ ClearFinalizer \/ ClearStatus \/ DropMigrate
           \/ \E r \in Resources : Begin(r) \/ Deliver(r) \/ UserStep(r)
    PROVE  KeyInv'
<1>0. Inv /\ NothingWritten /\ KeysStay /\ UNCHANGED <<secrets, revision, accessKey, us>>
  BY DEF KeyInv, CopiesOK, KeysStay, KubeOnly, iamVars, localVars, historyVars
<1>1. ASSUME NEW o \in Object, NEW next \in {"idle", "check"}, Update(o, next), pc # "idle",
             o.currentSpec = Nil \/ o.currentSpec = obj.currentSpec,
             next = "idle" \/ (o.currentSpec = obj.currentSpec /\ obj.currentSpec # Nil)
      PROVE  KeyInv'
  <2>1. Tends /\ NothingWritten'
    BY <1>0, <1>1, UpdateTends DEF Making
  <2>2. pc' \notin InHand
    BY <1>1 DEF Update, UpdateAccepted, UpdateRejected, Return, InHand
  <2>3. QED BY <1>0, <2>1, <2>2, CalmStep
<1>2. pc # "idle" => obj \in Object /\ obj.spec \in Specs
  BY <1>0, Calls, CallCopy DEF Inv
<1>3. CASE AddFinalizer
  <2> DEFINE o == [obj EXCEPT !.finalizer = TRUE]
  <2>1. o \in Object /\ o.currentSpec = obj.currentSpec /\ pc # "idle"
    BY <1>2, <1>3 DEF AddFinalizer, Object
  <2>2. QED BY <1>1, <1>3, <2>1 DEF AddFinalizer
<1>4. CASE ClearFinalizer
  <2> DEFINE o == [obj EXCEPT !.finalizer = FALSE]
  <2>1. o \in Object /\ o.currentSpec = obj.currentSpec /\ pc # "idle"
    BY <1>2, <1>4 DEF ClearFinalizer, Object
  <2>2. QED BY <1>1, <1>4, <2>1 DEF ClearFinalizer
<1>5. CASE ClearStatus
  <2> DEFINE o == [obj EXCEPT !.currentSpec = Nil]
  <2>1. o \in Object /\ o.currentSpec = Nil /\ pc # "idle"
    BY <1>2, <1>5 DEF ClearStatus, Object
  <2>2. QED BY <1>1, <1>5, <2>1 DEF ClearStatus
<1>6. CASE DropMigrate
  <2> DEFINE o == [obj EXCEPT !.spec = [obj.spec EXCEPT !.migrate = FALSE]]
  <2>1. pc \in Holding /\ pc # "idle" /\ Update(o, "check")
    BY <1>6 DEF DropMigrate, Holding
  <2>2. [obj.spec EXCEPT !.migrate = FALSE] \in Specs /\ obj.currentSpec # Nil
    BY <1>0, <1>2, <2>1, Copy, KubeAssumption, UserAssumption
  <2>3. o \in Object /\ o.currentSpec = obj.currentSpec
    BY <1>2, <2>1, <2>2 DEF Object
  <2> HIDE DEF o
  <2>4. QED BY <1>1, <2>1, <2>2, <2>3
<1>7. ASSUME NEW r \in Resources, Begin(r) \/ Deliver(r) PROVE KeyInv'
  <2>1. Tends /\ NothingWritten'
    BY <1>0, <1>7, ReadTends
  <2>2. pc' \notin InHand \/ UNCHANGED <<pc, obj>>
    BY <1>7 DEF Begin, Branch, Deliver, callVars, InHand
  <2>3. QED BY <1>0, <2>1, <2>2, CalmStep
<1>8. ASSUME NEW r \in Resources, UserStep(r) PROVE KeyInv'
  <2>1. Tends /\ NothingWritten'
    BY <1>0, <1>8, UserTends
  <2>2. UNCHANGED <<pc, obj>>
    BY <1>8 DEF UserStep, CreateResource, EditSpec, DeleteResource, UserCommit
  <2>3. QED BY <1>0, <2>1, <2>2, CalmStep
<1>9. QED BY <1>3, <1>4, <1>5, <1>6, <1>7, <1>8

\* The invariant of the keys is inductive.
LEMMA KeyStep == ASSUME KeyInv, Unshared, [Next]_vars PROVE KeyInv'
<1>0. Inv'
  BY NextStep DEF KeyInv, Safe
<1>1. CASE Controller
  <2>1. CASE Reconcile
    BY <1>0, <2>1, KubeOnlyKey, RemoveUserKey, ReadingKey, AddKey, SetVersionKey,
       SetUserStatusKey DEF Reconcile
  <2>2. ASSUME NEW r \in Resources, Start(r) \/ Watch(r) PROVE KeyInv'
    BY <1>0, <2>2, KubeOnlyKey DEF Start, Watch, KubeOnly
  <2>3. QED BY <1>1, <2>1, <2>2 DEF Controller
<1>2. CASE Environment
  <2>1. CASE FaultStep
    <3>1. End /\ UNCHANGED <<store, lag, secrets, revision>> /\ KeysStay
      BY <2>1 DEF FaultStep, Fault, KeysStay, iamVars
    <3>2. pc' \notin InHand
      BY <3>1 DEF End, Return, InHand
    <3>3. QED BY <1>0, <3>1, <3>2, CalmCall
  <2>2. QED BY <1>0, <1>2, <2>1, KubeOnlyKey, SecretWrittenKey, ExternalUserKey DEF Environment
<1>3. CASE UNCHANGED vars
  <2>1. UNCHANGED <<store, lag, req, obj, fresh, pc, secrets, revision, accessKey, us, users, others>>
    BY <1>3 DEF vars, kubeVars, iamVars, localVars, historyVars
  <2>2. Tends /\ NothingWritten' /\ KeysStay
    BY <2>1, StillTends DEF KeyInv, CopiesOK, NothingWritten, KeysStay
  <2>3. QED BY <1>0, <2>1, <2>2, CalmStep
<1>4. QED BY <1>1, <1>2, <1>3 DEF Next

\* Nothing is recorded at first.
LEMMA InitKey == Init => KeyInv
<1> SUFFICES ASSUME Init PROVE KeyInv
  OBVIOUS
<1>1. pc = "idle" /\ \A r \in Resources : ~Recorded(r)
  BY DEF Init, KubeInit, Recorded
<1>2. QED BY <1>1, InitInv DEF KeyInv, CopiesOK, SameSecret, NothingWritten, RecordsOld,
             SecretInHand, KeyAdded, KeyFollowsSecret, InHand, Making

\* The rotation misses no change: while no two resources claim one user under
\* different secrets, a recorded user whose record has the version of its
\* secret has the key of that version, whatever the cache showed, whenever the
\* secret was written and wherever calls were cut short between AddUser and
\* the update of the status.
THEOREM KeysFollowSecrets == Spec /\ []Unshared => []KeyFollowsSecret
<1>1. Init => KeyInv
  BY InitKey
<1>2. KeyInv /\ Unshared /\ [Next]_vars => KeyInv'
  BY KeyStep
<1>3. KeyInv => KeyFollowsSecret
  BY DEF KeyInv
<1>4. QED BY <1>1, <1>2, <1>3, PTL DEF Spec

\* With one resource, as the run has it, nothing is left to assume.
THEOREM KeyFollowsItsSecret ==
    ASSUME NEW one, Resources = {one} PROVE Spec => []KeyFollowsSecret
<1>1. Init => KeyInv
  BY InitKey
<1>2. KeyInv /\ [Next]_vars => KeyInv'
  <2>1. KeyInv => Unshared
    BY DEF KeyInv, Inv, CallOK, KubeTypeOK, KubeInv, Unshared
  <2>2. QED BY <2>1, KeyStep
<1>3. KeyInv => KeyFollowsSecret
  BY DEF KeyInv
<1>4. QED BY <1>1, <1>2, <1>3, PTL DEF Spec
=============================================================================
