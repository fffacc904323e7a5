---------------------------- MODULE BucketProofs ----------------------------
(***************************************************************************)
(* Proofs about the bucket reconciler, for any resources, names, specs and *)
(* cache lag.  TypeOK /\ CallInv is inductive; the action properties       *)
(* follow from it, step by step.                                           *)
(***************************************************************************)
EXTENDS Bucket, KubeProofs

Inv == TypeOK /\ CallInv

\* Every step keeps the invariant and is a step of Lifecycle, or shows nothing
\* there.
Safe == Inv' /\ Kept

MinioOK == buckets \in [Names -> BucketState \cup {Absent}] /\ foreign \subseteq Names
CallNames == {"idle", "addFinalizer", "clearFinalizer"} \cup Making \cup Holding

\* The sets of calls, spelled out for the provers.
LEMMA Calls ==
    /\ Making = {"create", "createVersioning", "createLifecycle", "setStatus"}
    /\ Holding = {"remove", "clearStatus", "dropMigrate", "check", "recordPolicy",
                  "getVersioning", "resetVersioning", "setVersioning", "recordVersioning",
                  "getLifecycle", "resetLifecycle", "setLifecycle", "recordLifecycle"}
    /\ Partition(Making, Holding)
<1>1. Making = {"create", "createVersioning", "createLifecycle", "setStatus"}
  BY DEF Making, Creating
<1>2. Holding = {"remove", "clearStatus", "dropMigrate", "check", "recordPolicy",
                 "getVersioning", "resetVersioning", "setVersioning", "recordVersioning",
                 "getLifecycle", "resetLifecycle", "setLifecycle", "recordLifecycle"}
  BY DEF Holding, Getting, Resetting, Setting, Recording, Fields
<1>3. QED BY <1>1, <1>2 DEF Partition

\* The invariant in the parts the lemmas of KubeProofs speak of.
LEMMA Parts ==
    /\ Inv <=> CallOK(Making, Holding) /\ pc \in CallNames /\ MinioOK
    /\ Inv' <=> CallOK(Making, Holding)' /\ pc' \in CallNames /\ MinioOK'
BY DEF Inv, TypeOK, CallInv, CallOK, MinioOK, CallNames

\* A spec that no longer migrates may be recorded.
LEMMA Migrated == \A s \in Specs : [s EXCEPT !.migrate = FALSE] \in Specs \cap Currents
BY BucketAssumption DEF Current, BucketSpec

\* What a call finds in its copy.
LEMMA Copy ==
    ASSUME Inv
    PROVE  /\ pc \in Making \cup Holding => obj \in Object /\ obj.spec \in BucketSpec
           /\ pc \in Holding => obj.currentSpec \in Current /\ obj.currentSpec \in BucketSpec
BY Parts, Calls, CallCopy, BucketAssumption DEF Current

\* What may be written into a bucket is a bucket.
LEMMA BucketValues ==
    /\ Fresh \in BucketState
    /\ [Fresh EXCEPT !.objects = TRUE] \in BucketState
    /\ \A b \in BucketState : \A k \in Fields : \A v \in Values[k] :
           [b EXCEPT !.config[k] = Sent(k, v)] \in BucketState
    /\ \A s \in BucketSpec : \A k \in Fields : s.config[k] \in Values[k]
<1>1. Fresh \in BucketState /\ [Fresh EXCEPT !.objects = TRUE] \in BucketState
  BY DEF Fresh, BucketState, Configs, Values, Unconfigured
<1>2. ASSUME NEW b \in BucketState, NEW k \in Fields, NEW v \in Values[k]
      PROVE  [b EXCEPT !.config[k] = Sent(k, v)] \in BucketState
  <2>1. CASE k = "versioning"
    BY <2>1 DEF BucketState, Configs, Values, Sent
  <2>2. CASE k = "lifecycle"
    BY <2>2 DEF BucketState, Configs, Values, Sent
  <2>3. QED BY <2>1, <2>2 DEF Fields
<1>3. ASSUME NEW s \in BucketSpec, NEW k \in Fields PROVE s.config[k] \in Values[k]
  BY DEF BucketSpec, Configs, Values, Fields
<1>4. QED BY <1>1, <1>2, <1>3

\* Initially there are resources of nobody and buckets of somebody else.
LEMMA InitInv == Init => Inv
<1> SUFFICES ASSUME Init PROVE Inv
  OBVIOUS
<1>1. CallOK(Making, Holding)
  BY Calls, InitialCall DEF Init
<1>2. MinioOK
  BY BucketValues DEF Init, MinioOK
<1>3. QED BY <1>1, <1>2, Parts DEF Init, KubeInit, CallNames

-----------------------------------------------------------------------------
(* The ways a call of Reconcile to MinIO ends.                             *)

\* Reconcile returns.
LEMMA Ends == ASSUME Inv, Return, UNCHANGED <<store, lag>>, MinioOK' PROVE Safe
BY Parts, Calls, ReturnStep DEF Return, CallNames, Safe

\* Reconcile goes on, making a bucket or tending one.
LEMMA GoesOn ==
    ASSUME Inv, NEW next, Proceed(next), UNCHANGED <<store, lag>>, MinioOK',
           \/ pc \in Making /\ next \in Making
           \/ pc \in Holding /\ next \in Holding
    PROVE  Safe
BY Parts, Calls, ProceedStep DEF Proceed, CallNames, Safe

\* A configuration is set, or there is no bucket to set it on.
LEMMA SetBucketStep ==
    ASSUME Inv, NEW n \in Names, NEW k \in Fields, NEW v \in Values[k], NEW next,
           SetBucket(n, k, v, next),
           \/ pc \in Making /\ next \in Making
           \/ pc \in Holding /\ next \in Holding
    PROVE  Safe
<1>1. CASE Exists(n)
  <2>1. buckets[n] \in BucketState
    BY <1>1 DEF Exists, Inv, TypeOK
  <2>2. [buckets[n] EXCEPT !.config[k] = Sent(k, v)] \in BucketState
    BY <2>1, BucketValues
  <2>3. buckets' = [buckets EXCEPT ![n] = [buckets[n] EXCEPT !.config[k] = Sent(k, v)]]
    BY <1>1 DEF SetBucket
  <2>4. MinioOK'
    BY <2>2, <2>3 DEF MinioOK, SetBucket, Inv, TypeOK
  <2>5. QED BY <1>1, <2>4, GoesOn DEF SetBucket
<1>2. CASE ~Exists(n)
  BY <1>2, Ends DEF SetBucket, MinioOK, Inv, TypeOK
<1>3. QED BY <1>1, <1>2

-----------------------------------------------------------------------------
(* One lemma per action.                                                   *)

\* Removing the recorded bucket leaves the record in place until it is cleared.
LEMMA RemoveBucketStep == ASSUME Inv, RemoveBucket PROVE Safe
<1>1. pc \in Holding /\ "clearStatus" \in Holding
  BY Calls DEF RemoveBucket
<1>2. obj.currentSpec.name \in Names
  BY <1>1, Copy DEF BucketSpec
<1>3. MinioOK'
  BY <1>2 DEF RemoveBucket, MinioOK, Inv, TypeOK
<1>4. Return \/ Proceed("clearStatus")
  BY DEF RemoveBucket
<1>5. QED BY <1>1, <1>3, <1>4, Ends, GoesOn DEF RemoveBucket

\* A missing bucket leads to the status being cleared.
LEMMA BucketExistsStep == ASSUME Inv, BucketExists PROVE Safe
<1>1. pc \in Holding /\ {"clearStatus", "getVersioning"} \subseteq Holding
  BY Calls DEF BucketExists
<1>2. Proceed("clearStatus") \/ Proceed("getVersioning")
  BY DEF BucketExists, Getting
<1>3. QED BY <1>1, <1>2, GoesOn DEF BucketExists, MinioOK, Inv, TypeOK

\* Reading a configuration leads to setting it, or ends the call.
LEMMA GetConfigStep == ASSUME Inv, NEW k \in Fields, GetConfig(k) PROVE Safe
<1>1. pc \in Holding /\ Resetting[k] \in Holding /\ Setting[k] \in Holding
  BY DEF GetConfig, Holding
<1>2. Return \/ Proceed(Resetting[k]) \/ Proceed(Setting[k])
  BY DEF GetConfig
<1>3. QED BY <1>1, <1>2, Ends, GoesOn DEF GetConfig, MinioOK, Inv, TypeOK

\* The recorded configuration is written to the recorded bucket.
LEMMA ResetConfigStep == ASSUME Inv, NEW k \in Fields, ResetConfig(k) PROVE Safe
<1>1. pc \in Holding /\ Setting[k] \in Holding
  BY DEF ResetConfig, Holding
<1>2. obj.currentSpec.name \in Names /\ obj.currentSpec.config[k] \in Values[k]
  BY <1>1, Copy, BucketValues DEF BucketSpec
<1>3. QED BY <1>1, <1>2, SetBucketStep DEF ResetConfig

\* The spec's configuration is written to the recorded bucket.
LEMMA SetConfigStep == ASSUME Inv, NEW k \in Fields, SetConfig(k) PROVE Safe
<1>1. pc \in Holding /\ Recording[k] \in Holding
  BY DEF SetConfig, Holding
<1>2. After(Getting, k, "recordPolicy") \in Holding
  BY Calls DEF After, Getting
<1>3. obj.currentSpec.name \in Names /\ obj.spec.config[k] \in Values[k]
  BY <1>1, Copy, BucketValues DEF BucketSpec
<1>4. CASE obj.spec.config[k] = obj.currentSpec.config[k]
  BY <1>1, <1>2, <1>4, GoesOn DEF SetConfig, MinioOK, Inv, TypeOK
<1>5. CASE obj.spec.config[k] # obj.currentSpec.config[k]
  BY <1>1, <1>3, <1>5, SetBucketStep DEF SetConfig
<1>6. QED BY <1>4, <1>5

\* An update of the record that keeps its name.
LEMMA Rerecords ==
    ASSUME Inv, pc \in Holding, NEW c \in Current, c.name = obj.currentSpec.name,
           NEW next, Update([obj EXCEPT !.currentSpec = c], next),
           next = "idle" \/ next \in Holding, UNCHANGED <<buckets, foreign>>
    PROVE  Safe
<1> DEFINE o == [obj EXCEPT !.currentSpec = c]
<1>1. c \in Currents /\ c # Nil
  BY KubeAssumption, BucketAssumption
<1>2. /\ o \in Object /\ o.finalizer = obj.finalizer /\ o.deleting = obj.deleting
      /\ o.currentSpec = c
  BY <1>1, Copy DEF Object
<1> HIDE DEF o
<1>3. CallOK(Making, Holding)' /\ Kept /\ pc' \in {"idle", next}
  BY <1>1, <1>2, Parts, Calls, RecordStep DEF o
<1>4. QED BY <1>3, Parts DEF Safe, MinioOK, CallNames

\* Recording a configuration changes nothing else of the record.
LEMMA RecordConfigStep == ASSUME Inv, NEW k \in Fields, RecordConfig(k) PROVE Safe
<1> DEFINE c == [obj.currentSpec EXCEPT !.config[k] = obj.spec.config[k]]
<1>1. pc \in Holding
  BY DEF RecordConfig, Holding
<1>2. After(Getting, k, "recordPolicy") \in Holding
  BY Calls DEF After, Getting
<1>3. c \in Current /\ c.name = obj.currentSpec.name
  BY <1>1, Copy DEF Current, BucketSpec, Configs, Values, Fields
<1>4. Update([obj EXCEPT !.currentSpec = c], After(Getting, k, "recordPolicy"))
  BY DEF RecordConfig
<1> HIDE DEF c
<1>5. QED BY <1>1, <1>2, <1>3, <1>4, Rerecords DEF RecordConfig

\* Recording the deletion policy changes nothing else of the record.
LEMMA RecordPolicyStep == ASSUME Inv, RecordPolicy PROVE Safe
<1> DEFINE c == [obj.currentSpec EXCEPT !.deletionPolicy = obj.spec.deletionPolicy]
<1>1. pc \in Holding
  BY Calls DEF RecordPolicy
<1>2. c \in Current /\ c.name = obj.currentSpec.name
  BY <1>1, Copy DEF Current, BucketSpec
<1>3. Update([obj EXCEPT !.currentSpec = c], "idle")
  BY DEF RecordPolicy
<1> HIDE DEF c
<1>4. QED BY <1>1, <1>2, <1>3, Rerecords DEF RecordPolicy

\* Making or migrating a bucket leaves the resource as it is.
LEMMA MakeBucketStep == ASSUME Inv, MakeBucket PROVE Safe
<1>1. pc \in Making /\ "createVersioning" \in Making
  BY Calls DEF MakeBucket
<1>2. obj.spec.name \in Names
  BY <1>1, Copy DEF BucketSpec
<1>3. MinioOK'
  BY <1>2, BucketValues DEF MakeBucket, MinioOK, Inv, TypeOK
<1>4. Return \/ Proceed("createVersioning")
  BY DEF MakeBucket, Creating
<1>5. QED BY <1>1, <1>3, <1>4, Ends, GoesOn DEF MakeBucket

\* A new bucket is configured before it is recorded.
LEMMA CreateConfigStep == ASSUME Inv, NEW k \in Fields, CreateConfig(k) PROVE Safe
<1>1. pc \in Making
  BY DEF CreateConfig, Making, Creating, Fields
<1>2. After(Creating, k, "setStatus") \in Making
  BY Calls DEF After, Creating
<1>3. obj.spec.name \in Names /\ obj.spec.config[k] \in Values[k]
  BY <1>1, Copy, BucketValues DEF BucketSpec
<1>4. CASE obj.spec.config[k] = Nil
  BY <1>1, <1>2, <1>4, GoesOn DEF CreateConfig, MinioOK, Inv, TypeOK
<1>5. CASE obj.spec.config[k] # Nil
  BY <1>1, <1>2, <1>3, <1>5, SetBucketStep DEF CreateConfig
<1>6. QED BY <1>4, <1>5

\* Every remote call of Reconcile is a safe step.
LEMMA ReconcileStep == ASSUME Inv, Reconcile PROVE Safe
<1>1. "versioning" \in Fields /\ "lifecycle" \in Fields
  BY DEF Fields
<1>2. CASE Bookkeeping /\ UNCHANGED <<buckets, foreign>>
  <2>1. CallOK(Making, Holding)' /\ Kept /\ pc' \in {"idle", "check"}
    BY <1>2, Parts, Calls, Migrated, BookkeepingStep
  <2>2. QED BY <1>2, <2>1, Parts, Calls DEF Safe, MinioOK, CallNames
<1>3. CASE RemoveBucket \/ BucketExists \/ RecordPolicy
  BY <1>3, RemoveBucketStep, BucketExistsStep, RecordPolicyStep
<1>4. CASE GetVersioning \/ ResetVersioning \/ SetVersioning \/ RecordVersioning
  BY <1>1, <1>4, GetConfigStep, ResetConfigStep, SetConfigStep, RecordConfigStep
     DEF GetVersioning, ResetVersioning, SetVersioning, RecordVersioning
<1>5. CASE GetLifecycle \/ ResetLifecycle \/ SetLifecycle \/ RecordLifecycle
  BY <1>1, <1>5, GetConfigStep, ResetConfigStep, SetConfigStep, RecordConfigStep
     DEF GetLifecycle, ResetLifecycle, SetLifecycle, RecordLifecycle
<1>6. CASE MakeBucket \/ CreateVersioning \/ CreateLifecycle
  BY <1>1, <1>6, MakeBucketStep, CreateConfigStep DEF CreateVersioning, CreateLifecycle
<1>7. QED BY <1>2, <1>3, <1>4, <1>5, <1>6 DEF Reconcile

\* So are the start of a call and a watch event.
LEMMA ControllerStep == ASSUME Inv, Controller PROVE Safe
<1>1. CASE Reconcile
  BY <1>1, ReconcileStep
<1>2. ASSUME NEW r \in Resources, Start(r) PROVE Safe
  BY <1>2, Parts, Calls, BeginStep DEF Start, Safe, MinioOK, CallNames
<1>3. ASSUME NEW r \in Resources, Deliver(r), UNCHANGED <<buckets, foreign>> PROVE Safe
  <2>1. CallOK(Making, Holding)' /\ Kept
    BY <1>3, Parts, DeliverStep
  <2>2. QED BY <1>3, <2>1, Parts DEF Deliver, callVars, Safe, MinioOK
<1>4. QED BY <1>1, <1>2, <1>3 DEF Controller

\* What users write into a bucket is a bucket's content.
LEMMA ExternalType ==
    ASSUME Inv, NEW n \in Names, ExternalMake(n) \/ ExternalRemove(n) \/ ExternalWrite(n)
    PROVE  MinioOK'
<1>1. CASE ExternalMake(n) \/ ExternalRemove(n)
  BY <1>1, BucketValues DEF ExternalMake, ExternalRemove, MinioOK, Inv, TypeOK
<1>2. CASE ExternalWrite(n)
  <2>1. buckets[n] \in BucketState
    BY <1>2 DEF ExternalWrite, Exists, Inv, TypeOK
  <2>2. PICK b \in BucketState : buckets' = [buckets EXCEPT ![n] = b]
    <3>1. CASE buckets' = [buckets EXCEPT ![n].objects = ~@]
      <4>1. [buckets[n] EXCEPT !.objects = ~@] \in BucketState
        BY <2>1 DEF BucketState
      <4>2. QED BY <3>1, <4>1
    <3>2. CASE \E k \in Fields : \E v \in Values[k] :
                 buckets' = [buckets EXCEPT ![n].config[k] = Sent(k, v)]
      BY <3>2, <2>1, BucketValues
    <3>3. QED BY <3>1, <3>2, <1>2 DEF ExternalWrite
  <2>3. QED BY <1>2, <2>2 DEF ExternalWrite, MinioOK, Inv, TypeOK
<1>3. QED BY <1>1, <1>2

\* Faults, and what users do to resources and to buckets, are safe steps too.
LEMMA EnvironmentStep == ASSUME Inv, Environment PROVE Safe
<1>1. ASSUME Fault, UNCHANGED <<buckets, foreign>> PROVE Safe
  BY <1>1, Ends DEF Fault, MinioOK, Inv, TypeOK
<1>2. ASSUME NEW r \in Resources, UserStep(r), UNCHANGED <<buckets, foreign>> PROVE Safe
  <2>1. CallOK(Making, Holding)' /\ Kept
    BY <1>2, Parts, UserStepStep
  <2>2. pc' = pc
    BY <1>2 DEF UserStep, CreateResource, EditSpec, DeleteResource, UserCommit
  <2>3. QED BY <1>2, <2>1, <2>2, Parts DEF Safe, MinioOK
<1>3. ASSUME NEW n \in Names, ExternalMake(n) \/ ExternalRemove(n) \/ ExternalWrite(n),
             UNCHANGED kubeVars
      PROVE  Safe
  <2>1. CallOK(Making, Holding)' /\ Kept
    BY <1>3, Parts, ElsewhereStep
  <2>2. QED BY <1>3, <2>1, Parts, ExternalType DEF kubeVars, Safe
<1>4. QED BY <1>1, <1>2, <1>3 DEF Environment

\* TypeOK and CallInv are inductive, and every step is safe.
LEMMA NextStep == ASSUME Inv, [Next]_vars PROVE Safe
<1>1. CASE Next
  BY <1>1, ControllerStep, EnvironmentStep DEF Next
<1>2. CASE UNCHANGED vars
  <2>1. CallOK(Making, Holding)' /\ Kept
    BY <1>2, Parts, ElsewhereStep DEF vars
  <2>2. QED BY <1>2, <2>1, Parts DEF vars, kubeVars, Safe, MinioOK
<1>3. QED BY <1>1, <1>2

-----------------------------------------------------------------------------
(* The theorems.                                                           *)

\* The state of the reconciler, the resources and the buckets is always of the
\* declared type: in particular no status ever records migrate.
THEOREM TypeCorrect == Spec => []TypeOK
<1>1. Init => Inv
  BY InitInv
<1>2. Inv /\ [Next]_vars => Inv'
  BY NextStep DEF Safe
<1>3. Inv => TypeOK
  BY DEF Inv
<1>4. QED BY <1>1, <1>2, <1>3, PTL DEF Spec

\* Whatever the cache showed it and wherever it is interrupted, Reconcile is
\* always at a call its copy of the resource entitles it to.
THEOREM CallsEntitled == Spec => []CallInv
<1>1. Init => Inv
  BY InitInv
<1>2. Inv /\ [Next]_vars => Inv'
  BY NextStep DEF Safe
<1>3. Inv => CallInv
  BY DEF Inv
<1>4. QED BY <1>1, <1>2, <1>3, PTL DEF Spec

\* The controller of a MinioBucket implements module Lifecycle: whatever the cache
\* showed and wherever calls are cut short, the resource is held before it
\* records a bucket, keeps the recorded name, and goes only without a record.
THEOREM Refinement == Spec => FollowsLifecycle
<1>1. Init => Inv /\ Life!Init
  BY InitInv, InitialLife DEF Init
<1>2. Inv /\ [Next]_vars => Inv' /\ [Life!Next]_(Life!lifeVars)
  BY NextStep DEF Safe, Kept
<1>3. QED BY <1>1, <1>2, PTL DEF Spec, FollowsLifecycle, Life!Spec
-----------------------------------------------------------------------------
(***************************************************************************)
(* The reconciler leaves other people's buckets alone while its copy of    *)
(* the resource is the stored one.  Inv is strengthened by                 *)
(* RecordedIsOwned: a bucket in 'foreign' exists, no resource records its  *)
(* name and no call is about to.                                           *)
(***************************************************************************)

Owning == Inv /\ RecordedIsOwned

\* The calls between making a bucket and recording it.
Configuring == {Creating.versioning, Creating.lifecycle, "setStatus"}

\* Updating a record is not making one.
LEMMA RerecordRecords ==
    ASSUME Inv, RecordPolicy \/ \E k \in Fields : RecordConfig(k)
    PROVE  NewRecords
<1>1. pc \in Holding
  <2>1. CASE RecordPolicy
    BY <2>1, Calls DEF RecordPolicy
  <2>2. CASE \E k \in Fields : RecordConfig(k)
    BY <2>2 DEF RecordConfig, Holding
  <2>3. QED BY <2>1, <2>2
<1>2. obj \in Object /\ obj.currentSpec \in Current /\ obj.spec \in BucketSpec
      /\ obj.currentSpec # Nil /\ pc # "idle"
  BY <1>1, Copy, Calls DEF Inv, CallInv, Entitled
<1>3. CASE RecordPolicy
  <2>1. [obj EXCEPT !.currentSpec.deletionPolicy = obj.spec.deletionPolicy] \in Object
    BY <1>2, BucketAssumption DEF Object, Current, BucketSpec
  <2>2. QED BY <1>2, <1>3, <2>1, UpdateRecords DEF RecordPolicy, Inv, TypeOK, CallInv
<1>4. ASSUME NEW k \in Fields, RecordConfig(k) PROVE NewRecords
  <2>1. [obj EXCEPT !.currentSpec.config[k] = obj.spec.config[k]] \in Object
    BY <1>2, BucketAssumption DEF Object, Current, BucketSpec, Configs, Values, Fields
  <2>2. QED BY <1>2, <1>4, <2>1, UpdateRecords DEF RecordConfig, Inv, TypeOK, CallInv
<1>5. QED BY <1>3, <1>4

-----------------------------------------------------------------------------
(* Every step keeps RecordedIsOwned and spares foreign buckets.            *)

Spares == \A n \in foreign : pc' # pc /\ fresh => buckets'[n] = buckets[n]
Careful == RecordedIsOwned' /\ Spares

\* RecordedIsOwned, spelled out.
LEMMA OwnedParts ==
    /\ RecordedIsOwned <=>
         /\ \A n \in foreign : Exists(n)
         /\ \A r \in Resources : Recorded(r) => store[r].currentSpec.name \notin foreign
         /\ pc \in Configuring => obj.spec.name \notin foreign
    /\ RecordedIsOwned' <=>
         /\ \A n \in foreign' : buckets'[n] # Absent
         /\ \A r \in Resources : Recorded(r)' => store'[r].currentSpec.name \notin foreign'
         /\ pc' \in Configuring => obj'.spec.name \notin foreign'
BY DEF RecordedIsOwned, Claimed, Configuring, Exists

\* A step that makes no bucket foreign and removes no foreign one.
LEMMA KeepsOwned ==
    ASSUME Owning, Kept, NewRecords, foreign' \subseteq foreign,
           \A n \in foreign' : buckets'[n] # Absent,
           pc' \in Configuring => obj'.spec.name \notin foreign'
    PROVE  RecordedIsOwned'
<1>1. ASSUME NEW r \in Resources, Recorded(r)'
      PROVE  store'[r].currentSpec.name \notin foreign'
  <2>1. CASE Recorded(r)
    BY <1>1, <2>1, OwnedParts, KeptRecords DEF Owning
  <2>2. CASE ~Recorded(r)
    BY <1>1, <2>2, OwnedParts DEF NewRecords, Owning, Configuring
  <2>3. QED BY <2>1, <2>2
<1>2. QED BY <1>1, OwnedParts

\* A step that leaves MinIO alone.
LEMMA LeavesBuckets ==
    ASSUME Owning, Kept, NewRecords, UNCHANGED <<buckets, foreign>>,
           \/ pc' \notin Configuring
           \/ pc \in Configuring /\ UNCHANGED obj
    PROVE  Careful
<1>1. RecordedIsOwned'
  BY KeepsOwned, OwnedParts DEF Owning, Exists
<1>2. QED BY <1>1 DEF Careful, Spares

\* A fresh call on a record does not find a foreign bucket under its name.
LEMMA RecordedName ==
    ASSUME Owning, pc \in Holding, fresh
    PROVE  obj.currentSpec.name \notin foreign
<1>1. req \in Resources /\ obj = store[req] /\ obj # Absent /\ obj.currentSpec # Nil
  BY Calls DEF Owning, Inv, CallInv, KubeInv, Entitled, TypeOK, KubeTypeOK
<1>2. QED BY <1>1, OwnedParts DEF Owning, Recorded

\* The configuration of an own bucket is set.
LEMMA SetBucketCareful ==
    ASSUME Owning, NEW n \in Names, NEW k \in Fields, NEW v \in Values[k], NEW next,
           SetBucket(n, k, v, next), Kept, fresh => n \notin foreign,
           next \notin Configuring \/ pc \in Configuring
    PROVE  Careful
<1>0. NewRecords
  BY NoNewRecords DEF SetBucket
<1>1. CASE Exists(n)
  <2>1. /\ buckets' = [buckets EXCEPT ![n].config[k] = Sent(k, v)]
        /\ Proceed(next) /\ UNCHANGED foreign
    BY <1>1 DEF SetBucket
  <2>2. \A m \in Names : m # n => buckets'[m] = buckets[m]
    BY <2>1 DEF Owning, Inv, TypeOK
  <2>3. buckets'[n] = [buckets[n] EXCEPT !.config[k] = Sent(k, v)]
    BY <2>1 DEF Owning, Inv, TypeOK
  <2>4. buckets[n] \in BucketState
    BY <1>1 DEF Exists, Owning, Inv, TypeOK
  <2>5. buckets'[n] # Absent
    BY <2>3, <2>4, BucketValues, BucketAssumption
  <2>6. \A m \in foreign : m \in Names /\ buckets'[m] # Absent
    BY <2>2, <2>5, OwnedParts DEF Owning, Inv, TypeOK, Exists
  <2>7. pc' \in Configuring => obj'.spec.name \notin foreign'
    BY <2>1, OwnedParts DEF Proceed, Owning
  <2>8. RecordedIsOwned'
    BY <1>0, <2>1, <2>6, <2>7, KeepsOwned
  <2>9. QED BY <2>2, <2>6, <2>8 DEF Careful, Spares
<1>2. CASE ~Exists(n)
  <2>1. Return /\ UNCHANGED <<buckets, foreign>>
    BY <1>2 DEF SetBucket
  <2>2. pc' \notin Configuring
    BY <2>1 DEF Return, Configuring, Creating
  <2>3. QED BY <1>0, <2>1, <2>2, LeavesBuckets
<1>3. QED BY <1>1, <1>2

-----------------------------------------------------------------------------
(* One step per action.                                                    *)

\* Removing a bucket under the recorded name.
LEMMA RemoveCareful == ASSUME Owning, RemoveBucket, Kept PROVE Careful
<1> DEFINE n == obj.currentSpec.name
<1>1. pc \in Holding
  BY Calls DEF RemoveBucket
<1>2. n \in Names
  BY <1>1, Copy DEF BucketSpec, Owning
<1>3. NewRecords
  BY NoNewRecords DEF RemoveBucket
<1>4. pc' \notin Configuring
  BY DEF RemoveBucket, Return, Proceed, Configuring, Creating
<1>5. CASE UNCHANGED <<buckets, foreign>>
  BY <1>3, <1>4, <1>5, LeavesBuckets
<1>6. CASE buckets' = [buckets EXCEPT ![n] = Absent] /\ foreign' = foreign \ {n}
  <2>1. \A m \in Names : m # n => buckets'[m] = buckets[m]
    BY <1>6 DEF Owning, Inv, TypeOK
  <2>2. \A m \in foreign : m \in Names /\ buckets[m] # Absent
    BY OwnedParts DEF Owning, Inv, TypeOK, Exists
  <2>3. RecordedIsOwned'
    BY <1>3, <1>4, <1>6, <2>1, <2>2, KeepsOwned
  <2>4. fresh => n \notin foreign
    BY <1>1, RecordedName
  <2>5. QED BY <2>1, <2>2, <2>3, <2>4 DEF Careful, Spares
<1>7. QED BY <1>5, <1>6 DEF RemoveBucket

\* Making a bucket, or migrating one.
LEMMA MakeCareful == ASSUME Owning, MakeBucket, Kept PROVE Careful
<1> DEFINE n == obj.spec.name
<1>1. pc \in Making
  BY Calls DEF MakeBucket
<1>2. n \in Names
  BY <1>1, Copy DEF BucketSpec, Owning
<1>3. NewRecords
  BY NoNewRecords DEF MakeBucket
<1>4. CASE Return /\ UNCHANGED <<buckets, foreign>>
  <2>1. pc' \notin Configuring
    BY <1>4 DEF Return, Configuring, Creating
  <2>2. QED BY <1>3, <1>4, <2>1, LeavesBuckets
<1>5. CASE /\ ~(Exists(n) /\ ~obj.spec.migrate)
           /\ buckets' = IF Exists(n) THEN buckets ELSE [buckets EXCEPT ![n] = Fresh]
           /\ foreign' = IF obj.spec.migrate THEN foreign \ {n} ELSE foreign
           /\ Proceed(Creating.versioning)
  <2>1. \A m \in Names : m # n => buckets'[m] = buckets[m]
    BY <1>5 DEF Owning, Inv, TypeOK
  <2>2. \A m \in foreign : m \in Names /\ Exists(m)
    BY OwnedParts DEF Owning, Inv, TypeOK
  <2>3. \A m \in foreign : buckets'[m] = buckets[m]
    BY <1>5, <2>1, <2>2
  <2>4. n \notin foreign'
    BY <1>5, <2>2
  <2>5. RecordedIsOwned'
    BY <1>3, <1>5, <2>2, <2>3, <2>4, KeepsOwned DEF Exists, Proceed
  <2>6. QED BY <2>3, <2>5 DEF Careful, Spares
<1>6. QED BY <1>4, <1>5 DEF MakeBucket

\* Setting the configuration of a recorded bucket.
LEMMA ConfigCareful ==
    ASSUME Owning, NEW k \in Fields, ResetConfig(k) \/ SetConfig(k), Kept
    PROVE  Careful
<1>1. pc \in Holding
  BY DEF ResetConfig, SetConfig, Holding
<1>2. /\ obj.currentSpec.name \in Names
      /\ obj.currentSpec.config[k] \in Values[k] /\ obj.spec.config[k] \in Values[k]
  BY <1>1, Copy, BucketValues DEF BucketSpec, Owning
<1>3. fresh => obj.currentSpec.name \notin foreign
  BY <1>1, RecordedName
<1>4. /\ Setting[k] \notin Configuring /\ Recording[k] \notin Configuring
      /\ After(Getting, k, "recordPolicy") \notin Configuring
  BY DEF Setting, Recording, After, Getting, Configuring, Creating, Fields
<1>5. CASE ResetConfig(k)
  BY <1>2, <1>3, <1>4, <1>5, SetBucketCareful DEF ResetConfig
<1>6. CASE SetConfig(k) /\ obj.spec.config[k] # obj.currentSpec.config[k]
  BY <1>2, <1>3, <1>4, <1>6, SetBucketCareful DEF SetConfig
<1>7. CASE SetConfig(k) /\ obj.spec.config[k] = obj.currentSpec.config[k]
  BY <1>4, <1>7, LeavesBuckets, NoNewRecords DEF SetConfig, Proceed
<1>8. QED BY <1>5, <1>6, <1>7

\* Configuring a bucket just made or migrated.
LEMMA CreateConfigCareful ==
    ASSUME Owning, NEW k \in Fields, CreateConfig(k), Kept
    PROVE  Careful
<1>1. pc \in Making /\ pc \in Configuring
  BY DEF CreateConfig, Making, Configuring, Creating, Fields
<1>2. obj.spec.name \in Names /\ obj.spec.config[k] \in Values[k]
  BY <1>1, Copy, BucketValues DEF BucketSpec, Owning
<1>3. obj.spec.name \notin foreign
  BY <1>1, OwnedParts DEF Owning
<1>4. CASE obj.spec.config[k] = Nil
  BY <1>1, <1>4, LeavesBuckets, NoNewRecords DEF CreateConfig, Proceed
<1>5. CASE obj.spec.config[k] # Nil
  BY <1>1, <1>2, <1>3, <1>5, SetBucketCareful DEF CreateConfig
<1>6. QED BY <1>4, <1>5

\* Every remote call of Reconcile is careful.
LEMMA ReconcileCareful == ASSUME Owning, Reconcile PROVE Careful
<1>0. Kept
  BY ReconcileStep DEF Owning, Safe
<1>1. "versioning" \in Fields /\ "lifecycle" \in Fields
  BY DEF Fields
<1>2. CASE Bookkeeping /\ UNCHANGED <<buckets, foreign>>
  <2>1. pc' \in {"idle", "check"}
    BY <1>2, Parts, Calls, Migrated, BookkeepingStep DEF Owning
  <2>2. pc' \notin Configuring
    BY <2>1 DEF Configuring, Creating
  <2>3. \A s \in Specs : [s EXCEPT !.migrate = FALSE].name = s.name
    BY BucketAssumption DEF BucketSpec
  <2>4. NewRecords
    BY <1>2, <2>3, Parts, Calls, Migrated, BookkeepingRecords DEF Owning
  <2>5. QED BY <1>0, <1>2, <2>2, <2>4, LeavesBuckets
<1>3. CASE RemoveBucket \/ MakeBucket
  BY <1>0, <1>3, RemoveCareful, MakeCareful
<1>4. CASE BucketExists
  BY <1>0, <1>4, LeavesBuckets, NoNewRecords
     DEF BucketExists, Proceed, Configuring, Creating, Getting
<1>5. ASSUME NEW k \in Fields, GetConfig(k) PROVE Careful
  BY <1>0, <1>5, LeavesBuckets, NoNewRecords
     DEF GetConfig, Proceed, Return, Configuring, Creating, Resetting, Setting, Fields
<1>6. ASSUME NEW k \in Fields, RecordConfig(k) PROVE Careful
  <2>1. After(Getting, k, "recordPolicy") \notin Configuring /\ "idle" \notin Configuring
    BY DEF After, Getting, Configuring, Creating
  <2>2. pc' \notin Configuring
    BY <1>6, <2>1 DEF RecordConfig, Update, UpdateAccepted, UpdateRejected, Return
  <2>3. QED BY <1>0, <1>6, <2>2, LeavesBuckets, RerecordRecords DEF RecordConfig, Owning
<1>7. CASE RecordPolicy
  <2>1. pc' \notin Configuring
    BY <1>7 DEF RecordPolicy, Update, UpdateAccepted, UpdateRejected, Return,
                Configuring, Creating
  <2>2. QED BY <1>0, <1>7, <2>1, LeavesBuckets, RerecordRecords DEF RecordPolicy, Owning
<1>8. CASE GetVersioning \/ ResetVersioning \/ SetVersioning \/ RecordVersioning
  BY <1>0, <1>1, <1>5, <1>6, <1>8, ConfigCareful
     DEF GetVersioning, ResetVersioning, SetVersioning, RecordVersioning
<1>9. CASE GetLifecycle \/ ResetLifecycle \/ SetLifecycle \/ RecordLifecycle
  BY <1>0, <1>1, <1>5, <1>6, <1>9, ConfigCareful
     DEF GetLifecycle, ResetLifecycle, SetLifecycle, RecordLifecycle
<1>10. CASE CreateVersioning \/ CreateLifecycle
  BY <1>0, <1>1, <1>10, CreateConfigCareful DEF CreateVersioning, CreateLifecycle
<1>11. QED BY <1>2, <1>3, <1>4, <1>7, <1>8, <1>9, <1>10 DEF Reconcile

\* So are the start of a call, a watch event, a fault and a user's edit.
LEMMA KubeCareful ==
    ASSUME Owning, UNCHANGED <<buckets, foreign>>, Kept, NEW r \in Resources,
           Start(r) \/ Deliver(r) \/ Fault \/ UserStep(r)
    PROVE  Careful
<1>1. CASE Start(r)
  <2>1. pc' \in {"remove", "clearFinalizer", "addFinalizer", "create", "dropMigrate", "check"}
    BY <1>1 DEF Start, Begin, Branch
  <2>2. pc' \notin Configuring
    BY <2>1 DEF Configuring, Creating
  <2>3. QED BY <1>1, <2>2, LeavesBuckets, NoNewRecords DEF Start, Begin, Get
<1>2. CASE Deliver(r)
  BY <1>2, LeavesBuckets, NoNewRecords DEF Deliver, callVars
<1>3. CASE Fault
  BY <1>3, LeavesBuckets, NoNewRecords DEF Fault, Return, Configuring, Creating
<1>4. CASE UserStep(r)
  <2>1. UNCHANGED <<pc, obj>>
    BY <1>4 DEF UserStep, CreateResource, EditSpec, DeleteResource, UserCommit
  <2>2. QED BY <1>4, <2>1, LeavesBuckets, UserRecords DEF Owning, Inv, TypeOK
<1>5. QED BY <1>1, <1>2, <1>3, <1>4

\* Others make a bucket foreign only under a name that nobody claims.
LEMMA ExternalCareful ==
    ASSUME Owning, UNCHANGED kubeVars, NEW n \in Names,
           ExternalMake(n) \/ ExternalRemove(n) \/ ExternalWrite(n)
    PROVE  Careful
<1>0. \A m \in foreign : m \in Names /\ Exists(m) /\ ~Claimed(m)
  BY DEF Owning, Inv, TypeOK, RecordedIsOwned
<1>1. \A m \in foreign' : buckets'[m] # Absent
  <2>1. CASE ExternalMake(n)
    BY <1>0, <2>1, BucketValues, BucketAssumption DEF ExternalMake, Exists, Owning, Inv, TypeOK
  <2>2. CASE ExternalRemove(n)
    BY <1>0, <2>2 DEF ExternalRemove, Exists, Owning, Inv, TypeOK
  <2>3. CASE ExternalWrite(n)
    <3>1. MinioOK' /\ foreign' = foreign
      BY <2>3, ExternalType DEF Owning, ExternalWrite
    <3>2. \A m \in Names : m # n => buckets'[m] = buckets[m]
      BY <2>3 DEF ExternalWrite, Owning, Inv, TypeOK
    <3>3. buckets'[n] # Absent
      <4>1. buckets[n] \in BucketState
        BY <2>3 DEF ExternalWrite, Exists, Owning, Inv, TypeOK
      <4>2. CASE buckets' = [buckets EXCEPT ![n].objects = ~@]
        <5>1. [buckets[n] EXCEPT !.objects = ~@] \in BucketState
          BY <4>1 DEF BucketState
        <5>2. QED BY <4>2, <5>1, BucketAssumption DEF Owning, Inv, TypeOK
      <4>3. ASSUME NEW k \in Fields, NEW v \in Values[k],
                   buckets' = [buckets EXCEPT ![n].config[k] = Sent(k, v)]
            PROVE  buckets'[n] # Absent
        BY <4>1, <4>3, BucketValues, BucketAssumption DEF Owning, Inv, TypeOK
      <4>4. QED BY <2>3, <4>2, <4>3 DEF ExternalWrite
    <3>4. QED BY <1>0, <3>1, <3>2, <3>3 DEF Exists
  <2>4. QED BY <2>1, <2>2, <2>3
<1>2. \A m \in foreign' : ~Claimed(m)
  BY <1>0 DEF ExternalMake, ExternalRemove, ExternalWrite
<1>3. \A m : Claimed(m)' <=> Claimed(m)
  BY DEF Claimed, Recorded, kubeVars
<1>4. RecordedIsOwned'
  BY <1>1, <1>2, <1>3 DEF RecordedIsOwned, Exists
<1>5. QED BY <1>4 DEF Careful, Spares, kubeVars

\* The strengthened invariant is inductive, and every step is careful.
LEMMA NextCareful == ASSUME Owning, [Next]_vars PROVE Careful
<1>0. Kept
  BY NextStep DEF Owning, Safe
<1>1. CASE Controller
  BY <1>0, <1>1, ReconcileCareful, KubeCareful DEF Controller, Start
<1>2. CASE Environment
  <2>1. CASE Fault /\ UNCHANGED <<buckets, foreign>>
    BY <1>0, <2>1, LeavesBuckets, NoNewRecords DEF Fault, Return, Configuring, Creating
  <2>2. QED BY <1>0, <1>2, <2>1, KubeCareful, ExternalCareful DEF Environment
<1>3. CASE UNCHANGED vars
  BY <1>0, <1>3, LeavesBuckets, NoNewRecords DEF vars, kubeVars
<1>4. QED BY <1>1, <1>2, <1>3 DEF Next

\* Initially the foreign buckets are those there are, and nothing is recorded.
LEMMA InitOwning == ASSUME Init PROVE Owning
<1>1. \A n \in foreign : Exists(n)
  BY BucketValues, BucketAssumption DEF Init, Exists
<1>2. \A n \in foreign : ~Claimed(n)
  BY DEF Init, KubeInit, Claimed, Recorded, Creating
<1>3. QED BY <1>1, <1>2, InitInv DEF Owning, RecordedIsOwned

\* A MinioBucket never records a bucket that somebody else made and that no
\* resource was told to migrate.
THEOREM RecordsOwned == Spec => []RecordedIsOwned
<1>1. Init => Owning
  BY InitOwning
<1>2. Owning /\ [Next]_vars => Owning'
  BY NextStep, NextCareful DEF Owning, Safe, Careful
<1>3. Owning => RecordedIsOwned
  BY DEF Owning
<1>4. QED BY <1>1, <1>2, <1>3, PTL DEF Spec

\* A Reconcile call whose copy of the resource is the stored one never changes
\* or removes somebody else's bucket.
THEOREM ForeignSpared == Spec => FreshCallSparesForeign
<1>1. Init => Owning
  BY InitOwning
<1>2. Owning /\ [Next]_vars => Owning' /\ Spares
  BY NextStep, NextCareful DEF Owning, Safe, Careful
<1>3. QED BY <1>1, <1>2, PTL DEF Spec, FreshCallSparesForeign, Spares
=============================================================================
