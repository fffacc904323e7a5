---------------------------- MODULE PolicyProofs ----------------------------
(***************************************************************************)
(* Proofs about the policy reconciler, for any resources, names, documents *)
(* and cache lag.  As for buckets, TypeOK /\ CallInv is inductive.         *)
(***************************************************************************)
EXTENDS Policy, KubeProofs

Inv == TypeOK /\ CallInv

\* Every step keeps the invariant and is a step of Lifecycle, or shows nothing
\* there.
Safe == Inv' /\ Kept

MinioOK == IamTypeOK
CallNames == {"idle", "addFinalizer", "clearFinalizer"} \cup Making \cup Holding

\* The sets of calls are as the lemmas of KubeProofs expect.
LEMMA Calls == Partition(Making, Holding)
BY DEF Making, Holding, Partition

\* The invariant in the parts the lemmas of KubeProofs speak of.
LEMMA Parts ==
    /\ Inv <=> CallOK(Making, Holding) /\ pc \in CallNames /\ MinioOK
    /\ Inv' <=> CallOK(Making, Holding)' /\ pc' \in CallNames /\ MinioOK'
BY DEF Inv, TypeOK, CallInv, CallOK, MinioOK, CallNames

\* A spec that no longer migrates may be recorded.
LEMMA Migrated == \A s \in Specs : [s EXCEPT !.migrate = FALSE] \in Specs \cap Currents
BY PolicyAssumption DEF Current, PolicySpec

\* What a call finds in its copy.
LEMMA Copy ==
    ASSUME Inv
    PROVE  /\ pc \in Making \cup Holding => obj \in Object /\ obj.spec \in PolicySpec
           /\ pc \in Holding => obj.currentSpec \in Current /\ obj.currentSpec \in PolicySpec
           /\ \A s \in PolicySpec : s.name \in PolicyNames /\ Marshal(s.doc) \in Contents
<1>1. \A s \in PolicySpec : s.name \in PolicyNames /\ Marshal(s.doc) \in Contents
  BY PolicyAssumption DEF PolicySpec
<1>2. QED BY <1>1, Parts, Calls, CallCopy, PolicyAssumption DEF Current

-----------------------------------------------------------------------------
(* MinIO's operations keep the type of its identities.                     *)

\* Writing and removing a policy.
LEMMA PolicyType ==
    ASSUME IamTypeOK, NEW n \in PolicyNames,
           DropPolicy(n) \/ \E c \in Contents : AddCannedPolicy(n, c)
    PROVE  IamTypeOK'
BY DEF IamTypeOK, DropPolicy, AddCannedPolicy

\* Attaching and detaching one.
LEMMA AttachType ==
    ASSUME IamTypeOK, NEW e \in Entities, NEW n \in PolicyNames, Attach(e, n) \/ Detach(e, n)
    PROVE  IamTypeOK'
BY DEF IamTypeOK, Attach, Detach

\* Whoever else is at work leaves the identities alone.
LEMMA IamSame == ASSUME IamTypeOK, UNCHANGED iamVars PROVE IamTypeOK'
BY DEF IamTypeOK, iamVars

-----------------------------------------------------------------------------
(* The steps.                                                              *)

\* MinIO starts with whatever policies others have made.
LEMMA InitInv == Init => Inv
<1> SUFFICES ASSUME Init PROVE Inv
  OBVIOUS
<1>1. CallOK(Making, Holding)
  BY Calls, InitialCall DEF Init
<1>2. MinioOK
  BY DEF Init, MinioOK, IamTypeOK
<1>3. QED BY <1>1, <1>2, Parts DEF Init, KubeInit, CallNames

\* Reconcile returns.
LEMMA Ends == ASSUME Inv, Return, UNCHANGED <<store, lag>>, MinioOK' PROVE Safe
BY Parts, Calls, ReturnStep DEF Return, CallNames, Safe

\* Reconcile goes on, making a policy or tending one.
LEMMA GoesOn ==
    ASSUME Inv, NEW next, Proceed(next), UNCHANGED <<store, lag>>, MinioOK',
           \/ pc \in Making /\ next \in Making
           \/ pc \in Holding /\ next \in Holding
    PROVE  Safe
BY Parts, Calls, ProceedStep DEF Proceed, CallNames, Safe

\* Removing the recorded policy leaves the record in place until it is cleared.
LEMMA RemovePolicyStep == ASSUME Inv, RemovePolicy PROVE Safe
<1>1. pc \in Holding /\ "clearStatus" \in Holding
  BY DEF RemovePolicy, Holding
<1>2. obj.currentSpec.name \in PolicyNames
  BY <1>1, Copy
<1>3. MinioOK'
  BY <1>2, PolicyType, IamSame DEF RemovePolicy, MinioOK, Inv, TypeOK
<1>4. Return \/ Proceed("clearStatus")
  BY DEF RemovePolicy
<1>5. QED BY <1>1, <1>3, <1>4, Ends, GoesOn DEF RemovePolicy

\* Looking the recorded policy up changes nothing.
LEMMA CheckPolicyStep == ASSUME Inv, CheckPolicy PROVE Safe
<1>1. pc \in Holding /\ {"clearStatus", "update", "restore"} \subseteq Holding
  BY DEF CheckPolicy, Holding
<1>2. MinioOK'
  BY IamSame DEF CheckPolicy, MinioOK, Inv, TypeOK
<1>3. Return \/ Proceed("clearStatus") \/ Proceed("update") \/ Proceed("restore")
  BY DEF CheckPolicy
<1>4. QED BY <1>1, <1>2, <1>3, Ends, GoesOn DEF CheckPolicy

\* The spec's document is written under the recorded name.
LEMMA UpdatePolicyStep == ASSUME Inv, UpdatePolicy PROVE Safe
<1>1. pc \in Holding /\ "record" \in Holding
  BY DEF UpdatePolicy, Holding
<1>2. obj.currentSpec.name \in PolicyNames /\ Marshal(obj.spec.doc) \in Contents
  BY <1>1, Copy
<1>3. MinioOK'
  BY <1>2, PolicyType DEF UpdatePolicy, MinioOK, Inv, TypeOK
<1>4. QED BY <1>1, <1>3, GoesOn DEF UpdatePolicy

\* Recording the document changes nothing else of the record.
LEMMA RecordPolicyStep == ASSUME Inv, RecordPolicy PROVE Safe
<1> DEFINE c == [obj.currentSpec EXCEPT !.doc = obj.spec.doc]
           o == [obj EXCEPT !.currentSpec = c]
<1>1. pc \in Holding
  BY DEF RecordPolicy, Holding
<1>2. c \in Current /\ c.name = obj.currentSpec.name
  BY <1>1, Copy DEF Current, PolicySpec
<1>3. c \in Currents /\ c # Nil
  BY <1>2, KubeAssumption, PolicyAssumption
<1>4. Update(o, "idle") /\ UNCHANGED iamVars
  BY DEF RecordPolicy
<1>5. /\ o \in Object /\ o.finalizer = obj.finalizer /\ o.deleting = obj.deleting
      /\ o.currentSpec = c
  BY <1>1, <1>3, Copy DEF Object
<1> HIDE DEF o, c
<1>6. CallOK(Making, Holding)' /\ Kept /\ pc' = "idle"
  BY <1>1, <1>2, <1>3, <1>4, <1>5, Parts, Calls, RecordStep
<1>7. QED BY <1>4, <1>6, Parts, IamSame DEF Safe, MinioOK, CallNames

\* The recorded document is written back.
LEMMA RestorePolicyStep == ASSUME Inv, RestorePolicy PROVE Safe
<1>1. pc \in Holding
  BY DEF RestorePolicy, Holding
<1>2. obj.currentSpec.name \in PolicyNames /\ Marshal(obj.currentSpec.doc) \in Contents
  BY <1>1, Copy
<1>3. MinioOK'
  BY <1>2, PolicyType DEF RestorePolicy, MinioOK, Inv, TypeOK
<1>4. QED BY <1>3, Ends DEF RestorePolicy

\* Looking the policy to be made up changes nothing, answered or not.
LEMMA LookupStep == ASSUME Inv, LookupPolicy \/ LookupFails PROVE Safe
<1>1. pc \in Making /\ "add" \in Making
  BY DEF LookupPolicy, LookupFails, Making
<1>2. MinioOK'
  BY IamSame DEF LookupPolicy, LookupFails, MinioOK, Inv, TypeOK
<1>3. Return \/ Proceed("add")
  BY DEF LookupPolicy, LookupFails
<1>4. QED BY <1>1, <1>2, <1>3, Ends, GoesOn DEF LookupPolicy, LookupFails

\* The new policy is written before it is recorded.
LEMMA AddPolicyStep == ASSUME Inv, AddPolicy PROVE Safe
<1>1. pc \in Making /\ "setStatus" \in Making
  BY DEF AddPolicy, Making
<1>2. obj.spec.name \in PolicyNames /\ Marshal(obj.spec.doc) \in Contents
  BY <1>1, Copy
<1>3. MinioOK'
  BY <1>2, PolicyType DEF AddPolicy, MinioOK, Inv, TypeOK
<1>4. QED BY <1>1, <1>3, GoesOn DEF AddPolicy

\* Every step of the controller is safe.
LEMMA ControllerStep == ASSUME Inv, Controller PROVE Safe
<1>1. CASE Bookkeeping /\ UNCHANGED iamVars
  <2>1. CallOK(Making, Holding)' /\ Kept /\ pc' \in {"idle", "check"}
    BY <1>1, Parts, Calls, Migrated, BookkeepingStep
  <2>2. MinioOK'
    BY <1>1, IamSame DEF MinioOK, Inv, TypeOK
  <2>3. QED BY <2>1, <2>2, Parts DEF Safe, CallNames, Holding
<1>2. ASSUME NEW r \in Resources, Start(r) PROVE Safe
  <2>1. MinioOK'
    BY <1>2, IamSame DEF Start, MinioOK, Inv, TypeOK
  <2>2. QED BY <1>2, <2>1, Parts, Calls, BeginStep DEF Start, Safe, CallNames
<1>3. ASSUME NEW r \in Resources, Deliver(r), UNCHANGED iamVars PROVE Safe
  <2>1. CallOK(Making, Holding)' /\ Kept
    BY <1>3, Parts, DeliverStep
  <2>2. MinioOK'
    BY <1>3, IamSame DEF MinioOK, Inv, TypeOK
  <2>3. QED BY <1>3, <2>1, <2>2, Parts DEF Deliver, callVars, Safe
<1>4. QED BY <1>1, <1>2, <1>3, RemovePolicyStep, CheckPolicyStep, UpdatePolicyStep,
             RecordPolicyStep, RestorePolicyStep, LookupStep, AddPolicyStep
          DEF Controller, Reconcile

\* So is every step of the environment.
LEMMA EnvironmentStep == ASSUME Inv, Environment PROVE Safe
<1>1. ASSUME Fault, UNCHANGED iamVars PROVE Safe
  BY <1>1, Ends, IamSame DEF Fault, MinioOK, Inv, TypeOK
<1>2. ASSUME NEW r \in Resources, UserStep(r), UNCHANGED iamVars PROVE Safe
  <2>1. CallOK(Making, Holding)' /\ Kept
    BY <1>2, Parts, UserStepStep
  <2>2. pc' = pc
    BY <1>2 DEF UserStep, CreateResource, EditSpec, DeleteResource, UserCommit
  <2>3. MinioOK'
    BY <1>2, IamSame DEF MinioOK, Inv, TypeOK
  <2>4. QED BY <2>1, <2>2, <2>3, Parts DEF Safe
<1>3. ASSUME NEW n \in PolicyNames, UNCHANGED kubeVars,
             ExternalAdd(n) \/ ExternalRemove(n) \/ \E e \in Entities : ExternalAttach(e, n)
      PROVE  Safe
  <2>1. CallOK(Making, Holding)' /\ Kept
    BY <1>3, Parts, ElsewhereStep
  <2>2. CASE ExternalAdd(n)
    <3>1. MinioOK'
      BY <2>2, PolicyType DEF ExternalAdd, MinioOK, Inv, TypeOK
    <3>2. QED BY <1>3, <2>1, <3>1, Parts DEF kubeVars, Safe
  <2>3. CASE ExternalRemove(n)
    <3>1. MinioOK'
      BY <2>3, PolicyType DEF ExternalRemove, MinioOK, Inv, TypeOK
    <3>2. QED BY <1>3, <2>1, <3>1, Parts DEF kubeVars, Safe
  <2>4. CASE \E e \in Entities : ExternalAttach(e, n)
    <3>1. MinioOK'
      BY <2>4, AttachType DEF ExternalAttach, MinioOK, Inv, TypeOK
    <3>2. QED BY <1>3, <2>1, <3>1, Parts DEF kubeVars, Safe
  <2>5. QED BY <1>3, <2>2, <2>3, <2>4
<1>4. QED BY <1>1, <1>2, <1>3, LookupStep DEF Environment

\* TypeOK and CallInv are inductive, and every step is safe.
LEMMA NextStep == ASSUME Inv, [Next]_vars PROVE Safe
<1>1. CASE Next
  BY <1>1, ControllerStep, EnvironmentStep DEF Next
<1>2. CASE UNCHANGED vars
  <2>1. CallOK(Making, Holding)' /\ Kept
    BY <1>2, Parts, ElsewhereStep DEF vars
  <2>2. MinioOK'
    BY <1>2, IamSame DEF vars, MinioOK, Inv, TypeOK
  <2>3. QED BY <1>2, <2>1, <2>2, Parts DEF vars, kubeVars, Safe
<1>3. QED BY <1>1, <1>2

-----------------------------------------------------------------------------
(* The theorems.                                                           *)

\* The reconciler's state, the resources and MinIO's identities are always of
\* the declared type: in particular no status ever records migrate.
THEOREM TypeCorrect == Spec => []TypeOK
<1>1. Init => Inv
  BY InitInv
<1>2. Inv /\ [Next]_vars => Inv'
  BY NextStep DEF Safe
<1>3. Inv => TypeOK
  BY DEF Inv
<1>4. QED BY <1>1, <1>2, <1>3, PTL DEF Spec

\* Whatever the cache showed it and wherever it is interrupted, Reconcile is
\* always at a call its copy of the MinioPolicy entitles it to.
THEOREM CallsEntitled == Spec => []CallInv
<1>1. Init => Inv
  BY InitInv
<1>2. Inv /\ [Next]_vars => Inv'
  BY NextStep DEF Safe
<1>3. Inv => CallInv
  BY DEF Inv
<1>4. QED BY <1>1, <1>2, <1>3, PTL DEF Spec

\* The controller of a MinioPolicy implements module Lifecycle: whatever the cache
\* showed and wherever calls are cut short, the resource is held before it
\* records a policy, keeps the recorded name, and goes only without a record.
THEOREM Refinement == Spec => FollowsLifecycle
<1>1. Init => Inv /\ Life!Init
  BY InitInv, InitialLife DEF Init
<1>2. Inv /\ [Next]_vars => Inv' /\ [Life!Next]_(Life!lifeVars)
  BY NextStep DEF Safe, Kept
<1>3. QED BY <1>1, <1>2, PTL DEF Spec, FollowsLifecycle, Life!Spec
=============================================================================
