-------------------------- MODULE PolicySystemProofs ------------------------
(***************************************************************************)
(* Proofs about the policy and the policy binding controllers on the same  *)
(* MinIO, for any resources, identities, policies and cache lags.  The     *)
(* policy controller's steps are those of PolicyProofs, the binding        *)
(* controller's are all of the kinds KubeProofs names; each keeps its own  *)
(* part of TypeOK /\ CallInv and does not touch the other's.               *)
(***************************************************************************)
EXTENDS PolicySystem, TLAPS

PP == INSTANCE PolicyProofs WITH
        Resources <- PolicyResources, Specs <- PolicySpecs, Currents <- PolicyCurrents,
        MaxLag <- PolicyMaxLag,
        store <- pStore, lag <- pLag, req <- pReq, obj <- pObj, fresh <- pFresh, pc <- pPc

KB == INSTANCE KubeProofs WITH
        Resources <- BindingResources, Specs <- BindingSpecs, Currents <- BindingCurrents,
        MaxLag <- BindingMaxLag,
        store <- bStore, lag <- bLag, req <- bReq, obj <- bObj, fresh <- bFresh, pc <- bPc

BindingOK == KB!CallOK(B!Making, B!Holding) /\ bPc \in KB!CallNamesOf(B!Making, B!Holding)

Inv == PP!Inv /\ BindingOK /\ IamTypeOK

\* A step keeps the invariant and is, for both kinds, a step of Lifecycle or
\* shows nothing there.
Safe == Inv' /\ PP!Kept /\ KB!Kept

-----------------------------------------------------------------------------
(* Module Policy as the system has it is the one of PolicyProofs, and      *)
(* module Kube under the bindings is the one of KubeProofs.                *)

\* What those modules assume of their constants.
LEMMA Assumed ==
    /\ PP!KubeAssumption /\ PP!PolicyAssumption /\ PP!IamAssumption
    /\ KB!KubeAssumption /\ KB!Partition(B!Making, B!Holding)
<1>1. PP!KubeAssumption
  BY SystemAssumption DEF P!KubeAssumption, PP!KubeAssumption, P!Object, PP!Object
<1>2. PP!PolicyAssumption
  BY SystemAssumption
  DEF P!PolicyAssumption, PP!PolicyAssumption, P!PolicySpec, PP!PolicySpec,
      P!Current, PP!Current, P!Docs, PP!Docs, P!Policies, PP!Policies, P!Marshal, PP!Marshal
<1>3. PP!IamAssumption
  BY IamAssumption DEF PP!IamAssumption
<1>4. KB!KubeAssumption
  BY SystemAssumption DEF B!KubeAssumption, KB!KubeAssumption, B!Object, KB!Object
<1>5. KB!Partition(B!Making, B!Holding)
  BY DEF B!Making, B!Holding, KB!Partition
<1>6. QED BY <1>1, <1>2, <1>3, <1>4, <1>5

\* The policy controller: its steps,
LEMMA PolicySteps == P!Controller => PP!Controller
BY DEF P!Controller, PP!Controller, P!Reconcile, PP!Reconcile,
       P!Bookkeeping, PP!Bookkeeping, P!AddFinalizer, PP!AddFinalizer,
       P!ClearFinalizer, PP!ClearFinalizer, P!ClearStatus, PP!ClearStatus,
       P!DropMigrate, PP!DropMigrate, P!SetStatus, PP!SetStatus, P!Update, PP!Update,
       P!UpdateAccepted, PP!UpdateAccepted, P!UpdateRejected, PP!UpdateRejected,
       P!Return, PP!Return, P!Commit, PP!Commit, P!Stored, PP!Stored,
       P!KeepRecent, PP!KeepRecent, P!Begin, PP!Begin, P!Get, PP!Get, P!Branch, PP!Branch,
       P!Cached, PP!Cached, P!Deliver, PP!Deliver, P!callVars, PP!callVars,
       P!RemovePolicy, PP!RemovePolicy, P!CheckPolicy, PP!CheckPolicy,
       P!UpdatePolicy, PP!UpdatePolicy, P!RecordPolicy, PP!RecordPolicy,
       P!RestorePolicy, PP!RestorePolicy, P!LookupPolicy, PP!LookupPolicy,
       P!AddPolicy, PP!AddPolicy, P!Proceed, PP!Proceed, P!HasPolicy, PP!HasPolicy,
       P!InUse, PP!InUse, P!Entities, PP!Entities, P!DropPolicy, PP!DropPolicy,
       P!AddCannedPolicy, PP!AddCannedPolicy, P!getHash, PP!getHash, P!iamVars, PP!iamVars,
       P!UnmarshalledHash, PP!UnmarshalledHash, P!Marshal, PP!Marshal, P!Start, PP!Start

\* its part of the invariant,
LEMMA PolicyParts ==
    /\ PP!Inv <=> P!TypeOK /\ P!CallInv
    /\ PP!IamTypeOK <=> IamTypeOK
    /\ P!KubeInit => PP!KubeInit
<1>1. P!KubeTypeOK <=> PP!KubeTypeOK
  BY DEF P!KubeTypeOK, PP!KubeTypeOK, P!Version, PP!Version, P!Object, PP!Object
<1>2. P!KubeInv <=> PP!KubeInv
  BY DEF P!KubeInv, PP!KubeInv, P!Guarded, PP!Guarded
<1>3. P!Making = PP!Making /\ P!Holding = PP!Holding
  BY DEF P!Making, PP!Making, P!Holding, PP!Holding
<1>4. P!Entitled(P!Making, P!Holding) <=> PP!Entitled(PP!Making, PP!Holding)
  BY <1>3 DEF P!Entitled, PP!Entitled
<1>5. (P!IamTypeOK <=> IamTypeOK) /\ (PP!IamTypeOK <=> IamTypeOK)
  BY DEF P!IamTypeOK, PP!IamTypeOK, IamTypeOK, P!Entities, PP!Entities, Entities
<1>6. P!KubeInit => PP!KubeInit
  BY DEF P!KubeInit, PP!KubeInit
<1>7. QED BY <1>1, <1>2, <1>3, <1>4, <1>5, <1>6
          DEF PP!Inv, P!TypeOK, PP!TypeOK, P!CallInv, PP!CallInv

\* and what it shows to Lifecycle.
LEMMA PolicyLife ==
    /\ PP!Life!Init => P!Life!Init
    /\ PP!Kept => [P!Life!Next]_(P!Life!lifeVars)
BY DEF PP!Kept, P!Life!Init, PP!Life!Init, P!Life!Next, PP!Life!Next,
       P!Life!lifeVars, PP!Life!lifeVars, P!Life!Create, PP!Life!Create,
       P!Life!Hold, PP!Life!Hold, P!Life!Record, PP!Life!Record,
       P!Life!Forget, PP!Life!Forget, P!Life!Mark, PP!Life!Mark,
       P!Life!Vanish, PP!Life!Vanish, P!existing, PP!existing, P!held, PP!held,
       P!dying, PP!dying, P!record, PP!record, P!Recorded, PP!Recorded,
       P!recordable, PP!recordable

\* The policy binding controller likewise: its bookkeeping,
LEMMA BindingBookkeeping == B!Bookkeeping => KB!Bookkeeping
BY DEF B!Bookkeeping, KB!Bookkeeping, B!AddFinalizer, KB!AddFinalizer,
       B!ClearFinalizer, KB!ClearFinalizer, B!ClearStatus, KB!ClearStatus,
       B!DropMigrate, KB!DropMigrate, B!SetStatus, KB!SetStatus, B!Update, KB!Update,
       B!UpdateAccepted, KB!UpdateAccepted, B!UpdateRejected, KB!UpdateRejected,
       B!Return, KB!Return, B!Commit, KB!Commit, B!Stored, KB!Stored,
       B!KeepRecent, KB!KeepRecent

\* its part of the invariant,
LEMMA BindingParts ==
    /\ BindingOK /\ IamTypeOK /\ B!RecordedIsOwned => B!TypeOK /\ B!CallInv
    /\ B!KubeInit => KB!KubeInit
<1>1. B!KubeTypeOK <=> KB!KubeTypeOK
  BY DEF B!KubeTypeOK, KB!KubeTypeOK, B!Version, KB!Version, B!Object, KB!Object
<1>2. B!KubeInv <=> KB!KubeInv
  BY DEF B!KubeInv, KB!KubeInv, B!Guarded, KB!Guarded
<1>3. B!Entitled(B!Making, B!Holding) <=> KB!Entitled(B!Making, B!Holding)
  BY DEF B!Entitled, KB!Entitled
<1>4. B!IamTypeOK <=> IamTypeOK
  BY DEF B!IamTypeOK, IamTypeOK, B!Entities, Entities
<1>5. B!KubeInit => KB!KubeInit
  BY DEF B!KubeInit, KB!KubeInit
<1>6. IamTypeOK /\ B!RecordedIsOwned => foreign \subseteq B!Entities \X PolicyNames
  BY DEF IamTypeOK, B!RecordedIsOwned, B!Entities, Entities
<1>7. QED BY <1>1, <1>2, <1>3, <1>4, <1>5, <1>6
          DEF B!TypeOK, B!CallInv, BindingOK, KB!CallOK, KB!CallNamesOf

\* and what it shows to Lifecycle.
LEMMA BindingLife ==
    /\ KB!Life!Init => B!Life!Init
    /\ KB!Kept => [B!Life!Next]_(B!Life!lifeVars)
BY DEF KB!Kept, B!Life!Init, KB!Life!Init, B!Life!Next, KB!Life!Next,
       B!Life!lifeVars, KB!Life!lifeVars, B!Life!Create, KB!Life!Create,
       B!Life!Hold, KB!Life!Hold, B!Life!Record, KB!Life!Record,
       B!Life!Forget, KB!Life!Forget, B!Life!Mark, KB!Life!Mark,
       B!Life!Vanish, KB!Life!Vanish, B!existing, KB!existing, B!held, KB!held,
       B!dying, KB!dying, B!record, KB!record, B!Recorded, KB!Recorded,
       B!recordable, KB!recordable

-----------------------------------------------------------------------------
(* The policy controller's part.                                           *)

\* The controller's own steps, failed calls and what users do to MinioPolicys.
LEMMA PolicyStep ==
    ASSUME Inv,
           \/ P!Controller
           \/ /\ P!Fault \/ \E r \in PolicyResources : P!UserStep(r)
              /\ UNCHANGED iamVars
    PROVE  PP!Safe
<1>1. CASE P!Controller
  <2>1. PP!Controller
    BY <1>1, PolicySteps
  <2>2. QED BY <2>1, Assumed, PP!ControllerStep DEF Inv
<1>2. CASE P!Fault /\ UNCHANGED iamVars
  <2>1. PP!Environment
    BY <1>2 DEF PP!Environment, P!Fault, PP!Fault, P!Return, PP!Return, iamVars, PP!iamVars
  <2>2. QED BY <2>1, Assumed, PP!EnvironmentStep DEF Inv
<1>3. ASSUME NEW r \in PolicyResources, P!UserStep(r), UNCHANGED iamVars PROVE PP!Safe
  <2>1. PP!UserStep(r)
    BY <1>3 DEF P!UserStep, PP!UserStep, P!CreateResource, PP!CreateResource,
                P!EditSpec, PP!EditSpec, P!DeleteResource, PP!DeleteResource,
                P!UserCommit, PP!UserCommit, P!Commit, PP!Commit, P!KeepRecent, PP!KeepRecent
  <2>2. PP!Environment
    BY <1>3, <2>1 DEF PP!Environment, iamVars, PP!iamVars
  <2>3. QED BY <2>2, Assumed, PP!EnvironmentStep DEF Inv
<1>4. QED BY <1>1, <1>2, <1>3

\* Any step of somebody else that keeps the type of MinIO's identities.
LEMMA PolicyElsewhere ==
    ASSUME Inv, UNCHANGED policyVars, IamTypeOK' PROVE PP!Safe
<1>1. PP!CallOK(PP!Making, PP!Holding) /\ pPc \in PP!CallNames
  BY Assumed, PP!Parts DEF Inv
<1>2. UNCHANGED PP!kubeVars
  BY DEF policyVars, PP!kubeVars
<1>3. PP!CallOK(PP!Making, PP!Holding)' /\ PP!Kept
  BY <1>1, <1>2, Assumed, PP!ElsewhereStep
<1>4. PP!MinioOK'
  BY DEF IamTypeOK, PP!MinioOK, PP!IamTypeOK, Entities, PP!Entities
<1>5. pPc' \in PP!CallNames
  BY <1>1 DEF policyVars
<1>6. QED BY <1>3, <1>4, <1>5, Assumed, PP!Parts DEF PP!Safe

-----------------------------------------------------------------------------
(* The binding controller's part.                                          *)

\* A plain step of the binding controller keeps its part of the invariant.
LEMMA BindingPlain == ASSUME Inv, KB!Plain(B!Making, B!Holding) PROVE BindingOK' /\ KB!Kept
<1>1. \A s \in BindingSpecs : [s EXCEPT !.migrate = FALSE] \in BindingSpecs \cap BindingCurrents
  BY SystemAssumption DEF B!BindingAssumption, B!BindingSpec, B!Current
<1>2. QED BY <1>1, Assumed, KB!PlainStep DEF Inv, BindingOK

\* A call works on the pair of an identity and a policy.
LEMMA Copies ==
    ASSUME Inv
    PROVE  /\ bPc \in B!Making =>
                bObj.spec.name[1] \in Entities /\ bObj.spec.name[2] \in PolicyNames
           /\ bPc \in B!Holding =>
                bObj.currentSpec.name[1] \in Entities /\ bObj.currentSpec.name[2] \in PolicyNames
<1>1. \A s \in B!BindingSpec : s.name[1] \in Entities /\ s.name[2] \in PolicyNames
  BY DEF B!BindingSpec, B!Entities, Entities
<1>2. /\ bPc \in B!Making => bObj.spec \in BindingSpecs
      /\ bPc \in B!Holding => bObj.currentSpec \in BindingCurrents
  BY Assumed, KB!CallCopy DEF Inv, BindingOK
<1>3. QED BY <1>1, <1>2, SystemAssumption DEF B!BindingAssumption, B!Current

\* The binding controller attaches, looks up and detaches policies.
LEMMA BindingControllerStep ==
    ASSUME Inv, B!Controller PROVE KB!Plain(B!Making, B!Holding) /\ IamTypeOK'
<1> USE DEF Inv
<1>1. UNCHANGED B!minioVars => IamTypeOK'
  BY DEF B!minioVars, B!iamVars, IamTypeOK
<1>2. CASE B!DetachPolicy
  <2>1. bPc \in B!Holding /\ "clearStatus" \in B!Holding
    BY <1>2 DEF B!DetachPolicy, B!Holding
  <2>2. KB!Return \/ KB!Proceed("clearStatus")
    BY <1>2 DEF B!DetachPolicy, B!Return, KB!Return, B!Proceed, KB!Proceed
  <2>3. UNCHANGED B!minioVars \/ \E e \in Entities, n \in PolicyNames : B!Detach(e, n)
    BY <1>2, <2>1, Copies DEF B!DetachPolicy, B!Drop
  <2>4. ASSUME NEW e \in Entities, NEW n \in PolicyNames, B!Detach(e, n) PROVE IamTypeOK'
    BY <2>4 DEF B!Detach, IamTypeOK
  <2>5. QED BY <1>1, <1>2, <2>1, <2>2, <2>3, <2>4 DEF B!DetachPolicy, KB!Plain, KB!Passes
<1>3. CASE B!CheckBinding
  <2>1. bPc \in B!Holding /\ "clearStatus" \in B!Holding
    BY <1>3 DEF B!CheckBinding, B!Holding
  <2>2. KB!Return \/ KB!Proceed("clearStatus")
    BY <1>3 DEF B!CheckBinding, B!Return, KB!Return, B!Proceed, KB!Proceed
  <2>3. QED BY <1>1, <1>3, <2>1, <2>2 DEF B!CheckBinding, KB!Plain, KB!Passes
<1>4. CASE B!AttachPolicy
  <2>1. bPc \in B!Making /\ "setStatus" \in B!Making
    BY <1>4 DEF B!AttachPolicy, B!Making
  <2>2. KB!Return \/ KB!Proceed("setStatus")
    BY <1>4 DEF B!AttachPolicy, B!Return, KB!Return, B!Proceed, KB!Proceed
  <2>3. UNCHANGED B!iamVars \/ \E e \in Entities, n \in PolicyNames : B!Attach(e, n)
    BY <1>4, <2>1, Copies DEF B!AttachPolicy, B!minioVars
  <2>4. ASSUME NEW e \in Entities, NEW n \in PolicyNames, B!Attach(e, n) PROVE IamTypeOK'
    BY <2>4 DEF B!Attach, IamTypeOK
  <2>5. UNCHANGED B!iamVars => IamTypeOK'
    BY DEF B!iamVars, IamTypeOK
  <2>6. QED BY <1>4, <2>1, <2>2, <2>3, <2>4, <2>5 DEF B!AttachPolicy, KB!Plain, KB!Passes
<1>5. CASE B!Bookkeeping /\ UNCHANGED B!minioVars
  BY <1>1, <1>5, BindingBookkeeping DEF KB!Plain
<1>6. ASSUME NEW r \in BindingResources, B!Start(r) \/ (B!Deliver(r) /\ UNCHANGED B!minioVars)
      PROVE  KB!Plain(B!Making, B!Holding) /\ IamTypeOK'
  <2>1. (B!Begin(r) \/ B!Deliver(r)) /\ UNCHANGED B!minioVars
    BY <1>6 DEF B!Start
  <2>2. KB!Begin(r) \/ KB!Deliver(r)
    BY <2>1 DEF B!Begin, KB!Begin, B!Get, KB!Get, B!Branch, KB!Branch,
                B!Cached, KB!Cached, B!Deliver, KB!Deliver, B!callVars, KB!callVars
  <2>3. KB!Plain(B!Making, B!Holding)
    BY <2>2 DEF KB!Plain
  <2>4. QED BY <1>1, <2>1, <2>3
<1>7. QED BY <1>2, <1>3, <1>4, <1>5, <1>6 DEF B!Controller, B!Reconcile

\* Failed calls, what users do to MinioPolicyBindings, and what others do to
\* identities, policies and attachments.
LEMMA BindingEnvironmentStep ==
    ASSUME Inv, B!Environment PROVE KB!Plain(B!Making, B!Holding) /\ IamTypeOK'
<1> USE DEF Inv
<1>1. UNCHANGED B!minioVars => IamTypeOK'
  BY DEF B!minioVars, B!iamVars, IamTypeOK
<1>2. CASE B!Fault /\ UNCHANGED B!minioVars
  BY <1>1, <1>2 DEF B!Fault, B!Return, KB!Return, KB!Plain, KB!Passes
<1>3. ASSUME NEW r \in BindingResources, B!UserStep(r) PROVE KB!Plain(B!Making, B!Holding)
  <2>1. KB!UserStep(r)
    BY <1>3 DEF B!UserStep, KB!UserStep, B!CreateResource, KB!CreateResource,
                B!EditSpec, KB!EditSpec, B!DeleteResource, KB!DeleteResource,
                B!UserCommit, KB!UserCommit, B!Commit, KB!Commit, B!KeepRecent, KB!KeepRecent
  <2>2. QED BY <2>1 DEF KB!Plain
<1>4. UNCHANGED B!kubeVars => KB!Plain(B!Making, B!Holding)
  BY DEF B!kubeVars, KB!kubeVars, KB!Plain
<1>5. ASSUME NEW u \in Users, B!DropUser(u) PROVE IamTypeOK'
  <2>1. \A g \in Groups : B!HasGroup(g) => groups[g] \ {u} \in SUBSET Users
    BY DEF B!HasGroup, IamTypeOK
  <2>2. groups' \in [Groups -> {NoEntry} \cup SUBSET Users]
    BY <1>5, <2>1 DEF B!DropUser
  <2>3. QED BY <1>5, <2>2 DEF B!DropUser, IamTypeOK
<1>6. ASSUME NEW u \in Users, NEW k \in SecretKeys, B!AddUser(u, k) PROVE IamTypeOK'
  BY <1>6 DEF B!AddUser, IamTypeOK
<1>7. ASSUME NEW g \in Groups, B!DropGroup(g) \/ B!MakeGroup(g) PROVE IamTypeOK'
  BY <1>7 DEF B!DropGroup, B!MakeGroup, B!HasGroup, IamTypeOK
<1>8. ASSUME NEW n \in PolicyNames, B!DropPolicy(n) \/ \E c \in Contents : B!AddCannedPolicy(n, c)
      PROVE  IamTypeOK'
  BY <1>8 DEF B!DropPolicy, B!AddCannedPolicy, IamTypeOK
<1>9. ASSUME NEW e \in Entities, NEW n \in PolicyNames, B!ExternalAttach(e, n) PROVE IamTypeOK'
  BY <1>9 DEF B!ExternalAttach, B!Drop, B!Attach, B!Detach, IamTypeOK
<1>10. B!ExternalIdentity => IamTypeOK'
  BY <1>5, <1>6, <1>7, <1>8 DEF B!ExternalIdentity, B!OtherUser, B!OtherGroup
<1>11. B!Entities = Entities
  BY DEF B!Entities, Entities
<1>12. QED BY <1>1, <1>2, <1>3, <1>4, <1>9, <1>10, <1>11 DEF B!Environment

-----------------------------------------------------------------------------
(* All of them together.                                                   *)

\* The invariant is inductive, and every step is safe.
LEMMA NextStep == ASSUME Inv, [Next]_vars PROVE Safe
<1>1. UNCHANGED bindingVars => KB!Plain(B!Making, B!Holding)
  BY DEF bindingVars, KB!kubeVars, KB!Plain
<1>2. UNCHANGED iamVars => IamTypeOK'
  BY DEF Inv, iamVars, IamTypeOK
<1>3. PP!Safe => IamTypeOK'
  BY DEF PP!Safe, PP!Inv, PP!TypeOK, PP!IamTypeOK, IamTypeOK, PP!Entities, Entities
<1>4. PP!Safe /\ KB!Plain(B!Making, B!Holding)
  <2>1. CASE PolicyController
    BY <1>1, <2>1, PolicyStep DEF PolicyController
  <2>2. CASE BindingController
    BY <2>2, BindingControllerStep, PolicyElsewhere DEF BindingController
  <2>3. CASE B!Environment /\ UNCHANGED policyVars
    BY <2>3, BindingEnvironmentStep, PolicyElsewhere
  <2>4. CASE /\ P!Fault \/ \E r \in PolicyResources : P!UserStep(r)
             /\ UNCHANGED <<bindingVars, iamVars>>
    BY <1>1, <2>4, PolicyStep
  <2>5. CASE UNCHANGED vars
    BY <1>1, <1>2, <2>5, PolicyElsewhere DEF vars
  <2>6. QED BY <2>1, <2>2, <2>3, <2>4, <2>5 DEF Next, Controllers, Environment
<1>5. QED BY <1>3, <1>4, BindingPlain DEF Safe, PP!Safe, Inv

\* Initially there are policies, users and groups, and some attachments.
LEMMA InitInv == Init => Inv /\ PP!KubeInit /\ KB!KubeInit
<1> SUFFICES ASSUME Init PROVE Inv /\ PP!KubeInit /\ KB!KubeInit
  OBVIOUS
<1>1. PP!KubeInit /\ KB!KubeInit
  BY PolicyParts, BindingParts DEF Init, B!Init
<1>2. IamTypeOK
  BY DEF Init, B!Init, IamTypeOK, B!Entities, Entities
<1>3. PP!Inv
  <2>1. PP!CallOK(PP!Making, PP!Holding)
    BY <1>1, Assumed, PP!Calls, PP!InitialCall
  <2>2. PP!MinioOK /\ pPc \in PP!CallNames
    BY <1>1, <1>2, PolicyParts DEF PP!MinioOK, PP!KubeInit, PP!CallNames
  <2>3. QED BY <2>1, <2>2, Assumed, PP!Parts
<1>4. BindingOK
  BY <1>1, Assumed, KB!InitialCall DEF BindingOK, KB!KubeInit, KB!CallNamesOf
<1>5. QED BY <1>1, <1>2, <1>3, <1>4 DEF Inv

-----------------------------------------------------------------------------
(***************************************************************************)
(* A binding leaves other people's attachments alone while its copy of the *)
(* resource is the stored one.  Inv is strengthened by RecordedIsOwned: an *)
(* attachment in 'foreign' is there, no resource records it and no call is *)
(* about to.                                                               *)
(***************************************************************************)

Owning == Inv /\ RecordedIsOwned

Spares == \A binding \in foreign : bPc' # bPc /\ bFresh => binding \in attached'
Careful == RecordedIsOwned' /\ Spares

\* RecordedIsOwned, spelled out.
LEMMA OwnedParts ==
    /\ RecordedIsOwned <=>
         /\ foreign \subseteq attached
         /\ \A r \in BindingResources : KB!Recorded(r) => bStore[r].currentSpec.name \notin foreign
         /\ bPc = "setStatus" => bObj.spec.name \notin foreign
    /\ RecordedIsOwned' <=>
         /\ foreign' \subseteq attached'
         /\ \A r \in BindingResources :
              KB!Recorded(r)' => bStore'[r].currentSpec.name \notin foreign'
         /\ bPc' = "setStatus" => bObj'.spec.name \notin foreign'
BY DEF RecordedIsOwned, B!RecordedIsOwned, B!Claimed, B!Recorded, KB!Recorded

\* Records come about only at "setStatus".
LEMMA BindingRecords == ASSUME Inv, KB!Plain(B!Making, B!Holding) PROVE KB!NewRecords
<1>1. \A s \in BindingSpecs : LET m == [s EXCEPT !.migrate = FALSE]
                              IN m \in BindingSpecs \cap BindingCurrents /\ m.name = s.name
  BY SystemAssumption DEF B!BindingAssumption, B!BindingSpec, B!Current
<1>2. QED BY <1>1, Assumed, KB!PlainRecords DEF Inv, BindingOK

\* A step that makes no attachment foreign and detaches no foreign one.
LEMMA KeepsOwned ==
    ASSUME Owning, KB!Plain(B!Making, B!Holding), foreign' \subseteq foreign,
           foreign' \subseteq attached',
           bPc' = "setStatus" => bObj'.spec.name \notin foreign'
    PROVE  RecordedIsOwned'
<1>1. KB!Kept /\ KB!NewRecords
  BY BindingPlain, BindingRecords DEF Owning
<1>2. ASSUME NEW r \in BindingResources, KB!Recorded(r)'
      PROVE  bStore'[r].currentSpec.name \notin foreign'
  <2>1. CASE KB!Recorded(r)
    BY <1>1, <1>2, <2>1, OwnedParts, Assumed, KB!KeptRecords DEF Owning
  <2>2. CASE ~KB!Recorded(r)
    BY <1>1, <1>2, <2>2, OwnedParts DEF KB!NewRecords, Owning
  <2>3. QED BY <2>1, <2>2
<1>3. QED BY <1>2, OwnedParts

\* A step that leaves the attachments alone.
LEMMA LeavesAttached ==
    ASSUME Owning, KB!Plain(B!Making, B!Holding), UNCHANGED <<attached, foreign>>,
           \/ bPc' # "setStatus"
           \/ bPc = "setStatus" /\ UNCHANGED bObj
    PROVE  Careful
<1>1. RecordedIsOwned'
  BY KeepsOwned, OwnedParts DEF Owning
<1>2. QED BY <1>1, OwnedParts DEF Careful, Spares, Owning

-----------------------------------------------------------------------------
(* One step per action.                                                    *)

\* The recorded binding is detached: a fresh call finds no foreign attachment
\* under what it recorded.
LEMMA DetachCareful == ASSUME Owning, B!DetachPolicy PROVE Careful
<1> DEFINE binding == <<bObj.currentSpec.name[1], bObj.currentSpec.name[2]>>
<1>1. bPc \in B!Holding /\ bPc # "idle"
  BY DEF B!DetachPolicy, B!Holding
<1>2. KB!Plain(B!Making, B!Holding)
  BY BindingControllerStep DEF Owning, B!Controller, B!Reconcile
<1>3. bPc' # "setStatus"
  BY DEF B!DetachPolicy, B!Return, B!Proceed
<1>4. CASE UNCHANGED B!minioVars
  BY <1>2, <1>3, <1>4, LeavesAttached DEF B!minioVars, B!iamVars
<1>5. CASE attached' = attached \ {binding} /\ foreign' = foreign \ {binding}
  <2>1. RecordedIsOwned'
    BY <1>2, <1>3, <1>5, KeepsOwned, OwnedParts DEF Owning
  <2>2. ASSUME bFresh PROVE binding \notin foreign
    <3>1. KB!CallOK(B!Making, B!Holding)
      BY DEF Owning, Inv, BindingOK
    <3>2. bReq \in BindingResources /\ bObj = bStore[bReq] /\ bObj # Absent
      BY <1>1, <2>2, <3>1 DEF KB!CallOK, KB!KubeInv, KB!KubeTypeOK
    <3>3. bObj.currentSpec # Nil /\ bObj.currentSpec \in BindingCurrents
      BY <1>1, <3>1, Assumed, KB!CallCopy DEF KB!CallOK, KB!Entitled
    <3>4. bObj.currentSpec.name = binding
      BY <3>3, SystemAssumption DEF B!BindingAssumption, B!Current, B!BindingSpec
    <3>5. QED BY <3>2, <3>3, <3>4, OwnedParts DEF Owning, KB!Recorded
  <2>3. QED BY <1>5, <2>1, <2>2, OwnedParts DEF Careful, Spares, Owning
<1>6. QED BY <1>4, <1>5 DEF B!DetachPolicy, B!Drop, B!Detach

\* A policy is attached that was not, or a resource that is to migrate takes
\* the attachment over.
LEMMA AttachCareful == ASSUME Owning, B!AttachPolicy PROVE Careful
<1> DEFINE binding == <<bObj.spec.name[1], bObj.spec.name[2]>>
<1>1. bPc \in B!Making
  BY DEF B!AttachPolicy, B!Making
<1>2. KB!Plain(B!Making, B!Holding)
  BY BindingControllerStep DEF Owning, B!Controller, B!Reconcile
<1>3. bObj.spec \in BindingSpecs
  BY <1>1, Assumed, KB!CallCopy DEF Owning, Inv, BindingOK
<1>4. bObj.spec.name = binding
  BY <1>3, SystemAssumption DEF B!BindingAssumption, B!BindingSpec
<1>5. CASE B!Return /\ UNCHANGED B!minioVars
  BY <1>2, <1>5, LeavesAttached DEF B!minioVars, B!iamVars, B!Return
<1>6. CASE /\ B!AttachError(bObj.spec.name[1], bObj.spec.name[2]) = "none"
           /\ B!Attach(bObj.spec.name[1], bObj.spec.name[2])
           /\ UNCHANGED <<foreign, bObj>>
  <2>1. binding \notin attached
    BY <1>6 DEF B!AttachError
  <2>2. attached' = attached \cup {binding}
    BY <1>6 DEF B!Attach
  <2>3. RecordedIsOwned'
    BY <1>2, <1>4, <1>6, <2>1, <2>2, KeepsOwned, OwnedParts DEF Owning
  <2>4. QED BY <2>2, <2>3, OwnedParts DEF Careful, Spares, Owning
<1>7. CASE foreign' = foreign \ {binding} /\ UNCHANGED B!iamVars /\ UNCHANGED bObj
  <2>1. attached' = attached
    BY <1>7 DEF B!iamVars
  <2>2. RecordedIsOwned'
    BY <1>2, <1>4, <1>7, <2>1, KeepsOwned, OwnedParts DEF Owning
  <2>3. QED BY <2>1, <2>2, OwnedParts DEF Careful, Spares, Owning
<1>8. QED BY <1>5, <1>6, <1>7 DEF B!AttachPolicy, B!Proceed

\* Every step of the binding controller is careful.
LEMMA BindingControllerCareful == ASSUME Owning, B!Controller PROVE Careful
<1>1. KB!Plain(B!Making, B!Holding)
  BY BindingControllerStep DEF Owning
<1>2. CASE B!DetachPolicy \/ B!AttachPolicy
  BY <1>2, DetachCareful, AttachCareful
<1>3. CASE B!CheckBinding
  BY <1>1, <1>3, LeavesAttached DEF B!CheckBinding, B!Return, B!Proceed, B!minioVars, B!iamVars
<1>4. CASE B!Bookkeeping /\ UNCHANGED B!minioVars
  <2>1. bPc' # "setStatus"
    BY <1>4 DEF B!Bookkeeping, B!AddFinalizer, B!ClearFinalizer, B!ClearStatus, B!DropMigrate,
                B!SetStatus, B!Update, B!UpdateAccepted, B!UpdateRejected, B!Return
  <2>2. QED BY <1>1, <1>4, <2>1, LeavesAttached DEF B!minioVars, B!iamVars
<1>5. ASSUME NEW r \in BindingResources, B!Start(r) PROVE Careful
  <2>1. bPc' # "setStatus"
    BY <1>5 DEF B!Start, B!Begin, B!Branch
  <2>2. QED BY <1>1, <1>5, <2>1, LeavesAttached DEF B!Start, B!minioVars, B!iamVars
<1>6. ASSUME NEW r \in BindingResources, B!Deliver(r), UNCHANGED B!minioVars PROVE Careful
  BY <1>1, <1>6, LeavesAttached DEF B!Deliver, B!callVars, B!minioVars, B!iamVars
<1>7. QED BY <1>2, <1>3, <1>4, <1>5, <1>6 DEF B!Controller, B!Reconcile

\* Others make an attachment foreign only if nobody claims it, and what goes
\* with an identity is not foreign any more.
LEMMA BindingEnvironmentCareful == ASSUME Owning, B!Environment PROVE Careful
<1>1. KB!Plain(B!Making, B!Holding)
  BY BindingEnvironmentStep DEF Owning
<1>2. CASE B!Fault /\ UNCHANGED B!minioVars
  BY <1>1, <1>2, LeavesAttached DEF B!Fault, B!Return, B!minioVars, B!iamVars
<1>3. ASSUME NEW r \in BindingResources, B!UserStep(r), UNCHANGED B!minioVars PROVE Careful
  <2>1. UNCHANGED <<bPc, bObj>>
    BY <1>3 DEF B!UserStep, B!CreateResource, B!EditSpec, B!DeleteResource, B!UserCommit
  <2>2. QED BY <1>1, <1>3, <2>1, LeavesAttached DEF B!minioVars, B!iamVars
<1>4. CASE B!ExternalIdentity /\ UNCHANGED B!kubeVars
  <2>1. foreign' = foreign \cap attached' /\ UNCHANGED <<bPc, bObj>>
    BY <1>4 DEF B!ExternalIdentity, B!kubeVars
  <2>2. QED BY <1>1, <2>1, KeepsOwned, OwnedParts DEF Careful, Spares, Owning
<1>5. ASSUME NEW e, NEW n, B!ExternalAttach(e, n), UNCHANGED B!kubeVars PROVE Careful
  <2>1. UNCHANGED <<bStore, bPc, bObj>>
    BY <1>5 DEF B!kubeVars
  <2>2. CASE B!Drop(e, n)
    BY <1>1, <2>1, <2>2, KeepsOwned, OwnedParts DEF B!Drop, B!Detach, Careful, Spares, Owning
  <2>3. CASE /\ B!Attach(e, n)
             /\ foreign' = IF B!Claimed(<<e, n>>) THEN foreign ELSE foreign \cup {<<e, n>>}
    <3>1. attached' = attached \cup {<<e, n>>}
      BY <2>3 DEF B!Attach
    <3>2. CASE foreign' = foreign
      BY <1>1, <2>1, <3>1, <3>2, KeepsOwned, OwnedParts DEF Careful, Spares, Owning
    <3>3. CASE ~B!Claimed(<<e, n>>) /\ foreign' = foreign \cup {<<e, n>>}
      <4>1. \A r \in BindingResources : KB!Recorded(r)' <=> KB!Recorded(r)
        BY <2>1 DEF KB!Recorded
      <4>2. RecordedIsOwned'
        BY <2>1, <3>1, <3>3, <4>1, OwnedParts DEF Owning, B!Claimed, B!Recorded, KB!Recorded
      <4>3. QED BY <2>1, <4>2 DEF Careful, Spares
    <3>4. QED BY <2>3, <3>2, <3>3
  <2>4. QED BY <1>5, <2>2, <2>3 DEF B!ExternalAttach
<1>6. QED BY <1>2, <1>3, <1>4, <1>5 DEF B!Environment

\* The policy controller writes and removes policies, but only ever ones that
\* nothing is attached to.
LEMMA PolicyAttachesNothing == ASSUME P!Controller PROVE UNCHANGED attached
BY DEF P!Controller, P!Reconcile, P!Start, P!iamVars,
       P!RemovePolicy, P!CheckPolicy, P!UpdatePolicy, P!RecordPolicy,
       P!RestorePolicy, P!LookupPolicy, P!AddPolicy, P!DropPolicy, P!AddCannedPolicy

\* Every step of the system is careful.
LEMMA NextCareful == ASSUME Owning, [Next]_vars PROVE Careful
<1>1. UNCHANGED bindingVars => KB!Plain(B!Making, B!Holding) /\ UNCHANGED <<foreign, bPc, bObj>>
  BY DEF bindingVars, KB!kubeVars, KB!Plain
<1>2. UNCHANGED bindingVars /\ UNCHANGED attached => Careful
  BY <1>1, LeavesAttached
<1>3. CASE PolicyController
  BY <1>2, <1>3, PolicyAttachesNothing DEF PolicyController
<1>4. CASE BindingController
  BY <1>4, BindingControllerCareful DEF BindingController
<1>5. CASE B!Environment /\ UNCHANGED policyVars
  BY <1>5, BindingEnvironmentCareful
<1>6. CASE UNCHANGED <<bindingVars, iamVars>>
  BY <1>2, <1>6 DEF iamVars
<1>7. QED BY <1>3, <1>4, <1>5, <1>6 DEF Next, Controllers, Environment, vars

\* The strengthened invariant is inductive.
LEMMA OwningInductive ==
    /\ Init => Owning
    /\ Owning /\ [Next]_vars => Owning'
<1>1. Init => Owning
  <2> SUFFICES ASSUME Init PROVE Owning
    OBVIOUS
  <2>1. Inv /\ KB!KubeInit
    BY InitInv
  <2>2. bPc = "idle" /\ \A r \in BindingResources : ~KB!Recorded(r)
    BY <2>1 DEF KB!KubeInit, KB!Recorded
  <2>3. foreign = attached
    BY DEF Init, B!Init
  <2>4. QED BY <2>1, <2>2, <2>3, OwnedParts DEF Owning
<1>2. ASSUME Owning, [Next]_vars PROVE Owning'
  BY <1>2, NextStep, NextCareful DEF Owning, Safe, Careful
<1>3. QED BY <1>1, <1>2

-----------------------------------------------------------------------------
(* The theorems.                                                           *)

\* Both controllers' state, their resources and MinIO's policies, identities
\* and attachments are always of the declared type: in particular no status
\* ever records migrate.
THEOREM TypeCorrect == Spec => []TypeOK
<1>1. Owning => TypeOK
  BY PolicyParts, BindingParts DEF Owning, Inv, TypeOK, RecordedIsOwned
<1>2. QED BY <1>1, OwningInductive, PTL DEF Spec

\* Whatever the other controller, other users of MinIO and the caches do, each
\* Reconcile is always at a call its copy of the resource entitles it to: a
\* policy is written or attached only for a resource with the finalizer, and
\* removed or detached only when the resource records it.
THEOREM CallsEntitled == Spec => []CallInv
<1>1. Owning => CallInv
  BY PolicyParts, BindingParts DEF Owning, Inv, CallInv, RecordedIsOwned
<1>2. QED BY <1>1, OwningInductive, PTL DEF Spec

\* Side by side, the controllers of MinioPolicy and MinioPolicyBinding both
\* implement module Lifecycle.
THEOREM Refinement == Spec => FollowsLifecycle
<1>1. Init => Inv /\ P!Life!Init /\ B!Life!Init
  BY InitInv, Assumed, PP!InitialLife, KB!InitialLife, PolicyLife, BindingLife
<1>2. Inv /\ [Next]_vars
      => Inv' /\ [P!Life!Next]_(P!Life!lifeVars) /\ [B!Life!Next]_(B!Life!lifeVars)
  BY NextStep, PolicyLife, BindingLife DEF Safe
<1>3. QED
  BY <1>1, <1>2, PTL
  DEF Spec, FollowsLifecycle, P!FollowsLifecycle, B!FollowsLifecycle, P!Life!Spec, B!Life!Spec

\* In every state, what a MinioPolicyBinding records or is about to record is
\* no attachment of somebody else's, whatever comes between the calls of
\* Reconcile and whichever policies and identities come and go.
THEOREM RecordsOwned == Spec => []RecordedIsOwned
<1>1. Owning => RecordedIsOwned
  BY DEF Owning
<1>2. QED BY <1>1, OwningInductive, PTL DEF Spec

\* A call of Reconcile whose copy of the resource is the stored one detaches
\* nothing that somebody else attached.
THEOREM ForeignSpared == Spec => FreshCallSparesForeign
<1> DEFINE S == \A binding \in foreign : bPc' # bPc /\ bFresh => binding \in attached'
<1>1. Owning /\ [Next]_vars => [S]_(B!vars)
  BY NextCareful DEF Careful, Spares
<1>2. QED BY <1>1, OwningInductive, PTL DEF Spec, FreshCallSparesForeign, B!FreshCallSparesForeign
=============================================================================
