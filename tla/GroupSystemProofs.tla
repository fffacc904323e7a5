-------------------------- MODULE GroupSystemProofs -------------------------
(***************************************************************************)
(* Proofs about the group and the group binding controllers on the same    *)
(* MinIO, for any resources, identities and cache lags.  Each controller's *)
(* part of TypeOK /\ CallInv is kept by its own steps, which are all of    *)
(* the kinds KubeProofs names, and not touched by the other's.             *)
(***************************************************************************)
EXTENDS GroupSystem, TLAPS

KG == INSTANCE KubeProofs WITH
        Resources <- GroupResources, Specs <- GroupSpecs, Currents <- GroupCurrents,
        MaxLag <- GroupMaxLag,
        store <- gStore, lag <- gLag, req <- gReq, obj <- gObj, fresh <- gFresh, pc <- gPc

KB == INSTANCE KubeProofs WITH
        Resources <- BindingResources, Specs <- BindingSpecs, Currents <- BindingCurrents,
        MaxLag <- BindingMaxLag,
        store <- bStore, lag <- bLag, req <- bReq, obj <- bObj, fresh <- bFresh, pc <- bPc

GroupOK == KG!CallOK(G!Making, G!Holding) /\ gPc \in KG!CallNamesOf(G!Making, G!Holding)
BindingOK == KB!CallOK(B!Making, B!Holding) /\ bPc \in KB!CallNamesOf(B!Making, B!Holding)

Inv == GroupOK /\ BindingOK /\ IamTypeOK

\* A step keeps the invariant and is, for both kinds, a step of Lifecycle or
\* shows nothing there.
Safe == Inv' /\ KG!Kept /\ KB!Kept

-----------------------------------------------------------------------------
(* Module Kube as each controller has it is module Kube as KubeProofs has  *)
(* it.                                                                     *)

\* The group controller: its bookkeeping,
LEMMA GroupBookkeeping == G!Bookkeeping => KG!Bookkeeping
BY DEF G!Bookkeeping, KG!Bookkeeping, G!AddFinalizer, KG!AddFinalizer,
       G!ClearFinalizer, KG!ClearFinalizer, G!ClearStatus, KG!ClearStatus,
       G!DropMigrate, KG!DropMigrate, G!SetStatus, KG!SetStatus, G!Update, KG!Update,
       G!UpdateAccepted, KG!UpdateAccepted, G!UpdateRejected, KG!UpdateRejected,
       G!Return, KG!Return, G!Commit, KG!Commit, G!Stored, KG!Stored,
       G!KeepRecent, KG!KeepRecent

\* its part of the invariant,
LEMMA GroupParts ==
    /\ GroupOK /\ IamTypeOK <=> G!TypeOK /\ G!CallInv
    /\ G!KubeInit => KG!KubeInit
<1>1. G!KubeTypeOK <=> KG!KubeTypeOK
  BY DEF G!KubeTypeOK, KG!KubeTypeOK, G!Version, KG!Version, G!Object, KG!Object
<1>2. G!KubeInv <=> KG!KubeInv
  BY DEF G!KubeInv, KG!KubeInv, G!Guarded, KG!Guarded
<1>3. G!Entitled(G!Making, G!Holding) <=> KG!Entitled(G!Making, G!Holding)
  BY DEF G!Entitled, KG!Entitled
<1>4. G!IamTypeOK <=> IamTypeOK
  BY DEF G!IamTypeOK, IamTypeOK, G!Entities, Entities
<1>5. G!KubeInit => KG!KubeInit
  BY DEF G!KubeInit, KG!KubeInit
<1>6. QED BY <1>1, <1>2, <1>3, <1>4, <1>5
          DEF G!TypeOK, G!CallInv, GroupOK, KG!CallOK, KG!CallNamesOf

\* and what it shows to Lifecycle.
LEMMA GroupLife ==
    /\ KG!Life!Init => G!Life!Init
    /\ KG!Kept => [G!Life!Next]_(G!Life!lifeVars)
BY DEF KG!Kept, G!Life!Init, KG!Life!Init, G!Life!Next, KG!Life!Next,
       G!Life!lifeVars, KG!Life!lifeVars, G!Life!Create, KG!Life!Create,
       G!Life!Hold, KG!Life!Hold, G!Life!Record, KG!Life!Record,
       G!Life!Forget, KG!Life!Forget, G!Life!Mark, KG!Life!Mark,
       G!Life!Vanish, KG!Life!Vanish, G!existing, KG!existing, G!held, KG!held,
       G!dying, KG!dying, G!record, KG!record, G!Recorded, KG!Recorded,
       G!recordable, KG!recordable

\* The group binding controller likewise: its bookkeeping,
LEMMA BindingBookkeeping == B!Bookkeeping => KB!Bookkeeping
BY DEF B!Bookkeeping, KB!Bookkeeping, B!AddFinalizer, KB!AddFinalizer,
       B!ClearFinalizer, KB!ClearFinalizer, B!ClearStatus, KB!ClearStatus,
       B!DropMigrate, KB!DropMigrate, B!SetStatus, KB!SetStatus, B!Update, KB!Update,
       B!UpdateAccepted, KB!UpdateAccepted, B!UpdateRejected, KB!UpdateRejected,
       B!Return, KB!Return, B!Commit, KB!Commit, B!Stored, KB!Stored,
       B!KeepRecent, KB!KeepRecent

\* its part of the invariant,
LEMMA BindingParts ==
    /\ BindingOK /\ IamTypeOK <=> B!TypeOK /\ B!CallInv
    /\ B!KubeInit => KB!KubeInit
<1>1. B!KubeTypeOK <=> KB!KubeTypeOK
  BY DEF B!KubeTypeOK, KB!KubeTypeOK, B!Version, KB!Version, B!Object, KB!Object
<1>2. B!KubeInv <=> KB!KubeInv
  BY DEF B!KubeInv, KB!KubeInv, B!Guarded, KB!Guarded
<1>3. B!Entitled(B!Making, B!Holding) <=> KB!Entitled(B!Making, B!Holding)
  BY DEF B!Entitled, KB!Entitled
<1>4. B!IamTypeOK <=> IamTypeOK
  BY DEF B!IamTypeOK, IamTypeOK, B!Entities, Entities
<1>5. B!KubeInit => KB!KubeInit
  BY DEF B!KubeInit, KB!KubeInit
<1>6. QED BY <1>1, <1>2, <1>3, <1>4, <1>5
          DEF B!TypeOK, B!CallInv, BindingOK, KB!CallOK, KB!CallNamesOf

\* and what it shows to Lifecycle.
LEMMA BindingLife ==
    /\ KB!Life!Init => B!Life!Init
    /\ KB!Kept => [B!Life!Next]_(B!Life!lifeVars)
BY DEF KB!Kept, B!Life!Init, KB!Life!Init, B!Life!Next, KB!Life!Next,
       B!Life!lifeVars, KB!Life!lifeVars, B!Life!Create, KB!Life!Create,
       B!Life!Hold, KB!Life!Hold, B!Life!Record, KB!Life!Record,
       B!Life!Forget, KB!Life!Forget, B!Life!Mark, KB!Life!Mark,
       B!Life!Vanish, KB!Life!Vanish, B!existing, KB!existing, B!held, KB!held,
       B!dying, KB!dying, B!record, KB!record, B!Recorded, KB!Recorded,
       B!recordable, KB!recordable


-----------------------------------------------------------------------------
(* The controllers' steps.                                                 *)

\* What KubeProofs assumes of its constants and of the sets of calls.
LEMMA Assumed ==
    /\ KG!KubeAssumption /\ KB!KubeAssumption
    /\ KG!Partition(G!Making, G!Holding) /\ KB!Partition(B!Making, B!Holding)
<1>1. KG!KubeAssumption
  BY SystemAssumption DEF G!KubeAssumption, KG!KubeAssumption, G!Object, KG!Object
<1>2. KB!KubeAssumption
  BY SystemAssumption DEF B!KubeAssumption, KB!KubeAssumption, B!Object, KB!Object
<1>3. QED
  BY <1>1, <1>2 DEF G!Making, G!Holding, B!Making, B!Holding, KG!Partition, KB!Partition

\* A plain step of the group controller keeps its part of the invariant.
LEMMA GroupPlain == ASSUME Inv, KG!Plain(G!Making, G!Holding) PROVE GroupOK' /\ KG!Kept
<1>1. \A s \in GroupSpecs : [s EXCEPT !.migrate = FALSE] \in GroupSpecs \cap GroupCurrents
  BY SystemAssumption DEF G!GroupAssumption, G!GroupSpec
<1>2. QED BY <1>1, Assumed, KG!PlainStep DEF Inv, GroupOK, G!Making, G!Holding

\* So does one of the binding controller.
LEMMA BindingPlain == ASSUME Inv, KB!Plain(B!Making, B!Holding) PROVE BindingOK' /\ KB!Kept
<1>1. \A s \in BindingSpecs : [s EXCEPT !.migrate = FALSE] \in BindingSpecs \cap BindingCurrents
  BY SystemAssumption DEF B!BindingAssumption, B!BindingSpec
<1>2. QED BY <1>1, Assumed, KB!PlainStep DEF Inv, BindingOK, B!Making, B!Holding

\* A call works on groups and users.
LEMMA Copies ==
    ASSUME Inv
    PROVE  /\ gPc \in G!Making => gObj.spec.name \in Groups
           /\ gPc \in G!Holding => gObj.currentSpec.name \in Groups
           /\ bPc \in B!Making => bObj.spec.name[1] \in Groups /\ bObj.spec.name[2] \in Users
           /\ bPc \in B!Holding =>
                bObj.currentSpec.name[1] \in Groups /\ bObj.currentSpec.name[2] \in Users
<1>1. \A s \in G!GroupSpec : s.name \in Groups
  BY DEF G!GroupSpec
<1>2. \A s \in B!BindingSpec : s.name[1] \in Groups /\ s.name[2] \in Users
  BY DEF B!BindingSpec
<1>3. /\ gPc \in G!Making => gObj.spec \in GroupSpecs
      /\ gPc \in G!Holding => gObj.currentSpec \in GroupCurrents
  BY Assumed, KG!CallCopy DEF Inv, GroupOK
<1>4. /\ bPc \in B!Making => bObj.spec \in BindingSpecs
      /\ bPc \in B!Holding => bObj.currentSpec \in BindingCurrents
  BY Assumed, KB!CallCopy DEF Inv, BindingOK
<1>5. QED BY <1>1, <1>2, <1>3, <1>4, SystemAssumption DEF G!GroupAssumption, B!BindingAssumption

\* The group controller makes, finds and removes groups.
LEMMA GroupControllerStep ==
    ASSUME Inv, G!Controller PROVE KG!Plain(G!Making, G!Holding) /\ IamTypeOK'
<1> USE DEF Inv
<1>1. UNCHANGED G!iamVars => IamTypeOK'
  BY DEF G!iamVars, IamTypeOK
<1>2. CASE G!RemoveGroup
  <2>1. gPc \in G!Holding /\ "clearStatus" \in G!Holding
    BY <1>2 DEF G!RemoveGroup, G!Holding
  <2>2. KG!Return \/ KG!Proceed("clearStatus")
    BY <1>2 DEF G!RemoveGroup, G!Return, KG!Return, G!Proceed, KG!Proceed
  <2>3. UNCHANGED G!iamVars \/ \E g \in Groups : G!DropGroup(g)
    BY <1>2, <2>1, Copies DEF G!RemoveGroup
  <2>4. ASSUME NEW g \in Groups, G!DropGroup(g) PROVE IamTypeOK'
    BY <2>4 DEF G!DropGroup, IamTypeOK
  <2>5. QED BY <1>1, <1>2, <2>1, <2>2, <2>3, <2>4 DEF G!RemoveGroup, KG!Plain, KG!Passes
<1>3. CASE G!CheckGroup
  <2>1. gPc \in G!Holding /\ "clearStatus" \in G!Holding
    BY <1>3 DEF G!CheckGroup, G!Holding
  <2>2. KG!Return \/ KG!Proceed("clearStatus")
    BY <1>3 DEF G!CheckGroup, G!Return, KG!Return, G!Proceed, KG!Proceed
  <2>3. QED BY <1>1, <1>3, <2>1, <2>2 DEF G!CheckGroup, KG!Plain, KG!Passes
<1>4. CASE G!LookupGroup
  <2>1. gPc \in G!Making /\ "make" \in G!Making
    BY <1>4 DEF G!LookupGroup, G!Making
  <2>2. KG!Return \/ KG!Proceed("make")
    BY <1>4 DEF G!LookupGroup, G!Return, KG!Return, G!Proceed, KG!Proceed
  <2>3. QED BY <1>1, <1>4, <2>1, <2>2 DEF G!LookupGroup, KG!Plain, KG!Passes
<1>5. CASE G!CreateGroup
  <2>1. gPc \in G!Making /\ "setStatus" \in G!Making
    BY <1>5 DEF G!CreateGroup, G!Making
  <2>2. KG!Proceed("setStatus")
    BY <1>5 DEF G!CreateGroup, G!Proceed, KG!Proceed
  <2>3. IamTypeOK'
    BY <1>5, <2>1, Copies DEF G!CreateGroup, G!MakeGroup, G!HasGroup, IamTypeOK
  <2>4. QED BY <1>5, <2>1, <2>2, <2>3 DEF G!CreateGroup, KG!Plain, KG!Passes
<1>6. CASE G!Bookkeeping /\ UNCHANGED G!iamVars
  BY <1>1, <1>6, GroupBookkeeping DEF KG!Plain
<1>7. ASSUME NEW r \in GroupResources, G!Start(r) \/ G!Watch(r)
      PROVE  KG!Plain(G!Making, G!Holding) /\ IamTypeOK'
  <2>1. (G!Begin(r) \/ G!Deliver(r)) /\ UNCHANGED G!iamVars
    BY <1>7 DEF G!Start, G!Watch
  <2>2. KG!Begin(r) \/ KG!Deliver(r)
    BY <2>1 DEF G!Begin, KG!Begin, G!Get, KG!Get, G!Branch, KG!Branch,
                G!Cached, KG!Cached, G!Deliver, KG!Deliver, G!callVars, KG!callVars
  <2>3. KG!Plain(G!Making, G!Holding)
    BY <2>2 DEF KG!Plain
  <2>4. QED BY <1>1, <2>1, <2>3
<1>8. QED BY <1>2, <1>3, <1>4, <1>5, <1>6, <1>7 DEF G!Controller, G!Reconcile

\* The binding controller looks for, adds and removes members.
LEMMA BindingControllerStep ==
    ASSUME Inv, B!Controller PROVE KB!Plain(B!Making, B!Holding) /\ IamTypeOK'
<1> USE DEF Inv
<1>1. UNCHANGED B!iamVars => IamTypeOK'
  BY DEF B!iamVars, IamTypeOK
<1>2. CASE B!deleteGroupMember
  <2>1. bPc \in B!Holding /\ "clearStatus" \in B!Holding
    BY <1>2 DEF B!deleteGroupMember, B!Holding
  <2>2. KB!Return \/ KB!Proceed("clearStatus")
    BY <1>2 DEF B!deleteGroupMember, B!Return, KB!Return, B!Proceed, KB!Proceed
  <2>3. \/ UNCHANGED B!iamVars
        \/ \E g \in Groups, u \in Users :
              B!RemoveMemberError(g, u) = "none" /\ B!RemoveMember(g, u)
    BY <1>2, <2>1, Copies DEF B!deleteGroupMember
  <2>4. ASSUME NEW g \in Groups, NEW u \in Users,
               B!RemoveMemberError(g, u) = "none", B!RemoveMember(g, u)
        PROVE  IamTypeOK'
    BY <2>4 DEF B!RemoveMemberError, B!RemoveMember, B!SetMembers, B!HasGroup, IamTypeOK
  <2>5. QED BY <1>1, <1>2, <2>1, <2>2, <2>3, <2>4
            DEF B!deleteGroupMember, KB!Plain, KB!Passes
<1>3. CASE B!CheckMember
  <2>1. bPc \in B!Holding /\ {"clearStatus", "remove"} \subseteq B!Holding
    BY <1>3 DEF B!CheckMember, B!Holding
  <2>2. KB!Return \/ KB!Proceed("clearStatus") \/ KB!Proceed("remove")
    BY <1>3 DEF B!CheckMember, B!Return, KB!Return, B!Proceed, KB!Proceed
  <2>3. QED BY <1>1, <1>3, <2>1, <2>2 DEF B!CheckMember, KB!Plain, KB!Passes
<1>4. CASE B!LookupMember
  <2>1. bPc \in B!Making /\ "add" \in B!Making
    BY <1>4 DEF B!LookupMember, B!Making
  <2>2. KB!Return \/ KB!Proceed("add")
    BY <1>4 DEF B!LookupMember, B!Return, KB!Return, B!Proceed, KB!Proceed
  <2>3. QED BY <1>1, <1>4, <2>1, <2>2 DEF B!LookupMember, KB!Plain, KB!Passes
<1>5. CASE B!AddGroupMember
  <2>1. bPc \in B!Making /\ "setStatus" \in B!Making
    BY <1>5 DEF B!AddGroupMember, B!Making
  <2>2. KB!Return \/ KB!Proceed("setStatus")
    BY <1>5 DEF B!AddGroupMember, B!Return, KB!Return, B!Proceed, KB!Proceed
  <2>3. UNCHANGED B!iamVars \/ \E g \in Groups, u \in Users : B!AddMember(g, u)
    BY <1>5, <2>1, Copies DEF B!AddGroupMember
  <2>4. ASSUME NEW g \in Groups, NEW u \in Users, B!AddMember(g, u) PROVE IamTypeOK'
    BY <2>4 DEF B!AddMember, B!SetMembers, B!HasGroup, IamTypeOK
  <2>5. QED BY <1>1, <1>5, <2>1, <2>2, <2>3, <2>4 DEF B!AddGroupMember, KB!Plain, KB!Passes
<1>6. CASE B!Bookkeeping /\ UNCHANGED B!iamVars
  BY <1>1, <1>6, BindingBookkeeping DEF KB!Plain
<1>7. ASSUME NEW r \in BindingResources, B!Start(r) \/ B!Watch(r)
      PROVE  KB!Plain(B!Making, B!Holding) /\ IamTypeOK'
  <2>1. (B!Begin(r) \/ B!Deliver(r)) /\ UNCHANGED B!iamVars
    BY <1>7 DEF B!Start, B!Watch
  <2>2. KB!Begin(r) \/ KB!Deliver(r)
    BY <2>1 DEF B!Begin, KB!Begin, B!Get, KB!Get, B!Branch, KB!Branch,
                B!Cached, KB!Cached, B!Deliver, KB!Deliver, B!callVars, KB!callVars
  <2>3. KB!Plain(B!Making, B!Holding)
    BY <2>2 DEF KB!Plain
  <2>4. QED BY <1>1, <2>1, <2>3
<1>8. QED BY <1>2, <1>3, <1>4, <1>5, <1>6, <1>7 DEF B!Controller, B!Reconcile

-----------------------------------------------------------------------------
(* The environment's steps.                                                *)

\* A failed call and what users do to MinioGroups.
LEMMA GroupEnvironment ==
    ASSUME G!Fault \/ \E r \in GroupResources : G!UserStep(r)
    PROVE  KG!Plain(G!Making, G!Holding)
<1>1. CASE G!Fault
  BY <1>1 DEF G!Fault, G!Return, KG!Return, KG!Plain, KG!Passes
<1>2. ASSUME NEW r \in GroupResources, G!UserStep(r) PROVE KG!UserStep(r)
  BY <1>2 DEF G!UserStep, KG!UserStep, G!CreateResource, KG!CreateResource,
              G!EditSpec, KG!EditSpec, G!DeleteResource, KG!DeleteResource,
              G!UserCommit, KG!UserCommit, G!Commit, KG!Commit, G!KeepRecent, KG!KeepRecent
<1>3. QED BY <1>1, <1>2 DEF KG!Plain

\* And to MinioGroupBindings.
LEMMA BindingEnvironment ==
    ASSUME B!Fault \/ \E r \in BindingResources : B!UserStep(r)
    PROVE  KB!Plain(B!Making, B!Holding)
<1>1. CASE B!Fault
  BY <1>1 DEF B!Fault, B!Return, KB!Return, KB!Plain, KB!Passes
<1>2. ASSUME NEW r \in BindingResources, B!UserStep(r) PROVE KB!UserStep(r)
  BY <1>2 DEF B!UserStep, KB!UserStep, B!CreateResource, KB!CreateResource,
              B!EditSpec, KB!EditSpec, B!DeleteResource, KB!DeleteResource,
              B!UserCommit, KB!UserCommit, B!Commit, KB!Commit, B!KeepRecent, KB!KeepRecent
<1>3. QED BY <1>1, <1>2 DEF KB!Plain

\* Whatever others do to users, groups and members keeps the type.
LEMMA ExternalType == ASSUME IamTypeOK, ExternalIdentity PROVE IamTypeOK'
<1>1. ASSUME NEW u \in Users, DropUser(u) PROVE IamTypeOK'
  <2>1. \A g \in Groups : HasGroup(g) => groups[g] \ {u} \in SUBSET Users
    BY DEF HasGroup, IamTypeOK
  <2>2. groups' \in [Groups -> {NoEntry} \cup SUBSET Users]
    BY <1>1, <2>1 DEF DropUser
  <2>3. QED BY <1>1, <2>2 DEF DropUser, IamTypeOK
<1>2. ASSUME NEW u \in Users, NEW k \in SecretKeys, AddUser(u, k) PROVE IamTypeOK'
  BY <1>2 DEF AddUser, IamTypeOK
<1>3. ASSUME NEW g \in Groups, DropGroup(g) \/ MakeGroup(g) PROVE IamTypeOK'
  BY <1>3 DEF DropGroup, MakeGroup, HasGroup, IamTypeOK
<1>4. ASSUME NEW g \in Groups, NEW u \in Users, HasGroup(g),
             RemoveMember(g, u) \/ AddMember(g, u)
      PROVE  IamTypeOK'
  BY <1>4 DEF RemoveMember, AddMember, SetMembers, HasGroup, IamTypeOK
<1>5. Shared \subseteq Groups
  BY SystemAssumption
<1>6. QED BY <1>1, <1>2, <1>3, <1>4, <1>5 DEF ExternalIdentity, OtherUser, OtherGroup

-----------------------------------------------------------------------------
(* All of them together.                                                   *)

\* A step is plain for each controller, the one it leaves alone included, and
\* keeps the type of MinIO's identities.
LEMMA NextPlain ==
    ASSUME Inv, [Next]_vars
    PROVE  KG!Plain(G!Making, G!Holding) /\ KB!Plain(B!Making, B!Holding) /\ IamTypeOK'
<1>1. UNCHANGED groupVars => KG!Plain(G!Making, G!Holding)
  BY DEF groupVars, KG!kubeVars, KG!Plain
<1>2. UNCHANGED bindingVars => KB!Plain(B!Making, B!Holding)
  BY DEF bindingVars, KB!kubeVars, KB!Plain
<1>3. UNCHANGED iamVars => IamTypeOK'
  BY DEF Inv, iamVars, IamTypeOK
<1>4. CASE GroupController
  BY <1>2, <1>4, GroupControllerStep DEF GroupController
<1>5. CASE BindingController
  BY <1>1, <1>5, BindingControllerStep DEF BindingController
<1>6. CASE Environment
  <2>1. CASE /\ G!Fault \/ \E r \in GroupResources : G!UserStep(r)
             /\ UNCHANGED <<bindingVars, iamVars>>
    BY <1>2, <1>3, <2>1, GroupEnvironment
  <2>2. CASE /\ B!Fault \/ \E b \in BindingResources : B!UserStep(b)
             /\ UNCHANGED <<groupVars, iamVars>>
    BY <1>1, <1>3, <2>2, BindingEnvironment
  <2>3. CASE ExternalIdentity /\ UNCHANGED <<groupVars, bindingVars>>
    BY <1>1, <1>2, <2>3, ExternalType DEF Inv
  <2>4. QED BY <1>6, <2>1, <2>2, <2>3 DEF Environment
<1>7. CASE UNCHANGED vars
  BY <1>1, <1>2, <1>3, <1>7 DEF vars
<1>8. QED BY <1>4, <1>5, <1>6, <1>7 DEF Next, Controllers

\* The invariant is inductive, and every step is safe.
LEMMA NextStep == ASSUME Inv, [Next]_vars PROVE Safe
BY NextPlain, GroupPlain, BindingPlain DEF Safe, Inv

\* Initially there are users, and groups with no members.
LEMMA InitInv == Init => Inv /\ KG!KubeInit /\ KB!KubeInit
<1> SUFFICES ASSUME Init PROVE Inv /\ KG!KubeInit /\ KB!KubeInit
  OBVIOUS
<1>1. KG!KubeInit /\ KB!KubeInit
  BY GroupParts, BindingParts DEF Init
<1>2. IamTypeOK
  BY DEF Init, IamTypeOK
<1>3. GroupOK
  BY <1>1, Assumed, KG!InitialCall DEF GroupOK, KG!KubeInit, KG!CallNamesOf
<1>4. BindingOK
  BY <1>1, Assumed, KB!InitialCall DEF BindingOK, KB!KubeInit, KB!CallNamesOf
<1>5. QED BY <1>1, <1>2, <1>3, <1>4 DEF Inv

-----------------------------------------------------------------------------
(* The theorems.                                                           *)

\* Both controllers' state, their resources and MinIO's users, groups and
\* members are always of the declared type: in particular no status ever
\* records migrate.
THEOREM TypeCorrect == Spec => []TypeOK
<1>1. Init => Inv
  BY InitInv
<1>2. Inv /\ [Next]_vars => Inv'
  BY NextStep DEF Safe
<1>3. Inv => TypeOK
  BY GroupParts, BindingParts DEF Inv, TypeOK
<1>4. QED BY <1>1, <1>2, <1>3, PTL DEF Spec

\* Whatever the other controller, other users of MinIO and the caches do, each
\* Reconcile is always at a call its copy of the resource entitles it to: a
\* group or a member is made only for a resource with the finalizer, and
\* removed only when the resource records it.
THEOREM CallsEntitled == Spec => []CallInv
<1>1. Init => Inv
  BY InitInv
<1>2. Inv /\ [Next]_vars => Inv'
  BY NextStep DEF Safe
<1>3. Inv => CallInv
  BY GroupParts, BindingParts DEF Inv, CallInv
<1>4. QED BY <1>1, <1>2, <1>3, PTL DEF Spec

\* Side by side, the controllers of MinioGroup and MinioGroupBinding both
\* implement module Lifecycle.
THEOREM Refinement == Spec => FollowsLifecycle
<1>1. Init => Inv /\ G!Life!Init /\ B!Life!Init
  BY InitInv, Assumed, KG!InitialLife, KB!InitialLife, GroupLife, BindingLife
<1>2. Inv /\ [Next]_vars
      => Inv' /\ [G!Life!Next]_(G!Life!lifeVars) /\ [B!Life!Next]_(B!Life!lifeVars)
  BY NextStep, GroupLife, BindingLife DEF Safe
<1>3. QED
  BY <1>1, <1>2, PTL
  DEF Spec, FollowsLifecycle, G!FollowsLifecycle, B!FollowsLifecycle, G!Life!Spec, B!Life!Spec
=============================================================================
