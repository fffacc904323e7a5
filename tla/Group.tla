-------------------------------- MODULE Group -------------------------------
(***************************************************************************)
(* minioGroupReconciler: one action per remote call of Reconcile, over the *)
(* Kubernetes side of module Kube and MinIO's identities of module Iam.    *)
(* Members are the business of module GroupBinding.                        *)
(***************************************************************************)
EXTENDS Kube, Iam

GroupSpec == [name: Groups, migrate: BOOLEAN]

\* To be assumed by whoever instantiates the module.
GroupAssumption ==
    /\ Specs \subseteq GroupSpec
    /\ \A s \in Specs : [s EXCEPT !.migrate = FALSE] \in Specs
    /\ Currents = {s \in GroupSpec : ~s.migrate}

\* The calls on the way to a recorded group, and those on a recorded one.
Making == {"create", "make", "setStatus"}
Holding == {"remove", "clearStatus", "dropMigrate", "check"}

TypeOK ==
    /\ KubeTypeOK
    /\ IamTypeOK
    /\ pc \in {"idle", "addFinalizer", "clearFinalizer"} \cup Making \cup Holding

Start(r) == Begin(r) /\ UNCHANGED iamVars

\* Mutant: a group that is gone is an error.
RemoveGroupOnce ==
    /\ pc = "remove"
    /\ LET g == obj.currentSpec.name
       IN IF DropGroupError(g) = "none" THEN DropGroup(g) /\ Proceed("clearStatus")
          ELSE Return /\ UNCHANGED iamVars
    /\ UNCHANGED <<store, lag>>

\* A group that is gone is no error, one that has members is.
RemoveGroup ==
    /\ pc = "remove"
    /\ LET g == obj.currentSpec.name
       IN CASE DropGroupError(g) = "none" -> DropGroup(g) /\ Proceed("clearStatus")
            [] DropGroupError(g) = "NoSuchGroup" -> Proceed("clearStatus") /\ UNCHANGED iamVars
            [] OTHER -> Return /\ UNCHANGED iamVars
    /\ UNCHANGED <<store, lag>>

\* Mutant: a recorded group is taken to be there.
CheckNothing ==
    /\ pc = "check"
    /\ Return
    /\ UNCHANGED <<store, lag, iamVars>>

\* GetGroupDescription of the recorded group.
CheckGroup ==
    /\ pc = "check"
    /\ IF HasGroup(obj.currentSpec.name) THEN Return ELSE Proceed("clearStatus")
    /\ UNCHANGED <<store, lag, iamVars>>

\* GetGroupDescription of the group to be made.
LookupGroup ==
    /\ pc = "create"
    /\ IF HasGroup(obj.spec.name) /\ ~obj.spec.migrate THEN Return ELSE Proceed("make")
    /\ UNCHANGED <<store, lag, iamVars>>

CreateGroup ==
    /\ pc = "make"
    /\ MakeGroup(obj.spec.name)
    /\ Proceed("setStatus")
    /\ UNCHANGED <<store, lag>>

Reconcile ==
    \/ Bookkeeping /\ UNCHANGED iamVars
    \/ RemoveGroup \/ CheckGroup \/ LookupGroup \/ CreateGroup

Watch(r) == Deliver(r) /\ UNCHANGED iamVars

Controller ==
    \/ Reconcile
    \/ \E r \in Resources : Start(r) \/ Watch(r)

\* Reconcile is only ever at a call its copy of the resource entitles it to
\* (module Kube): it removes only a recorded group, and makes one only for a
\* resource with the finalizer and no record.
CallInv == KubeInv /\ Entitled(Making, Holding)

\* The controller implements module Lifecycle: a MinioGroup is held before it
\* records a group, keeps the recorded name, and goes only when it records
\* none.
FollowsLifecycle == Life!Spec
=============================================================================
