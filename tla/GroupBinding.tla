---------------------------- MODULE GroupBinding ----------------------------
(***************************************************************************)
(* minioGroupBindingReconciler: one action per remote call of Reconcile,   *)
(* over the Kubernetes side of module Kube and MinIO's identities of       *)
(* module Iam.                                                             *)
(*                                                                         *)
(* A binding's "name" is what it binds: the group and the user, in a       *)
(* tenant.                                                                 *)
(***************************************************************************)
EXTENDS Kube, Iam

BindingSpec == [name: Groups \X Users, migrate: BOOLEAN]

\* To be assumed by whoever instantiates the module.
BindingAssumption ==
    /\ Specs \subseteq BindingSpec
    /\ \A s \in Specs : [s EXCEPT !.migrate = FALSE] \in Specs
    /\ Currents = {s \in BindingSpec : ~s.migrate}

\* The calls on the way to a recorded membership, and those on a recorded one.
Making == {"create", "add", "setStatus"}
Holding == {"remove", "clearStatus", "dropMigrate", "check"}

TypeOK ==
    /\ KubeTypeOK
    /\ IamTypeOK
    /\ pc \in {"idle", "addFinalizer", "clearFinalizer"} \cup Making \cup Holding

-----------------------------------------------------------------------------
(* Reconcile.                                                              *)

Start(r) == Begin(r) /\ UNCHANGED iamVars

\* Mutant: after the removal the new spec is recorded at once.
DeleteAndRecord ==
    /\ pc = "remove"
    /\ LET g == obj.currentSpec.name[1]
           u == obj.currentSpec.name[2]
       IN CASE RemoveMemberError(g, u) = "none" ->
                 /\ RemoveMember(g, u)
                 /\ Update([obj EXCEPT !.currentSpec = obj.spec], "idle")
            [] OTHER -> Return /\ UNCHANGED <<store, lag, iamVars>>

\* Mutant: a user that is gone is an error.
DeleteGroupMemberOnce ==
    /\ pc = "remove"
    /\ LET g == obj.currentSpec.name[1]
           u == obj.currentSpec.name[2]
       IN IF RemoveMemberError(g, u) = "none" THEN RemoveMember(g, u) /\ Proceed("clearStatus")
          ELSE Return /\ UNCHANGED iamVars
    /\ UNCHANGED <<store, lag>>

\* A user that is gone is no error, a group that is gone is.
deleteGroupMember ==
    /\ pc = "remove"
    /\ LET g == obj.currentSpec.name[1]
           u == obj.currentSpec.name[2]
       IN CASE RemoveMemberError(g, u) = "none" -> RemoveMember(g, u) /\ Proceed("clearStatus")
            [] RemoveMemberError(g, u) = "NoSuchUser" ->
                 Proceed("clearStatus") /\ UNCHANGED iamVars
            [] OTHER -> Return /\ UNCHANGED iamVars
    /\ UNCHANGED <<store, lag>>

\* GetGroupDescription of the recorded group; that it is gone is an error.
CheckMember ==
    /\ pc = "check"
    /\ LET g == obj.currentSpec.name[1]
           u == obj.currentSpec.name[2]
       IN IF ~HasGroup(g) THEN Return
          ELSE IF ~IsMember(g, u) THEN Proceed("clearStatus")
          ELSE IF obj.currentSpec # obj.spec THEN Proceed("remove")
          ELSE Return
    /\ UNCHANGED <<store, lag, iamVars>>

\* GetGroupDescription of the group to be joined.
LookupMember ==
    /\ pc = "create"
    /\ LET g == obj.spec.name[1]
           u == obj.spec.name[2]
       IN IF ~HasGroup(g) \/ (IsMember(g, u) /\ ~obj.spec.migrate) THEN Return
          ELSE Proceed("add")
    /\ UNCHANGED <<store, lag, iamVars>>

\* By now the group may be gone: it is made again.
AddGroupMember ==
    /\ pc = "add"
    /\ LET g == obj.spec.name[1]
           u == obj.spec.name[2]
       IN IF HasUser(u) THEN AddMember(g, u) /\ Proceed("setStatus")
          ELSE Return /\ UNCHANGED iamVars
    /\ UNCHANGED <<store, lag>>

Reconcile ==
    \/ Bookkeeping /\ UNCHANGED iamVars
    \/ deleteGroupMember \/ CheckMember \/ LookupMember \/ AddGroupMember

Watch(r) == Deliver(r) /\ UNCHANGED iamVars

Controller ==
    \/ Reconcile
    \/ \E r \in Resources : Start(r) \/ Watch(r)

-----------------------------------------------------------------------------
(* Safety.                                                                 *)

\* Reconcile is only ever at a call its copy of the resource entitles it to
\* (module Kube): it adds a member only for a resource with the finalizer and
\* no record, and removes only the one its copy records.
CallInv == KubeInv /\ Entitled(Making, Holding)

\* The controller implements module Lifecycle: a MinioGroupBinding is held
\* before it records a membership, forgets the recorded one before it records
\* another, and goes only when it records none.
FollowsLifecycle == Life!Spec
=============================================================================
