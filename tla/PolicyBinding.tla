---------------------------- MODULE PolicyBinding ---------------------------
(***************************************************************************)
(* minioPolicyBindingReconciler: one action per remote call of Reconcile,  *)
(* over the Kubernetes side of module Kube and MinIO's identities of       *)
(* module Iam.                                                             *)
(*                                                                         *)
(* A binding's "name" is what it binds: the user or group, built in or of  *)
(* an LDAP directory, and the policy, in a tenant.                         *)
(***************************************************************************)
EXTENDS Kube, Iam

CONSTANT Shared   \* the users and groups somebody else keeps

VARIABLE
    foreign   \* history: what somebody else attached, while no resource claimed
              \* it, and no resource was told to migrate

minioVars == <<iamVars, foreign>>
vars == <<kubeVars, minioVars>>

BindingSpec == [name: Entities \X PolicyNames, migrate: BOOLEAN]
Current == {s \in BindingSpec : ~s.migrate}

\* To be assumed by whoever instantiates the module.
BindingAssumption ==
    /\ Specs \subseteq BindingSpec
    /\ \A s \in Specs : [s EXCEPT !.migrate = FALSE] \in Specs
    /\ Currents = Current

\* The calls on the way to a recorded binding, and those on a recorded one.
Making == {"create", "setStatus"}
Holding == {"remove", "clearStatus", "dropMigrate", "check"}

TypeOK ==
    /\ KubeTypeOK
    /\ IamTypeOK
    /\ foreign \subseteq Entities \X PolicyNames
    /\ pc \in {"idle", "addFinalizer", "clearFinalizer"} \cup Making \cup Holding

\* MinIO has the policies, users and groups others made.
Init ==
    /\ KubeInit
    /\ policies \in [PolicyNames -> Contents]
    /\ users \in [Users -> SecretKeys \cup {NoEntry}]
    /\ \A u \in Users : HasUser(u) <=> u \in Shared
    /\ groups = [g \in Groups |-> IF g \in Shared THEN {} ELSE NoEntry]
    /\ attached \in SUBSET ((Entities \cap Shared) \X PolicyNames)
    /\ foreign = attached

-----------------------------------------------------------------------------
(* Reconcile.                                                              *)

Start(r) == Begin(r) /\ UNCHANGED minioVars

Drop(e, n) == Detach(e, n) /\ foreign' = foreign \ {<<e, n>>}

\* Mutant: after the detaching the new spec is recorded at once.
DetachAndRecord ==
    /\ \/ pc = "remove"
       \/ pc = "check" /\ obj.currentSpec # obj.spec
    /\ LET e == obj.currentSpec.name[1]
           n == obj.currentSpec.name[2]
           error == DetachError(e, n)
           next == IF obj.deleting THEN "clearStatus" ELSE "setStatus"
       IN \/ error = "none" /\ Drop(e, n) /\ Proceed(next)
          \/ error = "NoSuchEntity" /\ Proceed(next) /\ UNCHANGED minioVars
          \/ error = "AlreadyApplied" /\ Return /\ UNCHANGED minioVars
    /\ UNCHANGED <<store, lag>>

\* Mutant: an identity that is gone ends the call too.
DetachStrictly ==
    /\ \/ pc = "remove"
       \/ pc = "check" /\ obj.currentSpec # obj.spec
    /\ LET e == obj.currentSpec.name[1]
           n == obj.currentSpec.name[2]
       IN \/ DetachError(e, n) = "none" /\ Drop(e, n) /\ Proceed("clearStatus")
          \/ DetachError(e, n) # "none" /\ Return /\ UNCHANGED minioVars
    /\ UNCHANGED <<store, lag>>

\* The recorded binding goes when the resource is deleted or its spec is no
\* longer the recorded one.  An identity that is gone has lost the policy with
\* it; any other error, a policy that is already detached included, ends the
\* call.
DetachPolicy ==
    /\ \/ pc = "remove"
       \/ pc = "check" /\ obj.currentSpec # obj.spec
    /\ LET e == obj.currentSpec.name[1]
           n == obj.currentSpec.name[2]
           error == DetachError(e, n)
       IN \/ error = "none" /\ Drop(e, n) /\ Proceed("clearStatus")
          \/ error = "NoSuchEntity" /\ Proceed("clearStatus") /\ UNCHANGED minioVars
          \/ error = "AlreadyApplied" /\ Return /\ UNCHANGED minioVars
    /\ UNCHANGED <<store, lag>>

\* Mutant: what MinIO answers is not looked at.
CheckNothing ==
    /\ pc = "check"
    /\ obj.currentSpec = obj.spec
    /\ Return
    /\ UNCHANGED <<store, lag, minioVars>>

\* GetPolicyEntities (or GetLDAPPolicyEntities).
CheckBinding ==
    /\ pc = "check"
    /\ obj.currentSpec = obj.spec
    /\ IF obj.currentSpec.name \in attached THEN Return ELSE Proceed("clearStatus")
    /\ UNCHANGED <<store, lag, minioVars>>

\* Mutant: a policy that is already attached will do, migrate or not.
AttachOrAdopt ==
    /\ pc = "create"
    /\ LET e == obj.spec.name[1]
           n == obj.spec.name[2]
           error == AttachError(e, n)
       IN \/ error = "none" /\ Attach(e, n) /\ Proceed("setStatus") /\ UNCHANGED foreign
          \/ error = "AlreadyApplied" /\ Proceed("setStatus") /\ UNCHANGED minioVars
          \/ error \notin {"none", "AlreadyApplied"} /\ Return /\ UNCHANGED minioVars
    /\ UNCHANGED <<store, lag>>

\* A policy that is already attached is an error unless the resource is to
\* migrate.
AttachPolicy ==
    /\ pc = "create"
    /\ LET e == obj.spec.name[1]
           n == obj.spec.name[2]
           error == AttachError(e, n)
       IN \/ error = "none" /\ Attach(e, n) /\ Proceed("setStatus") /\ UNCHANGED foreign
          \/ /\ error = "AlreadyApplied" /\ obj.spec.migrate /\ Proceed("setStatus")
             /\ foreign' = foreign \ {<<e, n>>}
             /\ UNCHANGED iamVars
          \/ /\ error # "none" /\ ~(error = "AlreadyApplied" /\ obj.spec.migrate)
             /\ Return /\ UNCHANGED minioVars
    /\ UNCHANGED <<store, lag>>

Reconcile ==
    \/ Bookkeeping /\ UNCHANGED minioVars
    \/ DetachPolicy \/ CheckBinding \/ AttachPolicy

Controller ==
    \/ Reconcile
    \/ \E r \in Resources : Start(r)
    \/ \E r \in Resources : Deliver(r) /\ UNCHANGED minioVars

-----------------------------------------------------------------------------
(* The environment: users of the resources, and whoever else attaches,     *)
(* detaches and removes policies and identities.                           *)

\* A resource has recorded the binding, or a call that attached the policy is
\* about to record it.
Claimed(binding) ==
    \/ \E r \in Resources : Recorded(r) /\ store[r].currentSpec.name = binding
    \/ pc = "setStatus" /\ obj.spec.name = binding

ExternalAttach(e, n) ==
    \/ /\ AttachError(e, n) = "none" /\ Attach(e, n)
       /\ foreign' = IF Claimed(<<e, n>>) THEN foreign ELSE foreign \cup {<<e, n>>}
    \/ DetachError(e, n) = "none" /\ Drop(e, n)

ExternalIdentity ==
    /\ \/ \E u \in Users \cap Shared : OtherUser(u)
       \/ \E g \in Groups \cap Shared : OtherGroup(g)
       \/ \E n \in PolicyNames : \/ HasPolicy(n) /\ ~InUse(n) /\ DropPolicy(n)
                                 \/ ~HasPolicy(n) /\ \E c \in Contents : AddCannedPolicy(n, c)
    /\ foreign' = foreign \cap attached'

Environment ==
    \/ Fault /\ UNCHANGED minioVars
    \/ (\E r \in Resources : UserStep(r)) /\ UNCHANGED minioVars
    \/ /\ ExternalIdentity \/ \E e \in Entities, n \in PolicyNames : ExternalAttach(e, n)
       /\ UNCHANGED kubeVars

Next == Controller \/ Environment

Spec == Init /\ [][Next]_vars

-----------------------------------------------------------------------------
(* Safety.                                                                 *)

\* Reconcile is only ever at a call its copy of the resource entitles it to
\* (module Kube): it attaches only for a resource with the finalizer and no
\* record, and detaches only what its copy records.
CallInv == KubeInv /\ Entitled(Making, Holding)

\* The controller implements module Lifecycle: a MinioPolicyBinding is held
\* before it records a binding, forgets the recorded one before it records
\* another, and goes only when it records none.
FollowsLifecycle == Life!Spec

\* What a resource records, or a call is about to record, is never an
\* attachment somebody else made: AttachPolicy's own answer tells the call
\* that the policy was attached before, so that nothing can come between a
\* look and the attaching.
RecordedIsOwned ==
    \A binding \in foreign : binding \in attached /\ ~Claimed(binding)

\* As long as its copy of the resource is the stored one, Reconcile detaches
\* nothing that somebody else attached and no resource was told to migrate.
FreshCallSparesForeign ==
    [][\A binding \in foreign : pc' # pc /\ fresh => binding \in attached']_vars
=============================================================================
