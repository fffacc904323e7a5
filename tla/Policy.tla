------------------------------- MODULE Policy -------------------------------
(***************************************************************************)
(* minioPolicyReconciler: one action per remote call of Reconcile, over    *)
(* the Kubernetes side of module Kube and MinIO's identities of module     *)
(* Iam.                                                                    *)
(*                                                                         *)
(* A document is a policy's statements and version as a spec gives them;   *)
(* two documents that differ in the order of statements, actions or        *)
(* resources only have the same content, and MinIO keeps no order.  What   *)
(* MinIO keeps may say more than a spec can: MinioPolicyStatement has no   *)
(* Condition, NotAction or NotResource.                                    *)
(***************************************************************************)
EXTENDS Kube, Iam

CONSTANTS
    Statements,   \* what a document can state, its order left out
    Orders        \* the orders a document can list it in

vars == <<kubeVars, iamVars>>

Docs == [content: Statements, order: Orders]

\* What MinIO keeps of a policy: what a spec can state, and whether there are
\* elements a spec cannot.
Policies == [stated: Statements, more: BOOLEAN]

\* The document as MinIO gets it.
Marshal(doc) == [stated |-> doc.content, more |-> FALSE]

PolicySpec == [name: PolicyNames, migrate: BOOLEAN, doc: Docs]
Current == {s \in PolicySpec : ~s.migrate}

ASSUME PolicyAssumption ==
    /\ Contents \subseteq Policies
    /\ \A d \in Docs : Marshal(d) \in Contents
    /\ Specs \subseteq PolicySpec
    /\ \A s \in Specs : [s EXCEPT !.migrate = FALSE] \in Specs
    /\ Currents = Current

\* The calls on the way to a recorded policy, and those on a recorded one.
Making == {"create", "add", "setStatus"}
Holding == {"remove", "clearStatus", "dropMigrate", "check", "update", "record", "restore"}

TypeOK ==
    /\ KubeTypeOK
    /\ IamTypeOK
    /\ pc \in {"idle", "addFinalizer", "clearFinalizer"} \cup Making \cup Holding

\* MinIO may hold policies, users and groups before the operator is installed.
Init ==
    /\ KubeInit
    /\ policies \in [PolicyNames -> Contents \cup {NoEntry}]
    /\ users \in [Users -> SecretKeys]
    /\ groups = [g \in Groups |-> {}]
    /\ attached = {}

-----------------------------------------------------------------------------
(* Reconcile.                                                              *)

\* Sorting before hashing leaves the order out.
getHash(doc) == doc.content

\* The same of what MinIO keeps, unmarshalled into a MinioPolicySpec: what the
\* spec has no field for is dropped before hashing.
UnmarshalledHash(policy) == policy.stated

Start(r) == Begin(r) /\ UNCHANGED iamVars

\* Mutant: a policy that is gone is an error.
RemovePolicyOnce ==
    /\ pc = "remove"
    /\ LET n == obj.currentSpec.name
       IN IF InUse(n) \/ ~HasPolicy(n) THEN Return /\ UNCHANGED iamVars
          ELSE /\ DropPolicy(n)
               /\ Proceed("clearStatus")
    /\ UNCHANGED <<store, lag>>

RemovePolicy ==
    /\ pc = "remove"
    /\ LET n == obj.currentSpec.name
       IN IF InUse(n) THEN Return /\ UNCHANGED iamVars
          ELSE /\ DropPolicy(n)
               /\ Proceed("clearStatus")
    /\ UNCHANGED <<store, lag>>

\* InfoCannedPolicyV2 of the recorded policy.  A changed spec comes before a
\* changed policy.
CheckPolicy ==
    /\ pc = "check"
    /\ LET n == obj.currentSpec.name
       IN IF ~HasPolicy(n) THEN Proceed("clearStatus")
          ELSE IF obj.currentSpec.doc # obj.spec.doc THEN Proceed("update")
          ELSE IF UnmarshalledHash(policies[n]) # getHash(obj.currentSpec.doc) THEN Proceed("restore")
          ELSE Return
    /\ UNCHANGED <<store, lag, iamVars>>

UpdatePolicy ==
    /\ pc = "update"
    /\ AddCannedPolicy(obj.currentSpec.name, Marshal(obj.spec.doc))
    /\ Proceed("record")
    /\ UNCHANGED <<store, lag>>

\* Mutant: the whole spec is recorded.
RecordSpec ==
    /\ pc = "record"
    /\ Update([obj EXCEPT !.currentSpec = obj.spec], "idle")
    /\ UNCHANGED iamVars

RecordPolicy ==
    /\ pc = "record"
    /\ Update([obj EXCEPT !.currentSpec.doc = obj.spec.doc], "idle")
    /\ UNCHANGED iamVars

\* Mutant: a policy that drifted is reported and left.
RestoreNothing ==
    /\ pc = "restore"
    /\ Return
    /\ UNCHANGED <<store, lag, iamVars>>

RestorePolicy ==
    /\ pc = "restore"
    /\ AddCannedPolicy(obj.currentSpec.name, Marshal(obj.currentSpec.doc))
    /\ Return
    /\ UNCHANGED <<store, lag>>

\* InfoCannedPolicyV2 of the policy to be made.
LookupPolicy ==
    /\ pc = "create"
    /\ IF HasPolicy(obj.spec.name) /\ ~obj.spec.migrate THEN Return ELSE Proceed("add")
    /\ UNCHANGED <<store, lag, iamVars>>

\* When InfoCannedPolicyV2 fails, 'exists' is false and the error is dropped:
\* Reconcile goes on as if there were no such policy.
LookupFails ==
    /\ pc = "create"
    /\ Proceed("add")
    /\ UNCHANGED <<store, lag, iamVars>>

AddPolicy ==
    /\ pc = "add"
    /\ AddCannedPolicy(obj.spec.name, Marshal(obj.spec.doc))
    /\ Proceed("setStatus")
    /\ UNCHANGED <<store, lag>>

Reconcile ==
    \/ Bookkeeping /\ UNCHANGED iamVars
    \/ RemovePolicy
    \/ CheckPolicy \/ UpdatePolicy \/ RecordPolicy \/ RestorePolicy
    \/ LookupPolicy \/ AddPolicy

Controller ==
    \/ Reconcile
    \/ \E r \in Resources : Start(r)
    \/ \E r \in Resources : Deliver(r) /\ UNCHANGED iamVars

-----------------------------------------------------------------------------
(* The environment: users of the resources and of the policies.            *)

ExternalAdd(n) == \E c \in Contents : policies[n] # c /\ AddCannedPolicy(n, c)

ExternalRemove(n) ==
    /\ HasPolicy(n) /\ ~InUse(n)
    /\ DropPolicy(n)

ExternalAttach(e, n) ==
    \/ AttachError(e, n) = "none" /\ Attach(e, n)
    \/ DetachError(e, n) = "none" /\ Detach(e, n)

Environment ==
    \/ Fault /\ UNCHANGED iamVars
    \/ LookupFails
    \/ (\E r \in Resources : UserStep(r)) /\ UNCHANGED iamVars
    \/ /\ \E n \in PolicyNames :
             ExternalAdd(n) \/ ExternalRemove(n) \/ \E e \in Entities : ExternalAttach(e, n)
       /\ UNCHANGED kubeVars

Next == Controller \/ Environment

Spec == Init /\ [][Next]_vars

\* As for buckets: the call in progress goes on, the watch delivers, and the
\* work queue brings every resource up again.
Fairness ==
    /\ WF_vars(Reconcile)
    /\ \A r \in Resources : /\ SF_vars(Start(r))
                            /\ WF_vars(Deliver(r) /\ UNCHANGED iamVars)

LiveSpec == Spec /\ Fairness

-----------------------------------------------------------------------------
(* Safety.                                                                 *)

\* Reconcile is only ever at a call its copy of the resource entitles it to
\* (module Kube): it writes or removes a policy only with the finalizer held,
\* and clears the finalizer only of a resource that records none.
CallInv == KubeInv /\ Entitled(Making, Holding)

\* The controller implements module Lifecycle: a MinioPolicy is held before
\* it records a policy, keeps the recorded name (README, Limitations:
\* MinioPolicy.Spec.Name is ignored on update) and goes only when it records
\* none.
FollowsLifecycle == Life!Spec

-----------------------------------------------------------------------------
(* Liveness, once users stop editing and calls stop failing.               *)

Quiet == <>[][Controller]_vars

\* The statements of a recorded policy, as far as a MinioPolicySpec can state
\* them, and what is recorded of it end up as the spec says, and the migrate
\* field is gone: drift that Reconcile can see is undone, an interrupted update
\* is finished.  Of elements a spec has no field for (Condition, NotAction,
\* NotResource), added by somebody else, the property says nothing: they do not
\* show in the hash and stay until the policy is written again.
DocumentConverges ==
    Quiet => <>[](\A r \in Resources :
                    Recorded(r) /\ ~store[r].deleting
                    => /\ HasPolicy(store[r].currentSpec.name)
                       /\ policies[store[r].currentSpec.name].stated = store[r].spec.doc.content
                       /\ store[r].currentSpec.doc = store[r].spec.doc
                       /\ ~store[r].spec.migrate)

\* A deleted resource goes away, unless its policy is still attached to a user
\* or a group.
DeletionCompletes ==
    Quiet => <>[](\A r \in Resources :
                    store[r] # Absent /\ store[r].deleting
                    => Recorded(r) /\ InUse(store[r].currentSpec.name))
=============================================================================
