---------------------------- MODULE GroupSystem -----------------------------
(***************************************************************************)
(* The group and the group binding controllers of one operator, each with  *)
(* its own resources, cache and call in progress, on the same MinIO        *)
(* identities, with somebody else at work there too.  They know nothing of *)
(* each other: a group with members cannot be removed, a group that is not *)
(* there cannot be joined or left, and each simply tries again.            *)
(***************************************************************************)
EXTENDS Iam, Sequences

CONSTANTS
    GroupResources, GroupSpecs, GroupCurrents, GroupMaxLag,
    BindingResources, BindingSpecs, BindingCurrents, BindingMaxLag,
    Shared,   \* the groups somebody else keeps
    Nil, Absent

VARIABLES
    gStore, gLag, gReq, gObj, gFresh, gPc,   \* module Kube for MinioGroup
    bStore, bLag, bReq, bObj, bFresh, bPc    \* module Kube for MinioGroupBinding

groupVars == <<gStore, gLag, gReq, gObj, gFresh, gPc>>
bindingVars == <<bStore, bLag, bReq, bObj, bFresh, bPc>>
vars == <<groupVars, bindingVars, iamVars>>

G == INSTANCE Group WITH
        Resources <- GroupResources, Specs <- GroupSpecs, Currents <- GroupCurrents,
        MaxLag <- GroupMaxLag,
        store <- gStore, lag <- gLag, req <- gReq, obj <- gObj, fresh <- gFresh, pc <- gPc

B == INSTANCE GroupBinding WITH
        Resources <- BindingResources, Specs <- BindingSpecs, Currents <- BindingCurrents,
        MaxLag <- BindingMaxLag,
        store <- bStore, lag <- bLag, req <- bReq, obj <- bObj, fresh <- bFresh, pc <- bPc

ASSUME SystemAssumption ==
    /\ G!KubeAssumption /\ G!GroupAssumption
    /\ B!KubeAssumption /\ B!BindingAssumption
    /\ Shared \subseteq Groups

\* Users are there, and perhaps the groups others keep, with no members.
Init ==
    /\ G!KubeInit
    /\ B!KubeInit
    /\ policies = [n \in PolicyNames |-> NoEntry]
    /\ users \in [Users -> SecretKeys]
    /\ groups \in [Groups -> {NoEntry, {}}]
    /\ \A g \in Groups : HasGroup(g) => g \in Shared
    /\ attached = {}

GroupController == G!Controller /\ UNCHANGED bindingVars
BindingController == B!Controller /\ UNCHANGED groupVars

Controllers == GroupController \/ BindingController

\* Whoever else keeps users, groups and members.
ExternalIdentity ==
    \/ \E u \in Users : OtherUser(u)
    \/ \E g \in Shared : OtherGroup(g)
    \/ \E g \in Shared, u \in Users :
          /\ HasUser(u) /\ HasGroup(g)
          /\ IF IsMember(g, u) THEN RemoveMember(g, u) ELSE AddMember(g, u)

Environment ==
    \/ /\ G!Fault \/ \E r \in GroupResources : G!UserStep(r)
       /\ UNCHANGED <<bindingVars, iamVars>>
    \/ /\ B!Fault \/ \E b \in BindingResources : B!UserStep(b)
       /\ UNCHANGED <<groupVars, iamVars>>
    \/ ExternalIdentity /\ UNCHANGED <<groupVars, bindingVars>>

Next == Controllers \/ Environment

Spec == Init /\ [][Next]_vars

\* Each controller on its own: the call in progress goes on, the watch
\* delivers, and the work queue brings every resource up again.
Fairness ==
    /\ WF_vars(G!Reconcile /\ UNCHANGED bindingVars)
    /\ WF_vars(B!Reconcile /\ UNCHANGED groupVars)
    /\ \A r \in GroupResources : /\ SF_vars(G!Start(r) /\ UNCHANGED bindingVars)
                                 /\ WF_vars(G!Watch(r) /\ UNCHANGED bindingVars)
    /\ \A b \in BindingResources : /\ SF_vars(B!Start(b) /\ UNCHANGED groupVars)
                                   /\ WF_vars(B!Watch(b) /\ UNCHANGED groupVars)

LiveSpec == Spec /\ Fairness

-----------------------------------------------------------------------------
(* Safety: what each controller promises, with the other at work.          *)

TypeOK == G!TypeOK /\ B!TypeOK

\* Neither controller is ever at a call its copy of the resource does not
\* entitle it to.
CallInv == G!CallInv /\ B!CallInv

\* Both controllers implement module Lifecycle.
FollowsLifecycle == G!FollowsLifecycle /\ B!FollowsLifecycle

-----------------------------------------------------------------------------
(* Liveness, once users stop editing and calls stop failing.               *)

Quiet == <>[][Controllers]_vars

\* The resource exists and the user has not deleted it.
Wanted(object) == object # Absent /\ ~object.deleting

\* The recorded group is gone, and with it the only way to leave it or to see
\* that it was left.  (Where the user is gone too, a deleted binding goes.)
Wedged(b) ==
    /\ B!Recorded(b)
    /\ ~HasGroup(bStore[b].currentSpec.name[1])
    /\ bStore[b].deleting => HasUser(bStore[b].currentSpec.name[2])

\* A deleted group resource that does not go away waits for a member that no
\* deleted binding still records: neither controller waits for the other for
\* ever.
GroupWaitsOnlyForOthers ==
    Quiet => <>[](\A r \in GroupResources :
                    gStore[r] # Absent /\ gStore[r].deleting
                    => LET g == gStore[r].currentSpec.name
                       IN /\ G!Recorded(r)
                          /\ \E u \in Users :
                               /\ IsMember(g, u)
                               /\ \A b \in BindingResources :
                                    B!Recorded(b) /\ bStore[b].currentSpec.name = <<g, u>>
                                    => Wanted(bStore[b]))

\* Every binding ends up gone when deleted and its user a member of its group
\* when not; unless the group it records or is to join is not there, or the
\* user is missing or was a member before.
BindingConverges ==
    Quiet => <>[](\A b \in BindingResources :
                    bStore[b] # Absent
                    => LET g == bStore[b].spec.name[1]
                           u == bStore[b].spec.name[2]
                       IN \/ Wedged(b)
                          \/ /\ Wanted(bStore[b]) /\ B!Recorded(b)
                             /\ bStore[b].currentSpec = bStore[b].spec
                             /\ IsMember(g, u)
                          \/ /\ Wanted(bStore[b]) /\ ~B!Recorded(b)
                             /\ ~HasGroup(g) \/ ~HasUser(u) \/ (IsMember(g, u) /\ ~bStore[b].spec.migrate))

\* A binding to a group that a resource in use records ends up in it, in
\* whatever order the two were made and whoever removed the group in between;
\* it can only be that the binding records a group that is gone.
BindingFollowsGroup ==
    Quiet => <>[](\A b \in BindingResources, r \in GroupResources :
                    /\ Wanted(bStore[b]) /\ HasUser(bStore[b].spec.name[2])
                    /\ Wanted(gStore[r]) /\ G!Recorded(r)
                    /\ gStore[r].currentSpec.name = bStore[b].spec.name[1]
                    => IsMember(bStore[b].spec.name[1], bStore[b].spec.name[2]) \/ Wedged(b))
=============================================================================
