---------------------------- MODULE PolicySystem ----------------------------
(***************************************************************************)
(* The policy and the policy binding controllers of one operator, each     *)
(* with its own resources, cache and call in progress, on the same MinIO   *)
(* identities, with somebody else at work there too.  The controllers know *)
(* nothing of each other: a policy that is attached cannot be removed, a   *)
(* policy that is not there cannot be attached, and each simply tries      *)
(* again.                                                                  *)
(***************************************************************************)
EXTENDS Iam, Sequences

CONSTANTS
    PolicyResources, PolicySpecs, PolicyCurrents, PolicyMaxLag,
    BindingResources, BindingSpecs, BindingCurrents, BindingMaxLag,
    Shared,   \* the users and groups somebody else keeps
    Statements, Orders, Nil, Absent

VARIABLES
    pStore, pLag, pReq, pObj, pFresh, pPc,   \* module Kube for MinioPolicy
    bStore, bLag, bReq, bObj, bFresh, bPc,   \* module Kube for MinioPolicyBinding
    foreign                                  \* history: module PolicyBinding

policyVars == <<pStore, pLag, pReq, pObj, pFresh, pPc>>
bindingVars == <<bStore, bLag, bReq, bObj, bFresh, bPc, foreign>>
vars == <<policyVars, bindingVars, iamVars>>

P == INSTANCE Policy WITH
        Resources <- PolicyResources, Specs <- PolicySpecs, Currents <- PolicyCurrents,
        MaxLag <- PolicyMaxLag,
        store <- pStore, lag <- pLag, req <- pReq, obj <- pObj, fresh <- pFresh, pc <- pPc

B == INSTANCE PolicyBinding WITH
        Resources <- BindingResources, Specs <- BindingSpecs, Currents <- BindingCurrents,
        MaxLag <- BindingMaxLag,
        store <- bStore, lag <- bLag, req <- bReq, obj <- bObj, fresh <- bFresh, pc <- bPc

ASSUME SystemAssumption ==
    /\ P!KubeAssumption /\ P!PolicyAssumption
    /\ B!KubeAssumption /\ B!BindingAssumption

Init ==
    /\ P!KubeInit
    /\ B!Init

PolicyController == P!Controller /\ UNCHANGED bindingVars
BindingController == B!Controller /\ UNCHANGED policyVars

Controllers == PolicyController \/ BindingController

Environment ==
    \/ B!Environment /\ UNCHANGED policyVars
    \/ /\ P!Fault \/ \E r \in PolicyResources : P!UserStep(r)
       /\ UNCHANGED <<bindingVars, iamVars>>

Next == Controllers \/ Environment

Spec == Init /\ [][Next]_vars

\* Each controller on its own: the call in progress goes on, the watch
\* delivers, and the work queue brings every resource up again.
Fairness ==
    /\ WF_vars(P!Reconcile /\ UNCHANGED bindingVars)
    /\ WF_vars(B!Reconcile /\ UNCHANGED policyVars)
    /\ \A r \in PolicyResources :
          /\ SF_vars(P!Start(r) /\ UNCHANGED bindingVars)
          /\ WF_vars(P!Deliver(r) /\ UNCHANGED <<bindingVars, iamVars>>)
    /\ \A r \in BindingResources :
          /\ SF_vars(B!Start(r) /\ UNCHANGED policyVars)
          /\ WF_vars(B!Deliver(r) /\ UNCHANGED <<policyVars, iamVars, foreign>>)

LiveSpec == Spec /\ Fairness

-----------------------------------------------------------------------------
(* Safety: what each controller promises, with the other at work.          *)

TypeOK == P!TypeOK /\ B!TypeOK

\* Neither controller is ever at a call its copy of the resource does not
\* entitle it to.
CallInv == P!CallInv /\ B!CallInv

\* Both controllers implement module Lifecycle.
FollowsLifecycle == P!FollowsLifecycle /\ B!FollowsLifecycle

\* A binding never records what somebody else attached, though policies and
\* identities come and go under it and the policy controller is at work.
RecordedIsOwned == B!RecordedIsOwned

\* As long as its copy of the resource is the stored one, a call detaches
\* nothing that somebody else attached.
FreshCallSparesForeign == B!FreshCallSparesForeign

-----------------------------------------------------------------------------
(* Liveness, once users stop editing and calls stop failing.               *)

Quiet == <>[][Controllers]_vars

\* The resource exists and the user has not deleted it.
Wanted(object) == object # Absent /\ ~object.deleting

\* The resource still records a binding it has to detach, but the identity no
\* longer has the policy: DetachPolicy fails for ever.
Wedged(b) ==
    /\ B!Recorded(b)
    /\ bStore[b].deleting \/ bStore[b].currentSpec # bStore[b].spec
    /\ HasEntity(bStore[b].currentSpec.name[1])
    /\ bStore[b].currentSpec.name \notin attached

\* Every binding ends up gone when deleted and with its policy attached when
\* not, but for two ways to be stuck: a record that cannot be detached any
\* more, and a policy that somebody attached before or that does not exist.
BindingConverges ==
    Quiet => <>[](\A b \in BindingResources :
                    bStore[b] # Absent
                    => LET n == bStore[b].spec.name
                       IN \/ Wedged(b)
                          \/ /\ Wanted(bStore[b]) /\ B!Recorded(b)
                             /\ bStore[b].currentSpec = bStore[b].spec
                             /\ n \in attached
                          \/ Wanted(bStore[b]) /\ ~B!Recorded(b) /\ AttachError(n[1], n[2]) # "none")

\* A deleted policy resource that does not go away waits for an attachment
\* that no deleted binding still records: one that a binding in use records,
\* or one that none does.  In particular neither controller waits for the
\* other for ever.
PolicyWaitsOnlyForOthers ==
    Quiet => <>[](\A r \in PolicyResources :
                    pStore[r] # Absent /\ pStore[r].deleting
                    => \E e \in Entities :
                         /\ P!Recorded(r)
                         /\ <<e, pStore[r].currentSpec.name>> \in attached
                         /\ \A b \in BindingResources :
                              B!Recorded(b) /\ bStore[b].currentSpec.name
                                                 = <<e, pStore[r].currentSpec.name>>
                              => Wanted(bStore[b]))

\* A binding of a policy that some resource records ends up attached, in
\* whatever order the two were created and whoever removed the policy in
\* between, if the identity is there; it can only be that it still has to
\* detach another binding and no longer can.
BindingFollowsPolicy ==
    Quiet => <>[](\A b \in BindingResources, r \in PolicyResources :
                    /\ Wanted(bStore[b]) /\ HasEntity(bStore[b].spec.name[1])
                    /\ Wanted(pStore[r]) /\ P!Recorded(r)
                    /\ pStore[r].currentSpec.name = bStore[b].spec.name[2]
                    => bStore[b].spec.name \in attached \/ Wedged(b))
=============================================================================
