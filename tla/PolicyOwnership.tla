-------------------------- MODULE PolicyOwnership ---------------------------
(***************************************************************************)
(* Module Policy with a history of whose the policies in MinIO are.        *)
(***************************************************************************)
EXTENDS Policy

VARIABLE
    foreign    \* history: the policies somebody else made, under a name no
               \* resource had claimed, and no resource was told to migrate

\* A resource has recorded the name, or a call that added the policy is about
\* to record it.
Claimed(n) ==
    \/ \E r \in Resources : Recorded(r) /\ store[r].currentSpec.name = n
    \/ pc = "setStatus" /\ obj.spec.name = n

\* A policy that is gone is nobody's, one that is migrated is the operator's,
\* and one that appears while Reconcile is not at work is foreign unless its
\* name is claimed.
Track ==
    foreign' = {n \in PolicyNames :
                   /\ policies'[n] # NoEntry
                   /\ \/ /\ n \in foreign
                         /\ ~(pc = "add" /\ pc' = "setStatus" /\ obj.spec.name = n /\ obj.spec.migrate)
                      \/ UNCHANGED kubeVars /\ ~HasPolicy(n) /\ ~Claimed(n)}

OwnershipInit == Init /\ foreign = {n \in PolicyNames : HasPolicy(n)}

OwnershipSpec == OwnershipInit /\ [][Next /\ Track]_<<vars, foreign>>

\* Reconcile never writes or removes a policy that somebody else made under a
\* name no resource had claimed, unless a resource was told to migrate it.
ForeignUntouched ==
    [][\A n \in foreign :
          pc' # pc => policies'[n] = policies[n] \/ (pc = "add" /\ obj.spec.migrate)]_<<vars, foreign>>
=============================================================================
