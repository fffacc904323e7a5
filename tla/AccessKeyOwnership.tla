------------------------- MODULE AccessKeyOwnership -------------------------
(***************************************************************************)
(* Module AccessKey with a history of whose the service accounts are.      *)
(***************************************************************************)
EXTENDS AccessKey

VARIABLE
    foreign    \* history: the accounts somebody else made

\* An account that is gone is nobody's; one that appears while Reconcile is not
\* at work is foreign.
Track ==
    foreign' = {k \in Keys :
                   /\ accounts'[k] # Absent
                   /\ k \in foreign \/ (UNCHANGED kubeVars /\ accounts[k] = Absent)}

OwnershipInit == Init /\ foreign = {k \in Keys : accounts[k] # Absent}

OwnershipSpec == OwnershipInit /\ [][Next /\ Track]_<<vars, foreign>>

\* When no resource is told to migrate, Reconcile never changes or deletes an
\* account that somebody else made.
ForeignUntouched ==
    [][\A k \in foreign : pc' # pc => accounts'[k] = accounts[k]]_<<vars, foreign>>
=============================================================================
