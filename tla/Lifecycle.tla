------------------------------ MODULE Lifecycle -----------------------------
(***************************************************************************)
(* What every controller of the operator promises about its resources, and *)
(* all that the rest of the cluster can rely on: a resource is held before *)
(* it records an object in MinIO, keeps what it records under one name     *)
(* until it forgets it, records nothing new once the user has deleted it,  *)
(* and goes away only when it records nothing.                             *)
(*                                                                         *)
(* Nothing is said of the cache, of conflicts and faults or of MinIO: they *)
(* must not show here.                                                     *)
(***************************************************************************)
CONSTANTS
    Resources,
    Names      \* what a resource can record

VARIABLES
    existing,   \* the resources there are
    held,       \* those with the finalizer
    dying,      \* those the user has deleted
    record      \* the name each records, if any

lifeVars == <<existing, held, dying, record>>

Init ==
    /\ existing = {}
    /\ held = {}
    /\ dying = {}
    /\ record = [r \in Resources |-> {}]

Create(r) ==
    /\ r \notin existing
    /\ existing' = existing \cup {r}
    /\ UNCHANGED <<held, dying, record>>

Hold(r) ==
    /\ r \in existing \ (held \cup dying)
    /\ held' = held \cup {r}
    /\ UNCHANGED <<existing, dying, record>>

Record(r) ==
    /\ r \in held \ dying
    /\ record[r] = {}
    /\ \E n \in Names : record' = [record EXCEPT ![r] = {n}]
    /\ UNCHANGED <<existing, held, dying>>

Forget(r) ==
    /\ record[r] # {}
    /\ record' = [record EXCEPT ![r] = {}]
    /\ UNCHANGED <<existing, held, dying>>

\* What is held is only marked.
Mark(r) ==
    /\ r \in held \ dying
    /\ dying' = dying \cup {r}
    /\ UNCHANGED <<existing, held, record>>

\* What goes is not held, or is deleted and records nothing.
Vanish(r) ==
    /\ r \in existing
    /\ r \in dying \/ r \notin held
    /\ record[r] = {}
    /\ existing' = existing \ {r}
    /\ held' = held \ {r}
    /\ dying' = dying \ {r}
    /\ UNCHANGED record

Next ==
    \E r \in Resources :
        Create(r) \/ Hold(r) \/ Record(r) \/ Forget(r) \/ Mark(r) \/ Vanish(r)

Spec == Init /\ [][Next]_lifeVars
=============================================================================
