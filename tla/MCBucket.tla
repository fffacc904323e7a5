------------------------------ MODULE MCBucket ------------------------------
(* Bounds for TLC: which specs users write in each run. *)
EXTENDS Bucket

MCSpec(n, migrate, versioning, lifecycle, policy) ==
    [name |-> n, migrate |-> migrate, deletionPolicy |-> policy,
     config |-> [versioning |-> versioning, lifecycle |-> lifecycle]]

\* Edits of every field but the name.
ConfigSpecs ==
    {MCSpec(n, FALSE, Nil, Nil, Nil) : n \in Names}
      \cup {MCSpec(n, FALSE, "Enabled", Nil, "Always") : n \in Names}
      \cup {MCSpec(n, m, Nil, Rule, "IfEmpty") : n \in Names, m \in BOOLEAN}

\* Edits of the name and of migrate; only the first bucket is ever migrated.
OwnershipSpecs ==
    {MCSpec(n, FALSE, Nil, Nil, "IfEmpty") : n \in Names} \cup {MCSpec(1, TRUE, Nil, Nil, "IfEmpty")}

\* No edits but of the name.
PlainSpecs == {MCSpec(n, FALSE, Nil, Nil, "IfEmpty") : n \in Names}
=============================================================================
