------------------------------- MODULE MCUser -------------------------------
(* Bounds for TLC: which specs and secrets users write. *)
EXTENDS User

\* The access key given outright, with migration, or by a reference.
MCSpecs ==
    {s \in UserSpec : IF s.accessKeyRef = Nil THEN s.accessKey # Nil ELSE ~s.migrate}

\* Both keys, a secret key alone, an access key alone.
MCData ==
    {[accessKey |-> u, secretKey |-> 1] : u \in Users}
      \cup {[accessKey |-> Nil, secretKey |-> 2]}
      \cup {[accessKey |-> u, secretKey |-> Nil] : u \in Users}
=============================================================================
