----------------------------- MODULE MCAccessKey ----------------------------
(* Bounds for TLC: which specs users write in each run. *)
EXTENDS AccessKey, TLC

\* The secrets that refs name are missing.
NoRefs == {[accessKey |-> Nil, secretKey |-> Nil]}

\* Edits of the config, of migrate and of how the keys are given: the access
\* key outright and the secret key by a ref, or the access key alone, which is
\* not enough to migrate.
RotateSpecs ==
    {s \in AccessKeySpec :
        s.accessKey # Nil /\ ~s.accessKeyRef /\ (s.secretKeyRef <=> s.config = 1)}

\* Both keys or neither; the secret key is rotated when a generated one gives
\* way to the one provided.
MCProvided == {[accessKey |-> k, secretKey |-> 1] : k \in Keys} \cup NoRefs

\* Edits of the access key, the secret's name and the config alone.
KeySpecs == {s \in AccessKeySpec : ~s.migrate /\ ~s.accessKeyRef /\ ~s.secretKeyRef}

\* Names of secrets are only compared with each other.
NameSymmetry == Permutations(SecretNames)
=============================================================================
