----------------------- MODULE MCAccessKeyOwnership -------------------------
(* Bounds for TLC: edits of the access key and the config alone. *)
EXTENDS AccessKeyOwnership

KeySpecs == {s \in AccessKeySpec : ~s.migrate /\ ~s.accessKeyRef /\ ~s.secretKeyRef}
NoRefs == {[accessKey |-> Nil, secretKey |-> Nil]}
=============================================================================
