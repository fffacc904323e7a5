------------------------- MODULE MCPolicyOwnership --------------------------
(* Bounds for TLC: edits of the name and the content alone. *)
EXTENDS PolicyOwnership

NameSpecs == {s \in PolicySpec : ~s.migrate /\ s.doc.order = 1}
PlainContents == {p \in Policies : ~p.more}
=============================================================================
