------------------------------ MODULE MCPolicy ------------------------------
(* Bounds for TLC: which specs users write in each run. *)
EXTENDS Policy

\* Edits of the name, of the document and of migrate; only the first policy is
\* ever migrated.
DocSpecs ==
    {s \in PolicySpec :
        \/ s.name = 1 /\ s.doc = [content |-> 1, order |-> 1]
        \/ s.name = 2 /\ s.doc = [content |-> 2, order |-> 2] /\ ~s.migrate}

\* What MinIO may keep: either document, and the first with more to it than a
\* spec can say.
MCContents == {p \in Policies : p.stated = 1 \/ ~p.more}
=============================================================================
