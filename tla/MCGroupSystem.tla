---------------------------- MODULE MCGroupSystem ---------------------------
(* Bounds for TLC: which specs users write. *)
EXTENDS GroupSystem

\* Edits of the group, and migration to the first.
MCBindingCurrents == [name: Groups \X Users, migrate: {FALSE}]
MCBindingSpecs == MCBindingCurrents \cup [name: {1} \X Users, migrate: {TRUE}]

\* A resource of the first group.
MCGroupCurrents == [name: Groups, migrate: {FALSE}]
MCGroupSpecs == [name: {1}, migrate: {FALSE}]
=============================================================================
