--------------------------- MODULE MCPolicySystem ---------------------------
(* Bounds for TLC: every document and every binding; only users' bindings  *)
(* migrate.                                                                *)
EXTENDS PolicySystem

MCPolicySpecs ==
    [name: PolicyNames, migrate: {FALSE}, doc: [content: Statements, order: Orders]]
MCContents == [stated: Statements, more: {FALSE}]
MCBindingCurrents == [name: Entities \X PolicyNames, migrate: {FALSE}]
MCBindingSpecs == MCBindingCurrents \cup [name: Users \X PolicyNames, migrate: {TRUE}]
=============================================================================
