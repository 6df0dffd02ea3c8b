------------------------------ MODULE MCWizard ------------------------------
(* Three devices; the first is reported with and without room for a root.  *)
EXTENDS Wizard

MCDisks ==
    {[path |-> p, gap |-> g] : p \in {"a"}, g \in {"fits", "none"}}
    \cup {[path |-> "b", gap |-> "none"], [path |-> "c", gap |-> "small"]}
=============================================================================
