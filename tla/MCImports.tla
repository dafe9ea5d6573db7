----------------------------- MODULE MCImports -----------------------------
(* Instances of Imports for TLC.                                           *)
EXTENDS Imports

\* Two repositories with new projects, or the first of them into a project that is there.
NewAndInto == {[slugs |-> {1, 2}, create |-> TRUE], [slugs |-> {1}, create |-> FALSE]}
=============================================================================
