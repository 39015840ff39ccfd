--------------------------- MODULE MCEngagements ---------------------------
(***************************************************************************)
(* Instances of Engagements: projects at the default cap and a shared one. *)
(***************************************************************************)
EXTENDS Engagements

CONSTANTS strict, shared, other

\* The default cap is 1; `project edit --cap` raises it.
MCCap       == [p \in Projects |-> IF p = shared THEN 2 ELSE 1]
MCMaxCycles == [p \in Projects |-> IF p = strict THEN 2 ELSE 0]
=============================================================================
