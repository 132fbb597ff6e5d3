---------------------------- MODULE MCWorkspace ----------------------------
(* Instances of Workspace for TLC: user a may open the page a second time. *)
EXTENDS Workspace

Reopened == [t \in Tabs |-> IF t % 2 = 1 THEN "a" ELSE "b"]

=============================================================================
