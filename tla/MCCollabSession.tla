-------------------------- MODULE MCCollabSession --------------------------
(* Instances of CollabSession for TLC: user a has sockets 1 and 3, b has 2. *)
EXTENDS CollabSession, TLC

TwoTabs == [s \in Sockets |-> IF s % 2 = 1 THEN "a" ELSE "b"]

EndSymmetry == Permutations(Ends)

=============================================================================
