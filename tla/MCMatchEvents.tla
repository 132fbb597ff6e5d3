--------------------------- MODULE MCMatchEvents ---------------------------
(* Instances of MatchEvents for TLC. *)
EXTENDS MatchEvents, TLC

(* Matches and questions are interchangeable. *)
EventSymmetry == Permutations(Matches) \union Permutations(Questions)

=============================================================================
