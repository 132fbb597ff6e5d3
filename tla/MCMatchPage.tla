---------------------------- MODULE MCMatchPage ----------------------------
(* Instances of MatchPage for TLC. *)
EXTENDS MatchPage
=============================================================================
