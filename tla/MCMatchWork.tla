---------------------------- MODULE MCMatchWork ----------------------------
(* Instances of MatchWork for TLC. *)
EXTENDS MatchWork, TLC

SameLevel == {[pool |-> 1, diff |-> "easy", low |-> FALSE, time |-> NoTime]}
=============================================================================
