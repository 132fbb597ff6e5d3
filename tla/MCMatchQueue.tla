---------------------------- MODULE MCMatchQueue ----------------------------
(* Instances of MatchQueue for TLC. *)
EXTENDS MatchQueue, TLC

SameLevel == {[pool |-> 1, diff |-> "easy", low |-> FALSE, time |-> NoTime]}

(* One pool; a hard request that accepts easier partners, and an easy one. *)
HardOrEasy ==
  {[pool |-> 1, diff |-> "hard", low |-> TRUE, time |-> NoTime],
   [pool |-> 1, diff |-> "easy", low |-> FALSE, time |-> NoTime]}

MatcherSymmetry == Permutations(Matchers)

=============================================================================
