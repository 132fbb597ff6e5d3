------------------------------- MODULE Pairing -------------------------------
(***************************************************************************)
(* What the match queue promises, without rows, runs or statements: a      *)
(* request joins the waiting set at most once, leaves it for good, and if  *)
(* it leaves with a partner the two leave together, in one step.           *)
(***************************************************************************)
CONSTANTS Requests, None

VARIABLES
  joined,   \* requests that were ever created
  waiting,  \* those still in the queue
  partner   \* whom each request was matched with, or None

vars == <<joined, waiting, partner>>

Init ==
  /\ joined = {}
  /\ waiting = {}
  /\ partner = [r \in Requests |-> None]

(* Pairs up the members of S: nobody is left over or paired with itself. *)
Matching(mate, S) ==
  \A r \in S : mate[r] \in S /\ mate[r] # r /\ mate[mate[r]] = r

(* "new" requests come in while "gone" ones leave the queue, and "mates"    *)
(* among those that leave become partners.                                  *)
Step(new, gone, mates, mate) ==
  /\ new \intersect joined = {}
  /\ gone \subseteq waiting
  /\ mates \subseteq gone
  /\ Matching(mate, mates)
  /\ joined' = joined \union new
  /\ waiting' = (waiting \ gone) \union new
  /\ partner' = [r \in Requests |-> IF r \in mates THEN mate[r] ELSE partner[r]]

Next ==
  \E new, gone, mates \in SUBSET Requests :
    \E mate \in [mates -> mates] : Step(new, gone, mates, mate)

Spec == Init /\ [][Next]_vars

=============================================================================
