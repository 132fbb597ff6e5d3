-------------------------- MODULE MCMatchingEngine --------------------------
(***************************************************************************)
(* Checks MatchingEngine against reference definitions.  Every initial     *)
(* state is one possible set of waiting requests (at most one per user, as *)
(* the unique index of the table guarantees); a step joins the pair the    *)
(* engine selects, as the loop of tryMatchQueue does when nobody           *)
(* interferes.                                                             *)
(***************************************************************************)
EXTENDS MatchingEngine, FiniteSets

CONSTANTS EngineUsers, EnginePools, EngineTimes, EngineInstants

ASSUME EngineAssumption ==
  /\ EngineUsers \subseteq Nat
  /\ EnginePools \subseteq Nat
  /\ EngineTimes \subseteq Nat
  /\ EngineInstants \subseteq Nat

VARIABLES waiting, joined

vars == <<waiting, joined>>

RowsOf(u) ==
  [id : {u}, user : {u}, pool : EnginePools, diff : DOMAIN DifficultyRank,
   low : BOOLEAN, time : EngineTimes, created : EngineInstants]

Init ==
  /\ joined = {}
  /\ \E present \in SUBSET EngineUsers :
       waiting \in {{f[u] : u \in present} :
                      f \in {g \in [present -> UNION {RowsOf(u) : u \in present}] :
                               \A u \in present : g[u].user = u}}

JoinFirstPair ==
  \E pr \in FindFirstPair(waiting) :
    /\ waiting' = waiting \ {pr.requester, pr.partner}
    /\ joined' = joined \union {pr}

Next == JoinFirstPair

Spec == Init /\ [][Next]_vars

-----------------------------------------------------------------------------
(* The rule of README.md (F5): same difficulty, or the requester opted in   *)
(* and the partner asked for something easier.                              *)
MayInitiate(a, b) ==
  /\ a.user # b.user
  /\ a.pool = b.pool
  /\ \/ a.diff = b.diff
     \/ a.low /\ <<b.diff, a.diff>> \in
          {<<"easy", "medium">>, <<"easy", "hard">>, <<"medium", "hard">>}

(* Two matchers that read the same rows select the same pair: the sort is   *)
(* total, whatever order the database returns the rows in.                  *)
SelectionIsDeterministic == Cardinality(FindFirstPair(waiting)) <= 1

(* Nobody is given a harder partner's level as an upgrade, a request that   *)
(* did not opt in is never paired down on its own initiative, and the       *)
(* label of the pair tells which of the two rules applied.                  *)
PairsObeyDifficultyRule ==
  \A pr \in joined :
    /\ MayInitiate(pr.requester, pr.partner)
    /\ (pr.type = SameDifficulty) = (pr.requester.diff = pr.partner.diff)

(* The search misses nobody: it answers "no pair" only when no waiting      *)
(* request may initiate a match with another one, in either role.           *)
NoPairMeansNoneCompatible ==
  FindFirstPair(waiting) = {}
    => \A a, b \in waiting : ~MayInitiate(a, b)

(* Queue order: nobody in the pool who waited longer than the chosen        *)
(* requester, or equally long with a smaller user, could have initiated.    *)
LongestWaitingInitiatorFirst ==
  \A pr \in FindFirstPair(waiting) :
    \A a \in waiting :
      /\ a.pool = pr.requester.pool
      /\ \/ a.created < pr.requester.created
         \/ a.created = pr.requester.created /\ a.user < pr.requester.user
      => \A b \in waiting : ~MayInitiate(a, b)

(* The time preference ranks partners and never excludes one: a partner     *)
(* with another time is chosen only when nobody of the same difficulty      *)
(* class offers the requester's time, and ties go to the longest wait.      *)
PartnerIsBestRanked ==
  \A pr \in FindFirstPair(waiting) :
    \A b \in waiting :
      LET r == pr.requester
          p == pr.partner
          rivals == {c \in waiting : MayInitiate(r, c) /\ (c.diff = r.diff) = (p.diff = r.diff)}
          exact  == {c \in rivals : r.time # NoTime /\ c.time = r.time}
      IN  /\ MayInitiate(r, b) /\ b.diff = r.diff => p.diff = r.diff
          /\ exact # {} => p \in exact
          /\ (b \in exact \/ (exact = {} /\ b \in rivals)) => b.created >= p.created

(* What is selected follows the rules, and no compatible pair is missed.    *)
SelectionFollowsRules == PairsObeyDifficultyRule /\ NoPairMeansNoneCompatible

(* Of the pairs the rules allow, the one selected is the single best one:   *)
(* the queue order picks the requester, level, time and wait the partner.   *)
BestPairIsSelected ==
  SelectionIsDeterministic /\ LongestWaitingInitiatorFirst /\ PartnerIsBestRanked

=============================================================================
