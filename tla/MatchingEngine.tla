--------------------------- MODULE MatchingEngine ---------------------------
(***************************************************************************)
(* Pair selection of the matching service                                  *)
(* (services/matching-service/src/services/matchingEngine.ts): which two   *)
(* waiting requests does the matcher join next?                            *)
(*                                                                         *)
(* A waiting request is a record                                           *)
(*   [id, user, pool, diff, low, time, created].                           *)
(* "pool" stands for the pair (topic, programmingLanguage); pools, users   *)
(* and ids are numbers, compared where the code compares their strings     *)
(* with localeCompare.  "low" is allowLowerDifficultyMatch and "time" is   *)
(* timeAvailableMinutes (NoTime for null).                                 *)
(*                                                                         *)
(* The code sorts arrays and returns the first pair or null.  Here a       *)
(* search returns the set of pairs it may answer: {} for null, and         *)
(* otherwise a single pair, because the sort order is total.  Definitions   *)
(* marked "mutant" are slips the checks must notice; nothing uses them.      *)
(***************************************************************************)
EXTENDS Integers

NoTime == 0

SameDifficulty == "same_difficulty"
Downward == "downward"

-----------------------------------------------------------------------------
(* F10.1 tie-break: earliest submission, then user, then request id. *)
Before(a, b) ==
  \/ a.created < b.created
  \/ a.created = b.created /\ a.user < b.user
  \/ a.created = b.created /\ a.user = b.user /\ a.id < b.id

DifficultyRank == [easy |-> 1, medium |-> 2, hard |-> 3]

Rank(d) == IF d \in DOMAIN DifficultyRank THEN DifficultyRank[d] ELSE 0

StrictlyLower(partner, requester) ==
  /\ Rank(partner) # 0
  /\ Rank(requester) # 0
  /\ Rank(partner) < Rank(requester)

(* Mutant of TimeRank: the time preference is forgotten. *)
TimeRankIgnored(r, c) == 0

(* Time is a ranking only: 1 when both state the same number of minutes. *)
TimeRank(r, c) ==
  IF r.time # NoTime /\ c.time # NoTime /\ r.time = c.time THEN 1 ELSE 0

Preferred(r, p, q) ==
  \/ TimeRank(r, p) > TimeRank(r, q)
  \/ TimeRank(r, p) = TimeRank(r, q) /\ Before(p, q)

(* The head of the candidates sorted for requester r. *)
Best(r, candidates) ==
  {p \in candidates : \A q \in candidates \ {p} : Preferred(r, p, q)}

Pair(r, p, type) == [requester |-> r, partner |-> p, type |-> type]

(* Mutant of FindPartner: a requester that opted in is never paired down. *)
FindPartnerSameOnly(r, pool) ==
  {Pair(r, p, SameDifficulty) :
     p \in Best(r, {q \in pool : q.user # r.user /\ q.diff = r.diff})}

(* Partners of the same difficulty first; a lower one only if opted in. *)
FindPartner(r, pool) ==
  LET others == {p \in pool : p.user # r.user}
      same   == {p \in others : p.diff = r.diff}
      lower  == {p \in others : StrictlyLower(p.diff, r.diff)}
  IN  IF same # {} THEN {Pair(r, p, SameDifficulty) : p \in Best(r, same)}
      ELSE IF r.low THEN {Pair(r, p, Downward) : p \in Best(r, lower)}
      ELSE {}

(* Within a pool the longest-waiting requester that has a partner wins. *)
FirstPairInPool(pool) ==
  {pr \in UNION {FindPartner(r, pool) : r \in pool} :
     \A q \in pool : Before(q, pr.requester) => FindPartner(q, pool) = {}}

PoolRows(eligible, k) == {r \in eligible : r.pool = k}

(* Pools are tried in the order of their keys. *)
FindFirstPair(eligible) ==
  {pr \in UNION {FirstPairInPool(PoolRows(eligible, r.pool)) : r \in eligible} :
     \A r \in eligible :
       r.pool < pr.requester.pool
         => FirstPairInPool(PoolRows(eligible, r.pool)) = {}}

=============================================================================
