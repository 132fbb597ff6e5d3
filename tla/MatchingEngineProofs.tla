------------------------ MODULE MatchingEngineProofs ------------------------
(***************************************************************************)
(* What the matching engine answers, for every set of waiting requests     *)
(* with one request per user: a pair the rules allow whenever there is     *)
(* one, and of those the single best.                                      *)
(***************************************************************************)
EXTENDS MCMatchingEngine, FiniteSetTheorems, WellFoundedInduction, TLAPS

(* The waiting requests are rows, one for each user. *)
RowsOK(W) ==
  /\ \A r \in W : r.user \in EngineUsers /\ r \in RowsOf(r.user)
  /\ \A r, s \in W : r.user = s.user => r = s

(* r may take p, as the engine says it. *)
Allowed(r, p) ==
  /\ p.user # r.user
  /\ \/ p.diff = r.diff
     \/ r.low /\ StrictlyLower(p.diff, r.diff)

Same(r, pool) == {p \in pool : p.user # r.user /\ p.diff = r.diff}
Lower(r, pool) == {p \in pool : p.user # r.user /\ StrictlyLower(p.diff, r.diff)}

(* Those of whom the partner of r is chosen, if he has one. *)
Choice(r, pool) == IF Same(r, pool) # {} THEN Same(r, pool)
                   ELSE IF r.low THEN Lower(r, pool) ELSE {}

TypeFor(r, pool) == IF Same(r, pool) # {} THEN SameDifficulty ELSE Downward

-----------------------------------------------------------------------------
(* Rows and their order. *)

LEMMA RowFields ==
  ASSUME NEW W, RowsOK(W), NEW r \in W
  PROVE  /\ r.user \in Nat /\ r.id = r.user /\ r.pool \in Nat /\ r.created \in Nat
         /\ r.time \in Nat /\ r.low \in BOOLEAN /\ r.diff \in {"easy", "medium", "hard"}
<1>1. r \in RowsOf(r.user) /\ r.user \in Nat
  BY EngineAssumption DEF RowsOK
<1>2. DOMAIN DifficultyRank = {"easy", "medium", "hard"}
  BY DEF DifficultyRank
<1>. QED BY <1>1, <1>2, EngineAssumption DEF RowsOf

(* Of two requests one was there before the other. *)
LEMMA BeforeTotal ==
  ASSUME NEW W, RowsOK(W), NEW r \in W, NEW s \in W
  PROVE  (r = s \/ Before(r, s) \/ Before(s, r)) /\ ~(Before(r, s) /\ Before(s, r))
<1>1. r.user = s.user => r = s
  BY DEF RowsOK
<1>2. /\ r.user \in Nat /\ r.id \in Nat /\ r.created \in Nat
      /\ s.user \in Nat /\ s.id \in Nat /\ s.created \in Nat
  BY RowFields
<1>. QED BY <1>1, <1>2 DEF Before

LEMMA RanksLower ==
  ASSUME NEW d \in {"easy", "medium", "hard"}, NEW e \in {"easy", "medium", "hard"}
  PROVE  StrictlyLower(d, e) <=> <<d, e>> \in
           {<<"easy", "medium">>, <<"easy", "hard">>, <<"medium", "hard">>}
<1>1. Rank("easy") = 1 /\ Rank("medium") = 2 /\ Rank("hard") = 3
  BY DEF Rank, DifficultyRank
<1>2. CASE d = "easy"
  BY <1>1, <1>2 DEF StrictlyLower
<1>3. CASE d = "medium"
  BY <1>1, <1>3 DEF StrictlyLower
<1>4. CASE d = "hard"
  BY <1>1, <1>4 DEF StrictlyLower
<1>. QED BY <1>2, <1>3, <1>4

(* The engine's rule is the documented one. *)
LEMMA AllowedIsTheRule ==
  ASSUME NEW W, RowsOK(W), NEW r \in W, NEW p \in W
  PROVE  MayInitiate(r, p) <=> p.pool = r.pool /\ Allowed(r, p)
<1>1. r.diff \in {"easy", "medium", "hard"} /\ p.diff \in {"easy", "medium", "hard"}
  BY RowFields
<1> DEFINE easier == <<p.diff, r.diff>> \in
             {<<"easy", "medium">>, <<"easy", "hard">>, <<"medium", "hard">>}
<1>2. StrictlyLower(p.diff, r.diff) <=> easier
  BY <1>1, RanksLower
<1>3. MayInitiate(r, p) <=> /\ r.user # p.user /\ r.pool = p.pool
                            /\ r.diff = p.diff \/ (r.low /\ easier)
  BY Zenon DEF MayInitiate
<1> HIDE DEF easier
<1>. QED BY <1>2, <1>3 DEF Allowed

LEMMA LowerIsNotSame ==
  ASSUME NEW W, RowsOK(W), NEW r \in W, NEW p \in W, StrictlyLower(p.diff, r.diff)
  PROVE  p.diff # r.diff
<1>1. r.diff \in {"easy", "medium", "hard"} /\ p.diff \in {"easy", "medium", "hard"}
  BY RowFields
<1>. QED BY <1>1, RanksLower

-----------------------------------------------------------------------------
(* The longest waiting of a set of requests, and the best partner in it. *)

(* A set of numbers that is not empty has a least one: the smaller of two     *)
(* intervals that start at one is a part of the other.                        *)
LEMMA Least ==
  ASSUME NEW N, N \subseteq Nat, N # {}
  PROVE  \E x \in N : \A y \in N : x <= y
<1> DEFINE R == StrictSubsetOrdering(Nat)
           F == FiniteSubsetsOf(Nat)
           U == {1..x : x \in N}
<1>1. IsWellFoundedOn(R, F)
  BY FS_StrictSubsetOrderingWellFounded
<1>2. U \subseteq F
  <2> SUFFICES ASSUME NEW x \in N PROVE 1..x \in F
    OBVIOUS
  <2>1. x \in Int
    OBVIOUS
  <2>2. IsFiniteSet(1..x)
    BY <2>1, FS_Interval
  <2> QED BY <2>1, <2>2 DEF FiniteSubsetsOf
<1>3. U # {}
  OBVIOUS
<1>4. PICK u \in U : \A v \in U : ~(<<v, u>> \in R)
  <2> HIDE DEF R, F, U
  <2> QED BY <1>1, <1>2, <1>3, WFMin
<1>5. PICK x \in N : u = 1..x
  OBVIOUS
<1>6. ASSUME NEW y \in N, y < x PROVE FALSE
  <2>1. 1..y \subseteq 1..x /\ x \in 1..x /\ x \notin 1..y
    BY <1>6
  <2>2. 1..y \in SUBSET Nat /\ 1..x \in SUBSET Nat
    OBVIOUS
  <2>3. <<1..y, 1..x>> \in R
    BY <2>1, <2>2 DEF StrictSubsetOrdering
  <2> QED BY <1>4, <1>5, <2>3
<1> QED BY <1>6

LEMMA PartOfRows ==
  ASSUME NEW W, RowsOK(W), NEW S, S \subseteq W
  PROVE  RowsOK(S)
  BY DEF RowsOK

LEMMA FirstExists ==
  ASSUME NEW S, RowsOK(S), S # {}
  PROVE  \E p \in S : \A q \in S \ {p} : Before(p, q)
<1>1. \A r \in S : r.created \in Nat /\ r.user \in Nat
  BY RowFields
<1> DEFINE C == {r.created : r \in S}
<1>2. C \subseteq Nat /\ C # {}
  BY <1>1
<1>3. PICK c \in C : \A d \in C : c <= d
  <2> HIDE DEF C
  <2>. QED BY <1>2, Least
<1> DEFINE T == {r \in S : r.created = c}
           U == {r.user : r \in T}
<1>4. U \subseteq Nat /\ U # {}
  BY <1>1
<1>5. PICK u \in U : \A v \in U : u <= v
  <2> HIDE DEF U
  <2>. QED BY <1>4, Least
<1>6. PICK p \in S : p.created = c /\ p.user = u
  OBVIOUS
<1>7. ASSUME NEW q \in S \ {p} PROVE Before(p, q)
  <2>1. q.user # p.user
    BY DEF RowsOK
  <2>2. q.created \in Nat /\ q.user \in Nat /\ p.created \in Nat /\ p.user \in Nat
    BY <1>1
  <2>3. p.created <= q.created
    BY <1>3, <1>6
  <2>4. q.created = p.created => p.user <= q.user
    BY <1>5, <1>6
  <2>. QED BY <2>1, <2>2, <2>3, <2>4 DEF Before
<1>. QED BY <1>7

(* A requester prefers one of any two others, and a best one there is. *)
LEMMA BestIsOne ==
  ASSUME NEW W, RowsOK(W), NEW r, NEW p \in Best(r, W), NEW q \in Best(r, W)
  PROVE  p = q
<1>1. TimeRank(r, p) \in {0, 1} /\ TimeRank(r, q) \in {0, 1}
  BY DEF TimeRank
<1>2. p \in W /\ q \in W
  BY DEF Best
<1>3. ASSUME p # q PROVE FALSE
  <2>1. Preferred(r, p, q) /\ Preferred(r, q, p)
    BY <1>3 DEF Best
  <2>2. Before(p, q) /\ Before(q, p)
    BY <1>1, <2>1 DEF Preferred
  <2>. QED BY <1>2, <2>2, BeforeTotal
<1>. QED BY <1>3

LEMMA BestExists ==
  ASSUME NEW S, RowsOK(S), S # {}, NEW r
  PROVE  \E p \in S : p \in Best(r, S)
<1> DEFINE E == {p \in S : TimeRank(r, p) = 1}
           T == IF E # {} THEN E ELSE S
<1>1. T \subseteq S /\ T # {}
  OBVIOUS
<1>2. RowsOK(T)
  <2> HIDE DEF T
  <2>. QED BY <1>1, PartOfRows
<1>3. PICK p \in T : \A q \in T \ {p} : Before(p, q)
  <2> HIDE DEF T
  <2>. QED BY <1>1, <1>2, FirstExists
<1>4. ASSUME NEW q \in S \ {p} PROVE Preferred(r, p, q)
  <2>1. TimeRank(r, p) \in {0, 1} /\ TimeRank(r, q) \in {0, 1}
    BY DEF TimeRank
  <2>2. CASE q \in T
    <3>1. TimeRank(r, p) = TimeRank(r, q)
      BY <2>1, <2>2
    <3>2. Before(p, q)
      BY <1>3, <1>4, <2>2
    <3>. QED BY <3>1, <3>2 DEF Preferred
  <2>3. CASE q \notin T
    <3>1. TimeRank(r, p) = 1 /\ TimeRank(r, q) = 0
      BY <2>1, <2>3
    <3>. QED BY <3>1 DEF Preferred
  <2>. QED BY <2>2, <2>3
<1>. QED BY <1>1, <1>4 DEF Best

-----------------------------------------------------------------------------
(* The partner of a requester, the first pair of a pool, and the first pair. *)

LEMMA PartnerIs ==
  ASSUME NEW r, NEW pool
  PROVE  FindPartner(r, pool) =
           {Pair(r, p, TypeFor(r, pool)) : p \in Best(r, Choice(r, pool))}
<1>1. /\ Same(r, pool) = {p \in {q \in pool : q.user # r.user} : p.diff = r.diff}
      /\ Lower(r, pool) = {p \in {q \in pool : q.user # r.user} : StrictlyLower(p.diff, r.diff)}
  BY DEF Same, Lower
<1>2. Best(r, {}) = {}
  BY DEF Best
<1>3. CASE Same(r, pool) # {}
  BY <1>1, <1>3 DEF FindPartner, TypeFor, Choice
<1>4. CASE Same(r, pool) = {} /\ r.low
  BY <1>1, <1>4 DEF FindPartner, TypeFor, Choice
<1>5. CASE Same(r, pool) = {} /\ ~r.low
  BY <1>1, <1>2, <1>5 DEF FindPartner, TypeFor, Choice
<1>. QED BY <1>3, <1>4, <1>5

LEMMA ChoiceIsAllowed ==
  ASSUME NEW pool, RowsOK(pool), NEW r \in pool, NEW p
  PROVE  /\ p \in Choice(r, pool) => /\ p \in pool /\ Allowed(r, p)
                                     /\ (TypeFor(r, pool) = SameDifficulty) = (p.diff = r.diff)
         /\ p \in pool /\ Allowed(r, p) => /\ Choice(r, pool) # {}
                                           /\ p.diff = r.diff => p \in Choice(r, pool)
         /\ \A q \in Choice(r, pool) :
              p \in pool /\ Allowed(r, p) /\ (p.diff = r.diff) = (q.diff = r.diff)
                => p \in Choice(r, pool)
<1>1. \A q \in pool : StrictlyLower(q.diff, r.diff) => q.diff # r.diff
  BY LowerIsNotSame
<1>2. r.low \in BOOLEAN
  BY RowFields
<1>3. SameDifficulty # Downward
  BY DEF SameDifficulty, Downward
<1>4. CASE Same(r, pool) # {}
  <2>1. Choice(r, pool) = Same(r, pool) /\ TypeFor(r, pool) = SameDifficulty
    BY <1>4 DEF Choice, TypeFor
  <2>2. p \in Same(r, pool) <=> p \in pool /\ p.user # r.user /\ p.diff = r.diff
    BY DEF Same
  <2>3. \A q \in Same(r, pool) : q.diff = r.diff
    BY DEF Same
  <2>4. p \in Same(r, pool) => Allowed(r, p) /\ p \in pool /\ p.diff = r.diff
    BY <2>2 DEF Allowed
  <2>5. p \in pool /\ Allowed(r, p) /\ p.diff = r.diff => p \in Same(r, pool)
    BY <2>2 DEF Allowed
  <2>. QED BY <1>4, <2>1, <2>3, <2>4, <2>5
<1>5. CASE Same(r, pool) = {}
  BY <1>1, <1>2, <1>3, <1>5 DEF Choice, Allowed, TypeFor, Same, Lower
<1>. QED BY <1>4, <1>5

LEMMA FindPartnerAnswers ==
  ASSUME NEW pool, RowsOK(pool), NEW r \in pool
  PROVE  /\ FindPartner(r, pool) = {} <=> \A p \in pool : ~Allowed(r, p)
         /\ \A pr \in FindPartner(r, pool) :
              /\ pr.requester = r /\ pr.partner \in Best(r, Choice(r, pool))
              /\ pr.type = TypeFor(r, pool)
         /\ \A x, y \in FindPartner(r, pool) : x = y
<1>1. Choice(r, pool) \subseteq pool
  BY DEF Choice, Same, Lower
<1>2. RowsOK(Choice(r, pool))
  BY <1>1, PartOfRows
<1>3. ASSUME NEW pr \in FindPartner(r, pool)
      PROVE  /\ pr.requester = r /\ pr.partner \in Best(r, Choice(r, pool))
             /\ pr.type = TypeFor(r, pool) /\ pr = Pair(r, pr.partner, TypeFor(r, pool))
  <2>1. PICK p \in Best(r, Choice(r, pool)) : pr = Pair(r, p, TypeFor(r, pool))
    BY PartnerIs
  <2>. QED BY <2>1 DEF Pair
<1>4. ASSUME NEW x \in FindPartner(r, pool), NEW y \in FindPartner(r, pool) PROVE x = y
  <2>1. x.partner = y.partner
    BY <1>2, <1>3, BestIsOne
  <2>2. x = Pair(r, x.partner, TypeFor(r, pool)) /\ y = Pair(r, y.partner, TypeFor(r, pool))
    BY <1>3
  <2>. QED BY <2>1, <2>2
<1>5. ASSUME FindPartner(r, pool) = {}, NEW p \in pool, Allowed(r, p) PROVE FALSE
  <2>1. Choice(r, pool) # {}
    BY <1>5, ChoiceIsAllowed
  <2>2. PICK q : q \in Best(r, Choice(r, pool))
    BY <1>2, <2>1, BestExists
  <2>. QED BY <1>5, <2>2, PartnerIs
<1>6. ASSUME NEW pr \in FindPartner(r, pool) PROVE \E p \in pool : Allowed(r, p)
  <2>1. pr.partner \in Choice(r, pool)
    BY <1>3 DEF Best
  <2>. QED BY <2>1, ChoiceIsAllowed
<1>. QED BY <1>3, <1>4, <1>5, <1>6

LEMMA FirstPairAnswers ==
  ASSUME NEW pool, RowsOK(pool)
  PROVE  /\ FirstPairInPool(pool) = {} <=> \A r, p \in pool : ~Allowed(r, p)
         /\ \A x, y \in FirstPairInPool(pool) : x = y
         /\ \A pr \in FirstPairInPool(pool) :
              /\ pr.requester \in pool /\ pr \in FindPartner(pr.requester, pool)
              /\ \A q \in pool : Before(q, pr.requester) => \A p \in pool : ~Allowed(q, p)
<1>1. ASSUME NEW pr \in FirstPairInPool(pool)
      PROVE  /\ pr.requester \in pool /\ pr \in FindPartner(pr.requester, pool)
             /\ \A q \in pool : Before(q, pr.requester) => FindPartner(q, pool) = {}
  <2>1. PICK r \in pool : pr \in FindPartner(r, pool)
    BY DEF FirstPairInPool
  <2>2. pr.requester = r
    BY <2>1, FindPartnerAnswers
  <2>. QED BY <2>1, <2>2 DEF FirstPairInPool
<1>2. ASSUME NEW x \in FirstPairInPool(pool), NEW y \in FirstPairInPool(pool) PROVE x = y
  <2>1. ~Before(x.requester, y.requester) /\ ~Before(y.requester, x.requester)
    BY <1>1
  <2>2. x.requester = y.requester
    BY <1>1, <2>1, BeforeTotal
  <2>. QED BY <1>1, <2>2, FindPartnerAnswers
<1>3. ASSUME NEW r \in pool, NEW p \in pool, Allowed(r, p) PROVE FirstPairInPool(pool) # {}
  <2> DEFINE S == {s \in pool : FindPartner(s, pool) # {}}
  <2>1. S # {} /\ S \subseteq pool
    BY <1>3, FindPartnerAnswers
  <2>2. RowsOK(S)
    BY <2>1, PartOfRows
  <2>3. PICK s \in S : \A q \in S \ {s} : Before(s, q)
    <3> HIDE DEF S
    <3>. QED BY <2>1, <2>2, FirstExists
  <2>4. PICK pr \in FindPartner(s, pool) : TRUE
    BY <2>3
  <2>5. pr.requester = s
    BY <2>4, FindPartnerAnswers
  <2>6. ASSUME NEW q \in pool, Before(q, s) PROVE FindPartner(q, pool) = {}
    <3>1. ~(Before(s, q)) /\ ~Before(s, s)
      BY <2>6, BeforeTotal
    <3>. QED BY <2>3, <2>6, <3>1
  <2>. QED BY <2>4, <2>5, <2>6 DEF FirstPairInPool
<1>4. ASSUME NEW pr \in FirstPairInPool(pool) PROVE \E r, p \in pool : Allowed(r, p)
  BY <1>1, FindPartnerAnswers
<1>5. ASSUME NEW pr \in FirstPairInPool(pool), NEW q \in pool, Before(q, pr.requester)
      PROVE  \A p \in pool : ~Allowed(q, p)
  BY <1>1, <1>5, FindPartnerAnswers
<1>. QED BY <1>1, <1>2, <1>3, <1>4, <1>5
-----------------------------------------------------------------------------
(* What is selected of the waiting requests. *)

Pool(W, k) == FirstPairInPool(PoolRows(W, k))

LEMMA PoolAnswers ==
  ASSUME NEW W, RowsOK(W), NEW k
  PROVE  /\ RowsOK(PoolRows(W, k))
         /\ \A r, p \in PoolRows(W, k) : MayInitiate(r, p) <=> Allowed(r, p)
         /\ \A r, p \in W : r.pool = k /\ MayInitiate(r, p) =>
              r \in PoolRows(W, k) /\ p \in PoolRows(W, k)
<1>1. PoolRows(W, k) \subseteq W /\ \A r \in PoolRows(W, k) : r.pool = k
  BY DEF PoolRows
<1>2. RowsOK(PoolRows(W, k))
  BY <1>1, PartOfRows
<1>3. ASSUME NEW r \in PoolRows(W, k), NEW p \in PoolRows(W, k)
      PROVE  MayInitiate(r, p) <=> Allowed(r, p)
  BY <1>1, <1>3, AllowedIsTheRule
<1>4. ASSUME NEW r \in W, NEW p \in W, r.pool = k, MayInitiate(r, p)
      PROVE  r \in PoolRows(W, k) /\ p \in PoolRows(W, k)
  BY <1>4 DEF MayInitiate, PoolRows
<1>. QED BY <1>2, <1>3, <1>4

(* The selected pair is the one of the first pool that has any. *)
LEMMA SelectedIs ==
  ASSUME NEW W, RowsOK(W), NEW pr \in FindFirstPair(W)
  PROVE  LET pool == PoolRows(W, pr.requester.pool)
         IN  /\ pr \in FirstPairInPool(pool) /\ pr.requester \in W
             /\ \A r \in W : r.pool < pr.requester.pool => Pool(W, r.pool) = {}
<1>1. PICK s \in W : pr \in Pool(W, s.pool)
  BY DEF FindFirstPair, Pool
<1>2. pr.requester \in PoolRows(W, s.pool)
  BY <1>1, PoolAnswers, FirstPairAnswers DEF Pool
<1>3. pr.requester.pool = s.pool /\ pr.requester \in W
  BY <1>2 DEF PoolRows
<1>. QED BY <1>1, <1>3 DEF FindFirstPair, Pool

LEMMA SelectionIsUnique ==
  ASSUME NEW W, RowsOK(W), NEW x \in FindFirstPair(W), NEW y \in FindFirstPair(W)
  PROVE  x = y
<1>1. /\ x \in Pool(W, x.requester.pool) /\ y \in Pool(W, y.requester.pool)
      /\ x.requester \in W /\ y.requester \in W
  BY SelectedIs DEF Pool
<1>2. ~(x.requester.pool < y.requester.pool) /\ ~(y.requester.pool < x.requester.pool)
  BY <1>1, SelectedIs
<1>3. x.requester.pool \in Nat /\ y.requester.pool \in Nat
  BY <1>1, RowFields
<1>4. x.requester.pool = y.requester.pool
  BY <1>2, <1>3
<1>. QED BY <1>1, <1>4, PoolAnswers, FirstPairAnswers DEF Pool

(* A pair is selected whenever a request may initiate a match. *)
LEMMA SelectionMissesNobody ==
  ASSUME NEW W, RowsOK(W), NEW a \in W, NEW b \in W, MayInitiate(a, b)
  PROVE  FindFirstPair(W) # {}
<1> DEFINE K == {r.pool : r \in {s \in W : Pool(W, s.pool) # {}}}
<1>1. Pool(W, a.pool) # {}
  BY PoolAnswers, FirstPairAnswers DEF Pool
<1>2. K # {} /\ K \subseteq Nat
  BY <1>1, RowFields
<1>3. PICK k \in K : \A l \in K : k <= l
  <2> HIDE DEF K
  <2>. QED BY <1>2, Least
<1>4. PICK s \in W : s.pool = k /\ Pool(W, s.pool) # {}
  OBVIOUS
<1>5. PICK pr \in Pool(W, s.pool) : TRUE
  BY <1>4
<1>6. pr.requester \in PoolRows(W, s.pool)
  BY <1>5, PoolAnswers, FirstPairAnswers DEF Pool
<1>7. pr.requester.pool = s.pool
  BY <1>6 DEF PoolRows
<1>8. ASSUME NEW r \in W, r.pool < s.pool PROVE Pool(W, r.pool) = {}
  <2>1. r.pool \in Nat /\ s.pool \in Nat
    BY RowFields
  <2>. QED BY <1>3, <1>4, <1>8, <2>1
<1>9. pr \in FindFirstPair(W)
  BY <1>5, <1>7, <1>8 DEF FindFirstPair, Pool
<1>. QED BY <1>9

LEMMA SelectedObeysRule ==
  ASSUME NEW W, RowsOK(W), NEW pr \in FindFirstPair(W)
  PROVE  /\ pr.requester \in W /\ pr.partner \in W /\ MayInitiate(pr.requester, pr.partner)
         /\ (pr.type = SameDifficulty) = (pr.requester.diff = pr.partner.diff)
<1> DEFINE r == pr.requester
           pool == PoolRows(W, r.pool)
<1>1. pr \in FirstPairInPool(pool)
  BY SelectedIs
<1>2. RowsOK(pool) /\ pool \subseteq W
  <2>1. pool \subseteq W
    BY DEF PoolRows
  <2>. QED BY <2>1, PartOfRows
<1> HIDE DEF pool
<1>3. r \in pool /\ pr \in FindPartner(r, pool)
  BY <1>1, <1>2, FirstPairAnswers
<1>4. pr.partner \in Choice(r, pool) /\ pr.type = TypeFor(r, pool)
  BY <1>2, <1>3, FindPartnerAnswers DEF Best
<1>5. /\ pr.partner \in pool /\ Allowed(r, pr.partner)
      /\ (TypeFor(r, pool) = SameDifficulty) = (pr.partner.diff = r.diff)
  BY <1>2, <1>3, <1>4, ChoiceIsAllowed
<1>6. MayInitiate(r, pr.partner)
  BY <1>3, <1>5, PoolAnswers DEF pool
<1>. QED BY <1>2, <1>3, <1>4, <1>5, <1>6

LEMMA SelectedIsBest ==
  ASSUME NEW W, RowsOK(W), NEW pr \in FindFirstPair(W)
  PROVE  LET r == pr.requester
             p == pr.partner
         IN  /\ \A a \in W : a.pool = r.pool /\ Before(a, r) => \A b \in W : ~MayInitiate(a, b)
             /\ \A b \in W : MayInitiate(r, b) /\ b.diff = r.diff => p.diff = r.diff
             /\ \A b \in W \ {p} : MayInitiate(r, b) /\ (b.diff = r.diff) = (p.diff = r.diff)
                                    => Preferred(r, p, b)
<1> DEFINE r == pr.requester
           p == pr.partner
           pool == PoolRows(W, r.pool)
<1>1. pr \in FirstPairInPool(pool)
  BY SelectedIs
<1>2. RowsOK(pool) /\ pool \subseteq W
  <2>1. pool \subseteq W
    BY DEF PoolRows
  <2>. QED BY <2>1, PartOfRows
<1>3. \A a, b \in W : a.pool = r.pool /\ MayInitiate(a, b) => a \in pool /\ b \in pool /\ Allowed(a, b)
  BY PoolAnswers
<1> HIDE DEF pool
<1>4. /\ r \in pool /\ pr \in FindPartner(r, pool)
      /\ \A q \in pool : Before(q, r) => \A b \in pool : ~Allowed(q, b)
  BY <1>1, <1>2, FirstPairAnswers
<1>5. p \in Best(r, Choice(r, pool))
  BY <1>2, <1>4, FindPartnerAnswers
<1>6. p \in Choice(r, pool) /\ \A q \in Choice(r, pool) \ {p} : Preferred(r, p, q)
  BY <1>5 DEF Best
<1>7. ASSUME NEW b \in W, MayInitiate(r, b) PROVE b \in pool /\ Allowed(r, b)
  BY <1>2, <1>3, <1>4, <1>7
<1>8. ASSUME NEW b \in W, MayInitiate(r, b), b.diff = r.diff PROVE p.diff = r.diff
  <2>1. b \in pool /\ b.user # r.user
    BY <1>7, <1>8 DEF Allowed
  <2>2. Same(r, pool) # {}
    BY <1>8, <2>1 DEF Same
  <2>. QED BY <1>6, <2>2 DEF Choice, Same
<1>9. ASSUME NEW b \in W \ {p}, MayInitiate(r, b), (b.diff = r.diff) = (p.diff = r.diff)
      PROVE  Preferred(r, p, b)
  <2>1. b \in Choice(r, pool)
    BY <1>2, <1>4, <1>6, <1>7, <1>9, ChoiceIsAllowed
  <2>. QED BY <1>6, <2>1
<1>10. ASSUME NEW a \in W, a.pool = r.pool, Before(a, r), NEW b \in W PROVE ~MayInitiate(a, b)
  BY <1>3, <1>4, <1>10
<1>. QED BY <1>8, <1>9, <1>10

-----------------------------------------------------------------------------
(* The properties of the matcher's loop. *)

LoopInv == RowsOK(waiting) /\ PairsObeyDifficultyRule

LEMMA LoopBegins == Init => LoopInv
<1>1. SUFFICES ASSUME Init PROVE LoopInv
  OBVIOUS
<1>2. joined = {}
  BY <1>1 DEF Init
<1>3. PICK present \in SUBSET EngineUsers :
        waiting \in {{f[u] : u \in present} :
                        f \in {g \in [present -> UNION {RowsOf(u) : u \in present}] :
                                 \A u \in present : g[u].user = u}}
  BY <1>1 DEF Init
<1>4. PICK f \in [present -> UNION {RowsOf(u) : u \in present}] :
        waiting = {f[u] : u \in present} /\ \A u \in present : f[u].user = u
  BY <1>3
<1>5. ASSUME NEW r \in waiting PROVE r.user \in present /\ r = f[r.user] /\ r \in RowsOf(r.user)
  <2>1. PICK u \in present : r = f[u] /\ r.user = u
    BY <1>4
  <2>2. PICK v \in present : r \in RowsOf(v)
    BY <1>4, <2>1
  <2>3. r.user = v
    BY <2>2 DEF RowsOf
  <2>. QED BY <2>1, <2>2, <2>3
<1>6. RowsOK(waiting)
  BY <1>5 DEF RowsOK
<1>. QED BY <1>2, <1>6 DEF LoopInv, PairsObeyDifficultyRule

LEMMA LoopGoesOn == LoopInv /\ [Next]_vars => LoopInv'
<1>1. SUFFICES ASSUME LoopInv, [Next]_vars PROVE LoopInv'
  OBVIOUS
<1>2. CASE UNCHANGED vars
  BY <1>1, <1>2 DEF vars, LoopInv, PairsObeyDifficultyRule
<1>3. CASE Next
  <2>1. PICK pr \in FindFirstPair(waiting) :
          /\ waiting' = waiting \ {pr.requester, pr.partner}
          /\ joined' = joined \union {pr}
    BY <1>3 DEF Next, JoinFirstPair
  <2>2. RowsOK(waiting')
    BY <1>1, <2>1, PartOfRows DEF LoopInv
  <2>3. /\ MayInitiate(pr.requester, pr.partner)
        /\ (pr.type = SameDifficulty) = (pr.requester.diff = pr.partner.diff)
    BY <1>1, SelectedObeysRule DEF LoopInv
  <2>4. PairsObeyDifficultyRule'
    BY <1>1, <2>1, <2>3 DEF LoopInv, PairsObeyDifficultyRule
  <2>. QED BY <2>2, <2>4 DEF LoopInv
<1>. QED BY <1>1, <1>2, <1>3

(* Whatever requests wait, the engine pairs only those whom the rules of the *)
(* matching service allow, and answers "no pair" only when they allow none.  *)
THEOREM SelectionIsSound == Spec => []SelectionFollowsRules
<1>1. LoopInv => SelectionFollowsRules
  <2>1. LoopInv => NoPairMeansNoneCompatible
    BY SelectionMissesNobody DEF LoopInv, NoPairMeansNoneCompatible
  <2>. QED BY <2>1 DEF LoopInv, SelectionFollowsRules
<1>. QED BY <1>1, LoopBegins, LoopGoesOn, PTL DEF Spec

LEMMA BestIsRanked ==
  ASSUME RowsOK(waiting), NEW pr \in FindFirstPair(waiting), NEW b \in waiting
  PROVE  LET r == pr.requester
             p == pr.partner
             rivals == {c \in waiting : MayInitiate(r, c) /\ (c.diff = r.diff) = (p.diff = r.diff)}
             exact  == {c \in rivals : r.time # NoTime /\ c.time = r.time}
         IN  /\ MayInitiate(r, b) /\ b.diff = r.diff => p.diff = r.diff
             /\ exact # {} => p \in exact
             /\ (b \in exact \/ (exact = {} /\ b \in rivals)) => b.created >= p.created
<1> DEFINE r == pr.requester
           p == pr.partner
           rivals == {c \in waiting : MayInitiate(r, c) /\ (c.diff = r.diff) = (p.diff = r.diff)}
           exact  == {c \in rivals : r.time # NoTime /\ c.time = r.time}
<1>1. r \in waiting /\ p \in waiting /\ MayInitiate(r, p)
  BY SelectedObeysRule
<1>2. \A c \in rivals \ {p} : Preferred(r, p, c)
  BY SelectedIsBest
<1>3. p \in rivals
  BY <1>1
<1>4. ASSUME NEW c \in waiting
      PROVE  /\ TimeRank(r, c) = IF r.time # NoTime /\ c.time = r.time THEN 1 ELSE 0
             /\ c.created \in Nat
  <2>1. TimeRank(r, c) = IF r.time # NoTime /\ c.time = r.time THEN 1 ELSE 0
    BY DEF TimeRank
  <2>. QED BY <2>1, RowFields
<1>5. ASSUME NEW c \in exact PROVE p \in exact
  <2>1. CASE c = p
    BY <2>1
  <2>2. CASE c # p
    <3>1. Preferred(r, p, c)
      BY <1>2, <2>2
    <3>2. TimeRank(r, c) = 1
      BY <1>4
    <3>3. TimeRank(r, p) = 1
      BY <1>1, <1>4, <3>1, <3>2 DEF Preferred
    <3>. QED BY <1>1, <1>3, <1>4, <3>3
  <2>. QED BY <2>1, <2>2
<1>6. ASSUME b \in rivals, b \in exact \/ exact = {} PROVE b.created >= p.created
  <2>1. CASE b = p
    BY <1>1, <1>4, <2>1
  <2>2. CASE b # p
    <3>1. Preferred(r, p, b)
      BY <1>2, <1>6, <2>2
    <3>2. TimeRank(r, p) = TimeRank(r, b)
      <4>1. p \in exact <=> b \in exact
        BY <1>5, <1>6
      <4>. QED BY <1>1, <1>3, <1>4, <1>6, <4>1
    <3>3. TimeRank(r, b) \in {0, 1}
      BY <1>4
    <3>4. Before(p, b)
      BY <3>1, <3>2, <3>3 DEF Preferred
    <3>. QED BY <1>1, <1>4, <3>4 DEF Before
  <2>. QED BY <2>1, <2>2
<1>7. MayInitiate(r, b) /\ b.diff = r.diff => p.diff = r.diff
  BY SelectedIsBest
<1>. QED BY <1>5, <1>6, <1>7

LEMMA SelectedIsTheBest == RowsOK(waiting) => BestPairIsSelected
<1>1. SUFFICES ASSUME RowsOK(waiting) PROVE BestPairIsSelected
  OBVIOUS
<1>2. SelectionIsDeterministic
  <2>1. CASE FindFirstPair(waiting) = {}
    BY <2>1, FS_EmptySet DEF SelectionIsDeterministic
  <2>2. ASSUME NEW x \in FindFirstPair(waiting) PROVE SelectionIsDeterministic
    <3>1. FindFirstPair(waiting) = {x}
      BY <1>1, SelectionIsUnique
    <3>2. Cardinality({x}) = 1
      BY FS_Singleton
    <3>. QED BY <3>1, <3>2 DEF SelectionIsDeterministic
  <2>. QED BY <2>1, <2>2
<1>3. LongestWaitingInitiatorFirst
  <2>1. ASSUME NEW pr \in FindFirstPair(waiting), NEW a \in waiting,
               a.pool = pr.requester.pool,
               \/ a.created < pr.requester.created
               \/ a.created = pr.requester.created /\ a.user < pr.requester.user
        PROVE  \A b \in waiting : ~MayInitiate(a, b)
    <3>1. Before(a, pr.requester)
      BY <2>1 DEF Before
    <3>. QED BY <1>1, <2>1, <3>1, SelectedIsBest
  <2>. QED BY <2>1 DEF LongestWaitingInitiatorFirst
<1>4. PartnerIsBestRanked
  BY <1>1, BestIsRanked DEF PartnerIsBestRanked
<1>. QED BY <1>2, <1>3, <1>4 DEF BestPairIsSelected

(* The pair the engine selects is the single best one: the one who waited    *)
(* longest of those that may initiate, with the partner ranked first by      *)
(* level, time and wait.                                                     *)
THEOREM SelectionIsOptimal == Spec => []BestPairIsSelected
<1>1. LoopInv => BestPairIsSelected
  BY SelectedIsTheBest DEF LoopInv
<1>. QED BY <1>1, LoopBegins, LoopGoesOn, PTL DEF Spec
=============================================================================
