-------------------------- MODULE MatchQueueProofs --------------------------
(***************************************************************************)
(* Safety of the match queue for any number of requests, users, concurrent *)
(* matcher runs and handlers: IInv is inductive, and the properties of     *)
(* MatchQueue follow from it.                                              *)
(***************************************************************************)
EXTENDS MatchQueue, TLAPS

-----------------------------------------------------------------------------
(* The pair the engine selects. *)

(* A pair found for a requester r consists of r and a member of the pool    *)
(* that belongs to another user and that r may take: same difficulty, or    *)
(* strictly lower when r opted in.                                          *)
LEMMA PartnerIsAllowed ==
  ASSUME NEW pool, NEW r \in pool, NEW pr \in FindPartner(r, pool)
  PROVE  /\ pr.requester = r
         /\ pr.partner \in pool
         /\ pr.partner.user # r.user
         /\ \/ pr.partner.diff = r.diff
            \/ r.low /\ StrictlyLower(pr.partner.diff, r.diff)
<1> DEFINE others == {p \in pool : p.user # r.user}
           same   == {p \in others : p.diff = r.diff}
           lower  == {p \in others : StrictlyLower(p.diff, r.diff)}
<1>1. CASE same # {}
  <2>1. PICK p \in Best(r, same) : pr = Pair(r, p, SameDifficulty)
    BY <1>1 DEF FindPartner
  <2>2. p \in same
    BY <2>1 DEF Best
  <2>. QED
    BY <2>1, <2>2 DEF Pair
<1>2. CASE same = {}
  <2>1. r.low /\ \E p \in Best(r, lower) : pr = Pair(r, p, Downward)
    BY <1>2 DEF FindPartner
  <2>2. PICK p \in Best(r, lower) : pr = Pair(r, p, Downward)
    BY <2>1
  <2>3. p \in lower
    BY <2>2 DEF Best
  <2>. QED
    BY <2>1, <2>2, <2>3 DEF Pair
<1>. QED
  BY <1>1, <1>2

(* Whatever pair the engine selects joins two waiting requests of different *)
(* users in one pool, and never takes the requester upward.                 *)
THEOREM SelectedPairIsAllowed ==
  ASSUME NEW eligible, NEW pr \in FindFirstPair(eligible)
  PROVE  /\ pr.requester \in eligible
         /\ pr.partner \in eligible
         /\ pr.requester.user # pr.partner.user
         /\ pr.requester.pool = pr.partner.pool
         /\ \/ pr.partner.diff = pr.requester.diff
            \/ pr.requester.low /\ StrictlyLower(pr.partner.diff, pr.requester.diff)
<1>1. PICK s \in eligible : pr \in FirstPairInPool(PoolRows(eligible, s.pool))
  BY DEF FindFirstPair
<1> DEFINE pool == PoolRows(eligible, s.pool)
<1>2. PICK r \in pool : pr \in FindPartner(r, pool)
  BY <1>1 DEF FirstPairInPool
<1>3. /\ pr.requester = r
      /\ pr.partner \in pool
      /\ pr.partner.user # r.user
      /\ \/ pr.partner.diff = r.diff
         \/ r.low /\ StrictlyLower(pr.partner.diff, r.diff)
  <2> HIDE DEF pool
  <2>. QED
    BY <1>2, PartnerIsAllowed
<1>4. \A p \in pool : p \in eligible /\ p.pool = s.pool
  BY DEF PoolRows
<1>. QED
  BY <1>2, <1>3, <1>4

-----------------------------------------------------------------------------
(* The invariant of the queue. *)

USE NoneAssumption

PCs == {"idle", "expire", "timeouts", "timeout", "pools", "scan",
        "first", "second", "commit", "publish"}

-----------------------------------------------------------------------------
(* Steps that leave the rows and the drafts alone, and do not enter, leave  *)
(* or redirect the joining of a pair. *)
LEMMA FrameStep ==
  ASSUME IInv, TypeOK', IdsExist', UNCHANGED <<row, req, wr>>,
         \A n \in Matchers : pc[n] = "second" => pc'[n] = "second",
         \A n \in Matchers : pc'[n] \in {"first", "second"}
                               => pc'[n] = pc[n] /\ pair'[n] = pair[n]
  PROVE  IInv'
<1>1. RowsAreWellFormed' /\ LocksAreExclusive' /\ DraftsKeepPartners' /\ PairsAreMutual'
  BY DEF IInv, RowsAreWellFormed, LocksAreExclusive, DraftsKeepPartners, PairsAreMutual,
         Unmatched, Compatible
<1>2. \A r, q : Compatible(r, q)' <=> Compatible(r, q)
  BY DEF Compatible
<1>3. DraftPairsAreMutual'
  BY <1>2 DEF IInv, DraftPairsAreMutual, Connected
<1>4. PairIsCompatible'
  BY <1>2 DEF IInv, PairIsCompatible
<1>. QED
  BY <1>1, <1>3, <1>4 DEF IInv

(* Handlers: rows change, but no locked row, no partner, no used column. *)
LEMMA RowStep ==
  ASSUME IInv, TypeOK', UNCHANGED <<wr, pc, pair, ids>>,
         \A c \in Callers : call'[c] = call[c] \/ call'[c] = None,
         \A r \in Requests :
           /\ row'[r].peer = row[r].peer
           /\ Locked(r) => row'[r] = row[r]
           /\ row[r].status # "FREE" =>
                /\ row'[r].status # "FREE"
                /\ req'[r] = req[r]
                /\ row[r].low => row'[r].low
           /\ Unmatched(row'[r]) => row'[r].peer = None
           /\ row'[r].status # "FREE" => req'[r] # None
  PROVE  IInv'
<1> USE DEF IInv
<1>1. RowsAreWellFormed' /\ IdsExist' /\ LocksAreExclusive'
  <2>1. \A c \in Callers : call[c] # None => call[c].id \in Requests
    BY DEF TypeOK, CallType
  <2>2. IdsExist'
    BY <2>1 DEF IdsExist, TypeOK
  <2>. QED
    BY <2>2 DEF RowsAreWellFormed, LocksAreExclusive
<1>2. DraftsKeepPartners'
  BY DEF DraftsKeepPartners, Locked, Unmatched
<1>3. ASSUME NEW r \in Requests, NEW q \in Requests, Compatible(r, q),
             row[r].status # "FREE", row[q].status # "FREE"
      PROVE  Compatible(r, q)'
  BY <1>3 DEF Compatible
<1>4. DraftPairsAreMutual'
  <2> SUFFICES ASSUME NEW m \in Matchers, NEW r \in Requests,
                      wr[m][r] # None, wr[m][r].peer # None, row[r].peer = None
               PROVE  LET q == wr[m][r].peer IN
                      /\ Connected(row'[r])
                      /\ Compatible(r, q)'
                      /\ \/ wr[m][q] # None /\ wr[m][q].peer = r /\ row'[q].peer = None
                         \/ pc[m] = "second" /\ pair[m] = [a |-> r, b |-> q]
    BY DEF DraftPairsAreMutual
  <2> DEFINE q == wr[m][r].peer
  <2>1. q \in Requests
    BY DEF TypeOK, RowType
  <2>2. row'[r] = row[r] /\ row[r].status # "FREE"
    BY DEF Locked, DraftsKeepPartners
  <2>3. /\ Connected(row[r])
        /\ Compatible(r, q)
        /\ \/ wr[m][q] # None /\ wr[m][q].peer = r /\ row[q].peer = None
           \/ pc[m] = "second" /\ pair[m] = [a |-> r, b |-> q]
    BY DEF DraftPairsAreMutual
  <2>4. row[q].status # "FREE"
    BY <2>1, <2>3 DEF DraftsKeepPartners, PairIsCompatible
  <2>. QED
    BY <1>3, <2>1, <2>2, <2>3, <2>4
<1>5. PairIsCompatible'
  <2> SUFFICES ASSUME NEW m \in Matchers, pc[m] \in {"first", "second"}
               PROVE  /\ pair[m] # None
                      /\ row'[pair[m].a].status # "FREE"
                      /\ row'[pair[m].b].status # "FREE"
                      /\ Compatible(pair[m].a, pair[m].b)'
                      /\ pc[m] = "second" =>
                           /\ wr[m][pair[m].a] # None
                           /\ wr[m][pair[m].a].peer = pair[m].b
                           /\ row'[pair[m].a].peer = None
    BY DEF PairIsCompatible
  <2>1. pair[m] # None /\ pair[m].a \in Requests /\ pair[m].b \in Requests
    BY DEF PairIsCompatible, TypeOK, PairType
  <2>. QED
    BY <1>3, <2>1 DEF PairIsCompatible
<1>6. PairsAreMutual'
  <2> SUFFICES ASSUME NEW r \in Requests, row'[r].peer # None
               PROVE  /\ row'[row'[r].peer].peer = r
                      /\ Compatible(r, row[r].peer)'
    BY DEF PairsAreMutual
  <2>1. row[r].peer # None /\ row'[r].peer = row[r].peer /\ row[r].peer \in Requests
    BY DEF TypeOK, RowType
  <2>2. row[row[r].peer].peer = r /\ Compatible(r, row[r].peer)
    BY <2>1 DEF PairsAreMutual
  <2>3. row[r].status # "FREE" /\ row[row[r].peer].status # "FREE"
    BY <2>1, <2>2 DEF RowsAreWellFormed, Unmatched
  <2>. QED
    BY <1>3, <2>1, <2>2, <2>3
<1>. QED
  BY <1>1, <1>2, <1>4, <1>5, <1>6

(* Bulk updates of a run: drafts of existing rows that take them out of the *)
(* queue and keep their partners. *)
LEMMA ExpiryStep ==
  ASSUME IInv, TypeOK', IdsExist', UNCHANGED <<row, req, pair>>,
         NEW m \in Matchers, NEW S \in SUBSET Requests, NEW new \in [S -> RowType],
         pc[m] \notin {"first", "second"}, pc'[m] \notin {"first", "second"},
         \A n \in Matchers \ {m} : pc'[n] = pc[n],
         MayLock(m, S), Write(m, new),
         \A r \in S : /\ row[r].status # "FREE"
                      /\ ~Unmatched(new[r])
                      /\ new[r].low = View(m, r).low
                      /\ new[r].peer = View(m, r).peer
  PROVE  IInv'
<1> USE DEF IInv
<1>1. \A r \in Requests :
        wr'[m][r] = IF r \in S THEN new[r] ELSE wr[m][r]
  BY DEF Write, TypeOK
<1>2. \A n \in Matchers \ {m} : wr'[n] = wr[n]
  BY DEF Write, TypeOK
<1>3. \A r \in S : new[r] # None
  OBVIOUS
<1>4. RowsAreWellFormed' /\ PairsAreMutual' /\ PairIsCompatible'
  BY <1>2 DEF RowsAreWellFormed, PairsAreMutual, Unmatched, Compatible, PairIsCompatible
<1>5. LocksAreExclusive'
  BY <1>1, <1>2 DEF LocksAreExclusive, MayLock
<1>6. DraftsKeepPartners'
  BY <1>1, <1>2, <1>3 DEF DraftsKeepPartners, View, Unmatched
<1>7. DraftPairsAreMutual'
  <2> SUFFICES ASSUME NEW n \in Matchers, NEW r \in Requests,
                      wr'[n][r] # None, wr'[n][r].peer # None, row[r].peer = None
               PROVE  LET q == wr'[n][r].peer IN
                      /\ Connected(row[r])
                      /\ Compatible(r, q)
                      /\ \/ wr'[n][q] # None /\ wr'[n][q].peer = r /\ row[q].peer = None
                         \/ pc'[n] = "second" /\ pair[n] = [a |-> r, b |-> q]
    BY DEF DraftPairsAreMutual, Compatible
  <2>1. CASE n # m
    BY <1>2, <2>1 DEF DraftPairsAreMutual
  <2>2. CASE n = m
    <3>1. wr[m][r] # None /\ wr'[m][r].peer = wr[m][r].peer
      BY <1>1, <2>2 DEF View
    <3>2. LET q == wr[m][r].peer IN
            /\ Connected(row[r])
            /\ Compatible(r, q)
            /\ wr[m][q] # None /\ wr[m][q].peer = r /\ row[q].peer = None
      BY <2>2, <3>1 DEF DraftPairsAreMutual
    <3>3. wr[m][r].peer \in Requests
      BY <2>2, <3>1 DEF TypeOK, RowType
    <3>. QED
      BY <1>1, <1>3, <2>2, <3>1, <3>2, <3>3 DEF View
  <2>. QED
    BY <2>1, <2>2
<1>. QED
  BY <1>4, <1>5, <1>6, <1>7

(* A run that rolls back forgets its drafts. *)
LEMMA RollbackStep ==
  ASSUME IInv, UNCHANGED <<now, row, req, call, announced, timedOut>>, failures' \in Nat,
         NEW m \in Matchers, Rollback(m)
  PROVE  IInv'
<1> USE DEF IInv
<1>1. TypeOK'
  BY DEF TypeOK, Rollback, NoWrites
<1>2. /\ \A r \in Requests : wr'[m][r] = None
      /\ \A n \in Matchers \ {m} : wr'[n] = wr[n] /\ pc'[n] = pc[n] /\ pair'[n] = pair[n]
      /\ pc'[m] = "idle" /\ ids'[m] = {}
      /\ \A n \in Matchers \ {m} : ids'[n] = ids[n]
  BY DEF Rollback, NoWrites, TypeOK
<1>3. RowsAreWellFormed' /\ PairsAreMutual'
  BY DEF RowsAreWellFormed, PairsAreMutual, Unmatched, Compatible
<1>4. IdsExist' /\ LocksAreExclusive' /\ DraftsKeepPartners'
  BY <1>2 DEF IdsExist, LocksAreExclusive, DraftsKeepPartners, Unmatched
<1>5. \A r, q : Compatible(r, q)' <=> Compatible(r, q)
  BY DEF Compatible
<1>6. DraftPairsAreMutual'
  BY <1>2, <1>5 DEF DraftPairsAreMutual, Connected
<1>7. PairIsCompatible'
  BY <1>2, <1>5 DEF PairIsCompatible
<1>. QED
  BY <1>1, <1>3, <1>4, <1>6, <1>7

-----------------------------------------------------------------------------
(* The two UPDATEs that finalize a pair, and the commit. *)

(* A connected row seen by a run is a committed row the run has not         *)
(* written: drafts are never PENDING.                                       *)
LEMMA ConnectedIsUndrafted ==
  ASSUME IInv, NEW m \in Matchers, NEW r \in Requests, Connected(View(m, r))
  PROVE  wr[m][r] = None /\ row[r].peer = None /\ Connected(row[r])
  BY DEF IInv, DraftsKeepPartners, RowsAreWellFormed, Connected, View, Unmatched

LEMMA JoinedRow ==
  ASSUME NEW v \in RowType, NEW p \in Requests
  PROVE  /\ Joined(v, p) \in RowType
         /\ Joined(v, p).status = "MATCHED"
         /\ Joined(v, p).peer = p
         /\ Joined(v, p).low = v.low
  BY DEF Joined, RowType, Status

LEMMA JoinFirstStep ==
  ASSUME IInv, NEW m \in Matchers, JoinFirst(m)
  PROVE  IInv'
<1> USE DEF IInv
<1> DEFINE a == pair[m].a
           b == pair[m].b
<1>1. /\ pc[m] = "first" /\ pair[m] # None
      /\ a \in Requests /\ b \in Requests /\ pair[m] = [a |-> a, b |-> b]
      /\ row[a].status # "FREE" /\ row[b].status # "FREE" /\ Compatible(a, b)
  BY DEF JoinFirst, PairIsCompatible, TypeOK, PairType
<1>2. UNCHANGED <<now, req, row, at, ids, todo, out, made, call, announced, timedOut, failures>>
  BY DEF JoinFirst, table, local, results, events
<1>3. CASE MayJoin(View(m, a))
  <2>1. wr[m][a] = None /\ row[a].peer = None /\ Connected(row[a])
    BY <1>1, <1>3, ConnectedIsUndrafted DEF MayJoin
  <2>2. View(m, a) = row[a]
    BY <2>1 DEF View
  <2>3. /\ pc' = [pc EXCEPT ![m] = "second"]
        /\ wr' = [wr EXCEPT ![m] =
                    [r \in Requests |-> IF r = a THEN Joined(row[a], b) ELSE wr[m][r]]]
        /\ MayLock(m, {a})
        /\ UNCHANGED pair
    <3>1. Move(m, "first", "second") /\ MayLock(m, {a}) /\ UNCHANGED pair
          /\ Write(m, [r \in {a} |-> Joined(View(m, r), b)])
      BY <1>3 DEF JoinFirst
    <3>. QED
      BY <2>2, <3>1 DEF Move, Write
  <2>4. Joined(row[a], b) \in RowType /\ Joined(row[a], b).status = "MATCHED"
        /\ Joined(row[a], b).peer = b /\ Joined(row[a], b).low = row[a].low
    BY <1>1, JoinedRow DEF TypeOK
  <2> HIDE DEF a, b
  <2>5. /\ wr'[m][a] = Joined(row[a], b) /\ wr'[m][a] # None
        /\ \A r \in Requests \ {a} : wr'[m][r] = wr[m][r]
        /\ \A n \in Matchers \ {m} : wr'[n] = wr[n]
        /\ pc'[m] = "second" /\ \A n \in Matchers \ {m} : pc'[n] = pc[n]
    BY <1>1, <2>3, <2>4 DEF TypeOK
  <2>6. TypeOK'
    BY <1>1, <1>2, <2>3, <2>4 DEF TypeOK
  <2>7. RowsAreWellFormed' /\ IdsExist' /\ PairsAreMutual'
    BY <1>2 DEF RowsAreWellFormed, IdsExist, PairsAreMutual, Unmatched, Compatible
  <2>8. LocksAreExclusive'
    BY <2>3, <2>5 DEF LocksAreExclusive, MayLock
  <2>9. DraftsKeepPartners'
    BY <1>1, <1>2, <2>1, <2>4, <2>5 DEF DraftsKeepPartners, Unmatched
  <2>10. \A r, q : Compatible(r, q)' <=> Compatible(r, q)
    BY <1>2 DEF Compatible
  <2>11. DraftPairsAreMutual'
    <3> SUFFICES ASSUME NEW n \in Matchers, NEW r \in Requests,
                        wr'[n][r] # None, wr'[n][r].peer # None, row[r].peer = None
                 PROVE  LET q == wr'[n][r].peer IN
                        /\ Connected(row[r])
                        /\ Compatible(r, q)
                        /\ \/ wr'[n][q] # None /\ wr'[n][q].peer = r /\ row[q].peer = None
                           \/ pc'[n] = "second" /\ pair'[n] = [a |-> r, b |-> q]
      BY <1>2, <2>10 DEF DraftPairsAreMutual, Connected
    <3>1. CASE n # m
      BY <2>3, <2>5, <3>1 DEF DraftPairsAreMutual
    <3>2. CASE n = m /\ r = a
      BY <1>1, <2>1, <2>3, <2>4, <2>5, <3>2
    <3>3. CASE n = m /\ r # a
      <4>0. wr[m][r] # None /\ wr[m][r].peer # None
        BY <2>5, <3>3
      <4>1. /\ Connected(row[r])
            /\ Compatible(r, wr[m][r].peer)
            /\ wr[m][wr[m][r].peer] # None
            /\ wr[m][wr[m][r].peer].peer = r
            /\ row[wr[m][r].peer].peer = None
        BY <1>1, <3>3, <4>0 DEF DraftPairsAreMutual
      <4>2. wr[m][r].peer \in Requests
        BY <2>5, <3>3 DEF TypeOK, RowType
      <4>. QED
        BY <2>1, <2>5, <3>3, <4>1, <4>2
    <3>. QED
      BY <3>1, <3>2, <3>3
  <2>12. PairIsCompatible'
    BY <1>1, <1>2, <2>1, <2>3, <2>4, <2>5, <2>10 DEF PairIsCompatible, a, b
  <2>. QED
    BY <2>6, <2>7, <2>8, <2>9, <2>11, <2>12
<1>4. CASE ~MayJoin(View(m, a))
  <2>1. pc' = [pc EXCEPT ![m] = "commit"] /\ pair' = [pair EXCEPT ![m] = None] /\ UNCHANGED wr
    BY <1>4 DEF JoinFirst, Move
  <2>2. TypeOK' /\ IdsExist'
    BY <1>2, <2>1 DEF TypeOK, IdsExist
  <2>. QED
    BY <1>1, <1>2, <2>1, <2>2, FrameStep DEF TypeOK
<1>. QED
  BY <1>3, <1>4

LEMMA JoinSecondStep ==
  ASSUME IInv, NEW m \in Matchers, JoinSecond(m)
  PROVE  IInv'
<1> USE DEF IInv
<1> DEFINE a == pair[m].a
           b == pair[m].b
<1>1. /\ pc[m] = "second" /\ pair[m] # None
      /\ a \in Requests /\ b \in Requests /\ pair[m] = [a |-> a, b |-> b]
      /\ row[a].status # "FREE" /\ row[b].status # "FREE" /\ Compatible(a, b)
      /\ wr[m][a] # None /\ wr[m][a].peer = b /\ row[a].peer = None
  BY DEF JoinSecond, PairIsCompatible, TypeOK, PairType
<1>2. UNCHANGED <<now, req, row, call, announced, timedOut, failures>>
  BY DEF JoinSecond, table, events
<1>3. CASE ~MayJoin(View(m, b))
  <2>1. Rollback(m)
    BY <1>3 DEF JoinSecond, PartnerGone
  <2>. QED
    BY <1>2, <2>1, RollbackStep DEF TypeOK
<1>4. CASE MayJoin(View(m, b))
  <2>1. wr[m][b] = None /\ row[b].peer = None /\ Connected(row[b])
    BY <1>1, <1>4, ConnectedIsUndrafted DEF MayJoin
  <2>2. View(m, b) = row[b] /\ a # b
    BY <1>1, <2>1 DEF View
  <2>3. /\ pc' = [pc EXCEPT ![m] = "pools"]
        /\ wr' = [wr EXCEPT ![m] =
                    [r \in Requests |-> IF r = b THEN Joined(row[b], a) ELSE wr[m][r]]]
        /\ MayLock(m, {b})
        /\ pair' = [pair EXCEPT ![m] = None]
        /\ made' = [made EXCEPT ![m] = @ \union {pair[m]}]
        /\ UNCHANGED <<at, ids, todo, out>>
    <3>1. /\ Move(m, "second", "pools") /\ MayLock(m, {b})
          /\ pair' = [pair EXCEPT ![m] = None]
          /\ Write(m, [r \in {b} |-> Joined(View(m, r), a)])
          /\ made' = [made EXCEPT ![m] = @ \union {pair[m]}]
          /\ UNCHANGED <<at, ids, todo, out>>
      BY <1>4 DEF JoinSecond, local
    <3>. QED
      BY <2>2, <3>1 DEF Move, Write
  <2>4. Joined(row[b], a) \in RowType /\ Joined(row[b], a).status = "MATCHED"
        /\ Joined(row[b], a).peer = a /\ Joined(row[b], a).low = row[b].low
    BY <1>1, JoinedRow DEF TypeOK
  <2> HIDE DEF a, b
  <2>5. /\ wr'[m][b] = Joined(row[b], a) /\ wr'[m][b] # None
        /\ \A r \in Requests \ {b} : wr'[m][r] = wr[m][r]
        /\ \A n \in Matchers \ {m} : wr'[n] = wr[n] /\ pc'[n] = pc[n] /\ pair'[n] = pair[n]
        /\ pc'[m] = "pools"
    BY <1>1, <2>3, <2>4 DEF TypeOK
  <2>6. TypeOK'
    BY <1>1, <1>2, <2>3, <2>4 DEF TypeOK
  <2>7. RowsAreWellFormed' /\ IdsExist' /\ PairsAreMutual'
    BY <1>2, <2>3 DEF RowsAreWellFormed, IdsExist, PairsAreMutual, Unmatched, Compatible
  <2>8. LocksAreExclusive'
    BY <2>3, <2>5 DEF LocksAreExclusive, MayLock
  <2>9. DraftsKeepPartners'
    BY <1>1, <1>2, <2>1, <2>4, <2>5 DEF DraftsKeepPartners, Unmatched
  <2>10. \A r, q : Compatible(r, q)' <=> Compatible(r, q)
    BY <1>2 DEF Compatible
  <2>11. Compatible(b, a) /\ Connected(row[a])
    BY <1>1 DEF Compatible, DraftPairsAreMutual
  <2>12. DraftPairsAreMutual'
    <3> SUFFICES ASSUME NEW n \in Matchers, NEW r \in Requests,
                        wr'[n][r] # None, wr'[n][r].peer # None, row[r].peer = None
                 PROVE  LET q == wr'[n][r].peer IN
                        /\ Connected(row[r])
                        /\ Compatible(r, q)
                        /\ \/ wr'[n][q] # None /\ wr'[n][q].peer = r /\ row[q].peer = None
                           \/ pc'[n] = "second" /\ pair'[n] = [a |-> r, b |-> q]
      BY <1>2, <2>10 DEF DraftPairsAreMutual, Connected
    <3>1. CASE n # m
      BY <2>3, <2>5, <3>1 DEF DraftPairsAreMutual
    <3>2. CASE n = m /\ r = b
      BY <1>1, <2>1, <2>2, <2>4, <2>5, <2>11, <3>2
    <3>3. CASE n = m /\ r = a
      BY <1>1, <2>1, <2>2, <2>4, <2>5, <2>11, <3>3
    <3>4. CASE n = m /\ r # b /\ r # a
      <4>0. wr[m][r] # None /\ wr[m][r].peer # None
        BY <2>5, <3>4
      <4>1. /\ Connected(row[r])
            /\ Compatible(r, wr[m][r].peer)
            /\ wr[m][wr[m][r].peer] # None
            /\ wr[m][wr[m][r].peer].peer = r
            /\ row[wr[m][r].peer].peer = None
        <5>1. [a |-> r, b |-> wr[m][r].peer].a = r
          OBVIOUS
        <5>2. pair[m] # [a |-> r, b |-> wr[m][r].peer]
          BY <3>4, <5>1 DEF a
        <5>. QED
          BY <3>4, <4>0, <5>2 DEF DraftPairsAreMutual
      <4>2. wr[m][r].peer \in Requests
        BY <2>5, <3>4 DEF TypeOK, RowType
      <4>. QED
        BY <2>1, <2>5, <3>4, <4>1, <4>2
    <3>. QED
      BY <3>1, <3>2, <3>3, <3>4
  <2>13. PairIsCompatible'
    BY <1>2, <2>5, <2>10 DEF PairIsCompatible
  <2>. QED
    BY <2>6, <2>7, <2>8, <2>9, <2>12, <2>13
<1>. QED
  BY <1>3, <1>4

LEMMA CommitStep ==
  ASSUME IInv, NEW m \in Matchers, Commit(m)
  PROVE  IInv'
<1> USE DEF IInv
<1>1. /\ UNCHANGED <<now, req, at, ids, todo, pair, out, made, call, announced, timedOut, failures>>
      /\ pc[m] = "commit"
      /\ pc' = [pc EXCEPT ![m] = AfterCommit(m)]
      /\ AfterCommit(m) \in {"idle", "publish"}
  BY DEF Commit, Move, AfterCommit, local, results, events
<1>2. /\ \A r \in Requests : row'[r] = View(m, r)
      /\ \A r \in Requests : wr'[m][r] = None
      /\ \A n \in Matchers \ {m} : wr'[n] = wr[n] /\ pc'[n] = pc[n]
      /\ pc'[m] \in {"idle", "publish"}
  BY <1>1 DEF Commit, NoWrites, TypeOK
<1>3. TypeOK'
  BY <1>1 DEF Commit, TypeOK, View, NoWrites
<1>4. \A r \in Requests :
        /\ row[r].status # "FREE" => row'[r].status # "FREE"
        /\ row[r].status = "FREE" => row'[r] = row[r]
        /\ row[r].peer # None => row'[r].peer = row[r].peer
        /\ row'[r].low = row[r].low
        /\ Unmatched(row'[r]) => row'[r] = row[r]
  BY <1>2 DEF View, DraftsKeepPartners, Unmatched
<1>5. \A n \in Matchers \ {m}, r \in Requests : wr[n][r] # None => row'[r] = row[r]
  BY <1>2 DEF View, LocksAreExclusive
<1>6. RowsAreWellFormed' /\ IdsExist'
  <2>1. RowsAreWellFormed'
    BY <1>1, <1>4 DEF RowsAreWellFormed, Unmatched
  <2>2. \A c \in Callers : call[c] # None => call[c].id \in Requests
    BY DEF TypeOK, CallType
  <2>3. IdsExist'
    BY <1>1, <1>4, <2>2 DEF IdsExist, TypeOK
  <2>. QED
    BY <2>1, <2>3
<1>7. LocksAreExclusive'
  BY <1>2 DEF LocksAreExclusive
<1>8. DraftsKeepPartners'
  BY <1>2, <1>5 DEF DraftsKeepPartners, Unmatched
<1>9. \A r, q \in Requests : Compatible(r, q)' <=> Compatible(r, q)
  BY <1>1, <1>4 DEF Compatible
<1>10. DraftPairsAreMutual'
  <2> SUFFICES ASSUME NEW n \in Matchers, NEW r \in Requests,
                      wr'[n][r] # None, wr'[n][r].peer # None, row'[r].peer = None
               PROVE  LET q == wr'[n][r].peer IN
                      /\ Connected(row'[r])
                      /\ Compatible(r, wr[n][r].peer)'
                      /\ \/ wr'[n][q] # None /\ wr'[n][q].peer = r /\ row'[q].peer = None
                         \/ pc'[n] = "second" /\ pair'[n] = [a |-> r, b |-> q]
    BY <1>1 DEF DraftPairsAreMutual
  <2>1. n # m /\ wr'[n] = wr[n] /\ row'[r] = row[r] /\ pc'[n] = pc[n] /\ pair'[n] = pair[n]
    BY <1>1, <1>2, <1>5
  <2> DEFINE q == wr[n][r].peer
  <2>2. q \in Requests
    BY <2>1 DEF TypeOK, RowType
  <2>3. /\ Connected(row[r]) /\ Compatible(r, q)
        /\ \/ wr[n][q] # None /\ wr[n][q].peer = r /\ row[q].peer = None
           \/ pc[n] = "second" /\ pair[n] = [a |-> r, b |-> q]
    BY <2>1 DEF DraftPairsAreMutual
  <2>. QED
    BY <1>5, <1>9, <2>1, <2>2, <2>3
<1>11. PairIsCompatible'
  <2> SUFFICES ASSUME NEW n \in Matchers, pc'[n] \in {"first", "second"}
               PROVE  /\ pair[n] # None
                      /\ row'[pair[n].a].status # "FREE"
                      /\ row'[pair[n].b].status # "FREE"
                      /\ Compatible(pair[n].a, pair[n].b)'
                      /\ pc'[n] = "second" =>
                           /\ wr'[n][pair[n].a] # None
                           /\ wr'[n][pair[n].a].peer = pair[n].b
                           /\ row'[pair[n].a].peer = None
    BY <1>1 DEF PairIsCompatible
  <2>1. n # m /\ pc[n] = pc'[n] /\ wr'[n] = wr[n]
    BY <1>2
  <2>2. pair[n] # None /\ pair[n].a \in Requests /\ pair[n].b \in Requests
    BY <2>1 DEF PairIsCompatible, TypeOK, PairType
  <2>3. Compatible(pair[n].a, pair[n].b)'
    BY <1>1, <1>9, <2>1, <2>2 DEF PairIsCompatible
  <2>. QED
    BY <1>4, <1>5, <2>1, <2>2, <2>3 DEF PairIsCompatible
<1>12. PairsAreMutual'
  <2> SUFFICES ASSUME NEW r \in Requests, row'[r].peer # None
               PROVE  row'[row'[r].peer].peer = r /\ Compatible(r, row[r].peer)'
    BY DEF PairsAreMutual
  <2> DEFINE q == row'[r].peer
  <2>1. q \in Requests
    BY <1>3 DEF TypeOK, RowType
  <2>2. CASE row[r].peer # None
    <3>1. q = row[r].peer /\ row[q].peer = r /\ Compatible(r, q)
      BY <1>4, <2>2 DEF PairsAreMutual
    <3>2. row'[q].peer = r
      BY <1>4, <2>1, <3>1
    <3>. QED
      BY <1>9, <2>1, <3>1, <3>2
  <2>3. CASE row[r].peer = None
    <3>1. wr[m][r] # None /\ row'[r] = wr[m][r]
      BY <1>2, <2>3 DEF View
    <3>2. Compatible(r, q) /\ wr[m][q] # None /\ wr[m][q].peer = r
      BY <1>1, <2>3, <3>1 DEF DraftPairsAreMutual
    <3>3. row'[q].peer = r
      BY <1>2, <2>1, <3>2 DEF View
    <3>. QED
      BY <1>9, <2>1, <3>2, <3>3
  <2>. QED
    BY <2>2, <2>3
<1>. QED
  BY <1>3, <1>6, <1>7, <1>8, <1>10, <1>11, <1>12

-----------------------------------------------------------------------------
(* One lemma per remaining action. *)

(* An eligible row is in the table. *)
LEMMA EligibleHasColumns ==
  ASSUME IInv, NEW m \in Matchers, NEW r \in Eligible(m)
  PROVE  /\ r \in Requests /\ row[r].status = "PENDING"
         /\ req[r] \in ReqType /\ View(m, r) = row[r]
<1>1. r \in Requests /\ Connected(View(m, r))
  BY DEF Eligible
<1>2. wr[m][r] = None /\ Connected(row[r])
  BY <1>1, ConnectedIsUndrafted
<1>. QED
  BY <1>1, <1>2 DEF IInv, TypeOK, RowsAreWellFormed, Connected, View

LEMMA ReadingRunStep ==
  ASSUME IInv, NEW m \in Matchers, Begin(m) \/ ReadTimeouts(m) \/ ReadPools(m)
  PROVE  IInv'
<1> USE DEF IInv
<1>1. UNCHANGED <<now, req, row, pair, wr, out, made, call, announced, timedOut, failures>>
  BY DEF Begin, ReadTimeouts, ReadPools, table, results, events
<1>2. pc[m] \in {"idle", "timeouts", "pools"}
      /\ \E to \in {"timeouts", "expire", "pools", "timeout", "commit", "scan"} :
           pc' = [pc EXCEPT ![m] = to]
  BY DEF Begin, ReadTimeouts, ReadPools, Move
<1>3. \E S \in SUBSET Requests :
        (ids' = [ids EXCEPT ![m] = S] /\ \A r \in S : row[r].status # "FREE") \/ UNCHANGED ids
  <2>1. CASE Begin(m)
    BY <2>1 DEF Begin, Expired
  <2>2. CASE ReadTimeouts(m)
    BY <2>2, EligibleHasColumns DEF ReadTimeouts
  <2>3. CASE ReadPools(m)
    BY <2>3 DEF ReadPools
  <2>. QED
    BY <2>1, <2>2, <2>3
<1>4. \E t \in Nat : at' = [at EXCEPT ![m] = t]
  BY DEF Begin, ReadTimeouts, ReadPools, TypeOK
<1>5. \E K \in SUBSET Pools : todo' = [todo EXCEPT ![m] = K]
  <2>1. CASE ReadPools(m)
    <3>1. {req[r].pool : r \in Eligible(m)} \subseteq Pools
      BY EligibleHasColumns DEF ReqType
    <3>. QED
      BY <2>1, <3>1 DEF ReadPools
  <2>2. CASE ~ReadPools(m)
    BY <2>2 DEF Begin, ReadTimeouts, TypeOK
  <2>. QED
    BY <2>1, <2>2
<1>6. TypeOK'
  <2>1. pc' \in [Matchers -> PCs]
    BY <1>2 DEF TypeOK, PCs
  <2>2. ids' \in [Matchers -> SUBSET Requests]
    BY <1>3 DEF TypeOK
  <2>3. at' \in [Matchers -> Nat]
    BY <1>4 DEF TypeOK
  <2>4. todo' \in [Matchers -> SUBSET Pools]
    BY <1>5 DEF TypeOK
  <2>. QED
    BY <1>1, <2>1, <2>2, <2>3, <2>4 DEF TypeOK, PCs
<1>7. IdsExist'
  BY <1>1, <1>3 DEF IdsExist, TypeOK
<1>. QED
  BY <1>1, <1>2, <1>6, <1>7, FrameStep DEF TypeOK

LEMMA ScanPoolStep ==
  ASSUME IInv, NEW m \in Matchers, ScanPool(m)
  PROVE  IInv'
<1> USE DEF IInv
<1>1. PICK k \in todo[m] :
        IF FindFirstPair(Candidates(m, k)) # {}
        THEN /\ Move(m, "scan", "first")
             /\ \E pr \in FindFirstPair(Candidates(m, k)) :
                  pair' = [pair EXCEPT ![m] = [a |-> pr.requester.id, b |-> pr.partner.id]]
             /\ todo' = [todo EXCEPT ![m] = {}]
        ELSE /\ Move(m, "scan", IF todo[m] = {k} THEN "commit" ELSE "scan")
             /\ todo' = [todo EXCEPT ![m] = @ \ {k}]
             /\ UNCHANGED pair
  BY DEF ScanPool
<1>2. UNCHANGED <<now, req, row, at, ids, wr, out, made, call, announced, timedOut, failures>>
  BY DEF ScanPool, table, results, events
<1>3. pc[m] = "scan"
  BY <1>1 DEF Move
<1>4. CASE FindFirstPair(Candidates(m, k)) = {}
  <2>1. pc'[m] \in {"scan", "commit"} /\ \A n \in Matchers \ {m} : pc'[n] = pc[n]
    BY <1>1, <1>4 DEF Move, TypeOK
  <2>2. TypeOK'
    <3>1. pc' \in [Matchers -> PCs]
      BY <1>1, <1>4 DEF Move, TypeOK, PCs
    <3>2. todo' = [todo EXCEPT ![m] = todo[m] \ {k}] /\ UNCHANGED pair
      BY <1>1, <1>4
    <3>3. todo[m] \ {k} \in SUBSET Pools
      BY DEF TypeOK
    <3>4. todo' \in [Matchers -> SUBSET Pools]
      BY <3>2, <3>3 DEF TypeOK
    <3>. QED
      BY <1>2, <3>1, <3>2, <3>4 DEF TypeOK, PCs
  <2>3. IdsExist'
    BY <1>2 DEF IdsExist
  <2>. QED
    BY <1>1, <1>2, <1>3, <1>4, <2>1, <2>2, <2>3, FrameStep
<1>5. CASE FindFirstPair(Candidates(m, k)) # {}
  <2>1. PICK pr \in FindFirstPair(Candidates(m, k)) :
          /\ pair' = [pair EXCEPT ![m] = [a |-> pr.requester.id, b |-> pr.partner.id]]
          /\ pc' = [pc EXCEPT ![m] = "first"]
          /\ todo' = [todo EXCEPT ![m] = {}]
    BY <1>1, <1>5 DEF Move
  <2>2. PICK a \in Eligible(m) : pr.requester = EngineRow(m, a)
    BY SelectedPairIsAllowed DEF Candidates
  <2>3. PICK b \in Eligible(m) : pr.partner = EngineRow(m, b)
    BY SelectedPairIsAllowed DEF Candidates
  <2>4. /\ pr.requester.user # pr.partner.user
        /\ pr.requester.pool = pr.partner.pool
        /\ \/ pr.partner.diff = pr.requester.diff
           \/ pr.requester.low /\ StrictlyLower(pr.partner.diff, pr.requester.diff)
    BY SelectedPairIsAllowed
  <2>5. /\ a \in Requests /\ b \in Requests
        /\ row[a].status = "PENDING" /\ row[b].status = "PENDING"
        /\ View(m, a) = row[a] /\ View(m, b) = row[b]
    BY EligibleHasColumns
  <2>6. Compatible(a, b) /\ pr.requester.id = a /\ pr.partner.id = b
    BY <2>2, <2>3, <2>4, <2>5 DEF Compatible, EngineRow
  <2>7. pair' = [pair EXCEPT ![m] = [a |-> a, b |-> b]]
    BY <2>1, <2>6
  <2>8. [a |-> a, b |-> b] \in PairType
        /\ [a |-> a, b |-> b].a = a /\ [a |-> a, b |-> b].b = b
    BY <2>5 DEF PairType
  <2>9. TypeOK'
    BY <1>2, <2>1, <2>7, <2>8 DEF TypeOK
  <2>10. /\ pair'[m] = [a |-> a, b |-> b] /\ pc'[m] = "first"
         /\ \A n \in Matchers \ {m} : pc'[n] = pc[n] /\ pair'[n] = pair[n]
    BY <2>1, <2>7 DEF TypeOK
  <2>11. \A r, q : Compatible(r, q)' <=> Compatible(r, q)
    BY <1>2 DEF Compatible
  <2>12. RowsAreWellFormed' /\ IdsExist' /\ LocksAreExclusive' /\ DraftsKeepPartners'
         /\ PairsAreMutual'
    BY <1>2, <2>11 DEF RowsAreWellFormed, IdsExist, LocksAreExclusive, DraftsKeepPartners,
                       PairsAreMutual, Unmatched
  <2>13. DraftPairsAreMutual'
    BY <1>2, <1>3, <2>10, <2>11 DEF DraftPairsAreMutual, Connected
  <2>14. PairIsCompatible'
    <3>1. [a |-> a, b |-> b] # None
      BY <2>8
    <3>. QED
      BY <1>2, <2>5, <2>6, <2>8, <2>10, <2>11, <3>1 DEF PairIsCompatible
  <2>. QED
    BY <2>9, <2>12, <2>13, <2>14
<1>. QED
  BY <1>4, <1>5

LEMMA ExpireReconnectsStep ==
  ASSUME IInv, NEW m \in Matchers, ExpireReconnects(m)
  PROVE  IInv'
<1> USE DEF IInv
<1> DEFINE S == {r \in ids[m] : StillExpired(View(m, r), at[m])}
           new == [r \in S |-> [View(m, r) EXCEPT !.status = "RECONNECT_EXPIRED",
                                                  !.deadline = None]]
<1>1. /\ UNCHANGED <<now, req, row, todo, pair, out, made, call, announced, timedOut, failures>>
      /\ pc[m] = "expire" /\ pc' = [pc EXCEPT ![m] = "timeouts"]
      /\ MayLock(m, S) /\ Write(m, new)
      /\ at' = [at EXCEPT ![m] = 0]
      /\ ids' = [ids EXCEPT ![m] = {}]
  BY DEF ExpireReconnects, Move, table, results, events
<1>2. S \in SUBSET Requests
  BY DEF TypeOK
<1>3. ASSUME NEW r \in S
      PROVE  /\ View(m, r) \in RowType
             /\ row[r].status # "FREE"
  <2>1. View(m, r).status = "PENDING"
    BY <1>3 DEF StillExpired, Expired
  <2>. QED
    BY <1>2, <2>1 DEF View, DraftsKeepPartners, Unmatched, TypeOK
<1>4. ASSUME NEW v \in RowType
      PROVE  LET w == [v EXCEPT !.status = "RECONNECT_EXPIRED", !.deadline = None] IN
             w \in RowType /\ ~Unmatched(w) /\ w.low = v.low /\ w.peer = v.peer
  BY DEF RowType, Unmatched, Status
<1>5. new \in [S -> RowType]
      /\ \A r \in S : /\ row[r].status # "FREE" /\ ~Unmatched(new[r])
                      /\ new[r].low = View(m, r).low /\ new[r].peer = View(m, r).peer
  BY <1>3, <1>4
<1> HIDE DEF S, new
<1>6. TypeOK'
  BY <1>1, <1>2, <1>5 DEF TypeOK, Write
<1>7. IdsExist'
  BY <1>1 DEF IdsExist, TypeOK
<1>8. pc'[m] = "timeouts" /\ \A n \in Matchers \ {m} : pc'[n] = pc[n]
  BY <1>1 DEF TypeOK
<1>. QED
  BY <1>1, <1>2, <1>5, <1>6, <1>7, <1>8, ExpiryStep

LEMMA TimeOutStep ==
  ASSUME IInv, NEW m \in Matchers, TimeOut(m)
  PROVE  IInv'
<1> USE DEF IInv
<1> DEFINE S == ids[m]
           new == [r \in S |-> [View(m, r) EXCEPT !.status = "TIMED_OUT"]]
<1>1. /\ UNCHANGED <<now, req, row, at, todo, pair, made, call, announced, timedOut, failures>>
      /\ pc[m] = "timeout" /\ pc' = [pc EXCEPT ![m] = "pools"]
      /\ MayLock(m, S) /\ Write(m, new)
      /\ out' = [out EXCEPT ![m] = ids[m]]
      /\ ids' = [ids EXCEPT ![m] = {}]
  BY DEF TimeOut, Move, table, events
<1>2. S \in SUBSET Requests
  BY DEF TypeOK
<1>3. \A r \in S : View(m, r) \in RowType /\ row[r].status # "FREE"
  BY <1>2 DEF View, TypeOK, IdsExist
<1>4. ASSUME NEW v \in RowType
      PROVE  LET w == [v EXCEPT !.status = "TIMED_OUT"] IN
             w \in RowType /\ ~Unmatched(w) /\ w.low = v.low /\ w.peer = v.peer
  BY DEF RowType, Unmatched, Status
<1>5. new \in [S -> RowType]
      /\ \A r \in S : /\ row[r].status # "FREE" /\ ~Unmatched(new[r])
                      /\ new[r].low = View(m, r).low /\ new[r].peer = View(m, r).peer
  BY <1>3, <1>4
<1> HIDE DEF new
<1>6. TypeOK'
  BY <1>1, <1>2, <1>5 DEF TypeOK, Write
<1>7. IdsExist'
  BY <1>1 DEF IdsExist, TypeOK
<1>8. pc'[m] = "pools" /\ \A n \in Matchers \ {m} : pc'[n] = pc[n]
  BY <1>1 DEF TypeOK
<1> HIDE DEF S
<1>. QED
  BY <1>1, <1>2, <1>5, <1>6, <1>7, <1>8, ExpiryStep DEF S

LEMMA PublishStep ==
  ASSUME IInv, NEW m \in Matchers, PublishTimedOut(m) \/ PublishMatch(m)
  PROVE  IInv'
<1> USE DEF IInv
<1>1. /\ UNCHANGED <<now, req, row, at, ids, todo, pair, wr, call, failures>>
      /\ pc[m] = "publish"
      /\ \E to \in {"idle", "publish"} : pc' = [pc EXCEPT ![m] = to]
  BY DEF PublishTimedOut, PublishMatch, Move, table, local
<1>2. /\ out' \in [Matchers -> SUBSET Requests] /\ timedOut' \in [Requests -> Nat]
      /\ made' \in [Matchers -> SUBSET PairType]
      /\ announced' \in [Requests -> Seq(Requests)]
  <2>1. CASE PublishTimedOut(m)
    <3>1. PICK r \in out[m] :
            /\ out' = [out EXCEPT ![m] = out[m] \ {r}]
            /\ timedOut' = timedOut \/ timedOut' = [timedOut EXCEPT ![r] = timedOut[r] + 1]
            /\ UNCHANGED <<made, announced>>
      BY <2>1 DEF PublishTimedOut
    <3>2. r \in Requests /\ out[m] \ {r} \in SUBSET Requests
      BY DEF TypeOK
    <3>3. out' \in [Matchers -> SUBSET Requests]
      BY <3>1, <3>2 DEF TypeOK
    <3>4. timedOut' \in [Requests -> Nat]
      BY <3>1, <3>2 DEF TypeOK
    <3>. QED
      BY <3>1, <3>3, <3>4 DEF TypeOK
  <2>2. CASE PublishMatch(m)
    <3>1. PICK p \in made[m] :
            /\ made' = [made EXCEPT ![m] = made[m] \ {p}]
            /\ announced' = announced \/ announced' = Announcement(p)
            /\ UNCHANGED <<out, timedOut>>
      BY <2>2 DEF PublishMatch
    <3>2. p.a \in Requests /\ p.b \in Requests
      BY DEF TypeOK, PairType
    <3>3. made[m] \ {p} \in SUBSET PairType
      BY DEF TypeOK
    <3>4. made' \in [Matchers -> SUBSET PairType]
      BY <3>1, <3>3 DEF TypeOK
    <3>5. ASSUME NEW r \in Requests, NEW q \in Requests
          PROVE  Append(announced[r], q) \in Seq(Requests)
      BY DEF TypeOK
    <3>6. Announcement(p) \in [Requests -> Seq(Requests)]
      BY <3>2, <3>5 DEF Announcement, TypeOK
    <3>. QED
      BY <3>1, <3>4, <3>6 DEF TypeOK
  <2>. QED
    BY <2>1, <2>2
<1>3. TypeOK' /\ IdsExist'
  BY <1>1, <1>2 DEF TypeOK, IdsExist
<1>. QED
  BY <1>1, <1>3, FrameStep DEF TypeOK

LEMMA TickStep ==
  ASSUME IInv, Tick
  PROVE  IInv'
<1>1. TypeOK' /\ IdsExist'
  BY DEF Tick, IInv, TypeOK, IdsExist, table, matcherVars, local, results, events
<1>. QED
  BY <1>1, FrameStep DEF Tick, table, matcherVars

LEMMA ReadingCallStep ==
  ASSUME IInv, NEW c \in Callers,
         SwitchRead(c) \/ \E r \in Requests, op \in
           {"disconnect", "reconnect", "expire", "downward", "switch"} : ReadForCall(c, op, r)
  PROVE  IInv'
<1> USE DEF IInv
<1>1. UNCHANGED <<now, req, row, pc, at, ids, todo, pair, wr, out, made,
                  announced, timedOut, failures>>
  BY DEF SwitchRead, ReadForCall, table, matcherVars, local, results, events
<1>2. call' \in [Callers -> CallType \union {None}]
  <2>1. CASE SwitchRead(c)
    <3>1. call[c] \in CallType
      BY <2>1 DEF SwitchRead, TypeOK
    <3>2. row[call[c].id].low \in BOOLEAN
      BY <3>1 DEF CallType, TypeOK, RowType
    <3>3. [call[c] EXCEPT !.op = "switchWrite", !.low = row[call[c].id].low] \in CallType
      BY <3>1, <3>2 DEF CallType
    <3>. QED
      BY <2>1, <3>3 DEF SwitchRead, TypeOK
  <2>2. ASSUME NEW r \in Requests, NEW op \in
                 {"disconnect", "reconnect", "expire", "downward", "switch"},
               ReadForCall(c, op, r)
        PROVE  call' \in [Callers -> CallType \union {None}]
    <3>1. [op |-> op, id |-> r, at |-> now, low |-> row[r].low] \in CallType
      BY DEF CallType, TypeOK, RowType
    <3>. QED
      BY <2>2, <3>1 DEF ReadForCall, TypeOK
  <2>. QED
    BY <2>1, <2>2
<1>3. TypeOK'
  BY <1>1, <1>2 DEF TypeOK
<1>4. \A d \in Callers : call'[d] # None =>
        \/ call[d] # None /\ call'[d].id = call[d].id
        \/ row[call'[d].id].status # "FREE"
  <2>1. CASE SwitchRead(c)
    <3>1. call[c] \in CallType
      BY <2>1 DEF SwitchRead, TypeOK
    <3>2. [call[c] EXCEPT !.op = "switchWrite", !.low = row[call[c].id].low].id = call[c].id
      BY <3>1 DEF CallType
    <3>. QED
      BY <2>1, <3>1, <3>2 DEF SwitchRead, TypeOK
  <2>2. ASSUME NEW r \in Requests, NEW op \in
                 {"disconnect", "reconnect", "expire", "downward", "switch"},
               ReadForCall(c, op, r)
        PROVE  \A d \in Callers : call'[d] # None =>
                 \/ call[d] # None /\ call'[d].id = call[d].id
                 \/ row[call'[d].id].status # "FREE"
    <3>1. row[r].status = "PENDING"
      BY <2>2 DEF ReadForCall, MayCall, Connected, Expired
    <3>. QED
      BY <2>2, <3>1 DEF ReadForCall, TypeOK
  <2>. QED
    BY <2>1, <2>2
<1>5. IdsExist'
  BY <1>1, <1>4 DEF IdsExist
<1>. QED
  BY <1>1, <1>3, <1>5, FrameStep

LEMMA NewRowType ==
  ASSUME NEW low \in BOOLEAN
  PROVE  NewRow(low) \in RowType /\ NewRow(low).peer = None /\ NewRow(low).status = "PENDING"
  BY DEF NewRow, RowType, Status

LEMMA CancelledType ==
  ASSUME NEW v \in RowType
  PROVE  /\ Cancelled(v) \in RowType /\ ~Unmatched(Cancelled(v))
         /\ Cancelled(v).peer = v.peer /\ Cancelled(v).low = v.low
         /\ Cancelled(v).status # "FREE"
  BY DEF Cancelled, RowType, Status, Unmatched

(* A free id is locked by nobody. *)
LEMMA FreeIsUnlocked ==
  ASSUME IInv, NEW n \in Requests, row[n].status = "FREE"
  PROVE  ~Locked(n) /\ row[n].peer = None
  BY DEF IInv, DraftsKeepPartners, Locked, RowsAreWellFormed, Unmatched

LEMMA CreateStep ==
  ASSUME IInv, NEW u \in Users, NEW c \in Criteria, Create(u, c)
  PROVE  IInv'
<1> USE DEF IInv
<1>1. PICK n \in Requests :
        /\ row[n].status = "FREE"
        /\ req' = [req EXCEPT ![n] = NewReq(u, c)]
        /\ row' = [row EXCEPT ![n] = NewRow(c.low)]
  BY DEF Create, NextId
<1>2. UNCHANGED <<now, pc, at, ids, todo, pair, wr, out, made, call,
                  announced, timedOut, failures>>
  BY DEF Create, matcherVars, local, results, events
<1>3. c.low \in BOOLEAN /\ NewReq(u, c) \in ReqType
  BY CriteriaAssumption DEF NewReq, ReqType, TypeOK
<1>4. TypeOK'
  BY <1>1, <1>2, <1>3, NewRowType DEF TypeOK
<1>5. ~Locked(n) /\ row[n].peer = None
  BY <1>1, FreeIsUnlocked
<1>6. \A r \in Requests :
        row'[r] = (IF r = n THEN NewRow(c.low) ELSE row[r])
        /\ req'[r] = (IF r = n THEN NewReq(u, c) ELSE req[r])
  BY <1>1 DEF TypeOK
<1>7. NewReq(u, c) # None
  BY <1>3
<1>. QED
  BY <1>1, <1>2, <1>3, <1>4, <1>5, <1>6, <1>7, NewRowType, RowStep
     DEF RowsAreWellFormed, Unmatched

LEMMA CancelStep ==
  ASSUME IInv, NEW r \in Requests, Cancel(r)
  PROVE  IInv'
<1> USE DEF IInv
<1>1. /\ row[r].status = "PENDING" /\ ~Locked(r)
      /\ row' = [row EXCEPT ![r] = Cancelled(row[r])]
      /\ UNCHANGED <<now, req, pc, at, ids, todo, pair, wr, out, made, call,
                     announced, timedOut, failures>>
  BY DEF Cancel, Update, matcherVars, local, results, events
<1>2. row[r] \in RowType
  BY DEF TypeOK
<1>3. TypeOK'
  BY <1>1, <1>2, CancelledType DEF TypeOK
<1>4. \A q \in Requests : row'[q] = IF q = r THEN Cancelled(row[r]) ELSE row[q]
  BY <1>1 DEF TypeOK
<1>. QED
  BY <1>1, <1>2, <1>3, <1>4, CancelledType, RowStep DEF RowsAreWellFormed

LEMMA UpdateForCallStep ==
  ASSUME IInv, NEW c \in Callers, UpdateForCall(c)
  PROVE  IInv'
<1> USE DEF IInv
<1> DEFINE k == call[c]
           v == row[k.id]
           w == After(k.op, v, k.at)
<1>1. /\ k \in CallType
      /\ UNCHANGED <<now, req, pc, at, ids, todo, pair, wr, out, made,
                     announced, timedOut, failures>>
      /\ call' = [call EXCEPT ![c] = None]
  BY DEF UpdateForCall, TypeOK, matcherVars, local, results, events
<1>2. k.id \in Requests /\ k.at \in Nat /\ v \in RowType
  BY <1>1 DEF CallType, TypeOK
<1>3. CASE UNCHANGED row
  <2>1. TypeOK'
    BY <1>1, <1>3 DEF TypeOK
  <2>. QED
    BY <1>1, <1>3, <2>1, RowStep DEF RowsAreWellFormed
<1>4. CASE Hits(k.op, v, k.at) /\ Update(k.id, w)
  <2>1. v.status = "PENDING" /\ ~Locked(k.id) /\ row' = [row EXCEPT ![k.id] = w]
    BY <1>4 DEF Hits, Update, Connected, InGrace, Expired
  <2>2. /\ w \in RowType /\ w.peer = v.peer /\ (v.low => w.low) /\ w.status # "FREE"
    <3>0. ASSUME NEW x \in RowType, NEW t \in Nat, x.status = "PENDING", NEW op
          PROVE  LET y == After(op, x, t) IN
                 y \in RowType /\ y.peer = x.peer /\ (x.low => y.low) /\ y.status # "FREE"
      <4>1. t + ReconnectGrace \in Nat
        BY TimesAssumption
      <4>2. CASE op = "disconnect"
        BY <3>0, <4>1, <4>2 DEF After, RowType
      <4>3. CASE op = "reconnect"
        BY <3>0, <4>3 DEF After, RowType
      <4>4. CASE op = "expire"
        BY <3>0, <4>4 DEF After, RowType, Status
      <4>5. CASE op = "downward"
        BY <3>0, <4>5 DEF After, RowType
      <4>6. CASE op \notin {"disconnect", "reconnect", "expire", "downward"}
        BY <3>0, <4>6 DEF After
      <4>. QED
        BY <4>2, <4>3, <4>4, <4>5, <4>6
    <3> HIDE DEF v, k
    <3>. QED
      BY <1>2, <2>1, <3>0
  <2>3. TypeOK'
    BY <1>1, <1>2, <2>1, <2>2 DEF TypeOK
  <2>4. \A q \in Requests : row'[q] = IF q = k.id THEN w ELSE row[q]
    BY <2>1 DEF TypeOK
  <2>5. v.peer = None /\ req[k.id] # None
    BY <1>2, <2>1 DEF RowsAreWellFormed, Unmatched
  <2> HIDE DEF w
  <2>. QED
    BY <1>1, <1>2, <2>1, <2>2, <2>3, <2>4, <2>5, RowStep DEF RowsAreWellFormed
<1>. QED
  BY <1>3, <1>4 DEF UpdateForCall

LEMMA SwitchWriteStep ==
  ASSUME IInv, NEW c \in Callers, SwitchWrite(c)
  PROVE  IInv'
<1> USE DEF IInv
<1> DEFINE k == call[c]
           r == k.id
           isPending == row[r].status = "PENDING"
           w == IF isPending THEN Cancelled(row[r]) ELSE row[r]
<1>1. /\ k # None /\ k \in CallType
      /\ isPending => ~Locked(r)
      /\ UNCHANGED <<now, pc, at, ids, todo, pair, wr, out, made,
                     announced, timedOut, failures>>
      /\ call' = [call EXCEPT ![c] = None]
  BY DEF SwitchWrite, TypeOK, matcherVars, local, results, events
<1>2. r \in Requests /\ k.low \in BOOLEAN /\ row[r] \in RowType
  BY <1>1 DEF CallType, TypeOK
<1>3. CASE UNCHANGED table
  <2>1. TypeOK'
    BY <1>1, <1>3 DEF TypeOK, table
  <2>. QED
    BY <1>1, <1>3, <2>1, RowStep DEF RowsAreWellFormed, table
<1>4. CASE \E n \in Requests, p \in Pools \ {req[r].pool} :
             /\ NextId(n)
             /\ req' = [req EXCEPT ![n] = [req[r] EXCEPT !.pool = p, !.created = now]]
             /\ row' = [row EXCEPT ![r] = IF isPending THEN Cancelled(@) ELSE @,
                                   ![n] = NewRow(k.low)]
  <2>1. PICK n \in Requests, p \in Pools :
          /\ NextId(n)
          /\ req' = [req EXCEPT ![n] = [req[r] EXCEPT !.pool = p, !.created = now]]
          /\ row' = [row EXCEPT ![r] = IF isPending THEN Cancelled(@) ELSE @,
                                ![n] = NewRow(k.low)]
    BY <1>4
  <2>2. row[n].status = "FREE" /\ row[r].status # "FREE" /\ n # r
    BY <1>1, <2>1 DEF NextId, IdsExist, SwitchWrite
  <2>3. req[r] \in ReqType
    BY <1>2, <2>2 DEF RowsAreWellFormed, TypeOK
  <2>4. [req[r] EXCEPT !.pool = p, !.created = now] \in ReqType
    BY <2>3 DEF ReqType, TypeOK
  <2>5. w \in RowType /\ w.peer = row[r].peer /\ w.low = row[r].low /\ w.status # "FREE"
        /\ (Unmatched(w) => w = row[r])
    BY <1>2, <2>2, CancelledType
  <2>6. row' = [[row EXCEPT ![r] = w] EXCEPT ![n] = NewRow(k.low)]
    BY <1>2, <2>1 DEF TypeOK
  <2> HIDE DEF w
  <2>7. \A q \in Requests :
          /\ row'[q] = (IF q = n THEN NewRow(k.low) ELSE IF q = r THEN w ELSE row[q])
          /\ q # n => req'[q] = req[q]
    BY <2>1, <2>6 DEF TypeOK
  <2>8. req'[n] # None
    BY <2>1, <2>4 DEF TypeOK
  <2>9. TypeOK'
    <3>1. NewRow(k.low) \in RowType
      BY <1>2, NewRowType
    <3>2. row' \in [Requests -> RowType]
      BY <1>2, <2>5, <2>6, <3>1 DEF TypeOK
    <3>3. req' \in [Requests -> ReqType \union {None}]
      BY <2>1, <2>4 DEF TypeOK
    <3>4. call' \in [Callers -> CallType \union {None}]
      BY <1>1 DEF TypeOK
    <3> HIDE DEF k, r
    <3>. QED
      BY <1>1, <3>2, <3>3, <3>4 DEF TypeOK
  <2>10. ~Locked(n) /\ row[n].peer = None
    BY <2>2, FreeIsUnlocked
  <2>11. Locked(r) => w = row[r]
    BY <1>1 DEF w
  <2> HIDE DEF k, r
  <2>12. /\ NewRow(k.low).peer = None
         /\ NewRow(k.low).status = "PENDING"
    BY <1>2, NewRowType
  <2>13. \A q \in Requests :
           /\ row'[q].peer = row[q].peer
           /\ Locked(q) => row'[q] = row[q]
           /\ row[q].status # "FREE" =>
                /\ row'[q].status # "FREE"
                /\ req'[q] = req[q]
                /\ row[q].low => row'[q].low
           /\ Unmatched(row'[q]) => row'[q].peer = None
           /\ row'[q].status # "FREE" => req'[q] # None
    BY <1>2, <2>2, <2>5, <2>7, <2>8, <2>10, <2>11, <2>12 DEF RowsAreWellFormed
  <2>14. \A d \in Callers : call'[d] = call[d] \/ call'[d] = None
    BY <1>1 DEF TypeOK
  <2>. QED
    BY <1>1, <2>9, <2>13, <2>14, RowStep
<1>. QED
  BY <1>3, <1>4 DEF SwitchWrite

-----------------------------------------------------------------------------
(* The invariant. *)

LEMMA Initial == Init => IInv
<1> SUFFICES ASSUME Init PROVE IInv
  OBVIOUS
<1>1. TypeOK
  BY DEF Init, TypeOK, RowType, Status, NoWrites
<1>2. /\ \A r \in Requests : row[r].status = "FREE" /\ row[r].peer = None
      /\ \A m \in Matchers : pc[m] = "idle" /\ ids[m] = {}
      /\ \A m \in Matchers, r \in Requests : wr[m][r] = None
      /\ \A c \in Callers : call[c] = None
  BY DEF Init, NoWrites
<1>. QED
  BY <1>1, <1>2 DEF IInv, RowsAreWellFormed, IdsExist, LocksAreExclusive, DraftsKeepPartners,
                    DraftPairsAreMutual, PairIsCompatible, PairsAreMutual

LEMMA Inductive == IInv /\ [Next]_vars => IInv'
<1> SUFFICES ASSUME IInv, [Next]_vars PROVE IInv'
  OBVIOUS
<1>1. CASE Tick
  BY <1>1, TickStep
<1>2. ASSUME NEW u \in Users, NEW c \in Criteria, Create(u, c) PROVE IInv'
  BY <1>2, CreateStep
<1>3. ASSUME NEW r \in Requests, Cancel(r) PROVE IInv'
  BY <1>3, CancelStep
<1>4. ASSUME NEW c \in Callers, NEW r \in Requests,
             NEW op \in {"disconnect", "reconnect", "expire", "downward", "switch"},
             ReadForCall(c, op, r)
      PROVE  IInv'
  BY <1>4, ReadingCallStep
<1>5. ASSUME NEW c \in Callers, CallStep(c) PROVE IInv'
  BY <1>5, UpdateForCallStep, ReadingCallStep, SwitchWriteStep DEF CallStep
<1>6. ASSUME NEW m \in Matchers, Begin(m) PROVE IInv'
  BY <1>6, ReadingRunStep
<1>7. ASSUME NEW m \in Matchers, Crash(m) PROVE IInv'
  BY <1>7, RollbackStep DEF Crash, IInv, TypeOK, table, events
<1>8. ASSUME NEW m \in Matchers, MatcherStep(m) PROVE IInv'
  <2>1. CASE GiveUp(m)
    BY <2>1, RollbackStep DEF GiveUp, IInv, TypeOK, table, events
  <2>. QED
    BY <1>8, <2>1, ExpireReconnectsStep, ReadingRunStep, TimeOutStep, ScanPoolStep,
       JoinFirstStep, JoinSecondStep, CommitStep, PublishStep DEF MatcherStep
<1>9. CASE UNCHANGED vars
  <2>1. TypeOK' /\ IdsExist'
    BY <1>9 DEF vars, IInv, TypeOK, IdsExist
  <2>. QED
    BY <1>9, <2>1, FrameStep DEF vars
<1>. QED
  BY <1>1, <1>2, <1>3, <1>4, <1>5, <1>6, <1>7, <1>8, <1>9 DEF Next

THEOREM Invariance == Spec => []IInv
  BY Initial, Inductive, PTL DEF Spec

(* Every variable keeps its type. *)
THEOREM TypeCorrect == Spec => []TypeOK
<1>1. IInv => TypeOK
  BY DEF IInv
<1>. QED
  BY <1>1, Invariance, PTL

(* Committed pairs are whole, however many runs and handlers interleave. *)
THEOREM PairingIsMutual == Spec => []PairsAreMutual
<1>1. IInv => PairsAreMutual
  BY DEF IInv
<1>. QED
  BY <1>1, Invariance, PTL

-----------------------------------------------------------------------------
(* What one step may do to the committed rows. *)

RowChange(r) ==
  /\ row[r].status # "FREE" => row'[r].status # "FREE"
  /\ row[r].status # "FREE" /\ row'[r].status = "PENDING" => row[r].status = "PENDING"
  /\ row[r].status = "FREE" /\ row'[r].status # "FREE" => row'[r].status = "PENDING"
  /\ row[r].peer # None => row'[r].peer = row[r].peer
  /\ row[r].peer = None /\ row'[r].peer # None => Connected(row[r])

(* Only the commit of a run, and the writes of the handlers, change rows.   *)
LEMMA StepChangesRows ==
  ASSUME IInv, [Next]_vars
  PROVE  \A r \in Requests : RowChange(r)
<1> USE DEF IInv
<1>1. CASE UNCHANGED row
  BY <1>1 DEF RowChange
<1>2. ASSUME NEW m \in Matchers, Commit(m), NEW r \in Requests PROVE RowChange(r)
  <2>1. row'[r] = View(m, r) /\ pc[m] = "commit"
    BY <1>2 DEF Commit, Move
  <2>2. CASE wr[m][r] = None
    BY <2>1, <2>2 DEF View, RowChange
  <2>3. CASE wr[m][r] # None
    <3>1. /\ row'[r] = wr[m][r] /\ ~Unmatched(wr[m][r]) /\ row[r].status # "FREE"
          /\ row[r].peer # None => wr[m][r].peer = row[r].peer
      BY <2>1, <2>3 DEF View, DraftsKeepPartners
    <3>2. wr[m][r].peer # None /\ row[r].peer = None => Connected(row[r])
      BY <2>3 DEF DraftPairsAreMutual
    <3>. QED
      BY <3>1, <3>2 DEF RowChange, Unmatched
  <2>. QED
    BY <2>2, <2>3
<1>3. ASSUME NEW u \in Users, NEW c \in Criteria, Create(u, c), NEW r \in Requests
      PROVE  RowChange(r)
  <2>1. PICK n \in Requests :
          row[n].status = "FREE" /\ row' = [row EXCEPT ![n] = NewRow(c.low)]
    BY <1>3 DEF Create, NextId
  <2>2. NewRow(c.low).status = "PENDING" /\ NewRow(c.low).peer = None
    BY DEF NewRow
  <2>3. row[n].peer = None
    BY <2>1, FreeIsUnlocked
  <2>. QED
    BY <2>1, <2>2, <2>3 DEF RowChange, TypeOK
<1>4. ASSUME NEW q \in Requests, Cancel(q), NEW r \in Requests PROVE RowChange(r)
  <2>1. row[q].status = "PENDING" /\ row' = [row EXCEPT ![q] = Cancelled(row[q])]
    BY <1>4 DEF Cancel, Update
  <2>2. Cancelled(row[q]).status = "CANCELLED" /\ Cancelled(row[q]).peer = row[q].peer
    BY DEF Cancelled, TypeOK, RowType
  <2>. QED
    BY <2>1, <2>2 DEF RowChange, TypeOK
<1>5. ASSUME NEW c \in Callers, UpdateForCall(c), row' # row, NEW r \in Requests
      PROVE  RowChange(r)
  <2> DEFINE k == call[c]
             v == row[k.id]
             w == After(k.op, v, k.at)
  <2>1. v.status = "PENDING" /\ row' = [row EXCEPT ![k.id] = w]
    BY <1>5 DEF UpdateForCall, Hits, Update, Connected, InGrace, Expired
  <2>2. k.id \in Requests /\ v \in RowType
    BY <1>5 DEF UpdateForCall, TypeOK, CallType
  <2>3. w.peer = v.peer /\ w.status # "FREE"
    BY <2>1, <2>2 DEF After, RowType
  <2> HIDE DEF w
  <2>. QED
    BY <2>1, <2>2, <2>3 DEF RowChange, TypeOK
<1>6. ASSUME NEW c \in Callers, SwitchWrite(c), row' # row, NEW r \in Requests
      PROVE  RowChange(r)
  <2> DEFINE k == call[c]
             q == k.id
             w == IF row[q].status = "PENDING" THEN Cancelled(row[q]) ELSE row[q]
  <2>1. PICK n \in Requests :
          NextId(n) /\ row' = [[row EXCEPT ![q] = w] EXCEPT ![n] = NewRow(k.low)]
    <3>1. PICK n \in Requests :
            /\ NextId(n)
            /\ row' = [row EXCEPT ![q] = IF row[q].status = "PENDING" THEN Cancelled(@) ELSE @,
                                  ![n] = NewRow(k.low)]
      BY <1>6 DEF SwitchWrite, table
    <3>2. q \in Requests
      BY <1>6 DEF SwitchWrite, TypeOK, CallType
    <3>. QED
      BY <3>1, <3>2 DEF TypeOK
  <2>2. q \in Requests /\ row[q] \in RowType /\ row[q].status # "FREE"
    BY <1>6 DEF SwitchWrite, TypeOK, CallType, IdsExist
  <2>3. row[n].status = "FREE" /\ row[n].peer = None
    BY <2>1, FreeIsUnlocked DEF NextId
  <2>4. NewRow(k.low).status = "PENDING" /\ NewRow(k.low).peer = None
    BY DEF NewRow
  <2>5. w.peer = row[q].peer /\ w.status # "FREE" /\ (w.status = "PENDING" => w = row[q])
    BY <2>2, CancelledType DEF Unmatched
  <2> HIDE DEF w, q
  <2>. QED
    BY <2>1, <2>2, <2>3, <2>4, <2>5 DEF RowChange, TypeOK
<1>7. CASE \E m \in Matchers : Begin(m) \/ Crash(m) \/ (MatcherStep(m) /\ ~Commit(m))
  <2>1. UNCHANGED row
    BY <1>7 DEF Begin, Crash, MatcherStep, ExpireReconnects, ReadTimeouts, TimeOut, ReadPools,
                ScanPool, JoinFirst, JoinSecond, PublishTimedOut, PublishMatch, GiveUp, table
  <2>. QED
    BY <1>1, <2>1
<1>8. CASE Tick \/ UNCHANGED vars
  BY <1>1, <1>8 DEF Tick, vars, table
<1>9. ASSUME NEW c \in Callers, SwitchRead(c) \/ \E r \in Requests, op \in
               {"disconnect", "reconnect", "expire", "downward", "switch"} : ReadForCall(c, op, r)
      PROVE  UNCHANGED row
  BY <1>9 DEF SwitchRead, ReadForCall, table
<1>. QED
  BY <1>1, <1>2, <1>3, <1>4, <1>5, <1>6, <1>7, <1>8, <1>9 DEF Next, CallStep, MatcherStep

(* A request enters the queue once and leaves it for good, and a partner is *)
(* never lost or exchanged. *)
THEOREM QueueIsLeftForGood == Spec => LeavesQueueForGood
<1>1. IInv /\ [Next]_vars =>
        [\A r \in Requests :
           /\ row[r].status # "FREE" /\ row'[r].status = "PENDING" => row[r].status = "PENDING"
           /\ row[r].peer # None => row'[r].peer = row[r].peer]_row
  BY StepChangesRows DEF RowChange
<1>. QED
  BY <1>1, Invariance, PTL DEF Spec, LeavesQueueForGood

(* Only a connected waiting request is given a partner. *)
THEOREM OnlyConnectedGetPartners == Spec => OnlyConnectedAreMatched
<1>1. IInv /\ [Next]_vars =>
        [\A r \in Requests :
           row[r].peer = None /\ row'[r].peer # None => Connected(row[r])]_row
  BY StepChangesRows DEF RowChange
<1>. QED
  BY <1>1, Invariance, PTL DEF Spec, OnlyConnectedAreMatched

-----------------------------------------------------------------------------
(* The queue implements Pairing. *)

LEMMA RefinedInit == Init => Queue!Init
  BY DEF Init, Queue!Init

LEMMA RefinedStep ==
  ASSUME IInv, IInv', [Next]_vars
  PROVE  Queue!Next
<1> DEFINE new   == {r \in Requests : row[r].status = "FREE" /\ row'[r].status # "FREE"}
           gone  == {r \in Requests : row[r].status = "PENDING" /\ row'[r].status # "PENDING"}
           mates == {r \in Requests : row[r].peer = None /\ row'[r].peer # None}
           mate  == [r \in mates |-> row'[r].peer]
<1>1. \A r \in Requests : RowChange(r)
  BY StepChangesRows
<1>2. mates \subseteq gone
  BY <1>1 DEF RowChange, Connected, IInv, RowsAreWellFormed, Unmatched
<1>3. ASSUME NEW r \in mates
      PROVE  /\ row'[r].peer \in mates
             /\ row'[r].peer # r
             /\ row'[row'[r].peer].peer = r
  <2>1. row'[r].peer \in Requests
    BY DEF IInv, TypeOK, RowType
  <2>2. row'[row'[r].peer].peer = r /\ req'[r].user # req'[row'[r].peer].user
    BY DEF IInv, PairsAreMutual, Compatible
  <2>3. row'[r].peer # r
    BY <2>2
  <2>4. row[row'[r].peer].peer = None
    <3>1. SUFFICES ASSUME row[row'[r].peer].peer # None PROVE FALSE
      OBVIOUS
    <3>2. row[row'[r].peer].peer = r
      BY <1>1, <2>1, <2>2, <3>1 DEF RowChange
    <3>3. row[r].peer = row'[r].peer
      BY <2>1, <3>1, <3>2 DEF IInv, PairsAreMutual
    <3>. QED
      BY <2>1, <3>3, NoneAssumption
  <2>. QED
    BY <2>1, <2>2, <2>3, <2>4, NoneAssumption
<1>4. mate \in [mates -> mates] /\ Queue!Matching(mate, mates)
  BY <1>3 DEF Queue!Matching
<1>5. new \intersect {r \in Requests : row[r].status # "FREE"} = {}
      /\ gone \subseteq {r \in Requests : row[r].status = "PENDING"}
  OBVIOUS
<1>6. {r \in Requests : row'[r].status # "FREE"}
        = {r \in Requests : row[r].status # "FREE"} \union new
  BY <1>1 DEF RowChange
<1>7. {r \in Requests : row'[r].status = "PENDING"}
        = ({r \in Requests : row[r].status = "PENDING"} \ gone) \union new
  BY <1>1 DEF RowChange
<1>8. [r \in Requests |-> row'[r].peer]
        = [r \in Requests |-> IF r \in mates THEN mate[r] ELSE [q \in Requests |-> row[q].peer][r]]
  BY <1>1 DEF RowChange
<1> HIDE DEF new, gone, mates, mate
<1>9. Queue!Step(new, gone, mates, mate)
  BY <1>2, <1>4, <1>5, <1>6, <1>7, <1>8 DEF Queue!Step
<1>10. new \in SUBSET Requests /\ gone \in SUBSET Requests /\ mates \in SUBSET Requests
  BY DEF new, gone, mates
<1>11. \E f \in [mates -> mates] : Queue!Step(new, gone, mates, f)
  BY <1>4, <1>9 DEF Queue!Step
<1>. QED
  BY <1>10, <1>11, Zenon DEF Queue!Next

(* Partners leave the queue together, in one step, and for good. *)
THEOREM PairsLeaveQueueTogether == Spec => PairsLeaveTogether
<1>1. IInv /\ IInv' /\ [Next]_vars => [Queue!Next]_(Queue!vars)
  BY RefinedStep
<1>. QED
  BY <1>1, RefinedInit, Invariance, PTL DEF Spec, PairsLeaveTogether, Queue!Spec

-----------------------------------------------------------------------------
(* One waiting row per user. *)

LEMMA OthersStayFree ==
  ASSUME IInv, [Next]_vars,
         ~ \E u \in Users, c \in Criteria : Create(u, c),
         ~ \E c \in Callers : SwitchWrite(c) /\ row' # row
  PROVE  \A r \in Requests : row[r].status = "FREE" => row'[r] = row[r]
<1> USE DEF IInv
<1>1. CASE UNCHANGED row
  BY <1>1
<1>2. ASSUME NEW m \in Matchers, Commit(m), NEW r \in Requests, row[r].status = "FREE"
      PROVE  row'[r] = row[r]
  <2>1. wr[m][r] = None
    BY <1>2 DEF DraftsKeepPartners
  <2>. QED BY <1>2, <2>1 DEF Commit, View
<1>3. ASSUME NEW q \in Requests, Cancel(q), NEW r \in Requests, row[r].status = "FREE"
      PROVE  row'[r] = row[r]
  BY <1>3 DEF Cancel, Update, TypeOK
<1>4. ASSUME NEW c \in Callers, UpdateForCall(c), row' # row, NEW r \in Requests,
             row[r].status = "FREE"
      PROVE  row'[r] = row[r]
  <2> DEFINE k == call[c]
             w == After(k.op, row[k.id], k.at)
  <2>1. row[k.id].status = "PENDING" /\ row' = [row EXCEPT ![k.id] = w]
    BY <1>4 DEF UpdateForCall, Hits, Update, Connected, InGrace, Expired
  <2> HIDE DEF w
  <2>. QED BY <1>4, <2>1 DEF TypeOK
<1>5. CASE \E m \in Matchers : Begin(m) \/ Crash(m) \/ (MatcherStep(m) /\ ~Commit(m))
  <2>1. UNCHANGED row
    BY <1>5 DEF Begin, Crash, MatcherStep, ExpireReconnects, ReadTimeouts, TimeOut, ReadPools,
                ScanPool, JoinFirst, JoinSecond, PublishTimedOut, PublishMatch, GiveUp, table
  <2>. QED BY <1>1, <2>1
<1>6. CASE Tick \/ UNCHANGED vars
  BY <1>1, <1>6 DEF Tick, vars, table
<1>7. ASSUME NEW c \in Callers, SwitchRead(c) \/ \E r \in Requests, op \in
               {"disconnect", "reconnect", "expire", "downward", "switch"} : ReadForCall(c, op, r)
      PROVE  UNCHANGED row
  BY <1>7 DEF SwitchRead, ReadForCall, table
<1>. QED
  BY <1>1, <1>2, <1>3, <1>4, <1>5, <1>6, <1>7 DEF Next, CallStep, MatcherStep

(* The columns of a used id never change, and the clock never goes back. *)
LEMMA TableMoves ==
  ASSUME IInv, [Next]_vars
  PROVE  /\ now <= now' /\ now' \in Nat
         /\ \A r \in Requests : row[r].status # "FREE" => req'[r] = req[r]
<1> USE DEF IInv
<1>1. now <= now' /\ now' \in Nat
  <2>1. now' = now \/ now' = now + 1
    BY DEF Next, vars, Tick, Create, Cancel, ReadForCall, CallStep, UpdateForCall, SwitchRead,
           SwitchWrite, Begin, MatcherStep, ExpireReconnects, ReadTimeouts, TimeOut, ReadPools,
           ScanPool, JoinFirst, JoinSecond, Commit, PublishTimedOut, PublishMatch, GiveUp, Crash
  <2>. QED BY <2>1 DEF TypeOK
<1>2. \/ req' = req
      \/ \E n \in Requests : \E x : NextId(n) /\ req' = [req EXCEPT ![n] = x]
  <2>1. ASSUME NEW u \in Users, NEW c \in Criteria, Create(u, c)
        PROVE  \E n \in Requests : \E x : NextId(n) /\ req' = [req EXCEPT ![n] = x]
    BY <2>1 DEF Create
  <2>2. ASSUME NEW c \in Callers, SwitchWrite(c), req' # req
        PROVE  \E n \in Requests : \E x : NextId(n) /\ req' = [req EXCEPT ![n] = x]
    BY <2>2 DEF SwitchWrite, table
  <2>3. CASE \/ \E r \in Requests : Cancel(r)
             \/ \E c \in Callers : UpdateForCall(c) \/ SwitchRead(c)
             \/ Tick \/ UNCHANGED vars
             \/ \E c \in Callers, r \in Requests,
                   op \in {"disconnect", "reconnect", "expire", "downward", "switch"} :
                  ReadForCall(c, op, r)
    BY <2>3 DEF Cancel, UpdateForCall, SwitchRead, Tick, vars, table, ReadForCall
  <2>4. CASE \E m \in Matchers : Begin(m) \/ MatcherStep(m) \/ Crash(m)
    BY <2>4 DEF Begin, MatcherStep, ExpireReconnects, ReadTimeouts, TimeOut, ReadPools,
           ScanPool, JoinFirst, JoinSecond, Commit, PublishTimedOut, PublishMatch, GiveUp, Crash,
           table
  <2>. QED BY <2>1, <2>2, <2>3, <2>4 DEF Next, CallStep
<1>. QED BY <1>1, <1>2 DEF NextId, TypeOK

LEMMA OnePendingStep ==
  ASSUME IInv, OnePendingPerUser, [Next]_vars
  PROVE  OnePendingPerUser'
<1> USE DEF IInv
<1>1. CASE ~ (\E u \in Users, c \in Criteria : Create(u, c))
           /\ ~ \E c \in Callers : SwitchWrite(c) /\ row' # row
  <2>1. ASSUME NEW r \in Requests, row'[r].status = "PENDING"
        PROVE  row[r].status = "PENDING" /\ req'[r] = req[r]
    BY <1>1, <2>1, OthersStayFree, StepChangesRows, TableMoves DEF RowChange
  <2>. QED BY <2>1 DEF OnePendingPerUser
<1>2. ASSUME NEW u \in Users, NEW c \in Criteria, Create(u, c) PROVE OnePendingPerUser'
  <2>1. PICK n \in Requests : /\ req' = [req EXCEPT ![n] = NewReq(u, c)]
                              /\ row' = [row EXCEPT ![n] = NewRow(c.low)]
                              /\ PendingOf(u) = {}
    BY <1>2 DEF Create
  <2>2. NewReq(u, c).user = u
    BY DEF NewReq
  <2>3. ASSUME NEW r \in Requests, r # n, row'[r].status = "PENDING"
        PROVE  row[r].status = "PENDING" /\ req'[r] = req[r] /\ req[r].user # u
    BY <2>1, <2>3 DEF PendingOf, TypeOK
  <2>4. req'[n].user = u
    BY <2>1, <2>2 DEF TypeOK
  <2>. QED BY <2>3, <2>4 DEF OnePendingPerUser
<1>3. ASSUME NEW c \in Callers, SwitchWrite(c), row' # row PROVE OnePendingPerUser'
  <2> DEFINE k == call[c]
             q == k.id
             w == IF row[q].status = "PENDING" THEN Cancelled(row[q]) ELSE row[q]
  <2>1. q \in Requests /\ row[q] \in RowType /\ row[q].status # "FREE"
    BY <1>3 DEF SwitchWrite, TypeOK, CallType, IdsExist
  <2>2. PICK n \in Requests, p \in Pools :
           /\ NextId(n) /\ PendingOf(req[q].user) \subseteq {q}
           /\ req' = [req EXCEPT ![n] = [req[q] EXCEPT !.pool = p, !.created = now]]
           /\ row' = [row EXCEPT ![q] = IF row[q].status = "PENDING" THEN Cancelled(@) ELSE @,
                                 ![n] = NewRow(k.low)]
    BY <1>3 DEF SwitchWrite, table
  <2>3. row' = [[row EXCEPT ![q] = w] EXCEPT ![n] = NewRow(k.low)]
    BY <2>1, <2>2 DEF TypeOK
  <2>4. w.status # "PENDING"
    BY <2>1, CancelledType DEF Unmatched, Cancelled, RowType
  <2>5. req[q] \in ReqType
    BY <2>1 DEF RowsAreWellFormed, TypeOK
  <2>6. [req[q] EXCEPT !.pool = p, !.created = now].user = req[q].user
    BY <2>5 DEF ReqType
  <2>7. n # q
    BY <2>1, <2>2 DEF NextId
  <2> HIDE DEF w, q
  <2>8. req'[n].user = req[q].user
    BY <2>2, <2>6 DEF TypeOK
  <2>9. ASSUME NEW r \in Requests, r # n, row'[r].status = "PENDING"
        PROVE  row[r].status = "PENDING" /\ req'[r] = req[r] /\ req[r].user # req[q].user
    <3>1. row'[r] = (IF r = q THEN w ELSE row[r]) /\ req'[r] = req[r]
      BY <2>1, <2>2, <2>3, <2>7, <2>9 DEF TypeOK
    <3>2. r # q /\ row[r].status = "PENDING"
      BY <2>4, <2>9, <3>1
    <3>. QED BY <2>2, <3>1, <3>2 DEF PendingOf
  <2>. QED BY <2>8, <2>9 DEF OnePendingPerUser
<1>. QED BY <1>1, <1>2, <1>3

(* A user waits in one row at most, whatever creates, switches and runs meet. *)
THEOREM UsersWaitOnce == Spec => []OnePendingPerUser
<1>1. Init => OnePendingPerUser
  BY DEF Init, OnePendingPerUser
<1>. QED BY <1>1, Invariance, OnePendingStep, PTL DEF Spec

-----------------------------------------------------------------------------
(* Times: the wait and the grace. *)

(* What a run or a handler carries from a read to its UPDATE is still true  *)
(* then, or the UPDATE looks again.                                         *)
ReadsAreDue ==
  /\ \A m \in Matchers : at[m] <= now
  /\ \A c \in Callers : call[c] # None => call[c].at <= now
  /\ \A m \in Matchers : pc[m] = "timeout" => \A r \in ids[m] : PastCutoff(r)

DraftsAreDue ==
  \A m \in Matchers, r \in Requests :
    wr[m][r] # None =>
      /\ wr[m][r].status = "TIMED_OUT" => PastCutoff(r)
      /\ wr[m][r].status = "RECONNECT_EXPIRED" /\ row[r].status # "RECONNECT_EXPIRED"
           => Expired(row[r], now)

RowsAreDue == \A r \in Requests : row[r].status = "TIMED_OUT" => PastCutoff(r)

TimeInv == ReadsAreDue /\ DraftsAreDue /\ RowsAreDue

LEMMA DueStays ==
  ASSUME IInv, [Next]_vars, NEW r \in Requests, row[r].status # "FREE"
  PROVE  /\ PastCutoff(r) => PastCutoff(r)'
         /\ row'[r] = row[r] /\ Expired(row[r], now) => Expired(row[r], now)'
<1>1. /\ now \in Nat /\ now' \in Nat /\ now <= now' /\ req'[r] = req[r]
      /\ req[r] \in ReqType /\ row[r] \in RowType
  BY TableMoves DEF IInv, TypeOK, RowsAreWellFormed
<1>2. PastCutoff(r) => PastCutoff(r)'
  BY <1>1, TimesAssumption DEF PastCutoff, ReqType
<1>3. row'[r] = row[r] /\ Expired(row[r], now) => Expired(row[r], now)'
  BY <1>1 DEF Expired, RowType
<1>. QED BY <1>2, <1>3

(* What one step does to a draft. *)
DraftChange(m, r) ==
  \/ wr'[m][r] = None
  \/ wr'[m][r] = wr[m][r]
  \/ /\ row' = row
     /\ \/ wr'[m][r].status = "MATCHED"
        \/ wr'[m][r].status = "TIMED_OUT" /\ pc[m] = "timeout" /\ r \in ids[m]
        \/ wr'[m][r].status = "RECONNECT_EXPIRED" /\ Expired(View(m, r), at[m])

LEMMA StepChangesDrafts ==
  ASSUME IInv, [Next]_vars, NEW m \in Matchers, NEW r \in Requests
  PROVE  DraftChange(m, r)
<1> USE DEF IInv
<1>1. CASE wr' = wr
  BY <1>1 DEF DraftChange
<1>3. ASSUME NEW n \in Matchers, ExpireReconnects(n) PROVE DraftChange(m, r)
  <2> DEFINE hit == {q \in ids[n] : StillExpired(View(n, q), at[n])}
  <2>1. /\ row' = row
        /\ wr' = [wr EXCEPT ![n] = [q \in Requests |->
                    IF q \in hit THEN [View(n, q) EXCEPT !.status = "RECONNECT_EXPIRED",
                                                        !.deadline = None] ELSE wr[n][q]]]
    BY <1>3 DEF ExpireReconnects, Write, table
  <2>2. View(m, r) \in RowType
    BY DEF View, TypeOK
  <2>3. [View(m, r) EXCEPT !.status = "RECONNECT_EXPIRED", !.deadline = None].status
           = "RECONNECT_EXPIRED"
    BY <2>2 DEF RowType
  <2>4. CASE n = m /\ r \in hit
    BY <2>1, <2>3, <2>4 DEF DraftChange, StillExpired, TypeOK
  <2>5. CASE ~(n = m /\ r \in hit)
    BY <2>1, <2>5 DEF DraftChange, TypeOK
  <2>. QED BY <2>4, <2>5
<1>4. ASSUME NEW n \in Matchers, TimeOut(n) PROVE DraftChange(m, r)
  <2>1. /\ row' = row /\ pc[n] = "timeout"
        /\ wr' = [wr EXCEPT ![n] = [q \in Requests |->
                    IF q \in ids[n] THEN [View(n, q) EXCEPT !.status = "TIMED_OUT"]
                    ELSE wr[n][q]]]
    BY <1>4 DEF TimeOut, Write, table, Move
  <2>2. View(m, r) \in RowType
    BY DEF View, TypeOK
  <2>3. [View(m, r) EXCEPT !.status = "TIMED_OUT"].status = "TIMED_OUT"
    BY <2>2 DEF RowType
  <2>4. CASE n = m /\ r \in ids[n]
    BY <2>1, <2>3, <2>4 DEF DraftChange, TypeOK
  <2>5. CASE ~(n = m /\ r \in ids[n])
    BY <2>1, <2>5 DEF DraftChange, TypeOK
  <2>. QED BY <2>4, <2>5
<1>5. ASSUME NEW n \in Matchers, NEW q, NEW p, row' = row,
             Write(n, [x \in {q} |-> Joined(View(n, x), p)])
      PROVE  DraftChange(m, r)
  <2>1. wr' = [wr EXCEPT ![n] = [x \in Requests |->
                  IF x \in {q} THEN Joined(View(n, x), p) ELSE wr[n][x]]]
    BY <1>5 DEF Write
  <2>2. View(m, r) \in RowType
    BY DEF View, TypeOK
  <2>3. Joined(View(m, r), p).status = "MATCHED"
    BY <2>2 DEF Joined, RowType
  <2>4. CASE n = m /\ r = q
    BY <1>5, <2>1, <2>3, <2>4 DEF DraftChange, TypeOK
  <2>5. CASE ~(n = m /\ r = q)
    BY <1>5, <2>1, <2>5 DEF DraftChange, TypeOK
  <2>. QED BY <2>4, <2>5
<1>6. ASSUME NEW n \in Matchers, Rollback(n) \/ wr' = [wr EXCEPT ![n] = NoWrites]
      PROVE  DraftChange(m, r)
  <2>1. wr' = [wr EXCEPT ![n] = NoWrites]
    BY <1>6 DEF Rollback
  <2>2. NoWrites[r] = None
    BY DEF NoWrites
  <2>3. wr'[m][r] = None \/ wr'[m][r] = wr[m][r]
    BY <2>1, <2>2 DEF TypeOK
  <2>. QED BY <2>3 DEF DraftChange
<1>7. ASSUME NEW n \in Matchers, JoinFirst(n) PROVE DraftChange(m, r)
  BY <1>1, <1>5, <1>7 DEF JoinFirst, table
<1>8. ASSUME NEW n \in Matchers, JoinSecond(n) PROVE DraftChange(m, r)
  BY <1>5, <1>6, <1>8 DEF JoinSecond, table, PartnerGone
<1>9. ASSUME NEW n \in Matchers, Begin(n) \/ MatcherStep(n) \/ Crash(n) PROVE DraftChange(m, r)
  <2>1. CASE \/ Begin(n) \/ ReadTimeouts(n) \/ ReadPools(n) \/ ScanPool(n)
             \/ PublishTimedOut(n) \/ PublishMatch(n)
    BY <1>1, <2>1 DEF Begin, ReadTimeouts, ReadPools, ScanPool, PublishTimedOut, PublishMatch
  <2>2. CASE Commit(n) \/ GiveUp(n) \/ Crash(n)
    BY <1>6, <2>2 DEF Commit, GiveUp, Crash
  <2>. QED BY <1>3, <1>4, <1>7, <1>8, <1>9, <2>1, <2>2 DEF MatcherStep
<1>10. ~(\E n \in Matchers : Begin(n) \/ MatcherStep(n) \/ Crash(n)) => wr' = wr
  BY DEF Next, vars, Tick, Create, Cancel, ReadForCall, CallStep, UpdateForCall, SwitchRead,
         SwitchWrite, matcherVars
<1>. QED BY <1>1, <1>9, <1>10

(* What one step does to a committed row. *)
TimedChange(r) ==
  /\ row'[r] # row[r] => \A m \in Matchers : wr'[m][r] = None
  /\ row'[r].status = "TIMED_OUT" =>
        row[r].status = "TIMED_OUT"
        \/ \E m \in Matchers : wr[m][r] # None /\ wr[m][r].status = "TIMED_OUT"
  /\ row'[r].status = "RECONNECT_EXPIRED" =>
        \/ row[r].status = "RECONNECT_EXPIRED"
        \/ \E m \in Matchers : wr[m][r] # None /\ wr[m][r].status = "RECONNECT_EXPIRED"
        \/ \E c \in Callers : call[c] # None /\ Expired(row[r], call[c].at)

(* An unlocked row is changed by a handler. *)
LEMMA UnlockedChange ==
  ASSUME IInv, NEW r \in Requests, wr' = wr, ~Locked(r),
         row'[r].status \notin {"TIMED_OUT", "RECONNECT_EXPIRED"}
  PROVE  TimedChange(r)
  BY DEF TimedChange, Locked

LEMMA StepTimesRows ==
  ASSUME IInv, [Next]_vars, NEW r \in Requests
  PROVE  TimedChange(r)
<1> USE DEF IInv
<1>1. CASE row'[r] = row[r]
  BY <1>1 DEF TimedChange
<1>2. ASSUME NEW n \in Matchers, Commit(n), row'[r] # row[r] PROVE TimedChange(r)
  <2>1. row'[r] = wr[n][r] /\ wr[n][r] # None
    BY <1>2 DEF Commit, View
  <2>2. \A m \in Matchers \ {n} : wr[m][r] = None
    BY <2>1 DEF LocksAreExclusive
  <2>3. wr' = [wr EXCEPT ![n] = NoWrites] /\ NoWrites[r] = None
    BY <1>2 DEF Commit, NoWrites
  <2>4. \A m \in Matchers : wr'[m][r] = None
    BY <2>2, <2>3 DEF TypeOK
  <2>. QED BY <2>1, <2>4 DEF TimedChange
<1>3. ASSUME NEW u \in Users, NEW c \in Criteria, Create(u, c), row'[r] # row[r]
      PROVE  TimedChange(r)
  <2>1. row[r].status = "FREE" /\ row'[r] = NewRow(c.low) /\ wr' = wr
    BY <1>3 DEF Create, NextId, TypeOK, matcherVars
  <2>. QED BY <2>1, UnlockedChange, FreeIsUnlocked DEF NewRow
<1>4. ASSUME NEW q \in Requests, Cancel(q), row'[r] # row[r] PROVE TimedChange(r)
  <2>1. ~Locked(r) /\ row'[r] = Cancelled(row[r]) /\ wr' = wr
    BY <1>4 DEF Cancel, Update, TypeOK, matcherVars
  <2>2. row'[r].status = "CANCELLED"
    BY <2>1 DEF Cancelled, TypeOK, RowType
  <2>. QED BY <2>1, <2>2, UnlockedChange
<1>5. ASSUME NEW c \in Callers, UpdateForCall(c), row'[r] # row[r] PROVE TimedChange(r)
  <2> DEFINE k == call[c]
             w == After(k.op, row[k.id], k.at)
  <2>1. /\ k # None /\ Hits(k.op, row[k.id], k.at) /\ wr' = wr
        /\ ~Locked(k.id) /\ row' = [row EXCEPT ![k.id] = w]
    BY <1>5 DEF UpdateForCall, Update, matcherVars
  <2>2. k.id = r /\ row'[r] = w /\ row[r] \in RowType /\ row[r].status = "PENDING"
    BY <1>5, <2>1 DEF TypeOK, Hits, Connected, InGrace, Expired
  <2>3. CASE k.op # "expire"
    <3>1. row'[r].status = "PENDING"
      BY <2>2, <2>3 DEF After, RowType
    <3>. QED BY <2>1, <2>2, <3>1, UnlockedChange
  <2>4. CASE k.op = "expire"
    <3>1. row'[r].status = "RECONNECT_EXPIRED" /\ Expired(row[r], k.at)
      <4>1. w = [row[r] EXCEPT !.status = "RECONNECT_EXPIRED", !.deadline = None]
        BY <2>2, <2>4 DEF After
      <4>2. w.status = "RECONNECT_EXPIRED"
        BY <2>2, <4>1 DEF RowType
      <4>3. Expired(row[r], k.at)
        BY <2>1, <2>2, <2>4 DEF Hits
      <4>. QED BY <2>2, <4>2, <4>3
    <3>. QED BY <2>1, <2>2, <3>1 DEF TimedChange, Locked
  <2>. QED BY <2>3, <2>4
<1>6. ASSUME NEW c \in Callers, SwitchWrite(c), row'[r] # row[r] PROVE TimedChange(r)
  <2> DEFINE k == call[c]
             q == k.id
             w == IF row[q].status = "PENDING" THEN Cancelled(row[q]) ELSE row[q]
  <2>1. q \in Requests /\ row[q] \in RowType /\ row[q].status # "FREE"
        /\ (row[q].status = "PENDING" => ~Locked(q)) /\ wr' = wr
    BY <1>6 DEF SwitchWrite, TypeOK, CallType, IdsExist, matcherVars
  <2>2. PICK n \in Requests :
           /\ NextId(n)
           /\ row' = [row EXCEPT ![q] = IF row[q].status = "PENDING" THEN Cancelled(@) ELSE @,
                                 ![n] = NewRow(k.low)]
    BY <1>6 DEF SwitchWrite, table
  <2>3. row' = [[row EXCEPT ![q] = w] EXCEPT ![n] = NewRow(k.low)]
    BY <2>1, <2>2 DEF TypeOK
  <2>4. row[n].status = "FREE" /\ NewRow(k.low).status = "PENDING" /\ n # q
    BY <2>1, <2>2 DEF NextId, NewRow
  <2>5. row[q].status = "PENDING" => w.status = "CANCELLED"
    BY <2>1 DEF Cancelled, RowType
  <2>6. row[q].status # "PENDING" => w = row[q]
    OBVIOUS
  <2> HIDE DEF w, q
  <2>7. CASE r = n
    <3>1. row'[r].status = "PENDING" /\ ~Locked(r)
      BY <2>3, <2>4, <2>7, FreeIsUnlocked DEF TypeOK
    <3>. QED BY <2>1, <3>1, UnlockedChange
  <2>8. CASE r # n
    <3>1. r = q /\ row[q].status = "PENDING" /\ row'[r] = w
      BY <1>6, <2>1, <2>3, <2>4, <2>6, <2>8 DEF TypeOK
    <3>. QED BY <2>1, <2>5, <3>1, UnlockedChange
  <2>. QED BY <2>7, <2>8
<1>7. CASE \/ \E m \in Matchers : Begin(m) \/ Crash(m) \/ (MatcherStep(m) /\ ~Commit(m))
           \/ Tick \/ UNCHANGED vars
           \/ \E c \in Callers : SwitchRead(c) \/ \E q \in Requests, op \in
               {"disconnect", "reconnect", "expire", "downward", "switch"} : ReadForCall(c, op, q)
  <2>1. UNCHANGED row
    BY <1>7 DEF Begin, Crash, MatcherStep, ExpireReconnects, ReadTimeouts, TimeOut, ReadPools,
                ScanPool, JoinFirst, JoinSecond, PublishTimedOut, PublishMatch, GiveUp, table,
                Tick, vars, SwitchRead, ReadForCall
  <2>. QED BY <1>1, <2>1
<1>. QED
  BY <1>1, <1>2, <1>3, <1>4, <1>5, <1>6, <1>7 DEF Next, CallStep, MatcherStep

LEMMA CallsAreDue ==
  ASSUME IInv, ReadsAreDue, [Next]_vars, NEW c \in Callers, call'[c] # None
  PROVE  call'[c].at <= now'
<1> USE DEF IInv
<1>0. now \in Nat /\ now' \in Nat /\ now <= now'
  BY TableMoves DEF TypeOK
<1>1. CASE call'[c] = call[c]
  BY <1>0, <1>1 DEF ReadsAreDue, TypeOK, CallType
<1>2. ASSUME NEW d \in Callers, NEW r \in Requests, NEW op, ReadForCall(d, op, r)
      PROVE  call'[c] = call[c] \/ call'[c].at = now
  BY <1>2 DEF ReadForCall, TypeOK
<1>3. ASSUME NEW d \in Callers, SwitchRead(d)
      PROVE  call'[c] = call[c] \/ call'[c].at <= now
  <2> DEFINE k == call[d]
  <2>1. k \in CallType /\ k.at <= now
    BY <1>3 DEF SwitchRead, TypeOK, ReadsAreDue
  <2>2. [k EXCEPT !.op = "switchWrite", !.low = row[k.id].low].at = k.at
    BY <2>1 DEF CallType
  <2>3. \/ call' = [call EXCEPT ![d] = [k EXCEPT !.op = "switchWrite", !.low = row[k.id].low]]
        \/ call' = [call EXCEPT ![d] = None]
    BY <1>3 DEF SwitchRead
  <2>. QED BY <2>1, <2>2, <2>3 DEF TypeOK
<1>4. ASSUME NEW d \in Callers, UpdateForCall(d) \/ SwitchWrite(d) PROVE call'[c] = call[c]
  BY <1>4 DEF UpdateForCall, SwitchWrite, TypeOK
<1>5. ASSUME \/ \E m \in Matchers : Begin(m) \/ Crash(m) \/ MatcherStep(m)
             \/ Tick \/ UNCHANGED vars \/ \E q \in Requests : Cancel(q)
             \/ \E u \in Users, d \in Criteria : Create(u, d)
      PROVE  call'[c] = call[c]
  <2>1. UNCHANGED call
    BY <1>5 DEF Begin, Crash, MatcherStep, ExpireReconnects, ReadTimeouts, TimeOut, ReadPools,
                ScanPool, JoinFirst, JoinSecond, Commit, PublishTimedOut, PublishMatch, GiveUp,
                Tick, vars, Cancel, Create
  <2>. QED BY <2>1
<1>6. \/ call'[c] = call[c] \/ call'[c].at = now
      \/ call'[c].at <= now
  BY <1>1, <1>2, <1>3, <1>4, <1>5 DEF Next, CallStep
<1>7. call'[c].at \in Nat
  <2>1. IInv'
    BY Inductive
  <2>. QED BY <2>1 DEF TypeOK, CallType
<1>. QED BY <1>0, <1>1, <1>6, <1>7

LEMMA RunReads ==
  ASSUME IInv, [Next]_vars, NEW m \in Matchers
  PROVE  /\ at'[m] \in {at[m], 0, now}
         /\ pc'[m] = "timeout" => \/ pc[m] = "timeout" /\ ids'[m] = ids[m]
                                  \/ \A r \in ids'[m] : r \in Eligible(m) /\ PastCutoff(r)
<1> USE DEF IInv
<1>1. CASE UNCHANGED <<pc, at, ids>>
  BY <1>1
<1>2. ASSUME NEW n \in Matchers, Begin(n)
      PROVE  /\ at'[m] \in {at[m], 0, now}
             /\ pc'[m] = "timeout" => pc[m] = "timeout" /\ ids'[m] = ids[m]
  BY <1>2 DEF Begin, Move, TypeOK
<1>3. ASSUME NEW n \in Matchers, ReadTimeouts(n)
      PROVE  /\ at' = at
             /\ pc'[m] = "timeout" => \/ pc[m] = "timeout" /\ ids'[m] = ids[m]
                                      \/ \A r \in ids'[m] : r \in Eligible(m) /\ PastCutoff(r)
  BY <1>3 DEF ReadTimeouts, Move, TypeOK
<1>4. ASSUME NEW n \in Matchers,
             \/ ExpireReconnects(n) \/ TimeOut(n) \/ ReadPools(n) \/ ScanPool(n)
             \/ JoinFirst(n) \/ JoinSecond(n) \/ Commit(n) \/ PublishTimedOut(n)
             \/ PublishMatch(n) \/ GiveUp(n) \/ Crash(n)
      PROVE  /\ at'[m] \in {at[m], 0}
             /\ pc'[m] = "timeout" => pc[m] = "timeout" /\ ids'[m] = ids[m]
  <2>1. CASE ExpireReconnects(n) \/ TimeOut(n)
    BY <2>1 DEF ExpireReconnects, TimeOut, Move, TypeOK
  <2>2. CASE ReadPools(n) \/ ScanPool(n) \/ JoinFirst(n)
    BY <2>2 DEF ReadPools, ScanPool, JoinFirst, Move, TypeOK, local
  <2>3. CASE Rollback(n)
    BY <2>3 DEF Rollback, TypeOK
  <2>4. CASE (JoinSecond(n) /\ ~Rollback(n)) \/ Commit(n)
    BY <2>4 DEF JoinSecond, PartnerGone, Commit, AfterCommit, Move, TypeOK, local
  <2>5. CASE PublishTimedOut(n) \/ PublishMatch(n)
    BY <2>5 DEF PublishTimedOut, PublishMatch, Move, TypeOK, local
  <2>. QED BY <1>4, <2>1, <2>2, <2>3, <2>4, <2>5 DEF GiveUp, Crash
<1>5. ~(\E n \in Matchers : Begin(n) \/ MatcherStep(n) \/ Crash(n)) => UNCHANGED <<pc, at, ids>>
  BY DEF Next, vars, Tick, Create, Cancel, ReadForCall, CallStep, UpdateForCall, SwitchRead,
         SwitchWrite, matcherVars, local
<1>. QED BY <1>1, <1>2, <1>3, <1>4, <1>5 DEF MatcherStep

LEMMA TimeStep ==
  ASSUME IInv, TimeInv, [Next]_vars
  PROVE  TimeInv'
<1> USE DEF IInv
<1>0. now \in Nat /\ now' \in Nat /\ now <= now'
  BY TableMoves DEF TypeOK
<1>1. ReadsAreDue'
  <2>1. ASSUME NEW m \in Matchers PROVE at'[m] <= now'
    <3>1. at'[m] \in {at[m], 0, now} /\ at[m] <= now /\ at[m] \in Nat
      BY RunReads DEF TimeInv, ReadsAreDue, TypeOK
    <3>. QED BY <1>0, <3>1
  <2>2. ASSUME NEW m \in Matchers, pc'[m] = "timeout", NEW r \in ids'[m] PROVE PastCutoff(r)'
    <3>1. ids[m] \subseteq Requests /\ Eligible(m) \subseteq Requests
      BY DEF TypeOK, Eligible
    <3>2. r \in Requests /\ PastCutoff(r) /\ row[r].status # "FREE"
      <4>1. CASE pc[m] = "timeout" /\ ids'[m] = ids[m]
        BY <3>1, <4>1 DEF TimeInv, ReadsAreDue, IdsExist
      <4>2. CASE r \in Eligible(m) /\ PastCutoff(r)
        BY <4>2, ConnectedIsUndrafted DEF Eligible, Connected
      <4>. QED BY <2>2, <4>1, <4>2, RunReads
    <3>. QED BY <3>2, DueStays
  <2>3. \A c \in Callers : call'[c] # None => call'[c].at <= now'
    BY CallsAreDue DEF TimeInv
  <2>. QED BY <2>1, <2>2, <2>3 DEF ReadsAreDue
<1>2. DraftsAreDue'
  <2> SUFFICES ASSUME NEW m \in Matchers, NEW r \in Requests, wr'[m][r] # None
               PROVE  /\ wr'[m][r].status = "TIMED_OUT" => PastCutoff(r)'
                      /\ wr'[m][r].status = "RECONNECT_EXPIRED"
                         /\ row'[r].status # "RECONNECT_EXPIRED" => Expired(row[r], now)'
    BY DEF DraftsAreDue
  <2>1. row'[r] = row[r]
    BY StepTimesRows DEF TimedChange
  <2>2. CASE wr'[m][r] = wr[m][r]
    <3>1. row[r].status # "FREE"
      BY <2>2 DEF DraftsKeepPartners
    <3>. QED BY <2>1, <2>2, <3>1, DueStays DEF TimeInv, DraftsAreDue
  <2>3. CASE wr'[m][r].status = "MATCHED"
    BY <2>3
  <2>4. CASE wr'[m][r].status = "TIMED_OUT" /\ pc[m] = "timeout" /\ r \in ids[m]
    BY <2>4, DueStays DEF TimeInv, ReadsAreDue, IdsExist
  <2>5. CASE wr'[m][r].status = "RECONNECT_EXPIRED" /\ Expired(View(m, r), at[m])
    <3>1. wr[m][r] = None
      BY <2>5 DEF View, Expired, DraftsKeepPartners, Unmatched
    <3>2. Expired(row[r], at[m])
      BY <2>5, <3>1 DEF View
    <3>3. at[m] <= now /\ at[m] \in Nat /\ row[r] \in RowType
      BY DEF TimeInv, ReadsAreDue, TypeOK
    <3>4. Expired(row[r], now) /\ row[r].status # "FREE"
      BY <1>0, <3>2, <3>3 DEF Expired, RowType
    <3>. QED BY <2>1, <2>5, <3>4, DueStays
  <2>. QED BY <2>2, <2>3, <2>4, <2>5, StepChangesDrafts DEF DraftChange
<1>3. RowsAreDue'
  <2> SUFFICES ASSUME NEW r \in Requests, row'[r].status = "TIMED_OUT" PROVE PastCutoff(r)'
    BY DEF RowsAreDue
  <2>1. PastCutoff(r) /\ row[r].status # "FREE"
    BY StepTimesRows DEF TimedChange, TimeInv, RowsAreDue, DraftsAreDue, DraftsKeepPartners
  <2>. QED BY <2>1, DueStays
<1>. QED BY <1>1, <1>2, <1>3 DEF TimeInv

LEMMA TimesInitially == Init => TimeInv
<1> SUFFICES ASSUME Init PROVE TimeInv
  OBVIOUS
<1>1. /\ \A r \in Requests : row[r].status = "FREE"
      /\ \A m \in Matchers : pc[m] = "idle" /\ at[m] = 0
      /\ \A m \in Matchers, r \in Requests : wr[m][r] = None
      /\ \A c \in Callers : call[c] = None
      /\ now = 0
  BY DEF Init, NoWrites
<1>. QED BY <1>1 DEF TimeInv, ReadsAreDue, DraftsAreDue, RowsAreDue

LEMMA TimeInvariance == Spec => []TimeInv
<1>1. IInv /\ TimeInv /\ [Next]_vars => TimeInv'
  BY TimeStep
<1>. QED BY <1>1, TimesInitially, Invariance, PTL DEF Spec

(* Nobody is timed out before the wait is over. *)
THEOREM NobodyTimesOutEarly == Spec => []NoEarlyTimeout
<1>1. TimeInv => NoEarlyTimeout
  BY DEF TimeInv, RowsAreDue, NoEarlyTimeout, PastCutoff
<1>. QED BY <1>1, TimeInvariance, PTL

(* A reconnect expires by the deadline in force, never by a stale read. *)
THEOREM GraceIsKept == Spec => GraceIsHonoured
<1>1. ASSUME IInv, TimeInv, [Next]_vars
      PROVE  \A r \in Requests :
                row[r].status # row'[r].status /\ row'[r].status = "RECONNECT_EXPIRED"
                  => Expired(row[r], now)
  <2> SUFFICES ASSUME NEW r \in Requests, row[r].status # "RECONNECT_EXPIRED",
                      row'[r].status = "RECONNECT_EXPIRED"
               PROVE  Expired(row[r], now)
    OBVIOUS
  <2>1. CASE \E m \in Matchers : wr[m][r] # None /\ wr[m][r].status = "RECONNECT_EXPIRED"
    BY <1>1, <2>1 DEF TimeInv, DraftsAreDue
  <2>2. ASSUME NEW c \in Callers, call[c] # None, Expired(row[r], call[c].at)
        PROVE  Expired(row[r], now)
    <3>1. /\ call[c].at <= now /\ call[c].at \in Nat /\ now \in Nat /\ row[r] \in RowType
      BY <1>1, <2>2 DEF TimeInv, ReadsAreDue, IInv, TypeOK, CallType
    <3>. QED BY <2>2, <3>1 DEF Expired, RowType
  <2>. QED BY <1>1, <2>1, <2>2, StepTimesRows DEF TimedChange
<1>2. IInv /\ TimeInv /\ [Next]_vars =>
        [\A r \in Requests :
           row[r].status # row'[r].status /\ row'[r].status = "RECONNECT_EXPIRED"
             => Expired(row[r], now)]_row
  BY <1>1
<1>. QED BY <1>2, Invariance, TimeInvariance, PTL DEF Spec, GraceIsHonoured

-----------------------------------------------------------------------------
(* What the published match.found events say, for any number of requests,  *)
(* users, concurrent matcher runs and handlers: EInv is inductive.         *)

(* Steps after which a run with pairs to announce is in the same phase,     *)
(* still holds what it wrote, and nobody's committed partner has changed.   *)
LEMMA EventFrame ==
  ASSUME EInv, IInv', UNCHANGED <<made, announced>>, IdleRunsHoldNothing',
         \A r \in Requests : row'[r].peer = row[r].peer,
         \A m \in Matchers : made[m] # {} =>
           /\ pc'[m] # "idle"
           /\ (pc'[m] = "publish") <=> (pc[m] = "publish"),
         \A m \in Matchers, r \in Requests :
           wr[m][r] # None => wr'[m][r] # None /\ wr'[m][r].peer = wr[m][r].peer
  PROVE  EInv'
<1>1. MadeIsDisjoint' /\ AnnouncedIsCommitted'
  BY DEF EInv, MadeIsDisjoint, AnnouncedIsCommitted
<1>2. MadeIsHeld'
  <2> SUFFICES ASSUME NEW m \in Matchers, NEW p \in made[m]
               PROVE  /\ pc'[m] # "idle"
                      /\ announced[p.a] = <<>>
                      /\ announced[p.b] = <<>>
                      /\ pc'[m] # "publish" => HeldBy(m, p.a, p.b)' /\ HeldBy(m, p.b, p.a)'
                      /\ pc'[m] = "publish" => row'[p.a].peer = p.b /\ row'[p.b].peer = p.a
    BY DEF MadeIsHeld
  <2>1. p.a \in Requests /\ p.b \in Requests
    BY DEF EInv, IInv, TypeOK, PairType
  <2>. QED
    BY <2>1 DEF EInv, MadeIsHeld, HeldBy
<1>. QED
  BY <1>1, <1>2 DEF EInv

(* Steps of handlers, and of runs that only read. *)
LEMMA QuietStep ==
  ASSUME EInv, IInv', UNCHANGED <<made, announced, wr>>,
         \A r \in Requests : row'[r].peer = row[r].peer,
         \A m \in Matchers :
           \/ pc'[m] = pc[m]
           \/ pc[m] = "idle"
           \/ pc[m] # "publish" /\ pc'[m] \notin {"idle", "publish"}
  PROVE  EInv'
<1>1. IdleRunsHoldNothing'
  BY DEF EInv, IdleRunsHoldNothing
<1>2. \A m \in Matchers : made[m] # {} => pc[m] # "idle"
  BY DEF EInv, MadeIsHeld
<1>. QED
  BY <1>1, <1>2, EventFrame

(* A run that rolls back, or has announced its last pair, has none left. *)
LEMMA RunEndsStep ==
  ASSUME EInv, NEW m \in Matchers, Rollback(m), UNCHANGED <<row, announced>>, IInv'
  PROVE  EInv'
<1> USE DEF EInv
<1>1. /\ made'[m] = {} /\ pc'[m] = "idle" /\ \A r \in Requests : wr'[m][r] = None
      /\ \A n \in Matchers \ {m} : made'[n] = made[n] /\ wr'[n] = wr[n] /\ pc'[n] = pc[n]
  BY DEF Rollback, NoWrites, IInv, TypeOK
<1>2. IdleRunsHoldNothing'
  BY <1>1 DEF IdleRunsHoldNothing
<1>3. MadeIsHeld'
  BY <1>1 DEF MadeIsHeld, HeldBy
<1>4. MadeIsDisjoint'
  BY <1>1 DEF MadeIsDisjoint
<1>. QED
  BY <1>2, <1>3, <1>4 DEF AnnouncedIsCommitted

(* The two bulk updates keep the partners of the rows they write. *)
LEMMA BulkStep ==
  ASSUME EInv, IInv', NEW m \in Matchers, ExpireReconnects(m) \/ TimeOut(m)
  PROVE  EInv'
<1> USE DEF EInv
<1>1. /\ UNCHANGED <<row, made, announced>>
      /\ pc[m] \in {"expire", "timeout"}
      /\ \E to \in {"timeouts", "pools"} : pc' = [pc EXCEPT ![m] = to]
  BY DEF ExpireReconnects, TimeOut, Move, table, events, results
<1>2. \E S \in SUBSET Requests : \E new \in [S -> RowType] :
         Write(m, new) /\ \A r \in S : new[r].peer = View(m, r).peer
  <2>1. CASE ExpireReconnects(m)
    <3> DEFINE S == {r \in ids[m] : StillExpired(View(m, r), at[m])}
               new == [r \in S |-> [View(m, r) EXCEPT !.status = "RECONNECT_EXPIRED",
                                                      !.deadline = None]]
    <3>1. ASSUME NEW r \in S PROVE r \in Requests /\ View(m, r) \in RowType
      BY DEF IInv, TypeOK, View, StillExpired, Expired
    <3>2. ASSUME NEW v \in RowType
          PROVE  LET w == [v EXCEPT !.status = "RECONNECT_EXPIRED", !.deadline = None] IN
                 w \in RowType /\ w.peer = v.peer
      BY DEF RowType, Status
    <3>3. Write(m, new)
      BY <2>1 DEF ExpireReconnects
    <3>4. S \in SUBSET Requests /\ new \in [S -> RowType]
          /\ \A r \in S : new[r].peer = View(m, r).peer
      BY <3>1, <3>2
    <3> HIDE DEF S, new
    <3>. QED
      BY <3>3, <3>4
  <2>2. CASE TimeOut(m)
    <3> DEFINE S == ids[m]
               new == [r \in S |-> [View(m, r) EXCEPT !.status = "TIMED_OUT"]]
    <3>1. ASSUME NEW r \in S PROVE r \in Requests /\ View(m, r) \in RowType
      BY DEF IInv, TypeOK, View
    <3>2. ASSUME NEW v \in RowType
          PROVE  LET w == [v EXCEPT !.status = "TIMED_OUT"] IN
                 w \in RowType /\ w.peer = v.peer
      BY DEF RowType, Status
    <3>3. Write(m, new)
      BY <2>2 DEF TimeOut
    <3>4. S \in SUBSET Requests /\ new \in [S -> RowType]
          /\ \A r \in S : new[r].peer = View(m, r).peer
      BY <3>1, <3>2
    <3> HIDE DEF S, new
    <3>. QED
      BY <3>3, <3>4
  <2>. QED
    BY <2>1, <2>2
<1>10. PICK S \in SUBSET Requests : \E new \in [S -> RowType] :
        Write(m, new) /\ \A r \in S : new[r].peer = View(m, r).peer
  BY <1>2
<1>3. PICK new \in [S -> RowType] :
        Write(m, new) /\ \A r \in S : new[r].peer = View(m, r).peer
  BY <1>10
<1>4. /\ \A r \in Requests : wr'[m][r] = IF r \in S THEN new[r] ELSE wr[m][r]
      /\ \A n \in Matchers \ {m} : wr'[n] = wr[n]
  BY <1>3 DEF Write, IInv, TypeOK
<1>5. pc'[m] \in {"timeouts", "pools"} /\ \A n \in Matchers \ {m} : pc'[n] = pc[n]
  BY <1>1 DEF IInv, TypeOK
<1>6. IdleRunsHoldNothing'
  BY <1>4, <1>5 DEF IdleRunsHoldNothing
<1>7. \A r \in S : new[r] # None
  OBVIOUS
<1>8. \A n \in Matchers, r \in Requests :
        wr[n][r] # None => wr'[n][r] # None /\ wr'[n][r].peer = wr[n][r].peer
  BY <1>3, <1>4, <1>7 DEF View
<1>9. \A n \in Matchers : made[n] # {} =>
        pc'[n] # "idle" /\ ((pc'[n] = "publish") <=> (pc[n] = "publish"))
  BY <1>1, <1>5 DEF MadeIsHeld
<1>. QED
  BY <1>1, <1>6, <1>8, <1>9, EventFrame

(* The first UPDATE of a pair adds a draft. *)
LEMMA JoinFirstEvents ==
  ASSUME EInv, IInv', NEW m \in Matchers, JoinFirst(m)
  PROVE  EInv'
<1> USE DEF EInv
<1> DEFINE a == pair[m].a
           b == pair[m].b
<1>1. UNCHANGED <<row, made, announced>> /\ pc[m] = "first"
  BY DEF JoinFirst, table, results, events
<1>2. CASE ~MayJoin(View(m, a))
  <2>1. UNCHANGED wr /\ pc' = [pc EXCEPT ![m] = "commit"]
    BY <1>2 DEF JoinFirst, Move
  <2>. QED
    BY <1>1, <2>1, QuietStep DEF IInv, TypeOK
<1>3. CASE MayJoin(View(m, a))
  <2>1. a \in Requests /\ b \in Requests
    BY <1>1 DEF IInv, PairIsCompatible, TypeOK, PairType
  <2>2. wr[m][a] = None
    BY <1>3, <2>1, ConnectedIsUndrafted DEF MayJoin
  <2>3. /\ pc' = [pc EXCEPT ![m] = "second"]
        /\ Write(m, [r \in {a} |-> Joined(View(m, r), b)])
    BY <1>3 DEF JoinFirst, Move
  <2>4. \A n \in Matchers, r \in Requests : wr[n][r] # None => wr'[n][r] = wr[n][r]
    BY <2>2, <2>3 DEF Write, IInv, TypeOK
  <2>5. pc'[m] = "second" /\ \A n \in Matchers \ {m} : pc'[n] = pc[n] /\ wr'[n] = wr[n]
    BY <2>3 DEF Write, IInv, TypeOK
  <2>6. IdleRunsHoldNothing'
    BY <2>5 DEF IdleRunsHoldNothing
  <2>7. \A n \in Matchers : made[n] # {} =>
          pc'[n] # "idle" /\ ((pc'[n] = "publish") <=> (pc[n] = "publish"))
    BY <1>1, <2>5 DEF MadeIsHeld
  <2> HIDE DEF a, b
  <2>. QED
    BY <1>1, <2>4, <2>6, <2>7, EventFrame
<1>. QED
  BY <1>2, <1>3

(* Both rows of a pair that is being completed are free of other pairs. *)
LEMMA NewPairIsDisjoint ==
  ASSUME EInv, NEW m \in Matchers, pc[m] = "second", Connected(View(m, pair[m].b)),
         MayLock(m, {pair[m].b}), NEW n \in Matchers, NEW q \in made[n]
  PROVE  {pair[m].a, pair[m].b} \intersect {q.a, q.b} = {}
<1> USE DEF EInv
<1> DEFINE a == pair[m].a
           b == pair[m].b
<1>1. /\ a \in Requests /\ b \in Requests
      /\ wr[m][a] # None /\ wr[m][a].peer = b /\ row[a].peer = None
  BY DEF IInv, PairIsCompatible, TypeOK, PairType
<1>2. wr[m][b] = None /\ row[b].peer = None
  BY <1>1, ConnectedIsUndrafted
<1>3. q.a \in Requests /\ q.b \in Requests
  BY DEF IInv, TypeOK, PairType
<1>4. CASE pc[n] = "publish"
  BY <1>1, <1>2, <1>3, <1>4, NoneAssumption DEF MadeIsHeld
<1>5. CASE pc[n] # "publish"
  <2>1. /\ wr[n][q.a] # None /\ wr[n][q.a].peer = q.b
        /\ wr[n][q.b] # None /\ wr[n][q.b].peer = q.a
    BY <1>5 DEF MadeIsHeld, HeldBy
  <2>2. CASE n = m
    BY <1>1, <1>2, <2>1, <2>2
  <2>3. CASE n # m
    <3>1. wr[n][b] = None
      BY <2>3 DEF MayLock
    <3>2. wr[n][a] = None
      BY <1>1, <2>3 DEF IInv, LocksAreExclusive
    <3>. QED
      BY <2>1, <3>1, <3>2
  <2>. QED
    BY <2>2, <2>3
<1>. QED
  BY <1>4, <1>5

LEMMA JoinSecondEvents ==
  ASSUME EInv, IInv', NEW m \in Matchers, JoinSecond(m)
  PROVE  EInv'
<1> USE DEF EInv
<1> DEFINE a == pair[m].a
           b == pair[m].b
<1>1. UNCHANGED <<row, announced>> /\ pc[m] = "second"
  BY DEF JoinSecond, table, events
<1>4. \A n \in Matchers : \A q \in made[n] : q.a \in Requests /\ q.b \in Requests
  BY DEF IInv, TypeOK, PairType
<1>2. CASE ~MayJoin(View(m, b))
  BY <1>1, <1>2, RunEndsStep DEF JoinSecond, PartnerGone
<1>3. CASE MayJoin(View(m, b))
  <2>1. /\ a \in Requests /\ b \in Requests /\ pair[m] \in PairType
        /\ wr[m][a] # None /\ wr[m][a].peer = b /\ row[a].peer = None
    BY <1>1 DEF IInv, PairIsCompatible, TypeOK, PairType
  <2>2. wr[m][b] = None /\ row[b].peer = None /\ View(m, b) = row[b] /\ a # b
    BY <1>3, <2>1, ConnectedIsUndrafted DEF MayJoin, View
  <2>3. /\ pc' = [pc EXCEPT ![m] = "pools"]
        /\ MayLock(m, {b})
        /\ Write(m, [r \in {b} |-> Joined(View(m, r), a)])
        /\ made' = [made EXCEPT ![m] = made[m] \union {pair[m]}]
    BY <1>3 DEF JoinSecond, Move
  <2>4. Joined(row[b], a) # None /\ Joined(row[b], a).peer = a
    BY <2>1, JoinedRow DEF IInv, TypeOK
  <2>5. /\ wr'[m][b] = Joined(row[b], a)
        /\ \A r \in Requests \ {b} : wr'[m][r] = wr[m][r]
    BY <2>1, <2>2, <2>3 DEF Write, IInv, TypeOK
  <2>6. /\ pc'[m] = "pools" /\ made'[m] = made[m] \union {pair[m]}
        /\ \A n \in Matchers \ {m} : pc'[n] = pc[n] /\ wr'[n] = wr[n] /\ made'[n] = made[n]
    BY <2>3 DEF Write, IInv, TypeOK
  <2>7. \A n \in Matchers : \A q \in made[n] : {a, b} \intersect {q.a, q.b} = {}
    BY <1>1, <1>3, <2>3, NewPairIsDisjoint DEF MayJoin
  <2>8. announced[a] = <<>> /\ announced[b] = <<>>
    <3>1. ASSUME NEW r \in Requests, row[r].peer = None PROVE announced[r] = <<>>
      <4>1. SUFFICES ASSUME announced[r] # <<>> PROVE FALSE
        OBVIOUS
      <4>2. announced[r] = <<row[r].peer>>
        BY <4>1 DEF AnnouncedIsCommitted
      <4>3. announced[r] \in Seq(Requests)
        BY DEF IInv, TypeOK
      <4>4. Len(announced[r]) = 1 /\ announced[r][1] = row[r].peer
        BY <4>2
      <4>5. announced[r][1] \in Requests
        BY <4>3, <4>4
      <4>. QED
        BY <3>1, <4>4, <4>5
    <3>. QED
      BY <2>1, <2>2, <3>1
  <2> HIDE DEF a, b
  <2>9. IdleRunsHoldNothing'
    BY <2>6 DEF IdleRunsHoldNothing
  <2>10. MadeIsHeld'
    <3> SUFFICES ASSUME NEW n \in Matchers, NEW q \in made'[n]
                 PROVE  /\ pc'[n] # "idle"
                        /\ announced[q.a] = <<>>
                        /\ announced[q.b] = <<>>
                        /\ pc'[n] # "publish" => HeldBy(n, q.a, q.b)' /\ HeldBy(n, q.b, q.a)'
                        /\ pc'[n] = "publish" => row[q.a].peer = q.b /\ row[q.b].peer = q.a
      BY <1>1 DEF MadeIsHeld
    <3>1. CASE n # m
      BY <1>1, <2>6, <3>1 DEF MadeIsHeld, HeldBy
    <3>2. CASE n = m /\ q = pair[m]
      <4>1. q.a = a /\ q.b = b
        BY <3>2 DEF a, b
      <4>2. /\ wr'[m][a] # None /\ wr'[m][a].peer = b /\ row'[a].peer = None
            /\ wr'[m][b] # None /\ wr'[m][b].peer = a /\ row'[b].peer = None
        BY <1>1, <2>1, <2>2, <2>4, <2>5
      <4>3. HeldBy(n, q.a, q.b)' /\ HeldBy(n, q.b, q.a)'
        BY <3>2, <4>1, <4>2 DEF HeldBy
      <4>4. announced[q.a] = <<>> /\ announced[q.b] = <<>>
        BY <2>8, <4>1
      <4>. QED
        BY <2>6, <3>2, <4>3, <4>4
    <3>3. CASE n = m /\ q \in made[m]
      <4>1. q.a \in Requests /\ q.b \in Requests /\ q.a # b /\ q.b # b
        BY <1>4, <2>7, <3>3
      <4>. QED
        BY <1>1, <2>5, <2>6, <3>3, <4>1 DEF MadeIsHeld, HeldBy
    <3>. QED
      BY <2>6, <3>1, <3>2, <3>3
  <2>11. MadeIsDisjoint'
    <3> SUFFICES ASSUME NEW n \in Matchers, NEW o \in Matchers,
                        NEW p \in made'[n], NEW q \in made'[o],
                        {p.a, p.b} \intersect {q.a, q.b} # {}
                 PROVE  n = o /\ p = q
      BY DEF MadeIsDisjoint
    <3>1. CASE p \in made[n] /\ q \in made[o]
      BY <3>1 DEF MadeIsDisjoint
    <3>2. CASE p \notin made[n] \/ q \notin made[o]
      BY <2>6, <2>7, <3>2 DEF a, b
    <3>. QED
      BY <3>1, <3>2
  <2>. QED
    BY <1>1, <2>9, <2>10, <2>11 DEF AnnouncedIsCommitted
<1>. QED
  BY <1>2, <1>3

(* At the commit the pairs of the run move from its drafts into the table.  *)
LEMMA CommitEvents ==
  ASSUME EInv, IInv', NEW m \in Matchers, Commit(m)
  PROVE  EInv'
<1> USE DEF EInv
<1>1. /\ UNCHANGED <<made, announced>> /\ pc[m] = "commit"
      /\ pc' = [pc EXCEPT ![m] = AfterCommit(m)]
      /\ \A r \in Requests : row'[r] = View(m, r)
  BY DEF Commit, Move, events, results
<1>2. /\ \A r \in Requests : wr'[m][r] = None
      /\ \A n \in Matchers \ {m} : wr'[n] = wr[n] /\ pc'[n] = pc[n]
  BY <1>1 DEF Commit, NoWrites, IInv, TypeOK
<1>3. pc'[m] \in {"idle", "publish"} /\ (made[m] # {} => pc'[m] = "publish")
  BY <1>1 DEF AfterCommit, IInv, TypeOK
<1>4. \A r \in Requests : row[r].peer # None => row'[r].peer = row[r].peer
  BY <1>1 DEF View, IInv, DraftsKeepPartners
<1>5. \A n \in Matchers \ {m}, r \in Requests : wr[n][r] # None => row'[r] = row[r]
  BY <1>1 DEF View, IInv, LocksAreExclusive
<1>6. IdleRunsHoldNothing'
  BY <1>2 DEF IdleRunsHoldNothing
<1>7. MadeIsDisjoint'
  BY <1>1 DEF MadeIsDisjoint
<1>8. AnnouncedIsCommitted'
  <2> SUFFICES ASSUME NEW r \in Requests, announced[r] # <<>>
               PROVE  announced[r] = <<row'[r].peer>>
    BY <1>1 DEF AnnouncedIsCommitted
  <2>1. announced[r] = <<row[r].peer>>
    BY DEF AnnouncedIsCommitted
  <2>2. announced[r] \in Seq(Requests)
    BY DEF IInv, TypeOK
  <2>3. Len(announced[r]) = 1 /\ announced[r][1] = row[r].peer
    BY <2>1
  <2>4. row[r].peer \in Requests
    BY <2>2, <2>3
  <2>. QED
    BY <1>4, <2>1, <2>4
<1>9. MadeIsHeld'
  <2> SUFFICES ASSUME NEW n \in Matchers, NEW q \in made[n]
               PROVE  /\ pc'[n] # "idle"
                      /\ announced[q.a] = <<>>
                      /\ announced[q.b] = <<>>
                      /\ pc'[n] # "publish" => HeldBy(n, q.a, q.b)' /\ HeldBy(n, q.b, q.a)'
                      /\ pc'[n] = "publish" => row'[q.a].peer = q.b /\ row'[q.b].peer = q.a
    BY <1>1 DEF MadeIsHeld
  <2>1. q.a \in Requests /\ q.b \in Requests
    BY DEF IInv, TypeOK, PairType
  <2>2. CASE n = m
    BY <1>1, <1>3, <2>1, <2>2 DEF MadeIsHeld, HeldBy, View
  <2>3. CASE n # m
    BY <1>2, <1>4, <1>5, <2>1, <2>3, NoneAssumption DEF MadeIsHeld, HeldBy
  <2>. QED
    BY <2>2, <2>3
<1>. QED
  BY <1>6, <1>7, <1>8, <1>9

LEMMA PublishEvents ==
  ASSUME EInv, IInv', NEW m \in Matchers, PublishTimedOut(m) \/ PublishMatch(m)
  PROVE  EInv'
<1> USE DEF EInv
<1>1. UNCHANGED <<row, wr>> /\ pc[m] = "publish"
  BY DEF PublishTimedOut, PublishMatch, Move, table
<1>4. \A n \in Matchers : \A q \in made[n] : q.a \in Requests /\ q.b \in Requests
  BY DEF IInv, TypeOK, PairType
<1>2. CASE PublishTimedOut(m)
  <2>1. UNCHANGED <<made, announced>>
        /\ pc' = [pc EXCEPT ![m] = pc'[m]] /\ pc'[m] \in {"idle", "publish"}
        /\ (made[m] # {} => pc'[m] = "publish")
    BY <1>2 DEF PublishTimedOut, Move, IInv, TypeOK
  <2>2. IdleRunsHoldNothing'
    BY <1>1, <2>1 DEF IdleRunsHoldNothing, IInv, TypeOK
  <2>3. \A n \in Matchers : made[n] # {} =>
          pc'[n] # "idle" /\ ((pc'[n] = "publish") <=> (pc[n] = "publish"))
    BY <1>1, <2>1 DEF MadeIsHeld, IInv, TypeOK
  <2>. QED
    BY <1>1, <2>1, <2>2, <2>3, EventFrame
<1>3. CASE PublishMatch(m)
  <2>1. PICK p \in made[m] :
          /\ pc' = [pc EXCEPT ![m] = IF made[m] = {p} THEN "idle" ELSE "publish"]
          /\ made' = [made EXCEPT ![m] = made[m] \ {p}]
          /\ announced' = announced \/ announced' = Announcement(p)
    BY <1>3 DEF PublishMatch, Move
  <2>2. /\ p.a \in Requests /\ p.b \in Requests
        /\ row[p.a].peer = p.b /\ row[p.b].peer = p.a
        /\ announced[p.a] = <<>> /\ announced[p.b] = <<>>
    BY <1>1 DEF MadeIsHeld, IInv, TypeOK, PairType
  <2>3. /\ made'[m] = made[m] \ {p} /\ pc'[m] \in {"idle", "publish"}
        /\ (made'[m] # {} => pc'[m] = "publish")
        /\ \A n \in Matchers \ {m} : made'[n] = made[n] /\ pc'[n] = pc[n]
    BY <2>1 DEF IInv, TypeOK
  <2>4. /\ \A r \in Requests \ {p.a, p.b} : announced'[r] = announced[r]
        /\ announced'[p.a] \in {<<>>, <<p.b>>}
        /\ announced'[p.b] \in {<<>>, <<row[p.b].peer>>}
    <3>1. CASE announced' = announced
      BY <2>2, <3>1
    <3>2. CASE announced' = Announcement(p)
      <4>1. Append(<<>>, p.b) = <<p.b>> /\ Append(<<>>, p.a) = <<p.a>>
        OBVIOUS
      <4>2. \A r \in Requests : announced'[r] =
              CASE r = p.a -> Append(announced[r], p.b)
                [] r = p.b -> Append(announced[r], p.a)
                [] OTHER   -> announced[r]
        BY <3>2 DEF Announcement
      <4>3. announced'[p.a] = Append(announced[p.a], p.b)
        BY <2>2, <4>2
      <4>4. p.b # p.a => announced'[p.b] = Append(announced[p.b], p.a)
        BY <2>2, <4>2
      <4>5. \A r \in Requests \ {p.a, p.b} : announced'[r] = announced[r]
        BY <4>2
      <4>6. announced'[p.a] = <<p.b>> /\ (p.b # p.a => announced'[p.b] = <<p.a>>)
        BY <2>2, <4>1, <4>3, <4>4
      <4>. QED
        BY <2>2, <4>5, <4>6
    <3>. QED
      BY <2>1, <3>1, <3>2
  <2>5. AnnouncedIsCommitted'
    BY <1>1, <2>2, <2>4 DEF AnnouncedIsCommitted
  <2>6. MadeIsDisjoint'
    BY <2>3 DEF MadeIsDisjoint
  <2>7. IdleRunsHoldNothing'
    BY <1>1, <2>3 DEF IdleRunsHoldNothing
  <2>8. MadeIsHeld'
    <3> SUFFICES ASSUME NEW n \in Matchers, NEW q \in made'[n]
                 PROVE  /\ pc'[n] # "idle"
                        /\ announced'[q.a] = <<>>
                        /\ announced'[q.b] = <<>>
                        /\ pc'[n] # "publish" => HeldBy(n, q.a, q.b)' /\ HeldBy(n, q.b, q.a)'
                        /\ pc'[n] = "publish" => row'[q.a].peer = q.b /\ row'[q.b].peer = q.a
      BY DEF MadeIsHeld
    <3>1. q \in made[n] /\ (n = m => q # p)
      BY <2>3
    <3>4. {q.a, q.b} \intersect {p.a, p.b} = {}
      BY <3>1 DEF MadeIsDisjoint
    <3>2. q.a \in Requests \ {p.a, p.b} /\ q.b \in Requests \ {p.a, p.b}
      BY <1>4, <3>1, <3>4
    <3>3. announced'[q.a] = <<>> /\ announced'[q.b] = <<>>
      BY <2>4, <3>1, <3>2 DEF MadeIsHeld
    <3>. QED
      BY <1>1, <2>3, <3>1, <3>3 DEF MadeIsHeld, HeldBy
  <2>. QED
    BY <2>5, <2>6, <2>7, <2>8
<1>. QED
  BY <1>2, <1>3

(* No handler touches a partner column. *)
LEMMA HandlersKeepPartners ==
  ASSUME IInv, NEW c \in Callers, CallStep(c), NEW r \in Requests
  PROVE  row'[r].peer = row[r].peer
<1> USE DEF IInv
<1> DEFINE k == call[c]
           q == k.id
<1>1. CASE UNCHANGED row
  BY <1>1
<1>2. CASE UpdateForCall(c) /\ row' # row
  <2> DEFINE v == row[q]
             w == After(k.op, v, k.at)
  <2>1. q \in Requests /\ v \in RowType /\ row' = [row EXCEPT ![q] = w]
    BY <1>2 DEF UpdateForCall, Update, TypeOK, CallType
  <2>2. w.peer = v.peer
    BY <2>1 DEF After, RowType
  <2> HIDE DEF w
  <2>. QED
    BY <2>1, <2>2 DEF TypeOK
<1>3. CASE SwitchWrite(c) /\ row' # row
  <2> DEFINE w == IF row[q].status = "PENDING" THEN Cancelled(row[q]) ELSE row[q]
  <2>1. PICK n \in Requests :
          /\ NextId(n)
          /\ row' = [row EXCEPT ![q] = IF row[q].status = "PENDING" THEN Cancelled(@) ELSE @,
                                ![n] = NewRow(k.low)]
    BY <1>3 DEF SwitchWrite, table
  <2>2. q \in Requests /\ row[q] \in RowType
    BY <1>3 DEF SwitchWrite, TypeOK, CallType
  <2>3. row' = [[row EXCEPT ![q] = w] EXCEPT ![n] = NewRow(k.low)]
    BY <2>1, <2>2 DEF TypeOK
  <2>4. row[n].peer = None /\ NewRow(k.low).peer = None
    BY <2>1, FreeIsUnlocked DEF NextId, NewRow
  <2>5. w.peer = row[q].peer
    BY <2>2, CancelledType
  <2> HIDE DEF w, q
  <2>. QED
    BY <2>2, <2>3, <2>4, <2>5 DEF TypeOK
<1>. QED
  BY <1>1, <1>2, <1>3 DEF CallStep, SwitchRead, table

(* Every step preserves EInv: one case per action. *)
LEMMA EventsInductive ==
  ASSUME EInv, [Next]_vars
  PROVE  EInv'
<1>0. IInv'
  BY Inductive DEF EInv
<1>1. CASE Tick \/ UNCHANGED vars
  BY <1>0, <1>1, QuietStep DEF Tick, vars, table, matcherVars, events, results
<1>2. ASSUME NEW u \in Users, NEW c \in Criteria, Create(u, c) PROVE EInv'
  <2>1. UNCHANGED <<made, announced, wr, pc>>
    BY <1>2 DEF Create, matcherVars, events, results
  <2>2. PICK n \in Requests :
          row[n].status = "FREE" /\ row' = [row EXCEPT ![n] = NewRow(c.low)]
    BY <1>2 DEF Create, NextId
  <2>3. row[n].peer = None /\ NewRow(c.low).peer = None
    BY <2>2, FreeIsUnlocked DEF EInv, NewRow
  <2>4. \A r \in Requests : row'[r].peer = row[r].peer
    BY <2>2, <2>3 DEF EInv, IInv, TypeOK
  <2>. QED
    BY <1>0, <2>1, <2>4, QuietStep
<1>3. ASSUME NEW q \in Requests, Cancel(q) PROVE EInv'
  <2>1. UNCHANGED <<made, announced, wr, pc>>
        /\ row' = [row EXCEPT ![q] = Cancelled(row[q])]
    BY <1>3 DEF Cancel, Update, matcherVars, events, results
  <2>2. Cancelled(row[q]).peer = row[q].peer
    BY CancelledType DEF EInv, IInv, TypeOK
  <2>3. \A r \in Requests : row'[r].peer = row[r].peer
    BY <2>1, <2>2 DEF EInv, IInv, TypeOK
  <2>. QED
    BY <1>0, <2>1, <2>3, QuietStep
<1>4. ASSUME NEW c \in Callers, NEW r \in Requests,
             NEW op \in {"disconnect", "reconnect", "expire", "downward", "switch"},
             ReadForCall(c, op, r)
      PROVE  EInv'
  BY <1>0, <1>4, QuietStep DEF ReadForCall, table, matcherVars, events, results
<1>5. ASSUME NEW c \in Callers, CallStep(c) PROVE EInv'
  <2>1. UNCHANGED <<made, announced, wr, pc>>
    BY <1>5 DEF CallStep, UpdateForCall, SwitchRead, SwitchWrite, matcherVars, events, results
  <2>2. \A r \in Requests : row'[r].peer = row[r].peer
    BY <1>5, HandlersKeepPartners DEF EInv
  <2>. QED
    BY <1>0, <2>1, <2>2, QuietStep
<1>6. ASSUME NEW m \in Matchers,
             Begin(m) \/ ReadTimeouts(m) \/ ReadPools(m) \/ ScanPool(m)
      PROVE  EInv'
  <2>1. UNCHANGED <<row, made, announced, wr>>
        /\ pc[m] \in {"idle", "timeouts", "pools", "scan"}
        /\ \E to \in {"timeouts", "expire", "pools", "timeout", "commit", "scan", "first"} :
             pc' = [pc EXCEPT ![m] = to]
    BY <1>6 DEF Begin, ReadTimeouts, ReadPools, ScanPool, Move, table, events, results
  <2>. QED
    BY <1>0, <2>1, QuietStep DEF EInv, IInv, TypeOK
<1>7. ASSUME NEW m \in Matchers, Crash(m) \/ GiveUp(m) PROVE EInv'
  BY <1>0, <1>7, RunEndsStep DEF Crash, GiveUp, table, events
<1>8. ASSUME NEW m \in Matchers, MatcherStep(m) PROVE EInv'
  BY <1>0, <1>6, <1>7, <1>8, BulkStep, JoinFirstEvents, JoinSecondEvents, CommitEvents,
     PublishEvents DEF MatcherStep
<1>. QED
  BY <1>1, <1>2, <1>3, <1>4, <1>5, <1>6, <1>7, <1>8 DEF Next

THEOREM EventInvariance == Spec => []EInv
<1>1. Init => EInv
  <2>1. ASSUME Init PROVE EInv
    <3>1. IInv
      BY <2>1, Initial
    <3>2. /\ \A m \in Matchers : made[m] = {}
          /\ \A m \in Matchers, r \in Requests : wr[m][r] = None
          /\ \A r \in Requests : announced[r] = <<>>
      BY <2>1 DEF Init, NoWrites
    <3>. QED
      BY <3>1, <3>2 DEF EInv, IdleRunsHoldNothing, MadeIsHeld, MadeIsDisjoint,
                        AnnouncedIsCommitted
  <2>. QED
    BY <2>1
<1>2. EInv /\ [Next]_vars => EInv'
  BY EventsInductive
<1>. QED
  BY <1>1, <1>2, PTL DEF Spec

(* match.found tells each request of the one partner the table has for it,  *)
(* and at most once. *)
THEOREM AnnouncementsAreTrue == Spec => []AnnouncedIsCommitted
<1>1. EInv => AnnouncedIsCommitted
  BY DEF EInv
<1>. QED
  BY <1>1, EventInvariance, PTL

=============================================================================
