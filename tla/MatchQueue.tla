----------------------------- MODULE MatchQueue -----------------------------
(***************************************************************************)
(* The match queue of the matching service                                 *)
(* (services/matching-service/src/services/matchRequestService.ts): the    *)
(* table of match requests, the matcher runs that expire and join its      *)
(* rows, the HTTP handlers that change single rows, and the domain events  *)
(* published after a run has committed.                                    *)
(*                                                                         *)
(* Several matcher runs are in progress at once: every replica consumes    *)
(* the shared work queue, and any handler runs the matcher inline when the *)
(* broker is unavailable.  Each run is one interactive PostgreSQL          *)
(* transaction at READ COMMITTED.  Every statement of it is one step:      *)
(*   - a SELECT reads the committed rows and the run's own writes;         *)
(*   - an UPDATE takes the row locks of the rows it changes, waits while   *)
(*     another run holds one, and evaluates its WHERE clause on the row    *)
(*     version it finds when it gets the lock;                             *)
(*   - the writes become visible to others, and the locks are released,    *)
(*     at COMMIT; an error rolls back all of them.                         *)
(* An HTTP handler is a read followed by one guarded UPDATE of its own.    *)
(***************************************************************************)
EXTENDS MatchingEngine, Sequences

CONSTANTS
  Requests,        \* ids of match requests, allocated in increasing order
  Users,           \* user ids
  Matchers,        \* slots for concurrent matcher runs
  Callers,         \* slots for concurrent reconnect/fallback handlers
  Pools,           \* (topic, language) pairs
  Criteria,        \* what a user may ask for: [pool, diff, low, time]
  MatchTimeout,    \* getMatchTimeoutSeconds, in ticks of the clock
  ReconnectGrace,  \* getReconnectGraceSeconds, in ticks of the clock
  MaxTime,         \* bound: the clock stops here
  MaxFailures,     \* bound: how many runs crash
  None             \* null

Status ==
  {"FREE", "PENDING", "MATCHED", "CANCELLED", "TIMED_OUT", "RECONNECT_EXPIRED"}

Difficulties == DOMAIN DifficultyRank

(* Columns written by INSERT only, and the columns UPDATEs write.  The two  *)
(* disconnect columns are always set and cleared together, so one deadline  *)
(* stands for both; peerUserId and the other peer columns are functions of  *)
(* the peer request.  Status FREE: the id is not in the table yet.          *)
ReqType == [user : Users, pool : Pools, diff : Difficulties, time : Nat, created : Nat]
RowType == [status : Status, low : BOOLEAN, deadline : Nat \union {None},
            peer : Requests \union {None}]
CallType ==
  [op : {"disconnect", "reconnect", "expire", "downward", "switch", "switchWrite"},
   id : Requests, at : Nat, low : BOOLEAN]
PairType == [a : Requests, b : Requests]

ASSUME RequestsAssumption == Requests \subseteq Nat
ASSUME UsersAssumption == Users \subseteq Nat
ASSUME PoolsAssumption == Pools \subseteq Nat
ASSUME CriteriaAssumption ==
  Criteria \subseteq [pool : Pools, diff : Difficulties, low : BOOLEAN, time : Nat]
ASSUME TimesAssumption ==
  /\ MatchTimeout \in Nat
  /\ ReconnectGrace \in Nat
  /\ MaxTime \in Nat
  /\ MaxFailures \in Nat
ASSUME NoneAssumption ==
  None \notin Requests \union Nat \union RowType \union ReqType \union CallType \union PairType

VARIABLES
  now,        \* the wall clock
  req, row,   \* the committed table: immutable and mutable columns per id
  pc,         \* where each matcher run is
  at,         \* "now" captured by expirePendingRequests
  ids,        \* ids read for the next bulk UPDATE
  todo,       \* pools still to scan in this round
  pair,       \* the pair being joined
  wr,         \* uncommitted row versions; a written row is a locked row
  out,        \* timedOutRows of the run
  made,       \* matches of the run
  call,       \* handlers between their read and their UPDATE
  announced,  \* per request, the partners named by published match.found
  timedOut,   \* per request, the number of published match.timed_out
  failures    \* crashes so far

vars == <<now, req, row, pc, at, ids, todo, pair, wr, out, made, call,
          announced, timedOut, failures>>

table == <<req, row>>
events == <<announced, timedOut>>
local == <<at, ids, todo>>
results == <<out, made>>

-----------------------------------------------------------------------------
(* What run m sees of row r, which rows others have locked. *)
View(m, r) == IF wr[m][r] = None THEN row[r] ELSE wr[m][r]

Locked(r) == \E m \in Matchers : wr[m][r] # None

(* Mutant of MayLock: rows are not locked by the UPDATEs of a transaction. *)
LockAnyway(m, S) == TRUE

MayLock(m, S) == \A r \in S, n \in Matchers \ {m} : wr[n][r] = None

Connected(v) == v.status = "PENDING" /\ v.deadline = None

Expired(v, t) == v.status = "PENDING" /\ v.deadline # None /\ v.deadline <= t

EngineRow(m, r) ==
  [id |-> r, user |-> req[r].user, pool |-> req[r].pool, diff |-> req[r].diff,
   low |-> View(m, r).low, time |-> req[r].time, created |-> req[r].created]

Eligible(m) == {r \in Requests : Connected(View(m, r))}

NoWrites == [r \in Requests |-> None]

Move(m, from, to) == pc[m] = from /\ pc' = [pc EXCEPT ![m] = to]

(* An UPDATE of run m: new gives the new version of each row it changes. *)
Write(m, new) ==
  wr' = [wr EXCEPT ![m] =
           [r \in Requests |-> IF r \in DOMAIN new THEN new[r] ELSE wr[m][r]]]

-----------------------------------------------------------------------------
(* A matcher run: expirePendingRequests, then the loop of tryMatchQueue. *)

(* Reads the disconnected rows whose grace is over. *)
Begin(m) ==
  LET over == {r \in Requests : Expired(row[r], now)} IN
  /\ Move(m, "idle", IF over = {} THEN "timeouts" ELSE "expire")
  /\ at' = [at EXCEPT ![m] = IF over = {} THEN 0 ELSE now]
  /\ ids' = [ids EXCEPT ![m] = over]
  /\ UNCHANGED <<now, table, todo, pair, wr, results, call, events, failures>>

(* Mutant of StillExpired: the UPDATE trusts the ids that were read. *)
ExpiredWhenRead(v, t) == v.status = "PENDING"

StillExpired(v, t) == Expired(v, t)

ExpireReconnects(m) ==
  LET hit == {r \in ids[m] : StillExpired(View(m, r), at[m])} IN
  /\ Move(m, "expire", "timeouts")
  /\ MayLock(m, hit)
  /\ Write(m, [r \in hit |-> [View(m, r) EXCEPT !.status = "RECONNECT_EXPIRED",
                                                !.deadline = None]])
  /\ at' = [at EXCEPT ![m] = 0]
  /\ ids' = [ids EXCEPT ![m] = {}]
  /\ UNCHANGED <<now, table, todo, pair, results, call, events, failures>>

(* Mutant of PastCutoff: off by one tick. *)
PastCutoffEarly(r) == req[r].created + MatchTimeout <= now + 1

PastCutoff(r) == req[r].created + MatchTimeout <= now

(* Reads the connected rows that waited too long, with a clock of its own. *)
ReadTimeouts(m) ==
  LET late == {r \in Eligible(m) : PastCutoff(r)} IN
  /\ Move(m, "timeouts", IF late = {} THEN "pools" ELSE "timeout")
  /\ ids' = [ids EXCEPT ![m] = late]
  /\ UNCHANGED <<now, table, at, todo, pair, wr, results, call, events, failures>>

(* The UPDATE names the ids that were read and nothing else: a row that is  *)
(* no longer PENDING, or was disconnected since, is overwritten too.        *)
TimeOut(m) ==
  /\ Move(m, "timeout", "pools")
  /\ MayLock(m, ids[m])
  /\ Write(m, [r \in ids[m] |-> [View(m, r) EXCEPT !.status = "TIMED_OUT"]])
  /\ out' = [out EXCEPT ![m] = ids[m]]
  /\ ids' = [ids EXCEPT ![m] = {}]
  /\ UNCHANGED <<now, table, at, todo, pair, made, call, events, failures>>

(* Start of a round: the distinct pools of the eligible rows. *)
ReadPools(m) ==
  LET keys == {req[r].pool : r \in Eligible(m)} IN
  /\ Move(m, "pools", IF keys = {} THEN "commit" ELSE "scan")
  /\ todo' = [todo EXCEPT ![m] = keys]
  /\ UNCHANGED <<now, table, at, ids, pair, wr, results, call, events, failures>>

Candidates(m, k) == {EngineRow(m, r) : r \in {q \in Eligible(m) : req[q].pool = k}}

(* The first remaining pool is read and searched for a pair. *)
ScanPool(m) ==
  \E k \in todo[m] :
    LET found == FindFirstPair(Candidates(m, k)) IN
    /\ \A l \in todo[m] : k <= l
    /\ IF found # {}
       THEN /\ Move(m, "scan", "first")
            /\ \E pr \in found :
                 pair' = [pair EXCEPT ![m] = [a |-> pr.requester.id, b |-> pr.partner.id]]
            /\ todo' = [todo EXCEPT ![m] = {}]
       ELSE /\ Move(m, "scan", IF todo[m] = {k} THEN "commit" ELSE "scan")
            /\ todo' = [todo EXCEPT ![m] = @ \ {k}]
            /\ UNCHANGED pair
    /\ UNCHANGED <<now, table, at, ids, wr, results, call, events, failures>>

(* Mutant of Joined: a status the schema does not have. *)
JoinedAsPaired(v, peer) == [v EXCEPT !.status = "PAIRED", !.peer = peer]

Joined(v, peer) == [v EXCEPT !.status = "MATCHED", !.peer = peer]

(* Mutant of MayJoin: the row is found by its id alone. *)
MayJoinById(v) == v.deadline = None

(* Mutant of MayJoin: the disconnect column is not re-checked. *)
MayJoinAnyPending(v) == v.status = "PENDING"

(* The WHERE clause of both finalizing UPDATEs. *)
MayJoin(v) == Connected(v)

(* First UPDATE of a pair.  When the row is gone the run ends here, and     *)
(* what it did before is committed.                                         *)
JoinFirst(m) ==
  LET a == pair[m].a
      b == pair[m].b IN
  /\ pc[m] = "first"
  /\ IF MayJoin(View(m, a))
     THEN /\ Move(m, "first", "second")
          /\ MayLock(m, {a})
          /\ Write(m, [r \in {a} |-> Joined(View(m, r), b)])
          /\ UNCHANGED pair
     ELSE /\ Move(m, "first", "commit")
          /\ pair' = [pair EXCEPT ![m] = None]
          /\ UNCHANGED wr
  /\ UNCHANGED <<now, table, local, results, call, events, failures>>

(* Mutant of Rollback: matches collected before the error are kept. *)
RollbackKeepsMade(m) ==
  /\ pc' = [pc EXCEPT ![m] = "idle"]
  /\ at' = [at EXCEPT ![m] = 0]
  /\ ids' = [ids EXCEPT ![m] = {}]
  /\ todo' = [todo EXCEPT ![m] = {}]
  /\ pair' = [pair EXCEPT ![m] = None]
  /\ wr' = [wr EXCEPT ![m] = NoWrites]
  /\ out' = [out EXCEPT ![m] = {}]
  /\ UNCHANGED made

(* Everything a run did is undone, and its effects are forgotten. *)
Rollback(m) ==
  /\ pc' = [pc EXCEPT ![m] = "idle"]
  /\ at' = [at EXCEPT ![m] = 0]
  /\ ids' = [ids EXCEPT ![m] = {}]
  /\ todo' = [todo EXCEPT ![m] = {}]
  /\ pair' = [pair EXCEPT ![m] = None]
  /\ wr' = [wr EXCEPT ![m] = NoWrites]
  /\ out' = [out EXCEPT ![m] = {}]
  /\ made' = [made EXCEPT ![m] = {}]

(* Mutant of PartnerGone: the missing partner ends the run like the missing *)
(* requester does, without the error that rolls the first half back.        *)
CommitHalfPair(m) ==
  /\ Move(m, "second", "commit")
  /\ pair' = [pair EXCEPT ![m] = None]
  /\ UNCHANGED <<local, wr, results>>

(* "Match finalization invariant failed": thrown out of the transaction. *)
PartnerGone(m) == pc[m] = "second" /\ Rollback(m)

JoinSecond(m) ==
  LET a == pair[m].a
      b == pair[m].b IN
  /\ pc[m] = "second"
  /\ IF MayJoin(View(m, b))
     THEN /\ Move(m, "second", "pools")
          /\ MayLock(m, {b})
          /\ Write(m, [r \in {b} |-> Joined(View(m, r), a)])
          /\ made' = [made EXCEPT ![m] = @ \union {pair[m]}]
          /\ pair' = [pair EXCEPT ![m] = None]
          /\ UNCHANGED <<local, out>>
     ELSE PartnerGone(m)
  /\ UNCHANGED <<now, table, call, events, failures>>

AfterCommit(m) == IF out[m] = {} /\ made[m] = {} THEN "idle" ELSE "publish"

Commit(m) ==
  /\ Move(m, "commit", AfterCommit(m))
  /\ row' = [r \in Requests |-> View(m, r)]
  /\ wr' = [wr EXCEPT ![m] = NoWrites]
  /\ UNCHANGED <<now, req, local, pair, results, call, events, failures>>

-----------------------------------------------------------------------------
(* publishMatchQueueEffects, after the commit: all timeouts, then all       *)
(* matches.  A publish that fails is logged and the event is lost.          *)

PublishTimedOut(m) ==
  \E r \in out[m] :
    /\ Move(m, "publish", IF out[m] = {r} /\ made[m] = {} THEN "idle" ELSE "publish")
    /\ out' = [out EXCEPT ![m] = @ \ {r}]
    /\ timedOut' \in {timedOut, [timedOut EXCEPT ![r] = @ + 1]}
    /\ UNCHANGED <<now, table, local, pair, wr, made, call, announced, failures>>

Announcement(p) ==
  [r \in Requests |->
     CASE r = p.a -> Append(announced[r], p.b)
       [] r = p.b -> Append(announced[r], p.a)
       [] OTHER   -> announced[r]]

PublishMatch(m) ==
  \E p \in made[m] :
    /\ out[m] = {}
    /\ Move(m, "publish", IF made[m] = {p} THEN "idle" ELSE "publish")
    /\ made' = [made EXCEPT ![m] = @ \ {p}]
    /\ announced' \in {announced, Announcement(p)}
    /\ UNCHANGED <<now, table, local, pair, wr, out, call, timedOut, failures>>

(* The replica dies, or the database reports an error: PostgreSQL undoes an *)
(* open transaction; events not yet published are gone.                     *)
Crash(m) ==
  /\ pc[m] # "idle"
  /\ failures < MaxFailures
  /\ failures' = failures + 1
  /\ Rollback(m)
  /\ UNCHANGED <<now, table, call, events>>

(* The rows the next UPDATE of run m has to lock. *)
Wanted(m) ==
  CASE pc[m] = "expire"  -> {r \in ids[m] : StillExpired(View(m, r), at[m])}
    [] pc[m] = "timeout" -> ids[m]
    [] pc[m] = "first"   -> {r \in {pair[m].a} : MayJoin(View(m, r))}
    [] pc[m] = "second"  -> {r \in {pair[m].b} : MayJoin(View(m, r))}
    [] OTHER             -> {}

(* A run that waits for a lock may be given up: as the victim of a deadlock *)
(* or when the 5 s limit of an interactive transaction passes.              *)
GiveUp(m) ==
  /\ ~MayLock(m, Wanted(m))
  /\ Rollback(m)
  /\ UNCHANGED <<now, table, call, events, failures>>

MatcherStep(m) ==
  \/ ExpireReconnects(m) \/ ReadTimeouts(m) \/ TimeOut(m)
  \/ ReadPools(m) \/ ScanPool(m) \/ JoinFirst(m) \/ JoinSecond(m) \/ Commit(m)
  \/ PublishTimedOut(m) \/ PublishMatch(m) \/ GiveUp(m)

-----------------------------------------------------------------------------
(* HTTP handlers.  Each also schedules matcher runs before and after its    *)
(* own work; a run may begin at any time anyway.                            *)

matcherVars == <<pc, local, pair, wr, results>>

NextId(n) == row[n].status = "FREE" /\ \A r \in Requests : r < n => row[r].status # "FREE"

(* Mutant of PendingOf: the unique index skips disconnected rows. *)
PendingOfConnected(u) == {r \in Requests : Connected(row[r]) /\ req[r].user = u}

PendingOf(u) == {r \in Requests : row[r].status = "PENDING" /\ req[r].user = u}

NewReq(u, c) ==
  [user |-> u, pool |-> c.pool, diff |-> c.diff, time |-> c.time, created |-> now]

NewRow(low) == [status |-> "PENDING", low |-> low, deadline |-> None, peer |-> None]

(* createMatchRequest, also on behalf of acceptFallbackFromTimedOutRow.     *)
(* The partial unique index refuses a second PENDING row of the user; while *)
(* an open run has changed that row, the INSERT waits for the run.          *)
Create(u, c) ==
  \E n \in Requests :
    /\ NextId(n)
    /\ PendingOf(u) = {}
    /\ req' = [req EXCEPT ![n] = NewReq(u, c)]
    /\ row' = [row EXCEPT ![n] = NewRow(c.low)]
    /\ UNCHANGED <<now, matcherVars, call, events, failures>>

(* One guarded UPDATE of row r, which waits while a run has it locked. *)
Update(r, v) == ~Locked(r) /\ row' = [row EXCEPT ![r] = v]

Cancelled(v) == [v EXCEPT !.status = "CANCELLED", !.deadline = None]

(* cancelMatchRequestForUser: its early read only picks the error code. *)
Cancel(r) ==
  /\ row[r].status = "PENDING"
  /\ Update(r, Cancelled(row[r]))
  /\ UNCHANGED <<now, req, matcherVars, call, events, failures>>

(* The reads of the other handlers: what they let pass, and the clock they  *)
(* carry over to their UPDATE.                                              *)
MayCall(op, r) ==
  CASE op = "disconnect" -> Connected(row[r])
    [] op = "reconnect"  -> row[r].status = "PENDING" /\ row[r].deadline # None
                            /\ row[r].deadline > now
    [] op = "expire"     -> Expired(row[r], now)
    [] op = "downward"   -> Connected(row[r]) /\ ~row[r].low /\ ~PastCutoff(r)
    [] op = "switch"     -> Connected(row[r]) /\ ~PastCutoff(r)
    [] OTHER             -> FALSE

ReadForCall(c, op, r) ==
  /\ call[c] = None
  /\ MayCall(op, r)
  /\ call' = [call EXCEPT ![c] = [op |-> op, id |-> r, at |-> now, low |-> row[r].low]]
  /\ UNCHANGED <<now, table, matcherVars, events, failures>>

InGrace(v, t) == v.status = "PENDING" /\ v.deadline # None /\ v.deadline > t

(* The WHERE clauses and the new values of the four single-row UPDATEs. *)
Hits(op, v, t) ==
  CASE op = "disconnect" -> Connected(v)
    [] op = "reconnect"  -> InGrace(v, t)
    [] op = "expire"     -> Expired(v, t)
    [] op = "downward"   -> Connected(v) /\ ~v.low
    [] OTHER             -> FALSE

After(op, v, t) ==
  CASE op = "disconnect" -> [v EXCEPT !.deadline = t + ReconnectGrace]
    [] op = "reconnect"  -> [v EXCEPT !.deadline = None]
    [] op = "expire"     -> [v EXCEPT !.status = "RECONNECT_EXPIRED", !.deadline = None]
    [] op = "downward"   -> [v EXCEPT !.low = TRUE]
    [] OTHER             -> v

(* disconnectMatchRequestForUser, reconnectMatchRequestForUser and the      *)
(* downward branch of acceptFallbackSuggestion: the second half.            *)
UpdateForCall(c) ==
  LET k == call[c] IN
  /\ k # None /\ k.op \in {"disconnect", "reconnect", "expire", "downward"}
  /\ IF Hits(k.op, row[k.id], k.at)
     THEN Update(k.id, After(k.op, row[k.id], k.at))
     ELSE UNCHANGED row
  /\ call' = [call EXCEPT ![c] = None]
  /\ UNCHANGED <<now, req, matcherVars, events, failures>>

(* The topic switch is a transaction: a read of the row ... *)
SwitchRead(c) ==
  LET k == call[c] IN
  /\ k # None /\ k.op = "switch"
  /\ call' = [call EXCEPT ![c] =
             IF Connected(row[k.id])
             THEN [k EXCEPT !.op = "switchWrite", !.low = row[k.id].low] ELSE None]
  /\ UNCHANGED <<now, table, matcherVars, events, failures>>

(* ... then UPDATE to CANCELLED, INSERT and COMMIT.  Those three are one    *)
(* step: the only other row they touch is new.  How many rows the UPDATE    *)
(* changed is not looked at; a second PENDING row of the user makes the     *)
(* INSERT fail and the transaction roll back, once no run has it locked.    *)
SwitchWrite(c) ==
  LET k == call[c]
      r == k.id
      isPending == row[r].status = "PENDING" IN
  /\ k # None /\ k.op = "switchWrite"
  /\ isPending => ~Locked(r)
  /\ \/ /\ PendingOf(req[r].user) \subseteq {r}
        /\ \E n \in Requests, p \in Pools \ {req[r].pool} :
             /\ NextId(n)
             /\ req' = [req EXCEPT ![n] = [req[r] EXCEPT !.pool = p, !.created = now]]
             /\ row' = [row EXCEPT ![r] = IF isPending THEN Cancelled(@) ELSE @,
                                   ![n] = NewRow(k.low)]
     \/ /\ \E q \in PendingOf(req[r].user) \ {r} : ~Locked(q)
        /\ UNCHANGED table
  /\ call' = [call EXCEPT ![c] = None]
  /\ UNCHANGED <<now, matcherVars, events, failures>>

CallStep(c) == UpdateForCall(c) \/ SwitchRead(c) \/ SwitchWrite(c)

Tick ==
  /\ now < MaxTime
  /\ now' = now + 1
  /\ UNCHANGED <<table, matcherVars, call, events, failures>>

-----------------------------------------------------------------------------
Init ==
  /\ now = 0
  /\ req = [r \in Requests |-> None]
  /\ row = [r \in Requests |->
              [status |-> "FREE", low |-> FALSE, deadline |-> None, peer |-> None]]
  /\ pc = [m \in Matchers |-> "idle"]
  /\ at = [m \in Matchers |-> 0]
  /\ ids = [m \in Matchers |-> {}]
  /\ todo = [m \in Matchers |-> {}]
  /\ pair = [m \in Matchers |-> None]
  /\ wr = [m \in Matchers |-> NoWrites]
  /\ out = [m \in Matchers |-> {}]
  /\ made = [m \in Matchers |-> {}]
  /\ call = [c \in Callers |-> None]
  /\ announced = [r \in Requests |-> <<>>]
  /\ timedOut = [r \in Requests |-> 0]
  /\ failures = 0

Next ==
  \/ Tick
  \/ \E u \in Users, c \in Criteria : Create(u, c)
  \/ \E r \in Requests : Cancel(r)
  \/ \E c \in Callers, r \in Requests,
        op \in {"disconnect", "reconnect", "expire", "downward", "switch"} :
       ReadForCall(c, op, r)
  \/ \E c \in Callers : CallStep(c)
  \/ \E m \in Matchers : Begin(m) \/ MatcherStep(m) \/ Crash(m)

Spec == Init /\ [][Next]_vars

-----------------------------------------------------------------------------
(* Type invariant. *)
TypeOK ==
  /\ now \in Nat
  /\ req \in [Requests -> ReqType \union {None}]
  /\ row \in [Requests -> RowType]
  /\ pc \in [Matchers -> {"idle", "expire", "timeouts", "timeout", "pools", "scan",
                          "first", "second", "commit", "publish"}]
  /\ at \in [Matchers -> Nat]
  /\ ids \in [Matchers -> SUBSET Requests]
  /\ todo \in [Matchers -> SUBSET Pools]
  /\ pair \in [Matchers -> PairType \union {None}]
  /\ wr \in [Matchers -> [Requests -> RowType \union {None}]]
  /\ out \in [Matchers -> SUBSET Requests]
  /\ made \in [Matchers -> SUBSET PairType]
  /\ call \in [Callers -> CallType \union {None}]
  /\ announced \in [Requests -> Seq(Requests)]
  /\ timedOut \in [Requests -> Nat]
  /\ failures \in Nat

(* May request a have taken b as its partner?  The rule of the engine, on   *)
(* the columns that no longer change once a row is matched.                 *)
Compatible(a, b) ==
  /\ req[a].user # req[b].user
  /\ req[a].pool = req[b].pool
  /\ \/ req[a].diff = req[b].diff
     \/ StrictlyLower(req[b].diff, req[a].diff) /\ row[a].low
     \/ StrictlyLower(req[a].diff, req[b].diff) /\ row[b].low

(* Committed pairs are whole: partners name each other, are two different   *)
(* users of one pool, and one of them accepted the other's difficulty, no   *)
(* matter how runs, handlers, rollbacks and early commits interleave.       *)
PairsAreMutual ==
  \A r \in Requests :
    row[r].peer # None =>
      /\ row[row[r].peer].peer = r
      /\ Compatible(r, row[r].peer)

(* A match.found event names only partners the database agreed on, and each *)
(* request appears in at most one: nothing is announced from a run that     *)
(* rolled back, and no retry announces a pair again.                        *)
AnnouncedIsCommitted ==
  \A r \in Requests : announced[r] # <<>> => announced[r] = <<row[r].peer>>

(* The unique index at work across all writers: one PENDING row per user.   *)
OnePendingPerUser == 
  \A r, q \in Requests :
    row[r].status = "PENDING" /\ row[q].status = "PENDING" /\ req[r].user = req[q].user
      => r = q

(* Nobody is timed out before the wait is over, even by a run that was      *)
(* started early and delayed.                                               *)
NoEarlyTimeout ==
  \A r \in Requests : row[r].status = "TIMED_OUT" => req[r].created + MatchTimeout <= now

(* A request enters the queue once; once it has left it never waits again,  *)
(* and it never loses or exchanges its partner.                             *)
LeavesQueueForGood ==
  [][\A r \in Requests :
       /\ row[r].status # "FREE" /\ row'[r].status = "PENDING" => row[r].status = "PENDING"
       /\ row[r].peer # None => row'[r].peer = row[r].peer]_row

(* A request gets a partner only out of the connected waiting state: a user *)
(* whose disconnect was recorded before the join is not matched by a run    *)
(* that read the row earlier.                                               *)
OnlyConnectedAreMatched ==
  [][\A r \in Requests :
       row[r].peer = None /\ row'[r].peer # None => Connected(row[r])]_row

(* The reconnect grace is honoured: a request expires only when the         *)
(* deadline now in force has passed, and a user who came back in time and   *)
(* left again is judged by the new deadline, not by a stale read.           *)
GraceIsHonoured ==
  [][\A r \in Requests :
       row[r].status # row'[r].status /\ row'[r].status = "RECONNECT_EXPIRED"
         => Expired(row[r], now)]_row

-----------------------------------------------------------------------------
(* The queue implements Pairing: the waiting set is the PENDING rows.  That *)
(* a row timed out after it was matched stays invisible here: it keeps its  *)
(* partner and does not wait.                                               *)
Queue == INSTANCE Pairing WITH
  joined  <- {r \in Requests : row[r].status # "FREE"},
  waiting <- {r \in Requests : row[r].status = "PENDING"},
  partner <- [r \in Requests |-> row[r].peer]

PairsLeaveTogether == Queue!Spec

-----------------------------------------------------------------------------
(* The inductive invariant behind the safety properties. *)

Unmatched(v) == v.status \in {"FREE", "PENDING"}

(* Only a row that has left the queue has a partner; used ids have columns. *)
RowsAreWellFormed ==
  \A r \in Requests :
    /\ Unmatched(row[r]) => row[r].peer = None
    /\ row[r].status # "FREE" => req[r] # None

(* What a run or a handler has read is in the table, and stays there. *)
IdsExist ==
  /\ \A m \in Matchers : \A r \in ids[m] : row[r].status # "FREE"
  /\ \A c \in Callers : call[c] # None => row[call[c].id].status # "FREE"

LocksAreExclusive ==
  \A m, n \in Matchers, r \in Requests :
    wr[m][r] # None /\ wr[n][r] # None => m = n

(* An uncommitted version takes its row out of the queue, and keeps the     *)
(* partner and the opt-in of the committed version.                         *)
DraftsKeepPartners ==
  \A m \in Matchers, r \in Requests :
    wr[m][r] # None =>
      /\ ~Unmatched(wr[m][r])
      /\ row[r].status # "FREE"
      /\ wr[m][r].low = row[r].low
      /\ row[r].peer # None => wr[m][r].peer = row[r].peer

(* A partner given by an open run is mutual within the run, except for the  *)
(* one pair whose second UPDATE is still to come.                           *)
DraftPairsAreMutual ==
  \A m \in Matchers, r \in Requests :
    wr[m][r] # None /\ wr[m][r].peer # None /\ row[r].peer = None =>
      LET q == wr[m][r].peer IN
      /\ Connected(row[r])
      /\ Compatible(r, q)
      /\ \/ wr[m][q] # None /\ wr[m][q].peer = r /\ row[q].peer = None
         \/ pc[m] = "second" /\ pair[m] = [a |-> r, b |-> q]

(* The pair being joined was selected by the engine from existing rows; at  *)
(* its second UPDATE its first row is already written.                      *)
PairIsCompatible ==
  \A m \in Matchers :
    /\ pc[m] \in {"first", "second"} =>
         /\ pair[m] # None
         /\ row[pair[m].a].status # "FREE"
         /\ row[pair[m].b].status # "FREE"
         /\ Compatible(pair[m].a, pair[m].b)
    /\ pc[m] = "second" =>
         /\ wr[m][pair[m].a] # None
         /\ wr[m][pair[m].a].peer = pair[m].b
         /\ row[pair[m].a].peer = None

IdleRunsHoldNothing ==
  \A m \in Matchers : pc[m] \in {"idle", "publish"} => \A r \in Requests : wr[m][r] = None

(* Row r is written by run m, with partner q, and has none yet outside it. *)
HeldBy(m, r, q) == wr[m][r] # None /\ wr[m][r].peer = q /\ row[r].peer = None

(* A pair whose match.found is still to be published is held by its run     *)
(* until the commit and stands in the table from then on; neither of the    *)
(* two was ever announced.                                                  *)
MadeIsHeld ==
  \A m \in Matchers : \A p \in made[m] :
    /\ pc[m] # "idle"
    /\ announced[p.a] = <<>>
    /\ announced[p.b] = <<>>
    /\ pc[m] # "publish" => HeldBy(m, p.a, p.b) /\ HeldBy(m, p.b, p.a)
    /\ pc[m] = "publish" => row[p.a].peer = p.b /\ row[p.b].peer = p.a

(* No request is in two such pairs, of one run or of two. *)
MadeIsDisjoint ==
  \A m, n \in Matchers : \A p \in made[m], q \in made[n] :
    {p.a, p.b} \intersect {q.a, q.b} # {} => m = n /\ p = q

IInv ==
  /\ TypeOK
  /\ RowsAreWellFormed
  /\ IdsExist
  /\ LocksAreExclusive
  /\ DraftsKeepPartners
  /\ DraftPairsAreMutual
  /\ PairIsCompatible
  /\ PairsAreMutual

(* The invariant behind the events, on top of IInv. *)
EInv ==
  /\ IInv
  /\ IdleRunsHoldNothing
  /\ MadeIsHeld
  /\ MadeIsDisjoint
  /\ AnnouncedIsCommitted

-----------------------------------------------------------------------------
(* What comments in the code say, and the code does not do. *)

(* "match-timeout for non-disconnected PENDING rows" (comment of            *)
(* expirePendingRequests): only such rows become TIMED_OUT.                 *)
TimeoutHitsConnectedPendingOnly ==
  [][\A r \in Requests :
       row[r].status # "TIMED_OUT" /\ row'[r].status = "TIMED_OUT"
         => Connected(row[r])]_row

=============================================================================
