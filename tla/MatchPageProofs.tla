-------------------------- MODULE MatchPageProofs --------------------------
(***************************************************************************)
(* What the matching page says of a request is so, for any number of       *)
(* requests, acts of the user and failing calls. Every step either changes *)
(* rows and leaves what is shown alone, or moves the page and leaves the   *)
(* rows alone; Moved lists the moves there are.                            *)
(***************************************************************************)
EXTENDS MatchPage, TLAPS

USE MatchPageAssumption

-----------------------------------------------------------------------------
(* Types *)

Over == {"MATCHED", "TIMED_OUT", "RECONNECT_EXPIRED", "CANCELLED"}

Ids == 0..MaxReq
Rows == [status : Status, disc : BOOLEAN, session : {"none", "active", "terminated"}]
Answers == [id : Ids, disc : BOOLEAN,
            status : Status \union {"none", "sent", "failed", "conflict", "active", "terminated"}]
Views == [page : {"dashboard", "matching", "workspace", "elsewhere", "closed"}, id : Ids,
          nav : Ids, terminal : {"none", "timeout", "reconnect"}, ready : BOOLEAN]
CallOps == {"none", "session", "active", "resolve", "get", "reconnect"}
Calls == [op : CallOps, id : Ids, res : Answers]
PressOps == {"none", "create", "conflict", "accept", "switch", "cancel"}
Presses == [op : PressOps, id : Ids, card : BOOLEAN, live : BOOLEAN, res : Answers]
Streams == [stage : {"off", "connecting", "read", "live", "broken"}, snap : Answers,
            wire : Seq(Answers)]
LateOps == {"create", "accept", "switch", "cancel", "disconnect", "reconnect"}
LateCalls == [op : LateOps, id : Ids]

(* PageTypeOK but for the one pending row, and the types of all that is    *)
(* under way.                                                              *)
TypeInv ==
    /\ row \in [Requests -> Rows]
    /\ latest \in Ids /\ untold \subseteq Requests /\ doubted \subseteq Doubts
    /\ view \in Views /\ call \in Calls /\ press \in Presses
    /\ stream \in Streams /\ poll \in Answers /\ late \subseteq LateCalls
    /\ active \in Ids /\ last \in Ids /\ (active = 0 \/ last = 0)
    /\ faults \in Nat

-----------------------------------------------------------------------------
(* The invariant *)

(* Requests come in order and one at a time: behind one that is free or     *)
(* still pending all are free.                                             *)
InOrder(rows) ==
    \A i, j \in Requests :
        i < j /\ rows[i].status \in {"FREE", "PENDING"} => rows[j].status = "FREE"

RowsInOrder ==
    /\ InOrder(row)
    /\ latest # 0 => row[latest].status = "MATCHED"
    /\ \A i \in Requests : row[i].session # "none" => row[i].status = "MATCHED"

(* All ids there are belong to requests that were made. *)
Named == {0} \union {i \in Requests : row[i].status # "FREE"}

IdsAreNamed ==
    /\ {active, last, view.id, view.nav, call.id, call.res.id, press.id, press.res.id} \subseteq Named
    /\ \A c \in late : c.id \in Named /\ (c.op # "create" => c.id # 0)
    /\ press.op \in {"accept", "switch", "cancel"} => press.id # 0

(* An answer about request i that the service gave some time ago. *)
Of(d, i) == /\ d.id = i /\ d.status \in {"PENDING"} \union Over
            /\ d.status \in Over => row[i].status = d.status

(* What an effect awaits belongs to what is shown. *)
CallFits ==
    /\ call.op = "none" => call = NoCall
    /\ call.op \in {"session", "active"} => view.page = "dashboard"
    /\ call.op \in {"resolve", "get", "reconnect"} => view.page = "matching" /\ view.id = call.id
    /\ view.page = "matching" => (call.op = "resolve" <=> view.id = 0)
    /\ call.op \in {"resolve", "reconnect"} => ~view.ready /\ view.terminal = "none"
    /\ view.page = "matching" /\ ~view.ready /\ view.terminal = "none" => call.op # "none"
    /\ view.page # "matching" => view.terminal = "none" /\ ~view.ready
    /\ view.page = "workspace" => view.id # 0 /\ row[view.id].status = "MATCHED"

AnswersFit ==
    /\ call.res = Sent \/ call.res.status # "sent"
    /\ call.op = "get" => call.res \in {Sent, Failed} \/ Of(call.res, call.id)
    /\ call.op = "reconnect" =>
         call.res \in {Sent, Failed} \/ (call.res.status = "PENDING" /\ ~call.res.disc)
    /\ call.op = "session" /\ call.res.status = "active" =>
         call.res.id # 0 /\ row[call.res.id].status = "MATCHED"
    /\ call.op \in {"active", "resolve"} /\ call.res.status = "PENDING" => call.res.id # 0
    /\ press.op # "none" /\ press.res.status = "PENDING" => press.res.id # 0
    /\ press.op \in {"accept", "switch"} =>
         press.res \in {Sent, Failed} \/ press.res.status = "PENDING"

(* Stream and poll speak of the request a waiting page shows, or not at all. *)
HearsOfOwn ==
    /\ ~Watches(view) => stream = Stream("off") /\ poll = NoPoll
    /\ stream.stage = "read" => Of(stream.snap, view.id)
    /\ \A k \in 1..Len(stream.wire) : Of(stream.wire[k], view.id)
    /\ poll \in {NoPoll, Sent, Failed} \/ Of(poll, view.id)

BaseInv == TypeInv /\ RowsInOrder /\ IdsAreNamed /\ CallFits /\ AnswersFit /\ HearsOfOwn

(* A request that nobody has disconnected or is about to. *)
Fresh(i) == ~row[i].disc /\ \A c \in late : c.id # i

(* A button of the page that is still there is about the request shown; if  *)
(* it has made a new one, that one is fresh and the other is over.          *)
PressFits ==
    press.live /\ press.op \in {"accept", "switch", "cancel"} =>
        /\ view.page = "matching" /\ view.id = press.id /\ view.ready
        /\ press.op # "cancel" /\ press.res.status = "PENDING" /\ press.res.id # press.id =>
             Fresh(press.res.id) /\ row[press.id].status \in {"CANCELLED", "TIMED_OUT"}

(* A page that waits already asks only about a request it has just made. *)
NewIsConnected ==
    call.op = "get" /\ view.ready =>
        Fresh(call.id) /\ (call.res.status = "PENDING" => ~call.res.disc)

CardFits ==
    /\ view.terminal = "timeout" => view.ready
    /\ view.terminal = "reconnect" =>
         call.op = "none" /\ (view.ready => row[view.id].status = "RECONNECT_EXPIRED")

FitInv == BaseInv /\ PressFits /\ NewIsConnected /\ CardFits

-----------------------------------------------------------------------------
(* Operators *)

LEMMA AnswerTypes ==
    /\ Sent \in Answers /\ Failed \in Answers /\ NoPoll \in Answers
    /\ \A s \in {"none", "sent", "failed", "conflict"} : Reply(s) \in Answers
    /\ \A i \in Ids, s \in Status : Told(i, s) \in Answers
    /\ NoCall \in Calls /\ NoPress \in Presses
    /\ \A op \in CallOps, i \in Ids : Ask(op, i) \in Calls
    /\ \A s \in {"off", "connecting", "read", "live", "broken"} : Stream(s) \in Streams
<1>1. \A s \in {"none", "sent", "failed", "conflict"} : Reply(s) \in Answers
  BY DEF Reply, Answers, Ids
<1>2. Sent \in Answers /\ Failed \in Answers /\ NoPoll \in Answers
  BY <1>1 DEF Sent, Failed, NoPoll
<1>3. \A i \in Ids, s \in Status : Told(i, s) \in Answers
  BY DEF Told, Answers
<1>4. NoCall \in Calls /\ NoPress \in Presses
  BY <1>2 DEF NoCall, NoPress, Calls, Presses, CallOps, PressOps, Ids
<1>5. \A op \in CallOps, i \in Ids : Ask(op, i) \in Calls
  BY <1>2 DEF Ask, Calls
<1>6. \A s \in {"off", "connecting", "read", "live", "broken"} : Stream(s) \in Streams
  BY <1>1 DEF Stream, Streams
<1>. QED BY <1>1, <1>2, <1>3, <1>4, <1>5, <1>6

LEMMA DtoTypes ==
  ASSUME TypeInv, NEW i \in Requests
  PROVE  Dto(i) \in Answers /\ Dto(i).id = i /\ Dto(i).status = row[i].status
         /\ Dto(i).disc = row[i].disc
  BY DEF Dto, Answers, TypeInv, Rows, Ids, Requests

LEMMA ActiveRowTypes ==
  ASSUME TypeInv
  PROVE  /\ ActiveRow \in Answers
         /\ \/ ActiveRow = Reply("none") /\ NonePending
            \/ \E i \in Requests : Pending(i) /\ ActiveRow = Dto(i)
<1>1. CASE \E i \in Requests : Pending(i)
  <2>1. PICK i \in Requests : Pending(i) /\ ActiveRow = Dto(i)
    BY <1>1 DEF ActiveRow
  <2>. QED BY <2>1, DtoTypes
<1>2. CASE ~ \E i \in Requests : Pending(i)
  BY <1>2, AnswerTypes DEF ActiveRow, NonePending
<1>. QED BY <1>1, <1>2

(* What becomes of a row in a step. *)
Ages(a, b) ==
    \/ b.status = a.status
    \/ a.status = "FREE" /\ b = NewRow
    \/ a.status = "PENDING" /\ b.status \in Over

(* What an operation on the service may leave behind, all of them together. *)
LEMMA AddedRows ==
  ASSUME NEW rows \in [Requests -> Rows], InOrder(row), TypeInv, NEW r \in Added(rows),
         \A i \in Requests : \/ rows[i].status = row[i].status
                             \/ rows[i].status \in Over /\ row[i].status = "PENDING",
         \A i \in Requests : rows[i].status # "PENDING"
  PROVE  /\ r.rows \in [Requests -> Rows] /\ InOrder(r.rows)
         /\ \E n \in Requests : /\ row[n].status = "FREE"
                                /\ r.rows = [rows EXCEPT ![n] = NewRow]
                                /\ r.dto = Told(n, "PENDING")
<1>1. PICK n \in NextRow : r = Result([rows EXCEPT ![n] = NewRow], Told(n, "PENDING"))
  BY DEF Added
<1>2. n \in Requests /\ row[n].status = "FREE" /\ \A i \in 1..(n-1) : row[i].status # "FREE"
  BY <1>1 DEF NextRow
<1>3. NewRow \in Rows
  BY DEF NewRow, Rows, Status
<1>4. r.rows = [rows EXCEPT ![n] = NewRow] /\ r.dto = Told(n, "PENDING")
  BY <1>1 DEF Result
<1>5. InOrder(r.rows)
  <2>1. SUFFICES ASSUME NEW i \in Requests, NEW j \in Requests, i < j,
                        r.rows[i].status \in {"FREE", "PENDING"}
                 PROVE  r.rows[j].status = "FREE"
    BY DEF InOrder
  <2>2. i >= n
    <3>1. CASE i # n
      <4>1. rows[i].status = "FREE"
        BY <1>2, <1>4, <2>1, <3>1
      <4>2. row[i].status = "FREE"
        BY <4>1 DEF Over
      <4>. QED BY <1>2, <2>1, <4>2 DEF Requests
    <3>. QED BY <3>1, <1>2 DEF Requests
  <2>3. j # n /\ row[j].status = "FREE"
    BY <1>2, <2>1, <2>2 DEF InOrder, Requests
  <2>. QED BY <1>2, <1>4, <2>1, <2>3 DEF Over
<1>. QED BY <1>2, <1>3, <1>4, <1>5

LEMMA ResultsTypes ==
  ASSUME TypeInv, InOrder(row), NEW op \in PressOps \union LateOps, op # "none", NEW i \in Ids,
         op \notin {"create", "conflict"} => i # 0,
         NEW r \in Results(op, i)
  PROVE  /\ r.rows \in [Requests -> Rows] /\ r.dto \in Answers /\ InOrder(r.rows)
         /\ \A k \in Requests : Ages(row[k], r.rows[k]) /\ r.rows[k].session \in {row[k].session, "none"}
         /\ \/ /\ r.rows = row /\ r.dto \in {Failed, Reply("conflict"), Reply("none")}
               /\ op \in {"accept", "switch"} => r.dto = Failed
            \/ op = "conflict" /\ r.rows = row
               /\ \E n \in Requests : Pending(n) /\ r.dto = Dto(n)
            \/ op = "accept" /\ r.rows = row /\ Pending(i) /\ ~row[i].disc /\ r.dto = Dto(i)
            \/ /\ op \in {"create", "accept", "switch"}
               /\ \E n \in Requests : /\ row[n].status = "FREE" /\ r.rows[n] = NewRow
                                      /\ r.dto = Told(n, "PENDING")
                                      /\ \A k \in Requests \ {n} : r.rows[k].disc = row[k].disc
                                      /\ \A k \in Requests \ {n} : row[k].status = "FREE" => r.rows[k] = row[k]
               /\ op # "create" => r.rows[i].status \in {"CANCELLED", "TIMED_OUT"}
               /\ \A k \in Requests : Pending(k) => r.rows[k].status = "CANCELLED"
            \/ /\ op = "cancel" /\ Pending(i) /\ r.dto = Told(i, "CANCELLED")
               /\ r.rows[i].status = "CANCELLED" /\ ~r.rows[i].disc
               /\ \A k \in Requests \ {i} : r.rows[k] = row[k]
            \/ /\ op \in {"disconnect", "reconnect"} /\ r.dto = Failed
               /\ \A k \in Requests : r.rows[k].status = row[k].status
               /\ \A k \in Requests \ {i} : r.rows[k] = row[k]
               /\ ~Pending(i) => r.rows[i] = row[i]
<1> DEFINE Goal == 
         /\ r.rows \in [Requests -> Rows] /\ r.dto \in Answers /\ InOrder(r.rows)
         /\ \A k \in Requests : Ages(row[k], r.rows[k]) /\ r.rows[k].session \in {row[k].session, "none"}
<1>0. /\ row \in [Requests -> Rows]
      /\ (op \notin {"create", "conflict"} => i \in Requests)
      /\ \A k \in Requests : row[k] \in Rows
  BY DEF TypeInv, Ids, Requests
<1>1. ASSUME r.rows = row, r.dto \in Answers PROVE Goal
  BY <1>0, <1>1 DEF Ages
<1>2. CASE op = "create"
  <2>1. CASE NonePending
    <3>1. r \in Added(row)
      BY <1>2, <2>1 DEF Results
    <3>2. \A k \in Requests : row[k].status # "PENDING"
      BY <2>1 DEF NonePending, Pending

    <3>3. /\ r.rows \in [Requests -> Rows] /\ InOrder(r.rows)
          /\ \E n \in Requests : /\ row[n].status = "FREE"
                                 /\ r.rows = [row EXCEPT ![n] = NewRow]
                                 /\ r.dto = Told(n, "PENDING")
      BY <1>0, <3>1, <3>2, AddedRows
    <3>4. PICK n \in Requests : /\ row[n].status = "FREE"
                                 /\ r.rows = [row EXCEPT ![n] = NewRow]
                                 /\ r.dto = Told(n, "PENDING")
      BY <3>3
    <3>5. r.rows[n] = NewRow /\ \A k \in Requests \ {n} : r.rows[k] = row[k]
      BY <1>0, <3>4
    <3>6. r.dto \in Answers
      BY <3>4, AnswerTypes DEF Status, Ids, Requests
    <3>7. \A k \in Requests : Ages(row[k], r.rows[k]) /\ r.rows[k].session \in {row[k].session, "none"}
      BY <3>4, <3>5 DEF Ages, NewRow
    <3>. QED BY <1>2, <3>2, <3>3, <3>4, <3>5, <3>6, <3>7 DEF Pending
  <2>2. CASE ~NonePending
    <3>1. r.rows = row /\ r.dto = Reply("conflict")
      BY <1>2, <2>2 DEF Results, Result
    <3>. QED BY <1>1, <1>2, <3>1, AnswerTypes
  <2>. QED BY <2>1, <2>2
<1>3. CASE op = "conflict"
  <2>1. r.rows = row /\ r.dto = ActiveRow
    BY <1>3 DEF Results, Result
  <2>. QED BY <1>1, <1>3, <2>1, ActiveRowTypes
<1>4. CASE op = "cancel"
  <2>1. CASE Pending(i)
    <3>1. r.rows = [row EXCEPT ![i].status = "CANCELLED", ![i].disc = FALSE] /\ r.dto = Told(i, "CANCELLED")
      BY <1>4, <2>1 DEF Results, Result
    <3>2. /\ r.rows[i].status = "CANCELLED" /\ ~r.rows[i].disc /\ r.rows[i].session = row[i].session
          /\ \A k \in Requests \ {i} : r.rows[k] = row[k]
      BY <1>0, <1>4, <3>1 DEF Rows
    <3>3. r.rows \in [Requests -> Rows]
      BY <1>0, <1>4, <3>1 DEF Rows, Status
    <3>4. r.dto \in Answers
      BY <3>1, AnswerTypes DEF Status
    <3>5. InOrder(r.rows)
      BY <1>0, <1>4, <2>1, <3>2 DEF InOrder, Pending
    <3>6. \A k \in Requests : Ages(row[k], r.rows[k]) /\ r.rows[k].session \in {row[k].session, "none"}
      BY <1>0, <1>4, <2>1, <3>2 DEF Ages, Pending, Over
    <3>. QED BY <1>4, <2>1, <3>1, <3>2, <3>3, <3>4, <3>5, <3>6
  <2>2. CASE ~Pending(i)
    <3>1. r.rows = row /\ r.dto = Failed
      BY <1>4, <2>2 DEF Results, Result
    <3>. QED BY <1>1, <3>1, AnswerTypes
  <2>. QED BY <2>1, <2>2
<1>5. CASE op \in {"accept", "switch"}
  <2>1. CASE r = Result(row, Failed)
    <3>1. r.rows = row /\ r.dto = Failed
      BY <2>1 DEF Result
    <3>. QED BY <1>1, <3>1, AnswerTypes
  <2>2. CASE op = "accept" /\ Pending(i) /\ ~row[i].disc /\ r = Result(row, Dto(i))
    <3>1. r.rows = row /\ r.dto = Dto(i)
      BY <2>2 DEF Result
    <3>. QED BY <1>0, <1>1, <1>5, <2>2, <3>1, DtoTypes
  <2>3. ASSUME NEW rows \in [Requests -> Rows], r \in Added(rows),
               \A k \in Requests : /\ \/ rows[k].status = row[k].status
                                      \/ rows[k].status = "CANCELLED" /\ row[k].status = "PENDING"
                                   /\ rows[k].disc = row[k].disc /\ rows[k].session = row[k].session,
               \A k \in Requests : rows[k].status # "PENDING",
               rows[i].status \in {"CANCELLED", "TIMED_OUT"}
        PROVE  /\ Goal
               /\ \E n \in Requests : /\ row[n].status = "FREE" /\ r.rows[n] = NewRow
                                      /\ r.dto = Told(n, "PENDING")
                                      /\ \A k \in Requests \ {n} : r.rows[k].disc = row[k].disc
                                      /\ \A k \in Requests \ {n} : row[k].status = "FREE" => r.rows[k] = row[k]
               /\ r.rows[i].status \in {"CANCELLED", "TIMED_OUT"}
               /\ \A k \in Requests : Pending(k) => r.rows[k].status = "CANCELLED"
    <3>1. /\ r.rows \in [Requests -> Rows] /\ InOrder(r.rows)
          /\ \E n \in Requests : /\ row[n].status = "FREE"
                                 /\ r.rows = [rows EXCEPT ![n] = NewRow]
                                 /\ r.dto = Told(n, "PENDING")
      BY <2>3, AddedRows DEF Over
    <3>2. PICK n \in Requests : /\ row[n].status = "FREE"
                                /\ r.rows = [rows EXCEPT ![n] = NewRow]
                                /\ r.dto = Told(n, "PENDING")
      BY <3>1
    <3>3. r.rows[n] = NewRow /\ \A k \in Requests \ {n} : r.rows[k] = rows[k]
      BY <2>3, <3>2
    <3>4. r.dto \in Answers
      BY <3>2, AnswerTypes DEF Status, Ids, Requests
    <3>5. i # n
      BY <1>0, <1>5, <2>3, <3>2
    <3>6. \A k \in Requests : Ages(row[k], r.rows[k]) /\ r.rows[k].session \in {row[k].session, "none"}
      BY <2>3, <3>2, <3>3 DEF Ages, NewRow, Over
    <3>7. \A k \in Requests \ {n} : row[k].status = "FREE" => r.rows[k] = row[k]
      BY <1>0, <2>3, <3>3 DEF Rows
    <3>8. \A k \in Requests : Pending(k) => r.rows[k].status = "CANCELLED"
      BY <2>3, <3>2, <3>3 DEF Pending
    <3>. QED BY <1>0, <1>5, <2>3, <3>1, <3>2, <3>3, <3>4, <3>5, <3>6, <3>7, <3>8
  <2>4. CASE op = "switch" /\ Pending(i) /\ ~row[i].disc
             /\ r \in Added([row EXCEPT ![i].status = "CANCELLED"])
    <3> DEFINE rows == [row EXCEPT ![i].status = "CANCELLED"]
    <3>1. rows \in [Requests -> Rows]
      BY <1>0, <1>5 DEF Rows, Status
    <3>2. /\ rows[i].status = "CANCELLED" /\ rows[i].disc = row[i].disc
          /\ rows[i].session = row[i].session
          /\ \A k \in Requests \ {i} : rows[k] = row[k]
      BY <1>0, <1>5 DEF Rows
    <3>3. \A k \in Requests \ {i} : row[k].status # "PENDING"
      <4>1. i \in Requests /\ row[i].status = "PENDING"
        BY <1>0, <1>5, <2>4 DEF Pending
      <4>2. ASSUME NEW k \in Requests \ {i} PROVE k < i \/ i < k
        BY <4>1 DEF Requests
      <4>. QED BY <4>1, <4>2 DEF InOrder
    <3> HIDE DEF rows
    <3>4. r \in Added(rows)
      BY <2>4 DEF rows
    <3>5. \A k \in Requests : /\ \/ rows[k].status = row[k].status
                                 \/ rows[k].status = "CANCELLED" /\ row[k].status = "PENDING"
                              /\ rows[k].disc = row[k].disc /\ rows[k].session = row[k].session
      BY <2>4, <3>2 DEF Pending
    <3>6. \A k \in Requests : rows[k].status # "PENDING"
      BY <3>2, <3>3
    <3>7. rows[i].status \in {"CANCELLED", "TIMED_OUT"}
      BY <3>2
    <3>. QED BY <2>3, <2>4, <3>1, <3>4, <3>5, <3>6, <3>7
  <2>5. CASE row[i].status = "TIMED_OUT" /\ NonePending /\ r \in Added(row)
    BY <1>0, <1>5, <2>3, <2>5 DEF NonePending, Pending
  <2>. QED BY <1>5, <2>1, <2>2, <2>4, <2>5 DEF Results
<1>6. CASE op \in {"disconnect", "reconnect"}
  <2>1. r.dto = Failed /\ r.rows = IF Pending(i) THEN [row EXCEPT ![i].disc = (op = "disconnect")] ELSE row
    BY <1>6 DEF Results, Result
  <2>2. /\ \A k \in Requests : r.rows[k].status = row[k].status /\ r.rows[k].session = row[k].session
        /\ \A k \in Requests \ {i} : r.rows[k] = row[k]
        /\ ~Pending(i) => r.rows[i] = row[i]
    BY <1>0, <1>6, <2>1 DEF Rows
  <2>3. r.rows \in [Requests -> Rows]
    <3>1. (op = "disconnect") \in BOOLEAN
      OBVIOUS
    <3>2. \A b \in BOOLEAN : [row EXCEPT ![i].disc = b] \in [Requests -> Rows]
      BY <1>0, <1>6 DEF Rows
    <3>. QED BY <1>0, <2>1, <3>1, <3>2
  <2>4. InOrder(r.rows)
    BY <2>2 DEF InOrder
  <2>. QED BY <1>6, <2>1, <2>2, <2>3, <2>4, AnswerTypes DEF Ages
<1>. QED BY <1>2, <1>3, <1>4, <1>5, <1>6 DEF PressOps, LateOps

-----------------------------------------------------------------------------
(* Moves of the page *)

GoesHome == view' = View("dashboard", 0, 0) /\ call' = Ask("session", 0)

OpensWorkspace ==
    \E i \in Requests : /\ row[i].status = "MATCHED"
                        /\ view' = View("workspace", i, 0) /\ call' = NoCall

OpensMatching ==
    \E i, n \in Named : /\ press'.op = "none" \/ view.page # "matching"
                        /\ view' = View("matching", i, n)
                        /\ call' = IF i = 0 THEN Ask("resolve", 0) ELSE Ask("get", i)

Resolves ==
    /\ call.op = "resolve"
    /\ \E i \in Named \ {0} : view' = [view EXCEPT !.id = i] /\ call' = Ask("get", i)

EndsWith(kind, s) ==
    /\ view.page = "matching" /\ view.id # 0 /\ row[view.id].status = s
    /\ view' = Card(view, kind) /\ call' = NoCall

Refuses ==
    /\ call.op = "reconnect" /\ call.res = Failed
    /\ view' = Card(view, "reconnect") /\ call' = NoCall

Readies ==
    /\ call.op \in {"get", "reconnect"} /\ call.res.status = "PENDING" /\ ~call.res.disc
    /\ view' = [view EXCEPT !.ready = TRUE] /\ call' = NoCall

Adopts ==
    /\ press.op \in {"accept", "switch"} /\ press.live /\ press.res.status = "PENDING"
    /\ ~press.card /\ view.terminal = "timeout" /\ press.res.id # press.id =>
         <<"card", press.res.id>> \in doubted'
    /\ view' = IF press.card THEN [view EXCEPT !.id = press.res.id, !.terminal = "none", !.ready = TRUE]
               ELSE [view EXCEPT !.id = press.res.id]
    /\ call' = IF press.res.id = view.id THEN call ELSE Ask("get", press.res.id)
    /\ press' = NoPress

GoesAway == \E p \in Away : view' = View(p, 0, view.nav) /\ call' = NoCall

AsksOn ==
    /\ UNCHANGED <<view, press, stream, poll>>
    /\ \/ call.op = "session" /\ call' = Ask("active", 0)
       \/ call.op = "active" /\ call.res.status \notin {"sent", "PENDING"} /\ call' = NoCall
       \/ /\ call.op = "get" /\ call.res.status = "PENDING" /\ call.res.disc
          /\ call' = Ask("reconnect", call.id)

(* A button that waits goes on, perhaps behind another page, or is done. *)
PressKept ==
    \/ press' \in Presses /\ press'.op = "none" /\ press'.id = 0 /\ press'.res.id = 0
    \/ /\ press' \in Presses
       /\ press'.op = press.op /\ press'.id = press.id /\ press'.card = press.card
       /\ press'.res = press.res
       /\ press'.live => press.live /\ view'.page = view.page

(* The effects restart, or nothing they depend on has changed. *)
HearsOn ==
    \/ poll' = NoPoll /\ stream' = Stream(IF Watches(view') THEN "connecting" ELSE "off")
    \/ /\ UNCHANGED <<stream, poll>>
       /\ \/ Watches(view') /\ Watches(view) /\ view'.id = view.id
          \/ view' = view

StoreKept ==
    /\ active' \in Named /\ last' \in Named /\ (active' = 0 \/ last' = 0)

RowsLook(i) == row'[i].status = row[i].status /\ row'[i].disc = row[i].disc

Moved ==
    /\ \/ GoesHome \/ OpensWorkspace \/ OpensMatching \/ Resolves
       \/ EndsWith("timeout", "TIMED_OUT") \/ EndsWith("reconnect", "RECONNECT_EXPIRED")
       \/ Refuses \/ Readies \/ Adopts \/ GoesAway \/ AsksOn
    /\ PressKept /\ HearsOn /\ StoreKept
    /\ \A i \in Requests : RowsLook(i)

(* The button's handler is done, or learns of a conflict; stream and poll   *)
(* have said nothing that matters. The page stays as it is.                 *)
Stays ==
    /\ UNCHANGED <<view, call>> /\ StoreKept
    /\ \A i \in Requests : RowsLook(i)
    /\ \/ UNCHANGED <<stream, poll>>
          /\ \/ press' = NoPress /\ (press.res.status = "PENDING" =>
                                       press.op = "cancel" \/ <<"left", press.res.id>> \in doubted')
             \/ /\ press.op \in {"create", "conflict"} /\ press.res.status = "conflict"
                /\ press' = [press EXCEPT !.op = "conflict", !.res = Sent]
       \/ UNCHANGED <<press, poll>> /\ stream.wire # <<>> /\ stream' = [stream EXCEPT !.wire = Tail(@)]
       \/ UNCHANGED <<press, stream>> /\ poll' = NoPoll

LEMMA ViewTypes ==
  /\ \A p \in {"dashboard", "matching", "workspace", "elsewhere", "closed"}, i, n \in Ids :
       View(p, i, n) \in Views /\ View(p, i, n).page = p
  /\ \A v \in Views : \A kind \in {"timeout", "reconnect"} :
       Card(v, kind) \in Views /\ Card(v, kind).page = v.page
  /\ \A v \in Views : \A i \in Ids : [v EXCEPT !.id = i] \in Views
  /\ \A v \in Views : [v EXCEPT !.ready = TRUE] \in Views
  /\ \A v \in Views : \A i \in Ids :
       [v EXCEPT !.id = i, !.terminal = "none", !.ready = TRUE] \in Views
<1>1. \A p \in {"dashboard", "matching", "workspace", "elsewhere", "closed"}, i, n \in Ids :
        View(p, i, n) \in Views /\ View(p, i, n).page = p
  BY DEF View, Views
<1>2. ASSUME NEW v \in Views, NEW kind \in {"timeout", "reconnect"}
      PROVE  Card(v, kind) \in Views /\ Card(v, kind).page = v.page
  BY DEF Card, Views
<1>3. \A v \in Views : \A i \in Ids : [v EXCEPT !.id = i] \in Views
  BY DEF Views
<1>4. \A v \in Views : [v EXCEPT !.ready = TRUE] \in Views
  BY DEF Views
<1>5. \A v \in Views : \A i \in Ids :
       [v EXCEPT !.id = i, !.terminal = "none", !.ready = TRUE] \in Views
  BY DEF Views
<1>. QED BY <1>1, <1>2, <1>3, <1>4, <1>5

LEMMA ShowKeeps ==
  ASSUME NEW v \in Views, NEW p \in Presses, p = press \/ p = NoPress, Show(v, p)
  PROVE  view' = v /\ PressKept /\ HearsOn
<1>1. view' = v /\ HearsOn
  BY DEF Show, HearsOn
<1>2. press' = p \/ (v.page # view.page /\ press' = [p EXCEPT !.live = FALSE])
  BY DEF Show
<1>3. CASE press' = p
  <2>3. NoPress.op = "none" /\ NoPress.id = 0 /\ NoPress.res.id = 0
    BY DEF NoPress, Failed, Reply
  <2>1. v.page = view.page \/ press' = [p EXCEPT !.live = FALSE]
    BY DEF Show
  <2>2. [p EXCEPT !.live = FALSE].live = FALSE
    BY DEF Presses
  <2>. QED BY <1>1, <1>3, <2>1, <2>2, <2>3 DEF PressKept
<1>4. CASE v.page # view.page /\ press' = [p EXCEPT !.live = FALSE]
  <2>1. CASE p = press
    BY <1>1, <1>4, <2>1 DEF PressKept, Presses
  <2>2. CASE p = NoPress
    <3>1. NoPress \in Presses /\ NoPress.op = "none" /\ NoPress.id = 0 /\ NoPress.res.id = 0
      BY AnswerTypes DEF NoPress, Failed, Reply
    <3>2. \A k \in Presses : /\ [k EXCEPT !.live = FALSE] \in Presses
                             /\ [k EXCEPT !.live = FALSE].op = k.op
                             /\ [k EXCEPT !.live = FALSE].id = k.id
                             /\ [k EXCEPT !.live = FALSE].res = k.res
      BY DEF Presses
    <3>3. press' \in Presses /\ press'.op = p.op /\ press'.id = p.id /\ press'.res = p.res
      BY <1>4, <3>2
    <3>. QED BY <1>1, <2>2, <3>1, <3>3 DEF PressKept
  <2>. QED BY <2>1, <2>2
<1>. QED BY <1>1, <1>2, <1>3, <1>4

LEMMA NamedTypes ==
  /\ Named \subseteq Ids /\ 0 \in Named /\ Named \ {0} \subseteq Requests
  /\ \A i \in Requests : row[i].status # "FREE" => i \in Named
  /\ \A i \in Named \ {0} : row[i].status # "FREE"
  BY DEF Named, Ids, Requests

LEMMA WatchedIsNamed ==
  ASSUME BaseInv, view.page = "matching", call.op # "resolve"
  PROVE  view.id \in Requests /\ row[view.id].status # "FREE"
<1>1. view.id # 0 /\ view.id \in Named
  BY DEF BaseInv, CallFits, IdsAreNamed
<1>. QED BY <1>1, NamedTypes

(* An outcome is that of a row of the request that is shown. *)
LEMMA OutcomeMoves ==
  ASSUME BaseInv, NEW d, Of(d, view.id), d.status \in Over, view.page = "matching",
         call.op # "resolve", Outcome(d, press), UNCHANGED row
  PROVE  Moved
<1>0. view.id \in Requests /\ view.id \in Named /\ row[view.id].status = d.status /\ d.id = view.id
  BY WatchedIsNamed DEF Of, BaseInv, IdsAreNamed
<1>1. view \in Views /\ press \in Presses /\ active \in Named /\ last \in Named /\ 0 \in Named
  BY NamedTypes DEF BaseInv, TypeInv, IdsAreNamed
<1>2. \A i \in Requests : RowsLook(i)
  BY DEF RowsLook
<1>3. ClearActive => StoreKept
  BY <1>1 DEF ClearActive, StoreKept
<1>4. CASE d.status = "MATCHED"
  <2>1. ClearActive /\ ToWorkspace(d.id, press)
    BY <1>4 DEF Outcome
  <2>2. View("workspace", view.id, 0) \in Views
    BY <1>0, NamedTypes, ViewTypes
  <2>3. OpensWorkspace /\ PressKept /\ HearsOn
    BY <1>0, <1>1, <1>4, <2>1, <2>2, ShowKeeps DEF ToWorkspace, OpensWorkspace
  <2>. QED BY <1>2, <1>3, <2>1, <2>3 DEF Moved
<1>5. CASE d.status = "CANCELLED"
  <2>1. ClearActive /\ Dashboard(press)
    BY <1>5 DEF Outcome
  <2>2. View("dashboard", 0, 0) \in Views
    BY NamedTypes, ViewTypes
  <2>3. GoesHome /\ PressKept /\ HearsOn
    BY <1>1, <2>1, <2>2, ShowKeeps DEF Dashboard, GoesHome
  <2>. QED BY <1>2, <1>3, <2>1, <2>3 DEF Moved
<1>6. CASE d.status = "TIMED_OUT"
  <2>1. active' = 0 /\ last' = d.id /\ Show(Card(view, "timeout"), press) /\ call' = NoCall
    BY <1>6 DEF Outcome
  <2>2. Card(view, "timeout") \in Views
    BY <1>1, ViewTypes
  <2>3. EndsWith("timeout", "TIMED_OUT") /\ PressKept /\ HearsOn
    <3>1. view' = Card(view, "timeout") /\ PressKept /\ HearsOn
      BY <1>1, <2>1, <2>2, ShowKeeps
    <3>2. view.id # 0
      BY <1>0 DEF Requests
    <3>. QED BY <1>0, <1>6, <2>1, <3>1, <3>2 DEF EndsWith
  <2>4. StoreKept
    BY <1>0, <1>1, <2>1 DEF StoreKept
  <2>. QED BY <1>2, <2>3, <2>4 DEF Moved
<1>7. CASE d.status = "RECONNECT_EXPIRED"
  <2>1. ClearActive /\ Show(Card(view, "reconnect"), press) /\ call' = NoCall
    BY <1>7 DEF Outcome
  <2>2. Card(view, "reconnect") \in Views
    BY <1>1, ViewTypes
  <2>3. EndsWith("reconnect", "RECONNECT_EXPIRED") /\ PressKept /\ HearsOn
    <3>1. view' = Card(view, "reconnect") /\ PressKept /\ HearsOn
      BY <1>1, <2>1, <2>2, ShowKeeps
    <3>2. view.id # 0
      BY <1>0 DEF Requests
    <3>. QED BY <1>0, <1>7, <2>1, <3>1, <3>2 DEF EndsWith
  <2>. QED BY <1>2, <1>3, <2>1, <2>3 DEF Moved
<1>. QED BY <1>4, <1>5, <1>6, <1>7 DEF Over

LEMMA PageMoves ==
  ASSUME BaseInv, UNCHANGED row,
         \/ PageStep \/ StreamEvent \/ PollArrives \/ Leave \/ Close \/ Visit
  PROVE  Moved \/ Stays
<1>1. /\ view \in Views /\ press \in Presses /\ call \in Calls
      /\ active \in Named /\ last \in Named /\ (active = 0 \/ last = 0) /\ 0 \in Named
      /\ view.nav \in Named /\ NoPress \in Presses
  BY NamedTypes, AnswerTypes DEF BaseInv, TypeInv, IdsAreNamed
<1>2. \A i \in Requests : RowsLook(i)
  BY DEF RowsLook
<1>3. /\ ClearActive => StoreKept
      /\ \A i \in Named : SetActive(i) => StoreKept
      /\ active' = 0 /\ last' = 0 => StoreKept
      /\ UNCHANGED store => StoreKept
  BY <1>1 DEF ClearActive, SetActive, store, StoreKept
<1>4. /\ \A i, n \in Named : View("matching", i, n) \in Views
      /\ View("dashboard", 0, 0) \in Views
      /\ \A i \in Requests : View("workspace", i, 0) \in Views
      /\ \A p \in Away : View(p, 0, view.nav) \in Views
  <2>1. Named \subseteq Ids /\ 0 \in Ids /\ Requests \subseteq Ids /\ view.nav \in Ids
    <3>1. 0 \in Ids /\ Requests \subseteq Ids
      BY DEF Ids, Requests
    <3>. QED BY <1>1, <3>1, NamedTypes
  <2>2. \A p \in {"dashboard", "matching", "workspace", "elsewhere", "closed"}, i, n \in Ids :
          View(p, i, n) \in Views
    BY ViewTypes
  <2>3. \A i, n \in Named : View("matching", i, n) \in Views
    BY <2>1, <2>2
  <2>4. View("dashboard", 0, 0) \in Views /\ \A i \in Requests : View("workspace", i, 0) \in Views
    BY <2>1, <2>2
  <2>5. \A p \in Away : View(p, 0, view.nav) \in Views
    BY <2>1, <2>2 DEF Away
  <2>. QED BY <2>3, <2>4, <2>5
<1>5. ASSUME NEW p, p = press \/ p = NoPress, Dashboard(p), StoreKept PROVE Moved
  <2>1. GoesHome /\ PressKept /\ HearsOn
    BY <1>1, <1>4, <1>5, ShowKeeps DEF Dashboard, GoesHome
  <2>. QED BY <1>2, <1>5, <2>1 DEF Moved
<1>6. ASSUME NEW p, p = press \/ p = NoPress, NEW i \in Named, NEW n \in Named, Matching(n, i, p),
             StoreKept, p = NoPress \/ view.page # "matching"
      PROVE  Moved
  <2>2. p = NoPress => press'.op = "none"
    BY <1>6 DEF Matching, Show, NoPress
  <2>1. OpensMatching /\ PressKept /\ HearsOn
    BY <1>1, <1>4, <1>6, <2>2, ShowKeeps DEF Matching, OpensMatching
  <2>. QED BY <1>2, <1>6, <2>1 DEF Moved
<1>7. ASSUME StoreKept, UNCHANGED <<view, call, stream, poll>>, press' = NoPress,
             press.res.status = "PENDING" => press.op = "cancel" \/ <<"left", press.res.id>> \in doubted'
      PROVE  Stays
  BY <1>2, <1>7 DEF Stays
<1>8. call.res.id \in Named /\ press.res.id \in Named
  BY DEF BaseInv, IdsAreNamed
<1>9. CASE SessionChecked
  <2>1. UNCHANGED store /\ call.op = "session"
    BY <1>9 DEF SessionChecked, Arrived
  <2>2. CASE call.res.status = "active"
    <3>1. call.res.id \in Requests /\ row[call.res.id].status = "MATCHED"
      BY <1>8, <2>1, <2>2, NamedTypes DEF BaseInv, AnswersFit
    <3>2. ToWorkspace(call.res.id, press)
      BY <1>9, <2>2 DEF SessionChecked
    <3>3. OpensWorkspace /\ PressKept /\ HearsOn
      BY <1>1, <1>4, <3>1, <3>2, ShowKeeps DEF ToWorkspace, OpensWorkspace
    <3>. QED BY <1>2, <1>3, <2>1, <3>3 DEF Moved
  <2>3. CASE call.res.status # "active"
    <3>1. AsksOn /\ PressKept /\ HearsOn
      BY <1>1, <1>9, <2>1, <2>3 DEF SessionChecked, AsksOn, PressKept, HearsOn
    <3>. QED BY <1>2, <1>3, <2>1, <3>1 DEF Moved
  <2>. QED BY <2>2, <2>3
<1>10. CASE ActiveChecked
  <2>1. call.op = "active" /\ call.res # Sent
    BY <1>10 DEF ActiveChecked, Arrived
  <2>2. CASE call.res.status = "PENDING"
    <3>1. view.page = "dashboard"
      BY <2>1 DEF BaseInv, CallFits
    <3>. QED BY <1>3, <1>6, <1>8, <1>10, <2>2, <3>1 DEF ActiveChecked
  <2>3. CASE call.res.status # "PENDING"
    <3>1. call' = NoCall /\ UNCHANGED <<view, press, stream, poll, store>>
      BY <1>10, <2>3 DEF ActiveChecked
    <3>2. call.res.status # "sent"
      BY <2>1 DEF BaseInv, AnswersFit
    <3>3. AsksOn /\ PressKept /\ HearsOn
      BY <1>1, <2>1, <2>3, <3>1, <3>2 DEF AsksOn, PressKept, HearsOn
    <3>. QED BY <1>2, <1>3, <3>1, <3>3 DEF Moved
  <2>. QED BY <2>2, <2>3
<1>11. CASE Resolved
  <2>1. call.op = "resolve"
    BY <1>11 DEF Resolved, Arrived
  <2>2. CASE call.res.status = "PENDING"
    <3>1. /\ SetActive(call.res.id) /\ Show([view EXCEPT !.id = call.res.id], press)
          /\ call' = Ask("get", call.res.id)
      BY <1>11, <2>2 DEF Resolved
    <3>2. call.res.id # 0
      BY <2>1, <2>2 DEF BaseInv, AnswersFit
    <3>3. [view EXCEPT !.id = call.res.id] \in Views
      BY <1>1, <1>8, NamedTypes, ViewTypes
    <3>4. view' = [view EXCEPT !.id = call.res.id] /\ PressKept /\ HearsOn
      BY <1>1, <3>1, <3>3, ShowKeeps
    <3>5. Resolves
      BY <1>8, <2>1, <3>1, <3>2, <3>4 DEF Resolves
    <3>. QED BY <1>2, <1>3, <1>8, <3>1, <3>4, <3>5 DEF Moved
  <2>3. CASE call.res.status # "PENDING"
    BY <1>3, <1>5, <1>11, <2>3 DEF Resolved
  <2>. QED BY <2>2, <2>3
<1>12. ASSUME UNCHANGED row, call.op \in {"get", "reconnect"}, call.res.status = "PENDING", ~call.res.disc,
              Show([view EXCEPT !.ready = TRUE], press), call' = NoCall, StoreKept
       PROVE  Moved
  <2>1. view' = [view EXCEPT !.ready = TRUE] /\ PressKept /\ HearsOn
    BY <1>1, <1>12, ShowKeeps, ViewTypes
  <2>2. Readies
    BY <1>12, <2>1 DEF Readies
  <2>. QED BY <1>2, <1>12, <2>1, <2>2 DEF Moved
<1>13. CASE Booted
  <2>1. call.op = "get" /\ call.res # Sent
    BY <1>13 DEF Booted, Arrived
  <2>2. CASE call.res = Failed
    BY <1>3, <1>5, <1>13, <2>2 DEF Booted
  <2>3. CASE call.res # Failed
    <3>1. Of(call.res, call.id) /\ view.id = call.id /\ view.page = "matching" /\ call.op # "resolve"
      BY <2>1, <2>3 DEF BaseInv, AnswersFit, CallFits
    <3>2. CASE call.res.status # "PENDING"
      <4>1. Outcome(call.res, press) /\ call.res.status \in Over
        BY <1>13, <2>3, <3>1, <3>2 DEF Booted, Of
      <4>. QED BY <3>1, <4>1, OutcomeMoves
    <3>3. CASE call.res.status = "PENDING"
      <4>1. SetActive(call.res.id)
        BY <1>13, <2>3, <3>3 DEF Booted
      <4>2. StoreKept
        BY <1>3, <1>8, <4>1
      <4>3. CASE ~call.res.disc
        <5>1. Show([view EXCEPT !.ready = TRUE], press) /\ call' = NoCall
          BY <1>13, <2>3, <3>3, <4>3 DEF Booted
        <5>. QED BY <1>12, <2>1, <3>3, <4>2, <4>3, <5>1
      <4>4. CASE call.res.disc
        <5>1. call' = Ask("reconnect", call.res.id) /\ UNCHANGED <<view, press, stream, poll>>
          BY <1>13, <2>3, <3>3, <4>4 DEF Booted
        <5>2. call.res.id = call.id
          BY <3>1 DEF Of
        <5>3. AsksOn /\ PressKept /\ HearsOn
          BY <1>1, <2>1, <3>3, <4>4, <5>1, <5>2 DEF AsksOn, PressKept, HearsOn
        <5>. QED BY <1>2, <4>2, <5>3 DEF Moved
      <4>. QED BY <4>3, <4>4
    <3>. QED BY <3>2, <3>3
  <2>. QED BY <2>2, <2>3
<1>14. CASE Reconnected
  <2>1. call.op = "reconnect" /\ call.res # Sent /\ call' = NoCall
    BY <1>14 DEF Reconnected, Arrived
  <2>2. CASE call.res = Failed
    <3>1. ClearActive /\ Show(Card(view, "reconnect"), press)
      BY <1>14, <2>2 DEF Reconnected
    <3>2. view' = Card(view, "reconnect") /\ PressKept /\ HearsOn
      BY <1>1, <3>1, ShowKeeps, ViewTypes
    <3>3. Refuses
      BY <2>1, <2>2, <3>2 DEF Refuses
    <3>. QED BY <1>2, <1>3, <3>1, <3>2, <3>3 DEF Moved
  <2>3. CASE call.res # Failed
    <3>1. Show([view EXCEPT !.ready = TRUE], press) /\ UNCHANGED store
      BY <1>14, <2>3 DEF Reconnected
    <3>2. call.res.status = "PENDING" /\ ~call.res.disc
      BY <2>1, <2>3 DEF BaseInv, AnswersFit
    <3>. QED BY <1>3, <1>12, <2>1, <3>1, <3>2
  <2>. QED BY <2>2, <2>3
<1>15. ASSUME NEW d, Of(d, view.id), d.status # "PENDING", Watches(view), Outcome(d, press) PROVE Moved
  <2>1. view.page = "matching" /\ view.ready
    BY <1>15 DEF Watches
  <2>2. call.op # "resolve" /\ d.status \in Over
    BY <1>15, <2>1 DEF BaseInv, CallFits, Of
  <2>. QED BY <1>15, <2>1, <2>2, OutcomeMoves
<1>16. CASE StreamEvent
  <2>1. stream.wire # <<>> /\ stream.wire \in Seq(Answers)
    BY <1>16 DEF StreamEvent, BaseInv, TypeInv, Streams
  <2>2. Watches(view)
    BY <2>1 DEF BaseInv, HearsOfOwn, Stream
  <2>3. Of(Head(stream.wire), view.id)
    BY <2>1 DEF BaseInv, HearsOfOwn
  <2>4. CASE Head(stream.wire).status = "PENDING"
    BY <1>2, <1>3, <1>16, <2>1, <2>4 DEF StreamEvent, Stays
  <2>5. CASE Head(stream.wire).status # "PENDING"
    BY <1>15, <1>16, <2>2, <2>3, <2>5 DEF StreamEvent
  <2>. QED BY <2>4, <2>5
<1>17. CASE PollArrives
  <2>1. poll \notin {NoPoll, Sent}
    BY <1>17 DEF PollArrives
  <2>2. CASE poll.status \in {"failed", "PENDING"}
    BY <1>2, <1>3, <1>17, <2>2 DEF PollArrives, Stays
  <2>3. CASE poll.status \notin {"failed", "PENDING"}
    <3>1. Watches(view)
      BY <2>1 DEF BaseInv, HearsOfOwn
    <3>2. Of(poll, view.id)
      BY <2>1, <2>3 DEF BaseInv, HearsOfOwn, Failed, Reply
    <3>. QED BY <1>15, <1>17, <2>3, <3>1, <3>2 DEF PollArrives
  <2>. QED BY <2>2, <2>3
<1>18. CASE Accepted
  <2>1. press.op \in {"accept", "switch"} /\ press.res # Sent
    BY <1>18 DEF Accepted, Answer
  <2>2. CASE press.res = Failed
    <3>1. press.res.status # "PENDING"
      BY <2>2 DEF Failed, Reply
    <3>. QED BY <1>3, <1>7, <1>18, <2>2, <3>1 DEF Accepted
  <2>3. CASE press.res # Failed
    <3>1. press.res.status = "PENDING"
      BY <2>1, <2>3 DEF BaseInv, AnswersFit
    <3>2. Adopt(press.res.id) /\ StoreKept
      BY <1>3, <1>8, <1>18, <2>3 DEF Accepted
    <3>3. CASE ~press.live
      <4>1. <<"left", press.res.id>> \in doubted'
        BY <1>18, <2>3, <3>3 DEF Accepted, AdoptedUnderCard
      <4>. QED BY <1>7, <3>2, <3>3, <4>1 DEF Adopt
    <3>4. CASE press.live
      <4> DEFINE v == IF press.card THEN [view EXCEPT !.id = press.res.id, !.terminal = "none", !.ready = TRUE]
                      ELSE [view EXCEPT !.id = press.res.id]
      <4>1. /\ Show(v, NoPress) /\ call' = IF press.res.id = view.id THEN call ELSE Ask("get", press.res.id)
        BY <3>2, <3>4 DEF Adopt
      <4>2. v \in Views /\ v.page = view.page
        BY <1>1, <1>8, NamedTypes, ViewTypes DEF Views
      <4>3. press' = NoPress
        BY <4>1, <4>2 DEF Show
      <4> HIDE DEF v
      <4>4. view' = v /\ PressKept /\ HearsOn
        BY <1>1, <4>1, <4>2, ShowKeeps
      <4>5. ~press.card /\ view.terminal = "timeout" /\ press.res.id # press.id =>
              <<"card", press.res.id>> \in doubted'
        BY <1>18, <2>3, <3>4 DEF Accepted, AdoptedUnderCard
      <4>6. Adopts
        BY <2>1, <3>1, <3>4, <4>1, <4>3, <4>4, <4>5 DEF Adopts, v
      <4>. QED BY <1>2, <3>2, <4>4, <4>6 DEF Moved
    <3>. QED BY <3>3, <3>4
  <2>. QED BY <2>2, <2>3
<1>19. CASE CancelDone
  <2>0. press.op = "cancel"
    BY <1>19 DEF CancelDone
  <2>1. CASE press.res = Failed
    BY <1>3, <1>7, <1>19, <2>0, <2>1 DEF CancelDone
  <2>2. CASE press.res # Failed
    <3>1. ClearActive
      BY <1>19, <2>2 DEF CancelDone
    <3>2. CASE view.page = "dashboard"
      BY <1>3, <1>7, <1>19, <2>0, <2>2, <3>1, <3>2 DEF CancelDone
    <3>3. CASE view.page # "dashboard"
      BY <1>3, <1>5, <1>19, <2>2, <3>1, <3>3 DEF CancelDone
    <3>. QED BY <3>2, <3>3
  <2>. QED BY <2>1, <2>2
<1>20. CASE Started
  <2>1. CASE /\ press.res.status \in {"failed", "none"}
             /\ press' = NoPress /\ UNCHANGED <<view, call, stream, poll, store>>
    BY <1>3, <1>7, <2>1
  <2>2. CASE /\ press.res.status = "conflict" /\ press' = [press EXCEPT !.op = "conflict", !.res = Sent]
             /\ UNCHANGED <<view, call, stream, poll, store>>
    <3>1. press.op \in {"create", "conflict"}
      BY <1>20 DEF Started
    <3>. QED BY <1>2, <1>3, <2>2, <3>1 DEF Stays
  <2>3. CASE SetActive(press.res.id) /\ Matching(press.res.id, press.res.id, NoPress)
    BY <1>3, <1>6, <1>8, <2>3
  <2>. QED BY <1>20, <2>1, <2>2, <2>3 DEF Started
<1>21. CASE Leave \/ Close
  <2>1. PICK p \in Away, q \in {press, NoPress} :
           Show(View(p, 0, view.nav), q) /\ call' = NoCall /\ UNCHANGED store
    BY <1>21 DEF Leave, Close, Away
  <2>2. GoesAway /\ PressKept /\ HearsOn
    BY <1>1, <1>4, <2>1, ShowKeeps DEF GoesAway
  <2>. QED BY <1>2, <1>3, <2>1, <2>2 DEF Moved
<1>22. CASE Visit
  <2>1. CASE Dashboard(press)
    BY <1>3, <1>5, <1>22, <2>1 DEF Visit
  <2>2. ASSUME NEW n \in {0, view.nav}, Matching(n, FirstKnown(n), press) PROVE Moved
    <3>1. n \in Named /\ FirstKnown(n) \in Named
      BY <1>1, <2>2 DEF FirstKnown
    <3>. QED BY <1>3, <1>6, <1>22, <2>2, <3>1 DEF Visit, Away
  <2>. QED BY <1>22, <2>1, <2>2 DEF Visit
<1>. QED
  BY <1>9, <1>10, <1>11, <1>13, <1>14, <1>16, <1>17, <1>18, <1>19, <1>20, <1>21, <1>22 DEF PageStep

-----------------------------------------------------------------------------
(* Rows, in every step *)

(* The rows age, and what happens behind a page that is there is noted: a   *)
(* request is made by its button or by a late call, disconnected by a late  *)
(* call, and reconnected by a late call or by the page.                     *)
RowMoves(i) ==
    /\ Ages(row[i], row'[i])
    /\ row'[i].session # "none" => row[i].session # "none" \/ row'[i].status = "MATCHED"
    /\ row'[i].disc => row[i].disc \/ <<"late", i>> \in doubted' \/ view.page \in Away
    /\ row'[i].disc => row[i].disc \/ \E c \in late : c.id = i
    /\ row[i].disc /\ row[i].status = "PENDING" /\ row'[i].status = "PENDING" =>
         \/ row'[i].disc \/ <<"late", i>> \in doubted' \/ view.page \in Away
         \/ call.op = "reconnect" /\ call.id = i /\ call.res = Sent /\ call'.res # Sent
    /\ row[i].status = "FREE" /\ row'[i].status = "PENDING" =>
         \/ <<"left", i>> \in doubted' \/ view.page \in Away
         \/ press'.op \notin {"none", "cancel"} /\ press'.res = Told(i, "PENDING")

(* Only a page that is left leaves calls behind. *)
LateMoves ==
    \A c \in late' :
        \/ c \in late
        \/ /\ view'.page \in Away
           /\ c \in LateCalls /\ c.id \in Named /\ (c.op # "create" => c.id # 0)

RowsMove ==
    /\ row' \in [Requests -> Rows] /\ InOrder(row')
    /\ doubted \subseteq doubted' /\ doubted' \subseteq Doubts
    /\ \A i \in Requests : RowMoves(i)
    /\ latest' \in Ids /\ untold' \subseteq Requests
    /\ latest' # latest => latest' \in Requests /\ row'[latest'].status = "MATCHED"
    /\ faults' \in {faults, faults + 1}
    /\ LateMoves

LEMMA RowsSame ==
  ASSUME BaseInv, UNCHANGED <<row, latest, untold>>, faults' \in {faults, faults + 1},
         doubted \subseteq doubted', doubted' \subseteq Doubts, LateMoves
  PROVE  RowsMove
<1>1. \A i \in Requests : RowMoves(i)
  BY DEF RowMoves, Ages
<1>. QED BY <1>1 DEF RowsMove, BaseInv, TypeInv, RowsInOrder

LEMMA LateLeft ==
  ASSUME BaseInv, Leave \/ Close
  PROVE  LateMoves
<1>1. view'.page \in Away
  BY DEF Leave, Close, Show, View, Away
<1>2. ASSUME NEW c \in Orphan PROVE c \in LateCalls /\ c.id \in Named /\ c.id # 0
  <2>1. c = [op |-> "reconnect", id |-> call.id] /\ call = Ask("reconnect", call.id)
    BY <1>2 DEF Orphan
  <2>2. call.op = "reconnect"
    BY <2>1 DEF Ask
  <2>3. view.id = call.id /\ view.page = "matching"
    BY <2>2 DEF BaseInv, CallFits
  <2>4. call.id \in Requests
    BY <2>2, <2>3, WatchedIsNamed
  <2>. QED BY <2>1, <2>4, NamedTypes DEF LateCalls, LateOps, BaseInv, IdsAreNamed, Requests
<1>3. ASSUME press.op \notin {"none", "conflict"}, NEW c, c = [op |-> press.op, id |-> press.id]
      PROVE  c \in LateCalls /\ c.id \in Named /\ (c.op # "create" => c.id # 0)
  BY <1>3, NamedTypes DEF LateCalls, LateOps, BaseInv, IdsAreNamed, TypeInv, Presses, PressOps
<1>4. ASSUME Watches(view), NEW c, c = [op |-> "disconnect", id |-> view.id]
      PROVE  c \in LateCalls /\ c.id \in Named /\ c.id # 0
  <2>1. view.id \in Requests /\ view.id \in Named
    BY <1>4, WatchedIsNamed DEF Watches, BaseInv, CallFits, IdsAreNamed
  <2>. QED BY <1>4, <2>1, NamedTypes DEF LateCalls, LateOps, Requests
<1>5. ASSUME NEW c \in late' PROVE c \in late \/ (c \in LateCalls /\ c.id \in Named /\ (c.op # "create" => c.id # 0))
  BY <1>2, <1>3, <1>4, <1>5 DEF Leave, Close
<1>. QED BY <1>1, <1>5 DEF LateMoves

LEMMA LateStays == ASSUME late' \subseteq late PROVE LateMoves
  BY DEF LateMoves

LEMMA RowSteps ==
  ASSUME BaseInv, [Next]_vars
  PROVE  RowsMove
<1>0. /\ TypeInv /\ InOrder(row) /\ row \in [Requests -> Rows] /\ latest \in Ids /\ untold \subseteq Requests
      /\ doubted \subseteq Doubts /\ press \in Presses /\ late \subseteq LateCalls
      /\ \A i \in Requests : row[i] \in Rows
  BY DEF BaseInv, TypeInv, RowsInOrder
<1>1. CASE UNCHANGED vars \/ StreamReads \/ StreamOpens \/ StreamEvent \/ StreamRetries \/ Polling
           \/ StreamBreaks \/ Fail \/ StartMatching \/ AcceptFallback \/ CancelSearch \/ Visit
           \/ SessionChecked \/ ActiveChecked \/ Resolved \/ Booted \/ Reconnected \/ CancelDone \/ Started
  <2>1. UNCHANGED <<row, latest, untold, doubted, late>> /\ faults' \in {faults, faults + 1}
    BY <1>1 DEF vars, server, page, store, StreamReads, StreamOpens, StreamEvent, StreamRetries,
       Polling, PollDue, PollServed, PollArrives, StreamBreaks, Fail, StartMatching, AcceptFallback,
       CancelSearch, Push, Visit, SessionChecked, ActiveChecked, Resolved, Booted, Reconnected,
       CancelDone, Started, Quiet, QuietBut
  <2>. QED BY <1>0, <2>1, RowsSame, LateStays
<1>2. CASE Accepted
  <2>1. UNCHANGED <<row, latest, untold, late, faults>>
    BY <1>2 DEF Accepted, QuietBut, server
  <2>2. \/ doubted' = doubted
        \/ /\ press.res # Failed
           /\ \E why \in {"left", "card"} : doubted' = doubted \union {<<why, press.res.id>>}
    BY <1>2 DEF Accepted, AdoptedUnderCard
  <2>3. press.res # Failed => press.res.id \in Requests
    <3>1. press.op \in {"accept", "switch"} /\ press.res # Sent
      BY <1>2 DEF Accepted, Answer
    <3>2. press.res # Failed => press.res.id # 0
      BY <3>1 DEF BaseInv, AnswersFit
    <3>. QED BY <3>2, NamedTypes DEF BaseInv, IdsAreNamed
  <2>4. doubted \subseteq doubted' /\ doubted' \subseteq Doubts
    BY <1>0, <2>2, <2>3 DEF Doubts
  <2>. QED BY <1>0, <2>1, <2>4, RowsSame, LateStays
<1>3. CASE Leave \/ Close
  BY <1>0, <1>3, LateLeft, RowsSame DEF Leave, Close, server
<1>4. CASE Serve
  <2>1. UNCHANGED <<latest, untold, late, doubted, faults>>
    BY <1>4 DEF Serve
  <2>2. CASE UNCHANGED row
    BY <1>0, <2>1, <2>2, RowsSame, LateStays
  <2>3. CASE ~UNCHANGED row
    <3>1. /\ call.op = "reconnect" /\ call.res = Sent /\ row' = [row EXCEPT ![call.id].disc = FALSE]
          /\ call' = [call EXCEPT !.res = [Dto(call.id) EXCEPT !.disc = FALSE]] /\ Pending(call.id)
      BY <1>4, <2>3 DEF Serve, Answered
    <3>2. call'.res.status = "PENDING"
      BY <1>0, <3>1 DEF TypeInv, Calls, Dto, Pending
    <3>3. call'.res # Sent
      BY <3>2 DEF Sent, Reply
    <3>4. row' \in [Requests -> Rows]
      BY <1>0, <3>1 DEF Rows
    <3>5. \A i \in Requests : /\ row'[i].status = row[i].status /\ row'[i].session = row[i].session
                              /\ i # call.id => row'[i] = row[i]
                              /\ row'[i].disc => row[i].disc
      BY <1>0, <3>1 DEF Rows
    <3>6. \A i \in Requests : RowMoves(i)
      BY <3>1, <3>3, <3>5 DEF RowMoves, Ages
    <3>7. InOrder(row')
      BY <1>0, <3>5 DEF InOrder
    <3>. QED BY <1>0, <2>1, <3>4, <3>6, <3>7, LateStays DEF RowsMove
  <2>. QED BY <2>2, <2>3
<1>5. CASE ServePress
  <2>1. UNCHANGED <<latest, late, doubted, faults, view, call>> /\ press.op # "none" /\ press.res = Sent
    BY <1>5 DEF ServePress
  <2>2. PICK r \in Results(press.op, press.id) :
             /\ row' = r.rows /\ press' = [press EXCEPT !.res = r.dto]
             /\ untold' = IF r.dto.status = "CANCELLED" THEN untold \union {r.dto.id} ELSE untold
    BY <1>5 DEF ServePress
  <2> DEFINE op == press.op
             k == press.id
  <2>3. op \in PressOps \union LateOps /\ k \in Ids /\ (op \notin {"create", "conflict"} => k \in Requests)
    BY <1>0, <2>1, NamedTypes DEF Presses, BaseInv, IdsAreNamed, PressOps
  <2>4. k # 0 \/ op \in {"create", "conflict"}
    BY <2>3 DEF Requests
  <2>5. press'.op = op /\ press'.res = r.dto
    BY <1>0, <2>2 DEF Presses
  <2>6. op \notin {"none", "disconnect", "reconnect"}
    BY <1>0, <2>1 DEF Presses, PressOps
  <2>7. /\ r.rows \in [Requests -> Rows] /\ r.dto \in Answers /\ InOrder(r.rows)
        /\ \A i \in Requests : Ages(row[i], r.rows[i]) /\ r.rows[i].session \in {row[i].session, "none"}
        /\ \/ r.rows = row /\ r.dto \in {Failed, Reply("conflict"), Reply("none")}
           \/ r.rows = row /\ \E n \in Requests : Pending(n) /\ r.dto = Dto(n)
           \/ /\ op # "cancel"
              /\ \E n \in Requests : /\ row[n].status = "FREE" /\ r.rows[n] = NewRow
                                     /\ r.dto = Told(n, "PENDING")
                                     /\ \A j \in Requests \ {n} : r.rows[j].disc = row[j].disc
                                     /\ \A j \in Requests \ {n} : row[j].status = "FREE" => r.rows[j] = row[j]
           \/ /\ op = "cancel" /\ r.dto = Told(k, "CANCELLED")
              /\ r.rows[k].status = "CANCELLED" /\ ~r.rows[k].disc
              /\ \A i \in Requests \ {k} : r.rows[i] = row[i]
    BY <1>0, <2>1, <2>3, <2>4, <2>6, ResultsTypes
  <2> HIDE DEF op, k
  <2>8. \A i \in Requests : RowMoves(i)
    <3>1. CASE r.rows = row
      BY <2>2, <3>1 DEF RowMoves, Ages
    <3>2. CASE /\ op # "cancel"
               /\ \E n \in Requests : /\ row[n].status = "FREE" /\ r.rows[n] = NewRow
                                      /\ r.dto = Told(n, "PENDING")
                                      /\ \A j \in Requests \ {n} : r.rows[j].disc = row[j].disc
                                      /\ \A j \in Requests \ {n} : row[j].status = "FREE" => r.rows[j] = row[j]
      BY <2>2, <2>5, <2>6, <2>7, <3>2 DEF RowMoves, NewRow
    <3>3. CASE /\ op = "cancel"
               /\ r.rows[k].status = "CANCELLED" /\ ~r.rows[k].disc
               /\ \A i \in Requests \ {k} : r.rows[i] = row[i]
      BY <2>2, <2>7, <3>3 DEF RowMoves
    <3>. QED BY <2>7, <3>1, <3>2, <3>3
  <2>9. untold' \subseteq Requests
    <3>1. CASE r.dto \in {Failed, Reply("conflict"), Reply("none")}
      BY <1>0, <2>2, <3>1 DEF Failed, Reply
    <3>2. CASE \E n \in Requests : Pending(n) /\ r.dto = Dto(n)
      BY <1>0, <2>2, <3>2 DEF Dto, Pending
    <3>3. CASE \E n \in Requests : r.dto = Told(n, "PENDING")
      BY <1>0, <2>2, <3>3 DEF Told
    <3>4. CASE op = "cancel" /\ r.dto = Told(k, "CANCELLED")
      BY <1>0, <2>2, <2>3, <3>4 DEF Told, op, k
    <3>. QED BY <2>7, <3>1, <3>2, <3>3, <3>4
  <2>10. row' \in [Requests -> Rows] /\ InOrder(row')
    BY <2>2, <2>7
  <2>. QED BY <1>0, <2>1, <2>8, <2>9, <2>10, LateStays DEF RowsMove
<1>6. CASE ServeLate
  <2>5. PICK c \in late :
             /\ \E r \in Results(c.op, c.id) : row' = r.rows
             /\ late' = late \ {c}
             /\ doubted' = doubted \union
                   {<<IF row[i].status = "FREE" THEN "left" ELSE "late", i>> :
                       i \in {j \in Requests : row'[j] # row[j] /\ view.page \notin Away}}
             /\ UNCHANGED <<latest, untold, faults>>
    BY <1>6 DEF ServeLate
  <2>1. PICK r \in Results(c.op, c.id) : row' = r.rows
    BY <2>5
  <2>2. c.op \in PressOps \union LateOps /\ c.id \in Ids /\ c.op # "none"
        /\ (c.op \notin {"create", "conflict"} => c.id # 0)
    BY <1>0, NamedTypes DEF LateCalls, LateOps, BaseInv, IdsAreNamed
  <2>3. /\ r.rows \in [Requests -> Rows] /\ InOrder(r.rows)
        /\ \A i \in Requests : Ages(row[i], r.rows[i]) /\ r.rows[i].session \in {row[i].session, "none"}
    BY <1>0, <2>2, ResultsTypes
  <2>6. \A i \in Requests : r.rows[i].disc => row[i].disc \/ c.id = i
    <3>1. \/ r.rows = row
          \/ \E n \in Requests : /\ r.rows[n] = NewRow
                                 /\ \A k \in Requests \ {n} : r.rows[k].disc = row[k].disc
          \/ /\ r.rows[c.id].status = "CANCELLED" /\ ~r.rows[c.id].disc
             /\ \A k \in Requests \ {c.id} : r.rows[k] = row[k]
          \/ \A k \in Requests \ {c.id} : r.rows[k] = row[k]
      BY <1>0, <2>2, ResultsTypes
    <3>. QED BY <3>1 DEF NewRow
  <2>7. ASSUME NEW i \in Requests, row'[i] # row[i], view.page \notin Away
        PROVE  <<IF row[i].status = "FREE" THEN "left" ELSE "late", i>> \in doubted'
    BY <2>5, <2>7
  <2>8. c.id \in Requests => row[c.id].status # "FREE"
    BY <2>5, NamedTypes DEF BaseInv, IdsAreNamed, Named, Requests
  <2>9. doubted \subseteq doubted' /\ doubted' \subseteq Doubts
    BY <1>0, <2>5 DEF Doubts
  <2>4. ASSUME NEW i \in Requests PROVE RowMoves(i)
    <3>1. row'[i].disc => row[i].disc \/ c.id = i
      BY <2>1, <2>6
    <3>2. row'[i].disc => row[i].disc \/ <<"late", i>> \in doubted' \/ view.page \in Away
      BY <2>7, <2>8, <3>1
    <3>3. row[i].disc /\ row[i].status = "PENDING" /\ row'[i].status = "PENDING" =>
            row'[i].disc \/ <<"late", i>> \in doubted' \/ view.page \in Away
      BY <2>7
    <3>4. row[i].status = "FREE" /\ row'[i].status = "PENDING" =>
            <<"left", i>> \in doubted' \/ view.page \in Away
      BY <2>7
    <3>5. Ages(row[i], row'[i]) /\ (row'[i].session # "none" => row[i].session # "none")
      BY <2>1, <2>3
    <3>6. row'[i].disc => row[i].disc \/ \E d \in late : d.id = i
      BY <2>5, <3>1
    <3>. QED BY <3>2, <3>3, <3>4, <3>5, <3>6 DEF RowMoves
  <2>. QED BY <1>0, <2>1, <2>3, <2>4, <2>5, <2>9, LateStays DEF RowsMove
<1>7. ASSUME NEW k \in Requests, LeaveQueue(k) PROVE RowsMove
  <2>1. PICK s \in {"RECONNECT_EXPIRED", "MATCHED", "TIMED_OUT"} :
             row' = [row EXCEPT ![k].status = s, ![k].disc = FALSE]
    BY <1>7 DEF LeaveQueue
  <2>2. Pending(k) /\ untold' = untold \union {k} /\ UNCHANGED <<latest, late, doubted, faults>>
    BY <1>7 DEF LeaveQueue, page, store
  <2>3. /\ row'[k].status \in Over /\ ~row'[k].disc /\ row'[k].session = row[k].session
        /\ row' \in [Requests -> Rows] /\ \A i \in Requests \ {k} : row'[i] = row[i]
    BY <1>0, <2>1 DEF Rows, Over, Status
  <2>4. \A i \in Requests : RowMoves(i)
    BY <2>2, <2>3 DEF RowMoves, Ages, Pending, Over
  <2>5. InOrder(row')
    BY <1>0, <2>2, <2>3 DEF InOrder, Pending, Over
  <2>. QED BY <1>0, <2>2, <2>3, <2>4, <2>5, LateStays DEF RowsMove
<1>8. ASSUME NEW k \in Requests, Broadcast(k) PROVE RowsMove
  <2>1. UNCHANGED <<row, latest, late, doubted, faults>> /\ untold' \subseteq Requests
    BY <1>0, <1>8 DEF Broadcast, store
  <2>2. \A i \in Requests : RowMoves(i)
    BY <2>1 DEF RowMoves, Ages
  <2>. QED BY <1>0, <2>1, <2>2, LateStays DEF RowsMove
<1>9. ASSUME NEW k \in Requests, SessionStarts(k) \/ SessionEnds(k) PROVE RowsMove
  <2>1. PICK s \in {"active", "terminated"} : row' = [row EXCEPT ![k].session = s]
    BY <1>9 DEF SessionStarts, SessionEnds
  <2>2. /\ UNCHANGED <<untold, late, doubted, faults>> /\ latest' \in {latest, k}
        /\ row[k].status = "MATCHED"
    BY <1>9 DEF SessionStarts, SessionEnds, BaseInv, RowsInOrder
  <2>3. /\ row' \in [Requests -> Rows] /\ \A i \in Requests \ {k} : row'[i] = row[i]
        /\ row'[k].status = row[k].status /\ row'[k].disc = row[k].disc
    BY <1>0, <2>1 DEF Rows
  <2>4. \A i \in Requests : RowMoves(i)
    BY <2>2, <2>3 DEF RowMoves, Ages
  <2>5. InOrder(row')
    BY <1>0, <2>3 DEF InOrder
  <2>6. latest' \in Ids
    BY <1>0, <2>2 DEF Ids, Requests
  <2>. QED BY <1>0, <2>2, <2>3, <2>4, <2>5, <2>6, LateStays DEF RowsMove
<1>. QED
  BY <1>1, <1>2, <1>3, <1>4, <1>5, <1>6, <1>7, <1>8, <1>9
  DEF Next, PageStep, Listening, UserStep, Environment

(* What is over stays so, and ids keep their requests. *)
LEMMA RowsAge ==
  ASSUME BaseInv, RowsMove
  PROVE  /\ RowsInOrder'
         /\ Named \subseteq Named'
         /\ \A i \in Requests : row[i].status \in Over => row'[i].status = row[i].status
         /\ \A i \in Requests : row[i].status = "PENDING" => row'[i].status \in {"PENDING"} \union Over
         /\ \A d, i : Of(d, i) /\ i \in Requests => Of(d, i)'
<1>0. row \in [Requests -> Rows] /\ \A i \in Requests : row[i] \in Rows /\ row'[i] \in Rows
  BY DEF BaseInv, TypeInv, RowsMove
<1>1. \A i \in Requests : row[i].status \in Over => row'[i].status = row[i].status
  BY DEF RowsMove, RowMoves, Ages, Over
<1>2. \A i \in Requests : row[i].status = "PENDING" => row'[i].status \in {"PENDING"} \union Over
  BY DEF RowsMove, RowMoves, Ages
<1>3. \A i \in Requests : row[i].status # "FREE" => row'[i].status # "FREE"
  BY <1>0, <1>1, <1>2 DEF Rows, Status, Over
<1>4. Named \subseteq Named'
  BY <1>3 DEF Named
<1>5. RowsInOrder'
  <2>1. latest' # 0 => row'[latest'].status = "MATCHED"
    <3>1. CASE latest' = latest
      BY <1>1, <3>1 DEF BaseInv, RowsInOrder, TypeInv, Ids, Requests, Over
    <3>. QED BY <3>1 DEF RowsMove
  <2>2. \A i \in Requests : row'[i].session # "none" => row'[i].status = "MATCHED"
    BY <1>1 DEF BaseInv, RowsInOrder, RowsMove, RowMoves, Over
  <2>. QED BY <2>1, <2>2 DEF RowsInOrder, RowsMove
<1>6. \A d, i : Of(d, i) /\ i \in Requests => Of(d, i)'
  BY <1>1 DEF Of
<1>. QED BY <1>1, <1>2, <1>4, <1>5, <1>6

-----------------------------------------------------------------------------
(* The kinds of steps *)

PageStill == UNCHANGED <<view, call, stream, poll, active, last>>

(* The page only listens. *)
Listens ==
    /\ UNCHANGED <<view, call, press, active, last>>
    /\ stream' \in Streams /\ poll' \in Answers /\ HearsOfOwn'

(* What an effect awaits is answered, by the service or by a failure. *)
Gets ==
    /\ call.op # "none" /\ call.res = Sent
    /\ UNCHANGED <<view, press, stream, poll, active, last, late>>
    /\ \/ Serve
       \/ faults' = faults + 1 /\ call' = [call EXCEPT !.res = Failed] /\ UNCHANGED row

Pushes == StartMatching \/ AcceptFallback \/ CancelSearch

PressFails ==
    /\ press.op # "none" /\ press' = [press EXCEPT !.res = Failed] /\ faults' = faults + 1
    /\ PageStill /\ UNCHANGED <<row, late, doubted>>

LEMMA HearsStill ==
  ASSUME BaseInv, RowsMove, UNCHANGED <<view, stream, poll>>
  PROVE  HearsOfOwn'
<1>1. CASE ~Watches(view)
  <2>1. stream = Stream("off") /\ poll = NoPoll
    BY <1>1 DEF BaseInv, HearsOfOwn
  <2>. QED BY <1>1, <2>1 DEF HearsOfOwn, Stream, Watches
<1>2. CASE Watches(view)
  <2>1. view.id \in Requests
    BY <1>2, WatchedIsNamed DEF Watches, BaseInv, CallFits
  <2>2. \A d : Of(d, view.id) => Of(d, view.id)'
    BY <2>1, RowsAge
  <2>. QED BY <1>2, <2>2 DEF BaseInv, HearsOfOwn, Watches
<1>. QED BY <1>1, <1>2

LEMMA ListenSteps ==
  ASSUME BaseInv, RowsMove,
         \/ UNCHANGED vars \/ ServeLate \/ StreamReads \/ StreamOpens \/ StreamBreaks \/ StreamRetries
         \/ PollDue \/ PollServed \/ (\E i \in Requests : LeaveQueue(i) \/ Broadcast(i) \/ SessionStarts(i))
  PROVE  Listens
<1>0. /\ TypeInv /\ stream \in Streams /\ poll \in Answers
  BY DEF BaseInv, TypeInv
<1>1. CASE \/ UNCHANGED vars \/ ServeLate \/ (\E i \in Requests : LeaveQueue(i) \/ SessionStarts(i))
  <2>1. UNCHANGED <<view, call, press, active, last, stream, poll>>
    BY <1>1 DEF vars, page, store, ServeLate, LeaveQueue, SessionStarts
  <2>. QED BY <1>0, <2>1, HearsStill DEF Listens
<1>2. Watches(view) => view.id \in Requests /\ row[view.id].status # "FREE"
  BY WatchedIsNamed DEF Watches, BaseInv, CallFits
<1>3. Watches(view) => Dto(view.id) \in Answers /\ Of(Dto(view.id), view.id)
  <2>1. ASSUME Watches(view) PROVE Dto(view.id) \in Answers /\ Of(Dto(view.id), view.id)
    <3>1. row[view.id] \in Rows
      BY <1>0, <1>2, <2>1 DEF TypeInv
    <3>. QED BY <1>0, <1>2, <2>1, <3>1, DtoTypes DEF Of, Over, Rows, Status
  <2>. QED BY <2>1
<1>4. CASE StreamReads \/ StreamOpens \/ StreamBreaks \/ StreamRetries
  <2>1. UNCHANGED <<view, call, press, active, last, poll, row>>
    BY <1>4 DEF StreamReads, StreamOpens, StreamBreaks, StreamRetries, store, Quiet, QuietBut, server
  <2>2. Watches(view)
    BY <1>4 DEF StreamReads, StreamOpens, StreamBreaks, StreamRetries, BaseInv, HearsOfOwn, Stream
  <2>3. /\ stream' \in Streams
        /\ stream'.stage = "read" => Of(stream'.snap, view.id)
        /\ \A k \in 1..Len(stream'.wire) : Of(stream'.wire[k], view.id)
    <3>1. CASE StreamReads
      <4>1. stream' = [Stream("read") EXCEPT !.snap = Dto(view.id)]
        BY <3>1 DEF StreamReads
      <4>2. stream' = [stage |-> "read", snap |-> Dto(view.id), wire |-> <<>>]
        BY <4>1 DEF Stream
      <4>. QED BY <1>3, <2>2, <4>2 DEF Streams
    <3>2. CASE StreamOpens
      <4>1. stream' = [stream EXCEPT !.stage = "live", !.wire = <<stream.snap>>] /\ stream.stage = "read"
        BY <3>2 DEF StreamOpens
      <4>2. /\ stream'.stage = "live" /\ stream'.wire = <<stream.snap>> /\ stream.snap \in Answers
            /\ stream' \in Streams
        <5>1. stream.snap \in Answers
          BY <1>0 DEF Streams
        <5>2. <<stream.snap>> \in Seq(Answers)
          BY <5>1
        <5>. QED BY <1>0, <4>1, <5>1, <5>2 DEF Streams
      <4>3. Of(stream.snap, view.id)
        BY <4>1 DEF BaseInv, HearsOfOwn
      <4>. QED BY <4>2, <4>3
    <3>3. CASE StreamBreaks \/ StreamRetries
      <4>1. PICK s \in {"broken", "connecting"} : stream' = Stream(s)
        BY <3>3 DEF StreamBreaks, StreamRetries
      <4>2. stream' \in Streams
        BY <4>1, AnswerTypes
      <4>. QED BY <4>1, <4>2 DEF Stream
    <3>. QED BY <1>4, <3>1, <3>2, <3>3
  <2>4. poll \in {NoPoll, Sent, Failed} \/ Of(poll, view.id)
    BY DEF BaseInv, HearsOfOwn
  <2>. QED BY <1>0, <2>1, <2>2, <2>3, <2>4 DEF Listens, HearsOfOwn, Of
<1>5. CASE PollDue \/ PollServed
  <2>1. UNCHANGED <<view, call, press, active, last, stream, row>>
    BY <1>5 DEF PollDue, PollServed, store, Quiet, QuietBut, server
  <2>2. Watches(view)
    BY <1>5 DEF PollDue, PollServed, BaseInv, HearsOfOwn, NoPoll, Sent, Reply
  <2>3. poll' \in {Sent, Dto(view.id)}
    BY <1>5 DEF PollDue, PollServed
  <2>4. /\ stream.stage = "read" => Of(stream.snap, view.id)
        /\ \A k \in 1..Len(stream.wire) : Of(stream.wire[k], view.id)
    BY DEF BaseInv, HearsOfOwn
  <2>. QED BY <1>0, <1>3, <2>1, <2>2, <2>3, <2>4, AnswerTypes DEF Listens, HearsOfOwn, Of
<1>6. ASSUME NEW i \in Requests, Broadcast(i) PROVE Listens
  <2>1. UNCHANGED <<view, call, press, active, last, poll, row>>
    BY <1>6 DEF Broadcast, store
  <2>2. CASE stream.stage = "live" /\ view.id = i
    <3>1. stream' = [stream EXCEPT !.wire = Append(@, Dto(i))]
      BY <1>6, <2>2 DEF Broadcast
    <3>2. Watches(view)
      BY <2>2 DEF BaseInv, HearsOfOwn, Stream
    <3>3. /\ stream' \in Streams /\ stream'.stage = "live"
          /\ stream.wire \in Seq(Answers) /\ stream'.wire = Append(stream.wire, Dto(i))
      BY <1>0, <1>3, <2>2, <3>1, <3>2 DEF Streams
    <3>4. \A k \in 1..Len(stream'.wire) : Of(stream'.wire[k], view.id)
      BY <1>3, <2>2, <3>2, <3>3 DEF BaseInv, HearsOfOwn
    <3>5. poll \in {NoPoll, Sent, Failed} \/ Of(poll, view.id)
      BY DEF BaseInv, HearsOfOwn
    <3>. QED BY <1>0, <2>1, <3>2, <3>3, <3>4, <3>5 DEF Listens, HearsOfOwn, Of
  <2>3. CASE ~(stream.stage = "live" /\ view.id = i)
    <3>1. stream' = stream
      BY <1>6, <2>3 DEF Broadcast
    <3>. QED BY <1>0, <2>1, <3>1, HearsStill DEF Listens
  <2>. QED BY <2>2, <2>3
<1>. QED BY <1>1, <1>4, <1>5, <1>6

LEMMA StepKinds ==
  ASSUME BaseInv, RowsMove, [Next]_vars
  PROVE  Moved \/ Stays \/ Listens \/ Gets \/ Pushes \/ PressFails \/ ServePress
<1>1. CASE PageStep \/ StreamEvent \/ PollArrives \/ Leave \/ Close \/ Visit
  <2>1. UNCHANGED row
    BY <1>1 DEF PageStep, StreamEvent, PollArrives, Leave, Close, Visit, SessionChecked, ActiveChecked,
       Resolved, Booted, Reconnected, Accepted, CancelDone, Started, Quiet, QuietBut, server
  <2>. QED BY <1>1, <2>1, PageMoves
<1>2. CASE Serve
  BY <1>2 DEF Serve, Gets, store
<1>3. CASE Fail
  <2>1. CASE call.op # "none" /\ call.res = Sent /\ Answered(Failed) /\ UNCHANGED <<press, poll>>
    BY <1>3, <2>1 DEF Fail, Gets, Answered, server, store
  <2>2. CASE press.op # "none" /\ press' = [press EXCEPT !.res = Failed] /\ UNCHANGED <<call, poll>>
    BY <1>3, <2>2 DEF Fail, PressFails, PageStill, server, store
  <2>3. CASE poll = Sent /\ poll' = Failed /\ UNCHANGED <<call, press>>
    <3>1. UNCHANGED <<view, stream, active, last, row>>
      BY <1>3 DEF Fail, store, server
    <3>2. Watches(view)
      BY <2>3 DEF BaseInv, HearsOfOwn, NoPoll, Sent, Reply
    <3>3. stream \in Streams /\ poll' \in Answers
      BY <2>3, AnswerTypes DEF BaseInv, TypeInv
    <3>4. /\ stream.stage = "read" => Of(stream.snap, view.id)
          /\ \A k \in 1..Len(stream.wire) : Of(stream.wire[k], view.id)
      BY DEF BaseInv, HearsOfOwn
    <3>. QED BY <2>3, <3>1, <3>2, <3>3, <3>4 DEF Listens, HearsOfOwn, Of
  <2>. QED BY <1>3, <2>1, <2>2, <2>3 DEF Fail
<1>4. ASSUME NEW i \in Requests, SessionEnds(i) PROVE Moved \/ Listens
  <2>1. CASE view.page = "workspace" /\ view.id = i
    <3>1. Dashboard(press) /\ UNCHANGED store /\ row' = [row EXCEPT ![i].session = "terminated"]
      BY <1>4, <2>1 DEF SessionEnds
    <3>2. press \in Presses /\ View("dashboard", 0, 0) \in Views
      BY NamedTypes, ViewTypes DEF BaseInv, TypeInv
    <3>3. GoesHome /\ PressKept /\ HearsOn
      BY <3>1, <3>2, ShowKeeps DEF Dashboard, GoesHome
    <3>4. \A k \in Requests : RowsLook(k)
      BY <3>1 DEF RowsLook, BaseInv, TypeInv, Rows
    <3>5. StoreKept
      BY <3>1 DEF StoreKept, store, BaseInv, IdsAreNamed, TypeInv
    <3>. QED BY <3>3, <3>4, <3>5 DEF Moved
  <2>2. CASE ~(view.page = "workspace" /\ view.id = i)
    <3>1. UNCHANGED <<view, call, press, stream, poll, active, last>>
      BY <1>4, <2>2 DEF SessionEnds, page, store
    <3>. QED BY <3>1, HearsStill DEF Listens, BaseInv, TypeInv
  <2>. QED BY <2>1, <2>2
<1>5. CASE \/ UNCHANGED vars \/ ServeLate \/ StreamReads \/ StreamOpens \/ StreamBreaks \/ StreamRetries
           \/ PollDue \/ PollServed \/ \E i \in Requests : LeaveQueue(i) \/ Broadcast(i) \/ SessionStarts(i)
  BY <1>5, ListenSteps
<1>. QED
  BY <1>1, <1>2, <1>3, <1>4, <1>5 DEF Next, Listening, Polling, UserStep, Environment, Pushes

-----------------------------------------------------------------------------
(* What is under way belongs to what is shown *)

LEMMA NewCalls ==
  /\ NoCall \in Calls /\ NoCall.op = "none" /\ NoCall.id = 0 /\ NoCall.res = Failed
  /\ \A op \in CallOps, i \in Ids :
       /\ Ask(op, i) \in Calls /\ Ask(op, i).op = op /\ Ask(op, i).id = i /\ Ask(op, i).res = Sent
  /\ Sent.id = 0 /\ Sent.status = "sent" /\ Failed.id = 0 /\ Failed.status = "failed"
<1>1. NoCall.op = "none" /\ NoCall.id = 0 /\ NoCall.res = Failed
  BY DEF NoCall
<1>2. \A op \in CallOps, i \in Ids :
        Ask(op, i).op = op /\ Ask(op, i).id = i /\ Ask(op, i).res = Sent
  BY DEF Ask
<1>3. Sent.id = 0 /\ Sent.status = "sent" /\ Failed.id = 0 /\ Failed.status = "failed"
  BY DEF Sent, Failed, Reply
<1>. QED BY <1>1, <1>2, <1>3, AnswerTypes

LEMMA MovedTypes ==
  ASSUME BaseInv, Moved
  PROVE  /\ view' \in Views /\ view'.id \in Named /\ view'.nav \in Named
         /\ call' \in Calls /\ call'.id \in Named /\ call'.res.id \in Named
<1>0. /\ view \in Views /\ call \in Calls /\ 0 \in Named /\ Named \subseteq Ids
      /\ view.id \in Named /\ view.nav \in Named /\ press.res.id \in Named
      /\ call.id \in Named /\ call.res.id \in Named
  BY NamedTypes DEF BaseInv, TypeInv, IdsAreNamed
<1>1. \A op \in CallOps, i \in Named :
        Ask(op, i) \in Calls /\ Ask(op, i).id = i /\ Ask(op, i).res.id = 0
  BY <1>0, NewCalls
<1>2. NoCall \in Calls /\ NoCall.id = 0 /\ NoCall.res.id = 0
  BY NewCalls
<1>3. \A p \in {"dashboard", "matching", "workspace", "elsewhere", "closed"}, i, n \in Named :
        View(p, i, n) \in Views /\ View(p, i, n).id = i /\ View(p, i, n).nav = n
  <2>1. \A p \in {"dashboard", "matching", "workspace", "elsewhere", "closed"}, i, n \in Ids :
          View(p, i, n) \in Views
    BY ViewTypes
  <2>. QED BY <1>0, <2>1 DEF View
<1>4. CASE GoesHome
  BY <1>0, <1>1, <1>3, <1>4 DEF GoesHome, CallOps
<1>5. CASE OpensWorkspace
  <2>1. PICK i \in Requests : row[i].status = "MATCHED" /\ view' = View("workspace", i, 0) /\ call' = NoCall
    BY <1>5 DEF OpensWorkspace
  <2>2. i \in Named
    BY <2>1, NamedTypes
  <2>. QED BY <1>0, <1>2, <1>3, <2>1, <2>2
<1>6. CASE OpensMatching
  BY <1>0, <1>1, <1>3, <1>6 DEF OpensMatching, CallOps
<1>7. CASE Resolves
  <2>1. PICK i \in Named \ {0} : view' = [view EXCEPT !.id = i] /\ call' = Ask("get", i)
    BY <1>7 DEF Resolves
  <2>2. view' \in Views /\ view'.id = i /\ view'.nav = view.nav
    BY <1>0, <2>1 DEF Views
  <2>. QED BY <1>0, <1>1, <2>1, <2>2 DEF CallOps
<1>8. CASE Refuses \/ EndsWith("timeout", "TIMED_OUT") \/ EndsWith("reconnect", "RECONNECT_EXPIRED")
  <2>1. PICK kind \in {"timeout", "reconnect"} : view' = Card(view, kind) /\ call' = NoCall
    BY <1>8 DEF Refuses, EndsWith
  <2>2. view' \in Views
    BY <1>0, <2>1, ViewTypes
  <2>3. view'.id = view.id /\ view'.nav = view.nav
    BY <1>0, <2>1 DEF Card, Views
  <2>. QED BY <1>0, <1>2, <2>1, <2>2, <2>3
<1>9. CASE Readies
  <2>1. view' \in Views /\ view'.id = view.id /\ view'.nav = view.nav
    BY <1>0, <1>9 DEF Readies, Views
  <2>. QED BY <1>0, <1>2, <1>9, <2>1 DEF Readies
<1>10. CASE Adopts
  <2>1. view' \in Views /\ view'.id = press.res.id /\ view'.nav = view.nav
    BY <1>0, <1>10 DEF Adopts, Views
  <2>2. call' = call \/ call' = Ask("get", press.res.id)
    BY <1>10 DEF Adopts
  <2>. QED BY <1>0, <1>1, <2>1, <2>2 DEF CallOps
<1>11. CASE GoesAway
  BY <1>0, <1>2, <1>3, <1>11 DEF GoesAway, Away
<1>12. CASE AsksOn
  BY <1>0, <1>1, <1>2, <1>12 DEF AsksOn, CallOps
<1>. QED BY <1>4, <1>5, <1>6, <1>7, <1>8, <1>9, <1>10, <1>11, <1>12 DEF Moved

LEMMA MovedFits ==
  ASSUME FitInv, Moved, RowsMove
  PROVE  CallFits'
<1> USE DEF FitInv
<1>0. view \in Views /\ call \in Calls /\ CallFits /\ 0 \in Ids /\ view' \in Views
  BY MovedTypes, NamedTypes DEF BaseInv, TypeInv
<1>1. \A i \in Requests : row[i].status = "MATCHED" => row'[i].status = "MATCHED"
  BY RowsAge DEF Over
<1>2. CASE GoesHome
  <2>1. view' = View("dashboard", 0, 0) /\ call'.op = "session"
    BY <1>0, <1>2, NewCalls DEF GoesHome, CallOps
  <2>. QED BY <2>1 DEF CallFits, View
<1>3. CASE OpensWorkspace
  <2>1. PICK i \in Requests : row[i].status = "MATCHED" /\ view' = View("workspace", i, 0) /\ call' = NoCall
    BY <1>3 DEF OpensWorkspace
  <2>2. i # 0
    BY DEF Requests
  <2>. QED BY <1>1, <2>1, <2>2, NewCalls DEF CallFits, View
<1>4. CASE OpensMatching
  <2>1. PICK i \in Ids, n \in Ids : /\ view' = View("matching", i, n)
                                    /\ call' = IF i = 0 THEN Ask("resolve", 0) ELSE Ask("get", i)
    BY <1>4, NamedTypes DEF OpensMatching
  <2>2. call'.op = (IF i = 0 THEN "resolve" ELSE "get") /\ call'.id = i
    BY <1>0, <2>1, NewCalls DEF CallOps
  <2>. QED BY <2>1, <2>2 DEF CallFits, View
<1>5. CASE Resolves
  <2>1. PICK i \in Ids \ {0} : view' = [view EXCEPT !.id = i] /\ call' = Ask("get", i)
    BY <1>5, NamedTypes DEF Resolves
  <2>2. call.op = "resolve" /\ view.page = "matching"
    BY <1>0, <1>5 DEF Resolves, CallFits
  <2>3. view'.page = "matching" /\ view'.id = i
    BY <1>0, <2>1, <2>2 DEF Views
  <2>4. call'.op = "get" /\ call'.id = i
    BY <2>1, NewCalls DEF CallOps
  <2>. QED BY <2>1, <2>3, <2>4 DEF CallFits
<1>6. CASE Refuses \/ EndsWith("timeout", "TIMED_OUT") \/ EndsWith("reconnect", "RECONNECT_EXPIRED")
  <2>1. PICK kind \in {"timeout", "reconnect"} : view' = Card(view, kind) /\ call' = NoCall
    BY <1>6 DEF Refuses, EndsWith
  <2>2. view.page = "matching" /\ view.id # 0
    BY <1>0, <1>6 DEF Refuses, EndsWith, CallFits
  <2>3. view'.page = "matching" /\ view'.id = view.id /\ view'.terminal = kind
    BY <1>0, <2>1, <2>2 DEF Card, Views
  <2>. QED BY <2>1, <2>2, <2>3, NewCalls DEF CallFits
<1>7. CASE Readies
  <2>1. view.page = "matching" /\ view.id # 0 /\ call' = NoCall
    BY <1>0, <1>7 DEF Readies, CallFits
  <2>2. view'.page = "matching" /\ view'.id = view.id /\ view'.ready
    BY <1>0, <1>7, <2>1 DEF Readies, Views
  <2>. QED BY <2>1, <2>2, NewCalls DEF CallFits
<1>8. CASE Adopts
  <2>1. view.page = "matching" /\ view.ready
    BY <1>8 DEF Adopts, PressFits
  <2>2. view.id # 0 /\ press.res.id \in Ids \ {0} /\ call.op \in {"none", "get"}
    BY <1>0, <1>8, <2>1, NamedTypes DEF Adopts, CallFits, BaseInv, AnswersFit, IdsAreNamed, Calls, CallOps
  <2>3. view'.page = "matching" /\ view'.id = press.res.id /\ view'.ready
    BY <1>0, <1>8, <2>1 DEF Adopts, Views
  <2>4. CASE press.res.id = view.id
    BY <1>0, <1>8, <2>2, <2>3, <2>4 DEF Adopts, CallFits
  <2>5. CASE press.res.id # view.id
    <3>1. call' = Ask("get", press.res.id)
      BY <1>8, <2>5 DEF Adopts
    <3>2. call'.op = "get" /\ call'.id = press.res.id
      BY <2>2, <3>1, NewCalls DEF CallOps
    <3>. QED BY <2>2, <2>3, <3>2 DEF CallFits
  <2>. QED BY <2>4, <2>5
<1>9. CASE GoesAway
  <2>1. PICK p \in Away : view' = View(p, 0, view.nav) /\ call' = NoCall
    BY <1>9 DEF GoesAway
  <2>. QED BY <2>1, NewCalls DEF CallFits, View, Away
<1>10. CASE AsksOn
  <2>1. CASE call.op = "session" /\ call' = Ask("active", 0)
    <3>1. call'.op = "active"
      BY <1>0, <2>1, NewCalls DEF CallOps
    <3>. QED BY <1>0, <1>1, <1>10, <2>1, <3>1 DEF AsksOn, CallFits
  <2>2. CASE call.op = "active" /\ call' = NoCall
    BY <1>0, <1>10, <2>2, NewCalls DEF AsksOn, CallFits
  <2>3. CASE call.op = "get" /\ call.res.status = "PENDING" /\ call.res.disc /\ call' = Ask("reconnect", call.id)
    <3>1. ~view.ready /\ view.terminal = "none"
      BY <1>0, <2>3 DEF NewIsConnected, CardFits, Views
    <3>2. call'.op = "reconnect" /\ call'.id = call.id
      BY <1>0, <2>3, NewCalls DEF CallOps, Calls
    <3>3. view.page = "matching" /\ view.id = call.id /\ view.id # 0 /\ view' = view
      BY <1>0, <1>10, <2>3 DEF CallFits, AsksOn
    <3>. QED BY <3>1, <3>2, <3>3 DEF CallFits
  <2>. QED BY <1>10, <2>1, <2>2, <2>3 DEF AsksOn
<1>. QED BY <1>2, <1>3, <1>4, <1>5, <1>6, <1>7, <1>8, <1>9, <1>10 DEF Moved

(* What an effect, a button and the listeners await, each with its types,  *)
(* its names and its answers.                                              *)
CallAnswers ==
    /\ call.res = Sent \/ call.res.status # "sent"
    /\ call.op = "get" => call.res \in {Sent, Failed} \/ Of(call.res, call.id)
    /\ call.op = "reconnect" =>
         call.res \in {Sent, Failed} \/ (call.res.status = "PENDING" /\ ~call.res.disc)
    /\ call.op = "session" /\ call.res.status = "active" =>
         call.res.id # 0 /\ row[call.res.id].status = "MATCHED"
    /\ call.op \in {"active", "resolve"} /\ call.res.status = "PENDING" => call.res.id # 0

CallGood ==
    /\ view \in Views /\ view.id \in Named /\ view.nav \in Named
    /\ call \in Calls /\ call.id \in Named /\ call.res.id \in Named
    /\ CallFits /\ CallAnswers

PressGood ==
    /\ press \in Presses /\ press.id \in Named /\ press.res.id \in Named
    /\ press.op \in {"accept", "switch", "cancel"} => press.id # 0
    /\ press.op # "none" /\ press.res.status = "PENDING" => press.res.id # 0
    /\ press.op \in {"accept", "switch"} =>
         press.res \in {Sent, Failed} \/ press.res.status = "PENDING"

HearsGood == stream \in Streams /\ poll \in Answers /\ HearsOfOwn

StoreGood ==
    /\ active \in Named /\ last \in Named /\ (active = 0 \/ last = 0)
    /\ late \subseteq LateCalls
    /\ \A c \in late : c.id \in Named /\ (c.op # "create" => c.id # 0)

LEMMA BaseParts ==
  /\ BaseInv => CallGood /\ PressGood /\ HearsGood /\ StoreGood
  /\ /\ CallGood /\ PressGood /\ HearsGood /\ StoreGood /\ RowsInOrder
     /\ row \in [Requests -> Rows] /\ latest \in Ids /\ untold \subseteq Requests
     /\ doubted \subseteq Doubts /\ faults \in Nat
     => BaseInv
<1>1. Named \subseteq Ids
  BY NamedTypes
<1>2. ASSUME BaseInv PROVE CallGood /\ PressGood /\ HearsGood /\ StoreGood
  <2>1. CallAnswers
    BY <1>2 DEF BaseInv, AnswersFit, CallAnswers
  <2>2. CallGood
    BY <1>2, <2>1 DEF BaseInv, TypeInv, IdsAreNamed, CallGood
  <2>3. PressGood
    BY <1>2 DEF BaseInv, TypeInv, IdsAreNamed, AnswersFit, PressGood
  <2>4. HearsGood /\ StoreGood
    BY <1>2 DEF BaseInv, TypeInv, IdsAreNamed, HearsGood, StoreGood
  <2>. QED BY <2>2, <2>3, <2>4
<1>3. ASSUME CallGood, PressGood, HearsGood, StoreGood, RowsInOrder,
             row \in [Requests -> Rows], latest \in Ids, untold \subseteq Requests,
             doubted \subseteq Doubts, faults \in Nat
      PROVE  BaseInv
  <2>1. TypeInv
    BY <1>1, <1>3 DEF CallGood, PressGood, HearsGood, StoreGood, TypeInv
  <2>2. IdsAreNamed
    BY <1>3 DEF CallGood, PressGood, StoreGood, IdsAreNamed
  <2>3. AnswersFit
    BY <1>3 DEF CallGood, CallAnswers, PressGood, AnswersFit
  <2>. QED BY <1>3, <2>1, <2>2, <2>3 DEF BaseInv, CallGood, HearsGood
<1>. QED BY <1>2, <1>3

LEMMA CallStill ==
  ASSUME BaseInv, RowsMove, UNCHANGED <<view, call>>
  PROVE  CallGood'
<1>1. CallGood /\ Named \subseteq Named'
  BY BaseParts, RowsAge
<1>2. \A i \in Requests : row[i].status = "MATCHED" => row'[i].status = "MATCHED"
  BY RowsAge DEF Over
<1>3. CallFits'
  <2>1. view.id # 0 => view.id \in Requests
    BY <1>1, NamedTypes DEF CallGood
  <2>. QED BY <1>1, <1>2, <2>1 DEF CallGood, CallFits
<1>4. CallAnswers'
  <2>1. call.op = "get" => call.id \in Requests
    BY <1>1, NamedTypes DEF CallGood, CallFits
  <2>2. \A d : \A i \in Requests : Of(d, i) => Of(d, i)'
    BY RowsAge
  <2>3. call.op = "get" => call.res \in {Sent, Failed} \/ Of(call.res, call.id)'
    BY <1>1, <2>1, <2>2 DEF CallGood, CallAnswers
  <2>4. call.res.id # 0 => call.res.id \in Requests
    BY <1>1, NamedTypes DEF CallGood
  <2>5. call.op = "session" /\ call.res.status = "active" =>
           call.res.id # 0 /\ row'[call.res.id].status = "MATCHED"
    BY <1>1, <1>2, <2>4 DEF CallGood, CallAnswers
  <2>. QED BY <1>1, <2>3, <2>5 DEF CallGood, CallAnswers, Of
<1>. QED BY <1>1, <1>3, <1>4 DEF CallGood

LEMMA CallMoved ==
  ASSUME FitInv, RowsMove, Moved
  PROVE  CallGood'
<1>1. BaseInv /\ Named \subseteq Named'
  BY RowsAge DEF FitInv
<1>2. \/ call' = NoCall \/ call' = call
      \/ \E op \in CallOps, i \in Ids : call' = Ask(op, i)
  <2>1. Named \subseteq Ids /\ 0 \in Ids /\ press.res.id \in Ids /\ call.id \in Ids
    BY <1>1, NamedTypes DEF BaseInv, IdsAreNamed
  <2>. QED BY <2>1 DEF Moved, GoesHome, OpensWorkspace, OpensMatching, Resolves, EndsWith, Refuses,
              Readies, Adopts, GoesAway, AsksOn, CallOps
<1>3. CallAnswers'
  <2>1. CASE call' = NoCall
    BY <2>1, NewCalls DEF CallAnswers
  <2>2. CASE \E op \in CallOps, i \in Ids : call' = Ask(op, i)
    <3>1. call'.res = Sent /\ call'.res.status = "sent"
      BY <2>2, NewCalls
    <3>. QED BY <3>1 DEF CallAnswers
  <2>3. CASE call' = call
    <3>1. \A i \in Requests : row'[i].status = row[i].status
      BY DEF Moved, RowsLook
    <3>2. CallGood
      BY <1>1, BaseParts
    <3>3. call.op = "get" => call.id \in Requests
      BY <3>2, NamedTypes DEF CallGood, CallFits
    <3>4. \A i \in Requests : Of(call.res, i) => Of(call.res, i)'
      BY <2>3, <3>1 DEF Of
    <3>5. call.op = "get" => call.res \in {Sent, Failed} \/ Of(call.res, call.id)'
      BY <2>3, <3>2, <3>3, <3>4 DEF CallGood, CallAnswers
    <3>6. call.res.id # 0 => call.res.id \in Requests
      BY <3>2, NamedTypes DEF CallGood
    <3>7. call.op = "session" /\ call.res.status = "active" =>
             call.res.id # 0 /\ row'[call.res.id].status = "MATCHED"
      BY <3>1, <3>2, <3>6 DEF CallGood, CallAnswers
    <3>. QED BY <2>3, <3>2, <3>5, <3>7 DEF CallGood, CallAnswers, Of
  <2>. QED BY <1>2, <2>1, <2>2, <2>3
<1>. QED BY <1>1, <1>3, MovedTypes, MovedFits DEF CallGood

(* The answers of the service, or of a failure, to the effect that waits. *)
GetAnswer(d) ==
    \/ d = Failed
    \/ call.op = "session" /\ d = LatestSession /\ UNCHANGED row
    \/ call.op \in {"active", "resolve"} /\ d = ActiveRow /\ UNCHANGED row
    \/ call.op = "get" /\ d = Dto(call.id) /\ UNCHANGED row
    \/ call.op = "reconnect" /\ d = [Dto(call.id) EXCEPT !.disc = FALSE] /\ Pending(call.id)

LEMMA GetAnswers ==
  ASSUME BaseInv, Gets
  PROVE  \E d : /\ GetAnswer(d) /\ d \in Answers /\ d.id \in Named /\ d.status # "sent"
                /\ call' = [call EXCEPT !.res = d]
<1>1. PICK d : GetAnswer(d) /\ call' = [call EXCEPT !.res = d]
  BY DEF Gets, Serve, Answered, GetAnswer
<1>2. /\ CallGood /\ TypeInv /\ RowsInOrder /\ 0 \in Named
      /\ call.op \in {"get", "reconnect"} => call.id \in Requests /\ row[call.id].status # "FREE"
  BY BaseParts, NamedTypes DEF CallGood, CallFits, BaseInv
<1>3. d \in Answers /\ d.id \in Named /\ d.status # "sent"
  <2>1. CASE d = Failed
    BY <1>2, <2>1, AnswerTypes DEF Failed, Reply
  <2>2. CASE d = LatestSession
    <3>1. CASE latest = 0
      <4>1. d = Reply("none")
        BY <2>2, <3>1 DEF LatestSession
      <4>. QED BY <1>2, <4>1, AnswerTypes DEF Reply
    <3>2. CASE latest # 0
      <4>1. d = [id |-> latest, status |-> row[latest].session, disc |-> FALSE]
        BY <2>2, <3>2 DEF LatestSession
      <4>2. latest \in Requests /\ row[latest] \in Rows /\ row[latest].status = "MATCHED"
        BY <1>2, <3>2 DEF TypeInv, Ids, Requests, RowsInOrder
      <4>3. latest \in Named /\ latest \in Ids
        BY <4>2, NamedTypes
      <4>. QED BY <4>1, <4>2, <4>3 DEF Answers, Rows
    <3>. QED BY <3>1, <3>2
  <2>3. CASE d = ActiveRow
    <3>1. CASE d = Reply("none")
      BY <1>2, <3>1, AnswerTypes DEF Reply
    <3>2. ASSUME NEW i \in Requests, Pending(i), d = Dto(i)
          PROVE  d \in Answers /\ d.id \in Named /\ d.status # "sent"
      BY <1>2, <3>2, DtoTypes, NamedTypes DEF Pending
    <3>. QED BY <1>2, <2>3, <3>1, <3>2, ActiveRowTypes
  <2>4. CASE call.op = "get" /\ d = Dto(call.id)
    <3>1. row[call.id] \in Rows
      BY <1>2, <2>4 DEF TypeInv
    <3>. QED BY <1>2, <2>4, <3>1, DtoTypes, NamedTypes DEF Rows, Status
  <2>5. CASE call.op = "reconnect" /\ d = [Dto(call.id) EXCEPT !.disc = FALSE]
    <3>1. row[call.id] \in Rows
      BY <1>2, <2>5 DEF TypeInv
    <3>2. d \in Answers /\ d.id = call.id /\ d.status = row[call.id].status
      BY <1>2, <2>5, DtoTypes DEF Answers
    <3>. QED BY <1>2, <2>5, <3>1, <3>2, NamedTypes DEF Rows, Status
  <2>. QED BY <1>1, <2>1, <2>2, <2>3, <2>4, <2>5 DEF GetAnswer
<1>. QED BY <1>1, <1>3

LEMMA CallAnswered ==
  ASSUME BaseInv, RowsMove, Gets
  PROVE  CallGood'
<1>1. PICK d : /\ GetAnswer(d) /\ d \in Answers /\ d.id \in Named /\ d.status # "sent"
               /\ call' = [call EXCEPT !.res = d]
  BY GetAnswers
<1>2. /\ CallGood /\ TypeInv /\ Named \subseteq Named' /\ view' = view /\ RowsInOrder
      /\ call.op # "none"
  BY BaseParts, RowsAge DEF Gets, BaseInv
<1>3. call' \in Calls /\ call'.op = call.op /\ call'.id = call.id /\ call'.res = d
  BY <1>1, <1>2 DEF CallGood, Calls
<1>4. CallFits'
  <2>1. view.id # 0 => view.id \in Requests
    BY <1>2, NamedTypes DEF CallGood
  <2>2. \A i \in Requests : row[i].status = "MATCHED" => row'[i].status = "MATCHED"
    BY RowsAge DEF Over
  <2>. QED BY <1>2, <1>3, <2>1, <2>2 DEF CallGood, CallFits
<1>5. CallAnswers'
  <2>1. call.op = "get" => d = Failed \/ Of(d, call.id)'
    <3>1. ASSUME call.op = "get", d = Dto(call.id), UNCHANGED row PROVE Of(d, call.id)'
      <4>1. call.id \in Requests /\ row[call.id].status # "FREE" /\ row[call.id] \in Rows
        BY <1>2, <3>1, NamedTypes DEF CallGood, CallFits, TypeInv
      <4>2. d.id = call.id /\ d.status = row[call.id].status
        BY <1>2, <3>1, <4>1, DtoTypes
      <4>3. row' = row /\ call'.id = call.id
        BY <1>3, <3>1
      <4>. QED BY <4>1, <4>2, <4>3 DEF Of, Over, Rows, Status
    <3>. QED BY <1>1, <3>1 DEF GetAnswer
  <2>2. call.op = "reconnect" => d = Failed \/ (d.status = "PENDING" /\ ~d.disc)
    <3>1. ASSUME call.op = "reconnect", d = [Dto(call.id) EXCEPT !.disc = FALSE], Pending(call.id)
          PROVE  d.status = "PENDING" /\ ~d.disc
      BY <3>1 DEF Dto, Pending
    <3>. QED BY <1>1, <3>1 DEF GetAnswer
  <2>3. call.op = "session" /\ d.status = "active" => d.id # 0 /\ row'[d.id].status = "MATCHED"
    <3>1. ASSUME call.op = "session", d.status = "active"
          PROVE  d.id # 0 /\ row'[d.id].status = "MATCHED"
      <4>1. d = LatestSession /\ UNCHANGED row
        BY <1>1, <3>1 DEF GetAnswer, Failed, Reply
      <4>2. latest # 0
        BY <3>1, <4>1 DEF LatestSession, Reply
      <4>3. d.id = latest
        BY <4>1, <4>2 DEF LatestSession
      <4>. QED BY <1>2, <4>1, <4>2, <4>3 DEF RowsInOrder
    <3>. QED BY <3>1
  <2>4. call.op \in {"active", "resolve"} /\ d.status = "PENDING" => d.id # 0
    <3>1. ASSUME call.op \in {"active", "resolve"}, d.status = "PENDING" PROVE d.id # 0
      <4>1. d = ActiveRow
        BY <1>1, <3>1 DEF GetAnswer, Failed, Reply
      <4>2. PICK i \in Requests : d = Dto(i)
        BY <1>2, <3>1, <4>1, ActiveRowTypes DEF Reply
      <4>. QED BY <4>2 DEF Dto, Requests
    <3>. QED BY <3>1
  <2>. QED BY <1>1, <1>3, <2>1, <2>2, <2>3, <2>4 DEF CallAnswers, Of
<1>. QED BY <1>1, <1>2, <1>3, <1>4, <1>5 DEF CallGood

(* The kept or the finished button, by a move or without one. *)
LEMMA PressMoved ==
  ASSUME BaseInv, RowsMove, Moved \/ Stays \/ Listens \/ Gets
  PROVE  /\ PressGood'
         /\ press'.op # "none" =>
              \/ press'.op = "conflict" /\ press'.res = Sent
              \/ /\ press'.op = press.op /\ press'.id = press.id /\ press'.card = press.card
                 /\ press'.res = press.res
                 /\ press'.live => press.live /\ view'.page = view.page
<1>1. PressGood /\ 0 \in Named' /\ Named \subseteq Named'
  BY BaseParts, RowsAge, NamedTypes
<1>2. NoPress \in Presses /\ NoPress.op = "none" /\ NoPress.id = 0 /\ NoPress.res.id = 0
  BY AnswerTypes DEF NoPress, Failed, Reply
<1>3. CASE UNCHANGED press /\ UNCHANGED view
  BY <1>1, <1>3 DEF PressGood
<1>4. CASE press.op \in {"create", "conflict"} /\ press' = [press EXCEPT !.op = "conflict", !.res = Sent]
  <2>1. /\ press' \in Presses /\ press'.op = "conflict" /\ press'.id = press.id /\ press'.res = Sent
    BY <1>1, <1>4, AnswerTypes DEF PressGood, Presses, PressOps
  <2>. QED BY <1>1, <2>1, NewCalls DEF PressGood
<1>5. CASE press' = NoPress
  BY <1>1, <1>2, <1>5 DEF PressGood
<1>6. CASE PressKept
  <2>1. CASE press' \in Presses /\ press'.op = "none" /\ press'.id = 0 /\ press'.res.id = 0
    BY <1>1, <2>1 DEF PressGood
  <2>2. CASE /\ press' \in Presses
             /\ press'.op = press.op /\ press'.id = press.id /\ press'.card = press.card
             /\ press'.res = press.res
             /\ press'.live => press.live /\ view'.page = view.page
    BY <1>1, <2>2 DEF PressGood
  <2>. QED BY <1>6, <2>1, <2>2 DEF PressKept
<1>. QED BY <1>3, <1>4, <1>5, <1>6 DEF Moved, Stays, Listens, Gets

LEMMA PressMade ==
  ASSUME FitInv, RowsMove, Pushes
  PROVE  /\ PressGood' /\ press.op = "none" /\ press'.res = Sent /\ press'.live
         /\ UNCHANGED <<view, call, stream, poll, active, last, row, late, doubted, faults>>
         /\ press'.card = (view.terminal = "timeout")
         /\ press'.op = "create"
            \/ /\ press'.op \in {"accept", "switch", "cancel"}
               /\ press'.id = view.id /\ view.page = "matching" /\ view.ready
               /\ press'.op = "cancel" => Watches(view)
<1>0. CallGood /\ 0 \in Named /\ Named \subseteq Ids /\ Named \subseteq Named' /\ CardFits
  BY BaseParts, NamedTypes, RowsAge DEF FitInv
<1>1. PICK op \in {"create", "accept", "switch", "cancel"}, i \in Named :
           /\ Push(op, i)
           /\ op = "create" => i = 0
           /\ op # "create" => i = view.id /\ (Watches(view) \/ view.terminal = "timeout")
           /\ op = "cancel" => Watches(view)
  BY <1>0 DEF Pushes, StartMatching, AcceptFallback, CancelSearch, CallGood
<1>2. /\ press.op = "none"
      /\ press' = [op |-> op, id |-> i, card |-> view.terminal = "timeout", live |-> TRUE, res |-> Sent]
      /\ UNCHANGED <<view, call, stream, poll, active, last, row, late, doubted, faults>>
  BY <1>1 DEF Push, store, server
<1>3. (view.terminal = "timeout") \in BOOLEAN
  OBVIOUS
<1>4. press' \in Presses
  BY <1>0, <1>1, <1>2, <1>3, AnswerTypes DEF Presses, PressOps
<1>5. /\ press'.op = op /\ press'.id = i /\ press'.res = Sent /\ press'.live
      /\ press'.card = (view.terminal = "timeout")
  BY <1>2
<1>6. op # "create" => i # 0 /\ view.page = "matching" /\ view.ready
  <2>1. ASSUME op # "create" PROVE view.page = "matching" /\ view.ready
    <3>1. CASE Watches(view)
      BY <3>1 DEF Watches
    <3>2. CASE view.terminal = "timeout"
      BY <1>0, <3>2 DEF CallGood, CallFits, CardFits
    <3>. QED BY <1>1, <2>1, <3>1, <3>2
  <2>2. ASSUME op # "create" PROVE view.id # 0
    <3>1. call.op # "resolve"
      BY <1>0, <2>1, <2>2 DEF CallGood, CallFits
    <3>. QED BY <1>0, <2>1, <2>2, <3>1 DEF CallGood, CallFits
  <2>. QED BY <1>1, <2>1, <2>2
<1>7. PressGood'
  BY <1>0, <1>1, <1>4, <1>5, <1>6, NewCalls DEF PressGood
<1>. QED BY <1>1, <1>2, <1>5, <1>6, <1>7

LEMMA PressFailed ==
  ASSUME BaseInv, RowsMove, PressFails
  PROVE  /\ PressGood' /\ press'.res = Failed
         /\ press'.op = press.op /\ press'.id = press.id /\ press'.card = press.card
         /\ press'.live = press.live
<1>1. PressGood /\ 0 \in Named' /\ Named \subseteq Named' /\ press' = [press EXCEPT !.res = Failed]
  BY BaseParts, RowsAge, NamedTypes DEF PressFails
<1>2. /\ press' \in Presses /\ press'.op = press.op /\ press'.id = press.id
      /\ press'.card = press.card /\ press'.live = press.live /\ press'.res = Failed
  BY <1>1, AnswerTypes DEF PressGood, Presses
<1>. QED BY <1>1, <1>2, NewCalls DEF PressGood

(* What the service tells a button: of a request that is pending already,   *)
(* of a new one, or of none.                                               *)
PressAnswer(d) ==
    \/ d \in {Failed, Reply("conflict"), Reply("none")}
    \/ press.op = "conflict" /\ \E n \in Requests : Pending(n) /\ d = Dto(n)
    \/ press.op = "accept" /\ Pending(press.id) /\ d = Dto(press.id)
    \/ /\ press.op \in {"create", "accept", "switch"}
       /\ \E n \in Requests : /\ row[n].status = "FREE" /\ row'[n] = NewRow /\ d = Told(n, "PENDING")
       /\ press.op # "create" => row'[press.id].status \in {"CANCELLED", "TIMED_OUT"}
    \/ press.op = "cancel" /\ d = Told(press.id, "CANCELLED")

LEMMA PressServed ==
  ASSUME BaseInv, RowsMove, ServePress
  PROVE  /\ PressGood' /\ press.op # "none" /\ press.res = Sent
         /\ press'.op = press.op /\ press'.id = press.id /\ press'.card = press.card
         /\ press'.live = press.live
         /\ PressAnswer(press'.res)
         /\ UNCHANGED <<late, view, call, stream, poll, active, last, doubted, faults>>
<1>0. /\ TypeInv /\ InOrder(row) /\ PressGood /\ 0 \in Named /\ Named \subseteq Named'
      /\ press.op # "none" /\ press.res = Sent /\ \A i \in Requests : row[i] \in Rows
  BY BaseParts, NamedTypes, RowsAge DEF BaseInv, RowsInOrder, ServePress, TypeInv
<1>1. PICK r \in Results(press.op, press.id) : row' = r.rows /\ press' = [press EXCEPT !.res = r.dto]
  BY DEF ServePress
<1> DEFINE op == press.op
           k == press.id
<1>2. op \in PressOps \union LateOps /\ op # "none" /\ k \in Ids /\ op \notin {"disconnect", "reconnect"}
      /\ (op \notin {"create", "conflict"} => k # 0)
  BY <1>0 DEF PressGood, Presses, PressOps
<1>3. /\ r.dto \in Answers
      /\ \/ r.dto \in {Failed, Reply("conflict"), Reply("none")}
            /\ (op \in {"accept", "switch"} => r.dto = Failed)
         \/ op = "conflict" /\ \E n \in Requests : Pending(n) /\ r.dto = Dto(n)
         \/ op = "accept" /\ Pending(k) /\ r.dto = Dto(k)
         \/ /\ op \in {"create", "accept", "switch"}
            /\ \E n \in Requests : row[n].status = "FREE" /\ r.rows[n] = NewRow /\ r.dto = Told(n, "PENDING")
            /\ op # "create" => r.rows[k].status \in {"CANCELLED", "TIMED_OUT"}
         \/ op = "cancel" /\ r.dto = Told(k, "CANCELLED")
  BY <1>0, <1>2, ResultsTypes
<1>4. /\ press' \in Presses /\ press'.op = op /\ press'.id = k /\ press'.card = press.card
      /\ press'.live = press.live /\ press'.res = r.dto
  BY <1>0, <1>1, <1>3 DEF PressGood, Presses
<1>5. PressAnswer(r.dto)
  BY <1>1, <1>3 DEF PressAnswer
<1>6. /\ r.dto.id \in Named'
      /\ r.dto.status = "PENDING" => r.dto.id # 0
      /\ op \in {"accept", "switch"} => r.dto = Failed \/ r.dto.status = "PENDING"
                                        \/ r.dto \in {Reply("conflict"), Reply("none")}
  <2>1. CASE r.dto \in {Failed, Reply("conflict"), Reply("none")}
    <3>1. r.dto.id = 0 /\ r.dto.status # "PENDING"
      BY <2>1 DEF Failed, Reply
    <3>. QED BY <1>0, <2>1, <3>1
  <2>2. ASSUME NEW n \in Requests, Pending(n), r.dto = Dto(n)
        PROVE  r.dto.id \in Named' /\ r.dto.id # 0 /\ r.dto.status = "PENDING"
    BY <1>0, <2>2, NamedTypes DEF Dto, Pending, Requests
  <2>3. ASSUME NEW n \in Requests, row'[n] = NewRow, r.dto = Told(n, "PENDING")
        PROVE  r.dto.id \in Named' /\ r.dto.id # 0 /\ r.dto.status = "PENDING"
    BY <2>3 DEF Told, NewRow, Named, Requests
  <2>4. CASE op = "cancel" /\ r.dto = Told(k, "CANCELLED")
    BY <1>0, <2>4 DEF Told, PressGood
  <2>5. op = "accept" => k \in Requests
    BY <1>2 DEF Ids, Requests
  <2>. QED BY <1>1, <1>3, <2>1, <2>2, <2>3, <2>4, <2>5
<1>7. op \in {"accept", "switch"} => r.dto = Failed \/ r.dto.status = "PENDING"
  <2>1. ASSUME op \in {"accept", "switch"} PROVE r.dto = Failed \/ r.dto.status = "PENDING"
    <3>3. CASE Pending(k) /\ r.dto = Dto(k)
      BY <3>3 DEF Dto, Pending
    <3>4. CASE \E n \in Requests : r.dto = Told(n, "PENDING")
      BY <3>4 DEF Told
    <3>. QED BY <1>3, <2>1, <3>3, <3>4
  <2>. QED BY <2>1
<1>8. PressGood'
  BY <1>0, <1>2, <1>4, <1>6, <1>7 DEF PressGood
<1>9. UNCHANGED <<late, view, call, stream, poll, active, last, doubted, faults>>
  BY DEF ServePress, store
<1>. QED BY <1>0, <1>4, <1>5, <1>8, <1>9

(* Of and Fresh, of a state function now and the rows of the next state. *)
Still(d, i) ==
    /\ d.id = i /\ d.status \in {"PENDING"} \union Over
    /\ d.status \in Over => row'[i].status = d.status

StaysFresh(i) == ~row'[i].disc /\ \A c \in late' : c.id # i

LEMMA OfStill ==
  ASSUME BaseInv, RowsMove, NEW i \in Requests
  PROVE  \A d : Of(d, i) => Still(d, i)
  BY RowsAge DEF Of, Still

LEMMA HearsStep ==
  ASSUME FitInv, RowsMove,
         Moved \/ Stays \/ Listens \/ Gets \/ Pushes \/ PressFails \/ ServePress
  PROVE  HearsGood'
<1>0. BaseInv /\ HearsGood
  BY BaseParts DEF FitInv
<1>1. CASE Listens
  BY <1>1 DEF Listens, HearsGood
<1>2. CASE UNCHANGED <<view, stream, poll>>
  BY <1>0, <1>2, HearsStill DEF HearsGood
<1>3. ASSUME poll' = NoPoll,
             stream' = Stream(IF Watches(view') THEN "connecting" ELSE "off")
      PROVE  HearsGood'
  <2>1. stream' \in Streams /\ poll' \in Answers
    BY <1>3, AnswerTypes
  <2>2. /\ stream'.stage = (IF Watches(view') THEN "connecting" ELSE "off")
        /\ stream'.wire = <<>>
    BY <1>3 DEF Stream
  <2>. QED BY <1>3, <2>1, <2>2 DEF HearsGood, HearsOfOwn
<1>4. ASSUME UNCHANGED <<stream, poll>>, Watches(view'), Watches(view), view'.id = view.id
      PROVE  HearsGood'
  <2>1. view.id \in Requests
    BY <1>0, <1>4, WatchedIsNamed DEF Watches, BaseInv, CallFits
  <2>2. \A d : Of(d, view.id) => Still(d, view.id)
    BY <1>0, <2>1, OfStill
  <2>3. /\ stream.stage = "read" => Still(stream.snap, view.id)
        /\ \A k \in 1..Len(stream.wire) : Still(stream.wire[k], view.id)
        /\ poll \in {NoPoll, Sent, Failed} \/ Still(poll, view.id)
    BY <1>0, <2>2 DEF HearsGood, HearsOfOwn
  <2>4. HearsOfOwn'
    BY <1>4, <2>3 DEF HearsOfOwn, Of, Still
  <2>. QED BY <1>0, <1>4, <2>4 DEF HearsGood
<1>5. CASE Moved
  BY <1>2, <1>3, <1>4, <1>5 DEF Moved, HearsOn
<1>6. CASE Stays /\ ~UNCHANGED <<stream, poll>>
  <2>0. UNCHANGED view /\ Watches(view)
    BY <1>0, <1>6 DEF Stays, BaseInv, HearsOfOwn, Stream
  <2>1. \A d : Of(d, view.id) => Still(d, view.id)
    BY <1>0, <2>0, WatchedIsNamed, OfStill DEF Watches, BaseInv, CallFits
  <2>5. /\ stream.stage = "read" => Still(stream.snap, view.id)
        /\ \A k \in 1..Len(stream.wire) : Still(stream.wire[k], view.id)
        /\ poll \in {NoPoll, Sent, Failed} \/ Still(poll, view.id)
    BY <1>0, <2>1 DEF HearsGood, HearsOfOwn
  <2>2. CASE poll' = NoPoll /\ UNCHANGED stream
    <3>1. HearsOfOwn'
      BY <2>0, <2>2, <2>5 DEF HearsOfOwn, Of, Still
    <3>. QED BY <1>0, <2>2, <3>1, AnswerTypes DEF HearsGood
  <2>3. CASE stream.wire # <<>> /\ stream' = [stream EXCEPT !.wire = Tail(@)] /\ UNCHANGED poll
    <3>0. stream \in Streams /\ stream.wire \in Seq(Answers) /\ stream.wire # <<>>
      BY <1>0, <2>3 DEF HearsGood, Streams
    <3>1. Tail(stream.wire) \in Seq(Answers)
      BY <3>0
    <3>2. /\ stream' \in Streams /\ stream'.stage = stream.stage /\ stream'.snap = stream.snap
          /\ stream'.wire = Tail(stream.wire)
      BY <2>3, <3>0, <3>1 DEF Streams
    <3>3. \A k \in 1..Len(stream'.wire) : Still(stream'.wire[k], view.id)
      <4>1. \A k \in 1..Len(stream'.wire) :
              k + 1 \in 1..Len(stream.wire) /\ stream'.wire[k] = stream.wire[k + 1]
        BY <3>0, <3>2
      <4>. QED BY <2>5, <4>1
    <3>4. HearsOfOwn'
      BY <2>0, <2>3, <2>5, <3>2, <3>3 DEF HearsOfOwn, Of, Still
    <3>. QED BY <1>0, <2>3, <3>2, <3>4 DEF HearsGood
  <2>. QED BY <1>6, <2>2, <2>3 DEF Stays
<1>7. CASE Gets \/ Pushes \/ PressFails \/ ServePress
  <2>1. UNCHANGED <<view, stream, poll>>
    BY <1>0, <1>7, PressMade, PressServed DEF Gets, PressFails, PageStill
  <2>. QED BY <1>2, <2>1
<1>8. CASE Stays /\ UNCHANGED <<stream, poll>>
  BY <1>2, <1>8 DEF Stays
<1>. QED BY <1>1, <1>5, <1>6, <1>7, <1>8

LEMMA StoreStep ==
  ASSUME FitInv, RowsMove,
         Moved \/ Stays \/ Listens \/ Gets \/ Pushes \/ PressFails \/ ServePress
  PROVE  StoreGood'
<1>0. BaseInv /\ StoreGood /\ Named \subseteq Named'
  BY BaseParts, RowsAge DEF FitInv
<1>1. active' \in Named /\ last' \in Named /\ (active' = 0 \/ last' = 0)
  <2>1. CASE Moved \/ Stays
    BY <2>1 DEF Moved, Stays, StoreKept
  <2>2. CASE ~(Moved \/ Stays)
    <3>1. UNCHANGED <<active, last>>
      BY <1>0, <2>2, PressMade, PressServed DEF Listens, Gets, PressFails, PageStill
    <3>. QED BY <1>0, <3>1 DEF StoreGood
  <2>. QED BY <2>1, <2>2
<1>2. late' \subseteq LateCalls /\ \A c \in late' : c.id \in Named /\ (c.op # "create" => c.id # 0)
  BY <1>0 DEF RowsMove, LateMoves, StoreGood
<1>. QED BY <1>0, <1>1, <1>2 DEF StoreGood

LEMMA BaseStep ==
  ASSUME FitInv, RowsMove,
         Moved \/ Stays \/ Listens \/ Gets \/ Pushes \/ PressFails \/ ServePress
  PROVE  BaseInv'
<1>0. BaseInv /\ faults \in Nat
  BY DEF FitInv, BaseInv, TypeInv
<1>1. CallGood'
  <2>1. CASE Moved
    BY <2>1, CallMoved
  <2>2. CASE Gets
    BY <1>0, <2>2, CallAnswered
  <2>3. CASE Stays \/ Listens \/ Pushes \/ PressFails \/ ServePress
    <3>1. UNCHANGED <<view, call>>
      BY <1>0, <2>3, PressMade, PressServed DEF Stays, Listens, PressFails, PageStill
    <3>. QED BY <1>0, <3>1, CallStill
  <2>. QED BY <2>1, <2>2, <2>3
<1>2. PressGood'
  BY <1>0, PressMoved, PressMade, PressFailed, PressServed
<1>3. HearsGood' /\ StoreGood'
  BY HearsStep, StoreStep
<1>4. RowsInOrder'
  BY <1>0, RowsAge
<1>5. /\ row' \in [Requests -> Rows] /\ latest' \in Ids /\ untold' \subseteq Requests
      /\ doubted' \subseteq Doubts /\ faults' \in Nat
  BY <1>0 DEF RowsMove
<1>6. (CallGood /\ PressGood /\ HearsGood /\ StoreGood /\ RowsInOrder
      /\ row \in [Requests -> Rows] /\ latest \in Ids /\ untold \subseteq Requests
      /\ doubted \subseteq Doubts /\ faults \in Nat
      => BaseInv)'
  BY BaseParts, PTL
<1>. QED BY <1>1, <1>2, <1>3, <1>4, <1>5, <1>6

-----------------------------------------------------------------------------
(* Buttons, new requests and cards *)

(* A fresh request stays so while there is a page. *)
LEMMA FreshStays ==
  ASSUME RowsMove, NEW i \in Requests, Fresh(i), view'.page \notin Away
  PROVE  StaysFresh(i)
<1>1. late' \subseteq late
  BY DEF RowsMove, LateMoves
<1>2. ~row'[i].disc
  BY DEF Fresh, RowsMove, RowMoves
<1>. QED BY <1>1, <1>2 DEF Fresh, StaysFresh

(* What is kept of the page by a move under which a live button stays. *)
LEMMA LiveMoves ==
  ASSUME FitInv, Moved, press.live, press.op \in {"accept", "switch", "cancel"},
         press'.op # "none", view'.page = view.page
  PROVE  view'.page = "matching" /\ view'.id = view.id /\ view'.ready
<1>0. /\ view \in Views /\ CallFits
      /\ view.page = "matching" /\ view.ready
  BY DEF FitInv, BaseInv, TypeInv, PressFits
<1>1. ~GoesHome /\ ~OpensWorkspace /\ ~OpensMatching /\ ~GoesAway
  BY <1>0 DEF GoesHome, OpensWorkspace, OpensMatching, GoesAway, View, Away
<1>2. ~Resolves /\ ~Refuses
  BY <1>0 DEF CallFits, Resolves, Refuses
<1>3. ~Adopts
  BY DEF Adopts, NoPress
<1>4. CASE EndsWith("timeout", "TIMED_OUT") \/ EndsWith("reconnect", "RECONNECT_EXPIRED")
  BY <1>0, <1>4 DEF EndsWith, Card, Views
<1>5. CASE Readies
  BY <1>0, <1>5 DEF Readies, Views
<1>6. CASE AsksOn
  BY <1>0, <1>6 DEF AsksOn
<1>. QED BY <1>1, <1>2, <1>3, <1>4, <1>5, <1>6 DEF Moved

LEMMA PressFitsStep ==
  ASSUME FitInv, RowsMove,
         Moved \/ Stays \/ Listens \/ Gets \/ Pushes \/ PressFails \/ ServePress
  PROVE  PressFits'
<1>0. /\ BaseInv /\ PressFits /\ PressGood /\ TypeInv
      /\ \A i \in Requests : row[i].status \in Over => row'[i].status = row[i].status
  BY BaseParts, RowsAge DEF FitInv, BaseInv
<1>1. SUFFICES ASSUME press'.live, press'.op \in {"accept", "switch", "cancel"}
               PROVE  /\ view'.page = "matching" /\ view'.id = press'.id /\ view'.ready
                      /\ press'.op # "cancel" /\ press'.res.status = "PENDING" /\ press'.res.id # press'.id =>
                           StaysFresh(press'.res.id) /\ row'[press'.id].status \in {"CANCELLED", "TIMED_OUT"}
  BY DEF PressFits, Fresh, StaysFresh
<1>2. CASE Pushes
  BY <1>1, <1>2, PressMade, NewCalls
<1>3. CASE PressFails
  <2>1. UNCHANGED view /\ press'.res.status # "PENDING"
    BY <1>0, <1>3, PressFailed, NewCalls DEF PressFails, PageStill
  <2>. QED BY <1>0, <1>1, <1>3, <2>1, PressFailed DEF PressFits
<1>4. CASE ServePress
  <2>1. /\ PressAnswer(press'.res) /\ UNCHANGED <<view, late>>
        /\ press'.op = press.op /\ press'.id = press.id /\ press'.live = press.live
    BY <1>0, <1>4, PressServed
  <2>2. view.page = "matching" /\ view.id = press.id /\ view.ready
    BY <1>0, <1>1, <2>1 DEF PressFits
  <2>3. ASSUME press.op # "cancel", press'.res.status = "PENDING", press'.res.id # press.id
        PROVE  StaysFresh(press'.res.id) /\ row'[press.id].status \in {"CANCELLED", "TIMED_OUT"}
    <3>1. \E n \in Requests : row[n].status = "FREE" /\ row'[n] = NewRow /\ press'.res = Told(n, "PENDING")
      BY <1>1, <2>1, <2>3 DEF PressAnswer, Failed, Reply, Dto, Told
    <3>2. row'[press.id].status \in {"CANCELLED", "TIMED_OUT"}
      BY <1>1, <2>1, <2>3 DEF PressAnswer, Failed, Reply, Dto, Told
    <3>3. PICK n \in Requests : row[n].status = "FREE" /\ row'[n] = NewRow /\ press'.res = Told(n, "PENDING")
      BY <3>1
    <3>4. press'.res.id = n /\ ~row'[n].disc
      BY <3>3 DEF Told, NewRow
    <3>5. \A c \in late : c.id # n
      BY <1>0, <3>3, NamedTypes DEF BaseInv, IdsAreNamed, Requests
    <3>. QED BY <2>1, <3>2, <3>4, <3>5 DEF StaysFresh
  <2>. QED BY <2>1, <2>2, <2>3
<1>5. CASE Moved \/ Stays \/ Listens \/ Gets
  <2>1. /\ press'.op = press.op /\ press'.id = press.id /\ press'.res = press.res
        /\ press.live /\ view'.page = view.page
    BY <1>0, <1>1, <1>5, PressMoved
  <2>2. view.page = "matching" /\ view.id = press.id /\ view.ready
    BY <1>0, <1>1, <2>1 DEF PressFits
  <2>3. view'.page = "matching" /\ view'.id = view.id /\ view'.ready
    <3>1. CASE Moved
      BY <1>0, <1>1, <2>1, <3>1, LiveMoves
    <3>2. CASE ~Moved
      BY <1>5, <2>2, <3>2 DEF Stays, Listens, Gets
    <3>. QED BY <3>1, <3>2
  <2>4. ASSUME press.op # "cancel", press.res.status = "PENDING", press.res.id # press.id
        PROVE  StaysFresh(press.res.id) /\ row'[press.id].status \in {"CANCELLED", "TIMED_OUT"}
    <3>1. Fresh(press.res.id) /\ row[press.id].status \in {"CANCELLED", "TIMED_OUT"}
      BY <1>0, <1>1, <2>1, <2>4 DEF PressFits
    <3>2. press.res.id \in Requests /\ press.id \in Requests
      BY <1>0, <1>1, <2>1, <2>4, NamedTypes DEF PressGood
    <3>3. view'.page \notin Away
      BY <2>3 DEF Away
    <3>. QED BY <1>0, <3>1, <3>2, <3>3, FreshStays DEF Over
  <2>. QED BY <2>1, <2>2, <2>3, <2>4
<1>. QED BY <1>2, <1>3, <1>4, <1>5

(* What an effect asks and hears without a move. *)
LEMMA CallHeard ==
  ASSUME FitInv, RowsMove, Stays \/ Listens \/ Gets \/ Pushes \/ PressFails \/ ServePress
  PROVE  /\ view' = view /\ call'.op = call.op /\ call'.id = call.id
         /\ \/ call' = call
            \/ /\ call.op # "none" /\ call.res = Sent /\ UNCHANGED <<press, late>>
               /\ GetAnswer(call'.res)
               /\ Serve \/ (faults' = faults + 1 /\ call'.res = Failed)
<1>0. BaseInv /\ call \in Calls
  BY DEF FitInv, BaseInv, TypeInv
<1>1. CASE Gets
  <2>1. PICK d \in Answers : GetAnswer(d) /\ call' = [call EXCEPT !.res = d]
    BY <1>0, <1>1, GetAnswers
  <2>2. call'.op = call.op /\ call'.id = call.id /\ call'.res = d
    BY <1>0, <2>1 DEF Calls
  <2>3. GetAnswer(call'.res)
    BY <2>1, <2>2
  <2>4. Serve \/ (faults' = faults + 1 /\ call'.res = Failed)
    BY <1>0, <1>1 DEF Gets, Calls
  <2>. QED BY <1>1, <2>2, <2>3, <2>4 DEF Gets
<1>2. CASE Stays \/ Listens \/ Pushes \/ PressFails \/ ServePress
  BY <1>0, <1>2, PressMade, PressServed DEF Stays, Listens, PressFails, PageStill
<1>. QED BY <1>1, <1>2

LEMMA NewIsConnectedStep ==
  ASSUME FitInv, RowsMove,
         Moved \/ Stays \/ Listens \/ Gets \/ Pushes \/ PressFails \/ ServePress
  PROVE  NewIsConnected'
<1>0. /\ BaseInv /\ CallGood /\ PressGood /\ NewIsConnected /\ PressFits /\ TypeInv
      /\ Named \subseteq Ids
  BY BaseParts, NamedTypes DEF FitInv, BaseInv
<1>1. SUFFICES ASSUME call'.op = "get", view'.ready
               PROVE  StaysFresh(call'.id) /\ (call'.res.status = "PENDING" => ~call'.res.disc)
  BY DEF NewIsConnected, Fresh, StaysFresh
<1>2. CASE Moved
  <2>1. CASE Adopts
    <3>1. /\ press.live /\ press.op \in {"accept", "switch"} /\ press.res.status = "PENDING"
          /\ view.page = "matching" /\ view.id = press.id /\ view.ready
      BY <1>0, <2>1 DEF Adopts, PressFits
    <3>2. view'.page \notin Away
      BY <1>0, <2>1, <3>1 DEF Adopts, CallGood, Views, Away
    <3>3. CASE press.res.id = view.id
      <4>1. call' = call
        BY <2>1, <3>3 DEF Adopts
      <4>2. Fresh(call.id) /\ (call.res.status = "PENDING" => ~call.res.disc)
        BY <1>0, <1>1, <3>1, <4>1 DEF NewIsConnected
      <4>3. call.id \in Requests
        BY <1>0, <1>1, <4>1, NamedTypes DEF CallGood, CallFits
      <4>. QED BY <3>2, <4>1, <4>2, <4>3, FreshStays
    <3>4. CASE press.res.id # view.id
      <4>1. Fresh(press.res.id) /\ press.res.id \in Requests
        BY <1>0, <3>1, <3>4, NamedTypes DEF PressFits, PressGood
      <4>2. call' = Ask("get", press.res.id)
        BY <2>1, <3>4 DEF Adopts
      <4>3. call'.id = press.res.id /\ call'.res.status = "sent"
        BY <1>0, <4>2, NewCalls DEF CallOps, PressGood
      <4>. QED BY <3>2, <4>1, <4>3, FreshStays
    <3>. QED BY <3>3, <3>4
  <2>2. CASE GoesHome \/ OpensWorkspace \/ OpensMatching \/ GoesAway
    BY <1>1, <2>2 DEF GoesHome, OpensWorkspace, OpensMatching, GoesAway, View
  <2>3. CASE Resolves
    BY <1>0, <1>1, <2>3 DEF Resolves, CallGood, CallFits, Views
  <2>4. CASE Refuses \/ Readies \/ EndsWith("timeout", "TIMED_OUT") \/ EndsWith("reconnect", "RECONNECT_EXPIRED")
    BY <1>1, <2>4, NewCalls DEF Refuses, Readies, EndsWith
  <2>5. CASE AsksOn
    BY <1>0, <1>1, <2>5, NewCalls DEF AsksOn, CallOps, CallGood, Calls
  <2>. QED BY <1>2, <2>1, <2>2, <2>3, <2>4, <2>5 DEF Moved
<1>3. CASE Stays \/ Listens \/ Gets \/ Pushes \/ PressFails \/ ServePress
  <2>1. /\ view' = view /\ call'.op = call.op /\ call'.id = call.id
        /\ call' = call \/ (GetAnswer(call'.res))
    BY <1>3, CallHeard
  <2>2. Fresh(call.id) /\ (call.res.status = "PENDING" => ~call.res.disc)
    BY <1>0, <1>1, <2>1 DEF NewIsConnected
  <2>3. view.page = "matching" /\ call.id \in Requests
    BY <1>0, <1>1, <2>1, NamedTypes DEF CallGood, CallFits
  <2>4. StaysFresh(call.id)
    BY <2>1, <2>2, <2>3, FreshStays DEF Away
  <2>5. GetAnswer(call'.res) => call'.res = Failed \/ call'.res = Dto(call.id)
    BY <1>1, <2>1 DEF GetAnswer
  <2>6. call'.res = Dto(call.id) => ~call'.res.disc
    BY <2>2 DEF Dto, Fresh
  <2>. QED BY <2>1, <2>2, <2>4, <2>5, <2>6, NewCalls
<1>. QED BY <1>2, <1>3

LEMMA CardFitsStep ==
  ASSUME FitInv, RowsMove,
         Moved \/ Stays \/ Listens \/ Gets \/ Pushes \/ PressFails \/ ServePress
  PROVE  CardFits'
<1>0. /\ BaseInv /\ CallGood /\ PressGood /\ CardFits /\ PressFits
      /\ \A i \in Requests : row[i].status \in Over => row'[i].status = row[i].status
  BY BaseParts, RowsAge DEF FitInv, BaseInv
<1>1. CASE Moved
  <2>0. /\ view \in Views /\ \A i \in Requests : row'[i].status = row[i].status
        /\ view.id # 0 => view.id \in Requests
    BY <1>0, <1>1, NamedTypes DEF Moved, RowsLook, CallGood
  <2>1. CASE GoesHome \/ OpensWorkspace \/ OpensMatching \/ GoesAway
    BY <2>1 DEF GoesHome, OpensWorkspace, OpensMatching, GoesAway, View, CardFits
  <2>2. CASE Resolves
    <3>1. view'.terminal = view.terminal /\ view.terminal = "none"
      BY <1>0, <2>0, <2>2 DEF Resolves, CallGood, CallFits, Views
    <3>. QED BY <3>1 DEF CardFits
  <2>3. CASE EndsWith("timeout", "TIMED_OUT")
    <3>1. view'.terminal = "timeout" /\ view'.ready
      BY <2>0, <2>3 DEF EndsWith, Card, Views
    <3>. QED BY <3>1 DEF CardFits
  <2>4. CASE EndsWith("reconnect", "RECONNECT_EXPIRED")
    <3>1. /\ view'.terminal = "reconnect" /\ view'.id = view.id /\ call' = NoCall
          /\ view.id # 0 /\ row[view.id].status = "RECONNECT_EXPIRED"
      BY <2>0, <2>4 DEF EndsWith, Card, Views
    <3>. QED BY <2>0, <3>1, NewCalls DEF CardFits
  <2>5. CASE Refuses
    <3>1. ~view.ready /\ view' = Card(view, "reconnect") /\ call' = NoCall
      BY <1>0, <2>5 DEF Refuses, CallGood, CallFits
    <3>2. view'.terminal = "reconnect" /\ ~view'.ready
      BY <2>0, <3>1 DEF Card, Views
    <3>. QED BY <3>1, <3>2, NewCalls DEF CardFits
  <2>6. CASE Readies
    <3>1. view'.terminal = view.terminal /\ view'.ready /\ view.terminal # "reconnect"
      BY <1>0, <2>0, <2>6 DEF Readies, CardFits, Views
    <3>. QED BY <3>1 DEF CardFits
  <2>7. CASE Adopts
    <3>1. /\ press.live /\ press.op \in {"accept", "switch"} /\ press.res.status = "PENDING"
          /\ view.page = "matching" /\ view.id = press.id /\ view.ready
      BY <1>0, <2>7 DEF Adopts, PressFits
    <3>2. CASE press.card
      <4>1. view'.terminal = "none"
        BY <2>0, <2>7, <3>2 DEF Adopts, Views
      <4>. QED BY <4>1 DEF CardFits
    <3>3. CASE ~press.card /\ view.terminal # "reconnect"
      <4>1. view'.terminal = view.terminal /\ view'.ready = view.ready
        BY <2>0, <2>7, <3>3 DEF Adopts, Views
      <4>. QED BY <3>1, <3>3, <4>1 DEF CardFits
    <3>4. CASE ~press.card /\ view.terminal = "reconnect"
      <4>1. row[view.id].status = "RECONNECT_EXPIRED" /\ call.op = "none"
        BY <1>0, <3>1, <3>4 DEF CardFits
      <4>2. press.res.id = view.id
        BY <1>0, <3>1, <4>1 DEF PressFits
      <4>3. view'.id = view.id /\ view'.terminal = "reconnect" /\ view'.ready /\ call' = call
        BY <2>0, <2>7, <3>1, <3>4, <4>2 DEF Adopts, Views
      <4>4. view.id \in Requests
        BY <1>0, <2>0, <3>1 DEF PressGood
      <4>. QED BY <2>0, <4>1, <4>3, <4>4 DEF CardFits
    <3>. QED BY <3>2, <3>3, <3>4
  <2>8. CASE AsksOn
    <3>1. view' = view /\ (view.terminal = "reconnect" => call.op = "none")
      BY <1>0, <2>8 DEF AsksOn, CardFits
    <3>. QED BY <1>0, <2>8, <3>1 DEF AsksOn, CardFits
  <2>. QED BY <1>1, <2>1, <2>2, <2>3, <2>4, <2>5, <2>6, <2>7, <2>8 DEF Moved
<1>2. CASE Stays \/ Listens \/ Gets \/ Pushes \/ PressFails \/ ServePress
  <2>1. view' = view /\ call'.op = call.op
    BY <1>2, CallHeard
  <2>2. view.terminal # "none" => view.id \in Requests
    <3>1. view.terminal # "none" => view.id # 0
      BY <1>0 DEF CallGood, CallFits
    <3>. QED BY <1>0, <3>1, NamedTypes DEF CallGood
  <2>. QED BY <1>0, <2>1, <2>2 DEF CardFits, Over
<1>. QED BY <1>1, <1>2

LEMMA InitFits == Init => FitInv
<1>1. SUFFICES ASSUME Init PROVE FitInv
  OBVIOUS
<1>2. row = [i \in Requests |-> [status |-> "FREE", disc |-> FALSE, session |-> "none"]]
  BY <1>1 DEF Init
<1>3. row \in [Requests -> Rows] /\ \A i \in Requests : row[i].status = "FREE" /\ row[i].session = "none"
  BY <1>2 DEF Rows, Status
<1>4. /\ view = View("closed", 0, 0) /\ call = NoCall /\ press = NoPress /\ stream = Stream("off")
      /\ poll = NoPoll /\ latest = 0 /\ untold = {} /\ late = {} /\ active = 0 /\ last = 0
      /\ faults = 0 /\ doubted = {} /\ 0 \in Ids /\ 0 \in Named
  BY <1>1, NamedTypes DEF Init, Ids
<1>5. /\ view \in Views /\ view.id = 0 /\ view.nav = 0 /\ view.page = "closed"
      /\ view.terminal = "none" /\ ~view.ready
  BY <1>4, ViewTypes DEF View
<1>6. RowsInOrder
  BY <1>3, <1>4 DEF RowsInOrder, InOrder
<1>7. CallGood
  BY <1>4, <1>5, NewCalls DEF CallGood, CallFits, CallAnswers
<1>8. PressGood
  BY <1>4, AnswerTypes, NewCalls DEF PressGood, NoPress
<1>9. HearsGood
  <2>1. stream \in Streams /\ poll \in Answers /\ stream.stage = "off" /\ stream.wire = <<>>
    BY <1>4, AnswerTypes DEF Stream
  <2>. QED BY <1>4, <2>1 DEF HearsGood, HearsOfOwn
<1>10. StoreGood
  BY <1>4 DEF StoreGood
<1>11. BaseInv
  BY <1>3, <1>4, <1>6, <1>7, <1>8, <1>9, <1>10, BaseParts
<1>12. PressFits /\ NewIsConnected /\ CardFits
  BY <1>4, <1>5, NewCalls DEF PressFits, NewIsConnected, CardFits, NoPress
<1>. QED BY <1>11, <1>12 DEF FitInv

LEMMA FitStep ==
  ASSUME FitInv, [Next]_vars
  PROVE  /\ FitInv' /\ RowsMove
         /\ Moved \/ Stays \/ Listens \/ Gets \/ Pushes \/ PressFails \/ ServePress
<1>1. BaseInv
  BY DEF FitInv
<1>2. RowsMove /\ (Moved \/ Stays \/ Listens \/ Gets \/ Pushes \/ PressFails \/ ServePress)
  BY <1>1, RowSteps, StepKinds
<1>3. BaseInv' /\ PressFits' /\ NewIsConnected' /\ CardFits'
  BY <1>2, BaseStep, PressFitsStep, NewIsConnectedStep, CardFitsStep
<1>. QED BY <1>2, <1>3 DEF FitInv

-----------------------------------------------------------------------------
(* What crossed with a newer page *)

(* What a timeout card covers if not a request that timed out: the new one  *)
(* of a suggestion, which nobody has disconnected since it was made.       *)
CardOver(i) == row[i].status = "TIMED_OUT" \/ (<<"card", i>> \in doubted /\ Fresh(i))
CardLasts(i) == row'[i].status = "TIMED_OUT" \/ (<<"card", i>> \in doubted' /\ StaysFresh(i))

(* A button under a card is about the request it covers; a service that     *)
(* finds that one waiting answers about a new one.                         *)
PressCard ==
    press.live /\ press.op \in {"accept", "switch"} /\ press.card =>
        /\ CardOver(press.id)
        /\ press.res.status = "PENDING" /\ press.res.id = press.id => Fresh(press.id)

(* A page that waits has connected its request, and on the way there what it *)
(* has read of the grace is so, but for late calls of earlier pages.        *)
Connects ==
    /\ Watches(view) => ~row[view.id].disc \/ <<"late", view.id>> \in doubted
    /\ call.op = "get" /\ call.res.status = "PENDING" =>
         \/ <<"late", call.id>> \in doubted
         \/ IF call.res.disc THEN ~Pending(call.id) \/ row[call.id].disc ELSE ~row[call.id].disc
    /\ call.op = "reconnect" /\ call.res.status = "PENDING" =>
         ~row[call.id].disc \/ <<"late", call.id>> \in doubted
    /\ call.op = "reconnect" /\ call.res = Sent =>
         ~Pending(call.id) \/ row[call.id].disc \/ <<"late", call.id>> \in doubted
    /\ call.op = "reconnect" /\ call.res = Failed =>
         ~Pending(call.id) \/ faults > 0 \/ <<"late", call.id>> \in doubted

CardsAreTrue ==
    /\ view.terminal = "timeout" => CardOver(view.id)
    /\ view.terminal = "reconnect" /\ ~view.ready =>
         ~Pending(view.id) \/ faults > 0 \/ <<"late", view.id>> \in doubted

(* A dashboard that has asked knows of no pending request but a new one.    *)
DashboardKnows ==
    /\ press.op = "cancel" => press.res.status # "PENDING"
    /\ view.page = "dashboard"
       /\ (call.op = "none" \/ (call.op = "active" /\ call.res.status \notin {"sent", "PENDING"})) =>
         \A i \in Requests : Pending(i) =>
            \/ <<"left", i>> \in doubted \/ faults > 0
            \/ press.op # "none" /\ press.res.status = "PENDING" /\ press.res.id = i

PageTrueInv == FitInv /\ PressCard /\ Connects /\ CardsAreTrue /\ DashboardKnows

(* What a step does to the rows that a page looks at. *)
LEMMA RowFacts ==
  ASSUME FitInv, RowsMove
  PROVE  /\ doubted \subseteq doubted' /\ faults \in Nat /\ faults' \in Nat /\ faults' >= faults
         /\ \A i \in Requests : row[i].status \in Over => row'[i].status = row[i].status
         /\ \A i \in Requests : row[i].status = "PENDING" => row'[i].status \in {"PENDING"} \union Over
         /\ \A i \in Requests : row[i].status # "FREE" /\ row[i].status # "PENDING" => row'[i].status # "PENDING"
         /\ view.page \notin Away =>
              \A i \in Requests : row'[i].disc => row[i].disc \/ <<"late", i>> \in doubted'
         /\ view.page \notin Away =>
              \A i \in Requests : row[i].disc /\ row[i].status = "PENDING" /\ row'[i].status = "PENDING" =>
                 \/ row'[i].disc \/ <<"late", i>> \in doubted'
                 \/ call.op = "reconnect" /\ call.id = i /\ call.res = Sent /\ call'.res # Sent
<1>1. BaseInv /\ faults \in Nat /\ \A i \in Requests : row[i] \in Rows
  BY DEF FitInv, BaseInv, TypeInv
<1>2. /\ \A i \in Requests : row[i].status \in Over => row'[i].status = row[i].status
      /\ \A i \in Requests : row[i].status = "PENDING" => row'[i].status \in {"PENDING"} \union Over
  BY <1>1, RowsAge
<1>3. \A i \in Requests : row[i].status # "FREE" /\ row[i].status # "PENDING" => row'[i].status # "PENDING"
  BY <1>1, <1>2 DEF Rows, Status, Over
<1>4. faults' \in Nat /\ faults' >= faults
  BY <1>1 DEF RowsMove
<1>. QED BY <1>1, <1>2, <1>3, <1>4 DEF RowsMove, RowMoves

LEMMA CardStays ==
  ASSUME FitInv, RowsMove, NEW i \in Requests, view'.page \notin Away
  PROVE  /\ Fresh(i) => StaysFresh(i)
         /\ CardOver(i) => CardLasts(i)
<1>1. /\ doubted \subseteq doubted'
      /\ \A k \in Requests : row[k].status \in Over => row'[k].status = row[k].status
  BY RowFacts
<1>2. Fresh(i) => StaysFresh(i)
  BY FreshStays
<1>. QED BY <1>1, <1>2 DEF CardOver, CardLasts, Over

LEMMA PressCardStep ==
  ASSUME PageTrueInv, RowsMove, FitInv',
         Moved \/ Stays \/ Listens \/ Gets \/ Pushes \/ PressFails \/ ServePress
  PROVE  PressCard'
<1>0. /\ FitInv /\ BaseInv /\ PressGood /\ PressCard /\ CardsAreTrue /\ TypeInv
  BY BaseParts DEF PageTrueInv, FitInv, BaseInv
<1>1. SUFFICES ASSUME press'.live, press'.op \in {"accept", "switch"}, press'.card
               PROVE  /\ CardLasts(press'.id)
                      /\ press'.res.status = "PENDING" /\ press'.res.id = press'.id =>
                           StaysFresh(press'.id)
  BY DEF PressCard, CardOver, CardLasts, Fresh, StaysFresh
<1>2. view'.page \notin Away
  BY <1>1 DEF FitInv, PressFits, Away
<1>3. CASE Pushes
  <2>1. /\ press'.id = view.id /\ view.terminal = "timeout" /\ press'.res = Sent
        /\ UNCHANGED <<row, late, doubted>>
    BY <1>0, <1>1, <1>3, PressMade
  <2>. QED BY <1>0, <2>1, NewCalls DEF CardsAreTrue, CardOver, CardLasts, Fresh, StaysFresh
<1>4. ASSUME press.live, press.op \in {"accept", "switch"}, press.card
      PROVE  /\ press.id \in Requests /\ CardOver(press.id) /\ CardLasts(press.id)
             /\ Fresh(press.id) => StaysFresh(press.id)
  <2>1. press.id \in Requests /\ CardOver(press.id)
    BY <1>0, <1>4, NamedTypes DEF PressGood, PressCard
  <2>. QED BY <1>0, <1>2, <2>1, CardStays
<1>5. CASE PressFails
  BY <1>0, <1>1, <1>4, <1>5, PressFailed, NewCalls
<1>6. CASE Moved \/ Stays \/ Listens \/ Gets
  <2>1. /\ press'.op = press.op /\ press'.id = press.id /\ press'.card = press.card
        /\ press'.res = press.res /\ press.live
    BY <1>0, <1>1, <1>6, PressMoved
  <2>. QED BY <1>0, <1>1, <1>4, <2>1 DEF PressCard
<1>7. CASE ServePress
  <2>1. /\ PressAnswer(press'.res) /\ press'.op = press.op /\ press'.id = press.id
        /\ press'.card = press.card /\ press'.live = press.live
    BY <1>0, <1>7, PressServed
  <2>2. ASSUME press'.res.status = "PENDING", press'.res.id = press.id PROVE Fresh(press.id)
    <3>1. CASE Pending(press.id)
      BY <1>1, <1>4, <2>1, <3>1 DEF CardOver, Pending
    <3>2. CASE \E n \in Requests : row[n].status = "FREE" /\ press'.res = Told(n, "PENDING")
      <4>1. row[press.id].status = "FREE" /\ press.id \in Requests
        BY <2>2, <3>2 DEF Told
      <4>. QED BY <1>0, <4>1, NamedTypes DEF PressGood, Requests
    <3>. QED BY <1>1, <2>1, <2>2, <3>1, <3>2 DEF PressAnswer, Failed, Reply, Told
  <2>. QED BY <1>1, <1>4, <2>1, <2>2
<1>. QED BY <1>3, <1>5, <1>6, <1>7

LEMMA CardsStep ==
  ASSUME PageTrueInv, RowsMove,
         Moved \/ Stays \/ Listens \/ Gets \/ Pushes \/ PressFails \/ ServePress
  PROVE  CardsAreTrue'
<1>0. /\ FitInv /\ BaseInv /\ CallGood /\ PressGood /\ CardsAreTrue /\ PressFits /\ Connects
      /\ doubted \subseteq doubted' /\ faults \in Nat /\ faults' \in Nat /\ faults' >= faults
  BY BaseParts, RowFacts DEF PageTrueInv, FitInv, BaseInv
<1>1. CASE Moved
  <2>0. /\ view \in Views /\ \A i \in Requests : row'[i].status = row[i].status
        /\ view.id # 0 => view.id \in Requests
    BY <1>0, <1>1, NamedTypes DEF Moved, RowsLook, CallGood
  <2>a. ASSUME view'.page = view.page, view.terminal = "timeout"
        PROVE  CardLasts(view.id)
    <3>1. view.id \in Requests /\ view'.page \notin Away
      BY <1>0, <2>0, <2>a DEF CallGood, CallFits, Away
    <3>. QED BY <1>0, <2>a, <3>1, CardStays DEF CardsAreTrue
  <2>1. CASE GoesHome \/ OpensWorkspace \/ OpensMatching \/ GoesAway
    BY <2>1 DEF GoesHome, OpensWorkspace, OpensMatching, GoesAway, View, CardsAreTrue
  <2>2. CASE Resolves
    <3>1. view'.terminal = "none"
      BY <1>0, <2>0, <2>2 DEF Resolves, CallGood, CallFits, Views
    <3>. QED BY <3>1 DEF CardsAreTrue
  <2>3. CASE EndsWith("timeout", "TIMED_OUT")
    <3>1. /\ view'.terminal = "timeout" /\ view'.ready /\ view'.id = view.id
          /\ view.id \in Requests /\ row[view.id].status = "TIMED_OUT"
      BY <2>0, <2>3 DEF EndsWith, Card, Views
    <3>. QED BY <2>0, <3>1 DEF CardsAreTrue, CardOver
  <2>4. CASE EndsWith("reconnect", "RECONNECT_EXPIRED")
    <3>1. /\ view'.terminal = "reconnect" /\ view'.id = view.id
          /\ view.id \in Requests /\ row[view.id].status = "RECONNECT_EXPIRED"
      BY <2>0, <2>4 DEF EndsWith, Card, Views
    <3>. QED BY <2>0, <3>1 DEF CardsAreTrue, Pending
  <2>5. CASE Refuses
    <3>1. /\ call.op = "reconnect" /\ call.res = Failed /\ view' = Card(view, "reconnect")
          /\ view.id = call.id /\ view.id \in Requests
      BY <1>0, <2>0, <2>5 DEF Refuses, CallGood, CallFits
    <3>2. view'.terminal = "reconnect" /\ view'.id = view.id
      BY <2>0, <3>1 DEF Card, Views
    <3>3. ~Pending(view.id) \/ faults > 0 \/ <<"late", view.id>> \in doubted
      BY <1>0, <3>1 DEF Connects
    <3>. QED BY <1>0, <2>0, <3>1, <3>2, <3>3 DEF CardsAreTrue, Pending
  <2>6. CASE Readies
    <3>1. /\ view'.terminal = view.terminal /\ view'.ready /\ view'.id = view.id
          /\ view'.page = view.page
      BY <1>0, <2>0, <2>6 DEF Readies, CallGood, CallFits, Views
    <3>. QED BY <2>a, <3>1 DEF CardsAreTrue, CardOver, CardLasts, Fresh, StaysFresh
  <2>7. CASE Adopts
    <3>1. /\ press.live /\ press.op \in {"accept", "switch"} /\ press.res.status = "PENDING"
          /\ view.page = "matching" /\ view.id = press.id /\ view.ready
          /\ ~press.card /\ view.terminal = "timeout" /\ press.res.id # press.id =>
               <<"card", press.res.id>> \in doubted' /\ Fresh(press.res.id)
      BY <1>0, <2>7 DEF Adopts, PressFits
    <3>2. CASE press.card
      <4>1. view'.terminal = "none"
        BY <2>0, <2>7, <3>2 DEF Adopts, Views
      <4>. QED BY <4>1 DEF CardsAreTrue
    <3>3. CASE ~press.card
      <4>1. /\ view'.terminal = view.terminal /\ view'.ready /\ view'.id = press.res.id
            /\ view'.page = view.page
        BY <2>0, <2>7, <3>1, <3>3 DEF Adopts, Views
      <4>2. ASSUME view.terminal = "timeout" PROVE CardLasts(press.res.id)
        <5>1. CASE press.res.id = press.id
          BY <2>a, <3>1, <4>1, <4>2, <5>1
        <5>2. CASE press.res.id # press.id
          <6>1. press.res.id \in Requests /\ view'.page \notin Away
            BY <1>0, <3>1, <4>1, NamedTypes DEF PressGood, Away
          <6>2. StaysFresh(press.res.id)
            BY <1>0, <3>1, <3>3, <4>2, <5>2, <6>1, CardStays
          <6>. QED BY <3>1, <3>3, <4>2, <5>2, <6>2 DEF CardLasts
        <5>. QED BY <5>1, <5>2
      <4>. QED BY <4>1, <4>2 DEF CardsAreTrue, CardOver, CardLasts, Fresh, StaysFresh
    <3>. QED BY <3>2, <3>3
  <2>8. CASE AsksOn
    <3>1. view' = view /\ (view.terminal # "none" => view.id \in Requests)
      <4>1. view.terminal # "none" => view.id # 0
        BY <1>0 DEF CallGood, CallFits
      <4>. QED BY <2>0, <2>8, <4>1 DEF AsksOn
    <3>2. view.terminal = "timeout" => CardLasts(view.id)
      BY <2>a, <3>1
    <3>3. view.terminal = "reconnect" /\ ~view.ready =>
             row'[view.id].status # "PENDING" \/ faults' > 0 \/ <<"late", view.id>> \in doubted'
      BY <1>0, <2>0, <3>1 DEF CardsAreTrue, Pending
    <3>. QED BY <3>1, <3>2, <3>3 DEF CardsAreTrue, CardOver, CardLasts, Fresh, StaysFresh, Pending
  <2>. QED BY <1>1, <2>1, <2>2, <2>3, <2>4, <2>5, <2>6, <2>7, <2>8 DEF Moved
<1>2. CASE Stays \/ Listens \/ Gets \/ Pushes \/ PressFails \/ ServePress
  <2>1. view' = view
    BY <1>0, <1>2, CallHeard
  <2>2. view.terminal # "none" => view.id \in Requests /\ row[view.id].status # "FREE"
    <3>1. view.terminal # "none" => view.id # 0
      BY <1>0 DEF CallGood, CallFits
    <3>. QED BY <1>0, <3>1, NamedTypes DEF CallGood
  <2>3. view.terminal = "timeout" => CardLasts(view.id)
    <3>1. view.terminal # "none" => view'.page \notin Away
      BY <1>0, <2>1 DEF CallGood, CallFits, Away
    <3>. QED BY <1>0, <2>2, <3>1, CardStays DEF CardsAreTrue
  <2>4. view.terminal = "reconnect" /\ ~view.ready =>
           row'[view.id].status # "PENDING" \/ faults' > 0 \/ <<"late", view.id>> \in doubted'
    BY <1>0, <2>2, RowFacts DEF CardsAreTrue, Pending
  <2>. QED BY <2>1, <2>3, <2>4 DEF CardsAreTrue, CardOver, CardLasts, Fresh, StaysFresh, Pending
<1>. QED BY <1>1, <1>2

LEMMA ConnectsMoved ==
  ASSUME PageTrueInv, RowsMove, Moved
  PROVE  Connects'
<1>0. /\ FitInv /\ BaseInv /\ CallGood /\ PressGood /\ PressFits /\ PressCard /\ Connects
      /\ doubted \subseteq doubted' /\ faults \in Nat /\ faults' \in Nat /\ faults' >= faults
  BY BaseParts, RowFacts DEF PageTrueInv, FitInv, BaseInv
<1>1. /\ view \in Views /\ call \in Calls
      /\ \A i \in Requests : row'[i].status = row[i].status /\ row'[i].disc = row[i].disc
      /\ \A i \in Named \ {0} : i \in Requests
  BY <1>0, NamedTypes DEF Moved, RowsLook, CallGood
<1>2. call.op \in {"get", "reconnect"} => call.id \in Requests
  BY <1>0, <1>1 DEF CallGood, CallFits
<1>3. ASSUME Watches(view') => ~row'[view'.id].disc \/ <<"late", view'.id>> \in doubted',
             \/ call'.res.status = "sent" /\ call'.op # "reconnect"
             \/ call'.op \in {"none", "active", "session"} \/ call' = call
      PROVE  Connects'
  <2>1. CASE call' = call
    BY <1>0, <1>1, <1>2, <1>3, <2>1 DEF Connects, Pending
  <2>2. CASE call' # call
    BY <1>3, <2>2 DEF Connects
  <2>. QED BY <2>1, <2>2
<1>4. CASE GoesHome \/ OpensWorkspace \/ OpensMatching \/ GoesAway
  <2>1. ~Watches(view')
    BY <1>4 DEF GoesHome, OpensWorkspace, OpensMatching, GoesAway, View, Watches
  <2>2. call'.op = "none" \/ (call'.res.status = "sent" /\ call'.op # "reconnect")
    BY <1>4, NamedTypes, NewCalls DEF GoesHome, OpensWorkspace, OpensMatching, GoesAway, CallOps
  <2>. QED BY <1>3, <2>1, <2>2
<1>5. CASE Resolves
  <2>1. ~Watches(view')
    BY <1>0, <1>1, <1>5 DEF Resolves, CallGood, CallFits, Views, Watches
  <2>2. call'.res.status = "sent" /\ call'.op = "get"
    BY <1>5, NamedTypes, NewCalls DEF Resolves, CallOps
  <2>. QED BY <1>3, <2>1, <2>2
<1>6. CASE Refuses \/ EndsWith("timeout", "TIMED_OUT") \/ EndsWith("reconnect", "RECONNECT_EXPIRED")
  <2>1. ~Watches(view') /\ call'.op = "none"
    BY <1>1, <1>6, NewCalls DEF Refuses, EndsWith, Card, Views, Watches
  <2>. QED BY <1>3, <2>1
<1>7. CASE Readies
  <2>1. view'.id = view.id /\ view.id = call.id /\ call'.op = "none"
    BY <1>0, <1>1, <1>7, NewCalls DEF Readies, CallGood, CallFits, Views
  <2>2. ~row[call.id].disc \/ <<"late", call.id>> \in doubted
    BY <1>0, <1>7 DEF Readies, Connects
  <2>3. call.id \in Requests
    BY <1>2, <1>7 DEF Readies
  <2>. QED BY <1>0, <1>1, <1>3, <2>1, <2>2, <2>3
<1>8. CASE Adopts
  <2>1. /\ press.live /\ press.op \in {"accept", "switch"} /\ press.res.status = "PENDING"
        /\ view.page = "matching" /\ view.id = press.id /\ view.ready
        /\ press.res.id \in Requests /\ press.id \in Requests
    BY <1>0, <1>1, <1>8 DEF Adopts, PressFits, PressGood
  <2>2. view'.id = press.res.id
    BY <1>1, <1>8, <2>1 DEF Adopts, Views
  <2>3. CASE press.res.id = view.id
    <3>1. call' = call
      BY <1>8, <2>3 DEF Adopts
    <3>2. CASE press.card
      BY <1>0, <1>1, <1>3, <2>1, <2>2, <2>3, <3>1, <3>2 DEF PressCard, Fresh
    <3>3. CASE ~press.card
      <4>1. view'.terminal = view.terminal /\ view'.page = view.page /\ view'.ready = view.ready
        BY <1>1, <1>8, <3>3 DEF Adopts, Views
      <4>. QED BY <1>0, <1>1, <1>3, <2>1, <2>2, <2>3, <3>1, <4>1 DEF Connects, Watches
    <3>. QED BY <3>2, <3>3
  <2>4. CASE press.res.id # view.id
    <3>1. ~row[press.res.id].disc
      BY <1>0, <2>1, <2>4 DEF PressFits, Fresh
    <3>2. call' = Ask("get", press.res.id)
      BY <1>8, <2>4 DEF Adopts
    <3>3. call'.res.status = "sent" /\ call'.op = "get"
      BY <1>0, <3>2, NewCalls, NamedTypes DEF CallOps, PressGood
    <3>. QED BY <1>1, <1>3, <2>1, <2>2, <3>1, <3>3
  <2>. QED BY <2>3, <2>4
<1>9. CASE AsksOn
  <2>1. view' = view /\ (Watches(view) => view.id \in Requests)
    BY <1>0, <1>9, WatchedIsNamed DEF AsksOn, Watches, CallGood, CallFits
  <2>2. Watches(view') => ~row'[view'.id].disc \/ <<"late", view'.id>> \in doubted'
    BY <1>0, <1>1, <2>1 DEF Connects
  <2>3. CASE call.op \in {"session", "active"}
    BY <1>3, <1>9, <2>2, <2>3, NewCalls, NamedTypes DEF AsksOn, CallOps
  <2>4. CASE call.op = "get" /\ call.res.status = "PENDING" /\ call.res.disc /\ call' = Ask("reconnect", call.id)
    <3>1. call'.op = "reconnect" /\ call'.id = call.id /\ call'.res = Sent
      BY <1>1, <2>4, NewCalls DEF CallOps, Calls
    <3>2. ~Pending(call.id) \/ row[call.id].disc \/ <<"late", call.id>> \in doubted
      BY <1>0, <2>4 DEF Connects
    <3>. QED BY <1>0, <1>1, <1>2, <2>2, <2>4, <3>1, <3>2, NewCalls DEF Connects, Pending
  <2>. QED BY <1>9, <2>3, <2>4 DEF AsksOn
<1>. QED BY <1>4, <1>5, <1>6, <1>7, <1>8, <1>9 DEF Moved

LEMMA ConnectsStep ==
  ASSUME PageTrueInv, RowsMove, Stays \/ Listens \/ Gets \/ Pushes \/ PressFails \/ ServePress
  PROVE  Connects'
<1>0. /\ FitInv /\ BaseInv /\ CallGood /\ Connects /\ TypeInv
      /\ doubted \subseteq doubted' /\ faults \in Nat /\ faults' \in Nat /\ faults' >= faults
  BY BaseParts, RowFacts DEF PageTrueInv, FitInv, BaseInv
<1>1. /\ view' = view /\ call'.op = call.op /\ call'.id = call.id
      /\ \/ call' = call
         \/ /\ call.op # "none" /\ call.res = Sent
            /\ GetAnswer(call'.res)
            /\ Serve \/ (faults' = faults + 1 /\ call'.res = Failed)
  BY <1>0, CallHeard
<1>2. call.op \in {"get", "reconnect"} =>
        /\ call.id \in Requests /\ row[call.id].status # "FREE" /\ view.page \notin Away
  BY <1>0, NamedTypes DEF CallGood, CallFits, Away
<1>3. Watches(view) => view.id \in Requests /\ view.page \notin Away
  BY <1>0, WatchedIsNamed DEF Watches, CallGood, CallFits, Away
<1>4. Watches(view') => ~row'[view'.id].disc \/ <<"late", view'.id>> \in doubted'
  BY <1>0, <1>1, <1>3, RowFacts DEF Connects
<1>5. ASSUME call.op \in {"get", "reconnect"}
      PROVE  /\ Pending(call.id)' => Pending(call.id)
             /\ row'[call.id].disc => row[call.id].disc \/ <<"late", call.id>> \in doubted'
             /\ Pending(call.id)' /\ row[call.id].disc =>
                  \/ row'[call.id].disc \/ <<"late", call.id>> \in doubted'
                  \/ call.op = "reconnect" /\ call.res = Sent /\ call'.res # Sent
  <2>1. row'[call.id].status = "PENDING" => row[call.id].status = "PENDING"
    BY <1>0, <1>2, <1>5, RowFacts
  <2>2. Pending(call.id)' <=> row'[call.id].status = "PENDING"
    BY <1>1 DEF Pending
  <2>. QED BY <1>0, <1>2, <1>5, <2>1, <2>2, RowFacts DEF Pending
<1>6. CASE call' = call
  BY <1>0, <1>1, <1>4, <1>5, <1>6 DEF Connects
<1>7. CASE call' # call
  <2>0. /\ call.op # "none" /\ call.res = Sent /\ GetAnswer(call'.res)
        /\ Serve \/ (faults' = faults + 1 /\ call'.res = Failed)
    BY <1>1, <1>7
  <2>1. CASE call.op = "get"
    <3>1. CASE call'.res = Failed
      BY <1>1, <1>4, <2>1, <3>1, NewCalls DEF Connects
    <3>2. CASE call'.res = Dto(call.id) /\ UNCHANGED row
      BY <1>1, <1>4, <2>1, <3>2 DEF Connects, Dto
    <3>. QED BY <2>0, <2>1, <3>1, <3>2 DEF GetAnswer
  <2>2. CASE call.op = "reconnect"
    <3>1. CASE Serve
      <4>1. CASE Pending(call.id) /\ row[call.id].disc
        <5>1. /\ row' = [row EXCEPT ![call.id].disc = FALSE]
              /\ call' = [call EXCEPT !.res = [Dto(call.id) EXCEPT !.disc = FALSE]]
          BY <2>2, <3>1, <4>1 DEF Serve, Answered
        <5>2. ~row'[call.id].disc
          BY <1>0, <1>2, <2>2, <5>1 DEF TypeInv, Rows
        <5>3. call'.res.status = "PENDING"
          BY <1>0, <4>1, <5>1 DEF CallGood, Calls, Dto, Pending
        <5>4. call'.res # Sent /\ call'.res # Failed
          BY <5>3, NewCalls
        <5>. QED BY <1>1, <1>4, <2>2, <5>2, <5>4 DEF Connects
      <4>2. CASE ~(Pending(call.id) /\ row[call.id].disc)
        <5>1. UNCHANGED row /\ call' = [call EXCEPT !.res = Failed]
          BY <2>2, <3>1, <4>2 DEF Serve, Answered
        <5>2. call'.res = Failed
          BY <1>0, <5>1 DEF CallGood, Calls
        <5>3. ~Pending(call.id) \/ <<"late", call.id>> \in doubted
          BY <1>0, <2>0, <2>2, <4>2 DEF Connects
        <5>4. ~Pending(call.id)' \/ <<"late", call.id>> \in doubted'
          BY <1>0, <1>1, <5>1, <5>3 DEF Pending
        <5>. QED BY <1>1, <1>4, <2>2, <5>2, <5>4, NewCalls DEF Connects
      <4>. QED BY <4>1, <4>2
    <3>2. CASE faults' = faults + 1 /\ call'.res = Failed
      <4>1. faults' > 0
        BY <1>0, <3>2
      <4>. QED BY <1>1, <1>4, <2>2, <3>2, <4>1, NewCalls DEF Connects
    <3>. QED BY <2>0, <3>1, <3>2
  <2>3. CASE call.op \notin {"get", "reconnect"}
    BY <1>1, <1>4, <2>3 DEF Connects
  <2>. QED BY <2>1, <2>2, <2>3
<1>. QED BY <1>6, <1>7

(* How a dashboard that has asked learns of a request that is pending.      *)
Quiets(c) == c.op = "none" \/ (c.op = "active" /\ c.res.status \notin {"sent", "PENDING"})

LEMMA NewsIsKnown ==
  ASSUME PageTrueInv, RowsMove, view.page = "dashboard", view'.page = "dashboard",
         Quiets(call), \/ Stays \/ Listens \/ Gets \/ Pushes \/ PressFails \/ ServePress
                       \/ UNCHANGED press,
         NEW i \in Requests, row'[i].status = "PENDING"
  PROVE  \/ <<"left", i>> \in doubted' \/ faults' > 0
         \/ press'.op # "none" /\ press'.res.status = "PENDING" /\ press'.res.id = i
<1>0. /\ FitInv /\ BaseInv /\ DashboardKnows
      /\ doubted \subseteq doubted' /\ faults \in Nat /\ faults' \in Nat /\ faults' >= faults
      /\ row[i] \in Rows
  BY RowFacts DEF PageTrueInv, FitInv, BaseInv, TypeInv
<1>1. CASE row[i].status # "PENDING"
  <2>1. row[i].status = "FREE"
    BY <1>0, <1>1, RowFacts
  <2>2. <<"left", i>> \in doubted' \/ (press'.op \notin {"none", "cancel"} /\ press'.res = Told(i, "PENDING"))
    BY <2>1 DEF RowsMove, RowMoves, Away
  <2>. QED BY <2>2 DEF Told
<1>2. CASE row[i].status = "PENDING" /\ ~(<<"left", i>> \in doubted \/ faults > 0)
  <2>1. press.op # "none" /\ press.res.status = "PENDING" /\ press.res.id = i
    BY <1>0, <1>2 DEF DashboardKnows, Pending, Quiets
  <2>2. CASE UNCHANGED press
    BY <2>1, <2>2
  <2>3. CASE Stays /\ ~UNCHANGED press
    <3>1. <<"left", press.res.id>> \in doubted'
      BY <1>0, <2>1, <2>3 DEF Stays, DashboardKnows
    <3>. QED BY <2>1, <3>1
  <2>4. CASE PressFails
    BY <1>0, <2>4 DEF PressFails
  <2>5. CASE Pushes
    BY <1>0, <2>1, <2>5, PressMade
  <2>6. CASE ServePress
    BY <1>0, <2>1, <2>6, PressServed, NewCalls
  <2>7. CASE Listens \/ Gets
    BY <2>2, <2>7 DEF Listens, Gets
  <2>. QED BY <2>2, <2>3, <2>4, <2>5, <2>6, <2>7
<1>3. CASE <<"left", i>> \in doubted \/ faults > 0
  BY <1>0, <1>3
<1>. QED BY <1>1, <1>2, <1>3

LEMMA DashboardStep ==
  ASSUME PageTrueInv, RowsMove,
         Moved \/ Stays \/ Listens \/ Gets \/ Pushes \/ PressFails \/ ServePress
  PROVE  DashboardKnows'
<1>0. /\ FitInv /\ BaseInv /\ CallGood /\ PressFits /\ DashboardKnows /\ TypeInv
      /\ faults \in Nat /\ faults' \in Nat /\ faults' >= faults
  BY BaseParts, RowFacts DEF PageTrueInv, FitInv, BaseInv
<1>1. press'.op = "cancel" => press'.res.status # "PENDING"
  <2>1. CASE Moved \/ Stays \/ Listens \/ Gets
    BY <1>0, <2>1, PressMoved DEF DashboardKnows
  <2>2. CASE Pushes
    BY <1>0, <2>2, PressMade, NewCalls
  <2>3. CASE PressFails
    BY <1>0, <2>3, PressFailed, NewCalls
  <2>4. CASE ServePress
    BY <1>0, <2>4, PressServed DEF PressAnswer, Failed, Reply, Told
  <2>. QED BY <2>1, <2>2, <2>3, <2>4
<1>2. ASSUME view'.page = "dashboard", Quiets(call'), NEW i \in Requests, row'[i].status = "PENDING"
      PROVE  \/ <<"left", i>> \in doubted' \/ faults' > 0
             \/ press'.op # "none" /\ press'.res.status = "PENDING" /\ press'.res.id = i
  <2>1. CASE Moved
    <3>1. ~GoesHome
      BY <1>2, NewCalls, NamedTypes DEF GoesHome, CallOps, Quiets
    <3>2. ~OpensWorkspace /\ ~OpensMatching /\ ~GoesAway
      BY <1>2 DEF OpensWorkspace, OpensMatching, GoesAway, View, Away
    <3>3. ~Resolves /\ ~Refuses /\ ~Readies
      BY <1>0, <1>2 DEF Resolves, Refuses, Readies, Card, CallGood, CallFits, Views
    <3>4. ~EndsWith("timeout", "TIMED_OUT") /\ ~EndsWith("reconnect", "RECONNECT_EXPIRED")
      BY <1>0, <1>2 DEF EndsWith, Card, CallGood, Views
    <3>5. ~Adopts
      BY <1>0, <1>2 DEF Adopts, PressFits, CallGood, Views
    <3>6. AsksOn
      BY <2>1, <3>1, <3>2, <3>3, <3>4, <3>5 DEF Moved
    <3>7. UNCHANGED <<view, press>> /\ Quiets(call)
      BY <1>0, <1>2, <3>6, NewCalls, NamedTypes DEF AsksOn, Quiets, CallOps, CallGood, Calls, CallFits
    <3>. QED BY <1>2, <3>7, NewsIsKnown
  <2>2. CASE Stays \/ Listens \/ Gets \/ Pushes \/ PressFails \/ ServePress
    <3>1. /\ view' = view /\ call'.op = call.op
          /\ \/ call' = call
             \/ /\ call.op # "none" /\ call.res = Sent
                /\ GetAnswer(call'.res)
                /\ Serve \/ (faults' = faults + 1 /\ call'.res = Failed)
      BY <1>0, <2>2, CallHeard
    <3>2. CASE Quiets(call)
      BY <1>2, <2>2, <3>1, <3>2, NewsIsKnown
    <3>3. CASE ~Quiets(call) /\ Serve
      <4>1. call.op = "active" /\ call' # call
        BY <1>2, <3>1, <3>3 DEF Quiets
      <4>2. UNCHANGED row /\ call' = [call EXCEPT !.res = ActiveRow]
        BY <3>3, <4>1 DEF Serve, Answered
      <4>3. call'.res = ActiveRow
        BY <1>0, <4>2 DEF CallGood, Calls
      <4>4. ActiveRow.status # "PENDING"
        BY <1>2, <4>1, <3>1, <4>3 DEF Quiets
      <4>5. NonePending
        BY <1>0, <4>4, ActiveRowTypes DEF Dto, Pending
      <4>. QED BY <1>2, <4>2, <4>5 DEF NonePending, Pending
    <3>4. CASE ~Quiets(call) /\ ~Serve
      <4>1. call' # call
        BY <1>2, <3>4
      <4>2. faults' = faults + 1
        BY <3>1, <3>4, <4>1
      <4>. QED BY <1>0, <4>2
    <3>. QED BY <3>2, <3>3, <3>4
  <2>. QED BY <2>1, <2>2
<1>. QED BY <1>1, <1>2 DEF DashboardKnows, Quiets, Pending

LEMMA PageTrueStep ==
  ASSUME PageTrueInv, [Next]_vars
  PROVE  PageTrueInv'
<1>1. /\ FitInv' /\ RowsMove
      /\ Moved \/ Stays \/ Listens \/ Gets \/ Pushes \/ PressFails \/ ServePress
  BY FitStep DEF PageTrueInv
<1>2. PressCard' /\ CardsAreTrue' /\ DashboardKnows'
  BY <1>1, PressCardStep, CardsStep, DashboardStep
<1>3. Connects'
  BY <1>1, ConnectsMoved, ConnectsStep
<1>. QED BY <1>1, <1>2, <1>3 DEF PageTrueInv

LEMMA InitPageTrue == Init => PageTrueInv
<1>1. SUFFICES ASSUME Init PROVE PageTrueInv
  OBVIOUS
<1>2. /\ FitInv /\ view = View("closed", 0, 0) /\ call = NoCall /\ press = NoPress
  BY <1>1, InitFits DEF Init
<1>3. /\ view.page = "closed" /\ view.terminal = "none" /\ call.op = "none" /\ press.op = "none"
  BY <1>2 DEF View, NoCall, NoPress
<1>. QED BY <1>2, <1>3 DEF PageTrueInv, PressCard, Connects, CardsAreTrue, DashboardKnows, Watches

-----------------------------------------------------------------------------
(* The theorems *)

LEMMA PageTrueAlways == Spec => []PageTrueInv
<1>1. Init => PageTrueInv
  BY InitPageTrue
<1>2. PageTrueInv /\ [Next]_vars => PageTrueInv'
  BY PageTrueStep
<1>. QED BY <1>1, <1>2, PTL DEF Spec

LEMMA OnePending ==
  ASSUME BaseInv, NEW i \in Requests, NEW j \in Requests, Pending(i), Pending(j)
  PROVE  i = j
<1>1. ~(i < j) /\ ~(j < i)
  BY DEF BaseInv, RowsInOrder, InOrder, Pending
<1>. QED BY <1>1 DEF Requests

(* For any number of requests, acts and faults: a workspace shown is that   *)
(* of a match, and a timeout or a lost connection is shown only of a        *)
(* request of which that is so, whatever crossed (Matching.tsx, the         *)
(* outcomes of boot, stream and poll), except for the timeout card that     *)
(* stays over the request of a suggestion (handleAcceptFallback) and for a  *)
(* reconnect that failed or that a late call forestalled. No user has two   *)
(* pending requests.                                                        *)
THEOREM PageShowsWhatIsTrue == Spec => []PageInv
<1>1. ASSUME PageTrueInv PROVE PageInv
  <2>0. /\ BaseInv /\ TypeInv /\ CallFits /\ CardFits /\ CardsAreTrue
    BY <1>1 DEF PageTrueInv, FitInv, BaseInv
  <2>1. PageTypeOK
    <3>1. \A i, j \in Requests : Pending(i) /\ Pending(j) => i = j
      BY <2>0, OnePending
    <3>. QED BY <2>0, <3>1 DEF PageTypeOK, TypeInv, Rows, Ids, Views
  <2>2. view.terminal = "reconnect" =>
          ~Pending(view.id) \/ faults > 0 \/ <<"late", view.id>> \in doubted
    BY <2>0 DEF CardFits, CardsAreTrue, Pending
  <2>3. CardIsTrue
    BY <2>0, <2>2 DEF CardIsTrue, CallFits, CardsAreTrue, CardOver
  <2>. QED BY <2>1, <2>3 DEF PageInv
<1>. QED BY <1>1, PageTrueAlways, PTL

(* A page that waits, with nothing under way, has its request connected,   *)
(* so that the grace of a disconnected one cannot end the wait behind it    *)
(* (Matching.tsx, the reconnect of the boot), unless a call of an earlier  *)
(* page, its beacon, reaches the service while this page is there.          *)
THEOREM WaitsConnected == Spec => []WaitingIsConnected
<1>1. ASSUME PageTrueInv PROVE WaitingIsConnected
  BY <1>1 DEF PageTrueInv, Connects, WaitingIsConnected
<1>. QED BY <1>1, PageTrueAlways, PTL

(* A page at rest, after any history of reloads, other pages and crossing  *)
(* answers, shows the pending request of its user, but in four cases: a    *)
(* card covers it, the timeout of the request it replaced, which            *)
(* handleAcceptFallback leaves when it came after the press, or a           *)
(* reconnect that a late call forestalled; the card of an older request is  *)
(* shown again; it is the request of a page the user had left, and the     *)
(* dashboard had looked before; or a call of the page failed. So the code   *)
(* does not keep the promise without exception; it breaks it there alone.  *)
THEOREM NothingPendingIsForgotten == Spec => []PendingIsShown
<1>1. ASSUME PageTrueInv PROVE PendingIsShown
  <2>0. /\ BaseInv /\ TypeInv /\ CallFits /\ CardFits /\ CardsAreTrue /\ DashboardKnows /\ RowsInOrder
        /\ IdsAreNamed
    BY <1>1 DEF PageTrueInv, FitInv, BaseInv
  <2>1. SUFFICES ASSUME call = NoCall, press.op = "none", view.page \in {"dashboard", "matching"},
                        Watches(view) => Pending(view.id),
                        NEW i \in Requests, Pending(i)
                 PROVE  \/ view.id = i /\ Watches(view)
                        \/ HiddenByCard(i)
                        \/ OldCard(i)
                        \/ view.page = "dashboard" /\ <<"left", i>> \in doubted
                        \/ faults > 0 /\ ~Watches(view)
    BY DEF PendingIsShown, Settled
  <2>2. call.op = "none"
    BY <2>1, NewCalls
  <2>3. CASE view.page = "dashboard"
    BY <2>0, <2>1, <2>2, <2>3 DEF DashboardKnows, Watches
  <2>4. CASE view.page = "matching"
    <3>1. view.id \in Requests /\ row[view.id].status # "FREE"
      BY <2>0, <2>2, <2>4, WatchedIsNamed
    <3>2. CASE Watches(view)
      BY <2>0, <2>1, <3>1, <3>2, OnePending
    <3>3. CASE ~Watches(view)
      <4>1. view.terminal # "none"
        BY <2>0, <2>2, <2>4, <3>3 DEF CallFits, Watches
      <4>2. CASE view.id < i
        BY <4>1, <4>2 DEF OldCard
      <4>3. CASE i < view.id
        BY <2>0, <2>1, <3>1, <4>3 DEF RowsInOrder, InOrder, Pending
      <4>4. CASE view.id = i
        <5>1. row[view.id].status = "PENDING"
          BY <2>1, <4>4 DEF Pending
        <5>2. view.terminal \in {"timeout", "reconnect"}
          BY <2>0, <4>1 DEF TypeInv, Views
        <5>3. CASE view.terminal = "timeout"
          BY <2>0, <4>4, <5>1, <5>3 DEF CardsAreTrue, CardOver, HiddenByCard
        <5>4. CASE view.terminal = "reconnect"
          BY <2>0, <3>3, <4>4, <5>1, <5>4 DEF CardsAreTrue, CardFits, HiddenByCard, Pending
        <5>. QED BY <5>2, <5>3, <5>4
      <4>. QED BY <3>1, <4>2, <4>3, <4>4 DEF Requests
    <3>. QED BY <3>2, <3>3
  <2>. QED BY <2>1, <2>3, <2>4
<1>. QED BY <1>1, PageTrueAlways, PTL

=============================================================================
