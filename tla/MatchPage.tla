----------------------------- MODULE MatchPage -----------------------------
(***************************************************************************)
(* A user's way through the dashboard, the matching page and the workspace, *)
(* against the matching service as the page sees it. A request of the page *)
(* is sent, served in one step (MatchQueue has the steps inside) and its   *)
(* answer applied later, when rows and page may have moved on. Outcomes    *)
(* reach a waiting page through the event stream, or through its poll.     *)
(***************************************************************************)
EXTENDS Integers, Sequences, FiniteSets

CONSTANTS MaxReq,    \* bound: match requests of the user
          MaxActs,   \* bound: what the user does, in total
          MaxFaults  \* bound: failed calls and broken streams

ASSUME MatchPageAssumption == MaxReq \in Nat /\ MaxActs \in Nat /\ MaxFaults \in Nat

Requests == 1..MaxReq

VARIABLES
    row,      \* the user's match requests, with the session of a match
    latest,   \* the request of the session created last
    untold,   \* outcomes whose broadcast is still to come
    late,     \* calls under way whose page is gone
    view,     \* what is shown: page, requestId, location.state, terminal, ready
    call,     \* what the page's effects await
    press,    \* what a button's handler awaits
    stream,   \* the EventSource: its stage, the row read for it, events under way
    poll,     \* the poll under way
    active,   \* the stored id of the active request; 0: none
    last,     \* the stored id of the last timed-out request; 0: none
    acts, faults,
    doubted   \* history: requests with what crossed a newer page or card (Doubts)

server == <<row, latest, untold>>
page == <<view, call, press, stream, poll>>
store == <<active, last>>
vars == <<server, late, page, store, acts, faults, doubted>>

(* What is noted of a request, for the properties only:                     *)
(*   "late"  a call of a page that was gone changed it behind a newer page; *)
(*   "left"  it was created, or accepted, for a page that had been left;    *)
(*   "card"  it replaced a request whose timeout card had come meanwhile.   *)
Doubts == {"late", "left", "card"} \X Requests

(* ------------------------------- answers ------------------------------- *)

Dto(i) == [id |-> i, status |-> row[i].status, disc |-> row[i].disc]
Reply(s) == [id |-> 0, status |-> s, disc |-> FALSE]
Sent == Reply("sent")
Failed == Reply("failed")

Pending(i) == row[i].status = "PENDING"

(* getActiveMatchRequestForUser: 204 without a pending row. *)
ActiveRow == IF \E i \in Requests : Pending(i)
             THEN Dto(CHOOSE i \in Requests : Pending(i)) ELSE Reply("none")

(* GET sessions/active: the session created last, whatever its state. *)
LatestSession == IF latest = 0 THEN Reply("none")
                 ELSE [id |-> latest, status |-> row[latest].session, disc |-> FALSE]

(* ------------------------------- the page ------------------------------ *)

Ask(op, i) == [op |-> op, id |-> i, res |-> Sent]
NoCall == [op |-> "none", id |-> 0, res |-> Failed]
NoPress == [op |-> "none", id |-> 0, card |-> FALSE, live |-> FALSE, res |-> Failed]
NoPoll == Reply("none")
Stream(s) == [stage |-> s, snap |-> Reply("none"), wire |-> <<>>]

Away == {"elsewhere", "closed"}

View(p, i, n) == [page |-> p, id |-> i, nav |-> n, terminal |-> "none", ready |-> FALSE]

(* The condition of the effects that listen, poll and report a page unload. *)
Watches(v) == v.page = "matching" /\ v.ready /\ v.terminal = "none"

(* The page becomes v and handler p waits: effects restart when v changes. *)
Show(v, p) ==
    /\ view' = v
    /\ press' = IF v.page = view.page THEN p ELSE [p EXCEPT !.live = FALSE]
    /\ IF Watches(v) /\ Watches(view) /\ v.id = view.id
       THEN UNCHANGED <<stream, poll>>
       ELSE /\ stream' = Stream(IF Watches(v) THEN "connecting" ELSE "off")
            /\ poll' = NoPoll

Dashboard(p) == /\ Show(View("dashboard", 0, 0), p)
                /\ call' = Ask("session", 0)

FirstKnown(n) == IF n # 0 THEN n ELSE IF active # 0 THEN active ELSE last

(* The matching page, opened with n in location.state. *)
Matching(n, i, p) == /\ Show(View("matching", i, n), p)
                     /\ call' = IF i = 0 THEN Ask("resolve", 0) ELSE Ask("get", i)

ToWorkspace(i, p) == /\ Show(View("workspace", i, 0), p)
                     /\ call' = NoCall

Card(v, kind) == [v EXCEPT !.terminal = kind, !.ready = @ \/ kind = "timeout"]

SetActive(i) == active' = i /\ last' = 0
ClearActive == active' = 0 /\ UNCHANGED last

(* A row that left the queue, as the boot and the listeners treat it. *)
Outcome(d, p) ==
    CASE d.status = "MATCHED" -> ClearActive /\ ToWorkspace(d.id, p)
      [] d.status = "CANCELLED" -> ClearActive /\ Dashboard(p)
      [] d.status = "TIMED_OUT" ->
            active' = 0 /\ last' = d.id /\ Show(Card(view, "timeout"), p) /\ call' = NoCall
      [] d.status = "RECONNECT_EXPIRED" ->
            ClearActive /\ Show(Card(view, "reconnect"), p) /\ call' = NoCall

(* ------------------------------ the server ----------------------------- *)

Answered(d) == call' = [call EXCEPT !.res = d]

Serve ==
    /\ call.op # "none" /\ call.res = Sent
    /\ \/ call.op = "session" /\ Answered(LatestSession) /\ UNCHANGED row
       \/ call.op \in {"active", "resolve"} /\ Answered(ActiveRow) /\ UNCHANGED row
       \/ call.op = "get" /\ Answered(Dto(call.id)) /\ UNCHANGED row
       \/ /\ call.op = "reconnect"
          /\ IF Pending(call.id) /\ row[call.id].disc
             THEN /\ row' = [row EXCEPT ![call.id].disc = FALSE]
                  /\ Answered([Dto(call.id) EXCEPT !.disc = FALSE])
             ELSE Answered(Failed) /\ UNCHANGED row
    /\ UNCHANGED <<latest, untold, late, view, press, stream, poll, store, acts, faults, doubted>>

NextRow == {n \in Requests : row[n].status = "FREE" /\ \A i \in 1..(n - 1) : row[i].status # "FREE"}
NewRow == [status |-> "PENDING", disc |-> FALSE, session |-> "none"]

Told(i, s) == [id |-> i, status |-> s, disc |-> FALSE]
Result(rows, dto) == [rows |-> rows, dto |-> dto]
Added(rows) == {Result([rows EXCEPT ![n] = NewRow], Told(n, "PENDING")) : n \in NextRow}
NonePending == \A j \in Requests : ~Pending(j)

(* What an operation may do and answer. A suggestion may have gone.        *)
Results(op, i) ==
    CASE op = "create" -> IF NonePending THEN Added(row) ELSE {Result(row, Reply("conflict"))}
      [] op = "conflict" -> {Result(row, ActiveRow)}
      [] op = "cancel" ->
            IF Pending(i) THEN {Result([row EXCEPT ![i].status = "CANCELLED", ![i].disc = FALSE],
                                       Told(i, "CANCELLED"))}
                          ELSE {Result(row, Failed)}
      [] op \in {"accept", "switch"} ->
            {Result(row, Failed)} \union
            (IF Pending(i) /\ ~row[i].disc
             THEN IF op = "accept" THEN {Result(row, Dto(i))}
                                   ELSE Added([row EXCEPT ![i].status = "CANCELLED"])
             ELSE IF row[i].status = "TIMED_OUT" /\ NonePending THEN Added(row) ELSE {})
      [] op \in {"disconnect", "reconnect"} ->
            {Result(IF Pending(i) THEN [row EXCEPT ![i].disc = (op = "disconnect")] ELSE row, Failed)}

ServePress ==
    /\ press.op # "none" /\ press.res = Sent
    /\ \E r \in Results(press.op, press.id) :
          /\ row' = r.rows
          /\ press' = [press EXCEPT !.res = r.dto]
          /\ untold' = IF r.dto.status = "CANCELLED" THEN untold \union {r.dto.id} ELSE untold
    /\ UNCHANGED <<latest, late, view, call, stream, poll, store, acts, faults, doubted>>

(* A call of a page that is gone arrives, perhaps after the next page. *)
ServeLate ==
    \E c \in late :
        /\ \E r \in Results(c.op, c.id) : row' = r.rows
        /\ late' = late \ {c}
        /\ doubted' = doubted \union
              {<<IF row[i].status = "FREE" THEN "left" ELSE "late", i>> :
                  i \in {j \in Requests : row'[j] # row[j] /\ view.page \notin Away}}
        /\ UNCHANGED <<latest, untold, page, store, acts, faults>>

(* A run of the queue ends the wait of a row. *)
LeaveQueue(i) ==
    /\ Pending(i)
    /\ \E s \in IF row[i].disc THEN {"RECONNECT_EXPIRED"} ELSE {"MATCHED", "TIMED_OUT"} :
          row' = [row EXCEPT ![i].status = s, ![i].disc = FALSE]
    /\ untold' = untold \union {i}
    /\ UNCHANGED <<latest, late, page, store, acts, faults, doubted>>

(* The hub tells the subscribers of this process; the row is read again. *)
Broadcast(i) ==
    /\ i \in untold
    /\ untold' = untold \ {i}
    /\ stream' = IF stream.stage = "live" /\ view.id = i
                 THEN [stream EXCEPT !.wire = Append(@, Dto(i))] ELSE stream
    /\ UNCHANGED <<row, latest, late, view, call, press, poll, store, acts, faults, doubted>>

SessionStarts(i) ==
    /\ row[i].status = "MATCHED" /\ row[i].session = "none"
    /\ row' = [row EXCEPT ![i].session = "active"]
    /\ latest' = i
    /\ UNCHANGED <<untold, late, page, store, acts, faults, doubted>>

(* A session ends, and a workspace that shows it returns to the dashboard. *)
SessionEnds(i) ==
    /\ row[i].session = "active"
    /\ row' = [row EXCEPT ![i].session = "terminated"]
    /\ IF view.page = "workspace" /\ view.id = i THEN Dashboard(press) ELSE UNCHANGED page
    /\ UNCHANGED <<latest, untold, late, store, acts, faults, doubted>>

(* ---------------------------- the dashboard ---------------------------- *)

Arrived(op) == call.op = op /\ call.res # Sent
QuietBut == UNCHANGED <<server, late, acts, faults>>
Quiet == QuietBut /\ UNCHANGED doubted

SessionChecked ==
    /\ Arrived("session") /\ Quiet
    /\ IF call.res.status = "active"
       THEN ToWorkspace(call.res.id, press)
       ELSE call' = Ask("active", 0) /\ UNCHANGED <<view, press, stream, poll>>
    /\ UNCHANGED store

(* Mutant of ActiveChecked: only the request in the storage is resumed. *)
ActiveCheckedByStore ==
    /\ Arrived("active") /\ Quiet
    /\ IF call.res.status = "PENDING" /\ call.res.id = active
       THEN SetActive(call.res.id) /\ Matching(call.res.id, call.res.id, press)
       ELSE call' = NoCall /\ UNCHANGED <<view, press, stream, poll, store>>

ActiveChecked ==
    /\ Arrived("active") /\ Quiet
    /\ IF call.res.status = "PENDING"
       THEN SetActive(call.res.id) /\ Matching(call.res.id, call.res.id, press)
       ELSE call' = NoCall /\ UNCHANGED <<view, press, stream, poll, store>>

Push(op, i) ==
    /\ press.op = "none"
    /\ acts < MaxActs
    /\ acts' = acts + 1
    /\ press' = [op |-> op, id |-> i, card |-> view.terminal = "timeout", live |-> TRUE, res |-> Sent]
    /\ UNCHANGED <<server, late, view, call, stream, poll, store, faults, doubted>>

StartMatching == view.page = "dashboard" /\ call = NoCall /\ Push("create", 0)

(* ---------------------------- the matching page ------------------------ *)

(* Without a stored id. (A stored last request would have been the first id.) *)
Resolved ==
    /\ Arrived("resolve") /\ Quiet
    /\ IF call.res.status = "PENDING"
       THEN /\ SetActive(call.res.id)
            /\ Show([view EXCEPT !.id = call.res.id], press)
            /\ call' = Ask("get", call.res.id)
       ELSE Dashboard(press) /\ UNCHANGED store

(* Mutant of Booted: the grace of a request is not ended. *)
BootedWithoutReconnect ==
    /\ Arrived("get") /\ Quiet
    /\ IF call.res = Failed THEN active' = 0 /\ last' = 0 /\ Dashboard(press)
       ELSE IF call.res.status # "PENDING" THEN Outcome(call.res, press)
       ELSE SetActive(call.res.id) /\ Show([view EXCEPT !.ready = TRUE], press) /\ call' = NoCall

Booted ==
    /\ Arrived("get") /\ Quiet
    /\ IF call.res = Failed THEN active' = 0 /\ last' = 0 /\ Dashboard(press)
       ELSE IF call.res.status # "PENDING" THEN Outcome(call.res, press)
       ELSE /\ SetActive(call.res.id)
            /\ IF call.res.disc
               THEN /\ call' = Ask("reconnect", call.res.id)
                    /\ UNCHANGED <<view, press, stream, poll>>
               ELSE Show([view EXCEPT !.ready = TRUE], press) /\ call' = NoCall

Reconnected ==
    /\ Arrived("reconnect") /\ Quiet
    /\ call' = NoCall
    /\ IF call.res = Failed
       THEN ClearActive /\ Show(Card(view, "reconnect"), press)
       ELSE Show([view EXCEPT !.ready = TRUE], press) /\ UNCHANGED store

(* What a listening page does with a row it hears of. *)
Apply(d) == IF d.status = "PENDING" THEN UNCHANGED <<view, call, press, store>>
            ELSE Outcome(d, press)

StreamReads ==
    /\ stream.stage = "connecting" /\ Watches(view)
    /\ stream' = [Stream("read") EXCEPT !.snap = Dto(view.id)]
    /\ UNCHANGED <<view, call, press, poll, store>> /\ Quiet

(* The row read is sent as the snapshot, and only then is the page subscribed. *)
StreamOpens ==
    /\ stream.stage = "read"
    /\ stream' = [stream EXCEPT !.stage = "live", !.wire = <<stream.snap>>]
    /\ UNCHANGED <<view, call, press, poll, store>> /\ Quiet

StreamEvent ==
    /\ stream.wire # <<>> /\ Quiet
    /\ IF Head(stream.wire).status = "PENDING"
       THEN stream' = [stream EXCEPT !.wire = Tail(@)] /\ UNCHANGED <<view, call, press, poll, store>>
       ELSE Outcome(Head(stream.wire), press)

StreamBreaks ==
    /\ stream.stage \in {"connecting", "read", "live"} /\ faults < MaxFaults
    /\ faults' = faults + 1
    /\ stream' = Stream("broken")
    /\ UNCHANGED <<server, late, view, call, press, poll, store, acts, doubted>>

(* connectSse, 3 s after an error. *)
StreamRetries ==
    /\ stream.stage = "broken" /\ stream' = Stream("connecting")
    /\ UNCHANGED <<view, call, press, poll, store>> /\ Quiet

(* Mutant of PollDue: the page polls only while its stream is broken. *)
PollDueWhenBroken ==
    /\ Watches(view) /\ stream.stage = "broken" /\ poll = NoPoll /\ poll' = Sent
    /\ UNCHANGED <<view, call, press, stream, store>> /\ Quiet

PollDue ==
    /\ Watches(view) /\ poll = NoPoll /\ poll' = Sent
    /\ UNCHANGED <<view, call, press, stream, store>> /\ Quiet

PollServed ==
    /\ poll = Sent /\ poll' = Dto(view.id)
    /\ UNCHANGED <<view, call, press, stream, store>> /\ Quiet

PollArrives ==
    /\ poll \notin {NoPoll, Sent} /\ Quiet
    /\ IF poll.status \in {"failed", "PENDING"}
       THEN poll' = NoPoll /\ UNCHANGED <<view, call, press, stream, store>>
       ELSE Outcome(poll, press)

(* The buttons of a waiting page, and of the card of a timed-out request. *)
AcceptFallback == /\ Watches(view) \/ view.terminal = "timeout"
                  /\ \E op \in {"accept", "switch"} : Push(op, view.id)

CancelSearch == Watches(view) /\ Push("cancel", view.id)

Answer == press.op # "none" /\ press.res # Sent

(* Mutant of Adopt: the card stays. *)
AdoptUnderCard(i) ==
    IF ~press.live THEN UNCHANGED <<view, call, stream, poll>> /\ press' = NoPress
    ELSE /\ Show([view EXCEPT !.id = i], NoPress)
         /\ call' = IF i = view.id THEN call ELSE Ask("get", i)

(* The new request of an accepted suggestion becomes the one of the page,   *)
(* and a card gives way only if it was shown when the button was pressed.  *)
Adopt(i) ==
    IF ~press.live THEN UNCHANGED <<view, call, stream, poll>> /\ press' = NoPress
    ELSE LET v == IF press.card THEN [view EXCEPT !.id = i, !.terminal = "none", !.ready = TRUE]
                  ELSE [view EXCEPT !.id = i]
         IN  /\ Show(v, NoPress)
             /\ call' = IF i = view.id THEN call ELSE Ask("get", i)

(* The old request timed out on the page after the button was pressed: its  *)
(* card stays, now over the new request.                                   *)
AdoptedUnderCard ==
    /\ press.res # Failed /\ press.live
    /\ ~press.card /\ view.terminal = "timeout" /\ press.res.id # press.id

Accepted ==
    /\ Answer /\ press.op \in {"accept", "switch"} /\ QuietBut
    /\ doubted' = CASE press.res # Failed /\ ~press.live -> doubted \union {<<"left", press.res.id>>}
                    [] AdoptedUnderCard -> doubted \union {<<"card", press.res.id>>}
                    [] OTHER -> doubted
    /\ IF press.res = Failed
       THEN press' = NoPress /\ UNCHANGED <<view, call, stream, poll, store>>
       ELSE /\ IF press.card \/ press.res.id # press.id
               THEN SetActive(press.res.id) ELSE UNCHANGED store
            /\ Adopt(press.res.id)

CancelDone ==
    /\ Answer /\ press.op = "cancel" /\ Quiet
    /\ IF press.res = Failed
       THEN press' = NoPress /\ UNCHANGED <<view, call, stream, poll, store>>
       ELSE /\ ClearActive
            /\ IF view.page = "dashboard"
               THEN press' = NoPress /\ UNCHANGED <<view, call, stream, poll>>
               ELSE Dashboard(NoPress)

(* handleStartMatching: the new request (its page opens whatever has become *)
(* of it since), or after a conflict the one there is.                     *)
Started ==
    /\ Answer /\ press.op \in {"create", "conflict"} /\ Quiet
    /\ \/ /\ press.res.status \in {"failed", "none"}
          /\ press' = NoPress /\ UNCHANGED <<view, call, stream, poll, store>>
       \/ /\ press.res.status = "conflict"
          /\ press' = [press EXCEPT !.op = "conflict", !.res = Sent]
          /\ UNCHANGED <<view, call, stream, poll, store>>
       \/ /\ press.res.status = "PENDING"
          /\ SetActive(press.res.id)
          /\ Matching(press.res.id, press.res.id, NoPress)

(* --------------------------- coming and going -------------------------- *)

Act == acts < MaxActs /\ acts' = acts + 1

(* What is under way for a service that changes state goes on without us. *)
Orphan == IF call = Ask("reconnect", call.id) THEN {[op |-> "reconnect", id |-> call.id]} ELSE {}

(* Another page of the application: the row stays pending and connected. *)
Leave ==
    /\ view.page \notin Away /\ Act
    /\ Show(View("elsewhere", 0, view.nav), press)
    /\ call' = NoCall
    /\ late' = late \union Orphan
    /\ UNCHANGED <<server, store, faults, doubted>>

(* pagehide: a waiting page sends a beacon that nobody waits for. *)
Close ==
    /\ view.page # "closed" /\ Act
    /\ Show(View("closed", 0, view.nav), NoPress)
    /\ call' = NoCall
    /\ late' = late \union Orphan
              \union (IF press.op # "none" /\ press.res = Sent /\ press.op # "conflict"
                      THEN {[op |-> press.op, id |-> press.id]} ELSE {})
              \union (IF Watches(view) THEN {[op |-> "disconnect", id |-> view.id]} ELSE {})
    /\ UNCHANGED <<server, store, faults, doubted>>

(* The dashboard, or the matching page: by its address, or again with the  *)
(* location.state that a reload and the history keep.                      *)
Visit ==
    /\ view.page \in Away
    /\ \/ Dashboard(press)
       \/ \E n \in {0, view.nav} : Matching(n, FirstKnown(n), press)
    /\ UNCHANGED <<server, late, store, acts, faults, doubted>>

(* A call of the page fails: the network, or an error of the service. *)
Fail ==
    /\ faults < MaxFaults /\ faults' = faults + 1
    /\ \/ call.op # "none" /\ call.res = Sent /\ Answered(Failed) /\ UNCHANGED <<press, poll>>
       \/ /\ press.op # "none" /\ press.res # Failed /\ press' = [press EXCEPT !.res = Failed]
          /\ UNCHANGED <<call, poll>>
       \/ poll = Sent /\ poll' = Failed /\ UNCHANGED <<call, press>>
    /\ UNCHANGED <<server, late, view, stream, store, acts, doubted>>

Init ==
    /\ row = [i \in Requests |-> [status |-> "FREE", disc |-> FALSE, session |-> "none"]]
    /\ latest = 0 /\ untold = {} /\ late = {}
    /\ view = View("closed", 0, 0)
    /\ call = NoCall /\ press = NoPress /\ stream = Stream("off") /\ poll = NoPoll
    /\ active = 0 /\ last = 0 /\ acts = 0 /\ faults = 0 /\ doubted = {}

Environment == \/ ServeLate \/ StreamBreaks \/ Fail
               \/ \E i \in Requests : \/ LeaveQueue(i) \/ Broadcast(i)
                                      \/ SessionStarts(i) \/ SessionEnds(i)

PageStep == \/ SessionChecked \/ ActiveChecked \/ Resolved \/ Booted
            \/ Reconnected \/ Accepted \/ CancelDone \/ Started

Listening == StreamReads \/ StreamOpens \/ StreamEvent \/ StreamRetries
Polling == PollDue \/ PollServed \/ PollArrives

UserStep == StartMatching \/ AcceptFallback \/ CancelSearch \/ Leave \/ Close \/ Visit

Next == Serve \/ ServePress \/ PageStep \/ Listening \/ Polling \/ UserStep \/ Environment

Spec == Init /\ [][Next]_vars

(* The interval of 10 s goes off again and again, and calls are answered. *)
FairSpec == Spec /\ WF_vars(Polling)

(* ------------------------------ properties ----------------------------- *)

(* The variables have their types. *)
Status == {"FREE", "PENDING", "MATCHED", "TIMED_OUT", "RECONNECT_EXPIRED", "CANCELLED"}
PageTypeOK ==
    /\ row \in [Requests -> [status : Status, disc : BOOLEAN, session : {"none", "active", "terminated"}]]
    /\ latest \in 0..MaxReq /\ untold \subseteq Requests /\ doubted \subseteq Doubts
    /\ view \in [page : {"dashboard", "matching", "workspace", "elsewhere", "closed"}, id : 0..MaxReq,
                 nav : 0..MaxReq, terminal : {"none", "timeout", "reconnect"}, ready : BOOLEAN]
    /\ active \in 0..MaxReq /\ last \in 0..MaxReq
    /\ active = 0 \/ last = 0
    /\ \A i, j \in Requests : Pending(i) /\ Pending(j) => i = j

(* What the page says about a request it shows is so in its row. Two cases  *)
(* of the code are not so: the timeout card of a request that was replaced *)
(* by an accepted suggestion while the card came (handleAcceptFallback), and *)
(* a lost connection shown because the reconnect failed, or because a late  *)
(* call of an earlier page had ended the grace before it.                  *)
CardIsTrue ==
    /\ view.page = "workspace" => row[view.id].status = "MATCHED"
    /\ view.terminal = "timeout" => row[view.id].status = "TIMED_OUT" \/ <<"card", view.id>> \in doubted
    /\ view.terminal = "reconnect" =>
          ~Pending(view.id) \/ faults > 0 \/ <<"late", view.id>> \in doubted

(* The page has its shape, and shows no outcome that did not happen.        *)
PageInv == PageTypeOK /\ CardIsTrue

Settled == call = NoCall /\ press.op = "none"

(* A page that waits has reconnected its request, unless the beacon of an   *)
(* earlier page came after that.                                           *)
WaitingIsConnected ==
    Watches(view) /\ Settled => ~row[view.id].disc \/ <<"late", view.id>> \in doubted

(* The card of an earlier request, shown again from location.state or the   *)
(* storage while a later one is pending.                                   *)
OldCard(i) == view.terminal # "none" /\ view.id < i

(* A card covers the pending request itself: the timeout of the one it      *)
(* replaced (handleAcceptFallback keeps a card that came after the press), *)
(* or a lost connection, since a late call of an earlier page had ended the *)
(* grace and the reconnect of this page was refused.                       *)
HiddenByCard(i) ==
    /\ view.id = i
    /\ \/ view.terminal = "timeout" /\ <<"card", i>> \in doubted
       \/ view.terminal = "reconnect" /\ <<"late", i>> \in doubted

(* A page at rest shows the pending request of its user. The code fails to *)
(* do so in four cases, and in no other: a card covers the request; the    *)
(* card of an older one is shown again; the user left the page that asked   *)
(* for it, and the dashboard had looked before it was there; or a call of  *)
(* the page failed. (A page that waits on a request that is over is not at *)
(* rest: OutcomeIsShown.)                                                  *)
PendingIsShown ==
    Settled /\ view.page \in {"dashboard", "matching"} /\ (Watches(view) => Pending(view.id)) =>
        \A i \in Requests : Pending(i) =>
            \/ view.id = i /\ Watches(view)
            \/ HiddenByCard(i)
            \/ OldCard(i)
            \/ view.page = "dashboard" /\ <<"left", i>> \in doubted
            \/ faults > 0 /\ ~Watches(view)

(* A waiting page learns of the end of the wait. *)
OutcomeIsShown ==
    \A i \in Requests :
        (Watches(view) /\ view.id = i /\ ~Pending(i)) ~> ~(Watches(view) /\ view.id = i)
=============================================================================
