---------------------------- MODULE MatchEvents ----------------------------
(***************************************************************************)
(* From a committed match to the collaboration session both users see:     *)
(* match.found through RabbitMQ to the consumer of the collaboration       *)
(* service (messaging/matchConsumer.ts), the creation of the session       *)
(* (services/SessionService.ts), by event or by POST /sessions, and the    *)
(* polling of the workspace page (Peerprep-app/src/pages/Workspace.tsx).   *)
(*                                                                         *)
(* The consumer keeps its channel in a module variable that every          *)
(* initialisation overwrites, and settles a message on whatever channel    *)
(* the variable holds by then.  Delivery tags count per channel, so the    *)
(* model keeps channels with their deliveries in order.  A broken          *)
(* connection raises error and close, or close alone, and each starts an   *)
(* initialisation; one initialisation is one step here.                    *)
(***************************************************************************)
EXTENDS Naturals, Sequences, FiniteSets

CONSTANTS
  Matches,      \* matches, by their id "requestA:requestB"
  Questions,    \* questions the question service may answer
  Fallback,     \* "fallback-question"
  None,         \* no session
  MaxChannels,  \* bound: channels opened
  MaxBreaks,    \* bound: connections broken by the network
  MaxFailures,  \* bound: failing statements
  MaxCrashes,   \* bound: deaths of the collaboration service
  MaxPolls      \* maxRetries of the workspace page

ASSUME NoneAssumption == None \notin Questions \union {Fallback}
ASSUME BoundAssumption == {MaxChannels, MaxBreaks, MaxFailures, MaxCrashes, MaxPolls} \subseteq Nat

ChannelId == 1..MaxChannels

Pages == Matches \X {1, 2}

(* Questions a session may have, or None. *)
Answers == Questions \union {Fallback, None}

(* A call of createSession: for delivery tag of channel ch, or for POST     *)
(* (channel 0).                                                             *)
TaskType ==
  [ch : 0..MaxChannels, tag : Nat, match : Matches,
   phase : {"look", "pick", "insert", "settle"}, question : Answers]

VARIABLES
  matched,    \* matches committed by the matching service
  routed,     \* match.found events that reached the queue
  bound,      \* the queue is declared and bound to the exchange
  queue,      \* messages ready in collaboration.match_found
  channel,    \* up; deliveries by tag; tags settled
  opened,     \* channels opened so far
  active,     \* the module variable channel, 0 for null
  inits,      \* initialisations under way
  task,       \* calls of createSession in progress
  session,    \* the question of each session, None without a row
  page,       \* workspace pages
  breaks, failures, crashes

vars == <<matched, routed, bound, queue, channel, opened, active, inits, task,
          session, page, breaks, failures, crashes>>

broker == <<bound, queue, channel, opened, active, inits>>
counts == <<breaks, failures, crashes>>

ChannelType == [up : BOOLEAN, got : Seq(Matches), settled : SUBSET Nat]
PageType ==
  [phase : {"away", "polling", "open", "ended"}, tries : 0..MaxPolls, question : Answers]

Closed == [up |-> FALSE, got |-> <<>>, settled |-> {}]

TypeOK ==
  /\ matched \in SUBSET Matches
  /\ routed \in SUBSET matched
  /\ bound \in BOOLEAN
  /\ queue \in SUBSET Matches
  /\ channel \in [ChannelId -> ChannelType]
  /\ \A i \in ChannelId : channel[i].settled \subseteq DOMAIN channel[i].got
  /\ opened \in 0..MaxChannels
  /\ active \in 0..opened
  /\ inits \in Nat
  /\ task \in SUBSET TaskType
  /\ session \in [Matches -> Answers]
  /\ page \in [Pages -> PageType]
  /\ breaks \in 0..MaxBreaks
  /\ failures \in 0..MaxFailures
  /\ crashes \in 0..MaxCrashes

Init ==
  /\ matched = {}
  /\ routed = {}
  /\ bound = FALSE
  /\ queue = {}
  /\ channel = [i \in ChannelId |-> Closed]
  /\ opened = 0
  /\ active = 0
  /\ inits = 1
  /\ task = {}
  /\ session = [m \in Matches |-> None]
  /\ page = [p \in Pages |-> [phase |-> "away", tries |-> 0, question |-> None]]
  /\ breaks = 0
  /\ failures = 0
  /\ crashes = 0

Outstanding(i) ==
  {channel[i].got[t] : t \in DOMAIN channel[i].got \ channel[i].settled}

-----------------------------------------------------------------------------
(* The matching service *)

(* A matcher run commits the pair; the pages of both users open.  Its event *)
(* goes to the queue if that is bound already, and is lost if the publish   *)
(* fails or nobody is bound.                                                *)
Match(m) ==
  /\ m \notin matched
  /\ matched' = matched \union {m}
  /\ \/ bound /\ queue' = queue \union {m} /\ routed' = routed \union {m}
     \/ UNCHANGED <<queue, routed>>
  /\ page' = [p \in Pages |-> IF p[1] = m THEN [page[p] EXCEPT !.phase = "polling"] ELSE page[p]]
  /\ UNCHANGED <<bound, channel, opened, active, inits, task, session, counts>>

-----------------------------------------------------------------------------
(* The consumer's connections *)

(* initMatchConsumer; when it fails it schedules itself again. *)
Connect ==
  /\ inits > 0
  /\ opened < MaxChannels
  /\ opened' = opened + 1
  /\ active' = opened + 1
  /\ inits' = inits - 1
  /\ bound' = TRUE
  /\ channel' = [channel EXCEPT ![opened + 1] = [Closed EXCEPT !.up = TRUE]]
  /\ UNCHANGED <<matched, routed, queue, task, session, page, counts>>

(* Channel i goes down: the broker takes back what was not settled, and     *)
(* again initialisations are scheduled.                                     *)
GoDown(i, again) ==
  /\ queue' = queue \union Outstanding(i)
  /\ channel' = [channel EXCEPT ![i] = Closed]
  /\ inits' = inits + again

Break(i) ==
  /\ channel[i].up
  /\ breaks < MaxBreaks
  /\ breaks' = breaks + 1
  /\ \E again \in {1, 2} : GoDown(i, again)
  /\ UNCHANGED <<matched, routed, bound, opened, active, task, session, page, failures, crashes>>

Deliver(i, m) ==
  /\ channel[i].up
  /\ m \in queue
  /\ queue' = queue \ {m}
  /\ channel' = [channel EXCEPT ![i].got = Append(@, m)]
  /\ task' = task \union {[ch |-> i, tag |-> Len(channel[i].got) + 1, match |-> m,
                           phase |-> "look", question |-> None]}
  /\ UNCHANGED <<matched, routed, bound, opened, active, inits, session, page, counts>>

(* The process dies and is started again. *)
Die ==
  /\ queue' = queue \union UNION {Outstanding(i) : i \in ChannelId}
  /\ channel' = [i \in ChannelId |-> Closed]
  /\ active' = 0
  /\ inits' = 1
  /\ task' = {}
  /\ UNCHANGED <<matched, routed, bound, opened, session, page, breaks, failures>>

Crash == crashes < MaxCrashes /\ crashes' = crashes + 1 /\ Die

-----------------------------------------------------------------------------
(* Creating the session *)

(* POST /sessions: the matching service confirms that the caller's request  *)
(* is matched with the other; the session id is the sorted pair of request  *)
(* ids, as in the event.                                                    *)
PostSession(m) ==
  /\ m \in matched
  /\ ~\E t \in task : t.ch = 0
  /\ task' = task \union {[ch |-> 0, tag |-> 0, match |-> m, phase |-> "look", question |-> None]}
  /\ UNCHANGED <<matched, routed, broker, session, page, counts>>

Advance(t, phase, q) ==
  task' = (task \ {t}) \union {[t EXCEPT !.phase = phase, !.question = q]}

LookUp(t) ==
  /\ t.phase = "look"
  /\ Advance(t, IF session[t.match] = None THEN "pick" ELSE "settle", None)
  /\ UNCHANGED <<matched, routed, broker, session, page, counts>>

(* By topic and difficulty, by difficulty, any, or the fallback. *)
PickQuestion(t, q) ==
  /\ t.phase = "pick"
  /\ Advance(t, "insert", q)
  /\ UNCHANGED <<matched, routed, broker, session, page, counts>>

(* Mutant: the row is written whether it exists or not. *)
InsertOrUpdate(t) ==
  /\ t.phase = "insert"
  /\ session' = [session EXCEPT ![t.match] = t.question]
  /\ Advance(t, "settle", None)
  /\ UNCHANGED <<matched, routed, broker, page, counts>>

(* The primary key decides a race (P2002). *)
Insert(t) ==
  /\ t.phase = "insert"
  /\ session' = IF session[t.match] = None
                THEN [session EXCEPT ![t.match] = t.question] ELSE session
  /\ Advance(t, "settle", None)
  /\ UNCHANGED <<matched, routed, broker, page, counts>>

(* Any other error of the two statements is thrown. *)
Fail(t) ==
  /\ t.phase \in {"look", "insert"}
  /\ failures < MaxFailures
  /\ failures' = failures + 1
  /\ Advance(t, "settle", None)
  /\ UNCHANGED <<matched, routed, broker, session, page, breaks, crashes>>

Answer(t) ==
  /\ t.phase = "settle"
  /\ t.ch = 0
  /\ task' = task \ {t}
  /\ UNCHANGED <<matched, routed, broker, session, page, counts>>

(* Mutant: the message is acknowledged before the session is created. *)
SettleWhenDelivered(t) ==
  /\ t.ch # 0
  /\ t.phase = "look"
  /\ channel[t.ch].up
  /\ t.tag \notin channel[t.ch].settled
  /\ channel' = [channel EXCEPT ![t.ch].settled = @ \union {t.tag}]
  /\ UNCHANGED <<matched, routed, bound, queue, opened, active, inits, task, session, page, counts>>

(* ack after createSession, nack without requeue if it threw: either way    *)
(* the broker forgets the delivery with this tag on the active channel.  A  *)
(* tag the channel does not know makes the broker close it.  On a closed    *)
(* channel ack throws, so does nack, and the process dies of the rejection. *)
Settle(t) ==
  /\ t.phase = "settle"
  /\ t.ch # 0
  /\ IF ~channel[active].up
     THEN Die /\ UNCHANGED crashes
     ELSE /\ IF t.tag \in DOMAIN channel[active].got \ channel[active].settled
             THEN /\ channel' = [channel EXCEPT ![active].settled = @ \union {t.tag}]
                  /\ UNCHANGED <<queue, inits>>
             ELSE GoDown(active, 2)
          /\ task' = task \ {t}
          /\ UNCHANGED <<matched, routed, bound, opened, active, session, page, counts>>

-----------------------------------------------------------------------------
(* The workspace page *)

Load(p, fields) ==
  /\ page[p].phase = "polling"
  /\ page' = [page EXCEPT ![p] = fields]
  /\ UNCHANGED <<matched, routed, broker, task, session, counts>>

(* GET /sessions/:id answers 404 and the page asks again in a second. *)
PollAgain(p) ==
  /\ session[p[1]] = None
  /\ page[p].tries < MaxPolls
  /\ Load(p, [page[p] EXCEPT !.tries = @ + 1])

(* The page opens: with the question of the session, or without one after   *)
(* MaxPolls misses or when a request fails.                                 *)
Open(p) ==
  \E q \in {session[p[1]], None} : Load(p, [page[p] EXCEPT !.phase = "open", !.question = q])

(* The five second check of an open page: without a session it ends. *)
Check(p) ==
  /\ page[p].phase = "open"
  /\ session[p[1]] = None
  /\ page' = [page EXCEPT ![p].phase = "ended"]
  /\ UNCHANGED <<matched, routed, broker, task, session, counts>>

(* One step of a call for match m that channel c delivered. *)
TaskStep(m, c) ==
  \E t \in task :
    /\ t.match = m
    /\ t.ch = c
    /\ \/ LookUp(t) \/ Insert(t) \/ Fail(t) \/ Answer(t) \/ Settle(t)
       \/ \E q \in Questions \union {Fallback} : PickQuestion(t, q)

Next ==
  \/ Connect
  \/ Crash
  \/ \E m \in Matches : Match(m) \/ PostSession(m) \/ \E i \in ChannelId : Deliver(i, m)
  \/ \E i \in ChannelId : Break(i)
  \/ \E m \in Matches, c \in 0..MaxChannels : TaskStep(m, c)
  \/ \E p \in Pages : PollAgain(p) \/ Open(p) \/ Check(p)

Spec == Init /\ [][Next]_vars

(* The broker delivers, promises settle and timers fire.  Nobody has to     *)
(* call POST /sessions.                                                     *)
Fairness ==
  /\ WF_vars(Connect)
  /\ \A m \in Matches :
       /\ WF_vars(\E i \in ChannelId : Deliver(i, m))
       /\ \A c \in 0..MaxChannels : WF_vars(TaskStep(m, c))
  /\ \A p \in Pages : WF_vars(PollAgain(p) \/ Open(p)) /\ WF_vars(Check(p))

FairSpec == Spec /\ Fairness

-----------------------------------------------------------------------------
(* Properties *)

(* Once a session exists it keeps its question, however often its match is  *)
(* delivered again, by however many consumers, and whoever posts.           *)
SessionIsFixed ==
  [][\A m \in Matches : session[m] # None => session'[m] = session[m]]_session

(* Two users in one session look at the same question. *)
PeersSeeOneQuestion ==
  \A m \in Matches :
    page[<<m, 1>>].question # None /\ page[<<m, 2>>].question # None
      => page[<<m, 1>>].question = page[<<m, 2>>].question

(* A match whose event reached the queue has its session or is being given  *)
(* one, or the event is still there for a consumer, as long as no statement *)
(* failed (README:339, "the message remains in the queue and is processed   *)
(* when the service recovers").                                             *)
NoMatchIsForgotten ==
  \A m \in routed :
    failures = 0 =>
      \/ session[m] # None
      \/ m \in queue
      \/ \E i \in ChannelId : channel[i].up /\ m \in Outstanding(i)
      \/ \E t \in task : t.match = m

(* Hence it gets a session, whatever crash or restart comes between, unless *)
(* a statement fails or the connection breaks (a failed creation is dropped, *)
(* and a channel too late to settle its delivery keeps it from the next).  *)
EveryRoutedMatchGetsASession ==
  \A m \in Matches : (m \in routed) ~> (session[m] # None \/ failures > 0 \/ breaks > 0)

=============================================================================
