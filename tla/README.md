# Verification of PeerPrep

TLA+ models of PeerPrep, a platform where two students are matched by topic,
language and difficulty and then solve an interview question together. TLC
model-checks the models on small instances; TLAPS proves the central safety
properties for every number of users, requests and processes.

## 1. The system

| Component | State it keeps | Operations | Talks to |
|---|---|---|---|
| matching-service: engine (`matchingEngine.ts`) | none | select the next pair | the queue |
| matching-service: queue (`matchRequestService.ts`) | table `MatchRequest` in PostgreSQL | create, get, cancel, disconnect, reconnect, accept fallback; matcher run (expire, join) | engine, work queue, domain events, SSE hub |
| matching-service: work queue (`rabbitMatchQueue.ts`, `index.ts`) | RabbitMQ queue `matching.match.work`, connections | publish work, consume, periodic tick, inline fallback | broker, matcher run |
| matching-service: domain events (`matchingDomainEvents.ts`, `rabbitmqPublisher.ts`) | publisher channel | publish `match.found`, `match.timed_out`, `match.request.*` | collaboration, chat |
| matching-service: SSE hub (`matchRequestSseHub.ts`, `matchingRoutes.ts`) | subscribers per request | subscribe, broadcast | browsers |
| matching-service: fallback suggestions, topic activity | 60 s cache | compute advice | queue |
| collaboration-service: consumer (`matchConsumer.ts`) | queue of `match.found`, connection | create a session per event, ack or drop, reconnect | session service |
| collaboration-service: sessions (`SessionService.ts`, `SessionManager.ts`, `index.ts`, `routes/session.ts`) | table `Session`; live rooms, timers, Yjs documents in memory | create, verify, connect, close, terminate, save | browsers, question and user services |
| chat-service | GetStream channels | create a channel per `match.found`, delete on request | GetStream |
| code-execution-service (Go) | semaphore, one container per run | execute | Docker |
| question-service (Go) | MongoDB, Redis cache | list, create, update, delete, mark completed | Redis |
| auth-service, user-service | refresh tokens, users | login, refresh, logout, profile, admin | PostgreSQL |
| ai-service | rate limits per user | explain, translate | model API |
| front end (`Peerprep-app`) | page state, Yjs maps shared by the two editors | matching page, workspace, question pages | all services |

What is hard about it:

* The matcher runs concurrently with itself: every replica consumes the work
  queue, the tick and a broken broker run it inline, and each run is a
  multi-statement transaction at READ COMMITTED whose reads go stale.
* Handlers read a row, wait, and then update it, while runs do the same.
* Events are published after the commit, one by one, best effort.
* Sessions live in memory with timers; connections, grace periods, the
  inactivity timer and termination race.
* The two browsers share a Yjs document and agree through it on running code.

* Pages answer to calls, streams, polls, beacons and reloads that cross.

What makes each part correct is stated with its module in section 3; what is
left out, and why, in section 6. `PROJECT.json` maps every definition to the
lines it models.

## 2. Modules

| Module | Models | Checked by | Proved in |
|---|---|---|---|
| `MatchingEngine` | pair selection, as operators | `MCMatchingEngine` | `MatchingEngineProofs` |
| `Pairing` | abstract specification: requests join a waiting set once and leave it alone or in pairs | through `MatchQueue` | |
| `MatchQueue` | the request table, matcher runs, handlers, events; implements `Pairing` | `MCMatchQueue` | `MatchQueueProofs` |
| `CollabSession` | one collaboration session: row, document, room, timers, sockets, terminations | `MCCollabSession` | `CollabSessionProofs` |
| `MatchWork` | what starts the runs: messages, replicas, the broker; on top of `MatchQueue` | `MCMatchWork` | `MatchWorkProofs` |
| `MatchPage` | one user's pages against the matching service | `MCMatchPage` | `MatchPageProofs` |
| `Executor` | the code execution service | through `Workspace` | `WorkspaceProofs` |
| `Workspace` | two workspace pages, their shared document and messages; on top of `Executor` | `MCWorkspace` | `WorkspaceProofs` |
| `Accounts` | browsers, gateway, accounts, tokens, pictures | through `QuestionStore` | `QuestionStoreProofs` |
| `QuestionStore` | questions, completions, cache, their pages; on top of `Accounts` | `MCQuestionStore` | `QuestionStoreProofs` |
| `MatchEvents` | `match.found` from the queue to the session both pages show | `MCMatchEvents` | `SessionCreationProofs` |

Definitions marked "Mutant of ..." in a module are deliberate slips of the
definition that follows; nothing uses them except the sensitivity checks, which
put each in the place of the original and expect a property to fail.

## 3. The models

### 3.1 MatchingEngine

Rows are records `[id, user, pool, diff, low, time, created]`; a pool is a pair
(topic, language). The code sorts arrays and returns the first pair or `null`;
the operators answer the set of pairs that may be returned, which is empty or a
singleton because the order is total (`SelectionIsDeterministic` checks just
that). `MCMatchingEngine` starts from every set of up to three waiting requests
(three users, two pools, three levels, opt-in or not, two times, two instants)
and takes the selected pair out. Three requests are enough for every rule
to matter: a requester, a partner, and a rival for either role.

### 3.2 MatchQueue

A row of the table is split into the columns only INSERT writes (`req`) and
those UPDATEs write (`row`: status, opt-in, reconnect deadline, partner). Status
`FREE` means that the id is not used yet. `disconnectedAt` and
`reconnectDeadlineAt` are always written together and are one `deadline` here.

A matcher run `m` goes through `pc[m]`:

    idle -> expire -> timeouts -> timeout -> pools -> scan -> first -> second -> pools ...
                                             pools/scan/first -> commit -> publish -> idle

one step per SQL statement (`Begin`, `ExpireReconnects`, `ReadTimeouts`,
`TimeOut`, `ReadPools`, `ScanPool`, `JoinFirst`, `JoinSecond`, `Commit`), then
one step per published event. `wr[m]` holds the row versions the run has
written and not committed: they are visible to the run only, and they are its
row locks. An UPDATE waits while another run has a row it wants (`MayLock`) and
then judges the committed version, as PostgreSQL does at READ COMMITTED. A run
that waits may be given up (deadlock victim, 5 s transaction limit: `GiveUp`),
any run may crash (`Crash`), and a missing partner rolls the whole run back
(`PartnerGone`). A publish may fail silently: the step then changes nothing but
the list of what is left to publish.

Handlers are a read (`ReadForCall`, which keeps the clock value it computed
with) and a guarded UPDATE (`UpdateForCall`); the topic switch is its own
transaction (`SwitchRead`, `SwitchWrite`); create and cancel are single steps,
because what they read first only selects an error code. In this module a run
may begin at any time; `MatchWork` says what makes it begin.

Left out: which topics the fallback offers and the waiting time from which it
offers them (any pool may be chosen at any time before the time-out), DTOs and
SSE.

Properties and what they are about:

* `PairsAreMutual`: committed partners name each other, are two users of one
  pool, and one of them consented to the other's level.
* `PairsLeaveTogether`: the table implements `Pairing`; in particular both rows
  of a pair leave the queue in one step.
* `LeavesQueueForGood`, `OnlyConnectedAreMatched`, `GraceIsHonoured`: action
  properties against stale reads.
* `OnePendingPerUser`: the partial unique index, across create, topic switch
  and runs that have not committed.
* `NoEarlyTimeout`: the cutoff is judged with the run's own, later clock.
* `AnnouncedIsCommitted`: `match.found` agrees with the table and is sent at
  most once per request.

### 3.3 CollabSession

One session id stands for all: sessions share only the process. `status` and
`saved` are the row, `ydoc` the document y-websocket keeps (the set of updates
merged into it, the end mark among them), `current` and `entry` what
`activeSessions` holds. Entries have an identity of their own because close
handlers and terminations keep the one they captured, while timers look the
session up by name again. A socket goes

    new -> reading -> read -> joined -> done

with the answer of the database (`RowRead`) and the continuation after the
`await` (`Join`, `RejectEnded`) as separate steps; it may close at any point,
also before it joins, in which case it joins closed. A termination, begun by a
timer (`GraceFires`, `InactivityFires`) or by the PATCH route (`EndRequested`,
`EndBegins`), has one step per statement and one for the delayed closing of the
sockets. Two may overlap. `ClientSeesEnd` is the reaction of the browser to the
end mark. Reads and writes may fail (`MaxFailures`), the service may restart
(`MaxCrashes`); statements in flight then are lost. y-websocket keeps documents
until the process ends, since no persistence is configured for it.

Properties:

* `RoomInv` (types and `GraceOnlyInShortRooms`), `GraceWatchesShortRooms`: the
  grace timer runs in short rooms only, and a room that became short has it
  until it is full or being ended.
* `RoomShowsWhatIsSaved`: a live document contains what the row holds, across
  restarts, so a save cannot lose persisted work, as long as no read fails.
* `NobodyStaysInAnEndedSession`, `EveryRoomEnds`: liveness; also for sockets
  accepted on a stale row, sockets that joined closed, and overlapping ends. It
  is the inactivity timer of the new room and the end mark together that rescue
  these cases.
* `EveryEditIsSaved`: every edit of an active session that is not being ended
  is in the row at some time unless a statement failed, also one typed before the listener was registered.

Left out: `terminateReason` and `terminatedBy`, the question, the language, and
the texts shown to users.

### 3.4 MatchEvents

`Match` commits a pair (all `MatchQueue` says about it) and publishes its event,
which reaches the queue once that is bound, or is lost. The consumer of the
collaboration service opens channels (`Connect`), loses them (`Break`, by the
network, with one or two reconnections scheduled by the `error` and `close`
handlers), receives deliveries (`Deliver`) and may die (`Crash`). A call of
`createSession`, for a delivery or for POST /sessions, is a task with one step
per `await`: `LookUp`, `PickQuestion`, `Insert`, and `Settle` or `Answer`. The
code settles on the module variable `channel`, which any later initialisation
overwrites; since delivery tags count per channel, the model keeps the
deliveries of each channel in order. A tag unknown to the channel makes the
broker close it; settling on a closed channel throws, in the `catch` as well,
and the rejection ends the process. The workspace page polls (`PollAgain`,
`Open`) and checks again while open (`Check`).

Properties:

* `SessionIsFixed`, `PeersSeeOneQuestion`: two consumers, a redelivery and a
  POST race, each with its own random question, and the first row stays.
* `EveryRoutedMatchGetsASession`: an event in the queue becomes a session, across
  a broken connection and a restart, as long as no statement fails.
* `NoMatchIsForgotten`: an event in the queue is not lost before its session
  exists. With two matches and a broken connection the code refutes it
  (section 7), so no passing run checks it.

Left out: why question selection falls back (any question, or the fallback, may
come out), and the chat service's own queue.

### 3.5 MatchWork

`MatchWork` EXTENDS `MatchQueue`; a replica of the matching service is a matcher
of it, and runs one message at a time (`prefetch(1)`). `ready` counts the
messages of the durable work queue (capped: a further message would only cause
another run), `unacked` says that the replica runs for a message, `consumer`
where its consumer stands. `SendWork` stands for the tick and every handler;
with the broker away the same callers run the matcher themselves (`RunInline`).
When the broker stops, deliveries return to the queue, and a consumer becomes
`broken` if a run is under way (its `ack` and `nack` will throw and end the
process) or else `deaf`: the code only logs the broken connection and never
consumes again. A consumer that fails at startup is retried.

* `WorkAnswersRequests`: whatever breaks or restarts, a pending request is
  matched, cancelled, timed out or under grace at the end of its wait, unless
  every replica is deaf. This excepted case is real: with the broker back and
  all consumers deaf the messages pile up.
* `WorkTypeOK` (proved, not run): a message under way belongs to a listening
  replica, or to one whose channel broke during the run.

### 3.6 MatchPage

One user, whose page is the dashboard, the matching page, the workspace, another
page or closed. `view` is what is shown, with the id from `location.state` (it
survives reloads); `call` is what the page's effects await, `press` what a
button's handler awaits (it may come back to a page that moved on: `live`), and
`stream` and `poll` are the two ways a waiting page learns of its row. `Show`
restarts the effects whenever their dependencies change, as React does. The
service is seen through its answers: `Serve`, `ServePress` and `PollServed` act
on the row in one step (`MatchQueue` has the steps inside), `LeaveQueue` and
`Broadcast` separate the commit of a run from what the hub sends. `StreamReads`
and `StreamOpens` separate reading the snapshot from subscribing. `Close` leaves
calls behind in `late`, among them the disconnect beacon of a closed page, which
may arrive after the next page has reconnected.

* `PageInv`: at most one request is pending, the stored ids exclude each other
  (`PageTypeOK`), and a card or the workspace is shown only for a row that has
  that outcome (`CardIsTrue`). Excepted are the timeout card left over the request
  of an accepted suggestion (`"card"`, below), and a lost connection that is shown
  because the reconnect failed or a late call had ended the grace (`"late"`).
* `WaitingIsConnected`: a page that waits has ended the grace of its request,
  unless a late call, such as the beacon of an earlier page, came after that.
* `PendingIsShown`: a page at rest shows the user's pending request. The code
  does so except in four cases, which the property names:
  1. a card covers this request (`HiddenByCard`): the timeout of the request it
     replaced, or a lost connection, as for `PageInv`;
  2. the card of an older request is shown again (`OldCard`), from
     `location.state` or the storage;
  3. the user left the page that asked for the request, and the dashboard had
     looked before it was made (`"left"`);
  4. a call of the page failed.
* `OutcomeIsShown` (liveness): a waiting page learns of the end of the wait,
  although the update may fall between snapshot and subscription, or the stream
  break.

`doubted` is a history variable that holds why a request may be shown wrongly,
one reason for each case of the code, and a property excepts a request only for
the reason that bears on it:

* `"late"`: a call of a page that is gone (its beacon, a reconnect, a cancel)
  changed the row while another page was there (`ServeLate`);
* `"left"`: the request was made by such a call, or by a suggestion accepted on a
  page the user had left when the answer came (`ServeLate`, `Accepted`);
* `"card"`: a suggestion was accepted, and the old request timed out on the page
  before the answer came (`AdoptedUnderCard`). `handleAcceptFallback` remembers
  `terminal` from the press (`Matching.tsx:479`) and does not clear the card
  (`:523-539`), so the new request waits behind the timeout card of the old one.

None of the exceptions is idle: without any one of them TLC finds a violation.

### 3.7 Executor

A job goes through `stage`: fetch the test cases, wait for a slot, create, copy,
start, wait, perhaps kill, remove, release, answer; every call to Docker may
fail, and one that fails may still have had its effect. The user's program ends
on its own or never. `box` is the container as Docker sees it. The removal is
deferred after the copy only, which the model keeps.

* `NothingRunsUnattended`: no program outlives its job's slot unless Docker
  refused the removal; a failed kill alone is not enough.
* `ContainersAreRemoved`: a container is gone when its job is answered, unless
  creating or copying failed (then it leaks) or removing did.
* `SlotsAreBounded`, `ExecTypeOK` (proved, not run): the semaphore counts the
  jobs that hold a slot, on every path.

### 3.8 Workspace

Two users in tabs with Yjs client ids; a tab that was left is replaced by one
with a new id, as a reload does. The map `codeExecution` of the document is
modelled as Yjs merges it: each key is a register whose item has a path (the
clients that wrote it in succession), and of two concurrent items the one behind
the other wins. `Observe` is the observer of the map, which opens the approval
modal, executes, and shows results; it also runs on the tab's own writes.
Messages of the server wait in `inbox` in order. An agreed run is a job of
`Executor`: `Execute` submits it, `ShowResults` takes its answer. Language
changes and translations are awareness messages (`langRequest`, `langApproved`,
`offer`, `answer`); `patches` are language updates on their way to the session's
row. `present`, `joined`, `online`, `armed`, `asking` are the presence
indicator with its debounce and the look-up that follows.

* `EveryRunWasApproved`: a page runs code on an approval of the other user, and
  runs once for that approval, however the writes of both are merged: both may
  have asked at once, and a page that was just opened works on an empty document
  for a moment. Excepted (`hasty`) is a user who asks for a run while the peer's
  question is open: the question stays on the screen when the request is
  withdrawn, `handleRunCode` does not look at it, and once the peer has
  answered an earlier request of his a run that was then asked for behind it can
  be approved from the question that is still open. Such a behaviour takes twelve
  acts and several merged requests, more than the run's bound allows; it was
  found when the invariant was first tried for all bounds.
* `PagesConverge`: with no message under way, a waiting user's peer is asked
  (`NobodyWaitsUnasked`), both show the results of one run
  (`PeersSeeSameResults`), and both editors use one language
  (`PeersUseOneLanguage`).
* `TranslationNeedsConsent`: only a translation the peer agreed to replaces the
  text, also when offers and answers cross.
* `PresenceIsTruthful`: the indicator is right when all messages have come.
* `RunEnds` (liveness): running ends unless the user whose page runs the code
  leaves it.

Three things are excepted where the code does not do better: crossed approvals
of a language, a requester that leaves during a run, and a run that is asked for
behind an open question.

### 3.9 Accounts

Each browser has one tab. `jar` holds its cookies, `page` the `AuthContext`.
Every request is a record of `calls` that leaves with the cookies of that moment
and moves through the gateway (`VerifyGateway`, `Refresh`), a service, and back
(`Arrive`); a call whose page is gone comes back as well (`ArriveLost`) and may
still set cookies. An access token may have expired on the way (15 minutes), and
is then refreshed: the answer of the refresh names the user but no role, as in
the code. Services read and write statement by statement: `FindAccount` and
`CreateAccount`, `Issue`, `ReadPicture` to `WritePicture`.

* `BrowserActsForPage`: page and cookies name the same user, or nobody.
* `SignInsAreSeparate`: the refresh token of a browser has its row until this
  browser signs out.
* `NoOfferIsRefused`: the pages offer an administrator nothing the service
  refuses, unless the token was refreshed on the way.
* `AccountsAreKept`: an account is created once and keeps its role.
* `PictureIsStored`: the picture an account names is in the storage, however
  uploads overlap, as long as nothing fails.

`astray` marks browsers in which a call failed, in which an answer of an
earlier page or sign-in set cookies, or which were given a refresh token that
another browser still has (`Holds`): the first three properties except them.

### 3.10 QuestionStore

`QuestionStore` EXTENDS `Accounts`: its calls pass the same gateway. `docs` is
the collection with each question's kind (all fields a filter looks at are one)
and counter of sessions, `completed` the completions, `cache` the copy of the
most matched questions in Redis with its age, refreshed by the ticker. `list` is
what a page loaded; edit forms are filled from it and may be stale. `offer` is a
request for an available question: completions are read first, then the cache or
the table. No page of the repository calls that route (sessions choose with GET
`/`), so it is modelled with any caller; it fails with 500 when the completions
cannot be read. `FallbackQuestions` are the three rows the service answers with,
and status 200, when a read of the table fails: to this route
(`GetAvailableQuestions`, `crud.go:379-387`) and to the list (`ListQuestions`).
They are in no table, so a page that lists them can edit or delete none of them
(404), but a session may end with one, which then is completed.

* `StoreInv`: types, at most `Top` cached questions, and when the end of a
  session is answered well both users have the completion (`MarkedTogether`).
* `HistoryIsKept`: saving from a stale form neither undoes the counting of
  sessions nor brings a deleted question back.
* `OfferIsSound`: nothing is offered that a user had completed when it was asked
  for, and only what is in the table or was less than the cache's time to live
  ago. This is so of the cache and the table. When the read of the table fails the
  answer is the fixed rows, which were never stored, have the kind they have and
  may have been completed; the property excepts exactly these rows in the answer
  of a request whose own read failed.

## 4. Runs

| Run | Instance | Shows |
|---|---|---|
| `engine` | 3 users, 2 pools, 2 times, 2 instants | the selection rules against reference definitions |
| `queue_race` | 3 requests, 3 users, 2 runs, 1 crash, clock to 2 | types, pairing, events after a crash, time-outs, refinement of `Pairing` |
| `queue_handlers` | 2 requests (hard or easy), 2 users, 1 run, 1 handler, 2 pools, clock to 3 | the handler races; downward pairs |
| `queue_liveness` | `MatchWork`: 2 requests, 1 replica, 1 handler, the broker away once, 1 restart, clock to 2, fair | every request is answered |
| `queue_timeout_overwrites` | 2 requests, 2 runs | violation: see section 7 |
| `session_room` | 3 sockets, 1 edit, 2 ends, 2 rooms, 1 restart | timers and reload |
| `session_ends` | 2 sockets, 1 edit, 2 ends, 2 failures, fair | everybody leaves, rooms end, edits reach the row |
| `events_sessions` | 1 match, 2 questions, 3 channels, 1 break, 1 failure, 1 crash, 1 poll, fair | one session per match; its event leads to it |
| `events_wrong_channel` | 2 matches, 3 channels, 1 break, 1 crash | violation: see section 7 |
| `workspace` | 2 users, 3 tabs, 2 jobs, 1 slot, 1 failing call, 2 languages, 5 acts, fair | running, languages, translations and presence together |
| `match_page` | 2 requests, 3 acts, 1 fault, fair | what a page shows and learns |
| `console` | 4 e-mails, 2 browsers, 2 questions, 1 fixed row, 2 kinds, 2 acts, 1 fault, clock to 3 | cookies and pages, accounts, pictures, questions, cache |

Bounds. Two concurrent runs and three requests are the smallest instance in
which two runs select overlapping, different pairs and deadlock on each other's
rows. The clock stops at `MaxTime`, which lies beyond the wait
(`MatchTimeout`) and the grace (`ReconnectGrace`) in every run that is about
them; `MaxFailures` bounds the crashes. When the clock has stopped and all ids
are used the system may have nothing left to do, so deadlock is not checked.
Matchers are interchangeable, and the safety runs use that symmetry.

In `CollabSession` three sockets are two users and one reconnect (or a second
tab); two rooms are enough for one that is made anew behind a termination. A
session may end for good, so deadlock is not checked. In `MatchEvents` two
matches are what it takes for a tag to name the wrong message, and one break
gives up to two further channels.

In `MatchWork` one replica is the hardest case for liveness: nobody else can
help. One break and one restart cover a broken run, a deaf consumer and a
restart that heals it; the message count is capped at one, since a second
message only causes another run.

In `Workspace`, `MatchPage` and `QuestionStore` the acts of users are bounded
in total (`MaxActs`); when they are used up and everything has come the system
rests, so deadlock is not checked. Five acts reach two requests to run with their
approvals and a reload; three acts a start, an accepted suggestion and a return;
two acts two overlapping operations of one or two browsers, and the calls that
follow from them (refreshes, reloads of lists, the completions of both users).
Question ids and kinds are only compared, and `console` uses their symmetry.
`MaxCalls` bounds the calls under way at the time a user acts.

Fairness. `index.ts` sends work every few seconds (`setInterval`), so `SendWork`
and `RunInline` are weakly fair, as are deliveries of a broker that is up, the
retry timer, and the steps of a run that has begun; a stopped broker need not
come back and nothing is assumed of users. In `CollabSession` promises settle,
armed timers fire, and a browser that sees the end mark disconnects
(`CodeEditor.tsx`). The liveness run there has no restarts: timers do not survive
one. In `MatchEvents` the broker delivers, the retry timer fires, promises
settle; POST is never required. In `Workspace` jobs go on and a page takes the
answer of its job; a user's program need not end, since the wait times out. In
`MatchPage` only the polling of an open page is fair: its timer, the service's
answer and its handling.

## 5. Proofs

`MatchingEngineProofs`, for any number of users, pools, times and instants
(assumption: they are numbers), shows that the answer is what the documented
rules ask for. Requests of different users are totally ordered (`BeforeTotal`), so
a set of them has a first (`FirstExists`, by the least instant and the least
user) and a requester has exactly one best partner in it (`BestIsOne`,
`BestExists`). `FindPartnerAnswers`, `FirstPairAnswers`, `SelectedIs` and
`SelectionMissesNobody` carry this from a requester to a pool to the queue:
`SelectionIsSound` (`SelectionFollowsRules`) and `SelectionIsOptimal`
(`BestPairIsSelected`). The only invariant is that the rows are well formed, one
for each user, as the unique index of the table guarantees.

The queue needs one fact of the engine only, and for every set of rows:
`SelectedPairIsAllowed`, in `MatchQueueProofs`, says that a selected pair
consists of two waiting requests of different users of one pool at a permitted
pair of levels.

`MatchQueueProofs` proves for every value of the constants (assumptions: ids,
users and pools are numbers; `None` is not a value of any column; the two
durations are naturals) that

* `IInv` is inductive. Mutual pairs alone are not: the invariant also says that
  locks are exclusive, that an uncommitted version has left the queue and keeps
  a committed partner (`DraftsKeepPartners`), that within an open run pairs are
  mutual except for the one whose second UPDATE is to come
  (`DraftPairsAreMutual`), and that this one was selected from existing rows
  (`PairIsCompatible`). There is one lemma per action; steps that only read go
  through `FrameStep`, handlers through `RowStep`, the bulk updates through
  `ExpiryStep`, everything that aborts through `RollbackStep`.
* `TypeCorrect`, `PairingIsMutual`, `QueueIsLeftForGood`,
  `OnlyConnectedGetPartners` and `PairsLeaveQueueTogether` (the refinement of
  `Pairing`) follow from it and from `StepChangesRows`, which says what one step
  may do to a committed row.

`MatchQueueProofs` adds `EInv`: pairs whose event is still to come are held by
their run until the commit and stand in the table afterwards, and no request is
in two of them. `AnnouncementsAreTrue` follows.

`SessionCreationProofs` proves, for every number of matches, channels, broken
connections, failures and restarts, `EventTypes`, `OneSessionPerMatch`
(`SessionIsFixed`) and `OneQuestionPerSession` (`PeersSeeOneQuestion`). The
invariant `SInv` adds to the types that a page shows the question of its session
or none, and that nothing is delivered or settled before a channel exists;
`StepKeepsSessions` says that a step may only write a row that was not there.

`UsersWaitOnce` (`OnePendingPerUser`) is inductive on its own over `IInv`: only
a create or a topic switch makes a row pending, and both look at the table at
that moment (`OthersStayFree`), as the unique index does.

`NobodyTimesOutEarly` and `GraceIsKept` need to know what the clock values read
long ago are worth. `TimeInv` says that a clock value a run or handler holds is
never ahead of the clock and that ids read for the time-out had waited long
enough when they were read (`ReadsAreDue`), and that drafts and rows that expired
or timed out were due (`DraftsAreDue`, `RowsAreDue`). The clock only grows and a
request keeps the time of its creation, so a stale read is still due.

`MatchWorkProofs`: `WorkFitsTogether` is the types of the work queue. Every step
of `MatchWork` is, seen from the table, a step of `MatchQueue` or the rollback
of a run, so `IInv` holds of it too (`QueueInvAlways`); `PairingSurvivesRestarts`
and `RestartsKeepTheTable` follow although replicas are stopped in mid-run.

`CollabSessionProofs` needs of the constants that the bounds are numbers
(`BoundsAssumption`). `RoomsAreSound` (`RoomInv`) and `NobodyWaitsWithoutLimit`
(`GraceWatchesShortRooms`) rest on `EntryInv`: rooms are finite sets of sockets,
room `i` exists once `made` has counted it, and a termination that is under way
has marked the room it found. `SavedWorkIsShown` (`RoomShowsWhatIsSaved`) rests on
`DocInv`: a debounced save or a termination holds a copy of an older document of
the room (`CopiesAreOld`), and what a connection has read holds, together with the room's
document, all that is saved (`ReadersAreCurrent`); so whoever loads it, the room
shows no less than the row.

`MatchPageProofs`: `PageShowsWhatIsTrue` (`PageInv`), `WaitsConnected`
(`WaitingIsConnected`) and `NothingPendingIsForgotten` (`PendingIsShown`) follow
from one invariant, `PageTrueInv`. None of the three is inductive: what a page
shows is decided by answers that were true when they were given. `FitInv` says
which calls, presses, streams and polls can be under way at each view, that rows
are created in order (`RowsInOrder`), and that what an answer says of a row is
what it is or has been (`AnswersFit`, `CardFits`); `Connects`, `PressCard`,
`CardsAreTrue` and `DashboardKnows` say what the page may conclude, with the
exceptions of section 3.6 and no wider ones; a timeout card over a new request
covers one that nobody has disconnected (`CardOver`). The proof
classifies a step once (`StepKinds`: the page moves on, stays, listens, gets an
answer, pushes an update, the button fails or the service answers it), and once
by what it does to the rows (`RowsMove`: a row that is over stays as it is, and
one becomes pending only by its creation); a conjunct is then proved for each
kind. TLC checked the same invariant on the instance of `match_page` before it
was proved.

`WorkspaceProofs`: `SemaphoreIsExact` counts the set of jobs that hold a slot,
which each step of `Executor` changes by one job or not at all;
`ProgramsAreAttended` and `ContainersGo` follow from `JobInv`, what the stage of
a job says of its container, since no job touches another one's (`OnlyChanges`).
`PagesUseExecutor` shows that each step of the pages is a step
of the executor or leaves it alone, so `RunsAreAttended` is inherited.
`TranslationsAreAgreed` rests on `ConsentInv`: an answer under way that agrees
names a translation the peer was shown and agreed to.

`RunsAreApproved` (`EveryRunWasApproved`) rests on `RunsInv`, of which TLC checked
`Runs` on three tabs before it was proved. Nothing of it is visible in one
document: a page may merge an approval with a request that it was not given for.
The order of the items of a key is shown to be total (`LaterTransitive`,
`LaterOneWay`, by the least position where two paths differ), and of all the
documents there are, at the server, on the pages and on their way, `Good` says
that a request names its writer, that an approval is by somebody else, and that a
request of the approver which the approving document does not know came with a
status later than the approval (`Fit`). Hence no merge puts a user's approval
and his own request together (`MergeIsGood`). A write keeps `Good` because what
a user wrote earlier is known to the page he has open (`KnowInv`), also after a
reload, once it has the document of the server, which is never behind
(`DocInv`). An approval that was used is past for the server and for every page of
the user who used it (`Used`), so it cannot be used again. An action is either a
change of one page's document (`Updates`, with the observer in `ObserverKeeps`,
without it in `SilentKeeps`) or does not touch documents (`MovesKeepDocs`).

`PresenceIsKnown` (`PresenceIsTruthful`) speaks of a page at rest, so it needs an
invariant of the pages that are not: `PeerInv`, which TLC checked on four tabs
before it was proved. `Heard` relates what has become of a tab to what another page
has in its awareness and what its queue still says of it, in order: an open one
is there or about to be, a page that left is not there or the last that is said of it
is that it is gone, and one not yet opened is mentioned nowhere, since a client
id is never used twice. A page with somebody in its awareness is online and has
`joined`; one with nobody there, no debounce or report under way and no sync to come
(`Settled`) is offline. The steps fall into those that say nothing of presence
(`Plain`, `Same`, `SamePeers`) and leaving, opening, the awareness, the sync, the
debounce and the report, which have a lemma each. That there are two users is
needed: in the initial state each user's page is open and shows the other.

`PagesMeetAgain` (`PagesConverge`) is two inductive invariants. `MeetInv`, which TLC
checked on three tabs before it was proved, holds for each key of the document
by itself (`KeyInv`): the server has the latest item there is (`Latest`), no two
items have one name (`Named`), a page has what the server has or is about to be told
(`Coming`), and knows what it wrote itself (`Recalled`), which is why a name it
gives is new (`FreshItem`). Every write is one step on what the page sees, of
up to two items (`Writes`, `WritesKeepKey`): a write that the server does not take
leaves the page with a later item on its way, unless it is that item. Results
come with a job, and are not empty once the server's run is completed (`Done`), so
that two pages with the server's document show the same ones (`Shows`) and ask
the same question (`Asks`). `LangInv` is about two queues: while no page was left
and no approvals crossed, at most one of them holds an approval, and the last one
that a page will read gives it the language of the other (`Meet`, `Settles`). It
uses that a user who did not leave his page cannot open another.

`QuestionStoreProofs`: `HistorySurvives` says what one statement may do to the
table, with `DocsInv` and `UsedInv` as the types it needs. The rest of the module
classifies what a step does to one call (`CallsNext`): it is untouched, its page is
gone (`LostOf`), it goes on by one statement (`Steps`), or it begins (`Begun`); and
what a step does to every other variable (`StepChanges`). On that rest

* `AcctInv` (`AccountsAreNamed`): types, and whoever a token, a cookie, a page or
  a call names has an account with that role; `AccountsStay` follows because
  `CreateAccount` is refused when the account appeared meanwhile.
* `SessInv /\ SepInv` (`SessionsFit`): `BrowserActsForPage` is not inductive, since
  a page shows what an answer under way said. `BrowserFits` says what the calls a
  page waits for may carry (`Follows`), that a sign-in or the first verification of
  a page waits alone (`Alone`), and how page and cookies fit. `Separate` says that a
  refresh token that a browser has or is sent has its row and is held by no other
  browser (`OnlyHolder`). `RequestsAreOfThePage` and `OthersStaySignedIn` follow,
  and with `OfferInv` (a call is allowed what its page offered) `OffersAreServed`.
* `PicInv` (`PicturesAreStored`): no upload under way has seen the picture of
  another one that is not yet written (`Unwritten`), what it is to remove is its own
  account's (`OwnSeen`), and it is uploaded before it is written (`Uploaded`).
* `StoredInv` (`StoreIsKept`, `OffersAreSound`): a question the cache holds is in the
  table with that kind, or `left` it no earlier than the cache was read
  (`CacheFits`), and what the request for a question has read is at least what had
  been completed when it was sent (`AskFits`). An answer of fixed rows is a step
  that counts a fault.

The assumptions on the constants are that bounds are numbers, that `None` is no
value of the others, that the ticker runs more often than the cache expires,
that browsers start with different accounts that exist, and that a session has
two users (its row names two, `WorkspaceAssumption`).

Only model-checked, by a passing run: liveness, which the prover does not reach. Every safety property of a
passing run is proved. Only proved, on no run of their own: `EInv`, `SInv`, `WorkTypeOK`, `ExecTypeOK`, `SlotsAreBounded`.

## 6. Not modelled

* chat-service: every operation is one call of GetStream, where the state is.
* Fallback suggestions and topic activity: they order advice shown to the user
  and change nothing; accepting a suggestion is modelled.
* Validation, rate limits, health probes: no state of their own, or a library's.
* Code runners: text generation from templates. Prompts and texts of the AI
  service, texts and names of profiles, image addresses, program output: data.
* `terminateReason` and `terminatedBy`, heartbeats of the event stream, the
  events `match.request.created` and `cancelled`, which nothing consumes.
* `AdminDashboard.tsx` is on no route. Layout, charts and the chat panel have no
  state that others rely on.
* Deployment: configuration. Web socket upgrades pass the gateway unverified and
  are left out of `Accounts`.

Simplifications: a query of the cache and the command that stores it are one
step; the topics a suggestion offers are any; the service behind `MatchPage`
answers in one step.

## 7. Findings

Each is a run that TLC refutes, quoted in `PROJECT.json`.

* The bulk time-out updates rows by id alone, so a row that was matched or
  cancelled since the read becomes `TIMED_OUT`, and two runs may both report one row
  (`queue_timeout_overwrites`).
* A message is acknowledged on a channel that replaced its own while its session
  was being created, which settles a different message; a restart then loses it,
  although the README promises that it "remains in the queue"
  (`events_wrong_channel`).

What the models also show to be so, and the properties therefore except:

* The topic switch does not look at how many rows it cancelled
  (`matchRequestService.ts:939`): a user may get a new request besides its match.
* The disconnect grace is cleared when the user who stayed opens a second socket
  (`SessionManager.ts:76`).
* A work consumer whose connection broke while idle never consumes again
  (`rabbitMatchQueue.ts:75`).
* Timers of a session are lost in a restart; one that nobody rejoins stays
  active. A failed read lets the next save overwrite the row.
* A `match.found` whose session cannot be created is dropped.
* A user who accepts a suggestion while the old request times out on the page
  keeps the timeout card: the new request is pending behind it, and nothing on the
  page says so (`Matching.tsx:479`, `502-540`). Accepting another
  suggestion there would remove the card.
* A late reconnect of an earlier page makes the service refuse that of the next
  one, which shows a lost connection over a request that waits.
* A request made by a suggestion whose page was left is not seen by a dashboard
  that had looked before. The card of an older request is shown again on a
  reload while a newer one is pending.
* A failing read of the questions is answered with status 200 and three fixed
  questions, whatever was asked for (`crud.go:379-387`), against the comment of
  `GetAvailableQuestions` (`crud.go:352`: "matching difficulty/topic filters,
  excluding any questions whose IDs are in excludeIds").
* A late disconnect beacon leaves the request of a newer page in its grace. A
  user matched while on the dashboard, before its session exists, is not told.
* Runs always use the language of the session at load, not the one agreed on
  later (`Workspace.tsx:437`). Crossed approvals leave the editors in different
  languages. An accepted translation replaces edits made while waiting.
* A requester that leaves during a run leaves "running" behind in the map.
* A container whose copy fails is not removed (`executor.go:118`).
* The answer of a refresh holds no role (auth-service `index.ts:65`), so an
  administrator whose token is refreshed is refused, and one whose page loads
  then is shown a user's pages.
* Two sign-ins of one account in one second sign one refresh token, and the
  second fails. A sign-in in the second of another browser's sign-out gets the token
  that browser may still hold; the sign-out of one then ends both. Overlapping uploads leave a picture nobody names.
* Both users ending a session count it twice.
