----------------------- MODULE SessionCreationProofs -----------------------
(***************************************************************************)
(* One session per match, with one question for both users, for every      *)
(* number of matches, channels, broken connections, failures and restarts. *)
(***************************************************************************)
EXTENDS MatchEvents, TLAPS

USE NoneAssumption

(* A page shows the question of its session or none. *)
PagesShowTheSession ==
  \A p \in Pages : page[p].question \in {session[p[1]], None}

(* Before the first channel there is nothing to settle. *)
NothingWithoutChannel ==
  active = 0 => (\A i \in ChannelId : ~channel[i].up) /\ (\A t \in task : t.ch = 0)

SInv == TypeOK /\ NothingWithoutChannel /\ PagesShowTheSession

-----------------------------------------------------------------------------
(* The conjuncts of TypeOK that belong to the broker and its clients. *)
BrokerTypes ==
  /\ queue \in SUBSET Matches
  /\ channel \in [ChannelId -> ChannelType]
  /\ \A i \in ChannelId : channel[i].settled \subseteq DOMAIN channel[i].got
  /\ opened \in 0..MaxChannels
  /\ active \in 0..opened
  /\ inits \in Nat
  /\ bound \in BOOLEAN

LEMMA Bounds == /\ MaxChannels \in Nat /\ MaxBreaks \in Nat /\ MaxFailures \in Nat
                /\ MaxCrashes \in Nat /\ MaxPolls \in Nat
BY BoundAssumption

LEMMA ClosedIsAChannel == Closed \in ChannelType /\ Closed.settled \subseteq DOMAIN Closed.got
BY DEF Closed, ChannelType

LEMMA OutstandingAreMatches ==
  ASSUME BrokerTypes, NEW i \in ChannelId
  PROVE  Outstanding(i) \subseteq Matches
<1>. SUFFICES ASSUME NEW t \in DOMAIN channel[i].got PROVE channel[i].got[t] \in Matches
  BY DEF Outstanding
<1>1. channel[i].got \in Seq(Matches)
  BY DEF BrokerTypes, ChannelType
<1>. QED
  BY <1>1

LEMMA GoDownKeepsTypes ==
  ASSUME BrokerTypes, NEW i \in ChannelId, NEW again \in Nat, GoDown(i, again),
         UNCHANGED <<opened, active, bound>>
  PROVE  BrokerTypes'
<1>1. queue' \in SUBSET Matches
  BY OutstandingAreMatches DEF GoDown, BrokerTypes
<1>2. channel' \in [ChannelId -> ChannelType]
  BY ClosedIsAChannel DEF GoDown, BrokerTypes
<1>3. \A k \in ChannelId : channel'[k].settled \subseteq DOMAIN channel'[k].got
  <2> SUFFICES ASSUME NEW k \in ChannelId
               PROVE  channel'[k].settled \subseteq DOMAIN channel'[k].got
    OBVIOUS
  <2>1. CASE k = i
    BY <2>1, ClosedIsAChannel DEF GoDown, BrokerTypes
  <2>2. CASE k # i
    BY <2>2 DEF GoDown, BrokerTypes
  <2>. QED
    BY <2>1, <2>2
<1>. QED
  BY <1>1, <1>2, <1>3 DEF BrokerTypes, GoDown

LEMMA DieKeepsTypes ==
  ASSUME BrokerTypes, Die
  PROVE  BrokerTypes'
<1>1. queue' \in SUBSET Matches
  BY OutstandingAreMatches DEF Die, BrokerTypes
<1>2. /\ channel' \in [ChannelId -> ChannelType]
      /\ \A i \in ChannelId : channel'[i].settled \subseteq DOMAIN channel'[i].got
  BY ClosedIsAChannel DEF Die
<1>. QED
  BY <1>1, <1>2 DEF Die, BrokerTypes

LEMMA AdvanceKeepsTypes ==
  ASSUME task \in SUBSET TaskType, NEW t \in task,
         NEW phase \in {"look", "pick", "insert", "settle"}, NEW q \in Answers, Advance(t, phase, q)
  PROVE  task' \in SUBSET TaskType
<1>1. t \in TaskType
  OBVIOUS
<1>2. [t EXCEPT !.phase = phase, !.question = q] \in TaskType
  BY <1>1 DEF TaskType
<1>. QED
  BY <1>2 DEF Advance

-----------------------------------------------------------------------------
(* Type correctness, action by action. *)

LEMMA MatchKeepsTypes ==
  ASSUME TypeOK, NEW m \in Matches, Match(m)
  PROVE  TypeOK'
<1>1. page' \in [Pages -> PageType]
  <2> SUFFICES ASSUME NEW p \in Pages, p[1] = m
               PROVE  [page[p] EXCEPT !.phase = "polling"] \in PageType
    BY DEF Match, TypeOK
  <2>1. page[p] \in PageType
    BY DEF TypeOK
  <2>. QED
    BY <2>1 DEF PageType
<1>2. queue' \in SUBSET Matches /\ routed' \in SUBSET matched' /\ matched' \in SUBSET Matches
  BY DEF Match, TypeOK
<1>. QED
  BY <1>1, <1>2 DEF Match, TypeOK, counts

LEMMA ConnectKeepsTypes ==
  ASSUME TypeOK, Connect
  PROVE  TypeOK'
<1>1. opened + 1 \in ChannelId /\ opened + 1 \in 0..MaxChannels
  <2>1. opened \in 0..MaxChannels /\ opened < MaxChannels
    BY DEF TypeOK, Connect
  <2>. QED
    BY <2>1, Bounds DEF ChannelId
<1>2. [Closed EXCEPT !.up = TRUE] \in ChannelType
  BY ClosedIsAChannel DEF ChannelType
<1>3. channel' \in [ChannelId -> ChannelType]
  BY <1>1, <1>2 DEF TypeOK, Connect
<1>4. \A i \in ChannelId : channel'[i].settled \subseteq DOMAIN channel'[i].got
  <2> SUFFICES ASSUME NEW i \in ChannelId
               PROVE  channel'[i].settled \subseteq DOMAIN channel'[i].got
    OBVIOUS
  <2>1. CASE i = opened + 1
    BY <2>1 DEF TypeOK, Connect, Closed
  <2>2. CASE i # opened + 1
    BY <2>2 DEF TypeOK, Connect
  <2>. QED
    BY <2>1, <2>2
<1>5. opened' \in 0..MaxChannels /\ active' \in 0..opened' /\ inits' \in Nat
  BY <1>1 DEF TypeOK, Connect
<1>. QED
  BY <1>3, <1>4, <1>5 DEF TypeOK, Connect, counts

LEMMA DeliverKeepsTypes ==
  ASSUME TypeOK, NEW i \in ChannelId, NEW m \in Matches, Deliver(i, m)
  PROVE  TypeOK'
<1>1. channel[i] \in ChannelType /\ channel[i].got \in Seq(Matches)
  BY DEF TypeOK, ChannelType
<1>2. /\ Append(channel[i].got, m) \in Seq(Matches)
      /\ DOMAIN channel[i].got \subseteq DOMAIN Append(channel[i].got, m)
      /\ Len(channel[i].got) + 1 \in Nat
  BY <1>1
<1>3. channel' \in [ChannelId -> ChannelType]
  <2>1. [channel[i] EXCEPT !.got = Append(@, m)] \in ChannelType
    BY <1>1, <1>2 DEF ChannelType
  <2>. QED
    BY <2>1 DEF Deliver, TypeOK
<1>4. \A k \in ChannelId : channel'[k].settled \subseteq DOMAIN channel'[k].got
  <2> SUFFICES ASSUME NEW k \in ChannelId
               PROVE  channel'[k].settled \subseteq DOMAIN channel'[k].got
    OBVIOUS
  <2>1. CASE k = i
    <3>1. channel'[i].settled = channel[i].settled /\ channel'[i].got = Append(channel[i].got, m)
      BY <1>1 DEF Deliver, TypeOK, ChannelType
    <3>. QED
      BY <2>1, <3>1, <1>2 DEF TypeOK
  <2>2. CASE k # i
    BY <2>2 DEF Deliver, TypeOK
  <2>. QED
    BY <2>1, <2>2
<1>5. task' \in SUBSET TaskType
  <2>1. [ch |-> i, tag |-> Len(channel[i].got) + 1, match |-> m,
         phase |-> "look", question |-> None] \in TaskType
    BY <1>2 DEF TaskType, ChannelId, Answers
  <2>. QED
    BY <2>1 DEF Deliver, TypeOK
<1>6. queue' \in SUBSET Matches
  BY DEF Deliver, TypeOK
<1>. QED
  BY <1>3, <1>4, <1>5, <1>6 DEF Deliver, TypeOK, counts

LEMMA BreakKeepsTypes ==
  ASSUME TypeOK, NEW i \in ChannelId, Break(i)
  PROVE  TypeOK'
<1>1. BrokerTypes
  BY DEF TypeOK, BrokerTypes
<1>2. UNCHANGED <<opened, active, bound>>
  BY DEF Break
<1>3. PICK again \in {1, 2} : GoDown(i, again)
  BY DEF Break
<1>4. BrokerTypes'
  BY <1>1, <1>2, <1>3, GoDownKeepsTypes
<1>5. breaks' \in 0..MaxBreaks
  <2>1. breaks \in 0..MaxBreaks /\ breaks < MaxBreaks /\ breaks' = breaks + 1
    BY DEF Break, TypeOK
  <2>. QED
    BY <2>1, Bounds
<1>. QED
  BY <1>4, <1>5 DEF Break, TypeOK, BrokerTypes

LEMMA CrashKeepsTypes ==
  ASSUME TypeOK, Crash
  PROVE  TypeOK'
<1>1. BrokerTypes'
  BY DieKeepsTypes DEF TypeOK, BrokerTypes, Crash
<1>2. crashes' \in 0..MaxCrashes
  <2>1. crashes \in 0..MaxCrashes /\ crashes < MaxCrashes /\ crashes' = crashes + 1
    BY DEF Crash, TypeOK
  <2>. QED
    BY <2>1, Bounds
<1>. QED
  BY <1>1, <1>2 DEF Crash, Die, TypeOK, BrokerTypes

LEMMA PostKeepsTypes ==
  ASSUME TypeOK, NEW m \in Matches, PostSession(m)
  PROVE  TypeOK'
<1>1. [ch |-> 0, tag |-> 0, match |-> m, phase |-> "look", question |-> None] \in TaskType
  BY Bounds DEF TaskType, Answers
<1>2. task' \in SUBSET TaskType
  BY <1>1 DEF PostSession, TypeOK
<1>. QED
  BY <1>2 DEF PostSession, TypeOK, broker, counts

LEMMA SettleKeepsTypes ==
  ASSUME TypeOK, NothingWithoutChannel, NEW t \in task, Settle(t)
  PROVE  TypeOK'
<1>1. BrokerTypes /\ task \in SUBSET TaskType /\ active \in ChannelId
  BY Bounds DEF TypeOK, BrokerTypes, NothingWithoutChannel, Settle, ChannelId
<1>2. CASE ~channel[active].up
  <2>1. BrokerTypes'
    BY <1>1, <1>2, DieKeepsTypes DEF Settle
  <2>. QED
    BY <1>1, <1>2, <2>1 DEF Settle, Die, TypeOK, BrokerTypes
<1>3. CASE channel[active].up
  <2>0. task' \in SUBSET TaskType /\ UNCHANGED <<opened, active, bound>>
    BY <1>1, <1>3 DEF Settle
  <2>1. BrokerTypes'
    <3>1. CASE t.tag \in DOMAIN channel[active].got \ channel[active].settled
      <4>0. channel' = [channel EXCEPT ![active].settled = @ \union {t.tag}] /\ UNCHANGED <<queue, inits>>
        BY <1>3, <3>1 DEF Settle
      <4>1. \A k \in ChannelId : channel[k] \in ChannelType
        BY DEF TypeOK
      <4>2. t.tag \in Nat
        BY <1>1 DEF TaskType
      <4>3. \A k \in ChannelId :
              channel'[k] = IF k = active
                            THEN [channel[k] EXCEPT !.settled = @ \union {t.tag}] ELSE channel[k]
        BY <1>1, <4>0 DEF BrokerTypes
      <4>4. \A k \in ChannelId : channel'[k] \in ChannelType
        <5> SUFFICES ASSUME NEW k \in ChannelId PROVE channel'[k] \in ChannelType
          OBVIOUS
        <5>1. [channel[k] EXCEPT !.settled = @ \union {t.tag}] \in ChannelType
          BY <4>1, <4>2 DEF ChannelType
        <5>. QED
          BY <4>1, <4>3, <5>1
      <4>5. channel' \in [ChannelId -> ChannelType]
        BY <1>1, <4>0, <4>4 DEF BrokerTypes
      <4>6. \A k \in ChannelId : channel'[k].settled \subseteq DOMAIN channel'[k].got
        <5> SUFFICES ASSUME NEW k \in ChannelId
                     PROVE  channel'[k].settled \subseteq DOMAIN channel'[k].got
          OBVIOUS
        <5>1. CASE k = active
          <6>1. channel'[k].settled = channel[k].settled \union {t.tag} /\ channel'[k].got = channel[k].got
            BY <4>1, <4>3, <5>1 DEF ChannelType
          <6>. QED
            BY <1>1, <3>1, <5>1, <6>1 DEF BrokerTypes
        <5>2. CASE k # active
          BY <1>1, <4>3, <5>2 DEF BrokerTypes
        <5>. QED
          BY <5>1, <5>2
      <4>. QED
        BY <1>1, <2>0, <4>0, <4>5, <4>6 DEF BrokerTypes
    <3>2. CASE ~(t.tag \in DOMAIN channel[active].got \ channel[active].settled)
      <4>1. GoDown(active, 2)
        BY <1>3, <3>2 DEF Settle
      <4>. QED
        BY <1>1, <2>0, <4>1, GoDownKeepsTypes
    <3>. QED
      BY <3>1, <3>2
  <2>. QED
    BY <1>3, <2>0, <2>1 DEF Settle, TypeOK, BrokerTypes, counts
<1>. QED
  BY <1>2, <1>3

LEMMA TaskStepKeepsTypes ==
  ASSUME TypeOK, NothingWithoutChannel, NEW m \in Matches, NEW c \in 0..MaxChannels, TaskStep(m, c)
  PROVE  TypeOK'
<1>0. task \in SUBSET TaskType
  BY DEF TypeOK
<1>1. PICK t \in task :
        \/ LookUp(t) \/ Insert(t) \/ Fail(t) \/ Answer(t) \/ Settle(t)
        \/ \E q \in Questions \union {Fallback} : PickQuestion(t, q)
  BY DEF TaskStep
<1>2. CASE LookUp(t)
  <2>1. task' \in SUBSET TaskType
    <3>1. PICK phase \in {"pick", "settle"} : Advance(t, phase, None)
      BY <1>2 DEF LookUp
    <3>. QED
      BY <1>0, <3>1, AdvanceKeepsTypes DEF Answers
  <2>. QED
    BY <1>2, <2>1 DEF LookUp, TypeOK, broker, counts
<1>3. CASE Insert(t)
  <2>1. task' \in SUBSET TaskType
    BY <1>0, <1>3, AdvanceKeepsTypes DEF Insert, Answers
  <2>2. t.match \in Matches /\ t.question \in Answers
    BY <1>0 DEF TaskType
  <2>3. session' \in [Matches -> Answers]
    BY <1>3, <2>2 DEF Insert, TypeOK
  <2>. QED
    BY <1>3, <2>1, <2>3 DEF Insert, TypeOK, broker, counts
<1>4. CASE Fail(t)
  <2>1. task' \in SUBSET TaskType
    BY <1>0, <1>4, AdvanceKeepsTypes DEF Fail, Answers
  <2>2. failures' \in 0..MaxFailures
    <3>1. failures \in 0..MaxFailures /\ failures < MaxFailures /\ failures' = failures + 1
      BY <1>4 DEF Fail, TypeOK
    <3>. QED
      BY <3>1, Bounds
  <2>. QED
    BY <1>4, <2>1, <2>2 DEF Fail, TypeOK, broker
<1>5. CASE Answer(t)
  BY <1>5 DEF Answer, TypeOK, broker, counts
<1>6. CASE Settle(t)
  BY <1>6, SettleKeepsTypes
<1>7. CASE \E q \in Questions \union {Fallback} : PickQuestion(t, q)
  <2>1. task' \in SUBSET TaskType
    BY <1>0, <1>7, AdvanceKeepsTypes DEF PickQuestion, Answers
  <2>. QED
    BY <1>7, <2>1 DEF PickQuestion, TypeOK, broker, counts
<1>. QED
  BY <1>1, <1>2, <1>3, <1>4, <1>5, <1>6, <1>7

LEMMA PageKeepsTypes ==
  ASSUME TypeOK, NEW p \in Pages, PollAgain(p) \/ Open(p) \/ Check(p)
  PROVE  TypeOK'
<1>1. page[p] \in PageType /\ page \in [Pages -> PageType] /\ session[p[1]] \in Answers
  BY DEF TypeOK, Pages
<1>2. page' \in [Pages -> PageType] /\ UNCHANGED <<matched, routed, broker, task, session, counts>>
  <2>1. CASE PollAgain(p)
    <3>1. page[p].tries + 1 \in 0..MaxPolls
      BY <1>1, <2>1, Bounds DEF PollAgain, PageType
    <3>2. [page[p] EXCEPT !.tries = @ + 1] \in PageType
      BY <1>1, <3>1 DEF PageType
    <3>. QED
      BY <1>1, <2>1, <3>2 DEF PollAgain, Load
  <2>2. CASE Open(p)
    <3>1. PICK q \in {session[p[1]], None} : Load(p, [page[p] EXCEPT !.phase = "open", !.question = q])
      BY <2>2 DEF Open
    <3>2. [page[p] EXCEPT !.phase = "open", !.question = q] \in PageType
      BY <1>1 DEF PageType, Answers
    <3>. QED
      BY <1>1, <3>1, <3>2 DEF Load
  <2>3. CASE Check(p)
    <3>1. [page[p] EXCEPT !.phase = "ended"] \in PageType
      BY <1>1 DEF PageType
    <3>. QED
      BY <1>1, <2>3, <3>1 DEF Check
  <2>. QED
    BY <2>1, <2>2, <2>3
<1>. QED
  BY <1>2 DEF TypeOK, broker, counts

-----------------------------------------------------------------------------
(* What a step may do to a session: write a row that was not there. *)
LEMMA StepKeepsSessions ==
  ASSUME session \in [Matches -> Answers], [Next]_vars
  PROVE  \A m \in Matches : session[m] # None => session'[m] = session[m]
<1>1. CASE \E t \in task : Insert(t)
  BY <1>1 DEF Insert
<1>2. CASE ~\E t \in task : Insert(t)
  BY <1>2 DEF Next, vars, Connect, Crash, Die, Match, PostSession, Deliver, Break, TaskStep, LookUp,
              Fail, Answer, Settle, PickQuestion, PollAgain, Open, Load, Check
<1>. QED
  BY <1>1, <1>2

LEMMA NothingWithoutChannelStep ==
  ASSUME TypeOK, NothingWithoutChannel, [Next]_vars
  PROVE  NothingWithoutChannel'
<1>. USE DEF NothingWithoutChannel
<1>1. CASE Connect
  <2>1. active' # 0
    BY <1>1 DEF Connect, TypeOK
  <2>. QED
    BY <2>1
<1>2. CASE Die
  BY <1>2 DEF Die, Closed
<1>3. ASSUME NEW i \in ChannelId, NEW m \in Matches, Deliver(i, m)
      PROVE  NothingWithoutChannel'
  <2>1. active' # 0
    BY <1>3 DEF Deliver
  <2>. QED
    BY <2>1
<1>4. ASSUME NEW i \in ChannelId, Break(i)
      PROVE  NothingWithoutChannel'
  <2>1. active' # 0
    BY <1>4 DEF Break
  <2>. QED
    BY <2>1
<1>5. ASSUME NEW m \in Matches, PostSession(m)
      PROVE  NothingWithoutChannel'
  BY <1>5 DEF PostSession, broker
<1>6. ASSUME NEW t \in task, Settle(t), channel[active].up
      PROVE  NothingWithoutChannel'
  <2>1. active # 0 /\ active' = active
    BY <1>6 DEF Settle
  <2>. QED
    BY <2>1
<1>7. ASSUME NEW t \in task, NEW phase, NEW q, Advance(t, phase, q), UNCHANGED <<active, channel>>
      PROVE  NothingWithoutChannel'
  <2>1. t.ch = [t EXCEPT !.phase = phase, !.question = q].ch
    BY DEF TypeOK, TaskType
  <2>. QED
    BY <1>7, <2>1 DEF Advance
<1>8. ASSUME NEW t \in task, LookUp(t) \/ Insert(t) \/ Fail(t)
      PROVE  NothingWithoutChannel'
  BY <1>7, <1>8 DEF LookUp, Insert, Fail, broker
<1>9. ASSUME NEW t \in task, NEW q, PickQuestion(t, q)
      PROVE  NothingWithoutChannel'
  BY <1>7, <1>9 DEF PickQuestion, broker
<1>10. ASSUME NEW t \in task, Answer(t)
       PROVE  NothingWithoutChannel'
  BY <1>10 DEF Answer, broker
<1>11. CASE UNCHANGED <<active, channel, task>>
  BY <1>11
<1>. QED
  BY <1>1, <1>2, <1>3, <1>4, <1>5, <1>6, <1>8, <1>9, <1>10, <1>11
     DEF Next, vars, Crash, Match, TaskStep, Settle, PollAgain, Open, Load, Check, broker

LEMMA PagesShowTheSessionStep ==
  ASSUME TypeOK, PagesShowTheSession, [Next]_vars
  PROVE  PagesShowTheSession'
<1>1. \A p \in Pages : p[1] \in Matches
  BY DEF Pages
<1>2. \A p \in Pages : session[p[1]] # None => session'[p[1]] = session[p[1]]
  BY <1>1, StepKeepsSessions DEF TypeOK
<1>3. \A p \in Pages : page'[p].question \in {page[p].question, session[p[1]], None}
  <2>0. page \in [Pages -> PageType]
    BY DEF TypeOK
  <2>1. ASSUME NEW m \in Matches, Match(m)
        PROVE  \A p \in Pages : page'[p].question = page[p].question
    BY <2>0, <2>1 DEF Match, PageType
  <2>2. ASSUME NEW p \in Pages, PollAgain(p) \/ Check(p)
        PROVE  \A r \in Pages : page'[r].question = page[r].question
    BY <2>0, <2>2 DEF PollAgain, Check, Load, PageType
  <2>3. ASSUME NEW p \in Pages, Open(p)
        PROVE  \A r \in Pages : page'[r].question \in {page[r].question, session[p[1]], None}
                               /\ (r # p => page'[r] = page[r])
    BY <2>0, <2>3 DEF Open, Load, PageType
  <2>4. CASE UNCHANGED page
    BY <2>4
  <2>. QED
    BY <2>1, <2>2, <2>3, <2>4
       DEF Next, vars, Connect, Crash, Die, PostSession, Deliver, Break, TaskStep, LookUp, Insert,
           Fail, Answer, Settle, PickQuestion
<1>. QED
  BY <1>2, <1>3 DEF PagesShowTheSession

-----------------------------------------------------------------------------
LEMMA InitSInv == Init => SInv
<1> SUFFICES ASSUME Init PROVE SInv
  OBVIOUS
<1>1. channel \in [ChannelId -> ChannelType] /\ \A i \in ChannelId : channel[i].settled \subseteq DOMAIN channel[i].got
  BY ClosedIsAChannel DEF Init
<1>2. page \in [Pages -> PageType]
  BY Bounds DEF Init, PageType, Answers
<1>3. /\ opened \in 0..MaxChannels /\ active \in 0..opened /\ inits \in Nat
      /\ breaks \in 0..MaxBreaks /\ failures \in 0..MaxFailures /\ crashes \in 0..MaxCrashes
  BY Bounds DEF Init
<1>6. session \in [Matches -> Answers]
  BY DEF Init, Answers
<1>7. TypeOK
  BY <1>1, <1>2, <1>3, <1>6 DEF Init, TypeOK
<1>4. NothingWithoutChannel
  BY DEF Init, NothingWithoutChannel, Closed
<1>5. PagesShowTheSession
  BY DEF Init, PagesShowTheSession
<1>. QED
  BY <1>7, <1>4, <1>5 DEF SInv

LEMMA NextSInv == SInv /\ [Next]_vars => SInv'
<1> SUFFICES ASSUME SInv, [Next]_vars PROVE SInv'
  OBVIOUS
<1> USE DEF SInv
<1>1. TypeOK'
  <2>1. CASE UNCHANGED vars
    BY <2>1 DEF TypeOK, vars
  <2>. QED
    BY <2>1, MatchKeepsTypes, ConnectKeepsTypes, DeliverKeepsTypes, BreakKeepsTypes, CrashKeepsTypes,
       PostKeepsTypes, TaskStepKeepsTypes, PageKeepsTypes DEF Next
<1>. QED
  BY <1>1, NothingWithoutChannelStep, PagesShowTheSessionStep

(* The invariant holds in every reachable state. *)
THEOREM SessionInvariance == Spec => []SInv
<1>. QED
  BY InitSInv, NextSInv, PTL DEF Spec

(* Types of MatchEvents, whatever the bounds. *)
THEOREM EventTypes == Spec => []TypeOK
<1>1. SInv => TypeOK
  BY DEF SInv
<1>. QED
  BY <1>1, SessionInvariance, PTL

(* The first session row of a match stays, whatever consumers, redeliveries *)
(* and posts follow.                                                        *)
THEOREM OneSessionPerMatch == Spec => SessionIsFixed
<1>1. SInv /\ [Next]_vars => [\A m \in Matches : session[m] # None => session'[m] = session[m]]_session
  BY StepKeepsSessions DEF SInv, TypeOK
<1>. QED
  BY <1>1, SessionInvariance, PTL DEF Spec, SessionIsFixed

(* Both users work on one question. *)
THEOREM OneQuestionPerSession == Spec => []PeersSeeOneQuestion
<1>1. SInv => PeersSeeOneQuestion
  <2> SUFFICES ASSUME SInv, NEW m \in Matches,
                      page[<<m, 1>>].question # None, page[<<m, 2>>].question # None
               PROVE  page[<<m, 1>>].question = page[<<m, 2>>].question
    BY DEF PeersSeeOneQuestion
  <2>1. <<m, 1>> \in Pages /\ <<m, 2>> \in Pages
    BY DEF Pages
  <2>. QED
    BY <2>1 DEF SInv, PagesShowTheSession
<1>. QED
  BY <1>1, SessionInvariance, PTL

=============================================================================
