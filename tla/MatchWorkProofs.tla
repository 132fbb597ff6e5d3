-------------------------- MODULE MatchWorkProofs --------------------------
(***************************************************************************)
(* What starts the runs and what ends them, for any number of replicas:    *)
(* the work queue keeps its types, and the safety of the match queue holds *)
(* although replicas are stopped in the middle of a run.                   *)
(***************************************************************************)
EXTENDS MatchWork, MatchQueueProofs, FiniteSetTheorems

USE NoneAssumption, WorkAssumption

-----------------------------------------------------------------------------
(* The work queue. *)

(* How many deliveries return does not matter: the queue stays in its bound. *)
LEMMA RequeuedIsBounded ==
  ASSUME NEW S, IsFiniteSet(S), ready \in 0..MaxWork
  PROVE  Requeued(S) \in 0..MaxWork
<1> DEFINE back == {m \in S : unacked[m] /\ consumer[m] = "listening"}
<1>1. Cardinality(back) \in Nat
  BY FS_Subset, FS_CardinalityType
<1> HIDE DEF back
<1>2. Requeued(S) = IF ready + Cardinality(back) > MaxWork THEN MaxWork
                    ELSE ready + Cardinality(back)
  BY DEF Requeued, back
<1>. QED BY <1>1, <1>2

LEMMA WorkTypesInitially == WorkInit => WorkTypeOK
  BY DEF WorkInit, WorkTypeOK, Consumers

LEMMA WorkTypesPreserved ==
  ASSUME WorkTypeOK, [WorkNext]_allVars
  PROVE  WorkTypeOK'
<1> USE DEF WorkTypeOK, Consumers
<1>1. CASE UNCHANGED workVars
  BY <1>1 DEF workVars
<1>2. CASE SendWork
  BY <1>2 DEF SendWork
<1>3. CASE BrokerStops
  <2>1. ready' \in 0..MaxWork
    BY <1>3, RequeuedIsBounded DEF BrokerStops
  <2>. QED BY <1>3, <2>1 DEF BrokerStops
<1>4. CASE BrokerStarts
  BY <1>4 DEF BrokerStarts
<1>5. ASSUME NEW m \in Matchers, Deliver(m) PROVE WorkTypeOK'
  BY <1>5 DEF Deliver
<1>6. ASSUME NEW m \in Matchers, Acknowledge(m) PROVE WorkTypeOK'
  BY <1>6 DEF Acknowledge
<1>7. ASSUME NEW m \in Matchers, StartConsumer(m) PROVE WorkTypeOK'
  BY <1>7 DEF StartConsumer
<1>8. ASSUME NEW m \in Matchers, RetryConsumer(m) PROVE WorkTypeOK'
  BY <1>8 DEF RetryConsumer
<1>9. ASSUME NEW m \in Matchers, Restart(m) PROVE WorkTypeOK'
  <2>1. IsFiniteSet({m})
    BY FS_Singleton
  <2>2. ready' \in 0..MaxWork
    BY <1>9, <2>1, RequeuedIsBounded DEF Restart
  <2>. QED BY <1>9, <2>2 DEF Restart
<1>. QED
  BY <1>1, <1>2, <1>3, <1>4, <1>5, <1>6, <1>7, <1>8, <1>9
     DEF WorkNext, RunInline, allVars, workVars

(* A message under way is run by a listening replica, or by one whose       *)
(* channel broke in the run, however the broker and replicas come and go.  *)
THEOREM WorkFitsTogether == WorkSpec => []WorkTypeOK
<1>1. WorkTypeOK /\ [WorkNext]_allVars => WorkTypeOK'
  BY WorkTypesPreserved
<1>. QED BY <1>1, WorkTypesInitially, PTL DEF WorkSpec

-----------------------------------------------------------------------------
(* The queue under these runs. *)

(* A step of the composition is one of the queue, or a replica stops: then  *)
(* at most its run is rolled back.                                         *)
LEMMA WorkStepOfQueue ==
  ASSUME [WorkNext]_allVars
  PROVE  \/ [Next]_vars
         \/ \E m \in Matchers : /\ Rollback(m)
                                /\ UNCHANGED <<now, table, call, events, failures>>
<1>1. CASE QueueStep
  BY <1>1 DEF QueueStep, Next
<1>2. ASSUME NEW m \in Matchers, RunInline(m) \/ Deliver(m) PROVE Next
  BY <1>2 DEF RunInline, Deliver, Next
<1>3. ASSUME NEW m \in Matchers, Restart(m)
      PROVE  \/ UNCHANGED vars
             \/ Rollback(m) /\ UNCHANGED <<now, table, call, events, failures>>
  BY <1>3 DEF Restart
<1>4. CASE SendWork \/ BrokerStops \/ BrokerStarts
           \/ \E m \in Matchers : Acknowledge(m) \/ StartConsumer(m) \/ RetryConsumer(m)
  BY <1>4 DEF SendWork, BrokerStops, BrokerStarts, Acknowledge, StartConsumer, RetryConsumer
<1>5. CASE UNCHANGED allVars
  BY <1>5 DEF allVars
<1>. QED
  BY <1>1, <1>2, <1>3, <1>4, <1>5 DEF WorkNext

LEMMA QueueInvInitially == WorkInit => IInv
  BY Initial DEF WorkInit

LEMMA QueueInvPreserved == IInv /\ [WorkNext]_allVars => IInv'
<1>1. SUFFICES ASSUME IInv, [WorkNext]_allVars PROVE IInv'
  OBVIOUS
<1>2. CASE [Next]_vars
  BY <1>1, <1>2, Inductive
<1>3. ASSUME NEW m \in Matchers, Rollback(m), UNCHANGED <<now, table, call, events, failures>>
      PROVE  IInv'
  BY <1>1, <1>3, RollbackStep DEF IInv, TypeOK, table, events
<1>. QED
  BY <1>1, <1>2, <1>3, WorkStepOfQueue

LEMMA QueueInvAlways == WorkSpec => []IInv
  BY QueueInvInitially, QueueInvPreserved, PTL DEF WorkSpec

(* Committed pairs are whole, although replicas stop within their runs.     *)
THEOREM PairingSurvivesRestarts == WorkSpec => []PairsAreMutual
<1>1. IInv => PairsAreMutual
  BY DEF IInv
<1>. QED BY <1>1, QueueInvAlways, PTL

(* A request leaves the queue once and keeps its partner, although the      *)
(* runs and their replicas come and go.                                    *)
THEOREM RestartsKeepTheTable == WorkSpec => LeavesQueueForGood
<1>1. IInv /\ [WorkNext]_allVars =>
        [\A r \in Requests :
           /\ row[r].status # "FREE" /\ row'[r].status = "PENDING" => row[r].status = "PENDING"
           /\ row[r].peer # None => row'[r].peer = row[r].peer]_row
  <2>1. SUFFICES ASSUME IInv, [WorkNext]_allVars
                 PROVE  UNCHANGED row \/ \A r \in Requests : RowChange(r)
    BY DEF RowChange
  <2>2. CASE [Next]_vars
    BY <2>1, <2>2, StepChangesRows
  <2>3. CASE \E m \in Matchers : Rollback(m) /\ UNCHANGED <<now, table, call, events, failures>>
    BY <2>3 DEF table
  <2>. QED BY <2>1, <2>2, <2>3, WorkStepOfQueue
<1>. QED
  BY <1>1, QueueInvAlways, PTL DEF WorkSpec, LeavesQueueForGood
=============================================================================
