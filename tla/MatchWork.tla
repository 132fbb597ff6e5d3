----------------------------- MODULE MatchWork -----------------------------
(***************************************************************************)
(* How the runs of MatchQueue come about: an interval and every handler    *)
(* send a message to the queue matching.match.work, and each replica takes *)
(* one at a time; while the broker is away they run the matcher themselves. *)
(* A replica is a matcher of MatchQueue: its next run waits for the last.  *)
(***************************************************************************)
EXTENDS MatchQueue, FiniteSets

CONSTANTS MaxWork,   \* bound: messages ready in the work queue
          MaxBreaks, \* bound: how often the broker goes away
          MaxDeaths  \* bound: how often replicas are stopped or killed

ASSUME WorkAssumption == /\ MaxWork \in Nat /\ MaxBreaks \in Nat /\ MaxDeaths \in Nat
                         /\ IsFiniteSet(Matchers)

VARIABLES
    broker,   \* whether the broker is up
    ready,    \* messages ready in the durable queue
    consumer, \* of a replica: "starting", "retry", "listening", "broken" or "deaf"
    unacked,  \* whether the replica runs for a message
    breaks, deaths

workVars == <<broker, ready, consumer, unacked, breaks, deaths>>

Consumers == {"starting", "retry", "listening", "broken", "deaf"}

Requeued(S) == LET n == ready + Cardinality({m \in S : unacked[m] /\ consumer[m] = "listening"})
               IN  IF n > MaxWork THEN MaxWork ELSE n

(* publishMatchQueueWork: a message when the broker is there. *)
SendWork ==
    /\ broker /\ ready < MaxWork
    /\ ready' = ready + 1
    /\ UNCHANGED <<vars, broker, consumer, unacked, breaks, deaths>>

(* Sending fails, and the run is done here. *)
RunInline(m) == ~broker /\ ~unacked[m] /\ Begin(m) /\ UNCHANGED workVars

(* prefetch(1): no delivery while one is unacknowledged. *)
Deliver(m) ==
    /\ broker /\ consumer[m] = "listening" /\ ~unacked[m] /\ ready > 0
    /\ Begin(m)
    /\ ready' = ready - 1
    /\ unacked' = [unacked EXCEPT ![m] = TRUE]
    /\ UNCHANGED <<broker, consumer, breaks, deaths>>

(* Mutant of Acknowledge: the error of ack and nack is swallowed. *)
AcknowledgeQuietly(m) ==
    /\ unacked[m] /\ pc[m] = "idle"
    /\ unacked' = [unacked EXCEPT ![m] = FALSE]
    /\ UNCHANGED <<vars, broker, ready, consumer, breaks, deaths>>

(* After the run: ack. On a channel that broke meanwhile ack and nack both  *)
(* throw, the rejection is not handled and the process ends and restarts.  *)
Acknowledge(m) ==
    /\ unacked[m] /\ pc[m] = "idle"
    /\ unacked' = [unacked EXCEPT ![m] = FALSE]
    /\ consumer' = [consumer EXCEPT ![m] = IF @ = "broken" THEN "starting" ELSE @]
    /\ UNCHANGED <<vars, broker, ready, breaks, deaths>>

StartConsumer(m) ==
    /\ consumer[m] = "starting"
    /\ consumer' = [consumer EXCEPT ![m] = IF broker THEN "listening" ELSE "retry"]
    /\ UNCHANGED <<vars, broker, ready, unacked, breaks, deaths>>

(* The retry timer, 5 s after a failed start. *)
RetryConsumer(m) ==
    /\ consumer[m] = "retry"
    /\ consumer' = [consumer EXCEPT ![m] = "starting"]
    /\ UNCHANGED <<vars, broker, ready, unacked, breaks, deaths>>

(* Connections break and deliveries return to the queue. A listening        *)
(* consumer only logs it: it will not hear of another message.             *)
BrokerStops ==
    /\ broker /\ breaks < MaxBreaks
    /\ broker' = FALSE
    /\ breaks' = breaks + 1
    /\ ready' = Requeued(Matchers)
    /\ consumer' = [m \in Matchers |-> IF consumer[m] # "listening" THEN consumer[m]
                                       ELSE IF unacked[m] THEN "broken" ELSE "deaf"]
    /\ UNCHANGED <<vars, unacked, deaths>>

BrokerStarts == ~broker /\ broker' = TRUE
                /\ UNCHANGED <<vars, ready, consumer, unacked, breaks, deaths>>

(* A replica is killed or shut down, and starts again: a run under way is   *)
(* rolled back and its message returns to the queue.                       *)
Restart(m) ==
    /\ deaths < MaxDeaths
    /\ deaths' = deaths + 1
    /\ IF pc[m] = "idle" THEN UNCHANGED vars
       ELSE Rollback(m) /\ UNCHANGED <<now, table, call, events, failures>>
    /\ ready' = Requeued({m})
    /\ unacked' = [unacked EXCEPT ![m] = FALSE]
    /\ consumer' = [consumer EXCEPT ![m] = "starting"]
    /\ UNCHANGED <<broker, breaks>>

WorkInit ==
    /\ Init
    /\ broker = TRUE
    /\ ready = 0
    /\ consumer = [m \in Matchers |-> "starting"]
    /\ unacked = [m \in Matchers |-> FALSE]
    /\ breaks = 0 /\ deaths = 0

(* The queue at work, with the handlers that let a grace begin. (The others *)
(* change nothing here: MatchQueue has them.)                              *)
QueueStep ==
    \/ Tick
    \/ \E u \in Users, c \in Criteria : Create(u, c)
    \/ \E r \in Requests : Cancel(r)
    \/ \E c \in Callers, r \in Requests : ReadForCall(c, "disconnect", r)
    \/ \E c \in Callers : CallStep(c)
    \/ \E m \in Matchers : MatcherStep(m)

WorkNext ==
    \/ QueueStep /\ UNCHANGED workVars
    \/ SendWork \/ BrokerStops \/ BrokerStarts
    \/ \E m \in Matchers : \/ RunInline(m) \/ Deliver(m) \/ Acknowledge(m)
                           \/ StartConsumer(m) \/ RetryConsumer(m) \/ Restart(m)

allVars == <<vars, workVars>>

WorkSpec == WorkInit /\ [][WorkNext]_allVars

(* The interval of 4 s and the retry timer go off, the broker delivers, and *)
(* what has begun ends; nothing says that a stopped broker comes back.     *)
WorkFairness ==
    /\ WF_allVars(Tick /\ UNCHANGED workVars)
    /\ WF_allVars(SendWork)
    /\ \A m \in Matchers :
        /\ WF_allVars(RunInline(m)) /\ WF_allVars(Deliver(m)) /\ WF_allVars(Acknowledge(m))
        /\ WF_allVars(StartConsumer(m)) /\ WF_allVars(RetryConsumer(m))
        /\ WF_allVars(MatcherStep(m) /\ UNCHANGED workVars)

FairWorkSpec == WorkSpec /\ WorkFairness

(* What is ready, delivered and heard fits together: a message under way is *)
(* run by a listening replica, or by one whose channel broke in the run.   *)
WorkTypeOK ==
    /\ broker \in BOOLEAN /\ ready \in 0..MaxWork
    /\ consumer \in [Matchers -> Consumers] /\ unacked \in [Matchers -> BOOLEAN]
    /\ \A m \in Matchers :
        /\ unacked[m] => consumer[m] \in {"listening", "broken"}
        /\ consumer[m] = "broken" => unacked[m]
        /\ consumer[m] = "listening" => broker

Answered(r) == row[r].status # "PENDING" \/ (row[r].deadline # None /\ row[r].deadline > MaxTime)

(* Whatever breaks or restarts, a request is matched or timed out, as long  *)
(* as one replica is not deaf. (With the broker back and all of them deaf   *)
(* the messages pile up and nobody is matched: the excepted case.)         *)
WorkAnswersRequests ==
    \A r \in Requests :
        (row[r].status = "PENDING" /\ req[r].created + MatchTimeout <= MaxTime)
            ~> (Answered(r) \/ \A m \in Matchers : consumer[m] = "deaf")
=============================================================================
