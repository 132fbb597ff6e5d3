------------------------------ MODULE Executor ------------------------------
(***************************************************************************)
(* The code execution service: POST /execute fetches the test cases, takes *)
(* a slot of the semaphore, and drives one container through its life. The *)
(* jobs run concurrently; every call to Docker may fail, and the program   *)
(* of the user may never end. What the program prints is left out.         *)
(***************************************************************************)
EXTENDS Naturals, FiniteSets

CONSTANTS Jobs,          \* executions, in the order in which they are posted
          MaxConcurrent, \* maxConcurrent: slots of the semaphore
          MaxFaults      \* bound: calls to Docker that fail

ASSUME ExecutorAssumption == /\ Jobs \subseteq Nat
                             /\ IsFiniteSet(Jobs)
                             /\ MaxConcurrent \in Nat \ {0}
                             /\ MaxFaults \in Nat

VARIABLES stage,  \* where a job stands in PostExecute and Execute
          box,    \* its container, as Docker sees it
          slots,  \* len(e.semaphore)
          failed  \* the calls to Docker that failed for it

execVars == <<stage, box, slots, failed>>

Stages == {"idle", "fetching", "queued", "holding", "created", "copied",
           "started", "killing", "removing", "releasing", "answered"}
Calls == {"pull", "create", "copy", "start", "kill", "remove"}

(* Between e.semaphore <- struct{}{} and the deferred <-e.semaphore. *)
Holding == {"holding", "created", "copied", "started", "killing", "removing",
            "releasing"}

ExecInit == /\ stage = [j \in Jobs |-> "idle"]
            /\ box = [j \in Jobs |-> "none"]
            /\ slots = 0
            /\ failed = [j \in Jobs |-> {}]

Goto(j, s) == stage' = [stage EXCEPT ![j] = s]
Becomes(j, b) == box' = [box EXCEPT ![j] = b]
Ok == UNCHANGED failed

MayFail == Cardinality({f \in Jobs \X Calls : f[2] \in failed[f[1]]}) < MaxFaults
Fails(j, call) == /\ MayFail
                  /\ failed' = [failed EXCEPT ![j] = @ \union {call}]

Submit(j) == /\ stage[j] = "idle"
             /\ Goto(j, "fetching")
             /\ UNCHANGED <<box, slots, failed>>

(* No test cases, or the question service fails: answered at once. *)
FetchTestCases(j) ==
    /\ stage[j] = "fetching"
    /\ Goto(j, "queued") \/ Goto(j, "answered")
    /\ UNCHANGED <<box, slots, failed>>

Acquire(j) == /\ stage[j] = "queued"
              /\ slots < MaxConcurrent
              /\ slots' = slots + 1
              /\ Goto(j, "holding")
              /\ UNCHANGED <<box, failed>>

(* Runner, image and container; a call that runs into its deadline may have *)
(* had its effect.                                                          *)
Create(j) ==
    /\ stage[j] = "holding"
    /\ \/ Ok /\ Becomes(j, "created") /\ Goto(j, "created")
       \/ Fails(j, "pull") /\ UNCHANGED box /\ Goto(j, "releasing")
       \/ /\ Fails(j, "create")
          /\ Becomes(j, "created") \/ UNCHANGED box
          /\ Goto(j, "releasing")
    /\ UNCHANGED slots

(* The removal is deferred after the copy only. *)
CopyToContainer(j) ==
    /\ stage[j] = "created"
    /\ \/ Ok /\ Goto(j, "copied")
       \/ Fails(j, "copy") /\ Goto(j, "releasing")
    /\ UNCHANGED <<box, slots>>

(* Mutant of Start: a container that does not start is not cleaned up. *)
StartUndeferred(j) ==
    /\ stage[j] = "copied"
    /\ \/ Ok /\ Becomes(j, "running") /\ Goto(j, "started")
       \/ Fails(j, "start") /\ UNCHANGED box /\ Goto(j, "releasing")
    /\ UNCHANGED slots

Start(j) ==
    /\ stage[j] = "copied"
    /\ \/ Ok /\ Becomes(j, "running") /\ Goto(j, "started")
       \/ /\ Fails(j, "start")
          /\ Becomes(j, "running") \/ UNCHANGED box
          /\ Goto(j, "removing")
    /\ UNCHANGED slots

(* The program of the user ends, which it need not. *)
ProgramEnds(j) == /\ box[j] = "running"
                  /\ Becomes(j, "exited")
                  /\ UNCHANGED <<stage, slots, failed>>

(* ContainerWait answers, or fails after executionTimeout: then kill. *)
Wait(j) == /\ stage[j] = "started"
           /\ \/ box[j] = "exited" /\ Goto(j, "removing")
              \/ Goto(j, "killing")
           /\ UNCHANGED <<box, slots, failed>>

Kill(j) == /\ stage[j] = "killing"
           /\ \/ Ok /\ Becomes(j, "exited")
              \/ Fails(j, "kill") /\ UNCHANGED box
           /\ Goto(j, "removing")
           /\ UNCHANGED slots

(* Mutant of Remove: not forced, so a running container stays. *)
RemoveStopped(j) ==
    /\ stage[j] = "removing"
    /\ \/ Ok /\ (IF box[j] = "running" THEN UNCHANGED box ELSE Becomes(j, "removed"))
       \/ Fails(j, "remove") /\ UNCHANGED box
    /\ Goto(j, "releasing")
    /\ UNCHANGED slots

Remove(j) == /\ stage[j] = "removing"
             /\ \/ Ok /\ Becomes(j, "removed")
                \/ Fails(j, "remove") /\ UNCHANGED box
             /\ Goto(j, "releasing")
             /\ UNCHANGED slots

(* The last deferred call; the response follows. *)
Release(j) == /\ stage[j] = "releasing"
              /\ slots' = slots - 1
              /\ Goto(j, "answered")
              /\ UNCHANGED <<box, failed>>

JobStep(j) == \/ FetchTestCases(j) \/ Acquire(j) \/ Create(j)
              \/ CopyToContainer(j) \/ Start(j) \/ Wait(j) \/ Kill(j)
              \/ Remove(j) \/ Release(j)

ExecNext == \E j \in Jobs : Submit(j) \/ JobStep(j) \/ ProgramEnds(j)

ExecSpec == ExecInit /\ [][ExecNext]_execVars

(* Type invariant. *)
ExecTypeOK == /\ stage \in [Jobs -> Stages]
              /\ box \in [Jobs -> {"none", "created", "running", "exited", "removed"}]
              /\ slots \in 0..MaxConcurrent
              /\ failed \in [Jobs -> SUBSET Calls]

(* The semaphore counts exactly the jobs between its acquisition and its *)
(* release, on every path out of Execute, and never more than its size.  *)
SlotsAreBounded == /\ slots = Cardinality({j \in Jobs : stage[j] \in Holding})
                   /\ slots <= MaxConcurrent

(* A program runs only while its job holds a slot: what stays behind after *)
(* an answer has ended, unless its removal failed. A failed kill alone     *)
(* does not let it escape (executor.go:124-130 against 140-145).           *)
NothingRunsUnattended ==
    \A j \in Jobs : box[j] = "running" =>
        stage[j] \in Holding \/ "remove" \in failed[j]

(* Every container is gone when its job is answered, unless Docker refused *)
(* its removal or the job failed before the removal was deferred.          *)
ContainersAreRemoved ==
    \A j \in Jobs : stage[j] = "answered" =>
        \/ box[j] \in {"none", "removed"}
        \/ failed[j] \intersect {"create", "copy", "remove"} # {}
=============================================================================
